SPECIFICATION ServicesSpec
CONSTANTS
 None = None
 Addresses = {"e1", "E1", "e2"}
 Normal <- NormalForm
 TokenHashes = {"h1", "h2"}
 TokenKinds = {"refresh", "reset"}
 NewPortfolios <- RNew
 PositionSets <- RPositions
 LotSets <- RLots
 Amounts = {0, 4}
 Moves <- RMoves
 Trades <- RTrades
 Valuations <- RValuations
 SettingsRows <- RSettings
 QuoteLists <- RQuotes
 TickerLists <- RTickers
 Times = {1, 2}
 Options <- ROptions
 Expiries = {1, 2}
 MaxWrites = 5
 Held = {"AA", "BB"}
 Benchmarks = {"BB"}
 Pages = {"p1", "p2"}
 TTL = 1
 MaxCall = 1
 MaxTime = 6
 Dates = {1, 2, 3}
 MaxSurfaceExpiries = 2
 OptionsTTL = 1
 Retention = 0
 MaxOptionsTime = 1
 CleanTicker <- HClean
 Requests <- HRequests
 Ranges = {"day", "ytd", "year"}
 MaxHistoryTickers = 2
 FetchTime = 1
 MaxHistoryTime = 3
 Stocks = {"AA", "BB"}
 Closes = {1, 2}
 Deposits = {2, 5}
 Sizes = {2}
 Fees = {1}
 MaxEntries = 4
 MaxPoints = 3
 Blank = Blank
 Coins <- CCoins
 QuoteCoins <- CQuoteCoins
 Columns <- CColumns
 CoinRows <- CCoinRows
 PositionRecords <- CRecords
 MaxCoinRows = 4
 MaxPositionRows = 2
 Portfolios <- APortfolios
 WeightBounds <- ABounds
 SingleTrades <- ASingle
 TradeLists <- ALists
 CovarianceTickers <- ACovariance
 RiskScores = {1, 4, 5, 10}
 BondChoices <- ABonds
 PositionCaps = {10, 35}
 BondCatalog <- ACatalog
 RungLists <- BLists
 Capitals = {1200}
 BondScores = {2, 5, 8}
 CurveQuotes <- BQuotes
CHECK_DEADLOCK FALSE
INVARIANTS
 QuotesAreRecent CacheFollowsRows
 ChainsAnswerTheirDate SuiteHoldsItsChain
 HistoryIsOfItsTicker
 IndexIsTimeWeighted
 BasisFollowsCoins ImportKeepsTheBooks
 WeightsWithinBounds TradesMoveValue TargetsAddUp
 ScheduleKeepsPromises RungsEarnTheirYield RiskBuysMaturity
PROPERTY
 PostgresImplementsMemory
