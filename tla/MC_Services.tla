------------------------------ MODULE MC_Services ------------------------------
(* Small instances of the modules around the ledger and the jobs. They share *)
(* no state, so each behaviour is one part's; the others stay as they start. *)
EXTENDS PostgresRepository, MarketCache, OptionChains, HistoryCache, PerformanceHistory,
        BrokerCsv, PortfolioAnalysis, BondStrategies, TLC

VARIABLES part, calls

(* The repository: two owners, what a portfolio holds and its ledger.        *)
NormalForm == [x \in {"e1", "E1", "e2", "AA", "aa", "BB", ""} |->
  CASE x = "E1" -> "e1" [] x = "aa" -> "AA" [] x = "" -> None [] OTHER -> x]
Position(s, n, c) == [symbol |-> s, quantity |-> n, cost |-> c, class |-> "equity"]
Lot(i, s, left, at) == [id |-> i, symbol |-> s, left |-> left, at |-> at, source |-> "manual"]
RPositions == {{}, {Position("AA", 1, 2), Position("BB", 1, 0)}}
RLots == {{}, {Lot(1, "AA", 2, 1), Lot(2, "AA", 0, 1)}, {Lot(1, "AA", 1, 1)}}
RNew == {[cash |-> 0, positions |-> {Position("AA", 1, 2)}, lots |-> {Lot(3, "AA", 1, 1)}],
         [cash |-> 4, positions |-> {}, lots |-> {}]}
RMoves == {[id |-> 2, at |-> 1, amount |-> 5, source |-> "manual"],
           [id |-> 1, at |-> 1, amount |-> 3, source |-> "manual"]}
RTrades == {[id |-> 2, at |-> 1, symbol |-> "AA", realized |-> None, lot_ids |-> <<1>>],
            [id |-> 1, at |-> 2, symbol |-> "AA", realized |-> 3, lot_ids |-> <<1, 2>>]}
RValuations == {[id |-> 2, at |-> 1, equity |-> 5], [id |-> 1, at |-> 1, equity |-> 3]}
RSettings == {[rate |-> 0, benchmarks |-> <<"BB", "AA">>, target |-> None, score |-> 7, watchlist |-> <<"AA">>]}
RQuote(t, n, at) == [ticker |-> t, price |-> n, fetched |-> at]
RQuotes == {<<>>, <<RQuote("aa", 1, 1)>>, <<RQuote("AA", 2, 2), RQuote("BB", 3, 1)>>,
            <<RQuote("AA", 4, 2), RQuote("aa", 5, 1)>>}
RTickers == {<<"AA">>, <<"BB", "", "aa", "AA">>}
ROption(i, h, e, at) == [id |-> i, ticker |-> "AA", hash |-> h, expiry |-> e, fetched |-> at]
ROptions == {ROption(2, "x", 1, 1), ROption(1, "x", 1, 2), ROption(3, "y", 2, 1), ROption(4, "z", 1, 1)}

(* Price histories: two tickers whose keys are one, and a third.             *)
HClean == [t \in {"BRK.B", "BRKB", "SPY"} |-> IF t = "BRK.B" THEN "BRKB" ELSE t]
HRequests == {{"BRK.B"}, {"BRK.B", "BRKB"}, {"BRK.B", "BRKB", "SPY"}}

(* Files of brokers.                                                         *)
CCoin(action, asset, quantity, spot, total, notes) ==
  [action |-> action, asset |-> asset, quantity |-> quantity, spot |-> spot, total |-> total, notes |-> notes]
CNote(from, sold, to, bought) == [from |-> from, sold |-> sold, to |-> to, bought |-> bought]
CCoinRows ==
  {CCoin("buy", "BTC", 1, 120, 240, Blank), CCoin("reward", "BTC", 2, 120, Blank, Blank),
   CCoin("buy", "ETH", 2, Blank, -240, Blank), CCoin("reward", "ETH", 1, Blank, 0, Blank),
   CCoin("sell", "BTC", -1, 240, 240, Blank), CCoin("send", "ETH", 2, Blank, Blank, Blank),
   CCoin("other", "ETH", 1, 120, 120, Blank), CCoin("buy", "USDC", 1, 1, 1, Blank),
   CCoin("convert", "BTC", 1, 120, 120, CNote("BTC", 2, "ETH", 1)),
   CCoin("convert", "ETH", 1, 120, 120, CNote("ETH", 1, "USDC", 2)),
   CCoin("convert", "ETH", 1, 120, 120, Blank)}
CRecord(symbol, quantity, price, value, cost, average) ==
  [symbol |-> symbol, quantity |-> quantity, price |-> price, value |-> value, cost |-> cost, average |-> average]
CRecords ==
  {CRecord(s, q, p, v, c, a) : s \in {"AA", "BB"}, q \in {Blank, 2}, p \in {Blank, 0, 3},
                               v \in {Blank, 8}, c \in {Blank, 0, 10}, a \in {Blank, 4}}
CColumns == {{"transactiontype", "asset", "quantitytransacted"}, {"symbol", "quantity"},
  {"symbol", "quantity", "price", "value", "cost", "average"}, {"symbol", "quantity", "value", "cost"}}
CCoins == {"BTC", "ETH", "USDC"}
CQuoteCoins == {"", "USDC"}

(* Portfolios to analyse, with the trades tried on them.                     *)
APos(s, q, p, c, sc) == [symbol |-> s, quantity |-> q, price |-> p, class |-> c, score |-> sc]
APort(c, ps) == [cash |-> c, positions |-> ps]
APortfolios ==
  {APort(0, <<>>), APort(4, <<>>)}
  \cup {APort(c, <<APos("AA", q, p, "equity", s)>>) : c \in {0, 300}, q \in {1, 3}, p \in {100, 200}, s \in {1, 5}}
  \cup {APort(c, <<APos("AA", q, 100, k, s), APos("BB", 2, 100, "equity", 2), APos("CC", 1, p, "equity", r)>>) :
          c \in {0, 300}, q \in {1, 8}, p \in {100, 200}, k \in {"equity", "bond", "cash"}, s \in {1, 9}, r \in {-1, 2, 5}}
  \cup {APort(300, <<APos("CASH", 1, 100, "cash", 1), APos("BIL", 2, 100, "equity", 1)>>)}
ABounds == {<<0, 100>>, <<0, 40>>, <<10, 45>>, <<30, 34>>, <<20, 30>>, <<60, 50>>, <<40, 60>>}
ATrade(t, s, q, p, b) == [symbol |-> t, side |-> s, quantity |-> q, price |-> p, bps |-> b]
ASingle == {ATrade(t, s, q, p, b) : t \in {"AA", "DD"}, s \in {"buy", "sell"}, q \in {1, 2}, p \in {100, 300}, b \in {0, 100}}
AOrder(t, s, q, p, n) == [ticker |-> t, side |-> s, quantity |-> q, price |-> p, notional |-> n]
AOrders == {AOrder("AA", s, q, p, 0) : s \in {"buy", "sell"}, q \in {1, 3}, p \in {0, 100, 200}}
  \cup {AOrder(t, s, 0, p, 200) : t \in {"AA", "DD", "EE"}, s \in {"buy", "sell"}, p \in {0, 100}}
  \cup {AOrder("BB", "buy", 1, 0, 100)}
ALists == {<<a>> : a \in AOrders} \cup {<<a, b>> : a \in AOrders, b \in AOrders}
ACovariance == {"AA", "BB", "CC", "DD"}
ABonds == {{}, {"BIL", "SHY", "AA"}}
ACatalog == {"BIL", "SHY"}

(* Bonds: single rungs, two of different kinds, three with and without       *)
(* weights; half-year maturities and others.                                 *)
BRung(w, pct, c, y, q, p) ==
  [weight |-> w, face |-> 8, percent |-> pct, coupon |-> c, yield |-> y, quarters |-> q, payments |-> p]
BRungs == {BRung(w, pct, c, y, q, p) : w \in {0, 1}, pct \in {50, 100}, c \in {<<0, 1>>, <<1, 4>>},
             y \in {<<0, 1>>, <<1, 1>>, <<-1, 2>>}, q \in {2, 4, 5, 6, 8}, p \in {1, 2}}
BPairs == {<<[a EXCEPT !.weight = 3], b>> :
             a \in {x \in BRungs : x.percent = 50 /\ x.yield = <<1, 1>> /\ x.payments = 2},
             b \in {x \in BRungs : x.percent = 100 /\ x.yield = <<-1, 2>> /\ x.payments = 1}}
BThird(w, q) == BRung(w, 100, <<1, 4>>, <<1, 1>>, q, 2)
BLists == {<<b>> : b \in BRungs} \cup BPairs
          \cup {<<BThird(u, 4), BThird(v, q), BThird(w, 8)>> : u, v, w \in {0, 2}, q \in {2, 5, 8}}
BQuotes == [{1, 20, 40, 120} -> {0, 45, 100}]

-----------------------------------------------------------------------------

RepositoryParts == {"accounts", "holdings", "ledger", "market"}
CacheParts == {"quotes", "pages"}
Parts == RepositoryParts \cup CacheParts
         \cup {"options", "history", "performance", "csv", "analysis", "bonds"}

(* Other parts have one initial state, not all of theirs.                    *)
Still(p, x, S) == part # p => x = CHOOSE y \in S : TRUE
ServicesInit ==
  /\ part \in Parts
  /\ calls = 0
  /\ Init
  /\ CacheInit
  /\ OptionsInit /\ Still("options", listed, SUBSET Dates)
  /\ HistoryInit
  /\ PerformanceInit /\ closing["BB"] = 2 /\ Still("performance", closing["AA"], Closes)
  /\ CsvInit /\ Still("csv", columns, Columns)
  /\ AnalysisInit /\ Still("analysis", portfolio, Portfolios)
  /\ BondsInit /\ Still("bonds", quotes, CurveQuotes)

(* A sequence of calls ends with the first that changes nothing.             *)
RepositoryNext ==
  /\ calls = 0
  /\ \/ part = "accounts" /\ writes < 4 /\ AccountCall
     \/ part \in {"holdings", "ledger"} /\ (PortfolioCall \/ CreateUser("e1", "old"))
     \/ part = "holdings" /\ \E p \in 1 .. 3 : HoldingCall(p)
     \/ part = "ledger" /\ \E p \in 1 .. 3 : LedgerCall(p)
     \/ part = "market" /\ writes < 4 /\ MarketCall
     \/ part \in RepositoryParts /\ writes \in {2, 3} /\ Clear
  /\ calls' = IF writes' = writes THEN 1 ELSE 0

(* Both tickers on one page, or one ticker on two; two refreshes.            *)
CachePart ==
  /\ part \in CacheParts
  /\ CacheNext
  /\ part = "quotes" => page'["p2"] = page["p2"]
  /\ part = "pages" => "AA" \notin DOMAIN refresh'.quotes
  /\ calls' = calls + (IF refresh.at = "idle" /\ refresh'.at # "idle" THEN 1 ELSE 0)
  /\ calls' <= 2

(* Four calls, the last two of chains; one that fails is the last.           *)
OptionsPart ==
  /\ part = "options"
  /\ calls < 4
  /\ IF calls < 2 THEN OptionsNext ELSE Pass \/ \E e \in Dates : RequestChain(e, FALSE)
  /\ calls' = IF reply'.kind \in {"chain", "suite", "none"} THEN calls + 1 ELSE 4

HistoryPart == part = "history" /\ HistoryNext /\ UNCHANGED calls
CsvPart == part = "csv" /\ CsvNext /\ UNCHANGED calls
AnalysisPart == part = "analysis" /\ AnalysisNext /\ UNCHANGED calls

(* BB keeps its price; its history may begin later than that of AA. Up to    *)
(* five entries and points together, or seven where only cash moves and lots *)
(* of AA are brought in, so that there is time to own nothing for a while.   *)
OnlyMoved ==
  /\ ledger.trades = <<>> /\ series["BB"] = <<>> /\ closing["AA"] = 2
  /\ \A n \in DOMAIN ledger.cash : ledger.cash[n].amount = 2
  /\ \A n \in DOMAIN ledger.lots : ledger.lots[n].symbol = "AA" /\ ledger.lots[n].source = "manual"
PerformancePart ==
  /\ part = "performance"
  /\ PerformanceNext
  /\ closing'["BB"] = 2
  /\ \/ instant <= 5 /\ LedgerEntries' <= 3
     \/ instant <= 7 /\ OnlyMoved'
  /\ series'["AA"] # series["AA"] \/ series' = series
  /\ UNCHANGED calls

(* Strategies are analysed with one curve, since they do not read it.        *)
BondsPart ==
  /\ part = "bonds"
  /\ \/ RecommendRungs
     \/ (\A q \in DOMAIN quotes : quotes[q] = 0) /\ AnalyzeStrategy
  /\ UNCHANGED calls

ServicesNext ==
  /\ UNCHANGED part
  /\ \/ RepositoryNext /\ UNCHANGED <<cacheVars, optionVars, historyVars, historyOf, csvVars, analysisVars, bondVars>>
     \/ CachePart /\ UNCHANGED <<vars, optionVars, historyVars, historyOf, csvVars, analysisVars, bondVars>>
     \/ OptionsPart /\ UNCHANGED <<vars, cacheVars, historyVars, historyOf, csvVars, analysisVars, bondVars>>
     \/ HistoryPart /\ UNCHANGED <<vars, cacheVars, optionVars, historyOf, csvVars, analysisVars, bondVars>>
     \/ PerformancePart /\ UNCHANGED <<vars, cacheVars, optionVars, historyVars, csvVars, analysisVars, bondVars>>
     \/ CsvPart /\ UNCHANGED <<vars, cacheVars, optionVars, historyVars, historyOf, analysisVars, bondVars>>
     \/ AnalysisPart /\ UNCHANGED <<vars, cacheVars, optionVars, historyVars, historyOf, csvVars, bondVars>>
     \/ BondsPart /\ UNCHANGED <<vars, cacheVars, optionVars, historyVars, historyOf, csvVars, analysisVars>>

servicesVars == <<vars, cacheVars, optionVars, historyVars, historyOf, csvVars, analysisVars, bondVars, part, calls>>
ServicesSpec == ServicesInit /\ [][ServicesNext]_servicesVars
=============================================================================
