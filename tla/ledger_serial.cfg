SPECIFICATION Spec
CONSTANTS
  Symbols = {"A"}
  LotIds = {1, 2}
  Requests = {t1}
  Workers = {t1}
  Buys <- TwoBuys
  Sells <- TwoSales
  Moves <- SomeMoves
  Manuals <- SomeManuals
  Uploads <- SomeUploads
  Quotes <- SomeQuotes
  Deletes = TRUE
  Crashes = TRUE
  MaxOps = 4
CHECK_DEADLOCK FALSE
INVARIANTS
  TypeOK
  BooksBalance
  PositionsFollowLots
  ValuationIsCurrent
  TradesAreBacked
  SalesAreFifo
