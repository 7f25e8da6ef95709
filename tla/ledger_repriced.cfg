SPECIFICATION Spec
CONSTANTS
  Symbols = {"A"}
  LotIds = {1, 2}
  Requests = {r1}
  Workers = {w1}
  Buys <- OneBuy
  Sells <- None
  Moves <- None
  Manuals <- None
  Uploads <- None
  Quotes <- SomeQuotes
  Deletes = FALSE
  Crashes = FALSE
  MaxOps = 3
CHECK_DEADLOCK FALSE
INVARIANTS
  TradesAreBacked
