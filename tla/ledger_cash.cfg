SPECIFICATION Spec
CONSTANTS
  Symbols = {"A"}
  LotIds = {1}
  Requests = {r1, r2}
  Workers = {w1}
  Buys <- None
  Sells <- None
  Moves <- SomeMoves
  Manuals <- None
  Uploads <- None
  Quotes <- None
  Deletes = FALSE
  Crashes = FALSE
  MaxOps = 2
CHECK_DEADLOCK FALSE
INVARIANTS
  BooksBalance
