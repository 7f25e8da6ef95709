SPECIFICATION Spec
CONSTANTS
  Portfolios = {p1}
  Requests = {r1}
  Workers = {w1, w2}
  Kinds = {"refresh_market_history", "refresh_market_data", "manual_lot_rollup"}
  Ranges = {"day", "year"}
  Zooms <- YearAndDay
  MaxJobs = 1
  MaxQueue = 1
  RefreshWaits = FALSE
  Faults = {"push", "request", "worker", "budget"}
  Starved = {}
CHECK_DEADLOCK FALSE
SYMMETRY Threads
INVARIANTS
  TypeOK
  ActiveJobIsCarried
  RunningJobIsWorked
  CompletedHistoryIsFetched
