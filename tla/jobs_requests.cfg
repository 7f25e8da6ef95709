SPECIFICATION Spec
CONSTANTS
  Portfolios = {p1}
  Requests = {r1, r2}
  Workers = {w1}
  Kinds = {"refresh_market_data", "refresh_bond_market_data", "manual_lot_rollup"}
  Ranges = {"day", "year"}
  Zooms <- YearAndDay
  MaxJobs = 2
  MaxQueue = 2
  RefreshWaits = FALSE
  Faults = {"request", "worker"}
  Starved = {}
CHECK_DEADLOCK FALSE
INVARIANT NoRefreshOverlooked
PROPERTIES
  LifecycleSpec
