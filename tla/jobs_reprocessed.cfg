SPECIFICATION Spec
CONSTANTS
  Portfolios = {p1}
  Requests = {r1, r2}
  Workers = {w1}
  Kinds = {"refresh_market_data"}
  Ranges = {"day", "year"}
  Zooms <- YearAndDay
  MaxJobs = 1
  MaxQueue = 1
  RefreshWaits = TRUE
  Faults = {"push"}
  Starved = {}
CHECK_DEADLOCK FALSE
PROPERTY FinishedStaysFinished
