SPECIFICATION FairSpec
CONSTANTS
  Portfolios = {p1, p2}
  Requests = {r1}
  Workers = {w1}
  Kinds = {"refresh_market_data"}
  Ranges = {"day", "year"}
  Zooms <- YearAndDay
  MaxJobs = 2
  MaxQueue = 1
  RefreshWaits = TRUE
  Faults = {"request"}
  Starved = {}
CHECK_DEADLOCK FALSE
PROPERTIES
  EveryJobEnds
  PendingRefreshEnds
