SPECIFICATION FairSpec
CONSTANTS
  Portfolios = {p1, p2}
  Requests = {r1}
  Workers = {w1}
  Kinds = {"refresh_market_data"}
  Ranges = {"day", "year"}
  Zooms <- YearAndDay
  MaxJobs = 2
  MaxQueue = 1
  RefreshWaits = TRUE
  Faults = {}
  Starved = {p2}
CHECK_DEADLOCK FALSE
PROPERTY EveryJobEnds
