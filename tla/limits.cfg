CONSTANTS
  t1 = t1
  t2 = t2
  Threads = {t1, t2}
  Keys <- AllKeys
  Limit <- Limits
  Window <- Windows
  Traffic <- Groups
  Faults = {"error", "stop"}
  MaxFaults = 2
  Cap <- Caps
SPECIFICATION FairSpec
INVARIANTS TypeOK WindowKept NoMonopoly
PROPERTIES EveryCallEnds BudgetComesBack
