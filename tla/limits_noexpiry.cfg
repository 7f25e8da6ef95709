CONSTANTS
  t1 = t1
  t2 = t2
  Threads = {t1, t2}
  Keys <- AllKeys
  Limit <- Limits
  Window <- Windows
  Traffic <- Groups
  Faults = {"stop", "expire"}
  MaxFaults = 1
  Cap <- Caps
SPECIFICATION FairSpec
PROPERTIES BudgetComesBack
