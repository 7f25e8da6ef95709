SPECIFICATION Spec
CONSTANTS
  Users = {u1}
  Threads = {t1, t2}
  TokenIds = {i1, i2, i3}
  MaxPasswords = 2
  u1 = u1
  t1 = t1
  t2 = t2
  i1 = i1
  i2 = i2
  i3 = i3
SYMMETRY Interchangeable
CHECK_DEADLOCK FALSE
INVARIANTS
  TypeOK
  OneTimeTokens
  OneTokenPerSignIn
  SessionsFollowPassword
