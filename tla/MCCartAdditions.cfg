SPECIFICATION Spec
CONSTANTS
  m1 = m1
  g1 = g1
  s1 = s1
  s2 = s2
  t1 = t1
  t2 = t2
  Members = {m1}
  Guests = {g1}
  Skus = {s1, s2}
  Threads = {t1, t2}
  InitLines <- Carts
  MaxTotal = 2
  MaxCalls = 3
  MaxAdded = 1
  MaxRestarts = 1
CHECK_DEADLOCK FALSE
INVARIANTS
  NoAdditionLost
