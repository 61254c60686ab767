SPECIFICATION Spec
CONSTANTS
  o1 = o1
  n1 = n1
  n2 = n2
  Orders = {o1}
  Trades = {n1, n2}
  None = None
  MaxNotify = 2
CHECK_DEADLOCK FALSE
INVARIANTS
  NotifiedIsRecorded
