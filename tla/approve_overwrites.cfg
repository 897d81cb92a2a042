SPECIFICATION Spec
CONSTANTS
  o1 = o1
  o2 = o2
  f1 = f1
  ma = ma
  mb = mb
  None = None
  Orders = {o1, o2}
  Foreign = {}
  Funding <- Equal
  Settings <- Beside
INVARIANTS OneUnresolved
CHECK_DEADLOCK FALSE
