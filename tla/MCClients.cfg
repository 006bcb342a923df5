SPECIFICATION Spec
CONSTANTS
  Null = Null
  n1 = n1
  p1 = p1
  c1 = c1
  o1 = o1
  o2 = o2
  o3 = o3
 
INVARIANT OneReadyForQuery
 
 
INVARIANT NoLostWakeup
 
CHECK_DEADLOCK FALSE
