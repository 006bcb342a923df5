SPECIFICATION Spec
CONSTANTS
  cpA = cpA
  cpB = cpB
  w1 = w1
  s1 = s1
  o1 = o1
  NoCP = NoCP
  NoOrg = NoOrg
  Nil = Nil
 
INVARIANT CloseWaits
INVARIANT SocketOpen
PROPERTY HostsProgress
CHECK_DEADLOCK FALSE
