SPECIFICATION Spec
CONSTANTS
  Nil = Nil
  cpA = cpA
  cpB = cpB
  r1 = r1
  r2 = r2
  r3 = r3
 
INVARIANT ConnectionsCapped
INVARIANT ProtocolsAgree
INVARIANT NoSessionLost
INVARIANT SocketAccounted
PROPERTY NoOvertaking
 
PROPERTY RetireSparesSessions
PROPERTY StatementsStayInTransaction
CHECK_DEADLOCK FALSE
