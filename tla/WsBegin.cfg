SPECIFICATION Spec
CONSTANTS
  Nil = Nil
  cpA = cpA
  cpB = cpB
  r1 = r1
  r2 = r2
  r3 = r3
PROPERTY EveryBeginStarts
CHECK_DEADLOCK FALSE
