SPECIFICATION Spec
CONSTANTS
  None = None
  t1 = t1
  t2 = t2
  s1 = s1
  s2 = s2
 
INVARIANT CommittedInstalled
PROPERTY DuplicateAccepted
PROPERTY InUseSpared
PROPERTY WorkersProgress
CHECK_DEADLOCK FALSE
