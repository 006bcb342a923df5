SPECIFICATION Spec
CONSTANTS
  CP = {cpA, cpB}
  Worker = {w1, w2}
  Org = {o1, o2}
  NoCP = NoCP
  NoOrg = NoOrg
  MaxOrgWorkers = 1
  MaxGlobalWorkers = 2
  WarmTarget = 1
  MaxEpoch = 2
SYMMETRY Symm
INVARIANT LeaseExclusive
INVARIANT TenantBinding
INVARIANT CapacityRespected
INVARIANT LeaseInv
PROPERTY TerminalIsFinal
PROPERTY OwnerMovesWithEpoch
