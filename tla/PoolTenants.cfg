SPECIFICATION Spec
CONSTANTS
  cpA = cpA
  cpB = cpB
  s1 = s1
  s2 = s2
  s3 = s3
  o1 = o1
  o2 = o2
  NoCP = NoCP
  NoOrg = NoOrg
  Nil = Nil
  CP = {cpA}
  Worker = {w1, w2}
  Org = {o1, o2}
  MaxOrgWorkers = 1
  MaxGlobalWorkers = 2
  WarmTarget = 1
  MaxEpoch = 2
  Sess = {s1, s2, s3}
  SessOrg <- TwoOrgs
  Home <- SameHome
  Mortal = {}
  FlightSess = {}
  Faults = {"pod_crash", "rpc_fail", "overlap"}
SYMMETRY Workers
INVARIANT ServesOwnTenant
CHECK_DEADLOCK FALSE
