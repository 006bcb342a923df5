SPECIFICATION Spec
CONSTANTS
  cpA = cpA
  cpB = cpB
  s1 = s1
  s2 = s2
  s3 = s3
  o1 = o1
  o2 = o2
  NoCP = NoCP
  NoOrg = NoOrg
  Nil = Nil
  CP = {cpA}
  Worker = {w1}
  Org = {o1}
  MaxOrgWorkers = 1
  MaxGlobalWorkers = 1
  WarmTarget = 1
  MaxEpoch = 3
  Sess = {s1, s2}
  SessOrg <- OneOrg
  Home <- SameHome
  Mortal = {}
  FlightSess = {}
  Faults = {"overlap"}
INVARIANT OneSessionPerWorker
CHECK_DEADLOCK FALSE
