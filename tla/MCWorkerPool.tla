--------------------------- MODULE MCWorkerPool ---------------------------
EXTENDS WorkerPool, TLC

CONSTANTS cpA, cpB, s1, s2, s3, o1, o2

\* One org, or s3 of a second one.
OneOrg == [s \in Sess |-> o1]
TwoOrgs == [s \in Sess |-> IF s = s3 THEN o2 ELSE o1]

\* Every connection lands on cpA; or s1's alone does.
SameHome == [s \in Sess |-> cpA]
SpreadHome == [s \in Sess |-> IF s = s1 THEN cpA ELSE cpB]

\* Workers are interchangeable: no constant and no initial state names one.
Workers == Permutations(Worker)
=============================================================================
