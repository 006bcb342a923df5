----------------------------- MODULE MCSessions ------------------------------
(***************************************************************************)
(* The way of a session to its worker and its statements there, for TLC: a *)
(* behaviour is one of OrgConnections (oc), Routing (rt), FlightIngress    *)
(* (fi), LocalPool (lp) or WorkerSession (ws), as `which' says; the others *)
(* stay in their initial state.                                            *)
(***************************************************************************)
EXTENDS Naturals, FiniteSets

CONSTANTS Nil, cpA, cpB, r1, r2, r3

VARIABLES which,
          ocClock, ocQueue, ocLeases, ocOverdue, ocCps, ocUp, ocLock, ocPc, ocAhead,
          ocMissed,
          rtMode, rtDb, rtSnapshot, rtEdits, rtConn, rtSeen,
          fiUp, fiSessions, fiPids, fiWorker, fiRecord, fiExpired, fiStale, fiCall,
          fiReaper,
          lpCp, lpWorkers, lpNextID, lpSpawning, lpActive, lpUsed, lpProc, lpSock,
          lpReleased, lpPrebound, lpMount, lpMigrate, lpMigrateMu, lpAct,
          lpRegistered, lpTasks, lpVictims, lpChecking, lpFailures, lpStopList,
          lpSetup, lpFaults,
          wsProto, wsConn, wsSqlTxActive, wsTxns, wsDone, wsStale, wsBegun,
          wsHandles, wsCall, wsClient, wsHeld, wsBroken

ocVars == <<ocClock, ocQueue, ocLeases, ocOverdue, ocCps, ocUp, ocLock, ocPc,
            ocAhead, ocMissed>>
rtVars == <<rtMode, rtDb, rtSnapshot, rtEdits, rtConn, rtSeen>>
fiVars == <<fiUp, fiSessions, fiPids, fiWorker, fiRecord, fiExpired, fiStale,
            fiCall, fiReaper>>
lpVars == <<lpCp, lpWorkers, lpNextID, lpSpawning, lpActive, lpUsed, lpProc, lpSock,
            lpReleased, lpPrebound, lpMount, lpMigrate, lpMigrateMu, lpAct,
            lpRegistered, lpTasks, lpVictims, lpChecking, lpFailures, lpStopList,
            lpSetup, lpFaults>>
wsVars == <<wsProto, wsConn, wsSqlTxActive, wsTxns, wsDone, wsStale, wsBegun,
            wsHandles, wsCall, wsClient, wsHeld, wsBroken>>
vars == <<which, ocVars, rtVars, fiVars, lpVars, wsVars>>
------------------------------------------------------------------------------
\* cpA has two of the three connections. cpA crashes; cpB misses heartbeats and
\* database calls, and its clients run out of patience.
OcHome == [r \in {r1, r2, r3} |-> IF r = r3 THEN cpB ELSE cpA]
OcFaults ==
  [c \in {cpA, cpB} |-> IF c = cpA THEN {"crash"} ELSE {"slow", "deadline", "db_fail"}]

Oc == INSTANCE OrgConnections WITH
  CP <- {cpA, cpB}, Req <- {r1, r2, r3}, Home <- OcHome, MaxConnections <- 1,
  Faults <- OcFaults, Nil <- Nil, clock <- ocClock, queue <- ocQueue,
  leases <- ocLeases, overdue <- ocOverdue, cps <- ocCps, up <- ocUp,
  lock <- ocLock, pc <- ocPc, ahead <- ocAhead, missed <- ocMissed

Config(d, a, pw, pass) == [db |-> d, alias |-> a, pw |-> pw, pass |-> pass]

Both(e1, e2) == [o \in {"o1", "o2"} |-> IF o = "o1" THEN e1 ELSE e2]

\* Databases of their own; an alias that is the other's database; a database that
\* is the other's name; both; one without a database; the users share a name and
\* may share the password.
RtConfigs ==
  { Both(Config("d1", "", 1, FALSE), Config("o2", "", 2, FALSE)),
    Both(Config("d1", "", 2, TRUE), Config("o2", "", 1, FALSE)),
    Both(Config("d1", "o2", 1, FALSE), Config("o2", "", 1, TRUE)),
    Both(Config("d1", "", 1, FALSE), Config("o1", "", 1, FALSE)),
    Both(Config("d1", "o2", 1, FALSE), Config("o1", "d1", 2, FALSE)),
    [o \in {"o1"} |-> Config("", "d1", 1, TRUE)],
    [o \in {"o2"} |-> Config("d1", "", 1, FALSE)] }

Rt == INSTANCE Routing WITH
  Orgs <- {"o1", "o2"}, Labels <- {"o1", "o2", "d1"}, Configs <- RtConfigs,
  Edits <- 1, mode <- rtMode, db <- rtDb, snapshot <- rtSnapshot, edits <- rtEdits,
  conn <- rtConn, seen <- rtSeen

\* New clients arrive at p1, which may drain or crash; the client of t1 moves.
Fi == INSTANCE FlightIngress WITH
  CPs <- {"p1", "p2"}, Calls <- {"c1"}, Tokens <- {"t1", "t2"}, MaxEpoch <- 2,
  Entry <- {"p1"}, Mortal <- {"p1"}, Movers <- {"t1"}, up <- fiUp,
  sessions <- fiSessions, pids <- fiPids, worker <- fiWorker, record <- fiRecord,
  expired <- fiExpired, stale <- fiStale, call <- fiCall, reaper <- fiReaper

\* A pool of one worker that is retired after each session, a pool of one that
\* starts empty and is reaped, and a pool of two whose first workers find the
\* catalog to be migrated.
LpSetups ==
  {[conns |-> {"c1", "c2"}, boots |-> {"b1"}, max |-> 1, retire |-> TRUE, migrate |-> FALSE],
   [conns |-> {"c1", "c2"}, boots |-> {}, max |-> 1, retire |-> FALSE, migrate |-> FALSE],
   [conns |-> {"c1"}, boots |-> {"b1", "b2"}, max |-> 2, retire |-> FALSE, migrate |-> TRUE]}

Lp == INSTANCE LocalPool WITH
  Conns <- {"c1", "c2"}, Boots <- {"b1", "b2"}, Setups <- LpSetups,
  Sockets <- {"s1", "s2"}, HealthLimit <- 2, MaxId <- 2, MaxFaults <- 1, cp <- lpCp,
  workers <- lpWorkers, nextID <- lpNextID, spawning <- lpSpawning,
  active <- lpActive, used <- lpUsed, proc <- lpProc, sock <- lpSock,
  released <- lpReleased, prebound <- lpPrebound, mount <- lpMount,
  migrate <- lpMigrate, migrateMu <- lpMigrateMu, act <- lpAct,
  registered <- lpRegistered, tasks <- lpTasks, victims <- lpVictims,
  checking <- lpChecking, failures <- lpFailures, stopList <- lpStopList,
  setup <- lpSetup, faults <- lpFaults

Ws == INSTANCE WorkerSession WITH
  Calls <- {"c1", "c2"}, MaxTxns <- 2, MaxHandles <- 1, transientMaxRetries <- 1,
  conflictMaxRetries <- 2, Protos <- {"sql", "flight"}, RefreshProtos <- {"flight"},
  proto <- wsProto, conn <- wsConn, sqlTxActive <- wsSqlTxActive, txns <- wsTxns,
  done <- wsDone, stale <- wsStale, begun <- wsBegun, handles <- wsHandles,
  call <- wsCall, client <- wsClient, held <- wsHeld, broken <- wsBroken
------------------------------------------------------------------------------
Init ==
  /\ which \in {"oc", "rt", "fi", "lp", "ws"}
  /\ Oc!Init /\ Rt!Init /\ Fi!Init /\ Lp!Init /\ Ws!Init
  /\ which # "rt" => rtMode = "off" /\ rtDb = CHOOSE c \in RtConfigs : TRUE
  /\ which # "lp" => lpSetup = CHOOSE s \in LpSetups : TRUE
  /\ which # "ws" => wsProto = "sql"

Next ==
  \/ which = "oc" /\ Oc!Next /\ UNCHANGED <<which, rtVars, fiVars, lpVars, wsVars>>
  \/ which = "rt" /\ Rt!Next /\ UNCHANGED <<which, ocVars, fiVars, lpVars, wsVars>>
  \/ which = "fi" /\ Fi!Next /\ UNCHANGED <<which, ocVars, rtVars, lpVars, wsVars>>
  \/ which = "lp" /\ Lp!Next /\ UNCHANGED <<which, ocVars, rtVars, fiVars, wsVars>>
  \/ which = "ws" /\ Ws!Next /\ UNCHANGED <<which, ocVars, rtVars, fiVars, lpVars>>

\* The fairness of the specifications, for the one that runs.
Fairness ==
  /\ \A r \in {r1, r2, r3} : /\ SF_ocVars(which = "oc" /\ Oc!TryAcquire(r))
                            /\ WF_ocVars(which = "oc" /\ Oc!Step(r))
                            /\ WF_ocVars(which = "oc" /\ Oc!Expire(r))
  /\ \A c \in {cpA, cpB} : WF_ocVars(which = "oc" /\ c \notin ocUp /\ Oc!ExpireCP(c))

Spec == Init /\ [][Next]_vars /\ Fairness
------------------------------------------------------------------------------

\* OrgConnections: the leases of an organisation never exceed its limit.
ConnectionsCapped == Oc!ConnectionsCapped

\* OrgConnections: nobody overtakes a request that was already waiting.
NoOvertaking == Oc!NoOvertaking


\* Routing: both protocols send a client to the same organisation.
ProtocolsAgree == which = "rt" => Rt!ProtocolsAgree

\* FlightIngress: no worker session of a control plane is forgotten.
NoSessionLost == which = "fi" => Fi!NoSessionLost

\* LocalPool: every socket bound in advance is free or a worker's.
SocketAccounted == which = "lp" => Lp!SocketAccounted

\* LocalPool: no worker is retired under a session.
RetireSparesSessions == Lp!RetireSparesSessions

\* WorkerSession: a statement of a transaction that succeeds ran inside it.
StatementsStayInTransaction == Ws!StatementsStayInTransaction

\* WorkerSession: so it does after every BEGIN that was answered with success.
EveryBeginStarts == Ws!EveryBeginStarts
==============================================================================
