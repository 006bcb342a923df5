------------------------------- MODULE MCHosts -------------------------------
(***************************************************************************)
(* What starts, upgrades, drains and dies, for TLC: a behaviour is one of  *)
(* Server (sv), ControlPlane (cp) or WorkerPool with control planes that   *)
(* die (wk), as `which' says; the others stay in their initial state.      *)
(***************************************************************************)
EXTENDS Naturals, Sequences, FiniteSets

CONSTANTS cpA, cpB, w1, s1, o1, NoCP, NoOrg, Nil

VARIABLES which,
          svConfig, svRecords, svTotal, svGauge, svNow, svSetup, svConn, svWg,
          svLate, svDb, svChild, svQuery, svCancelled, svTerm, svTracked, svMon,
          svLog, svCkpt, svClose, svSnap, svTimedOut, svPanicked,
          cpSetup, cpProc, cpConn, cpPort, cpTracker, cpLate, cpLost, cpCut,
          cpFaults, cpTerms,
          wkRows, wkCps, wkGranted, wkUp, wkMem, wkPods, wkSess, wkWrites, wkDels,
          wkJan, wkDue, wkFlight

svVars == <<svConfig, svRecords, svTotal, svGauge, svNow, svSetup, svConn, svWg,
            svLate, svDb, svChild, svQuery, svCancelled, svTerm, svTracked, svMon,
            svLog, svCkpt, svClose, svSnap, svTimedOut, svPanicked>>
cpVars == <<cpSetup, cpProc, cpConn, cpPort, cpTracker, cpLate, cpLost, cpCut,
            cpFaults, cpTerms>>
wkVars == <<wkRows, wkCps, wkGranted, wkUp, wkMem, wkPods, wkSess, wkWrites, wkDels,
            wkJan, wkDue, wkFlight>>
vars == <<which, svVars, cpVars, wkVars>>
------------------------------------------------------------------------------
Limits(fails, perIP, n) == [fails |-> fails, window |-> 1, ban |-> 1, perIP |-> perIP, total |-> n]
InProcess ==
  [ip |-> [c \in 1..2 |-> "i"], isolated |-> FALSE, limits |-> Limits(9, 2, 2), last |-> 1,
   queries |-> 3, size |-> 1, batch |-> 2, closes |-> TRUE, cancels |-> FALSE]
Isolated == [InProcess EXCEPT !.isolated = TRUE, !.queries = 0]

\* Sessions and the log under Close; bans with the clock running, in process and
\* in children; children under Close; cancel requests for a child.
SvSetups ==
  { InProcess,
    [InProcess EXCEPT !.ip = <<"i", "i", "j">>, !.limits = Limits(1, 1, 2), !.last = 4,
                      !.queries = 0, !.closes = FALSE],
    [Isolated EXCEPT !.limits = Limits(1, 2, 2), !.last = 3, !.closes = FALSE],
    Isolated,
    [Isolated EXCEPT !.cancels = TRUE, !.closes = FALSE] }

Sv == INSTANCE Server WITH
  Setups <- SvSetups, config <- svConfig, records <- svRecords, total <- svTotal,
  gauge <- svGauge, now <- svNow, setup <- svSetup, conn <- svConn, wg <- svWg,
  late <- svLate, db <- svDb, child <- svChild, query <- svQuery,
  cancelled <- svCancelled, term <- svTerm, tracked <- svTracked, mon <- svMon,
  log <- svLog, ckpt <- svCkpt, close <- svClose, snap <- svSnap,
  timedOut <- svTimedOut, panicked <- svPanicked

Deployment(remote, conns, gens, timeout, nf, nt) ==
  [remote |-> remote, conns |-> conns, gens |-> gens, timeout |-> timeout, faults |-> nf,
   terms |-> nt]

\* Two upgrades with failures; an upgrade against SIGTERM; a replica that
\* drains with and without a timeout.
CpSetups ==
  { Deployment(FALSE, <<"pg", "flight">>, 3, TRUE, 1, 0),
    Deployment(FALSE, <<"pg", "pg">>, 2, TRUE, 1, 1),
    Deployment(TRUE, <<"pg", "flight">>, 1, TRUE, 1, 1),
    Deployment(TRUE, <<"pg", "flight">>, 1, FALSE, 0, 2) }

Cp == INSTANCE ControlPlane WITH
  Setups <- CpSetups, setup <- cpSetup, proc <- cpProc, conn <- cpConn,
  port <- cpPort, tracker <- cpTracker, late <- cpLate, lost <- cpLost,
  cut <- cpCut, faults <- cpFaults, terms <- cpTerms

\* One Flight session whose control plane cpA dies, crashes or shuts down.
Wk == INSTANCE WorkerPool WITH
  CP <- {cpA, cpB}, Worker <- {w1}, Org <- {o1}, NoCP <- NoCP, NoOrg <- NoOrg,
  MaxOrgWorkers <- 1, MaxGlobalWorkers <- 1, WarmTarget <- 1, MaxEpoch <- 3,
  Sess <- {s1}, SessOrg <- [s \in {s1} |-> o1], Home <- [s \in {s1} |-> cpA],
  Mortal <- {cpA}, FlightSess <- {s1},
  Faults <- {"pod_crash", "cp_crash", "rpc_fail", "janitor", "shutdown"},
  Nil <- Nil, rows <- wkRows, cps <- wkCps, granted <- wkGranted, up <- wkUp,
  mem <- wkMem, pods <- wkPods, sess <- wkSess, writes <- wkWrites, dels <- wkDels,
  jan <- wkJan, due <- wkDue, flight <- wkFlight
------------------------------------------------------------------------------
Init ==
  /\ which \in {"sv", "cp", "wk"}
  /\ Sv!Init /\ Cp!Init /\ Wk!Init
  /\ which # "sv" => svSetup = InProcess
  /\ which # "cp" => cpSetup = CHOOSE s \in CpSetups : TRUE

Next ==
  \/ which = "sv" /\ Sv!Next /\ UNCHANGED <<which, cpVars, wkVars>>
  \/ which = "cp" /\ Cp!Next /\ UNCHANGED <<which, svVars, wkVars>>
  \/ which = "wk" /\ Wk!Next /\ UNCHANGED <<which, svVars, cpVars>>

\* The fairness of the specifications, for the one that runs.
Fairness ==
  /\ WF_svVars(which = "sv" /\ svClose # "run" /\ Sv!Close)
  /\ WF_svVars(which = "sv" /\ Sv!flushLoop)
  /\ WF_svVars(which = "sv" /\ svClose # "run" /\ Sv!CheckpointLoop)
  /\ \A p \in Cp!AllProcs : /\ WF_cpVars(which = "cp" /\ p \in Cp!Procs /\ Cp!Drain(p))
                            /\ WF_cpVars(which = "cp" /\ p \in Cp!Procs /\ Cp!Term(p))
  /\ WF_cpVars(which = "cp" /\ Cp!Heartbeat)
  /\ \A c \in {cpA, cpB} :
       /\ WF_wkVars(which = "wk" /\ Wk!Start(c))
       /\ WF_wkVars(which = "wk" /\ Wk!ExpireCP(c))
       /\ SF_wkVars(which = "wk" /\ Wk!Orphaned(w1) /\ Wk!JanitorList(c, w1))
       /\ WF_wkVars(which = "wk" /\ Wk!CleanupOrphanedWorkerPods(c, w1))
       /\ WF_wkVars(which = "wk" /\ ~Wk!PodUp(w1) /\ Wk!HealthCheck(c, w1))
  /\ WF_wkVars(which = "wk" /\ Wk!JanitorRetire)
  /\ WF_wkVars(which = "wk" /\ Wk!ExpireFlightSessionRecords(s1))

Spec == Init /\ [][Next]_vars /\ Fairness
------------------------------------------------------------------------------

\* Server: Close returns in time only when nothing is left running.
CloseWaits == Sv!CloseWaits

\* Server: a query in a child is cancelled only by a request that came while it ran.
CancelsItsQuery == Sv!CancelsItsQuery

\* ControlPlane: an upgrade leaves no moment without a listening socket.
SocketOpen == Cp!SocketOpen

\* What happens in the end: Close returns (Server); the process an upgrade has
\* replaced goes away, and a draining replica is seen as draining (ControlPlane);
\* what a dead control plane left in the worker table is retired or taken over,
\* and the pod of a terminal row goes away (WorkerPool).
HostsProgress ==
  []<>(/\ which = "sv" => Sv!CloseEnded
       /\ which = "cp" => Cp!OldExited /\ Cp!DrainingSeen
       /\ which = "wk" => Wk!DeadOwnersReclaimed /\ Wk!NoStrandedPod)
==============================================================================
