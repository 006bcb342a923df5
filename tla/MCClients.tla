------------------------------ MODULE MCClients ------------------------------
(***************************************************************************)
(* What a client's connection goes through, for TLC: a behaviour is either *)
(* PgConnection (pg) or SessionManager (sm), as `which' says; the other    *)
(* stays in its initial state.                                             *)
(***************************************************************************)
EXTENDS Naturals, Sequences, FiniteSets

CONSTANTS Null, n1, p1, c1, o1, o2, o3

VARIABLES which,
          pgSess, pgStmts, pgPortals, pgHeap, pgPhase, pgTodo, pgBatch, pgOwed,
          pgMonitor, pgPeer, pgCtxDone,
          smSetup, smPc, smAt, smSessions, smByWorker, smMax, smSlots, smWaiters,
          smGranted, smFailed, smLeases, smClosed, smActive, smCl, smBy, smK, smKp,
          smHold, smX, smXp, smPend, smLoop, smUnset

pgVars == <<pgSess, pgStmts, pgPortals, pgHeap, pgPhase, pgTodo, pgBatch, pgOwed,
            pgMonitor, pgPeer, pgCtxDone>>
smVars == <<smSetup, smPc, smAt, smSessions, smByWorker, smMax, smSlots, smWaiters,
            smGranted, smFailed, smLeases, smClosed, smActive, smCl, smBy, smK,
            smKp, smHold, smX, smXp, smPend, smLoop, smUnset>>
vars == <<which, pgVars, smVars>>
------------------------------------------------------------------------------
\* One kind for each way a simple query is handled; SELECT and FETCH come as
\* prepared statements and in batches.
PgSimple == {"begin", "commit", "write", "cte", "declare", "copyin", "bad"}
PgBatches ==
  {<<"select", "rollback">>, <<"write", "copyin">>, <<"fetch", "closecur">>}

Pg == INSTANCE PgConnection WITH
  Openers <- {"begin"}, Names <- {n1}, Portals <- {p1}, Cursors <- {c1},
  Objs <- {o1, o2, o3}, Simple <- PgSimple, sharedDB <- TRUE,
  Prepared <- {"select"}, Batches <- PgBatches, None <- Null, sess <- pgSess,
  stmts <- pgStmts, portals <- pgPortals, heap <- pgHeap, phase <- pgPhase,
  todo <- pgTodo, batch <- pgBatch, owed <- pgOwed, monitor <- pgMonitor,
  peer <- pgPeer, ctxDone <- pgCtxDone

Manager == [conns |-> {"c1", "c2"}, workers |-> {"w1", "w2"}, limits |-> {1},
            limiter |-> FALSE, rebalance |-> FALSE, drains |-> TRUE, crashes |-> 1]

\* A limit that changes under load; a crash; leases; the rebalancer.
SmSetups ==
  { [Manager EXCEPT !.conns = {"c1", "c2", "c3"}, !.limits = {1, 2}, !.drains = FALSE,
                     !.crashes = 0],
    Manager,
    [Manager EXCEPT !.limits = {0}, !.limiter = TRUE],
    [Manager EXCEPT !.limits = {0}, !.rebalance = TRUE, !.crashes = 0] }

Sm == INSTANCE SessionManager WITH
  Setups <- SmSetups, setup <- smSetup, pc <- smPc, at <- smAt,
  sessions <- smSessions, byWorker <- smByWorker, max <- smMax, slots <- smSlots,
  waiters <- smWaiters, granted <- smGranted, failed <- smFailed,
  leases <- smLeases, closed <- smClosed, active <- smActive, cl <- smCl,
  by <- smBy, k <- smK, kp <- smKp, hold <- smHold, x <- smX, xp <- smXp,
  pend <- smPend, loop <- smLoop, unset <- smUnset
------------------------------------------------------------------------------
Init ==
  /\ which \in {"pg", "sm"}
  /\ Pg!Init /\ Sm!Init
  /\ which # "sm" => smSetup = Manager

Next ==
  \/ which = "pg" /\ Pg!Next /\ UNCHANGED <<which, smVars>>
  \/ which = "sm" /\ Sm!Next /\ UNCHANGED <<which, pgVars>>

\* The fairness of the specifications, for the one that runs.
Fairness ==
  /\ WF_pgVars(which = "pg" /\ Pg!Step) /\ WF_pgVars(which = "pg" /\ Pg!MonitorStep)
  /\ \A c \in {"c1", "c2", "c3"} : WF_smVars(which = "sm" /\ Sm!Step(c))
  /\ \A w \in {"w1", "w2"} : WF_smVars(which = "sm" /\ Sm!Crashes(w))
  /\ WF_smVars(which = "sm" /\ Sm!DestroyAllSessions)
  /\ WF_smVars(which = "sm" /\ Sm!debounceLoop)

Spec == Init /\ [][Next]_vars /\ Fairness
------------------------------------------------------------------------------

\* PgConnection: each query gets one ReadyForQuery.
OneReadyForQuery == Pg!OneReadyForQuery



\* SessionManager: nobody waits while a slot is free.
NoLostWakeup == Sm!NoLostWakeup

==============================================================================
