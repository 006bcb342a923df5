--------------------------- MODULE SessionManager ---------------------------
(***************************************************************************)
(* The session manager of one organisation's stack (session_mgr.go,        *)
(* session_lifecycle.go, memory_rebalancer.go) and the end of the stack    *)
(* (OrgRouter.DestroyOrgStack): connections take a slot or a lease, then a *)
(* worker, then register a session; the client leaves, the worker crashes  *)
(* or the stack is destroyed, each of which tears the session down.        *)
(*                                                                         *)
(* A connection's session is named by the connection.  The worker pool and *)
(* the cluster-wide limiter are external: a pool that lends a worker to    *)
(* one session at a time, and a set of leases.  Every section under sm.mu  *)
(* is one step; the network calls lie between steps.                       *)
(***************************************************************************)
EXTENDS Integers, Sequences, FiniteSets, SequencesExt

\* The managers looked at: limits are the values maxConnections takes (0 is
\* unlimited), limiter says whether leases replace the local slots, drains whether
\* the stack is destroyed, crashes how many workers may crash.
CONSTANT Setups   \* records [conns, workers, limits, limiter, rebalance, drains, crashes]

VARIABLES setup, pc, at, sessions, byWorker,   \* connections and the two maps
          max, slots, waiters, granted, failed, leases,
          closed, active,                      \* sessionLifecycle
          cl, by,                              \* the tear-down of a session
          k, kp, hold,                         \* workers, crash handling, the pool
          x, xp,                               \* DestroyAllSessions
          pend, loop, unset                    \* MemoryRebalancer

adm   == <<max, slots, waiters, granted, failed, leases>>
tear  == <<cl, by>>
work  == <<k, kp, hold>>
drain == <<x, xp>>
reb   == <<pend, loop, unset>>
vars  == <<setup, pc, at, sessions, byWorker, adm, closed, active, tear, work, drain, reb>>

Conns   == UNION {s.conns : s \in Setups}
Workers == UNION {s.workers : s \in Setups}
None    == "none"

Init ==
  /\ setup \in Setups
  /\ pc = [c \in Conns |-> IF c \in setup.conns THEN "new" ELSE "gone"]
  /\ at = [c \in Conns |-> None]
  /\ sessions = {} /\ byWorker = [w \in Workers |-> {}]
  /\ max \in setup.limits /\ slots = 0 /\ waiters = <<>>
  /\ granted = {} /\ failed = {} /\ leases = {}
  /\ closed = FALSE /\ active = 0
  /\ cl = [c \in Conns |-> None] /\ by = [c \in Conns |-> None]
  /\ k = [w \in Workers |-> IF w \in setup.workers THEN "up" ELSE "gone"]
  /\ kp = [w \in Workers |-> {}] /\ hold = [w \in Workers |-> None]
  /\ x = "off" /\ xp = {}
  /\ pend = FALSE /\ loop = "idle" /\ unset = {}

Goto(c, l) == pc' = [pc EXCEPT ![c] = l]

-----------------------------------------------------------------------------
(* Slots *)

\* The test of acquireConnectionSlot and of grantWaitersLocked.
Free(s, m) == m <= 0 \/ s < m

\* grantWaitersLocked with s slots taken and the limit m: the head of the queue
\* is admitted while a slot is free, and nobody once the manager is closed.
Grant(s, m) ==
  LET n == IF closed THEN 0
           ELSE CHOOSE i \in 0..Len(waiters) :
                  /\ \A j \in 0..i - 1 : Free(s + j, m)
                  /\ i = Len(waiters) \/ ~Free(s + i, m)
  IN /\ slots' = s + n
     /\ granted' = granted \cup ToSet(SubSeq(waiters, 1, n))
     /\ waiters' = SubSeq(waiters, n + 1, Len(waiters))

\* Mutant: a raised limit wakes nobody.
LimitOnly(n) ==
  /\ n \in setup.limits /\ n # max /\ max' = n
  /\ UNCHANGED <<setup, pc, at, sessions, byWorker, slots, waiters, granted, failed, leases,
                 closed, active, tear, work, drain, reb>>

\* SetMaxConnections: a configuration change.
SetMaxConnections(n) ==
  /\ n \in setup.limits /\ n # max /\ max' = n
  /\ Grant(slots, n)
  /\ UNCHANGED <<setup, pc, at, sessions, byWorker, failed, leases, closed, active,
                 tear, work, drain, reb>>

\* sessionLifecycle.begin: the creation is counted, or refused.
Begin(c) ==
  /\ pc[c] = "new"
  /\ IF closed THEN Goto(c, "gone") /\ active' = active
     ELSE Goto(c, "slot") /\ active' = active + 1
  /\ UNCHANGED <<setup, at, sessions, byWorker, adm, closed, tear, work, drain, reb>>

\* acquireConnectionSlot without a limiter: take a slot, or join the queue.
AcquireSlot(c) ==
  /\ pc[c] = "slot" /\ ~setup.limiter
  /\ \/ closed /\ Goto(c, "end") /\ UNCHANGED <<slots, waiters>>
     \/ ~closed /\ Free(slots, max) /\ slots' = slots + 1 /\ Goto(c, "worker") /\ UNCHANGED waiters
     \/ ~closed /\ ~Free(slots, max) /\ waiters' = Append(waiters, c) /\ Goto(c, "wait")
        /\ UNCHANGED slots
  /\ UNCHANGED <<setup, at, sessions, byWorker, max, granted, failed, leases, closed, active,
                 tear, work, drain, reb>>

\* <-waiter.ready.
WaitReady(c) ==
  /\ pc[c] = "wait" /\ c \in granted \cup failed
  /\ Goto(c, IF c \in failed THEN "end" ELSE "worker")
  /\ granted' = granted \ {c} /\ failed' = failed \ {c}
  /\ UNCHANGED <<setup, at, sessions, byWorker, max, slots, waiters, leases, closed, active,
                 tear, work, drain, reb>>

\* <-ctx.Done(): deadline, client gone, or cancelled by close().  A waiter that
\* was granted meanwhile keeps its slot.
WaitDone(c) ==
  /\ pc[c] = "wait"
  /\ Goto(c, IF c \in granted THEN "worker" ELSE "end")
  /\ waiters' = SelectSeq(waiters, LAMBDA d : d # c)
  /\ granted' = granted \ {c} /\ failed' = failed \ {c}
  /\ UNCHANGED <<setup, at, sessions, byWorker, max, slots, leases, closed, active,
                 tear, work, drain, reb>>

\* limiter.Acquire (external), or its failure: closed, full, cancelled.
AcquireLease(c) ==
  /\ pc[c] = "slot" /\ setup.limiter
  /\ \/ ~closed /\ Goto(c, "lease") /\ leases' = leases \cup {c}
     \/ Goto(c, "end") /\ leases' = leases
  /\ UNCHANGED <<setup, at, sessions, byWorker, max, slots, waiters, granted, failed,
                 closed, active, tear, work, drain, reb>>

\* The look at the lifecycle after the lease was acquired.
LeaseChecked(c) ==
  /\ pc[c] = "lease" /\ Goto(c, IF closed THEN "release" ELSE "worker")
  /\ UNCHANGED <<setup, at, sessions, byWorker, adm, closed, active, tear, work, drain, reb>>

-----------------------------------------------------------------------------
(* Creating a session *)

\* pool.AcquireWorker lends an idle worker, or fails (no capacity, cancelled).
AcquireWorker(c) ==
  /\ pc[c] = "worker"
  /\ \/ \E w \in setup.workers :
          /\ k[w] = "up" /\ hold[w] = None
          /\ hold' = [hold EXCEPT ![w] = c] /\ at' = [at EXCEPT ![c] = w] /\ Goto(c, "rpc")
     \/ Goto(c, "release") /\ UNCHANGED <<hold, at>>
  /\ UNCHANGED <<setup, sessions, byWorker, adm, closed, active, tear, k, kp, drain, reb>>

\* pool.ReleaseWorker.
ReleaseWorker(w) == hold' = [hold EXCEPT ![w] = None]

\* worker.CreateSession; a failure retires the worker.
CreateRPC(c) ==
  /\ pc[c] = "rpc"
  /\ \/ k[at[c]] = "up" /\ Goto(c, "register") /\ UNCHANGED <<k, hold>>
     \/ /\ Goto(c, "release") /\ ReleaseWorker(at[c])
        /\ k' = [k EXCEPT ![at[c]] = IF @ = "list" THEN @ ELSE "gone"]
  /\ UNCHANGED <<setup, at, sessions, byWorker, adm, closed, active, tear, kp, drain, reb>>

\* createSessionOnWorker's second look at the lifecycle, under sm.mu.
MayRegister(c) == ~closed

Register(c) ==
  /\ pc[c] = "register"
  /\ IF MayRegister(c)
     THEN /\ sessions' = sessions \cup {c} /\ unset' = unset \cup {c}
          /\ byWorker' = [byWorker EXCEPT ![at[c]] = @ \cup {c}]
          /\ Goto(c, "notify")
     ELSE Goto(c, "unreg") /\ UNCHANGED <<sessions, byWorker, unset>>
  /\ UNCHANGED <<setup, at, adm, closed, active, tear, work, drain, pend, loop>>

\* RequestRebalance: a send into a channel of one place, dropped when it is full.
RequestRebalance == pend' = (pend \/ setup.rebalance)

\* RequestRebalance, then the deferred endCreation.
Created(c) ==
  /\ pc[c] = "notify" /\ Goto(c, "setcloser")
  /\ RequestRebalance /\ active' = active - 1
  /\ UNCHANGED <<setup, at, sessions, byWorker, adm, closed, tear, work, drain, loop, unset>>


\* cleanupUnregisteredWorkerSession.
CleanupUnregistered(c) ==
  /\ pc[c] = "unreg" /\ Goto(c, "release") /\ ReleaseWorker(at[c])
  /\ UNCHANGED <<setup, at, sessions, byWorker, adm, closed, active, tear, k, kp, drain, reb>>

\* releaseConnectionSlot, for a creation that failed.
ReleaseSlot(c) ==
  IF setup.limiter THEN leases' = leases \ {c} /\ UNCHANGED <<slots, waiters, granted>>
  ELSE Grant(IF slots > 0 THEN slots - 1 ELSE 0, max) /\ leases' = leases

Release(c) ==
  /\ pc[c] = "release" /\ ReleaseSlot(c) /\ Goto(c, "end")
  /\ UNCHANGED <<setup, at, sessions, byWorker, max, failed, closed, active,
                 tear, work, drain, reb>>

\* endCreation of a failed creation; the connection is refused.
EndCreation(c) ==
  /\ pc[c] = "end" /\ Goto(c, "gone") /\ active' = active - 1
  /\ at' = [at EXCEPT ![c] = None]
  /\ UNCHANGED <<setup, sessions, byWorker, adm, closed, tear, work, drain, reb>>

SetConnCloser(c) ==
  /\ pc[c] = "setcloser" /\ Goto(c, "open")
  /\ UNCHANGED <<setup, at, sessions, byWorker, adm, closed, active, tear, work, drain, reb>>

-----------------------------------------------------------------------------
(* Tearing a session down *)

\* detachSessionLocked and lifecycle.beginCleanup, in one section under sm.mu: the
\* local slot is free from here on.  step is what the tear-down does next.
Detach(c, who, step) ==
  /\ sessions' = sessions \ {c} /\ unset' = unset \ {c}
  /\ byWorker' = [byWorker EXCEPT ![at[c]] = @ \ {c}]
  /\ Grant(IF ~setup.limiter /\ slots > 0 THEN slots - 1 ELSE slots, max)
  /\ active' = active + 1
  /\ cl' = [cl EXCEPT ![c] = step] /\ by' = [by EXCEPT ![c] = who]

Undetached == UNCHANGED <<sessions, unset, byWorker, slots, granted, waiters, active, cl, by>>

\* The client leaves, or its connection was closed: DestroySession.
Disconnect(c) ==
  /\ pc[c] = "open" /\ Goto(c, "closing")
  /\ UNCHANGED <<setup, at, sessions, byWorker, adm, closed, active, tear, work, drain, reb>>

DestroySession(c) ==
  /\ pc[c] = "closing"
  /\ IF c \in sessions THEN Detach(c, "conn", "rpc") /\ Goto(c, "cleanup")
     ELSE Undetached /\ Goto(c, "gone")
  /\ UNCHANGED <<setup, at, max, failed, leases, closed, work, drain, pend, loop>>

\* worker.DestroySession (5 s at most, its error is logged), then ReleaseWorker.
DestroyRPC(c) ==
  /\ cl[c] = "rpc" /\ cl' = [cl EXCEPT ![c] = "lease"]
  /\ ReleaseWorker(at[c])
  /\ UNCHANGED <<setup, pc, at, sessions, byWorker, adm, closed, active, by, k, kp, drain, reb>>


\* finishCleanup.
FinishCleanup(c) == active' = active - 1

\* releaseSessionLease, RequestRebalance and the deferred finishCleanup.
LeaseReleased(c) ==
  /\ cl[c] = "lease" /\ by[c] # "crash"
  /\ leases' = leases \ {c} /\ FinishCleanup(c) /\ RequestRebalance
  /\ cl' = [cl EXCEPT ![c] = None] /\ by' = [by EXCEPT ![c] = None]
  /\ at' = [at EXCEPT ![c] = None]
  /\ pc' = IF by[c] = "conn" THEN [pc EXCEPT ![c] = "gone"] ELSE pc
  /\ UNCHANGED <<setup, sessions, byWorker, max, slots, waiters, granted, failed, closed,
                 work, drain, loop, unset>>

\* A worker crashes; the health loop will call OnWorkerCrash.
Crash(w) ==
  /\ k[w] = "up" /\ Cardinality({v \in setup.workers : k[v] \in {"down", "list"}}) < setup.crashes
  /\ k' = [k EXCEPT ![w] = "down"]
  /\ UNCHANGED <<setup, pc, at, sessions, byWorker, adm, closed, active, tear, kp, hold, drain, reb>>

\* OnWorkerCrash copies the worker's sessions under sm.mu ...
OnWorkerCrash(w) ==
  /\ k[w] = "down" /\ k' = [k EXCEPT ![w] = "list"]
  /\ kp' = [kp EXCEPT ![w] = byWorker[w]]
  /\ UNCHANGED <<setup, pc, at, sessions, byWorker, adm, closed, active, tear, hold, drain, reb>>

\* ... detaches them one at a time (somebody else may have been faster) ...
CrashDetach(w) ==
  /\ k[w] = "list"
  /\ \E c \in kp[w] :
       /\ cl[c] = None \/ by[c] # "crash"
       /\ IF c \in sessions
          THEN Detach(c, "crash", IF pc[c] = "open" THEN "close" ELSE "lease") /\ kp' = kp
          ELSE Undetached /\ kp' = [kp EXCEPT ![w] = @ \ {c}]
  /\ UNCHANGED <<setup, pc, at, max, failed, leases, closed, k, hold, drain, pend, loop>>

\* ... closes the client's connection, when it is known, and gives the lease back.
CrashCleanup(c) ==
  /\ by[c] = "crash"
  /\ pc' = IF cl[c] = "close" /\ pc[c] = "open" THEN [pc EXCEPT ![c] = "closing"] ELSE pc
  /\ leases' = leases \ {c} /\ FinishCleanup(c)
  /\ kp' = [kp EXCEPT ![at[c]] = @ \ {c}]
  /\ cl' = [cl EXCEPT ![c] = None] /\ by' = [by EXCEPT ![c] = None]
  /\ at' = [at EXCEPT ![c] = None]
  /\ UNCHANGED <<setup, sessions, byWorker, max, slots, waiters, granted, failed, closed,
                 k, hold, drain, reb>>

CrashHandled(w) ==
  /\ k[w] = "list" /\ kp[w] = {}
  /\ k' = [k EXCEPT ![w] = "gone"] /\ byWorker' = [byWorker EXCEPT ![w] = {}]
  /\ RequestRebalance
  /\ UNCHANGED <<setup, pc, at, sessions, adm, closed, active, tear, kp, hold, drain, loop, unset>>

-----------------------------------------------------------------------------
(* DestroyOrgStack *)

\* DestroyAllSessions: lifecycle.close ...
DrainClose ==
  /\ setup.drains /\ x = "off" /\ x' = "lock" /\ closed' = TRUE
  /\ UNCHANGED <<setup, pc, at, sessions, byWorker, adm, active, tear, work, xp, reb>>

\* ... fail the waiters and list the sessions under sm.mu ...
DrainList ==
  /\ x = "lock"
  /\ failed' = failed \cup ToSet(waiters) /\ waiters' = <<>>
  /\ xp' = sessions /\ x' = IF sessions = {} THEN "wait" ELSE "next"
  /\ UNCHANGED <<setup, pc, at, sessions, byWorker, max, slots, granted, leases, closed, active,
                 tear, work, reb>>

\* ... destroy them one after the other, look again ...
DrainNext ==
  /\ x = "next" /\ \A c \in Conns : by[c] # "drain"
  /\ IF xp = {} THEN x' = "lock" /\ xp' = xp /\ Undetached
     ELSE \E c \in xp : /\ IF c \in sessions THEN Detach(c, "drain", "rpc") ELSE Undetached
                        /\ xp' = xp \ {c} /\ x' = x
  /\ UNCHANGED <<setup, pc, at, max, failed, leases, closed, work, pend, loop>>

\* ... and wait for the creations and tear-downs in flight; Rebalancer.Stop follows.
DrainWait ==
  /\ x = "wait" /\ active = 0 /\ x' = "done"
  /\ loop' = "stopped"
  /\ UNCHANGED <<setup, pc, at, sessions, byWorker, adm, closed, active, tear, work, xp, pend, unset>>

-----------------------------------------------------------------------------
(* MemoryRebalancer.debounceLoop *)

Signalled ==
  /\ setup.rebalance /\ loop = "idle" /\ pend /\ pend' = FALSE /\ loop' = "debounce"
  /\ UNCHANGED <<setup, pc, at, sessions, byWorker, adm, closed, active, tear, work, drain, unset>>

Debounced ==
  /\ loop = "debounce" /\ loop' = "drain"
  /\ UNCHANGED <<setup, pc, at, sessions, byWorker, adm, closed, active, tear, work, drain,
                 pend, unset>>

\* The signals of the debounce window are drained before the sessions are read.
Drained ==
  /\ loop = "drain" /\ pend' = FALSE /\ loop' = "snapshot"
  /\ UNCHANGED <<setup, pc, at, sessions, byWorker, adm, closed, active, tear, work, drain, unset>>

\* doRebalance lists the sessions under its lock, then sends them their limits.
DoRebalance ==
  /\ \/ loop = "snapshot" /\ unset' = {} /\ loop' = "send"
     \/ loop = "send" /\ unset' = unset /\ loop' = "idle"
  /\ UNCHANGED <<setup, pc, at, sessions, byWorker, adm, closed, active, tear, work, drain, pend>>

-----------------------------------------------------------------------------
\* What a connection's goroutine does once it runs, whatever its client does.
ConnStep(c) ==
  \/ AcquireSlot(c) \/ WaitReady(c) \/ AcquireLease(c) \/ LeaseChecked(c)
  \/ AcquireWorker(c) \/ CreateRPC(c) \/ Register(c) \/ Created(c) \/ CleanupUnregistered(c)
  \/ Release(c) \/ EndCreation(c) \/ SetConnCloser(c) \/ DestroySession(c)
  \/ DestroyRPC(c) \/ LeaseReleased(c) \/ CrashCleanup(c)

Crashes(w) == OnWorkerCrash(w) \/ CrashDetach(w) \/ CrashHandled(w)
DestroyAllSessions == DrainList \/ DrainNext \/ DrainWait
debounceLoop == Signalled \/ Debounced \/ Drained \/ DoRebalance

Next ==
  \/ \E n \in setup.limits : SetMaxConnections(n)
  \/ \E c \in setup.conns : Begin(c) \/ WaitDone(c) \/ Disconnect(c) \/ ConnStep(c)
  \/ \E w \in setup.workers : Crash(w) \/ Crashes(w)
  \/ DrainClose \/ DestroyAllSessions
  \/ debounceLoop

Step(c) == ConnStep(c) \/ (closed /\ WaitDone(c))

Fairness == /\ \A c \in Conns : WF_vars(Step(c))
            /\ \A w \in Workers : WF_vars(Crashes(w))
            /\ WF_vars(DestroyAllSessions) /\ WF_vars(debounceLoop)

Spec == Init /\ [][Next]_vars /\ Fairness

-----------------------------------------------------------------------------
Creating == {"slot", "wait", "lease", "worker", "rpc", "register", "notify", "unreg",
             "release", "end"}

\* Types of the slots, the sessions, the workers and the rebalancer.
TypeOK ==
  /\ setup \in Setups
  /\ pc \in [Conns -> Creating \cup {"new", "setcloser", "open", "closing", "cleanup", "gone"}]
  /\ at \in [Conns -> Workers \cup {None}] /\ sessions \subseteq Conns
  /\ max \in Nat /\ slots \in 0..Cardinality(Conns)
  /\ ToSet(waiters) \subseteq {c \in Conns : pc[c] = "wait"}
  /\ granted \cup failed \subseteq {c \in Conns : pc[c] = "wait"} /\ leases \subseteq Conns
  /\ cl \in [Conns -> {None, "rpc", "close", "lease"}] /\ by \in [Conns -> {None, "conn", "crash", "drain"}]
  /\ k \in [Workers -> {"up", "down", "list", "gone"}] /\ hold \in [Workers -> Conns \cup {None}]
  /\ x \in {"off", "lock", "next", "wait", "done"}
  /\ loop \in {"idle", "debounce", "drain", "snapshot", "send", "stopped"}

\* activeSlots is exact: each local slot belongs to a creation that was admitted
\* or to a registered session, whichever of the three tear-downs and of the
\* failure paths runs, and none is released twice.
SlotsExact ==
  ~setup.limiter =>
    slots = Cardinality(sessions \cup {c \in Conns :
               \/ pc[c] \in {"worker", "rpc", "register", "unreg", "release"}
               \/ pc[c] = "wait" /\ c \in granted})

\* No lost wake-up: nobody waits in the queue of an open manager while a slot is
\* free, after any release, crash or change of the limit.
NoLostWakeup == (waiters # <<>> /\ ~closed) => ~Free(slots, max)

\* A cluster-wide lease belongs to a creation, a session or its tear-down.
LeasesOwned ==
  \A c \in leases : \/ c \in sessions \/ cl[c] # None
                     \/ pc[c] \in {"lease", "worker", "rpc", "register", "unreg", "release"}

\* A worker that is up and lent belongs to a creation, a session or its
\* tear-down: no path forgets to give it back.
WorkersOwned ==
  \A w \in Workers : (k[w] = "up" /\ hold[w] # None) =>
    LET c == hold[w]
    IN at[c] = w /\ (c \in sessions \/ cl[c] = "rpc" \/ pc[c] \in {"rpc", "register", "unreg"})

\* DestroyAllSessions returns only when the manager is empty for good: nothing is
\* registered, held or being created or torn down, whatever was in flight when
\* the stack was destroyed.
DrainedForGood ==
  x = "done" => /\ sessions = {} /\ slots = 0 /\ leases = {} /\ waiters = <<>>
                /\ \A c \in Conns : pc[c] \notin Creating /\ cl[c] = None
                /\ \A w \in Workers : k[w] = "up" => hold[w] = None

\* It does return, without the clients' help.
DrainEnded == x \in {"off", "done"}

\* No rebalance is lost to the coalescing: a session that was registered after
\* the last listing is followed by another one.
RebalanceNotLost ==
  (setup.rebalance /\ unset # {} /\ loop # "stopped") =>
    \/ pend \/ loop \in {"debounce", "drain", "snapshot"}
    \/ \E c \in unset : pc[c] = "notify"
=============================================================================
