---------------------------- MODULE OrgConnections ----------------------------
(***************************************************************************)
(* Connection admission for one org: the queue and the leases the CPs      *)
(* share (controlplane/configstore/org_connections.go) and the limiter that*)
(* polls them for each new connection (connection_limiter.go,              *)
(* session_mgr.go).  Orgs do not interact: every statement and the advisory*)
(* lock are per org.                                                       *)
(*                                                                         *)
(* Steps are transactions, or statements where another transaction may     *)
(* commit in between: Enqueue reads the database clock before its row is   *)
(* visible, TryAcquire looks for stale rows and then decides under the     *)
(* advisory lock, which the other transactions do not take.  A request     *)
(* never polls again once granted, so the lookup of an existing lease is   *)
(* left out, and so is the grace for owners that never registered.         *)
(***************************************************************************)
EXTENDS Naturals, FiniteSets

CONSTANTS
  CP,               \* control-plane instances, each registered before it serves
  Req,              \* admission requests, one per connection
  Home,             \* the CP each request belongs to
  MaxConnections,   \* the org's cap; 0 is "no cap"
  Faults,           \* what may go wrong at each CP
  Nil

VARIABLES
  clock,    \* the database clock, as the number of stamps taken
  queue,    \* org_connection_queue: each request's row
  leases,   \* org_connection_leases, by request id
  overdue,  \* the requests whose expires_at has passed
  cps,      \* cp_instances
  up,       \* the CPs whose process is running
  lock,     \* the TryAcquire that holds the advisory lock: its request, and the
            \* overdue rows and dead CPs' leases its cleanup has deleted so far
  pc,       \* where the goroutine of each request is
  ahead,    \* history: the requests already queued when this one was enqueued
  missed    \* history: the CPs ever expired while they were running

vars == <<clock, queue, leases, overdue, cps, up, lock, pc, ahead, missed>>

NoRow == [st |-> "absent", at |-> 0]
Unlocked == [req |-> Nil, late |-> {}, gone |-> {}]

\* The connections that count against the cap, from grant to release.
Holding == {r \in Req : pc[r] \in {"acquired", "open", "releasing"}}

(* Stamps, rows and program counters are in range, and the advisory lock is *)
(* held by the request that is deciding.                                    *)
TypeOK ==
  /\ clock \in 0..Cardinality(Req)
  /\ queue \in [Req -> [st: {"absent", "waiting", "granted"}, at: 0..Cardinality(Req)]]
  /\ leases \subseteq Req /\ overdue \subseteq Req
  /\ cps \in [CP -> {"active", "expired"}]
  /\ up \subseteq CP
  /\ pc \in [Req -> {"new", "stamped", "waiting", "deciding", "acquired", "open",
                     "releasing", "done", "failed"}]
  /\ lock \in [req: Req \cup {Nil}, late: SUBSET Req, gone: SUBSET Req]
  /\ \A r \in Req : pc[r] = "deciding" <=> lock.req = r
  /\ ahead \in [Req -> SUBSET Req]
  /\ missed \subseteq CP

Init ==
  /\ clock = 0
  /\ queue = [r \in Req |-> NoRow]
  /\ leases = {} /\ overdue = {}
  /\ cps = [c \in CP |-> "active"] /\ up = CP
  /\ lock = Unlocked
  /\ pc = [r \in Req |-> "new"]
  /\ ahead = [r \in Req |-> {}] /\ missed = {}

-----------------------------------------------------------------------------

Goto(r, p) == pc' = [pc EXCEPT ![r] = p]
Fails(r) == "db_fail" \in Faults[Home[r]] /\ Goto(r, "failed")
Over(r) == pc[r] \in {"done", "failed"}
Waiting == {r \in Req : queue[r].st = "waiting"}

\* Mutant: the row keeps the caller's clock, which other CPs' clocks may be behind.
EnqueueLocalClock(r) ==
  /\ pc[r] = "new" /\ Home[r] \in up
  /\ \E t \in 0..Cardinality(Req) : queue' = [queue EXCEPT ![r].at = t]
  /\ ahead' = [ahead EXCEPT ![r] = Waiting]
  /\ Goto(r, "stamped")
  /\ UNCHANGED <<clock, leases, overdue, cps, up, lock, missed>>

\* EnqueueOrgConnectionRequest stamps the row with the database clock ...
Enqueue(r) ==
  /\ pc[r] = "new" /\ Home[r] \in up
  /\ clock' = clock + 1
  /\ queue' = [queue EXCEPT ![r].at = clock']
  /\ ahead' = [ahead EXCEPT ![r] = Waiting]
  /\ Goto(r, "stamped")
  /\ UNCHANGED <<leases, overdue, cps, up, lock, missed>>

\* ... and commits it.  After an error Acquire gives up, whether or not it did.
EnqueueCommit(r) ==
  /\ pc[r] = "stamped"
  /\ \/ /\ queue' = [queue EXCEPT ![r].st = "waiting"]
        /\ Goto(r, "waiting")
     \/ /\ Fails(r)
        /\ queue' \in {queue, [queue EXCEPT ![r].st = "waiting"]}
  /\ UNCHANGED <<clock, leases, overdue, cps, up, lock, ahead, missed>>

\* cleanupOrgConnectionRowsLocked
OverdueRows == Waiting \cap overdue
DeadLeases == {r \in leases : cps[Home[r]] = "expired"}

\* TryAcquireOrgConnectionLease: take the org's advisory lock, read the clock and
\* clean up.  A request whose row is gone just polls on.
TryAcquire(r) ==
  /\ pc[r] = "waiting" /\ queue[r].st # "absent" /\ lock = Unlocked
  /\ lock' = [req |-> r, late |-> OverdueRows, gone |-> DeadLeases]
  /\ Goto(r, "deciding")
  /\ UNCHANGED <<clock, queue, leases, overdue, cps, up, ahead, missed>>

\* What the deciding transaction sees of the tables, its own deletes included.
Queued == Waiting \ lock.late

\* countActiveOrgConnectionLeases
ActiveLeases == {r \in leases \ lock.gone : cps[Home[r]] # "expired"}


\* isOrgConnectionQueueHead
IsQueueHead(r) == \A q \in Queued : queue[r].at <= queue[q].at

\* Mutant: the cap admits one too many.
HasCapacityOffByOne ==
  MaxConnections > 0 => Cardinality(ActiveLeases) <= MaxConnections

HasCapacity == MaxConnections > 0 => Cardinality(ActiveLeases) < MaxConnections

Grantable(r) == r \in Queued /\ IsQueueHead(r) /\ HasCapacity

\* createOrgConnectionLease, if r is granted, and the commit of the cleanup.
Commit(grant) ==
  /\ leases' = (leases \ lock.gone) \cup grant
  /\ queue' = [q \in Req |-> IF q \in lock.late THEN NoRow
                             ELSE IF q \in grant THEN [queue[q] EXCEPT !.st = "granted"]
                             ELSE queue[q]]

\* An error - before the commit or after it - makes Acquire give up at once.
Decide(r) ==
  /\ lock.req = r
  /\ lock' = Unlocked
  /\ \/ Grantable(r) /\ Commit({r}) /\ (Goto(r, "acquired") \/ Fails(r))
     \/ ~Grantable(r) /\ Commit({}) /\ (Goto(r, "waiting") \/ Fails(r))
     \/ Fails(r) /\ UNCHANGED <<queue, leases>>
  /\ UNCHANGED <<clock, overdue, cps, up, ahead, missed>>

\* The caller's context ends or its deadline passes between two polls.
Cancel(r) ==
  /\ pc[r] = "waiting" /\ "deadline" \in Faults[Home[r]]
  /\ \/ /\ queue' = [queue EXCEPT ![r] = IF r \in Waiting THEN NoRow ELSE @]
        /\ Goto(r, "done")
     \/ Fails(r) /\ UNCHANGED queue
  /\ UNCHANGED <<clock, leases, overdue, cps, up, lock, ahead, missed>>

\* A worker was found and the session runs; or not, or the CP drains.
Open(r) ==
  /\ pc[r] = "acquired"
  /\ Goto(r, "open")
  /\ UNCHANGED <<clock, queue, leases, overdue, cps, up, lock, ahead, missed>>

Close(r) ==
  /\ pc[r] \in {"acquired", "open"}
  /\ Goto(r, "releasing")
  /\ UNCHANGED <<clock, queue, leases, overdue, cps, up, lock, ahead, missed>>

\* Mutant: only the queue row is deleted.
ReleaseRowOnly(r) ==
  /\ pc[r] = "releasing"
  /\ queue' = [queue EXCEPT ![r] = NoRow]
  /\ Goto(r, "done")
  /\ UNCHANGED <<clock, leases, overdue, cps, up, lock, ahead, missed>>

\* ReleaseOrgConnectionLease; releaseConnectionLeaseWithRetry gives up in the end.
Release(r) ==
  /\ pc[r] = "releasing"
  /\ \/ /\ leases' = leases \ {r}
        /\ queue' = [queue EXCEPT ![r] = NoRow]
        /\ Goto(r, "done")
     \/ Fails(r) /\ UNCHANGED <<queue, leases>>
  /\ UNCHANGED <<clock, overdue, cps, up, lock, ahead, missed>>

-----------------------------------------------------------------------------
(* Time and processes *)

\* expires_at passes.
Expire(r) ==
  /\ queue[r].st = "waiting" /\ r \notin overdue
  /\ Over(r) \/ "deadline" \in Faults[Home[r]]
  /\ overdue' = overdue \cup {r}
  /\ UNCHANGED <<clock, queue, leases, cps, up, lock, pc, ahead, missed>>

\* A process dies with its connections; an open transaction is rolled back.
Crash(c) ==
  /\ "crash" \in Faults[c] /\ c \in up
  /\ up' = up \ {c}
  /\ lock' = IF lock.req # Nil /\ Home[lock.req] = c THEN Unlocked ELSE lock
  /\ pc' = [r \in Req |-> IF Home[r] = c THEN "done" ELSE pc[r]]
  /\ UNCHANGED <<clock, queue, leases, overdue, cps, ahead, missed>>

\* ExpireControlPlaneInstances: the heartbeat of a dead CP, or of a slow one.
ExpireCP(c) ==
  /\ cps[c] = "active" /\ (c \notin up \/ "slow" \in Faults[c])
  /\ cps' = [cps EXCEPT ![c] = "expired"]
  /\ missed' = IF c \in up THEN missed \cup {c} ELSE missed
  /\ UNCHANGED <<clock, queue, leases, overdue, up, lock, pc, ahead>>

Heartbeat(c) ==
  /\ c \in up /\ cps[c] = "expired"
  /\ cps' = [cps EXCEPT ![c] = "active"]
  /\ UNCHANGED <<clock, queue, leases, overdue, up, lock, pc, ahead, missed>>

RequestStep(r) ==
  \/ Enqueue(r)
  \/ EnqueueCommit(r)
  \/ TryAcquire(r)
  \/ Decide(r)
  \/ Cancel(r)
  \/ Open(r)
  \/ Close(r)
  \/ Release(r)
  \/ Expire(r)

Next ==
  \/ \E r \in Req : RequestStep(r)
  \/ \E c \in CP : Crash(c) \/ ExpireCP(c) \/ Heartbeat(c)

Spec == Init /\ [][Next]_vars

\* A request has at most one of these steps to take.
Step(r) == EnqueueCommit(r) \/ Decide(r) \/ Close(r) \/ Release(r)

\* Pollers keep polling and the advisory lock queues them; statements return;
\* clients leave in the end; the janitor expires dead CPs and time passes.
Fairness ==
  /\ \A r \in Req : SF_vars(TryAcquire(r)) /\ WF_vars(Step(r)) /\ WF_vars(Expire(r))
  /\ \A c \in CP : WF_vars(c \notin up /\ ExpireCP(c))

FairSpec == Spec /\ Fairness

-----------------------------------------------------------------------------
(* Properties *)

(* The org's cap on open connections: on the CPs that never missed their     *)
(* heartbeats, at most MaxConnections are between grant and release,         *)
(* whatever crashes, expires and fails around them.  (The leases of a CP     *)
(* expired while it runs are deleted under its open connections.)            *)
ConnectionsCapped ==
  MaxConnections > 0 =>
    Cardinality({r \in Holding : Home[r] \notin missed}) <= MaxConnections

GrantStep ==
  \A r \in Req : queue[r].st # "granted" /\ queue'[r].st = "granted"
    => \A q \in ahead[r] : queue'[q].st # "waiting"

(* First come, first served across CPs: a request is never granted while one *)
(* that was visible in the queue before it was even enqueued still waits.    *)
NoOvertaking == [][GrantStep]_vars

(* A lease of a running CP is held by a connection that will release it, or  *)
(* a database error hid it from its request: no cancellation, deadline or    *)
(* crash strands one.                                                        *)
LeasesHeld ==
  \A r \in leases : Home[r] \in up => r \in Holding \/ pc[r] = "failed"

=============================================================================
