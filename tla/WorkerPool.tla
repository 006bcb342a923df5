----------------------------- MODULE WorkerPool -----------------------------
(***************************************************************************)
(* The worker pools of the control-plane replicas over their shared        *)
(* runtime store (WorkerStore): controlplane/k8s_pool.go,                  *)
(* org_reserved_pool.go, worker_lifecycle.go, janitor.go,                  *)
(* shared_worker_activator.go and the part of session_mgr.go that acquires *)
(* and releases workers.  Each CP keeps a map of workers it believes it    *)
(* may use; nothing tells it when another CP's transaction makes an entry  *)
(* stale.  Steps are the code's critical sections, database calls and RPCs.*)
(*                                                                         *)
(* A removed map entry and the pointer a goroutine may still hold to it    *)
(* are one: the goroutine finds the entry gone, as the code finds the      *)
(* pointer retired or its client closed.  Images, node preference, metrics *)
(* and DuckLake migration are left out.                                    *)
(***************************************************************************)
EXTENDS Naturals, FiniteSets

CONSTANTS
  CP, Worker, Org, NoCP, NoOrg,
  MaxOrgWorkers, MaxGlobalWorkers, WarmTarget, MaxEpoch,
  Sess,          \* client sessions
  SessOrg,       \* the org each session belongs to
  Home,          \* the CP each session's connection lands on
  Mortal,        \* the CPs that may crash or be shut down
  FlightSess,    \* the sessions with a durable Flight record
  Faults,        \* the environment's and background loops' freedom
  Nil

ASSUME PoolAssumption ==
  /\ SessOrg \in [Sess -> Org]
  /\ Home \in [Sess -> CP]
  /\ FlightSess \subseteq Sess
  /\ Mortal \subseteq CP
  /\ Faults \subseteq {"pod_crash", "cp_crash", "expiry", "rpc_fail", "db_fail",
                       "publish_fail", "janitor", "refresh", "shutdown", "overlap"}
  /\ Nil \notin Worker \cup Sess

VARIABLES
  rows, cps, granted,   \* the runtime store
  up,       \* process state of each CP
  mem,      \* p.workers of each CP
  pods,     \* the worker pods: alive, the owner epoch and org they accepted, and
            \* the session that holds their one DuckDB connection
  sess,     \* where the goroutine of each session is
  writes,   \* worker records built under p.mu, not yet upserted
  dels,     \* pod deletions started by a CP and not yet executed
  jan,      \* the snapshot a janitor sweep holds between listing and CAS
  due,      \* the worker a credential refresh holds between its steps
  flight    \* flight_session_records

\* The store the pools share, and the specification they are to implement: its
\* tables are the first three variables, its constants the pools' own.
Store == INSTANCE WorkerStore WITH
  CP <- CP, Worker <- Worker, Org <- Org, NoCP <- NoCP, NoOrg <- NoOrg,
  MaxOrgWorkers <- MaxOrgWorkers, MaxGlobalWorkers <- MaxGlobalWorkers,
  WarmTarget <- WarmTarget, MaxEpoch <- MaxEpoch,
  rows <- rows, cps <- cps, granted <- granted

storeVars == <<rows, cps, granted>>
vars == <<rows, cps, granted, up, mem, pods, sess, writes, dels, jan, due, flight>>

-----------------------------------------------------------------------------

Lifecycle == {"none", "spawning", "idle", "reserved", "activating", "hot",
              "hot_idle", "draining"}

NoEntry == [life |-> "none", epoch |-> 0, org |-> NoOrg, n |-> 0]
NoPod == [st |-> "none", epoch |-> 0, org |-> NoOrg, conn |-> Nil]
NoFlight == [st |-> "none", worker |-> Nil, epoch |-> 0]
NoRefresh == [step |-> "off", worker |-> Nil, org |-> NoOrg, epoch |-> 0]
NewSession(s) == [pc |-> "new", cp |-> Home[s], worker |-> Nil, epoch |-> 0]

\* Program counters of a session between AcquireWorker and its end.
Acquiring == {"acquire", "reserve", "claimed", "reserved", "activating",
              "activated", "ready", "acquired", "abandon"}
Attached == {"acquired", "created", "running", "closing"}
Reconnecting == {"re_claimed", "re_reserved", "re_activating", "re_activated"}
SessionPC == Acquiring \cup Attached \cup Reconnecting \cup {"new", "lost", "done"}

RecordWrite ==
  [worker: Worker, cp: CP, epoch: 0..MaxEpoch, org: Org \cup {NoOrg},
   state: Store!WorkerState]

Sweep == [cp: CP, kind: {"orphan", "stale"}, snap: Store!Snapshot]

(* Every count, epoch and program counter stays in its range: a session      *)
(* released twice or uncounted would take activeSessions below zero.         *)
TypeOK ==
  /\ Store!TypeOK
  /\ up \in [CP -> {"off", "up", "stopping", "dead"}]
  /\ mem \in [CP -> [Worker -> [life: Lifecycle, epoch: 0..MaxEpoch,
                                org: Org \cup {NoOrg}, n: 0..Cardinality(Sess)]]]
  /\ pods \in [Worker -> [st: {"none", "up", "gone"}, epoch: 0..MaxEpoch,
                          org: Org \cup {NoOrg}, conn: Sess \cup {Nil}]]
  /\ sess \in [Sess -> [pc: SessionPC, cp: CP, worker: Worker \cup {Nil},
                        epoch: 0..MaxEpoch]]
  /\ writes \subseteq RecordWrite
  /\ dels \subseteq CP \X Worker
  /\ jan \in Sweep \cup {Nil}
  /\ due \in [CP -> [step: {"off", "listed", "bumped"}, worker: Worker \cup {Nil},
                        org: Org \cup {NoOrg}, epoch: 0..MaxEpoch]]
  /\ flight \in [Sess -> [st: {"none", "active", "closed"},
                          worker: Worker \cup {Nil}, epoch: 0..MaxEpoch]]

Init ==
  /\ Store!Init
  /\ up = [c \in CP |-> "off"]
  /\ mem = [c \in CP |-> [w \in Worker |-> NoEntry]]
  /\ pods = [w \in Worker |-> NoPod]
  /\ sess = [s \in Sess |-> NewSession(s)]
  /\ writes = {} /\ dels = {} /\ jan = Nil
  /\ due = [c \in CP |-> NoRefresh]
  /\ flight = [s \in Sess |-> NoFlight]

-----------------------------------------------------------------------------
(* Helpers *)

Alive(c) == up[c] \in {"up", "stopping"}
Known(c, w) == mem[c][w].life \notin {"none", "spawning"}
PodUp(w) == pods[w].st = "up"

Goto(s, pc) == sess' = [sess EXCEPT ![s].pc = pc]

\* The lease c's memory holds on w.
LeaseOf(c, w) ==
  [worker |-> w, cp |-> c, epoch |-> mem[c][w].epoch, org |-> mem[c][w].org]

\* workerRecordFor: the record c would upsert for w in state st.
RecordFor(c, w, st) ==
  [worker |-> w, cp |-> c, epoch |-> mem[c][w].epoch, org |-> mem[c][w].org,
   state |-> st]

LeaseIn(r) == [worker |-> r.worker, cp |-> r.cp, epoch |-> r.epoch, org |-> r.org]

\* Mutant: the upsert is not fenced.
PersistRecordUnfenced(l, st) ==
  /\ rows' = [rows EXCEPT ![l.worker] =
       [state |-> st, owner |-> l.cp, epoch |-> l.epoch, org |-> l.org]]
  /\ UNCHANGED <<cps, granted>>

\* persistWorkerRecord: a fence miss and a database error are only logged.  Under
\* "publish_fail" the error hits the records of live workers only (Persist).
PersistRecord(l, st) ==
  \/ Store!UpsertWorkerRecord(l, st)
  \/ ~Store!UpsertFence(l) /\ UNCHANGED storeVars
  \/ "db_fail" \in Faults /\ UNCHANGED storeVars

DropEntry(c, w) == mem' = [mem EXCEPT ![c][w] = NoEntry]

\* retireWorkerWithReason: upsert, forget, and delete the pod whatever the
\* upsert did.  By id: an entry that is no longer there is left alone.
RetireWorker(c, w, st) ==
  \/ /\ Known(c, w)
     /\ PersistRecord(LeaseOf(c, w), st)
     /\ DropEntry(c, w)
     /\ dels' = dels \cup {<<c, w>>}
  \/ /\ ~Known(c, w)
     /\ UNCHANGED <<storeVars, mem, dels>>

\* DeleteWorkerArtifacts, after a CAS to a terminal state.
DeleteWorkerArtifacts(c, w) ==
  /\ DropEntry(c, w)
  /\ dels' = dels \cup {<<c, w>>}

\* A pending write of this goroutine's own record.
Flushed(c, w, st) == \A r \in writes : ~(r.cp = c /\ r.worker = w /\ r.state = st)

Persist(r) ==
  /\ r \in writes
  /\ writes' = writes \ {r}
  /\ \/ PersistRecord(LeaseIn(r), r.state)
     \/ "publish_fail" \in Faults /\ UNCHANGED storeVars
  /\ UNCHANGED <<up, mem, pods, sess, dels, jan, due, flight>>

\* The write of a process that died may never reach the database.
LoseWrite(r) ==
  /\ r \in writes /\ ~Alive(r.cp)
  /\ writes' = writes \ {r}
  /\ UNCHANGED <<storeVars, up, mem, pods, sess, dels, jan, due, flight>>

-----------------------------------------------------------------------------
(* Processes and pods *)

Start(c) ==
  /\ up[c] = "off"
  /\ up' = [up EXCEPT ![c] = "up"]
  /\ Store!UpsertControlPlaneInstance(c, "active")
  /\ UNCHANGED <<mem, pods, sess, writes, dels, jan, due, flight>>

Heartbeat(c) ==
  /\ Alive(c)
  /\ LET st == IF up[c] = "up" THEN "active" ELSE "draining" IN
       /\ cps[c] # st
       /\ Store!UpsertControlPlaneInstance(c, st)
  /\ UNCHANGED <<up, mem, pods, sess, writes, dels, jan, due, flight>>

\* A dead CP's heartbeat goes stale; so may that of a slow one.
ExpireCP(c) ==
  /\ up[c] = "dead" \/ "expiry" \in Faults
  /\ \E leader \in CP : up[leader] = "up"
  /\ Store!ExpireControlPlaneInstances({c})
  /\ UNCHANGED <<up, mem, pods, sess, writes, dels, jan, due, flight>>

\* What is lost with a process.  Its open connections are cut: a client with a
\* Flight token may come back with it.
Vanish(c) ==
  /\ up' = [up EXCEPT ![c] = "dead"]
  /\ mem' = [mem EXCEPT ![c] = [w \in Worker |-> NoEntry]]
  /\ dels' = {d \in dels : d[1] # c}
  /\ due' = [due EXCEPT ![c] = NoRefresh]
  /\ jan' = IF jan # Nil /\ jan.cp = c THEN Nil ELSE jan
  /\ sess' = [s \in Sess |->
       IF sess[s].cp # c \/ sess[s].pc \in {"new", "lost", "done"} THEN sess[s]
       ELSE [sess[s] EXCEPT !.pc = IF flight[s].st = "active" THEN "lost" ELSE "done"]]
  /\ UNCHANGED <<storeVars, pods, writes, flight>>

CrashCP(c) ==
  /\ "cp_crash" \in Faults /\ c \in Mortal /\ Alive(c)
  /\ Vanish(c)

CrashPod(w) ==
  /\ "pod_crash" \in Faults /\ PodUp(w)
  /\ pods' = [pods EXCEPT ![w].st = "gone"]
  /\ UNCHANGED <<storeVars, up, mem, sess, writes, dels, jan, due, flight>>

\* retireWorkerPod's call to the API server; a failure is only logged.
DeletePod(c, w) ==
  /\ <<c, w>> \in dels
  /\ dels' = dels \ {<<c, w>>}
  /\ \/ pods' = [pods EXCEPT ![w].st = "gone"]
     \/ "rpc_fail" \in Faults /\ UNCHANGED pods
  /\ UNCHANGED <<storeVars, up, mem, sess, writes, jan, due, flight>>

-----------------------------------------------------------------------------
(* The neutral warm pool: spawnWarmWorker, spawnWorker *)

SpawnSlot(c, w) ==
  /\ up[c] = "up"
  /\ Store!CreateNeutralWarmWorkerSlot(c, w)
  /\ mem' = [mem EXCEPT ![c][w] = [NoEntry EXCEPT !.life = "spawning"]]
  /\ UNCHANGED <<up, pods, sess, writes, dels, jan, due, flight>>

\* The pod is ready and connected.
SpawnReady(c, w) ==
  /\ mem[c][w].life = "spawning"
  /\ pods' = [pods EXCEPT ![w].st = "up"]
  /\ mem' = [mem EXCEPT ![c][w].life = "idle"]
  /\ writes' = writes \cup {RecordFor(c, w, "idle")}
  /\ UNCHANGED <<storeVars, up, sess, dels, jan, due, flight>>

\* The pod failed to come up and is deleted.  SpawnMinWorkers marks its slot
\* lost; a background spawn leaves the slot to the stuck sweep.
SpawnFail(c, w) ==
  /\ "rpc_fail" \in Faults /\ mem[c][w].life = "spawning"
  /\ pods' = [pods EXCEPT ![w].st = "gone"]
  /\ LET snap == [worker |-> w, state |-> "spawning", owner |-> c, epoch |-> 0] IN
       \/ Store!MarkWorkerTerminalIfCurrent(snap, "lost") /\ DeleteWorkerArtifacts(c, w)
       \/ DropEntry(c, w) /\ UNCHANGED <<storeVars, dels>>
  /\ UNCHANGED <<up, sess, writes, jan, due, flight>>

-----------------------------------------------------------------------------
(* AcquireWorker: reuse a hot worker of the org, else reserve one *)

\* Without "overlap" a CP places one session at a time.
OpenSession(s) ==
  /\ sess[s].pc = "new" /\ up[sess[s].cp] = "up"
  /\ \/ "overlap" \in Faults
     \/ \A t \in Sess : sess[t].cp = sess[s].cp =>
                          sess[t].pc \notin Acquiring \cup Reconnecting
  /\ Goto(s, "acquire")
  /\ UNCHANGED <<storeVars, up, mem, pods, writes, dels, jan, due, flight>>

\* Mutant: the org of the worker is not compared.
FreeHotAnyOrg(c, o) ==
  {w \in Worker : mem[c][w].life = "hot" /\ mem[c][w].n = 0}

\* findIdleAssignedWorkerLocked
FreeHot(c, o) ==
  {w \in Worker : /\ mem[c][w].life = "hot" /\ mem[c][w].org = o
                  /\ mem[c][w].n = 0}

\* assignedWorkerCountLocked
Assigned(c, o) ==
  {w \in Worker : Known(c, w) /\ mem[c][w].life # "hot_idle" /\ mem[c][w].org = o}

ReuseHot(s, w) ==
  LET c == sess[s].cp IN
  /\ sess[s].pc = "acquire" /\ w \in FreeHot(c, SessOrg[s])
  /\ mem' = [mem EXCEPT ![c][w].n = 1]
  /\ sess' = [sess EXCEPT ![s].pc = "acquired", ![s].worker = w]
  /\ UNCHANGED <<storeVars, up, pods, writes, dels, jan, due, flight>>

Reserve(s) ==
  LET c == sess[s].cp IN
  /\ sess[s].pc = "acquire" /\ FreeHot(c, SessOrg[s]) = {}
  /\ Store!Below(Assigned(c, SessOrg[s]), MaxOrgWorkers)
  /\ Goto(s, "reserve")
  /\ UNCHANGED <<storeVars, up, mem, pods, writes, dels, jan, due, flight>>

\* ReserveSharedWorker's two claims.
Claim(s, w) ==
  /\ sess[s].pc = "reserve"
  /\ \/ Store!ClaimHotIdleWorker(sess[s].cp, SessOrg[s], w)
     \/ Store!ClaimIdleWorker(sess[s].cp, SessOrg[s], w)
  /\ sess' = [sess EXCEPT ![s].pc = "claimed", ![s].worker = w,
                          ![s].epoch = rows[w].epoch + 1]
  /\ UNCHANGED <<up, mem, pods, writes, dels, jan, due, flight>>

\* No capacity, or the connection's context ended.
GiveUp(s) ==
  /\ sess[s].pc \in {"acquire", "reserve"}
  /\ Goto(s, "done")
  /\ UNCHANGED <<storeVars, up, mem, pods, writes, dels, jan, due, flight>>

\* reserveClaimedWorker
StaleClaim(s) ==
  LET m == mem[sess[s].cp][sess[s].worker] IN
  \/ m.epoch > 0 /\ sess[s].epoch < m.epoch
  \/ m.epoch = sess[s].epoch /\ m.org = SessOrg[s] /\ m.life \in {"reserved", "activating"}

ReserveClaimed(s) ==
  LET c == sess[s].cp  w == sess[s].worker  m == mem[c][w]
      re == sess[s].pc = "re_claimed" IN
  /\ sess[s].pc \in {"claimed", "re_claimed"}
  /\ \/ /\ StaleClaim(s)
        /\ Goto(s, IF re THEN "lost" ELSE "reserve")
        /\ UNCHANGED mem
     \/ /\ ~StaleClaim(s) /\ m.life \in {"none", "idle", "hot_idle"}
        /\ m.life = "none" => PodUp(w)
        /\ mem' = [mem EXCEPT ![c][w] = [life |-> "reserved", epoch |-> sess[s].epoch,
                                         org |-> SessOrg[s], n |-> m.n]]
        /\ Goto(s, IF re THEN "re_reserved" ELSE "reserved")
     \/ /\ ~StaleClaim(s) /\ m.life \in {"reserved", "activating", "hot"}
        /\ mem' = [mem EXCEPT ![c][w].epoch = sess[s].epoch]
        /\ Goto(s, IF re THEN "lost" ELSE "abandon")
     \/ /\ m.life = "none"
        /\ ~PodUp(w) \/ "rpc_fail" \in Faults
        /\ Goto(s, IF re THEN "lost" ELSE "abandon")
        /\ UNCHANGED mem
  /\ UNCHANGED <<storeVars, up, pods, writes, dels, jan, due, flight>>

\* retireClaimedWorker, and the next round of ReserveSharedWorker.
Abandon(s) ==
  LET c == sess[s].cp  w == sess[s].worker
      snap == [worker |-> w, state |-> "reserved", owner |-> c,
               epoch |-> sess[s].epoch] IN
  /\ sess[s].pc = "abandon"
  /\ Goto(s, "reserve")
  /\ \/ Store!MarkWorkerTerminalIfCurrent(snap, "lost") /\ DeleteWorkerArtifacts(c, w)
     \/ ~Store!MatchesSnapshot(snap) /\ UNCHANGED <<storeVars, mem, dels>>
  /\ UNCHANGED <<up, pods, writes, jan, due, flight>>

-----------------------------------------------------------------------------
(* Activation: activateWorkerForOrg, ActivateReservedWorker *)

\* A failed activation retires whatever entry now has the worker's id.
ActivationError(s) ==
  /\ RetireWorker(sess[s].cp, sess[s].worker, "retired")
  /\ Goto(s, IF sess[s].pc \in Reconnecting THEN "lost" ELSE "done")

\* checkReservedWorkerLiveness, then Reserved -> Activating.
BeginActivation(s) ==
  LET c == sess[s].cp  w == sess[s].worker  re == sess[s].pc = "re_reserved" IN
  /\ sess[s].pc \in {"reserved", "re_reserved"}
  /\ \/ /\ PodUp(w) /\ mem[c][w].life = "reserved"
        /\ mem' = [mem EXCEPT ![c][w].life = "activating"]
        /\ writes' = writes \cup {RecordFor(c, w, "activating")}
        /\ Goto(s, IF re THEN "re_activating" ELSE "activating")
        /\ UNCHANGED <<storeVars, dels>>
     \/ /\ PodUp(w) /\ mem[c][w].life # "reserved"
        /\ ActivationError(s)
        /\ UNCHANGED writes
     \/ /\ ~PodUp(w) \/ "rpc_fail" \in Faults
        /\ RetireWorker(c, w, "lost")
        /\ Goto(s, IF re THEN "lost" ELSE "abandon")
        /\ UNCHANGED writes
  /\ UNCHANGED <<up, pods, jan, due, flight>>

\* duckdbservice: the worker takes its first activation, and later ones for
\* the same org under an epoch that is not behind.
Accepts(w, o, e) ==
  /\ PodUp(w)
  /\ pods[w].org = NoOrg \/ (pods[w].org = o /\ e >= pods[w].epoch)

ActivateTenant(w, o, e) ==
  /\ Accepts(w, o, e)
  /\ pods' = [pods EXCEPT ![w].org = o, ![w].epoch = e]

\* The RPC and the step after it.
Activate(s) ==
  LET c == sess[s].cp  w == sess[s].worker  m == mem[c][w]
      e == IF Known(c, w) THEN m.epoch ELSE sess[s].epoch IN
  /\ sess[s].pc \in {"activating", "re_activating"}
  /\ Flushed(c, w, "activating")
  /\ \/ /\ m.life = "activating"
        /\ ActivateTenant(w, SessOrg[s], e)
        /\ mem' = [mem EXCEPT ![c][w].life = "hot"]
        /\ writes' = writes \cup {RecordFor(c, w, "hot")}
        /\ Goto(s, IF sess[s].pc = "activating" THEN "activated" ELSE "re_activated")
        /\ UNCHANGED <<storeVars, dels>>
     \/ /\ m.life # "activating"
        /\ ActivateTenant(w, SessOrg[s], e)
        /\ ActivationError(s)
        /\ UNCHANGED writes
     \/ /\ ~Accepts(w, SessOrg[s], e) \/ "rpc_fail" \in Faults
        /\ ActivationError(s)
        /\ UNCHANGED <<pods, writes>>
  /\ UNCHANGED <<up, jan, due, flight>>

\* Back in activateWorkerForOrg: the lifecycle must still be hot.
FinishActivation(s) ==
  LET c == sess[s].cp  w == sess[s].worker IN
  /\ sess[s].pc \in {"activated", "re_activated"}
  /\ Flushed(c, w, "hot")
  /\ \/ /\ mem[c][w].life = "hot"
        /\ Goto(s, IF sess[s].pc = "activated" THEN "ready" ELSE "acquired")
        /\ UNCHANGED <<storeVars, mem, dels>>
     \/ mem[c][w].life # "hot" /\ ActivationError(s)
  /\ UNCHANGED <<up, pods, writes, jan, due, flight>>

\* AcquireWorker counts the session under a second p.mu critical section.
CountSession(s) ==
  LET c == sess[s].cp  w == sess[s].worker IN
  /\ sess[s].pc = "ready"
  /\ \/ /\ Known(c, w) /\ mem[c][w].org = SessOrg[s]
        /\ mem' = [mem EXCEPT ![c][w].n = @ + 1]
        /\ Goto(s, "acquired")
     \/ /\ ~Known(c, w)
        /\ Goto(s, "acquire")
        /\ UNCHANGED mem
  /\ UNCHANGED <<storeVars, up, pods, writes, dels, jan, due, flight>>

-----------------------------------------------------------------------------
(* A session on its worker: createSessionOnWorker, DestroySession *)

\* The worker pins its single connection to the session (MaxOpenConns = 1).
CreateSession(s) ==
  LET w == sess[s].worker IN
  /\ sess[s].pc = "acquired" /\ PodUp(w) /\ pods[w].conn = Nil
  /\ pods' = [pods EXCEPT ![w].conn = s]
  /\ Goto(s, "created")
  /\ UNCHANGED <<storeVars, up, mem, writes, dels, jan, due, flight>>

\* The session enters sm.sessions and sm.byWorker, whatever happened to the worker
\* since.  The Flight ingress records worker and epoch once, here.
RegisterSession(s) ==
  LET c == sess[s].cp  w == sess[s].worker IN
  /\ sess[s].pc = "created"
  /\ Goto(s, "running")
  /\ flight' = IF s \notin FlightSess \/ ~Known(c, w) THEN flight
               ELSE [flight EXCEPT ![s] = [st |-> "active", worker |-> w,
                                           epoch |-> mem[c][w].epoch]]
  /\ UNCHANGED <<storeVars, up, mem, pods, writes, dels, jan, due>>

\* The pod is gone, the connection stays taken for 30 s, or the call fails - on
\* its way back, perhaps, the connection taken for good.  RetireWorkerIfNoSessions
\* follows; a reconnect (its record exists) leaves the worker.
CreateSessionFail(s) ==
  LET c == sess[s].cp  w == sess[s].worker
      left == IF mem[c][w].n > 0 THEN mem[c][w].n - 1 ELSE 0 IN
  /\ sess[s].pc = "acquired"
  /\ \/ (~PodUp(w) \/ pods[w].conn # Nil \/ "rpc_fail" \in Faults) /\ UNCHANGED pods
     \/ /\ "rpc_fail" \in Faults /\ PodUp(w) /\ pods[w].conn = Nil
        /\ pods' = [pods EXCEPT ![w].conn = s]
  /\ \/ /\ flight[s].st = "active"
        /\ Goto(s, "lost")
        /\ UNCHANGED <<storeVars, mem, dels>>
     \/ /\ flight[s].st # "active"
        /\ Goto(s, "done")
        /\ \/ left = 0 /\ RetireWorker(c, w, "retired")
           \/ /\ left > 0
              /\ mem' = [mem EXCEPT ![c][w].n = left]
              /\ UNCHANGED <<storeVars, dels>>
  /\ UNCHANGED <<up, writes, jan, due, flight>>

\* Mutant: the transition stays in memory.
ReleaseWorkerUnpublished(c, w) ==
  LET m == mem[c][w]
      left == IF m.n > 0 THEN m.n - 1 ELSE 0 IN
  /\ mem' = [mem EXCEPT ![c][w].n = left,
                        ![c][w].life = IF left = 0 /\ @ = "hot" THEN "hot_idle" ELSE @]
  /\ UNCHANGED writes

\* TransitionToHotIdleIfNoSessions
ReleaseWorker(c, w) ==
  LET m == mem[c][w]
      left == IF m.n > 0 THEN m.n - 1 ELSE 0
      idle == Known(c, w) /\ left = 0 /\ m.life = "hot" IN
  /\ mem' = [mem EXCEPT ![c][w] =
       IF idle THEN [m EXCEPT !.n = 0, !.life = "hot_idle"] ELSE [m EXCEPT !.n = left]]
  /\ writes' = IF idle THEN writes \cup {RecordFor(c, w, "hot_idle")} ELSE writes

CloseFlight(s) ==
  flight' = [flight EXCEPT ![s].st = IF @ = "active" THEN "closed" ELSE @]

\* Mutant: the worker is released before it has dropped the session.
DestroySessionReleaseFirst(s) ==
  /\ sess[s].pc = "running"
  /\ Goto(s, "closing")
  /\ ReleaseWorker(sess[s].cp, sess[s].worker)
  /\ UNCHANGED <<storeVars, up, pods, dels, jan, due, flight>>

\* The worker is told first, best effort, and only if this CP still has it.  A
\* draining CP does the same to a session it has not registered yet.
DestroySession(s) ==
  LET w == sess[s].worker IN
  /\ sess[s].pc = "running" \/ (sess[s].pc = "created" /\ up[sess[s].cp] = "stopping")
  /\ Goto(s, "closing")
  /\ \/ /\ Known(sess[s].cp, w)
        /\ pods' = [pods EXCEPT ![w].conn = IF @ = s THEN Nil ELSE @]
     \/ /\ ~Known(sess[s].cp, w) \/ "rpc_fail" \in Faults
        /\ UNCHANGED pods
  /\ UNCHANGED <<storeVars, up, mem, writes, dels, jan, due, flight>>

FinishDestroy(s) ==
  /\ sess[s].pc = "closing"
  /\ Goto(s, "done")
  /\ ReleaseWorker(sess[s].cp, sess[s].worker)
  /\ CloseFlight(s)
  /\ UNCHANGED <<storeVars, up, pods, dels, jan, due>>

-----------------------------------------------------------------------------
(* Health checks *)

\* onCrash: the sessions registered on the worker are closed.  A durable
\* Flight record stays until it expires.
OnWorkerCrash(c, w) ==
  sess' = [s \in Sess |->
    IF sess[s].pc = "running" /\ sess[s].cp = c /\ sess[s].worker = w
    THEN [sess[s] EXCEPT !.pc = "done"] ELSE sess[s]]

AlreadyLost(l) == Store!MatchesLease(l) /\ rows[l.worker].state = "lost"

\* markWorkerLostForHealthLease: "current" and "already lost" clean up,
\* "stale" only forgets; a row at another epoch of this CP is retried later.
StaleLease(l) ==
  \/ rows[l.worker].owner # l.cp
  \/ Store!MatchesLease(l) /\ rows[l.worker].state \in {"draining", "retired"}

HealthCheck(c, w) ==
  LET l == LeaseOf(c, w) IN
  /\ Alive(c) /\ Known(c, w) /\ (~PodUp(w) \/ "rpc_fail" \in Faults)
  /\ \/ /\ \/ Store!MarkWorkerLostIfCurrentLease(l)
           \/ AlreadyLost(l) /\ UNCHANGED storeVars
        /\ DeleteWorkerArtifacts(c, w)
        /\ OnWorkerCrash(c, w)
     \/ /\ StaleLease(l)
        /\ DropEntry(c, w)
        /\ UNCHANGED <<storeVars, dels, sess>>
  /\ UNCHANGED <<up, pods, writes, jan, due, flight>>

\* cleanDeadWorkersLocked, on the way into AcquireWorker and reserveClaimedWorker:
\* a stale entry is dropped, a current one marked lost and left to the health loop.
CleanDead(c, w) ==
  LET l == LeaseOf(c, w) IN
  /\ Known(c, w) /\ ~PodUp(w)
  /\ \E s \in Sess : sess[s].cp = c /\ sess[s].pc \in {"acquire", "claimed", "re_claimed"}
  /\ \/ Store!MarkWorkerLostIfCurrentLease(l) /\ UNCHANGED mem
     \/ StaleLease(l) /\ DropEntry(c, w) /\ UNCHANGED storeVars
  /\ UNCHANGED <<up, pods, sess, writes, dels, jan, due, flight>>

-----------------------------------------------------------------------------
(* Credential refresh: the scheduler's tick and RefreshCredentials *)

ListDue(c, w) ==
  /\ "refresh" \in Faults /\ Alive(c) /\ due[c] = NoRefresh
  /\ rows[w].owner = c /\ rows[w].org # NoOrg
  /\ rows[w].state \in {"idle", "hot", "hot_idle"}
  /\ due' = [due EXCEPT ![c] = [NoRefresh EXCEPT !.step = "listed", !.worker = w]]
  /\ UNCHANGED <<storeVars, up, mem, pods, sess, writes, dels, jan, flight>>

\* RefreshOwnerEpochAtomic: the row's epoch and the entry's move together.
RefreshBump(c) ==
  LET w == due[c].worker IN
  /\ due[c].step = "listed"
  /\ \/ /\ Known(c, w) /\ mem[c][w].org # NoOrg
        /\ Store!BumpWorkerEpoch(LeaseOf(c, w))
        /\ mem' = [mem EXCEPT ![c][w].epoch = @ + 1]
        /\ due' = [due EXCEPT ![c] = [step |-> "bumped", worker |-> w,
                                      org |-> mem[c][w].org,
                                      epoch |-> mem[c][w].epoch + 1]]
     \/ /\ ~(Known(c, w) /\ mem[c][w].org # NoOrg /\ Store!MatchesLease(LeaseOf(c, w)))
        /\ due' = [due EXCEPT ![c] = NoRefresh]
        /\ UNCHANGED <<storeVars, mem>>
  /\ UNCHANGED <<up, pods, sess, writes, dels, jan, flight>>

RefreshActivate(c) ==
  LET w == due[c].worker IN
  /\ due[c].step = "bumped"
  /\ due' = [due EXCEPT ![c] = NoRefresh]
  /\ \/ ActivateTenant(w, due[c].org, due[c].epoch)
     \/ /\ ~Accepts(w, due[c].org, due[c].epoch) \/ "rpc_fail" \in Faults
        /\ UNCHANGED pods
  /\ UNCHANGED <<storeVars, up, mem, sess, writes, dels, jan, flight>>

-----------------------------------------------------------------------------
(* The leader's janitor, and each CP's reaper *)

Snap(w) == [worker |-> w, state |-> rows[w].state, owner |-> rows[w].owner,
            epoch |-> rows[w].epoch]

\* Mutant: a CP whose heartbeat expired still counts as an owner.
OwnerGoneAbsentOnly(c) == cps[c] = "absent"

OwnerGone(c) == cps[c] \in {"absent", "expired"}

\* ListOrphanedWorkers
Orphaned(w) ==
  /\ rows[w].state \in Store!workerActiveStates
  /\ OwnerGone(rows[w].owner)
  /\ \A s \in Sess : ~(flight[s].st = "active" /\ flight[s].worker = w)

\* ListStuckWorkers and ListExpiredHotIdleSnapshots; any row may be slow enough.
\* RetireOneMismatchedVersionWorker: any idle worker may be of an older version.
StuckOrExpired(w) ==
  \/ rows[w].state \in {"idle", "hot_idle"}
  \/ /\ rows[w].state \in {"spawning", "reserved", "activating"}
     /\ cps[rows[w].owner] # "expired"

JanitorList(c, w) ==
  /\ "janitor" \in Faults /\ up[c] = "up" /\ jan = Nil
  /\ \/ Orphaned(w) /\ jan' = [cp |-> c, kind |-> "orphan", snap |-> Snap(w)]
     \/ StuckOrExpired(w) /\ jan' = [cp |-> c, kind |-> "stale", snap |-> Snap(w)]
  /\ UNCHANGED <<storeVars, up, mem, pods, sess, writes, dels, due, flight>>


\* RetireOrphanFromSnapshot and RetireFromSnapshot: physical cleanup only
\* when the CAS landed.
JanitorRetire ==
  /\ jan # Nil
  /\ jan' = Nil
  /\ \/ /\ jan.kind = "orphan" /\ Store!RetireOrphanWorker(jan.snap)
        /\ DeleteWorkerArtifacts(jan.cp, jan.snap.worker)
     \/ /\ jan.kind = "stale" /\ Store!MarkWorkerTerminalIfCurrent(jan.snap, "retired")
        /\ DeleteWorkerArtifacts(jan.cp, jan.snap.worker)
     \/ /\ ~Store!MatchesSnapshot(jan.snap) \/ (jan.kind = "orphan" /\ ~OwnerGone(jan.snap.owner))
        /\ UNCHANGED <<storeVars, mem, dels>>
  /\ UNCHANGED <<up, pods, sess, writes, due, flight>>

CleanupOrphanedWorkerPods(c, w) ==
  /\ "janitor" \in Faults /\ up[c] = "up"
  /\ PodUp(w) /\ rows[w].state \in Store!WorkerStateTerminal
  /\ pods' = [pods EXCEPT ![w].st = "gone"]
  /\ UNCHANGED <<storeVars, up, mem, sess, writes, dels, jan, due, flight>>

\* Each CP's own reaper; any activation may be slow enough.
ReapStuckActivatingWorkers(c, w) ==
  /\ "janitor" \in Faults /\ up[c] = "up"
  /\ PodUp(w) /\ mem[c][w].life \in {"reserved", "activating"}
  /\ RetireWorker(c, w, "retired")
  /\ UNCHANGED <<up, pods, sess, writes, jan, due, flight>>

ExpireFlightSessionRecords(s) ==
  /\ flight[s].st = "active" /\ sess[s].pc \in {"lost", "done"}
  /\ CloseFlight(s)
  /\ UNCHANGED <<storeVars, up, mem, pods, sess, writes, dels, jan, due>>

-----------------------------------------------------------------------------
(* Flight reconnect through another CP: reconnectByToken, claimSpecificWorker *)

ReconnectSession(s, c) ==
  LET w == flight[s].worker
      l == [worker |-> w, cp |-> c, epoch |-> flight[s].epoch, org |-> SessOrg[s]] IN
  /\ sess[s].pc = "lost" /\ flight[s].st = "active" /\ up[c] = "up"
  /\ \/ /\ Store!TakeOverWorker(c, l)
        /\ sess' = [sess EXCEPT ![s] = [pc |-> "re_claimed", cp |-> c, worker |-> w,
                                        epoch |-> l.epoch + 1]]
        /\ UNCHANGED flight
     \/ /\ rows[w].epoch # l.epoch
        /\ CloseFlight(s)
        /\ Goto(s, "done")
        /\ UNCHANGED storeVars
  /\ UNCHANGED <<up, mem, pods, writes, dels, jan, due>>

-----------------------------------------------------------------------------
(* Shutdown: drainAndShutdown, then OrgRouter.ShutdownAll *)

BeginShutdown(c) ==
  /\ "shutdown" \in Faults /\ c \in Mortal /\ up[c] = "up"
  /\ up' = [up EXCEPT ![c] = "stopping"]
  /\ Store!UpsertControlPlaneInstance(c, "draining")
  /\ jan' = IF jan # Nil /\ jan.cp = c THEN Nil ELSE jan
  /\ UNCHANGED <<mem, pods, sess, writes, dels, due, flight>>

\* DestroyAllSessions has returned.
Drained(c) ==
  /\ up[c] = "stopping"
  /\ \A s \in Sess : sess[s].cp = c => sess[s].pc \in {"new", "lost", "done"}

Bound(c, w) == Known(c, w) /\ mem[c][w].org # NoOrg

\* OrgReservedPool.ShutdownAll
ShutdownOrgWorker(c, w) ==
  /\ Drained(c) /\ Bound(c, w)
  /\ RetireWorker(c, w, "retired")
  /\ UNCHANGED <<up, pods, sess, writes, jan, due, flight>>

\* K8sWorkerPool.ShutdownAll: CAS to draining, delete the pod, CAS to retired.
ShutdownDrain(c, w) ==
  /\ Drained(c) /\ \A v \in Worker : ~Bound(c, v)
  /\ mem[c][w].life = "idle"
  /\ \/ /\ Store!MarkWorkerDraining(LeaseOf(c, w))
        /\ mem' = [mem EXCEPT ![c][w].life = "draining"]
     \/ /\ \/ ~Store!MatchesLease(LeaseOf(c, w))
           \/ rows[w].state \notin Store!workerLostEligibleStates
        /\ DropEntry(c, w)
        /\ UNCHANGED storeVars
  /\ UNCHANGED <<up, pods, sess, writes, dels, jan, due, flight>>

ShutdownDelete(c, w) ==
  /\ mem[c][w].life = "draining" /\ PodUp(w)
  /\ \/ pods' = [pods EXCEPT ![w].st = "gone"] /\ UNCHANGED mem
     \/ "rpc_fail" \in Faults /\ DropEntry(c, w) /\ UNCHANGED pods
  /\ UNCHANGED <<storeVars, up, sess, writes, dels, jan, due, flight>>

ShutdownRetire(c, w) ==
  /\ mem[c][w].life = "draining" /\ ~PodUp(w)
  /\ \/ Store!RetireDrainingWorker(LeaseOf(c, w))
     \/ rows[w].state # "draining" /\ UNCHANGED storeVars
  /\ DropEntry(c, w)
  /\ UNCHANGED <<up, pods, sess, writes, dels, jan, due, flight>>

\* The process exits without waiting for the pod deletions it started.
Exit(c) ==
  /\ Drained(c) /\ \A w \in Worker : ~Known(c, w)
  /\ Vanish(c)

-----------------------------------------------------------------------------

SessionStep(s) ==
  \/ OpenSession(s)
  \/ Reserve(s)
  \/ GiveUp(s)
  \/ ReserveClaimed(s)
  \/ Abandon(s)
  \/ BeginActivation(s)
  \/ Activate(s)
  \/ FinishActivation(s)
  \/ CountSession(s)
  \/ CreateSession(s)
  \/ RegisterSession(s)
  \/ CreateSessionFail(s)
  \/ DestroySession(s)
  \/ FinishDestroy(s)
  \/ ExpireFlightSessionRecords(s)
  \/ \E w \in Worker : ReuseHot(s, w) \/ Claim(s, w)
  \/ \E c \in CP : ReconnectSession(s, c)

PoolStep(c) ==
  \/ Start(c)
  \/ Heartbeat(c)
  \/ ExpireCP(c)
  \/ CrashCP(c)
  \/ RefreshBump(c)
  \/ RefreshActivate(c)
  \/ BeginShutdown(c)
  \/ Exit(c)

WorkerStep(c, w) ==
  \/ DeletePod(c, w)
  \/ SpawnSlot(c, w)
  \/ SpawnReady(c, w)
  \/ SpawnFail(c, w)
  \/ HealthCheck(c, w)
  \/ CleanDead(c, w)
  \/ ListDue(c, w)
  \/ JanitorList(c, w)
  \/ CleanupOrphanedWorkerPods(c, w)
  \/ ReapStuckActivatingWorkers(c, w)
  \/ ShutdownOrgWorker(c, w)
  \/ ShutdownDrain(c, w)
  \/ ShutdownDelete(c, w)
  \/ ShutdownRetire(c, w)

Next ==
  \/ \E s \in Sess : SessionStep(s)
  \/ \E c \in CP : PoolStep(c)
  \/ \E c \in CP, w \in Worker : WorkerStep(c, w)
  \/ \E w \in Worker : CrashPod(w)
  \/ \E r \in writes : Persist(r) \/ LoseWrite(r)
  \/ JanitorRetire

Spec == Init /\ [][Next]_vars

\* Replicas get started; the leader's loops and every CP's health loop keep
\* ticking, and the orphan sweep handles every row it lists.
Fairness ==
  /\ \A c \in CP : WF_vars(Start(c)) /\ WF_vars(ExpireCP(c))
  /\ \A c \in CP, w \in Worker : SF_vars(Orphaned(w) /\ JanitorList(c, w))
  /\ WF_vars(JanitorRetire)
  /\ \A c \in CP, w \in Worker : WF_vars(CleanupOrphanedWorkerPods(c, w))
  /\ \A s \in Sess : WF_vars(ExpireFlightSessionRecords(s))
  /\ \A c \in CP, w \in Worker : WF_vars(~PodUp(w) /\ HealthCheck(c, w))

FairSpec == Spec /\ Fairness

-----------------------------------------------------------------------------
(* Properties *)

(* Every lease the pool's code writes under - the owner and epoch of a map   *)
(* entry (ManagedWorker.OwnerEpoch), of a record built under p.mu and waiting *)
(* in persistWorkerRecord - was granted by the store to that CP: no CP ever  *)
(* presents an epoch it made up, so the store's fences compare real leases.  *)
PoolLeases ==
  /\ \A c \in CP, w \in Worker :
       mem[c][w].life # "none" => LeaseOf(c, w) \in granted
  /\ \A r \in writes : LeaseIn(r) \in granted

(* The pools move the runtime store only by the transactions of WorkerStore, *)
(* with leases the store granted: everything proved of WorkerStore holds of  *)
(* the rows the pools share.                                                 *)
ImplementsStore == Store!Spec

Serving(s) == sess[s].pc = "running" /\ PodUp(sess[s].worker)

(* A worker that runs a session was activated for that session's org:        *)
(* findIdleAssignedWorkerLocked, the two claims, activateWorkerForOrg and    *)
(* the worker's activateTenant never hand a tenant another tenant's DuckLake.*)
ServesOwnTenant ==
  \A s \in Sess : Serving(s) => pods[sess[s].worker].org = SessOrg[s]

(* While a worker runs a session its row is neither idle nor hot_idle, so    *)
(* ClaimIdleWorker and ClaimHotIdleWorker of no CP can hand it out again.    *)
ServingNotClaimable ==
  \A s \in Sess : Serving(s) => rows[sess[s].worker].state \notin {"idle", "hot_idle"}

(* The state of the pools has its type, every lease a CP acts on was granted  *)
(* to it, and no worker that runs a session can be claimed: what the store's  *)
(* fences and the pools' maps keep between them, whoever crashes or is        *)
(* expired.                                                                    *)
PoolInv == TypeOK /\ PoolLeases /\ ServingNotClaimable

(* A worker is given to one session at a time, from AcquireWorker until      *)
(* DestroySession has returned: the worker has one DuckDB connection.        *)
OneSessionPerWorker ==
  \A s, t \in Sess :
    s # t /\ sess[s].pc \in Attached /\ sess[t].pc \in Attached
      => sess[s].worker # sess[t].worker \/ ~PodUp(sess[s].worker)


(* A worker TransitionToHotIdleIfNoSessions made hot_idle in memory is       *)
(* hot_idle in its row once the upsert has returned, while the lease is the  *)
(* CP's own: some CP can reclaim it.                                         *)
HotIdlePublished ==
  \A c \in CP, w \in Worker :
    /\ mem[c][w].life = "hot_idle" /\ Store!MatchesLease(LeaseOf(c, w))
    /\ \A r \in writes : ~(r.cp = c /\ r.worker = w)
    => rows[w].state \in {"hot_idle"} \cup Store!protectedStates

(* What a dead CP left behind in the worker table is retired by the leader's *)
(* orphan sweep, or taken over by another CP.                                *)
DeadOwnersReclaimed ==
  \A c \in CP, w \in Worker :
    up[c] = "dead" /\ rows[w].owner = c => rows[w].state \in Store!WorkerStateTerminal

(* The pod of a retired or lost row goes away, although the deletion of the  *)
(* CP that retired it failed or died with it.                                *)
NoStrandedPod ==
  \A w \in Worker : rows[w].state \in Store!WorkerStateTerminal => ~PodUp(w)

=============================================================================
