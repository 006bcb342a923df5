--------------------------- MODULE WorkerProcess ---------------------------
(***************************************************************************)
(* A DuckDB worker process: the warm-up of its DuckDB instance, the        *)
(* control plane's calls (ActivateTenant, CreateSession, DestroySession,   *)
(* HealthCheck) with the points where each releases its locks, the one     *)
(* pooled client connection, and the shutdown.                             *)
(*                                                                         *)
(* Every call runs in a goroutine of its own; call[t] is where goroutine t *)
(* is.  A worker serves one organisation in its life, so payloads differ   *)
(* in their owner, epoch and short-lived credentials only.                 *)
(***************************************************************************)
EXTENDS Naturals, FiniteSets, Sequences

CONSTANTS Threads,       \* goroutines that serve calls
          Tokens,        \* session tokens
          Payloads,      \* activation payloads: [cp, epoch, creds]
          First,         \* the payload of the first activation
          MaxSessions,
          Modes,         \* values of sharedWarmMode
          None

VARIABLES sharedWarmMode,
          warm,          \* warm-up: pending, loading, ok (warmupDB set), failed
          fallback,      \* the fallback DuckDB instance: none, ok, err
          mu,            \* who holds SessionPool.mu across several steps
          sem,           \* who holds duckLakeSem
          conn,          \* who holds the main pool's only connection
          temp,          \* kinds of temporary objects its holder made on it
          stale,         \* kinds an earlier session left on it
          attached,      \* catalogs attached to the DuckDB instance
          installed,     \* credentials ever installed as a DuckDB secret
          activation,    \* payload of the committed activation, or None
          sessions, reserved,
          call,          \* [Threads -> [pc, arg]]
          up

locks == <<mu, sem, conn>>
tenant == <<attached, installed, activation>>
table == <<sessions, reserved, temp, stale>>
boot == <<sharedWarmMode, warm, fallback, up>>
vars == <<sharedWarmMode, warm, fallback, mu, sem, conn, temp, stale, attached, installed,
          activation, sessions, reserved, call, up>>

Done == {"idle", "refused"}
TempKinds == {"table", "macro"}

Init ==
  /\ sharedWarmMode \in Modes
  /\ warm = "pending" /\ fallback = "none"
  /\ mu = None /\ sem = None /\ conn = None
  /\ temp = {} /\ stale = {} /\ attached = {} /\ installed = {}
  /\ activation = None
  /\ sessions = {} /\ reserved = 0
  /\ call = [t \in Threads |-> [pc |-> "idle", arg |-> None]]
  /\ up = TRUE

-----------------------------------------------------------------------------
(* Where goroutine t goes next; an answered call forgets its argument.     *)

At(t, pc) == call[t].pc = pc

Goto(t, pc) ==
  call' = [call EXCEPT ![t] = [pc |-> pc, arg |-> IF pc \in Done THEN None ELSE @.arg]]

Begin(t, pc, arg) == call' = [call EXCEPT ![t] = [pc |-> pc, arg |-> arg]]

Free(t) == up /\ call[t].pc \in Done

Unlocked == mu = None

-----------------------------------------------------------------------------
(* Warm-up.                                                                *)

warmupDone == warm \in {"ok", "failed"}

WarmupStart ==
  /\ warm = "pending"
  /\ warm' = "loading"
  /\ UNCHANGED <<sharedWarmMode, fallback, up, call, locks, tenant, table>>

Warmup ==
  /\ warm = "loading" /\ Unlocked
  /\ warm' \in {"ok", "failed"}
  /\ UNCHANGED <<sharedWarmMode, fallback, up, call, locks, tenant, table>>

-----------------------------------------------------------------------------
(* ActivateTenant.                                                         *)

ownerEpoch == IF activation = None THEN 0 ELSE activation.epoch

sameOwnerActivationAttempt(a, b) == a.cp = b.cp /\ a.epoch = b.epoch

\* A payload that may not replace the committed one.
Outdated(p) ==
  /\ p # activation /\ p.epoch <= activation.epoch
  /\ ~sameOwnerActivationAttempt(activation, p)

\* The control plane refreshes or takes over only a worker that is activated.
Sendable(p) == p = First \/ activation # None

\* First phase: look at the current activation and choose a path.
activateTenant(p) ==
  CASE ~sharedWarmMode -> "refused"
    [] sharedWarmMode /\ activation = None ->
         IF p.epoch <= ownerEpoch THEN "refused" ELSE "runtime"
    [] sharedWarmMode /\ activation # None ->
         IF p = activation THEN "idle" ELSE IF Outdated(p) THEN "refused" ELSE "reuse"

doActivateTenant(t, p) ==
  /\ Free(t) /\ Unlocked /\ Sendable(p)
  /\ LET pc == activateTenant(p)
     IN  Begin(t, pc, IF pc \in Done THEN None ELSE p)
  /\ UNCHANGED <<boot, locks, tenant, table>>

\* Once the warm-up is over: use its instance, or create one while holding
\* the lock.
ActivationRuntime(t) ==
  /\ At(t, "runtime") /\ warmupDone /\ Unlocked
  /\ \/ /\ warm = "ok" \/ fallback = "ok"
        /\ warm' = "ok"
        /\ Goto(t, "ducklake")
        /\ UNCHANGED mu
     \/ /\ warm = "failed" /\ fallback = "none"
        /\ mu' = t
        /\ Goto(t, "create")
        /\ UNCHANGED warm
  /\ UNCHANGED <<sharedWarmMode, fallback, up, sem, conn, tenant, table>>

CreateActivationRuntime(t) ==
  /\ At(t, "create")
  /\ mu' = None
  /\ \/ fallback' = "ok" /\ warm' = "ok" /\ Goto(t, "ducklake")
     \/ UNCHANGED <<fallback, warm>> /\ Goto(t, "idle")
  /\ UNCHANGED <<sharedWarmMode, up, sem, conn, tenant, table>>

\* A catalog is attached under the semaphore, whose wait is bounded, by
\* statements on the client connection, whose wait is not.
AttachLock(t, cat) ==
  /\ At(t, cat)
  /\ \/ sem = None /\ sem' = t /\ call' = [call EXCEPT ![t].pc = cat \o "_attach"]
     \/ sem # None /\ sem' = sem /\ Goto(t, "idle")
  /\ UNCHANGED <<boot, mu, conn, tenant, table>>

AttachCatalog(t, cat, mayskip, next) ==
  /\ At(t, cat \o "_attach") /\ conn = None
  /\ sem' = None
  /\ \/ /\ cat \in attached \/ mayskip
        /\ UNCHANGED <<attached, installed>>
        /\ Goto(t, next)
     \/ /\ cat \notin attached
        /\ attached' = attached \cup {cat}
        /\ installed' = installed \cup {call[t].arg.creds}
        /\ Goto(t, next)
     \/ /\ cat \notin attached      \* the secret is made, the ATTACH fails
        /\ UNCHANGED attached
        /\ installed' \in {installed, installed \cup {call[t].arg.creds}}
        /\ Goto(t, "idle")
  /\ UNCHANGED <<boot, mu, conn, activation, table>>

AttachDuckLake(t) == AttachCatalog(t, "ducklake", FALSE, "delta")

\* No Delta path, or no Delta data at it yet: the activation goes on.
AttachDeltaCatalog(t) == AttachCatalog(t, "delta", TRUE, "iceberg")

\* The same for Iceberg on S3 Tables: no bucket, or no namespace in it yet ...
attachS3TablesIcebergCatalog(t) == AttachCatalog(t, "iceberg", TRUE, "default")

\* ... and on Lakekeeper, which may not be provisioned yet.
attachLakekeeperCatalog(t) == AttachCatalog(t, "iceberg", TRUE, "default")

\* The statements after the attachments need the client connection too.
SetDuckLakeDefault(t) ==
  /\ At(t, "default") /\ conn = None
  /\ \E pc \in {"commit", "idle"} : Goto(t, pc)
  /\ UNCHANGED <<boot, locks, tenant, table>>

\* Last phase.  Mutant: without the check that the same payload is already in.
CommitEpochOnly(t) ==
  /\ At(t, "commit") /\ Unlocked
  /\ IF call[t].arg.epoch > ownerEpoch /\ activation = None
       THEN activation' = call[t].arg /\ Goto(t, "idle")
       ELSE UNCHANGED activation /\ Goto(t, "refused")
  /\ UNCHANGED <<boot, locks, attached, installed, table>>

CommitActivation(t) ==
  /\ At(t, "commit") /\ Unlocked
  /\ LET p == call[t].arg IN
     IF activation = p
       THEN UNCHANGED activation /\ Goto(t, "idle")
     ELSE IF p.epoch > ownerEpoch /\ activation = None
       THEN activation' = p /\ Goto(t, "idle")
     ELSE UNCHANGED activation /\ Goto(t, "refused")
  /\ UNCHANGED <<boot, locks, attached, installed, table>>

-----------------------------------------------------------------------------
(* Re-activation of an active worker: a credential refresh or a takeover.  *)

reuseExistingActivation(t) ==
  /\ At(t, "reuse") /\ Unlocked
  /\ LET p == call[t].arg IN
     Goto(t, IF Outdated(p) THEN "refused"
             ELSE IF p.creds # activation.creds THEN "refresh" ELSE "reuse_commit")
  /\ UNCHANGED <<boot, locks, tenant, table>>

RefreshLock(t) ==
  /\ At(t, "refresh") /\ sem = None
  /\ sem' = t
  /\ Goto(t, "swap")
  /\ UNCHANGED <<boot, mu, conn, tenant, table>>

\* Mutant: a refresh that fails is only logged.
RefreshIgnoringErrors(t) ==
  /\ At(t, "swap")
  /\ sem' = None
  /\ installed' \in {installed, installed \cup {call[t].arg.creds}}
  /\ Goto(t, "reuse_commit")
  /\ UNCHANGED <<boot, mu, conn, attached, activation, table>>

\* The secret is replaced through the control connection.
RefreshS3Secret(t) ==
  /\ At(t, "swap")
  /\ sem' = None
  /\ \/ installed' = installed \cup {call[t].arg.creds} /\ Goto(t, "reuse_commit")
     \/ UNCHANGED installed /\ Goto(t, "refused")
  /\ UNCHANGED <<boot, mu, conn, attached, activation, table>>

CommitReuse(t) ==
  /\ At(t, "reuse_commit") /\ Unlocked
  /\ IF Outdated(call[t].arg)
       THEN UNCHANGED activation /\ Goto(t, "refused")
       ELSE activation' = call[t].arg /\ Goto(t, "idle")
  /\ UNCHANGED <<boot, locks, attached, installed, table>>

-----------------------------------------------------------------------------
(* CreateSession.                                                          *)

Full(n) == n >= MaxSessions

\* A slot is reserved; an inactive tenant worker has no sessions.
doCreateSession(t) ==
  /\ Free(t) /\ Unlocked
  /\ IF (sharedWarmMode /\ activation = None) \/ Full(Cardinality(sessions) + reserved)
       THEN Goto(t, "refused") /\ UNCHANGED reserved
       ELSE reserved' = reserved + 1 /\ Begin(t, "wait", None)
  /\ UNCHANGED <<boot, locks, tenant, sessions, temp, stale>>

GiveUp(t) == reserved' = reserved - 1 /\ Goto(t, "idle")

\* The tenant's or the warm-up's instance, or one created once.
ChooseDB(t) ==
  /\ At(t, "wait") /\ warmupDone /\ Unlocked
  /\ \/ /\ (sharedWarmMode /\ activation # None) \/ warm = "ok" \/ fallback = "ok"
        /\ Goto(t, "connect") /\ UNCHANGED reserved
     \/ /\ ~sharedWarmMode /\ warm = "failed" /\ fallback = "err"
        /\ GiveUp(t)
     \/ /\ ~sharedWarmMode /\ warm = "failed" /\ fallback = "none"
        /\ \A u \in Threads : ~At(u, "load")
        /\ Goto(t, "load") /\ UNCHANGED reserved
  /\ UNCHANGED <<boot, locks, tenant, sessions, temp, stale>>

CreateFallback(t) ==
  /\ At(t, "load")
  /\ fallback' \in {"ok", "err"}
  /\ Goto(t, "wait")
  /\ UNCHANGED <<sharedWarmMode, warm, up, locks, tenant, table>>

\* Mutant: the wait for the connection has no timeout.
TakeConnForever(t) ==
  /\ At(t, "connect")
  /\ conn = None /\ conn' = t /\ Goto(t, "insert")
  /\ UNCHANGED <<boot, mu, sem, tenant, table>>

\* The connection, or the end of the 30 seconds this waits for it.
TakeConn(t) ==
  /\ At(t, "connect")
  /\ \/ conn = None /\ conn' = t /\ Goto(t, "insert") /\ UNCHANGED reserved
     \/ conn # None /\ UNCHANGED conn /\ GiveUp(t)
  /\ UNCHANGED <<boot, mu, sem, tenant, sessions, temp, stale>>

InsertSession(t) ==
  /\ At(t, "insert") /\ Unlocked
  /\ \E s \in Tokens :
       /\ s \notin sessions /\ \A u \in Threads : call[u].arg # s
       /\ sessions' = sessions \cup {s}
       /\ conn' = s
  /\ reserved' = reserved - 1
  /\ Goto(t, "idle")
  /\ UNCHANGED <<boot, mu, sem, tenant, temp, stale>>

\* A client's statement leaves a temporary object on the connection.
CreateTemporary(s, kind) ==
  /\ conn = s /\ s \in sessions
  /\ temp' = temp \cup {kind}
  /\ UNCHANGED <<boot, locks, tenant, sessions, reserved, stale, call>>

-----------------------------------------------------------------------------
(* DestroySession.                                                         *)

doDestroySession(t, s) ==
  /\ Free(t) /\ Unlocked
  /\ IF s \in sessions
       THEN sessions' = sessions \ {s} /\ Begin(t, "close", s)
       ELSE UNCHANGED sessions /\ Goto(t, "refused")
  /\ UNCHANGED <<boot, locks, tenant, reserved, temp, stale>>

\* Mutant: the connection goes back to the pool as it is.
CloseToPool(t) ==
  /\ At(t, "close")
  /\ conn' = None
  /\ temp' = {} /\ stale' = stale \cup temp
  /\ Goto(t, "idle")
  /\ UNCHANGED <<boot, mu, sem, tenant, sessions, reserved>>

\* cleanupSessionState: what dropping temporary tables and views leaves.
cleanupSessionState == (temp \cup stale) \ {"table"}

\* The connection is evicted from the pool, or scrubbed and, if that fails,
\* evicted.
DestroySession(t) ==
  /\ At(t, "close")
  /\ temp' = {}
  /\ stale' \in IF sharedWarmMode THEN {{}} ELSE {{}, cleanupSessionState}
  /\ conn' = None
  /\ Goto(t, "idle")
  /\ UNCHANGED <<boot, mu, sem, tenant, sessions, reserved>>

-----------------------------------------------------------------------------
(* HealthCheck and shutdown.                                               *)

doHealthCheck(t) ==
  /\ Free(t) /\ Unlocked
  /\ Begin(t, "health", None)
  /\ UNCHANGED <<boot, locks, tenant, table>>

\* After the warm-up: a snapshot of the sessions under the lock, progress
\* polls without it, and the number of sessions under it again.
HealthSnapshot(t) ==
  /\ At(t, "health") /\ warmupDone /\ Unlocked
  /\ Goto(t, "poll")
  /\ UNCHANGED <<boot, locks, tenant, table>>

HealthAnswer(t) ==
  /\ At(t, "poll") /\ Unlocked
  /\ Goto(t, "idle")
  /\ UNCHANGED <<boot, locks, tenant, table>>

\* SIGTERM: the RPC server stops when its calls have returned; then every
\* session and the DuckDB instance are closed.
CloseAll ==
  /\ up /\ \A t \in Threads : Free(t)
  /\ up' = FALSE
  /\ call' = [t \in Threads |-> [pc |-> "idle", arg |-> None]]
  /\ warm' = "failed" /\ fallback' = "err"
  /\ sessions' = {} /\ conn' = None /\ temp' = {} /\ stale' = {} /\ attached' = {}
  /\ UNCHANGED <<sharedWarmMode, mu, sem, installed, activation, reserved>>

-----------------------------------------------------------------------------
AttachStep(t) ==
  \/ \E cat \in {"ducklake", "delta", "iceberg"} : AttachLock(t, cat)
  \/ AttachDuckLake(t) \/ AttachDeltaCatalog(t)
  \/ attachS3TablesIcebergCatalog(t) \/ attachLakekeeperCatalog(t)
  \/ SetDuckLakeDefault(t)

ReuseStep(t) ==
  reuseExistingActivation(t) \/ RefreshLock(t) \/ RefreshS3Secret(t) \/ CommitReuse(t)

CreateStep(t) ==
  ChooseDB(t) \/ CreateFallback(t) \/ TakeConn(t) \/ InsertSession(t)

\* The goroutine goes on with its call.
Step(t) ==
  \/ ActivationRuntime(t) \/ CreateActivationRuntime(t)
  \/ AttachStep(t) \/ CommitActivation(t) \/ ReuseStep(t)
  \/ CreateStep(t) \/ DestroySession(t) \/ HealthSnapshot(t) \/ HealthAnswer(t)

\* A call arrives.
Arrive(t) ==
  \/ \E p \in Payloads : doActivateTenant(t, p)
  \/ doCreateSession(t)
  \/ \E s \in Tokens : doDestroySession(t, s)
  \/ doHealthCheck(t)

Next ==
  \/ WarmupStart \/ Warmup \/ CloseAll
  \/ \E t \in Threads : Step(t) \/ Arrive(t)
  \/ \E s \in Tokens, kind \in TempKinds : CreateTemporary(s, kind)

Spec == Init /\ [][Next]_vars

\* Goroutines run: the warm-up and every call in progress make a step when
\* they can.  Strong fairness, because Go's mutexes hand themselves to a waiter
\* that has been passed over.  Nothing makes a client destroy its session.
Fairness ==
  /\ WF_vars(WarmupStart \/ Warmup)
  /\ \A t \in Threads : SF_vars(Step(t))

FairSpec == Spec /\ Fairness

-----------------------------------------------------------------------------
(* Properties.                                                             *)

\* Every variable of the worker process has its type, and a reserved slot
\* belongs to a CreateSession call in progress.
TypeOK ==
  /\ warm \in {"pending", "loading", "ok", "failed"} /\ fallback \in {"none", "ok", "err"}
  /\ mu \in Threads \cup {None} /\ sem \in Threads \cup {None}
  /\ conn \in Threads \cup Tokens \cup {None}
  /\ temp \subseteq TempKinds /\ stale \subseteq TempKinds
  /\ attached \subseteq {"ducklake", "delta", "iceberg"}
  /\ installed \subseteq {p.creds : p \in Payloads}
  /\ activation \in Payloads \cup {None}
  /\ sessions \subseteq Tokens
  /\ reserved = Cardinality({t \in Threads :
                               call[t].pc \in {"wait", "load", "connect", "insert"}})

\* service.go: two goroutines that LOAD native extensions at the same time
\* corrupt the heap, so the warm-up, the fallback of CreateSession and the
\* one of activateTenant never overlap.
LoadExclusive ==
  LET loaders == {t \in Threads : call[t].pc \in {"load", "create"}}
  IN  Cardinality(loaders) + (IF warm = "loading" THEN 1 ELSE 0) <= 1

\* CreateSession calls that overlap never open more than MaxSessions sessions.
SlotsCapped == Cardinality(sessions) + reserved <= MaxSessions

\* A session's connection carries no temporary table or view of another
\* session, and on a tenant's worker no temporary object of any kind.
FreshSession == stale \subseteq IF sharedWarmMode THEN {} ELSE {"macro"}

\* activateTenant: a call that repeats the committed activation is never
\* refused, however it interleaves with the one that commits it.
DuplicateAccepted ==
  [][\A t \in Threads :
       (call[t].pc \notin Done /\ call'[t].pc = "refused") =>
         (call[t].pc # "swap" => call[t].arg # activation \/ activation = None)]_vars

\* The committed activation names only credentials that DuckDB was given:
\* a refresh that failed is not recorded as done.
CommittedInstalled == activation # None => activation.creds \in installed

\* Health checks and CreateSession calls are answered although a session may
\* hold the connection for ever and a refresh may wait for the semaphore.
CallAnswered(t) == call[t].pc \notin {"health", "poll", "wait", "load", "connect", "insert"}
=============================================================================
