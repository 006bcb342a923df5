---------------------------- MODULE WorkerStore ----------------------------
(***************************************************************************)
(* The runtime store's worker_records and cp_instances tables              *)
(* (controlplane/configstore/store.go), shared by every control-plane      *)
(* replica (CP).  Each action is one database transaction.  Callers are as *)
(* general as the pool code allows: a CP may write with any lease it was   *)
(* ever granted, however stale, in any order, and a snapshot holder may    *)
(* retire with any snapshot it ever observed.  What the store promises     *)
(* against such callers is therefore promised against every pool.          *)
(*                                                                         *)
(* Abstractions.  A worker id is any id not used before (the code takes    *)
(* MAX+1).  Images, pod names, heartbeat and credential timestamps are     *)
(* left out; updated_at, which only makes a snapshot miss more often, is   *)
(* the freedom not to take the step.                                       *)
(***************************************************************************)
EXTENDS Naturals, FiniteSets

CONSTANTS
  CP,                 \* control-plane instance ids
  Worker,             \* worker ids
  Org,                \* tenants
  NoCP, NoOrg,        \* the empty owner_cp_instance_id and org_id
  MaxOrgWorkers,      \* per-org cap; 0 is "no cap"
  MaxGlobalWorkers,   \* cluster-wide cap; 0 is "no cap"
  WarmTarget,         \* neutral warm workers wanted; 0 is "no limit"
  MaxEpoch            \* bound on owner_epoch

ASSUME ConstantsAssumption ==
  /\ NoCP \notin CP
  /\ NoOrg \notin Org
  /\ IsFiniteSet(Worker)
  /\ MaxOrgWorkers \in Nat /\ MaxGlobalWorkers \in Nat
  /\ WarmTarget \in Nat /\ MaxEpoch \in Nat

VARIABLES
  rows,      \* worker_records, by worker id
  cps,       \* state of each CP's cp_instances row
  granted    \* every lease the store ever handed to a CP

vars == <<rows, cps, granted>>

-----------------------------------------------------------------------------

WorkerStateNeutral == {"spawning", "idle"}
WorkerStateBound == {"reserved", "activating", "hot", "hot_idle"}
WorkerStateTerminal == {"retired", "lost"}

workerLostEligibleStates == WorkerStateNeutral \cup WorkerStateBound
workerActiveStates == workerLostEligibleStates \cup {"draining"}
protectedStates == WorkerStateTerminal \cup {"draining"}

WorkerState == workerActiveStates \cup WorkerStateTerminal
ControlPlaneInstanceState == {"absent", "active", "draining", "expired"}

WorkerRecord ==
  [state: WorkerState \cup {"none"}, org: Org \cup {NoOrg},
   owner: CP \cup {NoCP}, epoch: 0..MaxEpoch]

NoRecord == [state |-> "none", org |-> NoOrg, owner |-> NoCP, epoch |-> 0]

Lease == [worker: Worker, cp: CP, epoch: 0..MaxEpoch, org: Org \cup {NoOrg}]

Snapshot == [worker: Worker, state: WorkerState, owner: CP, epoch: 0..MaxEpoch]

\* Types of the worker rows, the CP rows and the leases granted.
TypeOK ==
  /\ rows \in [Worker -> WorkerRecord]
  /\ cps \in [CP -> ControlPlaneInstanceState]
  /\ granted \subseteq Lease

Init ==
  /\ rows = [w \in Worker |-> NoRecord]
  /\ cps = [c \in CP |-> "absent"]
  /\ granted = {}

-----------------------------------------------------------------------------
(* Counts taken by the capacity checks. *)

ActiveWorkers == {w \in Worker : rows[w].state \in workerActiveStates}
OrgWorkers(o) == {w \in ActiveWorkers : rows[w].org = o}
NeutralWarmWorkers ==
  {w \in Worker : rows[w].org = NoOrg /\ rows[w].state \in WorkerStateNeutral}

\* Mutant: the cap checked one too late.
BelowOffByOne(S, max) == max > 0 => Cardinality(S) <= max

Below(S, max) == max > 0 => Cardinality(S) < max

(* Which row a conditional UPDATE matches. *)

MatchesLease(l) ==
  rows[l.worker].owner = l.cp /\ rows[l.worker].epoch = l.epoch

MatchesSnapshot(s) ==
  /\ rows[s.worker].state = s.state
  /\ rows[s.worker].owner = s.owner
  /\ rows[s.worker].epoch = s.epoch

\* Mutant: the upsert's fence compares neither owner nor epoch.
UpsertFenceStateOnly(l) == rows[l.worker].state \notin protectedStates

\* Mutant: the upsert's fence does not protect draining and terminal rows.
UpsertFenceLeaseOnly(l) ==
  \/ l.epoch > rows[l.worker].epoch
  \/ MatchesLease(l)

UpsertFence(l) ==
  /\ rows[l.worker].state \notin protectedStates
  /\ \/ l.epoch > rows[l.worker].epoch
     \/ MatchesLease(l)

\* Mutant: the claim changes the owner and keeps the epoch.
GrantLeaseSameEpoch(w, c, o, st) ==
  /\ rows' = [rows EXCEPT ![w] = [state |-> st, org |-> o, owner |-> c,
                                  epoch |-> rows[w].epoch]]
  /\ granted' = granted \cup
       {[worker |-> w, cp |-> c, epoch |-> rows[w].epoch, org |-> o]}
  /\ UNCHANGED cps

(* Hand worker w to c for org o: the next epoch, and the lease that goes   *)
(* with it.                                                                *)
GrantLease(w, c, o, st) ==
  /\ rows[w].epoch < MaxEpoch
  /\ rows' = [rows EXCEPT ![w] = [state |-> st, org |-> o, owner |-> c,
                                  epoch |-> rows[w].epoch + 1]]
  /\ granted' = granted \cup
       {[worker |-> w, cp |-> c, epoch |-> rows[w].epoch + 1, org |-> o]}
  /\ UNCHANGED cps

SetState(w, st) ==
  /\ rows' = [rows EXCEPT ![w].state = st]
  /\ UNCHANGED <<cps, granted>>

-----------------------------------------------------------------------------
(* cp_instances *)

UpsertControlPlaneInstance(c, st) ==
  /\ cps' = [cps EXCEPT ![c] = st]
  /\ UNCHANGED <<rows, granted>>

ExpireControlPlaneInstances(S) ==
  /\ \A c \in S : cps[c] \in {"active", "draining"}
  /\ cps' = [c \in CP |-> IF c \in S THEN "expired" ELSE cps[c]]
  /\ UNCHANGED <<rows, granted>>

ExpireDrainingControlPlaneInstances(S) ==
  /\ \A c \in S : cps[c] = "draining"
  /\ ExpireControlPlaneInstances(S)

-----------------------------------------------------------------------------
(* worker_records *)

CreateNeutralWarmWorkerSlot(c, w) ==
  /\ Below(NeutralWarmWorkers, WarmTarget)
  /\ Below(ActiveWorkers, MaxGlobalWorkers)
  /\ rows[w].state = "none"
  /\ rows' = [rows EXCEPT ![w] = [state |-> "spawning", org |-> NoOrg,
                                  owner |-> c, epoch |-> 0]]
  /\ granted' = granted \cup
       {[worker |-> w, cp |-> c, epoch |-> 0, org |-> NoOrg]}
  /\ UNCHANGED cps

\* The states the pool ever upserts: a worker without a tenant is published
\* spawning or idle, one bound to a tenant in the states of its lease.
PublishedStates(l) ==
  WorkerStateTerminal \cup
    (IF l.org = NoOrg THEN WorkerStateNeutral ELSE WorkerStateBound)

UpsertWorkerRecord(l, st) ==
  /\ UpsertFence(l)
  /\ rows' = [rows EXCEPT ![l.worker] = [state |-> st, org |-> l.org,
                                         owner |-> l.cp, epoch |-> l.epoch]]
  /\ UNCHANGED <<cps, granted>>

ClaimIdleWorker(c, o, w) ==
  /\ Below(OrgWorkers(o), MaxOrgWorkers)
  /\ rows[w].state = "idle"
  /\ GrantLease(w, c, o, "reserved")

\* Mutant: the claim leaves the row's state to the claimer's later upserts.
ClaimHotIdleWorkerKeepsState(c, o, w) ==
  /\ Below({v \in OrgWorkers(o) : rows[v].state # "hot_idle"}, MaxOrgWorkers)
  /\ rows[w].state = "hot_idle" /\ rows[w].org = o
  /\ GrantLease(w, c, o, "hot_idle")

ClaimHotIdleWorker(c, o, w) ==
  /\ Below({v \in OrgWorkers(o) : rows[v].state # "hot_idle"}, MaxOrgWorkers)
  /\ rows[w].state = "hot_idle" /\ rows[w].org = o
  /\ GrantLease(w, c, o, "reserved")

\* A Flight reconnect: l is the lease the session was recorded under.
TakeOverWorker(c, l) ==
  /\ rows[l.worker].epoch = l.epoch
  /\ rows[l.worker].state = "hot"
  /\ GrantLease(l.worker, c, l.org, "reserved")

\* A credential refresh, in whatever state the row is.
BumpWorkerEpoch(l) ==
  /\ MatchesLease(l)
  /\ GrantLease(l.worker, l.cp, rows[l.worker].org, rows[l.worker].state)

MarkWorkerTerminalIfCurrent(s, target) ==
  /\ MatchesSnapshot(s)
  /\ s.state \in IF target = "lost" THEN workerLostEligibleStates
                                    ELSE workerActiveStates
  /\ SetState(s.worker, target)

RetireOrphanWorker(s) ==
  /\ MatchesSnapshot(s)
  /\ s.state \in workerActiveStates
  /\ cps[s.owner] \in {"absent", "expired"}
  /\ SetState(s.worker, "retired")

MarkWorkerLostIfCurrentLease(l) ==
  /\ MatchesLease(l)
  /\ rows[l.worker].state \in workerLostEligibleStates
  /\ SetState(l.worker, "lost")

MarkWorkerDraining(l) ==
  /\ MatchesLease(l)
  /\ rows[l.worker].state \in workerLostEligibleStates
  /\ SetState(l.worker, "draining")

RetireDrainingWorker(l) ==
  /\ MatchesLease(l)
  /\ rows[l.worker].state = "draining"
  /\ SetState(l.worker, "retired")

-----------------------------------------------------------------------------

ControlPlaneStep ==
  \/ \E c \in CP, st \in {"active", "draining"} : UpsertControlPlaneInstance(c, st)
  \/ \E S \in SUBSET CP : ExpireControlPlaneInstances(S)
  \/ \E S \in SUBSET CP : ExpireDrainingControlPlaneInstances(S)

ClaimStep ==
  \/ \E c \in CP, w \in Worker : CreateNeutralWarmWorkerSlot(c, w)
  \/ \E c \in CP, o \in Org, w \in Worker : ClaimIdleWorker(c, o, w)
  \/ \E c \in CP, o \in Org, w \in Worker : ClaimHotIdleWorker(c, o, w)
  \/ \E c \in CP, l \in granted : l.org # NoOrg /\ TakeOverWorker(c, l)
  \/ \E l \in granted : l.org # NoOrg /\ BumpWorkerEpoch(l)

LeaseStep ==
  \/ \E l \in granted : \E st \in PublishedStates(l) : UpsertWorkerRecord(l, st)
  \/ \E l \in granted : MarkWorkerLostIfCurrentLease(l)
  \/ \E l \in granted : MarkWorkerDraining(l)
  \/ \E l \in granted : RetireDrainingWorker(l)

SnapshotStep ==
  \/ \E s \in Snapshot, target \in WorkerStateTerminal :
       MarkWorkerTerminalIfCurrent(s, target)
  \/ \E s \in Snapshot : RetireOrphanWorker(s)

Next == ControlPlaneStep \/ ClaimStep \/ LeaseStep \/ SnapshotStep

Spec == Init /\ [][Next]_vars
-----------------------------------------------------------------------------
(* Properties *)

(* No two leases of one worker share an epoch, and the lease at the row's   *)
(* current epoch is the row's owner's: of all the CPs that still believe    *)
(* they hold a worker, at most one can get a conditional write through.     *)
LeaseExclusive ==
  /\ \A l, m \in granted :
       l.worker = m.worker /\ l.epoch = m.epoch => l = m
  /\ \A l \in granted :
       l.epoch = rows[l.worker].epoch => l.cp = rows[l.worker].owner

(* Late tenant binding is one-way: once a worker has been leased for an     *)
(* org, its row names that org for ever, so no claim, takeover or late      *)
(* publish by the spawner hands the pod to a second tenant.                 *)
TenantBinding ==
  \A l \in granted : l.org # NoOrg => rows[l.worker].org = l.org

(* The caps the advisory-locked counts protect: per org, cluster-wide, and  *)
(* the neutral warm pool's target.                                          *)
CapacityRespected ==
  /\ MaxOrgWorkers > 0 =>
       \A o \in Org : Cardinality(OrgWorkers(o)) <= MaxOrgWorkers
  /\ MaxGlobalWorkers > 0 => Cardinality(ActiveWorkers) <= MaxGlobalWorkers
  /\ WarmTarget > 0 => Cardinality(NeutralWarmWorkers) <= WarmTarget

(* retired and lost are final, and a draining row can only become retired:  *)
(* once ShutdownAll has fenced a worker nobody can make it claimable again, *)
(* so deleting its pod cannot hurt a later owner.                           *)
TerminalStep ==
  \A w \in Worker :
    /\ rows[w].state \in WorkerStateTerminal => rows'[w].state = rows[w].state
    /\ rows[w].state = "draining" => rows'[w].state \in {"draining", "retired"}

TerminalIsFinal == [][TerminalStep]_rows

(* A row changes owner only together with a higher owner_epoch, and the     *)
(* epoch never goes back: a CAS on (owner, epoch) cannot succeed twice for  *)
(* two different owners.                                                    *)
OwnerStep ==
  \A w \in Worker :
    /\ rows'[w].epoch >= rows[w].epoch
    /\ rows[w].state # "none" /\ rows'[w].owner # rows[w].owner
         => rows'[w].epoch > rows[w].epoch

OwnerMovesWithEpoch == [][OwnerStep]_rows

(* Every lease is behind or at its row's epoch, and epoch 0 is exactly the  *)
(* tenantless lease a spawner gets.                                         *)
LeasesBehindRows ==
  \A l \in granted :
    /\ rows[l.worker].state # "none"
    /\ l.epoch <= rows[l.worker].epoch
    /\ l.org = NoOrg <=> l.epoch = 0

(* A row's own lease was granted, a row a claim of an idle worker may still *)
(* hand out names no tenant, and a row in a tenant's states names one.      *)
RowsLeased ==
  \A w \in Worker :
    /\ rows[w].state = "none" => rows[w] = NoRecord
    /\ rows[w].state # "none" =>
         [worker |-> w, cp |-> rows[w].owner, epoch |-> rows[w].epoch,
          org |-> rows[w].org] \in granted
    /\ rows[w].state \in WorkerStateNeutral => rows[w].org = NoOrg
    /\ rows[w].state \in WorkerStateBound => rows[w].org # NoOrg

(* The inductive strengthening of LeaseExclusive and TenantBinding. *)
LeaseInv ==
  TypeOK /\ LeaseExclusive /\ TenantBinding /\ LeasesBehindRows /\ RowsLeased
=============================================================================
