------------------------- MODULE WorkerStoreProofs -------------------------
(***************************************************************************)
(* Proofs about WorkerStore, for any sets of CPs, workers and orgs and any *)
(* caps.  LeaseInv is inductive; exclusivity of leases and the one-way     *)
(* tenant binding are conjuncts of it, and the two action properties       *)
(* follow from the shape of the steps and LeaseInv.                        *)
(***************************************************************************)
EXTENDS WorkerStore, FiniteSetTheorems, TLAPS

(* The states named by the code are pairwise different. *)
LEMMA StateFacts ==
  /\ WorkerStateNeutral \subseteq WorkerState
  /\ WorkerStateBound \subseteq WorkerState
  /\ WorkerStateTerminal \subseteq WorkerState
  /\ WorkerStateNeutral \cap WorkerStateBound = {}
  /\ "none" \notin WorkerState
  /\ protectedStates \subseteq WorkerState
  /\ protectedStates \cap WorkerStateNeutral = {}
  /\ protectedStates \cap WorkerStateBound = {}
BY DEF protectedStates, WorkerStateNeutral, WorkerStateBound, WorkerStateTerminal, WorkerState,
       workerActiveStates, workerLostEligibleStates

(* The store starts with no row, no lease and no CP. *)
LEMMA InitLeaseInv == Init => LeaseInv
BY ConstantsAssumption DEF Init, LeaseInv, TypeOK, LeaseExclusive, TenantBinding, NoRecord,
   LeasesBehindRows, RowsLeased,
   WorkerRecord, WorkerState, ControlPlaneInstanceState, workerActiveStates,
   workerLostEligibleStates, WorkerStateNeutral, WorkerStateBound, WorkerStateTerminal

(* A grant -- claim, takeover or refresh -- keeps the invariant provided    *)
(* the org it writes is the one the row is already bound to, if any.        *)
LEMMA GrantKeepsLeaseInv ==
  ASSUME LeaseInv, NEW w \in Worker, NEW c \in CP, NEW o \in Org,
         NEW st \in WorkerState,
         st \notin WorkerStateNeutral,
         rows[w].state # "none",
         rows[w].org \in {o, NoOrg},
         GrantLease(w, c, o, st)
  PROVE  LeaseInv'
<1> DEFINE e == rows[w].epoch + 1
           l0 == [worker |-> w, cp |-> c, epoch |-> e, org |-> o]
<1>1. /\ e \in 1..MaxEpoch
      /\ l0 \in Lease
      /\ rows' = [rows EXCEPT ![w] = [state |-> st, org |-> o, owner |-> c, epoch |-> e]]
      /\ granted' = granted \cup {l0}
      /\ cps' = cps
  BY ConstantsAssumption DEF LeaseInv, TypeOK, WorkerRecord, Lease, GrantLease
<1>2. /\ rows'[w] = [state |-> st, org |-> o, owner |-> c, epoch |-> e]
      /\ \A v \in Worker \ {w} : rows'[v] = rows[v]
  BY <1>1 DEF LeaseInv, TypeOK
<1>3. \A l \in granted : l \in Lease /\ (l.worker = w => l.epoch < e)
  BY ConstantsAssumption DEF LeaseInv, TypeOK, LeasesBehindRows, Lease, WorkerRecord
<1>4. TypeOK'
  BY <1>1 DEF LeaseInv, TypeOK, WorkerRecord
<1>5. LeaseExclusive'
  BY <1>1, <1>2, <1>3 DEF LeaseInv, TypeOK, LeaseExclusive, Lease
<1>6. TenantBinding'
  BY <1>1, <1>2, <1>3, ConstantsAssumption
  DEF LeaseInv, TypeOK, TenantBinding, Lease
<1>7. LeasesBehindRows'
  <2>1. st # "none" BY StateFacts
  <2>2. \A l \in granted' : rows'[l.worker].state # "none" /\ l.epoch <= rows'[l.worker].epoch
    BY <1>1, <1>2, <1>3, <2>1 DEF LeaseInv, TypeOK, LeasesBehindRows, Lease, WorkerRecord
  <2>3. l0.org # NoOrg /\ l0.epoch # 0
    BY <1>1, ConstantsAssumption
  <2> QED BY <1>1, <2>2, <2>3 DEF LeaseInv, LeasesBehindRows
<1>8. RowsLeased'
  <2>1. st # "none" /\ o # NoOrg BY StateFacts, ConstantsAssumption
  <2> QED BY <1>1, <1>2, <2>1 DEF LeaseInv, RowsLeased
<1> QED BY <1>4, <1>5, <1>6, <1>7, <1>8 DEF LeaseInv

(* Changing only the state of a row, as long as it fits the row's tenant. *)
LEMMA SetStateKeepsLeaseInv ==
  ASSUME LeaseInv, NEW w \in Worker, rows[w].state # "none",
         NEW st \in WorkerState,
         st \in WorkerStateNeutral => rows[w].org = NoOrg,
         st \in WorkerStateBound => rows[w].org # NoOrg,
         SetState(w, st)
  PROVE  LeaseInv'
<1>1. /\ rows' = [rows EXCEPT ![w].state = st]
      /\ granted' = granted /\ cps' = cps
  BY DEF SetState
<1>2. st # "none"
  BY StateFacts
<1>3. /\ \A v \in Worker : /\ rows'[v].epoch = rows[v].epoch
                           /\ rows'[v].owner = rows[v].owner
                           /\ rows'[v].org = rows[v].org
                           /\ v # w => rows'[v] = rows[v]
      /\ rows'[w].state = st
  BY <1>1 DEF LeaseInv, TypeOK, WorkerRecord
<1>4. TypeOK'
  BY <1>1 DEF LeaseInv, TypeOK, WorkerRecord
<1>5. LeaseExclusive' /\ TenantBinding' /\ LeasesBehindRows'
  BY <1>1, <1>2, <1>3 DEF LeaseInv, TypeOK, LeaseExclusive, TenantBinding,
     LeasesBehindRows, Lease
<1>6. RowsLeased'
  BY <1>1, <1>2, <1>3 DEF LeaseInv, RowsLeased
<1> QED BY <1>4, <1>5, <1>6 DEF LeaseInv

(* A lease that still passes the upsert fence is the row's own lease. *)
LEMMA FencedLeaseIsCurrent ==
  ASSUME LeaseInv, NEW l \in granted, UpsertFence(l)
  PROVE  /\ l.worker \in Worker
         /\ l = [worker |-> l.worker, cp |-> rows[l.worker].owner,
                 epoch |-> rows[l.worker].epoch, org |-> rows[l.worker].org]
         /\ rows[l.worker].state \in workerLostEligibleStates
<1>1. /\ l \in Lease /\ l.worker \in Worker
      /\ rows[l.worker] \in WorkerRecord
      /\ l.epoch <= rows[l.worker].epoch
      /\ rows[l.worker].state # "none"
  BY DEF LeaseInv, TypeOK, Lease, LeasesBehindRows
<1>2. l.epoch = rows[l.worker].epoch
  BY <1>1, ConstantsAssumption DEF UpsertFence, MatchesLease, Lease, WorkerRecord
<1>3. [worker |-> l.worker, cp |-> rows[l.worker].owner,
       epoch |-> rows[l.worker].epoch, org |-> rows[l.worker].org] \in granted
  BY <1>1 DEF LeaseInv, RowsLeased
<1>4. rows[l.worker].state \in workerLostEligibleStates
  BY <1>1 DEF UpsertFence, WorkerRecord, WorkerState, workerActiveStates,
              WorkerStateTerminal, protectedStates
<1> QED BY <1>1, <1>2, <1>3, <1>4 DEF LeaseInv, LeaseExclusive

(* So an upsert that gets through changes nothing but the row's state. *)
LEMMA UpsertIsSetState ==
  ASSUME LeaseInv, NEW l \in granted, NEW st, UpsertWorkerRecord(l, st)
  PROVE  SetState(l.worker, st)
<1>1. /\ l.worker \in Worker
      /\ l.cp = rows[l.worker].owner /\ l.epoch = rows[l.worker].epoch
      /\ l.org = rows[l.worker].org
  BY FencedLeaseIsCurrent DEF UpsertWorkerRecord
<1>2. rows \in [Worker -> WorkerRecord]
  BY DEF LeaseInv, TypeOK
<1>3. [state |-> st, org |-> l.org, owner |-> l.cp, epoch |-> l.epoch]
        = [rows[l.worker] EXCEPT !.state = st]
  BY <1>1, <1>2 DEF WorkerRecord
<1> QED BY <1>1, <1>2, <1>3 DEF UpsertWorkerRecord, SetState

(* UpsertWorkerRecord by any lease ever granted. *)
LEMMA UpsertKeepsLeaseInv ==
  ASSUME LeaseInv, NEW l \in granted, NEW st \in PublishedStates(l),
         UpsertWorkerRecord(l, st)
  PROVE  LeaseInv'
<1>1. /\ l.worker \in Worker /\ rows[l.worker].org = l.org
      /\ rows[l.worker].state # "none"
  BY FencedLeaseIsCurrent DEF UpsertWorkerRecord, LeaseInv, LeasesBehindRows
<1>2. /\ st \in WorkerState
      /\ st \in WorkerStateNeutral => l.org = NoOrg
      /\ st \in WorkerStateBound => l.org # NoOrg
  BY DEF PublishedStates, WorkerState, WorkerStateTerminal, WorkerStateNeutral,
         WorkerStateBound, workerActiveStates, workerLostEligibleStates
<1>3. SetState(l.worker, st)
  BY UpsertIsSetState
<1> QED BY <1>1, <1>2, <1>3, SetStateKeepsLeaseInv

(* A new warm slot takes an unused id, at epoch 0 and without a tenant. *)
LEMMA CreateKeepsLeaseInv ==
  ASSUME LeaseInv, NEW c \in CP, NEW w \in Worker, CreateNeutralWarmWorkerSlot(c, w)
  PROVE  LeaseInv'
<1>1. /\ rows[w].state = "none"
      /\ rows' = [rows EXCEPT ![w] = [state |-> "spawning", org |-> NoOrg, owner |-> c, epoch |-> 0]]
      /\ granted' = granted \cup {[worker |-> w, cp |-> c, epoch |-> 0, org |-> NoOrg]}
      /\ cps' = cps
  BY DEF CreateNeutralWarmWorkerSlot
<1>2. /\ rows'[w] = [state |-> "spawning", org |-> NoOrg, owner |-> c, epoch |-> 0]
      /\ \A v \in Worker \ {w} : rows'[v] = rows[v]
  BY <1>1 DEF LeaseInv, TypeOK
<1>3. \A l \in granted : l \in Lease /\ l.worker # w
  BY <1>1 DEF LeaseInv, TypeOK, LeasesBehindRows
<1>4. "spawning" \in WorkerState /\ "spawning" \in WorkerStateNeutral
      /\ "spawning" \notin WorkerStateBound /\ 0 \in 0..MaxEpoch
  BY ConstantsAssumption DEF WorkerState, WorkerStateNeutral, WorkerStateBound,
     workerActiveStates, workerLostEligibleStates
<1>5. TypeOK'
  BY <1>1, <1>4 DEF LeaseInv, TypeOK, WorkerRecord, Lease
<1>6. LeaseExclusive' /\ TenantBinding' /\ LeasesBehindRows'
  BY <1>1, <1>2, <1>3 DEF LeaseInv, LeaseExclusive, TenantBinding, LeasesBehindRows, Lease
<1>7. RowsLeased'
  BY <1>1, <1>2, <1>4 DEF LeaseInv, RowsLeased
<1> QED BY <1>5, <1>6, <1>7 DEF LeaseInv

(* One step per action. *)
LEMMA NextKeepsLeaseInv == LeaseInv /\ [Next]_vars => LeaseInv'
<1> SUFFICES ASSUME LeaseInv, [Next]_vars PROVE LeaseInv'
  OBVIOUS
<1>t. /\ \A l \in granted : l \in Lease /\ l.worker \in Worker /\ l.cp \in CP
                          /\ rows[l.worker].state # "none"
      /\ \A w \in Worker : rows[w] \in WorkerRecord
  BY DEF LeaseInv, TypeOK, Lease, LeasesBehindRows
<1>1. CASE ControlPlaneStep
  BY <1>1 DEF ControlPlaneStep, UpsertControlPlaneInstance, ExpireControlPlaneInstances,
     ExpireDrainingControlPlaneInstances, LeaseInv, TypeOK, LeaseExclusive, TenantBinding,
     LeasesBehindRows, RowsLeased, ControlPlaneInstanceState
<1>2. ASSUME NEW c \in CP, NEW w \in Worker, CreateNeutralWarmWorkerSlot(c, w) PROVE LeaseInv'
  BY <1>2, CreateKeepsLeaseInv
<1>3. ASSUME NEW c \in CP, NEW o \in Org, NEW w \in Worker, ClaimIdleWorker(c, o, w) PROVE LeaseInv'
  <2>1. rows[w].state = "idle" /\ GrantLease(w, c, o, "reserved")
    BY <1>3 DEF ClaimIdleWorker
  <2>2. rows[w].org = NoOrg
    BY <2>1 DEF LeaseInv, RowsLeased, WorkerStateNeutral
  <2>3. "reserved" \in WorkerState /\ "reserved" \notin WorkerStateNeutral
    BY DEF WorkerState, WorkerStateNeutral, WorkerStateBound, workerActiveStates, workerLostEligibleStates
  <2> QED BY <2>1, <2>2, <2>3, GrantKeepsLeaseInv
<1>4. ASSUME NEW c \in CP, NEW o \in Org, NEW w \in Worker, ClaimHotIdleWorker(c, o, w) PROVE LeaseInv'
  <2>1. /\ rows[w].state = "hot_idle" /\ rows[w].org = o
        /\ GrantLease(w, c, o, "reserved")
    BY <1>4 DEF ClaimHotIdleWorker
  <2>2. "reserved" \in WorkerState /\ "reserved" \notin WorkerStateNeutral
    BY DEF WorkerState, WorkerStateNeutral, WorkerStateBound, workerActiveStates, workerLostEligibleStates
  <2> QED BY <2>1, <2>2, GrantKeepsLeaseInv
<1>5. ASSUME NEW c \in CP, NEW l \in granted, l.org # NoOrg, TakeOverWorker(c, l) PROVE LeaseInv'
  <2>1. /\ rows[l.worker].org = l.org /\ l.org \in Org
        /\ GrantLease(l.worker, c, l.org, "reserved")
    BY <1>5, <1>t DEF LeaseInv, TenantBinding, TakeOverWorker, Lease
  <2>2. "reserved" \in WorkerState /\ "reserved" \notin WorkerStateNeutral
    BY DEF WorkerState, WorkerStateNeutral, WorkerStateBound, workerActiveStates, workerLostEligibleStates
  <2> QED BY <1>t, <2>1, <2>2, GrantKeepsLeaseInv
<1>6. ASSUME NEW l \in granted, l.org # NoOrg, BumpWorkerEpoch(l) PROVE LeaseInv'
  <2>1. /\ rows[l.worker].org = l.org /\ l.org \in Org
        /\ GrantLease(l.worker, l.cp, l.org, rows[l.worker].state)
    BY <1>6, <1>t DEF LeaseInv, TenantBinding, BumpWorkerEpoch, Lease
  <2>2. rows[l.worker].state \in WorkerState /\ rows[l.worker].state \notin WorkerStateNeutral
    BY <1>6, <1>t, <2>1 DEF LeaseInv, RowsLeased, WorkerRecord
  <2> QED BY <1>t, <2>1, <2>2, GrantKeepsLeaseInv
<1>7. ASSUME NEW l \in granted, NEW st \in PublishedStates(l), UpsertWorkerRecord(l, st) PROVE LeaseInv'
  BY <1>7, UpsertKeepsLeaseInv
<1>8. ASSUME NEW l \in granted,
             MarkWorkerLostIfCurrentLease(l) \/ MarkWorkerDraining(l) \/ RetireDrainingWorker(l)
      PROVE LeaseInv'
  <2>1. \E st \in protectedStates : SetState(l.worker, st)
    BY <1>8 DEF MarkWorkerLostIfCurrentLease, MarkWorkerDraining, RetireDrainingWorker,
       protectedStates, WorkerStateTerminal
  <2> QED BY <1>t, <2>1, StateFacts, SetStateKeepsLeaseInv
<1>9. ASSUME NEW s \in Snapshot,
             (\E target \in WorkerStateTerminal : MarkWorkerTerminalIfCurrent(s, target))
               \/ RetireOrphanWorker(s)
      PROVE LeaseInv'
  <2>1. \E st \in protectedStates : SetState(s.worker, st)
    BY <1>9 DEF MarkWorkerTerminalIfCurrent, RetireOrphanWorker, protectedStates, WorkerStateTerminal
  <2>2. s.worker \in Worker /\ rows[s.worker].state # "none"
    BY <1>9, StateFacts DEF MarkWorkerTerminalIfCurrent, RetireOrphanWorker, MatchesSnapshot, Snapshot
  <2> QED BY <2>1, <2>2, StateFacts, SetStateKeepsLeaseInv
<1>10. CASE UNCHANGED vars
  BY <1>10 DEF vars, LeaseInv, TypeOK, LeaseExclusive, TenantBinding, LeasesBehindRows, RowsLeased
<1> QED BY <1>1, <1>2, <1>3, <1>4, <1>5, <1>6, <1>7, <1>8, <1>9, <1>10
     DEF Next, ClaimStep, LeaseStep, SnapshotStep

(* LeaseInv holds in every reachable state of the store. *)
THEOREM LeaseInvariant == Spec => []LeaseInv
BY InitLeaseInv, NextKeepsLeaseInv, PTL DEF Spec

(* The tables keep their types. *)
THEOREM TypeCorrect == Spec => []TypeOK
<1>1. LeaseInv => TypeOK BY DEF LeaseInv
<1> QED BY <1>1, LeaseInvariant, PTL

(* At most one CP holds the lease that can still write a worker's row. *)
THEOREM LeaseExclusivity == Spec => []LeaseExclusive
<1>1. LeaseInv => LeaseExclusive BY DEF LeaseInv
<1> QED BY <1>1, LeaseInvariant, PTL

(* A worker once leased for an org is bound to that org for ever. *)
THEOREM TenantIsolation == Spec => []TenantBinding
<1>1. LeaseInv => TenantBinding BY DEF LeaseInv
<1> QED BY <1>1, LeaseInvariant, PTL

-----------------------------------------------------------------------------
(* What a step can do to the rows: create one, hand one to a new lease, or *)
(* change the state of one that is not terminal.                           *)

CreateShape(w) ==
  /\ rows[w].state = "none"
  /\ Below(NeutralWarmWorkers, WarmTarget) /\ Below(ActiveWorkers, MaxGlobalWorkers)
  /\ \E c \in CP : rows' = [rows EXCEPT ![w] =
       [state |-> "spawning", org |-> NoOrg, owner |-> c, epoch |-> 0]]

GrantShape(w, c, o, st) ==
  /\ c \in CP /\ o \in Org /\ st \in WorkerState
  /\ rows' = [rows EXCEPT ![w] = [state |-> st, org |-> o, owner |-> c,
                                  epoch |-> rows[w].epoch + 1]]
  /\ \/ st = rows[w].state /\ o = rows[w].org
     \/ st = "reserved" /\ rows[w].state \in {"hot", "hot_idle"} /\ o = rows[w].org
     \/ st = "reserved" /\ rows[w].state = "idle" /\ Below(OrgWorkers(o), MaxOrgWorkers)

StateShape(w) ==
  \E st \in WorkerState :
    /\ rows' = [rows EXCEPT ![w].state = st]
    /\ rows[w].state \in workerActiveStates
    /\ rows[w].state = "draining" => st = "retired"
    /\ st \in WorkerStateNeutral => rows[w].state \in WorkerStateNeutral

(* Every step of the store leaves the rows alone or writes one of them in   *)
(* one of the three shapes.                                                 *)
LEMMA StepShapes ==
  ASSUME LeaseInv, [Next]_vars
  PROVE  \/ rows' = rows
         \/ \E w \in Worker : CreateShape(w)
         \/ \E w \in Worker, c \in CP, o \in Org, st \in WorkerState : GrantShape(w, c, o, st)
         \/ \E w \in Worker : StateShape(w)
<1>t. /\ \A l \in granted : /\ l \in Lease /\ l.worker \in Worker /\ l.cp \in CP
                            /\ l.org # NoOrg => l.org \in Org /\ rows[l.worker].org = l.org
                            /\ rows[l.worker].state \in WorkerState
      /\ "reserved" \in WorkerState
  BY DEF LeaseInv, TypeOK, Lease, LeasesBehindRows, TenantBinding, WorkerRecord, WorkerState,
     workerActiveStates, workerLostEligibleStates, WorkerStateBound
<1>1. ASSUME ControlPlaneStep \/ UNCHANGED vars PROVE rows' = rows
  BY <1>1 DEF ControlPlaneStep, UpsertControlPlaneInstance, ExpireControlPlaneInstances,
     ExpireDrainingControlPlaneInstances, vars
<1>2. ASSUME NEW c \in CP, NEW w \in Worker, CreateNeutralWarmWorkerSlot(c, w) PROVE CreateShape(w)
  BY <1>2 DEF CreateNeutralWarmWorkerSlot, CreateShape
<1>3. ASSUME NEW c \in CP, NEW o \in Org, NEW w \in Worker,
             ClaimIdleWorker(c, o, w) \/ ClaimHotIdleWorker(c, o, w)
      PROVE GrantShape(w, c, o, "reserved")
  BY <1>3, <1>t DEF ClaimIdleWorker, ClaimHotIdleWorker, GrantLease, GrantShape
<1>4. ASSUME NEW c \in CP, NEW l \in granted, l.org # NoOrg, TakeOverWorker(c, l)
      PROVE GrantShape(l.worker, c, l.org, "reserved")
  <2>1. /\ GrantLease(l.worker, c, l.org, "reserved")
        /\ rows[l.worker].state = "hot" /\ l.org = rows[l.worker].org /\ l.org \in Org
    BY <1>4, <1>t DEF TakeOverWorker
  <2> QED BY <1>4, <1>t, <2>1 DEF GrantLease, GrantShape
<1>5. ASSUME NEW l \in granted, l.org # NoOrg, BumpWorkerEpoch(l)
      PROVE GrantShape(l.worker, l.cp, l.org, rows[l.worker].state)
  <2>1. /\ GrantLease(l.worker, l.cp, l.org, rows[l.worker].state)
        /\ l.org = rows[l.worker].org /\ l.org \in Org
    BY <1>5, <1>t DEF BumpWorkerEpoch
  <2> QED BY <1>5, <1>t, <2>1 DEF GrantLease, GrantShape
<1>6. ASSUME NEW l \in granted, NEW st \in PublishedStates(l), UpsertWorkerRecord(l, st)
      PROVE StateShape(l.worker)
  <2>1. SetState(l.worker, st)
    BY <1>6, UpsertIsSetState
  <2>2. rows[l.worker].state \in workerLostEligibleStates /\ l.org = rows[l.worker].org
    BY <1>6, FencedLeaseIsCurrent DEF UpsertWorkerRecord
  <2>3. st \in WorkerState /\ (st \in WorkerStateNeutral => l.org = NoOrg)
    BY DEF PublishedStates, WorkerState, WorkerStateTerminal, WorkerStateNeutral,
       WorkerStateBound, workerActiveStates, workerLostEligibleStates
  <2>4. st \in WorkerStateNeutral => rows[l.worker].state \in WorkerStateNeutral
    <3>1. rows[l.worker].state \in WorkerStateBound => rows[l.worker].org # NoOrg
      BY <1>t DEF LeaseInv, RowsLeased, TypeOK, WorkerRecord
    <3> QED BY <2>2, <2>3, <3>1 DEF workerLostEligibleStates
  <2>5. rows[l.worker].state \in workerActiveStates /\ rows[l.worker].state # "draining"
    BY <2>2 DEF workerActiveStates, workerLostEligibleStates, WorkerStateNeutral, WorkerStateBound
  <2> QED BY <2>1, <2>3, <2>4, <2>5 DEF SetState, StateShape
<1>7. ASSUME NEW l \in granted,
             MarkWorkerLostIfCurrentLease(l) \/ MarkWorkerDraining(l) \/ RetireDrainingWorker(l)
      PROVE StateShape(l.worker)
  BY <1>7 DEF MarkWorkerLostIfCurrentLease, MarkWorkerDraining, RetireDrainingWorker, SetState,
     StateShape, workerActiveStates, workerLostEligibleStates, WorkerStateNeutral,
     WorkerStateBound, WorkerStateTerminal, WorkerState
<1>8. ASSUME NEW s \in Snapshot, NEW target \in WorkerStateTerminal,
             MarkWorkerTerminalIfCurrent(s, target)
      PROVE s.worker \in Worker /\ StateShape(s.worker)
  BY <1>8 DEF MarkWorkerTerminalIfCurrent, MatchesSnapshot, Snapshot, SetState,
     StateShape, workerActiveStates, workerLostEligibleStates, WorkerStateNeutral,
     WorkerStateBound, WorkerStateTerminal, WorkerState
<1>9. ASSUME NEW s \in Snapshot, RetireOrphanWorker(s)
      PROVE s.worker \in Worker /\ StateShape(s.worker)
  BY <1>9 DEF RetireOrphanWorker, MatchesSnapshot, Snapshot, SetState,
     StateShape, workerActiveStates, workerLostEligibleStates, WorkerStateNeutral,
     WorkerStateBound, WorkerStateTerminal, WorkerState
<1>10. CASE ClaimStep
  BY <1>t, <1>2, <1>3, <1>4, <1>5, <1>10 DEF ClaimStep
<1>11. CASE LeaseStep
  BY <1>t, <1>6, <1>7, <1>11 DEF LeaseStep
<1>12. CASE SnapshotStep
  BY <1>8, <1>9, <1>12 DEF SnapshotStep
<1> QED BY <1>1, <1>10, <1>11, <1>12 DEF Next

(* Terminal rows stay terminal and draining rows only retire. *)
THEOREM TerminalStaysTerminal == Spec => TerminalIsFinal
<1>1. ASSUME LeaseInv, [Next]_vars PROVE [TerminalStep]_rows
  <2>t. rows \in [Worker -> WorkerRecord]
    BY <1>1 DEF LeaseInv, TypeOK
  <2>1. ASSUME NEW w \in Worker, CreateShape(w) PROVE TerminalStep
    BY <2>1, <2>t DEF CreateShape, TerminalStep, WorkerStateTerminal, WorkerRecord
  <2>2. ASSUME NEW w \in Worker, NEW c, NEW o, NEW st, GrantShape(w, c, o, st) PROVE TerminalStep
    BY <2>2, <2>t DEF GrantShape, TerminalStep, WorkerStateTerminal, WorkerRecord
  <2>3. ASSUME NEW w \in Worker, StateShape(w) PROVE TerminalStep
    BY <2>3, <2>t DEF StateShape, TerminalStep, WorkerStateTerminal, WorkerRecord,
       workerActiveStates, workerLostEligibleStates, WorkerStateNeutral, WorkerStateBound
  <2> QED BY <1>1, <2>1, <2>2, <2>3, StepShapes
<1> QED BY <1>1, LeaseInvariant, PTL DEF Spec, TerminalIsFinal

(* Epochs never fall, and a change of owner raises the epoch. *)
THEOREM EpochFencesOwner == Spec => OwnerMovesWithEpoch
<1>1. ASSUME LeaseInv, [Next]_vars PROVE [OwnerStep]_rows
  <2>t. /\ rows \in [Worker -> WorkerRecord]
        /\ \A w \in Worker : rows[w].epoch \in Nat
        /\ \A w \in Worker : rows[w].state = "none" => rows[w].epoch = 0
    <3>1. rows \in [Worker -> WorkerRecord]
      BY <1>1 DEF LeaseInv, TypeOK
    <3>2. \A w \in Worker : rows[w].epoch \in Nat
      BY <3>1, ConstantsAssumption DEF WorkerRecord
    <3>3. \A w \in Worker : rows[w].state = "none" => rows[w].epoch = 0
      <4>1. \A w \in Worker : rows[w].state = "none" => rows[w] = NoRecord
        BY <1>1 DEF LeaseInv, RowsLeased
      <4>2. NoRecord.epoch = 0
        BY DEF NoRecord
      <4> QED BY <4>1, <4>2
    <3> QED BY <3>1, <3>2, <3>3
  <2>1. ASSUME NEW w \in Worker, CreateShape(w) PROVE OwnerStep
    BY <2>1, <2>t DEF CreateShape, OwnerStep
  <2>2. ASSUME NEW w \in Worker, NEW c, NEW o, NEW st, GrantShape(w, c, o, st) PROVE OwnerStep
    BY <2>2, <2>t DEF GrantShape, OwnerStep
  <2>3. ASSUME NEW w \in Worker, StateShape(w) PROVE OwnerStep
    BY <2>3, <2>t DEF StateShape, OwnerStep, WorkerRecord
  <2> QED BY <1>1, <2>1, <2>2, <2>3, StepShapes
<1> QED BY <1>1, LeaseInvariant, PTL DEF Spec, OwnerMovesWithEpoch

-----------------------------------------------------------------------------
(* A count that stays within its set, or grows by one below the cap. *)
LEMMA CountWithinCap ==
  ASSUME NEW S, NEW T, NEW x, NEW max \in Nat, max > 0,
         IsFiniteSet(S), Cardinality(S) <= max,
         T \subseteq S \/ (T \subseteq S \cup {x} /\ Cardinality(S) < max)
  PROVE  Cardinality(T) <= max
<1>1. /\ Cardinality(S) \in Nat
      /\ IsFiniteSet(S \cup {x}) /\ Cardinality(S \cup {x}) \in Nat
      /\ Cardinality(S \cup {x}) <= Cardinality(S) + 1
  BY FS_CardinalityType, FS_AddElement
<1>2. CASE T \subseteq S
  BY <1>1, <1>2, FS_Subset, FS_CardinalityType
<1>3. CASE T \subseteq S \cup {x} /\ Cardinality(S) < max
  <2>1. Cardinality(T) <= Cardinality(S \cup {x}) /\ Cardinality(T) \in Nat
    BY <1>1, <1>3, FS_Subset, FS_CardinalityType
  <2> QED BY <1>1, <1>3, <2>1
<1> QED BY <1>2, <1>3

(* Writing one row keeps every cap, if each count the row newly enters was  *)
(* below its cap.                                                           *)
LEMMA RowWriteKeepsCapacity ==
  ASSUME TypeOK, CapacityRespected, NEW w \in Worker, NEW r,
         rows' = [rows EXCEPT ![w] = r],
         r.state \in workerActiveStates =>
           \/ rows[w].state \in workerActiveStates
           \/ Below(ActiveWorkers, MaxGlobalWorkers),
         \A o \in Org : r.state \in workerActiveStates /\ r.org = o =>
           \/ rows[w].state \in workerActiveStates /\ rows[w].org = o
           \/ Below(OrgWorkers(o), MaxOrgWorkers),
         r.org = NoOrg /\ r.state \in WorkerStateNeutral =>
           \/ rows[w].org = NoOrg /\ rows[w].state \in WorkerStateNeutral
           \/ Below(NeutralWarmWorkers, WarmTarget)
  PROVE  CapacityRespected'
<1>1. /\ rows'[w] = r
      /\ \A v \in Worker : v # w => rows'[v] = rows[v]
  BY DEF TypeOK
<1>2. \A S \in SUBSET Worker : IsFiniteSet(S)
  BY FS_Subset, ConstantsAssumption
<1>3. ASSUME MaxGlobalWorkers > 0 PROVE Cardinality(ActiveWorkers') <= MaxGlobalWorkers
  <2>1. \/ ActiveWorkers' \subseteq ActiveWorkers
        \/ ActiveWorkers' \subseteq ActiveWorkers \cup {w} /\ Cardinality(ActiveWorkers) < MaxGlobalWorkers
    BY <1>1, <1>3 DEF ActiveWorkers, Below
  <2>2. IsFiniteSet(ActiveWorkers) /\ Cardinality(ActiveWorkers) <= MaxGlobalWorkers
    BY <1>2, <1>3 DEF ActiveWorkers, CapacityRespected
  <2> QED BY <1>3, <2>1, <2>2, CountWithinCap, ConstantsAssumption
<1>4. ASSUME MaxOrgWorkers > 0, NEW o \in Org PROVE Cardinality(OrgWorkers(o)') <= MaxOrgWorkers
  <2>1. \/ OrgWorkers(o)' \subseteq OrgWorkers(o)
        \/ OrgWorkers(o)' \subseteq OrgWorkers(o) \cup {w} /\ Cardinality(OrgWorkers(o)) < MaxOrgWorkers
    BY <1>1, <1>4 DEF OrgWorkers, ActiveWorkers, Below
  <2>2. IsFiniteSet(OrgWorkers(o)) /\ Cardinality(OrgWorkers(o)) <= MaxOrgWorkers
    BY <1>2, <1>4 DEF OrgWorkers, ActiveWorkers, CapacityRespected
  <2> QED BY <1>4, <2>1, <2>2, CountWithinCap, ConstantsAssumption
<1>5. ASSUME WarmTarget > 0 PROVE Cardinality(NeutralWarmWorkers') <= WarmTarget
  <2>1. \/ NeutralWarmWorkers' \subseteq NeutralWarmWorkers
        \/ NeutralWarmWorkers' \subseteq NeutralWarmWorkers \cup {w} /\ Cardinality(NeutralWarmWorkers) < WarmTarget
    BY <1>1, <1>5 DEF NeutralWarmWorkers, Below
  <2>2. IsFiniteSet(NeutralWarmWorkers) /\ Cardinality(NeutralWarmWorkers) <= WarmTarget
    BY <1>2, <1>5 DEF NeutralWarmWorkers, CapacityRespected
  <2> QED BY <1>5, <2>1, <2>2, CountWithinCap, ConstantsAssumption
<1> QED BY <1>3, <1>4, <1>5 DEF CapacityRespected

(* The per-org, cluster-wide and warm-pool caps hold in every state. *)
THEOREM CapacityInvariant == Spec => []CapacityRespected
<1>1. Init => CapacityRespected
  <2> SUFFICES ASSUME Init PROVE CapacityRespected
    OBVIOUS
  <2>1. ActiveWorkers = {} /\ NeutralWarmWorkers = {} /\ \A o \in Org : OrgWorkers(o) = {}
    BY DEF Init, NoRecord, ActiveWorkers, NeutralWarmWorkers, OrgWorkers, workerActiveStates,
       workerLostEligibleStates, WorkerStateNeutral, WorkerStateBound
  <2> QED BY <2>1, FS_EmptySet, ConstantsAssumption DEF CapacityRespected
<1>2. ASSUME LeaseInv, CapacityRespected, [Next]_vars PROVE CapacityRespected'
  <2>t. TypeOK /\ rows \in [Worker -> WorkerRecord]
    BY <1>2 DEF LeaseInv, TypeOK
  <2>1. ASSUME NEW w \in Worker, CreateShape(w) PROVE CapacityRespected'
    <3>1. PICK c \in CP : rows' = [rows EXCEPT ![w] =
            [state |-> "spawning", org |-> NoOrg, owner |-> c, epoch |-> 0]]
      BY <2>1 DEF CreateShape
    <3> DEFINE r == [state |-> "spawning", org |-> NoOrg, owner |-> c, epoch |-> 0]
    <3>2. \A o \in Org : r.org # o
      BY ConstantsAssumption
    <3>3. Below(ActiveWorkers, MaxGlobalWorkers) /\ Below(NeutralWarmWorkers, WarmTarget)
      BY <2>1 DEF CreateShape
    <3>4. rows' = [rows EXCEPT ![w] = r]
      BY <3>1
    <3> HIDE DEF r
    <3>5. \A o \in Org : r.state \in workerActiveStates /\ r.org = o =>
            \/ rows[w].state \in workerActiveStates /\ rows[w].org = o
            \/ Below(OrgWorkers(o), MaxOrgWorkers)
      BY <3>2
    <3> QED BY <1>2, <2>t, <3>3, <3>4, <3>5, RowWriteKeepsCapacity
  <2>2. ASSUME NEW w \in Worker, NEW c, NEW o, NEW st, GrantShape(w, c, o, st)
        PROVE CapacityRespected'
    <3> DEFINE r == [state |-> st, org |-> o, owner |-> c, epoch |-> rows[w].epoch + 1]
    <3>1. rows' = [rows EXCEPT ![w] = r] /\ r.state = st /\ r.org = o /\ o # NoOrg
      BY <2>2, ConstantsAssumption DEF GrantShape
    <3>2. \/ st = rows[w].state /\ o = rows[w].org
          \/ rows[w].state \in workerActiveStates /\ o = rows[w].org
          \/ rows[w].state \in workerActiveStates /\ Below(OrgWorkers(o), MaxOrgWorkers)
      BY <2>2 DEF GrantShape, workerActiveStates, workerLostEligibleStates,
         WorkerStateNeutral, WorkerStateBound
    <3> HIDE DEF r
    <3>3. r.state \in workerActiveStates =>
            \/ rows[w].state \in workerActiveStates
            \/ Below(ActiveWorkers, MaxGlobalWorkers)
      BY <3>1, <3>2
    <3>4. \A p \in Org : r.state \in workerActiveStates /\ r.org = p =>
            \/ rows[w].state \in workerActiveStates /\ rows[w].org = p
            \/ Below(OrgWorkers(p), MaxOrgWorkers)
      BY <3>1, <3>2
    <3>5. r.org = NoOrg /\ r.state \in WorkerStateNeutral =>
            \/ rows[w].org = NoOrg /\ rows[w].state \in WorkerStateNeutral
            \/ Below(NeutralWarmWorkers, WarmTarget)
      BY <3>1, <3>2
    <3>6. rows' = [rows EXCEPT ![w] = r]
      BY <3>1
    <3> QED BY <1>2, <2>t, <3>3, <3>4, <3>5, <3>6, RowWriteKeepsCapacity
  <2>3. ASSUME NEW w \in Worker, StateShape(w) PROVE CapacityRespected'
    <3>1. PICK st \in WorkerState :
            /\ rows' = [rows EXCEPT ![w].state = st]
            /\ rows[w].state \in workerActiveStates
            /\ st \in WorkerStateNeutral => rows[w].state \in WorkerStateNeutral
      BY <2>3 DEF StateShape
    <3> DEFINE r == [state |-> st, org |-> rows[w].org, owner |-> rows[w].owner, epoch |-> rows[w].epoch]
    <3>2. rows' = [rows EXCEPT ![w] = r] /\ r.state = st /\ r.org = rows[w].org
      <4>1. rows' = [rows EXCEPT ![w] = [rows[w] EXCEPT !.state = st]]
        BY <3>1
      <4>2. [rows[w] EXCEPT !.state = st] = r
        BY <2>t DEF WorkerRecord
      <4> QED BY <4>1, <4>2
    <3> HIDE DEF r
    <3>3. r.state \in workerActiveStates =>
            \/ rows[w].state \in workerActiveStates
            \/ Below(ActiveWorkers, MaxGlobalWorkers)
      BY <3>1, <3>2
    <3>4. \A p \in Org : r.state \in workerActiveStates /\ r.org = p =>
            \/ rows[w].state \in workerActiveStates /\ rows[w].org = p
            \/ Below(OrgWorkers(p), MaxOrgWorkers)
      BY <3>1, <3>2
    <3>5. r.org = NoOrg /\ r.state \in WorkerStateNeutral =>
            \/ rows[w].org = NoOrg /\ rows[w].state \in WorkerStateNeutral
            \/ Below(NeutralWarmWorkers, WarmTarget)
      BY <3>1, <3>2
    <3>6. rows' = [rows EXCEPT ![w] = r]
      BY <3>2
    <3> QED BY <1>2, <2>t, <3>3, <3>4, <3>5, <3>6, RowWriteKeepsCapacity
  <2>4. ASSUME rows' = rows PROVE CapacityRespected'
    BY <1>2, <2>4 DEF CapacityRespected, ActiveWorkers, OrgWorkers, NeutralWarmWorkers
  <2> QED BY <1>2, <2>1, <2>2, <2>3, <2>4, StepShapes
<1> QED BY <1>1, <1>2, LeaseInvariant, PTL DEF Spec
=============================================================================
