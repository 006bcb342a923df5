---------------------------- MODULE Provisioning ----------------------------
(***************************************************************************)
(* The life of one organisation's managed warehouse: the provisioning API  *)
(* (provisioning/api.go, store.go), the reconcile loop every control-plane *)
(* replica runs without a leader (provisioner/controller.go), the Duckling *)
(* custom resource Crossplane fulfils, and the OrgRouter, which builds and *)
(* destroys the organisation's stack from polled configuration snapshots.  *)
(*                                                                         *)
(* The warehouse row is shared; every write of it is one SQL statement or  *)
(* transaction.  A replica works from the copy w it listed, so everything  *)
(* it does may be late.  Time since provisioning_started_at is an age of   *)
(* three steps: fresh, past the 10-minute sync grace, past the 30-minute   *)
(* timeout.  The four mandatory components are one part, "infra".          *)
(***************************************************************************)
EXTENDS Naturals, FiniteSets

\* The deployments looked at: the replicas, how often the warehouse is
\* provisioned, whether deprovisioning requests, edits, polls and the deletion
\* of the organisation happen, and how many API errors, failed probes and edits.
CONSTANT Setups   \* records [ctrls, gens, requests, flips, polls, deletes, faults]

VARIABLES setup, org, row, cr, pc, w, upd, call, snap, stack, faults

vars == <<setup, org, row, cr, pc, w, upd, call, snap, stack, faults>>

States == {"none", "pending", "provisioning", "ready", "failed", "deleting", "deleted"}
Parts == {"infra", "iceberg"}
Ctrls == UNION {s.ctrls : s \in Setups}

\* No managed_warehouses row: what load() leaves as a nil Warehouse.
NoRow == [state |-> "none", gen |-> 0, want |-> FALSE, parts |-> {}, age |-> 0]

NoCR == [phase |-> "none", on |-> FALSE, parts |-> {}, ok |-> FALSE, bad |-> FALSE]

\* A write a controller is about to make: UpdateWarehouseState's column map.
NoUpd == [state |-> "none", parts |-> {}]

Idle == [at |-> 0, res |-> "none"]

Init == /\ setup \in Setups
        /\ org = FALSE /\ row = NoRow /\ cr = NoCR
        /\ pc = [c \in Ctrls |-> "idle"]
        /\ w = [c \in Ctrls |-> NoRow]
        /\ upd = [c \in Ctrls |-> NoUpd]
        /\ call = Idle
        /\ snap = "absent" /\ stack = FALSE
        /\ faults = 0

Fault == faults < setup.faults /\ faults' = faults + 1
NoFault == faults' = faults

-----------------------------------------------------------------------------
(* The provisioning and admin APIs *)

\* States in which CreatePendingWarehouse replaces the row.
Replaceable(s) == s \in {"none", "failed", "deleted"}

\* POST /orgs/:id/provision: one transaction creates the organisation when it is
\* missing and a pending row with every component state reset.
ProvisionWarehouse ==
  /\ Replaceable(row.state) /\ row.gen < setup.gens
  /\ org' = TRUE
  /\ row' = [NoRow EXCEPT !.state = "pending", !.gen = row.gen + 1]
  /\ UNCHANGED <<setup, cr, pc, w, upd, call, snap, stack, faults>>

\* The order in which deprovisionWarehouse tries its compare-and-swaps.
DeprovisionOrder == <<"ready", "failed", "provisioning">>

DeprovisionBegin ==
  /\ setup.requests /\ call.at = 0 /\ call.res = "none" /\ row.state # "none"
  /\ call' = [at |-> 1, res |-> "none"]
  /\ UNCHANGED <<setup, org, row, cr, pc, w, upd, snap, stack, faults>>

\* One SetWarehouseDeleting: UPDATE ... WHERE org_id = ? AND state = ?.
SetWarehouseDeleting ==
  /\ call.at \in 1..3
  /\ IF row.state = DeprovisionOrder[call.at]
     THEN /\ row' = [row EXCEPT !.state = "deleting"]
          /\ call' = [call EXCEPT !.at = 0, !.res = "accepted"]
     ELSE /\ row' = row
          /\ call' = [at |-> (call.at + 1) % 4,
                      res |-> IF call.at < 3 THEN "none" ELSE "conflict"]
  /\ UNCHANGED <<setup, org, cr, pc, w, upd, snap, stack, faults>>

\* The client reads its answer; another request may follow.
Answered ==
  /\ call.res # "none" /\ call' = Idle
  /\ UNCHANGED <<setup, org, row, cr, pc, w, upd, snap, stack, faults>>

\* PUT .../warehouse under a row lock: an operator turns the optional feature
\* (PgBouncer or Iceberg: both are handled alike) on or off.
PutManagedWarehouse ==
  /\ setup.flips /\ row.state # "none" /\ Fault
  /\ row' = [row EXCEPT !.want = ~@]
  /\ UNCHANGED <<setup, org, cr, pc, w, upd, call, snap, stack>>

\* DELETE /orgs/:id: the row goes by ON DELETE CASCADE, whatever its state.
DeleteOrg ==
  /\ setup.deletes /\ org
  /\ org' = FALSE /\ row' = [NoRow EXCEPT !.gen = row.gen]
  /\ UNCHANGED <<setup, cr, pc, w, upd, call, snap, stack, faults>>

-----------------------------------------------------------------------------
(* The Duckling custom resource, fulfilled by Crossplane *)

Compose ==
  /\ cr.phase = "live"
  /\ \/ cr' = [cr EXCEPT !.parts = @ \cup {"infra"}, !.bad = FALSE]
     \/ cr.on /\ cr' = [cr EXCEPT !.parts = @ \cup {"iceberg"}]
     \/ "infra" \in cr.parts /\ cr' = [cr EXCEPT !.ok = TRUE, !.bad = FALSE]
     \/ ~cr.ok /\ cr' = [cr EXCEPT !.bad = TRUE]
  /\ UNCHANGED <<setup, org, row, pc, w, upd, call, snap, stack, faults>>

\* Deletion waits for finalizers: the object stays readable until they ran.
Finalize ==
  /\ cr.phase = "terminating" /\ cr' = NoCR
  /\ UNCHANGED <<setup, org, row, pc, w, upd, call, snap, stack, faults>>

Tick ==
  /\ row.state = "provisioning" /\ row.age < 2
  /\ row' = [row EXCEPT !.age = @ + 1]
  /\ UNCHANGED <<setup, org, cr, pc, w, upd, call, snap, stack, faults>>

-----------------------------------------------------------------------------
(* One replica's reconcile loop *)

actionableStates == {"pending", "provisioning", "ready", "deleting"}

Goto(c, l) == pc' = [pc EXCEPT ![c] = l] /\ w' = w
\* The pass is over for this warehouse.
Rest(c) == pc' = [pc EXCEPT ![c] = "idle"] /\ w' = [w EXCEPT ![c] = NoRow]
Write(c, s, ps) == upd' = [upd EXCEPT ![c] = [state |-> s, parts |-> ps]]

\* ListWarehousesByStates: the copy the whole pass works from.
List(c) ==
  /\ pc[c] = "idle" /\ row.state \in actionableStates
  /\ w' = [w EXCEPT ![c] = row] /\ pc' = [pc EXCEPT ![c] = row.state]
  /\ UNCHANGED <<setup, org, row, cr, upd, call, snap, stack, faults>>

\* reconcilePending: any error of the Get, not only NotFound, leads to the Create.
PendingGet(c) ==
  /\ pc[c] = "pending"
  /\ \/ cr.phase # "none" /\ Write(c, "provisioning", {}) /\ Goto(c, "write") /\ NoFault
     \/ cr.phase = "none" /\ Goto(c, "create") /\ UNCHANGED upd /\ NoFault
     \/ cr.phase # "none" /\ Goto(c, "create") /\ UNCHANGED upd /\ Fault
  /\ UNCHANGED <<setup, org, row, cr, call, snap, stack>>

PendingCreate(c) ==
  /\ pc[c] = "create"
  /\ \/ /\ cr.phase = "none"
        /\ cr' = [NoCR EXCEPT !.phase = "live", !.on = w[c].want]
        /\ Write(c, "provisioning", {}) /\ NoFault
     \/ cr.phase # "none" /\ cr' = cr /\ Write(c, "failed", {}) /\ NoFault
     \/ cr.phase = "none" /\ cr' = cr /\ Write(c, "failed", {}) /\ Fault
  /\ Goto(c, "write")
  /\ UNCHANGED <<setup, org, row, call, snap, stack>>

\* Mutant: the time limit is counted from the current pass.
SinceNow(c) == {0}

\* time.Since(startedAt) on the copy: exact while the row is still the one
\* listed, and only known to have grown when it was replaced meanwhile.
Ages(c) == {a \in w[c].age..2 : row.gen = w[c].gen => a = row.age}

TimedOut(c) ==
  /\ pc[c] = "provisioning" /\ 2 \in Ages(c)
  /\ Write(c, "failed", {}) /\ Goto(c, "write")
  /\ UNCHANGED <<setup, org, row, cr, call, snap, stack, faults>>

\* The components the probe and the Ready condition are tried for.
Required(c) == {"infra"} \cup IF w[c].want THEN {"iceberg"} ELSE {}

\* reconcileProvisioning after the timeout test.  Components already ready in
\* the copy are not written again; ready needs every required one, the Ready
\* condition and the end-to-end probe.
ProvisioningGet(c) ==
  /\ pc[c] = "provisioning" /\ Ages(c) \cap {0, 1} # {}
  /\ LET seen  == {p \in cr.parts : p = "iceberg" => w[c].want}
         fresh == seen \ w[c].parts
         all   == Required(c) \subseteq w[c].parts \cup seen /\ cr.ok
     IN \/ /\ cr.phase = "none" \/ Fault
           /\ cr.phase = "none" => NoFault
           /\ Rest(c) /\ UNCHANGED upd
        \/ /\ cr.phase # "none" /\ cr.bad /\ 1 \in Ages(c)
           /\ Write(c, "failed", {}) /\ Goto(c, "write") /\ NoFault
        \/ /\ cr.phase # "none" /\ (cr.bad => 0 \in Ages(c))
           /\ \/ all /\ Write(c, "ready", fresh) /\ Goto(c, "write") /\ NoFault
              \/ /\ IF all THEN Fault ELSE NoFault
                 /\ IF fresh = {} THEN Rest(c) /\ UNCHANGED upd
                    ELSE Write(c, "none", fresh) /\ Goto(c, "write")
  /\ UNCHANGED <<setup, org, row, cr, call, snap, stack>>

\* SetPgBouncerEnabled, SetIcebergEnabled: a merge patch of the one flag.
SetEnabled(c) == [cr EXCEPT !.on = w[c].want]

\* reconcileReady: patch the CR's flag to the copy's, when they differ; a failed
\* read ends the pass, a failed patch does not ...
ReadyDrift(c) ==
  /\ pc[c] = "ready"
  /\ \/ cr.phase = "none" /\ cr' = cr /\ Rest(c) /\ NoFault
     \/ cr.phase # "none" /\ cr' = cr /\ (Rest(c) \/ Goto(c, "status")) /\ Fault
     \/ cr.phase # "none" /\ cr' = SetEnabled(c) /\ Goto(c, "status") /\ NoFault
  /\ UNCHANGED <<setup, org, row, upd, call, snap, stack>>

\* ... then copy the feature's status back (addIcebergStatusUpdates).
ReadyStatus(c) ==
  /\ pc[c] = "status"
  /\ IF w[c].want /\ "iceberg" \in cr.parts \ w[c].parts
     THEN Write(c, "none", {"iceberg"}) /\ Goto(c, "write")
     ELSE UNCHANGED upd /\ Rest(c)
  /\ UNCHANGED <<setup, org, row, cr, call, snap, stack, faults>>

\* Mutant: any error of the deletion counts as "not found".
DeleteAnyError(c) == Write(c, "deleted", {}) /\ Goto(c, "write") /\ cr' = cr

\* An error of Delete other than NotFound: the pass gives up.
DeleteFailed(c) == UNCHANGED upd /\ Rest(c) /\ cr' = cr

DeletingDelete(c) ==
  /\ pc[c] = "deleting"
  /\ \/ /\ cr' = IF cr.phase = "none" THEN NoCR ELSE [cr EXCEPT !.phase = "terminating"]
        /\ Write(c, "deleted", {}) /\ Goto(c, "write") /\ NoFault
     \/ DeleteFailed(c) /\ Fault
  /\ UNCHANGED <<setup, org, row, call, snap, stack>>

\* Mutant: the write does not compare the state with the one that was read.
Unguarded(c) == row.state # "none"

\* UpdateWarehouseState: WHERE org_id = ? AND state = <the copy's state>.
Expected(c) == row.state = w[c].state

UpdateWarehouseState(c) ==
  /\ pc[c] = "write"
  /\ row' = IF ~Expected(c) THEN row
            ELSE [row EXCEPT !.state = IF upd[c].state = "none" THEN @ ELSE upd[c].state,
                             !.parts = @ \cup upd[c].parts,
                             !.age = IF w[c].state = "pending" THEN 0 ELSE @]
  /\ upd' = [upd EXCEPT ![c] = NoUpd]
  /\ Rest(c)
  /\ UNCHANGED <<setup, org, cr, call, snap, stack, faults>>

-----------------------------------------------------------------------------
(* Configuration polling and the organisation's stack *)

Ending == {"deleting", "deleted"}

\* The states in which HandleConfigChange destroys a stack it still has.
EndStates == Ending

\* What a snapshot says of the organisation: missing, or its warehouse's state
\* ("none" for a legacy organisation without a warehouse).
View == IF org THEN row.state ELSE "absent"

\* An organisation that existed before gets a stack when it has no warehouse or
\* its warehouse was there, not ready, in the previous snapshot.
BecameReady(old, new) == new = "none" \/ (old \notin {"none", "ready"} /\ new = "ready")

\* ConfigStore.Start's tick and the OrgRouter callback it fires.
HandleConfigChange ==
  LET new == View
      destroy == new = "absent" \/ new \in EndStates
      create == /\ ~stack /\ new \in {"none", "ready"}
                /\ snap = "absent" \/ BecameReady(snap, new)
  IN /\ setup.polls /\ new # snap
     /\ snap' = new
     /\ stack' = IF destroy THEN FALSE ELSE stack \/ create
     /\ UNCHANGED <<setup, org, row, cr, pc, w, upd, call, faults>>

-----------------------------------------------------------------------------
Step(c) == \/ List(c) \/ PendingGet(c) \/ PendingCreate(c)
           \/ TimedOut(c) \/ ProvisioningGet(c)
           \/ ReadyDrift(c) \/ ReadyStatus(c)
           \/ DeletingDelete(c) \/ UpdateWarehouseState(c)

Next == \/ ProvisionWarehouse \/ DeprovisionBegin \/ SetWarehouseDeleting \/ Answered
        \/ PutManagedWarehouse \/ DeleteOrg
        \/ Compose \/ Finalize \/ Tick
        \/ \E c \in setup.ctrls : Step(c)
        \/ HandleConfigChange

Fairness == /\ \A c \in Ctrls : WF_vars(c \in setup.ctrls /\ Step(c))
            /\ WF_vars(Tick) /\ WF_vars(Finalize) /\ WF_vars(HandleConfigChange)

Spec == Init /\ [][Next]_vars /\ Fairness

-----------------------------------------------------------------------------
\* Types of the row, the resource, the replicas and the router.
TypeOK == /\ setup \in Setups /\ org \in BOOLEAN
          /\ row \in [state : States, gen : 0..2, want : BOOLEAN, parts : SUBSET Parts, age : 0..2]
          /\ cr \in [phase : {"none", "live", "terminating"}, on : BOOLEAN,
                     parts : SUBSET Parts, ok : BOOLEAN, bad : BOOLEAN]
          /\ \A c \in Ctrls : w[c].state \in States /\ upd[c].state \in States
          /\ call.at \in 0..3 /\ snap \in States \cup {"absent"} /\ stack \in BOOLEAN
          /\ ~org => row.state = "none"

\* A deletion, once requested, is not undone: the late writes of replicas that
\* listed the warehouse in an earlier state (ready, failed, a component state)
\* must all miss their compare-and-swap.  DELETE of the organisation aside.
DeletingSticks ==
  [][(row.state = "deleting" /\ org') => row'.state \in {"deleting", "deleted"}]_vars

\* With a single replica, a warehouse is only marked deleted once the deletion
\* of its Duckling was accepted, as reconcileDeleting's comment asks: no live
\* custom resource, and the cloud resources behind it, is forgotten.
DeletedOwnsNothing ==
  (Cardinality(setup.ctrls) = 1 /\ row.state = "deleted") => cr.phase # "live"

\* Every accepted request settles: the 30-minute timeout and the retries of the
\* loop bring a pending warehouse to ready, to failed or to its deletion, and a
\* deletion that was accepted completes.
RequestsSettled == row.state \notin {"pending", "provisioning", "deleting"}

\* Drift correction: the custom resource of a ready warehouse does not for good
\* differ from what the row asks for, although replicas patch it from stale
\* copies.
DriftCorrected == (row.state = "ready" /\ cr.phase = "live") => cr.on = row.want

\* The OrgRouter converges although it only sees some of the states a
\* warehouse goes through: a ready one is not left without its stack, and one
\* that goes is not left with it, even when no poll fell into "deleting".
StackFollows ==
  setup.polls => /\ row.state = "ready" => stack
                 /\ row.state \in Ending => ~stack
=============================================================================
