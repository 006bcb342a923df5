------------------------------ MODULE MCTenants ------------------------------
(***************************************************************************)
(* What is done for an organisation outside its sessions, for TLC: a       *)
(* behaviour is one of Provisioning (pv), Lakekeeper (lk) or Migration     *)
(* (mg), as `which' says; the other two stay in their initial state.       *)
(***************************************************************************)
EXTENDS Naturals, FiniteSets, TLC

VARIABLES which,
          pvSetup, pvOrg, pvRow, pvCr, pvPc, pvW, pvUpd, pvCall, pvSnap, pvStack, pvFaults,
          lkSetup, lkEndpoint, lkDb, lkRole, lkSecret, lkSrv, lkCr, lkWh, lkPc, lkCred,
          lkSeen, lkLast, lkFaults,
          mgSetup, mgChecked, mgMigrating, mgAct, mgWk, mgCatalog, mgFile, mgSaved,
          mgCreds, mgNow, mgFaults

pvVars == <<pvSetup, pvOrg, pvRow, pvCr, pvPc, pvW, pvUpd, pvCall, pvSnap, pvStack, pvFaults>>
lkVars == <<lkSetup, lkEndpoint, lkDb, lkRole, lkSecret, lkSrv, lkCr, lkWh, lkPc, lkCred,
            lkSeen, lkLast, lkFaults>>
mgVars == <<mgSetup, mgChecked, mgMigrating, mgAct, mgWk, mgCatalog, mgFile, mgSaved,
            mgCreds, mgNow, mgFaults>>
vars == <<which, pvVars, lkVars, mgVars>>
------------------------------------------------------------------------------
Deployment == [ctrls |-> {"a"}, gens |-> 1, requests |-> FALSE, flips |-> FALSE,
               polls |-> FALSE, deletes |-> FALSE, faults |-> 1]

\* Polls and two lives of the warehouse; requests, edits and the deletion of the
\* organisation; two replicas racing with deprovisioning requests; two replicas
\* racing with edits.
PvSetups ==
  { [Deployment EXCEPT !.gens = 2, !.requests = TRUE, !.polls = TRUE, !.faults = 0],
    [Deployment EXCEPT !.requests = TRUE, !.flips = TRUE, !.deletes = TRUE],
    [Deployment EXCEPT !.ctrls = {"a", "b"}, !.requests = TRUE, !.faults = 0],
    [Deployment EXCEPT !.ctrls = {"a", "b"}, !.flips = TRUE] }

Pv == INSTANCE Provisioning WITH
  Setups <- PvSetups, setup <- pvSetup, org <- pvOrg, row <- pvRow, cr <- pvCr, pc <- pvPc,
  w <- pvW, upd <- pvUpd, call <- pvCall, snap <- pvSnap, stack <- pvStack, faults <- pvFaults

\* One replica whose passes fail twice; two racing replicas.
LkSetups == { [reps |-> {"a"}, faults |-> 2], [reps |-> {"a", "b"}, faults |-> 1] }

Lk == INSTANCE Lakekeeper WITH
  Setups <- LkSetups, setup <- lkSetup, endpoint <- lkEndpoint, db <- lkDb, role <- lkRole,
  secret <- lkSecret, srv <- lkSrv, cr <- lkCr, wh <- lkWh, pc <- lkPc, cred <- lkCred,
  seen <- lkSeen, last <- lkLast, faults <- lkFaults

Same == [w \in {"w1", "w2"} |-> "o1"]
Two == ("w1" :> "o1") @@ ("w2" :> "o2")
Fleet(cps, org, n, secs, expires) ==
  [cps |-> cps, org |-> org, faults |-> n, secs |-> secs, expires |-> expires]

\* Two workers of one organisation on a replica and on two; two organisations
\* on a replica; one worker whose credentials expire.
MgSetups == { Fleet({"a"}, Same, 1, 1, FALSE),
              Fleet({"a", "b"}, Same, 0, 1, FALSE),
              Fleet({"a"}, Two, 1, 1, FALSE),
              Fleet({"a"}, "w1" :> "o1", 2, 2, TRUE) }

Mg == INSTANCE Migration WITH
  Setups <- MgSetups, setup <- mgSetup, checked <- mgChecked, migrating <- mgMigrating,
  act <- mgAct, wk <- mgWk, catalog <- mgCatalog, file <- mgFile, saved <- mgSaved,
  creds <- mgCreds, now <- mgNow, faults <- mgFaults
------------------------------------------------------------------------------
Init ==
  /\ which \in {"pv", "lk", "mg"}
  /\ Pv!Init /\ Lk!Init /\ Mg!Init
  /\ which # "pv" => pvSetup = CHOOSE s \in PvSetups : TRUE
  /\ which # "lk" => lkSetup = CHOOSE s \in LkSetups : TRUE
  /\ which # "mg" => mgSetup = CHOOSE s \in MgSetups : TRUE

Next ==
  \/ which = "pv" /\ Pv!Next /\ UNCHANGED <<which, lkVars, mgVars>>
  \/ which = "lk" /\ Lk!Next /\ UNCHANGED <<which, pvVars, mgVars>>
  \/ which = "mg" /\ Mg!Next /\ UNCHANGED <<which, pvVars, lkVars>>

\* The fairness of the three specifications, for the one that runs.
Fairness ==
  /\ \A c \in Pv!Ctrls : WF_pvVars(which = "pv" /\ c \in pvSetup.ctrls /\ Pv!Step(c))
  /\ WF_pvVars(which = "pv" /\ Pv!Tick) /\ WF_pvVars(which = "pv" /\ Pv!Finalize)
  /\ WF_pvVars(which = "pv" /\ Pv!HandleConfigChange)
  /\ \A r \in Lk!Reps : WF_lkVars(which = "lk" /\ r \in lkSetup.reps /\ Lk!EnsureForOrg(r))
  /\ SF_lkVars(which = "lk" /\ Lk!OperatorBootstrap)
  /\ \A w \in Mg!AllWorkers : /\ WF_mgVars(which = "mg" /\ w \in Mg!Workers /\ Mg!Replica(w))
                              /\ WF_mgVars(which = "mg" /\ w \in Mg!Workers /\ Mg!Worker(w))

Spec == Init /\ [][Next]_vars /\ Fairness
------------------------------------------------------------------------------

\* Provisioning: late writes of replicas that read an earlier state do not undo
\* a deletion (the compare-and-swaps of the reconcile functions).
DeletingSticks == Pv!DeletingSticks

\* Lakekeeper: with one replica, the password is generated once, whatever fails.
PasswordStable == Lk!PasswordStable

\* Migration: no catalog is upgraded before a backup of it is complete.
MigratesAfterBackup == Mg!MigratesAfterBackup

\* What happens in the end: every request to provision or to delete settles, the
\* custom resource of a ready warehouse is as the row asks, and the router's stack
\* follows the warehouse (Provisioning); the endpoint is published (Lakekeeper);
\* an organisation that is turned away is let in again (Migration).
TenantsProgress ==
  []<>(/\ which = "pv" => Pv!RequestsSettled /\ Pv!DriftCorrected /\ Pv!StackFollows
       /\ which = "lk" => Lk!Published
       /\ which = "mg" => Mg!FlagCleared)
==============================================================================
