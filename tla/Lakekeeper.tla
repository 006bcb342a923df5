----------------------------- MODULE Lakekeeper -----------------------------
(***************************************************************************)
(* Provisioning of an organisation's Lakekeeper catalogue                  *)
(* (provisioner/lakekeeper_provisioner.go, lakekeeper_k8s.go,              *)
(* lakekeeper_client.go, postgres_admin.go): every control-plane replica   *)
(* runs EnsureForOrg on its own ticks until the row has an endpoint.  A    *)
(* pass may fail, or its process may die, after any call; the next pass    *)
(* starts again from the top.                                              *)
(*                                                                         *)
(* Passwords are numbers in the order of their generation, 0 is "absent".  *)
(* Kubernetes objects carry a resource version rv that every write bumps   *)
(* and that an Update must match.                                          *)
(***************************************************************************)
EXTENDS Naturals, FiniteSets

\* The deployments looked at: the replicas, and how many passes fail midway.
CONSTANT Setups   \* records [reps, faults]

VARIABLES setup,
          endpoint,            \* the row's iceberg_lakekeeper_endpoint is set
          db, role,            \* the database, the password of its role
          secret, srv,         \* the Secret's password and resource version
          cr,                  \* the Lakekeeper custom resource
          wh,                  \* the warehouse exists inside Lakekeeper
          pc, cred, seen,      \* a pass: where it is, its password, the object it fetched
          last, faults

vars == <<setup, endpoint, db, role, secret, srv, cr, wh, pc, cred, seen, last, faults>>

Reps == UNION {s.reps : s \in Setups}
NoCR == [there |-> FALSE, booted |-> FALSE, rv |-> 0]
Unseen == [rv |-> 0, booted |-> FALSE]

Init == /\ setup \in Setups /\ endpoint = FALSE
        /\ db = FALSE /\ role = 0 /\ secret = 0 /\ srv = 0 /\ cr = NoCR /\ wh = FALSE
        /\ pc = [r \in Reps |-> "idle"] /\ cred = [r \in Reps |-> 0]
        /\ seen = [r \in Reps |-> Unseen]
        /\ last = 0 /\ faults = 0

Goto(r, l) == pc' = [pc EXCEPT ![r] = l]
\* The pass ends; what it held in memory is gone.
Rest(r) == /\ Goto(r, "idle") /\ cred' = [cred EXCEPT ![r] = 0]
           /\ seen' = [seen EXCEPT ![r] = Unseen]
Keep(r) == UNCHANGED <<cred, seen>>

\* Mutant: a pass that failed is not repeated.
OnlyOnce(r) ==
  /\ pc[r] = "idle" /\ ~endpoint /\ ~cr.there /\ Goto(r, "dbprobe") /\ Keep(r)
  /\ UNCHANGED <<setup, endpoint, db, role, secret, srv, cr, wh, last, faults>>

\* reconcileLakekeeper on a listed copy of the row that has no endpoint yet.
Start(r) ==
  /\ pc[r] = "idle" /\ ~endpoint /\ Goto(r, "dbprobe") /\ Keep(r)
  /\ UNCHANGED <<setup, endpoint, db, role, secret, srv, cr, wh, last, faults>>

\* A call fails, or the process dies: the pass is abandoned.
Abandon(r) ==
  /\ pc[r] # "idle" /\ faults < setup.faults /\ faults' = faults + 1 /\ Rest(r)
  /\ UNCHANGED <<setup, endpoint, db, role, secret, srv, cr, wh, last>>

-----------------------------------------------------------------------------
(* postgres_admin.go *)

\* EnsureDatabase: probe, then CREATE; duplicate_database is benign.
EnsureDatabase(r) ==
  /\ \/ pc[r] = "dbprobe" /\ Goto(r, IF db THEN "sget" ELSE "dbcreate") /\ db' = db
     \/ pc[r] = "dbcreate" /\ Goto(r, "sget") /\ db' = TRUE
  /\ Keep(r) /\ UNCHANGED <<setup, endpoint, role, secret, srv, cr, wh, last, faults>>

\* EnsureRole: probe, then CREATE or ALTER.  A CREATE that meets a role made
\* meanwhile (duplicate_object) goes on to the GRANT without an ALTER.
EnsureRole(r) ==
  /\ \/ pc[r] = "rprobe" /\ Goto(r, IF role = 0 THEN "rcreate" ELSE "ralter") /\ role' = role
     \/ pc[r] = "rcreate" /\ Goto(r, "grant") /\ role' = IF role = 0 THEN cred[r] ELSE role
     \/ pc[r] = "ralter" /\ Goto(r, "grant") /\ role' = cred[r]
  /\ Keep(r) /\ UNCHANGED <<setup, endpoint, db, secret, srv, cr, wh, last, faults>>

\* GRANT, ALTER DATABASE OWNER, ALTER SCHEMA OWNER, EnsureServiceAccount: all
\* idempotent, and nothing below looks at their effect.
Grants(r) ==
  /\ pc[r] = "grant" /\ Goto(r, "cr") /\ Keep(r)
  /\ UNCHANGED <<setup, endpoint, db, role, secret, srv, cr, wh, last, faults>>

-----------------------------------------------------------------------------
(* lakekeeper_k8s.go *)

\* Mutant: every pass generates a password.
Rotate(r) == TRUE

\* Fresh credentials are generated when the Secret is not found.
Generates(r) == secret = 0

\* resolveOrGenerateSecret.
ResolveSecret(r) ==
  /\ pc[r] = "sget"
  /\ IF Generates(r)
     THEN /\ last' = last + 1 /\ cred' = [cred EXCEPT ![r] = last + 1] /\ Goto(r, "screate")
     ELSE last' = last /\ cred' = [cred EXCEPT ![r] = secret] /\ Goto(r, "rprobe")
  /\ UNCHANGED <<setup, endpoint, db, role, secret, srv, cr, wh, seen, faults>>

\* EnsureSecret: Create; when it exists by now, Get and replace it at that version.
EnsureSecret(r) ==
  /\ \/ /\ pc[r] = "screate" /\ secret = 0
        /\ secret' = cred[r] /\ srv' = srv + 1 /\ Goto(r, "rprobe") /\ Keep(r)
     \/ /\ pc[r] = "screate" /\ secret # 0
        /\ Goto(r, "sfetch") /\ Keep(r) /\ UNCHANGED <<secret, srv>>
     \/ /\ pc[r] = "sfetch" /\ seen' = [seen EXCEPT ![r].rv = srv]
        /\ Goto(r, "supdate") /\ UNCHANGED <<secret, srv, cred>>
     \/ /\ pc[r] = "supdate"
        /\ IF seen[r].rv = srv
           THEN secret' = cred[r] /\ srv' = srv + 1 /\ Goto(r, "rprobe") /\ Keep(r)
           ELSE Rest(r) /\ UNCHANGED <<secret, srv>>
  /\ UNCHANGED <<setup, endpoint, db, role, cr, wh, last, faults>>

\* The API server refuses an Update at an old resource version.
Current(r) == seen[r].rv = cr.rv

\* EnsureCR: Create; when it exists, Get and Update with the fetched status.
EnsureCR(r) ==
  /\ \/ /\ pc[r] = "cr" /\ ~cr.there
        /\ cr' = [there |-> TRUE, booted |-> FALSE, rv |-> cr.rv + 1]
        /\ Goto(r, "boot") /\ Keep(r)
     \/ pc[r] = "cr" /\ cr.there /\ cr' = cr /\ Goto(r, "crfetch") /\ Keep(r)
     \/ /\ pc[r] = "crfetch" /\ cr' = cr /\ cred' = cred
        /\ seen' = [seen EXCEPT ![r] = [rv |-> cr.rv, booted |-> cr.booted]] /\ Goto(r, "crupdate")
     \/ /\ pc[r] = "crupdate"
        /\ IF Current(r)
           THEN cr' = [cr EXCEPT !.booted = seen[r].booted] /\ Goto(r, "boot") /\ Keep(r)
           ELSE cr' = cr /\ Rest(r)
  /\ UNCHANGED <<setup, endpoint, db, role, secret, srv, wh, last, faults>>

\* Mutant: the bootstrap is not waited for.
PastBoot(r) == TRUE

\* checkBootstrap, which answers ErrBootstrapPending to the pass otherwise.
Bootstrapped(r) == cr.booted

CheckBootstrap(r) ==
  /\ pc[r] = "boot"
  /\ IF Bootstrapped(r) THEN Goto(r, "whfind") /\ Keep(r) ELSE Rest(r)
  /\ UNCHANGED <<setup, endpoint, db, role, secret, srv, cr, wh, last, faults>>

\* The operator starts Lakekeeper and bootstraps it once it can reach its database.
OperatorBootstrap ==
  /\ cr.there /\ ~cr.booted /\ db /\ role # 0 /\ secret = role
  /\ cr' = [cr EXCEPT !.booted = TRUE, !.rv = @ + 1]
  /\ UNCHANGED <<setup, endpoint, db, role, secret, srv, wh, pc, cred, seen, last, faults>>

-----------------------------------------------------------------------------
(* lakekeeper_client.go and the row *)

\* EnsureWarehouse: list, POST, and list again when the POST answers 409.
EnsureWarehouse(r) ==
  /\ \/ pc[r] = "whfind" /\ Goto(r, IF wh THEN "persist" ELSE "whpost") /\ wh' = wh
     \/ pc[r] = "whpost" /\ Goto(r, "persist") /\ wh' = TRUE
  /\ Keep(r) /\ UNCHANGED <<setup, endpoint, db, role, secret, srv, cr, last, faults>>

\* UpdateIcebergConfig, without a compare-and-swap on the warehouse's state.
UpdateIcebergConfig(r) ==
  /\ pc[r] = "persist" /\ endpoint' = TRUE /\ Rest(r)
  /\ UNCHANGED <<setup, db, role, secret, srv, cr, wh, last, faults>>

-----------------------------------------------------------------------------
EnsureForOrg(r) ==
  \/ Start(r) \/ EnsureDatabase(r) \/ ResolveSecret(r) \/ EnsureSecret(r) \/ EnsureRole(r)
  \/ Grants(r) \/ EnsureCR(r) \/ CheckBootstrap(r) \/ EnsureWarehouse(r) \/ UpdateIcebergConfig(r)

Next == \/ \E r \in setup.reps : EnsureForOrg(r) \/ Abandon(r)
        \/ OperatorBootstrap

Fairness == /\ \A r \in Reps : WF_vars(r \in setup.reps /\ EnsureForOrg(r))
            /\ SF_vars(OperatorBootstrap)

Spec == Init /\ [][Next]_vars /\ Fairness

-----------------------------------------------------------------------------
\* Types of the row, the secrets, the server and the replicas' passes.
TypeOK == /\ setup \in Setups /\ endpoint \in BOOLEAN /\ db \in BOOLEAN /\ wh \in BOOLEAN
          /\ last \in Nat /\ role \in 0..last /\ secret \in 0..last /\ srv \in Nat
          /\ cr \in [there : BOOLEAN, booted : BOOLEAN, rv : Nat]
          /\ \A r \in Reps : cred[r] \in 0..last /\ (pc[r] \in {"rcreate", "ralter"} => cred[r] # 0)

Alone == Cardinality(setup.reps) = 1

\* resolveOrGenerateSecret's promise, with one replica: credentials are made
\* once, and re-runs after failures at any call keep the password stable.
PasswordStable == [][(Alone /\ secret # 0) => secret' = secret]_vars

\* What is published works: the endpoint is written only after the database,
\* the role, the bootstrapped server and its warehouse all exist.
PublishedUsable == endpoint => db /\ role # 0 /\ secret # 0 /\ cr.booted /\ wh

\* Passes that fail at any call, and replicas that overwrite each other's
\* Secret and role, still get the catalogue published in the end.
Published == endpoint
=============================================================================
