----------------------------- MODULE Migration -----------------------------
(***************************************************************************)
(* Upgrading the DuckLake catalog of an organisation when a worker is      *)
(* activated for it: the check and the backup the control plane runs       *)
(* before the first activation, the flag that turns new connections away,  *)
(* the worker's own check, and the ATTACH that performs the upgrade.       *)
(* Several workers of several organisations activate at once.              *)
(***************************************************************************)
EXTENDS Naturals, FiniteSets

CONSTANT Setups   \* deployments: replicas (cps), the organisation of each
                  \* worker (org), faults, seconds the backups span (secs),
                  \* whether the credentials expire (expires)

VARIABLES setup,
          checked,    \* migrationChecked of a replica: none, yes or no
          migrating,  \* the flag of OrgRouter, per replica
          act,        \* the activation of each worker, as its replica sees it
          wk,         \* the worker: where its activation is, and the Migrate
                      \* of the payload it committed
          catalog,    \* old, partial (an upgrade is running) or new
          file,       \* backup files of a replica, named by the second:
                      \* whose statements each one holds
          saved,      \* <<o, where>>: a backup of o's old catalog was completed
                      \* by a replica or by a worker
          creds,      \* short-lived credentials of a worker
          now, faults

vars == <<setup, checked, migrating, act, wk, catalog, file, saved, creds, now, faults>>

Workers == DOMAIN setup.org
Orgs == {setup.org[w] : w \in Workers}
Org(w) == setup.org[w]

Idle == [pc |-> "idle", cp |-> "", mig |-> FALSE, ok |-> FALSE, name |-> 0, snap |-> ""]
Cold == [pc |-> "cold", mig |-> FALSE, need |-> FALSE]

Init ==
  /\ setup \in Setups
  /\ checked = [c \in setup.cps |-> [o \in Orgs |-> "none"]]
  /\ migrating = [c \in setup.cps |-> [o \in Orgs |-> FALSE]]
  /\ act = [w \in Workers |-> Idle] /\ wk = [w \in Workers |-> Cold]
  /\ catalog = [o \in Orgs |-> "old"]
  /\ file = [c \in setup.cps |-> [t \in 1..setup.secs |-> {}]]
  /\ saved = {} /\ creds = [w \in Workers |-> "fresh"]
  /\ now = 1 /\ faults = setup.faults

Fault == faults > 0 /\ faults' = faults - 1

At(w, pc) == act[w].pc = pc

ToMark(w, mig) ==
  act' = [act EXCEPT ![w].pc = "mark", ![w].mig = mig, ![w].name = 0, ![w].snap = ""]

-----------------------------------------------------------------------------
(* ActivateReservedWorker: the cached answer, or the check.                *)

Start(w, c) ==
  /\ At(w, "idle")
  /\ act' = [act EXCEPT ![w] = [Idle EXCEPT !.cp = c,
                 !.pc = IF checked[c][Org(w)] = "none" THEN "check" ELSE "mark",
                 !.mig = checked[c][Org(w)] = "yes"]]
  /\ UNCHANGED <<setup, checked, migrating, wk, catalog, file, saved, creds, now, faults>>

\* What the metadata store says; an upgrade that has not committed is not seen.
VersionLess(o) == catalog[o] # "new"

checkAndBackupIfNeeded(w) ==
  /\ At(w, "check")
  /\ \/ /\ VersionLess(Org(w))
        /\ act' = [act EXCEPT ![w].pc = "begin"]
        /\ UNCHANGED <<checked, faults>>
     \/ /\ ~VersionLess(Org(w))
        /\ checked' = [checked EXCEPT ![act[w].cp][Org(w)] = "no"]
        /\ ToMark(w, FALSE) /\ UNCHANGED faults
     \/ Fault /\ ToMark(w, FALSE) /\ UNCHANGED checked
  /\ UNCHANGED <<setup, migrating, wk, catalog, file, saved, creds, now>>

\* Another backup of the same replica that writes to the file named t.
Writing(w, t) ==
  \E v \in Workers \ {w} : At(v, "dump") /\ act[v].cp = act[w].cp /\ act[v].name = t

\* The snapshot, and the file: its name is the second, and os.Create empties
\* a file of that name that is there.
backupMetadata(w) ==
  /\ At(w, "begin")
  /\ act' = [act EXCEPT ![w].pc = "dump", ![w].name = now,
                        ![w].snap = IF VersionLess(Org(w)) THEN "old" ELSE "new"]
  /\ file' = [file EXCEPT ![act[w].cp][now] = IF Writing(w, now) THEN {"torn"} ELSE {}]
  /\ UNCHANGED <<setup, checked, migrating, wk, catalog, saved, creds, now, faults>>

\* What the backup writes: the catalog as the snapshot has it.
Statements(w) == IF act[w].snap = "old" THEN Org(w) ELSE "upgraded"

\* The backup is complete; or it fails, and its file is removed.
BackupEnds(w) ==
  /\ At(w, "dump")
  /\ LET c == act[w].cp
         t == act[w].name
     IN  \/ /\ file' = IF t = 0 THEN file ELSE [file EXCEPT ![c][t] = @ \cup {Statements(w)}]
            /\ saved' = IF act[w].snap = "old" THEN saved \cup {<<Org(w), "replica">>} ELSE saved
            /\ checked' = [checked EXCEPT ![c][Org(w)] = "yes"]
            /\ ToMark(w, TRUE) /\ UNCHANGED faults
         \/ /\ Fault
            /\ file' = IF t = 0 THEN file ELSE [file EXCEPT ![c][t] = {}]
            /\ act' = [v \in Workers |->
                 IF v = w THEN [act[v] EXCEPT !.pc = "mark", !.mig = FALSE, !.name = 0, !.snap = ""]
                 ELSE IF t # 0 /\ At(v, "dump") /\ act[v].cp = c /\ act[v].name = t
                 THEN [act[v] EXCEPT !.name = 0] ELSE act[v]]
            /\ UNCHANGED <<saved, checked>>
  /\ UNCHANGED <<setup, migrating, wk, catalog, creds, now>>

Tick ==
  /\ now < setup.secs /\ now' = now + 1
  /\ UNCHANGED <<setup, checked, migrating, act, wk, catalog, file, saved, creds, faults>>

-----------------------------------------------------------------------------
(* The call to the worker, and what follows it.                            *)

\* A worker that is active accepts only a payload of the same runtime, and
\* Migrate is part of it.
sameTenantActivationRuntime(w, mig) == wk[w].mig = mig

Send(w) ==
  /\ At(w, "mark")
  /\ migrating' = IF act[w].mig THEN [migrating EXCEPT ![act[w].cp][Org(w)] = TRUE]
                  ELSE migrating
  /\ IF wk[w].pc = "hot"
     THEN /\ act' = [act EXCEPT ![w].pc = "finish",
                                ![w].ok = sameTenantActivationRuntime(w, act[w].mig)]
          /\ UNCHANGED wk
     ELSE /\ act' = [act EXCEPT ![w].pc = "rpc"]
          /\ wk' = [wk EXCEPT ![w] = [Cold EXCEPT !.pc = IF act[w].mig THEN "attach" ELSE "ensure",
                                                 !.mig = act[w].mig]]
  /\ UNCHANGED <<setup, checked, catalog, file, saved, creds, now, faults>>

Answer(w) ==
  /\ At(w, "rpc") /\ wk[w].pc \in {"hot", "err"}
  /\ act' = [act EXCEPT ![w].pc = "finish", ![w].ok = wk[w].pc = "hot"]
  /\ UNCHANGED <<setup, checked, migrating, wk, catalog, file, saved, creds, now, faults>>

\* The context of the call ends first; the worker goes on.
Timeout(w) ==
  /\ At(w, "rpc") /\ Fault
  /\ act' = [act EXCEPT ![w].pc = "finish", ![w].ok = FALSE]
  /\ UNCHANGED <<setup, checked, migrating, wk, catalog, file, saved, creds, now>>


ClearMigrating(w) ==
  [migrating EXCEPT ![act[w].cp][Org(w)] = IF act[w].mig THEN FALSE ELSE @]

Upgraded(w) == act[w].mig /\ act[w].ok

Finish(w) ==
  /\ At(w, "finish")
  /\ migrating' = ClearMigrating(w)
  /\ checked' = IF Upgraded(w) THEN [checked EXCEPT ![act[w].cp][Org(w)] = "no"] ELSE checked
  /\ act' = [act EXCEPT ![w] = IF @.ok THEN Idle ELSE [Idle EXCEPT !.pc = "retire"]]
  /\ UNCHANGED <<setup, wk, catalog, file, saved, creds, now, faults>>

\* The worker of a failed activation is retired; an upgrade it was running is
\* rolled back with its connection to the metadata store.
Retire(w) ==
  /\ At(w, "retire")
  /\ act' = [act EXCEPT ![w] = Idle] /\ wk' = [wk EXCEPT ![w] = Cold]
  /\ creds' = [creds EXCEPT ![w] = "fresh"]
  /\ catalog' = [catalog EXCEPT ![Org(w)] = IF wk[w].pc = "migrate" THEN "old" ELSE @]
  /\ UNCHANGED <<setup, checked, migrating, file, saved, now, faults>>

-----------------------------------------------------------------------------
(* The worker: AttachDuckLake.                                             *)

Step(w, pc) == wk' = [wk EXCEPT ![w].pc = pc]

\* Mutant: the worker attaches although its check failed.
CheckIgnored(w) == wk' = [wk EXCEPT ![w].pc = "attach", ![w].need = TRUE]

\* MigrationCheckError: no attach after a failed check.
CheckFails(w) == Step(w, "err")

\* Without Migrate in the payload it checks, and backs up to its own disk.
EnsureMigrationCheck(w) ==
  /\ wk[w].pc = "ensure"
  /\ \/ /\ wk' = [wk EXCEPT ![w].pc = "attach", ![w].need = VersionLess(Org(w))]
        /\ saved' = IF VersionLess(Org(w)) THEN saved \cup {<<Org(w), "worker">>} ELSE saved
        /\ UNCHANGED faults
     \/ Fault /\ CheckFails(w) /\ UNCHANGED saved
  /\ UNCHANGED <<setup, checked, migrating, act, catalog, file, creds, now>>

\* ATTACH: an old catalog is refused unless AUTOMATIC_MIGRATION is given, and
\* two upgrades at once collide.
AttachDuckLake(w) ==
  /\ wk[w].pc = "attach"
  /\ LET upgrade == wk[w].mig \/ wk[w].need
     IN  CASE catalog[Org(w)] = "new" -> Step(w, "hot") /\ UNCHANGED catalog
           [] catalog[Org(w)] = "partial" -> Step(w, "err") /\ UNCHANGED catalog
           [] catalog[Org(w)] = "old" ->
                IF upgrade
                THEN Step(w, "migrate") /\ catalog' = [catalog EXCEPT ![Org(w)] = "partial"]
                ELSE Step(w, "err") /\ UNCHANGED catalog
  /\ UNCHANGED <<setup, checked, migrating, act, file, saved, creds, now, faults>>

\* Mutant: a failed upgrade is tried again without end.
RetriedForEver(w) ==
  /\ wk[w].pc = "migrate"
  /\ \/ Step(w, "hot") /\ catalog' = [catalog EXCEPT ![Org(w)] = "new"]
     \/ Step(w, "attach") /\ catalog' = [catalog EXCEPT ![Org(w)] = "old"]
  /\ UNCHANGED <<setup, checked, migrating, act, file, saved, creds, now, faults>>

Migrate(w) ==
  /\ wk[w].pc = "migrate"
  /\ \/ Step(w, "hot") /\ catalog' = [catalog EXCEPT ![Org(w)] = "new"] /\ UNCHANGED faults
     \/ Fault /\ Step(w, "err") /\ catalog' = [catalog EXCEPT ![Org(w)] = "old"]
  /\ UNCHANGED <<setup, checked, migrating, act, file, saved, creds, now>>

\* The credential refresh re-sends the payload, which carries no Migrate.
Due(w) ==
  /\ setup.expires /\ At(w, "idle") /\ wk[w].pc = "hot" /\ creds[w] = "fresh"
  /\ creds' = [creds EXCEPT ![w] = "due"]
  /\ UNCHANGED <<setup, checked, migrating, act, wk, catalog, file, saved, now, faults>>

RefreshCredentials(w) ==
  /\ At(w, "idle") /\ wk[w].pc = "hot" /\ creds[w] = "due"
  /\ creds' = [creds EXCEPT ![w] =
                 IF sameTenantActivationRuntime(w, FALSE) THEN "fresh" ELSE "refused"]
  /\ UNCHANGED <<setup, checked, migrating, act, wk, catalog, file, saved, now, faults>>

Replica(w) ==
  \/ checkAndBackupIfNeeded(w) \/ backupMetadata(w) \/ BackupEnds(w)
  \/ Send(w) \/ Answer(w) \/ Finish(w) \/ Retire(w)

Worker(w) == EnsureMigrationCheck(w) \/ AttachDuckLake(w) \/ Migrate(w)

Next ==
  \/ \E w \in Workers :
       \/ \E c \in setup.cps : Start(w, c)
       \/ Replica(w) \/ Worker(w)
       \/ Timeout(w) \/ Due(w) \/ RefreshCredentials(w)
  \/ Tick

AllWorkers == UNION {DOMAIN s.org : s \in Setups}

\* An activation and a worker that can go on do.
Fairness ==
  \A w \in AllWorkers : /\ WF_vars(w \in Workers /\ Replica(w))
                        /\ WF_vars(w \in Workers /\ Worker(w))

Spec == Init /\ [][Next]_vars /\ Fairness

-----------------------------------------------------------------------------
\* Types of the catalog, the workers and the activations.
TypeOK ==
  /\ setup \in Setups /\ now \in 1..setup.secs /\ faults \in 0..setup.faults
  /\ checked \in [setup.cps -> [Orgs -> {"none", "yes", "no"}]]
  /\ migrating \in [setup.cps -> [Orgs -> BOOLEAN]]
  /\ act \in [Workers -> [pc : {"idle", "check", "begin", "dump", "mark", "rpc", "finish", "retire"},
                          cp : setup.cps \cup {""}, mig : BOOLEAN, ok : BOOLEAN,
                          name : 0..setup.secs, snap : {"", "old", "new"}]]
  /\ wk \in [Workers -> [pc : {"cold", "ensure", "attach", "migrate", "hot", "err"},
                         mig : BOOLEAN, need : BOOLEAN]]
  /\ catalog \in [Orgs -> {"old", "partial", "new"}]
  /\ file \in [setup.cps -> [1..setup.secs -> SUBSET (Orgs \cup {"torn", "upgraded"})]]
  /\ saved \subseteq Orgs \X {"replica", "worker"}
  /\ creds \in [Workers -> {"fresh", "due", "refused"}]

\* control.go turns a new connection of o away.
Rejected(c, o) == migrating[c][o]

\* No catalog is upgraded, whichever replica or worker decides to, before some
\* process has completed a backup of it as it was.
MigratesAfterBackup ==
  \A o \in Orgs : catalog[o] # "old" => \E s \in saved : s[1] = o

\* Connections are turned away (control.go) only while an activation that may
\* upgrade the catalog is in flight on that replica: no path leaves the flag set.
FlagOwned ==
  \A c \in setup.cps, o \in Orgs :
    Rejected(c, o) => \E w \in Workers : /\ Org(w) = o /\ act[w].cp = c /\ act[w].mig
                                        /\ act[w].pc \in {"rpc", "finish"}

\* A replica that remembers "no migration needed" is right: workers activated
\* from then on attach without AUTOMATIC_MIGRATION and without a check of it.
CacheSound ==
  \A c \in setup.cps, o \in Orgs : checked[c][o] = "no" => catalog[o] = "new"

\* An organisation that is turned away is let in again, on every replica.
FlagCleared == \A c \in setup.cps, o \in Orgs : ~Rejected(c, o)

\* An upgraded catalog can be restored, where one worker at a time is activated
\* (backups made in one second share a file name): a backup file of the old
\* catalog, whole and its own, is on the disk of a replica or a worker.
BackupKept ==
  Cardinality(Workers) = 1 =>
    \A o \in Orgs : catalog[o] # "old" =>
      \/ <<o, "worker">> \in saved
      \/ \E c \in setup.cps, t \in 1..setup.secs : file[c][t] = {o}
=============================================================================
