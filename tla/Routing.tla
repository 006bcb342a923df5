------------------------------- MODULE Routing -------------------------------
(***************************************************************************)
(* How a connection finds its organisation (multi-tenant control plane):   *)
(* the config snapshot and its reload, the managed hostname (SNI), the     *)
(* startup database, and the credentials, for Postgres and for Flight.     *)
(* A hostname is "none", "legacy", or the label before a managed suffix.   *)
(***************************************************************************)
EXTENDS Naturals, FiniteSets

CONSTANTS Orgs,     \* names of organisations, also labels
          Labels,   \* hostname labels and database names
          Configs,  \* configs: org -> [db, alias, pw, pass]; the org may be absent
          Edits     \* how often an operator changes the config

Modes == {"off", "passthrough", "enforce"}

VARIABLES mode,     \* SNIRoutingMode
          db,       \* the config in the database
          snapshot, \* the config in memory
          edits,
          conn,     \* the connection that is being authenticated
          seen      \* the snapshots in force since it came

vars == <<mode, db, snapshot, edits, conn, seen>>

Idle == [pc |-> "idle", proto |-> "pg", startup |-> "", sni |-> "none", pw |-> 0,
         org |-> "", pass |-> FALSE]

Init ==
  /\ mode \in Modes /\ db \in Configs /\ snapshot = db /\ edits = Edits
  /\ conn = Idle /\ seen = {}

-----------------------------------------------------------------------------
(* Lookups in one snapshot.                                                *)

Named(c, field, x) == {o \in DOMAIN c : c[o][field] = x}

\* DatabaseOrg; names are unique.
ResolveDatabase(c, name) ==
  IF name # "" /\ Named(c, "db", name) # {} THEN CHOOSE o \in Named(c, "db", name) : TRUE ELSE ""

AliasOrg(c, prefix) ==
  IF Named(c, "alias", prefix) # {} THEN CHOOSE o \in Named(c, "alias", prefix) : TRUE ELSE ""

\* Mutant: a database wins over an alias of the same label.
DatabaseFirst(c, prefix) ==
  IF ResolveDatabase(c, prefix) # "" THEN ResolveDatabase(c, prefix) ELSE AliasOrg(c, prefix)

\* A label names the org with that alias, else with that database, else that name.
resolveSNIPrefix(c, prefix) ==
  IF AliasOrg(c, prefix) # "" THEN AliasOrg(c, prefix)
  ELSE IF ResolveDatabase(c, prefix) # "" THEN ResolveDatabase(c, prefix)
  ELSE IF prefix \in DOMAIN c THEN prefix ELSE ""

\* Flight: the alias's database, else the label itself.
DatabaseNameForSNIPrefix(c, prefix) ==
  LET o == AliasOrg(c, prefix)
  IN  IF o # "" /\ c[o].db # "" THEN c[o].db ELSE prefix

ValidateOrgUser(c, org, pw) == org \in DOMAIN c /\ c[org].pw = pw /\ pw # 0

-----------------------------------------------------------------------------
(* Postgres: handleConnection and ResolvePostgresConnection.               *)

isManaged(sni) == sni \in Labels

useManagedSNI(sni) == mode \in {"passthrough", "enforce"} /\ isManaged(sni)

\* The startup database, or that of the hostname when there is none.
EffectiveDatabase(c, startup, sni) ==
  IF startup # "" \/ ~useManagedSNI(sni) THEN startup
  ELSE LET o == resolveSNIPrefix(c, sni)
       IN  IF o # "" /\ c[o].db # "" THEN c[o].db ELSE sni


HostnameMatches(c, sni, org) == useManagedSNI(sni) => resolveSNIPrefix(c, sni) = org

\* Read from the snapshot that validated the password.
Passthrough(org) == snapshot[org].pass

Reject == conn' = [conn EXCEPT !.pc = "rejected"]

\* One read lock around all of it.
ResolvePostgresConnection ==
  LET name == EffectiveDatabase(snapshot, conn.startup, conn.sni)
      org == ResolveDatabase(snapshot, name)
  IN  IF /\ org # "" /\ HostnameMatches(snapshot, conn.sni, org)
         /\ ValidateOrgUser(snapshot, org, conn.pw)
      THEN conn' = [conn EXCEPT !.pc = "accepted", !.org = org, !.pass = Passthrough(org)]
      ELSE Reject

\* enforce turns unmanaged hostnames away before it looks at anything else.
AuthenticatePg ==
  /\ conn.pc = "auth" /\ conn.proto = "pg"
  /\ IF mode = "enforce" /\ ~isManaged(conn.sni) THEN Reject ELSE ResolvePostgresConnection
  /\ UNCHANGED <<mode, db, snapshot, edits, seen>>

-----------------------------------------------------------------------------
(* Flight: the label, the database and the user are three reads.           *)

ByScan == mode = "off" \/ ~isManaged(conn.sni)

ValidateCredentialsForSNI ==
  /\ conn.pc = "auth" /\ conn.proto = "flight"
  /\ IF mode = "enforce" /\ ~isManaged(conn.sni) THEN Reject
     ELSE IF ByScan THEN conn' = [conn EXCEPT !.pc = "scan"]
     ELSE conn' = [conn EXCEPT !.pc = "database",
                               !.startup = DatabaseNameForSNIPrefix(snapshot, conn.sni)]
  /\ UNCHANGED <<mode, db, snapshot, edits, seen>>

FlightDatabase ==
  /\ conn.pc = "database"
  /\ LET org == ResolveDatabase(snapshot, conn.startup)
     IN  IF org = "" THEN Reject ELSE conn' = [conn EXCEPT !.pc = "user", !.org = org]
  /\ UNCHANGED <<mode, db, snapshot, edits, seen>>

authForSNIPrefix ==
  /\ conn.pc = "user"
  /\ IF ValidateOrgUser(snapshot, conn.org, conn.pw)
     THEN conn' = [conn EXCEPT !.pc = "accepted"] ELSE Reject
  /\ UNCHANGED <<mode, db, snapshot, edits, seen>>

\* Whichever org with that user the map yields first decides.
FirstMatch(org) == ValidateOrgUser(snapshot, org, conn.pw)

FindAndValidateUser ==
  LET found == {o \in DOMAIN snapshot : snapshot[o].pw # 0}
  IN  \/ found = {} /\ Reject
      \/ \E o \in found : IF FirstMatch(o)
                          THEN conn' = [conn EXCEPT !.pc = "accepted", !.org = o]
                          ELSE Reject

authByScan ==
  /\ conn.pc = "scan" /\ FindAndValidateUser
  /\ UNCHANGED <<mode, db, snapshot, edits, seen>>

-----------------------------------------------------------------------------
Arrive ==
  /\ conn.pc = "idle"
  /\ \E proto \in {"pg", "flight"}, startup \in Labels \cup {""},
        sni \in Labels \cup {"none", "legacy"}, pw \in 1..2 :
       /\ proto = "flight" => startup = ""
       /\ conn' = [Idle EXCEPT !.pc = "auth", !.proto = proto, !.startup = startup,
                               !.sni = sni, !.pw = pw]
  /\ seen' = {snapshot}
  /\ UNCHANGED <<mode, db, snapshot, edits>>

Leave ==
  /\ conn.pc \in {"accepted", "rejected"} /\ conn' = Idle /\ seen' = {}
  /\ UNCHANGED <<mode, db, snapshot, edits>>

\* An operator changes the config through the admin or provisioning API.
Edit ==
  /\ edits > 0 /\ edits' = edits - 1 /\ db' \in Configs
  /\ UNCHANGED <<mode, snapshot, conn, seen>>

\* A new snapshot is built from nothing.
Loaded == db

\* The poll, or Reload after a change.
load ==
  /\ snapshot # db /\ snapshot' = Loaded
  /\ seen' = IF conn.pc \in {"idle", "accepted", "rejected"} THEN seen ELSE seen \cup {db}
  /\ UNCHANGED <<mode, db, edits, conn>>

Next ==
  \/ Arrive \/ AuthenticatePg \/ ValidateCredentialsForSNI \/ FlightDatabase \/ authForSNIPrefix
  \/ authByScan \/ Leave \/ Edit \/ load

Spec == Init /\ [][Next]_vars

-----------------------------------------------------------------------------
\* Types of the snapshot and of the connection being authenticated.
TypeOK ==
  /\ mode \in Modes /\ {db, snapshot} \subseteq Configs /\ edits \in 0..Edits
  /\ seen \subseteq Configs
  /\ conn \in [pc : {"idle", "auth", "database", "user", "scan", "accepted", "rejected"},
               proto : {"pg", "flight"}, startup : Labels \cup {""},
               sni : Labels \cup {"none", "legacy"}, pw : 0..2, org : Orgs \cup {""},
               pass : BOOLEAN]

Accepted(proto) == conn.pc = "accepted" /\ conn.proto = proto

\* ResolvePostgresConnection: the database, the hostname, the password and the
\* passthrough flag of an accepted connection are those of one snapshot that was
\* in force while it authenticated, however often the config was reloaded.
OneSnapshot ==
  Accepted("pg") =>
    \E c \in seen : /\ ValidateOrgUser(c, conn.org, conn.pw) /\ c[conn.org].pass = conn.pass
                    /\ conn.startup # "" => c[conn.org].db = conn.startup

\* SNIRoutingEnforce: "require managed SNI and same-org database routing". With
\* SNI routing on, nobody reaches another organisation than the hostname names,
\* by alias, database or name; with enforce, nobody without such a hostname.
SameOrg ==
  Accepted("pg") =>
    /\ mode = "enforce" => isManaged(conn.sni)
    /\ mode # "off" /\ isManaged(conn.sni) =>
         \E c \in seen : \E o \in DOMAIN c :
           o = conn.org /\ (conn.sni \in {c[o].alias, c[o].db} \/ conn.sni = o)

\* A Flight client's user is one of the organisation it is bound to, in a
\* snapshot that was in force, although the three lookups may see three of them.
FlightUserInOrg ==
  Accepted("flight") => \E c \in seen : ValidateOrgUser(c, conn.org, conn.pw)

\* Aliases "win" for both protocols: a hostname with which both would accept a
\* client leads both to the same organisation.
ProtocolsAgree ==
  \A prefix \in Labels :
    LET f == ResolveDatabase(snapshot, DatabaseNameForSNIPrefix(snapshot, prefix))
        p == resolveSNIPrefix(snapshot, prefix)
        named == p # "" /\ snapshot[p].db # ""
    IN  f # "" /\ named => f = p
==============================================================================
