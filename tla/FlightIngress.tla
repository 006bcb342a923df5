---------------------------- MODULE FlightIngress ----------------------------
(***************************************************************************)
(* The Flight SQL session stores of the control planes: the                *)
(* flightAuthSessionStore of server/flightsqlingress/ingress.go over the   *)
(* session provider and the durable records of                             *)
(* controlplane/flight_ingress.go.  A client holds a token; the control    *)
(* plane that answers it may crash or drain, and another one finds the     *)
(* worker again through the token's record.                                *)
(*                                                                         *)
(* A worker session is named by its token and the owner epoch under which  *)
(* it was made; every takeover of the worker raises the epoch.             *)
(***************************************************************************)
EXTENDS Integers, FiniteSets

CONSTANTS CPs,          \* control planes
          Calls,        \* goroutines of gRPC calls
          Tokens,       \* tokens that can be issued
          MaxEpoch,     \* bound on the owner epochs of a worker
          Entry,        \* control planes at which new clients arrive
          Mortal,       \* control planes that may drain or crash
          Movers        \* tokens that last: their clients reach the other
                        \* control planes too, and their lifetime ends

VARIABLES up,           \* [CPs -> "up", "draining", "closed" or "crashed"]
          sessions,     \* [CPs -> [Tokens -> None or the session]]
          pids,         \* worker sessions the providers hold: [cp, token, epoch]
          worker,       \* [Tokens -> the runtime row of the session's worker]
          record,       \* [Tokens -> the durable record]
          expired,      \* tokens whose absolute lifetime is over
          stale,        \* sessions [cp, token] idle for idleTTL, nothing open
          call,         \* [Calls -> state of a call]
          reaper        \* [CPs -> sessions removed and not yet destroyed]

vars == <<up, sessions, pids, worker, record, expired, stale, call, reaper>>

None == [epoch |-> 0, exp |-> FALSE]
Idle == [pc |-> "idle", cp |-> "", token |-> "", epoch |-> 0, exp |-> FALSE, late |-> FALSE]

Init ==
  /\ up = [p \in CPs |-> "up"]
  /\ sessions = [p \in CPs |-> [t \in Tokens |-> None]]
  /\ pids = {}
  /\ worker = [t \in Tokens |-> [epoch |-> 0, hot |-> FALSE]]
  /\ record = [t \in Tokens |-> [st |-> "none", epoch |-> 0]]
  /\ expired = {} /\ stale = {}
  /\ call = [c \in Calls |-> Idle]
  /\ reaper = [p \in CPs |-> {}]

At(c, pc) == call[c].pc = pc
Goto(c, pc) == call' = [call EXCEPT ![c].pc = pc]
Answer(c) == call' = [call EXCEPT ![c] = Idle]
Running(p) == up[p] \in {"up", "draining"}
Has(p, t) == sessions[p][t] # None

-----------------------------------------------------------------------------
(* The provider and the durable store.                                     *)

\* CreateSession: a worker of the client's org, with a first epoch.
CreateSession(p, t) ==
  /\ pids' = pids \cup {[cp |-> p, token |-> t, epoch |-> 1]}
  /\ worker' = [worker EXCEPT ![t] = [epoch |-> 1, hot |-> TRUE]]

\* ReconnectFlightSession: TakeOverWorker raises the epoch of a hot worker.
ReconnectFlightSession(p, t) ==
  LET e == worker[t].epoch
  IN /\ worker[t].hot /\ e < MaxEpoch
     /\ worker' = [worker EXCEPT ![t].epoch = e + 1]
     /\ pids' = pids \cup {[cp |-> p, token |-> t, epoch |-> e + 1]}

\* SessionManager.DestroySession: the worker is released by its owner; one
\* whose worker was taken over only loses its own entry.
DestroySession(p, t, e) ==
  /\ pids' = pids \ {[cp |-> p, token |-> t, epoch |-> e]}
  /\ worker' = IF worker[t].epoch = e THEN [worker EXCEPT ![t].hot = FALSE] ELSE worker

CloseSession(t) ==
  record' = IF record[t].st = "none" THEN record ELSE [record EXCEPT ![t].st = "closed"]

\* What a record says of its worker: nothing for a session the provider lost.
DurableSessionMetadata(p, t, e) ==
  IF [cp |-> p, token |-> t, epoch |-> e] \in pids THEN {worker[t].epoch} ELSE {}

UpsertSession(t, e) == record' = [record EXCEPT ![t] = [st |-> "active", epoch |-> e]]

-----------------------------------------------------------------------------
(* Create and GetOrCreate.                                                 *)

\* Tokens are random: one that was never used.
Unused(t) == worker[t].epoch = 0 /\ \A c \in Calls : call[c].token # t

Create(c, p) ==
  /\ At(c, "idle") /\ up[p] = "up" /\ p \in Entry
  /\ \E t \in Tokens : /\ Unused(t)
                       /\ call' = [call EXCEPT ![c] = [Idle EXCEPT !.pc = "fast", !.cp = p, !.token = t]]
  /\ UNCHANGED <<up, sessions, pids, worker, record, expired, stale, reaper>>

\* The provider's answer, to the fast attempt and to the one that queues.
GetOrCreate(c) ==
  /\ call[c].pc \in {"fast", "queue"}
  /\ LET p == call[c].cp
         t == call[c].token
     IN \/ /\ CreateSession(p, t)
           /\ call' = [call EXCEPT ![c].pc = "insert", ![c].epoch = 1, ![c].exp = TRUE]
        \/ /\ IF At(c, "fast") THEN Goto(c, "reap") ELSE Answer(c)
           /\ UNCHANGED <<pids, worker>>
  /\ UNCHANGED <<up, sessions, record, expired, stale, reaper>>

\* Under the store's lock; the key of the attempt is new, so no other session
\* has it.  In a reconnect the entry is overwritten.
Insert(c) ==
  /\ At(c, "insert")
  /\ LET r == call[c]
     IN /\ sessions' = [sessions EXCEPT ![r.cp][r.token] = [epoch |-> r.epoch, exp |-> r.exp]]
        /\ stale' = stale \ {[cp |-> r.cp, token |-> r.token]}
  /\ Goto(c, "persist")
  /\ UNCHANGED <<up, pids, worker, record, expired, reaper>>

\* The metadata of the worker session, or an error that is only logged.
persistSession(c) ==
  /\ At(c, "persist")
  /\ LET r == call[c]
     IN \/ \E e \in DurableSessionMetadata(r.cp, r.token, r.epoch) : UpsertSession(r.token, e)
        \/ UNCHANGED record
  /\ Answer(c)
  /\ UNCHANGED <<up, sessions, pids, worker, expired, stale, reaper>>

-----------------------------------------------------------------------------
(* GetByTokenContext, CloseByToken and reconnectByToken.                   *)

\* The client of a token knows it once Create has answered, and waits for one
\* answer before it sends the next call.
Known(t) == worker[t].epoch > 0 /\ \A c \in Calls : call[c].token # t

\* A session past its lifetime is removed, destroyed and its record closed.
GetByTokenContext(c, p) ==
  /\ At(c, "idle") /\ Running(p)
  /\ \E t \in Tokens :
       LET s == sessions[p][t]
           old == t \in expired
           new == [Idle EXCEPT !.cp = p, !.token = t, !.epoch = s.epoch, !.exp = s.exp, !.late = old]
       IN /\ Known(t) /\ (p \in Entry \/ t \in Movers)
          /\ \/ /\ ~Has(p, t)
                /\ call' = [call EXCEPT ![c] = [new EXCEPT !.pc = "load"]]
                /\ UNCHANGED <<sessions, stale>>
             \/ /\ Has(p, t) /\ s.exp /\ old
                /\ sessions' = [sessions EXCEPT ![p][t] = None]
                /\ call' = [call EXCEPT ![c] = [new EXCEPT !.pc = "destroy"]]
                /\ stale' = stale \ {[cp |-> p, token |-> t]}
             \/ /\ Has(p, t) /\ ~(s.exp /\ old)
                /\ stale' = stale \ {[cp |-> p, token |-> t]}
                /\ call' = [call EXCEPT ![c] = [new EXCEPT !.pc = "use"]]
                /\ UNCHANGED sessions
  /\ UNCHANGED <<up, pids, worker, record, expired, reaper>>

\* The handler has its session: it answers, or it is CloseSession and goes on
\* with CloseByToken.
Use(c) ==
  /\ At(c, "use")
  /\ Goto(c, "close") \/ Answer(c)
  /\ UNCHANGED <<up, sessions, pids, worker, record, expired, stale, reaper>>

CloseByToken(c) ==
  /\ At(c, "close")
  /\ LET r == call[c]
         s == sessions[r.cp][r.token]
     IN IF s = None
          THEN Answer(c) /\ UNCHANGED <<sessions, stale>>
          ELSE /\ sessions' = [sessions EXCEPT ![r.cp][r.token] = None]
               /\ stale' = stale \ {[cp |-> r.cp, token |-> r.token]}
               /\ call' = [call EXCEPT ![c].pc = "destroy", ![c].epoch = s.epoch]
  /\ UNCHANGED <<up, pids, worker, record, expired, reaper>>

\* After the unlock: the worker session first, then its record.
Destroy(c) ==
  /\ At(c, "destroy")
  /\ DestroySession(call[c].cp, call[c].token, call[c].epoch)
  /\ Goto(c, "forget")
  /\ UNCHANGED <<up, sessions, record, expired, stale, reaper>>

Forget(c) ==
  /\ At(c, "forget")
  /\ CloseSession(call[c].token)
  /\ Answer(c)
  /\ UNCHANGED <<up, sessions, pids, worker, expired, stale, reaper>>

reconnectByToken(c) ==
  /\ At(c, "load")
  /\ LET t == call[c].token
     IN CASE record[t].st # "active" -> Answer(c) /\ UNCHANGED record
          [] record[t].st = "active" /\ t \in expired -> CloseSession(t) /\ Answer(c)
          [] OTHER -> /\ call' = [call EXCEPT ![c].pc = "take", ![c].epoch = record[t].epoch]
                      /\ UNCHANGED record
  /\ UNCHANGED <<up, sessions, pids, worker, expired, stale, reaper>>

\* Another epoch than the record's is terminal and closes the record; other
\* failures leave it.  The session keeps the expiry of the record.
ReconnectSession(c) ==
  /\ At(c, "take")
  /\ LET r == call[c]
         e == worker[r.token].epoch
     IN \/ /\ e = r.epoch /\ ReconnectFlightSession(r.cp, r.token)
           /\ call' = [call EXCEPT ![c].pc = "insert", ![c].epoch = e + 1, ![c].exp = TRUE]
        \/ /\ e # r.epoch /\ Goto(c, "forget") /\ UNCHANGED <<worker, pids>>
        \/ e = r.epoch /\ Answer(c) /\ UNCHANGED <<worker, pids>>
  /\ UNCHANGED <<up, sessions, record, expired, stale, reaper>>

-----------------------------------------------------------------------------
(* The reaper.                                                             *)

Stale(p) == {t \in Tokens : Has(p, t) /\ [cp |-> p, token |-> t] \in stale}

\* Removal, under the store's lock.
Remove(p) ==
  /\ sessions' = [sessions EXCEPT ![p] = [t \in Tokens |-> IF t \in Stale(p) THEN None ELSE @[t]]]
  /\ stale' = {x \in stale : x.cp # p}

\* reapLoop's turn; it is one goroutine.
reapIdle(p) ==
  /\ Running(p) /\ reaper[p] = {} /\ Stale(p) # {}
  /\ Remove(p)
  /\ reaper' = [reaper EXCEPT ![p] = {[token |-> t, epoch |-> sessions[p][t].epoch, dead |-> FALSE] : t \in Stale(p)}]
  /\ UNCHANGED <<up, pids, worker, record, expired, call>>

\* Mutant: the forced reap only drops the sessions from the map.
ForcedReapDropping(c) ==
  /\ At(c, "reap")
  /\ Remove(call[c].cp)
  /\ Goto(c, "queue")
  /\ UNCHANGED <<up, pids, worker, record, expired, reaper>>

\* The forced reap of a Create that found no worker; the goroutine of the
\* call destroys what it removed before it queues.
ForcedReap(c) ==
  /\ At(c, "reap")
  /\ LET p == call[c].cp
     IN /\ Remove(p)
        /\ reaper' = [reaper EXCEPT ![p] = @ \cup
             {[token |-> t, epoch |-> sessions[p][t].epoch, dead |-> FALSE] : t \in Stale(p)}]
  /\ Goto(c, "queue")
  /\ UNCHANGED <<up, pids, worker, record, expired>>

ReapDestroy(p) ==
  /\ \E x \in reaper[p] :
       /\ ~x.dead
       /\ DestroySession(p, x.token, x.epoch)
       /\ reaper' = [reaper EXCEPT ![p] = (@ \ {x}) \cup {[x EXCEPT !.dead = TRUE]}]
  /\ UNCHANGED <<up, sessions, record, expired, stale, call>>

ReapForget(p) ==
  /\ \E x \in reaper[p] :
       /\ x.dead
       /\ CloseSession(x.token)
       /\ reaper' = [reaper EXCEPT ![p] = @ \ {x}]
  /\ UNCHANGED <<up, sessions, pids, worker, expired, stale, call>>

-----------------------------------------------------------------------------
(* Drain, shutdown, crash, time.                                           *)

BeginDrain(p) ==
  /\ up[p] = "up" /\ p \in Mortal
  /\ up' = [up EXCEPT ![p] = "draining"]
  /\ UNCHANGED <<sessions, pids, worker, record, expired, stale, call, reaper>>

\* Close: the map is emptied, every session destroyed, every record closed.
CloseStore(p) ==
  /\ LET open == {t \in Tokens : Has(p, t)}
     IN /\ pids' = {x \in pids : ~(x.cp = p /\ x.token \in open /\ x.epoch = sessions[p][x.token].epoch)}
        /\ worker' = [t \in Tokens |-> IF t \in open /\ worker[t].epoch = sessions[p][t].epoch
                                         THEN [worker[t] EXCEPT !.hot = FALSE] ELSE worker[t]]
        /\ record' = [t \in Tokens |-> IF t \in open /\ record[t].st # "none"
                                         THEN [record[t] EXCEPT !.st = "closed"] ELSE record[t]]
  /\ sessions' = [sessions EXCEPT ![p] = [t \in Tokens |-> None]]
  /\ stale' = {x \in stale : x.cp # p}

\* Mutant: Close does not wait for the calls that are still running.
CloseEarly(p) ==
  /\ up[p] = "draining"
  /\ reaper[p] = {}
  /\ up' = [up EXCEPT ![p] = "closed"]
  /\ CloseStore(p)
  /\ UNCHANGED <<expired, call, reaper>>

\* Shutdown: the gRPC server stops gracefully, that is after the last call;
\* then Close stops the reaper, destroys every session and closes its record.
Shutdown(p) ==
  /\ up[p] = "draining"
  /\ \A c \in Calls : call[c].cp # p
  /\ reaper[p] = {}
  /\ up' = [up EXCEPT ![p] = "closed"]
  /\ CloseStore(p)
  /\ UNCHANGED <<expired, call, reaper>>

\* The process dies: its memory and its calls are gone, rows and records stay.
Crash(p) ==
  /\ Running(p) /\ p \in Mortal
  /\ up' = [up EXCEPT ![p] = "crashed"]
  /\ sessions' = [sessions EXCEPT ![p] = [t \in Tokens |-> None]]
  /\ pids' = {x \in pids : x.cp # p}
  /\ stale' = {x \in stale : x.cp # p}
  /\ call' = [c \in Calls |-> IF call[c].cp = p THEN Idle ELSE call[c]]
  /\ reaper' = [reaper EXCEPT ![p] = {}]
  /\ UNCHANGED <<worker, record, expired>>

\* The token's absolute lifetime, and a session's idle time.
Expire(t) ==
  /\ worker[t].epoch > 0 /\ t \in Movers \ expired
  /\ expired' = expired \cup {t}
  /\ UNCHANGED <<up, sessions, pids, worker, record, stale, call, reaper>>

GoStale(p, t) ==
  /\ Has(p, t) /\ [cp |-> p, token |-> t] \notin stale
  /\ \A c \in Calls : ~(At(c, "use") /\ call[c].cp = p /\ call[c].token = t)
  /\ stale' = stale \cup {[cp |-> p, token |-> t]}
  /\ UNCHANGED <<up, sessions, pids, worker, record, expired, call, reaper>>

Step(c) ==
  \/ GetOrCreate(c) \/ Insert(c) \/ persistSession(c) \/ Use(c) \/ CloseByToken(c)
  \/ Destroy(c) \/ Forget(c) \/ reconnectByToken(c) \/ ReconnectSession(c) \/ ForcedReap(c)

Reap(p) == reapIdle(p) \/ ReapDestroy(p) \/ ReapForget(p)

Next ==
  \/ \E c \in Calls : Step(c) \/ \E p \in CPs : Create(c, p) \/ GetByTokenContext(c, p)
  \/ \E p \in CPs : Reap(p) \/ BeginDrain(p) \/ Shutdown(p) \/ Crash(p)
  \/ \E t \in Tokens : Expire(t) \/ \E p \in CPs : GoStale(p, t)

Spec == Init /\ [][Next]_vars

-----------------------------------------------------------------------------
(* Properties.                                                             *)

\* Types; and what the store holds, the provider holds.
TypeOK ==
  /\ up \in [CPs -> {"up", "draining", "closed", "crashed"}]
  /\ \A t \in Tokens : /\ worker[t].epoch \in 0 .. MaxEpoch /\ worker[t].hot \in BOOLEAN
                       /\ record[t].st \in {"none", "active", "closed"}
                       /\ record[t].epoch \in 0 .. MaxEpoch
  /\ expired \subseteq Tokens
  /\ \A p \in CPs, t \in Tokens : Has(p, t) =>
       [cp |-> p, token |-> t, epoch |-> sessions[p][t].epoch] \in pids

\* No worker session is forgotten: each one a provider holds is in its store,
\* or some goroutine is about to insert or destroy it.
NoSessionLost ==
  \A x \in pids :
    \/ sessions[x.cp][x.token].epoch = x.epoch
    \/ \E c \in Calls : /\ call[c].pc \in {"insert", "destroy"} /\ call[c].cp = x.cp
                        /\ call[c].token = x.token /\ call[c].epoch = x.epoch
    \/ \E r \in reaper[x.cp] : ~r.dead /\ r.token = x.token /\ r.epoch = x.epoch

\* A control plane that has shut down leaves no worker session behind.
ShutdownLeavesNothing == \A x \in pids : up[x.cp] # "closed"

\* The lifetime of a token is absolute: no call that arrives after its end is
\* served, through whatever crashes and reconnects the token has lived.
TokenTTLAbsolute ==
  \A c \in Calls : call[c].pc \in {"use", "insert", "persist"} => ~call[c].late
=============================================================================
