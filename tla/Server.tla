------------------------------- MODULE Server -------------------------------
(***************************************************************************)
(* The standalone server: the accept loop, a handler per connection with   *)
(* the rate limiter (module RateLimit), in-process sessions that share the *)
(* user's database file or one child process per connection, the query     *)
(* log, the checkpoint scheduler, and Close with its timeout.              *)
(***************************************************************************)
EXTENDS RateLimit, FiniteSets

CONSTANT Setups   \* [ip: connection -> address, isolated, limits, last (the
                  \* clock stops there), queries, size (log channel), batch,
                  \* closes, cancels]

VARIABLES setup,
          conn,      \* where the handler of each connection is
          wg,        \* the server's WaitGroup
          late,      \* connections counted by wg after Close stopped waiting
          db,        \* the user's shared database: [refs, open]
          child,     \* the child process of each connection
          query,     \* its query, and whether a cancel request came for it
          cancelled, \* children whose queryCancelCh is closed
          term,      \* children that have received SIGTERM
          tracked,   \* childTracker
          mon,       \* the goroutine that monitors each child
          log,       \* query log: channel, batch, counts, and its state
          ckpt,      \* the checkpoint loop
          close,     \* where Close is
          snap,      \* the children WaitAll waits for
          timedOut,
          panicked   \* connections that logged to the closed channel

kids == <<child, query, cancelled, term>>
shut == <<close, snap, timedOut>>
vars == <<limiter, setup, conn, wg, late, db, kids, tracked, mon, log, ckpt, shut, panicked>>

Conns == DOMAIN setup.ip
IP(c) == setup.ip[c]
Up == close # "stopped"

Init ==
  /\ setup \in Setups
  /\ LimiterInit(setup.limits)
  /\ conn = [c \in Conns |-> "none"] /\ wg = 0 /\ late = {}
  /\ db = [refs |-> 0, open |-> FALSE]
  /\ child = [c \in Conns |-> "none"] /\ query = [c \in Conns |-> "idle"]
  /\ cancelled = {} /\ term = {} /\ tracked = {} /\ mon = [c \in Conns |-> "none"]
  /\ log = [state |-> "open", queue |-> 0, batch |-> 0, accepted |-> 0, flushed |-> 0]
  /\ ckpt = "idle" /\ close = "run" /\ snap = {} /\ timedOut = FALSE /\ panicked = {}

Go(c, pc) == conn' = [conn EXCEPT ![c] = pc]

\* The handler returns and its goroutine ends.
Return(c) == Go(c, "done") /\ wg' = wg - 1

Rest == <<db, kids, tracked, mon, log, ckpt, shut, panicked, setup>>

-----------------------------------------------------------------------------
(* ListenAndServe and handleConnection.                                    *)

Accept(c) ==
  /\ Up /\ close = "run" /\ conn[c] = "none"
  /\ Go(c, "accepted")
  /\ UNCHANGED <<limiter, wg, late, Rest>>

\* wg.Add, after Accept has returned.
Handle(c) ==
  /\ Up /\ conn[c] = "accepted"
  /\ Go(c, "check") /\ wg' = wg + 1
  /\ late' = IF close \in {"run", "wait"} THEN late ELSE late \cup {c}
  /\ UNCHANGED <<limiter, Rest>>

Check(c) ==
  /\ Up /\ conn[c] = "check"
  /\ CheckConnection(IP(c))
  /\ IF CheckAllows(IP(c)) THEN Go(c, "register") /\ UNCHANGED wg ELSE Return(c)
  /\ UNCHANGED <<late, Rest>>

Register(c) ==
  /\ Up /\ conn[c] = "register"
  /\ RegisterConnection(IP(c))
  /\ IF CheckAllows(IP(c)) THEN Go(c, "startup") /\ UNCHANGED wg ELSE Return(c)
  /\ UNCHANGED <<late, Rest>>

Housekeeping ==
  /\ Up /\ (cleanup \/ Tick(setup.last))
  /\ UNCHANGED <<conn, wg, late, Rest>>

-----------------------------------------------------------------------------
(* A session in the server's process.                                      *)

\* handleStartup: no TLS, a cancel request or a lost client; a wrong password;
\* or a session.
Startup(c) ==
  /\ Up /\ ~setup.isolated /\ conn[c] = "startup"
  /\ \/ Go(c, "leave") /\ UNCHANGED limiter
     \/ Go(c, "leave") /\ RecordFailedAuth(IP(c))
     \/ Go(c, "open") /\ RecordSuccessfulAuth(IP(c))
  /\ UNCHANGED <<wg, late, Rest>>

acquireFileDB(c) ==
  /\ Up /\ conn[c] = "open"
  /\ \/ Go(c, "serve") /\ db' = [refs |-> db.refs + 1, open |-> TRUE]
     \/ Go(c, "leave") /\ UNCHANGED db
  /\ UNCHANGED <<limiter, wg, late, kids, tracked, mon, log, ckpt, shut, panicked, setup>>

\* Log: an entry for a full channel is dropped.
Log == log' = IF log.queue < setup.size
              THEN [log EXCEPT !.queue = @ + 1, !.accepted = @ + 1] ELSE log

\* A query ends and is logged; sending to the closed channel panics.
logQuery(c) ==
  /\ Up /\ conn[c] = "serve" /\ log.accepted < setup.queries
  /\ IF log.state = "open"
     THEN Log /\ UNCHANGED <<panicked, conn>>
     ELSE panicked' = panicked \cup {c} /\ Go(c, "cleanup") /\ UNCHANGED log
  /\ UNCHANGED <<limiter, wg, late, db, kids, tracked, mon, ckpt, shut, setup>>

Quit(c) ==
  /\ Up /\ conn[c] = "serve"
  /\ Go(c, "cleanup")
  /\ UNCHANGED <<limiter, wg, late, Rest>>

Released == [refs |-> db.refs - 1, open |-> db.refs > 1]

releaseFileDB(c) ==
  /\ Up /\ conn[c] = "cleanup"
  /\ db' = Released /\ Go(c, "leave")
  /\ UNCHANGED <<limiter, wg, late, kids, tracked, mon, log, ckpt, shut, panicked, setup>>

\* The deferred calls of handleConnectionInProcess.
Leave(c) ==
  /\ Up /\ conn[c] = "leave"
  /\ UnregisterConnection(IP(c)) /\ Return(c)
  /\ UNCHANGED <<late, Rest>>

-----------------------------------------------------------------------------
(* A session in a child process.                                           *)

\* SIGUSR1 to a child the tracker knows; its client has the key of the
\* connection once the child serves it.
Signalled(v) == v \in tracked /\ child[v] = "serve"

\* The child's signal handler closes queryCancelCh, once.
ClosesCancelCh(v) == cancelled' = cancelled \cup {v}

CancelQueryBySignal(v) ==
  /\ Signalled(v) /\ ClosesCancelCh(v)
  /\ query' = [query EXCEPT ![v] = IF @ = "run" THEN "asked" ELSE @]

\* The parent reads the first message: nothing usable, a cancel request for
\* another connection, or the request to start TLS.
handleConnectionIsolated(c) ==
  /\ Up /\ setup.isolated /\ conn[c] = "startup"
  /\ \/ Go(c, "spawn") /\ UNCHANGED <<limiter, wg, cancelled, query>>
     \/ UnregisterConnection(IP(c)) /\ Return(c) /\ UNCHANGED <<cancelled, query>>
     \/ /\ setup.cancels /\ UnregisterConnection(IP(c)) /\ Return(c)
        /\ \E v \in Conns : CancelQueryBySignal(v)
  /\ UNCHANGED <<late, db, child, term, tracked, mon, log, ckpt, shut, panicked, setup>>

spawnChildForTLS(c) ==
  /\ Up /\ conn[c] = "spawn"
  /\ \/ Go(c, "track") /\ child' = [child EXCEPT ![c] = "start"] /\ UNCHANGED <<limiter, wg>>
     \/ UnregisterConnection(IP(c)) /\ Return(c) /\ UNCHANGED child
  /\ UNCHANGED <<late, db, query, cancelled, term, tracked, mon, log, ckpt, shut, panicked, setup>>

\* childTracker.Add, and the goroutine that monitors the child.
Track(c) ==
  /\ Up /\ conn[c] = "track"
  /\ tracked' = tracked \cup {c} /\ mon' = [mon EXCEPT ![c] = "wait"] /\ Return(c)
  /\ UNCHANGED <<limiter, late, db, kids, log, ckpt, shut, panicked, setup>>

Exited == {"ok", "error", "denied"}

Becomes(c, s) == child' = [child EXCEPT ![c] = s]

\* runChildWorker up to the message loop: a signal to stop is only looked at there.
ChildStartup(c) ==
  /\ child[c] = "start"
  /\ \E s \in {"serve", "error", "denied"} : Becomes(c, s)
  /\ UNCHANGED <<query, cancelled, term>>

\* A query of the child runs, and ends by itself or because it is cancelled.
ChildQuery(c) ==
  /\ child[c] = "serve" /\ setup.cancels
  /\ \/ query[c] = "idle" /\ query' = [query EXCEPT ![c] = "run"]
     \/ query[c] \in {"run", "asked"} /\ query' = [query EXCEPT ![c] = "idle"]
  /\ UNCHANGED <<child, cancelled, term>>

\* queryContextInner: the context of a query ends when externalCancelCh is closed.
CancelQuery(c) ==
  /\ child[c] = "serve" /\ c \in cancelled /\ query[c] \in {"run", "asked"}
  /\ query' = [query EXCEPT ![c] = IF @ = "asked" THEN "idle" ELSE "lost"]
  /\ UNCHANGED <<child, cancelled, term>>

ChildExit(c) ==
  /\ child[c] = "serve"
  /\ \/ Becomes(c, "error") \/ Becomes(c, "ok")
  /\ UNCHANGED <<query, cancelled, term>>

Child(c) ==
  /\ ChildStartup(c) \/ ChildQuery(c) \/ CancelQuery(c) \/ ChildExit(c)
  /\ UNCHANGED <<limiter, conn, wg, late, db, tracked, mon, log, ckpt, shut, panicked, setup>>

ChildStops(c) ==
  /\ child[c] = "serve" /\ c \in term /\ Becomes(c, "ok")
  /\ UNCHANGED <<limiter, conn, wg, late, db, query, cancelled, term, tracked, mon, log, ckpt,
                 shut, panicked, setup>>

\* monitorChild: a failed authentication is recorded, the child is removed
\* from the tracker and announced as done, and the connection is unregistered.
MonitorExit(c) ==
  /\ Up /\ mon[c] = "wait" /\ child[c] \in Exited
  /\ IF child[c] = "denied" THEN RecordFailedAuth(IP(c)) ELSE UNCHANGED limiter
  /\ tracked' = tracked \ {c} /\ mon' = [mon EXCEPT ![c] = "exited"]
  /\ UNCHANGED <<conn, wg, late, db, kids, log, ckpt, shut, panicked, setup>>

MonitorUnregister(c) ==
  /\ Up /\ mon[c] = "exited"
  /\ UnregisterConnection(IP(c)) /\ mon' = [mon EXCEPT ![c] = "done"]
  /\ UNCHANGED <<conn, wg, late, db, kids, tracked, log, ckpt, shut, panicked, setup>>

-----------------------------------------------------------------------------
(* The query log and the checkpoint scheduler.                             *)

Drained == [log EXCEPT !.state = "done", !.batch = 0, !.flushed = @ + log.batch]

\* flushLoop: an entry joins the batch, which is written when it is full; the
\* timer writes what there is; a closed and empty channel ends the loop.
flushLoop ==
  /\ Up /\ log.state # "done"
  /\ \/ /\ log.queue > 0
        /\ log' = IF log.batch + 1 >= setup.batch
                  THEN [log EXCEPT !.queue = @ - 1, !.batch = 0, !.flushed = @ + log.batch + 1]
                  ELSE [log EXCEPT !.queue = @ - 1, !.batch = @ + 1]
     \/ log.batch > 0 /\ log' = [log EXCEPT !.batch = 0, !.flushed = @ + log.batch]
     \/ log.state = "closed" /\ log.queue = 0 /\ log' = Drained
  /\ UNCHANGED <<limiter, conn, wg, late, db, kids, tracked, mon, ckpt, shut, panicked, setup>>

CheckpointLoop ==
  /\ Up
  /\ \/ ckpt = "idle" /\ setup.closes /\ ckpt' = "run"
     \/ ckpt = "run" /\ ckpt' = "idle"
     \/ ckpt = "stop" /\ ckpt' = "ended"
     \/ ckpt = "runstop" /\ ckpt' = "stop"
  /\ UNCHANGED <<limiter, conn, wg, late, db, kids, tracked, mon, log, shut, panicked, setup>>

-----------------------------------------------------------------------------
(* Close.                                                                  *)

ShutRest == <<limiter, conn, wg, late, db, child, query, cancelled, tracked, mon, panicked, setup>>

CloseBegins ==
  /\ close = "run" /\ setup.closes /\ close' = "wait"
  /\ term' = term \cup tracked
  /\ UNCHANGED <<ShutRest, snap, timedOut, log, ckpt>>

\* Mutant: WaitAll finds no child in its list.
SnapEarly == snap' = {}

\* WaitAll looks at the tracker once the handlers have returned.
Snapshot == snap' = tracked

HandlersDone ==
  /\ close = "wait" /\ wg = 0 /\ close' = "children"
  /\ Snapshot
  /\ UNCHANGED <<ShutRest, term, timedOut, log, ckpt>>

ChildrenDone ==
  /\ close = "children" /\ \A c \in snap : mon[c] \in {"exited", "done"}
  /\ close' = "drained"
  /\ UNCHANGED <<ShutRest, term, snap, timedOut, log, ckpt>>

\* Mutant: the timeout covers the children only.
OnlyChildren == close = "children"

\* The timer runs while Close waits for either.
TimerRuns == close \in {"wait", "children"}

\* SIGKILL to the children the tracker knows.
ShutdownTimeout ==
  /\ TimerRuns /\ close' = "drained" /\ timedOut' = TRUE
  /\ child' = [c \in Conns |-> IF c \in tracked /\ child[c] \notin Exited THEN "error" ELSE child[c]]
  /\ UNCHANGED <<limiter, conn, wg, late, db, query, cancelled, term, tracked, mon, panicked, setup,
                 snap, log, ckpt>>

\* The log is stopped when the wait for connections is over.
WaitIsOver == close = "drained"

StopLog ==
  /\ \/ /\ WaitIsOver /\ log.state = "open"
        /\ log' = [log EXCEPT !.state = "closed"] /\ UNCHANGED close
     \/ close = "drained" /\ log.state = "done" /\ close' = "logged" /\ UNCHANGED log
  /\ UNCHANGED <<ShutRest, term, snap, timedOut, ckpt>>

StopCheckpointer ==
  /\ close = "logged"
  /\ \/ ckpt = "idle" /\ ckpt' = "stop" /\ UNCHANGED close
     \/ ckpt = "run" /\ ckpt' = "runstop" /\ UNCHANGED close
     \/ ckpt = "ended" /\ close' = "stopped" /\ UNCHANGED ckpt
  /\ UNCHANGED <<ShutRest, term, snap, timedOut, log>>

Close ==
  CloseBegins \/ HandlersDone \/ ChildrenDone \/ ShutdownTimeout \/ StopLog \/ StopCheckpointer

Handler(c) ==
  \/ Handle(c) \/ Check(c) \/ Register(c) \/ Startup(c) \/ acquireFileDB(c)
  \/ releaseFileDB(c) \/ Leave(c) \/ handleConnectionIsolated(c) \/ spawnChildForTLS(c)
  \/ Track(c) \/ MonitorExit(c) \/ MonitorUnregister(c)

Next ==
  \/ \E c \in Conns : \/ Accept(c) \/ Handler(c) \/ logQuery(c) \/ Quit(c)
                      \/ Child(c) \/ ChildStops(c)
  \/ Housekeeping \/ flushLoop \/ CheckpointLoop \/ Close

\* Goroutines that can go on do, and the shutdown timer fires.
Fairness == /\ WF_vars(close # "run" /\ Close) /\ WF_vars(flushLoop)
            /\ WF_vars(close # "run" /\ CheckpointLoop)

Spec == Init /\ [][Next]_vars /\ Fairness

-----------------------------------------------------------------------------
\* Types of the connections, the children, the log and the limiter.
TypeOK ==
  /\ setup \in Setups /\ config = setup.limits /\ now \in 1..setup.last
  /\ DOMAIN records \subseteq {IP(c) : c \in Conns} /\ total \in 0..Cardinality(Conns)
  /\ \A i \in DOMAIN records : records[i].active \in 0..Cardinality(Conns)
  /\ conn \in [Conns -> {"none", "accepted", "check", "register", "startup", "open", "serve",
                         "cleanup", "leave", "spawn", "track", "done"}]
  /\ wg \in 0..Cardinality(Conns) /\ late \subseteq Conns
  /\ db \in [refs : 0..Cardinality(Conns), open : BOOLEAN]
  /\ child \in [Conns -> {"none", "start", "serve"} \cup Exited]
  /\ query \in [Conns -> {"idle", "run", "asked", "lost"}]
  /\ cancelled \subseteq Conns /\ term \subseteq Conns /\ tracked \subseteq Conns
  /\ mon \in [Conns -> {"none", "wait", "exited", "done"}]
  /\ log.queue \in 0..setup.size /\ log.state \in {"open", "closed", "done"}
  /\ ckpt \in {"idle", "run", "stop", "runstop", "ended"}
  /\ close \in {"run", "wait", "children", "drained", "logged", "stopped"}

\* A connection the limiter has admitted and not yet let go.
Registered(c) ==
  \/ conn[c] \in {"startup", "open", "serve", "cleanup", "leave", "spawn", "track"}
  \/ mon[c] \in {"wait", "exited"}

\* The limiter's counts are exact through every path of a handler, every fate
\* of a child and every clean-up of the records: no count leaks and none is
\* lost with a record.
LimiterExact ==
  /\ total = Cardinality({c \in Conns : Registered(c)})
  /\ \A i \in {IP(c) : c \in Conns} :
       getOrCreateRecord(i).active = Cardinality({c \in Conns : Registered(c) /\ IP(c) = i})

\* The gauge of banned addresses counts the records with a ban, expired bans
\* that cleanup has not seen included.
GaugeExact == gauge = Cardinality({i \in DOMAIN records : records[i].until # 0})

\* A Close that did not time out has waited for every handler the WaitGroup
\* knew and for every child process of theirs.
CloseWaits ==
  close \in {"drained", "logged", "stopped"} /\ ~timedOut =>
    \A c \in Conns \ late : /\ conn[c] \in {"none", "accepted", "done"}
                            /\ child[c] \in {"none"} \cup Exited

\* A session meets the closed log channel only if Close gave up waiting for it
\* or it was not counted when Close waited.
PanicOnlyLate == panicked # {} => timedOut \/ late # {}

\* Every entry that entered the log channel has been written when Stop returns.
LogDrained ==
  /\ log.accepted = log.flushed + log.queue + log.batch
  /\ log.state = "done" => log.accepted = log.flushed

\* The shared database of a user is open exactly while sessions hold it.
DatabaseShared ==
  /\ db.refs = Cardinality({c \in Conns : conn[c] \in {"serve", "cleanup"}})
  /\ db.open = (db.refs > 0)

\* Close returns, whatever the connections, the children and a running
\* checkpoint do.
CloseEnded == close \in {"run", "stopped"}

\* A query in a child process is cancelled only by a cancel request that came
\* while it ran.
CancelsItsQuery == \A c \in Conns : query[c] # "lost"
=============================================================================
