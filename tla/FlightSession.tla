---------------------------- MODULE FlightSession ----------------------------
(***************************************************************************)
(* One Flight SQL client session of the control plane's ingress: the       *)
(* handlers and the flightClientSession of                                 *)
(* server/flightsqlingress/ingress.go.  All statements of a session go to  *)
(* one connection of its worker, one at a time under opMu; a result set    *)
(* keeps opMu until it is closed.  Calls run concurrently, and the idle    *)
(* reaper of the session store looks at the session's counters.            *)
(***************************************************************************)
EXTENDS Integers, FiniteSets

CONSTANTS Calls,        \* goroutines of gRPC calls
          MaxCalls,     \* bound on the calls of the client
          MaxTxns,      \* bound on the transactions begun
          MaxHandles,   \* bound on the query handles
          MaxTables     \* bound on the table schemas looked up one by one

VARIABLES opMu,         \* the call that holds flightClientSession.opMu, or NoCall
          activeTxn,    \* flightClientSession.activeTxn
          txns,         \* flightClientSession.txns
          begun,        \* how many keys nextHandle gave to transactions
          queries,      \* flightClientSession.queries: set of [id, txn, old]
          streams,      \* flightClientSession.streams
          idle,         \* lastUsed is older than idleTTL
          reaped,       \* the store has dropped and destroyed the session
          conn,         \* the worker's connection: [tx, owner]
          call,         \* [Calls -> the state of one call]
          sent          \* calls sent so far

vars == <<opMu, activeTxn, txns, begun, queries, streams, idle, reaped, conn, call, sent>>
session == <<activeTxn, txns, begun, queries, streams, idle, reaped>>

NoCall == "none"
Keys == 1 .. MaxTxns
NoTxn == 0                      \* no transaction id in the request
Lost == MaxTxns + 1             \* begun, but the answer of BEGIN was lost
Auto == MaxTxns + 2             \* left behind by an autocommit statement
NoTx == [tx |-> "none", owner |-> NoTxn]
Idle == [pc |-> "idle", op |-> "", stmt |-> "", txn |-> NoTxn, h |-> 0, todo |-> 0]

Init ==
  /\ opMu = NoCall /\ activeTxn = FALSE /\ txns = {} /\ begun = 0
  /\ queries = {} /\ streams = 0 /\ idle = FALSE /\ reaped = FALSE
  /\ conn = NoTx
  /\ call = [c \in Calls |-> Idle] /\ sent = 0

At(c, pc) == call[c].pc = pc
Goto(c, pc) == call' = [call EXCEPT ![c].pc = pc]
Answer(c) == call' = [call EXCEPT ![c] = Idle]

-----------------------------------------------------------------------------
(* The worker, through the session's FlightExecutor.                       *)

\* What a statement may answer and what it leaves behind; "aborted" is the
\* error isTransactionAborted recognises.  The answer may be lost after the
\* worker ran the statement.
Worker(stmt, key) ==
  LET R(r, s) == [res |-> r, conn |-> s]
      stuck == [tx |-> "aborted", owner |-> Auto]
      abort == [conn EXCEPT !.tx = "aborted"]
  IN CASE reaped -> {R("error", conn)}
       [] stmt = "begin" /\ conn.tx = "none" ->
            {R("ok", [tx |-> "open", owner |-> key]), R("error", NoTx),
             R("error", [tx |-> "open", owner |-> Lost])}
       [] stmt = "begin" /\ conn.tx = "open" -> {R("error", conn)}
       [] stmt \in {"commit", "rollback"} /\ conn.tx = "none" -> {R("error", conn)}
       [] stmt = "rollback" /\ conn.tx # "none" -> {R("ok", NoTx), R("error", NoTx)}
       [] stmt = "commit" /\ conn.tx = "open" -> {R("ok", NoTx), R("error", NoTx)}
       [] stmt = "commit" /\ conn.tx = "aborted" -> {R("ok", NoTx), R("aborted", conn)}
       [] stmt = "work" /\ conn.tx = "none" ->
            {R("ok", NoTx), R("error", NoTx), R("error", stuck)}
       [] stmt = "work" /\ conn.tx = "open" ->
            {R("ok", conn), R("error", conn), R("error", abort), R("error", NoTx)}
       [] OTHER -> {R("aborted", conn)}

-----------------------------------------------------------------------------
(* Arrival of a call and the session's lock.                               *)

\* The token names a session of the store (GetByTokenContext).
sessionFromContext(c) ==
  /\ At(c, "idle") /\ ~reaped /\ sent < MaxCalls
  /\ sent' = sent + 1
  /\ Goto(c, "got")
  /\ UNCHANGED <<opMu, session, conn>>

hasTxn(txn) == txn \in txns

\* An id the client sends is one it was given; without one anything goes.
getOpenTxn(txn) == txn = NoTxn \/ hasTxn(txn)

Ids == {NoTxn} \cup 1 .. begun

\* The handler goes on to wait for opMu.
Queue(c, op, stmt, txn, h) ==
  call' = [call EXCEPT ![c] = [pc |-> "lock", op |-> op, stmt |-> stmt,
                               txn |-> txn, h |-> h, todo |-> 0]]

\* A handler looks at the session: touch, and then its checks.
Handler(c) ==
  /\ At(c, "got")
  /\ idle' = FALSE
  /\ UNCHANGED <<opMu, activeTxn, txns, begun, streams, reaped, conn, sent>>

FreeIds == (1 .. MaxHandles) \ {q.id : q \in queries}

addQuery(txn) ==
  \E h \in FreeIds : queries' = queries \cup {[id |-> h, txn |-> txn, old |-> FALSE]}

\* getQuery: the handle, used just now.
getQuery(q) == queries' = (queries \ {q}) \cup {[q EXCEPT !.old = FALSE]}

deleteQuery(h) == {q \in queries : q.id # h}

-----------------------------------------------------------------------------
(* The handlers, up to the lock.                                           *)

\* Refused without an open transaction or for a statement that is not
\* read-only; an empty query has its handle at once; any other asks for its
\* schema first.
GetFlightInfoStatement(c) ==
  /\ Handler(c)
  /\ \E txn \in Ids :
       \/ Answer(c) /\ UNCHANGED queries
       \/ getOpenTxn(txn) /\ addQuery(txn) /\ Answer(c)
       \/ getOpenTxn(txn) /\ FreeIds # {} /\ Queue(c, "info", "work", txn, 0) /\ UNCHANGED queries

CreatePreparedStatement(c) ==
  /\ Handler(c)
  /\ \E txn \in Ids :
       \/ Answer(c) /\ UNCHANGED queries
       \/ getOpenTxn(txn) /\ addQuery(txn) /\ Answer(c)
       \/ getOpenTxn(txn) /\ FreeIds # {} /\ Queue(c, "prep", "work", txn, 0) /\ UNCHANGED queries

ClosePreparedStatement(c) ==
  /\ Handler(c)
  /\ \E q \in queries : queries' = deleteQuery(q.id)
  /\ Answer(c)

GetFlightInfoPreparedStatement(c) ==
  /\ Handler(c)
  /\ \E q \in queries : getQuery(q)
  /\ Answer(c)

\* The handle and its transaction are looked up before the wait for opMu.
DoGetStatement(c) ==
  /\ Handler(c)
  /\ \E q \in queries :
       /\ getQuery(q)
       /\ IF getOpenTxn(q.txn) THEN Queue(c, "get", "work", q.txn, q.id) ELSE Answer(c)

DoGetPreparedStatement(c) ==
  /\ Handler(c)
  /\ \E q \in queries :
       /\ getQuery(q)
       /\ IF getOpenTxn(q.txn) THEN Queue(c, "getprep", "work", q.txn, q.id) ELSE Answer(c)

\* An empty statement is answered at once.
DoPutCommandStatementUpdate(c) ==
  /\ Handler(c)
  /\ \E txn \in Ids :
       \/ Answer(c)
       \/ getOpenTxn(txn) /\ Queue(c, "update", "work", txn, 0)
  /\ UNCHANGED queries

DoGetDBSchemas(c) ==
  /\ Handler(c) /\ Queue(c, "schemas", "work", NoTxn, 0) /\ UNCHANGED queries

DoGetTables(c) ==
  /\ Handler(c) /\ Queue(c, "tables", "work", NoTxn, 0) /\ UNCHANGED queries

BeginTransaction(c) ==
  /\ Handler(c)
  /\ begun + Cardinality({d \in Calls : call[d].op = "begin"}) < MaxTxns
  /\ Queue(c, "begin", "begin", NoTxn, 0) /\ UNCHANGED queries

\* "drop" stands for an action other than commit and rollback.
EndTransaction(c) ==
  /\ Handler(c)
  /\ \E txn \in 1 .. begun, op \in {"commit", "rollback", "drop"} :
       Queue(c, op, IF op = "drop" THEN "rollback" ELSE op, txn, 0)
  /\ UNCHANGED queries

-----------------------------------------------------------------------------
(* Under opMu.                                                             *)

\* opMu is taken.  beginTransaction and endTransaction look at the state of
\* the transaction only now.
Lock(c) ==
  /\ At(c, "lock") /\ opMu = NoCall
  /\ LET r == call[c]
         refused == \/ r.op = "begin" /\ activeTxn
                    \/ r.op \in {"commit", "rollback", "drop"} /\ ~(activeTxn /\ hasTxn(r.txn))
     IN IF refused THEN Answer(c) /\ UNCHANGED opMu
                   ELSE Goto(c, "run") /\ opMu' = c
  /\ UNCHANGED <<session, conn, sent>>

\* A failed statement ends the call; in a stream the goroutine ends it.
Failed(c) ==
  /\ opMu' = NoCall
  /\ IF call[c].op = "tables" /\ call[c].todo > 0 THEN Goto(c, "end") ELSE Answer(c)
  /\ UNCHANGED <<activeTxn, txns, begun, queries, streams>>

\* A statement that succeeded.  The transaction is recorded under opMu; a
\* query keeps opMu with its rows.
Succeeded(c) ==
  LET op == call[c].op
  IN CASE op = "begin" ->
            /\ activeTxn' = TRUE /\ begun' = begun + 1 /\ txns' = txns \cup {begun + 1}
            /\ opMu' = NoCall /\ Answer(c) /\ UNCHANGED <<queries, streams>>
       [] op \in {"commit", "rollback", "drop"} ->
            /\ activeTxn' = FALSE /\ txns' = txns \ {call[c].txn}
            /\ opMu' = NoCall /\ Answer(c) /\ UNCHANGED <<begun, queries, streams>>
       [] op = "update" -> /\ opMu' = NoCall /\ Answer(c)
                           /\ UNCHANGED <<activeTxn, txns, begun, queries, streams>>
       [] OTHER -> Goto(c, "rows") /\ UNCHANGED <<opMu, activeTxn, txns, begun, queries, streams>>

\* Mutant: an aborted transaction is rolled back whoever began it.
recoverAlways(c, res) == res = "aborted"

\* RecoverAbortedTransaction acts only without an active transaction.
canRecover(c, res) == res = "aborted" /\ ~activeTxn /\ call[c].op # "drop"

\* The first attempt.
execLocked(c) ==
  /\ At(c, "run")
  /\ \E o \in Worker(call[c].stmt, begun + 1) :
       /\ conn' = o.conn
       /\ IF canRecover(c, o.res)
            THEN Goto(c, "recover") /\ UNCHANGED <<opMu, activeTxn, txns, begun, queries, streams>>
            ELSE IF o.res = "ok" \/ call[c].op = "drop" THEN Succeeded(c) ELSE Failed(c)
  /\ UNCHANGED <<idle, reaped, sent>>

\* The ROLLBACK of the recovery; if it fails, so does the statement.
RecoverAbortedTransaction(c) ==
  /\ At(c, "recover")
  /\ \E o \in Worker("rollback", NoTxn) :
       /\ conn' = o.conn
       /\ IF o.res = "ok"
            THEN Goto(c, "again") /\ UNCHANGED <<opMu, activeTxn, txns, begun, queries, streams>>
            ELSE Failed(c)
  /\ UNCHANGED <<idle, reaped, sent>>

\* The statement once more.
Retry(c) ==
  /\ At(c, "again")
  /\ \E o \in Worker(call[c].stmt, begun + 1) :
       /\ conn' = o.conn
       /\ IF o.res = "ok" THEN Succeeded(c) ELSE Failed(c)
  /\ UNCHANGED <<idle, reaped, sent>>

-----------------------------------------------------------------------------
(* Rows.                                                                   *)

\* getQuerySchema closes its rows; a stream begins.
beginStream(c) ==
  /\ At(c, "rows") /\ call[c].op \in {"get", "getprep", "schemas", "tables"} /\ call[c].todo = 0
  /\ streams' = streams + 1
  /\ Goto(c, "stream")
  /\ UNCHANGED <<opMu, activeTxn, txns, begun, queries, idle, reaped, conn, sent>>

getQuerySchema(c) ==
  /\ At(c, "rows") /\ call[c].op \in {"info", "prep"}
  /\ opMu' = NoCall
  /\ Goto(c, "add")
  /\ UNCHANGED <<session, conn, sent>>

\* The schema is known: the handle is made.
AddHandle(c) ==
  /\ At(c, "add")
  /\ IF FreeIds # {} THEN addQuery(call[c].txn) ELSE UNCHANGED queries
  /\ Answer(c)
  /\ UNCHANGED <<opMu, activeTxn, txns, begun, streams, idle, reaped, conn, sent>>

\* Rows run out, an error, or the client has gone (sendStreamChunk): the
\* stream is uncounted before its rows are closed.
endStream(c) ==
  /\ At(c, "stream") /\ call[c].op # "tables"
  /\ streams' = streams - 1
  /\ Goto(c, "close")
  /\ UNCHANGED <<opMu, activeTxn, txns, begun, queries, idle, reaped, conn, sent>>

CloseRows(c) ==
  /\ At(c, "close")
  /\ opMu' = NoCall
  /\ IF call[c].op = "get" THEN Goto(c, "drop") ELSE Answer(c)
  /\ UNCHANGED <<session, conn, sent>>

DropHandle(c) ==
  /\ At(c, "drop")
  /\ queries' = deleteQuery(call[c].h)
  /\ Answer(c)
  /\ UNCHANGED <<opMu, activeTxn, txns, begun, streams, idle, reaped, conn, sent>>

\* Mutant: the stream is uncounted when the rows of the list are closed.
TablesUncounted(c) ==
  /\ At(c, "stream") /\ call[c].op = "tables"
  /\ opMu' = NoCall
  /\ \E n \in 0 .. MaxTables + 1 :
       /\ streams' = IF n = 0 THEN streams ELSE streams - 1
       /\ call' = [call EXCEPT ![c].todo = n, ![c].pc = IF n = 0 THEN "end" ELSE "lock"]
  /\ UNCHANGED <<activeTxn, txns, begun, queries, idle, reaped, conn, sent>>

\* The list of tables is read, its rows are closed; with schemas asked for,
\* loadTableSchemas and one lookup for each table it missed follow.
TablesListed(c) ==
  /\ At(c, "stream") /\ call[c].op = "tables"
  /\ opMu' = NoCall
  /\ \E n \in 0 .. MaxTables + 1 :
       /\ call' = [call EXCEPT ![c].todo = n, ![c].pc = IF n = 0 THEN "end" ELSE "lock"]
       /\ idle' = (idle /\ n = 0)
  /\ UNCHANGED <<activeTxn, txns, begun, queries, streams, reaped, conn, sent>>

\* One lookup is done.  query() touches the session each time.
loadTableSchemas(c) ==
  /\ At(c, "rows") /\ call[c].op = "tables" /\ call[c].todo > 0
  /\ opMu' = NoCall
  /\ call' = [call EXCEPT ![c].todo = @ - 1, ![c].pc = IF call[c].todo = 1 THEN "end" ELSE "lock"]
  /\ idle' = (idle /\ call[c].todo = 1)
  /\ UNCHANGED <<activeTxn, txns, begun, queries, streams, reaped, conn, sent>>

\* The goroutine of DoGetTables ends.
TablesEnd(c) ==
  /\ At(c, "end")
  /\ streams' = streams - 1
  /\ Answer(c)
  /\ UNCHANGED <<opMu, activeTxn, txns, begun, queries, idle, reaped, conn, sent>>

-----------------------------------------------------------------------------
(* Time and the reaper.                                                    *)

Elapse ==
  /\ ~reaped /\ ~idle
  /\ idle' = TRUE
  /\ UNCHANGED <<opMu, activeTxn, txns, begun, queries, streams, reaped, conn, call, sent>>

\* handleIdleTTL is over for a handle.
Age(h) ==
  /\ \E q \in queries : q.id = h /\ ~q.old /\ queries' = (queries \ {q}) \cup {[q EXCEPT !.old = TRUE]}
  /\ UNCHANGED <<opMu, activeTxn, txns, begun, streams, idle, reaped, conn, call, sent>>

\* Mutant: handles made in a transaction stay for good.
KeepTxnHandles == {q \in queries : ~q.old \/ q.txn # NoTxn}

\* Handles that are old and whose transaction, if any, is over.
reapStaleHandles == {q \in queries : ~q.old \/ hasTxn(q.txn)}

\* Of the session store, for this session.  The counters are read under the
\* store's lock, which GetByTokenContext needs as well.
reapIdle ==
  /\ ~reaped
  /\ queries' = reapStaleHandles
  /\ reaped' = (idle /\ txns = {} /\ streams = 0 /\ queries' = {})
  /\ queries' # queries \/ reaped'
  /\ conn' = IF reaped' THEN NoTx ELSE conn
  /\ UNCHANGED <<opMu, activeTxn, txns, begun, streams, idle, call, sent>>

-----------------------------------------------------------------------------
Step(c) ==
  \/ Lock(c) \/ execLocked(c) \/ RecoverAbortedTransaction(c) \/ Retry(c)
  \/ beginStream(c) \/ getQuerySchema(c) \/ AddHandle(c)
  \/ endStream(c) \/ CloseRows(c) \/ DropHandle(c)
  \/ TablesListed(c) \/ loadTableSchemas(c) \/ TablesEnd(c)

Request(c) ==
  \/ GetFlightInfoStatement(c) \/ DoGetStatement(c) \/ DoPutCommandStatementUpdate(c)
  \/ CreatePreparedStatement(c) \/ ClosePreparedStatement(c)
  \/ GetFlightInfoPreparedStatement(c) \/ DoGetPreparedStatement(c)
  \/ DoGetDBSchemas(c) \/ DoGetTables(c)
  \/ BeginTransaction(c) \/ EndTransaction(c)

Next ==
  \/ \E c \in Calls : sessionFromContext(c) \/ Request(c) \/ Step(c)
  \/ Elapse \/ reapIdle
  \/ \E h \in 1 .. MaxHandles : Age(h)

\* A call in the server goes on, time passes and the reaper runs.  A stream
\* ends because its client reads it or goes away.
Spec ==
  /\ Init /\ [][Next]_vars
  /\ \A c \in Calls : WF_vars(Step(c)) /\ WF_vars(Request(c))
  /\ WF_vars(Elapse) /\ WF_vars(reapIdle)
  /\ \A h \in 1 .. MaxHandles : WF_vars(Age(h))

-----------------------------------------------------------------------------
(* Properties.                                                             *)

\* Types; while nobody holds opMu a transaction is active exactly when its key
\* is listed, and there is at most one.
TypeOK ==
  /\ opMu \in Calls \cup {NoCall} /\ activeTxn \in BOOLEAN
  /\ txns \subseteq Keys /\ begun \in 0 .. MaxTxns
  /\ queries \subseteq [id : 1 .. MaxHandles, txn : {NoTxn} \cup Keys, old : BOOLEAN]
  /\ streams \in 0 .. Cardinality(Calls)
  /\ idle \in BOOLEAN /\ reaped \in BOOLEAN
  /\ conn.tx \in {"none", "open", "aborted"} /\ conn.owner \in 0 .. Auto
  /\ Cardinality(txns) = IF activeTxn THEN 1 ELSE 0
  /\ sent \in 0 .. MaxCalls

\* The ROLLBACK of the recovery never ends a transaction that BeginTransaction
\* began for the client, not even one whose key the client has not seen yet.
RecoverySparesTxn ==
  [][\A c \in Calls : At(c, "recover") /\ call'[c].pc # "recover"
       => conn.owner \notin Keys]_vars

\* The reaper never takes a session from under a stream: neither while rows
\* are being sent nor during the lookups DoGetTables makes between them.
ReapSparesStreams ==
  [][reaped' /\ ~reaped =>
       \A c \in Calls : ~At(c, "stream") /\ ~At(c, "end") /\ call[c].todo = 0]_vars

\* Every call is answered: no handler waits for an opMu that it holds itself or
\* that nobody gives back.  And a session whose client sends nothing more is
\* reaped, unless the client left a transaction open: no handle, stream count or
\* lock is left behind by any error path.
QuietSessionReaped ==
  (\A c \in Calls : At(c, "idle")) /\ (reaped \/ txns # {})
=============================================================================
