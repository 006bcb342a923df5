---------------------------- MODULE PgConnection ----------------------------
(***************************************************************************)
(* One client connection of the PostgreSQL front end (server/conn.go): the *)
(* message loop with its simple-query, extended-query and COPY handlers,   *)
(* the transaction status it tracks for the client, prepared statements,   *)
(* portals and emulated cursors, the cancel registration of the statement  *)
(* in flight and the goroutine that watches the socket for a disconnect.   *)
(*                                                                         *)
(* SQL text is abstracted to the kind of statement the handlers tell apart.*)
(* The DuckDB connection behind the executor is external: DuckExec gives   *)
(* every result it may return for a statement.                             *)
(***************************************************************************)
EXTENDS Integers, Sequences, FiniteSets

CONSTANTS
  Openers,  \* spellings of "open a transaction" the client uses
  Names,    \* names of prepared statements
  Portals,  \* names of portals
  Cursors,  \* names of SQL cursors
  Objs,     \* identities of preparedStmt objects
  Simple,   \* kinds of statement the client sends as a simple query
  Prepared, \* kinds of statement the client prepares
  sharedDB, \* the executor is a pinned connection of a shared pool
  Batches,  \* two-statement simple queries the client sends
  None

VARIABLES
  sess,     \* transaction status, DuckDB transaction, cursors, registration
  stmts,    \* c.stmts: statement name -> object
  portals,  \* c.portals: portal name -> bound statement and described flag
  heap,     \* the preparedStmt objects, shared by stmts and portals
  phase,    \* what the connection's goroutine is doing
  todo,     \* statements of the current simple query, the running one first
  batch,    \* the current simple query has several statements
  owed,     \* ReadyForQuery messages the client is still waiting for
  monitor,  \* the disconnect monitor of the statement in flight
  peer,     \* whether the client is still there
  ctxDone   \* c.ctx is cancelled

vars == <<sess, stmts, portals, heap, phase, todo, batch, owed,
          monitor, peer, ctxDone>>

Ctx == Cursors \cup {"q"}   \* contexts: the statement in flight, open cursors

CtxKinds == Openers \cup {"commit", "rollback", "write", "select"}
CursorKinds == {"declare", "fetch", "closecur"}
PlainKinds == {"nop", "bad", "pgview", "cte"} \cup CursorKinds
CopyKinds == {"copyin", "copyout", "copyfile"}
TextKinds == CtxKinds \cup PlainKinds \cup CopyKinds \cup {"empty"}
StmtKinds == CtxKinds \cup (PlainKinds \ {"bad"})

-----------------------------------------------------------------------------
(* The DuckDB connection.                                                  *)

AtTx(s, t, u) == [s EXCEPT !.db = t, !.user = u]

EndTx(s) == AtTx(s, "none", FALSE)

Poison(s) == [s EXCEPT !.db = "aborted"]

\* Every answer of the connection to one statement: a result and the state
\* it leaves. "own" is the BEGIN of a rewritten writable CTE. A failure
\* inside a transaction may or may not abort it; outside one, a DuckLake
\* connection may be left stuck in an aborted transaction.
DuckExec(k, s) ==
  CASE s.db = "aborted" /\ k \notin {"commit", "rollback"} ->
         {<<"aborted", s>>}
    [] k \in {"begin", "start", "own"} ->
         {<<"err", s>>} \cup
         (IF s.db = "none" THEN {<<"ok", AtTx(s, "open", k # "own")>>} ELSE {})
    [] k = "commit" ->
         IF s.db = "none" THEN {<<"err", s>>}
         ELSE {<<"ok", EndTx(s)>>, <<"err", EndTx(s)>>,
               IF s.db = "open" THEN <<"conflict", EndTx(s)>> ELSE <<"aborted", s>>}
    [] k = "rollback" ->
         IF s.db = "none" THEN {<<"err", s>>} ELSE {<<"ok", EndTx(s)>>}
    [] k = "write" ->
         {<<"ok", s>>, <<"err", s>>, <<"err", Poison(s)>>,
          <<"conflict", IF s.db = "none" THEN s ELSE Poison(s)>>}
    [] k = "select" ->
         {<<"ok", s>>, <<"err", s>>, <<"err", Poison(s)>>,
          <<"rowerr", IF s.db = "none" THEN s ELSE Poison(s)>>,
          <<"conflict", IF s.db = "none" THEN s ELSE Poison(s)>>}

-----------------------------------------------------------------------------
(* Cursors and the cancel registry.                                        *)

closeCursors(s, cs) ==
  [s EXCEPT !.cursors = [c \in Cursors |-> IF c \in cs THEN "none" ELSE @[c]],
            !.reg = IF \E c \in cs : s.cursors[c] = "open" THEN None ELSE @]

closeAllCursors(s) == closeCursors(s, Cursors)

\* The cursor's query runs under a context registered with the connection's
\* key, whose cleanup runs at once when the query fails.
openCursor(s, c) ==
  { IF r[1] \in {"ok", "rowerr"}
    THEN <<"ok", [r[2] EXCEPT !.cursors[c] = "open", !.reg = c]>>
    ELSE <<"err", [r[2] EXCEPT !.reg = None]>>
    : r \in DuckExec("select", s) }

-----------------------------------------------------------------------------
(* The transaction status.                                                 *)


\* The status follows the command's leading words; every other spelling
\* ("start" is START TRANSACTION) is treated like a SELECT.
getCommandType(k) == IF k \in {"begin", "commit", "rollback"} THEN k ELSE "select"

updateTxStatus(s, k) ==
  CASE k = "begin" -> [s EXCEPT !.tx = "T"]
    [] k \in {"commit", "rollback"} -> closeAllCursors([s EXCEPT !.tx = "I"])
    [] OTHER -> s

setTxError(s) == IF s.tx = "T" THEN [s EXCEPT !.tx = "E"] ELSE s

retryOnConflict(k, s, r) ==
  IF r[1] = "conflict" /\ s.tx = "I" THEN DuckExec(k, r[2]) ELSE {r}


\* canRollback is "the connection tracks no transaction".
recoverAbortedTransaction(k, s, r) ==
  IF r[1] = "aborted" /\ s.tx = "I"
  THEN UNION { IF b[1] = "ok"
               THEN DuckExec(k, [b[2] EXCEPT !.rolled = @ \/ r[2].user])
               ELSE {<<"err", r[2]>>} : b \in DuckExec("rollback", r[2]) }
  ELSE {r}

\* runExec / runQuery with both retries.
WithRetries(k, s) ==
  UNION { UNION { recoverAbortedTransaction(k, s, q)
                  : q \in retryOnConflict(k, s, r) } : r \in DuckExec(k, s) }

Succeed(k, r) == <<"ok", updateTxStatus(r[2], getCommandType(k))>>

Fail(r) == <<"err", setTxError(r[2])>>

\* A statement without result rows, in a query of its own.
ExecStatement(k, s) ==
  {IF r[1] = "ok" THEN Succeed(k, r) ELSE Fail(r) : r \in WithRetries(k, s)}

\* A statement with result rows: the rows may also break while they are sent.
executeSelectQuery(s) ==
  {IF r[1] = "ok" THEN Succeed("select", r) ELSE Fail(r) : r \in WithRetries("select", s)}

\* A statement of a batch: rows.Err() is not looked at.
executeSingleStatement(k, s) ==
  {IF r[1] \in {"ok", "rowerr"} THEN Succeed(k, r) ELSE Fail(r)
   : r \in WithRetries(k, s)}

RunStatement(k, s, inBatch) ==
  CASE inBatch -> executeSingleStatement(k, s)
    [] ~inBatch /\ k = "select" -> executeSelectQuery(s)
    [] ~inBatch /\ k # "select" -> ExecStatement(k, s)

-----------------------------------------------------------------------------
(* Statements handled without a statement context.                         *)

AndThen(rs, k) ==
  UNION { IF r[1] = "ok" THEN DuckExec(k, r[2]) ELSE {r} : r \in rs }

\* DROP the temporary tables, then COMMIT; both failures are ignored.
executeCleanup(s, ours) ==
  LET dropped == {d[2] : d \in DuckExec("write", s)}
  IN  IF ours THEN UNION {{c[2] : c \in DuckExec("commit", d)} : d \in dropped}
              ELSE dropped

\* A rewritten writable CTE: BEGIN unless a transaction is tracked, a setup
\* statement, the final statement, the cleanup.
executeMultiStatement(s) ==
  LET ours == s.tx # "T"
      opened == IF ours THEN DuckExec("own", s) ELSE {<<"ok", s>>}
      ran == AndThen(AndThen(opened, "write"), "write")
  IN  UNION { {<<IF r[1] = "ok" THEN "ok" ELSE "err", c>>
               : c \in executeCleanup(IF r[1] = "ok" THEN r[2]
                                      ELSE setTxError(r[2]), ours)}
              : r \in ran }

\* The same steps for Execute, without the ReadyForQuery.
executeMultiStatementExtended(s) == executeMultiStatement(s)

\* Cursors are emulated: DECLARE only stores the query.
handleDeclareCursor(s, c) ==
  {<<"ok", [closeCursors(s, {c}) EXCEPT !.cursors[c] = "declared"]>>}

\* The first FETCH opens the cursor; a later one may fail while it reads.
handleFetchCursor(s, c) ==
  CASE s.cursors[c] = "none" -> {<<"err", s>>}
    [] s.cursors[c] = "declared" ->
         {IF r[1] = "ok" THEN r ELSE Fail(r) : r \in openCursor(s, c)}
    [] s.cursors[c] = "open" ->
         {<<"ok", s>>, Fail(<<"err", IF s.db = "open" THEN Poison(s) ELSE s>>)}

handleCloseCursor(s, c) ==
  IF s.cursors[c] = "none" THEN {<<"err", s>>} ELSE {<<"ok", closeCursors(s, {c})>>}

CursorOp(k, s, c) ==
  CASE k = "declare" -> handleDeclareCursor(s, c)
    [] k = "fetch" -> handleFetchCursor(s, c)
    [] k = "closecur" -> handleCloseCursor(s, c)

\* COPY TO STDOUT in the binary format: an error between two tuples ends the
\* stream without CopyDone.
handleCopyOutBinary(r) == IF r[1] = "ok" THEN r ELSE Fail(r)

\* COPY TO STDOUT sends the rows of a SELECT, as text or as binary tuples ...
handleCopyOut(s) ==
  {IF r[1] = "err" THEN Fail(r) ELSE handleCopyOutBinary(r) :
     r \in DuckExec("select", s)}

\* ... and any other COPY is passed to DuckDB.
handleCopy(s) ==
  {IF r[1] = "ok" THEN r ELSE Fail(r) : r \in DuckExec("write", s)}

\* What a statement that runs without a context does to the session.
Immediate(k, s) ==
  CASE k \in {"empty", "nop", "pgview"} \cup Openers -> {<<"ok", s>>}
    [] k = "bad" -> {<<"err", s>>}
    [] k = "cte" -> executeMultiStatement(s)
    [] k = "copyout" -> handleCopyOut(s)
    [] k = "copyfile" -> handleCopy(s)
    [] k \in CursorKinds -> UNION {CursorOp(k, s, c) : c \in Cursors}

\* A BEGIN inside a tracked transaction is answered with a warning.
NestedBegin(k) == k = "begin" /\ sess.tx = "T"

NeedsContext(k) == k \in CtxKinds /\ ~NestedBegin(k)

-----------------------------------------------------------------------------
Blank == [kind |-> "nop", described |-> FALSE, seen |-> FALSE]

Init ==
  /\ sess = [tx |-> "I", db |-> "none", user |-> FALSE, rolled |-> FALSE,
             cursors |-> [c \in Cursors |-> "none"], reg |-> None, cut |-> FALSE]
  /\ stmts = [n \in Names |-> None]
  /\ portals = [p \in Portals |-> None]
  /\ heap = [o \in Objs |-> Blank]
  /\ phase = "ready"
  /\ todo = <<>>
  /\ batch = FALSE
  /\ owed = 0
  /\ monitor = "off"
  /\ peer = "up"
  /\ ctxDone = FALSE

extended == <<stmts, portals, heap>>
socket == <<monitor, peer, ctxDone>>

-----------------------------------------------------------------------------
(* Simple queries.                                                         *)

\* The loop reads a Query message.
handleQuery(text) ==
  /\ phase = "ready" /\ peer = "up"
  /\ todo' = text
  /\ batch' = (Len(text) > 1)
  /\ phase' = "next"
  /\ owed' = 1
  /\ UNCHANGED <<sess, extended, socket>>

\* Mutant: an outcome that ends a message without its ReadyForQuery.
ProceedSilently(ok) ==
  LET rest == IF ok THEN Tail(todo) ELSE <<>>
  IN  /\ todo' = rest
      /\ phase' = IF rest = <<>> THEN "ready" ELSE "next"
      /\ owed' = IF rest = <<>> /\ ok THEN owed - 1 ELSE owed
      /\ batch' = (batch /\ rest # <<>>)

\* Go on after a statement: the rest of the batch, or ReadyForQuery.
Proceed(ok) ==
  LET rest == IF ok THEN Tail(todo) ELSE <<>>
  IN  /\ todo' = rest
      /\ phase' = IF rest = <<>> THEN "ready" ELSE "next"
      /\ owed' = IF rest = <<>> THEN owed - 1 ELSE owed
      /\ batch' = (batch /\ rest # <<>>)

\* Register the statement's cancel function and start the disconnect monitor.
queryContext ==
  /\ phase = "next" /\ NeedsContext(Head(todo))
  /\ sess' = [sess EXCEPT !.reg = "q", !.cut = FALSE]
  /\ monitor' = "on"
  /\ phase' = "query"
  /\ UNCHANGED <<extended, todo, batch, owed, peer, ctxDone>>

\* A statement of a batch that may not appear there: an error that leaves
\* the transaction status alone.
RefusedInBatch(k) == batch /\ k \in CopyKinds \cup {"cte"}

HandleImmediate ==
  /\ phase = "next" /\ ~NeedsContext(Head(todo))
  /\ ~RefusedInBatch(Head(todo)) /\ Head(todo) # "copyin"
  /\ \E r \in Immediate(Head(todo), sess) :
       /\ sess' = r[2]
       /\ Proceed(r[1] = "ok")
  /\ UNCHANGED <<extended, socket>>

RefuseInBatch ==
  /\ phase = "next" /\ RefusedInBatch(Head(todo))
  /\ Proceed(FALSE)
  /\ UNCHANGED <<sess, extended, socket>>

\* The statement returns; a single statement's ReadyForQuery is written here,
\* before the deferred cleanup.
FinishStatement ==
  /\ phase = "query"
  /\ \E r \in RunStatement(Head(todo), sess, batch) :
       /\ sess' = r[2]
       /\ todo' = IF r[1] = "ok" THEN Tail(todo) ELSE <<>>
  /\ phase' = "cleanup"
  /\ owed' = IF batch THEN owed ELSE owed - 1
  /\ UNCHANGED <<extended, batch, socket>>

\* Mutant: the statement does not wait for its monitor to exit.
CleanupWithoutWaiting ==
  /\ phase = "cleanup"
  /\ sess' = [sess EXCEPT !.reg = None, !.cut = FALSE]
  /\ phase' = IF todo = <<>> THEN "ready" ELSE "next"
  /\ owed' = IF batch /\ todo = <<>> THEN owed - 1 ELSE owed
  /\ monitor' = IF monitor = "exited" THEN "off" ELSE monitor
  /\ batch' = (batch /\ todo # <<>>)
  /\ UNCHANGED <<extended, todo, peer, ctxDone>>

\* The cleanup of queryContext: stop the monitor and wait for it, unregister;
\* the last statement of a batch is then followed by ReadyForQuery.
CleanupStatement ==
  /\ phase = "cleanup" /\ monitor = "exited"
  /\ sess' = [sess EXCEPT !.reg = None, !.cut = FALSE]
  /\ phase' = IF todo = <<>> THEN "ready" ELSE "next"
  /\ owed' = IF batch /\ todo = <<>> THEN owed - 1 ELSE owed
  /\ monitor' = "off"
  /\ batch' = (batch /\ todo # <<>>)
  /\ UNCHANGED <<extended, todo, peer, ctxDone>>

-----------------------------------------------------------------------------
(* The disconnect monitor, and cancel requests of other connections.       *)

\* Mutant: the monitor does not see that the client is gone.
MonitorIgnoresPeer ==
  /\ monitor = "on" /\ (phase = "cleanup" \/ ctxDone \/ sess.cut)
  /\ monitor' = "exited"
  /\ UNCHANGED <<sess, extended, phase, todo, batch, owed, peer, ctxDone>>

\* Peek fails: the client is gone, so the connection context is cancelled.
\* Otherwise the monitor ends with the statement's context or its cleanup.
MonitorStep ==
  /\ monitor = "on"
  /\ \/ peer = "gone" /\ ctxDone' = TRUE
     \/ phase = "cleanup" /\ UNCHANGED ctxDone
     \/ (ctxDone \/ sess.cut) /\ UNCHANGED ctxDone
  /\ monitor' = "exited"
  /\ UNCHANGED <<sess, extended, phase, todo, batch, owed, peer>>

\* The registered context is cancelled. For a cursor's that only shows as a
\* FETCH that fails, which CursorOp allows at any time.
CancelQuery ==
  /\ sess.reg = "q"
  /\ sess' = [sess EXCEPT !.cut = TRUE]
  /\ UNCHANGED <<extended, phase, todo, batch, owed, socket>>

Disconnect ==
  /\ peer = "up"
  /\ peer' = "gone"
  /\ UNCHANGED <<sess, extended, phase, todo, batch, owed, monitor, ctxDone>>

-----------------------------------------------------------------------------
(* COPY ... FROM STDIN.                                                    *)

\* The target table is probed; then the client is asked for data, which goes
\* to a temporary file, to a remote worker, or to batched INSERTs.
handleCopyIn ==
  /\ phase = "next" /\ Head(todo) = "copyin" /\ ~batch
  /\ \E r \in DuckExec("select", sess), sink \in {"file", "stream", "rows", "binary"} :
       \/ /\ r[1] \in {"ok", "rowerr"}
          /\ sess' = r[2]
          /\ todo' = <<sink>>
          /\ phase' = "copyin"
          /\ UNCHANGED <<batch, owed>>
       \/ /\ \/ r[1] \notin {"ok", "rowerr"}
             \/ sink = "file"     \* the temporary file cannot be created
          /\ sess' = setTxError(r[2])
          /\ Proceed(FALSE)
  /\ UNCHANGED <<extended, socket>>

\* The rows parsed here are inserted in batches, each a statement of its own.
batchInsertRows(s) == AndThen(DuckExec("write", s), "write")

EndCopy(rs) ==
  /\ \E r \in rs : sess' = IF r[1] = "ok" THEN r[2] ELSE setTxError(r[2])
  /\ Proceed(FALSE)
  /\ UNCHANGED <<extended, socket>>

\* CopyDone: DuckDB loads the temporary file ...
CopyDoneFile ==
  /\ phase = "copyin" /\ peer = "up" /\ Head(todo) = "file"
  /\ EndCopy(DuckExec("write", sess))

\* ... or the worker loads what was streamed to it ...
handleCopyInRemoteStreaming ==
  /\ phase = "copyin" /\ peer = "up" /\ Head(todo) = "stream"
  /\ EndCopy(DuckExec("write", sess))

\* ... or the buffered rows are inserted, unless there are none.
CopyDoneRows ==
  /\ phase = "copyin" /\ peer = "up" /\ Head(todo) = "rows"
  /\ EndCopy({<<"ok", sess>>} \cup batchInsertRows(sess))

\* Binary tuples are parsed only now: data that does not parse inserts nothing.
handleCopyInBinary ==
  /\ phase = "copyin" /\ peer = "up" /\ Head(todo) = "binary"
  /\ EndCopy({<<"ok", sess>>, <<"err", sess>>} \cup batchInsertRows(sess))

\* CopyFail, a message that does not belong here, or a sink that fails.
CopyFails ==
  /\ phase = "copyin" /\ peer = "up"
  /\ EndCopy({<<"err", sess>>})

-----------------------------------------------------------------------------
(* The extended protocol. An error reply changes nothing and the messages  *)
(* that follow it are handled as usual; Sync only writes ReadyForQuery.    *)

Reading == phase = "ready" /\ peer = "up"

notExtended == <<phase, todo, batch, owed, socket>>

\* Objects that no name refers to any more are garbage.
Collect(h) ==
  heap' = [o \in Objs |-> IF \/ \E n \in Names : stmts'[n] = o
                             \/ \E p \in Portals : portals'[p] # None /\ portals'[p].obj = o
                          THEN h[o] ELSE Blank]

FreeObj ==
  CHOOSE o \in Objs : /\ \A n \in Names : stmts[n] # o
                      /\ \A p \in Portals : portals[p] = None \/ portals[p].obj # o

handleParse(n, k) ==
  /\ Reading
  /\ stmts' = [stmts EXCEPT ![n] = FreeObj]
  /\ UNCHANGED <<sess, portals, notExtended>>
  /\ Collect([heap EXCEPT ![FreeObj] = [Blank EXCEPT !.kind = k]])

\* late: the client already has the statement's RowDescription.
handleBind(p, n) ==
  /\ Reading /\ stmts[n] # None
  /\ portals' = [portals EXCEPT ![p] =
                   [obj |-> stmts[n], described |-> heap[stmts[n]].described,
                    late |-> heap[stmts[n]].seen]]
  /\ UNCHANGED <<sess, stmts, notExtended>>
  /\ Collect(heap)

\* Describe of kind k: whether a RowDescription was sent, and the session.
\* A SELECT is probed with LIMIT 0 and a FETCH opens its cursor; a probe that
\* fails is answered NoData and is not recorded as an error.
DescribeResults(k) ==
  CASE k = "select" -> {<<r[1] \in {"ok", "rowerr"}, r[2]>> : r \in DuckExec("select", sess)}
    [] k = "fetch" ->
         UNION { CASE sess.cursors[c] = "none" -> {<<FALSE, sess>>}
                   [] sess.cursors[c] = "open" -> {<<TRUE, sess>>}
                   [] sess.cursors[c] = "declared" ->
                        {<<r[1] = "ok", r[2]>> : r \in openCursor(sess, c)}
                 : c \in Cursors }
    [] k = "pgview" -> {<<TRUE, sess>>}
    [] OTHER -> {<<FALSE, sess>>}

handleDescribeStatement(n) ==
  /\ Reading /\ stmts[n] # None
  /\ \E d \in DescribeResults(heap[stmts[n]].kind) :
       /\ sess' = d[2]
       /\ heap' = [heap EXCEPT ![stmts[n]].described = @ \/ d[1],
                               ![stmts[n]].seen = @ \/ d[1]]
  /\ UNCHANGED <<stmts, portals, notExtended>>

\* For a SELECT the statement is marked too, so that portals bound from it
\* later inherit the mark.
handleDescribePortal(p) ==
  /\ Reading /\ portals[p] # None
  /\ \E d \in DescribeResults(heap[portals[p].obj].kind) :
       /\ sess' = d[2]
       /\ portals' = [portals EXCEPT ![p].described = @ \/ d[1]]
       /\ heap' = [heap EXCEPT ![portals[p].obj].seen = @ \/ d[1],
                     ![portals[p].obj].described =
                       @ \/ (d[1] /\ heap[portals[p].obj].kind = "select")]
  /\ UNCHANGED <<stmts, notExtended>>

\* psycopg describes a declared cursor as if it were a portal.
DescribeCursor(c) ==
  /\ Reading /\ sess.cursors[c] = "declared"
  /\ sess' \in {r[2] : r \in openCursor(sess, c)}
  /\ UNCHANGED <<extended, notExtended>>

\* Execute runs outside any statement context: nothing is registered.
ExecuteStatement(k, s) ==
  IF NeedsContext(k) THEN RunStatement(k, s, FALSE)
  ELSE IF k = "cte" THEN executeMultiStatementExtended(s) ELSE Immediate(k, s)

handleExecute(p) ==
  /\ Reading /\ portals[p] # None
  /\ \E r \in ExecuteStatement(heap[portals[p].obj].kind, sess) : sess' = r[2]
  /\ UNCHANGED <<extended, notExtended>>

handleClose ==
  /\ Reading
  /\ \/ \E n \in Names : stmts' = [stmts EXCEPT ![n] = None] /\ UNCHANGED portals
     \/ \E p \in Portals : portals' = [portals EXCEPT ![p] = None] /\ UNCHANGED stmts
  /\ UNCHANGED <<sess, notExtended>>
  /\ Collect(heap)

-----------------------------------------------------------------------------
(* The end of the connection.                                              *)

\* A shared pool's connection is rolled back and returned; any other one is
\* closed, and its transaction with it.
safeCleanupDB(s) ==
  CASE ~sharedDB -> {EndTx(s)}
    [] sharedDB /\ s.tx \in {"T", "E"} -> {r[2] : r \in DuckExec("rollback", s)}
    [] sharedDB /\ s.tx = "I" -> {s}

\* The deferred calls of serve, after Terminate, the idle timeout or a read
\* that fails.
CloseConnection ==
  /\ sess' \in safeCleanupDB(closeAllCursors(sess))
  /\ phase' = "closed"
  /\ ctxDone' = TRUE
  /\ owed' = 0
  /\ todo' = <<>>
  /\ stmts' = [n \in Names |-> None]
  /\ portals' = [p \in Portals |-> None]
  /\ heap' = [o \in Objs |-> Blank]
  /\ UNCHANGED <<batch, monitor, peer>>

LoopEnds == Reading /\ CloseConnection

ReadFails ==
  /\ phase \in {"ready", "copyin"} /\ peer = "gone"
  /\ CloseConnection

-----------------------------------------------------------------------------
Texts == {<<k>> : k \in Simple} \cup Batches

Next ==
  \/ \E text \in Texts : handleQuery(text)
  \/ queryContext \/ HandleImmediate \/ RefuseInBatch \/ FinishStatement
  \/ CleanupStatement \/ MonitorStep \/ CancelQuery \/ Disconnect
  \/ handleCopyIn \/ CopyDoneFile \/ handleCopyInRemoteStreaming \/ CopyDoneRows
  \/ handleCopyInBinary
  \/ CopyFails
  \/ \E n \in Names, k \in Prepared : handleParse(n, k)
  \/ \E p \in Portals, n \in Names : handleBind(p, n)
  \/ \E n \in Names : handleDescribeStatement(n)
  \/ \E p \in Portals : handleDescribePortal(p) \/ handleExecute(p)
  \/ \E c \in Cursors : DescribeCursor(c)
  \/ handleClose \/ LoopEnds \/ ReadFails
  \/ phase = "closed" /\ UNCHANGED vars

\* The goroutines run, and a statement whose context is cancelled returns.
\* Nothing makes a statement that was not cancelled return.
Step ==
  \/ queryContext \/ HandleImmediate \/ RefuseInBatch \/ handleCopyIn
  \/ FinishStatement /\ (ctxDone \/ sess.cut)
  \/ CleanupStatement \/ ReadFails

Fairness == WF_vars(Step) /\ WF_vars(MonitorStep)

Spec == Init /\ [][Next]_vars /\ Fairness

-----------------------------------------------------------------------------
\* Types of the connection, its statements and portals, and of DuckDB.
TypeOK ==
  /\ sess \in [tx : {"I", "T", "E"}, db : {"none", "open", "aborted"},
               user : BOOLEAN, rolled : BOOLEAN,
               cursors : [Cursors -> {"none", "declared", "open"}],
               reg : Ctx \cup {None}, cut : BOOLEAN]
  /\ stmts \in [Names -> Objs \cup {None}]
  /\ portals \in [Portals -> [obj : Objs, described : BOOLEAN, late : BOOLEAN]
                             \cup {None}]
  /\ heap \in [Objs -> [kind : StmtKinds, described : BOOLEAN, seen : BOOLEAN]]
  /\ phase \in {"ready", "next", "query", "cleanup", "copyin", "closed"}
  /\ todo \in Seq(TextKinds \cup {"file", "stream", "rows", "binary"})
  /\ owed \in {0, 1}
  /\ monitor \in {"off", "on", "exited"}
  /\ peer \in {"up", "gone"}
  /\ {batch, ctxDone} \subseteq BOOLEAN

\* A simple query is answered by exactly one ReadyForQuery: none is owed when
\* the loop reads the next message, and it is owed until then, through
\* batches, COPY and every error path of handleQuery.
OneReadyForQuery ==
  /\ phase \in {"ready", "closed"} => owed = 0
  /\ phase \in {"next", "query", "copyin"} => owed = 1

\* The buffered reader of the socket has one user at a time: while the loop
\* or COPY reads messages no disconnect monitor peeks at it.
ReaderExclusive == phase \in {"ready", "next", "copyin", "closed"} => monitor = "off"


\* A statement in flight can be cancelled: the cancel function registered for
\* the connection's key is the one of its context, also when cursors that
\* share the key were opened or closed before.
CancelReachesStatement == phase = "query" => sess.reg = "q"

\* Execute repeats a RowDescription only for a client that did not ask for
\* it: a portal bound after the statement was described counts as described,
\* and one that counts as described has been.
DescribedOnce ==
  \A p \in Portals :
    (portals[p] # None /\ heap[portals[p].obj].kind = "select") =>
      /\ portals[p].late => portals[p].described
      /\ portals[p].described => heap[portals[p].obj].seen

\* A connection goes back to the shared pool without its client's
\* transaction.
ReturnedClean == phase = "closed" => ~sess.user

\* When the client disconnects, the connection ends, whatever statement was
\* running: the monitor's cancellation is what stops it.
DisconnectClosed == peer = "gone" => phase = "closed"


=============================================================================
