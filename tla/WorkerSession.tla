---------------------------- MODULE WorkerSession ----------------------------
(***************************************************************************)
(* One session of a worker: the Flight SQL handlers of                     *)
(* duckdbservice/flight_handler.go and copy_from_stdin.go over the single  *)
(* DuckDB connection of the session, with the retries of transient.go, the *)
(* reaper of idle transactions and the credential refresh.  Every attempt  *)
(* at a statement is a step of its own.                                    *)
(*                                                                         *)
(* Two kinds of client use a session.  The control plane's FlightExecutor  *)
(* ("sql") sends one statement at a time, transactions as SQL text, and    *)
(* may abandon a call and go on.  A Flight SQL client ("flight") has       *)
(* several calls in flight, transaction ids, and gives the id of its open  *)
(* transaction with every statement.                                       *)
(***************************************************************************)
EXTENDS Integers, FiniteSets

CONSTANTS Calls,                \* goroutines of gRPC calls
          MaxTxns,              \* bound on the Flight transactions begun
          MaxHandles,           \* bound on the query handles alive
          transientMaxRetries, conflictMaxRetries,
          Protos,               \* kinds of client: {"sql", "flight"}
          RefreshProtos         \* those whose sessions refresh credentials

VARIABLES proto,        \* the kind of client this session has
          conn,         \* DuckDB's transaction: [tx, owner]
          sqlTxActive,  \* Session.sqlTxActive
          txns,         \* Session.txns: keys that can be looked up
          done,         \* sql.Tx values that were committed or rolled back
          stale,        \* transactions not used for txnIdleTimeout
          begun,        \* number of Flight transactions begun
          handles,      \* Session.queries: id -> [txn, empty]
          call,         \* [Calls -> the state of one gRPC call]
          client,       \* the SQL transaction the client was promised
          held,         \* the transaction ids the client holds
          broken        \* transactions in which the client saw a failure

vars == <<proto, conn, sqlTxActive, txns, done, stale, begun, handles, call, client, held, broken>>
server == <<sqlTxActive, txns, done, stale, begun, handles>>
view == <<client, held, broken>>

Keys == 1 .. MaxTxns
SQLTx == 0                      \* the owner of a transaction begun in SQL
Auto == MaxTxns + 1             \* DuckLake's own, left behind by autocommit
NoTx == [tx |-> "none", owner |-> SQLTx]
Idle == [pc |-> "idle", op |-> "", stmt |-> "", txn |-> SQLTx, inTx |-> FALSE,
         promised |-> FALSE, tries |-> 0, h |-> 0]

Init ==
  /\ proto \in Protos
  /\ conn = NoTx
  /\ sqlTxActive = FALSE /\ txns = {} /\ done = {} /\ stale = {} /\ begun = 0
  /\ handles = {}
  /\ call = [c \in Calls |-> Idle]
  /\ client = "none" /\ held = {} /\ broken = {}

-----------------------------------------------------------------------------
(* DuckDB and database/sql.                                                *)

\* What one execution of a statement may answer, and what it leaves.  A
\* transient failure ends or aborts the transaction it hits, and in autocommit
\* may leave DuckLake's own one aborted; COMMIT may meet a conflict.
DB(stmt) ==
  LET stuck == [tx |-> "aborted", owner |-> Auto]
      abort == [conn EXCEPT !.tx = "aborted"]
      R(r, s) == [res |-> r, conn |-> s]
  IN CASE stmt = "begin" /\ conn.tx = "none" ->
            {R("ok", [tx |-> "open", owner |-> SQLTx]), R("transient", NoTx)}
       [] stmt = "begin" /\ conn.tx = "open" -> {R("error", conn)}
       [] stmt \in {"commit", "rollback"} /\ conn.tx = "none" -> {R("error", conn)}
       [] stmt = "rollback" /\ conn.tx # "none" -> {R("ok", NoTx)}
       [] stmt = "commit" /\ conn.tx = "open" ->
            {R("ok", NoTx), R("conflict", NoTx), R("transient", NoTx)}
       [] stmt = "commit" /\ conn.tx = "aborted" -> {R("ok", NoTx), R("aborted", conn)}
       [] stmt = "work" /\ conn.tx = "none" ->
            {R(r, NoTx) : r \in {"ok", "error", "transient", "conflict"}} \cup {R("transient", stuck)}
       [] stmt = "work" /\ conn.tx = "open" ->
            {R("ok", conn), R("error", conn), R("error", abort), R("conflict", abort),
             R("transient", NoTx), R("transient", abort)}
       [] OTHER -> {R("aborted", conn)}

\* The same through a transaction's sql.Tx, which refuses once it is done.
TxDB(txn, stmt) ==
  IF txn \in done THEN {[res |-> "error", conn |-> conn]} ELSE DB(stmt)

-----------------------------------------------------------------------------
(* Bookkeeping of the calls and of what the client knows.                  *)

Free(c) == call[c].pc = "idle"
At(c, pc) == call[c].pc = pc

\* The control plane has one statement at a time.  A Flight client waits for
\* the answer when it begins or ends a transaction: every statement of the
\* session shares one connection.
MaySend(c) ==
  /\ Free(c)
  /\ proto = "sql" => \A d \in Calls : Free(d)
  /\ proto = "flight" => \A d \in Calls : call[d].pc \notin {"list", "end"}

\* What the client puts into a statement.
MyTxn == IF held = {} THEN {SQLTx} ELSE held

FreeHandles == (1 .. MaxHandles) \ {h.id : h \in handles}

Start(c, op, stmt, txn, h) ==
  call' = [call EXCEPT ![c] =
    [pc |-> "run", op |-> op, stmt |-> stmt, txn |-> txn, h |-> h, tries |-> 0,
     inTx |-> txn # SQLTx \/ sqlTxActive, promised |-> client # "none"]]

\* The client learns the outcome of its own call.
Learn(c, ok, how) ==
  LET r == call[c]
  IN IF r.stmt = "" THEN UNCHANGED view
     ELSE /\ client' = IF r.stmt = "begin" /\ ok THEN how
                       ELSE IF r.stmt \in {"commit", "rollback"} THEN "none" ELSE client
          /\ broken' = IF r.stmt \in {"commit", "rollback"} THEN broken \ {SQLTx}
                       ELSE IF ok \/ (r.txn = SQLTx /\ client = "none") THEN broken
                       ELSE broken \cup {r.txn}
          /\ UNCHANGED held

Answer(c, ok, how) == Learn(c, ok, how) /\ call' = [call EXCEPT ![c] = Idle]

-----------------------------------------------------------------------------
(* transient.go                                                            *)

isTransientDuckLakeError(res) == res \in {"transient", "aborted"}

isDuckLakeTransactionConflict(res) == res = "conflict"

isTransactionAborted(res) == res = "aborted"

\* BEGIN is not one of them.
isTransactionControlStmt(stmt) == stmt \in {"commit", "rollback"}

\* Looked at once, after the attempts of retryOnTransient.
trackSQLTransactionState(r, res) ==
  sqlTxActive' = IF r.op # "update" THEN sqlTxActive
                 ELSE IF r.stmt = "begin" THEN sqlTxActive \/ res = "ok"
                 ELSE IF isTransactionControlStmt(r.stmt) THEN FALSE
                 ELSE sqlTxActive

\* Mutant: a statement is retried whether or not it is in a transaction.
RetryEverywhere(r) == r.op \in {"info", "get", "update"}

\* Autocommit statements only, and neither COMMIT nor ROLLBACK.
Retryable(r) ==
  /\ r.op \in {"info", "get", "update"}
  /\ ~r.inTx
  /\ ~isTransactionControlStmt(r.stmt)

\* Where an attempt that failed for good goes next: to the conflict retries,
\* to the recovery of an aborted transaction, or back to the client.
AfterFailure(r, res) ==
  IF r.op \notin {"info", "get", "update"} THEN "fail"
  ELSE IF r.txn = SQLTx /\ isDuckLakeTransactionConflict(res) /\ r.pc = "run" THEN "conflict"
  ELSE IF ~r.inTx /\ isTransactionAborted(res) /\ r.pc # "again" THEN "rollback"
  ELSE "fail"

\* What a call does with the rows or the schema of its statement.
Deliver(c) ==
  LET r == call[c]
  IN handles' = CASE r.op \in {"info", "prep"} ->
                       handles \cup {[id |-> r.h, txn |-> r.txn, empty |-> FALSE]}
                  [] r.op = "get" -> {h \in handles : h.id # r.h}
                  [] OTHER -> handles

Fail(c) ==
  /\ handles' = IF call[c].op = "get" THEN {h \in handles : h.id # call[c].h} ELSE handles
  /\ Answer(c, FALSE, "none")

\* The step after an attempt: back to the client with ok, back to it with the
\* error, or on to pc.
Proceed(c, a, pc, how) ==
  /\ conn' = a.conn
  /\ CASE a.res = "ok" -> Deliver(c) /\ Answer(c, TRUE, how)
       [] a.res # "ok" /\ pc = "fail" -> Fail(c)
       [] OTHER -> /\ call' = [call EXCEPT ![c].pc = pc, ![c].tries = IF At(c, pc) THEN @ + 1 ELSE 0]
                   /\ UNCHANGED <<handles, view>>

\* One attempt, and another one after a transient failure in autocommit.
retryOnTransient(c) ==
  /\ At(c, "run")
  /\ \E a \in TxDB(call[c].txn, call[c].stmt) :
       LET r == call[c]
           again == Retryable(r) /\ isTransientDuckLakeError(a.res) /\ r.tries < transientMaxRetries
       IN /\ Proceed(c, a, IF again THEN "run" ELSE AfterFailure(r, a.res), "tx")
          /\ IF again THEN UNCHANGED sqlTxActive ELSE trackSQLTransactionState(r, a.res)
  /\ UNCHANGED <<proto, txns, done, stale, begun>>

retryOnConflict(c) ==
  /\ At(c, "conflict")
  /\ \E a \in DB(call[c].stmt) :
       LET r == call[c]
           again == isDuckLakeTransactionConflict(a.res) /\ r.tries + 1 < conflictMaxRetries
       IN Proceed(c, a, IF again THEN "conflict" ELSE AfterFailure(r, a.res), "late")
  /\ UNCHANGED <<proto, sqlTxActive, txns, done, stale, begun>>

\* ROLLBACK, with a context of its own, then one more attempt.
recoverAbortedTransaction(c) ==
  /\ At(c, "rollback")
  /\ \E a \in DB("rollback") :
       /\ conn' = a.conn
       /\ IF a.res = "ok"
            THEN call' = [call EXCEPT ![c].pc = "again"] /\ UNCHANGED <<handles, view>>
            ELSE Fail(c)
  /\ UNCHANGED <<proto, sqlTxActive, txns, done, stale, begun>>

RecoveryRetry(c) ==
  /\ At(c, "again")
  /\ \E a \in TxDB(call[c].txn, call[c].stmt) : Proceed(c, a, "fail", "late")
  /\ UNCHANGED <<proto, sqlTxActive, txns, done, stale, begun>>

-----------------------------------------------------------------------------
(* The handlers up to their first attempt.                                 *)

\* A transaction id that is no longer listed is answered with NotFound.
getOpenTxn(txn) == txn = SQLTx \/ txn \in txns

Touch(txn) == stale' = stale \ {txn}

\* The client is told that its transaction is gone.
NotFound(txn) ==
  /\ broken' = broken \cup {txn}
  /\ UNCHANGED <<proto, conn, server, call, client, held>>

\* Schema inference; an empty query only gets its handle.
GetFlightInfoStatement(c) ==
  /\ MaySend(c) /\ FreeHandles # {}
  /\ \E txn \in MyTxn, empty \in BOOLEAN, h \in FreeHandles :
       \/ /\ empty
          /\ handles' = handles \cup {[id |-> h, txn |-> SQLTx, empty |-> TRUE]}
          /\ UNCHANGED <<proto, conn, sqlTxActive, txns, done, stale, begun, call, view>>
       \/ ~empty /\ ~getOpenTxn(txn) /\ NotFound(txn)
       \/ /\ ~empty /\ getOpenTxn(txn)
          /\ Touch(txn) /\ Start(c, "info", "work", txn, h)
          /\ UNCHANGED <<proto, conn, sqlTxActive, txns, done, begun, handles, view>>

\* The rows of a handle, in the transaction it was made in.  The handle goes
\* with the stream, except for an empty query.
DoGetStatement(c) ==
  /\ MaySend(c)
  /\ \E h \in handles :
       /\ ~h.empty /\ h.txn \in MyTxn
       /\ IF getOpenTxn(h.txn)
            THEN /\ Touch(h.txn) /\ Start(c, "get", "work", h.txn, h.id)
                 /\ UNCHANGED <<proto, conn, sqlTxActive, txns, done, begun, handles, view>>
            ELSE NotFound(h.txn)

\* Updates, and the SQL transaction statements of the control plane.
DoPutCommandStatementUpdate(c) ==
  /\ MaySend(c)
  /\ \E txn \in MyTxn, stmt \in {"begin", "commit", "rollback", "work"} :
       /\ stmt # "work" => proto = "sql"
       /\ stmt = "begin" => client = "none"
       /\ stmt \in {"commit", "rollback"} => client # "none"
       /\ IF getOpenTxn(txn)
            THEN /\ Touch(txn) /\ Start(c, "update", stmt, txn, 0)
                 /\ UNCHANGED <<proto, conn, sqlTxActive, txns, done, begun, handles, view>>
            ELSE NotFound(txn)

\* A prepared statement: one attempt at its schema, no retries.
CreatePreparedStatement(c) ==
  /\ MaySend(c) /\ FreeHandles # {}
  /\ \E txn \in MyTxn, h \in FreeHandles :
       IF getOpenTxn(txn)
         THEN /\ Touch(txn) /\ Start(c, "prep", "work", txn, h)
              /\ UNCHANGED <<proto, conn, sqlTxActive, txns, done, begun, handles, view>>
         ELSE NotFound(txn)

ClosePreparedStatement(c) ==
  /\ MaySend(c)
  /\ \E h \in handles : handles' = handles \ {h}
  /\ UNCHANGED <<proto, conn, sqlTxActive, txns, done, stale, begun, call, view>>

\* Its rows: one attempt, and the handle stays.
DoGetPreparedStatement(c) ==
  /\ MaySend(c)
  /\ \E h \in handles :
       /\ ~h.empty /\ h.txn \in MyTxn
       /\ IF getOpenTxn(h.txn)
            THEN /\ Touch(h.txn) /\ Start(c, "getprep", "work", h.txn, h.id)
                 /\ UNCHANGED <<proto, conn, sqlTxActive, txns, done, begun, handles, view>>
            ELSE NotFound(h.txn)

\* The transaction a metadata query runs in: some listed one, or none.
getActiveTxn == IF txns = {} THEN {SQLTx} ELSE txns

\* The list of schemas.
DoGetDBSchemas(c) ==
  /\ MaySend(c)
  /\ \E txn \in getActiveTxn : Touch(txn) /\ Start(c, "schemas", "work", txn, 0)
  /\ UNCHANGED <<proto, conn, sqlTxActive, txns, done, begun, handles, view>>

\* The list of tables; the probe of a table's schema is one more of these.
DoGetTables(c) ==
  /\ MaySend(c)
  /\ \E txn \in getActiveTxn : Touch(txn) /\ Start(c, "meta", "work", txn, 0)
  /\ UNCHANGED <<proto, conn, sqlTxActive, txns, done, begun, handles, view>>

\* COPY FROM STDIN through a spool file: one attempt on the bare connection.
doCopyFromStdin(c) ==
  /\ MaySend(c) /\ proto = "sql"
  /\ Start(c, "copy", "work", SQLTx, 0)
  /\ UNCHANGED <<proto, conn, server, view>>

-----------------------------------------------------------------------------
(* Flight SQL transactions.                                                *)

Alive == (1 .. begun) \ done            \* sql.Tx values the driver has open

\* BeginTx on the session's connection, before its key is listed.
BeginTransaction(c) ==
  /\ proto = "flight" /\ held = {} /\ \A d \in Calls : Free(d)
  /\ begun < MaxTxns
  /\ IF Alive = {} /\ conn.tx = "none"
       THEN /\ begun' = begun + 1
            /\ conn' = [tx |-> "open", owner |-> begun + 1]
            /\ call' = [call EXCEPT ![c] = [Idle EXCEPT !.pc = "list", !.txn = begun + 1]]
       ELSE UNCHANGED <<begun, conn, call>>
  /\ UNCHANGED <<proto, sqlTxActive, txns, done, stale, handles, view>>

ListTransaction(c) ==
  /\ At(c, "list")
  /\ txns' = txns \cup {call[c].txn} /\ held' = held \cup {call[c].txn}
  /\ call' = [call EXCEPT ![c] = Idle]
  /\ UNCHANGED <<proto, conn, sqlTxActive, done, stale, begun, handles, client, broken>>

\* The key leaves the table under the lock, the transaction ends after it.
EndTransaction(c) ==
  /\ MaySend(c)
  /\ \E k \in held, stmt \in {"commit", "rollback"} :
       /\ held' = held \ {k}
       /\ IF k \in txns
            THEN /\ txns' = txns \ {k}
                 /\ call' = [call EXCEPT ![c] = [Idle EXCEPT !.pc = "end", !.op = stmt, !.txn = k]]
                 /\ UNCHANGED broken
            ELSE broken' = broken \cup {k} /\ UNCHANGED <<txns, call>>
       /\ Touch(k)
  /\ UNCHANGED <<proto, conn, sqlTxActive, done, begun, handles, client>>

FinishTransaction(c) ==
  /\ At(c, "end")
  /\ \E a \in TxDB(call[c].txn, call[c].op) :
       /\ conn' = a.conn
       /\ broken' = IF a.res = "ok" THEN broken ELSE broken \cup {call[c].txn}
  /\ done' = done \cup {call[c].txn}
  /\ call' = [call EXCEPT ![c] = Idle]
  /\ UNCHANGED <<proto, sqlTxActive, txns, stale, begun, handles, client, held>>

\* txnIdleTimeout passes without a call that names the transaction.
Elapse(k) ==
  /\ k \in txns \ stale
  /\ stale' = stale \cup {k}
  /\ UNCHANGED <<proto, conn, sqlTxActive, txns, done, begun, handles, call, view>>

\* The reaper rolls an idle transaction back under the session's lock.
reapLoop(k) ==
  /\ k \in txns \cap stale
  /\ conn' = IF k \notin done /\ conn.tx # "none" THEN NoTx ELSE conn
  /\ done' = done \cup {k} /\ txns' = txns \ {k} /\ stale' = stale \ {k}
  /\ UNCHANGED <<proto, sqlTxActive, begun, handles, call, view>>

-----------------------------------------------------------------------------
(* The control plane abandons a call: its statement may still run.         *)

\* Client cancellation: mergedContext ends the call at the control plane.  The
\* statement at work may have had its effect; no attempt follows it.
Cancel(c) ==
  /\ proto = "sql" /\ ~Free(c)
  /\ \E a \in DB(IF At(c, "rollback") THEN "rollback" ELSE call[c].stmt) :
       /\ conn' = a.conn
       /\ IF At(c, "run") THEN trackSQLTransactionState(call[c], a.res) ELSE UNCHANGED sqlTxActive
  /\ Fail(c)
  /\ UNCHANGED <<proto, txns, done, stale, begun>>

\* The tick of StartCredentialRefresh: a statement about a local secret on the
\* session's connection, without effect on its transaction.  When it finds that
\* one aborted and no Flight transaction is listed: ROLLBACK, and once more.
StartCredentialRefresh ==
  /\ proto \in RefreshProtos
  /\ conn.tx = "aborted" /\ txns = {}
  /\ conn' = NoTx
  /\ UNCHANGED <<proto, server, call, view>>

-----------------------------------------------------------------------------
Step(c) ==
  \/ retryOnTransient(c) \/ retryOnConflict(c)
  \/ recoverAbortedTransaction(c) \/ RecoveryRetry(c)
  \/ ListTransaction(c) \/ FinishTransaction(c)

Next ==
  \/ \E c \in Calls :
       \/ Step(c) \/ Cancel(c)
       \/ GetFlightInfoStatement(c) \/ DoGetStatement(c) \/ DoPutCommandStatementUpdate(c)
       \/ CreatePreparedStatement(c) \/ ClosePreparedStatement(c) \/ DoGetPreparedStatement(c)
       \/ DoGetDBSchemas(c) \/ DoGetTables(c) \/ doCopyFromStdin(c)
       \/ BeginTransaction(c) \/ EndTransaction(c)
  \/ \E k \in Keys : Elapse(k) \/ reapLoop(k)
  \/ StartCredentialRefresh

Spec == Init /\ [][Next]_vars

-----------------------------------------------------------------------------
(* Properties.                                                             *)

\* Types; a key the handlers can look up has a live transaction behind it, so
\* the table is emptied before, or together with, the end of a transaction.
TypeOK ==
  /\ proto \in Protos
  /\ conn.tx \in {"none", "open", "aborted"} /\ conn.owner \in 0 .. Auto
  /\ sqlTxActive \in BOOLEAN
  /\ txns \subseteq Keys /\ stale \subseteq txns /\ done \subseteq Keys /\ begun \in 0 .. MaxTxns
  /\ txns \cap done = {}
  /\ \A c \in Calls : /\ call[c].tries \in 0 .. transientMaxRetries + conflictMaxRetries
                      /\ call[c].h \in 0 .. MaxHandles
  /\ client \in {"none", "tx", "late"}

\* Call c is answered with success by a statement that DuckDB ran.
Succeeds(c) ==
  /\ call[c].pc \in {"run", "conflict", "again"} /\ call[c].stmt = "work"
  /\ call'[c] = Idle /\ broken' = broken

\* The statement of call c was sent inside a transaction of which the client
\* has seen nothing fail.
InTransaction(c) ==
  IF call[c].txn # SQLTx THEN call[c].txn \notin broken
  ELSE call[c].promised /\ SQLTx \notin broken

\* A statement that the client sent inside a transaction, and that is answered
\* with success, ran inside that transaction: the retries, the recovery, the
\* reaper and the refresh never let it run in autocommit behind the client's
\* back.  BEGINs that only succeeded on a late attempt are the next property's.
StatementsStayInTransaction ==
  [][\A c \in Calls : Succeeds(c) /\ InTransaction(c) /\ client # "late"
       => conn.tx = "open" /\ conn.owner = call[c].txn]_vars

\* The same with every BEGIN that was answered with success.
EveryBeginStarts ==
  [][\A c \in Calls : Succeeds(c) /\ InTransaction(c)
       => conn.tx = "open" /\ conn.owner = call[c].txn]_vars

=============================================================================
