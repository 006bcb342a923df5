------------------------------ MODULE MCWorkers ------------------------------
(***************************************************************************)
(* What answers calls on and beside a worker, for TLC: a behaviour is one  *)
(* of WorkerProcess (wp), FlightSession (fs) or CacheProxy (ca), as `which'*)
(* says; the others stay in their initial state.                           *)
(***************************************************************************)
EXTENDS Naturals, Sequences, FiniteSets

CONSTANTS None, t1, t2, s1, s2

VARIABLES which,
          wpSharedWarmMode, wpWarm, wpFallback, wpMu, wpSem, wpConn, wpTemp,
          wpStale, wpAttached, wpInstalled, wpActivation, wpSessions, wpReserved,
          wpCall, wpUp,
          fsOpMu, fsActiveTxn, fsTxns, fsBegun, fsQueries, fsStreams, fsIdle,
          fsReaped, fsConn, fsCall, fsSent,
          caSetup, caFile, caOrder, caCur, caFlight, caReq, caBroken, caFaults

wpVars == <<wpSharedWarmMode, wpWarm, wpFallback, wpMu, wpSem, wpConn, wpTemp,
            wpStale, wpAttached, wpInstalled, wpActivation, wpSessions, wpReserved,
            wpCall, wpUp>>
fsVars == <<fsOpMu, fsActiveTxn, fsTxns, fsBegun, fsQueries, fsStreams, fsIdle,
            fsReaped, fsConn, fsCall, fsSent>>
caVars == <<caSetup, caFile, caOrder, caCur, caFlight, caReq, caBroken, caFaults>>
vars == <<which, wpVars, fsVars, caVars>>
------------------------------------------------------------------------------
\* Two activations by one control plane, the second with newer credentials, and
\* one by the next owner.
WpPayloads == { [cp |-> "a", epoch |-> 1, creds |-> 1],
                [cp |-> "a", epoch |-> 1, creds |-> 2],
                [cp |-> "b", epoch |-> 2, creds |-> 3] }

Wp == INSTANCE WorkerProcess WITH
  Threads <- {t1, t2}, Tokens <- {s1, s2}, Payloads <- WpPayloads,
  First <- [cp |-> "a", epoch |-> 1, creds |-> 1], MaxSessions <- 2,
  Modes <- BOOLEAN, None <- None, sharedWarmMode <- wpSharedWarmMode,
  warm <- wpWarm, fallback <- wpFallback, mu <- wpMu, sem <- wpSem, conn <- wpConn,
  temp <- wpTemp, stale <- wpStale, attached <- wpAttached,
  installed <- wpInstalled, activation <- wpActivation, sessions <- wpSessions,
  reserved <- wpReserved, call <- wpCall, up <- wpUp

Fs == INSTANCE FlightSession WITH
  Calls <- {"c1", "c2"}, MaxCalls <- 3, MaxTxns <- 1, MaxHandles <- 1,
  MaxTables <- 1, opMu <- fsOpMu, activeTxn <- fsActiveTxn, txns <- fsTxns,
  begun <- fsBegun, queries <- fsQueries, streams <- fsStreams, idle <- fsIdle,
  reaped <- fsReaped, conn <- fsConn, call <- fsCall, sent <- fsSent

R(n, k, kind) == [node |-> n, key |-> k, kind |-> kind]

Cache(n, size, max, nf, reqs) ==
  [nodes |-> n, size |-> size, max |-> max, faults |-> nf, reqs |-> reqs]

\* One key wanted three times; two keys that do not fit together; two nodes that
\* ask each other; what is not cached, beside what is.
CaSetups ==
  { Cache(1, <<2>>, 2, 1, <<R(1, 1, "get"), R(1, 1, "get"), R(1, 1, "get")>>),
    Cache(1, <<2, 1>>, 2, 1, <<R(1, 1, "get"), R(1, 2, "get"), R(1, 1, "get")>>),
    Cache(2, <<2>>, 2, 1, <<R(1, 1, "get"), R(2, 1, "get"), R(1, 1, "get")>>),
    Cache(1, <<2>>, 1, 1, <<R(1, 1, "connect"), R(1, 1, "forward"), R(1, 1, "get")>>) }

Ca == INSTANCE CacheProxy WITH
  Setups <- CaSetups, setup <- caSetup, file <- caFile, order <- caOrder,
  cur <- caCur, flight <- caFlight, req <- caReq, broken <- caBroken,
  faults <- caFaults
------------------------------------------------------------------------------
Init ==
  /\ which \in {"wp", "fs", "ca"}
  /\ Wp!Init /\ Fs!Init /\ Ca!Init
  /\ which # "wp" => wpSharedWarmMode
  /\ which # "ca" => caSetup = CHOOSE s \in CaSetups : TRUE

Next ==
  \/ which = "wp" /\ Wp!Next /\ UNCHANGED <<which, fsVars, caVars>>
  \/ which = "fs" /\ Fs!Next /\ UNCHANGED <<which, wpVars, caVars>>
  \/ which = "ca" /\ Ca!Next /\ UNCHANGED <<which, wpVars, fsVars>>

\* The fairness of the specifications, for the one that runs.
Fairness ==
  /\ WF_wpVars(which = "wp" /\ (Wp!WarmupStart \/ Wp!Warmup))
  /\ \A t \in {t1, t2} : SF_wpVars(which = "wp" /\ Wp!Step(t))
  /\ \A c \in {"c1", "c2"} : /\ WF_fsVars(which = "fs" /\ Fs!Step(c))
                             /\ WF_fsVars(which = "fs" /\ Fs!Request(c))
  /\ WF_fsVars(which = "fs" /\ Fs!Elapse) /\ WF_fsVars(which = "fs" /\ Fs!reapIdle)
  /\ WF_fsVars(which = "fs" /\ Fs!Age(1))
  /\ \A r \in Ca!AllReqs : WF_caVars(which = "ca" /\ r \in Ca!Reqs /\ Ca!Step(r))

Spec == Init /\ [][Next]_vars /\ Fairness
------------------------------------------------------------------------------

\* WorkerProcess: the committed activation names credentials DuckDB was given.
CommittedInstalled == Wp!CommittedInstalled

\* WorkerProcess: a repetition of the committed activation is not refused.
DuplicateAccepted == Wp!DuplicateAccepted

\* FlightSession: what runs beside a client's calls spares what the client uses:
\* the recovery never rolls a client's transaction back, and the reaper never
\* takes a session from under a stream.
InUseSpared == Fs!RecoverySparesTxn /\ Fs!ReapSparesStreams

\* What happens in the end: health checks and CreateSession calls are answered
\* (WorkerProcess), every call is answered and the session left alone is reaped
\* (FlightSession), every request is answered and a half-closed tunnel ends
\* (CacheProxy).
WorkersProgress ==
  \A t \in {t1, t2} : []<>(/\ which = "wp" => Wp!CallAnswered(t)
                           /\ which = "fs" => Fs!QuietSessionReaped
                           /\ which = "ca" => Ca!RequestsEnded)
==============================================================================
