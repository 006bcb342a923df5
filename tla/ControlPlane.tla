---------------------------- MODULE ControlPlane ----------------------------
(***************************************************************************)
(* The life of a control-plane process and of the connections it accepts:  *)
(* the upgrade that hands the listening socket to a successor (tableflip), *)
(* the port the successor needs, the drain of the old process, SIGTERM in  *)
(* both deployments, and the replica's row in the runtime store.           *)
(***************************************************************************)
EXTENDS Naturals, FiniteSets

CONSTANT Setups   \* [remote, conns: connection -> "pg" or "flight",
                  \*  gens (processes one after another), timeout (the drain
                  \*  has one), faults, terms (SIGTERMs an operator sends)]

VARIABLES setup,
          proc,     \* the processes
          conn,     \* each connection: where its handler is, and its process
          port,     \* who holds the port of the ACME challenges, 0 for nobody
          tracker,  \* draining flag, the row, and the heartbeat in flight
          late,     \* connections counted by wg after a drain stopped waiting
          lost,     \* processes whose ACME port was still taken when they recovered
          cut,      \* connections ended by the end of their process
          faults, terms

vars == <<setup, proc, conn, port, tracker, late, lost, cut, faults, terms>>

Procs == 1..setup.gens
Conns == DOMAIN setup.conns

New == [st |-> "none",        \* none, boot, run, exited
        closed |-> FALSE,     \* its copy of the listening socket
        flight |-> "open",    \* Flight ingress: open, draining, shut
        upg |-> "idle",       \* handleUpgrade: idle, calling, killing
        exit |-> FALSE,       \* upg.Exit() is closed
        flag |-> FALSE,       \* upgradeDraining
        main |-> "serve",     \* drainAfterUpgrade: serve, wait, pool
        term |-> "none",      \* SIGTERM: none, sent, mark, stop, wait, pool
        gaveUp |-> FALSE]     \* a drain timed out, or the process was killed

Init ==
  /\ setup \in Setups
  /\ proc = [p \in Procs |-> IF p = 1 THEN [New EXCEPT !.st = "run"] ELSE New]
  /\ conn = [c \in Conns |-> [pc |-> "none", p |-> 0]]
  /\ port = 1
  /\ tracker = [flag |-> FALSE, row |-> "active", hb |-> "idle"]
  /\ late = {} /\ lost = {} /\ cut = {} /\ faults = setup.faults /\ terms = setup.terms

Set(p, r) == proc' = [proc EXCEPT ![p] = r]
Fault == faults > 0 /\ faults' = faults - 1
Runs(p) == proc[p].st = "run"

-----------------------------------------------------------------------------
(* Connections.                                                            *)

Move(c, pc) == conn' = [conn EXCEPT ![c].pc = pc]
ConnRest == <<setup, proc, port, tracker, lost, cut, faults, terms>>

\* Any process with an open copy of the socket may take a connection.
Accept(c, p) ==
  /\ conn[c].pc = "none" /\ Runs(p)
  /\ IF setup.conns[c] = "pg"
     THEN ~proc[p].closed /\ conn' = [conn EXCEPT ![c] = [pc |-> "accepted", p |-> p]]
     ELSE proc[p].flight = "open" /\ conn' = [conn EXCEPT ![c] = [pc |-> "serve", p |-> p]]
  /\ UNCHANGED <<late, ConnRest>>

\* wg.Add comes after Accept.
Counted(c) ==
  LET q == proc[conn[c].p] IN q.main # "pool" /\ q.term # "pool"

Handle(c) ==
  /\ conn[c].pc = "accepted" /\ Move(c, "startup")
  /\ late' = IF Counted(c) THEN late ELSE late \cup {c}
  /\ UNCHANGED ConnRest

\* Rate limit, TLS, password, routing: the client is turned away.
Rejected(c) ==
  /\ conn[c].pc = "startup" /\ Move(c, "done")
  /\ UNCHANGED <<late, ConnRest>>

\* A draining control plane looks for no worker.
Gate(c) ==
  /\ conn[c].pc = "startup" /\ ~tracker.flag /\ Move(c, "create")
  /\ UNCHANGED <<late, ConnRest>>

CreateSession(c) ==
  /\ conn[c].pc = "create" /\ \E pc \in {"serve", "done"} : Move(c, pc)
  /\ UNCHANGED <<late, ConnRest>>

Disconnect(c) ==
  /\ conn[c].pc = "serve" /\ Move(c, "done")
  /\ UNCHANGED <<late, ConnRest>>

Busy == {"startup", "create", "serve"}
Mine(p, kind) == {c \in Conns : conn[c].p = p /\ conn[c].pc \in Busy /\ setup.conns[c] = kind}

\* os.Exit: the connections of the process end with it.
Exit(p, abrupt) ==
  /\ Set(p, [New EXCEPT !.st = "exited", !.gaveUp = proc[p].gaveUp \/ abrupt])
  /\ cut' = cut \cup Mine(p, "pg") \cup Mine(p, "flight")
  /\ conn' = [c \in Conns |-> IF conn[c].p = p /\ conn[c].pc # "done"
                              THEN [conn[c] EXCEPT !.pc = "done"] ELSE conn[c]]
  /\ port' = IF port = p THEN 0 ELSE port

\* flight.Shutdown closes the Flight sessions.
FlightShut(p) ==
  conn' = [c \in Conns |-> IF c \in Mine(p, "flight") THEN [conn[c] EXCEPT !.pc = "done"]
                           ELSE conn[c]]

-----------------------------------------------------------------------------
(* handleUpgrade (SIGUSR1, process backend).                               *)

\* The port is given up, and tableflip is asked for a successor.
handleUpgrade(p) ==
  /\ ~setup.remote /\ Runs(p) /\ proc[p].upg = "idle" /\ ~proc[p].exit /\ p < setup.gens
  /\ Set(p, [proc[p] EXCEPT !.upg = "calling"])
  /\ port' = IF port = p THEN 0 ELSE port
  /\ UNCHANGED <<setup, conn, tracker, late, lost, cut, faults, terms>>

ParentGone(p) == p > 1 => proc[p - 1].st = "exited"

Spawn(p) ==
  /\ Runs(p) /\ proc[p].upg = "calling" /\ ParentGone(p) /\ proc[p + 1].st = "none"
  /\ Set(p + 1, [New EXCEPT !.st = "boot"])
  /\ UNCHANGED <<setup, conn, port, tracker, late, lost, cut, faults, terms>>

\* killStuckParent: SIGTERM, and after the deadline SIGKILL.
TermParent(p) ==
  /\ Runs(p) /\ proc[p].upg = "calling" /\ ~ParentGone(p)
  /\ proc' = [proc EXCEPT ![p].upg = "killing",
                          ![p - 1].term = IF @ = "none" THEN "sent" ELSE @]
  /\ UNCHANGED <<setup, conn, port, tracker, late, lost, cut, faults, terms>>

KillParent(p) ==
  /\ Runs(p) /\ proc[p].upg = "killing" /\ ~ParentGone(p)
  /\ LET q == p - 1
     IN  /\ proc' = [proc EXCEPT ![q] = [New EXCEPT !.st = "exited", !.gaveUp = TRUE],
                                 ![p].upg = "calling"]
         /\ cut' = cut \cup Mine(q, "pg") \cup Mine(q, "flight")
         /\ conn' = [c \in Conns |-> IF conn[c].p = q THEN [conn[c] EXCEPT !.pc = "done"]
                                     ELSE conn[c]]
  /\ UNCHANGED <<setup, port, tracker, late, lost, faults, terms>>

ParentExited(p) ==
  /\ Runs(p) /\ proc[p].upg = "killing" /\ ParentGone(p)
  /\ Set(p, [proc[p] EXCEPT !.upg = "calling"])
  /\ UNCHANGED <<setup, conn, port, tracker, late, lost, cut, faults, terms>>

Booting(q) == proc[q].st = "boot"

\* NewACMEManager: the successor exits when the port is taken.
BindACME(q) ==
  /\ Booting(q) /\ port = 0
  /\ port' = q
  /\ UNCHANGED <<setup, proc, conn, tracker, late, lost, cut, faults, terms>>

\* recoverAfterFailedReload takes back what handleUpgrade gave up, once, and only
\* if it is free by then.
recoverAfterFailedReload(p, free) == IF port = 0 \/ free THEN p ELSE 0

\* The successor has exited, or it is not ready in time: then tableflip kills it
\* and does not wait, so that its port may still be taken when the caller recovers.
UpgradeFails(p) ==
  /\ Runs(p) /\ proc[p].upg = "calling" /\ Fault
  /\ ~proc[p].exit /\ proc[p + 1].st \in {"none", "boot"}
  /\ proc' = [proc EXCEPT ![p].upg = "idle", ![p + 1] = New]
  /\ \E free \in BOOLEAN :
       /\ port' = recoverAfterFailedReload(p, free)
       /\ lost' = IF port = p + 1 /\ ~free THEN lost \cup {p} ELSE lost
  /\ UNCHANGED <<setup, conn, tracker, late, cut, terms>>

\* upg.Ready: the successor serves, and the main goroutine of the caller wakes.
Ready(q) ==
  /\ Booting(q) /\ port = q
  /\ proc' = [proc EXCEPT ![q].st = "run", ![q - 1].exit = TRUE]
  /\ UNCHANGED <<setup, conn, port, tracker, late, lost, cut, faults, terms>>

UpgradeReturns(p) ==
  /\ Runs(p) /\ proc[p].upg = "calling" /\ proc[p].exit
  /\ Set(p, [proc[p] EXCEPT !.upg = "idle", !.flag = TRUE])
  /\ UNCHANGED <<setup, conn, port, tracker, late, lost, cut, faults, terms>>

\* Mutant: the parent goes on before the successor is ready.
WakesEarly(p) == proc[p].upg = "calling"

Wakes(p) == proc[p].exit

\* drainAfterUpgrade: Flight is shut, the socket closed, the connections waited for.
drainAfterUpgrade(p) ==
  /\ Runs(p) /\ Wakes(p) /\ proc[p].main = "serve"
  /\ FlightShut(p)
  /\ Set(p, [proc[p] EXCEPT !.main = "wait", !.closed = TRUE, !.flight = "shut"])
  /\ UNCHANGED <<setup, port, tracker, late, lost, cut, faults, terms>>

\* Mutant: the handover has no time limit.
NoTimer(p) == FALSE

\* time.After, also when the timeout is zero.
HandoverTimer(p) == TRUE

AfterUpgrade(p) ==
  /\ Runs(p) /\ proc[p].main = "wait"
  /\ \/ Mine(p, "pg") = {} /\ Set(p, [proc[p] EXCEPT !.main = "pool"])
     \/ HandoverTimer(p) /\ Set(p, [proc[p] EXCEPT !.main = "pool", !.gaveUp = TRUE])
  /\ UNCHANGED <<setup, conn, port, tracker, late, lost, cut, faults, terms>>

\* ShutdownAll of the worker pool, and exit.
ExitAfterUpgrade(p) ==
  /\ Runs(p) /\ proc[p].main = "pool" /\ Exit(p, FALSE)
  /\ UNCHANGED <<setup, tracker, late, lost, faults, terms>>

-----------------------------------------------------------------------------
(* SIGTERM.                                                                *)

Terminate(p) ==
  /\ Runs(p) /\ terms > 0 /\ terms' = terms - 1
  /\ Set(p, [proc[p] EXCEPT !.term = IF @ = "none" THEN "sent" ELSE @])
  /\ UNCHANGED <<setup, conn, port, tracker, late, lost, cut, faults>>

\* The handler reads one signal: during an upgrade's drain it exits at once,
\* otherwise it shuts down.
HandleTerm(p) ==
  /\ Runs(p) /\ proc[p].term = "sent"
  /\ IF proc[p].flag
     THEN Exit(p, TRUE) /\ UNCHANGED tracker
     ELSE /\ Set(p, [proc[p] EXCEPT !.term = IF setup.remote THEN "mark" ELSE "stop"])
          /\ tracker' = IF setup.remote THEN [tracker EXCEPT !.flag = TRUE] ELSE tracker
          /\ UNCHANGED <<conn, cut, port>>
  /\ UNCHANGED <<setup, late, lost, faults, terms>>

\* The second half of MarkDraining; a failed write is only logged.
MarkDraining(p) ==
  /\ Runs(p) /\ proc[p].term = "mark"
  /\ Set(p, [proc[p] EXCEPT !.term = "stop"])
  /\ \/ tracker' = [tracker EXCEPT !.row = "draining"] /\ UNCHANGED faults
     \/ Fault /\ UNCHANGED tracker
  /\ UNCHANGED <<setup, conn, port, late, lost, cut, terms>>

\* shutdown shuts Flight at once, drainAndShutdown lets its sessions end.
stopAccepting(p) ==
  /\ Runs(p) /\ proc[p].term = "stop"
  /\ IF setup.remote
     THEN /\ Set(p, [proc[p] EXCEPT !.term = "wait", !.closed = TRUE, !.flight = "draining"])
          /\ UNCHANGED conn
     ELSE /\ Set(p, [proc[p] EXCEPT !.term = "wait", !.closed = TRUE, !.flight = "shut"])
          /\ FlightShut(p)
  /\ UNCHANGED <<setup, port, tracker, late, lost, cut, faults, terms>>


\* Both kinds of client have left.
Idle(p) == Mine(p, "pg") = {} /\ Mine(p, "flight") = {}

waitForDrain(p) ==
  /\ Runs(p) /\ proc[p].term = "wait"
  /\ \/ Idle(p) /\ Set(p, [proc[p] EXCEPT !.term = "pool"])
     \/ setup.remote /\ setup.timeout /\ Set(p, [proc[p] EXCEPT !.term = "pool", !.gaveUp = TRUE])
  /\ UNCHANGED <<setup, conn, port, tracker, late, lost, cut, faults, terms>>

shutdownRuntimeResources(p) ==
  /\ Runs(p) /\ proc[p].term = "pool" /\ Exit(p, FALSE)
  /\ UNCHANGED <<setup, tracker, late, lost, faults, terms>>

-----------------------------------------------------------------------------
(* The heartbeat of a replica: the state is read, then the row is written,  *)
(* or the write fails and is only logged.                                  *)

RowState == IF tracker.flag THEN "draining" ELSE "active"

Heartbeat ==
  /\ setup.remote /\ Runs(1)
  /\ \/ /\ tracker.hb = "idle" /\ tracker' = [tracker EXCEPT !.hb = RowState]
           /\ UNCHANGED faults
     \/ /\ tracker.hb # "idle"
        /\ \/ tracker' = [tracker EXCEPT !.row = tracker.hb, !.hb = "idle"] /\ UNCHANGED faults
           \/ tracker' = [tracker EXCEPT !.hb = "idle"] /\ Fault
  /\ UNCHANGED <<setup, proc, conn, port, late, lost, cut, terms>>

Upgrade(p) ==
  \/ Spawn(p) \/ TermParent(p) \/ KillParent(p) \/ ParentExited(p) \/ UpgradeReturns(p)

Drain(p) ==
  \/ drainAfterUpgrade(p) \/ AfterUpgrade(p) \/ ExitAfterUpgrade(p)

Term(p) ==
  \/ HandleTerm(p) \/ MarkDraining(p) \/ stopAccepting(p) \/ waitForDrain(p)
  \/ shutdownRuntimeResources(p)

Client(c) ==
  \/ \E p \in Procs : Accept(c, p)
  \/ Handle(c) \/ Rejected(c) \/ Gate(c) \/ CreateSession(c) \/ Disconnect(c)

Next ==
  \/ \E c \in Conns : Client(c)
  \/ \E p \in Procs :
       \/ handleUpgrade(p) \/ Upgrade(p) \/ UpgradeFails(p) \/ Drain(p)
       \/ BindACME(p) \/ Ready(p)
       \/ Terminate(p) \/ Term(p)
  \/ Heartbeat

AllProcs == 1..(CHOOSE n \in {s.gens : s \in Setups} : \A s \in Setups : s.gens <= n)

\* Goroutines go on, timers fire and heartbeats come; nothing is assumed of clients.
Fairness ==
  /\ \A p \in AllProcs : /\ WF_vars(p \in Procs /\ Drain(p))
                         /\ WF_vars(p \in Procs /\ Term(p))
  /\ WF_vars(Heartbeat)

Spec == Init /\ [][Next]_vars /\ Fairness

-----------------------------------------------------------------------------
\* Types of the processes, the listener and the upgrade.
TypeOK ==
  /\ setup \in Setups /\ faults \in 0..setup.faults /\ terms \in 0..setup.terms
  /\ proc \in [Procs -> [st : {"none", "boot", "run", "exited"}, closed : BOOLEAN,
                         flight : {"open", "draining", "shut"},
                         upg : {"idle", "calling", "killing"}, exit : BOOLEAN, flag : BOOLEAN,
                         main : {"serve", "wait", "pool"},
                         term : {"none", "sent", "mark", "stop", "wait", "pool"},
                         gaveUp : BOOLEAN]]
  /\ conn \in [Conns -> [pc : {"none", "accepted", "done"} \cup Busy, p : 0..setup.gens]]
  /\ port \in 0..setup.gens
  /\ tracker \in [flag : BOOLEAN, row : {"active", "draining"},
                  hb : {"idle", "active", "draining"}]
  /\ late \subseteq Conns /\ lost \subseteq Procs /\ cut \subseteq Conns

\* Through any sequence of upgrades, failed ones and stuck predecessors
\* included, some process has the listening socket open; only an operator's
\* SIGTERM closes the service.
SocketOpen ==
  terms = setup.terms =>
    \E p \in Procs : proc[p].st \in {"boot", "run"} /\ ~proc[p].closed

\* A process that serves and is not handing over holds the ACME port, also
\* after an upgrade that failed, unless the successor still had it when the
\* process tried, once, to take it back.
PortHeld ==
  \A p \in Procs :
    Runs(p) /\ proc[p].upg = "idle" /\ ~proc[p].exit /\ p \notin lost => port = p

\* A client is cut off only by a drain that timed out, by an exit that did not
\* wait (SIGTERM during an upgrade's drain, SIGKILL), or because it was not yet
\* counted when the drain stopped waiting.
CleanExit == \A c \in cut : c \in late \/ proc[conn[c].p].gaveUp

\* tableflip: three generations never run at once.
TwoGenerations == Cardinality({p \in Procs : proc[p].st = "run"}) <= 2

\* The process an upgrade has replaced goes away, each time.
OldExited == \A p \in Procs : Runs(p) => ~proc[p].exit

\* A replica that drains for long enough is seen as draining, although a
\* heartbeat that was in flight may write "active" over it once.
DrainingSeen == tracker.flag /\ Runs(1) => tracker.row = "draining"
=============================================================================
