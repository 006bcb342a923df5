------------------------------ MODULE LocalPool ------------------------------
(***************************************************************************)
(* The control plane that runs its workers as child processes: the         *)
(* FlightWorkerPool of controlplane/worker_mgr.go, the sessions that       *)
(* session_mgr.go opens on it, and how control.go starts and stops both.   *)
(* A connection acquires a worker (a new process when there is none to     *)
(* take), opens a session on it and releases it; the idle reaper, the      *)
(* health checks and ShutdownAll take workers away meanwhile.              *)
(*                                                                         *)
(* A step is what runs under the pool's mutex, or between two mutexes.     *)
(* The branch of AcquireWorker that replaces the last dead worker is never *)
(* reached: it needs a second count, under the same lock, to differ from   *)
(* the first.                                                              *)
(***************************************************************************)
EXTENDS Integers, Sequences, FiniteSets

CONSTANTS Conns,        \* client connections
          Boots,        \* workers that may be spawned at startup
          Setups,       \* configurations: the connections that arrive (conns), the
                        \* workers spawned at startup (boots), process.max_workers
                        \* (max, 0 is no limit), retire_on_session_end (retire) and
                        \* whether the catalog must be migrated (migrate)
          Sockets,      \* the sockets bound before the first spawn
          HealthLimit,  \* maxConsecutiveHealthFailures
          MaxId,        \* bound on worker ids
          MaxFaults     \* bound on failures of processes and of the disk

Ids == 1..MaxId
None == 0
Dynamic == "dynamic"           \* a socket bound for one worker

VARIABLES cp,         \* boot, run, closing (SIGTERM), draining (upgrade), stopping, exited
          workers,    \* ids in the pool's map
          nextID,     \* nextWorkerID
          spawning,   \* acquisitions that are starting a worker
          active,     \* [Ids -> activeSessions]
          used,       \* ids whose lastUsed is set
          proc,       \* [Ids -> the worker's process]
          sock,       \* [Ids -> its socket]
          released,   \* ids whose releaseOnce has run
          prebound,   \* the stack of sockets bound in advance
          mount,      \* the socket directory still has its files
          migrate,    \* ducklakeMigrate
          migrateMu,  \* the holder of ducklakeMigrateMu
          act,        \* [Conns \cup Boots -> the goroutine]
          registered, \* connections in SessionManager.sessions
          tasks,      \* goroutines that take a worker down: [kind, id]
          victims,    \* [Ids -> sessions OnWorkerCrash still has to end]
          checking,   \* workers of the current health check tick
          failures,   \* [Ids -> consecutive failed health checks]
          stopList,   \* workers ShutdownAll still waits for
          setup,      \* the configuration, a member of Setups
          faults      \* failures so far

pool == <<setup, workers, nextID, spawning, active, used>>
os == <<proc, sock, released, prebound, mount>>
mig == <<migrate, migrateMu>>
sm == registered
down == <<tasks, victims, checking, failures, stopList>>
vars == <<cp, pool, os, mig, act, sm, down, faults>>

Actors == Conns \cup Boots
MinWorkers == Cardinality(setup.boots)
New == [pc |-> "new", id |-> None, mig |-> FALSE]

Init ==
  /\ cp = "boot" /\ setup \in Setups
  /\ workers = {} /\ nextID = MinWorkers + 1 /\ spawning = 0
  /\ active = [i \in Ids |-> 0] /\ used = {}
  /\ proc = [i \in Ids |-> "none"] /\ sock = [i \in Ids |-> Dynamic]
  /\ released = {} /\ mount = TRUE
  /\ prebound = CHOOSE s \in [1..Cardinality(Sockets) -> Sockets] :
                   \A j, k \in DOMAIN s : s[j] = s[k] => j = k
  /\ migrate = setup.migrate /\ migrateMu = ""
  /\ LET ids == CHOOSE f \in [setup.boots -> 1..MinWorkers] :
                  \A a, b \in setup.boots : f[a] = f[b] => a = b
     IN act = [a \in Actors |-> IF a \in setup.boots THEN [New EXCEPT !.pc = "take", !.id = ids[a]] ELSE New]
  /\ registered = {}
  /\ tasks = {} /\ victims = [i \in Ids |-> {}]
  /\ checking = {} /\ failures = [i \in Ids |-> 0]
  /\ stopList = {}
  /\ faults = 0

At(a, pc) == act[a].pc = pc /\ cp # "exited"
Goto(a, pc) == act' = [act EXCEPT ![a].pc = pc]
Fault == faults < MaxFaults /\ faults' = faults + 1
ShuttingDown == cp \in {"stopping", "exited"}
Dead(i) == proc[i] = "dead"
Running(i) == proc[i] \in {"starting", "up", "dying"}

-----------------------------------------------------------------------------
(* Sockets.                                                                *)

returnPrebound(s) == prebound' = Append(prebound, s)

\* Only the first call of a worker takes effect; a socket whose file is gone is
\* closed, and so is one that was bound for this worker alone.
releaseWorkerSocket(i) ==
  /\ prebound' = IF i \in released \/ sock[i] = Dynamic \/ ~mount THEN prebound
                 ELSE Append(prebound, sock[i])
  /\ released' = released \cup {i}

\* takePrebound: pop a socket.  When its file is gone all of them are dropped.
takePrebound(i) ==
  IF prebound = <<>> \/ ~mount
  THEN /\ sock' = [sock EXCEPT ![i] = Dynamic] /\ prebound' = <<>>
  ELSE /\ sock' = [sock EXCEPT ![i] = prebound[Len(prebound)]]
       /\ prebound' = SubSeq(prebound, 1, Len(prebound) - 1)

\* systemd takes the socket directory away, after an upgrade.
Unmount ==
  /\ mount /\ Fault /\ cp \in {"run", "closing"}
  /\ mount' = FALSE
  /\ UNCHANGED <<cp, pool, proc, sock, released, prebound, mig, act, sm, down>>

-----------------------------------------------------------------------------
(* SpawnWorker.                                                            *)

\* Mutant: a spawn that fails to start its process keeps the socket.
giveBackNothing(i) == UNCHANGED prebound

giveBack(i) == IF sock[i] = Dynamic THEN UNCHANGED prebound ELSE returnPrebound(sock[i])

\* What a failed spawn means to its goroutine: AcquireWorker returns the error,
\* a failed worker at startup ends the control plane.
SpawnError(a) ==
  IF a \in Boots
  THEN cp' = "exited" /\ act' = [b \in Actors |-> New]
  ELSE Goto(a, "spawnfail") /\ UNCHANGED cp

\* The socket, and the first look at the migration flag.
Take(a) ==
  /\ At(a, "take")
  /\ LET i == act[a].id
     IN \/ /\ takePrebound(i)
           /\ act' = [act EXCEPT ![a].pc = "start", ![a].mig = migrate]
           /\ UNCHANGED <<cp, faults>>
        \/ /\ prebound = <<>> /\ Fault /\ SpawnError(a)      \* no directory, bind fails
           /\ UNCHANGED <<sock, prebound>>
  /\ UNCHANGED <<pool, proc, released, mount, mig, sm, down>>

\* The flag again, once the mutex is taken.
recheck(a) == act[a].mig /\ migrate

\* The process starts, under the mutex when it is to migrate; or it does not.
Start(a) ==
  /\ At(a, "start")
  /\ act[a].mig => migrateMu = ""
  /\ LET i == act[a].id
         m == recheck(a)
     IN \/ /\ proc' = [proc EXCEPT ![i] = "starting"]
           /\ migrateMu' = IF m THEN a ELSE migrateMu
           /\ act' = [act EXCEPT ![a].pc = "wait", ![a].mig = m]
           /\ UNCHANGED <<cp, prebound, faults>>
        \/ /\ Fault /\ SpawnError(a)
           /\ giveBack(i)
           /\ UNCHANGED <<proc, migrateMu>>
  /\ UNCHANGED <<pool, sock, released, mount, migrate, sm, down>>

\* waitForWorker: the first good health check, or the timeout.
Healthy(a) ==
  /\ At(a, "wait") /\ proc[act[a].id] = "starting"
  /\ proc' = [proc EXCEPT ![act[a].id] = "up"]
  /\ IF act[a].mig
     THEN migrate' = FALSE /\ migrateMu' = ""
     ELSE UNCHANGED mig
  /\ Goto(a, "insert")
  /\ UNCHANGED <<cp, pool, sock, released, prebound, mount, sm, down, faults>>

Timeout(a) ==
  /\ At(a, "wait")
  /\ IF Dead(act[a].id) THEN UNCHANGED faults ELSE Fault
  /\ migrateMu' = IF act[a].mig THEN "" ELSE migrateMu
  /\ Goto(a, "kill")
  /\ UNCHANGED <<cp, pool, os, migrate, sm, down>>

\* Kill, wait for the exit, give the socket back.
Kill(a) ==
  /\ At(a, "kill")
  /\ proc' = [proc EXCEPT ![act[a].id] = "dead"]
  /\ giveBack(act[a].id)
  /\ SpawnError(a)
  /\ UNCHANGED <<pool, sock, released, mount, mig, sm, down, faults>>

Insert(a) ==
  /\ At(a, "insert")
  /\ workers' = workers \cup {act[a].id}
  /\ Goto(a, IF a \in Boots THEN "done" ELSE "spawned")
  /\ UNCHANGED <<cp, setup, nextID, spawning, active, used, os, mig, sm, down, faults>>

\* SpawnAll is done: connections are accepted from here on.
Serve ==
  /\ cp = "boot" /\ \A b \in setup.boots : act[b].pc = "done"
  /\ cp' = "run"
  /\ UNCHANGED <<pool, os, mig, act, sm, down, faults>>

-----------------------------------------------------------------------------
(* AcquireWorker, ReleaseWorker and the idle reaper.                       *)

Live == {i \in workers : ~Dead(i)}
findIdleWorkers == {i \in Live : active[i] = 0}
leastLoadedWorkers == {i \in Live : \A j \in Live : active[i] <= active[j]}

liveWorkerCount == spawning + Cardinality(Live)
BelowCap == setup.max = 0 \/ liveWorkerCount < setup.max

Claim(c, i) ==
  /\ active' = [active EXCEPT ![i] = @ + 1]
  /\ act' = [act EXCEPT ![c].pc = "create", ![c].id = i]

Accept(c) ==
  /\ cp = "run" /\ c \in setup.conns /\ act[c].pc = "new"
  /\ Goto(c, "acquire")
  /\ UNCHANGED <<cp, pool, os, mig, sm, down, faults>>

\* cleanDeadWorkersLocked: the dead leave the map, and nobody is told.
cleanDead ==
  /\ workers' = Live
  /\ tasks' = tasks \cup {[kind |-> "clean", id |-> i] : i \in workers \ Live}

AcquireRefused(c) ==
  /\ At(c, "acquire") /\ ShuttingDown
  /\ Goto(c, "done")
  /\ UNCHANGED <<cp, pool, os, mig, sm, down, faults>>

\* An idle worker, a new one, the least loaded one, or another try in 100 ms.
AcquireWorker(c) ==
  /\ At(c, "acquire") /\ ~ShuttingDown
  /\ cleanDead
  /\ \/ /\ \E i \in findIdleWorkers : Claim(c, i)
        /\ UNCHANGED <<nextID, spawning>>
     \/ /\ findIdleWorkers = {} /\ BelowCap /\ nextID \in Ids
        /\ nextID' = nextID + 1 /\ spawning' = spawning + 1
        /\ act' = [act EXCEPT ![c].pc = "take", ![c].id = nextID]
        /\ UNCHANGED active
     \/ /\ findIdleWorkers = {} /\ ~BelowCap
        /\ \E i \in leastLoadedWorkers : Claim(c, i)
        /\ UNCHANGED <<nextID, spawning>>
     \/ /\ Live = {} /\ ~BelowCap
        /\ UNCHANGED <<nextID, spawning, active, act>>
  /\ UNCHANGED <<cp, setup, used, os, mig, sm, victims, checking, failures, stopList, faults>>

\* SpawnWorker has returned: the count goes down, the worker is looked up ...
Spawned(c) ==
  /\ act[c].pc \in {"spawned", "spawnfail"} /\ cp # "exited"
  /\ spawning' = spawning - 1
  /\ Goto(c, IF At(c, "spawned") /\ act[c].id \in workers THEN "claim" ELSE "done")
  /\ UNCHANGED <<cp, setup, workers, nextID, active, used, os, mig, sm, down, faults>>

\* ... and claimed under a lock of its own.
ClaimSpawned(c) ==
  /\ At(c, "claim")
  /\ Claim(c, act[c].id)
  /\ UNCHANGED <<cp, setup, workers, nextID, spawning, used, os, mig, sm, down, faults>>

\* Removal from the map by somebody who then takes the process down.
Remove(i, kind) ==
  /\ workers' = workers \ {i}
  /\ tasks' = tasks \cup {[kind |-> kind, id |-> i]}

\* Mutant: a worker is retired although other sessions are on it.
RetireAnyway(i, n) == setup.retire

RetireNow(i, n) == setup.retire /\ n = 0

ReleaseWorker(c) ==
  /\ At(c, "release")
  /\ LET i == act[c].id
         n == IF active[i] > 0 THEN active[i] - 1 ELSE 0
     IN IF i \notin workers
        THEN UNCHANGED <<workers, active, used, tasks>>
        ELSE /\ active' = [active EXCEPT ![i] = n]
             /\ IF RetireNow(i, n)
                THEN Remove(i, "retire") /\ UNCHANGED used
                ELSE used' = used \cup {i} /\ UNCHANGED <<workers, tasks>>
  /\ Goto(c, "done")
  /\ UNCHANGED <<cp, setup, nextID, spawning, os, mig, sm, victims, checking, failures, stopList, faults>>

\* RetireWorkerIfNoSessions: the claim goes back before the count is looked at.
DropClaim(i) == IF active[i] > 0 THEN active[i] - 1 ELSE 0

RetireWorkerIfNoSessions(i) ==
  IF i \notin workers
  THEN UNCHANGED <<workers, active, tasks>>
  ELSE /\ active' = [active EXCEPT ![i] = DropClaim(i)]
       /\ IF DropClaim(i) = 0 THEN Remove(i, "retire") ELSE UNCHANGED <<workers, tasks>>

\* reapIdleWorkers retires workers idle for idleTimeout while more than
\* min_workers are idle.  The second loop also takes dead ones.
reapIdleWorkers ==
  /\ cp \in {"run", "closing", "draining"}
  /\ \E R \in SUBSET {i \in workers : active[i] = 0 /\ i \in used} :
       /\ R # {}
       /\ Cardinality(R) <= Cardinality(findIdleWorkers) - MinWorkers
       /\ workers' = workers \ R
       /\ tasks' = tasks \cup {[kind |-> "retire", id |-> i] : i \in R}
  /\ UNCHANGED <<cp, setup, nextID, spawning, active, used, os, mig, act, sm,
                 victims, checking, failures, stopList, faults>>

-----------------------------------------------------------------------------
(* A session: created on the worker, registered, served, destroyed.        *)

CreateSession(c) ==
  /\ At(c, "create")
  /\ LET i == act[c].id
     IN \/ /\ proc[i] = "up"
           /\ Goto(c, "register")
           /\ UNCHANGED <<workers, active, tasks, faults>>
        \/ /\ IF proc[i] = "up" THEN Fault ELSE UNCHANGED faults
           /\ RetireWorkerIfNoSessions(i)
           /\ Goto(c, "done")
  /\ UNCHANGED <<cp, setup, nextID, spawning, used, os, mig, sm, victims, checking, failures, stopList>>

Register(c) ==
  /\ At(c, "register")
  /\ registered' = registered \cup {c}
  /\ Goto(c, "init")
  /\ UNCHANGED <<cp, pool, os, mig, down, faults>>

\* The session's catalog is set up; only then is the connection made known to
\* OnWorkerCrash (SetConnCloser) and served.
InitSession(c) ==
  /\ At(c, "init")
  /\ IF proc[act[c].id] = "up" /\ c \in registered THEN Goto(c, "loop") ELSE Goto(c, "destroy")
  /\ UNCHANGED <<cp, pool, os, mig, sm, down, faults>>

\* The client goes away, or the connection was closed under it.
Leave(c) ==
  /\ At(c, "loop")
  /\ Goto(c, "destroy")
  /\ UNCHANGED <<cp, pool, os, mig, sm, down, faults>>

Detach(c) == IF c \in registered THEN "release" ELSE "done"

\* DestroySession: detached from the manager, destroyed on the worker.
DestroySession(c) ==
  /\ At(c, "destroy")
  /\ registered' = registered \ {c}
  /\ Goto(c, Detach(c))
  /\ UNCHANGED <<cp, pool, os, mig, down, faults>>

-----------------------------------------------------------------------------
(* Processes end, and the goroutines that see to it.                       *)

Crash(i) ==
  /\ proc[i] \in {"starting", "up"} /\ Fault
  /\ proc' = [proc EXCEPT ![i] = "dead"]
  /\ UNCHANGED <<cp, pool, sock, released, prebound, mount, mig, act, sm, down>>

\* After SIGINT, or the SIGKILL that follows it.
ProcExit(i) ==
  /\ proc[i] = "dying"
  /\ proc' = [proc EXCEPT ![i] = "dead"]
  /\ UNCHANGED <<cp, pool, sock, released, prebound, mount, mig, act, sm, down, faults>>

Signal(i) == proc' = [proc EXCEPT ![i] = IF @ = "up" THEN "dying" ELSE @]

Task(k, i) == [kind |-> k, id |-> i] \in tasks /\ cp # "exited"
NextTask(k, l, i) == tasks' = (tasks \ {[kind |-> k, id |-> i]}) \cup {[kind |-> l, id |-> i]}

\* retireWorkerProcess, first half; also the SIGKILL of an unresponsive worker.
SignalRetired(i, k) ==
  /\ k \in {"retire", "kill"} /\ Task(k, i)
  /\ Signal(i) /\ NextTask(k, "clean", i)
  /\ UNCHANGED <<cp, pool, sock, released, prebound, mount, mig, act, sm,
                 victims, checking, failures, stopList, faults>>

\* Mutant: the socket goes back while the process is still there.
Exited(i) == TRUE

Gone(i) == Dead(i)

\* ... second half, and cleanupDeadWorker.
Clean(i) ==
  /\ Task("clean", i) /\ Gone(i)
  /\ releaseWorkerSocket(i)
  /\ tasks' = tasks \ {[kind |-> "clean", id |-> i]}
  /\ UNCHANGED <<cp, pool, proc, sock, mount, mig, act, sm, victims, checking, failures, stopList, faults>>

\* OnWorkerCrash: the sessions of the worker as they are now ...
OnWorkerCrash(i) ==
  /\ Task("crash", i)
  /\ victims' = [victims EXCEPT ![i] = {c \in registered : act[c].id = i}]
  /\ NextTask("crash", "notify", i)
  /\ UNCHANGED <<cp, pool, os, mig, act, sm, checking, failures, stopList, faults>>

\* ... each is detached, and its connection closed if it was made known (Leave);
\* after the last one the process is killed.
Notify(i) ==
  /\ Task("notify", i)
  /\ IF victims[i] = {}
     THEN NextTask("notify", "kill", i) /\ UNCHANGED <<victims, sm>>
     ELSE \E c \in victims[i] :
            /\ victims' = [victims EXCEPT ![i] = @ \ {c}]
            /\ registered' = registered \ {c}
            /\ UNCHANGED tasks
  /\ UNCHANGED <<cp, pool, os, mig, act, checking, failures, stopList, faults>>

-----------------------------------------------------------------------------
(* HealthCheckLoop.  Its context ends with SIGTERM.  A tick is followed for*)
(* one of its workers; the others answer.                                  *)

Tick(i) ==
  /\ cp \in {"run", "draining"} /\ checking = {} /\ i \in workers
  /\ checking' = {i}
  /\ UNCHANGED <<cp, pool, os, mig, act, sm, tasks, victims, failures, stopList, faults>>

Checked(i) == i \in checking /\ cp # "exited" /\ checking' = checking \ {i}

CrashIfPooled(i) ==
  IF i \in workers THEN Remove(i, "crash") ELSE UNCHANGED <<workers, tasks>>

HealthDead(i) ==
  /\ Checked(i) /\ Dead(i)
  /\ failures' = [failures EXCEPT ![i] = 0]
  /\ CrashIfPooled(i)
  /\ UNCHANGED <<cp, setup, nextID, spawning, active, used, os, mig, act, sm, victims, stopList, faults>>

BelowLimit(i) == failures[i] + 1 < HealthLimit

HealthFail(i) ==
  /\ Checked(i) /\ ~Dead(i)
  /\ IF proc[i] = "up" THEN Fault ELSE UNCHANGED faults
  /\ IF BelowLimit(i)
     THEN /\ failures' = [failures EXCEPT ![i] = @ + 1]
          /\ UNCHANGED <<workers, tasks>>
     ELSE /\ failures' = [failures EXCEPT ![i] = 0]
          /\ CrashIfPooled(i)
  /\ UNCHANGED <<cp, setup, nextID, spawning, active, used, os, mig, act, sm, victims, stopList>>

HealthOK(i) ==
  /\ Checked(i) /\ ~Dead(i)
  /\ failures' = [failures EXCEPT ![i] = 0]
  /\ UNCHANGED <<cp, pool, os, mig, act, sm, tasks, victims, stopList, faults>>

-----------------------------------------------------------------------------
(* Shutdown and upgrade.                                                   *)

\* SIGTERM closes the listener and ends the health checks; after an upgrade the
\* old process closes its listener and drains.
StopAccepting ==
  /\ cp = "run"
  /\ cp' \in {"closing", "draining"}
  /\ UNCHANGED <<pool, os, mig, act, sm, down, faults>>

Drained == \A c \in Conns : act[c].pc \in {"new", "done"}

\* ShutdownAll: once the connections are gone; while draining also at the
\* timeout or on SIGTERM.
ShutdownAll ==
  /\ \/ cp = "closing" /\ Drained
     \/ cp = "draining"
  /\ cp' = "stopping"
  /\ stopList' = workers
  /\ proc' = [i \in Ids |-> IF i \in workers /\ proc[i] = "up" THEN "dying" ELSE proc[i]]
  /\ UNCHANGED <<pool, sock, released, prebound, mount, mig, act, sm,
                 tasks, victims, checking, failures, faults>>

StopWorker(i) ==
  /\ cp = "stopping" /\ i \in stopList /\ Dead(i)
  /\ releaseWorkerSocket(i)
  /\ stopList' = stopList \ {i}
  /\ UNCHANGED <<cp, pool, proc, sock, mount, mig, act, sm, tasks, victims, checking, failures, faults>>

\* The map is emptied, the sockets are closed, the process exits and its
\* goroutines with it.
Exit ==
  /\ cp = "stopping" /\ stopList = {}
  /\ cp' = "exited"
  /\ workers' = {} /\ prebound' = <<>>
  /\ act' = [a \in Actors |-> New]
  /\ tasks' = {} /\ checking' = {} /\ victims' = [i \in Ids |-> {}] /\ failures' = [i \in Ids |-> 0]
  /\ spawning' = 0 /\ active' = [i \in Ids |-> 0] /\ used' = {} /\ registered' = {}
  /\ UNCHANGED <<setup, nextID, proc, sock, released, mount, mig, stopList, faults>>

-----------------------------------------------------------------------------

Spawn(a) == Take(a) \/ Start(a) \/ Healthy(a) \/ Timeout(a) \/ Kill(a) \/ Insert(a)

Session(c) ==
  \/ AcquireRefused(c) \/ AcquireWorker(c) \/ Spawned(c) \/ ClaimSpawned(c)
  \/ CreateSession(c) \/ Register(c) \/ InitSession(c)
  \/ DestroySession(c) \/ ReleaseWorker(c)

TakeDown(i) ==
  \/ \E k \in {"retire", "kill"} : SignalRetired(i, k)
  \/ Clean(i) \/ OnWorkerCrash(i) \/ Notify(i) \/ ProcExit(i)

Check(i) == HealthDead(i) \/ HealthFail(i) \/ HealthOK(i)

Next ==
  \/ \E a \in Actors : Spawn(a)
  \/ \E c \in Conns : Accept(c) \/ Session(c) \/ Leave(c)
  \/ \E i \in Ids : TakeDown(i) \/ Tick(i) \/ Check(i) \/ Crash(i) \/ StopWorker(i)
  \/ Serve \/ reapIdleWorkers \/ Unmount \/ StopAccepting \/ ShutdownAll \/ Exit

Spec == Init /\ [][Next]_vars

-----------------------------------------------------------------------------

(* Ids and counts are in range: no worker is left in the pool after         *)
(* maxConsecutiveHealthFailures failed checks in a row.                     *)
TypeOK ==
  /\ cp \in {"boot", "run", "closing", "draining", "stopping", "exited"}
  /\ workers \subseteq Ids /\ nextID \in 1..MaxId + 1 /\ spawning \in 0..Cardinality(Conns)
  /\ active \in [Ids -> 0..Cardinality(Conns)] /\ used \subseteq Ids /\ released \subseteq Ids
  /\ proc \in [Ids -> {"none", "starting", "up", "dying", "dead"}]
  /\ sock \in [Ids -> Sockets \cup {Dynamic}]
  /\ \A k \in DOMAIN prebound : prebound[k] \in Sockets
  /\ migrateMu \in Actors \cup {""}
  /\ registered \subseteq Conns
  /\ tasks \subseteq [kind: {"retire", "clean", "crash", "notify", "kill"}, id: Ids]
  /\ checking \subseteq Ids /\ stopList \subseteq Ids
  /\ failures \in [Ids -> 0..HealthLimit - 1]

\* Spawns that hold a socket and have no process yet.
Holding(i) == \E a \in Actors : act[a].id = i /\ act[a].pc = "start"
Copies(s) == Cardinality({k \in DOMAIN prebound : prebound[k] = s})
Users(s) == {i \in Ids : sock[i] = s /\ (Running(i) \/ Holding(i))}

(* No two workers are ever behind one pre-bound socket: the control plane   *)
(* would reach another session's process.  releaseWorkerSocket can be called*)
(* twice, by ShutdownAll and a health check, and the retirement of a process*)
(* overlaps with the spawn of the next.                                     *)
SocketExclusive == \A s \in Sockets : Copies(s) + Cardinality(Users(s)) <= 1

\* Somebody will give the worker's socket back.
Attended(i) ==
  \/ i \in workers \cup stopList
  \/ \E t \in tasks : t.id = i
  \/ \E a \in Actors : act[a].id = i /\ act[a].pc \in {"start", "wait", "kill", "insert"}

(* A pre-bound socket is never lost, whichever way its worker or its spawn  *)
(* ends: it is on the stack or somebody still has to give it back.  Without *)
(* them a read-only socket directory leaves no way to start a worker.       *)
SocketAccounted ==
  mount /\ cp # "exited" =>
    \A s \in Sockets : \/ Copies(s) > 0
                       \/ \E i \in Ids : sock[i] = s /\ i \notin released /\ Attended(i)

Unborn == {c \in Conns : act[c].pc \in {"take", "start", "wait", "insert"}}

(* max_workers bounds the workers in the pool and those on their way into   *)
(* it, however many acquisitions overlap ("Including spawning prevents a    *)
(* TOCTOU race", liveWorkerCountLocked).                                    *)
PoolCapped == setup.max > 0 => Cardinality(Live) + Cardinality(Unborn) <= setup.max

Claims(i) == {c \in Conns : act[c].id = i /\
                            \/ act[c].pc \in {"create", "register", "release"}
                            \/ act[c].pc \in {"init", "loop", "destroy"} /\ c \in registered}

(* The count by which workers are found idle, shared and retired is the     *)
(* number of connections that hold the worker, whatever ends them: the      *)
(* client, a failed creation or the crash handler.                          *)
ClaimsCounted == \A i \in workers : active[i] = Cardinality(Claims(i))

(* Nobody but the crash handlers takes a worker from under a session: a     *)
(* worker that starts to retire (end of a session, failed creation, idle    *)
(* reaper) has none.                                                        *)
RetireSparesSessions ==
  [][\A t \in tasks' \ tasks : t.kind = "retire" => {c \in Claims(t.id) : act'[c].pc # "done"} = {}]_vars

=============================================================================
