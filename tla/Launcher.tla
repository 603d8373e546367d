------------------------------ MODULE Launcher ------------------------------
(***************************************************************************)
(* The launchers of the native stack on one data directory: launch_stack,  *)
(* stop_children and cleanup_stale_children (crates/launcher_core), used   *)
(* by the command-line launcher (crates/standalone_launcher) and by the    *)
(* desktop shell (apps/desktop/src-tauri), which starts and stops a stack  *)
(* under its mutex `running`.                                              *)
(*                                                                         *)
(* A process is its pid; a pid is used again once its process is reaped.   *)
(* A sidecar listens on its port some time after it was spawned, or exits  *)
(* because the port is taken.  It handles SIGTERM from then on only: axum  *)
(* polls the shutdown signal after the bind, so that before it SIGTERM     *)
(* kills.  Launchers crash, sidecars exit and the grace period ends at any *)
(* moment.  Ports are the default one of a service or a free one the       *)
(* system gives; ports fixed by the environment are not modelled.          *)
(***************************************************************************)
EXTENDS Naturals, Sequences

CONSTANTS
  Desktop,       \* launcher processes of the desktop shell
  Standalone,    \* launcher processes of the command line
  Pid,
  Names,         \* the sidecars in the order they are started: antd, rust_admin, rust_stream
  FreePort,      \* ports the system gives
  MaxBegins,     \* launcher processes that are started (bound)
  None

Launcher == Desktop \cup Standalone
Name == {Names[i] : i \in 1..Len(Names)}

ASSUME LauncherAssumption ==
  /\ Desktop \cap Standalone = {} /\ MaxBegins \in Nat
  /\ Len(Names) \in Nat /\ Len(Names) > 1
  /\ \A i, j \in 1..Len(Names) : Names[i] = Names[j] => i = j
  /\ None \notin Launcher \cup Pid /\ "default" \notin FreePort /\ "other" \notin Name

VARIABLES
  proc,         \* processes by pid
  file,         \* pid files: <name>.pid of the run directory
  lock,         \* who holds launcher.lock
  at,           \* what a launcher is doing: a step, and the sidecar it is about
  held,         \* `children` of its stack, with the one that is being spawned
  port,         \* the ports it chose
  closing,      \* closing and shutdown_complete of the desktop shell, Ctrl-C of the other
  configured,   \* the first-run setup was saved
  begins        \* launcher processes started so far

vars == <<proc, file, lock, at, held, port, closing, configured, begins>>

-----------------------------------------------------------------------------

Free == [name |-> "other", state |-> "free", owner |-> None, port |-> "default",
         signalled |-> FALSE, lost |-> FALSE]

Alive(p) == proc[p].state \in {"starting", "listening", "draining", "other"}
Listens(p, n, o) == proc[p].state = "listening" /\ proc[p].name = n /\ proc[p].port = o
Holds(l, p) == \E i \in 1..Len(held[l]) : held[l][i] = p

\* An exit: the launcher that holds the child reaps it later, init reaps an orphan at once.
Exited(r) == IF r.owner = None THEN Free ELSE [r EXCEPT !.state = "zombie"]

\* SIGTERM.  A sidecar that does not listen yet has no handler.
Terminated(r) ==
  LET s == [r EXCEPT !.signalled = TRUE]
  IN  IF r.state = "starting" THEN Exited(s) ELSE IF r.state = "zombie" THEN r ELSE s

Go(l, step, i) == at' = [at EXCEPT ![l] = [step |-> step, i |-> i]]

\* The process of a launcher is over: the kernel releases its lock, its children live
\* on.  A child it had no time to record is lost.
Over(l) ==
  /\ proc' = [p \in Pid |->
       CASE proc[p].owner # l -> proc[p]
         [] proc[p].owner = l /\ proc[p].state = "zombie" -> Free
         [] OTHER -> [proc[p] EXCEPT !.owner = None,
                        !.lost = at[l].step = "record" /\ p = held[l][at[l].i]]]
  /\ lock' = IF lock = l THEN None ELSE lock
  /\ Go(l, "off", 0)
  /\ held' = [held EXCEPT ![l] = <<>>]
  /\ port' = [port EXCEPT ![l] = [n \in Name |-> "default"]]
  /\ closing' = [closing EXCEPT ![l] = "no"]
  /\ UNCHANGED <<file, configured, begins>>

\* launch_stack returned an error, with nothing left but what `proc` becomes: main of
\* the command line ends, the desktop shell releases its mutex.
Failed(l) ==
  /\ Go(l, IF l \in Desktop THEN "idle" ELSE "failed", 0)
  /\ lock' = None
  /\ held' = [held EXCEPT ![l] = <<>>]
  /\ port' = [port EXCEPT ![l] = [n \in Name |-> "default"]]

\* `?`: the children are dropped, without kill_on_drop ...
DroppedRunning(l) == Failed(l) /\ UNCHANGED <<proc, file, closing, configured, begins>>

\* ... and with it, which kills and reaps them.
Dropped(l) ==
  /\ proc' = [p \in Pid |-> IF Holds(l, p) THEN Free ELSE proc[p]]
  /\ Failed(l)
  /\ UNCHANGED <<file, closing, configured, begins>>

\* stop_children signals every child, and then waits.
StopChildren(l) ==
  /\ proc' = [p \in Pid |-> IF Holds(l, p) THEN Terminated(proc[p]) ELSE proc[p]]
  /\ Go(l, "stop", 1)
  /\ UNCHANGED <<file, lock, held, port, configured, begins>>

-----------------------------------------------------------------------------
\* A launcher process and the commands of the desktop shell.

Begin(l) ==
  /\ at[l].step = "off" /\ begins < MaxBegins
  /\ begins' = begins + 1
  /\ Go(l, "idle", 0)
  /\ UNCHANGED <<proc, file, lock, held, port, closing, configured>>

\* desktop_save_setup: the secrets are written before the file that names them.
SaveSetup(l) ==
  /\ l \in Desktop /\ at[l].step # "off"
  /\ configured' = TRUE
  /\ UNCHANGED <<proc, file, lock, at, held, port, closing, begins>>

\* main, and desktop_start_stack without a running stack, which does not look at
\* `closing`.  acquire_instance_lock refuses a second launcher.
StartStack(l) ==
  /\ at[l].step = "idle"
  /\ l \in Desktop => configured
  /\ lock = None
  /\ lock' = l
  /\ Go(l, "signal", 1)
  /\ UNCHANGED <<proc, file, held, port, closing, configured, begins>>

\* The same when the lock is taken: the command line gives up.
Refused(l) ==
  /\ at[l].step = "idle" /\ l \in Standalone /\ lock # None
  /\ Go(l, "failed", 0)
  /\ UNCHANGED <<proc, file, lock, held, port, closing, configured, begins>>

\* request_shutdown: the first call spawns the task.  Ctrl-C is handled once the stack runs.
Close(l) ==
  /\ at[l].step # "off" /\ closing[l] = "no"
  /\ l \in Standalone => at[l].step = "running"
  /\ closing' = [closing EXCEPT ![l] = "asked"]
  /\ UNCHANGED <<proc, file, lock, at, held, port, configured, begins>>

\* The task of request_shutdown has the mutex: a stack is stopped.
TakeStack(l) ==
  /\ closing[l] = "asked" /\ at[l].step = "running"
  /\ StopChildren(l)
  /\ UNCHANGED closing

\* There is none.
NothingToStop(l) ==
  /\ closing[l] = "asked" /\ at[l].step = "idle"
  /\ closing' = [closing EXCEPT ![l] = "complete"]
  /\ UNCHANGED <<proc, file, lock, at, held, port, configured, begins>>

\* app.exit after shutdown_complete, whatever a start that waited for the mutex does by
\* then; the end of main.
Exit(l) == (closing[l] = "complete" \/ at[l].step = "failed") /\ Over(l)

\* A crash, or SIGKILL.
Crash(l) == at[l].step # "off" /\ Over(l)

-----------------------------------------------------------------------------
\* cleanup_stale_children.

\* stale_child_running, without the name and with it.
StaleRunningAny(p, n) == Alive(p)
StaleRunning(p, n) == Alive(p) /\ proc[p].name = n

SignalStale(l) ==
  LET n == Names[at[l].i] IN
  /\ at[l].step = "signal"
  /\ proc' = [p \in Pid |->
       IF p = file[n] /\ StaleRunning(p, n) THEN Terminated(proc[p]) ELSE proc[p]]
  /\ Go(l, "remove", at[l].i)
  /\ UNCHANGED <<file, lock, held, port, closing, configured, begins>>

\* The pid file is removed, whether or not the signal was sent.
RemoveStale(l) ==
  /\ at[l].step = "remove"
  /\ file' = [file EXCEPT ![Names[at[l].i]] = None]
  /\ IF at[l].i = Len(Names) THEN Go(l, "ports", 0) ELSE Go(l, "signal", at[l].i + 1)
  /\ UNCHANGED <<proc, lock, held, port, closing, configured, begins>>

-----------------------------------------------------------------------------
\* launch_stack.

\* env_port_or_available, without the test of the default port and with it.
PortsDefault(n) == {"default"}
Ports(n) ==
  LET Available(o) == \A p \in Pid : ~Listens(p, n, o)
  IN  IF Available("default") THEN {"default"} ELSE {o \in FreePort : Available(o)}

ChoosePorts(l) ==
  /\ at[l].step = "ports"
  /\ \E o \in [Name -> {"default"} \cup FreePort] :
       /\ \A n \in Name : o[n] \in Ports(n)
       /\ port' = [port EXCEPT ![l] = o]
  /\ Go(l, "spawn", 1)
  /\ UNCHANGED <<proc, file, lock, held, closing, configured, begins>>

\* start_antd, start_rust_admin and start_rust_stream: the service n with its port.
Sidecar(l, n) ==
  [Free EXCEPT !.name = n, !.state = "starting", !.owner = l, !.port = port[l][n]]

\* spawn starts the process ...
Spawn(l) ==
  /\ at[l].step = "spawn"
  /\ \E p \in Pid :
       /\ proc[p] = Free
       /\ proc' = [proc EXCEPT ![p] = Sidecar(l, Names[at[l].i])]
       /\ held' = [held EXCEPT ![l] = Append(@, p)]
  /\ Go(l, "record", at[l].i)
  /\ UNCHANGED <<file, lock, port, closing, configured, begins>>

\* ... and writes its pid file.  antd must be healthy before the others are started.
Record(l) ==
  LET i == at[l].i IN
  /\ at[l].step = "record"
  /\ file' = [file EXCEPT ![Names[i]] = held[l][i]]
  /\ IF i = 1 \/ i = Len(Names) THEN Go(l, "health", IF i = 1 THEN 1 ELSE 2)
                                ELSE Go(l, "spawn", i + 1)
  /\ UNCHANGED <<proc, lock, held, port, closing, configured, begins>>

\* The sidecar cannot be spawned, or its pid not written, and then it is killed: with
\* antd nothing else is there, otherwise the children before it are stopped.
SpawnFails(l) ==
  LET i == at[l].i
      before == SubSeq(held[l], 1, i - 1)
      Before(p) == \E j \in 1..Len(before) : before[j] = p
  IN
  /\ at[l].step \in {"spawn", "record"}
  /\ IF i = 1 THEN Dropped(l)
     ELSE /\ proc' = [p \in Pid |-> IF Before(p) THEN Terminated(proc[p])
                                    ELSE IF Holds(l, p) THEN Free ELSE proc[p]]
          /\ held' = [held EXCEPT ![l] = before]
          /\ Go(l, "stop", 1)
          /\ UNCHANGED <<file, lock, port, closing, configured, begins>>

\* wait_for_health: whoever listens on the port answers ...
Health(l) ==
  LET i == at[l].i IN
  /\ at[l].step = "health"
  /\ \E p \in Pid : Listens(p, Names[i], port[l][Names[i]])
  /\ IF i = 1 THEN Go(l, "spawn", 2)
     ELSE IF i = Len(Names) THEN Go(l, "serve", 0) ELSE Go(l, "health", i + 1)
  /\ UNCHANGED <<proc, file, lock, held, port, closing, configured, begins>>

\* ... or nobody did in 120 attempts; the frontend is not found or the port cannot be bound.
LaunchFails(l) ==
  /\ at[l].step \in {"health", "serve"}
  /\ StopChildren(l)
  /\ UNCHANGED closing

\* The tokens cannot be written, no port is to be had, or the HTTP client cannot be built.
ClientFails(l) == at[l].step \in {"ports", "serve"} /\ Dropped(l)

\* The server task runs and the stack is returned.
Serve(l) ==
  /\ at[l].step = "serve"
  /\ Go(l, "running", 0)
  /\ UNCHANGED <<proc, file, lock, held, port, closing, configured, begins>>

-----------------------------------------------------------------------------
\* The last loop of stop_children, after all children exited or the grace period ended.

\* A child that still runs is killed; every one is waited for.
StopOne(l) ==
  LET i == at[l].i IN
  /\ at[l].step = "stop" /\ i <= Len(held[l])
  /\ proc' = [proc EXCEPT ![held[l][i]] = Free]
  /\ file' = [file EXCEPT ![Names[i]] = None]
  /\ Go(l, "stop", i + 1)
  /\ UNCHANGED <<lock, held, port, closing, configured, begins>>

\* shutdown returns and the lock file is closed; or the launch ends with its error.
StopEnds(l) ==
  /\ at[l].step = "stop" /\ at[l].i > Len(held[l])
  /\ Failed(l)
  /\ closing' = IF closing[l] = "asked" THEN [closing EXCEPT ![l] = "complete"] ELSE closing
  /\ UNCHANGED <<proc, file, configured, begins>>

-----------------------------------------------------------------------------
\* The processes.

\* A sidecar binds its port, or exits because it cannot.
Listen(p) ==
  LET r == proc[p] IN
  /\ r.state = "starting"
  /\ proc' = [proc EXCEPT ![p] =
       IF \E q \in Pid : Listens(q, r.name, r.port) THEN Exited(r)
       ELSE [r EXCEPT !.state = "listening"]]
  /\ UNCHANGED <<file, lock, at, held, port, closing, configured, begins>>

\* The graceful shutdown closes the listener and finishes what is under way.
Drain(p) ==
  /\ proc[p].state = "listening" /\ proc[p].signalled
  /\ proc' = [proc EXCEPT ![p].state = "draining"]
  /\ UNCHANGED <<file, lock, at, held, port, closing, configured, begins>>

ProcExit(p) ==
  /\ Alive(p)
  /\ proc' = [proc EXCEPT ![p] = Exited(proc[p])]
  /\ UNCHANGED <<file, lock, at, held, port, closing, configured, begins>>

\* The system gives the pid to an unrelated process; it matters if a pid file names it.
Reuse(p) ==
  /\ proc[p] = Free /\ \E n \in Name : file[n] = p
  /\ proc' = [proc EXCEPT ![p].state = "other"]
  /\ UNCHANGED <<file, lock, at, held, port, closing, configured, begins>>

-----------------------------------------------------------------------------

Init ==
  /\ proc = [p \in Pid |-> Free]
  /\ file = [n \in Name |-> None]
  /\ lock = None
  /\ at = [l \in Launcher |-> [step |-> "off", i |-> 0]]
  /\ held = [l \in Launcher |-> <<>>]
  /\ port = [l \in Launcher |-> [n \in Name |-> "default"]]
  /\ closing = [l \in Launcher |-> "no"]
  /\ configured = FALSE
  /\ begins = 0

LauncherStep(l) ==
  \/ Begin(l) \/ SaveSetup(l) \/ StartStack(l) \/ Refused(l) \/ Close(l) \/ TakeStack(l)
  \/ NothingToStop(l) \/ Exit(l) \/ Crash(l) \/ SignalStale(l) \/ RemoveStale(l)
  \/ ChoosePorts(l) \/ Spawn(l) \/ Record(l) \/ SpawnFails(l)
  \/ Health(l) \/ LaunchFails(l) \/ ClientFails(l) \/ Serve(l) \/ StopOne(l) \/ StopEnds(l)

ProcStep(p) == Listen(p) \/ Drain(p) \/ ProcExit(p) \/ Reuse(p)

Next ==
  \/ \E l \in Launcher : LauncherStep(l)
  \/ \E p \in Pid : ProcStep(p)

Spec == Init /\ [][Next]_vars

-----------------------------------------------------------------------------

\* No sidecar is forgotten.  A launcher that lives holds every child of its own that
\* runs: a failed launch and a shutdown leave none.  After the end of its launcher a
\* sidecar is named by its pid file, so that the next launch finds it, or it has been
\* told to stop.  The exception is a child whose launcher died between spawn and the
\* write of the pid file.
OrphansAccounted ==
  \A p \in Pid :
    proc[p].state \in {"starting", "listening", "draining"} =>
      IF proc[p].owner # None THEN Holds(proc[p].owner, p)
      ELSE file[proc[p].name] = p \/ proc[p].signalled \/ proc[p].lost

\* cleanup_stale_children signals stale sidecars and nothing else: not a process of
\* another name that got the pid of a dead one, and not the children of a stack that runs
\* or starts; those get their SIGTERM from their own launcher.  Not covered is a sidecar of
\* another installation that got the pid: stale_child_running takes it for its own.
OnlyStaleSignalled ==
  \A p \in Pid :
    proc[p].signalled =>
      /\ proc[p].state # "other"
      /\ proc[p].owner # None => at[proc[p].owner].step = "stop"

\* wait_for_health asks a port, not a process.  With ports chosen by the launcher the
\* answer still comes from its own child: never from a sidecar of an earlier launch that
\* takes its time to stop, unless that is one no pid file ever named.
HealthIsOwn ==
  [][\A l \in Launcher :
       LET n == Names[at[l].i]
           answering == {p \in Pid : Listens(p, n, port[l][n])}
       IN  at[l].step = "health" /\ at'[l].step \in {"spawn", "health", "serve"} /\ at'[l] # at[l]
           => \E p \in answering : Holds(l, p) \/ proc[p].lost]_vars

=============================================================================
