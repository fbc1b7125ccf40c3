------------------------------- MODULE Daemon -------------------------------
(***************************************************************************)
(* Who owns the daemon's Unix socket.  Every element of Daemons is one     *)
(* process that runs run_daemon (daemon.py) once: it binds the socket,     *)
(* starts its manager, serves until it is signalled, drains and exits; it  *)
(* may also be killed at any moment, which leaves the socket file behind.  *)
(* Every launcher is an MCP server that runs ensure_daemon_client          *)
(* (mcp/server.py): it reuses a live daemon or starts a detached one.      *)
(* Any number of processes may start, stop and die at the same time.       *)
(***************************************************************************)
EXTENDS Naturals, FiniteSets

CONSTANTS Daemons,       \* the daemon processes of a behaviour
          Launchers,     \* the MCP servers of a behaviour
          NoFile,        \* the socket path does not exist
          OldFile        \* it was left by a process that died long ago

ASSUME DaemonAssumption == NoFile \notin Daemons /\ OldFile \notin Daemons \cup {NoFile}

VARIABLES pc,         \* where the main thread of a daemon is
          path,       \* whose socket the file is
          listening,  \* daemons whose socket accepts connections
          bound,      \* daemons with _bound set
          stopped,    \* daemons with the _stop event set
          active,     \* daemons whose manager may act on VMs and the store
          signalled,  \* daemons that were sent SIGTERM or SIGINT
          code,       \* how run_daemon ends
          undisputed, \* history: who began to listen without a rival
          launch,     \* where a launcher is
          proc        \* the process a launcher started

daemonVars == <<pc, path, listening, bound, stopped, active, signalled, code, undisputed>>
launchVars == <<launch, proc>>
vars == <<daemonVars, launchVars>>

Stages == {"off", "armed", "checking", "probing", "unlinking", "binding",
           "bound", "ready", "starting", "reconciling", "serving", "closing",
           "draining", "unbinding", "leaving", "exited"}

TypeOK ==
    /\ pc \in [Daemons -> Stages]
    /\ path \in Daemons \cup {NoFile, OldFile}
    /\ listening \subseteq Daemons
    /\ bound \subseteq Daemons
    /\ stopped \subseteq Daemons
    /\ active \subseteq Daemons
    /\ signalled \subseteq Daemons
    /\ code \in [Daemons -> {"none", "stopped", "refused", "failed", "killed"}]
    /\ undisputed \subseteq Daemons
    /\ launch \in [Launchers -> {"idle", "spawning", "waiting", "ready", "failed"}]
    /\ proc \in [Launchers -> Daemons \cup {NoFile}]

Init ==
    /\ pc = [d \in Daemons |-> "off"]
    /\ path \in {NoFile, OldFile}
    /\ listening = {}
    /\ bound = {}
    /\ stopped = {}
    /\ active = {}
    /\ signalled = {}
    /\ code = [d \in Daemons |-> "none"]
    /\ undisputed = {}
    /\ launch = [l \in Launchers |-> "idle"]
    /\ proc = [l \in Launchers |-> NoFile]

\* A connection to the path succeeds: some process listens behind the file.
Live == path \in listening

\* A daemon that may still unlink the path: it found the old socket dead,
\* or it has bound the path and not given it up.
Claims(d) == pc[d] \in {"unlinking", "bound", "ready"} \/ d \in bound

Goto(d, from, to) ==
    /\ pc[d] = from
    /\ pc' = [pc EXCEPT ![d] = to]

\* DaemonAlreadyRunning: run_daemon returns 1.
Refuse(d) == code' = [code EXCEPT ![d] = "refused"]

(***************************************************************************)
(* run_daemon: the signal handlers are installed, then start() clears the  *)
(* stop event and binds.                                                   *)
(***************************************************************************)
Arm(d) ==
    /\ Goto(d, "off", "armed")
    /\ UNCHANGED <<path, listening, bound, stopped, active, signalled, code, undisputed>>

Start(d) ==
    /\ Goto(d, "armed", "checking")
    /\ stopped' = stopped \ {d}
    /\ UNCHANGED <<path, listening, bound, active, signalled, code, undisputed>>

\* Mutant: any socket file counts as a running daemon.
CheckPathTaken(d) ==
    /\ IF path = NoFile
       THEN Goto(d, "checking", "binding") /\ UNCHANGED code
       ELSE Goto(d, "checking", "closing") /\ Refuse(d)
    /\ UNCHANGED <<path, listening, bound, stopped, active, signalled, undisputed>>

\* bind: a socket file that exists is probed, a live one refuses the start,
\* a dead one is unlinked.
CheckPath(d) ==
    /\ Goto(d, "checking", IF path = NoFile THEN "binding" ELSE "probing")
    /\ UNCHANGED <<path, listening, bound, stopped, active, signalled, code, undisputed>>

\* Mutant: the old socket is not probed.
ProbePathBlind(d) ==
    /\ Goto(d, "probing", "unlinking")
    /\ UNCHANGED <<path, listening, bound, stopped, active, signalled, code, undisputed>>

ProbePath(d) ==
    /\ IF Live
       THEN Goto(d, "probing", "closing") /\ Refuse(d)
       ELSE Goto(d, "probing", "unlinking") /\ UNCHANGED code
    /\ UNCHANGED <<path, listening, bound, stopped, active, signalled, undisputed>>

UnlinkStale(d) ==
    /\ Goto(d, "unlinking", "binding")
    /\ path' = NoFile
    /\ UNCHANGED <<listening, bound, stopped, active, signalled, code, undisputed>>

\* bind(2) fails when the path exists: DaemonAlreadyRunning.
BindSocket(d) ==
    /\ IF path = NoFile
       THEN Goto(d, "binding", "bound") /\ path' = d /\ UNCHANGED code
       ELSE Goto(d, "binding", "closing") /\ UNCHANGED path /\ Refuse(d)
    /\ UNCHANGED <<listening, bound, stopped, active, signalled, undisputed>>

\* The mode of the socket file: an error when somebody has unlinked it.
SetMode(d) ==
    /\ path # NoFile
    /\ Goto(d, "bound", "ready")
    /\ UNCHANGED <<path, listening, bound, stopped, active, signalled, code, undisputed>>

SetModeFails(d) ==
    /\ path = NoFile
    /\ Goto(d, "bound", "closing")
    /\ code' = [code EXCEPT ![d] = "failed"]
    /\ UNCHANGED <<path, listening, bound, stopped, active, signalled, undisputed>>

Listen(d) ==
    /\ Goto(d, "ready", "starting")
    /\ listening' = listening \cup {d}
    /\ bound' = bound \cup {d}
    /\ undisputed' = IF path = d /\ \A e \in Daemons \ {d} : ~Claims(e) /\ e \notin active
                     THEN undisputed \cup {d}
                     ELSE undisputed
    /\ UNCHANGED <<path, stopped, active, signalled, code>>

\* jobs.start, manager.start: the reconcile pass already acts on the VMs.
StartManager(d) ==
    /\ Goto(d, "starting", "reconciling")
    /\ active' = active \cup {d}
    /\ UNCHANGED <<path, listening, bound, stopped, signalled, code, undisputed>>

\* Mutant: the event is cleared on the way into the loop.
ServeAfresh(d) ==
    /\ Goto(d, "reconciling", "serving")
    /\ stopped' = stopped \ {d}
    /\ UNCHANGED <<path, listening, bound, active, signalled, code, undisputed>>

Serve(d) ==
    /\ Goto(d, "reconciling", "serving")
    /\ UNCHANGED <<path, listening, bound, stopped, active, signalled, code, undisputed>>

\* serve_forever returns once the event is set.
StopServing(d) ==
    /\ d \in stopped
    /\ Goto(d, "serving", "closing")
    /\ UNCHANGED <<path, listening, bound, stopped, active, signalled, code, undisputed>>

(***************************************************************************)
(* shutdown, also of a daemon whose start was refused: the listening       *)
(* socket is closed first, the workers are drained, each for at most five  *)
(* seconds, and the file is unlinked last.                                 *)
(***************************************************************************)
CloseSocket(d) ==
    /\ Goto(d, "closing", "draining")
    /\ stopped' = stopped \cup {d}
    /\ listening' = listening \ {d}
    /\ UNCHANGED <<path, bound, active, signalled, code, undisputed>>

Drain(d) ==
    /\ Goto(d, "draining", "unbinding")
    /\ active' \in {active, active \ {d}}
    /\ UNCHANGED <<path, listening, bound, stopped, signalled, code, undisputed>>

\* Mutant: the file goes, whoever bound it.
UnbindAny(d) ==
    /\ Goto(d, "unbinding", "leaving")
    /\ path' = NoFile
    /\ bound' = bound \ {d}
    /\ UNCHANGED <<listening, stopped, active, signalled, code, undisputed>>

Unbind(d) ==
    /\ Goto(d, "unbinding", "leaving")
    /\ path' = IF d \in bound THEN NoFile ELSE path
    /\ bound' = bound \ {d}
    /\ UNCHANGED <<listening, stopped, active, signalled, code, undisputed>>

Exit(d) ==
    /\ Goto(d, "leaving", "exited")
    /\ active' = active \ {d}
    /\ code' = [code EXCEPT ![d] = IF @ = "none" THEN "stopped" ELSE @]
    /\ UNCHANGED <<path, listening, bound, stopped, signalled, undisputed>>

MainStep(d) ==
    \/ Start(d) \/ CheckPath(d) \/ ProbePath(d) \/ UnlinkStale(d)
    \/ BindSocket(d) \/ SetMode(d) \/ SetModeFails(d) \/ Listen(d)
    \/ StartManager(d) \/ Serve(d)
    \/ StopServing(d) \/ CloseSocket(d) \/ Drain(d) \/ Unbind(d) \/ Exit(d)

\* _on_signal runs request_stop between two steps of the main thread; it
\* closes the socket once bind() has stored it.
Signal(d) ==
    /\ pc[d] \notin {"off", "exited"}
    /\ stopped' = stopped \cup {d}
    /\ listening' = IF d \in bound THEN listening \ {d} ELSE listening
    /\ signalled' = signalled \cup {d}
    /\ UNCHANGED <<pc, path, bound, active, code, undisputed>>

\* The process dies: its sockets close, its threads end, the file stays.
Crash(d) ==
    /\ pc[d] \notin {"off", "exited"}
    /\ pc' = [pc EXCEPT ![d] = "exited"]
    /\ listening' = listening \ {d}
    /\ bound' = bound \ {d}
    /\ active' = active \ {d}
    /\ code' = [code EXCEPT ![d] = "killed"]
    /\ UNCHANGED <<path, stopped, signalled, undisputed>>

(***************************************************************************)
(* ensure_daemon_client                                                    *)
(***************************************************************************)
LookUp(l) ==
    /\ launch[l] = "idle"
    /\ launch' = [launch EXCEPT ![l] = IF Live THEN "ready" ELSE "spawning"]
    /\ UNCHANGED <<daemonVars, proc>>

SpawnDaemon(l) ==
    /\ launch[l] = "spawning"
    /\ \E d \in Daemons :
          /\ Arm(d)
          /\ proc' = [proc EXCEPT ![l] = d]
    /\ launch' = [launch EXCEPT ![l] = "waiting"]

\* The loop looks at the process before it looks at the socket.
SeeExit(l) ==
    /\ launch[l] = "waiting"
    /\ pc[proc[l]] = "exited"
    /\ launch' = [launch EXCEPT ![l] = "failed"]
    /\ UNCHANGED <<daemonVars, proc>>

\* The socket is live and the daemon behind it answers the ping.
SeeSocket(l) ==
    /\ launch[l] = "waiting"
    /\ pc[proc[l]] # "exited"
    /\ Live
    /\ pc[path] = "serving"
    /\ launch' = [launch EXCEPT ![l] = "ready"]
    /\ UNCHANGED <<daemonVars, proc>>

StartTimeout(l) ==
    /\ launch[l] = "waiting"
    /\ launch' = [launch EXCEPT ![l] = "failed"]
    /\ UNCHANGED <<daemonVars, proc>>

DaemonStep ==
    /\ \E d \in Daemons : Arm(d) \/ MainStep(d) \/ Signal(d) \/ Crash(d)
    /\ UNCHANGED launchVars

LauncherStep ==
    \E l \in Launchers : LookUp(l) \/ SpawnDaemon(l) \/ SeeExit(l) \/ SeeSocket(l) \/ StartTimeout(l)

Next == DaemonStep \/ LauncherStep

\* The operating system runs the main thread of every process that started.
Fairness == \A d \in Daemons : WF_vars(MainStep(d) /\ UNCHANGED launchVars)

Spec == Init /\ [][Next]_vars /\ Fairness

-----------------------------------------------------------------------------
(* A daemon that began to listen on its own path while no other claimed    *)
(* the path and no other manager acted keeps the path, and connections     *)
(* reach it, until it is told to stop or killed: whoever starts, is        *)
(* refused, stops or dies meanwhile, and whatever they race each other for *)
(* (bind: "refusing to steal it from a live daemon").                      *)
UndisputedIsReachable ==
    \A d \in undisputed :
        (pc[d] \in {"starting", "reconciling", "serving"} /\ d \notin stopped) => (path = d /\ Live)

(* For as long, nobody else has a manager that acts on the VMs and the     *)
(* database.                                                               *)
UndisputedActsAlone ==
    \A d \in undisputed :
        (pc[d] \in {"starting", "reconciling", "serving"} /\ d \notin stopped) => active \subseteq {d}

(* A start that finds no live listener, whatever file a dead daemon left,  *)
(* ends with that daemon serving, unless it is killed or told to stop, or  *)
(* another process claims the path: one start is never refused for the     *)
(* sake of a dead socket.                                                  *)
StaleSocketRecovered ==
    \A d \in Daemons :
        (pc[d] = "armed" /\ ~Live) ~>
            \/ pc[d] = "serving" \/ d \in signalled \/ code[d] = "killed"
            \/ \E e \in Daemons \ {d} : Claims(e)

(* A daemon whose stop event is set leaves, at whatever moment of its      *)
(* start or its service that happens (run_daemon: "Run the daemon in the   *)
(* foreground until SIGTERM/SIGINT").  A signal before start() clears the  *)
(* event is lost: nothing is promised for pc = "armed".                    *)
StopObeyed == \A d \in Daemons : (d \in stopped /\ pc[d] # "armed") ~> (pc[d] = "exited")

(* What the code does not keep when starts and stops overlap: daemon.py    *)
(* calls itself "the single process authorized to touch libvirt/QEMU".     *)
OneManager == Cardinality(active) <= 1
=============================================================================
