------------------------------ MODULE LiveView ------------------------------
(***************************************************************************)
(* How the desktop GUI shows the seat its user enlarged: still captures    *)
(* taken by a worker thread, or a VNC stream that replaces them            *)
(* (gui/backend.py: WallBackend on the GUI thread, PollWorker on its own;  *)
(* gui/capture.py: CapturePlanner; gui/frames.py: VncFrameSource).  The two*)
(* threads talk by queued signals, which arrive in the order they were     *)
(* emitted.  Slots are the desktop slots of the wall.                      *)
(***************************************************************************)
EXTENDS Integers, Sequences

CONSTANTS Slots,
          Desktops,
          NoDesktop, NoSlot,
          MaxEvents,    \* clicks of the user, seats that come and go, failed calls
          LateAnswerFails \* an endpoint may fail to resolve while its seat streams

ASSUME LiveViewAssumption ==
    /\ NoDesktop \notin Desktops /\ NoSlot \notin Slots
    /\ MaxEvents \in Nat
    /\ LateAnswerFails \in BOOLEAN

VARIABLES pool,     \* the seat of every slot, in the daemon
          open,     \* the window: the GUI thread runs its event loop
          gui,      \* what WallBackend keeps
          shots,    \* seats the last snapshot brought a still of
          session,  \* VncFrameSource._sessions, and how far their threads are
          worker,   \* what PollWorker and its planner keep
          toWorker, toGui,          \* queued signals
          events    \* bound

liveVars == <<pool, open, gui, shots, session, worker, toWorker, toGui, events>>

Walls == [Slots -> Desktops \cup {NoDesktop}]
SeatsOf(w) == {w[k] : k \in Slots} \ {NoDesktop}

\* Signals to the worker, and to the GUI.
Focus(s) == [signal |-> "focus", seat |-> s, mode |-> "none"]
LiveSeat(s) == [signal |-> "live", seat |-> s, mode |-> "none"]
Endpoint(s) == [signal |-> "endpoint", seat |-> s, mode |-> "none"]
Config(m) == [signal |-> "config", seat |-> NoDesktop, mode |-> m]
Snapshot(ok, w, s) == [signal |-> "snapshot", ok |-> ok, wall |-> w, shots |-> s]
Answer(ok, s) == [signal |-> "answer", ok |-> ok, seat |-> s]

Modes == {"stills", "vnc"}
Alive == {"connecting", "streaming"}

\* What is queued for the worker, and for the GUI.
Orders == [signal: {"focus", "live"}, seat: Desktops \cup {NoDesktop}, mode: {"none"}]
              \cup [signal: {"endpoint"}, seat: Desktops, mode: {"none"}]
              \cup [signal: {"config"}, seat: {NoDesktop}, mode: Modes]
Snapshots == [signal: {"snapshot"}, ok: BOOLEAN, wall: Walls, shots: SUBSET Desktops]
Answers == [signal: {"answer"}, ok: BOOLEAN, seat: Desktops]

Guis == [wall: Walls, focus: Slots \cup {NoSlot}, mode: Modes,
         focusSent: Desktops \cup {NoDesktop}, liveSent: Desktops \cup {NoDesktop},
         target: Desktops \cup {NoDesktop}, live: Desktops \cup {NoDesktop}, ready: BOOLEAN]

Workers == [focus: Desktops \cup {NoDesktop}, live: Desktops \cup {NoDesktop}, mode: Modes,
            known: BOOLEAN, status: Walls]

LiveTypeOK ==
    /\ pool \in Walls
    /\ open \in BOOLEAN
    /\ gui \in Guis
    /\ shots \subseteq Desktops
    /\ session \in [Desktops -> {"none", "failed"} \cup Alive]
    /\ worker \in Workers
    /\ toWorker \in Seq(Orders)
    /\ toGui \in Seq(Snapshots \cup Answers)
    /\ events \in 0..MaxEvents

Bare == [k \in Slots |-> NoDesktop]

LiveInit ==
    /\ pool \in Walls
    /\ \A k, l \in Slots : pool[k] = pool[l] /\ pool[k] # NoDesktop => k = l
    /\ open = TRUE
    /\ \E m \in Modes :
           /\ gui = [wall |-> Bare, focus |-> NoSlot, mode |-> m, focusSent |-> NoDesktop,
                     liveSent |-> NoDesktop, target |-> NoDesktop, live |-> NoDesktop, ready |-> FALSE]
           /\ worker = [focus |-> NoDesktop, live |-> NoDesktop, mode |-> m,
                        known |-> FALSE, status |-> Bare]
    /\ shots = {}
    /\ session = [s \in Desktops |-> "none"]
    /\ toWorker = <<>> /\ toGui = <<>>
    /\ events = 0

-----------------------------------------------------------------------------
(* The GUI thread.  A handler works on g, a copy of gui, and returns it with *)
(* the signals it emits.                                                     *)

FocusedSeat(g) == IF g.focus = NoSlot THEN NoDesktop ELSE g.wall[g.focus]
DesiredSeat(g) == IF g.mode = "vnc" THEN FocusedSeat(g) ELSE NoDesktop

\* A seat is told to the worker when it is not the one told last.
OnChange(signal, sent) == IF signal.seat = sent THEN <<>> ELSE <<signal>>

ClearLive(g) == [g EXCEPT !.live = NoDesktop, !.ready = FALSE, !.liveSent = NoDesktop]

Stopped(s) == [session EXCEPT ![s] = "none"]

\* _sync_focus with the _sync_live it ends in: the worker is told of the focused
\* seat, and the stream follows the seat that should be streamed.
Sync(g, emitted) ==
    LET seat == FocusedSeat(g)
        desired == DesiredSeat(g)
        focused == [g EXCEPT !.focusSent = seat]
        told == emitted \o OnChange(Focus(seat), g.focusSent)
    IN IF desired = g.target
       THEN /\ gui' = focused
            /\ toWorker' = toWorker \o told
            /\ UNCHANGED session
       ELSE /\ gui' = [ClearLive(focused) EXCEPT !.target = desired]
            /\ toWorker' = toWorker \o told \o OnChange(LiveSeat(NoDesktop), g.liveSent)
                                    \o (IF desired = NoDesktop THEN <<>> ELSE <<Endpoint(desired)>>)
            /\ session' = IF g.target = NoDesktop THEN session ELSE Stopped(g.target)

Event == events < MaxEvents /\ events' = events + 1

ToggleFocus(k) ==
    /\ open /\ Event
    /\ Sync([gui EXCEPT !.focus = IF k = @ THEN NoSlot ELSE k], <<>>)
    /\ UNCHANGED <<pool, open, shots, worker, toGui>>

\* setGuiSetting and applyCaptureSettings.
SetLiveMode(m) ==
    /\ open /\ Event
    /\ Sync([gui EXCEPT !.mode = m], <<Config(m)>>)
    /\ UNCHANGED <<pool, open, shots, worker, toGui>>

\* Mutant: the worker is not told, and goes on leaving the seat out.
FallbackUntold ==
    /\ gui' = [ClearLive(gui) EXCEPT !.target = NoDesktop]
    /\ UNCHANGED toWorker

\* The stream of a seat is given up for stills; the next snapshot tries again.
Fallback ==
    /\ gui' = [ClearLive(gui) EXCEPT !.target = NoDesktop]
    /\ toWorker' = toWorker \o OnChange(LiveSeat(NoDesktop), gui.liveSent)

ApplyPayload ==
    /\ open /\ toGui # <<>> /\ Head(toGui).signal = "snapshot"
    /\ toGui' = Tail(toGui)
    /\ LET shot == Head(toGui)
       IN IF shot.ok
          THEN Sync([gui EXCEPT !.wall = shot.wall], <<>>) /\ shots' = shot.shots
          ELSE UNCHANGED <<gui, toWorker, session, shots>>
    /\ UNCHANGED <<pool, open, worker, events>>

\* VncFrameSource.start keeps a session that is alive.
Started(s) == IF session[s] \in Alive THEN session ELSE [session EXCEPT ![s] = "connecting"]

OnLiveEndpoint ==
    /\ open /\ toGui # <<>> /\ Head(toGui).signal = "answer"
    /\ toGui' = Tail(toGui)
    /\ LET answer == Head(toGui)
           seat == answer.seat
       IN \/ seat # gui.target /\ UNCHANGED <<gui, session, toWorker>>
          \/ seat = gui.target /\ ~answer.ok /\ Fallback /\ UNCHANGED session
          \/ /\ seat = gui.target /\ answer.ok
             /\ session' = Started(seat)
             /\ gui' = [gui EXCEPT !.live = seat, !.ready = FALSE, !.liveSent = seat]
             /\ toWorker' = toWorker \o OnChange(LiveSeat(seat), gui.liveSent)
    /\ UNCHANGED <<pool, open, shots, worker, events>>

\* Mutant: errors are looked at until the first frame has come.
PollLiveOnce ==
    /\ open /\ gui.live # NoDesktop /\ ~gui.ready
    /\ \/ /\ session[gui.live] = "failed"
          /\ session' = Stopped(gui.live)
          /\ Fallback
       \/ /\ session[gui.live] = "streaming"
          /\ gui' = [gui EXCEPT !.ready = TRUE]
          /\ UNCHANGED <<session, toWorker>>
    /\ UNCHANGED <<pool, open, shots, worker, toGui, events>>

\* The GUI's timer: a stream that ended in an error falls back, a frame is shown.
PollLive ==
    /\ open /\ gui.live # NoDesktop
    /\ \/ /\ session[gui.live] = "failed"
          /\ session' = Stopped(gui.live)
          /\ Fallback
       \/ /\ session[gui.live] = "streaming" /\ ~gui.ready
          /\ gui' = [gui EXCEPT !.ready = TRUE]
          /\ UNCHANGED <<session, toWorker>>
    /\ UNCHANGED <<pool, open, shots, worker, toGui, events>>

\* The window is closed: shutdown_live, then the worker is interrupted and joined.
Shutdown ==
    /\ open
    /\ open' = FALSE
    /\ session' = [s \in Desktops |-> "none"]
    /\ gui' = [ClearLive(gui) EXCEPT !.target = NoDesktop]
    /\ toWorker' = toWorker \o OnChange(LiveSeat(NoDesktop), gui.liveSent)
    /\ UNCHANGED <<pool, shots, worker, toGui, events>>

-----------------------------------------------------------------------------
(* The worker thread.  It handles one signal, or one tick of its timer, at a *)
(* time; a daemon call that fails drops what it knew of the pool.            *)

\* The stills a pass takes: of every seat, or of the focused one; never of the
\* seat that streams.  Only a seat that still exists gives one.
Captured(seats) == (seats \cap SeatsOf(pool)) \ {worker.live}

WallTick(w) ==
    \/ /\ worker' = [w EXCEPT !.known = TRUE, !.status = pool]
       /\ toGui' = Append(toGui, Snapshot(TRUE, pool, Captured(SeatsOf(pool))))
       /\ UNCHANGED events
    \/ /\ Event
       /\ worker' = [w EXCEPT !.known = FALSE, !.status = Bare]
       /\ toGui' = Append(toGui, Snapshot(FALSE, Bare, {}))

FastTick(w) ==
    /\ w.known
    /\ worker' = w
    /\ toGui' = Append(toGui, Snapshot(TRUE, w.status, Captured({w.focus} \cap SeatsOf(w.status))))
    /\ UNCHANGED events

\* poll_once: which of the two is due is a matter of the clock, and always the
\* first while nothing is known.
PollOnce(w) == WallTick(w) \/ FastTick(w)

\* A tick waits for the GUI to have taken the snapshots before it (a bound on the
\* GUI's queue, which the code does not have).
WallTimer == open /\ toGui = <<>> /\ WallTick(worker)
                  /\ UNCHANGED <<pool, open, gui, shots, session, toWorker>>
FastTimer == open /\ toGui = <<>> /\ FastTick(worker)
                  /\ UNCHANGED <<pool, open, gui, shots, session, toWorker>>

SetFocus(s) ==
    LET w == [worker EXCEPT !.focus = s]
    IN IF s = NoDesktop THEN worker' = w /\ UNCHANGED <<toGui, events>> ELSE PollOnce(w)

SetLiveSeat(s) == worker' = [worker EXCEPT !.live = s] /\ UNCHANGED <<toGui, events>>

\* What a change of the mode makes of a worker that streams.
InMode(w, m) ==
    [w EXCEPT !.mode = m, !.live = IF m # w.mode /\ m # "vnc" THEN NoDesktop ELSE w.live]

SetCaptureConfig(m) == worker' = InMode(worker, m) /\ UNCHANGED <<toGui, events>>

\* Whatever is asked of a seat that is gone fails; of another, now and then.
Failure(s) == IF s \in SeatsOf(pool) THEN Event ELSE UNCHANGED events

\* A stream of the seat runs, or will once the GUI takes an answer on its way.
Streams(s) ==
    \/ session[s] \in Alive
    \/ \E i \in DOMAIN toGui : toGui[i].signal = "answer" /\ toGui[i].seat = s /\ toGui[i].ok

ResolveLiveEndpoint(s) ==
    \/ /\ s \in SeatsOf(pool)
       /\ toGui' = Append(toGui, Answer(TRUE, s))
       /\ UNCHANGED <<worker, events>>
    \/ /\ LateAnswerFails \/ ~Streams(s)
       /\ Failure(s)
       /\ toGui' = Append(toGui, Answer(FALSE, s))
       /\ UNCHANGED worker

HandleSignal ==
    /\ open /\ toWorker # <<>>
    /\ toWorker' = Tail(toWorker)
    /\ LET sig == Head(toWorker)
       IN \/ sig.signal = "focus" /\ SetFocus(sig.seat)
          \/ sig.signal = "live" /\ SetLiveSeat(sig.seat)
          \/ sig.signal = "config" /\ SetCaptureConfig(sig.mode)
          \/ sig.signal = "endpoint" /\ ResolveLiveEndpoint(sig.seat)
    /\ UNCHANGED <<pool, open, gui, shots, session>>

-----------------------------------------------------------------------------
(* The stream threads, and the pool.                                         *)

FirstFrame(s) ==
    /\ session[s] = "connecting"
    /\ s \in SeatsOf(pool)
    /\ session' = [session EXCEPT ![s] = "streaming"]
    /\ UNCHANGED <<pool, open, gui, shots, worker, toWorker, toGui, events>>

StreamFails(s) ==
    /\ session[s] \in Alive
    /\ Failure(s)
    /\ session' = [session EXCEPT ![s] = "failed"]
    /\ UNCHANGED <<pool, open, gui, shots, worker, toWorker, toGui>>

\* A slot's seat is torn down, or a slot gets a seat.
PoolChange(k) ==
    /\ open /\ Event
    /\ \E s \in {NoDesktop} \cup (Desktops \ SeatsOf(pool)) :
           s # pool[k] /\ pool' = [pool EXCEPT ![k] = s]
    /\ UNCHANGED <<open, gui, shots, session, worker, toWorker, toGui>>

GuiSignal == ApplyPayload \/ OnLiveEndpoint
StreamStep(s) == FirstFrame(s) \/ StreamFails(s)

LiveNext ==
    \/ \E k \in Slots : ToggleFocus(k) \/ PoolChange(k)
    \/ \E m \in Modes : SetLiveMode(m)
    \/ ApplyPayload \/ OnLiveEndpoint \/ PollLive \/ Shutdown
    \/ WallTimer \/ FastTimer \/ HandleSignal
    \/ \E s \in Desktops : FirstFrame(s) \/ StreamFails(s)

\* Both event loops turn, the timers fire, and a stream gets a frame or fails.
LiveFairness ==
    /\ WF_liveVars(GuiSignal) /\ WF_liveVars(PollLive)
    /\ WF_liveVars(HandleSignal) /\ WF_liveVars(WallTimer)
    /\ \A s \in Desktops : WF_liveVars(StreamStep(s))

LiveSpec == LiveInit /\ [][LiveNext]_liveVars /\ LiveFairness

-----------------------------------------------------------------------------
(* Properties. *)

\* What a signal makes of the seat the worker leaves out of its stills, and of its
\* mode: a change of the mode clears the seat, too.
Handled(w, sig) ==
    CASE sig.signal = "live" -> [w EXCEPT !.live = sig.seat]
      [] sig.signal = "config" -> InMode(w, sig.mode)
      [] OTHER -> w

\* The seat that will be left out once what is queued has been handled.
Suppressed ==
    LET after[n \in 0..Len(toWorker)] ==
            IF n = 0 THEN [live |-> worker.live, mode |-> worker.mode]
            ELSE Handled(after[n - 1], toWorker[n])
    IN after[Len(toWorker)].live

\* The seat that gets no stills is the one whose stream is shown.
SuppressedIsShown ==
    /\ Suppressed = gui.live
    /\ gui.live # NoDesktop => gui.live = gui.target /\ session[gui.live] # "none"

\* The two threads agree about the stream, whatever is under way between them:
\* only the seat that should be streamed has a running stream, and only a seat
\* whose stream is shown gets no stills.  It needs LateAnswerFails = FALSE: the
\* endpoint of a seat whose stream runs already, or is about to, never fails to
\* resolve, for then _on_live_endpoint drops the target and leaves the stream.
OnlyTargetStreams ==
    /\ \A s \in Desktops : session[s] \in Alive => s = gui.target
    /\ SuppressedIsShown

\* The seat is seen: its stream runs and has a frame, or the last snapshot brought
\* a still of it.
Shown(s) == (gui.live = s /\ gui.ready /\ session[s] = "streaming") \/ s \in shots

\* The enlarged seat, while it exists and the window is open, is shown again and
\* again: no exchange of signals leaves it with neither stream nor stills.
FocusedIsShown ==
    []<>(~open \/ FocusedSeat(gui) \notin SeatsOf(pool) \/ Shown(FocusedSeat(gui)))
=============================================================================
