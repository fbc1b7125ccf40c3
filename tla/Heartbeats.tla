----------------------------- MODULE Heartbeats -----------------------------
(***************************************************************************)
(* The MCP server keeps the leases of its agent's seats alive              *)
(* (mcp/server.py: HeartbeatMonitor and the tools of OmavroomTools).  Every*)
(* tool that names a seat tracks it and beats it once; a background thread *)
(* beats every tracked seat at a fixed cadence.  A beat is a call to the   *)
(* daemon whose answer is applied later, so other threads act in between.  *)
(* Seat s is the seat the daemon gives to request s.                       *)
(***************************************************************************)
EXTENDS Integers, FiniteSets

CONSTANTS Seats,
          Tools,       \* the threads that run tool calls
          Background,  \* the heartbeat thread
          NoSeat,
          Interval,    \* leases.heartbeat_interval_s, in ticks
          Timeout,     \* leases.heartbeat_timeout_s, in ticks
          MaxMissed,   \* background beats of a seat lost in a row
          OwnSeatsOnly, \* tools name only seats their agent was given
          MayDie       \* the MCP server process may end and start again

ASSUME HeartbeatsAssumption ==
    /\ Background \notin Tools
    /\ NoSeat \notin Seats
    /\ Interval \in Nat \ {0} /\ Timeout \in Nat
    /\ Interval <= Timeout          \* LeasesConfig
    /\ MaxMissed \in Nat
    /\ OwnSeatsOnly \in BOOLEAN
    /\ MayDie \in BOOLEAN

VARIABLES request,  \* the request that ends up on a seat
          lease,    \* the seat's lease, in the daemon
          age,      \* ticks since its last renewal
          alive,    \* the MCP server process runs
          tracked,  \* HeartbeatMonitor._seats
          thread,   \* what every thread is doing
          since,    \* ticks since the background thread woke
          missed,   \* background beats lost in a row
          kept      \* seats this server has renewed and not let go since

daemonVars == <<request, lease, age>>
vars == <<daemonVars, alive, tracked, thread, since, missed, kept>>

Threads == Tools \cup {Background}

\* A thread beats the seats of todo, one after the other; op is what its
\* tool does after the beat.
ToBeat(todo, op, s) == [todo |-> todo, now |-> NoSeat, answer |-> "none", op |-> op, seat |-> s]

Idle == ToBeat({}, "none", NoSeat)

TypeOK ==
    /\ request \in [Seats -> {"none", "waiting", "claimed"}]
    /\ lease \in [Seats -> {"none", "active", "ended"}]
    /\ age \in [Seats -> 0..Timeout]
    /\ alive \in BOOLEAN
    /\ tracked \subseteq Seats
    /\ thread \in [Threads -> [todo: SUBSET Seats, now: Seats \cup {NoSeat},
                               answer: {"none", "renewed", "failed", "not_found"},
                               op: {"none", "call", "release", "discard"},
                               seat: Seats \cup {NoSeat}]]
    /\ since \in 0..Interval
    /\ missed \in [Seats -> 0..MaxMissed]
    /\ kept \subseteq Seats

Init ==
    /\ request = [s \in Seats |-> "none"]
    /\ lease = [s \in Seats |-> "none"]
    /\ age = [s \in Seats |-> 0]
    /\ alive = TRUE
    /\ tracked = {}
    /\ thread = [t \in Threads |-> Idle]
    /\ since = 0
    /\ missed = [s \in Seats |-> 0]
    /\ kept = {}

\* Mutant: the slower of the two.
CadenceSlow == IF 2 * Interval <= Timeout THEN Timeout \div 2 ELSE Interval

\* interval_s = min(interval, timeout / 2)
Cadence == IF 2 * Interval <= Timeout THEN Interval ELSE Timeout \div 2

Free(t) == alive /\ thread[t] = Idle

Track(s) == tracked' = tracked \cup {s}

-----------------------------------------------------------------------------
(***************************************************************************)
(* The tools.  _use_seat: track, then one beat.                            *)
(***************************************************************************)
UseSeat(t, s, op) ==
    /\ Free(t)
    /\ Track(s)
    /\ thread' = [thread EXCEPT ![t] = ToBeat({s}, op, s)]
    /\ UNCHANGED <<daemonVars, alive, since, missed, kept>>

\* request_seat enqueues; its own status call finds the seat only when the
\* daemon claimed it in between.
RequestSeat(t, s) ==
    /\ Free(t)
    /\ request[s] = "none"
    /\ request' = [request EXCEPT ![s] = "waiting"]
    /\ UNCHANGED <<lease, age, alive, tracked, thread, since, missed, kept>>

StatusShowsSeat(t, s) ==
    /\ request[s] = "claimed"
    /\ UseSeat(t, s, "none")

Named(s) == OwnSeatsOnly => request[s] = "claimed"

CallTool(t, s) == Named(s) /\ UseSeat(t, s, "call")
ReleaseTool(t, s) == Named(s) /\ UseSeat(t, s, "release")
DiscardTool(t, s) == Named(s) /\ UseSeat(t, s, "discard")

\* The heartbeat tool tracks the seat of the lease it renewed; a seat
\* without a lease is an error for the agent.
HeartbeatTool(t, s) ==
    /\ Free(t)
    /\ lease[s] = "active"
    /\ age' = [age EXCEPT ![s] = 0]
    /\ Track(s)
    /\ kept' = kept \cup {s}
    /\ UNCHANGED <<request, lease, alive, thread, since, missed>>

\* The tool's own call, after its beat; it starts a job at most, and only a
\* discard that does not fail stops the tracking.
FinishTool(t) ==
    /\ t \in Tools
    /\ thread[t].op # "none"
    /\ thread[t].todo = {} /\ thread[t].now = NoSeat
    /\ \/ /\ thread[t].op = "discard"
          /\ tracked' = tracked \ {thread[t].seat}
          /\ kept' = kept \ {thread[t].seat}
       \/ UNCHANGED <<tracked, kept>>
    /\ thread' = [thread EXCEPT ![t] = Idle]
    /\ UNCHANGED <<daemonVars, alive, since, missed>>

-----------------------------------------------------------------------------
(***************************************************************************)
(* One beat: the daemon renews the lease or finds none, or the call fails; *)
(* later the thread applies the answer.                                    *)
(***************************************************************************)
NextSeat(t) == CHOOSE s \in thread[t].todo : TRUE

Answered(t, s, a) ==
    thread' = [thread EXCEPT ![t] =
        [todo |-> @.todo \ {s}, now |-> s, answer |-> a, op |-> @.op, seat |-> @.seat]]

BeatReaches(t) ==
    /\ thread[t].now = NoSeat /\ thread[t].todo # {}
    /\ LET s == NextSeat(t)
           renewed == lease[s] = "active" IN
       /\ Answered(t, s, IF renewed THEN "renewed" ELSE "not_found")
       /\ age' = IF renewed THEN [age EXCEPT ![s] = 0] ELSE age
       /\ missed' = IF t = Background THEN [missed EXCEPT ![s] = 0] ELSE missed
       /\ kept' = IF renewed /\ s \in tracked THEN kept \cup {s} ELSE kept
    /\ UNCHANGED <<request, lease, alive, tracked, since>>

\* The daemon is briefly unavailable, or the call times out.
BeatFails(t) ==
    /\ thread[t].now = NoSeat /\ thread[t].todo # {}
    /\ LET s == NextSeat(t) IN
       /\ Answered(t, s, "failed")
       /\ IF t = Background
          THEN missed[s] < MaxMissed /\ missed' = [missed EXCEPT ![s] = @ + 1]
          ELSE UNCHANGED missed
    /\ UNCHANGED <<daemonVars, alive, tracked, since, kept>>

\* Mutant: a failed beat stops the tracking too.
ApplyBeatStrict(t) ==
    /\ thread[t].now # NoSeat
    /\ LET gone == IF thread[t].answer # "renewed" THEN {thread[t].now} ELSE {} IN
       /\ tracked' = tracked \ gone
       /\ kept' = kept \ gone
    /\ thread' = [thread EXCEPT ![t] =
           IF @.todo = {} /\ @.op = "none" THEN Idle ELSE ToBeat(@.todo, @.op, @.seat)]
    /\ UNCHANGED <<daemonVars, alive, since, missed>>

\* _beat_one: only not_found stops the tracking.
ApplyBeat(t) ==
    /\ thread[t].now # NoSeat
    /\ LET gone == IF thread[t].answer = "not_found" THEN {thread[t].now} ELSE {} IN
       /\ tracked' = tracked \ gone
       /\ kept' = kept \ gone
    /\ thread' = [thread EXCEPT ![t] =
           IF @.todo = {} /\ @.op = "none" THEN Idle ELSE ToBeat(@.todo, @.op, @.seat)]
    /\ UNCHANGED <<daemonVars, alive, since, missed>>

\* _run: every tracked seat, from a snapshot.
WakeBackground ==
    /\ Free(Background)
    /\ since = Cadence
    /\ since' = 0
    /\ thread' = [thread EXCEPT ![Background] = ToBeat(tracked, "none", NoSeat)]
    /\ UNCHANGED <<daemonVars, alive, tracked, missed, kept>>

-----------------------------------------------------------------------------
(***************************************************************************)
(* The daemon and the world.                                               *)
(***************************************************************************)
Claim(s) ==
    /\ request[s] = "waiting"
    /\ request' = [request EXCEPT ![s] = "claimed"]
    /\ lease' = [lease EXCEPT ![s] = "active"]
    /\ age' = [age EXCEPT ![s] = 0]
    /\ UNCHANGED <<alive, tracked, thread, since, missed, kept>>

\* _lease_is_dead of the heartbeat, then reclaim_expired.
Expire(s) ==
    /\ lease[s] = "active"
    /\ age[s] >= Timeout
    /\ lease' = [lease EXCEPT ![s] = "ended"]
    /\ UNCHANGED <<request, age, alive, tracked, thread, since, missed, kept>>

\* The job that some tool started, an operator, or the wall-clock ceiling
\* lease_timeout_s ends a lease, whatever its age.
CloseLease(s) ==
    /\ lease[s] = "active"
    /\ lease' = [lease EXCEPT ![s] = "ended"]
    /\ UNCHANGED <<request, age, alive, tracked, thread, since, missed, kept>>

\* A tick is longer than a round of the background thread, and the thread
\* wakes when its time has come.
Tick ==
    /\ alive => (since < Cadence /\ thread[Background] = Idle)
    /\ since' = IF alive THEN since + 1 ELSE since
    /\ age' = [s \in Seats |-> IF lease[s] = "active" /\ age[s] < Timeout THEN age[s] + 1 ELSE age[s]]
    /\ UNCHANGED <<request, lease, alive, tracked, thread, missed, kept>>

\* The process ends; a new one starts with nothing tracked.
ServerDies ==
    /\ MayDie
    /\ alive
    /\ alive' = FALSE
    /\ tracked' = {}
    /\ thread' = [t \in Threads |-> Idle]
    /\ kept' = {}
    /\ UNCHANGED <<daemonVars, since, missed>>

ServerStarts ==
    /\ ~alive
    /\ alive' = TRUE
    /\ since' = 0
    /\ UNCHANGED <<daemonVars, tracked, thread, missed, kept>>

BeatStep(t) == BeatReaches(t) \/ BeatFails(t) \/ ApplyBeat(t)

Next ==
    \/ \E t \in Tools, s \in Seats :
          \/ RequestSeat(t, s) \/ StatusShowsSeat(t, s) \/ HeartbeatTool(t, s)
          \/ CallTool(t, s) \/ ReleaseTool(t, s) \/ DiscardTool(t, s)
    \/ \E t \in Tools : FinishTool(t)
    \/ \E t \in Threads : BeatStep(t)
    \/ WakeBackground
    \/ \E s \in Seats : Claim(s) \/ Expire(s) \/ CloseLease(s)
    \/ Tick
    \/ ServerDies
    \/ ServerStarts

Spec == Init /\ [][Next]_vars
        /\ WF_vars(Tick) /\ WF_vars(WakeBackground)
        /\ \A t \in Threads : WF_vars(BeatStep(t))

-----------------------------------------------------------------------------
(* The heartbeat of a seat this server renewed does not lapse while the    *)
(* server lives and was not asked to discard it, even when up to MaxMissed *)
(* beats in a row are lost: "A heartbeat timeout then only detects a       *)
(* genuinely dead MCP server process".                                     *)
KeptAlive == \A s \in kept : lease[s] = "active" => age[s] < Timeout

Discards(s) == \E t \in Tools : thread[t].op = "discard" /\ thread[t].seat = s /\ FinishTool(t)

(* A tracked seat with a lease stays tracked until the agent discards it:  *)
(* no failed, late or reordered answer of a beat untracks it, when the     *)
(* agent names no seat before it was given one (_beat_one).                *)
TrackedStays ==
    [][\A s \in tracked :
         (alive' /\ lease[s] = "active" /\ lease'[s] = "active") => s \in tracked' \/ Discards(s)]_vars

(* HeartbeatMonitor: a heartbeat timeout "only detects a genuinely dead    *)
(* MCP server process (which stops beating), never a busy agent".          *)
TimeoutMeansDead == [][\A s \in Seats : (Expire(s) /\ lease' # lease) => ~alive]_vars
=============================================================================
