---------------------------- MODULE ClientsProofs ----------------------------
(***************************************************************************)
(* What a client process keeps, for any number of seats, threads, calls    *)
(* and connections.  Heartbeats: a seat whose lease goes on stays tracked, *)
(* whatever beats are lost or answered late, and a lease this server has   *)
(* renewed does not lapse while it lives, if the cadence leaves room for   *)
(* the beats that may be lost.  Rpc: what a caller is told of its call is  *)
(* what the daemon did of it.  LiveView: the GUI's two threads agree about *)
(* the stream of the enlarged seat, whatever is queued between them.       *)
(***************************************************************************)
EXTENDS MCClients, FiniteSetTheorems, SequenceTheorems, TLAPS

Job == [todo: SUBSET Seats, now: Seats \cup {NoSeat},
        answer: {"none", "renewed", "failed", "not_found"},
        op: {"none", "call", "release", "discard"}, seat: Seats \cup {NoSeat}]

Typed ==
    /\ request \in [Seats -> {"none", "waiting", "claimed"}]
    /\ lease \in [Seats -> {"none", "active", "ended"}]
    /\ tracked \subseteq Seats
    /\ thread \in [Threads -> Job]

\* The server and its threads know seats that were given to the agent only.
Given(s) == request[s] = "claimed"
KnownIsGiven ==
    /\ \A s \in Seats : Given(s) <=> lease[s] # "none"
    /\ \A s \in tracked : Given(s)
    /\ \A t \in Threads : \A s \in thread[t].todo : Given(s)

\* A lease that was not found will not be found again.
NotFoundIsFinal ==
    \A t \in Threads :
        (thread[t].now # NoSeat /\ thread[t].answer = "not_found") => lease[thread[t].now] = "ended"

Inv == Typed /\ KnownIsGiven /\ NotFoundIsFinal

\* How old a lease may be: a cadence for every beat lost in a row, and the time
\* since the last round, or a whole cadence while its seat waits in this round.
Allowed(s) ==
    missed[s] * Cadence + (IF s \in thread[Background].todo THEN Cadence ELSE since)

BeatsComeInTime == \A s \in kept : lease[s] = "active" => age[s] <= Allowed(s)

KeptInv ==
    /\ TypeOK /\ since <= Cadence
    /\ kept \subseteq tracked
    /\ ~alive => kept = {} /\ \A t \in Threads : thread[t] = Idle
    /\ thread[Background].todo # {} => since = 0  \* a round is shorter than a tick
    /\ BeatsComeInTime

\* The cadence leaves room for the beats that may be lost, and one that is not.
EnoughBeats == (MaxMissed + 1) * Cadence < Timeout

\* What the property asks of a step.
Stays ==
    \A s \in tracked :
        (alive' /\ lease[s] = "active" /\ lease'[s] = "active") => s \in tracked' \/ Discards(s)

-----------------------------------------------------------------------------
(* Heartbeats: tracked seats.                                              *)

\* An idle thread beats nothing.
LEMMA IdleType == Idle \in Job /\ Idle.todo = {} /\ Idle.now = NoSeat
  BY DEF Idle, ToBeat, Job

\* Nothing is tracked, and no beat is under way.
LEMMA InitInv == ASSUME Init PROVE Inv
  BY IdleType DEF Init, Inv, Typed, KnownIsGiven, Given, NotFoundIsFinal

\* A thread gets a new job, or goes on with its own, and may track one more seat.
LEMMA ThreadMoves ==
    ASSUME Inv, NEW t \in Threads, NEW j \in Job,
           thread' = [thread EXCEPT ![t] = j],
           \A s \in j.todo : Given(s),
           (j.now # NoSeat /\ j.answer = "not_found") => lease[j.now] = "ended",
           tracked' \subseteq Seats, \A s \in tracked' : Given(s),
           UNCHANGED <<request, lease>>
    PROVE  Inv'
<1>1. Typed'
  BY DEF Inv, Typed
<1>2. \A u \in Threads : thread'[u] = IF u = t THEN j ELSE thread[u]
  BY DEF Inv, Typed
<1>3. KnownIsGiven'
  BY <1>2 DEF Inv, KnownIsGiven, Given
<1>4. NotFoundIsFinal'
  BY <1>2 DEF Inv, NotFoundIsFinal
<1> QED BY <1>1, <1>3, <1>4 DEF Inv

\* A tool tracks only a seat that was given.
LEMMA UseSeatInv ==
    ASSUME Inv, NEW t \in Tools, NEW s \in Seats, Given(s),
           NEW op \in {"none", "call", "release", "discard"}, UseSeat(t, s, op)
    PROVE  Inv' /\ Stays
<1> DEFINE j == ToBeat({s}, op, s)
<1>2. j \in Job /\ j.todo = {s} /\ j.now = NoSeat
  BY DEF ToBeat, Job
<1>3. /\ tracked' = tracked \cup {s} /\ thread' = [thread EXCEPT ![t] = j]
      /\ UNCHANGED <<request, lease>>
  BY DEF UseSeat, Track, daemonVars
<1> HIDE DEF j
<1>4. Inv'
  BY <1>2, <1>3, ThreadMoves DEF Inv, Typed, KnownIsGiven, Threads
<1> QED BY <1>3, <1>4 DEF Stays

\* Every tool that starts.
LEMMA ToolsInv ==
    ASSUME OwnSeatsOnly = TRUE, Inv, NEW t \in Tools, NEW s \in Seats,
           \/ RequestSeat(t, s) \/ StatusShowsSeat(t, s) \/ HeartbeatTool(t, s)
           \/ CallTool(t, s) \/ ReleaseTool(t, s) \/ DiscardTool(t, s)
    PROVE  Inv' /\ Stays
<1>1. CASE RequestSeat(t, s)
  BY <1>1 DEF RequestSeat, Inv, Typed, KnownIsGiven, Given, NotFoundIsFinal, Stays
<1>2. CASE HeartbeatTool(t, s)
  BY <1>2 DEF HeartbeatTool, Track, Inv, Typed, KnownIsGiven, Given, NotFoundIsFinal, Stays
<1>3. CASE StatusShowsSeat(t, s) \/ CallTool(t, s) \/ ReleaseTool(t, s) \/ DiscardTool(t, s)
  BY <1>3, UseSeatInv DEF StatusShowsSeat, CallTool, ReleaseTool, DiscardTool, Named, Given
<1> QED BY <1>1, <1>2, <1>3

\* Of the tools that end, only a discard stops the tracking of its seat.
LEMMA FinishInv ==
    ASSUME Inv, NEW t \in Tools, FinishTool(t)
    PROVE  Inv' /\ Stays
<1>1. /\ thread' = [thread EXCEPT ![t] = Idle]
      /\ UNCHANGED <<request, lease>>
      /\ \/ UNCHANGED tracked
         \/ thread[t].op = "discard" /\ tracked' = tracked \ {thread[t].seat}
  BY DEF FinishTool, daemonVars
<1>2. t \in Threads
  BY DEF Threads
<1>3. Inv'
  BY <1>1, <1>2, IdleType, ThreadMoves DEF Inv, Typed, KnownIsGiven
<1>4. Stays
  BY <1>1 DEF Stays, Discards
<1> QED BY <1>3, <1>4

\* The answer of a beat: only that of a lease that has ended untracks its seat.
LEMMA BeatInv ==
    ASSUME Inv, NEW t \in Threads, BeatStep(t)
    PROVE  Inv' /\ Stays
<1>1. thread[t] \in Job
  BY DEF Inv, Typed
<1>2. ASSUME NEW s \in thread[t].todo, NEW a \in {"renewed", "not_found", "failed"},
             Answered(t, s, a), a = "not_found" => lease[s] # "active",
             UNCHANGED <<request, lease, tracked>>
      PROVE  Inv'
  <2> DEFINE j == [todo |-> thread[t].todo \ {s}, now |-> s, answer |-> a,
                   op |-> thread[t].op, seat |-> thread[t].seat]
  <2>1. s \in Seats /\ Given(s)
    BY <1>1 DEF Job, Inv, KnownIsGiven
  <2>2. thread' = [thread EXCEPT ![t] = j]
    BY <1>1, <1>2 DEF Answered, Job
  <2>3. j \in Job
    BY <1>1, <1>2, <2>1 DEF Job
  <2>4. lease[s] \in {"active", "ended"}
    BY <2>1 DEF Inv, Typed, KnownIsGiven
  <2> QED BY <1>2, <2>1, <2>2, <2>3, <2>4, ThreadMoves DEF Inv, Typed, KnownIsGiven
<1>3. CASE BeatReaches(t)
  <2>1. NextSeat(t) \in thread[t].todo
    BY <1>3 DEF BeatReaches, NextSeat
  <2> QED BY <1>2, <1>3, <2>1 DEF BeatReaches, Stays
<1>4. CASE BeatFails(t)
  <2>1. NextSeat(t) \in thread[t].todo
    BY <1>4 DEF BeatFails, NextSeat
  <2> QED BY <1>2, <1>4, <2>1 DEF BeatFails, daemonVars, Stays
<1>5. CASE ApplyBeat(t)
  <2> DEFINE now == thread[t].now
             gone == IF thread[t].answer = "not_found" THEN {now} ELSE {}
             j == IF thread[t].todo = {} /\ thread[t].op = "none"
                  THEN Idle ELSE ToBeat(thread[t].todo, thread[t].op, thread[t].seat)
  <2>1. /\ now # NoSeat /\ tracked' = tracked \ gone
        /\ UNCHANGED <<request, lease>>
    BY <1>5 DEF ApplyBeat, daemonVars
  <2>2. thread' = [thread EXCEPT ![t] = j]
    BY <1>5 DEF ApplyBeat
  <2>3. j \in Job /\ j.now = NoSeat /\ j.todo \subseteq thread[t].todo
    BY <1>1, IdleType DEF ToBeat, Job
  <2>4. \A s \in gone : lease[s] = "ended"
    BY <2>1 DEF Inv, NotFoundIsFinal
  <2> HIDE DEF j, gone
  <2>5. Inv'
    BY <2>1, <2>2, <2>3, ThreadMoves DEF Inv, Typed, KnownIsGiven
  <2>6. Stays
    BY <2>1, <2>4 DEF Stays
  <2> QED BY <2>5, <2>6
<1> QED BY <1>3, <1>4, <1>5 DEF BeatStep

\* The background thread takes a copy of what is tracked.
LEMMA WakeInv ==
    ASSUME Inv, WakeBackground
    PROVE  Inv' /\ Stays
<1> DEFINE j == ToBeat(tracked, "none", NoSeat)
<1>1. Background \in Threads
  BY DEF Threads
<1>2. thread' = [thread EXCEPT ![Background] = j]
  BY DEF WakeBackground
<1>3. j \in Job /\ j.todo = tracked /\ j.now = NoSeat
  BY DEF ToBeat, Job, Inv, Typed
<1>4. UNCHANGED <<request, lease, tracked>>
  BY DEF WakeBackground, daemonVars
<1>5. Inv'
  BY <1>1, <1>2, <1>3, <1>4, ThreadMoves DEF Inv, Typed, KnownIsGiven
<1> QED BY <1>4, <1>5 DEF Stays

\* The daemon gives seats and ends leases, time passes, the server dies and starts.
LEMMA WorldInv ==
    ASSUME Inv,
           (\E s \in Seats : Claim(s) \/ Expire(s) \/ CloseLease(s))
           \/ Tick \/ ServerDies \/ ServerStarts
    PROVE  Inv' /\ Stays
<1>1. ASSUME NEW s \in Seats, Claim(s)
      PROVE  Inv' /\ Stays
  <2>1. \A t \in Threads : thread[t] \in Job
    BY DEF Inv, Typed
  <2>2. lease[s] = "none"
    BY <1>1 DEF Claim, Inv, Typed, KnownIsGiven, Given
  <2> QED BY <1>1, <2>1, <2>2 DEF Claim, Inv, Typed, KnownIsGiven, Given, NotFoundIsFinal, Stays, Job
<1>2. ASSUME NEW s \in Seats, Expire(s) \/ CloseLease(s)
      PROVE  Inv' /\ Stays
  <2>1. /\ lease[s] = "active" /\ lease' = [lease EXCEPT ![s] = "ended"]
        /\ UNCHANGED <<request, tracked, thread>>
    BY <1>2 DEF Expire, CloseLease
  <2> QED BY <2>1 DEF Inv, Typed, KnownIsGiven, Given, NotFoundIsFinal, Stays
<1>3. CASE Tick \/ ServerStarts
  BY <1>3 DEF Tick, ServerStarts, daemonVars, Inv, Typed, KnownIsGiven, Given, NotFoundIsFinal, Stays
<1>4. CASE ServerDies
  BY <1>4, IdleType DEF ServerDies, daemonVars, Inv, Typed, KnownIsGiven, Given, NotFoundIsFinal, Stays
<1> QED BY <1>1, <1>2, <1>3, <1>4

\* Every step keeps the invariant and the tracking of live leases.
LEMMA NextInv ==
    ASSUME OwnSeatsOnly = TRUE, Inv, [Next]_vars
    PROVE  Inv' /\ Stays
<1>1. CASE Next
  BY <1>1, ToolsInv, FinishInv, BeatInv, WakeInv, WorldInv DEF Next
<1>2. CASE UNCHANGED vars
  BY <1>2 DEF vars, daemonVars, Inv, Typed, KnownIsGiven, Given, NotFoundIsFinal, Stays
<1> QED BY <1>1, <1>2

-----------------------------------------------------------------------------
(* No failed, late or reordered answer of a beat stops the tracking of a   *)
(* seat whose lease goes on (HeartbeatMonitor._beat_one), when the agent   *)
(* names only seats it was given.                                          *)
THEOREM LiveLeaseStaysTracked == ASSUME OwnSeatsOnly = TRUE PROVE Spec => TrackedStays
<1>1. Init => Inv
  BY InitInv
<1>2. Inv /\ [Next]_vars => Inv'
  BY NextInv
<1>3. Inv /\ [Next]_vars => [Stays]_vars
  BY NextInv
<1>4. TrackedStays <=> [][Stays]_vars
  BY DEF TrackedStays, Stays
<1> QED BY <1>1, <1>2, <1>3, <1>4, PTL DEF Spec

-----------------------------------------------------------------------------
(* Heartbeats: leases that are kept.                                       *)

\* interval_s = min(interval, timeout / 2)
LEMMA CadenceType ==
    ASSUME HeartbeatsAssumption PROVE Cadence \in Nat /\ Cadence <= Interval
  BY DEF Cadence, HeartbeatsAssumption

\* A beat that is lost allows one more cadence.
LEMMA AllowedLost ==
    ASSUME NEW m \in Nat, NEW c \in Nat
    PROVE  m * c \in Nat /\ (m + 1) * c = m * c + c
  OBVIOUS

\* With every beat lost that may be, a lease still gets no older than the beats allow.
LEMMA AllowedMost ==
    ASSUME NEW n \in Nat, NEW m \in 0..n, NEW c \in Nat
    PROVE  m * c + c <= (n + 1) * c
  OBVIOUS

\* No lease is kept before its first beat.
LEMMA KeptInit == ASSUME HeartbeatsAssumption, Init PROVE KeptInv
<1>1. TypeOK
  BY IdleType DEF Init, TypeOK, Job, HeartbeatsAssumption
<1>2. Background \in Threads /\ thread[Background].todo = {}
  BY IdleType DEF Init, Threads
<1> QED BY <1>1, <1>2, CadenceType DEF Init, KeptInv, BeatsComeInTime

\* A step that leaves the leases alone, makes none older and starts no round.
LEMMA KeptStays ==
    ASSUME HeartbeatsAssumption, KeptInv, TypeOK',
           UNCHANGED <<since, missed>>, kept' \subseteq tracked',
           ~alive' => kept' = {} /\ \A t \in Threads : thread'[t] = Idle,
           thread'[Background].todo \subseteq thread[Background].todo,
           \A s \in kept' : lease'[s] = "active" =>
               \/ age'[s] = 0
               \/ s \in kept /\ lease[s] = "active" /\ age'[s] = age[s]
                  /\ (s \in thread[Background].todo => s \in thread'[Background].todo)
    PROVE  KeptInv'
<1>1. BeatsComeInTime'
  <2> SUFFICES ASSUME NEW s \in kept', lease'[s] = "active" PROVE age'[s] <= Allowed(s)'
    BY DEF BeatsComeInTime
  <2>1. s \in Seats /\ missed[s] \in Nat /\ missed' = missed /\ since' = since /\ since \in Nat
    BY DEF TypeOK, KeptInv, HeartbeatsAssumption
  <2>2. Cadence \in Nat /\ missed[s] * Cadence \in Nat /\ Cadence' = Cadence
    BY <2>1, CadenceType, AllowedLost
  <2>3. since <= Cadence
    BY DEF KeptInv
  <2> DEFINE late == missed[s] * Cadence
  <2> HIDE DEF late
  <2>4. CASE age'[s] = 0
    BY <2>1, <2>2, <2>4 DEF Allowed, late
  <2>5. CASE age'[s] = age[s] /\ s \in kept /\ lease[s] = "active"
             /\ (s \in thread[Background].todo <=> s \in thread'[Background].todo)
    BY <2>1, <2>2, <2>5 DEF Allowed, KeptInv, BeatsComeInTime
  <2> QED BY <2>4, <2>5
<1>2. since' <= Cadence' /\ (thread'[Background].todo # {} => since' = 0)
  BY DEF KeptInv
<1> QED BY <1>1, <1>2 DEF KeptInv

\* Every step keeps the types.
LEMMA TypeNext ==
    ASSUME HeartbeatsAssumption, KeptInv, [Next]_vars PROVE TypeOK'
<1> USE DEF HeartbeatsAssumption, KeptInv, TypeOK, daemonVars, Job
<1>1. \A t \in Threads : thread[t] \in Job
  OBVIOUS
<1>2. ASSUME NEW t \in Tools, NEW s \in Seats, NEW op \in {"none", "call", "release", "discard"},
             UseSeat(t, s, op)
      PROVE  TypeOK'
  BY <1>2 DEF UseSeat, Track, ToBeat
<1>3. ASSUME NEW t \in Tools, NEW s \in Seats, RequestSeat(t, s) \/ HeartbeatTool(t, s)
      PROVE  TypeOK'
  BY <1>3 DEF RequestSeat, HeartbeatTool, Track
<1>4. ASSUME NEW t \in Tools, FinishTool(t) PROVE TypeOK'
  BY <1>4, IdleType DEF FinishTool
<1>5. ASSUME NEW t \in Threads, NEW s \in thread[t].todo, NEW a \in {"renewed", "not_found", "failed"},
             Answered(t, s, a)
      PROVE  thread' \in [Threads -> Job]
  <2> DEFINE j == [todo |-> thread[t].todo \ {s}, now |-> s, answer |-> a,
                   op |-> thread[t].op, seat |-> thread[t].seat]
  <2>1. j \in Job
    BY <1>1, <1>5
  <2>2. thread' = [thread EXCEPT ![t] = j]
    BY <1>5 DEF Answered
  <2> QED BY <2>1, <2>2
<1>6. ASSUME NEW t \in Threads, BeatReaches(t) PROVE TypeOK'
  <2>1. NextSeat(t) \in thread[t].todo /\ NextSeat(t) \in Seats
    BY <1>1, <1>6 DEF BeatReaches, NextSeat
  <2>2. thread' \in [Threads -> Job]
    BY <1>5, <1>6, <2>1 DEF BeatReaches
  <2> QED BY <1>6, <2>1, <2>2 DEF BeatReaches
<1>7. ASSUME NEW t \in Threads, BeatFails(t) PROVE TypeOK'
  <2>1. NextSeat(t) \in thread[t].todo /\ NextSeat(t) \in Seats
    BY <1>1, <1>7 DEF BeatFails, NextSeat
  <2>2. thread' \in [Threads -> Job]
    BY <1>5, <1>7, <2>1 DEF BeatFails
  <2> QED BY <1>7, <2>1, <2>2 DEF BeatFails
<1>8. ASSUME NEW t \in Threads, ApplyBeat(t) PROVE TypeOK'
  <2> DEFINE j == IF thread[t].todo = {} /\ thread[t].op = "none"
                  THEN Idle ELSE ToBeat(thread[t].todo, thread[t].op, thread[t].seat)
  <2>1. j \in Job
    BY <1>1, IdleType DEF ToBeat
  <2>2. thread' = [thread EXCEPT ![t] = j]
    BY <1>8 DEF ApplyBeat
  <2> HIDE DEF j
  <2> QED BY <1>8, <2>1, <2>2 DEF ApplyBeat
<1>9. CASE WakeBackground
  BY <1>9 DEF WakeBackground, ToBeat, Threads
<1>10. ASSUME NEW s \in Seats, Claim(s) \/ Expire(s) \/ CloseLease(s) PROVE TypeOK'
  BY <1>10 DEF Claim, Expire, CloseLease
<1>11. CASE Tick
  <2>1. since' \in 0..Interval
    BY <1>11, CadenceType DEF Tick
  <2>2. \A s \in Seats : age[s] \in 0..Timeout
    OBVIOUS
  <2>3. \A s \in Seats : (IF lease[s] = "active" /\ age[s] < Timeout
                           THEN age[s] + 1 ELSE age[s]) \in 0..Timeout
    BY <2>2
  <2>4. age' \in [Seats -> 0..Timeout]
    BY <1>11, <2>3 DEF Tick
  <2> QED BY <1>11, <2>1, <2>4 DEF Tick
<1>12. CASE ServerDies
  BY <1>12, IdleType DEF ServerDies
<1>13. CASE ServerStarts
  BY <1>13 DEF ServerStarts
<1>14. CASE UNCHANGED vars
  BY <1>14 DEF vars
<1> QED BY <1>2, <1>3, <1>4, <1>6, <1>7, <1>8, <1>9, <1>10, <1>11, <1>12, <1>13, <1>14
      DEF Next, StatusShowsSeat, CallTool, ReleaseTool, DiscardTool, BeatStep

\* A tool renews the lease it names, or leaves the leases alone.
LEMMA KeptTools ==
    ASSUME HeartbeatsAssumption, KeptInv, TypeOK', NEW t \in Tools,
           \/ \E s \in Seats :
                 \/ RequestSeat(t, s) \/ StatusShowsSeat(t, s) \/ HeartbeatTool(t, s)
                 \/ CallTool(t, s) \/ ReleaseTool(t, s) \/ DiscardTool(t, s)
           \/ FinishTool(t)
    PROVE  KeptInv'
<1> USE DEF HeartbeatsAssumption, KeptInv, TypeOK, daemonVars
<1>1. t # Background /\ t \in Threads /\ Background \in Threads
  BY DEF Threads
<1>2. ASSUME NEW s \in Seats, NEW op, UseSeat(t, s, op) PROVE KeptInv'
  <2>1. thread'[Background] = thread[Background] /\ alive' = TRUE
    BY <1>1, <1>2 DEF UseSeat, Free
  <2> QED BY <1>2, <2>1, KeptStays DEF UseSeat, Track
<1>3. ASSUME NEW s \in Seats, RequestSeat(t, s) PROVE KeptInv'
  BY <1>3, KeptStays DEF RequestSeat, Free
<1>4. ASSUME NEW s \in Seats, HeartbeatTool(t, s) PROVE KeptInv'
  BY <1>4, KeptStays DEF HeartbeatTool, Track, Free
<1>5. CASE FinishTool(t)
  <2>1. thread'[Background] = thread[Background] /\ alive' = alive /\ alive
    BY <1>1, <1>5, IdleType DEF FinishTool, Idle, ToBeat
  <2>2. kept' \subseteq tracked' /\ kept' \subseteq kept
    BY <1>5 DEF FinishTool
  <2>3. lease' = lease
    BY <1>5 DEF FinishTool
  <2> QED BY <1>5, <2>1, <2>2, <2>3, KeptStays DEF FinishTool
<1> QED BY <1>2, <1>3, <1>4, <1>5 DEF StatusShowsSeat, CallTool, ReleaseTool, DiscardTool

\* A beat renews its lease; one that is lost is one more that may be late.
LEMMA KeptBeats ==
    ASSUME HeartbeatsAssumption, KeptInv, TypeOK', NEW t \in Threads, BeatStep(t)
    PROVE  KeptInv'
<1> USE DEF HeartbeatsAssumption, KeptInv, TypeOK, daemonVars
<1>1. Background \in Threads /\ thread[t] \in Job
  BY DEF Threads, Job
<1>2. alive /\ thread[t] # Idle
  BY IdleType DEF BeatStep, BeatReaches, BeatFails, ApplyBeat
<1>3. ASSUME NEW s, NEW a, Answered(t, s, a)
      PROVE  /\ thread'[t].todo = thread[t].todo \ {s}
             /\ \A u \in Threads \ {t} : thread'[u] = thread[u]
  BY <1>3 DEF Answered
<1> DEFINE n == NextSeat(t)
<1>4. BeatReaches(t) \/ BeatFails(t) => n \in thread[t].todo /\ n \in Seats
  BY <1>1 DEF BeatReaches, BeatFails, NextSeat, Job
<1> HIDE DEF n
<1>5. CASE BeatReaches(t)
  <2>1. /\ \E a : Answered(t, n, a)
        /\ age' = IF lease[n] = "active" THEN [age EXCEPT ![n] = 0] ELSE age
        /\ missed' = IF t = Background THEN [missed EXCEPT ![n] = 0] ELSE missed
        /\ kept' = IF lease[n] = "active" /\ n \in tracked THEN kept \cup {n} ELSE kept
        /\ UNCHANGED <<request, lease, alive, tracked, since>>
    BY <1>5 DEF BeatReaches, n
  <2>2. kept' \subseteq tracked'
    BY <2>1
  <2>3. \A s \in kept' : lease'[s] = "active" =>
           \/ s = n /\ age'[s] = 0
           \/ s # n /\ s \in kept /\ age'[s] = age[s]
    BY <1>4, <1>5, <2>1
  <2>4. /\ thread'[t].todo = thread[t].todo \ {n}
        /\ \A u \in Threads \ {t} : thread'[u] = thread[u]
    BY <1>3, <2>1
  <2>5. CASE t # Background
    BY <1>1, <1>2, <2>1, <2>2, <2>3, <2>4, <2>5, KeptStays
  <2>6. CASE t = Background
    <3>1. BeatsComeInTime'
      <4> SUFFICES ASSUME NEW s \in kept', lease'[s] = "active" PROVE age'[s] <= Allowed(s)'
        BY DEF BeatsComeInTime
      <4>1. s \in Seats /\ Cadence \in Nat /\ since \in Nat
        BY CadenceType
      <4>2. CASE s = n
        BY <1>4, <2>1, <2>3, <2>4, <2>6, <4>1, <4>2 DEF Allowed
      <4>3. CASE s # n
        <5>1. Allowed(s)' = Allowed(s)
          BY <1>4, <2>1, <2>4, <2>6, <4>1, <4>3 DEF Allowed, Cadence
        <5> QED BY <2>1, <2>3, <4>3, <5>1 DEF BeatsComeInTime
      <4> QED BY <4>2, <4>3
    <3> QED BY <1>2, <2>1, <2>2, <2>4, <2>6, <3>1 DEF Cadence
  <2> QED BY <2>5, <2>6
<1>6. CASE BeatFails(t)
  <2>1. /\ \E a : Answered(t, n, a)
        /\ IF t = Background THEN missed' = [missed EXCEPT ![n] = missed[n] + 1] ELSE UNCHANGED missed
        /\ UNCHANGED <<request, lease, age, alive, tracked, since, kept>>
    BY <1>6 DEF BeatFails, n
  <2>4. /\ thread'[t].todo = thread[t].todo \ {n}
        /\ \A u \in Threads \ {t} : thread'[u] = thread[u]
    BY <1>3, <2>1
  <2>5. CASE t # Background
    BY <1>1, <1>2, <2>1, <2>4, <2>5, KeptStays
  <2>6. CASE t = Background
    <3>1. BeatsComeInTime'
      <4> SUFFICES ASSUME NEW s \in kept', lease'[s] = "active" PROVE age'[s] <= Allowed(s)'
        BY DEF BeatsComeInTime
      <4>1. s \in Seats /\ Cadence \in Nat /\ since \in Nat /\ missed[s] \in Nat
        BY <2>1, CadenceType
      <4>2. age[s] <= Allowed(s) /\ age' = age
        BY <2>1 DEF BeatsComeInTime
      <4>3. CASE s = n
        <5>0. s \in thread[Background].todo
          BY <1>4, <1>6, <2>6, <4>3
        <5>1. Allowed(s) = missed[s] * Cadence + Cadence
          BY <5>0 DEF Allowed
        <5>2. Allowed(s)' = (missed[s] + 1) * Cadence + since
          BY <1>4, <2>1, <2>4, <2>6, <4>1, <4>3 DEF Allowed, Cadence
        <5>3. (missed[s] + 1) * Cadence = missed[s] * Cadence + Cadence /\ missed[s] * Cadence \in Nat
          BY <4>1, AllowedLost
        <5> QED BY <4>1, <4>2, <5>1, <5>2, <5>3
      <4>4. CASE s # n
        <5>1. Allowed(s)' = Allowed(s)
          BY <1>4, <2>1, <2>4, <2>6, <4>1, <4>4 DEF Allowed, Cadence
        <5> QED BY <4>2, <5>1
      <4> QED BY <4>3, <4>4
    <3> QED BY <1>2, <2>1, <2>4, <2>6, <3>1 DEF Cadence
  <2> QED BY <2>5, <2>6
<1>7. CASE ApplyBeat(t)
  <2>1. /\ thread'[t].todo = thread[t].todo
        /\ \A u \in Threads \ {t} : thread'[u] = thread[u]
    BY <1>7, IdleType DEF ApplyBeat, ToBeat
  <2>2. kept' \subseteq kept /\ kept' \subseteq tracked'
    BY <1>7 DEF ApplyBeat
  <2> QED BY <1>1, <1>2, <1>7, <2>1, <2>2, KeptStays DEF ApplyBeat
<1> QED BY <1>5, <1>6, <1>7 DEF BeatStep

\* Time passes between two rounds only, and never past the next one.
LEMMA KeptWorld ==
    ASSUME HeartbeatsAssumption, KeptInv, TypeOK',
           \/ WakeBackground \/ Tick \/ ServerDies \/ ServerStarts
           \/ \E s \in Seats : Claim(s) \/ Expire(s) \/ CloseLease(s)
    PROVE  KeptInv'
<1> USE DEF HeartbeatsAssumption, KeptInv, TypeOK, daemonVars
<1>1. Background \in Threads
  BY DEF Threads
<1>2. ASSUME NEW s \in Seats, Claim(s) \/ Expire(s) \/ CloseLease(s) PROVE KeptInv'
  BY <1>2, KeptStays DEF Claim, Expire, CloseLease
<1>3. CASE ServerDies \/ ServerStarts
  BY <1>1, <1>3, IdleType, CadenceType DEF ServerDies, ServerStarts, BeatsComeInTime, Cadence
<1>4. ASSUME WakeBackground \/ Tick,
             \A s \in kept : lease[s] = "active" => age'[s] <= Allowed(s)'
      PROVE  KeptInv'
  BY <1>1, <1>4, IdleType, CadenceType DEF WakeBackground, Tick, BeatsComeInTime, Cadence, Free, ToBeat
<1>5. \A s \in kept : /\ s \in Seats /\ missed[s] \in Nat /\ since \in Nat /\ Cadence \in Nat
                      /\ missed[s] * Cadence \in Nat
  BY CadenceType, AllowedLost
<1>6. ASSUME WakeBackground, NEW s \in kept, lease[s] = "active"
      PROVE  age'[s] <= Allowed(s)'
  <2>1. Allowed(s) = missed[s] * Cadence + Cadence
    BY <1>6, IdleType DEF WakeBackground, Free, Allowed
  <2>2. Allowed(s)' = missed[s] * Cadence + Cadence
    BY <1>1, <1>6 DEF WakeBackground, Allowed, ToBeat, Cadence
  <2> QED BY <1>6, <2>1, <2>2 DEF WakeBackground, BeatsComeInTime
<1>7. ASSUME Tick, NEW s \in kept, lease[s] = "active"
      PROVE  age'[s] <= Allowed(s)'
  <2>1. alive /\ thread[Background] = Idle
    BY <1>7 DEF Tick
  <2>2. Allowed(s) = missed[s] * Cadence + since
    BY <2>1, IdleType DEF Allowed
  <2>3. Allowed(s)' = missed[s] * Cadence + (since + 1)
    BY <1>7, <2>1, IdleType DEF Tick, Allowed, Cadence
  <2>4. age'[s] <= age[s] + 1 /\ age[s] \in Nat /\ age'[s] \in Nat
    BY <1>5, <1>7 DEF Tick
  <2>5. age[s] <= Allowed(s)
    BY <1>7 DEF BeatsComeInTime
  <2> QED BY <1>5, <2>2, <2>3, <2>4, <2>5
<1> QED BY <1>2, <1>3, <1>4, <1>6, <1>7

\* Every step keeps the invariant, and so every behaviour does.
LEMMA KeptNext == ASSUME HeartbeatsAssumption, KeptInv, [Next]_vars PROVE KeptInv'
<1>1. TypeOK'
  BY TypeNext
<1>2. CASE Next
  BY <1>1, <1>2, KeptTools, KeptBeats, KeptWorld DEF Next
<1>3. CASE UNCHANGED vars
  BY <1>3 DEF vars, daemonVars, KeptInv, TypeOK, BeatsComeInTime, Allowed, Cadence
<1> QED BY <1>2, <1>3

LEMMA KeptInvAlways == ASSUME HeartbeatsAssumption PROVE Spec => []KeptInv
<1>1. Init => KeptInv
  BY KeptInit
<1>2. KeptInv /\ [Next]_vars => KeptInv'
  BY KeptNext
<1> QED BY <1>1, <1>2, PTL DEF Spec

(* Every variable keeps its type.                                          *)
THEOREM HeartbeatTypes == ASSUME HeartbeatsAssumption PROVE Spec => []TypeOK
<1>1. KeptInv => TypeOK
  BY DEF KeptInv
<1> QED BY <1>1, KeptInvAlways, PTL

LEMMA KeptLives == ASSUME HeartbeatsAssumption, EnoughBeats, KeptInv PROVE KeptAlive
<1> SUFFICES ASSUME NEW s \in kept, lease[s] = "active" PROVE age[s] < Timeout
  BY DEF KeptAlive
<1>1. /\ s \in Seats /\ age[s] \in Nat /\ missed[s] \in 0..MaxMissed /\ since \in Nat
      /\ MaxMissed \in Nat /\ Timeout \in Nat /\ since <= Cadence
  BY DEF KeptInv, TypeOK, HeartbeatsAssumption
<1>2. Cadence \in Nat /\ missed[s] * Cadence \in Nat
  BY <1>1, CadenceType, AllowedLost
<1>3. Allowed(s) <= missed[s] * Cadence + Cadence /\ Allowed(s) \in Nat
  BY <1>1, <1>2 DEF Allowed
<1>4. missed[s] * Cadence + Cadence <= (MaxMissed + 1) * Cadence
  BY <1>1, <1>2, AllowedMost
<1>5. age[s] <= Allowed(s)
  BY DEF KeptInv, BeatsComeInTime
<1> DEFINE most == missed[s] * Cadence + Cadence
           all == (MaxMissed + 1) * Cadence
<1>6. most \in Nat /\ all \in Nat
  BY <1>1, <1>2, AllowedLost
<1>7. all < Timeout
  BY DEF EnoughBeats
<1> HIDE DEF most, all
<1>8. Allowed(s) <= most /\ most <= all
  BY <1>3, <1>4 DEF most, all
<1> QED BY <1>1, <1>3, <1>5, <1>6, <1>7, <1>8

(* No lease this server has renewed lapses while it lives, for any cadence *)
(* that leaves room for the beats that may be lost in a row                *)
(* (HeartbeatMonitor: the timeout "only detects a genuinely dead MCP server*)
(* process").                                                              *)
THEOREM KeptLeasesLive ==
    ASSUME HeartbeatsAssumption, EnoughBeats PROVE Spec => []KeptAlive
<1>1. KeptInv => KeptAlive
  BY KeptLives
<1> QED BY <1>1, KeptInvAlways, PTL

-----------------------------------------------------------------------------
(* Rpc: calls.                                                             *)

\* The id the daemon has or may still read on a connection and has not
\* executed, or 0.
Pending(k) ==
    IF k.work # 0 /\ ~k.did THEN k.work
    ELSE IF k.srv \in {"backlog", "open", "shut"} THEN k.inbox ELSE 0

Owner(k) == callOf[Pending(k)]

\* A connection carries one id at a time, and a handler that works is there.
CarriesOne(k) ==
    /\ k.inbox # 0 => k.work = 0 /\ k.out = 0
    /\ k.work # 0 => k.out = 0
    /\ k.did /\ k.srv # "gone" => k.work # 0
    /\ k.srv \in {"backlog", "ending", "gone"} => k.work = 0
    /\ k.reset => k.srv = "gone"

Empty(k) == k.inbox = 0 /\ k.work = 0 /\ k.out = 0

\* What was sent on it is unread, or nothing was.
Unread(k) == k.reset \/ k.srv = "backlog"

Waiting(k) == k.inbox # 0 \/ (k.work # 0 /\ ~k.did)
Executed(k) == (k.work # 0 /\ k.did) \/ k.out # 0

\* Who holds the lock is in a call, and one that has a connection sends.
HolderCalls ==
    /\ holder = Nobody <=> step = "idle"
    /\ holder # Nobody => outcome[holder] = "none"
    /\ step \in {"send", "recv"} => cur # 0
    /\ step = "connect" => cur = 0

OthersAreClosed ==
    \A i \in DOMAIN conns : CarriesOne(conns[i]) /\ (i # cur => conns[i].cli = "closed")

\* The connection in use carries the last id issued while its call waits, and
\* nothing else.
CarriesCall(k) ==
    /\ Len(callOf) > 0 /\ callOf[Len(callOf)] = holder
    /\ {k.inbox, k.work, k.out} \subseteq {0, Len(callOf)}
    /\ Waiting(k) => ran[holder] = 0
    /\ Executed(k) => ran[holder] = 1
    /\ Unread(k) => k.inbox # 0

CurrentIsKnown ==
    cur # 0 => IF step = "recv" THEN CarriesCall(conns[cur]) ELSE Empty(conns[cur])

\* What the daemon may still execute was not executed, and belongs to a call
\* that is over or to the one that waits for it; no call has two such ids.
PendingIsNew ==
    \A i \in DOMAIN conns : Pending(conns[i]) # 0 =>
        /\ ran[Owner(conns[i])] = 0
        /\ outcome[Owner(conns[i])] # "none" \/ (i = cur /\ step = "recv")
        /\ \A j \in DOMAIN conns :
              Pending(conns[j]) # 0 /\ Owner(conns[j]) = Owner(conns[i]) => j = i

NotYetRun ==
    \A c \in Callers : outcome[c] = "none" /\ (c = holder => step # "recv") => ran[c] = 0

CallsInv ==
    /\ RpcTypeOK /\ HolderCalls /\ OthersAreClosed /\ CurrentIsKnown /\ PendingIsNew
    /\ NotYetRun /\ CallsAreExact

\* What is pending is an id that was issued.
LEMMA PendingType ==
    ASSUME RpcTypeOK, NEW i \in DOMAIN conns
    PROVE  /\ conns[i] \in Conn /\ i \in Nat \ {0}
           /\ Pending(conns[i]) \in 0..Len(callOf)
           /\ Pending(conns[i]) # 0 => Owner(conns[i]) \in Callers
<1>1. conns[i] \in Conn /\ i \in Nat \ {0}
  BY DEF RpcTypeOK
<1>2. Pending(conns[i]) \in 0..Len(callOf)
  BY <1>1 DEF Pending, Conn, Ids, RpcTypeOK
<1>3. Pending(conns[i]) # 0 => Owner(conns[i]) \in Callers
  BY <1>2 DEF Owner, RpcTypeOK
<1> QED BY <1>1, <1>2, <1>3

\* What the daemon may do to a connection without executing anything, and the
\* client by shutting it down.
Follows(k, l) ==
    /\ k.cli = "closed" => l.cli = "closed"
    /\ CarriesOne(l)
    /\ Pending(l) \in {0, Pending(k)}
    /\ {l.inbox, l.work, l.out} \subseteq {0, k.inbox, k.work, k.out}
    /\ Waiting(l) => Waiting(k)
    /\ Executed(l) => Executed(k)
    /\ Unread(l) => l.inbox # 0 \/ (Unread(k) /\ l.inbox = k.inbox)

\* Connections that follow what they were keep the invariant.
LEMMA FollowsKeeps ==
    ASSUME CallsInv, conns' \in Seq(Conn), DOMAIN conns' = DOMAIN conns,
           \A i \in DOMAIN conns : Follows(conns[i], conns'[i]),
           UNCHANGED <<clientVars, callOf, ran, restarts>>,
           stage' \in {"up", "stopping", "draining", "down"}
    PROVE  CallsInv'
<1> USE DEF clientVars
<1>1. RpcTypeOK'
  <2>1. Len(conns') = Len(conns)
    BY DEF CallsInv, RpcTypeOK
  <2> QED BY <2>1 DEF CallsInv, RpcTypeOK, Conn, Ids
<1>2. HolderCalls' /\ NotYetRun' /\ CallsAreExact'
  BY DEF CallsInv, HolderCalls, NotYetRun, CallsAreExact, AtMostOnce, RepliesAreOwn
<1>3. OthersAreClosed'
  BY DEF CallsInv, OthersAreClosed, Follows, CarriesOne
<1>4. CurrentIsKnown'
  <2> SUFFICES ASSUME cur # 0
               PROVE  IF step = "recv" THEN CarriesCall(conns[cur])' ELSE Empty(conns[cur])'
    BY DEF CurrentIsKnown
  <2>1. cur \in DOMAIN conns /\ cur' = cur
    BY DEF CallsInv, RpcTypeOK
  <2>2. Follows(conns[cur], conns'[cur])
    BY <2>1
  <2>3. CASE step = "recv"
    <3>1. CarriesCall(conns[cur])
      BY <2>3 DEF CallsInv, CurrentIsKnown
    <3>2. /\ Len(callOf') > 0 /\ callOf'[Len(callOf')] = holder'
          /\ {conns'[cur].inbox, conns'[cur].work, conns'[cur].out} \subseteq {0, Len(callOf)}
      BY <2>2, <3>1 DEF CarriesCall, Follows
    <3>3. /\ Waiting(conns'[cur]) => ran[holder] = 0
          /\ Executed(conns'[cur]) => ran[holder] = 1
          /\ Unread(conns'[cur]) => conns'[cur].inbox # 0
      BY <2>2, <3>1 DEF CarriesCall, Follows
    <3> QED BY <2>1, <2>3, <3>2, <3>3 DEF CarriesCall, Waiting, Executed, Unread
  <2>4. CASE step # "recv"
    BY <2>1, <2>2, <2>4 DEF CallsInv, CurrentIsKnown, Empty, Follows
  <2> QED BY <2>3, <2>4
<1>5. PendingIsNew'
  <2>1. ASSUME NEW i \in DOMAIN conns, Pending(conns'[i]) # 0
        PROVE  Pending(conns[i]) # 0 /\ Owner(conns[i])' = Owner(conns[i])
    BY <2>1 DEF Follows, Owner, Pending
  <2> QED BY <2>1 DEF CallsInv, PendingIsNew, Pending
<1> QED BY <1>1, <1>2, <1>3, <1>4, <1>5 DEF CallsInv

\* It may stay as it is.
LEMMA FollowsItself == ASSUME NEW k, CarriesOne(k) PROVE Follows(k, k)
  BY DEF Follows

\* One connection moves.
LEMMA OneFollows ==
    ASSUME CallsInv, NEW i \in DOMAIN conns, NEW k \in Conn, Follows(conns[i], k),
           conns' = [conns EXCEPT ![i] = k],
           UNCHANGED <<clientVars, callOf, ran, stage, restarts>>
    PROVE  CallsInv'
<1>1. conns' \in Seq(Conn) /\ DOMAIN conns' = DOMAIN conns
  BY DEF CallsInv, RpcTypeOK
<1>2. \A j \in DOMAIN conns : conns'[j] = IF j = i THEN k ELSE conns[j]
  BY DEF CallsInv, RpcTypeOK
<1>3. \A j \in DOMAIN conns : Follows(conns[j], conns'[j])
  BY <1>2, FollowsItself DEF CallsInv, OthersAreClosed
<1>4. stage' \in {"up", "stopping", "draining", "down"}
  BY DEF CallsInv, RpcTypeOK
<1> QED BY <1>1, <1>3, <1>4, FollowsKeeps

\* A connection that its handler, or the process, leaves behind.
LEMMA GoneType ==
    ASSUME RpcTypeOK, NEW k \in Conn
    PROVE  /\ Gone(k) \in Conn
           /\ Gone(k).cli = k.cli /\ Gone(k).srv = "gone" /\ Gone(k).inbox = k.inbox
           /\ Gone(k).work = 0 /\ Gone(k).did = k.did /\ Gone(k).out = k.out
           /\ Gone(k).reset <=> (k.reset \/ k.inbox # 0 \/ k.srv = "backlog")
<1> DEFINE b == k.reset \/ k.inbox # 0 \/ k.srv = "backlog"
<1>1. b \in BOOLEAN
  OBVIOUS
<1>2. Gone(k) = [k EXCEPT !.srv = "gone", !.work = 0, !.reset = b]
  BY DEF Gone
<1>3. b <=> (k.reset \/ k.inbox # 0 \/ k.srv = "backlog")
  OBVIOUS
<1> DEFINE l == [k EXCEPT !.srv = "gone", !.work = 0, !.reset = b]
<1> HIDE DEF b
<1>4. l \in Conn
  <2>1. 0 \in Ids
    BY DEF Ids, RpcTypeOK
  <2> QED BY <1>1, <2>1 DEF Conn
<1>5. /\ l.cli = k.cli /\ l.srv = "gone" /\ l.inbox = k.inbox
      /\ l.work = 0 /\ l.did = k.did /\ l.out = k.out /\ l.reset = b
  BY DEF Conn
<1>6. Gone(k) = l
  BY <1>2
<1> HIDE DEF l
<1> QED BY <1>3, <1>4, <1>5, <1>6

\* Leaving a connection behind gives up what was not executed.
LEMMA GoneFollows ==
    ASSUME RpcTypeOK, NEW k \in Conn, CarriesOne(k) PROVE Gone(k) \in Conn /\ Follows(k, Gone(k))
<1>1. Gone(k) \in Conn
  BY GoneType
<1>2. Follows(k, Gone(k))
  BY GoneType DEF Conn, Follows, CarriesOne, Pending, Waiting, Executed, Unread
<1> QED BY <1>1, <1>2

\* The accept loop and the handlers, but for the execution.
LEMMA ServerKeeps ==
    ASSUME CallsInv, NEW i \in DOMAIN conns,
           Accept(i) \/ Take(i) \/ Reply(i) \/ StopReading(i) \/ CloseHandler(i)
    PROVE  CallsInv'
<1> DEFINE k == conns[i]
<1>1. /\ k \in Conn /\ CarriesOne(k)
      /\ UNCHANGED <<clientVars, callOf, ran, stage, restarts>>
  BY PendingType DEF CallsInv, OthersAreClosed, Accept, Take, Reply, StopReading, CloseHandler,
                     ServerOnly
<1> USE DEF Follows, CarriesOne, Pending, Waiting, Executed, Unread
<1>2. CASE Accept(i)
  <2> DEFINE b == k.reset \/ k.inbox # 0
             l == [k EXCEPT !.srv = "open"]
             m == [k EXCEPT !.srv = "gone", !.reset = b]
  <2>1. k.srv = "backlog" /\ (conns' = [conns EXCEPT ![i] = l] \/ conns' = [conns EXCEPT ![i] = m])
    BY <1>2 DEF Accept
  <2>2. b \in BOOLEAN /\ (b <=> (k.reset \/ k.inbox # 0))
    OBVIOUS
  <2> HIDE DEF b
  <2>3. l \in Conn /\ m \in Conn
    BY <1>1, <2>2 DEF Conn
  <2>4. Follows(k, l) /\ Follows(k, m)
    BY <1>1, <2>1, <2>2 DEF Conn
  <2> QED BY <1>1, <2>1, <2>3, <2>4, OneFollows
<1>3. CASE Take(i)
  <2> DEFINE l == [k EXCEPT !.work = k.inbox, !.inbox = 0]
  <2>1. conns' = [conns EXCEPT ![i] = l]
    BY <1>1, <1>3 DEF Take
  <2>2. l \in Conn
    BY <1>1 DEF Conn, Ids
  <2>3. Follows(k, l)
    BY <1>1, <1>3 DEF Conn, Take
  <2> QED BY <1>1, <2>1, <2>2, <2>3, OneFollows
<1>4. CASE Reply(i)
  <2> DEFINE writes == k.cli = "open" /\ k.srv = "open"
             l == [k EXCEPT !.work = 0, !.did = FALSE,
                            !.out = IF writes THEN k.work ELSE k.out,
                            !.srv = IF writes /\ stage = "up" THEN k.srv ELSE "ending"]
  <2>1. conns' = [conns EXCEPT ![i] = l]
    BY <1>1, <1>4 DEF Reply
  <2>2. l \in Conn
    BY <1>1 DEF Conn
  <2>3. Follows(k, l)
    BY <1>1, <1>4 DEF Conn, Reply
  <2> QED BY <1>1, <2>1, <2>2, <2>3, OneFollows
<1>5. CASE StopReading(i)
  <2> DEFINE l == [k EXCEPT !.srv = "ending"]
  <2>1. conns' = [conns EXCEPT ![i] = l]
    BY <1>1, <1>5 DEF StopReading
  <2>2. l \in Conn
    BY <1>1 DEF Conn
  <2>3. Follows(k, l)
    BY <1>1, <1>5 DEF Conn, StopReading
  <2> QED BY <1>1, <2>1, <2>2, <2>3, OneFollows
<1>6. CASE CloseHandler(i)
  <2>1. conns' = [conns EXCEPT ![i] = Gone(k)]
    BY <1>6 DEF CloseHandler
  <2> QED BY <1>1, <2>1, GoneFollows, OneFollows DEF CallsInv
<1> QED BY <1>2, <1>3, <1>4, <1>5, <1>6

\* The daemon stops, shuts its connections or ends; the client shuts its own.
LEMMA StopKeeps ==
    ASSUME CallsInv, StopServer \/ ShutConnections \/ ProcessEnds
    PROVE  CallsInv'
<1>1. \A i \in DOMAIN conns : conns[i] \in Conn /\ CarriesOne(conns[i])
  BY PendingType DEF CallsInv, OthersAreClosed
<1>2. /\ UNCHANGED <<clientVars, callOf, ran, restarts>>
      /\ stage' \in {"up", "stopping", "draining", "down"}
  BY DEF StopServer, ShutConnections, ProcessEnds, ServerOnly
<1>3. ASSUME NEW k \in Conn, CarriesOne(k), k.srv = "open"
      PROVE  [k EXCEPT !.srv = "shut"] \in Conn /\ Follows(k, [k EXCEPT !.srv = "shut"])
  BY <1>3 DEF Conn, Follows, CarriesOne, Pending, Waiting, Executed, Unread
<1>4. \/ conns' = [i \in DOMAIN conns |-> IF conns[i].srv = "backlog" THEN Gone(conns[i]) ELSE conns[i]]
      \/ conns' = [i \in DOMAIN conns |->
                     IF conns[i].srv = "open" THEN [conns[i] EXCEPT !.srv = "shut"] ELSE conns[i]]
      \/ conns' = [i \in DOMAIN conns |-> IF conns[i].srv = "gone" THEN conns[i] ELSE Gone(conns[i])]
  BY DEF StopServer, ShutConnections, ProcessEnds
<1>5. DOMAIN conns' = DOMAIN conns
  BY <1>4
<1>6. \A i \in DOMAIN conns : conns'[i] \in Conn /\ Follows(conns[i], conns'[i])
  <2> SUFFICES ASSUME NEW i \in DOMAIN conns PROVE conns'[i] \in Conn /\ Follows(conns[i], conns'[i])
    OBVIOUS
  <2>1. \/ conns'[i] = conns[i] \/ conns'[i] = Gone(conns[i])
        \/ conns[i].srv = "open" /\ conns'[i] = [conns[i] EXCEPT !.srv = "shut"]
    BY <1>4
  <2> QED BY <1>1, <1>3, <2>1, FollowsItself, GoneFollows DEF CallsInv
<1>7. conns' \in Seq(Conn)
  <2>1. conns' \in [1..Len(conns) -> Conn] /\ Len(conns) \in Nat
    BY <1>4, <1>5, <1>6 DEF CallsInv, RpcTypeOK
  <2> QED BY <2>1
<1> QED BY <1>2, <1>5, <1>6, <1>7, FollowsKeeps
\* The daemon executes a request: what is pending was not executed, and no
\* other connection has an id of that call.
LEMMA ExecuteKeeps ==
    ASSUME CallsInv, NEW i \in DOMAIN conns, Execute(i)
    PROVE  CallsInv'
<1> DEFINE k == conns[i]
           l == [k EXCEPT !.did = TRUE]
           c == callOf[k.work]
<1>1. /\ k \in Conn /\ CarriesOne(k) /\ k.work # 0 /\ ~k.did
      /\ UNCHANGED <<clientVars, callOf, stage, restarts>>
  BY PendingType DEF CallsInv, OthersAreClosed, Execute, ServerOnly
<1>2. Pending(k) = k.work /\ Owner(k) = c /\ c \in Callers
  BY <1>1, PendingType DEF Pending, Owner, CallsInv
<1>3. /\ ran[c] = 0
      /\ outcome[c] # "none" \/ (i = cur /\ step = "recv")
      /\ \A j \in DOMAIN conns : Pending(conns[j]) # 0 /\ Owner(conns[j]) = c => j = i
  BY <1>1, <1>2 DEF CallsInv, PendingIsNew
<1>4. /\ conns' \in Seq(Conn) /\ DOMAIN conns' = DOMAIN conns /\ Len(conns') = Len(conns)
      /\ conns'[i] = l /\ \A j \in DOMAIN conns \ {i} : conns'[j] = conns[j]
  <2>1. conns' = [conns EXCEPT ![i] = l]
    BY <1>1 DEF Execute
  <2>2. l \in Conn
    BY <1>1 DEF Conn
  <2> HIDE DEF l
  <2> QED BY <2>1, <2>2 DEF CallsInv, RpcTypeOK
<1>5. ran' \in [Callers -> Nat] /\ ran'[c] = 1 /\ \A d \in Callers \ {c} : ran'[d] = ran[d]
  BY <1>2, <1>3 DEF Execute, CallsInv, RpcTypeOK
<1>6. /\ l.cli = k.cli /\ l.srv = k.srv /\ l.inbox = 0 /\ l.work = k.work /\ l.did
      /\ l.out = 0 /\ l.reset = k.reset
  BY <1>1 DEF Conn, CarriesOne
<1> HIDE DEF l
<1>7. CarriesOne(l) /\ Pending(l) = 0 /\ ~Waiting(l)
  BY <1>1, <1>6 DEF CarriesOne, Pending, Waiting
<1>8. RpcTypeOK'
  BY <1>1, <1>4, <1>5 DEF CallsInv, RpcTypeOK, clientVars, Conn, Ids
<1>9. HolderCalls'
  BY <1>1 DEF CallsInv, HolderCalls, clientVars
<1>10. OthersAreClosed'
  BY <1>1, <1>4, <1>6, <1>7 DEF CallsInv, OthersAreClosed, clientVars, CarriesOne
<1>11. CurrentIsKnown'
  <2> SUFFICES ASSUME cur # 0
               PROVE  IF step = "recv" THEN CarriesCall(conns[cur])' ELSE Empty(conns[cur])'
    BY <1>1 DEF CurrentIsKnown, clientVars
  <2>1. cur \in DOMAIN conns /\ cur' = cur /\ holder' = holder
    BY <1>1 DEF CallsInv, RpcTypeOK, clientVars
  <2>2. CASE step # "recv"
    <3>1. Empty(conns[cur])
      BY <2>2 DEF CallsInv, CurrentIsKnown
    <3>2. cur # i
      BY <1>1, <3>1 DEF Empty
    <3> QED BY <1>4, <2>1, <2>2, <3>1, <3>2 DEF Empty
  <2>3. CASE step = "recv"
    <3>1. CarriesCall(conns[cur])
      BY <2>3 DEF CallsInv, CurrentIsKnown
    <3>2. holder \in Callers /\ outcome[holder] = "none"
      BY <2>3 DEF CallsInv, HolderCalls, RpcTypeOK
    <3>3. CASE cur = i
      <4>1. k.work = Len(callOf) /\ c = holder
        BY <1>1, <3>1, <3>3 DEF CarriesCall
      <4>2. conns'[cur] = l /\ ran'[holder] = 1
        BY <1>4, <1>5, <3>3, <4>1
      <4>3. /\ Len(callOf) > 0 /\ callOf[Len(callOf)] = holder
            /\ {l.inbox, l.work, l.out} \subseteq {0, Len(callOf)} /\ ~Unread(l)
        BY <1>1, <1>6, <3>1, <3>3 DEF CarriesCall, CarriesOne, Unread
      <4>4. CarriesCall(conns[cur])'
        BY <1>1, <1>7, <2>1, <4>2, <4>3 DEF CarriesCall, Waiting, Executed, Unread, clientVars
      <4> QED BY <1>1, <2>3, <4>4 DEF clientVars
    <3>4. CASE cur # i
      <4>1. c # holder
        BY <1>3, <3>2, <3>4
      <4>2. conns'[cur] = conns[cur] /\ ran'[holder] = ran[holder]
        BY <1>4, <1>5, <2>1, <3>2, <3>4, <4>1
      <4> QED BY <1>1, <2>1, <2>3, <3>1, <4>2 DEF CarriesCall, Waiting, Executed, Unread
    <3> QED BY <3>3, <3>4
  <2> QED BY <2>2, <2>3
<1>12. PendingIsNew'
  <2> SUFFICES ASSUME NEW j \in DOMAIN conns, Pending(conns'[j]) # 0
               PROVE  /\ ran'[Owner(conns[j])'] = 0
                      /\ outcome[Owner(conns[j])'] # "none" \/ (j = cur /\ step = "recv")
                      /\ \A m \in DOMAIN conns : Pending(conns'[m]) # 0 /\ Owner(conns[m])' = Owner(conns[j])'
                            => m = j
    BY <1>1, <1>4 DEF PendingIsNew, Pending, clientVars
  <2>1. \A m \in DOMAIN conns : Pending(conns'[m]) # 0 =>
           m # i /\ conns'[m] = conns[m] /\ Pending(conns[m]) # 0 /\ Owner(conns[m])' = Owner(conns[m])
    BY <1>1, <1>4, <1>7 DEF Owner, Pending
  <2>2. Owner(conns[j]) \in Callers /\ Owner(conns[j]) # c
    BY <1>3, <2>1, PendingType DEF CallsInv
  <2> QED BY <1>5, <2>1, <2>2 DEF CallsInv, PendingIsNew
<1>13. NotYetRun'
  <2> SUFFICES ASSUME NEW d \in Callers, outcome[d] = "none", d = holder => step # "recv"
               PROVE  ran'[d] = 0
    BY <1>1 DEF NotYetRun, clientVars
  <2>1. d # c
    <3>1. ASSUME i = cur, step = "recv" PROVE c = holder
      <4>1. cur # 0 /\ CarriesCall(k)
        BY <3>1 DEF CallsInv, CurrentIsKnown, RpcTypeOK
      <4> QED BY <1>1, <4>1 DEF CarriesCall
    <3> QED BY <1>3, <3>1
  <2> QED BY <1>5, <2>1 DEF CallsInv, NotYetRun
<1>14. CallsAreExact'
  BY <1>1, <1>3, <1>5 DEF CallsInv, CallsAreExact, AtMostOnce, RepliesAreOwn, clientVars
<1> QED BY <1>8, <1>9, <1>10, <1>11, <1>12, <1>13, <1>14 DEF CallsInv
\* How a call goes on when its connection is closed: it ends with an error, or,
\* when nothing of it was executed or can be, connects again.
Ends == Finish("not_running") \/ Finish("timeout")
GoesOn ==
    /\ attempt' \in 1..2 /\ step' = "connect" /\ UNCHANGED <<holder, outcome>>
    /\ ran[holder] = 0 /\ Pending(conns[cur]) = 0

\* The client closes its connection; an id issued meanwhile leaves the earlier
\* ones with their callers.
LEMMA CloseKeeps ==
    ASSUME RpcAssumption, CallsInv, step \in {"send", "recv"}, CloseClient,
           callOf' = callOf \/ callOf' = Append(callOf, holder),
           GoesOn \/ Ends,
           attempt' \in 1..2, UNCHANGED <<ran, stage, restarts>>
    PROVE  CallsInv'
<1>1. /\ cur \in DOMAIN conns /\ cur # 0 /\ cur' = 0
      /\ holder \in Callers /\ outcome[holder] = "none"
      /\ step' \in {"idle", "connect"} /\ holder' \in {holder, Nobody}
      /\ holder' = Nobody <=> step' = "idle"
  BY DEF CallsInv, HolderCalls, RpcTypeOK, CloseClient, GoesOn, Ends, Finish
<1>2. /\ callOf' \in Seq(Callers) /\ Len(callOf) \in Nat /\ Len(callOf') \in Nat
      /\ Len(callOf) <= Len(callOf')
      /\ \A n \in 1..Len(callOf) : callOf'[n] = callOf[n]
  <2>1. callOf \in Seq(Callers)
    BY DEF CallsInv, RpcTypeOK
  <2>2. CASE callOf' = callOf
    BY <2>1, <2>2
  <2>3. CASE callOf' = Append(callOf, holder)
    BY <1>1, <2>1, <2>3, AppendProperties
  <2> QED BY <2>2, <2>3
<1>3. /\ outcome' \in [Callers -> {"none", "ok", "not_running", "timeout", "bad_response"}]
      /\ \A c \in Callers \ {holder} : outcome'[c] = outcome[c]
      /\ \/ outcome' = outcome /\ GoesOn
         \/ outcome'[holder] \in {"not_running", "timeout"} /\ holder' = Nobody
  BY <1>1 DEF CallsInv, RpcTypeOK, GoesOn, Ends, Finish
<1>4. ASSUME NEW i \in DOMAIN conns
      PROVE  /\ conns'[i] \in Conn /\ CarriesOne(conns'[i]) /\ conns'[i].cli = "closed"
             /\ Pending(conns'[i]) = Pending(conns[i])
  <2>1. conns[i] \in Conn /\ CarriesOne(conns[i]) /\ (i # cur => conns[i].cli = "closed")
    BY PendingType DEF CallsInv, OthersAreClosed
  <2> DEFINE l == [conns[cur] EXCEPT !.cli = "closed"]
  <2>2. conns' = [conns EXCEPT ![cur] = l]
    BY DEF CloseClient
  <2>3. conns \in Seq(Conn)
    BY DEF CallsInv, RpcTypeOK
  <2>4. i = cur => l \in Conn /\ CarriesOne(l) /\ l.cli = "closed" /\ Pending(l) = Pending(conns[i])
    BY <2>1 DEF Conn, CarriesOne, Pending
  <2> HIDE DEF l
  <2> QED BY <2>1, <2>2, <2>3, <2>4
<1>5. DOMAIN conns' = DOMAIN conns /\ conns' \in Seq(Conn) /\ Conn \subseteq Conn'
  <2>1. DOMAIN conns' = DOMAIN conns /\ conns' \in [1..Len(conns) -> Conn] /\ Len(conns) \in Nat
    <3>1. DOMAIN conns' = DOMAIN conns /\ conns' = [i \in DOMAIN conns |-> conns'[i]]
      BY DEF CloseClient, CallsInv, RpcTypeOK
    <3>2. DOMAIN conns = 1..Len(conns) /\ Len(conns) \in Nat
      BY DEF CallsInv, RpcTypeOK
    <3>3. \A i \in DOMAIN conns : conns'[i] \in Conn
      BY <1>4
    <3> QED BY <3>1, <3>2, <3>3
  <2>2. Ids \subseteq Ids'
    BY <1>2 DEF Ids
  <2>3. Conn \subseteq Conn'
    <3> SUFFICES ASSUME NEW k \in Conn PROVE k \in Conn'
      OBVIOUS
    <3> QED BY <2>2 DEF Conn
  <2> QED BY <2>1, <2>3
<1>6. RpcTypeOK'
  BY <1>1, <1>2, <1>3, <1>5 DEF CallsInv, RpcTypeOK
<1>7. HolderCalls'
  BY <1>1, <1>3 DEF HolderCalls, RpcAssumption
<1>8. OthersAreClosed' /\ CurrentIsKnown'
  BY <1>1, <1>4, <1>5 DEF OthersAreClosed, CurrentIsKnown
<1>9. \A i \in DOMAIN conns : Pending(conns'[i]) # 0 =>
         /\ Owner(conns[i])' = Owner(conns[i]) /\ Pending(conns[i]) # 0
         /\ Owner(conns[i]) \in Callers
  BY <1>2, <1>4, PendingType DEF CallsInv, Owner, Pending
<1>10. PendingIsNew'
  <2> SUFFICES ASSUME NEW i \in DOMAIN conns, Pending(conns'[i]) # 0
               PROVE  /\ ran[Owner(conns[i])] = 0
                      /\ outcome'[Owner(conns[i])] # "none"
                      /\ \A j \in DOMAIN conns :
                            Pending(conns'[j]) # 0 /\ Owner(conns[j]) = Owner(conns[i]) => j = i
    BY <1>5, <1>9 DEF PendingIsNew, Pending
  <2>1. /\ ran[Owner(conns[i])] = 0
        /\ outcome[Owner(conns[i])] # "none" \/ (i = cur /\ step = "recv")
        /\ \A j \in DOMAIN conns :
              Pending(conns[j]) # 0 /\ Owner(conns[j]) = Owner(conns[i]) => j = i
    BY <1>9 DEF CallsInv, PendingIsNew
  <2>2. outcome'[Owner(conns[i])] # "none"
    <3>1. CASE i = cur /\ step = "recv"
      <4>1. Owner(conns[i]) = holder /\ Pending(conns[i]) # 0
        BY <1>1, <1>9, <3>1 DEF CallsInv, CurrentIsKnown, CarriesCall, Owner, Pending
      <4> QED BY <1>3, <3>1, <4>1 DEF GoesOn
    <3>2. CASE outcome[Owner(conns[i])] # "none"
      BY <1>1, <1>3, <1>9, <3>2
    <3> QED BY <2>1, <3>1, <3>2
  <2> QED BY <1>9, <2>1, <2>2
<1>11. NotYetRun'
  <2> SUFFICES ASSUME NEW c \in Callers, outcome'[c] = "none" PROVE ran[c] = 0
    BY DEF NotYetRun
  <2>1. CASE c = holder
    BY <1>3, <2>1 DEF GoesOn
  <2>2. CASE c # holder
    BY <1>3, <2>2 DEF CallsInv, NotYetRun
  <2> QED BY <2>1, <2>2
<1>12. CallsAreExact'
  BY <1>1, <1>3 DEF CallsInv, CallsAreExact, AtMostOnce, RepliesAreOwn
<1> QED BY <1>6, <1>7, <1>8, <1>10, <1>11, <1>12 DEF CallsInv
\* A caller takes the lock.
LEMMA AcquireKeeps == ASSUME RpcAssumption, CallsInv, NEW c \in Callers, Acquire(c) PROVE CallsInv'
<1>1. /\ holder = Nobody /\ step = "idle" /\ outcome[c] = "none"
      /\ holder' = c /\ c # Nobody /\ step' \in {"connect", "send"}
      /\ UNCHANGED <<cur, outcome, conns, callOf, ran, stage, restarts>>
  BY DEF Acquire, CallsInv, HolderCalls, RpcAssumption
<1>2. RpcTypeOK'
  BY <1>1 DEF Acquire, CallsInv, RpcTypeOK, Conn, Ids
<1>3. HolderCalls'
  BY <1>1 DEF Acquire, CallsInv, HolderCalls
<1>4. OthersAreClosed' /\ CallsAreExact' /\ CurrentIsKnown'
  BY <1>1 DEF CallsInv, OthersAreClosed, CallsAreExact, AtMostOnce, RepliesAreOwn, CarriesOne,
              CurrentIsKnown, Empty
<1>5. PendingIsNew'
  <2>1. \A i \in DOMAIN conns : Owner(conns[i])' = Owner(conns[i]) /\ Pending(conns[i])' = Pending(conns[i])
    BY <1>1 DEF Owner, Pending
  <2> QED BY <1>1, <2>1 DEF CallsInv, PendingIsNew
<1>6. NotYetRun'
  BY <1>1 DEF CallsInv, NotYetRun
<1> QED BY <1>2, <1>3, <1>4, <1>5, <1>6 DEF CallsInv

\* No daemon to talk to: the call ends without having issued an id.
LEMMA ConnectFailsKeeps == ASSUME RpcAssumption, CallsInv, ConnectFails PROVE CallsInv'
<1>1. /\ step = "connect" /\ cur = 0 /\ holder \in Callers /\ outcome[holder] = "none"
      /\ holder' = Nobody /\ step' = "idle"
      /\ outcome' = [outcome EXCEPT ![holder] = "not_running"]
      /\ UNCHANGED <<attempt, cur, conns, callOf, ran, stage, restarts>>
  BY DEF ConnectFails, Finish, CallsInv, HolderCalls, RpcTypeOK
<1>2. RpcTypeOK'
  BY <1>1 DEF CallsInv, RpcTypeOK, Conn, Ids
<1>3. HolderCalls'
  BY <1>1 DEF CallsInv, HolderCalls
<1>4. OthersAreClosed' /\ CallsAreExact' /\ CurrentIsKnown'
  BY <1>1 DEF CallsInv, RpcTypeOK, OthersAreClosed, CallsAreExact, AtMostOnce, RepliesAreOwn,
              CarriesOne, CurrentIsKnown, Empty
<1>5. PendingIsNew'
  <2>1. \A i \in DOMAIN conns : Owner(conns[i])' = Owner(conns[i]) /\ Pending(conns[i])' = Pending(conns[i])
    BY <1>1 DEF Owner, Pending
  <2>2. \A i \in DOMAIN conns : Pending(conns[i]) # 0 => Owner(conns[i]) \in Callers
    BY PendingType DEF CallsInv
  <2> QED BY <1>1, <2>1, <2>2 DEF CallsInv, PendingIsNew, RpcTypeOK
<1>6. NotYetRun'
  BY <1>1 DEF CallsInv, NotYetRun, RpcTypeOK
<1> QED BY <1>2, <1>3, <1>4, <1>5, <1>6 DEF CallsInv

\* A new connection carries nothing, and no other one is open.
LEMMA ConnectKeeps == ASSUME CallsInv, Connect PROVE CallsInv'
<1>1. /\ step = "connect" /\ cur = 0 /\ step' = "send" /\ conns' = Append(conns, NewConn)
      /\ cur' = Len(conns) + 1
      /\ UNCHANGED <<holder, attempt, outcome, callOf, ran, stage, restarts>>
  BY DEF Connect, CallsInv, HolderCalls
<1>2. conns \in Seq(Conn) /\ Len(callOf) \in Nat
  BY DEF CallsInv, RpcTypeOK
<1>3. /\ NewConn \in Conn /\ CarriesOne(NewConn) /\ Empty(NewConn) /\ Pending(NewConn) = 0
  BY <1>2 DEF NewConn, Conn, Ids, CarriesOne, Empty, Pending
<1>4. /\ conns' \in Seq(Conn) /\ Len(conns') = Len(conns) + 1 /\ conns'[cur'] = NewConn
      /\ \A i \in 1..Len(conns) : conns'[i] = conns[i]
  BY <1>1, <1>2, <1>3, AppendProperties
<1>5. \A i \in DOMAIN conns' : i # cur' => i \in DOMAIN conns /\ conns'[i] = conns[i]
  <2>1. /\ DOMAIN conns = 1..Len(conns) /\ DOMAIN conns' = 1..(Len(conns) + 1) /\ Len(conns) \in Nat
        /\ cur' = Len(conns) + 1
    BY <1>1, <1>2, <1>4
  <2> SUFFICES ASSUME NEW i \in DOMAIN conns', i # cur'
               PROVE  i \in DOMAIN conns /\ conns'[i] = conns[i]
    OBVIOUS
  <2>2. i \in 1..Len(conns)
    BY <2>1
  <2> QED BY <1>4, <2>1, <2>2
<1>6. RpcTypeOK'
  BY <1>1, <1>2, <1>4 DEF CallsInv, RpcTypeOK, Conn, Ids
<1>7. HolderCalls' /\ NotYetRun' /\ CallsAreExact'
  BY <1>1, <1>2 DEF CallsInv, HolderCalls, NotYetRun, CallsAreExact, AtMostOnce, RepliesAreOwn
<1>8. OthersAreClosed'
  BY <1>1, <1>3, <1>4, <1>5 DEF CallsInv, OthersAreClosed, CarriesOne
<1>9. CurrentIsKnown'
  BY <1>1, <1>3, <1>4 DEF CurrentIsKnown, Empty
<1>10. PendingIsNew'
  <2>1. \A i \in DOMAIN conns' : Pending(conns'[i]) # 0 =>
           i \in DOMAIN conns /\ Pending(conns[i]) # 0 /\ Owner(conns[i])' = Owner(conns[i])
    BY <1>1, <1>3, <1>4, <1>5 DEF Owner, Pending
  <2> QED BY <1>1, <2>1 DEF CallsInv, PendingIsNew, Pending
<1> QED BY <1>6, <1>7, <1>8, <1>9, <1>10 DEF CallsInv
\* A request is written: its id is the last one, and its call has not run.
LEMMA SendKeeps == ASSUME RpcAssumption, CallsInv, Send PROVE CallsInv'
<1> DEFINE k == conns[cur]
           n == Len(callOf) + 1
           l == [k EXCEPT !.inbox = n]
<1>0. callOf' = Append(callOf, holder)
  BY DEF Send
<1>1. /\ step = "send" /\ UNCHANGED <<ran, stage, restarts>>
      /\ cur \in DOMAIN conns /\ cur # 0 /\ holder \in Callers /\ outcome[holder] = "none"
      /\ ran[holder] = 0 /\ Empty(k) /\ k \in Conn /\ CarriesOne(k)
  <2>1. step = "send" /\ UNCHANGED <<ran, stage, restarts>>
    BY DEF Send
  <2>2. cur \in DOMAIN conns /\ cur # 0 /\ holder \in Callers /\ outcome[holder] = "none"
    BY <2>1 DEF CallsInv, HolderCalls, RpcTypeOK
  <2>3. ran[holder] = 0 /\ Empty(k)
    BY <2>1, <2>2 DEF CallsInv, NotYetRun, CurrentIsKnown
  <2>4. k \in Conn /\ CarriesOne(k)
    BY <2>2, PendingType DEF CallsInv, OthersAreClosed
  <2> QED BY <2>1, <2>2, <2>3, <2>4
<1>2. CASE Broken
  <2>1. Pending(k) = 0
    BY <1>1 DEF Empty, Pending
  <2>2. CloseClient /\ attempt' \in 1..2 /\ (GoesOn \/ Ends)
    BY <1>1, <1>2, <2>1 DEF Broken, GoesOn, Ends, Finish, CallsInv, RpcTypeOK
  <2> QED BY <1>0, <1>1, <2>2, CloseKeeps
<1>3. CASE /\ k.cli = "open" /\ k.srv \in {"backlog", "open", "ending"}
           /\ conns' = [conns EXCEPT ![cur].inbox = Len(callOf) + 1]
           /\ step' = "recv" /\ UNCHANGED <<holder, attempt, cur, outcome>>
  <2>0. /\ cur' = cur /\ holder' = holder /\ step' = "recv" /\ attempt' = attempt
        /\ outcome' = outcome /\ ran' = ran
    BY <1>1, <1>3
  <2>1. /\ callOf \in Seq(Callers) /\ callOf' \in Seq(Callers) /\ n \in Nat \ {0} /\ Len(callOf) \in Nat
        /\ Len(callOf') = n /\ callOf'[n] = holder
        /\ \A m \in 1..Len(callOf) : callOf'[m] = callOf[m]
    <3>1. callOf \in Seq(Callers)
      BY DEF CallsInv, RpcTypeOK
    <3> QED BY <1>0, <1>1, <3>1, AppendProperties
  <2>2. Conn \subseteq Conn'
    <3>1. Ids \subseteq Ids'
      BY <2>1 DEF Ids
    <3> SUFFICES ASSUME NEW m \in Conn PROVE m \in Conn'
      OBVIOUS
    <3> QED BY <3>1 DEF Conn
  <2>3. /\ l \in Conn' /\ l.cli = "open" /\ l.srv = k.srv /\ l.inbox = n /\ l.work = 0 /\ l.out = 0
        /\ l.did = k.did /\ l.reset = k.reset
    <3>1. n \in Ids'
      BY <2>1 DEF Ids
    <3> HIDE DEF n
    <3> QED BY <1>1, <1>3, <2>2, <3>1 DEF Conn, Empty
  <2>4. conns' = [conns EXCEPT ![cur] = l]
    BY <1>3
  <2> HIDE DEF n, l
  <2>5. /\ conns' \in Seq(Conn') /\ DOMAIN conns' = DOMAIN conns /\ Len(conns') = Len(conns)
        /\ conns'[cur] = l /\ \A i \in DOMAIN conns \ {cur} : conns'[i] = conns[i]
    <3>1. conns \in Seq(Conn')
      BY <2>2 DEF CallsInv, RpcTypeOK
    <3> QED BY <1>1, <2>3, <2>4, <3>1
  <2>6. RpcTypeOK'
    BY <1>1, <1>3, <2>1, <2>5 DEF CallsInv, RpcTypeOK
  <2>7. HolderCalls' /\ NotYetRun' /\ CallsAreExact'
    BY <1>1, <1>3 DEF CallsInv, HolderCalls, NotYetRun, CallsAreExact, AtMostOnce, RepliesAreOwn
  <2>8. OthersAreClosed'
    <3>1. CarriesOne(l)
      BY <1>1, <1>3, <2>3 DEF CarriesOne, Empty
    <3> QED BY <1>3, <2>5, <3>1 DEF CallsInv, OthersAreClosed, CarriesOne
  <2>9. CurrentIsKnown'
    <3>1. CarriesCall(conns[cur])'
      BY <1>1, <2>0, <2>1, <2>3, <2>5 DEF CarriesCall, Waiting, Executed, Unread
    <3> QED BY <2>0, <3>1 DEF CurrentIsKnown
  <2>10. PendingIsNew'
    <3>1. \A i \in DOMAIN conns \ {cur} :
             /\ Pending(conns'[i]) = Pending(conns[i])
             /\ Pending(conns[i]) # 0 => /\ Owner(conns[i])' = Owner(conns[i])
                                         /\ Owner(conns[i]) \in Callers
                                         /\ outcome[Owner(conns[i])] # "none"
      <4> SUFFICES ASSUME NEW i \in DOMAIN conns \ {cur}, Pending(conns[i]) # 0
                   PROVE  /\ Owner(conns[i])' = Owner(conns[i]) /\ Owner(conns[i]) \in Callers
                          /\ outcome[Owner(conns[i])] # "none"
        BY <2>5 DEF Pending
      <4>1. Pending(conns[i]) \in 1..Len(callOf) /\ Owner(conns[i]) \in Callers
        BY <2>1, PendingType DEF CallsInv
      <4>2. Pending(conns'[i]) = Pending(conns[i])
        BY <2>5 DEF Pending
      <4>3. Owner(conns[i])' = Owner(conns[i])
        BY <2>1, <4>1, <4>2 DEF Owner, Pending
      <4> QED BY <1>1, <4>1, <4>3 DEF CallsInv, PendingIsNew
    <3>2. Pending(conns'[cur]) # 0 => Owner(conns[cur])' = holder
      BY <2>0, <2>1, <2>3, <2>5 DEF Owner, Pending
    <3>3. \A i \in DOMAIN conns : Pending(conns'[i]) # 0 =>
             /\ callOf'[Pending(conns'[i])] = IF i = cur THEN holder ELSE callOf[Pending(conns[i])]
             /\ i # cur => Pending(conns[i]) # 0 /\ outcome[callOf[Pending(conns[i])]] # "none"
      BY <2>0, <3>1, <3>2 DEF Owner
    <3>4. \A i \in DOMAIN conns : Pending(conns'[i]) # 0 =>
             /\ ran[callOf'[Pending(conns'[i])]] = 0
             /\ outcome[callOf'[Pending(conns'[i])]] # "none" \/ i = cur
      BY <1>1, <3>3 DEF CallsInv, PendingIsNew, Owner
    <3>5. ASSUME NEW i \in DOMAIN conns, NEW j \in DOMAIN conns,
                 Pending(conns'[i]) # 0, Pending(conns'[j]) # 0,
                 callOf'[Pending(conns'[i])] = callOf'[Pending(conns'[j])]
          PROVE  i = j
      BY <1>1, <3>3, <3>5 DEF CallsInv, PendingIsNew, Owner
    <3> QED BY <2>0, <2>5, <3>4, <3>5 DEF PendingIsNew, Owner, Pending
  <2> QED BY <2>6, <2>7, <2>8, <2>9, <2>10 DEF CallsInv
<1> QED BY <1>2, <1>3 DEF Send
\* An answer on the connection is that of the call, a reset one was not read,
\* and everything else ends the call.
LEMMA ReceiveKeeps == ASSUME RpcAssumption, CallsInv, Receive PROVE CallsInv'
<1> DEFINE k == conns[cur]
           l == [k EXCEPT !.out = 0]
<1>1. step = "recv" /\ UNCHANGED <<callOf, ran, stage, restarts>>
  BY DEF Receive
<1>2. cur \in DOMAIN conns /\ cur # 0 /\ holder \in Callers /\ outcome[holder] = "none"
  BY <1>1 DEF CallsInv, HolderCalls, RpcTypeOK
<1>3. k \in Conn /\ CarriesOne(k) /\ CarriesCall(k)
  BY <1>1, <1>2, PendingType DEF CallsInv, OthersAreClosed, CurrentIsKnown
<1>4. k.out \in {0, Len(callOf)} /\ Len(callOf) > 0
  BY <1>3 DEF CarriesCall
<1>5. CASE k.out = 0 /\ k.reset /\ Broken
  <2>1. Pending(k) = 0 /\ ran[holder] = 0
    BY <1>3, <1>5 DEF CarriesOne, CarriesCall, Pending, Waiting, Unread
  <2>2. CloseClient /\ attempt' \in 1..2 /\ (GoesOn \/ Ends)
    BY <1>5, <2>1 DEF Broken, GoesOn, Ends, Finish, CallsInv, RpcTypeOK
  <2> QED BY <1>1, <2>2, CloseKeeps
<1>6. CASE CloseClient /\ Finish("not_running")
  BY <1>1, <1>6, CloseKeeps DEF Ends, Finish, CallsInv, RpcTypeOK
<1>7. CASE /\ k.out = Len(callOf) /\ conns' = [conns EXCEPT ![cur].out = 0]
           /\ Finish("ok") /\ UNCHANGED cur
  <2>1. ran[holder] = 1
    BY <1>3, <1>4, <1>7 DEF CarriesCall, Executed
  <2>2. /\ holder' = Nobody /\ step' = "idle" /\ UNCHANGED <<attempt, cur>>
        /\ outcome' = [outcome EXCEPT ![holder] = "ok"]
    BY <1>7 DEF Finish
  <2>3. conns' = [conns EXCEPT ![cur] = l]
    BY <1>7
  <2>4. /\ l \in Conn /\ CarriesOne(l) /\ Empty(l) /\ Pending(l) = 0 /\ Pending(k) = 0
        /\ l.cli = k.cli
    <3>1. k.inbox = 0 /\ k.work = 0 /\ 0 \in Ids
      BY <1>3, <1>4, <1>7 DEF CarriesOne, Conn, Ids
    <3> QED BY <1>3, <3>1 DEF Conn, CarriesOne, Empty, Pending
  <2> HIDE DEF l
  <2>5. /\ conns' \in Seq(Conn) /\ DOMAIN conns' = DOMAIN conns /\ Len(conns') = Len(conns)
        /\ conns'[cur] = l /\ \A i \in DOMAIN conns \ {cur} : conns'[i] = conns[i]
    <3>1. conns \in Seq(Conn)
      BY DEF CallsInv, RpcTypeOK
    <3> QED BY <1>2, <2>3, <2>4, <3>1
  <2>6. /\ \A c \in Callers \ {holder} : outcome'[c] = outcome[c]
        /\ outcome'[holder] = "ok"
    BY <1>2, <2>2 DEF CallsInv, RpcTypeOK
  <2>7. RpcTypeOK'
    BY <1>1, <2>2, <2>5 DEF CallsInv, RpcTypeOK, Conn, Ids
  <2>8. HolderCalls' /\ NotYetRun' /\ CallsAreExact'
    BY <1>1, <2>1, <2>2, <2>6 DEF CallsInv, HolderCalls, NotYetRun, CallsAreExact, AtMostOnce,
                                  RepliesAreOwn
  <2>9. OthersAreClosed' /\ CurrentIsKnown'
    BY <1>2, <2>2, <2>4, <2>5 DEF CallsInv, OthersAreClosed, CurrentIsKnown, CarriesOne, Empty
  <2>10. PendingIsNew'
    <3>1. \A i \in DOMAIN conns : Pending(conns'[i]) # 0 =>
             /\ i # cur /\ Pending(conns[i]) # 0 /\ Owner(conns[i])' = Owner(conns[i])
             /\ Owner(conns[i]) \in Callers
      BY <1>1, <2>4, <2>5, PendingType DEF CallsInv, Owner, Pending
    <3> QED BY <1>1, <2>2, <2>5, <2>6, <3>1 DEF CallsInv, PendingIsNew, Pending
  <2> QED BY <2>7, <2>8, <2>9, <2>10 DEF CallsInv
<1> QED BY <1>4, <1>5, <1>6, <1>7 DEF Receive

\* What timed out may still be executed: its call is over.
LEMMA CallTimeoutKeeps == ASSUME RpcAssumption, CallsInv, CallTimeout PROVE CallsInv'
<1>1. /\ step \in {"send", "recv"} /\ CloseClient /\ Ends
      /\ UNCHANGED <<attempt, callOf, ran, stage, restarts>>
  BY DEF CallTimeout, Ends, Finish
<1> QED BY <1>1, CloseKeeps DEF CallsInv, RpcTypeOK

\* Shutting the connection down takes nothing back from the daemon.
LEMMA ShutdownClientKeeps == ASSUME CallsInv, ShutdownClient PROVE CallsInv'
<1> DEFINE k == conns[cur]
           l == [k EXCEPT !.cli = "shut"]
<1>1. cur \in DOMAIN conns /\ k.cli = "open" /\ conns' = [conns EXCEPT ![cur] = l]
  BY DEF ShutdownClient, CallsInv, RpcTypeOK
<1>2. k \in Conn /\ CarriesOne(k)
  BY <1>1, PendingType DEF CallsInv, OthersAreClosed
<1>3. l \in Conn /\ Follows(k, l)
  BY <1>1, <1>2 DEF Conn, Follows, CarriesOne, Pending, Waiting, Executed, Unread
<1>4. UNCHANGED <<clientVars, callOf, ran, stage, restarts>>
  BY DEF ShutdownClient
<1> QED BY <1>1, <1>3, <1>4, OneFollows

\* A daemon that starts again, and a step that changes nothing.
LEMMA StaysKeeps ==
    ASSUME CallsInv, UNCHANGED <<clientVars, conns, callOf, ran>>,
           stage' \in {"up", "stopping", "draining", "down"}, restarts' \in 0..MaxRestarts
    PROVE  CallsInv'
<1>1. RpcTypeOK' /\ HolderCalls' /\ NotYetRun' /\ CallsAreExact'
  BY DEF CallsInv, RpcTypeOK, Conn, Ids, HolderCalls, NotYetRun, CallsAreExact, AtMostOnce,
         RepliesAreOwn, clientVars
<1>2. OthersAreClosed' /\ CurrentIsKnown'
  BY DEF CallsInv, OthersAreClosed, CarriesOne, CurrentIsKnown, CarriesCall, Empty, Waiting,
         Executed, Unread, clientVars
<1>3. PendingIsNew'
  BY DEF CallsInv, PendingIsNew, Owner, Pending, clientVars
<1> QED BY <1>1, <1>2, <1>3 DEF CallsInv

\* No call was made.
LEMMA CallsInit == ASSUME RpcAssumption, RpcInit PROVE CallsInv
<1>1. RpcTypeOK
  BY DEF RpcInit, RpcTypeOK, RpcAssumption
<1>2. HolderCalls /\ NotYetRun /\ CallsAreExact
  BY DEF RpcInit, HolderCalls, NotYetRun, CallsAreExact, AtMostOnce, RepliesAreOwn
<1>3. OthersAreClosed /\ CurrentIsKnown /\ PendingIsNew
  BY DEF RpcInit, OthersAreClosed, CurrentIsKnown, PendingIsNew
<1> QED BY <1>1, <1>2, <1>3 DEF CallsInv

\* Every step keeps the invariant, and so every behaviour does.
LEMMA CallsNext == ASSUME RpcAssumption, CallsInv, [RpcNext]_rpcVars PROVE CallsInv'
<1>1. CASE \E c \in Callers : Acquire(c)
  BY <1>1, AcquireKeeps
<1>2. CASE ClientStep
  BY <1>2, ConnectKeeps, ConnectFailsKeeps, SendKeeps, ReceiveKeeps DEF ClientStep
<1>3. CASE CallTimeout
  BY <1>3, CallTimeoutKeeps
<1>4. CASE ShutdownClient
  BY <1>4, ShutdownClientKeeps
<1>5. ASSUME NEW i \in DOMAIN conns,
             Accept(i) \/ Take(i) \/ Execute(i) \/ Reply(i) \/ StopReading(i) \/ CloseHandler(i)
      PROVE  CallsInv'
  BY <1>5, ServerKeeps, ExecuteKeeps
<1>6. CASE StopServer \/ ShutConnections \/ ProcessEnds
  BY <1>6, StopKeeps
<1>7. CASE Restart
  <2>1. restarts' \in 0..MaxRestarts /\ stage' = "up" /\ UNCHANGED <<clientVars, conns, callOf, ran>>
    BY <1>7, RpcAssumption DEF Restart, CallsInv, RpcTypeOK, RpcAssumption
  <2> QED BY <2>1, StaysKeeps
<1>8. CASE UNCHANGED rpcVars
  BY <1>8, StaysKeeps DEF rpcVars, CallsInv, RpcTypeOK
<1> QED BY <1>1, <1>2, <1>3, <1>4, <1>5, <1>6, <1>7, <1>8 DEF RpcNext

LEMMA CallsInvAlways == ASSUME RpcAssumption PROVE RpcSpec => []CallsInv
<1>1. RpcInit => CallsInv
  BY CallsInit
<1>2. CallsInv /\ [RpcNext]_rpcVars => CallsInv'
  BY CallsNext
<1> QED BY <1>1, <1>2, PTL DEF RpcSpec

(* Every variable of the client and its connections keeps its type: a      *)
(* broken connection is tried once more and no further (call).             *)
THEOREM CallTypes == ASSUME RpcAssumption PROVE RpcSpec => []RpcTypeOK
<1>1. CallsInv => RpcTypeOK
  BY DEF CallsInv
<1> QED BY <1>1, CallsInvAlways, PTL

(* However connections break, answers are lost, calls time out and the     *)
(* daemon restarts, for any number of callers: no request is executed      *)
(* twice, a call that returns a result was executed once, and none returns *)
(* the reply of another (DaemonClient.call, _call_locked).                 *)
THEOREM CallsStayExact == ASSUME RpcAssumption PROVE RpcSpec => []CallsAreExact
<1>1. CallsInv => CallsAreExact
  BY DEF CallsInv
<1> QED BY <1>1, CallsInvAlways, PTL

-----------------------------------------------------------------------------
(* Rpc implements Calls: a call is made when the lock is taken, whatever   *)
(* connections it needs, and executed by the handler that has its request. *)

\* The callers that have made their call.
Made == {c \in Callers : c = holder \/ outcome[c] # "none"}

\* Who holds the lock is the one caller that waits.
LEMMA HolderWaits ==
    ASSUME CallsInv, holder # Nobody
    PROVE  holder \in Callers /\ holder \in Made /\ outcome[holder] = "none"
  BY DEF CallsInv, RpcTypeOK, HolderCalls, Made

LEMMA AcquireMakes == ASSUME CallsInv, NEW c \in Callers, Acquire(c) PROVE Remote!Make(c)
<1>1. /\ holder = Nobody /\ outcome[c] = "none" /\ holder' = c /\ c # Nobody
      /\ UNCHANGED <<outcome, ran>>
  BY RpcAssumption DEF Acquire, RpcAssumption
<1>2. Nobody \notin Callers
  BY RpcAssumption DEF RpcAssumption
<1>3. c \notin Made /\ (\A d \in Made : outcome[d] # "none") /\ Made' = Made \cup {c}
  BY <1>1, <1>2 DEF Made
<1> QED BY <1>1, <1>3 DEF Remote!Make, Made

\* A call ends in a failure, for the caller that waits.
LEMMA FinishFails ==
    ASSUME CallsInv, holder # Nobody, NEW o \in {"not_running", "timeout"}, Finish(o), UNCHANGED ran
    PROVE  Remote!Next
<1>1. holder \in Callers /\ holder \in Made /\ outcome[holder] = "none"
  BY HolderWaits
<1>2. outcome' = [outcome EXCEPT ![holder] = o] /\ holder' = Nobody
  BY DEF Finish
<1>3. Made' = Made
  BY <1>1, <1>2, RpcAssumption DEF Made, CallsInv, RpcTypeOK, RpcAssumption
<1>4. Remote!Fail(holder, o)
  BY <1>1, <1>2, <1>3 DEF Remote!Fail, Made
<1> QED BY <1>1, <1>4 DEF Remote!Next

\* A broken connection fails the call or goes unnoticed.
LEMMA BrokenFails ==
    ASSUME CallsInv, holder # Nobody, Broken, UNCHANGED ran
    PROVE  [Remote!Next]_Remote!vars
<1>1. CASE UNCHANGED <<holder, outcome>>
  BY <1>1 DEF Remote!vars
<1>2. CASE Finish("not_running")
  BY <1>2, FinishFails
<1> QED BY <1>1, <1>2 DEF Broken

\* A result is the one of a call that was executed, once.
LEMMA ReceiveReturns ==
    ASSUME CallsInv, Receive
    PROVE  [Remote!Next]_Remote!vars
<1> DEFINE k == conns[cur]
<1>1. step = "recv" /\ UNCHANGED ran
  BY DEF Receive
<1>2. cur \in DOMAIN conns /\ cur # 0 /\ holder # Nobody
  BY <1>1 DEF CallsInv, HolderCalls, RpcTypeOK
<1>3. k \in Conn /\ CarriesCall(k)
  BY <1>1, <1>2, PendingType DEF CallsInv, CurrentIsKnown
<1>4. k.out \in {0, Len(callOf)} /\ Len(callOf) > 0 /\ Len(callOf) \in Nat
  BY <1>3 DEF CarriesCall, CallsInv, RpcTypeOK
<1>5. CASE k.out = Len(callOf) /\ Finish("ok")
  <2>1. holder \in Callers /\ holder \in Made /\ outcome[holder] = "none"
    BY <1>2, HolderWaits
  <2>2. ran[holder] = 1
    BY <1>3, <1>4, <1>5 DEF CarriesCall, Executed
  <2>3. outcome' = [outcome EXCEPT ![holder] = "ok"] /\ holder' = Nobody
    BY <1>5 DEF Finish
  <2>4. Made' = Made
    BY <2>1, <2>3, RpcAssumption DEF Made, CallsInv, RpcTypeOK, RpcAssumption
  <2>5. Remote!Return(holder)
    BY <1>1, <2>1, <2>2, <2>3, <2>4 DEF Remote!Return, Made
  <2> QED BY <2>1, <2>5 DEF Remote!Next
<1>6. CASE Broken
  BY <1>1, <1>2, <1>6, BrokenFails
<1>7. CASE Finish("not_running")
  BY <1>1, <1>2, <1>7, FinishFails
<1> QED BY <1>4, <1>5, <1>6, <1>7 DEF Receive

\* What a handler executes was made, and not executed before.
LEMMA ExecuteOnce ==
    ASSUME CallsInv, NEW i \in DOMAIN conns, Execute(i)
    PROVE  Remote!Next
<1> DEFINE k == conns[i]
           c == callOf[k.work]
<1>1. k.work # 0 /\ ~k.did /\ ran' = [ran EXCEPT ![c] = @ + 1] /\ UNCHANGED <<holder, outcome>>
  BY DEF Execute, ServerOnly, clientVars
<1>2. Pending(k) = k.work /\ Owner(k) = c /\ c \in Callers
  BY <1>1, PendingType DEF Pending, Owner, CallsInv
<1>3. ran[c] = 0 /\ (outcome[c] # "none" \/ (i = cur /\ step = "recv"))
  BY <1>1, <1>2 DEF CallsInv, PendingIsNew
<1>4. c \in Made
  <2>1. CASE outcome[c] # "none"
    BY <1>2, <2>1 DEF Made
  <2>2. CASE i = cur /\ step = "recv"
    <3>1. CarriesCall(k) /\ k \in Conn
      BY <2>2, PendingType DEF CallsInv, CurrentIsKnown, HolderCalls
    <3>2. c = holder
      BY <1>1, <3>1 DEF CarriesCall
    <3> QED BY <1>2, <3>2 DEF Made
  <2> QED BY <1>3, <2>1, <2>2
<1>5. ran' = [ran EXCEPT ![c] = 1]
  BY <1>1, <1>2, <1>3 DEF CallsInv, RpcTypeOK
<1>6. Remote!Execute(c)
  BY <1>1, <1>3, <1>4, <1>5 DEF Remote!Execute, Made
<1> QED BY <1>2, <1>6 DEF Remote!Next

LEMMA CallStep ==
    ASSUME CallsInv, [RpcNext]_rpcVars
    PROVE  [Remote!Next]_Remote!vars
<1>1. ASSUME NEW c \in Callers, Acquire(c)
      PROVE  Remote!Next
  BY <1>1, AcquireMakes DEF Remote!Next
<1>2. CASE Connect \/ ShutdownClient
  BY <1>2 DEF Connect, ShutdownClient, clientVars, Remote!vars
<1>3. CASE ConnectFails \/ CallTimeout
  <2>1. holder # Nobody /\ UNCHANGED ran /\ (Finish("not_running") \/ Finish("timeout"))
    BY <1>3 DEF ConnectFails, CallTimeout, CallsInv, HolderCalls
  <2> QED BY <2>1, FinishFails
<1>4. CASE Send
  <2>1. holder # Nobody /\ UNCHANGED ran
    BY <1>4 DEF Send, CallsInv, HolderCalls
  <2>2. Broken \/ UNCHANGED <<holder, outcome>>
    BY <1>4 DEF Send
  <2> QED BY <2>1, <2>2, BrokenFails DEF Remote!vars
<1>5. CASE Receive
  BY <1>5, ReceiveReturns
<1>6. ASSUME NEW i \in DOMAIN conns, Execute(i)
      PROVE  Remote!Next
  BY <1>6, ExecuteOnce
<1>7. ASSUME NEW i \in DOMAIN conns,
             Accept(i) \/ Take(i) \/ Reply(i) \/ StopReading(i) \/ CloseHandler(i)
      PROVE  UNCHANGED Remote!vars
  BY <1>7 DEF Accept, Take, Reply, StopReading, CloseHandler, ServerOnly, clientVars, Remote!vars
<1>8. CASE StopServer \/ ShutConnections \/ ProcessEnds \/ Restart \/ UNCHANGED rpcVars
  BY <1>8 DEF StopServer, ShutConnections, ProcessEnds, Restart, ServerOnly, clientVars, rpcVars,
              Remote!vars
<1> QED BY <1>1, <1>2, <1>3, <1>4, <1>5, <1>6, <1>7, <1>8 DEF RpcNext, ClientStep

LEMMA RemoteStarts == ASSUME RpcAssumption, RpcInit PROVE Remote!Init
<1>1. {c \in Callers : c = holder \/ outcome[c] # "none"} = {}
  BY DEF RpcInit, RpcAssumption
<1> QED BY <1>1 DEF RpcInit, Remote!Init

(* Calls over connections that break, are shut, reset or time out, to a    *)
(* daemon that stops and restarts, are calls of one server that executes   *)
(* each at most once and answers it or fails, one at a time: whatever the  *)
(* number of callers, connections and restarts (call, _handle_connection). *)
THEOREM CallsAreServed == ASSUME RpcAssumption PROVE RpcSpec => CallPromise
<1>1. RpcInit => Remote!Init
  BY RemoteStarts
<1>2. CallsInv /\ [RpcNext]_rpcVars => [Remote!Next]_Remote!vars
  <2> SUFFICES ASSUME CallsInv, [RpcNext]_rpcVars PROVE [Remote!Next]_Remote!vars
    OBVIOUS
  <2> QED BY CallStep DEF Remote!vars
<1> QED BY <1>1, <1>2, CallsInvAlways, PTL DEF RpcSpec, CallPromise, Remote!Spec

-----------------------------------------------------------------------------
(* LiveView: what is queued for the worker.                                *)

\* What reaches n from 0 in steps of one: a set of numbers that is not empty has a
\* least one, since the intervals below its members are finite.
LEMMA UpTo ==
    ASSUME NEW n \in Nat, NEW T, 0 \in T, \A i \in 1..n : i - 1 \in T => i \in T
    PROVE  n \in T
<1> SUFFICES ASSUME n \notin T PROVE FALSE
  OBVIOUS
<1> DEFINE M == {0..k : k \in {i \in 0..n : i \notin T}}
<1>1. IsWellFoundedOn(StrictSubsetOrdering(Nat), FiniteSubsetsOf(Nat))
  BY FS_StrictSubsetOrderingWellFounded
<1>2. M \subseteq FiniteSubsetsOf(Nat) /\ M # {}
  <2>1. \A k \in 0..n : IsFiniteSet(0..k) /\ 0..k \in SUBSET Nat
    BY FS_Interval
  <2> QED BY <2>1 DEF FiniteSubsetsOf
<1>3. PICK m \in M : \A u \in M : <<u, m>> \notin StrictSubsetOrdering(Nat)
  BY <1>1, <1>2, WFMin
<1>4. PICK k \in 0..n : k \notin T /\ m = 0..k
  OBVIOUS
<1>5. k # 0 /\ k - 1 \in 0..n /\ k - 1 \notin T
  <2> HIDE DEF M
  <2>1. k \in Nat /\ k <= n
    BY <1>4
  <2>2. k # 0
    BY <1>4
  <2>3. k \in 1..n /\ k - 1 \in 0..n
    BY <2>1, <2>2
  <2> QED BY <1>4, <2>2, <2>3
<1>6. <<0..(k - 1), 0..k>> \in StrictSubsetOrdering(Nat)
  <2>1. 0..(k - 1) \in SUBSET Nat /\ 0..k \in SUBSET Nat
    BY <1>4, <1>5
  <2>2. 0..(k - 1) \subseteq 0..k /\ k \in 0..k /\ k \notin 0..(k - 1)
    BY <1>4, <1>5
  <2> QED BY <2>1, <2>2 DEF StrictSubsetOrdering
<1> QED BY <1>3, <1>4, <1>5, <1>6

Views == [live: Desktops \cup {NoDesktop}, mode: Modes]

\* Signals that change a view as Handled says lead from one view to another.
Passes(f, v, q) ==
    f \in [0..Len(q) -> Views] /\ f[0] = v /\ \A i \in 1..Len(q) : f[i] = Handled(f[i - 1], q[i])

Leads(q, v, e) == \E f : Passes(f, v, q) /\ f[Len(q)] = e

View == [live |-> worker.live, mode |-> worker.mode]

LEMMA HandledType ==
    ASSUME NEW v \in Views, NEW x \in Orders
    PROVE  Handled(v, x) \in Views
  BY DEF Handled, InMode, Views, Orders

LEMMA LeadsNowhere == ASSUME NEW v \in Views PROVE Leads(<<>>, v, v)
<1>1. Passes([n \in {0} |-> v], v, <<>>)
  BY DEF Passes
<1> QED BY <1>1 DEF Leads

LEMMA LeadsOn ==
    ASSUME NEW q \in Seq(Orders), NEW v, NEW e, Leads(q, v, e), NEW x \in Orders,
           e \in Views
    PROVE  Leads(Append(q, x), v, Handled(e, x))
<1>1. PICK f : Passes(f, v, q) /\ f[Len(q)] = e
  BY DEF Leads
<1> DEFINE n == Len(q) + 1
           p == Append(q, x)
           g == [i \in 0..n |-> IF i = n THEN Handled(e, x) ELSE f[i]]
<1>2. n \in Nat \ {0} /\ Len(p) = n /\ p[n] = x /\ \A i \in 1..Len(q) : p[i] = q[i]
  BY AppendProperties
<1>3. g \in [0..n -> Views] /\ g[0] = v /\ g[n] = Handled(e, x)
  <2>1. Handled(e, x) \in Views
    BY HandledType
  <2> HIDE DEF Handled
  <2> QED BY <1>1, <1>2, <2>1 DEF Passes
<1> HIDE DEF p, Handled
<1>4. \A i \in 1..n : g[i] = Handled(g[i - 1], p[i])
  BY <1>1, <1>2 DEF Passes
<1>5. Passes(g, v, p) /\ g[Len(p)] = Handled(e, x)
  BY <1>2, <1>3, <1>4 DEF Passes
<1> QED BY <1>5 DEF Leads, p

LEMMA LeadsRest ==
    ASSUME NEW q \in Seq(Orders), q # <<>>, NEW v, NEW e, Leads(q, v, e)
    PROVE  Leads(Tail(q), Handled(v, Head(q)), e)
<1>1. PICK f : Passes(f, v, q) /\ f[Len(q)] = e
  BY DEF Leads
<1> DEFINE p == Tail(q)
           g == [i \in 0..Len(p) |-> f[i + 1]]
<1>2. Len(q) \in Nat \ {0} /\ Len(p) = Len(q) - 1 /\ Head(q) = q[1] /\ \A i \in 1..Len(p) : p[i] = q[i + 1]
  OBVIOUS
<1> HIDE DEF p
<1>3. g \in [0..Len(p) -> Views] /\ g[0] = Handled(v, Head(q)) /\ g[Len(p)] = e
  BY <1>1, <1>2 DEF Passes
<1>4. ASSUME NEW i \in 1..Len(p) PROVE g[i] = Handled(g[i - 1], p[i])
  <2>1. i + 1 \in 1..Len(q) /\ i \in 0..Len(p) /\ i - 1 \in 0..Len(p) /\ p[i] = q[i + 1]
        /\ (i + 1) - 1 = i /\ (i - 1) + 1 = i
    BY <1>2
  <2>2. g[i] = f[i + 1] /\ g[i - 1] = f[i]
    BY <2>1
  <2>3. f[i + 1] = Handled(f[i], q[i + 1])
    BY <1>1, <2>1 DEF Passes
  <2> QED BY <2>1, <2>2, <2>3
<1>5. Passes(g, Handled(v, Head(q)), p)
  BY <1>3, <1>4 DEF Passes
<1> QED BY <1>3, <1>5 DEF Leads, p

LEMMA SuppressedIs ==
    ASSUME NEW e, toWorker \in Seq(Orders), Leads(toWorker, View, e)
    PROVE  Suppressed = e.live
<1> DEFINE n == Len(toWorker)
           P(g) == g = [i \in 0..n |-> IF i = 0 THEN View ELSE Handled(g[i - 1], toWorker[i])]
           h == CHOOSE g : P(g)
<1>1. PICK f : Passes(f, View, toWorker) /\ f[n] = e
  BY DEF Leads
<1>2. P(f)
  BY <1>1 DEF Passes
<1>3. P(h)
  <2> HIDE DEF P
  <2> QED BY <1>2, Zenon
<1>4. Suppressed = h[n].live
  BY Zenon DEF Suppressed, View
<1> HIDE DEF h, Handled, View
<1>5. n \in Nat
  OBVIOUS
<1> DEFINE T == {i \in 0..n : f[i] = h[i]}
<1>6. 0 \in T
  BY <1>2, <1>3, <1>5
<1>7. \A i \in 1..n : i - 1 \in T => i \in T
  BY <1>2, <1>3, <1>5
<1>8. n \in T
  <2> HIDE DEF T
  <2> QED BY <1>5, <1>6, <1>7, UpTo
<1> QED BY <1>1, <1>4, <1>8

LEMMA LeadsTold ==
    ASSUME NEW q \in Seq(Orders), NEW v, NEW e \in Views, Leads(q, v, e),
           NEW x, NEW b \in {<<>>, <<x>>}, b # <<>> => x \in Orders
    PROVE  /\ q \o b \in Seq(Orders)
           /\ Leads(q \o b, v, IF b = <<>> THEN e ELSE Handled(e, x))
<1>1. CASE b = <<>>
  <2>1. q \o b = q
    BY <1>1
  <2> QED BY <1>1, <2>1
<1>2. CASE b = <<x>> /\ b # <<>>
  <2>1. q \o b = Append(q, x) /\ x \in Orders
    BY <1>2
  <2>2. Append(q, x) \in Seq(Orders)
    BY <2>1
  <2>3. Leads(Append(q, x), v, Handled(e, x))
    BY <2>1, LeadsOn
  <2> QED BY <1>2, <2>1, <2>2, <2>3
<1> QED BY <1>1, <1>2

-----------------------------------------------------------------------------
(* LiveView: the two threads agree about the stream.                       *)

\* What the GUI shows is what the worker will leave out once it has handled what
\* is queued, and is a stream of the seat that should be streamed.
ViewsAgree ==
    /\ gui.liveSent = gui.live
    /\ Leads(toWorker, View, [live |-> gui.live, mode |-> gui.mode])
    /\ gui.live # NoDesktop => gui.live = gui.target /\ session[gui.live] # "none"

OnlyTargetRuns == \A s \in Desktops : session[s] \in Alive => s = gui.target

\* A failure on its way to the GUI is about a seat that has no stream, and will have
\* none when the GUI takes it.
FailuresAreTrue ==
    \A i \in 1..Len(toGui), s \in Desktops : toGui[i] = Answer(FALSE, s) =>
        session[s] \notin Alive /\ \A j \in 1..i : toGui[j] # Answer(TRUE, s)

LiveInv ==
    /\ LiveTypeOK
    /\ ViewsAgree
    /\ ~LateAnswerFails => OnlyTargetRuns /\ FailuresAreTrue

NoStreamStarts == \A s \in Desktops : session'[s] \in Alive => session[s] \in Alive

LEMMA TailIs ==
    ASSUME NEW S, NEW q \in Seq(S), q # <<>>, NEW i \in 1..Len(Tail(q))
    PROVE  i + 1 \in 1..Len(q) /\ Tail(q)[i] = q[i + 1]
<1>1. Len(q) \in Nat \ {0} /\ Len(Tail(q)) = Len(q) - 1
  OBVIOUS
<1> QED BY <1>1

LEMMA FailuresStay ==
    ASSUME toGui \in Seq(Snapshots \cup Answers), FailuresAreTrue, NoStreamStarts,
           toGui' = toGui \/ (toGui # <<>> /\ toGui' = Tail(toGui))
    PROVE  FailuresAreTrue'
<1> SUFFICES ASSUME NEW i \in 1..Len(toGui'), NEW s \in Desktops, toGui'[i] = Answer(FALSE, s)
             PROVE  session'[s] \notin Alive /\ \A j \in 1..i : toGui'[j] # Answer(TRUE, s)
  BY DEF FailuresAreTrue
<1> HIDE DEF Answer
<1>1. CASE toGui' = toGui
  BY <1>1 DEF FailuresAreTrue, NoStreamStarts
<1>2. CASE toGui # <<>> /\ toGui' = Tail(toGui)
  <2>1. i \in Nat /\ \A j \in 1..i : j \in 1..Len(Tail(toGui)) /\ j + 1 \in 1..(i + 1)
    <3>1. Len(Tail(toGui)) \in Nat /\ i \in 1..Len(Tail(toGui))
      BY <1>2
    <3> QED BY <3>1
  <2>2. i + 1 \in 1..Len(toGui) /\ toGui[i + 1] = Answer(FALSE, s)
    BY <1>2, TailIs
  <2>3. session[s] \notin Alive /\ \A j \in 1..(i + 1) : toGui[j] # Answer(TRUE, s)
    BY <2>2 DEF FailuresAreTrue
  <2>4. ASSUME NEW j \in 1..i PROVE toGui'[j] # Answer(TRUE, s)
    <3>1. Tail(toGui)[j] = toGui[j + 1]
      BY <1>2, <2>1, TailIs
    <3> QED BY <1>2, <2>1, <2>3, <3>1
  <2> QED BY <2>3, <2>4 DEF NoStreamStarts
<1> QED BY <1>1, <1>2

LEMMA FocusedType ==
    ASSUME NEW g \in Guis
    PROVE  FocusedSeat(g) \in Desktops \cup {NoDesktop}
           /\ DesiredSeat(g) \in Desktops \cup {NoDesktop}
           /\ (g.mode # "vnc" => DesiredSeat(g) = NoDesktop)
  BY DEF FocusedSeat, DesiredSeat, Guis, Walls

LEMMA OrderTypes ==
    /\ \A s \in Desktops \cup {NoDesktop} : Focus(s) \in Orders /\ LiveSeat(s) \in Orders
    /\ \A s \in Desktops : Endpoint(s) \in Orders
    /\ \A m \in Modes : Config(m) \in Orders
<1>1. \A s \in Desktops \cup {NoDesktop} : Focus(s) \in Orders /\ LiveSeat(s) \in Orders
  BY DEF Focus, LiveSeat, Orders
<1>2. \A s \in Desktops : Endpoint(s) \in Orders
  BY DEF Endpoint, Orders
<1>3. \A m \in Modes : Config(m) \in Orders
  BY DEF Config, Orders
<1> QED BY <1>1, <1>2, <1>3

LEMMA HandledIs ==
    ASSUME NEW v \in Views
    PROVE  /\ \A s : Handled(v, Focus(s)) = v
           /\ \A s : Handled(v, Endpoint(s)) = v
           /\ \A s : Handled(v, LiveSeat(s)) = [live |-> s, mode |-> v.mode]
           /\ \A m : Handled(v, Config(m)) =
                  [live |-> IF m # v.mode /\ m # "vnc" THEN NoDesktop ELSE v.live, mode |-> m]
<1>1. \A s : Handled(v, Focus(s)) = v
  BY DEF Handled, Focus
<1>2. \A s : Handled(v, Endpoint(s)) = v
  BY DEF Handled, Endpoint
<1>3. \A s : Handled(v, LiveSeat(s)) = [live |-> s, mode |-> v.mode]
  BY DEF Handled, Views, LiveSeat
<1>4. \A m : Handled(v, Config(m)) =
          [live |-> IF m # v.mode /\ m # "vnc" THEN NoDesktop ELSE v.live, mode |-> m]
  BY DEF Handled, InMode, Views, Config
<1> QED BY <1>1, <1>2, <1>3, <1>4

\* Telling the worker that nothing streams.
LEMMA LeadsBack ==
    ASSUME NEW q \in Seq(Orders), NEW v, NEW e \in Views, Leads(q, v, e), NEW sent,
           sent = e.live \/ e.live = NoDesktop
    PROVE  /\ q \o OnChange(LiveSeat(NoDesktop), sent) \in Seq(Orders)
           /\ Leads(q \o OnChange(LiveSeat(NoDesktop), sent), v,
                     [live |-> NoDesktop, mode |-> e.mode])
<1> DEFINE x == LiveSeat(NoDesktop)
           b == OnChange(x, sent)
<1>1. x \in Orders /\ Handled(e, x) = [live |-> NoDesktop, mode |-> e.mode]
      /\ x.seat = NoDesktop
  BY OrderTypes, HandledIs DEF LiveSeat
<1>2. b \in {<<>>, <<x>>} /\ (b = <<>> => e = [live |-> NoDesktop, mode |-> e.mode])
  BY <1>1 DEF OnChange, Views
<1> HIDE DEF b, x
<1>3. q \o b \in Seq(Orders) /\ Leads(q \o b, v, IF b = <<>> THEN e ELSE Handled(e, x))
  BY <1>1, <1>2, LeadsTold
<1> QED BY <1>1, <1>2, <1>3 DEF b, x

\* The stream is given up: the worker is told to take stills again.
LEMMA FallbackKeeps ==
    ASSUME LiveInv, Fallback, worker' = worker
    PROVE  gui' \in Guis /\ toWorker' \in Seq(Orders) /\ ViewsAgree' /\ gui'.target = NoDesktop
<1> DEFINE e == [live |-> gui.live, mode |-> gui.mode]
<1>1. gui \in Guis /\ toWorker \in Seq(Orders) /\ Leads(toWorker, View, e) /\ gui.liveSent = gui.live
  BY DEF LiveInv, LiveTypeOK, ViewsAgree
<1>2. e \in Views
  BY <1>1 DEF Guis, Views
<1>3. gui' \in Guis /\ gui'.target = NoDesktop /\ gui'.live = NoDesktop /\ gui'.liveSent = NoDesktop
      /\ gui'.mode = gui.mode
  BY <1>1 DEF Fallback, ClearLive, Guis
<1>4. toWorker' = toWorker \o OnChange(LiveSeat(NoDesktop), gui.liveSent) /\ View' = View
  BY DEF Fallback, View
<1>5. toWorker' \in Seq(Orders)
      /\ Leads(toWorker', View, [live |-> NoDesktop, mode |-> gui.mode])
  <2> HIDE DEF View
  <2>1. /\ toWorker \o OnChange(LiveSeat(NoDesktop), gui.liveSent) \in Seq(Orders)
        /\ Leads(toWorker \o OnChange(LiveSeat(NoDesktop), gui.liveSent), View,
                 [live |-> NoDesktop, mode |-> e.mode])
    <3> HIDE DEF e
    <3>1. gui.liveSent = e.live
      BY <1>1 DEF e
    <3> QED BY <1>1, <1>2, <3>1, LeadsBack
  <2> QED BY <1>4, <2>1
<1> QED BY <1>3, <1>4, <1>5 DEF ViewsAgree

LEMMA SyncKeeps ==
    ASSUME LiveInv, NEW g \in Guis,
           g.live = gui.live, g.liveSent = gui.liveSent, g.target = gui.target,
           NEW emitted,
           (emitted = <<>> /\ g.mode = gui.mode) \/ emitted = <<Config(g.mode)>>,
           Sync(g, emitted), worker' = worker
    PROVE  /\ gui' \in Guis /\ toWorker' \in Seq(Orders)
           /\ session' \in [Desktops -> {"none", "failed"} \cup Alive]
           /\ ViewsAgree' /\ NoStreamStarts
           /\ OnlyTargetRuns => OnlyTargetRuns'
<1> DEFINE seat == FocusedSeat(g)
           desired == DesiredSeat(g)
           e == [live |-> gui.live, mode |-> gui.mode]
           c == IF emitted = <<>> THEN e ELSE Handled(e, Config(g.mode))
           q1 == toWorker \o emitted
           q2 == q1 \o OnChange(Focus(seat), g.focusSent)
           q3 == q2 \o OnChange(LiveSeat(NoDesktop), g.liveSent)
           q4 == q3 \o (IF desired = NoDesktop THEN <<>> ELSE <<Endpoint(desired)>>)
<1>1. /\ gui \in Guis /\ toWorker \in Seq(Orders) /\ Leads(toWorker, View, e)
      /\ gui.liveSent = gui.live /\ session \in [Desktops -> {"none", "failed"} \cup Alive]
      /\ gui.live # NoDesktop => gui.live = gui.target /\ session[gui.live] # "none"
  BY DEF LiveInv, LiveTypeOK, ViewsAgree
<1>2. /\ seat \in Desktops \cup {NoDesktop} /\ desired \in Desktops \cup {NoDesktop}
      /\ g.mode # "vnc" => desired = NoDesktop
  BY FocusedType
<1>3. e \in Views /\ c \in Views /\ c.mode = g.mode
      /\ (c.live = gui.live \/ (c.live = NoDesktop /\ desired = NoDesktop))
  <2>1. e \in Views /\ e.mode = gui.mode /\ e.live = gui.live /\ g.mode \in Modes
    BY <1>1 DEF Guis, Views
  <2>2. CASE emitted = <<>>
    BY <2>1, <2>2 DEF Guis
  <2>3. CASE emitted = <<Config(g.mode)>> /\ emitted # <<>>
    <3> HIDE DEF e
    <3>1. c = [live |-> IF g.mode # e.mode /\ g.mode # "vnc" THEN NoDesktop ELSE e.live,
               mode |-> g.mode]
      BY <2>1, <2>3, HandledIs
    <3> QED BY <1>2, <2>1, <3>1 DEF Views
  <2> QED BY <2>2, <2>3
<1>4. q1 \in Seq(Orders) /\ Leads(q1, View, c)
  <2> HIDE DEF e
  <2>1. Config(g.mode) \in Orders /\ emitted \in {<<>>, <<Config(g.mode)>>}
    BY OrderTypes DEF Guis
  <2> QED BY <1>1, <1>3, <2>1, LeadsTold
<1> HIDE DEF q1, c, e
<1>5. q2 \in Seq(Orders) /\ Leads(q2, View, c)
  <2> DEFINE b == OnChange(Focus(seat), g.focusSent)
  <2>1. Focus(seat) \in Orders /\ b \in {<<>>, <<Focus(seat)>>} /\ Handled(c, Focus(seat)) = c
    BY <1>2, <1>3, OrderTypes, HandledIs DEF OnChange
  <2> HIDE DEF b, seat
  <2>2. q1 \o b \in Seq(Orders) /\ Leads(q1 \o b, View, IF b = <<>> THEN c ELSE Handled(c, Focus(seat)))
    BY <1>3, <1>4, <2>1, LeadsTold
  <2> QED BY <2>1, <2>2 DEF b
<1> HIDE DEF q2
<1>6. toWorker \o (emitted \o OnChange(Focus(seat), g.focusSent)) = q2
  <2>1. emitted \in Seq(Orders)
    <3>1. Config(g.mode) \in Orders
      BY OrderTypes DEF Guis
    <3>2. <<>> \in Seq(Orders) /\ <<Config(g.mode)>> \in Seq(Orders)
      <4> DEFINE x == Config(g.mode)
      <4> HIDE DEF x
      <4> QED BY <3>1 DEF x
    <3> QED BY <3>2
  <2>2. OnChange(Focus(seat), g.focusSent) \in Seq(Orders)
    BY <1>2, OrderTypes DEF OnChange
  <2> QED BY <1>1, <2>1, <2>2, ConcatAssociative DEF q1, q2
<1>7. CASE desired = g.target
  <2>1. gui' = [g EXCEPT !.focusSent = seat] /\ toWorker' = q2 /\ session' = session
    BY <1>6, <1>7 DEF Sync
  <2>2. c = [live |-> gui.live, mode |-> g.mode]
    BY <1>1, <1>3, <1>7 DEF Views
  <2>3. /\ gui' \in Guis /\ gui'.live = gui.live /\ gui'.liveSent = gui.live
        /\ gui'.target = gui.target /\ gui'.mode = g.mode
    BY <1>1, <1>2, <2>1 DEF Guis
  <2>4. ViewsAgree'
    BY <1>1, <1>5, <2>1, <2>2, <2>3 DEF ViewsAgree, View
  <2> QED BY <1>1, <1>5, <2>1, <2>3, <2>4 DEF NoStreamStarts, OnlyTargetRuns
<1>8. CASE desired # g.target
  <2>1. /\ gui' = [ClearLive([g EXCEPT !.focusSent = seat]) EXCEPT !.target = desired]
        /\ toWorker' = q4
        /\ session' = IF g.target = NoDesktop THEN session ELSE Stopped(g.target)
    BY <1>6, <1>8 DEF Sync
  <2>2. /\ gui' \in Guis /\ gui'.live = NoDesktop /\ gui'.liveSent = NoDesktop
        /\ gui'.target = desired /\ gui'.mode = g.mode
    BY <1>1, <1>2, <2>1 DEF Guis, ClearLive
  <2>3. q3 \in Seq(Orders) /\ Leads(q3, View, [live |-> NoDesktop, mode |-> g.mode])
    BY <1>1, <1>3, <1>5, LeadsBack
  <2> HIDE DEF q3
  <2>4. q4 \in Seq(Orders) /\ Leads(q4, View, [live |-> NoDesktop, mode |-> g.mode])
    <3> DEFINE d == [live |-> NoDesktop, mode |-> g.mode]
               b == IF desired = NoDesktop THEN <<>> ELSE <<Endpoint(desired)>>
    <3>1. d \in Views /\ Handled(d, Endpoint(desired)) = d
      <4>1. d \in Views
        BY DEF Views, Guis
      <4> QED BY <4>1, HandledIs
    <3>2. b \in {<<>>, <<Endpoint(desired)>>} /\ (b # <<>> => Endpoint(desired) \in Orders)
      BY <1>2, OrderTypes
    <3> HIDE DEF b, d, desired
    <3>3. q3 \o b \in Seq(Orders)
          /\ Leads(q3 \o b, View, IF b = <<>> THEN d ELSE Handled(d, Endpoint(desired)))
      <4>1. Leads(q3, View, d)
        BY <2>3 DEF d
      <4> QED BY <2>3, <3>1, <3>2, <4>1, LeadsTold
    <3> QED BY <3>1, <3>3 DEF b, d
  <2> HIDE DEF q4
  <2>5. ViewsAgree'
    BY <2>1, <2>2, <2>4 DEF ViewsAgree, View
  <2>6. /\ session' \in [Desktops -> {"none", "failed"} \cup Alive]
        /\ \A s \in Desktops : session'[s] \in Alive => session[s] \in Alive /\ s # g.target
    <3>1. CASE g.target = NoDesktop
      BY <1>1, <2>1, <3>1, LiveViewAssumption
    <3>2. CASE g.target # NoDesktop
      <4>1. session' = [session EXCEPT ![g.target] = "none"]
        BY <2>1, <3>2 DEF Stopped
      <4> QED BY <1>1, <4>1 DEF Alive
    <3> QED BY <3>1, <3>2
  <2> QED BY <2>1, <2>2, <2>4, <2>5, <2>6 DEF NoStreamStarts, OnlyTargetRuns
<1> QED BY <1>7, <1>8

LEMMA EventType == ASSUME events \in 0..MaxEvents, Event PROVE events' \in 0..MaxEvents
  BY LiveViewAssumption DEF Event

LEMMA LiveInitially == ASSUME LiveInit PROVE LiveInv
<1>1. LiveTypeOK
  <2>1. Bare \in Walls /\ gui \in Guis
    BY DEF LiveInit, Bare, Walls, Guis, Modes
  <2>2. worker \in Workers
    BY <2>1 DEF LiveInit, Modes, Workers
  <2>3. session \in [Desktops -> {"none", "failed"} \cup Alive]
    BY DEF LiveInit
  <2>4. pool \in Walls /\ open \in BOOLEAN /\ shots \subseteq Desktops /\ toWorker \in Seq(Orders)
        /\ toGui \in Seq(Snapshots \cup Answers) /\ events \in 0..MaxEvents
    BY LiveViewAssumption DEF LiveInit
  <2> QED BY <2>1, <2>2, <2>3, <2>4 DEF LiveTypeOK
<1>2. ViewsAgree
  <2>1. View \in Views /\ gui.live = NoDesktop /\ gui.liveSent = NoDesktop
        /\ View = [live |-> gui.live, mode |-> gui.mode] /\ toWorker = <<>>
    BY DEF LiveInit, View, Views
  <2> HIDE DEF View
  <2>2. Leads(<<>>, View, View)
    BY <2>1, LeadsNowhere
  <2> QED BY <2>1, <2>2 DEF ViewsAgree
<1>3. OnlyTargetRuns
  BY DEF LiveInit, OnlyTargetRuns, Alive
<1>4. FailuresAreTrue
  <2>1. 1..Len(toGui) = {}
    BY DEF LiveInit
  <2> QED BY <2>1 DEF FailuresAreTrue
<1> QED BY <1>1, <1>2, <1>3, <1>4 DEF LiveInv

\* What is left to say of a step that only syncs, or gives the stream up.
LEMMA GuiSteps ==
    ASSUME LiveInv, gui' \in Guis, toWorker' \in Seq(Orders),
           session' \in [Desktops -> {"none", "failed"} \cup Alive], ViewsAgree', NoStreamStarts,
           ~LateAnswerFails => OnlyTargetRuns', pool' \in Walls, open' \in BOOLEAN,
           shots' \subseteq Desktops, worker' = worker, events' \in 0..MaxEvents,
           toGui' = toGui \/ (toGui # <<>> /\ toGui' = Tail(toGui))
    PROVE  LiveInv'
<1>1. toGui \in Seq(Snapshots \cup Answers) /\ worker \in Workers
  BY DEF LiveInv, LiveTypeOK
<1>2. toGui' \in Seq(Snapshots \cup Answers)
  <2>1. toGui # <<>> => Tail(toGui) \in Seq(Snapshots \cup Answers)
    BY <1>1
  <2> QED BY <1>1, <2>1
<1>3. LiveTypeOK'
  BY <1>1, <1>2 DEF LiveTypeOK
<1>4. ~LateAnswerFails => FailuresAreTrue'
  BY <1>1, FailuresStay DEF LiveInv
<1> QED BY <1>3, <1>4 DEF LiveInv

LEMMA ToggleFocusKeeps == ASSUME LiveInv, NEW k \in Slots, ToggleFocus(k) PROVE LiveInv'
<1> DEFINE g == [gui EXCEPT !.focus = IF k = gui.focus THEN NoSlot ELSE k]
<1>1. LiveTypeOK
  BY DEF LiveInv
<1>2. g \in Guis /\ g.live = gui.live /\ g.liveSent = gui.liveSent /\ g.target = gui.target
      /\ g.mode = gui.mode
  BY <1>1 DEF LiveTypeOK, Guis
<1>3. Sync(g, <<>>) /\ Event /\ UNCHANGED <<pool, open, shots, worker, toGui>>
  BY DEF ToggleFocus
<1> HIDE DEF g
<1>4. /\ gui' \in Guis /\ toWorker' \in Seq(Orders)
      /\ session' \in [Desktops -> {"none", "failed"} \cup Alive]
      /\ ViewsAgree' /\ NoStreamStarts
      /\ OnlyTargetRuns => OnlyTargetRuns'
  BY <1>2, <1>3, SyncKeeps
<1>5. ~LateAnswerFails => OnlyTargetRuns'
  BY <1>4 DEF LiveInv
<1>6. events' \in 0..MaxEvents /\ pool' \in Walls /\ open' \in BOOLEAN /\ shots' \subseteq Desktops
  BY <1>1, <1>3, EventType DEF LiveTypeOK
<1> QED BY <1>3, <1>4, <1>5, <1>6, GuiSteps

LEMMA SetLiveModeKeeps == ASSUME LiveInv, NEW m \in Modes, SetLiveMode(m) PROVE LiveInv'
<1> DEFINE g == [gui EXCEPT !.mode = m]
<1>1. LiveTypeOK
  BY DEF LiveInv
<1>2. g \in Guis /\ g.live = gui.live /\ g.liveSent = gui.liveSent /\ g.target = gui.target
      /\ g.mode = m
  BY <1>1 DEF LiveTypeOK, Guis
<1>3. Sync(g, <<Config(m)>>) /\ Event /\ UNCHANGED <<pool, open, shots, worker, toGui>>
  BY DEF SetLiveMode
<1> HIDE DEF g
<1>4. /\ gui' \in Guis /\ toWorker' \in Seq(Orders)
      /\ session' \in [Desktops -> {"none", "failed"} \cup Alive]
      /\ ViewsAgree' /\ NoStreamStarts
      /\ OnlyTargetRuns => OnlyTargetRuns'
  BY <1>2, <1>3, SyncKeeps
<1>5. ~LateAnswerFails => OnlyTargetRuns'
  BY <1>4 DEF LiveInv
<1>6. events' \in 0..MaxEvents /\ pool' \in Walls /\ open' \in BOOLEAN /\ shots' \subseteq Desktops
  BY <1>1, <1>3, EventType DEF LiveTypeOK
<1> QED BY <1>3, <1>4, <1>5, <1>6, GuiSteps

LEMMA ApplyPayloadKeeps == ASSUME LiveInv, ApplyPayload PROVE LiveInv'
<1> DEFINE shot == Head(toGui)
           g == [gui EXCEPT !.wall = shot.wall]
<1>1. LiveTypeOK
  BY DEF LiveInv
<1>2. toGui # <<>> /\ toGui' = Tail(toGui) /\ UNCHANGED <<pool, open, worker, events>>
  BY DEF ApplyPayload
<1>3. shot \in Snapshots
  <2>1. shot \in Snapshots \cup Answers
    BY <1>1, <1>2 DEF LiveTypeOK
  <2>2. shot.signal = "snapshot"
    BY DEF ApplyPayload
  <2> QED BY <2>1, <2>2 DEF Answers
<1>4. events' \in 0..MaxEvents /\ pool' \in Walls /\ open' \in BOOLEAN
  BY <1>1, <1>2 DEF LiveTypeOK
<1>5. CASE shot.ok
  <2>1. Sync(g, <<>>) /\ shots' = shot.shots
    BY <1>5 DEF ApplyPayload
  <2>2. g \in Guis /\ g.live = gui.live /\ g.liveSent = gui.liveSent /\ g.target = gui.target
        /\ g.mode = gui.mode /\ shots' \subseteq Desktops
    BY <1>1, <1>3, <2>1 DEF LiveTypeOK, Guis, Snapshots
  <2> HIDE DEF g, shot
  <2>3. /\ gui' \in Guis /\ toWorker' \in Seq(Orders)
        /\ session' \in [Desktops -> {"none", "failed"} \cup Alive]
        /\ ViewsAgree' /\ NoStreamStarts
        /\ OnlyTargetRuns => OnlyTargetRuns'
    BY <1>2, <2>1, <2>2, SyncKeeps
  <2>4. ~LateAnswerFails => OnlyTargetRuns'
    BY <2>3 DEF LiveInv
  <2> QED BY <1>2, <1>4, <2>2, <2>3, <2>4, GuiSteps
<1>6. CASE ~shot.ok
  <2>1. UNCHANGED <<gui, toWorker, session, shots>>
    BY <1>6 DEF ApplyPayload
  <2>2. ViewsAgree' /\ NoStreamStarts /\ (~LateAnswerFails => OnlyTargetRuns')
    BY <1>2, <2>1 DEF LiveInv, ViewsAgree, View, NoStreamStarts, OnlyTargetRuns
  <2>3. gui' \in Guis /\ toWorker' \in Seq(Orders) /\ shots' \subseteq Desktops
        /\ session' \in [Desktops -> {"none", "failed"} \cup Alive]
    BY <1>1, <2>1 DEF LiveTypeOK
  <2> QED BY <1>2, <1>4, <2>2, <2>3, GuiSteps
<1> QED BY <1>5, <1>6

LEMMA PollLiveKeeps == ASSUME LiveInv, PollLive PROVE LiveInv'
<1>1. LiveTypeOK /\ gui.live # NoDesktop /\ gui.live \in Desktops
      /\ UNCHANGED <<pool, open, shots, worker, toGui, events>>
  BY DEF LiveInv, LiveTypeOK, PollLive, Guis
<1>2. pool' \in Walls /\ open' \in BOOLEAN /\ shots' \subseteq Desktops /\ events' \in 0..MaxEvents
  BY <1>1 DEF LiveTypeOK
<1>3. CASE session[gui.live] = "failed" /\ session' = Stopped(gui.live) /\ Fallback
  <2>1. gui' \in Guis /\ toWorker' \in Seq(Orders) /\ ViewsAgree'
    BY <1>1, <1>3, FallbackKeeps
  <2>2. session' \in [Desktops -> {"none", "failed"} \cup Alive] /\ NoStreamStarts
        /\ \A s \in Desktops : session'[s] \in Alive => s # gui.live
    BY <1>1, <1>3 DEF LiveTypeOK, Stopped, NoStreamStarts, Alive
  <2>3. gui.live = gui.target
    BY <1>1 DEF LiveInv, ViewsAgree
  <2>4. ~LateAnswerFails => OnlyTargetRuns'
    BY <2>2, <2>3 DEF LiveInv, OnlyTargetRuns, NoStreamStarts
  <2> QED BY <1>1, <1>2, <2>1, <2>2, <2>4, GuiSteps
<1>4. CASE gui' = [gui EXCEPT !.ready = TRUE] /\ UNCHANGED <<session, toWorker>>
  <2>1. gui' \in Guis /\ gui'.live = gui.live /\ gui'.liveSent = gui.liveSent
        /\ gui'.target = gui.target /\ gui'.mode = gui.mode
    BY <1>1, <1>4 DEF LiveTypeOK, Guis
  <2>2. toWorker' \in Seq(Orders) /\ session' \in [Desktops -> {"none", "failed"} \cup Alive]
    BY <1>1, <1>4 DEF LiveTypeOK
  <2>3. ViewsAgree' /\ NoStreamStarts /\ (~LateAnswerFails => OnlyTargetRuns')
    BY <1>1, <1>4, <2>1 DEF LiveInv, ViewsAgree, View, NoStreamStarts, OnlyTargetRuns
  <2> QED BY <1>1, <1>2, <2>1, <2>2, <2>3, GuiSteps
<1> QED BY <1>3, <1>4 DEF PollLive

LEMMA ShutdownKeeps == ASSUME LiveInv, Shutdown PROVE LiveInv'
<1>1. LiveTypeOK /\ Fallback /\ open' = FALSE /\ session' = [s \in Desktops |-> "none"]
      /\ UNCHANGED <<pool, shots, worker, toGui, events>>
  BY DEF LiveInv, Shutdown, Fallback
<1>2. gui' \in Guis /\ toWorker' \in Seq(Orders) /\ ViewsAgree'
  BY <1>1, FallbackKeeps
<1>3. session' \in [Desktops -> {"none", "failed"} \cup Alive] /\ NoStreamStarts /\ OnlyTargetRuns'
  BY <1>1 DEF NoStreamStarts, OnlyTargetRuns, Alive
<1>4. pool' \in Walls /\ open' \in BOOLEAN /\ shots' \subseteq Desktops /\ events' \in 0..MaxEvents
  BY <1>1 DEF LiveTypeOK
<1> QED BY <1>1, <1>2, <1>3, <1>4, GuiSteps

LEMMA OnLiveEndpointKeeps == ASSUME LiveInv, OnLiveEndpoint PROVE LiveInv'
<1> DEFINE answer == Head(toGui)
           seat == answer.seat
           e == [live |-> gui.live, mode |-> gui.mode]
<1>1. LiveTypeOK
  BY DEF LiveInv
<1>2. toGui # <<>> /\ toGui' = Tail(toGui) /\ UNCHANGED <<pool, open, shots, worker, events>>
  BY DEF OnLiveEndpoint
<1>3. answer \in Answers /\ seat \in Desktops
  <2>1. answer \in Snapshots \cup Answers
    BY <1>1, <1>2 DEF LiveTypeOK
  <2>2. answer.signal = "answer"
    BY DEF OnLiveEndpoint
  <2> QED BY <2>1, <2>2 DEF Answers, Snapshots
<1>4. /\ 1 \in 1..Len(toGui) /\ answer = toGui[1]
      /\ Len(Tail(toGui)) = Len(toGui) - 1 /\ Len(toGui) \in Nat \ {0}
  BY <1>1, <1>2 DEF LiveTypeOK
<1>5. pool' \in Walls /\ open' \in BOOLEAN /\ shots' \subseteq Desktops /\ events' \in 0..MaxEvents
  BY <1>1, <1>2 DEF LiveTypeOK
<1>6. CASE UNCHANGED <<gui, session, toWorker>>
  <2>1. gui' \in Guis /\ toWorker' \in Seq(Orders)
        /\ session' \in [Desktops -> {"none", "failed"} \cup Alive]
    BY <1>1, <1>6 DEF LiveTypeOK
  <2>2. ViewsAgree' /\ NoStreamStarts /\ (~LateAnswerFails => OnlyTargetRuns')
    BY <1>2, <1>6 DEF LiveInv, ViewsAgree, View, NoStreamStarts, OnlyTargetRuns
  <2> QED BY <1>2, <1>5, <2>1, <2>2, GuiSteps
<1>7. CASE seat = gui.target /\ ~answer.ok /\ Fallback /\ UNCHANGED session
  <2>1. gui' \in Guis /\ toWorker' \in Seq(Orders) /\ ViewsAgree'
    BY <1>2, <1>7, FallbackKeeps
  <2>2. session' \in [Desktops -> {"none", "failed"} \cup Alive] /\ NoStreamStarts
    BY <1>1, <1>7 DEF LiveTypeOK, NoStreamStarts
  <2>3. answer = Answer(FALSE, seat)
    BY <1>3, <1>7 DEF Answers, Answer
  <2>4. FailuresAreTrue => session[seat] \notin Alive
    BY <1>3, <1>4, <2>3 DEF FailuresAreTrue
  <2>5. ~LateAnswerFails => OnlyTargetRuns'
    <3> HIDE DEF seat
    <3> QED BY <1>7, <2>4 DEF LiveInv, OnlyTargetRuns
  <2> QED BY <1>2, <1>5, <2>1, <2>2, <2>5, GuiSteps
<1>8. CASE /\ seat = gui.target /\ answer.ok
           /\ session' = Started(seat)
           /\ gui' = [gui EXCEPT !.live = seat, !.ready = FALSE, !.liveSent = seat]
           /\ toWorker' = toWorker \o OnChange(LiveSeat(seat), gui.liveSent)
  <2>1. gui' \in Guis /\ gui'.live = seat /\ gui'.liveSent = seat /\ gui'.target = gui.target
        /\ gui'.mode = gui.mode
    BY <1>1, <1>3, <1>8 DEF LiveTypeOK, Guis
  <2>2. /\ session' \in [Desktops -> {"none", "failed"} \cup Alive] /\ session'[seat] # "none"
        /\ \A s \in Desktops : session'[s] \in Alive => session[s] \in Alive \/ s = seat
    <3> HIDE DEF seat
    <3> QED BY <1>1, <1>3, <1>8 DEF LiveTypeOK, Started, Alive
  <2>3. toWorker' \in Seq(Orders) /\ Leads(toWorker', View, [live |-> seat, mode |-> gui.mode])
    <3> DEFINE x == LiveSeat(seat)
               b == OnChange(x, gui.liveSent)
               d == [live |-> seat, mode |-> gui.mode]
    <3>1. toWorker \in Seq(Orders) /\ Leads(toWorker, View, e) /\ e \in Views /\ gui.liveSent = gui.live
      BY <1>1 DEF LiveInv, LiveTypeOK, ViewsAgree, Guis, Views
    <3>2. x \in Orders /\ Handled(e, x) = d
      BY <1>3, <3>1, OrderTypes, HandledIs
    <3>3. b \in {<<>>, <<x>>} /\ (b = <<>> => e = d)
      BY <3>1 DEF OnChange, LiveSeat
    <3> HIDE DEF b, x, d, e
    <3>4. toWorker \o b \in Seq(Orders)
          /\ Leads(toWorker \o b, View, IF b = <<>> THEN e ELSE Handled(e, x))
      BY <3>1, <3>2, <3>3, LeadsTold
    <3>5. toWorker' = toWorker \o b
      BY <1>8 DEF b, x
    <3> QED BY <3>2, <3>3, <3>4, <3>5 DEF d
  <2>4. View' = View
    BY <1>2 DEF View
  <2>5. ViewsAgree'
    <3> HIDE DEF View, seat
    <3> QED BY <1>8, <2>1, <2>2, <2>3, <2>4 DEF ViewsAgree
  <2>6. toGui \in Seq(Snapshots \cup Answers) /\ toGui' \in Seq(Snapshots \cup Answers)
    <3>1. toGui \in Seq(Snapshots \cup Answers)
      BY <1>1 DEF LiveTypeOK
    <3>2. Tail(toGui) \in Seq(Snapshots \cup Answers)
      BY <1>2, <3>1
    <3> QED BY <1>2, <3>1, <3>2
  <2>7. LiveTypeOK'
    BY <1>1, <1>2, <1>5, <2>1, <2>2, <2>3, <2>6 DEF LiveTypeOK
  <2>8. OnlyTargetRuns => OnlyTargetRuns'
    <3> HIDE DEF seat
    <3> QED BY <1>8, <2>1, <2>2 DEF OnlyTargetRuns
  <2>9. answer = Answer(TRUE, seat)
    BY <1>3, <1>8 DEF Answers, Answer
  <2>10. ASSUME FailuresAreTrue PROVE FailuresAreTrue'
    <3> SUFFICES ASSUME NEW i \in 1..Len(Tail(toGui)), NEW s \in Desktops, Tail(toGui)[i] = Answer(FALSE, s)
                 PROVE  session'[s] \notin Alive /\ \A j \in 1..i : Tail(toGui)[j] # Answer(TRUE, s)
      BY <1>2 DEF FailuresAreTrue
    <3> HIDE DEF Answer, seat, answer
    <3>1. i + 1 \in 1..Len(toGui) /\ toGui[i + 1] = Answer(FALSE, s)
      BY <1>2, <2>6, TailIs
    <3>2. session[s] \notin Alive /\ \A j \in 1..(i + 1) : toGui[j] # Answer(TRUE, s)
      BY <2>10, <3>1 DEF FailuresAreTrue
    <3>3. 1 \in 1..(i + 1) /\ \A j \in 1..i : j \in 1..Len(Tail(toGui)) /\ j + 1 \in 1..(i + 1)
      BY <1>4
    <3>4. s # seat
      BY <1>4, <2>9, <3>2, <3>3
    <3>5. \A j \in 1..i : Tail(toGui)[j] = toGui[j + 1]
      BY <1>2, <2>6, <3>3, TailIs
    <3> QED BY <2>2, <3>2, <3>3, <3>4, <3>5
  <2> QED BY <2>5, <2>7, <2>8, <2>10 DEF LiveInv
<1> QED BY <1>6, <1>7, <1>8 DEF OnLiveEndpoint

LEMMA AnswersStayTrue ==
    ASSUME toGui \in Seq(Snapshots \cup Answers), FailuresAreTrue, session' = session,
           NEW x \in Snapshots \cup Answers, toGui' = Append(toGui, x),
           \A s \in Desktops : x = Answer(FALSE, s) => ~Streams(s)
    PROVE  FailuresAreTrue'
<1> DEFINE n == Len(toGui) + 1
           q == Append(toGui, x)
<1>1. n \in Nat \ {0} /\ Len(q) = n /\ q[n] = x /\ \A i \in 1..Len(toGui) : q[i] = toGui[i]
      /\ DOMAIN toGui = 1..Len(toGui) /\ Len(toGui) \in Nat
  BY AppendProperties, LenProperties
<1> HIDE DEF q
<1> SUFFICES ASSUME NEW i \in 1..n, NEW s \in Desktops, q[i] = Answer(FALSE, s)
             PROVE  session[s] \notin Alive /\ \A j \in 1..i : q[j] # Answer(TRUE, s)
  BY <1>1 DEF FailuresAreTrue, q
<1>2. Answer(FALSE, s) # Answer(TRUE, s)
  BY DEF Answer
<1>3. ASSUME NEW j \in 1..Len(toGui), toGui[j] = Answer(TRUE, s) PROVE Streams(s)
  BY <1>1, <1>3 DEF Streams, Answer
<1> HIDE DEF Answer
<1>4. CASE i = n
  <2>1. ~Streams(s)
    BY <1>1, <1>4
  <2>2. session[s] \notin Alive
    BY <2>1 DEF Streams
  <2>3. ASSUME NEW j \in 1..n PROVE q[j] # Answer(TRUE, s)
    <3>1. j \in 1..Len(toGui) \/ j = n
      BY <1>1
    <3> QED BY <1>1, <1>2, <1>3, <1>4, <2>1, <3>1
  <2> QED BY <1>4, <2>2, <2>3
<1>5. CASE i # n
  <2>1. i \in 1..Len(toGui) /\ \A j \in 1..i : j \in 1..Len(toGui)
    BY <1>1, <1>5
  <2> QED BY <1>1, <2>1 DEF FailuresAreTrue
<1> QED BY <1>4, <1>5

LEMMA SeatsType == ASSUME NEW w \in Walls PROVE SeatsOf(w) \subseteq Desktops
  BY DEF SeatsOf, Walls

LEMMA PollTypes ==
    ASSUME LiveTypeOK, NEW w \in Workers, PollOnce(w)
    PROVE  /\ worker' \in Workers /\ worker'.live = w.live /\ worker'.mode = w.mode
           /\ events' \in 0..MaxEvents
           /\ \E x \in Snapshots : toGui' = Append(toGui, x)
<1>1. SeatsOf(pool) \subseteq Desktops /\ pool \in Walls /\ Bare \in Walls /\ events \in 0..MaxEvents
  BY SeatsType DEF LiveTypeOK, Bare, Walls
<1>2. CASE /\ worker' = [w EXCEPT !.known = TRUE, !.status = pool]
           /\ toGui' = Append(toGui, Snapshot(TRUE, pool, Captured(SeatsOf(pool))))
           /\ UNCHANGED events
  <2>1. Snapshot(TRUE, pool, Captured(SeatsOf(pool))) \in Snapshots
    BY <1>1 DEF Snapshot, Snapshots, Captured
  <2>2. worker' \in Workers /\ worker'.live = w.live /\ worker'.mode = w.mode
    BY <1>1, <1>2 DEF Workers
  <2> QED BY <1>1, <1>2, <2>1, <2>2
<1>3. CASE /\ Event
           /\ worker' = [w EXCEPT !.known = FALSE, !.status = Bare]
           /\ toGui' = Append(toGui, Snapshot(FALSE, Bare, {}))
  <2>1. Snapshot(FALSE, Bare, {}) \in Snapshots
    BY <1>1 DEF Snapshot, Snapshots
  <2>2. worker' \in Workers /\ worker'.live = w.live /\ worker'.mode = w.mode
    BY <1>1, <1>3 DEF Workers
  <2> QED BY <1>1, <1>3, <2>1, <2>2, EventType
<1>4. CASE FastTick(w)
  <2>1. Snapshot(TRUE, w.status, Captured({w.focus} \cap SeatsOf(w.status))) \in Snapshots
    BY <1>1 DEF Snapshot, Snapshots, Captured, Workers
  <2> QED BY <1>1, <1>4, <2>1 DEF FastTick
<1> QED BY <1>2, <1>3, <1>4 DEF PollOnce, WallTick

\* What is left to say of a step of the worker: what it keeps is what the signal
\* it takes, if any, makes of it.
LEMMA WorkerSteps ==
    ASSUME LiveInv, UNCHANGED <<pool, open, gui, shots, session>>,
           worker' \in Workers, events' \in 0..MaxEvents,
           (toWorker' = toWorker /\ View' = View)
           \/ (toWorker # <<>> /\ toWorker' = Tail(toWorker) /\ View' = Handled(View, Head(toWorker))),
           toGui' = toGui
           \/ \E x \in Snapshots \cup Answers :
                  /\ toGui' = Append(toGui, x)
                  /\ ~LateAnswerFails => \A s \in Desktops : x = Answer(FALSE, s) => ~Streams(s)
    PROVE  LiveInv'
<1>1. LiveTypeOK /\ toWorker \in Seq(Orders) /\ toGui \in Seq(Snapshots \cup Answers)
  BY DEF LiveInv, LiveTypeOK
<1>2. toWorker' \in Seq(Orders)
  <2>1. toWorker # <<>> => Tail(toWorker) \in Seq(Orders)
    BY <1>1
  <2> QED BY <1>1, <2>1
<1>3. toGui' \in Seq(Snapshots \cup Answers)
  <2>1. \A x \in Snapshots \cup Answers : Append(toGui, x) \in Seq(Snapshots \cup Answers)
    BY <1>1
  <2> QED BY <1>1, <2>1
<1>4. LiveTypeOK'
  BY <1>1, <1>2, <1>3 DEF LiveTypeOK
<1>5. ViewsAgree'
  <2> DEFINE e == [live |-> gui.live, mode |-> gui.mode]
  <2> HIDE DEF View, Handled
  <2>1. Leads(toWorker, View, e)
    BY DEF LiveInv, ViewsAgree
  <2> HIDE DEF e
  <2>2. toWorker # <<>> => Leads(Tail(toWorker), Handled(View, Head(toWorker)), e)
    BY <1>1, <2>1, LeadsRest
  <2>3. Leads(toWorker', View', e)
    BY <2>1, <2>2
  <2> QED BY <2>3 DEF LiveInv, ViewsAgree, e
<1>6. ASSUME ~LateAnswerFails PROVE FailuresAreTrue' /\ OnlyTargetRuns'
  <2>1. FailuresAreTrue /\ OnlyTargetRuns
    BY <1>6 DEF LiveInv
  <2>2. CASE toGui' = toGui
    BY <2>1, <2>2 DEF FailuresAreTrue, OnlyTargetRuns
  <2>3. ASSUME NEW x \in Snapshots \cup Answers, toGui' = Append(toGui, x),
               \A s \in Desktops : x = Answer(FALSE, s) => ~Streams(s)
        PROVE  FailuresAreTrue'
    BY <1>1, <2>1, <2>3, AnswersStayTrue
  <2>4. OnlyTargetRuns'
    BY <2>1 DEF OnlyTargetRuns
  <2> QED BY <1>6, <2>2, <2>3, <2>4
<1> QED BY <1>4, <1>5, <1>6 DEF LiveInv

LEMMA SnapshotsTrue ==
    ASSUME NEW x \in Snapshots
    PROVE  x \in Snapshots \cup Answers /\ \A s : x # Answer(FALSE, s)
  BY DEF Snapshots, Answer

LEMMA TimersKeep == ASSUME LiveInv, WallTimer \/ FastTimer PROVE LiveInv'
<1>1. LiveTypeOK /\ worker \in Workers
  BY DEF LiveInv, LiveTypeOK
<1>2. PollOnce(worker) /\ UNCHANGED <<pool, open, gui, shots, session, toWorker>>
  BY DEF WallTimer, FastTimer, PollOnce
<1>3. /\ worker' \in Workers /\ worker'.live = worker.live /\ worker'.mode = worker.mode
      /\ events' \in 0..MaxEvents
      /\ \E x \in Snapshots : toGui' = Append(toGui, x)
  BY <1>1, <1>2, PollTypes
<1>4. View' = View
  BY <1>3 DEF View
<1> QED BY <1>2, <1>3, <1>4, SnapshotsTrue, WorkerSteps

LEMMA HandleSignalKeeps == ASSUME LiveInv, HandleSignal PROVE LiveInv'
<1> DEFINE sig == Head(toWorker)
<1>1. LiveTypeOK /\ worker \in Workers /\ events \in 0..MaxEvents
  BY DEF LiveInv, LiveTypeOK
<1>2. toWorker # <<>> /\ toWorker' = Tail(toWorker) /\ UNCHANGED <<pool, open, gui, shots, session>>
  BY DEF HandleSignal
<1>3. sig \in Orders
  BY <1>1, <1>2 DEF LiveTypeOK
<1>4. CASE sig.signal = "focus" /\ SetFocus(sig.seat)
  <2> DEFINE w == [worker EXCEPT !.focus = sig.seat]
  <2>1. Handled(View, sig) = View
    BY <1>4 DEF Handled
  <2>2. w \in Workers /\ w.live = worker.live /\ w.mode = worker.mode
    BY <1>1, <1>3 DEF Workers, Orders
  <2>3. CASE worker' = w /\ UNCHANGED <<toGui, events>>
    <3>1. worker' \in Workers /\ events' \in 0..MaxEvents /\ View' = View
      BY <1>1, <2>2, <2>3 DEF View
    <3> QED BY <1>2, <2>1, <2>3, <3>1, WorkerSteps
  <2>4. CASE PollOnce(w)
    <3> HIDE DEF w
    <3>1. /\ worker' \in Workers /\ worker'.live = w.live /\ worker'.mode = w.mode
          /\ events' \in 0..MaxEvents
          /\ \E x \in Snapshots : toGui' = Append(toGui, x)
      BY <1>1, <2>2, <2>4, PollTypes
    <3>2. View' = View
      BY <2>2, <3>1 DEF View
    <3> QED BY <1>2, <2>1, <3>1, <3>2, SnapshotsTrue, WorkerSteps
  <2> QED BY <1>4, <2>3, <2>4 DEF SetFocus
<1>5. CASE sig.signal = "live" /\ SetLiveSeat(sig.seat)
  <2>1. worker' = [worker EXCEPT !.live = sig.seat] /\ UNCHANGED <<toGui, events>>
    BY <1>5 DEF SetLiveSeat
  <2>2. worker' \in Workers /\ events' \in 0..MaxEvents
    BY <1>1, <1>3, <2>1 DEF Workers, Orders
  <2>3. View' = Handled(View, sig)
    <3>1. worker'.live = sig.seat /\ worker'.mode = worker.mode
      BY <1>1, <2>1 DEF Workers
    <3> QED BY <1>5, <3>1 DEF View, Handled
  <2> QED BY <1>2, <2>1, <2>2, <2>3, WorkerSteps
<1>6. CASE sig.signal = "config" /\ SetCaptureConfig(sig.mode)
  <2>1. worker' = InMode(worker, sig.mode) /\ UNCHANGED <<toGui, events>>
    BY <1>6 DEF SetCaptureConfig
  <2>2. sig.mode \in Modes
    BY <1>3, <1>6 DEF Orders
  <2>3. worker' \in Workers /\ events' \in 0..MaxEvents
    BY <1>1, <2>1, <2>2 DEF Workers, InMode
  <2>4. View' = Handled(View, sig)
    <3> DEFINE m == sig.mode
    <3>1. worker'.live = (IF m # worker.mode /\ m # "vnc" THEN NoDesktop ELSE worker.live)
          /\ worker'.mode = m
      BY <1>1, <2>1 DEF Workers, InMode
    <3> QED BY <1>6, <3>1 DEF View, Handled, InMode
  <2> QED BY <1>2, <2>1, <2>3, <2>4, WorkerSteps
<1>7. CASE sig.signal = "endpoint" /\ ResolveLiveEndpoint(sig.seat)
  <2> DEFINE s == sig.seat
  <2>1. s \in Desktops /\ Handled(View, sig) = View
    BY <1>3, <1>7 DEF Orders, Handled
  <2>2. CASE toGui' = Append(toGui, Answer(TRUE, s)) /\ UNCHANGED <<worker, events>>
    <3>1. Answer(TRUE, s) \in Snapshots \cup Answers /\ \A d : Answer(TRUE, s) # Answer(FALSE, d)
      BY <2>1 DEF Answer, Answers
    <3>2. View' = View /\ worker' \in Workers /\ events' \in 0..MaxEvents
      BY <1>1, <2>2 DEF View
    <3> HIDE DEF s, Answer
    <3> QED BY <1>2, <2>1, <2>2, <3>1, <3>2, WorkerSteps
  <2>3. CASE /\ LateAnswerFails \/ ~Streams(s)
             /\ Failure(s)
             /\ toGui' = Append(toGui, Answer(FALSE, s))
             /\ UNCHANGED worker
    <3>1. Answer(FALSE, s) \in Snapshots \cup Answers /\ \A d : Answer(FALSE, s) = Answer(FALSE, d) => d = s
      BY <2>1 DEF Answer, Answers
    <3>2. View' = View /\ worker' \in Workers /\ events' \in 0..MaxEvents
      BY <1>1, <2>3, EventType DEF View, Failure
    <3>3. ~LateAnswerFails => \A d \in Desktops : Answer(FALSE, s) = Answer(FALSE, d) => ~Streams(d)
      BY <2>3, <3>1
    <3> HIDE DEF s, Answer
    <3> QED BY <1>2, <2>1, <2>3, <3>1, <3>2, <3>3, WorkerSteps
  <2> QED BY <1>7, <2>2, <2>3 DEF ResolveLiveEndpoint
<1> QED BY <1>4, <1>5, <1>6, <1>7 DEF HandleSignal

LEMMA StreamsKeep == ASSUME LiveInv, NEW s \in Desktops, StreamStep(s) PROVE LiveInv'
<1>1. LiveTypeOK /\ UNCHANGED <<pool, open, gui, shots, worker, toWorker, toGui>>
  BY DEF LiveInv, StreamStep, FirstFrame, StreamFails
<1>2. events' \in 0..MaxEvents
  BY <1>1, EventType DEF StreamStep, FirstFrame, StreamFails, Failure, LiveTypeOK
<1>3. /\ session' \in [Desktops -> {"none", "failed"} \cup Alive] /\ NoStreamStarts
      /\ \A d \in Desktops : session[d] # "none" => session'[d] # "none"
  BY <1>1 DEF StreamStep, FirstFrame, StreamFails, LiveTypeOK, NoStreamStarts, Alive
<1>4. LiveTypeOK'
  BY <1>1, <1>2, <1>3 DEF LiveTypeOK
<1>5. ViewsAgree'
  <2>1. ViewsAgree /\ View' = View /\ gui \in Guis
    BY <1>1 DEF LiveInv, View, LiveTypeOK
  <2> HIDE DEF View
  <2> QED BY <1>1, <1>3, <2>1 DEF ViewsAgree, Guis
<1>6. ASSUME ~LateAnswerFails PROVE OnlyTargetRuns' /\ FailuresAreTrue'
  <2>1. OnlyTargetRuns /\ FailuresAreTrue /\ toGui \in Seq(Snapshots \cup Answers)
    BY <1>1, <1>6 DEF LiveInv, LiveTypeOK
  <2> QED BY <1>1, <1>3, <2>1, FailuresStay DEF OnlyTargetRuns, NoStreamStarts
<1> QED BY <1>4, <1>5, <1>6 DEF LiveInv

LEMMA PoolChangeKeeps == ASSUME LiveInv, NEW k \in Slots, PoolChange(k) PROVE LiveInv'
<1>1. LiveTypeOK /\ Event /\ UNCHANGED <<open, gui, shots, session, worker, toWorker, toGui>>
  BY DEF LiveInv, PoolChange
<1>2. pool' \in Walls /\ events' \in 0..MaxEvents
  BY <1>1, EventType DEF PoolChange, LiveTypeOK, Walls
<1>3. LiveTypeOK'
  BY <1>1, <1>2 DEF LiveTypeOK
<1>4. ViewsAgree'
  BY <1>1 DEF LiveInv, ViewsAgree, View
<1> QED BY <1>1, <1>3, <1>4 DEF LiveInv, OnlyTargetRuns, FailuresAreTrue

LEMMA LiveNextInv == ASSUME LiveInv, [LiveNext]_liveVars PROVE LiveInv'
<1>1. CASE \E k \in Slots : ToggleFocus(k) \/ PoolChange(k)
  BY <1>1, ToggleFocusKeeps, PoolChangeKeeps
<1>2. CASE \E m \in Modes : SetLiveMode(m)
  BY <1>2, SetLiveModeKeeps
<1>3. CASE ApplyPayload \/ OnLiveEndpoint \/ PollLive \/ Shutdown
  BY <1>3, ApplyPayloadKeeps, OnLiveEndpointKeeps, PollLiveKeeps, ShutdownKeeps
<1>4. CASE WallTimer \/ FastTimer \/ HandleSignal
  BY <1>4, TimersKeep, HandleSignalKeeps
<1>5. CASE \E s \in Desktops : FirstFrame(s) \/ StreamFails(s)
  BY <1>5, StreamsKeep DEF StreamStep
<1>6. CASE UNCHANGED liveVars
  <2>1. UNCHANGED <<pool, open, gui, shots, session, worker, toWorker, toGui, events>>
    BY <1>6 DEF liveVars
  <2>2. LiveTypeOK' /\ ViewsAgree'
    BY <2>1 DEF LiveInv, LiveTypeOK, ViewsAgree, View
  <2> QED BY <2>1, <2>2 DEF LiveInv, OnlyTargetRuns, FailuresAreTrue
<1> QED BY <1>1, <1>2, <1>3, <1>4, <1>5, <1>6 DEF LiveNext

LEMMA LiveInvHolds == LiveSpec => []LiveInv
<1>1. LiveInit => LiveInv
  BY LiveInitially
<1>2. LiveInv /\ [LiveNext]_liveVars => LiveInv'
  BY LiveNextInv
<1> QED BY <1>1, <1>2, PTL DEF LiveSpec

\* The queues carry the signals the handlers expect: an endpoint is asked for a seat
\* only, a mode is one of the two.
THEOREM LiveTypes == LiveSpec => []LiveTypeOK
<1>1. LiveInv => LiveTypeOK
  BY DEF LiveInv
<1> QED BY <1>1, LiveInvHolds, PTL

LEMMA StillsAgree == ASSUME LiveInv PROVE SuppressedIsShown
<1> DEFINE e == [live |-> gui.live, mode |-> gui.mode]
<1>1. toWorker \in Seq(Orders) /\ Leads(toWorker, View, e) /\ e.live = gui.live
  BY DEF LiveInv, LiveTypeOK, ViewsAgree
<1> HIDE DEF e
<1>2. Suppressed = gui.live
  BY <1>1, SuppressedIs
<1> QED BY <1>2 DEF LiveInv, ViewsAgree, SuppressedIsShown

\* The GUI thread and the worker agree about the stream whatever is queued between
\* them: a seat goes without stills only while its stream is the one shown.
THEOREM StillsFollowStream == LiveSpec => []SuppressedIsShown
<1>1. LiveInv => SuppressedIsShown
  BY StillsAgree
<1> QED BY <1>1, LiveInvHolds, PTL

\* With endpoints that go on resolving while their seat streams, no stream outlives
\* the wish for it, either.
THEOREM StreamFollowsTarget ==
    ASSUME ~LateAnswerFails
    PROVE  LiveSpec => []OnlyTargetStreams
<1>1. LiveInv /\ SuppressedIsShown => OnlyTargetStreams
  BY DEF LiveInv, OnlyTargetRuns, OnlyTargetStreams
<1> QED BY <1>1, LiveInvHolds, StillsFollowStream, PTL

-----------------------------------------------------------------------------
(* A client process (MCClients): a step of one component leaves the        *)
(* variables of the others alone, so the invariants hold side by side.     *)

\* A step of the process is a step of each component, or leaves it alone.
LEMMA ClientsParts ==
    ASSUME [ClientsNext]_<<vars, rpcVars, liveVars, part>>
    PROVE  [Next]_vars /\ [RpcNext]_rpcVars /\ [LiveNext]_liveVars
BY DEF ClientsNext, HeartbeatsRun, RpcRuns, LiveRuns

LEMMA ClientsInitInv ==
    ASSUME HeartbeatsAssumption, ClientsInit
    PROVE  KeptInv /\ CallsInv /\ LiveInv
BY RpcAssumption, KeptInit, CallsInit, LiveInitially DEF ClientsInit

LEMMA ClientsNextInv ==
    ASSUME HeartbeatsAssumption, KeptInv, CallsInv, LiveInv,
           [ClientsNext]_<<vars, rpcVars, liveVars, part>>
    PROVE  KeptInv' /\ CallsInv' /\ LiveInv'
BY RpcAssumption, ClientsParts, KeptNext, CallsNext, LiveNextInv

(* Every variable of the process keeps its type, whichever component the   *)
(* behaviour is about: the leases and the threads that beat, the calls and *)
(* their connections, the stream and the signals queued about it.          *)
THEOREM ClientsTypes == ASSUME HeartbeatsAssumption PROVE ClientsSpec => []ClientsTypeOK
<1> DEFINE I == KeptInv /\ CallsInv /\ LiveInv
<1>1. ClientsInit => I
  BY ClientsInitInv
<1>2. I /\ [ClientsNext]_<<vars, rpcVars, liveVars, part>> => I'
  BY ClientsNextInv
<1>3. I => ClientsTypeOK
  BY DEF KeptInv, CallsInv, LiveInv, ClientsTypeOK
<1> QED BY <1>1, <1>2, <1>3, PTL DEF ClientsSpec

(* What each component promises, it promises in the process too: no lease  *)
(* lapses that the server keeps renewing (HeartbeatMonitor), a caller is   *)
(* told what became of its call (DaemonClient.call), and no stream outlives*)
(* the wish for it (GuiBackend).                                           *)
THEOREM ClientsAreSafe ==
    ASSUME HeartbeatsAssumption, EnoughBeats, ~LateAnswerFails
    PROVE  ClientsSpec => [](KeptAlive /\ CallsAreExact /\ OnlyTargetStreams)
<1> DEFINE I == KeptInv /\ CallsInv /\ LiveInv
<1>1. ClientsInit => I
  BY ClientsInitInv
<1>2. I /\ [ClientsNext]_<<vars, rpcVars, liveVars, part>> => I'
  BY ClientsNextInv
<1>3. LiveInv => OnlyTargetStreams
  BY StillsAgree DEF LiveInv, OnlyTargetRuns, OnlyTargetStreams
<1>4. I => KeptAlive /\ CallsAreExact /\ OnlyTargetStreams
  BY <1>3, KeptLives DEF CallsInv
<1> QED BY <1>1, <1>2, <1>4, PTL DEF ClientsSpec

(* Calls are those of one server that executes each at most once, and a    *)
(* lease that goes on stays tracked, beside whatever else the process does.*)
THEOREM ClientsKeepPromises ==
    ASSUME OwnSeatsOnly = TRUE
    PROVE  ClientsSpec => CallPromise /\ TrackedStays
<1> DEFINE I == Inv /\ CallsInv
<1>1. ClientsInit => I /\ Remote!Init
  BY RpcAssumption, InitInv, CallsInit, RemoteStarts DEF ClientsInit
<1>2. I /\ [ClientsNext]_<<vars, rpcVars, liveVars, part>> => I'
  BY RpcAssumption, ClientsParts, NextInv, CallsNext
<1>3. I /\ [ClientsNext]_<<vars, rpcVars, liveVars, part>> => [Remote!Next]_Remote!vars
  <2> SUFFICES ASSUME CallsInv, [RpcNext]_rpcVars PROVE [Remote!Next]_Remote!vars
    BY ClientsParts
  <2> QED BY CallStep DEF Remote!vars
<1>4. I /\ [ClientsNext]_<<vars, rpcVars, liveVars, part>> => [Stays]_vars
  BY ClientsParts, NextInv
<1>5. TrackedStays <=> [][Stays]_vars
  BY DEF TrackedStays, Stays
<1> QED BY <1>1, <1>2, <1>3, <1>4, <1>5, PTL DEF ClientsSpec, CallPromise, Remote!Spec
=============================================================================
