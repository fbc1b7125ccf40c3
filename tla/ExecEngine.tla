------------------------------ MODULE ExecEngine ------------------------------
(***************************************************************************)
(* omavroom/manager/exec_engine.py over the tracker of manager/execs.py:   *)
(* the threads that start, run, kill and finish execs, and the manager's   *)
(* release and reset, which cancel a seat's execs and then queue a job.    *)
(*                                                                         *)
(* A call is one exec_start: its connection thread up to the launch, then  *)
(* its worker thread.  A client is a connection thread in exec_kill,       *)
(* exec_finish, release_seat or reset_seat.  _state_lock is the variable   *)
(* holder; the tracker's lock and _lock protect single steps.  A critical  *)
(* section of one lock is one step, so kills and finishes, which do not    *)
(* take _state_lock, fall between the steps of a start that holds it.      *)
(*                                                                         *)
(* Output, timeouts and exit codes are left out: a command may return at   *)
(* any time.  A refused or failed start leaves nothing behind.             *)
(***************************************************************************)
EXTENDS Integers, FiniteSets, Sequences

CONSTANTS
    Seats,
    Calls,        \* bound: exec_start calls ever made
    Ids,          \* the exec ids clients choose
    IdOf,         \* the one each call comes with
    Clients,      \* bound: kills, finishes, releases and resets ever asked for
    Nobody,       \* neither a call nor a client
    MaxPerSeat,   \* exec.max_concurrent_per_seat
    MaxTotal,     \* exec.max_concurrent_total
    MaxHistory,   \* ExecTracker.max_history_per_seat
    Jobs          \* the ones this instance has

\* A release (or force_discard), and a reset.
AllJobs == {"release", "reset"}

ASSUME EngineAssumption ==
    /\ Seats # {}
    /\ IsFiniteSet(Calls)
    /\ IdOf \in [Calls -> Ids]
    /\ Calls \cap Clients = {}
    /\ Nobody \notin Calls \cup Clients
    /\ MaxPerSeat \in Nat \ {0}
    /\ MaxTotal \in Nat \ {0}
    /\ MaxHistory \in Nat \ {0}
    /\ Jobs \subseteq AllJobs

VARIABLES
    seat,      \* the seat rows, as far as execs see them
    call,      \* what each call asked for
    pc,        \* where each call is
    record,    \* the tracker: state of the exec of each call
    history,   \* the tracker: per seat, its records
    born,      \* the tracker: insertion order, the number of earlier records
    workers,   \* _workers: (seat, exec id) -> the call whose worker is registered
    cancel,    \* calls whose cancel event is set
    holder,    \* who holds _state_lock
    client,    \* what each client is doing
    down,      \* _shutdown
    told,      \* calls an exec_kill of which returned
    rebuilt    \* seats a reset made ready again

tracker == <<record, history, born>>
vars == <<seat, call, pc, record, history, born, workers, cancel, holder, client, down, told, rebuilt>>

Usable == {"ready", "busy"}

\* "off" is off, held or error: no exec can start.
SeatStates == Usable \cup {"teardown", "off"}

RecordStates == {"none", "running", "finished", "killed"}

Places == {"idle", "register", "enlist", "count", "begin", "launch",
           "unlaunched", "spawned", "running", "returned", "stopped", "pop",
           "leave", "finish", "over"}

Ask == [seat : Seats, command : BOOLEAN]

Client == [step    : {"idle", "mark", "signal", "leave", "finish", "queued", "job", "over"},
           seat    : Seats,
           todo    : Seq(Ids),                \* ids to be marked, the first is worked on
           verdict : {"finished", "killed"},
           job     : AllJobs \cup {"none"}]   \* queued once all are marked

NoClient == [step |-> "idle", seat |-> CHOOSE s \in Seats : TRUE, todo |-> <<>>,
             verdict |-> "killed", job |-> "none"]

TypeOK ==
    /\ seat \in [Seats -> SeatStates]
    /\ call \in [Calls -> Ask]
    /\ pc \in [Calls -> Places]
    /\ record \in [Calls -> RecordStates]
    /\ history \in [Seats -> SUBSET Calls]
    /\ born \in [Calls -> Nat]
    /\ workers \in [Seats \X Ids -> Calls \cup {Nobody}]
    /\ cancel \in SUBSET Calls
    /\ holder \in Calls \cup Clients \cup {Nobody}
    /\ client \in [Clients -> Client]
    /\ down \in BOOLEAN
    /\ told \in SUBSET Calls
    /\ rebuilt \in SUBSET Seats

Init ==
    /\ seat = [s \in Seats |-> "ready"]
    /\ call = [c \in Calls |-> [seat |-> CHOOSE s \in Seats : TRUE, command |-> FALSE]]
    /\ pc = [c \in Calls |-> "idle"]
    /\ record = [c \in Calls |-> "none"]
    /\ history = [s \in Seats |-> {}]
    /\ born = [c \in Calls |-> 0]
    /\ workers = [k \in Seats \X Ids |-> Nobody]
    /\ cancel = {}
    /\ holder = Nobody
    /\ client = [k \in Clients |-> NoClient]
    /\ down = FALSE
    /\ told = {}
    /\ rebuilt = {}

-----------------------------------------------------------------------------
(* The tracker. *)

\* active_count
RunningOn(s) == {c \in history[s] : record[c] = "running"}

Active(s) == Cardinality(RunningOn(s))

Running == UNION {RunningOn(s) : s \in Seats}

\* The record kept under an id, as a set.
Entry(s, id) == {c \in history[s] : IdOf[c] = id}

Room(s) == Active(s) < MaxPerSeat /\ Cardinality(Running) < MaxTotal

\* _enforce_history_unlocked: while there are too many records with the new one,
\* the oldest that is not running goes.
Trimmed(s) ==
    LET over == Cardinality(history[s]) + 1 - MaxHistory
        older(c) == {d \in history[s] \ RunningOn(s) : born[d] <= born[c]}
    IN {c \in history[s] : c \in RunningOn(s) \/ Cardinality(older(c)) > over}

\* _terminate: the first verdict stands; KeyError when there is no record.
Terminated(s, id, verdict) ==
    [c \in Calls |-> IF c \in Entry(s, id) /\ record[c] = "running" THEN verdict ELSE record[c]]

-----------------------------------------------------------------------------
(* exec_start, on the connection thread. *)

Goto(c, place) == pc' = [pc EXCEPT ![c] = place]

SeatOf(c) == call[c].seat

\* Mutant: one worker entry per seat.
KeyOfSeat(c) == <<call[c].seat, CHOOSE id \in Ids : TRUE>>

Key(c) == <<call[c].seat, IdOf[c]>>

\* The seat is read, and its VM probed, before anything is registered.
Start(c, s, command) ==
    /\ pc[c] = "idle"
    /\ seat[s] \in Usable
    /\ call' = [call EXCEPT ![c] = [seat |-> s, command |-> command]]
    /\ Goto(c, "register")
    /\ UNCHANGED <<seat, tracker, workers, cancel, holder, client, down, told, rebuilt>>

\* tracker.start under _state_lock, or its refusal: a duplicate id or a cap.
Register(c) ==
    /\ pc[c] = "register"
    /\ holder = Nobody
    /\ LET s == SeatOf(c) IN
       IF Room(s) /\ Entry(s, IdOf[c]) = {}
       THEN /\ record' = [record EXCEPT ![c] = "running"]
            /\ history' = [history EXCEPT ![s] = Trimmed(s) \cup {c}]
            /\ born' = [born EXCEPT ![c] = Cardinality({d \in Calls : record[d] # "none"})]
            /\ holder' = c
            /\ Goto(c, IF call[c].command THEN "enlist" ELSE "count")
       ELSE /\ Goto(c, "over")
            /\ UNCHANGED <<tracker, holder>>
    /\ UNCHANGED <<seat, call, workers, cancel, client, down, told, rebuilt>>

\* The worker entry, with its cancel event, before the slow hook.
Enlist(c) ==
    /\ pc[c] = "enlist"
    /\ workers' = [workers EXCEPT ![Key(c)] = c]
    /\ Goto(c, "count")
    /\ UNCHANGED <<seat, call, tracker, cancel, holder, client, down, told, rebuilt>>

\* The start is over but for the launch of its command.
Proceed(c) == Goto(c, IF call[c].command THEN "launch" ELSE "over") /\ holder' = Nobody

\* The first exec of a seat ... (start and the hook both look; the count cannot
\* rise in between, so one look stands for the two)
Count(c) ==
    /\ pc[c] = "count"
    /\ IF Active(SeatOf(c)) = 1 THEN Goto(c, "begin") /\ UNCHANGED holder ELSE Proceed(c)
    /\ UNCHANGED <<seat, call, tracker, workers, cancel, client, down, told, rebuilt>>

\* ... makes a ready seat busy.
BeginWork(c) ==
    /\ pc[c] = "begin"
    /\ seat' = [seat EXCEPT ![SeatOf(c)] = IF @ = "ready" THEN "busy" ELSE @]
    /\ Proceed(c)
    /\ UNCHANGED <<call, tracker, workers, cancel, client, down, told, rebuilt>>

\* The record the tracker keeps under the id of c.
StillRunning(c) == \E d \in Entry(SeatOf(c), IdOf[c]) : record[d] = "running"

\* Mutant: a kill that found no worker entry is missed.
LaunchUntracked(c) ==
    /\ pc[c] = "launch"
    /\ IF c \in cancel \/ down
       THEN workers' = [workers EXCEPT ![Key(c)] = Nobody] /\ Goto(c, "unlaunched")
       ELSE Goto(c, "spawned") /\ UNCHANGED workers
    /\ UNCHANGED <<seat, call, tracker, cancel, holder, client, down, told, rebuilt>>

\* Mutant: the worker entry goes whether or not the thread starts.
LaunchForgotten(c) ==
    /\ pc[c] = "launch"
    /\ workers' = [workers EXCEPT ![Key(c)] = Nobody]
    /\ Goto(c, IF c \in cancel \/ down \/ ~StillRunning(c) THEN "unlaunched" ELSE "spawned")
    /\ UNCHANGED <<seat, call, tracker, cancel, holder, client, down, told, rebuilt>>

\* _launch: a kill that came first wins.
Launch(c) ==
    /\ pc[c] = "launch"
    /\ IF c \in cancel \/ down \/ ~StillRunning(c)
       THEN workers' = [workers EXCEPT ![Key(c)] = Nobody] /\ Goto(c, "unlaunched")
       ELSE Goto(c, "spawned") /\ UNCHANGED workers
    /\ UNCHANGED <<seat, call, tracker, cancel, holder, client, down, told, rebuilt>>

-----------------------------------------------------------------------------
(* The worker thread. *)

\* The second check, then provisioner.run.
Work(c) ==
    /\ pc[c] = "spawned"
    /\ Goto(c, IF c \in cancel \/ down THEN "stopped" ELSE "running")
    /\ UNCHANGED <<seat, call, tracker, workers, cancel, holder, client, down, told, rebuilt>>

\* provisioner.run returns: the command ended, ran out of time, was cancelled,
\* or lost its VM.
Return(c) ==
    /\ pc[c] = "running"
    /\ Goto(c, "returned")
    /\ UNCHANGED <<seat, call, tracker, workers, cancel, holder, client, down, told, rebuilt>>

\* The verdict goes to whatever record the id has now.
Conclude(c) ==
    \E here \in {"returned", "stopped", "unlaunched"} :
        /\ pc[c] = here
        /\ record' = Terminated(SeatOf(c), IdOf[c],
                        IF here = "returned" /\ c \notin cancel THEN "finished" ELSE "killed")
        /\ Goto(c, IF here = "unlaunched" THEN "leave" ELSE "pop")
        /\ UNCHANGED <<seat, call, history, born, workers, cancel, holder, client, down, told, rebuilt>>

Pop(c) ==
    /\ pc[c] = "pop"
    /\ workers' = [workers EXCEPT ![Key(c)] = Nobody]
    /\ Goto(c, "leave")
    /\ UNCHANGED <<seat, call, tracker, cancel, holder, client, down, told, rebuilt>>

\* _maybe_idle: nothing runs any more ...
Leave(c) ==
    /\ pc[c] = "leave"
    /\ holder = Nobody
    /\ IF Active(SeatOf(c)) = 0
       THEN Goto(c, "finish") /\ holder' = c
       ELSE Goto(c, "over") /\ UNCHANGED holder
    /\ UNCHANGED <<seat, call, tracker, workers, cancel, client, down, told, rebuilt>>

\* finish_work
Idled(s) == seat' = [seat EXCEPT ![s] = IF @ = "busy" THEN "ready" ELSE @]

\* ... so the busy seat is ready.
FinishWork(c) ==
    /\ pc[c] = "finish"
    /\ Idled(SeatOf(c))
    /\ holder' = Nobody
    /\ Goto(c, "over")
    /\ UNCHANGED <<call, tracker, workers, cancel, client, down, told, rebuilt>>

-----------------------------------------------------------------------------
(* exec_kill, exec_finish, release_seat, reset_seat. *)

Turn(k, step) == client' = [client EXCEPT ![k].step = step]

Drop(k) == client' = [client EXCEPT ![k] = [NoClient EXCEPT !.step = "over"]]

\* The id is dealt with.
NextId(k) == client' = [client EXCEPT ![k].step = "mark", ![k].todo = Tail(@)]

Request(k, s, ids, verdict, job) ==
    /\ client[k].step = "idle"
    /\ client' = [client EXCEPT ![k] = [step |-> "mark", seat |-> s, todo |-> ids,
                                        verdict |-> verdict, job |-> job]]
    /\ UNCHANGED <<seat, call, pc, tracker, workers, cancel, holder, down, told, rebuilt>>

Kill(k, s, id) == Request(k, s, <<id>>, "killed", "none")

Finish(k, s, id) == Request(k, s, <<id>>, "finished", "none")

\* The records that run, oldest first, as the one member of a set.
RunningInOrder(s) ==
    {queue \in [1..Active(s) -> RunningOn(s)] :
        \A i, j \in 1..Active(s) : i < j => born[queue[i]] < born[queue[j]]}

\* Mutant: the records, not their ids.
RunningRecords(s) == RunningInOrder(s)

\* running_exec_ids
RunningIds(s) == {[i \in 1..Active(s) |-> IdOf[queue[i]]] : queue \in RunningInOrder(s)}

\* release_seat, force_discard and reset_seat: cancel_seat reads the running ids
\* first, then kills them one by one.
Teardown(k, s, job) ==
    /\ job \in Jobs
    /\ \E ids \in RunningIds(s) : Request(k, s, ids, "killed", job)

\* The tracker's kill or finish of the first id; an unknown one is an error.
Mark(k) ==
    LET s == client[k].seat
        id == Head(client[k].todo)
    IN
    /\ client[k].step = "mark"
    /\ client[k].todo # <<>>
    /\ record' = Terminated(s, id, client[k].verdict)
    /\ IF Entry(s, id) = {} THEN NextId(k)
       ELSE Turn(k, IF client[k].verdict = "killed" THEN "signal" ELSE "leave")
    /\ UNCHANGED <<seat, call, pc, history, born, workers, cancel, holder, down, told, rebuilt>>

\* _signal_worker: set the cancel event of the worker registered under the id.
Signal(k) ==
    LET s == client[k].seat
        id == Head(client[k].todo)
    IN
    /\ client[k].step = "signal"
    /\ cancel' = cancel \cup ({workers[<<s, id>>]} \cap Calls)
    /\ told' = told \cup Entry(s, id)
    /\ Turn(k, "leave")
    /\ UNCHANGED <<seat, call, pc, tracker, workers, holder, down, rebuilt>>

\* Mutant: the check and the hook are not under _state_lock.
ClientLeaveUnlocked(k) ==
    /\ client[k].step = "leave"
    /\ IF Active(client[k].seat) = 0 THEN Turn(k, "finish") ELSE NextId(k)
    /\ UNCHANGED <<seat, call, pc, tracker, workers, cancel, holder, down, told, rebuilt>>

ClientLeave(k) ==
    /\ client[k].step = "leave"
    /\ holder = Nobody
    /\ IF Active(client[k].seat) = 0
       THEN Turn(k, "finish") /\ holder' = k
       ELSE NextId(k) /\ UNCHANGED holder
    /\ UNCHANGED <<seat, call, pc, tracker, workers, cancel, down, told, rebuilt>>

ClientFinishWork(k) ==
    /\ client[k].step = "finish"
    /\ Idled(client[k].seat)
    /\ holder' = IF holder = k THEN Nobody ELSE holder
    /\ NextId(k)
    /\ UNCHANGED <<call, pc, tracker, workers, cancel, down, told, rebuilt>>

\* All ids are dealt with: the request returns, its job queued if it has one.
Reply(k) ==
    /\ client[k].step = "mark"
    /\ client[k].todo = <<>>
    /\ IF client[k].job = "none" THEN Drop(k) ELSE Turn(k, "queued")
    /\ UNCHANGED <<seat, call, pc, tracker, workers, cancel, holder, down, told, rebuilt>>

\* The manager's worker runs one job at a time.  It leaves a seat alone that is
\* off, not one that is held or in error.
JobBegins(k) ==
    LET s == client[k].seat IN
    /\ client[k].step = "queued"
    /\ \A j \in Clients : client[j].step # "job"
    /\ \/ Turn(k, "job") /\ seat' = [seat EXCEPT ![s] = "teardown"]
       \/ seat[s] = "off" /\ Drop(k) /\ UNCHANGED seat
    /\ UNCHANGED <<call, pc, tracker, workers, cancel, holder, down, told, rebuilt>>

\* A release ends off or held, a reset ready or in error.
JobEnds(k) ==
    LET s == client[k].seat IN
    /\ client[k].step = "job"
    /\ Drop(k)
    /\ \/ /\ seat' = [seat EXCEPT ![s] = "off"]
          /\ UNCHANGED rebuilt
       \/ /\ client[k].job = "reset"
          /\ seat' = [seat EXCEPT ![s] = "ready"]
          /\ rebuilt' = rebuilt \cup {s}
    /\ UNCHANGED <<call, pc, tracker, workers, cancel, holder, down, told>>

\* shutdown: no launch from now on, and every registered worker is cancelled.
Shutdown ==
    /\ ~down
    /\ down' = TRUE
    /\ cancel' = cancel \cup {c \in Calls : \E key \in DOMAIN workers : workers[key] = c}
    /\ UNCHANGED <<seat, call, pc, tracker, workers, holder, client, told, rebuilt>>

-----------------------------------------------------------------------------

\* What the threads of a call do by themselves.
CallStep(c) ==
    \/ Register(c) \/ Enlist(c) \/ Count(c)
    \/ BeginWork(c) \/ Launch(c) \/ Work(c) \/ Conclude(c) \/ Pop(c) \/ Leave(c) \/ FinishWork(c)

ClientStep(k) ==
    \/ Mark(k) \/ Signal(k) \/ ClientLeave(k) \/ ClientFinishWork(k) \/ Reply(k)
    \/ JobBegins(k) \/ JobEnds(k)

\* Every thread is through: only new calls could change anything.
Rest ==
    /\ \A c \in Calls : pc[c] \in {"idle", "over"}
    /\ \A k \in Clients : client[k].step \in {"idle", "over"}
    /\ UNCHANGED vars

Next ==
    \/ Rest
    \/ Shutdown
    \/ \E c \in Calls : CallStep(c) \/ Return(c)
    \/ \E c \in Calls, s \in Seats, command \in BOOLEAN : Start(c, s, command)
    \/ \E k \in Clients : ClientStep(k)
    \/ \E k \in Clients, s \in Seats, id \in Ids : Kill(k, s, id) \/ Finish(k, s, id)
    \/ \E k \in Clients, s \in Seats, job \in Jobs : Teardown(k, s, job)

Spec == Init /\ [][Next]_vars

-----------------------------------------------------------------------------
(* Properties. *)

\* A command whose kill has returned is stopped or will be: its worker is told,
\* whenever the kill came.
KillReachesWorker ==
    \A c \in told : pc[c] \in {"spawned", "running"} => c \in cancel

\* A command that was killed before it ran never runs.
NeverRunsAfterKill ==
    [][\A c \in told : pc[c] # "running" => pc'[c] # "running"]_vars

\* Nobody is about to change the busy flag of the seat.
Settled(s) ==
    /\ \A c \in Calls : SeatOf(c) = s =>
           pc[c] \in {"idle", "register", "launch", "spawned", "running", "over"}
    /\ \A k \in Clients : client[k].seat = s =>
           client[k].step \notin {"signal", "leave", "finish"}

\* A seat is busy exactly while execs run on it; only a reset, which cancels the
\* execs it sees, can leave one running on a ready seat.
BusyIffRunning ==
    \A s \in Seats : Settled(s) =>
        /\ seat[s] = "busy" => Active(s) > 0
        /\ seat[s] = "ready" /\ s \notin rebuilt => Active(s) = 0

\* A running command always has the thread that will end it, and, from its
\* launch on, the worker entry by which a kill finds it: no record is left running
\* for ever to count against the caps.
RunningIsServed ==
    \A c \in Running : call[c].command =>
        /\ pc[c] \notin {"pop", "leave", "finish", "over"}
        /\ pc[c] \notin {"enlist", "unlaunched"} => workers[Key(c)] = c

\* A release cancels the seat's running execs.
ReleaseCancels ==
    \A s \in Seats : seat[s] = "off" => \A c \in RunningOn(s) : call[c].command

=============================================================================
