------------------------------ MODULE ExecProofs ------------------------------
(***************************************************************************)
(* Execs, for any number of seats, calls, clients and any caps: a killed   *)
(* command stops or never runs, a running one keeps its worker, and a seat *)
(* is busy exactly while execs run on it.  All but the last need exec ids  *)
(* that are never used twice, as the MCP server draws them (_new_exec_id). *)
(***************************************************************************)
EXTENDS ExecEngine, FiniteSetTheorems, SequenceTheorems, TLAPS

FreshIds == \A c, d \in Calls : IdOf[c] = IdOf[d] => c = d

Ended == {"finished", "killed"}

\* What runs on a seat, by the records of its calls.
RunsOn(c, s) == record[c] = "running" /\ call[c].seat = s

\* Where a call holds the lock, and where its worker entry is registered.
Starting == {"enlist", "count", "begin"}
Enlisted == {"count", "begin", "launch", "spawned", "running", "returned", "stopped", "pop"}

\* A record is made when its call registers, and has ended when a command's worker is done.
Stages ==
    \A c \in Calls :
        /\ pc[c] \in {"idle", "register"} => record[c] = "none"
        /\ record[c] = "none" => pc[c] \in {"idle", "register", "over"}
        /\ ~call[c].command => pc[c] \in {"idle", "register", "count", "begin", "over"}
        /\ call[c].command /\ record[c] = "running" => pc[c] \notin {"pop", "leave", "finish", "over"}

\* The history of a seat is about its own calls, and keeps those that run.
Kept ==
    /\ \A s \in Seats : \A c \in history[s] : call[c].seat = s /\ record[c] # "none"
    /\ \A c \in Calls : record[c] = "running" => c \in history[call[c].seat]

\* _state_lock is held by the thread that is between its count and its hook.
Locked ==
    /\ \A c \in Calls : pc[c] \in Starting \cup {"finish"} <=> holder = c
    /\ \A k \in Clients : client[k].step = "finish" <=> holder = k

\* A client works on the first id it has left.
HasId == \A k \in Clients : client[k].step \in {"signal", "leave", "finish"} => client[k].todo # <<>>

\* A worker entry stays where it is until its own worker takes it out.
Registered == \A c \in Calls : call[c].command /\ pc[c] \in Enlisted => workers[Key(c)] = c

\* Who signals has marked; who was told has ended, and its worker knows.
Killed ==
    /\ \A k \in Clients : client[k].step = "signal" =>
           \E c \in Calls : IdOf[c] = Head(client[k].todo) /\ record[c] \in Ended
    /\ \A c \in told : record[c] \in Ended /\ (pc[c] \in {"spawned", "running"} => c \in cancel)

\* Somebody is about to look whether the seat is idle.
CallLooks(s) == \E c \in Calls : call[c].seat = s /\ pc[c] \in {"pop", "leave"}
CallIdles(s) == \E c \in Calls : call[c].seat = s /\ pc[c] = "finish"
ClientLeaves(s) == \E k \in Clients : client[k].seat = s /\ client[k].step \in {"signal", "leave"}
ClientIdles(s) == \E k \in Clients : client[k].seat = s /\ client[k].step = "finish"

\* A busy seat has a running exec or somebody who will look.
BusyHasReason ==
    \A s \in Seats : seat[s] = "busy" =>
        \/ \E c \in Calls : RunsOn(c, s)
        \/ CallLooks(s) \/ CallIdles(s) \/ ClientLeaves(s) \/ ClientIdles(s)

\* An exec that ends while it is started leaves a thread behind that will look.
EndIsSeen ==
    \A c \in Calls : pc[c] \in Starting /\ record[c] # "running" =>
        CallLooks(call[c].seat) \/ ClientLeaves(call[c].seat)

\* A ready seat runs nothing but what is being started.
ReadyIsIdle ==
    \A c \in Calls : /\ record[c] = "running"
                     /\ seat[call[c].seat] = "ready"
                     /\ call[c].seat \notin rebuilt
                     => pc[c] \in Starting

\* Nothing runs on a seat whose busy flag is about to be cleared.
IdleIsIdle ==
    /\ \A c \in Calls : pc[c] = "finish" => \A d \in Calls : ~RunsOn(d, call[c].seat)
    /\ \A k \in Clients : client[k].step = "finish" => \A d \in Calls : ~RunsOn(d, client[k].seat)

FlagFollows == BusyHasReason /\ EndIsSeen /\ ReadyIsIdle /\ IdleIsIdle

Inv == TypeOK /\ Stages /\ Kept /\ Locked /\ HasId

KillInv == Registered /\ Killed

-----------------------------------------------------------------------------
(* The operators. *)

\* The set of what runs, and what the records say.
LEMMA RunningOnSeat ==
    ASSUME TypeOK, Kept, NEW s \in Seats
    PROVE  /\ RunningOn(s) = {c \in Calls : RunsOn(c, s)}
           /\ IsFiniteSet(RunningOn(s))
<1>1. RunningOn(s) = {c \in Calls : RunsOn(c, s)}
  BY DEF RunningOn, RunsOn, TypeOK, Kept
<1>2. RunningOn(s) \subseteq Calls
  BY <1>1
<1> QED BY <1>1, <1>2, EngineAssumption, FS_Subset DEF EngineAssumption

\* active_count is zero when nothing runs, one when one exec does.
LEMMA ActiveCounts ==
    ASSUME TypeOK, Kept, NEW s \in Seats
    PROVE  /\ Active(s) \in Nat
           /\ Active(s) = 0 <=> \A c \in Calls : ~RunsOn(c, s)
           /\ \A c \in Calls : (\A d \in Calls : RunsOn(d, s) <=> d = c) => Active(s) = 1
<1>1. RunningOn(s) = {c \in Calls : RunsOn(c, s)} /\ IsFiniteSet(RunningOn(s))
  BY RunningOnSeat
<1>2. Active(s) \in Nat
  BY <1>1, FS_CardinalityType DEF Active
<1>3. Active(s) = 0 <=> RunningOn(s) = {}
  BY <1>1, FS_EmptySet DEF Active
<1>4. ASSUME NEW c \in Calls, \A d \in Calls : RunsOn(d, s) <=> d = c
      PROVE  Active(s) = 1
  <2>1. RunningOn(s) = {c}
    BY <1>1, <1>4
  <2> QED BY <2>1, FS_Singleton DEF Active
<1> QED BY <1>1, <1>2, <1>3, <1>4

\* What a verdict does to the records.
LEMMA TerminatedRecords ==
    ASSUME TypeOK, Kept, NEW s \in Seats, NEW id, NEW verdict \in Ended,
           record' = Terminated(s, id, verdict)
    PROVE  /\ record' \in [Calls -> RecordStates]
           /\ \A c \in Calls : record'[c] = IF RunsOn(c, s) /\ IdOf[c] = id THEN verdict ELSE record[c]
<1>1. \A c \in Calls : c \in Entry(s, id) /\ record[c] = "running" <=> RunsOn(c, s) /\ IdOf[c] = id
  BY DEF Entry, RunsOn, Kept, TypeOK
<1>2. record' = [c \in Calls |-> IF RunsOn(c, s) /\ IdOf[c] = id THEN verdict ELSE record[c]]
  BY <1>1 DEF Terminated
<1> QED BY <1>2 DEF TypeOK, RecordStates, Ended

\* The eviction keeps what runs.
LEMMA TrimmedKeeps ==
    ASSUME NEW s
    PROVE  Trimmed(s) \subseteq history[s] /\ RunningOn(s) \subseteq Trimmed(s)
  BY DEF Trimmed, RunningOn

\* Numbers of records, and lists of ids.
LEMMA BornType ==
    Cardinality({d \in Calls : record[d] # "none"}) \in Nat
<1>1. {d \in Calls : record[d] # "none"} \subseteq Calls
  OBVIOUS
<1> QED BY <1>1, EngineAssumption, FS_Subset, FS_CardinalityType DEF EngineAssumption

LEMMA RunningIdsType ==
    ASSUME TypeOK, Kept, NEW s \in Seats, NEW ids \in RunningIds(s)
    PROVE  ids \in Seq(Ids)
<1>1. PICK queue \in [1..Active(s) -> RunningOn(s)] : ids = [i \in 1..Active(s) |-> IdOf[queue[i]]]
  BY DEF RunningIds, RunningInOrder
<1>2. \A i \in 1..Active(s) : queue[i] \in Calls
  BY <1>1, RunningOnSeat
<1>3. ids \in [1..Active(s) -> Ids]
  BY <1>1, <1>2, EngineAssumption DEF EngineAssumption
<1>4. Active(s) \in Nat
  BY ActiveCounts
<1> QED BY <1>3, <1>4

-----------------------------------------------------------------------------
(* The invariant: the lock, the records and the histories. *)

LEMMA NoClientType == NoClient \in Client
<1>1. (CHOOSE s \in Seats : TRUE) \in Seats
  BY EngineAssumption DEF EngineAssumption
<1>2. <<>> \in Seq(Ids)
  OBVIOUS
<1> QED BY <1>1, <1>2 DEF NoClient, Client

LEMMA InitInv == ASSUME Init PROVE Inv /\ FlagFollows
<1>1. (CHOOSE s \in Seats : TRUE) \in Seats
  BY EngineAssumption DEF EngineAssumption
<1>2. TypeOK
  BY <1>1, NoClientType DEF Init, TypeOK, SeatStates, Usable, Ask, Places, RecordStates
<1>3. Stages /\ Kept /\ Locked /\ HasId
  BY EngineAssumption DEF Init, Stages, Kept, Locked, HasId, Starting, NoClient, EngineAssumption
<1>4. FlagFollows
  BY DEF Init, FlagFollows, BusyHasReason, EndIsSeen, ReadyIsIdle, IdleIsIdle, Starting, NoClient
<1> QED BY <1>2, <1>3, <1>4 DEF Inv

\* Types.
LEMMA CallStepType ==
    ASSUME Inv, NEW c \in Calls, CallStep(c) \/ Return(c)
    PROVE  TypeOK'
<1> USE DEF Inv, TypeOK, Places, Goto
<1>1. CASE Register(c)
  <2>1. SeatOf(c) \in Seats
    BY DEF SeatOf, Ask
  <2>2. Trimmed(SeatOf(c)) \cup {c} \in SUBSET Calls
    BY <2>1, TrimmedKeeps
  <2>3. CASE pc' = [pc EXCEPT ![c] = "over"] /\ UNCHANGED <<tracker, holder>>
    BY <1>1, <2>3 DEF Register, tracker
  <2>4. CASE holder' = c
    <3>1. /\ history' = [history EXCEPT ![SeatOf(c)] = Trimmed(SeatOf(c)) \cup {c}]
          /\ born' = [born EXCEPT ![c] = Cardinality({d \in Calls : record[d] # "none"})]
          /\ record' = [record EXCEPT ![c] = "running"]
          /\ pc' \in [Calls -> Places]
          /\ UNCHANGED <<seat, call, workers, cancel, client, down, told, rebuilt>>
      BY <1>1, <2>4, EngineAssumption DEF Register, EngineAssumption
    <3>2. history' \in [Seats -> SUBSET Calls] /\ born' \in [Calls -> Nat]
      BY <2>2, <3>1, BornType
    <3> QED BY <2>4, <3>1, <3>2 DEF RecordStates
  <2> QED BY <1>1, <2>3, <2>4 DEF Register
<1>2. CASE Enlist(c)
  BY <1>2, EngineAssumption DEF EngineAssumption, Enlist, Key, SeatOf, Ask, Proceed, Idled, SeatStates, Usable, tracker
<1>3. CASE Count(c)
  BY <1>3 DEF Count, Key, SeatOf, Ask, Proceed, Idled, SeatStates, Usable, tracker
<1>4. CASE BeginWork(c)
  BY <1>4 DEF BeginWork, Key, SeatOf, Ask, Proceed, Idled, SeatStates, Usable, tracker
<1>5. CASE Launch(c)
  BY <1>5 DEF Launch, Key, SeatOf, Ask, Proceed, Idled, SeatStates, Usable, tracker
<1>6. CASE Work(c)
  BY <1>6 DEF Work, Key, SeatOf, Ask, Proceed, Idled, SeatStates, Usable, tracker
<1>7. CASE Return(c)
  BY <1>7 DEF Return, Key, SeatOf, Ask, Proceed, Idled, SeatStates, Usable, tracker
<1>8. CASE Pop(c)
  BY <1>8 DEF Pop, Key, SeatOf, Ask, Proceed, Idled, SeatStates, Usable, tracker
<1>9. CASE Leave(c)
  BY <1>9 DEF Leave, Key, SeatOf, Ask, Proceed, Idled, SeatStates, Usable, tracker
<1>10. CASE FinishWork(c)
  BY <1>10 DEF FinishWork, Key, SeatOf, Ask, Proceed, Idled, SeatStates, Usable, tracker
<1>11. CASE Conclude(c)
  <2>1. SeatOf(c) \in Seats
    BY DEF SeatOf, Ask
  <2>2. PICK verdict \in Ended : record' = Terminated(SeatOf(c), IdOf[c], verdict)
    BY <1>11 DEF Conclude, Ended
  <2>3. record' \in [Calls -> RecordStates]
    BY <2>1, <2>2, TerminatedRecords
  <2> QED BY <1>11, <2>3 DEF Conclude
<1> QED BY <1>1, <1>2, <1>3, <1>4, <1>5, <1>6, <1>7, <1>8, <1>9, <1>10, <1>11 DEF CallStep

\* What a client does next: it turns to a step, to its next id, or is through.
LEMMA ClientMoves ==
    ASSUME TypeOK, NEW k \in Clients
    PROVE  /\ \A step \in {"mark", "signal", "leave", "finish", "queued", "job", "over"} : Turn(k, step) =>
                 /\ client' \in [Clients -> Client]
                 /\ client'[k].step = step /\ client'[k].seat = client[k].seat
                 /\ client'[k].todo = client[k].todo /\ client'[k].verdict = client[k].verdict
                 /\ client'[k].job = client[k].job
                 /\ \A j \in Clients \ {k} : client'[j] = client[j]
           /\ NextId(k) /\ client[k].todo # <<>> =>
                 /\ client' \in [Clients -> Client]
                 /\ client'[k].step = "mark" /\ client'[k].seat = client[k].seat
                 /\ \A j \in Clients \ {k} : client'[j] = client[j]
           /\ Drop(k) =>
                 /\ client' \in [Clients -> Client]
                 /\ client'[k].step = "over"
                 /\ \A j \in Clients \ {k} : client'[j] = client[j]
<1>1. client[k] \in Client
  BY DEF TypeOK
<1>2. ASSUME NEW step \in {"mark", "signal", "leave", "finish", "queued", "job", "over"}, Turn(k, step)
      PROVE  /\ client' \in [Clients -> Client]
             /\ client'[k].step = step /\ client'[k].seat = client[k].seat
             /\ client'[k].todo = client[k].todo /\ client'[k].verdict = client[k].verdict
             /\ client'[k].job = client[k].job
             /\ \A j \in Clients \ {k} : client'[j] = client[j]
  BY <1>1, <1>2 DEF Turn, TypeOK, Client
<1>3. ASSUME NextId(k), client[k].todo # <<>>
      PROVE  /\ client' \in [Clients -> Client]
             /\ client'[k].step = "mark" /\ client'[k].seat = client[k].seat
             /\ \A j \in Clients \ {k} : client'[j] = client[j]
  <2>1. client[k].todo \in Seq(Ids)
    BY <1>1 DEF Client
  <2>2. Tail(client[k].todo) \in Seq(Ids)
    BY <1>3, <2>1, HeadTailProperties
  <2>3. client' = [client EXCEPT ![k].step = "mark", ![k].todo = Tail(client[k].todo)]
    BY <1>3 DEF NextId
  <2> QED BY <1>1, <2>2, <2>3 DEF TypeOK, Client
<1>4. ASSUME Drop(k)
      PROVE  /\ client' \in [Clients -> Client]
             /\ client'[k].step = "over"
             /\ \A j \in Clients \ {k} : client'[j] = client[j]
  BY <1>1, <1>4, NoClientType DEF Drop, TypeOK, Client
<1> QED BY <1>2, <1>3, <1>4

LEMMA ClientStepType ==
    ASSUME Inv, NEW k \in Clients, ClientStep(k)
    PROVE  TypeOK'
<1> USE DEF Inv, HasId
<1>0. client[k] \in Client /\ client[k].seat \in Seats
  BY DEF TypeOK, Client
<1>1. CASE Mark(k)
  <2>1. record' \in [Calls -> RecordStates]
    BY <1>0, <1>1, TerminatedRecords DEF Mark, Ended, Client
  <2>2. client' \in [Clients -> Client]
    BY <1>1, ClientMoves DEF Mark
  <2> QED BY <1>1, <2>1, <2>2 DEF Mark, TypeOK
<1>2. CASE Signal(k)
  <2>1. client' \in [Clients -> Client]
    BY <1>2, ClientMoves DEF Signal
  <2>2. Entry(client[k].seat, Head(client[k].todo)) \subseteq Calls
    BY <1>0 DEF Entry, TypeOK
  <2> QED BY <1>2, <2>1, <2>2 DEF Signal, TypeOK, tracker
<1>3. CASE ClientLeave(k)
  <2>1. client' \in [Clients -> Client]
    BY <1>3, ClientMoves DEF ClientLeave
  <2> QED BY <1>3, <2>1 DEF ClientLeave, TypeOK, tracker
<1>4. CASE ClientFinishWork(k)
  <2>1. client' \in [Clients -> Client]
    BY <1>4, ClientMoves DEF ClientFinishWork
  <2> QED BY <1>0, <1>4, <2>1 DEF ClientFinishWork, Idled, TypeOK, tracker, SeatStates, Usable
<1>5. CASE Reply(k)
  <2>1. client' \in [Clients -> Client]
    BY <1>5, ClientMoves DEF Reply
  <2> QED BY <1>5, <2>1 DEF Reply, TypeOK, tracker
<1>6. CASE JobBegins(k)
  <2>1. client' \in [Clients -> Client]
    BY <1>6, ClientMoves DEF JobBegins
  <2> QED BY <1>0, <1>6, <2>1 DEF JobBegins, TypeOK, tracker, SeatStates, Usable
<1>7. CASE JobEnds(k)
  <2>1. client' \in [Clients -> Client]
    BY <1>7, ClientMoves DEF JobEnds
  <2> QED BY <1>0, <1>7, <2>1 DEF JobEnds, TypeOK, tracker, SeatStates, Usable
<1> QED BY <1>1, <1>2, <1>3, <1>4, <1>5, <1>6, <1>7 DEF ClientStep

\* A request comes in with a list of ids.
LEMMA RequestMoves ==
    ASSUME TypeOK, NEW k \in Clients, NEW s \in Seats, NEW ids \in Seq(Ids),
           NEW verdict \in Ended, NEW job \in AllJobs \cup {"none"}, Request(k, s, ids, verdict, job)
    PROVE  /\ TypeOK' /\ client[k].step = "idle" /\ client'[k].step = "mark"
           /\ \A j \in Clients \ {k} : client'[j] = client[j]
           /\ UNCHANGED <<seat, call, pc, record, history, born, workers, cancel, holder, down, told, rebuilt>>
<1>1. [step |-> "mark", seat |-> s, todo |-> ids, verdict |-> verdict, job |-> job] \in Client
  BY DEF Client, Ended
<1>2. client' \in [Clients -> Client]
  BY <1>1 DEF Request, TypeOK
<1> QED BY <1>1, <1>2 DEF Request, TypeOK, tracker

-----------------------------------------------------------------------------
(* The steps of a call. *)

\* A call that only moves: it gives up looking when something runs, and starting
\* when its seat is busy.
LEMMA CallMoves ==
    ASSUME Inv, FlagFollows, NEW c \in Calls, NEW place,
           pc' = [pc EXCEPT ![c] = place],
           UNCHANGED <<seat, call, record, client, rebuilt>>,
           pc[c] \in {"pop", "leave"} /\ place \notin {"pop", "leave", "finish"} =>
               \E d \in Calls : RunsOn(d, call[c].seat),
           pc[c] \in {"pop", "leave"} /\ place # "leave" => \A d \in Calls : pc[d] \notin Starting,
           pc[c] # "finish",
           place \in Starting => pc[c] \in Starting,
           pc[c] \in Starting /\ place \notin Starting /\ record[c] = "running" =>
               seat[call[c].seat] # "ready" \/ call[c].seat \in rebuilt,
           place = "finish" => \A d \in Calls : ~RunsOn(d, call[c].seat)
    PROVE  FlagFollows'
<1>1. \A d \in Calls : pc'[d] = IF d = c THEN place ELSE pc[d]
  BY DEF Inv, TypeOK
<1>2. \A d, s : RunsOn(d, s)' <=> RunsOn(d, s)
  BY DEF RunsOn
<1>3. \A s : (ClientLeaves(s)' <=> ClientLeaves(s)) /\ (ClientIdles(s)' <=> ClientIdles(s))
  BY DEF ClientLeaves, ClientIdles
<1>4. BusyHasReason'
  BY <1>1, <1>2, <1>3 DEF FlagFollows, BusyHasReason, CallLooks, CallIdles
<1>5. EndIsSeen'
  BY <1>1, <1>3 DEF FlagFollows, EndIsSeen, CallLooks
<1>6. ReadyIsIdle'
  BY <1>1 DEF FlagFollows, ReadyIsIdle
<1>7. IdleIsIdle'
  BY <1>1, <1>2 DEF FlagFollows, IdleIsIdle
<1> QED BY <1>4, <1>5, <1>6, <1>7 DEF FlagFollows

LEMMA CallStepInv ==
    ASSUME Inv, FlagFollows, NEW c \in Calls, CallStep(c) \/ Return(c)
    PROVE  Inv' /\ FlagFollows'
<1>0. TypeOK' /\ (\A k \in Clients : k # c) /\ SeatOf(c) \in Seats /\ SeatOf(c) = call[c].seat
  BY CallStepType, EngineAssumption DEF EngineAssumption, Inv, TypeOK, SeatOf, Ask
<1>1. CASE Enlist(c)
  <2>1. Stages'
    BY <1>0, <1>1 DEF Inv, TypeOK, Stages, Goto, Enlist, tracker
  <2>2. Kept'
    BY <1>0, <1>1 DEF Inv, TypeOK, Kept, Goto, Enlist, tracker
  <2>3. Locked' /\ HasId'
    BY <1>0, <1>1 DEF Inv, TypeOK, Locked, HasId, Starting, Goto, Enlist
  <2>4. FlagFollows'
    BY <1>0, <1>1, CallMoves DEF Enlist, Goto, Starting, tracker
  <2> QED BY <1>0, <2>1, <2>2, <2>3, <2>4 DEF Inv
<1>2. CASE Launch(c)
  <2>1. Stages'
    BY <1>0, <1>2 DEF Inv, TypeOK, Stages, Goto, Launch, tracker
  <2>2. Kept'
    BY <1>0, <1>2 DEF Inv, TypeOK, Kept, Goto, Launch, tracker
  <2>3. Locked' /\ HasId'
    BY <1>0, <1>2 DEF Inv, TypeOK, Locked, HasId, Starting, Goto, Launch
  <2>4. FlagFollows'
    BY <1>0, <1>2, CallMoves DEF Launch, Goto, Starting, tracker
  <2> QED BY <1>0, <2>1, <2>2, <2>3, <2>4 DEF Inv
<1>3. CASE Work(c)
  <2>1. Stages'
    BY <1>0, <1>3 DEF Inv, TypeOK, Stages, Goto, Work, tracker
  <2>2. Kept'
    BY <1>0, <1>3 DEF Inv, TypeOK, Kept, Goto, Work, tracker
  <2>3. Locked' /\ HasId'
    BY <1>0, <1>3 DEF Inv, TypeOK, Locked, HasId, Starting, Goto, Work
  <2>4. FlagFollows'
    BY <1>0, <1>3, CallMoves DEF Work, Goto, Starting, tracker
  <2> QED BY <1>0, <2>1, <2>2, <2>3, <2>4 DEF Inv
<1>4. CASE Return(c)
  <2>1. Stages'
    BY <1>0, <1>4 DEF Inv, TypeOK, Stages, Goto, Return, tracker
  <2>2. Kept'
    BY <1>0, <1>4 DEF Inv, TypeOK, Kept, Goto, Return, tracker
  <2>3. Locked' /\ HasId'
    BY <1>0, <1>4 DEF Inv, TypeOK, Locked, HasId, Starting, Goto, Return
  <2>4. FlagFollows'
    BY <1>0, <1>4, CallMoves DEF Return, Goto, Starting, tracker
  <2> QED BY <1>0, <2>1, <2>2, <2>3, <2>4 DEF Inv
<1>5. CASE Pop(c)
  <2>1. Stages'
    BY <1>0, <1>5 DEF Inv, TypeOK, Stages, Goto, Pop, tracker
  <2>2. Kept'
    BY <1>0, <1>5 DEF Inv, TypeOK, Kept, Goto, Pop, tracker
  <2>3. Locked' /\ HasId'
    BY <1>0, <1>5 DEF Inv, TypeOK, Locked, HasId, Starting, Goto, Pop
  <2>4. FlagFollows'
    BY <1>0, <1>5, CallMoves DEF Pop, Goto, Starting, tracker
  <2> QED BY <1>0, <2>1, <2>2, <2>3, <2>4 DEF Inv
<1>6. CASE Count(c)
  <2>1. /\ pc[c] = "count" /\ holder = c
        /\ UNCHANGED <<seat, call, record, history, client, rebuilt>>
    BY <1>6 DEF Count, tracker, Inv, Locked, Starting
  <2>2. CASE Active(SeatOf(c)) = 1 /\ Goto(c, "begin") /\ UNCHANGED holder
    <3>1. Stages' /\ Kept'
      BY <1>0, <2>1, <2>2 DEF Inv, TypeOK, Stages, Kept, Goto
    <3>2. Locked' /\ HasId'
      BY <1>0, <2>1, <2>2 DEF Inv, TypeOK, Locked, HasId, Starting, Goto
    <3>3. FlagFollows'
      BY <2>1, <2>2, CallMoves DEF Goto, Starting
    <3> QED BY <1>0, <3>1, <3>2, <3>3 DEF Inv
  <2>3. CASE Active(SeatOf(c)) # 1 /\ Proceed(c)
    <3>1. PICK place \in {"launch", "over"} :
              pc' = [pc EXCEPT ![c] = place] /\ (place = "launch" <=> call[c].command)
      BY <2>3 DEF Proceed, Goto
    <3>2. Stages' /\ Kept'
      BY <1>0, <2>1, <3>1 DEF Inv, TypeOK, Stages, Kept
    <3>3. Locked' /\ HasId'
      BY <1>0, <2>1, <2>3, <3>1, EngineAssumption
      DEF EngineAssumption, Inv, TypeOK, Locked, HasId, Starting, Proceed
    <3>4. ASSUME record[c] = "running", seat[call[c].seat] = "ready", call[c].seat \notin rebuilt
          PROVE  FALSE
      <4>1. RunsOn(c, SeatOf(c))
        BY <1>0, <3>4 DEF RunsOn
      <4>2. \A d \in Calls : RunsOn(d, SeatOf(c)) => d = c
        BY <1>0, <2>1, <3>4 DEF FlagFollows, ReadyIsIdle, RunsOn, Inv, Locked
      <4> QED BY <1>0, <2>3, <4>1, <4>2, ActiveCounts DEF Inv
    <3>5. FlagFollows'
      BY <2>1, <3>1, <3>4, CallMoves DEF Starting
    <3> QED BY <1>0, <3>2, <3>3, <3>5 DEF Inv
  <2> QED BY <1>6, <2>2, <2>3 DEF Count
<1>7. CASE Leave(c)
  <2>1. /\ pc[c] = "leave" /\ holder = Nobody
        /\ UNCHANGED <<seat, call, record, history, client, rebuilt>>
    BY <1>7 DEF Leave, tracker
  <2>2. \A d \in Calls : pc[d] \notin Starting
    BY <2>1, EngineAssumption DEF EngineAssumption, Inv, Locked, Starting
  <2>3. Active(SeatOf(c)) = 0 <=> \A d \in Calls : ~RunsOn(d, SeatOf(c))
    BY <1>0, ActiveCounts DEF Inv
  <2>4. Stages' /\ Kept'
    BY <1>0, <1>7, <2>1 DEF Inv, TypeOK, Stages, Kept, Goto, Leave
  <2>5. Locked' /\ HasId'
    BY <1>0, <1>7, <2>1, EngineAssumption
    DEF EngineAssumption, Inv, TypeOK, Locked, HasId, Starting, Goto, Leave
  <2>6. CASE Active(SeatOf(c)) = 0 /\ Goto(c, "finish")
    BY <1>0, <2>1, <2>2, <2>3, <2>4, <2>5, <2>6, CallMoves DEF Goto, Starting, Inv
  <2>7. CASE Active(SeatOf(c)) # 0 /\ Goto(c, "over")
    BY <1>0, <2>1, <2>2, <2>3, <2>4, <2>5, <2>7, CallMoves DEF Goto, Starting, Inv
  <2> QED BY <1>7, <2>6, <2>7 DEF Leave
<1>8. CASE BeginWork(c)
  <2>1. /\ pc[c] = "begin" /\ holder = c
        /\ UNCHANGED <<call, record, history, client, rebuilt>>
        /\ seat' = [seat EXCEPT ![call[c].seat] = IF @ = "ready" THEN "busy" ELSE @]
    BY <1>8 DEF BeginWork, tracker, Inv, Locked, Starting, SeatOf
  <2>2. PICK place \in {"launch", "over"} :
            pc' = [pc EXCEPT ![c] = place] /\ (place = "launch" <=> call[c].command)
    BY <1>8 DEF BeginWork, Proceed, Goto
  <2>3. Stages' /\ Kept'
    BY <1>0, <2>1, <2>2 DEF Inv, TypeOK, Stages, Kept
  <2>4. Locked' /\ HasId'
    BY <1>0, <1>8, <2>1, <2>2, EngineAssumption
    DEF EngineAssumption, Inv, TypeOK, Locked, HasId, Starting, BeginWork, Proceed
  <2>5. /\ \A d \in Calls : pc'[d] = IF d = c THEN place ELSE pc[d]
        /\ \A t \in Seats : seat'[t] = IF t = call[c].seat /\ seat[t] = "ready" THEN "busy" ELSE seat[t]
    BY <1>0, <2>1, <2>2 DEF Inv, TypeOK
  <2>6. \A d \in Calls : pc'[d] \notin Starting /\ pc[d] \in Starting \cup {"finish"} => d = c
    BY <2>1 DEF Inv, Locked
  <2>7. BusyHasReason'
    <3>1. ASSUME NEW t \in Seats, seat'[t] = "busy"
          PROVE  \/ \E d \in Calls : RunsOn(d, t)
                 \/ CallLooks(t) \/ CallIdles(t) \/ ClientLeaves(t) \/ ClientIdles(t)
      BY <1>0, <2>1, <2>5, <3>1 DEF FlagFollows, BusyHasReason, EndIsSeen, RunsOn, Starting
    <3> QED BY <2>1, <2>2, <2>5, <3>1
            DEF BusyHasReason, RunsOn, CallLooks, CallIdles, ClientLeaves, ClientIdles
  <2>8. EndIsSeen'
    BY <2>1, <2>2, <2>5 DEF FlagFollows, EndIsSeen, CallLooks, ClientLeaves, Starting
  <2>9. ReadyIsIdle'
    BY <1>0, <2>1, <2>5 DEF FlagFollows, ReadyIsIdle, Inv, TypeOK, Ask
  <2>10. IdleIsIdle'
    BY <2>1, <2>2, <2>5 DEF FlagFollows, IdleIsIdle, RunsOn
  <2> QED BY <1>0, <2>3, <2>4, <2>7, <2>8, <2>9, <2>10 DEF Inv, FlagFollows
<1>9. CASE FinishWork(c)
  <2>1. /\ pc[c] = "finish" /\ holder = c
        /\ UNCHANGED <<call, record, history, client, rebuilt>>
        /\ seat' = [seat EXCEPT ![call[c].seat] = IF @ = "busy" THEN "ready" ELSE @]
        /\ pc' = [pc EXCEPT ![c] = "over"]
    BY <1>9 DEF FinishWork, Idled, Goto, tracker, Inv, Locked, SeatOf
  <2>2. /\ \A d \in Calls : pc'[d] = IF d = c THEN "over" ELSE pc[d]
        /\ \A t \in Seats : seat'[t] = IF t = call[c].seat /\ seat[t] = "busy" THEN "ready" ELSE seat[t]
    BY <1>0, <2>1 DEF Inv, TypeOK
  <2>3. Stages' /\ Kept'
    BY <1>0, <2>1 DEF Inv, TypeOK, Stages, Kept
  <2>4. Locked' /\ HasId'
    BY <1>0, <1>9, <2>1, EngineAssumption
    DEF EngineAssumption, Inv, TypeOK, Locked, HasId, Starting, FinishWork
  <2>5. BusyHasReason'
    <3>1. \A t \in Seats : seat'[t] = "busy" => t # call[c].seat /\ seat[t] = "busy"
      BY <1>0, <2>2
    <3> QED BY <2>1, <2>2, <3>1
            DEF FlagFollows, BusyHasReason, RunsOn, CallLooks, CallIdles, ClientLeaves, ClientIdles
  <2>6. EndIsSeen'
    BY <2>1, <2>2 DEF FlagFollows, EndIsSeen, CallLooks, ClientLeaves, Starting
  <2>7. ReadyIsIdle'
    BY <1>0, <2>1, <2>2 DEF FlagFollows, ReadyIsIdle, IdleIsIdle, RunsOn, Inv, TypeOK, Ask, Starting
  <2>8. IdleIsIdle'
    BY <2>1, <2>2 DEF FlagFollows, IdleIsIdle, RunsOn
  <2> QED BY <1>0, <2>3, <2>4, <2>5, <2>6, <2>7, <2>8 DEF Inv, FlagFollows
<1>10. CASE Conclude(c)
  <2>1. /\ pc[c] \in {"returned", "stopped", "unlaunched"}
        /\ UNCHANGED <<seat, call, history, workers, holder, client, rebuilt>>
    BY <1>10 DEF Conclude
  <2>2. PICK place \in {"pop", "leave"} : pc' = [pc EXCEPT ![c] = place]
    BY <1>10 DEF Conclude, Goto
  <2>3. PICK verdict \in Ended : record' = Terminated(SeatOf(c), IdOf[c], verdict)
    BY <1>10 DEF Conclude, Ended
  <2>4. \A d \in Calls : record'[d] = IF RunsOn(d, SeatOf(c)) /\ IdOf[d] = IdOf[c] THEN verdict ELSE record[d]
    BY <1>0, <2>3, TerminatedRecords DEF Inv
  <2>5. \A d \in Calls : pc'[d] = IF d = c THEN place ELSE pc[d]
    BY <2>2 DEF Inv, TypeOK
  <2>6. record'[c] # "running"
    BY <1>0, <2>4 DEF RunsOn, Ended
  <2>7. \A d \in Calls : record'[d] = "running" => record[d] = "running"
    BY <2>4 DEF Ended
  <2>8. Stages'
    BY <2>1, <2>4, <2>5, <2>6, <2>7 DEF Inv, Stages, RunsOn, Ended
  <2>9. Kept'
    BY <2>1, <2>4, <2>7 DEF Inv, TypeOK, Kept, RunsOn, Ended
  <2>10. Locked' /\ HasId'
    BY <1>0, <2>1, <2>5 DEF Inv, Locked, HasId, Starting
  <2>11. BusyHasReason'
    <3>1. \A t \in Seats : t # SeatOf(c) => \A d \in Calls : RunsOn(d, t)' <=> RunsOn(d, t)
      BY <2>1, <2>4 DEF RunsOn
    <3>2. \A t : t = SeatOf(c) => CallLooks(t)'
      BY <1>0, <2>1, <2>5 DEF CallLooks
    <3>3. \A t : CallLooks(t) => CallLooks(t)'
      BY <2>1, <2>5 DEF CallLooks
    <3>4. \A t : CallIdles(t) => CallIdles(t)'
      BY <2>1, <2>5 DEF CallIdles
    <3>5. \A t : (ClientLeaves(t) <=> ClientLeaves(t)') /\ (ClientIdles(t) <=> ClientIdles(t)')
      BY <2>1 DEF ClientLeaves, ClientIdles
    <3> QED BY <2>1, <3>1, <3>2, <3>3, <3>4, <3>5 DEF FlagFollows, BusyHasReason
  <2>12. EndIsSeen'
    <3>1. \A d \in Calls : record'[d] # record[d] => call[d].seat = call[c].seat
      BY <1>0, <2>4 DEF RunsOn
    <3> QED BY <2>1, <2>5, <3>1 DEF FlagFollows, EndIsSeen, CallLooks, ClientLeaves, Starting
  <2>13. ReadyIsIdle'
    BY <2>1, <2>5, <2>6, <2>7 DEF FlagFollows, ReadyIsIdle
  <2>14. IdleIsIdle'
    BY <2>1, <2>5, <2>7 DEF FlagFollows, IdleIsIdle, RunsOn
  <2> QED BY <1>0, <2>8, <2>9, <2>10, <2>11, <2>12, <2>13, <2>14 DEF Inv, FlagFollows
<1>11. CASE Register(c)
  <2>1. pc[c] = "register" /\ holder = Nobody /\ record[c] = "none"
        /\ UNCHANGED <<seat, call, workers, client, rebuilt>>
    BY <1>11 DEF Register, Inv, Stages
  <2>2. \A d \in Calls : pc[d] \notin Starting \cup {"finish"}
    BY <2>1, EngineAssumption DEF EngineAssumption, Inv, Locked
  <2>3. \A k \in Clients : client[k].step # "finish"
    BY <2>1, EngineAssumption DEF EngineAssumption, Inv, Locked
  <2>4. CASE Goto(c, "over") /\ UNCHANGED <<tracker, holder>>
    <3>1. Stages' /\ Kept'
      BY <1>0, <2>1, <2>4 DEF Inv, TypeOK, Stages, Kept, Goto, tracker
    <3>2. Locked' /\ HasId'
      BY <1>0, <2>1, <2>4 DEF Inv, TypeOK, Locked, HasId, Starting, Goto
    <3>3. FlagFollows'
      BY <2>1, <2>4, CallMoves DEF Goto, Starting, tracker
    <3> QED BY <1>0, <3>1, <3>2, <3>3 DEF Inv
  <2>5. CASE holder' = c /\ holder' # holder
    <3>1. PICK place \in {"enlist", "count"} :
              pc' = [pc EXCEPT ![c] = place] /\ (call[c].command <=> place = "enlist")
      BY <1>11, <2>5 DEF Register, Goto
    <3>2. /\ record' = [record EXCEPT ![c] = "running"]
          /\ history' = [history EXCEPT ![SeatOf(c)] = Trimmed(SeatOf(c)) \cup {c}]
      BY <1>11, <2>5 DEF Register
    <3>3. \A d \in Calls : /\ pc'[d] = IF d = c THEN place ELSE pc[d]
                           /\ record'[d] = IF d = c THEN "running" ELSE record[d]
      BY <3>1, <3>2 DEF Inv, TypeOK
    <3>4. Stages'
      BY <2>1, <3>1, <3>3 DEF Inv, Stages
    <3>5. Kept'
      <4>1. \A t \in Seats : history'[t] = IF t = SeatOf(c) THEN Trimmed(t) \cup {c} ELSE history[t]
        BY <3>2 DEF Inv, TypeOK
      <4>2. \A t \in Seats : Trimmed(t) \subseteq history[t] /\ history[t] \subseteq Calls
        BY TrimmedKeeps DEF Inv, TypeOK
      <4>3. \A d \in Calls : record[d] = "running" => d \in Trimmed(call[d].seat)
        BY TrimmedKeeps DEF Inv, TypeOK, Kept, RunningOn
      <4> QED BY SMTT(20), <1>0, <2>1, <3>3, <4>1, <4>2, <4>3 DEF Inv, TypeOK, Kept, Ask
    <3>6. Locked' /\ HasId'
      BY <1>0, <2>1, <2>2, <2>3, <2>5, <3>3 DEF Inv, Locked, HasId, Starting
    <3>7. BusyHasReason'
      <4>1. \A d \in Calls, t \in Seats : RunsOn(d, t) => RunsOn(d, t)'
        BY <2>1, <3>3 DEF RunsOn
      <4>2. \A t \in Seats : (CallLooks(t) => CallLooks(t)') /\ (CallIdles(t) => CallIdles(t)')
        BY <2>1, <3>3 DEF CallLooks, CallIdles
      <4>3. \A t \in Seats : (ClientLeaves(t) => ClientLeaves(t)') /\ (ClientIdles(t) => ClientIdles(t)')
        BY <2>1 DEF ClientLeaves, ClientIdles
      <4> QED BY <2>1, <4>1, <4>2, <4>3 DEF FlagFollows, BusyHasReason
    <3>8. EndIsSeen'
      BY <2>2, <3>3 DEF EndIsSeen
    <3>9. ReadyIsIdle'
      BY <2>1, <2>2, <3>1, <3>3 DEF FlagFollows, ReadyIsIdle, Starting
    <3>10. IdleIsIdle'
      BY <2>1, <2>2, <2>3, <3>1, <3>3 DEF IdleIsIdle
    <3> QED BY <1>0, <3>4, <3>5, <3>6, <3>7, <3>8, <3>9, <3>10 DEF Inv, FlagFollows
  <2>6. c # Nobody
    BY EngineAssumption DEF EngineAssumption
  <2> QED BY <1>11, <2>1, <2>4, <2>5, <2>6 DEF Register
<1> QED BY <1>1, <1>2, <1>3, <1>4, <1>5, <1>6, <1>7, <1>8, <1>9, <1>10, <1>11 DEF CallStep

-----------------------------------------------------------------------------
(* The steps of a client.  Types are ClientStepType.                       *)

\* A client that only moves, on a seat that stays as it is or is worked on by a
\* job: it gives up looking when something runs and nothing is started.
LEMMA ClientOnlyMoves ==
    ASSUME Inv, FlagFollows, NEW k \in Clients, NEW step,
           client'[k].step = step, step \in {"signal", "leave", "finish"} => client'[k].seat = client[k].seat,
           \A j \in Clients \ {k} : client'[j] = client[j],
           \A s \in Seats : seat'[s] = seat[s]
               \/ seat'[s] \notin {"busy", "ready"} \/ (seat'[s] = "ready" /\ s \in rebuilt'),
           rebuilt \subseteq rebuilt',
           UNCHANGED <<call, pc, record>>,
           client[k].step # "finish",
           client[k].step \in {"signal", "leave"} /\ step \notin {"signal", "leave", "finish"} =>
               \E d \in Calls : RunsOn(d, client[k].seat),
           client[k].step \in {"signal", "leave"} /\ step \notin {"signal", "leave"} =>
               \A d \in Calls : pc[d] \notin Starting,
           step = "finish" => \A d \in Calls : ~RunsOn(d, client[k].seat)
    PROVE  FlagFollows'
<1>1. \A d, s : RunsOn(d, s)' <=> RunsOn(d, s)
  BY DEF RunsOn
<1>2. \A s : (CallLooks(s)' <=> CallLooks(s)) /\ (CallIdles(s)' <=> CallIdles(s))
  BY DEF CallLooks, CallIdles
<1>3. BusyHasReason'
  <2>1. ASSUME NEW s \in Seats, seat'[s] = "busy"
        PROVE  seat[s] = "busy"
    BY <2>1
  <2>2. ASSUME NEW s \in Seats, ClientLeaves(s) \/ ClientIdles(s)
        PROVE  (\E c \in Calls : RunsOn(c, s)) \/ ClientLeaves(s)' \/ ClientIdles(s)'
    <3>1. PICK j \in Clients : client[j].seat = s /\ client[j].step \in {"signal", "leave", "finish"}
      BY <2>2 DEF ClientLeaves, ClientIdles
    <3>2. CASE j = k
      BY <3>1, <3>2 DEF ClientLeaves, ClientIdles
    <3>3. CASE j # k
      BY <3>1, <3>3 DEF ClientLeaves, ClientIdles
    <3> QED BY <3>2, <3>3
  <2> QED BY <1>1, <1>2, <2>1, <2>2 DEF FlagFollows, BusyHasReason
<1>4. EndIsSeen'
  <2>1. ASSUME NEW c \in Calls, pc[c] \in Starting, NEW s, ClientLeaves(s)
        PROVE  ClientLeaves(s)'
    <3>1. PICK j \in Clients : client[j].seat = s /\ client[j].step \in {"signal", "leave"}
      BY <2>1 DEF ClientLeaves
    <3> QED BY <2>1, <3>1 DEF ClientLeaves
  <2> QED BY <1>2, <2>1 DEF FlagFollows, EndIsSeen
<1>5. ReadyIsIdle'
  BY DEF FlagFollows, ReadyIsIdle, Inv, TypeOK, Ask
<1>6. IdleIsIdle'
  BY <1>1 DEF FlagFollows, IdleIsIdle
<1> QED BY <1>3, <1>4, <1>5, <1>6 DEF FlagFollows

\* The calls stand still, and so does the lock, or the client gets or leaves it.
LEMMA ClientKeepsInv ==
    ASSUME Inv, TypeOK', NEW k \in Clients,
           \A j \in Clients \ {k} : client'[j] = client[j],
           client'[k].step \in {"signal", "leave", "finish"} => client'[k].todo # <<>>,
           UNCHANGED <<call, pc, history>>,
           \A c \in Calls : record'[c] = record[c] \/ (record[c] = "running" /\ record'[c] \in Ended),
           \/ holder' = holder /\ (client'[k].step = "finish" <=> client[k].step = "finish")
           \/ holder = Nobody /\ holder' = k /\ client'[k].step = "finish"
           \/ holder = k /\ holder' = Nobody /\ client'[k].step # "finish"
    PROVE  Inv'
<1>1. \A c \in Calls : c # k /\ c # Nobody
  BY EngineAssumption DEF EngineAssumption
<1>2. k # Nobody
  BY EngineAssumption DEF EngineAssumption
<1>3. Stages'
  BY DEF Inv, Stages, Ended
<1>4. Kept'
  BY DEF Inv, TypeOK, Kept, Ended
<1>5. Locked'
  <2>1. \A c \in Calls : pc'[c] \in Starting \cup {"finish"} <=> holder' = c
    BY <1>1, <1>2 DEF Inv, Locked
  <2>2. \A j \in Clients \ {k} : client'[j].step = "finish" <=> holder' = j
    BY <1>2, EngineAssumption DEF EngineAssumption, Inv, Locked
  <2>3. client'[k].step = "finish" <=> holder' = k
    BY <1>2 DEF Inv, Locked
  <2> QED BY <2>1, <2>2, <2>3 DEF Locked
<1>6. HasId'
  BY DEF Inv, HasId
<1> QED BY <1>3, <1>4, <1>5, <1>6 DEF Inv

LEMMA ClientStepInv ==
    ASSUME Inv, FlagFollows, NEW k \in Clients, ClientStep(k)
    PROVE  Inv' /\ FlagFollows'
<1>0. TypeOK' /\ client[k] \in Client /\ client[k].seat \in Seats /\ TypeOK /\ Kept
  BY ClientStepType DEF Inv, TypeOK, Client
<1>1. CASE Mark(k)
  <2> DEFINE s == client[k].seat
             id == Head(client[k].todo)
  <2>1. /\ client[k].step = "mark" /\ client[k].todo # <<>>
        /\ UNCHANGED <<seat, call, pc, history, holder, rebuilt>>
        /\ record' = Terminated(s, id, client[k].verdict)
        /\ \/ Entry(s, id) = {} /\ NextId(k)
           \/ \E step \in {"signal", "leave"} : Turn(k, step)
    BY <1>1 DEF Mark
  <2>2. \A d \in Calls : record'[d] = IF RunsOn(d, s) /\ IdOf[d] = id THEN client[k].verdict ELSE record[d]
    BY <1>0, <2>1, TerminatedRecords DEF Client, Ended
  <2>3. \A d \in Calls : record'[d] = record[d] \/ (record[d] = "running" /\ record'[d] \in Ended)
    BY <1>0, <2>2 DEF RunsOn, Client, Ended
  <2>4. CASE Entry(s, id) = {} /\ NextId(k)
    <3>1. client'[k].step = "mark" /\ \A j \in Clients \ {k} : client'[j] = client[j]
      BY <1>0, <2>1, <2>4, ClientMoves
    <3>2. Inv'
      BY <1>0, <2>1, <2>3, <3>1, ClientKeepsInv
    <3>3. record' = [c \in Calls |-> record[c]]
      BY <2>1, <2>4 DEF Terminated
    <3>4. record' = record
      BY <1>0, <3>3 DEF TypeOK
    <3>5. FlagFollows'
      BY <2>1, <3>1, <3>4, ClientOnlyMoves
    <3> QED BY <3>2, <3>5
  <2>5. CASE \E step \in {"signal", "leave"} : Turn(k, step)
    <3>1. PICK step \in {"signal", "leave"} : Turn(k, step)
      BY <2>5
    <3>2. /\ client'[k].step = step /\ client'[k].seat = s /\ client'[k].todo = client[k].todo
          /\ \A j \in Clients \ {k} : client'[j] = client[j]
      BY <1>0, <3>1, ClientMoves
    <3>3. Inv'
      BY <1>0, <2>1, <2>3, <3>2, ClientKeepsInv
    <3>4. (\A t : t = s => ClientLeaves(t)') /\ \A t : (ClientLeaves(t) => ClientLeaves(t)') /\ (ClientIdles(t) => ClientIdles(t)')
      BY <2>1, <3>2 DEF ClientLeaves, ClientIdles
    <3>5. \A t : (CallLooks(t) <=> CallLooks(t)') /\ (CallIdles(t) <=> CallIdles(t)')
      BY <2>1 DEF CallLooks, CallIdles
    <3>6. \A d \in Calls, t \in Seats :
             (RunsOn(d, t)' => RunsOn(d, t)) /\ (t # s /\ RunsOn(d, t) => RunsOn(d, t)')
      BY <2>1, <2>2, <2>3 DEF RunsOn, Ended
    <3>7. BusyHasReason'
      BY <2>1, <3>4, <3>5, <3>6 DEF FlagFollows, BusyHasReason
    <3>8. EndIsSeen'
      <4>1. \A d \in Calls : record'[d] # record[d] => call[d].seat = s
        BY <2>2 DEF RunsOn
      <4> QED BY <2>1, <3>4, <3>5, <4>1 DEF FlagFollows, EndIsSeen
    <3>9. ReadyIsIdle'
      BY <2>1, <2>3 DEF FlagFollows, ReadyIsIdle, Ended
    <3>10. IdleIsIdle'
      <4>1. \A t : \A d \in Calls : RunsOn(d, t)' => RunsOn(d, t)
        BY <2>1, <2>3 DEF RunsOn, Ended
      <4> QED BY <2>1, <3>2, <4>1 DEF FlagFollows, IdleIsIdle
    <3> QED BY <3>3, <3>7, <3>8, <3>9, <3>10 DEF FlagFollows
  <2> QED BY <2>1, <2>4, <2>5
<1>2. CASE Signal(k)
  <2>1. /\ client[k].step = "signal"
        /\ UNCHANGED <<seat, call, pc, record, history, holder, rebuilt>>
        /\ client'[k].step = "leave" /\ client'[k].seat = client[k].seat /\ client'[k].todo = client[k].todo
        /\ \A j \in Clients \ {k} : client'[j] = client[j]
    BY <1>0, <1>2, ClientMoves DEF Signal, tracker
  <2>2. Inv'
    BY <1>0, <2>1, ClientKeepsInv DEF Inv, HasId
  <2> QED BY <2>1, <2>2, ClientOnlyMoves
<1>3. CASE ClientLeave(k)
  <2>1. /\ client[k].step = "leave" /\ holder = Nobody /\ client[k].todo # <<>>
        /\ UNCHANGED <<seat, call, pc, record, history, rebuilt>>
    BY <1>3 DEF ClientLeave, tracker, Inv, HasId
  <2>2. \A d \in Calls : pc[d] \notin Starting
    BY <2>1, EngineAssumption DEF EngineAssumption, Inv, Locked, Starting
  <2>3. Active(client[k].seat) = 0 <=> \A d \in Calls : ~RunsOn(d, client[k].seat)
    BY <1>0, ActiveCounts
  <2>4. CASE Active(client[k].seat) = 0 /\ Turn(k, "finish") /\ holder' = k
    <3>1. /\ client'[k].step = "finish" /\ client'[k].seat = client[k].seat /\ client'[k].todo = client[k].todo
          /\ \A j \in Clients \ {k} : client'[j] = client[j]
      BY <1>0, <2>4, ClientMoves
    <3>2. Inv'
      BY <1>0, <2>1, <2>4, <3>1, ClientKeepsInv
    <3> QED BY <2>1, <2>2, <2>3, <2>4, <3>1, <3>2, ClientOnlyMoves
  <2>5. CASE Active(client[k].seat) # 0 /\ NextId(k) /\ UNCHANGED holder
    <3>1. client'[k].step = "mark" /\ \A j \in Clients \ {k} : client'[j] = client[j]
      BY <1>0, <2>1, <2>5, ClientMoves
    <3>2. Inv'
      BY <1>0, <2>1, <2>5, <3>1, ClientKeepsInv
    <3> QED BY <2>1, <2>2, <2>3, <2>5, <3>1, <3>2, ClientOnlyMoves
  <2> QED BY <1>3, <2>4, <2>5 DEF ClientLeave
<1>4. CASE ClientFinishWork(k)
  <2>1. /\ client[k].step = "finish" /\ holder = k /\ holder' = Nobody
        /\ seat' = [seat EXCEPT ![client[k].seat] = IF @ = "busy" THEN "ready" ELSE @]
        /\ UNCHANGED <<call, pc, record, history, rebuilt>>
    BY <1>4 DEF ClientFinishWork, Idled, tracker, Inv, Locked
  <2>2. client'[k].step = "mark" /\ \A j \in Clients \ {k} : client'[j] = client[j]
    BY <1>0, <1>4, <2>1, ClientMoves DEF ClientFinishWork, Inv, HasId
  <2>3. Inv'
    BY <1>0, <2>1, <2>2, ClientKeepsInv
  <2>4. \A t \in Seats : seat'[t] = IF t = client[k].seat /\ seat[t] = "busy" THEN "ready" ELSE seat[t]
    BY <1>0, <2>1 DEF TypeOK
  <2>5. /\ \A d, t : RunsOn(d, t)' <=> RunsOn(d, t)
        /\ \A t : (CallLooks(t) <=> CallLooks(t)') /\ (CallIdles(t) <=> CallIdles(t)')
    BY <2>1 DEF RunsOn, CallLooks, CallIdles
  <2>6. \A t : (ClientLeaves(t) => ClientLeaves(t)') /\ (t # client[k].seat /\ ClientIdles(t) => ClientIdles(t)')
    BY <2>1, <2>2 DEF ClientLeaves, ClientIdles
  <2>7. BusyHasReason'
    <3>1. \A t \in Seats : seat'[t] = "busy" => t # client[k].seat /\ seat[t] = "busy"
      BY <1>0, <2>4
    <3> QED BY <2>5, <2>6, <3>1 DEF FlagFollows, BusyHasReason
  <2>8. EndIsSeen'
    BY <2>1, <2>5, <2>6 DEF FlagFollows, EndIsSeen
  <2>9. ReadyIsIdle'
    BY <1>0, <2>1, <2>4 DEF FlagFollows, ReadyIsIdle, IdleIsIdle, RunsOn, TypeOK, Ask
  <2>10. IdleIsIdle'
    BY <2>1, <2>2, <2>5 DEF FlagFollows, IdleIsIdle
  <2> QED BY <2>3, <2>7, <2>8, <2>9, <2>10 DEF FlagFollows
<1>5. CASE Reply(k)
  <2>1. PICK step \in {"queued", "over"} :
            client'[k].step = step /\ \A j \in Clients \ {k} : client'[j] = client[j]
    BY <1>0, <1>5, ClientMoves DEF Reply
  <2>2. client[k].step = "mark" /\ UNCHANGED <<seat, call, pc, record, history, holder, rebuilt>>
    BY <1>5 DEF Reply, tracker
  <2>3. Inv'
    BY <1>0, <2>1, <2>2, ClientKeepsInv
  <2> QED BY <2>1, <2>2, <2>3, ClientOnlyMoves
<1>6. CASE JobBegins(k)
  <2>1. PICK step \in {"job", "over"} :
            client'[k].step = step /\ \A j \in Clients \ {k} : client'[j] = client[j]
    BY <1>0, <1>6, ClientMoves DEF JobBegins
  <2>2. client[k].step = "queued" /\ UNCHANGED <<call, pc, record, history, holder, rebuilt>>
    BY <1>6 DEF JobBegins, tracker
  <2>3. \A t \in Seats : seat'[t] = seat[t] \/ seat'[t] = "teardown"
    BY <1>0, <1>6 DEF JobBegins, TypeOK
  <2>4. Inv'
    BY <1>0, <2>1, <2>2, ClientKeepsInv
  <2> QED BY <2>1, <2>2, <2>3, <2>4, ClientOnlyMoves
<1>7. CASE JobEnds(k)
  <2>1. client'[k].step = "over" /\ \A j \in Clients \ {k} : client'[j] = client[j]
    BY <1>0, <1>7, ClientMoves DEF JobEnds
  <2>2. client[k].step = "job" /\ UNCHANGED <<call, pc, record, history, holder>>
    BY <1>7 DEF JobEnds, tracker
  <2>3. /\ \A t \in Seats : seat'[t] = seat[t] \/ seat'[t] = "off" \/ (seat'[t] = "ready" /\ t \in rebuilt')
        /\ rebuilt \subseteq rebuilt'
    BY <1>0, <1>7 DEF JobEnds, TypeOK
  <2>4. Inv'
    BY <1>0, <2>1, <2>2, ClientKeepsInv
  <2> QED BY <2>1, <2>2, <2>3, <2>4, ClientOnlyMoves
<1> QED BY <1>1, <1>2, <1>3, <1>4, <1>5, <1>6, <1>7 DEF ClientStep

-----------------------------------------------------------------------------
(* New calls, requests and the shutdown; the whole step.                   *)

LEMMA StartInv ==
    ASSUME Inv, FlagFollows, NEW c \in Calls, NEW s \in Seats, NEW command \in BOOLEAN, Start(c, s, command)
    PROVE  Inv' /\ FlagFollows'
<1>1. /\ pc[c] = "idle" /\ record[c] = "none"
      /\ call' = [call EXCEPT ![c] = [seat |-> s, command |-> command]]
      /\ pc' = [pc EXCEPT ![c] = "register"]
      /\ UNCHANGED <<seat, record, history, born, workers, cancel, holder, client, down, told, rebuilt>>
  BY DEF Start, Goto, tracker, Inv, Stages
<1>2. TypeOK'
  BY <1>1 DEF Inv, TypeOK, Ask, Places
<1>3. \A d \in Calls : /\ call'[d] = IF d = c THEN [seat |-> s, command |-> command] ELSE call[d]
                       /\ pc'[d] = IF d = c THEN "register" ELSE pc[d]
  BY <1>1 DEF Inv, TypeOK
<1>4. Stages' /\ Kept'
  BY <1>1, <1>3 DEF Inv, TypeOK, Stages, Kept
<1>5. Locked' /\ HasId'
  BY <1>1, <1>3 DEF Inv, Locked, HasId, Starting
<1>6. \A t : \A d \in Calls : RunsOn(d, t)' <=> RunsOn(d, t)
  BY <1>1, <1>3 DEF RunsOn
<1>7. \A t : /\ CallLooks(t) => CallLooks(t)'
             /\ CallIdles(t) => CallIdles(t)'
             /\ ClientLeaves(t) <=> ClientLeaves(t)'
             /\ ClientIdles(t) <=> ClientIdles(t)'
  BY <1>1, <1>3 DEF CallLooks, CallIdles, ClientLeaves, ClientIdles
<1>8. BusyHasReason'
  BY <1>1, <1>6, <1>7 DEF FlagFollows, BusyHasReason
<1>9. EndIsSeen'
  BY <1>1, <1>3, <1>7 DEF FlagFollows, EndIsSeen, Starting
<1>10. ReadyIsIdle' /\ IdleIsIdle'
  BY <1>1, <1>3, <1>6 DEF FlagFollows, ReadyIsIdle, IdleIsIdle
<1> QED BY <1>2, <1>4, <1>5, <1>8, <1>9, <1>10 DEF Inv, FlagFollows

LEMMA RequestInv ==
    ASSUME Inv, FlagFollows, NEW k \in Clients, NEW s \in Seats, NEW ids \in Seq(Ids),
           NEW verdict \in Ended, NEW job \in AllJobs \cup {"none"}, Request(k, s, ids, verdict, job)
    PROVE  Inv' /\ FlagFollows'
<1>1. /\ TypeOK' /\ client[k].step = "idle" /\ client'[k].step = "mark"
      /\ \A j \in Clients \ {k} : client'[j] = client[j]
      /\ UNCHANGED <<seat, call, pc, record, history, workers, cancel, holder, down, told, rebuilt>>
  BY RequestMoves DEF Inv
<1>2. Inv'
  BY <1>1, ClientKeepsInv
<1> QED BY <1>1, <1>2, ClientOnlyMoves

LEMMA StillInv ==
    ASSUME Inv, FlagFollows, Shutdown \/ UNCHANGED vars
    PROVE  Inv' /\ FlagFollows'
<1>1. UNCHANGED <<seat, call, pc, record, history, born, workers, holder, client, told, rebuilt>>
      /\ cancel' \in SUBSET Calls /\ down' \in BOOLEAN
  BY DEF Shutdown, vars, tracker, Inv, TypeOK
<1>2. Inv'
  BY <1>1 DEF Inv, TypeOK, Stages, Kept, Locked, HasId
<1>3. FlagFollows'
  BY <1>1 DEF FlagFollows, BusyHasReason, EndIsSeen, ReadyIsIdle, IdleIsIdle,
              RunsOn, CallLooks, CallIdles, ClientLeaves, ClientIdles
<1> QED BY <1>2, <1>3

\* A request is one of three.
LEMMA RequestIsOne ==
    ASSUME Inv, NEW k \in Clients, NEW s \in Seats,
           \/ \E id \in Ids : Kill(k, s, id) \/ Finish(k, s, id)
           \/ \E job \in Jobs : Teardown(k, s, job)
    PROVE  \E ids \in Seq(Ids), verdict \in Ended, job \in AllJobs \cup {"none"} :
               Request(k, s, ids, verdict, job)
<1>1. ASSUME NEW id \in Ids, Kill(k, s, id) \/ Finish(k, s, id)
      PROVE  \E ids \in Seq(Ids), verdict \in Ended, job \in AllJobs \cup {"none"} :
                 Request(k, s, ids, verdict, job)
  <2>1. <<id>> \in Seq(Ids)
    OBVIOUS
  <2> QED BY <1>1, <2>1 DEF Kill, Finish, Ended
<1>2. ASSUME NEW job \in Jobs, Teardown(k, s, job)
      PROVE  \E ids \in Seq(Ids), verdict \in Ended, j \in AllJobs \cup {"none"} :
                 Request(k, s, ids, verdict, j)
  <2>1. PICK ids \in RunningIds(s) : Request(k, s, ids, "killed", job)
    BY <1>2 DEF Teardown
  <2>2. ids \in Seq(Ids)
    BY RunningIdsType DEF Inv
  <2>3. job \in AllJobs
    BY EngineAssumption DEF EngineAssumption
  <2> QED BY <2>1, <2>2, <2>3 DEF Ended
<1> QED BY <1>1, <1>2

LEMMA NextInv == ASSUME Inv, FlagFollows, [Next]_vars PROVE Inv' /\ FlagFollows'
<1>1. ASSUME NEW k \in Clients, NEW s \in Seats,
             \/ \E id \in Ids : Kill(k, s, id) \/ Finish(k, s, id)
             \/ \E job \in Jobs : Teardown(k, s, job)
      PROVE  Inv' /\ FlagFollows'
  BY <1>1, RequestIsOne, RequestInv
<1> QED BY <1>1, CallStepInv, ClientStepInv, StartInv, StillInv DEF Next, Rest

-----------------------------------------------------------------------------
(* Fresh ids: what a client asks of an exec reaches that exec.             *)

\* What one step does to the record and the place of a call.
LEMMA CallProgress ==
    ASSUME Inv, [Next]_vars, NEW c \in Calls
    PROVE  /\ record[c] \in Ended => record'[c] = record[c]
           /\ pc'[c] # pc[c] /\ pc'[c] \in {"spawned", "running"} =>
                 (Launch(c) /\ StillRunning(c)) \/ (Work(c) /\ c \notin cancel)
           /\ pc'[c] # pc[c] /\ pc'[c] = "count" => Enlist(c) \/ Register(c)
           /\ cancel \subseteq cancel'
<1> DEFINE Goal ==
           /\ record[c] \in Ended => record'[c] = record[c]
           /\ pc'[c] # pc[c] /\ pc'[c] \in {"spawned", "running"} =>
                 (Launch(c) /\ StillRunning(c)) \/ (Work(c) /\ c \notin cancel)
           /\ pc'[c] # pc[c] /\ pc'[c] = "count" => Enlist(c) \/ Register(c)
           /\ cancel \subseteq cancel'
<1>0. ASSUME NEW s \in Seats, NEW id, NEW verdict \in Ended, record' = Terminated(s, id, verdict),
             record[c] \in Ended
      PROVE  record'[c] = record[c]
  BY <1>0, TerminatedRecords DEF Inv, RunsOn, Ended
<1>1. ASSUME NEW d \in Calls, CallStep(d) \/ Return(d)
      PROVE  Goal
  <2> USE DEF Inv, TypeOK, Goto, Proceed, tracker
  <2>0. SeatOf(d) \in Seats
    BY DEF SeatOf, Ask
  <2>1. CASE Register(d)
    BY <2>1 DEF Register, Stages, Ended
  <2>2. CASE Enlist(d) \/ Count(d) \/ BeginWork(d)
    BY <2>2 DEF Enlist, Count, BeginWork
  <2>3. CASE Launch(d)
    BY <2>3 DEF Launch
  <2>4. CASE Work(d)
    BY <2>4 DEF Work
  <2>5. CASE Conclude(d)
    <3>1. PICK verdict \in Ended : record' = Terminated(SeatOf(d), IdOf[d], verdict)
      BY <2>5 DEF Conclude, Ended
    <3> QED BY <1>0, <2>0, <2>5, <3>1 DEF Conclude
  <2>6. CASE Return(d) \/ Pop(d) \/ Leave(d) \/ FinishWork(d)
    BY <2>6 DEF Return, Pop, Leave, FinishWork
  <2> QED BY <1>1, <2>1, <2>2, <2>3, <2>4, <2>5, <2>6 DEF CallStep
<1>2. ASSUME NEW k \in Clients, ClientStep(k)
      PROVE  Goal
  <2>1. pc' = pc /\ cancel \subseteq cancel'
    BY <1>2 DEF ClientStep, Mark, Signal, ClientLeave, ClientFinishWork, Reply, JobBegins, JobEnds
  <2>2. CASE Mark(k)
    <3>1. client[k].seat \in Seats /\ client[k].verdict \in Ended
      BY DEF Inv, TypeOK, Client, Ended
    <3> QED BY <1>0, <2>1, <2>2, <3>1 DEF Mark
  <2>3. CASE ~Mark(k)
    BY <1>2, <2>1, <2>3 DEF ClientStep, Signal, ClientLeave, ClientFinishWork, Reply, JobBegins, JobEnds, tracker
  <2> QED BY <2>2, <2>3
<1>3. ASSUME NEW d \in Calls, NEW s \in Seats, NEW command \in BOOLEAN, Start(d, s, command)
      PROVE  Goal
  BY <1>3 DEF Start, Goto, tracker, Inv, TypeOK
<1>4. ASSUME NEW k \in Clients, NEW s \in Seats,
             \/ \E id \in Ids : Kill(k, s, id) \/ Finish(k, s, id)
             \/ \E job \in Jobs : Teardown(k, s, job)
      PROVE  Goal
  BY <1>4, RequestIsOne DEF Request, tracker
<1>5. CASE Shutdown \/ UNCHANGED vars
  BY <1>5 DEF Shutdown, vars, tracker
<1> QED BY <1>1, <1>2, <1>3, <1>4, <1>5 DEF Next, Rest

\* The entry under the key of a call is its worker's from its start to its end.
LEMMA RegisteredNext ==
    ASSUME FreshIds, Inv, Registered, [Next]_vars
    PROVE  Registered'
<1> SUFFICES ASSUME NEW c \in Calls, call'[c].command, pc'[c] \in Enlisted
             PROVE  workers'[<<call'[c].seat, IdOf[c]>>] = c
  BY DEF Registered, Key
<1>0. \A d \in Calls \ {c} : IdOf[d] # IdOf[c]
  BY DEF FreshIds
<1>1. ASSUME NEW d \in Calls, CallStep(d) \/ Return(d)
      PROVE  workers'[<<call'[c].seat, IdOf[c]>>] = c
  <2> USE DEF Inv, TypeOK, Stages, Registered, Enlisted, Key, Goto, SeatOf
  <2>1. call' = call /\ \A e \in Calls \ {d} : pc'[e] = pc[e]
    BY <1>1 DEF CallStep, Register, Enlist, Count, BeginWork, Launch, Work, Conclude, Pop, Leave,
                FinishWork, Return, Proceed
  <2>2. <<call[d].seat, IdOf[d]>> \in Seats \X Ids /\ <<call[c].seat, IdOf[c]>> \in Seats \X Ids
    BY EngineAssumption DEF EngineAssumption, Ask
  <2>3. workers' = workers \/ \E w : workers' = [workers EXCEPT ![<<call[d].seat, IdOf[d]>>] = w]
    BY <1>1 DEF CallStep, Register, Enlist, Count, BeginWork, Launch, Work, Conclude, Pop, Leave,
                FinishWork, Return
  <2>4. CASE c # d
    <3> DEFINE key == <<call[c].seat, IdOf[c]>>
               other == <<call[d].seat, IdOf[d]>>
    <3>1. key # other /\ key \in Seats \X Ids /\ call'[c] = call[c]
      BY <1>0, <2>1, <2>2, <2>4
    <3>2. workers[key] = c
      BY <2>1, <2>4
    <3>3. DOMAIN workers = Seats \X Ids
      OBVIOUS
    <3>4. workers' = workers \/ \E w : workers' = [workers EXCEPT ![other] = w]
      BY <2>3
    <3> HIDE DEF key, other
    <3>5. workers'[key] = workers[key]
      BY <3>1, <3>3, <3>4
    <3> QED BY <3>1, <3>2, <3>5 DEF key
  <2>5. CASE c = d
    <3>1. CASE Enlist(d)
      BY <2>2, <2>5, <3>1 DEF Enlist
    <3>2. CASE Launch(d)
      BY <2>1, <2>5, <3>2 DEF Launch
    <3>3. CASE Register(d)
      BY <2>1, <2>5, <3>3 DEF Register
    <3>4. CASE Pop(d) \/ Leave(d) \/ FinishWork(d)
      BY <2>5, <3>4 DEF Pop, Leave, FinishWork
    <3>5. CASE Count(d) \/ BeginWork(d) \/ Work(d) \/ Conclude(d) \/ Return(d)
      <4>1. pc[c] \in Enlisted /\ workers' = workers /\ call' = call
        BY <2>5, <3>5 DEF Count, BeginWork, Proceed, Work, Conclude, Return
      <4> QED BY <4>1
    <3> QED BY <1>1, <3>1, <3>2, <3>3, <3>4, <3>5 DEF CallStep
  <2> QED BY <2>4, <2>5
<1>2. CASE UNCHANGED <<call, pc, workers>>
  BY <1>2 DEF Registered, Key
<1>3. ASSUME NEW k \in Clients, ClientStep(k)
      PROVE  UNCHANGED <<call, pc, workers>>
  BY <1>3 DEF ClientStep, Mark, Signal, ClientLeave, ClientFinishWork, Reply, JobBegins, JobEnds
<1>4. ASSUME NEW d \in Calls, NEW s \in Seats, NEW command \in BOOLEAN, Start(d, s, command)
      PROVE  workers'[<<call'[c].seat, IdOf[c]>>] = c
  BY <1>4 DEF Start, Goto, Inv, TypeOK, Registered, Enlisted, Key
<1>5. ASSUME NEW k \in Clients, NEW s \in Seats,
             \/ \E id \in Ids : Kill(k, s, id) \/ Finish(k, s, id)
             \/ \E job \in Jobs : Teardown(k, s, job)
      PROVE  UNCHANGED <<call, pc, workers>>
  BY <1>5, RequestIsOne DEF Request
<1>6. CASE Shutdown \/ UNCHANGED vars
  BY <1>2, <1>6 DEF Shutdown, vars
<1> QED BY <1>1, <1>2, <1>3, <1>4, <1>5, <1>6 DEF Next, Rest

\* The kill of an exec ends its record before it looks for the worker.
LEMMA KilledNext ==
    ASSUME FreshIds, Inv, Registered, Killed, [Next]_vars
    PROVE  Killed'
<1>1. \A c \in Calls : record[c] \in Ended => record'[c] \in Ended
  BY CallProgress
<1>2. ASSUME NEW c \in told
      PROVE  record'[c] \in Ended /\ (pc'[c] \in {"spawned", "running"} => c \in cancel')
  <2>1. c \in Calls /\ record[c] \in Ended /\ (pc[c] \in {"spawned", "running"} => c \in cancel)
    BY <1>2 DEF Inv, TypeOK, Killed
  <2>2. ASSUME Launch(c), StillRunning(c)
        PROVE  FALSE
    <3>1. PICK d \in Entry(SeatOf(c), IdOf[c]) : record[d] = "running"
      BY <2>2 DEF StillRunning
    <3>2. SeatOf(c) \in Seats
      BY <2>1 DEF Inv, TypeOK, SeatOf, Ask
    <3>3. d = c
      BY <2>1, <3>1, <3>2 DEF Entry, FreshIds, Inv, TypeOK
    <3> QED BY <2>1, <3>1, <3>3 DEF Ended
  <2>3. pc'[c] \in {"spawned", "running"} => c \in cancel
    <3>1. CASE pc'[c] = pc[c]
      BY <2>1, <3>1
    <3>2. CASE pc'[c] # pc[c] /\ pc'[c] \in {"spawned", "running"}
      BY <2>1, <2>2, <3>2, CallProgress DEF Work
    <3> QED BY <3>1, <3>2
  <2> QED BY <1>1, <2>1, <2>3, CallProgress
<1>3. ASSUME NEW k \in Clients, Signal(k)
      PROVE  Killed'
  <2> DEFINE s == client[k].seat
             id == Head(client[k].todo)
  <2>1. client[k].step = "signal" /\ client[k] \in Client /\ s \in Seats
    BY <1>3 DEF Signal, Inv, TypeOK, Client
  <2>2. PICK c \in Calls : IdOf[c] = id /\ record[c] \in Ended
    BY <2>1 DEF Killed
  <2>3. \A d \in Entry(s, id) : d = c /\ SeatOf(c) = s
    BY <2>1, <2>2 DEF Entry, FreshIds, Inv, TypeOK, Kept, SeatOf
  <2>4. \A j \in Clients : client'[j].step = "signal" =>
            client[j].step = "signal" /\ client'[j].todo = client[j].todo
    BY <1>3, <2>1, ClientMoves DEF Signal, Inv
  <2>5. UNCHANGED <<pc, record>> /\ told' = told \cup Entry(s, id)
        /\ cancel' = cancel \cup ({workers[<<s, id>>]} \cap Calls)
    BY <1>3 DEF Signal, tracker
  <2>6. ASSUME NEW d \in Entry(s, id), pc'[d] \in {"spawned", "running"}
        PROVE  d \in cancel'
    <3>1. d = c /\ Key(c) = <<s, id>> /\ call[c].command
      BY <2>2, <2>3, <2>5, <2>6 DEF Key, SeatOf, Inv, Stages
    <3>2. workers[<<s, id>>] = c
      BY <2>5, <2>6, <3>1 DEF Registered, Enlisted
    <3> QED BY <2>5, <3>1, <3>2
  <2>7. \A d \in told' : record'[d] \in Ended /\ (pc'[d] \in {"spawned", "running"} => d \in cancel')
    BY <1>2, <2>2, <2>3, <2>5, <2>6
  <2> QED BY <1>1, <2>4, <2>7 DEF Killed
<1>4. ASSUME NEW k \in Clients, Mark(k)
      PROVE  Killed'
  <2> DEFINE s == client[k].seat
             id == Head(client[k].todo)
  <2>1. client[k] \in Client /\ s \in Seats /\ told' = told
    BY <1>4 DEF Mark, Inv, TypeOK, Client
  <2>2. ASSUME client'[k].step = "signal"
        PROVE  \E c \in Calls : IdOf[c] = Head(client'[k].todo) /\ record'[c] \in Ended
    <3>1. Entry(s, id) # {} /\ client[k].todo # <<>> /\ record' = Terminated(s, id, client[k].verdict)
      BY <1>4, <2>2, ClientMoves DEF Mark, Inv
    <3>2. client'[k].todo = client[k].todo
      BY <1>4, <2>2, <3>1, ClientMoves DEF Mark, Inv
    <3>3. PICK c \in Calls : c \in Entry(s, id)
      BY <2>1, <3>1 DEF Entry, Inv, TypeOK
    <3>4. IdOf[c] = id /\ record[c] # "none" /\ call[c].seat = s
      BY <2>1, <3>3 DEF Entry, Inv, Kept
    <3>5. client[k].verdict \in Ended
      BY <2>1 DEF Client, Ended
    <3>6. record'[c] \in Ended
      BY <2>1, <3>1, <3>4, <3>5, TerminatedRecords DEF Inv, TypeOK, RecordStates, RunsOn, Ended
    <3> QED BY <3>2, <3>4, <3>6
  <2>3. \A j \in Clients \ {k} : client'[j] = client[j]
    BY <1>4, ClientMoves DEF Mark, Inv
  <2> QED BY <1>1, <1>2, <2>1, <2>2, <2>3 DEF Killed
<1>5. ASSUME told' = told,
             \A j \in Clients : client'[j].step = "signal" => client'[j] = client[j]
      PROVE  Killed'
  BY <1>1, <1>2, <1>5 DEF Killed
<1>6. ASSUME NEW k \in Clients, ClientStep(k), ~Signal(k), ~Mark(k)
      PROVE  told' = told /\ \A j \in Clients : client'[j].step = "signal" => client'[j] = client[j]
  <2>1. told' = told
    BY <1>6 DEF ClientStep, ClientLeave, ClientFinishWork, Reply, JobBegins, JobEnds
  <2>2. \/ client[k].todo # <<>> /\ NextId(k)
        \/ Drop(k)
        \/ \E step \in {"finish", "queued", "job"} : Turn(k, step)
    BY <1>6 DEF ClientStep, ClientLeave, ClientFinishWork, Reply, JobBegins, JobEnds, Inv, HasId
  <2> QED BY <2>1, <2>2, ClientMoves DEF Inv
<1>7. ASSUME NEW k \in Clients, NEW s \in Seats,
             \/ \E id \in Ids : Kill(k, s, id) \/ Finish(k, s, id)
             \/ \E job \in Jobs : Teardown(k, s, job)
      PROVE  told' = told /\ \A j \in Clients : client'[j].step = "signal" => client'[j] = client[j]
  <2>1. PICK ids \in Seq(Ids), verdict \in Ended, job \in AllJobs \cup {"none"} :
            Request(k, s, ids, verdict, job)
    BY <1>7, RequestIsOne
  <2> QED BY <2>1, RequestMoves DEF Inv
<1>8. ASSUME NEW d \in Calls, CallStep(d) \/ Return(d) \/ \E s \in Seats, command \in BOOLEAN : Start(d, s, command)
      PROVE  told' = told /\ client' = client
  BY <1>8 DEF CallStep, Register, Enlist, Count, BeginWork, Launch, Work, Conclude, Pop, Leave,
              FinishWork, Return, Start
<1>9. Shutdown \/ UNCHANGED vars => told' = told /\ client' = client
  BY DEF Shutdown, vars
<1> QED BY <1>3, <1>4, <1>5, <1>6, <1>7, <1>8, <1>9 DEF Next, Rest

-----------------------------------------------------------------------------
LEMMA Always == Spec => [](Inv /\ FlagFollows)
<1>1. Init => Inv /\ FlagFollows
  BY InitInv
<1>2. Inv /\ FlagFollows /\ [Next]_vars => (Inv /\ FlagFollows)'
  BY NextInv
<1> QED BY <1>1, <1>2, PTL DEF Spec

LEMMA KillInvAlways == ASSUME FreshIds PROVE Spec => []KillInv
<1>1. Init => KillInv
  BY DEF Init, KillInv, Registered, Killed, Enlisted, NoClient
<1>2. Inv /\ KillInv /\ [Next]_vars => KillInv'
  BY RegisteredNext, KilledNext DEF KillInv
<1> QED BY <1>1, <1>2, Always, PTL DEF Spec

(* Every variable of the engine, the tracker and the clients keeps its     *)
(* type.                                                                   *)
THEOREM EngineTypes == Spec => []TypeOK
<1>1. Inv => TypeOK
  BY DEF Inv
<1> QED BY <1>1, Always, PTL

(* The busy flag of a seat follows its execs (_maybe_idle, begin_work and  *)
(* finish_work under _state_lock), however starts, kills and finishes      *)
(* interleave and whatever ids they use.                                   *)
THEOREM SeatFollowsExecs == Spec => []BusyIffRunning
<1>1. ASSUME Inv, FlagFollows, NEW s \in Seats, Settled(s)
      PROVE  /\ seat[s] = "busy" => Active(s) > 0
             /\ seat[s] = "ready" /\ s \notin rebuilt => Active(s) = 0
  <2>1. Active(s) \in Nat /\ (Active(s) = 0 <=> \A c \in Calls : ~RunsOn(c, s))
    BY <1>1, ActiveCounts DEF Inv
  <2>2. \A c \in Calls : call[c].seat = s => pc[c] \notin Starting \cup {"pop", "leave", "finish"}
    BY <1>1 DEF Settled, SeatOf, Starting
  <2>3. ~CallLooks(s) /\ ~CallIdles(s)
    BY <2>2 DEF CallLooks, CallIdles
  <2>4. ~ClientLeaves(s) /\ ~ClientIdles(s)
    BY <1>1 DEF Settled, ClientLeaves, ClientIdles
  <2>5. seat[s] = "busy" => Active(s) # 0
    BY <1>1, <2>1, <2>3, <2>4 DEF FlagFollows, BusyHasReason
  <2>6. seat[s] = "ready" /\ s \notin rebuilt => \A c \in Calls : ~RunsOn(c, s)
    BY <1>1, <2>2 DEF FlagFollows, ReadyIsIdle, RunsOn
  <2> QED BY <2>1, <2>5, <2>6
<1>2. Inv /\ FlagFollows => BusyIffRunning
  BY <1>1 DEF BusyIffRunning
<1> QED BY <1>2, Always, PTL

(* A running command always has the thread that ends it and, once it is    *)
(* registered, the worker entry by which a kill finds it (_workers).       *)
THEOREM RunningHasWorker == ASSUME FreshIds PROVE Spec => []RunningIsServed
<1>1. Inv /\ KillInv => RunningIsServed
  <2>1. ASSUME Inv, KillInv, NEW c \in Running, call[c].command
        PROVE  /\ pc[c] \notin {"pop", "leave", "finish", "over"}
               /\ pc[c] \notin {"enlist", "unlaunched"} => workers[Key(c)] = c
    <3>1. c \in Calls /\ record[c] = "running"
      BY <2>1 DEF Running, RunningOn, Inv, TypeOK
    <3>2. pc[c] \notin {"idle", "register", "pop", "leave", "finish", "over"}
      BY <2>1, <3>1 DEF Inv, Stages
    <3>3. pc[c] \in Places
      BY <2>1, <3>1 DEF Inv, TypeOK
    <3> QED BY <2>1, <3>1, <3>2, <3>3 DEF KillInv, Registered, Enlisted, Places
  <2> QED BY <2>1 DEF RunningIsServed
<1> QED BY <1>1, Always, KillInvAlways, PTL

(* A kill that has returned has told the worker of a command that runs     *)
(* (_signal_worker), whenever it came.                                     *)
THEOREM KillIsHeard == ASSUME FreshIds PROVE Spec => []KillReachesWorker
<1>1. KillInv => KillReachesWorker
  BY DEF KillInv, Killed, KillReachesWorker
<1> QED BY <1>1, KillInvAlways, PTL

(* A command whose kill has returned before it ran is never run: _launch   *)
(* and _run_worker look at the record and the event last.                  *)
THEOREM KilledNeverRuns == ASSUME FreshIds PROVE Spec => NeverRunsAfterKill
<1>1. ASSUME Inv, KillInv, [Next]_vars, NEW c \in told, pc[c] # "running", pc'[c] = "running"
      PROVE  FALSE
  <2>1. c \in Calls /\ (pc[c] = "spawned" => c \in cancel)
    BY <1>1 DEF Inv, TypeOK, KillInv, Killed
  <2>2. (Launch(c) /\ StillRunning(c)) \/ (Work(c) /\ c \notin cancel)
    BY <1>1, <2>1, CallProgress
  <2>3. CASE Launch(c)
    BY <1>1, <2>1, <2>3 DEF Launch, Goto, Inv, TypeOK
  <2> QED BY <2>1, <2>2, <2>3 DEF Work
<1>2. Inv /\ KillInv /\ [Next]_vars => [\A c \in told : pc[c] # "running" => pc'[c] # "running"]_vars
  BY <1>1
<1> QED BY <1>2, Always, KillInvAlways, PTL DEF Spec, NeverRunsAfterKill

=============================================================================
