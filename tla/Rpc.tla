--------------------------------- MODULE Rpc ---------------------------------
(***************************************************************************)
(* One DaemonClient (client.py) shared by several caller threads, and the  *)
(* connection handlers of the daemon (daemon.py).  A connection is a Unix  *)
(* stream socket: closing an end with a request unread resets the other    *)
(* end, closing it otherwise is an end of file, and a write to an end that *)
(* is shut or gone is a broken pipe.                                       *)
(***************************************************************************)
EXTENDS Naturals, Sequences, FiniteSets

CONSTANTS Callers,         \* threads that make one call each
          Nobody,          \* the client's lock is free
          MaxConnections,  \* connections the daemon serves at a time
          MaxRestarts      \* bound: how often the daemon starts again

ASSUME RpcAssumption ==
    /\ Nobody \notin Callers
    /\ MaxConnections \in Nat \ {0}
    /\ MaxRestarts \in Nat

VARIABLES holder,    \* the caller that holds the client's lock
          step,      \* where its call is
          attempt,   \* 1, or 2 for the retry
          cur,       \* the client's connection, 0 for none
          conns,     \* every connection made, in order
          callOf,    \* the caller of every request id issued, in order
          outcome,   \* how a caller's call ended
          ran,       \* how often the daemon executed a caller's request
          stage,     \* the daemon process
          restarts

clientVars == <<holder, step, attempt, cur, outcome>>
rpcVars == <<clientVars, conns, callOf, ran, stage, restarts>>

\* The ids issued, and 0 for none.
Ids == 0..Len(callOf)

Conn == [cli: {"open", "shut", "closed"},
         srv: {"backlog", "open", "ending", "shut", "gone"},
         inbox: Ids, work: Ids, did: BOOLEAN, out: Ids, reset: BOOLEAN]

NewConn == [cli |-> "open", srv |-> "backlog", inbox |-> 0, work |-> 0,
            did |-> FALSE, out |-> 0, reset |-> FALSE]

RpcTypeOK ==
    /\ holder \in Callers \cup {Nobody}
    /\ step \in {"idle", "connect", "send", "recv"}
    /\ attempt \in 1..2
    /\ cur \in 0..Len(conns)
    /\ conns \in Seq(Conn)
    /\ callOf \in Seq(Callers)
    /\ outcome \in [Callers -> {"none", "ok", "not_running", "timeout", "bad_response"}]
    /\ ran \in [Callers -> Nat]
    /\ stage \in {"up", "stopping", "draining", "down"}
    /\ restarts \in 0..MaxRestarts

RpcInit ==
    /\ holder = Nobody
    /\ step = "idle"
    /\ attempt = 1
    /\ cur = 0
    /\ conns = <<>>
    /\ callOf = <<>>
    /\ outcome = [c \in Callers |-> "none"]
    /\ ran = [c \in Callers |-> 0]
    /\ stage = "up"
    /\ restarts = 0

-----------------------------------------------------------------------------
(***************************************************************************)
(* The client.  call() holds the lock for the whole exchange, the retry    *)
(* included.                                                               *)
(***************************************************************************)
Acquire(c) ==
    /\ holder = Nobody
    /\ outcome[c] = "none"
    /\ holder' = c
    /\ attempt' = 1
    /\ step' = IF cur = 0 THEN "connect" ELSE "send"
    /\ UNCHANGED <<cur, outcome, conns, callOf, ran, stage, restarts>>

Finish(o) ==
    /\ outcome' = [outcome EXCEPT ![holder] = o]
    /\ holder' = Nobody
    /\ step' = "idle"
    /\ UNCHANGED attempt

Connect ==
    /\ step = "connect"
    /\ stage = "up"
    /\ conns' = Append(conns, NewConn)
    /\ cur' = Len(conns) + 1
    /\ step' = "send"
    /\ UNCHANGED <<holder, attempt, outcome, callOf, ran, stage, restarts>>

\* The last of the bounded connect attempts failed.
ConnectFails ==
    /\ step = "connect"
    /\ stage # "up"
    /\ Finish("not_running")
    /\ UNCHANGED <<cur, conns, callOf, ran, stage, restarts>>

\* _close_locked
CloseClient ==
    /\ conns' = [conns EXCEPT ![cur].cli = "closed"]
    /\ cur' = 0

\* Mutant: tried again as long as it breaks.
BrokenForEver ==
    /\ CloseClient
    /\ attempt' = attempt + 1
    /\ step' = "connect"
    /\ UNCHANGED <<holder, outcome>>

\* BrokenPipeError or ConnectionResetError: closed, and tried once more.
Broken ==
    /\ CloseClient
    /\ \/ /\ attempt = 1
          /\ attempt' = 2
          /\ step' = "connect"
          /\ UNCHANGED <<holder, outcome>>
       \/ /\ attempt = 2
          /\ Finish("not_running")

\* Every attempt takes a request id of its own.
Send ==
    /\ step = "send"
    /\ callOf' = Append(callOf, holder)
    /\ IF conns[cur].cli = "open" /\ conns[cur].srv \in {"backlog", "open", "ending"}
       THEN /\ conns' = [conns EXCEPT ![cur].inbox = Len(callOf) + 1]
            /\ step' = "recv"
            /\ UNCHANGED <<holder, attempt, cur, outcome>>
       ELSE Broken
    /\ UNCHANGED <<ran, stage, restarts>>

\* Mutant: an end of file is retried like a broken pipe.
ReceiveRetrying ==
    /\ step = "recv"
    /\ LET k == conns[cur] IN
       \/ /\ k.out = Len(callOf)
          /\ conns' = [conns EXCEPT ![cur].out = 0]
          /\ Finish("ok")
          /\ UNCHANGED cur
       \/ /\ k.out \notin {0, Len(callOf)}
          /\ CloseClient
          /\ Finish("bad_response")
       \/ /\ k.out = 0
          /\ k.reset \/ k.srv \in {"shut", "gone"} \/ k.cli = "shut"
          /\ Broken
    /\ UNCHANGED <<callOf, ran, stage, restarts>>

\* Mutant: a connection that is shut here does not wake its reader.
ReceiveAsleep ==
    /\ step = "recv"
    /\ LET k == conns[cur] IN
       \/ /\ k.out = Len(callOf)
          /\ conns' = [conns EXCEPT ![cur].out = 0]
          /\ Finish("ok")
          /\ UNCHANGED cur
       \/ /\ k.out \notin {0, Len(callOf)}
          /\ CloseClient
          /\ Finish("bad_response")
       \/ /\ k.out = 0
          /\ k.reset
          /\ Broken
       \/ /\ k.out = 0
          /\ ~k.reset
          /\ k.srv \in {"shut", "gone"}
          /\ CloseClient
          /\ Finish("not_running")
    /\ UNCHANGED <<callOf, ran, stage, restarts>>

Receive ==
    /\ step = "recv"
    /\ LET k == conns[cur] IN
       \/ /\ k.out = Len(callOf)
          /\ conns' = [conns EXCEPT ![cur].out = 0]
          /\ Finish("ok")
          /\ UNCHANGED cur
       \/ /\ k.out \notin {0, Len(callOf)}
          /\ CloseClient
          /\ Finish("bad_response")
       \/ /\ k.out = 0
          /\ k.reset
          /\ Broken
       \/ /\ k.out = 0
          /\ ~k.reset
          /\ k.srv \in {"shut", "gone"} \/ k.cli = "shut"
          /\ CloseClient
          /\ Finish("not_running")
    /\ UNCHANGED <<callOf, ran, stage, restarts>>

CallTimeout ==
    /\ step = "recv"
    /\ CloseClient
    /\ Finish("timeout")
    /\ UNCHANGED <<callOf, ran, stage, restarts>>

\* DaemonClient.shutdown, from a thread that does not hold the lock.
ShutdownClient ==
    /\ cur # 0
    /\ conns[cur].cli = "open"
    /\ conns' = [conns EXCEPT ![cur].cli = "shut"]
    /\ UNCHANGED <<clientVars, callOf, ran, stage, restarts>>

-----------------------------------------------------------------------------
(***************************************************************************)
(* The daemon's accept loop and connection handlers.                       *)
(***************************************************************************)
Gone(k) ==
    [k EXCEPT !.srv = "gone", !.work = 0,
              !.reset = k.reset \/ k.inbox # 0 \/ k.srv = "backlog"]

Served == {i \in DOMAIN conns : conns[i].srv \in {"open", "ending", "shut"}}

ServerOnly == UNCHANGED <<clientVars, callOf, restarts>>

\* At capacity the new connection is closed at once.
Accept(i) ==
    /\ stage = "up"
    /\ conns[i].srv = "backlog"
    /\ conns' = [conns EXCEPT ![i] =
           IF Cardinality(Served) < MaxConnections THEN [@ EXCEPT !.srv = "open"]
           ELSE [@ EXCEPT !.srv = "gone", !.reset = conns[i].reset \/ conns[i].inbox # 0]]
    /\ ServerOnly /\ UNCHANGED <<ran, stage>>

\* readline returns a request, also one that was queued before the daemon
\* shut the connection down.
Take(i) ==
    /\ conns[i].srv \in {"open", "shut"}
    /\ conns[i].work = 0
    /\ conns[i].inbox # 0
    /\ conns' = [conns EXCEPT ![i].work = conns[i].inbox, ![i].inbox = 0]
    /\ ServerOnly /\ UNCHANGED <<ran, stage>>

\* _handle_line dispatches the request: its effect on the daemon's state.
Execute(i) ==
    /\ conns[i].work # 0
    /\ ~conns[i].did
    /\ conns' = [conns EXCEPT ![i].did = TRUE]
    /\ ran' = [ran EXCEPT ![callOf[conns[i].work]] = @ + 1]
    /\ ServerOnly /\ UNCHANGED stage

\* The reply is written if both ends are still open; the loop then looks at
\* the stop event.
Reply(i) ==
    /\ conns[i].work # 0
    /\ conns[i].did
    /\ LET open == conns[i].cli = "open" /\ conns[i].srv = "open" IN
       conns' = [conns EXCEPT ![i].work = 0, ![i].did = FALSE,
                              ![i].out = IF open THEN conns[i].work ELSE @,
                              ![i].srv = IF open /\ stage = "up" THEN @ ELSE "ending"]
    /\ ServerOnly /\ UNCHANGED <<ran, stage>>

\* The read timed out, or saw the end of the stream.
StopReading(i) ==
    /\ conns[i].srv \in {"open", "shut"}
    /\ conns[i].work = 0
    /\ conns[i].inbox = 0
    /\ conns' = [conns EXCEPT ![i].srv = "ending"]
    /\ ServerOnly /\ UNCHANGED <<ran, stage>>

CloseHandler(i) ==
    /\ conns[i].srv = "ending"
    /\ conns' = [conns EXCEPT ![i] = Gone(@)]
    /\ ServerOnly /\ UNCHANGED <<ran, stage>>

\* request_stop closes the listening socket, with what waits in its backlog.
StopServer ==
    /\ stage = "up"
    /\ stage' = "stopping"
    /\ conns' = [i \in DOMAIN conns |-> IF conns[i].srv = "backlog" THEN Gone(conns[i]) ELSE conns[i]]
    /\ ServerOnly /\ UNCHANGED ran

\* shutdown() shuts every connection down under its handler.
ShutConnections ==
    /\ stage = "stopping"
    /\ stage' = "draining"
    /\ conns' = [i \in DOMAIN conns |-> IF conns[i].srv = "open" THEN [conns[i] EXCEPT !.srv = "shut"] ELSE conns[i]]
    /\ ServerOnly /\ UNCHANGED ran

\* The process ends after its drain, or is killed: handlers die with it.
ProcessEnds ==
    /\ stage # "down"
    /\ stage' = "down"
    /\ conns' = [i \in DOMAIN conns |-> IF conns[i].srv = "gone" THEN conns[i] ELSE Gone(conns[i])]
    /\ ServerOnly /\ UNCHANGED ran

Restart ==
    /\ stage = "down"
    /\ restarts < MaxRestarts
    /\ stage' = "up"
    /\ restarts' = restarts + 1
    /\ UNCHANGED <<clientVars, conns, callOf, ran>>

ClientStep == Connect \/ ConnectFails \/ Send \/ Receive

RpcNext ==
    \/ \E c \in Callers : Acquire(c)
    \/ ClientStep
    \/ CallTimeout
    \/ ShutdownClient
    \/ \E i \in DOMAIN conns :
          Accept(i) \/ Take(i) \/ Execute(i) \/ Reply(i) \/ StopReading(i) \/ CloseHandler(i)
    \/ StopServer
    \/ ShutConnections
    \/ ProcessEnds
    \/ Restart

RpcSpec == RpcInit /\ [][RpcNext]_rpcVars /\ WF_rpcVars(ClientStep)

-----------------------------------------------------------------------------
(* The retry never makes the daemon execute a caller's request twice: a    *)
(* request that was read is answered or ends in an end of file, and only a *)
(* request that was never read is sent again (call).                       *)
AtMostOnce == \A c \in Callers : ran[c] <= 1

(* A call that returns a result was executed, once, and no call is handed  *)
(* the reply of another one, although a timed-out request may still be     *)
(* running (_call_locked: "Never accept a response that is not the one we  *)
(* asked for").                                                            *)
RepliesAreOwn ==
    \A c \in Callers :
        /\ outcome[c] = "ok" => ran[c] = 1
        /\ outcome[c] # "bad_response"

(* Both: what a caller is told of its call is what the daemon did of it.   *)
CallsAreExact == AtMostOnce /\ RepliesAreOwn

Remote == INSTANCE Calls WITH
    Failures <- {"not_running", "timeout"},
    made <- {c \in Callers : c = holder \/ outcome[c] # "none"},
    times <- ran, told <- outcome

(* Calls are served as if by one server that executes each at most once:   *)
(* no request is executed that was not made, or twice, one that timed out  *)
(* may be executed late but answers nobody, a result is returned of what   *)
(* was executed, and no call ends in a mismatched response (call,          *)
(* _call_locked).                                                          *)
CallPromise == Remote!Spec

(* shutdown() releases a caller blocked in its read whatever the daemon    *)
(* does, without waiting for the timeout.                                  *)
ShutdownUnblocks ==
    \A i \in 1..(2 * Cardinality(Callers)) :
        (cur = i /\ step = "recv" /\ conns[i].cli = "shut") ~> (step # "recv" \/ cur # i)
=============================================================================
