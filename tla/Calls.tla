-------------------------------- MODULE Calls --------------------------------
(***************************************************************************)
(* What threads that share one client of a server are promised, whatever   *)
(* happens to connections, requests, replies and the server:               *)
(*                                                                         *)
(*   - one call is under way at a time;                                    *)
(*   - the server executes a call at most once, after it was made, though  *)
(*     perhaps when its caller has given it up;                            *)
(*   - a result is returned of a call that was executed, and how a call    *)
(*     ended is not taken back.                                            *)
(*                                                                         *)
(* Rpc.tla implements this specification (see Rpc!CallPromise).            *)
(***************************************************************************)
EXTENDS Naturals

CONSTANTS
    Callers,    \* threads that make one call each
    Failures    \* what a caller is told when it gets no result

VARIABLES
    made,       \* the callers that have made their call
    times,      \* how often the call of each was executed
    told        \* how it ended: "none" while it is under way

vars == <<made, times, told>>

Init ==
    /\ made = {}
    /\ times = [c \in Callers |-> 0]
    /\ told = [c \in Callers |-> "none"]

Make(c) ==
    /\ c \notin made
    /\ \A d \in made : told[d] # "none"
    /\ made' = made \cup {c}
    /\ UNCHANGED <<times, told>>

Execute(c) ==
    /\ c \in made
    /\ times[c] = 0
    /\ times' = [times EXCEPT ![c] = 1]
    /\ UNCHANGED <<made, told>>

Return(c) ==
    /\ c \in made
    /\ told[c] = "none"
    /\ times[c] = 1
    /\ told' = [told EXCEPT ![c] = "ok"]
    /\ UNCHANGED <<made, times>>

Fail(c, failure) ==
    /\ c \in made
    /\ told[c] = "none"
    /\ told' = [told EXCEPT ![c] = failure]
    /\ UNCHANGED <<made, times>>

Next ==
    \E c \in Callers :
        \/ Make(c) \/ Execute(c) \/ Return(c)
        \/ \E failure \in Failures : Fail(c, failure)

Spec == Init /\ [][Next]_vars
=============================================================================
