---------------------------- MODULE Reservations ----------------------------
(***************************************************************************)
(* What the pool promises the agents that queue for a seat, whatever the   *)
(* scheduler does to provision, reset, evict, release or recover seats:    *)
(*                                                                         *)
(*   - requests are served in the order they were submitted;               *)
(*   - a request is claimed for a seat no request was ever claimed for, so *)
(*     a VM an agent worked on is never handed to another;                 *)
(*   - a claimed request holds its lease until both end in one step, with  *)
(*     a final status, so no request is left dangling and none comes back. *)
(*                                                                         *)
(* Scheduler.tla implements this specification (see Scheduler!Promise).    *)
(***************************************************************************)
EXTENDS Integers

CONSTANTS
    Requests,   \* request ids, in the order submission hands them out
    Seats,      \* seat ids
    NoSeat,     \* not a seat
    Finals      \* the statuses a request ends with

VARIABLES
    status,     \* of each request
    holder,     \* the seat a request was claimed for
    leased      \* the requests that hold a lease

vars == <<status, holder, leased>>

Init ==
    /\ status = [r \in Requests |-> "absent"]
    /\ holder = [r \in Requests |-> NoSeat]
    /\ leased = {}

\* Ids are handed out upwards.
Enqueue(r) ==
    /\ status[r] = "absent"
    /\ \A q \in Requests : status[q] = "absent" => r <= q
    /\ status' = [status EXCEPT ![r] = "waiting"]
    /\ UNCHANGED <<holder, leased>>

Claim(r, s) ==
    /\ status[r] = "waiting"
    /\ \A q \in Requests : status[q] = "waiting" => r <= q
    /\ \A q \in Requests : holder[q] # s
    /\ status' = [status EXCEPT ![r] = "claimed"]
    /\ holder' = [holder EXCEPT ![r] = s]
    /\ leased' = leased \cup {r}

Finish(r, final) ==
    /\ r \in leased
    /\ status' = [status EXCEPT ![r] = final]
    /\ leased' = leased \ {r}
    /\ UNCHANGED holder

Withdraw(r) ==
    /\ status[r] = "waiting"
    /\ \E final \in Finals : status' = [status EXCEPT ![r] = final]
    /\ UNCHANGED <<holder, leased>>

Next ==
    \E r \in Requests :
        \/ Enqueue(r) \/ Withdraw(r)
        \/ \E s \in Seats : Claim(r, s)
        \/ \E final \in Finals : Finish(r, final)

Spec == Init /\ [][Next]_vars

=============================================================================
