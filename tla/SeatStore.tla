------------------------------ MODULE SeatStore ------------------------------
(***************************************************************************)
(* The durable tables of omavroom/state.py: seats, the request queue and   *)
(* leases, with the queries and row updates the scheduler composes into    *)
(* transactions.  One SQLite transaction (BEGIN IMMEDIATE) is one step of  *)
(* the modules that extend this one.                                       *)
(*                                                                         *)
(* Abstractions.  The tables hold one seat type: every loop and count of   *)
(* the scheduler is per type.  Row ids are allocated upwards and never     *)
(* reused (AUTOINCREMENT), so MaxSeatRows and MaxRequests bound a history, *)
(* not a pool.  A VM reference is the seat's unique name, so a row only    *)
(* says whether vm_name is recorded.  A lease is created in the            *)
(* transaction that claims its request, for that request's seat, so lease  *)
(* rows are indexed by request.  A time is kept only as "is the lease      *)
(* dead": last_heartbeat outside the heartbeat window.                     *)
(***************************************************************************)
EXTENDS Integers, FiniteSets

CONSTANTS
    MaxSeatRows,    \* bound: seat rows ever inserted
    MaxRequests,    \* bound: requests ever submitted
    Images,         \* golden images a seat can be made from
    DefaultImage    \* the seat type's configured image

ASSUME StoreAssumption ==
    /\ MaxSeatRows \in Nat
    /\ MaxRequests \in Nat
    /\ DefaultImage \in Images

Seats == 1..MaxSeatRows
Requests == 1..MaxRequests

\* No seat recorded on a queue row (seat_id IS NULL).
NoSeat == 0

SeatStates == {"off", "queued", "provisioning", "ready", "busy",
               "resetting", "releasing", "held", "error"}

Occupying == SeatStates \ {"off", "error"}

TerminalStatuses == {"done", "cancelled", "expired", "failed"}

RequestStatuses == {"waiting", "claimed"} \cup TerminalStatuses

\* "absent" is a row id, or a request id, not inserted yet.
SeatRow == [state    : SeatStates \cup {"absent"},
            vm       : BOOLEAN,                       \* vm_name is recorded
            image    : Images,
            intent   : BOOLEAN,                       \* export_repo is recorded
            pending  : {"none", "release", "reset"},  \* pending_action
            export   : BOOLEAN,                       \* pending_export, with a repo
            status   : TerminalStatuses \cup {"null"},\* pending_request_status
            attempts : Nat]

QueueRow == [status : RequestStatuses \cup {"absent"},
             image  : Images,
             seat   : Seats \cup {NoSeat}]

LeaseStates == {"absent", "fresh", "stale", "released"}

VARIABLES seat, request, lease

tables == <<seat, request, lease>>

StoreTypeOK ==
    /\ seat \in [Seats -> SeatRow]
    /\ request \in [Requests -> QueueRow]
    /\ lease \in [Requests -> LeaseStates]

AbsentSeat == [state |-> "absent", vm |-> FALSE, image |-> DefaultImage,
               intent |-> FALSE, pending |-> "none", export |-> FALSE,
               status |-> "null", attempts |-> 0]

AbsentRequest == [status |-> "absent", image |-> DefaultImage, seat |-> NoSeat]

StoreInit ==
    /\ seat = [s \in Seats |-> AbsentSeat]
    /\ request = [r \in Requests |-> AbsentRequest]
    /\ lease = [r \in Requests |-> "absent"]

-----------------------------------------------------------------------------
(* Queries. *)

InState(states) == {s \in Seats : seat[s].state \in states}

CountOccupying == Cardinality(InState(Occupying))

\* The unreleased lease of a seat, as the set of the requests it belongs to.
ActiveLease(s) == {r \in Requests : request[r].seat = s /\ lease[r] \in {"fresh", "stale"}}

\* Requests that ever referenced the seat, whatever became of them.
RequestsForSeat(s) == {r \in Requests : request[r].seat = s}

\* Mutant: no ORDER BY id.
NextWaitingUnordered(r) == request[r].status = "waiting"

\* r is the head of the FIFO queue.
NextWaiting(r) ==
    /\ request[r].status = "waiting"
    /\ \A q \in Requests : request[q].status = "waiting" => r <= q

\* The first id AUTOINCREMENT has not handed out.
NextSeatId(s) ==
    /\ seat[s].state = "absent"
    /\ \A t \in Seats : seat[t].state = "absent" => s <= t

NextRequestId(r) ==
    /\ request[r].status = "absent"
    /\ \A q \in Requests : request[q].status = "absent" => r <= q

-----------------------------------------------------------------------------
(* Row values and updates. *)

NewRow(image) == [AbsentSeat EXCEPT !.state = "queued", !.image = image]

\* A row closed to off keeps no VM reference.
OffRow(row) == [row EXCEPT !.state = "off", !.vm = FALSE]

\* ... and, on the release paths, no pending intent either.
ClosedRow(row) == [row EXCEPT !.state = "off", !.vm = FALSE, !.pending = "none",
                              !.export = FALSE, !.status = "null"]

UpdateSeat(s, row) == seat' = [seat EXCEPT ![s] = row]

\* Scheduler._close_lease: release the seat's active lease, if any, and move
\* its request to the given status unless that status is null.
CloseLease(s, status) ==
    /\ lease' = [r \in Requests |->
                    IF r \in ActiveLease(s) THEN "released" ELSE lease[r]]
    /\ request' = [r \in Requests |->
                    IF r \in ActiveLease(s) /\ status # "null"
                    THEN [request[r] EXCEPT !.status = status] ELSE request[r]]

\* The claim half of an assignment: the request is claimed for the seat and
\* its lease is created fresh.
ClaimFor(r, s) ==
    /\ request' = [request EXCEPT ![r] = [@ EXCEPT !.status = "claimed", !.seat = s]]
    /\ lease' = [lease EXCEPT ![r] = "fresh"]

=============================================================================
