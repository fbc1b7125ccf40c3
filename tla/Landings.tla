------------------------------ MODULE Landings ------------------------------
(***************************************************************************)
(* What an export of a branch promises to those who share its destination, *)
(* whatever is bundled, fetched, checked and pushed to do it, and whatever *)
(* the guest does to the branch meanwhile:                                 *)
(*                                                                         *)
(*   - one tip is exported, one the branch had while the export ran;       *)
(*   - it lands only when it was approved, and takes no commit away;       *)
(*   - it is reported as landed only when it is what the remote has, or    *)
(*     the export ends without a report, at any moment.                    *)
(*                                                                         *)
(* Export.tla implements this specification (see Export!ExportPromise).    *)
(***************************************************************************)
EXTENDS Sequences, SequencesExt

CONSTANTS
    Seats,
    NoClone,    \* the branch of a seat without a clone
    Approved    \* the histories the gate lets through

VARIABLES
    branch,     \* per seat, its history; what guests do to it is theirs
    remote,     \* the history at the destination
    export,     \* the export under way, if any
    told        \* per seat, the history last reported as landed

vars == <<branch, remote, export, told>>

Init ==
    /\ branch = [s \in Seats |-> NoClone]
    /\ remote = <<>>
    /\ export = {}
    /\ told = [s \in Seats |-> <<>>]

Guests == UNCHANGED <<remote, export, told>>

OthersPush ==
    /\ IsPrefix(remote, remote')
    /\ UNCHANGED <<branch, export, told>>

\* A new seat, or a new export, starts without a report.
Forget(s) ==
    /\ export = {}
    /\ told' = [told EXCEPT ![s] = <<>>]
    /\ UNCHANGED <<remote, export>>

Offer(s) ==
    /\ export = {}
    /\ export' = {[seat |-> s, tip |-> branch[s], stage |-> "offered"]}
    /\ UNCHANGED <<branch, remote, told>>

Approve ==
    \E e \in export :
        /\ e.stage = "offered"
        /\ e.tip \in Approved
        /\ export' = {[e EXCEPT !.stage = "approved"]}
        /\ UNCHANGED <<branch, remote, told>>

\* The answer may be lost.
Land ==
    \E e \in export :
        /\ e.stage = "approved"
        /\ IsPrefix(remote, e.tip)
        /\ remote' = e.tip
        /\ export' = {[e EXCEPT !.stage = "sent"]} \/ export' = {}
        /\ UNCHANGED <<branch, told>>

Report ==
    \E e \in export :
        /\ e.stage \in {"approved", "sent"}
        /\ remote = e.tip
        /\ told' = [told EXCEPT ![e.seat] = e.tip]
        /\ export' = {}
        /\ UNCHANGED <<branch, remote>>

Abandon ==
    /\ export' = {}
    /\ UNCHANGED <<branch, remote, told>>

Next ==
    \/ Guests \/ OthersPush
    \/ \E s \in Seats : Forget(s) \/ Offer(s)
    \/ Approve \/ Land \/ Report \/ Abandon

Spec == Init /\ [][Next]_vars
=============================================================================
