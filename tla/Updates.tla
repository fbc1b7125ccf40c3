------------------------------- MODULE Updates -------------------------------
(***************************************************************************)
(* What threads that change parts of one document are promised, whatever   *)
(* is read, written and locked to do it:                                   *)
(*                                                                         *)
(*   - a change takes effect at once, as a whole, on the document as it is *)
(*     then, so that it takes no other thread's change away;               *)
(*   - it is refused only if that document would not be accepted with it;  *)
(*   - a crash forgets changes that have not taken effect, and no other.   *)
(*                                                                         *)
(* Settings.tla implements this specification (see Settings!UpdatePromise).*)
(***************************************************************************)
CONSTANTS
    Threads,
    Changes,    \* functions from some of the document's keys to values
    First,      \* the document at the start
    Accepted    \* the documents that may be written

VARIABLES
    document,
    pending     \* per thread, the change it has asked for, if any

vars == <<document, pending>>

Init ==
    /\ document = First
    /\ pending = [t \in Threads |-> {}]

With(change) ==
    [k \in DOMAIN document |-> IF k \in DOMAIN change THEN change[k] ELSE document[k]]

Ask(t, change) ==
    /\ pending[t] = {}
    /\ pending' = [pending EXCEPT ![t] = {change}]
    /\ UNCHANGED document

Commit(t) ==
    \E change \in pending[t] :
        /\ With(change) \in Accepted
        /\ document' = With(change)
        /\ pending' = [pending EXCEPT ![t] = {}]

Refuse(t) ==
    \E change \in pending[t] :
        /\ With(change) \notin Accepted
        /\ pending' = [pending EXCEPT ![t] = {}]
        /\ UNCHANGED document

Forget ==
    /\ pending' = [t \in Threads |-> {}]
    /\ UNCHANGED document

Next ==
    \/ \E t \in Threads :
        \/ \E change \in Changes : Ask(t, change)
        \/ Commit(t) \/ Refuse(t)
    \/ Forget

Spec == Init /\ [][Next]_vars
=============================================================================
