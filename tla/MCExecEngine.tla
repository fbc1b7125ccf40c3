----------------------------- MODULE MCExecEngine -----------------------------
(* Instances of ExecEngine for TLC: the other constants are in the .cfg files. *)
EXTENDS ExecEngine, TLC

CONSTANTS c1, c2, a, b, k1, k2

\* No two calls use the same id.
OwnIds == [c \in {c1, c2} |-> IF c = c1 THEN a ELSE b]

\* The clients are alike, and so are the calls, each with its own id.
Alike == Permutations({k1, k2}) \cup {[x \in {c1, c2, a, b} |->
             CASE x = c1 -> c2 [] x = c2 -> c1 [] x = a -> b [] OTHER -> a]}

=============================================================================
