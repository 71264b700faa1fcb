----------------------------- MODULE MCRefunds -----------------------------
(* Instances of Refunds for TLC. *)
EXTENDS Refunds, TLC

CONSTANTS r1, r2, l1, l2, l3

\* Two lines of one request, one of another.
TwoAndOne == l1 :> r1 @@ l2 :> r1 @@ l3 :> r2

\* Batches differ only by name.
Symmetry == Permutations(Batches)
=============================================================================
