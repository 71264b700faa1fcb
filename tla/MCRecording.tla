---------------------------- MODULE MCRecording ----------------------------
(* Instances of Recording for TLC. *)
EXTENDS Recording, TLC

\* Sessions differ only by name, and so do requests.
Symmetry == Permutations(Sessions) \cup Permutations(Calls)
=============================================================================
