---------------------------- MODULE MCSummaries ----------------------------
(* Instances of Summaries for TLC. *)
EXTENDS Summaries, TLC

\* Rows, jobs and requests differ only by name.
Symmetry == Permutations(Summaries) \cup Permutations(Jobs) \cup Permutations(Requests)
=============================================================================
