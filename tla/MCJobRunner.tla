---------------------------- MODULE MCJobRunner ----------------------------
(* Instances of JobRunner for TLC: every constant is given by the .cfg. *)
EXTENDS JobRunner
=============================================================================
