--------------------------- MODULE MCHostNotices ---------------------------
(* Instances of HostNotices for TLC: every constant is given by the .cfg. *)
EXTENDS HostNotices
=============================================================================
