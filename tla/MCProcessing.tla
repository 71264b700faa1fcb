---------------------------- MODULE MCProcessing ----------------------------
(* Instances of Processing for TLC: every constant is given by the .cfg. *)
EXTENDS Processing, TLC

\* Which row of a kind a request inserts makes no difference (safety only).
Symmetry == Permutations(PrepareJobs) \cup Permutations(TranscribeJobs)

Ended(j) == state[j] \in {"done", "failed", "gone"}

\* No guard and no primed variable depends on result, on cut, on how a job ended
\* and after how many claims, or on whether a handler is over or was never
\* launched where attempts does not tell; and SourcesKept and StatusOrder read
\* none of them.  States that agree on the rest behave alike.
View == <<[j \in Jobs |-> IF Ended(j) THEN "ended" ELSE state[j]],
          [j \in Jobs |-> IF Ended(j) THEN 0 ELSE attempts[j]],
          [c \in Claims |-> IF pc[c] = "over" THEN "idle" ELSE pc[c]],
          meeting, bucket, latest, req>>
=============================================================================
