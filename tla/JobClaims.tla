----------------------------- MODULE JobClaims -----------------------------
(***************************************************************************)
(* What the durable job runner of meetings-api promises to the handlers,   *)
(* without processes, leases, heartbeats or clocks: a job is a row of      *)
(* `meeting_job`, every claim of it increments `attempts`, and the pair    *)
(* (job, attempts) names one claim.  A claim that is still the current one *)
(* may commit results and settle the job; any other claim changes nothing. *)
(* The rows of a deleted meeting are gone, whatever their handlers do.     *)
(* JobRunner implements this specification; the modules that model         *)
(* handlers use the row transitions it defines.                            *)
(***************************************************************************)
EXTENDS Naturals

CONSTANTS Jobs,        \* job rows
          MaxAttempts  \* maxAttempts of a job, a positive number

VARIABLES state,    \* job -> "none" (no row yet), "queued", "running", "done",
                    \* "failed", "gone" (deleted with its meeting)
          attempts, \* job -> how many times it has been claimed
          result    \* job -> the claim whose result was committed last, 0 if none

claimVars == <<state, attempts, result>>

JobState == {"none", "queued", "running", "done", "failed", "gone"}

TypeOK == /\ state \in [Jobs -> JobState]
          /\ attempts \in [Jobs -> 0..MaxAttempts]
          /\ result \in [Jobs -> 0..MaxAttempts]

Init == /\ state = [j \in Jobs |-> "none"]
        /\ attempts = [j \in Jobs |-> 0]
        /\ result = [j \in Jobs |-> 0]

\* The compare-and-set that names one claim: claim a of job j still holds it.
Holds(j, a) == state[j] = "running" /\ attempts[j] = a

Enqueue(j) == /\ state[j] = "none"
              /\ state' = [state EXCEPT ![j] = "queued"]
              /\ UNCHANGED <<attempts, result>>

\* A queued job, or a running one whose holder is presumed dead.
Claim(j) == /\ state[j] \in {"queued", "running"}
            /\ attempts[j] < MaxAttempts
            /\ state' = [state EXCEPT ![j] = "running"]
            /\ attempts' = [attempts EXCEPT ![j] = @ + 1]
            /\ UNCHANGED result

\* ctx.commit of the claim that holds the job; its transaction may enqueue S.
Commit(j, a, S) == /\ Holds(j, a)
                   /\ \A k \in S : state[k] = "none"
                   /\ result' = [result EXCEPT ![j] = a]
                   /\ state' = [k \in Jobs |-> IF k \in S THEN "queued" ELSE state[k]]
                   /\ UNCHANGED attempts

Finish(j, a) == /\ Holds(j, a)
                /\ state' = [state EXCEPT ![j] = "done"]
                /\ UNCHANGED <<attempts, result>>

Retry(j, a) == /\ Holds(j, a)
               /\ a < MaxAttempts
               /\ state' = [state EXCEPT ![j] = "queued"]
               /\ UNCHANGED <<attempts, result>>

Fail(j, a) == /\ Holds(j, a)
              /\ state' = [state EXCEPT ![j] = "failed"]
              /\ UNCHANGED <<attempts, result>>

\* Jobs whose last claim lapsed are failed together.
Expire(S) == /\ S # {}
             /\ \A j \in S : Holds(j, MaxAttempts)
             /\ state' = [j \in Jobs |-> IF j \in S THEN "failed" ELSE state[j]]
             /\ UNCHANGED <<attempts, result>>

\* The rows of a deleted meeting go with it.
Cascade(S) == /\ S # {}
              /\ \A j \in S : state[j] # "none"
              /\ state' = [j \in Jobs |-> IF j \in S THEN "gone" ELSE state[j]]
              /\ UNCHANGED <<attempts, result>>

Next == \/ \E j \in Jobs : Enqueue(j) \/ Claim(j)
        \/ \E j \in Jobs, a \in 1..MaxAttempts :
              \/ Finish(j, a) \/ Retry(j, a) \/ Fail(j, a)
              \/ \E S \in SUBSET Jobs : Commit(j, a, S)
        \/ \E S \in SUBSET Jobs : Expire(S) \/ Cascade(S)

Spec == Init /\ [][Next]_claimVars

=============================================================================
