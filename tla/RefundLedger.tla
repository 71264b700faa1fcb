--------------------------- MODULE RefundLedger ---------------------------
(***************************************************************************)
(* What refund-api promises an employee and the accounts: once a request   *)
(* is approved, the amount of each of its lines is decided for good, and   *)
(* it is paid at most once, together with the other requests of one batch. *)
(* Refunds, the requests, their lines and the batches, implements this.    *)
(***************************************************************************)
CONSTANTS Requests,  \* the refund requests
          Lines,     \* the expense lines they are made of
          Values,    \* the amounts a line may be granted
          None       \* not decided

VARIABLES owed,  \* request -> what each line of it is worth, or None
          paid   \* the requests that have been paid

Bills == UNION {[ls -> Values] : ls \in SUBSET Lines}

Init == /\ owed = [r \in Requests |-> None]
        /\ paid = {}

\* A request is approved: every line of it gets its amount.
Decide(r) ==
    /\ owed[r] = None
    /\ \E bill \in Bills : owed' = [owed EXCEPT ![r] = bill]
    /\ UNCHANGED paid

\* A batch is marked paid: all its requests are, none of them before.
Pay ==
    /\ paid \subseteq paid' /\ paid' \subseteq Requests
    /\ \A r \in paid' \ paid : owed[r] # None
    /\ UNCHANGED owed

Next == Pay \/ \E r \in Requests : Decide(r)

Spec == Init /\ [][Next]_<<owed, paid>>
=============================================================================
