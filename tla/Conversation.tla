---------------------------- MODULE Conversation ----------------------------
(* One user's conversation with one meeting, and the user's AI allowance.     *)
(*                                                                            *)
(* A question, the retry of one and a summary each take a slot of the hourly  *)
(* limiter in a transaction: it reads the clock, waits for the user's         *)
(* advisory lock, counts, and commits slot and turn together. The model is    *)
(* then called outside any transaction, and the turn is settled under a       *)
(* compare-and-set on the status it had. A turn is named by the request that  *)
(* asked it; the clock counts in units of which a window has Window.          *)
EXTENDS Integers, FiniteSets

CONSTANTS
    Requests,        \* the requests of one user, each made once
    Limit,           \* slots in a window
    Window,          \* the length of the rolling window
    Patience,        \* how long a transaction may stay open
    PendingTimeout,  \* the age at which a pending turn reads as failed
    MaxClock,        \* bound on the clock
    None             \* no turn, no time, nobody

ASSUME RequestsAssumption == IsFiniteSet(Requests)
ASSUME LimitAssumption == Limit \in Nat \ {0}
ASSUME TimesAssumption ==
    /\ {Window, Patience, PendingTimeout, MaxClock} \subseteq Nat
    /\ Patience < Window
ASSUME NoneAssumption == None \notin Requests \cup Int

VARIABLES
    clock,
    lock,      \* the request that holds the user's advisory lock, or None
    ledger,    \* request -> the time its slot is stored under, or None
    admitted,  \* request -> the same, never pruned (history)
    request,   \* request -> [at, kind, turn, from, now]
    turn       \* request -> the turn it asked, [status, created, by], or None

vars == <<clock, lock, ledger, admitted, request, turn>>

Stages == {"new", "begin", "waiting", "insert", "asking", "done", "dead"}
Kinds == {"question", "question_retry", "summary"}
Times == 0..MaxClock
Status == {"pending", "answered", "failed"}

Fresh == [at |-> "new", kind |-> None, turn |-> None, from |-> None, now |-> None]

Init ==
    /\ clock = 0
    /\ lock = None
    /\ ledger = [p \in Requests |-> None]
    /\ admitted = [p \in Requests |-> None]
    /\ request = [p \in Requests |-> Fresh]
    /\ turn = [p \in Requests |-> None]

Go(p, at) == request' = [request EXCEPT ![p].at = at]
InTransaction(p) == request[p].at \in {"waiting", "insert"}

-----------------------------------------------------------------------------
(* The routes, up to their transaction *)

Ask(p) ==
    /\ request[p].at = "new"
    /\ request' = [request EXCEPT ![p] =
           [@ EXCEPT !.at = "begin", !.kind = "question", !.turn = p, !.from = "pending"]]
    /\ UNCHANGED <<clock, lock, ledger, admitted, turn>>

\* A retry needs a turn that is failed, or pending for too long; the status it
\* read is the one its answer will be written over.
ReadsFailed(t) ==
    \/ turn[t].status = "failed"
    \/ turn[t].status = "pending" /\ clock - turn[t].created >= PendingTimeout

Retry(p, t) ==
    /\ request[p].at = "new"
    /\ turn[t] # None /\ ReadsFailed(t)
    /\ request' = [request EXCEPT ![p] = [@ EXCEPT !.at = "begin", !.kind = "question_retry",
                                                   !.turn = t, !.from = turn[t].status]]
    /\ UNCHANGED <<clock, lock, ledger, admitted, turn>>

\* The summaries' routes take their slots from the same allowance.
Summarize(p) ==
    /\ request[p].at = "new"
    /\ request' = [request EXCEPT ![p] = [@ EXCEPT !.at = "begin", !.kind = "summary"]]
    /\ UNCHANGED <<clock, lock, ledger, admitted, turn>>

-----------------------------------------------------------------------------
(* consumeAiRequestIn *)

Begin(p) ==
    /\ request[p].at = "begin"
    /\ request' = [request EXCEPT ![p].at = "waiting", ![p].now = clock]
    /\ UNCHANGED <<clock, lock, ledger, admitted, turn>>

InWindow(p) == {q \in Requests : ledger[q] # None /\ ledger[q] > request[p].now - Window}

\* Faulty variant: the count does not wait for the lock.
FreeOrNot == TRUE

\* The lock is the transaction's: who finds it taken waits.
Free == lock = None

\* Faulty variant: the turn is written before the slot is granted.
CountAfterTheTurn(p) ==
    /\ request[p].at = "waiting" /\ Free
    /\ turn' = IF request[p].kind = "question"
               THEN [turn EXCEPT ![p] = [status |-> "pending", created |-> clock, by |-> None]]
               ELSE turn
    /\ IF Cardinality(InWindow(p)) < Limit
       THEN Go(p, "insert") /\ lock' = p
       ELSE Go(p, "done") /\ lock' = lock
    /\ UNCHANGED <<clock, ledger, admitted>>

\* The count under the lock; a refusal ends the transaction.
Count(p) ==
    /\ request[p].at = "waiting" /\ Free
    /\ IF Cardinality(InWindow(p)) < Limit
       THEN Go(p, "insert") /\ lock' = p
       ELSE Go(p, "done") /\ lock' = lock
    /\ UNCHANGED <<clock, ledger, admitted, turn>>

\* The commit: what has left the window goes, the slot and the turn come.
Asked == [status |-> "pending", created |-> clock, by |-> None]

Commit(p) ==
    /\ request[p].at = "insert"
    /\ ledger' = [q \in Requests |-> IF q = p THEN request[p].now
                                     ELSE IF q \in InWindow(p) THEN ledger[q] ELSE None]
    /\ admitted' = [admitted EXCEPT ![p] = request[p].now]
    /\ turn' = IF request[p].kind = "question" THEN [turn EXCEPT ![p] = Asked] ELSE turn
    /\ Go(p, IF request[p].kind = "summary" THEN "done" ELSE "asking")
    /\ lock' = None
    /\ UNCHANGED clock

Release(p) == lock' = IF lock = p THEN None ELSE lock

\* The transaction took too long, its connection failed, or the meeting is no
\* longer ready: it rolls back and the request fails.
Rollback(p) ==
    /\ InTransaction(p)
    /\ Go(p, "done") /\ Release(p)
    /\ UNCHANGED <<clock, ledger, admitted, turn>>

-----------------------------------------------------------------------------
(* The model's answer *)

\* Faulty variant: the outcome is written over whatever the turn is.
ExpectedOrNot(p) == turn[request[p].turn] # None

Expected(p) == turn[request[p].turn] # None /\ turn[request[p].turn].status = request[p].from

Outcome(p, ok) == IF ok THEN [status |-> "answered", by |-> p] ELSE [status |-> "failed", by |-> None]

Settle(p, ok) ==
    LET t == request[p].turn IN
    /\ request[p].at = "asking"
    /\ turn' = IF Expected(p)
               THEN [turn EXCEPT ![t] = [@ EXCEPT !.status = Outcome(p, ok).status,
                                                  !.by = Outcome(p, ok).by]]
               ELSE turn
    /\ Go(p, "done")
    /\ UNCHANGED <<clock, lock, ledger, admitted>>

\* The user clears the conversation; the ledger keeps its rows.
Clear ==
    /\ \E t \in Requests : turn[t] # None
    /\ turn' = [t \in Requests |-> None]
    /\ UNCHANGED <<clock, lock, ledger, admitted, request>>

Die(p) ==
    /\ request[p].at \notin {"new", "done", "dead"}
    /\ Go(p, "dead") /\ Release(p)
    /\ UNCHANGED <<clock, ledger, admitted, turn>>

\* No transaction outlives its time limit.
Tick ==
    /\ clock < MaxClock
    /\ \A p \in Requests : InTransaction(p) => clock - request[p].now < Patience
    /\ clock' = clock + 1
    /\ UNCHANGED <<lock, ledger, admitted, request, turn>>

Next ==
    \/ Tick \/ Clear
    \/ \E p \in Requests :
        \/ Ask(p) \/ Summarize(p) \/ Begin(p) \/ Count(p) \/ Commit(p) \/ Rollback(p) \/ Die(p)
        \/ \E t \in Requests : Retry(p, t)
        \/ \E ok \in BOOLEAN : Settle(p, ok)

Spec == Init /\ [][Next]_vars

-----------------------------------------------------------------------------
(* Properties *)

\* Types, and the lock is with a request that counted and has not committed.
TypeOK ==
    /\ clock \in Times
    /\ lock \in Requests \cup {None}
    /\ \A p \in Requests : lock = p <=> request[p].at = "insert"
    /\ ledger \in [Requests -> Times \cup {None}]
    /\ admitted \in [Requests -> Times \cup {None}]
    /\ request \in [Requests -> [at : Stages, kind : Kinds \cup {None}, turn : Requests \cup {None},
                                 from : Status \cup {None}, now : Times \cup {None}]]
    /\ turn \in [Requests -> [status : Status, created : Times, by : Requests \cup {None}]
                             \cup {None}]

\* The allowance: however requests race and wait for the lock, none of them
\* sees more than Limit admitted in the window that ends with it, short of it by
\* the time a transaction may wait (a request that waited counts from a clock
\* it read before, and a later one may have pruned what that clock still sees).
Recent(p) == {q \in Requests : /\ admitted[q] # None /\ admitted[q] <= admitted[p]
                               /\ admitted[q] > admitted[p] - (Window - Patience)}

AllowanceKept == \A p \in Requests : admitted[p] # None => Cardinality(Recent(p)) <= Limit

\* Nobody asks the model, and no turn stands, without a slot of its own: a
\* refusal, a rollback or a death leaves neither half.
NothingUnpaid ==
    /\ \A p \in Requests : request[p].at = "asking" => admitted[p] # None
    /\ \A t \in Requests : turn[t] # None =>
           /\ admitted[t] # None
           /\ turn[t].by # None => admitted[turn[t].by] # None

\* A turn that still waits has its first call at work, or that call died; no
\* retry of it and no clearing leaves it waiting for nobody.
PendingIsAsked ==
    \A t \in Requests : turn[t] # None /\ turn[t].status = "pending"
                       => request[t].at \in {"asking", "dead"}

\* What holds between requests, turns and the window at every moment: the lock is
\* a counting request's, every turn is paid for, and every waiting one is asked.
Inv == TypeOK /\ NothingUnpaid /\ PendingIsAsked

\* A turn only goes forward: an answer stays as it is until it is cleared, a
\* failure never waits again, and what was cleared does not come back, however
\* late the first call, the retries of it and the clearing meet.
TurnsGoForward ==
    [][\A t \in Requests :
        /\ turn[t] = None /\ turn'[t] # None => request[t].at = "insert"
        /\ turn[t] # None /\ turn'[t] # None =>
               /\ turn[t].status = "answered" => turn'[t] = turn[t]
               /\ turn[t].status = "failed" => turn'[t].status # "pending"]_vars

\* What the proofs rest on. A request without a slot yet has none; it knows the turn
\* it is about, which a question writes and a retry read as failed or waiting.
TurnsAreKnown ==
    \A p \in Requests :
        /\ request[p].at \in {"new", "begin", "waiting", "insert"} => admitted[p] = None
        /\ request[p].at # "new" => request[p].kind \in Kinds
        /\ request[p].at # "new" /\ request[p].kind = "question" =>
               request[p].turn = p /\ request[p].from = "pending"
        /\ request[p].at # "new" /\ request[p].kind = "question_retry" =>
               request[p].turn \in Requests /\ request[p].from \in {"pending", "failed"}
        /\ request[p].at = "asking" => request[p].kind # "summary"
        /\ turn[p] # None => request[p].kind = "question"

\* A transaction read the clock no longer ago than it may stay open.
TimesAreRecent ==
    \A p \in Requests : InTransaction(p) =>
        request[p].now \in Times /\ request[p].now <= clock /\ clock - request[p].now <= Patience

\* A slot is pruned only when it has left every window there will be.
SlotsAreKept ==
    \A p \in Requests : admitted[p] # None =>
        ledger[p] = admitted[p] \/ (ledger[p] = None /\ admitted[p] <= clock - Window)

\* Whoever counted and has the lock still finds the room it counted.
RoomIsHeld == \A p \in Requests : request[p].at = "insert" => Cardinality(InWindow(p)) < Limit

\* The inductive invariant of the proofs.
IInv == Inv /\ AllowanceKept
        /\ TurnsAreKnown /\ TimesAreRecent /\ SlotsAreKept /\ RoomIsHeld
=============================================================================
