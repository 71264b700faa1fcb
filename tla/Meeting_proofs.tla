--------------------------- MODULE Meeting_proofs ---------------------------
(***************************************************************************)
(* Proofs about two parts of a meeting that share no state: Conversation,  *)
(* for any number of requests, slots and any lengths of time, and          *)
(* Recording, for any number of sessions, chunks and requests.             *)
(***************************************************************************)
EXTENDS Conversation, Recording, FiniteSetTheorems, TLAPS

-----------------------------------------------------------------------------
(* Conversation: one request moves *)

\* The rows of `request` and of `turn`.
RequestRow == [at : Stages, kind : Kinds \cup {None}, turn : Requests \cup {None},
               from : Status \cup {None}, now : Times \cup {None}]
TurnRow == [status : Status, created : Times, by : Requests \cup {None}]

\* What a window counts is a number.
LEMMA CountIsNatural ==
  ASSUME NEW S \in SUBSET Requests
  PROVE  IsFiniteSet(S) /\ Cardinality(S) \in Nat
  BY RequestsAssumption, FS_Subset, FS_CardinalityType

\* A step that moves one request and leaves ledger and turns alone.
LEMMA Moves ==
  ASSUME IInv, NEW p \in Requests, NEW r \in RequestRow,
         request' = [request EXCEPT ![p] = r],
         UNCHANGED <<clock, ledger, admitted, turn>>,
         lock' \in Requests \cup {None},
         \A q \in Requests : lock' = q <=> request'[q].at = "insert",
         r.at \notin {"new", "asking"} /\ r.kind \in Kinds,
         r.at \in {"begin", "waiting", "insert"} => admitted[p] = None,
         r.kind = "question" => r.turn = p /\ r.from = "pending",
         r.kind = "question_retry" => r.turn \in Requests /\ r.from \in {"pending", "failed"},
         turn[p] # None => /\ r.kind = "question"
                           /\ turn[p].status = "pending" => r.at = "dead",
         r.at \in {"waiting", "insert"} => r.now \in Times /\ r.now <= clock /\ clock - r.now <= Patience,
         r.at = "insert" => r.now = request[p].now /\ Cardinality(InWindow(p)) < Limit
  PROVE  IInv'
  <1>1. \A q \in Requests : request'[q] = IF q = p THEN r ELSE request[q]
    BY DEF IInv, Inv, TypeOK
  <1>2. TypeOK'
    <2>1. request' \in [Requests -> RequestRow]
      BY DEF IInv, Inv, TypeOK, RequestRow
    <2> QED BY <2>1 DEF IInv, Inv, TypeOK, RequestRow
  <1>3. NothingUnpaid' /\ PendingIsAsked'
    BY <1>1 DEF IInv, Inv, NothingUnpaid, PendingIsAsked
  <1>4. AllowanceKept'
    BY DEF IInv, AllowanceKept, Recent
  <1>5. TurnsAreKnown'
    BY <1>1 DEF IInv, TurnsAreKnown
  <1>6. TimesAreRecent'
    BY <1>1 DEF IInv, TimesAreRecent, InTransaction
  <1>7. SlotsAreKept'
    BY DEF IInv, SlotsAreKept
  <1>8. RoomIsHeld'
    <2> SUFFICES ASSUME NEW q \in Requests, request'[q].at = "insert"
                 PROVE  Cardinality(InWindow(q)') < Limit
      BY DEF RoomIsHeld
    <2>1. request'[q].now = request[q].now
      BY <1>1
    <2>2. InWindow(q)' = InWindow(q)
      BY <2>1 DEF InWindow
    <2> QED BY <1>1, <2>2 DEF IInv, RoomIsHeld
  <1> QED BY <1>2, <1>3, <1>4, <1>5, <1>6, <1>7, <1>8 DEF IInv, Inv

LEMMA RouteSteps ==
  ASSUME IInv, NEW p \in Requests,
         Ask(p) \/ Summarize(p) \/ Begin(p) \/ (\E t \in Requests : Retry(p, t))
  PROVE  IInv'
  <1>0. /\ request \in [Requests -> RequestRow] /\ clock \in Times
        /\ lock \in Requests \cup {None}
        /\ \A q \in Requests : lock = q <=> request[q].at = "insert"
        /\ turn \in [Requests -> TurnRow \cup {None}]
        /\ Patience \in Nat /\ MaxClock \in Nat
    BY TimesAssumption DEF IInv, Inv, TypeOK, RequestRow, TurnRow
  <1>1. CASE Ask(p)
    <2> DEFINE r == [request[p] EXCEPT !.at = "begin", !.kind = "question", !.turn = p, !.from = "pending"]
    <2>1. r \in RequestRow /\ r.at = "begin" /\ r.kind = "question" /\ r.turn = p /\ r.from = "pending"
      BY <1>0 DEF RequestRow, Stages, Kinds, Status
    <2>2. request' = [request EXCEPT ![p] = r] /\ request[p].at = "new"
          /\ UNCHANGED <<clock, lock, ledger, admitted, turn>>
      BY <1>1 DEF Ask
    <2>3. admitted[p] = None /\ turn[p] = None
      BY <2>2 DEF IInv, Inv, NothingUnpaid, TurnsAreKnown
    <2>4. \A q \in Requests : lock' = q <=> request'[q].at = "insert"
      BY <1>0, <2>1, <2>2
    <2> HIDE DEF r
    <2> QED BY <1>0, <2>1, <2>2, <2>3, <2>4, Moves DEF Kinds
  <1>2. CASE Summarize(p)
    <2> DEFINE r == [request[p] EXCEPT !.at = "begin", !.kind = "summary"]
    <2>1. r \in RequestRow /\ r.at = "begin" /\ r.kind = "summary"
      BY <1>0 DEF RequestRow, Stages, Kinds, Status
    <2>2. request' = [request EXCEPT ![p] = r] /\ request[p].at = "new"
          /\ UNCHANGED <<clock, lock, ledger, admitted, turn>>
      BY <1>2 DEF Summarize
    <2>3. admitted[p] = None /\ turn[p] = None
      BY <2>2 DEF IInv, Inv, NothingUnpaid, TurnsAreKnown
    <2>4. \A q \in Requests : lock' = q <=> request'[q].at = "insert"
      BY <1>0, <2>1, <2>2
    <2> HIDE DEF r
    <2> QED BY <1>0, <2>1, <2>2, <2>3, <2>4, Moves DEF Kinds
  <1>3. CASE Begin(p)
    <2> DEFINE r == [request[p] EXCEPT !.at = "waiting", !.now = clock]
    <2>1. r \in RequestRow /\ r.at = "waiting" /\ r.kind = request[p].kind /\ r.turn = request[p].turn
          /\ r.from = request[p].from /\ r.now = clock
      BY <1>0 DEF RequestRow, Stages
    <2>2. request' = [request EXCEPT ![p] = r] /\ request[p].at = "begin"
          /\ UNCHANGED <<clock, lock, ledger, admitted, turn>>
      <3>1. request[p] \in RequestRow
        BY <1>0
      <3> QED BY <1>0, <1>3, <3>1 DEF Begin, RequestRow
    <2>3. admitted[p] = None /\ turn[p] = None
      BY <2>2 DEF IInv, Inv, NothingUnpaid, TurnsAreKnown
    <2>4. \A q \in Requests : lock' = q <=> request'[q].at = "insert"
      BY <1>0, <2>1, <2>2
    <2>5. /\ r.kind \in Kinds
          /\ r.kind = "question" => r.turn = p /\ r.from = "pending"
          /\ r.kind = "question_retry" => r.turn \in Requests /\ r.from \in {"pending", "failed"}
      BY <2>1, <2>2 DEF IInv, TurnsAreKnown
    <2>6. r.now <= clock /\ clock - r.now <= Patience
      BY <1>0, <2>1 DEF Times
    <2> HIDE DEF r
    <2> QED BY <1>0, <2>1, <2>2, <2>3, <2>4, <2>5, <2>6, Moves DEF Kinds
  <1>4. CASE \E t \in Requests : Retry(p, t)
    <2> PICK t \in Requests : Retry(p, t)
      BY <1>4
    <2> DEFINE r == [request[p] EXCEPT !.at = "begin", !.kind = "question_retry", !.turn = t,
                                       !.from = turn[t].status]
    <2>0. turn[t] \in TurnRow /\ turn[t].status \in {"pending", "failed"}
      BY <1>0 DEF Retry, ReadsFailed
    <2>1. r \in RequestRow /\ r.at = "begin" /\ r.kind = "question_retry" /\ r.turn = t
          /\ r.from = turn[t].status
      BY <1>0, <2>0 DEF RequestRow, Stages, Kinds, Status
    <2>2. request' = [request EXCEPT ![p] = r] /\ request[p].at = "new"
          /\ UNCHANGED <<clock, lock, ledger, admitted, turn>>
      BY DEF Retry
    <2>3. admitted[p] = None /\ turn[p] = None
      BY <2>2 DEF IInv, Inv, NothingUnpaid, TurnsAreKnown
    <2>4. \A q \in Requests : lock' = q <=> request'[q].at = "insert"
      BY <1>0, <2>1, <2>2
    <2> HIDE DEF r
    <2> QED BY <1>0, <2>0, <2>1, <2>2, <2>3, <2>4, Moves DEF Kinds
  <1> QED BY <1>1, <1>2, <1>3, <1>4

LEMMA CountSteps ==
  ASSUME IInv, NEW p \in Requests, Count(p)
  PROVE  IInv'
  <1>0. /\ request \in [Requests -> RequestRow]
        /\ lock \in Requests \cup {None} /\ None \notin Requests
        /\ \A q \in Requests : lock = q <=> request[q].at = "insert"
    BY NoneAssumption DEF IInv, Inv, TypeOK, RequestRow
  <1>1. PICK to \in {"insert", "done"} :
           /\ request' = [request EXCEPT ![p] = [@ EXCEPT !.at = to]]
           /\ to = "insert" => lock' = p /\ Cardinality(InWindow(p)) < Limit
           /\ to = "done" => lock' = None
    BY <1>0 DEF Count, Go, Free, RequestRow
  <1>2. request[p].at = "waiting" /\ lock = None /\ UNCHANGED <<clock, ledger, admitted, turn>>
    BY DEF Count, Free
  <1> DEFINE r == [request[p] EXCEPT !.at = to]
  <1>3. /\ r \in RequestRow /\ r.at = to /\ r.kind = request[p].kind /\ r.turn = request[p].turn
        /\ r.from = request[p].from /\ r.now = request[p].now
    BY <1>0 DEF RequestRow, Stages
  <1>4. request' = [request EXCEPT ![p] = r]
    BY <1>0, <1>1
  <1>5. admitted[p] = None /\ turn[p] = None
    BY <1>2 DEF IInv, Inv, NothingUnpaid, TurnsAreKnown
  <1>6. /\ lock' \in Requests \cup {None}
        /\ \A q \in Requests : lock' = q <=> request'[q].at = "insert"
    BY <1>0, <1>1, <1>2, <1>3, <1>4
  <1>7. /\ r.kind \in Kinds
        /\ r.kind = "question" => r.turn = p /\ r.from = "pending"
        /\ r.kind = "question_retry" => r.turn \in Requests /\ r.from \in {"pending", "failed"}
        /\ r.now \in Times /\ r.now <= clock /\ clock - r.now <= Patience
    BY <1>2, <1>3 DEF IInv, TurnsAreKnown, TimesAreRecent, InTransaction
  <1> HIDE DEF r
  <1> QED BY <1>1, <1>2, <1>3, <1>4, <1>5, <1>6, <1>7, Moves

LEMMA EndSteps ==
  ASSUME IInv, NEW p \in Requests,
         Rollback(p) \/ Die(p) \/ \E ok \in BOOLEAN : Settle(p, ok) /\ ~Expected(p)
  PROVE  IInv'
  <1>0. /\ request \in [Requests -> RequestRow]
        /\ lock \in Requests \cup {None} /\ None \notin Requests
        /\ \A q \in Requests : lock = q <=> request[q].at = "insert"
    BY NoneAssumption DEF IInv, Inv, TypeOK, RequestRow
  <1>1. PICK to \in {"done", "dead"} :
           /\ request' = [request EXCEPT ![p] = [@ EXCEPT !.at = to]]
           /\ lock' = IF lock = p THEN None ELSE lock
           /\ turn[p] # None /\ turn[p].status = "pending" => to = "dead"
    <2>1. CASE Rollback(p)
      <3>1. request[p].at \in {"waiting", "insert"}
        BY <2>1 DEF Rollback, InTransaction
      <3>2. turn[p] = None
        BY <3>1 DEF IInv, Inv, NothingUnpaid, TurnsAreKnown
      <3> QED BY <1>0, <2>1, <3>2 DEF Rollback, Go, Release, RequestRow
    <2>2. CASE Die(p)
      BY <1>0, <2>2 DEF Die, Go, Release, RequestRow
    <2>3. CASE \E ok \in BOOLEAN : Settle(p, ok) /\ ~Expected(p)
      <3>1. /\ request[p].at = "asking" /\ ~Expected(p) /\ lock' = lock
            /\ request' = [request EXCEPT ![p].at = "done"]
        BY <2>3 DEF Settle, Go
      <3>2. turn[p] # None => turn[p].status # "pending"
        BY <3>1 DEF Expected, IInv, TurnsAreKnown
      <3> QED BY <1>0, <3>1, <3>2 DEF RequestRow
    <2> QED BY <2>1, <2>2, <2>3
  <1>2. request[p].at \notin {"new"} /\ UNCHANGED <<clock, ledger, admitted, turn>>
    BY DEF Rollback, InTransaction, Die, Settle
  <1> DEFINE r == [request[p] EXCEPT !.at = to]
  <1>3. /\ r \in RequestRow /\ r.at = to /\ r.kind = request[p].kind /\ r.turn = request[p].turn
        /\ r.from = request[p].from /\ r.now = request[p].now
    BY <1>0 DEF RequestRow, Stages
  <1>4. request' = [request EXCEPT ![p] = r]
    BY <1>0, <1>1
  <1>5. /\ lock' \in Requests \cup {None}
        /\ \A q \in Requests : lock' = q <=> request'[q].at = "insert"
    BY <1>0, <1>1, <1>3, <1>4
  <1>6. /\ r.kind \in Kinds
        /\ r.kind = "question" => r.turn = p /\ r.from = "pending"
        /\ r.kind = "question_retry" => r.turn \in Requests /\ r.from \in {"pending", "failed"}
        /\ turn[p] # None => r.kind = "question"
    BY <1>2, <1>3 DEF IInv, TurnsAreKnown
  <1> HIDE DEF r
  <1> QED BY <1>1, <1>2, <1>3, <1>4, <1>5, <1>6, Moves

-----------------------------------------------------------------------------
(* Conversation: the steps that change turns, the ledger or the clock *)

\* The turn is settled by a request that asked and found it as expected.
LEMMA SettleSteps ==
  ASSUME IInv, NEW p \in Requests, NEW ok \in BOOLEAN, Settle(p, ok), Expected(p)
  PROVE  IInv'
  <1> DEFINE t == request[p].turn
             row == [turn[t] EXCEPT !.status = Outcome(p, ok).status, !.by = Outcome(p, ok).by]
  <1>0. /\ request \in [Requests -> RequestRow]
        /\ turn \in [Requests -> TurnRow \cup {None}]
        /\ \A q \in Requests : lock = q <=> request[q].at = "insert"
    BY DEF IInv, Inv, TypeOK, RequestRow, TurnRow
  <1>1. /\ request[p].at = "asking" /\ turn' = [turn EXCEPT ![t] = row]
        /\ request' = [request EXCEPT ![p].at = "done"]
        /\ UNCHANGED <<clock, lock, ledger, admitted>>
    BY DEF Settle, Go
  <1>2. t \in Requests /\ turn[t] # None
    BY <1>1 DEF IInv, TurnsAreKnown, Kinds, Expected
  <1>3. turn[t] \in TurnRow
    BY <1>0, <1>2
  <1>4. row \in TurnRow /\ row.status \in {"answered", "failed"} /\ row.by \in {p, None}
    BY <1>3 DEF TurnRow, Outcome, Status
  <1>5. /\ \A q \in Requests : turn'[q] = IF q = t THEN row ELSE turn[q]
        /\ turn' \in [Requests -> TurnRow \cup {None}]
    BY <1>0, <1>1, <1>2, <1>4
  <1> HIDE DEF row
  <1>6. /\ \A q \in Requests : /\ request'[q].at = IF q = p THEN "done" ELSE request[q].at
                               /\ request'[q].kind = request[q].kind
                               /\ request'[q].turn = request[q].turn
                               /\ request'[q].from = request[q].from
                               /\ request'[q].now = request[q].now
        /\ request' \in [Requests -> RequestRow]
    BY <1>0, <1>1 DEF RequestRow, Stages
  <1>7. TypeOK'
    BY <1>0, <1>1, <1>5, <1>6 DEF IInv, Inv, TypeOK, RequestRow, TurnRow
  <1>8. NothingUnpaid'
    BY <1>1, <1>2, <1>4, <1>5, <1>6 DEF IInv, Inv, NothingUnpaid
  <1>9. PendingIsAsked'
    <2> SUFFICES ASSUME NEW q \in Requests, turn'[q] # None, turn'[q].status = "pending"
                 PROVE  request'[q].at \in {"asking", "dead"}
      BY DEF PendingIsAsked
    <2>1. q # t /\ turn'[q] = turn[q]
      BY <1>4, <1>5
    <2>2. request[q].at \in {"asking", "dead"} /\ request[q].kind = "question"
      BY <2>1 DEF IInv, Inv, PendingIsAsked, TurnsAreKnown
    <2>3. q # p
      BY <1>1, <2>1, <2>2 DEF IInv, TurnsAreKnown
    <2> QED BY <1>6, <2>2, <2>3
  <1>10. AllowanceKept' /\ SlotsAreKept'
    BY <1>1 DEF IInv, AllowanceKept, Recent, SlotsAreKept
  <1>11. TurnsAreKnown'
    BY <1>1, <1>2, <1>5, <1>6 DEF IInv, TurnsAreKnown
  <1>12. TimesAreRecent'
    BY <1>1, <1>6 DEF IInv, TimesAreRecent, InTransaction
  <1>13. RoomIsHeld'
    BY <1>1, <1>6 DEF IInv, RoomIsHeld, InWindow
  <1> QED BY <1>7, <1>8, <1>9, <1>10, <1>11, <1>12, <1>13 DEF IInv, Inv

LEMMA ClearSteps ==
  ASSUME IInv, Clear
  PROVE  IInv'
  <1>1. turn' = [t \in Requests |-> None] /\ UNCHANGED <<clock, lock, ledger, admitted, request>>
    BY DEF Clear
  <1>2. Inv'
    BY <1>1 DEF IInv, Inv, TypeOK, NothingUnpaid, PendingIsAsked
  <1>3. AllowanceKept' /\ SlotsAreKept' /\ RoomIsHeld' /\ TimesAreRecent'
    BY <1>1 DEF IInv, AllowanceKept, Recent, SlotsAreKept, RoomIsHeld, InWindow, TimesAreRecent, InTransaction
  <1>4. TurnsAreKnown'
    BY <1>1 DEF IInv, TurnsAreKnown
  <1> QED BY <1>2, <1>3, <1>4 DEF IInv

LEMMA TickSteps ==
  ASSUME IInv, Tick
  PROVE  IInv'
  <1>0. clock \in Nat /\ clock < MaxClock /\ clock' = clock + 1
        /\ {Window, Patience, PendingTimeout, MaxClock} \subseteq Nat
        /\ UNCHANGED <<lock, ledger, admitted, request, turn>>
    BY TimesAssumption DEF Tick, IInv, Inv, TypeOK, Times
  <1>1. TypeOK'
    BY <1>0 DEF IInv, Inv, TypeOK, Times
  <1>2. NothingUnpaid' /\ PendingIsAsked' /\ AllowanceKept' /\ RoomIsHeld' /\ TurnsAreKnown'
    BY <1>0 DEF IInv, Inv, NothingUnpaid, PendingIsAsked, AllowanceKept, Recent, RoomIsHeld, InWindow,
                TurnsAreKnown
  <1>3. TimesAreRecent'
    <2> SUFFICES ASSUME NEW p \in Requests, InTransaction(p)
                 PROVE  request[p].now \in Times /\ request[p].now <= clock + 1
                        /\ clock + 1 - request[p].now <= Patience
      BY <1>0 DEF TimesAreRecent, InTransaction, Times
    <2>1. request[p].now \in Times /\ request[p].now <= clock
      BY DEF IInv, TimesAreRecent
    <2>2. clock - request[p].now < Patience
      BY DEF Tick
    <2> QED BY <1>0, <2>1, <2>2 DEF Times
  <1>4. SlotsAreKept'
    <2> SUFFICES ASSUME NEW p \in Requests, admitted[p] # None, ledger[p] # admitted[p]
                 PROVE  ledger[p] = None /\ admitted[p] <= clock + 1 - Window
      BY <1>0 DEF SlotsAreKept
    <2>1. ledger[p] = None /\ admitted[p] <= clock - Window
      BY DEF IInv, SlotsAreKept
    <2>2. admitted[p] \in Nat
      BY DEF IInv, Inv, TypeOK, Times
    <2> QED BY <1>0, <2>1, <2>2
  <1> QED BY <1>1, <1>2, <1>3, <1>4 DEF IInv, Inv

\* A request commits its slot.  Whatever the others did since it read the clock, what
\* a window that ends at its slot or later still shows, it counted.
LEMMA CommitSteps ==
  ASSUME IInv, NEW p \in Requests, Commit(p)
  PROVE  IInv'
  <1> DEFINE now == request[p].now
             stage == IF request[p].kind = "summary" THEN "done" ELSE "asking"
  <1>0. /\ request \in [Requests -> RequestRow]
        /\ turn \in [Requests -> TurnRow \cup {None}]
        /\ ledger \in [Requests -> Times \cup {None}] /\ admitted \in [Requests -> Times \cup {None}]
        /\ \A q \in Requests : lock = q <=> request[q].at = "insert"
        /\ clock \in Nat /\ clock \in Times /\ Limit \in Nat
        /\ Window \in Nat /\ Patience \in Nat /\ Patience < Window /\ Times \subseteq Nat
        /\ None \notin Requests /\ None \notin Int
    BY TimesAssumption, LimitAssumption, NoneAssumption
    DEF IInv, Inv, TypeOK, RequestRow, TurnRow, Times
  <1>1. /\ request[p].at = "insert"
        /\ ledger' = [q \in Requests |-> IF q = p THEN now ELSE IF q \in InWindow(p) THEN ledger[q] ELSE None]
        /\ admitted' = [admitted EXCEPT ![p] = now]
        /\ request' = [request EXCEPT ![p].at = stage]
        /\ turn' = IF request[p].kind = "question" THEN [turn EXCEPT ![p] = Asked] ELSE turn
        /\ lock' = None /\ UNCHANGED clock
    BY DEF Commit, Go
  <1>2. now \in Times /\ now \in Nat /\ now <= clock /\ clock - now <= Patience
    BY <1>0, <1>1 DEF IInv, TimesAreRecent, InTransaction
  <1>3. admitted[p] = None /\ turn[p] = None
    BY <1>1 DEF IInv, Inv, NothingUnpaid, TurnsAreKnown
  <1>4. /\ request[p].kind \in Kinds
        /\ request[p].kind = "question" => request[p].turn = p /\ request[p].from = "pending"
        /\ request[p].kind = "question_retry" => request[p].turn \in Requests
                                                 /\ request[p].from \in {"pending", "failed"}
    BY <1>1 DEF IInv, TurnsAreKnown
  <1>5. stage \in {"done", "asking"} /\ (stage = "asking" <=> request[p].kind # "summary")
    OBVIOUS
  <1> HIDE DEF stage
  <1>6. /\ \A q \in Requests : /\ request'[q].at = IF q = p THEN stage ELSE request[q].at
                               /\ request'[q].kind = request[q].kind
                               /\ request'[q].turn = request[q].turn
                               /\ request'[q].from = request[q].from
                               /\ request'[q].now = request[q].now
        /\ request' \in [Requests -> RequestRow]
    BY <1>0, <1>1, <1>5 DEF RequestRow, Stages
  <1>7. \A q \in Requests : admitted'[q] = IF q = p THEN now ELSE admitted[q]
    BY <1>0, <1>1
  <1>8. /\ Asked \in TurnRow /\ Asked.status = "pending" /\ Asked.by = None
        /\ \A q \in Requests : turn'[q] = IF q = p /\ request[p].kind = "question" THEN Asked ELSE turn[q]
        /\ turn' \in [Requests -> TurnRow \cup {None}]
    BY <1>0, <1>1 DEF Asked, TurnRow, Status
  <1>9. TypeOK'
    <2>1. ledger' \in [Requests -> Times \cup {None}] /\ admitted' \in [Requests -> Times \cup {None}]
      BY <1>0, <1>1, <1>2
    <2>2. \A q \in Requests : lock' = q <=> request'[q].at = "insert"
      BY <1>0, <1>1, <1>5, <1>6
    <2> QED BY <1>0, <1>1, <1>6, <1>8, <2>1, <2>2 DEF TypeOK, RequestRow, TurnRow, Times
  <1>10. NothingUnpaid' /\ PendingIsAsked'
    <2>1. \A q \in Requests : admitted[q] # None => admitted'[q] # None
      BY <1>0, <1>2, <1>7
    <2>2. admitted'[p] # None
      BY <1>0, <1>2, <1>7
    <2>3. NothingUnpaid'
      <3>1. \A q \in Requests : turn[q] # None => turn[q].by \in Requests \cup {None}
        BY <1>0 DEF TurnRow
      <3> QED BY <1>5, <1>6, <1>8, <2>1, <2>2, <3>1 DEF IInv, Inv, NothingUnpaid
    <2>4. PendingIsAsked'
      BY <1>3, <1>5, <1>6, <1>8 DEF IInv, Inv, PendingIsAsked
    <2> QED BY <2>3, <2>4
  <1>11. TurnsAreKnown'
    BY <1>1, <1>3, <1>4, <1>5, <1>6, <1>7, <1>8 DEF IInv, TurnsAreKnown
  <1>12. TimesAreRecent'
    BY <1>1, <1>5, <1>6 DEF IInv, TimesAreRecent, InTransaction, Times
  <1>13. RoomIsHeld'
    BY <1>0, <1>1, <1>5, <1>6 DEF RoomIsHeld
  <1>14. SlotsAreKept'
    <2> SUFFICES ASSUME NEW q \in Requests, admitted'[q] # None, q # p, ledger'[q] # admitted'[q]
                 PROVE  ledger'[q] = None /\ admitted[q] <= clock - Window
      BY <1>1, <1>7 DEF SlotsAreKept
    <2>1. admitted'[q] = admitted[q] /\ admitted[q] \in Nat
      BY <1>0, <1>7
    <2>2. CASE ledger[q] = admitted[q]
      BY <1>0, <1>1, <1>2, <2>1, <2>2 DEF InWindow
    <2>3. CASE ledger[q] = None /\ admitted[q] <= clock - Window
      BY <1>1, <2>3
    <2> QED BY <2>1, <2>2, <2>3 DEF IInv, SlotsAreKept
  <1>15. AllowanceKept'
    <2> SUFFICES ASSUME NEW x \in Requests, admitted'[x] # None
                 PROVE  Cardinality(Recent(x)') <= Limit
      BY DEF AllowanceKept
    <2>0. Recent(x)' = {q \in Requests : /\ admitted'[q] # None /\ admitted'[q] <= admitted'[x]
                                         /\ admitted'[q] > admitted'[x] - (Window - Patience)}
      BY DEF Recent
    <2>1. CASE p \notin Recent(x)'
      <3>1. x # p
        BY <1>0, <1>2, <1>7, <2>0, <2>1
      <3>2. Recent(x)' = Recent(x)
        BY <1>3, <1>7, <2>0, <2>1, <3>1 DEF Recent
      <3> QED BY <1>7, <3>1, <3>2 DEF IInv, AllowanceKept
    <2>2. CASE p \in Recent(x)'
      <3>1. admitted'[x] \in Nat /\ now <= admitted'[x]
        BY <1>0, <1>2, <1>7, <2>0, <2>2
      <3>2. ASSUME NEW q \in Recent(x)', q # p
            PROVE  q \in InWindow(p)
        <4>0. /\ q \in Requests /\ admitted'[q] = admitted[q] /\ admitted[q] # None
              /\ admitted[q] > admitted'[x] - (Window - Patience)
          BY <1>7, <2>0, <3>2
        <4>1. admitted[q] \in Nat
          BY <1>0, <4>0
        <4>2. admitted[q] > now - (Window - Patience)
          BY <1>0, <1>2, <3>1, <4>0, <4>1
        <4>3. ~(admitted[q] <= clock - Window)
          BY <1>0, <1>2, <4>1, <4>2
        <4>4. ledger[q] = admitted[q] /\ admitted[q] # None
          BY <4>0, <4>3 DEF IInv, SlotsAreKept
        <4>5. ledger[q] > now - Window
          BY <1>0, <1>2, <4>1, <4>2, <4>4
        <4> QED BY <4>0, <4>4, <4>5 DEF InWindow
      <3>3. Recent(x)' \subseteq InWindow(p) \cup {p} /\ InWindow(p) \subseteq Requests
        BY <3>2 DEF InWindow
      <3>4. IsFiniteSet(InWindow(p)) /\ Cardinality(InWindow(p)) \in Nat
        BY <3>3, CountIsNatural
      <3>5. /\ IsFiniteSet(InWindow(p) \cup {p})
            /\ Cardinality(InWindow(p) \cup {p}) <= Cardinality(InWindow(p)) + 1
        BY <3>4, FS_AddElement
      <3>6. Cardinality(Recent(x)') <= Cardinality(InWindow(p) \cup {p})
        BY <3>3, <3>5, FS_Subset
      <3>7. Cardinality(InWindow(p)) < Limit
        BY <1>1 DEF IInv, RoomIsHeld
      <3>8. Cardinality(Recent(x)') \in Nat /\ Cardinality(InWindow(p) \cup {p}) \in Nat
        BY <3>3, <3>5, FS_Subset, FS_CardinalityType
      <3> QED BY <1>0, <3>4, <3>5, <3>6, <3>7, <3>8
    <2> QED BY <2>1, <2>2
  <1> QED BY <1>9, <1>10, <1>11, <1>12, <1>13, <1>14, <1>15 DEF IInv, Inv

-----------------------------------------------------------------------------
(* Conversation: the theorems *)

LEMMA Initially == Init => IInv
  <1> SUFFICES ASSUME Init PROVE IInv
    OBVIOUS
  <1>0. /\ None \notin Requests /\ 0 \in Times
        /\ Fresh \in RequestRow /\ Fresh.at = "new"
    BY NoneAssumption, TimesAssumption DEF Fresh, RequestRow, Stages, Kinds, Status, Times
  <1>1. \A p \in Requests : request[p] = Fresh /\ turn[p] = None /\ admitted[p] = None /\ ledger[p] = None
    BY DEF Init
  <1>2. TypeOK
    BY <1>0, <1>1 DEF Init, TypeOK, RequestRow
  <1>3. NothingUnpaid /\ PendingIsAsked /\ AllowanceKept /\ TurnsAreKnown /\ SlotsAreKept
    BY <1>0, <1>1 DEF NothingUnpaid, PendingIsAsked, AllowanceKept, TurnsAreKnown, SlotsAreKept
  <1>4. TimesAreRecent /\ RoomIsHeld
    BY <1>0, <1>1 DEF TimesAreRecent, InTransaction, RoomIsHeld
  <1> QED BY <1>2, <1>3, <1>4 DEF IInv, Inv

LEMMA EveryStep ==
  ASSUME IInv, [Next]_vars
  PROVE  IInv'
  <1>1. CASE Next
    BY <1>1, RouteSteps, CountSteps, EndSteps, SettleSteps, CommitSteps, ClearSteps, TickSteps DEF Next
  <1>2. CASE UNCHANGED vars
    BY <1>2 DEF vars, IInv, Inv, TypeOK, NothingUnpaid, PendingIsAsked, AllowanceKept, Recent, TurnsAreKnown,
                TimesAreRecent, InTransaction, SlotsAreKept, RoomIsHeld, InWindow
  <1> QED BY <1>1, <1>2

\* The inductive invariant: what a request knows, which slots are pruned and when,
\* and that the room a request counted is still there when it commits.
THEOREM Inductive == Spec => []IInv
  BY Initially, EveryStep, PTL DEF Spec

\* Every turn and every call of the model has its slot, and every turn that waits is
\* asked, whatever is refused, rolled back, cleared or dies (rateLimit.ts:52-60,
\* conversation.routes.ts).
THEOREM PaidAndAsked == Spec => []Inv
  BY Inductive, PTL DEF IInv

\* No window sees more than Limit requests, however many race: who waits for the lock
\* counts from an old clock, but not from one older than a transaction may stay open.
THEOREM AllowanceIsKept == Spec => []AllowanceKept
  BY Inductive, PTL DEF IInv

\* An answer stays, a failure never waits again, what was cleared does not come back.
THEOREM OnlyForward == Spec => TurnsGoForward
  <1>1. IInv /\ [Next]_vars =>
          [\A t \in Requests :
             /\ turn[t] = None /\ turn'[t] # None => request[t].at = "insert"
             /\ turn[t] # None /\ turn'[t] # None =>
                    /\ turn[t].status = "answered" => turn'[t] = turn[t]
                    /\ turn[t].status = "failed" => turn'[t].status # "pending"]_vars
    <2> SUFFICES ASSUME IInv, Next, NEW t \in Requests, turn'[t] # turn[t], turn'[t] # None
                 PROVE  /\ turn[t] = None => request[t].at = "insert"
                        /\ turn[t] # None => /\ turn[t].status # "answered"
                                             /\ turn[t].status = "failed" => turn'[t].status # "pending"
      OBVIOUS
    <2>0. turn \in [Requests -> TurnRow \cup {None}]
      BY DEF IInv, Inv, TypeOK, TurnRow
    <2>1. PICK p \in Requests : Commit(p) \/ \E ok \in BOOLEAN : Settle(p, ok)
      BY <2>0 DEF Next, Tick, Clear, Ask, Summarize, Begin, Count, Rollback, Die, Retry
    <2>2. CASE Commit(p)
      <3>1. request[p].at = "insert" /\ turn[p] = None
        BY <2>2 DEF Commit, IInv, Inv, NothingUnpaid, TurnsAreKnown
      <3>2. t = p
        BY <2>0, <2>2 DEF Commit
      <3> QED BY <3>1, <3>2
    <2>3. CASE \E ok \in BOOLEAN : Settle(p, ok)
      <3>1. PICK ok \in BOOLEAN : Settle(p, ok)
        BY <2>3
      <3>2. /\ request[p].at = "asking" /\ Expected(p) /\ t = request[p].turn
            /\ turn' = [turn EXCEPT ![t] = [@ EXCEPT !.status = Outcome(p, ok).status,
                                                     !.by = Outcome(p, ok).by]]
        BY <2>0, <3>1 DEF Settle
      <3>3. turn[t] # None /\ turn[t].status \in {"pending", "failed"}
        BY <3>2 DEF Expected, IInv, TurnsAreKnown, Kinds
      <3>4. turn[t] \in TurnRow
        BY <2>0, <3>3
      <3>5. turn'[t].status \in {"answered", "failed"}
        BY <2>0, <3>2, <3>4 DEF Outcome, TurnRow
      <3> QED BY <3>3, <3>5
    <2> QED BY <2>1, <2>2, <2>3
  <1> QED BY <1>1, Inductive, PTL DEF Spec, TurnsGoForward

-----------------------------------------------------------------------------
(* Recording: what a request knows *)

\* Where a request stands that is not the processing of a recording.
Elsewhere == {Idle, <<"start">>, <<"sweep">>, <<"rows">>, <<"text">>}
                \cup ({"confirm"} \X Sessions \X Seqs)

\* A session that was there stays there, one that is over stays over.
Forward == \A s \in Sessions :
              /\ session[s] # "none" => session'[s] # "none"
              /\ session[s] \in {"gone"} \cup Ended => session'[s] \in {"gone"} \cup Ended

LEMMA ElsewhereIsElsewhere ==
  ASSUME NEW x \in Elsewhere
  PROVE  /\ x \notin {<<"process">>, <<"latest", NoSession>>, <<"counting">>, <<"counted">>}
         /\ \A s \in Sessions : x # <<"latest", s>>
  BY DEF Elsewhere, Idle

LEMMA SawKept ==
  ASSUME RowsAgree, Forward,
         \/ req' = req
         \/ \E r \in Calls, x \in Elsewhere : req' = [req EXCEPT ![r] = x]
  PROVE  ProcessSaw'
  <1> USE DEF RowsAgree
  <1>0. /\ \A s \in Sessions : session[s] # "none" => session'[s] # "none"
        /\ \A s \in Sessions : session[s] \in {"gone"} \cup Ended => session'[s] \in {"gone"} \cup Ended
    BY DEF Forward
  <1>1. SUFFICES ASSUME NEW r \in Calls
                 PROVE  /\ req'[r] = <<"process">> => \E s \in Sessions : session'[s] # "none"
                        /\ \A s \in Sessions : req'[r] = <<"latest", s>> => session'[s] # "none"
                        /\ req'[r] \in {<<"latest", NoSession>>, <<"counting">>, <<"counted">>} =>
                              \E s \in Sessions : session'[s] \in {"gone"} \cup Ended
    BY DEF ProcessSaw
  <1>2. req'[r] = req[r] \/ req'[r] \in Elsewhere
    BY DEF RecordingTypeOK
  <1>3. CASE req'[r] = req[r]
    BY <1>0, <1>3 DEF ProcessSaw
  <1>4. CASE req'[r] \in Elsewhere
    BY <1>4, ElsewhereIsElsewhere
  <1> QED BY <1>2, <1>3, <1>4

-----------------------------------------------------------------------------
(* Recording: steps that leave the invariant's variables alone *)

\* What the rows of the meeting, its sessions and its chunks are about; the rest
\* of the state (bucket, policies) only has to stay well-typed.
rows == <<status, jobs, session, chunk>>
RestTyped == /\ source' \in {"recorded", "uploaded", "text"}
             /\ consent' \in BOOLEAN /\ silent' \in BOOLEAN
             /\ object' \in [Seqs -> Sessions \cup {NoSession}]
             /\ policy' \subseteq Sessions \X Seqs
             /\ req' \in [Calls -> Standings]

LEMMA RowsUntouched ==
  ASSUME RowsAgree, UNCHANGED rows, RestTyped, ProcessSaw'
  PROVE  RowsAgree'
  <1>1. RecordingTypeOK'
    BY DEF RowsAgree, RecordingTypeOK, RestTyped, rows
  <1>2. LiveWhileRecording' /\ OneJob'
    BY DEF RowsAgree, LiveWhileRecording, OneJob, rows
  <1>3. OneRecording' /\ SessionsEnd'
    BY DEF RowsAgree, OneRecording, SessionsEnd, rows, NoChunks
  <1> QED BY <1>1, <1>2, <1>3 DEF RowsAgree

\* The steps outside the requests.
LEMMA EditsHarmless ==
  ASSUME RowsAgree,
         \/ Consent \/ GoesSilent
         \/ \E new \in {"recorded", "uploaded", "text"} : ChangeSource(new)
         \/ \E s \in Sessions : Heartbeat(s) \/ \E q \in Seqs : Remint(s, q)
         \/ \E p \in policy : PolicyExpires(p) \/ Upload(p)
  PROVE  UNCHANGED rows /\ RestTyped /\ req' = req
  <1> USE DEF RowsAgree, RecordingTypeOK, RestTyped, rows, meeting
  <1>1. CASE Consent
    BY <1>1 DEF Consent
  <1>2. CASE GoesSilent
    BY <1>2 DEF GoesSilent
  <1>3. CASE \E new \in {"recorded", "uploaded", "text"} : ChangeSource(new)
    BY <1>3 DEF ChangeSource
  <1>4. CASE \E s \in Sessions : Heartbeat(s)
    BY <1>4 DEF Heartbeat
  <1>5. CASE \E s \in Sessions, q \in Seqs : Remint(s, q)
    BY <1>5 DEF Remint
  <1>6. CASE \E p \in policy : PolicyExpires(p)
    BY <1>6 DEF PolicyExpires
  <1>7. CASE \E p \in policy : Upload(p)
    BY <1>7 DEF Upload
  <1> QED BY <1>1, <1>2, <1>3, <1>4, <1>5, <1>6, <1>7

\* The steps of a request that change no row and see nothing for a processing.
LEMMA ReadsHarmless ==
  ASSUME RowsAgree, NEW r \in Calls,
         \/ ReadText(r) \/ StartReads(r) \/ DiscardReads(r) \/ DiscardSweep(r)
         \/ RequestEnds(r)
         \/ \E s \in Sessions, q \in Seqs : ConfirmReads(r, s, q)
  PROVE  /\ UNCHANGED rows /\ RestTyped
         /\ \E x \in Elsewhere : req' = [req EXCEPT ![r] = x]
  <1> USE DEF RowsAgree, RecordingTypeOK, RestTyped, rows, meeting, Idle, Standings, Elsewhere
  <1>1. CASE ReadText(r)
    BY <1>1 DEF ReadText
  <1>2. CASE StartReads(r)
    BY <1>2 DEF StartReads
  <1>3. CASE DiscardReads(r)
    BY <1>3 DEF DiscardReads
  <1>4. CASE DiscardSweep(r)
    BY <1>4 DEF DiscardSweep
  <1>5. CASE RequestEnds(r)
    BY <1>5 DEF RequestEnds
  <1>6. CASE \E s \in Sessions, q \in Seqs : ConfirmReads(r, s, q)
    <2>1. PICK s \in Sessions, q \in Seqs : ConfirmReads(r, s, q)
      BY <1>6
    <2>2. <<"confirm", s, q>> \in Elsewhere /\ <<"confirm", s, q>> \in Standings
      OBVIOUS
    <2>3. req' = [req EXCEPT ![r] = <<"confirm", s, q>>]
      BY <2>1 DEF ConfirmReads
    <2>4. UNCHANGED rows /\ RestTyped
      BY <2>1, <2>2 DEF ConfirmReads
    <2> QED BY <2>2, <2>3, <2>4
  <1> QED BY <1>1, <1>2, <1>3, <1>4, <1>5, <1>6

\* What a processing reads, before it decides.
ProcessLooking(r) ==
  \/ ProcessReads(r) \/ ProcessCounts(r)
  \/ \E s \in Sessions \cup {NoSession} : ProcessLooks(r, s) \/ ProcessUnlocked(r, s)

LEMMA LookingHarmless ==
  ASSUME RowsAgree, NEW r \in Calls, ProcessLooking(r)
  PROVE  UNCHANGED rows /\ RestTyped
  <1> USE DEF RowsAgree, RecordingTypeOK, RestTyped, rows, meeting, Standings
  <1>1. CASE ProcessReads(r)
    BY <1>1 DEF ProcessReads
  <1>2. CASE ProcessCounts(r)
    BY <1>2 DEF ProcessCounts
  <1>3. CASE \E s \in Sessions \cup {NoSession} : ProcessLooks(r, s)
    BY <1>3 DEF ProcessLooks
  <1>4. CASE \E s \in Sessions \cup {NoSession} : ProcessUnlocked(r, s)
    BY <1>4 DEF ProcessUnlocked
  <1> QED BY <1>1, <1>2, <1>3, <1>4 DEF ProcessLooking

\* A standing of a processing is one thing only.
LEMMA StandingsDiffer ==
  /\ <<"process">> \notin {<<"latest", NoSession>>, <<"counting">>, <<"counted">>}
  /\ \A s \in Sessions \cup {NoSession} : <<"latest", s>> \notin {<<"process">>, <<"counting">>, <<"counted">>}
  /\ \A s \in Sessions : <<"latest", s>> # <<"latest", NoSession>>
  /\ \A s, t \in Sessions : <<"latest", s>> = <<"latest", t>> => s = t
  BY NoSessionAssumption

LEMMA LookingSees ==
  ASSUME RowsAgree, NEW r \in Calls, ProcessLooking(r)
  PROVE  ProcessSaw'
  <1> USE DEF RowsAgree, Standings
  <1>0. session' = session
    BY LookingHarmless DEF rows
  <1>1. PICK x \in Standings :
           /\ req' = [req EXCEPT ![r] = x]
           /\ x = <<"process">> => \E s \in Sessions : session[s] # "none"
           /\ \A s \in Sessions : x = <<"latest", s>> => session[s] # "none"
           /\ x \in {<<"latest", NoSession>>, <<"counting">>, <<"counted">>} =>
                 \E s \in Sessions : session[s] \in {"gone"} \cup Ended
    <2>1. CASE ProcessReads(r)
      <3>1. \E s \in Sessions : session[s] # "none"
        BY <2>1 DEF ProcessReads, LiveWhileRecording
      <3> WITNESS <<"process">> \in Standings
      <3> QED BY <2>1, <3>1, StandingsDiffer DEF ProcessReads
    <2>2. CASE ProcessCounts(r)
      <3>1. \E s \in Sessions : session[s] \in {"gone"} \cup Ended
        BY <2>2 DEF ProcessCounts, ProcessSaw
      <3> WITNESS <<"counted">> \in Standings
      <3> QED BY <2>2, <3>1, StandingsDiffer DEF ProcessCounts
    <2>3. ASSUME NEW s \in Sessions, ProcessLooks(r, s)
          PROVE  \E x \in Standings :
                    /\ req' = [req EXCEPT ![r] = x]
                    /\ x = <<"process">> => \E t \in Sessions : session[t] # "none"
                    /\ \A t \in Sessions : x = <<"latest", t>> => session[t] # "none"
                    /\ x \in {<<"latest", NoSession>>, <<"counting">>, <<"counted">>} =>
                          \E t \in Sessions : session[t] \in {"gone"} \cup Ended
      <3>1. session[s] # "none"
        BY <2>3, NoSessionAssumption DEF ProcessLooks, Ended
      <3> WITNESS <<"latest", s>> \in Standings
      <3> QED BY <2>3, <3>1, StandingsDiffer DEF ProcessLooks
    <2>4. CASE ProcessLooks(r, NoSession)
      <3>1. \E s \in Sessions : session[s] \in {"gone"} \cup Ended
        BY <2>4 DEF ProcessLooks, ProcessSaw
      <3> WITNESS <<"latest", NoSession>> \in Standings
      <3> QED BY <2>4, <3>1, StandingsDiffer DEF ProcessLooks
    <2>5. CASE \E s \in Sessions \cup {NoSession} : ProcessUnlocked(r, s)
      <3>1. \E s \in Sessions : session[s] \in {"gone"} \cup Ended
        BY <2>5, NoSessionAssumption DEF ProcessUnlocked, ProcessSaw, RecordingTypeOK
      <3> WITNESS <<"counting">> \in Standings
      <3> QED BY <2>5, <3>1, StandingsDiffer DEF ProcessUnlocked
    <2> QED BY <2>1, <2>2, <2>3, <2>4, <2>5 DEF ProcessLooking
  <1>2. \A p \in Calls : req'[p] = IF p = r THEN x ELSE req[p]
    BY <1>1 DEF RecordingTypeOK
  <1> QED BY <1>0, <1>1, <1>2 DEF ProcessSaw

-----------------------------------------------------------------------------
(* Recording: steps that change rows *)

\* A pasted text makes a draft ready; a meeting that records is refused.
LEMMA TextKeeps ==
  ASSUME RowsAgree, NEW r \in Calls, WriteText(r)
  PROVE  RowsAgree'
  <1> USE DEF RowsAgree, WriteText
  <1>1. RecordingTypeOK'
    BY DEF RecordingTypeOK, Idle, Standings
  <1>2. LiveWhileRecording' /\ OneJob'
    BY DEF LiveWhileRecording, OneJob
  <1>3. OneRecording' /\ SessionsEnd'
    BY DEF OneRecording, SessionsEnd, NoChunks, Ended
  <1>4. ProcessSaw'
    BY SawKept DEF Forward, Elsewhere
  <1> QED BY <1>1, <1>2, <1>3, <1>4

LEMMA StartKeeps ==
  ASSUME RowsAgree, NEW r \in Calls, NEW s \in Sessions, Start(r, s)
  PROVE  RowsAgree'
  <1> USE DEF RowsAgree
  <1>1. 0 \in Seqs
    BY MaxSeqAssumption DEF Seqs
  <1>2. RecordingTypeOK'
    <2>1. policy' \subseteq Sessions \X Seqs
      BY <1>1 DEF RecordingTypeOK, Start
    <2>2. req' \in [Calls -> Standings]
      BY DEF RecordingTypeOK, Start, Standings
    <2>3. session' \in [Sessions -> {"none", "live", "gone"} \cup Ended]
      BY DEF RecordingTypeOK, Start
    <2> QED BY <2>1, <2>2, <2>3 DEF RecordingTypeOK, Start
  <1>3. \A t \in Sessions : session[t] \notin {"live"} \cup Ended
    BY DEF SessionsEnd, Start, Ended
  <1>4. /\ session' \in [Sessions -> {"none", "live", "gone"} \cup Ended]
        /\ session'[s] = "live" /\ session[s] = "none"
        /\ \A t \in Sessions \ {s} : session'[t] = session[t]
    BY DEF Start, RecordingTypeOK
  <1>5. LiveWhileRecording' /\ OneJob'
    BY <1>3, <1>4 DEF LiveWhileRecording, OneJob, Start
  <1>6. SessionsEnd'
    BY <1>3, <1>4 DEF SessionsEnd, Start, Ended
  <1>7. \A q \in Seqs : chunk'[q] = NoSession
    BY DEF OneRecording, NoChunks, Start
  <1>8. OneRecording'
    BY <1>7 DEF OneRecording, Start
  <1>9. ProcessSaw'
    BY <1>4, SawKept DEF Forward, Elsewhere, Start, Ended
  <1> QED BY <1>2, <1>5, <1>6, <1>8, <1>9

LEMMA ConfirmKeeps ==
  ASSUME RowsAgree, NEW r \in Calls, NEW s \in Sessions, NEW q \in Seqs, Confirm(r, s, q)
  PROVE  RowsAgree'
  <1> USE DEF RowsAgree
  <1>1. RecordingTypeOK'
    BY DEF RecordingTypeOK, Confirm, Idle, meeting, Standings
  <1>2. LiveWhileRecording' /\ OneJob'
    BY DEF LiveWhileRecording, OneJob, Confirm, meeting
  <1>3. /\ chunk'[q] = s /\ session[s] = "live" /\ session' = session
        /\ \A k \in Seqs \ {q} : chunk'[k] = chunk[k]
        /\ status' = status /\ status \in {"recording", "processing"}
    BY DEF Confirm, meeting, RecordingTypeOK, LiveWhileRecording
  <1>4. \A k \in Seqs : chunk[k] # NoSession => chunk[k] = s
    <2> SUFFICES ASSUME NEW k \in Seqs, chunk[k] # NoSession
                 PROVE  chunk[k] = s
      OBVIOUS
    <2>1. chunk[k] \in Sessions /\ session[chunk[k]] \in {"live"} \cup Ended
      BY DEF RecordingTypeOK, OneRecording
    <2> QED BY <2>1, <1>3 DEF SessionsEnd
  <1>5. OneRecording'
    BY <1>3, <1>4 DEF OneRecording
  <1>6. SessionsEnd'
    <2>1. \A t \in Sessions : session[t] \notin Ended
      BY <1>3 DEF SessionsEnd, Ended
    <2> QED BY <1>3, <2>1 DEF SessionsEnd
  <1>7. ProcessSaw'
    BY <1>3, SawKept DEF Forward, Elsewhere, Confirm
  <1> QED BY <1>1, <1>2, <1>5, <1>6, <1>7

\* Stop and process share what they do to the rows: the session that is locked,
\* which is live, ends.  Without one, a session was discarded before.
LEMMA BeginKeeps ==
  ASSUME RowsAgree, NEW reason \in Ended, NEW locked \in SUBSET Sessions,
         BeginProcessing(locked, reason),
         \A s \in locked : session[s] = "live",
         locked # {} => chunk # NoChunks,
         locked = {} => \E s \in Sessions : session[s] \in {"gone"} \cup Ended,
         \/ req' = req
         \/ \E r \in Calls : req' = [req EXCEPT ![r] = Idle]
  PROVE  RowsAgree'
  <1> USE DEF RowsAgree
  <1>1. RecordingTypeOK'
    BY DEF RecordingTypeOK, BeginProcessing, Ended, Standings
  <1>2. /\ \A s \in Sessions : session'[s] = IF s \in locked THEN reason ELSE session[s]
        /\ status' = "processing" /\ status = "recording" /\ chunk' = chunk
    BY DEF BeginProcessing, RecordingTypeOK
  <1>3. \A s \in Sessions :
           /\ session'[s] = "live" => session[s] = "live" /\ s \notin locked
           /\ session'[s] \in {"live"} \cup Ended <=> session[s] \in {"live"} \cup Ended
           /\ session[s] = "gone" => session'[s] = "gone"
           /\ session[s] \notin Ended
    BY <1>2 DEF Ended, SessionsEnd
  <1>4. locked = {} => \E t \in Sessions : session'[t] = "gone"
    BY <1>3
  <1>5. \A s \in Sessions : session'[s] = "live" => \E t \in Sessions : session'[t] = "gone"
    BY <1>3, <1>4 DEF LiveWhileRecording
  <1>6. LiveWhileRecording'
    BY <1>2, <1>3, <1>5 DEF LiveWhileRecording
  <1>7. SessionsEnd'
    <2>1. \A s \in Sessions : session'[s] \in Ended => s \in locked
      BY <1>2, <1>3
    <2> QED BY <1>2, <1>3, <2>1 DEF SessionsEnd
  <1>8. OneJob'
    BY DEF OneJob, BeginProcessing
  <1>9. OneRecording'
    BY <1>2, <1>3 DEF OneRecording, RecordingTypeOK
  <1>10. ProcessSaw'
    BY <1>2, SawKept DEF Forward, Elsewhere, Ended
  <1> QED BY <1>1, <1>6, <1>7, <1>8, <1>9, <1>10

\* A stop has found its chunks, the processing of a silent session has counted
\* them under the session's lock, and any other has seen no session it could lock.
LEMMA BeginsKeep ==
  ASSUME RowsAgree,
         \/ \E s \in Sessions, q \in Seqs : Stop(s, q)
         \/ \E r \in Calls : ProcessFlips(r) \/ \E s \in Sessions : ProcessLocked(r, s)
  PROVE  RowsAgree'
  <1>0. {"stopped", "processed"} = Ended
    BY DEF Ended
  <1>1. ASSUME NEW s \in Sessions, NEW q \in Seqs, Stop(s, q)
        PROVE  RowsAgree'
    <2>1. 0 \in Seqs /\ 0 \in 0..q
      BY MaxSeqAssumption DEF Seqs
    <2>2. chunk # NoChunks
      BY <1>1, <2>1 DEF Stop, NoChunks
    <2>3. "stopped" \in Ended /\ {s} \in SUBSET Sessions /\ {s} # {}
      BY <1>0
    <2> QED BY <1>1, <2>2, <2>3, BeginKeeps DEF Stop
  <1>2. ASSUME NEW r \in Calls, NEW s \in Sessions, ProcessLocked(r, s)
        PROVE  RowsAgree'
    <2>1. "processed" \in Ended /\ {s} \in SUBSET Sessions /\ {s} # {}
      BY <1>0
    <2> QED BY <1>2, <2>1, BeginKeeps DEF ProcessLocked
  <1>3. ASSUME NEW r \in Calls, ProcessFlips(r)
        PROVE  RowsAgree'
    <2>1. \E s \in Sessions : session[s] \in {"gone"} \cup Ended
      BY <1>3 DEF ProcessFlips, RowsAgree, ProcessSaw
    <2>2. "processed" \in Ended /\ {} \in SUBSET Sessions
      BY <1>0
    <2> QED BY <1>3, <2>1, <2>2, BeginKeeps DEF ProcessFlips
  <1> QED BY <1>1, <1>2, <1>3

LEMMA DiscardKeeps ==
  ASSUME RowsAgree, NEW r \in Calls, Discard(r)
  PROVE  RowsAgree'
  <1> USE DEF RowsAgree
  <1>1. \A s \in Sessions : /\ session'[s] \in {"none", "gone"}
                            /\ session[s] # "none" => session'[s] = "gone"
    BY DEF Discard, RecordingTypeOK
  <1>2. RecordingTypeOK'
    BY DEF RecordingTypeOK, Discard, Idle, NoChunks, Standings
  <1>3. \A q \in Seqs : chunk'[q] = NoSession
    BY DEF Discard, NoChunks
  <1>4. LiveWhileRecording' /\ SessionsEnd' /\ OneJob'
    BY <1>1 DEF LiveWhileRecording, SessionsEnd, OneJob, Discard, Ended
  <1>5. OneRecording'
    BY <1>3 DEF OneRecording, Discard, NoChunks
  <1>6. ProcessSaw'
    BY <1>1, SawKept DEF Forward, Elsewhere, Discard, Ended
  <1> QED BY <1>2, <1>4, <1>5, <1>6

-----------------------------------------------------------------------------
(* Recording: the invariant *)

LEMMA InitHolds == RecordingInit => RowsAgree
  <1> SUFFICES ASSUME RecordingInit PROVE RowsAgree
    OBVIOUS
  <1>1. RecordingTypeOK
    BY DEF RecordingInit, RecordingTypeOK, NoChunks, Idle, Standings
  <1>2. LiveWhileRecording /\ OneJob /\ SessionsEnd
    BY DEF RecordingInit, LiveWhileRecording, OneJob, SessionsEnd, Ended
  <1>3. OneRecording
    BY DEF RecordingInit, OneRecording, NoChunks
  <1>4. Idle \in Elsewhere
    BY DEF Elsewhere
  <1>5. ProcessSaw
    BY <1>4, ElsewhereIsElsewhere DEF RecordingInit, ProcessSaw
  <1> QED BY <1>1, <1>2, <1>3, <1>5 DEF RowsAgree

LEMMA StepKeeps ==
  ASSUME RowsAgree, [RecordingNext]_recordingVars
  PROVE  RowsAgree'
  <1>1. CASE UNCHANGED recordingVars
    <2>1. ProcessSaw'
      BY <1>1 DEF recordingVars, RowsAgree, ProcessSaw
    <2> QED BY <1>1, <2>1, RowsUntouched
            DEF recordingVars, meeting, rows, RestTyped, RowsAgree, RecordingTypeOK
  <1>2. CASE \/ Consent \/ GoesSilent
             \/ \E new \in {"recorded", "uploaded", "text"} : ChangeSource(new)
             \/ \E s \in Sessions : Heartbeat(s) \/ \E q \in Seqs : Remint(s, q)
             \/ \E p \in policy : PolicyExpires(p) \/ Upload(p)
    <2>1. UNCHANGED rows /\ RestTyped /\ req' = req
      BY <1>2, EditsHarmless
    <2>2. Forward
      BY <2>1 DEF rows, Forward
    <2> QED BY <2>1, <2>2, SawKept, RowsUntouched
  <1>3. CASE \/ \E s \in Sessions, q \in Seqs : Stop(s, q)
             \/ \E r \in Calls : ProcessFlips(r) \/ \E s \in Sessions : ProcessLocked(r, s)
    BY <1>3, BeginsKeep
  <1>4. ASSUME NEW r \in Calls, RequestStep(r)
        PROVE  RowsAgree'
    <2>1. CASE \/ ReadText(r) \/ StartReads(r) \/ DiscardReads(r) \/ DiscardSweep(r)
               \/ RequestEnds(r)
               \/ \E s \in Sessions, q \in Seqs : ConfirmReads(r, s, q)
      <3>1. /\ UNCHANGED rows /\ RestTyped
            /\ \E x \in Elsewhere : req' = [req EXCEPT ![r] = x]
        BY <2>1, ReadsHarmless
      <3>2. Forward
        BY <3>1 DEF rows, Forward
      <3> QED BY <3>1, <3>2, SawKept, RowsUntouched
    <2>2. CASE WriteText(r)
      BY <2>2, TextKeeps
    <2>3. CASE \E s \in Sessions : Start(r, s)
      BY <2>3, StartKeeps
    <2>4. CASE \E s \in Sessions, q \in Seqs : Confirm(r, s, q)
      BY <2>4, ConfirmKeeps
    <2>5. CASE Discard(r)
      BY <2>5, DiscardKeeps
    <2>6. CASE ProcessLooking(r)
      BY <2>6, LookingHarmless, LookingSees, RowsUntouched
    <2>7. CASE ProcessFlips(r) \/ \E s \in Sessions : ProcessLocked(r, s)
      BY <2>7, BeginsKeep
    <2> QED BY <1>4, <2>1, <2>2, <2>3, <2>4, <2>5, <2>6, <2>7 DEF RequestStep, ProcessLooking
  <1> QED BY <1>1, <1>2, <1>3, <1>4 DEF RecordingNext

\* However starts, confirms, stops, processings and discards of any number of
\* tabs race, the session rows agree with the status as far as the code goes, the
\* chunk rows are one recording's and at most one job was enqueued.
THEOREM RecordingInductive == RecordingSpec => []RowsAgree
  <1>1. RowsAgree /\ [RecordingNext]_recordingVars => RowsAgree'
    BY StepKeeps
  <1> QED BY <1>1, InitHolds, PTL DEF RecordingSpec

\* A meeting records with exactly one open session (recording.routes.ts:213-219),
\* and no other meeting has one but a meeting that is processing after a discard:
\* a processing that decided before it leaves the next session open (442, 393).
THEOREM SessionsMatchStatus == RecordingSpec => []LiveWhileRecording
  <1>1. RowsAgree => LiveWhileRecording
    BY DEF RowsAgree
  <1> QED BY <1>1, RecordingInductive, PTL

\* No chunk of a discarded recording is taken over by the next
\* (recording.routes.ts:459-465).
THEOREM RecordingsApart == RecordingSpec => []OneRecording
  <1>1. RowsAgree => OneRecording
    BY DEF RowsAgree
  <1> QED BY <1>1, RecordingInductive, PTL

\* Stop is exactly-once, repeated or raced (recording.routes.ts:371-376).
THEOREM OneJobOnly == RecordingSpec => []OneJob
  <1>1. RowsAgree => OneJob
    BY DEF RowsAgree
  <1> QED BY <1>1, RecordingInductive, PTL

-----------------------------------------------------------------------------
(* Recording: what processing reads *)

LEMMA StepFrozen ==
  ASSUME RowsAgree, RecordingNext, status = "processing"
  PROVE  /\ status' = "processing" /\ source' = source
         /\ chunk' = chunk \/ \E s \in Sessions : session[s] = "live"
  <1>1. CASE \/ Consent \/ GoesSilent
             \/ \E new \in {"recorded", "uploaded", "text"} : ChangeSource(new)
             \/ \E s \in Sessions : Heartbeat(s) \/ \E q \in Seqs : Remint(s, q)
             \/ \E p \in policy : PolicyExpires(p) \/ Upload(p)
    <2>1. status' = "processing" /\ chunk' = chunk
      BY <1>1, EditsHarmless DEF rows
    <2>2. source' = source
      BY <1>1
         DEF Consent, GoesSilent, ChangeSource, Heartbeat, Remint,
             PolicyExpires, Upload, meeting
    <2> QED BY <2>1, <2>2
  <1>2. CASE \E s \in Sessions, q \in Seqs : Stop(s, q)
    BY <1>2 DEF Stop, BeginProcessing
  <1>3. ASSUME NEW r \in Calls, RequestStep(r)
        PROVE  /\ status' = "processing" /\ source' = source
               /\ chunk' = chunk \/ \E s \in Sessions : session[s] = "live"
    <2>1. CASE \/ ReadText(r) \/ StartReads(r) \/ DiscardReads(r) \/ DiscardSweep(r)
               \/ RequestEnds(r)
               \/ \E s \in Sessions, q \in Seqs : ConfirmReads(r, s, q)
      <3>1. status' = "processing" /\ chunk' = chunk
        BY <2>1, ReadsHarmless DEF rows
      <3>2. source' = source
        BY <2>1
           DEF ReadText, StartReads, DiscardReads, DiscardSweep, RequestEnds,
               ConfirmReads, meeting
      <3> QED BY <3>1, <3>2
    <2>2. CASE ProcessLooking(r)
      BY <2>2 DEF ProcessLooking, ProcessReads, ProcessCounts, ProcessLooks, ProcessUnlocked, meeting
    <2>3. /\ ~WriteText(r) /\ ~Discard(r) /\ \A s \in Sessions : ~Start(r, s)
          /\ ~ProcessFlips(r) /\ \A s \in Sessions : ~ProcessLocked(r, s)
      BY DEF WriteText, Discard, Start, ProcessFlips, ProcessLocked, BeginProcessing
    <2>4. CASE \E s \in Sessions, q \in Seqs : Confirm(r, s, q)
      BY <2>4 DEF Confirm, meeting
    <2> QED BY <1>3, <2>1, <2>2, <2>3, <2>4 DEF RequestStep, ProcessLooking
  <1> QED BY <1>1, <1>2, <1>3 DEF RecordingNext

\* What the job is about to read does not change under it, whatever requests
\* read before processing began (recording.routes.ts:65-75, 382, 460), but for the
\* chunks of a session that the processing left open.
THEOREM ProcessingFrozen == RecordingSpec => ProcessingIsFrozen
  <1>1. RowsAgree /\ [RecordingNext]_recordingVars
          => [status = "processing" =>
                 /\ status' = "processing" /\ source' = source
                 /\ chunk' = chunk \/ \E s \in Sessions : session[s] = "live"]_recordingVars
    BY StepFrozen
  <1> QED BY <1>1, RecordingInductive, PTL DEF RecordingSpec, ProcessingIsFrozen

=============================================================================
