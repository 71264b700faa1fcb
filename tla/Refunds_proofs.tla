--------------------------- MODULE Refunds_proofs ---------------------------
(***************************************************************************)
(* Proofs about Refunds, for any requests, lines and batches, any amounts  *)
(* and any number of rate changes: its invariants, and that it implements  *)
(* RefundLedger.                                                           *)
(***************************************************************************)
EXTENDS Refunds, TLAPS

USE OfAssumption, AmountsAssumption, RateAssumption, NoneAssumption

THEOREM Initially == Init => IInv /\ Ledger!Init
  <1> SUFFICES ASSUME Init PROVE IInv /\ Ledger!Init
    OBVIOUS
  <1>1. NoLine("none") \in LineRows
    BY DEF NoLine, LineRows, Kinds, Values
  <1>2. TypeOK
    BY <1>1 DEF Init, TypeOK, Statuses
  <1>3. IInv
    BY <1>2 DEF Init, IInv, MembersAreDecided, HeldAreEligible, OneLiveBatch, PaidTogether,
                EveryLineDecided, DrawnTellsTheBatch, PdfTellsTheBatch, Decided, Live, Members
  <1>4. Ledger!Init
    BY DEF Init, Ledger!Init, owed, paid, Decided
  <1> QED BY <1>3, <1>4

-----------------------------------------------------------------------------
(* Amounts *)

LEMMA BillIsDecided ==
  ASSUME TypeOK, EveryLineDecided, NEW r \in Requests, Decided(r)
  PROVE  Bill(r) \in Bills /\ Bill(r) # None
  <1>1. \A l \in LinesOf(r) : line[l].granted \in Values
    BY DEF LinesOf, TypeOK, LineRows, EveryLineDecided
  <1>2. LinesOf(r) \in SUBSET Lines
    BY DEF LinesOf
  <1>3. Bill(r) \in [LinesOf(r) -> Values]
    BY <1>1 DEF Bill
  <1>4. Bill(r) \in Bills
    BY <1>2, <1>3 DEF Bills
  <1> QED BY <1>4

\* A document shows members that are decided.
LEMMA DocumentIsTyped ==
  ASSUME TypeOK, EveryLineDecided, NEW rs \in SUBSET Requests, \A r \in rs : Decided(r)
  PROVE  [r \in rs |-> Bill(r)] \in Documents
  <1>1. \A r \in rs : Bill(r) \in Bills
    BY BillIsDecided
  <1>2. [r \in rs |-> Bill(r)] \in [rs -> Bills]
    BY <1>1
  <1> QED BY <1>2 DEF Documents

\* An unchanged bill has the same lines at the same amounts.
LEMMA SameBill ==
  ASSUME NEW r \in Requests, Bill(r)' = Bill(r)
  PROVE  /\ LinesOf(r)' = LinesOf(r)
         /\ \A l \in LinesOf(r) : line'[l].granted = line[l].granted
  <1>1. DOMAIN Bill(r)' = LinesOf(r)' /\ DOMAIN Bill(r) = LinesOf(r)
    BY DEF Bill
  <1>2. \A l \in LinesOf(r) : Bill(r)[l] = line[l].granted
    BY DEF Bill
  <1>3. \A l \in LinesOf(r)' : Bill(r)'[l] = line'[l].granted
    BY DEF Bill
  <1> QED BY <1>1, <1>2, <1>3

\* Rows that are the same for the lines of a request give the same bill.
LEMMA SameRows ==
  ASSUME NEW r \in Requests, \A l \in Lines : Of[l] = r => line'[l] = line[l]
  PROVE  Bill(r)' = Bill(r)
  <1>1. LinesOf(r)' = LinesOf(r)
    BY DEF LinesOf
  <1>2. \A l \in LinesOf(r) : line'[l] = line[l]
    BY DEF LinesOf
  <1> QED BY <1>1, <1>2 DEF Bill

-----------------------------------------------------------------------------
(* The steps of a request that is not decided *)

\* What all of them have in common.
Quiet == /\ UNCHANGED batches
         /\ \A r \in Requests : Decided(r) => status'[r] = status[r] /\ Bill(r)' = Bill(r)
         /\ \A r \in Requests : Decided(r)' => Decided(r)

LEMMA QuietKeeps ==
  ASSUME IInv, Quiet, TypeOK'
  PROVE  IInv' /\ UNCHANGED <<owed, paid>>
  <1> USE DEF IInv, Quiet
  <1>1. \A r \in Requests : Decided(r)' <=> Decided(r)
    BY DEF Decided
  <1>2. \A b \in Batches : Members(b)' = Members(b) /\ (Live(b)' <=> Live(b))
    BY DEF Members, Live, batches
  <1>3. MembersAreDecided' /\ OneLiveBatch'
    BY <1>1, <1>2 DEF MembersAreDecided, OneLiveBatch, batches
  <1>4. \A r \in Requests : r \in Eligible => r \in Eligible'
    BY DEF Eligible, Decided, batches
  <1>5. HeldAreEligible'
    BY <1>4 DEF HeldAreEligible, batches, Eligible
  <1>6. \A r \in Requests : status'[r] = "paid" <=> status[r] = "paid"
    BY <1>1 DEF Decided
  <1>7. PaidTogether'
    BY <1>2, <1>6 DEF PaidTogether, batches, Members
  <1>8. EveryLineDecided'
    BY <1>1, SameBill DEF EveryLineDecided
  <1>9. \A b \in Batches : [r \in Members(b)' |-> Bill(r)'] = [r \in Members(b) |-> Bill(r)]
    BY <1>2 DEF MembersAreDecided, Members
  <1>10. DrawnTellsTheBatch' /\ PdfTellsTheBatch'
    BY <1>9 DEF DrawnTellsTheBatch, PdfTellsTheBatch, batches
  <1>11. owed' = owed /\ paid' = paid
    BY <1>1, <1>6 DEF owed, paid
  <1> QED BY <1>3, <1>5, <1>7, <1>8, <1>10, <1>11

\* A step that changes rows of one request only, which is not decided before
\* or after.
LEMMA OneRequest ==
  ASSUME TypeOK, NEW r \in Requests, UNCHANGED batches,
         \A q \in Requests \ {r} : status'[q] = status[q],
         \A l \in Lines : Of[l] # r => line'[l] = line[l],
         ~Decided(r), ~Decided(r)'
  PROVE  Quiet
  <1>1. \A q \in Requests : Decided(q) => q # r
    OBVIOUS
  <1>2. \A q \in Requests : Decided(q) => Bill(q)' = Bill(q)
    BY <1>1, SameRows
  <1> QED BY <1>1, <1>2 DEF Quiet, Decided

LEMMA WriteKeeps ==
  ASSUME IInv, NEW l \in Lines, NEW w \in Writes, CreateLine(l, w) \/ UpdateLine(l, w)
  PROVE  IInv' /\ UNCHANGED <<owed, paid>>
  <1>1. w.kind \in Kinds /\ w.asked \in Values
    BY DEF Writes, Kinds, Values, IInv, TypeOK
  <1>2. line' \in [Lines -> LineRows] /\ \A k \in Lines : k # l => line'[k] = line[k]
    <2>1. line \in [Lines -> LineRows]
      BY DEF IInv, TypeOK
    <2>2. CASE CreateLine(l, w)
      <3>1. [NoLine("here") EXCEPT !.kind = w.kind, !.asked = w.asked] \in LineRows
        BY <1>1 DEF NoLine, LineRows
      <3> QED BY <2>1, <2>2, <3>1 DEF CreateLine
    <2>3. CASE UpdateLine(l, w)
      <3>1. [line[l] EXCEPT !.kind = w.kind, !.asked = w.asked] \in LineRows
        BY <1>1, <2>1 DEF LineRows
      <3> QED BY <2>1, <2>3, <3>1 DEF UpdateLine
    <2> QED BY <2>2, <2>3
  <1>3. TypeOK'
    BY <1>2 DEF CreateLine, UpdateLine, IInv, TypeOK, batches
  <1>4. Of[l] \in Requests /\ ~Decided(Of[l]) /\ ~Decided(Of[l])' /\ UNCHANGED <<status, batches>>
    BY DEF CreateLine, UpdateLine, Editable, Decided
  <1>5. Quiet
    BY <1>2, <1>4, OneRequest DEF IInv
  <1> QED BY <1>3, <1>5, QuietKeeps

LEMMA DeleteKeeps ==
  ASSUME IInv, NEW l \in Lines, DeleteLine(l)
  PROVE  IInv' /\ UNCHANGED <<owed, paid>>
  <1>1. NoLine("gone") \in LineRows
    BY DEF NoLine, LineRows, Kinds, Values
  <1>2. line' \in [Lines -> LineRows] /\ \A k \in Lines : k # l => line'[k] = line[k]
    BY <1>1 DEF DeleteLine, IInv, TypeOK
  <1>3. TypeOK'
    BY <1>2 DEF DeleteLine, IInv, TypeOK, batches
  <1>4. Of[l] \in Requests /\ ~Decided(Of[l]) /\ ~Decided(Of[l])' /\ UNCHANGED <<status, batches>>
    BY DEF DeleteLine, Editable, Decided
  <1>5. Quiet
    BY <1>2, <1>4, OneRequest DEF IInv
  <1> QED BY <1>3, <1>5, QuietKeeps

LEMMA DeleteDraftKeeps ==
  ASSUME IInv, NEW r \in Requests, DeleteDraft(r)
  PROVE  IInv' /\ UNCHANGED <<owed, paid>>
  <1>1. NoLine("gone") \in LineRows
    BY DEF NoLine, LineRows, Kinds, Values
  <1>2. line' \in [Lines -> LineRows] /\ \A k \in Lines : Of[k] # r => line'[k] = line[k]
    BY <1>1 DEF DeleteDraft, IInv, TypeOK
  <1>3. TypeOK'
    BY <1>2 DEF DeleteDraft, IInv, TypeOK, batches, Statuses
  <1>4. ~Decided(r) /\ ~Decided(r)' /\ UNCHANGED batches
    BY DEF DeleteDraft, Editable, Decided, IInv, TypeOK
  <1>5. \A q \in Requests \ {r} : status'[q] = status[q]
    BY DEF DeleteDraft, IInv, TypeOK
  <1>6. Quiet
    BY <1>2, <1>4, <1>5, OneRequest DEF IInv
  <1> QED BY <1>3, <1>6, QuietKeeps

LEMMA SetApprovedTotalKeeps ==
  ASSUME IInv, NEW l \in Lines, NEW a \in Amounts, SetApprovedTotal(l, a)
  PROVE  IInv' /\ UNCHANGED <<owed, paid>>
  <1>1. a \in Values
    BY DEF Values
  <1>2. line' \in [Lines -> LineRows] /\ \A k \in Lines : k # l => line'[k] = line[k]
    BY <1>1 DEF SetApprovedTotal, IInv, TypeOK, LineRows
  <1>3. TypeOK'
    BY <1>2 DEF SetApprovedTotal, IInv, TypeOK, batches
  <1>4. Of[l] \in Requests /\ ~Decided(Of[l]) /\ ~Decided(Of[l])' /\ UNCHANGED <<status, batches>>
    BY DEF SetApprovedTotal, Reviewable, Decided
  <1>5. Quiet
    BY <1>2, <1>4, OneRequest DEF IInv
  <1> QED BY <1>3, <1>5, QuietKeeps

LEMMA ReadToSubmitKeeps ==
  ASSUME IInv, NEW r \in Requests, ReadToSubmit(r)
  PROVE  IInv' /\ UNCHANGED <<owed, paid>>
  <1> DEFINE read == [l \in Mileage(r) |-> rate]
  <1>1. read \in Rates
    <2>1. Mileage(r) \in SUBSET Lines
      BY DEF Mileage, LinesOf
    <2>2. Mileage(r) = {} \/ rate \in 1..MaxRate
      BY DEF ReadToSubmit, Rateable, IInv, TypeOK
    <2>3. read \in [Mileage(r) -> 1..MaxRate]
      BY <2>2
    <2> QED BY <2>1, <2>3 DEF Rates
  <1>2. TypeOK'
    BY <1>1 DEF ReadToSubmit, IInv, TypeOK, batches
  <1>3. Quiet
    BY SameRows DEF ReadToSubmit, Quiet, Decided
  <1> QED BY <1>2, <1>3, QuietKeeps

LEMMA SubmitKeeps ==
  ASSUME IInv, NEW r \in Requests, Submit(r)
  PROVE  IInv' /\ UNCHANGED <<owed, paid>>
  <1>1. CASE status[r] = "draft" /\ DOMAIN sending[r] \subseteq LinesOf(r)
    <2>1. sending[r] \in Rates
      BY DEF Submit, IInv, TypeOK
    <2>2. \A l \in DOMAIN sending[r] : sending[r][l] \in 1..MaxRate
      BY <2>1 DEF Rates
    <2>3. \A l \in Lines : Snapshot(l, sending[r]) \in LineRows
      <3> SUFFICES ASSUME NEW l \in Lines PROVE Snapshot(l, sending[r]) \in LineRows
        OBVIOUS
      <3>1. line[l] \in LineRows
        BY DEF IInv, TypeOK
      <3>2. CASE l \in DOMAIN sending[r]
        <4>1. sending[r][l] \in 1..MaxRate /\ sending[r][l] \in Values
          BY <2>2, <3>2 DEF Values
        <4> QED BY <3>1, <3>2, <4>1 DEF Snapshot, LineRows
      <3> QED BY <3>1, <3>2 DEF Snapshot
    <2>4. \A l \in Lines : Of[l] # r => Snapshot(l, sending[r]) = line[l]
      BY <1>1 DEF Snapshot, LinesOf
    <2>5. line' = [l \in Lines |-> Snapshot(l, sending[r])]
      BY <1>1 DEF Submit
    <2>6. line' \in [Lines -> LineRows] /\ \A l \in Lines : Of[l] # r => line'[l] = line[l]
      BY <2>3, <2>4, <2>5
    <2>7. TypeOK'
      BY <1>1, <2>6 DEF Submit, IInv, TypeOK, batches, Statuses
    <2>8. ~Decided(r) /\ ~Decided(r)' /\ UNCHANGED batches
      BY <1>1 DEF Submit, Decided, IInv, TypeOK
    <2>9. \A q \in Requests \ {r} : status'[q] = status[q]
      BY <1>1 DEF Submit, IInv, TypeOK
    <2>10. Quiet
      BY <2>6, <2>8, <2>9, OneRequest DEF IInv
    <2> QED BY <2>7, <2>10, QuietKeeps
  <1>2. CASE ~(status[r] = "draft" /\ DOMAIN sending[r] \subseteq LinesOf(r))
    <2>1. UNCHANGED <<status, line, audited, rate, batches>>
      BY <1>2 DEF Submit
    <2>2. TypeOK'
      BY <2>1 DEF Submit, IInv, TypeOK, batches
    <2>3. Quiet
      BY <2>1, SameRows DEF Quiet, Decided
    <2> QED BY <2>2, <2>3, QuietKeeps
  <1> QED BY <1>1, <1>2

LEMMA WithdrawKeeps ==
  ASSUME IInv, NEW r \in Requests, Withdraw(r)
  PROVE  IInv' /\ UNCHANGED <<owed, paid>>
  <1>1. line' \in [Lines -> LineRows]
    BY DEF Withdraw, IInv, TypeOK, LineRows
  <1>2. \A l \in Lines : Of[l] # r => line'[l] = line[l]
    BY DEF Withdraw, Mileage, LinesOf
  <1>3. TypeOK'
    BY <1>1 DEF Withdraw, IInv, TypeOK, batches, Statuses
  <1>4. ~Decided(r) /\ ~Decided(r)' /\ UNCHANGED batches
    BY DEF Withdraw, Decided, IInv, TypeOK
  <1>5. \A q \in Requests \ {r} : status'[q] = status[q]
    BY DEF Withdraw, IInv, TypeOK
  <1>6. Quiet
    BY <1>2, <1>4, <1>5, OneRequest DEF IInv
  <1> QED BY <1>3, <1>6, QuietKeeps

LEMMA RejectKeeps ==
  ASSUME IInv, NEW r \in Requests, Reject(r)
  PROVE  IInv' /\ UNCHANGED <<owed, paid>>
  <1>1. TypeOK'
    BY DEF Reject, IInv, TypeOK, batches, Statuses
  <1>2. ~Decided(r) /\ ~Decided(r)' /\ UNCHANGED batches
    BY DEF Reject, Reviewable, Decided, IInv, TypeOK
  <1>3. \A q \in Requests \ {r} : status'[q] = status[q]
    BY DEF Reject, IInv, TypeOK
  <1>4. Quiet
    BY <1>2, <1>3, OneRequest DEF IInv, Reject
  <1> QED BY <1>1, <1>4, QuietKeeps

LEMMA ChangeRateKeeps ==
  ASSUME IInv, ChangeRate
  PROVE  IInv' /\ UNCHANGED <<owed, paid>>
  <1>1. TypeOK'
    BY DEF ChangeRate, IInv, TypeOK, requests, batches
  <1>2. Quiet
    BY SameRows DEF ChangeRate, Quiet, Decided, requests
  <1> QED BY <1>1, <1>2, QuietKeeps

LEMMA StutterKeeps ==
  ASSUME IInv, UNCHANGED vars
  PROVE  IInv' /\ UNCHANGED <<owed, paid>>
  <1>1. TypeOK'
    BY DEF vars, IInv, TypeOK, requests, batches
  <1>2. Quiet
    BY SameRows DEF vars, Quiet, Decided, requests
  <1> QED BY <1>1, <1>2, QuietKeeps

-----------------------------------------------------------------------------
(* The approval *)

LEMMA ApproveKeeps ==
  ASSUME IInv, NEW r \in Requests, Approve(r)
  PROVE  IInv' /\ Ledger!Decide(r)
  <1> USE DEF IInv
  <1>1. \A l \in Lines : /\ Granted(l) \in LineRows
                        /\ Granted(l).granted # None
                        /\ Granted(l).life = line[l].life
    <2> SUFFICES ASSUME NEW l \in Lines
                 PROVE  /\ Granted(l) \in LineRows
                        /\ Granted(l).granted # None
                        /\ Granted(l).life = line[l].life
      OBVIOUS
    <2>1. line[l] \in LineRows
      BY DEF TypeOK
    <2> QED BY <2>1 DEF Granted, LineRows
  <1>2. /\ line' = [l \in Lines |-> IF l \in LinesOf(r) THEN Granted(l) ELSE line[l]]
        /\ status' = [status EXCEPT ![r] = "approved"] /\ status[r] = "submitted"
        /\ UNCHANGED batches
    BY DEF Approve, Reviewable
  <1>3. TypeOK'
    <2>1. line' \in [Lines -> LineRows]
      BY <1>1, <1>2 DEF TypeOK
    <2>2. status' \in [Requests -> Statuses]
      BY <1>2 DEF TypeOK, Statuses
    <2> QED BY <2>1, <2>2 DEF Approve, TypeOK, batches
  <1>4. \A q \in Requests \ {r} : status'[q] = status[q] /\ Bill(q)' = Bill(q)
    <2> SUFFICES ASSUME NEW q \in Requests \ {r} PROVE status'[q] = status[q] /\ Bill(q)' = Bill(q)
      OBVIOUS
    <2>1. \A l \in Lines : Of[l] = q => line'[l] = line[l]
      BY <1>2 DEF LinesOf
    <2>2. Bill(q)' = Bill(q)
      BY <2>1, SameRows
    <2> QED BY <1>2, <2>2 DEF TypeOK
  <1>5. status'[r] = "approved" /\ Decided(r)' /\ ~Decided(r)
    BY <1>2 DEF Decided, TypeOK
  <1>6. \A q \in Requests : Decided(q) => q # r /\ Decided(q)'
    BY <1>4, <1>5 DEF Decided
  <1>7. \A b \in Batches : Members(b)' = Members(b) /\ (Live(b)' <=> Live(b)) /\ r \notin Members(b)
    BY <1>2, <1>5 DEF Members, Live, batches, MembersAreDecided
  <1>8. MembersAreDecided' /\ OneLiveBatch'
    BY <1>2, <1>6, <1>7 DEF MembersAreDecided, OneLiveBatch, batches
  <1>9. HeldAreEligible'
    <2>1. \A q \in Requests : q \in Eligible => q \in Eligible'
      BY <1>2, <1>4, <1>5 DEF Eligible, batches
    <2> QED BY <1>2, <2>1 DEF HeldAreEligible, batches, Eligible
  <1>10. \A q \in Requests : status'[q] = "paid" <=> status[q] = "paid"
    BY <1>2, <1>4, <1>5
  <1>11. PaidTogether'
    BY <1>2, <1>7, <1>10 DEF PaidTogether, batches, Members
  <1>12. EveryLineDecided'
    <2>1. \A q \in Requests \ {r} : Decided(q)' => \A l \in LinesOf(q)' : line'[l].granted # None
      BY <1>4, SameBill DEF EveryLineDecided, Decided
    <2>2. \A l \in LinesOf(r)' : l \in LinesOf(r)
      BY <1>1, <1>2 DEF LinesOf
    <2>3. \A l \in LinesOf(r)' : line'[l].granted # None
      BY <1>1, <1>2, <2>2 DEF LinesOf
    <2> QED BY <2>1, <2>3 DEF EveryLineDecided
  <1>13. \A b \in Batches : [q \in Members(b)' |-> Bill(q)'] = [q \in Members(b) |-> Bill(q)]
    BY <1>4, <1>7 DEF Members
  <1>14. DrawnTellsTheBatch' /\ PdfTellsTheBatch'
    BY <1>2, <1>13 DEF DrawnTellsTheBatch, PdfTellsTheBatch, batches
  <1>15. Bill(r)' \in Bills
    <2>1. \A l \in LinesOf(r)' : line'[l].granted \in Values
      BY <1>1, <1>3, <1>5, <1>12 DEF TypeOK, LineRows, EveryLineDecided, LinesOf
    <2>2. LinesOf(r)' \in SUBSET Lines
      BY DEF LinesOf
    <2>3. Bill(r)' \in [LinesOf(r)' -> Values]
      BY <2>1 DEF Bill
    <2> QED BY <2>2, <2>3 DEF Bills
  <1>16. owed' = [owed EXCEPT ![r] = Bill(r)'] /\ owed[r] = None /\ paid' = paid
    BY <1>4, <1>5, <1>10 DEF owed, paid, Decided
  <1>17. Ledger!Decide(r)
    BY <1>15, <1>16 DEF Ledger!Decide, Ledger!Bills, Bills
  <1> QED BY <1>3, <1>8, <1>9, <1>11, <1>12, <1>14, <1>17

-----------------------------------------------------------------------------
(* The batches *)

\* No step of a batch changes an amount.
LEMMA SameLines ==
  ASSUME line' = line
  PROVE  \A r \in Requests : Bill(r)' = Bill(r) /\ LinesOf(r)' = LinesOf(r)
  BY DEF Bill, LinesOf

LEMMA LockKeeps ==
  ASSUME IInv, NEW b \in Batches, NEW rs \in SUBSET Requests,
         LockCandidates(b, rs) \/ CompileAborted(b)
  PROVE  IInv' /\ UNCHANGED <<owed, paid>>
  <1> USE DEF IInv
  <1>1. UNCHANGED <<status, line, batch, items, claim, drawn, pdf, rate, audited, sending>>
    BY DEF LockCandidates, CompileAborted, requests
  <1>2. \/ held' = [held EXCEPT ![b] = rs] /\ batch[b] = "none" /\ rs \subseteq (Eligible \ Locked)
        \/ held' = [held EXCEPT ![b] = {}]
    BY DEF LockCandidates, CompileAborted
  <1>3. TypeOK'
    BY <1>1, <1>2 DEF TypeOK
  <1>4. Eligible' = Eligible
    BY <1>1 DEF Eligible
  <1>5. HeldAreEligible'
    BY <1>1, <1>2, <1>4 DEF HeldAreEligible, Locked, TypeOK
  <1>6. \A c \in Batches : Members(c)' = Members(c) /\ (Live(c)' <=> Live(c))
    BY <1>1 DEF Members, Live
  <1>7. \A r \in Requests : Bill(r)' = Bill(r) /\ LinesOf(r)' = LinesOf(r) /\ (Decided(r)' <=> Decided(r))
    BY <1>1, SameLines DEF Decided
  <1>8. MembersAreDecided' /\ OneLiveBatch' /\ PaidTogether'
    BY <1>1, <1>6, <1>7 DEF MembersAreDecided, OneLiveBatch, PaidTogether, Members
  <1>9. EveryLineDecided'
    BY <1>1, <1>7 DEF EveryLineDecided
  <1>10. DrawnTellsTheBatch' /\ PdfTellsTheBatch'
    BY <1>1, <1>6, <1>7 DEF DrawnTellsTheBatch, PdfTellsTheBatch, Members
  <1>11. UNCHANGED <<owed, paid>>
    BY <1>1, <1>7 DEF owed, paid
  <1> QED BY <1>3, <1>5, <1>8, <1>9, <1>10, <1>11

LEMMA CompileKeeps ==
  ASSUME IInv, NEW b \in Batches, Compile(b)
  PROVE  IInv' /\ UNCHANGED <<owed, paid>>
  <1> USE DEF IInv
  <1>1. /\ held[b] # {} /\ batch[b] = "none" /\ held[b] \subseteq Eligible
        /\ \A r \in held[b] : r \in Requests /\ claim[r] = None /\ status[r] = "approved"
    BY DEF Compile, HeldAreEligible, Eligible
  <1>2. /\ held' = [held EXCEPT ![b] = {}]
        /\ batch' = [batch EXCEPT ![b] = "compiled"]
        /\ claim' = [r \in Requests |-> IF r \in held[b] THEN b ELSE claim[r]]
        /\ items' = items \cup ({b} \X held[b])
        /\ drawn' = [drawn EXCEPT ![b] = [r \in held[b] |-> Bill(r)]]
        /\ UNCHANGED <<status, line, rate, audited, sending, pdf>>
    BY <1>1 DEF Compile, requests
  <1>3. \A r \in Requests : Bill(r)' = Bill(r) /\ LinesOf(r)' = LinesOf(r) /\ (Decided(r)' <=> Decided(r))
    BY <1>2, SameLines DEF Decided
  <1>4. [r \in held[b] |-> Bill(r)] \in Documents
    <2>1. held[b] \in SUBSET Requests /\ \A r \in held[b] : Decided(r)
      BY <1>1 DEF Decided
    <2> QED BY <2>1, DocumentIsTyped
  <1>5. TypeOK'
    BY <1>1, <1>2, <1>4 DEF TypeOK
  <1>6. \A r \in Requests : <<b, r>> \notin items
    BY <1>1 DEF MembersAreDecided
  <1>7. /\ \A r \in Requests : <<b, r>> \in items' <=> r \in held[b]
        /\ \A c \in Batches \ {b}, r \in Requests : <<c, r>> \in items' <=> <<c, r>> \in items
    BY <1>1, <1>2, <1>6
  <1>8. Live(b)' /\ batch'[b] = "compiled" /\ \A c \in Batches \ {b} : batch'[c] = batch[c] /\ (Live(c)' <=> Live(c))
    BY <1>2 DEF Live, TypeOK
  <1>9. MembersAreDecided'
    BY <1>1, <1>3, <1>7, <1>8 DEF MembersAreDecided, Decided
  <1>10. HeldAreEligible'
    <2>1. \A c \in Batches \ {b} : held'[c] = held[c] /\ held[c] \cap held[b] = {}
      BY <1>2 DEF HeldAreEligible, TypeOK
    <2>2. \A c \in Batches \ {b} : held[c] \subseteq Eligible'
      BY <1>2, <2>1 DEF HeldAreEligible, Eligible
    <2>3. held'[b] = {}
      BY <1>2 DEF TypeOK
    <2> QED BY <1>8, <2>1, <2>2, <2>3 DEF HeldAreEligible
  <1>11. OneLiveBatch'
    <2>1. \A r \in Requests : claim'[r] = b <=> r \in held[b]
      BY <1>1, <1>2, <1>6 DEF OneLiveBatch
    <2>2. \A c \in Batches \ {b}, r \in Requests : claim'[r] = c <=> claim[r] = c
      BY <1>1, <1>2, NoneAssumption
    <2> QED BY <1>7, <1>8, <2>1, <2>2 DEF OneLiveBatch
  <1>12. PaidTogether'
    <2>1. \A c \in Batches : batch'[c] = "paid" <=> batch[c] = "paid"
      BY <1>1, <1>8
    <2>2. \A c \in Batches : batch[c] = "paid" => Members(c)' = Members(c)
      BY <1>1, <1>7 DEF Members
    <2> QED BY <1>2, <2>1, <2>2 DEF PaidTogether, Members
  <1>13. EveryLineDecided'
    BY <1>2, <1>3 DEF EveryLineDecided
  <1>14. Members(b)' = held[b] /\ \A c \in Batches \ {b} : Members(c)' = Members(c)
    BY <1>1, <1>7 DEF Members
  <1>15. DrawnTellsTheBatch'
    <2>1. drawn'[b] = [r \in Members(b)' |-> Bill(r)'] /\ batch'[b] # "none"
      BY <1>1, <1>2, <1>3, <1>8, <1>14 DEF TypeOK
    <2>2. \A c \in Batches \ {b} : drawn'[c] = drawn[c] /\ pdf'[c] = pdf[c]
                                  /\ [r \in Members(c)' |-> Bill(r)'] = [r \in Members(c) |-> Bill(r)]
      BY <1>2, <1>3, <1>14 DEF TypeOK, Members
    <2> QED BY <1>8, <2>1, <2>2 DEF DrawnTellsTheBatch
  <1>16. PdfTellsTheBatch'
    <2>1. pdf[b] = None
      BY <1>1 DEF DrawnTellsTheBatch
    <2>2. \A c \in Batches \ {b} : [r \in Members(c)' |-> Bill(r)'] = [r \in Members(c) |-> Bill(r)]
      BY <1>3, <1>14 DEF Members
    <2> QED BY <1>2, <2>1, <2>2 DEF PdfTellsTheBatch
  <1>17. UNCHANGED <<owed, paid>>
    BY <1>2, <1>3 DEF owed, paid
  <1> QED BY <1>5, <1>9, <1>10, <1>11, <1>12, <1>13, <1>15, <1>16, <1>17

LEMMA MarkPaidKeeps ==
  ASSUME IInv, NEW b \in Batches, MarkPaid(b)
  PROVE  IInv' /\ Ledger!Pay
  <1> USE DEF IInv
  <1>1. /\ batch[b] = "compiled"
        /\ batch' = [batch EXCEPT ![b] = "paid"]
        /\ status' = [r \in Requests |-> IF claim[r] = b /\ status[r] = "approved"
                                         THEN "paid" ELSE status[r]]
        /\ UNCHANGED <<audited, line, sending, rate, items, claim, held, drawn, pdf>>
    BY DEF MarkPaid
  <1>2. TypeOK'
    BY <1>1 DEF TypeOK, Statuses
  <1>3. \A r \in Requests : Bill(r)' = Bill(r) /\ LinesOf(r)' = LinesOf(r) /\ (Decided(r)' <=> Decided(r))
    BY <1>1, SameLines DEF Decided
  <1>4. \A c \in Batches : Members(c)' = Members(c) /\ (Live(c)' <=> Live(c))
    BY <1>1 DEF Members, Live, TypeOK
  <1>5. \A c \in Batches : batch'[c] # "none" <=> batch[c] # "none"
    BY <1>1 DEF TypeOK
  <1>6. MembersAreDecided'
    BY <1>1, <1>3, <1>5 DEF MembersAreDecided
  <1>7. OneLiveBatch'
    BY <1>1, <1>4 DEF OneLiveBatch
  <1>8. HeldAreEligible'
    <2>1. \A r \in Requests : r \in Eligible => r \in Eligible'
      BY <1>1, NoneAssumption DEF Eligible
    <2>2. \A c \in Batches : held[c] # {} => batch'[c] = "none"
      BY <1>1 DEF HeldAreEligible, TypeOK
    <2> QED BY <1>1, <2>1, <2>2 DEF HeldAreEligible, Eligible
  <1>9. \A r \in Members(b) : claim[r] = b /\ status'[r] = "paid"
    BY <1>1 DEF Members, OneLiveBatch, Live, MembersAreDecided, Decided
  <1>10. PaidTogether'
    <2>1. \A c \in Batches : batch'[c] = "paid" => \A r \in Members(c)' : status'[r] = "paid"
      BY <1>1, <1>4, <1>9 DEF PaidTogether, Members, TypeOK
    <2>2. ASSUME NEW r \in Requests, status'[r] = "paid"
          PROVE  \E c \in Batches : r \in Members(c)' /\ batch'[c] = "paid"
      <3>1. CASE status[r] = "paid"
        BY <1>1, <1>4, <3>1 DEF PaidTogether, TypeOK
      <3>2. CASE status[r] # "paid"
        <4>1. claim[r] = b
          BY <1>1, <2>2, <3>2
        <4>2. r \in Members(b)
          BY <4>1 DEF OneLiveBatch, Members
        <4> QED BY <1>1, <1>4, <4>2 DEF TypeOK
      <3> QED BY <3>1, <3>2
    <2> QED BY <2>1, <2>2 DEF PaidTogether
  <1>11. EveryLineDecided'
    BY <1>1, <1>3 DEF EveryLineDecided
  <1>12. DrawnTellsTheBatch' /\ PdfTellsTheBatch'
    BY <1>1, <1>3, <1>4, <1>5 DEF DrawnTellsTheBatch, PdfTellsTheBatch, Members
  <1>13. owed' = owed
    BY <1>3 DEF owed
  <1>14. Ledger!Pay
    <2>1. paid \subseteq paid' /\ paid' \subseteq Requests
      BY <1>1 DEF paid
    <2>2. \A r \in paid' : owed[r] # None
      BY <1>3, BillIsDecided DEF paid, owed, Decided
    <2> QED BY <1>13, <2>1, <2>2 DEF Ledger!Pay
  <1> QED BY <1>2, <1>6, <1>7, <1>8, <1>10, <1>11, <1>12, <1>14

LEMMA DiscardKeeps ==
  ASSUME IInv, NEW b \in Batches, Discard(b)
  PROVE  IInv' /\ UNCHANGED <<owed, paid>>
  <1> USE DEF IInv
  <1>1. /\ batch[b] = "compiled"
        /\ batch' = [batch EXCEPT ![b] = "discarded"]
        /\ claim' = [r \in Requests |-> IF claim[r] = b /\ status[r] = "approved"
                                        THEN None ELSE claim[r]]
        /\ UNCHANGED <<status, audited, line, sending, rate, items, held, drawn, pdf>>
    BY DEF Discard, requests
  <1>2. TypeOK'
    BY <1>1 DEF TypeOK
  <1>3. \A r \in Requests : Bill(r)' = Bill(r) /\ LinesOf(r)' = LinesOf(r) /\ (Decided(r)' <=> Decided(r))
    BY <1>1, SameLines DEF Decided
  <1>4. /\ \A c \in Batches : Members(c)' = Members(c) /\ (batch'[c] # "none" <=> batch[c] # "none")
                             /\ (batch'[c] = "paid" <=> batch[c] = "paid")
        /\ \A c \in Batches \ {b} : Live(c)' <=> Live(c)
        /\ ~Live(b)'
    BY <1>1 DEF Members, Live, TypeOK
  <1>5. MembersAreDecided' /\ PaidTogether'
    BY <1>1, <1>3, <1>4 DEF MembersAreDecided, PaidTogether, Members
  <1>6. HeldAreEligible'
    <2>1. \A r \in Requests : r \in Eligible => r \in Eligible'
      BY <1>1 DEF Eligible
    <2>2. \A c \in Batches : held[c] # {} => batch'[c] = "none"
      BY <1>1 DEF HeldAreEligible, TypeOK
    <2> QED BY <1>1, <2>1, <2>2 DEF HeldAreEligible, Eligible
  <1>7. \A r \in Requests : claim[r] = b => status[r] = "approved"
    <2> SUFFICES ASSUME NEW r \in Requests, claim[r] = b, status[r] = "paid" PROVE FALSE
      BY DEF OneLiveBatch, MembersAreDecided, Decided
    <2>1. PICK c \in Batches : r \in Members(c) /\ batch[c] = "paid"
      BY DEF PaidTogether
    <2>2. claim[r] = c
      BY <2>1 DEF OneLiveBatch, Members, Live
    <2> QED BY <1>1, <2>1, <2>2
  <1>8. OneLiveBatch'
    <2>1. \A r \in Requests : claim'[r] # b
      BY <1>1, <1>7, NoneAssumption
    <2>2. \A c \in Batches \ {b}, r \in Requests : claim'[r] = c <=> claim[r] = c
      BY <1>1, NoneAssumption
    <2> SUFFICES ASSUME NEW c \in Batches, NEW r \in Requests
                 PROVE  (claim'[r] = c) <=> (<<c, r>> \in items' /\ Live(c)')
      BY DEF OneLiveBatch
    <2>3. items' = items
      BY <1>1
    <2>4. CASE c = b
      BY <2>4, <1>4, <2>1
    <2>5. CASE c # b
      BY <2>5, <1>4, <2>2, <2>3 DEF OneLiveBatch
    <2> QED BY <2>4, <2>5
  <1>9. EveryLineDecided'
    BY <1>1, <1>3 DEF EveryLineDecided
  <1>10. DrawnTellsTheBatch' /\ PdfTellsTheBatch'
    BY <1>1, <1>3, <1>4 DEF DrawnTellsTheBatch, PdfTellsTheBatch, Members
  <1>11. UNCHANGED <<owed, paid>>
    BY <1>1, <1>3 DEF owed, paid
  <1> QED BY <1>2, <1>5, <1>6, <1>8, <1>9, <1>10, <1>11

LEMMA PdfKeeps ==
  ASSUME IInv, NEW b \in Batches, ReadToRender(b) \/ StorePdf(b) \/ PdfNotStored(b)
  PROVE  IInv' /\ UNCHANGED <<owed, paid>>
  <1> USE DEF IInv
  <1> DEFINE shown == [r \in Members(b) |-> Bill(r)]
  <1>1. UNCHANGED <<status, line, rate, audited, sending, batch, items, claim, held>>
    BY DEF ReadToRender, StorePdf, PdfNotStored, requests
  <1>2. \A r \in Requests : Bill(r)' = Bill(r) /\ LinesOf(r)' = LinesOf(r) /\ (Decided(r)' <=> Decided(r))
    BY <1>1, SameLines DEF Decided
  <1>3. \A c \in Batches : Members(c)' = Members(c) /\ (Live(c)' <=> Live(c))
    BY <1>1 DEF Members, Live
  <1>4. shown \in Documents
    BY DocumentIsTyped DEF Members, MembersAreDecided
  <1>5. /\ drawn' = [drawn EXCEPT ![b] = shown] \/ drawn' = [drawn EXCEPT ![b] = None]
        /\ pdf' = pdf \/ pdf' = [pdf EXCEPT ![b] = shown]
        /\ batch[b] # "none"
    BY DEF ReadToRender, StorePdf, PdfNotStored, DrawnTellsTheBatch
  <1>6. TypeOK'
    BY <1>1, <1>4, <1>5 DEF TypeOK
  <1>7. MembersAreDecided' /\ OneLiveBatch' /\ PaidTogether' /\ HeldAreEligible'
    BY <1>1, <1>2, <1>3 DEF MembersAreDecided, OneLiveBatch, PaidTogether, HeldAreEligible, Eligible, Members
  <1>8. EveryLineDecided'
    BY <1>1, <1>2 DEF EveryLineDecided
  <1>9. \A c \in Batches : [r \in Members(c)' |-> Bill(r)'] = [r \in Members(c) |-> Bill(r)]
    BY <1>2, <1>3 DEF Members
  <1>10. DrawnTellsTheBatch'
    BY <1>1, <1>5, <1>9 DEF DrawnTellsTheBatch, TypeOK
  <1>11. PdfTellsTheBatch'
    BY <1>5, <1>9 DEF PdfTellsTheBatch, TypeOK
  <1>12. UNCHANGED <<owed, paid>>
    BY <1>1, <1>2 DEF owed, paid
  <1> QED BY <1>6, <1>7, <1>8, <1>10, <1>11, <1>12

-----------------------------------------------------------------------------
(* The theorems *)

\* Every step keeps the invariant and is a step of the ledger, or leaves what
\* the ledger sees alone.
THEOREM Inductive == IInv /\ [Next]_vars => IInv' /\ [Ledger!Next]_<<owed, paid>>
  <1> SUFFICES ASSUME IInv, [Next]_vars PROVE IInv' /\ [Ledger!Next]_<<owed, paid>>
    OBVIOUS
  <1>1. ASSUME NEW l \in Lines, NEW w \in Writes, CreateLine(l, w) \/ UpdateLine(l, w)
        PROVE  IInv' /\ UNCHANGED <<owed, paid>>
    BY <1>1, WriteKeeps
  <1>2. ASSUME NEW l \in Lines, DeleteLine(l)
        PROVE  IInv' /\ UNCHANGED <<owed, paid>>
    BY <1>2, DeleteKeeps
  <1>3. ASSUME NEW l \in Lines, NEW a \in Amounts, SetApprovedTotal(l, a)
        PROVE  IInv' /\ UNCHANGED <<owed, paid>>
    BY <1>3, SetApprovedTotalKeeps
  <1>4. ASSUME NEW r \in Requests, DeleteDraft(r) \/ ReadToSubmit(r) \/ Submit(r)
                                     \/ Withdraw(r) \/ Reject(r)
        PROVE  IInv' /\ UNCHANGED <<owed, paid>>
    BY <1>4, DeleteDraftKeeps, ReadToSubmitKeeps, SubmitKeeps, WithdrawKeeps, RejectKeeps
  <1>5. ASSUME NEW r \in Requests, Approve(r)
        PROVE  IInv' /\ Ledger!Next
    BY <1>5, ApproveKeeps DEF Ledger!Next
  <1>6. ASSUME NEW b \in Batches, NEW rs \in SUBSET Requests, LockCandidates(b, rs)
        PROVE  IInv' /\ UNCHANGED <<owed, paid>>
    BY <1>6, LockKeeps
  <1>7. ASSUME NEW b \in Batches, Compile(b) \/ Discard(b) \/ ReadToRender(b)
                                     \/ StorePdf(b) \/ PdfNotStored(b)
        PROVE  IInv' /\ UNCHANGED <<owed, paid>>
    BY <1>7, CompileKeeps, DiscardKeeps, PdfKeeps
  <1>8. ASSUME NEW b \in Batches, CompileAborted(b)
        PROVE  IInv' /\ UNCHANGED <<owed, paid>>
    <2>1. {} \in SUBSET Requests
      OBVIOUS
    <2> QED BY <1>8, <2>1, LockKeeps
  <1>9. ASSUME NEW b \in Batches, MarkPaid(b)
        PROVE  IInv' /\ Ledger!Next
    BY <1>9, MarkPaidKeeps DEF Ledger!Next
  <1>10. ASSUME ChangeRate \/ UNCHANGED vars
         PROVE  IInv' /\ UNCHANGED <<owed, paid>>
    BY <1>10, ChangeRateKeeps, StutterKeeps
  <1> QED BY <1>1, <1>2, <1>3, <1>4, <1>5, <1>6, <1>7, <1>8, <1>9, <1>10 DEF Next

\* refund-api: the reachable states satisfy the inductive invariant.
THEOREM Invariance == Spec => []IInv
  <1>1. Init => IInv
    BY Initially
  <1>2. IInv /\ [Next]_vars => IInv'
    BY Inductive
  <1> QED BY <1>1, <1>2, PTL DEF Spec

\* The variables keep their types and no line is frozen at a missing rate.
THEOREM TypeCorrect == Spec => []TypeOK
  BY Invariance, PTL DEF IInv

\* A request is claimed by the one live batch that lists it, after any
\* compilations and discards (batches.repo.ts, decide.repo.ts).
THEOREM ClaimedOnce == Spec => []OneLiveBatch
  BY Invariance, PTL DEF IInv

\* A batch pays all the requests it lists or none (decide.repo.ts).
THEOREM AllOrNothing == Spec => []PaidTogether
  BY Invariance, PTL DEF IInv

\* Every line of an approved request has its amount, whatever line write or
\* review was under way when it was approved (lines.repo.ts).
THEOREM ApprovedInFull == Spec => []EveryLineDecided
  BY Invariance, PTL DEF IInv

\* A stored PDF shows what its batch pays, whenever it was rendered
\* (pdfLink.ts).
THEOREM PdfIsRight == Spec => []PdfTellsTheBatch
  BY Invariance, PTL DEF IInv

\* refund-api implements the ledger: what is approved is decided for good and
\* paid at most once.
THEOREM Implements == Spec => KeepsTheLedger
  <1>1. Init => Ledger!Init
    BY Initially
  <1>2. IInv /\ [Next]_vars => [Ledger!Next]_<<owed, paid>>
    BY Inductive
  <1> QED BY <1>1, <1>2, Invariance, PTL DEF Spec, KeepsTheLedger, Ledger!Spec
=============================================================================
