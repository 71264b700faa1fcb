------------------------------ MODULE Refunds ------------------------------
(***************************************************************************)
(* refund-api: an employee's requests and their expense lines, the review  *)
(* of a request, and the monthly batches that pay the approved ones.       *)
(*                                                                         *)
(* Every operation ends in one transaction that re-asserts the status it   *)
(* relies on with a conditional update.  Three of them carry something     *)
(* they read before it: a submission the mileage lines and their rates, a  *)
(* compilation the rows it locked, a PDF the amounts it prints.            *)
(***************************************************************************)
EXTENDS Naturals

CONSTANTS Requests,  \* the requests
          Lines,     \* the lines that may be written
          Of,        \* line -> the request it belongs to
          Batches,   \* the batches that may be compiled
          Amounts,   \* the amounts an employee or a reviewer enters
          MaxRate,   \* bound: how often the mileage rate may change
          None       \* null

ASSUME OfAssumption == Of \in [Lines -> Requests]
ASSUME AmountsAssumption == Amounts \subseteq Nat
ASSUME RateAssumption == MaxRate \in Nat

VARIABLES
    status,   \* request -> RefundStatus, or "deleted" with its row
    audited,  \* the requests with audit rows, which cannot be deleted
    line,     \* the expense lines
    rate,     \* the mileage rate in effect, 0 while there is none
    sending,  \* request -> the rates a submission read for it, or None
    batch,    \* batch -> "none" or BatchStatus
    items,    \* RefundBatchItem: the members a batch was compiled with
    claim,    \* request -> its batchId, or None
    held,     \* batch -> the rows its compilation has locked
    drawn,    \* batch -> the amounts a rendering of its PDF read, or None
    pdf       \* batch -> the amounts its stored PDF shows, or None

requests == <<status, audited, line, sending>>
batches == <<batch, items, claim, held, drawn, pdf>>
vars == <<requests, rate, batches>>

Statuses == {"draft", "submitted", "approved", "rejected", "paid", "deleted"}
Kinds == {"travel_km", "other"}
Values == Amounts \cup 0..MaxRate
Rates == UNION {[ls -> 1..MaxRate] : ls \in SUBSET Lines}
Bills == UNION {[ls -> Values] : ls \in SUBSET Lines}
Documents == UNION {[rs -> Bills] : rs \in SUBSET Requests}
LineRows == [life : {"none", "here", "gone"}, kind : Kinds, asked : Values,
             granted : Values \cup {None}, applied : 1..MaxRate \cup {None}]

ASSUME NoneAssumption ==
    None \notin Values \cup Batches \cup Rates \cup Bills \cup Documents

NoLine(life) == [life |-> life, kind |-> "other", asked |-> 0,
                 granted |-> None, applied |-> None]
LinesOf(r) == {l \in Lines : Of[l] = r /\ line[l].life = "here"}
Mileage(r) == {l \in LinesOf(r) : line[l].kind = "travel_km"}
Bill(r) == [l \in LinesOf(r) |-> line[l].granted]
Decided(r) == status[r] \in {"approved", "paid"}
Live(b) == batch[b] \in {"compiled", "paid"}

\* Faulty variant: the requests that still point at the batch.
MembersClaimed(b) == {r \in Requests : claim[r] = b}

Members(b) == {r \in Requests : <<b, r>> \in items}

Init == /\ status = [r \in Requests |-> "draft"]
        /\ audited = {}
        /\ line = [l \in Lines |-> NoLine("none")]
        /\ rate = 0
        /\ sending = [r \in Requests |-> None]
        /\ batch = [b \in Batches |-> "none"]
        /\ items = {}
        /\ claim = [r \in Requests |-> None]
        /\ held = [b \in Batches |-> {}]
        /\ drawn = [b \in Batches |-> None]
        /\ pdf = [b \in Batches |-> None]

(***************************************************************************)
(* The employee's draft.                                                   *)
(***************************************************************************)
\* What a line write carries: the entered amount, or for a mileage line the
\* amount at the rate in effect when the call began, 0 when there was none.
Writes == {[kind |-> "other", asked |-> a] : a \in Amounts}
              \cup {[kind |-> "travel_km", asked |-> n] : n \in 0..rate}

Editable(r) == status[r] = "draft"

CreateLine(l, w) ==
    /\ Editable(Of[l])
    /\ line[l].life = "none"
    /\ line' = [line EXCEPT ![l] = [NoLine("here") EXCEPT !.kind = w.kind,
                                                          !.asked = w.asked]]
    /\ UNCHANGED <<status, audited, sending, rate, batches>>

\* The write leaves approvedTotalCents and the applied rate as they are.
UpdateLine(l, w) ==
    /\ Editable(Of[l])
    /\ line[l].life = "here"
    /\ line' = [line EXCEPT ![l].kind = w.kind, ![l].asked = w.asked]
    /\ UNCHANGED <<status, audited, sending, rate, batches>>

DeleteLine(l) ==
    /\ Editable(Of[l])
    /\ line[l].life = "here"
    /\ line' = [line EXCEPT ![l] = NoLine("gone")]
    /\ UNCHANGED <<status, audited, sending, rate, batches>>

\* The audit rows of an earlier submission refuse the deletion.
DeleteDraft(r) ==
    /\ Editable(r)
    /\ r \notin audited
    /\ status' = [status EXCEPT ![r] = "deleted"]
    /\ line' = [l \in Lines |-> IF Of[l] = r THEN NoLine("gone") ELSE line[l]]
    /\ UNCHANGED <<audited, sending, rate, batches>>

\* An entry of the append-only rate table takes effect for the lines' date.
ChangeRate ==
    /\ rate < MaxRate
    /\ rate' = rate + 1
    /\ UNCHANGED <<requests, batches>>

\* A mileage line without a rate in effect is refused.
Rateable(r) == Mileage(r) = {} \/ rate > 0

\* submitRequest reads the draft and resolves the rates, outside any
\* transaction: nothing holds the lines until the flip.
ReadToSubmit(r) ==
    /\ status[r] = "draft"
    /\ sending[r] = None
    /\ LinesOf(r) # {}
    /\ Rateable(r)
    /\ sending' = [sending EXCEPT ![r] = [l \in Mileage(r) |-> rate]]
    /\ UNCHANGED <<status, audited, line, rate, batches>>

Snapshot(l, rates) ==
    IF l \in DOMAIN rates
    THEN [line[l] EXCEPT !.asked = rates[l], !.applied = rates[l]]
    ELSE line[l]

\* The flip, with the snapshot written line by line: a line that is gone
\* makes the update throw and the transaction roll back.
Submit(r) ==
    /\ sending[r] # None
    /\ sending' = [sending EXCEPT ![r] = None]
    /\ IF status[r] = "draft" /\ DOMAIN sending[r] \subseteq LinesOf(r)
       THEN /\ status' = [status EXCEPT ![r] = "submitted"]
            /\ audited' = audited \cup {r}
            /\ line' = [l \in Lines |-> Snapshot(l, sending[r])]
       ELSE UNCHANGED <<status, audited, line>>
    /\ UNCHANGED <<rate, batches>>

Withdraw(r) ==
    /\ status[r] = "submitted"
    /\ status' = [status EXCEPT ![r] = "draft"]
    /\ line' = [l \in Lines |-> IF l \in Mileage(r)
                                THEN [line[l] EXCEPT !.applied = None]
                                ELSE line[l]]
    /\ UNCHANGED <<audited, sending, rate, batches>>

(***************************************************************************)
(* The review.                                                             *)
(***************************************************************************)
\* Faulty variant: the status is checked before the transaction only.
ReviewableAsRead(r) == r \in audited

Reviewable(r) == status[r] = "submitted"

SetApprovedTotal(l, a) ==
    /\ Reviewable(Of[l])
    /\ line[l].life = "here"
    /\ line' = [line EXCEPT ![l].granted = a]
    /\ UNCHANGED <<status, audited, sending, rate, batches>>

\* A line left untouched is granted what was asked.
Granted(l) == IF line[l].granted = None
              THEN [line[l] EXCEPT !.granted = line[l].asked]
              ELSE line[l]

Approve(r) ==
    /\ Reviewable(r)
    /\ status' = [status EXCEPT ![r] = "approved"]
    /\ line' = [l \in Lines |-> IF l \in LinesOf(r) THEN Granted(l) ELSE line[l]]
    /\ UNCHANGED <<audited, sending, rate, batches>>

Reject(r) ==
    /\ Reviewable(r)
    /\ status' = [status EXCEPT ![r] = "rejected"]
    /\ UNCHANGED <<audited, line, sending, rate, batches>>

(***************************************************************************)
(* The batches.                                                            *)
(***************************************************************************)
Eligible == {r \in Requests : status[r] = "approved" /\ claim[r] = None}
Locked == UNION {held[b] : b \in Batches}

\* The rows the cutoff and the caller's entities select, locked FOR UPDATE: a
\* second compilation waits for a row that another one holds.
LockCandidates(b, rs) ==
    /\ batch[b] = "none"
    /\ held[b] = {}
    /\ rs # {}
    /\ rs \subseteq Eligible \ Locked
    /\ held' = [held EXCEPT ![b] = rs]
    /\ UNCHANGED <<requests, rate, batch, items, claim, drawn, pdf>>

\* The rest of the transaction: it claims all rows it locked, or none.
Compile(b) ==
    /\ held[b] # {}
    /\ held' = [held EXCEPT ![b] = {}]
    /\ IF \A r \in held[b] : claim[r] = None
       THEN /\ batch' = [batch EXCEPT ![b] = "compiled"]
            /\ claim' = [r \in Requests |-> IF r \in held[b] THEN b ELSE claim[r]]
            /\ items' = items \cup ({b} \X held[b])
            /\ drawn' = [drawn EXCEPT ![b] = [r \in held[b] |-> Bill(r)]]
       ELSE UNCHANGED <<batch, claim, items, drawn>>
    /\ UNCHANGED <<requests, rate, pdf>>

\* The transaction fails or its process dies.
CompileAborted(b) ==
    /\ held[b] # {}
    /\ held' = [held EXCEPT ![b] = {}]
    /\ UNCHANGED <<requests, rate, batch, items, claim, drawn, pdf>>

\* Faulty variant: no condition on the batch's status.
MarkPaidAnyway(b) ==
    /\ batch[b] # "none"
    /\ batch' = [batch EXCEPT ![b] = "paid"]
    /\ status' = [r \in Requests |-> IF claim[r] = b /\ status[r] = "approved"
                                     THEN "paid" ELSE status[r]]
    /\ UNCHANGED <<audited, line, sending, rate, items, claim, held, drawn, pdf>>

MarkPaid(b) ==
    /\ batch[b] = "compiled"
    /\ batch' = [batch EXCEPT ![b] = "paid"]
    /\ status' = [r \in Requests |-> IF claim[r] = b /\ status[r] = "approved"
                                     THEN "paid" ELSE status[r]]
    /\ UNCHANGED <<audited, line, sending, rate, items, claim, held, drawn, pdf>>

\* Faulty variant: the batch is given up, its requests are not released.
DiscardOnly(b) ==
    /\ batch[b] = "compiled"
    /\ batch' = [batch EXCEPT ![b] = "discarded"]
    /\ UNCHANGED <<requests, rate, items, claim, held, drawn, pdf>>

Discard(b) ==
    /\ batch[b] = "compiled"
    /\ batch' = [batch EXCEPT ![b] = "discarded"]
    /\ claim' = [r \in Requests |-> IF claim[r] = b /\ status[r] = "approved"
                                    THEN None ELSE claim[r]]
    /\ UNCHANGED <<requests, rate, items, held, drawn, pdf>>

\* A read finds no PDF in the bucket and renders it from the batch's items.
ReadToRender(b) ==
    /\ batch[b] # "none"
    /\ pdf[b] = None
    /\ drawn[b] = None
    /\ drawn' = [drawn EXCEPT ![b] = [r \in Members(b) |-> Bill(r)]]
    /\ UNCHANGED <<requests, rate, batch, items, claim, held, pdf>>

StorePdf(b) ==
    /\ drawn[b] # None
    /\ pdf' = [pdf EXCEPT ![b] = drawn[b]]
    /\ drawn' = [drawn EXCEPT ![b] = None]
    /\ UNCHANGED <<requests, rate, batch, items, claim, held>>

\* The rendering or the upload fails, or the process dies before it.
PdfNotStored(b) ==
    /\ drawn[b] # None
    /\ drawn' = [drawn EXCEPT ![b] = None]
    /\ UNCHANGED <<requests, rate, batch, items, claim, held, pdf>>

Next ==
    \/ \E l \in Lines, w \in Writes : CreateLine(l, w) \/ UpdateLine(l, w)
    \/ \E l \in Lines : DeleteLine(l)
    \/ \E l \in Lines, a \in Amounts : SetApprovedTotal(l, a)
    \/ \E r \in Requests : \/ DeleteDraft(r) \/ ReadToSubmit(r) \/ Submit(r)
                           \/ Withdraw(r) \/ Approve(r) \/ Reject(r)
    \/ \E b \in Batches, rs \in SUBSET Requests : LockCandidates(b, rs)
    \/ \E b \in Batches : \/ Compile(b) \/ CompileAborted(b)
                          \/ MarkPaid(b) \/ Discard(b)
                          \/ ReadToRender(b) \/ StorePdf(b) \/ PdfNotStored(b)
    \/ ChangeRate

Spec == Init /\ [][Next]_vars

(***************************************************************************)
(* Properties.                                                             *)
(***************************************************************************)
\* The values of the variables.  An applied rate is never 0: no line is
\* frozen at the placeholder of a missing rate (lifecycle.repo.ts).
TypeOK == /\ status \in [Requests -> Statuses]
          /\ audited \subseteq Requests
          /\ line \in [Lines -> LineRows]
          /\ rate \in 0..MaxRate
          /\ sending \in [Requests -> Rates \cup {None}]
          /\ batch \in [Batches -> {"none", "compiled", "paid", "discarded"}]
          /\ items \subseteq Batches \X Requests
          /\ claim \in [Requests -> Batches \cup {None}]
          /\ held \in [Batches -> SUBSET Requests]
          /\ drawn \in [Batches -> Documents \cup {None}]
          /\ pdf \in [Batches -> Documents \cup {None}]

\* A request is claimed by the one live batch that lists it: no two batches
\* that are or may be paid list the same request, whatever was compiled,
\* discarded and compiled again before (batches.repo.ts, decide.repo.ts).
OneLiveBatch ==
    \A b \in Batches, r \in Requests :
        (claim[r] = b) <=> (<<b, r>> \in items /\ Live(b))

\* A batch pays all the requests it lists or none: those of a paid batch are
\* paid, and a paid request is listed by a paid batch (decide.repo.ts).
PaidTogether ==
    /\ \A b \in Batches : batch[b] = "paid" =>
           \A r \in Members(b) : status[r] = "paid"
    /\ \A r \in Requests : status[r] = "paid" =>
           \E b \in Batches : r \in Members(b) /\ batch[b] = "paid"

\* No line of an approved or paid request is without an amount: none is added
\* by a write that began while the request was a draft (lines.repo.ts).
EveryLineDecided ==
    \A r \in Requests : Decided(r) => \A l \in LinesOf(r) : line[l].granted # None

\* The stored PDF of a batch shows the members it was compiled with at the
\* amounts they are paid, whenever it was rendered, a discarded batch's too
\* (pdfLink.ts).
PdfTellsTheBatch ==
    \A b \in Batches : pdf[b] # None => pdf[b] = [r \in Members(b) |-> Bill(r)]

\* What is approved is decided for good and paid at most once.
owed == [r \in Requests |-> IF Decided(r) THEN Bill(r) ELSE None]
paid == {r \in Requests : status[r] = "paid"}
Ledger == INSTANCE RefundLedger WITH Requests <- Requests, Lines <- Lines,
                                     Values <- Values, None <- None,
                                     owed <- owed, paid <- paid

\* Every step of refund-api is one the abstract ledger allows: an approval
\* decides the amounts of a request once, and nothing changes them afterwards.
KeepsTheLedger == Ledger!Spec

(***************************************************************************)
(* The inductive invariant.                                                *)
(***************************************************************************)
\* Only a compiled batch has members, and they were approved.
MembersAreDecided ==
    \A b \in Batches, r \in Requests :
        <<b, r>> \in items => batch[b] # "none" /\ Decided(r)

\* The rows of an open compilation are candidates still, and of no other one.
HeldAreEligible ==
    /\ \A b \in Batches : held[b] \subseteq Eligible
    /\ \A b \in Batches : held[b] # {} => batch[b] = "none"
    /\ \A b, c \in Batches : b # c => held[b] \cap held[c] = {}

\* A rendering under way has read what the batch pays.
DrawnTellsTheBatch ==
    \A b \in Batches :
        /\ drawn[b] # None => drawn[b] = [r \in Members(b) |-> Bill(r)]
        /\ drawn[b] # None \/ pdf[b] # None => batch[b] # "none"

IInv == /\ TypeOK
        /\ MembersAreDecided
        /\ HeldAreEligible
        /\ OneLiveBatch
        /\ PaidTogether
        /\ EveryLineDecided
        /\ DrawnTellsTheBatch
        /\ PdfTellsTheBatch
=============================================================================
