---------------------------- MODULE HostNotices ----------------------------
(***************************************************************************)
(* The host-notice outbox of meetings-api and the host at its other end:   *)
(* one meeting, the deals of crm-api it is linked to one after the other,  *)
(* and the one activity crm-api keeps for it.                              *)
(*                                                                         *)
(* A change writes its notices in its own transaction and makes one        *)
(* awaited attempt at each afterwards.  A `linked` or `changed` notice     *)
(* that fails waits for its creator; an `unlinked` or `deleted` one has a  *)
(* retry job.  The message of an attempt may be lost, may arrive after its *)
(* sender gave up, and may overtake others; the host orders them by their  *)
(* number alone.  The host may lose a deal; a notice about it may then be   *)
(* answered with `entity_not_found`, which is final.  The contract allows   *)
(* that of any notice and a host (notices.test.ts:286 has one that does),   *)
(* crm-api answers so to `linked` alone.                                    *)
(***************************************************************************)
EXTENDS Naturals, Sequences

CONSTANTS Deals,     \* the entities a meeting may be linked to
          Mortal,    \* bound: those of them the host may lose
          Requests,  \* requests that may be at work at one time
          MaxSeq,    \* bound: notices one meeting may write
          MaxTitle,  \* bound: how often its title or start may change
          None       \* no deal, no activity

ASSUME BoundsAssumption == MaxSeq \in Nat /\ MaxTitle \in Nat
\* A request is not a number: the retry job of notice s is the sender s.
ASSUME SendersAssumption == Requests \cap Nat = {}

VARIABLES
    alive,    \* the meeting's row exists
    link,     \* the deal it is linked to, or None
    title,    \* how often title or start changed: the newest content
    seq,      \* hostNoticeSeq, the number of the newest notice
    notice,   \* number -> what the notice says
    row,      \* number -> "none", "pending", "failed", or "gone" from the outbox
    job,      \* number -> its retry job: "none", "queued", "running" or "done"
    pc,       \* sender -> where it stands
    at,       \* sender -> the notice it is attempting, 0 when none
    todo,     \* sender -> the notices it will attempt after it
    late,     \* notices whose sender gave up: the message may still arrive
    known,    \* the host: the deals it still has
    lastSeq,  \* the host: the highest number it applied
    activity  \* the host: the meeting's activity, or None

meeting == <<alive, link, title, seq>>
outbox == <<notice, row, job>>
senders == <<pc, at, todo>>
host == <<known, lastSeq, activity>>
vars == <<meeting, outbox, senders, late, host>>

Seqs == 1..MaxSeq
Titles == 0..MaxTitle
Senders == Requests \cup Seqs
ManualEvents == {"linked", "changed"}
RemovalEvents == {"unlinked", "deleted"}
Contents == [event : ManualEvents \cup RemovalEvents, deal : Deals, title : Titles]
Activities == [deal : Deals, title : Titles]

ASSUME NoneAssumption == None \notin Deals \cup Contents \cup Activities

TypeOK == /\ alive \in BOOLEAN
          /\ link \in Deals \cup {None}
          /\ title \in Titles
          /\ seq \in 0..MaxSeq
          /\ notice \in [Seqs -> Contents \cup {None}]
          /\ row \in [Seqs -> {"none", "pending", "failed", "gone"}]
          /\ job \in [Seqs -> {"none", "queued", "running", "done"}]
          /\ pc \in [Senders -> {"idle", "read", "sent", "delivered", "failed", "refused", "missing"}]
          /\ at \in [Senders -> 0..MaxSeq]
          /\ todo \in [Senders -> SUBSET Seqs]
          /\ late \in SUBSET Seqs
          /\ known \in SUBSET Deals
          /\ lastSeq \in 0..MaxSeq
          /\ activity \in Activities \cup {None}

Init == /\ alive = TRUE /\ link = None /\ title = 0 /\ seq = 0
        /\ notice = [s \in Seqs |-> None]
        /\ row = [s \in Seqs |-> "none"]
        /\ job = [s \in Seqs |-> "none"]
        /\ pc = [p \in Senders |-> "idle"]
        /\ at = [p \in Senders |-> 0]
        /\ todo = [p \in Senders |-> {}]
        /\ late = {}
        /\ known = Deals /\ lastSeq = 0 /\ activity = None

Written(s) == row[s] \in {"pending", "failed"}
Manual(s) == notice[s] # None /\ notice[s].event \in ManualEvents
Deleted(s) == notice[s] # None /\ notice[s].event = "deleted"
Removal(s) == notice[s] # None /\ notice[s].event \in RemovalEvents

-----------------------------------------------------------------------------
(* Changes of the meeting *)

Says(event, deal, content) == [event |-> event, deal |-> deal, title |-> content]

\* recordNotice queues the retry job of a removal in the same transaction.
Enqueued(s, told) == s > seq /\ s <= seq + Len(told) /\ told[s - seq].event \in RemovalEvents

\* A newer notice about an entity supersedes the manual ones about it.
Superseded(s, told) ==
    /\ Written(s) /\ Manual(s)
    /\ \E i \in 1..Len(told) : told[i].event \in ManualEvents /\ told[i].deal = notice[s].deal

\* recordNotice for each member of told, dropping the rows in also; request p
\* then makes the awaited attempts.
Tell(p, told, also) ==
    LET fresh == (seq + 1)..(seq + Len(told)) IN
    /\ pc[p] = "idle"
    /\ seq + Len(told) <= MaxSeq
    /\ seq' = seq + Len(told)
    /\ notice' = [s \in Seqs |-> IF s \in fresh THEN told[s - seq] ELSE notice[s]]
    /\ row' = [s \in Seqs |-> IF s \in fresh THEN "pending"
                              ELSE IF s \in also \/ Superseded(s, told) THEN "gone" ELSE row[s]]
    /\ job' = [s \in Seqs |-> IF Enqueued(s, told) THEN "queued" ELSE job[s]]
    /\ todo' = [todo EXCEPT ![p] = fresh]
    /\ pc' = [pc EXCEPT ![p] = IF told = <<>> THEN "idle" ELSE "read"]
    /\ UNCHANGED <<at, late, host>>

\* PATCH /meetings/:id with another host, which the host knows, or none.
ChangeLink(p) ==
    \E next \in (known \cup {None}) \ {link} :
        /\ alive
        /\ link' = next
        /\ Tell(p, IF link = None THEN <<Says("linked", next, title)>>
                   ELSE IF next = None THEN <<Says("unlinked", link, 0)>>
                   ELSE <<Says("unlinked", link, 0), Says("linked", next, title)>>, {})
        /\ UNCHANGED <<alive, title>>

\* PATCH /meetings/:id with another title or start.
Retitle(p) ==
    /\ alive /\ title < MaxTitle
    /\ title' = title + 1
    /\ Tell(p, IF link = None THEN <<>> ELSE <<Says("changed", link, title + 1)>>, {})
    /\ UNCHANGED <<alive, link>>

\* Faulty variant: the rows that carry the title are left to their retries.
EraseRowsOnly(p) ==
    /\ alive
    /\ alive' = FALSE
    /\ link' = None
    /\ Tell(p, IF link = None THEN <<>> ELSE <<Says("deleted", link, 0)>>, {})
    /\ UNCHANGED title

\* DELETE /meetings/:id, the transaction over the rows.
Erase(p) ==
    /\ alive
    /\ alive' = FALSE
    /\ link' = None
    /\ Tell(p, IF link = None THEN <<>> ELSE <<Says("deleted", link, 0)>>,
            {s \in Seqs : Written(s) /\ Manual(s)})
    /\ UNCHANGED title

-----------------------------------------------------------------------------
(* Attempts: of a request, or of the retry job *)

\* "Try again": the failed manual notices.
TryAgain(p) ==
    LET failed == {s \in Seqs : row[s] = "failed" /\ Manual(s)} IN
    /\ alive /\ pc[p] = "idle" /\ failed # {}
    /\ todo' = [todo EXCEPT ![p] = failed]
    /\ pc' = [pc EXCEPT ![p] = "read"]
    /\ UNCHANGED <<meeting, outbox, at, late, host>>

\* Sender p sends the first of the notices in rest, in the order of their numbers.
GoOn(p, rest) ==
    \/ /\ rest = {}
       /\ pc' = [pc EXCEPT ![p] = "idle"]
       /\ at' = [at EXCEPT ![p] = 0]
       /\ todo' = [todo EXCEPT ![p] = {}]
    \/ \E s \in rest : /\ \A t \in rest : s <= t
                       /\ pc' = [pc EXCEPT ![p] = "sent"]
                       /\ at' = [at EXCEPT ![p] = s]
                       /\ todo' = [todo EXCEPT ![p] = rest \ {s}]

\* deliverNotices reads the rows of its notices; those gone are left out.
ReadRows(p) ==
    /\ pc[p] = "read"
    /\ GoOn(p, {s \in todo[p] : Written(s)})
    /\ UNCHANGED <<meeting, outbox, late, host>>

\* The runner claims the retry job, whose handler reads the row.
ClaimJob(s) ==
    /\ job[s] = "queued"
    /\ IF row[s] = "pending"
       THEN job' = [job EXCEPT ![s] = "running"] /\ GoOn(s, {s})
       ELSE job' = [job EXCEPT ![s] = "done"] /\ UNCHANGED senders
    /\ UNCHANGED <<meeting, notice, row, late, host>>

\* Five seconds went by, or the connection broke; the message may still arrive.
GiveUp(p) ==
    /\ pc[p] = "sent"
    /\ pc' = [pc EXCEPT ![p] = "failed"]
    /\ late' = late \cup {at[p]}
    /\ UNCHANGED <<meeting, outbox, at, todo, host>>

\* A 422: nothing was applied, and it never will be.
Refuse(p) ==
    /\ pc[p] = "sent"
    /\ pc' = [pc EXCEPT ![p] = "refused"]
    /\ UNCHANGED <<meeting, outbox, at, todo, late, host>>

\* Faulty variant: the outcome of an attempt that got no answer is taken for a delivery.
SettledUnanswered(p) == pc[p] \in {"delivered", "failed"}

\* Delivered; or the host no longer has the entity, so that there is nothing
\* left to unlink or remove.
Settled(p) == pc[p] = "delivered" \/ (pc[p] = "missing" /\ Removal(at[p]))

\* An answer no further attempt would change.
Final(p) == Settled(p) \/ pc[p] \in {"refused", "missing"}

\* Faulty variant: a retry job that failed is not queued again.
TriedOnce(p) == "done"

\* What becomes of the retry job whose handler this attempt was.
Tried(p) == IF Final(p) THEN "done" ELSE "queued"

\* attemptDelivery, what follows the answer.  A queued retry job goes with its
\* notice; a running one ends with its handler, or is queued again.
RecordOutcome(p) ==
    LET s == at[p] IN
    /\ pc[p] \in {"delivered", "failed", "refused", "missing"}
    /\ row' = [row EXCEPT ![s] = IF ~Written(s) THEN @
                                 ELSE IF Settled(p) THEN "gone"
                                 ELSE IF Manual(s) \/ Final(p) THEN "failed" ELSE @]
    /\ job' = [job EXCEPT ![s] = IF p = s THEN Tried(p)
                                 ELSE IF Final(p) /\ @ = "queued" THEN "none" ELSE @]
    /\ GoOn(p, todo[p])
    /\ UNCHANGED <<meeting, notice, late, host>>

\* The database refused the outcome: a request goes on with its next notice,
\* a retry job is queued again.
OutcomeUnrecorded(p) ==
    /\ pc[p] \in {"delivered", "failed", "refused", "missing"}
    /\ job' = [s \in Seqs |-> IF s = p THEN "queued" ELSE job[s]]
    /\ GoOn(p, todo[p])
    /\ UNCHANGED <<meeting, notice, row, late, host>>

\* The process died; the lease of a retry job lapses and it is claimed again.
Die(p) ==
    /\ pc[p] # "idle"
    /\ pc' = [pc EXCEPT ![p] = "idle"]
    /\ at' = [at EXCEPT ![p] = 0]
    /\ todo' = [todo EXCEPT ![p] = {}]
    /\ job' = [s \in Seqs |-> IF s = p THEN "queued" ELSE job[s]]
    /\ late' = IF pc[p] = "sent" THEN late \cup {at[p]} ELSE late
    /\ UNCHANGED <<meeting, notice, row, host>>

-----------------------------------------------------------------------------
(* The host *)

Shown(said) == [deal |-> said.deal, title |-> said.title]

\* What the activity becomes.
Reconciled(said) ==
    CASE said.event = "linked" -> Shown(said)
      [] said.event = "changed" /\ activity # None -> [activity EXCEPT !.title = said.title]
      [] said.event = "unlinked" /\ activity # None /\ activity.deal = said.deal -> None
      [] said.event = "deleted" -> None
      [] OTHER -> activity

\* Faulty variant: every delivery is applied.
NewerAlways(s) == TRUE

\* A notice that is not newer than what was applied is a duplicate or too late.
Newer(s) == s > lastSeq

\* Only a deal that is there is linked.
Found(said) == said.event = "linked" => said.deal \in known

\* reconcile.
Apply(s) ==
    /\ IF Newer(s) /\ Found(notice[s]) THEN lastSeq' = s /\ activity' = Reconciled(notice[s])
                                       ELSE UNCHANGED <<lastSeq, activity>>
    /\ UNCHANGED known

HostAnswers(p) ==
    /\ pc[p] = "sent"
    /\ Newer(at[p]) => Found(notice[at[p]])
    /\ Apply(at[p])
    /\ pc' = [pc EXCEPT ![p] = "delivered"]
    /\ UNCHANGED <<meeting, outbox, at, todo, late>>

\* A 422 entity_not_found: nothing was applied.
HostMisses(p) ==
    /\ pc[p] = "sent"
    /\ notice[at[p]].deal \notin known
    /\ pc' = [pc EXCEPT ![p] = "missing"]
    /\ UNCHANGED <<meeting, outbox, at, todo, late, host>>

\* Nobody reads this answer.
HostAppliesLate(s) ==
    /\ s \in late
    /\ late' = late \ {s}
    /\ Apply(s)
    /\ UNCHANGED <<meeting, outbox, senders>>

\* The author deletes the activity by hand.
DeleteActivity ==
    /\ activity # None
    /\ activity' = None
    /\ UNCHANGED <<meeting, outbox, senders, late, known, lastSeq>>

\* The host loses a deal, and the activity of that deal with it.
Forget(d) ==
    /\ known' = known \ {d}
    /\ activity' = IF activity # None /\ activity.deal = d THEN None ELSE activity
    /\ UNCHANGED <<meeting, outbox, senders, late, lastSeq>>

-----------------------------------------------------------------------------
Next == \/ \E p \in Requests : ChangeLink(p) \/ Retitle(p) \/ Erase(p) \/ TryAgain(p) \/ ReadRows(p)
        \/ \E s \in Seqs : ClaimJob(s) \/ HostAppliesLate(s)
        \/ \E p \in Senders : \/ HostAnswers(p) \/ HostMisses(p) \/ Refuse(p) \/ GiveUp(p)
                              \/ RecordOutcome(p) \/ OutcomeUnrecorded(p) \/ Die(p)
        \/ DeleteActivity
        \/ \E d \in known \cap Mortal : Forget(d)

Spec == Init /\ [][Next]_vars

\* The runner claims what is due, a handler gets on and its timeout fires; and
\* the host answers, and the database takes, one attempt in the end, however
\* often they did not.
Fairness ==
    \A s \in Seqs :
       /\ WF_vars(ClaimJob(s) \/ GiveUp(s) \/ RecordOutcome(s))
       /\ SF_vars(HostAnswers(s) \/ HostMisses(s))
       /\ SF_vars(pc[s] \in {"delivered", "missing"} /\ RecordOutcome(s))

FairSpec == Spec /\ Fairness

-----------------------------------------------------------------------------
(* Properties *)

\* A removal that is still in the outbox always has a retry job that will come
\* back to it, whatever request died after its commit: recordNotice queues the
\* job in the transaction of the change.
RemovalHasItsJob ==
    \A s \in Seqs : row[s] = "pending" /\ Removal(s) => job[s] \in {"queued", "running"}

\* The host has nothing to remove any more: it applied the notice or a later
\* one; or it no longer has the deal, and no activity of it.
Decided(s) ==
    \/ lastSeq >= s
    \/ /\ notice[s].deal \notin known
       /\ activity # None => activity.deal # notice[s].deal

\* A removal leaves the outbox only once there is nothing left to remove, so
\* none is forgotten (settleDelivered, and the moot answer of notices.ts:188-194).
DeliveredIsDecided == \A s \in Seqs : row[s] = "gone" /\ Removal(s) => Decided(s)

\* Once the host applied the deletion of the meeting, no late, repeated or
\* retried notice of it brings its activity back (MeetingHostState).
DeletedStaysAway ==
    [][\A s \in Seqs : Deleted(s) /\ lastSeq = s => activity' = None]_vars

\* Nothing in the outbox holds the title of a meeting that was deleted: the
\* deletion takes the manual notices with it, and no attempt that was under
\* way puts one back.
NoTitleOutlivesTheMeeting == ~alive => \A s \in Seqs : Manual(s) => ~Written(s)

\* Deliveries in any order never turn the activity back to an older title.
TitleNeverGoesBack ==
    [][activity # None /\ activity' # None => activity'.title >= activity.title]_vars

\* A removal is retried until the host decided it, has nothing to remove or
\* refused it for good: whatever was written, there comes a time again when no
\* removal waits (deliverHostNotice.ts).
RemovalEnds ==
    []<>(\A s \in Seqs : Removal(s) => row[s] = "failed" \/ (row[s] = "gone" /\ Decided(s)))

\* The inductive invariant of the proofs.
NumberedOnce ==
    \A s \in Seqs : /\ notice[s] = None <=> s > seq
                    /\ row[s] = "none" <=> s > seq
                    /\ job[s] # "none" => Removal(s)
                    /\ Deleted(s) => ~alive /\ s = seq

SentWasWritten ==
    /\ \A s \in late : s <= seq
    /\ \A p \in Senders : /\ at[p] <= seq
                          /\ \A s \in todo[p] : s <= seq
                          /\ pc[p] \notin {"idle", "read"} => at[p] \in Seqs
    /\ lastSeq <= seq

JobsAtWork ==
    \A s \in Seqs : /\ job[s] = "running" <=> pc[s] # "idle"
                    /\ pc[s] # "idle" => at[s] = s
                    /\ pc[s] # "read" /\ todo[s] = {}

AnswersAreDecided ==
    \A p \in Senders : /\ pc[p] = "delivered" => lastSeq >= at[p]
                       /\ pc[p] = "missing" => notice[at[p]].deal \notin known

ActivityIsOfAKnownDeal == activity # None => activity.deal \in known

GoneWhenDeleted == \A s \in Seqs : Deleted(s) /\ lastSeq = s => activity = None

\* What TitleNeverGoesBack rests on: a later notice never carries an older title
\* than an earlier one, and what the host shows is no newer than what it has yet
\* to hear.
TitlesInOrder ==
    /\ \A s \in Seqs : Manual(s) => notice[s].title <= title
    /\ \A s, t \in Seqs : s < t /\ Manual(s) /\ Manual(t) => notice[s].title <= notice[t].title
    /\ activity # None =>
          /\ activity.title <= title
          /\ \A s \in Seqs : s > lastSeq /\ Manual(s) => activity.title <= notice[s].title

IInv == /\ TypeOK /\ NumberedOnce /\ SentWasWritten /\ JobsAtWork
        /\ AnswersAreDecided /\ ActivityIsOfAKnownDeal
        /\ GoneWhenDeleted /\ RemovalHasItsJob /\ DeliveredIsDecided /\ NoTitleOutlivesTheMeeting

=============================================================================
