------------------------- MODULE HostNotices_proofs -------------------------
(***************************************************************************)
(* Proofs about HostNotices, for any deals, any number of requests and any *)
(* number of notices.                                                      *)
(***************************************************************************)
EXTENDS HostNotices, TLAPS

THEOREM Initially == Init => IInv
  <1> SUFFICES ASSUME Init PROVE IInv
    OBVIOUS
  <1> USE BoundsAssumption DEF Init, Seqs, Senders, Titles
  <1>1. TypeOK
    BY DEF TypeOK
  <1>2. NumberedOnce /\ SentWasWritten /\ JobsAtWork /\ AnswersAreDecided
    BY SendersAssumption DEF NumberedOnce, SentWasWritten, JobsAtWork, AnswersAreDecided, Deleted, Removal
  <1>3. GoneWhenDeleted /\ RemovalHasItsJob /\ DeliveredIsDecided /\ NoTitleOutlivesTheMeeting
        /\ ActivityIsOfAKnownDeal
    BY DEF GoneWhenDeleted, RemovalHasItsJob, DeliveredIsDecided, NoTitleOutlivesTheMeeting, Deleted,
       ActivityIsOfAKnownDeal
  <1> QED BY <1>1, <1>2, <1>3 DEF IInv

-----------------------------------------------------------------------------
(* Writing notices *)

\* What the changes of a meeting have in common.
LEMMA TellKeeps ==
  ASSUME IInv, NEW p \in Requests, NEW told \in Seq(Contents), NEW also \in SUBSET Seqs,
         Tell(p, told, also), alive,
         alive' \in BOOLEAN, link' \in Deals \cup {None}, title' \in Titles,
         \A s \in also : Manual(s),
         \A i \in 1..Len(told) : told[i].event = "deleted" => ~alive' /\ i = Len(told),
         ~alive' => /\ \A s \in Seqs : Written(s) /\ Manual(s) => s \in also
                    /\ \A i \in 1..Len(told) : told[i].event \in RemovalEvents
  PROVE  IInv'
  <1> DEFINE fresh == (seq + 1)..(seq + Len(told))
  <1> USE BoundsAssumption, NoneAssumption DEF IInv, Seqs, Titles
  <1>0. Len(told) \in Nat /\ p \in Senders /\ p \notin Seqs /\ seq \in Nat /\ seq' = seq + Len(told)
    BY SendersAssumption DEF Tell, TypeOK, Senders
  <1>1. \A s \in fresh : told[s - seq] \in Contents /\ s - seq \in 1..Len(told)
    BY <1>0
  <1>2. /\ notice' = [s \in Seqs |-> IF s \in fresh THEN told[s - seq] ELSE notice[s]]
        /\ row' = [s \in Seqs |-> IF s \in fresh THEN "pending"
                                  ELSE IF s \in also \/ Superseded(s, told) THEN "gone" ELSE row[s]]
        /\ job' = [s \in Seqs |-> IF Enqueued(s, told) THEN "queued" ELSE job[s]]
    BY DEF Tell
  <1>3. \A s \in Seqs : s \in fresh => notice'[s] # None /\ notice'[s].event = told[s - seq].event
    BY <1>1, <1>2
  <1>4. \A s \in Seqs : Enqueued(s, told) <=> s \in fresh /\ told[s - seq].event \in RemovalEvents
    BY <1>0 DEF Enqueued
  <1>5. \A s \in Seqs : s \notin fresh => notice'[s] = notice[s]
    BY <1>2
  <1>6. \A s \in Seqs : row'[s] # row[s] => s \in fresh \/ (row'[s] = "gone" /\ Manual(s) /\ s <= seq)
    <2> SUFFICES ASSUME NEW s \in Seqs, s \notin fresh, s \in also \/ Superseded(s, told)
                 PROVE  Manual(s) /\ s <= seq
      BY <1>2
    <2> QED BY <1>0 DEF Superseded, Manual, NumberedOnce
  <1>7. TypeOK'
    <2>1. notice' \in [Seqs -> Contents \cup {None}]
      BY <1>1, <1>2 DEF TypeOK
    <2>2. row' \in [Seqs -> {"none", "pending", "failed", "gone"}]
      BY <1>2 DEF TypeOK
    <2>3. job' \in [Seqs -> {"none", "queued", "running", "done"}]
      BY <1>2 DEF TypeOK
    <2>4. todo' \in [Senders -> SUBSET Seqs] /\ seq' \in 0..MaxSeq
      BY <1>0 DEF Tell, TypeOK
    <2> QED BY <2>1, <2>2, <2>3, <2>4 DEF Tell, TypeOK, host
  <1>8. NumberedOnce'
    <2> SUFFICES ASSUME NEW s \in Seqs
                 PROVE  /\ notice'[s] = None <=> s > seq'
                        /\ row'[s] = "none" <=> s > seq'
                        /\ job'[s] # "none" => Removal(s)'
                        /\ Deleted(s)' => ~alive' /\ s = seq'
      BY DEF NumberedOnce
    <2>1. CASE s \in fresh
      <3>1. Deleted(s)' => ~alive' /\ s = seq'
        <4> SUFFICES ASSUME told[s - seq].event = "deleted" PROVE ~alive' /\ s = seq'
          BY <2>1, <1>3 DEF Deleted
        <4>1. ~alive' /\ s - seq = Len(told)
          BY <2>1, <1>1
        <4> QED BY <4>1, <1>0
      <3>2. job'[s] # "none" => Removal(s)'
        <4>1. job[s] = "none"
          BY <2>1, <1>0 DEF NumberedOnce, Removal, TypeOK
        <4> QED BY <4>1, <1>2, <1>3, <1>4 DEF Removal
      <3> QED BY <3>1, <3>2, <2>1, <1>0, <1>2, <1>3
    <2>2. CASE s \notin fresh
      <3>1. s > seq' <=> s > seq
        BY <2>2, <1>0
      <3>2. job'[s] = job[s] /\ Removal(s)' = Removal(s) /\ ~Deleted(s)
        BY <2>2, <1>2, <1>4, <1>5 DEF Removal, NumberedOnce
      <3>3. ~Deleted(s)'
        BY <3>2, <2>2, <1>5 DEF Deleted
      <3>4. row'[s] = "none" <=> row[s] = "none"
        BY <2>2, <1>0, <1>6 DEF NumberedOnce
      <3> QED BY <3>1, <3>2, <3>3, <3>4, <1>5, <2>2 DEF NumberedOnce
    <2> QED BY <2>1, <2>2
  <1>9. SentWasWritten'
    <2>1. \A q \in Senders : \A s \in todo'[q] : s <= seq'
      BY <1>0 DEF Tell, TypeOK, SentWasWritten
    <2> QED BY <2>1, <1>0 DEF Tell, TypeOK, SentWasWritten, host
  <1>10. JobsAtWork' /\ AnswersAreDecided' /\ ActivityIsOfAKnownDeal'
    <2>1. \A s \in Seqs : pc'[s] = pc[s] /\ todo'[s] = todo[s] /\ at'[s] = at[s]
      BY <1>0 DEF Tell, TypeOK, Senders
    <2>2. \A s \in Seqs : Enqueued(s, told) => job[s] = "none"
      BY <1>4, <1>0 DEF NumberedOnce, Removal
    <2>3. \A s \in Seqs : job'[s] = "running" <=> job[s] = "running"
      BY <2>2, <1>2
    <2>4. JobsAtWork'
      BY <2>1, <2>3 DEF JobsAtWork
    <2>5. AnswersAreDecided'
      <3>1. \A q \in Senders : pc'[q] \in {"delivered", "missing"} => pc'[q] = pc[q]
        BY DEF Tell, TypeOK
      <3>2. at' = at /\ lastSeq' = lastSeq /\ known' = known
        BY DEF Tell, host
      <3>3. \A q \in Senders : pc[q] = "missing" => notice'[at[q]] = notice[at[q]]
        BY <1>0, <1>5 DEF SentWasWritten
      <3> QED BY <3>1, <3>2, <3>3 DEF AnswersAreDecided
    <2>6. ActivityIsOfAKnownDeal'
      BY DEF ActivityIsOfAKnownDeal, Tell, host
    <2> QED BY <2>4, <2>5, <2>6
  <1>11. GoneWhenDeleted'
    <2>1. \A s \in Seqs : Deleted(s)' => s > lastSeq
      <3> SUFFICES ASSUME NEW s \in Seqs, Deleted(s)' PROVE s > lastSeq
        OBVIOUS
      <3>1. s \in fresh
        BY <1>5 DEF Deleted, NumberedOnce
      <3> QED BY <3>1, <1>0 DEF SentWasWritten, TypeOK
    <2> QED BY <2>1 DEF GoneWhenDeleted, Tell, host, TypeOK
  <1>12. RemovalHasItsJob'
    <2> SUFFICES ASSUME NEW s \in Seqs, row'[s] = "pending", Removal(s)'
                 PROVE  job'[s] \in {"queued", "running"}
      BY DEF RemovalHasItsJob
    <2>1. CASE s \in fresh
      BY <2>1, <1>2, <1>3, <1>4 DEF Removal
    <2>2. CASE s \notin fresh
      BY <2>2, <1>2, <1>4, <1>5, <1>6 DEF Removal, RemovalHasItsJob
    <2> QED BY <2>1, <2>2
  <1>13. DeliveredIsDecided'
    <2> SUFFICES ASSUME NEW s \in Seqs, row'[s] = "gone", Removal(s)'
                 PROVE  Decided(s)'
      BY DEF DeliveredIsDecided
    <2>1. s \notin fresh
      BY <1>2
    <2>2. Removal(s) /\ ~Manual(s)
      BY <2>1, <1>5 DEF Removal, Manual, RemovalEvents, ManualEvents
    <2>3. row[s] = "gone"
      BY <2>1, <2>2, <1>6
    <2>4. notice'[s] = notice[s] /\ lastSeq' = lastSeq /\ known' = known /\ activity' = activity
      BY <2>1, <1>5 DEF Tell, host
    <2> QED BY <2>2, <2>3, <2>4 DEF DeliveredIsDecided, Decided
  <1>14. NoTitleOutlivesTheMeeting'
    <2> SUFFICES ASSUME ~alive', NEW s \in Seqs, Manual(s)'
                 PROVE  ~Written(s)'
      BY DEF NoTitleOutlivesTheMeeting
    <2>1. s \notin fresh
      BY <1>1, <1>3 DEF Manual, ManualEvents, RemovalEvents
    <2>2. Manual(s)
      BY <2>1, <1>5 DEF Manual
    <2> QED BY <2>1, <2>2, <1>2 DEF Written
  <1> QED BY <1>7, <1>8, <1>9, <1>10, <1>11, <1>12, <1>13, <1>14

\* The change of a link.
LEMMA ChangeLinkKeeps == ASSUME IInv, NEW p \in Requests, ChangeLink(p) PROVE IInv'
  <1>1. PICK next \in (known \cup {None}) \ {link} :
           /\ alive /\ link' = next /\ UNCHANGED <<alive, title>>
           /\ Tell(p, IF link = None THEN <<Says("linked", next, title)>>
                      ELSE IF next = None THEN <<Says("unlinked", link, 0)>>
                      ELSE <<Says("unlinked", link, 0), Says("linked", next, title)>>, {})
    BY DEF ChangeLink
  <1> DEFINE told == IF link = None THEN <<Says("linked", next, title)>>
                     ELSE IF next = None THEN <<Says("unlinked", link, 0)>>
                     ELSE <<Says("unlinked", link, 0), Says("linked", next, title)>>
  <1>2. link \in Deals \cup {None} /\ next \in Deals \cup {None} /\ title \in Titles /\ 0 \in Titles
    BY <1>1, BoundsAssumption DEF IInv, TypeOK, Titles
  <1>3. link # None => Says("unlinked", link, 0) \in Contents
    BY <1>2 DEF Says, Contents, RemovalEvents
  <1>4. next # None => Says("linked", next, title) \in Contents
    BY <1>1, <1>2 DEF Says, Contents, ManualEvents
  <1>5. told \in Seq(Contents) /\ \A i \in 1..Len(told) : told[i].event # "deleted"
    <2>1. CASE link = None
      <3>1. next # None
        BY <1>1, <2>1
      <3> QED BY <2>1, <3>1, <1>4 DEF Says
    <2>2. CASE link # None /\ next = None
      BY <2>2, <1>3 DEF Says
    <2>3. CASE link # None /\ next # None
      <3>1. told = <<Says("unlinked", link, 0), Says("linked", next, title)>>
        BY <2>3
      <3> HIDE DEF told
      <3>2. told \in Seq(Contents) /\ Len(told) = 2
        BY <3>1, <2>3, <1>3, <1>4
      <3>3. told[1].event = "unlinked" /\ told[2].event = "linked"
        BY <3>1 DEF Says
      <3> QED BY <3>2, <3>3
    <2> QED BY <2>1, <2>2, <2>3
  <1>6. Tell(p, told, {})
    BY <1>1
  <1> HIDE DEF told
  <1> QED BY <1>1, <1>2, <1>5, <1>6, TellKeeps

\* One notice, or none, of the event a change has.
LEMMA OneSaid ==
  ASSUME NEW event \in {"changed", "deleted"}, NEW n \in Titles, link \in Deals \cup {None}
  PROVE  LET told == IF link = None THEN <<>> ELSE <<Says(event, link, n)>>
         IN  told \in Seq(Contents) /\ Len(told) <= 1 /\ \A i \in 1..Len(told) : told[i].event = event
  <1>1. CASE link = None
    BY <1>1
  <1>2. CASE link # None
    <2>1. Says(event, link, n) \in Contents
      BY <1>2 DEF Says, Contents, ManualEvents, RemovalEvents
    <2> QED BY <1>2, <2>1 DEF Says
  <1> QED BY <1>1, <1>2

\* The change of title or start.
LEMMA RetitleKeeps == ASSUME IInv, NEW p \in Requests, Retitle(p) PROVE IInv'
  <1> DEFINE told == IF link = None THEN <<>> ELSE <<Says("changed", link, title + 1)>>
  <1>1. link \in Deals \cup {None} /\ title + 1 \in Titles
    BY BoundsAssumption DEF IInv, TypeOK, Titles, Retitle
  <1>2. told \in Seq(Contents) /\ \A i \in 1..Len(told) : told[i].event = "changed"
    BY <1>1, OneSaid
  <1>3. Tell(p, told, {}) /\ alive /\ title' = title + 1 /\ UNCHANGED <<alive, link>>
    BY DEF Retitle
  <1> HIDE DEF told
  <1> QED BY <1>1, <1>2, <1>3, TellKeeps DEF IInv, TypeOK

\* The deletion of the meeting.
LEMMA EraseKeeps == ASSUME IInv, NEW p \in Requests, Erase(p) PROVE IInv'
  <1> DEFINE told == IF link = None THEN <<>> ELSE <<Says("deleted", link, 0)>>
             also == {s \in Seqs : Written(s) /\ Manual(s)}
  <1>1. link \in Deals \cup {None} /\ 0 \in Titles
    BY BoundsAssumption DEF IInv, TypeOK, Titles
  <1>2. told \in Seq(Contents) /\ Len(told) <= 1 /\ \A i \in 1..Len(told) : told[i].event = "deleted"
    BY <1>1, OneSaid
  <1>3. Tell(p, told, also) /\ alive /\ ~alive' /\ alive' = FALSE /\ link' = None /\ title' = title
    BY DEF Erase
  <1>4. also \in SUBSET Seqs /\ \A s \in Seqs : s \in also <=> Written(s) /\ Manual(s)
    OBVIOUS
  <1> HIDE DEF told, also
  <1>5. \A i \in 1..Len(told) : i = Len(told)
    BY <1>2
  <1>6. title' \in Titles
    BY <1>3 DEF IInv, TypeOK
  <1> QED BY <1>2, <1>3, <1>4, <1>5, <1>6, TellKeeps DEF RemovalEvents

-----------------------------------------------------------------------------
(* Attempts *)

LEMMA GoOnFacts ==
  ASSUME IInv, NEW p \in Senders, NEW rest \in SUBSET Seqs, GoOn(p, rest)
  PROVE  \E step \in {"idle", "sent"}, n \in 0..MaxSeq, left \in SUBSET Seqs :
            /\ pc' = [pc EXCEPT ![p] = step]
            /\ at' = [at EXCEPT ![p] = n]
            /\ todo' = [todo EXCEPT ![p] = left]
            /\ \/ step = "idle" /\ n = 0 /\ left = {} /\ rest = {}
               \/ step = "sent" /\ n \in rest /\ left = rest \ {n}
  <1> USE BoundsAssumption DEF Seqs
  <1>1. CASE rest = {}
    BY <1>1 DEF GoOn
  <1>2. CASE rest # {}
    <2>1. PICK s \in rest : /\ pc' = [pc EXCEPT ![p] = "sent"]
                            /\ at' = [at EXCEPT ![p] = s]
                            /\ todo' = [todo EXCEPT ![p] = rest \ {s}]
      BY <1>2 DEF GoOn
    <2>2. s \in 0..MaxSeq /\ rest \ {s} \in SUBSET Seqs
      OBVIOUS
    <2> QED BY <2>1, <2>2
  <1> QED BY <1>1, <1>2

\* A step that leaves the meeting and the notices alone, and takes no row from
\* the outbox or puts one there, needs only this much to keep the invariant.
RowsFollow ==
    \A s \in Seqs :
        /\ row'[s] = "none" <=> row[s] = "none"
        /\ ~Written(s) => row'[s] = row[s]
        /\ row'[s] = "gone" /\ row[s] # "gone" /\ Removal(s) => Decided(s)
        /\ job'[s] # "none" => job[s] # "none"
        /\ row'[s] = "pending" /\ job[s] \in {"queued", "running"} => job'[s] \in {"queued", "running"}
        /\ row'[s] = "pending" => row[s] = "pending"

LEMMA OutboxKeeps ==
  ASSUME IInv, UNCHANGED <<meeting, notice, host>>, TypeOK', RowsFollow
  PROVE  NumberedOnce' /\ GoneWhenDeleted' /\ RemovalHasItsJob' /\ DeliveredIsDecided'
         /\ NoTitleOutlivesTheMeeting' /\ ActivityIsOfAKnownDeal'
  <1> USE DEF IInv, meeting, host
  <1>1. NumberedOnce'
    BY DEF NumberedOnce, RowsFollow, Removal, Deleted
  <1>2. GoneWhenDeleted'
    BY DEF GoneWhenDeleted, Deleted
  <1>3. RemovalHasItsJob'
    BY DEF RemovalHasItsJob, Removal, RowsFollow
  <1>4. DeliveredIsDecided'
    BY DEF DeliveredIsDecided, Decided, Removal, RowsFollow
  <1>5. NoTitleOutlivesTheMeeting'
    BY DEF NoTitleOutlivesTheMeeting, Manual, Written, RowsFollow
  <1>6. ActivityIsOfAKnownDeal'
    BY DEF ActivityIsOfAKnownDeal
  <1> QED BY <1>1, <1>2, <1>3, <1>4, <1>5, <1>6

LEMMA NothingRecorded ==
  ASSUME IInv, UNCHANGED <<meeting, outbox, host>>, TypeOK', SentWasWritten', JobsAtWork', AnswersAreDecided'
  PROVE  IInv'
  <1>1. RowsFollow
    BY DEF RowsFollow, outbox
  <1>2. UNCHANGED <<meeting, notice, host>>
    BY DEF outbox
  <1> QED BY <1>1, <1>2, OutboxKeeps DEF IInv

LEMMA TryAgainKeeps == ASSUME IInv, NEW p \in Requests, TryAgain(p) PROVE IInv'
  <1> USE SendersAssumption, BoundsAssumption DEF TryAgain, IInv, TypeOK, meeting, outbox, host, Senders, Seqs
  <1>1. TypeOK'
    OBVIOUS
  <1>2. SentWasWritten'
    BY DEF SentWasWritten, NumberedOnce, Manual
  <1>3. JobsAtWork' /\ AnswersAreDecided'
    BY DEF JobsAtWork, AnswersAreDecided
  <1> QED BY <1>1, <1>2, <1>3, NothingRecorded

LEMMA ReadRowsKeeps == ASSUME IInv, NEW p \in Requests, ReadRows(p) PROVE IInv'
  <1> DEFINE rest == {s \in todo[p] : Written(s)}
  <1>1. p \in Senders /\ p \notin Seqs /\ rest \in SUBSET Seqs
    BY SendersAssumption DEF IInv, TypeOK, Senders, Seqs
  <1>2. GoOn(p, rest) /\ UNCHANGED <<meeting, outbox, late, host>>
    BY DEF ReadRows
  <1>3. \A s \in rest : s <= seq
    BY <1>1 DEF IInv, SentWasWritten
  <1> HIDE DEF rest
  <1>8. PICK step \in {"idle", "sent"}, n \in 0..MaxSeq, left \in SUBSET Seqs :
           /\ pc' = [pc EXCEPT ![p] = step]
           /\ at' = [at EXCEPT ![p] = n]
           /\ todo' = [todo EXCEPT ![p] = left]
           /\ \/ step = "idle" /\ n = 0 /\ left = {} /\ rest = {}
              \/ step = "sent" /\ n \in rest /\ left = rest \ {n}
    BY <1>1, <1>2, GoOnFacts
  <1> USE <1>1, <1>2, <1>3, <1>8, BoundsAssumption DEF IInv, Seqs, meeting, outbox, host
  <1>4. TypeOK'
    BY DEF TypeOK
  <1>5. SentWasWritten'
    BY DEF SentWasWritten, TypeOK
  <1>6. JobsAtWork'
    BY DEF JobsAtWork, TypeOK
  <1>7. AnswersAreDecided'
    BY DEF AnswersAreDecided, TypeOK
  <1> QED BY <1>4, <1>5, <1>6, <1>7, NothingRecorded

LEMMA ClaimJobKeeps == ASSUME IInv, NEW j \in Seqs, ClaimJob(j) PROVE IInv'
  <1>1. j \in Senders /\ {j} \in SUBSET Seqs /\ j <= seq
    <2>1. notice[j] # None
      BY DEF ClaimJob, IInv, NumberedOnce, Removal
    <2> QED BY <2>1, BoundsAssumption DEF IInv, NumberedOnce, TypeOK, Senders, Seqs
  <1>2. job[j] = "queued" /\ pc[j] = "idle" /\ UNCHANGED <<meeting, notice, row, late, host>>
    BY <1>1 DEF ClaimJob, IInv, JobsAtWork, TypeOK
  <1> USE <1>1, <1>2, BoundsAssumption DEF IInv, Seqs, meeting, host
  <1>3. CASE row[j] = "pending"
    <2>1. job' = [job EXCEPT ![j] = "running"] /\ GoOn(j, {j})
      BY <1>3 DEF ClaimJob
    <2>2. /\ pc' = [pc EXCEPT ![j] = "sent"] /\ at' = [at EXCEPT ![j] = j]
          /\ todo' = [todo EXCEPT ![j] = {}]
      BY <2>1 DEF GoOn
    <2>3. TypeOK'
      BY <2>1, <2>2 DEF TypeOK
    <2>4. SentWasWritten' /\ JobsAtWork' /\ AnswersAreDecided'
      BY <2>1, <2>2 DEF SentWasWritten, JobsAtWork, AnswersAreDecided, TypeOK, Senders
    <2>5. RowsFollow
      BY <2>1 DEF RowsFollow, TypeOK
    <2> QED BY <2>3, <2>4, <2>5, OutboxKeeps
  <1>4. CASE row[j] # "pending"
    <2>1. job' = [job EXCEPT ![j] = "done"] /\ UNCHANGED senders
      BY <1>4 DEF ClaimJob
    <2>2. TypeOK'
      BY <2>1 DEF TypeOK, senders
    <2>3. SentWasWritten' /\ JobsAtWork' /\ AnswersAreDecided'
      BY <2>1 DEF SentWasWritten, JobsAtWork, AnswersAreDecided, TypeOK, senders
    <2>4. RowsFollow
      BY <2>1, <1>4 DEF RowsFollow, TypeOK
    <2> QED BY <2>2, <2>3, <2>4, OutboxKeeps
  <1> QED BY <1>3, <1>4

LEMMA UnansweredKeeps ==
  ASSUME IInv, NEW p \in Senders, GiveUp(p) \/ Refuse(p) \/ HostMisses(p) PROVE IInv'
  <1> USE BoundsAssumption DEF IInv, Seqs, GiveUp, Refuse, HostMisses, meeting, outbox, host
  <1>1. at[p] \in Seqs /\ at[p] <= seq
    BY DEF SentWasWritten
  <1>2. TypeOK'
    BY <1>1 DEF TypeOK
  <1>3. SentWasWritten' /\ JobsAtWork' /\ AnswersAreDecided'
    <2>1. SentWasWritten'
      <3>1. \A s \in late' : s <= seq
        BY <1>1 DEF SentWasWritten
      <3>2. \A q \in Senders : pc'[q] \notin {"idle", "read"} => at[q] \in Seqs
        BY <1>1 DEF SentWasWritten, TypeOK
      <3>3. seq' = seq /\ at' = at /\ todo' = todo /\ lastSeq' = lastSeq
        OBVIOUS
      <3>4. /\ \A q \in Senders : at[q] <= seq /\ \A s \in todo[q] : s <= seq
            /\ lastSeq <= seq
        BY DEF SentWasWritten
      <3>5. \A q \in Senders : at'[q] <= seq' /\ \A s \in todo'[q] : s <= seq'
        BY <3>3, <3>4
      <3>6. \A q \in Senders : pc'[q] \notin {"idle", "read"} => at'[q] \in Seqs
        BY <3>2, <3>3
      <3>7. (\A s \in late' : s <= seq') /\ lastSeq' <= seq'
        BY <3>1, <3>3, <3>4
      <3> QED BY <3>5, <3>6, <3>7 DEF SentWasWritten
    <2>2. JobsAtWork'
      <3>1. at' = at /\ todo' = todo /\ job' = job
        OBVIOUS
      <3>2. \A s \in Seqs : /\ pc'[s] = "idle" <=> pc[s] = "idle"
                            /\ pc'[s] = "read" <=> pc[s] = "read"
        BY DEF TypeOK, Senders
      <3> QED BY ONLY IInv, <3>1, <3>2 DEF IInv, JobsAtWork
    <2>3. AnswersAreDecided'
      BY DEF AnswersAreDecided, TypeOK
    <2> QED BY <2>1, <2>2, <2>3
  <1> QED BY <1>2, <1>3, NothingRecorded

\* A sender that was at work and goes on, or stops, leaves the jobs in order.
LEMMA WorkGoesOn ==
  ASSUME IInv, NEW p \in Senders, pc[p] # "idle", TypeOK', UNCHANGED <<meeting, notice, lastSeq, known>>,
         NEW step, NEW n \in 0..MaxSeq, NEW left \in SUBSET Seqs,
         pc' = [pc EXCEPT ![p] = step], at' = [at EXCEPT ![p] = n], todo' = [todo EXCEPT ![p] = left],
         \/ step = "idle" /\ n = 0 /\ left = {}
         \/ step = "sent" /\ n \in todo[p] /\ left \subseteq todo[p],
         late' \subseteq late \cup (IF pc[p] = "sent" THEN {at[p]} ELSE {}),
         \A s \in Seqs : job'[s] = "running" <=> job[s] = "running" /\ s # p
  PROVE  SentWasWritten' /\ JobsAtWork' /\ AnswersAreDecided'
  <1> USE BoundsAssumption DEF IInv, Seqs, meeting
  <1>1. SentWasWritten'
    BY DEF SentWasWritten, TypeOK
  <1>2. JobsAtWork'
    <2>1. p \in Seqs => todo[p] = {} /\ step = "idle" /\ left = {}
      BY DEF JobsAtWork
    <2> SUFFICES ASSUME NEW s \in Seqs
                 PROVE  /\ job'[s] = "running" <=> pc'[s] # "idle"
                        /\ pc'[s] # "idle" => at'[s] = s
                        /\ pc'[s] # "read" /\ todo'[s] = {}
      BY DEF JobsAtWork
    <2>2. CASE s = p
      BY <2>1, <2>2 DEF TypeOK
    <2>3. CASE s # p
      BY <2>3 DEF JobsAtWork, TypeOK
    <2> QED BY <2>2, <2>3
  <1>3. AnswersAreDecided'
    BY DEF AnswersAreDecided, TypeOK
  <1> QED BY <1>1, <1>2, <1>3

LEMMA RecordOutcomeKeeps == ASSUME IInv, NEW p \in Senders, RecordOutcome(p) PROVE IInv'
  <1> DEFINE n == at[p]
  <1>1. n \in Seqs /\ n <= seq /\ pc[p] \in {"delivered", "failed", "refused", "missing"}
    BY DEF IInv, SentWasWritten, RecordOutcome
  <1>2. (p \in Seqs => p = n /\ job[p] = "running") /\ (p \notin Seqs => n # p)
    BY <1>1 DEF IInv, JobsAtWork
  <1>3. /\ row' = [row EXCEPT ![n] = IF ~Written(n) THEN row[n]
                                     ELSE IF Settled(p) THEN "gone"
                                     ELSE IF Manual(n) \/ Final(p) THEN "failed" ELSE row[n]]
        /\ job' = [job EXCEPT ![n] = IF p = n THEN Tried(p)
                                     ELSE IF Final(p) /\ job[n] = "queued" THEN "none" ELSE job[n]]
        /\ UNCHANGED <<meeting, notice, late, host>>
    BY DEF RecordOutcome, IInv, TypeOK
  <1>4. todo[p] \in SUBSET Seqs /\ GoOn(p, todo[p])
    BY DEF IInv, TypeOK, RecordOutcome
  <1>5. PICK step \in {"idle", "sent"}, m \in 0..MaxSeq, left \in SUBSET Seqs :
           /\ pc' = [pc EXCEPT ![p] = step] /\ at' = [at EXCEPT ![p] = m]
           /\ todo' = [todo EXCEPT ![p] = left]
           /\ \/ step = "idle" /\ m = 0 /\ left = {}
              \/ step = "sent" /\ m \in todo[p] /\ left \subseteq todo[p]
    BY <1>4, GoOnFacts
  <1> HIDE DEF n
  <1>6. TypeOK'
    <2>1. row' \in [Seqs -> {"none", "pending", "failed", "gone"}]
      BY <1>1, <1>3 DEF IInv, TypeOK
    <2>2. job' \in [Seqs -> {"none", "queued", "running", "done"}]
      BY <1>1, <1>3 DEF IInv, TypeOK, Tried
    <2>3. /\ pc' \in [Senders -> {"idle", "read", "sent", "delivered", "failed", "refused", "missing"}]
          /\ at' \in [Senders -> 0..MaxSeq] /\ todo' \in [Senders -> SUBSET Seqs]
      BY <1>4, <1>5, BoundsAssumption DEF IInv, TypeOK, Seqs
    <2> QED BY <2>1, <2>2, <2>3, <1>3 DEF IInv, TypeOK, meeting, host
  <1>7. \A s \in Seqs : job'[s] = "running" <=> job[s] = "running" /\ s # p
    BY <1>1, <1>2, <1>3 DEF IInv, TypeOK, Tried
  <1>8. Settled(p) => Decided(n)
    <2>1. CASE pc[p] = "delivered"
      BY <2>1 DEF Decided, IInv, AnswersAreDecided, n
    <2>2. CASE pc[p] = "missing"
      BY <2>2 DEF Decided, IInv, AnswersAreDecided, ActivityIsOfAKnownDeal, n
    <2> QED BY <2>1, <2>2 DEF Settled
  <1>9. RowsFollow
    <2> SUFFICES ASSUME NEW s \in Seqs
                 PROVE  /\ row'[s] = "none" <=> row[s] = "none"
                        /\ ~Written(s) => row'[s] = row[s]
                        /\ row'[s] = "gone" /\ row[s] # "gone" /\ Removal(s) => Decided(s)
                        /\ job'[s] # "none" => job[s] # "none"
                        /\ row'[s] = "pending" /\ job[s] \in {"queued", "running"}
                              => job'[s] \in {"queued", "running"}
                        /\ row'[s] = "pending" => row[s] = "pending"
      BY DEF RowsFollow
    <2>1. CASE s # n
      BY <2>1, <1>3 DEF IInv, TypeOK
    <2>2. CASE s = n
      <3>1. row'[n] = IF ~Written(n) THEN row[n]
                      ELSE IF Settled(p) THEN "gone"
                      ELSE IF Manual(n) \/ Final(p) THEN "failed" ELSE row[n]
        BY <1>1, <1>3 DEF IInv, TypeOK
      <3>2. job'[n] = IF p = n THEN Tried(p)
                      ELSE IF Final(p) /\ job[n] = "queued" THEN "none" ELSE job[n]
        BY <1>1, <1>3 DEF IInv, TypeOK
      <3>3. row'[n] = "pending" => ~Final(p)
        BY <3>1 DEF Written, Final
      <3>4. p = n => job[n] = "running"
        BY <1>1, <1>2
      <3> QED BY <2>2, <3>1, <3>2, <3>3, <3>4, <1>8 DEF Written, Tried
    <2> QED BY <2>1, <2>2
  <1>10. SentWasWritten' /\ JobsAtWork' /\ AnswersAreDecided'
    <2>1. UNCHANGED <<meeting, notice, lastSeq, known>> /\ late' = late
      BY <1>3 DEF host
    <2> QED BY <2>1, <1>1, <1>5, <1>6, <1>7, WorkGoesOn
  <1> QED BY <1>3, <1>6, <1>9, <1>10, OutboxKeeps DEF IInv

\* The job of a sender that ends without an outcome waits for its next claim.
LEMMA QueuedAgain ==
  ASSUME IInv, NEW p \in Senders, pc[p] # "idle", TypeOK', UNCHANGED <<meeting, notice, row, host>>,
         job' = [s \in Seqs |-> IF s = p THEN "queued" ELSE job[s]]
  PROVE  RowsFollow /\ \A s \in Seqs : job'[s] = "running" <=> job[s] = "running" /\ s # p
  <1>1. p \in Seqs => job[p] = "running"
    BY DEF IInv, JobsAtWork
  <1> QED BY <1>1 DEF RowsFollow, IInv, TypeOK

LEMMA OutcomeUnrecordedKeeps == ASSUME IInv, NEW p \in Senders, OutcomeUnrecorded(p) PROVE IInv'
  <1>1. todo[p] \in SUBSET Seqs /\ GoOn(p, todo[p]) /\ UNCHANGED <<meeting, notice, row, late, host>>
        /\ job' = [s \in Seqs |-> IF s = p THEN "queued" ELSE job[s]] /\ pc[p] # "idle"
    BY DEF IInv, TypeOK, OutcomeUnrecorded
  <1>2. PICK step \in {"idle", "sent"}, m \in 0..MaxSeq, left \in SUBSET Seqs :
           /\ pc' = [pc EXCEPT ![p] = step] /\ at' = [at EXCEPT ![p] = m]
           /\ todo' = [todo EXCEPT ![p] = left]
           /\ \/ step = "idle" /\ m = 0 /\ left = {}
              \/ step = "sent" /\ m \in todo[p] /\ left \subseteq todo[p]
    BY <1>1, GoOnFacts
  <1>3. TypeOK'
    <2>1. job' \in [Seqs -> {"none", "queued", "running", "done"}]
      BY <1>1 DEF IInv, TypeOK
    <2> QED BY <2>1, <1>1, <1>2 DEF IInv, TypeOK, meeting, host
  <1>4. RowsFollow /\ \A s \in Seqs : job'[s] = "running" <=> job[s] = "running" /\ s # p
    BY <1>1, <1>3, QueuedAgain
  <1>5. SentWasWritten' /\ JobsAtWork' /\ AnswersAreDecided'
    BY <1>1, <1>2, <1>3, <1>4, WorkGoesOn DEF host
  <1> QED BY <1>1, <1>3, <1>4, <1>5, OutboxKeeps DEF IInv

LEMMA DieKeeps == ASSUME IInv, NEW p \in Senders, Die(p) PROVE IInv'
  <1>1. /\ pc[p] # "idle" /\ UNCHANGED <<meeting, notice, row, host>>
        /\ job' = [s \in Seqs |-> IF s = p THEN "queued" ELSE job[s]]
        /\ late' = IF pc[p] = "sent" THEN late \cup {at[p]} ELSE late
    BY DEF Die
  <1>2. /\ pc' = [pc EXCEPT ![p] = "idle"] /\ at' = [at EXCEPT ![p] = 0]
        /\ todo' = [todo EXCEPT ![p] = {}] /\ 0 \in 0..MaxSeq /\ {} \in SUBSET Seqs
    BY BoundsAssumption DEF Die
  <1>3. TypeOK'
    <2>1. pc[p] = "sent" => at[p] \in Seqs
      BY DEF IInv, SentWasWritten
    <2>2. late' \in SUBSET Seqs
      BY <2>1, <1>1 DEF IInv, TypeOK
    <2>3. job' \in [Seqs -> {"none", "queued", "running", "done"}]
      BY <1>1 DEF IInv, TypeOK
    <2> QED BY <2>2, <2>3, <1>1, <1>2 DEF IInv, TypeOK, meeting, host
  <1>4. RowsFollow /\ \A s \in Seqs : job'[s] = "running" <=> job[s] = "running" /\ s # p
    BY <1>1, <1>3, QueuedAgain
  <1>5. SentWasWritten' /\ JobsAtWork' /\ AnswersAreDecided'
    BY <1>1, <1>2, <1>3, <1>4, WorkGoesOn DEF host
  <1> QED BY <1>1, <1>3, <1>4, <1>5, OutboxKeeps DEF IInv

-----------------------------------------------------------------------------
(* The host *)

\* Applying notice s, from whomever.
LEMMA ApplyKeeps ==
  ASSUME IInv, NEW s \in Seqs, s <= seq, Apply(s), UNCHANGED <<meeting, outbox>>
  PROVE  /\ lastSeq' \in 0..MaxSeq /\ activity' \in Activities \cup {None} /\ known' = known
         /\ lastSeq' >= lastSeq /\ lastSeq' <= seq
         /\ (Newer(s) => Found(notice[s])) => lastSeq' >= s
         /\ NumberedOnce' /\ GoneWhenDeleted' /\ RemovalHasItsJob'
         /\ DeliveredIsDecided' /\ NoTitleOutlivesTheMeeting' /\ ActivityIsOfAKnownDeal'
  <1> DEFINE applied == Newer(s) /\ Found(notice[s])
  <1> USE BoundsAssumption DEF IInv, Seqs, meeting, outbox
  <1>1. /\ notice[s] # None /\ notice[s] \in Contents /\ known' = known
        /\ lastSeq \in Nat /\ lastSeq <= seq /\ seq \in Nat
    BY DEF NumberedOnce, TypeOK, SentWasWritten, Apply
  <1>2. /\ lastSeq' = IF applied THEN s ELSE lastSeq
        /\ activity' = IF applied THEN Reconciled(notice[s]) ELSE activity
    BY DEF Apply
  <1>3. Reconciled(notice[s]) \in Activities \cup {None}
    BY <1>1 DEF Reconciled, Shown, TypeOK, Contents, Activities
  <1>4. activity' \in Activities \cup {None}
    BY <1>2, <1>3 DEF TypeOK
  <1>5. /\ lastSeq' \in 0..MaxSeq /\ lastSeq' >= lastSeq /\ lastSeq' <= seq
        /\ (Newer(s) => Found(notice[s])) => lastSeq' >= s
    BY <1>1, <1>2 DEF TypeOK, Newer
  <1>6. NumberedOnce' /\ RemovalHasItsJob' /\ NoTitleOutlivesTheMeeting'
    BY DEF NumberedOnce, RemovalHasItsJob, NoTitleOutlivesTheMeeting, Removal, Deleted, Manual, Written
  <1>7. ActivityIsOfAKnownDeal'
    <2>1. CASE applied
      <3> SUFFICES ASSUME activity' # None PROVE activity'.deal \in known
        BY <1>1 DEF ActivityIsOfAKnownDeal
      <3>1. CASE notice[s].event = "linked"
        BY <2>1, <3>1, <1>2 DEF Reconciled, Shown, Found
      <3>2. CASE notice[s].event # "linked"
        <4>1. activity # None /\ activity' \in {activity, [activity EXCEPT !.title = notice[s].title]}
          BY <2>1, <3>2, <1>2 DEF Reconciled
        <4>2. activity'.deal = activity.deal
          BY <4>1 DEF TypeOK, Activities
        <4> QED BY <4>1, <4>2 DEF ActivityIsOfAKnownDeal
      <3> QED BY <3>1, <3>2
    <2>2. CASE ~applied
      BY <2>2, <1>1, <1>2 DEF ActivityIsOfAKnownDeal
    <2> QED BY <2>1, <2>2
  <1>8. DeliveredIsDecided'
    <2> SUFFICES ASSUME NEW r \in Seqs, row[r] = "gone", Removal(r) PROVE Decided(r)'
      BY DEF DeliveredIsDecided, Removal
    <2>1. CASE lastSeq >= r
      BY <2>1, <1>1, <1>5 DEF Decided
    <2>2. CASE notice[r].deal \notin known
      BY <2>2, <1>1, <1>7 DEF Decided, ActivityIsOfAKnownDeal
    <2> QED BY <2>1, <2>2 DEF DeliveredIsDecided, Decided
  <1>9. GoneWhenDeleted'
    <2> SUFFICES ASSUME NEW d \in Seqs, Deleted(d), lastSeq' = d PROVE activity' = None
      BY DEF GoneWhenDeleted, Deleted
    <2>1. CASE applied
      BY <2>1, <1>1, <1>2 DEF Reconciled, Deleted
    <2>2. CASE ~applied
      BY <2>2, <1>2 DEF GoneWhenDeleted
    <2> QED BY <2>1, <2>2
  <1> QED BY <1>1, <1>4, <1>5, <1>6, <1>7, <1>8, <1>9

\* The host loses a deal.
LEMMA ForgetKeeps == ASSUME IInv, NEW d, Forget(d) PROVE IInv'
  <1>1. /\ UNCHANGED <<meeting, outbox, senders, late, lastSeq>> /\ known' = known \ {d}
        /\ activity' \in {None, activity}
        /\ activity' # None => activity' = activity /\ activity.deal # d
    BY DEF Forget
  <1> USE <1>1 DEF IInv, meeting, outbox, senders
  <1>2. TypeOK' /\ ActivityIsOfAKnownDeal'
    BY DEF TypeOK, ActivityIsOfAKnownDeal
  <1>3. NumberedOnce' /\ SentWasWritten' /\ JobsAtWork' /\ RemovalHasItsJob' /\ NoTitleOutlivesTheMeeting'
    BY DEF NumberedOnce, SentWasWritten, JobsAtWork, RemovalHasItsJob, NoTitleOutlivesTheMeeting,
       Removal, Deleted, Manual, Written
  <1>4. AnswersAreDecided' /\ GoneWhenDeleted'
    BY DEF AnswersAreDecided, GoneWhenDeleted, Deleted
  <1>5. DeliveredIsDecided'
    BY DEF DeliveredIsDecided, Decided, Removal
  <1> QED BY <1>2, <1>3, <1>4, <1>5

LEMMA HostKeeps ==
  ASSUME IInv,
         \/ \E p \in Senders : HostAnswers(p)
         \/ \E s \in Seqs : HostAppliesLate(s)
         \/ DeleteActivity
  PROVE  IInv'
  <1> USE BoundsAssumption DEF IInv, Seqs
  <1>1. ASSUME NEW p \in Senders, HostAnswers(p) PROVE IInv'
    <2>1. at[p] \in Seqs /\ at[p] <= seq /\ Apply(at[p]) /\ UNCHANGED <<meeting, outbox, at, todo, late>>
          /\ pc[p] = "sent" /\ pc' = [pc EXCEPT ![p] = "delivered"]
      BY <1>1 DEF HostAnswers, SentWasWritten
    <2>2. /\ lastSeq' \in 0..MaxSeq /\ activity' \in Activities \cup {None} /\ known' = known
          /\ lastSeq' >= at[p] /\ lastSeq' >= lastSeq /\ lastSeq' <= seq
          /\ NumberedOnce' /\ GoneWhenDeleted' /\ RemovalHasItsJob'
          /\ DeliveredIsDecided' /\ NoTitleOutlivesTheMeeting' /\ ActivityIsOfAKnownDeal'
      <3>1. Newer(at[p]) => Found(notice[at[p]])
        BY <1>1 DEF HostAnswers
      <3> QED BY <2>1, <3>1, ApplyKeeps
    <2>3. TypeOK'
      BY <2>1, <2>2 DEF TypeOK, meeting, outbox
    <2>4. SentWasWritten' /\ JobsAtWork'
      <3>1. UNCHANGED <<seq, job, at, todo, late>>
        BY <2>1 DEF meeting, outbox
      <3>2. SentWasWritten'
        BY <2>1, <2>2, <3>1 DEF SentWasWritten, TypeOK
      <3>3. JobsAtWork'
        BY <2>1, <3>1 DEF JobsAtWork, TypeOK
      <3> QED BY <3>2, <3>3
    <2>5. AnswersAreDecided'
      <3>1. notice' = notice /\ at' = at
        BY <2>1 DEF outbox
      <3>2. \A q \in Senders : q # p => pc'[q] = pc[q]
        BY <2>1 DEF TypeOK
      <3>3. lastSeq \in Nat /\ lastSeq' \in Nat /\ \A q \in Senders : at[q] \in Nat
        BY <2>2 DEF TypeOK
      <3>4. pc'[p] = "delivered"
        BY <2>1 DEF TypeOK
      <3> QED BY <2>2, <3>1, <3>2, <3>3, <3>4 DEF AnswersAreDecided
    <2> QED BY <2>2, <2>3, <2>4, <2>5
  <1>2. ASSUME NEW s \in Seqs, HostAppliesLate(s) PROVE IInv'
    <2>1. s <= seq /\ Apply(s) /\ UNCHANGED <<meeting, outbox, senders>> /\ late' = late \ {s}
      BY <1>2 DEF HostAppliesLate, SentWasWritten
    <2>2. /\ lastSeq' \in 0..MaxSeq /\ activity' \in Activities \cup {None} /\ known' = known
          /\ lastSeq' >= lastSeq /\ lastSeq' <= seq
          /\ NumberedOnce' /\ GoneWhenDeleted' /\ RemovalHasItsJob'
          /\ DeliveredIsDecided' /\ NoTitleOutlivesTheMeeting' /\ ActivityIsOfAKnownDeal'
      BY <2>1, ApplyKeeps
    <2>3. TypeOK' /\ SentWasWritten' /\ JobsAtWork' /\ AnswersAreDecided'
      BY <2>1, <2>2 DEF TypeOK, meeting, outbox, senders, SentWasWritten, JobsAtWork, AnswersAreDecided
    <2> QED BY <2>2, <2>3
  <1>3. ASSUME DeleteActivity PROVE IInv'
    BY <1>3 DEF DeleteActivity, TypeOK, meeting, outbox, senders, NumberedOnce, Removal, Deleted,
       SentWasWritten, JobsAtWork, AnswersAreDecided, GoneWhenDeleted, RemovalHasItsJob,
       DeliveredIsDecided, Decided, ActivityIsOfAKnownDeal, NoTitleOutlivesTheMeeting, Manual, Written
  <1> QED BY <1>1, <1>2, <1>3

-----------------------------------------------------------------------------
(* The theorems *)

LEMMA NextKeeps == ASSUME IInv, [Next]_vars PROVE IInv'
  <1>1. ASSUME NEW p \in Requests,
               ChangeLink(p) \/ Retitle(p) \/ Erase(p) \/ TryAgain(p) \/ ReadRows(p)
        PROVE  IInv'
    BY <1>1, ChangeLinkKeeps, RetitleKeeps, EraseKeeps, TryAgainKeeps, ReadRowsKeeps
  <1>2. ASSUME NEW s \in Seqs, ClaimJob(s) PROVE IInv'
    BY <1>2, ClaimJobKeeps
  <1>3. ASSUME NEW p \in Senders,
               \/ HostMisses(p) \/ GiveUp(p) \/ Refuse(p)
               \/ RecordOutcome(p) \/ OutcomeUnrecorded(p) \/ Die(p)
        PROVE  IInv'
    BY <1>3, UnansweredKeeps, RecordOutcomeKeeps, OutcomeUnrecordedKeeps, DieKeeps
  <1>4. CASE (\E p \in Senders : HostAnswers(p)) \/ (\E s \in Seqs : HostAppliesLate(s)) \/ DeleteActivity
    BY <1>4, HostKeeps
  <1>6. ASSUME NEW d \in known \cap Mortal, Forget(d) PROVE IInv'
    BY <1>6, ForgetKeeps
  <1>5. CASE UNCHANGED vars
    BY <1>5 DEF vars, meeting, outbox, senders, host, IInv, TypeOK, NumberedOnce, Removal, Deleted,
       SentWasWritten, JobsAtWork, AnswersAreDecided, GoneWhenDeleted, RemovalHasItsJob,
       DeliveredIsDecided, Decided, ActivityIsOfAKnownDeal, NoTitleOutlivesTheMeeting, Manual, Written
  <1> QED BY <1>1, <1>2, <1>3, <1>4, <1>5, <1>6 DEF Next

\* The rows, the jobs, the senders and the host agree in every reachable state.
THEOREM Inductive == Spec => []IInv
  <1> QED BY Initially, NextKeeps, PTL DEF Spec

\* A removal that is still in the outbox has a retry job that comes back to it.
THEOREM RemovalsAreRetried == Spec => []RemovalHasItsJob
  <1>1. IInv => RemovalHasItsJob
    BY DEF IInv
  <1> QED BY <1>1, Inductive, PTL

\* A removal leaves the outbox only once the host applied it or a later notice,
\* or once neither its deal nor an activity of that deal is left at the host
\* (settleDelivered, and the moot answer of notices.ts:188-194).
THEOREM DeliveriesAreDecided == Spec => []DeliveredIsDecided
  <1>1. IInv => DeliveredIsDecided
    BY DEF IInv
  <1> QED BY <1>1, Inductive, PTL

\* The outbox keeps no title of a deleted meeting.
THEOREM NoTitleIsLeft == Spec => []NoTitleOutlivesTheMeeting
  <1>1. IInv => NoTitleOutlivesTheMeeting
    BY DEF IInv
  <1> QED BY <1>1, Inductive, PTL

\* Once the deletion was applied, nothing brings the activity back.
THEOREM DeletedForGood == Spec => DeletedStaysAway
  <1>1. IInv /\ IInv' /\ [Next]_vars => [\A s \in Seqs : Deleted(s) /\ lastSeq = s => activity' = None]_vars
    <2> SUFFICES ASSUME IInv, IInv', [Next]_vars, NEW s \in Seqs, Deleted(s), lastSeq = s
                 PROVE  activity' = None
      OBVIOUS
    <2>1. activity = None
      BY DEF IInv, GoneWhenDeleted
    <2>2. ASSUME NEW t \in Seqs, t <= seq, Apply(t) PROVE activity' = None
      <3>1. ~Newer(t)
        BY <2>2, BoundsAssumption DEF IInv, NumberedOnce, Newer, TypeOK, Seqs
      <3> QED BY <2>1, <2>2, <3>1 DEF Apply
    <2>3. ASSUME NEW p \in Senders, HostAnswers(p) PROVE activity' = None
      <3>1. at[p] \in Seqs /\ at[p] <= seq /\ Apply(at[p])
        BY <2>3 DEF IInv, SentWasWritten, HostAnswers
      <3> QED BY <3>1, <2>2
    <2>4. ASSUME NEW t \in Seqs, HostAppliesLate(t) PROVE activity' = None
      BY <2>2, <2>4 DEF IInv, SentWasWritten, HostAppliesLate
    <2>5. ASSUME NEW p \in Requests,
                 ChangeLink(p) \/ Retitle(p) \/ Erase(p) \/ TryAgain(p) \/ ReadRows(p)
          PROVE  activity' = activity
      BY <2>5 DEF ChangeLink, Retitle, Erase, TryAgain, ReadRows, Tell, host
    <2>6. ASSUME NEW p \in Senders,
                 \/ HostMisses(p) \/ Refuse(p) \/ GiveUp(p)
                 \/ RecordOutcome(p) \/ OutcomeUnrecorded(p) \/ Die(p)
          PROVE  activity' = activity
      BY <2>6 DEF HostMisses, Refuse, GiveUp, RecordOutcome, OutcomeUnrecorded, Die, host
    <2>7. ASSUME NEW t \in Seqs, ClaimJob(t) PROVE activity' = activity
      BY <2>7 DEF ClaimJob, host
    <2>8. CASE DeleteActivity
      BY <2>8 DEF DeleteActivity
    <2>9. ASSUME NEW d \in known \cap Mortal, Forget(d) PROVE activity' = None
      BY <2>9, <2>1 DEF Forget
    <2>10. CASE UNCHANGED vars
      BY <2>10, <2>1 DEF vars, host
    <2> QED BY <2>1, <2>3, <2>4, <2>5, <2>6, <2>7, <2>8, <2>9, <2>10 DEF Next
  <1> QED BY <1>1, Inductive, PTL DEF Spec, DeletedStaysAway

-----------------------------------------------------------------------------
(* Titles *)

\* The manual notices a change writes carry the title as the change leaves it.
LEMMA TellTitles ==
  ASSUME IInv, TitlesInOrder, NEW p \in Requests, NEW told \in Seq(Contents),
         NEW also \in SUBSET Seqs, Tell(p, told, also), title' \in Titles, title' >= title,
         \A i \in 1..Len(told) : told[i].event \in ManualEvents => told[i].title = title'
  PROVE  TitlesInOrder'
  <1> DEFINE fresh == (seq + 1)..(seq + Len(told))
  <1> USE BoundsAssumption, NoneAssumption DEF IInv, Seqs, Titles
  <1>1. /\ notice' = [s \in Seqs |-> IF s \in fresh THEN told[s - seq] ELSE notice[s]]
        /\ lastSeq' = lastSeq /\ activity' = activity
        /\ Len(told) \in Nat /\ seq \in Nat /\ title \in Nat /\ title' \in Nat
    BY DEF Tell, host, TypeOK
  <1>2. \A s \in Seqs : s \in fresh /\ Manual(s)' => s > seq /\ notice'[s].title = title'
    <2> SUFFICES ASSUME NEW s \in Seqs, s \in fresh, Manual(s)'
                 PROVE  s > seq /\ notice'[s].title = title'
      OBVIOUS
    <2>1. s - seq \in 1..Len(told) /\ notice'[s] = told[s - seq] /\ s > seq
      BY <1>1
    <2> QED BY <2>1 DEF Manual
  <1>3. \A s \in Seqs : s \notin fresh /\ Manual(s)'
            => Manual(s) /\ s <= seq /\ notice'[s].title = notice[s].title
                /\ notice[s].title \in Nat /\ notice[s].title <= title
    <2> SUFFICES ASSUME NEW s \in Seqs, s \notin fresh, Manual(s)'
                 PROVE  Manual(s) /\ s <= seq /\ notice'[s].title = notice[s].title
                         /\ notice[s].title \in Nat /\ notice[s].title <= title
      OBVIOUS
    <2>1. notice'[s] = notice[s] /\ Manual(s)
      BY <1>1 DEF Manual
    <2>2. notice[s] \in Contents /\ s <= seq
      BY <2>1, <1>1 DEF Manual, TypeOK, NumberedOnce
    <2> QED BY <2>1, <2>2 DEF Contents, TitlesInOrder
  <1> HIDE DEF fresh
  <1>4. \A s \in Seqs : Manual(s)' => notice'[s].title <= title'
    BY <1>1, <1>2, <1>3
  <1>5. ASSUME NEW s \in Seqs, NEW u \in Seqs, s < u, Manual(s)', Manual(u)'
        PROVE  notice'[s].title <= notice'[u].title
    <2>1. CASE u \in fresh
      BY <2>1, <1>2, <1>4, <1>5
    <2>2. CASE u \notin fresh
      <3>1. s \notin fresh
        BY <1>1, <1>2, <1>3, <1>5, <2>2
      <3> QED BY <1>3, <1>5, <2>2, <3>1 DEF TitlesInOrder
    <2> QED BY <2>1, <2>2
  <1>6. ASSUME activity' # None
        PROVE  /\ activity'.title <= title'
               /\ \A s \in Seqs : s > lastSeq' /\ Manual(s)' => activity'.title <= notice'[s].title
    <2>1. activity # None /\ activity.title \in Nat /\ activity.title <= title
      BY <1>1, <1>6 DEF TypeOK, Activities, TitlesInOrder
    <2>2. activity'.title <= title'
      BY <1>1, <2>1
    <2>3. ASSUME NEW s \in Seqs, s > lastSeq, Manual(s)' PROVE activity.title <= notice'[s].title
      <3>1. CASE s \in fresh
        BY <3>1, <2>1, <2>2, <2>3, <1>1, <1>2
      <3>2. CASE s \notin fresh
        BY <3>2, <2>1, <2>3, <1>3 DEF TitlesInOrder
      <3> QED BY <3>1, <3>2
    <2> QED BY <2>2, <2>3, <1>1
  <1> QED BY <1>4, <1>5, <1>6 DEF TitlesInOrder

\* The changes of the meeting.
LEMMA ChangesInOrder ==
  ASSUME IInv, TitlesInOrder, NEW p \in Requests, ChangeLink(p) \/ Retitle(p) \/ Erase(p)
  PROVE  TitlesInOrder' /\ activity' = activity
  <1>0. /\ link \in Deals \cup {None} /\ title \in Titles /\ 0 \in Titles
        /\ title \in Nat /\ Titles \subseteq Nat
    BY BoundsAssumption DEF IInv, TypeOK, Titles
  <1>1. CASE ChangeLink(p)
    <2>1. PICK next \in (known \cup {None}) \ {link} :
             /\ title' = title
             /\ Tell(p, IF link = None THEN <<Says("linked", next, title)>>
                        ELSE IF next = None THEN <<Says("unlinked", link, 0)>>
                        ELSE <<Says("unlinked", link, 0), Says("linked", next, title)>>, {})
      BY <1>1 DEF ChangeLink
    <2> DEFINE told == IF link = None THEN <<Says("linked", next, title)>>
                       ELSE IF next = None THEN <<Says("unlinked", link, 0)>>
                       ELSE <<Says("unlinked", link, 0), Says("linked", next, title)>>
    <2>2. link # None => Says("unlinked", link, 0) \in Contents
      BY <1>0 DEF Says, Contents, RemovalEvents
    <2>9. next \in Deals \cup {None}
      BY <2>1 DEF IInv, TypeOK
    <2>3. next # None => Says("linked", next, title) \in Contents
      BY <1>0, <2>9 DEF Says, Contents, ManualEvents
    <2>4. told \in Seq(Contents)
          /\ \A i \in 1..Len(told) : told[i].event \in ManualEvents => told[i].title = title
      <3>1. CASE link = None
        <4>1. next # None
          BY <2>1, <3>1
        <4> QED BY <3>1, <4>1, <2>3 DEF Says
      <3>2. CASE link # None /\ next = None
        BY <3>2, <2>2 DEF Says, ManualEvents
      <3>3. CASE link # None /\ next # None
        <4>1. told = <<Says("unlinked", link, 0), Says("linked", next, title)>>
          BY <3>3
        <4> HIDE DEF told
        <4>2. told \in Seq(Contents) /\ Len(told) = 2
          BY <4>1, <3>3, <2>2, <2>3
        <4>3. told[1].event = "unlinked" /\ told[2].title = title
          BY <4>1 DEF Says
        <4> QED BY <4>2, <4>3 DEF ManualEvents
      <3> QED BY <3>1, <3>2, <3>3
    <2>5. Tell(p, told, {}) /\ title' = title
      BY <2>1
    <2>6. activity' = activity
      BY <2>5 DEF Tell, host
    <2>7. title' \in Titles /\ title' >= title
      BY <2>5, <1>0
    <2> HIDE DEF told
    <2> QED BY <2>4, <2>5, <2>6, <2>7, TellTitles
  <1>2. CASE Retitle(p)
    <2> DEFINE told == IF link = None THEN <<>> ELSE <<Says("changed", link, title + 1)>>
    <2>1. Tell(p, told, {}) /\ title' = title + 1 /\ title + 1 \in Titles
      BY <1>0, <1>2, BoundsAssumption DEF Retitle, Titles
    <2>2. told \in Seq(Contents) /\ \A i \in 1..Len(told) : told[i].title = title + 1
      <3>1. CASE link = None
        BY <3>1
      <3>2. CASE link # None
        <4>1. Says("changed", link, title + 1) \in Contents
          BY <3>2, <2>1, <1>0 DEF Says, Contents, ManualEvents
        <4> QED BY <4>1, <3>2 DEF Says
      <3> QED BY <3>1, <3>2
    <2>3. activity' = activity
      BY <2>1 DEF Tell, host
    <2>4. title' \in Titles /\ title' >= title
      BY <2>1, <1>0
    <2> HIDE DEF told
    <2> QED BY <2>1, <2>2, <2>3, <2>4, TellTitles
  <1>3. CASE Erase(p)
    <2> DEFINE told == IF link = None THEN <<>> ELSE <<Says("deleted", link, 0)>>
               also == {s \in Seqs : Written(s) /\ Manual(s)}
    <2>1. Tell(p, told, also) /\ title' = title /\ also \in SUBSET Seqs
      BY <1>3 DEF Erase
    <2>2. told \in Seq(Contents) /\ Len(told) <= 1 /\ \A i \in 1..Len(told) : told[i].event = "deleted"
      BY <1>0, OneSaid
    <2>3. activity' = activity
      BY <2>1 DEF Tell, host
    <2>4. title' \in Titles /\ title' >= title
      BY <2>1, <1>0
    <2>5. \A i \in 1..Len(told) : told[i].event \notin ManualEvents
      BY <2>2 DEF ManualEvents
    <2> HIDE DEF told, also
    <2> QED BY <2>1, <2>2, <2>3, <2>4, <2>5, TellTitles
  <1> QED BY <1>1, <1>2, <1>3

\* The host, which hears of the notices in any order.
LEMMA AppliedInOrder ==
  ASSUME IInv, TitlesInOrder, NEW s \in Seqs, s <= seq, Apply(s), UNCHANGED <<meeting, outbox>>
  PROVE  /\ TitlesInOrder'
         /\ activity # None /\ activity' # None => activity'.title >= activity.title
  <1> USE BoundsAssumption DEF IInv, Seqs, Titles
  <1>1. notice[s] \in Contents /\ notice[s] # None /\ lastSeq \in Nat /\ title \in Nat
    BY DEF NumberedOnce, TypeOK
  <1>2. title' = title /\ notice' = notice
    BY DEF meeting, outbox
  <1>3. \A n \in Seqs : Manual(n) => notice[n].title \in Nat
    <2>1. \A n \in Seqs : Manual(n) => notice[n] \in Contents
      BY DEF Manual, TypeOK
    <2> QED BY <2>1 DEF Contents
  <1>4. CASE ~(Newer(s) /\ Found(notice[s]))
    <2>1. lastSeq' = lastSeq /\ activity' = activity
      BY <1>4 DEF Apply
    <2>2. activity # None => activity.title \in Nat
      BY DEF TypeOK, Activities
    <2> QED BY <2>1, <2>2, <1>2 DEF TitlesInOrder, Manual
  <1>5. CASE Newer(s) /\ Found(notice[s])
    <2>1. lastSeq' = s /\ activity' = Reconciled(notice[s]) /\ s > lastSeq
      BY <1>5 DEF Apply, Newer
    <2>2. activity # None => activity.title \in Nat /\ activity.title <= title
      BY DEF TypeOK, Activities, TitlesInOrder
    <2>3. Manual(s) => /\ notice[s].title <= title
                       /\ \A n \in Seqs : n > s /\ Manual(n) => notice[s].title <= notice[n].title
                       /\ activity # None => activity.title <= notice[s].title
      BY <2>1 DEF TitlesInOrder
    <2>4. \/ activity' = None
          \/ activity # None /\ activity' = activity
          \/ Manual(s) /\ activity' # None /\ activity'.title = notice[s].title
      <3>1. CASE notice[s].event \in ManualEvents
        <4>1. Shown(notice[s]) # None /\ Shown(notice[s]).title = notice[s].title
          BY <1>1, NoneAssumption DEF Shown, Contents, Activities
        <4>2. CASE notice[s].event = "linked"
          BY <4>1, <4>2, <2>1, <1>1, <3>1 DEF Reconciled, Manual
        <4>3. CASE notice[s].event = "changed" /\ activity # None
          <5>1. activity' = [activity EXCEPT !.title = notice[s].title]
            BY <4>3, <2>1 DEF Reconciled
          <5>2. activity \in Activities /\ notice[s].title \in Titles
            BY <4>3, <1>1 DEF TypeOK, Contents
          <5>3. activity' \in Activities /\ activity'.title = notice[s].title
            BY <5>1, <5>2 DEF Activities
          <5> QED BY <5>3, <1>1, <3>1, NoneAssumption DEF Manual
        <4>4. CASE notice[s].event = "changed" /\ activity = None
          BY <4>4, <2>1 DEF Reconciled
        <4> QED BY <3>1, <4>2, <4>3, <4>4 DEF ManualEvents
      <3>2. CASE notice[s].event \notin ManualEvents
        BY <3>2, <2>1 DEF Reconciled, ManualEvents
      <3> QED BY <3>1, <3>2
    <2>5. CASE activity' = None
      BY <2>5, <1>2 DEF TitlesInOrder, Manual
    <2>6. CASE activity # None /\ activity' = activity
      <3>1. \A n \in Seqs : n > s /\ Manual(n) => activity.title <= notice[n].title
        BY <2>6, <1>1, <2>1 DEF TitlesInOrder
      <3> QED BY <2>1, <2>2, <2>6, <3>1, <1>2 DEF TitlesInOrder, Manual
    <2>7. CASE Manual(s) /\ activity' # None /\ activity'.title = notice[s].title
      BY <2>1, <2>2, <2>3, <2>7, <1>2 DEF TitlesInOrder, Manual
    <2> QED BY <2>4, <2>5, <2>6, <2>7
  <1> QED BY <1>4, <1>5

\* Titles stay in order, and the host's never goes back.
LEMMA StepsInOrder ==
  ASSUME IInv, TitlesInOrder, [Next]_vars
  PROVE  /\ TitlesInOrder'
         /\ activity # None /\ activity' # None => activity'.title >= activity.title
  <1>0. activity # None => activity.title \in Nat
    BY BoundsAssumption DEF IInv, TypeOK, Activities, Titles
  <1>1. CASE UNCHANGED <<title, notice, lastSeq, activity>>
    BY <1>0, <1>1 DEF TitlesInOrder, Manual
  <1>2. ASSUME NEW p \in Requests, ChangeLink(p) \/ Retitle(p) \/ Erase(p)
        PROVE  TitlesInOrder' /\ activity' = activity
    BY <1>2, ChangesInOrder
  <1>3. ASSUME NEW p \in Senders, HostAnswers(p)
        PROVE  /\ TitlesInOrder'
               /\ activity # None /\ activity' # None => activity'.title >= activity.title
    <2>1. at[p] \in Seqs /\ at[p] <= seq /\ Apply(at[p]) /\ UNCHANGED <<meeting, outbox>>
      BY <1>3 DEF IInv, SentWasWritten, HostAnswers
    <2> QED BY <2>1, AppliedInOrder
  <1>4. ASSUME NEW s \in Seqs, HostAppliesLate(s)
        PROVE  /\ TitlesInOrder'
               /\ activity # None /\ activity' # None => activity'.title >= activity.title
    <2>1. s <= seq /\ Apply(s) /\ UNCHANGED <<meeting, outbox>>
      BY <1>4 DEF IInv, SentWasWritten, HostAppliesLate
    <2> QED BY <2>1, AppliedInOrder
  <1>5. ASSUME NEW p \in Requests, TryAgain(p) \/ ReadRows(p)
        PROVE  UNCHANGED <<title, notice, lastSeq, activity>>
    BY <1>5 DEF TryAgain, ReadRows, meeting, outbox, host
  <1>6. ASSUME NEW p \in Senders,
               \/ HostMisses(p) \/ Refuse(p) \/ GiveUp(p)
               \/ RecordOutcome(p) \/ OutcomeUnrecorded(p) \/ Die(p)
        PROVE  UNCHANGED <<title, notice, lastSeq, activity>>
    BY <1>6 DEF HostMisses, Refuse, GiveUp, RecordOutcome, OutcomeUnrecorded, Die, meeting, outbox, host
  <1>7. ASSUME NEW s \in Seqs, ClaimJob(s) PROVE UNCHANGED <<title, notice, lastSeq, activity>>
    BY <1>7 DEF ClaimJob, meeting, host
  <1>8. CASE DeleteActivity
    BY <1>8 DEF DeleteActivity, TitlesInOrder, Manual, meeting, outbox
  <1>9. CASE UNCHANGED vars
    BY <1>9, <1>1 DEF vars, meeting, outbox, host
  <1>10. ASSUME NEW d \in known \cap Mortal, Forget(d)
         PROVE  /\ TitlesInOrder'
                /\ activity # None /\ activity' # None => activity'.title >= activity.title
    <2>1. title' = title /\ notice' = notice /\ lastSeq' = lastSeq /\ activity' \in {None, activity}
      BY <1>10 DEF Forget, meeting, outbox
    <2> QED BY <2>1, <1>0 DEF TitlesInOrder, Manual
  <1> QED BY <1>0, <1>1, <1>2, <1>3, <1>4, <1>5, <1>6, <1>7, <1>8, <1>9, <1>10 DEF Next

\* Whatever attempts are lost, late, repeated or out of order, the host never
\* turns a meeting's activity back to an older title (hostState.ts).
THEOREM TitlesGoForward == Spec => TitleNeverGoesBack
  <1>1. Init => TitlesInOrder
    BY DEF Init, TitlesInOrder, Manual
  <1>2. IInv /\ TitlesInOrder /\ [Next]_vars => TitlesInOrder'
    BY StepsInOrder
  <1>3. IInv /\ TitlesInOrder /\ [Next]_vars
          => [activity # None /\ activity' # None => activity'.title >= activity.title]_vars
    BY StepsInOrder
  <1> QED BY <1>1, <1>2, <1>3, Inductive, PTL DEF Spec, TitleNeverGoesBack

=============================================================================
