------------------------- MODULE Summaries_proofs --------------------------
(***************************************************************************)
(* Proofs about Summaries, for any number of summaries, jobs, attempts,    *)
(* requests and readings, and any limit.                                   *)
(***************************************************************************)
EXTENDS Summaries, FiniteSetTheorems, TLAPS

USE MaxAttemptsAssumption, BoundsAssumption, NoneAssumption

Steps == {"idle", "start", "before", "segments", "after", "ask", "ready", "failed",
          "returned", "threw", "over"}
Readable == [before : Versions, text : Versions, tries : 0..Readings]
Made == [by : Jobs, text : Versions, edited : BOOLEAN]

THEOREM Initially == Init => IInv
  <1> SUFFICES ASSUME Init PROVE IInv
    OBVIOUS
  <1>1. Nothing \in Readable
    BY DEF Nothing, Readable, Versions
  <1>2. TypeOK
    BY <1>1 DEF Init, TypeOK, Runner!TypeOK, Runner!JobState, Versions, Readable
  <1>3. Count = 0
    <2>1. {s \in Summaries : Present(s)} = {}
      BY DEF Init, Present
    <2> QED BY <2>1, FS_EmptySet DEF Count
  <1> QED BY <1>2, <1>3 DEF Init, IInv, LimitKept, WrittenByItsAttempt, GeneratingIsAtWork,
       ToldOnce, JobsAreKnown, LockIsHeld, ClaimsAreMade, ReadingsAreOrdered, LabelsAreTrue,
       Idle, Present, Awaits

-----------------------------------------------------------------------------
(* How many summaries there are *)

LEMMA CountIsNat == Count \in Nat
  <1>1. IsFiniteSet({s \in Summaries : Present(s)})
    BY SummariesAssumption, FS_Subset
  <1> QED BY <1>1, FS_CardinalityType DEF Count

LEMMA CountIsNatNext == Count' \in Nat
  <1>1. IsFiniteSet({s \in Summaries : Present(s)}')
    BY SummariesAssumption, FS_Subset
  <1> QED BY <1>1, FS_CardinalityType DEF Count

LEMMA CountKept ==
  ASSUME \A s \in Summaries : Present(s)' <=> Present(s)
  PROVE  Count' = Count
  <1>1. {s \in Summaries : Present(s)}' = {s \in Summaries : Present(s)}
    OBVIOUS
  <1> QED BY <1>1 DEF Count

LEMMA CountFalls ==
  ASSUME \A s \in Summaries : Present(s)' => Present(s)
  PROVE  Count' <= Count /\ Count' \in Nat
  <1>1. {s \in Summaries : Present(s)}' \subseteq {s \in Summaries : Present(s)}
    OBVIOUS
  <1>2. IsFiniteSet({s \in Summaries : Present(s)})
    BY SummariesAssumption, FS_Subset
  <1>3. /\ Cardinality({s \in Summaries : Present(s)}') <= Cardinality({s \in Summaries : Present(s)})
        /\ IsFiniteSet({s \in Summaries : Present(s)}')
    BY <1>1, <1>2, FS_Subset
  <1>4. Cardinality({s \in Summaries : Present(s)}') \in Nat
    BY <1>3, FS_CardinalityType
  <1> QED BY <1>3, <1>4 DEF Count

LEMMA CountGrows ==
  ASSUME NEW t \in Summaries, \A s \in Summaries : Present(s)' => Present(s) \/ s = t
  PROVE  Count' <= Count + 1
  <1> DEFINE Old == {s \in Summaries : Present(s)}
             New == {s \in Summaries : Present(s)}'
  <1>1. New \subseteq Old \cup {t}
    OBVIOUS
  <1>2. IsFiniteSet(Old) /\ IsFiniteSet(Old \cup {t})
    BY SummariesAssumption, FS_Subset, FS_AddElement
  <1>3. Cardinality(New) <= Cardinality(Old \cup {t})
    BY <1>1, <1>2, FS_Subset
  <1>4. Cardinality(Old \cup {t}) \in {Cardinality(Old), Cardinality(Old) + 1}
    BY <1>2, FS_AddElement
  <1>5. Cardinality(Old) \in Nat
    BY <1>2, FS_CardinalityType
  <1>6. IsFiniteSet(New)
    BY <1>1, <1>2, FS_Subset
  <1>7. Cardinality(New) \in Nat
    BY <1>6, FS_CardinalityType
  <1> QED BY <1>3, <1>4, <1>5, <1>7 DEF Count

-----------------------------------------------------------------------------
(* Frames *)

\* Steps that leave the summaries alone.
LEMMA RowsUntouched ==
  ASSUME IInv, UNCHANGED rows
  PROVE  /\ LimitKept' /\ WrittenByItsAttempt' /\ LabelsAreTrue' /\ Count' = Count
         /\ \A s \in Summaries, j \in Jobs : Awaits(s, j)' <=> Awaits(s, j)
  <1>1. Count' = Count
    BY CountKept DEF rows, Present
  <1> QED BY <1>1 DEF IInv, rows, LimitKept, WrittenByItsAttempt, LabelsAreTrue, Awaits

\* Steps of the handlers leave the requests and the lock alone.
LEMMA LockUntouched ==
  ASSUME IInv, UNCHANGED routes, Count' <= Count, Count' \in Nat
  PROVE  LockIsHeld'
  BY CountIsNat DEF IInv, LockIsHeld, routes

\* Steps of the requests leave the handlers and the transcript alone.
LEMMA HandlersUntouched ==
  ASSUME IInv, UNCHANGED <<handlers, text>>
  PROVE  ReadingsAreOrdered'
  BY DEF IInv, ReadingsAreOrdered, handlers

-----------------------------------------------------------------------------
(* The requests *)

LEMMA BeginStartKeeps ==
  ASSUME IInv, NEW p \in Requests, BeginStart(p)
  PROVE  IInv'
  <1> USE DEF IInv
  <1>1. TypeOK'
    BY DEF BeginStart, TypeOK, Runner!TypeOK, Starting, Versions, jobs, meeting, rows, handlers
  <1>2. /\ LimitKept' /\ WrittenByItsAttempt' /\ LabelsAreTrue' /\ Count' = Count
        /\ \A s \in Summaries, j \in Jobs : Awaits(s, j)' <=> Awaits(s, j)
    BY RowsUntouched DEF BeginStart
  <1>3. ReadingsAreOrdered'
    BY HandlersUntouched DEF BeginStart, meeting
  <1>4. LockIsHeld'
    BY <1>2 DEF BeginStart, LockIsHeld, TypeOK
  <1> QED BY <1>1, <1>2, <1>3, <1>4
       DEF BeginStart, GeneratingIsAtWork, Present, ToldOnce, JobsAreKnown, ClaimsAreMade, Claims,
           Runner!Holds, jobs, rows, handlers

LEMMA BeginRetryKeeps ==
  ASSUME IInv, NEW p \in Requests, NEW s \in Summaries, BeginRetry(p, s)
  PROVE  IInv'
  <1> USE DEF IInv
  <1>0. attempt[s] \in Jobs /\ row[s] \in {"generating", "failed"}
    BY DEF BeginRetry, Failed, Present, JobsAreKnown, TypeOK
  <1>1. TypeOK'
    BY <1>0 DEF BeginRetry, TypeOK, Runner!TypeOK, Retrying, jobs, meeting, rows, handlers
  <1>2. /\ LimitKept' /\ WrittenByItsAttempt' /\ LabelsAreTrue' /\ Count' = Count
        /\ \A t \in Summaries, j \in Jobs : Awaits(t, j)' <=> Awaits(t, j)
    BY RowsUntouched DEF BeginRetry
  <1>3. ReadingsAreOrdered'
    BY HandlersUntouched DEF BeginRetry, meeting
  <1>4. LockIsHeld'
    BY <1>2 DEF BeginRetry, LockIsHeld, TypeOK
  <1> QED BY <1>1, <1>2, <1>3, <1>4
       DEF BeginRetry, GeneratingIsAtWork, Present, ToldOnce, JobsAreKnown, ClaimsAreMade, Claims,
           Runner!Holds, jobs, rows, handlers

\* A new row, or a new attempt of an old one, waits for a job that had no row:
\* no handler has worked for it and nothing was told of it.
LEMMA NewAttempt ==
  ASSUME IInv, NEW s \in Summaries, NEW j \in Jobs, Runner!Enqueue(j),
         row[s] # "ready",
         row' = [row EXCEPT ![s] = "generating"], attempt' = [attempt EXCEPT ![s] = j],
         UNCHANGED <<written, torn, cut, told, handlers>>
  PROVE  /\ WrittenByItsAttempt' /\ GeneratingIsAtWork' /\ ToldOnce' /\ JobsAreKnown'
         /\ ClaimsAreMade'
  <1> USE DEF IInv, TypeOK
  <1>1. /\ state' = [state EXCEPT ![j] = "queued"] /\ state[j] = "none"
        /\ UNCHANGED <<attempts, result>>
    BY DEF Runner!Enqueue
  <1>2. told[j] = 0
    BY <1>1 DEF JobsAreKnown
  <1>3. WrittenByItsAttempt' /\ ToldOnce'
    BY DEF WrittenByItsAttempt, ToldOnce
  <1>4. GeneratingIsAtWork'
    BY <1>1 DEF GeneratingIsAtWork, JobsAreKnown, Runner!TypeOK, Present
  <1>5. JobsAreKnown'
    BY <1>1, <1>2 DEF JobsAreKnown, Runner!TypeOK, Present, Awaits
  <1>6. ClaimsAreMade'
    BY <1>1 DEF ClaimsAreMade, Claims, Runner!TypeOK, Runner!Holds, Awaits, handlers
  <1> QED BY <1>3, <1>4, <1>5, <1>6

LEMMA CommitStartKeeps ==
  ASSUME IInv, NEW p \in Requests, CommitStart(p)
  PROVE  IInv'
  <1> USE DEF IInv
  <1>0. ReadingsAreOrdered'
    BY HandlersUntouched DEF CommitStart, meeting
  <1>1. req[p] \in Starting
    BY DEF CommitStart, TypeOK, Idle, Retrying
  <1>2. /\ req' = [req EXCEPT ![p] = Idle]
        /\ \A q \in Requests : req'[q].op # "start"
    BY <1>1 DEF CommitStart, TypeOK, LockIsHeld, Idle
  <1>3. CASE UNCHANGED <<jobs, row, attempt, label>>
    <2>1. UNCHANGED rows
      BY <1>3 DEF CommitStart, rows
    <2>2. TypeOK'
      BY <1>2, <1>3 DEF CommitStart, TypeOK, Runner!TypeOK, jobs, meeting, handlers
    <2>3. /\ LimitKept' /\ WrittenByItsAttempt' /\ LabelsAreTrue'
          /\ \A s \in Summaries, j \in Jobs : Awaits(s, j)' <=> Awaits(s, j)
      BY <2>1, RowsUntouched
    <2>4. LockIsHeld'
      BY <1>2 DEF LockIsHeld
    <2> QED BY <1>0, <1>3, <2>2, <2>3, <2>4
         DEF CommitStart, GeneratingIsAtWork, Present, ToldOnce, JobsAreKnown, ClaimsAreMade,
             Claims, Runner!Holds, jobs, handlers
  <1>4. ASSUME NEW s \in Summaries, NEW j \in Jobs, row[s] = "none", Runner!Enqueue(j),
               row' = [row EXCEPT ![s] = "generating"],
               attempt' = [attempt EXCEPT ![s] = j],
               label' = [label EXCEPT ![s] = req[p].label]
        PROVE  IInv'
    <2>1. /\ WrittenByItsAttempt' /\ GeneratingIsAtWork' /\ ToldOnce' /\ JobsAreKnown'
          /\ ClaimsAreMade'
      BY <1>4, NewAttempt DEF CommitStart
    <2>2. req[p].label \in Versions
      BY <1>1 DEF Starting
    <2>3. TypeOK'
      BY <1>2, <1>4, <2>2 DEF CommitStart, TypeOK, Runner!TypeOK, Runner!JobState,
                              Runner!Enqueue, meeting, handlers
    <2>4. Count' <= Count + 1
      BY <1>4, CountGrows DEF TypeOK, Present
    <2>5. Count < MaxSummaries
      BY DEF LockIsHeld, CommitStart
    <2>6. Count' \in Nat
      BY CountIsNatNext
    <2>7. LimitKept'
      BY <2>4, <2>5, <2>6, CountIsNat DEF LimitKept
    <2>8. LockIsHeld' /\ LabelsAreTrue'
      BY <1>2, <1>4 DEF LockIsHeld, LabelsAreTrue, CommitStart, TypeOK
    <2> QED BY <1>0, <2>1, <2>3, <2>7, <2>8
  <1> QED BY <1>3, <1>4 DEF CommitStart

LEMMA CommitRetryKeeps ==
  ASSUME IInv, NEW p \in Requests, CommitRetry(p)
  PROVE  IInv'
  <1> USE DEF IInv
  <1>0. ReadingsAreOrdered'
    BY HandlersUntouched DEF CommitRetry, meeting
  <1>1. req[p] \in Retrying
    BY DEF CommitRetry, TypeOK, Idle, Starting
  <1>2. req' = [req EXCEPT ![p] = Idle]
    BY DEF CommitRetry
  <1>3. CASE UNCHANGED <<jobs, row, attempt, label>>
    <2>1. UNCHANGED rows
      BY <1>3 DEF CommitRetry, rows
    <2>2. TypeOK'
      BY <1>2, <1>3 DEF CommitRetry, TypeOK, Runner!TypeOK, jobs, meeting, handlers
    <2>3. /\ LimitKept' /\ WrittenByItsAttempt' /\ LabelsAreTrue' /\ Count' = Count
          /\ \A s \in Summaries, j \in Jobs : Awaits(s, j)' <=> Awaits(s, j)
      BY <2>1, RowsUntouched
    <2>4. LockIsHeld'
      BY <1>2, <2>3 DEF LockIsHeld, CommitRetry, TypeOK, Idle
    <2> QED BY <1>0, <1>3, <2>2, <2>3, <2>4
         DEF CommitRetry, GeneratingIsAtWork, Present, ToldOnce, JobsAreKnown, ClaimsAreMade,
             Claims, Runner!Holds, jobs, handlers
  <1>4. ASSUME NEW s \in Summaries, NEW j \in Jobs, s = req[p].of,
               Retryable(s, req[p]), Runner!Enqueue(j),
               row' = [row EXCEPT ![s] = "generating"],
               attempt' = [attempt EXCEPT ![s] = j],
               label' = [label EXCEPT ![s] = text]
        PROVE  IInv'
    <2>0. row[s] \in {"generating", "failed"}
      BY <1>1, <1>4 DEF Retryable, Retrying
    <2>1. /\ WrittenByItsAttempt' /\ GeneratingIsAtWork' /\ ToldOnce' /\ JobsAreKnown'
          /\ ClaimsAreMade'
      BY <1>4, <2>0, NewAttempt DEF CommitRetry
    <2>3. TypeOK'
      BY <1>2, <1>4 DEF CommitRetry, TypeOK, Runner!TypeOK, Runner!JobState,
                        Runner!Enqueue, meeting, handlers
    <2>4. Count' = Count
      BY <1>4, <2>0, CountKept DEF TypeOK, Present
    <2>7. LimitKept'
      BY <2>4 DEF LimitKept
    <2>8. LockIsHeld' /\ LabelsAreTrue'
      BY <1>2, <1>4, <2>4 DEF LockIsHeld, LabelsAreTrue, CommitRetry, TypeOK, Idle
    <2> QED BY <1>0, <2>1, <2>3, <2>7, <2>8
  <1>5. req[p].of \in Summaries
    BY <1>1 DEF Retrying
  <1> QED BY <1>3, <1>4, <1>5 DEF CommitRetry

LEMMA EditKeeps ==
  ASSUME IInv, NEW s \in Summaries, Edit(s)
  PROVE  IInv'
  <1> USE DEF IInv
  <1>0. ReadingsAreOrdered'
    BY HandlersUntouched DEF Edit, meeting
  <1>1. written[s] \in Made
    BY DEF Edit, TypeOK, WrittenByItsAttempt, Made
  <1>2. /\ written'[s] \in Made
        /\ written'[s].by = written[s].by /\ written'[s].text = written[s].text
        /\ written'[s] # None
        /\ \A t \in Summaries : t # s => written'[t] = written[t]
    BY <1>1 DEF Edit, TypeOK, Made, Versions
  <1>3. TypeOK'
    BY <1>2 DEF Edit, TypeOK, Runner!TypeOK, Made, jobs, meeting, routes, handlers
  <1>4. Count' = Count
    BY CountKept DEF Edit, Present
  <1>5. LockIsHeld' /\ LimitKept'
    BY <1>4 DEF LockIsHeld, LimitKept, Edit, routes
  <1>6. WrittenByItsAttempt' /\ LabelsAreTrue'
    BY <1>2 DEF WrittenByItsAttempt, LabelsAreTrue, Edit, Made
  <1> QED BY <1>0, <1>3, <1>5, <1>6
       DEF Edit, GeneratingIsAtWork, Present, ToldOnce, JobsAreKnown, ClaimsAreMade,
           Claims, Runner!Holds, Awaits, jobs, handlers

\* Rows that go leave nothing waiting.
LEMMA RemovedKeeps ==
  ASSUME IInv, NEW S \in SUBSET Summaries, \A s \in S : Present(s), Removed(S),
         UNCHANGED <<handlers, text, routes>>
  PROVE  /\ Count' <= Count /\ LimitKept' /\ LockIsHeld' /\ WrittenByItsAttempt'
         /\ LabelsAreTrue' /\ ReadingsAreOrdered'
         /\ \A s \in Summaries, j \in Jobs : Awaits(s, j)' => Awaits(s, j)
  <1> USE DEF IInv
  <1>0. ReadingsAreOrdered'
    BY HandlersUntouched
  <1>1. Count' <= Count /\ Count' \in Nat
    BY CountFalls DEF Removed, Present, TypeOK
  <1>2. LimitKept' /\ LockIsHeld'
    BY <1>1, CountIsNat DEF LimitKept, LockIsHeld, routes
  <1>3. /\ WrittenByItsAttempt' /\ LabelsAreTrue'
        /\ \A s \in Summaries, j \in Jobs : Awaits(s, j)' => Awaits(s, j)
    BY DEF Removed, WrittenByItsAttempt, LabelsAreTrue, Awaits, TypeOK
  <1> QED BY <1>0, <1>1, <1>2, <1>3

LEMMA DeleteKeeps ==
  ASSUME IInv, NEW s \in Summaries, Delete(s)
  PROVE  IInv'
  <1> USE DEF IInv
  <1>1. /\ LimitKept' /\ LockIsHeld' /\ WrittenByItsAttempt'
        /\ LabelsAreTrue' /\ ReadingsAreOrdered'
        /\ \A t \in Summaries, j \in Jobs : Awaits(t, j)' => Awaits(t, j)
    BY RemovedKeeps DEF Delete, meeting
  <1>2. TypeOK'
    BY DEF Delete, Removed, TypeOK, Runner!TypeOK, Versions, jobs, meeting, routes, handlers
  <1> QED BY <1>1, <1>2
       DEF Delete, Removed, GeneratingIsAtWork, Present, ToldOnce, JobsAreKnown, ClaimsAreMade,
           Claims, Runner!Holds, TypeOK, jobs, handlers

LEMMA EditTranscriptKeeps ==
  ASSUME IInv, EditTranscript
  PROVE  IInv'
  <1> USE DEF IInv
  <1>1. /\ LimitKept' /\ WrittenByItsAttempt' /\ LabelsAreTrue' /\ Count' = Count
        /\ \A s \in Summaries, j \in Jobs : Awaits(s, j)' <=> Awaits(s, j)
    BY RowsUntouched DEF EditTranscript
  <1>2. TypeOK'
    BY DEF EditTranscript, TypeOK, Runner!TypeOK, Versions, jobs, rows, routes, handlers
  <1>3. LockIsHeld'
    BY <1>1 DEF LockIsHeld, EditTranscript, routes
  <1>4. ReadingsAreOrdered'
    BY DEF ReadingsAreOrdered, EditTranscript, TypeOK, Versions, handlers
  <1> QED BY <1>1, <1>2, <1>3, <1>4
       DEF EditTranscript, GeneratingIsAtWork, Present, ToldOnce, JobsAreKnown, ClaimsAreMade,
           Claims, Runner!Holds, jobs, rows, handlers

LEMMA DeleteMeetingKeeps ==
  ASSUME IInv, DeleteMeeting
  PROVE  IInv'
  <1> USE DEF IInv
  <1>1. /\ LimitKept' /\ LockIsHeld' /\ WrittenByItsAttempt'
        /\ LabelsAreTrue' /\ ReadingsAreOrdered'
        /\ \A t \in Summaries, j \in Jobs : Awaits(t, j)' => Awaits(t, j)
    BY RemovedKeeps DEF DeleteMeeting
  <1>2. TypeOK'
    <2>1. state' \in [Jobs -> Runner!JobState]
      BY DEF DeleteMeeting, TypeOK, Runner!TypeOK, Runner!JobState
    <2>2. /\ row' \in [Summaries -> {"none", "generating", "ready", "failed", "gone"}]
          /\ attempt' \in [Summaries -> Jobs \cup {None}]
          /\ label' \in [Summaries -> Versions]
          /\ written' \in [Summaries -> Made \cup {None}]
          /\ torn' \subseteq Summaries
      BY DEF DeleteMeeting, Removed, TypeOK, Made, Versions
    <2> QED BY <2>1, <2>2 DEF DeleteMeeting, TypeOK, Runner!TypeOK, Made, routes, handlers
  <1>3. GeneratingIsAtWork'
    BY DEF DeleteMeeting, Removed, GeneratingIsAtWork, Present, TypeOK
  <1>4. JobsAreKnown' /\ ToldOnce'
    BY <1>1 DEF DeleteMeeting, Removed, JobsAreKnown, ToldOnce, Present, TypeOK, Runner!TypeOK
  <1>5. ClaimsAreMade'
    BY <1>1 DEF DeleteMeeting, ClaimsAreMade, Claims, Runner!Holds, Runner!TypeOK, TypeOK,
                handlers
  <1> QED BY <1>1, <1>2, <1>3, <1>4, <1>5

-----------------------------------------------------------------------------
(* The runner and the handlers *)

LEMMA ClaimParts ==
  ASSUME NEW c \in Claims
  PROVE  /\ c[1] \in Jobs /\ c[2] \in 1..MaxAttempts /\ c = <<c[1], c[2]>>
         /\ \A d \in Claims : d # c => d[1] # c[1] \/ d[2] # c[2]
  BY DEF Claims

LEMMA ClaimKeeps ==
  ASSUME IInv, NEW j \in Jobs, Claim(j)
  PROVE  IInv'
  <1> USE DEF IInv
  <1> DEFINE c == <<j, attempts[j] + 1>>
  <1>1. /\ attempts[j] \in Nat /\ attempts[j] < MaxAttempts
        /\ c \in Claims /\ c[1] = j /\ c[2] = attempts[j] + 1
        /\ state[j] \in {"queued", "running"}
        /\ state' = [state EXCEPT ![j] = "running"]
        /\ attempts' = [attempts EXCEPT ![j] = @ + 1]
        /\ result' = result
        /\ pc' = [pc EXCEPT ![c] = "start"]
    BY DEF Claim, Runner!Claim, Runner!TypeOK, TypeOK, Claims, Goto
  <1>2. pc[c] = "idle"
    BY <1>1 DEF ClaimsAreMade, TypeOK
  <1> HIDE DEF c
  <1>3. TypeOK'
    <2>1. Runner!TypeOK'
      BY <1>1 DEF TypeOK, Runner!TypeOK, Runner!JobState
    <2> QED BY <1>1, <2>1 DEF Claim, TypeOK, meeting, rows, routes
  <1>4. /\ LimitKept' /\ WrittenByItsAttempt' /\ LabelsAreTrue' /\ Count' = Count
        /\ \A s \in Summaries, k \in Jobs : Awaits(s, k)' <=> Awaits(s, k)
    BY RowsUntouched DEF Claim
  <1>5. LockIsHeld'
    BY <1>4, CountIsNat, LockUntouched DEF Claim
  <1>6. ReadingsAreOrdered'
    BY <1>1, <1>2 DEF ReadingsAreOrdered, Claim, meeting, TypeOK
  <1>7. ClaimsAreMade'
    <2> SUFFICES ASSUME NEW d \in Claims
                 PROVE  /\ pc'[d] # "idle" => d[2] <= attempts'[d[1]]
                        /\ pc'[d] = "returned" => \/ ~Runner!Holds(d[1], d[2])'
                                                  \/ \A s \in Summaries : ~Awaits(s, d[1])'
                        /\ pc'[d] = "threw" /\ d[2] = MaxAttempts => d[1] \in cut'
      BY DEF ClaimsAreMade
    <2>1. d[1] \in Jobs /\ d[2] \in 1..MaxAttempts
      BY ClaimParts
    <2>2. attempts[d[1]] \in Nat
      BY <2>1 DEF TypeOK, Runner!TypeOK
    <2> QED BY <1>1, <1>2, <1>4, <2>1, <2>2
         DEF ClaimsAreMade, Claim, Runner!Holds, TypeOK, Runner!TypeOK
  <1>8. GeneratingIsAtWork' /\ JobsAreKnown' /\ ToldOnce'
    BY <1>1, <1>4 DEF Claim, GeneratingIsAtWork, JobsAreKnown, ToldOnce, Present, TypeOK,
                      Runner!TypeOK, rows
  <1> QED BY <1>3, <1>4, <1>5, <1>6, <1>7, <1>8

LEMMA ExpireKeeps ==
  ASSUME IInv, NEW j \in Jobs, Expire(j)
  PROVE  IInv'
  <1> USE DEF IInv
  <1>1. /\ state' = [k \in Jobs |-> IF k = j THEN "failed" ELSE state[k]]
        /\ state[j] = "running"
        /\ UNCHANGED <<attempts, result>>
        /\ cut' = cut \cup {j}
    BY DEF Expire, Runner!Expire, Runner!Holds
  <1>3. TypeOK'
    BY <1>1 DEF Expire, TypeOK, Runner!TypeOK, Runner!JobState, meeting, rows, routes, handlers
  <1>4. /\ LimitKept' /\ WrittenByItsAttempt' /\ LabelsAreTrue' /\ Count' = Count
        /\ \A s \in Summaries, k \in Jobs : Awaits(s, k)' <=> Awaits(s, k)
    BY RowsUntouched DEF Expire
  <1>5. LockIsHeld'
    BY <1>4, CountIsNat, LockUntouched DEF Expire
  <1>6. ReadingsAreOrdered'
    BY HandlersUntouched DEF Expire, meeting
  <1>7. ClaimsAreMade'
    BY <1>1, <1>4, ClaimParts DEF ClaimsAreMade, Expire, Runner!Holds, handlers
  <1>8. GeneratingIsAtWork' /\ JobsAreKnown' /\ ToldOnce'
    BY <1>1, <1>4 DEF Expire, GeneratingIsAtWork, JobsAreKnown, ToldOnce, Present, TypeOK,
                      Runner!TypeOK, rows
  <1> QED BY <1>3, <1>4, <1>5, <1>6, <1>7, <1>8

LEMMA SettleKeeps ==
  ASSUME IInv, NEW c \in Claims, Settle(c)
  PROVE  IInv'
  <1> USE DEF IInv
  <1> DEFINE j == c[1]
             a == c[2]
  <1>0. j \in Jobs /\ a \in 1..MaxAttempts
    BY ClaimParts
  <1>1. /\ UNCHANGED <<attempts, result>>
        /\ \/ UNCHANGED state /\ ~Runner!Holds(j, a)
           \/ /\ Runner!Holds(j, a)
              /\ \/ pc[c] = "returned" /\ state' = [state EXCEPT ![j] = "done"]
                 \/ state' = [state EXCEPT ![j] = "queued"]
                 \/ pc[c] = "threw" /\ a = MaxAttempts /\ state' = [state EXCEPT ![j] = "failed"]
    BY DEF Settle, Runner!Finish, Runner!Retry, Runner!Fail, jobs
  <1>2. pc' = [pc EXCEPT ![c] = "over"]
    BY DEF Settle, Goto
  <1> HIDE DEF j, a
  <1>3. TypeOK'
    <2>1. Runner!TypeOK'
      BY <1>0, <1>1 DEF TypeOK, Runner!TypeOK, Runner!JobState
    <2> QED BY <1>2, <2>1 DEF Settle, TypeOK, meeting, rows, routes
  <1>4. /\ LimitKept' /\ WrittenByItsAttempt' /\ LabelsAreTrue' /\ Count' = Count
        /\ \A s \in Summaries, k \in Jobs : Awaits(s, k)' <=> Awaits(s, k)
    BY RowsUntouched DEF Settle
  <1>5. LockIsHeld'
    BY <1>4, CountIsNat, LockUntouched DEF Settle
  <1>6. ReadingsAreOrdered'
    BY <1>2 DEF ReadingsAreOrdered, Settle, meeting, TypeOK
  <1>7. ClaimsAreMade'
    <2>1. \A d \in Claims : Runner!Holds(d[1], d[2])' => Runner!Holds(d[1], d[2])
      BY <1>0, <1>1, ClaimParts DEF Runner!Holds, TypeOK, Runner!TypeOK
    <2>2. \A d \in Claims : d[1] \in Jobs
      BY ClaimParts
    <2> QED BY <1>1, <1>2, <1>4, <2>1, <2>2 DEF ClaimsAreMade, Settle, TypeOK
  <1>8. GeneratingIsAtWork'
    <2>1. pc[c] = "returned" /\ Runner!Holds(j, a) => \A s \in Summaries : ~Awaits(s, j)
      BY DEF ClaimsAreMade, j, a
    <2>2. pc[c] = "threw" /\ a = MaxAttempts => j \in cut
      BY DEF ClaimsAreMade, j, a
    <2> QED BY <1>0, <1>1, <2>1, <2>2
         DEF Settle, GeneratingIsAtWork, JobsAreKnown, Present, TypeOK, Runner!TypeOK, Awaits, rows
  <1>9. JobsAreKnown' /\ ToldOnce'
    BY <1>0, <1>1, <1>4 DEF Settle, JobsAreKnown, ToldOnce, Present, TypeOK, Runner!TypeOK, rows
  <1> QED BY <1>3, <1>4, <1>5, <1>6, <1>7, <1>8, <1>9

\* A handler that only moves on: the step it comes to suits what it has read.
LEMMA MovesOn ==
  ASSUME IInv, NEW c \in Claims, NEW step \in Steps \ {"idle", "returned"}, NEW r \in Readable,
         pc[c] # "idle", pc' = [pc EXCEPT ![c] = step], read' = [read EXCEPT ![c] = r],
         UNCHANGED <<jobs, meeting, rows, told, routes>>,
         cut' \in SUBSET Jobs, cut \subseteq cut',
         step = "threw" /\ c[2] = MaxAttempts => c[1] \in cut',
         step = "start" => r = Nothing,
         step = "before" => r.tries < Readings,
         step = "segments" => r.before <= text,
         step = "after" => r.before <= r.text /\ r.text <= text,
         step \in {"ask", "ready"} => r.before = r.text \/ r.tries # 0
  PROVE  IInv'
  <1> USE DEF IInv
  <1>1. TypeOK'
    BY DEF TypeOK, Runner!TypeOK, Steps, Readable, jobs, meeting, rows, routes
  <1>2. /\ LimitKept' /\ WrittenByItsAttempt' /\ LabelsAreTrue' /\ Count' = Count
        /\ \A s \in Summaries, k \in Jobs : Awaits(s, k)' <=> Awaits(s, k)
    BY RowsUntouched
  <1>3. LockIsHeld'
    BY <1>2, CountIsNat, LockUntouched
  <1>4. ReadingsAreOrdered'
    BY DEF ReadingsAreOrdered, TypeOK, meeting
  <1>5. ClaimsAreMade'
    <2>1. \A d \in Claims : Runner!Holds(d[1], d[2])' <=> Runner!Holds(d[1], d[2])
      BY DEF Runner!Holds, jobs
    <2>2. \A d \in Claims : d[1] \in Jobs
      BY ClaimParts
    <2> QED BY <1>2, <2>1, <2>2 DEF ClaimsAreMade, TypeOK, jobs
  <1>6. GeneratingIsAtWork' /\ JobsAreKnown' /\ ToldOnce'
    BY <1>2 DEF GeneratingIsAtWork, JobsAreKnown, ToldOnce, Present, TypeOK, rows, jobs
  <1> QED BY <1>1, <1>2, <1>3, <1>4, <1>5, <1>6

\* The readings of a handler are what they are typed to be.
LEMMA ReadTyped ==
  ASSUME TypeOK, NEW c \in Claims
  PROVE  /\ read[c] \in Readable /\ pc[c] \in Steps /\ text \in Versions
         /\ read[c].before \in Nat /\ read[c].text \in Nat /\ read[c].tries \in Nat /\ text \in Nat
  BY DEF TypeOK, Readable, Steps, Versions

LEMMA ReadStepsKeep ==
  ASSUME IInv, NEW c \in Claims,
         ReadBefore(c) \/ ReadSegments(c) \/ ReadAfter(c) \/ Ask(c) \/ Faults(c)
  PROVE  IInv'
  <1> USE ReadTyped DEF IInv
  <1> DEFINE r == read[c]
  <1>0. Nothing \in Readable
    BY DEF Nothing, Readable, Versions
  <1>1. CASE ReadBefore(c)
    <2> DEFINE q == [r EXCEPT !.before = text, !.tries = @ + 1]
    <2>1. r.tries < Readings
      BY <1>1 DEF ReadBefore, ReadingsAreOrdered
    <2>2. q \in Readable /\ q.before = text
      <3>1. r \in Readable /\ text \in Versions /\ r.tries + 1 \in 0..Readings
        BY <2>1, ReadTyped DEF Readable
      <3> QED BY <3>1 DEF Readable
    <2>3. read' = [read EXCEPT ![c] = q] /\ pc' = [pc EXCEPT ![c] = "segments"]
      BY <1>1 DEF ReadBefore, Goto, TypeOK, Readable
    <2> HIDE DEF q
    <2> QED BY <1>1, <2>2, <2>3, MovesOn DEF ReadBefore, Steps, TypeOK
  <1>2. CASE ReadSegments(c)
    <2> DEFINE q == [r EXCEPT !.text = text]
    <2>1. r.before <= text
      BY <1>2 DEF ReadSegments, ReadingsAreOrdered
    <2>2. q \in Readable /\ q.before = r.before /\ q.text = text
      <3>1. r \in Readable /\ text \in Versions
        BY ReadTyped
      <3> QED BY <3>1 DEF Readable
    <2>4. q.text <= text
      BY <2>2, ReadTyped
    <2>3. read' = [read EXCEPT ![c] = q] /\ pc' = [pc EXCEPT ![c] = "after"]
      BY <1>2 DEF ReadSegments, Goto, TypeOK, Readable
    <2> HIDE DEF q
    <2>5. q.before <= q.text
      BY <2>1, <2>2
    <2> QED BY <1>2, <2>2, <2>3, <2>4, <2>5, MovesOn DEF ReadSegments, Steps, TypeOK
  <1>3. CASE ReadAfter(c)
    <2>1. r.before <= r.text /\ r.text <= text
      BY <1>3 DEF ReadAfter, ReadingsAreOrdered
    <2>2. CASE GoodEnough(c)
      <3> DEFINE q == [r EXCEPT !.tries = IF r.before # text /\ @ = Readings THEN @ ELSE 0,
                                !.before = text]
      <3>1. /\ q \in Readable /\ q.before = text /\ q.text = r.text
            /\ q.tries = IF r.before # text /\ r.tries = Readings THEN r.tries ELSE 0
        <4> DEFINE n == IF r.before # text /\ r.tries = Readings THEN r.tries ELSE 0
        <4>1. r \in Readable /\ text \in Versions /\ n \in 0..Readings
          BY ReadTyped DEF Readable
        <4>2. q = [r EXCEPT !.tries = n, !.before = text]
          OBVIOUS
        <4> HIDE DEF n
        <4>3. [r EXCEPT !.tries = n, !.before = text] \in Readable
          BY <4>1 DEF Readable
        <4>4. /\ [r EXCEPT !.tries = n, !.before = text].before = text
              /\ [r EXCEPT !.tries = n, !.before = text].text = r.text
              /\ [r EXCEPT !.tries = n, !.before = text].tries = n
          BY <4>1 DEF Readable
        <4> QED BY <4>2, <4>3, <4>4 DEF n
      <3>2. read' = [read EXCEPT ![c] = q] /\ pc' = [pc EXCEPT ![c] = "ask"]
        BY <1>3, <2>2 DEF ReadAfter, Goto, TypeOK, Readable
      <3>3. q.before = q.text \/ q.tries # 0
        BY <2>1, <2>2, <3>1 DEF GoodEnough
      <3> HIDE DEF q
      <3> QED BY <1>3, <3>1, <3>2, <3>3, MovesOn DEF ReadAfter, Steps, TypeOK
    <2>3. CASE ~GoodEnough(c)
      <3>1. r.tries < Readings
        BY <2>3 DEF GoodEnough, Readable
      <3>2. read' = [read EXCEPT ![c] = r] /\ pc' = [pc EXCEPT ![c] = "before"]
        BY <1>3, <2>3 DEF ReadAfter, Goto, TypeOK
      <3> HIDE DEF r
      <3> QED BY <1>3, <3>1, <3>2, MovesOn DEF ReadAfter, Steps, TypeOK, r
    <2> QED BY <2>2, <2>3
  <1>4. CASE Ask(c)
    <2>1. r.before = r.text \/ r.tries # 0
      BY <1>4 DEF Ask, ReadingsAreOrdered
    <2>2. CASE pc' = [pc EXCEPT ![c] = "ready"] /\ UNCHANGED read
      <3>1. read' = [read EXCEPT ![c] = r]
        BY <2>2 DEF TypeOK
      <3> QED BY <1>4, <2>1, <2>2, <3>1, MovesOn DEF Ask, Steps, TypeOK
    <2>3. CASE Done(c, "failed")
      BY <1>0, <1>4, <2>3, MovesOn DEF Ask, Done, Goto, Steps, TypeOK
    <2>4. CASE c[2] < MaxAttempts /\ Done(c, "threw")
      <3>1. c[2] # MaxAttempts
        BY <2>4, ClaimParts
      <3> QED BY <1>0, <1>4, <2>4, <3>1, MovesOn DEF Ask, Done, Goto, Steps, TypeOK
    <2> QED BY <1>4, <2>2, <2>3, <2>4 DEF Ask, Goto
  <1>5. CASE Faults(c)
    <2>1. cut' \in SUBSET Jobs /\ cut \subseteq cut' /\ (c[2] = MaxAttempts => c[1] \in cut')
      BY <1>5, ClaimParts DEF Faults, TypeOK
    <2> QED BY <1>0, <1>5, <2>1, MovesOn DEF Faults, Done, Goto, Steps
  <1> QED BY <1>1, <1>2, <1>3, <1>4, <1>5

\* A handler that has nothing to do: its summary is gone, ended or superseded.
LEMMA ReadRowKeeps ==
  ASSUME IInv, NEW c \in Claims, ReadRow(c)
  PROVE  IInv'
  <1> USE ReadTyped DEF IInv
  <1>1. read[c] = Nothing /\ Nothing.tries < Readings
    BY DEF ReadRow, ReadingsAreOrdered, Nothing
  <1>2. CASE pc' = [pc EXCEPT ![c] = "before"]
    <2>1. read' = [read EXCEPT ![c] = read[c]]
      BY DEF ReadRow, TypeOK
    <2> QED BY <1>1, <1>2, <2>1, MovesOn DEF ReadRow, Steps, TypeOK
  <1>3. CASE pc' = [pc EXCEPT ![c] = "returned"] /\ \A s \in Summaries : ~Awaits(s, c[1])
    <2>1. TypeOK'
      BY <1>3 DEF ReadRow, TypeOK, Runner!TypeOK, jobs, meeting, rows, routes
    <2>2. /\ LimitKept' /\ WrittenByItsAttempt' /\ LabelsAreTrue' /\ Count' = Count
          /\ \A s \in Summaries, k \in Jobs : Awaits(s, k)' <=> Awaits(s, k)
      BY RowsUntouched DEF ReadRow
    <2>3. LockIsHeld'
      BY <2>2, CountIsNat, LockUntouched DEF ReadRow
    <2>4. ReadingsAreOrdered'
      BY <1>3 DEF ReadingsAreOrdered, ReadRow, TypeOK, meeting
    <2>5. ClaimsAreMade'
      BY <1>3, <2>2, ClaimParts DEF ClaimsAreMade, ReadRow, TypeOK, Runner!Holds, jobs
    <2>6. GeneratingIsAtWork' /\ JobsAreKnown' /\ ToldOnce'
      BY <2>2 DEF ReadRow, GeneratingIsAtWork, JobsAreKnown, ToldOnce, Present, TypeOK, rows, jobs
    <2> QED BY <2>1, <2>2, <2>3, <2>4, <2>5, <2>6
  <1> QED BY <1>2, <1>3 DEF ReadRow, Goto

LEMMA FinishKeeps ==
  ASSUME IInv, NEW c \in Claims, Finish(c)
  PROVE  IInv'
  <1> USE DEF IInv
  <1> DEFINE j == c[1]
             to == pc[c]
             hit == IF Runner!Holds(j, c[2]) THEN Target(j) ELSE {}
  <1>0. /\ j \in Jobs /\ c[2] \in 1..MaxAttempts /\ to \in {"ready", "failed"}
        /\ read[c] \in Readable
    BY ClaimParts, ReadTyped DEF Finish
  <1>1. /\ UNCHANGED <<state, attempts>>
        /\ result' \in [Jobs -> 0..MaxAttempts]
    BY <1>0 DEF Finish, Runner!Commit, TypeOK, Runner!TypeOK, jobs
  <1>2. /\ row' = [s \in Summaries |-> IF s \in hit THEN to ELSE row[s]]
        /\ pc' = [pc EXCEPT ![c] = "returned"]
        /\ read' = [read EXCEPT ![c] = Nothing]
        /\ told' = [told EXCEPT ![j] = IF Tells(c) THEN @ + 1 ELSE @]
    BY DEF Finish, Done, Goto
  <1>3. /\ to = "ready" =>
             /\ label' = [s \in Summaries |-> IF s \in hit THEN read[c].before ELSE label[s]]
             /\ \A s \in hit : /\ written'[s].by = j
                               /\ written'[s].text = read[c].text
                               /\ written'[s] # None
             /\ \A s \in Summaries \ hit : written'[s] = written[s]
             /\ written' \in [Summaries -> Made \cup {None}]
             /\ torn' = IF read[c].tries # 0 THEN torn \cup hit ELSE torn
        /\ to # "ready" => UNCHANGED <<label, written, torn>>
    <2>1. CASE to = "ready"
      <3>1. /\ label' = [s \in Summaries |-> IF s \in hit THEN read[c].before ELSE label[s]]
            /\ written' = [s \in Summaries |->
                    IF s \in hit THEN [by |-> j, text |-> read[c].text, edited |-> FALSE]
                    ELSE written[s]]
            /\ torn' = IF read[c].tries # 0 THEN torn \cup hit ELSE torn
        BY <2>1 DEF Finish
      <3>2. [by |-> j, text |-> read[c].text, edited |-> FALSE] \in Made
        BY <1>0 DEF Made, Readable
      <3>3. None \notin Made
        BY DEF Made, Versions
      <3>4. hit \in SUBSET Summaries
        BY DEF Target
      <3>5. written \in [Summaries -> Made \cup {None}]
        BY DEF TypeOK, Made
      <3> HIDE DEF hit, to
      <3> QED BY <2>1, <3>1, <3>2, <3>3, <3>4, <3>5
    <2>2. CASE to # "ready"
      BY <2>2 DEF Finish
    <2> QED BY <2>1, <2>2
  <1>4. \A s \in hit : s \in Summaries /\ row[s] = "generating" /\ attempt[s] = j
    BY DEF Target, Awaits
  <1>5. Tells(c) <=> hit # {}
    BY DEF Tells
  <1>6. /\ Runner!Holds(j, c[2]) => \A s \in Summaries : Awaits(s, j) => s \in hit
        /\ hit # {} => Runner!Holds(j, c[2])
    BY DEF Target
  <1>a. to = "ready" => read[c].before = read[c].text \/ read[c].tries # 0
    BY DEF ReadingsAreOrdered
  <1>7. UNCHANGED <<attempt, cut, alive, text>> /\ UNCHANGED routes
    BY DEF Finish, meeting
  <1> HIDE DEF j, to, hit
  <1>8. \A s \in Summaries, k \in Jobs : Awaits(s, k)' <=> Awaits(s, k) /\ s \notin hit
    BY <1>0, <1>2, <1>4, <1>7 DEF Awaits, TypeOK
  <1>9. TypeOK'
    <2>1. Nothing \in Readable
      BY DEF Nothing, Readable, Versions
    <2>2. /\ label' \in [Summaries -> Versions]
          /\ written' \in [Summaries -> Made \cup {None}]
          /\ torn' \subseteq Summaries
      BY <1>0, <1>3, <1>4 DEF TypeOK, Made, Readable
    <2>3. told' \in [Jobs -> Nat]
      BY <1>0, <1>2 DEF TypeOK
    <2> QED BY <1>0, <1>1, <1>2, <1>7, <2>1, <2>2, <2>3
         DEF TypeOK, Runner!TypeOK, Made, Readable, routes
  <1>10. Count' = Count
    BY <1>0, <1>2, <1>4, CountKept DEF Present, TypeOK
  <1>11. LimitKept' /\ LockIsHeld'
    BY <1>7, <1>10, CountIsNat, LockUntouched DEF LimitKept
  <1>12. WrittenByItsAttempt' /\ LabelsAreTrue'
    BY <1>0, <1>2, <1>3, <1>4, <1>7, <1>a DEF WrittenByItsAttempt, LabelsAreTrue, TypeOK
  <1>13. GeneratingIsAtWork'
    BY <1>0, <1>1, <1>2, <1>4, <1>7 DEF GeneratingIsAtWork, TypeOK
  <1>14. JobsAreKnown' /\ ToldOnce'
    <2>1. hit # {} => told[j] = 0 /\ state[j] = "running"
      BY <1>0, <1>4, <1>6 DEF JobsAreKnown, Awaits, TypeOK, Runner!Holds
    <2>2. \A k \in Jobs : told'[k] = IF k = j /\ hit # {} THEN 1 ELSE told[k]
      BY <1>0, <1>2, <1>5, <2>1 DEF TypeOK
    <2>3. hit # {} => \A s \in Summaries : ~Awaits(s, j)'
      BY <1>0, <1>6, <1>8
    <2>4. \A k \in Jobs : told'[k] > 0 => state'[k] # "none" /\ \A s \in Summaries : ~Awaits(s, k)'
      BY <1>0, <1>1, <1>8, <2>1, <2>2, <2>3 DEF JobsAreKnown
    <2>5. \A s \in Summaries : Present(s)' => Present(s)
      BY <1>0, <1>2, <1>4 DEF Present, TypeOK
    <2> QED BY <1>1, <1>7, <2>2, <2>4, <2>5 DEF JobsAreKnown, ToldOnce
  <1>15. ClaimsAreMade'
    <2>1. \A d \in Claims : Runner!Holds(d[1], d[2])' <=> Runner!Holds(d[1], d[2])
      BY <1>1 DEF Runner!Holds
    <2>2. Runner!Holds(c[1], c[2]) => \A s \in Summaries : ~Awaits(s, c[1])'
      BY <1>0, <1>6, <1>8 DEF j
    <2>3. \A d \in Claims : d[1] \in Jobs
      BY ClaimParts
    <2>4. c[2] <= attempts[c[1]]
      BY <1>0 DEF ClaimsAreMade, to
    <2> QED BY <1>1, <1>2, <1>7, <1>8, <2>1, <2>2, <2>3, <2>4 DEF ClaimsAreMade, TypeOK
  <1>16. ReadingsAreOrdered'
    BY <1>2, <1>7 DEF ReadingsAreOrdered, TypeOK
  <1> QED BY <1>9, <1>11, <1>12, <1>13, <1>14, <1>15, <1>16

-----------------------------------------------------------------------------
(* The theorems *)

THEOREM Inductive == IInv /\ [Next]_vars => IInv'
  <1> SUFFICES ASSUME IInv, [Next]_vars PROVE IInv'
    OBVIOUS
  <1>1. ASSUME NEW p \in Requests, BeginStart(p) \/ CommitStart(p) \/ CommitRetry(p)
        PROVE  IInv'
    BY <1>1, BeginStartKeeps, CommitStartKeeps, CommitRetryKeeps
  <1>2. ASSUME NEW p \in Requests, NEW s \in Summaries, BeginRetry(p, s)
        PROVE  IInv'
    BY <1>2, BeginRetryKeeps
  <1>3. ASSUME NEW s \in Summaries, Edit(s) \/ Delete(s)
        PROVE  IInv'
    BY <1>3, EditKeeps, DeleteKeeps
  <1>4. CASE EditTranscript \/ DeleteMeeting
    BY <1>4, EditTranscriptKeeps, DeleteMeetingKeeps
  <1>5. ASSUME NEW j \in Jobs, Claim(j) \/ Expire(j)
        PROVE  IInv'
    BY <1>5, ClaimKeeps, ExpireKeeps
  <1>6. ASSUME NEW c \in Claims, HandlerStep(c) \/ Faults(c)
        PROVE  IInv'
    BY <1>6, ReadStepsKeep, ReadRowKeeps, FinishKeeps, SettleKeeps DEF HandlerStep
  <1>7. CASE UNCHANGED vars
    <2>1. Count' = Count
      BY <1>7, CountKept DEF vars, rows, Present
    <2> QED BY <1>7, <2>1
         DEF vars, jobs, meeting, rows, routes, handlers, IInv, TypeOK, Runner!TypeOK,
             LimitKept, WrittenByItsAttempt, GeneratingIsAtWork, ToldOnce, JobsAreKnown,
             LockIsHeld, ClaimsAreMade, ReadingsAreOrdered, LabelsAreTrue, Present, Awaits,
             Runner!Holds
  <1> QED BY <1>1, <1>2, <1>3, <1>4, <1>5, <1>6, <1>7 DEF Next

THEOREM Invariance == Spec => []IInv
  BY Initially, Inductive, PTL DEF Spec

\* The variables keep their types; no request retries a summary that is ready.
THEOREM TypeCorrect == Spec => []TypeOK
  BY Invariance, PTL DEF IInv

\* Any number of requests that start summaries at once keep the limit
\* (summaries.routes.ts).
THEOREM LimitIsKept == Spec => []LimitKept
  BY Invariance, PTL DEF IInv

\* A ready summary is the work of the attempt it names, however late the jobs
\* of its earlier attempts come (summarize.ts).
THEOREM NoLateResult == Spec => []WrittenByItsAttempt
  BY Invariance, PTL DEF IInv

\* A summary waits for a job at work, or one that crashed (summarize.ts).
THEOREM NoneIsForgotten == Spec => []GeneratingIsAtWork
  BY Invariance, PTL DEF IInv

\* No attempt is announced twice (summarize.ts).
THEOREM OneNotification == Spec => []ToldOnce
  BY Invariance, PTL DEF IInv

\* No edit of the transcript hides in a summary that reads up to date, unless
\* the job gave up (summarize.ts).
THEOREM EditsAreShown == Spec => []StaleIsShown
  <1>1. IInv => StaleIsShown
    BY DEF IInv, LabelsAreTrue, StaleIsShown
  <1> QED BY <1>1, Invariance, PTL

\* Ready is final: the text its author may have edited is never written over
\* (summaries.routes.ts, summarize.ts).
THEOREM NeverWrittenOver == Spec => ReadyIsFinal
  <1> DEFINE Kept == \A s \in Summaries : row[s] = "ready" =>
                         \/ row'[s] = "gone"
                         \/ /\ row'[s] = "ready"
                            /\ attempt'[s] = attempt[s]
                            /\ written'[s] \in {written[s], [written[s] EXCEPT !.edited = TRUE]}
  <1>1. IInv /\ [Next]_vars => Kept
    <2> SUFFICES ASSUME IInv, [Next]_vars PROVE Kept
      OBVIOUS
    <2> USE DEF IInv, TypeOK
    <2>0. CASE UNCHANGED rows
      BY <2>0 DEF rows
    <2>1. ASSUME NEW p \in Requests, BeginStart(p)
          PROVE  Kept
      BY <2>0, <2>1 DEF BeginStart
    <2>2. ASSUME NEW p \in Requests, CommitStart(p)
          PROVE  Kept
      BY <2>2 DEF CommitStart
    <2>3. ASSUME NEW p \in Requests, CommitRetry(p)
          PROVE  Kept
      <3>1. req[p] \in Retrying
        BY <2>3 DEF CommitRetry, Idle, Starting
      <3> QED BY <2>3, <3>1 DEF CommitRetry, Retryable, Retrying
    <2>4. ASSUME NEW p \in Requests, NEW s \in Summaries, BeginRetry(p, s)
          PROVE  Kept
      BY <2>0, <2>4 DEF BeginRetry
    <2>5. ASSUME NEW s \in Summaries, Edit(s)
          PROVE  Kept
      BY <2>5 DEF Edit
    <2>6. ASSUME NEW s \in Summaries, Delete(s)
          PROVE  Kept
      BY <2>6 DEF Delete, Removed
    <2>7. CASE EditTranscript
      BY <2>0, <2>7 DEF EditTranscript
    <2>8. CASE DeleteMeeting
      BY <2>8 DEF DeleteMeeting, Removed
    <2>9. ASSUME NEW j \in Jobs, Claim(j) \/ Expire(j)
          PROVE  Kept
      BY <2>0, <2>9 DEF Claim, Expire
    <2>10. ASSUME NEW c \in Claims, HandlerStep(c) \/ Faults(c), ~Finish(c)
           PROVE  Kept
      BY <2>0, <2>10 DEF HandlerStep, ReadRow, ReadBefore, ReadSegments, ReadAfter, Ask,
                         Settle, Faults
    <2>11. ASSUME NEW c \in Claims, Finish(c)
           PROVE  Kept
      BY <2>11 DEF Finish, Target, Awaits
    <2>12. CASE UNCHANGED vars
      BY <2>0, <2>12 DEF vars
    <2> QED BY <2>1, <2>2, <2>3, <2>4, <2>5, <2>6, <2>7, <2>8, <2>9, <2>10, <2>11, <2>12
         DEF Next
  <1> HIDE DEF Kept
  <1>2. IInv /\ [Next]_vars => [Kept]_vars
    BY <1>1
  <1>3. Spec => [][Kept]_vars
    BY <1>2, Invariance, PTL DEF Spec
  <1> QED BY <1>3, PTL DEF ReadyIsFinal, Kept
=============================================================================
