------------------------- MODULE Processing_proofs -------------------------
(***************************************************************************)
(* Proofs about Processing, for any number of jobs, attempts, handlers and *)
(* requests, and any set of faults.                                        *)
(***************************************************************************)
EXTENDS Processing, TLAPS

-----------------------------------------------------------------------------
(* The job rows *)

\* What every step does to the job rows: they stay well-formed, and a row that
\* was inserted stays.
RowsSound == /\ Runner!TypeOK'
             /\ \A k \in Jobs : state[k] # "none" => state'[k] # "none"

LEMMA RowsKept == Runner!TypeOK /\ UNCHANGED jobs => RowsSound
  BY DEF RowsSound, Runner!TypeOK, jobs

LEMMA RowsEnqueued ==
  ASSUME Runner!TypeOK, NEW j \in Jobs, Runner!Enqueue(j)
  PROVE  RowsSound /\ state'[j] # "none"
  BY DEF RowsSound, Runner!TypeOK, Runner!JobState, Runner!Enqueue

LEMMA RowsClaimed ==
  ASSUME Runner!TypeOK, NEW j \in Jobs, Runner!Claim(j)
  PROVE  RowsSound
  <1>1. attempts[j] + 1 \in 0..MaxAttempts
    BY MaxAttemptsAssumption DEF Runner!TypeOK, Runner!Claim
  <1> QED BY <1>1 DEF RowsSound, Runner!TypeOK, Runner!JobState, Runner!Claim

LEMMA RowsCommitted ==
  ASSUME Runner!TypeOK, NEW j \in Jobs, NEW a \in 1..MaxAttempts,
         NEW S \in SUBSET Jobs, Runner!Commit(j, a, S)
  PROVE  RowsSound /\ \A k \in S : state'[k] # "none"
  <1>1. a \in 0..MaxAttempts
    BY MaxAttemptsAssumption
  <1> QED BY <1>1 DEF RowsSound, Runner!TypeOK, Runner!JobState, Runner!Commit, Runner!Holds

LEMMA RowsSettled ==
  ASSUME Runner!TypeOK, NEW j \in Jobs, NEW a \in 1..MaxAttempts,
         Runner!Finish(j, a) \/ Runner!Retry(j, a) \/ Runner!Fail(j, a)
  PROVE  RowsSound
  BY DEF RowsSound, Runner!TypeOK, Runner!JobState, Runner!Finish, Runner!Retry,
         Runner!Fail, Runner!Holds

LEMMA RowsExpired ==
  ASSUME Runner!TypeOK, NEW j \in Jobs, Runner!Expire({j})
  PROVE  RowsSound
  BY DEF RowsSound, Runner!TypeOK, Runner!JobState, Runner!Expire, Runner!Holds

LEMMA RowsDeleted ==
  ASSUME Runner!TypeOK, NEW S \in SUBSET Jobs, Runner!Cascade(S)
  PROVE  RowsSound
  BY DEF RowsSound, Runner!TypeOK, Runner!JobState, Runner!Cascade

-----------------------------------------------------------------------------
(* One step *)

\* The rest of TypeOK.
MeetingTyped ==
    /\ status \in {"processing", "ready", "failed", "deleted"}
    /\ audioKey \in BOOLEAN /\ audioDeleted \in BOOLEAN
    /\ sources \in BOOLEAN /\ ogg \in BOOLEAN
    /\ latest \in Jobs
    /\ cut \in SUBSET Jobs
    /\ pc \in [Claims -> Steps]
    /\ req \in [Requests -> {"idle", "sweep", "rows", "late", "over"}]

\* What holds of every step.  A request, once made, stays made; the sources and
\* the audio on record are taken away in one way only each.
StepSound ==
    /\ RowsSound
    /\ MeetingTyped'
    /\ Erasing => Erasing'
    /\ Deleting => Deleting'
    /\ latest' # latest => state[latest'] = "none" /\ state'[latest'] # "none"
    /\ \A c \in Claims : pc'[c] = "clean" /\ pc[c] # "clean" => audioKey'
    /\ audioKey /\ ~audioKey' => Erasing' \/ Deleting'
    /\ sources /\ ~sources' => \/ Erasing' \/ Deleting'
                               \/ \E c \in Claims : pc[c] = "clean"
    /\ status \in {"ready", "deleted"} => status' \in {status, "deleted"}
    /\ status = "failed" => \/ status' \in {"failed", "deleted"}
                            \/ status' = "processing" /\ latest' # latest

LEMMA RunnerSteps ==
  ASSUME TypeOK, NEW j \in Jobs, Claim(j) \/ Expire(j)
  PROVE  StepSound
  <1>1. CASE Claim(j)
    <2>1. RowsSound
      BY <1>1, RowsClaimed DEF Claim, TypeOK
    <2>2. pc' \in [Claims -> Steps]
      BY <1>1 DEF Claim, TypeOK, Steps
    <2>3. \A c \in Claims : pc'[c] = "clean" => pc[c] = "clean"
      BY <1>1 DEF Claim, TypeOK, Steps
    <2> QED BY <1>1, <2>1, <2>2, <2>3
         DEF Claim, TypeOK, StepSound, MeetingTyped, meeting, bucket, Erasing, Deleting
  <1>2. CASE Expire(j)
    <2>1. RowsSound
      BY <1>2, RowsExpired DEF Expire, TypeOK
    <2> QED BY <1>2, <2>1
         DEF Expire, TypeOK, StepSound, MeetingTyped, meeting, bucket, Erasing, Deleting
  <1> QED BY <1>1, <1>2

LEMMA ClaimParts ==
  ASSUME NEW c \in Claims
  PROVE  c[1] \in Jobs /\ c[2] \in 1..MaxAttempts /\ c = <<c[1], c[2]>>
  BY DEF Claims

\* A handler that only moves on.
LEMMA MovesOn ==
  ASSUME TypeOK, NEW c \in Claims, NEW step \in Steps \ {"clean"}, Goto(c, step),
         UNCHANGED <<jobs, meeting, bucket, latest, cut, req>>
  PROVE  StepSound
  <1>1. RowsSound
    BY RowsKept DEF TypeOK
  <1>2. pc' \in [Claims -> Steps]
    BY DEF Goto, TypeOK
  <1>3. \A d \in Claims : pc'[d] = "clean" => pc[d] = "clean"
    BY DEF Goto, TypeOK
  <1> QED BY <1>1, <1>2, <1>3
       DEF TypeOK, StepSound, MeetingTyped, meeting, bucket, Erasing, Deleting

LEMMA SharedSteps ==
  ASSUME TypeOK, NEW c \in Claims,
         Settle(c) \/ Vanish(c) \/ StepFails(c) \/ FetchRejects(c) \/ MarkFailed(c)
  PROVE  StepSound
  <1> USE DEF TypeOK
  <1>1. CASE Settle(c)
    <2>1. RowsSound
      BY <1>1, ClaimParts, RowsKept, RowsSettled DEF Settle, jobs
    <2>2. cut' \in SUBSET Jobs
      BY <1>1, ClaimParts DEF Settle
    <2>3. /\ pc' \in [Claims -> Steps]
          /\ \A d \in Claims : pc'[d] = "clean" => pc[d] = "clean"
      BY <1>1 DEF Settle, Steps
    <2> QED BY <1>1, <2>1, <2>2, <2>3
         DEF Settle, StepSound, MeetingTyped, meeting, bucket, Erasing, Deleting
  <1>2. CASE Vanish(c)
    BY <1>2, MovesOn DEF Vanish, Goto, Steps
  <1>3. CASE StepFails(c)
    BY <1>3, MovesOn DEF StepFails, Caught, Transient, Steps
  <1>4. CASE FetchRejects(c)
    BY <1>4, MovesOn DEF FetchRejects, Steps
  <1>5. CASE MarkFailed(c)
    <2>1. RowsSound
      BY <1>5, ClaimParts, RowsKept, RowsCommitted DEF MarkFailed, jobs
    <2>2. status' \in {status, "failed"} /\ (status' # status => status = "processing")
      BY <1>5 DEF MarkFailed, Expected
    <2>3. /\ pc' \in [Claims -> Steps]
          /\ \A d \in Claims : pc'[d] = "clean" => pc[d] = "clean"
      BY <1>5 DEF MarkFailed, Goto, Steps
    <2> QED BY <1>5, <2>1, <2>2, <2>3
         DEF MarkFailed, StepSound, MeetingTyped, bucket, Erasing, Deleting
  <1> QED BY <1>1, <1>2, <1>3, <1>4, <1>5

LEMMA PrepareSteps ==
  ASSUME TypeOK, NEW c \in Claims,
         \/ ReadPrepare(c) \/ FetchPrepare(c) \/ PutAudio(c)
         \/ CommitAudio(c) \/ UndoAudio(c) \/ CleanSources(c)
  PROVE  StepSound
  <1> USE DEF TypeOK
  <1>1. CASE ReadPrepare(c)
    <2>1. RowsSound
      BY <1>1, RowsKept DEF ReadPrepare
    <2>2. pc' \in [Claims -> Steps]
      BY <1>1 DEF ReadPrepare, Goto, Steps
    <2>3. \A d \in Claims : pc'[d] = "clean" /\ pc[d] # "clean" => audioKey
      BY <1>1 DEF ReadPrepare, Goto
    <2> QED BY <1>1, <2>1, <2>2, <2>3
         DEF ReadPrepare, StepSound, MeetingTyped, meeting, bucket, Erasing, Deleting
  <1>2. CASE FetchPrepare(c)
    BY <1>2, MovesOn DEF FetchPrepare, Steps
  <1>3. CASE PutAudio(c)
    <2>1. RowsSound
      BY <1>3, RowsKept DEF PutAudio
    <2>2. /\ pc' \in [Claims -> Steps]
          /\ \A d \in Claims : pc'[d] = "clean" => pc[d] = "clean"
      BY <1>3 DEF PutAudio, Goto, Steps, Caught, Transient
    <2> QED BY <1>3, <2>1, <2>2
         DEF PutAudio, StepSound, MeetingTyped, meeting, Erasing, Deleting
  <1>4. CASE CommitAudio(c)
    <2>1. CASE Expected(c)
               /\ \E j \in TranscribeJobs : Runner!Commit(c[1], c[2], {j}) /\ latest' = j
      <3>1. PICK j \in TranscribeJobs : Runner!Commit(c[1], c[2], {j}) /\ latest' = j
        BY <2>1
      <3>2. j \in Jobs /\ state[j] = "none"
        BY <3>1 DEF Jobs, Runner!Commit
      <3>3. RowsSound /\ state'[j] # "none"
        BY <3>1, <3>2, ClaimParts, RowsCommitted
      <3>4. audioKey' = TRUE
        BY <1>4, <3>1, <3>3, <3>2, <2>1 DEF CommitAudio, Refused, Runner!Commit, jobs
      <3>5. pc' \in [Claims -> Steps]
        BY <1>4 DEF CommitAudio, Goto, Steps, Caught, Transient
      <3> QED BY <1>4, <3>1, <3>2, <3>3, <3>4, <3>5
           DEF CommitAudio, StepSound, MeetingTyped, bucket, Erasing, Deleting
    <2>2. CASE Goto(c, "undo") /\ UNCHANGED <<jobs, latest, audioKey>>
      BY <1>4, <2>2, MovesOn DEF CommitAudio, Steps, meeting
    <2> QED BY <1>4, <2>1, <2>2 DEF CommitAudio
  <1>5. CASE UndoAudio(c)
    <2>1. RowsSound
      BY <1>5, RowsKept DEF UndoAudio
    <2>2. /\ pc' \in [Claims -> Steps]
          /\ \A d \in Claims : pc'[d] = "clean" => pc[d] = "clean"
      BY <1>5 DEF UndoAudio, Goto, Steps
    <2> QED BY <1>5, <2>1, <2>2
         DEF UndoAudio, StepSound, MeetingTyped, meeting, Erasing, Deleting
  <1>6. CASE CleanSources(c)
    <2>1. RowsSound
      BY <1>6, RowsKept DEF CleanSources
    <2>2. /\ pc' \in [Claims -> Steps]
          /\ \A d \in Claims : pc'[d] = "clean" => pc[d] = "clean"
      BY <1>6 DEF CleanSources, Goto, Steps
    <2>3. pc[c] = "clean"
      BY <1>6 DEF CleanSources, At
    <2> QED BY <1>6, <2>1, <2>2, <2>3
         DEF CleanSources, StepSound, MeetingTyped, meeting, Erasing, Deleting
  <1> QED BY <1>1, <1>2, <1>3, <1>4, <1>5, <1>6

LEMMA TranscribeSteps ==
  ASSUME TypeOK, NEW c \in Claims,
         \/ ReadTranscribe(c) \/ StageTranscribe(c)
         \/ FetchTranscribe(c) \/ WriteTranscript(c)
  PROVE  StepSound
  <1> USE DEF TypeOK
  <1>1. CASE ReadTranscribe(c)
    BY <1>1, MovesOn DEF ReadTranscribe, Steps
  <1>2. CASE StageTranscribe(c)
    <2>1. RowsSound
      BY <1>2, ClaimParts, RowsKept, RowsCommitted DEF StageTranscribe
    <2>2. /\ pc' \in [Claims -> Steps]
          /\ \A d \in Claims : pc'[d] = "clean" => pc[d] = "clean"
      BY <1>2 DEF StageTranscribe, Goto, Steps
    <2> QED BY <1>2, <2>1, <2>2
         DEF StageTranscribe, StepSound, MeetingTyped, meeting, bucket, Erasing, Deleting
  <1>3. CASE FetchTranscribe(c)
    BY <1>3, MovesOn DEF FetchTranscribe, Steps
  <1>4. CASE WriteTranscript(c)
    <2>1. RowsSound
      BY <1>4, ClaimParts, RowsKept, RowsCommitted DEF WriteTranscript, jobs
    <2>2. status' \in {status, "ready"} /\ (status' # status => status = "processing")
      BY <1>4 DEF WriteTranscript, Expected
    <2>3. /\ pc' \in [Claims -> Steps]
          /\ \A d \in Claims : pc'[d] = "clean" => pc[d] = "clean"
      BY <1>4 DEF WriteTranscript, Goto, Steps, Caught, Transient
    <2> QED BY <1>4, <2>1, <2>2, <2>3
         DEF WriteTranscript, StepSound, MeetingTyped, bucket, Erasing, Deleting
  <1> QED BY <1>1, <1>2, <1>3, <1>4

LEMMA RetrySteps ==
  ASSUME TypeOK, state[latest] # "none", RetryProcessing
  PROVE  StepSound
  <1>1. PICK j \in Jobs : Runner!Enqueue(j) /\ latest' = j
    BY DEF RetryProcessing, Jobs
  <1>2. RowsSound /\ state'[j] # "none" /\ state[j] = "none"
    BY <1>1, RowsEnqueued DEF TypeOK, Runner!Enqueue
  <1>3. status = "failed" /\ status' = "processing"
    BY DEF RetryProcessing
  <1>4. latest' # latest
    BY <1>1, <1>2
  <1> QED BY <1>1, <1>2, <1>3
       DEF RetryProcessing, TypeOK, StepSound, MeetingTyped, bucket, Erasing, Deleting

LEMMA RequestSteps ==
  ASSUME TypeOK, NEW r \in Requests, EraseOpen(r) \/ AudioOpen(r) \/ RequestStep(r)
  PROVE  StepSound
  <1> USE DEF TypeOK
  <1>1. req' \in [Requests -> {"idle", "sweep", "rows", "late", "over"}]
    BY DEF EraseOpen, EraseSweep, EraseRows, EraseLate, AudioOpen, AudioSweep, AudioRows,
           RequestFails, RequestStep, DeletePrefix
  <1>2. /\ r \in Erasures /\ req[r] # "idle" => Erasing'
        /\ r \in AudioDeletes /\ req[r] # "idle" => Deleting'
        /\ Erasing => Erasing'
        /\ Deleting => Deleting'
    <2>1. \A q \in Requests : req[q] # "idle" => req'[q] # "idle"
      BY DEF EraseOpen, EraseSweep, EraseRows, EraseLate, AudioOpen, AudioSweep, AudioRows,
             RequestFails, RequestStep, DeletePrefix
    <2> QED BY <2>1 DEF Erasing, Deleting, Requests
  <1>3. CASE EraseOpen(r) \/ AudioOpen(r)
    BY <1>1, <1>2, <1>3, RowsKept
    DEF EraseOpen, AudioOpen, StepSound, MeetingTyped, meeting, bucket
  <1>4. CASE EraseSweep(r) \/ EraseLate(r) \/ AudioSweep(r)
    BY <1>1, <1>2, <1>4, RowsKept
    DEF EraseSweep, EraseLate, AudioSweep, DeletePrefix, StepSound, MeetingTyped, meeting
  <1>5. CASE EraseRows(r)
    <2>1. RowsSound
      <3>1. {j \in Jobs : state[j] # "none"} \in SUBSET Jobs
        OBVIOUS
      <3> QED BY <1>5, <3>1, RowsKept, RowsDeleted DEF EraseRows, jobs
    <2>2. /\ status' \in {status, "deleted"}
          /\ audioKey' \in BOOLEAN
          /\ audioKey /\ ~audioKey' => Erasing'
      BY <1>2, <1>5 DEF EraseRows
    <2> QED BY <1>1, <1>2, <1>5, <2>1, <2>2 DEF EraseRows, StepSound, MeetingTyped, bucket
  <1>6. CASE AudioRows(r)
    BY <1>1, <1>2, <1>6, RowsKept DEF AudioRows, StepSound, MeetingTyped, bucket
  <1>7. CASE RequestFails(r)
    <2>1. req[r] # "idle"
      BY <1>7 DEF RequestFails
    <2>2. Erasing' \/ Deleting'
      BY <1>2, <2>1 DEF Requests
    <2> QED BY <1>1, <1>2, <1>7, <2>2, RowsKept
         DEF RequestFails, StepSound, MeetingTyped, meeting, bucket
  <1> QED BY <1>3, <1>4, <1>5, <1>6, <1>7 DEF RequestStep

LEMMA EveryStep ==
  ASSUME TypeOK, state[latest] # "none", [Next]_vars
  PROVE  StepSound
  <1>1. CASE Next
    BY <1>1, RunnerSteps, SharedSteps, PrepareSteps, TranscribeSteps, RetrySteps, RequestSteps
    DEF Next, HandlerStep
  <1>2. CASE UNCHANGED vars
    BY <1>2, RowsKept
    DEF vars, TypeOK, StepSound, MeetingTyped, meeting, bucket, Erasing, Deleting
  <1> QED BY <1>1, <1>2

-----------------------------------------------------------------------------
(* How processing ends, one step *)

\* The jobs of a step: who comes to hold one reads first, who concludes had a
\* verdict, and a pending job stops pending for a reason.
JobsSound ==
    /\ \A c \in Claims : Runner!Holds(c[1], c[2])' => Runner!Holds(c[1], c[2]) \/ pc'[c] = "read"
    /\ \A c \in Claims : Concluded(c)' /\ Runner!Holds(c[1], c[2]) =>
           \/ Concluded(c) \/ status' # "processing"
           \/ c[1] \in PrepareJobs /\ audioKey'
           \/ c[1] \in TranscribeJobs /\ ~audioKey'
    /\ \A j \in Jobs : Pending(j) =>
           \/ Pending(j)' \/ cut' # {} \/ status' = "deleted"
           \/ \E c \in Claims : /\ c[1] = j /\ Concluded(c)
                                /\ Runner!Holds(c[1], c[2])
    /\ \A c \in Claims : pc'[c] # "idle" => pc[c] # "idle" \/ c[2] <= attempts'[c[1]]
    /\ \A j \in Jobs : attempts[j] <= attempts'[j]
    /\ cut \subseteq cut'
    /\ audioDeleted => audioDeleted'
    /\ latest' = latest => (audioKey' => audioKey)
    /\ latest' # latest => state'[latest'] = "queued" /\ (audioKey' <=> latest' \in TranscribeJobs)
    /\ audioKey /\ ~audioKey' => status' = "deleted" \/ audioDeleted'

\* The objects of a step where nothing fails: only a handler that goes on to
\* commit adds one, and who is about to remove it does.
ObjectsSound ==
    /\ sources' => sources
    /\ ogg' => ogg \/ \E c \in Claims : c[1] \in PrepareJobs /\ pc'[c] = "commit"
    /\ \A c \in Claims : c[1] \in PrepareJobs /\ pc[c] \in {"commit", "undo"} =>
           pc'[c] \in {"commit", "undo"} \/ ~ogg' \/ (status # "deleted" /\ status' = status)
    /\ \A r \in Erasures : req[r] = "late" => req'[r] = "late" \/ (~sources' /\ ~ogg')
    /\ status' = "deleted" => status = "deleted" \/ \E r \in Erasures : req'[r] = "late"

EndsSound == JobsSound /\ (Faults = {} => ObjectsSound)

LEMMA HoldsNow ==
  ASSUME NEW c \in Claims
  PROVE  /\ Runner!Holds(c[1], c[2]) <=> state[c[1]] = "running" /\ attempts[c[1]] = c[2]
         /\ Runner!Holds(c[1], c[2])' <=> state'[c[1]] = "running" /\ attempts'[c[1]] = c[2]
  BY DEF Runner!Holds

\* A step that leaves the jobs and the meeting alone, and moves one handler on.
LEMMA EndsMovesOn ==
  ASSUME TypeOK, NEW c \in Claims, NEW step \in Steps, Goto(c, step), pc[c] # "idle",
         step \in {"undo", "clean", "returned", "fatal"} =>
             \/ Concluded(c) \/ status # "processing" \/ ~Runner!Holds(c[1], c[2])
             \/ c[1] \in PrepareJobs /\ audioKey
             \/ c[1] \in TranscribeJobs /\ ~audioKey,
         Faults = {} /\ c[1] \in PrepareJobs => pc[c] \notin {"commit", "undo"} \/ step = "undo",
         UNCHANGED <<jobs, meeting, bucket, latest, cut, req>>
  PROVE  EndsSound
  <1>1. \A d \in Claims : pc'[d] = IF d = c THEN step ELSE pc[d]
    BY DEF Goto, TypeOK
  <1>2. \A j \in Jobs : attempts[j] \in Nat
    BY DEF TypeOK, Runner!TypeOK
  <1>3. JobsSound
    BY <1>1, <1>2, HoldsNow DEF JobsSound, Concluded, Pending, jobs, meeting
  <1>4. Faults = {} => ObjectsSound
    BY <1>1 DEF ObjectsSound, meeting, bucket
  <1> QED BY <1>3, <1>4 DEF EndsSound

LEMMA RunnerEnds ==
  ASSUME TypeOK, LaunchedIsCounted, NEW j \in Jobs, Claim(j) \/ Expire(j)
  PROVE  EndsSound
  <1>0. \A k \in Jobs : attempts[k] \in Nat
    BY DEF TypeOK, Runner!TypeOK
  <1>1. CASE Claim(j)
    <2>1. /\ state' = [state EXCEPT ![j] = "running"]
          /\ attempts' = [attempts EXCEPT ![j] = @ + 1]
          /\ state[j] \in {"queued", "running"} /\ attempts[j] < MaxAttempts
      BY <1>1 DEF Claim, Runner!Claim
    <2>2. attempts[j] + 1 \in 1..MaxAttempts
      BY <1>0, <2>1, MaxAttemptsAssumption
    <2>3. <<j, attempts[j] + 1>> \in Claims
      BY <2>2 DEF Claims
    <2>4. \A d \in Claims : pc'[d] = IF d = <<j, attempts[j] + 1>> THEN "read" ELSE pc[d]
      BY <1>1, <2>3 DEF Claim, TypeOK
    <2>5. pc[<<j, attempts[j] + 1>>] = "idle"
      BY <1>0, <2>3 DEF LaunchedIsCounted
    <2>6. /\ \A k \in Jobs : attempts'[k] = IF k = j THEN attempts[k] + 1 ELSE attempts[k]
          /\ \A k \in Jobs : state'[k] = IF k = j THEN "running" ELSE state[k]
      BY <2>1 DEF TypeOK, Runner!TypeOK
    <2>7. \A d \in Claims : Runner!Holds(d[1], d[2])' => Runner!Holds(d[1], d[2]) \/ pc'[d] = "read"
      BY <2>3, <2>4, <2>6, HoldsNow, ClaimParts
    <2>8. \A d \in Claims : pc'[d] # "idle" => pc[d] # "idle" \/ d[2] <= attempts'[d[1]]
      BY <1>0, <2>2, <2>4, <2>6
    <2>9. JobsSound
      BY <1>0, <1>1, <2>1, <2>4, <2>5, <2>6, <2>7, <2>8 DEF Claim, JobsSound, Concluded, Pending, meeting
    <2>10. ObjectsSound
      BY <1>1, <2>4, <2>5 DEF Claim, ObjectsSound, meeting, bucket
    <2> QED BY <2>9, <2>10 DEF EndsSound
  <1>2. CASE Expire(j)
    <2>1. JobsSound
      BY <1>0, <1>2, HoldsNow, ClaimParts
      DEF Expire, Runner!Expire, JobsSound, Concluded, Pending, meeting, TypeOK, Runner!TypeOK
    <2>2. ObjectsSound
      BY <1>2 DEF Expire, ObjectsSound, meeting, bucket
    <2> QED BY <2>1, <2>2 DEF EndsSound
  <1> QED BY <1>1, <1>2

LEMMA SharedEnds ==
  ASSUME TypeOK, NEW c \in Claims,
         Settle(c) \/ Vanish(c) \/ StepFails(c) \/ FetchRejects(c) \/ MarkFailed(c)
  PROVE  EndsSound
  <1>0. /\ \A k \in Jobs : attempts[k] \in Nat
        /\ state \in [Jobs -> Runner!JobState] /\ pc \in [Claims -> Steps]
    BY DEF TypeOK, Runner!TypeOK
  <1>1. CASE Settle(c)
    <2>1. \A d \in Claims : pc'[d] = IF d = c THEN "over" ELSE pc[d]
      BY <1>0, <1>1 DEF Settle
    <2>2. /\ attempts' = attempts
          /\ \A d \in Claims : Runner!Holds(d[1], d[2])' => Runner!Holds(d[1], d[2])
      BY <1>0, <1>1, ClaimParts, HoldsNow
      DEF Settle, Runner!Finish, Runner!Retry, Runner!Fail, jobs
    <2>3. \A j \in Jobs : Pending(j) =>
             Pending(j)' \/ cut' # {} \/ (c[1] = j /\ Concluded(c) /\ Runner!Holds(c[1], c[2]))
      BY <1>0, <1>1, ClaimParts
      DEF Settle, Runner!Finish, Runner!Retry, Runner!Fail, jobs, Pending, Concluded
    <2>4. JobsSound
      BY <1>0, <1>1, <2>1, <2>2, <2>3 DEF Settle, JobsSound, Concluded, meeting
    <2>5. ObjectsSound
      BY <1>1, <2>1 DEF Settle, ObjectsSound, meeting, bucket
    <2> QED BY <2>4, <2>5 DEF EndsSound
  <1>2. CASE Vanish(c)
    BY <1>2, EndsMovesOn DEF Vanish, Goto, Steps
  <1>3. CASE StepFails(c)
    BY <1>3, EndsMovesOn DEF StepFails, Caught, Transient, Steps
  <1>4. CASE FetchRejects(c)
    BY <1>4, EndsMovesOn DEF FetchRejects, Steps
  <1>5. CASE MarkFailed(c)
    <2>1. CASE Expected(c) /\ Runner!Commit(c[1], c[2], {}) /\ status' = "failed"
      <3>1. attempts' = attempts /\ \A k \in Jobs : state'[k] = state[k]
        BY <2>1 DEF Runner!Commit
      <3>2. \A d \in Claims : pc'[d] = IF d = c THEN "fatal" ELSE pc[d]
        BY <1>0, <1>5 DEF MarkFailed, Goto
      <3>3. JobsSound
        BY <1>0, <1>5, <2>1, <3>1, <3>2, HoldsNow, ClaimParts
        DEF MarkFailed, JobsSound, Concluded, Pending
      <3>4. ObjectsSound
        BY <1>5, <2>1, <3>2 DEF MarkFailed, ObjectsSound, bucket
      <3> QED BY <3>3, <3>4 DEF EndsSound
    <2>2. CASE Refused(c, Expected(c)) /\ UNCHANGED <<jobs, status>>
      BY <1>5, <2>2, EndsMovesOn
      DEF MarkFailed, Refused, Expected, Steps, Claims, Jobs, meeting
    <2> QED BY <1>5, <2>1, <2>2 DEF MarkFailed
  <1> QED BY <1>1, <1>2, <1>3, <1>4, <1>5

LEMMA PrepareEnds ==
  ASSUME TypeOK, state[latest] # "none", NEW c \in Claims,
         \/ ReadPrepare(c) \/ FetchPrepare(c) \/ PutAudio(c)
         \/ CommitAudio(c) \/ UndoAudio(c) \/ CleanSources(c)
  PROVE  EndsSound
  <1>0. /\ \A k \in Jobs : attempts[k] \in Nat
        /\ state \in [Jobs -> Runner!JobState] /\ pc \in [Claims -> Steps]
        /\ audioKey \in BOOLEAN
    BY DEF TypeOK, Runner!TypeOK
  <1>1. CASE ReadPrepare(c)
    BY <1>1, EndsMovesOn DEF ReadPrepare, At, Steps
  <1>2. CASE FetchPrepare(c)
    BY <1>2, EndsMovesOn DEF FetchPrepare, At, Steps
  <1>3. CASE PutAudio(c)
    <2>1. \E step \in {"commit", "threw", "fail", "gaveUp"} :
             /\ \A d \in Claims : pc'[d] = IF d = c THEN step ELSE pc[d]
             /\ Faults = {} => step = "commit"
      BY <1>0, <1>3 DEF PutAudio, Goto, Caught, Transient
    <2>2. pc[c] = "put" /\ c[1] \in PrepareJobs
      BY <1>3 DEF PutAudio, At
    <2>3. JobsSound
      BY <1>0, <1>3, <2>1, <2>2, HoldsNow DEF PutAudio, JobsSound, Concluded, Pending, jobs, meeting
    <2>4. Faults = {} => ObjectsSound
      BY <1>3, <2>1, <2>2 DEF PutAudio, ObjectsSound, meeting
    <2> QED BY <2>3, <2>4 DEF EndsSound
  <1>4. CASE CommitAudio(c)
    <2>1. pc[c] = "commit" /\ c[1] \in PrepareJobs
      BY <1>4 DEF CommitAudio, At
    <2>2. CASE Expected(c)
               /\ \E j \in TranscribeJobs : Runner!Commit(c[1], c[2], {j}) /\ latest' = j
      <3>1. PICK j \in TranscribeJobs : Runner!Commit(c[1], c[2], {j}) /\ latest' = j
        BY <2>2
      <3>2. /\ j \in Jobs /\ state[j] = "none" /\ attempts' = attempts
            /\ \A k \in Jobs : state'[k] = IF k = j THEN "queued" ELSE state[k]
        BY <3>1 DEF Jobs, Runner!Commit
      <3>3. state' # state
        BY <3>2
      <3>4. audioKey' = TRUE /\ status' = status /\ status # "deleted"
        BY <1>4, <2>2, <3>3 DEF CommitAudio, jobs, Expected
      <3>5. PICK step \in {"clean", "threw", "fail", "gaveUp"} :
               \A d \in Claims : pc'[d] = IF d = c THEN step ELSE pc[d]
        <4>1. ~Goto(c, "undo") \/ UNCHANGED jobs
          BY <1>0, <1>4 DEF CommitAudio, Goto, Caught, Transient, Steps
        <4>2. \/ Goto(c, "clean") \/ \E step \in Caught(c) : Goto(c, step)
          BY <1>4, <3>3 DEF CommitAudio, jobs
        <4> QED BY <1>0, <4>2 DEF Goto, Caught, Transient
      <3>6. JobsSound
        BY <1>0, <1>4, <2>1, <3>1, <3>2, <3>4, <3>5, HoldsNow, ClaimParts
        DEF CommitAudio, JobsSound, Concluded, Pending
      <3>7. ObjectsSound
        BY <1>4, <3>4, <3>5 DEF CommitAudio, ObjectsSound, bucket
      <3> QED BY <3>6, <3>7 DEF EndsSound
    <2>3. CASE Refused(c, Expected(c)) /\ Goto(c, "undo") /\ UNCHANGED <<jobs, latest, audioKey>>
      BY <1>0, <1>4, <2>1, <2>3, EndsMovesOn
      DEF CommitAudio, Refused, Expected, Steps, meeting
    <2> QED BY <1>4, <2>2, <2>3 DEF CommitAudio
  <1>5. CASE UndoAudio(c)
    <2>1. \A d \in Claims : pc'[d] = IF d = c THEN "returned" ELSE pc[d]
      BY <1>0, <1>5 DEF UndoAudio, Goto
    <2>2. pc[c] = "undo"
      BY <1>5 DEF UndoAudio, At
    <2>3. JobsSound
      BY <1>0, <1>5, <2>1, <2>2, HoldsNow DEF UndoAudio, JobsSound, Concluded, Pending, jobs, meeting
    <2>4. Faults = {} => ObjectsSound
      BY <1>5, <2>1, <2>2 DEF UndoAudio, ObjectsSound, meeting
    <2> QED BY <2>3, <2>4 DEF EndsSound
  <1>6. CASE CleanSources(c)
    <2>1. \A d \in Claims : pc'[d] = IF d = c THEN "returned" ELSE pc[d]
      BY <1>0, <1>6 DEF CleanSources, Goto
    <2>2. pc[c] = "clean"
      BY <1>6 DEF CleanSources, At
    <2>3. JobsSound
      BY <1>0, <1>6, <2>1, <2>2, HoldsNow
      DEF CleanSources, JobsSound, Concluded, Pending, jobs, meeting
    <2>4. ObjectsSound
      BY <1>6, <2>1, <2>2 DEF CleanSources, ObjectsSound, meeting
    <2> QED BY <2>3, <2>4 DEF EndsSound
  <1> QED BY <1>1, <1>2, <1>3, <1>4, <1>5, <1>6

LEMMA TranscribeEnds ==
  ASSUME TypeOK, NEW c \in Claims,
         \/ ReadTranscribe(c) \/ StageTranscribe(c)
         \/ FetchTranscribe(c) \/ WriteTranscript(c)
  PROVE  EndsSound
  <1>0. /\ \A k \in Jobs : attempts[k] \in Nat
        /\ state \in [Jobs -> Runner!JobState] /\ pc \in [Claims -> Steps]
        /\ c[1] \in TranscribeJobs /\ c[1] \notin PrepareJobs /\ pc[c] # "idle"
    BY KindsAssumption
    DEF TypeOK, Runner!TypeOK, ReadTranscribe, StageTranscribe, FetchTranscribe, WriteTranscript, At
  <1>1. CASE ReadTranscribe(c)
    BY <1>0, <1>1, EndsMovesOn DEF ReadTranscribe, Steps
  <1>2. CASE FetchTranscribe(c)
    BY <1>0, <1>2, EndsMovesOn DEF FetchTranscribe, Steps
  <1>3. CASE StageTranscribe(c)
    <2>1. attempts' = attempts /\ \A k \in Jobs : state'[k] = state[k]
      BY <1>3 DEF StageTranscribe, Runner!Commit, jobs
    <2>2. PICK step \in {"fetch", "returned"} :
             /\ \A d \in Claims : pc'[d] = IF d = c THEN step ELSE pc[d]
             /\ step = "returned" => Refused(c, Expected(c))
      BY <1>0, <1>3 DEF StageTranscribe, Goto
    <2>3. JobsSound
      BY <1>0, <1>3, <2>1, <2>2, HoldsNow, ClaimParts
      DEF StageTranscribe, JobsSound, Concluded, Pending, Refused, Expected, meeting
    <2>4. ObjectsSound
      BY <1>0, <1>3, <2>2 DEF StageTranscribe, ObjectsSound, meeting, bucket
    <2> QED BY <2>3, <2>4 DEF EndsSound
  <1>4. CASE WriteTranscript(c)
    <2>1. attempts' = attempts /\ \A k \in Jobs : state'[k] = state[k]
      BY <1>4 DEF WriteTranscript, Runner!Commit, jobs
    <2>2. PICK step \in {"returned", "threw", "fail", "gaveUp"} :
             \A d \in Claims : pc'[d] = IF d = c THEN step ELSE pc[d]
      BY <1>0, <1>4 DEF WriteTranscript, Goto, Caught, Transient
    <2>3. status' = "ready" \/ (status' = status /\ Refused(c, Expected(c)))
      BY <1>4 DEF WriteTranscript
    <2>4. status' = "deleted" => status = "deleted"
      BY <2>3
    <2>5. JobsSound
      BY <1>0, <1>4, <2>1, <2>2, <2>3, HoldsNow, ClaimParts
      DEF WriteTranscript, JobsSound, Concluded, Pending, Refused, Expected
    <2>6. ObjectsSound
      BY <1>0, <1>4, <2>2, <2>4 DEF WriteTranscript, ObjectsSound, bucket
    <2> QED BY <2>5, <2>6 DEF EndsSound
  <1> QED BY <1>1, <1>2, <1>3, <1>4

LEMMA RetryEnds ==
  ASSUME TypeOK, state[latest] # "none", RetryProcessing
  PROVE  EndsSound
  <1>0. \A k \in Jobs : attempts[k] \in Nat
    BY DEF TypeOK, Runner!TypeOK
  <1>1. PICK j \in IF audioKey THEN TranscribeJobs ELSE PrepareJobs :
           Runner!Enqueue(j) /\ latest' = j
    BY DEF RetryProcessing
  <1>2. j \in Jobs /\ (audioKey <=> j \in TranscribeJobs)
    BY <1>1, KindsAssumption DEF Jobs
  <1>3. /\ state[j] = "none" /\ attempts' = attempts
        /\ \A k \in Jobs : state'[k] = IF k = j THEN "queued" ELSE state[k]
    BY <1>1, <1>2 DEF Runner!Enqueue, TypeOK, Runner!TypeOK
  <1>4. /\ status = "failed" /\ status' = "processing"
        /\ UNCHANGED <<audioKey, audioDeleted, bucket, cut, pc, req>>
    BY DEF RetryProcessing
  <1>5. latest' = j /\ latest' # latest
    BY <1>1, <1>3
  <1>6. JobsSound
    BY <1>0, <1>2, <1>3, <1>4, <1>5, HoldsNow, ClaimParts DEF JobsSound, Concluded, Pending
  <1>7. ObjectsSound
    BY <1>4 DEF ObjectsSound, bucket
  <1> QED BY <1>6, <1>7 DEF EndsSound

LEMMA RequestEnds ==
  ASSUME TypeOK, NEW r \in Requests, EraseOpen(r) \/ AudioOpen(r) \/ RequestStep(r)
  PROVE  EndsSound
  <1>0. /\ \A k \in Jobs : attempts[k] \in Nat
        /\ state \in [Jobs -> Runner!JobState]
        /\ req \in [Requests -> {"idle", "sweep", "rows", "late", "over"}]
        /\ Erasures \subseteq Requests
    BY DEF TypeOK, Runner!TypeOK, Requests
  <1>1. ASSUME UNCHANGED <<jobs, meeting, latest, cut, pc>>
        PROVE  JobsSound
    BY <1>0, <1>1, HoldsNow DEF JobsSound, Concluded, Pending, jobs, meeting
  <1>2. CASE EraseOpen(r) \/ AudioOpen(r)
    <2>1. \A q \in Requests : req'[q] = IF q = r THEN "sweep" ELSE req[q]
      BY <1>0, <1>2 DEF EraseOpen, AudioOpen
    <2>2. req[r] = "idle" /\ UNCHANGED <<jobs, meeting, bucket, latest, cut, pc>>
      BY <1>2 DEF EraseOpen, AudioOpen
    <2>3. ObjectsSound
      BY <1>0, <2>1, <2>2 DEF ObjectsSound, meeting, bucket
    <2> QED BY <1>1, <2>2, <2>3 DEF EndsSound
  <1>3. CASE EraseSweep(r) \/ EraseLate(r) \/ AudioSweep(r)
    <2>1. ~sources' /\ ~ogg' /\ UNCHANGED <<jobs, meeting, latest, cut, pc>>
      BY <1>3 DEF EraseSweep, EraseLate, AudioSweep, DeletePrefix
    <2>2. ObjectsSound
      BY <2>1 DEF ObjectsSound, meeting
    <2> QED BY <1>1, <2>1, <2>2 DEF EndsSound
  <1>4. CASE EraseRows(r)
    <2>1. CASE status # "deleted"
      <3>1. /\ status' = "deleted" /\ audioKey' = FALSE
            /\ Runner!Cascade({j \in Jobs : state[j] # "none"})
            /\ req' = [req EXCEPT ![r] = "late"]
            /\ UNCHANGED <<audioDeleted, bucket, latest, cut, pc>>
            /\ r \in Erasures
        BY <1>4, <2>1 DEF EraseRows
      <3>2. attempts' = attempts /\ \A j \in Jobs : state'[j] \in {"none", "gone"}
        BY <3>1 DEF Runner!Cascade
      <3>3. JobsSound
        BY <1>0, <3>1, <3>2, HoldsNow, ClaimParts DEF JobsSound, Concluded, Pending
      <3>4. \A q \in Requests : req'[q] = IF q = r THEN "late" ELSE req[q]
        BY <1>0, <3>1
      <3>5. ObjectsSound
        BY <1>0, <3>1, <3>4 DEF ObjectsSound, bucket
      <3> QED BY <3>3, <3>5 DEF EndsSound
    <2>2. CASE status = "deleted"
      <3>1. UNCHANGED <<jobs, meeting, bucket, latest, cut, pc>>
        BY <1>4, <2>2 DEF EraseRows, meeting
      <3>2. \A q \in Requests : req'[q] = IF q = r THEN "over" ELSE req[q]
        BY <1>0, <1>4, <2>2 DEF EraseRows
      <3>3. req[r] = "rows"
        BY <1>4 DEF EraseRows
      <3>4. ObjectsSound
        BY <1>0, <3>1, <3>2, <3>3 DEF ObjectsSound, meeting, bucket
      <3> QED BY <1>1, <3>1, <3>4 DEF EndsSound
    <2> QED BY <2>1, <2>2
  <1>5. CASE AudioRows(r)
    <2>1. /\ UNCHANGED <<jobs, status, bucket, latest, cut, pc>>
          /\ audioKey' => audioKey
          /\ audioDeleted => audioDeleted'
          /\ audioKey /\ ~audioKey' => audioDeleted'
      BY <1>5 DEF AudioRows
    <2>2. \A q \in Requests : req'[q] = IF q = r THEN "over" ELSE req[q]
      BY <1>0, <1>5 DEF AudioRows
    <2>3. req[r] = "rows"
      BY <1>5 DEF AudioRows
    <2>4. JobsSound
      BY <1>0, <2>1, HoldsNow DEF JobsSound, Concluded, Pending, jobs
    <2>5. ObjectsSound
      BY <1>0, <2>1, <2>2, <2>3 DEF ObjectsSound, bucket
    <2> QED BY <2>4, <2>5 DEF EndsSound
  <1>6. CASE RequestFails(r)
    <2>1. Faults # {} /\ UNCHANGED <<jobs, meeting, latest, cut, pc>>
      BY <1>6 DEF RequestFails
    <2> QED BY <1>1, <2>1 DEF EndsSound
  <1> QED BY <1>2, <1>3, <1>4, <1>5, <1>6 DEF RequestStep

LEMMA EveryStepEnds ==
  ASSUME TypeOK, LaunchedIsCounted, state[latest] # "none", [Next]_vars
  PROVE  EndsSound
  <1>1. CASE Next
    BY <1>1, RunnerEnds, SharedEnds, PrepareEnds, TranscribeEnds, RetryEnds, RequestEnds
    DEF Next, HandlerStep
  <1>2. CASE UNCHANGED vars
    <2>1. \A k \in Jobs : attempts[k] \in Nat
      BY DEF TypeOK, Runner!TypeOK
    <2>2. JobsSound
      BY <1>2, <2>1, HoldsNow DEF JobsSound, Concluded, Pending, vars, jobs, meeting
    <2>3. ObjectsSound
      BY <1>2 DEF ObjectsSound, vars, meeting, bucket
    <2> QED BY <2>2, <2>3 DEF EndsSound
  <1> QED BY <1>1, <1>2

-----------------------------------------------------------------------------
(* The invariant *)

LEMMA Initially == Init => IInv
  <1> SUFFICES ASSUME Init PROVE IInv
    OBVIOUS
  <1>1. Runner!TypeOK
    BY MaxAttemptsAssumption DEF Init, Runner!TypeOK, Runner!JobState
  <1>2. PICK first \in PrepareJobs :
           /\ state = [j \in Jobs |-> IF j = first THEN "queued" ELSE "none"]
           /\ latest = first
    BY DEF Init
  <1>3. latest \in Jobs /\ state[latest] # "none"
    BY <1>2 DEF Jobs
  <1>4. TypeOK
    BY <1>1, <1>3 DEF Init, TypeOK, Steps
  <1>5. latest \in PrepareJobs /\ state[latest] = "queued" /\ status = "processing" /\ ~audioKey
    BY <1>2, <1>3 DEF Init
  <1>6. \A c \in Claims : pc[c] = "idle"
    BY DEF Init
  <1>7. KeyIsForTheLatest /\ VerdictFirst /\ LatestIsPending /\ LaunchedIsCounted
    BY <1>5, <1>6, KindsAssumption
    DEF KeyIsForTheLatest, VerdictFirst, LatestIsPending, LaunchedIsCounted, Concluded, Pending
  <1> QED BY <1>3, <1>4, <1>7 DEF Init, IInv, SourcesKept, CleanupOwns

\* Type correctness and SourcesKept, with the reason: whoever is about to delete
\* the sources saw the audio on record (prepareAudio.ts:206-209, 264-271).
THEOREM Inductive == Spec => []IInv
  <1>1. Init => IInv
    BY Initially
  <1>2. IInv /\ [Next]_vars => IInv'
    <2> SUFFICES ASSUME IInv, [Next]_vars PROVE IInv'
      OBVIOUS
    <2>1. StepSound
      BY EveryStep DEF IInv, CleanupOwns
    <2>2. TypeOK'
      BY <2>1 DEF StepSound, RowsSound, MeetingTyped, TypeOK
    <2>3. SourcesKept'
      <3> SUFFICES ASSUME status' \in {"processing", "failed"}, ~audioKey', ~Erasing', ~Deleting',
                          ~sources'
                   PROVE  FALSE
        BY DEF SourcesKept
      <3>1. status \in {"processing", "failed"} /\ ~audioKey /\ ~Erasing /\ ~Deleting
        BY <2>1 DEF StepSound, IInv, TypeOK
      <3>2. sources
        BY <3>1 DEF IInv, SourcesKept
      <3>3. PICK c \in Claims : pc[c] = "clean"
        BY <2>1, <3>2 DEF StepSound
      <3> QED BY <3>1, <3>3 DEF IInv, CleanupOwns
    <2>4. CleanupOwns'
      <3>1. \A c \in Claims : pc'[c] = "clean" => audioKey' \/ Erasing' \/ Deleting'
        BY <2>1 DEF StepSound, IInv, CleanupOwns
      <3>2. state'[latest'] # "none"
        BY <2>1 DEF StepSound, RowsSound, IInv, CleanupOwns, TypeOK
      <3> QED BY <3>1, <3>2 DEF CleanupOwns, Erasing, Deleting
    <2>5. JobsSound
      BY EveryStepEnds DEF IInv, CleanupOwns, EndsSound
    <2>6. status' = "processing" => status = "processing" \/ latest' # latest
      BY <2>1 DEF StepSound, IInv, TypeOK
    <2>7. KeyIsForTheLatest'
      BY <2>5, <2>6 DEF JobsSound, IInv, KeyIsForTheLatest
    <2>8. VerdictFirst'
      <3> SUFFICES ASSUME NEW c \in Claims, Concluded(c)', Runner!Holds(c[1], c[2])',
                          c[1] = latest', status' = "processing"
                   PROVE  audioDeleted'
        BY DEF VerdictFirst
      <3>1. latest' = latest
        BY <2>5, HoldsNow DEF JobsSound
      <3>2. Runner!Holds(c[1], c[2])
        BY <2>5 DEF JobsSound, Concluded
      <3>3. CASE Concluded(c)
        BY <2>5, <2>6, <3>1, <3>2, <3>3 DEF JobsSound, IInv, VerdictFirst
      <3>4. CASE ~Concluded(c)
        <4>1. \/ c[1] \in PrepareJobs /\ audioKey'
              \/ c[1] \in TranscribeJobs /\ ~audioKey'
          BY <2>5, <3>2, <3>4 DEF JobsSound
        <4> QED BY <2>7, <4>1, KindsAssumption DEF KeyIsForTheLatest
      <3> QED BY <3>3, <3>4
    <2>9. LatestIsPending'
      <3> SUFFICES ASSUME status' = "processing", cut' = {}, ~audioDeleted'
                   PROVE  Pending(latest)'
        BY DEF LatestIsPending
      <3>1. CASE latest' # latest
        BY <2>5, <3>1 DEF JobsSound, Pending
      <3>2. CASE latest' = latest
        <4>1. status = "processing" /\ cut = {} /\ ~audioDeleted
          BY <2>5, <2>6, <3>2 DEF JobsSound
        <4>2. Pending(latest) /\ latest \in Jobs
          BY <4>1 DEF IInv, LatestIsPending, TypeOK
        <4>3. \A c \in Claims : ~(c[1] = latest /\ Concluded(c) /\ Runner!Holds(c[1], c[2]))
          BY <4>1 DEF IInv, VerdictFirst
        <4> QED BY <2>5, <3>2, <4>2, <4>3 DEF JobsSound, Pending
      <3> QED BY <3>1, <3>2
    <2>10. LaunchedIsCounted'
      <3> SUFFICES ASSUME NEW c \in Claims, pc'[c] # "idle"
                   PROVE  c[2] <= attempts'[c[1]]
        BY DEF LaunchedIsCounted
      <3>1. c[1] \in Jobs /\ c[2] \in Nat
        BY ClaimParts
      <3>2. attempts[c[1]] \in Nat /\ attempts'[c[1]] \in Nat /\ attempts[c[1]] <= attempts'[c[1]]
        BY <2>2, <2>5, <3>1 DEF IInv, TypeOK, Runner!TypeOK, JobsSound
      <3> QED BY <2>5, <3>1, <3>2 DEF JobsSound, IInv, LaunchedIsCounted
    <2> QED BY <2>2, <2>3, <2>4, <2>7, <2>8, <2>9, <2>10 DEF IInv
  <1> QED BY <1>1, <1>2, PTL DEF Spec

\* Type correctness of the meeting, its bucket, its jobs and the requests.
THEOREM TypeCorrect == Spec => []TypeOK
  BY Inductive, PTL DEF IInv

\* A retry after any failure finds the sources, whatever attempts ran before.
THEOREM SourcesOutliveFailures == Spec => []SourcesKept
  BY Inductive, PTL DEF IInv

\* A meeting is not left in `processing` without a job, unless the runner failed a
\* job over its handler's head or the audio was deleted: whoever holds the job that
\* was enqueued last reaches its verdict on the meeting before it settles that job.
THEOREM NeverStuckWithoutReason == Spec => []StuckForAReason
  <1>1. IInv => StuckForAReason
    BY DEF IInv, TypeOK, LatestIsPending, StuckForAReason
  <1> QED BY <1>1, Inductive, PTL

\* Where no call fails and no process dies, nothing of a deleted meeting remains:
\* an object that is still there is going to be removed, by the deletion's second
\* sweep or by the handler whose commit is refused.
THEOREM ErasedForGood ==
  ASSUME Faults = {}
  PROVE  Spec => []NothingRemains
  <1>1. Init => WillBeSwept
    BY DEF Init, WillBeSwept
  <1>2. IInv /\ WillBeSwept /\ [Next]_vars => WillBeSwept'
    <2> SUFFICES ASSUME IInv, WillBeSwept, [Next]_vars, status' = "deleted"
                 PROVE  /\ sources' => \E r \in Erasures : req'[r] = "late"
                        /\ ogg' => \/ \E r \in Erasures : req'[r] = "late"
                                   \/ \E c \in Claims : c[1] \in PrepareJobs
                                                       /\ pc'[c] \in {"commit", "undo"}
      BY DEF WillBeSwept
    <2>1. ObjectsSound
      BY EveryStepEnds DEF IInv, CleanupOwns, EndsSound
    <2> QED BY <2>1 DEF ObjectsSound, WillBeSwept
  <1>3. WillBeSwept => NothingRemains
    BY DEF WillBeSwept, NothingRemains, Requests
  <1> QED BY <1>1, <1>2, <1>3, Inductive, PTL DEF Spec

\* Ready is final, and only a retry revives a failed meeting, whichever handlers
\* of whichever claims are still at work.
THEOREM StatusInOrder == Spec => StatusOrder
  <1>1. IInv /\ [Next]_vars =>
          [/\ status = "ready" => status' \in {"ready", "deleted"}
           /\ status = "failed" => \/ status' \in {"failed", "deleted"}
                                   \/ status' = "processing" /\ latest' # latest
           /\ status = "deleted" => status' = "deleted"]_vars
    BY EveryStep DEF IInv, CleanupOwns, StepSound
  <1> QED BY <1>1, Inductive, PTL DEF Spec, StatusOrder

=============================================================================
