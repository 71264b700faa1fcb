----------------------------- MODULE Processing -----------------------------
(***************************************************************************)
(* From a stopped recording to a transcript: one meeting of meetings-api,  *)
(* its `prepare_audio` and `transcribe` jobs, the objects in the bucket,   *)
(* and the requests that interfere: the creator's retry, the deletion of   *)
(* the audio, the deletion of the meeting.                                 *)
(*                                                                         *)
(* The job rows behave as JobClaims says: any running job may be claimed   *)
(* again while its earlier handler is still at work.  A handler is a       *)
(* sequence of steps, one for each transaction and each call to the        *)
(* bucket; what it read earlier is where it stands.                        *)
(***************************************************************************)
EXTENDS Naturals, FiniteSets

CONSTANTS PrepareJobs,    \* bound: rows there may be of kind prepare_audio
          TranscribeJobs, \* bound: rows there may be of kind transcribe
          MaxAttempts,    \* maxAttempts of a job
          AtOnce,         \* bound: handlers at work at one time, stale ones included
          Erasures,       \* requests DELETE /meetings/:id
          AudioDeletes,   \* requests DELETE /meetings/:id/audio
          Faults          \* what may fail: "process", "storage", "database"

ASSUME MaxAttemptsAssumption == MaxAttempts \in Nat \ {0}
ASSUME AtOnceAssumption == AtOnce \in Nat \ {0}
ASSUME KindsAssumption == PrepareJobs \cap TranscribeJobs = {}
ASSUME FaultsAssumption == Faults \subseteq {"process", "storage", "database"}

VARIABLES
    state, attempts, result, \* the job rows, see JobClaims
    status,       \* of the meeting; "deleted" when its row is gone
    audioKey,     \* audioKey is set
    audioDeleted, \* audioDeletedAt is set
    sources,      \* the chunk objects are in the bucket
    ogg,          \* audio.ogg is in the bucket
    latest,       \* the job enqueued last
    cut,          \* jobs that failed without their handler's verdict on the meeting
    pc,           \* where the handler of a claim stands
    req           \* where a delete request stands

jobs == <<state, attempts, result>>
meeting == <<status, audioKey, audioDeleted>>
bucket == <<sources, ogg>>
vars == <<jobs, meeting, bucket, latest, cut, pc, req>>

Jobs == PrepareJobs \cup TranscribeJobs
Claims == Jobs \X (1..MaxAttempts)
Requests == Erasures \cup AudioDeletes

Runner == INSTANCE JobClaims WITH
    Jobs <- Jobs, MaxAttempts <- MaxAttempts, state <- state, attempts <- attempts, result <- result

Steps == {"idle", "read", "stage", "fetch", "put", "commit", "undo", "clean", "write",
          "fail", "returned", "threw", "fatal", "gaveUp", "over"}

TypeOK ==
    /\ Runner!TypeOK
    /\ status \in {"processing", "ready", "failed", "deleted"}
    /\ audioKey \in BOOLEAN /\ audioDeleted \in BOOLEAN
    /\ sources \in BOOLEAN /\ ogg \in BOOLEAN
    /\ latest \in Jobs
    /\ cut \in SUBSET Jobs
    /\ pc \in [Claims -> Steps]
    /\ req \in [Requests -> {"idle", "sweep", "rows", "late", "over"}]

\* beginProcessing has run: the first prepare_audio job is queued.
Init ==
    \E first \in PrepareJobs :
        /\ state = [j \in Jobs |-> IF j = first THEN "queued" ELSE "none"]
        /\ attempts = [j \in Jobs |-> 0]
        /\ result = [j \in Jobs |-> 0]
        /\ status = "processing" /\ audioKey = FALSE /\ audioDeleted = FALSE
        /\ sources = TRUE /\ ogg = FALSE
        /\ latest = first
        /\ cut = {}
        /\ pc = [c \in Claims |-> "idle"]
        /\ req = [r \in Requests |-> "idle"]

-----------------------------------------------------------------------------
(* The runner, as JobClaims has it *)

\* A claim, fresh or of a lapsed lease, and the launch of its handler.
Claim(j) ==
    /\ Cardinality({c \in Claims : pc[c] \notin {"idle", "over"}}) < AtOnce
    /\ Runner!Claim(j)
    /\ pc' = [pc EXCEPT ![<<j, attempts[j] + 1>>] = "read"]
    /\ UNCHANGED <<meeting, bucket, latest, cut, req>>

\* The lease of a job's last claim lapsed.
Expire(j) ==
    /\ Runner!Expire({j})
    /\ cut' = cut \cup {j}
    /\ UNCHANGED <<meeting, bucket, latest, pc, req>>

\* The handler settled: done, failed, or queued again.  A stale claim settles
\* nothing.  A handler that gave up left the meeting as it was.
Settle(c) ==
    LET j == c[1]  a == c[2] IN
    /\ pc[c] \in {"returned", "threw", "fatal", "gaveUp"}
    /\ \/ pc[c] = "returned" /\ Runner!Finish(j, a) /\ UNCHANGED cut
       \/ pc[c] \in {"threw", "gaveUp"} /\ Runner!Retry(j, a) /\ UNCHANGED cut
       \/ pc[c] = "fatal" /\ Runner!Fail(j, a) /\ UNCHANGED cut
       \/ pc[c] = "gaveUp" /\ a = MaxAttempts /\ Runner!Fail(j, a) /\ cut' = cut \cup {j}
       \/ ~Runner!Holds(j, a) /\ UNCHANGED <<jobs, cut>>
    /\ pc' = [pc EXCEPT ![c] = "over"]
    /\ UNCHANGED <<meeting, bucket, latest, req>>

\* The settling statement failed, or the process died: the lease will lapse.
Vanish(c) ==
    /\ pc[c] \notin {"idle", "over"}
    /\ \/ "process" \in Faults
       \/ "database" \in Faults /\ pc[c] \in {"returned", "threw", "fatal", "gaveUp"}
    /\ pc' = [pc EXCEPT ![c] = "over"]
    /\ UNCHANGED <<jobs, meeting, bucket, latest, cut, req>>

-----------------------------------------------------------------------------
(* What the handlers share *)

At(c, kind, step) == c[1] \in kind /\ pc[c] = step
Goto(c, step) == pc' = [pc EXCEPT ![c] = step]

\* An error worth a retry is the runner's to retry, until the last attempt.
Transient(c) == IF c[2] < MaxAttempts THEN "threw" ELSE "fail"

\* ctx.commit found the claim gone, or the meeting not in the expected state.
Refused(c, expected) == ~Runner!Holds(c[1], c[2]) \/ ~expected

\* ctx.signal was aborted: the heartbeat found the claim gone, or the grace
\* period of a shutdown is over.
MayBeAborted(c) == ~Runner!Holds(c[1], c[2]) \/ "process" \in Faults

\* Where an error inside the try block leads: "a lost lease is not the
\* meeting's failure", so the handler rethrows it once the signal is aborted.
Caught(c) == {Transient(c)} \cup (IF MayBeAborted(c) THEN {"gaveUp"} ELSE {})

\* A call of handler c fails before it wrote anything.  Outside the try block
\* the error reaches the runner, whatever the attempt.
StepFails(c) ==
    /\ \/ /\ \/ pc[c] = "fetch"
             \/ pc[c] = "put" /\ "storage" \in Faults
             \/ pc[c] \in {"commit", "write"} /\ "database" \in Faults
          /\ \E step \in Caught(c) : Goto(c, step)
       \/ /\ pc[c] \in {"read", "stage", "fail"} /\ "database" \in Faults
          /\ Goto(c, "gaveUp")
    /\ UNCHANGED <<jobs, meeting, bucket, latest, cut, req>>

\* Unreadable audio, a refusal of the provider, speech it cannot transcribe.
FetchRejects(c) ==
    /\ pc[c] = "fetch"
    /\ IF c[1] \in PrepareJobs THEN sources ELSE ogg
    /\ Goto(c, "fail")
    /\ UNCHANGED <<jobs, meeting, bucket, latest, cut, req>>

\* Faulty variant: the writes forget WHERE status = 'processing'.
ExpectedInAnyStatus(c) == status # "deleted" /\ (c[1] \in PrepareJobs => ~audioKey)

\* The WHERE clause of every write to the meeting.
Expected(c) == status = "processing" /\ (c[1] \in PrepareJobs => ~audioKey)

\* Faulty variant: the permanent error is thrown and the meeting is not failed.
MarkNothing(c) ==
    /\ pc[c] = "fail"
    /\ Goto(c, "fatal")
    /\ UNCHANGED <<jobs, meeting, bucket, latest, cut, req>>

\* markFailed / fail: the meeting fails, in a job-guarded transaction.
MarkFailed(c) ==
    /\ pc[c] = "fail"
    /\ \/ /\ Expected(c)
          /\ Runner!Commit(c[1], c[2], {})
          /\ status' = "failed"
       \/ /\ Refused(c, Expected(c))
          /\ UNCHANGED <<jobs, status>>
    /\ Goto(c, "fatal")
    /\ UNCHANGED <<audioKey, audioDeleted, bucket, latest, cut, req>>

-----------------------------------------------------------------------------
(* prepare_audio *)

\* The meeting and its stored chunks are read.
ReadPrepare(c) ==
    /\ At(c, PrepareJobs, "read")
    /\ Goto(c, CASE status = "deleted" -> "returned"
                 [] status # "deleted" /\ audioKey -> "clean"
                 [] status = "processing" /\ ~audioKey -> "fetch"
                 [] OTHER -> "returned")
    /\ UNCHANGED <<jobs, meeting, bucket, latest, cut, req>>

\* Bytes to disk, probe, normalise under the ffmpeg slot.
FetchPrepare(c) ==
    /\ At(c, PrepareJobs, "fetch")
    /\ sources
    /\ Goto(c, "put")
    /\ UNCHANGED <<jobs, meeting, bucket, latest, cut, req>>

\* Faulty variant: the sources go as soon as audio.ogg is in the bucket.
PutAndClean(c) ==
    /\ At(c, PrepareJobs, "put")
    /\ ogg' = TRUE /\ sources' = FALSE
    /\ Goto(c, "commit")
    /\ UNCHANGED <<jobs, meeting, latest, cut, req>>

\* putAudioFile, always at the meeting's one key; its answer may be lost.
PutAudio(c) ==
    /\ At(c, PrepareJobs, "put")
    /\ ogg' = TRUE
    /\ \/ Goto(c, "commit")
       \/ "storage" \in Faults /\ \E step \in Caught(c) : Goto(c, step)
    /\ UNCHANGED <<jobs, meeting, sources, latest, cut, req>>

\* Faulty variant: the next job is not enqueued in the same transaction.
CommitWithoutJob(c) ==
    /\ At(c, PrepareJobs, "commit")
    /\ \/ /\ Expected(c)
          /\ Runner!Commit(c[1], c[2], {})
          /\ audioKey' = TRUE
          /\ Goto(c, "clean")
       \/ /\ Refused(c, Expected(c))
          /\ Goto(c, "undo")
          /\ UNCHANGED <<jobs, audioKey>>
    /\ UNCHANGED <<status, audioDeleted, bucket, latest, cut, req>>

\* audioKey is set and `transcribe` enqueued; or the attempt was too late.
\* The answer of a commit that happened may be lost.
CommitAudio(c) ==
    /\ At(c, PrepareJobs, "commit")
    /\ \/ /\ Expected(c)
          /\ \E j \in TranscribeJobs : Runner!Commit(c[1], c[2], {j}) /\ latest' = j
          /\ audioKey' = TRUE
          /\ \/ Goto(c, "clean")
             \/ "database" \in Faults /\ \E step \in Caught(c) : Goto(c, step)
       \/ /\ Refused(c, Expected(c))
          /\ Goto(c, "undo")
          /\ UNCHANGED <<jobs, latest, audioKey>>
    /\ UNCHANGED <<status, audioDeleted, bucket, cut, req>>

\* Faulty variant: a refused attempt leaves its audio behind.
UndoNothing(c) ==
    /\ At(c, PrepareJobs, "undo")
    /\ Goto(c, "returned")
    /\ UNCHANGED <<jobs, meeting, bucket, latest, cut, req>>

\* The meeting moved on while ffmpeg ran: "do not leave its audio behind".
UndoAudio(c) ==
    /\ At(c, PrepareJobs, "undo")
    /\ \/ ogg' = FALSE
       \/ "storage" \in Faults /\ UNCHANGED ogg
    /\ Goto(c, "returned")
    /\ UNCHANGED <<jobs, meeting, sources, latest, cut, req>>

\* deleteSources, best effort.
CleanSources(c) ==
    /\ At(c, PrepareJobs, "clean")
    /\ \/ sources' = FALSE
       \/ "storage" \in Faults /\ UNCHANGED sources
    /\ Goto(c, "returned")
    /\ UNCHANGED <<jobs, meeting, ogg, latest, cut, req>>

-----------------------------------------------------------------------------
(* transcribe *)

ReadTranscribe(c) ==
    /\ At(c, TranscribeJobs, "read")
    /\ Goto(c, IF status = "processing" /\ audioKey THEN "stage" ELSE "returned")
    /\ UNCHANGED <<jobs, meeting, bucket, latest, cut, req>>

\* stage = "transcribing", in a job-guarded transaction of its own.
StageTranscribe(c) ==
    /\ At(c, TranscribeJobs, "stage")
    /\ \/ /\ Expected(c)
          /\ Runner!Commit(c[1], c[2], {})
          /\ Goto(c, "fetch")
       \/ /\ Refused(c, Expected(c))
          /\ Goto(c, "returned")
          /\ UNCHANGED jobs
    /\ UNCHANGED <<meeting, bucket, latest, cut, req>>

\* audio.ogg is read and the provider answers with segments or with no speech.
FetchTranscribe(c) ==
    /\ At(c, TranscribeJobs, "fetch")
    /\ ogg
    /\ Goto(c, "write")
    /\ UNCHANGED <<jobs, meeting, bucket, latest, cut, req>>

\* The meeting is ready and its segments are replaced, in one transaction.
WriteTranscript(c) ==
    /\ At(c, TranscribeJobs, "write")
    /\ \/ /\ Expected(c)
          /\ Runner!Commit(c[1], c[2], {})
          /\ status' = "ready"
          /\ \/ Goto(c, "returned")
             \/ "database" \in Faults /\ \E step \in Caught(c) : Goto(c, step)
       \/ /\ Refused(c, Expected(c))
          /\ Goto(c, "returned")
          /\ UNCHANGED <<jobs, status>>
    /\ UNCHANGED <<audioKey, audioDeleted, bucket, latest, cut, req>>

-----------------------------------------------------------------------------
(* Requests *)

\* POST /retry: the meeting row is locked, so this is one step.  The chunk
\* rows are kept, so the sources count as kept until the audio is deleted.
RetryProcessing ==
    /\ status = "failed"
    /\ ~audioDeleted
    /\ \E j \in IF audioKey THEN TranscribeJobs ELSE PrepareJobs :
          Runner!Enqueue(j) /\ latest' = j
    /\ status' = "processing"
    /\ UNCHANGED <<audioKey, audioDeleted, bucket, cut, pc, req>>

\* A request ends early: the bucket refused some of the objects, a transaction
\* failed, or the process died.
RequestFails(r) ==
    /\ \/ /\ req[r] \in {"sweep", "late"} /\ Faults \cap {"storage", "process"} # {}
          /\ sources' \in {sources, FALSE} /\ ogg' \in {ogg, FALSE}
       \/ /\ req[r] = "rows" /\ Faults \cap {"database", "process"} # {}
          /\ UNCHANGED bucket
    /\ req' = [req EXCEPT ![r] = "over"]
    /\ UNCHANGED <<jobs, meeting, latest, cut, pc>>

\* deletePrefix: every object of the meeting.
DeletePrefix(r, then) ==
    /\ sources' = FALSE /\ ogg' = FALSE
    /\ req' = [req EXCEPT ![r] = then]

\* DELETE /meetings/:id: objects, then rows, then the objects once more.
EraseOpen(r) ==
    /\ r \in Erasures /\ req[r] = "idle"
    /\ status # "deleted"
    /\ req' = [req EXCEPT ![r] = "sweep"]
    /\ UNCHANGED <<jobs, meeting, bucket, latest, cut, pc>>

EraseSweep(r) ==
    /\ r \in Erasures /\ req[r] = "sweep"
    /\ DeletePrefix(r, "rows")
    /\ UNCHANGED <<jobs, meeting, latest, cut, pc>>

EraseRows(r) ==
    /\ r \in Erasures /\ req[r] = "rows"
    /\ \/ /\ status # "deleted"
          /\ status' = "deleted" /\ audioKey' = FALSE
          /\ Runner!Cascade({j \in Jobs : state[j] # "none"})
          /\ req' = [req EXCEPT ![r] = "late"]
       \/ /\ status = "deleted"
          /\ req' = [req EXCEPT ![r] = "over"]
          /\ UNCHANGED <<jobs, status, audioKey>>
    /\ UNCHANGED <<audioDeleted, bucket, latest, cut, pc>>

EraseLate(r) ==
    /\ r \in Erasures /\ req[r] = "late"
    /\ DeletePrefix(r, "over")
    /\ UNCHANGED <<jobs, meeting, latest, cut, pc>>

\* DELETE /meetings/:id/audio: the status is read before the objects go and
\* is not looked at again.
AudioOpen(r) ==
    /\ r \in AudioDeletes /\ req[r] = "idle"
    /\ status \in {"ready", "failed"} /\ ~audioDeleted
    /\ req' = [req EXCEPT ![r] = "sweep"]
    /\ UNCHANGED <<jobs, meeting, bucket, latest, cut, pc>>

AudioSweep(r) ==
    /\ r \in AudioDeletes /\ req[r] = "sweep"
    /\ DeletePrefix(r, "rows")
    /\ UNCHANGED <<jobs, meeting, latest, cut, pc>>

AudioRows(r) ==
    /\ r \in AudioDeletes /\ req[r] = "rows"
    /\ \/ /\ status # "deleted"
          /\ audioKey' = FALSE /\ audioDeleted' = TRUE
       \/ /\ status = "deleted"
          /\ UNCHANGED <<audioKey, audioDeleted>>
    /\ req' = [req EXCEPT ![r] = "over"]
    /\ UNCHANGED <<jobs, status, bucket, latest, cut, pc>>

-----------------------------------------------------------------------------
HandlerStep(c) ==
    \/ StepFails(c) \/ FetchRejects(c) \/ MarkFailed(c)
    \/ ReadPrepare(c) \/ FetchPrepare(c) \/ PutAudio(c)
    \/ CommitAudio(c) \/ UndoAudio(c) \/ CleanSources(c)
    \/ ReadTranscribe(c) \/ StageTranscribe(c) \/ FetchTranscribe(c) \/ WriteTranscript(c)

RequestStep(r) ==
    \/ EraseSweep(r) \/ EraseRows(r) \/ EraseLate(r)
    \/ AudioSweep(r) \/ AudioRows(r) \/ RequestFails(r)

Next ==
    \/ \E j \in Jobs : Claim(j) \/ Expire(j)
    \/ \E c \in Claims : Settle(c) \/ Vanish(c) \/ HandlerStep(c)
    \/ RetryProcessing
    \/ \E r \in Requests : EraseOpen(r) \/ AudioOpen(r) \/ RequestStep(r)

Spec == Init /\ [][Next]_vars

\* The runner claims what is due, expires what it cannot claim again, and
\* handlers move on; nobody is obliged to retry or to delete anything.
Fairness ==
    /\ \A j \in Jobs : WF_vars(Claim(j)) /\ WF_vars(Expire(j))
    /\ \A c \in Claims : WF_vars(Settle(c) \/ HandlerStep(c))
    /\ \A r \in Requests : WF_vars(RequestStep(r))

FairSpec == Spec /\ Fairness

-----------------------------------------------------------------------------
(* Properties *)

Pending(j) == state[j] \in {"queued", "running"}
Erasing == \E r \in Erasures : req[r] # "idle"
Deleting == \E r \in AudioDeletes : req[r] # "idle"

\* The sources outlive every failure: as long as there is no audio.ogg on
\* record, a retry finds the chunks, whichever attempts ran, stalled or died
\* (prepareAudio.ts:16-20, the sources go only after the commit).
SourcesKept ==
    status \in {"processing", "failed"} /\ ~audioKey /\ ~Erasing /\ ~Deleting => sources

\* What SourcesKept rests on: an attempt that is about to delete the sources saw
\* the audio on record, and only a request takes that back (prepareAudio.ts:206-209,
\* 264-271); the job enqueued last has a row.
CleanupOwns ==
    /\ \A c \in Claims : pc[c] = "clean" => audioKey \/ Erasing \/ Deleting
    /\ state[latest] # "none"

\* Late handlers do not move a meeting back or forth: ready is final until the
\* meeting is deleted, and only a retry, which enqueues a job, revives a failed
\* one (transcribe.ts:16-19, prepareAudio.ts:151-162).
StatusOrder ==
    [][/\ status = "ready" => status' \in {"ready", "deleted"}
       /\ status = "failed" => \/ status' \in {"failed", "deleted"}
                               \/ status' = "processing" /\ latest' # latest
       /\ status = "deleted" => status' = "deleted"]_vars

\* A meeting is left in `processing` with no job to end it only if the runner
\* failed a job over its handler's head (its last claim's lease lapsed, or its last
\* attempt was cut off by a shutdown or a database fault), or if its audio was
\* deleted after a retry had sent it to be transcribed (audio.routes.ts:124-137).
StuckForAReason ==
    status = "processing" => (\E j \in Jobs : Pending(j)) \/ cut # {} \/ audioDeleted

\* What StuckForAReason rests on: the audio on record is for the job enqueued last,
\* and the claim that holds that job leaves it only with a verdict.
KeyIsForTheLatest ==
    /\ audioKey => latest \in TranscribeJobs
    /\ status = "processing" /\ latest \in TranscribeJobs => audioKey \/ audioDeleted

Concluded(c) == pc[c] \in {"undo", "clean", "returned", "fatal"}

VerdictFirst ==
    \A c \in Claims : Concluded(c) /\ Runner!Holds(c[1], c[2]) /\ c[1] = latest
                     => status # "processing" \/ audioDeleted

LatestIsPending == status = "processing" => Pending(latest) \/ cut # {} \/ audioDeleted

LaunchedIsCounted == \A c \in Claims : pc[c] # "idle" => c[2] <= attempts[c[1]]

\* DELETE /meetings/:id keeps its promise "nothing of it remains"
\* (delete.routes.ts:12): once the request and the handlers are through, no
\* object of the meeting is left, not even one a handler put meanwhile.
NothingRemains ==
    /\ status = "deleted"
    /\ \A r \in Requests : req[r] \in {"idle", "over"}
    /\ \A c \in Claims : pc[c] \in {"idle", "over"}
    => ~sources /\ ~ogg

\* What NothingRemains rests on, where nothing fails: until the second sweep of
\* the deletion, or until the handler that put it finds its commit refused.
WillBeSwept ==
    LET sweeping == \E r \in Erasures : req[r] = "late"
        writing == \E c \in Claims : c[1] \in PrepareJobs /\ pc[c] \in {"commit", "undo"}
    IN  status = "deleted" => (sources => sweeping) /\ (ogg => sweeping \/ writing)

\* Processing ends, ready or failed, or it is stuck for one of those reasons.
ProcessingEnds == status = "processing" ~> status # "processing" \/ cut # {} \/ audioDeleted

\* runner.ts:30-34, prepareAudio.ts:122-124: a stale attempt cannot overwrite
\* the outcome of the claim that replaced it, nor delete what it never owned.
\* So the audio.ogg the meeting has on record is in the bucket.
AudioKept == audioKey /\ ~Erasing /\ ~Deleting => ogg

\* The inductive invariant of the proofs.
IInv == TypeOK /\ SourcesKept /\ CleanupOwns
        /\ KeyIsForTheLatest /\ VerdictFirst /\ LatestIsPending /\ LaunchedIsCounted

=============================================================================
