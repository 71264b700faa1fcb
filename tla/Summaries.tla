----------------------------- MODULE Summaries -----------------------------
(***************************************************************************)
(* The summaries of one meeting of meetings-api: the requests that start,  *)
(* retry, edit and delete them, the `summarize` jobs that write them, and  *)
(* the edits of the transcript they are made from.                         *)
(*                                                                         *)
(* The job rows behave as JobClaims says.  Every attempt at a summary has  *)
(* a job of its own, so the job stands for the attemptId too: a retry      *)
(* gives the row another one, and whatever the earlier job still writes    *)
(* must find nothing to write to.                                          *)
(***************************************************************************)
EXTENDS Naturals, FiniteSets

CONSTANTS Summaries,    \* the rows that may be created
          Jobs,         \* the attempts there may be, each with its job
          Requests,     \* calls of the routes that may be under way
          MaxAttempts,  \* maxAttempts of a job
          MaxSummaries, \* MAX_SUMMARIES_PER_MEETING
          MaxClaims,    \* bound: claims of all the jobs together
          MaxEdits,     \* bound: edits of the transcript
          Readings,     \* how often loadTranscript reads at most, 3 in the code
          None          \* null

ASSUME MaxAttemptsAssumption == MaxAttempts \in Nat \ {0}
ASSUME BoundsAssumption ==
    MaxSummaries \in Nat /\ MaxEdits \in Nat /\ MaxClaims \in Nat /\ Readings \in Nat \ {0}
ASSUME SummariesAssumption == IsFiniteSet(Summaries)
ASSUME NoneAssumption ==
    None \notin Jobs \cup Requests \cup [by : Jobs, text : 0..MaxEdits, edited : BOOLEAN]

VARIABLES
    state, attempts, result, \* the job rows, see JobClaims
    alive,    \* the meeting's row exists
    text,     \* transcriptVersion of the meeting: how often it was edited
    row,      \* summary -> its status, "none" before and "gone" after
    attempt,  \* summary -> attemptId, the job it waits for or was written by
    label,    \* summary -> transcriptVersion of the row
    written,  \* summary -> the job and the transcript its sections come from,
              \* and whether its author edited them since
    torn,     \* summaries whose job gave up reading an unmoved transcript
    cut,      \* jobs that met a fault in their last attempt, or lapsed in it
    told,     \* job -> how often the author was told its outcome
    lock,     \* the request that holds the meeting's advisory lock, or None
    req,      \* request -> what it has read
    pc,       \* claim -> where its handler stands
    read      \* claim -> what its handler has read

jobs == <<state, attempts, result>>
meeting == <<alive, text>>
rows == <<row, attempt, label, written, torn>>
routes == <<lock, req>>
handlers == <<pc, read>>
vars == <<jobs, meeting, rows, cut, told, routes, handlers>>

Claims == Jobs \X (1..MaxAttempts)
Versions == 0..MaxEdits

Runner == INSTANCE JobClaims WITH
    Jobs <- Jobs, MaxAttempts <- MaxAttempts,
    state <- state, attempts <- attempts, result <- result

Idle == [op |-> "idle"]
Starting == [op : {"start"}, label : Versions]
Retrying == [op : {"retry"}, of : Summaries, attempt : Jobs,
             status : {"generating", "failed"}]
Nothing == [before |-> 0, text |-> 0, tries |-> 0]

Init == /\ state = [j \in Jobs |-> "none"]
        /\ attempts = [j \in Jobs |-> 0]
        /\ result = [j \in Jobs |-> 0]
        /\ alive = TRUE
        /\ text = 0
        /\ row = [s \in Summaries |-> "none"]
        /\ attempt = [s \in Summaries |-> None]
        /\ label = [s \in Summaries |-> 0]
        /\ written = [s \in Summaries |-> None]
        /\ torn = {}
        /\ cut = {}
        /\ told = [j \in Jobs |-> 0]
        /\ lock = None
        /\ req = [p \in Requests |-> Idle]
        /\ pc = [c \in Claims |-> "idle"]
        /\ read = [c \in Claims |-> Nothing]

(***************************************************************************)
(* The routes.                                                             *)
(***************************************************************************)
Present(s) == row[s] \in {"generating", "ready", "failed"}
Count == Cardinality({s \in Summaries : Present(s)})

\* Faulty variant: two starts count the rows at the same time.
BeginStartUnlocked(p) ==
    /\ req[p] = Idle /\ alive /\ Count < MaxSummaries
    /\ req' = [req EXCEPT ![p] = [op |-> "start", label |-> text]]
    /\ UNCHANGED <<jobs, meeting, rows, cut, told, lock, handlers>>

\* startSummary, up to the count: a second start waits for the lock.
BeginStart(p) ==
    /\ req[p] = Idle
    /\ alive
    /\ lock = None
    /\ Count < MaxSummaries
    /\ lock' = p
    /\ req' = [req EXCEPT ![p] = [op |-> "start", label |-> text]]
    /\ UNCHANGED <<jobs, meeting, rows, cut, told, handlers>>

\* The row, its attempt and its job, unless the meeting is gone by now.
CommitStart(p) ==
    /\ req[p].op = "start"
    /\ req' = [req EXCEPT ![p] = Idle]
    /\ lock' = None
    /\ \/ \E s \in Summaries, j \in Jobs :
             /\ alive
             /\ row[s] = "none"
             /\ Runner!Enqueue(j)
             /\ row' = [row EXCEPT ![s] = "generating"]
             /\ attempt' = [attempt EXCEPT ![s] = j]
             /\ label' = [label EXCEPT ![s] = req[p].label]
       \/ UNCHANGED <<jobs, row, attempt, label>>  \* 429, or a failure
    /\ UNCHANGED <<meeting, written, torn, cut, told, handlers>>

\* The summary that waits for job j.
Awaits(s, j) == row[s] = "generating" /\ attempt[s] = j

\* What a reader may see as failed: stored, or an attempt past its time, which
\* may have begun GENERATING_TIMEOUT_MS ago at any moment.
Failed(s) == row[s] \in {"failed", "generating"}

\* The retry route reads the row it is asked to retry.
BeginRetry(p, s) ==
    /\ req[p] = Idle
    /\ Failed(s)
    /\ req' = [req EXCEPT ![p] = [op |-> "retry", of |-> s,
                                  attempt |-> attempt[s], status |-> row[s]]]
    /\ UNCHANGED <<jobs, meeting, rows, cut, told, lock, handlers>>

\* Faulty variant: any row that is not generating anew may be retried.
RetryableUnlessGone(s, asked) == Present(s)

\* The compare-and-set of the retry, on the attempt and the status it read.
Retryable(s, asked) == attempt[s] = asked.attempt /\ row[s] = asked.status

\* The same row under a new attempt, unless it moved meanwhile.
CommitRetry(p) ==
    /\ req[p].op = "retry"
    /\ lock = None
    /\ req' = [req EXCEPT ![p] = Idle]
    /\ \/ \E j \in Jobs : LET s == req[p].of IN
             /\ Retryable(s, req[p])
             /\ Runner!Enqueue(j)
             /\ row' = [row EXCEPT ![s] = "generating"]
             /\ attempt' = [attempt EXCEPT ![s] = j]
             /\ label' = [label EXCEPT ![s] = text]
       \/ UNCHANGED <<jobs, row, attempt, label>>  \* 409, 429, or a failure
    /\ UNCHANGED <<meeting, written, torn, cut, told, lock, handlers>>

\* A compare-and-set on the version the editor saw, of a ready summary.
Edit(s) ==
    /\ row[s] = "ready"
    /\ written' = [written EXCEPT ![s].edited = TRUE]
    /\ UNCHANGED <<jobs, meeting, row, attempt, label, torn, cut, told,
                   routes, handlers>>

\* The rows S leave nothing behind.
Removed(S) ==
    /\ row' = [s \in Summaries |-> IF s \in S THEN "gone" ELSE row[s]]
    /\ attempt' = [s \in Summaries |-> IF s \in S THEN None ELSE attempt[s]]
    /\ label' = [s \in Summaries |-> IF s \in S THEN 0 ELSE label[s]]
    /\ written' = [s \in Summaries |-> IF s \in S THEN None ELSE written[s]]
    /\ torn' = torn \ S

\* The job of a deleted summary finds nothing to do when it comes.
Delete(s) ==
    /\ Present(s)
    /\ Removed({s})
    /\ UNCHANGED <<jobs, meeting, cut, told, routes, handlers>>

\* A segment is corrected: its text and the version, in one transaction.
EditTranscript ==
    /\ alive
    /\ text < MaxEdits
    /\ text' = text + 1
    /\ UNCHANGED <<jobs, alive, rows, cut, told, routes, handlers>>

\* Summaries and jobs go with the meeting (onDelete: Cascade).
DeleteMeeting ==
    /\ alive
    /\ alive' = FALSE
    /\ Removed({s \in Summaries : Present(s)})
    /\ state' = [j \in Jobs |-> IF state[j] = "none" THEN "none" ELSE "gone"]
    /\ UNCHANGED <<attempts, result, text, cut, told, routes, handlers>>

(***************************************************************************)
(* The `summarize` job.  A handler whose process died takes no step again. *)
(***************************************************************************)
Goto(c, step) == pc' = [pc EXCEPT ![c] = step]
Done(c, step) == Goto(c, step) /\ read' = [read EXCEPT ![c] = Nothing]

\* A claim, fresh or of a lapsed lease, and the launch of its handler.
Claim(j) ==
    /\ Cardinality({c \in Claims : pc[c] # "idle"}) < MaxClaims
    /\ Runner!Claim(j)
    /\ Goto(<<j, attempts[j] + 1>>, "start")
    /\ UNCHANGED <<meeting, rows, cut, told, routes, read>>

\* The lease of a job's last claim lapsed.
Expire(j) ==
    /\ Runner!Expire({j})
    /\ cut' = cut \cup {j}
    /\ UNCHANGED <<meeting, rows, told, routes, handlers>>

\* The handler settled: done, queued again, or failed for good.
Settle(c) ==
    LET j == c[1]  a == c[2] IN
    /\ pc[c] \in {"returned", "threw"}
    /\ \/ pc[c] = "returned" /\ Runner!Finish(j, a)
       \/ pc[c] = "threw" /\ Runner!Retry(j, a)
       \/ pc[c] = "threw" /\ a = MaxAttempts /\ Runner!Fail(j, a)
       \/ ~Runner!Holds(j, a) /\ UNCHANGED jobs
    /\ Goto(c, "over")
    /\ UNCHANGED <<meeting, rows, cut, told, routes, read>>

\* The row is read: gone, finished or superseded, there is nothing to do.
ReadRow(c) ==
    /\ pc[c] = "start"
    /\ IF \E s \in Summaries : Awaits(s, c[1])
       THEN Goto(c, "before")
       ELSE Goto(c, "returned")
    /\ UNCHANGED <<jobs, meeting, rows, cut, told, routes, read>>

\* loadTranscript reads the version, the segments, and the version again,
\* until it holds still, `Readings` times at most.
ReadBefore(c) ==
    /\ pc[c] = "before"
    /\ read' = [read EXCEPT ![c].before = text, ![c].tries = @ + 1]
    /\ Goto(c, "segments")
    /\ UNCHANGED <<jobs, meeting, rows, cut, told, routes>>

ReadSegments(c) ==
    /\ pc[c] = "segments"
    /\ read' = [read EXCEPT ![c].text = text]
    /\ Goto(c, "after")
    /\ UNCHANGED <<jobs, meeting, rows, cut, told, routes>>

\* Faulty variant: the first reading is taken as it comes.
GoodEnoughAtOnce(c) == TRUE

GoodEnough(c) == read[c].before = text \/ read[c].tries = Readings

\* The version after the segments is the one the summary is labelled with.
ReadAfter(c) ==
    /\ pc[c] = "after"
    /\ IF ~GoodEnough(c)
       THEN Goto(c, "before") /\ UNCHANGED read
       ELSE /\ read' = [read EXCEPT ![c].tries = IF read[c].before # text /\ @ = Readings
                                                 THEN @ ELSE 0,
                                    ![c].before = text]
            /\ Goto(c, "ask")
    /\ UNCHANGED <<jobs, meeting, rows, cut, told, routes>>

\* Faulty variant: an outage is left to the runner on the last attempt too.
AskForever(c) ==
    /\ pc[c] = "ask"
    /\ (Goto(c, "ready") /\ UNCHANGED read) \/ Done(c, "failed") \/ Done(c, "threw")
    /\ UNCHANGED <<jobs, meeting, rows, cut, told, routes>>

\* The model answers; an outage is the runner's to retry until the last
\* attempt, and a refusal or two invalid replies fail the summary.
Ask(c) ==
    /\ pc[c] = "ask"
    /\ \/ Goto(c, "ready") /\ UNCHANGED read
       \/ Done(c, "failed")
       \/ c[2] < MaxAttempts /\ Done(c, "threw")
    /\ UNCHANGED <<jobs, meeting, rows, cut, told, routes>>

\* A database fault outside the try block, or in the terminal write.
Faults(c) ==
    /\ pc[c] \in {"start", "before", "segments", "after", "ready", "failed"}
    /\ Done(c, "threw")
    /\ cut' = IF c[2] = MaxAttempts THEN cut \cup {c[1]} ELSE cut
    /\ UNCHANGED <<jobs, meeting, rows, told, routes>>

\* Faulty variant: the write is guarded by the summary's status only.
TargetOfAny(j) == {s \in Summaries : row[s] = "generating"}

\* WHERE attemptId = the job's AND status = 'generating'.
Target(j) == {s \in Summaries : Awaits(s, j)}

\* The author is told what was written, and nothing of a discarded result.
Tells(c) == Runner!Holds(c[1], c[2]) /\ Target(c[1]) # {}

\* The terminal write under both guards: the claim and the attempt.
Finish(c) ==
    LET j == c[1]
        to == pc[c]
        hit == IF Runner!Holds(j, c[2]) THEN Target(j) ELSE {}
    IN
    /\ pc[c] \in {"ready", "failed"}
    /\ \/ Runner!Commit(j, c[2], {})
       \/ ~Runner!Holds(j, c[2]) /\ UNCHANGED jobs
    /\ row' = [s \in Summaries |-> IF s \in hit THEN to ELSE row[s]]
    /\ IF to = "ready"
       THEN /\ label' = [s \in Summaries |-> IF s \in hit THEN read[c].before ELSE label[s]]
            /\ written' = [s \in Summaries |->
                               IF s \in hit THEN [by |-> j, text |-> read[c].text, edited |-> FALSE]
                               ELSE written[s]]
            /\ torn' = IF read[c].tries # 0 THEN torn \cup hit ELSE torn
       ELSE UNCHANGED <<label, written, torn>>
    /\ told' = [told EXCEPT ![j] = IF Tells(c) THEN @ + 1 ELSE @]
    /\ Done(c, "returned")
    /\ UNCHANGED <<meeting, attempt, cut, routes>>

HandlerStep(c) == \/ ReadRow(c) \/ ReadBefore(c) \/ ReadSegments(c) \/ ReadAfter(c)
                  \/ Ask(c) \/ Finish(c) \/ Settle(c)

Next == \/ \E p \in Requests : BeginStart(p) \/ CommitStart(p) \/ CommitRetry(p)
        \/ \E p \in Requests, s \in Summaries : BeginRetry(p, s)
        \/ \E s \in Summaries : Edit(s) \/ Delete(s)
        \/ EditTranscript \/ DeleteMeeting
        \/ \E j \in Jobs : Claim(j) \/ Expire(j)
        \/ \E c \in Claims : HandlerStep(c) \/ Faults(c)

Spec == Init /\ [][Next]_vars

(***************************************************************************)
(* Properties.                                                             *)
(***************************************************************************)
\* The values of the variables, and the bounds of what they count.
TypeOK ==
    /\ Runner!TypeOK
    /\ alive \in BOOLEAN
    /\ text \in Versions
    /\ row \in [Summaries -> {"none", "generating", "ready", "failed", "gone"}]
    /\ attempt \in [Summaries -> Jobs \cup {None}]
    /\ label \in [Summaries -> Versions]
    /\ written \in [Summaries -> [by : Jobs, text : Versions, edited : BOOLEAN] \cup {None}]
    /\ torn \subseteq Summaries
    /\ cut \subseteq Jobs
    /\ told \in [Jobs -> Nat]
    /\ lock \in Requests \cup {None}
    /\ req \in [Requests -> {Idle} \cup Starting \cup Retrying]
    /\ pc \in [Claims -> {"idle", "start", "before", "segments", "after", "ask", "ready",
                          "failed", "returned", "threw", "over"}]
    /\ read \in [Claims -> [before : Versions, text : Versions, tries : 0..Readings]]

\* A meeting never holds more summaries than the limit, however many requests
\* start one at the same time (summaries.routes.ts).
LimitKept == Count <= MaxSummaries

\* Only the attempt a ready summary names has written it: a retry leaves the
\* earlier job, still running or claimed again, nothing to write (summarize.ts).
WrittenByItsAttempt ==
    \A s \in Summaries :
        row[s] = "ready" => written[s] # None /\ written[s].by = attempt[s]

\* A summary that reads up to date was made from the current transcript: an
\* edit never hides between the segments and the version, unless it overtook
\* each of the three readings (summarize.ts, AC-6.8).
StaleIsShown ==
    \A s \in Summaries :
        row[s] = "ready" /\ label[s] = text => written[s].text = text \/ s \in torn

\* A summary that reads "generating" has a job at work for it: only a crash or
\* a database fault of the last attempt leaves it waiting for its time to be
\* up, never a model that is down or answers nonsense (summarize.ts).
GeneratingIsAtWork ==
    \A s \in Summaries :
        row[s] = "generating" => state[attempt[s]] \in {"queued", "running"}
                                   \/ attempt[s] \in cut

\* The author is told of an attempt once at most, whatever is claimed again,
\* and never of a result that was discarded (summarize.ts).
ToldOnce == \A j \in Jobs : told[j] <= 1

\* A ready summary is never written over: no retry, no late failure and no
\* second result touches the text its author may have edited.
ReadyIsFinal ==
    [][\A s \in Summaries : row[s] = "ready" =>
           \/ row'[s] = "gone"
           \/ /\ row'[s] = "ready"
              /\ attempt'[s] = attempt[s]
              /\ written'[s] \in {written[s], [written[s] EXCEPT !.edited = TRUE]}]_vars

(***************************************************************************)
(* The inductive invariant.                                                *)
(***************************************************************************)
\* A summary names the job of its attempt, which has a row, as has a job that
\* was told of; nothing waits for the latter.
JobsAreKnown ==
    /\ \A s \in Summaries : /\ Present(s) => attempt[s] # None
                            /\ attempt[s] # None => state[attempt[s]] # "none"
    /\ \A j \in Jobs : told[j] > 0 => state[j] # "none" /\ \A s \in Summaries : ~Awaits(s, j)

\* The request that holds the lock has room for one more summary.
LockIsHeld == \A p \in Requests : req[p].op = "start" => lock = p /\ Count < MaxSummaries

\* A handler belongs to a claim that was made, and one that returned without
\* losing its claim left no summary waiting.
ClaimsAreMade ==
    \A c \in Claims :
        /\ pc[c] # "idle" => c[2] <= attempts[c[1]]
        /\ pc[c] = "returned" => \/ ~Runner!Holds(c[1], c[2])
                                 \/ \A s \in Summaries : ~Awaits(s, c[1])
        /\ pc[c] = "threw" /\ c[2] = MaxAttempts => c[1] \in cut

\* What a handler has read is not ahead of the transcript, and is of one
\* version unless it gave up.
ReadingsAreOrdered ==
    \A c \in Claims :
        /\ pc[c] \in {"idle", "start"} => read[c] = Nothing
        /\ pc[c] = "before" => read[c].tries < Readings
        /\ pc[c] = "segments" => read[c].before <= text
        /\ pc[c] = "after" => read[c].before <= read[c].text /\ read[c].text <= text
        /\ pc[c] \in {"ask", "ready"} => read[c].before = read[c].text \/ read[c].tries # 0

LabelsAreTrue ==
    \A s \in Summaries : row[s] = "ready" => label[s] = written[s].text \/ s \in torn

IInv == /\ TypeOK /\ LimitKept /\ WrittenByItsAttempt /\ GeneratingIsAtWork /\ ToldOnce
        /\ JobsAreKnown /\ LockIsHeld /\ ClaimsAreMade /\ ReadingsAreOrdered /\ LabelsAreTrue
=============================================================================
