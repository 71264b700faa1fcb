----------------------------- MODULE JobRunner -----------------------------
(***************************************************************************)
(* The durable job runner of meetings-api (jobs/runner.ts): the rows of    *)
(* `meeting_job`, and processes that each claim due rows, launch their     *)
(* handlers, heartbeat the leases and record the outcomes.                 *)
(*                                                                         *)
(* Every SQL statement is one step; what a process does between two awaits *)
(* is one step.  Time is left out: a lease is live or lapsed and a retry   *)
(* is due or not, and either may change at any moment, since heartbeats    *)
(* are timers of a process that may stall, and their errors are swallowed. *)
(* Among the due rows any may be claimed: FOR UPDATE SKIP LOCKED passes    *)
(* over the earlier ones when another transaction has them.                *)
(***************************************************************************)
EXTENDS Naturals, FiniteSets

CONSTANTS Jobs,        \* job rows
          Procs,       \* processes that run the worker loop
          MaxAttempts, \* maxAttempts of a job
          Concurrency  \* jobs one runner runs at a time

ASSUME MaxAttemptsAssumption == MaxAttempts \in Nat \ {0}
ASSUME ConcurrencyAssumption == Concurrency \in Nat \ {0}

NoClaim == <<>>
NoProc == "no process"

ASSUME JobsAssumption == IsFiniteSet(Jobs)
ASSUME NoProcAssumption == NoProc \notin Procs

VARIABLES
    state, attempts, \* the row: its state, and how many times it was claimed
    lease,           \* the row: leaseUntil, "none", still "live" or "lapsed"
    due,             \* the row: runAfter has passed
    result,          \* the claim whose ctx.commit applied last, 0 if none
    proc,            \* "up", the stages of stop(), "down"
    loop,            \* where the tick loop of a process stands
    again,           \* a tick was asked for while the loop was busy
    got,             \* the row a claim returned, until it is launched
    active,          \* the `active` map: job -> attempt of its entry, 0 if absent
    waits,           \* the handlers stop() waits for
    pc,              \* where the handler of a claim stands
    owner,           \* the process it runs in, while it does
    beat             \* its heartbeat: "on", "lost" (and aborted), "off"

row == <<state, attempts, lease, due>>
runner == <<proc, loop, again, got, active, waits>>
handler == <<pc, owner, beat>>
vars == <<row, result, runner, handler>>

Claims == Jobs \X (1..MaxAttempts)

TypeOK ==
    /\ state \in [Jobs -> {"none", "queued", "running", "done", "failed", "gone"}]
    /\ attempts \in [Jobs -> 0..MaxAttempts]
    /\ lease \in [Jobs -> {"none", "live", "lapsed"}]
    /\ due \in [Jobs -> BOOLEAN]
    /\ result \in [Jobs -> 0..MaxAttempts]
    /\ proc \in [Procs -> {"up", "closing", "draining", "stopped", "down"}]
    /\ loop \in [Procs -> {"idle", "sweep", "claim", "launch"}]
    /\ again \in [Procs -> BOOLEAN]
    /\ got \in [Procs -> Claims \cup {NoClaim}]
    /\ active \in [Procs -> [Jobs -> 0..MaxAttempts]]
    /\ waits \in [Procs -> SUBSET Claims]
    /\ pc \in [Claims -> {"idle", "handling", "returned", "threw", "fatal",
                          "ending", "over"}]
    /\ owner \in [Claims -> Procs \cup {NoProc}]
    /\ beat \in [Claims -> {"on", "lost", "off"}]

Init ==
    /\ state = [j \in Jobs |-> "none"]
    /\ attempts = [j \in Jobs |-> 0]
    /\ lease = [j \in Jobs |-> "none"]
    /\ due = [j \in Jobs |-> FALSE]
    /\ result = [j \in Jobs |-> 0]
    /\ proc = [p \in Procs |-> "down"]
    /\ loop = [p \in Procs |-> "idle"]
    /\ again = [p \in Procs |-> FALSE]
    /\ got = [p \in Procs |-> NoClaim]
    /\ active = [p \in Procs |-> [j \in Jobs |-> 0]]
    /\ waits = [p \in Procs |-> {}]
    /\ pc = [c \in Claims |-> "idle"]
    /\ owner = [c \in Claims |-> NoProc]
    /\ beat = [c \in Claims |-> "off"]

-----------------------------------------------------------------------------
(* Rows *)

\* Faulty variant: the compare-and-set forgets the attempt.
MineAnyClaim(c) == state[c[1]] = "running"

\* `mine`: the compare-and-set on (id, attempts, running).
Mine(c) == state[c[1]] = "running" /\ attempts[c[1]] = c[2]

\* The handler of claim c has not left its process yet.
Live(c) == pc[c] \in {"handling", "returned", "threw", "fatal", "ending"}

\* A route's transaction inserts the job; runAfter may lie ahead.
Enqueue(j) ==
    /\ state[j] = "none"
    /\ state' = [state EXCEPT ![j] = "queued"]
    /\ \E d \in BOOLEAN : due' = [due EXCEPT ![j] = d]
    /\ UNCHANGED <<attempts, lease, result, runner, handler>>

BecomesDue(j) ==
    /\ state[j] = "queued" /\ ~due[j]
    /\ due' = [due EXCEPT ![j] = TRUE]
    /\ UNCHANGED <<state, attempts, lease, result, runner, handler>>

\* The meeting is deleted and its jobs with it (onDelete: Cascade).
Cascade(j) ==
    /\ state[j] \notin {"none", "gone"}
    /\ state' = [state EXCEPT ![j] = "gone"]
    /\ lease' = [lease EXCEPT ![j] = "none"]
    /\ UNCHANGED <<attempts, due, result, runner, handler>>

LeaseLapses(j) ==
    /\ lease[j] = "live"
    /\ lease' = [lease EXCEPT ![j] = "lapsed"]
    /\ UNCHANGED <<state, attempts, due, result, runner, handler>>

-----------------------------------------------------------------------------
(* The tick loop of a process *)

\* !stopped && active.size < concurrency, for the map act.
Room(p, act) == proc[p] = "up"
                /\ Cardinality({j \in Jobs : act[j] # 0}) < Concurrency

\* A call of tick() with the map act.
Tick(p, act) ==
    \/ /\ proc[p] # "up"
       /\ UNCHANGED <<loop, again>>
    \/ /\ proc[p] = "up" /\ loop[p] # "idle"
       /\ again' = [again EXCEPT ![p] = TRUE]
       /\ UNCHANGED loop
    \/ /\ proc[p] = "up" /\ loop[p] = "idle"
       /\ loop' = [loop EXCEPT ![p] = IF Room(p, act) THEN "sweep" ELSE "idle"]
       /\ UNCHANGED again

\* The inner loop was left by `break`: once more if a tick was asked for.
LeaveLoop(p) ==
    /\ loop' = [loop EXCEPT ![p] =
                   IF again[p] /\ Room(p, active[p]) THEN "sweep" ELSE "idle"]
    /\ again' = [again EXCEPT ![p] = FALSE]

\* The idle poll, a NOTIFY, or the tick after a LISTEN reconnect.
Wake(p) ==
    /\ proc[p] = "up"
    /\ Tick(p, active[p])
    /\ UNCHANGED <<row, result, proc, got, active, waits, handler>>

\* Faulty variant: the comparison is strict.
ExhaustedStrictly == {j \in Jobs : /\ state[j] = "running" /\ lease[j] = "lapsed"
                                   /\ attempts[j] > MaxAttempts}

\* Jobs to fail: their last claim lapsed.
Exhausted == {j \in Jobs : /\ state[j] = "running" /\ lease[j] = "lapsed"
                           /\ attempts[j] >= MaxAttempts}

\* claimOne, first statement.
Sweep(p) ==
    /\ loop[p] = "sweep"
    /\ state' = [j \in Jobs |-> IF j \in Exhausted THEN "failed" ELSE state[j]]
    /\ lease' = [j \in Jobs |-> IF j \in Exhausted THEN "none" ELSE lease[j]]
    /\ loop' = [loop EXCEPT ![p] = "claim"]
    /\ UNCHANGED <<attempts, due, result, proc, again, got, active, waits, handler>>

Claimable(j) ==
    \/ state[j] = "queued" /\ due[j]
    \/ state[j] = "running" /\ lease[j] = "lapsed" /\ attempts[j] < MaxAttempts

\* Faulty variant: claiming a lapsed job does not count as an attempt.
TakeUncounted(j) ==
    /\ Claimable(j)
    /\ state' = [state EXCEPT ![j] = "running"]
    /\ attempts' = [attempts EXCEPT ![j] = IF state[j] = "queued" THEN @ + 1 ELSE @]
    /\ lease' = [lease EXCEPT ![j] = "live"]

\* The row update of claimOne's second statement.
Take(j) ==
    /\ Claimable(j)
    /\ state' = [state EXCEPT ![j] = "running"]
    /\ attempts' = [attempts EXCEPT ![j] = @ + 1]
    /\ lease' = [lease EXCEPT ![j] = "live"]

ClaimJob(p, j) ==
    /\ loop[p] = "claim"
    /\ Take(j)
    /\ got' = [got EXCEPT ![p] = <<j, attempts[j] + 1>>]
    /\ loop' = [loop EXCEPT ![p] = "launch"]
    /\ UNCHANGED <<due, result, proc, again, active, waits, handler>>

\* The statement committed but its answer did not arrive: nobody runs the claim.
ClaimAnswerLost(p, j) ==
    /\ loop[p] = "claim"
    /\ Take(j)
    /\ LeaveLoop(p)
    /\ UNCHANGED <<due, result, proc, got, active, waits, handler>>

\* Nothing due, every due row locked, or a statement failed.
ClaimNothing(p) ==
    /\ loop[p] \in {"sweep", "claim"}
    /\ LeaveLoop(p)
    /\ UNCHANGED <<row, result, proc, got, active, waits, handler>>

\* launch(row): the entry of the same job, if there is one, is overwritten.
Launch(p) ==
    /\ loop[p] = "launch"
    /\ LET c == got[p]
           act == [active[p] EXCEPT ![c[1]] = c[2]]
       IN  /\ active' = [active EXCEPT ![p] = act]
           /\ pc' = [pc EXCEPT ![c] = "handling"]
           /\ owner' = [owner EXCEPT ![c] = p]
           /\ beat' = [beat EXCEPT ![c] = "on"]
           /\ loop' = [loop EXCEPT ![p] = IF Room(p, act) THEN "sweep" ELSE "idle"]
           /\ again' = [again EXCEPT ![p] = again[p] /\ Room(p, act)]
    /\ got' = [got EXCEPT ![p] = NoClaim]
    /\ UNCHANGED <<row, result, proc, waits>>

-----------------------------------------------------------------------------
(* The handler of one claim *)

\* Faulty variant: a heartbeat that touched no row is ignored.
HeartbeatIgnored(c) ==
    /\ Live(c) /\ beat[c] = "on"
    /\ Mine(c)
    /\ lease' = [lease EXCEPT ![c[1]] = "live"]
    /\ UNCHANGED <<state, attempts, due, result, runner, handler>>

Heartbeat(c) ==
    /\ Live(c) /\ beat[c] = "on"
    /\ \/ /\ Mine(c)
          /\ lease' = [lease EXCEPT ![c[1]] = "live"]
          /\ UNCHANGED beat
       \/ /\ ~Mine(c)
          /\ beat' = [beat EXCEPT ![c] = "lost"]
          /\ UNCHANGED lease
    /\ UNCHANGED <<state, attempts, due, result, runner, pc, owner>>

\* ctx.commit: the row is locked and re-checked in the handler's transaction.
\* A stale claim is told so and nothing is written.
Commit(c) ==
    /\ pc[c] = "handling"
    /\ Mine(c)
    /\ result' = [result EXCEPT ![c[1]] = c[2]]
    /\ UNCHANGED <<row, runner, handler>>

\* The handler resolves, or throws an error worth a retry, or a permanent one.
HandlerEnds(c) ==
    /\ pc[c] = "handling"
    /\ \E how \in {"returned", "threw", "fatal"} : pc' = [pc EXCEPT ![c] = how]
    /\ UNCHANGED <<row, result, runner, owner, beat>>

\* The row update that follows: done, failed, or queued again with a backoff
\* (due matters only then).
Outcome(c) ==
    CASE pc[c] = "returned" -> "done"
      [] pc[c] = "fatal" \/ c[2] >= MaxAttempts -> "failed"
      [] OTHER -> "queued"

Settle(c) ==
    /\ pc[c] \in {"returned", "threw", "fatal"}
    /\ \/ /\ Mine(c)
          /\ state' = [state EXCEPT ![c[1]] = Outcome(c)]
          /\ lease' = [lease EXCEPT ![c[1]] = "none"]
          /\ due' = [due EXCEPT ![c[1]] = FALSE]
       \/ /\ ~Mine(c)
          /\ UNCHANGED <<state, lease, due>>
    /\ pc' = [pc EXCEPT ![c] = "ending"]
    /\ UNCHANGED <<attempts, result, runner, owner, beat>>

\* The statement fails: a lost `done` is settled as a failure, a lost failure
\* is left to the lease.
SettleFails(c) ==
    /\ pc[c] \in {"returned", "threw", "fatal"}
    /\ pc' = [pc EXCEPT ![c] = IF pc[c] = "returned" THEN "threw" ELSE "ending"]
    /\ UNCHANGED <<row, result, runner, owner, beat>>

\* The finally block: active.delete(row.id), whatever entry is there, and a tick.
End(c) ==
    /\ pc[c] = "ending"
    /\ pc' = [pc EXCEPT ![c] = "over"]
    /\ owner' = [owner EXCEPT ![c] = NoProc]
    /\ beat' = [beat EXCEPT ![c] = "off"]
    /\ LET p == owner[c]
           act == [active[p] EXCEPT ![c[1]] = 0]
       IN  active' = [active EXCEPT ![p] = act] /\ Tick(p, act)
    /\ UNCHANGED <<row, result, proc, got, waits>>

-----------------------------------------------------------------------------
(* A process: start, stop() on SIGTERM, exit and crash *)

\* startWorker: a fresh runner, with an empty map, and its first tick.
Start(p) ==
    /\ proc[p] = "down"
    /\ proc' = [proc EXCEPT ![p] = "up"]
    /\ active' = [active EXCEPT ![p] = [j \in Jobs |-> 0]]
    /\ loop' = [loop EXCEPT ![p] = "sweep"]
    /\ UNCHANGED <<row, result, again, got, waits, handler>>

\* stop(): no more claims; then the LISTEN connection is closed.
Stop(p) ==
    /\ proc[p] = "up"
    /\ proc' = [proc EXCEPT ![p] = "closing"]
    /\ UNCHANGED <<row, result, loop, again, got, active, waits, handler>>

\* [...active.values()]: what stop() waits for.
Drain(p) ==
    /\ proc[p] = "closing"
    /\ proc' = [proc EXCEPT ![p] = "draining"]
    /\ waits' = [waits EXCEPT ![p] = {c \in Claims : active[p][c[1]] = c[2]}]
    /\ UNCHANGED <<row, result, loop, again, got, active, handler>>

Drained(p) ==
    /\ proc[p] = "draining"
    /\ \A c \in waits[p] : ~Live(c)
    /\ proc' = [proc EXCEPT ![p] = "stopped"]
    /\ waits' = [waits EXCEPT ![p] = {}]
    /\ UNCHANGED <<row, result, loop, again, got, active, handler>>

\* The grace period is over: heartbeats stop, the signals are aborted.
DrainTimesOut(p) ==
    /\ proc[p] = "draining"
    /\ \E c \in waits[p] : Live(c)
    /\ proc' = [proc EXCEPT ![p] = "stopped"]
    /\ waits' = [waits EXCEPT ![p] = {}]
    /\ beat' = [c \in Claims |-> IF active[p][c[1]] = c[2] THEN "off" ELSE beat[c]]
    /\ UNCHANGED <<row, result, loop, again, got, active, pc, owner>>

\* The process is gone, and with it every handler it ran.
Gone(p) ==
    /\ proc' = [proc EXCEPT ![p] = "down"]
    /\ loop' = [loop EXCEPT ![p] = "idle"]
    /\ again' = [again EXCEPT ![p] = FALSE]
    /\ got' = [got EXCEPT ![p] = NoClaim]
    /\ active' = [active EXCEPT ![p] = [j \in Jobs |-> 0]]
    /\ waits' = [waits EXCEPT ![p] = {}]
    /\ pc' = [c \in Claims |-> IF owner[c] = p THEN "over" ELSE pc[c]]
    /\ owner' = [c \in Claims |-> IF owner[c] = p THEN NoProc ELSE owner[c]]
    /\ beat' = [c \in Claims |-> IF owner[c] = p THEN "off" ELSE beat[c]]
    /\ UNCHANGED <<row, result>>

Exit(p) == proc[p] = "stopped" /\ Gone(p)

Crash(p) == proc[p] # "down" /\ Gone(p)

-----------------------------------------------------------------------------
RowStep == \E j \in Jobs : \/ Enqueue(j) \/ BecomesDue(j)
                           \/ LeaseLapses(j) \/ Cascade(j)

ClaimOne(p) == \/ Sweep(p) \/ ClaimNothing(p)
               \/ \E j \in Jobs : ClaimJob(p, j) \/ ClaimAnswerLost(p, j)

LoopStep == \E p \in Procs : Wake(p) \/ ClaimOne(p) \/ Launch(p)

HandlerStep == \E c \in Claims :
                  \/ Heartbeat(c) \/ Commit(c) \/ HandlerEnds(c)
                  \/ Settle(c) \/ SettleFails(c) \/ End(c)

ProcStep == \E p \in Procs :
               \/ Start(p) \/ Stop(p) \/ Drain(p) \/ Drained(p)
               \/ DrainTimesOut(p) \/ Exit(p) \/ Crash(p)

Next == RowStep \/ LoopStep \/ HandlerStep \/ ProcStep

Spec == Init /\ [][Next]_vars

\* Timers fire and statements return; the platform restarts a process that is
\* gone; and the database is not down, nor the process killed, at every single
\* claim or settlement.  A handler ends (every call it makes has a timeout),
\* but one that lost its claim may hang until its signal is aborted.
Fairness ==
    /\ \A p \in Procs :
          /\ WF_vars(Start(p)) /\ WF_vars(Wake(p))
          /\ WF_vars(ClaimOne(p)) /\ WF_vars(Launch(p))
          /\ WF_vars(Drain(p)) /\ WF_vars(Drained(p) \/ DrainTimesOut(p))
          /\ WF_vars(Exit(p))
          /\ SF_vars(Sweep(p)) /\ SF_vars(\E j \in Jobs : ClaimJob(p, j))
    /\ \A c \in Claims :
          /\ WF_vars((Mine(c) \/ beat[c] # "on") /\ HandlerEnds(c)) /\ WF_vars(Heartbeat(c)) /\ WF_vars(End(c))
          /\ WF_vars(Settle(c) \/ SettleFails(c))
    /\ \A j \in Jobs : WF_vars(BecomesDue(j)) /\ WF_vars(LeaseLapses(j))

FairSpec == Spec /\ Fairness

-----------------------------------------------------------------------------
(* Properties *)

\* Nobody but the current claim's own handler settles a job: a job that is
\* done, or queued for a retry, has no handler of its latest claim still at
\* work, although handlers of older claims may be running anywhere
\* (runner.ts:29-34, the compare-and-set of every write).
OutcomeIsOwn ==
    \A j \in Jobs : state[j] \in {"queued", "done"} /\ attempts[j] # 0
                       => pc[<<j, attempts[j]>>] \in {"ending", "over"}

\* One claim, one invocation: the row a loop is about to launch belongs to a
\* claim no handler was ever started for, and no other loop holds it, also
\* when two processes claim at once or one takes over the other's lapsed job.
LaunchedOnce ==
    \A p \in Procs : got[p] # NoClaim =>
        /\ pc[got[p]] = "idle"
        /\ \A q \in Procs \ {p} : got[q] # got[p]

\* Every claim a handler was started for, or is about to be, is one the row
\* counted, so that a fresh claim is newer than all of them: with the two
\* properties above, what no step of any process can undo.
RowsCountClaims ==
    /\ \A c \in Claims : pc[c] # "idle" => c[2] <= attempts[c[1]]
    /\ \A p \in Procs : got[p] # NoClaim => got[p][2] <= attempts[got[p][1]]
    /\ \A p \in Procs : loop[p] = "launch" => got[p] # NoClaim
    /\ \A c \in Claims : Live(c) <=> owner[c] \in Procs
    /\ \A j \in Jobs : /\ state[j] = "none" => attempts[j] = 0
                       /\ state[j] = "running" => attempts[j] > 0
                       /\ state[j] = "queued" => attempts[j] < MaxAttempts
                       /\ result[j] <= attempts[j]

IInv == TypeOK /\ OutcomeIsOwn /\ LaunchedOnce /\ RowsCountClaims

\* The `active` map never holds more than `concurrency` jobs, however ticks,
\* wake-ups and endings interleave with the claims under way (runner.ts:238-249).
ActiveWithinLimit ==
    \A p \in Procs : Cardinality({j \in Jobs : active[p][j] # 0}) <= Concurrency

\* A result that was committed is never replaced by that of an older claim,
\* and a job that is over accepts no more results (ctx.commit, runner.ts:83-88).
ResultsInClaimOrder ==
    [][\A j \in Jobs : result'[j] # result[j]
          => result'[j] > result[j] /\ state[j] = "running"]_vars

\* The runner implements the promise the handlers are written against.
Promise == INSTANCE JobClaims WITH
    Jobs <- Jobs, MaxAttempts <- MaxAttempts, state <- state, attempts <- attempts, result <- result
PromiseSpec == Promise!Spec

\* Every job that was enqueued ends, done or failed or deleted, through crashes, stalled
\* handlers, lost answers and shutdowns.
EveryJobEnds == \A j \in Jobs : state[j] = "queued" ~> state[j] \in {"done", "failed", "gone"}

\* A handler that hangs while its claim goes to somebody else, or while its job
\* is failed over its head, has its signal aborted (runner.ts:268-278).
LostClaimAborts ==
    \A c \in Claims : pc[c] = "handling" /\ ~Mine(c) ~> pc[c] # "handling" \/ beat[c] # "on"

=============================================================================
