# Operai: TLA+ specifications

Operai is a set of services behind one shell: `auth`, `estimai-api`, `notify-api`, `refund-api`,
`inventory-api`, `crm-api` and `meetings-api`, each with its own PostgreSQL database, and their
user interfaces. Most of the routes are CRUD over rows that one guarded SQL statement protects.
Three services hold more than that. `meetings-api` records a meeting in the browser, prepares
and transcribes the audio in durable background jobs, summarises it with a language model, answers
questions about it and tells host applications of it. `refund-api` decides what an employee is
paid, in batches. `inventory-api` keeps the fiscal years of each entity's assets, who holds them
and their invoices. This directory specifies those parts, checks them with TLC and proves with
TLAPS what holds for instances of every size.

    tlasany M.tla
    tlc -workers 2 -config X.cfg MCM.tla
    tlapm M_proofs.tla

## 1. Inventory

For each component: its state, its operations, what it interacts with, what is hard about it, and
what makes it correct. "Modelled in" names the module.

### meetings-api

**Job runner** (`jobs/runner.ts`, `jobs/handlers/index.ts`): modelled in `JobRunner`.
State: rows of `meeting_job` (state, attempts, leaseUntil, runAfter); per process the tick loop,
the `active` map, the handlers and their heartbeats. Operations: enqueue inside a route's
transaction, tick, the two statements of a claim, launch, heartbeat, `ctx.commit`, settlement,
`start()`, `stop()`, process exit. Hard: processes die or stall between any two statements, a lease
lapses under a running handler, a claim's answer is lost, ticks, wake-ups and endings interleave in
one process. Correct when only the claim that is current commits or settles, and every job ends.

**Processing of a recording** (`prepareAudio.ts`, `transcribe.ts`, `retry.routes.ts`,
`audio.routes.ts`, `meetings/delete.routes.ts`): modelled in `Processing`, but for the refusal of an
uploaded file. State: the meeting row (status, audioKey, audioDeletedAt), the job rows, the objects
in the bucket. Operations: the steps of the two handlers, a retry, the deletion of the audio, the
deletion of the meeting. Hard: bucket and database cannot be changed together, several attempts of
one job may run at once, requests act while handlers hold what they read, a commit's answer may be
lost. Correct when a retry always finds sources, late attempts do not move the meeting, it does not
wait for ever, and deletion is complete.

**Browser recording** (`capture/recording.routes.ts`, `meetings/derived.ts`): modelled in
`Recording`. State: the meeting's status, its sessions, its chunk rows, the chunks in the bucket,
the upload policies that are still open. Operations: start, chunk confirm, re-mint, heartbeat, stop,
process, discard. Hard: several tabs, a check before the transaction that changes, uploads that
bypass the service and outlive their session, a decision read before a lock. Correct when status and
sessions agree (but for one case the code allows, section 4), chunks of two recordings do not mix, and a recording is handed over exactly once.

**Meeting core, consent, pasted text** (`meetings/core.routes.ts`, `consent.routes.ts`,
`capture/text.routes.ts`): the source, the attestation and the text are in `Recording`, since capture
races them, title, start and host link in `HostNotices`; participants and visibility are not modelled.

**Summaries** (`summaries.routes.ts`, `jobs/handlers/summarize.ts`): modelled in `Summaries`. State:
one row per summary with an attempt id, its job, the transcript's version. Operations: start, retry,
edit, delete, the job's reading, asking and writing, edits of the transcript. Hard: late results, a
retry racing a late success, a transcript that changes while it is read, the limit per meeting.
Correct when a superseded attempt writes nothing, the label of a summary never claims newer
segments than it read, the limit holds and no summary generates for ever.

**Conversation and AI allowance** (`conversation.routes.ts`, `ai/rateLimit.ts`): modelled in
`Conversation`. State: the turns, the slots of the rolling hour, the user's advisory lock. Operations:
ask, retry, clear, count and commit, the model's answer. Hard: the answer comes long after the
transaction, a retry takes over a turn whose first call still runs, the clock is read before the
lock is had. Correct when the allowance is kept and an answered turn stays answered.

**Host notices** (`hosts/notices.ts`; the receiving side is `crm-api`'s `meeting-host`): modelled in
`HostNotices`. State: an outbox row per notice with a sequence number per meeting, a retry job for
removals, the attempts under way, and the host's deals, highest number and activity. Operations:
link, retitle, delete, attempt, outcome, try again, the host's reconcile. Hard: an attempt is answered
after its sender gave up, later notices overtake earlier ones, a process dies between commit and
attempt, the host no longer has the deal a notice is about. Correct when a deleted meeting stays away
from the host and a removal always ends.

**Uploads** (`capture/upload.routes.ts`), **media** (`media/ffmpegSlot.ts`), **transcript** (parsing a
provider's answer, single-statement edits) and **erase** (a loop over the deletion `Processing`
models): not modelled, see section 6.

### refund-api

**Requests, lines and their review** (`requests/*.repo.ts`, `lines`, `decide.repo.ts`) and **batches**
(`batches/*`): modelled together in `Refunds`. State: the requests' status, their lines with what was
asked and granted, the mileage rate, batches, their items and the `batchId` each request points at,
the stored document. Operations: the edits of a draft, submission, withdrawal, review, compilation,
payment, discard, the rendering of a document. Hard: a submission freezes rates it read before its
transaction, compilations lock the same rows, a document is stored after its batch was discarded.
Correct when a request is in one live batch at most, a batch is paid whole, what was approved is
what is paid and what the document says. Rates, settings, receipts and e-mail are not modelled.

### inventory-api

**Fiscal years and depreciation** (`fiscal-years`, `depreciation`, the dated writes of `assets` and
`rules`, `legacy-import`): modelled in `FiscalYears` on the arithmetic of `Depreciation`. State: what
the books say of an asset, the rules, the last closed year, the stored figures, the entity's advisory
lock. Operations: register, dated edits, dispose, add a rule, import, the two halves of a close. Hard:
a close and a writer that each saw the year open, rounding, a schedule that starts from a sheet's
figure, years chained on a stored closing. Correct when a closed year never changes, what is
stored is what the books give, and an asset is written down to its residual exactly.

**Assets, assignments and invoices** (`assets`, `me`, `invoices`): modelled in `Assets`. State: an
asset's status, holder, reference and file, its offers, the invoice files and objects, confirmations
under way. Operations: the transitions, offer, answer, cancel, dispose, edit of a reference, mint,
upload, confirm, link. Hard: an answer races a transition, a browser posts again while a
confirmation has already looked. Correct when nobody holds what they did not accept and a linked
file is one that was checked.

### The other services

| service | state and operations | hard part | status |
|---|---|---|---|
| `auth` | users, roles, departments, invitations; audited transactions | the last-administrator guard counts and then removes, in concurrent transactions | not modelled |
| `estimai-api` | estimates with a version and collaborators | optimistic concurrency | one guarded statement, not modelled |
| `crm-api` | companies, deals, offers, activities | version compare-and-set per row | its meeting host in `HostNotices`, the rest not modelled |
| `notify-api` | notifications, an in-process event bus, one-time tickets | single-threaded, no replay | not modelled |
| `shell`, `*-ui`, `operai-ui` | browser code | layout, and calls to the services | not modelled |
| `tools`, `infra`, `scripts` | build and deployment scripts | | not modelled |

## 2. Plan

Done: `JobClaims` and `JobRunner`; `Processing` and `Recording`; `HostNotices`; `RefundLedger` and
`Refunds`; `Summaries`, composed with `JobClaims`; `Depreciation` and `FiscalYears`; `Assets`;
`Conversation` with the allowance.

Left, in the order in which it would add most:

1. `Upload`: mint, confirm and refusal, with the `prepare_audio` steps that read an upload.
2. A composition of `Recording` with `Processing`, so that what discard removes is what the job
   reads, over one status machine of a meeting that both implement.
3. `Administrators` (auth) and the small `FfmpegSlot`.

## 3. Modules

| module | what it is |
|---|---|
| `JobClaims` | what the runner promises: rows, claims counted by `attempts`, commits by the current claim only |
| `JobRunner` | `runner.ts` in detail: rows, loops, handlers, heartbeats, shutdown and crashes; implements `JobClaims` |
| `Processing` | the two handlers and the requests around them, on the row transitions of `JobClaims` |
| `Recording` | the recording routes and the edits they race |
| `Summaries` | the summary routes and the `summarize` job, on the row transitions of `JobClaims` |
| `Conversation` | one user's questions, retries and summaries, and the allowance they share |
| `HostNotices` | the outbox of one meeting, its attempts and retry jobs, and `crm-api` as the host |
| `RefundLedger` | what `refund-api` promises: amounts decided once, paid once |
| `Refunds` | requests, lines, review and batches; implements `RefundLedger` |
| `Depreciation` | pure: schedules and figures of one asset |
| `FiscalYears` | the dated writes of one entity, the close and the legacy import, on `Depreciation` |
| `Assets` | transitions, offers and invoice files |
| `X_proofs` | the theorems about `X`; `Meeting_proofs` has those about `Conversation` and `Recording`, whose names differ so that one module can extend both |
| `MCX` | the instances TLC runs |

Definitions whose comment begins "Faulty variant" are not part of a specification. Each is a
plausible mistake in the definition that follows it, kept to show that the properties notice it.

**Granularity.** A SQL statement or transaction, a bucket call, or the code between two awaits is one
step. PostgreSQL runs at READ COMMITTED: a read outside the transaction that acts on it is a step of
its own, a compare-and-set (`updateMany` with the expected status) is atomic with what it guards. A
transaction that takes a lock first and reads under it is one step where nothing it reads can
change without that lock, and two or three where something can, or where the lock itself is the
point (`Compile`, `BeginStart`, `Count`, `Begin`). A transaction that reads before it locks is split
at its reads (`ProcessReads`, `ProcessLooks`, `ProcessUnlocked`, `ProcessCounts`, `ProcessFlips`).
Time is not modelled, except in `Conversation`: a lease, a policy, a timeout or a silence of two
minutes may end at any moment.

**JobRunner.** `state, attempts, lease, due` are the columns of the row; `result` remembers the claim
whose `ctx.commit` applied last. `loop` is where `tick()` stands: before the `lease_expired` UPDATE
(`sweep`), before the claiming UPDATE (`claim`), or with its answer in hand (`launch`). `again` is the
flag `tick` sets when it finds itself busy, `active` the map by job id, `pc` and `beat` the handler and
the heartbeat of one claim, `proc` the stages of `stop()`. Each action of `Next` is one statement or
one synchronous stretch, `Settle` including the `finally` that leads to the next tick. A crash stops a
process and its handlers at once; what they had committed stays.

**Processing.** The handlers are read as sequences of steps, `pc[c]` naming the next. A claim is
followed by `read`; `prepare_audio` goes on to `fetch`, `put`, `commit`, `clean` (or `undo` when its
commit was refused), `transcribe` to `stage`, `fetch`, `write`. `StepFails`, `FetchRejects` and
`MarkFailed` are the error paths: inside the `try` a transient error is thrown to the runner until the
last attempt, which fails the meeting; an aborted handler rethrows; outside it the error reaches the
runner whatever the attempt. `Faults` names what may go wrong: `"process"` (a process dies or is shut
down), `"storage"`, `"database"` (a call fails, or succeeds and its answer is lost). With `Faults`
empty a lease may still lapse and a fetch or a provider may still fail.
`cut` collects the jobs the runner failed over the head of their handler. `AtOnce` is a bound of the
model and not of the code: handlers at work at one time, stale ones included.

**Recording.** `session` holds one value per row of `recording_session`; `chunk[q]` the session of the
row of chunk `q`; `object[q]` the session whose audio the bucket holds under that key; `policy` the open
uploads. `req` is what a request knows between its steps. The upload key does not
name the session, so `Upload` of an old policy replaces the object of a new recording.
POST process reads the status (`ProcessReads`) and the latest session (`ProcessLooks`) without a lock.
If that session is still open the route locks its row, and what follows is one step (`ProcessLocked`);
if it has ended or is gone the lock finds nothing, the route decides "interrupted" from the status it
read, counts the chunks and hands the meeting over without ending any session (`ProcessUnlocked`,
`ProcessCounts`, `ProcessFlips`). A discard, a start and a confirm fit in between, and then a
`processing` meeting has a live session; the properties name that case and no other.

**Summaries.** Every attempt has a job of its own, so a job stands for the `attemptId` too. `req` is
what a start read under the meeting's advisory lock (`lock`), or what a retry read of its row outside
any transaction. `loadTranscript` is three steps and at most `Readings` rounds; `read` holds what they
saw, `torn` the summaries whose job gave up on a transcript that kept moving. `written` records by
which job and from which transcript a text is, `label` the version the row shows. `Faults` is a
database error outside the handler's `try`, `cut` the jobs that met one, or lapsed, in their last
attempt. A summary that generates may be read as failed at any moment (its time is up). A handler
whose process died simply takes no further step.

**Conversation.** A request goes `new`, `begin` (its transaction opens and reads the clock),
`waiting` (for the advisory lock), `insert` (it counted and has the lock), `asking` (it committed;
the model is at work), `done` or `dead`. `ledger` is `ai_request`, which commits prune; `admitted` is
the same without pruning. `from` is the status a retry read and its answer is compared with. No
transaction is open for longer than `Patience` (the 10 s of its timeout); `Tick` respects it.

**HostNotices.** `notice`, `row`, `job` are the outbox and the retry jobs by sequence number, `pc`,
`at` and `todo` a sender: a request with its awaited attempts, or the handler of a retry job. A
message whose sender gave up or died is in `late` and may be applied at any time, or never. A
`linked` or `changed` notice waits for "Try again" when it fails, an `unlinked` or `deleted` one has
its job. `lastSeq` and `activity` are `MeetingHostState` and the activity in `crm-api`. The host may
lose the deals in `Mortal` (`Forget`), with the activity it shows there; `known` are those it has.
`entity_not_found` (`HostMisses`) is final. A removal so answered leaves the outbox with its job, for
there is nothing left to remove (`notices.ts:188-194`, `Settled`), although the host applied nothing; a
manual notice so answered fails. The contract lets a host answer so to any notice, and
`notices.test.ts:286` has one that does to a removal; `crm-api` answers so to `linked` alone.
`Decided(s)` is therefore that the host applied notice `s` or a later one, or that it has neither the
deal nor an activity of it.

**Refunds.** A line holds what was asked, what was granted and the rate applied. `sending` is what a
submission read of lines and rates before its transaction; the transaction writes them line by line
and rolls back when one is gone. `held` are the rows a compilation has locked FOR UPDATE, `drawn`
what a rendering read, `pdf` what it stored. `items` never change; `claim` is `batchId`. The cutoff
and the caller's entities are any non-empty set of eligible requests. `owed` and `paid`, defined from
the status and the lines, are the variables of `RefundLedger`.

**Depreciation and FiscalYears.** Amounts are whole cents, dates numbers with two to a year. `seen[p]`
is the boundary transaction `p` read under the entity's lock; every dated write is `Begin` and one
more step, a close two (`ComputeClose`, `StoreClose`). `OpenYearFigure` is the chain of
`rollForward.ts` from the stored closing of the last closed year, `YearFigure` the computation from
nothing. A schedule is the sequence of its entries, as in `schedule.ts`, and `Spread` and `BookEnd`
are its two loops. The RangeErrors there are left out: they refuse years its callers never ask for.

**Assets.** An asset write is one step, under the asset's row lock. A confirmation is three: the row
is read, the object is looked at, and what was found is stored or discarded, the object before its row.
Until its policy expires the browser may post any content to the key at any time. `etag` is what the
row says was found.

## 4. Runs

Passing runs:

| run | instance | states | what it shows |
|---|---|---|---|
| `runner_claims` | 1 job, 2 processes, 2 attempts, 1 slot each | 232k | only the current claim settles (`OutcomeIsOwn`), a claim is launched once whichever process made it (`LaunchedOnce`), results commit in claim order, the runner implements `JobClaims` (`PromiseSpec`), a hanging handler that lost its claim is aborted, every enqueued job ends |
| `processing_faults` | 2 + 2 jobs, 2 attempts, 2 handlers at once, one deletion of the meeting, every fault | 3.1M | sources outlive failures; ready, failed, retried and deleted meetings move in order (`StatusOrder`) |
| `processing_ends` | 2 + 2 jobs, 1 attempt, one deletion of the meeting, one of the audio | 478k | nothing remains of a deleted meeting; processing ends, and no meeting is stuck unless a job was cut or its audio deleted |
| `recording_races` | 2 sessions, 2 chunks, 2 requests | 934k | sessions, status, chunks and jobs agree but for the session a stale processing leaves open (`RowsAgree`); recordings do not mix; processing is frozen but for that session |
| `host_notices` | 2 deals of which the host may lose 1, 1 request, 3 notices, 1 new title | 405k | a deleted meeting stays away, no title is left or goes back, a removal is decided and always ends |
| `refunds` | 2 requests with 2 and 1 lines, 2 batches, 1 rate | 1.9M | one live batch per request, paid whole, documents that tell it; implements `RefundLedger` |
| `summaries` | 2 rows of which 1 may stand, 2 jobs of 2 attempts, 3 claims, 2 requests, 1 edit | 2.6M | the limit, no late writer, no hidden edit, nothing generates for ever |
| `fiscal_years` | 2 assets, 3 years, 2 transactions, 2 rules, one sheet | 669k | closed years are frozen, stored figures are the computed ones, chained years reconcile, written down exactly |
| `assets` | 2 assets, 2 offers, 1 file, 2 users, 2 references, 2 confirmations | 893k | offers are of assets in stock, holders agreed, links match, what is stored was checked, answers are final |
| `conversation` | 4 requests, 2 slots, window 3, patience 1, clock to 3 | 1.8M | the allowance, every turn paid for and asked, turns only go forward |

**Bounds, and why they are enough.** A stale claim needs two attempts, two claimants of a row need two
processes. A process that claims its own lapsed job again needs a second slot, which the code has; with
two slots the run does not end in reasonable time, so that case is proved and not run.
A retry needs a second job of its kind; two attempts of two jobs give a stale handler beside a current
one, of the same job or of the one that was retried. `processing_faults` has at most two handlers at
work at once (`AtOnce`), whichever they are; `processing_ends` up to all four, but with one attempt
and no faults, so it does not cover a handler that is run again after a crash. Deleting the audio is
in `processing_ends` and not in `processing_faults`. One deal the host may lose and one it keeps show
both answers. Mixing two recordings needs two sessions and a
policy of the first; `q + 1` needs two chunks; a race needs two requests.
Three notices are what it takes to link, unlink or relink, and delete, and for one to overtake two
others; the retry jobs are senders of their own, so one request already races them.
Two compilations need two batches and two requests, a line lost between read and flip a request with
two lines. A limit is overrun by the second of two starts; a retry races with two jobs, of which one
may be claimed twice. The `Readings` of the code are three: two show a torn reading as well.
A chain across a close needs three years, a shared purchase two assets, a change of terms two rules.
With a limit of two, three requests overrun the allowance, and the fourth prunes or retries.
The theorems below cover all other sizes. `MaxSeq`, `MaxTitle`, `MaxRate`, `MaxClaims`, `MaxEdits`,
`MaxYear`, `MaxRules` and `MaxClock` cap what could grow without end; all other constants are the sizes
of sets or parameters of the code.

`CHECK_DEADLOCK FALSE` appears for every module but the runner, since a meeting that is over, an
entity whose calendar ends or a clock at its bound leaves nothing to do. Symmetry is used in runs that
check no liveness, over sets whose members differ by name only. `processing_faults` also has a VIEW
that leaves out what no action and neither of its two properties can tell apart: `result` and `cut`,
which record what happened, how a job ended and after how many claims, and whether the handler of a
claim is over or was never launched, which `attempts` tells of every job that has not ended.

**Fairness.** `runner_claims` (`JobRunner`'s `FairSpec`) assumes weak fairness of what timers and
the event loop do by themselves: the idle poll, the statements of a tick, the launch, the heartbeat,
the settlement, leases that lapse when nobody heartbeats, and the restart of a process
that is down (the platform restarts it); and strong fairness of the sweep and of
a claim that takes some job: the database does not fail, nor the process die, at every single one.
A handler ends while its claim is current, or once its signal was aborted; one that lost its claim and
was not aborted may hang for ever, so `LostClaimAborts` is owed to the heartbeat alone. Nothing says
that an answer arrives or that a process stays up. The idle poll claims what a lost wake-up left, so
`EveryJobEnds` says nothing about wake-ups. `processing_ends`
(`Processing`'s `FairSpec`) assumes what `runner_claims` shows of the runner, that a due job is
claimed and a lapsed last claim expires, and that handlers and requests move on; nobody is obliged
to retry or delete. `host_notices` assumes that the runner claims the retry job (whose attempts
`notices.ts` leaves effectively unlimited), that a timeout fires, and, strongly, that a host that is
asked again and again answers once, with what it did or that it has no such deal, and that the outcome
of such an answer is written once. The other runs check safety only, under no fairness.

The runs that end in a counterexample, each a statement of the repository the code does not keep:

| run | statement | what happens |
|---|---|---|
| `processing_audio_lost` | `prepareAudio.ts:122` a stale attempt never deletes what it never owned | an attempt whose commit is refused deletes `audio.ogg`, which has the same key as the one its successor put on record |
| `recording_late_chunk` | `recording.routes.ts:431` "Lock the session (if it is still open) so a late chunk or beat cannot slip past the decision" | a process request reads the status and the latest session; a discard, a new start and a confirm commit; the session it would lock is gone, so it locks nothing and hands the meeting over with the new session live, and a confirm of that session adds a chunk row while the job runs |

**Observed while modelling, without a run of its own.**

In `meetings-api`, jobs, processing and recording:

- The `active` map is keyed by job: a runner that re-claims its own lapsed job overwrites the stalled
  handler's entry, and the first of the two to end deletes the other's, so more handlers may run than
  `concurrency` (`runner.ts:314`, against "at most 2 jobs at a time" at line 14).
- `stop()` takes its snapshot of the running jobs while a claim may be in flight, so a handler can be
  launched after it and cut off by the exit (`runner.ts:417`, against the comment at line 18).
- DELETE audio reads the status before it calls the bucket and not again: a retry in between sets
  `processing`, the deletion takes the files and `audioKey`, `transcribe` finds no audio and returns
  without a verdict, and the meeting stays `processing` with no job, where a retry answers
  `not_failed` (`audio.routes.ts:124`, against "never pull the files from under them" at line 123;
  `StuckForAReason` names it as one of its two reasons).
- When the lease of the last attempt lapses the runner fails the job and the meeting stays
  `processing`; retry answers `not_failed` (`runner.ts:207`, against `transcribe.ts:22`).
- `transcribe` commits the failure of a meeting before its job is settled. If the process dies in
  between and the creator retries, the old job runs again and may end the new run
  (`transcribe.ts:18` says a result after a retry writes nothing).
- `deletePrefix` removes objects batch by batch and throws when some are refused, so a deletion that
  answers 503 may have removed others (`storage.ts:320`; `delete.routes.ts:15` says nothing has been
  deleted).
- `start` compares only the status in its transaction; a change of the source in between removes the
  attestation, so a meeting may record without one (`recording.routes.ts:214`, against AC-2.1).
- A late upload of a discarded recording takes the key of a chunk of the next
  (`recording.routes.ts:256`, against line 462: a fresh recording starts from nothing).
- Discard removes the objects before it compares the status, so a stop in between leaves a
  `processing` meeting whose chunks are gone (`DiscardSweep` then `Stop`).
- The text route does not take the meeting's lock: the source may change between its read and its
  write, and a meeting ends `ready` with a text and another source (`text.routes.ts:73`).

Host notices, conversation:

- A meeting is linked to d1, then relinked to d2 but the `linked` notice fails, then unlinked from d2,
  which is delivered. The retry of the d1 removal is then older than what the host applied, is ignored
  and counted as delivered, and d1 keeps its activity (`notices.ts:17, 31`).
- An undelivered `linked` notice is superseded by a `changed` one, which creates no activity.
- A process that dies between the commit and the awaited attempt leaves a manual notice `pending`,
  which "Try again" does not pick up (it asks for `failed`).
- The allowance holds in every window shorter by the time a transaction may stay open: a request that
  waited for the lock counts from a clock it read before, so 30 an hour may be exceeded by what falls
  into those 10 seconds (`rateLimit.ts:55`). With `Window` in place of `Window - Patience`
  `AllowanceKept` is violated.
- The answer of a retry of a turn that timed out is dropped when the first call failed meanwhile: its
  compare-and-set expects `pending`.

`refund-api` and `inventory-api`:

- `approvedTotalCents` set during a review survives a withdrawal and the line's edits, and is what an
  untouched line is granted at the next approval (`decide.repo.ts`). `RefundLedger` says only that what
  is decided stays decided.
- A submission checks that there are lines before its transaction: lines other than mileage that are
  deleted in between leave a submitted request with none, and mileage lines added in between are
  submitted at the amount they were written with.
- Two confirmations of one invoice file: the first finds a good object, the browser posts again, the
  second finds a bad one; the first stores the row and the second deletes the object without
  comparing, so a stored file has no object (`invoices.routes.ts:80`, against `invoices.repo.ts:76`).

## 5. Proofs

All proofs are for arbitrary constants under the assumptions named in the modules: numeric bounds are
naturals, `MaxAttempts`, `Concurrency`, `AtOnce` and `Limit` positive, `Patience` below `Window`, `Jobs`,
`Summaries`, `Assets` and the `Requests` of `Conversation` finite, sentinel values not members of the
sets they stand outside of, `Declared` a subset of `Contents`, and requests not numbers where numbers
name retry jobs. `FiscalYears` assumes of a rule what the request schema requires (a life of at least
one year, a residual that is no debt: `rules.schemas.ts:44`) and of a sheet what `plan.ts` and
`parse.ts` accept (`plan.ts:170` and 383, `parse.ts:109`: a figure for every year from the purchase to
the last one stated, each opening with what the one before closed, no negative value, and cessions in a
later year). Each module ends with its inductive invariant `IInv` (`RowsAgree` in `Recording`, `StoredInv`
above `IInv` in `FiscalYears`);
`Inductive` or the lemmas before it show that every action keeps it. One theorem has a hypothesis of its
own: `ErasedForGood` is for `Faults = {}`, the setting of the run that checks its property.

**JobRunner.** `OutcomeIsOwn` is not inductive by itself: that a job which is done has no live handler
of its latest claim needs the claim a loop is about to launch to be fresh (`LaunchedOnce`), and that
needs every claim anywhere, running, over or in the hand of a loop, to be counted by its row
(`RowsCountClaims`). From the conjunction follow `TypeCorrect`, `OutcomesAreOwn`, `LaunchedOnceOnly`,
`ResultsOrdered` (a commit is by the current claim, whose number is at least that of every earlier one)
and `Refinement`: every step maps to a step of `JobClaims` or leaves its variables alone.
`ActiveLimited` has an invariant of its own about the loops and the cardinality of the map.

**Processing.** `SourcesKept` rests on `CleanupOwns`: an attempt that is about to delete sources saw the
audio on record, and only a deletion takes that back. `StatusInOrder` follows from the compare-and-set
of every write and from the fact that the job enqueued last has a row, so that a retry's is another one.
`StuckForAReason` needs to know whose verdict a meeting waits for: the audio on record is for the job
enqueued last (`KeyIsForTheLatest`), a claim that holds that job does not come to the end of its handler
before the meeting has left `processing` (`VerdictFirst`), and a claim that was not made has no handler
(`LaunchedIsCounted`); hence `LatestIsPending`. The proof is how the deletion of the audio under a job
was found (section 4): `VerdictFirst` fails there, and all of these name it as a reason.
`NothingRemains` is proved for `Faults = {}` with `WillBeSwept`: an object of a deleted meeting is about
to be removed, by the second sweep or by a handler whose commit is going to be refused. With faults it
does not hold: a sweep that fails leaves objects, and the code logs it.

**Recording.** `RowsAgree` says that the open session and the status agree, that only one session
survives discards, that chunk rows belong to it, and that the number of jobs follows the status. Every
confirm re-reads the session under its row's lock, so it writes for the surviving session only; every
other write compares the status. A meeting that is processing may have an open session only if
another was discarded before it, since a processing that ends none acts on a session that had ended or
was gone (`ProcessSaw`). `ProcessingFrozen` follows: the source and the status stand, and the chunks
do unless such a session is open.

**Conversation.** `AllowanceKept` speaks of every window the clock has passed, while the code counts one
window, at the moment of a commit. `IInv` adds what makes the two meet: the clock a transaction read is
at most `Patience` old when it commits (`TimesAreRecent`); a slot is pruned only once it is older than
`Window` (`SlotsAreKept`), so whatever a later window still sees is in the ledger; and the room a
request counted under the lock is there until it commits, because nobody else commits meanwhile
(`RoomIsHeld`). Every window that contains the new slot is then contained in what was counted and the
slot itself. `PaidAndAsked` and `OnlyForward` need that a turn belongs to the request that asked it and
that a retry's turn is the one it read (`TurnsAreKnown`).

**Summaries.** That the limit holds needs the holder of the lock to have room still (`LockIsHeld`), so
that a retry, which takes the same lock, may be ignored. `WrittenByItsAttempt` and `ReadyIsFinal` need
every attempt of a summary to name a job with a row (`JobsAreKnown`), since a fresh job can then not be
an old attempt. `StaleIsShown` follows from what a handler has read at each of its steps
(`ReadingsAreOrdered`): versions never decrease, so equal versions around the segments mean the segments
were of that version. `GeneratingIsAtWork` needs that a handler which returned with its claim left
nobody waiting (`ClaimsAreMade`).

**HostNotices.** `DeletedForGood` rests on the numbering: the deletion is the last notice there is
(`NumberedOnce`), so once it was applied everything that is still in flight is older (`SentWasWritten`).
`DeliveriesAreDecided` needs an answer to be evidence, that the host got as far or that it has lost the
deal (`AnswersAreDecided`), and that a deal it has lost has no activity (`ActivityIsOfAKnownDeal`);
`TitlesGoForward` that titles grow with the numbers and that what the host shows is no newer than what
it has yet to hear (`TitlesInOrder`); `RemovalsAreRetried` that a sender named like a notice is the
handler of its job (`JobsAtWork`).

**Refunds.** `ClaimedOnce` and `AllOrNothing` need the rows an open compilation holds to be eligible
still and held by no other (`HeldAreEligible`). `PdfIsRight` needs that a rendering under way has read
what its batch pays (`DrawnTellsTheBatch`) and that members were approved, after which no line of theirs
changes (`MembersAreDecided`). `Implements` maps an approval to `Decide`, a payment to `Pay`, and every
other step to a stutter; `ApprovedInFull` makes the bill of an approved request complete.

**FiscalYears.** `ClosedYearsAreFrozen` needs one transaction at a time past the lock, with the boundary
it read still standing (`LockIsHeld`): its date is then in an open year, and a figure of a closed year
does not depend on it: an asset bought later has none, a rule that starts later is not in force for an
asset bought in a closed year, and a disposal in an open year leaves the years before it alone.

`NoDrift`, `Reconciles` and `WrittenDown` say what the loops over a schedule come to, so they need
induction over recursive functions, which the library's theorems do not give here (they take an
operator). It is done on sets: a recursive function is the CHOOSE of a solution of its equation; a
closed form (`SpreadIsLine`: after `i` years the line, cut off at the total) is shown to be a solution;
and the least argument at which the chosen one differed (`Least`, from the well-foundedness of `<`)
would contradict the equation. From the closed form follow the facts the properties need: the value
never rises (`ValueFalls`), it lands on the residual in the last year because the line has reached the
total by then or the last year takes the rest (`Lands`), and a year opens with what the one before
closed (`Chained`). `StoredInv` then carries them through the steps. `NoDrift` is not inductive by
itself: a close writes the rows it computed a step earlier, so they must still be what the books come to
(`SheetStands`); it writes them where nothing was (`OpenYearsAreEmpty`); they are computed by chaining,
which agrees with computing from nothing only if the stored closings have not drifted and the imported
ones are complete and chained (`SheetsAreWhole`); and some rule must apply (`SomeRuleAlways`). TLC found
`StoredInv` to hold on the instance of `fiscal_years`.

**Assets.** `IInv` is the conjunction of the invariants and `VerdictsAreTrue`: a confirmation that goes
on to store found an object that is what was declared. `AnswersAreFinal` follows from the
compare-and-set of every answer and of both ends of a confirmation.

Proved and not run, since other properties of the runs tell the same mistakes: type correctness,
`ActiveWithinLimit`, `LiveWhileRecording` and `OneJob` (both in the `RowsAgree` that is run),
`RemovalHasItsJob`, `EveryLineDecided`, `ToldOnce`.

Only model-checked: the liveness properties (`EveryJobEnds`, `LostClaimAborts`, `ProcessingEnds`,
`RemovalEnds`), which are outside the prover's reach.

## 6. Not modelled, and why

*Clocks and arithmetic the properties do not tell apart.* Durations, sizes and limits on them, the 29
days after which audio expires (with the first later read, which records that expiry), the provider's
staging bucket, the backoff of a retry (the boolean `due`). Nothing in the repository removes finished
job rows. `listen`/`notify` is a wake-up that may or may not come, because the runner polls.

*Content.* Audio, transcripts, prompts, answers, templates and errors, permissions and scopes, and
announcements to users: none changes the state the properties speak of. In `Refunds` attachments,
exports, suggestions and the e-mail of a batch are left out; in `FiscalYears` the parsing of the sheet,
the totals of a statement, undated edits and the check that a rule exists; in `Assets` serial numbers,
the cap on pending uploads, entity scope and the history. `HostNotices` shows an activity by its deal and
the version of its title; `Conversation` is one user's use of one meeting.

*Components without a module.* Uploads: two keys of one meeting and a refusal that deletes and rolls
back; the confirmation of an invoice file in `Assets` has the same shape, and the rest is left for the
plan. `ffmpegSlot.ts` is one in-process queue. The last-administrator guard of `auth` is two reads
followed by two writes without a lock: its property would restate that the lock is missing. Sign-in and
sessions are a library's. `estimai-api` and `crm-api` protect a row by one guarded statement,
`notify-api` is synchronous in one process. The user interfaces hold layout and calls; what they may
send is what the request actions allow. Tools and infrastructure are scripts.

The share is small: the repository has about 158,000 lines of implementation, more than half of it
browser code, and `PROJECT.json` lists all of it by component. The modules stand for the
state-changing code of jobs, processing, recording, summaries, conversation and notices in
`meetings-api`, of requests and batches in `refund-api`, and of the books and assets in
`inventory-api`.
