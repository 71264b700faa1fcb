----------------------------- MODULE Recording -----------------------------
(***************************************************************************)
(* Browser recording of one meeting (capture/recording.routes.ts) with the *)
(* edits of the same meeting it races: its source (meetings/core.routes),  *)
(* its consent attestation and its pasted text.  The meeting row, its      *)
(* recording sessions and chunk rows are in the database, the chunks in a  *)
(* bucket the browser writes to directly, with a policy that stays open    *)
(* for five minutes whatever becomes of the session it was minted for.     *)
(*                                                                         *)
(* A transaction, a bucket call or a read outside a transaction is one     *)
(* step.  A request may die between its steps.  Several tabs or devices of *)
(* the creator act at once.  Left out: durations and the limits on them,   *)
(* the 29 days after which audio expires, and who may call.                *)
(***************************************************************************)
EXTENDS Naturals, FiniteSets

CONSTANTS Sessions, \* rows of recording_session there may ever be
          MaxSeq,   \* the highest chunk number
          Calls  \* requests under way at once

Seqs == 0..MaxSeq
NoSession == "no session"

ASSUME MaxSeqAssumption == MaxSeq \in Nat
ASSUME NoSessionAssumption == NoSession \notin Sessions

VARIABLES
    source, consent, \* the meeting: its source, and whether consent is attested
    status,          \* the meeting: "draft", "recording", "processing", "ready"
    jobs,            \* prepare_audio jobs enqueued for it
    session,         \* session -> "none" (no row yet), "live", "stopped",
                     \* "processed" (both: endedAt is set), "gone"
    silent,          \* the live session gave no sign for two minutes
    chunk,           \* seq -> the session of its row, or NoSession (no row)
    object,          \* seq -> the session whose audio the bucket holds
    policy,          \* <<session, seq>>: the uploads that are still open
    req              \* where each request stands

meeting == <<source, consent, status, jobs>>
recordingVars == <<meeting, session, silent, chunk, object, policy, req>>

Idle == <<"idle">>
Ended == {"stopped", "processed"}
NoChunks == [q \in Seqs |-> NoSession]

\* What a request knows between two of its steps.
Standings ==
    {Idle, <<"start">>, <<"sweep">>, <<"rows">>, <<"text">>,
     <<"process">>, <<"counting">>, <<"counted">>}
      \cup ({"latest"} \X (Sessions \cup {NoSession}))
      \cup ({"confirm"} \X Sessions \X Seqs)

RecordingTypeOK ==
    /\ source \in {"recorded", "uploaded", "text"}
    /\ consent \in BOOLEAN
    /\ status \in {"draft", "recording", "processing", "ready"}
    /\ jobs \in Nat
    /\ session \in [Sessions -> {"none", "live", "gone"} \cup Ended]
    /\ silent \in BOOLEAN
    /\ chunk \in [Seqs -> Sessions \cup {NoSession}]
    /\ object \in [Seqs -> Sessions \cup {NoSession}]
    /\ policy \subseteq Sessions \X Seqs
    /\ req \in [Calls -> Standings]

\* A meeting as POST /meetings creates it.
RecordingInit ==
    /\ source \in {"recorded", "uploaded", "text"}
    /\ consent = FALSE
    /\ status = "draft"
    /\ jobs = 0
    /\ session = [s \in Sessions |-> "none"]
    /\ silent = FALSE
    /\ chunk = NoChunks
    /\ object = NoChunks
    /\ policy = {}
    /\ req = [r \in Calls |-> Idle]

-----------------------------------------------------------------------------
(* Edits of the draft *)

\* POST /consent, under the meeting's lock.
Consent ==
    /\ source # "text"
    /\ consent' = TRUE
    /\ UNCHANGED <<source, status, jobs, session, silent, chunk, object, policy, req>>

\* PATCH /meetings/:id with a source, under the meeting's lock: no later than
\* the first chunk or text; a pasted text carries no attestation.
ChangeSource(new) ==
    /\ new # source
    /\ status = "draft" /\ chunk = NoChunks
    /\ source' = new
    /\ consent' = (consent /\ new # "text")
    /\ UNCHANGED <<status, jobs, session, silent, chunk, object, policy, req>>

\* PUT /text: the source is read, then the status is compared and set.
ReadText(r) ==
    /\ req[r] = Idle
    /\ source = "text"
    /\ req' = [req EXCEPT ![r] = <<"text">>]
    /\ UNCHANGED <<meeting, session, silent, chunk, object, policy>>

WriteText(r) ==
    /\ req[r] = <<"text">>
    /\ status \in {"draft", "ready"}
    /\ status' = "ready"
    /\ req' = [req EXCEPT ![r] = Idle]
    /\ UNCHANGED <<source, consent, jobs, session, silent, chunk, object, policy>>

-----------------------------------------------------------------------------
(* The chunk protocol *)

\* POST /recording/start: the facts are read outside the transaction.
StartReads(r) ==
    /\ req[r] = Idle
    /\ source = "recorded" /\ consent
    /\ status = "draft" /\ chunk = NoChunks
    /\ req' = [req EXCEPT ![r] = <<"start">>]
    /\ UNCHANGED <<meeting, session, silent, chunk, object, policy>>

\* Faulty variant: any draft or recording meeting may be taken over.
StartTakesOver(r, s) ==
    /\ req[r] = <<"start">>
    /\ status \in {"draft", "recording"} /\ session[s] = "none"
    /\ status' = "recording"
    /\ session' = [session EXCEPT ![s] = "live"]
    /\ silent' = FALSE
    /\ policy' = policy \cup {<<s, 0>>}
    /\ req' = [req EXCEPT ![r] = Idle]
    /\ UNCHANGED <<source, consent, jobs, chunk, object>>

\* Only the status is looked at again; the partial UNIQUE index allows one
\* session without endedAt.
Start(r, s) ==
    /\ req[r] = <<"start">>
    /\ status = "draft"
    /\ session[s] = "none"
    /\ \A t \in Sessions : session[t] # "live"
    /\ status' = "recording"
    /\ session' = [session EXCEPT ![s] = "live"]
    /\ silent' = FALSE
    /\ policy' = policy \cup {<<s, 0>>}
    /\ req' = [req EXCEPT ![r] = Idle]
    /\ UNCHANGED <<source, consent, jobs, chunk, object>>

\* POST /chunks/:seq/upload-url mints the policy again.
Remint(s, q) ==
    /\ session[s] = "live"
    /\ policy' = policy \cup {<<s, q>>}
    /\ UNCHANGED <<meeting, session, silent, chunk, object, req>>

PolicyExpires(p) ==
    /\ policy' = policy \ {p}
    /\ UNCHANGED <<meeting, session, silent, chunk, object, req>>

\* The browser POSTs a chunk: the key names the meeting and the seq, not the session.
Upload(p) ==
    /\ object' = [object EXCEPT ![p[2]] = p[1]]
    /\ UNCHANGED <<meeting, session, silent, chunk, policy, req>>

\* POST /chunks/:seq/confirm: the session is live and the object is there.
ConfirmReads(r, s, q) ==
    /\ req[r] = Idle
    /\ session[s] = "live"
    /\ object[q] # NoSession
    /\ req' = [req EXCEPT ![r] = <<"confirm", s, q>>]
    /\ UNCHANGED <<meeting, session, silent, chunk, object, policy>>

\* Faulty variant: the first look at the session is trusted.
ConfirmUnlocked(r, s, q) ==
    /\ req[r] = <<"confirm", s, q>>
    /\ chunk' = [chunk EXCEPT ![q] = s]
    /\ silent' = FALSE
    /\ policy' = policy \cup ({<<s, q + 1>>} \cap (Sessions \X Seqs))
    /\ req' = [req EXCEPT ![r] = Idle]
    /\ UNCHANGED <<meeting, session, object>>

\* The session's row is locked and must still be live.
Confirm(r, s, q) ==
    /\ req[r] = <<"confirm", s, q>>
    /\ session[s] = "live"
    /\ chunk' = [chunk EXCEPT ![q] = s]
    /\ silent' = FALSE
    /\ policy' = policy \cup ({<<s, q + 1>>} \cap (Sessions \X Seqs))
    /\ req' = [req EXCEPT ![r] = Idle]
    /\ UNCHANGED <<meeting, session, object>>

Heartbeat(s) ==
    /\ session[s] = "live"
    /\ silent' = FALSE
    /\ UNCHANGED <<meeting, session, chunk, object, policy, req>>

\* Two minutes without a chunk or a beat.
GoesSilent ==
    /\ \E s \in Sessions : session[s] = "live"
    /\ silent' = TRUE
    /\ UNCHANGED <<meeting, session, chunk, object, policy, req>>

-----------------------------------------------------------------------------
(* Stop, process, discard *)

\* The shared tail of stop and process: of the sessions, the one the caller
\* locked ends, if it locked one.
BeginProcessing(locked, reason) ==
    /\ status = "recording"
    /\ status' = "processing"
    /\ session' = [s \in Sessions |-> IF s \in locked THEN reason ELSE session[s]]
    /\ jobs' = jobs + 1
    /\ UNCHANGED <<source, consent, silent, chunk, object, policy>>

\* POST /recording/stop: every chunk up to the tab's last one is saved.
Stop(s, last) ==
    /\ session[s] = "live"
    /\ \A q \in 0..last : chunk[q] # NoSession
    /\ BeginProcessing({s}, "stopped")
    /\ UNCHANGED req

\* derivedStatus of a meeting read as recording: its latest session is missing,
\* over or silent.
Interrupted(s) == s \in Sessions /\ session[s] = "live" => silent

\* POST /recording/process, one transaction that reads before it locks: the status,
ProcessReads(r) ==
    /\ req[r] = Idle
    /\ status = "recording"
    /\ req' = [req EXCEPT ![r] = <<"process">>]
    /\ UNCHANGED <<meeting, session, silent, chunk, object, policy>>

\* then the latest session there is.
ProcessLooks(r, s) ==
    /\ req[r] = <<"process">>
    /\ IF s = NoSession THEN \A t \in Sessions : session[t] \in {"none", "gone"}
                        ELSE session[s] \in {"live"} \cup Ended
    /\ req' = [req EXCEPT ![r] = <<"latest", s>>]
    /\ UNCHANGED <<meeting, session, silent, chunk, object, policy>>

\* If that session is still open its row is locked, and nothing that is read
\* from here on changes before the end.
ProcessLocked(r, s) ==
    /\ req[r] = <<"latest", s>>
    /\ session[s] = "live" /\ Interrupted(s)
    /\ chunk # NoChunks
    /\ BeginProcessing({s}, "processed")
    /\ req' = [req EXCEPT ![r] = Idle]

\* Otherwise there is no lock: it is over or missing, which is an interrupted
\* recording whatever became of the meeting since.
ProcessUnlocked(r, s) ==
    /\ req[r] = <<"latest", s>>
    /\ s \in Sessions => session[s] # "live"
    /\ Interrupted(s)
    /\ req' = [req EXCEPT ![r] = <<"counting">>]
    /\ UNCHANGED <<meeting, session, silent, chunk, object, policy>>

ProcessCounts(r) ==
    /\ req[r] = <<"counting">>
    /\ chunk # NoChunks
    /\ req' = [req EXCEPT ![r] = <<"counted">>]
    /\ UNCHANGED <<meeting, session, silent, chunk, object, policy>>

ProcessFlips(r) ==
    /\ req[r] = <<"counted">>
    /\ BeginProcessing({}, "processed")
    /\ req' = [req EXCEPT ![r] = Idle]

\* POST /recording/discard: the status is read, the objects go, then the rows.
DiscardReads(r) ==
    /\ req[r] = Idle
    /\ status = "recording"
    /\ req' = [req EXCEPT ![r] = <<"sweep">>]
    /\ UNCHANGED <<meeting, session, silent, chunk, object, policy>>

\* deletePrefix; when the bucket refuses some objects the request is over.
DiscardSweep(r) ==
    /\ req[r] = <<"sweep">>
    /\ \E kept \in SUBSET Seqs :
          /\ object' = [q \in Seqs |-> IF q \in kept THEN object[q] ELSE NoSession]
          /\ req' = [req EXCEPT ![r] = IF kept = {} THEN <<"rows">> ELSE Idle]
    /\ UNCHANGED <<meeting, session, silent, chunk, policy>>

\* The meeting is a draft again and its sessions go with their chunk rows.
Discard(r) ==
    /\ req[r] = <<"rows">>
    /\ status = "recording"
    /\ status' = "draft"
    /\ session' = [s \in Sessions |-> IF session[s] = "none" THEN "none" ELSE "gone"]
    /\ chunk' = NoChunks
    /\ req' = [req EXCEPT ![r] = Idle]
    /\ UNCHANGED <<source, consent, jobs, silent, object, policy>>

\* A transaction that finds the state moved on is refused; a call fails, or
\* the process dies.  Nothing is undone.
RequestEnds(r) ==
    /\ req[r] # Idle
    /\ req' = [req EXCEPT ![r] = Idle]
    /\ UNCHANGED <<meeting, session, silent, chunk, object, policy>>

-----------------------------------------------------------------------------
RequestStep(r) ==
    \/ ReadText(r) \/ WriteText(r) \/ StartReads(r)
    \/ \E s \in Sessions : Start(r, s)
    \/ \E s \in Sessions, q \in Seqs : ConfirmReads(r, s, q) \/ Confirm(r, s, q)
    \/ ProcessReads(r) \/ ProcessCounts(r) \/ ProcessFlips(r)
    \/ \E s \in Sessions \cup {NoSession} : ProcessLooks(r, s) \/ ProcessUnlocked(r, s)
    \/ \E s \in Sessions : ProcessLocked(r, s)
    \/ DiscardReads(r) \/ DiscardSweep(r) \/ Discard(r) \/ RequestEnds(r)

RecordingNext ==
    \/ Consent \/ GoesSilent
    \/ \E new \in {"recorded", "uploaded", "text"} : ChangeSource(new)
    \/ \E s \in Sessions : Heartbeat(s) \/ \E q \in Seqs : Remint(s, q) \/ Stop(s, q)
    \/ \E p \in policy : PolicyExpires(p) \/ Upload(p)
    \/ \E r \in Calls : RequestStep(r)

RecordingSpec == RecordingInit /\ [][RecordingNext]_recordingVars

-----------------------------------------------------------------------------
(* Properties *)

\* The live session and the status agree although they are two rows: a meeting
\* that is recording has exactly one session open, and one that is not has none,
\* whatever starts, stops and discards race (recording.routes.ts:213-219,
\* 378-395, 459-465).  The one exception is the code's: a processing whose
\* decision is older than a discard and a new start leaves that session open.
LiveWhileRecording ==
    /\ status = "recording" => \E s \in Sessions : session[s] = "live"
    /\ \A s \in Sessions : session[s] = "live" =>
          \/ status = "recording"
          \/ status = "processing" /\ \E t \in Sessions : session[t] = "gone"
    /\ \A s, t \in Sessions : session[s] = "live" /\ session[t] = "live" => s = t

\* What is saved is one recording: all chunk rows belong to one session that
\* was not discarded, and a draft holds none; a chunk confirmed late does not
\* leak into the recording that follows (recording.routes.ts:65-75, 459-465).
OneRecording ==
    /\ \A q \in Seqs : chunk[q] # NoSession => session[chunk[q]] \in {"live"} \cup Ended
    /\ \A q, k \in Seqs : NoSession \notin {chunk[q], chunk[k]} => chunk[q] = chunk[k]
    /\ status \in {"draft", "ready"} => chunk = NoChunks

\* Stops, repeated stops, and the processing of an interrupted recording
\* enqueue one job between them, in the transaction that changes the status
\* (recording.routes.ts:371-376).
OneJob == jobs = IF status = "processing" THEN 1 ELSE 0

\* Sessions that ended belong to the meeting that is processing, whose job has
\* chunks to read, and only one session survived discards.
SessionsEnd ==
    /\ \A s \in Sessions : session[s] \in Ended => status = "processing" /\ chunk # NoChunks
    /\ \A s, t \in Sessions :
          session[s] \in {"live"} \cup Ended /\ session[t] \in {"live"} \cup Ended => s = t

\* What a processing under way has seen: a recording had a session, which it
\* found, or found over or discarded.
ProcessSaw ==
    \A r \in Calls :
       /\ req[r] = <<"process">> => \E s \in Sessions : session[s] # "none"
       /\ \A s \in Sessions : req[r] = <<"latest", s>> => session[s] # "none"
       /\ req[r] \in {<<"latest", NoSession>>, <<"counting">>, <<"counted">>} =>
             \E s \in Sessions : session[s] \in {"gone"} \cup Ended

RowsAgree == RecordingTypeOK /\ LiveWhileRecording /\ OneRecording /\ OneJob /\ SessionsEnd /\ ProcessSaw

\* Once processing began, no late confirm, stop, process or discard, however
\* long ago it read the status, changes what the job is about to read: the
\* source by which it looks for the chunks, and the chunks of a recording whose
\* session ended (recording.routes.ts:65-75, 382, 460, core.routes.ts:199-208,
\* prepareAudio.ts:204).
ProcessingIsFrozen ==
    [][status = "processing" =>
          /\ status' = "processing" /\ source' = source
          /\ chunk' = chunk \/ \E s \in Sessions : session[s] = "live"]_recordingVars

\* What the comment in the process route promises, "so a late chunk or beat
\* cannot slip past the decision" (recording.routes.ts:431): no chunk is added
\* to a meeting that is processing.  The code does not keep it.
NoLateChunk == [][status = "processing" => chunk' = chunk]_recordingVars

=============================================================================
