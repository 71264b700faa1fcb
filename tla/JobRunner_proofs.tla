-------------------------- MODULE JobRunner_proofs --------------------------
(***************************************************************************)
(* Proofs about JobRunner, for any number of jobs and processes, any       *)
(* attempt ceiling and any concurrency.                                    *)
(***************************************************************************)
EXTENDS JobRunner, FiniteSetTheorems, TLAPS

JobStates == {"none", "queued", "running", "done", "failed", "gone"}

-----------------------------------------------------------------------------
(* Type correctness *)

LEMMA TypeInit == Init => TypeOK
  BY MaxAttemptsAssumption DEF Init, TypeOK, Claims

LEMMA TypeRow == TypeOK /\ RowStep => TypeOK'
  <1> SUFFICES ASSUME TypeOK, NEW j \in Jobs,
                      Enqueue(j) \/ BecomesDue(j) \/ LeaseLapses(j) \/ Cascade(j)
               PROVE  TypeOK'
    BY DEF RowStep
  <1>1. CASE Enqueue(j)
    BY <1>1 DEF Enqueue, TypeOK, runner, handler
  <1>2. CASE BecomesDue(j)
    BY <1>2 DEF BecomesDue, TypeOK, runner, handler
  <1>3. CASE LeaseLapses(j)
    BY <1>3 DEF LeaseLapses, TypeOK, runner, handler
  <1>4. CASE Cascade(j)
    BY <1>4 DEF Cascade, TypeOK, runner, handler
  <1> QED BY <1>1, <1>2, <1>3, <1>4

LEMMA TypeLoop == IInv /\ LoopStep => TypeOK'
  <1> SUFFICES ASSUME IInv, NEW p \in Procs, Wake(p) \/ ClaimOne(p) \/ Launch(p)
               PROVE  TypeOK'
    BY DEF LoopStep
  <1> USE DEF IInv
  <1>1. CASE Wake(p)
    BY <1>1 DEF Wake, Tick, TypeOK, row, handler
  <1>2. CASE Sweep(p)
    BY <1>2 DEF Sweep, TypeOK, handler
  <1>3. CASE ClaimNothing(p)
    BY <1>3 DEF ClaimNothing, LeaveLoop, TypeOK, row, handler
  <1>4. ASSUME NEW j \in Jobs, Take(j)
        PROVE  /\ attempts[j] + 1 \in 1..MaxAttempts
               /\ state' \in [Jobs -> JobStates]
               /\ attempts' \in [Jobs -> 0..MaxAttempts]
               /\ lease' \in [Jobs -> {"none", "live", "lapsed"}]
    BY <1>4, MaxAttemptsAssumption DEF Take, Claimable, TypeOK, RowsCountClaims, JobStates
  <1>5. ASSUME NEW j \in Jobs, ClaimJob(p, j) PROVE TypeOK'
    BY <1>5, <1>4 DEF ClaimJob, TypeOK, handler, Claims, JobStates
  <1>6. ASSUME NEW j \in Jobs, ClaimAnswerLost(p, j) PROVE TypeOK'
    BY <1>6, <1>4 DEF ClaimAnswerLost, LeaveLoop, TypeOK, handler, JobStates
  <1>7. CASE Launch(p)
    <2>1. PICK j \in Jobs, a \in 1..MaxAttempts : got[p] = <<j, a>>
      <3>1. got[p] \in Claims
        BY <1>7 DEF Launch, TypeOK, RowsCountClaims
      <3> QED BY <3>1 DEF Claims
    <2>2. /\ active' \in [Procs -> [Jobs -> 0..MaxAttempts]]
          /\ got' \in [Procs -> Claims \cup {NoClaim}]
      BY <1>7, <2>1 DEF Launch, TypeOK
    <2>3. loop' \in [Procs -> {"idle", "sweep", "claim", "launch"}]
      BY <1>7 DEF Launch, TypeOK
    <2>4. again' \in [Procs -> BOOLEAN]
      BY <1>7 DEF Launch, TypeOK, Room
    <2>5. /\ pc' \in [Claims -> {"idle", "handling", "returned", "threw", "fatal",
                                 "ending", "over"}]
          /\ owner' \in [Claims -> Procs \cup {NoProc}]
          /\ beat' \in [Claims -> {"on", "lost", "off"}]
      BY <1>7 DEF Launch, TypeOK
    <2> QED BY <1>7, <2>2, <2>3, <2>4, <2>5 DEF Launch, TypeOK, row
  <1> QED BY <1>1, <1>2, <1>3, <1>5, <1>6, <1>7 DEF ClaimOne

LEMMA TypeHandler == TypeOK /\ HandlerStep => TypeOK'
  <1> SUFFICES ASSUME TypeOK, NEW c \in Claims,
                      \/ Heartbeat(c) \/ Commit(c) \/ HandlerEnds(c)
                      \/ Settle(c) \/ SettleFails(c) \/ End(c)
               PROVE  TypeOK'
    BY DEF HandlerStep
  <1>1. PICK j \in Jobs, a \in 1..MaxAttempts : c = <<j, a>>
    BY DEF Claims
  <1>2. CASE Heartbeat(c)
    BY <1>1, <1>2 DEF Heartbeat, TypeOK, runner
  <1>3. CASE Commit(c)
    BY <1>1, <1>3 DEF Commit, TypeOK, row, runner, handler
  <1>4. CASE HandlerEnds(c)
    BY <1>4 DEF HandlerEnds, TypeOK, row, runner
  <1>5. CASE Settle(c)
    <2>1. Outcome(c) \in {"done", "failed", "queued"}
      BY DEF Outcome
    <2>2. /\ state' \in [Jobs -> JobStates]
          /\ lease' \in [Jobs -> {"none", "live", "lapsed"}]
          /\ due' \in [Jobs -> BOOLEAN]
      <3>1. CASE Mine(c)
        <4>1. /\ state' = [state EXCEPT ![j] = Outcome(c)]
              /\ lease' = [lease EXCEPT ![j] = "none"]
              /\ due' = [due EXCEPT ![j] = FALSE]
          BY <1>1, <1>5, <3>1 DEF Settle
        <4> QED BY <2>1, <4>1 DEF TypeOK, JobStates
      <3>2. CASE ~Mine(c)
        BY <1>5, <3>2 DEF Settle, TypeOK, JobStates
      <3> QED BY <3>1, <3>2
    <2>3. pc' \in [Claims -> {"idle", "handling", "returned", "threw", "fatal",
                              "ending", "over"}]
      BY <1>5 DEF Settle, TypeOK
    <2> QED BY <1>5, <2>2, <2>3 DEF Settle, TypeOK, runner, JobStates
  <1>6. CASE SettleFails(c)
    <2>1. pc' \in [Claims -> {"idle", "handling", "returned", "threw", "fatal",
                              "ending", "over"}]
      BY <1>6 DEF SettleFails, TypeOK
    <2> QED BY <1>6, <2>1 DEF SettleFails, TypeOK, row, runner
  <1>7. CASE End(c)
    <2>1. PICK p \in Procs \cup {NoProc} : p = owner[c]
      BY DEF TypeOK
    <2>2. /\ active' = [active EXCEPT ![p] = [active[p] EXCEPT ![j] = 0]]
          /\ Tick(p, [active[p] EXCEPT ![j] = 0])
      BY <1>1, <1>7, <2>1 DEF End
    <2>3. active' \in [Procs -> [Jobs -> 0..MaxAttempts]]
      <3>1. CASE p \in Procs
        <4>1. [active[p] EXCEPT ![j] = 0] \in [Jobs -> 0..MaxAttempts]
          BY <3>1, MaxAttemptsAssumption DEF TypeOK
        <4> QED BY <2>2, <3>1, <4>1 DEF TypeOK
      <3>2. CASE p \notin Procs
        BY <2>2, <3>2 DEF TypeOK
      <3> QED BY <3>1, <3>2
    <2>4. /\ loop' \in [Procs -> {"idle", "sweep", "claim", "launch"}]
          /\ again' \in [Procs -> BOOLEAN]
      BY <2>2 DEF Tick, TypeOK
    <2>5. /\ pc' \in [Claims -> {"idle", "handling", "returned", "threw", "fatal",
                                 "ending", "over"}]
          /\ owner' \in [Claims -> Procs \cup {NoProc}]
          /\ beat' \in [Claims -> {"on", "lost", "off"}]
      BY <1>7 DEF End, TypeOK
    <2> QED BY <1>7, <2>3, <2>4, <2>5 DEF End, TypeOK, row
  <1> QED BY <1>2, <1>3, <1>4, <1>5, <1>6, <1>7

LEMMA TypeProc == TypeOK /\ ProcStep => TypeOK'
  <1> SUFFICES ASSUME TypeOK, NEW p \in Procs,
                      \/ Start(p) \/ Stop(p) \/ Drain(p) \/ Drained(p)
                      \/ DrainTimesOut(p) \/ Exit(p) \/ Crash(p)
               PROVE  TypeOK'
    BY DEF ProcStep
  <1>1. CASE Start(p)
    BY <1>1, MaxAttemptsAssumption DEF Start, TypeOK, row, handler
  <1>2. CASE Stop(p)
    BY <1>2 DEF Stop, TypeOK, row, handler
  <1>3. CASE Drain(p)
    <2>1. waits' \in [Procs -> SUBSET Claims]
      BY <1>3 DEF Drain, TypeOK
    <2> QED BY <1>3, <2>1 DEF Drain, TypeOK, row, handler
  <1>4. CASE Drained(p)
    BY <1>4 DEF Drained, TypeOK, row, handler
  <1>5. CASE DrainTimesOut(p)
    BY <1>5 DEF DrainTimesOut, TypeOK, row
  <1>6. CASE Gone(p)
    <2>1. /\ pc' \in [Claims -> {"idle", "handling", "returned", "threw", "fatal",
                                 "ending", "over"}]
          /\ owner' \in [Claims -> Procs \cup {NoProc}]
          /\ beat' \in [Claims -> {"on", "lost", "off"}]
      BY <1>6 DEF Gone, TypeOK
    <2>2. active' \in [Procs -> [Jobs -> 0..MaxAttempts]]
      BY <1>6, MaxAttemptsAssumption DEF Gone, TypeOK
    <2> QED BY <1>6, <2>1, <2>2 DEF Gone, TypeOK, row
  <1> QED BY <1>1, <1>2, <1>3, <1>4, <1>5, <1>6 DEF Exit, Crash

-----------------------------------------------------------------------------
(* The inductive invariant *)

\* What an action leaves alone when it can disturb none of the three parts.
Frame == /\ UNCHANGED <<state, attempts, result, got, pc, owner>>
         /\ \A p \in Procs : loop'[p] = "launch" => loop[p] = "launch"

LEMMA FrameKeeps == IInv /\ Frame => (OutcomeIsOwn /\ LaunchedOnce /\ RowsCountClaims)'
  <1> SUFFICES ASSUME IInv, Frame
               PROVE  (OutcomeIsOwn /\ LaunchedOnce /\ RowsCountClaims)'
    OBVIOUS
  <1> USE DEF IInv, Frame
  <1>1. OutcomeIsOwn'
    BY DEF OutcomeIsOwn
  <1>2. LaunchedOnce'
    BY DEF LaunchedOnce
  <1>3. RowsCountClaims'
    BY DEF RowsCountClaims, Live
  <1> QED BY <1>1, <1>2, <1>3

LEMMA InitIInv == Init => IInv
  <1> SUFFICES ASSUME Init PROVE IInv
    OBVIOUS
  <1>1. OutcomeIsOwn
    BY DEF Init, OutcomeIsOwn
  <1>2. LaunchedOnce
    BY DEF Init, LaunchedOnce
  <1>3. RowsCountClaims
    BY NoProcAssumption, MaxAttemptsAssumption DEF Init, RowsCountClaims, Live, NoClaim
  <1> QED BY TypeInit, <1>1, <1>2, <1>3 DEF IInv

LEMMA RowKeeps == IInv /\ RowStep => (OutcomeIsOwn /\ LaunchedOnce /\ RowsCountClaims)'
  <1> SUFFICES ASSUME IInv, NEW j \in Jobs,
                      Enqueue(j) \/ BecomesDue(j) \/ LeaseLapses(j) \/ Cascade(j)
               PROVE  (OutcomeIsOwn /\ LaunchedOnce /\ RowsCountClaims)'
    BY DEF RowStep
  <1> USE DEF IInv
  <1>1. CASE Enqueue(j)
    <2>1. OutcomeIsOwn'
      BY <1>1 DEF Enqueue, OutcomeIsOwn, RowsCountClaims, TypeOK, handler
    <2>2. LaunchedOnce'
      BY <1>1 DEF Enqueue, LaunchedOnce, runner, handler
    <2>3. RowsCountClaims'
      BY <1>1, MaxAttemptsAssumption
      DEF Enqueue, RowsCountClaims, Live, TypeOK, runner, handler
    <2> QED BY <2>1, <2>2, <2>3
  <1>2. CASE BecomesDue(j)
    BY <1>2, FrameKeeps DEF BecomesDue, Frame, runner, handler
  <1>3. CASE LeaseLapses(j)
    BY <1>3, FrameKeeps DEF LeaseLapses, Frame, runner, handler
  <1>4. CASE Cascade(j)
    <2>1. OutcomeIsOwn'
      BY <1>4 DEF Cascade, OutcomeIsOwn, TypeOK, handler
    <2>2. LaunchedOnce'
      BY <1>4 DEF Cascade, LaunchedOnce, runner, handler
    <2>3. RowsCountClaims'
      BY <1>4 DEF Cascade, RowsCountClaims, Live, TypeOK, runner, handler
    <2> QED BY <2>1, <2>2, <2>3
  <1> QED BY <1>1, <1>2, <1>3, <1>4

\* A claim is newer than every claim a handler was started for.
LEMMA TakeKeeps ==
  ASSUME IInv, NEW j \in Jobs, Take(j), UNCHANGED <<result, pc, owner>>
  PROVE  /\ OutcomeIsOwn'
         /\ \A c \in Claims : pc[c] # "idle" => c[2] <= attempts'[c[1]]
         /\ pc[<<j, attempts[j] + 1>>] = "idle"
         /\ \A p \in Procs : got[p] # NoClaim =>
               got[p][2] <= attempts'[got[p][1]] /\ got[p] # <<j, attempts[j] + 1>>
         /\ \A c \in Claims : Live(c)' <=> owner'[c] \in Procs
         /\ \A k \in Jobs : /\ state'[k] = "none" => attempts'[k] = 0
                            /\ state'[k] = "running" => attempts'[k] > 0
                            /\ state'[k] = "queued" => attempts'[k] < MaxAttempts
                            /\ result'[k] <= attempts'[k]
  <1> USE DEF IInv
  <1>1. /\ attempts' \in [Jobs -> Nat]
        /\ attempts'[j] = attempts[j] + 1
        /\ \A k \in Jobs \ {j} : attempts'[k] = attempts[k] /\ state'[k] = state[k]
        /\ state'[j] = "running"
        /\ attempts[j] \in 0..MaxAttempts /\ attempts[j] + 1 \in 1..MaxAttempts
    BY MaxAttemptsAssumption DEF Take, Claimable, TypeOK, RowsCountClaims
  <1>2. OutcomeIsOwn'
    BY <1>1 DEF OutcomeIsOwn
  <1>3. \A c \in Claims : c[1] \in Jobs /\ c[2] \in 1..MaxAttempts
    BY DEF Claims
  <1>4. \A c \in Claims : pc[c] # "idle" => c[2] <= attempts'[c[1]]
    <2> SUFFICES ASSUME NEW c \in Claims, pc[c] # "idle"
                 PROVE  c[2] <= attempts'[c[1]]
      OBVIOUS
    <2>1. c[2] <= attempts[c[1]]
      BY DEF RowsCountClaims
    <2>2. c[1] \in Jobs /\ c[2] \in Nat /\ attempts[c[1]] \in Nat
      BY <1>3, MaxAttemptsAssumption DEF TypeOK
    <2>3. CASE c[1] = j
      BY <1>1, <2>1, <2>2, <2>3
    <2>4. CASE c[1] # j
      BY <1>1, <2>1, <2>2, <2>4
    <2> QED BY <2>3, <2>4
  <1>5. <<j, attempts[j] + 1>> \in Claims
    BY <1>1 DEF Claims
  <1>6. pc[<<j, attempts[j] + 1>>] = "idle"
    BY <1>1, <1>5 DEF RowsCountClaims
  <1>7. ASSUME NEW p \in Procs, got[p] # NoClaim
        PROVE  got[p][2] <= attempts'[got[p][1]] /\ got[p] # <<j, attempts[j] + 1>>
    <2>1. got[p] \in Claims /\ got[p][2] <= attempts[got[p][1]]
      BY <1>7 DEF TypeOK, RowsCountClaims
    <2> QED BY <1>1, <1>3, <2>1, MaxAttemptsAssumption DEF TypeOK
  <1>8. \A c \in Claims : Live(c)' <=> owner'[c] \in Procs
    BY DEF RowsCountClaims, Live
  <1>9. \A k \in Jobs : /\ state'[k] = "none" => attempts'[k] = 0
                        /\ state'[k] = "running" => attempts'[k] > 0
                        /\ state'[k] = "queued" => attempts'[k] < MaxAttempts
                        /\ result'[k] <= attempts'[k]
    BY <1>1, MaxAttemptsAssumption DEF RowsCountClaims, TypeOK
  <1> QED BY <1>2, <1>4, <1>6, <1>7, <1>8, <1>9

LEMMA LoopKeeps == IInv /\ LoopStep => (OutcomeIsOwn /\ LaunchedOnce /\ RowsCountClaims)'
  <1> SUFFICES ASSUME IInv, NEW p \in Procs, Wake(p) \/ ClaimOne(p) \/ Launch(p)
               PROVE  (OutcomeIsOwn /\ LaunchedOnce /\ RowsCountClaims)'
    BY DEF LoopStep
  <1> USE DEF IInv
  <1>1. CASE Wake(p)
    BY <1>1, FrameKeeps DEF Wake, Tick, Frame, TypeOK, row, handler
  <1>2. CASE Sweep(p)
    <2>1. OutcomeIsOwn'
      BY <1>2 DEF Sweep, OutcomeIsOwn, handler
    <2>2. LaunchedOnce'
      BY <1>2 DEF Sweep, LaunchedOnce, handler
    <2>3. RowsCountClaims'
      BY <1>2 DEF Sweep, RowsCountClaims, Live, TypeOK, handler
    <2> QED BY <2>1, <2>2, <2>3
  <1>3. CASE ClaimNothing(p)
    BY <1>3, FrameKeeps DEF ClaimNothing, LeaveLoop, Frame, TypeOK, row, handler
  <1>4. ASSUME NEW j \in Jobs, ClaimJob(p, j)
        PROVE  (OutcomeIsOwn /\ LaunchedOnce /\ RowsCountClaims)'
    <2> DEFINE c == <<j, attempts[j] + 1>>
    <2>1. /\ Take(j) /\ UNCHANGED <<result, pc, owner>>
          /\ got' = [got EXCEPT ![p] = c]
          /\ loop' = [loop EXCEPT ![p] = "launch"]
      BY <1>4 DEF ClaimJob, handler
    <2>2. c[1] = j /\ c[2] = attempts'[j] /\ c # NoClaim
      BY <2>1 DEF Take, TypeOK, NoClaim
    <2>3. LaunchedOnce'
      <3>1. \A q \in Procs : got'[q] = IF q = p THEN c ELSE got[q]
        BY <2>1 DEF TypeOK
      <3>2. pc[c] = "idle" /\ \A q \in Procs : got[q] # NoClaim => got[q] # c
        BY <2>1, TakeKeeps
      <3> HIDE DEF c
      <3> QED BY <2>1, <3>1, <3>2 DEF LaunchedOnce
    <2>4. \A q \in Procs : got'[q] # NoClaim => got'[q][2] <= attempts'[got'[q][1]]
      <3>1. c[2] <= attempts'[c[1]]
        BY <2>1, <2>2, MaxAttemptsAssumption DEF Take, TypeOK
      <3> QED BY <2>1, <3>1, TakeKeeps DEF TypeOK
    <2>5. \A q \in Procs : loop'[q] = "launch" => got'[q] # NoClaim
      BY <2>1, <2>2 DEF RowsCountClaims, TypeOK
    <2> QED BY <2>1, <2>3, <2>4, <2>5, TakeKeeps DEF RowsCountClaims
  <1>5. ASSUME NEW j \in Jobs, ClaimAnswerLost(p, j)
        PROVE  (OutcomeIsOwn /\ LaunchedOnce /\ RowsCountClaims)'
    <2>1. /\ Take(j) /\ UNCHANGED <<result, pc, owner, got>>
          /\ \A q \in Procs : loop'[q] = "launch" => loop[q] = "launch"
      BY <1>5 DEF ClaimAnswerLost, LeaveLoop, TypeOK, handler
    <2>2. LaunchedOnce'
      BY <2>1 DEF LaunchedOnce
    <2> QED BY <2>1, <2>2, TakeKeeps DEF RowsCountClaims
  <1>6. CASE Launch(p)
    <2> DEFINE c == got[p]
    <2>1. c \in Claims /\ c # NoClaim /\ pc[c] = "idle" /\ c[2] <= attempts[c[1]]
      BY <1>6 DEF Launch, TypeOK, RowsCountClaims, LaunchedOnce
    <2>2. /\ UNCHANGED <<state, attempts, result>>
          /\ pc' = [pc EXCEPT ![c] = "handling"]
          /\ owner' = [owner EXCEPT ![c] = p]
          /\ got' = [got EXCEPT ![p] = NoClaim]
          /\ \A q \in Procs : loop'[q] = "launch" => q # p /\ loop[q] = "launch"
      BY <1>6 DEF Launch, TypeOK, row
    <2> HIDE DEF c
    <2>3. \A j \in Jobs : attempts[j] # 0 => <<j, attempts[j]>> \in Claims
      BY MaxAttemptsAssumption DEF TypeOK, Claims
    <2>4. OutcomeIsOwn'
      BY <2>1, <2>2, <2>3 DEF OutcomeIsOwn, TypeOK
    <2>5. LaunchedOnce'
      BY <2>1, <2>2 DEF LaunchedOnce, TypeOK, c
    <2>6. RowsCountClaims'
      BY <2>1, <2>2 DEF RowsCountClaims, Live, TypeOK
    <2> QED BY <2>4, <2>5, <2>6
  <1> QED BY <1>1, <1>2, <1>3, <1>4, <1>5, <1>6 DEF ClaimOne

LEMMA HandlerKeeps == IInv /\ HandlerStep => (OutcomeIsOwn /\ LaunchedOnce /\ RowsCountClaims)'
  <1> SUFFICES ASSUME IInv, NEW c \in Claims,
                      \/ Heartbeat(c) \/ Commit(c) \/ HandlerEnds(c)
                      \/ Settle(c) \/ SettleFails(c) \/ End(c)
               PROVE  (OutcomeIsOwn /\ LaunchedOnce /\ RowsCountClaims)'
    BY DEF HandlerStep
  <1> USE DEF IInv
  <1>1. PICK j \in Jobs, a \in 1..MaxAttempts : c = <<j, a>>
    BY DEF Claims
  <1>2. CASE Heartbeat(c)
    BY <1>2, FrameKeeps DEF Heartbeat, Frame, runner
  <1>3. CASE Commit(c)
    <2>1. OutcomeIsOwn' /\ LaunchedOnce'
      BY <1>3 DEF Commit, OutcomeIsOwn, LaunchedOnce, row, runner, handler
    <2>2. RowsCountClaims'
      BY <1>1, <1>3 DEF Commit, Mine, RowsCountClaims, Live, TypeOK, row, runner, handler
    <2> QED BY <2>1, <2>2
  <1>4. ASSUME NEW stage \in {"returned", "threw", "fatal", "ending"},
               pc[c] \in {"handling", "returned", "threw", "fatal"},
               pc' = [pc EXCEPT ![c] = stage],
               UNCHANGED <<row, result, runner, owner>>
        PROVE  (OutcomeIsOwn /\ LaunchedOnce /\ RowsCountClaims)'
    <2>1. OutcomeIsOwn'
      <3> SUFFICES ASSUME NEW k \in Jobs, state[k] \in {"queued", "done"}, attempts[k] # 0
                   PROVE  pc'[<<k, attempts[k]>>] \in {"ending", "over"}
        BY <1>4 DEF OutcomeIsOwn, row
      <3>1. pc[<<k, attempts[k]>>] \in {"ending", "over"}
        BY DEF OutcomeIsOwn
      <3>2. <<k, attempts[k]>> \in Claims
        BY MaxAttemptsAssumption DEF TypeOK, Claims
      <3> QED BY <1>4, <3>1, <3>2 DEF TypeOK
    <2>2. LaunchedOnce'
      BY <1>4 DEF LaunchedOnce, TypeOK, runner
    <2>3. RowsCountClaims'
      BY <1>4 DEF RowsCountClaims, Live, TypeOK, row, runner
    <2> QED BY <2>1, <2>2, <2>3
  <1>5. CASE HandlerEnds(c)
    BY <1>4, <1>5 DEF HandlerEnds
  <1>6. CASE SettleFails(c)
    <2>1. PICK stage \in {"threw", "ending"} : pc' = [pc EXCEPT ![c] = stage]
      BY <1>6 DEF SettleFails
    <2> QED BY <1>4, <1>6, <2>1 DEF SettleFails
  <1>7. CASE Settle(c)
    <2>1. /\ pc' = [pc EXCEPT ![c] = "ending"]
          /\ pc[c] \in {"returned", "threw", "fatal"}
          /\ UNCHANGED <<attempts, result, runner, owner>>
      BY <1>7 DEF Settle
    <2>2. CASE ~Mine(c)
      BY <1>4, <1>7, <2>1, <2>2 DEF Settle, row
    <2>3. CASE Mine(c)
      <3>1. /\ state' = [state EXCEPT ![j] = Outcome(c)]
            /\ attempts[j] = a /\ state[j] = "running"
        BY <1>1, <1>7, <2>3 DEF Settle, Mine
      <3>2. /\ Outcome(c) \in {"done", "failed", "queued"}
            /\ Outcome(c) = "queued" => a < MaxAttempts
        BY <1>1, MaxAttemptsAssumption DEF Outcome
      <3>3. OutcomeIsOwn'
        <4> SUFFICES ASSUME NEW k \in Jobs, state'[k] \in {"queued", "done"}, attempts[k] # 0
                     PROVE  pc'[<<k, attempts[k]>>] \in {"ending", "over"}
          BY <2>1 DEF OutcomeIsOwn
        <4>1. CASE k = j
          BY <1>1, <2>1, <3>1, <4>1 DEF TypeOK
        <4>2. CASE k # j
          <5>1. <<k, attempts[k]>> \in Claims /\ <<k, attempts[k]>> # c
            BY <1>1, <4>2, MaxAttemptsAssumption DEF TypeOK, Claims
          <5>2. pc[<<k, attempts[k]>>] \in {"ending", "over"}
            BY <3>1, <4>2 DEF OutcomeIsOwn, TypeOK
          <5> QED BY <2>1, <5>1, <5>2 DEF TypeOK
        <4> QED BY <4>1, <4>2
      <3>4. LaunchedOnce'
        BY <2>1 DEF LaunchedOnce, TypeOK, runner
      <3>5. RowsCountClaims'
        BY <2>1, <3>1, <3>2 DEF RowsCountClaims, Live, TypeOK, runner
      <3> QED BY <3>3, <3>4, <3>5
    <2> QED BY <2>2, <2>3
  <1>8. CASE End(c)
    <2>1. /\ pc' = [pc EXCEPT ![c] = "over"]
          /\ pc[c] = "ending"
          /\ owner' = [owner EXCEPT ![c] = NoProc]
          /\ UNCHANGED <<state, attempts, result, got>>
          /\ \A p \in Procs : loop'[p] = "launch" => loop[p] = "launch"
      BY <1>8 DEF End, Tick, TypeOK, row
    <2>2. OutcomeIsOwn'
      BY <2>1 DEF OutcomeIsOwn, TypeOK
    <2>3. LaunchedOnce'
      BY <2>1 DEF LaunchedOnce, TypeOK
    <2>4. RowsCountClaims'
      BY <2>1, NoProcAssumption DEF RowsCountClaims, Live, TypeOK
    <2> QED BY <2>2, <2>3, <2>4
  <1> QED BY <1>2, <1>3, <1>5, <1>6, <1>7, <1>8

LEMMA ProcKeeps == IInv /\ ProcStep => (OutcomeIsOwn /\ LaunchedOnce /\ RowsCountClaims)'
  <1> SUFFICES ASSUME IInv, NEW p \in Procs,
                      \/ Start(p) \/ Stop(p) \/ Drain(p) \/ Drained(p)
                      \/ DrainTimesOut(p) \/ Exit(p) \/ Crash(p)
               PROVE  (OutcomeIsOwn /\ LaunchedOnce /\ RowsCountClaims)'
    BY DEF ProcStep
  <1> USE DEF IInv
  <1>1. CASE Start(p)
    BY <1>1, FrameKeeps DEF Start, Frame, TypeOK, row, handler
  <1>2. CASE Stop(p)
    BY <1>2, FrameKeeps DEF Stop, Frame, row, handler
  <1>3. CASE Drain(p)
    BY <1>3, FrameKeeps DEF Drain, Frame, row, handler
  <1>4. CASE Drained(p)
    BY <1>4, FrameKeeps DEF Drained, Frame, row, handler
  <1>5. CASE DrainTimesOut(p)
    BY <1>5, FrameKeeps DEF DrainTimesOut, Frame, row
  <1>6. CASE Gone(p)
    <2>1. /\ UNCHANGED <<state, attempts, result>>
          /\ pc' = [c \in Claims |-> IF owner[c] = p THEN "over" ELSE pc[c]]
          /\ owner' = [c \in Claims |-> IF owner[c] = p THEN NoProc ELSE owner[c]]
          /\ \A q \in Procs : loop'[q] = "launch" => q # p /\ loop[q] = "launch"
          /\ got' = [got EXCEPT ![p] = NoClaim]
      BY <1>6 DEF Gone, TypeOK, row
    <2>2. OutcomeIsOwn'
      <3>1. \A j \in Jobs : attempts[j] # 0 => <<j, attempts[j]>> \in Claims
        BY MaxAttemptsAssumption DEF TypeOK, Claims
      <3> QED BY <2>1, <3>1 DEF OutcomeIsOwn
    <2>3. LaunchedOnce'
      <3>1. \A c \in Claims : pc[c] = "idle" => pc'[c] = "idle"
        BY <2>1 DEF RowsCountClaims, Live
      <3> QED BY <2>1, <3>1 DEF LaunchedOnce, TypeOK
    <2>4. RowsCountClaims'
      <3>1. \A c \in Claims : Live(c)' <=> owner'[c] \in Procs
        BY <2>1, NoProcAssumption DEF RowsCountClaims, Live
      <3>2. \A c \in Claims : pc'[c] # "idle" => pc[c] # "idle"
        BY <2>1 DEF RowsCountClaims, Live
      <3> QED BY <2>1, <3>1, <3>2 DEF RowsCountClaims, TypeOK
    <2> QED BY <2>2, <2>3, <2>4
  <1> QED BY <1>1, <1>2, <1>3, <1>4, <1>5, <1>6 DEF Exit, Crash

LEMMA StutterKeeps == IInv /\ UNCHANGED vars => IInv'
  <1> SUFFICES ASSUME IInv, UNCHANGED vars PROVE IInv'
    OBVIOUS
  <1>1. TypeOK'
    BY DEF IInv, TypeOK, vars, row, runner, handler
  <1>2. Frame
    BY DEF Frame, vars, row, runner, handler
  <1> QED BY <1>1, <1>2, FrameKeeps DEF IInv

\* The invariant is inductive: no step of a route, a loop, a handler or a
\* process undoes it (all of jobs/runner.ts).
THEOREM Inductive == Spec => []IInv
  <1>1. IInv /\ [Next]_vars => IInv'
    <2> SUFFICES ASSUME IInv, [Next]_vars PROVE IInv'
      OBVIOUS
    <2>1. CASE RowStep
      BY <2>1, TypeRow, RowKeeps DEF IInv
    <2>2. CASE LoopStep
      BY <2>2, TypeLoop, LoopKeeps DEF IInv
    <2>3. CASE HandlerStep
      BY <2>3, TypeHandler, HandlerKeeps DEF IInv
    <2>4. CASE ProcStep
      BY <2>4, TypeProc, ProcKeeps DEF IInv
    <2>5. CASE UNCHANGED vars
      BY <2>5, StutterKeeps
    <2> QED BY <2>1, <2>2, <2>3, <2>4, <2>5 DEF Next
  <1> QED BY InitIInv, <1>1, PTL DEF Spec

\* Every variable keeps its type; in particular no job is claimed more often
\* than its maxAttempts allow.
THEOREM TypeCorrect == Spec => []TypeOK
  BY Inductive, PTL DEF IInv

\* Only the current claim's own handler completes a job or sends it back for
\* a retry (the compare-and-set of jobs/runner.ts:261 and 305-345).
THEOREM OutcomesAreOwn == Spec => []OutcomeIsOwn
  BY Inductive, PTL DEF IInv

\* No claim is launched twice, by one process or by two (jobs/runner.ts:204-263).
THEOREM LaunchedOnceOnly == Spec => []LaunchedOnce
  BY Inductive, PTL DEF IInv

\* A committed result is never replaced by an older claim's, nor added to a
\* job that is over (ctx.commit, jobs/runner.ts:286-294).
THEOREM ResultsOrdered == Spec => ResultsInClaimOrder
  <1>1. IInv /\ [Next]_vars =>
           [\A j \in Jobs : result'[j] # result[j]
              => result'[j] > result[j] /\ state[j] = "running"]_vars
    <2> SUFFICES ASSUME IInv, Next, NEW j \in Jobs, result'[j] # result[j]
                 PROVE  result'[j] > result[j] /\ state[j] = "running"
      OBVIOUS
    <2>1. ~RowStep
      BY DEF RowStep, Enqueue, BecomesDue, LeaseLapses, Cascade
    <2>2. ~LoopStep
      BY DEF LoopStep, Wake, ClaimOne, Sweep, ClaimNothing, ClaimJob, ClaimAnswerLost, Launch
    <2>3. ~ProcStep
      BY DEF ProcStep, Start, Stop, Drain, Drained, DrainTimesOut, Exit, Crash, Gone
    <2>4. PICK c \in Claims : Commit(c)
      BY <2>1, <2>2, <2>3
      DEF Next, HandlerStep, Heartbeat, HandlerEnds, Settle, SettleFails, End
    <2>5. /\ c[1] = j /\ state[j] = "running" /\ result'[j] = attempts[j]
      BY <2>4 DEF Commit, Mine, IInv, TypeOK
    <2>6. result[j] <= attempts[j] /\ attempts[j] \in Nat /\ result[j] \in Nat
      BY MaxAttemptsAssumption DEF IInv, TypeOK, RowsCountClaims
    <2> QED BY <2>5, <2>6
  <1> QED BY Inductive, <1>1, PTL DEF Spec, ResultsInClaimOrder

-----------------------------------------------------------------------------
(* The runner implements JobClaims *)

LEMMA RowRefines == IInv /\ RowStep => [Promise!Next]_(Promise!claimVars)
  <1> SUFFICES ASSUME IInv, NEW j \in Jobs,
                      Enqueue(j) \/ BecomesDue(j) \/ LeaseLapses(j) \/ Cascade(j)
               PROVE  [Promise!Next]_(Promise!claimVars)
    BY DEF RowStep
  <1>1. CASE Enqueue(j)
    BY <1>1 DEF Enqueue, Promise!Enqueue, Promise!Next
  <1>2. CASE BecomesDue(j) \/ LeaseLapses(j)
    BY <1>2 DEF BecomesDue, LeaseLapses, Promise!claimVars
  <1>3. CASE Cascade(j)
    <2>1. Promise!Cascade({j})
      BY <1>3 DEF Cascade, Promise!Cascade, IInv, TypeOK
    <2> QED BY <2>1 DEF Promise!Next
  <1> QED BY <1>1, <1>2, <1>3

LEMMA LoopRefines == IInv /\ LoopStep => [Promise!Next]_(Promise!claimVars)
  <1> SUFFICES ASSUME IInv, NEW p \in Procs, Wake(p) \/ ClaimOne(p) \/ Launch(p)
               PROVE  [Promise!Next]_(Promise!claimVars)
    BY DEF LoopStep
  <1>1. CASE Wake(p) \/ ClaimNothing(p) \/ Launch(p)
    BY <1>1 DEF Wake, ClaimNothing, Launch, row, Promise!claimVars
  <1>2. CASE Sweep(p)
    <2>1. CASE Exhausted = {}
      BY <1>2, <2>1 DEF Sweep, Promise!claimVars, IInv, TypeOK
    <2>2. CASE Exhausted # {}
      <3>1. Exhausted \in SUBSET Jobs
        BY DEF Exhausted
      <3>2. \A j \in Exhausted : Promise!Holds(j, MaxAttempts)
        <4>1. \A j \in Jobs : attempts[j] \in Nat /\ attempts[j] <= MaxAttempts
          BY MaxAttemptsAssumption DEF IInv, TypeOK
        <4>2. \A j \in Exhausted : j \in Jobs /\ attempts[j] >= MaxAttempts
                                    /\ state[j] = "running"
          BY DEF Exhausted
        <4> QED BY <4>1, <4>2, MaxAttemptsAssumption DEF Promise!Holds
      <3>3. Promise!Expire(Exhausted)
        BY <1>2, <2>2, <3>2 DEF Sweep, Promise!Expire
      <3> QED BY <3>1, <3>3 DEF Promise!Next
    <2> QED BY <2>1, <2>2
  <1>3. ASSUME NEW j \in Jobs, ClaimJob(p, j) \/ ClaimAnswerLost(p, j)
        PROVE  [Promise!Next]_(Promise!claimVars)
    <2>1. Promise!Claim(j)
      BY <1>3 DEF ClaimJob, ClaimAnswerLost, Take, Claimable, Promise!Claim,
                  IInv, RowsCountClaims
    <2> QED BY <2>1 DEF Promise!Next
  <1> QED BY <1>1, <1>2, <1>3 DEF ClaimOne

LEMMA HandlerRefines == IInv /\ HandlerStep => [Promise!Next]_(Promise!claimVars)
  <1> SUFFICES ASSUME IInv, NEW c \in Claims,
                      \/ Heartbeat(c) \/ Commit(c) \/ HandlerEnds(c)
                      \/ Settle(c) \/ SettleFails(c) \/ End(c)
               PROVE  [Promise!Next]_(Promise!claimVars)
    BY DEF HandlerStep
  <1>1. PICK j \in Jobs, a \in 1..MaxAttempts : c = <<j, a>>
    BY DEF Claims
  <1>2. CASE Heartbeat(c) \/ HandlerEnds(c) \/ SettleFails(c) \/ End(c)
    BY <1>2 DEF Heartbeat, HandlerEnds, SettleFails, End, row, Promise!claimVars
  <1>3. CASE Commit(c)
    <2>1. Promise!Commit(j, a, {})
      BY <1>1, <1>3 DEF Commit, Mine, row, Promise!Commit, Promise!Holds, IInv, TypeOK
    <2> QED BY <2>1 DEF Promise!Next
  <1>4. CASE Settle(c)
    <2>1. CASE ~Mine(c)
      BY <1>4, <2>1 DEF Settle, Promise!claimVars
    <2>2. CASE Mine(c)
      <3>1. /\ Promise!Holds(j, a)
            /\ state' = [state EXCEPT ![j] = Outcome(c)]
            /\ UNCHANGED <<attempts, result>>
        BY <1>1, <1>4, <2>2 DEF Settle, Mine, Promise!Holds
      <3>2. \/ Outcome(c) = "done"
            \/ Outcome(c) = "failed"
            \/ Outcome(c) = "queued" /\ a < MaxAttempts
        BY <1>1, MaxAttemptsAssumption DEF Outcome
      <3>3. Promise!Finish(j, a) \/ Promise!Fail(j, a) \/ Promise!Retry(j, a)
        BY <3>1, <3>2 DEF Promise!Finish, Promise!Fail, Promise!Retry
      <3> QED BY <3>3 DEF Promise!Next
    <2> QED BY <2>1, <2>2
  <1> QED BY <1>2, <1>3, <1>4

\* Seen from its rows and committed results, the runner with its processes,
\* leases, crashes and shutdowns does only what JobClaims allows: what the
\* handlers are written against (jobs/runner.ts:28-37).
THEOREM Refinement == Spec => PromiseSpec
  <1>1. Init => Promise!Init
    BY DEF Init, Promise!Init
  <1>2. IInv /\ [Next]_vars => [Promise!Next]_(Promise!claimVars)
    <2> SUFFICES ASSUME IInv, [Next]_vars PROVE [Promise!Next]_(Promise!claimVars)
      OBVIOUS
    <2>1. CASE ProcStep
      BY <2>1 DEF ProcStep, Start, Stop, Drain, Drained, DrainTimesOut, Exit, Crash,
                  Gone, row, Promise!claimVars
    <2>2. CASE UNCHANGED vars
      BY <2>2 DEF vars, row, Promise!claimVars
    <2> QED BY <2>1, <2>2, RowRefines, LoopRefines, HandlerRefines DEF Next
  <1> QED BY Inductive, <1>1, <1>2, PTL DEF Spec, PromiseSpec, Promise!Spec

-----------------------------------------------------------------------------
(* The limit on the `active` map *)

Entries(p) == {j \in Jobs : active[p][j] # 0}

\* A busy tick loop left room for the entry it may add: nothing but the loop
\* itself adds entries, and a process has one loop.
RoomLeft == \A p \in Procs : /\ loop[p] # "idle" => Cardinality(Entries(p)) < Concurrency
                             /\ Cardinality(Entries(p)) <= Concurrency

LEMMA EntriesFinite == ASSUME NEW S \in SUBSET Jobs PROVE Cardinality(S) \in Nat
  BY JobsAssumption, FS_Subset, FS_CardinalityType

\* A step that adds no entry and leaves idle loops idle unless there is room.
LEMMA RoomKept ==
  ASSUME RoomLeft,
         \A p \in Procs : /\ Entries(p)' \subseteq Entries(p)
                          /\ loop'[p] # "idle" =>
                                \/ loop[p] # "idle"
                                \/ Cardinality(Entries(p)') < Concurrency
  PROVE  RoomLeft'
  <1> SUFFICES ASSUME NEW p \in Procs
               PROVE  /\ loop'[p] # "idle" => Cardinality(Entries(p)') < Concurrency
                      /\ Cardinality(Entries(p)') <= Concurrency
    BY DEF RoomLeft
  <1>1. Entries(p) \in SUBSET Jobs /\ Entries(p)' \in SUBSET Entries(p)
    BY DEF Entries
  <1>2. Cardinality(Entries(p)') <= Cardinality(Entries(p))
    BY <1>1, JobsAssumption, FS_Subset
  <1>3. Cardinality(Entries(p)') \in Nat /\ Cardinality(Entries(p)) \in Nat
    BY <1>1, EntriesFinite
  <1> QED BY <1>2, <1>3, ConcurrencyAssumption DEF RoomLeft

\* A step that leaves the entries and the loops alone.
LEMMA RoomUntouched == RoomLeft /\ UNCHANGED <<loop, active>> => RoomLeft'
  BY RoomKept DEF Entries

LEMMA RoomInit == Init => RoomLeft
  <1> SUFFICES ASSUME Init, NEW p \in Procs
               PROVE  loop[p] = "idle" /\ Cardinality(Entries(p)) <= Concurrency
    BY DEF RoomLeft, Init
  <1>1. Entries(p) = {}
    BY DEF Init, Entries
  <1>2. Cardinality(Entries(p)) = 0
    BY <1>1, FS_EmptySet
  <1> QED BY <1>2, ConcurrencyAssumption DEF Init

LEMMA RoomLoop == IInv /\ RoomLeft /\ LoopStep => RoomLeft'
  <1> SUFFICES ASSUME IInv, RoomLeft, NEW p \in Procs,
                      Wake(p) \/ ClaimOne(p) \/ Launch(p)
               PROVE  RoomLeft'
    BY DEF LoopStep
  <1>1. ASSUME LeaveLoop(p), UNCHANGED active PROVE RoomLeft'
    <2>1. loop'[p] # "idle" => Cardinality(Entries(p)) < Concurrency
      BY <1>1 DEF LeaveLoop, Room, Entries, IInv, TypeOK
    <2>2. \A q \in Procs \ {p} : loop'[q] = loop[q]
      BY <1>1 DEF LeaveLoop, IInv, TypeOK
    <2>3. \A q \in Procs : Entries(q)' = Entries(q)
      BY <1>1 DEF Entries
    <2> QED BY <2>1, <2>2, <2>3, RoomKept
  <1>2. CASE Wake(p)
    <2>1. loop'[p] # "idle" => loop[p] # "idle" \/ Cardinality(Entries(p)) < Concurrency
      BY <1>2 DEF Wake, Tick, Room, Entries, IInv, TypeOK
    <2>2. \A q \in Procs \ {p} : loop'[q] = loop[q]
      BY <1>2 DEF Wake, Tick, IInv, TypeOK
    <2> QED BY <1>2, <2>1, <2>2, RoomKept DEF Wake, Entries
  <1>3. CASE Sweep(p)
    BY <1>3, RoomKept DEF Sweep, Entries, IInv, TypeOK
  <1>4. CASE ClaimNothing(p)
    BY <1>1, <1>4 DEF ClaimNothing
  <1>5. ASSUME NEW j \in Jobs, ClaimJob(p, j) PROVE RoomLeft'
    BY <1>5, RoomKept DEF ClaimJob, Entries, IInv, TypeOK
  <1>6. ASSUME NEW j \in Jobs, ClaimAnswerLost(p, j) PROVE RoomLeft'
    BY <1>1, <1>6 DEF ClaimAnswerLost
  <1>7. CASE Launch(p)
    <2>1. PICK j \in Jobs, a \in 1..MaxAttempts : got[p] = <<j, a>>
      <3>1. got[p] \in Claims
        BY <1>7 DEF Launch, IInv, TypeOK, RowsCountClaims
      <3> QED BY <3>1 DEF Claims
    <2> DEFINE act == [active[p] EXCEPT ![j] = a]
    <2>2. /\ active' = [active EXCEPT ![p] = act]
          /\ loop' = [loop EXCEPT ![p] = IF Room(p, act) THEN "sweep" ELSE "idle"]
      BY <1>7, <2>1 DEF Launch
    <2>3. Entries(p)' = Entries(p) \cup {j}
      BY <2>2 DEF Entries, IInv, TypeOK
    <2>4. {k \in Jobs : act[k] # 0} = Entries(p)'
      BY <2>2 DEF Entries, IInv, TypeOK
    <2>5. IsFiniteSet(Entries(p)) /\ Cardinality(Entries(p)) \in Nat
      BY EntriesFinite, JobsAssumption, FS_Subset DEF Entries
    <2>6. Cardinality(Entries(p)) < Concurrency
      BY <1>7 DEF RoomLeft, Launch
    <2>7. Cardinality(Entries(p)') <= Concurrency
      <3>1. \/ Cardinality(Entries(p) \cup {j}) = Cardinality(Entries(p))
            \/ Cardinality(Entries(p) \cup {j}) = Cardinality(Entries(p)) + 1
        BY <2>5, FS_AddElement
      <3> HIDE DEF act
      <3> QED BY <2>3, <2>5, <2>6, <3>1, ConcurrencyAssumption
    <2>8. loop'[p] # "idle" => Cardinality(Entries(p)') < Concurrency
      BY <2>2, <2>4 DEF Room, IInv, TypeOK
    <2>9. \A q \in Procs \ {p} : loop'[q] = loop[q] /\ Entries(q)' = Entries(q)
      BY <2>2 DEF Entries, IInv, TypeOK
    <2> QED BY <2>7, <2>8, <2>9 DEF RoomLeft
  <1> QED BY <1>2, <1>3, <1>4, <1>5, <1>6, <1>7 DEF ClaimOne

LEMMA RoomHandler == IInv /\ RoomLeft /\ HandlerStep => RoomLeft'
  <1> SUFFICES ASSUME IInv, RoomLeft, NEW c \in Claims,
                      \/ Heartbeat(c) \/ Commit(c) \/ HandlerEnds(c)
                      \/ Settle(c) \/ SettleFails(c) \/ End(c)
               PROVE  RoomLeft'
    BY DEF HandlerStep
  <1>1. CASE Heartbeat(c) \/ Commit(c) \/ HandlerEnds(c) \/ Settle(c) \/ SettleFails(c)
    BY <1>1, RoomUntouched
    DEF Heartbeat, Commit, HandlerEnds, Settle, SettleFails, runner
  <1>2. CASE End(c)
    <2>1. owner[c] \in Procs
      BY <1>2 DEF End, IInv, RowsCountClaims, Live
    <2>2. PICK p \in Procs : p = owner[c]
      BY <2>1
    <2> DEFINE act == [active[p] EXCEPT ![c[1]] = 0]
    <2>3. active' = [active EXCEPT ![p] = act] /\ Tick(p, act)
      BY <1>2, <2>2 DEF End
    <2>4. \A q \in Procs : Entries(q)' \subseteq Entries(q)
      BY <2>3 DEF Entries, IInv, TypeOK
    <2>5. {k \in Jobs : act[k] # 0} = Entries(p)'
      BY <2>3 DEF Entries, IInv, TypeOK
    <2>6. loop'[p] # "idle" => loop[p] # "idle" \/ Cardinality(Entries(p)') < Concurrency
      BY <2>3, <2>5 DEF Tick, Room, IInv, TypeOK
    <2>7. \A q \in Procs \ {p} : loop'[q] = loop[q]
      BY <2>3 DEF Tick, IInv, TypeOK
    <2> QED BY <2>4, <2>6, <2>7, RoomKept
  <1> QED BY <1>1, <1>2

LEMMA RoomProc == IInv /\ RoomLeft /\ ProcStep => RoomLeft'
  <1> SUFFICES ASSUME IInv, RoomLeft, NEW p \in Procs,
                      \/ Start(p) \/ Stop(p) \/ Drain(p) \/ Drained(p)
                      \/ DrainTimesOut(p) \/ Exit(p) \/ Crash(p)
               PROVE  RoomLeft'
    BY DEF ProcStep
  <1>1. CASE Stop(p) \/ Drain(p) \/ Drained(p) \/ DrainTimesOut(p)
    BY <1>1, RoomUntouched DEF Stop, Drain, Drained, DrainTimesOut
  <1>2. CASE Gone(p)
    BY <1>2, RoomKept DEF Gone, Entries, IInv, TypeOK
  <1>3. CASE Start(p)
    <2>1. Entries(p)' = {}
      BY <1>3 DEF Start, Entries, IInv, TypeOK
    <2>2. Cardinality(Entries(p)') < Concurrency
      BY <2>1, FS_EmptySet, ConcurrencyAssumption
    <2>3. \A q \in Procs \ {p} : loop'[q] = loop[q] /\ Entries(q)' = Entries(q)
      BY <1>3 DEF Start, Entries, IInv, TypeOK
    <2> QED BY <2>1, <2>2, <2>3, RoomKept
  <1> QED BY <1>1, <1>2, <1>3 DEF Exit, Crash

\* The `active` map never exceeds `concurrency` (jobs/runner.ts:231-256), for
\* any number of jobs: a busy loop always has room for the entry it may add.
THEOREM ActiveLimited == Spec => []ActiveWithinLimit
  <1>1. IInv /\ RoomLeft /\ [Next]_vars => RoomLeft'
    <2>1. CASE RowStep
      BY <2>1, RoomUntouched DEF RowStep, Enqueue, BecomesDue, LeaseLapses, Cascade, runner
    <2>2. CASE UNCHANGED vars
      BY <2>2, RoomUntouched DEF vars, runner
    <2> QED BY <2>1, <2>2, RoomLoop, RoomHandler, RoomProc DEF Next
  <1>2. RoomLeft => ActiveWithinLimit
    BY DEF RoomLeft, ActiveWithinLimit, Entries
  <1> QED BY RoomInit, Inductive, <1>1, <1>2, PTL DEF Spec

=============================================================================
