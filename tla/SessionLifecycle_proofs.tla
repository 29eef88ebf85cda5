----------------------- MODULE SessionLifecycle_proofs -----------------------
(***************************************************************************)
(* Theorems of SessionLifecycle, for every set of sessions and every value *)
(* of the limits.  The argument is one inductive invariant, IInv: besides  *)
(* the types it says that the registry names a live runner, that a down    *)
(* process has none, that a cancel flag comes from a cancel, and that the  *)
(* runner of a completed session is over.                                  *)
(* At the end, those of Delivery, for any candidates, replies and limits:  *)
(* TextInv, what is written and stored cites what is known, and            *)
(* DiveInv, which candidates the dives went to.                            *)
(***************************************************************************)
EXTENDS SessionLifecycle, Delivery, FiniteSetTheorems, SequenceTheorems, TLAPS

RegistryIsLive ==
  \A s \in Sessions : registry[s] # None => runner[s][registry[s]].pc # "free"

DownIsEmpty ==
  ~up => \A s \in Sessions : /\ registry[s] = None
                             /\ \A k \in Slots : runner[s][k] = FreeRunner

FlagMeansCancelled ==
  \A s \in Sessions, k \in Slots : runner[s][k].cancelled => wasCancelled[s]

CompletedIsOver ==
  \A s \in Sessions : status[s] = "completed" /\ ~wasCancelled[s]
    => \A k \in Slots : runner[s][k].pc \in Over \cup {"free"}

NoResumeRequest == \A s \in Sessions : "resume_requested" \notin ckpt[s]

IInv ==
  /\ TypeOK
  /\ RegistryIsLive
  /\ DownIsEmpty
  /\ FlagMeansCancelled
  /\ RunningHasRunner
  /\ OneRunnerUntilCancelled
  /\ CompletedHasReport
  /\ CompletedIsOver
  /\ NoResumeRequest

\* What every step of runner k of session s has in common, the done callback apart:
\* it changes the rows of s alone, keeps the runner's cancel flag, and writes a
\* status other than "running" when it ends the runner.
RowTypes ==
  /\ status' \in [Sessions -> Statuses \cup {"none"}]
  /\ error' \in [Sessions -> Errors]
  /\ agent' \in [Sessions -> AgentStates]
  /\ job' \in [Sessions -> JobStatuses]

KeysKept ==
  /\ ckpt' \in [Sessions -> SUBSET Keys]
  /\ \A t \in Sessions : "resume_requested" \in ckpt'[t] => "resume_requested" \in ckpt[t]

StatusMoves(s, k) ==
  /\ \A t \in Sessions : t # s => status'[t] = status[t]
  /\ status'[s] = "completed" => status[s] = "completed"
  /\ runner'[s][k].pc \in Over => status'[s] # "running"

RunnerMoves(s, k) ==
  /\ runner' \in [Sessions -> [Slots -> Runner]]
  /\ \A t \in Sessions, l \in Slots : t # s \/ l # k => runner'[t][l] = runner[t][l]
  /\ runner'[s][k].cancelled = runner[s][k].cancelled
  /\ runner'[s][k].pc \in Awaits \cup Over

Shape(s, k) == RowTypes /\ KeysKept /\ StatusMoves(s, k) /\ RunnerMoves(s, k)

-----------------------------------------------------------------------------
(* The parts of a runner's step *)

LEMMA WorkIsAgent == WorkStates \subseteq AgentStates
  BY DEF WorkStates, AgentStates

LEMMA ParkedType == \A a \in AgentStates : Parked(a) \in AgentStates
  BY DEF Parked, AgentStates

LEMMA MarkType == \A j, st \in JobStatuses : Mark(j, st) \in JobStatuses
  BY DEF Mark

\* One runner object becomes r, which keeps the cancel flag.
LEMMA RunnerBecomes ==
  ASSUME TypeOK, NEW s \in Sessions, NEW k \in Slots, NEW r \in Runner,
         r.cancelled = runner[s][k].cancelled, r.pc \in Awaits \cup Over,
         runner' = [runner EXCEPT ![s] = [runner[s] EXCEPT ![k] = r]]
  PROVE  RunnerMoves(s, k) /\ runner'[s][k] = r
  <1>1. runner \in [Sessions -> [Slots -> Runner]]
    BY DEF TypeOK
  <1>. QED BY <1>1 DEF RunnerMoves

LEMMA GotoMoves ==
  ASSUME TypeOK, NEW s \in Sessions, NEW k \in Slots, NEW p \in Awaits \cup Over,
         Goto(s, k, p)
  PROVE  RunnerMoves(s, k) /\ runner'[s][k].pc = p
  <1>. DEFINE r == [runner[s][k] EXCEPT !.pc = p]
  <1>1. runner[s][k] \in Runner
    BY DEF TypeOK
  <1>2. r \in Runner /\ r.cancelled = runner[s][k].cancelled /\ r.pc = p
    BY <1>1 DEF Runner, PCs
  <1>3. runner' = [runner EXCEPT ![s] = [runner[s] EXCEPT ![k] = r]]
    BY DEF Goto
  <1>. HIDE DEF r
  <1>. QED BY <1>2, <1>3, RunnerBecomes

LEMMA FailsShape ==
  ASSUME TypeOK, NEW s \in Sessions, NEW k \in Slots, NEW a \in AgentStates,
         NEW j \in JobStatuses, Fails(s, k, a, j), KeysKept
  PROVE  Shape(s, k)
  <1>1. PICK p \in Over : Goto(s, k, p)
    BY DEF Fails, Over
  <1>2. RunnerMoves(s, k)
    BY <1>1, GotoMoves
  <1>3. status' = [status EXCEPT ![s] = "failed"] /\ error' = [error EXCEPT ![s] = "other"]
    BY DEF Fails
  <1>4. StatusMoves(s, k)
    BY <1>3 DEF StatusMoves, TypeOK
  <1>5. RowTypes
    <2>1. agent' \in [Sessions -> AgentStates]
      BY DEF Fails, TypeOK, AgentStates
    <2>2. job' \in [Sessions -> JobStatuses]
      BY DEF Fails, TypeOK, JobStatuses, Mark
    <2>. QED BY <1>3, <2>1, <2>2 DEF RowTypes, TypeOK, Statuses, Errors
  <1>. QED BY <1>2, <1>4, <1>5 DEF Shape

LEMMA EntersShape ==
  ASSUME TypeOK, NEW s \in Sessions, NEW k \in Slots, NEW heals \in 0..HealAttempts,
         Enters(s, k, heals)
  PROVE  Shape(s, k)
  <1>1. RunnerMoves(s, k) /\ runner'[s][k].pc = "preflight"
    <2>. DEFINE r == [runner[s][k] EXCEPT !.pc = "preflight", !.heals = heals]
    <2>1. runner[s][k] \in Runner
      BY DEF TypeOK
    <2>2. r \in Runner /\ r.cancelled = runner[s][k].cancelled /\ r.pc = "preflight"
      BY <2>1 DEF Runner, PCs, Awaits
    <2>3. runner' = [runner EXCEPT ![s] = [runner[s] EXCEPT ![k] = r]]
      BY DEF Enters
    <2>. HIDE DEF r
    <2>. QED BY <2>2, <2>3, RunnerBecomes DEF Awaits
  <1>2. StatusMoves(s, k)
    BY <1>1 DEF StatusMoves, Enters, TypeOK, Over
  <1>3. KeysKept
    BY DEF KeysKept, Enters, TypeOK, Keys
  <1>4. RowTypes
    <2>1. agent' \in [Sessions -> AgentStates]
      BY DEF Enters, TypeOK, AgentStates
    <2>2. job' \in [Sessions -> JobStatuses]
      BY DEF Enters, TypeOK, JobStatuses, Mark
    <2>. QED BY <2>1, <2>2 DEF RowTypes, Enters, TypeOK, Statuses
  <1>. QED BY <1>1, <1>2, <1>3, <1>4 DEF Shape

LEMMA AttemptsShape ==
  ASSUME TypeOK, NEW s \in Sessions, NEW k \in Slots, NEW a \in AgentStates,
         NEW h \in 0..HealAttempts, NEW open \in BOOLEAN, Attempts(s, k, a, h, open)
  PROVE  Shape(s, k)
  <1>. DEFINE parked == h > 0 /\ ~AgentCan(a, "planning")
              a1     == IF h > 0 THEN Parked(a) ELSE a
              fits   == open /\ (AgentCan(a, "planning") \/ AgentCan(a1, "planning"))
  <1>1. CASE fits
    <2>1. Enters(s, k, IF parked THEN h - 1 ELSE h)
      BY <1>1 DEF Attempts
    <2>2. (IF parked THEN h - 1 ELSE h) \in 0..HealAttempts
      BY LimitAssumption
    <2>. QED BY <2>1, <2>2, EntersShape
  <1>2. CASE ~fits
    <2>. DEFINE j == CASE open -> "initializing"
                       [] ~open /\ HealAttempts > 0 -> "recovering"
                       [] OTHER -> job[s]
    <2>1. Fails(s, k, a1, j)
      BY <1>2 DEF Attempts
    <2>2. ckpt' = [ckpt EXCEPT ![s] = IF HealAttempts > 0 THEN @ \cup {"cursor"} ELSE @]
      BY <1>2 DEF Attempts
    <2>3. KeysKept
      BY <2>2 DEF KeysKept, TypeOK, Keys
    <2>4. a1 \in AgentStates
      BY ParkedType
    <2>5. j \in JobStatuses
      BY DEF TypeOK, JobStatuses
    <2>. HIDE DEF a1, j
    <2>. QED BY <2>1, <2>3, <2>4, <2>5, FailsShape
  <1>. QED BY <1>1, <1>2

LEMMA UnchangedKeys == TypeOK /\ UNCHANGED ckpt => KeysKept
  BY DEF TypeOK, KeysKept

LEMMA AddedKey ==
  ASSUME TypeOK, NEW s \in Sessions, NEW key \in Keys \ {"resume_requested"},
         ckpt' = [ckpt EXCEPT ![s] = @ \cup {key}]
  PROVE  KeysKept
  BY DEF TypeOK, KeysKept

LEMMA RaisesShape ==
  ASSUME TypeOK, NEW s \in Sessions, NEW k \in Slots, NEW open \in BOOLEAN,
         NEW j \in JobStatuses, Raises(s, k, open, j)
  PROVE  Shape(s, k)
  <1>1. agent[s] \in AgentStates /\ runner[s][k].heals \in 0..HealAttempts
    <2>1. runner[s][k] \in Runner
      BY DEF TypeOK
    <2>. QED BY <2>1 DEF TypeOK, Runner
  <1>2. CASE runner[s][k].heals > 0
    <2>1. Attempts(s, k, Parked(agent[s]), runner[s][k].heals - 1, open)
      BY <1>2 DEF Raises
    <2>2. Parked(agent[s]) \in AgentStates
      BY <1>1, ParkedType
    <2>3. runner[s][k].heals - 1 \in 0..HealAttempts
      BY <1>1, <1>2, LimitAssumption
    <2>. QED BY <2>1, <2>2, <2>3, AttemptsShape
  <1>3. CASE ~(runner[s][k].heals > 0)
    BY <1>1, <1>3, FailsShape, UnchangedKeys DEF Raises
  <1>. QED BY <1>2, <1>3

LEMMA CursorIsKey == "cursor" \in Keys \ {"resume_requested"}
  BY DEF Keys

LEMMA StopsCancelledShape ==
  ASSUME TypeOK, NEW s \in Sessions, NEW k \in Slots, NEW j \in JobStatuses,
         StopsCancelled(s, k, j)
  PROVE  Shape(s, k)
  <1>1. RunnerMoves(s, k) /\ KeysKept
    BY GotoMoves, UnchangedKeys DEF StopsCancelled, Over
  <1>2. StatusMoves(s, k)
    BY DEF StatusMoves, StopsCancelled, TypeOK
  <1>3. RowTypes
    BY DEF RowTypes, StopsCancelled, TypeOK, Statuses, Errors, AgentStates
  <1>. QED BY <1>1, <1>2, <1>3 DEF Shape

LEMMA StopsPausedShape ==
  ASSUME TypeOK, NEW s \in Sessions, NEW k \in Slots, StopsPaused(s, k)
  PROVE  Shape(s, k)
  <1>1. RunnerMoves(s, k) /\ KeysKept
    BY GotoMoves, AddedKey, CursorIsKey DEF StopsPaused, Over
  <1>2. StatusMoves(s, k)
    BY DEF StatusMoves, StopsPaused, TypeOK
  <1>3. RowTypes
    BY DEF RowTypes, StopsPaused, TypeOK, Statuses
  <1>. QED BY <1>1, <1>2, <1>3 DEF Shape

LEMMA StopsBeforePhaseShape ==
  ASSUME TypeOK, NEW s \in Sessions, NEW k \in Slots, NEW j \in JobStatuses,
         StopsBeforePhase(s, k, j)
  PROVE  Shape(s, k)
  <1>1. CASE AgentCan(agent[s], "waiting_recovery")
    <2>1. RunnerMoves(s, k) /\ KeysKept
      BY <1>1, GotoMoves, AddedKey, CursorIsKey DEF StopsBeforePhase, Over
    <2>2. StatusMoves(s, k)
      BY <1>1 DEF StatusMoves, StopsBeforePhase, TypeOK
    <2>3. RowTypes
      <3>1. status' \in [Sessions -> Statuses \cup {"none"}]
        BY <1>1 DEF StopsBeforePhase, TypeOK, Statuses
      <3>2. agent' \in [Sessions -> AgentStates]
        BY <1>1 DEF StopsBeforePhase, TypeOK, AgentStates
      <3>3. error' \in [Sessions -> Errors] /\ job' \in [Sessions -> JobStatuses]
        BY <1>1 DEF StopsBeforePhase, TypeOK
      <3>. QED BY <3>1, <3>2, <3>3 DEF RowTypes
    <2>. QED BY <2>1, <2>2, <2>3 DEF Shape
  <1>2. CASE ~AgentCan(agent[s], "waiting_recovery")
    BY <1>2, RaisesShape DEF StopsBeforePhase
  <1>. QED BY <1>1, <1>2

LEMMA MovesOnShape ==
  ASSUME TypeOK, NEW s \in Sessions, NEW k \in Slots, NEW a \in AgentStates,
         NEW p \in Awaits, NEW j \in JobStatuses, MovesOn(s, k, a, p, j)
  PROVE  Shape(s, k)
  <1>1. CASE AgentCan(agent[s], a)
    <2>1. RunnerMoves(s, k) /\ runner'[s][k].pc = p /\ KeysKept
      BY <1>1, GotoMoves, AddedKey, CursorIsKey DEF MovesOn
    <2>2. StatusMoves(s, k)
      BY <1>1, <2>1 DEF StatusMoves, MovesOn, Awaits, Over
    <2>3. RowTypes
      <3>1. /\ agent' = [agent EXCEPT ![s] = a] /\ job' = [job EXCEPT ![s] = j]
            /\ UNCHANGED <<status, error>>
        BY <1>1 DEF MovesOn
      <3>2. agent' \in [Sessions -> AgentStates] /\ job' \in [Sessions -> JobStatuses]
        <4>1. agent \in [Sessions -> AgentStates] /\ job \in [Sessions -> JobStatuses]
          BY DEF TypeOK
        <4>. QED BY <3>1, <4>1
      <3>. QED BY <3>1, <3>2 DEF RowTypes, TypeOK
    <2>. QED BY <2>1, <2>2, <2>3 DEF Shape
  <1>2. CASE ~AgentCan(agent[s], a)
    <2>1. IsOpen(s) \in BOOLEAN
      BY DEF IsOpen
    <2>2. Raises(s, k, IsOpen(s), j)
      BY <1>2 DEF MovesOn
    <2>. QED BY <2>1, <2>2, RaisesShape
  <1>. QED BY <1>1, <1>2

LEMMA PhaseHeadShape ==
  ASSUME TypeOK, NEW s \in Sessions, NEW k \in Slots, NEW j \in JobStatuses,
         PhaseHead(s, k, j)
  PROVE  Shape(s, k)
  <1>1. CASE StopsCancelled(s, k, j)
    BY <1>1, StopsCancelledShape
  <1>2. CASE StopsBeforePhase(s, k, j)
    BY <1>2, StopsBeforePhaseShape
  <1>3. CASE \E a \in EntryStates : MovesOn(s, k, a, "model", j)
    <2>1. PICK a \in EntryStates : MovesOn(s, k, a, "model", j)
      BY <1>3
    <2>2. a \in AgentStates /\ "model" \in Awaits
      BY EntryAssumption, WorkIsAgent DEF Awaits
    <2>. QED BY <2>1, <2>2, MovesOnShape
  <1>4. CASE MovesOn(s, k, "reporting", "report", j)
    BY <1>4, MovesOnShape DEF Awaits, AgentStates
  <1>. QED BY <1>1, <1>2, <1>3, <1>4 DEF PhaseHead

\* A step of a runner that neither finishes the session nor is its done callback.
Works(s, k) ==
  \/ Begin(s, k) \/ LeavePreflight(s, k) \/ RetryModel(s, k) \/ RunAction(s, k)
  \/ EndReply(s, k) \/ LeaveAdjacency(s, k) \/ AuthPause(s, k) \/ ModelPause(s, k)
  \/ RunnerError(s, k)

LEMMA GotoShape ==
  ASSUME TypeOK, NEW s \in Sessions, NEW k \in Slots, NEW p \in Awaits,
         Goto(s, k, p), UNCHANGED durable
  PROVE  Shape(s, k)
  <1>1. RunnerMoves(s, k) /\ runner'[s][k].pc = p /\ KeysKept
    BY GotoMoves, UnchangedKeys DEF durable
  <1>2. StatusMoves(s, k) /\ RowTypes
    BY <1>1 DEF StatusMoves, RowTypes, durable, TypeOK, Awaits, Over
  <1>. QED BY <1>1, <1>2 DEF Shape

LEMMA RunnerPausesShape ==
  ASSUME TypeOK, NEW s \in Sessions, NEW k \in Slots, NEW err \in Errors,
         NEW jobStatus \in JobStatuses, NEW key \in Keys \ {"resume_requested"},
         RunnerPauses(s, k, err, jobStatus, key)
  PROVE  Shape(s, k)
  <1>1. RunnerMoves(s, k)
    BY GotoMoves DEF RunnerPauses, Over
  <1>2. KeysKept
    BY AddedKey, UnchangedKeys DEF RunnerPauses
  <1>3. StatusMoves(s, k)
    BY DEF StatusMoves, RunnerPauses, TypeOK
  <1>4. RowTypes
    <2>1. agent' \in [Sessions -> AgentStates]
      <3>1. Parked(agent[s]) \in AgentStates
        BY ParkedType DEF TypeOK
      <3>. QED BY <3>1 DEF RunnerPauses, TypeOK
    <2>2. job' \in [Sessions -> JobStatuses]
      BY DEF RunnerPauses, TypeOK, JobStatuses, Mark
    <2>. QED BY <2>1, <2>2 DEF RowTypes, RunnerPauses, TypeOK, Statuses
  <1>. QED BY <1>1, <1>2, <1>3, <1>4 DEF Shape

\* Every working step has the common shape, of a runner that was not over.
LEMMA WorksShape ==
  ASSUME TypeOK, NEW s \in Sessions, NEW k \in Slots, Works(s, k)
  PROVE  Shape(s, k) /\ KeptByRunner /\ At(s, k, Awaits \cup {"spawned"})
  <1>1. At(s, k, Awaits \cup {"spawned"}) /\ KeptByRunner
    <2>1. InPhase \subseteq Awaits
      BY DEF InPhase, Awaits
    <2>. QED
      BY <2>1 DEF Works, EndReply, Begin, LeavePreflight, RetryModel, RunAction, NextIteration,
         LeavePhase, LeaveAdjacency, AuthPause, ModelPause, RunnerError, RunnerPauses,
         At, Awaits, InPhase
  <1>2. job[s] \in JobStatuses /\ Mark(job[s], "researching") \in JobStatuses
    BY DEF TypeOK, Mark, JobStatuses
  <1>3. agent[s] \in AgentStates /\ runner[s][k] \in Runner /\ IsOpen(s) \in BOOLEAN
    BY DEF TypeOK, IsOpen
  <1>4. {"model", "retry", "action", "adjacency", "report"} \subseteq Awaits
    BY DEF Awaits
  <1>5. "reporting" \in AgentStates
    BY DEF AgentStates
  <1>6. CASE Begin(s, k)
    <2>1. runner[s][k].heals \in 0..HealAttempts
      BY <1>3 DEF Runner
    <2>. QED BY <1>1, <1>3, <1>6, <2>1, AttemptsShape DEF Begin
  <1>7. CASE LeavePreflight(s, k)
    BY <1>1, <1>2, <1>7, PhaseHeadShape DEF LeavePreflight
  <1>8. CASE RetryModel(s, k)
    BY <1>1, <1>4, <1>8, GotoShape DEF RetryModel
  <1>9. CASE RunAction(s, k)
    BY <1>1, <1>4, <1>9, GotoShape, StopsPausedShape DEF RunAction
  <1>10. CASE NextIteration(s, k)
    BY <1>1, <1>2, <1>4, <1>10, GotoShape, StopsPausedShape, StopsCancelledShape
       DEF NextIteration
  <1>11. CASE LeavePhase(s, k)
    BY <1>1, <1>2, <1>3, <1>4, <1>5, <1>11, PhaseHeadShape, MovesOnShape DEF LeavePhase
  <1>12. CASE LeaveAdjacency(s, k)
    BY <1>1, <1>2, <1>12, PhaseHeadShape DEF LeaveAdjacency
  <1>13. CASE AuthPause(s, k)
    BY <1>1, <1>13, RunnerPausesShape DEF AuthPause, Errors, JobStatuses, Keys
  <1>14. CASE ModelPause(s, k)
    BY <1>1, <1>14, RunnerPausesShape DEF ModelPause, Errors, JobStatuses, Keys
  <1>15. CASE RunnerError(s, k)
    BY <1>1, <1>2, <1>3, <1>15, RaisesShape DEF RunnerError
  <1>. QED
    BY <1>6, <1>7, <1>8, <1>9, <1>10, <1>11, <1>12, <1>13, <1>14, <1>15 DEF Works, EndReply

-----------------------------------------------------------------------------
(* The invariant is inductive *)

LEMMA InitInv == Init => IInv
  <1>. SUFFICES ASSUME Init PROVE IInv
    OBVIOUS
  <1>1. FreeRunner \in Runner
    BY LimitAssumption DEF FreeRunner, Runner, PCs
  <1>2. TypeOK
    BY <1>1 DEF Init, TypeOK, Statuses, Errors, AgentStates, JobStatuses
  <1>. QED
    BY <1>2 DEF Init, IInv, RegistryIsLive, DownIsEmpty, FlagMeansCancelled,
       RunningHasRunner, OneRunnerUntilCancelled, Live, CompletedHasReport, CompletedIsOver,
       FreeRunner, NoResumeRequest

\* A step of the common shape, of a runner that was not over, which loses no report.
LEMMA ShapeInv ==
  ASSUME IInv, NEW s \in Sessions, NEW k \in Slots, Shape(s, k),
         At(s, k, Awaits \cup {"spawned"}), UNCHANGED <<registry, up, wasCancelled>>,
         report' \in [Sessions -> BOOLEAN], \A t \in Sessions : report[t] => report'[t]
  PROVE  IInv'
  <1>. TypeOK
    BY DEF IInv
  <1>1. At(s, k, Awaits \cup {"spawned"})
    OBVIOUS
  <1>2. /\ RowTypes /\ KeysKept /\ StatusMoves(s, k) /\ RunnerMoves(s, k)
        /\ UNCHANGED <<registry, up, wasCancelled>> /\ up
    BY <1>1 DEF Shape, At
  <1>3. TypeOK'
    BY <1>2 DEF TypeOK, RowTypes, KeysKept, RunnerMoves
  <1>4. \A t \in Sessions, l \in Slots : runner'[t][l].pc = "free" <=> runner[t][l].pc = "free"
    BY <1>1, <1>2 DEF RunnerMoves, At, Awaits, Over
  <1>5. RegistryIsLive'
    BY <1>2, <1>4 DEF IInv, RegistryIsLive, TypeOK
  <1>6. DownIsEmpty'
    BY <1>2 DEF DownIsEmpty
  <1>7. FlagMeansCancelled'
    BY <1>2 DEF IInv, FlagMeansCancelled, RunnerMoves
  <1>8. RunningHasRunner'
    <2>. SUFFICES ASSUME NEW t \in Sessions, status'[t] = "running"
                  PROVE  \E l \in Slots : runner'[t][l].pc \in Awaits
      BY DEF RunningHasRunner
    <2>1. CASE t = s
      BY <1>2, <2>1 DEF StatusMoves, RunnerMoves
    <2>2. CASE t # s
      BY <1>2, <2>2 DEF StatusMoves, RunnerMoves, IInv, RunningHasRunner
    <2>. QED BY <2>1, <2>2
  <1>9. OneRunnerUntilCancelled'
    BY <1>2, <1>4 DEF IInv, OneRunnerUntilCancelled, Live
  <1>10. CompletedHasReport'
    BY <1>2 DEF IInv, CompletedHasReport, StatusMoves
  <1>11. CompletedIsOver'
    <2>1. ~(status[s] = "completed" /\ ~wasCancelled[s])
      BY <1>1 DEF IInv, CompletedIsOver, At, Awaits, Over
    <2>. QED BY <1>2, <2>1 DEF IInv, CompletedIsOver, StatusMoves, RunnerMoves
  <1>12. NoResumeRequest'
    BY <1>2 DEF IInv, NoResumeRequest, KeysKept
  <1>. QED BY <1>3, <1>5, <1>6, <1>7, <1>8, <1>9, <1>10, <1>11, <1>12 DEF IInv

LEMMA WorksInv ==
  ASSUME IInv, NEW s \in Sessions, NEW k \in Slots, Works(s, k)
  PROVE  IInv'
  <1>1. TypeOK
    BY DEF IInv
  <1>2. Shape(s, k) /\ KeptByRunner /\ At(s, k, Awaits \cup {"spawned"})
    BY <1>1, WorksShape
  <1>3. /\ UNCHANGED <<registry, up, wasCancelled>>
        /\ report' \in [Sessions -> BOOLEAN]
        /\ \A t \in Sessions : report[t] => report'[t]
    BY <1>1, <1>2 DEF KeptByRunner, TypeOK
  <1>. QED BY <1>2, <1>3, ShapeInv

LEMMA FinishInv ==
  ASSUME IInv, NEW s \in Sessions, NEW k \in Slots, Finish(s, k)
  PROVE  IInv'
  <1>. TypeOK
    BY DEF IInv
  <1>1. /\ up /\ runner[s][k].pc = "report"
        /\ report' = [report EXCEPT ![s] = TRUE]
        /\ UNCHANGED <<registry, up, wasCancelled>>
    BY DEF Finish, At
  <1>2. CASE ~AgentCan(agent[s], "done")
    <2>1. Raises(s, k, FALSE, job[s]) /\ job[s] \in JobStatuses
      BY <1>2 DEF Finish, TypeOK
    <2>2. Shape(s, k)
      BY <2>1, RaisesShape
    <2>3. At(s, k, Awaits \cup {"spawned"})
      BY <1>1 DEF At, Awaits
    <2>4. report' \in [Sessions -> BOOLEAN] /\ \A t \in Sessions : report[t] => report'[t]
      BY <1>1 DEF TypeOK
    <2>. QED BY <1>1, <2>2, <2>3, <2>4, ShapeInv
  <1>3. CASE AgentCan(agent[s], "done")
    <2>1. /\ status' = [status EXCEPT ![s] = "completed"]
          /\ agent' = [agent EXCEPT ![s] = "done"]
          /\ job' = [job EXCEPT ![s] = Mark(@, "completed")]
          /\ Goto(s, k, "ending")
          /\ UNCHANGED <<error, ckpt>>
      BY <1>3 DEF Finish
    <2>2. RunnerMoves(s, k) /\ runner'[s][k].pc = "ending"
      BY <2>1, GotoMoves DEF Over
    <2>3. TypeOK'
      <3>1. job' \in [Sessions -> JobStatuses]
        BY <2>1 DEF TypeOK, JobStatuses, Mark
      <3>. QED
        BY <1>1, <2>1, <2>2, <3>1 DEF TypeOK, Statuses, AgentStates, RunnerMoves
    <2>4. \A t \in Sessions, l \in Slots :
             runner'[t][l].pc = "free" <=> runner[t][l].pc = "free"
      BY <1>1, <2>2 DEF RunnerMoves
    <2>5. RegistryIsLive'
      BY <1>1, <2>4 DEF IInv, RegistryIsLive, TypeOK
    <2>6. DownIsEmpty'
      BY <1>1 DEF DownIsEmpty
    <2>7. FlagMeansCancelled'
      BY <1>1, <2>2 DEF IInv, FlagMeansCancelled, RunnerMoves
    <2>8. RunningHasRunner'
      BY <1>1, <2>1, <2>2 DEF IInv, RunningHasRunner, RunnerMoves, TypeOK
    <2>9. OneRunnerUntilCancelled'
      BY <1>1, <2>4 DEF IInv, OneRunnerUntilCancelled, Live
    <2>10. CompletedHasReport'
      BY <1>1, <2>1 DEF IInv, CompletedHasReport, TypeOK
    <2>11. CompletedIsOver'
      <3>. SUFFICES ASSUME NEW t \in Sessions, status'[t] = "completed", ~wasCancelled[t],
                           NEW l \in Slots
                    PROVE  runner'[t][l].pc \in Over \cup {"free"}
        BY <1>1 DEF CompletedIsOver
      <3>1. CASE t # s
        BY <2>1, <2>2, <3>1 DEF IInv, CompletedIsOver, RunnerMoves, TypeOK
      <3>2. CASE t = s /\ l = k
        BY <2>2, <3>2 DEF Over
      <3>3. CASE t = s /\ l # k
        <4>1. l \notin Live(s)
          BY <1>1, <3>3 DEF IInv, OneRunnerUntilCancelled, Live
        <4>. QED BY <3>3, <4>1, <2>4 DEF Live
      <3>. QED BY <3>1, <3>2, <3>3
    <2>12. NoResumeRequest'
      BY <2>1 DEF IInv, NoResumeRequest
    <2>. QED
      BY <2>3, <2>5, <2>6, <2>7, <2>8, <2>9, <2>10, <2>11, <2>12 DEF IInv
  <1>. QED BY <1>2, <1>3

\* The done callback: the runner was over, so no running session loses its driver.
LEMMA DoneInv ==
  ASSUME IInv, NEW s \in Sessions, NEW k \in Slots, Done(s, k)
  PROVE  IInv'
  <1>. TypeOK
    BY DEF IInv
  <1>1. /\ up /\ runner[s][k].pc \in Over
        /\ runner' = [runner EXCEPT ![s] = [runner[s] EXCEPT ![k] = FreeRunner]]
        /\ registry' = [registry EXCEPT ![s] = None]
        /\ UNCHANGED <<status, error, agent, job, ckpt, report, up, wasCancelled>>
    BY DEF Done, At, durable
  <1>2. FreeRunner \in Runner /\ FreeRunner.pc = "free" /\ FreeRunner.cancelled = FALSE
    BY LimitAssumption DEF FreeRunner, Runner, PCs
  <1>3. /\ runner' \in [Sessions -> [Slots -> Runner]]
        /\ \A t \in Sessions, l \in Slots : t # s \/ l # k => runner'[t][l] = runner[t][l]
        /\ runner'[s][k] = FreeRunner
    BY <1>1, <1>2 DEF TypeOK
  <1>4. TypeOK'
    BY <1>1, <1>3 DEF TypeOK
  <1>5. RegistryIsLive'
    BY <1>1, <1>3 DEF IInv, RegistryIsLive, TypeOK
  <1>6. DownIsEmpty'
    BY <1>1 DEF DownIsEmpty
  <1>7. FlagMeansCancelled'
    BY <1>1, <1>2, <1>3 DEF IInv, FlagMeansCancelled
  <1>8. RunningHasRunner'
    BY <1>1, <1>3 DEF IInv, RunningHasRunner, Over, Awaits
  <1>9. OneRunnerUntilCancelled'
    <2>. SUFFICES ASSUME NEW t \in Sessions, ~wasCancelled[t], NEW l \in Slots,
                         runner'[t][l].pc # "free"
                  PROVE  l = registry'[t]
      BY <1>1 DEF OneRunnerUntilCancelled, Live
    <2>1. t # s \/ l # k
      BY <1>2, <1>3
    <2>2. l = registry[t]
      BY <1>3, <2>1 DEF IInv, OneRunnerUntilCancelled, Live
    <2>3. t = s => k = registry[s]
      BY <1>1 DEF IInv, OneRunnerUntilCancelled, Live, Over
    <2>. QED BY <1>1, <2>1, <2>2, <2>3 DEF TypeOK
  <1>10. CompletedHasReport'
    BY <1>1 DEF IInv, CompletedHasReport
  <1>11. CompletedIsOver'
    BY <1>1, <1>2, <1>3 DEF IInv, CompletedIsOver
  <1>12. NoResumeRequest'
    BY <1>1 DEF IInv, NoResumeRequest
  <1>. QED BY <1>4, <1>5, <1>6, <1>7, <1>8, <1>9, <1>10, <1>11, <1>12 DEF IInv

-----------------------------------------------------------------------------
(* Handlers that start runners *)

\* What RunnersStart(A) does, S being the sessions that get a runner.
StartsIn(A, S) ==
  /\ S \subseteq A
  /\ \A s \in S : /\ ~IsRunning(s)
                  /\ FreeSlot(s) \in Slots /\ runner[s][FreeSlot(s)].pc = "free"
                  /\ registry'[s] = FreeSlot(s)
                  /\ runner'[s][FreeSlot(s)] = NewRunner
  /\ \A t \in Sessions \ S : registry'[t] = registry[t]
  /\ \A t \in Sessions, l \in Slots :
       t \notin S \/ l # FreeSlot(t) => runner'[t][l] = runner[t][l]
  /\ runner' \in [Sessions -> [Slots -> Runner]]
  /\ registry' \in [Sessions -> Slots \cup {None}]

LEMMA NewIsRunner == /\ NewRunner \in Runner /\ NewRunner.pc = "spawned"
                     /\ NewRunner.cancelled = FALSE
  BY LimitAssumption DEF NewRunner, Runner, PCs

LEMMA StartsShape ==
  ASSUME TypeOK, NEW A \in SUBSET Sessions, RunnersStart(A)
  PROVE  \E S \in SUBSET A : StartsIn(A, S)
  <1>1. PICK S \in SUBSET {s \in A : ~IsRunning(s)} :
          /\ \A s \in S : Live(s) # Slots
          /\ registry' = [s \in Sessions |-> IF s \in S THEN FreeSlot(s) ELSE registry[s]]
          /\ runner' = [s \in Sessions |->
                          IF s \in S THEN [runner[s] EXCEPT ![FreeSlot(s)] = NewRunner]
                          ELSE runner[s]]
    BY DEF RunnersStart
  <1>2. \A s \in S : FreeSlot(s) \in Slots /\ runner[s][FreeSlot(s)].pc = "free"
    <2>. TAKE s \in S
    <2>1. \E k \in Slots : k \notin Live(s)
      BY <1>1 DEF Live
    <2>. QED BY <2>1 DEF FreeSlot, Live
  <1>3. \A s \in S : s \in Sessions /\ s \in A /\ ~IsRunning(s)
    OBVIOUS
  <1>4. runner \in [Sessions -> [Slots -> Runner]] /\ registry \in [Sessions -> Slots \cup {None}]
    BY DEF TypeOK
  <1>5. runner' \in [Sessions -> [Slots -> Runner]]
    BY <1>1, <1>2, <1>4, NewIsRunner
  <1>6. registry' \in [Sessions -> Slots \cup {None}]
    BY <1>1, <1>2, <1>4
  <1>7. \A s \in S : registry'[s] = FreeSlot(s) /\ runner'[s][FreeSlot(s)] = NewRunner
    BY <1>1, <1>2, <1>3, <1>4
  <1>8. \A t \in Sessions \ S : registry'[t] = registry[t]
    BY <1>1, <1>4
  <1>9. \A t \in Sessions, l \in Slots :
           t \notin S \/ l # FreeSlot(t) => runner'[t][l] = runner[t][l]
    BY <1>1, <1>2, <1>4
  <1>10. S \in SUBSET A
    OBVIOUS
  <1>11. StartsIn(A, S)
    BY <1>2, <1>3, <1>5, <1>6, <1>7, <1>8, <1>9, <1>10 DEF StartsIn
  <1>. QED BY <1>10, <1>11

\* A handler that may start runners for A, leaves the process up, and makes no
\* session running, nor completed.
LEMMA StartInv ==
  ASSUME IInv, NEW A \in SUBSET Sessions, RunnersStart(A), RowTypes, KeysKept, up',
         UNCHANGED <<report, wasCancelled>>,
         \A t \in Sessions : status'[t] = "running" => up /\ status[t] = "running",
         \A t \in Sessions : status'[t] = "completed" => status[t] = "completed" /\ t \notin A
  PROVE  IInv'
  <1>. TypeOK
    BY DEF IInv
  <1>1. PICK S \in SUBSET A : StartsIn(A, S)
    BY StartsShape
  <1>2. TypeOK'
    BY <1>1 DEF TypeOK, RowTypes, KeysKept, StartsIn
  <1>3. RegistryIsLive'
    <2>. SUFFICES ASSUME NEW t \in Sessions, registry'[t] # None
                  PROVE  runner'[t][registry'[t]].pc # "free"
      BY DEF RegistryIsLive
    <2>1. CASE t \in S
      BY <1>1, <2>1, NewIsRunner DEF StartsIn
    <2>2. CASE t \notin S
      <3>1. registry'[t] = registry[t] /\ registry[t] \in Slots
        BY <1>1, <2>2 DEF StartsIn, TypeOK
      <3>. QED BY <1>1, <2>2, <3>1 DEF StartsIn, IInv, RegistryIsLive
    <2>. QED BY <2>1, <2>2
  <1>4. DownIsEmpty'
    BY DEF DownIsEmpty
  <1>5. FlagMeansCancelled'
    BY <1>1, NewIsRunner DEF IInv, FlagMeansCancelled, StartsIn
  <1>6. RunningHasRunner'
    <2>. SUFFICES ASSUME NEW t \in Sessions, status'[t] = "running"
                  PROVE  \E l \in Slots : runner'[t][l].pc \in Awaits
      BY DEF RunningHasRunner
    <2>1. PICK l \in Slots : runner[t][l].pc \in Awaits
      BY DEF IInv, RunningHasRunner
    <2>2. runner'[t][l] = runner[t][l]
      BY <1>1, <2>1 DEF StartsIn, Awaits
    <2>. QED BY <2>1, <2>2
  <1>7. OneRunnerUntilCancelled'
    <2>. SUFFICES ASSUME NEW t \in Sessions, ~wasCancelled[t], NEW l \in Slots,
                         runner'[t][l].pc # "free"
                  PROVE  l = registry'[t]
      BY DEF OneRunnerUntilCancelled, Live
    <2>1. CASE t \notin S
      BY <1>1, <2>1 DEF StartsIn, IInv, OneRunnerUntilCancelled, Live
    <2>2. CASE t \in S /\ l # FreeSlot(t)
      <3>1. runner[t][l].pc # "free"
        BY <1>1, <2>2 DEF StartsIn
      <3>2. l = registry[t]
        BY <3>1 DEF IInv, OneRunnerUntilCancelled, Live
      <3>3. ~runner[t][l].cancelled
        BY DEF IInv, FlagMeansCancelled
      <3>4. IsRunning(t)
        BY <3>2, <3>3, NoneAssumption DEF IsRunning
      <3>. QED BY <1>1, <2>2, <3>4 DEF StartsIn
    <2>3. CASE t \in S /\ l = FreeSlot(t)
      BY <1>1, <2>3 DEF StartsIn
    <2>. QED BY <2>1, <2>2, <2>3
  <1>8. CompletedHasReport'
    BY DEF IInv, CompletedHasReport
  <1>9. CompletedIsOver'
    BY <1>1 DEF IInv, CompletedIsOver, StartsIn
  <1>10. NoResumeRequest'
    BY DEF IInv, NoResumeRequest, KeysKept
  <1>. QED BY <1>2, <1>3, <1>4, <1>5, <1>6, <1>7, <1>8, <1>9, <1>10 DEF IInv

LEMMA StartRouteInv ==
  ASSUME IInv, NEW s \in Sessions, Start(s) \/ Resume(s)
  PROVE  IInv'
  <1>. TypeOK
    BY DEF IInv
  <1>1. /\ up /\ status[s] \notin {"completed"}
        /\ status' = [status EXCEPT ![s] = "queued"]
        /\ \E j \in JobStatuses : job' = [job EXCEPT ![s] = j]
        /\ RunnersStart({s})
        /\ UNCHANGED <<error, agent, ckpt, report, up, wasCancelled>>
    BY DEF Start, Resume, MayResume, OpenStatuses, JobStatuses
  <1>2. RowTypes /\ KeysKept
    BY <1>1 DEF RowTypes, KeysKept, TypeOK, Statuses
  <1>3. \A t \in Sessions : status'[t] = "running" => up /\ status[t] = "running"
    BY <1>1 DEF TypeOK
  <1>4. \A t \in Sessions : status'[t] = "completed" => status[t] = "completed" /\ t \notin {s}
    BY <1>1 DEF TypeOK
  <1>. QED BY <1>1, <1>2, <1>3, <1>4, StartInv

LEMMA SignInInv == IInv /\ SignIn => IInv'
  <1>. SUFFICES ASSUME IInv, SignIn PROVE IInv'
    OBVIOUS
  <1>. TypeOK
    BY DEF IInv
  <1>1. /\ up
        /\ status' = [s \in Sessions |-> IF s \in AwaitingSignIn THEN "queued" ELSE status[s]]
        /\ job' = [s \in Sessions |-> IF s \in AwaitingSignIn THEN "queued" ELSE job[s]]
        /\ RunnersStart(AwaitingSignIn)
        /\ UNCHANGED <<error, agent, ckpt, report, up, wasCancelled>>
    BY DEF SignIn
  <1>2. AwaitingSignIn \in SUBSET Sessions
    BY DEF AwaitingSignIn
  <1>3. RowTypes /\ KeysKept
    BY <1>1 DEF RowTypes, KeysKept, TypeOK, Statuses, JobStatuses
  <1>4. \A t \in Sessions : status'[t] = "running" => up /\ status[t] = "running"
    BY <1>1
  <1>5. \A t \in Sessions :
           status'[t] = "completed" => status[t] = "completed" /\ t \notin AwaitingSignIn
    BY <1>1
  <1>. QED BY <1>1, <1>2, <1>3, <1>4, <1>5, StartInv

\* Boot: nothing ever asked for an automatic resume, so it starts no runner.
LEMMA NothingAutoResumed == IInv => AutoResumed = {}
  <1>. SUFFICES ASSUME IInv, NEW s \in Sessions PROVE s \notin AutoResumed
    BY DEF AutoResumed
  <1>1. ~Transient(s)
    BY DEF Transient, Recovered
  <1>. QED
    BY <1>1 DEF AutoResumed, BootKeys, Resumable, IInv, NoResumeRequest

LEMMA BootInv == IInv /\ Boot => IInv'
  <1>. SUFFICES ASSUME IInv, Boot PROVE IInv'
    OBVIOUS
  <1>. TypeOK
    BY DEF IInv
  <1>1. AutoResumed = {}
    BY NothingAutoResumed
  <1>2. \A s \in Sessions : ~Transient(s) /\ Classified(s) = Recovered(s)
                            /\ BootKeys(s) = ckpt[s]
    BY DEF Transient, Recovered, Classified, BootKeys, Resumable
  <1>3. /\ ~up /\ up'
        /\ status' = [s \in Sessions |-> Recovered(s)]
        /\ error' = [s \in Sessions |-> RecoveredError(s)]
        /\ job' = [s \in Sessions |-> Requeued(job[s])]
        /\ ckpt' = [s \in Sessions |-> ckpt[s]]
        /\ RunnersStart({})
        /\ UNCHANGED <<agent, report, wasCancelled>>
    BY <1>1, <1>2 DEF Boot
  <1>4. RowTypes
    <2>1. \A s \in Sessions : Recovered(s) \in Statuses \cup {"none"}
      BY DEF Recovered, TypeOK, Statuses
    <2>2. \A s \in Sessions : RecoveredError(s) \in Errors
      BY DEF RecoveredError, TypeOK, Errors
    <2>3. \A s \in Sessions : Requeued(job[s]) \in JobStatuses
      BY DEF Requeued, TypeOK, JobStatuses
    <2>. QED BY <1>3, <2>1, <2>2, <2>3 DEF RowTypes, TypeOK
  <1>5. KeysKept
    BY <1>3 DEF KeysKept, TypeOK
  <1>6. \A t \in Sessions : status'[t] = "running" => up /\ status[t] = "running"
    BY <1>3 DEF Recovered
  <1>7. \A t \in Sessions : status'[t] = "completed" => status[t] = "completed" /\ t \notin {}
    BY <1>3 DEF Recovered
  <1>. QED BY <1>3, <1>4, <1>5, <1>6, <1>7, StartInv

-----------------------------------------------------------------------------
(* The other routes, and the crash *)

LEMMA CreateInv ==
  ASSUME IInv, NEW s \in Sessions, Create(s)
  PROVE  IInv'
  <1>. TypeOK
    BY DEF IInv
  <1>1. /\ up /\ status' = [status EXCEPT ![s] = "draft"]
        /\ UNCHANGED <<error, agent, job, ckpt, report, runner, registry, up, wasCancelled>>
    BY DEF Create
  <1>2. TypeOK'
    BY <1>1 DEF TypeOK, Statuses
  <1>3. RegistryIsLive' /\ DownIsEmpty' /\ FlagMeansCancelled' /\ OneRunnerUntilCancelled'
        /\ NoResumeRequest'
    BY <1>1 DEF IInv, RegistryIsLive, DownIsEmpty, FlagMeansCancelled,
                OneRunnerUntilCancelled, Live, NoResumeRequest
  <1>4. RunningHasRunner' /\ CompletedHasReport' /\ CompletedIsOver'
    BY <1>1 DEF IInv, RunningHasRunner, CompletedHasReport, CompletedIsOver, TypeOK
  <1>. QED BY <1>2, <1>3, <1>4 DEF IInv

\* Pause and Cancel: the status moves, and the registered runner gets a flag.
LEMMA FlagInv ==
  ASSUME IInv, NEW s \in Sessions, Pause(s) \/ Cancel(s)
  PROVE  IInv'
  <1>. TypeOK
    BY DEF IInv
  <1>1. /\ up
        /\ UNCHANGED <<error, agent, ckpt, report, registry, up>>
        /\ wasCancelled' \in [Sessions -> BOOLEAN]
        /\ \A t \in Sessions : wasCancelled[t] => wasCancelled'[t]
    BY DEF Pause, Cancel, TypeOK
  <1>2. /\ status' \in [Sessions -> Statuses \cup {"none"}]
        /\ \A t \in Sessions : status'[t] = status[t] \/ status'[t] \in {"paused", "cancelled"}
    BY DEF Pause, Cancel, TypeOK, Statuses
  <1>3. job' \in [Sessions -> JobStatuses]
    BY DEF Pause, Cancel, TypeOK, Mark, JobStatuses
  <1>4. /\ runner' \in [Sessions -> [Slots -> Runner]]
        /\ \A t \in Sessions, l \in Slots :
             /\ runner'[t][l].pc = runner[t][l].pc
             /\ runner'[t][l].cancelled => runner[t][l].cancelled \/ wasCancelled'[t]
    <2>1. CASE registry[s] = None
      BY <2>1 DEF Pause, Cancel, TypeOK
    <2>2. CASE registry[s] # None
      <3>. DEFINE k  == registry[s]
                  rp == [runner[s][k] EXCEPT !.pause = TRUE]
                  rc == [runner[s][k] EXCEPT !.cancelled = TRUE]
      <3>1. k \in Slots
        BY <2>2 DEF TypeOK
      <3>2. runner \in [Sessions -> [Slots -> Runner]] /\ runner[s][k] \in Runner
        BY <3>1 DEF TypeOK
      <3>3. /\ rp \in Runner /\ rp.pc = runner[s][k].pc
            /\ rp.cancelled = runner[s][k].cancelled
        BY <3>2 DEF Runner
      <3>4. rc \in Runner /\ rc.pc = runner[s][k].pc
        BY <3>2 DEF Runner
      <3>5. CASE Pause(s)
        <4>1. runner' = [runner EXCEPT ![s] = [runner[s] EXCEPT ![k] = rp]]
          BY <2>2, <3>5 DEF Pause
        <4>. HIDE DEF k, rp
        <4>. QED BY <3>1, <3>2, <3>3, <4>1
      <3>6. CASE Cancel(s)
        <4>1. runner' = [runner EXCEPT ![s] = [runner[s] EXCEPT ![k] = rc]]
          BY <2>2, <3>6 DEF Cancel
        <4>2. wasCancelled'[s]
          BY <3>6 DEF Cancel, TypeOK
        <4>. HIDE DEF k, rc
        <4>. QED BY <3>1, <3>2, <3>4, <4>1, <4>2
      <3>. QED BY <3>5, <3>6
    <2>. QED BY <2>1, <2>2
  <1>5. TypeOK'
    BY <1>1, <1>2, <1>3, <1>4 DEF TypeOK
  <1>6. RegistryIsLive'
    <2>1. \A t \in Sessions : registry[t] # None => registry[t] \in Slots
      BY DEF TypeOK
    <2>. QED BY <1>1, <1>4, <2>1 DEF IInv, RegistryIsLive
  <1>7. DownIsEmpty' /\ NoResumeRequest'
    BY <1>1 DEF IInv, DownIsEmpty, NoResumeRequest
  <1>8. OneRunnerUntilCancelled'
    BY <1>1, <1>4 DEF IInv, OneRunnerUntilCancelled, Live
  <1>9. FlagMeansCancelled'
    BY <1>1, <1>4 DEF IInv, FlagMeansCancelled
  <1>p. \A t \in Sessions, l \in Slots : runner'[t][l].pc = runner[t][l].pc
    BY <1>4
  <1>10. RunningHasRunner'
    <2>. SUFFICES ASSUME NEW t \in Sessions, up', status'[t] = "running"
                  PROVE  \E k \in Slots : runner'[t][k].pc \in Awaits
      BY DEF RunningHasRunner
    <2>1. up /\ status[t] = "running"
      BY <1>1, <1>2
    <2>2. \E k \in Slots : runner[t][k].pc \in Awaits
      BY <2>1 DEF IInv, RunningHasRunner
    <2>. QED BY <1>p, <2>2
  <1>11. CompletedHasReport'
    BY <1>1, <1>2 DEF IInv, CompletedHasReport
  <1>12. CompletedIsOver'
    <2>1. \A t \in Sessions : status'[t] = "completed" => status[t] = "completed"
      BY <1>2
    <2>2. \A t \in Sessions : wasCancelled[t] => wasCancelled'[t]
      BY <1>1
    <2>. QED BY <1>p, <2>1, <2>2 DEF IInv, CompletedIsOver
  <1>. QED BY <1>5, <1>6, <1>7, <1>8, <1>9, <1>10, <1>11, <1>12 DEF IInv

LEMMA CrashInv ==
  ASSUME IInv, Crash \/ \E s \in Sessions, k \in Slots : CrashInFinish(s, k)
  PROVE  IInv'
  <1>. TypeOK
    BY DEF IInv
  <1>1. /\ ~up'
        /\ runner' = [s \in Sessions |-> [k \in Slots |-> FreeRunner]]
        /\ registry' = [s \in Sessions |-> None]
        /\ wasCancelled' = [s \in Sessions |-> FALSE]
        /\ UNCHANGED <<status, error, agent, job, ckpt>>
        /\ report' \in [Sessions -> BOOLEAN]
        /\ \A s \in Sessions : report[s] => report'[s]
    BY DEF Crash, CrashInFinish, LosesMemory, durable, TypeOK
  <1>2. FreeRunner \in Runner /\ FreeRunner.pc = "free" /\ FreeRunner.cancelled = FALSE
    BY LimitAssumption DEF FreeRunner, Runner, PCs
  <1>3. up' \in BOOLEAN
    BY DEF Crash, CrashInFinish, LosesMemory
  <1>4. TypeOK'
    BY <1>1, <1>2, <1>3 DEF TypeOK
  <1>5. RegistryIsLive' /\ DownIsEmpty' /\ FlagMeansCancelled' /\ RunningHasRunner'
        /\ OneRunnerUntilCancelled' /\ CompletedIsOver' /\ NoResumeRequest'
    BY <1>1, <1>2 DEF RegistryIsLive, DownIsEmpty, FlagMeansCancelled, RunningHasRunner,
       OneRunnerUntilCancelled, Live, CompletedIsOver, IInv, NoResumeRequest
  <1>6. CompletedHasReport'
    BY <1>1 DEF IInv, CompletedHasReport
  <1>. QED BY <1>4, <1>5, <1>6 DEF IInv

-----------------------------------------------------------------------------
(* The theorems *)

LEMMA StutterInv == IInv /\ UNCHANGED vars => IInv'
  BY DEF vars, IInv, TypeOK, RegistryIsLive, DownIsEmpty, FlagMeansCancelled,
     RunningHasRunner, OneRunnerUntilCancelled, Live, CompletedHasReport, CompletedIsOver,
     NoResumeRequest

LEMMA NextInv == IInv /\ [Next]_vars => IInv'
  <1>. SUFFICES ASSUME IInv, [Next]_vars PROVE IInv'
    OBVIOUS
  <1>1. CASE \E s \in Sessions : Route(s)
    BY <1>1, CreateInv, StartRouteInv, FlagInv DEF Route
  <1>2. CASE SignIn
    BY <1>2, SignInInv
  <1>3. CASE \E s \in Sessions, k \in Slots : RunnerStep(s, k)
    BY <1>3, WorksInv, FinishInv, DoneInv DEF RunnerStep, Works
  <1>4. CASE Crash \/ \E s \in Sessions, k \in Slots : CrashInFinish(s, k)
    BY <1>4, CrashInv
  <1>5. CASE Boot
    BY <1>5, BootInv
  <1>6. CASE UNCHANGED vars
    BY <1>6, StutterInv
  <1>. QED BY <1>1, <1>2, <1>3, <1>4, <1>5, <1>6 DEF Next

\* The inductive invariant, from which the theorems below are read off.
THEOREM Invariant == Spec => []IInv
  <1>. QED BY InitInv, NextInv, PTL DEF Spec

\* Every variable keeps its type.
THEOREM TypeCorrect == Spec => []TypeOK
  <1>1. IInv => TypeOK
    BY DEF IInv
  <1>. QED BY <1>1, Invariant, PTL

\* While the process serves, a session shown as running is being driven
\* (research_runner.run, routes/sessions, recovery.recover_all).
THEOREM RunningIsDriven == Spec => []RunningHasRunner
  <1>1. IInv => RunningHasRunner
    BY DEF IInv
  <1>. QED BY <1>1, Invariant, PTL

\* A session not cancelled since boot has one runner alive at most, and the registry
\* knows it (RunnerRegistry.start and its done callback).
THEOREM OneRunner == Spec => []OneRunnerUntilCancelled
  <1>1. IInv => OneRunnerUntilCancelled
    BY DEF IInv
  <1>. QED BY <1>1, Invariant, PTL

\* A completed session has its final report, across every crash
\* (_produce_final_report commits the report before it completes the session).
THEOREM CompletedReported == Spec => []CompletedHasReport
  <1>1. IInv => CompletedHasReport
    BY DEF IInv
  <1>. QED BY <1>1, Invariant, PTL

\* The steps of the runner of another session, or of one that is not over, keep a
\* completed or cancelled session as it is.
LEMMA StepKeeps ==
  ASSUME IInv, NEW s \in Sessions, NEW k \in Slots, RunnerStep(s, k), NEW t \in Sessions,
         t # s \/ Live(s) = {} \/ (status[s] = "completed" /\ ~wasCancelled[s])
  PROVE  status'[t] = status[t]
  <1>. TypeOK
    BY DEF IInv
  <1>1. CASE Done(s, k)
    BY <1>1 DEF Done, durable
  <1>2. CASE Finish(s, k)
    <2>1. runner[s][k].pc = "report"
      BY <1>2 DEF Finish, At
    <2>2. t # s
      BY <2>1 DEF Live, IInv, CompletedIsOver, Over
    <2>3. CASE AgentCan(agent[s], "done")
      BY <1>2, <2>2, <2>3 DEF Finish, TypeOK
    <2>4. CASE ~AgentCan(agent[s], "done")
      <3>1. Shape(s, k)
        BY <1>2, <2>4, RaisesShape DEF Finish, TypeOK
      <3>. QED BY <2>2, <3>1 DEF Shape, StatusMoves
    <2>. QED BY <2>3, <2>4
  <1>3. CASE Works(s, k)
    <2>1. Shape(s, k) /\ At(s, k, Awaits \cup {"spawned"})
      BY <1>3, WorksShape
    <2>2. t # s
      BY <2>1 DEF At, Live, Awaits, IInv, CompletedIsOver, Over
    <2>. QED BY <2>1, <2>2 DEF Shape, StatusMoves
  <1>. QED BY <1>1, <1>2, <1>3 DEF RunnerStep, Works

\* No late runner, sign-in, restart or route takes back a session completed and not
\* cancelled.
THEOREM CompletedStays == Spec => CompletedIsFinal
  <1>1. ASSUME IInv, [Next]_vars, NEW s \in Sessions, status[s] = "completed", ~wasCancelled[s]
        PROVE  status'[s] = "completed"
    <2>. TypeOK
      BY <1>1 DEF IInv
    <2>1. CASE \E t \in Sessions : Route(t)
      BY <1>1, <2>1 DEF Route, Create, Start, Pause, Resume, MayResume, Cancel, OpenStatuses, TypeOK
    <2>2. CASE SignIn
      BY <1>1, <2>2 DEF SignIn, AwaitingSignIn
    <2>3. CASE \E t \in Sessions, k \in Slots : RunnerStep(t, k)
      BY <1>1, <2>3, StepKeeps
    <2>4. CASE Crash \/ \E t \in Sessions, k \in Slots : CrashInFinish(t, k)
      BY <1>1, <2>4 DEF Crash, CrashInFinish, durable
    <2>5. CASE Boot
      BY <1>1, <2>5, NothingAutoResumed DEF Boot, Classified, Transient, Recovered
    <2>6. CASE UNCHANGED vars
      BY <1>1, <2>6 DEF vars
    <2>. QED BY <1>1, <2>1, <2>2, <2>3, <2>4, <2>5, <2>6 DEF Next
  <1>2. IInv /\ [Next]_vars =>
          [\A s \in Sessions : status[s] = "completed" /\ ~wasCancelled[s]
             => status'[s] = "completed"]_vars
    BY <1>1
  <1>. QED BY <1>2, Invariant, PTL DEF Spec, CompletedIsFinal

\* A cancelled session none of whose runners is alive stays cancelled.
THEOREM CancelledStays == Spec => CancelledIsFinal
  <1>1. ASSUME IInv, [Next]_vars, NEW s \in Sessions, status[s] = "cancelled", Live(s) = {}
        PROVE  status'[s] = "cancelled"
    <2>. TypeOK
      BY <1>1 DEF IInv
    <2>1. CASE \E t \in Sessions : Route(t)
      BY <1>1, <2>1 DEF Route, Create, Start, Pause, Resume, MayResume, Cancel, OpenStatuses, TypeOK
    <2>2. CASE SignIn
      BY <1>1, <2>2 DEF SignIn, AwaitingSignIn
    <2>3. CASE \E t \in Sessions, k \in Slots : RunnerStep(t, k)
      BY <1>1, <2>3, StepKeeps
    <2>4. CASE Crash \/ \E t \in Sessions, k \in Slots : CrashInFinish(t, k)
      BY <1>1, <2>4 DEF Crash, CrashInFinish, durable
    <2>5. CASE Boot
      BY <1>1, <2>5, NothingAutoResumed DEF Boot, Classified, Transient, Recovered
    <2>6. CASE UNCHANGED vars
      BY <1>1, <2>6 DEF vars
    <2>. QED BY <1>1, <2>1, <2>2, <2>3, <2>4, <2>5, <2>6 DEF Next
  <1>2. IInv /\ [Next]_vars =>
          [\A s \in Sessions : status[s] = "cancelled" /\ Live(s) = {}
             => status'[s] = "cancelled"]_vars
    BY <1>1
  <1>. QED BY <1>2, Invariant, PTL DEF Spec, CancelledIsFinal

\* After a boot no session waits for a runner that does not exist (recover_all).
THEOREM NoOrphanAfterBoot == Spec => BootLeavesNoOrphan
  <1>1. ASSUME IInv, [Next]_vars, ~up, up', NEW s \in Sessions
        PROVE  status'[s] \notin {"queued", "running"}
    <2>1. ~(\E t \in Sessions : Route(t))
      BY <1>1 DEF Route, Create, Start, Pause, Resume, Cancel
    <2>2. ~(\E t \in Sessions, k \in Slots : RunnerStep(t, k) \/ CrashInFinish(t, k))
      <3>1. ASSUME NEW t \in Sessions, NEW k \in Slots, Works(t, k) PROVE FALSE
        BY <1>1, <3>1, WorksShape DEF IInv, At
      <3>2. ASSUME NEW t \in Sessions, NEW k \in Slots, Finish(t, k) \/ Done(t, k)
                   \/ CrashInFinish(t, k)
            PROVE FALSE
        BY <1>1, <3>2 DEF Finish, Done, CrashInFinish, At
      <3>. QED BY <3>1, <3>2 DEF RunnerStep, Works
    <2>3. ~SignIn /\ ~Crash /\ ~UNCHANGED vars
      BY <1>1 DEF SignIn, Crash, LosesMemory, vars
    <2>4. Boot
      BY <1>1, <2>1, <2>2, <2>3 DEF Next
    <2>. QED
      BY <1>1, <2>4, NothingAutoResumed DEF Boot, Classified, Transient, Recovered
  <1>2. IInv /\ [Next]_vars =>
          [~up /\ up' => \A s \in Sessions :
             status'[s] \in {"queued", "running"} => registry'[s] # None]_vars
    BY <1>1
  <1>. QED BY <1>2, Invariant, PTL DEF Spec, BootLeavesNoOrphan

-----------------------------------------------------------------------------
(* The cap *)

Active == {s \in Sessions : IsRunning(s)}

WithinCap == Cardinality(Active) <= MaxConcurrent

LEMMA ActiveFinite == IsFiniteSet(Active) /\ Cardinality(Active) \in Nat
  BY FiniteAssumption, FS_Subset, FS_CardinalityType DEF Active

\* Fewer sessions running stay within the cap.
LEMMA FewerRunning ==
  ASSUME WithinCap, \A s \in Sessions : IsRunning(s)' => IsRunning(s)
  PROVE  WithinCap'
  <1>1. Active' \subseteq Active
    BY DEF Active
  <1>2. Cardinality(Active') <= Cardinality(Active) /\ Cardinality(Active') \in Nat
    BY <1>1, ActiveFinite, FS_Subset, FS_CardinalityType
  <1>. QED BY <1>2, ActiveFinite, LimitAssumption DEF WithinCap

\* Starting as many as there is room for stays within the cap.
LEMMA StartWithinCap ==
  ASSUME TypeOK, WithinCap, NEW A \in SUBSET Sessions, RunnersStart(A)
  PROVE  WithinCap'
  <1>. DEFINE waiting == {s \in A : ~IsRunning(s)}
              room    == IF ActiveCount < MaxConcurrent THEN MaxConcurrent - ActiveCount ELSE 0
  <1>1. PICK S \in SUBSET waiting :
          /\ IF Cardinality(waiting) <= room THEN S = waiting ELSE Cardinality(S) = room
          /\ registry' = [s \in Sessions |-> IF s \in S THEN FreeSlot(s) ELSE registry[s]]
          /\ runner' = [s \in Sessions |->
                          IF s \in S THEN [runner[s] EXCEPT ![FreeSlot(s)] = NewRunner]
                          ELSE runner[s]]
    BY DEF RunnersStart
  <1>2. ActiveCount = Cardinality(Active)
    BY DEF ActiveCount, Active
  <1>3. room \in Nat /\ Cardinality(Active) + room <= MaxConcurrent
    BY <1>2, ActiveFinite, LimitAssumption DEF WithinCap
  <1>4. IsFiniteSet(S) /\ Cardinality(S) \in Nat /\ Cardinality(S) <= room
    <2>1. S \subseteq Sessions /\ IsFiniteSet(S)
      BY FiniteAssumption, FS_Subset
    <2>2. Cardinality(S) \in Nat
      BY <2>1, FS_CardinalityType
    <2>3. Cardinality(S) <= room
      <3>1. CASE Cardinality(waiting) <= room
        BY <1>1, <3>1
      <3>2. CASE ~(Cardinality(waiting) <= room)
        BY <1>1, <1>3, <3>2
      <3>. QED BY <3>1, <3>2
    <2>. QED BY <2>1, <2>2, <2>3
  <1>5. Active' \subseteq Active \cup S
    BY <1>1 DEF Active, IsRunning
  <1>6. /\ IsFiniteSet(Active \cup S)
        /\ Cardinality(Active \cup S) =
             Cardinality(Active) + Cardinality(S) - Cardinality(Active \cap S)
    BY <1>4, ActiveFinite, FS_Union
  <1>7. Cardinality(Active \cap S) \in Nat
    <2>1. IsFiniteSet(Active \cap S)
      BY <1>4, FS_Subset
    <2>. QED BY <2>1, FS_CardinalityType
  <1>8. Cardinality(Active') <= Cardinality(Active \cup S) /\ Cardinality(Active') \in Nat
    BY <1>5, <1>6, FS_Subset, FS_CardinalityType
  <1>9. Cardinality(Active \cup S) \in Nat
    BY <1>6, FS_CardinalityType
  <1>. HIDE DEF room
  <1>. QED
    BY <1>3, <1>4, <1>6, <1>7, <1>8, <1>9, ActiveFinite, LimitAssumption DEF WithinCap

LEMMA WithinCapStep ==
  ASSUME IInv, WithinCap, [Next]_vars
  PROVE  WithinCap'
  <1>. TypeOK
    BY DEF IInv
  <1>1. CASE \E s \in Sessions : Start(s) \/ Resume(s)
    BY <1>1, StartWithinCap DEF Start, Resume
  <1>2. CASE SignIn
    <2>1. AwaitingSignIn \in SUBSET Sessions
      BY DEF AwaitingSignIn
    <2>. QED BY <1>2, <2>1, StartWithinCap DEF SignIn
  <1>3. CASE Boot
    <2>1. AutoResumed \in SUBSET Sessions
      BY DEF AutoResumed
    <2>. QED BY <1>3, <2>1, StartWithinCap DEF Boot
  <1>4. CASE \E s \in Sessions : Create(s)
    <2>1. \A s \in Sessions : IsRunning(s)' => IsRunning(s)
      BY <1>4 DEF Create, IsRunning
    <2>. QED BY <2>1, FewerRunning
  <1>5. CASE \E s \in Sessions : Pause(s) \/ Cancel(s)
    <2>1. PICK s \in Sessions : Pause(s) \/ Cancel(s)
      BY <1>5
    <2>2. \A t \in Sessions : registry'[t] = registry[t]
      BY <2>1 DEF Pause, Cancel
    <2>3. \A t \in Sessions, k \in Slots : runner[t][k].cancelled => runner'[t][k].cancelled
      <3>1. CASE registry[s] = None
        BY <2>1, <3>1 DEF Pause, Cancel
      <3>2. CASE registry[s] # None
        <4>. DEFINE k  == registry[s]
                    rp == [runner[s][k] EXCEPT !.pause = TRUE]
                    rc == [runner[s][k] EXCEPT !.cancelled = TRUE]
        <4>1. k \in Slots /\ runner[s][k] \in Runner /\ runner \in [Sessions -> [Slots -> Runner]]
          BY <3>2 DEF TypeOK
        <4>2. rc.cancelled /\ rp.cancelled = runner[s][k].cancelled
          BY <4>1 DEF Runner
        <4>3. \/ runner' = [runner EXCEPT ![s] = [runner[s] EXCEPT ![k] = rp]]
              \/ runner' = [runner EXCEPT ![s] = [runner[s] EXCEPT ![k] = rc]]
          BY <2>1, <3>2 DEF Pause, Cancel
        <4>. HIDE DEF k, rp, rc
        <4>. QED BY <4>1, <4>2, <4>3
      <3>. QED BY <3>1, <3>2
    <2>4. \A t \in Sessions : IsRunning(t)' => IsRunning(t)
      <3>1. \A t \in Sessions : registry[t] # None => registry[t] \in Slots
        BY DEF TypeOK
      <3>. QED BY <2>2, <2>3, <3>1 DEF IsRunning
    <2>. QED BY <2>4, FewerRunning
  <1>6. CASE \E s \in Sessions, k \in Slots : Works(s, k) \/ Finish(s, k)
    <2>1. PICK s \in Sessions, k \in Slots : Works(s, k) \/ Finish(s, k)
      BY <1>6
    <2>2. RunnerMoves(s, k) /\ registry' = registry
      <3>1. CASE Works(s, k)
        BY <3>1, WorksShape DEF Shape, KeptByRunner
      <3>2. CASE Finish(s, k) /\ AgentCan(agent[s], "done")
        BY <3>2, GotoMoves DEF Finish, Over
      <3>3. CASE Finish(s, k) /\ ~AgentCan(agent[s], "done")
        BY <3>3, RaisesShape DEF Finish, Shape, TypeOK
      <3>. QED BY <2>1, <3>1, <3>2, <3>3
    <2>3. \A t \in Sessions : registry[t] # None => registry[t] \in Slots
      BY DEF TypeOK
    <2>4. \A t \in Sessions : IsRunning(t)' => IsRunning(t)
      BY <2>2, <2>3 DEF IsRunning, RunnerMoves
    <2>. QED BY <2>4, FewerRunning
  <1>7. CASE \E s \in Sessions, k \in Slots : Done(s, k)
    <2>1. PICK s \in Sessions, k \in Slots : Done(s, k)
      BY <1>7
    <2>2. \A t \in Sessions : IsRunning(t)' => IsRunning(t)
      BY <2>1 DEF Done, IsRunning, TypeOK
    <2>. QED BY <2>2, FewerRunning
  <1>8. CASE Crash \/ \E s \in Sessions, k \in Slots : CrashInFinish(s, k)
    <2>1. \A s \in Sessions : ~IsRunning(s)'
      BY <1>8 DEF Crash, CrashInFinish, LosesMemory, IsRunning
    <2>. QED BY <2>1, FewerRunning
  <1>9. CASE UNCHANGED vars
    BY <1>9, FewerRunning DEF vars, IsRunning
  <1>. QED
    BY <1>1, <1>2, <1>3, <1>4, <1>5, <1>6, <1>7, <1>8, <1>9 DEF Next, Route, RunnerStep, Works

\* Whatever mix of starts, resumes and sign-ins: the sessions not cancelled since boot
\* never occupy more runners than MAX_CONCURRENT_SESSIONS (RunnerRegistry.start).
THEOREM CapHolds == Spec => []CapUntilCancelled
  <1>1. Init => WithinCap
    <2>1. Init => Active = {}
      BY DEF Init, Active, IsRunning
    <2>. QED BY <2>1, FS_EmptySet, LimitAssumption DEF WithinCap
  <1>2. IInv /\ WithinCap => CapUntilCancelled
    <2>. SUFFICES ASSUME IInv, WithinCap PROVE CapUntilCancelled
      OBVIOUS
    <2>. DEFINE busy == {s \in Sessions : ~wasCancelled[s] /\ Live(s) # {}}
    <2>1. busy \subseteq Active
      BY NoneAssumption DEF IInv, TypeOK, OneRunnerUntilCancelled, FlagMeansCancelled, Live,
         Active, IsRunning
    <2>2. Cardinality(busy) <= Cardinality(Active) /\ Cardinality(busy) \in Nat
      BY <2>1, ActiveFinite, FS_Subset, FS_CardinalityType
    <2>. QED BY <2>2, ActiveFinite, LimitAssumption DEF WithinCap, CapUntilCancelled
  <1>. QED BY <1>1, <1>2, WithinCapStep, Invariant, PTL DEF Spec
-----------------------------------------------------------------------------
(* Delivery: the dives and the report at the end of a session *)

\* A sequence, of whatever it may be.
IsSequence(s) == \E n \in Nat : s = [i \in 1..n |-> s[i]]

\* What a sequence of whatever has in common with one of a set's members.
LEMMA SequenceIsSeq ==
  ASSUME NEW s
  PROVE  /\ \A S : s \in Seq(S) => IsSequence(s)
         /\ IsSequence(s) => /\ DOMAIN s = 1..Len(s) /\ Len(s) \in Nat
                             /\ \A S : (\A i \in DOMAIN s : s[i] \in S) => s \in Seq(S)
<1>1. ASSUME NEW S, s \in Seq(S) PROVE IsSequence(s)
  <2>1. Len(s) \in Nat /\ s = [i \in 1..Len(s) |-> s[i]]
    BY <1>1
  <2> QED BY <2>1 DEF IsSequence
<1>2. ASSUME IsSequence(s)
      PROVE  /\ DOMAIN s = 1..Len(s) /\ Len(s) \in Nat
             /\ \A S : (\A i \in DOMAIN s : s[i] \in S) => s \in Seq(S)
  <2>1. PICK n \in Nat : s = [i \in 1..n |-> s[i]]
    BY <1>2 DEF IsSequence
  <2>2. DOMAIN s = 1..n
    BY <2>1
  <2>3. ASSUME NEW S, \A i \in DOMAIN s : s[i] \in S PROVE s \in Seq(S)
    <3>1. s \in [1..n -> S]
      BY <2>1, <2>2, <2>3
    <3> QED BY <3>1, SeqDef
  <2>4. s \in Seq({s[i] : i \in DOMAIN s})
    BY <2>3
  <2>5. DOMAIN s = 1..Len(s) /\ Len(s) \in Nat
    BY <2>4
  <2> QED BY <2>3, <2>5
<1> QED BY <1>1, <1>2

\* One more at the end.
LEMMA AppendAny ==
  ASSUME NEW s, IsSequence(s), NEW e
  PROVE  /\ IsSequence(Append(s, e))
         /\ DOMAIN s = 1..Len(s) /\ Len(s) \in Nat
         /\ DOMAIN Append(s, e) = 1..(Len(s) + 1)
         /\ \A i \in DOMAIN s : Append(s, e)[i] = s[i]
         /\ Append(s, e)[Len(s) + 1] = e
<1> DEFINE S == {s[i] : i \in DOMAIN s} \cup {e}
<1>1. DOMAIN s = 1..Len(s) /\ Len(s) \in Nat
  BY SequenceIsSeq
<1>2. s \in Seq(S)
  <2>1. \A i \in DOMAIN s : s[i] \in S
    OBVIOUS
  <2> HIDE DEF S
  <2> QED BY <2>1, SequenceIsSeq
<1>3. e \in S
  OBVIOUS
<1> HIDE DEF S
<1>4. Append(s, e) \in Seq(S) /\ Len(Append(s, e)) = Len(s) + 1
      /\ (\A i \in 1..Len(s) : Append(s, e)[i] = s[i]) /\ Append(s, e)[Len(s) + 1] = e
  BY <1>2, <1>3, AppendProperties
<1>5. IsSequence(Append(s, e))
  BY <1>4, SequenceIsSeq
<1> QED BY <1>1, <1>4, <1>5, SequenceIsSeq

\* Several more at the end.
LEMMA ConcatAny ==
  ASSUME NEW s, IsSequence(s), NEW t, IsSequence(t)
  PROVE  /\ IsSequence(s \o t)
         /\ \A i \in DOMAIN s : i \in DOMAIN (s \o t) /\ (s \o t)[i] = s[i]
         /\ \A i \in DOMAIN (s \o t) : i \in DOMAIN s \/ \E j \in DOMAIN t : (s \o t)[i] = t[j]
<1> DEFINE S == {s[i] : i \in DOMAIN s} \cup {t[i] : i \in DOMAIN t}
<1>1. DOMAIN s = 1..Len(s) /\ Len(s) \in Nat /\ DOMAIN t = 1..Len(t) /\ Len(t) \in Nat
  BY SequenceIsSeq
<1>2. s \in Seq(S) /\ t \in Seq(S)
  <2>1. (\A i \in DOMAIN s : s[i] \in S) /\ (\A i \in DOMAIN t : t[i] \in S)
    OBVIOUS
  <2> HIDE DEF S
  <2> QED BY <2>1, SequenceIsSeq
<1> HIDE DEF S
<1>3. /\ s \o t \in Seq(S) /\ Len(s \o t) = Len(s) + Len(t)
      /\ \A i \in 1..Len(s) + Len(t) : (s \o t)[i] = IF i <= Len(s) THEN s[i] ELSE t[i - Len(s)]
  BY <1>2, ConcatProperties
<1>4. IsSequence(s \o t) /\ DOMAIN (s \o t) = 1..(Len(s) + Len(t))
  BY <1>3, SequenceIsSeq
<1>5. \A i \in DOMAIN s : i \in DOMAIN (s \o t) /\ (s \o t)[i] = s[i]
  BY <1>1, <1>3, <1>4
<1>6. ASSUME NEW i \in DOMAIN (s \o t), i \notin DOMAIN s
      PROVE  \E j \in DOMAIN t : (s \o t)[i] = t[j]
  <2>1. i \in 1..(Len(s) + Len(t)) /\ ~(i <= Len(s)) /\ i - Len(s) \in DOMAIN t
    BY <1>1, <1>4, <1>6
  <2>2. (s \o t)[i] = t[i - Len(s)]
    BY <1>3, <2>1
  <2> QED BY <2>1, <2>2
<1> QED BY <1>4, <1>5, <1>6

(* What is grounded *)

\* What a sentence says stays grounded when more is measured.
LEMMA MoreFigures ==
  ASSUME NEW few, NEW many, few \subseteq many
  PROVE  /\ \A prose : ProseIsGrounded(prose, few) => ProseIsGrounded(prose, many)
         /\ \A book : BookIsGrounded(book, few) => BookIsGrounded(book, many)
BY DEF ProseIsGrounded, BookIsGrounded

\* Nothing is grounded in anything.
LEMMA NothingIsGrounded ==
  ASSUME NEW figures
  PROVE  ProseIsGrounded({}, figures) /\ BookIsGrounded(NoPlaybook, figures)
BY DEF ProseIsGrounded, BookIsGrounded, NoPlaybook

\* Grounding keeps the sentences that cite what is allowed.
LEMMA GroundingGrounds ==
  ASSUME NEW text, NEW allowed
  PROVE  ProseIsGrounded(Checked(text, allowed).kept, allowed)
BY DEF Checked, Ground, ProseIsGrounded, Unknown

\* So does a narrative.
LEMMA NarrativeGrounds ==
  ASSUME NEW reply, NEW allowed
  PROVE  ProseIsGrounded(GroundNarrative(reply, allowed).kept, allowed)
<1>1. CASE reply.usable
  <2>1. GroundNarrative(reply, allowed) = Checked(reply.prose, allowed)
    BY <1>1 DEF GroundNarrative
  <2> QED BY <2>1, GroundingGrounds
<1>2. CASE ~reply.usable
  <2>1. GroundNarrative(reply, allowed).kept = {}
    BY <1>2 DEF GroundNarrative
  <2> QED BY <2>1, NothingIsGrounded
<1> QED BY <1>1, <1>2

\* A title that is kept cites what is allowed, or a number too small to be a statistic.
LEMMA TitlesGround ==
  ASSUME NEW titles, NEW targets, NEW allowed,
         NEW t \in GroundTitles(titles, targets, allowed).kept
  PROVE  /\ \A n \in t.cites : n < 1000 \/ n \in allowed
         /\ \A n \in t.why : Benign(n) \/ n \in allowed
<1>1. PICK i \in FreshTitles(titles, targets, allowed) :
        t = Argued(titles[i], targets, allowed)
  BY DEF GroundTitles
<1>2. TitleFiguresOk(titles[i], allowed)
  BY <1>1 DEF FreshTitles
<1>3. t.cites = titles[i].cites
      /\ (t.why = {} \/ (t.why = titles[i].why /\ Grounded(titles[i], allowed)))
  BY <1>1 DEF Argued
<1> QED BY <1>2, <1>3 DEF TitleFiguresOk, Grounded, Unknown

\* So does a playbook, in its prose and its titles.
LEMMA PlaybookGrounds ==
  ASSUME NEW reply, NEW rows, NEW niche, NEW reviewed, NEW allowed
  PROVE  LET got == GroundPlaybook(reply, rows, niche, reviewed, allowed)
         IN  BookIsGrounded(got.kept, allowed)
<1> DEFINE prose  == Checked({s \in reply.prose : s.part = "beating" => reviewed}, allowed)
           titles == GroundTitles(reply.titles, Targets(rows, niche), allowed)
<1>1. CASE ~reply.usable
  BY <1>1, NothingIsGrounded DEF GroundPlaybook
<1>2. CASE reply.usable
  <2>1. GroundPlaybook(reply, rows, niche, reviewed, allowed).kept =
          [prose |-> prose.kept, titles |-> titles.kept]
    BY <1>2 DEF GroundPlaybook
  <2>2. ProseIsGrounded(prose.kept, allowed)
    BY GroundingGrounds
  <2>3. \A t \in titles.kept : /\ \A n \in t.cites : n < 1000 \/ n \in allowed
                               /\ \A n \in t.why : Benign(n) \/ n \in allowed
    BY TitlesGround
  <2> HIDE DEF prose, titles
  <2> QED BY <2>1, <2>2, <2>3 DEF BookIsGrounded
<1> QED BY <1>1, <1>2

\* What of a text is grounded does not depend on its form.
LEMMA RenderGrounds ==
  ASSUME NEW m, TextIsGrounded(m), NEW broken
  PROVE  TextIsGrounded(Render(m, broken))
         /\ Render(m, broken).badge = m.verdict
<1>1. /\ RenderFallback(m).prose = {}
      /\ RenderFallback(m).books = [c \in Cands |-> NoPlaybook]
      /\ RenderFallback(m).badge = m.verdict
  BY DEF RenderFallback, NoBooks, Badge
<1>2. /\ RenderMarkdown(m).prose = m.prose /\ RenderMarkdown(m).badge = m.verdict
      /\ \A c \in Cands : RenderMarkdown(m).books[c] \in {m.books[c], NoPlaybook}
  BY DEF RenderMarkdown, Badge, RenderFinalistPlaybooks
<1>3. TextIsGrounded(RenderFallback(m))
  BY <1>1, NothingIsGrounded DEF TextIsGrounded
<1>4. TextIsGrounded(RenderMarkdown(m))
  BY <1>2, NothingIsGrounded DEF TextIsGrounded
<1> QED BY <1>1, <1>2, <1>3, <1>4 DEF Render

\* A text of nobody's cites nothing.
LEMMA EmptyText ==
  ASSUME NEW m, m.prose = {}, m.books = NoBooks
  PROVE  TextIsGrounded(m)
BY NothingIsGrounded DEF TextIsGrounded, NoBooks

-----------------------------------------------------------------------------
(* What is measured *)

\* The figures of these sections were measured for their candidates.
Measures(sections) == \A s \in sections :
  Figures(s.rows) \subseteq MeasuredFor(s.cand)

\* What is found for a candidate was measured under one of its two niches.
LEMMA ResearchMeasured ==
  ASSUME NEW c
  PROVE  Figures(BackendResearch(c).rows) \subseteq MeasuredFor(c)
<1> DEFINE niche == IF Indexed(Label[c]) \/ c \notin Finals(ReportRead) THEN Label[c]
                    ELSE NicheOf[c]
<1>1. BackendResearch(c) = DiveIndex(niche)
  BY DEF BackendResearch
<1>2. DiveIndex(niche).rows = UNION {e.rows : e \in Newest("keywords", niche)}
  BY DEF DiveIndex
<1>3. niche \in {NicheOf[c], Label[c]}
  OBVIOUS
<1>4. ASSUME NEW e \in Newest("keywords", niche)
      PROVE e \in ToSet(captures) /\ e.niche = niche
  BY <1>4 DEF Newest, ToSet
<1> HIDE DEF niche
<1>5. ASSUME NEW n \in Figures(BackendResearch(c).rows) PROVE n \in MeasuredFor(c)
  <2>1. PICK r \in DiveIndex(niche).rows : r.measured /\ r.total >= 0 /\ n = r.total
    BY <1>1, <1>5 DEF Figures
  <2>2. PICK e \in Newest("keywords", niche) : r \in e.rows
    BY <1>2, <2>1
  <2>3. n \in Figures(e.rows)
    BY <2>1, <2>2 DEF Figures
  <2> QED BY <1>3, <1>4, <2>2, <2>3 DEF MeasuredFor
<1> QED BY <1>5

\* So were the rows of a section.
LEMMA SectionMeasured ==
  ASSUME NEW c
  PROVE  Figures(Section(c).rows) \subseteq MeasuredFor(c)
         /\ Section(c).cand = c
<1>1. /\ Section(c).rows = RankKeywords(BackendResearch(c).rows, MaxKeywords)
      /\ Section(c).cand = c
  BY DEF Section
<1>2. Figures(Section(c).rows) \subseteq Figures(BackendResearch(c).rows)
  BY <1>1 DEF Figures, RankKeywords
<1> QED BY <1>1, <1>2, ResearchMeasured

\* What a model knows of the dossiers is known of them, or of the run.
Knows(m) == m.figures \subseteq KnownOverall

\* A model has these parts.
IsModel(m) ==
  /\ m = [built |-> m.built, verdict |-> m.verdict, prose |-> m.prose, books |-> m.books,
          sections |-> m.sections, figures |-> m.figures, notes |-> m.notes]
  /\ DOMAIN m.books = Cands

\* A model that has just been built says nothing, and has the final candidates.
LEMMA BuiltModel ==
  ASSUME NEW how, NEW cap
  PROVE  LET m == BuildReportModel(how, cap)
         IN /\ IsModel(m) /\ m.verdict = "none" /\ m.prose = {} /\ m.books = NoBooks
            /\ TextIsGrounded(m) /\ Measures(m.sections) /\ Knows(m)
            /\ \A s \in m.sections : s.cand \in FinalCandidateOrder(cap)
<1> DEFINE m == BuildReportModel(how, cap)
<1>1. /\ m.verdict = "none" /\ m.prose = {} /\ m.books = NoBooks
      /\ m.sections = FinalistSections(cap)
      /\ m.figures = UNION {Figures(BackendResearch(c).rows) : c \in ToSet(Dossiers)}
  BY DEF BuildReportModel
<1>5. IsModel(m)
  BY DEF BuildReportModel, IsModel, NoBooks
<1>6. Knows(m)
  <2>1. \A c : Figures(BackendResearch(c).rows) \subseteq KnownOf(c)
    BY ResearchMeasured DEF KnownOf
  <2>2. m.figures \subseteq UNION {KnownOf(c) : c \in ToSet(Dossiers)}
    BY <1>1, <2>1
  <2> QED BY <2>2 DEF Knows, KnownOverall
<1>2. TextIsGrounded(m)
  BY <1>1, EmptyText
<1>3. Measures(m.sections)
  BY <1>1, SectionMeasured DEF FinalistSections, Measures
<1>4. \A s \in m.sections : s.cand \in FinalCandidateOrder(cap)
  BY <1>1, SectionMeasured DEF FinalistSections
<1> QED BY <1>1, <1>2, <1>3, <1>4, <1>5, <1>6

\* What a narrative may cite was counted, or is known of a dossier or of the run.
LEMMA AllowedIsKnown ==
  ASSUME NEW m, Knows(m)
  PROVE  AllowedInNarrative(m) \subseteq KnownOverall
<1>1. TextOf(ToSet(Dossiers)) \subseteq UNION {KnownOf(c) : c \in ToSet(Dossiers)}
  BY DEF TextOf, KnownOf
<1> QED BY <1>1 DEF AllowedInNarrative, KnownOverall, Knows

-----------------------------------------------------------------------------
(* The texts of a run and of its reports *)

\* What the run is writing.
Writes ==
  /\ IsModel(model) /\ TextIsGrounded(model) /\ Measures(model.sections) /\ Knows(model)
  /\ ProseIsGrounded(draft, KnownOverall) /\ Measures(due)
  /\ pc # "model" => model.verdict = "none"

\* A report and its model: what they cite, and the verdict they show.
ReportIsSound(r) ==
  /\ r = [kind |-> r.kind, mode |-> r.mode, model |-> r.model, body |-> r.body]
  /\ TextIsGrounded(r.body) /\ r.body.badge \in {r.mode, "none"}
  /\ TextIsGrounded(r.model) /\ r.model.verdict \in {r.mode, "none"}

Stores ==
  /\ IsSequence(captures) /\ IsSequence(reports)
  /\ \A i \in DOMAIN reports : ReportIsSound(reports[i])
  /\ pc = "model" => /\ reports # <<>>
                     /\ model.verdict = reports[Len(reports)].mode

TextInv == Writes /\ Stores

\* More captures: what was grounded in those there were is grounded still.
LEMMA MoreMeasured ==
  ASSUME ToSet(captures) \subseteq ToSet(captures)'
  PROVE  /\ KnownOverall \subseteq KnownOverall'
         /\ \A c : KnownOf(c) \subseteq KnownOf(c)'
         /\ \A m : TextIsGrounded(m) => TextIsGrounded(m)'
         /\ \A m : Knows(m) => Knows(m)'
         /\ \A S : Measures(S) => Measures(S)'
         /\ \A r : ReportIsSound(r) => ReportIsSound(r)'
<1>6. \A c : MeasuredFor(c) \subseteq MeasuredFor(c)'
  BY DEF MeasuredFor
<1>1. \A c : KnownOf(c) \subseteq KnownOf(c)'
  BY <1>6 DEF KnownOf
<1>2. KnownOverall \subseteq KnownOverall'
  BY <1>1 DEF KnownOverall
<1>3. ASSUME NEW m, TextIsGrounded(m) PROVE TextIsGrounded(m)'
  BY <1>1, <1>2, <1>3, MoreFigures DEF TextIsGrounded
<1>4. \A S : Measures(S) => Measures(S)'
  BY <1>6 DEF Measures
<1>5. \A r : ReportIsSound(r) => ReportIsSound(r)'
  BY <1>3 DEF ReportIsSound
<1>7. \A m : Knows(m) => Knows(m)'
  BY <1>2 DEF Knows
<1> QED BY <1>1, <1>2, <1>3, <1>4, <1>5, <1>7

\* The model of no run.
LEMMA NoModelFacts ==
  /\ IsModel(NoModel) /\ TextIsGrounded(NoModel)
  /\ Measures(NoModel.sections) /\ Knows(NoModel)
  /\ NoModel.verdict = "none" /\ NoModel.sections = {}
  /\ ProseIsGrounded({}, KnownOverall) /\ Measures({})
<1>1. NoModel.prose = {} /\ NoModel.books = NoBooks
  BY DEF NoModel
<1>2. TextIsGrounded(NoModel)
  BY <1>1, EmptyText
<1>3. IsModel(NoModel) /\ NoModel.verdict = "none" /\ NoModel.sections = {}
  BY DEF IsModel, NoModel, NoBooks
<1>4. ProseIsGrounded({}, KnownOverall)
  BY NothingIsGrounded
<1>5. Measures({})
  BY DEF Measures
<1>6. Knows(NoModel)
  BY DEF Knows, NoModel
<1> QED BY <1>2, <1>3, <1>4, <1>5, <1>6

\* A step that writes nothing of the report.
LEMMA DiveTexts ==
  ASSUME TextInv, IsSequence(captures)', ToSet(captures) \subseteq ToSet(captures)',
         UNCHANGED <<model, draft, due, reports>>, pc # "model", pc' # "model"
  PROVE  TextInv'
<1>1. Writes'
  <2>1. IsModel(model)' /\ TextIsGrounded(model)'
    BY MoreMeasured DEF TextInv, Writes, IsModel
  <2>2. Measures(model.sections)' /\ Measures(due)' /\ Knows(model)'
    BY MoreMeasured DEF TextInv, Writes, Knows
  <2>3. ProseIsGrounded(draft, KnownOverall)'
    BY MoreMeasured, MoreFigures DEF TextInv, Writes
  <2> QED BY <2>1, <2>2, <2>3 DEF TextInv, Writes
<1>2. Stores'
  BY MoreMeasured DEF TextInv, Stores
<1> QED BY <1>1, <1>2 DEF TextInv

\* A step that stores no capture.
LEMMA QuietTexts ==
  ASSUME TextInv, UNCHANGED <<captures, model, draft, due, reports>>, pc # "model", pc' # "model"
  PROVE  TextInv'
<1>1. IsSequence(captures)' /\ ToSet(captures) \subseteq ToSet(captures)'
  BY DEF TextInv, Stores, IsSequence
<1> QED BY <1>1, DiveTexts

\* Filing the keywords of a dive.
LEMMA FileTexts == ASSUME TextInv, FileKeywords PROVE TextInv'
<1>1. UNCHANGED <<model, draft, due, reports>> /\ pc # "model" /\ pc' # "model"
  BY DEF FileKeywords, StillDiving, InDive
<1>2. CASE UNCHANGED captures
  BY <1>1, <1>2, QuietTexts
<1>3. CASE captures' # captures
  <2>1. PICK e : captures' = Append(captures, e)
    BY <1>3 DEF FileKeywords
  <2>2. IsSequence(captures)
    BY DEF TextInv, Stores
  <2>3. IsSequence(captures') /\ \A i \in DOMAIN captures :
          i \in DOMAIN captures' /\ captures'[i] = captures[i]
    BY <2>1, <2>2, AppendAny
  <2>4. ToSet(captures) \subseteq ToSet(captures)'
    BY <2>3 DEF ToSet
  <2> QED BY <1>1, <2>3, <2>4, DiveTexts
<1> QED BY <1>2, <1>3

\* Filing what the stores' pages show.
LEMMA MapTexts == ASSUME TextInv, MapCategories PROVE TextInv'
<1>1. UNCHANGED <<model, draft, due, reports>> /\ pc # "model" /\ pc' # "model"
  BY DEF MapCategories, StillDiving, InDive
<1>2. PICK shown \in Shown :
        captures' = captures \o [i \in DOMAIN shown |-> Capture(shown[i], {})]
  BY DEF MapCategories
<1> DEFINE more == [i \in DOMAIN shown |-> Capture(shown[i], {})]
<1>3. IsSequence(captures)
  BY DEF TextInv, Stores
<1>4. IsSequence(more)
  <2>1. shown \in Seq({"reviews", "categories"})
    BY DeliveryAssumption
  <2>2. Len(shown) \in Nat /\ DOMAIN shown = 1..Len(shown)
    BY <2>1
  <2>3. more = [i \in 1..Len(shown) |-> more[i]]
    BY <2>2
  <2> QED BY <2>2, <2>3 DEF IsSequence
<1> HIDE DEF more
<1>5. captures' = captures \o more
  BY <1>2 DEF more
<1>6. IsSequence(captures') /\ \A i \in DOMAIN captures :
        i \in DOMAIN captures' /\ captures'[i] = captures[i]
  BY <1>3, <1>4, <1>5, ConcatAny
<1>7. ToSet(captures) \subseteq ToSet(captures)'
  BY <1>6 DEF ToSet
<1> QED BY <1>1, <1>6, <1>7, DiveTexts

\* No step of a dive writes of the report.
LEMMA DiveStepTexts == ASSUME TextInv, DiveStep PROVE TextInv'
<1>1. ASSUME WriteFinalReport \/ SkipDives \/ NextDive PROVE TextInv'
  BY <1>1, QuietTexts DEF WriteFinalReport, SkipDives, NextDive, stored
<1>2. ASSUME EndDives \/ CloseDive PROVE TextInv'
  BY <1>2, QuietTexts DEF EndDives, CloseDive, InDive
<1>3. ASSUME MinePhrases \/ DiveFails \/ MeasureKeyword PROVE TextInv'
  <2>1. UNCHANGED <<captures, model, draft, due, reports>> /\ pc # "model" /\ pc' # "model"
    BY <1>3 DEF MinePhrases, DiveFails, MeasureKeyword, StillDiving,
       InDive
  <2> QED BY <2>1, QuietTexts
<1> QED BY <1>1, <1>2, <1>3, FileTexts, MapTexts DEF DiveStep

\* A step on the text being written.
LEMMA TextStep ==
  ASSUME TextInv, UNCHANGED <<captures, reports>>, Writes', pc' # "model"
  PROVE  TextInv'
<1>1. ToSet(captures) \subseteq ToSet(captures)'
  BY DEF ToSet
<1>2. Stores'
  BY <1>1, MoreMeasured DEF TextInv, Stores, IsSequence
<1> QED BY <1>2 DEF TextInv

\* A model is built, in full or in part.
LEMMA BuildTexts == ASSUME TextInv, BuildModel PROVE TextInv'
<1>1. UNCHANGED <<captures, reports>> /\ draft' = {} /\ due' = model'.sections /\ pc' # "model"
  BY DEF BuildModel, stored
<1>2. ToSet(captures) \subseteq ToSet(captures)'
  BY <1>1 DEF ToSet
<1>3. PICK m : m = model' /\ (m = BuildReportModel("full", DiveCap)
        \/ m = [NoModel EXCEPT !.built = "minimal", !.notes = Noted])
  BY DEF BuildModel
<1>4. IsModel(m) /\ TextIsGrounded(m) /\ Measures(m.sections) /\ Knows(m)
      /\ m.verdict = "none"
  <2>1. CASE m = BuildReportModel("full", DiveCap)
    <3> QED BY <2>1, BuiltModel
  <2>2. CASE m = [NoModel EXCEPT !.built = "minimal", !.notes = Noted]
    <3>1. m = [built |-> "minimal", verdict |-> "none", prose |-> {}, books |-> NoBooks,
            sections |-> {}, figures |-> {}, notes |-> Noted]
      BY <2>2 DEF NoModel
    <3>2. IsModel(m)
      BY <3>1 DEF IsModel, NoBooks
    <3>3. TextIsGrounded(m)
      BY <3>1, EmptyText
    <3> QED BY <3>1, <3>2, <3>3 DEF Measures, Knows
  <2> QED BY <1>3, <2>1, <2>2
<1>5. IsModel(m)' /\ TextIsGrounded(m)' /\ Measures(m.sections)' /\ Knows(m)'
      /\ ProseIsGrounded({}, KnownOverall')
  BY <1>2, <1>4, MoreMeasured, NothingIsGrounded DEF IsModel
<1>6. Writes'
  BY <1>1, <1>3, <1>4, <1>5 DEF Writes, IsModel, TextIsGrounded, Knows
<1> QED BY <1>1, <1>6, TextStep

\* A narrative: a reply's grounded prose, or what the first reply left.
LEMMA NarrateTexts == ASSUME TextInv, AnalystNarrative PROVE TextInv'
<1>1. UNCHANGED <<captures, reports, due>> /\ pc # "model" /\ pc' # "model"
  BY DEF AnalystNarrative, Writing, stored
<1>2. ToSet(captures) = ToSet(captures)'
      /\ KnownOverall = KnownOverall'
      /\ \A c : MeasuredFor(c) = MeasuredFor(c)' /\ KnownOf(c) = KnownOf(c)'
  <2>1. ToSet(captures) = ToSet(captures)'
    BY <1>1 DEF ToSet
  <2>2. \A c : MeasuredFor(c) = MeasuredFor(c)'
    BY <2>1 DEF MeasuredFor
  <2>3. \A c : KnownOf(c) = KnownOf(c)'
    BY <2>2 DEF KnownOf
  <2> QED BY <2>1, <2>2, <2>3 DEF KnownOverall
<1>3. IsModel(model) /\ TextIsGrounded(model) /\ Measures(model.sections) /\ Knows(model)
      /\ model.verdict = "none"
      /\ ProseIsGrounded(draft, KnownOverall) /\ Measures(due)
  BY <1>1 DEF TextInv, Writes
<1>4. PICK prose : /\ model' = model \/ model' = [model EXCEPT !.prose = prose]
                   /\ draft' \in {{}, prose}
                   /\ ProseIsGrounded(prose, KnownOverall)
  <2>1. CASE model' = [model EXCEPT !.prose = draft] /\ draft' = {}
    BY <1>3, <2>1
  <2>2. ASSUME NEW reply \in Replies,
               LET got  == GroundNarrative(reply, AllowedInNarrative(model))
                   over == attempt = 2 \/ (got.kept # {} /\ got.clean)
               IN /\ draft' = IF over THEN {} ELSE got.kept
                  /\ model' = IF over THEN [model EXCEPT !.prose = got.kept] ELSE model
        PROVE  \E prose : /\ model' = model \/ model' = [model EXCEPT !.prose = prose]
                          /\ draft' \in {{}, prose}
                          /\ ProseIsGrounded(prose, KnownOverall)
    <3> DEFINE got == GroundNarrative(reply, AllowedInNarrative(model))
    <3>1. ProseIsGrounded(got.kept, KnownOverall)
      BY <1>3, NarrativeGrounds, AllowedIsKnown, MoreFigures
    <3>2. /\ model' = model \/ model' = [model EXCEPT !.prose = got.kept]
          /\ draft' \in {{}, got.kept}
      BY <2>2
    <3> HIDE DEF got
    <3> QED BY <3>1, <3>2
  <2> QED BY <2>1, <2>2 DEF AnalystNarrative
<1>5. ProseIsGrounded(draft', KnownOverall')
  BY <1>2, <1>4, NothingIsGrounded
<1>6. PICK m : m = model'
  OBVIOUS
<1>7. IsModel(m) /\ TextIsGrounded(m) /\ m.sections = model.sections
      /\ m.figures = model.figures /\ m.verdict = "none"
  <2>1. CASE m = model
    BY <1>3, <2>1
  <2>2. CASE m = [model EXCEPT !.prose = prose]
    <3>1. /\ m = [built |-> model.built, verdict |-> model.verdict, prose |-> prose,
                  books |-> model.books, sections |-> model.sections,
                  figures |-> model.figures, notes |-> model.notes]
      BY <1>3, <2>2 DEF IsModel
    <3> QED BY <1>3, <1>4, <3>1 DEF IsModel, TextIsGrounded
  <2> QED BY <1>4, <1>6, <2>1, <2>2
<1>8. Writes'
  BY <1>1, <1>2, <1>3, <1>5, <1>6, <1>7 DEF Writes, IsModel, TextIsGrounded, Measures, Knows
<1> QED BY <1>1, <1>8, TextStep

\* A playbook: what is kept of a reply was measured for its candidate.
LEMMA BookTexts == ASSUME TextInv, FinalistPlaybook PROVE TextInv'
<1>1. UNCHANGED <<captures, reports, draft>> /\ pc # "model" /\ pc' # "model"
      /\ due' \subseteq due
  BY DEF FinalistPlaybook, Writing, stored
<1>2. ToSet(captures) = ToSet(captures)'
      /\ KnownOverall = KnownOverall'
      /\ \A c : MeasuredFor(c) = MeasuredFor(c)' /\ KnownOf(c) = KnownOf(c)'
  <2>1. ToSet(captures) = ToSet(captures)'
    BY <1>1 DEF ToSet
  <2>2. \A c : MeasuredFor(c) = MeasuredFor(c)'
    BY <2>1 DEF MeasuredFor
  <2>3. \A c : KnownOf(c) = KnownOf(c)'
    BY <2>2 DEF KnownOf
  <2> QED BY <2>1, <2>2, <2>3 DEF KnownOverall
<1>3. IsModel(model) /\ TextIsGrounded(model) /\ Measures(model.sections) /\ Knows(model)
      /\ model.verdict = "none"
      /\ ProseIsGrounded(draft, KnownOverall) /\ Measures(due)
  BY <1>1 DEF TextInv, Writes
<1>4. PICK m : m = model'
  OBVIOUS
<1>5. IsModel(m) /\ TextIsGrounded(m) /\ m.sections = model.sections
      /\ m.figures = model.figures /\ m.verdict = "none"
  <2>1. CASE m = model
    BY <1>3, <2>1
  <2>2. CASE m = [model EXCEPT !.books = NoBooks]
    <3>1. m = [built |-> model.built, verdict |-> model.verdict, prose |-> model.prose,
               books |-> NoBooks, sections |-> model.sections,
               figures |-> model.figures, notes |-> model.notes]
      BY <1>3, <2>2 DEF IsModel
    <3> QED BY <1>3, <3>1, NothingIsGrounded DEF IsModel, TextIsGrounded, NoBooks
  <2>3. ASSUME NEW s \in due, NEW reply \in BookReplies,
               LET got == GroundPlaybook(reply, s.rows, NicheOf[s.cand], s.heard,
                                         AllowedInPlaybook(s))
               IN m = [model EXCEPT !.books[s.cand] = got.kept]
        PROVE  IsModel(m) /\ TextIsGrounded(m) /\ m.sections = model.sections
               /\ m.figures = model.figures /\ m.verdict = "none"
    <3> DEFINE got == GroundPlaybook(reply, s.rows, NicheOf[s.cand], s.heard,
                                     AllowedInPlaybook(s))
    <3>1. BookIsGrounded(got.kept, AllowedInPlaybook(s))
      BY PlaybookGrounds
    <3>2. AllowedInPlaybook(s) \subseteq KnownOf(s.cand)
      BY <1>3 DEF Measures, AllowedInPlaybook, KnownOf
    <3>3. BookIsGrounded(got.kept, KnownOf(s.cand))
      BY <3>1, <3>2, MoreFigures
    <3>4. m = [model EXCEPT !.books[s.cand] = got.kept]
      BY <2>3
    <3> HIDE DEF got
    <3>5. m = [built |-> model.built, verdict |-> model.verdict, prose |-> model.prose,
               books |-> [model.books EXCEPT ![s.cand] = got.kept], sections |-> model.sections,
               figures |-> model.figures, notes |-> model.notes]
      BY <1>3, <3>4 DEF IsModel
    <3>6. DOMAIN m.books = Cands /\ m.prose = model.prose
      BY <1>3, <3>5 DEF IsModel
    <3>7. ASSUME NEW c \in Cands PROVE BookIsGrounded(m.books[c], KnownOf(c))
      <4>1. CASE c = s.cand
        BY <1>3, <3>3, <3>5, <4>1 DEF IsModel
      <4>2. CASE c # s.cand
        BY <1>3, <3>5, <4>2 DEF IsModel, TextIsGrounded
      <4> QED BY <4>1, <4>2
    <3> QED BY <1>3, <3>5, <3>6, <3>7 DEF IsModel, TextIsGrounded
  <2> QED BY <1>4, <2>1, <2>2, <2>3 DEF FinalistPlaybook
<1>6. Writes'
  BY <1>1, <1>2, <1>3, <1>4, <1>5 DEF Writes, IsModel, TextIsGrounded, Measures, Knows
<1> QED BY <1>1, <1>6, TextStep

\* A step that stores one report more.
LEMMA StoreTexts ==
  ASSUME TextInv, UNCHANGED captures, Writes', NEW r, ReportIsSound(r),
         reports' = Append(reports, r), pc' = "model" => model'.verdict = r.mode
  PROVE  TextInv'
<1>1. ToSet(captures) \subseteq ToSet(captures)' /\ IsSequence(captures)'
  BY DEF TextInv, Stores, ToSet, IsSequence
<1>2. \A q : ReportIsSound(q) => ReportIsSound(q)'
  BY <1>1, MoreMeasured
<1>3. /\ IsSequence(reports') /\ Len(reports) \in Nat
      /\ DOMAIN reports' = 1..(Len(reports) + 1) /\ DOMAIN reports = 1..Len(reports)
      /\ \A i \in DOMAIN reports : reports'[i] = reports[i]
      /\ reports'[Len(reports) + 1] = r
  BY AppendAny DEF TextInv, Stores
<1>4. \A i \in DOMAIN reports' : ReportIsSound(reports'[i])
  <2> SUFFICES ASSUME NEW i \in DOMAIN reports' PROVE ReportIsSound(reports'[i])
    OBVIOUS
  <2>1. CASE i \in DOMAIN reports
    BY <1>3, <2>1 DEF TextInv, Stores
  <2>2. CASE i \notin DOMAIN reports
    <3>1. i = Len(reports) + 1
      BY <1>3, <2>2
    <3> QED BY <1>3, <3>1
  <2> QED BY <2>1, <2>2
<1>5. PICK all : all = reports'
  OBVIOUS
<1>8. \A i \in DOMAIN all : ReportIsSound(all[i])'
  BY <1>2, <1>4, <1>5
<1>6. Len(reports') = Len(reports) + 1 /\ reports' # <<>>
  <2>1. DOMAIN reports' = 1..Len(reports') /\ Len(reports') \in Nat
    BY <1>3, SequenceIsSeq
  <2>2. 1 \in DOMAIN reports'
    BY <1>3
  <2> QED BY <1>3, <2>1, <2>2
<1>7. Stores'
  BY <1>1, <1>3, <1>5, <1>6, <1>8 DEF Stores
<1> QED BY <1>7 DEF TextInv

\* A step that leaves what is measured, and what is being written.
LEMMA SameTexts ==
  ASSUME TextInv, UNCHANGED <<captures, model, draft, due, pc>>
  PROVE  Writes'
<1>1. ToSet(captures) \subseteq ToSet(captures)'
  BY DEF ToSet
<1>2. ProseIsGrounded(draft, KnownOverall)'
  BY <1>1, MoreMeasured, MoreFigures DEF TextInv, Writes
<1>3. IsModel(model)' /\ TextIsGrounded(model)' /\ Measures(model.sections)'
      /\ Measures(due)' /\ Knows(model)'
  BY <1>1, MoreMeasured DEF TextInv, Writes, IsModel, Knows
<1> QED BY <1>2, <1>3 DEF TextInv, Writes

\* The report is saved with the verdict of its model.
LEMMA SaveTexts == ASSUME TextInv, SaveReport PROVE TextInv'
<1>1. UNCHANGED <<captures, draft, due>> /\ pc = "save" /\ pc' = "model"
  BY DEF SaveReport
<1>2. PICK verdict \in {"final", "provisional"}, broken, stale \in BOOLEAN :
        /\ model' = [model EXCEPT !.verdict = verdict]
        /\ reports' = Append(reports,
             [kind |-> "final", mode |-> verdict, model |-> NoModel,
              body |-> IF stale THEN Render(model, broken) ELSE Render(model', broken)])
  <2>1. PICK verdict \in {"final", "provisional"}, upset \in {"none", "layout", "second"} :
          /\ model' = [model EXCEPT !.verdict = verdict]
          /\ reports' = Append(reports,
               [kind |-> "final", mode |-> verdict, model |-> NoModel,
                body |-> IF upset = "second"
                         THEN Render(model, upset = "layout" \/ model.built = "minimal")
                         ELSE Render(model', upset = "layout" \/ model.built = "minimal")])
    BY DEF SaveReport
  <2>2. PICK broken : broken = (upset = "layout" \/ model.built = "minimal")
    OBVIOUS
  <2>3. PICK stale \in BOOLEAN : stale = (upset = "second")
    OBVIOUS
  <2> QED BY <2>1, <2>2, <2>3
<1>3. PICK m : m = model'
  OBVIOUS
<1>4. /\ m = [built |-> model.built, verdict |-> verdict, prose |-> model.prose,
              books |-> model.books, sections |-> model.sections,
              figures |-> model.figures, notes |-> model.notes]
  BY <1>2, <1>3 DEF TextInv, Writes, IsModel
<1>5. IsModel(m) /\ TextIsGrounded(m) /\ Measures(m.sections) /\ Knows(m)
  BY <1>4 DEF TextInv, Writes, IsModel, TextIsGrounded, Knows
<1>6. ToSet(captures) \subseteq ToSet(captures)'
  BY <1>1 DEF ToSet
<1>7. Writes'
  <2>1. IsModel(model)' /\ TextIsGrounded(m)' /\ Measures(m.sections)' /\ Measures(due)'
        /\ Knows(m)'
    BY <1>1, <1>3, <1>5, <1>6, MoreMeasured DEF IsModel, TextInv, Writes
  <2>2. ProseIsGrounded(draft, KnownOverall)'
    BY <1>1, <1>6, MoreMeasured, MoreFigures DEF TextInv, Writes
  <2> QED BY <1>1, <1>3, <2>1, <2>2 DEF Writes, TextIsGrounded, Knows
<1> DEFINE body == IF stale THEN Render(model, broken) ELSE Render(m, broken)
           r == [kind |-> "final", mode |-> verdict, model |-> NoModel, body |-> body]
<1>8. TextIsGrounded(body) /\ body.badge \in {verdict, "none"}
  <2>1. TextIsGrounded(model) /\ model.verdict = "none"
    BY <1>1 DEF TextInv, Writes
  <2>2. TextIsGrounded(Render(model, broken)) /\ Render(model, broken).badge = "none"
    BY <2>1, RenderGrounds
  <2>3. TextIsGrounded(Render(m, broken)) /\ Render(m, broken).badge = verdict
    BY <1>4, <1>5, RenderGrounds
  <2> QED BY <2>2, <2>3
<1>9. reports' = Append(reports, r)
  BY <1>2, <1>3
<1>10. ReportIsSound(r) /\ r.mode = verdict
  <2> HIDE DEF body
  <2>1. r.body = body /\ r.mode = verdict /\ r.model = NoModel
    OBVIOUS
  <2>2. r = [kind |-> r.kind, mode |-> r.mode, model |-> r.model, body |-> r.body]
    OBVIOUS
  <2> HIDE DEF r
  <2> QED BY <1>8, <2>1, <2>2, NoModelFacts DEF ReportIsSound
<1> HIDE DEF r
<1> QED BY <1>1, <1>3, <1>4, <1>7, <1>9, <1>10, StoreTexts

\* The model is stored with its report.
LEMMA ModelTexts == ASSUME TextInv, SaveModelJson PROVE TextInv'
<1>1. UNCHANGED <<captures, draft>> /\ model' = NoModel /\ due' = {} /\ pc' = "finish"
      /\ pc = "model"
  BY DEF SaveModelJson
<1>2. ToSet(captures) \subseteq ToSet(captures)' /\ IsSequence(captures)'
  BY <1>1 DEF TextInv, Stores, ToSet, IsSequence
<1>3. Writes'
  <2>1. ProseIsGrounded(draft, KnownOverall)'
    BY <1>1, <1>2, MoreMeasured, MoreFigures DEF TextInv, Writes
  <2>2. IsModel(NoModel)' /\ TextIsGrounded(NoModel)'
        /\ Measures(NoModel.sections)' /\ Measures({})' /\ Knows(NoModel)'
    BY <1>2, NoModelFacts, MoreMeasured DEF IsModel, NoModel, NoBooks
  <2> QED BY <1>1, <2>1, <2>2 DEF Writes, IsModel, TextIsGrounded, NoModel,
     NoBooks, Knows
<1>4. IsSequence(reports') /\ \A i \in DOMAIN reports' : ReportIsSound(reports'[i])
  <2>1. CASE UNCHANGED reports
    BY <2>1 DEF TextInv, Stores, IsSequence
  <2>2. CASE reports' = [reports EXCEPT ![Len(reports)].model = model]
    <3>1. PICK n \in Nat : reports = [i \in 1..n |-> reports[i]]
      BY DEF TextInv, Stores, IsSequence
    <3>2. reports' = [i \in 1..n |-> reports'[i]] /\ DOMAIN reports' = 1..n
          /\ DOMAIN reports = 1..n
      BY <2>2, <3>1
    <3>3. IsSequence(reports')
      BY <3>2 DEF IsSequence
    <3>4. \A i \in DOMAIN reports' : i # Len(reports) => reports'[i] = reports[i]
      BY <2>2, <3>2
    <3>5. PICK r : r = reports[Len(reports)]
      OBVIOUS
    <3>6. Len(reports) \in DOMAIN reports' =>
            reports'[Len(reports)] = [r EXCEPT !.model = model]
      BY <2>2, <3>2, <3>5
    <3>7. Len(reports) \in DOMAIN reports => ReportIsSound(r) /\ r.mode = model.verdict
      <4>1. pc = "model" => model.verdict = reports[Len(reports)].mode
        BY DEF TextInv, Stores
      <4> QED BY <1>1, <3>5, <4>1 DEF TextInv, Stores
    <3>8. ASSUME Len(reports) \in DOMAIN reports PROVE ReportIsSound([r EXCEPT !.model = model])
      <4>1. r = [kind |-> r.kind, mode |-> r.mode, model |-> r.model, body |-> r.body]
        BY <3>7, <3>8 DEF ReportIsSound
      <4>2. [r EXCEPT !.model = model] =
              [kind |-> r.kind, mode |-> r.mode, model |-> model, body |-> r.body]
        BY <4>1
      <4>3. TextIsGrounded(model)
        BY DEF TextInv, Writes
      <4> QED BY <3>7, <3>8, <4>2, <4>3 DEF ReportIsSound
    <3> QED BY <3>2, <3>3, <3>4, <3>6, <3>8 DEF TextInv, Stores
  <2> QED BY <2>1, <2>2 DEF SaveModelJson
<1>5. PICK all : all = reports'
  OBVIOUS
<1>7. \A i \in DOMAIN all : ReportIsSound(all[i])'
  BY <1>2, <1>4, <1>5, MoreMeasured
<1>6. Stores'
  BY <1>1, <1>2, <1>4, <1>5, <1>7 DEF Stores
<1> QED BY <1>3, <1>6 DEF TextInv

\* A report of the owner's own.
LEMMA OwnTexts == ASSUME TextInv, SaveOwnReport PROVE TextInv'
<1>4. PICK kind \in {"own", "final"} :
        reports' = Append(reports, [kind |-> kind, mode |-> "none", model |-> NoModel,
                                    body |-> OwnBody])
  BY DEF SaveOwnReport
<1> DEFINE r == [kind |-> kind, mode |-> "none", model |-> NoModel,
                 body |-> OwnBody]
<1>1. /\ UNCHANGED <<captures, model, draft, due, pc>> /\ pc' # "model"
      /\ reports' = Append(reports, r)
  BY <1>4 DEF SaveOwnReport, Served, engine, LoopIsFree
<1>2. TextIsGrounded(OwnBody) /\ OwnBody.badge = "none"
  <2>1. OwnBody.prose = {} /\ OwnBody.books = NoBooks
        /\ OwnBody.badge = "none"
    BY DEF OwnBody
  <2> QED BY <2>1, EmptyText
<1>3. ReportIsSound(r)
  <2>1. r.body = OwnBody /\ r.mode = "none" /\ r.model = NoModel
        /\ r = [kind |-> r.kind, mode |-> r.mode, model |-> r.model, body |-> r.body]
    OBVIOUS
  <2> HIDE DEF r
  <2> QED BY <1>2, <2>1, NoModelFacts DEF ReportIsSound
<1> HIDE DEF r
<1> QED BY <1>1, <1>3, SameTexts, StoreTexts

\* A report rendered anew shows the verdict its model had.
LEMMA RerenderTexts == ASSUME TextInv, NEW i \in DOMAIN reports, RerenderReport(i)
                       PROVE TextInv'
<1>1. UNCHANGED <<captures, model, draft, due, pc>> /\ pc' # "model"
  BY DEF RerenderReport, Served, engine, LoopIsFree
<1>2. PICK broken \in BOOLEAN :
        reports' = Append(reports,
          [kind |-> "final", mode |-> reports[i].mode, model |-> NoModel,
           body |-> Render(reports[i].model, broken)])
  BY DEF RerenderReport
<1> DEFINE body == Render(reports[i].model, broken)
           r == [kind |-> "final", mode |-> reports[i].mode, model |-> NoModel,
                 body |-> body]
<1>3. ReportIsSound(reports[i])
  BY DEF TextInv, Stores
<1>4. TextIsGrounded(body) /\ body.badge \in {reports[i].mode, "none"}
  BY <1>3, RenderGrounds DEF ReportIsSound
<1>5. ReportIsSound(r)
  <2> HIDE DEF body
  <2>1. r.body = body /\ r.mode = reports[i].mode /\ r.model = NoModel
        /\ r = [kind |-> r.kind, mode |-> r.mode, model |-> r.model, body |-> r.body]
    OBVIOUS
  <2> HIDE DEF r
  <2> QED BY <1>4, <2>1, NoModelFacts DEF ReportIsSound
<1>6. reports' = Append(reports, r)
  BY <1>2
<1> HIDE DEF r
<1> QED BY <1>1, <1>5, <1>6, SameTexts, StoreTexts

\* A model that is missing is built again: it says nothing but what was measured.
LEMMA PdfTexts ==
  ASSUME TextInv, NEW chosen \in SUBSET DOMAIN reports, NEW separate,
         RequestPdf(chosen, separate)
  PROVE  TextInv'
<1>1. UNCHANGED <<captures, model, draft, due, pc>> /\ pc' # "model"
  BY DEF RequestPdf, Served, engine, LoopIsFree
<1>2. reports' = [i \in DOMAIN reports |->
        IF i \in chosen THEN [reports[i] EXCEPT !.model = ReportModel(reports[i])]
          ELSE reports[i]]
  BY DEF RequestPdf
<1>3. ToSet(captures) \subseteq ToSet(captures)' /\ IsSequence(captures)'
  BY <1>1 DEF TextInv, Stores, ToSet, IsSequence
<1>4. IsSequence(reports')
  <2>1. PICK n \in Nat : reports = [i \in 1..n |-> reports[i]]
    BY DEF TextInv, Stores, IsSequence
  <2>2. DOMAIN reports = 1..n
    BY <2>1
  <2>3. PICK f : f = [i \in DOMAIN reports |-> IF i \in chosen
          THEN [reports[i] EXCEPT !.model = ReportModel(reports[i])] ELSE reports[i]]
    OBVIOUS
  <2>4. DOMAIN f = 1..n /\ f = [i \in DOMAIN f |-> f[i]]
    BY <2>2, <2>3
  <2>5. f = [i \in 1..n |-> f[i]]
    BY <2>4
  <2>6. IsSequence(f)
    BY <2>5 DEF IsSequence
  <2> QED BY <1>2, <2>3, <2>6
<1>5. ASSUME NEW i \in DOMAIN reports
      PROVE  ReportIsSound(IF i \in chosen
               THEN [reports[i] EXCEPT !.model = ReportModel(reports[i])]
               ELSE reports[i])
  <2>1. ReportIsSound(reports[i])
    BY DEF TextInv, Stores
  <2>2. CASE i \notin chosen
    BY <2>1, <2>2
  <2>3. CASE i \in chosen
    <3>1. PICK r : r = reports[i]
      OBVIOUS
    <3>2. PICK m : m = ReportModel(r)
      OBVIOUS
    <3>3. r = [kind |-> r.kind, mode |-> r.mode, model |-> r.model, body |-> r.body]
      BY <2>1, <3>1 DEF ReportIsSound
    <3>4. [r EXCEPT !.model = m] =
            [kind |-> r.kind, mode |-> r.mode, model |-> m, body |-> r.body]
      BY <3>3
    <3>5. TextIsGrounded(m) /\ m.verdict \in {r.mode, "none"}
      <4>1. CASE r.model = NoModel
        <5>1. m = BuildReportModel("rebuilt", RebuildCap)
          BY <3>2, <4>1 DEF ReportModel
        <5>2. TextIsGrounded(m)
          BY <5>1, BuiltModel
        <5>3. m.verdict = "none"
          BY <5>1, BuiltModel
        <5> QED BY <5>2, <5>3
      <4>2. CASE r.model # NoModel
        BY <2>1, <3>1, <3>2, <4>2 DEF ReportModel, ReportIsSound
      <4> QED BY <4>1, <4>2
    <3>6. ReportIsSound([r EXCEPT !.model = m])
      BY <2>1, <3>1, <3>4, <3>5 DEF ReportIsSound
    <3> QED BY <2>3, <3>1, <3>2, <3>6
  <2> QED BY <2>2, <2>3
<1>6. PICK all : all = reports'
  OBVIOUS
<1>7. \A i \in DOMAIN all : ReportIsSound(all[i])
  <2> SUFFICES ASSUME NEW i \in DOMAIN all PROVE ReportIsSound(all[i])
    OBVIOUS
  <2>1. i \in DOMAIN reports
        /\ all[i] = IF i \in chosen
                    THEN [reports[i] EXCEPT !.model = ReportModel(reports[i])]
                    ELSE reports[i]
    BY <1>2, <1>6
  <2> QED BY <1>5, <2>1
<1>8. \A i \in DOMAIN all : ReportIsSound(all[i])'
  BY <1>3, <1>7, MoreMeasured
<1>9. Stores'
  BY <1>1, <1>3, <1>4, <1>6, <1>8 DEF Stores
<1> QED BY <1>1, <1>9, SameTexts DEF TextInv

\* A run that begins again has written nothing.
LEMMA FreshTexts ==
  ASSUME TextInv, NEW where, Again(where), where # "model", UNCHANGED <<captures, reports>>
  PROVE  TextInv'
<1>1. model' = NoModel /\ due' = {} /\ draft' = {} /\ pc' # "model"
  BY DEF Again
<1>2. ToSet(captures) \subseteq ToSet(captures)'
  BY DEF ToSet
<1>3. Writes'
  <2>1. IsModel(NoModel)' /\ TextIsGrounded(NoModel)'
        /\ Measures(NoModel.sections)' /\ Measures({})' /\ Knows(NoModel)'
    BY <1>2, NoModelFacts, MoreMeasured DEF IsModel, NoModel, NoBooks
  <2>2. ProseIsGrounded({}, KnownOverall')
    BY NothingIsGrounded
  <2> QED BY <1>1, <2>1, <2>2 DEF Writes, IsModel, TextIsGrounded, NoModel,
     NoBooks, Knows
<1> QED BY <1>1, <1>3, TextStep

\* Whatever the owner asks for.
LEMMA OwnerStepTexts == ASSUME TextInv, OwnerStep PROVE TextInv'
<1>1. ASSUME OwnerStops PROVE TextInv'
  BY <1>1, QuietTexts DEF OwnerStops, stored, engine
<1>4. ASSUME OwnerResumes PROVE TextInv'
  BY <1>4, FreshTexts DEF OwnerResumes, stored
<1>2. ASSUME RenderPdf PROVE TextInv'
  <2>1. UNCHANGED <<captures, model, draft, due, reports, pc>>
    BY <1>2 DEF RenderPdf, engine
  <2>2. Writes'
    BY <2>1, SameTexts
  <2>3. ToSet(captures) \subseteq ToSet(captures)'
    BY <2>1 DEF ToSet
  <2>4. Stores'
    BY <2>1, <2>3, MoreMeasured DEF TextInv, Stores, IsSequence
  <2> QED BY <2>2, <2>4 DEF TextInv
<1>3. ASSUME NEW chosen \in SUBSET DOMAIN reports \ {{}}, NEW separate \in BOOLEAN,
             RequestPdf(chosen, separate)
      PROVE  TextInv'
  <2>1. chosen \in SUBSET DOMAIN reports
    OBVIOUS
  <2> QED BY <1>3, <2>1, PdfTexts
<1> QED BY <1>1, <1>2, <1>3, <1>4, OwnTexts, RerenderTexts DEF OwnerStep

\* At first nothing is written.
LEMMA InitTexts == ASSUME DeliveryInit PROVE TextInv
<1>1. Writes
  BY NoModelFacts DEF DeliveryInit, Writes
<1>2. IsSequence(<<>>)
  <2>1. <<>> = [i \in 1..0 |-> <<>>[i]]
    OBVIOUS
  <2> QED BY <2>1 DEF IsSequence
<1>3. Stores
  BY <1>2 DEF DeliveryInit, Stores
<1> QED BY <1>1, <1>3 DEF TextInv

\* Every step keeps what is written sound.
LEMMA TextNext == ASSUME TextInv, [DeliveryNext]_deliveryVars
                  PROVE TextInv'
<1>1. ASSUME UNCHANGED deliveryVars PROVE TextInv'
  <2>1. UNCHANGED <<captures, model, draft, due, reports, pc>>
    BY <1>1 DEF deliveryVars, stored, engine
  <2>2. Writes'
    BY <2>1, SameTexts
  <2>3. ToSet(captures) \subseteq ToSet(captures)'
    BY <2>1 DEF ToSet
  <2>4. Stores'
    BY <2>1, <2>3, MoreMeasured DEF TextInv, Stores, IsSequence
  <2> QED BY <2>2, <2>4 DEF TextInv
<1>2. ASSUME EndPlaybooks \/ Complete PROVE TextInv'
  BY <1>2, QuietTexts DEF EndPlaybooks, Complete, Writing, stored
<1>6. ASSUME RunFails PROVE TextInv'
  BY <1>6, FreshTexts DEF RunFails, stored
<1>3. ASSUME ReportStep PROVE TextInv'
  BY <1>2, <1>3, <1>6, BuildTexts, NarrateTexts, BookTexts, SaveTexts, ModelTexts
     DEF ReportStep
<1>4. ASSUME ProcessDies PROVE TextInv'
  BY <1>4, FreshTexts DEF ProcessDies, Fresh, stored
<1>5. ASSUME ProcessBoots PROVE TextInv'
  <2>1. PICK where : Fresh(where) /\ where # "model"
    BY <1>5 DEF ProcessBoots
  <2> QED BY <1>5, <2>1, FreshTexts DEF ProcessBoots, Fresh, stored
<1> QED BY <1>1, <1>3, <1>4, <1>5, DiveStepTexts, OwnerStepTexts DEF DeliveryNext

-----------------------------------------------------------------------------
(* The sections and the dives *)

\* What is left of what a behaviour may spend.
Spent ==
  /\ left \in [upsets : Nat, reports : Nat, pdfs : Nat]
  /\ \E q \in Quotas : left.upsets <= q.upsets

\* The dive under way, and what it has to go to.
Diving ==
  /\ DOMAIN dive = Cands /\ DOMAIN now = DOMAIN NoDive
  /\ pc = "diving" => now.cand \in Cands
  /\ todo \subseteq Cands

\* A final candidate has been dived, is waiting, or is the one of this dive; when none was
\* left undone they all have been, and the sections are of those the report chose.
Dived ==
  /\ Untroubled /\ pc \in {"dive", "diving"} =>
       \A c \in FinalCandidates(DiveCap) :
         dive[c] # "none" \/ c \in todo \/ (pc = "diving" /\ c = now.cand)
  /\ Untroubled /\ todo = {} /\ pc \in {"build", "narrate", "playbooks"} =>
       \A c \in FinalCandidates(DiveCap) : dive[c] # "none"
  /\ pc \in {"narrate", "playbooks"} =>
       \A s \in model.sections : s.cand \in FinalCandidateOrder(DiveCap)

DiveInv == Spent /\ Diving /\ Dived

\* The dive chooses candidates that are listed.
LEMMA FinalsAreListed == FinalCandidates(DiveCap) \subseteq Cands
<1>1. \A i \in DOMAIN Listing : Listing[i] \in Cands
  BY DeliveryAssumption
<1>2. Finals(DiveRead) \subseteq Cands
  BY <1>1 DEF Finals
<1> QED BY <1>2 DEF FinalCandidates, Leading

\* The report chooses the same where both reads reach every candidate that may be final.
LEMMA ChoicesAgree ==
  ASSUME Finals(DiveRead) = Finals(ReportRead)
  PROVE  FinalCandidateOrder(DiveCap) = FinalCandidates(DiveCap)
BY DEF FinalCandidates, FinalCandidateOrder

\* An upset is remembered.
LEMMA TroubleTells ==
  ASSUME Spent, Trouble
  PROVE  Spent' /\ ~Untroubled'
<1>1. left' = [left EXCEPT !["upsets"] = @ - 1] /\ left["upsets"] > 0
  BY DEF Trouble, Spend
<1>2. left' \in [upsets : Nat, reports : Nat, pdfs : Nat] /\ left'.upsets = left.upsets - 1
  BY <1>1 DEF Spent
<1>3. PICK q \in Quotas : left.upsets <= q.upsets
  BY DEF Spent
<1>4. q.upsets \in Nat
  BY <1>3, DeliveryAssumption
<1>5. ~(q.upsets <= left'.upsets) /\ left'.upsets <= q.upsets
  BY <1>1, <1>2, <1>3, <1>4 DEF Spent
<1> QED BY <1>2, <1>3, <1>5 DEF Spent, Untroubled

\* A step spends one of three things, or nothing.
LEMMA LeftMoves ==
  ASSUME [DeliveryNext]_deliveryVars
  PROVE  left' = left \/ Trouble \/ Spend("reports") \/ Spend("pdfs")
<1>1. ASSUME DiveStep PROVE left' = left \/ Trouble
  BY <1>1 DEF DiveStep, WriteFinalReport, SkipDives, NextDive, EndDives,
     MinePhrases, DiveFails,
     MeasureKeyword, FileKeywords, MapCategories, CloseDive,
     Calm
<1>2. ASSUME ReportStep PROVE left' = left \/ Trouble
  BY <1>2 DEF ReportStep, BuildModel, AnalystNarrative,
     FinalistPlaybook, EndPlaybooks,
     SaveReport, SaveModelJson, Complete, RunFails, Calm
<1>3. ASSUME OwnerStep
      PROVE left' = left \/ Spend("reports") \/ Spend("pdfs")
  BY <1>3 DEF OwnerStep, OwnerStops, OwnerResumes, SaveOwnReport, RenderPdf,
     RerenderReport, RequestPdf
<1>4. ASSUME ProcessDies \/ ProcessBoots \/ UNCHANGED deliveryVars
      PROVE left' = left \/ Trouble
  BY <1>4 DEF ProcessDies, ProcessBoots, deliveryVars
<1> QED BY <1>1, <1>2, <1>3, <1>4 DEF DeliveryNext

\* Whatever a step spends: what is untroubled after it was untroubled before.
LEMMA SpentNext ==
  ASSUME Spent, [DeliveryNext]_deliveryVars
  PROVE  Spent' /\ (Untroubled' => Untroubled /\ ~Trouble)
<1>1. ASSUME Trouble PROVE Spent' /\ ~Untroubled'
  BY <1>1, TroubleTells
<1>2. ASSUME left' = left \/ Spend("reports") \/ Spend("pdfs")
      PROVE  left' \in [upsets : Nat, reports : Nat, pdfs : Nat] /\ left'.upsets = left.upsets
  <2>1. CASE left' = left
    BY <2>1 DEF Spent
  <2>2. CASE Spend("reports")
    BY <2>2 DEF Spend, Spent
  <2>3. CASE Spend("pdfs")
    BY <2>3 DEF Spend, Spent
  <2> QED BY <1>2, <2>1, <2>2, <2>3
<1>3. ASSUME left' = left \/ Spend("reports") \/ Spend("pdfs")
      PROVE  Spent' /\ (Untroubled' => Untroubled)
  BY <1>2, <1>3 DEF Spent, Untroubled
<1>4. left' = left \/ Trouble \/ Spend("reports") \/ Spend("pdfs")
  BY LeftMoves
<1> QED BY <1>1, <1>3, <1>4

\* A step that leaves the dives and the sections alone.
LEMMA DivesStill ==
  ASSUME Diving, Dived, Untroubled' => Untroubled,
         UNCHANGED <<dive, todo, now, pc, stop>>, model'.sections = model.sections
  PROVE  Diving' /\ Dived'
<1>1. Diving'
  BY DEF Diving
<1> QED BY <1>1 DEF Dived

\* What is pending is ahead, and the rest is done.
LEMMA StartDives ==
  ASSUME Diving, Dived, Untroubled' => Untroubled,
         WriteFinalReport \/ SkipDives
  PROVE  Diving' /\ Dived'
<1>1. /\ UNCHANGED <<dive, now, stop, model>>
      /\ todo' = {c \in FinalCandidates(DiveCap) : dive[c] # "done"}
      /\ pc' \in {"dive", "build"}
  BY DEF WriteFinalReport, SkipDives, stored, Pending
<1>2. \A c \in FinalCandidates(DiveCap) : c \in todo' \/ dive'[c] # "none"
  BY <1>1
<1> QED BY <1>1, <1>2, FinalsAreListed DEF Diving, Dived

\* The next candidate is the one of the dive.
LEMMA NextDives ==
  ASSUME Diving, Dived, Untroubled' => Untroubled, NextDive
  PROVE  Diving' /\ Dived'
<1>1. PICK c \in todo : now' = [NoDive EXCEPT !.cand = c, !.stage = "mine"]
        /\ todo' = todo \ {c}
  BY DEF NextDive
<1>2. UNCHANGED <<dive, stop, model>> /\ pc = "dive" /\ pc' = "diving"
  BY DEF NextDive, stored
<1>3. now'.cand = c /\ DOMAIN now' = DOMAIN NoDive
  BY <1>1 DEF NoDive
<1> QED BY <1>1, <1>2, <1>3 DEF Diving, Dived

\* The dives are over when none is ahead, at a stop, or where the journal fails.
LEMMA EndsDives ==
  ASSUME Diving, Dived, Untroubled' => Untroubled, EndDives
  PROVE  Diving' /\ Dived'
<1>1. UNCHANGED <<dive, todo, now, stop, model>> /\ pc = "dive" /\ pc' = "build"
  BY DEF EndDives
<1> QED BY <1>1 DEF Diving, Dived

\* A stage of a dive is of the same candidate.
LEMMA StageDives ==
  ASSUME Diving, Dived, Untroubled' => Untroubled,
         MinePhrases \/ DiveFails \/ MeasureKeyword \/ FileKeywords
           \/ MapCategories
  PROVE  Diving' /\ Dived'
<1>1. UNCHANGED <<dive, todo, pc, stop, model>> /\ pc = "diving"
  BY DEF MinePhrases, DiveFails, MeasureKeyword, FileKeywords,
     MapCategories, StillDiving, InDive
<1>2. "cand" \in DOMAIN now
  BY DEF Diving, NoDive
<1>3. now'.cand = now.cand /\ DOMAIN now' = DOMAIN now
  <2>1. CASE MinePhrases
    BY <1>2, <2>1 DEF MinePhrases
  <2>2. CASE DiveFails
    BY <1>2, <2>2 DEF DiveFails
  <2>3. CASE MeasureKeyword
    BY <1>2, <2>3 DEF MeasureKeyword
  <2>4. CASE FileKeywords
    BY <1>2, <2>4 DEF FileKeywords
  <2>5. CASE MapCategories
    BY <1>2, <2>5 DEF MapCategories
  <2> QED BY <2>1, <2>2, <2>3, <2>4, <2>5
<1> QED BY <1>1, <1>3 DEF Diving, Dived

\* The dive that ends is recorded, or an upset is.
LEMMA CloseDives ==
  ASSUME Diving, Dived,
         Untroubled' => Untroubled /\ ~Trouble, CloseDive
  PROVE  Diving' /\ Dived'
<1>1. UNCHANGED <<todo, stop, model>> /\ pc = "diving" /\ pc' = "dive"
      /\ now' = NoDive
  BY DEF CloseDive, InDive
<1>2. dive' = [dive EXCEPT ![now.cand] = DiveEnd] \/ (UNCHANGED dive /\ Trouble)
  BY DEF CloseDive
<1>3. now.cand \in Cands /\ DOMAIN dive = Cands /\ DiveEnd # "none"
  BY <1>1 DEF Diving, DiveEnd
<1>4. DOMAIN dive' = Cands
  BY <1>2, <1>3
<1>5. ASSUME Untroubled'
      PROVE dive'[now.cand] # "none" /\ \A c \in Cands : dive[c] # "none" => dive'[c] # "none"
  BY <1>2, <1>3, <1>5
<1>6. ASSUME Untroubled', NEW c \in FinalCandidates(DiveCap)
      PROVE  dive'[c] # "none" \/ c \in todo'
  BY <1>1, <1>5, <1>6, FinalsAreListed DEF Dived
<1> QED BY <1>1, <1>4, <1>6 DEF Diving, Dived

\* The report is of the candidates the dives were.
LEMMA ReportDives ==
  ASSUME IsModel(model), Diving, Dived,
         Untroubled' => Untroubled, ReportStep, ~RunFails
  PROVE  Diving' /\ Dived'
<1>1. UNCHANGED <<dive, todo, now, stop>> /\ pc \notin {"dive", "diving"}
      /\ pc' \notin {"dive", "diving", "build"}
  BY DEF ReportStep, BuildModel, AnalystNarrative, FinalistPlaybook,
     EndPlaybooks, SaveReport,
     SaveModelJson, Complete, Writing, stored
<1>2. Diving'
  BY <1>1 DEF Diving
<1>3. ASSUME pc' \in {"narrate", "playbooks"}
      PROVE  /\ pc \in {"build", "narrate", "playbooks"}
             /\ \A s \in model'.sections : s.cand \in FinalCandidateOrder(DiveCap)
  <2>1. CASE BuildModel
    <3>1. model' = BuildReportModel("full", DiveCap) /\ pc = "build"
      BY <1>3, <2>1 DEF BuildModel
    <3> QED BY <3>1, BuiltModel
  <2>2. CASE AnalystNarrative
    <3>1. model'.sections = model.sections /\ pc = "narrate"
      BY <2>2 DEF AnalystNarrative, IsModel
    <3> QED BY <3>1 DEF Dived
  <2>3. CASE FinalistPlaybook
    <3>1. model'.sections = model.sections /\ pc = "playbooks"
      BY <2>3 DEF FinalistPlaybook, IsModel
    <3> QED BY <3>1 DEF Dived
  <2>4. CASE EndPlaybooks \/ SaveReport \/ SaveModelJson \/ Complete
    BY <1>3, <2>4 DEF EndPlaybooks, SaveReport, SaveModelJson,
       Complete
  <2> QED BY <2>1, <2>2, <2>3, <2>4 DEF ReportStep
<1> QED BY <1>1, <1>2, <1>3 DEF Dived

\* The owner, the process, and a run that begins again.
LEMMA OtherDives ==
  ASSUME Diving, Dived, Untroubled' => Untroubled,
         OwnerStep \/ RunFails \/ ProcessDies \/ ProcessBoots \/ UNCHANGED deliveryVars
  PROVE  Diving' /\ Dived'
<1>1. CASE OwnerStops
  BY <1>1 DEF OwnerStops, stored, engine, Diving, Dived
<1>2. CASE OwnerStep /\ ~OwnerStops /\ ~OwnerResumes
  <2>1. UNCHANGED <<dive, todo, now, pc, stop, model>>
    BY <1>2 DEF OwnerStep, SaveOwnReport, RenderPdf, RerenderReport,
       RequestPdf, Served, engine
  <2> QED BY <2>1, DivesStill
<1>3. CASE UNCHANGED deliveryVars
  <2>1. UNCHANGED <<dive, todo, now, pc, stop, model>>
    BY <1>3 DEF deliveryVars, stored, engine
  <2> QED BY <2>1, DivesStill
<1>4. CASE RunFails \/ ProcessDies \/ ProcessBoots \/ OwnerResumes
  <2>1. /\ dive' = dive /\ now' = NoDive /\ todo' = {}
        /\ pc' \in {"down", "over", "start", "stopped"}
    BY <1>4 DEF RunFails, ProcessDies, ProcessBoots, OwnerResumes, Fresh, Again, stored
  <2> QED BY <2>1 DEF Diving, Dived
<1> QED BY <1>1, <1>2, <1>3, <1>4

\* Sections and dives agree, from any model that is one.
LEMMA DiveNext ==
  ASSUME TextInv, DiveInv, [DeliveryNext]_deliveryVars
  PROVE  DiveInv'
<1>1. Spent' /\ (Untroubled' => Untroubled /\ ~Trouble)
  BY SpentNext DEF DiveInv
<1>2. ASSUME DiveStep PROVE Diving' /\ Dived'
  BY <1>1, <1>2, StartDives, NextDives, EndsDives, StageDives, CloseDives DEF DiveStep,
     DiveInv
<1>3. ASSUME ReportStep, ~RunFails PROVE Diving' /\ Dived'
  BY <1>1, <1>3, ReportDives DEF DiveInv, TextInv, Writes
<1>4. ASSUME OwnerStep \/ RunFails \/ ProcessDies \/ ProcessBoots \/ UNCHANGED deliveryVars
      PROVE Diving' /\ Dived'
  BY <1>1, <1>4, OtherDives DEF DiveInv
<1> QED BY <1>1, <1>2, <1>3, <1>4 DEF DeliveryNext, DiveInv

\* Before the first dive.
LEMMA InitDives == ASSUME DeliveryInit PROVE DiveInv
<1>1. Spent
  <2>1. left \in Quotas
    BY DEF DeliveryInit
  <2>2. left \in [upsets : Nat, reports : Nat, pdfs : Nat]
    BY <2>1, DeliveryAssumption
  <2>3. left.upsets <= left.upsets
    BY <2>2
  <2> QED BY <2>1, <2>2, <2>3 DEF Spent
<1>2. Diving /\ Dived
  BY DEF DeliveryInit, Diving, Dived
<1> QED BY <1>1, <1>2 DEF DiveInv

\* Both parts hold always.
THEOREM Delivers == DeliverySpec => [](TextInv /\ DiveInv)
<1>1. DeliveryInit => TextInv /\ DiveInv
  BY InitTexts, InitDives
<1>2. TextInv /\ DiveInv /\ [DeliveryNext]_deliveryVars => TextInv' /\ DiveInv'
  BY TextNext, DiveNext
<1> QED BY <1>1, <1>2, PTL DEF DeliverySpec

\* Whatever a model answers, for any candidates, limits and earlier text: what it writes for
\* a report cites what was counted, what was measured for the candidate it speaks of, or what
\* stands in that candidate's own material; nothing else, and no other candidate's.
THEOREM NoInvention == DeliverySpec => []NothingInvented
<1>1. TextInv => NothingInvented
  BY DEF TextInv, Stores, ReportIsSound, NothingInvented
<1> QED BY <1>1, Delivers, PTL

\* Neither a second rendering nor a fallback makes a report final that was not validated so.
THEOREM KeepsStatus == DeliverySpec => []StatusKept
<1>1. TextInv => StatusKept
  BY DEF TextInv, Stores, ReportIsSound, StatusKept
<1> QED BY <1>1, Delivers, PTL

\* When nothing failed, no dive was left undone and neither read was cut, each section is of
\* a candidate that was dived, though the dive and the report choose by themselves.
THEOREM SectionsOfTheDived == DeliverySpec => []SectionsAreDived
<1>1. DiveInv => SectionsAreDived
  BY ChoicesAgree DEF DiveInv, Dived, SectionsAreDived
<1> QED BY <1>1, Delivers, PTL
=============================================================================
