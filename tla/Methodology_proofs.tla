-------------------------- MODULE Methodology_proofs --------------------------
(***************************************************************************)
(* Theorems of Methodology, for any number of phases and any limits.  One  *)
(* inductive invariant, IInv: where the sweep is (Placed, Swept), how the  *)
(* checkpoints relate to the passes (OutBounded, FreshIsCommitted,         *)
(* FreshIsCompleted), and that Phase 8 cannot be passed unscreened in the  *)
(* first pass (Screens).                                                   *)
(* At the end, those of Calls, which a run makes in its phases: CallsInv,  *)
(* what a thought holds while its call goes on, and when it has ended.     *)
(***************************************************************************)
EXTENDS Methodology, Calls, SequenceTheorems, TLAPS

Running == pc \notin {"off", "failed"}

\* Where the run is in the code bounds where the sweep is.
Placed ==
  /\ pc \in {"iterate", "model", "replied", "leave", "effects", "marker", "retire"}
       => phase \in Phases
  /\ pc \in {"pipeline", "gate"} => phase = Adversarial /\ phase \in completed
  /\ pc \in {"report", "done"} => phase = Last + 1 /\ from = 1
  /\ pc = "marker" => rows[phase] = pass
  /\ pc = "retire" => phase \in fresh

\* The sweep leaves no open phase behind.
Swept == Running => \A p \in Phases : from <= p /\ p < phase => p \in completed

OutBounded == \A p \in Phases : out[p] <= PassRound

FreshIsCommitted ==
  \A p \in Phases : /\ p \in fresh => out[p] = PassRound
                    /\ goto.pass # PassRound /\ out[p] = PassRound => p \in fresh

FreshIsCompleted ==
  Running /\ goto.pass # pass
    => \A p \in fresh : p \in completed \/ (pc = "retire" /\ p = phase)

\* In the first pass, a sweep that began at or before Phase 8 and has passed it, or is
\* at the gate after it, has had it screened.
Screens ==
  Running /\ pass = 0 /\ from <= Adversarial /\ (phase > Adversarial \/ pc = "gate")
    => screened

IInv ==
  /\ TypeOK
  /\ PassIsDurable
  /\ OutputHasRows
  /\ CompletedIsFresh
  /\ Placed
  /\ Swept
  /\ OutBounded
  /\ FreshIsCommitted
  /\ FreshIsCompleted
  /\ Screens

-----------------------------------------------------------------------------
(* Types *)

LEMMA PassFits ==
  ASSUME pivots \in 0..MaxPivots, refills \in 0..MaxRefills
  PROVE  PassRound \in Passes
  BY BoundAssumption DEF PassRound, Passes

LEMMA ForgetsTypes ==
  ASSUME NEW p \in PCs, Forgets(p)
  PROVE  /\ pc' \in PCs /\ phase' \in 1..(Last + 1) /\ from' \in Phases
         /\ pass' \in Passes /\ iteration' \in 0..MaxIter
         /\ completed' \subseteq Phases /\ outputs' \subseteq Phases
  BY BoundAssumption, PhaseAssumption DEF Forgets, Phases, Passes

LEMMA PhaseInRange ==
  ASSUME TypeOK, Placed,
         pc \in {"iterate", "model", "replied", "leave", "effects", "marker", "retire",
                 "pipeline", "gate"}
  PROVE  phase \in Phases /\ phase + 1 \in 1..(Last + 1)
  BY PhaseAssumption DEF Placed, Phases

LEMMA TypeStep == IInv /\ [Next]_vars => TypeOK'
  <1>. SUFFICES ASSUME IInv, [Next]_vars PROVE TypeOK'
    OBVIOUS
  <1>. USE DEF IInv
  <1>a. PassRound \in Passes
    BY PassFits DEF TypeOK
  <1>e. "off" \in PCs /\ "failed" \in PCs
    BY DEF PCs
  <1>1. CASE Begin
    <2>1. completed' \subseteq Phases /\ outputs' \subseteq Phases
      BY <1>1 DEF Begin, Committed, KeptBefore
    <2>. QED
      BY <1>1, <1>a, <2>1, PhaseAssumption, BoundAssumption
      DEF Begin, TypeOK, durable, Phases, AgentStates, PCs
  <1>2. CASE Stops
    BY <1>2, <1>e, ForgetsTypes, BoundAssumption DEF Stops, TypeOK, durable
  <1>3. CASE StopsInSwitch
    BY <1>3, <1>e, ForgetsTypes, BoundAssumption DEF StopsInSwitch, TypeOK
  <1>4. CASE PauseAtHead \/ PauseInPhase \/ PauseAtAction
    <2>1. ASSUME NEW p \in Phases \cup {0}, NEW i \in 0..MaxIter, NEW a \in AgentStates,
                 OwnerPauses(p, i, a)
          PROVE  TypeOK'
      BY <2>1, <1>a, <1>e, ForgetsTypes, BoundAssumption DEF OwnerPauses, TypeOK
    <2>2. agent \in AgentStates /\ Parked(agent) \in AgentStates
      BY DEF TypeOK, Parked, AgentStates
    <2>3. pc = "head" /\ phase <= Last => phase \in Phases
      BY PhaseAssumption DEF TypeOK, Phases
    <2>4. pc = "iterate" /\ iteration < MaxIter => iteration + 1 \in 0..MaxIter
      BY BoundAssumption DEF TypeOK
    <2>5. pc \in {"iterate", "model"} => phase \in Phases
      BY DEF Placed
    <2>6. 0 \in 0..MaxIter
      BY BoundAssumption
    <2>. QED
      BY <1>4, <2>1, <2>2, <2>3, <2>4, <2>5, <2>6 DEF PauseAtHead, PauseInPhase, PauseAtAction
  <1>r. Refused => TypeOK'
    BY <1>e, ForgetsTypes, BoundAssumption DEF Refused, TypeOK, durable
  <1>5. CASE SkipPhase
    BY <1>5, PhaseAssumption DEF SkipPhase, TypeOK, durable, Phases
  <1>6. CASE CatchUp
    BY <1>6 DEF CatchUp, TypeOK, durable, cursor, PCs
  <1>7. CASE EnterPhase
    <2>1. phase \in Phases /\ EntryState[phase] \in AgentStates
      BY <1>7, PhaseAssumption DEF EnterPhase, WorkStates, AgentStates
    <2>2. StartIteration(phase) \in 0..MaxIter
      BY <2>1, BoundAssumption DEF StartIteration, TypeOK
    <2>. QED
      BY <1>7, <1>r, <2>1, <2>2 DEF EnterPhase, TypeOK, durable, PCs
  <1>8. CASE EndSweep
    <2>1. CASE from # 1
      <3>1. 1 \in Phases /\ 1 \in 1..(Last + 1)
        BY PhaseAssumption DEF Phases
      <3>2. /\ phase' = 1 /\ from' = 1
            /\ UNCHANGED durable
            /\ UNCHANGED <<agent, pc, pass, completed, outputs, iteration, fresh, stops>>
        BY <1>8, <2>1 DEF EndSweep
      <3>. QED BY <3>1, <3>2 DEF TypeOK, durable
    <2>2. CASE from = 1 /\ AgentCan(agent, "reporting")
      BY <1>8, <2>2 DEF EndSweep, TypeOK, durable, cursor, PCs, AgentStates
    <2>3. CASE from = 1 /\ ~AgentCan(agent, "reporting")
      BY <1>8, <1>r, <2>3 DEF EndSweep
    <2>. QED BY <2>1, <2>2, <2>3
  <1>9. CASE AskModel
    BY <1>9, BoundAssumption DEF AskModel, Moves, TypeOK, durable, PCs
  <1>10. CASE EndLoop \/ ModelFails \/ Explore \/ Commits \/ Stalls \/ LeaveForced
    BY <1>10 DEF EndLoop, ModelFails, Explore, Commits, Stalls, LeaveForced, Moves, TypeOK,
       durable, PCs
  <1>11. CASE ModelReplies
    <2>1. [pass |-> pass, iter |-> iteration] \in [pass : Passes \cup {NoPass}, iter : 0..MaxIter]
      BY DEF TypeOK
    <2>. QED
      BY <1>11, <2>1 DEF ModelReplies, Moves, TypeOK, PCs
  <1>12. CASE \E target \in Phases : Switch(target)
    <2>1. PICK target \in Phases : Switch(target)
      BY <1>12
    <2>2. phase' \in 1..(Last + 1) /\ from' \in Phases
      BY <2>1, PhaseAssumption DEF Switch, Phases
    <2>3. completed' \subseteq Phases /\ fresh' \subseteq Phases
      BY <2>1 DEF Switch, KeptBefore, TypeOK
    <2>4. goto' \in [to : Phases, pass : Passes \cup {NoPass}]
      BY <2>1 DEF Switch, TypeOK
    <2>5. jumps' \in 0..MaxJumps
      BY <2>1, BoundAssumption DEF Switch, TypeOK
    <2>. QED
      BY <2>1, <2>2, <2>3, <2>4, <2>5 DEF Switch, TypeOK, PCs
  <1>13. CASE LeaveEmpty
    BY <1>13, PhaseInRange DEF LeaveEmpty, TypeOK, durable, PCs
  <1>14. CASE ApplyEffects
    BY <1>14 DEF ApplyEffects, Moves, TypeOK, PCs
  <1>15. CASE SaveOutput
    BY <1>15, PhaseInRange DEF SaveOutput, TypeOK, PCs
  <1>16. CASE Retire
    <2>1. NoProgress \in [pass : Passes \cup {NoPass}, iter : 0..MaxIter]
      BY BoundAssumption DEF NoProgress
    <2>. QED
      BY <1>16, <2>1, PhaseInRange DEF Retire, TypeOK, PCs
  <1>17. CASE RunPipeline
    BY <1>17 DEF RunPipeline, Moves, TypeOK, PCs
  <1>18. CASE Pivot \/ Refill
    <2>1. PassRound' \in Passes /\ PassRound' = PassRound + 1
      BY <1>18, PassFits, BoundAssumption DEF Pivot, Refill, TypeOK, PassRound, Passes
    <2>2. pass = PassRound
      BY <1>18 DEF Pivot, Refill, PassIsDurable
    <2>3. pivots' \in 0..MaxPivots /\ refills' \in 0..MaxRefills
      BY <1>18, BoundAssumption DEF Pivot, Refill, TypeOK
    <2>4. pass' \in Passes
      BY <1>18, <2>1, <2>2 DEF Pivot, Refill, StartPass
    <2>5. phase' \in 1..(Last + 1) /\ from' \in Phases
      BY <1>18, PhaseAssumption DEF Pivot, Refill, StartPass, Phases
    <2>6. outputs' \subseteq Phases /\ completed' \subseteq Phases /\ fresh' \subseteq Phases
      BY <1>18 DEF Pivot, Refill, StartPass, TypeOK
    <2>. QED
      BY <1>18, <2>3, <2>4, <2>5, <2>6 DEF Pivot, Refill, StartPass, TypeOK, PCs
  <1>19. CASE MarkPost
    BY <1>19, <1>a, PhaseInRange DEF MarkPost, TypeOK, PCs
  <1>20. CASE WriteReport
    BY <1>20 DEF WriteReport, TypeOK, durable, cursor, PCs, AgentStates
  <1>21. CASE UNCHANGED vars
    BY <1>21 DEF vars, TypeOK
  <1>. QED
    BY <1>1, <1>2, <1>3, <1>4, <1>5, <1>6, <1>7, <1>8, <1>9, <1>10, <1>11, <1>12, <1>13, <1>14,
       <1>15, <1>16, <1>17, <1>18, <1>19, <1>20, <1>21
    DEF Next, Progress, Interruption, Sweep, InPhase, AfterP8

-----------------------------------------------------------------------------
(* Steps that share an argument *)

Checkpoints == <<out, rows, pivots, refills, goto, fresh>>

\* A run that ends keeps what its checkpoints say; the rest speaks of a run.
LEMMA EndingKeeps ==
  ASSUME IInv, TypeOK', NEW p \in {"off", "failed"}, Forgets(p), UNCHANGED Checkpoints
  PROVE  IInv'
  <1>1. ~Running' /\ completed' = {} /\ PassRound' = PassRound
    BY DEF Forgets, Running, PassRound, Checkpoints
  <1>2. PassIsDurable' /\ CompletedIsFresh' /\ Placed' /\ Swept' /\ FreshIsCompleted' /\ Screens'
    BY <1>1 DEF Forgets, Running, PassIsDurable, CompletedIsFresh, Placed, Swept,
       FreshIsCompleted, Screens
  <1>3. OutputHasRows' /\ OutBounded' /\ FreshIsCommitted'
    BY <1>1 DEF IInv, OutputHasRows, OutBounded, FreshIsCommitted, Checkpoints
  <1>. QED BY <1>2, <1>3 DEF IInv

\* A step inside a phase that leaves the sweep where it is and commits nothing.
LEMMA MovingKeeps ==
  ASSUME IInv, TypeOK',
         pc \in {"iterate", "model", "replied", "leave"},
         pc' \in {"iterate", "model", "replied", "leave", "effects"},
         UNCHANGED Checkpoints,
         UNCHANGED <<screened, phase, from, pass, completed, outputs>>
  PROVE  IInv'
  <1>1. PassRound' = PassRound /\ Running /\ Running'
    BY DEF PassRound, Checkpoints, Running
  <1>2. Placed'
    BY DEF IInv, Placed
  <1>3. PassIsDurable' /\ OutputHasRows' /\ OutBounded' /\ FreshIsCommitted'
    BY <1>1 DEF IInv, PassIsDurable, OutputHasRows, OutBounded, FreshIsCommitted, Checkpoints
  <1>4. CompletedIsFresh' /\ Swept'
    BY <1>1 DEF IInv, CompletedIsFresh, Swept, Checkpoints
  <1>5. FreshIsCompleted' /\ Screens'
    BY <1>1 DEF IInv, FreshIsCompleted, Screens, Checkpoints
  <1>. QED BY <1>2, <1>3, <1>4, <1>5 DEF IInv

-----------------------------------------------------------------------------
(* The invariant *)

LEMMA StoredIsPass ==
  ASSUME IInv, PendingGoto
  PROVE  goto.pass = PassRound
  <1>1. PassRound \in Nat
    BY BoundAssumption DEF IInv, TypeOK, PassRound
  <1>. QED BY <1>1 DEF PendingGoto, Stored, NoPass

LEMMA InitIInv == Init => IInv
  <1>. SUFFICES ASSUME Init PROVE IInv
    OBVIOUS
  <1>1. TypeOK
    <2>1. 0 \in Passes /\ 0 \in 0..MaxIter /\ 1 \in Phases /\ 1 \in 1..(Last + 1)
      BY PhaseAssumption, BoundAssumption DEF Passes, Phases
    <2>2. /\ out \in [Phases -> Passes \cup {NoPass}]
          /\ rows \in [Phases -> Passes \cup {NoPass}]
          /\ prog \in [Phases -> [pass : Passes \cup {NoPass}, iter : 0..MaxIter]]
      BY <2>1 DEF Init, NoProgress
    <2>3. /\ goto \in [to : Phases, pass : Passes \cup {NoPass}]
          /\ pausedOwner \in [phase : Phases \cup {0}, iter : 0..MaxIter,
                              pass : Passes \cup {NoPass}]
      BY <2>1 DEF Init, NoGoto, NoPause
    <2>4. pivots \in 0..MaxPivots /\ refills \in 0..MaxRefills /\ jumps \in 0..MaxJumps
          /\ stops \in 0..MaxStops
      BY BoundAssumption DEF Init
    <2>. QED BY <2>1, <2>2, <2>3, <2>4 DEF Init, TypeOK, PCs, AgentStates
  <1>2. ~Running /\ PassRound = 0
    BY DEF Init, Running, PassRound
  <1>3. PassIsDurable /\ CompletedIsFresh /\ Placed /\ Swept /\ FreshIsCompleted /\ Screens
    BY <1>2 DEF Init, Running, PassIsDurable, CompletedIsFresh, Placed, Swept,
       FreshIsCompleted, Screens
  <1>4. OutputHasRows /\ OutBounded /\ FreshIsCommitted
    BY <1>2 DEF Init, OutputHasRows, OutBounded, FreshIsCommitted, NoPass
  <1>. QED BY <1>1, <1>3, <1>4 DEF IInv

LEMMA StepIInv == IInv /\ [Next]_vars => IInv'
  <1>. SUFFICES ASSUME IInv, [Next]_vars PROVE IInv'
    OBVIOUS
  <1>t. TypeOK'
    BY TypeStep
  <1>n. PassRound \in Nat /\ \A p \in Phases : out[p] \in Int /\ rows[p] \in Int /\ p \in Int
    BY BoundAssumption, PhaseAssumption DEF IInv, TypeOK, PassRound, Passes, NoPass, Phases
  <1>i. /\ phase \in Int /\ from \in Int /\ Last \in Int /\ Adversarial \in Phases
        /\ Adversarial \in Int /\ Adversarial <= Last /\ 1 <= from
        /\ phase <= Last + 1
    BY PhaseAssumption DEF IInv, TypeOK, Phases
  <1>f. ASSUME NEW p \in {"off", "failed"}, Forgets(p), UNCHANGED Checkpoints
        PROVE  IInv'
    BY <1>t, <1>f, EndingKeeps
  <1>r. Refused => IInv'
    BY <1>f DEF Refused, durable, Checkpoints
  <1>1. CASE Begin
    <2>1. PassRound' = PassRound /\ pass' = PassRound /\ Running'
      BY <1>1 DEF Begin, PassRound, durable, Running
    <2>2. PassIsDurable' /\ Placed' /\ Swept'
      BY <1>1, <2>1 DEF Begin, PassIsDurable, Placed, Swept, Phases
    <2>3. OutputHasRows' /\ OutBounded' /\ FreshIsCommitted'
      BY <1>1, <2>1 DEF Begin, durable, IInv, OutputHasRows, OutBounded, FreshIsCommitted
    <2>4. CompletedIsFresh' /\ FreshIsCompleted'
      <3>1. CASE goto.pass = PassRound
        BY <1>1, <2>1, <3>1 DEF Begin, durable, CompletedIsFresh, FreshIsCompleted
      <3>2. CASE goto.pass # PassRound
        <4>1. completed' = Committed
          BY <1>1, <3>2, StoredIsPass DEF Begin
        <4>2. \A p \in Phases : p \in Committed <=> p \in fresh
          BY <3>2 DEF IInv, FreshIsCommitted, Committed
        <4>3. fresh' = fresh /\ fresh \subseteq Phases /\ Committed \subseteq Phases
          BY <1>1 DEF Begin, IInv, TypeOK, Committed
        <4>. QED
          BY <4>1, <4>2, <4>3 DEF CompletedIsFresh, FreshIsCompleted
      <3>. QED BY <3>1, <3>2
    <2>5. Screens'
      BY <1>1, <1>i, PhaseAssumption DEF Begin, Screens, Phases
    <2>. QED BY <1>t, <2>2, <2>3, <2>4, <2>5 DEF IInv
  <1>2. CASE Stops \/ StopsInSwitch
    BY <1>2, <1>f DEF Stops, StopsInSwitch, durable, Checkpoints
  <1>3. CASE PauseAtHead \/ PauseInPhase \/ PauseAtAction
    BY <1>3, <1>f DEF PauseAtHead, PauseInPhase, PauseAtAction, OwnerPauses, Checkpoints
  <1>4. CASE EndLoop \/ ModelFails \/ Explore \/ Commits \/ Stalls \/ LeaveForced
    BY <1>4, <1>t, MovingKeeps
    DEF EndLoop, ModelFails, Explore, Commits, Stalls, LeaveForced, Moves, durable, Checkpoints
  <1>5. CASE AskModel \/ ModelReplies
    BY <1>5, <1>t, MovingKeeps DEF AskModel, ModelReplies, Moves, durable, Checkpoints
  <1>6. CASE SkipPhase
    <2>1. PassRound' = PassRound /\ Running /\ Running'
      BY <1>6 DEF SkipPhase, PassRound, durable, Running
    <2>2. PassIsDurable' /\ Placed'
      BY <1>6, <2>1 DEF SkipPhase, IInv, PassIsDurable, Placed
    <2>3. OutputHasRows' /\ OutBounded' /\ FreshIsCommitted' /\ CompletedIsFresh'
      BY <1>6, <2>1 DEF SkipPhase, durable, IInv, OutputHasRows, OutBounded, FreshIsCommitted,
         CompletedIsFresh
    <2>4. FreshIsCompleted'
      BY <1>6, <2>1 DEF SkipPhase, durable, IInv, FreshIsCompleted
    <2>5. Swept'
      BY <1>6, <1>n, <1>i, <2>1 DEF SkipPhase, IInv, Swept
    <2>6. Screens'
      <3>1. pass = 0 => ~PostDone
        BY <1>n, <1>6 DEF SkipPhase, IInv, PassIsDurable, PostDone, Stored, NoPass
      <3>. QED BY <1>6, <1>i, <2>1, <3>1 DEF SkipPhase, durable, IInv, Screens
    <2>. QED BY <1>t, <2>2, <2>3, <2>4, <2>5, <2>6 DEF IInv
  <1>7. CASE CatchUp
    <2>1. PassRound' = PassRound /\ Running /\ Running'
      BY <1>7 DEF CatchUp, PassRound, durable, Running
    <2>2. PassIsDurable' /\ Placed' /\ Swept'
      BY <1>7, <2>1 DEF CatchUp, cursor, IInv, PassIsDurable, Placed, Swept
    <2>3. OutputHasRows' /\ OutBounded' /\ FreshIsCommitted' /\ CompletedIsFresh'
      BY <1>7, <2>1 DEF CatchUp, durable, cursor, IInv, OutputHasRows, OutBounded,
         FreshIsCommitted, CompletedIsFresh
    <2>4. FreshIsCompleted' /\ Screens'
      BY <1>7, <2>1 DEF CatchUp, durable, cursor, IInv, FreshIsCompleted, Screens
    <2>. QED BY <1>t, <2>2, <2>3, <2>4 DEF IInv
  <1>8. CASE EnterPhase
    <2>1. CASE AgentCan(agent, EntryState[phase])
      <3>1. PassRound' = PassRound /\ Running /\ Running'
        BY <1>8, <2>1 DEF EnterPhase, PassRound, durable, Running
      <3>2. PassIsDurable' /\ Placed' /\ Swept'
        BY <1>8, <2>1, <3>1 DEF EnterPhase, IInv, PassIsDurable, Placed, Swept
      <3>3. OutputHasRows' /\ OutBounded' /\ FreshIsCommitted' /\ CompletedIsFresh'
        BY <1>8, <2>1, <3>1 DEF EnterPhase, durable, IInv, OutputHasRows, OutBounded,
           FreshIsCommitted, CompletedIsFresh
      <3>4. FreshIsCompleted' /\ Screens'
        BY <1>8, <2>1, <3>1 DEF EnterPhase, durable, IInv, FreshIsCompleted, Screens
      <3>. QED BY <1>t, <3>2, <3>3, <3>4 DEF IInv
    <2>2. CASE ~AgentCan(agent, EntryState[phase])
      BY <1>8, <2>2, <1>r DEF EnterPhase
    <2>. QED BY <2>1, <2>2
  <1>9. CASE EndSweep
    <2>0. phase = Last + 1
      BY <1>9, <1>i DEF EndSweep
    <2>1. CASE from # 1
      <3>1. /\ pc = "head" /\ phase' = 1 /\ from' = 1
            /\ UNCHANGED durable
            /\ UNCHANGED <<agent, pc, pass, completed, outputs, iteration, fresh, stops>>
        BY <1>9, <2>1 DEF EndSweep
      <3>2. PassRound' = PassRound /\ Running /\ Running'
        BY <3>1 DEF PassRound, durable, Running
      <3>3. PassIsDurable' /\ Placed' /\ Swept'
        BY <1>n, <3>1, <3>2 DEF IInv, PassIsDurable, Placed, Swept, Phases
      <3>4. OutputHasRows' /\ OutBounded' /\ FreshIsCommitted' /\ CompletedIsFresh'
        BY <3>1, <3>2 DEF durable, IInv, OutputHasRows, OutBounded, FreshIsCommitted,
           CompletedIsFresh
      <3>5. FreshIsCompleted' /\ Screens'
        BY <1>i, <3>1, <3>2 DEF durable, IInv, FreshIsCompleted, Screens, Phases
      <3>. QED BY <1>t, <3>3, <3>4, <3>5 DEF IInv
    <2>2. CASE from = 1 /\ AgentCan(agent, "reporting")
      <3>1. pc = "head" /\ pc' = "report" /\ UNCHANGED durable /\ UNCHANGED cursor
            /\ UNCHANGED <<fresh, stops>>
        BY <1>9, <2>2 DEF EndSweep
      <3>2. PassRound' = PassRound /\ Running /\ Running'
        BY <3>1 DEF PassRound, durable, Running
      <3>3. PassIsDurable' /\ Placed' /\ Swept'
        BY <2>0, <2>2, <3>1, <3>2 DEF cursor, IInv, PassIsDurable, Placed, Swept
      <3>4. OutputHasRows' /\ OutBounded' /\ FreshIsCommitted' /\ CompletedIsFresh'
        BY <3>1, <3>2 DEF durable, cursor, IInv, OutputHasRows, OutBounded, FreshIsCommitted,
           CompletedIsFresh
      <3>5. FreshIsCompleted' /\ Screens'
        BY <3>1, <3>2 DEF durable, cursor, IInv, FreshIsCompleted, Screens
      <3>. QED BY <1>t, <3>3, <3>4, <3>5 DEF IInv
    <2>3. CASE from = 1 /\ ~AgentCan(agent, "reporting")
      BY <1>9, <1>r, <2>3 DEF EndSweep
    <2>. QED BY <2>1, <2>2, <2>3
  <1>10. CASE \E target \in Phases : Switch(target)
    <2>1. PICK target \in Phases : Switch(target)
      BY <1>10
    <2>2. /\ pc' = "head" /\ phase' = target /\ from' = target /\ goto'.pass = pass'
          /\ completed' = KeptBefore(completed, target)
          /\ fresh' = fresh \ Reopened(target)
          /\ UNCHANGED <<out, rows, pivots, refills, pass, screened>>
      BY <2>1 DEF Switch
    <2>3. PassRound' = PassRound /\ Running /\ Running' /\ pass = PassRound
      BY <2>1, <2>2 DEF Switch, PassRound, Running, IInv, PassIsDurable
    <2>4. PassIsDurable' /\ Placed' /\ Swept' /\ CompletedIsFresh' /\ FreshIsCompleted'
      BY <1>n, <2>2, <2>3 DEF PassIsDurable, Placed, Swept, CompletedIsFresh, FreshIsCompleted
    <2>5. OutputHasRows' /\ OutBounded'
      BY <2>2, <2>3 DEF IInv, OutputHasRows, OutBounded
    <2>6. FreshIsCommitted'
      BY <2>2, <2>3 DEF IInv, FreshIsCommitted
    <2>7. Screens'
      BY <1>n, <1>i, <2>2 DEF Screens
    <2>. QED BY <1>t, <2>4, <2>5, <2>6, <2>7 DEF IInv
  <1>11. CASE LeaveEmpty \/ Retire
    <2>1. /\ pc \in {"leave", "retire"} /\ phase \in Phases
          /\ completed' = completed \cup {phase}
          /\ \/ phase = Adversarial /\ pc' = "pipeline" /\ phase' = phase
             \/ phase # Adversarial /\ pc' = "head" /\ phase' = phase + 1
          /\ UNCHANGED <<out, rows, pivots, refills, goto, pass, from, fresh, screened>>
      BY <1>11 DEF LeaveEmpty, Retire, durable, IInv, Placed
    <2>2. PassRound' = PassRound /\ Running /\ Running'
      BY <2>1 DEF PassRound, Running
    <2>3. PassIsDurable' /\ Placed' /\ OutputHasRows' /\ OutBounded' /\ FreshIsCommitted'
      BY <2>1, <2>2 DEF IInv, PassIsDurable, Placed, OutputHasRows, OutBounded, FreshIsCommitted
    <2>4. Swept'
      BY <1>n, <1>i, <2>1, <2>2 DEF IInv, Swept
    <2>5. CompletedIsFresh'
      <3>1. CASE LeaveEmpty
        BY <2>1, <3>1 DEF LeaveEmpty, IInv, CompletedIsFresh
      <3>2. CASE Retire
        BY <2>1, <3>2 DEF Retire, IInv, CompletedIsFresh, Placed
      <3>. QED BY <1>11, <3>1, <3>2
    <2>6. FreshIsCompleted'
      BY <2>1, <2>2 DEF IInv, FreshIsCompleted
    <2>7. Screens'
      BY <1>i, <2>1, <2>2 DEF IInv, Screens
    <2>. QED BY <1>t, <2>3, <2>4, <2>5, <2>6, <2>7 DEF IInv
  <1>12. CASE ApplyEffects
    <2>1. /\ pc = "effects" /\ pc' = "marker" /\ phase \in Phases
          /\ rows' = [rows EXCEPT ![phase] = pass]
          /\ screened' = (screened /\ phase > Adversarial)
          /\ UNCHANGED <<out, pivots, refills, goto, fresh, phase, from, pass, completed, outputs>>
      BY <1>12 DEF ApplyEffects, Moves, IInv, Placed
    <2>2. PassRound' = PassRound /\ Running /\ Running' /\ pass = PassRound
      BY <2>1 DEF PassRound, Running, IInv, PassIsDurable
    <2>3. rows'[phase] = pass /\ \A p \in Phases : p # phase => rows'[p] = rows[p]
      BY <2>1 DEF IInv, TypeOK
    <2>4. PassIsDurable' /\ Placed' /\ OutBounded' /\ FreshIsCommitted'
      BY <2>1, <2>2, <2>3 DEF IInv, PassIsDurable, Placed, OutBounded, FreshIsCommitted
    <2>5. OutputHasRows'
      BY <2>1, <2>2, <2>3 DEF IInv, OutputHasRows, OutBounded
    <2>6. Swept' /\ CompletedIsFresh' /\ FreshIsCompleted'
      BY <2>1, <2>2 DEF IInv, Swept, CompletedIsFresh, FreshIsCompleted
    <2>7. Screens'
      BY <2>1, <2>2 DEF IInv, Screens
    <2>. QED BY <1>t, <2>4, <2>5, <2>6, <2>7 DEF IInv
  <1>13. CASE SaveOutput
    <2>1. /\ pc = "marker" /\ pc' = "retire" /\ phase \in Phases /\ rows[phase] = pass
          /\ out' = [out EXCEPT ![phase] = pass] /\ fresh' = fresh \cup {phase}
          /\ UNCHANGED <<rows, screened, pivots, refills, goto, phase, from, pass, completed,
                         outputs>>
      BY <1>13 DEF SaveOutput, IInv, Placed
    <2>2. PassRound' = PassRound /\ Running /\ Running' /\ pass = PassRound
      BY <2>1 DEF PassRound, Running, IInv, PassIsDurable
    <2>3. out'[phase] = pass /\ \A p \in Phases : p # phase => out'[p] = out[p]
      BY <2>1 DEF IInv, TypeOK
    <2>4. PassIsDurable' /\ Placed' /\ Swept' /\ CompletedIsFresh' /\ Screens'
      BY <2>1, <2>2 DEF IInv, PassIsDurable, Placed, Swept, CompletedIsFresh, Screens
    <2>5. OutputHasRows' /\ OutBounded'
      BY <1>n, <2>1, <2>2, <2>3 DEF IInv, OutputHasRows, OutBounded
    <2>6. FreshIsCommitted' /\ FreshIsCompleted'
      BY <2>1, <2>2, <2>3 DEF IInv, FreshIsCommitted, FreshIsCompleted
    <2>. QED BY <1>t, <2>4, <2>5, <2>6 DEF IInv
  <1>14. CASE RunPipeline
    <2>1. /\ pc = "pipeline" /\ pc' = "gate" /\ screened'
          /\ UNCHANGED <<out, rows, pivots, refills, goto, fresh, phase, from, pass, completed,
                         outputs>>
      BY <1>14 DEF RunPipeline, Moves
    <2>2. PassRound' = PassRound /\ Running /\ Running'
      BY <2>1 DEF PassRound, Running
    <2>3. PassIsDurable' /\ Placed' /\ Swept' /\ Screens'
      BY <2>1, <2>2 DEF IInv, PassIsDurable, Placed, Swept, Screens
    <2>4. OutputHasRows' /\ OutBounded' /\ FreshIsCommitted' /\ CompletedIsFresh'
          /\ FreshIsCompleted'
      BY <2>1, <2>2 DEF IInv, OutputHasRows, OutBounded, FreshIsCommitted, CompletedIsFresh,
         FreshIsCompleted
    <2>. QED BY <1>t, <2>3, <2>4 DEF IInv
  <1>15. CASE Pivot \/ Refill
    <2>1. /\ pc = "gate" /\ pc' = "head" /\ pass' = pass + 1
          /\ completed' = {} /\ fresh' = {} /\ phase' = 1 /\ from' = 1
          /\ UNCHANGED <<out, rows>>
      BY <1>15 DEF Pivot, Refill, StartPass
    <2>2. PassRound' = PassRound + 1
      BY <1>15, BoundAssumption DEF Pivot, Refill, IInv, TypeOK, PassRound
    <2>3. pass = PassRound /\ Running'
      BY <2>1 DEF IInv, PassIsDurable, Running
    <2>4. PassIsDurable' /\ Placed' /\ CompletedIsFresh' /\ FreshIsCompleted'
      BY <2>1, <2>2, <2>3 DEF PassIsDurable, Placed, CompletedIsFresh, FreshIsCompleted
    <2>5. OutputHasRows' /\ OutBounded' /\ FreshIsCommitted'
      BY <1>n, <2>1, <2>2 DEF IInv, OutputHasRows, OutBounded, FreshIsCommitted
    <2>6. Swept' /\ Screens'
      BY <1>n, <1>i, <2>1, <2>2, <2>3 DEF Swept, Screens, Phases
    <2>. QED BY <1>t, <2>4, <2>5, <2>6 DEF IInv
  <1>16. CASE MarkPost
    <2>1. /\ pc = "gate" /\ pc' = "head" /\ phase' = phase + 1
          /\ phase = Adversarial /\ phase \in completed
          /\ UNCHANGED <<out, rows, screened, pivots, refills, goto, fresh, from, pass, completed,
                         outputs>>
      BY <1>16 DEF MarkPost, IInv, Placed
    <2>2. PassRound' = PassRound /\ Running /\ Running'
      BY <2>1 DEF PassRound, Running
    <2>3. PassIsDurable' /\ Placed' /\ OutputHasRows' /\ OutBounded' /\ FreshIsCommitted'
      BY <2>1, <2>2 DEF IInv, PassIsDurable, Placed, OutputHasRows, OutBounded, FreshIsCommitted
    <2>4. Swept'
      BY <1>n, <1>i, <2>1, <2>2 DEF IInv, Swept
    <2>5. CompletedIsFresh' /\ FreshIsCompleted' /\ Screens'
      BY <2>1, <2>2 DEF IInv, CompletedIsFresh, FreshIsCompleted, Screens
    <2>. QED BY <1>t, <2>3, <2>4, <2>5 DEF IInv
  <1>17. CASE WriteReport
    <2>1. /\ pc = "report" /\ pc' = "done"
          /\ UNCHANGED <<out, rows, screened, pivots, refills, goto, fresh, phase, from, pass,
                         completed, outputs>>
      BY <1>17 DEF WriteReport, durable, cursor
    <2>2. PassRound' = PassRound /\ Running /\ Running'
      BY <2>1 DEF PassRound, Running
    <2>3. PassIsDurable' /\ Placed' /\ Swept' /\ Screens'
      BY <2>1, <2>2 DEF IInv, PassIsDurable, Placed, Swept, Screens
    <2>4. OutputHasRows' /\ OutBounded' /\ FreshIsCommitted' /\ CompletedIsFresh'
          /\ FreshIsCompleted'
      BY <2>1, <2>2 DEF IInv, OutputHasRows, OutBounded, FreshIsCommitted, CompletedIsFresh,
         FreshIsCompleted
    <2>. QED BY <1>t, <2>3, <2>4 DEF IInv
  <1>18. CASE UNCHANGED vars
    <2>1. PassRound' = PassRound /\ Running' = Running
      BY <1>18 DEF vars, PassRound, Running
    <2>. QED
      BY <1>18, <1>t, <2>1 DEF vars, IInv, PassIsDurable, Placed, Swept, Screens, OutputHasRows,
         OutBounded, FreshIsCommitted, CompletedIsFresh, FreshIsCompleted
  <1>. QED
    BY <1>1, <1>2, <1>3, <1>4, <1>5, <1>6, <1>7, <1>8, <1>9, <1>10, <1>11, <1>12, <1>13, <1>14,
       <1>15, <1>16, <1>17, <1>18
    DEF Next, Progress, Interruption, Sweep, InPhase, AfterP8

\* The invariant holds of every reachable state.
THEOREM Invariant == Spec => []IInv
  <1>. QED BY InitIInv, StepIInv, PTL DEF Spec

-----------------------------------------------------------------------------
(* What follows *)

\* Every variable keeps its type.
THEOREM TypeCorrect == Spec => []TypeOK
  <1>1. IInv => TypeOK
    BY DEF IInv
  <1>. QED BY <1>1, Invariant, PTL

\* The pass a run keeps in memory is the one its checkpoints are keyed to (_pass_round
\* against the count _run_once keeps), after any pivots, refills and restarts.
THEOREM PassesAgree == Spec => []PassIsDurable
  <1>1. IInv => PassIsDurable
    BY DEF IInv
  <1>. QED BY <1>1, Invariant, PTL

\* A phase_output checkpoint is never ahead of the rows its phase wrote, whatever write
\* a run ends after (_run_phase applies the effects before it saves the marker).
THEOREM RowsComeFirst == Spec => []OutputHasRows
  <1>1. IInv => OutputHasRows
    BY DEF IInv
  <1>. QED BY <1>1, Invariant, PTL

\* In a pass without a switch, the phases a run takes for completed were committed in
\* this very pass or handed over nothing (_load_phase_output is pass-aware).
THEOREM ResumeIsFresh == Spec => []CompletedIsFresh
  <1>1. IInv => CompletedIsFresh
    BY DEF IInv
  <1>. QED BY <1>1, Invariant, PTL

\* The report is written when every phase is complete, however many phases there are
\* and wherever switches led (_run_once ends on a sweep from Phase 1 only).
THEOREM ReportComplete == Spec => []ReportIsComplete
  <1>1. IInv => ReportIsComplete
    <2>. SUFFICES ASSUME IInv, pc = "report" PROVE completed = Phases
      BY DEF ReportIsComplete
    <2>1. phase = Last + 1 /\ from = 1 /\ Running
      BY DEF IInv, Placed, Running
    <2>2. \A p \in Phases : p \in completed
      BY <2>1, PhaseAssumption DEF IInv, Swept, Phases
    <2>. QED BY <2>2 DEF IInv, TypeOK
  <1>. QED BY <1>1, Invariant, PTL

\* In the first pass no report is written over work the integrity pipeline has not
\* judged, whatever stopped and switched (_run_once catches the pipeline up).
THEOREM ReportScreened == Spec => []ReportIsScreened
  <1>1. IInv => ReportIsScreened
    <2>. SUFFICES ASSUME IInv, pc = "report", pass = 0 PROVE screened
      BY DEF ReportIsScreened
    <2>1. phase = Last + 1 /\ from = 1 /\ Running
      BY DEF IInv, Placed, Running
    <2>2. 1 <= Adversarial /\ Adversarial < Last + 1
      BY PhaseAssumption DEF Phases
    <2>. QED BY <2>1, <2>2 DEF IInv, Screens
  <1>. QED BY <1>1, Invariant, PTL

\* In a pass without a switch no committed phase is entered again, by any restart, pause
\* or sweep (_run_once reuses every phase committed in the current pass).
THEOREM CommittedNotRedone == Spec => NothingRedone
  <1>1. IInv /\ [Next]_vars =>
          [pc = "head" /\ pc' = "iterate" /\ goto.pass # pass => phase \notin fresh]_vars
    <2>. SUFFICES ASSUME IInv, [Next]_vars, pc = "head", pc' = "iterate", goto.pass # pass
                  PROVE  phase \notin fresh
      OBVIOUS
    <2>1. EnterPhase
      BY DEF Next, Progress, Interruption, Sweep, InPhase, AfterP8, Begin, Stops, StopsInSwitch,
         PauseAtHead, PauseInPhase, PauseAtAction, OwnerPauses, Forgets, Refused, SkipPhase,
         CatchUp, EndSweep, AskModel, EndLoop, ModelFails, ModelReplies, Explore, Commits, Stalls,
         Switch, LeaveEmpty, LeaveForced, ApplyEffects, SaveOutput, Retire, RunPipeline, Pivot,
         Refill, MarkPost, WriteReport, Moves, vars
    <2>. QED BY <2>1 DEF EnterPhase, IInv, FreshIsCompleted, Running
  <1>. QED BY <1>1, Invariant, PTL DEF Spec, NothingRedone

\* In the first pass synthesis starts on screened work only, unless the model switched
\* straight to it (_post_adversarial runs before the sweep goes on).
THEOREM SynthesisScreened == Spec => SynthesisIsScreened
  <1>1. IInv /\ [Next]_vars =>
          [pc = "head" /\ pc' = "iterate" /\ phase > Adversarial
             /\ from <= Adversarial /\ pass = 0 => screened]_vars
    BY DEF IInv, Screens, Running
  <1>. QED BY <1>1, Invariant, PTL DEF Spec, SynthesisIsScreened
-----------------------------------------------------------------------------
(* Calls: the calls a run makes to the model, and what the owner reads of its thoughts *)

Standings == InFlight \cup Ended \cup {"idle"}
Voices    == [try : Nat, way : Standings \cup {"note"}, k : Nat]
CallRows  == [pc : Standings, try : Nat, room : Int, said : Seq(Voices), broken : BOOLEAN]
Rows      == [status : {"none", "streaming", "done", "failed", "interrupted"},
              detail : Seq(Voices)]
BufferRows == [on : BOOLEAN, detail : Seq(Voices)]

\* What a thought holds while its call goes on, and when it has ended.
Thinks(k, r, l) ==
  /\ k \in CallRows /\ r \in Rows /\ l \in BufferRows
  /\ k.pc = "idle" => r.status = "none" /\ ~l.on /\ k.said = <<>>
  /\ k.pc \in InFlight => up /\ r.status = IF l.on THEN "streaming" ELSE "none"
  /\ k.pc \in Ended \ {"dropped"} /\ Untouched("refusals") =>
       ~l.on /\ (up => r.status # "streaming")
  /\ ~up => ~l.on
  /\ l.on /\ ~k.broken /\ setup.fields = 1 =>
       /\ k.pc = "stream" => l.detail = Capped(k.said)
       /\ k.pc \in {"plain", "backoff"} => l.detail = <<>>
  /\ r.status = "done" =>
       /\ k.pc \in {"replied", "contract"}
       /\ ~k.broken /\ setup.fields = 1 => r.detail = Explained(Capped(k.said))
       /\ setup.thinking => r.detail # <<>>

Bounded ==
  /\ setup \in Setups /\ up \in BOOLEAN
  /\ left \in [{"cancels", "refusals", "crashes"} -> Nat]
  /\ left["refusals"] <= setup["refusals"]

Functional ==
  /\ call = [c \in Ids |-> call[c]] /\ row = [c \in Ids |-> row[c]]
  /\ live = [c \in Ids |-> live[c]]

CallsInv == Bounded /\ Functional /\ \A c \in Ids : Thinks(call[c], row[c], live[c])

-----------------------------------------------------------------------------
\* What is capped is a beginning.
LEMMA CappedIs ==
  ASSUME NEW s \in Seq(Voices)
  PROVE  /\ Capped(s) \in Seq(Voices)
         /\ Capped(s) = <<>> <=> s = <<>>
         /\ Len(Capped(s)) = IF Len(s) < DetailCap THEN Len(s) ELSE DetailCap
         /\ \A i \in 1..Len(Capped(s)) : Capped(s)[i] = s[i]
<1> DEFINE n == IF Len(s) < DetailCap THEN Len(s) ELSE DetailCap
<1>1. n \in Nat /\ n <= Len(s) /\ (n = 0 <=> Len(s) = 0)
  BY CallsAssumption
<1>2. \A i \in 1..n : s[i] \in Voices
  BY <1>1
<1>3. Capped(s) = SubSeq(s, 1, n)
  BY DEF Capped
<1> HIDE DEF n
<1>4. Capped(s) \in Seq(Voices) /\ Len(Capped(s)) = n
      /\ \A i \in 1..n : Capped(s)[i] = s[i]
  BY <1>1, <1>2, <1>3, SubSeqProperties
<1> QED BY <1>1, <1>4 DEF n

\* Capping again with one piece more is capping once.
LEMMA CappedGrows ==
  ASSUME NEW s \in Seq(Voices), NEW p \in Voices
  PROVE  Capped(Capped(s) \o <<p>>) = Capped(Append(s, p))
<1>1. <<p>> \in Seq(Voices) /\ Append(s, p) \in Seq(Voices) /\ Len(Append(s, p)) = Len(s) + 1
      /\ (\A i \in 1..Len(s) : Append(s, p)[i] = s[i]) /\ Append(s, p)[Len(s) + 1] = p
  BY AppendProperties
<1> DEFINE b == Capped(s)
           t == b \o <<p>>
<1>2. b \in Seq(Voices) /\ Len(b) = (IF Len(s) < DetailCap THEN Len(s) ELSE DetailCap)
      /\ \A i \in 1..Len(b) : b[i] = s[i]
  BY CappedIs
<1> HIDE DEF b
<1>3. t \in Seq(Voices) /\ Len(t) = Len(b) + 1
      /\ \A i \in 1..Len(t) : t[i] = IF i <= Len(b) THEN b[i] ELSE p
  BY <1>1, <1>2, ConcatProperties
<1>4. \A i \in 1..Len(t) : i <= DetailCap => t[i] = Append(s, p)[i]
  BY <1>1, <1>2, <1>3, CallsAssumption
<1> HIDE DEF t
<1> DEFINE x == Capped(t)
           y == Capped(Append(s, p))
<1>5. x \in Seq(Voices) /\ Len(x) = (IF Len(t) < DetailCap THEN Len(t) ELSE DetailCap)
      /\ \A i \in 1..Len(x) : x[i] = t[i]
  BY <1>3, CappedIs
<1>6. y \in Seq(Voices) /\ Len(y) = (IF Len(s) + 1 < DetailCap THEN Len(s) + 1 ELSE DetailCap)
      /\ \A i \in 1..Len(y) : y[i] = Append(s, p)[i]
  BY <1>1, CappedIs
<1> HIDE DEF x, y
<1>7. Len(x) = Len(y) /\ \A i \in 1..Len(x) : x[i] = y[i]
  BY <1>2, <1>3, <1>4, <1>5, <1>6, CallsAssumption
<1>8. x = y
  BY <1>5, <1>6, <1>7, SeqEqual
<1> QED BY <1>8 DEF x, y, t, b
-----------------------------------------------------------------------------
(* One call at a time *)

\* A step is one call's, and the database's: the others stay as they are.
Touches(c) ==
  /\ \A d \in Ids \ {c} : call'[d] = call[d] /\ row'[d] = row[d] /\ live'[d] = live[d]
  /\ Functional' /\ Bounded' /\ UNCHANGED <<up, setup>>
  /\ Untouched("refusals")' => Untouched("refusals")

\* It is enough to look at the call of the step.
LEMMA OneCall ==
  ASSUME CallsInv, NEW c \in Ids, Touches(c),
         NEW k, NEW r, NEW l, k = call'[c], r = row'[c], l = live'[c], Thinks(k, r, l)'
  PROVE  CallsInv'
<1>1. ASSUME NEW d \in Ids \ {c}, NEW k2, NEW r2, NEW l2,
             k2 = call[d], r2 = row[d], l2 = live[d]
      PROVE  Thinks(k2, r2, l2)'
  <2>1. Thinks(k2, r2, l2)
    BY <1>1 DEF CallsInv
  <2> QED BY <2>1 DEF Thinks, Touches, Explained
<1>2. \A d \in Ids : Thinks(call[d], row[d], live[d])'
  BY <1>1 DEF Touches
<1> QED BY <1>2 DEF CallsInv, Touches

\* What the database does is counted.
LEMMA LeftCounts ==
  ASSUME Bounded, UNCHANGED <<up, setup>>
  PROVE  /\ Written =>
              Bounded' /\ (Untouched("refusals")' => Untouched("refusals"))
         /\ WriteRefused => Bounded' /\ ~Untouched("refusals")'
         /\ left["cancels"] > 0 /\ Spent("cancels") =>
              Bounded' /\ (Untouched("refusals")' => Untouched("refusals"))
         /\ left["refusals"] > 0 /\ left["cancels"] > 0
            /\ left' = [left EXCEPT !["cancels"] = @ - 1, !["refusals"] = @ - 1] =>
              Bounded' /\ ~Untouched("refusals")'
<1>1. setup["refusals"] \in Nat
  BY CallsAssumption DEF Bounded
<1> QED BY <1>1 DEF Bounded, Written, WriteRefused, Spent, Untouched

\* A thought that is closed, or whose last write is refused.
LEMMA FinishMakes ==
  ASSUME CallsInv, NEW c \in Ids, NEW status, NEW detail,
         Finish(c, status, detail), UNCHANGED <<up, setup>>
  PROVE  /\ \A d \in Ids \ {c} : row'[d] = row[d] /\ live'[d] = live[d]
         /\ row' = [d \in Ids |-> row'[d]] /\ live' = [d \in Ids |-> live'[d]]
         /\ Bounded' /\ (Untouched("refusals")' => Untouched("refusals"))
         /\ \/ /\ live'[c] = NoBuffer
               /\ row'[c] = IF live[c].on THEN [status |-> status, detail |-> detail] ELSE row[c]
            \/ /\ live[c].on /\ row'[c] = row[c] /\ ~Untouched("refusals")'
               /\ live'[c] \in {NoBuffer, [live[c] EXCEPT !.detail = detail]}
<1>1. /\ call = [d \in Ids |-> call[d]] /\ row = [d \in Ids |-> row[d]]
      /\ live = [d \in Ids |-> live[d]] /\ Bounded
  BY DEF CallsInv, Functional
<1>2. CASE Closed(c, status, detail) /\ Written
  BY <1>1, <1>2, LeftCounts DEF Closed
<1>3. CASE Unclosed(c, detail) /\ WriteRefused
  BY <1>1, <1>3, LeftCounts DEF Unclosed
<1> QED BY <1>2, <1>3 DEF Finish

\* A call that ends with its thought closed.
LEMMA EndThinks ==
  ASSUME CallsInv, NEW c \in Ids, call[c].pc \in InFlight,
         NEW status \in {"done", "failed"}, NEW detail \in Seq(Voices),
         \/ Finish(c, status, detail)
         \/ Closed(c, status, detail) /\ left["cancels"] > 0 /\ Spent("cancels")
         \/ Unclosed(c, detail) /\ left["refusals"] > 0 /\ left["cancels"] > 0
            /\ left' = [left EXCEPT !["cancels"] = @ - 1, !["refusals"] = @ - 1],
         UNCHANGED <<up, setup>>, NEW k \in CallRows, k.pc \in Ended \ {"dropped"},
         call' = [call EXCEPT ![c] = k],
         status = "done" =>
           /\ k.pc \in {"replied", "contract"}
           /\ live[c].on /\ ~k.broken /\ setup.fields = 1
                => detail = Explained(Capped(k.said))
           /\ setup.thinking => detail # <<>>
  PROVE  CallsInv'
<1>1. /\ \A d \in Ids \ {c} : row'[d] = row[d] /\ live'[d] = live[d]
      /\ row' = [d \in Ids |-> row'[d]] /\ live' = [d \in Ids |-> live'[d]]
      /\ Bounded' /\ (Untouched("refusals")' => Untouched("refusals"))
      /\ \/ /\ live'[c] = NoBuffer
            /\ row'[c] = IF live[c].on THEN [status |-> status, detail |-> detail] ELSE row[c]
         \/ /\ live[c].on /\ row'[c] = row[c] /\ ~Untouched("refusals")'
            /\ live'[c] \in {NoBuffer, [live[c] EXCEPT !.detail = detail]}
  <2>1. CASE Finish(c, status, detail)
    BY <2>1, FinishMakes
  <2>2. /\ row = [d \in Ids |-> row[d]] /\ live = [d \in Ids |-> live[d]] /\ Bounded
    BY DEF CallsInv, Functional
  <2>3. CASE Closed(c, status, detail) /\ left["cancels"] > 0 /\ Spent("cancels")
    BY <2>2, <2>3, LeftCounts DEF Closed
  <2>4. CASE Unclosed(c, detail) /\ left["refusals"] > 0 /\ left["cancels"] > 0
             /\ left' = [left EXCEPT !["cancels"] = @ - 1, !["refusals"] = @ - 1]
    BY <2>2, <2>4, LeftCounts DEF Unclosed
  <2> QED BY <2>1, <2>3, <2>4
<1>2. call' = [d \in Ids |-> call'[d]] /\ call'[c] = k /\ \A d \in Ids \ {c} : call'[d] = call[d]
  BY DEF CallsInv, Functional
<1>3. Touches(c)
  BY <1>1, <1>2 DEF Touches, Functional
<1>4. PICK r, l : r = row'[c] /\ l = live'[c]
  OBVIOUS
<1>5. Thinks(call[c], row[c], live[c])
  BY DEF CallsInv
<1>6. live[c] \in BufferRows /\ row[c] \in Rows /\ up
      /\ row[c].status = IF live[c].on THEN "streaming" ELSE "none"
  BY <1>5 DEF Thinks
<1>7. l \in BufferRows /\ r \in Rows
  <2>1. NoBuffer \in BufferRows /\ [live[c] EXCEPT !.detail = detail] \in BufferRows
    BY <1>6 DEF NoBuffer, BufferRows
  <2>2. [status |-> status, detail |-> detail] \in Rows
    BY DEF Rows
  <2> QED BY <1>1, <1>4, <1>6, <2>1, <2>2
<1>8. k.pc \notin InFlight \cup {"idle"}
  BY DEF Ended, InFlight
<1>9. Thinks(k, r, l)'
  <2>1. CASE l = NoBuffer
          /\ r = IF live[c].on THEN [status |-> status, detail |-> detail] ELSE row[c]
    BY <1>6, <1>7, <1>8, <2>1 DEF Thinks, NoBuffer, Explained
  <2>2. CASE live[c].on /\ r = row[c] /\ ~Untouched("refusals")'
    BY <1>6, <1>7, <1>8, <2>2 DEF Thinks, InFlight
  <2> QED BY <1>1, <1>4, <2>1, <2>2
<1> QED BY <1>2, <1>3, <1>4, <1>9, OneCall

\* Nothing is capped to nothing.
LEMMA NoneCapped == <<>> \in Seq(Voices) /\ Capped(<<>>) = <<>>
<1>1. <<>> \in Seq(Voices)
  OBVIOUS
<1> QED BY <1>1, CappedIs

\* The next request of a call, after what the last one said was dropped.
LEMMA AgainThinks ==
  ASSUME CallsInv, NEW c \in Ids, call[c].pc \in InFlight,
         Restart(c),
         UNCHANGED <<up, setup>>, NEW k \in CallRows, k.pc \in InFlight, k.said = <<>>,
         call' = [call EXCEPT ![c] = k]
  PROVE  CallsInv'
<1>1. /\ call = [d \in Ids |-> call[d]] /\ row = [d \in Ids |-> row[d]]
      /\ live = [d \in Ids |-> live[d]] /\ Bounded
  BY DEF CallsInv, Functional
<1>2. live[c] \in BufferRows /\ row[c] \in Rows /\ up
      /\ row[c].status = IF live[c].on THEN "streaming" ELSE "none"
  BY DEF CallsInv, Thinks
<1>3. PICK r, l : r = row'[c] /\ l = live'[c]
  OBVIOUS
<1>4. l \in BufferRows /\ l.on = live[c].on /\ l.detail = <<>>
  <2>1. l = [live[c] EXCEPT !.detail = <<>>]
    BY <1>1, <1>3 DEF Restart
  <2> QED BY <1>2, <2>1, NoneCapped DEF BufferRows
<1>5. r \in Rows /\ r.status = row[c].status
  <2>1. r \in {row[c], [row[c] EXCEPT !.detail = <<>>]}
    BY <1>1, <1>3 DEF Restart
  <2> QED BY <1>2, <2>1, NoneCapped DEF Rows
<1>6. Touches(c)
  BY <1>1, LeftCounts DEF Restart, Touches, Functional
<1>7. Capped(<<>>) = <<>>
  BY NoneCapped
<1>8. Thinks(k, r, l)'
  BY <1>2, <1>4, <1>5, <1>7 DEF Thinks, InFlight, Ended
<1>9. k = call'[c]
  BY <1>1
<1> QED BY <1>3, <1>6, <1>8, <1>9, OneCall

\* A call that goes on with its thought as it is.
LEMMA SleepThinks ==
  ASSUME CallsInv, NEW c \in Ids, call[c].pc \in InFlight,
         UNCHANGED <<row, live, left, up, setup>>, NEW k \in CallRows, k.pc \in InFlight,
         k.pc = "stream" => k.said = <<>>,
           ~k.broken => live[c].detail = <<>> \/ ~live[c].on \/ setup.fields # 1,
         call' = [call EXCEPT ![c] = k]
  PROVE  CallsInv'
<1>1. /\ call = [d \in Ids |-> call[d]] /\ row = [d \in Ids |-> row[d]]
      /\ live = [d \in Ids |-> live[d]] /\ Bounded
  BY DEF CallsInv, Functional
<1>2. live[c] \in BufferRows /\ row[c] \in Rows /\ up
      /\ row[c].status = IF live[c].on THEN "streaming" ELSE "none"
  BY DEF CallsInv, Thinks
<1>3. PICK r, l : r = row[c] /\ l = live[c]
  OBVIOUS
<1>4. Touches(c)
  BY <1>1 DEF Touches, Functional, Untouched, Bounded
<1>5. Capped(<<>>) = <<>>
  BY NoneCapped
<1>6. Thinks(k, r, l)'
  BY <1>2, <1>3, <1>5 DEF Thinks, InFlight, Ended
<1>7. k = call'[c]
  BY <1>1
<1> QED BY <1>3, <1>4, <1>6, <1>7, OneCall

\* An answer that is kept says what the thought then shows.
LEMMA HandleThinks ==
  ASSUME CallsInv, NEW c \in Ids, call[c].pc \in {"stream", "plain"},
         NEW answer, Reasoning(answer) \in Seq(Voices), answer.body \in Bodies,
         call[c].pc = "stream" =>
           Reasoning(answer) = call[c].said \/ call[c].said = <<>>,
         Handle(c, answer), UNCHANGED <<up, setup>>
  PROVE  CallsInv'
<1>1. call = [d \in Ids |-> call[d]] /\ call[c].pc \in InFlight
  BY DEF CallsInv, Functional, InFlight
<1>2. call[c] \in CallRows /\ live[c] \in BufferRows /\ row[c] \in Rows
      /\ Thinks(call[c], row[c], live[c])
  BY DEF CallsInv, Thinks
<1>3. CASE Truncated(c, answer)
  <2>1. PICK k : k = [call[c] EXCEPT !.pc = Way(c), !.try = @ + 1,
          !.room = Doubled(call[c].room), !.said = <<>>]
    OBVIOUS
  <2>2. Way(c) \in Standings \cap InFlight
    BY DEF Way, InFlight, Standings
  <2>4. Doubled(call[c].room) \in Int
    BY <1>2, CallsAssumption DEF CallRows, Doubled
  <2>5. k \in CallRows /\ k.pc \in InFlight /\ k.said = <<>>
    <3>1. DOMAIN call[c] = {"pc", "try", "room", "said", "broken"} /\ call[c].try + 1 \in Nat
      BY <1>2 DEF CallRows
    <3>2. k.pc = Way(c) /\ k.said = <<>>
      BY <2>1, <3>1
    <3>3. k \in CallRows
      BY <1>2, <2>1, <2>2, <2>4, <3>1, NoneCapped DEF CallRows
    <3> QED BY <2>2, <3>2, <3>3
  <2>6. call' = [call EXCEPT ![c] = k]
    BY <1>1, <1>3, <2>1 DEF Handle, NextTry
  <2>3. Restart(c)
    BY <1>3 DEF Handle
  <2> QED BY <1>1, <2>3, <2>5, <2>6, AgainThinks
<1>4. CASE ~Truncated(c, answer)
  <2> DEFINE all == Captured(c, answer)
             end == CASE answer.body = "json" -> "replied" [] answer.body = "short" -> "contract"
                      [] OTHER -> "unparsed"
             k == [call[c] EXCEPT !.pc = end, !.said = Reasoning(answer)]
  <2>1. end \in {"replied", "contract", "unparsed"}
    BY DEF Bodies
  <2>2. k \in CallRows /\ k.pc \in Ended \ {"dropped"}
    BY <1>2, <2>1 DEF CallRows, Ended, Standings
  <2>3. call' = [call EXCEPT ![c] = k]
    BY <1>1, <1>4 DEF Handle
  <2>4. IF end = "unparsed" THEN Finish(c, "failed", all)
          ELSE Finish(c, "done", Explained(all))
    BY <1>4 DEF Handle
  <2>5. all \in Seq(Voices)
    <3>1. live[c].detail \in Seq(Voices)
      BY <1>2 DEF BufferRows
    <3>2. live[c].detail \o Reasoning(answer) \in Seq(Voices)
      BY <3>1, ConcatProperties
    <3>3. Added(c, Reasoning(answer)) \in Seq(Voices)
      BY <3>2, CappedIs, NoneCapped DEF Added
    <3> QED BY <3>1, <3>3 DEF Captured
  <2>6. Explained(all) \in Seq(Voices)
    <3>1. Note \in Voices
      BY DEF Note, Voices
    <3>2. <<Note>> \in Seq(Voices)
      BY <3>1
    <3> QED BY <2>5, <3>2 DEF Explained
  <2>7. ASSUME live[c].on, ~call[c].broken, setup.fields = 1
        PROVE  all = Capped(Reasoning(answer))
    <3>1. live[c].detail = IF call[c].pc = "stream" THEN Capped(call[c].said) ELSE <<>>
      BY <1>2, <2>7 DEF Thinks
    <3>2. call[c].said \in Seq(Voices)
      BY <1>2 DEF CallRows
    <3>3. live[c].detail # <<>> => live[c].detail = Capped(Reasoning(answer))
      BY <3>1, <3>2, CappedIs
    <3>4. <<>> \o Reasoning(answer) = Reasoning(answer)
      BY ConcatEmptySeq
    <3> QED BY <2>7, <3>3, <3>4 DEF Captured, Added
  <2>8. setup.thinking => Explained(all) # <<>>
    BY DEF Explained
  <2> HIDE DEF all
  <2>9. k.said = Reasoning(answer) /\ k.broken = call[c].broken /\ k.pc = end
    BY <1>2 DEF CallRows
  <2> HIDE DEF end
  <2>10. CASE end = "unparsed"
    <3> HIDE DEF k
    <3> QED BY <1>1, <2>2, <2>3, <2>4, <2>5, <2>10, EndThinks
  <2>11. CASE end # "unparsed"
    <3> HIDE DEF k
    <3>1. k.pc \in {"replied", "contract"}
      BY <2>1, <2>9, <2>11
    <3>2. live[c].on /\ ~k.broken /\ setup.fields = 1
            => Explained(all) = Explained(Capped(k.said))
      BY <2>7, <2>9
    <3> QED BY <1>1, <2>2, <2>3, <2>4, <2>6, <2>8, <2>11, <3>1, <3>2, EndThinks
  <2> QED BY <2>10, <2>11
<1> QED BY <1>3, <1>4

\* What holds of one call.
LEMMA CallIs ==
  ASSUME CallsInv, NEW c \in Ids
  PROVE  /\ call = [d \in Ids |-> call[d]] /\ row = [d \in Ids |-> row[d]]
         /\ live = [d \in Ids |-> live[d]] /\ Bounded
         /\ Thinks(call[c], row[c], live[c])
         /\ call[c] \in CallRows /\ live[c] \in BufferRows /\ row[c] \in Rows
BY DEF CallsInv, Functional, Thinks

\* A call begins with its thought, or without one.
LEMMA BeginThinks ==
  ASSUME CallsInv, NEW c \in Ids, BeginCall(c)
  PROVE  CallsInv'
<1>1. /\ up /\ call[c].pc = "idle" /\ call' = [call EXCEPT ![c].pc = Way(c)]
      /\ UNCHANGED <<up, setup>>
      /\ \/ /\ row' = [row EXCEPT ![c] = [status |-> "streaming", detail |-> <<>>]]
            /\ live' = [live EXCEPT ![c] = [on |-> TRUE, detail |-> <<>>]]
            /\ Written
         \/ UNCHANGED <<row, live>> /\ WriteRefused
  BY DEF BeginCall
<1>2. /\ call = [d \in Ids |-> call[d]] /\ row = [d \in Ids |-> row[d]]
      /\ live = [d \in Ids |-> live[d]] /\ Bounded
      /\ Thinks(call[c], row[c], live[c])
      /\ call[c] \in CallRows /\ live[c] \in BufferRows /\ row[c] \in Rows
  BY CallIs
<1>3. PICK k, r, l : k = call'[c] /\ r = row'[c] /\ l = live'[c]
  OBVIOUS
<1>4. Touches(c)
  BY <1>1, <1>2, LeftCounts DEF Touches, Functional
<1>5. Way(c) \in Standings \cap {"stream", "plain"}
  BY DEF Way, Standings, InFlight
<1>6. k = [call[c] EXCEPT !.pc = Way(c)]
  BY <1>1, <1>2, <1>3
<1>7. k \in CallRows /\ k.pc = Way(c) /\ k.said = <<>>
  BY <1>1, <1>2, <1>5, <1>6 DEF CallRows, Thinks
<1>8. \/ l = [on |-> TRUE, detail |-> <<>>] /\ r = [status |-> "streaming", detail |-> <<>>]
      \/ l = live[c] /\ r = row[c] /\ r.status = "none" /\ ~l.on
  BY <1>1, <1>2, <1>3 DEF Thinks
<1>9. l \in BufferRows /\ r \in Rows
  <2>1. [on |-> TRUE, detail |-> <<>>] \in BufferRows
    BY NoneCapped DEF BufferRows
  <2>2. [status |-> "streaming", detail |-> <<>>] \in Rows
    BY NoneCapped DEF Rows
  <2> QED BY <1>2, <1>8, <2>1, <2>2
<1>10. Thinks(k, r, l)'
  BY <1>1, <1>5, <1>7, <1>8, <1>9, NoneCapped DEF Thinks, InFlight, Ended
<1> QED BY <1>3, <1>4, <1>10, OneCall

\* A piece of the stream, in the buffer as it is in what was said.
LEMMA DeltaThinks ==
  ASSUME CallsInv, NEW c \in Ids, Delta(c)
  PROVE  CallsInv'
<1>1. /\ call = [d \in Ids |-> call[d]] /\ row = [d \in Ids |-> row[d]]
      /\ live = [d \in Ids |-> live[d]] /\ Bounded
      /\ Thinks(call[c], row[c], live[c])
      /\ call[c] \in CallRows /\ live[c] \in BufferRows /\ row[c] \in Rows
  BY CallIs
<1> DEFINE p == Piece(c, Len(call[c].said) + 1)
           more == [i \in 1..setup.fields |-> p]
<1>2. /\ call[c].pc = "stream" /\ call' = [call EXCEPT ![c].said = Append(@, p)]
      /\ Push(c, more) /\ UNCHANGED <<up, setup>>
  BY DEF Delta
<1>3. p \in Voices
  BY <1>1 DEF Piece, Voices, CallRows
<1>4. setup.fields \in Nat \ {0}
  BY <1>1, CallsAssumption DEF Bounded
<1>5. more \in Seq(Voices) /\ (setup.fields = 1 => more = <<p>>)
  <2> HIDE DEF p
  <2> QED BY <1>3, <1>4
<1> HIDE DEF more, p
<1>6. live[c].detail \in Seq(Voices) /\ call[c].said \in Seq(Voices)
  BY <1>1 DEF BufferRows, CallRows
<1>7. Added(c, more) \in Seq(Voices)
  <2>1. live[c].detail \o more \in Seq(Voices)
    BY <1>5, <1>6, ConcatProperties
  <2> QED BY <2>1, CappedIs, NoneCapped DEF Added
<1>8. PICK k, r, l : k = call'[c] /\ r = row'[c] /\ l = live'[c]
  OBVIOUS
<1>9. k = [call[c] EXCEPT !.said = Append(@, p)]
  BY <1>1, <1>2, <1>8
<1>10. k \in CallRows /\ k.pc = "stream" /\ k.said = Append(call[c].said, p)
       /\ k.broken = call[c].broken
  <2>1. Append(call[c].said, p) \in Seq(Voices)
    BY <1>3, <1>6
  <2> QED BY <1>1, <1>2, <1>9, <2>1 DEF CallRows
<1>11. /\ live' = [live EXCEPT ![c].detail = Added(c, more)]
       /\ row' = row \/ row' = [row EXCEPT ![c].detail = live'[c].detail]
  BY <1>2 DEF Push
<1>12. l = [live[c] EXCEPT !.detail = Added(c, more)]
  BY <1>1, <1>8, <1>11
<1>13. l \in BufferRows /\ l.on = live[c].on /\ l.detail = Added(c, more)
  BY <1>1, <1>7, <1>12 DEF BufferRows
<1>14. r = row[c] \/ r = [row[c] EXCEPT !.detail = l.detail]
  BY <1>1, <1>8, <1>11
<1>15. r \in Rows /\ r.status = row[c].status
  BY <1>1, <1>7, <1>13, <1>14 DEF Rows
<1>16. Touches(c)
  BY <1>1, <1>2, <1>11, LeftCounts DEF Push, Touches, Functional
<1>17. ASSUME l.on, ~k.broken, setup.fields = 1
       PROVE  l.detail = Capped(k.said)
  <2>1. live[c].detail = Capped(call[c].said)
    BY <1>1, <1>2, <1>10, <1>13, <1>17 DEF Thinks
  <2>2. l.detail = Capped(Capped(call[c].said) \o <<p>>)
    BY <1>5, <1>13, <1>17, <2>1 DEF Added
  <2> QED BY <1>3, <1>6, <1>10, <2>2, CappedGrows
<1>18. Thinks(k, r, l)'
  BY <1>1, <1>2, <1>10, <1>13, <1>15, <1>17 DEF Thinks, InFlight, Ended
<1> QED BY <1>8, <1>16, <1>18, OneCall

\* What the endpoint does, and the end of a sleep.
LEMMA StepThinks ==
  ASSUME CallsInv, NEW c \in Ids, Step(c)
  PROVE  CallsInv'
<1>1. /\ call = [d \in Ids |-> call[d]] /\ row = [d \in Ids |-> row[d]]
      /\ live = [d \in Ids |-> live[d]] /\ Bounded
      /\ Thinks(call[c], row[c], live[c])
      /\ call[c] \in CallRows /\ live[c] \in BufferRows /\ row[c] \in Rows
  BY CallIs
<1>2. ASSUME Pause(c), call[c].pc \in {"stream", "plain"},
             UNCHANGED <<row, live, usage, up, setup, left>>
      PROVE  CallsInv'
  <2>1. PICK k : k = [call[c] EXCEPT !.pc = "backoff", !.broken = @ \/ live[c].detail # <<>>]
    OBVIOUS
  <2>2. call' = [call EXCEPT ![c] = k]
    BY <1>1, <1>2, <2>1 DEF Pause
  <2>3. k \in CallRows /\ k.pc = "backoff" /\ (~k.broken => live[c].detail = <<>>)
    BY <1>1, <2>1 DEF CallRows, Standings, InFlight
  <2> QED BY <1>2, <2>2, <2>3, SleepThinks DEF InFlight
<1>3. ASSUME Reject(c), call[c].pc \in {"stream", "plain"}, UNCHANGED <<up, setup>>
      PROVE  CallsInv'
  <2>1. PICK k : k = [call[c] EXCEPT !.pc = "rejected"]
    OBVIOUS
  <2>2. call' = [call EXCEPT ![c] = k]
    BY <1>1, <1>3, <2>1 DEF Reject, Goes
  <2>3. k \in CallRows /\ k.pc = "rejected"
    BY <1>1, <2>1 DEF CallRows, Standings, Ended
  <2>4. live[c].detail \in Seq(Voices) /\ Finish(c, "failed", live[c].detail)
    BY <1>1, <1>3 DEF BufferRows, Reject
  <2>5. call[c].pc \in InFlight /\ k.pc \in Ended \ {"dropped"}
    BY <1>3, <2>3 DEF InFlight, Ended
  <2> QED BY <1>3, <2>2, <2>3, <2>4, <2>5, EndThinks
<1>4. ASSUME StreamUnusable(c) PROVE CallsInv'
  <2>1. PICK k : k = [call[c] EXCEPT !.pc = "plain", !.said = <<>>]
    OBVIOUS
  <2>2. call' = [call EXCEPT ![c] = k] /\ UNCHANGED <<up, setup>> /\ Restart(c)
    BY <1>1, <1>4, <2>1 DEF StreamUnusable
  <2>3. k \in CallRows /\ k.pc = "plain" /\ k.said = <<>>
    BY <1>1, <2>1, NoneCapped DEF CallRows, Standings, InFlight
  <2>4. call[c].pc \in InFlight /\ k.pc \in InFlight
    BY <1>4, <2>3 DEF InFlight, StreamUnusable
  <2> QED BY <2>2, <2>3, <2>4, AgainThinks
<1>5. \A n \in Nat : call[c].pc \in {"stream", "plain"} => Piece(c, n) \in Voices
  BY <1>1 DEF Piece, Voices, CallRows
<1>6. ASSUME NEW answer \in PlainAnswers(c), call[c].pc \in {"stream", "plain"}
      PROVE  Reasoning(answer) \in Seq(Voices) /\ answer.body \in Bodies
  <2>1. PICK cut \in BOOLEAN, body \in Bodies, said \in {<<>>, <<Piece(c, 1)>>},
          think \in {<<>>, <<Piece(c, 2)>>} :
          answer = [cut |-> cut, body |-> body, said |-> said, think |-> think]
    BY <1>6 DEF PlainAnswers
  <2>2. Piece(c, 1) \in Voices /\ Piece(c, 2) \in Voices
    BY <1>5, <1>6
  <2>3. <<Piece(c, 1)>> \in Seq(Voices) /\ <<Piece(c, 2)>> \in Seq(Voices)
    <3>1. \A v \in Voices : <<v>> \in Seq(Voices)
      OBVIOUS
    <3> QED BY <2>2, <3>1
  <2>4. said \in Seq(Voices) /\ think \in Seq(Voices)
    BY <2>3, NoneCapped
  <2> QED BY <2>1, <2>4 DEF Reasoning
<1>7. ASSUME StreamAnswers(c) PROVE CallsInv'
  <2>1. call[c].pc = "stream" /\ UNCHANGED <<up, setup>>
    BY <1>7 DEF StreamAnswers
  <2>2. ASSUME call[c].said = <<>>, NEW answer \in PlainAnswers(c), Handle(c, answer)
        PROVE CallsInv'
    BY <1>6, <2>1, <2>2, HandleThinks
  <2>3. ASSUME NEW cut \in BOOLEAN, NEW body \in Bodies,
               Handle(c, [cut |-> cut, body |-> body, said |-> call[c].said, think |-> <<>>])
        PROVE  CallsInv'
    <3>1. PICK answer : answer = [cut |-> cut, body |-> body, said |-> call[c].said,
            think |-> <<>>]
      OBVIOUS
    <3>2. Reasoning(answer) = call[c].said /\ answer.body \in Bodies
      BY <3>1 DEF Reasoning
    <3>3. call[c].said \in Seq(Voices)
      BY <1>1 DEF CallRows
    <3> QED BY <2>1, <2>3, <3>1, <3>2, <3>3, HandleThinks
  <2> QED BY <1>7, <2>2, <2>3 DEF StreamAnswers
<1>8. ASSUME PlainAnswered(c) PROVE CallsInv'
  <2>1. call[c].pc = "plain" /\ UNCHANGED <<up, setup>>
    BY <1>8 DEF PlainAnswered
  <2>2. PICK answer \in PlainAnswers(c) : Handle(c, answer)
    BY <1>8 DEF PlainAnswered
  <2> QED BY <1>6, <2>1, <2>2, HandleThinks
<1>9. ASSUME Wake(c) PROVE CallsInv'
  <2>1. call[c].pc = "backoff" /\ UNCHANGED <<up, setup>>
    BY <1>9 DEF Wake
  <2>2. CASE Again(c)
    <3>1. PICK k : k = [call[c] EXCEPT !.pc = Way(c), !.try = @ + 1, !.room = call[c].room,
            !.said = <<>>]
      OBVIOUS
    <3>2. call' = [call EXCEPT ![c] = k] /\ UNCHANGED <<row, live, left>>
      BY <1>1, <1>9, <2>2, <3>1 DEF Wake, NextTry
    <3>3. Way(c) \in Standings \cap InFlight
      BY DEF Way, InFlight, Standings
    <3>4. DOMAIN call[c] = {"pc", "try", "room", "said", "broken"} /\ call[c].try + 1 \in Nat
          /\ call[c].room \in Int
      BY <1>1 DEF CallRows
    <3>5. k.pc = Way(c) /\ k.said = <<>> /\ k.broken = call[c].broken
      BY <3>1, <3>4
    <3>6. k \in CallRows
      BY <1>1, <3>1, <3>3, <3>4, NoneCapped DEF CallRows
    <3>7. ~k.broken => live[c].detail = <<>> \/ ~live[c].on \/ setup.fields # 1
      BY <1>1, <2>1, <3>5 DEF Thinks
    <3> QED BY <2>1, <3>2, <3>3, <3>5, <3>6, <3>7, SleepThinks DEF InFlight
  <2>3. CASE ~Again(c)
    <3>1. PICK k : k = [call[c] EXCEPT !.pc = "exhausted"]
      OBVIOUS
    <3>2. call' = [call EXCEPT ![c] = k] /\ Finish(c, "failed", live[c].detail)
      BY <1>1, <1>9, <2>3, <3>1 DEF Wake, Goes
    <3>3. k \in CallRows /\ k.pc = "exhausted"
      BY <1>1, <3>1 DEF CallRows, Standings, Ended
    <3>4. live[c].detail \in Seq(Voices)
      BY <1>1 DEF BufferRows
    <3>5. call[c].pc \in InFlight /\ k.pc \in Ended \ {"dropped"}
      BY <2>1, <3>3 DEF InFlight, Ended
    <3> QED BY <2>1, <3>2, <3>3, <3>4, <3>5, EndThinks
  <2> QED BY <2>2, <2>3
<1>10. ASSUME StreamBreaks(c) \/ PlainBreaks(c) PROVE CallsInv'
  BY <1>2, <1>10 DEF StreamBreaks, PlainBreaks
<1>11. ASSUME StreamRejected(c) \/ PlainRejected(c) PROVE CallsInv'
  BY <1>3, <1>11 DEF StreamRejected, PlainRejected
<1> QED BY <1>4, <1>7, <1>8, <1>9, <1>10, <1>11 DEF Step

\* A call that is cancelled: its thought is closed, unless it sleeps.
LEMMA CancelThinks ==
  ASSUME CallsInv, NEW c \in Ids, Cancel(c) \/ CancelAsleep(c)
  PROVE  CallsInv'
<1>1. /\ call = [d \in Ids |-> call[d]] /\ row = [d \in Ids |-> row[d]]
      /\ live = [d \in Ids |-> live[d]] /\ Bounded
      /\ Thinks(call[c], row[c], live[c])
      /\ call[c] \in CallRows /\ live[c] \in BufferRows /\ row[c] \in Rows
  BY CallIs
<1>2. CASE Cancel(c)
  <2>1. PICK k : k = [call[c] EXCEPT !.pc = "cancelled"]
    OBVIOUS
  <2>2. call' = [call EXCEPT ![c] = k] /\ UNCHANGED <<up, setup>>
    BY <1>1, <1>2, <2>1 DEF Cancel, Goes
  <2>3. k \in CallRows /\ k.pc = "cancelled"
    BY <1>1, <2>1 DEF CallRows, Standings, Ended
  <2>4. live[c].detail \in Seq(Voices)
    BY <1>1 DEF BufferRows
  <2>5. \/ Closed(c, "failed", live[c].detail) /\ left["cancels"] > 0
             /\ Spent("cancels")
        \/ Unclosed(c, live[c].detail) /\ left["refusals"] > 0 /\ left["cancels"] > 0
           /\ left' = [left EXCEPT !["cancels"] = @ - 1, !["refusals"] = @ - 1]
    BY <1>2 DEF Cancel
  <2>6. call[c].pc \in InFlight /\ k.pc \in Ended \ {"dropped"}
    BY <1>2, <2>3 DEF InFlight, Ended, Cancel
  <2> QED BY <2>2, <2>3, <2>4, <2>5, <2>6, EndThinks
<1>3. CASE CancelAsleep(c)
  <2>1. PICK k, r, l : k = call'[c] /\ r = row[c] /\ l = live[c]
    OBVIOUS
  <2>2. k = [call[c] EXCEPT !.pc = "dropped"] /\ call[c].pc = "backoff"
    BY <1>1, <1>3, <2>1 DEF CancelAsleep, Goes
  <2>3. k \in CallRows /\ k.pc = "dropped"
    BY <1>1, <2>2 DEF CallRows, Standings, Ended
  <2>4. left["cancels"] > 0 /\ Spent("cancels") /\ UNCHANGED <<row, live, up, setup>>
    BY <1>3 DEF CancelAsleep
  <2>5. Touches(c)
    BY <1>1, <1>3, <2>4, LeftCounts DEF CancelAsleep, Goes, Touches, Functional
  <2>6. Thinks(k, r, l)'
    BY <1>1, <2>1, <2>2, <2>3, <2>4 DEF Thinks, InFlight, Ended
  <2> QED BY <2>1, <2>4, <2>5, <2>6, OneCall
<1> QED BY <1>2, <1>3

\* A crash leaves rows and no buffer.
LEMMA CrashThinks == ASSUME CallsInv, Crash PROVE CallsInv'
<1>1. /\ up /\ up' = FALSE /\ left["crashes"] > 0 /\ Spent("crashes")
      /\ UNCHANGED <<row, setup>>
      /\ call' = [c \in Ids |-> IF call[c].pc \in InFlight
                                THEN [call[c] EXCEPT !.pc = "lost"] ELSE call[c]]
      /\ live' = [c \in Ids |-> NoBuffer]
  BY DEF Crash
<1>2. Bounded' /\ (Untouched("refusals")' => Untouched("refusals"))
  <2>1. setup["refusals"] \in Nat
    BY CallsAssumption DEF CallsInv, Bounded
  <2>2. Bounded
    BY DEF CallsInv
  <2>3. left' = [left EXCEPT !["crashes"] = @ - 1]
    BY <1>1 DEF Spent
  <2>4. left' \in [{"cancels", "refusals", "crashes"} -> Nat]
        /\ left'["refusals"] = left["refusals"]
    BY <1>1, <2>2, <2>3 DEF Bounded
  <2> QED BY <1>1, <2>1, <2>2, <2>4 DEF Bounded, Untouched
<1>3. ASSUME NEW c \in Ids, NEW k, NEW r, k = call'[c], r = row[c]
      PROVE  Thinks(k, r, NoBuffer)'
  <2>1. /\ Thinks(call[c], row[c], live[c])
        /\ call[c] \in CallRows /\ live[c] \in BufferRows /\ row[c] \in Rows
    BY CallIs
  <2>2. NoBuffer \in BufferRows /\ ~NoBuffer.on
    BY NoneCapped DEF NoBuffer, BufferRows
  <2>3. k \in CallRows /\ (IF call[c].pc \in InFlight THEN k.pc = "lost" ELSE k = call[c])
    <3>1. CASE call[c].pc \in InFlight
      <4>1. k = [call[c] EXCEPT !.pc = "lost"]
        BY <1>1, <1>3, <3>1
      <4> QED BY <2>1, <3>1, <4>1 DEF CallRows, Standings, Ended
    <3>2. CASE call[c].pc \notin InFlight
      BY <1>1, <1>3, <2>1, <3>2
    <3> QED BY <3>1, <3>2
  <2>4. CASE call[c].pc \in InFlight
    <3>1. k.pc = "lost" /\ row[c].status \in {"streaming", "none"}
      BY <2>1, <2>3, <2>4 DEF Thinks
    <3> QED BY <1>1, <1>3, <2>1, <2>2, <2>3, <3>1 DEF Thinks, InFlight
  <2>5. CASE call[c].pc \notin InFlight
    BY <1>1, <1>2, <1>3, <2>1, <2>2, <2>3, <2>5 DEF Thinks, Explained
  <2> QED BY <2>4, <2>5
<1>4. \A c \in Ids : Thinks(call[c], row[c], live[c])'
  BY <1>1, <1>3
<1>5. Functional'
  BY <1>1 DEF CallsInv, Functional
<1> QED BY <1>2, <1>4, <1>5 DEF CallsInv

\* Rows of a process that is gone are interrupted.
LEMMA BootThinks == ASSUME CallsInv, Boot PROVE CallsInv'
<1>1. /\ ~up /\ up' = TRUE /\ UNCHANGED <<call, live, setup, left>>
      /\ row' = [c \in Ids |-> IF row[c].status = "streaming"
                               THEN [row[c] EXCEPT !.status = "interrupted"] ELSE row[c]]
  BY DEF Boot, Stale
<1>2. Bounded' /\ (Untouched("refusals")' <=> Untouched("refusals"))
  BY <1>1 DEF CallsInv, Bounded, Untouched
<1>3. ASSUME NEW c \in Ids, NEW k, NEW r, NEW l, k = call[c], r = row'[c], l = live[c]
      PROVE  Thinks(k, r, l)'
  <2>1. /\ Thinks(call[c], row[c], live[c])
        /\ call[c] \in CallRows /\ live[c] \in BufferRows /\ row[c] \in Rows
    BY CallIs
  <2>2. ~l.on /\ k.pc \notin InFlight
    BY <1>1, <1>3, <2>1 DEF Thinks
  <2>3. CASE row[c].status = "streaming"
    <3>1. r = [row[c] EXCEPT !.status = "interrupted"]
      BY <1>1, <1>3, <2>3
    <3>2. r \in Rows /\ r.status = "interrupted"
      BY <2>1, <3>1 DEF Rows
    <3> QED BY <1>1, <1>2, <1>3, <2>1, <2>2, <2>3, <3>2 DEF Thinks
  <2>4. CASE row[c].status # "streaming"
    <3>1. r = row[c]
      BY <1>1, <1>3, <2>4
    <3> QED BY <1>1, <1>2, <1>3, <2>1, <2>2, <2>4, <3>1 DEF Thinks, Explained
  <2> QED BY <2>3, <2>4
<1>4. \A c \in Ids : Thinks(call[c], row[c], live[c])'
  BY <1>1, <1>3
<1>5. Functional'
  BY <1>1 DEF CallsInv, Functional
<1> QED BY <1>2, <1>4, <1>5 DEF CallsInv

\* Every step keeps it.
LEMMA CallsKept == ASSUME CallsInv, [CallsNext]_callsVars PROVE CallsInv'
<1>1. CASE UNCHANGED callsVars
  <2>1. ASSUME NEW c \in Ids, NEW k, NEW r, NEW l, k = call[c], r = row[c], l = live[c]
        PROVE  Thinks(k, r, l)'
    <3>1. Thinks(k, r, l)
      BY <2>1 DEF CallsInv
    <3> QED BY <1>1, <3>1 DEF Thinks, callsVars, Untouched, Explained
  <2>2. \A c \in Ids : Thinks(call[c], row[c], live[c])'
    BY <1>1, <2>1 DEF callsVars
  <2> QED BY <1>1, <2>2 DEF CallsInv, callsVars, Bounded, Functional
<1>2. CASE CallsNext
  BY <1>2, BeginThinks, DeltaThinks, StepThinks, CancelThinks, CrashThinks, BootThinks
     DEF CallsNext
<1> QED BY <1>1, <1>2

\* No call has begun.
LEMMA NoneBegun == ASSUME CallsInit PROVE CallsInv
<1>1. Bounded
  <2>1. setup \in Setups
    BY DEF CallsInit
  <2>2. setup["cancels"] \in Nat /\ setup["refusals"] \in Nat /\ setup["crashes"] \in Nat
    BY <2>1, CallsAssumption
  <2>3. left = [n \in {"cancels", "refusals", "crashes"} |-> setup[n]] /\ up \in BOOLEAN
    BY DEF CallsInit
  <2>4. left \in [{"cancels", "refusals", "crashes"} -> Nat]
        /\ left["refusals"] = setup["refusals"]
    BY <2>2, <2>3
  <2> QED BY <2>1, <2>2, <2>3, <2>4 DEF Bounded
<1>2. NoCall \in CallRows /\ NoRow \in Rows /\ NoBuffer \in BufferRows
  BY NoneCapped, CallsAssumption
     DEF NoCall, NoRow, NoBuffer, CallRows, Rows, BufferRows, Standings
<1>3. Thinks(NoCall, NoRow, NoBuffer)
  BY <1>2 DEF Thinks, NoCall, NoRow, NoBuffer, InFlight, Ended, CallsInit
<1>4. Functional /\ \A c \in Ids :
        call[c] = NoCall /\ row[c] = NoRow /\ live[c] = NoBuffer
  BY DEF CallsInit, Functional
<1> QED BY <1>1, <1>3, <1>4 DEF CallsInv

\* It holds of every call at all times.
THEOREM ThoughtsHold == CallsSpec => []CallsInv
<1>1. CallsInit => CallsInv
  BY NoneBegun
<1>2. CallsInv /\ [CallsNext]_callsVars => CallsInv'
  BY CallsKept
<1> QED BY <1>1, <1>2, PTL DEF CallsSpec

\* With any number of retries and any room: a thought that is done shows the answer's reasoning.
THEOREM ThoughtShowsTheAnswer == CallsSpec => []ThoughtIsTheAnswer
<1>1. CallsInv => ThoughtIsTheAnswer
  BY DEF CallsInv, Thinks, ThoughtIsTheAnswer
<1> QED BY <1>1, ThoughtsHold, PTL

\* No thought is shown as thinking whose call is not under way.
THEOREM NothingThinksOn == CallsSpec => []StreamingIsInFlight
<1>1. CallsInv => StreamingIsInFlight
  <2> SUFFICES ASSUME CallsInv, up, Untouched("refusals"), NEW c \in Ids,
                      row[c].status = "streaming" \/ c \in LiveThought
               PROVE  call[c].pc \in InFlight \cup {"dropped"}
    BY DEF StreamingIsInFlight
  <2>1. Thinks(call[c], row[c], live[c])
    BY DEF CallsInv
  <2>2. row[c].status = "streaming" \/ live[c].on
    BY DEF LiveThought, Newest, Buffers
  <2> QED BY <2>1, <2>2 DEF Thinks, CallRows, Standings
<1> QED BY <1>1, ThoughtsHold, PTL
===============================================================================
