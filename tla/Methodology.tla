----------------------------- MODULE Methodology -----------------------------
(***************************************************************************)
(* The research methodology of one session: nine phases in a strict order, *)
(* the model's switches between them, the pivot and refill passes after    *)
(* Phase 8, and the checkpoints from which a run that stopped continues.   *)
(*                                                                         *)
(* One run at a time works on a session (SessionLifecycle shows when), so  *)
(* nothing interleaves with it but its own end.  A run may end between any *)
(* two durable writes (a crash, an error, a pause), so each durable write  *)
(* is a step of its own.                                                   *)
(*                                                                         *)
(* Durable: out, prog, rows, screened, pivots, refills, jumps, goto,       *)
(* postP8, pausedOwner, agent.  In memory: pc, phase, from, pass,          *)
(* completed, outputs, iteration.                                          *)
(***************************************************************************)
EXTENDS AgentState, Integers

CONSTANTS
  Last,         \* the number of phases; 1 .. Last is PHASE_ORDER
  Adversarial,  \* the place of P8_ADVERSARIAL; the phases after it synthesize
  EntryState,   \* agent_states[0] of each phase
  MaxIter,      \* iterations of a phase
  MaxPivots,    \* MAX_FOCUS_PIVOTS
  MaxRefills,   \* MAX_TARGET_REFILLS
  MaxJumps,     \* max_phase_jumps
  MayRunOut,    \* the session's call or time budget may run out
  MaxStops      \* how often a run may stop before its end (a bound)

Phases == 1..Last

ASSUME PhaseAssumption ==
  /\ Last \in Nat \ {0}
  /\ Adversarial \in Phases
  /\ EntryState \in [Phases -> WorkStates]
ASSUME BoundAssumption ==
  /\ MaxIter \in Nat \ {0}
  /\ MaxPivots \in Nat /\ MaxRefills \in Nat /\ MaxJumps \in Nat /\ MaxStops \in Nat
  /\ MayRunOut \in BOOLEAN

VARIABLES
  out,         \* the pass of checkpoint phase_output:<phase>
  prog,        \* pass and iteration of checkpoint phase_progress:<phase>
  rows,        \* the pass whose effects the phase last wrote to the data tables
  screened,    \* the integrity pipeline has judged what Phase 8 last wrote
  pivots,      \* length of focus_pivots
  refills,     \* length of target_refills
  jumps,       \* length of phase_gotos
  goto,        \* checkpoint phase_goto: target and pass
  postP8,      \* the pass of checkpoint post_p8
  pausedOwner, \* checkpoint paused:owner (its pass is a history field: not saved)
  agent,       \* agent_states.state
  pc,          \* where the run is
  phase,       \* the phase the sweep has reached; Last + 1 at its end
  from,        \* loop_start: the phase the sweep started at
  pass,        \* pass_round
  completed,   \* completed_phases
  outputs,     \* the phases with an analysis in phase_outputs
  iteration,   \* iterations of the phase begun so far
  fresh,       \* history: the phases committed since they were last re-opened
  stops        \* how often a run has stopped

durable == <<out, prog, rows, screened, pivots, refills, jumps, goto, postP8,
             pausedOwner>>
cursor  == <<phase, from, pass, completed, outputs, iteration>>
vars == <<out, prog, rows, screened, pivots, refills, jumps, goto, postP8,
          pausedOwner, agent, pc, phase, from, pass, completed, outputs, iteration,
          fresh, stops>>

NoPass  == -1
Passes  == 0..(MaxPivots + MaxRefills)
NoProgress == [pass |-> NoPass, iter |-> 0]
NoGoto     == [to |-> 1, pass |-> NoPass]
NoPause    == [phase |-> 0, iter |-> 0, pass |-> NoPass]

PCs == {"off", "head", "iterate", "model", "replied", "leave", "effects", "marker",
        "retire", "pipeline", "gate", "report", "done", "failed"}

TypeOK ==
  /\ out \in [Phases -> Passes \cup {NoPass}]
  /\ prog \in [Phases -> [pass : Passes \cup {NoPass}, iter : 0..MaxIter]]
  /\ rows \in [Phases -> Passes \cup {NoPass}]
  /\ screened \in BOOLEAN
  /\ pivots \in 0..MaxPivots /\ refills \in 0..MaxRefills /\ jumps \in 0..MaxJumps
  /\ goto \in [to : Phases, pass : Passes \cup {NoPass}]
  /\ postP8 \in Passes \cup {NoPass}
  /\ pausedOwner \in [phase : Phases \cup {0}, iter : 0..MaxIter,
                      pass : Passes \cup {NoPass}]
  /\ agent \in AgentStates
  /\ pc \in PCs
  /\ phase \in 1..(Last + 1) /\ from \in Phases
  /\ pass \in Passes
  /\ completed \subseteq Phases /\ outputs \subseteq Phases /\ fresh \subseteq Phases
  /\ iteration \in 0..MaxIter
  /\ stops \in 0..MaxStops

Init ==
  /\ out = [p \in Phases |-> NoPass] /\ rows = [p \in Phases |-> NoPass]
  /\ prog = [p \in Phases |-> NoProgress]
  /\ screened = FALSE
  /\ pivots = 0 /\ refills = 0 /\ jumps = 0 /\ stops = 0
  /\ goto = NoGoto /\ postP8 = NoPass /\ pausedOwner = NoPause
  /\ agent = "idle" /\ pc = "off"
  /\ phase = 1 /\ from = 1 /\ pass = 0 /\ iteration = 0
  /\ completed = {} /\ outputs = {} /\ fresh = {}

-----------------------------------------------------------------------------
(* What a run reads back *)

PassRound == pivots + refills

\* A pass read back as int(x or -1), which takes a stored 0 for "no pass".
Stored(p) == IF p = 0 THEN NoPass ELSE p

PendingGoto == Stored(goto.pass) = PassRound
PostDone    == Stored(postP8) = PassRound

\* Mutants of Committed: outputs of an earlier pass are loaded as well; the pass
\* leaves the pivots out.
CommittedInAnyPass == {p \in Phases : out[p] # NoPass}
CommittedOfRefill  == {p \in Phases : out[p] = refills}

Committed == {p \in Phases : out[p] = PassRound}

\* _keep_completed_after_goto.
KeptBefore(S, target) == {p \in S : p < target}

HasProgress(p) == prog[p].pass = PassRound

\* The iteration a phase continues after: its own cursor in this pass, or else
\* whatever the owner's last pause noted for it.
StartIteration(p) ==
  CASE HasProgress(p)        -> prog[p].iter
    [] ~HasProgress(p) /\ pausedOwner.phase = p -> pausedOwner.iter
    [] OTHER -> 0

-----------------------------------------------------------------------------
(* A run begins and ends *)

\* The run got through its prologue (SessionLifecycle!Attempts): the agent is
\* planning, the sweep starts at Phase 1 with what this pass has committed.
Begin ==
  /\ pc = "off"
  /\ agent' = "planning"
  /\ pass' = PassRound
  /\ completed' = IF PendingGoto THEN KeptBefore(Committed, goto.to) ELSE Committed
  /\ outputs' = Committed
  /\ phase' = 1 /\ from' = 1 /\ iteration' = 0
  /\ pc' = "head"
  /\ UNCHANGED durable /\ UNCHANGED <<fresh, stops>>

\* Memory is gone: nothing of it is read before Begin sets it again.
Forgets(p) ==
  /\ pc' = p
  /\ phase' = 1 /\ from' = 1 /\ pass' = 0 /\ iteration' = 0
  /\ completed' = {} /\ outputs' = {}

\* A crash, an unexpected error, or a pause or cancellation that saves no cursor.
Stops ==
  /\ pc \notin {"off", "done", "failed"}
  /\ stops < MaxStops /\ stops' = stops + 1
  /\ Forgets("off")
  /\ UNCHANGED durable /\ UNCHANGED <<agent, fresh>>

\* The agent table refuses the transition, an unexpected error: the run heals or is
\* resumed as long as stops are left, and fails for good after that.
Refused ==
  /\ IF stops < MaxStops THEN stops' = stops + 1 /\ Forgets("off")
                         ELSE UNCHANGED stops /\ Forgets("failed")
  /\ UNCHANGED durable /\ UNCHANGED <<agent, fresh>>

OwnerPauses(p, i, a) ==
  /\ stops < MaxStops /\ stops' = stops + 1
  /\ pausedOwner' = [phase |-> p, iter |-> i, pass |-> PassRound]
  /\ agent' = a
  /\ Forgets("off")
  /\ UNCHANGED <<out, prog, rows, screened, pivots, refills, jumps, goto, postP8, fresh>>

PauseAtHead ==
  /\ pc = "head" /\ phase <= Last
  /\ OwnerPauses(phase, 0, Parked(agent))

\* The iteration about to begin is noted, not the last one completed.
PauseInPhase ==
  /\ pc = "iterate" /\ iteration < MaxIter
  /\ OwnerPauses(phase, iteration + 1, agent)

PauseAtAction ==
  /\ pc = "model"
  /\ OwnerPauses(phase, 0, agent)

-----------------------------------------------------------------------------
(* The sweep over the phases *)

SkipPhase ==
  /\ pc = "head" /\ phase \in completed
  /\ phase # Adversarial \/ PostDone
  /\ phase' = phase + 1
  /\ UNCHANGED durable /\ UNCHANGED <<agent, pc, from, pass, completed, outputs,
                                      iteration, fresh, stops>>

\* Mutant of CatchUp: a completed Phase 8 is skipped like any other.
CatchUpNever ==
  /\ pc = "head" /\ phase \in completed /\ phase = Adversarial /\ ~PostDone
  /\ phase' = phase + 1
  /\ UNCHANGED durable /\ UNCHANGED <<agent, pc, from, pass, completed, outputs,
                                      iteration, fresh, stops>>

\* Phase 8 is committed but its deterministic work has no marker in this pass.
CatchUp ==
  /\ pc = "head" /\ phase \in completed /\ phase = Adversarial /\ ~PostDone
  /\ pc' = "pipeline"
  /\ UNCHANGED durable /\ UNCHANGED cursor /\ UNCHANGED <<agent, fresh, stops>>

EnterPhase ==
  /\ pc = "head" /\ phase \in Phases \ completed
  /\ IF AgentCan(agent, EntryState[phase])
     THEN /\ agent' = EntryState[phase]
          /\ iteration' = StartIteration(phase)
          /\ pc' = "iterate"
          /\ UNCHANGED durable
          /\ UNCHANGED <<phase, from, pass, completed, outputs, fresh, stops>>
     ELSE Refused

\* Mutant of EndSweep: a sweep that started at a switch's target may end the pass.
EndSweepAnywhere ==
  /\ pc = "head" /\ phase > Last
  /\ IF AgentCan(agent, "reporting")
     THEN /\ agent' = "reporting" /\ pc' = "report"
          /\ UNCHANGED durable /\ UNCHANGED cursor /\ UNCHANGED <<fresh, stops>>
     ELSE Refused

\* The end of a sweep: only one that started at Phase 1 ends the pass.
EndSweep ==
  /\ pc = "head" /\ phase > Last
  /\ CASE from # 1 ->
            /\ phase' = 1 /\ from' = 1
            /\ UNCHANGED durable
            /\ UNCHANGED <<agent, pc, pass, completed, outputs, iteration, fresh, stops>>
       [] from = 1 /\ AgentCan(agent, "reporting") ->
            /\ agent' = "reporting" /\ pc' = "report"
            /\ UNCHANGED durable /\ UNCHANGED cursor /\ UNCHANGED <<fresh, stops>>
       [] OTHER -> Refused

-----------------------------------------------------------------------------
(* One phase *)

Moves(p) ==
  /\ pc' = p
  /\ UNCHANGED <<agent, phase, from, pass, completed, outputs, fresh, stops>>

\* Mutant of AskModel: one iteration too many.
AskModelOnceMore ==
  /\ pc = "iterate" /\ iteration <= MaxIter
  /\ iteration' = iteration + 1
  /\ Moves("model") /\ UNCHANGED durable

AskModel ==
  /\ pc = "iterate" /\ iteration < MaxIter
  /\ iteration' = iteration + 1
  /\ Moves("model") /\ UNCHANGED durable

\* The loop ends: its last iteration is spent, or the session's call or time budget.
EndLoop ==
  /\ pc = "iterate"
  /\ iteration = MaxIter \/ MayRunOut
  /\ Moves("leave") /\ UNCHANGED durable /\ UNCHANGED iteration

\* Mutant of ModelFails: an iteration without a reply does not count.
ModelFailsFree ==
  /\ pc = "model"
  /\ Moves("iterate") /\ UNCHANGED durable /\ iteration' = iteration - 1

\* No usable reply: the next iteration, with no cursor saved.
ModelFails ==
  /\ pc = "model"
  /\ Moves("iterate") /\ UNCHANGED durable /\ UNCHANGED iteration

\* A reply: its actions run, then the mid-phase cursor is saved.
ModelReplies ==
  /\ pc = "model"
  /\ prog' = [prog EXCEPT ![phase] = [pass |-> pass, iter |-> iteration]]
  /\ Moves("replied")
  /\ UNCHANGED <<out, rows, screened, pivots, refills, jumps, goto, postP8,
                 pausedOwner, iteration>>

\* The gates keep the phase open, let it commit, or find it stalled.
Explore ==
  /\ pc = "replied"
  /\ Moves("iterate") /\ UNCHANGED durable /\ UNCHANGED iteration

Commits ==
  /\ pc = "replied"
  /\ Moves("effects") /\ UNCHANGED durable /\ UNCHANGED iteration

Stalls ==
  /\ pc = "replied"
  /\ Moves("leave") /\ UNCHANGED durable /\ UNCHANGED iteration

Reopened(target) == {p \in Phases : p >= target}

\* A commit-shaped reply names another phase: the phase stays open, and everything
\* completed from the target on re-opens.
Switch(target) ==
  /\ pc = "replied" /\ target # phase
  /\ jumps < MaxJumps /\ jumps' = jumps + 1
  /\ goto' = [to |-> target, pass |-> pass]
  /\ completed' = KeptBefore(completed, target)
  /\ fresh' = fresh \ Reopened(target)
  /\ phase' = target /\ from' = target
  /\ pc' = "head"
  /\ UNCHANGED <<out, prog, rows, screened, pivots, refills, postP8, pausedOwner,
                 agent, pass, outputs, iteration, stops>>

\* The run ends between the record of the switch and the switch itself.
StopsInSwitch ==
  /\ pc = "replied" /\ jumps < MaxJumps
  /\ stops < MaxStops /\ stops' = stops + 1
  /\ jumps' = jumps + 1
  /\ Forgets("off")
  /\ UNCHANGED <<out, prog, rows, screened, pivots, refills, goto, postP8,
                 pausedOwner, agent, fresh>>

\* The loop ended with nothing to hand over: the phase counts as completed in
\* memory and leaves no output.
LeaveEmpty ==
  /\ pc = "leave" /\ ~HasProgress(phase)
  /\ completed' = completed \cup {phase}
  /\ outputs' = outputs \ {phase}
  /\ IF phase = Adversarial THEN pc' = "pipeline" /\ UNCHANGED phase
                            ELSE pc' = "head" /\ phase' = phase + 1
  /\ UNCHANGED durable /\ UNCHANGED <<agent, from, pass, iteration, fresh, stops>>

\* The loop ended and the best reply so far is committed.
LeaveForced ==
  /\ pc = "leave" /\ HasProgress(phase)
  /\ Moves("effects") /\ UNCHANGED durable /\ UNCHANGED iteration

\* Mutant of ApplyEffects: an error in it is swallowed.
EffectsSwallowed ==
  /\ pc = "effects"
  /\ Moves("marker") /\ UNCHANGED durable /\ UNCHANGED iteration

\* _apply_phase_effects: new work of Phase 8, or before it, is yet to be screened.
ApplyEffects ==
  /\ pc = "effects"
  /\ rows' = [rows EXCEPT ![phase] = pass]
  /\ screened' = (screened /\ phase > Adversarial)
  /\ Moves("marker")
  /\ UNCHANGED <<out, prog, pivots, refills, jumps, goto, postP8, pausedOwner, iteration>>

SaveOutput ==
  /\ pc = "marker"
  /\ out' = [out EXCEPT ![phase] = pass]
  /\ fresh' = fresh \cup {phase}
  /\ pc' = "retire"
  /\ UNCHANGED <<prog, rows, screened, pivots, refills, jumps, goto, postP8,
                 pausedOwner, agent, phase, from, pass, completed, outputs, iteration,
                 stops>>

\* The mid-phase cursor is deleted; back in the sweep the phase is complete.
Retire ==
  /\ pc = "retire"
  /\ prog' = [prog EXCEPT ![phase] = NoProgress]
  /\ completed' = completed \cup {phase}
  /\ outputs' = outputs \cup {phase}
  /\ IF phase = Adversarial THEN pc' = "pipeline" /\ UNCHANGED phase
                            ELSE pc' = "head" /\ phase' = phase + 1
  /\ UNCHANGED <<out, rows, screened, pivots, refills, jumps, goto, postP8,
                 pausedOwner, agent, from, pass, iteration, fresh, stops>>

-----------------------------------------------------------------------------
(* After Phase 8 *)

\* _run_integrity_pipeline and the harvest.
RunPipeline ==
  /\ pc = "pipeline"
  /\ screened' = TRUE
  /\ Moves("gate")
  /\ UNCHANGED <<out, prog, rows, pivots, refills, jumps, goto, postP8, pausedOwner,
                 iteration>>

StartPass ==
  /\ pass' = pass + 1
  /\ completed' = {} /\ fresh' = {}
  /\ phase' = 1 /\ from' = 1
  /\ pc' = "head"
  /\ UNCHANGED <<out, prog, rows, screened, jumps, goto, postP8, pausedOwner, agent,
                 iteration, stops>>

\* Mutant of Pivot: the pass that follows keeps counting as the old one.
PivotUncounted ==
  /\ pc = "gate"
  /\ pivots < MaxPivots /\ pivots' = pivots + 1
  /\ outputs' = {}
  /\ pass' = pass
  /\ completed' = {} /\ fresh' = {}
  /\ phase' = 1 /\ from' = 1
  /\ pc' = "head"
  /\ UNCHANGED <<out, prog, rows, screened, jumps, goto, postP8, pausedOwner, agent,
                 iteration, stops, refills>>

\* No candidate is verified and there is time: a pass on a new focus.
Pivot ==
  /\ pc = "gate"
  /\ pivots < MaxPivots /\ pivots' = pivots + 1
  /\ outputs' = {}
  /\ StartPass /\ UNCHANGED refills

\* The owner's target is unmet and there is time: a pass that keeps the analyses.
Refill ==
  /\ pc = "gate"
  /\ refills < MaxRefills /\ refills' = refills + 1
  /\ StartPass /\ UNCHANGED <<pivots, outputs>>

MarkPost ==
  /\ pc = "gate"
  /\ postP8' = PassRound
  /\ phase' = phase + 1
  /\ pc' = "head"
  /\ UNCHANGED <<out, prog, rows, screened, pivots, refills, jumps, goto, pausedOwner,
                 agent, from, pass, completed, outputs, iteration, fresh, stops>>

\* The final report is written and the session completed (SessionLifecycle!Finish).
WriteReport ==
  /\ pc = "report"
  /\ agent' = "done"
  /\ pc' = "done"
  /\ UNCHANGED durable /\ UNCHANGED cursor /\ UNCHANGED <<fresh, stops>>

-----------------------------------------------------------------------------
Sweep == SkipPhase \/ CatchUp \/ EnterPhase \/ EndSweep

InPhase ==
  \/ AskModel \/ EndLoop \/ ModelFails \/ ModelReplies
  \/ Explore \/ Commits \/ Stalls \/ \E target \in Phases : Switch(target)
  \/ LeaveEmpty \/ LeaveForced \/ ApplyEffects \/ SaveOutput \/ Retire

AfterP8 == RunPipeline \/ Pivot \/ Refill \/ MarkPost

Progress == Begin \/ Sweep \/ InPhase \/ AfterP8 \/ WriteReport

Interruption == Stops \/ StopsInSwitch \/ PauseAtHead \/ PauseInPhase \/ PauseAtAction

Next == Progress \/ Interruption

Spec == Init /\ [][Next]_vars

\* A stopped session is resumed, and the event loop runs its runner (every await is
\* bounded by a timeout).
FairSpec == Spec /\ WF_vars(Progress)

-----------------------------------------------------------------------------
(* Properties *)

\* The pass a run keeps in memory is the pass its checkpoints are keyed to, after
\* any mix of pivots, refills and restarts (_run_once counts it up, _run_phase and
\* _post_p8_done read it back).
PassIsDurable == pc \notin {"off", "failed"} => pass = PassRound

\* A phase marked as finished has written its rows in that pass or a later one: a
\* resume never skips a phase whose candidates or verdicts were lost.
OutputHasRows == \A p \in Phases : out[p] <= rows[p]

\* In a pass without a switch, a phase a run takes for completed was committed in
\* this very pass, or handed over nothing.
CompletedIsFresh ==
  goto.pass # pass => \A p \in completed : p \in fresh \/ p \notin outputs

\* In a pass without a switch, no restart, pause or sweep re-enters a phase that is
\* committed ("it never re-runs the methodology from Phase 1").
NothingRedone ==
  [][pc = "head" /\ pc' = "iterate" /\ goto.pass # pass => phase \notin fresh]_vars

\* The report is written only when every phase is complete in the current pass,
\* wherever the last switch led.
ReportIsComplete == pc = "report" => completed = Phases

\* In the first pass, whatever stopped and switched, the integrity pipeline has
\* judged all that Phase 8 and the phases before it wrote when the report is written.
ReportIsScreened == pc = "report" /\ pass = 0 => screened

\* In the first pass synthesis starts on screened work only, unless the model
\* switched straight to it.
SynthesisIsScreened ==
  [][pc = "head" /\ pc' = "iterate" /\ phase > Adversarial
       /\ from <= Adversarial /\ pass = 0 => screened]_vars

\* Switches, pivots, refills and stops together cannot keep a session researching
\* for ever: it ends in its report, or fails.
ResearchEnds == <>(pc \in {"done", "failed"})
=============================================================================
