---------------------------- MODULE MCMethodology ----------------------------
(***************************************************************************)
(* Methodology on small instances, with the statements of the source's own *)
(* comments that the code does not keep.                                   *)
(***************************************************************************)
EXTENDS Methodology

\* Three phases: discovery, verification, synthesis.
Entry3 == <<"planning", "analyzing", "synthesizing">>
\* Four: a phase that observes, like Phase 3, is between the first two.
Entry4 == <<"planning", "observing", "analyzing", "synthesizing">>

-----------------------------------------------------------------------------
(* Statements of the source's comments *)

\* A switch that was in flight when the session died is re-applied, so the jump is
\* never silently lost across a restart.
SwitchSurvivesRestart ==
  [][pc = "off" /\ pc' = "head" /\ goto.pass = PassRound
       => \A p \in completed' : p < goto.to \/ p \in fresh]_vars

\* A resumed session continues at the first incomplete phase: a phase committed in
\* the current pass, and not re-opened since, is never run again.
ResumesAtFirstIncomplete ==
  [][pc = "head" /\ pc' = "iterate" => phase \notin fresh]_vars

\* The work after Phase 8 has its own marker, so that a resume runs it exactly once.
PostWorkOnce ==
  [][pc = "pipeline" /\ pc' = "gate" => ~(screened /\ postP8 = pass)]_vars

\* The integrity pipeline filters and verifies every synthesis-bound candidate
\* before synthesis may run: at the switch that skips it ...
ScreenedBeforeSynthesis ==
  [][pc = "head" /\ pc' = "iterate" /\ phase > Adversarial => screened]_vars

\* ... and in every pass, whatever an interrupt left undone: the marker of the work
\* after Phase 8 never masks work of this pass that is still to do.
WholeReportScreened == pc = "report" => screened

\* The model may leave a phase at will: the agent table takes the switch.
SwitchIsAccepted ==
  [][pc = "replied" /\ pc' = "head" => AgentCan(agent', EntryState[phase'])]_vars

\* The mid-phase cursor is for the current pass: what an owner's pause of an earlier
\* pass noted does not make a phase of this one start late.
CursorOfThisPass ==
  [][pc = "head" /\ pc' = "iterate" /\ iteration' > 0
       => HasProgress(phase) \/ pausedOwner.pass = pass]_vars

\* A session paused before an iteration continues exactly there.
PauseKeepsPlace ==
  [][pc = "head" /\ pc' = "iterate" /\ ~HasProgress(phase)
       /\ pausedOwner.phase = phase /\ pausedOwner.iter > 0
       => iteration' < pausedOwner.iter]_vars

\* A refill keeps all phase analyses: the re-run continues from what the session
\* already knows, never from empty.
RefillKeepsAnalyses ==
  [][pc = "off" /\ pc' = "head" /\ pivots = 0
       => {p \in Phases : out[p] # NoPass} \subseteq outputs']_vars
=============================================================================
