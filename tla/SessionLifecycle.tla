-------------------------- MODULE SessionLifecycle --------------------------
(***************************************************************************)
(* The life of research sessions: the owner's routes, the registry of live *)
(* runners, the runner coroutine of each session, the sign-in callback,    *)
(* and the crash and boot of the process.                                  *)
(*                                                                         *)
(* The process is one asyncio event loop.  A route handler awaits nothing, *)
(* so each is one atomic action.  A runner gives way only at its awaits:   *)
(* its program counter names the await it is parked at, and each runner    *)
(* action is the whole run of code from one await to the next.             *)
(*                                                                         *)
(* Durable rows: status, error, agent, job, ckpt, report.  In memory only, *)
(* and lost in a crash: runner, registry.                                  *)
(***************************************************************************)
EXTENDS AgentState, FiniteSets

CONSTANTS
  Sessions,       \* the ids the owner may create
  Slots,          \* runner objects one session may have alive at once (a bound)
  None,           \* no runner registered
  MaxConcurrent,  \* MAX_CONCURRENT_SESSIONS
  MaxSessions,    \* MAX_SESSIONS
  HealAttempts,   \* _SELF_HEAL_ATTEMPTS
  EntryStates,    \* agent_states[0] of the phases
  PreflightWalks  \* CENSUS_ENABLED or FRONTIER_ENABLED

ASSUME FiniteAssumption == IsFiniteSet(Sessions)
ASSUME NoneAssumption   == None \notin Slots
ASSUME LimitAssumption  == /\ MaxConcurrent \in Nat \ {0}
                           /\ MaxSessions \in Nat \ {0}
                           /\ HealAttempts \in Nat
ASSUME EntryAssumption  == EntryStates \subseteq WorkStates
ASSUME WalkAssumption   == PreflightWalks \in BOOLEAN

VARIABLES
  status,      \* research_sessions.status; "none" before create
  error,       \* research_sessions.error, as far as its readers tell it apart
  agent,       \* agent_states.state
  job,         \* status of the newest research_jobs row
  ckpt,        \* which of the checkpoint keys boot recovery reads exist
  report,      \* a report of kind 'final' exists
  runner,      \* the runner objects of a session
  registry,    \* RunnerRegistry._runners
  up,          \* the process serves
  wasCancelled \* history: the owner cancelled the session since the last boot

durable == <<status, error, agent, job, ckpt, report>>
vars == <<status, error, agent, job, ckpt, report, runner, registry, up, wasCancelled>>

Statuses == {"draft", "queued", "running", "interrupted", "paused",
             "completed", "failed", "cancelled"}
OpenStatuses == {"draft", "queued", "running", "interrupted", "paused"}
Errors == {"none", "auth", "other"}
JobStatuses == {"none", "pending", "queued", "initializing", "researching", "paused",
                "waiting_authentication", "recovering", "completed", "failed", "cancelled"}
\* "cursor" stands for every key that boot recovery does not look up by name.
Keys == {"cursor", "paused:auth", "paused:model", "resume_requested"}

\* A task that has not run yet; the awaits; a task that is over (normally, or by
\* an exception that left run()) whose done callback has not run.
Awaits == {"preflight", "model", "retry", "action", "adjacency", "report"}
Over   == {"ending", "raised"}
PCs    == {"free", "spawned"} \cup Awaits \cup Over
Runner == [pc : PCs, cancelled : BOOLEAN, pause : BOOLEAN, heals : 0..HealAttempts]
FreeRunner == [pc |-> "free", cancelled |-> FALSE, pause |-> FALSE, heals |-> 0]
NewRunner  == [pc |-> "spawned", cancelled |-> FALSE, pause |-> FALSE,
               heals |-> HealAttempts]

TypeOK ==
  /\ status \in [Sessions -> Statuses \cup {"none"}]
  /\ error \in [Sessions -> Errors]
  /\ agent \in [Sessions -> AgentStates]
  /\ job \in [Sessions -> JobStatuses]
  /\ ckpt \in [Sessions -> SUBSET Keys]
  /\ report \in [Sessions -> BOOLEAN]
  /\ runner \in [Sessions -> [Slots -> Runner]]
  /\ registry \in [Sessions -> Slots \cup {None}]
  /\ up \in BOOLEAN
  /\ wasCancelled \in [Sessions -> BOOLEAN]

Init ==
  /\ status = [s \in Sessions |-> "none"]
  /\ error = [s \in Sessions |-> "none"]
  /\ agent = [s \in Sessions |-> "idle"]
  /\ job = [s \in Sessions |-> "none"]
  /\ ckpt = [s \in Sessions |-> {}]
  /\ report = [s \in Sessions |-> FALSE]
  /\ runner = [s \in Sessions |-> [k \in Slots |-> FreeRunner]]
  /\ registry = [s \in Sessions |-> None]
  /\ up = TRUE
  /\ wasCancelled = [s \in Sessions |-> FALSE]

-----------------------------------------------------------------------------
(* The registry *)

Live(s) == {k \in Slots : runner[s][k].pc # "free"}

\* Mutant of IsRunning: start() does not look whether the session has a runner.
NeverRunning(s) == FALSE

IsRunning(s) == registry[s] # None /\ ~runner[s][registry[s]].cancelled

\* Mutant of ActiveCount: counts the rows shown as running, not the runners.
RunningRows == Cardinality({s \in Sessions : status[s] = "running"})

ActiveCount == Cardinality({s \in Sessions : IsRunning(s)})

FreeSlot(s) == CHOOSE k \in Slots : k \notin Live(s)

\* One handler calls RunnerRegistry.start for each session of A in turn: a session
\* that is_running is left alone; of the others as many are spawned as the cap
\* still allows, in the order of the sessions' list (creation order, which the
\* model does not keep: any S may be the one that fits); for the rest start()
\* raises, and the rows already written stay as they are.
RunnersStart(A) ==
  LET waiting == {s \in A : ~IsRunning(s)}
      room    == IF ActiveCount < MaxConcurrent THEN MaxConcurrent - ActiveCount ELSE 0
  IN \E S \in SUBSET waiting :
       /\ IF Cardinality(waiting) <= room THEN S = waiting ELSE Cardinality(S) = room
       /\ \A s \in S : Live(s) # Slots
       /\ registry' = [s \in Sessions |-> IF s \in S THEN FreeSlot(s) ELSE registry[s]]
       /\ runner' = [s \in Sessions |->
                       IF s \in S THEN [runner[s] EXCEPT ![FreeSlot(s)] = NewRunner]
                       ELSE runner[s]]

\* AutonomySupervisor.mark: moves the newest job row, if there is one.
Mark(j, st) == IF j = "none" THEN j ELSE st

-----------------------------------------------------------------------------
(* The owner's routes and the sign-in callback *)

Create(s) ==
  /\ up /\ status[s] = "none"
  /\ Cardinality({t \in Sessions : status[t] \in OpenStatuses}) < MaxSessions
  /\ status' = [status EXCEPT ![s] = "draft"]
  /\ UNCHANGED <<error, agent, job, ckpt, report, runner, registry, up, wasCancelled>>

\* update(error=None) leaves the old error in place, here and in every route.
Start(s) ==
  /\ up /\ status[s] \in OpenStatuses
  /\ status' = [status EXCEPT ![s] = "queued"]
  /\ job' = [job EXCEPT ![s] = "pending"]
  /\ RunnersStart({s})
  /\ UNCHANGED <<error, agent, ckpt, report, up, wasCancelled>>

Pause(s) ==
  /\ up /\ status[s] = "running"
  /\ status' = [status EXCEPT ![s] = "paused"]
  /\ job' = [job EXCEPT ![s] = Mark(@, "paused")]
  /\ runner' = IF registry[s] = None THEN runner
               ELSE [runner EXCEPT ![s][registry[s]].pause = TRUE]
  /\ UNCHANGED <<error, agent, ckpt, report, registry, up, wasCancelled>>

\* Mutants of MayResume: the route turns away an open session only.
MayResumeCompleted(s) == status[s] \in {"interrupted", "paused", "failed", "completed"}
MayResumeCancelled(s) == status[s] \in {"interrupted", "paused", "failed", "cancelled"}

MayResume(s) == status[s] \in {"interrupted", "paused", "failed"}

Resume(s) ==
  /\ up /\ MayResume(s)
  /\ status' = [status EXCEPT ![s] = "queued"]
  /\ job' = [job EXCEPT ![s] = "queued"]
  /\ RunnersStart({s})
  /\ UNCHANGED <<error, agent, ckpt, report, up, wasCancelled>>

Cancel(s) ==
  /\ up /\ status[s] \in Statuses \ {"completed", "cancelled"}
  /\ status' = [status EXCEPT ![s] = "cancelled"]
  /\ job' = [job EXCEPT ![s] = Mark(@, "cancelled")]
  /\ runner' = IF registry[s] = None THEN runner
               ELSE [runner EXCEPT ![s][registry[s]].cancelled = TRUE]
  /\ wasCancelled' = [wasCancelled EXCEPT ![s] = TRUE]
  /\ UNCHANGED <<error, agent, ckpt, report, registry, up>>

AwaitingSignIn == {s \in Sessions : status[s] = "paused" /\ error[s] = "auth"}

\* BrowserAuthStore.on_confirmed -> resume_auth_paused_sessions.
SignIn ==
  /\ up /\ AwaitingSignIn # {}
  /\ status' = [s \in Sessions |-> IF s \in AwaitingSignIn THEN "queued" ELSE status[s]]
  /\ job' = [s \in Sessions |-> IF s \in AwaitingSignIn THEN "queued" ELSE job[s]]
  /\ RunnersStart(AwaitingSignIn)
  /\ UNCHANGED <<error, agent, ckpt, report, up, wasCancelled>>
-----------------------------------------------------------------------------
(* The runner coroutine.  Each operator below is part of one run of code   *)
(* between two awaits of runner k of session s; j is the status of the     *)
(* newest job row at that point.                                           *)

At(s, k, pcs) == up /\ runner[s][k].pc \in pcs

Goto(s, k, p) == runner' = [runner EXCEPT ![s][k].pc = p]

\* The prologue of _run_once got through with `left` heals left: the runner is
\* parked in the naming call or the preflight, which may walk ("exploring").
\* The first checkpoint is saved after the naming call, if there is one.
Enters(s, k, left) ==
  /\ status' = [status EXCEPT ![s] = "running"]
  /\ \/ agent' = [agent EXCEPT ![s] = "planning"]
     \/ PreflightWalks /\ agent' = [agent EXCEPT ![s] = "exploring"]
  /\ job' = [job EXCEPT ![s] = Mark(@, "initializing")]
  /\ \E keys \in SUBSET {"cursor"} : ckpt' = [ckpt EXCEPT ![s] = @ \cup keys]
  /\ runner' = [runner EXCEPT ![s][k] = [@ EXCEPT !.pc = "preflight", !.heals = left]]
  /\ UNCHANGED error

\* _fail with the agent in state a.  The transition to "failed" may itself be
\* refused; the error then leaves run(), and the job keeps the status j.
Fails(s, k, a, j) ==
  /\ status' = [status EXCEPT ![s] = "failed"]
  /\ error' = [error EXCEPT ![s] = "other"]
  /\ IF AgentCan(a, "failed")
     THEN /\ agent' = [agent EXCEPT ![s] = "failed"]
          /\ job' = [job EXCEPT ![s] = Mark(@, "failed")]
          /\ Goto(s, k, "ending")
     ELSE /\ agent' = [agent EXCEPT ![s] = a]
          /\ job' = [job EXCEPT ![s] = Mark(@, j)]
          /\ Goto(s, k, "raised")

\* The attempts run() makes without an await in between, the agent in state a and
\* h heals left.  update(status="running") raises unless the session is open, and
\* it stays as it is, so every attempt fails; the transition to planning raises
\* when the table has no such edge, and parking the agent repairs that once.
Attempts(s, k, a, h, open) ==
  LET parked == h > 0 /\ ~AgentCan(a, "planning")
      a1     == IF h > 0 THEN Parked(a) ELSE a
      fits   == open /\ (AgentCan(a, "planning") \/ AgentCan(a1, "planning"))
  IN IF fits THEN Enters(s, k, IF parked THEN h - 1 ELSE h)
     ELSE /\ Fails(s, k, a1, CASE open -> "initializing"
                               [] ~open /\ HealAttempts > 0 -> "recovering"
                               [] OTHER -> job[s])
          /\ ckpt' = [ckpt EXCEPT ![s] = IF HealAttempts > 0 THEN @ \cup {"cursor"} ELSE @]

\* Mutant of Raises: with no heal left the exception leaves run() unrecorded.
RaisesUnrecorded(s, k, open, j) ==
  IF runner[s][k].heals > 0
  THEN Attempts(s, k, Parked(agent[s]), runner[s][k].heals - 1, open)
  ELSE Goto(s, k, "raised") /\ UNCHANGED <<status, error, agent, job, ckpt>>

\* An unexpected exception: _self_heal and the next attempts, or _fail.
Raises(s, k, open, j) ==
  IF runner[s][k].heals > 0
  THEN Attempts(s, k, Parked(agent[s]), runner[s][k].heals - 1, open)
  ELSE Fails(s, k, agent[s], j) /\ UNCHANGED ckpt

IsOpen(s) == status[s] \in OpenStatuses

\* except _Cancelled.
StopsCancelled(s, k, j) ==
  /\ status' = [status EXCEPT ![s] = "cancelled"]
  /\ error' = [error EXCEPT ![s] = "other"]
  /\ agent' = [agent EXCEPT ![s] = "stopped"]
  /\ job' = [job EXCEPT ![s] = j]
  /\ Goto(s, k, "ending")
  /\ UNCHANGED ckpt

\* The owner's pause taken at the start of an iteration or before an action: the
\* agent row keeps the state of the phase.
StopsPaused(s, k) ==
  /\ status' = [status EXCEPT ![s] = "paused"]
  /\ ckpt' = [ckpt EXCEPT ![s] = @ \cup {"cursor"}]
  /\ Goto(s, k, "ending")
  /\ UNCHANGED <<error, agent, job>>

\* The owner's pause taken at the start of a phase: the agent is parked.
StopsBeforePhase(s, k, j) ==
  IF AgentCan(agent[s], "waiting_recovery")
  THEN /\ status' = [status EXCEPT ![s] = "paused"]
       /\ agent' = [agent EXCEPT ![s] = "waiting_recovery"]
       /\ job' = [job EXCEPT ![s] = j]
       /\ ckpt' = [ckpt EXCEPT ![s] = @ \cup {"cursor"}]
       /\ Goto(s, k, "ending")
       /\ UNCHANGED error
  ELSE Raises(s, k, TRUE, j)

\* The agent moves to state a and the runner to the await p, unless the table
\* refuses, which is an unexpected exception.
MovesOn(s, k, a, p, j) ==
  IF AgentCan(agent[s], a)
  THEN /\ agent' = [agent EXCEPT ![s] = a]
       /\ job' = [job EXCEPT ![s] = j]
       /\ ckpt' = [ckpt EXCEPT ![s] = @ \cup {"cursor"}]
       /\ Goto(s, k, p)
       /\ UNCHANGED <<status, error>>
  ELSE Raises(s, k, IsOpen(s), j)

\* The head of the phase loop: flags first, then the next open phase and its
\* first model call, or the report when every phase is complete.
PhaseHead(s, k, j) ==
  LET r == runner[s][k]
  IN \/ r.cancelled /\ StopsCancelled(s, k, j)
     \/ ~r.cancelled /\ r.pause /\ StopsBeforePhase(s, k, j)
     \/ /\ ~r.cancelled /\ ~r.pause
        /\ \/ \E a \in EntryStates : MovesOn(s, k, a, "model", j)
           \/ MovesOn(s, k, "reporting", "report", j)

KeptByRunner == UNCHANGED <<report, registry, up, wasCancelled>>

Begin(s, k) ==
  /\ At(s, k, {"spawned"})
  /\ Attempts(s, k, agent[s], runner[s][k].heals, IsOpen(s))
  /\ KeptByRunner

LeavePreflight(s, k) ==
  /\ At(s, k, {"preflight"})
  /\ PhaseHead(s, k, Mark(job[s], "researching"))
  /\ KeptByRunner

\* The reply violated its contract: one corrective call, with no check between.
RetryModel(s, k) ==
  /\ At(s, k, {"model"})
  /\ Goto(s, k, "retry")
  /\ UNCHANGED durable /\ KeptByRunner

InPhase == {"model", "retry", "action"}

\* The next of at most six requested browser actions; only the pause flag is read.
RunAction(s, k) ==
  /\ At(s, k, InPhase)
  /\ IF runner[s][k].pause THEN StopsPaused(s, k)
     ELSE Goto(s, k, "action") /\ UNCHANGED durable
  /\ KeptByRunner

\* Mutant of NextIteration: the loop over replies reads no flag.
NextIterationUnchecked(s, k) ==
  /\ At(s, k, InPhase)
  /\ Goto(s, k, "model")
  /\ UNCHANGED durable /\ KeptByRunner

NextIteration(s, k) ==
  /\ At(s, k, InPhase)
  /\ LET r == runner[s][k]
     IN \/ r.cancelled /\ StopsCancelled(s, k, job[s])
        \/ ~r.cancelled /\ r.pause /\ StopsPaused(s, k)
        \/ ~r.cancelled /\ ~r.pause /\ Goto(s, k, "model") /\ UNCHANGED durable
  /\ KeptByRunner

\* The phase is left (committed, switched, or its pass restarted): the head of the
\* loop, or the neighbour walk of P3 and P5, or, after the last phase, the report
\* with no check on the way.
LeavePhase(s, k) ==
  /\ At(s, k, InPhase)
  /\ \/ PhaseHead(s, k, job[s])
     \/ /\ ~runner[s][k].cancelled /\ ~runner[s][k].pause
        /\ MovesOn(s, k, agent[s], "adjacency", job[s])
     \/ MovesOn(s, k, "reporting", "report", job[s])
  /\ KeptByRunner

LeaveAdjacency(s, k) ==
  /\ At(s, k, {"adjacency"})
  /\ PhaseHead(s, k, job[s])
  /\ KeptByRunner

\* A pause the run needs the owner for: status and error first, then the agent,
\* whose refusal would leave run(), then the job and the checkpoint.
RunnerPauses(s, k, err, jobStatus, key) ==
  /\ status' = [status EXCEPT ![s] = "paused"]
  /\ error' = [error EXCEPT ![s] = err]
  /\ agent' = [agent EXCEPT ![s] = Parked(@)]
  /\ IF AgentCan(agent[s], "waiting_recovery")
     THEN /\ job' = [job EXCEPT ![s] = Mark(@, jobStatus)]
          /\ ckpt' = [ckpt EXCEPT ![s] = @ \cup {key}]
          /\ Goto(s, k, "ending")
     ELSE Goto(s, k, "raised") /\ UNCHANGED <<job, ckpt>>
  /\ KeptByRunner

AuthPause(s, k) ==
  At(s, k, {"action"})
    /\ RunnerPauses(s, k, "auth", "waiting_authentication", "paused:auth")

\* except BrowserManagerError stands behind no step: ActionExecutor.execute, the census, the
\* frontier and the final dive catch whatever the browser raises, so none of it reaches run().
ModelPause(s, k) ==
  At(s, k, {"model", "retry"}) /\ RunnerPauses(s, k, "other", "paused", "paused:model")

RunnerError(s, k) ==
  /\ At(s, k, Awaits)
  /\ Raises(s, k, IsOpen(s), job[s])
  /\ KeptByRunner

\* The report is saved, then the session completed, with no await in between.
Finish(s, k) ==
  /\ At(s, k, {"report"})
  /\ report' = [report EXCEPT ![s] = TRUE]
  /\ IF AgentCan(agent[s], "done")
     THEN /\ status' = [status EXCEPT ![s] = "completed"]
          /\ agent' = [agent EXCEPT ![s] = "done"]
          /\ job' = [job EXCEPT ![s] = Mark(@, "completed")]
          /\ Goto(s, k, "ending")
          /\ UNCHANGED <<error, ckpt>>
     ELSE Raises(s, k, FALSE, job[s])
  /\ UNCHANGED <<registry, up, wasCancelled>>

\* The done callback forgets whatever runner the session has registered.
Done(s, k) ==
  /\ At(s, k, Over)
  /\ runner' = [runner EXCEPT ![s][k] = FreeRunner]
  /\ registry' = [registry EXCEPT ![s] = None]
  /\ UNCHANGED durable /\ UNCHANGED <<up, wasCancelled>>

-----------------------------------------------------------------------------
(* Crash and boot *)

LosesMemory ==
  /\ up /\ up' = FALSE
  /\ runner' = [s \in Sessions |-> [k \in Slots |-> FreeRunner]]
  /\ registry' = [s \in Sessions |-> None]
  /\ wasCancelled' = [s \in Sessions |-> FALSE]

Crash == LosesMemory /\ UNCHANGED durable

\* The process dies between the report's commit and the session's.
CrashInFinish(s, k) ==
  /\ At(s, k, {"report"})
  /\ report' = [report EXCEPT ![s] = TRUE]
  /\ LosesMemory
  /\ UNCHANGED <<status, error, agent, job, ckpt>>

\* RecoveryManager.recover_all, which boot runs first ...
Recovered(s) == IF status[s] \in {"queued", "running"} THEN "interrupted" ELSE status[s]
RecoveredError(s) == IF status[s] \in {"queued", "running"} THEN "other" ELSE error[s]

\* ... then AutonomySupervisor.recover_on_boot, on what recover_all left ...
PauseKeys == {"paused:auth", "paused:model"}
Transient(s) == Recovered(s) \in {"queued", "running"} /\ ~report[s]
Resumable(s) == Transient(s) /\ ckpt[s] \cap PauseKeys = {} /\ ckpt[s] # {}

\* Mutants of Classified: boot takes a session that was reporting for finished; boot
\* leaves every session as it finds it.
ClassifiedByAgent(s) ==
  IF status[s] = "running" /\ agent[s] = "reporting" THEN "completed" ELSE Recovered(s)
ClassifiedAsIs(s) == status[s]

Classified(s) ==
  CASE Recovered(s) \in {"queued", "running"} /\ report[s] -> "completed"
    [] Transient(s) -> IF ckpt[s] \cap PauseKeys # {} THEN "paused" ELSE "interrupted"
    [] OTHER -> Recovered(s)

BootKeys(s) == IF Resumable(s) THEN ckpt[s] \cup {"resume_requested"} ELSE ckpt[s]

\* Mutant of Requeued: a session's status instead of a job's.
RequeuedRunning(j) ==
  IF j \in {"initializing", "researching", "recovering"} THEN "running" ELSE j

Requeued(j) ==
  IF j \in {"initializing", "researching", "recovering"} THEN "pending" ELSE j

\* ... then auto_resume_recovered, on what recover_on_boot left.
AutoResumed ==
  {s \in Sessions : /\ Classified(s) = "interrupted"
                    /\ ~report[s]
                    /\ "resume_requested" \in BootKeys(s)}

Boot ==
  /\ ~up /\ up' = TRUE
  /\ status' = [s \in Sessions |-> IF s \in AutoResumed THEN "queued" ELSE Classified(s)]
  /\ error' = [s \in Sessions |-> RecoveredError(s)]
  /\ job' = [s \in Sessions |-> Requeued(job[s])]
  /\ ckpt' = [s \in Sessions |-> BootKeys(s)]
  /\ RunnersStart(AutoResumed)
  /\ UNCHANGED <<agent, report, wasCancelled>>

-----------------------------------------------------------------------------
Route(s) == Create(s) \/ Start(s) \/ Pause(s) \/ Resume(s) \/ Cancel(s)

EndReply(s, k) == NextIteration(s, k) \/ LeavePhase(s, k)

RunnerStep(s, k) ==
  \/ Begin(s, k) \/ LeavePreflight(s, k) \/ RetryModel(s, k) \/ RunAction(s, k)
  \/ EndReply(s, k) \/ LeaveAdjacency(s, k) \/ AuthPause(s, k) \/ ModelPause(s, k)
  \/ RunnerError(s, k) \/ Finish(s, k) \/ Done(s, k)

Next ==
  \/ \E s \in Sessions : Route(s)
  \/ SignIn
  \/ \E s \in Sessions, k \in Slots : RunnerStep(s, k) \/ CrashInFinish(s, k)
  \/ Crash
  \/ Boot

Spec == Init /\ [][Next]_vars

\* The event loop runs every runner whose await is over, every model call and
\* navigation is bounded by a timeout, a reply requests at most six actions, and
\* the process manager restarts the process.
Fairness ==
  /\ \A s \in Sessions, k \in Slots :
       /\ WF_vars(RunnerStep(s, k))
       /\ WF_vars(EndReply(s, k))
  /\ WF_vars(Boot)

FairSpec == Spec /\ Fairness

-----------------------------------------------------------------------------
(* Properties *)

\* A session shown as running has a runner at work on it: no route, no exit of
\* a runner and no restart leaves a row 'running' that nobody drives
\* (run()'s "every failure path ends in a durable session status").
RunningHasRunner ==
  \A s \in Sessions :
    up /\ status[s] = "running" => \E k \in Slots : runner[s][k].pc \in Awaits

\* Until its owner cancels it, a session never has a second runner alive, and the
\* one it has is the one the registry knows (start() leaves a running one alone,
\* and the done callback pops the runner it was installed for).
OneRunnerUntilCancelled ==
  \A s \in Sessions : ~wasCancelled[s] => Live(s) \subseteq {registry[s]}

\* Sessions never cancelled since boot occupy at most MAX_CONCURRENT_SESSIONS
\* runners together, whatever mix of start, resume and sign-in spawned them.
CapUntilCancelled ==
  Cardinality({s \in Sessions : ~wasCancelled[s] /\ Live(s) # {}}) <= MaxConcurrent

\* A session shown as completed has its final report.
CompletedHasReport ==
  \A s \in Sessions : status[s] = "completed" => report[s]

\* A completed session that was not cancelled before stays completed: no late
\* runner, sign-in, restart or route takes it back.
CompletedIsFinal ==
  [][\A s \in Sessions : status[s] = "completed" /\ ~wasCancelled[s]
        => status'[s] = "completed"]_vars

\* Once no runner of a cancelled session is alive, nothing brings it back.
CancelledIsFinal ==
  [][\A s \in Sessions : status[s] = "cancelled" /\ Live(s) = {}
        => status'[s] = "cancelled"]_vars

\* Boot leaves no session queued or running without a runner.
BootLeavesNoOrphan ==
  [][~up /\ up' => \A s \in Sessions :
        status'[s] \in {"queued", "running"} => registry'[s] # None]_vars

\* A runner the owner cancelled, or asked to pause, does stop: run() reaches a
\* boundary where it reads the flag, or ends for a reason of its own.
FlagStopsRunner ==
  \A s \in Sessions, k \in Slots :
    runner[s][k].cancelled \/ runner[s][k].pause ~> runner[s][k].pc = "free"
=============================================================================
