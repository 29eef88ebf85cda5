------------------------ MODULE MCSessionLifecycle ------------------------
(***************************************************************************)
(* SessionLifecycle on small instances, with the statements of the         *)
(* repository's documents that the code does not keep.                     *)
(***************************************************************************)
EXTENDS SessionLifecycle, TLC

\* The nine phases enter the agent machine at these states (methodology.SPECS).
AllEntryStates == {"planning", "analyzing", "observing", "exploring", "synthesizing"}

Symmetry == Permutations(Sessions)

-----------------------------------------------------------------------------
(* Statements of the documents *)

\* VPS.md on crash recovery: after a restart, a session that was running resumes
\* from its last checkpoint (unless it finished, or waits for the owner).
RestartResumes ==
  [][~up /\ up' => \A s \in Sessions :
       status[s] = "running" /\ ~report[s] /\ ckpt[s] = {"cursor"}
         => status'[s] = "queued"]_vars

\* recover_on_boot on a session whose final report exists: only its status column
\* is stale, and boot corrects it.
FinishedIsCorrected ==
  [][~up /\ up' => \A s \in Sessions :
       status[s] = "running" /\ report[s] => status'[s] = "completed"]_vars

\* resume_auth_paused_sessions: what a sign-in would resume paused for the sign-in;
\* a pause the owner asked for (the route marks the job "paused") is left alone.
SignInResumesOnlyAuthPauses ==
  \A s \in AwaitingSignIn : job[s] = "waiting_authentication"

\* The cancel route: the durable state is committed at once, the runner is only
\* asked to stop; so what the runner still does never undoes the cancel.
CancelIsDurable ==
  [][\A s \in Sessions : status[s] = "cancelled" => status'[s] = "cancelled"]_vars

\* run(): never raises outward.
NeverRaisesOutward ==
  \A s \in Sessions, k \in Slots : runner[s][k].pc # "raised"

\* The registry enforces MAX_CONCURRENT_SESSIONS: the runners at work that nobody
\* has cancelled stay within the cap.
CapEnforced ==
  Cardinality({p \in Sessions \X Slots :
                 /\ runner[p[1]][p[2]].pc \in Awaits
                 /\ ~runner[p[1]][p[2]].cancelled}) <= MaxConcurrent

\* MAX_SESSIONS caps the sessions that are open at once.
SessionCap ==
  Cardinality({s \in Sessions : status[s] \in OpenStatuses}) <= MaxSessions

\* "queued" means accepted and waiting for a worker slot: with every slot idle, the
\* session is taken up.
QueuedIsTakenUp ==
  \A s \in Sessions :
    status[s] = "queued" /\ (\A t \in Sessions : Live(t) = {}) ~> status[s] # "queued"
=============================================================================
