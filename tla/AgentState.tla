----------------------------- MODULE AgentState -----------------------------
(***************************************************************************)
(* The persisted agent state machine of app/agent.py: the states, the      *)
(* table of legal transitions, and what AgentStateStore.transition accepts.*)
(* SessionLifecycle and Methodology both drive the row through this table. *)
(***************************************************************************)
EXTENDS Naturals

AgentStates ==
  {"idle", "planning", "exploring", "observing", "analyzing", "verifying",
   "synthesizing", "reporting", "done", "waiting_recovery", "stopped", "failed"}

\* The states in which the agent researches: any of them may be parked.
WorkStates ==
  {"planning", "exploring", "observing", "analyzing", "verifying", "synthesizing"}

Transitions ==
  [a \in AgentStates |->
     CASE a = "idle"         -> {"planning", "stopped"}
       [] a = "planning"     -> (WorkStates \ {"planning"})
                                  \cup {"reporting", "waiting_recovery", "stopped", "failed"}
       [] a = "exploring"    -> {"observing", "analyzing", "planning", "verifying",
                                 "waiting_recovery", "stopped", "failed"}
       [] a = "observing"    -> {"exploring", "analyzing", "verifying",
                                 "waiting_recovery", "stopped", "failed"}
       [] a = "analyzing"    -> {"verifying", "synthesizing", "exploring", "observing",
                                 "planning", "waiting_recovery", "stopped", "failed"}
       [] a = "verifying"    -> {"synthesizing", "analyzing", "observing", "exploring",
                                 "waiting_recovery", "stopped", "failed"}
       [] a = "synthesizing" -> {"reporting", "verifying", "planning", "exploring",
                                 "waiting_recovery", "stopped", "failed"}
       [] a = "reporting"    -> {"done", "synthesizing", "planning", "stopped", "failed"}
       [] a = "done"         -> {"planning", "stopped"}
       [] a = "waiting_recovery" -> WorkStates \cup {"stopped", "failed"}
       [] a = "stopped"      -> {}
       [] a = "failed"       -> {"planning", "waiting_recovery", "stopped"}]

\* transition() accepts a listed edge or a step to the state it is already in,
\* and raises AgentStateError otherwise.
AgentCan(a, b) == b = a \/ b \in Transitions[a]

\* _self_heal parks the agent and swallows the refusal.
Parked(a) == IF AgentCan(a, "waiting_recovery") THEN "waiting_recovery" ELSE a
=============================================================================
