------------------------------ MODULE Guidance ------------------------------
(***************************************************************************)
(* What the owner tells a running research session and what of it the      *)
(* model's prompts say (src/app/owner_messages.py, the runner's note lines *)
(* in src/app/research_runner.py, src/app/prompts.py, src/app/naming.py).  *)
(*                                                                         *)
(* A message is a durable row.  The runner never waits for one: at the     *)
(* start of a run and before each prompt it claims the undelivered rows in *)
(* one transaction and appends them to the lines it keeps in memory; the   *)
(* first prompt of a run replaces those lines by the journal, and every    *)
(* prompt carries all of them.  The prompt's own room is bounded: the      *)
(* owner's block and the earlier phases' decisions are cut when they are   *)
(* too long.  A note is its size in the block and the target it states (0  *)
(* when it states none); a phase's decisions are their size.               *)
(***************************************************************************)
EXTENDS Actions

CONSTANTS
  Kinds,          \* what an owner may write: [size, target]
  Decided,        \* sizes a phase's decisions may have
  Phases,         \* phases of the methodology
  BriefTarget,    \* the target the brief states, 0 for none
  DefaultTarget,  \* TARGET_NICHES
  NoteRoom,       \* room of the owner's block
  PhaseRoom,      \* room of one phase's decisions
  PriorRoom,      \* room of all of them together
  JournalLimit,   \* rows a journal read returns, the oldest first
  FailureLimit,   \* _MODEL_FAILURE_LIMIT
  Repairs,        \* _CONTRACT_REPAIR_ATTEMPTS
  MaxHeals        \* _SELF_HEAL_ATTEMPTS

ASSUME GuidanceAssumption ==
  /\ Kinds \subseteq [size : Nat, target : Nat] /\ Decided \subseteq Nat
  /\ Phases \in Nat \ {0} /\ FailureLimit \in Nat \ {0} /\ JournalLimit \in Nat \ {0}
  /\ {BriefTarget, DefaultTarget, NoteRoom, PhaseRoom, PriorRoom, Repairs, MaxHeals} \subseteq Nat

VARIABLES
  \* durable
  notes,      \* the owner_messages rows of the session, in the order of their ids
  name,       \* the session's name: generic, by the model or by the owner
  decisions,  \* the phase outputs checkpointed, the oldest first
  saved,      \* the iteration the current phase has completed
  over,       \* the last phase has closed
  \* the runner
  pc,         \* off, enter, naming, step (an iteration's boundary), asking or acting
  seen,       \* the name the session had when the runner read its row
  lines,      \* _owner_note_lines: ids of notes
  loaded,     \* the journal was read by this runner
  unread,     \* the notes this runner has lost: left out by its read of the journal, or
              \* claimed by a take that failed half-way
  pausing,    \* _pause_requested
  step,       \* the iteration
  streak,     \* consecutive failed iterations
  attempt,    \* contract repairs of this iteration
  heals,      \* heals spent
  prompt      \* what the model is asked with

durable == <<notes, name, decisions, saved, over>>
talk    == <<seen, lines, loaded, unread, pausing>>
vars == <<durable, pc, talk, step, streak, attempt, heals, prompt, actVars>>

NoPrompt ==
  [lines |-> <<>>, posted |-> 0, refused |-> FALSE, target |-> 0, prior |-> 0, picture |-> "none"]

TypeOK ==
  /\ ActionsTypeOK
  /\ notes \in Seq([size : Nat, target : Nat, delivered : BOOLEAN]) /\ Len(notes) <= plan.notes
  /\ name \in {"generic", "model", "owner"} /\ seen \in {"generic", "model", "owner"}
  /\ decisions \in Seq(Nat) /\ Len(decisions) <= Phases /\ over = (Len(decisions) = Phases)
  /\ saved \in 0..plan.steps /\ step \in 0..plan.steps
  /\ pc \in {"off", "enter", "naming", "step", "asking", "acting"}
  /\ loaded \in BOOLEAN /\ pausing \in BOOLEAN
  /\ lines \in Seq(DOMAIN notes) /\ unread \subseteq DOMAIN notes
  /\ streak \in 0..(FailureLimit - 1) /\ attempt \in 0..Repairs /\ heals \in 0..MaxHeals
  /\ prompt.lines \in Seq(DOMAIN notes) /\ prompt.posted \in 0..Len(notes)

Init ==
  /\ ActionsInit
  /\ notes = <<>> /\ name = "generic" /\ decisions = <<>> /\ saved = 0 /\ over = FALSE
  /\ pc = "off" /\ seen = "generic" /\ lines = <<>> /\ loaded = FALSE /\ unread = {}
  /\ pausing = FALSE /\ step = 0 /\ streak = 0 /\ attempt = 0 /\ heals = 0 /\ prompt = NoPrompt

(***************************************************************************)
(* The prompt.                                                             *)
(***************************************************************************)
Sum(size, S) == FoldFunctionOnSet(LAMBDA a, b : a + b, 0, size, S)

\* The parts of a text of these sizes that survive its cut at room whole.
Whole(size, room) == {i \in DOMAIN size : Sum(size, 1..i) <= room}

Clipped(n, room) == IF n < room THEN n ELSE room

\* The notes a prompt with these lines shows whole: the block is cut at its end.
ShownNotes(ls) ==
  {ls[i] : i \in Whole([j \in DOMAIN ls |-> notes[ls[j]].size], NoteRoom)}

\* The phases whose decisions a prompt shows to the end of what it allows each of them.
ShownPhases == Whole([p \in DOMAIN decisions |-> Clipped(decisions[p], PhaseRoom)], PriorRoom)

\* The niche target: the largest any of the brief and the notes states, else the default.
Target(ls) ==
  LET stated == ({BriefTarget} \cup {notes[i].target : i \in Range(ls)}) \ {0}
  IN  Clipped(IF stated = {} THEN DefaultTarget ELSE Max(stated), 50)

(***************************************************************************)
(* Claiming messages.                                                      *)
(***************************************************************************)
Pending == {i \in DOMAIN notes : ~notes[i].delivered}

\* ORDER BY id.
InOrder(ids) ==
  CHOOSE s \in [1..Cardinality(ids) -> ids] : \A i, j \in DOMAIN s : i < j => s[i] < s[j]

\* The claim and the delivery marker are one transaction.
Claimed == [i \in DOMAIN notes |-> [notes[i] EXCEPT !.delivered = TRUE]]

\* The lines after taking these notes: a line already there is not repeated.
With(ids) == lines \o InOrder(ids \ Range(lines))
Taken == With(Pending)

\* The oldest rows, delivered or not.
Journal == [i \in 1..Clipped(Len(notes), JournalLimit) |-> i]

\* Mutant: a resumed run goes on with what it claims itself.
RehydratedNever(ls) == ls

\* The lines a prompt carries: on the first prompt of the run they become the journal's.
Rehydrated(ls) == IF loaded THEN ls ELSE Journal

\* The prompt built from these lines, and how much of the earlier phases it shows.
Composed(ls, refused) ==
  [lines |-> ls, posted |-> Len(notes), refused |-> refused, target |-> Target(ls),
   prior |-> Cardinality(ShownPhases), picture |-> picture]

(***************************************************************************)
(* The owner.                                                              *)
(***************************************************************************)
\* A message is durable before the call returns; the run is not touched.
Post ==
  /\ Len(notes) < plan.notes
  /\ \E k \in Kinds :
       notes' = Append(notes, [size |-> k.size, target |-> k.target, delivered |-> FALSE])
  /\ UNCHANGED <<name, decisions, saved, over, pc, talk, step, streak, attempt, heals, prompt,
                 actVars>>

Rename ==
  /\ name' = "owner" /\ name # "owner"
  /\ UNCHANGED <<notes, decisions, saved, over, pc, talk, step, streak, attempt, heals, prompt,
                 actVars>>

RequestPause ==
  /\ pc # "off" /\ ~pausing /\ pausing' = TRUE
  /\ UNCHANGED <<durable, pc, seen, lines, loaded, unread, step, streak, attempt, heals, prompt,
                 actVars>>

(***************************************************************************)
(* A run.  A run that stops forgets everything but what is durable; one    *)
(* that meets an unexpected error enters again with the same runner.       *)
(***************************************************************************)
Forgets ==
  /\ pc' = "off" /\ seen' = "generic" /\ lines' = <<>> /\ loaded' = FALSE /\ unread' = {}
  /\ pausing' = FALSE /\ step' = 0 /\ streak' = 0 /\ attempt' = 0 /\ heals' = 0
  /\ prompt' = NoPrompt

Stops == Forgets /\ Drops /\ picture' = "none"

\* The runner goes on with these lines, having lost these notes.
Heals(ls, lost) ==
  IF heals = MaxHeals
  THEN Stops
  ELSE /\ heals' = heals + 1 /\ pc' = "enter" /\ lines' = ls /\ unread' = lost
       /\ step' = 0 /\ attempt' = 0 /\ prompt' = NoPrompt
       /\ Drops /\ UNCHANGED <<seen, loaded, pausing, streak, picture>>

Start ==
  /\ pc = "off" /\ ~over
  /\ pc' = "enter" /\ seen' = name
  /\ UNCHANGED <<durable, lines, loaded, unread, pausing, step, streak, attempt, heals, prompt,
                 actVars>>

\* A run takes the messages sent meanwhile, then has the model name a session whose name was
\* generic when the runner began.  The phase it comes to begins with a clean streak.
Enter ==
  /\ pc = "enter"
  /\ \/ /\ notes' = Claimed /\ lines' = Taken /\ UNCHANGED upsets
     \/ /\ Upset /\ UNCHANGED <<notes, lines>>            \* the claim is refused, and ignored
  /\ IF seen = "generic" THEN pc' = "naming" /\ UNCHANGED streak
     ELSE pc' = "step" /\ streak' = 0
  /\ step' = saved
  /\ UNCHANGED <<name, decisions, saved, over, seen, loaded, unread, pausing, attempt, heals,
                 prompt, actStill>>

\* The model's name is written over whatever the name is by then; any problem keeps it.
Named ==
  /\ pc = "naming" /\ pc' = "step" /\ streak' = 0
  /\ name' \in {"model", name}
  /\ UNCHANGED <<notes, decisions, saved, over, talk, step, attempt, heals, prompt, actVars>>

\* The owner's pause is seen between iterations, and between the actions of a reply.
PauseHere ==
  /\ pausing
  /\ \/ pc = "step"
     \/ pc = "acting" /\ act.at = "none" /\ todo # <<>>
  /\ Stops /\ UNCHANGED <<durable, plan, asked, actDurable, left, upsets>>

\* The next iteration: take the messages, then build the prompt from all of them.
Ask ==
  /\ pc = "step" /\ ~pausing /\ step < plan.steps
  /\ \E refused \in BOOLEAN, blind \in IF loaded THEN {FALSE} ELSE BOOLEAN :
       LET taken == IF refused THEN lines ELSE Taken
           ls    == IF blind THEN <<>> ELSE Rehydrated(taken)
           cost  == Cardinality({f \in {"claim", "journal"} :
                                   (f = "claim" /\ refused) \/ (f = "journal" /\ blind)})
       IN  /\ upsets + cost <= plan.upsets /\ upsets' = upsets + cost
           /\ notes' = IF refused THEN notes ELSE Claimed
           /\ lines' = ls
           /\ unread' = IF loaded THEN unread
                        ELSE IF blind THEN DOMAIN notes ELSE (JournalLimit + 1)..Len(notes)
           /\ prompt' = Composed(ls, refused)
  /\ loaded' = TRUE /\ step' = step + 1 /\ attempt' = 0 /\ pc' = "asking"
  /\ UNCHANGED <<name, decisions, saved, over, seen, pausing, streak, heals, actStill>>

\* The claim commits, and the event about its message i is refused: the messages after it
\* are delivered, and in no line.
StumbleInTake ==
  /\ pc = "enter" \/ (pc = "step" /\ ~pausing)
  /\ \E i \in Pending :
       Heals(With({j \in Pending : j <= i}), unread \cup {j \in Pending : j > i})
  /\ Upset /\ notes' = Claimed
  /\ UNCHANGED <<name, decisions, saved, over, plan, asked, actDurable, left>>

\* A phase closes: by the model's commit, or forced at its last iteration or at a budget.
Close ==
  /\ \E d \in Decided : decisions' = Append(decisions, d)
  /\ saved' = 0
  /\ over' = (Len(decisions) + 1 = Phases)
  /\ IF Len(decisions) + 1 = Phases
     THEN Stops
     ELSE /\ pc' = "step" /\ step' = 0 /\ streak' = 0 /\ attempt' = 0 /\ prompt' = NoPrompt
          /\ UNCHANGED <<talk, heals, todo, act, picture>>

Forced ==
  /\ pc = "step" /\ ~pausing
  /\ Close /\ UNCHANGED <<notes, name, plan, asked, actDurable, left, upsets>>

Committed ==
  /\ pc = "asking"
  /\ Close /\ UNCHANGED <<notes, name, plan, asked, actDurable, left, upsets>>

\* A reply that keeps the phase open: its actions are carried out first.
Replied ==
  /\ pc = "asking" /\ pc' = "acting" /\ streak' = 0 /\ prompt' = NoPrompt
  /\ \E n \in 0..(plan.actions - asked) :
       asked' = asked + n /\ todo' \in [1..n -> plan.verbs]
  /\ UNCHANGED <<durable, talk, step, attempt, heals, plan, actDurable, act, picture, left,
                 upsets>>

Acts ==
  /\ pc = "acting" /\ (act.at = "none" => ~pausing)
  /\ ActionStep
  /\ UNCHANGED <<durable, pc, talk, step, streak, attempt, heals, prompt>>

\* The iteration is saved once its last action is over.
Acted ==
  /\ pc = "acting" /\ todo = <<>> /\ act.at = "none"
  /\ pc' = "step" /\ saved' = step
  /\ UNCHANGED <<notes, name, decisions, over, talk, step, streak, attempt, heals, prompt,
                 actVars>>

\* A challenge pauses the session for its owner.
PauseForAuth ==
  /\ pc = "acting" /\ act.at = "close" /\ act.out = "pause"
  /\ Stops /\ UNCHANGED <<durable, plan, asked, actDurable, left, upsets>>

\* An error execute does not know.
StumbleInAction ==
  /\ pc = "acting" /\ act.at = "close" /\ act.out = "heal"
  /\ Heals(lines, unread) /\ UNCHANGED <<durable, plan, asked, actDurable, left, upsets>>

\* Mutant: the contract is restated for as long as it is broken.
RepairAgain ==
  /\ pc = "asking" /\ attempt' = attempt + 1 /\ attempt < 2 * Repairs
  /\ UNCHANGED <<durable, pc, talk, step, streak, heals, prompt, actVars>>

\* A reply that breaks the contract is asked for again, with the same prompt; the last such
\* reply is salvaged (Replied, Committed) or is nothing, and the iteration is gone.
Repair ==
  /\ pc = "asking" /\ attempt < Repairs /\ attempt' = attempt + 1
  /\ UNCHANGED <<durable, pc, talk, step, streak, heals, prompt, actVars>>

Unusable ==
  /\ pc = "asking" /\ attempt = Repairs /\ pc' = "step" /\ prompt' = NoPrompt
  /\ UNCHANGED <<durable, talk, step, streak, attempt, heals, actVars>>

\* A failed call is a failed iteration, until the streak of them hands the session over.
Failed ==
  /\ pc = "asking" /\ Upset
  /\ IF streak + 1 = FailureLimit
     THEN Stops
     ELSE /\ pc' = "step" /\ streak' = streak + 1 /\ prompt' = NoPrompt
          /\ UNCHANGED <<talk, step, attempt, heals, todo, act, picture>>
  /\ UNCHANGED <<durable, plan, asked, actDurable, left>>

\* The process dies, and the browser with it.
Fall ==
  /\ pc # "off" /\ Upset
  /\ Stops /\ left' = {} /\ UNCHANGED <<durable, plan, asked, actDurable>>

Next ==
  \/ Post \/ Rename \/ RequestPause
  \/ Start \/ Enter \/ Named \/ PauseHere \/ Ask \/ StumbleInTake \/ Forced \/ Committed
  \/ Replied \/ Acts \/ Acted \/ PauseForAuth \/ StumbleInAction
  \/ Repair \/ Unusable \/ Failed \/ Fall

Spec == Init /\ [][Next]_vars

(***************************************************************************)
(* Properties.                                                             *)
(***************************************************************************)
\* Every prompt carries every note posted before it, each once and the oldest first: across
\* pauses, crashes between the claim and the prompt, heals, and claims refused and made later.
\* The exceptions are named: notes the runner has lost (unread) and notes whose claim was
\* refused just now.
PromptHasEveryNote ==
  pc = "asking" =>
    /\ \A i, j \in DOMAIN prompt.lines : i < j => prompt.lines[i] < prompt.lines[j]
    /\ \A i \in 1..prompt.posted :
         \/ i \in Range(prompt.lines)
         \/ i \in unread
         \/ prompt.refused /\ ~notes[i].delivered

\* Refuted: no line of context is lost (prompts.py:359): the newest note is in the prompt.
NewestNoteIsShown ==
  pc = "asking" /\ ~prompt.refused /\ prompt.lines # <<>> =>
    prompt.lines[Len(prompt.lines)] \in ShownNotes(prompt.lines)

\* Refuted: every prompt carries the full journal (owner_messages.py:13).
JournalIsWhole ==
  pc = "asking" /\ ~prompt.refused => 1..prompt.posted \subseteq Range(prompt.lines)

\* Refuted: synthesis sees the verdicts of every earlier phase (prompts.py:328).
PriorPhasesAreShown == pc = "asking" => prompt.prior = Len(decisions)

\* Refuted: the attached picture is the viewport of the last action (prompts.py:423).
PictureIsTheLastAction == pc = "asking" => prompt.picture # "old"

\* Refuted: what a model asks for is a failed action at worst (actions.py:3): it takes a heal.
ReplyIsHarmless == [][pc = "acting" /\ pc' \in {"enter", "off"} /\ upsets = 0 => pausing \/ act.out = "pause"]_vars

\* Refuted: the owner's latest word on the target stands (research_runner.py:2804).
LastTargetStands ==
  pc = "asking" =>
    LET stated == {i \in Range(prompt.lines) : notes[i].target # 0}
    IN  stated # {} => prompt.target = notes[Max(stated)].target

\* Refuted: naming only replaces a name nobody chose (naming.py:56, "any problem keeps the
\* existing name").
OwnersNameStays == [][name = "owner" => name' = "owner"]_vars
=============================================================================
