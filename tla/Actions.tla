------------------------------ MODULE Actions -------------------------------
(***************************************************************************)
(* How one requested browser action is carried out: the executor of        *)
(* src/app/actions.py with the collector of src/app/evidence_capture.py.   *)
(*                                                                         *)
(* act is the coroutine of execute(), act.at the await it is suspended at. *)
(* The verbs that do the same are one: `search' stands for every handler   *)
(* that opens a store's page, looks for a wall and captures with a         *)
(* picture (search_marketplace, open_category, bestsellers, new_releases,  *)
(* open_product), `read' for those that look and capture without one       *)
(* (read_reviews, related_products), `outside' for the external sources.   *)
(* A page is what was asked for, a sign-in form, or a CAPTCHA or one-time  *)
(* password (captcha).                                                     *)
(***************************************************************************)
EXTENDS Naturals, Sequences, FiniteSets, Functions, FiniteSetsExt

CONSTANT
  Plans   \* bounds of the instance: the notes an owner posts, the verbs replies may ask for and
          \* how many actions in all (the code takes the first six of a reply), iterations of a
          \* phase, faults

Checked  == {"search", "read"}
Pictured == {"search", "panel", "capture"}
Tabless  == {"note"}                    \* record_observation, wait, dismiss_overlay
AllVerbs == Checked \cup Pictured \cup Tabless \cup {"suggest", "outside", "astray"}

ASSUME ActionsAssumption ==
  Plans \subseteq [notes : Nat, verbs : SUBSET AllVerbs, actions : Nat, steps : Nat, upsets : Nat]

\* What a page turns out to be.
PageKinds == {"asked", "login", "captcha"}

VARIABLES
  plan,      \* which of Plans
  \* durable
  rows,      \* browser_evidence: [verb, page, lost, unsure, image]
  images,    \* screenshot artifacts
  wall,      \* the wall the durable auth state shows, or "none"
  \* the runner
  asked,     \* actions asked for so far
  todo,      \* the actions of the reply not yet begun
  act,       \* the action under way
  picture,   \* last_screenshot: none, taken by the last action begun, or old
  \* the browser
  left,      \* tabs left open that nobody holds, by the verb that left them
  upsets     \* faults so far

actDurable == <<rows, images, wall>>
actStill == <<plan, rows, images, wall, asked, todo, act, picture, left>>
actVars == <<actStill, upsets>>

NoAct == [verb |-> "note", at |-> "none", tab |-> "none", page |-> "asked", unsure |-> FALSE,
          image |-> 0, out |-> "none"]

ActionsTypeOK ==
  /\ plan \in Plans /\ upsets \in 0..plan.upsets /\ images \in Nat
  /\ rows \subseteq [verb : AllVerbs, page : PageKinds, lost : BOOLEAN,
                     unsure : BOOLEAN, image : 0..images]
  /\ wall \in {"none", "login", "captcha"} /\ picture \in {"none", "last", "old"}
  /\ todo \in Seq(plan.verbs) /\ Len(todo) <= asked /\ asked \in 0..plan.actions
  /\ act.verb \in AllVerbs
  /\ act.at \in {"none", "open", "check", "read", "shoot", "store", "close"}
  /\ act.tab \in {"none", "open", "lost"} /\ act.out \in {"none", "ok", "failed", "pause", "heal"}
  /\ left \subseteq AllVerbs

ActionsInit ==
  /\ plan \in Plans /\ rows = {} /\ images = 0 /\ wall = "none" /\ upsets = 0
  /\ asked = 0 /\ todo = <<>> /\ act = NoAct /\ picture = "none" /\ left = {}

Upset == upsets < plan.upsets /\ upsets' = upsets + 1

\* The handler is done but for its finally: the tab is closed next.
Ends(out) == act' = [act EXCEPT !.at = "close", !.out = out]

\* A handler without a finally leaves its tab when it raises.
Abandons(out) ==
  IF act.verb = "capture" /\ act.tab = "open" /\ out # "ok"
  THEN act' = [NoAct EXCEPT !.at = "close", !.out = out] /\ left' = left \cup {act.verb}
  ELSE Ends(out) /\ UNCHANGED left

(***************************************************************************)
(* The awaits of an action, in the order of the handlers.                  *)
(***************************************************************************)
\* The next action of the batch.  One the phase does not allow, or without the arguments it
\* needs, is a failed action; a marketplace that does not exist is not caught by execute.
Begin ==
  /\ act.at = "none" /\ todo # <<>>
  /\ todo' = Tail(todo)
  /\ picture' = IF picture = "none" THEN "none" ELSE "old"
  /\ LET a == [NoAct EXCEPT !.verb = Head(todo)] IN
       \/ Head(todo) = "astray" /\ act' = [a EXCEPT !.at = "close", !.out = "heal"]
       \/ Head(todo) \in Tabless /\ act' = [a EXCEPT !.at = "close", !.out = "ok"]
       \/ Head(todo) \notin Tabless \cup {"astray"} /\ act' = [a EXCEPT !.at = "open"]
       \/ Head(todo) # "astray" /\ act' = [a EXCEPT !.at = "close", !.out = "failed"]
  /\ UNCHANGED <<actDurable, left, upsets>>

\* The page is there.  capture_evidence goes on with the page it opened when the navigation
\* went on with another one.
Opened ==
  /\ act.at = "open"
  /\ \E page \in PageKinds, tab \in {"open", "lost"} :
       /\ act' = [act EXCEPT !.at = IF act.verb \in Checked THEN "check" ELSE "read",
                             !.tab = tab, !.page = page]
       /\ IF tab = "open" THEN UNCHANGED <<left, upsets>>
          ELSE act.verb = "capture" /\ Upset /\ left' = left \cup {act.verb}
  /\ UNCHANGED <<actDurable, todo, picture>>

\* open_marketplace closes what it opened; new_page and navigate leave it to the handler, which
\* knows only the page it began with, not the one a relaunched engine went on with.
OpenFails ==
  /\ act.at = "open" /\ Upset
  /\ Ends("failed")
  /\ \/ UNCHANGED left
     \/ act.verb \in {"outside", "capture"} /\ left' = left \cup {act.verb}
  /\ UNCHANGED <<actDurable, todo, picture>>

\* Mutant: a form is read like any page, a challenge pauses.
CheckChallenges ==
  /\ act.at = "check"
  /\ \/ act.page # "captcha" /\ act' = [act EXCEPT !.at = "read"]
     \/ act.page = "captcha" /\ Ends("pause")
  /\ UNCHANGED <<actDurable, todo, picture, left, upsets>>

\* Sign-in is the owner's choice: a form is a failed action.  A challenge needs the owner.
\* The durable auth state is told of either, as far as it can be.
Check ==
  /\ act.at = "check"
  /\ \/ /\ act.page = "asked" \/ act.tab = "lost"
        /\ act' = [act EXCEPT !.at = "read"] /\ UNCHANGED <<wall, upsets>>
     \/ /\ act.page # "asked" /\ act.tab = "open"
        /\ Ends(IF act.page = "login" THEN "failed" ELSE "pause")
        /\ \/ wall' = act.page /\ UNCHANGED upsets
           \/ Upset /\ UNCHANGED wall
     \/ /\ Upset /\ act' = [act EXCEPT !.at = "read", !.unsure = TRUE] /\ UNCHANGED wall
  /\ UNCHANGED <<rows, images, todo, picture, left>>

\* Extraction is best effort, and yields nothing from a page that is gone.
Extracted ==
  \/ act' = [act EXCEPT !.at = IF act.verb \in Pictured THEN "shoot" ELSE "store"]
  \/ act.verb = "search" /\ act' = [act EXCEPT !.at = "store"]    \* asked without a picture

\* The extension's panel or an external source with nothing to read is a failed action.
Read ==
  /\ act.at = "read"
  /\ \/ act.verb \in {"panel", "outside"} /\ Ends("failed")
     \/ ~(act.verb \in {"panel", "outside"} /\ act.tab = "lost") /\ Extracted
  /\ UNCHANGED <<actDurable, todo, picture, left, upsets>>

\* Without a picture the row is written all the same; a picture that cannot be stored raises.
Shoot ==
  /\ act.at = "shoot"
  /\ \/ /\ act.tab = "open" /\ picture' = "last" /\ images' = images + 1
        /\ act' = [act EXCEPT !.at = "store", !.image = images + 1] /\ UNCHANGED <<left, upsets>>
     \/ /\ act.tab = "open" /\ picture' = "last" /\ Upset
        /\ Abandons("heal") /\ UNCHANGED images
     \/ /\ IF act.tab = "lost" THEN UNCHANGED upsets ELSE Upset
        /\ act' = [act EXCEPT !.at = "store"] /\ UNCHANGED <<picture, images, left>>
  /\ UNCHANGED <<rows, wall, todo>>

Store ==
  /\ act.at = "store"
  /\ \/ /\ rows' = rows \cup {[verb |-> act.verb, page |-> act.page, lost |-> act.tab = "lost",
                              unsure |-> act.unsure, image |-> act.image]}
        /\ Ends("ok") /\ UNCHANGED <<left, upsets>>
     \/ /\ Upset /\ Abandons("heal") /\ UNCHANGED rows
  /\ UNCHANGED <<images, wall, todo, picture>>

\* The tab is closed and the result journalled; a pause or a heal is the runner's.
Closed ==
  /\ act.at = "close" /\ act.out \in {"ok", "failed"}
  /\ act' = NoAct
  /\ UNCHANGED <<actDurable, todo, picture, left, upsets>>

\* Somebody evicts the tab or relaunches the browser meanwhile.
TabLost ==
  /\ act.tab = "open" /\ Upset
  /\ act' = [act EXCEPT !.tab = "lost"]
  /\ UNCHANGED <<actDurable, todo, picture, left>>

ActionStep ==
  /\ UNCHANGED <<plan, asked>>
  /\ Begin \/ Opened \/ OpenFails \/ Check \/ Read \/ Shoot \/ Store \/ Closed \/ TabLost

\* The runner lets go of its batch: the handlers' finally has run.
Drops == todo' = <<>> /\ act' = NoAct

-----------------------------------------------------------------------------
\* What a checked handler records was read from the page it asked for: no row is made of a
\* sign-in form or a challenge, unless the classifier itself failed on the page or the tab was
\* taken away under it.  A row's picture is one that was stored.
RowsAreOfPages ==
  \A r \in rows :
    /\ r.verb \in Checked => r.page = "asked" \/ r.unsure \/ r.lost
    /\ r.image # 0 => r.image <= images /\ \A q \in rows : q.image = r.image => q = r

\* Refuted: after any navigation the page is classified (actions.py:8).
WallIsNoEvidence == \A r \in rows : r.page = "asked" \/ r.unsure \/ r.lost

\* Refuted: absence is recorded as absence, never as a zero (evidence_capture.py:288).
LostTabIsNoEvidence == \A r \in rows : ~r.lost

\* Refuted: an action closes the tab it opened (actions.py:352, the finally of every other
\* handler).
TabsAreReturned == left = {}
=============================================================================
