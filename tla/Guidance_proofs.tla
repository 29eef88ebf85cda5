--------------------------- MODULE Guidance_proofs ---------------------------
(***************************************************************************)
(* Theorems about Guidance and the actions it carries out, for any plans,  *)
(* rooms and limits.  Two inductive invariants: IInv is the actions' type  *)
(* invariant with the shape of the action under way, what it may read      *)
(* (Seen) and which picture is its own (Own); NotesInv adds what a runner  *)
(* knows of the notes (Lined), what the model is asked with (Prompted) and *)
(* how far the run has got (Phased, Counted).                              *)
(***************************************************************************)
EXTENDS Guidance, FiniteSetTheorems, SequenceTheorems, WellFoundedInduction, TLAPS

ActRecords ==
  [verb : AllVerbs, at : {"none", "open", "check", "read", "shoot", "store", "close"},
   tab : {"none", "open", "lost"}, page : PageKinds, unsure : BOOLEAN, image : Nat,
   out : {"none", "ok", "failed", "pause", "heal"}]

\* A checked handler past its check has the page it asked for, unless it could not tell.
Seen ==
  act.at \in {"read", "shoot", "store"} /\ act.verb \in Checked =>
    act.page = "asked" \/ act.unsure \/ act.tab = "lost"

\* An action has no picture before it has taken one, and no row has the picture of the action
\* that is about to store it.
Own ==
  /\ act.at \notin {"store", "close"} => act.image = 0
  /\ act.image <= images
  /\ act.at = "store" /\ act.image # 0 => \A r \in rows : r.image # act.image

IInv == ActionsTypeOK /\ act \in ActRecords /\ Seen /\ Own /\ RowsAreOfPages

RowRecords == [verb : AllVerbs, page : PageKinds, lost : BOOLEAN, unsure : BOOLEAN, image : Nat]

-----------------------------------------------------------------------------
(* Lemmas *)

LEMMA PlanFacts ==
  ASSUME plan \in Plans
  PROVE  plan.verbs \subseteq AllVerbs /\ plan.actions \in Nat /\ plan.upsets \in Nat
BY ActionsAssumption

LEMMA NoActShape == NoAct \in ActRecords
BY DEF NoAct, ActRecords, AllVerbs, Tabless, PageKinds

\* Rows whose picture is among the first n are rows whose picture is among the first m.
LEMMA MoreImages ==
  ASSUME NEW n \in Nat, NEW m \in Nat, n <= m
  PROVE  [verb : AllVerbs, page : PageKinds, lost : BOOLEAN, unsure : BOOLEAN, image : 0..n]
           \subseteq
         [verb : AllVerbs, page : PageKinds, lost : BOOLEAN, unsure : BOOLEAN, image : 0..m]
OBVIOUS

\* One more fault is within the plan's bound.
LEMMA UpsetTypes ==
  ASSUME ActionsTypeOK, plan' = plan, Upset \/ upsets' = upsets
  PROVE  plan' \in Plans /\ upsets' \in 0..plan'.upsets
BY PlanFacts DEF ActionsTypeOK, Upset

-----------------------------------------------------------------------------
(* The steps of an action *)

\* A step that neither writes a row nor takes a picture keeps the invariant if what it makes
\* of the action is in shape and in order.
LEMMA QuietStep ==
  ASSUME IInv, UNCHANGED <<plan, asked, rows, images>>, Upset \/ upsets' = upsets,
         wall' \in {"none", "login", "captcha"}, picture' \in {"none", "last", "old"},
         todo' \in Seq(plan.verbs), Len(todo') <= asked, left' \subseteq AllVerbs,
         act' \in ActRecords, Seen',
         act'.image = 0 \/ (act'.image = act.image /\ act.at \in {"store", "close"}
                             /\ act'.at \in {act.at, "close"})
  PROVE  IInv'
<1>1. plan' \in Plans /\ upsets' \in 0..plan'.upsets
  BY UpsetTypes DEF IInv
<1>2. act'.verb \in AllVerbs /\ act'.image \in Nat
      /\ act'.at \in {"none", "open", "check", "read", "shoot", "store", "close"}
      /\ act'.tab \in {"none", "open", "lost"}
      /\ act'.out \in {"none", "ok", "failed", "pause", "heal"}
  BY DEF ActRecords
<1>3. ActionsTypeOK'
  BY <1>1, <1>2 DEF IInv, ActionsTypeOK
<1>4. Own'
  BY <1>2 DEF IInv, Own, ActionsTypeOK
<1>5. RowsAreOfPages'
  BY DEF IInv, RowsAreOfPages
<1> QED BY <1>3, <1>4, <1>5 DEF IInv

LEMMA Ending ==
  ASSUME IInv, NEW out \in {"ok", "failed", "pause", "heal"}, Ends(out)
  PROVE  /\ act' \in ActRecords /\ Seen'
         /\ act'.image = act.image /\ act'.at = "close"
BY DEF IInv, Ends, ActRecords, Seen

LEMMA Abandoning ==
  ASSUME IInv, NEW out \in {"ok", "failed", "pause", "heal"}, Abandons(out)
  PROVE  /\ act' \in ActRecords /\ Seen' /\ left' \subseteq AllVerbs
         /\ act'.image \in {0, act.image} /\ act'.at = "close"
<1>0. left \subseteq AllVerbs /\ act.verb \in AllVerbs
  BY DEF IInv, ActionsTypeOK
<1>1. CASE act.verb = "capture" /\ act.tab = "open" /\ out # "ok"
  BY <1>0, <1>1, NoActShape DEF Abandons, Seen, NoAct, ActRecords
<1>2. CASE ~(act.verb = "capture" /\ act.tab = "open" /\ out # "ok")
  <2>1. Ends(out) /\ left' = left
    BY <1>2 DEF Abandons
  <2> QED BY <1>0, <2>1, Ending
<1> QED BY <1>1, <1>2

LEMMA BeginStep == ASSUME IInv, UNCHANGED <<plan, asked>>, Begin PROVE IInv'
<1>1. todo \in Seq(plan.verbs) /\ todo # <<>> /\ Len(todo) <= asked /\ asked \in Nat
      /\ plan.verbs \subseteq AllVerbs
  <2>1. plan \in Plans /\ plan.actions \in Nat /\ plan.verbs \subseteq AllVerbs
    BY PlanFacts DEF IInv, ActionsTypeOK
  <2> QED BY <2>1 DEF IInv, ActionsTypeOK, Begin
<1>2. Head(todo) \in AllVerbs /\ Tail(todo) \in Seq(plan.verbs) /\ Len(Tail(todo)) <= asked
  BY <1>1, HeadTailProperties
<1>3. NoAct.image = 0 /\ NoAct.out = "none"
  BY DEF NoAct
<1>4. act' \in ActRecords /\ act'.image = 0 /\ act'.at \in {"open", "close"}
  <2> DEFINE a == [NoAct EXCEPT !.verb = Head(todo)]
  <2>0. a \in ActRecords /\ a.image = 0
    BY <1>2, <1>3, NoActShape DEF ActRecords
  <2>1. CASE act' = [a EXCEPT !.at = "open"]
    BY <2>0, <2>1 DEF ActRecords
  <2>2. CASE \E out \in {"ok", "failed", "heal"} : act' = [a EXCEPT !.at = "close", !.out = out]
    BY <2>0, <2>2 DEF ActRecords
  <2> HIDE DEF a
  <2> QED BY <2>1, <2>2 DEF Begin, a
<1>5. Seen'
  BY <1>4 DEF Seen
<1>6. UNCHANGED <<rows, images, wall, left, upsets>> /\ todo' = Tail(todo)
      /\ picture' \in {"none", "old"}
  BY DEF Begin, actDurable
<1> QED BY <1>2, <1>4, <1>5, <1>6, QuietStep DEF IInv, ActionsTypeOK

LEMMA OpenedStep == ASSUME IInv, UNCHANGED <<plan, asked>>, Opened PROVE IInv'
<1>1. act \in ActRecords /\ act.at = "open" /\ act.image = 0
  BY DEF IInv, Own, Opened
<1>2. PICK w \in {"check", "read"}, page \in PageKinds, tab \in {"open", "lost"} :
        /\ act' = [act EXCEPT !.at = w, !.tab = tab, !.page = page]
        /\ w = "check" \/ act.verb \notin Checked
  BY DEF Opened
<1>3. act' \in ActRecords /\ act'.image = 0
  BY <1>1, <1>2 DEF ActRecords
<1>4. Seen'
  BY <1>1, <1>2 DEF Seen, ActRecords
<1>5. /\ UNCHANGED <<rows, images, wall, todo, picture>> /\ (Upset \/ upsets' = upsets)
      /\ left' \subseteq left \cup {act.verb}
  BY DEF Opened, actDurable
<1> QED BY <1>3, <1>4, <1>5, QuietStep DEF IInv, ActionsTypeOK

LEMMA OpenFailsStep == ASSUME IInv, UNCHANGED <<plan, asked>>, OpenFails PROVE IInv'
<1>1. act.image = 0 /\ act.verb \in AllVerbs
  BY DEF IInv, Own, OpenFails, ActionsTypeOK
<1>2. act' \in ActRecords /\ Seen' /\ act'.image = 0
  BY <1>1, Ending DEF OpenFails
<1>3. /\ UNCHANGED <<rows, images, wall, todo, picture>> /\ Upset
      /\ left' \subseteq left \cup {act.verb}
  BY DEF OpenFails, actDurable
<1> QED BY <1>1, <1>2, <1>3, QuietStep DEF IInv, ActionsTypeOK

LEMMA CheckStep == ASSUME IInv, UNCHANGED <<plan, asked>>, Check PROVE IInv'
<1>1. act \in ActRecords /\ act.at = "check" /\ act.image = 0 /\ act.page \in PageKinds
  BY DEF IInv, Own, Check, ActRecords
<1>2. /\ UNCHANGED <<rows, images, todo, picture, left>> /\ (Upset \/ upsets' = upsets)
      /\ wall' \in {"none", "login", "captcha"}
  BY <1>1 DEF Check, IInv, ActionsTypeOK, PageKinds
<1>3. act' \in ActRecords /\ Seen' /\ act'.image = 0
  <2>1. CASE (act.page = "asked" \/ act.tab = "lost") /\ act' = [act EXCEPT !.at = "read"]
    BY <1>1, <2>1 DEF ActRecords, Seen
  <2>2. CASE Ends(IF act.page = "login" THEN "failed" ELSE "pause")
    BY <1>1, <2>2, Ending
  <2>3. CASE act' = [act EXCEPT !.at = "read", !.unsure = TRUE]
    BY <1>1, <2>3 DEF ActRecords, Seen
  <2> QED BY <2>1, <2>2, <2>3 DEF Check
<1> QED BY <1>2, <1>3, QuietStep DEF IInv, ActionsTypeOK

LEMMA ReadStep == ASSUME IInv, UNCHANGED <<plan, asked>>, Read PROVE IInv'
<1>1. act \in ActRecords /\ act.at = "read" /\ act.image = 0
  BY DEF IInv, Own, Read
<1>2. UNCHANGED <<rows, images, wall, todo, picture, left, upsets>>
  BY DEF Read, actDurable
<1>3. act' \in ActRecords /\ Seen' /\ act'.image = 0
  <2>1. CASE Ends("failed")
    BY <1>1, <2>1, Ending
  <2>2. CASE Extracted
    <3>1. PICK w \in {"shoot", "store"} : act' = [act EXCEPT !.at = w]
      BY <2>2 DEF Extracted
    <3> QED BY <1>1, <3>1 DEF ActRecords, Seen, IInv
  <2> QED BY <2>1, <2>2 DEF Read
<1> QED BY <1>2, <1>3, QuietStep DEF IInv, ActionsTypeOK

LEMMA ShootStep == ASSUME IInv, UNCHANGED <<plan, asked>>, Shoot PROVE IInv'
<1>1. act \in ActRecords /\ act.at = "shoot" /\ act.image = 0 /\ images \in Nat
  BY DEF IInv, Own, Shoot, ActionsTypeOK
<1>2. UNCHANGED <<rows, wall, todo>>
  BY DEF Shoot
<1>3. CASE /\ picture' = "last" /\ images' = images + 1
           /\ act' = [act EXCEPT !.at = "store", !.image = images + 1]
           /\ UNCHANGED <<left, upsets>>
  <2>1. act' \in ActRecords /\ act'.at = "store" /\ act'.image = images + 1
    <3>1. images + 1 \in Nat
      BY <1>1
    <3> QED BY <1>1, <1>3, <3>1 DEF ActRecords
  <2>2. Seen'
    BY <1>1, <1>3 DEF Seen, IInv, ActRecords
  <2>3. \A r \in rows : r.image \in 0..images
    BY DEF IInv, ActionsTypeOK
  <2>4. Own'
    BY <1>1, <1>2, <1>3, <2>1, <2>3 DEF Own
  <2>5. RowsAreOfPages'
    BY <1>1, <1>2, <1>3, <2>3 DEF IInv, RowsAreOfPages
  <2>6. rows' \subseteq [verb : AllVerbs, page : PageKinds, lost : BOOLEAN, unsure : BOOLEAN,
                         image : 0..images']
    <3>1. images + 1 \in Nat /\ images <= images + 1
      BY <1>1
    <3> QED BY <1>1, <1>2, <1>3, <3>1, MoreImages DEF IInv, ActionsTypeOK
  <2>7. act'.verb \in AllVerbs /\ act'.tab \in {"none", "open", "lost"}
        /\ act'.out \in {"none", "ok", "failed", "pause", "heal"}
    BY <2>1 DEF ActRecords
  <2>8. images' \in Nat /\ plan' \in Plans /\ upsets' \in 0..plan'.upsets
    BY <1>1, <1>3 DEF IInv, ActionsTypeOK
  <2>9. ActionsTypeOK'
    BY <1>2, <1>3, <2>1, <2>6, <2>7, <2>8 DEF IInv, ActionsTypeOK
  <2> QED BY <2>1, <2>2, <2>4, <2>5, <2>9 DEF IInv
<1>4. CASE picture' = "last" /\ Upset /\ Abandons("heal") /\ UNCHANGED images
  BY <1>1, <1>2, <1>4, Abandoning, QuietStep DEF IInv, ActionsTypeOK
<1>5. CASE /\ UNCHANGED upsets \/ Upset
           /\ act' = [act EXCEPT !.at = "store"] /\ UNCHANGED <<picture, images, left>>
  <2>1. act' \in ActRecords /\ Seen' /\ act'.image = 0
    BY <1>1, <1>5 DEF ActRecords, Seen, IInv
  <2> QED BY <1>1, <1>2, <1>5, <2>1, QuietStep DEF IInv, ActionsTypeOK
<1> QED BY <1>3, <1>4, <1>5 DEF Shoot

LEMMA StoreStep == ASSUME IInv, UNCHANGED <<plan, asked>>, Store PROVE IInv'
<1>1. act \in ActRecords /\ act.at = "store" /\ images \in Nat /\ act.image <= images
      /\ act.image \in Nat
  BY DEF IInv, Own, Store, ActionsTypeOK, ActRecords
<1>2. UNCHANGED <<images, wall, todo, picture>>
  BY DEF Store
<1>3. ASSUME rows' = rows \cup {[verb |-> act.verb, page |-> act.page, lost |-> act.tab = "lost",
                                 unsure |-> act.unsure, image |-> act.image]},
             Ends("ok"), UNCHANGED <<left, upsets>>
      PROVE  IInv'
  <2> DEFINE new == [verb |-> act.verb, page |-> act.page, lost |-> act.tab = "lost",
                     unsure |-> act.unsure, image |-> act.image]
  <2>1. /\ act' \in ActRecords /\ Seen' /\ act'.image = act.image /\ act'.at = "close"
    BY <1>3, Ending
  <2>2. new \in [verb : AllVerbs, page : PageKinds, lost : BOOLEAN, unsure : BOOLEAN,
                 image : 0..images]
    BY <1>1 DEF ActRecords
  <2>3. rows' \subseteq [verb : AllVerbs, page : PageKinds, lost : BOOLEAN, unsure : BOOLEAN,
                         image : 0..images']
    BY <1>2, <1>3, <2>2 DEF IInv, ActionsTypeOK
  <2>4. act'.verb \in AllVerbs /\ act'.tab \in {"none", "open", "lost"}
        /\ act'.out \in {"none", "ok", "failed", "pause", "heal"}
    BY <2>1 DEF ActRecords
  <2>5. ActionsTypeOK'
    BY <1>2, <1>3, <2>1, <2>3, <2>4 DEF IInv, ActionsTypeOK
  <2>6. Own'
    BY <1>1, <1>2, <2>1 DEF Own
  <2>7. new.verb \in Checked => new.page = "asked" \/ new.unsure \/ new.lost
    BY <1>1 DEF IInv, Seen
  <2>8. new.image # 0 => new.image <= images /\ \A q \in rows : q.image # new.image
    BY <1>1 DEF IInv, Own
  <2>9. RowsAreOfPages'
    <3>1. ASSUME NEW r \in rows'
          PROVE  /\ r.verb \in Checked => r.page = "asked" \/ r.unsure \/ r.lost
                 /\ r.image # 0 => r.image <= images /\ \A q \in rows' : q.image = r.image => q = r
      <4>1. CASE r \in rows
        BY <1>3, <2>8, <4>1 DEF IInv, RowsAreOfPages
      <4>2. CASE r = new
        BY <1>3, <2>7, <2>8, <4>2
      <4> QED BY <1>3, <3>1, <4>1, <4>2
    <3> QED BY <1>2, <3>1 DEF RowsAreOfPages
  <2> QED BY <2>1, <2>5, <2>6, <2>9 DEF IInv
<1>4. ASSUME Upset, Abandons("heal"), UNCHANGED rows
      PROVE  IInv'
  BY <1>1, <1>2, <1>4, Abandoning, QuietStep DEF IInv, ActionsTypeOK
<1> QED BY <1>3, <1>4 DEF Store

LEMMA ClosedStep == ASSUME IInv, UNCHANGED <<plan, asked>>, Closed PROVE IInv'
<1>1. act' = NoAct /\ UNCHANGED <<rows, images, wall, todo, picture, left, upsets>>
  BY DEF Closed, actDurable
<1>2. act' \in ActRecords /\ Seen' /\ act'.image = 0
  BY <1>1, NoActShape DEF NoAct, Seen
<1> QED BY <1>1, <1>2, QuietStep DEF IInv, ActionsTypeOK

LEMMA TabLostStep == ASSUME IInv, UNCHANGED <<plan, asked>>, TabLost PROVE IInv'
<1>1. /\ act' = [act EXCEPT !.tab = "lost"] /\ Upset
      /\ UNCHANGED <<rows, images, wall, todo, picture, left>>
  BY DEF TabLost, actDurable
<1>2. act' \in ActRecords /\ Seen' /\ act'.image = act.image /\ act'.at = act.at
  BY <1>1 DEF ActRecords, Seen, IInv
<1>3. act.at \notin {"store", "close"} => act.image = 0
  BY DEF IInv, Own
<1> QED BY <1>1, <1>2, <1>3, QuietStep DEF IInv, ActionsTypeOK

LEMMA ActionStepKeeps == ASSUME IInv, ActionStep PROVE IInv'
BY BeginStep, OpenedStep, OpenFailsStep, CheckStep, ReadStep, ShootStep, StoreStep, ClosedStep,
   TabLostStep DEF ActionStep

-----------------------------------------------------------------------------
(* The steps of the runner *)

\* A runner that lets go of its batch, whatever it does otherwise.
LEMMA DropStep ==
  ASSUME IInv, Drops, UNCHANGED <<plan, asked, rows, images, wall>>, Upset \/ upsets' = upsets,
         picture' \in {"none", picture}, left' \subseteq left
  PROVE  IInv'
<1>1. act' = NoAct /\ todo' = <<>>
  BY DEF Drops
<1>2. act' \in ActRecords /\ Seen' /\ act'.image = 0
  BY <1>1, NoActShape DEF NoAct, Seen
<1>3. asked \in Nat /\ todo' \in Seq(plan.verbs) /\ Len(todo') <= asked
  <2>1. plan.actions \in Nat
    BY PlanFacts DEF IInv, ActionsTypeOK
  <2>2. asked \in Nat
    BY <2>1 DEF IInv, ActionsTypeOK
  <2> QED BY <1>1, <2>2
<1> QED BY <1>2, <1>3, QuietStep DEF IInv, ActionsTypeOK

\* A step that leaves the actions alone, but for a fault it may have met.
LEMMA IdleStep ==
  ASSUME IInv, UNCHANGED actStill, Upset \/ upsets' = upsets
  PROVE  IInv'
<1>1. UNCHANGED <<plan, rows, images, wall, asked, todo, act, picture, left>>
  BY DEF actStill
<1>2. plan' \in Plans /\ upsets' \in 0..plan'.upsets
  BY <1>1, UpsetTypes DEF IInv
<1>3. ActionsTypeOK'
  BY <1>1, <1>2 DEF IInv, ActionsTypeOK
<1> QED BY <1>1, <1>3 DEF IInv, Seen, Own, RowsAreOfPages

LEMMA HealStep ==
  ASSUME IInv, NEW ls, NEW lost, Heals(ls, lost),
         UNCHANGED <<plan, asked, rows, images, wall, left>>, Upset \/ upsets' = upsets
  PROVE  IInv'
<1>1. Drops /\ picture' \in {"none", picture}
  BY DEF Heals, Stops
<1> QED BY <1>1, DropStep

LEMMA CloseStep ==
  ASSUME IInv, Close, UNCHANGED <<plan, asked, rows, images, wall, left, upsets>>
  PROVE  IInv'
<1>1. CASE Len(decisions) + 1 = Phases
  BY <1>1, DropStep DEF Close, Stops
<1>2. CASE Len(decisions) + 1 # Phases
  BY <1>2, IdleStep DEF Close, actStill
<1> QED BY <1>1, <1>2

LEMMA RepliedStep == ASSUME IInv, Replied PROVE IInv'
<1>1. PICK n \in 0..(plan.actions - asked) : asked' = asked + n /\ todo' \in [1..n -> plan.verbs]
  BY DEF Replied
<1>2. UNCHANGED <<plan, rows, images, wall, act, picture, left, upsets>>
  BY DEF Replied, actDurable
<1>3. plan.actions \in Nat /\ asked \in 0..plan.actions
  BY PlanFacts DEF IInv, ActionsTypeOK
<1>4. n \in Nat /\ asked' \in 0..plan.actions
  BY <1>1, <1>3
<1>5. todo' \in Seq(plan.verbs) /\ Len(todo') = n
  BY <1>1, <1>4
<1>6. Len(todo') <= asked'
  BY <1>1, <1>3, <1>4, <1>5
<1>7. ActionsTypeOK'
  BY <1>2, <1>4, <1>5, <1>6 DEF IInv, ActionsTypeOK
<1> QED BY <1>2, <1>7 DEF IInv, Seen, Own, RowsAreOfPages

-----------------------------------------------------------------------------
(* Lemmas: ids in order *)

\* Induction over the numbers, with a set for the property.
LEMMA SetInduction ==
  ASSUME NEW S, 0 \in S, \A n \in Nat : n \in S => n + 1 \in S
  PROVE  \A n \in Nat : n \in S
<1> SUFFICES ASSUME NEW n \in Nat, n \notin S PROVE FALSE
  OBVIOUS
<1> DEFINE missing == {m \in 0..n : m \notin S}
           T == {0..m : m \in missing}
<1>1. IsFiniteSet(0..n)
  BY FS_Interval
<1>2. IsWellFoundedOn(StrictSubsetOrdering(0..n), SUBSET (0..n))
  BY <1>1, FS_StrictSubsetOrderingWellFounded, FS_FiniteSubsetsOfFinite
<1>3. T \subseteq SUBSET (0..n) /\ 0..n \in T
  OBVIOUS
<1>4. PICK x \in T : \A y \in T : <<y, x>> \notin StrictSubsetOrdering(0..n)
  <2> HIDE DEF T
  <2> QED BY <1>2, <1>3, WFMin
<1>5. PICK m \in missing : x = 0..m
  OBVIOUS
<1>6. m \in Nat /\ m # 0 /\ m - 1 \in missing
  <2>1. m \in 0..n /\ m \notin S
    OBVIOUS
  <2>2. m # 0 /\ m - 1 \in 0..n /\ m = (m - 1) + 1
    BY <2>1
  <2> QED BY <2>1, <2>2
<1>7. 0..(m - 1) \in T
  BY <1>6
<1>8. 0..(m - 1) \subseteq 0..m /\ m \in 0..m /\ m \notin 0..(m - 1)
  BY <1>6
<1>9. <<0..(m - 1), x>> \in StrictSubsetOrdering(0..n)
  <2> HIDE DEF T
  <2>1. 0..(m - 1) \in SUBSET (0..n) /\ x \in SUBSET (0..n)
    BY <1>3, <1>7
  <2> QED BY <1>5, <1>8, <2>1 DEF StrictSubsetOrdering
<1> QED BY <1>4, <1>7, <1>9

\* A sequence that rises.
Rising(s) == \A i, j \in DOMAIN s : i < j => s[i] < s[j]

\* The first n ids, or some of them, can be put in order.
LEMMA InOrderExists ==
  ASSUME NEW n \in Nat, NEW ids \in SUBSET (1..n)
  PROVE  \E s \in [1..Cardinality(ids) -> ids] : Rising(s)
<1> DEFINE S == {k \in Nat : \A T \in SUBSET (1..k) : \E s \in [1..Cardinality(T) -> T] : Rising(s)}
<1>1. 0 \in S
  <2> SUFFICES ASSUME NEW T \in SUBSET (1..0)
               PROVE  \E s \in [1..Cardinality(T) -> T] : Rising(s)
    OBVIOUS
  <2>1. T = {}
    OBVIOUS
  <2>0. Cardinality(T) = 0
    BY <2>1, FS_EmptySet
  <2> DEFINE s == [i \in 1..0 |-> CHOOSE x \in T : TRUE]
  <2>2. s \in [1..0 -> {}] /\ DOMAIN s = {}
    OBVIOUS
  <2> HIDE DEF s
  <2> QED BY <2>0, <2>1, <2>2 DEF Rising
<1>2. ASSUME NEW k \in Nat, k \in S PROVE k + 1 \in S
  <2> SUFFICES ASSUME NEW T \in SUBSET (1..(k + 1))
               PROVE  \E s \in [1..Cardinality(T) -> T] : Rising(s)
    OBVIOUS
  <2> DEFINE U == T \ {k + 1}
  <2>1. U \in SUBSET (1..k) /\ \A x \in U : x < k + 1
    OBVIOUS
  <2>2. PICK s \in [1..Cardinality(U) -> U] : Rising(s)
    <3>1. \A V \in SUBSET (1..k) : \E s \in [1..Cardinality(V) -> V] : Rising(s)
      BY <1>2
    <3> HIDE DEF U
    <3> QED BY <2>1, <3>1
  <2>3. CASE k + 1 \notin T
    <3>1. U = T
      BY <2>3
    <3> HIDE DEF U
    <3> QED BY <2>2, <3>1
  <2>4. CASE k + 1 \in T
    <3>1. IsFiniteSet(T) /\ IsFiniteSet(U)
      <4>1. IsFiniteSet(1..(k + 1)) /\ U \in SUBSET (1..(k + 1))
        BY FS_Interval
      <4> HIDE DEF U
      <4> QED BY <4>1, FS_Subset
    <3>2. T = U \cup {k + 1} /\ k + 1 \notin U
      BY <2>4
    <3> HIDE DEF U
    <3> DEFINE c == Cardinality(U)
               t == [i \in 1..(c + 1) |-> IF i = c + 1 THEN k + 1 ELSE s[i]]
    <3>3. Cardinality(T) = c + 1 /\ c \in Nat
      BY <3>1, <3>2, FS_AddElement, FS_CardinalityType
    <3>4. t \in [1..(c + 1) -> T]
      BY <2>2, <3>2, <3>3
    <3>5. \A i \in 1..c : i \in DOMAIN s /\ s[i] \in U /\ s[i] < k + 1 /\ t[i] = s[i]
      <4> SUFFICES ASSUME NEW i \in 1..c
                   PROVE  i \in DOMAIN s /\ s[i] \in U /\ s[i] < k + 1 /\ t[i] = s[i]
        OBVIOUS
      <4>1. i \in DOMAIN s /\ s[i] \in U
        BY <2>2
      <4>2. i \in 1..(c + 1) /\ i # c + 1
        BY <3>3
      <4>3. t[i] = s[i]
        BY <4>2
      <4> QED BY <2>1, <4>1, <4>3
    <3>6. DOMAIN t = 1..(c + 1) /\ t[c + 1] = k + 1
      BY <3>3
    <3>7. ASSUME NEW i \in 1..(c + 1), NEW j \in 1..(c + 1), i < j PROVE t[i] < t[j]
      <4>1. i \in 1..c /\ (j \in 1..c \/ j = c + 1)
        BY <3>3, <3>7
      <4> HIDE DEF t
      <4>2. CASE j \in 1..c
        BY <2>2, <3>5, <3>7, <4>1, <4>2 DEF Rising
      <4>3. CASE j = c + 1
        BY <3>5, <3>6, <4>1, <4>3
      <4> QED BY <4>1, <4>2, <4>3
    <3> HIDE DEF t, c
    <3> QED BY <3>3, <3>4, <3>6, <3>7 DEF Rising
  <2> QED BY <2>3, <2>4
<1>3. n \in S
  <2> HIDE DEF S
  <2> QED BY <1>1, <1>2, SetInduction
<1> QED BY <1>3

\* Putting ids in order loses none of them.
LEMMA InOrderFacts ==
  ASSUME NEW n \in Nat, NEW ids \in SUBSET (1..n)
  PROVE  InOrder(ids) \in Seq(ids) /\ Rising(InOrder(ids)) /\ Range(InOrder(ids)) = ids
<1> DEFINE s == InOrder(ids)
<1>1. s \in [1..Cardinality(ids) -> ids] /\ Rising(s)
  BY InOrderExists DEF InOrder, Rising
<1>2. IsFiniteSet(ids) /\ Cardinality(ids) \in Nat
  <2>1. IsFiniteSet(1..n)
    BY FS_Interval
  <2>2. IsFiniteSet(ids)
    BY <2>1, FS_Subset
  <2> QED BY <2>2, FS_CardinalityType
<1>3. IsFiniteSet(1..Cardinality(ids)) /\ Cardinality(1..Cardinality(ids)) = Cardinality(ids)
  BY <1>2, FS_Interval
<1> HIDE DEF s
<1>4. s \in Injection(1..Cardinality(ids), ids)
  <2> SUFFICES ASSUME NEW i \in 1..Cardinality(ids), NEW j \in 1..Cardinality(ids), s[i] = s[j]
               PROVE  i = j
    BY <1>1 DEF Injection, IsInjective
  <2>0. i \in Nat /\ j \in Nat
    BY <1>2
  <2>1. s[i] \in ids /\ s[j] \in ids /\ ids \subseteq Nat
    BY <1>1
  <2>2. ~(i < j) /\ ~(j < i)
    <3>1. DOMAIN s = 1..Cardinality(ids)
      BY <1>1
    <3>2. i < j => s[i] < s[j]
      BY <1>1, <3>1 DEF Rising
    <3>3. j < i => s[j] < s[i]
      BY <1>1, <3>1 DEF Rising
    <3>4. s[i] \in Nat /\ s[i] = s[j]
      BY <2>1
    <3> QED BY <3>2, <3>3, <3>4
  <2> QED BY <2>0, <2>2
<1>5. s \in Surjection(1..Cardinality(ids), ids)
  BY <1>2, <1>3, <1>4, FS_Injection
<1>6. Range(s) = ids
  BY <1>1, <1>5 DEF Range, Surjection
<1>7. s \in Seq(ids)
  <2>1. \A c \in Nat : s \in [1..c -> ids] => s \in Seq(ids)
    OBVIOUS
  <2> QED BY <1>1, <1>2, <2>1
<1> QED BY <1>1, <1>6, <1>7 DEF s

-----------------------------------------------------------------------------
(* What the runner knows of the notes *)

NoteRows == [size : Nat, target : Nat, delivered : BOOLEAN]

\* The lines are in order, and no note that is still to be claimed belongs before one of them.
\* Of the notes that are delivered, a runner that has read the journal has every one in its
\* lines or has lost it.
Lined ==
  /\ notes \in Seq(NoteRows) /\ lines \in Seq(DOMAIN notes) /\ unread \subseteq DOMAIN notes
  /\ loaded \in BOOLEAN
  /\ Rising(lines)
  /\ \A i \in Pending \ Range(lines), j \in Range(lines) : j < i
  /\ loaded => DOMAIN notes \subseteq Range(lines) \cup unread \cup Pending

\* The model is asked with these lines, of the notes posted when the prompt was built.
Prompted ==
  /\ prompt.lines \in Seq(DOMAIN notes) /\ prompt.posted \in 0..Len(notes)
  /\ pc = "asking" =>
       /\ prompt.lines = lines
       /\ \A i \in 1..prompt.posted :
            i \in Range(lines) \cup unread \/ (prompt.refused /\ ~notes[i].delivered)

\* Claiming changes no note but for its mark.
LEMMA ClaimedFacts ==
  ASSUME Lined
  PROVE  /\ Claimed \in Seq(NoteRows) /\ Len(Claimed) = Len(notes)
         /\ DOMAIN Claimed = DOMAIN notes
         /\ \A i \in DOMAIN notes : Claimed[i].delivered
<1>1. notes \in [1..Len(notes) -> NoteRows] /\ Len(notes) \in Nat /\ DOMAIN notes = 1..Len(notes)
  BY DEF Lined
<1>2. \A i \in DOMAIN notes : [notes[i] EXCEPT !.delivered = TRUE] \in NoteRows
  BY <1>1 DEF NoteRows
<1>3. Claimed \in [1..Len(notes) -> NoteRows]
  BY <1>1, <1>2 DEF Claimed
<1>4. \A n \in Nat : \A s \in [1..n -> NoteRows] : s \in Seq(NoteRows) /\ Len(s) = n
  OBVIOUS
<1>5. ASSUME NEW i \in DOMAIN notes PROVE Claimed[i].delivered
  <2>1. Claimed[i] = [notes[i] EXCEPT !.delivered = TRUE] /\ notes[i] \in NoteRows
    BY <1>1 DEF Claimed
  <2> QED BY <2>1 DEF NoteRows
<1> QED BY <1>1, <1>3, <1>4, <1>5

\* Pending notes that join the lines come after them.
LEMMA WithFacts ==
  ASSUME Lined, NEW ids \in SUBSET Pending
  PROVE  /\ With(ids) \in Seq(DOMAIN notes) /\ Rising(With(ids))
         /\ Range(With(ids)) = Range(lines) \cup ids
<1> DEFINE new == ids \ Range(lines)
           s == InOrder(new)
<1>1. Len(notes) \in Nat /\ DOMAIN notes = 1..Len(notes) /\ lines \in Seq(DOMAIN notes)
  BY DEF Lined
<1>2. new \in SUBSET (1..Len(notes))
  BY <1>1 DEF Pending
<1>3. s \in Seq(new) /\ Rising(s) /\ Range(s) = new
  <2> HIDE DEF new
  <2> QED BY <1>1, <1>2, InOrderFacts
<1>4. s \in Seq(DOMAIN notes)
  <2>1. new \subseteq DOMAIN notes
    BY <1>1, <1>2
  <2>2. \A S, T : S \subseteq T => Seq(S) \subseteq Seq(T)
    OBVIOUS
  <2> HIDE DEF s, new
  <2> QED BY <1>3, <2>1, <2>2
<1>5. With(ids) = lines \o s
  BY DEF With
<1>6. \A i \in DOMAIN lines, j \in DOMAIN s : lines[i] < s[j]
  <2>1. \A i \in new, j \in Range(lines) : j < i
    BY DEF Lined
  <2> HIDE DEF s, new
  <2> QED BY <1>3, <2>1 DEF Range
<1> HIDE DEF s, new
<1>7. /\ lines \o s \in Seq(DOMAIN notes)
      /\ DOMAIN (lines \o s) = 1..(Len(lines) + Len(s))
      /\ \A i \in DOMAIN lines : (lines \o s)[i] = lines[i]
      /\ \A i \in DOMAIN s : (lines \o s)[Len(lines) + i] = s[i]
  BY <1>1, <1>4, ConcatProperties
<1>8. /\ Len(lines) \in Nat /\ Len(s) \in Nat
      /\ DOMAIN lines = 1..Len(lines) /\ DOMAIN s = 1..Len(s)
  BY <1>1, <1>4
<1>9. \A i \in DOMAIN (lines \o s) :
        \/ i \in DOMAIN lines
        \/ \E k \in DOMAIN s : i = Len(lines) + k
  <2> SUFFICES ASSUME NEW i \in DOMAIN (lines \o s), i \notin DOMAIN lines
               PROVE  \E k \in DOMAIN s : i = Len(lines) + k
    OBVIOUS
  <2>1. i \in 1..(Len(lines) + Len(s)) /\ i \notin 1..Len(lines)
    BY <1>7, <1>8
  <2>2. i - Len(lines) \in 1..Len(s) /\ i = Len(lines) + (i - Len(lines))
    BY <1>8, <2>1
  <2> QED BY <1>8, <2>2
<1>10. Rising(lines \o s)
  <2> SUFFICES ASSUME NEW i \in DOMAIN (lines \o s), NEW j \in DOMAIN (lines \o s), i < j
               PROVE  (lines \o s)[i] < (lines \o s)[j]
    BY DEF Rising
  <2>1. CASE j \in DOMAIN lines
    <3>1. i \in DOMAIN lines
      BY <1>7, <1>8, <2>1
    <3> QED BY <1>7, <2>1, <3>1 DEF Lined, Rising
  <2>2. ASSUME NEW k \in DOMAIN s, j = Len(lines) + k PROVE (lines \o s)[i] < (lines \o s)[j]
    <3>1. CASE i \in DOMAIN lines
      BY <1>6, <1>7, <2>2, <3>1
    <3>2. ASSUME NEW m \in DOMAIN s, i = Len(lines) + m PROVE (lines \o s)[i] < (lines \o s)[j]
      <4>1. m < k
        BY <1>8, <2>2, <3>2
      <4> QED BY <1>3, <1>7, <2>2, <3>2, <4>1 DEF Rising
    <3> QED BY <1>9, <3>1, <3>2
  <2> QED BY <1>9, <2>1, <2>2
<1>11. Range(lines \o s) = Range(lines) \cup Range(s)
  <2>1. \A x \in Range(lines \o s) : x \in Range(lines) \cup Range(s)
    <3> SUFFICES ASSUME NEW i \in DOMAIN (lines \o s)
                 PROVE  (lines \o s)[i] \in Range(lines) \cup Range(s)
      BY DEF Range
    <3> QED BY <1>7, <1>9 DEF Range
  <2>2. \A i \in DOMAIN lines : i \in DOMAIN (lines \o s)
    BY <1>7, <1>8
  <2>3. \A i \in DOMAIN s : Len(lines) + i \in DOMAIN (lines \o s)
    BY <1>7, <1>8
  <2>4. \A x \in Range(lines) \cup Range(s) : x \in Range(lines \o s)
    BY <1>7, <2>2, <2>3 DEF Range
  <2> QED BY <2>1, <2>4
<1>12. Range(lines) \cup new = Range(lines) \cup ids
  BY DEF new
<1> QED BY <1>3, <1>5, <1>7, <1>10, <1>11, <1>12

\* A step that gives the runner these lines.
LEMMA LinedAfter ==
  ASSUME Lined, NEW ls \in Seq(DOMAIN notes), lines' = ls, Rising(ls),
         unread' \subseteq DOMAIN notes, loaded' \in BOOLEAN,
         \/ /\ notes' = Claimed
            /\ loaded' => DOMAIN notes \subseteq Range(ls) \cup unread'
         \/ /\ notes' = notes
            /\ \A i \in Pending \ Range(ls), j \in Range(ls) : j < i
            /\ loaded' => DOMAIN notes \subseteq Range(ls) \cup unread' \cup Pending
  PROVE  Lined' /\ DOMAIN notes' = DOMAIN notes /\ Len(notes') = Len(notes)
<1>1. CASE notes' = Claimed /\ (loaded' => DOMAIN notes \subseteq Range(ls) \cup unread')
  <2>1. /\ notes' \in Seq(NoteRows) /\ Len(notes') = Len(notes) /\ DOMAIN notes' = DOMAIN notes
        /\ \A i \in DOMAIN notes : notes'[i].delivered
    BY <1>1, ClaimedFacts
  <2>2. Pending' = {}
    BY <2>1 DEF Pending
  <2> QED BY <1>1, <2>1, <2>2 DEF Lined
<1>2. CASE /\ notes' = notes
           /\ \A i \in Pending \ Range(ls), j \in Range(ls) : j < i
           /\ loaded' => DOMAIN notes \subseteq Range(ls) \cup unread' \cup Pending
  <2>1. Pending' = Pending
    BY <1>2 DEF Pending
  <2> QED BY <1>2, <2>1 DEF Lined
<1> QED BY <1>1, <1>2

\* No lines at all.
LEMMA NoLines ==
  \A S : <<>> \in Seq(S) /\ Rising(<<>>) /\ Range(<<>>) = {} /\ Len(<<>>) = 0
BY DEF Rising, Range

LEMMA NoPromptFacts == NoPrompt.lines = <<>> /\ NoPrompt.posted = 0
BY DEF NoPrompt

\* A prompt stays what it is while notes are posted, and is gone when the iteration is.
LEMMA PromptStill ==
  ASSUME Lined, Prompted, DOMAIN notes \subseteq DOMAIN notes', notes' \in Seq(NoteRows),
         pc' = "asking" =>
           /\ pc = "asking" /\ prompt' = prompt /\ UNCHANGED <<lines, unread>>
           /\ \A i \in DOMAIN notes : notes'[i] = notes[i],
         prompt' = prompt \/ prompt' = NoPrompt
  PROVE  Prompted'
<1>1. Len(notes) \in Nat /\ Len(notes') \in Nat /\ DOMAIN notes = 1..Len(notes)
      /\ DOMAIN notes' = 1..Len(notes')
  BY DEF Lined
<1>2. Len(notes) <= Len(notes')
  BY <1>1
<1>3. prompt'.lines \in Seq(DOMAIN notes') /\ prompt'.posted \in 0..Len(notes')
  <2>1. CASE prompt' = prompt
    <3>1. prompt.lines \in Seq(DOMAIN notes) /\ prompt.posted \in 0..Len(notes)
      BY DEF Prompted
    <3>2. \A s \in Seq(DOMAIN notes) : s \in Seq(DOMAIN notes')
      OBVIOUS
    <3> QED BY <1>1, <1>2, <2>1, <3>1, <3>2
  <2>2. CASE prompt' = NoPrompt
    BY <1>1, <2>2, NoPromptFacts, NoLines
  <2> QED BY <2>1, <2>2
<1>4. CASE pc' = "asking"
  <2>1. /\ prompt' = prompt /\ lines' = lines /\ unread' = unread /\ prompt.lines = lines
        /\ \A i \in 1..prompt.posted :
             i \in Range(lines) \cup unread \/ (prompt.refused /\ ~notes[i].delivered)
    BY <1>4 DEF Prompted
  <2>2. \A i \in 1..prompt.posted : i \in DOMAIN notes
    BY <1>1 DEF Prompted
  <2> QED BY <1>3, <1>4, <2>1, <2>2 DEF Prompted
<1> QED BY <1>3, <1>4 DEF Prompted
-----------------------------------------------------------------------------
(* The notes, step by step *)

\* A step without a note and without a claim.
LEMMA NotesStill ==
  ASSUME Lined, Prompted, UNCHANGED <<notes, lines, loaded, unread>>,
         pc' = "asking" => pc = "asking" /\ prompt' = prompt,
         prompt' = prompt \/ prompt' = NoPrompt
  PROVE  Lined' /\ Prompted'
<1>1. Lined'
  BY DEF Lined, Pending
<1>2. Prompted'
  BY PromptStill DEF Lined
<1> QED BY <1>1, <1>2

\* A run that stops.
LEMMA StopsNoted == ASSUME Lined, Prompted, Stops, notes' = notes PROVE Lined' /\ Prompted'
<1>1. lines' = <<>> /\ loaded' = FALSE /\ unread' = {} /\ prompt' = NoPrompt /\ pc' = "off"
  BY DEF Stops, Forgets
<1>2. Lined'
  BY <1>1, NoLines, LinedAfter
<1>3. Prompted'
  BY <1>1, PromptStill DEF Lined
<1> QED BY <1>2, <1>3

LEMMA PostNoted == ASSUME Lined, Prompted, Post PROVE Lined' /\ Prompted'
<1>1. PICK k \in Kinds :
        notes' = Append(notes, [size |-> k.size, target |-> k.target, delivered |-> FALSE])
  BY DEF Post
<1>2. UNCHANGED <<pc, lines, loaded, unread, prompt>>
  BY DEF Post, talk
<1>3. [size |-> k.size, target |-> k.target, delivered |-> FALSE] \in NoteRows
  BY GuidanceAssumption DEF NoteRows
<1>4. /\ notes' \in Seq(NoteRows) /\ Len(notes') = Len(notes) + 1
      /\ \A i \in 1..Len(notes) : notes'[i] = notes[i]
      /\ notes'[Len(notes) + 1] = [size |-> k.size, target |-> k.target, delivered |-> FALSE]
  BY <1>1, <1>3, AppendProperties DEF Lined
<1>5. /\ Len(notes) \in Nat /\ DOMAIN notes = 1..Len(notes)
      /\ DOMAIN notes' = DOMAIN notes \cup {Len(notes) + 1}
  BY <1>4 DEF Lined
<1>6. ~notes'[Len(notes) + 1].delivered
  BY <1>4
<1>7. Pending' = Pending \cup {Len(notes) + 1}
  BY <1>4, <1>5, <1>6 DEF Pending
<1>8. Lined'
  <2>1. lines' \in Seq(DOMAIN notes')
    <3>1. \A s \in Seq(DOMAIN notes) : s \in Seq(DOMAIN notes')
      BY <1>5
    <3> QED BY <1>2, <3>1 DEF Lined
  <2>2. unread' \subseteq DOMAIN notes' /\ loaded' \in BOOLEAN /\ Rising(lines')
    BY <1>2, <1>5 DEF Lined
  <2>3. \A j \in Range(lines) : j < Len(notes) + 1
    BY <1>5 DEF Lined, Range
  <2>4. \A i \in Pending' \ Range(lines'), j \in Range(lines') : j < i
    BY <1>2, <1>7, <2>3 DEF Lined
  <2>5. loaded' => DOMAIN notes' \subseteq Range(lines') \cup unread' \cup Pending'
    BY <1>2, <1>5, <1>7 DEF Lined
  <2> QED BY <1>4, <2>1, <2>2, <2>4, <2>5 DEF Lined
<1>9. Prompted'
  BY <1>2, <1>4, <1>5, PromptStill
<1> QED BY <1>8, <1>9

LEMMA EnterNoted == ASSUME Lined, Prompted, Enter PROVE Lined' /\ Prompted'
<1>1. UNCHANGED <<loaded, unread, prompt>> /\ pc' # "asking" /\ unread \subseteq DOMAIN notes
      /\ loaded \in BOOLEAN
  BY DEF Enter, Lined
<1>2. CASE notes' = notes /\ lines' = lines
  BY <1>1, <1>2, NotesStill
<1>3. CASE notes' = Claimed /\ lines' = Taken
  <2>1. /\ Taken \in Seq(DOMAIN notes) /\ Rising(Taken)
        /\ Range(Taken) = Range(lines) \cup Pending
    BY WithFacts DEF Taken
  <2>2. loaded' => DOMAIN notes \subseteq Range(Taken) \cup unread'
    BY <1>1, <2>1 DEF Lined
  <2>3. Lined' /\ DOMAIN notes' = DOMAIN notes
    BY <1>1, <1>3, <2>1, <2>2, LinedAfter
  <2>4. Prompted'
    BY <1>1, <2>3, PromptStill DEF Lined
  <2> QED BY <2>3, <2>4
<1> QED BY <1>2, <1>3 DEF Enter

\* The run goes on, or stops, after an error.
LEMMA HealsNoted ==
  ASSUME Lined, Prompted, NEW ls \in Seq(DOMAIN notes), Rising(ls),
         NEW lost \in SUBSET (DOMAIN notes), Heals(ls, lost), notes' = Claimed,
         DOMAIN notes \subseteq Range(ls) \cup lost \/ ~loaded
  PROVE  Lined' /\ Prompted'
<1>1. CASE Stops
  <2>1. lines' = <<>> /\ loaded' = FALSE /\ unread' = {} /\ prompt' = NoPrompt /\ pc' = "off"
    BY <1>1 DEF Stops, Forgets
  <2>2. Lined' /\ DOMAIN notes' = DOMAIN notes
    BY <2>1, NoLines, LinedAfter
  <2>3. Prompted'
    BY <2>1, <2>2, PromptStill DEF Lined
  <2> QED BY <2>2, <2>3
<1>2. CASE heals # MaxHeals
  <2>1. lines' = ls /\ loaded' = loaded /\ unread' = lost /\ prompt' = NoPrompt /\ pc' = "enter"
    BY <1>2 DEF Heals
  <2>2. Lined' /\ DOMAIN notes' = DOMAIN notes
    BY <2>1, LinedAfter DEF Lined
  <2>3. Prompted'
    BY <2>1, <2>2, PromptStill DEF Lined
  <2> QED BY <2>2, <2>3
<1> QED BY <1>1, <1>2 DEF Heals

LEMMA StumbleNoted == ASSUME Lined, Prompted, StumbleInTake PROVE Lined' /\ Prompted'
<1>1. PICK i \in Pending : Heals(With({j \in Pending : j <= i}), unread \cup {j \in Pending : j > i})
  BY DEF StumbleInTake
<1> DEFINE first == {j \in Pending : j <= i}
           lost == unread \cup {j \in Pending : j > i}
<1>2. notes' = Claimed /\ Pending \subseteq DOMAIN notes /\ unread \subseteq DOMAIN notes
  BY DEF StumbleInTake, Pending, Lined
<1>3. first \in SUBSET Pending /\ lost \in SUBSET (DOMAIN notes)
  BY <1>2
<1>4. Pending \subseteq first \cup lost
  <2>1. \A j \in Pending : j \in Nat
    BY <1>2 DEF Lined
  <2> QED BY <2>1
<1>5. Heals(With(first), lost)
  BY <1>1
<1>6. unread \subseteq lost
  OBVIOUS
<1> HIDE DEF first, lost
<1>7. With(first) \in Seq(DOMAIN notes) /\ Rising(With(first))
      /\ Range(With(first)) = Range(lines) \cup first
  BY <1>3, WithFacts
<1>8. DOMAIN notes \subseteq Range(With(first)) \cup lost \/ ~loaded
  BY <1>4, <1>6, <1>7 DEF Lined
<1> QED BY <1>2, <1>3, <1>5, <1>7, <1>8, HealsNoted

\* The journal is the first notes.
LEMMA JournalFacts ==
  ASSUME Lined
  PROVE  /\ Journal \in Seq(DOMAIN notes) /\ Rising(Journal)
         /\ Range(Journal) = {i \in DOMAIN notes : i <= JournalLimit}
         /\ (JournalLimit + 1)..Len(notes) \subseteq DOMAIN notes
         /\ DOMAIN notes \subseteq Range(Journal) \cup ((JournalLimit + 1)..Len(notes))
<1> DEFINE c == Clipped(Len(notes), JournalLimit)
<1>1. Len(notes) \in Nat /\ DOMAIN notes = 1..Len(notes) /\ JournalLimit \in Nat
  BY GuidanceAssumption DEF Lined
<1>2. c \in Nat /\ c <= Len(notes) /\ c <= JournalLimit
      /\ \A i \in 1..Len(notes) : i <= JournalLimit => i <= c
  BY <1>1 DEF Clipped
<1>3. Journal = [i \in 1..c |-> i]
  BY DEF Journal
<1> HIDE DEF c
<1>4. Journal \in Seq(DOMAIN notes) /\ DOMAIN Journal = 1..c /\ \A i \in 1..c : Journal[i] = i
  BY <1>1, <1>2, <1>3
<1>5. Rising(Journal)
  BY <1>4 DEF Rising
<1>6. Range(Journal) = 1..c
  BY <1>4 DEF Range
<1>7. 1..c = {i \in DOMAIN notes : i <= JournalLimit}
  BY <1>1, <1>2
<1> QED BY <1>1, <1>4, <1>5, <1>6, <1>7

LEMMA AskNoted == ASSUME Lined, Prompted, Ask PROVE Lined' /\ Prompted'
<1>1. PICK refused \in BOOLEAN, blind \in (IF loaded THEN {FALSE} ELSE BOOLEAN) :
        LET taken == IF refused THEN lines ELSE Taken
            ls    == IF blind THEN <<>> ELSE Rehydrated(taken)
        IN  /\ notes' = IF refused THEN notes ELSE Claimed
            /\ lines' = ls
            /\ unread' = IF loaded THEN unread
                         ELSE IF blind THEN DOMAIN notes ELSE (JournalLimit + 1)..Len(notes)
            /\ prompt' = Composed(ls, refused)
  BY DEF Ask
<1> DEFINE taken == IF refused THEN lines ELSE Taken
           ls    == IF blind THEN <<>> ELSE Rehydrated(taken)
           lost  == IF loaded THEN unread
                    ELSE IF blind THEN DOMAIN notes ELSE (JournalLimit + 1)..Len(notes)
<1>2. /\ notes' = IF refused THEN notes ELSE Claimed
      /\ lines' = ls /\ unread' = lost /\ loaded' = TRUE
      /\ prompt'.lines = ls /\ prompt'.posted = Len(notes) /\ prompt'.refused = refused
  <2>1. /\ Composed(ls, refused).lines = ls /\ Composed(ls, refused).posted = Len(notes)
        /\ Composed(ls, refused).refused = refused
    BY DEF Composed
  <2> QED BY <1>1, <2>1 DEF Ask
<1>3. /\ Taken \in Seq(DOMAIN notes) /\ Rising(Taken)
      /\ Range(Taken) = Range(lines) \cup Pending
  BY WithFacts DEF Taken
<1>4. /\ ls \in Seq(DOMAIN notes) /\ Rising(ls) /\ lost \subseteq DOMAIN notes
      /\ \A i \in Pending \ Range(ls), j \in Range(ls) : refused => j < i
      /\ DOMAIN notes \subseteq Range(ls) \cup lost \cup (IF refused THEN Pending ELSE {})
  <2>1. CASE loaded
    <3>1. ls = taken /\ lost = unread
      BY <2>1 DEF Rehydrated
    <3>2. CASE refused
      BY <2>1, <3>1, <3>2 DEF Lined
    <3>3. CASE ~refused
      BY <1>3, <2>1, <3>1, <3>3 DEF Lined
    <3> QED BY <3>2, <3>3
  <2>2. CASE ~loaded /\ blind
    <3>1. ls = <<>> /\ lost = DOMAIN notes
      BY <2>2
    <3> HIDE DEF ls, lost
    <3> QED BY <3>1, NoLines
  <2>3. CASE ~loaded /\ ~blind
    <3>1. ls = Journal /\ lost = (JournalLimit + 1)..Len(notes)
      BY <2>3 DEF Rehydrated
    <3>2. \A i \in DOMAIN notes, j \in DOMAIN notes :
            ~(i <= JournalLimit) /\ j <= JournalLimit => j < i
      BY GuidanceAssumption DEF Lined
    <3>3. \A i \in Pending \ Range(Journal), j \in Range(Journal) : j < i
      BY <3>2, JournalFacts DEF Pending
    <3> HIDE DEF ls, lost
    <3> QED BY <3>1, <3>3, JournalFacts
  <2> QED BY <2>1, <2>2, <2>3
<1> HIDE DEF ls, lost
<1>5. Lined' /\ DOMAIN notes' = DOMAIN notes /\ Len(notes') = Len(notes)
  <2>1. CASE refused
    BY <1>2, <1>4, <2>1, LinedAfter
  <2>2. CASE ~refused
    BY <1>2, <1>4, <2>2, LinedAfter
  <2> QED BY <2>1, <2>2
<1>6. Prompted'
  <2>1. prompt'.lines \in Seq(DOMAIN notes') /\ prompt'.posted \in 0..Len(notes')
        /\ prompt'.lines = lines'
    <3>1. Len(notes) \in Nat
      BY DEF Lined
    <3> QED BY <1>2, <1>4, <1>5, <3>1
  <2>2. ASSUME NEW i \in 1..Len(notes)
        PROVE  i \in Range(lines') \cup unread' \/ (prompt'.refused /\ ~notes'[i].delivered)
    <3>1. i \in DOMAIN notes
      BY DEF Lined
    <3>2. i \in Range(ls) \cup lost \/ (refused /\ i \in Pending)
      BY <1>4, <3>1
    <3>3. refused /\ i \in Pending => prompt'.refused /\ ~notes'[i].delivered
      BY <1>2 DEF Pending
    <3> QED BY <1>2, <3>2, <3>3
  <2> QED BY <1>2, <2>1, <2>2 DEF Prompted
<1> QED BY <1>5, <1>6

LEMMA CloseNoted == ASSUME Lined, Prompted, Close, notes' = notes PROVE Lined' /\ Prompted'
<1>1. CASE Len(decisions) + 1 = Phases
  BY <1>1, StopsNoted DEF Close
<1>2. CASE Len(decisions) + 1 # Phases
  BY <1>2, NotesStill DEF Close, talk
<1> QED BY <1>1, <1>2

LEMMA NextNoted == ASSUME Lined, Prompted, [Next]_vars PROVE Lined' /\ Prompted'
<1>1. CASE UNCHANGED vars
  BY <1>1, NotesStill DEF vars, durable, talk
<1>2. CASE Rename \/ RequestPause \/ Start \/ Named \/ Repair
  BY <1>2, NotesStill DEF Rename, RequestPause, Start, Named, Repair, durable, talk
<1>3. CASE Replied \/ Acts \/ Acted \/ Unusable
  BY <1>3, NotesStill DEF Replied, Acts, Acted, Unusable, durable, talk
<1>4. CASE PauseHere \/ PauseForAuth \/ Fall
  BY <1>4, StopsNoted DEF PauseHere, PauseForAuth, Fall, durable
<1>5. CASE Forced \/ Committed
  BY <1>5, CloseNoted DEF Forced, Committed
<1>6. CASE StumbleInAction
  <2>1. Heals(lines, unread) /\ notes' = notes
    BY <1>6 DEF StumbleInAction, durable
  <2>2. CASE Stops
    BY <2>1, <2>2, StopsNoted
  <2>3. CASE heals # MaxHeals
    BY <2>1, <2>3, NotesStill DEF Heals
  <2> QED BY <2>1, <2>2, <2>3 DEF Heals
<1>7. CASE Failed
  <2>1. CASE Stops
    BY <1>7, <2>1, StopsNoted DEF Failed, durable
  <2>2. CASE streak + 1 # FailureLimit
    BY <1>7, <2>2, NotesStill DEF Failed, durable, talk
  <2> QED BY <1>7, <2>1, <2>2 DEF Failed
<1> QED BY <1>1, <1>2, <1>3, <1>4, <1>5, <1>6, <1>7, PostNoted, EnterNoted, AskNoted, StumbleNoted
        DEF Next

-----------------------------------------------------------------------------
(* How far the run has got *)

\* The phases closed: a run is over with the last of them, and no run is left then.
Phased ==
  /\ decisions \in Seq(Nat) /\ Len(decisions) <= Phases /\ over = (Len(decisions) = Phases)
  /\ over => pc = "off"
  /\ pc \in {"off", "enter", "naming", "step", "asking", "acting"}

\* What is counted stays within its limit.
Counted ==
  /\ Len(notes) <= plan.notes
  /\ saved \in 0..plan.steps /\ step \in 0..plan.steps
  /\ streak \in 0..(FailureLimit - 1) /\ attempt \in 0..Repairs /\ heals \in 0..MaxHeals
  /\ name \in {"generic", "model", "owner"} /\ seen \in {"generic", "model", "owner"}
  /\ pausing \in BOOLEAN

LEMMA LimitFacts ==
  /\ Phases \in Nat \ {0} /\ FailureLimit \in Nat \ {0} /\ Repairs \in Nat /\ MaxHeals \in Nat
  /\ \A p \in Plans : p.notes \in Nat /\ p.steps \in Nat
BY GuidanceAssumption, ActionsAssumption

LEMMA StopsPhased ==
  ASSUME Phased, Stops, UNCHANGED <<decisions, over>>
  PROVE  Phased'
BY DEF Phased, Stops, Forgets

LEMMA ClosePhased == ASSUME Phased, Close, pc # "off" PROVE Phased'
<1>1. PICK d \in Decided : decisions' = Append(decisions, d)
  BY DEF Close
<1>2. d \in Nat
  BY GuidanceAssumption
<1>3. decisions' \in Seq(Nat) /\ Len(decisions') = Len(decisions) + 1
  BY <1>1, <1>2, AppendProperties DEF Phased
<1>4. Len(decisions) \in Nat /\ Phases \in Nat
  BY LimitFacts DEF Phased
<1>5. Len(decisions) # Phases
  BY DEF Phased
<1>6. Len(decisions') <= Phases
  BY <1>3, <1>4, <1>5 DEF Phased
<1>7. over' = (Len(decisions') = Phases)
  BY <1>3 DEF Close
<1>8. CASE Len(decisions) + 1 = Phases
  <2>1. pc' = "off"
    BY <1>8 DEF Close, Stops, Forgets
  <2> QED BY <1>3, <1>6, <1>7, <2>1 DEF Phased
<1>9. CASE Len(decisions) + 1 # Phases
  <2>1. pc' = "step" /\ ~over'
    BY <1>3, <1>7, <1>9 DEF Close
  <2> QED BY <1>3, <1>6, <1>7, <2>1 DEF Phased
<1> QED BY <1>8, <1>9

LEMMA NextPhased == ASSUME Phased, [Next]_vars PROVE Phased'
<1>1. CASE UNCHANGED vars
  BY <1>1 DEF Phased, vars, durable
<1>2. CASE Post \/ Rename \/ RequestPause
  BY <1>2 DEF Phased, Post, Rename, RequestPause, durable
<1>3. CASE Start \/ Enter \/ Named \/ Ask
  BY <1>3 DEF Phased, Start, Enter, Named, Ask, durable
<1>4. CASE Replied \/ Acts \/ Acted \/ Repair \/ Unusable
  BY <1>4 DEF Phased, Replied, Acts, Acted, Repair, Unusable, durable
<1>5. CASE PauseHere \/ PauseForAuth \/ Fall
  BY <1>5, StopsPhased DEF PauseHere, PauseForAuth, Fall, durable
<1>6. CASE Forced \/ Committed
  BY <1>6, ClosePhased DEF Forced, Committed
<1>7. ASSUME NEW ls, NEW lost, Heals(ls, lost), UNCHANGED <<decisions, over>>, pc # "off"
      PROVE  Phased'
  BY <1>7, StopsPhased DEF Phased, Heals
<1>8. CASE StumbleInTake
  BY <1>7, <1>8 DEF StumbleInTake
<1>9. CASE StumbleInAction
  BY <1>7, <1>9 DEF StumbleInAction, durable
<1>10. CASE Failed
  <2>1. CASE Stops
    BY <1>10, <2>1, StopsPhased DEF Failed, durable
  <2>2. CASE pc' = "step"
    BY <1>10, <2>2 DEF Failed, durable, Phased
  <2> QED BY <1>10, <2>1, <2>2 DEF Failed
<1> QED BY <1>1, <1>2, <1>3, <1>4, <1>5, <1>6, <1>8, <1>9, <1>10 DEF Next

\* A run that stops counts from nothing.
LEMMA StopsCounted ==
  ASSUME Counted, plan \in Plans, Stops, UNCHANGED <<plan, notes, name>>, saved' \in {saved, 0}
  PROVE  Counted'
<1>1. plan.steps \in Nat /\ FailureLimit - 1 \in Nat /\ Repairs \in Nat /\ MaxHeals \in Nat
  BY LimitFacts
<1>2. step' = 0 /\ streak' = 0 /\ attempt' = 0 /\ heals' = 0 /\ seen' = "generic"
      /\ pausing' = FALSE
  BY DEF Stops, Forgets
<1>3. step' \in 0..plan'.steps /\ saved' \in 0..plan'.steps
  BY <1>1, <1>2 DEF Counted
<1>4. streak' \in 0..(FailureLimit - 1) /\ attempt' \in 0..Repairs /\ heals' \in 0..MaxHeals
  BY <1>1, <1>2
<1> QED BY <1>2, <1>3, <1>4 DEF Counted

LEMMA HealsCounted ==
  ASSUME Counted, plan \in Plans, NEW ls, NEW lost, Heals(ls, lost), UNCHANGED <<plan, name, saved>>,
         Len(notes') = Len(notes)
  PROVE  Counted'
<1>1. plan.steps \in Nat /\ FailureLimit - 1 \in Nat /\ Repairs \in Nat /\ MaxHeals \in Nat
  BY LimitFacts
<1>2. CASE Stops
  <2>1. step' = 0 /\ streak' = 0 /\ attempt' = 0 /\ heals' = 0 /\ seen' = "generic"
        /\ pausing' = FALSE
    BY <1>2 DEF Stops, Forgets
  <2>2. step' \in 0..plan'.steps /\ saved' \in 0..plan'.steps
    BY <1>1, <2>1 DEF Counted
  <2>3. streak' \in 0..(FailureLimit - 1) /\ attempt' \in 0..Repairs /\ heals' \in 0..MaxHeals
    BY <1>1, <2>1
  <2> QED BY <2>1, <2>2, <2>3 DEF Counted
<1>3. CASE heals # MaxHeals
  <2>1. step' = 0 /\ attempt' = 0 /\ heals' = heals + 1
        /\ UNCHANGED <<seen, pausing, streak>>
    BY <1>3 DEF Heals
  <2> QED BY <1>1, <1>3, <2>1 DEF Counted
<1> QED BY <1>2, <1>3 DEF Heals

LEMMA CloseCounted ==
  ASSUME Counted, plan \in Plans, Close, UNCHANGED <<plan, notes, name>>
  PROVE  Counted'
<1>1. plan.steps \in Nat /\ FailureLimit - 1 \in Nat /\ Repairs \in Nat
  BY LimitFacts
<1>2. CASE Len(decisions) + 1 = Phases
  BY <1>2, StopsCounted DEF Close
<1>3. CASE Len(decisions) + 1 # Phases
  <2>1. saved' = 0 /\ step' = 0 /\ streak' = 0 /\ attempt' = 0 /\ UNCHANGED <<heals, seen, pausing>>
    BY <1>3 DEF Close, talk
  <2> QED BY <1>1, <2>1 DEF Counted
<1> QED BY <1>2, <1>3

LEMMA NextCounted == ASSUME IInv, Lined, Counted, [Next]_vars PROVE Counted'
<1>1. plan \in Plans /\ plan.notes \in Nat /\ plan.steps \in Nat
      /\ FailureLimit - 1 \in Nat /\ FailureLimit \in Nat /\ Repairs \in Nat
  BY LimitFacts DEF IInv, ActionsTypeOK
<1>2. Len(Claimed) = Len(notes)
  BY ClaimedFacts
<1>3. CASE UNCHANGED vars
  BY <1>3 DEF Counted, vars, durable, talk, actVars, actStill
<1>4. CASE Post
  <2>1. PICK k \in Kinds :
          notes' = Append(notes, [size |-> k.size, target |-> k.target, delivered |-> FALSE])
    BY <1>4 DEF Post
  <2>2. Len(notes') = Len(notes) + 1 /\ Len(notes) \in Nat
    BY <2>1 DEF Lined
  <2>3. Len(notes') <= plan.notes
    BY <1>1, <1>4, <2>2 DEF Post
  <2> QED BY <1>4, <2>3 DEF Post, Counted, durable, talk, actVars, actStill
<1>5. CASE Rename \/ RequestPause \/ Start
  BY <1>5 DEF Counted, Rename, RequestPause, Start, durable, talk, actVars, actStill
<1>17. CASE Named
  <2>1. streak' = 0 /\ 0 \in 0..(FailureLimit - 1)
    BY <1>1, <1>17 DEF Named
  <2> QED BY <1>17, <2>1 DEF Counted, Named, durable, talk, actVars, actStill
<1>15. CASE Replied
  <2>1. streak' = 0 /\ 0 \in 0..(FailureLimit - 1)
    BY <1>1, <1>15 DEF Replied
  <2> QED BY <1>15, <2>1 DEF Counted, Replied, durable, talk
<1>16. CASE Acts
  BY <1>16 DEF Counted, Acts, durable, talk, ActionStep
<1>6. CASE Acted \/ Unusable
  BY <1>6 DEF Counted, Acted, Unusable, durable, talk, actVars, actStill
<1>7. CASE Repair
  <2>1. attempt' \in 0..Repairs
    BY <1>1, <1>7 DEF Repair, Counted
  <2> QED BY <1>7, <2>1 DEF Counted, Repair, durable, talk, actVars, actStill
<1>8. CASE Enter
  <2>1. streak' \in 0..(FailureLimit - 1)
    BY <1>1, <1>8 DEF Enter, Counted
  <2> QED BY <1>2, <1>8, <2>1 DEF Counted, Enter, actStill
<1>9. CASE Ask
  <2>1. Len(notes') = Len(notes)
    BY <1>2, <1>9 DEF Ask
  <2>2. step' \in 0..plan.steps /\ attempt' \in 0..Repairs
    BY <1>1, <1>9 DEF Ask, Counted
  <2> QED BY <1>9, <2>1, <2>2 DEF Counted, Ask, actStill
<1>10. CASE PauseHere \/ PauseForAuth \/ Fall
  BY <1>1, <1>10, StopsCounted DEF PauseHere, PauseForAuth, Fall, durable
<1>11. CASE Forced \/ Committed
  BY <1>1, <1>11, CloseCounted DEF Forced, Committed
<1>12. CASE StumbleInTake
  BY <1>1, <1>2, <1>12, HealsCounted DEF StumbleInTake
<1>13. CASE StumbleInAction
  BY <1>1, <1>13, HealsCounted DEF StumbleInAction, durable
<1>14. CASE Failed
  <2>1. CASE Stops
    BY <1>1, <1>14, <2>1, StopsCounted DEF Failed, durable
  <2>2. CASE streak + 1 # FailureLimit /\ streak' = streak + 1
    <3>1. streak' \in 0..(FailureLimit - 1)
      BY <1>1, <2>2 DEF Counted
    <3> QED BY <1>14, <2>2, <3>1 DEF Failed, Counted, durable, talk
  <2> QED BY <1>14, <2>1, <2>2 DEF Failed
<1> QED BY <1>3, <1>4, <1>5, <1>6, <1>7, <1>8, <1>9, <1>10, <1>11, <1>12, <1>13, <1>14, <1>15, <1>16,
      <1>17
        DEF Next

-----------------------------------------------------------------------------
(* The theorems *)

LEMMA InitInv == ASSUME Init PROVE IInv
<1>1. /\ plan \in Plans /\ rows = {} /\ images = 0 /\ wall = "none" /\ upsets = 0
      /\ asked = 0 /\ todo = <<>> /\ act = NoAct /\ picture = "none" /\ left = {}
  BY DEF Init, ActionsInit
<1>2. plan.actions \in Nat /\ plan.upsets \in Nat
  BY <1>1, PlanFacts
<1>3. act \in ActRecords
  BY <1>1, NoActShape
<1>4. act.verb = "note" /\ act.at = "none" /\ act.tab = "none" /\ act.image = 0 /\ act.out = "none"
  BY <1>1 DEF NoAct
<1>5. ActionsTypeOK
  BY <1>1, <1>2, <1>4 DEF ActionsTypeOK, AllVerbs, Tabless
<1> QED BY <1>1, <1>3, <1>4, <1>5 DEF IInv, Seen, Own, RowsAreOfPages

LEMMA NextInv == ASSUME IInv, [Next]_vars PROVE IInv'
<1>1. CASE UNCHANGED vars
  BY <1>1, IdleStep DEF vars, actVars
<1>2. CASE Post \/ Rename \/ RequestPause \/ Start \/ Named \/ Acted \/ Repair \/ Unusable
  BY <1>2, IdleStep DEF Post, Rename, RequestPause, Start, Named, Acted, Repair, Unusable, actVars
<1>3. CASE Enter
  BY <1>3, IdleStep DEF Enter
<1>4. CASE Ask
  <2>1. UNCHANGED actStill
    BY <1>4 DEF Ask
  <2>2. plan' \in Plans /\ upsets' \in 0..plan'.upsets
    <3>1. PICK cost \in Nat : upsets + cost <= plan.upsets /\ upsets' = upsets + cost
      <4>1. PICK refused \in BOOLEAN, blind \in BOOLEAN :
              LET cost == Cardinality({f \in {"claim", "journal"} :
                                   (f = "claim" /\ refused) \/ (f = "journal" /\ blind)})
              IN  upsets + cost <= plan.upsets /\ upsets' = upsets + cost
        BY <1>4 DEF Ask
      <4> DEFINE F == {f \in {"claim", "journal"} :
                         (f = "claim" /\ refused) \/ (f = "journal" /\ blind)}
      <4>2. IsFiniteSet({"claim", "journal"}) /\ F \subseteq {"claim", "journal"}
        <5>1. IsFiniteSet({"claim"})
          BY FS_Singleton
        <5>2. {"claim", "journal"} = {"claim"} \cup {"journal"}
          OBVIOUS
        <5> QED BY <5>1, <5>2, FS_AddElement
      <4>3. Cardinality(F) \in Nat
        BY <4>2, FS_Subset, FS_CardinalityType
      <4> QED BY <4>1, <4>3
    <3>2. upsets \in 0..plan.upsets /\ plan \in Plans /\ plan.upsets \in Nat
      BY PlanFacts DEF IInv, ActionsTypeOK
    <3> QED BY <2>1, <3>1, <3>2 DEF actStill
  <2>3. ActionsTypeOK'
    BY <2>1, <2>2 DEF IInv, ActionsTypeOK, actStill
  <2> QED BY <2>1, <2>3 DEF IInv, Seen, Own, RowsAreOfPages, actStill
<1>5. CASE StumbleInTake
  <2>1. PICK ls, lost : Heals(ls, lost)
    BY <1>5 DEF StumbleInTake
  <2> QED BY <1>5, <2>1, HealStep DEF StumbleInTake, actDurable
<1>6. CASE Forced \/ Committed
  BY <1>6, CloseStep DEF Forced, Committed, actDurable
<1>7. CASE Replied
  BY <1>7, RepliedStep
<1>8. CASE Acts
  BY <1>8, ActionStepKeeps DEF Acts
<1>9. CASE StumbleInAction
  BY <1>9, HealStep DEF StumbleInAction, actDurable
<1>10. CASE PauseHere \/ PauseForAuth
  BY <1>10, DropStep DEF PauseHere, PauseForAuth, Stops, actDurable
<1>11. CASE Failed
  <2>1. CASE streak + 1 = FailureLimit
    BY <1>11, <2>1, DropStep DEF Failed, Stops, actDurable
  <2>2. CASE streak + 1 # FailureLimit
    BY <1>11, <2>2, IdleStep DEF Failed, actDurable, actStill
  <2> QED BY <2>1, <2>2
<1>12. CASE Fall
  <2>1. left' \subseteq left
    BY <1>12 DEF Fall
  <2> QED BY <1>12, <2>1, DropStep DEF Fall, Stops, actDurable
<1> QED BY <1>1, <1>2, <1>3, <1>4, <1>5, <1>6, <1>7, <1>8, <1>9, <1>10, <1>11, <1>12 DEF Next

LEMMA Inductive == Spec => []IInv
BY InitInv, NextInv, PTL DEF Spec

\* The state of the executor is well typed: an action is at one of its awaits, a reply asks for
\* no more than the plan allows and a row's picture is one that was taken.
THEOREM ActionTypes == Spec => []ActionsTypeOK
<1>1. IInv => ActionsTypeOK
  BY DEF IInv
<1> QED BY Inductive, <1>1, PTL

\* Every row of a checked handler is of the page it asked for, unless the classifier failed on
\* it or its tab was taken away; and no two rows claim one picture.
THEOREM Pages == Spec => []RowsAreOfPages
<1>1. IInv => RowsAreOfPages
  BY DEF IInv
<1> QED BY Inductive, <1>1, PTL

NotesInv == IInv /\ Lined /\ Prompted /\ Phased /\ Counted

LEMMA InitNotes == ASSUME Init PROVE NotesInv
<1>1. /\ notes = <<>> /\ lines = <<>> /\ unread = {} /\ loaded = FALSE /\ prompt = NoPrompt
      /\ pc = "off" /\ decisions = <<>> /\ over = FALSE /\ plan \in Plans
      /\ saved = 0 /\ step = 0 /\ streak = 0 /\ attempt = 0 /\ heals = 0
      /\ name = "generic" /\ seen = "generic" /\ pausing = FALSE
  BY DEF Init, ActionsInit
<1>2. Lined
  <2>1. Range(lines) = {} /\ Rising(lines) /\ lines \in Seq(DOMAIN notes) /\ notes \in Seq(NoteRows)
    BY <1>1, NoLines
  <2> QED BY <1>1, <2>1 DEF Lined
<1>3. Prompted
  BY <1>1, NoLines, NoPromptFacts DEF Prompted
<1>4. Phased
  <2>1. decisions \in Seq(Nat) /\ Len(decisions) = 0 /\ Phases \in Nat /\ Phases # 0
    BY <1>1, LimitFacts
  <2>2. ~(Len(decisions) = Phases)
    BY <2>1
  <2>3. over = (Len(decisions) = Phases)
    BY <1>1, <2>2, Zenon
  <2> QED BY <1>1, <2>1, <2>3 DEF Phased
<1>5. Counted
  <2>1. plan.notes \in Nat /\ plan.steps \in Nat /\ Len(notes) = 0
        /\ FailureLimit - 1 \in Nat /\ Repairs \in Nat /\ MaxHeals \in Nat
    BY <1>1, LimitFacts
  <2>2. streak \in 0..(FailureLimit - 1) /\ attempt \in 0..Repairs /\ heals \in 0..MaxHeals
    BY <1>1, <2>1
  <2>3. saved \in 0..plan.steps /\ step \in 0..plan.steps /\ Len(notes) <= plan.notes
    BY <1>1, <2>1
  <2> QED BY <1>1, <2>2, <2>3 DEF Counted
<1> QED BY <1>2, <1>3, <1>4, <1>5, InitInv DEF NotesInv

LEMMA NotesInductive == Spec => []NotesInv
<1>1. ASSUME NotesInv, [Next]_vars PROVE NotesInv'
  BY <1>1, NextInv, NextNoted, NextPhased, NextCounted DEF NotesInv
<1> QED BY <1>1, InitNotes, PTL DEF Spec

\* The session, its notes and its runner are well typed: no line, lost note or prompt names a
\* note that was not posted, a session is over with its last phase and not before, and the
\* failures, repairs and heals of a run stay within their limits.
THEOREM TypeCorrect == Spec => []TypeOK
<1>1. NotesInv => TypeOK
  BY DEF NotesInv, IInv, Lined, Prompted, Phased, Counted, TypeOK, NoteRows
<1> QED BY NotesInductive, <1>1, PTL

\* Every prompt carries every note posted before it, once and the oldest first, but for those
\* the runner has lost and those whose claim was refused just now: for any number of notes and
\* any limit of the journal.
THEOREM EveryNote == Spec => []PromptHasEveryNote
<1>1. ASSUME NotesInv PROVE PromptHasEveryNote
  BY <1>1 DEF NotesInv, Lined, Prompted, PromptHasEveryNote, Rising
<1> QED BY NotesInductive, <1>1, PTL
=============================================================================
