------------------------------- MODULE Prose -------------------------------
(***************************************************************************)
(* What of a model's prose may stand in a report (report_narrative.py,     *)
(* finalist_playbook.py), and how the measured keywords of a finalist are  *)
(* ordered.  Pure functions.                                               *)
(*                                                                         *)
(* A row is [phrase, measured, total]; total is -1 where Amazon printed no *)
(* result count.  A sentence is [part, cites], a title [target, opening,   *)
(* cites, dressed, why]; cites and why are the figures written in it, and  *)
(* dressed those of its cites that are written with a comma.               *)
(***************************************************************************)
EXTENDS Integers, Sequences, FiniteSets

CONSTANTS
  Phrases,      \* buyer phrases
  Demand,       \* their demand score
  Alphabet,     \* and their place in the alphabet
  Within,       \* pairs of texts, long enough both, of which the first is a part of the second
  TitleTarget   \* titles a playbook needs

ASSUME PhraseAssumption ==
  /\ \A p \in Phrases : Demand[p] \in Nat /\ Alphabet[p] \in Nat
  /\ \A p, q \in Phrases : Alphabet[p] = Alphabet[q] => p = q
  /\ TitleTarget \in Nat \ {0}

-----------------------------------------------------------------------------
(* Keywords *)

\* low, medium, high, not measured
Competition(total) ==
  IF total < 0 THEN 3 ELSE IF total <= 5000 THEN 0 ELSE IF total <= 25000 THEN 1 ELSE 2

\* The count by which rows of one demand are ordered; a missing one comes last.
Crowd(total) == IF total < 0 THEN 10 ^ 9 ELSE total

Smaller(x, y) ==
  \E i \in DOMAIN x : x[i] < y[i] /\ \A j \in 1..(i - 1) : x[j] = y[j]

\* The lightest competition leads, then demand, then the smaller crowd.
Before(r, q) ==
  LET key(x) == <<IF x.measured THEN 0 ELSE 1,
                  IF x.measured THEN Competition(x.total) ELSE 0,
                  0 - Demand[x.phrase],
                  IF x.measured THEN Crowd(x.total) ELSE 0,
                  Alphabet[x.phrase]>>
  IN Smaller(key(r), key(q))

\* The leading rows, so many of them.
RankKeywords(rows, target) == {r \in rows : Cardinality({q \in rows : Before(q, r)}) < target}

-----------------------------------------------------------------------------
(* Grounding *)

\* Small whole numbers and years are not figures.
Benign(n) == n \in 0..12 \/ n \in 1900..2100
Unknown(cites, allowed) == {n \in cites : n \notin allowed /\ ~Benign(n)}

\* Mutant of Ground: every sentence is kept.
GroundNothing(text, allowed) == text

\* A sentence with a figure that is not in the data is dropped.
Ground(text, allowed) == {s \in text : Unknown(s.cites, allowed) = {}}

Checked(text, allowed) ==
  [kept |-> Ground(text, allowed), clean |-> Ground(text, allowed) = text]

GroundNarrative(reply, allowed) ==
  IF reply.usable THEN Checked(reply.prose, allowed) ELSE [kept |-> {}, clean |-> FALSE]

\* The measured phrases, else the suggested ones, else the niche.
Targets(rows, niche) ==
  LET measured == {r.phrase : r \in {q \in rows : q.measured}}
  IN IF measured # {} THEN measured
     ELSE IF rows # {} THEN {r.phrase : r \in rows} ELSE {niche}

\* A title may carry a small editorial number, never a statistic of its own.
TitleFiguresOk(title, allowed) ==
  \A n \in title.cites : n \in allowed \/ (n < 1000 /\ n \notin title.dressed)

\* What a title names is a target, a part of one, or has one as its part.
SamePhrase(p, q) == p = q \/ <<p, q>> \in Within \/ <<q, p>> \in Within

\* The titles without a fault of their own; of those that begin alike the first stays.
FreshTitles(titles, targets, allowed) ==
  LET fit == {i \in DOMAIN titles : /\ TitleFiguresOk(titles[i], allowed)
                                    /\ \E t \in targets : SamePhrase(t, titles[i].target)}
  IN {i \in fit : \A j \in fit : titles[j].opening = titles[i].opening => i <= j}

\* A title with its reasons, when they are grounded.
Grounded(title, allowed) == Unknown(title.why, allowed) = {}

\* What it targets are the phrases it names; the code keeps the first of them.
Argued(title, targets, allowed) ==
  [target |-> {t \in targets : SamePhrase(t, title.target)}, opening |-> title.opening, cites |-> title.cites,
   why |-> IF Grounded(title, allowed) THEN title.why ELSE {}]

\* Titles are read until there are enough; what is refused on the way is a violation.
GroundTitles(titles, targets, allowed) ==
  LET fresh == FreshTitles(titles, targets, allowed)
      read  == {i \in DOMAIN titles : Cardinality({j \in fresh : j < i}) < TitleTarget}
  IN [kept  |-> {Argued(titles[i], targets, allowed) : i \in fresh \cap read},
      clean |-> \A i \in read : i \in fresh /\ Grounded(titles[i], allowed)]

NoPlaybook == [prose |-> {}, titles |-> {}]

\* A plan to beat the incumbents needs reviews that were read; too few titles are a
\* violation when there are any.
GroundPlaybook(reply, rows, niche, reviewed, allowed) ==
  LET prose  == Checked({s \in reply.prose : s.part = "beating" => reviewed}, allowed)
      titles == GroundTitles(reply.titles, Targets(rows, niche), allowed)
      book   == [prose |-> prose.kept, titles |-> titles.kept]
  IN IF ~reply.usable THEN [kept |-> NoPlaybook, clean |-> FALSE]
     ELSE [kept  |-> book,
           clean |-> /\ prose.clean /\ titles.clean /\ book # NoPlaybook
                     /\ titles.kept # {} => Cardinality(titles.kept) >= TitleTarget]
=============================================================================
