--------------------------- MODULE Discovery_proofs ---------------------------
(***************************************************************************)
(* Theorems about Discovery, for any pages, any scales and any bounds.     *)
(* The inductive invariant has four parts: Shelves, that captures and      *)
(* candidates are sequences that grow; Maps, which half of the walk is     *)
(* whole, on a checkpoint or under way; Ring, which neighbours a round has *)
(* left; and MeasuredWhenSaid, that what is remembered was captured.       *)
(***************************************************************************)
EXTENDS Discovery, FiniteSetTheorems, SequenceTheorems, WellFoundedInduction, TLAPS

\* A sequence, of whatever it may be.
IsSequence(s) == \E n \in Nat : s = [i \in 1..n |-> s[i]]

\* What the store of captures and the ledger are, and what a sweep has been told.
Shelves ==
  /\ IsSequence(evidence) /\ \A i \in DOMAIN evidence : evidence[i].at \in Nat
  /\ IsSequence(ledger)
  /\ clock \in Nat
  /\ IsFiniteSet(DOMAIN batches)

\* A half that is made is whole, unless a stop is on its way.
Maps ==
  /\ DOMAIN cp = Halves /\ DOMAIN out = Halves /\ DOMAIN spot = DOMAIN NewSpot
  /\ MapIsWhole
  /\ \A h \in Halves : out[h].state = "made" => h \in whole \/ stop
  /\ pc = "census" /\ spot.cut => stop
  /\ pc = "mined" => "frontier" \in whole \/ stop
  /\ pc = "census" => cp["census"].state # "made"
  /\ pc \in {"open", "ask", "mined"} \/ (pc = "census" /\ willMine)
       => cp["frontier"].state # "made"

\* The neighbours left in a round are no candidates, and no two of them are one.
Ring ==
  /\ NeighbourOnce
  /\ \A n \in near, i \in DOMAIN ledger : ledger[i].niche # n.term \/ ledger[i].mkt # n.mkt
  /\ \A n, o \in near : n.term = o.term /\ n.mkt = o.mkt => n = o
  /\ pc # "adjacent" => near = {}

DInv == Shelves /\ Maps /\ Ring /\ MeasuredWhenSaid

-----------------------------------------------------------------------------
(* Lemmas: sequences and finite sets *)

\* What a sequence of whatever has in common with one of a set's members.
LEMMA SequenceIsSeq ==
  ASSUME NEW s
  PROVE  /\ \A S : s \in Seq(S) => IsSequence(s)
         /\ IsSequence(s) => /\ DOMAIN s = 1..Len(s) /\ Len(s) \in Nat
                             /\ \A S : (\A i \in DOMAIN s : s[i] \in S) => s \in Seq(S)
<1>1. ASSUME NEW S, s \in Seq(S) PROVE IsSequence(s)
  <2>1. Len(s) \in Nat /\ s = [i \in 1..Len(s) |-> s[i]]
    BY <1>1
  <2> QED BY <2>1 DEF IsSequence
<1>2. ASSUME IsSequence(s)
      PROVE  /\ DOMAIN s = 1..Len(s) /\ Len(s) \in Nat
             /\ \A S : (\A i \in DOMAIN s : s[i] \in S) => s \in Seq(S)
  <2>1. PICK n \in Nat : s = [i \in 1..n |-> s[i]]
    BY <1>2 DEF IsSequence
  <2>2. DOMAIN s = 1..n
    BY <2>1
  <2>3. ASSUME NEW S, \A i \in DOMAIN s : s[i] \in S PROVE s \in Seq(S)
    <3>1. s \in [1..n -> S]
      BY <2>1, <2>2, <2>3
    <3> QED BY <3>1, SeqDef
  <2>4. s \in Seq({s[i] : i \in DOMAIN s})
    BY <2>3
  <2>5. DOMAIN s = 1..Len(s) /\ Len(s) \in Nat
    BY <2>4
  <2> QED BY <2>3, <2>5
<1> QED BY <1>1, <1>2

\* One more at the end.
LEMMA AppendAny ==
  ASSUME NEW s, IsSequence(s), NEW e
  PROVE  /\ IsSequence(Append(s, e))
         /\ DOMAIN s = 1..Len(s) /\ Len(s) \in Nat
         /\ DOMAIN Append(s, e) = 1..(Len(s) + 1)
         /\ \A i \in DOMAIN s : Append(s, e)[i] = s[i]
         /\ Append(s, e)[Len(s) + 1] = e
<1> DEFINE S == {s[i] : i \in DOMAIN s} \cup {e}
<1>1. DOMAIN s = 1..Len(s) /\ Len(s) \in Nat
  BY SequenceIsSeq
<1>2. s \in Seq(S)
  <2>1. \A i \in DOMAIN s : s[i] \in S
    OBVIOUS
  <2> HIDE DEF S
  <2> QED BY <2>1, SequenceIsSeq
<1>3. e \in S
  OBVIOUS
<1> HIDE DEF S
<1>4. Append(s, e) \in Seq(S) /\ Len(Append(s, e)) = Len(s) + 1
      /\ (\A i \in 1..Len(s) : Append(s, e)[i] = s[i]) /\ Append(s, e)[Len(s) + 1] = e
  BY <1>2, <1>3, AppendProperties
<1>5. IsSequence(Append(s, e))
  BY <1>4, SequenceIsSeq
<1> QED BY <1>1, <1>4, <1>5, SequenceIsSeq

\* Several more at the end.
LEMMA ConcatAny ==
  ASSUME NEW s, IsSequence(s), NEW t, IsSequence(t)
  PROVE  /\ IsSequence(s \o t)
         /\ \A i \in DOMAIN s : i \in DOMAIN (s \o t) /\ (s \o t)[i] = s[i]
         /\ \A i \in DOMAIN (s \o t) : i \in DOMAIN s \/ \E j \in DOMAIN t : (s \o t)[i] = t[j]
<1> DEFINE S == {s[i] : i \in DOMAIN s} \cup {t[i] : i \in DOMAIN t}
<1>1. DOMAIN s = 1..Len(s) /\ Len(s) \in Nat /\ DOMAIN t = 1..Len(t) /\ Len(t) \in Nat
  BY SequenceIsSeq
<1>2. s \in Seq(S) /\ t \in Seq(S)
  <2>1. (\A i \in DOMAIN s : s[i] \in S) /\ (\A i \in DOMAIN t : t[i] \in S)
    OBVIOUS
  <2> HIDE DEF S
  <2> QED BY <2>1, SequenceIsSeq
<1> HIDE DEF S
<1>3. /\ s \o t \in Seq(S) /\ Len(s \o t) = Len(s) + Len(t)
      /\ \A i \in 1..Len(s) + Len(t) : (s \o t)[i] = IF i <= Len(s) THEN s[i] ELSE t[i - Len(s)]
  BY <1>2, ConcatProperties
<1>4. IsSequence(s \o t) /\ DOMAIN (s \o t) = 1..(Len(s) + Len(t))
  BY <1>3, SequenceIsSeq
<1>5. \A i \in DOMAIN s : i \in DOMAIN (s \o t) /\ (s \o t)[i] = s[i]
  BY <1>1, <1>3, <1>4
<1>6. ASSUME NEW i \in DOMAIN (s \o t), i \notin DOMAIN s
      PROVE  \E j \in DOMAIN t : (s \o t)[i] = t[j]
  <2>1. i \in 1..(Len(s) + Len(t)) /\ ~(i <= Len(s)) /\ i - Len(s) \in DOMAIN t
    BY <1>1, <1>4, <1>6
  <2>2. (s \o t)[i] = t[i - Len(s)]
    BY <1>3, <2>1
  <2> QED BY <2>1, <2>2
<1> QED BY <1>4, <1>5, <1>6

\* Some of the numbers up to n have a first one.
LEMMA LeastOfSome ==
  ASSUME NEW n \in Nat, NEW S \in SUBSET (1..n), S # {}
  PROVE  \E i \in S : \A j \in S : i <= j
<1> DEFINE upto == [i \in S |-> {j \in S : j <= i}]
           T == {upto[i] : i \in S}
<1>1. IsWellFoundedOn(StrictSubsetOrdering(S), SUBSET S)
  <2>1. IsFiniteSet(1..n) /\ S \subseteq 1..n
    BY FS_Interval
  <2>2. IsFiniteSet(S)
    BY <2>1, FS_Subset
  <2> QED BY <2>2, FS_StrictSubsetOrderingWellFounded, FS_FiniteSubsetsOfFinite
<1>2. T \subseteq SUBSET S /\ T # {}
  OBVIOUS
<1>3. \E x \in T : \A y \in T : <<y, x>> \notin StrictSubsetOrdering(S)
  <2> HIDE DEF T
  <2> QED BY <1>1, <1>2, WFMin
<1>4. PICK i \in S : \A y \in T : <<y, upto[i]>> \notin StrictSubsetOrdering(S)
  BY <1>3
<1>5. ASSUME NEW j \in S, ~(i <= j) PROVE FALSE
  <2>1. j < i /\ i \in Nat /\ j \in Nat
    BY <1>5
  <2>2. \A k \in S : k <= j => k <= i
    BY <2>1
  <2>3. upto[j] = {k \in S : k <= j} /\ upto[i] = {k \in S : k <= i}
    OBVIOUS
  <2>4. upto[j] \subseteq upto[i] /\ i \in upto[i] /\ i \notin upto[j]
    <3> HIDE DEF upto
    <3>1. upto[j] \subseteq upto[i]
      BY <2>2, <2>3
    <3>2. i \in upto[i]
      BY <2>1, <2>3
    <3>3. i \notin upto[j]
      BY <1>5, <2>3
    <3> QED BY <3>1, <3>2, <3>3
  <2>5. upto[j] \in T /\ upto[j] \in SUBSET S /\ upto[i] \in SUBSET S
    OBVIOUS
  <2>6. <<upto[j], upto[i]>> \in StrictSubsetOrdering(S)
    <3> HIDE DEF upto
    <3> QED BY <2>4, <2>5 DEF StrictSubsetOrdering
  <2> QED BY <1>4, <2>5, <2>6
<1> QED BY <1>5
-----------------------------------------------------------------------------
(* Lemmas: what the walks store *)

\* A set's elements in some order.
LEMMA SetAsSequence ==
  ASSUME NEW D, IsFiniteSet(D)
  PROVE  IsSequence(SetToSeq(D))
<1>1. PICK n \in Nat : n = Cardinality(D) /\ ExistsBijection(1..n, D)
  BY FS_CardinalityType
<1>2. PICK f \in Bijection(1..n, D) : TRUE
  BY <1>1 DEF ExistsBijection
<1>3. f \in [1..n -> D] /\ IsInjective(f)
  BY <1>2 DEF Bijection, Injection, IsInjective
<1>4. SetToSeq(D) \in [1..n -> D]
  BY <1>1, <1>3 DEF SetToSeq
<1> QED BY <1>4 DEF IsSequence

\* The captures of a sweep are a sequence, each with its number.
LEMMA MinedFacts ==
  ASSUME Shelves
  PROVE  IsSequence(Mined) /\ \A i \in DOMAIN Mined : Mined[i].at \in Nat
<1> DEFINE asked == SetToSeq(DOMAIN batches)
           lists == [i \in DOMAIN asked |->
                       Capture(clock + i, "autocomplete_frontier", asked[i][2][1], asked[i][1],
                               batches[asked[i]], {})]
           last == Capture(clock + Len(lists) + 1, "demand_language", Seeds[1], Market[1],
                           ToSet(First(Ranked, 80)), {})
<1>1. PICK n \in Nat : DOMAIN asked = 1..n
  BY SetAsSequence DEF Shelves, IsSequence
<1>2. DOMAIN lists = 1..n /\ \A i \in 1..n : lists[i].at = clock + i
  BY <1>1 DEF Capture
<1>3. IsSequence(lists) /\ clock \in Nat
  BY <1>1 DEF IsSequence, Shelves
<1>4. last.at = clock + Len(lists) + 1
  BY DEF Capture
<1> HIDE DEF lists, last
<1>5. IsSequence(Append(lists, last)) /\ Len(lists) \in Nat
      /\ DOMAIN lists = 1..Len(lists) /\ DOMAIN Append(lists, last) = 1..(Len(lists) + 1)
      /\ (\A i \in DOMAIN lists : Append(lists, last)[i] = lists[i])
      /\ Append(lists, last)[Len(lists) + 1] = last
  BY <1>3, AppendAny
<1>6. \A i \in DOMAIN Append(lists, last) : Append(lists, last)[i].at \in Nat
  <2> TAKE i \in DOMAIN Append(lists, last)
  <2>1. i \in DOMAIN lists \/ i = Len(lists) + 1
    BY <1>5
  <2>2. CASE i \in DOMAIN lists
    BY <1>2, <1>3, <1>5, <2>2
  <2>3. CASE i = Len(lists) + 1
    BY <1>3, <1>4, <1>5, <2>3
  <2> QED BY <2>1, <2>2, <2>3
<1>7. \A i \in DOMAIN lists : lists[i].at \in Nat
  BY <1>2, <1>3
<1>8. Mined = lists \/ Mined = Append(lists, last)
  BY DEF Mined, lists, last
<1> QED BY <1>3, <1>5, <1>6, <1>7, <1>8

\* What one step does to the captures.
Grows == \A i \in DOMAIN evidence : i \in DOMAIN evidence' /\ evidence'[i] = evidence[i]

\* A capture that is stored is the last one, and is numbered.
LEMMA StoreFacts ==
  ASSUME Shelves, NEW shot, shot.at = clock + 1, Store(shot)
  PROVE  /\ IsSequence(evidence') /\ Grows /\ clock' \in Nat
         /\ \A i \in DOMAIN evidence' : evidence'[i].at \in Nat
<1>1. evidence' = Append(evidence, shot) /\ clock' = clock + 1 /\ clock \in Nat
      /\ IsSequence(evidence) /\ \A i \in DOMAIN evidence : evidence[i].at \in Nat
  BY DEF Shelves, Store
<1>2. /\ IsSequence(evidence') /\ DOMAIN evidence = 1..Len(evidence) /\ Len(evidence) \in Nat
      /\ DOMAIN evidence' = 1..(Len(evidence) + 1)
      /\ \A i \in DOMAIN evidence : evidence'[i] = evidence[i]
      /\ evidence'[Len(evidence) + 1] = shot
  BY <1>1, AppendAny
<1>3. \A i \in DOMAIN evidence' : i \in DOMAIN evidence \/ i = Len(evidence) + 1
  BY <1>2
<1>4. \A i \in DOMAIN evidence' : evidence'[i].at \in Nat
  BY <1>1, <1>2, <1>3
<1>5. Grows
  BY <1>2 DEF Grows
<1> QED BY <1>1, <1>2, <1>4, <1>5

\* A candidate that is added is the last one.
LEMMA LedgerAppend ==
  ASSUME Shelves, NEW c, ledger' = Append(ledger, c)
  PROVE  /\ IsSequence(ledger')
         /\ \E n : /\ n \notin DOMAIN ledger /\ ledger'[n] = c
                   /\ DOMAIN ledger' = DOMAIN ledger \cup {n}
         /\ \A i \in DOMAIN ledger : ledger'[i] = ledger[i]
<1>1. /\ IsSequence(ledger') /\ DOMAIN ledger = 1..Len(ledger) /\ Len(ledger) \in Nat
      /\ DOMAIN ledger' = 1..(Len(ledger) + 1)
      /\ \A i \in DOMAIN ledger : ledger'[i] = ledger[i]
      /\ ledger'[Len(ledger) + 1] = c
  BY AppendAny DEF Shelves
<1>2. Len(ledger) + 1 \notin DOMAIN ledger /\ DOMAIN ledger' = DOMAIN ledger \cup {Len(ledger) + 1}
  BY <1>1
<1> QED BY <1>1, <1>2

-----------------------------------------------------------------------------
(* Captures and candidates, step by step *)

\* A step that stores nothing and lists nobody.
LEMMA ShelvesStill ==
  ASSUME Shelves, UNCHANGED <<clock, evidence, ledger>>, IsFiniteSet(DOMAIN batches')
  PROVE  Shelves' /\ Grows
BY DEF Shelves, Grows

\* Items that are read become a capture, or the write is lost.
LEMMA RecordStep ==
  ASSUME Shelves, NEW subject, NEW rivals, NEW next, Record(subject, rivals, next),
         UNCHANGED <<ledger, batches>>
  PROVE  Shelves' /\ Grows
<1>1. CASE UNCHANGED <<evidence, clock>>
  BY <1>1, ShelvesStill DEF Shelves
<1>2. CASE Store(Capture(clock + 1, "census", subject, Market[spot.m], {}, rivals))
  <2> DEFINE shot == Capture(clock + 1, "census", subject, Market[spot.m], {}, rivals)
  <2>1. shot.at = clock + 1
    BY DEF Capture
  <2> HIDE DEF shot
  <2>2. /\ IsSequence(evidence') /\ Grows /\ clock' \in Nat
        /\ \A i \in DOMAIN evidence' : evidence'[i].at \in Nat
    BY <1>2, <2>1, StoreFacts DEF shot
  <2> QED BY <2>2 DEF Shelves
<1> QED BY <1>1, <1>2 DEF Record

LEMMA CensusShelves == ASSUME Shelves, Census PROVE Shelves' /\ Grows
<1>1. CASE VisitChart
  <2>1. UNCHANGED <<ledger, batches>>
    BY <1>1 DEF VisitChart, CensusFrame, frontier
  <2>2. CASE UNCHANGED <<evidence, clock>>
    BY <2>1, <2>2, ShelvesStill DEF Shelves
  <2>3. ASSUME NEW chart \in Charts,
               Record(ChartAt(spot.k), chart.rivals,
                      [spot EXCEPT !.k = @ + 1,
                                   !.links = IF @ = <<>> THEN chart.links ELSE @])
        PROVE  Shelves' /\ Grows
    BY <2>1, <2>3, RecordStep
  <2> QED BY <1>1, <2>2, <2>3 DEF VisitChart
<1>2. CASE VisitNode
  <2>1. UNCHANGED <<ledger, batches>>
    BY <1>2 DEF VisitNode, CensusFrame, frontier
  <2>2. \E rivals, next : Record(Head(spot.links), rivals, next)
    BY <1>2 DEF VisitNode
  <2> QED BY <2>1, <2>2, RecordStep
<1>3. CASE MarketDone \/ CensusCut \/ CensusOver
  <2>1. UNCHANGED <<clock, evidence, ledger, batches>>
    BY <1>3 DEF MarketDone, CensusCut, CensusOver, CensusFrame, frontier
  <2> QED BY <2>1, ShelvesStill DEF Shelves
<1> QED BY <1>1, <1>2, <1>3 DEF Census

LEMMA FrontierShelves == ASSUME Shelves, Frontier PROVE Shelves' /\ Grows
<1>1. CASE OpenPage \/ Opened \/ PageDies \/ NextRound \/ FrontierOver
  <2>1. UNCHANGED <<clock, evidence, ledger>> /\ (batches' = batches \/ batches' = <<>>)
    BY <1>1 DEF OpenPage, Opened, PageDies, NextRound, FrontierOver, FrontierFrame, WalkFrame
  <2>2. IsFiniteSet(DOMAIN batches')
    BY <2>1, FS_EmptySet DEF Shelves
  <2> QED BY <2>1, <2>2, ShelvesStill
<1>2. CASE Ask
  <2>1. UNCHANGED <<clock, evidence, ledger>>
    BY <1>2 DEF Ask, FrontierFrame, WalkFrame
  <2>2. batches' = batches \/ DOMAIN batches' = DOMAIN batches \cup {Head(todo)}
    BY <1>2 DEF Ask
  <2>3. IsFiniteSet(DOMAIN batches \cup {Head(todo)})
    BY FS_AddElement DEF Shelves
  <2>4. IsFiniteSet(DOMAIN batches')
    BY <2>2, <2>3 DEF Shelves
  <2> QED BY <2>1, <2>4, ShelvesStill
<1>3. CASE Mine
  <2>1. UNCHANGED <<ledger, batches>>
    BY <1>3 DEF Mine
  <2>2. CASE UNCHANGED <<evidence, clock>>
    BY <2>1, <2>2, ShelvesStill DEF Shelves
  <2>3. CASE evidence' = evidence \o Mined /\ clock' = clock + Len(Mined)
    <3>1. IsSequence(Mined) /\ \A i \in DOMAIN Mined : Mined[i].at \in Nat
      BY MinedFacts
    <3>2. Len(Mined) \in Nat
      BY <3>1, SequenceIsSeq
    <3>3. /\ IsSequence(evidence')
          /\ \A i \in DOMAIN evidence : i \in DOMAIN evidence' /\ evidence'[i] = evidence[i]
          /\ \A i \in DOMAIN evidence' :
               i \in DOMAIN evidence \/ \E j \in DOMAIN Mined : evidence'[i] = Mined[j]
      BY <2>3, <3>1, ConcatAny DEF Shelves
    <3>4. \A i \in DOMAIN evidence' : evidence'[i].at \in Nat
      BY <3>1, <3>3 DEF Shelves
    <3>5. clock' \in Nat
      BY <2>3, <3>2 DEF Shelves
    <3> QED BY <2>1, <3>3, <3>4, <3>5 DEF Shelves, Grows
  <2> QED BY <1>3, <2>2, <2>3 DEF Mine
<1> QED BY <1>1, <1>2, <1>3 DEF Frontier

LEMMA PhaseShelves ==
  ASSUME Shelves, Shot \/ List \/ Judge \/ Harvest \/ OtherHarvest
  PROVE  Shelves' /\ Grows
<1>1. CASE Shot
  <2>1. PICK s \in PhaseShots : Store([s EXCEPT !.at = clock + 1])
    BY <1>1 DEF Shot
  <2> DEFINE shot == [s EXCEPT !.at = clock + 1]
  <2>2. s \in Shots
    BY ShotAssumption
  <2>3. shot.at = clock + 1
    BY <2>2 DEF Shots
  <2> HIDE DEF shot
  <2>4. /\ IsSequence(evidence') /\ Grows /\ clock' \in Nat
        /\ \A i \in DOMAIN evidence' : evidence'[i].at \in Nat
    BY <2>1, <2>3, StoreFacts DEF shot
  <2>5. UNCHANGED <<ledger, batches>>
    BY <1>1 DEF Shot, PhaseFrame, frontier
  <2> QED BY <2>4, <2>5 DEF Shelves
<1>2. CASE List
  <2>1. PICK n : ledger' = Append(ledger, Candidate(n, Market[1], FALSE))
    BY <1>2 DEF List
  <2>2. IsSequence(ledger')
    BY <2>1, LedgerAppend
  <2>3. UNCHANGED <<clock, evidence, batches>>
    BY <1>2 DEF List, PhaseFrame, frontier
  <2> QED BY <2>2, <2>3 DEF Shelves, Grows
<1>3. CASE Judge
  <2>1. PICK i, v : ledger' = [ledger EXCEPT ![i].status = v]
    BY <1>3 DEF Judge
  <2>2. PICK n \in Nat : DOMAIN ledger = 1..n
    BY DEF Shelves, IsSequence
  <2>3. ledger' = [k \in 1..n |-> ledger'[k]]
    BY <2>1, <2>2
  <2>4. IsSequence(ledger')
    BY <2>3 DEF IsSequence
  <2>5. UNCHANGED <<clock, evidence, batches>>
    BY <1>3 DEF Judge, PhaseFrame, frontier
  <2> QED BY <2>4, <2>5 DEF Shelves, Grows
<1>4. CASE Harvest
  <2>1. UNCHANGED <<clock, evidence, ledger, batches>>
    BY <1>4 DEF Harvest, PhaseFrame, frontier
  <2> QED BY <2>1, ShelvesStill DEF Shelves
<1>5. CASE OtherHarvest
  <2>1. UNCHANGED <<evidence, ledger, batches>> /\ clock' = clock + 1
    BY <1>5 DEF OtherHarvest, frontier
  <2> QED BY <2>1 DEF Shelves, Grows
<1> QED BY <1>1, <1>2, <1>3, <1>4, <1>5

LEMMA AdjacencyShelves == ASSUME Shelves, Adjacency PROVE Shelves' /\ Grows
<1>1. CASE StartRound \/ Overflow \/ RoundEnds
  <2>1. UNCHANGED <<clock, evidence, ledger, batches>>
    BY <1>1 DEF StartRound, Overflow, RoundEnds, PhaseFrame, frontier, durable
  <2> QED BY <2>1, ShelvesStill DEF Shelves
<1>2. CASE Measure
  <2>1. batches' = batches
    BY <1>2 DEF Measure, PhaseFrame, frontier
  <2>2. PICK n \in Nearest :
          \/ UNCHANGED <<clock, evidence, ledger>>
          \/ \E rivals \in Results :
               /\ Store(Capture(clock + 1, "search_results", n.term, n.mkt, {}, rivals))
               /\ ledger' = ledger \/ ledger' = Append(ledger, Candidate(n.term, n.mkt, TRUE))
    BY <1>2 DEF Measure
  <2>3. CASE UNCHANGED <<clock, evidence, ledger>>
    BY <2>1, <2>3, ShelvesStill DEF Shelves
  <2>4. ASSUME NEW rivals \in Results,
               Store(Capture(clock + 1, "search_results", n.term, n.mkt, {}, rivals)),
               ledger' = ledger \/ ledger' = Append(ledger, Candidate(n.term, n.mkt, TRUE))
        PROVE  Shelves' /\ Grows
    <3> DEFINE shot == Capture(clock + 1, "search_results", n.term, n.mkt, {}, rivals)
    <3>1. shot.at = clock + 1
      BY DEF Capture
    <3> HIDE DEF shot
    <3>2. /\ IsSequence(evidence') /\ Grows /\ clock' \in Nat
          /\ \A i \in DOMAIN evidence' : evidence'[i].at \in Nat
      BY <2>4, <3>1, StoreFacts DEF shot
    <3>3. IsSequence(ledger')
      BY <2>4, LedgerAppend DEF Shelves
    <3> QED BY <2>1, <3>2, <3>3 DEF Shelves
  <2> QED BY <2>2, <2>3, <2>4
<1> QED BY <1>1, <1>2 DEF Adjacency

LEMMA OtherShelves ==
  ASSUME Shelves,
         \/ Enter \/ PreflightOver \/ DeadlinePasses \/ AskStop \/ Halt \/ Resume \/ Crash
         \/ UNCHANGED vars
  PROVE  Shelves' /\ Grows
<1>1. UNCHANGED <<clock, evidence, ledger>> /\ (batches' = batches \/ batches' = <<>>)
  BY DEF Enter, PreflightOver, DeadlinePasses, AskStop, Halt, Resume, Crash,
         NewRunner, durable, frontier, vars
<1>2. IsFiniteSet(DOMAIN batches')
  BY <1>1, FS_EmptySet DEF Shelves
<1> QED BY <1>1, <1>2, ShelvesStill
-----------------------------------------------------------------------------
(* Which half is whole, step by step *)

\* A step that neither starts nor ends a half of the walk.
LEMMA MapsStill ==
  ASSUME Maps, UNCHANGED <<cp, preflight, out, spot, willMine, whole>>, stop => stop',
         pc' = pc \/ pc' \notin {"census", "open", "ask", "mined"}
                  \/ (pc' = "ask" /\ pc = "open")
  PROVE  Maps'
BY DEF Maps, MapIsWhole

LEMMA EnterMaps == ASSUME Maps, Enter PROVE Maps'
<1> DEFINE known == [h \in Halves |-> Cached(h)]
<1>1. \A h \in Halves : /\ known[h].state = "made" => cp[h].state = "made"
                        /\ known[h] = NoMap => cp[h].state # "made"
  BY DEF Cached, NoMap
<1>2. pc = "enter" /\ spot' = NewSpot /\ UNCHANGED <<cp, stop, whole>>
  BY DEF Enter
<1>3. NewSpot.cut = FALSE /\ NoMap.state # "made" /\ Halves = {"census", "frontier"}
  BY DEF NewSpot, NoMap, Halves
<1>4. CASE preflight.done
  <2>1. pc' = "phases" /\ UNCHANGED <<preflight, out, willMine>>
    BY <1>4 DEF Enter
  <2> QED BY <1>2, <2>1 DEF Maps, MapIsWhole
<1>5. CASE ~preflight.done
  <2>1. /\ out' = known
        /\ \/ pc' = "census" /\ known["census"] = NoMap /\ UNCHANGED preflight
              /\ (willMine' => known["frontier"] = NoMap)
           \/ pc' = "open" /\ known["frontier"] = NoMap /\ UNCHANGED preflight
           \/ Close(known)
    BY <1>5 DEF Enter
  <2>2. Close(known) => pc' = "phases" /\ preflight' = [done |-> ~stop, map |-> known]
    BY DEF Close
  <2>3. DOMAIN known = Halves
    OBVIOUS
  <2> HIDE DEF known
  <2>4. MapIsWhole'
    BY <1>1, <1>2, <2>1, <2>2 DEF Maps, MapIsWhole
  <2>5. \A h \in Halves : out'[h].state = "made" => h \in whole'
    BY <1>1, <1>2, <2>1 DEF Maps, MapIsWhole
  <2> QED BY <1>1, <1>2, <1>3, <2>1, <2>2, <2>3, <2>4, <2>5 DEF Maps
<1> QED BY <1>4, <1>5

\* The census goes on: where it has got changes, but not whether a stop has cut it short.
LEMMA SpotMaps ==
  ASSUME Maps, pc = "census", CensusFrame, DOMAIN spot' = DOMAIN NewSpot,
         spot'.cut => spot.cut \/ stop
  PROVE  Maps'
BY DEF Maps, MapIsWhole, CensusFrame

LEMMA CensusMaps == ASSUME Maps, VisitChart \/ VisitNode \/ MarketDone \/ CensusCut PROVE Maps'
<1>1. pc = "census" /\ CensusFrame
  BY DEF VisitChart, VisitNode, MarketDone, CensusCut
<1>2. DOMAIN spot = {"m", "k", "links", "walked", "found", "cut"}
      /\ DOMAIN NewSpot = {"m", "k", "links", "walked", "found", "cut"}
      /\ NewSpot.cut = FALSE
  BY DEF Maps, NewSpot
<1>3. DOMAIN NextMarket(spot) = DOMAIN NewSpot /\ NextMarket(spot).cut = FALSE
  BY DEF NextMarket, NewSpot
<1>4. ASSUME NEW subject, NEW rivals, NEW next, Record(subject, rivals, next),
             DOMAIN next = DOMAIN NewSpot, next.cut = spot.cut
      PROVE  DOMAIN spot' = DOMAIN NewSpot /\ spot'.cut = spot.cut
  <2>1. spot' = next \/ spot' = [next EXCEPT !.found = Append(@, subject)]
    BY <1>4 DEF Record
  <2> QED BY <1>2, <1>4, <2>1
<1>5. CASE VisitChart
  <2>1. CASE spot' = NextMarket(spot)
    BY <1>1, <1>3, <2>1, SpotMaps
  <2>2. ASSUME NEW chart \in Charts,
               Record(ChartAt(spot.k), chart.rivals,
                      [spot EXCEPT !.k = @ + 1,
                                   !.links = IF @ = <<>> THEN chart.links ELSE @])
        PROVE  Maps'
    <3> DEFINE next == [spot EXCEPT !.k = @ + 1,
                                    !.links = IF @ = <<>> THEN chart.links ELSE @]
    <3>1. DOMAIN next = DOMAIN NewSpot /\ next.cut = spot.cut
      BY <1>2
    <3>2. Record(ChartAt(spot.k), chart.rivals, next)
      BY <2>2
    <3> HIDE DEF next
    <3>3. DOMAIN spot' = DOMAIN NewSpot /\ spot'.cut = spot.cut
      BY <1>4, <3>1, <3>2
    <3> QED BY <1>1, <3>3, SpotMaps
  <2> QED BY <1>5, <2>1, <2>2 DEF VisitChart
<1>6. CASE VisitNode
  <2> DEFINE rest == [spot EXCEPT !.links = Tail(@)]
             onward == [rest EXCEPT !.walked = @ + 1]
  <2>1. DOMAIN rest = DOMAIN NewSpot /\ rest.cut = spot.cut
    BY <1>2
  <2>2. DOMAIN onward = DOMAIN NewSpot /\ onward.cut = spot.cut
    BY <1>2
  <2>3. PICK rivals \in Nodes :
          Record(Head(spot.links), rivals, IF rivals = {} THEN rest ELSE onward)
    BY <1>6 DEF VisitNode
  <2> HIDE DEF rest, onward
  <2>4. DOMAIN spot' = DOMAIN NewSpot /\ spot'.cut = spot.cut
    <3>1. CASE rivals = {}
      <4>1. Record(Head(spot.links), rivals, rest)
        BY <2>3, <3>1
      <4> QED BY <1>4, <2>1, <4>1
    <3>2. CASE rivals # {}
      <4>1. Record(Head(spot.links), rivals, onward)
        BY <2>3, <3>2
      <4> QED BY <1>4, <2>2, <4>1
    <3> QED BY <3>1, <3>2
  <2> QED BY <1>1, <2>4, SpotMaps
<1>7. CASE MarketDone
  BY <1>1, <1>3, <1>7, SpotMaps DEF MarketDone
<1>8. CASE CensusCut
  <2>1. spot' = [spot EXCEPT !.m = CensusSize + 1, !.cut = stop]
    BY <1>8 DEF CensusCut
  <2>2. DOMAIN spot' = DOMAIN NewSpot /\ spot'.cut = stop
    BY <1>2, <2>1
  <2> QED BY <1>1, <2>2, SpotMaps
<1> QED BY <1>5, <1>6, <1>7, <1>8

\* A half is over: what it found is kept unless a stop is asked for, and it is whole then.
LEMMA OutcomeMaps ==
  ASSUME Maps, NEW half \in Halves, NEW map,
         cp' = cp \/ cp' = (IF stop THEN cp ELSE [cp EXCEPT ![half] = map]),
         out' = [out EXCEPT ![half] = map],
         spot' = NewSpot, stop' = stop, whole \subseteq whole',
         half \in whole' \/ stop,
         preflight' = preflight,
         \/ pc' = "closing"
         \/ pc' = "open" /\ half = "census" /\ cp["frontier"].state # "made"
  PROVE  Maps'
<1>1. DOMAIN cp' = Halves /\ DOMAIN out' = Halves /\ NewSpot.cut = FALSE
  BY DEF Maps, NewSpot
<1>2. \A h \in Halves : h # half => cp'[h] = cp[h] /\ out'[h] = out[h]
  BY DEF Maps
<1>3. cp'[half] = cp[half] \/ half \in whole'
  BY DEF Maps
<1>4. \A h \in Halves : out'[h].state = "made" => h \in whole' \/ stop'
  BY <1>2 DEF Maps
<1>5. \A h \in Halves : cp'[h].state = "made" => h \in whole'
  BY <1>2, <1>3 DEF Maps, MapIsWhole
<1>6. preflight'.done => \A h \in Halves : preflight'.map[h].state = "made" => h \in whole'
  BY DEF Maps, MapIsWhole
<1>7. pc' = "open" => cp'["frontier"].state # "made"
  BY <1>2 DEF Halves
<1> QED BY <1>1, <1>4, <1>5, <1>6, <1>7 DEF Maps, MapIsWhole

LEMMA CensusOverMaps == ASSUME Maps, CensusOver PROVE Maps'
<1>1. /\ pc = "census" /\ stop' = stop /\ spot' = NewSpot
      /\ whole' = IF spot.cut THEN whole ELSE whole \cup {"census"}
      /\ UNCHANGED preflight /\ pc' = IF willMine THEN "open" ELSE "closing"
      /\ \E map :
           /\ cp' = cp \/ cp' = (IF stop THEN cp ELSE [cp EXCEPT !["census"] = map])
           /\ out' = [out EXCEPT !["census"] = map]
  BY DEF CensusOver, Outcome, Keep
<1>2. PICK map :
           /\ cp' = cp \/ cp' = (IF stop THEN cp ELSE [cp EXCEPT !["census"] = map])
           /\ out' = [out EXCEPT !["census"] = map]
  BY <1>1
<1>3. whole \subseteq whole' /\ ("census" \in whole' \/ stop)
  BY <1>1 DEF Maps
<1>4. pc' = "closing" \/ (pc' = "open" /\ cp["frontier"].state # "made")
  BY <1>1 DEF Maps
<1> QED BY <1>1, <1>2, <1>3, <1>4, OutcomeMaps DEF Halves

LEMMA FrontierOverMaps == ASSUME Maps, FrontierOver PROVE Maps'
<1>1. /\ pc = "mined" /\ UNCHANGED <<preflight, stop, whole>> /\ spot' = NewSpot
      /\ pc' = "closing"
      /\ \E map :
           /\ cp' = cp \/ cp' = (IF stop THEN cp ELSE [cp EXCEPT !["frontier"] = map])
           /\ out' = [out EXCEPT !["frontier"] = map]
  BY DEF FrontierOver, Outcome, Keep
<1>2. PICK map :
           /\ cp' = cp \/ cp' = (IF stop THEN cp ELSE [cp EXCEPT !["frontier"] = map])
           /\ out' = [out EXCEPT !["frontier"] = map]
  BY <1>1
<1>3. "frontier" \in whole' \/ stop
  BY <1>1 DEF Maps
<1> QED BY <1>1, <1>2, <1>3, OutcomeMaps DEF Halves

\* The preflight is done with its own maps, unless a stop is asked for.
LEMMA PreflightOverMaps == ASSUME Maps, PreflightOver PROVE Maps'
<1>1. /\ pc' = "phases" /\ preflight' = [done |-> ~stop, map |-> out]
      /\ UNCHANGED <<cp, out, spot, stop, whole>>
  BY DEF PreflightOver, Close
<1> QED BY <1>1 DEF Maps, MapIsWhole

LEMMA FrontierMaps ==
  ASSUME Maps, OpenPage \/ Opened \/ PageDies \/ Ask \/ NextRound \/ Mine
  PROVE  Maps'
<1>1. CASE Mine
  <2>1. /\ pc = "ask" /\ pc' = "mined" /\ UNCHANGED <<cp, preflight, out, spot, willMine, stop>>
        /\ whole \subseteq whole' /\ ("frontier" \in whole' \/ stop)
    BY <1>1 DEF Mine
  <2> QED BY <2>1 DEF Maps, MapIsWhole
<1>2. CASE OpenPage
  <2>1. /\ pc = "open" /\ UNCHANGED <<cp, preflight, out, willMine, whole, stop, pc>>
        /\ spot' = [spot EXCEPT !.m = @ + 1]
    BY <1>2 DEF OpenPage, FrontierFrame, WalkFrame
  <2>2. DOMAIN spot' = DOMAIN spot
    BY <2>1
  <2> QED BY <2>1, <2>2 DEF Maps, MapIsWhole
<1>3. CASE Opened \/ PageDies \/ Ask \/ NextRound
  <2>1. UNCHANGED <<cp, preflight, out, spot, willMine, whole, stop>>
        /\ (pc' = pc \/ (pc' = "ask" /\ pc = "open"))
    <3>1. CASE Opened
      BY <3>1 DEF Opened, FrontierFrame, WalkFrame
    <3>2. CASE PageDies
      BY <3>2 DEF PageDies, WalkFrame
    <3>3. CASE Ask
      BY <3>3 DEF Ask, FrontierFrame, WalkFrame
    <3>4. CASE NextRound
      BY <3>4 DEF NextRound, FrontierFrame, WalkFrame
    <3> QED BY <1>3, <3>1, <3>2, <3>3, <3>4
  <2> QED BY <2>1, MapsStill
<1> QED BY <1>1, <1>2, <1>3

\* A new runner has no map of its own; what is on the checkpoints stays.
LEMMA NewRunnerMaps == ASSUME Maps, NewRunner PROVE Maps'
<1>1. /\ pc' = "enter" /\ out' = [h \in Halves |-> NoMap] /\ spot' = NewSpot
      /\ UNCHANGED <<cp, preflight, whole>>
  BY DEF NewRunner, durable
<1>2. NoMap.state # "made"
  BY DEF NoMap
<1> QED BY <1>1, <1>2 DEF Maps, MapIsWhole

LEMMA OtherMaps ==
  ASSUME Maps,
         \/ Adjacency \/ DeadlinePasses \/ AskStop \/ Halt \/ UNCHANGED vars
         \/ Shot \/ List \/ Judge \/ Harvest \/ OtherHarvest
  PROVE  Maps'
<1>1. CASE StartRound
  BY <1>1, MapsStill DEF StartRound, durable
<1>2. CASE Overflow
  BY <1>2, MapsStill DEF Overflow, PhaseFrame
<1>3. CASE Measure
  BY <1>3, MapsStill DEF Measure, PhaseFrame
<1>4. CASE RoundEnds
  BY <1>4, MapsStill DEF RoundEnds
<1>5. CASE DeadlinePasses \/ AskStop
  BY <1>5, MapsStill DEF DeadlinePasses, AskStop, durable
<1>6. CASE Halt
  BY <1>6, MapsStill DEF Halt, durable
<1>7. CASE Shot \/ List \/ Judge \/ Harvest
  <2>1. PhaseFrame
    BY <1>7 DEF Shot, List, Judge, Harvest
  <2> QED BY <2>1, MapsStill DEF PhaseFrame
<1>8. CASE OtherHarvest
  BY <1>8, MapsStill DEF OtherHarvest
<1>9. CASE UNCHANGED vars
  BY <1>9, MapsStill DEF vars
<1> QED BY <1>1, <1>2, <1>3, <1>4, <1>5, <1>6, <1>7, <1>8, <1>9 DEF Adjacency

LEMMA NextMaps == ASSUME Maps, [Next]_vars PROVE Maps'
<1>1. CASE Enter
  BY <1>1, EnterMaps
<1>2. CASE Census
  BY <1>2, CensusMaps, CensusOverMaps DEF Census
<1>3. CASE Frontier
  BY <1>3, FrontierMaps, FrontierOverMaps DEF Frontier
<1>4. CASE Resume \/ Crash
  BY <1>4, NewRunnerMaps DEF Resume, Crash
<1>5. CASE PreflightOver
  BY <1>5, PreflightOverMaps
<1> QED BY <1>1, <1>2, <1>3, <1>4, <1>5, OtherMaps DEF Next
-----------------------------------------------------------------------------
(* A round's neighbours *)

\* What is suggested beside the candidates is suggested once for each market, and is none of
\* the names that are known.
LEMMA NeighborsOnce ==
  ASSUME NEW candidates, DOMAIN candidates \subseteq Nat,
         NEW shots, \A s \in shots : s.at \in Nat,
         NEW extras, NEW names
  PROVE  \A n, o \in Neighbors(candidates, shots, extras, names) :
           /\ n.term \notin names
           /\ n.term = o.term /\ n.mkt = o.mkt => n = o
<1> DEFINE strong == {i \in DOMAIN candidates : candidates[i].status # "rejected"}
           near0(t) == {i \in strong : Shares(t, Heads[candidates[i].niche], 1)}
           fromShots == UNION {{[term |-> t, mkt |-> s.mkt, by |-> i, cites |-> s.at,
                                 late |-> s.kind = "census"] :
                                  t \in Derived(s, candidates[i].niche)} :
                                 s \in shots, i \in strong}
           Sooner(n, o) == \/ n.by < o.by
                           \/ n.by = o.by /\ n.late # o.late /\ o.late
                           \/ n.by = o.by /\ n.late = o.late /\ n.cites >= o.cites
           first == {n \in fromShots : \A o \in fromShots :
                       o.term = n.term /\ o.mkt = n.mkt => Sooner(n, o)}
           fromFrontier == {[term |-> t, mkt |-> candidates[Min(near0(t))].mkt, cites |-> 0] :
                              t \in {x \in extras : ~IsNoise(x) /\ near0(x) # {}}}
           added == {n \in fromFrontier : \A o \in fromShots :
                       o.term # n.term \/ o.mkt # n.mkt}
           chosen == {[term |-> f.term, mkt |-> f.mkt, cites |-> f.cites] : f \in first}
<1>1. Neighbors(candidates, shots, extras, names) = {n \in chosen \cup added : n.term \notin names}
  BY DEF Neighbors
<1>2. \A n \in fromShots : n.by \in Nat /\ n.cites \in Nat /\ n.late \in BOOLEAN
  <2> TAKE n \in fromShots
  <2>1. PICK s \in shots, i \in strong :
          \E t \in Derived(s, candidates[i].niche) :
            n = [term |-> t, mkt |-> s.mkt, by |-> i, cites |-> s.at, late |-> s.kind = "census"]
    OBVIOUS
  <2>2. n.by = i /\ n.cites = s.at /\ i \in DOMAIN candidates
    BY <2>1
  <2>3. n.late = (s.kind = "census")
    BY <2>1
  <2>4. n.late \in BOOLEAN
    BY <2>3
  <2> QED BY <2>2, <2>4
<1> HIDE DEF fromShots
<1>3. \A n, o \in first : n.term = o.term /\ n.mkt = o.mkt => n.cites = o.cites
  <2> SUFFICES ASSUME NEW n \in first, NEW o \in first, n.term = o.term, n.mkt = o.mkt
               PROVE  n.cites = o.cites
    OBVIOUS
  <2>1. Sooner(n, o) /\ Sooner(o, n) /\ n \in fromShots /\ o \in fromShots
    OBVIOUS
  <2>2. n.by \in Nat /\ o.by \in Nat /\ n.cites \in Nat /\ o.cites \in Nat
    BY <1>2, <2>1
  <2>3. n.by = o.by
    BY <2>1, <2>2
  <2>4. n.late \in BOOLEAN /\ o.late \in BOOLEAN
    BY <1>2, <2>1
  <2>5. n.late = o.late
    <3>1. \/ n.late # o.late /\ o.late
          \/ n.late = o.late
      BY <2>1, <2>2, <2>3
    <3>2. \/ o.late # n.late /\ n.late
          \/ n.late = o.late
      BY <2>1, <2>2, <2>3
    <3> QED BY ONLY <2>4, <3>1, <3>2
  <2>6. n.cites >= o.cites /\ o.cites >= n.cites
    BY <2>1, <2>2, <2>3, <2>5
  <2> QED BY <2>2, <2>6
<1> HIDE DEF first
<1>4. \A n, o \in chosen : n.term = o.term /\ n.mkt = o.mkt => n = o
  <2> SUFFICES ASSUME NEW n \in chosen, NEW o \in chosen, n.term = o.term, n.mkt = o.mkt
               PROVE  n = o
    OBVIOUS
  <2>1. PICK f \in first : n = [term |-> f.term, mkt |-> f.mkt, cites |-> f.cites]
    OBVIOUS
  <2>2. PICK g \in first : o = [term |-> g.term, mkt |-> g.mkt, cites |-> g.cites]
    OBVIOUS
  <2>3. f.term = g.term /\ f.mkt = g.mkt
    BY <2>1, <2>2
  <2> QED BY <1>3, <2>1, <2>2, <2>3
<1>5. \A n, o \in added : n.term = o.term => n = o
  <2> SUFFICES ASSUME NEW n \in added, NEW o \in added, n.term = o.term PROVE n = o
    OBVIOUS
  <2>1. n \in fromFrontier /\ o \in fromFrontier
    OBVIOUS
  <2> HIDE DEF near0
  <2>2. PICK t \in extras : n = [term |-> t, mkt |-> candidates[Min(near0(t))].mkt, cites |-> 0]
    BY <2>1
  <2>3. PICK u \in extras : o = [term |-> u, mkt |-> candidates[Min(near0(u))].mkt, cites |-> 0]
    BY <2>1
  <2>4. n.term = t /\ o.term = u
    BY <2>2, <2>3
  <2>5. t = u
    BY <2>4
  <2> QED BY <2>2, <2>3, <2>5
<1>6. \A n \in chosen, o \in added : n.term # o.term \/ n.mkt # o.mkt
  <2> SUFFICES ASSUME NEW n \in chosen, NEW o \in added PROVE n.term # o.term \/ n.mkt # o.mkt
    OBVIOUS
  <2>1. PICK f \in first : n = [term |-> f.term, mkt |-> f.mkt, cites |-> f.cites]
    OBVIOUS
  <2>2. f \in fromShots
    BY DEF first
  <2> QED BY <2>1, <2>2
<1> HIDE DEF chosen, added
<1> QED BY <1>1, <1>4, <1>5, <1>6

\* A round starts with neighbours that are no candidates.
LEMMA StartRoundRing == ASSUME Shelves, Ring, StartRound PROVE Ring'
<1>1. ledger' = ledger
  BY DEF StartRound, durable
<1>2. CASE UNCHANGED <<pc, adjacency>>
  BY <1>1, <1>2 DEF Ring, NeighbourOnce, adjacency
<1>3. CASE pc' = "adjacent" /\ near' \in Foremost(Beside)
  <2> DEFINE shots == ToSet(evidence)
             extras == ToSet(preflight.map["frontier"].found)
  <2>1. DOMAIN ListOrder \subseteq Nat
    <3>1. Len(ledger) \in Nat
      BY SequenceIsSeq DEF Shelves
    <3> QED BY <3>1 DEF ListOrder, Reverse
  <2>2. \A s \in shots : s.at \in Nat
    BY DEF Shelves, ToSet
  <2>3. Beside = Neighbors(ListOrder, shots, extras, Known)
    BY DEF Beside
  <2> HIDE DEF shots, extras
  <2>4. \A n, o \in Beside : /\ n.term \notin Known
                             /\ n.term = o.term /\ n.mkt = o.mkt => n = o
    BY <2>1, <2>2, <2>3, NeighborsOnce
  <2>5. near' \subseteq Beside
    BY <1>3 DEF Foremost
  <2>6. \A n \in near', i \in DOMAIN ledger : ledger[i].niche # n.term
    BY <2>4, <2>5 DEF Known, Labels
  <2> QED BY <1>1, <1>3, <2>4, <2>5, <2>6 DEF Ring, NeighbourOnce
<1> QED BY <1>2, <1>3 DEF StartRound

\* A candidate of another niche or market is added.
LEMMA AddedRing ==
  ASSUME Shelves, Ring, NEW c, ledger' = Append(ledger, c), near' \subseteq near,
         \A i \in DOMAIN ledger : ledger[i].niche # c.niche \/ ledger[i].mkt # c.mkt,
         \A n \in near' : n.term # c.niche \/ n.mkt # c.mkt,
         pc' = pc
  PROVE  Ring'
<1>1. PICK k : /\ k \notin DOMAIN ledger /\ ledger'[k] = c
               /\ DOMAIN ledger' = DOMAIN ledger \cup {k}
  BY LedgerAppend
<1>2. \A i \in DOMAIN ledger : ledger'[i] = ledger[i]
  BY LedgerAppend
<1>3. NeighbourOnce'
  BY <1>1, <1>2 DEF Ring, NeighbourOnce
<1>4. \A n \in near', i \in DOMAIN ledger' : ledger'[i].niche # n.term \/ ledger'[i].mkt # n.mkt
  BY <1>1, <1>2 DEF Ring
<1> QED BY <1>3, <1>4 DEF Ring

LEMMA MeasureRing == ASSUME Shelves, Ring, Measure PROVE Ring'
<1>1. PICK n \in Nearest :
        /\ near' = near \ {n}
        /\ ledger' = ledger \/ ledger' = Append(ledger, Candidate(n.term, n.mkt, TRUE))
  BY DEF Measure
<1>2. n \in near /\ pc' = pc
  BY DEF Nearest, Measure, PhaseFrame
<1>3. CASE ledger' = ledger
  BY <1>1, <1>2, <1>3 DEF Ring, NeighbourOnce
<1>4. CASE ledger' = Append(ledger, Candidate(n.term, n.mkt, TRUE))
  <2> DEFINE c == Candidate(n.term, n.mkt, TRUE)
  <2>1. c.niche = n.term /\ c.mkt = n.mkt
    BY DEF Candidate
  <2>2. \A i \in DOMAIN ledger : ledger[i].niche # c.niche \/ ledger[i].mkt # c.mkt
    BY <1>2, <2>1 DEF Ring
  <2>3. \A o \in near' : o.term # c.niche \/ o.mkt # c.mkt
    BY <1>1, <1>2, <2>1 DEF Ring
  <2> HIDE DEF c
  <2> QED BY <1>1, <1>2, <1>4, <2>2, <2>3, AddedRing DEF c
<1> QED BY <1>1, <1>3, <1>4

LEMMA ListRing == ASSUME Shelves, Ring, List PROVE Ring'
<1>1. PICK n : n \notin Labels /\ ledger' = Append(ledger, Candidate(n, Market[1], FALSE))
  BY DEF List
<1>2. near = {} /\ near' = near /\ pc' = pc
  BY DEF List, Ring, PhaseFrame, adjacency
<1> DEFINE c == Candidate(n, Market[1], FALSE)
<1>3. c.niche = n
  BY DEF Candidate
<1>4. \A i \in DOMAIN ledger : ledger[i].niche # c.niche
  BY <1>1, <1>3 DEF Labels
<1> HIDE DEF c
<1> QED BY <1>1, <1>2, <1>4, AddedRing DEF c

LEMMA JudgeRing == ASSUME Shelves, Ring, Judge PROVE Ring'
<1>1. PICK i, v : /\ ledger[i].status = "discovered" /\ i \in DOMAIN ledger
                  /\ ledger' = [ledger EXCEPT ![i].status = v]
  BY DEF Judge
<1>2. near' = near /\ pc' = pc
  BY DEF Judge, PhaseFrame, adjacency
<1>3. DOMAIN ledger' = DOMAIN ledger
  BY <1>1
<1>4. \A k \in DOMAIN ledger : k # i => ledger'[k] = ledger[k]
  BY <1>1
<1>5. ledger'[i] = [ledger[i] EXCEPT !.status = v]
  BY <1>1
<1>6. ledger'[i].niche = ledger[i].niche /\ ledger'[i].mkt = ledger[i].mkt
  BY <1>5
<1>7. \A k \in DOMAIN ledger : ledger'[k].niche = ledger[k].niche /\ ledger'[k].mkt = ledger[k].mkt
  BY <1>4, <1>6
<1> QED BY <1>2, <1>3, <1>7 DEF Ring, NeighbourOnce

\* A step that adds no candidate and no neighbour.
LEMMA RingStill ==
  ASSUME Ring, ledger' = ledger, near' \subseteq near,
         near' = {} \/ pc' = "adjacent"
  PROVE  Ring'
BY DEF Ring, NeighbourOnce

LEMMA NextRing == ASSUME Shelves, Ring, [Next]_vars PROVE Ring'
<1>1. CASE Overflow
  BY <1>1, RingStill DEF Overflow, PhaseFrame
<1>2. CASE RoundEnds
  BY <1>2, RingStill DEF RoundEnds
<1>3. CASE Resume \/ Crash
  BY <1>3, RingStill DEF Resume, Crash, NewRunner, durable
<1>4. CASE Enter \/ Census \/ Frontier \/ PreflightOver
  <2>1. pc # "adjacent" /\ near' = near /\ ledger' = ledger
    <3>1. CASE Enter
      BY <3>1 DEF Enter, adjacency
    <3>2. CASE Census
      BY <3>2 DEF Census, VisitChart, VisitNode, MarketDone, CensusCut, CensusOver, CensusFrame,
                  adjacency
    <3>3. CASE Frontier
      BY <3>3 DEF Frontier, OpenPage, Opened, PageDies, Ask, NextRound, Mine, FrontierOver,
                  FrontierFrame, WalkFrame, adjacency
    <3>4. CASE PreflightOver
      BY <3>4 DEF PreflightOver, adjacency
    <3> QED BY <1>4, <3>1, <3>2, <3>3, <3>4
  <2> QED BY <2>1, RingStill DEF Ring
<1>5. CASE Shot \/ Harvest \/ OtherHarvest \/ DeadlinePasses \/ AskStop \/ Halt \/ UNCHANGED vars
  <2>1. near' = near /\ ledger' = ledger /\ (pc' = pc \/ pc = "phases")
    BY <1>5 DEF Shot, Harvest, OtherHarvest, DeadlinePasses, AskStop, Halt, PhaseFrame, adjacency,
                durable, vars
  <2> QED BY <2>1, RingStill DEF Ring
<1> QED BY <1>1, <1>2, <1>3, <1>4, <1>5, StartRoundRing, MeasureRing, ListRing, JudgeRing
    DEF Next, Adjacency

-----------------------------------------------------------------------------
(* What is remembered *)

Measured == {"keyword", "competitor", "category"}

\* A capture that shows a key, once stored, shows it for good.
LEMMA SaidStill ==
  ASSUME MeasuredWhenSaid, Grows,
         \A k \in DOMAIN memory' : memory'[k].by = "mine" /\ k[1] \in Measured =>
           \/ k \in DOMAIN memory /\ memory[k] = memory'[k]
           \/ \E i \in DOMAIN evidence :
                evidence[i].at = memory'[k].at /\ k \in Facts(evidence[i])
  PROVE  MeasuredWhenSaid'
<1> SUFFICES ASSUME NEW k \in DOMAIN memory', memory'[k].by = "mine", k[1] \in Measured
             PROVE  \E i \in DOMAIN evidence' :
                      evidence'[i].at = memory'[k].at /\ k \in Facts(evidence'[i])
  BY DEF MeasuredWhenSaid, Measured
<1>1. PICK i \in DOMAIN evidence : evidence[i].at = memory'[k].at /\ k \in Facts(evidence[i])
  BY DEF MeasuredWhenSaid, Measured
<1>2. i \in DOMAIN evidence' /\ evidence'[i] = evidence[i]
  BY DEF Grows
<1> QED BY <1>1, <1>2

\* The capture with the last word on a key shows it.
LEMMA LastReadShows ==
  ASSUME Shelves, NEW k, NEW j \in DOMAIN evidence, k \in Facts(evidence[j])
  PROVE  LastRead(k) \in DOMAIN evidence /\ k \in Facts(evidence[LastRead(k)])
<1> DEFINE S == {i \in DOMAIN evidence : k \in Facts(evidence[i])}
<1>1. PICK n \in Nat : DOMAIN evidence = 1..n
  BY DEF Shelves, IsSequence
<1>2. \E i \in S : \A o \in S : i <= o
  <2>1. S \in SUBSET (1..n) /\ S # {}
    BY <1>1
  <2> HIDE DEF S
  <2> QED BY <2>1, LeastOfSome
<1>3. PICK i \in S : \A o \in S : i <= o
  BY <1>2
<1>4. \A o \in 1..(i - 1) : k \notin Facts(evidence[o])
  BY <1>1, <1>3
<1> QED BY <1>3, <1>4 DEF LastRead

LEMMA HarvestSaid == ASSUME Shelves, MeasuredWhenSaid, Harvest PROVE MeasuredWhenSaid'
<1> DEFINE verified == Upsert(memory, Standing("verified"), clock, "mine")
           niches == Upsert(verified, Standing("discovered"), clock, "mine")
           shown == UNION {Facts(evidence[i]) : i \in DOMAIN evidence}
<1>1. memory' = [k \in DOMAIN niches \cup shown |->
                  IF k \in shown THEN Remembered(k) ELSE niches[k]]
  BY DEF Harvest
<1>2. Grows
  BY DEF Harvest, Grows
<1>3. \A k \in Standing("verified") \cup Standing("discovered") : k[1] \notin Measured
  BY DEF Standing, Measured
<1>4. \A k \in DOMAIN niches : k[1] \in Measured => k \in DOMAIN memory /\ niches[k] = memory[k]
  BY <1>3 DEF Upsert
<1> HIDE DEF niches
<1>5. ASSUME NEW k \in DOMAIN memory', memory'[k].by = "mine", k[1] \in Measured
      PROVE  \/ k \in DOMAIN memory /\ memory[k] = memory'[k]
             \/ \E i \in DOMAIN evidence :
                  evidence[i].at = memory'[k].at /\ k \in Facts(evidence[i])
  <2>1. CASE k \in shown
    <3>1. PICK j \in DOMAIN evidence : k \in Facts(evidence[j])
      BY <2>1
    <3>2. LastRead(k) \in DOMAIN evidence /\ k \in Facts(evidence[LastRead(k)])
      BY <3>1, LastReadShows
    <3>3. memory'[k] = Remembered(k)
      BY <1>1, <1>5, <2>1
    <3>4. memory'[k].at = evidence[LastRead(k)].at
      BY <3>3 DEF Remembered
    <3> QED BY <3>2, <3>4
  <2>2. CASE k \notin shown
    <3> HIDE DEF shown
    <3>1. k \in DOMAIN niches /\ memory'[k] = niches[k]
      BY <1>1, <1>5, <2>2
    <3> QED BY <1>4, <1>5, <3>1
  <2> QED BY <2>1, <2>2
<1> QED BY <1>2, <1>5, SaidStill

LEMMA NextSaid == ASSUME Shelves, MeasuredWhenSaid, [Next]_vars, Grows PROVE MeasuredWhenSaid'
<1>1. CASE Harvest
  BY <1>1, HarvestSaid
<1>2. CASE OtherHarvest
  <2>1. PICK s : memory' = Upsert(memory, Facts(s), clock + 1, "other")
    BY <1>2 DEF OtherHarvest
  <2>2. ASSUME NEW k \in DOMAIN memory', memory'[k].by = "mine"
        PROVE  k \in DOMAIN memory /\ memory[k] = memory'[k]
    <3>1. k \in DOMAIN memory \cup Facts(s)
          /\ memory'[k] = IF k \in Facts(s) THEN [at |-> clock + 1, by |-> "other"] ELSE memory[k]
      BY <2>1, <2>2 DEF Upsert
    <3>2. k \notin Facts(s)
      BY <2>2, <3>1
    <3> QED BY <3>1, <3>2
  <2> QED BY <2>2, SaidStill
<1>3. CASE memory' = memory
  BY <1>3, SaidStill
<1>4. Harvest \/ OtherHarvest \/ memory' = memory
  <2>1. CASE \/ Enter \/ PreflightOver \/ Resume \/ Crash \/ DeadlinePasses \/ AskStop \/ Halt
             \/ UNCHANGED vars
    BY <2>1 DEF Enter, PreflightOver, Resume, Crash, NewRunner, DeadlinePasses,
            AskStop, Halt, durable, vars
  <2>2. CASE Census
    BY <2>2 DEF Census, VisitChart, VisitNode, MarketDone, CensusCut, CensusOver, CensusFrame
  <2>3. CASE Frontier
    BY <2>3 DEF Frontier, OpenPage, Opened, PageDies, Ask, NextRound, Mine, FrontierOver,
                FrontierFrame, WalkFrame
  <2>4. CASE Adjacency
    BY <2>4 DEF Adjacency, StartRound, Overflow, Measure, RoundEnds, durable
  <2>5. CASE Shot \/ List \/ Judge
    BY <2>5 DEF Shot, List, Judge
  <2> QED BY <2>1, <2>2, <2>3, <2>4, <2>5 DEF Next
<1> QED BY <1>1, <1>2, <1>3, <1>4

-----------------------------------------------------------------------------
(* The theorems *)

LEMMA InitDInv == Init => DInv
<1> SUFFICES ASSUME Init PROVE DInv
  OBVIOUS
<1>1. IsSequence(evidence) /\ IsSequence(ledger)
  <2>1. <<>> = [i \in 1..0 |-> <<>>[i]]
    OBVIOUS
  <2> QED BY <2>1 DEF Init, IsSequence
<1>2. Shelves
  BY <1>1, FS_EmptySet DEF Init, Shelves
<1>3. NoMap.state # "made" /\ NewSpot.cut = FALSE
  BY DEF NoMap, NewSpot
<1>4. Maps
  BY <1>3 DEF Init, Maps, MapIsWhole
<1>5. Ring /\ MeasuredWhenSaid
  BY DEF Init, Ring, NeighbourOnce, MeasuredWhenSaid
<1> QED BY <1>2, <1>4, <1>5 DEF DInv

LEMMA NextDInv == DInv /\ [Next]_vars => DInv'
<1> SUFFICES ASSUME DInv, [Next]_vars PROVE DInv'
  OBVIOUS
<1>1. Shelves /\ Maps /\ Ring /\ MeasuredWhenSaid
  BY DEF DInv
<1>2. Shelves' /\ Grows
  BY <1>1, CensusShelves, FrontierShelves, PhaseShelves, AdjacencyShelves, OtherShelves DEF Next
<1>3. Maps'
  BY <1>1, NextMaps
<1>4. Ring'
  BY <1>1, NextRing
<1>5. MeasuredWhenSaid'
  BY <1>1, <1>2, NextSaid
<1> QED BY <1>2, <1>3, <1>4, <1>5 DEF DInv

\* The inductive invariant holds of every run.
THEOREM Inductive == Spec => []DInv
BY InitDInv, NextDInv, PTL DEF Spec

\* A walk that a pause or a cancel has cut short is never recorded as the map of the market
\* (_discovery_preflight), whatever is stopped, resumed, lost or killed and in whatever order.
THEOREM WholeMaps == Spec => []MapIsWhole
<1>1. DInv => MapIsWhole
  BY DEF DInv, Maps
<1> QED BY <1>1, Inductive, PTL

\* No half whose map is on its checkpoint is walked again (_discovery_preflight), by this run
\* or a later one.
THEOREM NotWalkedTwice == Spec => []NothingWalkedTwice
<1>1. DInv => NothingWalkedTwice
  BY DEF DInv, Maps, NothingWalkedTwice
<1> QED BY <1>1, Inductive, PTL

\* No neighbour becomes a candidate of one market twice (gather_neighbors, _adjacency_expand),
\* whatever the captures suggest and however often a round is repeated.
THEOREM NeighboursAreNew == Spec => []NeighbourOnce
<1>1. DInv => NeighbourOnce
  BY DEF DInv, Ring
<1> QED BY <1>1, Inductive, PTL

\* What this session has written of a measurement carries the time of a capture that shows it
\* (harvest_session), however often it harvests and whatever other sessions write.
THEOREM MemoryIsMeasured == Spec => []MeasuredWhenSaid
<1>1. DInv => MeasuredWhenSaid
  BY DEF DInv
<1> QED BY <1>1, Inductive, PTL
===============================================================================
