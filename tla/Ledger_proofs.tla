---------------------------- MODULE Ledger_proofs ----------------------------
(***************************************************************************)
(* Theorems about Ledger, for any replies of the model, any facts, any     *)
(* thresholds and any number of passes and crashes.  The first inductive   *)
(* invariant, IInv, has four parts: types; Flow, which phases of the pass  *)
(* have their output when; Open candidates, which are the pipeline's; and  *)
(* what the engine's rulings rest on.  The second, LInv, says where each   *)
(* niche stands: on the ledger once, in the backlog, or among the rows     *)
(* still to be written.                                                    *)
(***************************************************************************)
EXTENDS Ledger, FiniteSetTheorems, SequenceTheorems, WellFoundedInduction, TLAPS

Types ==
  /\ ledger \in Seq(CandidateRows) /\ seen \in Nat
  /\ DOMAIN outputs = Phases /\ DOMAIN saved = Phases
  /\ \A p \in Phases : saved[p].rows \in Seq(Rows[p]) /\ outputs[p] \in Seq(Rows[p])
  /\ pivots \in Nat /\ refills \in Nat /\ post \in Int /\ post <= Pass
  /\ pc \in {"reply", "effects", "marker", "pipeline", "gate", "report", "done"}
  /\ phase \in Phases
  /\ merged \in Seq(Rows[phase]) /\ work \subseteq DOMAIN merged
  /\ queue \subseteq Places
  /\ pc # "effects" => work = {}
  /\ pc \notin {"effects", "marker"} => merged = <<>>

\* The phases are entered in their order, and what is marked was judged.
Flow ==
  /\ pc \in {"pipeline", "gate"} => phase = "adversarial" /\ Judged
  /\ pc \in {"report", "done"} => phase = "synthesis"
  /\ phase \in {"analysis", "adversarial", "synthesis"} => Done("niching")
  /\ phase \in {"adversarial", "synthesis"} => Done("analysis")
  /\ phase = "synthesis" => Done("adversarial")
  /\ Marked => phase = "synthesis"

Decided(i) == ledger[i].status # "discovered"

\* Who is not decided about is the pipeline's to judge; later nobody is left.
NoneForgotten ==
  /\ pc = "pipeline" => \A i \in Places \ queue : Decided(i)
  /\ pc = "gate" \/ phase = "synthesis" => \A i \in Places : Decided(i)

\* Claims cite stored captures, and the engine passes a candidate on one.
Rulings ==
  /\ IsFiniteSet(claims)
  /\ \A x \in claims : x.cites \subseteq Stored
  /\ PassedOnObservation
  /\ report = "final" =>
       pc = "done" /\ \A i \in DOMAIN dossiers : \E v \in Passing : <<dossiers[i].cand, v>> \in rulings

IInv == Types /\ Flow /\ NoneForgotten /\ Rulings

-----------------------------------------------------------------------------
(* Lemmas *)

\* A finite set of numbers that is not empty has a first one.
LEMMA FirstIsIn ==
  ASSUME NEW S \in SUBSET Nat, IsFiniteSet(S), S # {}
  PROVE  First(S) \in S /\ \A j \in S : First(S) <= j
<1> DEFINE upto == [i \in S |-> {j \in S : j <= i}]
           T == {upto[i] : i \in S}
<1>1. IsWellFoundedOn(StrictSubsetOrdering(S), SUBSET S)
  BY FS_StrictSubsetOrderingWellFounded, FS_FiniteSubsetsOfFinite
<1>2. T \subseteq SUBSET S /\ T # {}
  OBVIOUS
<1>3. \E x \in T : \A y \in T : <<y, x>> \notin StrictSubsetOrdering(S)
  <2> HIDE DEF T
  <2> QED BY <1>1, <1>2, WFMin
<1>4. PICK i \in S : \A y \in T : <<y, upto[i]>> \notin StrictSubsetOrdering(S)
  BY <1>3
<1>5. \A j \in S : i <= j
  <2> SUFFICES ASSUME NEW j \in S, ~(i <= j) PROVE FALSE
    OBVIOUS
  <2>1. j < i /\ i \in Nat /\ j \in Nat
    OBVIOUS
  <2>2. upto[j] \subseteq upto[i]
    <3>1. \A k \in S : k <= j => k <= i
      BY <2>1
    <3> QED BY <3>1
  <2>3. i \in upto[i] /\ i \notin upto[j]
    BY <2>1
  <2>4. <<upto[j], upto[i]>> \in StrictSubsetOrdering(S)
    BY <2>2, <2>3 DEF StrictSubsetOrdering
  <2> QED BY <1>4, <2>4
<1> QED BY <1>5 DEF First

\* Induction over the numbers, with a set for the property.
LEMMA SetInduction ==
  ASSUME NEW S, 0 \in S, \A n \in Nat : n \in S => n + 1 \in S
  PROVE  \A n \in Nat : n \in S
<1> SUFFICES ASSUME NEW n \in Nat, n \notin S PROVE FALSE
  OBVIOUS
<1> DEFINE T == {m \in 0..n : m \notin S}
<1>1. T \subseteq Nat /\ IsFiniteSet(T) /\ n \in T
  <2>1. IsFiniteSet(0..n) /\ T \subseteq 0..n
    BY FS_Interval
  <2> QED BY <2>1, FS_Subset
<1>2. PICK k \in T : \A j \in T : k <= j
  <2> HIDE DEF T
  <2> QED BY <1>1, FirstIsIn
<1>3. k \in Nat /\ k # 0 /\ k - 1 \in 0..n
  BY <1>2
<1>4. k - 1 \in S
  BY <1>2, <1>3
<1> QED BY <1>2, <1>3, <1>4

\* A row of an analysis may create a candidate: what is said of it and of the rows before.
FreshAt(h, rows, i) ==
  /\ rows[i].niche \in Long
  /\ rows[i].niche \notin Labels
  /\ \A m \in Labels : ~Kin(rows[i].niche, m)
  /\ \A j \in 1..(i - 1) :
       h[j] => /\ rows[j].niche # rows[i].niche
               /\ ~Kin(rows[j].niche, rows[i].niche)

\* There is a function that says it of every row.
LEMMA FreshExists ==
  ASSUME NEW rows \in Seq(AnalysisRows)
  PROVE  \E h : h = [i \in DOMAIN rows |-> FreshAt(h, rows, i)]
<1> DEFINE S == {n \in Nat : \E h : h = [i \in 1..n |-> FreshAt(h, rows, i)]}
<1>1. 0 \in S
  <2> DEFINE h == [i \in 1..0 |-> TRUE]
  <2>1. h = [i \in 1..0 |-> FreshAt(h, rows, i)]
    OBVIOUS
  <2> QED BY <2>1
<1>2. ASSUME NEW n \in Nat, n \in S PROVE n + 1 \in S
  <2>1. PICK h : h = [i \in 1..n |-> FreshAt(h, rows, i)]
    BY <1>2
  <2> DEFINE g == [i \in 1..(n + 1) |-> FreshAt(h, rows, i)]
  <2>2. \A j \in 1..n : h[j] = FreshAt(h, rows, j) /\ g[j] = FreshAt(h, rows, j)
    <3> HIDE DEF FreshAt
    <3> QED BY <2>1
  <2>3. \A j \in 1..n : g[j] = h[j]
    BY <2>2
  <2>4. \A i \in 1..(n + 1) : FreshAt(g, rows, i) = FreshAt(h, rows, i)
    <3> HIDE DEF g
    <3>1. \A i \in 1..(n + 1) : \A j \in 1..(i - 1) : j \in 1..n
      OBVIOUS
    <3> QED BY <2>3, <3>1 DEF FreshAt
  <2>5. g = [i \in 1..(n + 1) |-> FreshAt(g, rows, i)]
    BY <2>4
  <2> HIDE DEF g
  <2> QED BY <2>5
<1>3. \A n \in Nat : n \in S
  <2> HIDE DEF S
  <2> QED BY <1>1, <1>2, SetInduction
<1>4. DOMAIN rows = 1..Len(rows) /\ Len(rows) \in Nat
  OBVIOUS
<1> QED BY <1>3, <1>4

\* FreshRows finds markets of which the ledger has none, each of them once; every other
\* market of the rows is on the ledger or near one that is, or found.
LEMMA FreshFacts ==
  ASSUME NEW rows \in Seq(AnalysisRows)
  PROVE  /\ FreshRows(rows) \subseteq DOMAIN rows
         /\ \A i \in FreshRows(rows) : rows[i].niche \notin Labels
         /\ \A i, j \in FreshRows(rows) : rows[i].niche = rows[j].niche => i = j
         /\ \A i \in DOMAIN rows : rows[i].niche \in Long =>
              \/ \E m \in Labels : m = rows[i].niche \/ Kin(rows[i].niche, m)
              \/ \E j \in FreshRows(rows) :
                   rows[j].niche = rows[i].niche \/ Kin(rows[i].niche, rows[j].niche)
<1> DEFINE F == FreshRows(rows)
           h == CHOOSE g : g = [i \in DOMAIN rows |-> FreshAt(g, rows, i)]
<1>1. h = [i \in DOMAIN rows |-> FreshAt(h, rows, i)]
  BY FreshExists
<1>2. F = {i \in DOMAIN rows : h[i]}
  BY DEF FreshRows, FreshAt
<1> HIDE DEF F, h
<1>3. \A i \in DOMAIN rows : i \in F <=> FreshAt(h, rows, i)
  BY <1>1, <1>2
<1>4. \A j \in DOMAIN rows : h[j] <=> j \in F
  BY <1>2
<1>5. DOMAIN rows = 1..Len(rows) /\ Len(rows) \in Nat
  OBVIOUS
<1>6. \A i \in F : \A j \in F : j < i => rows[j].niche # rows[i].niche
  BY <1>2, <1>3, <1>5 DEF FreshAt
<1>7. \A i, j \in F : rows[i].niche = rows[j].niche => i = j
  BY <1>2, <1>5, <1>6
<1>8. ASSUME NEW i \in DOMAIN rows, rows[i].niche \in Long, i \notin F
      PROVE  \/ \E m \in Labels : m = rows[i].niche \/ Kin(rows[i].niche, m)
             \/ \E j \in F : rows[j].niche = rows[i].niche \/ Kin(rows[i].niche, rows[j].niche)
  <2>1. ~FreshAt(h, rows, i)
    BY <1>3, <1>8
  <2>2. \A j \in 1..(i - 1) : j \in DOMAIN rows
    BY <1>5
  <2>3. \A n, m : Kin(n, m) => Kin(m, n)
    BY DEF Kin
  <2> QED BY <1>4, <1>8, <2>1, <2>2, <2>3 DEF FreshAt
<1>9. F \subseteq DOMAIN rows /\ \A i \in F : rows[i].niche \notin Labels
  BY <1>2, <1>3 DEF FreshAt
<1> QED BY <1>7, <1>8, <1>9 DEF F

\* A function on the first n numbers is a sequence.
LEMMA IsRows ==
  ASSUME NEW S, NEW n \in Nat, NEW s \in [1..n -> S]
  PROVE  s \in Seq(S)
BY SeqDef

\* The places of a sequence are finitely many numbers.
LEMMA PlacesFinite ==
  ASSUME NEW S, NEW s \in Seq(S)
  PROVE  IsFiniteSet(DOMAIN s) /\ DOMAIN s \subseteq Nat
<1>1. DOMAIN s = 1..Len(s) /\ Len(s) \in Nat
  OBVIOUS
<1> QED BY <1>1, FS_Interval

\* The row whose effects are next is a row of the phase.
LEMMA HereIsRow ==
  ASSUME Types, work # {}
  PROVE  Here \in Rows[phase]
<1>1. work \subseteq Nat /\ IsFiniteSet(work)
  BY PlacesFinite, FS_Subset DEF Types
<1>2. First(work) \in DOMAIN merged
  BY <1>1, FirstIsIn DEF Types
<1> QED BY <1>2, ElementOfSeq DEF Here, Types

\* What is registered for a candidate is finite, is about it and cites stored captures.
LEMMA RegisteredFacts ==
  ASSUME Types, NEW c \in Places
  PROVE  /\ IsFiniteSet(Registered(c))
         /\ \A x \in Registered(c) : x.cand = c /\ x.cites \subseteq Stored
<1> DEFINE rows == outputs["analysis"]
           f == [i \in DOMAIN rows |->
                  [cand |-> c, kind |-> rows[i].kind, statement |-> rows[i].statement,
                   cites |-> Valid(rows[i].cites)]]
           seed == [cand |-> c, kind |-> "demand", statement |-> "seed",
                    cites |-> Valid(ledger[c].seed)]
           T == {f[i] : i \in DOMAIN rows}
<1>1. IsFiniteSet(DOMAIN rows)
  BY PlacesFinite DEF Types, Phases
<1>2. IsFiniteSet(T)
  <2>1. f \in Surjection(DOMAIN rows, T)
    BY DEF Surjection
  <2> HIDE DEF f, T
  <2> QED BY <1>1, <2>1, FS_Surjection
<1>3. Registered(c) \subseteq T \cup {seed}
  BY DEF Registered
<1>4. IsFiniteSet(T \cup {seed})
  <2> HIDE DEF T, seed
  <2> QED BY <1>2, FS_AddElement
<1>5. \A x \in T \cup {seed} : x.cand = c /\ x.cites \subseteq Stored
  <2>1. ASSUME NEW x \in T PROVE x.cand = c /\ x.cites \subseteq Stored
    <3>1. PICK i \in DOMAIN rows : x = f[i]
      BY <2>1
    <3>2. rows[i] \in AnalysisRows
      BY ElementOfSeq DEF Types, Phases, Rows
    <3>3. x.cand = c /\ x.cites = Valid(rows[i].cites) /\ rows[i].cites \subseteq Records
      BY <3>1, <3>2 DEF AnalysisRows
    <3> QED BY <3>3 DEF Valid, Stored
  <2>2. ledger[c] \in CandidateRows
    BY ElementOfSeq DEF Types, Places
  <2>3. seed.cand = c /\ seed.cites \subseteq Stored
    BY <2>2 DEF Valid, Stored, CandidateRows
  <2> HIDE DEF T, seed
  <2> QED BY <2>1, <2>3
<1> HIDE DEF T, seed
<1> QED BY <1>3, <1>4, <1>5, FS_Subset

\* The engine passes a candidate on a claim that cites a capture it does not know for an
\* estimate.
LEMMA PassingRests ==
  ASSUME NEW n, NEW cs, IsFiniteSet(cs), NEW said,
         Audit(n, Relevant(n, cs), cs, said) \in Passing
  PROVE  \E x \in cs : \E r \in x.cites : r \notin Recent \/ ~Facts[r].estimate
<1> DEFINE est == Estimates(Relevant(n, cs))
<1>1. ClaimsOk(cs, est)
  BY DEF Audit, Passing
<1>2. cs # {} /\ Share(Cardinality(cs) - Cardinality(Unsupported(cs, est)), Cardinality(cs), SupportedPct)
  BY <1>1 DEF ClaimsOk
<1>3. Cardinality(cs) \in Nat /\ Cardinality(cs) # 0
  BY <1>2, FS_CardinalityType, FS_EmptySet
<1>4. SUFFICES ASSUME \A x \in cs : \A r \in x.cites : r \in Recent /\ Facts[r].estimate
               PROVE  FALSE
  OBVIOUS
<1>5. \A x \in cs : \A r \in x.cites : r \in est
  BY <1>4 DEF Estimates, Relevant
<1>6. Unsupported(cs, est) = cs
  <2> HIDE DEF est
  <2> QED BY <1>5 DEF Unsupported, EstimateBacked
<1>7. SupportedPct \in Nat /\ SupportedPct >= 1
  BY ThresholdAssumption
<1>8. PICK k \in Nat \ {0} : k = Cardinality(cs)
  BY <1>3
<1>9. 100 * (k - k) >= SupportedPct * k
  BY <1>2, <1>6, <1>8 DEF Share
<1>10. SupportedPct * k >= 1
  BY <1>7, <1>8
<1> QED BY <1>7, <1>8, <1>9, <1>10

\* The ruling of an audit leaves no candidate undecided.
LEMMA RulingDecides ==
  ASSUME NEW v
  PROVE  StatusAfter(v) \in Statuses \ {"discovered"}
BY DEF StatusAfter, Statuses

\* What passes does so on observation still when claims are added and nothing is captured.
LEMMA RestsStill ==
  ASSUME NEW c, RestsOnPage(c), claims \subseteq claims', seen' = seen
  PROVE  RestsOnPage(c)'
BY DEF RestsOnPage, ClaimsOf, Recent

\* A step that leaves alone what the engine has said, and delivers no report.
LEMMA RulingsStill ==
  ASSUME Rulings, UNCHANGED <<claims, rulings, seen>>, report' # "final"
  PROVE  Rulings'
<1>1. \A c : RestsOnPage(c) => RestsOnPage(c)'
  BY RestsStill
<1> QED BY <1>1 DEF Rulings, PassedOnObservation, Stored

\* A report is final only at the end.
LEMMA NotFinal == ASSUME Rulings, pc # "done" PROVE report # "final"
BY DEF Rulings

\* A change of one candidate's status or score is one of the ledger's rows.
LEMMA RowChange ==
  ASSUME Types, NEW c, NEW s \in Statuses, NEW low \in BOOLEAN,
         ledger' = [ledger EXCEPT ![c].status = s, ![c].low = low]
  PROVE  /\ ledger' \in Seq(CandidateRows) /\ Places' = Places
         /\ \A i \in Places : i # c => ledger'[i] = ledger[i]
         /\ \A i \in Places : ledger'[i].niche = ledger[i].niche
         /\ c \in Places => ledger'[c].status = s
<1>1. ledger \in Seq(CandidateRows)
  BY DEF Types
<1>2. Len(ledger) \in Nat /\ Places = 1..Len(ledger)
  BY <1>1 DEF Places
<1>3. \A i \in Places : ledger[i] \in CandidateRows
  BY <1>1 DEF Places
<1>4. /\ DOMAIN ledger' = Places
      /\ \A i \in Places : i # c => ledger'[i] = ledger[i]
      /\ c \in Places => ledger'[c] = [ledger[c] EXCEPT !.status = s, !.low = low]
  BY DEF Places
<1>5. \A i \in Places : ledger'[i] \in CandidateRows
  BY <1>3, <1>4 DEF CandidateRows
<1>6. ledger' = [i \in 1..Len(ledger) |-> ledger'[i]]
  BY <1>2, <1>4
<1>7. ledger' \in Seq(CandidateRows)
  <2>1. \A i \in 1..Len(ledger) : ledger'[i] \in CandidateRows
    BY <1>2, <1>5
  <2>2. ledger' \in [1..Len(ledger) -> CandidateRows]
    BY <1>6, <2>1
  <2> QED BY <1>2, <2>2, IsRows
<1>8. c \in Places => ledger'[c].status = s /\ ledger'[c].niche = ledger[c].niche
  BY <1>3, <1>4 DEF CandidateRows
<1>9. \A i \in Places : ledger'[i].niche = ledger[i].niche
  BY <1>4, <1>8
<1> QED BY <1>4, <1>7, <1>8, <1>9 DEF Places

\* A step within a phase leaves the order of the phases as it was.
LEMMA SameFlow ==
  ASSUME Flow, UNCHANGED <<saved, pivots, refills, post, phase>>,
         pc' = pc \/ pc' \in {"reply", "effects", "marker"}
  PROVE  Flow'
BY DEF Flow, Judged, Done, Marked, Pass

\* A row's effects: the ledger keeps its rows and gains some, and synthesis leaves it alone.
LEMMA RowEffect ==
  ASSUME IInv, pc = "effects", RowDone,
         ledger' \in Seq(CandidateRows), Places \subseteq Places',
         phase = "synthesis" => ledger' = ledger
  PROVE  IInv'
<1>1. Types'
  BY DEF IInv, Types, RowDone, Pass
<1>2. Flow'
  BY SameFlow DEF IInv, RowDone
<1>3. NoneForgotten'
  BY DEF IInv, NoneForgotten, Decided, Places, RowDone
<1>4. Rulings'
  BY NotFinal, RulingsStill DEF IInv, RowDone
<1> QED BY <1>1, <1>2, <1>3, <1>4 DEF IInv

\* A created row is a row, and no other is touched.
LEMMA RowAdded ==
  ASSUME Types, NEW n \in Niches, NEW seed \in SUBSET Records,
         ledger' = Append(ledger, NewRow(n, seed))
  PROVE  /\ ledger' \in Seq(CandidateRows) /\ Places \subseteq Places'
         /\ Places' = 1..(Len(ledger) + 1) /\ Places = 1..Len(ledger)
         /\ \A i \in Places : ledger'[i] = ledger[i]
         /\ ledger'[Len(ledger) + 1].niche = n
<1>1. NewRow(n, seed) \in CandidateRows
  BY DEF NewRow, CandidateRows, Statuses
<1>2. ledger \in Seq(CandidateRows) /\ Len(ledger) \in Nat
  BY DEF Types
<1>3. ledger' \in Seq(CandidateRows) /\ Len(ledger') = Len(ledger) + 1
  BY <1>1, <1>2, AppendProperties
<1>4. Places = 1..Len(ledger) /\ Places' = 1..Len(ledger')
  BY <1>2, <1>3 DEF Places
<1>5. \A i \in Places : ledger'[i] = ledger[i]
  BY <1>1, <1>2, <1>4, AppendProperties
<1>6. ledger'[Len(ledger) + 1] = NewRow(n, seed)
  BY <1>1, <1>2, AppendProperties
<1> QED BY <1>2, <1>3, <1>4, <1>5, <1>6 DEF NewRow

-----------------------------------------------------------------------------
(* The steps of a phase *)

LEMMA CaptureStep == ASSUME IInv, Capture PROVE IInv'
<1>1. seen \in Nat /\ seen' = seen + 1 /\ Window \in Nat /\ Records \subseteq Nat
  BY LimitAssumption, FactsAssumption DEF IInv, Types, Capture
<1>2. Types'
  BY <1>1 DEF IInv, Types, Capture, memory, Places, Pass
<1>3. Flow'
  BY SameFlow DEF IInv, Capture, memory
<1>4. NoneForgotten'
  BY DEF IInv, NoneForgotten, Decided, Places, Capture, memory
<1>5. \A x \in claims' : x.cites \subseteq Stored'
  <2>1. \A r \in Records : r <= seen => r <= seen'
    BY <1>1
  <2>2. Stored \subseteq Stored'
    BY <2>1 DEF Stored
  <2> QED BY <2>2 DEF IInv, Rulings, Capture
<1>6. ASSUME NEW c, RestsOnPage(c) PROVE RestsOnPage(c)'
  <2>1. PICK x \in ClaimsOf(c) : \E r \in x.cites : r \notin Recent \/ ~Facts[r].estimate
    BY <1>6 DEF RestsOnPage
  <2>2. PICK r \in x.cites : r \notin Recent \/ ~Facts[r].estimate
    BY <2>1
  <2>3. r \in Nat /\ r <= seen
    BY <1>1, <2>1 DEF ClaimsOf, IInv, Rulings, Stored
  <2>4. r \notin Recent => r \notin Recent'
    BY <1>1, <2>3 DEF Recent
  <2>5. x \in ClaimsOf(c)'
    BY <2>1 DEF ClaimsOf, Capture
  <2> QED BY <2>2, <2>4, <2>5 DEF RestsOnPage
<1>7. Rulings'
  BY <1>5, <1>6, NotFinal DEF IInv, Rulings, PassedOnObservation, Capture
<1> QED BY <1>2, <1>3, <1>4, <1>7 DEF IInv

LEMMA ReplyStep == ASSUME IInv, NEW rows \in Replies[phase], Reply(rows) PROVE IInv'
<1>1. phase \in Phases /\ rows \in Seq(Rows[phase]) /\ outputs[phase] \in Seq(Rows[phase])
  BY ReplyAssumption DEF IInv, Types
<1> DEFINE all == outputs[phase] \o rows
           listed == Listed(phase, all)
<1>2. all \in Seq(Rows[phase])
  BY <1>1, ConcatProperties
<1>3. merged' = all /\ work' = WithinCap(phase, listed)
  BY DEF Reply
<1>4. work' \subseteq DOMAIN all
  <2>1. listed \subseteq DOMAIN all
    <3> HIDE DEF all
    <3> QED BY DEF Listed, FreshRows
  <2> HIDE DEF all, listed
  <2> QED BY <1>3, <2>1 DEF WithinCap
<1> HIDE DEF all, listed
<1>5. Types'
  BY <1>2, <1>3, <1>4 DEF IInv, Types, Reply, Places, Pass
<1>6. Flow'
  BY SameFlow DEF IInv, Reply
<1>7. NoneForgotten'
  BY DEF IInv, NoneForgotten, Decided, Places, Reply
<1>8. Rulings'
  BY NotFinal, RulingsStill DEF IInv, Reply
<1> QED BY <1>5, <1>6, <1>7, <1>8 DEF IInv

LEMMA ListNicheStep == ASSUME IInv, ListNiche PROVE IInv'
<1>1. Here \in NicheRows /\ pc = "effects" /\ phase = "niching" /\ RowDone
  BY HereIsRow DEF IInv, ListNiche, Writes, Rows, Phases
<1>2. CASE ledger' = ledger
  BY <1>1, <1>2, RowEffect DEF Places, IInv, Types
<1>3. CASE ledger' = Append(ledger, NewRow(Here.niche, {}))
  <2>1. Here.niche \in Niches
    BY <1>1 DEF NicheRows
  <2>2. ledger' \in Seq(CandidateRows) /\ Places \subseteq Places'
    BY <1>3, <2>1, RowAdded DEF IInv
  <2> QED BY <1>1, <2>2, RowEffect
<1> QED BY <1>2, <1>3 DEF ListNiche

LEMMA BackfillStep == ASSUME IInv, Backfill PROVE IInv'
<1>1. Here \in AnalysisRows /\ pc = "effects" /\ phase = "analysis" /\ RowDone
  BY HereIsRow DEF IInv, Backfill, Writes, Rows, Phases
<1>2. Here.niche \in Niches /\ Valid(Here.cites) \in SUBSET Records
  BY <1>1 DEF AnalysisRows, Valid
<1>3. ledger' \in Seq(CandidateRows) /\ Places \subseteq Places'
  BY <1>2, RowAdded DEF IInv, Backfill
<1> QED BY <1>1, <1>3, RowEffect

LEMMA ApplyVerdictStep == ASSUME IInv, ApplyVerdict PROVE IInv'
<1>1. pc = "effects" /\ phase = "adversarial" /\ RowDone
  BY DEF ApplyVerdict, Writes
<1> DEFINE c == Addressee(Here)
<1>2. CASE ledger' = ledger
  BY <1>1, <1>2, RowEffect DEF Places, IInv, Types
<1>3. CASE c \in Places /\ ledger' = [ledger EXCEPT ![c].status = StatusBy(Here.verdict, @),
                                      ![c].low = @ \/ Here.verdict = "downgrade"]
  <2> DEFINE s == StatusBy(Here.verdict, ledger[c].status)
             low == ledger[c].low \/ Here.verdict = "downgrade"
  <2>1. ledger[c] \in CandidateRows
    BY <1>3, ElementOfSeq DEF IInv, Types, Places
  <2>2. s \in Statuses /\ low \in BOOLEAN
    BY <2>1 DEF StatusBy, CandidateRows, Statuses
  <2>3. ledger' = [ledger EXCEPT ![c].status = s, ![c].low = low]
    BY <1>3
  <2> HIDE DEF s, low, c
  <2>4. ledger' \in Seq(CandidateRows) /\ Places' = Places
    BY <2>2, <2>3, RowChange DEF IInv
  <2> QED BY <1>1, <2>4, RowEffect
<1>4. c \in Places \/ ledger' = ledger
  <2>1. ledger = [i \in Places |-> ledger[i]]
    BY DEF IInv, Types, Places
  <2> QED BY <2>1 DEF ApplyVerdict, Places
<1>5. ledger' = ledger \/ ledger' = [ledger EXCEPT ![c].status = StatusBy(Here.verdict, @),
                                      ![c].low = @ \/ Here.verdict = "downgrade"]
  BY DEF ApplyVerdict
<1> QED BY <1>2, <1>3, <1>4, <1>5

LEMMA SynthesizeStep == ASSUME IInv, Synthesize PROVE IInv'
<1>1. pc = "effects" /\ RowDone /\ ledger' = ledger
  BY DEF Synthesize, Writes
<1> QED BY <1>1, RowEffect DEF IInv, Types, Places

LEMMA EffectsDoneStep == ASSUME IInv, EffectsDone PROVE IInv'
<1>1. Types'
  BY DEF IInv, Types, EffectsDone, durable, Places, Pass
<1>2. Flow'
  BY SameFlow DEF IInv, EffectsDone, durable
<1>3. NoneForgotten'
  BY DEF IInv, NoneForgotten, Decided, Places, EffectsDone, durable
<1>4. Rulings'
  BY NotFinal, RulingsStill DEF IInv, EffectsDone, durable
<1> QED BY <1>1, <1>2, <1>3, <1>4 DEF IInv

\* Linking rows to their candidates leaves them rows of their phase.
LEMMA CommittedRows ==
  ASSUME NEW p \in Phases, NEW rows \in Seq(Rows[p])
  PROVE  Committed(p, rows) \in Seq(Rows[p])
<1>1. CASE p = "niching"
  <2>1. Rows[p] = NicheRows
    BY <1>1 DEF Rows, Phases
  <2>2. rows \in Seq(NicheRows) /\ Len(rows) \in Nat /\ DOMAIN rows = 1..Len(rows)
    BY <2>1
  <2>3. \A i \in 1..Len(rows) : rows[i] \in NicheRows
    BY <2>2, ElementOfSeq
  <2>4. \A i \in 1..Len(rows) : [rows[i] EXCEPT !.linked = @ \/ i <= MaxLive] \in NicheRows
    <3> TAKE i \in 1..Len(rows)
    <3>1. rows[i] \in NicheRows /\ (rows[i].linked \/ i <= MaxLive) \in BOOLEAN
      BY <2>3
    <3> QED BY <3>1 DEF NicheRows
  <2>5. Committed(p, rows) \in [1..Len(rows) -> NicheRows]
    BY <1>1, <2>2, <2>4 DEF Committed
  <2> QED BY <2>1, <2>2, <2>5, IsRows
<1>2. CASE p # "niching"
  BY <1>2 DEF Committed
<1> QED BY <1>1, <1>2

LEMMA SaveOutputStep == ASSUME IInv, SaveOutput PROVE IInv'
<1>1. pc = "marker" /\ phase \in Phases /\ work = {} /\ work' = {} /\ merged' = <<>>
  BY DEF IInv, Types, SaveOutput
<1>2. /\ phase = "niching" => pc' = "reply" /\ phase' = "analysis"
      /\ phase = "analysis" => pc' = "reply" /\ phase' = "adversarial"
      /\ phase = "adversarial" => pc' = "pipeline" /\ phase' = "adversarial"
      /\ phase = "synthesis" => pc' = "report" /\ phase' = "synthesis"
  BY DEF SaveOutput, After
<1>3. Committed(phase, merged) \in Seq(Rows[phase])
  BY <1>1, CommittedRows DEF IInv, Types
<1>4. /\ DOMAIN saved' = Phases /\ DOMAIN outputs' = Phases
      /\ \A p \in Phases : saved'[p].rows \in Seq(Rows[p]) /\ outputs'[p] \in Seq(Rows[p])
  <2> DEFINE com == Committed(phase, merged)
  <2>1. /\ saved' = [saved EXCEPT ![phase] = [pass |-> Pass, rows |-> com]]
        /\ outputs' = [outputs EXCEPT ![phase] = com]
    BY DEF SaveOutput
  <2> HIDE DEF com
  <2> QED BY <1>1, <1>3, <2>1 DEF IInv, Types, com
<1>5. UNCHANGED <<ledger, seen, claims, rulings, report, post, pivots, refills>>
      /\ (queue' = {} \/ queue' = Open)
  BY DEF SaveOutput
<1>6. phase' \in Phases /\ pc' \in {"reply", "pipeline", "report"}
  BY <1>1, <1>2 DEF Phases
<1>7. Types'
  <2>1. queue' \subseteq Places' /\ Places' = Places
    BY <1>5 DEF Open, Places
  <2>2. merged' \in Seq(Rows'[phase']) /\ work' \subseteq DOMAIN merged'
    BY <1>1, EmptySeq
  <2> QED BY <1>1, <1>4, <1>5, <1>6, <2>1, <2>2 DEF IInv, Types, Pass
<1>8. \A p \in Phases : Done(p)' <=> (p = phase \/ Done(p))
  BY <1>1, <1>5 DEF Done, SaveOutput, Pass, IInv, Types
<1>9. Flow'
  <2>1. Marked' => Marked
    BY <1>5 DEF Marked, Pass
  <2> QED BY <1>1, <1>2, <1>8, <2>1 DEF IInv, Flow, Judged, Phases
<1>10. NoneForgotten'
  <2>1. phase = "adversarial" => \A i \in Places \ Open : Decided(i)
    BY DEF Open, Decided
  <2>2. phase = "adversarial" => queue' = Open
    BY DEF SaveOutput
  <2>3. Places' = Places /\ \A i : Decided(i)' <=> Decided(i)
    BY <1>5 DEF Places, Decided
  <2> QED BY <1>1, <1>2, <2>1, <2>2, <2>3 DEF IInv, NoneForgotten, Phases
<1>11. Rulings'
  BY <1>1, <1>5, NotFinal, RulingsStill DEF IInv
<1> QED BY <1>7, <1>9, <1>10, <1>11 DEF IInv

-----------------------------------------------------------------------------
(* The steps of the pipeline *)

LEMMA JudgeStep == ASSUME IInv, NEW c \in queue, Judge(c) PROVE IInv'
<1> DEFINE cs == ClaimsOf(c) \cup Registered(c)
           n == ledger[c].niche
           recs == Relevant(n, cs)
           ruling == Audit(n, recs, cs, ModelVerdict(n))
<1>1. /\ pc = "pipeline" /\ c \in Places /\ queue' = queue \ {c}
      /\ claims' = claims \cup Registered(c)
      /\ UNCHANGED <<seen, saved, post, pivots, refills, report, outputs, pc, phase, merged, work>>
  BY DEF Judge, IInv, Types
<1>2. ledger[c] \in CandidateRows
  BY <1>1, ElementOfSeq DEF IInv, Types, Places
<1>3. \/ rulings' = rulings /\ ledger' = [ledger EXCEPT ![c].status = "rejected"]
      \/ /\ rulings' = rulings \cup {<<c, ruling>>}
         /\ ledger' = [ledger EXCEPT ![c].status = StatusAfter(ruling),
                                     ![c].low = @ \/ SoftFailure(recs, cs)]
  BY DEF Judge
<1>4. \E s \in Statuses \ {"discovered"}, low \in BOOLEAN :
        ledger' = [ledger EXCEPT ![c].status = s, ![c].low = low]
  <2> HIDE DEF n, recs, cs, ruling
  <2>1. CASE ledger' = [ledger EXCEPT ![c].status = "rejected"]
    <3>1. ledger[c].low \in BOOLEAN /\ "rejected" \in Statuses \ {"discovered"}
      BY <1>2 DEF CandidateRows, Statuses
    <3>2. ledger' = [ledger EXCEPT ![c].status = "rejected", ![c].low = ledger[c].low]
      BY <1>2, <2>1 DEF CandidateRows
    <3> QED BY <3>1, <3>2
  <2>2. CASE ledger' = [ledger EXCEPT ![c].status = StatusAfter(ruling),
                                      ![c].low = @ \/ SoftFailure(recs, cs)]
    <3> DEFINE low == ledger[c].low \/ SoftFailure(recs, cs)
               s == StatusAfter(ruling)
    <3>1. low \in BOOLEAN /\ s \in Statuses \ {"discovered"}
      BY RulingDecides
    <3>2. ledger' = [ledger EXCEPT ![c].status = s, ![c].low = low]
      BY <2>2
    <3> HIDE DEF low, s
    <3> QED BY <3>1, <3>2
  <2> QED BY <1>3, <2>1, <2>2
<1>5. PICK s \in Statuses \ {"discovered"}, low \in BOOLEAN :
        ledger' = [ledger EXCEPT ![c].status = s, ![c].low = low]
  BY <1>4
<1>6. /\ ledger' \in Seq(CandidateRows) /\ Places' = Places
      /\ \A i \in Places : i # c => ledger'[i] = ledger[i]
      /\ ledger'[c].status = s
  BY <1>1, <1>5, RowChange DEF IInv
<1>7. Types'
  BY <1>1, <1>6 DEF IInv, Types, Pass
<1>8. Flow'
  BY <1>1, SameFlow DEF IInv
<1>9. NoneForgotten'
  <2>1. phase = "adversarial"
    BY <1>1 DEF IInv, Flow
  <2>2. \A i \in Places \ queue' : ledger'[i].status # "discovered"
    BY <1>1, <1>6 DEF IInv, NoneForgotten, Decided
  <2> QED BY <1>1, <1>6, <2>1, <2>2 DEF NoneForgotten, Decided
<1>10. /\ IsFiniteSet(Registered(c))
       /\ \A x \in Registered(c) : x.cand = c /\ x.cites \subseteq Stored
  BY <1>1, RegisteredFacts DEF IInv
<1>11. IsFiniteSet(claims') /\ \A x \in claims' : x.cites \subseteq Stored'
  BY <1>1, <1>10, FS_Union DEF IInv, Rulings, Stored
<1>12. PassedOnObservation'
  <2>1. claims \subseteq claims' /\ seen' = seen
    BY <1>1
  <2>2. ASSUME NEW r \in rulings, r[2] \in Passing PROVE RestsOnPage(r[1])'
    <3>1. RestsOnPage(r[1])
      BY <2>2 DEF IInv, Rulings, PassedOnObservation
    <3> QED BY <2>1, <3>1, RestsStill
  <2>3. ASSUME ruling \in Passing PROVE RestsOnPage(c)'
    <3>1. IsFiniteSet(cs)
      <4>1. IsFiniteSet(claims) /\ ClaimsOf(c) \subseteq claims
        BY DEF IInv, Rulings, ClaimsOf
      <4> QED BY <1>10, <4>1, FS_Subset, FS_Union
    <3>2. \E x \in cs : \E r \in x.cites : r \notin Recent \/ ~Facts[r].estimate
      <4> HIDE DEF cs, n
      <4> QED BY <2>3, <3>1, PassingRests
    <3>3. \A x \in cs : x \in ClaimsOf(c)'
      BY <1>1, <1>10 DEF ClaimsOf
    <3>4. Recent' = Recent
      BY <2>1 DEF Recent
    <3> HIDE DEF cs
    <3> QED BY <3>2, <3>3, <3>4 DEF RestsOnPage
  <2> HIDE DEF ruling
  <2>4. \A r \in rulings' : r \in rulings \/ r = <<c, ruling>>
    BY <1>3
  <2> QED BY <2>2, <2>3, <2>4 DEF PassedOnObservation
<1>13. Rulings'
  BY <1>1, <1>11, <1>12, NotFinal DEF IInv, Rulings
<1> QED BY <1>7, <1>8, <1>9, <1>13 DEF IInv

LEMMA PipelineDoneStep == ASSUME IInv, PipelineDone PROVE IInv'
<1>1. Types'
  BY DEF IInv, Types, PipelineDone, durable, Places, Pass
<1>2. Flow'
  BY DEF IInv, Flow, Judged, Done, Marked, Pass, PipelineDone, durable
<1>3. NoneForgotten'
  BY DEF IInv, NoneForgotten, Decided, Places, PipelineDone, durable
<1>4. Rulings'
  BY NotFinal, RulingsStill DEF IInv, PipelineDone, durable
<1> QED BY <1>1, <1>2, <1>3, <1>4 DEF IInv

\* A further pass begins where nothing is marked.
LEMMA PassBegins ==
  ASSUME IInv, pc = "gate", Pass' = Pass + 1, pivots' \in Nat, refills' \in Nat,
         pc' = "reply", phase' = "niching",
         DOMAIN outputs' = Phases, \A p \in Phases : outputs'[p] \in Seq(Rows[p]),
         UNCHANGED <<ledger, seen, claims, rulings, dossiers, saved, post, report, merged, work,
                     queue>>
  PROVE  IInv'
<1>1. Pass \in Nat /\ post \in Int /\ post <= Pass
  BY DEF IInv, Types, Pass
<1>2. post' \in Int /\ post' <= Pass' /\ post' # Pass'
  BY <1>1
<1>3. work' = {} /\ merged' = <<>> /\ phase' \in Phases
  BY DEF IInv, Types, Phases
<1>4. Types'
  <2>1. merged' \in Seq(Rows'[phase'])
    BY <1>3, EmptySeq
  <2> QED BY <1>2, <1>3, <2>1 DEF IInv, Types, Places
<1>5. Flow'
  BY <1>2 DEF Flow, Marked
<1>6. NoneForgotten'
  BY DEF NoneForgotten
<1>7. Rulings'
  BY NotFinal, RulingsStill DEF IInv
<1> QED BY <1>4, <1>5, <1>6, <1>7 DEF IInv

LEMMA PivotStep == ASSUME IInv, Pivot PROVE IInv'
<1>1. pivots \in Nat /\ refills \in Nat /\ pivots' = pivots + 1 /\ refills' = refills
  BY DEF IInv, Types, Pivot
<1>2. Pass' = Pass + 1 /\ pivots' \in Nat /\ refills' \in Nat
  BY <1>1 DEF Pass
<1>3. DOMAIN outputs' = Phases /\ \A p \in Phases : outputs'[p] \in Seq(Rows[p])
  BY EmptySeq DEF Pivot
<1> QED BY <1>2, <1>3, PassBegins DEF Pivot

LEMMA RefillStep == ASSUME IInv, Refill PROVE IInv'
<1>1. pivots \in Nat /\ refills \in Nat /\ pivots' = pivots /\ refills' = refills + 1
  BY DEF IInv, Types, Refill
<1>2. Pass' = Pass + 1 /\ pivots' \in Nat /\ refills' \in Nat
  BY <1>1 DEF Pass
<1>3. DOMAIN outputs' = Phases /\ \A p \in Phases : outputs'[p] \in Seq(Rows[p])
  BY DEF Refill, IInv, Types
<1> QED BY <1>2, <1>3, PassBegins DEF Refill

LEMMA MarkPostStep == ASSUME IInv, MarkPost PROVE IInv'
<1>1. /\ pc = "gate" /\ pc' \in {"reply", "report"} /\ phase' = "synthesis" /\ post' = Pass
      /\ UNCHANGED <<ledger, seen, claims, rulings, saved, pivots, refills, report, outputs, merged,
                     work, queue>>
  BY DEF MarkPost
<1>2. Pass \in Nat /\ Pass' = Pass
  BY <1>1 DEF IInv, Types, Pass
<1>3. work' = {} /\ merged' = <<>> /\ phase' \in Phases
  BY <1>1 DEF IInv, Types, Phases
<1>4. Types'
  <2>1. merged' \in Seq(Rows'[phase'])
    BY <1>3, EmptySeq
  <2>2. post' \in Int /\ post' <= Pass'
    BY <1>1, <1>2
  <2> QED BY <1>1, <1>3, <2>1, <2>2 DEF IInv, Types, Places
<1>5. Flow'
  BY <1>1, <1>2 DEF IInv, Flow, Judged, Done
<1>6. NoneForgotten'
  BY <1>1 DEF IInv, NoneForgotten, Decided, Places
<1>7. Rulings'
  BY <1>1, NotFinal, RulingsStill DEF IInv
<1> QED BY <1>4, <1>5, <1>6, <1>7 DEF IInv

LEMMA WriteReportStep == ASSUME IInv, WriteReport PROVE IInv'
<1>1. Types'
  BY DEF IInv, Types, WriteReport, Places, Pass
<1>2. Flow'
  BY DEF IInv, Flow, Judged, Done, Marked, Pass, WriteReport
<1>3. NoneForgotten'
  BY DEF IInv, NoneForgotten, Decided, Places, WriteReport, Flow
<1>4. report' = "final" =>
        \A i \in DOMAIN dossiers : \E v \in Passing : <<dossiers[i].cand, v>> \in rulings
  BY DEF WriteReport, Sound
<1>5. \A c : RestsOnPage(c) => RestsOnPage(c)'
  BY RestsStill DEF WriteReport
<1>6. Rulings'
  BY <1>4, <1>5 DEF IInv, Rulings, PassedOnObservation, WriteReport, Stored
<1> QED BY <1>1, <1>2, <1>3, <1>6 DEF IInv

LEMMA CrashStep == ASSUME IInv, Crash PROVE IInv'
<1>1. /\ pc # "done" /\ work' = {} /\ merged' = <<>> /\ DOMAIN outputs' = Phases
      /\ UNCHANGED <<ledger, seen, claims, rulings, dossiers, saved, post, pivots, refills, report>>
      /\ queue' = {} \/ queue' = Open
      /\ queue' = IF Judged /\ ~Marked THEN Open ELSE {}
  BY DEF Crash, durable
<1>2. \/ ~Judged /\ pc' = "reply" /\ phase' \in {"niching", "analysis", "adversarial"}
         /\ (phase' \in {"analysis", "adversarial"} => Done("niching"))
         /\ (phase' = "adversarial" => Done("analysis"))
      \/ Judged /\ ~Marked /\ pc' = "pipeline" /\ phase' = "adversarial"
      \/ Judged /\ Marked /\ pc' \in {"reply", "report"} /\ phase' = "synthesis"
  BY DEF Crash
<1>3. Marked => phase = "synthesis" /\ Judged
  BY DEF IInv, Flow, Judged
<1>4. \A p : Done(p)' <=> Done(p)
  BY <1>1 DEF Done, Pass
<1>5. (Judged' <=> Judged) /\ (Marked' <=> Marked)
  BY <1>1, <1>4 DEF Judged, Marked, Pass
<1>6. Types'
  <2>1. phase' \in Phases /\ pc' \in {"reply", "pipeline", "report"}
    BY <1>2 DEF Phases
  <2>2. \A p \in Phases : outputs'[p] \in Seq(Rows[p])
    BY EmptySeq DEF Crash, IInv, Types
  <2>3. queue' \subseteq Places' /\ Places' = Places
    BY <1>1 DEF Open, Places
  <2>4. merged' \in Seq(Rows'[phase'])
    BY <1>1, <2>1, EmptySeq
  <2> QED BY <1>1, <2>1, <2>2, <2>3, <2>4 DEF IInv, Types, Pass
<1>7. Flow'
  BY <1>2, <1>3, <1>4, <1>5 DEF Flow, Judged
<1>8. NoneForgotten'
  <2>1. \A i \in Places \ Open : Decided(i)
    BY DEF Open, Decided
  <2>2. Places' = Places /\ \A i : Decided(i)' <=> Decided(i)
    BY <1>1 DEF Places, Decided
  <2> QED BY <1>1, <1>2, <1>3, <2>1, <2>2 DEF IInv, NoneForgotten
<1>9. Rulings'
  BY <1>1, NotFinal, RulingsStill DEF IInv
<1> QED BY <1>6, <1>7, <1>8, <1>9 DEF IInv

-----------------------------------------------------------------------------
(* What becomes of a niche: a second invariant, on top of the first *)

\* The rows an analysis has yet to create are new, and no two of them are one niche.
Fresh ==
  pc = "effects" /\ phase = "analysis" =>
    \A i \in work : /\ merged[i].niche \notin Labels
                    /\ \A j \in work : merged[i].niche = merged[j].niche => i = j

Unique == OneRowPerNiche /\ Fresh

\* Where a niche may stand, and what stands for it.
Books == Labels \cup backlog
Near(n, m) == n = m \/ Kin(n, m)

\* What the output being committed names is accounted for, or about to be.
Underway ==
  pc \in {"effects", "marker"} /\ Cardinality(backlog) < BacklogCap =>
    /\ phase = "niching" =>
         \A i \in DOMAIN merged : merged[i].linked \/ i \in work \/ Accounted(merged[i].niche)
    /\ phase = "analysis" =>
         \A i \in DOMAIN merged : merged[i].niche \in Long =>
           \/ Accounted(merged[i].niche)
           \/ \E j \in work : Near(merged[i].niche, merged[j].niche)

Kept == IsFiniteSet(backlog) /\ NothingLost /\ Underway

LInv == Unique /\ Kept

\* What is accounted for remains so as the ledger and the backlog grow.
LEMMA AccountedStill ==
  ASSUME Labels \subseteq Labels', backlog \subseteq backlog', NEW n, Accounted(n)
  PROVE  Accounted(n)'
BY DEF Accounted

\* The labels of rows that keep their niches.
LEMMA SameNiches ==
  ASSUME Places' = Places, \A i \in Places : ledger'[i].niche = ledger[i].niche, OneRowPerNiche
  PROVE  OneRowPerNiche' /\ Labels' = Labels
BY DEF OneRowPerNiche, Labels

\* A step that is no effect of an output, and marks none.
LEMMA Elsewhere ==
  ASSUME LInv, OneRowPerNiche', Labels \subseteq Labels', UNCHANGED <<backlog, named>>,
         pc' \notin {"effects", "marker"}
  PROVE  LInv'
<1>1. \A n : Accounted(n) => Accounted(n)'
  BY AccountedStill
<1>2. NothingLost'
  BY <1>1 DEF LInv, Kept, NothingLost
<1> QED BY <1>2 DEF LInv, Kept, Unique, Fresh, Underway

\* The effects of a row in a phase that lists no niches.
LEMMA ElsewhereInEffects ==
  ASSUME LInv, OneRowPerNiche', Labels \subseteq Labels', UNCHANGED <<backlog, named, phase>>,
         phase \notin {"niching", "analysis"}
  PROVE  LInv'
<1>1. \A n : Accounted(n) => Accounted(n)'
  BY AccountedStill
<1>2. NothingLost'
  BY <1>1 DEF LInv, Kept, NothingLost
<1> QED BY <1>2 DEF LInv, Kept, Unique, Fresh, Underway

\* The row whose effects are next is among those to come, and a row of the output.
LEMMA FirstInWork ==
  ASSUME Types, work # {}
  PROVE  First(work) \in work /\ First(work) \in DOMAIN merged
<1>1. work \subseteq Nat /\ IsFiniteSet(work)
  BY PlacesFinite, FS_Subset DEF Types
<1> QED BY <1>1, FirstIsIn DEF Types

\* A new label makes a row of its own.
LEMMA NewLabel ==
  ASSUME Types, OneRowPerNiche, NEW n \in Niches, n \notin Labels, NEW seed \in SUBSET Records,
         ledger' = Append(ledger, NewRow(n, seed))
  PROVE  OneRowPerNiche' /\ Labels' = Labels \cup {n}
<1>1. /\ Places' = 1..(Len(ledger) + 1) /\ Places = 1..Len(ledger)
      /\ \A i \in Places : ledger'[i] = ledger[i]
      /\ ledger'[Len(ledger) + 1].niche = n
  BY RowAdded
<1>2. Len(ledger) \in Nat
  BY DEF Types
<1>3. \A i \in Places' : i \in Places \/ i = Len(ledger) + 1
  BY <1>1, <1>2
<1>4. Len(ledger) + 1 \in Places' /\ Places \subseteq Places'
  BY <1>1, <1>2
<1>5. \A i \in Places : ledger[i].niche # n
  BY DEF Labels
<1>6. OneRowPerNiche'
  BY <1>1, <1>3, <1>5 DEF OneRowPerNiche
<1>7. Labels' = Labels \cup {n}
  BY <1>1, <1>3, <1>4 DEF Labels
<1> QED BY <1>6, <1>7

\* A row is found for a niche that is on the ledger, and what is found stands for the niche.
LEMMA MatchStands ==
  ASSUME Types, NEW n, Match(n) # NoId
  PROVE  \E m \in Labels : Near(n, m)
<1>1. Exact(n) \subseteq Nat /\ IsFiniteSet(Exact(n)) /\ Kindred(n) \subseteq Nat
      /\ IsFiniteSet(Kindred(n))
  <2>1. IsFiniteSet(Places) /\ Places \subseteq Nat
    BY PlacesFinite DEF Types, Places
  <2> QED BY <2>1, FS_Subset DEF Exact, Kindred
<1>2. CASE Exact(n) # {}
  BY <1>2 DEF Exact, Labels, Near
<1>3. CASE Exact(n) = {}
  <2>1. Kindred(n) # {}
    BY <1>3, FS_EmptySet DEF Match
  <2> QED BY <2>1 DEF Kindred, Labels, Near
<1> QED BY <1>2, <1>3

\* A niche that matches nothing is not on the ledger.
LEMMA NoMatchIsNew ==
  ASSUME Types, NEW n, Match(n) = NoId
  PROVE  n \notin Labels
<1>1. IsFiniteSet(Places) /\ Places \subseteq Nat /\ 0 \notin Places
  BY PlacesFinite DEF Types, Places
<1>2. Exact(n) \subseteq Places /\ Exact(n) \subseteq Nat /\ IsFiniteSet(Exact(n))
  BY <1>1, FS_Subset DEF Exact
<1>3. SUFFICES ASSUME Exact(n) # {} PROVE FALSE
  BY DEF Labels, Exact
<1>4. First(Exact(n)) \in Exact(n)
  BY <1>2, <1>3, FirstIsIn
<1> QED BY <1>1, <1>2, <1>3, <1>4 DEF Match, NoId

LEMMA ListNicheKeeps == ASSUME IInv, LInv, ListNiche PROVE LInv'
<1> DEFINE f == First(work)
<1>1. /\ pc = "effects" /\ phase = "niching" /\ RowDone /\ f \in work /\ f \in DOMAIN merged
      /\ Here = merged[f] /\ Here \in NicheRows /\ work' = work \ {f}
      /\ UNCHANGED <<backlog, named, pc, phase, merged>>
  BY FirstInWork, HereIsRow DEF IInv, ListNiche, Writes, Rows, Phases, Here, RowDone
<1>2. /\ OneRowPerNiche' /\ Labels \subseteq Labels'
      /\ Here.linked \/ (\E m \in Books' : Near(Here.niche, m))
  <2>1. CASE ledger' = ledger /\ (Here.linked \/ Match(Here.niche) # NoId)
    <3>1. OneRowPerNiche' /\ Labels' = Labels
      BY <2>1 DEF LInv, Unique, OneRowPerNiche, Labels, Places
    <3>2. Match(Here.niche) # NoId => \E m \in Labels : Near(Here.niche, m)
      BY MatchStands DEF IInv
    <3> QED BY <2>1, <3>1, <3>2 DEF Books
  <2>2. CASE ledger' = Append(ledger, NewRow(Here.niche, {})) /\ Match(Here.niche) = NoId
    <3>1. Here.niche \in Niches /\ Here.niche \notin Labels
      BY <1>1, <2>2, NoMatchIsNew DEF IInv, NicheRows
    <3>2. OneRowPerNiche' /\ Labels' = Labels \cup {Here.niche}
      BY <2>2, <3>1, NewLabel DEF IInv, LInv, Unique
    <3> QED BY <3>2 DEF Books, Near
  <2> QED BY <2>1, <2>2 DEF ListNiche
<1>3. \A n : Accounted(n) => Accounted(n)'
  BY <1>1, <1>2, AccountedStill
<1>4. NothingLost'
  BY <1>1, <1>3 DEF LInv, Kept, NothingLost
<1>5. Underway'
  <2> HIDE DEF f
  <2>1. ASSUME Cardinality(backlog) < BacklogCap, NEW i \in DOMAIN merged
        PROVE  merged[i].linked \/ i \in work \ {f} \/ \E m \in Books' : Near(merged[i].niche, m)
    <3>1. merged[i].linked \/ i \in work \/ Accounted(merged[i].niche)
      BY <1>1, <2>1 DEF LInv, Kept, Underway
    <3> QED BY <1>1, <1>2, <1>3, <3>1 DEF Accounted, Books, Near
  <2> QED BY <1>1, <2>1 DEF Underway, Accounted, Books, Near
<1> QED BY <1>1, <1>2, <1>4, <1>5 DEF LInv, Unique, Fresh, Kept

LEMMA BackfillKeeps == ASSUME IInv, LInv, Backfill PROVE LInv'
<1> DEFINE f == First(work)
<1>1. /\ pc = "effects" /\ phase = "analysis" /\ RowDone /\ f \in work /\ f \in DOMAIN merged
      /\ Here = merged[f] /\ Here \in AnalysisRows /\ work' = work \ {f}
      /\ ledger' = Append(ledger, NewRow(Here.niche, Valid(Here.cites)))
      /\ UNCHANGED <<backlog, named, pc, phase, merged>>
  BY FirstInWork, HereIsRow DEF IInv, Backfill, Writes, Rows, Phases, Here, RowDone
<1>2. /\ Here.niche \in Niches /\ Valid(Here.cites) \in SUBSET Records
      /\ Here.niche \notin Labels
  BY <1>1 DEF AnalysisRows, Valid, LInv, Unique, Fresh
<1>3. OneRowPerNiche' /\ Labels' = Labels \cup {Here.niche}
  BY <1>1, <1>2, NewLabel DEF IInv, LInv, Unique
<1>4. \A n : Accounted(n) => Accounted(n)'
  BY <1>1, <1>3, AccountedStill
<1>5. NothingLost'
  BY <1>1, <1>4 DEF LInv, Kept, NothingLost
<1>6. Fresh'
  <2> HIDE DEF f
  <2>1. \A i \in work \ {f} : merged[i].niche # Here.niche
    BY <1>1 DEF LInv, Unique, Fresh
  <2> QED BY <1>1, <1>3, <2>1 DEF LInv, Unique, Fresh
<1>7. Underway'
  <2> HIDE DEF f
  <2>1. ASSUME Cardinality(backlog) < BacklogCap, NEW i \in DOMAIN merged, merged[i].niche \in Long
        PROVE  \/ \E m \in Books' : Near(merged[i].niche, m)
               \/ \E j \in work \ {f} : Near(merged[i].niche, merged[j].niche)
    <3>1. \/ Accounted(merged[i].niche)
          \/ \E j \in work : Near(merged[i].niche, merged[j].niche)
      BY <1>1, <2>1 DEF LInv, Kept, Underway
    <3>2. Near(merged[i].niche, merged[f].niche) => \E m \in Books' : Near(merged[i].niche, m)
      BY <1>1, <1>3 DEF Near, Books
    <3> QED BY <1>4, <3>1, <3>2 DEF Accounted, Books, Near
  <2> QED BY <1>1, <2>1 DEF Underway, Accounted, Books, Near
<1> QED BY <1>1, <1>3, <1>5, <1>6, <1>7 DEF LInv, Unique, Kept

LEMMA ApplyVerdictKeeps == ASSUME IInv, LInv, ApplyVerdict PROVE LInv'
<1>1. phase = "adversarial" /\ UNCHANGED <<backlog, named, phase>>
  BY DEF ApplyVerdict, Writes, RowDone
<1> DEFINE c == Addressee(Here)
<1>2. Places' = Places /\ \A i \in Places : ledger'[i].niche = ledger[i].niche
  <2>1. \A i \in Places : ledger[i] \in CandidateRows
    BY ElementOfSeq DEF IInv, Types, Places
  <2>2. CASE ledger' = ledger
    BY <2>2 DEF Places
  <2>3. CASE ledger' = [ledger EXCEPT ![c].status = StatusBy(Here.verdict, @),
                                      ![c].low = @ \/ Here.verdict = "downgrade"]
    <3> HIDE DEF c
    <3> QED BY <2>1, <2>3 DEF Places, CandidateRows
  <2> QED BY <2>2, <2>3 DEF ApplyVerdict
<1>3. OneRowPerNiche' /\ Labels' = Labels
  BY <1>2, SameNiches DEF LInv, Unique
<1> QED BY <1>1, <1>3, ElsewhereInEffects

LEMMA SynthesizeKeeps == ASSUME IInv, LInv, Synthesize PROVE LInv'
<1>1. phase = "synthesis" /\ UNCHANGED <<ledger, backlog, named, phase>>
  BY DEF Synthesize, Writes, RowDone
<1>2. OneRowPerNiche' /\ Labels' = Labels
  BY <1>1, SameNiches DEF Places, LInv, Unique
<1> QED BY <1>1, <1>2, ElsewhereInEffects

LEMMA EffectsDoneKeeps == ASSUME IInv, LInv, EffectsDone PROVE LInv'
<1>1. /\ pc = "effects" /\ pc' = "marker"
      /\ UNCHANGED <<ledger, backlog, named, phase, merged, work>>
  BY DEF EffectsDone, durable
<1>2. OneRowPerNiche' /\ Labels' = Labels
  BY <1>1, SameNiches DEF Places, LInv, Unique
<1>3. \A n : Accounted(n)' <=> Accounted(n)
  BY <1>1, <1>2 DEF Accounted
<1>4. NothingLost' /\ Underway'
  BY <1>1, <1>3 DEF LInv, Kept, NothingLost, Underway
<1> QED BY <1>1, <1>2, <1>4 DEF LInv, Unique, Fresh, Kept

LEMMA SaveOutputKeeps == ASSUME IInv, LInv, SaveOutput PROVE LInv'
<1>1. /\ pc = "marker" /\ work = {} /\ pc' \notin {"effects", "marker"}
      /\ named' = named \cup Names(phase, merged) /\ UNCHANGED <<ledger, backlog>>
      /\ phase \in Phases
  <2>1. pc' \in {"reply", "pipeline", "report"}
    BY DEF SaveOutput, After, IInv, Types, Phases
  <2> QED BY <2>1 DEF SaveOutput, IInv, Types
<1>2. OneRowPerNiche' /\ Labels' = Labels
  BY <1>1, SameNiches DEF Places, LInv, Unique
<1>3. \A n : Accounted(n)' <=> Accounted(n)
  BY <1>1, <1>2 DEF Accounted
<1>4. ASSUME Cardinality(backlog) < BacklogCap PROVE \A n \in Names(phase, merged) : Accounted(n)
  <2>1. CASE phase = "niching"
    <3>1. Names(phase, merged) = {merged[i].niche : i \in {j \in DOMAIN merged : ~merged[j].linked}}
      BY <2>1 DEF Names
    <3> QED BY <1>1, <1>4, <2>1, <3>1 DEF LInv, Kept, Underway
  <2>2. CASE phase = "analysis"
    <3>1. Names(phase, merged) = {merged[i].niche : i \in DOMAIN merged} \cap Long
      BY <2>2 DEF Names
    <3> QED BY <1>1, <1>4, <2>2, <3>1 DEF LInv, Kept, Underway
  <2>3. CASE phase \notin {"niching", "analysis"}
    BY <2>3 DEF Names
  <2> QED BY <2>1, <2>2, <2>3
<1>5. NothingLost'
  BY <1>1, <1>3, <1>4 DEF LInv, Kept, NothingLost
<1> QED BY <1>1, <1>2, <1>5 DEF LInv, Unique, Fresh, Kept, Underway

\* A backlog that is not full has kept everything.
LEMMA KeepFacts ==
  ASSUME IsFiniteSet(backlog), NEW new, IsFiniteSet(new), backlog' \in Keep(backlog, new)
  PROVE  /\ IsFiniteSet(backlog') /\ backlog \subseteq backlog'
         /\ Cardinality(backlog') < BacklogCap =>
              backlog' = backlog \cup new /\ Cardinality(backlog) < BacklogCap
<1>1. IsFiniteSet(backlog \cup new)
  BY FS_Union
<1>2. backlog \subseteq backlog' /\ backlog' \subseteq backlog \cup new
  BY DEF Keep
<1>3. IsFiniteSet(backlog') /\ Cardinality(backlog) <= Cardinality(backlog')
  BY <1>1, <1>2, FS_Subset
<1>4. Cardinality(backlog) \in Nat /\ Cardinality(backlog') \in Nat /\ BacklogCap \in Nat
  BY <1>3, FS_CardinalityType, LimitAssumption
<1>5. Cardinality(backlog') < BacklogCap => backlog' = backlog \cup new
  BY <1>4 DEF Keep
<1> QED BY <1>2, <1>3, <1>4, <1>5

LEMMA ReplyKeeps == ASSUME IInv, LInv, NEW rows \in Replies[phase], Reply(rows) PROVE LInv'
<1> DEFINE all == outputs[phase] \o rows
           listed == Listed(phase, all)
           within == WithinCap(phase, listed)
           new == {all[i].niche : i \in listed \ within}
<1>1. /\ merged' = all /\ work' = within /\ backlog' \in Keep(backlog, new) /\ pc' = "effects"
      /\ UNCHANGED <<ledger, named, phase>>
  BY DEF Reply
<1>2. phase \in Phases /\ all \in Seq(Rows[phase])
  <2>1. phase \in Phases /\ rows \in Seq(Rows[phase]) /\ outputs[phase] \in Seq(Rows[phase])
    BY ReplyAssumption DEF IInv, Types
  <2> QED BY <2>1, ConcatProperties
<1> HIDE DEF all
<1>3. listed \subseteq DOMAIN all /\ within \subseteq listed
  BY DEF Listed, FreshRows, WithinCap
<1> HIDE DEF listed, within
<1>4. IsFiniteSet(new)
  <2> DEFINE over == listed \ within
             g == [i \in over |-> all[i].niche]
  <2>1. IsFiniteSet(over)
    BY <1>2, <1>3, PlacesFinite, FS_Subset
  <2>2. g \in Surjection(over, new)
    BY DEF Surjection
  <2> HIDE DEF g, new, over
  <2> QED BY <2>1, <2>2, FS_Surjection
<1>5. /\ IsFiniteSet(backlog') /\ backlog \subseteq backlog'
      /\ Cardinality(backlog') < BacklogCap =>
           backlog' = backlog \cup new /\ Cardinality(backlog) < BacklogCap
  <2> HIDE DEF new
  <2> QED BY <1>1, <1>4, KeepFacts DEF LInv, Kept
<1>6. OneRowPerNiche' /\ Labels' = Labels
  BY <1>1, SameNiches DEF Places, LInv, Unique
<1>7. \A n : Accounted(n) => Accounted(n)'
  BY <1>5, <1>6, AccountedStill
<1>8. NothingLost'
  BY <1>1, <1>5, <1>7 DEF LInv, Kept, NothingLost
<1>9. ASSUME phase = "analysis" PROVE all \in Seq(AnalysisRows) /\ listed = FreshRows(all)
  BY <1>2, <1>9 DEF Rows, Phases, listed, Listed
<1>10. Fresh'
  <2>1. ASSUME phase = "analysis"
        PROVE  \A i \in within : /\ all[i].niche \notin Labels
                                 /\ \A j \in within : all[i].niche = all[j].niche => i = j
    <3>1. all \in Seq(AnalysisRows) /\ listed = FreshRows(all)
      BY <1>9, <2>1
    <3> QED BY <1>3, <3>1, FreshFacts
  <2> QED BY <1>1, <1>6, <2>1 DEF Fresh
<1>11. Underway'
  <2>1. ASSUME Cardinality(backlog') < BacklogCap, phase = "niching", NEW i \in DOMAIN all
        PROVE  i \in within \/ \E m \in Books' : Near(all[i].niche, m)
    <3>1. listed = DOMAIN all
      BY <2>1 DEF listed, Listed
    <3>2. i \notin within => all[i].niche \in backlog'
      BY <1>5, <2>1, <3>1
    <3> QED BY <3>2 DEF Books, Near
  <2>2. ASSUME Cardinality(backlog') < BacklogCap, phase = "analysis",
               NEW i \in DOMAIN all, all[i].niche \in Long
        PROVE  \/ \E m \in Books' : Near(all[i].niche, m)
               \/ \E j \in within : Near(all[i].niche, all[j].niche)
    <3>1. all \in Seq(AnalysisRows) /\ listed = FreshRows(all)
      BY <1>9, <2>2
    <3>2. \/ \E m \in Labels : m = all[i].niche \/ Kin(all[i].niche, m)
          \/ \E j \in listed : all[j].niche = all[i].niche \/ Kin(all[i].niche, all[j].niche)
      BY <2>2, <3>1, FreshFacts
    <3>3. CASE \E m \in Labels : m = all[i].niche \/ Kin(all[i].niche, m)
      BY <1>6, <3>3 DEF Books, Near
    <3>4. CASE \E j \in listed : all[j].niche = all[i].niche \/ Kin(all[i].niche, all[j].niche)
      <4>1. PICK j \in listed : Near(all[i].niche, all[j].niche)
        BY <3>4 DEF Near
      <4>2. j \notin within => all[j].niche \in backlog'
        BY <1>5, <2>2, <4>1
      <4> QED BY <4>1, <4>2 DEF Books
    <3> QED BY <3>2, <3>3, <3>4
  <2> QED BY <1>1, <2>1, <2>2 DEF Underway, Accounted, Books, Near
<1> QED BY <1>5, <1>6, <1>8, <1>10, <1>11 DEF LInv, Unique, Kept

LEMMA JudgeKeeps == ASSUME IInv, LInv, NEW c \in queue, Judge(c) PROVE LInv'
<1>1. pc = "pipeline" /\ UNCHANGED <<backlog, named, pc>>
  BY DEF Judge
<1>2. Places' = Places /\ \A i \in Places : ledger'[i].niche = ledger[i].niche
  <2>1. \A i \in Places : ledger[i] \in CandidateRows
    BY ElementOfSeq DEF IInv, Types, Places
  <2>2. \/ ledger' = [ledger EXCEPT ![c].status = "rejected"]
        \/ \E s, low : ledger' = [ledger EXCEPT ![c].status = s, ![c].low = @ \/ low]
    BY DEF Judge
  <2>3. CASE ledger' = [ledger EXCEPT ![c].status = "rejected"]
    BY <2>1, <2>3 DEF Places, CandidateRows
  <2>4. ASSUME NEW s, NEW low, ledger' = [ledger EXCEPT ![c].status = s, ![c].low = @ \/ low]
        PROVE  Places' = Places /\ \A i \in Places : ledger'[i].niche = ledger[i].niche
    BY <2>1, <2>4 DEF Places, CandidateRows
  <2> QED BY <2>2, <2>3, <2>4
<1>3. OneRowPerNiche' /\ Labels' = Labels
  BY <1>2, SameNiches DEF LInv, Unique
<1> QED BY <1>1, <1>3, Elsewhere

\* Every other step leaves the ledger, the backlog and what is named alone.
LEMMA OtherKeeps ==
  ASSUME IInv, LInv, UNCHANGED <<ledger, backlog, named>>, pc' \notin {"effects", "marker"}
  PROVE  LInv'
<1>1. OneRowPerNiche' /\ Labels' = Labels
  BY SameNiches DEF Places, LInv, Unique
<1> QED BY <1>1, Elsewhere

LEMMA NextLInv == IInv /\ LInv /\ [Next]_vars => LInv'
<1> SUFFICES ASSUME IInv, LInv, [Next]_vars PROVE LInv'
  OBVIOUS
<1>1. CASE Capture \/ PipelineDone \/ Pivot \/ Refill \/ MarkPost \/ WriteReport \/ Crash
  <2>1. UNCHANGED <<ledger, backlog, named>>
    BY <1>1 DEF Capture, PipelineDone, Pivot, Refill, MarkPost, WriteReport, Crash, durable, memory
  <2>2. pc' \notin {"effects", "marker"}
    BY <1>1 DEF Capture, PipelineDone, Pivot, Refill, MarkPost, WriteReport, Crash, memory
  <2> QED BY <2>1, <2>2, OtherKeeps
<1>2. ASSUME NEW rows \in Replies[phase], Reply(rows) PROVE LInv'
  BY <1>2, ReplyKeeps
<1>3. CASE Effects
  BY <1>3, ListNicheKeeps, BackfillKeeps, ApplyVerdictKeeps, SynthesizeKeeps, EffectsDoneKeeps,
     SaveOutputKeeps DEF Effects
<1>4. ASSUME NEW c \in queue, Judge(c) PROVE LInv'
  BY <1>4, JudgeKeeps
<1>5. CASE UNCHANGED vars
  <2>1. UNCHANGED <<ledger, backlog, named, pc, phase, merged, work>>
    BY <1>5 DEF vars
  <2>2. OneRowPerNiche' /\ Labels' = Labels
    BY <2>1, SameNiches DEF Places, LInv, Unique
  <2>3. \A n : Accounted(n)' <=> Accounted(n)
    BY <2>1, <2>2 DEF Accounted
  <2>4. NothingLost' /\ Underway'
    BY <2>1, <2>3 DEF LInv, Kept, NothingLost, Underway
  <2> QED BY <2>1, <2>2, <2>4 DEF LInv, Unique, Fresh, Kept
<1> QED BY <1>1, <1>2, <1>3, <1>4, <1>5 DEF Next, Pipeline

LEMMA InitLInv == Init => LInv
<1> SUFFICES ASSUME Init PROVE LInv
  OBVIOUS
<1>1. OneRowPerNiche
  BY DEF Init, OneRowPerNiche, Places
<1>2. IsFiniteSet(backlog) /\ NothingLost
  BY FS_EmptySet DEF Init, NothingLost
<1> QED BY <1>1, <1>2 DEF Init, LInv, Unique, Fresh, Kept, Underway

-----------------------------------------------------------------------------
(* The theorems *)

LEMMA InitIInv == Init => IInv
<1> SUFFICES ASSUME Init PROVE IInv
  OBVIOUS
<1>1. Types
  <2>1. \A S : <<>> \in Seq(S)
    BY EmptySeq
  <2>2. \A p \in Phases : saved[p].rows \in Seq(Rows[p]) /\ outputs[p] \in Seq(Rows[p])
    BY <2>1 DEF Init
  <2>3. post <= Pass /\ pivots \in Nat /\ refills \in Nat /\ post \in Int
    BY DEF Init, Pass, NoPass
  <2>4. ledger \in Seq(CandidateRows) /\ merged \in Seq(Rows[phase])
    BY <2>1 DEF Init
  <2>5. /\ DOMAIN outputs = Phases /\ DOMAIN saved = Phases
        /\ seen \in Nat /\ work = {} /\ queue = {} /\ phase \in Phases /\ merged = <<>>
        /\ pc = "reply"
    BY DEF Init, Phases
  <2> QED BY <2>2, <2>3, <2>4, <2>5 DEF Types
<1>2. Flow
  BY DEF Init, Flow, Marked, Pass, NoPass
<1>3. NoneForgotten
  BY DEF Init, NoneForgotten
<1>4. Rulings
  BY FS_EmptySet DEF Init, Rulings, PassedOnObservation
<1> QED BY <1>1, <1>2, <1>3, <1>4 DEF IInv

LEMMA NextIInv == IInv /\ [Next]_vars => IInv'
<1> SUFFICES ASSUME IInv, [Next]_vars PROVE IInv'
  OBVIOUS
<1>1. CASE Capture
  BY <1>1, CaptureStep
<1>2. ASSUME NEW rows \in Replies[phase], Reply(rows) PROVE IInv'
  BY <1>2, ReplyStep
<1>3. CASE Effects
  BY <1>3, ListNicheStep, BackfillStep, ApplyVerdictStep, SynthesizeStep, EffectsDoneStep,
     SaveOutputStep DEF Effects
<1>4. CASE Pipeline
  BY <1>4, JudgeStep, PipelineDoneStep, PivotStep, RefillStep, MarkPostStep DEF Pipeline
<1>5. CASE WriteReport
  BY <1>5, WriteReportStep
<1>6. CASE Crash
  BY <1>6, CrashStep
<1>7. CASE UNCHANGED vars
  <2>1. Types' /\ Flow' /\ NoneForgotten'
    BY <1>7 DEF IInv, Types, Flow, NoneForgotten, Decided, Judged, Done, Marked, Places, Pass, vars
  <2>2. \A c : RestsOnPage(c) => RestsOnPage(c)'
    BY <1>7, RestsStill DEF vars
  <2>3. Rulings'
    BY <1>7, <2>2 DEF IInv, Rulings, PassedOnObservation, Stored, vars
  <2> QED BY <2>1, <2>3 DEF IInv
<1> QED BY <1>1, <1>2, <1>3, <1>4, <1>5, <1>6, <1>7 DEF Next

\* The inductive invariant holds of every run.
THEOREM Inductive == Spec => []IInv
BY InitIInv, NextIInv, PTL DEF Spec

\* When the pipeline is through, and in synthesis, the engine has decided about every candidate
\* (_run_integrity_pipeline), whatever was repeated after a crash.
THEOREM Decides == Spec => []NoneLeftOpen
<1>1. IInv => NoneLeftOpen
  BY DEF IInv, NoneForgotten, NoneLeftOpen, Decided
<1> QED BY <1>1, Inductive, PTL

\* No candidate passes the audit on vendor estimates among the captures the engine reads
\* (VerificationEngine.verify), whatever the model says and however often it is judged.
THEOREM Observation == Spec => []PassedOnObservation
<1>1. IInv => PassedOnObservation
  BY DEF IInv, Rulings
<1> QED BY <1>1, Inductive, PTL

\* A report that is delivered as final (ReportValidator.validate) has no dossier whose candidate
\* the engine has not passed on such a capture.
THEOREM FinalReport == Spec => []FinalRestsOnPages
<1>1. ASSUME IInv, report = "final", NEW c \in Owners
      PROVE  (\E v \in Passing : <<c, v>> \in rulings) /\ RestsOnPage(c)
  <2>1. PICK i \in DOMAIN dossiers : c = dossiers[i].cand
    BY <1>1 DEF Owners
  <2>2. PICK v \in Passing : <<c, v>> \in rulings
    BY <1>1, <2>1 DEF IInv, Rulings
  <2>3. <<c, v>>[1] = c /\ <<c, v>>[2] = v
    OBVIOUS
  <2>4. RestsOnPage(c)
    BY <1>1, <2>2, <2>3 DEF IInv, Rulings, PassedOnObservation
  <2> QED BY <2>2, <2>4
<1>2. IInv => FinalRestsOnPages
  BY <1>1 DEF FinalRestsOnPages
<1> QED BY <1>2, Inductive, PTL
\* The second invariant holds of every run.
THEOREM Accounts == Spec => []LInv
BY Inductive, InitLInv, NextLInv, PTL DEF Spec

\* No two candidate rows have one label (_find_candidate_by_niche, _backfill_niche_candidates),
\* whatever the model lists again, in whatever phase, and whatever is repeated after a crash.
THEOREM OneRow == Spec => []OneRowPerNiche
<1>1. LInv => OneRowPerNiche
  BY DEF LInv, Unique
<1> QED BY <1>1, Accounts, PTL

\* Every niche of a finished output stands on the ledger or in the backlog, itself or by a
\* near label, until the backlog is full (_record_backlog), whatever crashed on the way.
THEOREM NothingIsLost == Spec => []NothingLost
<1>1. LInv => NothingLost
  BY DEF LInv, Kept
<1> QED BY <1>1, Accounts, PTL
=============================================================================
