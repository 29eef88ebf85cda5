------------------------------ MODULE Headroom ------------------------------
(***************************************************************************)
(* What the deterministic walkers make of a set of captures: the headroom  *)
(* of a niche (whitespace.py) and the neighbours of the candidates         *)
(* (adjacency.py).  Pure functions; a share is a whole percentage.         *)
(*                                                                         *)
(* A capture is [at, kind, subject, mkt, phrases, rivals]: its number, the *)
(* query, prefix or category it is about, the completions it lists and the *)
(* books it shows.  A rival is [asin, reviews, rank]; reviews -1 and rank 0 stand   *)
(* for a figure the page does not print.                                   *)
(***************************************************************************)
EXTENDS Integers, FiniteSets, FiniteSetsExt

CONSTANTS
  Terms,           \* phrases, queries, categories and labels of niches
  Heads,           \* the words of a term that are longer than three letters
  Spelt,           \* the words a term contains
  Words,           \* how many words it has
  Noise, Wordy,    \* phrases that are not demand language; those over 60 letters
  LogNorm(_, _),   \* a count on the logarithmic scale up to a ceiling, 0..100
  RankStrength(_)  \* a best-seller rank, 0..100

ASSUME TermAssumption ==
  /\ Noise \subseteq Terms /\ Wordy \subseteq Terms
  /\ \A t \in Terms : Words[t] \in Nat /\ Heads[t] \subseteq Spelt[t]
ASSUME ScaleAssumption ==
  /\ \A v \in 0..100, c \in {12, 20, 40, 1000} : LogNorm(v, c) \in 0..100
  /\ \A c \in {12, 20, 40, 1000} : LogNorm(0, c) = 0
  /\ \A r \in 1..100 : RankStrength(r) \in 0..100

Least(a, b) == IF a <= b THEN a ELSE b
Percent(part, whole) == (100 * part) \div whole

-----------------------------------------------------------------------------
(* The headroom of a niche *)

\* What searches and product pages show, and no chart does; a book seen on two pages counts
\* twice.
RivalKinds == {"search_results", "product_page"}
Observed(shots) == UNION {{s} \X s.rivals : s \in {x \in shots : x.kind \in RivalKinds}}
Reviewed(seen)  == {o \in seen : o[2].reviews >= 0}

Completions == {"autocomplete", "autocomplete_frontier", "demand_language"}
Language(shots) == UNION {s.phrases : s \in {x \in shots : x.kind \in Completions}}

\* The term names so many of the head words, or all of them.
Shares(term, head, least) ==
  /\ head # {}
  /\ Cardinality(head \cap Spelt[term]) >= Least(least, Cardinality(head))

\* The k-th smallest of the counts, and the mean of the middle two.
MedianOf(counted) ==
  LET below(n) == Cardinality({o \in counted : o[2].reviews <= n})
      at(k) == Min({n \in {o[2].reviews : o \in counted} : below(n) >= k})
      size == Cardinality(counted)
  IN IF size % 2 = 1 THEN at(size \div 2 + 1)
     ELSE (at(size \div 2) + at(size \div 2 + 1)) \div 2

Depth(shots, niche) ==
  LET all == Language(shots)
      close == {t \in all : Shares(t, Heads[niche], 2)}
  IN LogNorm(Cardinality(IF close = {} THEN all ELSE close), 40)

\* The components that are present, each with its weight.
DemandParts(shots, niche) ==
  LET seen == Observed(shots)
      ranks == {o[2].rank : o \in seen} \ {0}
  IN (IF seen = {} THEN {} ELSE
        {<<"buyer_activity", 45,
           Percent(Cardinality({o \in seen : o[2].reviews > 0}), Cardinality(seen))>>})
     \cup (IF Depth(shots, niche) = 0 THEN {} ELSE
        {<<"autocomplete_depth", 25, Depth(shots, niche)>>})
     \cup (IF ranks = {} THEN {} ELSE {<<"bsr_strength", 30, RankStrength(Min(ranks))>>})

CompetitionParts(shots) ==
  LET seen == Observed(shots)
      counted == Reviewed(seen)
  IN (IF Cardinality(seen) < 3 THEN {} ELSE
        {<<"crowding", 15, Least(100, 5 * Cardinality({o[2].asin : o \in seen}))>>})
     \cup (IF counted = {} THEN {} ELSE
        {<<"review_barrier", 55, LogNorm(MedianOf(counted), 1000)>>,
         <<"deep_moat_share", 30,
           Percent(Cardinality({o \in counted : o[2].reviews >= 500}),
                   Cardinality(counted))>>})

\* The weighted mean over the parts that are present.
Weighted(parts) ==
  MapThenSumSet(LAMBDA p : p[2] * p[3], parts) \div MapThenSumSet(LAMBDA p : p[2], parts)

Unmeasured == -1

\* compute_whitespace: demand against demand plus competition; no evidence is not a
\* measured zero.
Headroom(shots, niche) ==
  LET demand == DemandParts(shots, niche)
      competition == CompetitionParts(shots)
      d == IF demand = {} THEN 0 ELSE Weighted(demand)
      c == IF competition = {} THEN 0 ELSE Weighted(competition)
  IN IF demand = {} /\ competition = {} THEN Unmeasured
     ELSE IF d + c = 0 THEN 50 ELSE Percent(d, d + c)

-----------------------------------------------------------------------------
(* Demand language *)

\* phrase_score: -1 for noise, 0 for a single word, more for what completes often.
PhraseScore(term, times) ==
  IF term \in Noise THEN -1
  ELSE IF Words[term] < 2 THEN 0
  ELSE 10 * Least(Words[term], 6) + 4 * Least(times, 20)
       + (IF Words[term] >= 3 THEN 15 ELSE 0) - (IF term \in Wordy THEN 20 ELSE 0)

\* How often a phrase appears in the captured demand language.
Frequency(shots, term) ==
  Cardinality({s \in shots : s.kind \in Completions /\ term \in s.phrases})

\* pre_score: which neighbour is measured first.
PreScore(shots, term) ==
  LET covered == \E s \in shots : s.kind = "search_results"
                                  /\ Shares(s.subject, Heads[term], 2)
  IN Least(100, (70 * LogNorm(Frequency(shots, term), 12)) \div 100
                + (IF covered THEN 30 ELSE 0) + (IF Words[term] >= 3 THEN 15 ELSE 0))

-----------------------------------------------------------------------------
(* Neighbours *)

ChartNames == {"bestsellers", "new_releases"}
IsNoise(term) == term \in Noise \cup Wordy \/ Words[term] < 2

\* The phrases one capture suggests for a niche.
Derived(shot, niche) ==
  LET here == shot.kind # "demand_language" /\ Shares(shot.subject, Heads[niche], 1)
  IN CASE shot.kind \in Completions ->
            {t \in shot.phrases : ~IsNoise(t) /\ (here \/ Shares(t, Heads[niche], 1))}
       [] shot.kind = "census" ->
            {t \in {shot.subject} \ ChartNames : here /\ ~IsNoise(t)}
       [] OTHER -> {}

\* gather_neighbors: what the captures suggest beside each candidate that is not
\* rejected, once for each market, and what the frontier's terms add for the first
\* candidate they extend; never the name of a candidate.
Neighbors(candidates, shots, frontier, known) ==
  LET strong == {i \in DOMAIN candidates : candidates[i].status # "rejected"}
      near(t) == {i \in strong : Shares(t, Heads[candidates[i].niche], 1)}
      fromShots == UNION {{[term |-> t, mkt |-> s.mkt, by |-> i, cites |-> s.at,
                            late |-> s.kind = "census"] : t \in Derived(s, candidates[i].niche)} :
                            s \in shots, i \in strong}
      Sooner(n, o) == \/ n.by < o.by
                      \/ n.by = o.by /\ n.late # o.late /\ o.late
                      \/ n.by = o.by /\ n.late = o.late /\ n.cites >= o.cites
      first == {n \in fromShots : \A o \in fromShots :
                  o.term = n.term /\ o.mkt = n.mkt => Sooner(n, o)}
      fromFrontier == {[term |-> t, mkt |-> candidates[Min(near(t))].mkt, cites |-> 0] :
                         t \in {x \in frontier : ~IsNoise(x) /\ near(x) # {}}}
      added == {n \in fromFrontier : \A o \in fromShots :
                  o.term # n.term \/ o.mkt # n.mkt}
  IN {n \in {[term |-> f.term, mkt |-> f.mkt, cites |-> f.cites] : f \in first} \cup added :
        n.term \notin known}
=============================================================================
