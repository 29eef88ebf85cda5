------------------------------ MODULE Discovery ------------------------------
(***************************************************************************)
(* Discovery without a model: the walk before Phase 1 (category census,    *)
(* then autocomplete frontier), the rounds of adjacency after Phases 3 and *)
(* 5, and the memory of the market that sessions share.                    *)
(*                                                                         *)
(* The runner is one coroutine; between two of its awaits a pause or       *)
(* cancel may be asked for, a page may be closed under it, a deadline may  *)
(* pass, the process may die.  What the walkers show of a page is chosen   *)
(* from the constants.                                                     *)
(***************************************************************************)
EXTENDS Headroom, Sequences, SequencesExt

CONSTANTS
  Market,          \* the session's marketplaces, in order
  Prompt, Fallback, \* words of the owner's brief; format roots
  Letters,         \* the alphabet of the frontier
  FrontierOn,
  CensusMarkets, MaxCategories,
  FrontierMarkets, MaxDepth, MaxProductive,
  Bar,             \* adjacency_min_whitespace
  MaxNew, NeighborLimit, MaxCandidates,
  Charts, Nodes, Suggestions, PhaseShots, Results,  \* what pages may show
  Plans            \* configurations and bounds of the instance: is the census on, the budget
                   \* of queries, the labels the phases may list; how many captures, rounds
                   \* and upsets a behaviour has

ASSUME WalkAssumption ==
  /\ Prompt \in Seq(Terms) /\ Fallback \in Seq(Terms) /\ Fallback # <<>>
  /\ ChartNames \subseteq Terms /\ Market # <<>> /\ FrontierOn \in BOOLEAN
  /\ Plans \subseteq [census : BOOLEAN, queries : Nat, niches : SUBSET Terms, shots : Nat,
                      rounds : Nat, upsets : Nat]
  /\ \A n \in {CensusMarkets, MaxDepth, FrontierMarkets} : n \in Nat \ {0}
  /\ \A n \in {MaxCategories, MaxProductive, MaxNew, NeighborLimit, MaxCandidates, Bar} : n \in Nat
  /\ {} \in Suggestions

VARIABLES
  plan,       \* which of Plans
  clock,      \* number of the last capture of any session
  evidence,   \* captures of this session, oldest first
  cp,         \* checkpoints discovery_preflight_census and _frontier
  preflight,  \* checkpoint discovery_preflight
  ledger,     \* candidates, oldest first
  backlog, rounds, memory,
  pc, stop,   \* where the run is; a pause or cancel is asked for
  late,       \* the deadline of the walk has passed
  out,        \* census_out and frontier_out
  spot,       \* where the census or the opening of pages has got
  willMine,   \* will_frontier
  pages,      \* the frontier's pages by marketplace: live or dead
  queries, todo, round, deep, batches,
  near,       \* neighbours left in the round
  tally,      \* what the round has measured and promoted
  whole,      \* history: the halves whose last walk no stop cut short
  upsets      \* history: stops, crashes, faults, deadlines, lost pages, other sessions

durable == <<clock, evidence, cp, preflight, ledger, backlog, rounds, memory>>
frontier == <<pages, queries, todo, round, deep, batches>>
adjacency == <<near, tally>>
vars == <<plan, clock, evidence, cp, preflight, ledger, backlog, rounds, memory, pc, stop, late, out,
          spot, willMine, pages, queries, todo, round, deep, batches, near, tally, whole, upsets>>

Halves == {"census", "frontier"}
NoMap  == [state |-> "none", found |-> <<>>]
IsMap(map) == map.state \in {"none", "made", "error"} /\ map.found \in Seq(Terms)
Marketplaces == {Market[i] : i \in DOMAIN Market}
CensusSize == Least(CensusMarkets, Len(Market))
FrontierMkts == SubSeq(Market, 1, Least(FrontierMarkets, Len(Market)))

Kinds == Completions \cup {"census", "search_results", "product_page", "keyword_research"}
Shots == [at : Nat, kind : Kinds, subject : Terms, mkt : Marketplaces,
          phrases : SUBSET Terms, rivals : SUBSET [asin : STRING, reviews : Int, rank : Nat]]

ASSUME ShotAssumption == PhaseShots \subseteq Shots

NewSpot  == [m |-> 1, k |-> 1, links |-> <<>>, walked |-> 0, found |-> <<>>,
             cut |-> FALSE]
NewTally == [measured |-> 0, promoted |-> 0, budget |-> 0, rows |-> {}]

TypeOK ==
  /\ clock \in Nat
  /\ \A i \in DOMAIN evidence : evidence[i] \in Shots /\ evidence[i].at <= clock
  /\ \A h \in Halves : IsMap(cp[h]) /\ IsMap(out[h]) /\ IsMap(preflight.map[h])
  /\ preflight.done \in BOOLEAN
  /\ \A i \in DOMAIN ledger :
       ledger[i] \in [niche : Terms, mkt : Marketplaces,
                      status : {"discovered", "verified", "rejected"}, adjacent : BOOLEAN]
  /\ backlog \subseteq Terms
  /\ pc \in {"enter", "census", "open", "ask", "mined", "closing", "phases", "adjacent",
             "halted"}
  /\ stop \in BOOLEAN /\ late \in BOOLEAN /\ willMine \in BOOLEAN
  /\ DOMAIN pages \subseteq Marketplaces
  /\ queries \in 0..plan.queries
  /\ tally.promoted \in 0..MaxNew
  /\ whole \subseteq Halves

Init ==
  /\ plan \in Plans
  /\ clock = 0 /\ evidence = <<>> /\ ledger = <<>> /\ backlog = {} /\ rounds = <<>>
  /\ cp = [h \in Halves |-> NoMap]
  /\ preflight = [done |-> FALSE, map |-> [h \in Halves |-> NoMap]]
  /\ memory = <<>>
  /\ pc = "enter" /\ stop = FALSE /\ late = FALSE
  /\ out = [h \in Halves |-> NoMap]
  /\ spot = NewSpot /\ willMine = FALSE
  /\ pages = <<>> /\ queries = 0 /\ todo = <<>> /\ round = 1 /\ deep = <<>>
  /\ batches = <<>>
  /\ near = {} /\ tally = NewTally
  /\ whole = {} /\ upsets = 0

-----------------------------------------------------------------------------
(* Entering the preflight *)

Capture(at, kind, subject, mkt, phrases, rivals) ==
  [at |-> at, kind |-> kind, subject |-> subject, mkt |-> mkt, phrases |-> phrases,
   rivals |-> rivals]

Store(shot) == evidence' = Append(evidence, shot) /\ clock' = clock + 1

\* Mutant of Cached: only what the preflight has recorded is used again.
CachedWithPreflight(h) == preflight.map[h]

\* A half that is on its own checkpoint, and not as an error, is used again.
Cached(h) == IF cp[h].state = "error" THEN NoMap ELSE cp[h]

\* Mutant of Close: the walk is done when it returns.
CloseAnyhow(map) ==
  /\ preflight' = [done |-> TRUE, map |-> map]
  /\ pc' = "phases"

\* The preflight is recorded, as done only when no stop is asked for.
Close(map) ==
  /\ preflight' = [done |-> ~stop, map |-> map]
  /\ pc' = "phases"

Enter ==
  /\ pc = "enter"
  /\ LET known == [h \in Halves |-> Cached(h)]
         walk == plan.census /\ known["census"] = NoMap /\ ~stop
         mine == FrontierOn /\ known["frontier"] = NoMap /\ ~stop
     IN IF preflight.done
        THEN pc' = "phases" /\ UNCHANGED <<preflight, out, willMine>>
        ELSE /\ out' = known /\ willMine' = mine
             /\ IF walk THEN pc' = "census" /\ UNCHANGED preflight
                ELSE IF mine THEN pc' = "open" /\ UNCHANGED preflight
                ELSE Close(known)
  /\ spot' = NewSpot /\ late' = FALSE
  /\ UNCHANGED <<clock, evidence, cp, ledger, backlog, rounds, memory, stop, whole, upsets>>
  /\ UNCHANGED <<frontier, adjacency>>

-----------------------------------------------------------------------------
(* The census *)

NextMarket(s) == [NewSpot EXCEPT !.m = s.m + 1, !.found = s.found]
WalkedAll == spot.m > CensusSize
AtChart == ~WalkedAll /\ spot.k <= 2
AtNode  == ~WalkedAll /\ spot.k = 3 /\ spot.links # <<>> /\ spot.walked < MaxCategories
ChartAt(k) == IF k = 1 THEN "bestsellers" ELSE "new_releases"

CensusFrame ==
  UNCHANGED <<cp, preflight, ledger, backlog, rounds, memory, pc, stop, late, out, willMine,
              whole, frontier, adjacency>>

\* Items that were read become a capture; the write itself may fail, unnoticed.
Record(subject, rivals, next) ==
  \/ /\ rivals # {} /\ UNCHANGED upsets
     /\ Store(Capture(clock + 1, "census", subject, Market[spot.m], {}, rivals))
     /\ spot' = [next EXCEPT !.found = Append(@, subject)]
  \/ /\ IF rivals = {} THEN UNCHANGED upsets ELSE upsets < plan.upsets /\ upsets' = upsets + 1
     /\ spot' = next
     /\ UNCHANGED <<evidence, clock>>

\* A chart that will not open ends this marketplace; the links are those of the first
\* chart that has any.
VisitChart ==
  /\ pc = "census" /\ AtChart /\ ~stop /\ ~late
  /\ \/ spot' = NextMarket(spot) /\ UNCHANGED <<evidence, clock, upsets>>
     \/ \E chart \in Charts :
          Record(ChartAt(spot.k), chart.rivals,
                 [spot EXCEPT !.k = @ + 1,
                              !.links = IF @ = <<>> THEN chart.links ELSE @])
  /\ CensusFrame

\* A node that will not open, or shows nothing, is passed over and does not count.
VisitNode ==
  /\ pc = "census" /\ AtNode /\ ~stop /\ ~late
  /\ LET rest == [spot EXCEPT !.links = Tail(@)]
     IN \E rivals \in Nodes :
          Record(Head(spot.links), rivals,
                 IF rivals = {} THEN rest ELSE [rest EXCEPT !.walked = @ + 1])
  /\ CensusFrame

MarketDone ==
  /\ pc = "census" /\ ~WalkedAll /\ ~AtChart /\ ~AtNode
  /\ spot' = NextMarket(spot)
  /\ CensusFrame /\ UNCHANGED <<evidence, clock, upsets>>

\* A stop or the deadline ends the whole walk; the result is called "time_budget".
CensusCut ==
  /\ pc = "census" /\ (AtChart \/ AtNode) /\ (stop \/ late)
  /\ spot' = [spot EXCEPT !.m = CensusSize + 1, !.cut = stop]
  /\ CensusFrame /\ UNCHANGED <<evidence, clock, upsets>>

\* Mutant of Keep: what the walk returns is kept.
KeepAnyhow(h, map) == cp' = [cp EXCEPT ![h] = map]

\* The result of a half goes on its own checkpoint unless a stop is asked for.
Keep(h, map) == cp' = IF stop THEN cp ELSE [cp EXCEPT ![h] = map]

\* The result of a half, or an error of what is done with it.
Outcome(h, found, Then(_)) ==
  \/ LET map == [state |-> "made", found |-> found]
     IN Keep(h, map) /\ Then(map) /\ UNCHANGED upsets
  \/ /\ upsets < plan.upsets
     /\ upsets' = upsets + 1
     /\ Then([state |-> "error", found |-> <<>>]) /\ UNCHANGED cp

CensusOver ==
  /\ pc = "census" /\ WalkedAll
  /\ Outcome("census", spot.found, LAMBDA map :
       out' = [out EXCEPT !["census"] = map])
  /\ pc' = IF willMine THEN "open" ELSE "closing"
  /\ whole' = IF spot.cut THEN whole ELSE whole \cup {"census"}
  /\ spot' = NewSpot /\ late' = FALSE
  /\ UNCHANGED <<clock, evidence, preflight, ledger, backlog, rounds, memory, stop, willMine>>
  /\ UNCHANGED <<frontier, adjacency>>

-----------------------------------------------------------------------------
(* The frontier *)

\* The owner's words, else the census's categories, else the format roots.
Seeds ==
  LET words == IF Prompt # <<>> THEN Prompt
               ELSE IF out["census"].found # <<>> THEN out["census"].found ELSE Fallback
  IN SubSeq(words, 1, Least(6, Len(words)))

Asks(prefixes) ==
  FlattenSeq([i \in DOMAIN prefixes |->
                [j \in DOMAIN FrontierMkts |-> <<FrontierMkts[j], prefixes[i]>>]])
Whole(terms) == [i \in DOMAIN terms |-> <<terms[i], "">>]

Heard    == UNION {batches[b] : b \in DOMAIN batches}
Times(t) == Cardinality({b \in DOMAIN batches : t \in batches[b]})
Score(t) == PhraseScore(t, Times(t))
Yield(seed) ==
  MapThenSumSet(LAMBDA b : IF b[2] = <<seed, "">> THEN Cardinality(batches[b]) ELSE 0,
                DOMAIN batches)
First(seq, n) == SubSeq(seq, 1, Least(n, Len(seq)))
Ranked == SetToSortSeq({t \in Heard : Score(t) >= 20}, LAMBDA t, u : Score(t) > Score(u))

\* The most productive seeds with each letter, the letters first.
LetterRound ==
  LET seeds == First(SortSeq(Seeds, LAMBDA t, u : Yield(t) > Yield(u)),
                     MaxProductive)
  IN FlattenSeq([l \in DOMAIN Letters |-> [i \in DOMAIN seeds |-> <<seeds[i], Letters[l]>>]])

\* What the next round deepens: the best terms, then the longer terms they led to.
NextDeep ==
  IF round = 2 THEN First(Ranked, plan.queries \div 3)
  ELSE First(SetToSortSeq({t \in Heard \ ToSet(deep) : Words[t] >= round},
                          LAMBDA t, u : Times(t) > Times(u)), 40)

WalkFrame ==
  UNCHANGED <<clock, evidence, cp, preflight, ledger, backlog, rounds, memory, stop, late, out,
              willMine, whole, adjacency>>
FrontierFrame == WalkFrame /\ UNCHANGED upsets

\* One page for each marketplace, without a look at the stop.
OpenPage ==
  /\ pc = "open" /\ spot.m <= Len(FrontierMkts) /\ plan.queries > 0
  /\ LET mkt == FrontierMkts[spot.m]
     IN pages' \in {pages, [m \in DOMAIN pages \cup {mkt} |-> IF m = mkt THEN "live" ELSE pages[m]]}
  /\ spot' = [spot EXCEPT !.m = @ + 1]
  /\ FrontierFrame /\ UNCHANGED <<pc, queries, todo, round, deep, batches>>

Opened ==
  /\ pc = "open" /\ (spot.m > Len(FrontierMkts) \/ plan.queries = 0)
  /\ pc' = "ask"
  /\ todo' = Asks(Whole(Seeds)) /\ round' = 1 /\ deep' = <<>>
  /\ queries' = 0 /\ batches' = <<>>
  /\ FrontierFrame /\ UNCHANGED <<spot, pages>>

\* The page is evicted, or its browser goes away.
PageDies ==
  /\ pc = "ask" /\ upsets < plan.upsets /\ upsets' = upsets + 1
  /\ \E m \in DOMAIN pages : pages[m] = "live" /\ pages' = [pages EXCEPT ![m] = "dead"]
  /\ WalkFrame /\ UNCHANGED <<pc, spot, queries, todo, round, deep, batches>>

\* Mutant of Exhausted: only a stop or the deadline ends the sweep.
ExhaustedNever == late \/ stop

Exhausted == queries >= plan.queries \/ late \/ stop

\* A query counts before it is answered; a marketplace without a page is not asked.
Ask ==
  /\ pc = "ask" /\ todo # <<>> /\ ~Exhausted
  /\ LET q == Head(todo)
     IN IF q[1] \notin DOMAIN pages THEN UNCHANGED <<queries, batches>>
        ELSE /\ queries' = queries + 1
             /\ \E terms \in Suggestions :
                  /\ terms # {} => pages[q[1]] = "live"
                  /\ batches' = IF terms = {} THEN batches
                                ELSE [b \in DOMAIN batches \cup {q} |->
                                        IF b = q THEN terms ELSE batches[b]]
  /\ todo' = Tail(todo)
  /\ FrontierFrame /\ UNCHANGED <<pc, spot, pages, round, deep>>

HasRound == round = 1 \/ (round <= MaxDepth /\ NextDeep # <<>>)

NextRound ==
  /\ pc = "ask" /\ todo = <<>> /\ ~Exhausted /\ HasRound
  /\ round' = round + 1
  /\ deep' = IF round = 1 THEN <<>> ELSE NextDeep
  /\ todo' = Asks(IF round = 1 THEN LetterRound ELSE Whole(NextDeep))
  /\ FrontierFrame /\ UNCHANGED <<pc, spot, pages, queries, batches>>

\* The captures of the sweep, in one go when it is over.
Mined ==
  LET asked == SetToSeq(DOMAIN batches)
      lists == [i \in DOMAIN asked |->
                  Capture(clock + i, "autocomplete_frontier", asked[i][2][1], asked[i][1],
                          batches[asked[i]], {})]
  IN IF Ranked = <<>> THEN lists
     ELSE Append(lists, Capture(clock + Len(lists) + 1, "demand_language", Seeds[1], Market[1],
                                ToSet(First(Ranked, 80)), {}))

\* The sweep is over: what it heard is stored, or that fails unnoticed; every page of
\* it is closed.
Mine ==
  /\ pc = "ask" /\ (Exhausted \/ (todo = <<>> /\ ~HasRound))
  /\ pc' = "mined"
  /\ \/ evidence' = evidence \o Mined /\ clock' = clock + Len(Mined) /\ UNCHANGED upsets
     \/ upsets < plan.upsets /\ upsets' = upsets + 1 /\ UNCHANGED <<evidence, clock>>
  /\ whole' = IF stop /\ (todo # <<>> \/ HasRound) THEN whole ELSE whole \cup {"frontier"}
  /\ pages' = <<>>
  /\ UNCHANGED <<cp, preflight, ledger, backlog, rounds, memory, stop, late, out, spot,
                 willMine, queries, todo, round, deep, batches, adjacency>>

FrontierOver ==
  /\ pc = "mined"
  /\ pc' = "closing"
  /\ Outcome("frontier", First(Ranked, 80), LAMBDA map :
       out' = [out EXCEPT !["frontier"] = map])
  /\ spot' = NewSpot /\ late' = FALSE /\ willMine' = FALSE
  /\ queries' = 0 /\ todo' = <<>> /\ round' = 1 /\ deep' = <<>> /\ batches' = <<>>
  /\ UNCHANGED <<clock, evidence, preflight, ledger, backlog, rounds, memory, stop, pages, whole>>
  /\ UNCHANGED adjacency

\* The preflight's own checkpoint is a write of its own, after those of its halves; nothing
\* awaits in between, and a process may die there.
PreflightOver ==
  /\ pc = "closing"
  /\ Close(out)
  /\ UNCHANGED <<clock, evidence, cp, ledger, backlog, rounds, memory, stop, late, out, spot>>
  /\ UNCHANGED <<willMine, frontier, adjacency, whole, upsets>>

DeadlinePasses ==
  /\ pc \in {"census", "open", "ask"} /\ ~late /\ late' = TRUE
  /\ upsets < plan.upsets /\ upsets' = upsets + 1
  /\ UNCHANGED <<durable, pc, stop, out, spot, willMine, frontier, adjacency, whole>>

-----------------------------------------------------------------------------
(* The phases: what they capture, list and decide, in the ledger's order, is Ledger's *)

PhaseFrame == UNCHANGED <<cp, preflight, pc, stop, late, out, spot, willMine, frontier, whole>>

Shot ==
  /\ pc = "phases" /\ ~stop /\ Len(evidence) < plan.shots
  /\ \E s \in PhaseShots : Store([s EXCEPT !.at = clock + 1])
  /\ PhaseFrame /\ UNCHANGED <<ledger, backlog, rounds, memory, adjacency, upsets>>

Candidate(niche, mkt, adjacent) ==
  [niche |-> niche, mkt |-> mkt, status |-> "discovered", adjacent |-> adjacent]
Labels == {ledger[i].niche : i \in DOMAIN ledger}

List ==
  /\ pc = "phases" /\ ~stop
  /\ \E n \in plan.niches \ Labels : ledger' = Append(ledger, Candidate(n, Market[1], FALSE))
  /\ PhaseFrame /\ UNCHANGED <<clock, evidence, backlog, rounds, memory, adjacency, upsets>>

Judge ==
  /\ pc = "phases" /\ ~stop
  /\ \E i \in DOMAIN ledger, v \in {"verified", "rejected"} :
       /\ ledger[i].status = "discovered"
       /\ \A j \in 1..(i - 1) : ledger[j].status # "discovered"
       /\ ledger' = [ledger EXCEPT ![i].status = v]
  /\ PhaseFrame /\ UNCHANGED <<clock, evidence, backlog, rounds, memory, adjacency, upsets>>

-----------------------------------------------------------------------------
(* A round of adjacency *)

\* Mutant of Known: the candidates' names are not excluded.
KnownNone == {}

Known == Labels
ListOrder == Reverse(ledger)

Beside == Neighbors(ListOrder, ToSet(evidence), ToSet(preflight.map["frontier"].found), Known)

Pre(n) == PreScore(ToSet(evidence), n.term)

Foremost(S) == {T \in SUBSET S : /\ Cardinality(T) = Least(NeighborLimit, Cardinality(S))
                                 /\ \A n \in T, o \in S \ T : Pre(n) >= Pre(o)}

StartRound ==
  /\ pc = "phases" /\ ~stop /\ Len(rounds) < plan.rounds
  /\ IF Beside = {}
     THEN UNCHANGED <<pc, adjacency>>
     ELSE /\ pc' = "adjacent"
          /\ near' \in Foremost(Beside)
          /\ tally' = [NewTally EXCEPT !.budget =
                         Least(Cardinality(near'), IF MaxNew < 2 THEN 4 ELSE 2 * MaxNew)]
  /\ UNCHANGED <<durable, stop, late, out, spot, willMine, frontier, whole, upsets>>

RoundGoesOn ==
  /\ near # {} /\ ~stop
  /\ tally.promoted < MaxNew /\ tally.measured < tally.budget
Nearest == {n \in near : \A o \in near : Pre(n) >= Pre(o)}

\* The ledger is full: the neighbour goes to the backlog.
Overflow ==
  /\ pc = "adjacent" /\ RoundGoesOn /\ Len(ledger) >= MaxCandidates
  /\ \E n \in Nearest : near' = near \ {n} /\ backlog' = backlog \cup {n.term}
  /\ PhaseFrame /\ UNCHANGED <<clock, evidence, ledger, rounds, memory, tally, upsets>>

\* A real search; the neighbour becomes a candidate when the captures that are about
\* it, this one among them, show enough headroom.
Measure ==
  /\ pc = "adjacent" /\ RoundGoesOn /\ Len(ledger) < MaxCandidates
  /\ \E n \in Nearest :
       /\ near' = near \ {n}
       /\ \/ tally' = [tally EXCEPT !.measured = @ + 1]
             /\ UNCHANGED <<clock, evidence, ledger>>
          \/ \E rivals \in Results :
               LET shot == Capture(clock + 1, "search_results", n.term, n.mkt, {}, rivals)
                   mine == {s \in ToSet(evidence) \cup {shot} :
                              \/ s.kind = "search_results" /\ s.subject = n.term
                              \/ s.at = n.cites}
                   enough == Headroom(mine, n.term) # Unmeasured
                             /\ Headroom(mine, n.term) >= Bar
               IN /\ Store(shot)
                  /\ ledger' = IF enough THEN Append(ledger, Candidate(n.term, n.mkt, TRUE))
                               ELSE ledger
                  /\ tally' = [tally EXCEPT !.measured = @ + 1,
                                            !.promoted = IF enough THEN @ + 1 ELSE @,
                                            !.rows = @ \cup {[term |-> n.term, mkt |-> n.mkt,
                                                              promoted |-> enough]}]
  /\ PhaseFrame /\ UNCHANGED <<backlog, rounds, memory, upsets>>

\* The round is logged; when it fails it is not.
RoundEnds ==
  /\ pc = "adjacent"
  /\ \/ ~RoundGoesOn /\ rounds' = Append(rounds, tally) /\ UNCHANGED upsets
     \/ /\ upsets < plan.upsets
        /\ upsets' = upsets + 1
        /\ UNCHANGED rounds
  /\ pc' = "phases" /\ near' = {} /\ tally' = NewTally
  /\ UNCHANGED <<clock, evidence, cp, preflight, ledger, backlog, memory, stop, late, out,
                 spot, willMine, frontier, whole>>

-----------------------------------------------------------------------------
(* The memory of the market *)

\* The facts one capture holds.
Facts(s) ==
  LET keys(kind, subjects) == {kind} \X subjects \X {s.mkt}
      asins == {r.asin : r \in s.rivals}
  IN CASE s.kind = "search_results"   -> keys("keyword", {s.subject}) \cup keys("competitor", asins)
       [] s.kind = "product_page"     -> keys("competitor", asins)
       [] s.kind = "keyword_research" -> keys("keyword", s.phrases)
       [] s.kind = "census"           -> keys("category", {s.subject})
       [] OTHER                       -> {}

\* remember: one row for each key, whoever wrote it before.
Upsert(mem, keys, at, by) ==
  [k \in DOMAIN mem \cup keys |-> IF k \in keys THEN [at |-> at, by |-> by] ELSE mem[k]]

\* The capture that has the last word on a key: the store lists the newest first.
LastRead(k) == CHOOSE i \in DOMAIN evidence :
                 /\ k \in Facts(evidence[i])
                 /\ \A j \in 1..(i - 1) : k \notin Facts(evidence[j])

\* Mutant of Remembered: the facts carry the time of the harvest.
RememberedNow(k) == [at |-> clock + 1, by |-> "mine"]

Remembered(k) == [at |-> evidence[LastRead(k)].at, by |-> "mine"]

\* What a candidate that is not rejected is remembered as.
Standing(status) ==
  {<<IF status = "verified" THEN "verified_niche" ELSE "near_miss", c.niche, c.mkt>> :
     c \in {x \in ToSet(ledger) : x.status = status}}

\* harvest_session: the candidates, then the captures, each one's facts over those of
\* the captures read before it.
Harvest ==
  /\ pc = "phases" /\ ~stop
  /\ LET niches == Upsert(Upsert(memory, Standing("verified"), clock, "mine"),
                          Standing("discovered"), clock, "mine")
         shown == UNION {Facts(evidence[i]) : i \in DOMAIN evidence}
     IN memory' = [k \in DOMAIN niches \cup shown |->
                     IF k \in shown THEN Remembered(k) ELSE niches[k]]
  /\ PhaseFrame /\ UNCHANGED <<clock, evidence, ledger, backlog, rounds, adjacency, upsets>>

\* Another session remembers what it has just measured (during a walk or a round this
\* would commute with every step).
OtherHarvest ==
  /\ pc = "phases" /\ upsets < plan.upsets
  /\ \E s \in PhaseShots :
       /\ clock' = clock + 1
       /\ memory' = Upsert(memory, Facts(s), clock + 1, "other")
  /\ upsets' = upsets + 1
  /\ UNCHANGED <<evidence, cp, preflight, ledger, backlog, rounds, pc, stop, late, out, spot,
                 willMine, frontier, adjacency, whole>>

\* digest: what other sessions measured last, as fact when it is fresh.
Digest(now, window) ==
  {[key |-> k, fresh |-> now - memory[k].at <= window] :
     k \in {x \in DOMAIN memory : memory[x].by # "mine"}}

-----------------------------------------------------------------------------
(* Stops, restarts *)

AskStop ==
  /\ pc \notin {"halted", "closing"} /\ ~stop /\ upsets < plan.upsets
  /\ stop' = TRUE /\ upsets' = upsets + 1
  /\ UNCHANGED <<durable, pc, late, out, spot, willMine, frontier, adjacency, whole>>

Halt ==
  /\ pc = "phases" /\ stop
  /\ pc' = "halted"
  /\ UNCHANGED <<durable, stop, late, out, spot, willMine, frontier, adjacency, whole, upsets>>

\* A new runner has nothing of what the old one held in memory.
NewRunner ==
  /\ pc' = "enter" /\ stop' = FALSE /\ late' = FALSE
  /\ out' = [h \in Halves |-> NoMap] /\ spot' = NewSpot /\ willMine' = FALSE
  /\ pages' = <<>> /\ queries' = 0 /\ todo' = <<>> /\ round' = 1 /\ deep' = <<>>
  /\ batches' = <<>>
  /\ near' = {} /\ tally' = NewTally
  /\ UNCHANGED durable /\ UNCHANGED whole

Resume == pc = "halted" /\ NewRunner /\ UNCHANGED upsets
Crash ==
  /\ upsets < plan.upsets
  /\ NewRunner /\ upsets' = upsets + 1

-----------------------------------------------------------------------------
Census   == VisitChart \/ VisitNode \/ MarketDone \/ CensusCut \/ CensusOver
Frontier == OpenPage \/ Opened \/ PageDies \/ Ask \/ NextRound \/ Mine \/ FrontierOver
Adjacency == StartRound \/ Overflow \/ Measure \/ RoundEnds

Next ==
  /\ UNCHANGED plan
  /\ \/ Enter \/ Census \/ Frontier \/ PreflightOver \/ Adjacency \/ DeadlinePasses
     \/ Shot \/ List \/ Judge \/ Harvest \/ OtherHarvest
     \/ AskStop \/ Halt \/ Resume \/ Crash

Spec == Init /\ [][Next]_vars

-----------------------------------------------------------------------------
(* Properties *)

\* A walk a pause or a cancel has cut short is never taken for the whole map, whatever
\* is paused, resumed or killed in between: what is on a checkpoint, or part of a
\* preflight that is done, comes from a walk that was let run (an error says so).
MapIsWhole ==
  /\ \A h \in Halves : cp[h].state = "made" => h \in whole
  /\ preflight.done => \A h \in Halves : preflight.map[h].state = "made" => h \in whole

\* What a finished half has cost is never paid again, by whatever run comes after.
NothingWalkedTwice ==
  /\ cp["census"].state = "made" => pc # "census"
  /\ cp["frontier"].state = "made" => pc \notin {"open", "ask", "mined"}

\* No neighbour becomes a candidate twice, however often its round is repeated.
NeighbourOnce ==
  \A i, j \in DOMAIN ledger :
    ledger[i].niche = ledger[j].niche /\ ledger[i].mkt = ledger[j].mkt => i = j

\* A measured fact in memory carries the time of a capture that shows it.
MeasuredWhenSaid ==
  \A k \in DOMAIN memory :
    memory[k].by = "mine" /\ k[1] \in {"keyword", "competitor", "category"}
      => \E i \in DOMAIN evidence : evidence[i].at = memory[k].at /\ k \in Facts(evidence[i])

-----------------------------------------------------------------------------
(* Statements of the source's comments that the code does not keep *)

\* The latest measurement wins.
LatestMeasurementWins ==
  [][memory' # memory =>
       \A i \in DOMAIN evidence : \A k \in Facts(evidence[i]) :
         k \in DOMAIN memory' => memory'[k].at >= evidence[i].at]_vars

\* A pause or cancel stops the walk: no page is opened for it any more.
StopOpensNothing == [][stop => DOMAIN pages' \subseteq DOMAIN pages]_vars

\* A partially measured map is never recorded as done: a census that is done has been
\* to every chart of its marketplaces.
DoneIsMeasured == preflight.done => preflight.map["census"].found # <<>>

\* A niche is one candidate.
NicheIsOne == \A i, j \in DOMAIN ledger : ledger[i].niche = ledger[j].niche => i = j
=============================================================================
