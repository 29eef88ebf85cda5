------------------------------- MODULE Ledger -------------------------------
(***************************************************************************)
(* The ledger of one session: which niches are candidates, what the model  *)
(* and the engine say of them, and which become dossiers of the report.    *)
(*                                                                         *)
(* Four kinds of phases write to it (niching, analysis, adversarial,       *)
(* synthesis); the integrity pipeline judges between the last two.  A      *)
(* reply is merged with what the phase handed over before, its effects are *)
(* written row by row, then its output is marked as done: a crash between  *)
(* two writes loses the reply and repeats the phase.                       *)
(*                                                                         *)
(* Durable: ledger, backlog, seen, claims, rulings, dossiers, saved, post, *)
(* pivots, refills, report.  In memory: outputs and how far the current    *)
(* phase or the pipeline has got.  Methodology has the sweep itself.       *)
(***************************************************************************)
EXTENDS Judgement, Sequences

CONSTANTS
  Replies,      \* per kind of phase, the rows a reply of the model may add
  MaxLive,      \* max_candidates: rows created from one output
  MaxDossiers,  \* max_opportunities
  BacklogCap,   \* the backlog keeps so many
  Window,       \* the pipeline reads so many of the newest captures
  Target,       \* verified niches the owner asked for
  MaxPivots, MaxRefills, MaxStops

Phases == {"niching", "analysis", "adversarial", "synthesis"}

NoId    == 0   \* the row names no candidate
PhantomId == -1   \* the row names a candidate that does not exist
Ids     == Nat \cup {PhantomId}

NicheRows     == [niche : Niches, linked : BOOLEAN]
AnalysisRows  == [niche : Niches, kind : Kinds, statement : Statements,
                  cites : SUBSET Records]
VerdictRows   == [niche : Niches, id : Ids,
                  verdict : {"pass", "verified", "reject", "rejected", "downgrade", "other"}]
SynthesisRows == [niche : Niches, id : Ids, valid : BOOLEAN, cites : SUBSET Records]
Rows == [niching |-> NicheRows, analysis |-> AnalysisRows,
         adversarial |-> VerdictRows, synthesis |-> SynthesisRows]

ASSUME ReplyAssumption ==
  \A p \in Phases : Replies[p] \subseteq Seq(Rows[p]) /\ <<>> \in Replies[p]
ASSUME LimitAssumption ==
  /\ MaxLive \in Nat /\ MaxDossiers \in Nat /\ BacklogCap \in Nat /\ Window \in Nat
  /\ Target \in Nat /\ MaxPivots \in Nat /\ MaxRefills \in Nat /\ MaxStops \in Nat

VARIABLES
  ledger,    \* candidate rows, in the order of their creation
  backlog,   \* niches beyond the cap
  seen,      \* captures 1 .. seen are stored
  claims,    \* registered claims
  rulings,   \* verification rows: candidate and verdict
  dossiers,  \* opportunity rows
  saved,     \* checkpoint phase_output of each phase: pass and rows
  post,      \* the pass whose work after Phase 8 is marked done
  pivots, refills,
  report,    \* the report's standing
  outputs,   \* phase_outputs
  pc, phase, \* where the run is
  merged,    \* the output being committed
  work,      \* the places of its rows whose effects are not written yet
  known,     \* candidates with a dossier when the effects began
  made,      \* dossiers created from this output
  queue,     \* candidates the pipeline has not judged yet
  named,     \* history: niches of outputs marked as done
  stops      \* history: crashes

durable == <<ledger, backlog, seen, claims, rulings, dossiers, saved, post, pivots,
             refills, report>>
memory  == <<outputs, pc, phase, merged, work, known, made, queue>>
vars == <<ledger, backlog, seen, claims, rulings, dossiers, saved, post, pivots, refills,
          report, outputs, pc, phase, merged, work, known, made, queue, named, stops>>

NoPass == -1
Pass   == pivots + refills
Places == DOMAIN ledger
Labels == {ledger[i].niche : i \in Places}

Statuses == {"discovered", "verifying", "verified", "rejected"}
CandidateRows == [niche : Niches, status : Statuses, seed : SUBSET Records,
                  low : BOOLEAN]  \* a score of -1
Dossiers == [cand : Nat, niche : Niches, status : Verdicts \cup {"adversarially verified"},
             cites : SUBSET Records]
Claims == [cand : Nat, kind : Kinds, statement : Statements \cup {"seed"},
           cites : SUBSET Records]

TypeOK ==
  /\ ledger \in Seq(CandidateRows)
  /\ backlog \subseteq Niches /\ named \subseteq Niches
  /\ seen \in Nat
  /\ claims \subseteq Claims
  /\ rulings \subseteq Nat \X Verdicts
  /\ dossiers \in Seq(Dossiers)
  /\ \A p \in Phases : saved[p].rows \in Seq(Rows[p]) /\ outputs[p] \in Seq(Rows[p])
  /\ post \in Int /\ pivots \in 0..MaxPivots /\ refills \in 0..MaxRefills
  /\ report \in {"none", "final", "provisional"}
  /\ pc \in {"reply", "effects", "marker", "pipeline", "gate", "report", "done"}
  /\ phase \in Phases
  /\ merged \in Seq(Rows[phase]) /\ work \subseteq DOMAIN merged
  /\ known \subseteq Nat /\ made \in Nat
  /\ queue \subseteq Places
  /\ stops \in 0..MaxStops

Init ==
  /\ ledger = <<>> /\ backlog = {} /\ seen = 0 /\ claims = {} /\ rulings = {}
  /\ dossiers = <<>>
  /\ saved = [p \in Phases |-> [pass |-> NoPass, rows |-> <<>>]]
  /\ post = NoPass /\ pivots = 0 /\ refills = 0 /\ report = "none"
  /\ outputs = [p \in Phases |-> <<>>]
  /\ pc = "reply" /\ phase = "niching"
  /\ merged = <<>> /\ work = {} /\ known = {} /\ made = 0 /\ queue = {}
  /\ named = {} /\ stops = 0

-----------------------------------------------------------------------------
(* Reading the ledger *)

First(S) == CHOOSE i \in S : \A j \in S : i <= j

Exact(n) == {i \in Places : ledger[i].niche = n}
Kindred(n) == {i \in Places : Kin(n, ledger[i].niche)}

\* _find_candidate_by_niche: the row of that label, or the only row whose label
\* contains it or is contained in it.
Match(n) ==
  IF Exact(n) # {} THEN First(Exact(n))
  ELSE IF Cardinality(Kindred(n)) = 1 THEN First(Kindred(n)) ELSE NoId

NewRow(n, seed) == [niche |-> n, status |-> "discovered", seed |-> seed, low |-> FALSE]

\* Mutant of Valid: invented ids are kept.
ValidUnchecked(cites) == cites

\* _valid_evidence_ids: the ids of stored captures.
Valid(cites) == {r \in cites : r <= seen}

\* The newest captures, which is what the pipeline reads.
Recent == {r \in Records : seen - Window < r /\ r <= seen}
Stored == {r \in Records : r <= seen}

\* Mutant of Keep: what is beyond the cap is dropped.
KeepNothing(old, new) == {old}

\* _record_backlog: what is there stays, and new labels are added while there is room.
Keep(old, new) ==
  {all \in SUBSET (old \cup new) :
     /\ old \subseteq all
     /\ \/ all = old \cup new
        \/ Cardinality(all) = BacklogCap /\ BacklogCap < Cardinality(old \cup new)}

-----------------------------------------------------------------------------
(* A reply is merged and its effects begin *)

\* The rows of an analysis that name a market no candidate, and no earlier row,
\* stands for.
FreshRows(rows) ==
  LET fresh[i \in DOMAIN rows] ==
        /\ rows[i].niche \in Long
        /\ rows[i].niche \notin Labels
        /\ \A m \in Labels : ~Kin(rows[i].niche, m)
        /\ \A j \in 1..(i - 1) :
             fresh[j] => /\ rows[j].niche # rows[i].niche
                         /\ ~Kin(rows[j].niche, rows[i].niche)
  IN {i \in DOMAIN rows : fresh[i]}

\* The rows that may create a candidate, and those of them within the cap.
Listed(p, rows) == IF p = "analysis" THEN FreshRows(rows) ELSE DOMAIN rows

WithinCap(p, S) ==
  IF p \in {"niching", "analysis"}
  THEN {i \in S : Cardinality({j \in S : j <= i}) <= MaxLive}
  ELSE S

\* A reply of the model: rows it repeats word for word are merged away, what it adds
\* follows what the phase has.  The overflow is recorded first.
Reply(rows) ==
  /\ pc = "reply"
  /\ \A i \in DOMAIN rows, j \in DOMAIN outputs[phase] : rows[i] # outputs[phase][j]
  /\ LET all == outputs[phase] \o rows
         listed == Listed(phase, all)
     IN /\ merged' = all
        /\ work' = WithinCap(phase, listed)
        /\ backlog' \in Keep(backlog, {all[i].niche : i \in listed \ WithinCap(phase, listed)})
  /\ known' = {dossiers[i].cand : i \in DOMAIN dossiers}
  /\ made' = 0
  /\ pc' = "effects"
  /\ UNCHANGED <<ledger, seen, claims, rulings, dossiers, saved, post, pivots, refills,
                 report, outputs, phase, queue, named, stops>>

\* The browser stores one more capture while a phase is under way.
Capture ==
  /\ pc = "reply" /\ phase \in {"niching", "analysis"}
  /\ seen + 1 \in Records
  /\ seen' = seen + 1
  /\ UNCHANGED <<ledger, backlog, claims, rulings, dossiers, saved, post, pivots, refills,
                 report, named, stops>>
  /\ UNCHANGED memory

-----------------------------------------------------------------------------
(* The effects, row by row *)

Writes(p) == pc = "effects" /\ phase = p /\ work # {}
Here == merged[First(work)]
RowDone ==
  /\ work' = work \ {First(work)}
  /\ UNCHANGED <<backlog, seen, claims, rulings, saved, post, pivots, refills, report,
                 outputs, pc, phase, merged, known, queue, named, stops>>

\* Mutant of ListNiche: every row gets a candidate of its own.
ListNicheAgain ==
  /\ Writes("niching")
  /\ ledger' = Append(ledger, NewRow(Here.niche, {}))
  /\ RowDone /\ UNCHANGED <<dossiers, made>>

\* A listed niche: a row that names its candidate is left alone, a niche that is on
\* the ledger, or one row's near label, is linked to it, any other is created.
ListNiche ==
  /\ Writes("niching")
  /\ ledger' = IF Here.linked \/ Match(Here.niche) # NoId
               THEN ledger ELSE Append(ledger, NewRow(Here.niche, {}))
  /\ RowDone /\ UNCHANGED <<dossiers, made>>

\* A niche the analysis worked on and nobody listed.
Backfill ==
  /\ Writes("analysis")
  /\ ledger' = Append(ledger, NewRow(Here.niche, Valid(Here.cites)))
  /\ RowDone /\ UNCHANGED <<dossiers, made>>

\* The candidate a verdict is about: its id, or by its niche when the id is missing
\* or invented.
Addressee(row) == IF row.id \in Places THEN row.id ELSE Match(row.niche)

StatusBy(verdict, old) ==
  IF verdict \in {"pass", "verified"} THEN "verified"
  ELSE IF verdict \in {"reject", "rejected"} THEN "rejected"
  ELSE IF verdict = "downgrade" THEN "discovered" ELSE old

ApplyVerdict ==
  /\ Writes("adversarial")
  /\ LET c == Addressee(Here)
     IN ledger' = IF c = NoId THEN ledger
                  ELSE [ledger EXCEPT ![c].status = StatusBy(Here.verdict, @),
                                      ![c].low = @ \/ Here.verdict = "downgrade"]
  /\ RowDone /\ UNCHANGED <<dossiers, made>>

\* The candidate of a dossier: by its niche only when the row has no id.
Owner(row) ==
  IF row.id = NoId THEN Match(row.niche)
  ELSE IF row.id \in Places THEN row.id ELSE NoId

\* _authoritative_verification_status: the best verdict among a candidate's rulings.
BestRuling(c) ==
  LET of == {v \in Verdicts : <<c, v>> \in rulings}
  IN CASE "verified" \in of -> "verified"
       [] "verified" \notin of /\ "verified_with_limitations" \in of
            -> "verified_with_limitations"
       [] of \cap Passing = {} /\ "rejected" \in of -> "rejected"
       [] of = {"inconclusive"} -> "inconclusive"
       [] OTHER -> "adversarially verified"

\* A synthesized opportunity becomes a dossier when it is whole, its candidate is
\* verified and had no dossier when the effects began.
Synthesize ==
  /\ Writes("synthesis")
  /\ LET c == Owner(Here)
         kept == /\ made < MaxDossiers
                 /\ Here.valid
                 /\ c # NoId
                 /\ ledger[c].status = "verified"
                 /\ c \notin known
     IN IF kept
        THEN /\ dossiers' = Append(dossiers, [cand |-> c, niche |-> Here.niche,
                                              status |-> BestRuling(c),
                                              cites |-> Valid(Here.cites)])
             /\ made' = made + 1
        ELSE UNCHANGED <<dossiers, made>>
  /\ RowDone /\ UNCHANGED ledger

EffectsDone ==
  /\ pc = "effects" /\ work = {}
  /\ pc' = "marker"
  /\ UNCHANGED durable
  /\ UNCHANGED <<outputs, phase, merged, work, known, made, queue, named, stops>>

\* Rows whose effects are written carry the id of their candidate from then on.
Committed(p, rows) ==
  IF p = "niching"
  THEN [i \in DOMAIN rows |-> [rows[i] EXCEPT !.linked = @ \/ i <= MaxLive]]
  ELSE rows

After(p) ==
  [niching     |-> [pc |-> "reply",    phase |-> "analysis"],
   analysis    |-> [pc |-> "reply",    phase |-> "adversarial"],
   adversarial |-> [pc |-> "pipeline", phase |-> "adversarial"],
   synthesis   |-> [pc |-> "report",   phase |-> "synthesis"]][p]

\* Mutant of Open: only the first page of the ledger is read.
OpenFirstPage == {i \in Places : i = 1 /\ ledger[i].status \notin {"rejected", "verified"}}

\* The candidates the pipeline is to judge, read when it starts.
Open == {i \in Places : ledger[i].status \notin {"rejected", "verified"}}

\* What an output names as a market, but for the rows that name a candidate besides.
Names(p, rows) ==
  CASE p = "niching"  -> {rows[i].niche : i \in {j \in DOMAIN rows : ~rows[j].linked}}
    [] p = "analysis" -> {rows[i].niche : i \in DOMAIN rows} \cap Long
    [] OTHER          -> {}

SaveOutput ==
  /\ pc = "marker"
  /\ saved' = [saved EXCEPT ![phase] = [pass |-> Pass, rows |-> Committed(phase, merged)]]
  /\ outputs' = [outputs EXCEPT ![phase] = Committed(phase, merged)]
  /\ named' = named \cup Names(phase, merged)
  /\ pc' = After(phase).pc /\ phase' = After(phase).phase
  /\ queue' = IF phase = "adversarial" THEN Open ELSE {}
  /\ merged' = <<>> /\ known' = {} /\ made' = 0
  /\ UNCHANGED <<ledger, backlog, seen, claims, rulings, dossiers, post, pivots, refills,
                 report, work, stops>>

-----------------------------------------------------------------------------
(* The integrity pipeline *)

Mentions(row, n) == row.niche = n \/ Kin(row.niche, n)

ClaimsOf(c) == {x \in claims : x.cand = c}

\* The order in which the analyses are read.
Rank(kind) == CASE kind = "competition"   -> 1
                [] kind = "consumer_need" -> 2
                [] kind = "demand"        -> 3
                [] kind = "market_gap"    -> 4

\* A statement is registered once for a candidate, with what its first mention cites.
Registered(c) ==
  LET rows == outputs["analysis"]
      said == {x.statement : x \in ClaimsOf(c)}
      told == {i \in DOMAIN rows : /\ Mentions(rows[i], ledger[c].niche)
                                   /\ rows[i].statement \notin said}
      Before(j, i) == \/ Rank(rows[j].kind) < Rank(rows[i].kind)
                      \/ Rank(rows[j].kind) = Rank(rows[i].kind) /\ j < i
      first == {i \in told : \A j \in told :
                  rows[j].statement = rows[i].statement => ~Before(j, i)}
  IN {[cand |-> c, kind |-> rows[i].kind, statement |-> rows[i].statement,
       cites |-> Valid(rows[i].cites)] : i \in first}
     \cup IF ledger[c].seed = {} \/ "seed" \in said THEN {}
          ELSE {[cand |-> c, kind |-> "demand", statement |-> "seed",
                 cites |-> Valid(ledger[c].seed)]}

\* evidence_for_candidate: what its claims cite and what is about it.
Relevant(n, cs) ==
  {r \in Recent : n \in Facts[r].about \/ \E x \in cs : r \in x.cites}

\* _model_verdict_for: the first verdict on that very label.
ModelVerdict(n) ==
  LET rows == outputs["adversarial"]
      on == {i \in DOMAIN rows : rows[i].niche = n}
  IN IF on = {} THEN "none" ELSE rows[First(on)].verdict

\* One candidate: its claims are registered, the filters run, the audit rules.  What
\* a soft filter finds lowers the score and nothing else.
Judge(c) ==
  /\ pc = "pipeline" /\ c \in queue
  /\ queue' = queue \ {c}
  /\ claims' = claims \cup Registered(c)
  /\ LET cs == ClaimsOf(c) \cup Registered(c)
         recs == Relevant(ledger[c].niche, cs)
         ruling == Audit(ledger[c].niche, recs, cs, ModelVerdict(ledger[c].niche))
     IN IF HardFailure(ledger[c].niche, recs, cs, Labels)
        THEN /\ ledger' = [ledger EXCEPT ![c].status = "rejected"]
             /\ UNCHANGED rulings
        ELSE /\ rulings' = rulings \cup {<<c, ruling>>}
             /\ ledger' = [ledger EXCEPT ![c].status = StatusAfter(ruling),
                                         ![c].low = @ \/ SoftFailure(recs, cs)]
  /\ UNCHANGED <<backlog, seen, dossiers, saved, post, pivots, refills, report, outputs,
                 pc, phase, merged, work, known, made, named, stops>>

PipelineDone ==
  /\ pc = "pipeline" /\ queue = {}
  /\ pc' = "gate"
  /\ UNCHANGED durable
  /\ UNCHANGED <<outputs, phase, merged, work, known, made, queue, named, stops>>

Verified == {i \in Places : ledger[i].status = "verified"}

\* Nothing verified, and time for a pass on a new focus: the analyses are dropped.
Pivot ==
  /\ pc = "gate"
  /\ pivots < MaxPivots /\ Verified = {}
  /\ pivots' = pivots + 1
  /\ outputs' = [p \in Phases |-> <<>>]
  /\ pc' = "reply" /\ phase' = "niching"
  /\ UNCHANGED <<ledger, backlog, seen, claims, rulings, dossiers, saved, post, refills,
                 report, merged, work, known, made, queue, named, stops>>

\* Fewer verified niches than the owner asked for: the analyses are kept.
Refill ==
  /\ pc = "gate"
  /\ refills < MaxRefills /\ Cardinality(Verified) < Target
  /\ refills' = refills + 1
  /\ pc' = "reply" /\ phase' = "niching"
  /\ UNCHANGED <<ledger, backlog, seen, claims, rulings, dossiers, saved, post, pivots,
                 report, outputs, merged, work, known, made, queue, named, stops>>

\* No further pass: the target is met, or there are no rounds or no time left.
MarkPost ==
  /\ pc = "gate"
  /\ post' = Pass
  /\ IF saved["synthesis"].pass = Pass
     THEN pc' = "report" /\ phase' = "synthesis"
     ELSE pc' = "reply" /\ phase' = "synthesis"
  /\ UNCHANGED <<ledger, backlog, seen, claims, rulings, dossiers, saved, pivots, refills,
                 report, outputs, merged, work, known, made, queue, named, stops>>

-----------------------------------------------------------------------------
(* The report, and crashes *)

Owners == {dossiers[i].cand : i \in DOMAIN dossiers}

\* Dossiers whose candidate has a completed audit, whatever it found.
Audited == {i \in DOMAIN dossiers :
              \E v \in Verdicts \ {"inconclusive"} : <<dossiers[i].cand, v>> \in rulings}

GatesPass ==
  /\ ObservationGate(Stored)
  /\ EvidenceGate(UNION ({x.cites : x \in claims}
                         \cup {dossiers[i].cites : i \in DOMAIN dossiers}), Stored)
  /\ CandidateGate(Len(ledger), Verified)
  /\ CoverageGate(Audited, DOMAIN dossiers)
  /\ SupportGate(claims, Stored)
  /\ \A c \in Owners : GapGate(ClaimsOf(c))

\* Mutant of Sound: any completed audit will do.
SoundAudited(d) ==
  /\ \E v \in Verdicts : <<d.cand, v>> \in rulings
  /\ UNION {x.cites : x \in ClaimsOf(d.cand)} \cup d.cites # {}

\* ReportValidator on one dossier: the engine has passed its candidate, and it or
\* its candidate's claims cite captures, which exist.
Sound(d) ==
  /\ \E v \in Passing : <<d.cand, v>> \in rulings
  /\ LET cited == UNION {x.cites : x \in ClaimsOf(d.cand)} \cup d.cites
     IN cited # {} /\ cited \subseteq Stored
  /\ ~Blocked(ledger[d.cand].niche)

\* No niche, and no candidate, is presented twice.
Distinct ==
  \A i, j \in DOMAIN dossiers : i # j =>
    dossiers[i].cand # dossiers[j].cand /\ dossiers[i].niche # dossiers[j].niche

\* A report that fails its validation is delivered as provisional.
WriteReport ==
  /\ pc = "report"
  /\ report' = IF GatesPass /\ Distinct /\ \A i \in DOMAIN dossiers : Sound(dossiers[i])
               THEN "final" ELSE "provisional"
  /\ pc' = "done"
  /\ UNCHANGED <<ledger, backlog, seen, claims, rulings, dossiers, saved, post, pivots,
                 refills, outputs, phase, merged, work, known, made, queue, named, stops>>

Done(p) == saved[p].pass = Pass

\* The phases of this pass before the pipeline all have their output.
Judged == Done("niching") /\ Done("analysis") /\ Done("adversarial")

\* The work after Phase 8 counts as marked; a pass 0 never does (Methodology!Stored).
Marked == post = Pass /\ Pass # 0

\* Where a run that was interrupted goes on: at the first phase without an output of
\* this pass.
Crash ==
  /\ pc # "done"
  /\ stops < MaxStops /\ stops' = stops + 1
  /\ outputs' = [p \in Phases |-> IF Done(p) THEN saved[p].rows ELSE <<>>]
  /\ \/ /\ ~Judged /\ pc' = "reply"
        /\ phase' = IF ~Done("niching") THEN "niching"
                    ELSE IF ~Done("analysis") THEN "analysis" ELSE "adversarial"
     \/ Judged /\ ~Marked /\ pc' = "pipeline" /\ phase' = "adversarial"
     \/ /\ Judged /\ Marked /\ phase' = "synthesis"
        /\ pc' = IF Done("synthesis") THEN "report" ELSE "reply"
  /\ queue' = IF Judged /\ ~Marked THEN Open ELSE {}
  /\ merged' = <<>> /\ work' = {} /\ known' = {} /\ made' = 0
  /\ UNCHANGED durable /\ UNCHANGED named

-----------------------------------------------------------------------------
Effects == ListNiche \/ Backfill \/ ApplyVerdict \/ Synthesize \/ EffectsDone \/ SaveOutput

Pipeline == (\E c \in queue : Judge(c)) \/ PipelineDone \/ Pivot \/ Refill \/ MarkPost

Next ==
  \/ Capture \/ \E rows \in Replies[phase] : Reply(rows)
  \/ Effects \/ Pipeline \/ WriteReport \/ Crash

Spec == Init /\ [][Next]_vars

-----------------------------------------------------------------------------
(* Properties *)

\* No niche is counted twice: whatever is listed again by a repeated or re-opened
\* phase, under whatever phase's wording, no two candidate rows have one label.
OneRowPerNiche ==
  \A i, j \in Places : ledger[i].niche = ledger[j].niche => i = j

\* What stands for a niche on the ledger or in the backlog.
Accounted(n) == \E m \in Labels \cup backlog : m = n \/ Kin(n, m)

\* Every niche of an output that is marked as done is accounted for, by itself or by
\* a near label ("never silently dropped"), whatever crashed before the mark, as long as
\* the backlog is not full.
NothingLost == Cardinality(backlog) < BacklogCap => \A n \in named : Accounted(n)

\* Candidate c has a claim with a capture that is a page's, as far as the pipeline can tell:
\* it reads the newest captures, and takes what is older for a page.
RestsOnPage(c) ==
  \E x \in ClaimsOf(c) : \E r \in x.cites : r \notin Recent \/ ~Facts[r].estimate

\* No verdict of the engine rests on vendor estimates among the captures it reads: a candidate
\* it has passed has a claim that cites another capture.
PassedOnObservation == \A ruling \in rulings : ruling[2] \in Passing => RestsOnPage(ruling[1])

\* When the pipeline is through, no candidate is left unjudged, and none is until the
\* next pass begins: synthesis never sees a niche nobody has decided about.
NoneLeftOpen ==
  pc = "gate" \/ (phase = "synthesis" /\ pc # "done")
    => \A i \in Places : ledger[i].status # "discovered"

\* A final report has no dossier that rests on the model's word or on the estimates the
\* pipeline reads alone: the engine has passed its candidate, on a claim that cites another
\* capture.
FinalRestsOnPages ==
  report = "final" =>
    \A c \in Owners : (\E v \in Passing : <<c, v>> \in rulings) /\ RestsOnPage(c)
=============================================================================
