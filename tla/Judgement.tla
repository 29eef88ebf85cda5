------------------------------ MODULE Judgement ------------------------------
(***************************************************************************)
(* How the engine judges a candidate: the thirteen filters, the audit of   *)
(* its claims, and the gates over the whole session.  Pure functions of    *)
(* the page records that concern the candidate and of its claims.          *)
(*                                                                         *)
(* A record is a number; Facts says what a capture shows.  A claim is      *)
(* [cand, kind, statement, cites]; it is unsupported, and mere inference,  *)
(* exactly when it cites nothing (ClaimStore.create).                      *)
(***************************************************************************)
EXTENDS Integers, FiniteSets

CONSTANTS
  Records,     \* page captures and extension panels
  Facts,       \* what each of them shows
  Niches,      \* labels of candidates
  Long,        \* the labels of eight characters and more
  Within,      \* pairs of labels, the first of which is part of the second's text
  Similar,     \* pairs of labels that share 70 % of their words
  Broad,       \* labels that name a market and not a niche
  Risky,       \* labels the KDP screening blocks
  MinCandidate, MinSources, MinCompetitors, MinReviews, MinProducts,
  MinObservations, SupportedPct, InferencePct, CoveragePct

Kinds == {"demand", "competition", "consumer_need", "market_gap"}
Statements == {"strong", "weak", "saturated", "plain"}

ASSUME FactsAssumption ==
  /\ Records \subseteq Nat
  /\ \A r \in Records : /\ Facts[r].about \subseteq Niches
                        /\ Facts[r].estimate \in BOOLEAN
ASSUME LabelAssumption ==
  /\ Long \subseteq Niches /\ Broad \subseteq Niches /\ Risky \subseteq Niches
  /\ Within \subseteq Long \X Long /\ Similar \subseteq Niches \X Niches
ASSUME ThresholdAssumption ==
  /\ MinCandidate \in Nat /\ MinSources \in Nat /\ MinCompetitors \in Nat
  /\ MinReviews \in Nat /\ MinProducts \in Nat /\ MinObservations \in Nat
  /\ SupportedPct \in 1..100 /\ InferencePct \in 0..100 /\ CoveragePct \in 0..100

\* The larger of two thresholds.
AtLeast(a, b) == IF a >= b THEN a ELSE b

\* One label is part of the other.
Kin(n, m) == <<n, m>> \in Within \/ <<m, n>> \in Within

-----------------------------------------------------------------------------
(* Records and claims *)

Estimates(recs) == {r \in recs : Facts[r].estimate}
Urls(recs)      == {Facts[r].url : r \in recs}
Competitors(recs) == UNION {Facts[r].asins : r \in recs}
Moats(recs)     == UNION {Facts[r].moats : r \in recs}

\* Captures that show sales, rankings or reviews; an estimate is none.
DemandSignals(recs) == {r \in recs : Facts[r].signal /\ ~Facts[r].estimate}

ClaimsAbout(kinds, claims) == {c \in claims : c.kind \in kinds}
Cited(claims) == {c \in claims : c.cites # {}}
Saturation(claims) ==
  {c \in Cited(ClaimsAbout({"competition"}, claims)) : c.statement = "saturated"}

\* Mutant of EstimateBacked: a claim on a panel alone passes.
EstimateBackedNever(c, est) == FALSE

\* The only support of the claim are vendor estimates.
EstimateBacked(c, est) == c.cites # {} /\ c.cites \subseteq est

Unsupported(claims, est) == {c \in claims : c.cites = {} \/ EstimateBacked(c, est)}

\* part/whole >= pct/100, in whole numbers.
Share(part, whole, pct) == 100 * part >= pct * whole

-----------------------------------------------------------------------------
(* The filters *)

TooFewRecords(recs) == Cardinality(recs) < AtLeast(MinCandidate, MinSources)

TooBroad(n) == n \in Broad

Duplicate(n, others) == \E o \in others : o # n /\ <<n, o>> \in Similar

TooNarrow(recs) == Competitors(recs) = {} /\ DemandSignals(recs) = {}

WeakDemand(recs, claims) ==
  LET demand == ClaimsAbout({"demand"}, claims)
  IN /\ recs # {} \/ demand # {}
     /\ Cited(demand) = {}
     /\ Cardinality(DemandSignals(recs)) < MinSources

Entrenched(recs) ==
  /\ Cardinality(Competitors(recs)) >= 2 * MinCompetitors
  /\ 2 * Cardinality(Moats(recs)) > Cardinality(Competitors(recs))

ExcessiveCompetition(recs, claims) == Entrenched(recs) /\ Saturation(claims) # {}

DemandTooSmall(recs, claims) ==
  /\ Entrenched(recs)
  /\ Cardinality(Cited(ClaimsAbout({"demand"}, claims))) < MinSources

Anomaly(recs, claims) ==
  /\ Cardinality(Urls(DemandSignals(recs))) = 1
  /\ ClaimsAbout({"demand"}, claims) # {}

TooFewCompetitors(recs) ==
  /\ \E r \in recs : Facts[r].kind \in {"search_results", "product_page", "related_products"}
  /\ Cardinality(Competitors(recs)) < MinCompetitors

TooFewReviews(recs) ==
  LET reviews == {r \in recs : Facts[r].kind = "reviews"}
  IN /\ reviews # {}
     /\ \/ Cardinality(UNION {{r} \X (1..Facts[r].reviews) : r \in reviews}) < MinReviews
        \/ Cardinality({Facts[r].product : r \in reviews}) < MinProducts

\* More than a third is older than a week.
Stale(recs) ==
  recs # {} /\ Share(Cardinality({r \in recs : Facts[r].old}), Cardinality(recs), 34)

Contradictory(claims) ==
  \E c, d \in claims : c.kind = d.kind /\ c.statement = "strong" /\ d.statement = "weak"

Unverifiable(claims) ==
  /\ claims # {}
  /\ 2 * Cardinality(claims \ Cited(claims)) > Cardinality(claims)

HardFailure(n, recs, claims, others) ==
  \/ Duplicate(n, others)
  \/ TooBroad(n)
  \/ WeakDemand(recs, claims)
  \/ ExcessiveCompetition(recs, claims)
  \/ Anomaly(recs, claims)
  \/ Contradictory(claims)
  \/ Unverifiable(claims)

SoftFailure(recs, claims) ==
  \/ TooFewRecords(recs)
  \/ TooNarrow(recs)
  \/ TooFewCompetitors(recs)
  \/ TooFewReviews(recs)
  \/ Stale(recs)
  \/ DemandTooSmall(recs, claims)

-----------------------------------------------------------------------------
(* The audit *)

Verdicts == {"verified", "verified_with_limitations", "inconclusive", "rejected"}

CoverageOk(obs) == Cardinality(obs) >= AtLeast(2, MinSources)

CorroborationOk(obs) ==
  \/ Cardinality(Urls(obs)) >= MinSources
  \/ Cardinality(obs) >= 2 * MinSources

\* Every kind a claim can have here is an important one.
ClaimsOk(claims, est) ==
  /\ claims # {}
  /\ Share(Cardinality(claims) - Cardinality(Unsupported(claims, est)),
           Cardinality(claims), SupportedPct)

InferenceOk(claims) ==
  /\ claims # {}
  /\ Share(Cardinality(Cited(claims)), Cardinality(claims), 100 - InferencePct)

\* The screening against KDP's rules blocks the label.
Blocked(n) == n \in Risky

\* VerificationEngine.verify; `said' is the model's own verdict, or "none".
Audit(n, recs, claims, said) ==
  LET est == Estimates(recs)
      obs == recs \ est
      condemned == said = "reject" \/ Blocked(n)
      substance == CoverageOk(obs) /\ ClaimsOk(claims, est) /\ CorroborationOk(obs)
  IN IF condemned THEN "rejected"
     ELSE IF substance
          THEN IF InferenceOk(claims) THEN "verified" ELSE "verified_with_limitations"
          ELSE IF obs = {} \/ claims = {} THEN "inconclusive" ELSE "rejected"

Passing == {"verified", "verified_with_limitations"}

\* VerificationEngine.apply.
StatusAfter(verdict) ==
  IF verdict \in Passing THEN "verified"
  ELSE IF verdict = "rejected" THEN "rejected" ELSE "verifying"

-----------------------------------------------------------------------------
(* The blocking quality gates *)

ObservationGate(recs) == Cardinality(recs) >= MinObservations

EvidenceGate(cites, recs) == Cardinality((cites \cap recs) \ Estimates(recs)) >= MinSources

\* `n' rows on the ledger, some of them verified.
CandidateGate(n, verified) == n >= 3 /\ verified # {}

SupportGate(claims, recs) == ClaimsOk(claims, Estimates(recs))

\* `covered' of `all' dossiers have a completed audit, passed or failed.
CoverageGate(covered, all) == Share(Cardinality(covered), Cardinality(all), CoveragePct)

GapGate(claims) == Cited(ClaimsAbout({"competition", "market_gap"}, claims)) # {}
=============================================================================
