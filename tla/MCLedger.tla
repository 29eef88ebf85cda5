------------------------------ MODULE MCLedger ------------------------------
(***************************************************************************)
(* Ledger on small instances, with the statements of the source's own      *)
(* comments that the code does not keep.                                   *)
(*                                                                         *)
(* Label `ab' contains `a'; `s' is too short to become a row by an         *)
(* analysis; `c' is a label of its own.                                    *)
(***************************************************************************)
EXTENDS Ledger

MCNiches == {"a", "ab", "c", "s"}
MCLong   == {"a", "ab", "c"}
MCWithin == {<<"a", "ab">>}

\* Capture 1 is a panel of a browser extension, the rest are pages of one market.  With the
\* last one the panel is older than what the pipeline reads.
MCRecords == 1..4
MCFacts ==
  << [about |-> {"a", "c"}, estimate |-> TRUE,  url |-> "p", asins |-> {}, moats |-> {},
      signal |-> FALSE, kind |-> "panel", reviews |-> 0, product |-> "none", old |-> FALSE],
     [about |-> {"a", "c"}, estimate |-> FALSE, url |-> "q", asins |-> {"x", "y"},
      moats |-> {"x"}, signal |-> TRUE, kind |-> "search_results", reviews |-> 0,
      product |-> "none", old |-> FALSE],
     [about |-> {"a"}, estimate |-> FALSE, url |-> "r", asins |-> {"x"}, moats |-> {},
      signal |-> TRUE, kind |-> "reviews", reviews |-> 1, product |-> "x", old |-> FALSE],
     [about |-> {"c"}, estimate |-> FALSE, url |-> "t", asins |-> {}, moats |-> {},
      signal |-> FALSE, kind |-> "search_results", reviews |-> 0, product |-> "none",
      old |-> FALSE] >>

Row(n)              == [niche |-> n, linked |-> FALSE]
Linked(n)           == [niche |-> n, linked |-> TRUE]
Finding(n, k, s, e) == [niche |-> n, kind |-> k, statement |-> s, cites |-> e]
Says(n, id, v)      == [niche |-> n, id |-> id, verdict |-> v]
Dossier(n, id, e)   == [niche |-> n, id |-> id, valid |-> TRUE, cites |-> e]

MCReplies ==
  [niching     |-> { <<Row("a"), Row("c")>>, <<Row("ab"), Row("s"), Linked("c")>>, <<>> },
   analysis    |-> { <<Finding("a", "market_gap", "plain", {1}),
                       Finding("c", "demand", "strong", {2})>>,
                     <<Finding("ab", "market_gap", "plain", {2, 3}),
                       Finding("s", "demand", "weak", {})>>, <<>> },
   adversarial |-> { <<Says("a", PhantomId, "pass"), Says("c", 2, "downgrade"),
                       Says("s", NoId, "reject")>>, <<>> },
   synthesis   |-> { <<Dossier("c", PhantomId, {}), Dossier("a", NoId, {2}),
                       Dossier("ab", NoId, {1, 2})>>, <<>> }]

\* The model downgrades a niche once and says nothing of it again.
MCReplay ==
  [MCReplies EXCEPT !["niching"] = {<<Row("a"), Row("c")>>, <<>>},
                    !["adversarial"] = {<<Says("a", 1, "downgrade")>>, <<>>},
                    !["synthesis"] = {<<>>}]

\* The model makes a dossier of a niche and rejects it in a later pass; it lists a niche
\* under an id it has invented.
MCRegret ==
  [niching     |-> {<<Row("a"), Row("c")>>, <<Linked("s")>>, <<>>},
   analysis    |-> {<<Finding("a", "market_gap", "plain", {2, 3}),
                      Finding("c", "market_gap", "plain", {2, 3})>>, <<>>},
   adversarial |-> {<<>>, <<Says("c", NoId, "reject")>>},
   synthesis   |-> {<<Dossier("c", NoId, {2})>>, <<>>}]

\* Any of these.
MCAnything == [k \in DOMAIN MCReplies |-> MCReplies[k] \cup MCReplay[k] \cup MCRegret[k]]

-----------------------------------------------------------------------------
(* Statements of the source's comments *)

\* "an estimate is a hypothesis for deeper research, never proof" (verification.py:114): no
\* verdict rests on estimates, however old they are.
NeverOnEstimates ==
  \A ruling \in rulings : ruling[2] \in Passing =>
    \E x \in ClaimsOf(ruling[1]) : \E r \in x.cites : ~Facts[r].estimate

\* "RECORDED, never silently lost" (research_runner.py:2465): there are 200 places.
TailIsRecorded == \A n \in named : Accounted(n)

\* ... nor is a niche that a reply lists under the id of a candidate there is not.
ListedIsFollowed ==
  pc = "marker" /\ phase = "niching" =>
    \A i \in DOMAIN merged : i <= MaxLive => Accounted(merged[i].niche)

\* Rejected niches stay rejected in a refill pass.
RefillKeepsRejections ==
  [][\A i \in Places : refills > 0 /\ ledger[i].status = "rejected"
       => ledger'[i].status = "rejected"]_vars

\* Never a second row for one verified candidate.
OneDossierPerCandidate ==
  \A i, j \in DOMAIN dossiers : dossiers[i].cand = dossiers[j].cand => i = j

\* A candidate below the floor of evidence is downgraded, never advanced.
ThinIsNotAdvanced ==
  [][\A i \in Places :
       pc = "pipeline" /\ ledger[i].status # "verified" /\ ledger'[i].status = "verified"
       => ~TooFewRecords(Relevant(ledger[i].niche, {x \in claims' : x.cand = i}))]_vars

\* Rejected candidates do not reach the report: no dossier of a final report is of a
\* candidate that is rejected by now.
FinalCandidatesStand ==
  report = "final" => \A c \in Owners : ledger[c].status = "verified"
=============================================================================
