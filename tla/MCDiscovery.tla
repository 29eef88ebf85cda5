---------------------------- MODULE MCDiscovery ----------------------------
(***************************************************************************)
(* Discovery on a small instance: one seed `log', its completions `log     *)
(* book' and `log book men', a category of the same head word, and a niche *)
(* the phases may list.                                                    *)
(***************************************************************************)
EXTENDS Discovery

MCMarket   == <<"us", "uk">>
MCPrompt   == <<>>
MCFallback == <<"log">>
MCLetters  == <<"a">>

MCTerms == {"log", "log book", "log book men", "book logs", "bestsellers", "new_releases"}
MCSpelt == [t \in MCTerms |-> CASE t = "log" -> {"log"}
                                [] t = "log book" -> {"log", "book"}
                                [] t = "log book men" -> {"log", "book"}
                                [] t = "book logs" -> {"log", "book", "logs"}
                                [] OTHER -> {}]
MCHeads == [t \in MCTerms |-> CASE t = "book logs" -> {"book", "logs"}
                                [] t \in {"log book", "log book men"} -> {"book"}
                                [] OTHER -> {}]
MCWords == [t \in MCTerms |-> CASE t = "log book men" -> 3
                                [] t \in {"log book", "book logs"} -> 2
                                [] OTHER -> 1]

\* Two steps of a scale, enough to tell none from some from much.
MCLogNorm(v, c) == IF v <= 0 THEN 0 ELSE IF v >= c THEN 100 ELSE 40
MCRankStrength(r) == IF r <= 10 THEN 90 ELSE 20

Book(asin, reviews, rank) == [asin |-> asin, reviews |-> reviews, rank |-> rank]

MCCharts == {[rivals |-> {Book("b1", 3, 5)}, links |-> <<"book logs">>]}
MCNodes   == {{}, {Book("b1", 3, 5)}}
MCResults == {{Book("b2", 900, 0)}, {Book("b2", 4, 7)}}
MCSuggestions == {{}, {"log book", "log book men"}}
Page(kind, subject, phrases, rivals) ==
  [at |-> 0, kind |-> kind, subject |-> subject, mkt |-> "us", phrases |-> phrases,
   rivals |-> rivals]
MCPhaseShots == {Page("search_results", "book logs", {}, {Book("b1", 4, 0)}),
                 Page("keyword_research", "book logs", {"log book"}, {})}

Plan(c, q, n, s, r, u) ==
  [census |-> c, queries |-> q, niches |-> n, shots |-> s, rounds |-> r, upsets |-> u]
\* The two walks with two upsets; or the phases and a round of adjacency after a frontier with one.
MCPlans == {Plan(TRUE, 4, {}, 0, 0, 2), Plan(FALSE, 2, {"book logs"}, 2, 1, 1)}
\* All of it.
Long == {Plan(TRUE, 3, {"book logs"}, 2, 1, 2)}
=============================================================================
