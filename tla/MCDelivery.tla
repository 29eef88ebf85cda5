----------------------------- MODULE MCDelivery -----------------------------
(***************************************************************************)
(* Instances and properties of Delivery.                                   *)
(***************************************************************************)
EXTENDS Delivery

MCDemand   == ("p1" :> 5 @@ "p2" :> 3)
MCAlphabet == ("p1" :> 2 @@ "p2" :> 1)

\* The dossier of c1 names its niche otherwise than the candidate does.
MCNicheOf == ("c1" :> "n1" @@ "c2" :> "n2" @@ "c3" :> "n3")
MCLabel   == ("c1" :> "m1" @@ "c2" :> "n2" @@ "c3" :> "n3")
MCMktOf   == ("c1" :> "US" @@ "c2" :> "UK" @@ "c3" :> "US")
\* Two candidates of one niche, found on two marketplaces.
OneNiche  == ("c1" :> "n1" @@ "c2" :> "n1" @@ "c3" :> "n3")

\* Nothing, one store's categories without a review, both.
MCShown == {<<>>, <<"categories">>, <<"reviews", "categories">>}

\* The dossier's candidate has the lowest score.
MCListing  == <<"c2", "c3", "c1">>
OneDossier == <<"c1">>

\* 40 is a count of the accounting, 400 is what searches print, 77 is invented or stands in a
\* note, 88 stands in the dossier of c1 and 66 in the material of c2, 5 is too small to be a
\* figure; 9000 is in a title of its own.
MCCandText == ("c1" :> {88} @@ "c2" :> {66} @@ "c3" :> {})
Mixed    == {[part |-> "overview", cites |-> {40, 5}], [part |-> "risks", cites |-> {400, 88}]}
Invented == {[part |-> "overview", cites |-> {77, 400}]}
MCReplies == {[usable |-> TRUE, prose |-> Mixed], [usable |-> TRUE, prose |-> Invented]}

\* One title names the part of a phrase that was measured.
MCWithin == {<<"p", "p1">>}

\* The process may die or a call fail once; or all goes well and the owner asks for things.
MCQuotas == {[upsets |-> 1, reports |-> 0, pdfs |-> 0], [upsets |-> 0, reports |-> 1, pdfs |-> 1]}

Plan      == {[part |-> "keywords", cites |-> {400}], [part |-> "categories", cites |-> {88}],
              [part |-> "marketplaces", cites |-> {66}], [part |-> "beating", cites |-> {}]}
TitleOn(p, n) == [target |-> p, opening |-> p, cites |-> {n}, dressed |-> {}, why |-> {400}]
MCBookReplies == {[usable |-> TRUE, prose |-> Plan, titles |-> <<TitleOn("p", 101), TitleOn("p1", 9000)>>],
                  [usable |-> FALSE, prose |-> {}, titles |-> <<>>]}
-----------------------------------------------------------------------------
\* Each variable holds what the code keeps there.
TypeOK ==
  /\ \A e \in ToSet(captures) : e.kind \in {"keywords", "reviews", "categories"}
  /\ dive \in [Cands -> {"none", "failed", "done"}] /\ recalled \in 0..Len(captures)
  /\ \A r \in ToSet(reports) : /\ r.kind \in {"final", "own"}
                               /\ r.mode \in {"none", "final", "provisional"}
                               /\ r.body.form \in {"full", "compact", "own"}
  /\ completed \in BOOLEAN /\ stop \in BOOLEAN /\ wrote \in BOOLEAN
  /\ pc \in {"start", "dive", "diving", "build", "narrate", "playbooks", "save", "model",
             "finish", "over", "down", "stopped"}
  /\ todo \subseteq Cands /\ due \subseteq model.sections /\ attempt \in 1..2
  /\ left \in [{"upsets", "reports", "pdfs"} -> 0..2]

\* The report of the run is written and the session completed, whatever fails or is stopped,
\* however often the process dies, unless the session is left stopped: boot resumes nothing,
\* so that one that died, or failed with no heal left, waits for its owner.
Reported == completed /\ \E r \in ToSet(reports) : r.kind = "final" /\ r.body.form # "own"
ReportAppears == []<>(pc # "stopped") => <>Reported
-----------------------------------------------------------------------------
(* What the code's own documents say and the code does not do. *)

\* pdf_export.py:4: the exporter "never summarizes, rewrites or drops report text".
PdfKeepsText ==
  \A doc \in artifacts : \A part \in ToSet(doc) :
    LET body == reports[part.report].body
    IN body.form = "full" => part.prose = body.prose /\ part.books = body.books

\* routes/misc.py:359: the report's content "is preserved word for word"; one of the owner's
\* own is exported as what the run knows.
OwnTextIsExported ==
  \A doc \in artifacts : \A part \in ToSet(doc) : reports[part.report].body.form # "own"

\* A PDF says FINAL of a report that validation passed, and of no other.
PdfShowsVerdict ==
  \A doc \in artifacts : \A part \in ToSet(doc) :
    part.chip = "final" => reports[part.report].mode = "final"

\* "so the next session never has to pay for them again" (research_runner.py:4017).
DiveIsRemembered == completed => recalled = Len(captures)

\* "A candidate discovered on Amazon UK must be measured on Amazon UK" (final_dive.py:99).
FiguresAreOwnMarket ==
  pc = "narrate" /\ stop = FALSE => \A s \in model.sections : s.mkts \subseteq {MktOf[s.cand]}

\* "so the sections here are exactly the candidates the deep dive measured"
\* (report_model.py:1109), with nothing failed.
SectionsAreTheDived ==
  pc = "narrate" /\ todo = {} /\ Untroubled => \A s \in model.sections : dive[s.cand] # "none"

\* The model "cannot cite a figure that was not measured for this candidate"
\* (finalist_playbook.py:119): it cites what earlier phases wrote of it.
BooksAreMeasured ==
  \A r \in ToSet(reports) : \A c \in Cands : BookIsGrounded(r.body.books[c], MeasuredFor(c))

\* "an invented figure never reaches the report" (research_runner.py:3786): what earlier
\* phases wrote, and the notes, are printed as they are.
NoUnmeasuredFigure ==
  \A r \in ToSet(reports) : r.body.told \subseteq Accounting \cup UNION {MeasuredFor(c) : c \in Cands}
=============================================================================
