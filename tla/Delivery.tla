------------------------------ MODULE Delivery ------------------------------
(***************************************************************************)
(* The end of a run: the dive into every final candidate (final_dive.py),  *)
(* the report written from what is durable (research_runner.py             *)
(* _write_final_report, report_model.py), the stored reports (reports.py), *)
(* and the owner's routes over them: a report of their own, a re-rendering *)
(* from the stored model, the PDF (routes/misc.py, pdf_export.py).         *)
(*                                                                         *)
(* The phases are over: which candidates are final, and what validation    *)
(* makes of the report, is the Ledger's.  Durable: captures (browser       *)
(* evidence, oldest first), dive (checkpoints "final_dive:<id>"), recalled *)
(* (captures the market memory has seen), reports with their .model.json,  *)
(* completed, artifacts.  The rest is memory and a crash loses it.         *)
(***************************************************************************)
EXTENDS Prose, SequencesExt

CONSTANTS
  Cands,        \* candidates
  Listing,      \* sequence of the candidates, the best score first
  Dossiers,     \* sequence of those with a dossier, as the portfolio lists them
  Verified,     \* the verified ones
  DiveRead,     \* how many of the listing the dive reads: 500
  ReportRead,   \* and the report: 300
  DiveEnabled,  \* what the configuration may say of dive_enabled
  NicheOf,      \* candidate -> niche
  Label,        \* candidate -> the niche its dossier names
  MktOf,        \* candidate -> its marketplace
  Heard,        \* niches with reader feedback in the phase outputs
  Accounting,   \* the counts of the run's accounting
  CandText,     \* candidate -> figures in what earlier phases wrote of it, and its ids
  RunText,      \* figures in what they wrote of the run: rivals, readers, the ledger's reasons
  Noted,        \* figures in the research notes
  DiveCap,      \* dive_max_candidates
  RebuildCap,   \* finalist_cap where nobody passes it
  MaxKeywords,  \* dive_max_keywords
  Totals,       \* result counts a search prints; -1 is none
  Shown,        \* what the stores' pages may show: reviews, categories
  Replies,      \* narratives a model may answer
  BookReplies,  \* playbooks a model may answer
  Quotas        \* bounds of the instance: how many upsets, requests for a report and for a
                \* PDF a behaviour may have, in the combinations of interest

ASSUME DeliveryAssumption ==
  /\ Listing \in Seq(Cands) /\ Dossiers \in Seq(Cands) /\ Verified \subseteq Cands
  /\ DiveRead \in Nat /\ ReportRead \in Nat /\ DiveEnabled \subseteq BOOLEAN
  /\ Shown \subseteq Seq({"reviews", "categories"})
  /\ DiveCap \in Nat \ {0} /\ RebuildCap \in Nat \ {0} /\ MaxKeywords \in Nat \ {0}
  /\ Quotas \subseteq [upsets : Nat, reports : Nat, pdfs : Nat]

VARIABLES captures, dive, recalled, reports, completed, artifacts,
          pc, stop, todo, now, wrote, model, due, attempt, draft, pdf, left

stored       == <<captures, dive, recalled, reports, completed, artifacts>>
engine       == <<pc, todo, now, wrote, model, due, attempt, draft>>
deliveryVars == <<stored, engine, stop, pdf, left>>

-----------------------------------------------------------------------------
(* What is in a report *)

NoBooks == [c \in Cands |-> NoPlaybook]
NoModel == [built |-> "no", verdict |-> "none", prose |-> {}, books |-> NoBooks, sections |-> {},
            figures |-> {}, notes |-> {}]
NoDive  == [cand |-> "none", stage |-> "none", phrases |-> {}, rows |-> {},
            failed |-> FALSE]

\* Where a candidate stands in a listing, and whether it is the first of a set.
Place(c, listing) == Min({i \in DOMAIN listing : listing[i] = c})
Leads(c, S, listing) == c \in S /\ \A d \in S : Place(c, listing) <= Place(d, listing)

\* Those of a set that come first in an order, so many of them.
Leading(S, order, cap) ==
  {c \in S : Cardinality({d \in S : Place(d, order) < Place(c, order)}) < cap}

\* The portfolio leads, then every other survivor.
Survivors     == SelectSeq(Listing, LAMBDA c : c \in Verified)
InReportOrder == Dossiers \o Survivors

\* A read of the listing is cut by the score; of what it gives, these may be final.
Finals(limit) ==
  {Listing[i] : i \in {j \in DOMAIN Listing : j <= limit}} \cap ToSet(InReportOrder)

\* Mutant of FinalCandidates: the survivors lead.
SurvivorsLead(cap) == Leading(Finals(DiveRead), Survivors \o Dossiers, cap)

\* The dive and the report choose by a function and a read of their own.
FinalCandidates(cap)     == Leading(Finals(DiveRead), InReportOrder, cap)
FinalCandidateOrder(cap) == Leading(Finals(ReportRead), InReportOrder, cap)

\* The newest capture of a kind for a niche, if there is one.
Newest(kind, niche) ==
  LET hits == {i \in DOMAIN captures : captures[i].kind = kind /\ captures[i].niche = niche}
  IN {captures[i] : i \in {j \in hits : \A k \in hits : k <= j}}

Indexed(niche) == \E i \in DOMAIN captures : captures[i].niche = niche
DiveIndex(niche) ==
  [rows |-> UNION {e.rows : e \in Newest("keywords", niche)},
   mkts |-> {e.mkt : e \in Newest("keywords", niche)},
   read |-> Newest("reviews", niche) # {}]

\* The dossier's own label first, then the niche of the candidate, if that was read.
BackendResearch(c) ==
  DiveIndex(IF Indexed(Label[c]) \/ c \notin Finals(ReportRead) THEN Label[c] ELSE NicheOf[c])

Section(c) ==
  LET found == BackendResearch(c)
  IN [cand |-> c, rows |-> RankKeywords(found.rows, MaxKeywords), mkts |-> found.mkts,
      heard |-> found.read \/ Label[c] \in Heard]

FinalistSections(cap) == {Section(c) : c \in FinalCandidateOrder(cap)}

Figures(rows) == {r.total : r \in {q \in rows : q.measured /\ q.total >= 0}}

\* A rebuilt one has no notes.
BuildReportModel(how, cap) ==
  [built |-> how, verdict |-> "none", prose |-> {}, books |-> NoBooks,
   sections |-> FinalistSections(cap),
   figures |-> UNION {Figures(BackendResearch(c).rows) : c \in ToSet(Dossiers)},
   notes |-> IF how = "full" THEN Noted ELSE {}]

\* Mutant of Badge: a report nobody validated reads as final.
BadgeFinal(m) == "final"

\* The status line comes from the model, never from the body before it.
Badge(m) == m.verdict
\* The PDF's chip falls back on final.
Chip(m) == IF m.verdict = "none" THEN "final" ELSE m.verdict

\* A playbook is printed in its candidate's section, or nowhere.
RenderFinalistPlaybooks(m) ==
  [c \in Cands |-> IF \E q \in m.sections : q.cand = c THEN m.books[c] ELSE NoPlaybook]

TextOf(cands) == UNION {CandText[c] : c \in cands}

\* Besides what the model writes now, a body prints what it wrote before and nobody grounds:
\* the dossiers, the sections' material, the notes.
RenderMarkdown(m) ==
  [form |-> "full", badge |-> Badge(m), prose |-> m.prose, books |-> RenderFinalistPlaybooks(m),
   told |-> RunText \cup m.notes \cup TextOf(ToSet(Dossiers) \cup {s.cand : s \in m.sections})]

\* The compact body keeps the status and the notes, and drops what the model writes now.
RenderFallback(m) ==
  [form |-> "compact", badge |-> Badge(m), prose |-> {}, books |-> NoBooks, told |-> m.notes]

Render(m, broken) == IF broken THEN RenderFallback(m) ELSE RenderMarkdown(m)

OwnBody == [form |-> "own", badge |-> "none", prose |-> {}, books |-> NoBooks, told |-> {}]

\* A narrative may cite every figure of its digest: the accounting, the dossiers'
\* measurements, and what earlier phases wrote of them and of the run; not a note's.
AllowedInNarrative(m) == Accounting \cup RunText \cup m.figures \cup TextOf(ToSet(Dossiers))

\* A playbook those of its own section, measured or written, and nothing else.
AllowedInPlaybook(s) == Figures(s.rows) \cup CandText[s.cand]
-----------------------------------------------------------------------------
(* The dive *)

Spend(what) == left[what] > 0 /\ left' = [left EXCEPT ![what] = @ - 1]
Trouble == Spend("upsets")
Calm    == UNCHANGED left

Pending == {c \in FinalCandidates(DiveCap) : dive[c] # "done"}

WriteFinalReport ==
  /\ pc = "start" /\ TRUE \in DiveEnabled
  /\ todo' = Pending
  /\ wrote' = FALSE
  /\ pc' = IF Pending = {} THEN "build" ELSE "dive"
  /\ UNCHANGED <<stored, now, model, due, attempt, draft, stop, pdf, left>>

\* No dive is made where they are off, where the session's marketplaces are not found, or
\* where a store fails: todo is what is left undone.
SkipDives ==
  /\ pc = "start"
  /\ (FALSE \in DiveEnabled /\ Calm) \/ Trouble
  /\ todo' = Pending
  /\ wrote' = FALSE
  /\ pc' = "build"
  /\ UNCHANGED <<stored, now, model, due, attempt, draft, stop, pdf>>

NextDive ==
  /\ pc = "dive" /\ ~stop
  /\ \E c \in todo :
       /\ Leads(c, todo, InReportOrder)
       /\ now' = [NoDive EXCEPT !.cand = c, !.stage = "mine"]
       /\ todo' = todo \ {c}
  /\ pc' = "diving"
  /\ UNCHANGED <<stored, wrote, model, due, attempt, draft, stop, pdf, left>>

\* The memory is refreshed once, after the last dive; a journal that refuses an entry
\* between two dives ends them all.
EndDives ==
  /\ pc = "dive"
  /\ \/ /\ todo = {} \/ stop
        /\ recalled' = IF wrote THEN Len(captures) ELSE recalled
        /\ Calm
     \/ UNCHANGED recalled /\ Trouble
  /\ pc' = "build"
  /\ UNCHANGED <<captures, dive, reports, completed, artifacts, todo, now, wrote, model, due,
                 attempt, draft, stop, pdf>>

InDive(stage) == pc = "diving" /\ now.stage = stage
StillDiving == UNCHANGED <<dive, recalled, reports, completed, artifacts, pc, todo, model, due,
                           attempt, draft, stop, pdf>>

\* The owner's stop, or the time budget, ends the dive where it stands.
GoOn(stage, spent) == IF stop \/ spent THEN "over" ELSE stage

MinePhrases ==
  /\ InDive("mine")
  /\ \E found \in SUBSET Phrases, spent \in BOOLEAN :
       LET rows == {[phrase |-> p, measured |-> FALSE, total |-> -1] : p \in found}
       IN now' = [now EXCEPT
            !.phrases = RankKeywords(rows, 2 * MaxKeywords),
            !.stage   = GoOn(IF found = {} THEN "categories" ELSE "keywords", spent)]
  /\ UNCHANGED <<captures, wrote, left>> /\ StillDiving

\* A page that does not open while mining, or breaks while it is read.
DiveFails ==
  /\ InDive("mine") \/ InDive("keywords")
  /\ Trouble
  /\ now' = [now EXCEPT !.stage = "over", !.failed = TRUE, !.phrases = {}, !.rows = {}]
  /\ UNCHANGED <<captures, wrote>> /\ StillDiving

Measured == {r \in now.rows : r.measured}
KeywordsOver == now.phrases = {} \/ Cardinality(Measured) >= MaxKeywords

\* One search; one that will not open leaves an unmeasured row.
MeasureKeyword ==
  /\ InDive("keywords") /\ ~KeywordsOver /\ ~stop
  /\ \E entry \in RankKeywords(now.phrases, 1) :
       \/ \E total \in Totals :
            now' = [now EXCEPT !.phrases = @ \ {entry},
                               !.rows = @ \cup {[entry EXCEPT !.measured = TRUE, !.total = total]}]
       \/ now' = [now EXCEPT !.phrases = @ \ {entry}, !.rows = @ \cup {entry}]
  /\ UNCHANGED <<captures, wrote, left>> /\ StillDiving

Capture(kind, rows) ==
  [niche |-> NicheOf[now.cand], mkt |-> MktOf[now.cand], kind |-> kind, rows |-> rows]

\* The best rows are filed, with the phrases no search was made for when the dive was cut
\* short; a store that refuses is passed over.
FileKeywords ==
  /\ InDive("keywords")
  /\ \E spent \in BOOLEAN :
       LET tail == IF KeywordsOver THEN {} ELSE now.phrases
           rows == RankKeywords(now.rows \cup tail, MaxKeywords)
       IN /\ KeywordsOver \/ stop \/ spent
          /\ \/ captures' = Append(captures, Capture("keywords", rows)) /\ wrote' = TRUE /\ Calm
             \/ UNCHANGED <<captures, wrote>> /\ Trouble
          /\ now' = [now EXCEPT !.stage = GoOn("categories", spent), !.phrases = {},
                                !.rows = {}]
  /\ StillDiving

\* Both stores' categories; the Books pages also give the reviews, filed first.
MapCategories ==
  /\ InDive("categories")
  /\ \E shown \in Shown :
       /\ captures' = captures \o [i \in DOMAIN shown |-> Capture(shown[i], {})]
       /\ wrote' = (wrote \/ shown # <<>>)
  /\ now' = [now EXCEPT !.stage = "over"]
  /\ UNCHANGED left /\ StillDiving

\* Mutant of DiveEnd: the payload's stopped_reason is kept instead of its "done".
DiveReason == IF now.failed THEN "error" ELSE "completed"

\* Every dive that did not fail is done, whatever cut it short.
DiveEnd == IF now.failed THEN "failed" ELSE "done"

CloseDive ==
  /\ InDive("over")
  /\ \/ /\ dive' = [dive EXCEPT ![now.cand] = DiveEnd]
        /\ Calm
     \/ UNCHANGED dive /\ Trouble
  /\ now' = NoDive
  /\ pc' = "dive"
  /\ UNCHANGED <<captures, recalled, reports, completed, artifacts, todo, wrote, model, due,
                 attempt, draft, stop, pdf>>
-----------------------------------------------------------------------------
(* The report *)

\* Mutant of BuildModel: a model that cannot be built ends the run.
BuildModelOrEnd ==
  /\ pc = "build"
  /\ \/ model' = BuildReportModel("full", DiveCap) /\ pc' = "narrate" /\ Calm
     \/ UNCHANGED model /\ pc' = "over" /\ Trouble
  /\ attempt' = 1 /\ draft' = {} /\ due' = model'.sections
  /\ UNCHANGED <<stored, todo, now, wrote, stop, pdf>>

\* A model that cannot be built leaves one of the session, the portfolio and the notes.
BuildModel ==
  /\ pc = "build"
  /\ \/ model' = BuildReportModel("full", DiveCap) /\ pc' = "narrate" /\ Calm
     \/ model' = [NoModel EXCEPT !.built = "minimal", !.notes = Noted]
        /\ pc' = "save" /\ Trouble
  /\ attempt' = 1 /\ draft' = {} /\ due' = model'.sections
  /\ UNCHANGED <<stored, todo, now, wrote, stop, pdf>>

Writing == UNCHANGED <<stored, todo, now, wrote, stop, pdf>>

\* One corrective retry; an unusable second reply leaves nothing, a call that fails leaves
\* what the first one gave.
AnalystNarrative ==
  /\ pc = "narrate"
  /\ \/ \E reply \in Replies :
          LET got  == GroundNarrative(reply, AllowedInNarrative(model))
              over == attempt = 2 \/ (got.kept # {} /\ got.clean)
          IN /\ draft' = IF over THEN {} ELSE got.kept
             /\ attempt' = IF over THEN 1 ELSE 2
             /\ model' = IF over THEN [model EXCEPT !.prose = got.kept] ELSE model
             /\ pc' = IF over THEN "playbooks" ELSE pc
             /\ Calm
     \/ /\ model' = [model EXCEPT !.prose = draft]
        /\ draft' = {} /\ attempt' = 1 /\ pc' = "playbooks"
        /\ Trouble
  /\ UNCHANGED due /\ Writing

\* One candidate's playbook, from its own measurements; without a phrase there is none.
FinalistPlaybook ==
  /\ pc = "playbooks"
  /\ \E s \in due :
       /\ Leads(s.cand, {q.cand : q \in due}, InReportOrder)
       /\ \/ /\ s.rows = {}
             /\ due' = due \ {s}
             /\ UNCHANGED <<model, attempt, pc, left>>
          \/ \E reply \in BookReplies :
               LET got  == GroundPlaybook(reply, s.rows, NicheOf[s.cand], s.heard,
                                          AllowedInPlaybook(s))
                   over == attempt = 2 \/ got.clean
               IN /\ s.rows # {}
                  /\ model' = [model EXCEPT !.books[s.cand] = got.kept]
                  /\ attempt' = IF over THEN 1 ELSE 2
                  /\ due' = IF over THEN due \ {s} ELSE due
                  /\ UNCHANGED <<pc, left>>
          \/ \* the call fails: this one keeps what it had
             /\ s.rows # {} /\ Trouble
             /\ due' = due \ {s} /\ attempt' = 1
             /\ UNCHANGED <<model, pc>>
          \/ \* the reply breaks the normaliser: no playbook at all
             /\ s.rows # {} /\ Trouble
             /\ model' = [model EXCEPT !.books = NoBooks]
             /\ attempt' = 1 /\ pc' = "save"
             /\ UNCHANGED due
  /\ UNCHANGED draft /\ Writing

EndPlaybooks ==
  /\ pc = "playbooks" /\ due = {}
  /\ pc' = "save"
  /\ UNCHANGED <<model, attempt, due, draft, left>> /\ Writing

\* Rendered, validated, its verdict put into the model, rendered from it again, saved: file,
\* then row.  A second rendering that fails leaves the first body, which has no verdict.
SaveReport ==
  /\ pc = "save"
  /\ \E verdict \in {"final", "provisional"}, upset \in {"none", "layout", "second"} :
       LET broken == upset = "layout" \/ model.built = "minimal"
       IN /\ IF upset = "none" THEN Calm ELSE Trouble
          /\ model' = [model EXCEPT !.verdict = verdict]
          /\ reports' = Append(reports,
               [kind |-> "final", mode |-> verdict, model |-> NoModel,
                body |-> IF upset = "second" THEN Render(model, broken)
                         ELSE Render(model', broken)])
  /\ pc' = "model"
  /\ UNCHANGED <<captures, dive, recalled, completed, artifacts, todo, now, wrote, due, attempt,
                 draft, stop, pdf>>

\* A model that cannot be written is journaled; the report stands without it.
SaveModelJson ==
  /\ pc = "model"
  /\ \/ reports' = [reports EXCEPT ![Len(reports)].model = model] /\ Calm
     \/ UNCHANGED reports /\ Trouble
  /\ model' = NoModel /\ due' = {}
  /\ pc' = "finish"
  /\ UNCHANGED <<captures, dive, recalled, completed, artifacts, todo, now, wrote, attempt,
                 draft, stop, pdf>>

Complete ==
  /\ pc = "finish"
  /\ completed' = TRUE
  /\ pc' = "over"
  /\ UNCHANGED <<captures, dive, recalled, reports, artifacts, todo, now, wrote, model, due,
                 attempt, draft, stop, pdf, left>>
\* The run goes to its beginning, with nothing in hand.
Again(where) ==
  /\ pc' = where /\ stop' = FALSE /\ todo' = {} /\ now' = NoDive /\ wrote' = FALSE
  /\ model' = NoModel /\ due' = {} /\ attempt' = 1 /\ draft' = {}

\* A store that fails where nothing guards it (the notes, the gates, the report's row, the
\* journal): the run heals and writes the report again, or fails with no heal left, or heeds
\* a pause asked for meanwhile.
RunFails ==
  /\ pc \in {"build", "narrate", "save", "finish"} /\ Trouble
  /\ \/ ~stop /\ Again("start")
     \/ Again("stopped")
  /\ UNCHANGED <<stored, pdf>>
-----------------------------------------------------------------------------
(* The owner *)

\* A pause or a cancel: the dive heeds it, the report does not, so that one which comes
\* later changes nothing here.
OwnerStops ==
  /\ pc \in {"start", "dive", "diving"} /\ ~stop
  /\ stop' = TRUE
  /\ UNCHANGED <<stored, engine, pdf, left>>

\* From the report's row to the session's end nothing awaits, so no route runs there.
LoopIsFree == pc \notin {"model", "finish", "down"}
Served == UNCHANGED <<captures, dive, recalled, completed, engine, stop>>

\* Of any kind the store knows, the final one too.
SaveOwnReport ==
  /\ LoopIsFree
  /\ \E kind \in {"own", "final"} :
       reports' = Append(reports, [kind |-> kind, mode |-> "none", model |-> NoModel,
                                   body |-> OwnBody])
  /\ Spend("reports")
  /\ UNCHANGED <<artifacts, pdf>> /\ Served

\* Rendered anew from the stored model, saved as one report more, without a model.
RerenderReport(i) ==
  /\ LoopIsFree
  /\ reports[i].model # NoModel
  /\ Spend("reports")
  /\ \E broken \in BOOLEAN :
       reports' = Append(reports,
            [kind |-> "final", mode |-> reports[i].mode, model |-> NoModel,
             body |-> Render(reports[i].model, broken)])
  /\ UNCHANGED <<artifacts, pdf>> /\ Served

\* A missing model is built again from what is durable now, and kept.
ReportModel(r) == IF r.model = NoModel THEN BuildReportModel("rebuilt", RebuildCap) ELSE r.model

\* The blocks of a document are shaped from the model, never from the body: the sections
\* with their playbooks, and nothing of the narrative.
ModelToBlocks(i, m) ==
  [report |-> i, chip |-> Chip(m), prose |-> {}, books |-> RenderFinalistPlaybooks(m)]

\* ... the newest report first.
Blocks(chosen) ==
  LET order == SetToSortSeq(chosen, >)
  IN [k \in DOMAIN order |-> ModelToBlocks(order[k], ReportModel(reports[order[k]]))]

\* The models are read on the loop, the document is rendered in a thread.
RequestPdf(chosen, separate) ==
  /\ LoopIsFree /\ pdf.parts = <<>> /\ Spend("pdfs")
  /\ reports' = [i \in DOMAIN reports |->
       IF i \in chosen THEN [reports[i] EXCEPT !.model = ReportModel(reports[i])] ELSE reports[i]]
  /\ pdf' = [separate |-> separate, parts |-> Blocks(chosen)]
  /\ UNCHANGED artifacts /\ Served

NoPdf == [separate |-> FALSE, parts |-> <<>>]

\* One document of all parts, or one for each in turn; a renderer that dies leaves none.
RenderPdf ==
  /\ pc # "down" /\ pdf.parts # <<>>
  /\ \/ /\ ~pdf.separate
        /\ artifacts' = artifacts \cup {pdf.parts}
        /\ pdf' = NoPdf
     \/ /\ pdf.separate
        /\ artifacts' = artifacts \cup {<<Head(pdf.parts)>>}
        /\ pdf' = IF Len(pdf.parts) = 1 THEN NoPdf ELSE [pdf EXCEPT !.parts = Tail(@)]
     \/ UNCHANGED artifacts /\ pdf' = NoPdf
  /\ UNCHANGED <<captures, dive, recalled, reports, completed, engine, stop, left>>
-----------------------------------------------------------------------------
(* The process *)

Fresh(where) == Again(where) /\ pdf' = NoPdf

ProcessDies ==
  /\ pc # "down" /\ Trouble
  /\ Fresh("down")
  /\ UNCHANGED stored

\* The process is up again; a session that was not completed stands interrupted.
ProcessBoots ==
  /\ pc = "down"
  /\ Fresh(IF completed THEN "over" ELSE "stopped")
  /\ UNCHANGED <<stored, left>>

\* The owner, or a sign-in, takes it up again: its report is written from the start.
OwnerResumes ==
  /\ pc = "stopped"
  /\ Again("start")
  /\ UNCHANGED <<stored, pdf, left>>

DeliveryInit ==
  /\ captures = <<>> /\ dive = [c \in Cands |-> "none"] /\ recalled = 0
  /\ reports = <<>> /\ completed = FALSE /\ artifacts = {} /\ left \in Quotas
  /\ pc = "start" /\ stop = FALSE /\ todo = {} /\ now = NoDive /\ wrote = FALSE
  /\ model = NoModel /\ due = {} /\ attempt = 1 /\ draft = {} /\ pdf = NoPdf

DiveStep ==
  \/ WriteFinalReport \/ SkipDives \/ NextDive \/ EndDives \/ MinePhrases \/ DiveFails \/ MeasureKeyword
  \/ FileKeywords \/ MapCategories \/ CloseDive

ReportStep ==
  \/ BuildModel \/ AnalystNarrative \/ FinalistPlaybook \/ EndPlaybooks \/ SaveReport
  \/ SaveModelJson \/ Complete \/ RunFails

OwnerStep ==
  \/ OwnerStops \/ OwnerResumes \/ SaveOwnReport \/ RenderPdf
  \/ \E i \in DOMAIN reports : RerenderReport(i)
  \/ \E chosen \in SUBSET DOMAIN reports \ {{}}, separate \in BOOLEAN : RequestPdf(chosen, separate)

DeliveryNext == DiveStep \/ ReportStep \/ OwnerStep \/ ProcessDies \/ ProcessBoots

DeliverySpec == DeliveryInit /\ [][DeliveryNext]_deliveryVars
\* The engine's task keeps running and a process that died is started again; no owner has to
\* come back.
FairDelivery == DeliverySpec /\ WF_deliveryVars(DiveStep \/ ReportStep) /\ WF_deliveryVars(ProcessBoots)
-----------------------------------------------------------------------------
(* Properties *)

MeasuredFor(c) ==
  UNION {Figures(e.rows) : e \in {q \in ToSet(captures) : q.niche \in {NicheOf[c], Label[c]}}}

\* Measured for a candidate, or written of it before.
KnownOf(c) == MeasuredFor(c) \cup CandText[c]

\* Counted, or known of a dossier or of the run.
KnownOverall == Accounting \cup RunText \cup UNION {KnownOf(c) : c \in ToSet(Dossiers)}

\* Text that cites these figures only.
ProseIsGrounded(prose, figures) ==
  \A s \in prose : \A n \in s.cites : Benign(n) \/ n \in figures
BookIsGrounded(book, figures) ==
  /\ ProseIsGrounded(book.prose, figures)
  /\ \A t \in book.titles :
       /\ \A n \in t.cites : n < 1000 \/ n \in figures
       /\ \A n \in t.why : Benign(n) \/ n \in figures

TextIsGrounded(text) ==
  /\ ProseIsGrounded(text.prose, KnownOverall)
  /\ \A c \in Cands : BookIsGrounded(text.books[c], KnownOf(c))

\* What the model writes for the report brings no figure of its own: what a playbook cites
\* was measured for its candidate or stands in the material of that candidate, what the
\* narrative cites was counted or stands in a dossier; never another candidate's, nor one a
\* note alone has, however often the run died, the model was called again or the report
\* rendered anew.  (What earlier phases wrote is taken as it is: BooksAreMeasured.)
NothingInvented == \A i \in DOMAIN reports : TextIsGrounded(reports[i].body)

\* A report that was not validated as final is never stored as one: the status in the body is
\* the verdict of the row, or there is none in it.
StatusKept == \A i \in DOMAIN reports : reports[i].body.badge \in {reports[i].mode, "none"}

\* No upset has been spent, where one behaviour may have the most.
Untroubled == \A q \in Quotas : q.upsets <= left.upsets

\* The sections of a report are those of candidates the dive went to, when the dives were
\* made and nothing failed: two functions with a cap each choose them, each from a read of its
\* own, and they agree where both reads reach every candidate that may be final.
SectionsAreDived ==
  pc \in {"narrate", "playbooks"} /\ todo = {} /\ Untroubled
  /\ Finals(DiveRead) = Finals(ReportRead) =>
    \A s \in model.sections : dive[s.cand] # "none"
=============================================================================
