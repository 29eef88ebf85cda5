\* Every statement below is false of the code: leave one line to see its trace.
SPECIFICATION DeliverySpec
CONSTANTS
  Phrases = {"p1"}
  Demand <- MCDemand
  Alphabet <- MCAlphabet
  TitleTarget = 1
  Cands = {"c1", "c2", "c3"}
  Dossiers <- OneDossier
  Listing <- MCListing
  Verified = {"c1", "c2", "c3"}
  DiveRead = 3
  ReportRead = 2
  DiveEnabled = {TRUE}
  CandText <- MCCandText
  RunText = {50}
  Noted = {77}
  Within <- MCWithin
  NicheOf <- OneNiche
  Label <- OneNiche
  MktOf <- MCMktOf
  Heard = {}
  Accounting = {40}
  DiveCap = 2
  RebuildCap = 3
  MaxKeywords = 1
  Totals = {400}
  Shown <- MCShown
  Replies <- MCReplies
  BookReplies <- MCBookReplies
  Quotas <- MCQuotas
CHECK_DEADLOCK FALSE
INVARIANT BooksAreMeasured
INVARIANT DiveIsRemembered
INVARIANT FiguresAreOwnMarket
INVARIANT NoUnmeasuredFigure
INVARIANT OwnTextIsExported
INVARIANT PdfKeepsText
INVARIANT PdfShowsVerdict
INVARIANT SectionsAreTheDived
