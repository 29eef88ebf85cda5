SPECIFICATION FairDelivery
CONSTANTS
  Phrases = {"p1"}
  Demand <- MCDemand
  Alphabet <- MCAlphabet
  TitleTarget = 1
  Cands = {"c1", "c2", "c3"}
  Dossiers <- OneDossier
  Listing <- MCListing
  Verified = {"c1", "c2", "c3"}
  DiveRead = 3
  ReportRead = 3
  DiveEnabled = {TRUE, FALSE}
  CandText <- MCCandText
  RunText = {50}
  Noted = {77}
  Within <- MCWithin
  NicheOf <- MCNicheOf
  Label <- MCLabel
  MktOf <- MCMktOf
  Heard = {}
  Accounting = {40}
  DiveCap = 2
  RebuildCap = 3
  MaxKeywords = 1
  Totals = {400}
  Shown <- MCShown
  Replies <- MCReplies
  BookReplies <- MCBookReplies
  Quotas <- MCQuotas
INVARIANT NothingInvented
INVARIANT StatusKept
INVARIANT SectionsAreDived
PROPERTY ReportAppears
CHECK_DEADLOCK FALSE
