SPECIFICATION FairSpec
CHECK_DEADLOCK FALSE
CONSTANTS
  page = page
  docs = docs
  note = note
  Csp = csp
  Admin = admin
  NoProbe = NoProbe
  NoReport = NoReport
  Absent = Absent
  Partial = Partial
  Surface <- MCSurface
  Disclosures <- MCDisclosures
  Matches <- MCMatches
  InfoMatches <- MCMatches
  MaxFinds = 2
  RagEnabled = TRUE
  Verdicts <- MCVerdicts
INVARIANTS
  TypeOK
  ReportCoversFinds
  VerdictsAgree
  SummaryMatches
  ModelIsSparedForPages
  FilesInOrder
  ExecutionsComplete
PROPERTIES
  ScanEnds
