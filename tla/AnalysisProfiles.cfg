SPECIFICATION FairSpec
CONSTANTS
  s1 = s1
  s2 = s2
  s3 = s3
  small = small
  large = large
  Scans = {s1, s2, s3}
  Candidates <- MCMatch
  Contexts <- MCContexts
  Payloads <- MCPayloads
  Small = small
  Large = large
  Cascading = {s1}
  Llm = {s1, s2}
  Caching = {s1, s2}
  High = 85
  Low = 55
  WScanner = 35
  WModel = 40
  WRag = 15
  WEvidence = 10
  Ttl = 0
  MaxTime = 1
  NoModel = NoModel
  NoEntry = NoEntry
  NoCandidate = NoCandidate
  NoAnalysis = NoAnalysis
  Lost = Lost
CHECK_DEADLOCK FALSE
INVARIANTS
  AnalysesAreTheirOwn
PROPERTIES
  PhasesEnd
