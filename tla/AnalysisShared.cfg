SPECIFICATION Spec
CONSTANTS
  s1 = s1
  s2 = s2
  s3 = s3
  small = small
  large = large
  Scans = {s1, s2}
  Candidates <- MCCandidates
  Contexts <- MCContexts
  Payloads <- MCTwoPayloads
  Small = small
  Large = large
  Cascading = {s1, s2}
  Llm = {s1, s2}
  Caching = {s1, s2}
  High = 85
  Low = 55
  WScanner = 35
  WModel = 40
  WRag = 15
  WEvidence = 10
  Ttl = 0
  MaxTime = 0
  NoModel = NoModel
  NoEntry = NoEntry
  NoCandidate = NoCandidate
  NoAnalysis = NoAnalysis
  Lost = Lost
SYMMETRY ScanSymmetry
CHECK_DEADLOCK FALSE
INVARIANTS
  TypeOK
  CacheHoldsAnswers
  LikelyNeedsTheScanner
  CallsBounded
PROPERTIES
  KeepsContract
