SPECIFICATION FairSpec
CONSTANTS
  Scans = {s1, s2}
  c1 = c1
  c2 = c2
  c3 = c3
  r1 = r1
  Candidates <- MCWithInfo
  InfoCandidates <- MCInfoCandidates
  HeaderCandidates <- MCHeaderCandidates
  Recommended = {"check_redirect_behavior", "check_auth_behavior", "check_method_behavior", "manual_review"}
  Rationales = {r1}
  Responses <- MCOneResponse
  Failures = {"scope_violation"}
  MaxPerFinding = 2
  MaxPerScan = 3
  Ttl = 0
  MaxTime = 1
  ValidationEnabled = TRUE
  CacheEnabled = TRUE
  AuthConfigured = TRUE
  NoAnalysis = NoAnalysis
  NoCandidate = NoCandidate
  NoEntry = NoEntry
  NoResult = NoResult
CHECK_DEADLOCK FALSE
INVARIANTS
  TypeOK
PROPERTIES
  ScansEnd
