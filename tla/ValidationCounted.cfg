SPECIFICATION Spec
CONSTANTS
  Scans = {s1, s2}
  c1 = c1
  c2 = c2
  c3 = c3
  r1 = r1
  Candidates <- MCCandidates
  InfoCandidates = {}
  HeaderCandidates <- MCHeaderCandidates
  Recommended = {"check_security_header"}
  Rationales = {r1}
  Responses <- MCResponses
  Failures = {"request_timeout", "unexpected_response"}
  MaxPerFinding = 2
  MaxPerScan = 3
  Ttl = 0
  MaxTime = 1
  ValidationEnabled = TRUE
  CacheEnabled = TRUE
  AuthConfigured = TRUE
  NoAnalysis = NoAnalysis
  NoCandidate = NoCandidate
  NoEntry = NoEntry
  NoResult = NoResult
CHECK_DEADLOCK FALSE
INVARIANTS
  CountedRequestsWereMade
