SPECIFICATION Spec
CONSTANTS
  csp = csp
  cspText = cspText
  admin = admin
  misconfiguration = misconfiguration
  access = access
  none = none
  root = root
  adminPath = adminPath
  adminSlash = adminSlash
  noEndpoint = noEndpoint
  Texts <- MCTexts
  NoText = none
  Normal <- MCNormal
  Within <- MCWithin
  Endpoints <- MCEndpoints
  NoEndpoint = noEndpoint
  NormalEndpoint <- MCNormalEndpoint
  EndsWith <- MCEndsWith
  Cwes = {"CWE-16"}
  NoCwe = "none"
  Methods = {"GET"}
  NoMethod = "none"
  Benchmarks <- MCBenchmarks
  Scanned <- MCScanned
  Costs <- MCCosts
  Profiles = {"baseline", "optimized"}
  MaxPrecisionDrop = 3
  MaxRecallDrop = 5
  MaxRuntimeIncrease = 20
  MaxCallIncrease = 20
  MaxRuns = 2
  NoResult = NoResult
CHECK_DEADLOCK FALSE
INVARIANTS
  TypeOK
  NoBetterLeft
  HalfOfBest
  ResultAddsUp
PROPERTIES
  PassIsNoRegression
