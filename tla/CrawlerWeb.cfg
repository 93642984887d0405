SPECIFICATION FairSpec
CONSTANTS
  root = root
  u1 = u1
  u2 = u2
  u3 = u3
  u4 = u4
  Urls <- MCUrls
  Root = root
  MaxPages = 4
  MaxDepth = 2
  ScriptLimit = 1
  LinkSets <- MCLinkSets
CHECK_DEADLOCK FALSE
INVARIANTS
  TypeOK
  FrontierBounded
  RequestsBounded
  CompleteBelowLimit
  NoUrlTwice
  ShortestDepth
PROPERTIES
  CrawlEnds
