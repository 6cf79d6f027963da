CONSTANTS
  Sessions = {s1}
  Workers = {w1}
  MaxPod = 1
  MaxCacheSize = 3
  MaxAge = 1
  OverflowChecks = FALSE
  MaxDecisions = 2
  MaxTime = 0
  Breaks = 1
  HasSlate = TRUE
  SlateLen = 1
  MaxRequests = 2
SPECIFICATION SsaiSpec
INVARIANT NamesResolveToTheirAd
