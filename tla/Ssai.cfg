CONSTANTS
  Sessions = {s1}
  Workers = {w1}
  MaxPod = 2
  MaxCacheSize = 3
  MaxAge = 1
  OverflowChecks = FALSE
  MaxDecisions = 2
  MaxTime = 1
  Breaks = 2
  HasSlate = TRUE
  SlateLen = 1
  MaxRequests = 2
SPECIFICATION SsaiFairSpec
INVARIANT FirstPlaylistFaithful
PROPERTY PlaylistsAnswered
