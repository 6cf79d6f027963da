CONSTANTS
  Sessions = {s1}
  Workers = {w1, w2}
  MaxPod = 2
  MaxCacheSize = 2
  MaxAge = 1
  OverflowChecks = FALSE
  MaxDecisions = 2
  MaxTime = 1
SPECIFICATION FairSpec
INVARIANT BoundedOvershoot
INVARIANT TrackedAtMostOnce
INVARIANT NoMixedBreak
PROPERTY NoOverwriteWithinEpoch
PROPERTY StaleEntriesLeave
PROPERTY IdleCountersLeave
