CONSTANTS
  MaxPod = 3
  Permits = 1
  MaxPending = 2
SPECIFICATION FairSpec
INVARIANT TypeOK
INVARIANT FiredAtMostOnce
INVARIANT EachEventByOneSegment
PROPERTY BeaconsLeave
