CONSTANTS
  Ids = {a}
  Callers = {c1, c2}
  MaxSessions = 2
  MaxTime = 2
  Environments <- ManyEnvironments
  MaxLaunches = 2
  Requests = {r1, r2}
  MaxBusy = 2
SPECIFICATION FairSpec
PROPERTY StartsAsConfigured
PROPERTY MemoryImplementsStore
PROPERTY OnlyRacesLose
PROPERTY ShutsDown
PROPERTY StaleSessionsLeave
CHECK_DEADLOCK FALSE
