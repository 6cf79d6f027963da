CONSTANTS
  Urls = {u1}
  Workers = {w1, w2}
  Ttl = 2
  FetchTimeout = 1
  MaxVersion = 1
  MaxTime = 3
SPECIFICATION FairSpec
INVARIANT BoundedStaleness
INVARIANT BlockingGetsItsVersion
PROPERTY RequestsAnswered
