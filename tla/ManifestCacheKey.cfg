CONSTANTS
  Urls = {u1}
  Workers = {w1}
  Ttl = 2
  FetchTimeout = 1
  MaxVersion = 1
  MaxTime = 1
SPECIFICATION Spec
INVARIANT DeltasOnlyWhereAsked
