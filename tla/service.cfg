\* Two instances, one of which emits what it fetches, and two clients.
SPECIFICATION FairSpec
CONSTANTS
  Instance = {i1, i2}
  Nobody = Nobody
  Client = {c1, c2}
  Sinks = {i2}
  Shares = TRUE
  FetchTime = 1
  ReadTime = 1
  StoreLatency = 1
  SharedWait = 2
  SharedTtl = 3
  ClaimTtl = 2
  MaxFaults = 1
INVARIANTS
  TypeOK
  FetchedOnce
  OneClaimant
  ClaimsGivenBack
PROPERTY
  RequestsAnswered
CHECK_DEADLOCK FALSE
