\* Two readers that look, wait and are dropped, of an instance that hears of
\* one publication, makes it itself or finds its archives gone.
CONSTANTS
  r1 = r1
  r2 = r2
  None = None
  Reader = {r1, r2}
  Ttl = 1
  MaxStale = 1
  ReadTime = 1
  MaxClock = 4
  MaxGeneration = 1
SPECIFICATION FairSpec
CHECK_DEADLOCK FALSE
INVARIANTS
  NoReadGoesBack
PROPERTIES
  BoundedStaleness
  ReadersAreAnswered
