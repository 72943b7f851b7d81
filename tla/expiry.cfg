\* Two writers that may race and a maintainer of a layer that expires: epochs end
\* and expire while tiles are flushed, merged and pruned.
CONSTANTS
  w1 = w1
  w2 = w2
  m1 = m1
  m2 = m2
  t1 = t1
  t2 = t2
  b1 = b1
  b2 = b2
  NoCopy = NoCopy
  Tile = {t1, t2}
  Body = {b1, b2}
  Writer = {w1, w2}
  Maintainer = {m1}
  Expires = TRUE
  EpochLength = 1
  Expiry = 0
  RetireGrace = 1
  OrphanGrace = 2
  FetchTime = 2
  PublishTime = 1
  MergeTime = 2
  ReadsFail = TRUE
  MaxClock = 2
  MaxArchives = 3
  MaxPuts = 2
  MaxFaults = 0
  MaxCrashes = 0
SPECIFICATION RacesSpec
SYMMETRY Symmetry
CHECK_DEADLOCK FALSE
INVARIANTS
  OldestIsOldest
PROPERTIES
  NewestFetchWins
  TilesLiveOutTheirEpoch
