\* A fair writer and a fair maintainer, which fail: garbage goes, and what was
\* put reaches the readers, of a layer that expires.
CONSTANTS
  w1 = w1
  w2 = w2
  m1 = m1
  m2 = m2
  t1 = t1
  t2 = t2
  b1 = b1
  b2 = b2
  NoCopy = NoCopy
  Tile = {t1}
  Body = {b1}
  Writer = {w1}
  Maintainer = {m1}
  Expires = TRUE
  EpochLength = 1
  Expiry = 0
  RetireGrace = 1
  OrphanGrace = 1
  FetchTime = 1
  PublishTime = 0
  MergeTime = 1
  ReadsFail = TRUE
  MaxClock = 2
  MaxArchives = 3
  MaxPuts = 2
  MaxFaults = 1
  MaxCrashes = 1
SPECIFICATION FairSpec
CHECK_DEADLOCK FALSE
PROPERTIES
  GarbageGoes
  PutsReachReaders
INVARIANTS
  TypeOK
  NamedStored
