\* Two writers and two maintainers race on the manifest of a durable layer; no
\* time passes, so nothing is old enough to be deleted.
CONSTANTS
  w1 = w1
  w2 = w2
  m1 = m1
  m2 = m2
  t1 = t1
  t2 = t2
  b1 = b1
  b2 = b2
  NoCopy = NoCopy
  Tile = {t1}
  Body = {b1, b2}
  Writer = {w1, w2}
  Maintainer = {m1, m2}
  Expires = FALSE
  EpochLength = 1
  Expiry = 0
  RetireGrace = 1
  OrphanGrace = 2
  FetchTime = 0
  PublishTime = 1
  MergeTime = 2
  ReadsFail = FALSE
  MaxClock = 0
  MaxArchives = 4
  MaxPuts = 3
  MaxFaults = 1
  MaxCrashes = 0
SPECIFICATION Spec
SYMMETRY Symmetry
CHECK_DEADLOCK FALSE
PROPERTIES
  OnlyFlushesChangeTheView
  LeavesOnlyRetired
  KeepsPromise
