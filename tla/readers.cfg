\* One writer, one maintainer and one reader of two tiles, of a durable layer
\* whose retired archives stay longer than a merge, a manifest and a read last
\* together.
CONSTANTS
  w1 = w1
  m1 = m1
  r1 = r1
  t1 = t1
  t2 = t2
  b1 = b1
  b2 = b2
  NoCopy = NoCopy
  Tile = {t1, t2}
  Body = {b1, b2}
  Writer = {w1}
  Maintainer = {m1}
  Reader = {r1}
  Expires = FALSE
  EpochLength = 1
  Expiry = 0
  RetireGrace = 2
  OrphanGrace = 1
  FetchTime = 0
  PublishTime = 0
  MergeTime = 0
  MaxAge = 1
  ReaderTime = 0
  ReadsFail = FALSE
  MaxClock = 2
  MaxArchives = 3
  MaxPuts = 2
  MaxFaults = 0
  MaxCrashes = 0
SPECIFICATION ReadersSpec
SYMMETRY Symmetry
CHECK_DEADLOCK FALSE
INVARIANTS
  ReadersTypeOK
  OutlivesReaders
PROPERTIES
  AnswersAsListed
