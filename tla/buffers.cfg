\* Two zones of three tiles, two writers, one that flushes, one that compacts.
SPECIFICATION FairSpec
CONSTANTS
  z1 = z1
  z2 = z2
  t1 = t1
  t2 = t2
  t3 = t3
  w1 = w1
  w2 = w2
  u1 = u1
  m1 = m1
  Zone = {z1, z2}
  Tile = {t1, t2, t3}
  ZoneOf <- Zones
  SizesOf <- OneGrows
  Writer = {w1, w2}
  Upkeep = {u1}
  Maintainer = {m1}
  FlushBytes = 3
  MaxBuffered = 3
  FlushAge = 1
  AtOnce = 2
  MaxPuts = 3
  MaxFaults = 1
INVARIANTS
  BytesAreCounted
  Bounded
PROPERTIES
  FlushedAll
  NotLeftInMemory
CHECK_DEADLOCK FALSE
