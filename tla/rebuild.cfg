\* Two archives of one tile; three tellings lost before the rebuild.
SPECIFICATION Spec
CONSTANTS
  Tile = {t1}
  MaxArchives = 2
  MaxGenerations = 4
  MaxMissed = 3
  MaxRebuilds = 1
INVARIANTS
  RebuiltIsWhole
CHECK_DEADLOCK FALSE
