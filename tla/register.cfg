\* A zone of two tiles, three archives, three publications told in any order, of
\* which two are missed at most; two rebuilds that may cross.
SPECIFICATION Spec
CONSTANTS
  Tile = {t1, t2}
  MaxArchives = 3
  MaxGenerations = 3
  MaxMissed = 2
  MaxRebuilds = 2
SYMMETRY Symmetry
INVARIANTS
  TypeOK
  AnswersAsTold
  HeldWhole
  NothingBroughtBack
  RowsAreStored
CHECK_DEADLOCK FALSE
