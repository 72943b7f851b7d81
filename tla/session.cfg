\* One drape, both policies, an imagery switch, a fault and a squeeze.
SPECIFICATION FairSpec
CONSTANTS
  Resource = {r1}
  Policies = {"Interactive", "Batch"}
  MaxLooks = 3
  MaxEpochs = 1
  MaxFaults = 1
  MaxSqueezes = 1
INVARIANTS
  BooksAgree
  FilmsDrawWhatIsHeld
  FilmsCountWhatIsHeld
PROPERTIES
  StaysWhole
  DrawnInTheEnd
CHECK_DEADLOCK FALSE
