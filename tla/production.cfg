\* Two tasks, three packs of a part, two packs at once.
SPECIFICATION FairSpec
CONSTANTS
  t1 = t1
  t2 = t2
  k1 = k1
  k2 = k2
  k3 = k3
  p1 = p1
  p2 = p2
  p3 = p3
  Task = {t1, t2}
  Pack = {k1, k2, k3}
  Part = {p1, p2, p3}
  TaskOf <- ThreePacks
  PackOf <- ThreeParts
  Before = {}
  RenderAgain = FALSE
  BakeAgain = FALSE
  AtOnce = 2
  Tries = 2
  MaxFaults = 1
  MaxAsks = 1
INVARIANTS
  LastJoins
  ReceiptsVouch
PROPERTIES
  DoneOnce
  FilmInTheEnd
CHECK_DEADLOCK FALSE
