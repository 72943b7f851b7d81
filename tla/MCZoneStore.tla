---------------------------- MODULE MCZoneStore ----------------------------
(* Instances of ZoneStore for TLC.                                         *)
EXTENDS ZoneStore, TLC

CONSTANTS w1, w2, m1, m2, t1, t2, b1, b2

\* Writers, maintainers and bodies are interchangeable in safety runs.
Symmetry ==
  Permutations(Writer) \cup Permutations(Maintainer) \cup Permutations(Body)
=============================================================================
