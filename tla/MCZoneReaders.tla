--------------------------- MODULE MCZoneReaders ---------------------------
(* Instances of ZoneReaders for TLC.                                       *)
EXTENDS ZoneReaders, TLC

CONSTANTS w1, m1, r1, t1, t2, b1, b2

\* Bodies and tiles are interchangeable in safety runs.
Symmetry == Permutations(Body) \cup Permutations(Tile)
=============================================================================
