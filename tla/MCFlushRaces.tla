---------------------------- MODULE MCFlushRaces ----------------------------
(* Instances of FlushRaces for TLC.                                        *)
EXTENDS FlushRaces, TLC

CONSTANTS w1, w2, m1, m2, t1, t2, b1, b2

\* Writers, maintainers and bodies are interchangeable.
Symmetry ==
  Permutations(Writer) \cup Permutations(Maintainer) \cup Permutations(Body)
=============================================================================
