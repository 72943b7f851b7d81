----------------------------- MODULE MCRegister -----------------------------
(* Instances of Register for TLC. *)
EXTENDS Register, TLC

Symmetry == Permutations(Tile)
=============================================================================
