---------------------------- MODULE MCProduction ----------------------------
(* Instances of Production for TLC. *)
EXTENDS Production, TLC

CONSTANTS t1, t2, k1, k2, k3, p1, p2, p3

\* Two packs to one task, a third to the other.
ThreePacks == (k1 :> t1) @@ (k2 :> t1) @@ (k3 :> t2)
ThreeParts == (p1 :> k1) @@ (p2 :> k2) @@ (p3 :> k3)
=============================================================================
