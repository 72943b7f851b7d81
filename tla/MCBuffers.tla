------------------------------ MODULE MCBuffers ------------------------------
(* Instances of Buffers for TLC. *)
EXTENDS Buffers, TLC

CONSTANTS z1, z2, t1, t2, t3, w1, w2, u1, m1

\* Two tiles of a zone, the first of which may grow, and one of another.
Zones == (t1 :> z1) @@ (t2 :> z1) @@ (t3 :> z2)
OneGrows == (t1 :> {1, 2}) @@ (t2 :> {1}) @@ (t3 :> {1})
=============================================================================
