----------------------------- MODULE MCSession -----------------------------
\* Session, with resources that are alike.
EXTENDS Session, TLC

Symmetry == Permutations(Resource)
=============================================================================
