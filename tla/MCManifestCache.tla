-------------------------- MODULE MCManifestCache --------------------------
(* Instances of ManifestCache for TLC.                                     *)
EXTENDS ManifestCache, TLC

CONSTANTS r1, r2
=============================================================================
