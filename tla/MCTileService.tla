--------------------------- MODULE MCTileService ---------------------------
(* Instances of TileService for TLC. *)
EXTENDS TileService, TLC
=============================================================================
