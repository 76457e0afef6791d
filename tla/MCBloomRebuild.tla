--------------------------- MODULE MCBloomRebuild ---------------------------
(* Small instances of BloomRebuild for TLC. *)
EXTENDS BloomRebuild, TLC
=============================================================================
