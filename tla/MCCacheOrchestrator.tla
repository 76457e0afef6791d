------------------------- MODULE MCCacheOrchestrator -------------------------
(* Small instances of CacheOrchestrator for TLC. *)
EXTENDS CacheOrchestrator, TLC

Symmetry == Permutations(Node) \cup Permutations(Req)
=============================================================================
