------------------------- MODULE MCMemoryTaskRoutes -------------------------
(* TLC instance of MemoryTaskRoutes.                                       *)
EXTENDS MemoryTaskRoutes, TLC

Symmetry == Permutations(Callers) \cup Permutations(Keys)
=============================================================================
