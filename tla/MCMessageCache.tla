--------------------------- MODULE MCMessageCache ---------------------------
(* Instances of MessageCache.                                              *)
EXTENDS MessageCache

Symmetry == Permutations(Tasks) \cup Permutations(Threads)
=============================================================================
