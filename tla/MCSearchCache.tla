---------------------------- MODULE MCSearchCache ----------------------------
(* Model checking of SearchCache.                                          *)
EXTENDS SearchCache, TLC

Symmetry == Permutations(Write) \union Permutations(Reader)
=============================================================================
