---------------------------- MODULE MCProjection ----------------------------
(* Model checking of Projection.                                           *)
EXTENDS Projection, TLC

Symmetry == Permutations(Request) \union Permutations(Worker)
=============================================================================
