-------------------------- MODULE MCIndexLifecycle --------------------------
(* Model checking of IndexLifecycle.                                       *)
EXTENDS IndexLifecycle, TLC

Symmetry == Permutations(Cli)
=============================================================================
