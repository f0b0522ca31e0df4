------------------------------ MODULE MCGateway ------------------------------
(* Model checking of Gateway: a key with two roles, one with an unknown    *)
(* role, and one role each.                                                *)
EXTENDS Gateway, TLC

Symmetry == Permutations(Request)

MCApiKeys ==
    <<[key |-> "k1", role |-> "admin"], [key |-> "k2", role |-> "admin"],
      [key |-> "k2", role |-> "ingest"], [key |-> "k3", role |-> "owner"],
      [key |-> "", role |-> "admin"]>>

\* Below nothing, half a cent, 1.2 cents, more than a row can hold.
MCPrice == {-12, 5, 12, 20}
=============================================================================
