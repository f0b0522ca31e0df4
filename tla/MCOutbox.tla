------------------------------ MODULE MCOutbox ------------------------------
(* Model checking of Outbox: one clock agrees with the database's, one is  *)
(* behind it.                                                              *)
EXTENDS Outbox, TLC

CONSTANTS w1, w2

MCSkew == (w1 :> 0) @@ (w2 :> -1)
=============================================================================
