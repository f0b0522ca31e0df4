------------------------------ MODULE MCSeeding ------------------------------
(* Model checking of Seeding: two cities.                                  *)
EXTENDS Seeding

MCCity == {"madrid", "paris"}
=============================================================================
