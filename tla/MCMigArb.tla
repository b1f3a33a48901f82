------------------------------ MODULE MCMigArb ------------------------------
(* MigArb with two addresses and a controller that takes two commands. *)
EXTENDS MigArb

MCByte == {0, 1}
=============================================================================
