-------------------------------- MODULE MCCli --------------------------------
(* Instances of Cli for TLC. *)
EXTENDS Cli

CONSTANT x
=============================================================================
