--------------------------------- MODULE MCCli ---------------------------------
(* Small instances of Cli for TLC. *)
EXTENDS Cli
=============================================================================
