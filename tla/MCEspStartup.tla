---------------------------- MODULE MCEspStartup ----------------------------
(* A small instance of EspStartup for TLC; its constants are numbers. *)
EXTENDS EspStartup
=============================================================================
