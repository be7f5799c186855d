---------------------------- MODULE MCLineReader ----------------------------
(* A small instance of LineReader for TLC. *)
EXTENDS LineReader

MCData == {"a", "b"}
=============================================================================
