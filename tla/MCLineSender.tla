---------------------------- MODULE MCLineSender ----------------------------
(* A small instance of LineSender for TLC; its constants are numbers. *)
EXTENDS LineSender
=============================================================================
