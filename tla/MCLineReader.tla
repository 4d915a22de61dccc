---------------------------- MODULE MCLineReader ----------------------------
(* An instance of LineReader for TLC. *)
EXTENDS LineReader
=============================================================================
