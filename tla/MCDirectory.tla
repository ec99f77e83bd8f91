---------------------------- MODULE MCDirectory -----------------------------
(* Directory for TLC. *)
EXTENDS Directory
=============================================================================
