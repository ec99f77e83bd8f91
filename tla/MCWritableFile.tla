--------------------------- MODULE MCWritableFile ---------------------------
(* WritableFile for TLC. *)
EXTENDS WritableFile
=============================================================================
