------------------------------ MODULE MCSkwRx ------------------------------
(* SkwRx with two sessions of a small window; every value is in the .cfg. *)
EXTENDS SkwRx
=============================================================================
