---------------------------- MODULE MCSkwService ----------------------------
(* Model of SkwService for TLC: both drivers, and the messages of one CP.    *)
EXTENDS SkwService
=============================================================================
