------------------------------ MODULE MCSkwCmd ------------------------------
(* The callers of the SkwCmd runs are interchangeable, but liveness is      *)
(* checked, so no symmetry is used.                                         *)
EXTENDS SkwCmd
=============================================================================
