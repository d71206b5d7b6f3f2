---------------------------- MODULE MCHusb320 ----------------------------
(* Husb320 with the C20e's connector: dual role, with data and VBUS. *)
EXTENDS Husb320
=============================================================================
