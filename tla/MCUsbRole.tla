----------------------------- MODULE MCUsbRole -----------------------------
(* UsbRole with short loops; every value is in the .cfg. *)
EXTENDS UsbRole
=============================================================================
