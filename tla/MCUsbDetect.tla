----------------------------- MODULE MCUsbDetect -----------------------------
(***************************************************************************)
(* An instance of UsbDetect: the sessions of MCSerialSender, and three     *)
(* devices.                                                                *)
(***************************************************************************)
EXTENDS UsbDetect, MCSerialSender
=============================================================================
