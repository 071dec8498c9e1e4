----------------------------- MODULE MCDevices -----------------------------
(* Small instances of Devices.                                             *)
EXTENDS Devices
=============================================================================
