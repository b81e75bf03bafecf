----------------------------- MODULE MCDeviceIO -----------------------------
(***************************************************************************)
(* Instances of DeviceIO for TLC.                                          *)
(***************************************************************************)
EXTENDS DeviceIO
=============================================================================
