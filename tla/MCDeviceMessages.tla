-------------------------- MODULE MCDeviceMessages --------------------------
(***************************************************************************)
(* Instances of DeviceMessages for TLC.                                    *)
(***************************************************************************)
EXTENDS DeviceMessages, TLC

Symmetry == Permutations(Clients)
=============================================================================
