------------------------- MODULE MCLowerTransportRx -------------------------
(***************************************************************************)
(* Instances of LowerTransportRx for TLC.                                  *)
(***************************************************************************)
EXTENDS LowerTransportRx
=============================================================================
