------------------------- MODULE MCLowerTransportTx -------------------------
(***************************************************************************)
(* Instances of LowerTransportTx for TLC.                                  *)
(***************************************************************************)
EXTENDS LowerTransportTx
=============================================================================
