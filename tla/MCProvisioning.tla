---------------------------- MODULE MCProvisioning ----------------------------
(***************************************************************************)
(* Instances of Provisioning for TLC.  A public key takes three fragments, *)
(* a confirmation and a random value two or one according to the           *)
(* algorithm, and so does the data.                                        *)
(***************************************************************************)
EXTENDS Provisioning

MCFragments ==
  [x \in Packets |-> CASE x = "public_key" -> 3
                       [] x = "data"       -> 2
                       [] OTHER            -> 1]
=============================================================================
