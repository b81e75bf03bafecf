---------------------------- MODULE OrderedChannel ----------------------------
(***************************************************************************)
(* What generic provisioning (whad/btmesh/stack/gen_prov) promises to the  *)
(* provisioning layers of two nodes: the packets one of them submits reach *)
(* the other whole, once and in their order, or not at all.                *)
(***************************************************************************)
EXTENDS Naturals, Sequences

CONSTANT Peers

VARIABLES
  submitted, \* packets each peer has submitted
  passed     \* packets each peer has been given, from the other

Other(p) == CHOOSE q \in Peers : q # p

Init == submitted = [p \in Peers |-> <<>>] /\ passed = [p \in Peers |-> <<>>]

\* A peer is given the next packet of the other, and submits any number in
\* answer; or it submits packets of its own accord.
Give(p) ==
  /\ Len(passed[p]) < Len(submitted[Other(p)])
  /\ passed' = [passed EXCEPT ![p] = Append(@, submitted[Other(p)][Len(@) + 1])]

Extends(s, t) == Len(s) <= Len(t) /\ SubSeq(t, 1, Len(s)) = s

Next ==
  \E p \in Peers :
    /\ Give(p) \/ UNCHANGED passed
    /\ Extends(submitted[p], submitted'[p])
    /\ submitted'[Other(p)] = submitted[Other(p)]

Spec == Init /\ [][Next]_<<submitted, passed>>
=============================================================================
