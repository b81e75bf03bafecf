------------------------------ MODULE Custody ------------------------------
(***************************************************************************)
(* What a WHAD device promises of the messages its firmware sends: a       *)
(* message the device accepts is in its custody until it is handed over,   *)
(* to a connector callback or to a caller waiting for it, and it is handed *)
(* over at most once.                                                      *)
(***************************************************************************)
CONSTANT Message

VARIABLES held,     \* accepted, not yet handed over
          settled   \* handed over

Init == held = {} /\ settled = {}

Accept(m) ==
  /\ m \notin held \cup settled
  /\ held' = held \cup {m}
  /\ UNCHANGED settled

\* Several messages may be handed over, or given up, at once.
Settle(S) ==
  /\ S \subseteq held
  /\ held' = held \ S
  /\ settled' = settled \cup S

Next == (\E m \in Message : Accept(m)) \/ (\E S \in SUBSET held : Settle(S))

Spec == Init /\ [][Next]_<<held, settled>>
=============================================================================
