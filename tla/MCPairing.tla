------------------------------ MODULE MCPairing ------------------------------
(***************************************************************************)
(* Instances of Pairing for TLC: every method of legacy pairing and of LE  *)
(* Secure Connections, a side that declines, sides without keys to         *)
(* distribute, and two applications that pair at the same time.            *)
(***************************************************************************)
EXTENDS PairingLegacy

Side(lesc, mitm, iocap, keys, accept) ==
  [lesc |-> lesc, mitm |-> mitm, bonding |-> TRUE, accept |-> accept, iocap |-> iocap,
   keys |-> keys]

Both(c, p) == [central |-> c, peripheral |-> p]

MCPar ==
  {Both(Side(lesc, FALSE, "NoInputNoOutput", {"enc", "id", "sign"}, accept),
        Side(TRUE, FALSE, "NoInputNoOutput", {"enc", "id"}, TRUE)) : lesc, accept \in BOOLEAN}
  \cup {Both(Side(lesc, TRUE, "KeyboardDisplay", {"id"}, TRUE),
             Side(TRUE, TRUE, io, {"sign"}, TRUE)) :
          lesc \in BOOLEAN, io \in {"KeyboardOnly", "DisplayYesNo"}}
  \cup {Both(Side(TRUE, FALSE, "NoInputNoOutput", {"id"}, TRUE),
             Side(TRUE, FALSE, "NoInputNoOutput", {"id"}, FALSE)),
        Both(Side(FALSE, FALSE, "DisplayOnly", {"enc"}, TRUE),
             Side(FALSE, FALSE, "DisplayOnly", {}, TRUE))}

Calls(c, p) == [central |-> c, peripheral |-> p]

MCScenarios ==
  [par : MCPar, limit : {Calls(3, 0), Calls(0, 3)}]
  \cup [par : {Both(Side(TRUE, TRUE, "KeyboardDisplay", {"id"}, TRUE),
                    Side(TRUE, TRUE, io, {"sign"}, TRUE)) :
                 io \in {"KeyboardOnly", "DisplayYesNo"}},
        limit : {Calls(2, 1), Calls(1, 2)}]
  \cup [par : {Both(Side(TRUE, FALSE, "NoInputNoOutput", {"id"}, TRUE),
                    Side(TRUE, FALSE, "NoInputNoOutput", {"enc", "sign"}, TRUE))},
        limit : {Calls(2, 2)}]
=============================================================================
