------------------------------- MODULE MCGatt -------------------------------
(***************************************************************************)
(* Instances of Gatt for TLC.  Lengths are at the code's boundaries for an *)
(* MTU of 23: 20 is the longest single write, 21 to 36 take two prepared   *)
(* writes; a read of 30 takes two requests, and one of 44 a third that     *)
(* returns nothing.                                                        *)
(***************************************************************************)
EXTENDS GattTransfers

Do(kind, h, n) == [kind |-> kind, handle |-> h, size |-> n]
Both(a, b) == [t \in Threads |-> IF t = 1 THEN a ELSE b]

MCScenarios ==
  {Both(<<Do("write", 1, n), Do("read_long", 1, 0)>>, <<Do(k, 1, 4)>>) :
     n \in {30, 44}, k \in {"read", "discover", "write_command"}}
  \cup {Both(<<Do("set_mtu", 1, m), Do("write", 1, 22), Do("read_long", 1, 0)>>, <<>>) :
          m \in {7, 24}}
  \cup {Both(<<Do("write_long", 1, 20), Do("write", 2, 20)>>, <<Do("read_long", 1, 0)>>),
        Both(<<Do("read", 1, 0), Do("read", 2, 0)>>, <<Do("read", 1, 0)>>),
        Both(<<Do("discover", 1, 0), Do("read", 1, 0)>>, <<Do("read", 2, 0), Do("discover", 1, 0)>>)}

MCDiscovery ==
  {Both(<<Do("discover", 1, 0), Do("read", 1, 0)>>, <<Do("read", 2, 0)>>)}
=============================================================================
