---------------------------- MODULE GattTransfers ----------------------------
(***************************************************************************)
(* What holds of the transfers of Gatt at every step: the inductive        *)
(* invariant from which Gatt_proofs concludes that every variable keeps    *)
(* its type and that a transfer which succeeds is whole.                   *)
(***************************************************************************)
EXTENDS Gatt

Items(q) == {q[i] : i \in 1..Len(q)}

-----------------------------------------------------------------------------
(* Types                                                                   *)

Calls  == [kind : ProcedureKinds, handle : Handles, size : Nat]
Writes == [offset : Nat, value : Values]

\* The value of an MTU request, and of its response.
Mtu(v) == Len(v) = 1 /\ v[1] \in Nat /\ v[1] >= DefaultMtu

ProcTyped(p) ==
  /\ p.pc \in {"idle", "lock", "send", "wait", "stop"}
  /\ p.value \in Values /\ p.data \in Values /\ p.offset \in Nat /\ p.chunks \in Nat
  /\ p.pc # "idle" => p.kind \in ProcedureKinds /\ p.handle \in Handles
  /\ p.pc \in {"send", "wait"} /\ p.kind = "set_mtu" => Mtu(p.value)
  /\ p.pc = "lock" /\ p.kind = "set_mtu" => Len(p.value) = 1
  /\ p.own \in Nat /\ p.own <= sent /\ p.taken \in Nat /\ p.taken <= sent
  /\ p.pc = "wait" => p.own # 0

RequestTyped(m) ==
  m.handle \in Handles /\ m.offset \in Nat /\ m.value \in Values
    /\ (m.type = "set_mtu" => Mtu(m.value))

ResponseTyped(m) == m.value \in Values /\ (m.type = "set_mtu" => Mtu(m.value))

DataTyped ==
  /\ indicating \in BOOLEAN /\ terminated \in BOOLEAN
  /\ scenario \in [Threads -> Seq(Calls)]
  /\ \A t \in Threads : ProcTyped(proc[t])
  /\ \A m \in Items(toServer) : RequestTyped(m)
  /\ \A m \in Items(toClient) \cup Items(queue) : ResponseTyped(m)
  /\ mtu \in [client : Nat, server : Nat] /\ mtu.client >= DefaultMtu /\ mtu.server >= DefaultMtu
  /\ attrs \in [Handles -> Values] /\ prepared \in [Handles -> Seq(Writes)]

-----------------------------------------------------------------------------
(* Order                                                                   *)

\* Requests are handled in the order of their numbers: one still on its way
\* is later than any that was answered.
InOrder ==
  /\ \A i, j \in 1..Len(toServer) : i < j => toServer[i].id < toServer[j].id
  /\ \A m \in Items(toServer) :
       /\ \A x \in Items(toClient) \cup Items(queue) : x.id < m.id
       /\ \A t \in Threads : proc[t].taken < m.id

\* The thread that has the lock, and a procedure to end.
Holds(t) == procLock = t /\ proc[t].pc \in {"send", "wait", "stop"}

\* A write command still on its way was sent before what the holder of the
\* lock has sent.
CommandsBefore ==
  \A t \in Threads : Holds(t) =>
    \A m \in Items(toServer) : m.type = "write_command" =>
      proc[t].taken = 0 /\ (proc[t].own = 0 \/ m.id < proc[t].own)

-----------------------------------------------------------------------------
(* Transfers                                                               *)

\* Where the i-th of the writes ws ends, when each begins where the one
\* before it ends and the last ends at n.
End(ws, n, i) == IF i = Len(ws) THEN n ELSE ws[i + 1].offset

\* The last of the prepared writes ws, those after the b-th, put the first n
\* bytes of v one after the other.
Covers(ws, v, n) ==
  \E b \in 0..Len(ws) :
    /\ End(ws, n, b) = 0 /\ n <= Len(v)
    /\ \A i \in (b + 1)..Len(ws) :
         /\ End(ws, n, i - 1) <= End(ws, n, i) /\ End(ws, n, i) <= Len(v)
         /\ ws[i].value = SubSeq(v, End(ws, n, i - 1) + 1, End(ws, n, i))

\* What the response m says of p's request, once the server has handled it.
Replied(p, m) ==
  /\ m.type \in {RequestType(p), "error"}
  /\ p.kind = "set_mtu" => m.type = "set_mtu" /\ m.value = p.value /\ mtu.server = p.value[1]
  /\ m.type # "error" =>
       /\ p.kind = "read"      => Prefix(m.value, attrs[p.handle])
       /\ p.kind = "write"     => attrs[p.handle] = p.value
       /\ p.kind = "read_long" =>
            /\ p.offset <= Len(attrs[p.handle])
            /\ m.value = Slice(attrs[p.handle], p.offset, mtu.client - 1)
       /\ p.kind = "write_long" =>
            IF p.chunks > 0
            THEN m.value = RequestValue(p)
                   /\ Covers(prepared[p.handle], p.value, p.offset + Len(m.value))
            ELSE Prefix(SubSeq(p.value, 1, p.offset), attrs[p.handle])

\* The request that p has sent, as long as it waits for the response.
OwnRequest(p) ==
  [id |-> p.own, type |-> RequestType(p), handle |-> p.handle, offset |-> p.offset,
   value |-> RequestValue(p)]

\* What has been transferred by a procedure that goes on.
Progress(p) ==
  /\ p.kind = "read_long" =>
       /\ Prefix(p.data, attrs[p.handle]) /\ p.offset = Len(p.data)
       /\ p.data # <<>> => p.taken # 0
  /\ p.kind = "write_long" =>
       /\ p.offset <= Len(p.value)
       /\ Enough(p) => p.offset + p.chunks * ChunkSize(mtu.client) >= Len(p.value)

\* Before its next request is handled, the end of p's prepared writes is its
\* own.
Prepared(p) == p.kind = "write_long" => Covers(prepared[p.handle], p.value, p.offset)

Transfer(p) ==
  /\ p.pc \in {"send", "wait"} => Progress(p)
  /\ p.pc = "send" => Prepared(p)
  /\ p.pc = "wait" =>
       /\ \A m \in Items(toServer) :
            m.id = p.own => Prepared(p) /\ m = OwnRequest(p)
       /\ \A m \in Items(toClient) \cup Items(queue) : m.id = p.own => Replied(p, m)
  /\ p.pc = "stop" /\ p.result = "ok" =>
       p.taken # 0 /\ (Enough(p) => TransferredWhole(p))

\* Both sides know the same MTU, unless an exchange goes on or was left.
MtuAgreed ==
  \/ mtu.client = mtu.server
  \/ \E t \in Threads :
       /\ procLock = t
       /\ proc[t].pc \in {"idle", "lock"} \/ (proc[t].pc = "wait" /\ proc[t].kind = "set_mtu")

\* A procedure that waits for the lock has transferred nothing, and one that
\* writes without response has no request to wait for.
Fresh(p) ==
  /\ p.pc = "lock" =>
       p.own = 0 /\ p.taken = 0 /\ p.data = <<>> /\ p.offset = 0 /\ p.result = "none"
  /\ p.pc = "send" /\ p.kind = "write_command" => p.own = 0

Transfers ==
  /\ \A t \in Threads : Fresh(proc[t])
  /\ ~astray =>
       /\ MtuAgreed /\ CommandsBefore
       /\ \A t \in Threads : Holds(t) => Transfer(proc[t])

TransferInv == DataTyped /\ InOrder /\ Transfers
=============================================================================
