--------------------------------- MODULE Gatt ---------------------------------
(***************************************************************************)
(* A GATT client and a GATT server that both run this code                 *)
(* (whad/ble/stack/gatt, whad/ble/stack/att): procedures that several      *)
(* threads of the client call, the server's handlers, and the attributes   *)
(* they read and write.                                                    *)
(*                                                                         *)
(* The client's procedure lock and transmit lock are shared by its threads *)
(* and its message thread, which queues the responses; a procedure waits   *)
(* for its response for a bounded time.  The server handles one request a  *)
(* step, whenever it likes, and the link keeps the order of PDUs until the *)
(* connection ends.                                                        *)
(***************************************************************************)
EXTENDS Integers, Sequences

CONSTANTS
  Threads,        \* threads of the client that call procedures, numbered
  Handles,        \* handles of the server's characteristic values
  Scenarios,      \* bound: the procedures each thread calls, one after the other
  Services,       \* services of the server
  MaxIndications, \* bound: indications the server sends
  LastDenial,     \* bound: the last request for which the server denies a discovery
  MayDisconnect   \* bound: the connection may end

ProcedureKinds == {"read", "read_long", "write", "write_long", "write_command",
                   "set_mtu", "discover"}

DefaultMtu == 23
None == 0

\* A call: `size` is the length of what is written, or the MTU asked for.
ASSUME GattAssumption ==
  /\ Threads \subseteq Nat \ {None} /\ Handles \subseteq Nat
  /\ Services \in Nat /\ MaxIndications \in Nat /\ LastDenial \in Nat /\ MayDisconnect \in BOOLEAN
  /\ Scenarios \subseteq
       [Threads -> Seq([kind : ProcedureKinds, handle : Handles, size : Nat])]

VARIABLES
  scenario,   \* the calls still to come
  procLock,   \* owner of __proc_lock, or None
  indicating, \* the message thread runs the callback of an indication, with __tx_lock
  proc,       \* what each thread is doing
  queue,      \* __queue: responses received
  terminated, \* state.terminated
  mtu,        \* the MTU as the client and as the server know it
  toServer,   \* requests on their way
  toClient,   \* responses and indications on their way
  attrs,      \* the server's attribute values
  prepared,   \* the server's __write_queues
  sent,       \* history: requests sent, whose number names a request
  sender,     \* history: the procedure that sent each request
  astray,     \* history: a procedure has ended with an error meant for no procedure,
              \* or for a discovery
  leaked,     \* history: a procedure has left with the procedure lock
  indications \* indications sent

vars == <<scenario, procLock, indicating, proc, queue, terminated, mtu, toServer, toClient,
          attrs, prepared, sent, sender, astray, leaked, indications>>

server == <<attrs, prepared>>
history == <<sent, sender, astray, leaked>>

-----------------------------------------------------------------------------
(* Procedures                                                              *)

Smaller(a, b) == IF a < b THEN a ELSE b

\* value[offset : offset + n] of Python
Slice(v, offset, n) == SubSeq(v, offset + 1, Smaller(offset + n, Len(v)))
Drop(v, offset) == SubSeq(v, offset + 1, Len(v))

\* The number of prepared writes of write_long_nolock.
ChunkSize(m) == m - 5
Chunks(n, m) ==
  LET whole == n \div ChunkSize(m) IN
  IF whole % ChunkSize(m) > 0 THEN whole + 1 ELSE whole

\* A value of n bytes, different from any other written.
Bytes(t, call, n) == [i \in 1..n |-> (t * 10 + call) * 1000 + i]

Idle == [pc |-> "idle", kind |-> "none", handle |-> None, value |-> <<>>, data |-> <<>>,
         offset |-> 0, chunks |-> 0, result |-> "none", own |-> 0, taken |-> 0]

\* A call that has the procedure lock, or passes it: write() turns into a
\* long write when the value does not fit in one request.
Begun(p) ==
  LET long == p.kind = "write_long" \/ (p.kind = "write" /\ Len(p.value) > mtu.client - 3) IN
  [p EXCEPT !.pc = "send", !.kind = IF long THEN "write_long" ELSE @,
            !.chunks = IF long THEN Chunks(Len(p.value), mtu.client) ELSE 0]

RequestType(p) ==
  CASE p.kind = "read_long"  -> "read_blob"
    [] p.kind = "write_long" -> IF p.chunks > 0 THEN "prepare_write" ELSE "execute_write"
    [] OTHER                 -> p.kind

RequestValue(p) ==
  IF RequestType(p) = "prepare_write" THEN Slice(p.value, p.offset, ChunkSize(mtu.client))
                                      ELSE p.value

Request(p) ==
  [id |-> sent + 1, type |-> RequestType(p), handle |-> p.handle, offset |-> p.offset,
   value |-> RequestValue(p)]

\* Only a discovery is not protected by the procedure lock: the decorator
\* releases it before the generator's first request.
Locked(p) == p.kind # "discover"

Finish(p, result) == [p EXCEPT !.pc = "stop", !.result = result]

\* What a procedure does with the response it waited for.
Answered(p, m) ==
  CASE p.kind = "read"       -> Finish([p EXCEPT !.data = m.value], "ok")
    [] p.kind = "read_long"  ->
         LET q == [p EXCEPT !.data = @ \o m.value, !.offset = @ + Len(m.value)] IN
         IF Len(m.value) < mtu.client - 1 THEN Finish(q, "ok") ELSE [q EXCEPT !.pc = "send"]
    [] p.kind = "write_long" ->
         IF p.chunks > 0
         THEN [p EXCEPT !.pc = "send", !.chunks = @ - 1, !.offset = @ + Len(m.value)]
         ELSE Finish(p, "ok")
    [] p.kind = "discover"   -> [p EXCEPT !.pc = "send", !.offset = @ + 1]
    [] OTHER                 -> Finish(p, "ok")

\* An error ends a procedure; a discovery ends when nothing more is found,
\* and repeats its request after any other error, whose exception it
\* builds and does not raise.
Refused(p, m) ==
  IF Locked(p) THEN Finish(p, "error")
  ELSE IF m.reason = "not_found" THEN Finish(p, "ok")
  ELSE [p EXCEPT !.pc = "send", !.result = "denied"]

\* A Read Blob response without a value arrives as None, whose len read_long
\* cannot take: TypeError.
Raises(p, m) == p.kind = "read_long" /\ m.type = "read_blob" /\ m.value = <<>>

Call(t) ==
  /\ proc[t].pc = "idle" /\ scenario[t] # <<>>
  /\ LET c == Head(scenario[t]) IN
     proc' = [proc EXCEPT ![t] =
       [Idle EXCEPT !.pc = "lock", !.kind = c.kind, !.handle = c.handle,
          !.value = CASE c.kind \in {"write", "write_long", "write_command"} ->
                           Bytes(t, Len(scenario[t]), c.size)
                      [] c.kind = "set_mtu" -> <<c.size>>
                      [] OTHER -> <<>>]]
  /\ scenario' = [scenario EXCEPT ![t] = Tail(@)]
  /\ UNCHANGED <<procLock, indicating, queue, terminated, mtu, toServer, toClient, server,
                 history, indications>>

\* Mutant: the lock is tested and not taken.
BeginUnlocked(t) ==
  /\ proc[t].pc = "lock" /\ procLock = None
  /\ proc' = [proc EXCEPT ![t] = Begun(@)]
  /\ UNCHANGED <<scenario, procLock, indicating, queue, terminated, mtu, toServer, toClient,
                 server, history, indications>>

\* procedure_start.  set_mtu sends nothing for an MTU it refuses.
Begin(t) ==
  /\ proc[t].pc = "lock" /\ procLock = None
  /\ procLock' = IF Locked(proc[t]) THEN t ELSE None
  /\ proc' = [proc EXCEPT ![t] = IF @.kind = "set_mtu" /\ @.value[1] < DefaultMtu
                                 THEN Finish(@, "none") ELSE Begun(@)]
  /\ UNCHANGED <<scenario, indicating, queue, terminated, mtu, toServer, toClient, server,
                 history, indications>>

\* lock_tx, the ATT request, unlock_tx
Send(t) ==
  /\ proc[t].pc = "send" /\ ~indicating
  /\ toServer' = IF terminated THEN toServer ELSE Append(toServer, Request(proc[t]))
  /\ sent' = sent + 1
  /\ sender' = Append(sender, proc[t].kind)
  /\ proc' = [proc EXCEPT ![t] =
                IF @.kind = "write_command" THEN Finish(@, "sent")
                ELSE [@ EXCEPT !.pc = "wait", !.own = sent + 1]]
  /\ UNCHANGED <<scenario, procLock, indicating, queue, terminated, mtu, toClient, server,
                 astray, leaked, indications>>

\* wait_for_message takes the next response, and drops it when it is
\* neither of the class it waits for nor an error.
Take(t) ==
  LET m == Head(queue)
      p == [proc[t] EXCEPT !.taken = m.id] IN
  /\ proc[t].pc = "wait" /\ ~terminated /\ queue # <<>> /\ ~Raises(p, m)
  /\ queue' = Tail(queue)
  /\ proc' = [proc EXCEPT ![t] = CASE m.type = "error"        -> Refused(p, m)
                                   [] m.type = RequestType(p) -> Answered(p, m)
                                   [] OTHER                   -> @]
  /\ mtu' = IF m.type = "set_mtu" /\ RequestType(p) = "set_mtu"
            THEN [mtu EXCEPT !.client = m.value[1]] ELSE mtu
  /\ astray' = (astray \/ (Locked(p) /\ m.type = "error" /\
                            sender[m.id] \in {"discover", "write_command"}))
  /\ UNCHANGED <<scenario, procLock, indicating, terminated, toServer, toClient, server,
                 sent, sender, leaked, indications>>

\* proclock does not catch the TypeError of a read_long, and the procedure
\* lock stays taken.
Raise(t) ==
  /\ proc[t].pc = "wait" /\ ~terminated /\ queue # <<>> /\ Raises(proc[t], Head(queue))
  /\ queue' = Tail(queue)
  /\ proc' = [proc EXCEPT ![t] = Idle]
  /\ leaked' = TRUE
  /\ UNCHANGED <<scenario, procLock, indicating, terminated, mtu, toServer, toClient, server,
                 sent, sender, astray, indications>>

\* Mutant: the procedure lock is released whatever the exception.
GiveUpUnlocked(t) ==
  /\ proc[t].pc = "wait"
  /\ proc' = [proc EXCEPT ![t] = Idle]
  /\ procLock' = IF procLock = t THEN None ELSE procLock
  /\ UNCHANGED <<scenario, indicating, queue, terminated, mtu, toServer, toClient, server,
                 history, indications>>

\* GattTimeoutException, or ConnectionLostException once the connection has
\* ended: proclock catches neither, and the procedure lock stays taken.
GiveUp(t) ==
  /\ proc[t].pc = "wait"
  /\ proc' = [proc EXCEPT ![t] = Idle]
  /\ leaked' = (leaked \/ procLock = t)
  /\ UNCHANGED <<scenario, procLock, indicating, queue, terminated, mtu, toServer, toClient,
                 server, sent, sender, astray, indications>>

\* Mutant: an AttError leaves the lock taken.
StopAfterReturn(t) ==
  /\ proc[t].pc = "stop"
  /\ proc' = [proc EXCEPT ![t] = Idle]
  /\ procLock' = IF Locked(proc[t]) /\ proc[t].result # "error" THEN None ELSE procLock
  /\ UNCHANGED <<scenario, indicating, queue, terminated, mtu, toServer, toClient, server,
                 history, indications>>

\* procedure_stop, after the return or an AttError.
Stop(t) ==
  /\ proc[t].pc = "stop"
  /\ proc' = [proc EXCEPT ![t] = Idle]
  /\ procLock' = IF Locked(proc[t]) THEN None ELSE procLock
  /\ UNCHANGED <<scenario, indicating, queue, terminated, mtu, toServer, toClient, server,
                 history, indications>>

-----------------------------------------------------------------------------
(* The client's message thread                                             *)

\* on_gatt_message for a response, on_handle_value_indication for an
\* indication, whose handler keeps __tx_lock while its callback runs.
OnPdu ==
  /\ toClient # <<>> /\ ~indicating
  /\ toClient' = Tail(toClient)
  /\ IF Head(toClient).type = "indication"
     THEN indicating' = TRUE /\ UNCHANGED queue
     ELSE queue' = Append(queue, Head(toClient)) /\ UNCHANGED indicating
  /\ UNCHANGED <<scenario, procLock, proc, terminated, mtu, toServer, server, history,
                 indications>>

\* The callback returns and the indication is confirmed; no handler of the
\* server takes the confirmation.
CallbackReturns ==
  /\ indicating
  /\ indicating' = FALSE
  /\ UNCHANGED <<scenario, procLock, proc, queue, terminated, mtu, toServer, toClient, server,
                 history, indications>>

-----------------------------------------------------------------------------
(* The server                                                              *)

Response(r, v) == [id |-> r.id, type |-> r.type, value |-> v, reason |-> "none"]
Error(r, why)  == [id |-> r.id, type |-> "error", value |-> <<>>, reason |-> why]

\* The server answers the request at hand with m.
Answer(m) ==
  /\ toServer' = Tail(toServer)
  /\ toClient' = Append(toClient, m)

Asked(t) == toServer # <<>> /\ Head(toServer).type = t
Asking   == Head(toServer)
client   == <<scenario, procLock, indicating, proc, queue, terminated, history, indications>>

OnRead ==
  /\ Asked("read")
  /\ Answer(Response(Asking, Slice(attrs[Asking.handle], 0, mtu.server - 1)))
  /\ UNCHANGED <<client, mtu, server>>

OnReadBlob ==
  /\ Asked("read_blob")
  /\ LET v == attrs[Asking.handle] IN
     Answer(IF Asking.offset <= Len(v)
            THEN Response(Asking, Slice(v, Asking.offset, mtu.server - 1))
            ELSE Error(Asking, "invalid_offset"))
  /\ UNCHANGED <<client, mtu, server>>

OnWrite ==
  /\ Asked("write")
  /\ attrs' = [attrs EXCEPT ![Asking.handle] = Asking.value]
  /\ Answer(Response(Asking, <<>>))
  /\ UNCHANGED <<client, mtu, prepared>>

OnWriteCommand ==
  /\ Asked("write_command")
  /\ attrs' = [attrs EXCEPT ![Asking.handle] = Asking.value]
  /\ toServer' = Tail(toServer)
  /\ UNCHANGED <<client, mtu, toClient, prepared>>

\* A security requirement or a hook of the application refuses the access,
\* that of a write command too; a server of another make may refuse a
\* discovery.
Refuse ==
  /\ \/ Asked("read") \/ Asked("read_blob") \/ Asked("write") \/ Asked("write_command")
     \/ Asked("discover") /\ Asking.id <= LastDenial
  /\ Answer(Error(Asking, "refused"))
  /\ UNCHANGED <<client, mtu, server>>

OnPrepareWrite ==
  /\ Asked("prepare_write")
  /\ prepared' = [prepared EXCEPT ![Asking.handle] =
                    Append(@, [offset |-> Asking.offset, value |-> Asking.value])]
  /\ Answer(Response(Asking, Asking.value))
  /\ UNCHANGED <<client, mtu, attrs>>

\* One prepared write applied to a value: what follows it is kept when the
\* value was longer.
Patch(v, w) == Slice(v, 0, w.offset) \o w.value \o Drop(v, w.offset + Len(w.value))

\* Mutant: the latest prepared write is applied first.
PatchedBackwards(v, ws) ==
  LET after[i \in 0..Len(ws)] ==
        IF i = 0 THEN v ELSE Patch(after[i - 1], ws[Len(ws) + 1 - i]) IN
  after[Len(ws)]

\* The value after the prepared writes of ws, in their order.
Patched(v, ws) ==
  LET after[i \in 0..Len(ws)] == IF i = 0 THEN v ELSE Patch(after[i - 1], ws[i]) IN
  after[Len(ws)]

\* on_execute_write_request: the queues of all handles are applied, and kept
\* for the next execution.  (The offset of a prepared write is never past
\* the end: the chunks of a value follow each other from its start.)
OnExecuteWrite ==
  /\ Asked("execute_write")
  /\ attrs' = [h \in Handles |-> Patched(attrs[h], prepared[h])]
  /\ Answer(Response(Asking, <<>>))
  /\ UNCHANGED <<client, mtu, prepared>>

OnExchangeMtu ==
  /\ Asked("set_mtu")
  /\ mtu' = [mtu EXCEPT !.server = IF Asking.value[1] >= DefaultMtu THEN Asking.value[1] ELSE @]
  /\ Answer(Response(Asking, Asking.value))
  /\ UNCHANGED <<client, server>>

\* on_read_by_group_type_request, one service in a response.
OnDiscover ==
  /\ Asked("discover")
  /\ Answer(IF Asking.offset < Services THEN Response(Asking, <<>>)
                                        ELSE Error(Asking, "not_found"))
  /\ UNCHANGED <<client, mtu, server>>

Indicate ==
  /\ ~terminated /\ indications < MaxIndications
  /\ indications' = indications + 1
  /\ toClient' = Append(toClient, [id |-> 0, type |-> "indication", value |-> <<>>,
                                   reason |-> "none"])
  /\ UNCHANGED <<scenario, procLock, indicating, proc, queue, terminated, mtu, toServer, server,
                 history>>

\* The link layer manager's on_disconnect.
Disconnect ==
  /\ MayDisconnect /\ ~terminated
  /\ terminated' = TRUE
  /\ toServer' = <<>> /\ toClient' = <<>>
  /\ UNCHANGED <<scenario, procLock, indicating, proc, queue, mtu, server, history, indications>>

-----------------------------------------------------------------------------
Init ==
  /\ scenario \in Scenarios
  /\ procLock = None /\ indicating = FALSE
  /\ proc = [t \in Threads |-> Idle]
  /\ queue = <<>> /\ terminated = FALSE
  /\ mtu = [client |-> DefaultMtu, server |-> DefaultMtu]
  /\ toServer = <<>> /\ toClient = <<>>
  /\ attrs = [h \in Handles |-> Bytes(0, h, 3)]
  /\ prepared = [h \in Handles |-> <<>>]
  /\ sent = 0 /\ sender = <<>> /\ astray = FALSE /\ leaked = FALSE /\ indications = 0

Procedure(t) == Begin(t) \/ Send(t) \/ Take(t) \/ Raise(t) \/ GiveUp(t) \/ Stop(t)

Server ==
  \/ OnRead \/ OnReadBlob \/ OnWrite \/ OnWriteCommand \/ Refuse
  \/ OnPrepareWrite \/ OnExecuteWrite \/ OnExchangeMtu \/ OnDiscover

Next ==
  \/ \E t \in Threads : Call(t) \/ Procedure(t)
  \/ OnPdu \/ CallbackReturns \/ Server \/ Indicate \/ Disconnect

\* Threads run, a wait is bounded, and a callback returns (it calls no
\* procedure itself).  The server may be silent for ever.
Fairness ==
  /\ \A t \in Threads : WF_vars(Procedure(t))
  /\ WF_vars(CallbackReturns)

Spec == Init /\ [][Next]_vars /\ Fairness

-----------------------------------------------------------------------------
(* Properties                                                              *)

Values == Seq(Nat)

TypeOK ==
  /\ procLock \in Threads \cup {None} /\ indicating \in BOOLEAN /\ terminated \in BOOLEAN
  /\ \A t \in Threads :
       /\ proc[t].pc \in {"idle", "lock", "send", "wait", "stop"}
       /\ proc[t].pc \in {"send", "wait", "stop"} /\ Locked(proc[t]) => procLock = t
       /\ proc[t].value \in Values /\ proc[t].data \in Values
       /\ proc[t].own <= sent /\ proc[t].taken <= sent
  /\ mtu.client >= DefaultMtu /\ mtu.server >= DefaultMtu
  /\ \A h \in Handles : attrs[h] \in Values
  /\ Len(sender) = sent

\* A procedure that holds the lock never ends with the response to another
\* one's request: a late response meets a lock that was never released.
\* This holds until a procedure is given an error that was not meant for
\* one: that of a discovery, which runs unlocked, or of a write command,
\* which the server may refuse though nobody waits for its answer.
OwnResponse ==
  \A t \in Threads :
    LET p == proc[t] IN
    p.pc = "stop" /\ Locked(p) /\ p.taken # 0 /\ ~astray => p.taken = p.own

\* A transfer that reports success is whole: what was written is there, at
\* the start of the attribute's value, when the procedure ends, and what a
\* read returns is the attribute's value, or its beginning.  This is about
\* the lengths whose prepared writes are enough for them, and under the
\* condition of OwnResponse.
Prefix(v, w) == Len(v) <= Len(w) /\ SubSeq(w, 1, Len(v)) = v
TransferredWhole(p) ==
  CASE p.kind \in {"write", "write_long"} -> Prefix(p.value, attrs[p.handle])
    [] p.kind = "read_long"               -> p.data = attrs[p.handle]
    [] p.kind = "read"                    -> Prefix(p.data, attrs[p.handle])
    [] OTHER                              -> TRUE
Enough(p) == p.kind = "write_long" =>
               Chunks(Len(p.value), mtu.client) * ChunkSize(mtu.client) >= Len(p.value)

TransfersWhole ==
  \A t \in Threads :
    LET p == proc[t] IN p.pc = "stop" /\ p.result = "ok" /\ ~astray /\ Enough(p) => TransferredWhole(p)

\* Client and server keep the MTU on their own.  They agree on it whenever no
\* procedure is in progress, though an exchange may be refused, time out, or
\* cross the requests of other procedures.
MtusAgree == procLock = None /\ ~astray => mtu.client = mtu.server

\* Once a procedure has left with the procedure lock, nothing gives it
\* back: a procedure that waits for the lock waits for ever.
LockLost ==
  [][leaked => \A t \in Threads : proc[t].pc = "lock" => proc'[t] = proc[t]]_vars

\* No new procedure is "initiated while another is actually in progress":
\* a procedure that succeeds has the response to its own request.
ResponsesPaired ==
  \A t \in Threads :
    LET p == proc[t] IN p.pc = "stop" /\ Locked(p) /\ p.result = "ok" => p.taken = p.own

\* A procedure that is called returns or raises, whatever the server does
\* and when the connection ends, unless a procedure has left with the lock
\* (it has timed out, lost the connection or read nothing from the end of a
\* value), or it is a discovery that was denied, which may be so for ever.
Denied(p) == p.kind = "discover" /\ p.result = "denied"

ProceduresReturn ==
  \A t \in Threads :
    proc[t].pc # "idle" ~> proc[t].pc = "idle" \/ leaked \/ Denied(proc[t])
=============================================================================
