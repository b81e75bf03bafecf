---------------------------- MODULE Gatt_proofs ----------------------------
(***************************************************************************)
(* Gatt, for any number of threads, any calls and any server.  First       *)
(* OwnResponse: a procedure that holds the procedure lock ends with the    *)
(* response to its own request; the invariant follows each request, by its *)
(* number, until its response is taken.  Then types, and TransfersWhole,   *)
(* from the inductive invariant of GattTransfers: what a procedure has     *)
(* transferred, what its prepared writes cover, and what the response on   *)
(* its way says of them.                                                   *)
(***************************************************************************)
EXTENDS GattTransfers, SequenceTheorems, WellFoundedInduction, TLAPS

Ids(q)   == {q[i].id : i \in 1..Len(q)} \ {0}

DistinctIds(q) == \A i, j \in 1..Len(q) : i < j /\ q[i].id = q[j].id => q[i].id = 0

\* Values are left untyped: of a sequence only its shape is needed.
IsSequence(q) == q \in Seq(Items(q))

Fields == {"pc", "kind", "handle", "value", "data", "offset", "chunks", "result", "own", "taken"}

Shape ==
  /\ DOMAIN proc = Threads /\ \A t \in Threads : DOMAIN proc[t] = Fields
  /\ IsSequence(queue) /\ IsSequence(toClient) /\ IsSequence(toServer) /\ IsSequence(sender)
  /\ sent \in Nat /\ Len(sender) = sent

\* A request or its response is in one place; only indications have number 0.
InFlight == Ids(queue) \cup Ids(toClient) \cup Ids(toServer)

InOnePlace ==
  /\ DistinctIds(queue) /\ DistinctIds(toClient) /\ DistinctIds(toServer)
  /\ Ids(queue) \cap Ids(toClient) = {}
  /\ Ids(queue) \cap Ids(toServer) = {}
  /\ Ids(toClient) \cap Ids(toServer) = {}

\* The requests that no locked procedure waits for the response to.
Unlocked == {"discover", "write_command"}

FromSender(m) ==
  m.id \in 1..sent /\ (sender[m.id] \in Unlocked => m.type \in {sender[m.id], "error"})

Typed ==
  /\ \A m \in Items(queue) \cup Items(toServer) : FromSender(m)
  /\ \A m \in Items(toClient) : FromSender(m) \/ (m.id = 0 /\ m.type = "indication")

Flow == Shape /\ InOnePlace /\ Typed

-----------------------------------------------------------------------------
(* Sequences                                                               *)

LEMMA AppendItem ==
  ASSUME NEW q, IsSequence(q), NEW m
  PROVE  /\ IsSequence(Append(q, m))
         /\ Len(q) \in Nat /\ Len(Append(q, m)) = Len(q) + 1
         /\ Append(q, m)[Len(q) + 1] = m
         /\ \A i \in 1..Len(q) : Append(q, m)[i] = q[i]
         /\ Items(Append(q, m)) = Items(q) \cup {m}
<1> DEFINE S == Items(q) \cup {m}
           r == Append(q, m)
<1>1. q \in Seq(S)
  BY SeqMonotonic DEF IsSequence
<1> HIDE DEF S
<1>2. m \in S
  BY DEF S
<1>3. /\ Len(q) \in Nat /\ r \in Seq(S) /\ Len(r) = Len(q) + 1
      /\ r[Len(q) + 1] = m /\ \A i \in 1..Len(q) : r[i] = q[i]
  BY <1>1, <1>2, AppendProperties, LenProperties
<1> HIDE DEF r
<1>4. 1..Len(r) = 1..Len(q) \cup {Len(q) + 1}
  BY <1>3
<1>5. Items(r) = S
  BY <1>3, <1>4 DEF Items, S
<1> QED
  BY <1>3, <1>5 DEF IsSequence, S, r

LEMMA TailItem ==
  ASSUME NEW q, IsSequence(q), q # <<>>
  PROVE  /\ IsSequence(Tail(q))
         /\ Len(q) \in Nat \ {0} /\ Len(Tail(q)) = Len(q) - 1 /\ Head(q) = q[1]
         /\ \A i \in 1..Len(Tail(q)) : Tail(q)[i] = q[i + 1] /\ i + 1 \in 1..Len(q)
         /\ Items(Tail(q)) \subseteq Items(q) /\ Head(q) \in Items(q)
<1> DEFINE S == Items(q)
           r == Tail(q)
<1>1. q \in Seq(S)
  BY DEF IsSequence
<1> HIDE DEF S
<1>2. /\ Len(q) \in Nat \ {0} /\ r \in Seq(S) /\ Len(r) = Len(q) - 1 /\ Head(q) = q[1]
      /\ \A i \in 1..Len(r) : r[i] = q[i + 1]
  BY <1>1, HeadTailProperties, EmptySeq
<1> HIDE DEF r
<1>3. \A i \in 1..Len(r) : i + 1 \in 1..Len(q)
  BY <1>2
<1>4. Items(r) \subseteq S /\ Head(q) \in S
  BY <1>2, <1>3 DEF Items, S
<1>5. IsSequence(r)
  <2>1. Len(r) \in Nat /\ r = [i \in 1..Len(r) |-> r[i]]
    BY <1>2, SeqDef
  <2>2. r \in [1..Len(r) -> Items(r)]
    BY <2>1 DEF Items
  <2> QED
    BY <2>1, <2>2, SeqDef DEF IsSequence
<1> QED
  BY <1>2, <1>3, <1>4, <1>5 DEF S, r

LEMMA AppendIds ==
  ASSUME NEW q, IsSequence(q), NEW m, DistinctIds(q), m.id \notin Ids(q)
  PROVE  DistinctIds(Append(q, m)) /\ Ids(Append(q, m)) = Ids(q) \cup ({m.id} \ {0})
<1> DEFINE r == Append(q, m)
<1>1. /\ Len(q) \in Nat /\ Len(r) = Len(q) + 1
      /\ r[Len(q) + 1] = m /\ \A i \in 1..Len(q) : r[i] = q[i]
  BY AppendItem
<1> HIDE DEF r
<1>2. ASSUME NEW i \in 1..Len(r), NEW j \in 1..Len(r), i < j, r[i].id = r[j].id PROVE r[i].id = 0
  <2>1. i \in 1..Len(q) /\ r[i] = q[i]
    BY <1>1, <1>2
  <2>2. CASE j \in 1..Len(q)
    BY <1>1, <1>2, <2>1, <2>2 DEF DistinctIds
  <2>3. CASE j = Len(q) + 1
    BY <1>1, <1>2, <2>1, <2>3 DEF Ids
  <2> QED
    BY <1>1, <2>2, <2>3
<1>3. 1..Len(r) = 1..Len(q) \cup {Len(q) + 1}
  BY <1>1
<1>4. Ids(r) = Ids(q) \cup ({m.id} \ {0})
  BY <1>1, <1>3 DEF Ids
<1> QED
  BY <1>2, <1>4 DEF DistinctIds, r

LEMMA TailIds ==
  ASSUME NEW q, IsSequence(q), q # <<>>, DistinctIds(q)
  PROVE  /\ DistinctIds(Tail(q)) /\ Head(q).id \notin Ids(Tail(q))
         /\ Ids(q) = Ids(Tail(q)) \cup ({Head(q).id} \ {0})
<1> DEFINE r == Tail(q)
<1>1. /\ Len(q) \in Nat \ {0} /\ Len(r) = Len(q) - 1 /\ Head(q) = q[1]
      /\ \A i \in 1..Len(r) : r[i] = q[i + 1] /\ i + 1 \in 1..Len(q)
  BY TailItem
<1> HIDE DEF r
<1>2. DistinctIds(r)
  BY <1>1 DEF DistinctIds
<1>3. \A i \in 1..Len(r) : 1 < i + 1 /\ 1 \in 1..Len(q)
  BY <1>1
<1>4. Head(q).id \notin Ids(r)
  BY <1>1, <1>3 DEF DistinctIds, Ids
<1>5. \A i \in 1..Len(q) : i = 1 \/ (i - 1 \in 1..Len(r) /\ r[i - 1] = q[i])
  BY <1>1
<1>6. Ids(q) = Ids(r) \cup ({Head(q).id} \ {0})
  <2>1. \A i \in 1..Len(q) : q[i].id = Head(q).id \/ \E k \in 1..Len(r) : q[i].id = r[k].id
    BY <1>1, <1>5
  <2>2. \A k \in 1..Len(r) : \E i \in 1..Len(q) : r[k].id = q[i].id
    BY <1>1
  <2>3. 1 \in 1..Len(q) /\ Head(q).id = q[1].id
    BY <1>1
  <2> DEFINE A == {q[i].id : i \in 1..Len(q)}
             B == {r[k].id : k \in 1..Len(r)}
  <2>4. A = B \cup {Head(q).id}
    <3>1. A \subseteq B \cup {Head(q).id}
      BY <2>1
    <3>2. B \subseteq A
      BY <2>2
    <3>3. Head(q).id \in A
      BY <2>3
    <3> HIDE DEF A, B
    <3> QED
      BY <3>1, <3>2, <3>3
  <2>5. Ids(q) = A \ {0} /\ Ids(r) = B \ {0}
    BY DEF Ids
  <2> HIDE DEF A, B
  <2> QED
    BY <2>4, <2>5
<1> QED
  BY <1>2, <1>4, <1>6 DEF r

LEMMA EmptyItems ==
  IsSequence(<<>>) /\ Len(<<>>) = 0 /\ Items(<<>>) = {} /\ Ids(<<>>) = {} /\ DistinctIds(<<>>)
  BY EmptySeq DEF IsSequence, Items, Ids, DistinctIds

-----------------------------------------------------------------------------
(***************************************************************************)
(* The flow of requests and responses.                                     *)
(***************************************************************************)
\* Steps that send no request keep every number in one place.
FlowKept == Flow' /\ InFlight' \subseteq InFlight

LEMMA FlowSame ==
  ASSUME Flow, UNCHANGED <<queue, toServer, toClient, sent, sender>>,
         DOMAIN proc' = Threads, \A t \in Threads : DOMAIN proc'[t] = Fields
  PROVE  FlowKept
<1>1. Shape'
  BY DEF Flow, Shape, IsSequence, Items
<1>2. InOnePlace' /\ InFlight' = InFlight
  <2>1. queue' = queue /\ toServer' = toServer /\ toClient' = toClient
    OBVIOUS
  <2>2. /\ Ids(queue)' = Ids(queue)
        /\ Ids(toServer)' = Ids(toServer)
        /\ Ids(toClient)' = Ids(toClient)
    BY <2>1 DEF Ids
  <2>3. /\ DistinctIds(queue)' = DistinctIds(queue)
        /\ DistinctIds(toServer)' = DistinctIds(toServer)
        /\ DistinctIds(toClient)' = DistinctIds(toClient)
    BY <2>1 DEF DistinctIds
  <2>4. InFlight' = InFlight
    BY <2>2 DEF InFlight
  <2>5. InOnePlace'
    BY <2>2, <2>3 DEF Flow, InOnePlace
  <2> QED
    BY <2>4, <2>5
<1>3. Typed'
  BY DEF Flow, Typed, FromSender, Items
<1> QED
  BY <1>1, <1>2, <1>3 DEF Flow, FlowKept

\* The numbers of the next state, from its sequences.
LEMMA FlowNext ==
  ASSUME DOMAIN proc' = Threads, \A t \in Threads : DOMAIN proc'[t] = Fields,
         IsSequence(queue'), IsSequence(toClient'), IsSequence(toServer'), IsSequence(sender'),
         sent' \in Nat, Len(sender') = sent',
         DistinctIds(queue'), DistinctIds(toClient'), DistinctIds(toServer'),
         Ids(queue') \cap Ids(toClient') = {},
         Ids(queue') \cap Ids(toServer') = {},
         Ids(toClient') \cap Ids(toServer') = {},
         \A m \in Items(queue') \cup Items(toServer') : FromSender(m)',
         \A m \in Items(toClient') : FromSender(m)' \/ (m.id = 0 /\ m.type = "indication")
  PROVE  Flow' /\ InFlight' = Ids(queue') \cup Ids(toClient') \cup Ids(toServer')
<1>1. Shape'
  BY DEF Shape, IsSequence, Items
<1>2. InOnePlace' /\ InFlight' = Ids(queue') \cup Ids(toClient') \cup Ids(toServer')
  BY DEF InOnePlace, InFlight, Ids, DistinctIds
<1>3. Typed'
  BY DEF Typed, Items
<1> QED
  BY <1>1, <1>2, <1>3 DEF Flow

LEMMA NumbersOf ==
  ASSUME Flow
  PROVE  /\ sent \in Nat /\ sent + 1 \notin InFlight /\ InFlight \subseteq 1..sent
         /\ \A m \in Items(queue) \cup Items(toServer) : m.id \in 1..sent /\ m.id # 0
<1>1. sent \in Nat
  BY DEF Flow, Shape
<1>2. \A m \in Items(queue) \cup Items(toServer) : m.id \in 1..sent /\ m.id # 0
  BY <1>1 DEF Flow, Typed, FromSender
<1>3. \A m \in Items(toClient) : m.id \in 1..sent \/ m.id = 0
  BY DEF Flow, Typed, FromSender
<1>4. InFlight \subseteq 1..sent
  BY <1>2, <1>3 DEF InFlight, Ids, Items
<1> QED
  BY <1>1, <1>2, <1>4

LEMMA FlowOfSend ==
  ASSUME Flow, NEW t \in Threads, Send(t)
  PROVE  /\ Flow' /\ InFlight' \subseteq InFlight \cup {sent + 1}
         /\ sender'[sent + 1] = proc[t].kind
         /\ \A i \in 1..sent : sender'[i] = sender[i]
<1> PICK m : m = Request(proc[t])
  OBVIOUS
<1> DEFINE n == sent + 1
<1>1. /\ proc' = [proc EXCEPT ![t] = IF @.kind = "write_command" THEN Finish(@, "sent")
                                     ELSE [@ EXCEPT !.pc = "wait", !.own = sent + 1]]
      /\ sent' = n /\ sender' = Append(sender, proc[t].kind)
      /\ toServer' = IF terminated THEN toServer ELSE Append(toServer, m)
      /\ queue' = queue /\ toClient' = toClient
  BY DEF Send
<1>2. /\ IsSequence(queue) /\ IsSequence(toClient) /\ IsSequence(toServer) /\ IsSequence(sender)
      /\ sent \in Nat /\ Len(sender) = sent /\ n \notin InFlight /\ n # 0
      /\ InOnePlace /\ Typed
  BY NumbersOf DEF Flow, Shape
<1>3. DOMAIN proc' = Threads /\ \A u \in Threads : DOMAIN proc'[u] = Fields
  BY <1>1 DEF Flow, Shape, Fields, Finish
<1>4. /\ IsSequence(sender') /\ Len(sender') = n /\ sender'[n] = proc[t].kind
      /\ \A i \in 1..sent : sender'[i] = sender[i]
  BY <1>1, <1>2, AppendItem
<1>5. m.id = n /\ (proc[t].kind \in Unlocked => m.type = proc[t].kind)
  BY DEF Request, RequestType, Unlocked
<1>6. \A x : FromSender(x) => FromSender(x)'
  BY <1>1, <1>2, <1>4 DEF FromSender
<1>7. FromSender(m)'
  <2>1. n \in 1..n
    BY <1>2
  <2> QED
    BY <1>1, <1>2, <1>4, <1>5, <2>1 DEF FromSender
<1>8. /\ IsSequence(toServer') /\ DistinctIds(toServer')
      /\ Items(toServer') \subseteq Items(toServer) \cup {m}
      /\ Ids(toServer') \subseteq Ids(toServer) \cup {n}
  <2>1. m.id \notin Ids(toServer)
    BY <1>2, <1>5 DEF InFlight
  <2>2. CASE terminated
    BY <1>1, <1>2, <2>2 DEF InOnePlace
  <2>3. CASE ~terminated
    <3>1. toServer' = Append(toServer, m)
      BY <1>1, <2>3
    <3> QED
      BY <1>2, <1>5, <2>1, <3>1, AppendItem, AppendIds DEF InOnePlace
  <2> QED
    BY <2>2, <2>3
<1>9. /\ Ids(queue) \cap Ids(toClient) = {}
      /\ Ids(queue) \cap Ids(toServer') = {}
      /\ Ids(toClient) \cap Ids(toServer') = {}
  BY <1>2, <1>8 DEF InOnePlace, InFlight
<1>10. /\ \A x \in Items(queue') \cup Items(toServer') : FromSender(x)'
       /\ \A x \in Items(toClient') : FromSender(x)' \/ (x.id = 0 /\ x.type = "indication")
  BY <1>1, <1>2, <1>6, <1>7, <1>8 DEF Typed
<1>11. Flow' /\ InFlight' = Ids(queue') \cup Ids(toClient') \cup Ids(toServer')
  <2>1. DistinctIds(queue') /\ DistinctIds(toClient') /\ IsSequence(queue') /\ IsSequence(toClient')
    BY <1>1, <1>2 DEF InOnePlace
  <2>2. sent' \in Nat /\ Len(sender') = sent'
    BY <1>1, <1>2, <1>4
  <2>3. /\ Ids(queue') \cap Ids(toClient') = {}
        /\ Ids(queue') \cap Ids(toServer') = {}
        /\ Ids(toClient') \cap Ids(toServer') = {}
    BY <1>1, <1>9
  <2> QED
    BY <1>3, <1>4, <1>8, <1>10, <2>1, <2>2, <2>3, FlowNext
<1> QED
  BY <1>1, <1>4, <1>8, <1>11 DEF InFlight

LEMMA FlowOfHead ==
  ASSUME Flow, queue # <<>>, queue' = Tail(queue), UNCHANGED <<toServer, toClient, sent, sender>>,
         DOMAIN proc' = Threads, \A u \in Threads : DOMAIN proc'[u] = Fields
  PROVE  FlowKept /\ Head(queue).id \in InFlight /\ Head(queue).id \notin InFlight'
<1> PICK m : m = Head(queue)
  OBVIOUS
<1>1. /\ queue # <<>> /\ queue' = Tail(queue)
      /\ UNCHANGED <<toServer, toClient, sent, sender>>
  OBVIOUS
<1>2. /\ IsSequence(queue) /\ IsSequence(toClient) /\ IsSequence(toServer) /\ IsSequence(sender)
      /\ sent \in Nat /\ Len(sender) = sent /\ InOnePlace /\ Typed
  BY DEF Flow, Shape
<1>3. DOMAIN proc' = Threads /\ \A u \in Threads : DOMAIN proc'[u] = Fields
  OBVIOUS
<1>4. /\ IsSequence(queue') /\ DistinctIds(queue') /\ Items(queue') \subseteq Items(queue)
      /\ Ids(queue) = Ids(queue') \cup ({m.id} \ {0}) /\ m.id \notin Ids(queue')
      /\ m \in Items(queue)
  BY <1>1, <1>2, TailItem, TailIds DEF InOnePlace
<1>5. m.id \in Ids(queue)
  BY <1>4, NumbersOf
<1>6. \A x : FromSender(x) => FromSender(x)'
  BY <1>1 DEF FromSender
<1>7. Flow' /\ InFlight' = Ids(queue') \cup Ids(toClient') \cup Ids(toServer')
  BY <1>1, <1>2, <1>3, <1>4, <1>6, FlowNext DEF InOnePlace, Typed
<1> QED
  BY <1>1, <1>2, <1>4, <1>5, <1>7 DEF FlowKept, InFlight, InOnePlace

LEMMA FlowOfTake ==
  ASSUME Flow, NEW t \in Threads, Take(t)
  PROVE  FlowKept /\ Head(queue).id \in InFlight /\ Head(queue).id \notin InFlight'
<1>1. /\ queue # <<>> /\ queue' = Tail(queue)
      /\ UNCHANGED <<toServer, toClient, sent, sender>>
  BY DEF Take
<1>2. DOMAIN proc' = Threads /\ \A u \in Threads : DOMAIN proc'[u] = Fields
  BY DEF Take, Flow, Shape, Fields, Finish, Refused, Answered
<1> QED
  BY <1>1, <1>2, FlowOfHead

\* Steps of the others: the threads' procedures and the sender of each
\* request stay as they are.
Elsewhere == UNCHANGED <<proc, sent, sender>>

LEMMA FlowOfPdu ==
  ASSUME Flow, OnPdu
  PROVE  FlowKept
<1> PICK m : m = Head(toClient)
  OBVIOUS
<1>1. /\ toClient # <<>> /\ toClient' = Tail(toClient) /\ Elsewhere /\ toServer' = toServer
      /\ queue' = IF m.type = "indication" THEN queue ELSE Append(queue, m)
  BY DEF OnPdu, Elsewhere, history
<1>2. /\ IsSequence(queue) /\ IsSequence(toClient) /\ IsSequence(toServer) /\ IsSequence(sender)
      /\ sent \in Nat /\ Len(sender) = sent /\ InOnePlace /\ Typed
      /\ DOMAIN proc' = Threads /\ \A u \in Threads : DOMAIN proc'[u] = Fields
  BY <1>1 DEF Flow, Shape, Elsewhere
<1>3. /\ IsSequence(toClient') /\ DistinctIds(toClient')
      /\ Items(toClient') \subseteq Items(toClient)
      /\ Ids(toClient) = Ids(toClient') \cup ({m.id} \ {0}) /\ m.id \notin Ids(toClient')
      /\ m \in Items(toClient)
  BY <1>1, <1>2, TailItem, TailIds DEF InOnePlace
<1>4. /\ IsSequence(queue') /\ DistinctIds(queue')
      /\ Ids(queue') \subseteq Ids(queue) \cup ({m.id} \ {0})
      /\ \A x \in Items(queue') : FromSender(x)
  <2>1. CASE m.type = "indication"
    BY <1>1, <1>2, <2>1 DEF InOnePlace, Typed
  <2>2. CASE m.type # "indication"
    <3>1. queue' = Append(queue, m) /\ FromSender(m)
      BY <1>1, <1>2, <1>3, <2>2 DEF Typed
    <3>2. m.id # 0
      BY <1>2, <3>1 DEF FromSender
    <3>3. m.id \notin Ids(queue)
      BY <1>2, <1>3, <3>2 DEF InOnePlace
    <3> QED
      BY <1>2, <3>1, <3>3, AppendItem, AppendIds DEF InOnePlace, Typed
  <2> QED
    BY <2>1, <2>2
<1>5. \A x : FromSender(x) => FromSender(x)'
  BY <1>1 DEF FromSender, Elsewhere
<1>6. /\ Ids(queue') \cap Ids(toClient') = {}
      /\ Ids(queue') \cap Ids(toServer') = {}
      /\ Ids(toClient') \cap Ids(toServer') = {}
      /\ Ids(queue') \cup Ids(toClient') \cup Ids(toServer') \subseteq InFlight
  BY <1>1, <1>2, <1>3, <1>4 DEF InOnePlace, InFlight
<1>7. Flow' /\ InFlight' = Ids(queue') \cup Ids(toClient') \cup Ids(toServer')
  <2>1. /\ IsSequence(toServer') /\ IsSequence(sender') /\ sent' \in Nat /\ Len(sender') = sent'
        /\ DistinctIds(toServer') /\ Items(toServer') = Items(toServer)
    BY <1>1, <1>2 DEF Elsewhere, InOnePlace
  <2>2. /\ \A x \in Items(queue') \cup Items(toServer') : FromSender(x)'
        /\ \A x \in Items(toClient') : FromSender(x)' \/ (x.id = 0 /\ x.type = "indication")
    BY <1>2, <1>3, <1>4, <1>5, <2>1 DEF Typed
  <2> QED
    BY <1>2, <1>3, <1>4, <1>6, <2>1, <2>2, FlowNext
<1> QED
  BY <1>6, <1>7 DEF FlowKept

\* The server takes a request, and sends its response, an error, or nothing.
LEMMA FlowOfServer ==
  ASSUME Flow, Server
  PROVE  FlowKept /\ Elsewhere
<1>1. /\ toServer # <<>> /\ toServer' = Tail(toServer) /\ Elsewhere /\ queue' = queue
      /\ \/ toClient' = toClient
         \/ \E m : /\ m.id = Head(toServer).id /\ m.type \in {Head(toServer).type, "error"}
                   /\ toClient' = Append(toClient, m)
  <2> DEFINE Answers == \E m : /\ m.id = Head(toServer).id
                               /\ m.type \in {Head(toServer).type, "error"}
                               /\ toServer' = Tail(toServer) /\ toClient' = Append(toClient, m)
  <2>1. ASSUME NEW v, Answer(Response(Head(toServer), v)) PROVE Answers
    BY <2>1 DEF Answer, Response
  <2>2. ASSUME NEW why, Answer(Error(Head(toServer), why)) PROVE Answers
    BY <2>2 DEF Answer, Error
  <2> HIDE DEF Answers
  <2>3. toServer # <<>> /\ Elsewhere /\ queue' = queue
    BY DEF Server, OnRead, OnReadBlob, OnWrite, OnWriteCommand, Refuse, OnPrepareWrite,
           OnExecuteWrite, OnExchangeMtu, OnDiscover, Asked, client, history, Elsewhere
  <2>4. Answers \/ OnWriteCommand
    <3>1. CASE OnReadBlob
      BY <2>1, <2>2, <3>1 DEF OnReadBlob, Asking
    <3>2. CASE OnDiscover
      BY <2>1, <2>2, <3>2 DEF OnDiscover, Asking
    <3>3. CASE OnRead \/ OnWrite \/ Refuse \/ OnPrepareWrite \/ OnExecuteWrite \/ OnExchangeMtu
      BY <2>1, <2>2, <3>3, Zenon
         DEF OnRead, OnWrite, Refuse, OnPrepareWrite, OnExecuteWrite, OnExchangeMtu, Asking
    <3> QED
      BY <3>1, <3>2, <3>3 DEF Server
  <2> QED
    BY <2>3, <2>4 DEF Answers, OnWriteCommand
<1> PICK h : h = Head(toServer)
  OBVIOUS
<1>2. /\ IsSequence(queue) /\ IsSequence(toClient) /\ IsSequence(toServer) /\ IsSequence(sender)
      /\ sent \in Nat /\ Len(sender) = sent /\ InOnePlace /\ Typed
      /\ DOMAIN proc' = Threads /\ \A u \in Threads : DOMAIN proc'[u] = Fields
  BY <1>1 DEF Flow, Shape, Elsewhere
<1>3. /\ IsSequence(toServer') /\ DistinctIds(toServer')
      /\ Items(toServer') \subseteq Items(toServer)
      /\ Ids(toServer) = Ids(toServer') \cup ({h.id} \ {0}) /\ h.id \notin Ids(toServer')
      /\ h \in Items(toServer)
  BY <1>1, <1>2, TailItem, TailIds DEF InOnePlace
<1>4. h.id \in Ids(toServer) /\ FromSender(h)
  BY <1>2, <1>3, NumbersOf DEF Typed
<1>5. /\ IsSequence(toClient') /\ DistinctIds(toClient')
      /\ Ids(toClient') \subseteq Ids(toClient) \cup {h.id}
      /\ \A x \in Items(toClient') : FromSender(x) \/ (x.id = 0 /\ x.type = "indication")
  <2>1. CASE toClient' = toClient
    BY <1>2, <2>1 DEF InOnePlace, Typed
  <2>2. ASSUME NEW m, m.id = h.id, m.type \in {h.type, "error"}, toClient' = Append(toClient, m)
        PROVE  /\ IsSequence(toClient') /\ DistinctIds(toClient')
               /\ Ids(toClient') \subseteq Ids(toClient) \cup {h.id}
               /\ \A x \in Items(toClient') : FromSender(x) \/ (x.id = 0 /\ x.type = "indication")
    <3>1. m.id \notin Ids(toClient)
      BY <1>2, <1>4, <2>2 DEF InOnePlace
    <3>2. FromSender(m)
      BY <1>4, <2>2 DEF FromSender
    <3> QED
      BY <1>2, <2>2, <3>1, <3>2, AppendItem, AppendIds DEF InOnePlace, Typed
  <2> QED
    BY <1>1, <2>1, <2>2
<1>6. \A x : FromSender(x) => FromSender(x)'
  BY <1>1 DEF FromSender, Elsewhere
<1>7. /\ Ids(queue') \cap Ids(toClient') = {}
      /\ Ids(queue') \cap Ids(toServer') = {}
      /\ Ids(toClient') \cap Ids(toServer') = {}
      /\ Ids(queue') \cup Ids(toClient') \cup Ids(toServer') \subseteq InFlight
  BY <1>1, <1>2, <1>3, <1>4, <1>5 DEF InOnePlace, InFlight
<1>8. Flow' /\ InFlight' = Ids(queue') \cup Ids(toClient') \cup Ids(toServer')
  <2>1. /\ IsSequence(queue') /\ IsSequence(sender') /\ sent' \in Nat /\ Len(sender') = sent'
        /\ DistinctIds(queue') /\ Items(queue') = Items(queue)
    BY <1>1, <1>2 DEF Elsewhere, InOnePlace
  <2>2. /\ \A x \in Items(queue') \cup Items(toServer') : FromSender(x)'
        /\ \A x \in Items(toClient') : FromSender(x)' \/ (x.id = 0 /\ x.type = "indication")
    BY <1>2, <1>3, <1>5, <1>6, <2>1 DEF Typed
  <2> QED
    BY <1>2, <1>3, <1>5, <1>7, <2>1, <2>2, FlowNext
<1> QED
  BY <1>1, <1>7, <1>8 DEF FlowKept

LEMMA FlowOfOthers ==
  ASSUME Flow, Indicate \/ Disconnect
  PROVE  FlowKept /\ Elsewhere
<1>1. /\ IsSequence(queue) /\ IsSequence(toClient) /\ IsSequence(toServer) /\ IsSequence(sender)
      /\ sent \in Nat /\ Len(sender) = sent /\ InOnePlace /\ Typed
      /\ Elsewhere /\ queue' = queue
      /\ DOMAIN proc' = Threads /\ \A u \in Threads : DOMAIN proc'[u] = Fields
  BY DEF Flow, Shape, Elsewhere, Indicate, Disconnect, history
<1>2. /\ IsSequence(toClient') /\ DistinctIds(toClient') /\ Ids(toClient') \subseteq Ids(toClient)
      /\ IsSequence(toServer') /\ DistinctIds(toServer') /\ Ids(toServer') \subseteq Ids(toServer)
      /\ Items(toServer') \subseteq Items(toServer)
      /\ \A x \in Items(toClient') : FromSender(x) \/ (x.id = 0 /\ x.type = "indication")
  <2>1. CASE Indicate
    <3>1. PICK m : m.id = 0 /\ m.type = "indication" /\ toClient' = Append(toClient, m)
      BY <2>1 DEF Indicate
    <3>2. m.id \notin Ids(toClient) /\ toServer' = toServer
      BY <2>1, <3>1 DEF Ids, Indicate
    <3> QED
      BY <1>1, <3>1, <3>2, AppendItem, AppendIds DEF InOnePlace, Typed
  <2>2. CASE Disconnect
    BY <2>2, EmptyItems DEF Disconnect
  <2> QED
    BY <2>1, <2>2
<1>3. \A x : FromSender(x) => FromSender(x)'
  BY <1>1 DEF FromSender, Elsewhere
<1>4. /\ Ids(queue') \cap Ids(toClient') = {}
      /\ Ids(queue') \cap Ids(toServer') = {}
      /\ Ids(toClient') \cap Ids(toServer') = {}
      /\ Ids(queue') \cup Ids(toClient') \cup Ids(toServer') \subseteq InFlight
  BY <1>1, <1>2 DEF InOnePlace, InFlight
<1>5. Flow' /\ InFlight' = Ids(queue') \cup Ids(toClient') \cup Ids(toServer')
  <2>1. /\ IsSequence(queue') /\ IsSequence(sender') /\ sent' \in Nat /\ Len(sender') = sent'
        /\ DistinctIds(queue') /\ Items(queue') = Items(queue)
    BY <1>1 DEF Elsewhere, InOnePlace
  <2>2. /\ \A x \in Items(queue') \cup Items(toServer') : FromSender(x)'
        /\ \A x \in Items(toClient') : FromSender(x)' \/ (x.id = 0 /\ x.type = "indication")
    BY <1>1, <1>2, <1>3, <2>1 DEF Typed
  <2> QED
    BY <1>1, <1>2, <1>4, <2>1, <2>2, FlowNext
<1> QED
  BY <1>1, <1>4, <1>5 DEF FlowKept

-----------------------------------------------------------------------------
(***************************************************************************)
(* The procedures.  A thread that has the lock runs a locked procedure, or *)
(* has left one by an exception and will never release the lock.           *)
(***************************************************************************)
Active == {"send", "wait", "stop"}

Controlled(t) ==
  /\ proc[t].pc \in {"idle", "lock"} \cup Active
  /\ proc[t].pc \in Active /\ Locked(proc[t]) => procLock = t
  /\ procLock = t => proc[t].pc \in {"idle", "lock"} \/ (proc[t].pc \in Active /\ Locked(proc[t]))
  /\ proc[t].pc = "wait" => proc[t].kind # "write_command"
  /\ proc[t].pc = "lock" \/ (proc[t].pc = "send" /\ proc[t].kind = "write_command")
       => proc[t].taken = 0

Control == procLock \in Threads \cup {None} /\ \A t \in Threads : Controlled(t)

LEMMA ThreadNumbers == None \notin Threads
  BY GattAssumption

\* What each step makes of its thread's procedure.
LEMMA EffectOfCall ==
  ASSUME Shape, NEW t \in Threads, Call(t)
  PROVE  /\ proc[t].pc = "idle" /\ proc'[t].pc = "lock" /\ proc'[t].taken = 0
         /\ DOMAIN proc' = Threads /\ DOMAIN proc'[t] = Fields
         /\ \A u \in Threads : u # t => proc'[u] = proc[u]
  BY DEF Call, Shape, Idle, Fields

LEMMA EffectOfBegin ==
  ASSUME Shape, NEW t \in Threads, Begin(t)
  PROVE  /\ proc[t].pc = "lock" /\ procLock = None
         /\ procLock' = IF Locked(proc[t]) THEN t ELSE None
         /\ proc'[t].pc \in {"send", "stop"}
         /\ proc'[t].taken = proc[t].taken /\ (Locked(proc[t]) <=> Locked(proc'[t]))
         /\ proc'[t].pc = "stop" => proc[t].kind = "set_mtu"
         /\ DOMAIN proc' = Threads /\ DOMAIN proc'[t] = Fields
         /\ \A u \in Threads : u # t => proc'[u] = proc[u]
<1>1. proc' = [proc EXCEPT ![t] = IF @.kind = "set_mtu" /\ @.value[1] < DefaultMtu
                                  THEN Finish(@, "none") ELSE Begun(@)]
  BY DEF Begin
<1>2. proc'[t] \in {Finish(proc[t], "none"), Begun(proc[t])}
  BY <1>1 DEF Shape
<1>3. proc[t].kind # "set_mtu" => proc'[t] = Begun(proc[t])
  <2> DEFINE small == proc[t].value[1] < DefaultMtu
  <2>1. proc' = [proc EXCEPT ![t] = IF proc[t].kind = "set_mtu" /\ small
                                    THEN Finish(proc[t], "none") ELSE Begun(proc[t])]
    BY <1>1
  <2> HIDE DEF small
  <2> QED
    BY <2>1 DEF Shape
<1>4. LET q == Finish(proc[t], "none") IN
      q.pc = "stop" /\ q.taken = proc[t].taken /\ q.kind = proc[t].kind /\ DOMAIN q = Fields
  BY DEF Finish, Shape, Fields
<1>5. LET q == Begun(proc[t]) IN
      /\ q.pc = "send" /\ q.taken = proc[t].taken /\ DOMAIN q = Fields
      /\ q.kind = proc[t].kind \/ (q.kind = "write_long" /\ proc[t].kind = "write")
  BY DEF Begun, Shape, Fields
<1>6. proc[t].pc = "lock" /\ procLock = None /\ procLock' = IF Locked(proc[t]) THEN t ELSE None
  BY DEF Begin
<1>7. DOMAIN proc' = Threads /\ \A u \in Threads : u # t => proc'[u] = proc[u]
  BY <1>1 DEF Shape
<1> QED
  BY <1>2, <1>3, <1>4, <1>5, <1>6, <1>7 DEF Locked

LEMMA EffectOfSend ==
  ASSUME Shape, NEW t \in Threads, Send(t)
  PROVE  /\ proc[t].pc = "send" /\ proc'[t].kind = proc[t].kind /\ proc'[t].taken = proc[t].taken
         /\ IF proc[t].kind = "write_command" THEN proc'[t].pc = "stop"
            ELSE proc'[t].pc = "wait" /\ proc'[t].own = sent + 1
         /\ DOMAIN proc' = Threads /\ DOMAIN proc'[t] = Fields
         /\ \A u \in Threads : u # t => proc'[u] = proc[u]
         /\ procLock' = procLock /\ astray' = astray
  BY DEF Send, Shape, Finish, Fields

\* The message taken ends or continues the procedure, or is dropped.
Relevant(p, m) == m.type = "error" \/ m.type = RequestType(p)

LEMMA EffectOfTake ==
  ASSUME Shape, NEW t \in Threads, Take(t), NEW m, m = Head(queue)
  PROVE  /\ proc[t].pc = "wait" /\ proc'[t].kind = proc[t].kind /\ proc'[t].own = proc[t].own
         /\ IF Relevant(proc[t], m)
            THEN proc'[t].pc \in {"send", "stop"} /\ proc'[t].taken = m.id
            ELSE proc'[t] = proc[t]
         /\ astray' = (astray \/ (Locked(proc[t]) /\ m.type = "error" /\ sender[m.id] \in Unlocked))
         /\ DOMAIN proc' = Threads /\ DOMAIN proc'[t] = Fields
         /\ \A u \in Threads : u # t => proc'[u] = proc[u]
         /\ procLock' = procLock
<1> DEFINE p == [proc[t] EXCEPT !.taken = m.id]
<1>1. /\ proc' = [proc EXCEPT ![t] = CASE m.type = "error"        -> Refused(p, m)
                                       [] m.type = RequestType(p) -> Answered(p, m)
                                       [] OTHER                   -> @]
      /\ astray' = (astray \/ (Locked(p) /\ m.type = "error" /\
                                sender[m.id] \in {"discover", "write_command"}))
      /\ proc[t].pc = "wait" /\ procLock' = procLock
  BY DEF Take
<1>2. /\ p.kind = proc[t].kind /\ p.own = proc[t].own /\ p.taken = m.id /\ DOMAIN p = Fields
      /\ RequestType(p) = RequestType(proc[t]) /\ (Locked(p) <=> Locked(proc[t]))
  BY DEF Shape, Fields, RequestType, Locked
<1> HIDE DEF p
<1>3. LET q == Refused(p, m) IN
      /\ q.pc \in {"send", "stop"} /\ q.kind = p.kind /\ q.own = p.own /\ q.taken = p.taken
      /\ DOMAIN q = Fields
  BY <1>2 DEF Refused, Finish, Fields
<1>4. LET q == Answered(p, m) IN
      /\ q.pc \in {"send", "stop"} /\ q.kind = p.kind /\ q.own = p.own /\ q.taken = p.taken
      /\ DOMAIN q = Fields
  BY <1>2 DEF Answered, Finish, Fields
<1>5. IF m.type = "error" \/ m.type = RequestType(p)
      THEN proc'[t] \in {Refused(p, m), Answered(p, m)} ELSE proc'[t] = proc[t]
  <2> DEFINE v == CASE m.type = "error"        -> Refused(p, m)
                    [] m.type = RequestType(p) -> Answered(p, m)
                    [] OTHER                   -> proc[t]
  <2>1. proc' = [proc EXCEPT ![t] = v]
    BY <1>1
  <2>2. IF m.type = "error" \/ m.type = RequestType(p)
        THEN v \in {Refused(p, m), Answered(p, m)} ELSE v = proc[t]
    OBVIOUS
  <2> HIDE DEF v
  <2> QED
    BY <2>1, <2>2 DEF Shape
<1>6. DOMAIN proc' = Threads /\ \A u \in Threads : u # t => proc'[u] = proc[u]
  BY <1>1 DEF Shape
<1> QED
  BY <1>1, <1>2, <1>3, <1>4, <1>5, <1>6 DEF Relevant, Shape, Unlocked

\* A procedure is left.
Ends(t) == Raise(t) \/ GiveUp(t) \/ Stop(t)

LEMMA EffectOfEnd ==
  ASSUME Shape, NEW t \in Threads, Ends(t)
  PROVE  /\ proc[t].pc \in {"wait", "stop"} /\ proc'[t].pc = "idle"
         /\ DOMAIN proc' = Threads /\ DOMAIN proc'[t] = Fields
         /\ \A u \in Threads : u # t => proc'[u] = proc[u]
         /\ procLock' = procLock \/ (Locked(proc[t]) /\ procLock' = None /\ proc[t].pc = "stop")
         /\ astray' = astray
  BY DEF Ends, Raise, GiveUp, Stop, Shape, Idle, Fields, history

\* What a procedure that ends leaves as it is; it may drop a response.
LEMMA EndKeeps ==
  ASSUME Shape, NEW t \in Threads, Ends(t)
  PROVE  /\ UNCHANGED <<scenario, indicating, terminated, mtu, toServer, toClient, attrs, prepared,
                        sent, sender, astray>>
         /\ queue' = queue \/ (queue # <<>> /\ queue' = Tail(queue))
         /\ Items(queue') \subseteq Items(queue)
<1>1. /\ UNCHANGED <<scenario, indicating, terminated, mtu, toServer, toClient, attrs, prepared,
                     sent, sender, astray>>
      /\ queue' = queue \/ (queue # <<>> /\ queue' = Tail(queue))
  BY DEF Ends, Raise, GiveUp, Stop, server, history
<1>2. CASE queue' = queue
  BY <1>1, <1>2 DEF Items
<1>3. CASE queue # <<>> /\ queue' = Tail(queue)
  BY <1>1, <1>3, TailItem DEF Shape
<1> QED
  BY <1>1, <1>2, <1>3

LEMMA FlowOfThread ==
  ASSUME Flow, NEW t \in Threads, Call(t) \/ Begin(t) \/ Ends(t)
  PROVE  FlowKept /\ UNCHANGED <<sent, sender, astray>>
<1>1. DOMAIN proc' = Threads /\ \A u \in Threads : DOMAIN proc'[u] = Fields
  BY EffectOfCall, EffectOfBegin, EffectOfEnd DEF Flow, Shape
<1>2. /\ UNCHANGED <<toServer, toClient, sent, sender, astray>>
      /\ queue' = queue \/ (queue # <<>> /\ queue' = Tail(queue))
  <2>1. CASE Call(t) \/ Begin(t)
    BY <2>1 DEF Call, Begin, history
  <2>2. CASE Ends(t)
    BY <2>2, EndKeeps DEF Flow
  <2> QED
    BY <2>1, <2>2
<1> QED
  BY <1>1, <1>2, FlowSame, FlowOfHead

\* The callback of an indication touches none of these.
LEMMA FlowOfRest ==
  ASSUME Flow, OnPdu \/ CallbackReturns \/ Server \/ Indicate \/ Disconnect \/ UNCHANGED vars
  PROVE  FlowKept /\ Elsewhere /\ UNCHANGED <<procLock, astray>>
<1>1. UNCHANGED <<procLock, astray>>
  BY DEF OnPdu, CallbackReturns, Server, OnRead, OnReadBlob, OnWrite, OnWriteCommand, Refuse,
         OnPrepareWrite, OnExecuteWrite, OnExchangeMtu, OnDiscover, Indicate, Disconnect, vars,
         client, history
<1>2. CASE CallbackReturns \/ UNCHANGED vars
  <2>1. UNCHANGED <<proc, queue, toServer, toClient, sent, sender>>
    BY <1>2 DEF CallbackReturns, vars, history
  <2>2. DOMAIN proc' = Threads /\ \A t \in Threads : DOMAIN proc'[t] = Fields
    BY <2>1 DEF Flow, Shape
  <2> QED
    BY <1>1, <2>1, <2>2, FlowSame DEF Elsewhere
<1>3. CASE OnPdu
  <2>1. Elsewhere
    BY <1>3 DEF OnPdu, Elsewhere, history
  <2> QED
    BY <1>1, <1>3, <2>1, FlowOfPdu
<1> QED
  BY <1>1, <1>2, <1>3, FlowOfServer, FlowOfOthers

LEMMA FlowStep ==
  ASSUME Flow, [Next]_vars
  PROVE  Flow'
<1>1. CASE \E t \in Threads : Call(t) \/ Begin(t) \/ Ends(t)
  BY <1>1, FlowOfThread DEF FlowKept
<1>2. CASE \E t \in Threads : Send(t) \/ Take(t)
  BY <1>2, FlowOfSend, FlowOfTake DEF FlowKept
<1>3. CASE OnPdu \/ CallbackReturns \/ Server \/ Indicate \/ Disconnect \/ UNCHANGED vars
  BY <1>3, FlowOfRest DEF FlowKept
<1> QED
  BY <1>1, <1>2, <1>3 DEF Next, Procedure, Ends

LEMMA ControlNext ==
  ASSUME Flow, Control, [Next]_vars
  PROVE  Control'
<1>0. Shape /\ \A t \in Threads : Controlled(t)
  BY DEF Flow, Control
<1>1. ASSUME NEW t \in Threads, procLock' \in Threads \cup {None},
             \A u \in Threads : u # t => proc'[u] = proc[u],
             \A u \in Threads : u # t => (procLock' = u <=> procLock = u),
             Controlled(t)'
      PROVE  Control'
  BY <1>0, <1>1 DEF Control, Controlled
<1>2. ASSUME NEW t \in Threads, Call(t) PROVE Control'
  <2>1. procLock' = procLock
    BY <1>2 DEF Call
  <2> QED
    BY <1>0, <1>1, <1>2, <2>1, EffectOfCall DEF Control, Controlled, Active
<1>3. ASSUME NEW t \in Threads, Begin(t) PROVE Control'
  <2>1. Controlled(t)'
    BY <1>0, <1>3, EffectOfBegin, ThreadNumbers DEF Controlled, Active
  <2>2. /\ procLock' \in Threads \cup {None}
        /\ \A u \in Threads : u # t => proc'[u] = proc[u]
        /\ \A u \in Threads : u # t => (procLock' = u <=> procLock = u)
    BY <1>0, <1>3, EffectOfBegin, ThreadNumbers
  <2> QED
    BY <1>1, <2>1, <2>2
<1>4. ASSUME NEW t \in Threads, Send(t) PROVE Control'
  <2>1. Controlled(t)'
    BY <1>0, <1>4, EffectOfSend DEF Controlled, Active, Locked
  <2> QED
    BY <1>0, <1>1, <1>4, <2>1, EffectOfSend DEF Control
<1>5. ASSUME NEW t \in Threads, Take(t) PROVE Control'
  <2>1. PICK m : m = Head(queue)
    OBVIOUS
  <2>2. Controlled(t)'
    BY <1>0, <1>5, <2>1, EffectOfTake DEF Controlled, Active, Locked
  <2> QED
    BY <1>0, <1>1, <1>5, <2>1, <2>2, EffectOfTake DEF Control
<1>6. ASSUME NEW t \in Threads, Ends(t) PROVE Control'
  <2>1. Controlled(t)'
    BY <1>0, <1>6, EffectOfEnd, ThreadNumbers DEF Controlled, Active
  <2>2. /\ procLock' \in Threads \cup {None}
        /\ \A u \in Threads : u # t => (procLock' = u <=> procLock = u)
    BY <1>0, <1>6, EffectOfEnd, ThreadNumbers DEF Control, Controlled, Active
  <2> QED
    BY <1>0, <1>1, <1>6, <2>1, <2>2, EffectOfEnd
<1>7. CASE OnPdu \/ CallbackReturns \/ Server \/ Indicate \/ Disconnect \/ UNCHANGED vars
  BY <1>7, FlowOfRest DEF Elsewhere, Control, Controlled
<1> QED
  BY <1>2, <1>3, <1>4, <1>5, <1>6, <1>7 DEF Next, Procedure, Ends

-----------------------------------------------------------------------------
(***************************************************************************)
(* Whose response.  As long as no procedure is given a stray error, what   *)
(* locked procedures have sent and not received is the request of the      *)
(* lock's holder, or of one that left with the lock.                       *)
(***************************************************************************)
Awaits(i) ==
  \E t \in Threads :
    /\ procLock = t
    /\ proc[t].pc \in {"idle", "lock"} \/ (proc[t].pc = "wait" /\ proc[t].own = i)

Ours == ~astray => \A i \in InFlight : sender[i] \notin Unlocked => Awaits(i)

GattInv == Flow /\ Control /\ Ours /\ OwnResponse

\* What ends or continues a locked procedure answers its request.
LEMMA TakesOwn ==
  ASSUME Flow, Control, Ours, NEW t \in Threads, Take(t), NEW m, m = Head(queue),
         procLock = t, Relevant(proc[t], m), ~astray'
  PROVE  m.id = proc[t].own /\ m.id \in InFlight
<1>1. proc[t].pc = "wait" /\ Locked(proc[t]) /\ proc[t].kind # "write_command"
  BY EffectOfTake DEF Flow, Control, Controlled, Active
<1>2. m \in Items(queue) /\ queue # <<>>
  BY TailItem DEF Take, Flow, Shape
<1>3. FromSender(m)
  BY <1>2 DEF Flow, Typed
<1>4. ~astray /\ ~(m.type = "error" /\ sender[m.id] \in Unlocked)
  BY <1>1, EffectOfTake DEF Flow
<1>5. RequestType(proc[t]) \notin Unlocked
  BY <1>1 DEF RequestType, Unlocked, Locked
<1>6. sender[m.id] \notin Unlocked
  BY <1>3, <1>4, <1>5 DEF FromSender, Relevant
<1>7. m.id \in InFlight
  BY FlowOfTake
<1>8. PICK u \in Threads : /\ procLock = u
                           /\ proc[u].pc \in {"idle", "lock"}
                                \/ (proc[u].pc = "wait" /\ proc[u].own = m.id)
  BY <1>4, <1>6, <1>7 DEF Ours, Awaits
<1> QED
  BY <1>1, <1>7, <1>8

LEMMA OursNext ==
  ASSUME Flow, Control, Ours, [Next]_vars
  PROVE  Ours'
<1>0. Shape /\ \A t \in Threads : Controlled(t)
  BY DEF Flow, Control
<1>1. ASSUME ~astray', NEW i \in InFlight', sender'[i] \notin Unlocked,
             i \in InFlight /\ sender'[i] = sender[i] /\ ~astray,
             \A u \in Threads :
               /\ procLock = u
               /\ proc[u].pc \in {"idle", "lock"} \/ (proc[u].pc = "wait" /\ proc[u].own = i)
               => /\ procLock' = u
                  /\ proc'[u].pc \in {"idle", "lock"} \/ (proc'[u].pc = "wait" /\ proc'[u].own = i)
      PROVE  Awaits(i)'
  BY <1>1 DEF Ours, Awaits
<1>2. ASSUME NEW t \in Threads, Call(t) PROVE Ours'
  <2>1. procLock' = procLock
    BY <1>2 DEF Call
  <2> QED
    BY <1>0, <1>1, <1>2, <2>1, FlowOfThread, EffectOfCall DEF Ours, FlowKept
<1>3. ASSUME NEW t \in Threads, Begin(t) PROVE Ours'
  <2>1. procLock = None
    BY <1>0, <1>3, EffectOfBegin
  <2> QED
    BY <1>3, <2>1, FlowOfThread, ThreadNumbers DEF Ours, Awaits, FlowKept
<1>4. ASSUME NEW t \in Threads, Ends(t) PROVE Ours'
  <2>1. \A u \in Threads : procLock = u /\ procLock' # u =>
          u = t /\ proc[t].pc = "stop"
    BY <1>0, <1>4, EffectOfEnd, ThreadNumbers DEF Controlled, Active
  <2> QED
    BY <1>0, <1>1, <1>4, <2>1, FlowOfThread, EffectOfEnd DEF Ours, FlowKept
<1>5. ASSUME NEW t \in Threads, Send(t) PROVE Ours'
  <2> SUFFICES ASSUME ~astray', NEW i \in InFlight', sender'[i] \notin Unlocked PROVE Awaits(i)'
    BY DEF Ours
  <2>1. /\ proc[t].pc = "send" /\ procLock' = procLock /\ astray' = astray
        /\ \A u \in Threads : u # t => proc'[u] = proc[u]
    BY <1>0, <1>5, EffectOfSend
  <2>2. CASE i = sent + 1
    <3>1. proc[t].kind \notin Unlocked
      BY <1>5, <2>2, FlowOfSend
    <3>2. proc'[t].pc = "wait" /\ proc'[t].own = i /\ procLock = t
      BY <1>0, <1>5, <2>1, <2>2, <3>1, EffectOfSend DEF Unlocked, Controlled, Active, Locked
    <3> QED
      BY <2>1, <3>2 DEF Awaits
  <2>3. CASE i # sent + 1
    <3>1. i \in InFlight /\ sender'[i] = sender[i]
      BY <1>5, <2>3, FlowOfSend, NumbersOf
    <3> QED
      BY <1>1, <2>1, <3>1
  <2> QED
    BY <2>2, <2>3
<1>6. ASSUME NEW t \in Threads, Take(t) PROVE Ours'
  <2> SUFFICES ASSUME ~astray', NEW i \in InFlight', sender'[i] \notin Unlocked PROVE Awaits(i)'
    BY DEF Ours
  <2>1. PICK m : m = Head(queue)
    OBVIOUS
  <2>2. i \in InFlight /\ sender'[i] = sender[i] /\ i # m.id
    BY <1>6, <2>1, FlowOfTake DEF FlowKept, Take
  <2>3. ~astray /\ procLock' = procLock /\ \A u \in Threads : u # t => proc'[u] = proc[u]
    BY <1>0, <1>6, <2>1, EffectOfTake
  <2>4. procLock = t /\ proc[t].own = i => proc'[t] = proc[t]
    BY <1>0, <1>6, <2>1, <2>2, TakesOwn, EffectOfTake
  <2>5. proc[t].pc = "wait"
    BY <1>0, <1>6, <2>1, EffectOfTake
  <2> QED
    BY <1>1, <2>2, <2>3, <2>4, <2>5
<1>7. CASE OnPdu \/ CallbackReturns \/ Server \/ Indicate \/ Disconnect \/ UNCHANGED vars
  BY <1>1, <1>7, FlowOfRest DEF Elsewhere, Ours, FlowKept
<1> QED
  BY <1>2, <1>3, <1>4, <1>5, <1>6, <1>7 DEF Next, Procedure, Ends

LEMMA OwnNext ==
  ASSUME GattInv, [Next]_vars
  PROVE  OwnResponse'
<1>0. Shape /\ \A t \in Threads : Controlled(t)
  BY DEF GattInv, Flow, Control
<1>1. ASSUME NEW t \in Threads, astray => astray',
             \A u \in Threads : u # t => proc'[u] = proc[u],
             proc'[t].pc = "stop" /\ Locked(proc'[t]) /\ proc'[t].taken # 0 /\ ~astray'
               => proc'[t].taken = proc'[t].own
      PROVE  OwnResponse'
  BY <1>1 DEF GattInv, OwnResponse
<1>2. ASSUME NEW t \in Threads, Call(t) \/ Ends(t) PROVE OwnResponse'
  BY <1>0, <1>1, <1>2, EffectOfCall, EffectOfEnd, FlowOfThread DEF GattInv
<1>3. ASSUME NEW t \in Threads, Begin(t) PROVE OwnResponse'
  <2>1. proc'[t].taken = 0
    BY <1>0, <1>3, EffectOfBegin DEF Controlled
  <2> QED
    BY <1>0, <1>1, <1>3, <2>1, EffectOfBegin, FlowOfThread DEF GattInv
<1>4. ASSUME NEW t \in Threads, Send(t) PROVE OwnResponse'
  <2>1. proc'[t].pc = "stop" => proc'[t].taken = 0
    BY <1>0, <1>4, EffectOfSend DEF Controlled
  <2> QED
    BY <1>0, <1>1, <1>4, <2>1, EffectOfSend
<1>5. ASSUME NEW t \in Threads, Take(t) PROVE OwnResponse'
  <2>1. PICK m : m = Head(queue)
    OBVIOUS
  <2>2. ASSUME proc'[t].pc = "stop", Locked(proc'[t]), ~astray' PROVE proc'[t].taken = proc'[t].own
    <3>1. proc[t].pc = "wait" /\ Relevant(proc[t], m) /\ Locked(proc[t])
          /\ proc'[t].taken = m.id /\ proc'[t].own = proc[t].own
      BY <1>0, <1>5, <2>1, <2>2, EffectOfTake DEF Locked
    <3>2. procLock = t
      BY <1>0, <3>1 DEF Controlled, Active
    <3> QED
      BY <1>5, <2>1, <2>2, <3>1, <3>2, TakesOwn DEF GattInv
  <2>3. (astray => astray') /\ \A u \in Threads : u # t => proc'[u] = proc[u]
    BY <1>0, <1>5, <2>1, EffectOfTake
  <2> QED
    BY <1>1, <2>2, <2>3
<1>6. CASE OnPdu \/ CallbackReturns \/ Server \/ Indicate \/ Disconnect \/ UNCHANGED vars
  BY <1>6, FlowOfRest DEF GattInv, Elsewhere, OwnResponse
<1> QED
  BY <1>2, <1>3, <1>4, <1>5, <1>6 DEF Next, Procedure, Ends

LEMMA GattInvInit == Init => GattInv
<1> SUFFICES ASSUME Init PROVE GattInv
  OBVIOUS
<1>1. /\ procLock = None /\ proc = [t \in Threads |-> Idle] /\ queue = <<>>
      /\ toServer = <<>> /\ toClient = <<>> /\ sender = <<>> /\ sent = 0
  BY DEF Init
<1>2. Flow /\ InFlight = {}
  BY <1>1, EmptyItems DEF Flow, Shape, InOnePlace, Typed, InFlight, Idle, Fields
<1>3. Control
  BY <1>1, ThreadNumbers DEF Control, Controlled, Idle, Active
<1>4. Ours /\ OwnResponse
  BY <1>1, <1>2 DEF Ours, OwnResponse, Idle
<1> QED
  BY <1>2, <1>3, <1>4 DEF GattInv

\* A procedure that holds the procedure lock never ends with the response to
\* another one's request, until it is given an error meant for no locked
\* procedure: for any number of threads, whatever they call, time out on or
\* lose, and whatever the server answers and when.
THEOREM ResponsesOwned == Spec => []OwnResponse
<1>1. GattInv => OwnResponse
  BY DEF GattInv
<1>2. GattInv /\ [Next]_vars => GattInv'
  BY FlowStep, ControlNext, OursNext, OwnNext DEF GattInv
<1> QED
  BY GattInvInit, <1>1, <1>2, PTL DEF Spec

-----------------------------------------------------------------------------
(***************************************************************************)
(* The data.  Where the prepared writes end and what applying them leaves: *)
(* the values after each write exist as a function, by the least number at *)
(* which one would be missing, and the writes that cover a value leave it. *)
(***************************************************************************)
LEMMA Least ==
  ASSUME NEW T, T \subseteq Nat, T # {}
  PROVE  \E x \in T : \A y \in T : x <= y
<1> DEFINE R == {ss \in Nat \X Nat : ss[1] < ss[2]}
<1>1. IsWellFoundedOn(R, Nat)
  BY NatLessThanWellFounded, Zenon DEF OpToRel
<1> HIDE DEF R
<1>2. PICK x \in T : \A y \in T : ~ (<<y, x>> \in R)
  BY <1>1, WFMin
<1>3. \A y \in T : ~ (y < x)
  BY <1>2 DEF R
<1> QED
  BY <1>3

\* A value is bytes.
LEMMA Types ==
  ASSUME NEW v \in Values
  PROVE  Len(v) \in Nat /\ \A i \in 1..Len(v) : v[i] \in Nat
  BY LenProperties, ElementOfSeq DEF Values

\* A part of a value is a value: its length and its bytes.
LEMMA Part ==
  ASSUME NEW v \in Values, NEW a \in Nat, NEW z \in Nat, z <= Len(v)
  PROVE  /\ SubSeq(v, a + 1, z) \in Values
         /\ Len(SubSeq(v, a + 1, z)) = IF a <= z THEN z - a ELSE 0
         /\ \A i \in 1..(z - a) : SubSeq(v, a + 1, z)[i] = v[a + i]
<1>1. \A i \in (a + 1)..z : v[i] \in Nat
  BY Types
<1>2. a + 1 \in Int /\ z \in Int
  OBVIOUS
<1> PICK r : r = SubSeq(v, a + 1, z)
  OBVIOUS
<1>3. /\ r \in Seq(Nat) /\ Len(r) = IF a + 1 <= z THEN z - (a + 1) + 1 ELSE 0
      /\ \A i \in 1..(z - (a + 1) + 1) : r[i] = v[a + 1 + i - 1]
  BY <1>1, <1>2, SubSeqProperties
<1>4. r \in Values /\ Len(r) = IF a <= z THEN z - a ELSE 0
  BY <1>3 DEF Values
<1>5. \A i \in 1..(z - a) : r[i] = v[a + i]
  BY <1>3
<1> QED
  BY <1>4, <1>5

\* The first n bytes of a value.
LEMMA Front ==
  ASSUME NEW v \in Values, NEW n \in Nat, n <= Len(v)
  PROVE  /\ SubSeq(v, 1, n) \in Values /\ Len(SubSeq(v, 1, n)) = n
         /\ \A i \in 1..n : SubSeq(v, 1, n)[i] = v[i]
<1>1. 0 \in Nat /\ 0 + 1 = 1 /\ n - 0 = n /\ 0 <= n /\ \A i \in 1..n : 0 + i = i
  OBVIOUS
<1>2. /\ SubSeq(v, 0 + 1, n) \in Values
      /\ Len(SubSeq(v, 0 + 1, n)) = IF 0 <= n THEN n - 0 ELSE 0
      /\ \A i \in 1..(n - 0) : SubSeq(v, 0 + 1, n)[i] = v[0 + i]
  BY <1>1, Part
<1> QED
  BY <1>1, <1>2

\* A slice is a value of at most the length asked for.
LEMMA Slices ==
  ASSUME NEW v \in Values, NEW a \in Nat, NEW n \in Nat
  PROVE  /\ Slice(v, a, n) \in Values
         /\ Slice(v, a, n) = SubSeq(v, a + 1, Smaller(a + n, Len(v)))
         /\ Smaller(a + n, Len(v)) \in Nat /\ Smaller(a + n, Len(v)) <= Len(v)
         /\ Len(Slice(v, a, n)) <= n
         /\ a <= Len(v) => Len(Slice(v, a, n)) = Smaller(a + n, Len(v)) - a
<1>1. /\ Smaller(a + n, Len(v)) \in Nat /\ Smaller(a + n, Len(v)) <= Len(v)
      /\ Smaller(a + n, Len(v)) <= a + n
      /\ a <= Len(v) => a <= Smaller(a + n, Len(v))
  BY Types DEF Smaller
<1> PICK z : z = Smaller(a + n, Len(v))
  OBVIOUS
<1>2. Slice(v, a, n) = SubSeq(v, a + 1, z)
  BY DEF Slice
<1>3. z \in Nat /\ z <= Len(v) /\ z <= a + n /\ (a <= Len(v) => a <= z)
  BY <1>1
<1>4. /\ SubSeq(v, a + 1, z) \in Values
      /\ Len(SubSeq(v, a + 1, z)) = IF a <= z THEN z - a ELSE 0
  BY <1>3, Part
<1> QED
  BY <1>2, <1>3, <1>4

\* Prefix, byte by byte.
LEMMA Prefixes ==
  ASSUME NEW v \in Values, NEW w \in Values
  PROVE  Prefix(v, w) <=> (Len(v) <= Len(w) /\ \A i \in 1..Len(v) : w[i] = v[i])
<1>1. Len(v) \in Nat /\ Len(w) \in Nat
  BY Types
<1>2. CASE Len(v) <= Len(w)
  <2> PICK r : r = SubSeq(w, 1, Len(v))
    OBVIOUS
  <2>1. /\ r \in Values /\ Len(r) = Len(v) /\ \A i \in 1..Len(v) : r[i] = w[i]
    <3>1. 0 + 1 = 1 /\ 0 \in Nat /\ Len(v) - 0 = Len(v) /\ \A i \in 1..Len(v) : 0 + i = i
      BY <1>1
    <3> QED
      BY <1>1, <1>2, <3>1, Part
  <2>2. r = v <=> \A i \in 1..Len(v) : r[i] = v[i]
    BY <2>1, SeqEqual DEF Values
  <2> QED
    BY <1>2, <2>1, <2>2 DEF Prefix
<1>3. CASE ~(Len(v) <= Len(w))
  BY <1>3 DEF Prefix
<1> QED
  BY <1>2, <1>3

Join(a, x) == a \o x

\* What one value followed by another is.
LEMMA Joined ==
  ASSUME NEW a \in Values, NEW x \in Values
  PROVE  /\ Join(a, x) \in Values /\ Len(Join(a, x)) = Len(a) + Len(x)
         /\ \A i \in 1..Len(a) : Join(a, x)[i] = a[i]
         /\ \A i \in 1..Len(x) : Join(a, x)[Len(a) + i] = x[i]
<1> PICK q : q = Join(a, x)
  OBVIOUS
<1>1. /\ q \in Seq(Nat) /\ Len(q) = Len(a) + Len(x)
      /\ \A i \in 1..(Len(a) + Len(x)) : q[i] = IF i <= Len(a) THEN a[i] ELSE x[i - Len(a)]
  BY ConcatProperties DEF Values, Join
<1>2. Len(a) \in Nat /\ Len(x) \in Nat
  BY Types
<1>3. ASSUME NEW i \in 1..Len(x) PROVE q[Len(a) + i] = x[i]
  <2>1. Len(a) + i \in 1..(Len(a) + Len(x)) /\ ~(Len(a) + i <= Len(a)) /\ Len(a) + i - Len(a) = i
    BY <1>2
  <2> DEFINE k == Len(a) + i
  <2>2. k \in 1..(Len(a) + Len(x)) /\ ~(k <= Len(a)) /\ k - Len(a) = i
    BY <2>1
  <2> HIDE DEF k
  <2>3. q[k] = x[k - Len(a)]
    BY <1>1, <2>2
  <2> QED
    BY <2>2, <2>3 DEF k
<1>4. \A i \in 1..Len(a) : q[i] = a[i]
  BY <1>1, <1>2
<1> QED
  BY <1>1, <1>3, <1>4 DEF Values

\* A write inside a value, or at its end, leaves the bytes before it and puts its own.
LEMMA Patching ==
  ASSUME NEW v \in Values, NEW w \in Writes
  PROVE  /\ Patch(v, w) \in Values
         /\ w.offset <= Len(v) =>
              /\ w.offset + Len(w.value) <= Len(Patch(v, w))
              /\ \A i \in 1..w.offset : Patch(v, w)[i] = v[i]
              /\ \A i \in 1..Len(w.value) : Patch(v, w)[w.offset + i] = w.value[i]
<1> DEFINE a == Slice(v, 0, w.offset)
           d == Drop(v, w.offset + Len(w.value))
           x == w.value
           o == w.offset
<1>1. x \in Values /\ o \in Nat /\ Len(x) \in Nat /\ Len(v) \in Nat
  BY Types DEF Writes
<1>2. a \in Values /\ (o <= Len(v) => Len(a) = o /\ \A i \in 1..o : a[i] = v[i])
  <2>1. a \in Values /\ a = SubSeq(v, 0 + 1, Smaller(0 + o, Len(v)))
    BY <1>1, Slices
  <2>2. o <= Len(v) => Smaller(0 + o, Len(v)) = o
    BY <1>1 DEF Smaller
  <2>3. o <= Len(v) => Len(SubSeq(v, 0 + 1, o)) = o /\ \A i \in 1..o : SubSeq(v, 0 + 1, o)[i] = v[i]
    <3>1. 0 \in Nat /\ o - 0 = o /\ 0 <= o /\ \A i \in 1..o : 0 + i = i
      BY <1>1
    <3> QED
      BY <1>1, <3>1, Part
  <2> QED
    BY <2>1, <2>2, <2>3
<1>3. d \in Values
  <2>1. o + Len(x) \in Nat /\ Len(v) <= Len(v)
    BY <1>1
  <2> HIDE DEF x, o
  <2>2. SubSeq(v, o + Len(x) + 1, Len(v)) \in Values
    BY <1>1, <2>1, Part
  <2> QED
    BY <2>2 DEF Drop, x, o
<1>4. Patch(v, w) = Join(Join(a, x), d)
  BY DEF Patch, Join
<1> HIDE DEF a, d, x, o
<1> PICK q : q = Join(a, x)
  OBVIOUS
<1> PICK r : r = Join(q, d)
  OBVIOUS
<1>5. /\ q \in Values /\ Len(q) = Len(a) + Len(x)
      /\ \A i \in 1..Len(a) : q[i] = a[i]
      /\ \A i \in 1..Len(x) : q[Len(a) + i] = x[i]
  <2>1. q \in Values /\ Len(q) = Len(a) + Len(x)
    BY <1>1, <1>2, Joined
  <2>2. \A i \in 1..Len(a) : q[i] = a[i]
    BY <1>1, <1>2, Joined
  <2>3. \A i \in 1..Len(x) : q[Len(a) + i] = x[i]
    BY <1>1, <1>2, Joined
  <2> QED
    BY <2>1, <2>2, <2>3
<1>6. r \in Values /\ Len(r) = Len(q) + Len(d) /\ \A i \in 1..Len(q) : r[i] = q[i]
  <2>1. r \in Values /\ Len(r) = Len(q) + Len(d)
    BY <1>3, <1>5, Joined
  <2>2. q \in Values /\ d \in Values
    BY <1>3, <1>5
  <2>3. \A i \in 1..Len(q) : Join(q, d)[i] = q[i]
    BY <2>2, Joined
  <2> QED
    BY <2>1, <2>3
<1>7. Len(a) \in Nat /\ Len(d) \in Nat
  BY <1>2, <1>3, Types
<1>8. ASSUME o <= Len(v)
      PROVE  /\ o + Len(x) <= Len(r) /\ \A i \in 1..o : r[i] = v[i]
             /\ \A i \in 1..Len(x) : r[o + i] = x[i]
  <2>1. Len(a) = o /\ \A i \in 1..o : a[i] = v[i]
    BY <1>2, <1>8
  <2>2. \A i \in 1..o : r[i] = v[i]
    BY <1>1, <1>5, <1>6, <2>1
  <2>3. \A i \in 1..Len(x) : o + i \in 1..Len(q) /\ q[o + i] = x[i]
    BY <1>1, <1>5, <2>1
  <2> QED
    BY <1>1, <1>5, <1>6, <1>7, <2>1, <2>2, <2>3
<1> QED
  BY <1>4, <1>6, <1>8 DEF x, o

-----------------------------------------------------------------------------
(* The prepared writes, applied in their order: f is the value after each. *)
Steps(f, v, ws, n) == f = [i \in 0..n |-> IF i = 0 THEN v ELSE Patch(f[i - 1], ws[i])]

\* The values after each write exist: there is no least number of writes without.
LEMMA StepsExist ==
  ASSUME NEW v, NEW ws, NEW n \in Nat
  PROVE  \E f : Steps(f, v, ws, n)
<1> DEFINE T == {k \in Nat : ~ \E f : Steps(f, v, ws, k)}
<1> SUFFICES ASSUME T # {} PROVE FALSE
  OBVIOUS
<1>1. PICK k \in T : \A y \in T : k <= y
  BY Least
<1>2. k \in Nat /\ ~ \E f : Steps(f, v, ws, k)
  OBVIOUS
<1>3. k # 0
  <2> DEFINE f == [i \in 0..0 |-> v]
  <2>1. Steps(f, v, ws, 0)
    BY DEF Steps
  <2> QED
    BY <1>2, <2>1
<1>4. PICK g : Steps(g, v, ws, k - 1)
  <2>1. k - 1 \in Nat /\ k - 1 \notin T
    BY <1>1, <1>2, <1>3
  <2> QED
    BY <2>1
<1> HIDE DEF T
<1> DEFINE f == [i \in 0..k |-> IF i = k THEN Patch(g[k - 1], ws[k]) ELSE g[i]]
<1>5. /\ DOMAIN g = 0..(k - 1)
      /\ \A i \in 0..(k - 1) : g[i] = IF i = 0 THEN v ELSE Patch(g[i - 1], ws[i])
  BY <1>4 DEF Steps
<1>6. ASSUME NEW i \in 0..k PROVE f[i] = IF i = 0 THEN v ELSE Patch(f[i - 1], ws[i])
  <2>1. CASE i = 0
    BY <1>2, <1>3, <1>5, <2>1
  <2>2. CASE i # 0
    <3>1. i - 1 \in 0..k /\ i - 1 # k /\ f[i - 1] = g[i - 1]
      BY <1>2, <2>2
    <3>2. CASE i = k
      BY <2>2, <3>1, <3>2
    <3>3. CASE i # k
      BY <1>2, <1>5, <2>2, <3>1, <3>3
    <3> QED
      BY <3>2, <3>3
  <2> QED
    BY <2>1, <2>2
<1>7. f = [i \in 0..k |-> f[i]]
  OBVIOUS
<1> HIDE DEF f
<1>8. Steps(f, v, ws, k)
  BY <1>6, <1>7 DEF Steps
<1> QED
  BY <1>2, <1>8

\* Patched is the last of these values.
LEMMA PatchedSteps ==
  ASSUME NEW v, NEW ws, Len(ws) \in Nat
  PROVE  \E f : Steps(f, v, ws, Len(ws)) /\ Patched(v, ws) = f[Len(ws)]
<1> DEFINE f == CHOOSE g : Steps(g, v, ws, Len(ws))
<1>1. Steps(f, v, ws, Len(ws))
  BY StepsExist, Zenon
<1>2. Patched(v, ws) = f[Len(ws)]
  BY Zenon DEF Patched, Steps
<1> QED
  BY <1>1, <1>2

\* Each of these values is a value.
LEMMA StepsTyped ==
  ASSUME NEW v \in Values, NEW ws \in Seq(Writes), NEW f, Steps(f, v, ws, Len(ws))
  PROVE  \A i \in 0..Len(ws) : f[i] \in Values
<1>1. Len(ws) \in Nat /\ \A i \in 1..Len(ws) : ws[i] \in Writes
  BY LenProperties, ElementOfSeq
<1>2. \A i \in 0..Len(ws) : f[i] = IF i = 0 THEN v ELSE Patch(f[i - 1], ws[i])
  BY DEF Steps
<1> DEFINE T == {i \in 0..Len(ws) : f[i] \notin Values}
<1> SUFFICES ASSUME T # {} PROVE FALSE
  BY <1>1
<1>3. PICK k \in T : \A y \in T : k <= y
  <2>1. T \subseteq Nat /\ T # {}
    BY <1>1
  <2> HIDE DEF T
  <2> QED
    BY <2>1, Least
<1>4. k \in 0..Len(ws) /\ f[k] \notin Values /\ k # 0
  BY <1>2
<1>5. k - 1 \in 0..Len(ws) /\ k \in 1..Len(ws)
  BY <1>1, <1>4
<1>6. f[k - 1] \in Values
  BY <1>1, <1>3, <1>4, <1>5
<1>7. f[k] = Patch(f[k - 1], ws[k]) /\ ws[k] \in Writes
  BY <1>1, <1>2, <1>4, <1>5
<1> QED
  BY <1>4, <1>6, <1>7, Patching

\* Applying prepared writes to a value leaves a value.
LEMMA PatchedTyped ==
  ASSUME NEW v \in Values, NEW ws \in Seq(Writes)
  PROVE  Patched(v, ws) \in Values
<1>1. Len(ws) \in Nat
  BY LenProperties
<1>2. PICK f : Steps(f, v, ws, Len(ws)) /\ Patched(v, ws) = f[Len(ws)]
  BY <1>1, PatchedSteps
<1> QED
  BY <1>1, <1>2, StepsTyped

\* The writes that cover a value leave it at the start of what they patch.
LEMMA PatchedCovered ==
  ASSUME NEW u \in Values, NEW ws \in Seq(Writes), NEW v \in Values, NEW n \in Nat,
         Covers(ws, v, n)
  PROVE  Prefix(SubSeq(v, 1, n), Patched(u, ws))
<1>1. Len(ws) \in Nat /\ \A i \in 1..Len(ws) : ws[i] \in Writes
  BY LenProperties, ElementOfSeq
<1>2. PICK f : Steps(f, u, ws, Len(ws)) /\ Patched(u, ws) = f[Len(ws)]
  BY <1>1, PatchedSteps
<1>3. \A i \in 0..Len(ws) : f[i] = IF i = 0 THEN u ELSE Patch(f[i - 1], ws[i])
  BY <1>2 DEF Steps
<1> DEFINE e(i) == End(ws, n, i)
<1>4. PICK b \in 0..Len(ws) :
        /\ e(b) = 0 /\ n <= Len(v)
        /\ \A i \in (b + 1)..Len(ws) :
             e(i - 1) <= e(i) /\ e(i) <= Len(v) /\ ws[i].value = SubSeq(v, e(i - 1) + 1, e(i))
  BY DEF Covers
<1>5. \A i \in 0..Len(ws) : e(i) \in Nat /\ (i # Len(ws) => e(i) = ws[i + 1].offset)
  BY <1>1 DEF End, Writes
<1>6. e(Len(ws)) = n
  BY DEF End
<1> HIDE DEF e
<1> DEFINE Good(i) == /\ f[i] \in Values /\ e(i) <= Len(f[i])
                      /\ \A j \in 1..e(i) : f[i][j] = v[j]
           T == {i \in b..Len(ws) : ~Good(i)}
<1>7. T = {}
  <2> SUFFICES ASSUME T # {} PROVE FALSE
    OBVIOUS
  <2>1. T \subseteq Nat /\ T # {}
    BY <1>1
  <2>2. PICK k \in T : \A y \in T : k <= y
    <3> HIDE DEF T
    <3> QED
      BY <2>1, Least
  <2>3. k \in b..Len(ws) /\ k \in 0..Len(ws) /\ k \in Nat /\ ~Good(k)
    BY <1>1
  <2>4. \A i \in 0..Len(ws) : f[i] \in Values
    BY <1>1, <1>2, StepsTyped
  <2>5. CASE k = b
    BY <1>4, <2>3, <2>4, <2>5, Types
  <2>6. CASE k # b
    <3>1. k \in (b + 1)..Len(ws) /\ k \in 1..Len(ws) /\ k - 1 \in b..Len(ws) /\ k - 1 \in 0..Len(ws)
      BY <1>1, <2>3, <2>6
    <3>2. Good(k - 1)
      BY <2>2, <2>3, <3>1
    <3>3. /\ e(k - 1) <= e(k) /\ e(k) <= Len(v)
          /\ ws[k].value = SubSeq(v, e(k - 1) + 1, e(k)) /\ ws[k].offset = e(k - 1)
          /\ e(k) \in Nat /\ e(k - 1) \in Nat
      <4>1. k - 1 # Len(ws) /\ k - 1 + 1 = k
        BY <1>1, <3>1
      <4>2. /\ e(k - 1) <= e(k) /\ e(k) <= Len(v)
            /\ ws[k].value = SubSeq(v, e(k - 1) + 1, e(k))
        BY <1>4, <3>1
      <4>3. e(k - 1) \in Nat /\ e(k - 1) = ws[(k - 1) + 1].offset
        BY <1>5, <3>1, <4>1
      <4>4. e(k) \in Nat
        BY <1>5, <3>1, <2>3
      <4> QED
        BY <4>1, <4>2, <4>3, <4>4
    <3>x. PICK x : x = ws[k]
      OBVIOUS
    <3>a. PICK a, z : a = e(k - 1) /\ z = e(k)
      OBVIOUS
    <3>g. PICK g, h : g = f[k - 1] /\ h = f[k]
      OBVIOUS
    <3>4. /\ a \in Nat /\ z \in Nat /\ z <= Len(v) /\ a <= z
          /\ x.value = SubSeq(v, a + 1, z) /\ x.offset = a
      BY <3>3, <3>x, <3>a
    <3> HIDE DEF T
    <3>5. /\ Len(x.value) = z - a
          /\ \A j \in 1..(z - a) : x.value[j] = v[a + j]
      <4>1. /\ Len(SubSeq(v, a + 1, z)) = IF a <= z THEN z - a ELSE 0
            /\ \A j \in 1..(z - a) : SubSeq(v, a + 1, z)[j] = v[a + j]
        BY <3>4, Part
      <4> QED
        BY <3>4, <4>1
    <3>6. g \in Values /\ a <= Len(g) /\ \A j \in 1..a : g[j] = v[j]
      BY <3>2, <3>a, <3>g
    <3>7. /\ h \in Values /\ a + Len(x.value) <= Len(h)
          /\ \A j \in 1..a : h[j] = g[j]
          /\ \A j \in 1..Len(x.value) : h[a + j] = x.value[j]
      <4>1. h = Patch(g, x) /\ x \in Writes
        BY <1>1, <1>3, <2>3, <3>1, <3>x, <3>g
      <4>2. h \in Values
        BY <3>6, <4>1, Patching
      <4>3. a + Len(x.value) <= Len(h)
        BY <3>4, <3>6, <4>1, Patching
      <4>4. \A j \in 1..a : h[j] = g[j]
        BY <3>4, <3>6, <4>1, Patching
      <4>5. \A j \in 1..Len(x.value) : h[a + j] = x.value[j]
        BY <3>4, <3>6, <4>1, Patching
      <4> QED
        BY <4>2, <4>3, <4>4, <4>5
    <3>8. ASSUME NEW j \in 1..z PROVE h[j] = v[j]
      <4>1. CASE j <= a
        BY <3>4, <3>6, <3>7, <4>1
      <4>2. CASE ~(j <= a)
        <5> DEFINE i == j - a
        <5>1. i \in 1..(z - a) /\ a + i = j
          BY <3>4, <4>2
        <5> HIDE DEF i
        <5> QED
          BY <3>5, <3>7, <5>1
      <4> QED
        BY <4>1, <4>2
    <3>9. e(k) <= Len(h)
      <4>1. h \in Values /\ a + Len(x.value) <= Len(h)
        BY <3>7
      <4>2. Len(x.value) = z - a
        BY <3>5
      <4>3. Len(h) \in Nat
        BY <4>1, Types
      <4> QED
        BY <3>4, <3>a, <4>1, <4>2, <4>3
    <3>10. Good(k)
      <4>0. h \in Values
        BY <3>7
      <4>1. f[k] \in Values /\ e(k) <= Len(f[k])
        BY <3>9, <3>g, <4>0
      <4>2. \A j \in 1..e(k) : f[k][j] = v[j]
        BY <3>8, <3>a, <3>g
      <4> QED
        BY <4>1, <4>2
    <3> QED
      BY <2>3, <3>10
  <2> QED
    BY <2>5, <2>6
<1>8. Good(Len(ws))
  BY <1>1, <1>7
<1> PICK r, p : r = Patched(u, ws) /\ p = SubSeq(v, 1, n)
  OBVIOUS
<1>9. r \in Values /\ n <= Len(r) /\ \A j \in 1..n : r[j] = v[j]
  BY <1>2, <1>6, <1>8
<1>10. p \in Values /\ Len(p) = n /\ \A j \in 1..n : p[j] = v[j]
  BY <1>4, Front
<1> QED
  BY <1>9, <1>10, Prefixes

\* Nothing is covered by any writes, and by none.
LEMMA CoversNothing ==
  ASSUME NEW ws \in Seq(Writes), NEW v \in Values
  PROVE  Covers(ws, v, 0)
<1>1. Len(ws) \in Nat /\ Len(v) \in Nat
  BY LenProperties, Types
<1>2. Len(ws) \in 0..Len(ws) /\ End(ws, 0, Len(ws)) = 0 /\ 0 <= Len(v)
  BY <1>1 DEF End
<1>3. (Len(ws) + 1)..Len(ws) = {}
  BY <1>1
<1> QED
  BY <1>2, <1>3 DEF Covers

\* A prepared write that begins where the writes end, with what follows there.
LEMMA CoversMore ==
  ASSUME NEW ws \in Seq(Writes), NEW v \in Values, NEW n \in Nat, NEW m \in Nat,
         n <= m, m <= Len(v), Covers(ws, v, n),
         NEW w \in Writes, w.offset = n, w.value = SubSeq(v, n + 1, m)
  PROVE  Covers(Append(ws, w), v, m)
<1> PICK r : r = Append(ws, w)
  OBVIOUS
<1>1. /\ Len(ws) \in Nat /\ Len(r) = Len(ws) + 1 /\ r[Len(ws) + 1] = w
      /\ \A i \in 1..Len(ws) : r[i] = ws[i]
  BY LenProperties, AppendProperties
<1>2. PICK b \in 0..Len(ws) :
        /\ End(ws, n, b) = 0 /\ n <= Len(v)
        /\ \A i \in (b + 1)..Len(ws) :
             /\ End(ws, n, i - 1) <= End(ws, n, i) /\ End(ws, n, i) <= Len(v)
             /\ ws[i].value = SubSeq(v, End(ws, n, i - 1) + 1, End(ws, n, i))
  BY DEF Covers
<1>3. ASSUME NEW i \in 0..Len(ws) PROVE End(r, m, i) = End(ws, n, i)
  <2>1. i # Len(r)
    BY <1>1
  <2>2. CASE i = Len(ws)
    BY <1>1, <2>1, <2>2 DEF End
  <2>3. CASE i # Len(ws)
    <3>1. i + 1 \in 1..Len(ws)
      BY <1>1, <2>3
    <3> QED
      BY <1>1, <2>1, <2>3, <3>1 DEF End
  <2> QED
    BY <2>2, <2>3
<1>4. End(r, m, Len(r)) = m /\ End(ws, n, Len(ws)) = n
  BY DEF End
<1>5. b \in 0..Len(r) /\ End(r, m, b) = 0
  BY <1>1, <1>2, <1>3
<1>6. ASSUME NEW i \in (b + 1)..Len(r)
      PROVE  /\ End(r, m, i - 1) <= End(r, m, i) /\ End(r, m, i) <= Len(v)
             /\ r[i].value = SubSeq(v, End(r, m, i - 1) + 1, End(r, m, i))
  <2>1. CASE i = Len(r)
    <3>1. i - 1 = Len(ws) /\ Len(ws) \in 0..Len(ws) /\ r[i] = w
      BY <1>1, <2>1
    <3>2. End(r, m, i - 1) = n /\ End(r, m, i) = m
      BY <1>3, <1>4, <2>1, <3>1
    <3> QED
      BY <3>1, <3>2
  <2>2. CASE i # Len(r)
    <3>1. i \in (b + 1)..Len(ws) /\ i \in 0..Len(ws) /\ i - 1 \in 0..Len(ws) /\ i \in 1..Len(ws)
      BY <1>1, <2>2
    <3>2. End(r, m, i) = End(ws, n, i) /\ End(r, m, i - 1) = End(ws, n, i - 1) /\ r[i] = ws[i]
      BY <1>1, <1>3, <3>1
    <3> QED
      BY <1>2, <3>1, <3>2
  <2> QED
    BY <2>1, <2>2
<1> QED
  BY <1>5, <1>6 DEF Covers

\* What is covered is in the value.
LEMMA CoversWithin ==
  ASSUME NEW ws, NEW v, NEW n, Covers(ws, v, n)
  PROVE  n <= Len(v)
  BY DEF Covers

\* What a long read collects: d is the beginning of the value v, s what
\* follows, of which a response carries at most n bytes.
LEMMA Collected ==
  ASSUME NEW d \in Values, NEW v \in Values, Prefix(d, v), NEW n \in Nat,
         NEW s, s = Slice(v, Len(d), n)
  PROVE  /\ Join(d, s) \in Values /\ Prefix(Join(d, s), v)
         /\ s \in Values /\ Len(Join(d, s)) = Len(d) + Len(s)
         /\ Len(s) < n => Join(d, s) = v
<1>1. Len(d) \in Nat /\ Len(v) \in Nat /\ Len(d) <= Len(v) /\ \A i \in 1..Len(d) : v[i] = d[i]
  BY Types, Prefixes
<1> DEFINE z == Smaller(Len(d) + n, Len(v))
<1>2. /\ z \in Nat /\ z <= Len(v) /\ Len(d) <= z /\ (z - Len(d) < n => z = Len(v))
  BY <1>1 DEF Smaller
<1>3. s = SubSeq(v, Len(d) + 1, z)
  BY DEF Slice
<1> HIDE DEF z
<1>4. s \in Values /\ Len(s) = z - Len(d) /\ \A i \in 1..Len(s) : s[i] = v[Len(d) + i]
  <2>1. SubSeq(v, Len(d) + 1, z) \in Values
    BY <1>1, <1>2, Part
  <2>2. Len(SubSeq(v, Len(d) + 1, z)) = z - Len(d)
    BY <1>1, <1>2, Part
  <2>3. \A i \in 1..(z - Len(d)) : SubSeq(v, Len(d) + 1, z)[i] = v[Len(d) + i]
    BY <1>1, <1>2, Part
  <2> QED
    BY <1>3, <2>1, <2>2, <2>3
<1> PICK j : j = Join(d, s)
  OBVIOUS
<1>5. /\ j \in Values /\ Len(j) = Len(d) + Len(s)
      /\ \A i \in 1..Len(d) : j[i] = d[i]
      /\ \A i \in 1..Len(s) : j[Len(d) + i] = s[i]
  <2>1. s \in Values
    BY <1>4
  <2>2. Join(d, s) \in Values /\ Len(Join(d, s)) = Len(d) + Len(s)
    BY <2>1, Joined
  <2>3. \A i \in 1..Len(d) : Join(d, s)[i] = d[i]
    BY <2>1, Joined
  <2>4. \A i \in 1..Len(s) : Join(d, s)[Len(d) + i] = s[i]
    BY <2>1, Joined
  <2> QED
    BY <2>2, <2>3, <2>4
<1>6. Len(j) = z
  BY <1>1, <1>2, <1>4, <1>5
<1>7. ASSUME NEW i \in 1..z PROVE v[i] = j[i]
  <2>1. CASE i <= Len(d)
    BY <1>1, <1>5, <2>1
  <2>2. CASE ~(i <= Len(d))
    <3> DEFINE k == i - Len(d)
    <3>1. k \in 1..Len(s) /\ Len(d) + k = i
      BY <1>1, <1>2, <1>4, <2>2
    <3> HIDE DEF k
    <3>2. j[Len(d) + k] = v[Len(d) + k]
      BY <1>4, <1>5, <3>1
    <3> QED
      BY <3>1, <3>2
  <2> QED
    BY <2>1, <2>2
<1>8. Prefix(j, v)
  BY <1>2, <1>5, <1>6, <1>7, Prefixes
<1>9. ASSUME Len(s) < n PROVE j = v
  <2>1. Len(j) = Len(v)
    BY <1>2, <1>4, <1>6, <1>9
  <2>2. \A i \in 1..Len(j) : j[i] = v[i]
    BY <1>6, <1>7
  <2> QED
    BY <1>5, <2>1, <2>2, SeqEqual DEF Values
<1> QED
  BY <1>4, <1>5, <1>8, <1>9

\* A long write has chunks of at least a byte, and a number of them.
LEMMA ChunksCount ==
  ASSUME NEW n \in Nat, NEW m \in Nat, m >= DefaultMtu
  PROVE  ChunkSize(m) \in Nat \ {0} /\ Chunks(n, m) \in Nat
<1>1. m - 5 \in Nat \ {0}
  BY DEF DefaultMtu
<1> DEFINE c == ChunkSize(m)
<1>2. c \in Nat \ {0}
  BY <1>1 DEF ChunkSize
<1>3. c = ChunkSize(m)
  OBVIOUS
<1> HIDE DEF c
<1>4. n \div c \in Nat
  BY <1>2
<1> QED
  BY <1>2, <1>3, <1>4 DEF Chunks

\* What a write procedure is given to write is a value.
LEMMA BytesTyped ==
  ASSUME NEW t \in Nat, NEW c \in Nat, NEW n \in Nat
  PROVE  Bytes(t, c, n) \in Values
<1>1. \A i \in 1..n : (t * 10 + c) * 1000 + i \in Nat
  OBVIOUS
<1>2. Bytes(t, c, n) \in [1..n -> Nat]
  BY <1>1 DEF Bytes
<1> QED
  BY <1>2, SeqDef DEF Values

-----------------------------------------------------------------------------
(***************************************************************************)
(* The types.  What each step makes of the data, one lemma for each step;  *)
(* what a step of a procedure makes of it is stated once, for the types and *)
(* for the transfers.                                                      *)
(***************************************************************************)
MtuTyped(x) ==
  x \in [client : Nat, server : Nat] /\ x.client >= DefaultMtu /\ x.server >= DefaultMtu

\* A step of thread t.
LEMMA TypedThread ==
  ASSUME DataTyped, NEW t \in Threads, \A u \in Threads : u # t => proc'[u] = proc[u],
         sent \in Nat, sent' \in Nat, sent <= sent', ProcTyped(proc[t])',
         scenario' \in [Threads -> Seq(Calls)], MtuTyped(mtu'),
         UNCHANGED <<indicating, terminated, toClient, attrs, prepared>>,
         \A m \in Items(toServer') : RequestTyped(m), Items(queue') \subseteq Items(queue)
  PROVE  DataTyped'
<1>1. \A u \in Threads : ProcTyped(proc[u])'
  <2> SUFFICES ASSUME NEW u \in Threads, u # t PROVE ProcTyped(proc[u])'
    OBVIOUS
  <2>1. proc'[u] = proc[u] /\ ProcTyped(proc[u])
    BY DEF DataTyped
  <2> PICK p : p = proc[u]
    OBVIOUS
  <2> QED
    BY <2>1 DEF ProcTyped
<1>2. \A m \in Items(toClient') \cup Items(queue') : ResponseTyped(m)
  BY DEF DataTyped
<1> QED
  BY <1>1, <1>2 DEF DataTyped, MtuTyped, Items, RequestTyped, ResponseTyped

\* The types that the lemma of each step begins from.
LEMMA TypesOf ==
  ASSUME Flow, DataTyped
  PROVE  /\ Shape /\ sent \in Nat /\ sent <= sent /\ MtuTyped(mtu)
         /\ \A m \in Items(toServer) : RequestTyped(m)
         /\ scenario \in [Threads -> Seq(Calls)]
         /\ \A t \in Threads : ProcTyped(proc[t]) /\ DOMAIN proc[t] = Fields
  BY DEF Flow, Shape, DataTyped, MtuTyped

\* A thread without a procedure.
LEMMA IdleTyped ==
  ASSUME sent \in Nat
  PROVE  ProcTyped(Idle)
<1>1. <<>> \in Values
  BY EmptySeq DEF Values
<1> QED
  BY <1>1 DEF ProcTyped, Idle, None

\* The types, when a procedure is called.
LEMMA CallTyped ==
  ASSUME Flow, DataTyped, NEW t \in Threads, Call(t)
  PROVE  DataTyped'
<1>0. /\ Shape /\ sent \in Nat /\ sent <= sent /\ MtuTyped(mtu)
      /\ \A m \in Items(toServer) : RequestTyped(m)
      /\ scenario \in [Threads -> Seq(Calls)]
  BY TypesOf
<1>1. /\ scenario[t] \in Seq(Calls) /\ scenario[t] # <<>>
      /\ scenario' = [scenario EXCEPT ![t] = Tail(@)]
      /\ UNCHANGED <<indicating, queue, terminated, mtu, toServer, toClient, attrs, prepared, sent>>
  BY <1>0 DEF Call, server, history
<1> PICK c : c = Head(scenario[t])
  OBVIOUS
<1>2. c \in Calls /\ Tail(scenario[t]) \in Seq(Calls) /\ Len(scenario[t]) \in Nat
  BY <1>1, HeadTailProperties, LenProperties
<1>3. scenario' \in [Threads -> Seq(Calls)]
  BY <1>0, <1>1, <1>2
<1> DEFINE v == CASE c.kind \in {"write", "write_long", "write_command"} ->
                       Bytes(t, Len(scenario[t]), c.size)
                  [] c.kind = "set_mtu" -> <<c.size>>
                  [] OTHER -> <<>>
<1>4. proc' = [proc EXCEPT ![t] = [Idle EXCEPT !.pc = "lock", !.kind = c.kind,
                                     !.handle = c.handle, !.value = v]]
  BY DEF Call
<1>5. v \in Values /\ (c.kind = "set_mtu" => Len(v) = 1)
  <2>1. t \in Nat /\ c.size \in Nat /\ c.kind \in ProcedureKinds
    BY <1>2, GattAssumption DEF Calls
  <2>2. Bytes(t, Len(scenario[t]), c.size) \in Values
    BY <1>2, <2>1, BytesTyped
  <2>3. <<c.size>> \in Values /\ Len(<<c.size>>) = 1 /\ <<>> \in Values
    BY <2>1 DEF Values
  <2>4. CASE c.kind \in {"write", "write_long", "write_command"}
    BY <2>2, <2>4
  <2>5. CASE c.kind = "set_mtu"
    BY <2>3, <2>5
  <2>6. CASE c.kind \notin {"write", "write_long", "write_command", "set_mtu"}
    BY <2>3, <2>6
  <2> QED
    BY <2>4, <2>5, <2>6
<1> HIDE DEF v
<1> PICK q : q = [Idle EXCEPT !.pc = "lock", !.kind = c.kind, !.handle = c.handle, !.value = v]
  OBVIOUS
<1>6. proc'[t] = q /\ \A u \in Threads : u # t => proc'[u] = proc[u]
  BY <1>0, <1>4 DEF Shape
<1>7. /\ q.pc = "lock" /\ q.kind = c.kind /\ q.handle = c.handle /\ q.value = v
      /\ q.data = <<>> /\ q.offset = 0 /\ q.chunks = 0 /\ q.own = 0 /\ q.taken = 0
  BY DEF Idle
<1>8. <<>> \in Values /\ c.kind \in ProcedureKinds /\ c.handle \in Handles
  BY <1>2, EmptySeq DEF Values, Calls
<1>9. ProcTyped(proc[t])'
  BY <1>0, <1>1, <1>5, <1>6, <1>7, <1>8 DEF ProcTyped
<1> QED
  BY <1>0, <1>1, <1>3, <1>6, <1>9, TypedThread

\* What Begin makes of the procedure.
LEMMA Beginning ==
  ASSUME Shape, NEW t \in Threads, Begin(t), NEW p, p = proc[t], NEW q, q = proc'[t]
  PROVE  /\ \/ p.kind = "set_mtu" /\ p.value[1] < DefaultMtu /\ q = Finish(p, "none")
            \/ ~(p.kind = "set_mtu" /\ p.value[1] < DefaultMtu) /\ q = Begun(p)
         /\ p.pc = "lock" /\ DOMAIN p = Fields
         /\ UNCHANGED <<scenario, indicating, queue, terminated, mtu, toServer, toClient, attrs,
                        prepared, sent, sender, astray>>
<1> DEFINE low == p.value[1] < DefaultMtu
<1>1. proc' = [proc EXCEPT ![t] = IF p.kind = "set_mtu" /\ low THEN Finish(p, "none") ELSE Begun(p)]
  BY DEF Begin
<1>2. q = IF p.kind = "set_mtu" /\ low THEN Finish(p, "none") ELSE Begun(p)
  <2> HIDE DEF low
  <2> QED
    BY <1>1 DEF Shape
<1> HIDE DEF low
<1>3. \/ p.kind = "set_mtu" /\ low /\ q = Finish(p, "none")
      \/ ~(p.kind = "set_mtu" /\ low) /\ q = Begun(p)
  BY <1>2
<1>4. p.pc = "lock" /\ DOMAIN p = Fields
  BY DEF Begin, Shape
<1>5. UNCHANGED <<scenario, indicating, queue, terminated, mtu, toServer, toClient, attrs,
                  prepared, sent, sender, astray>>
  BY DEF Begin, server, history
<1> QED
  BY <1>3, <1>4, <1>5 DEF low

\* A procedure that finishes, or begins, keeps these.
LEMMA Finished ==
  ASSUME NEW p, DOMAIN p = Fields, NEW r, NEW q, q = Finish(p, r)
  PROVE  /\ q.pc = "stop" /\ q.result = r /\ DOMAIN q = Fields
         /\ q.kind = p.kind /\ q.handle = p.handle /\ q.value = p.value /\ q.data = p.data
         /\ q.offset = p.offset /\ q.chunks = p.chunks /\ q.own = p.own /\ q.taken = p.taken
  BY DEF Finish, Fields

Long(p) == p.kind = "write_long" \/ (p.kind = "write" /\ Len(p.value) > mtu.client - 3)

\* What a procedure that takes the lock keeps, and sets.
LEMMA BegunKeeps ==
  ASSUME NEW p, DOMAIN p = Fields, NEW q, q = Begun(p)
  PROVE  /\ q.pc = "send" /\ q.result = p.result /\ DOMAIN q = Fields
         /\ q.handle = p.handle /\ q.value = p.value /\ q.data = p.data
         /\ q.offset = p.offset /\ q.own = p.own /\ q.taken = p.taken
         /\ q.kind = IF Long(p) THEN "write_long" ELSE p.kind
         /\ q.chunks = IF Long(p) THEN Chunks(Len(p.value), mtu.client) ELSE 0
<1> DEFINE long == p.kind = "write_long" \/ (p.kind = "write" /\ Len(p.value) > mtu.client - 3)
           k == IF long THEN "write_long" ELSE p.kind
           n == IF long THEN Chunks(Len(p.value), mtu.client) ELSE 0
<1>1. q = [p EXCEPT !.pc = "send", !.kind = k, !.chunks = n]
  BY DEF Begun
<1>2. Long(p) <=> long
  BY DEF Long
<1> HIDE DEF k, n
<1>3. /\ q.pc = "send" /\ q.result = p.result /\ DOMAIN q = Fields
      /\ q.handle = p.handle /\ q.value = p.value /\ q.data = p.data
      /\ q.offset = p.offset /\ q.own = p.own /\ q.taken = p.taken
      /\ q.kind = k /\ q.chunks = n
  BY <1>1 DEF Fields
<1> QED
  BY <1>2, <1>3 DEF k, n

\* The types, when a procedure takes the lock.
LEMMA BeginTyped ==
  ASSUME Flow, DataTyped, NEW t \in Threads, Begin(t)
  PROVE  DataTyped'
<1>0. /\ Shape /\ sent \in Nat /\ sent <= sent /\ MtuTyped(mtu)
      /\ \A m \in Items(toServer) : RequestTyped(m)
      /\ scenario \in [Threads -> Seq(Calls)] /\ ProcTyped(proc[t]) /\ DOMAIN proc[t] = Fields
  BY TypesOf
<1> PICK p : p = proc[t]
  OBVIOUS
<1> PICK q : q = proc'[t]
  OBVIOUS
<1>1. /\ \/ p.kind = "set_mtu" /\ p.value[1] < DefaultMtu /\ q = Finish(p, "none")
         \/ ~(p.kind = "set_mtu" /\ p.value[1] < DefaultMtu) /\ q = Begun(p)
      /\ p.pc = "lock" /\ DOMAIN p = Fields
      /\ UNCHANGED <<scenario, indicating, queue, terminated, mtu, toServer, toClient, attrs,
                     prepared, sent, sender, astray>>
  BY <1>0, Beginning
<1>2. \A u \in Threads : u # t => proc'[u] = proc[u]
  BY <1>0, EffectOfBegin
<1>3. ProcTyped(q)
  <2>1. CASE q = Finish(p, "none")
    BY <1>0, <1>1, <2>1, Finished DEF ProcTyped
  <2>2. CASE q = Begun(p) /\ ~(p.kind = "set_mtu" /\ p.value[1] < DefaultMtu)
    <3>1. /\ q.pc = "send" /\ q.value = p.value /\ q.data = p.data /\ q.handle = p.handle
          /\ q.offset = p.offset /\ q.own = p.own /\ q.taken = p.taken
          /\ q.kind = IF Long(p) THEN "write_long" ELSE p.kind
          /\ q.chunks = IF Long(p) THEN Chunks(Len(p.value), mtu.client) ELSE 0
      BY <1>1, <2>2, BegunKeeps
    <3>2. ProcTyped(p) /\ p.kind \in ProcedureKinds /\ p.handle \in Handles
      BY <1>0, <1>1 DEF ProcTyped
    <3>3. q.kind \in ProcedureKinds /\ (q.kind = "set_mtu" => p.kind = "set_mtu")
      BY <3>1, <3>2 DEF ProcedureKinds
    <3>4. q.chunks \in Nat
      <4>1. Len(p.value) \in Nat /\ mtu.client \in Nat /\ mtu.client >= DefaultMtu
        BY <1>0, <3>2, Types DEF ProcTyped, MtuTyped
      <4>2. Chunks(Len(p.value), mtu.client) \in Nat
        BY <4>1, ChunksCount
      <4> QED
        BY <3>1, <4>2
    <3>5. p.kind = "set_mtu" => Mtu(p.value)
      <4> SUFFICES ASSUME p.kind = "set_mtu" PROVE Mtu(p.value)
        OBVIOUS
      <4>1. Len(p.value) = 1 /\ p.value \in Values
        BY <1>1, <3>2 DEF ProcTyped
      <4>2. p.value[1] \in Nat /\ ~(p.value[1] < DefaultMtu)
        BY <2>2, <4>1, Types
      <4> QED
        BY <4>1, <4>2 DEF Mtu, DefaultMtu
    <3> QED
      BY <3>1, <3>2, <3>3, <3>4, <3>5 DEF ProcTyped
  <2> QED
    BY <1>1, <2>1, <2>2
<1>4. ProcTyped(proc[t])'
  BY <1>1, <1>3 DEF ProcTyped
<1> QED
  BY <1>0, <1>1, <1>2, <1>4, TypedThread

\* The types, when a procedure gives up or ends.
LEMMA EndTyped ==
  ASSUME Flow, DataTyped, NEW t \in Threads, Ends(t)
  PROVE  DataTyped'
<1>0. /\ Shape /\ sent \in Nat /\ sent <= sent /\ MtuTyped(mtu)
      /\ \A m \in Items(toServer) : RequestTyped(m)
      /\ scenario \in [Threads -> Seq(Calls)]
  BY TypesOf
<1>1. /\ proc' = [proc EXCEPT ![t] = Idle]
      /\ UNCHANGED <<scenario, indicating, terminated, mtu, toServer, toClient, attrs,
                     prepared, sent>>
      /\ Items(queue') \subseteq Items(queue)
  <2>1. proc' = [proc EXCEPT ![t] = Idle]
    BY DEF Ends, Raise, GiveUp, Stop
  <2> QED
    BY <1>0, <2>1, EndKeeps
<1>2. proc'[t] = Idle /\ \A u \in Threads : u # t => proc'[u] = proc[u]
  BY <1>0, <1>1 DEF Shape
<1>3. ProcTyped(proc[t])'
  BY <1>0, <1>1, <1>2, IdleTyped DEF ProcTyped, Idle
<1> QED
  BY <1>0, <1>1, <1>2, <1>3, TypedThread

\* What a step of a procedure that goes on, or finishes, never changes.
SameCall(q, p) ==
  /\ DOMAIN q = Fields
  /\ q.kind = p.kind /\ q.handle = p.handle /\ q.value = p.value
  /\ q.own = p.own /\ q.taken = p.taken

SameState(q, p) ==
  SameCall(q, p) /\ q.data = p.data /\ q.offset = p.offset /\ q.chunks = p.chunks

\* A procedure that ends keeps what it has transferred.
LEMMA FinishedSame ==
  ASSUME NEW p, DOMAIN p = Fields, NEW x
  PROVE  SameState(Finish(p, x), p) /\ Finish(p, x).pc = "stop" /\ Finish(p, x).result = x
  BY DEF Finish, Fields, SameState, SameCall

\* Which request each procedure sends.
LEMMA RequestTypes ==
  ASSUME NEW p, p.kind \in ProcedureKinds, NEW y, y = RequestType(p)
  PROVE  /\ y # "error"
         /\ y = "set_mtu" <=> p.kind = "set_mtu"
         /\ y = "write_command" <=> p.kind = "write_command"
         /\ y = "discover" <=> p.kind = "discover"
         /\ y = "read" <=> p.kind = "read"
         /\ y = "write" <=> p.kind = "write"
         /\ y = "read_blob" <=> p.kind = "read_long"
         /\ y = "prepare_write" <=> p.kind = "write_long" /\ p.chunks > 0
         /\ y = "execute_write" <=> p.kind = "write_long" /\ ~(p.chunks > 0)
<1> DEFINE long == p.chunks > 0
<1>1. /\ p.kind = "read_long" => y = "read_blob"
      /\ p.kind = "write_long" /\ long => y = "prepare_write"
      /\ p.kind = "write_long" /\ ~long => y = "execute_write"
      /\ p.kind \notin {"read_long", "write_long"} => y = p.kind
  BY DEF RequestType
<1> HIDE DEF long
<1>2. CASE p.kind = "read_long"
  BY <1>1, <1>2
<1>3. CASE p.kind = "write_long"
  BY <1>1, <1>3 DEF long
<1>4. CASE p.kind \in {"read", "write", "write_command", "set_mtu", "discover"}
  BY <1>1, <1>4
<1> QED
  BY <1>2, <1>3, <1>4 DEF ProcedureKinds

\* What sending a request makes of the procedure.
LEMMA Sending ==
  ASSUME Shape, NEW t \in Threads, Send(t), NEW p, p = proc[t], NEW q, q = proc'[t],
         NEW m, m = Request(p)
  PROVE  /\ p.pc = "send" /\ DOMAIN p = Fields /\ p.kind = "write_command" =>
              SameState(q, p) /\ q.pc = "stop" /\ q.result = "sent"
         /\ p.kind # "write_command" =>
              /\ DOMAIN q = Fields /\ q.pc = "wait" /\ q.own = sent + 1 /\ q.taken = p.taken
              /\ q.kind = p.kind /\ q.handle = p.handle /\ q.value = p.value
              /\ q.data = p.data /\ q.offset = p.offset /\ q.chunks = p.chunks
              /\ q.result = p.result
         /\ p.pc = "send" /\ DOMAIN p = Fields /\ sent' = sent + 1
         /\ toServer' = IF terminated THEN toServer ELSE Append(toServer, m)
         /\ UNCHANGED <<scenario, procLock, indicating, queue, terminated, mtu, toClient, attrs,
                        prepared, astray>>
<1>1. /\ proc' = [proc EXCEPT ![t] = IF p.kind = "write_command" THEN Finish(p, "sent")
                                     ELSE [p EXCEPT !.pc = "wait", !.own = sent + 1]]
      /\ p.pc = "send"
  BY DEF Send
<1>2. DOMAIN p = Fields /\ q = IF p.kind = "write_command" THEN Finish(p, "sent")
                               ELSE [p EXCEPT !.pc = "wait", !.own = sent + 1]
  BY <1>1 DEF Shape
<1>3. p.kind = "write_command" => SameState(q, p) /\ q.pc = "stop" /\ q.result = "sent"
  BY <1>2, FinishedSame
<1>4. p.kind # "write_command" =>
              /\ DOMAIN q = Fields /\ q.pc = "wait" /\ q.own = sent + 1 /\ q.taken = p.taken
              /\ q.kind = p.kind /\ q.handle = p.handle /\ q.value = p.value
              /\ q.data = p.data /\ q.offset = p.offset /\ q.chunks = p.chunks
              /\ q.result = p.result
  BY <1>2 DEF Fields
<1>5. /\ sent' = sent + 1
      /\ toServer' = IF terminated THEN toServer ELSE Append(toServer, m)
      /\ UNCHANGED <<scenario, procLock, indicating, queue, terminated, mtu, toClient, attrs,
                     prepared, astray>>
  BY DEF Send, server
<1> QED
  BY <1>1, <1>2, <1>3, <1>4, <1>5

\* The request of a procedure is one the server expects.
LEMMA RequestsTyped ==
  ASSUME NEW p, ProcTyped(p), p.pc = "send", MtuTyped(mtu), NEW m, m = Request(p)
  PROVE  RequestTyped(m) /\ m.id = sent + 1
<1>1. p.value \in Values /\ p.offset \in Nat /\ p.handle \in Handles /\ p.kind \in ProcedureKinds
      /\ (p.kind = "set_mtu" => Mtu(p.value))
  BY DEF ProcTyped
<1>2. /\ m.id = sent + 1 /\ m.type = RequestType(p) /\ m.handle = p.handle /\ m.offset = p.offset
      /\ m.value = RequestValue(p)
  BY DEF Request
<1>3. RequestValue(p) \in Values
  <2>1. mtu.client \in Nat /\ mtu.client >= DefaultMtu
    BY DEF MtuTyped
  <2>2. ChunkSize(mtu.client) \in Nat
    BY <2>1 DEF ChunkSize, DefaultMtu
  <2>3. Slice(p.value, p.offset, ChunkSize(mtu.client)) \in Values
    BY <1>1, <2>2, Slices
  <2> QED
    BY <1>1, <2>3 DEF RequestValue
<1>4. m.type = "set_mtu" => Mtu(m.value)
  <2>1. RequestType(p) = "set_mtu" => p.kind = "set_mtu" /\ RequestValue(p) = p.value
    BY <1>1, RequestTypes DEF RequestValue
  <2> QED
    BY <1>1, <1>2, <2>1
<1> QED
  BY <1>1, <1>2, <1>3, <1>4 DEF RequestTyped

\* The types, when a request is sent.
LEMMA SendTyped ==
  ASSUME Flow, DataTyped, NEW t \in Threads, Send(t)
  PROVE  DataTyped'
<1>0. /\ Shape /\ sent \in Nat /\ sent <= sent /\ MtuTyped(mtu)
      /\ \A m \in Items(toServer) : RequestTyped(m)
      /\ scenario \in [Threads -> Seq(Calls)] /\ ProcTyped(proc[t]) /\ DOMAIN proc[t] = Fields
  BY TypesOf
<1>p. PICK p : p = proc[t]
  OBVIOUS
<1>q. PICK q : q = proc'[t]
  OBVIOUS
<1>m. PICK m : m = Request(p)
  OBVIOUS
<1>1. /\ p.kind = "write_command" => SameState(q, p) /\ q.pc = "stop" /\ q.result = "sent"
      /\ p.kind # "write_command" =>
              /\ DOMAIN q = Fields /\ q.pc = "wait" /\ q.own = sent + 1 /\ q.taken = p.taken
              /\ q.kind = p.kind /\ q.handle = p.handle /\ q.value = p.value
              /\ q.data = p.data /\ q.offset = p.offset /\ q.chunks = p.chunks
              /\ q.result = p.result
      /\ p.pc = "send" /\ DOMAIN p = Fields /\ sent' = sent + 1
      /\ toServer' = IF terminated THEN toServer ELSE Append(toServer, m)
      /\ UNCHANGED <<scenario, procLock, indicating, queue, terminated, mtu, toClient, attrs,
                     prepared, astray>>
  BY <1>0, <1>p, <1>q, <1>m, Sending
<1>2. \A u \in Threads : u # t => proc'[u] = proc[u]
  BY <1>0, EffectOfSend
<1>3. ProcTyped(p)
  BY <1>0, <1>p
<1>4. ProcTyped(proc[t])'
  <2>1. ProcTyped(q)'
    <3>1. /\ p.pc = "send" /\ sent' = sent + 1 /\ sent \in Nat
          /\ q.pc \in {"stop", "wait"} /\ q.kind = p.kind /\ q.handle = p.handle
          /\ q.value = p.value /\ q.data = p.data /\ q.offset = p.offset /\ q.chunks = p.chunks
          /\ q.own \in {p.own, sent + 1} /\ q.taken = p.taken
          /\ q.pc = "wait" => q.own = sent + 1
      BY <1>0, <1>1 DEF SameState, SameCall
    <3> QED
      BY <1>3, <3>1 DEF ProcTyped
  <2> QED
    BY <1>q, <2>1
<1>5. RequestTyped(m)
  BY <1>0, <1>1, <1>3, <1>m, RequestsTyped
<1>6. Items(toServer') \subseteq Items(toServer) \cup {m}
  BY <1>0, <1>1, AppendItem DEF Shape
<1>7. \A x \in Items(toServer') : RequestTyped(x)
  BY <1>0, <1>5, <1>6
<1>8. sent' \in Nat /\ sent <= sent' /\ MtuTyped(mtu') /\ queue' = queue
  BY <1>0, <1>1
<1> QED
  BY <1>0, <1>1, <1>2, <1>4, <1>7, <1>8, TypedThread

\* What Take makes of the procedure: p is the procedure that has noted the
\* number of the message m.
LEMMA Taking ==
  ASSUME Shape, NEW t \in Threads, Take(t), NEW m, m = Head(queue),
         NEW o, o = proc[t], NEW p, p = [o EXCEPT !.taken = m.id], NEW q, q = proc'[t],
         o.kind \in ProcedureKinds
  PROVE  /\ o.pc = "wait" /\ DOMAIN p = Fields /\ p.pc = o.pc /\ p.taken = m.id /\ p.own = o.own
         /\ p.kind = o.kind /\ p.handle = o.handle /\ p.value = o.value /\ p.data = o.data
         /\ p.offset = o.offset /\ p.chunks = o.chunks /\ p.result = o.result
         /\ RequestType(p) = RequestType(o)
         /\ \/ m.type = "error" /\ q = Refused(p, m)
            \/ m.type # "error" /\ m.type = RequestType(p) /\ q = Answered(p, m)
            \/ m.type # "error" /\ m.type # RequestType(p) /\ q = o
         /\ mtu' = IF m.type = "set_mtu" /\ RequestType(p) = "set_mtu"
                   THEN [mtu EXCEPT !.client = m.value[1]] ELSE mtu
         /\ ~terminated /\ queue # <<>> /\ queue' = Tail(queue)
         /\ UNCHANGED <<scenario, procLock, indicating, terminated, toServer, toClient, attrs,
                        prepared, sent>>
<1>1. /\ proc' = [proc EXCEPT ![t] = CASE m.type = "error"        -> Refused(p, m)
                                       [] m.type = RequestType(p) -> Answered(p, m)
                                       [] OTHER                   -> o]
      /\ o.pc = "wait" /\ ~terminated /\ queue # <<>> /\ queue' = Tail(queue)
      /\ mtu' = IF m.type = "set_mtu" /\ RequestType(p) = "set_mtu"
                THEN [mtu EXCEPT !.client = m.value[1]] ELSE mtu
  BY DEF Take
<1>2. UNCHANGED <<scenario, procLock, indicating, terminated, toServer, toClient, attrs,
                        prepared, sent>>
  BY DEF Take, server
<1>3. /\ DOMAIN p = Fields /\ p.pc = o.pc /\ p.taken = m.id /\ p.own = o.own
      /\ p.kind = o.kind /\ p.handle = o.handle /\ p.value = o.value /\ p.data = o.data
      /\ p.offset = o.offset /\ p.chunks = o.chunks /\ p.result = o.result
  BY DEF Shape, Fields
<1>4. RequestType(p) = RequestType(o)
  BY <1>3 DEF RequestType
<1> DEFINE v == CASE m.type = "error"        -> Refused(p, m)
                  [] m.type = RequestType(p) -> Answered(p, m)
                  [] OTHER                   -> o
<1>5. q = v
  <2>1. proc' = [proc EXCEPT ![t] = v]
    BY <1>1
  <2> HIDE DEF v
  <2> QED
    BY <2>1 DEF Shape
<1>6. \/ m.type = "error" /\ v = Refused(p, m)
      \/ m.type # "error" /\ m.type = RequestType(p) /\ v = Answered(p, m)
      \/ m.type # "error" /\ m.type # RequestType(p) /\ v = o
  <2> PICK y : y = RequestType(p)
    OBVIOUS
  <2> PICK a : a = Refused(p, m)
    OBVIOUS
  <2> PICK b : b = Answered(p, m)
    OBVIOUS
  <2>0. v = CASE m.type = "error" -> a [] m.type = y -> b [] OTHER -> o
    OBVIOUS
  <2> HIDE DEF v
  <2>1. y # "error"
    BY <1>3, RequestTypes
  <2>2. CASE m.type = "error"
    BY <2>0, <2>1, <2>2
  <2>3. CASE m.type = y
    BY <2>0, <2>1, <2>3
  <2>4. CASE m.type # "error" /\ m.type # y
    BY <2>0, <2>4
  <2> QED
    BY <2>1, <2>2, <2>3, <2>4
<1> HIDE DEF v
<1> QED
  BY <1>1, <1>2, <1>3, <1>4, <1>5, <1>6

\* What an error makes of the procedure.
LEMMA Refusing ==
  ASSUME NEW p, DOMAIN p = Fields, NEW m, NEW q, q = Refused(p, m)
  PROVE  /\ SameState(q, p) /\ (Locked(p) => q.pc = "stop" /\ q.result = "error")
         /\ q.pc \in {"send", "stop"}
<1>1. CASE Locked(p)
  <2>1. q = Finish(p, "error")
    BY <1>1 DEF Refused
  <2> QED
    BY <1>1, <2>1, FinishedSame
<1>2. CASE ~Locked(p) /\ m.reason = "not_found"
  <2>1. q = Finish(p, "ok")
    BY <1>2 DEF Refused
  <2> QED
    BY <1>2, <2>1, FinishedSame
<1>3. CASE ~Locked(p) /\ m.reason # "not_found"
  <2>1. q = [p EXCEPT !.pc = "send", !.result = "denied"]
    BY <1>3 DEF Refused
  <2> QED
    BY <1>3, <2>1 DEF SameState, SameCall, Fields
<1> QED
  BY <1>1, <1>2, <1>3

\* What a procedure makes of its response.
Outcome(q, p, m) ==
  /\ SameCall(q, p) /\ (q.pc = "send" \/ (q.pc = "stop" /\ q.result = "ok"))
  /\ p.kind = "read" =>
       q.pc = "stop" /\ q.data = m.value /\ q.offset = p.offset /\ q.chunks = p.chunks
  /\ p.kind = "read_long" =>
       /\ q.data = Join(p.data, m.value) /\ q.offset = p.offset + Len(m.value)
       /\ q.chunks = p.chunks
       /\ q.pc = IF Len(m.value) < mtu.client - 1 THEN "stop" ELSE "send"
  /\ p.kind = "write_long" /\ p.chunks > 0 =>
       /\ q.pc = "send" /\ q.data = p.data /\ q.chunks = p.chunks - 1
       /\ q.offset = p.offset + Len(m.value)
  /\ p.kind = "discover" =>
       q.pc = "send" /\ q.data = p.data /\ q.offset = p.offset + 1 /\ q.chunks = p.chunks
  /\ p.kind \in {"write", "write_command", "set_mtu"}
       \/ (p.kind = "write_long" /\ ~(p.chunks > 0)) => q.pc = "stop" /\ SameState(q, p)

\* What a response makes of the procedure.
LEMMA Answering ==
  ASSUME NEW p, DOMAIN p = Fields, p.kind \in ProcedureKinds, NEW m, NEW q, q = Answered(p, m)
  PROVE  Outcome(q, p, m)
<1>1. CASE p.kind = "read"
  <2> PICK r : r = [p EXCEPT !.data = m.value]
    OBVIOUS
  <2>1. q = Finish(r, "ok")
    BY <1>1 DEF Answered
  <2>2. DOMAIN r = Fields /\ SameCall(r, p) /\ r.data = m.value /\ r.offset = p.offset
        /\ r.chunks = p.chunks
    BY DEF Fields, SameCall
  <2>3. SameState(q, r) /\ q.pc = "stop" /\ q.result = "ok"
    BY <2>1, <2>2, FinishedSame
  <2> QED
    BY <1>1, <2>2, <2>3 DEF Outcome, SameState, SameCall
<1>2. CASE p.kind = "read_long"
  <2>0. PICK r : r = [p EXCEPT !.data = Join(p.data, m.value), !.offset = p.offset + Len(m.value)]
    OBVIOUS
  <2>1. q = IF Len(m.value) < mtu.client - 1 THEN Finish(r, "ok") ELSE [r EXCEPT !.pc = "send"]
    BY <1>2, <2>0 DEF Answered, Join
  <2>2. DOMAIN r = Fields /\ SameCall(r, p) /\ r.data = Join(p.data, m.value)
        /\ r.offset = p.offset + Len(m.value) /\ r.chunks = p.chunks
    BY <2>0 DEF Fields, SameCall
  <2>3. CASE Len(m.value) < mtu.client - 1
    <3>0. q = Finish(r, "ok")
      BY <2>1, <2>3
    <3>2. DOMAIN r = Fields
      BY <2>2
    <3>1. SameState(q, r) /\ q.pc = "stop" /\ q.result = "ok"
      BY <3>0, <3>2, FinishedSame
    <3> QED
      BY <1>2, <2>2, <2>3, <3>1 DEF Outcome, SameState, SameCall
  <2>4. CASE ~(Len(m.value) < mtu.client - 1)
    <3>0. q = [r EXCEPT !.pc = "send"] /\ DOMAIN r = Fields
      BY <2>1, <2>2, <2>4
    <3>1. SameState(q, r) /\ q.pc = "send"
      BY <3>0 DEF SameState, SameCall, Fields
    <3> QED
      BY <1>2, <2>2, <2>4, <3>1 DEF Outcome, SameState, SameCall
  <2> QED
    BY <2>3, <2>4
<1>3. CASE p.kind = "write_long" /\ p.chunks > 0
  <2>1. q = [p EXCEPT !.pc = "send", !.chunks = p.chunks - 1, !.offset = p.offset + Len(m.value)]
    BY <1>3 DEF Answered
  <2> QED
    BY <1>3, <2>1 DEF Outcome, Fields, SameCall
<1>4. CASE p.kind = "write_long" /\ ~(p.chunks > 0)
  <2>1. q = Finish(p, "ok")
    BY <1>4 DEF Answered
  <2> QED
    BY <1>4, <2>1, FinishedSame DEF Outcome, SameState
<1>5. CASE p.kind = "discover"
  <2>1. q = [p EXCEPT !.pc = "send", !.offset = p.offset + 1]
    BY <1>5 DEF Answered
  <2> QED
    BY <1>5, <2>1 DEF Outcome, Fields, SameCall
<1>6. CASE p.kind \in {"write", "write_command", "set_mtu"}
  <2>1. q = Finish(p, "ok")
    BY <1>6 DEF Answered
  <2> QED
    BY <1>6, <2>1, FinishedSame DEF Outcome, SameState
<1> QED
  BY <1>1, <1>2, <1>3, <1>4, <1>5, <1>6 DEF ProcedureKinds

\* The message that a thread takes.
LEMMA Taken ==
  ASSUME Flow, DataTyped, NEW t \in Threads, Take(t), NEW m, m = Head(queue)
  PROVE  /\ m \in Items(queue) /\ m.id \in 1..sent /\ ResponseTyped(m)
         /\ Items(queue') \subseteq Items(queue)
<1>1. queue # <<>> /\ queue' = Tail(queue) /\ IsSequence(queue)
  BY DEF Take, Flow, Shape
<1>2. m \in Items(queue) /\ Items(queue') \subseteq Items(queue)
  BY <1>1, TailItem
<1> QED
  BY <1>2, NumbersOf DEF DataTyped

\* The types, when a procedure takes what is in its queue.
LEMMA TakeTyped ==
  ASSUME Flow, DataTyped, NEW t \in Threads, Take(t)
  PROVE  DataTyped'
<1>0. /\ Shape /\ sent \in Nat /\ sent <= sent /\ MtuTyped(mtu)
      /\ \A x \in Items(toServer) : RequestTyped(x)
      /\ scenario \in [Threads -> Seq(Calls)] /\ ProcTyped(proc[t]) /\ DOMAIN proc[t] = Fields
  BY TypesOf
<1> PICK m : m = Head(queue)
  OBVIOUS
<1> PICK o : o = proc[t]
  OBVIOUS
<1> PICK p : p = [o EXCEPT !.taken = m.id]
  OBVIOUS
<1> PICK q : q = proc'[t]
  OBVIOUS
<1>1. /\ m \in Items(queue) /\ m.id \in 1..sent /\ ResponseTyped(m)
      /\ Items(queue') \subseteq Items(queue)
  BY Taken
<1>2. ProcTyped(o) /\ o.pc = "wait"
  BY <1>0 DEF Take
<1>3. o.kind \in ProcedureKinds
  BY <1>2 DEF ProcTyped
<1>4. /\ o.pc = "wait" /\ DOMAIN p = Fields /\ p.pc = o.pc /\ p.taken = m.id /\ p.own = o.own
      /\ p.kind = o.kind /\ p.handle = o.handle /\ p.value = o.value /\ p.data = o.data
      /\ p.offset = o.offset /\ p.chunks = o.chunks /\ p.result = o.result
      /\ \/ m.type = "error" /\ q = Refused(p, m)
         \/ m.type # "error" /\ m.type = RequestType(p) /\ q = Answered(p, m)
         \/ m.type # "error" /\ m.type # RequestType(p) /\ q = o
      /\ mtu' = IF m.type = "set_mtu" /\ RequestType(p) = "set_mtu"
                THEN [mtu EXCEPT !.client = m.value[1]] ELSE mtu
      /\ UNCHANGED <<scenario, indicating, terminated, toServer, toClient, attrs, prepared, sent>>
  BY <1>0, <1>3, Taking
<1>5. m.id \in Nat /\ m.id <= sent
  BY <1>0, <1>1
<1>6. ProcTyped(p) /\ p.kind \in ProcedureKinds
  BY <1>2, <1>3, <1>4, <1>5 DEF ProcTyped
<1>7. m.value \in Values /\ Len(m.value) \in Nat
  BY <1>1, Types DEF ResponseTyped
<1>8. ProcTyped(q)
  <2>1. CASE q = Refused(p, m)
    <3>1. SameState(q, p) /\ q.pc \in {"send", "stop"}
      BY <1>4, <2>1, Refusing
    <3> QED
      BY <1>2, <1>4, <1>6, <3>1 DEF ProcTyped, SameState, SameCall
  <2>2. CASE q = Answered(p, m)
    <3>0. Outcome(q, p, m)
      BY <1>4, <1>6, <2>2, Answering
    <3>1. /\ SameCall(q, p) /\ (q.pc = "send" \/ (q.pc = "stop" /\ q.result = "ok"))
          /\ p.kind = "read" => q.data = m.value /\ q.offset = p.offset /\ q.chunks = p.chunks
          /\ p.kind = "read_long" =>
               /\ q.data = Join(p.data, m.value) /\ q.offset = p.offset + Len(m.value)
               /\ q.chunks = p.chunks
          /\ p.kind = "write_long" /\ p.chunks > 0 =>
               q.data = p.data /\ q.chunks = p.chunks - 1 /\ q.offset = p.offset + Len(m.value)
          /\ p.kind = "discover" =>
               q.data = p.data /\ q.offset = p.offset + 1 /\ q.chunks = p.chunks
          /\ p.kind \in {"write", "write_command", "set_mtu"}
               \/ (p.kind = "write_long" /\ ~(p.chunks > 0)) => SameState(q, p)
      BY <3>0 DEF Outcome
    <3>2. p.data \in Values /\ p.offset \in Nat /\ p.chunks \in Nat
      BY <1>6 DEF ProcTyped
    <3>3. Join(p.data, m.value) \in Values
      BY <1>7, <3>2, Joined
    <3>4. q.data \in Values /\ q.offset \in Nat /\ q.chunks \in Nat
      <4>1. CASE p.kind \in {"read", "read_long", "discover"}
        BY <1>7, <3>1, <3>2, <3>3, <4>1
      <4>2. CASE p.kind = "write_long" /\ p.chunks > 0
        BY <1>7, <3>1, <3>2, <4>2
      <4>3. CASE p.kind \in {"write", "write_command", "set_mtu"}
                   \/ (p.kind = "write_long" /\ ~(p.chunks > 0))
        BY <3>1, <3>2, <4>3 DEF SameState
      <4> QED
        BY <1>6, <4>1, <4>2, <4>3 DEF ProcedureKinds
    <3> QED
      BY <1>2, <1>4, <1>6, <3>1, <3>4 DEF ProcTyped, SameCall
  <2>3. CASE q = o
    BY <1>2, <2>3
  <2> QED
    BY <1>4, <2>1, <2>2, <2>3
<1>9. MtuTyped(mtu')
  <2>1. CASE m.type = "set_mtu" /\ RequestType(p) = "set_mtu"
    <3>1. m.value[1] \in Nat /\ m.value[1] >= DefaultMtu
      BY <1>1, <2>1 DEF ResponseTyped, Mtu
    <3>2. mtu' = [mtu EXCEPT !.client = m.value[1]]
      BY <1>4, <2>1
    <3> QED
      BY <1>0, <3>1, <3>2 DEF MtuTyped
  <2>2. CASE ~(m.type = "set_mtu" /\ RequestType(p) = "set_mtu")
    BY <1>0, <1>4, <2>2
  <2> QED
    BY <2>1, <2>2
<1>10. \A u \in Threads : u # t => proc'[u] = proc[u]
  BY <1>0, EffectOfTake
<1>11. sent' \in Nat /\ sent <= sent' /\ ProcTyped(proc[t])'
  <2>1. sent' = sent
    BY <1>4
  <2> QED
    BY <1>0, <1>8, <2>1 DEF ProcTyped
<1> QED
  BY <1>0, <1>1, <1>4, <1>9, <1>10, <1>11, TypedThread

-----------------------------------------------------------------------------
\* A step of the server.
LEMMA TypedServer ==
  ASSUME DataTyped, UNCHANGED <<scenario, proc, queue, sent, indicating>>,
         terminated' \in BOOLEAN,
         Items(toServer') \subseteq Items(toServer),
         \A m \in Items(toClient') : ResponseTyped(m),
         MtuTyped(mtu'), attrs' \in [Handles -> Values], prepared' \in [Handles -> Seq(Writes)]
  PROVE  DataTyped'
<1>1. \A u \in Threads : ProcTyped(proc[u])'
  BY DEF DataTyped, ProcTyped
<1>2. /\ indicating' \in BOOLEAN /\ scenario' \in [Threads -> Seq(Calls)]
      /\ \A m \in Items(toServer') : RequestTyped(m)
      /\ \A m \in Items(queue') : ResponseTyped(m)
  BY DEF DataTyped, Items
<1> QED
  BY <1>1, <1>2 DEF DataTyped, MtuTyped, Items, RequestTyped, ResponseTyped

\* A request is answered with m.
LEMMA AnswerTyped ==
  ASSUME Flow, DataTyped, NEW m, ResponseTyped(m), toServer # <<>>, Answer(m)
  PROVE  /\ Items(toServer') \subseteq Items(toServer)
         /\ \A x \in Items(toClient') : ResponseTyped(x)
<1>1. toServer' = Tail(toServer) /\ toClient' = Append(toClient, m)
      /\ IsSequence(toServer) /\ IsSequence(toClient)
  BY DEF Answer, Flow, Shape
<1>2. Items(toServer') \subseteq Items(toServer) /\ Items(toClient') = Items(toClient) \cup {m}
  BY <1>1, TailItem, AppendItem
<1> QED
  BY <1>2 DEF DataTyped

\* The responses of the server.
LEMMA ResponsesTyped ==
  ASSUME NEW r, NEW v, v \in Values, r.type = "set_mtu" => Mtu(v), NEW why
  PROVE  ResponseTyped(Response(r, v)) /\ ResponseTyped(Error(r, why))
<1>1. <<>> \in Values
  BY EmptySeq DEF Values
<1> QED
  BY <1>1 DEF ResponseTyped, Response, Error

\* The request that the server handles.
LEMMA RequestAtHand ==
  ASSUME Flow, DataTyped, toServer # <<>>
  PROVE  Asking \in Items(toServer) /\ RequestTyped(Asking)
<1>1. Asking \in Items(toServer)
  BY TailItem DEF Asking, Flow, Shape
<1> QED
  BY <1>1 DEF DataTyped

\* What the server's handlers answer has its type.
LEMMA AnsweredTyped ==
  ASSUME Flow, DataTyped, toServer # <<>>, NEW v, v \in Values,
         Asking.type = "set_mtu" => Mtu(v), NEW m, Answer(m),
         m = Response(Asking, v) \/ \E why : m = Error(Asking, why)
  PROVE  /\ Items(toServer') \subseteq Items(toServer)
         /\ \A x \in Items(toClient') : ResponseTyped(x)
<1>1. ResponseTyped(m)
  <2>1. ResponseTyped(Response(Asking, v)) /\ \A why : ResponseTyped(Error(Asking, why))
    BY ResponsesTyped
  <2> QED
    BY <2>1
<1> QED
  BY <1>1, AnswerTyped

\* The types, when the server handles a request.
LEMMA ServerTyped ==
  ASSUME Flow, DataTyped, Server
  PROVE  DataTyped'
<1>0. /\ MtuTyped(mtu) /\ attrs \in [Handles -> Values] /\ prepared \in [Handles -> Seq(Writes)]
      /\ \A x \in Items(toClient) : ResponseTyped(x)
      /\ terminated \in BOOLEAN
  BY DEF DataTyped, MtuTyped
<1>1. toServer # <<>> /\ UNCHANGED <<scenario, proc, queue, sent, indicating, terminated>>
  BY DEF Server, OnRead, OnReadBlob, OnWrite, OnWriteCommand, Refuse, OnPrepareWrite,
         OnExecuteWrite, OnExchangeMtu, OnDiscover, Asked, client, history
<1>2. RequestTyped(Asking)
  BY <1>1, RequestAtHand
<1> PICK h : h = Asking.handle
  OBVIOUS
<1> PICK v : v = Asking.value
  OBVIOUS
<1> PICK o : o = Asking.offset
  OBVIOUS
<1>3. h \in Handles /\ v \in Values /\ o \in Nat /\ (Asking.type = "set_mtu" => Mtu(v))
  BY <1>2 DEF RequestTyped
<1>4. attrs[h] \in Values /\ prepared[h] \in Seq(Writes) /\ mtu.server \in Nat
      /\ mtu.server - 1 \in Nat
  BY <1>0, <1>3 DEF MtuTyped, DefaultMtu
<1>5. <<>> \in Values
  BY EmptySeq DEF Values
<1> DEFINE Kept == /\ Items(toServer') \subseteq Items(toServer)
                   /\ \A x \in Items(toClient') : ResponseTyped(x)
<1>6. ASSUME Kept, MtuTyped(mtu'), attrs' \in [Handles -> Values],
             prepared' \in [Handles -> Seq(Writes)]
      PROVE  DataTyped'
  BY <1>0, <1>1, <1>6, TypedServer
<1>7. ASSUME NEW m, Answer(m), NEW x, x \in Values, Asking.type # "set_mtu",
             m = Response(Asking, x) \/ \E why : m = Error(Asking, why)
      PROVE  Kept
  BY <1>1, <1>7, AnsweredTyped
<1> HIDE DEF Kept
<1>8. CASE OnRead
  <2> PICK x : x = Slice(attrs[h], 0, mtu.server - 1)
    OBVIOUS
  <2>1. Answer(Response(Asking, x)) /\ Asking.type = "read" /\ UNCHANGED <<mtu, attrs, prepared>>
    BY <1>8 DEF OnRead, Asked, Asking, server
  <2>2. x \in Values
    BY <1>4, Slices
  <2>3. Kept
    BY <1>7, <2>1, <2>2
  <2> QED
    BY <1>0, <1>6, <2>1, <2>3
<1>9. CASE OnReadBlob
  <2> PICK x : x = Slice(attrs[h], o, mtu.server - 1)
    OBVIOUS
  <2>1. /\ Asking.type = "read_blob" /\ UNCHANGED <<mtu, attrs, prepared>>
        /\ Answer(IF o <= Len(attrs[h]) THEN Response(Asking, x)
                                        ELSE Error(Asking, "invalid_offset"))
    BY <1>9 DEF OnReadBlob, Asked, Asking, server
  <2>2. x \in Values
    BY <1>3, <1>4, Slices
  <2>3. Kept
    <3>1. CASE o <= Len(attrs[h])
      BY <1>7, <2>1, <2>2, <3>1
    <3>2. CASE ~(o <= Len(attrs[h]))
      BY <1>7, <2>1, <2>2, <3>2
    <3> QED
      BY <3>1, <3>2
  <2> QED
    BY <1>0, <1>6, <2>1, <2>3
<1>10. CASE OnWrite
  <2>1. /\ Asking.type = "write" /\ attrs' = [attrs EXCEPT ![h] = v]
        /\ Answer(Response(Asking, <<>>)) /\ UNCHANGED <<mtu, prepared>>
    BY <1>10 DEF OnWrite, Asked, Asking
  <2>2. Kept
    BY <1>5, <1>7, <2>1
  <2>3. attrs' \in [Handles -> Values]
    BY <1>0, <1>3, <2>1
  <2> QED
    BY <1>0, <1>6, <2>1, <2>2, <2>3
<1>11. CASE OnWriteCommand
  <2>1. /\ attrs' = [attrs EXCEPT ![h] = v]
        /\ toServer' = Tail(toServer) /\ UNCHANGED <<mtu, toClient, prepared>>
    BY <1>11 DEF OnWriteCommand, Asking
  <2>2. Kept
    BY <1>0, <1>1, <2>1, TailItem DEF Kept, Flow, Shape
  <2>3. attrs' \in [Handles -> Values]
    BY <1>0, <1>3, <2>1
  <2> QED
    BY <1>0, <1>6, <2>1, <2>2, <2>3
<1>12. CASE Refuse
  <2>1. /\ Asking.type \in {"read", "read_blob", "write", "write_command", "discover"}
        /\ Answer(Error(Asking, "refused")) /\ UNCHANGED <<mtu, attrs, prepared>>
    BY <1>12 DEF Refuse, Asked, Asking, server
  <2>2. Kept
    BY <1>5, <1>7, <2>1
  <2> QED
    BY <1>0, <1>6, <2>1, <2>2
<1>13. CASE OnPrepareWrite
  <2> PICK w : w = [offset |-> o, value |-> v]
    OBVIOUS
  <2>1. /\ Asking.type = "prepare_write" /\ prepared' = [prepared EXCEPT ![h] = Append(@, w)]
        /\ Answer(Response(Asking, v)) /\ UNCHANGED <<mtu, attrs>>
    BY <1>13 DEF OnPrepareWrite, Asked, Asking
  <2>2. w \in Writes
    BY <1>3 DEF Writes
  <2>3. Append(prepared[h], w) \in Seq(Writes)
    BY <1>4, <2>2, AppendProperties
  <2>4. prepared' \in [Handles -> Seq(Writes)]
    BY <1>0, <2>1, <2>3
  <2>5. Kept
    BY <1>3, <1>7, <2>1
  <2> QED
    BY <1>0, <1>6, <2>1, <2>4, <2>5
<1>14. CASE OnExecuteWrite
  <2>1. /\ Asking.type = "execute_write"
        /\ attrs' = [k \in Handles |-> Patched(attrs[k], prepared[k])]
        /\ Answer(Response(Asking, <<>>)) /\ UNCHANGED <<mtu, prepared>>
    BY <1>14 DEF OnExecuteWrite, Asked, Asking
  <2>2. \A k \in Handles : Patched(attrs[k], prepared[k]) \in Values
    BY <1>0, PatchedTyped
  <2>3. attrs' \in [Handles -> Values]
    BY <2>1, <2>2
  <2>4. Kept
    BY <1>5, <1>7, <2>1
  <2> QED
    BY <1>0, <1>6, <2>1, <2>3, <2>4
<1>15. CASE OnExchangeMtu
  <2>1. /\ Asking.type = "set_mtu" /\ Answer(Response(Asking, v)) /\ UNCHANGED <<attrs, prepared>>
        /\ mtu' = [mtu EXCEPT !.server = IF v[1] >= DefaultMtu THEN v[1] ELSE @]
    BY <1>15 DEF OnExchangeMtu, Asked, Asking, server
  <2>2. v[1] \in Nat /\ v[1] >= DefaultMtu
    BY <1>3, <2>1 DEF Mtu
  <2>3. MtuTyped(mtu')
    BY <1>0, <2>1, <2>2 DEF MtuTyped
  <2>4. Kept
    BY <1>1, <1>3, <2>1, AnsweredTyped DEF Kept
  <2> QED
    BY <1>0, <1>6, <2>1, <2>3, <2>4
<1>16. CASE OnDiscover
  <2>1. /\ Asking.type = "discover" /\ UNCHANGED <<mtu, attrs, prepared>>
        /\ Answer(IF o < Services THEN Response(Asking, <<>>) ELSE Error(Asking, "not_found"))
    BY <1>16 DEF OnDiscover, Asked, Asking, server
  <2>2. Kept
    <3>1. CASE o < Services
      BY <1>5, <1>7, <2>1, <3>1
    <3>2. CASE ~(o < Services)
      BY <1>5, <1>7, <2>1, <3>2
    <3> QED
      BY <3>1, <3>2
  <2> QED
    BY <1>0, <1>6, <2>1, <2>2
<1> QED
  BY <1>8, <1>9, <1>10, <1>11, <1>12, <1>13, <1>14, <1>15, <1>16 DEF Server

\* The types, when no procedure and no request is concerned.
LEMMA OthersTyped ==
  ASSUME Flow, DataTyped,
         OnPdu \/ CallbackReturns \/ Indicate \/ Disconnect \/ UNCHANGED vars
  PROVE  DataTyped'
<1>1. /\ UNCHANGED <<scenario, proc, mtu, attrs, prepared, sent>>
  BY DEF OnPdu, CallbackReturns, Indicate, Disconnect, vars, server, history
<1>2. /\ indicating' \in BOOLEAN /\ terminated' \in BOOLEAN
      /\ Items(toServer') \subseteq Items(toServer)
      /\ \A m \in Items(toClient') \cup Items(queue') : ResponseTyped(m)
  <2>0. /\ indicating \in BOOLEAN /\ terminated \in BOOLEAN
        /\ \A m \in Items(toClient) \cup Items(queue) : ResponseTyped(m)
        /\ IsSequence(toServer) /\ IsSequence(toClient) /\ IsSequence(queue)
    BY DEF DataTyped, Flow, Shape
  <2>1. CASE OnPdu
    <3> PICK m : m = Head(toClient)
      OBVIOUS
    <3>1. /\ toClient # <<>> /\ toClient' = Tail(toClient) /\ UNCHANGED <<terminated, toServer>>
          /\ indicating' \in BOOLEAN /\ (queue' = queue \/ queue' = Append(queue, m))
      BY <2>0, <2>1 DEF OnPdu
    <3>2. m \in Items(toClient) /\ Items(toClient') \subseteq Items(toClient)
      BY <2>0, <3>1, TailItem
    <3>3. Items(Append(queue, m)) = Items(queue) \cup {m}
      BY <2>0, AppendItem
    <3>4. Items(queue') \subseteq Items(queue) \cup {m}
      BY <3>1, <3>3
    <3> QED
      BY <2>0, <3>1, <3>2, <3>4
  <2>2. CASE CallbackReturns \/ UNCHANGED vars
    <3>1. indicating' \in BOOLEAN /\ UNCHANGED <<terminated, toServer, toClient, queue>>
      BY <2>0, <2>2 DEF CallbackReturns, vars
    <3> QED
      BY <2>0, <3>1
  <2>3. CASE Indicate
    <3> PICK m : m = [id |-> 0, type |-> "indication", value |-> <<>>, reason |-> "none"]
      OBVIOUS
    <3>1. toClient' = Append(toClient, m) /\ UNCHANGED <<indicating, terminated, toServer, queue>>
      BY <2>3 DEF Indicate
    <3>2. ResponseTyped(m)
      BY EmptySeq DEF ResponseTyped, Values
    <3>3. Items(toClient') = Items(toClient) \cup {m}
      BY <2>0, <3>1, AppendItem
    <3> QED
      BY <2>0, <3>1, <3>2, <3>3
  <2>4. CASE Disconnect
    <3>1. /\ terminated' = TRUE /\ toServer' = <<>> /\ toClient' = <<>>
          /\ UNCHANGED <<indicating, queue>>
      BY <2>4 DEF Disconnect
    <3> QED
      BY <2>0, <3>1, EmptyItems
  <2> QED
    BY <2>1, <2>2, <2>3, <2>4
<1>3. \A u \in Threads : ProcTyped(proc[u])'
  BY <1>1 DEF DataTyped, ProcTyped
<1>4. \A m \in Items(toServer') : RequestTyped(m)
  BY <1>2 DEF DataTyped
<1> QED
  BY <1>1, <1>2, <1>3, <1>4 DEF DataTyped, Items, RequestTyped, ResponseTyped

\* Every step keeps the types.
LEMMA DataNext ==
  ASSUME Flow, DataTyped, [Next]_vars
  PROVE  DataTyped'
<1>1. CASE \E t \in Threads : Call(t) \/ Procedure(t)
  BY <1>1, CallTyped, BeginTyped, SendTyped, TakeTyped, EndTyped DEF Procedure, Ends
<1>2. CASE Server
  BY <1>2, ServerTyped
<1>3. CASE OnPdu \/ CallbackReturns \/ Indicate \/ Disconnect \/ UNCHANGED vars
  BY <1>3, OthersTyped
<1> QED
  BY <1>1, <1>2, <1>3 DEF Next

\* The types hold at first.
LEMMA DataInit == Init => DataTyped
<1> SUFFICES ASSUME Init PROVE DataTyped
  OBVIOUS
<1>1. /\ scenario \in Scenarios /\ indicating = FALSE /\ terminated = FALSE
      /\ proc = [t \in Threads |-> Idle] /\ queue = <<>> /\ toServer = <<>> /\ toClient = <<>>
      /\ mtu = [client |-> DefaultMtu, server |-> DefaultMtu]
      /\ attrs = [h \in Handles |-> Bytes(0, h, 3)] /\ prepared = [h \in Handles |-> <<>>]
      /\ sent = 0
  BY DEF Init
<1>2. scenario \in [Threads -> Seq(Calls)]
  BY <1>1, GattAssumption DEF Calls
<1>3. \A t \in Threads : ProcTyped(proc[t])
  <2>1. sent \in Nat
    BY <1>1
  <2>2. ProcTyped(Idle)
    BY <2>1, IdleTyped
  <2> QED
    BY <1>1, <2>2
<1>4. attrs \in [Handles -> Values]
  <2>1. \A h \in Handles : Bytes(0, h, 3) \in Values
    BY GattAssumption, BytesTyped
  <2> QED
    BY <1>1, <2>1
<1>5. prepared \in [Handles -> Seq(Writes)]
  BY <1>1, EmptySeq
<1>6. Items(toServer) = {} /\ Items(toClient) = {} /\ Items(queue) = {}
  BY <1>1, EmptyItems
<1>7. mtu \in [client : Nat, server : Nat] /\ mtu.client >= DefaultMtu /\ mtu.server >= DefaultMtu
  BY <1>1 DEF DefaultMtu
<1> QED
  BY <1>1, <1>2, <1>3, <1>4, <1>5, <1>6, <1>7 DEF DataTyped

\* Every variable keeps its type: only the procedure that has the lock sends or
\* waits, values stay bytes, and no exchange puts an MTU below the default.
THEOREM TypeCorrect == Spec => []TypeOK
<1>1. Init => GattInv /\ DataTyped
  BY GattInvInit, DataInit
<1>2. GattInv /\ DataTyped /\ [Next]_vars => (GattInv /\ DataTyped)'
  <2> SUFFICES ASSUME GattInv, DataTyped, [Next]_vars PROVE (GattInv /\ DataTyped)'
    OBVIOUS
  <2>1. DataTyped'
    BY DataNext DEF GattInv
  <2> QED
    BY <2>1, FlowStep, ControlNext, OursNext, OwnNext DEF GattInv
<1>3. GattInv /\ DataTyped => TypeOK
  <2> SUFFICES ASSUME GattInv, DataTyped PROVE TypeOK
    OBVIOUS
  <2>1. procLock \in Threads \cup {None} /\ \A t \in Threads : Controlled(t)
    BY DEF GattInv, Control
  <2>2. Len(sender) = sent
    BY DEF GattInv, Flow, Shape
  <2>3. \A t \in Threads :
          /\ proc[t].pc \in {"idle", "lock", "send", "wait", "stop"}
          /\ proc[t].value \in Values /\ proc[t].data \in Values
          /\ proc[t].own <= sent /\ proc[t].taken <= sent
    BY DEF DataTyped, ProcTyped
  <2>4. \A t \in Threads :
          proc[t].pc \in {"send", "wait", "stop"} /\ Locked(proc[t]) => procLock = t
    BY <2>1 DEF Controlled, Active
  <2>5. \A h \in Handles : attrs[h] \in Values
    BY DEF DataTyped
  <2> QED
    BY <2>1, <2>2, <2>3, <2>4, <2>5 DEF TypeOK, DataTyped
<1> QED
  BY <1>1, <1>2, <1>3, PTL DEF Spec

-----------------------------------------------------------------------------
(***************************************************************************)
(* The order of requests and responses.                                    *)
(***************************************************************************)
\* Every request on its way is later than n.
Past(n) == \A m \in Items(toServer) : n < m.id

\* What was answered, and what a thread has taken, is past.
LEMMA PastOf ==
  ASSUME Flow, InOrder
  PROVE  /\ Past(0) /\ \A x \in Items(toClient) \cup Items(queue) : Past(x.id)
         /\ \A t \in Threads : Past(proc[t].taken)
<1>1. sent \in Nat /\ \A m \in Items(toServer) : m.id \in 1..sent
  BY NumbersOf
<1> QED
  BY <1>1 DEF InOrder, Past

\* A step that sends no request.
LEMMA OrderKept ==
  ASSUME Flow, InOrder, toServer' \in {toServer, <<>>},
         \A x \in Items(toClient') \cup Items(queue') : Past(x.id),
         \A t \in Threads : Past(proc'[t].taken)
  PROVE  InOrder'
<1>1. CASE toServer' = toServer
  BY <1>1 DEF InOrder, Past, Items
<1>2. CASE toServer' = <<>>
  <2>1. Items(<<>>) = {} /\ Len(<<>>) = 0
    BY EmptyItems
  <2>2. Items(toServer') = {} /\ 1..Len(toServer') = {}
    BY <1>2, <2>1
  <2> QED
    BY <2>2 DEF InOrder, Items
<1> QED
  BY <1>1, <1>2

\* A request that is sent is later than every other.
LEMMA OrderOfSend ==
  ASSUME Flow, DataTyped, InOrder, NEW t \in Threads, Send(t)
  PROVE  InOrder'
<1>0. Shape /\ sent \in Nat /\ IsSequence(toServer)
  BY DEF Flow, Shape
<1> PICK r : r = Request(proc[t])
  OBVIOUS
<1> PICK n : n = Len(toServer)
  OBVIOUS
<1>1. /\ toServer' = IF terminated THEN toServer ELSE Append(toServer, r)
      /\ queue' = queue /\ toClient' = toClient
  BY DEF Send
<1>2. r.id = sent + 1
  BY DEF Request
<1>3. \A u \in Threads : proc'[u].taken = proc[u].taken
  BY <1>0, EffectOfSend
<1>4. CASE terminated
  BY <1>1, <1>3, <1>4, PastOf, OrderKept
<1>5. CASE ~terminated
  <2>1. /\ n \in Nat /\ Len(toServer') = n + 1 /\ toServer'[n + 1] = r
        /\ \A i \in 1..n : toServer'[i] = toServer[i]
        /\ Items(toServer') = Items(toServer) \cup {r}
    BY <1>0, <1>1, <1>5, AppendItem
  <2>2. \A m \in Items(toServer) : m.id \in Nat /\ m.id < r.id
    BY <1>0, <1>2, NumbersOf
  <2>3. ASSUME NEW i \in 1..(n + 1), NEW j \in 1..(n + 1), i < j
        PROVE  toServer'[i].id < toServer'[j].id
    <3>1. i \in 1..n /\ toServer'[i] = toServer[i] /\ toServer[i] \in Items(toServer)
      BY <2>1, <2>3 DEF Items
    <3>2. CASE j = n + 1
      BY <2>1, <2>2, <3>1, <3>2
    <3>3. CASE j \in 1..n
      BY <2>1, <2>3, <3>1, <3>3 DEF InOrder
    <3> QED
      BY <2>1, <3>2, <3>3
  <2>4. \A x \in Items(toClient) \cup Items(queue) : x.id < r.id
    <3>1. \A x \in Items(toClient) \cup Items(queue) : x.id = 0 \/ x.id \in 1..sent
      BY DEF Flow, Typed, FromSender
    <3> QED
      BY <1>0, <1>2, <3>1
  <2>5. \A u \in Threads : proc'[u].taken < r.id
    <3>1. \A u \in Threads : proc[u].taken \in Nat /\ proc[u].taken <= sent
      BY DEF DataTyped, ProcTyped
    <3> QED
      BY <1>0, <1>2, <1>3, <3>1
  <2>6. \A m \in Items(toServer') :
          /\ \A x \in Items(toClient') \cup Items(queue') : x.id < m.id
          /\ \A u \in Threads : proc'[u].taken < m.id
    BY <1>1, <1>3, <2>1, <2>4, <2>5 DEF InOrder
  <2>7. \A i, j \in 1..Len(toServer') : i < j => toServer'[i].id < toServer'[j].id
    BY <2>1, <2>3
  <2> QED
    BY <2>6, <2>7 DEF InOrder, Items
<1> QED
  BY <1>4, <1>5

\* The server's next request is the earliest one.
LEMMA NextRequest ==
  ASSUME Flow, InOrder, toServer # <<>>, toServer' = Tail(toServer)
  PROVE  /\ \A i, j \in 1..Len(toServer') : i < j => toServer'[i].id < toServer'[j].id
         /\ \A m \in Items(toServer') : m \in Items(toServer) /\ Asking.id < m.id
         /\ Asking \in Items(toServer)
<1>1. IsSequence(toServer)
  BY DEF Flow, Shape
<1>2. /\ Len(toServer) \in Nat \ {0} /\ Len(toServer') = Len(toServer) - 1
      /\ Asking = toServer[1] /\ Asking \in Items(toServer)
      /\ \A i \in 1..Len(toServer') : toServer'[i] = toServer[i + 1] /\ i + 1 \in 1..Len(toServer)
  BY <1>1, TailItem DEF Asking
<1>3. \A i, j \in 1..Len(toServer') : i < j => toServer'[i].id < toServer'[j].id
  <2> SUFFICES ASSUME NEW i \in 1..Len(toServer'), NEW j \in 1..Len(toServer'), i < j
               PROVE  toServer'[i].id < toServer'[j].id
    OBVIOUS
  <2>1. i + 1 \in 1..Len(toServer) /\ j + 1 \in 1..Len(toServer) /\ i + 1 < j + 1
    BY <1>2
  <2>2. toServer[i + 1].id < toServer[j + 1].id
    BY <2>1 DEF InOrder
  <2> QED
    BY <1>2, <2>2
<1>4. ASSUME NEW i \in 1..Len(toServer')
      PROVE  Asking.id < toServer'[i].id /\ toServer'[i] \in Items(toServer)
  <2>1. 1 \in 1..Len(toServer) /\ i + 1 \in 1..Len(toServer) /\ 1 < i + 1
    BY <1>2
  <2>2. toServer[1].id < toServer[i + 1].id
    BY <2>1 DEF InOrder
  <2> QED
    BY <1>2, <2>1, <2>2 DEF Items
<1>5. \A m \in Items(toServer') : m \in Items(toServer) /\ Asking.id < m.id
  BY <1>4 DEF Items
<1> QED
  BY <1>2, <1>3, <1>5

\* What a step of the server leaves, or adds.
LEMMA ServerEffect ==
  ASSUME Flow, Server
  PROVE  /\ toServer # <<>> /\ toServer' = Tail(toServer) /\ Asking \in Items(toServer)
         /\ UNCHANGED <<client>>
         /\ \A x \in Items(toClient') : x \in Items(toClient) \/ x.id = Asking.id
<1>0. IsSequence(toServer) /\ IsSequence(toClient)
  BY DEF Flow, Shape
<1>1. toServer # <<>> /\ UNCHANGED <<client>>
  BY DEF Server, OnRead, OnReadBlob, OnWrite, OnWriteCommand, Refuse, OnPrepareWrite,
         OnExecuteWrite, OnExchangeMtu, OnDiscover, Asked
<1> DEFINE Answers == \E m : m.id = Asking.id /\ Answer(m)
<1>2. ASSUME NEW v, Answer(Response(Asking, v)) PROVE Answers
  BY <1>2 DEF Response
<1>3. ASSUME NEW why, Answer(Error(Asking, why)) PROVE Answers
  BY <1>3 DEF Error
<1> HIDE DEF Answers
<1>4. Answers \/ OnWriteCommand
  <2>1. CASE OnReadBlob
    BY <1>2, <1>3, <2>1 DEF OnReadBlob
  <2>2. CASE OnDiscover
    BY <1>2, <1>3, <2>2 DEF OnDiscover
  <2>3. CASE OnRead \/ OnWrite \/ Refuse \/ OnPrepareWrite \/ OnExecuteWrite \/ OnExchangeMtu
    BY <1>2, <1>3, <2>3, Zenon
       DEF OnRead, OnWrite, Refuse, OnPrepareWrite, OnExecuteWrite, OnExchangeMtu
  <2> QED
    BY <2>1, <2>2, <2>3 DEF Server
<1>5. CASE Answers
  <2>1. PICK m : m.id = Asking.id /\ toServer' = Tail(toServer) /\ toClient' = Append(toClient, m)
    BY <1>5 DEF Answers, Answer
  <2>2. Items(toClient') = Items(toClient) \cup {m}
    BY <1>0, <2>1, AppendItem
  <2> QED
    BY <1>0, <1>1, <2>1, <2>2, TailItem DEF Asking
<1>6. CASE OnWriteCommand
  BY <1>0, <1>1, <1>6, TailItem DEF OnWriteCommand, Asking
<1> QED
  BY <1>4, <1>5, <1>6

\* The request handled is earlier than those still on their way.
LEMMA OrderOfServer ==
  ASSUME Flow, InOrder, Server
  PROVE  InOrder'
<1>1. /\ toServer # <<>> /\ toServer' = Tail(toServer) /\ Asking \in Items(toServer)
      /\ UNCHANGED <<client>>
      /\ \A x \in Items(toClient') : x \in Items(toClient) \/ x.id = Asking.id
  BY ServerEffect
<1>2. proc' = proc /\ queue' = queue
  BY <1>1 DEF client
<1>3. /\ \A i, j \in 1..Len(toServer') : i < j => toServer'[i].id < toServer'[j].id
      /\ \A m \in Items(toServer') : m \in Items(toServer) /\ Asking.id < m.id
  BY <1>1, NextRequest
<1>4. \A m \in Items(toServer') :
        /\ \A x \in Items(toClient') \cup Items(queue') : x.id < m.id
        /\ \A u \in Threads : proc'[u].taken < m.id
  BY <1>1, <1>2, <1>3 DEF InOrder
<1> QED
  BY <1>3, <1>4 DEF InOrder, Items

\* Every step keeps the order.
LEMMA OrderNext ==
  ASSUME Flow, DataTyped, InOrder, [Next]_vars
  PROVE  InOrder'
<1>0. Shape /\ IsSequence(toClient) /\ IsSequence(queue)
  BY DEF Flow, Shape
<1>1. /\ Past(0) /\ \A x \in Items(toClient) \cup Items(queue) : Past(x.id)
      /\ \A t \in Threads : Past(proc[t].taken)
  BY PastOf
<1>2. ASSUME NEW t \in Threads, Call(t) \/ Begin(t) \/ Ends(t)
      PROVE  InOrder'
  <2>1. UNCHANGED <<toServer, toClient>> /\ Items(queue') \subseteq Items(queue)
    <3>1. CASE Call(t) \/ Begin(t)
      BY <3>1 DEF Call, Begin, Items
    <3>2. CASE Ends(t)
      BY <1>0, <3>2, EndKeeps
    <3> QED
      BY <1>2, <3>1, <3>2
  <2>2. /\ \A u \in Threads : u # t => proc'[u] = proc[u]
        /\ proc'[t].taken \in {0, proc[t].taken}
    <3>1. CASE Call(t) \/ Begin(t)
      BY <1>0, <3>1, EffectOfCall, EffectOfBegin
    <3>2. CASE Ends(t)
      BY <1>0, <3>2 DEF Ends, Raise, GiveUp, Stop, Idle, Shape
    <3> QED
      BY <1>2, <3>1, <3>2
  <2>3. \A u \in Threads : Past(proc'[u].taken)
    BY <1>1, <2>2
  <2> QED
    BY <1>1, <2>1, <2>3, OrderKept
<1>3. ASSUME NEW t \in Threads, Send(t) PROVE InOrder'
  BY <1>3, OrderOfSend
<1>4. ASSUME NEW t \in Threads, Take(t) PROVE InOrder'
  <2> PICK m : m = Head(queue)
    OBVIOUS
  <2>1. /\ UNCHANGED <<toServer, toClient>> /\ m \in Items(queue)
        /\ Items(queue') \subseteq Items(queue)
    BY <1>4, Taken DEF Take
  <2>2. proc'[t].taken \in {m.id, proc[t].taken} /\ \A u \in Threads : u # t => proc'[u] = proc[u]
    BY <1>0, <1>4, EffectOfTake
  <2>3. \A u \in Threads : Past(proc'[u].taken)
    BY <1>1, <2>1, <2>2
  <2> QED
    BY <1>1, <2>1, <2>3, OrderKept
<1>5. CASE Server
  BY <1>5, OrderOfServer
<1>6. CASE OnPdu \/ CallbackReturns \/ Indicate \/ Disconnect \/ UNCHANGED vars
  <2>1. proc' = proc
    BY <1>6 DEF OnPdu, CallbackReturns, Indicate, Disconnect, vars
  <2>2. CASE OnPdu
    <3> PICK m : m = Head(toClient)
      OBVIOUS
    <3>1. /\ toClient # <<>> /\ toClient' = Tail(toClient) /\ toServer' = toServer
          /\ (queue' = queue \/ queue' = Append(queue, m))
      BY <2>2 DEF OnPdu
    <3>2. m \in Items(toClient) /\ Items(toClient') \subseteq Items(toClient)
      BY <1>0, <3>1, TailItem
    <3>3. Items(Append(queue, m)) = Items(queue) \cup {m}
      BY <1>0, AppendItem
    <3>4. \A x \in Items(toClient') \cup Items(queue') : Past(x.id)
      BY <1>1, <3>1, <3>2, <3>3
    <3> QED
      BY <1>1, <2>1, <3>1, <3>4, OrderKept
  <2>3. CASE CallbackReturns \/ UNCHANGED vars
    <3>1. UNCHANGED <<toServer, toClient, queue>>
      BY <2>3 DEF CallbackReturns, vars
    <3> QED
      BY <1>1, <2>1, <3>1, OrderKept
  <2>4. CASE Indicate
    <3>1. PICK m : m.id = 0 /\ toClient' = Append(toClient, m) /\ UNCHANGED <<toServer, queue>>
      BY <2>4 DEF Indicate
    <3>2. Items(toClient') = Items(toClient) \cup {m}
      BY <1>0, <3>1, AppendItem
    <3> QED
      BY <1>1, <2>1, <3>1, <3>2, OrderKept
  <2>5. CASE Disconnect
    <3>1. toServer' = <<>> /\ toClient' = <<>> /\ queue' = queue
      BY <2>5 DEF Disconnect
    <3>2. Items(toClient') = {}
      BY <3>1, EmptyItems
    <3> QED
      BY <1>1, <2>1, <3>1, <3>2, OrderKept
  <2> QED
    BY <1>6, <2>2, <2>3, <2>4, <2>5
<1> QED
  BY <1>2, <1>3, <1>4, <1>5, <1>6 DEF Next, Procedure, Ends

-----------------------------------------------------------------------------
(***************************************************************************)
(* What is known of a procedure that begins, and of the write commands on  *)
(* their way.                                                              *)
(***************************************************************************)
LEMMA FreshNext ==
  ASSUME Flow, Control, DataTyped, \A t \in Threads : Fresh(proc[t]), [Next]_vars
  PROVE  \A t \in Threads : Fresh(proc[t])'
<1>0. Shape /\ \A t \in Threads : Controlled(t)
  BY DEF Flow, Control
<1>1. ASSUME NEW t \in Threads, \A u \in Threads : u # t => proc'[u] = proc[u], Fresh(proc'[t])
      PROVE  \A u \in Threads : Fresh(proc[u])'
  BY <1>1
<1>2. ASSUME NEW t \in Threads, Call(t) PROVE \A u \in Threads : Fresh(proc[u])'
  <2>1. \A u \in Threads : u # t => proc'[u] = proc[u]
    BY <1>0, <1>2, EffectOfCall
  <2>2. /\ proc'[t].pc = "lock" /\ proc'[t].own = 0 /\ proc'[t].taken = 0
        /\ proc'[t].data = <<>> /\ proc'[t].offset = 0 /\ proc'[t].result = "none"
    BY <1>0, <1>2 DEF Call, Shape, Idle
  <2>3. Fresh(proc'[t])
    BY <2>2 DEF Fresh
  <2> QED
    BY <1>1, <2>1, <2>3
<1>3. ASSUME NEW t \in Threads, Begin(t) PROVE \A u \in Threads : Fresh(proc[u])'
  <2> PICK p : p = proc[t]
    OBVIOUS
  <2> PICK q : q = proc'[t]
    OBVIOUS
  <2>1. /\ q = Finish(p, "none") \/ q = Begun(p)
        /\ p.pc = "lock" /\ DOMAIN p = Fields
    BY <1>0, <1>3, Beginning
  <2>2. Fresh(p)
    OBVIOUS
  <2>3. q.pc \in {"stop", "send"} /\ q.own = p.own
    <3>1. CASE q = Finish(p, "none")
      BY <2>1, <3>1, Finished
    <3>2. CASE q = Begun(p)
      BY <2>1, <3>2, BegunKeeps
    <3> QED
      BY <2>1, <3>1, <3>2
  <2>4. Fresh(q)
    BY <2>1, <2>2, <2>3 DEF Fresh
  <2> QED
    BY <1>0, <1>1, <1>3, <2>4, EffectOfBegin
<1>4. ASSUME NEW t \in Threads, Send(t) PROVE \A u \in Threads : Fresh(proc[u])'
  <2>1. proc'[t].pc \in {"stop", "wait"}
    BY <1>0, <1>4, EffectOfSend
  <2>2. Fresh(proc'[t])
    BY <2>1 DEF Fresh
  <2> QED
    BY <1>0, <1>1, <1>4, <2>2, EffectOfSend
<1>5. ASSUME NEW t \in Threads, Take(t) PROVE \A u \in Threads : Fresh(proc[u])'
  <2> PICK m : m = Head(queue)
    OBVIOUS
  <2>1. /\ proc[t].pc = "wait" /\ proc'[t].kind = proc[t].kind
        /\ proc'[t].pc \in {"wait", "send", "stop"}
    BY <1>0, <1>5, EffectOfTake
  <2>2. proc[t].kind # "write_command"
    BY <1>0, <2>1 DEF Controlled
  <2>3. Fresh(proc'[t])
    BY <2>1, <2>2 DEF Fresh
  <2> QED
    BY <1>0, <1>1, <1>5, <2>3, EffectOfTake
<1>6. ASSUME NEW t \in Threads, Ends(t) PROVE \A u \in Threads : Fresh(proc[u])'
  <2>1. proc'[t].pc = "idle"
    BY <1>0, <1>6, EffectOfEnd
  <2>2. Fresh(proc'[t])
    BY <2>1 DEF Fresh
  <2> QED
    BY <1>0, <1>1, <1>6, <2>2, EffectOfEnd
<1>7. CASE OnPdu \/ CallbackReturns \/ Server \/ Indicate \/ Disconnect \/ UNCHANGED vars
  BY <1>7, FlowOfRest DEF Elsewhere
<1> QED
  BY <1>2, <1>3, <1>4, <1>5, <1>6, <1>7 DEF Next, Procedure, Ends

\* A locked procedure never asks for what no procedure waits for.
LEMMA LockedRequest ==
  ASSUME NEW p, p.kind \in ProcedureKinds
  PROVE  RequestType(p) # "write_command" \/ p.kind = "write_command"
  BY RequestTypes

\* Steps after which no more requests are on their way.
LEMMA FewerRequests ==
  ASSUME Flow, [Next]_vars, \A t \in Threads : ~Send(t)
  PROVE  Items(toServer') \subseteq Items(toServer)
<1>0. IsSequence(toServer)
  BY DEF Flow, Shape
<1>1. CASE \E t \in Threads : Call(t) \/ Begin(t) \/ Take(t) \/ Ends(t)
  BY <1>1 DEF Call, Begin, Take, Ends, Raise, GiveUp, Stop
<1>2. CASE Server
  BY <1>0, <1>2, ServerEffect, TailItem
<1>3. CASE OnPdu \/ CallbackReturns \/ Indicate \/ UNCHANGED vars
  BY <1>3 DEF OnPdu, CallbackReturns, Indicate, vars
<1>4. CASE Disconnect
  BY <1>4, EmptyItems DEF Disconnect
<1> QED
  BY <1>1, <1>2, <1>3, <1>4 DEF Next, Procedure, Ends

Before(p, m) == m.type = "write_command" => p.taken = 0 /\ (p.own = 0 \/ m.id < p.own)

\* Write commands on their way stay earlier than the requests of the holder.
LEMMA CommandsNext ==
  ASSUME Flow, Control, DataTyped, InOrder, Ours, CommandsBefore, ~astray',
         \A t \in Threads : Fresh(proc[t]), [Next]_vars
  PROVE  CommandsBefore'
<1>0. Shape /\ (\A t \in Threads : Controlled(t)) /\ None \notin Threads
  BY ThreadNumbers DEF Flow, Control
<1>1. \A t \in Threads : Holds(t) => \A m \in Items(toServer) : Before(proc[t], m)
  BY DEF CommandsBefore, Before
<1>2. ASSUME \A t \in Threads : Holds(t)' => \A m \in Items(toServer') : Before(proc'[t], m)
      PROVE  CommandsBefore'
  BY <1>2 DEF CommandsBefore, Before, Items
<1>3. ASSUME NEW t \in Threads, Send(t) PROVE CommandsBefore'
  <2> PICK p : p = proc[t]
    OBVIOUS
  <2> PICK q : q = proc'[t]
    OBVIOUS
  <2> PICK r : r = Request(p)
    OBVIOUS
  <2>1. /\ p.pc = "send" /\ q.taken = p.taken /\ procLock' = procLock
        /\ \A u \in Threads : u # t => proc'[u] = proc[u]
        /\ IF p.kind = "write_command" THEN q.pc = "stop" ELSE q.pc = "wait" /\ q.own = sent + 1
    BY <1>0, <1>3, EffectOfSend
  <2>2. p.kind = "write_command" => q.own = p.own
    BY <1>0, <1>3, Sending DEF SameState, SameCall
  <2>3. r.type = RequestType(p)
    BY DEF Request
  <2>4. p.kind \in ProcedureKinds
    BY <2>1 DEF DataTyped, ProcTyped
  <2>5. Items(toServer') \subseteq Items(toServer) \cup {r}
    BY <1>0, <1>3, AppendItem DEF Send, Shape
  <2>6. \A m \in Items(toServer) : m.id <= sent /\ m.id \in Nat /\ sent \in Nat
    BY NumbersOf
  <2>7. ASSUME Holds(t)', NEW m \in Items(toServer') PROVE Before(q, m)
    <3>1. Holds(t)
      BY <2>1, <2>7 DEF Holds
    <3>2. CASE p.kind = "write_command"
      <4>1. q.taken = 0 /\ q.own = 0
        BY <1>0, <2>1, <2>2, <3>2 DEF Fresh, Controlled
      <4> QED
        BY <4>1 DEF Before
    <3>3. CASE p.kind # "write_command"
      <4>1. r.type # "write_command"
        BY <2>3, <2>4, <3>3, LockedRequest
      <4>2. CASE m \in Items(toServer)
        <5>1. Before(p, m) /\ m.id < sent + 1
          BY <1>1, <2>6, <3>1, <4>2
        <5> QED
          BY <2>1, <3>3, <5>1 DEF Before
      <4> QED
        BY <2>5, <2>7, <4>1, <4>2 DEF Before
    <3> QED
      BY <3>2, <3>3
  <2>8. ASSUME NEW u \in Threads, u # t, Holds(u)', NEW m \in Items(toServer')
        PROVE  Before(proc'[u], m)
    <3>1. Holds(u) /\ proc'[u] = proc[u]
      BY <2>1, <2>8 DEF Holds
    <3>2. procLock # t
      BY <2>8, <3>1 DEF Holds
    <3>3. p.kind = "discover"
      BY <1>0, <2>1, <3>2 DEF Controlled, Active, Locked
    <3>4. r.type # "write_command"
      BY <2>3, <2>4, <3>3, LockedRequest
    <3> QED
      BY <1>1, <2>5, <2>8, <3>1, <3>4 DEF Before
  <2> QED
    BY <1>2, <2>7, <2>8
<1>4. CASE \A t \in Threads : ~Send(t)
  <2>0. Items(toServer') \subseteq Items(toServer)
    BY <1>4, FewerRequests
  <2>1. ASSUME NEW t \in Threads, \A u \in Threads : u # t => proc'[u] = proc[u],
               \A u \in Threads : procLock' = u /\ u # t => procLock = u,
               Holds(t)' => \A m \in Items(toServer') : Before(proc'[t], m)
        PROVE  CommandsBefore'
    <3>1. ASSUME NEW u \in Threads, u # t, Holds(u)', NEW m \in Items(toServer')
          PROVE  Before(proc'[u], m)
      <4>1. Holds(u) /\ proc'[u] = proc[u]
        BY <2>1, <3>1 DEF Holds
      <4> QED
        BY <1>1, <2>0, <3>1, <4>1
    <3> QED
      BY <1>2, <2>1, <3>1
  <2>2. ASSUME NEW t \in Threads, Call(t) PROVE CommandsBefore'
    <3>1. /\ proc'[t].pc = "lock" /\ procLock' = procLock
          /\ \A u \in Threads : u # t => proc'[u] = proc[u]
      BY <1>0, <2>2, EffectOfCall DEF Call
    <3> QED
      BY <2>1, <3>1 DEF Holds
  <2>3. ASSUME NEW t \in Threads, Begin(t) PROVE CommandsBefore'
    <3> PICK p : p = proc[t]
      OBVIOUS
    <3> PICK q : q = proc'[t]
      OBVIOUS
    <3>1. /\ q = Finish(p, "none") \/ q = Begun(p)
          /\ p.pc = "lock" /\ DOMAIN p = Fields
      BY <1>0, <2>3, Beginning
    <3>2. q.taken = p.taken /\ q.own = p.own
      <4>1. CASE q = Finish(p, "none")
        BY <3>1, <4>1, Finished
      <4>2. CASE q = Begun(p)
        BY <3>1, <4>2, BegunKeeps
      <4> QED
        BY <3>1, <4>1, <4>2
    <3>3. p.own = 0 /\ p.taken = 0
      BY <3>1 DEF Fresh
    <3>4. \A m : Before(q, m)
      BY <3>2, <3>3 DEF Before
    <3>5. /\ \A u \in Threads : u # t => proc'[u] = proc[u]
          /\ procLock' \in {t, None}
      BY <1>0, <2>3, EffectOfBegin
    <3> QED
      BY <1>0, <2>1, <3>4, <3>5
  <2>4. ASSUME NEW t \in Threads, Take(t) PROVE CommandsBefore'
    <3> PICK m : m = Head(queue)
      OBVIOUS
    <3>1. /\ proc[t].pc = "wait" /\ proc'[t].own = proc[t].own
          /\ IF Relevant(proc[t], m) THEN proc'[t].taken = m.id ELSE proc'[t] = proc[t]
          /\ \A u \in Threads : u # t => proc'[u] = proc[u]
          /\ procLock' = procLock
      BY <1>0, <2>4, EffectOfTake
    <3>2. ASSUME Holds(t)', NEW x \in Items(toServer') PROVE Before(proc'[t], x)
      <4>1. Holds(t) /\ x \in Items(toServer)
        BY <2>0, <3>1, <3>2 DEF Holds
      <4>2. Before(proc[t], x)
        BY <1>1, <4>1
      <4>3. CASE Relevant(proc[t], m)
        <5>1. m.id = proc[t].own
          BY <2>4, <4>1, <4>3, TakesOwn DEF Holds
        <5>2. m \in Items(queue) /\ m.id \in 1..sent
          BY <2>4, Taken
        <5>3. m.id < x.id
          BY <4>1, <5>2 DEF InOrder
        <5>4. x.id \in Nat /\ m.id \in Nat /\ m.id # 0
          BY <4>1, <5>2, NumbersOf
        <5>5. x.type # "write_command"
          BY <4>2, <5>1, <5>3, <5>4 DEF Before
        <5> QED
          BY <5>5 DEF Before
      <4>4. CASE ~Relevant(proc[t], m)
        BY <3>1, <4>2, <4>4
      <4> QED
        BY <4>3, <4>4
    <3> QED
      BY <2>1, <3>1, <3>2
  <2>5. ASSUME NEW t \in Threads, Ends(t) PROVE CommandsBefore'
    <3>1. /\ proc'[t].pc = "idle" /\ procLock' \in {procLock, None}
          /\ \A u \in Threads : u # t => proc'[u] = proc[u]
      BY <1>0, <2>5, EffectOfEnd
    <3> QED
      BY <1>0, <2>1, <3>1 DEF Holds
  <2>6. CASE OnPdu \/ CallbackReturns \/ Server \/ Indicate \/ Disconnect \/ UNCHANGED vars
    <3>1. proc' = proc /\ procLock' = procLock
      BY <2>6, FlowOfRest DEF Elsewhere
    <3>2. \A t \in Threads : Holds(t)' => Holds(t)
      BY <3>1 DEF Holds
    <3> QED
      BY <1>1, <1>2, <2>0, <3>1, <3>2
  <2> QED
    BY <1>4, <2>2, <2>3, <2>4, <2>5, <2>6 DEF Next, Procedure, Ends
<1> QED
  BY <1>3, <1>4

-----------------------------------------------------------------------------
(***************************************************************************)
(* Transfers.  The server handles a request of the holder of the lock, or  *)
(* one that the transfer of the holder does not depend on.                 *)
(***************************************************************************)
LEMMA PrefixSelf ==
  ASSUME NEW v \in Values
  PROVE  Prefix(v, v) /\ SubSeq(v, 1, Len(v)) = v /\ Prefix(<<>>, v)
<1>1. Len(v) \in Nat /\ <<>> \in Values /\ Len(<<>>) = 0
  BY Types, EmptySeq DEF Values
<1>2. Prefix(v, v) /\ Prefix(<<>>, v)
  BY <1>1, Prefixes
<1> QED
  BY <1>2 DEF Prefix

\* What a read returns begins the value.
LEMMA SliceAtStart ==
  ASSUME NEW v \in Values, NEW n \in Nat
  PROVE  Prefix(Slice(v, 0, n), v)
<1>z. PICK z : z = Smaller(0 + n, Len(v))
  OBVIOUS
<1>0. 0 \in Nat /\ 0 + 1 = 1
  OBVIOUS
<1>1. /\ Slice(v, 0, n) = SubSeq(v, 1, z) /\ z \in Nat /\ z <= Len(v)
  <2>1. /\ Slice(v, 0, n) = SubSeq(v, 0 + 1, z) /\ z \in Nat /\ z <= Len(v)
    BY <1>0, <1>z, Slices
  <2> QED
    BY <1>0, <2>1
<1>2. /\ SubSeq(v, 1, z) \in Values /\ Len(SubSeq(v, 1, z)) = z
      /\ \A i \in 1..z : SubSeq(v, 1, z)[i] = v[i]
  BY <1>1, Front
<1>w. PICK w : w = SubSeq(v, 1, z)
  OBVIOUS
<1>3. w \in Values /\ Len(w) <= Len(v) /\ \A i \in 1..Len(w) : v[i] = w[i]
  BY <1>1, <1>2, <1>w
<1>4. Prefix(w, v)
  BY <1>3, Prefixes
<1> QED
  BY <1>1, <1>w, <1>4

\* The holder of the lock waits for the response to any request but these.
LEMMA Awaited ==
  ASSUME Flow, Control, Ours, ~astray, toServer # <<>>,
         Asking.type \in
           {"read", "read_blob", "write", "prepare_write", "execute_write", "set_mtu"},
         NEW t \in Threads, Holds(t)
  PROVE  proc[t].pc = "wait" /\ proc[t].own = Asking.id
<1> PICK h : h = Asking
  OBVIOUS
<1>1. h \in Items(toServer)
  BY TailItem DEF Asking, Flow, Shape
<1>2. FromSender(h) /\ h.id # 0
  BY <1>1, NumbersOf DEF Flow, Typed
<1>3. sender[h.id] \notin Unlocked
  BY <1>2 DEF FromSender, Unlocked
<1>4. h.id \in InFlight
  BY <1>1, <1>2 DEF InFlight, Ids, Items
<1>5. PICK u \in Threads : /\ procLock = u
                           /\ proc[u].pc \in {"idle", "lock"}
                                \/ (proc[u].pc = "wait" /\ proc[u].own = h.id)
  BY <1>3, <1>4 DEF Ours, Awaits
<1> QED
  BY <1>5 DEF Holds

\* What the server handles is the holder's request.
HandlesOwn(p) ==
  /\ p.pc = "wait" /\ p.own = Asking.id /\ p.kind \in ProcedureKinds /\ p.handle \in Handles
  /\ Progress(p) /\ Prepared(p)
  /\ Asking.type = RequestType(p) /\ Asking.handle = p.handle /\ Asking.offset = p.offset
  /\ Asking.value = RequestValue(p)

\* The request of a transfer, when it is handled, is what the holder sent.
LEMMA HandledOwn ==
  ASSUME Flow, Control, Ours, DataTyped, ~astray, toServer # <<>>,
         Asking.type \in
           {"read", "read_blob", "write", "prepare_write", "execute_write", "set_mtu"},
         NEW t \in Threads, Holds(t), Transfer(proc[t])
  PROVE  HandlesOwn(proc[t])
<1> PICK p : p = proc[t]
  OBVIOUS
<1>1. p.pc = "wait" /\ p.own = Asking.id
  BY Awaited
<1>2. p.kind \in ProcedureKinds /\ p.handle \in Handles
  BY <1>1 DEF DataTyped, ProcTyped
<1>3. Asking \in Items(toServer)
  BY RequestAtHand
<1>4. Progress(p) /\ Prepared(p) /\ Asking = OwnRequest(p)
  BY <1>1, <1>3 DEF Transfer
<1> QED
  BY <1>1, <1>2, <1>4 DEF HandlesOwn, OwnRequest

\* The places of the numbers after the server's answer.
LEMMA Served ==
  ASSUME Flow, InOrder, toServer # <<>>, NEW m, Answer(m), m.id = Asking.id
  PROVE  /\ Asking.id \in 1..sent /\ sent \in Nat
         /\ \A x \in Items(toServer') : x \in Items(toServer) /\ x.id # Asking.id
         /\ \A x \in Items(toClient') : (x \in Items(toClient) /\ x.id # Asking.id) \/ x = m
         /\ \A x \in Items(queue) : x.id # Asking.id
<1>1. toServer' = Tail(toServer) /\ toClient' = Append(toClient, m) /\ IsSequence(toClient)
  BY DEF Answer, Flow, Shape
<1>2. /\ \A x \in Items(toServer') : x \in Items(toServer) /\ Asking.id < x.id
      /\ Asking \in Items(toServer)
  BY <1>1, NextRequest
<1>3. Items(toClient') = Items(toClient) \cup {m}
  BY <1>1, AppendItem
<1>4. sent \in Nat /\ \A x \in Items(toServer) : x.id \in 1..sent
  BY NumbersOf
<1>5. \A x \in Items(toClient) \cup Items(queue) : x.id < Asking.id
  BY <1>2 DEF InOrder
<1>6. \A x \in Items(toClient) \cup Items(queue) : x.id \in 1..sent \/ x.id = 0
  BY DEF Flow, Typed, FromSender
<1>7. \A x \in Items(toServer') : x.id # Asking.id
  BY <1>2, <1>4
<1>8. \A x \in Items(toClient) \cup Items(queue) : x.id # Asking.id
  BY <1>2, <1>4, <1>5, <1>6
<1> QED
  BY <1>2, <1>3, <1>4, <1>7, <1>8

\* The request of p is handled: its progress, and what the response says.
LEMMA OwnServed ==
  ASSUME Flow, InOrder, toServer # <<>>, NEW m, Answer(m), m.id = Asking.id, queue' = queue,
         NEW p, p.pc = "wait", p.own = Asking.id, Progress(p)', Replied(p, m)'
  PROVE  Transfer(p)'
<1>1. /\ \A x \in Items(toServer') : x \in Items(toServer) /\ x.id # Asking.id
      /\ \A x \in Items(toClient') : (x \in Items(toClient) /\ x.id # Asking.id) \/ x = m
      /\ \A x \in Items(queue) : x.id # Asking.id
  BY Served
<1>2. \A x \in Items(toServer)' : x.id # p.own
  BY <1>1 DEF Items
<1>3. \A x \in Items(toClient)' \cup Items(queue)' : x.id = p.own => x = m
  BY <1>1 DEF Items
<1>4. \A x \in Items(toClient)' \cup Items(queue)' : x.id = p.own => Replied(p, x)'
  BY <1>3
<1> QED
  BY <1>2, <1>4 DEF Transfer

\* Nothing that p relies on changes.
LEMMA TransferSame ==
  ASSUME NEW p, Transfer(p), UNCHANGED <<mtu, attrs, prepared>>,
         \A m \in Items(toServer)' : p.pc = "wait" /\ m.id = p.own => m \in Items(toServer),
         \A m \in Items(toClient)' \cup Items(queue)' : p.pc = "wait" /\ m.id = p.own =>
           m \in Items(toClient) \cup Items(queue) \/ Replied(p, m)
  PROVE  Transfer(p)'
<1>1. \A m : Replied(p, m) => Replied(p, m)'
  BY DEF Replied, RequestType, RequestValue
<1>2. Prepared(p) => Prepared(p)'
  BY DEF Prepared
<1>3. Progress(p) => Progress(p)'
  BY DEF Progress, Enough
<1>4. OwnRequest(p)' = OwnRequest(p)
  BY DEF OwnRequest, RequestType, RequestValue
<1>5. TransferredWhole(p)' = TransferredWhole(p) /\ Enough(p)' = Enough(p)
  BY DEF TransferredWhole, Enough
<1>6. p.pc \in {"send", "wait"} => Progress(p)'
  BY <1>3 DEF Transfer
<1>7. p.pc = "send" => Prepared(p)'
  BY <1>2 DEF Transfer
<1>8. \A m \in Items(toServer)' :
        p.pc = "wait" /\ m.id = p.own => Prepared(p)' /\ m = OwnRequest(p)'
  BY <1>2, <1>4 DEF Transfer
<1>9. \A m \in Items(toClient)' \cup Items(queue)' : p.pc = "wait" /\ m.id = p.own => Replied(p, m)'
  BY <1>1 DEF Transfer
<1>10. p.pc = "stop" /\ p.result = "ok" => p.taken # 0 /\ (Enough(p)' => TransferredWhole(p)')
  BY <1>5 DEF Transfer
<1> QED
  BY <1>6, <1>7, <1>8, <1>9, <1>10 DEF Transfer

\* Another request is handled, and p's transfer is as it was.
LEMMA OtherServed ==
  ASSUME Flow, InOrder, toServer # <<>>, NEW m, Answer(m), m.id = Asking.id,
         UNCHANGED <<mtu, attrs, prepared, queue>>,
         NEW p, Transfer(p), p.pc = "wait" => p.own # Asking.id
  PROVE  Transfer(p)'
<1>1. /\ \A x \in Items(toServer') : x \in Items(toServer) /\ x.id # Asking.id
      /\ \A x \in Items(toClient') : (x \in Items(toClient) /\ x.id # Asking.id) \/ x = m
      /\ \A x \in Items(queue) : x.id # Asking.id
  BY Served
<1>2. \A x \in Items(toServer)' : p.pc = "wait" /\ x.id = p.own => x \in Items(toServer)
  BY <1>1 DEF Items
<1>3. \A x \in Items(toClient)' \cup Items(queue)' : p.pc = "wait" /\ x.id = p.own =>
        x \in Items(toClient) \cup Items(queue) \/ Replied(p, x)
  BY <1>1 DEF Items
<1> QED
  BY <1>2, <1>3, TransferSame

\* What is known of the holder p of the lock when the server takes a request.
Serving(p) ==
  /\ Flow /\ DataTyped /\ InOrder /\ MtuTyped(mtu) /\ toServer # <<>> /\ HandlesOwn(p)
  /\ p.value \in Values /\ p.offset \in Nat /\ attrs[p.handle] \in Values
  /\ prepared[p.handle] \in Seq(Writes)

\* The server reads a value for p.
LEMMA ReadServed ==
  ASSUME NEW p, Serving(p), OnRead
  PROVE  Transfer(p)'
<1> PICK m : m = Response(Asking, Slice(attrs[Asking.handle], 0, mtu.server - 1))
  OBVIOUS
<1>1. Asking.type = "read" /\ Answer(m) /\ UNCHANGED <<mtu, attrs, prepared, queue>>
  BY DEF OnRead, Asked, Asking, server, client
<1>2. /\ m.id = Asking.id /\ m.type = "read"
      /\ m.value = Slice(attrs[Asking.handle], 0, mtu.server - 1)
  BY <1>1 DEF Response
<1>3. HandlesOwn(p) /\ attrs[p.handle] \in Values /\ mtu.server - 1 \in Nat
  BY DEF Serving, MtuTyped, DefaultMtu
<1>4. RequestType(p) = "read" /\ Asking.handle = p.handle /\ p.kind \in ProcedureKinds
  BY <1>1, <1>3 DEF HandlesOwn
<1>5. p.kind = "read"
  BY <1>4, RequestTypes
<1>6. Prefix(m.value, attrs[p.handle])
  BY <1>2, <1>3, <1>4, SliceAtStart
<1>7. Replied(p, m)'
  BY <1>1, <1>2, <1>4, <1>5, <1>6 DEF Replied, RequestType
<1>8. Progress(p)'
  BY <1>5 DEF Progress
<1> QED
  BY <1>1, <1>2, <1>3, <1>7, <1>8, OwnServed DEF Serving, HandlesOwn

\* The server reads a part of a value for p.
LEMMA ReadBlobServed ==
  ASSUME NEW p, Serving(p), OnReadBlob, mtu.client = mtu.server
  PROVE  Transfer(p)'
<1> PICK v : v = attrs[Asking.handle]
  OBVIOUS
<1>1. /\ Asking.type = "read_blob" /\ UNCHANGED <<mtu, attrs, prepared, queue>>
      /\ Answer(IF Asking.offset <= Len(v)
                THEN Response(Asking, Slice(v, Asking.offset, mtu.server - 1))
                ELSE Error(Asking, "invalid_offset"))
  BY DEF OnReadBlob, Asked, Asking, server, client
<1>2. HandlesOwn(p) /\ attrs[p.handle] \in Values
  BY DEF Serving
<1>3. /\ RequestType(p) = "read_blob" /\ Asking.handle = p.handle /\ p.kind \in ProcedureKinds
      /\ Asking.offset = p.offset /\ Progress(p)
  BY <1>1, <1>2 DEF HandlesOwn
<1>4. p.kind = "read_long"
  BY <1>3, RequestTypes
<1>5. v = attrs[p.handle] /\ v \in Values
  BY <1>2, <1>3
<1>6. p.offset <= Len(v)
  BY <1>3, <1>4, <1>5 DEF Progress, Prefix
<1> PICK m : m = Response(Asking, Slice(v, p.offset, mtu.server - 1))
  OBVIOUS
<1>7. Answer(m)
  BY <1>1, <1>3, <1>6
<1>8. m.id = Asking.id /\ m.type = "read_blob" /\ m.value = Slice(v, p.offset, mtu.client - 1)
  BY <1>1 DEF Response
<1>9. Replied(p, m)'
  BY <1>1, <1>3, <1>4, <1>5, <1>6, <1>8 DEF Replied, RequestType
<1>10. Progress(p)'
  BY <1>1, <1>3, <1>4 DEF Progress
<1> QED
  BY <1>1, <1>2, <1>7, <1>8, <1>9, <1>10, OwnServed DEF Serving, HandlesOwn

\* The server refuses the request of p.
LEMMA RefuseServed ==
  ASSUME NEW p, Serving(p), Refuse, Asking.type \in {"read", "read_blob", "write"}
  PROVE  Transfer(p)'
<1> PICK m : m = Error(Asking, "refused")
  OBVIOUS
<1>1. /\ Asking.type \in {"read", "read_blob", "write"} /\ Answer(m)
      /\ UNCHANGED <<mtu, attrs, prepared, queue>>
  BY DEF Refuse, Asked, Asking, server, client
<1>2. m.id = Asking.id /\ m.type = "error"
  BY DEF Error
<1>3. HandlesOwn(p)
  BY DEF Serving
<1>4. RequestType(p) = Asking.type /\ p.kind \in ProcedureKinds /\ Progress(p)
  BY <1>3 DEF HandlesOwn
<1>5. p.kind # "set_mtu"
  BY <1>1, <1>4, RequestTypes
<1>6. Replied(p, m)'
  BY <1>2, <1>5 DEF Replied
<1>7. Progress(p)'
  BY <1>1, <1>4 DEF Progress, Enough
<1> QED
  BY <1>1, <1>2, <1>3, <1>6, <1>7, OwnServed DEF Serving, HandlesOwn

\* The server writes the value of p.
LEMMA WriteServed ==
  ASSUME NEW p, Serving(p), OnWrite
  PROVE  Transfer(p)'
<1> PICK m : m = Response(Asking, <<>>)
  OBVIOUS
<1>1. /\ Asking.type = "write" /\ Answer(m) /\ UNCHANGED <<mtu, prepared, queue>>
      /\ attrs' = [attrs EXCEPT ![Asking.handle] = Asking.value]
  BY DEF OnWrite, Asked, Asking, client
<1>2. m.id = Asking.id /\ m.type = "write"
  BY <1>1 DEF Response
<1>3. HandlesOwn(p) /\ attrs \in [Handles -> Values]
  BY DEF Serving, DataTyped
<1>4. RequestType(p) = "write" /\ Asking.handle = p.handle /\ p.kind \in ProcedureKinds
      /\ p.handle \in Handles /\ Asking.value = RequestValue(p)
  BY <1>1, <1>3 DEF HandlesOwn
<1>5. p.kind = "write"
  BY <1>4, RequestTypes
<1>6. Asking.value = p.value
  BY <1>4 DEF RequestValue
<1>7. attrs'[p.handle] = p.value
  BY <1>1, <1>3, <1>4, <1>6
<1>8. Replied(p, m)'
  BY <1>2, <1>4, <1>5, <1>7 DEF Replied, RequestType
<1>9. Progress(p)'
  BY <1>5 DEF Progress
<1> QED
  BY <1>1, <1>2, <1>3, <1>8, <1>9, OwnServed DEF Serving, HandlesOwn

\* The server queues a chunk of p: it comes after those it queued before.
LEMMA PrepareServed ==
  ASSUME NEW p, Serving(p), OnPrepareWrite
  PROVE  Transfer(p)'
<1> PICK m : m = Response(Asking, Asking.value)
  OBVIOUS
<1> PICK w : w = [offset |-> Asking.offset, value |-> Asking.value]
  OBVIOUS
<1>1. /\ Asking.type = "prepare_write" /\ Answer(m) /\ UNCHANGED <<mtu, attrs, queue>>
      /\ prepared' = [prepared EXCEPT ![Asking.handle] = Append(@, w)]
  BY DEF OnPrepareWrite, Asked, Asking, client
<1>2. m.id = Asking.id /\ m.type = "prepare_write" /\ m.value = Asking.value
  BY <1>1 DEF Response
<1>3. /\ HandlesOwn(p) /\ prepared \in [Handles -> Seq(Writes)]
      /\ p.value \in Values /\ p.offset \in Nat /\ prepared[p.handle] \in Seq(Writes)
      /\ mtu.client \in Nat /\ mtu.client >= DefaultMtu
  BY DEF Serving, DataTyped, MtuTyped
<1>4. /\ RequestType(p) = "prepare_write" /\ Asking.handle = p.handle /\ p.kind \in ProcedureKinds
      /\ p.handle \in Handles /\ Asking.offset = p.offset /\ Asking.value = RequestValue(p)
      /\ Prepared(p) /\ Progress(p)
  BY <1>1, <1>3 DEF HandlesOwn
<1>5. p.kind = "write_long" /\ p.chunks > 0
  BY <1>4, RequestTypes
<1> PICK k : k = ChunkSize(mtu.client)
  OBVIOUS
<1> PICK z : z = Smaller(p.offset + k, Len(p.value))
  OBVIOUS
<1>6. k \in Nat
  BY <1>3 DEF ChunkSize, DefaultMtu
<1>7. Asking.value = Slice(p.value, p.offset, k)
  BY <1>4 DEF RequestValue
<1>8. Covers(prepared[p.handle], p.value, p.offset) /\ p.offset <= Len(p.value)
  BY <1>4, <1>5 DEF Prepared, Progress
<1>9. Len(p.value) \in Nat
  BY <1>3, Types
<1>10. /\ Slice(p.value, p.offset, k) \in Values
       /\ Slice(p.value, p.offset, k) = SubSeq(p.value, p.offset + 1, z)
       /\ z \in Nat /\ z <= Len(p.value)
       /\ Len(Slice(p.value, p.offset, k)) = z - p.offset
  BY <1>3, <1>6, <1>8, Slices
<1>11. p.offset <= z
  BY <1>3, <1>6, <1>8, <1>9 DEF Smaller
<1>12. w \in Writes /\ w.offset = p.offset /\ w.value = SubSeq(p.value, p.offset + 1, z)
  BY <1>3, <1>4, <1>7, <1>10 DEF Writes
<1>13. Covers(Append(prepared[p.handle], w), p.value, z)
  BY <1>3, <1>8, <1>10, <1>11, <1>12, CoversMore
<1>14. prepared'[p.handle] = Append(prepared[p.handle], w)
  BY <1>1, <1>3, <1>4
<1>15. p.offset + Len(m.value) = z
  BY <1>2, <1>3, <1>7, <1>10
<1>16. Covers(prepared'[p.handle], p.value, p.offset + Len(m.value))
  BY <1>13, <1>14, <1>15
<1>17. RequestValue(p)' = RequestValue(p)
  BY <1>1 DEF RequestValue, RequestType
<1>18. m.value = RequestValue(p)'
  BY <1>2, <1>4, <1>17
<1>19. Replied(p, m)'
  BY <1>2, <1>4, <1>5, <1>16, <1>18 DEF Replied, RequestType
<1>20. Progress(p)'
  BY <1>1, <1>4, <1>5 DEF Progress, Enough
<1> QED
  BY <1>1, <1>2, <1>3, <1>19, <1>20, OwnServed DEF Serving, HandlesOwn

\* The server applies the prepared writes: what they cover is written.
LEMMA ExecuteServed ==
  ASSUME NEW p, Serving(p), OnExecuteWrite
  PROVE  Transfer(p)'
<1> PICK m : m = Response(Asking, <<>>)
  OBVIOUS
<1>1. /\ Asking.type = "execute_write" /\ Answer(m) /\ UNCHANGED <<mtu, prepared, queue>>
      /\ attrs' = [h \in Handles |-> Patched(attrs[h], prepared[h])]
  BY DEF OnExecuteWrite, Asked, Asking, client
<1>2. m.id = Asking.id /\ m.type = "execute_write"
  BY <1>1 DEF Response
<1>3. /\ HandlesOwn(p) /\ attrs[p.handle] \in Values /\ prepared[p.handle] \in Seq(Writes)
      /\ p.value \in Values /\ p.offset \in Nat
  BY DEF Serving
<1>4. RequestType(p) = "execute_write" /\ p.kind \in ProcedureKinds
      /\ p.handle \in Handles /\ Prepared(p) /\ Progress(p)
  BY <1>1, <1>3 DEF HandlesOwn
<1>5. p.kind = "write_long" /\ ~(p.chunks > 0)
  BY <1>4, RequestTypes
<1>6. Covers(prepared[p.handle], p.value, p.offset)
  BY <1>4, <1>5 DEF Prepared
<1>7. Prefix(SubSeq(p.value, 1, p.offset), Patched(attrs[p.handle], prepared[p.handle]))
  BY <1>3, <1>6, PatchedCovered
<1>8. attrs'[p.handle] = Patched(attrs[p.handle], prepared[p.handle])
  BY <1>1, <1>4
<1>9. Prefix(SubSeq(p.value, 1, p.offset), attrs'[p.handle])
  BY <1>7, <1>8
<1>10. Replied(p, m)'
  BY <1>2, <1>4, <1>5, <1>9 DEF Replied, RequestType
<1>11. Progress(p)'
  BY <1>1, <1>4, <1>5 DEF Progress, Enough
<1> QED
  BY <1>1, <1>2, <1>3, <1>10, <1>11, OwnServed DEF Serving, HandlesOwn

\* The server takes the MTU of p.
LEMMA MtuServed ==
  ASSUME NEW p, Serving(p), OnExchangeMtu
  PROVE  Transfer(p)' /\ p.kind = "set_mtu"
<1> PICK m : m = Response(Asking, Asking.value)
  OBVIOUS
<1>1. /\ Asking.type = "set_mtu" /\ Answer(m) /\ UNCHANGED <<attrs, prepared, queue>>
      /\ mtu' = [mtu EXCEPT !.server = IF Asking.value[1] >= DefaultMtu
                                       THEN Asking.value[1] ELSE @]
  BY DEF OnExchangeMtu, Asked, Asking, client, server
<1>2. m.id = Asking.id /\ m.type = "set_mtu" /\ m.value = Asking.value
  BY <1>1 DEF Response
<1>3. HandlesOwn(p) /\ MtuTyped(mtu) /\ RequestTyped(Asking)
  BY RequestAtHand DEF Serving
<1>4. RequestType(p) = "set_mtu" /\ p.kind \in ProcedureKinds /\ Asking.value = RequestValue(p)
  BY <1>1, <1>3 DEF HandlesOwn
<1>5. p.kind = "set_mtu"
  BY <1>4, RequestTypes
<1>6. Asking.value = p.value
  BY <1>4 DEF RequestValue
<1>7. Asking.value[1] >= DefaultMtu
  BY <1>1, <1>3 DEF RequestTyped, Mtu
<1>8. mtu'.server = p.value[1]
  BY <1>1, <1>3, <1>6, <1>7 DEF MtuTyped
<1>9. Replied(p, m)'
  BY <1>2, <1>4, <1>5, <1>6, <1>8 DEF Replied, RequestType
<1>10. Progress(p)'
  BY <1>5 DEF Progress
<1> QED
  BY <1>1, <1>2, <1>3, <1>5, <1>9, <1>10, OwnServed DEF Serving, HandlesOwn

\* A write command was sent before the holder's request, if it has one.
LEMMA CommandEarlier ==
  ASSUME Flow, DataTyped, CommandsBefore, toServer # <<>>, Asking.type = "write_command",
         NEW t \in Threads, Holds(t)
  PROVE  /\ proc[t].taken = 0
         /\ proc[t].pc = "wait" => Asking.id < proc[t].own
         /\ proc[t].pc = "wait" => proc[t].own # Asking.id
<1>1. Asking \in Items(toServer)
  BY RequestAtHand
<1>2. proc[t].taken = 0 /\ (proc[t].own = 0 \/ Asking.id < proc[t].own)
  BY <1>1 DEF CommandsBefore
<1>3. proc[t].own \in Nat /\ (proc[t].pc = "wait" => proc[t].own # 0)
  BY DEF DataTyped, ProcTyped
<1>4. Asking.id \in 1..sent /\ sent \in Nat
  BY <1>1, NumbersOf
<1> QED
  BY <1>2, <1>3, <1>4

\* A write command is handled: the holder has had no response yet.
LEMMA CommandServed ==
  ASSUME Flow, DataTyped, InOrder, CommandsBefore, OnWriteCommand,
         NEW t \in Threads, Holds(t), NEW p, p = proc[t], Transfer(p)
  PROVE  Transfer(p)'
<1>1. /\ toServer # <<>> /\ Asking.type = "write_command" /\ toServer' = Tail(toServer)
      /\ UNCHANGED <<mtu, prepared, toClient, queue>>
      /\ attrs' = [attrs EXCEPT ![Asking.handle] = Asking.value]
  BY DEF OnWriteCommand, Asked, Asking, client
<1>2. p.taken = 0 /\ (p.pc = "wait" => Asking.id < p.own)
  BY <1>1, CommandEarlier
<1>3. p.pc # "idle" /\ ProcTyped(p) /\ attrs' \in [Handles -> Values]
  BY ServerTyped DEF Holds, DataTyped, Server
<1>4. p.handle \in Handles /\ attrs'[p.handle] \in Values /\ p.own \in Nat
  BY <1>3 DEF ProcTyped
<1>5. Progress(p) => Progress(p)'
  <2> SUFFICES ASSUME Progress(p) PROVE Progress(p)'
    OBVIOUS
  <2>1. p.kind = "read_long" => p.data = <<>>
    BY <1>2 DEF Progress
  <2>2. Prefix(<<>>, attrs'[p.handle])
    BY <1>4, PrefixSelf
  <2>3. p.kind = "read_long" => Prefix(p.data, attrs'[p.handle])
    BY <2>1, <2>2
  <2> QED
    BY <1>1, <2>3 DEF Progress, Enough
<1>6. Prepared(p) => Prepared(p)'
  BY <1>1 DEF Prepared
<1>7. OwnRequest(p)' = OwnRequest(p)
  BY <1>1 DEF OwnRequest, RequestType, RequestValue
<1>8. \A m \in Items(toServer)' : m \in Items(toServer)
  BY <1>1, NextRequest DEF Items
<1>9. p.pc = "wait" => \A m \in Items(toClient)' \cup Items(queue)' : m.id # p.own
  <2>1. Asking \in Items(toServer) /\ Asking.id \in Nat
    BY <1>1, RequestAtHand, NumbersOf
  <2>2. \A m \in Items(toClient) \cup Items(queue) : m.id < Asking.id
    BY <2>1 DEF InOrder
  <2>3. \A m \in Items(toClient) \cup Items(queue) : m.id \in 1..sent \/ m.id = 0
    BY DEF Flow, Typed, FromSender
  <2>4. sent \in Nat
    BY NumbersOf
  <2> QED
    BY <1>1, <1>2, <1>4, <2>1, <2>2, <2>3, <2>4 DEF Items
<1>10. p.pc \in {"send", "wait"} => Progress(p)'
  BY <1>5 DEF Transfer
<1>11. p.pc = "send" => Prepared(p)'
  BY <1>6 DEF Transfer
<1>12. p.pc = "wait" => \A m \in Items(toServer)' :
         m.id = p.own => Prepared(p)' /\ m = OwnRequest(p)'
  BY <1>6, <1>7, <1>8 DEF Transfer
<1>13. ~(p.pc = "stop" /\ p.result = "ok")
  BY <1>2 DEF Transfer
<1> QED
  BY <1>9, <1>10, <1>11, <1>12, <1>13 DEF Transfer

\* The server keeps the holder's transfer, whatever it handles.
LEMMA TransferServer ==
  ASSUME Flow, Control, Ours, DataTyped, InOrder, ~astray, MtuAgreed, CommandsBefore, Server,
         NEW t \in Threads, Holds(t), NEW p, p = proc[t], Transfer(p)
  PROVE  Transfer(p)' /\ (OnExchangeMtu => p.pc = "wait" /\ p.kind = "set_mtu")
<1>0. toServer # <<>> /\ MtuTyped(mtu) /\ Controlled(t)
  BY ServerEffect DEF DataTyped, MtuTyped, Control
<1>1. ASSUME Asking.type \in {"read", "read_blob", "write", "prepare_write", "execute_write",
                              "set_mtu"}
      PROVE  Serving(p)
  <2>1. HandlesOwn(p)
    BY <1>0, <1>1, HandledOwn
  <2>2. p.value \in Values /\ p.offset \in Nat /\ p.handle \in Handles
    BY <2>1 DEF DataTyped, ProcTyped, HandlesOwn
  <2> QED
    BY <1>0, <2>1, <2>2 DEF Serving, DataTyped
<1>d. ASSUME Asking.type = "discover", p.pc = "wait", p.own = Asking.id PROVE FALSE
  <2>1. Asking \in Items(toServer)
    BY <1>0, RequestAtHand
  <2>2. Asking = OwnRequest(p)
    BY <1>d, <2>1 DEF Transfer
  <2>3. RequestType(p) = "discover" /\ p.kind \in ProcedureKinds
    BY <1>d, <2>2 DEF OwnRequest, DataTyped, ProcTyped
  <2>4. p.kind = "discover"
    BY <2>3, RequestTypes
  <2> QED
    BY <1>0, <1>d, <2>4 DEF Controlled, Holds, Locked
<1>2. CASE OnRead
  BY <1>1, <1>2, ReadServed DEF OnRead, Asked, Asking, OnExchangeMtu
<1>3. CASE OnReadBlob
  <2>1. Asking.type = "read_blob" /\ Serving(p)
    BY <1>1, <1>3 DEF OnReadBlob, Asked, Asking
  <2>2. p.pc = "wait" /\ p.kind = "read_long"
    BY <2>1, RequestTypes DEF Serving, HandlesOwn
  <2>3. mtu.client = mtu.server
    BY <2>2 DEF MtuAgreed, Holds
  <2> QED
    BY <1>3, <2>1, <2>3, ReadBlobServed DEF OnExchangeMtu, Asked, Asking
<1>4. CASE OnWrite
  BY <1>1, <1>4, WriteServed DEF OnWrite, Asked, Asking, OnExchangeMtu
<1>5. CASE OnWriteCommand
  BY <1>5, CommandServed DEF OnWriteCommand, Asked, OnExchangeMtu
<1>6. CASE Refuse
  <2>1. /\ Asking.type \in {"read", "read_blob", "write", "write_command", "discover"}
        /\ Answer(Error(Asking, "refused")) /\ Error(Asking, "refused").id = Asking.id
        /\ UNCHANGED <<mtu, attrs, prepared, queue>>
    BY <1>6 DEF Refuse, Asked, Asking, server, client, Error
  <2>2. ~OnExchangeMtu
    BY <2>1 DEF OnExchangeMtu, Asked, Asking
  <2>3. CASE Asking.type = "write_command"
    <3>1. p.pc = "wait" => p.own # Asking.id
      BY <1>0, <2>3, CommandEarlier
    <3> QED
      BY <1>0, <2>1, <2>2, <3>1, OtherServed
  <2>4. CASE Asking.type = "discover"
    BY <1>0, <1>d, <2>1, <2>2, <2>4, OtherServed
  <2>5. CASE Asking.type \in {"read", "read_blob", "write"}
    BY <1>1, <1>6, <2>1, <2>2, <2>5, RefuseServed
  <2> QED
    BY <2>1, <2>3, <2>4, <2>5
<1>7. CASE OnPrepareWrite
  BY <1>1, <1>7, PrepareServed DEF OnPrepareWrite, Asked, Asking, OnExchangeMtu
<1>8. CASE OnExecuteWrite
  BY <1>1, <1>8, ExecuteServed DEF OnExecuteWrite, Asked, Asking, OnExchangeMtu
<1>9. CASE OnExchangeMtu
  <2>1. Asking.type = "set_mtu" /\ Serving(p)
    BY <1>1, <1>9 DEF OnExchangeMtu, Asked, Asking
  <2> QED
    BY <1>9, <2>1, MtuServed DEF Serving, HandlesOwn
<1>10. CASE OnDiscover
  <2> PICK m : m = IF Asking.offset < Services THEN Response(Asking, <<>>)
                                               ELSE Error(Asking, "not_found")
    OBVIOUS
  <2>1. /\ Asking.type = "discover" /\ Answer(m) /\ UNCHANGED <<mtu, attrs, prepared, queue>>
    BY <1>10 DEF OnDiscover, Asked, Asking, server, client
  <2>2. m.id = Asking.id
    BY DEF Response, Error
  <2> QED
    BY <1>0, <1>d, <2>1, <2>2, OtherServed DEF OnExchangeMtu, Asked, Asking
<1> QED
  BY <1>2, <1>3, <1>4, <1>5, <1>6, <1>7, <1>8, <1>9, <1>10 DEF Server

-----------------------------------------------------------------------------
(***************************************************************************)
(* The holder of the lock begins, sends, and takes a response.             *)
(***************************************************************************)
\* The procedure that begins has transferred nothing.
LEMMA TransferBegins ==
  ASSUME Flow, DataTyped, NEW t \in Threads, Begin(t), Fresh(proc[t])
  PROVE  Transfer(proc[t])'
<1>0. /\ Shape /\ sent \in Nat /\ MtuTyped(mtu) /\ ProcTyped(proc[t]) /\ DOMAIN proc[t] = Fields
      /\ attrs \in [Handles -> Values] /\ prepared \in [Handles -> Seq(Writes)]
  BY TypesOf DEF DataTyped
<1> PICK p : p = proc[t]
  OBVIOUS
<1> PICK q : q = proc'[t]
  OBVIOUS
<1>1. /\ q = Finish(p, "none") \/ q = Begun(p)
      /\ p.pc = "lock" /\ DOMAIN p = Fields
      /\ UNCHANGED <<queue, mtu, toServer, toClient, attrs, prepared>>
  BY <1>0, Beginning
<1>2. p.own = 0 /\ p.taken = 0 /\ p.data = <<>> /\ p.offset = 0 /\ p.result = "none"
  BY <1>1 DEF Fresh
<1>3. p.value \in Values /\ p.handle \in Handles
  BY <1>0, <1>1 DEF ProcTyped
<1>4. CASE q = Finish(p, "none")
  <2>1. q.pc = "stop" /\ q.result = "none"
    BY <1>1, <1>4, Finished
  <2>2. Transfer(q)'
    BY <2>1 DEF Transfer
  <2> QED
    BY <2>2
<1>5. CASE q = Begun(p)
  <2>1. /\ q.pc = "send" /\ q.value = p.value /\ q.data = p.data /\ q.handle = p.handle
        /\ q.offset = p.offset /\ q.taken = p.taken
        /\ q.kind = IF Long(p) THEN "write_long" ELSE p.kind
        /\ q.chunks = IF Long(p) THEN Chunks(Len(p.value), mtu.client) ELSE 0
    BY <1>1, <1>5, BegunKeeps
  <2>2. attrs[p.handle] \in Values /\ prepared[p.handle] \in Seq(Writes)
    BY <1>0, <1>3
  <2>3. Prefix(<<>>, attrs[p.handle]) /\ Covers(prepared[p.handle], p.value, 0)
        /\ Len(p.value) \in Nat /\ Len(<<>>) = 0
    BY <1>3, <2>2, PrefixSelf, CoversNothing, Types
  <2>4. q.kind = "write_long" => Long(p)
    BY <2>1 DEF Long
  <2>5. Enough(q) /\ q.kind = "write_long" =>
          q.offset + q.chunks * ChunkSize(mtu.client) >= Len(q.value)
    <3> SUFFICES ASSUME Enough(q), q.kind = "write_long"
                 PROVE  q.offset + q.chunks * ChunkSize(mtu.client) >= Len(q.value)
      OBVIOUS
    <3> PICK c : c = Chunks(Len(p.value), mtu.client)
      OBVIOUS
    <3> PICK k : k = ChunkSize(mtu.client)
      OBVIOUS
    <3>1. c * k >= Len(p.value)
      BY <2>1 DEF Enough
    <3>2. q.chunks = c /\ q.offset = 0
      BY <1>2, <2>1, <2>4
    <3>3. c \in Nat /\ k \in Nat
      BY <1>0, <2>3, ChunksCount DEF MtuTyped
    <3>4. c * k \in Nat
      BY <3>3
    <3> QED
      BY <2>1, <2>3, <3>1, <3>2, <3>4
  <2>6. Progress(q)
    BY <1>2, <2>1, <2>3, <2>5 DEF Progress
  <2>7. Prepared(q)
    BY <1>2, <2>1, <2>3 DEF Prepared
  <2>8. Transfer(q)
    BY <2>1, <2>6, <2>7 DEF Transfer
  <2>9. Transfer(q)'
    BY <1>1, <2>1, <2>8, TransferSame DEF Items
  <2> QED
    BY <2>9
<1> QED
  BY <1>1, <1>4, <1>5

\* The holder sends its next request.
LEMMA TransferSends ==
  ASSUME Flow, Control, DataTyped, NEW t \in Threads, Send(t), Holds(t), Transfer(proc[t])
  PROVE  Transfer(proc[t])'
<1>0. Shape /\ sent \in Nat /\ IsSequence(toServer) /\ Controlled(t)
  BY DEF Flow, Shape, Control
<1> PICK p : p = proc[t]
  OBVIOUS
<1> PICK q : q = proc'[t]
  OBVIOUS
<1> PICK r : r = Request(p)
  OBVIOUS
<1>1. /\ p.kind = "write_command" => SameState(q, p) /\ q.pc = "stop" /\ q.result = "sent"
      /\ p.kind # "write_command" =>
              /\ DOMAIN q = Fields /\ q.pc = "wait" /\ q.own = sent + 1 /\ q.taken = p.taken
              /\ q.kind = p.kind /\ q.handle = p.handle /\ q.value = p.value
              /\ q.data = p.data /\ q.offset = p.offset /\ q.chunks = p.chunks
              /\ q.result = p.result
      /\ p.pc = "send"
      /\ toServer' = IF terminated THEN toServer ELSE Append(toServer, r)
      /\ UNCHANGED <<queue, mtu, toClient, attrs, prepared>>
  BY <1>0, Sending
<1>2. CASE p.kind = "write_command"
  <2>1. Transfer(q)'
    BY <1>1, <1>2 DEF Transfer
  <2> QED
    BY <2>1
<1>3. CASE p.kind # "write_command"
  <2>1. Progress(p) /\ Prepared(p)
    BY <1>1 DEF Transfer
  <2>2. Progress(q)' /\ Prepared(q)'
    BY <1>1, <1>3, <2>1 DEF Progress, Prepared, Enough
  <2>3. r = OwnRequest(q)'
    BY <1>1, <1>3 DEF Request, OwnRequest, RequestType, RequestValue
  <2>4. Items(toServer') \subseteq Items(toServer) \cup {r}
    BY <1>0, <1>1, AppendItem
  <2>5. \A m \in Items(toServer) \cup Items(toClient) \cup Items(queue) : m.id # sent + 1
    <3>1. \A m \in Items(toServer) \cup Items(toClient) \cup Items(queue) :
            m.id \in 1..sent \/ m.id = 0
      BY DEF Flow, Typed, FromSender
    <3> QED
      BY <1>0, <3>1
  <2>6. \A m \in Items(toServer)' : m.id = q.own => Prepared(q)' /\ m = OwnRequest(q)'
    BY <1>1, <1>3, <2>2, <2>3, <2>4, <2>5 DEF Items
  <2>7. \A m \in Items(toClient)' \cup Items(queue)' : m.id # q.own
    BY <1>1, <1>3, <2>5 DEF Items
  <2>8. Transfer(q)'
    BY <1>1, <1>3, <2>2, <2>6, <2>7 DEF Transfer
  <2> QED
    BY <2>8
<1> QED
  BY <1>2, <1>3

\* What remains after a prepared write.
LEMMA Remaining ==
  ASSUME NEW o \in Nat, NEW n \in Nat, NEW k \in Nat, NEW c \in Nat, c > 0, o <= n,
         o + c * k >= n, NEW z, z = Smaller(o + k, n)
  PROVE  z + (c - 1) * k >= n
<1>1. (c - 1) * k = c * k - k /\ c * k \in Nat /\ (c - 1) * k \in Nat
  OBVIOUS
<1> PICK a : a = c * k
  OBVIOUS
<1> PICK b : b = (c - 1) * k
  OBVIOUS
<1>2. b = a - k /\ a \in Nat /\ b \in Nat /\ o + a >= n
  BY <1>1
<1>3. z + b >= n
  BY <1>2 DEF Smaller
<1> QED
  BY <1>3

\* A part read is put after what was read, and a short one ends the value.
LEMMA CollectedMore ==
  ASSUME NEW a \in Values, NEW w \in Values, Prefix(a, w), NEW c \in Nat
  PROVE  /\ Prefix(Join(a, Slice(w, Len(a), c)), w)
         /\ Len(Join(a, Slice(w, Len(a), c))) = Len(a) + Len(Slice(w, Len(a), c))
         /\ Len(Slice(w, Len(a), c)) < c => Join(a, Slice(w, Len(a), c)) = w
<1> PICK x : x = Slice(w, Len(a), c)
  OBVIOUS
<1>1. /\ Prefix(Join(a, x), w) /\ Len(Join(a, x)) = Len(a) + Len(x)
      /\ Len(x) < c => Join(a, x) = w
  BY Collected
<1> QED
  BY <1>1

\* The response to its own request takes the holder's transfer further.
LEMMA TransferTakes ==
  ASSUME NEW p, ProcTyped(p), p.kind \in ProcedureKinds, p.handle \in Handles, p.taken # 0,
         NEW m, ResponseTyped(m), DataTyped, Progress(p), Replied(p, m), m.type # "error",
         NEW q, Outcome(q, p, m), p.kind # "discover", p.kind # "write_command"
  PROVE  /\ q.pc = "send" => Progress(q) /\ Prepared(q)
         /\ q.pc = "stop" /\ Enough(q) => TransferredWhole(q)
<1>1. /\ p.value \in Values /\ p.data \in Values /\ p.offset \in Nat /\ p.chunks \in Nat
      /\ m.value \in Values /\ attrs[p.handle] \in Values /\ mtu.client \in Nat
      /\ mtu.client >= DefaultMtu
  BY DEF ProcTyped, ResponseTyped, DataTyped
<1>0. PICK v : v = attrs[p.handle]
  OBVIOUS
<1>2. /\ q.kind = p.kind /\ q.handle = p.handle /\ q.value = p.value /\ q.taken = p.taken
      /\ q.pc = "send" \/ q.pc = "stop"
  BY DEF Outcome, SameCall
<1>3. CASE p.kind = "read"
  <2>1. q.pc = "stop" /\ q.data = m.value /\ Prefix(m.value, v)
    BY <1>0, <1>3 DEF Outcome, Replied
  <2> QED
    BY <1>0, <1>2, <1>3, <2>1 DEF TransferredWhole
<1>4. CASE p.kind = "read_long"
  <2>1. /\ q.data = Join(p.data, m.value) /\ q.offset = p.offset + Len(m.value)
        /\ q.pc = IF Len(m.value) < mtu.client - 1 THEN "stop" ELSE "send"
    BY <1>4 DEF Outcome
  <2>2. m.value = Slice(v, p.offset, mtu.client - 1)
    BY <1>0, <1>4 DEF Replied
  <2>3. Prefix(p.data, v) /\ p.offset = Len(p.data)
    BY <1>0, <1>4 DEF Progress
  <2>4. mtu.client - 1 \in Nat
    BY <1>1 DEF DefaultMtu
  <2>n. PICK n : n = mtu.client - 1
    OBVIOUS
  <2>s. PICK s : s = m.value
    OBVIOUS
  <2>d. PICK d : d = p.data
    OBVIOUS
  <2>5. s = Slice(v, Len(d), n) /\ v \in Values /\ n \in Nat /\ d \in Values /\ Prefix(d, v)
    BY <1>0, <1>1, <2>2, <2>3, <2>4, <2>n, <2>s, <2>d
  <2>6. /\ Prefix(Join(d, s), v) /\ Len(Join(d, s)) = Len(d) + Len(s)
        /\ Len(s) < n => Join(d, s) = v
    <3>1. s = Slice(v, Len(d), n)
      BY <2>5
    <3>2. v \in Values /\ n \in Nat /\ d \in Values /\ Prefix(d, v)
      BY <2>5
    <3> QED
      BY <3>1, <3>2, CollectedMore
  <2>7. CASE q.pc = "send"
    <3>1. Prefix(q.data, attrs[q.handle]) /\ q.offset = Len(q.data)
      BY <1>0, <1>2, <2>1, <2>3, <2>6, <2>s, <2>d
    <3> QED
      BY <1>2, <1>4, <2>7, <3>1 DEF Progress, Prepared
  <2>8. CASE q.pc = "stop"
    <3>1. Len(s) < n
      BY <2>1, <2>8, <2>n, <2>s
    <3>2. q.data = attrs[q.handle]
      BY <1>0, <1>2, <2>1, <2>6, <2>s, <2>d, <3>1
    <3> QED
      BY <1>2, <1>4, <2>8, <3>2 DEF TransferredWhole
  <2> QED
    BY <1>2, <2>7, <2>8
<1>5. CASE p.kind = "write_long" /\ p.chunks > 0
  <2>1. /\ q.pc = "send" /\ q.chunks = p.chunks - 1 /\ q.offset = p.offset + Len(m.value)
    BY <1>5 DEF Outcome
  <2>2. m.value = RequestValue(p) /\ Covers(prepared[p.handle], p.value, p.offset + Len(m.value))
    BY <1>5 DEF Replied
  <2>3. p.offset <= Len(p.value)
    BY <1>5 DEF Progress
  <2> PICK k : k = ChunkSize(mtu.client)
    OBVIOUS
  <2> PICK z : z = Smaller(p.offset + k, Len(p.value))
    OBVIOUS
  <2>4. k \in Nat /\ Len(p.value) \in Nat
    BY <1>1, Types DEF ChunkSize, DefaultMtu
  <2>5. m.value = Slice(p.value, p.offset, k)
    BY <1>5, <2>2, RequestTypes DEF RequestValue
  <2>6. Len(m.value) = z - p.offset /\ z \in Nat
    BY <1>1, <2>3, <2>4, <2>5, Slices
  <2>7. q.offset = z
    BY <1>1, <2>1, <2>6
  <2>8. Covers(prepared[q.handle], q.value, q.offset) /\ q.offset <= Len(q.value)
    BY <1>2, <2>1, <2>2, CoversWithin
  <2>9. Enough(q) => q.offset + q.chunks * k >= Len(q.value)
    <3> SUFFICES ASSUME Enough(q) PROVE q.offset + q.chunks * k >= Len(q.value)
      OBVIOUS
    <3>1. Enough(p)
      BY <1>2 DEF Enough
    <3>2. p.offset + p.chunks * k >= Len(p.value)
      BY <1>5, <3>1 DEF Progress
    <3>3. z + (p.chunks - 1) * k >= Len(p.value)
      BY <1>1, <1>5, <2>3, <2>4, <3>2, Remaining
    <3> QED
      BY <1>2, <2>1, <2>7, <3>3
  <2>10. Progress(q)
    BY <1>2, <1>5, <2>8, <2>9 DEF Progress
  <2>11. Prepared(q)
    BY <2>8 DEF Prepared
  <2> QED
    BY <2>1, <2>10, <2>11
<1>6. CASE p.kind = "write_long" /\ ~(p.chunks > 0)
  <2>1. q.pc = "stop" /\ q.offset = p.offset
    BY <1>6 DEF Outcome, SameState
  <2>2. Prefix(SubSeq(p.value, 1, p.offset), v) /\ p.offset <= Len(p.value)
    BY <1>0, <1>6 DEF Replied, Progress
  <2>3. Len(p.value) \in Nat /\ SubSeq(p.value, 1, Len(p.value)) = p.value
    BY <1>1, Types, PrefixSelf
  <2>4. ASSUME Enough(q) PROVE Prefix(q.value, attrs[q.handle])
    <3>1. Enough(p) /\ p.chunks = 0
      BY <1>1, <1>2, <1>6, <2>4 DEF Enough
    <3>2. p.offset + 0 * ChunkSize(mtu.client) >= Len(p.value)
      BY <1>6, <3>1 DEF Progress
    <3>3. 0 * ChunkSize(mtu.client) = 0
      BY <1>1 DEF ChunkSize
    <3>4. p.offset = Len(p.value)
      BY <1>1, <2>2, <2>3, <3>2, <3>3
    <3> QED
      BY <1>0, <1>2, <2>2, <2>3, <3>4
  <2> QED
    BY <1>2, <1>6, <2>1, <2>4 DEF TransferredWhole
<1>7. CASE p.kind = "write"
  <2>1. q.pc = "stop" /\ v = p.value
    BY <1>0, <1>7 DEF Outcome, Replied
  <2>2. Prefix(q.value, attrs[q.handle])
    BY <1>0, <1>1, <1>2, <2>1, PrefixSelf
  <2> QED
    BY <1>2, <1>7, <2>1, <2>2 DEF TransferredWhole
<1>8. CASE p.kind = "set_mtu"
  <2>1. q.pc = "stop"
    BY <1>8 DEF Outcome
  <2> QED
    BY <1>2, <1>8, <2>1 DEF TransferredWhole
<1> QED
  BY <1>3, <1>4, <1>5, <1>6, <1>7, <1>8 DEF ProcedureKinds

\* A run that has gone astray stays so.
LEMMA AstrayStays ==
  ASSUME Flow, [Next]_vars, ~astray'
  PROVE  ~astray
<1>1. CASE \E t \in Threads : Call(t) \/ Begin(t) \/ Ends(t)
  BY <1>1, FlowOfThread
<1>2. CASE \E t \in Threads : Send(t) \/ Take(t)
  BY <1>2 DEF Send, Take
<1>3. CASE OnPdu \/ CallbackReturns \/ Server \/ Indicate \/ Disconnect \/ UNCHANGED vars
  BY <1>3, FlowOfRest
<1> QED
  BY <1>1, <1>2, <1>3 DEF Next, Procedure, Ends

\* A thread takes a message.
LEMMA TransferOfTake ==
  ASSUME Flow, Control, Ours, DataTyped, ~astray', NEW t \in Threads, Take(t), Holds(t),
         Transfer(proc[t])
  PROVE  /\ Transfer(proc[t])'
         /\ mtu'.client = mtu'.server
              \/ (mtu' = mtu /\ (proc[t].kind = "set_mtu" => proc'[t] = proc[t]))
<1>0. /\ Shape /\ sent \in Nat /\ MtuTyped(mtu) /\ Controlled(t) /\ ProcTyped(proc[t])
  BY TypesOf DEF Control
<1>m. PICK m : m = Head(queue)
  OBVIOUS
<1>o. PICK o : o = proc[t]
  OBVIOUS
<1>p. PICK p : p = [o EXCEPT !.taken = m.id]
  OBVIOUS
<1>q. PICK q : q = proc'[t]
  OBVIOUS
<1>1. /\ m \in Items(queue) /\ m.id \in 1..sent /\ ResponseTyped(m)
      /\ Items(queue') \subseteq Items(queue)
  BY <1>m, Taken
<1>2. o.pc = "wait" /\ o.kind \in ProcedureKinds /\ o.handle \in Handles /\ Locked(o)
      /\ o.kind # "write_command" /\ ProcTyped(o)
  BY <1>0, <1>o DEF Take, ProcTyped, Controlled, Holds, Active
<1>3. /\ o.pc = "wait" /\ DOMAIN p = Fields /\ p.pc = o.pc /\ p.taken = m.id /\ p.own = o.own
      /\ p.kind = o.kind /\ p.handle = o.handle /\ p.value = o.value /\ p.data = o.data
      /\ p.offset = o.offset /\ p.chunks = o.chunks /\ p.result = o.result
      /\ RequestType(p) = RequestType(o)
      /\ \/ m.type = "error" /\ q = Refused(p, m)
         \/ m.type # "error" /\ m.type = RequestType(p) /\ q = Answered(p, m)
         \/ m.type # "error" /\ m.type # RequestType(p) /\ q = o
      /\ mtu' = IF m.type = "set_mtu" /\ RequestType(p) = "set_mtu"
                THEN [mtu EXCEPT !.client = m.value[1]] ELSE mtu
      /\ UNCHANGED <<toServer, toClient, attrs, prepared>>
  BY <1>0, <1>m, <1>o, <1>p, <1>q, <1>2, Taking
<1>4. Transfer(o) /\ Progress(o)
  BY <1>o, <1>2 DEF Transfer
<1>5. CASE ~Relevant(o, m)
  <2>1. q = o /\ mtu' = mtu
    BY <1>3, <1>5 DEF Relevant
  <2>2. Transfer(o)'
    BY <1>1, <1>3, <1>4, <2>1, TransferSame DEF Items
  <2> QED
    BY <1>o, <1>q, <2>1, <2>2
<1>6. CASE Relevant(o, m)
  <2>1. m.id = o.own
    BY <1>m, <1>o, <1>6, TakesOwn DEF Holds
  <2>2. Replied(o, m)
    BY <1>1, <1>2, <1>4, <2>1 DEF Transfer
  <2>3. CASE m.type = "error"
    <3>1. mtu' = mtu
      BY <1>3, <2>3
    <3>2. Locked(p) /\ q = Refused(p, m)
      BY <1>2, <1>3, <2>3, RequestTypes DEF Locked
    <3>3. q.pc = "stop" /\ q.result = "error"
      BY <1>3, <3>2, Refusing
    <3>4. Transfer(q)'
      BY <3>3 DEF Transfer
    <3>5. o.kind # "set_mtu"
      BY <2>2, <2>3 DEF Replied
    <3> QED
      BY <1>o, <1>q, <3>1, <3>4, <3>5
  <2>4. CASE m.type # "error"
    <3>1. q = Answered(p, m) /\ m.type = RequestType(p)
      BY <1>3, <1>6, <2>4 DEF Relevant
    <3>2. Outcome(q, p, m)
      BY <1>2, <1>3, <3>1, Answering
    <3>3. m.id \in Nat /\ m.id <= sent /\ m.id # 0
      BY <1>0, <1>1
    <3>4. ProcTyped(p)
      BY <1>2, <1>3, <3>3 DEF ProcTyped
    <3>5. Progress(p)
      BY <1>3, <1>4, <3>3 DEF Progress, Enough
    <3>6. Replied(p, m)
      BY <1>3, <2>2 DEF Replied, RequestValue
    <3>7. p.kind \in ProcedureKinds /\ p.handle \in Handles /\ p.taken # 0
          /\ p.kind # "discover" /\ p.kind # "write_command"
      BY <1>2, <1>3, <3>3 DEF Locked
    <3>8. /\ q.pc = "send" => Progress(q) /\ Prepared(q)
          /\ q.pc = "stop" /\ Enough(q) => TransferredWhole(q)
      BY <1>1, <2>4, <3>2, <3>4, <3>5, <3>6, <3>7, TransferTakes
    <3>9. q.pc \in {"send", "stop"} /\ q.taken # 0 /\ q.kind = p.kind
      BY <3>2, <3>7 DEF Outcome, SameCall
    <3>10. Transfer(q)
      BY <3>8, <3>9 DEF Transfer
    <3>11. CASE p.kind = "set_mtu"
      <4>1. q.pc = "stop"
        BY <3>2, <3>11 DEF Outcome
      <4>2. Transfer(q)'
        BY <3>9, <3>11, <4>1 DEF Transfer, TransferredWhole
      <4>3. RequestType(p) = "set_mtu"
        BY <3>11 DEF RequestType
      <4>4. mtu' = [mtu EXCEPT !.client = m.value[1]]
        BY <1>3, <3>1, <4>3
      <4>5. m.value = p.value /\ mtu.server = p.value[1]
        BY <3>6, <3>11 DEF Replied
      <4>6. mtu'.client = mtu'.server
        BY <1>0, <4>4, <4>5 DEF MtuTyped
      <4> QED
        BY <1>q, <4>2, <4>6
    <3>12. CASE p.kind # "set_mtu"
      <4>1. RequestType(p) # "set_mtu"
        BY <3>7, <3>12, RequestTypes
      <4>2. mtu' = mtu
        BY <1>3, <4>1
      <4>3. Transfer(q)'
        BY <1>3, <3>9, <3>10, <4>2, TransferSame
      <4> QED
        BY <1>o, <1>q, <1>3, <3>12, <4>2, <4>3
    <3> QED
      BY <3>11, <3>12
  <2> QED
    BY <2>3, <2>4
<1> QED
  BY <1>5, <1>6

\* One that does not hold the lock changes no MTU.
LEMMA MtuOfTake ==
  ASSUME Flow, Control, DataTyped, NEW t \in Threads, Take(t), procLock # t
  PROVE  mtu' = mtu
<1>0. Shape /\ Controlled(t) /\ ProcTyped(proc[t])
  BY DEF Flow, Control, DataTyped
<1>m. PICK m : m = Head(queue)
  OBVIOUS
<1>o. PICK o : o = proc[t]
  OBVIOUS
<1>p. PICK p : p = [o EXCEPT !.taken = m.id]
  OBVIOUS
<1>q. PICK q : q = proc'[t]
  OBVIOUS
<1>1. o.pc = "wait" /\ o.kind \in ProcedureKinds /\ o.kind = "discover"
  BY <1>0, <1>o DEF Take, ProcTyped, Controlled, Active, Locked
<1>2. /\ p.kind = o.kind
      /\ mtu' = IF m.type = "set_mtu" /\ RequestType(p) = "set_mtu"
                THEN [mtu EXCEPT !.client = m.value[1]] ELSE mtu
  BY <1>0, <1>m, <1>o, <1>p, <1>q, <1>1, Taking
<1>3. RequestType(p) # "set_mtu"
  BY <1>1, <1>2 DEF RequestType
<1> QED
  BY <1>2, <1>3

-----------------------------------------------------------------------------
(***************************************************************************)
(* Every step.                                                             *)
(***************************************************************************)
\* An exchange of MTUs is that of the holder, or was left.
LEMMA ExchangeAwaited ==
  ASSUME Flow, Control, Ours, DataTyped, InOrder, ~astray, MtuAgreed, CommandsBefore,
         OnExchangeMtu, \A t \in Threads : Holds(t) => Transfer(proc[t])
  PROVE  MtuAgreed'
<1>1. /\ toServer # <<>> /\ Asking.type = "set_mtu" /\ Asking \in Items(toServer)
      /\ proc' = proc /\ procLock' = procLock
  BY ServerEffect DEF OnExchangeMtu, Asked, Asking, client, Server
<1>2. FromSender(Asking) /\ Asking.id # 0
  BY <1>1, NumbersOf DEF Flow, Typed
<1>3. sender[Asking.id] \notin Unlocked
  BY <1>1, <1>2 DEF FromSender, Unlocked
<1>4. Asking.id \in InFlight
  BY <1>1, <1>2 DEF InFlight, Ids, Items
<1>5. PICK u \in Threads : /\ procLock = u
                           /\ proc[u].pc \in {"idle", "lock"}
                                \/ (proc[u].pc = "wait" /\ proc[u].own = Asking.id)
  BY <1>3, <1>4 DEF Ours, Awaits
<1>6. proc[u].pc = "wait" => proc[u].kind = "set_mtu"
  <2> SUFFICES ASSUME proc[u].pc = "wait" PROVE proc[u].kind = "set_mtu"
    OBVIOUS
  <2>1. Holds(u) /\ Server
    BY <1>5 DEF Holds, Server
  <2> QED
    BY <2>1, TransferServer
<1> QED
  BY <1>1, <1>5, <1>6 DEF MtuAgreed

\* What the steps of the others leave of a holder's transfer.
LEMMA TransferApart ==
  ASSUME NEW u \in Threads, Holds(u)', proc'[u] = proc[u], procLock = u,
         \A v \in Threads : Holds(v) => Transfer(proc[v]),
         UNCHANGED <<mtu, attrs, prepared>>,
         \A m \in Items(toServer') :
           proc[u].pc = "wait" /\ m.id = proc[u].own => m \in Items(toServer),
         \A m \in Items(toClient') \cup Items(queue') : proc[u].pc = "wait" /\ m.id = proc[u].own =>
           m \in Items(toClient) \cup Items(queue)
  PROVE  Transfer(proc[u])'
<1>p. PICK p : p = proc[u]
  OBVIOUS
<1>1. Transfer(p)
  BY <1>p DEF Holds
<1>2. Transfer(p)'
  BY <1>p, <1>1, TransferSame DEF Items
<1> QED
  BY <1>p, <1>2

\* The MTUs after a step that keeps them.
LEMMA MtuKept ==
  ASSUME MtuAgreed, mtu' = mtu,
         \A u \in Threads :
           /\ procLock = u
           /\ proc[u].pc \in {"idle", "lock"} \/ (proc[u].pc = "wait" /\ proc[u].kind = "set_mtu")
           => /\ procLock' = u
              /\ \/ proc'[u].pc \in {"idle", "lock"}
                 \/ proc'[u].pc = "wait" /\ proc'[u].kind = "set_mtu"
  PROVE  MtuAgreed'
  BY DEF MtuAgreed

\* What the transfers need of the rest of the invariant.
Context ==
  /\ Flow /\ Control /\ Ours /\ DataTyped /\ InOrder /\ ~astray /\ MtuAgreed /\ CommandsBefore
  /\ \A t \in Threads : Fresh(proc[t])
  /\ \A t \in Threads : Holds(t) => Transfer(proc[t])

\* A step of a thread keeps every transfer and the MTU.
LEMMA TransferOfThread ==
  ASSUME Context, ~astray', NEW t \in Threads, Call(t) \/ Procedure(t)
  PROVE  MtuAgreed' /\ \A u \in Threads : Holds(u)' => Transfer(proc[u])'
<1>0. /\ Shape /\ (\A u \in Threads : Controlled(u)) /\ None \notin Threads
      /\ Flow /\ Control /\ Ours /\ DataTyped /\ MtuAgreed
      /\ \A u \in Threads : Holds(u) => Transfer(proc[u])
  BY ThreadNumbers DEF Context, Flow, Control
<1>1. ASSUME Call(t) PROVE MtuAgreed' /\ \A u \in Threads : Holds(u)' => Transfer(proc[u])'
  <2>1. /\ proc[t].pc = "idle" /\ proc'[t].pc = "lock"
        /\ \A u \in Threads : u # t => proc'[u] = proc[u]
    BY <1>0, <1>1, EffectOfCall
  <2>2. UNCHANGED <<procLock, queue, mtu, toServer, toClient, attrs, prepared>>
    BY <1>1 DEF Call, server
  <2>3. MtuAgreed'
    BY <1>0, <2>1, <2>2, MtuKept
  <2>4. ASSUME NEW u \in Threads, Holds(u)' PROVE Transfer(proc[u])'
    <3>1. u # t /\ procLock = u
      BY <2>1, <2>2, <2>4 DEF Holds
    <3> QED
      BY <1>0, <2>1, <2>2, <2>4, <3>1, TransferApart
  <2> QED
    BY <2>3, <2>4
<1>2. ASSUME Begin(t) PROVE MtuAgreed' /\ \A u \in Threads : Holds(u)' => Transfer(proc[u])'
  <2>1. procLock = None /\ procLock' \in {t, None} /\ mtu' = mtu
    BY <1>0, <1>2, EffectOfBegin DEF Begin
  <2>2. mtu.client = mtu.server
    BY <1>0, <2>1 DEF MtuAgreed
  <2>3. Transfer(proc[t])'
    BY <1>2, TransferBegins DEF Context
  <2> QED
    BY <1>0, <2>1, <2>2, <2>3 DEF MtuAgreed, Holds
<1>3. ASSUME Send(t) PROVE MtuAgreed' /\ \A u \in Threads : Holds(u)' => Transfer(proc[u])'
  <2>1. /\ proc[t].pc = "send" /\ procLock' = procLock
        /\ \A u \in Threads : u # t => proc'[u] = proc[u]
    BY <1>0, <1>3, EffectOfSend
  <2>r. PICK r : r = Request(proc[t])
    OBVIOUS
  <2>2. /\ UNCHANGED <<queue, mtu, toClient, attrs, prepared>>
        /\ toServer' = IF terminated THEN toServer ELSE Append(toServer, r)
    BY <1>3, <2>r DEF Send, server
  <2>3. MtuAgreed'
    BY <1>0, <2>1, <2>2, MtuKept
  <2>4. ASSUME NEW u \in Threads, Holds(u)' PROVE Transfer(proc[u])'
    <3>1. procLock = u
      BY <2>1, <2>4 DEF Holds
    <3>2. CASE u = t
      <4>1. Holds(t)
        BY <2>1, <3>1, <3>2 DEF Holds
      <4> QED
        BY <1>0, <1>3, <3>2, <4>1, TransferSends
    <3>3. CASE u # t
      <4>1. r.id = sent + 1
        BY <2>r DEF Request
      <4>2. Items(toServer') \subseteq Items(toServer) \cup {r}
        BY <1>0, <2>2, AppendItem DEF Shape
      <4>3. proc[u].own \in Nat /\ proc[u].own <= sent /\ sent \in Nat
        BY <1>0 DEF DataTyped, ProcTyped, Shape
      <4>4. \A m \in Items(toServer') : m.id = proc[u].own => m \in Items(toServer)
        BY <4>1, <4>2, <4>3
      <4> QED
        BY <1>0, <2>1, <2>2, <2>4, <3>1, <3>3, <4>4, TransferApart
    <3> QED
      BY <3>2, <3>3
  <2> QED
    BY <2>3, <2>4
<1>4. ASSUME Take(t) PROVE MtuAgreed' /\ \A u \in Threads : Holds(u)' => Transfer(proc[u])'
  <2>m. PICK m : m = Head(queue)
    OBVIOUS
  <2>1. /\ proc[t].pc = "wait" /\ procLock' = procLock
        /\ \A u \in Threads : u # t => proc'[u] = proc[u]
    BY <1>0, <1>4, <2>m, EffectOfTake
  <2>2. UNCHANGED <<toServer, toClient, attrs, prepared>> /\ Items(queue') \subseteq Items(queue)
    BY <1>0, <1>4, <2>m, Taken DEF Take, server
  <2>3. CASE procLock = t
    <3>1. Holds(t)
      BY <2>1, <2>3 DEF Holds
    <3>2. /\ Transfer(proc[t])'
          /\ mtu'.client = mtu'.server
               \/ (mtu' = mtu /\ (proc[t].kind = "set_mtu" => proc'[t] = proc[t]))
      BY <1>0, <1>4, <3>1, TransferOfTake
    <3>3. MtuAgreed'
      <4>1. CASE mtu'.client = mtu'.server
        BY <4>1 DEF MtuAgreed
      <4>2. CASE mtu' = mtu /\ (proc[t].kind = "set_mtu" => proc'[t] = proc[t])
        BY <1>0, <2>1, <2>3, <4>2, MtuKept
      <4> QED
        BY <3>2, <4>1, <4>2
    <3> QED
      BY <2>1, <2>3, <3>2, <3>3 DEF Holds
  <2>4. CASE procLock # t
    <3>1. mtu' = mtu
      BY <1>0, <1>4, <2>4, MtuOfTake
    <3>2. MtuAgreed'
      BY <1>0, <2>1, <2>4, <3>1, MtuKept
    <3>3. ASSUME NEW u \in Threads, Holds(u)' PROVE Transfer(proc[u])'
      <4>1. u # t /\ procLock = u
        BY <2>1, <2>4, <3>3 DEF Holds
      <4> QED
        BY <1>0, <2>1, <2>2, <3>1, <3>3, <4>1, TransferApart
    <3> QED
      BY <3>2, <3>3
  <2> QED
    BY <2>3, <2>4
<1>5. ASSUME Ends(t)
      PROVE  MtuAgreed' /\ \A u \in Threads : Holds(u)' => Transfer(proc[u])'
  <2>1. /\ proc[t].pc \in {"wait", "stop"} /\ proc'[t].pc = "idle"
        /\ \A u \in Threads : u # t => proc'[u] = proc[u]
        /\ procLock' = procLock \/ (Locked(proc[t]) /\ procLock' = None /\ proc[t].pc = "stop")
    BY <1>0, <1>5, EffectOfEnd
  <2>2. /\ UNCHANGED <<mtu, toServer, toClient, attrs, prepared>>
        /\ Items(queue') \subseteq Items(queue)
    BY <1>0, <1>5, EndKeeps
  <2>3. Locked(proc[t]) /\ proc[t].pc = "stop" => procLock = t
    BY <1>0 DEF Controlled, Active
  <2>4. MtuAgreed'
    BY <1>0, <2>1, <2>2, <2>3, MtuKept
  <2>5. ASSUME NEW u \in Threads, Holds(u)' PROVE Transfer(proc[u])'
    <3>1. u # t /\ procLock = u
      BY <1>0, <2>1, <2>5 DEF Holds
    <3> QED
      BY <1>0, <2>1, <2>2, <2>5, <3>1, TransferApart
  <2> QED
    BY <2>4, <2>5
<1> QED
  BY <1>1, <1>2, <1>3, <1>4, <1>5 DEF Procedure, Ends

\* A step of another part keeps every transfer and the MTU.
LEMMA TransferOfRest ==
  ASSUME Context,
         OnPdu \/ CallbackReturns \/ Server \/ Indicate \/ Disconnect \/ UNCHANGED vars
  PROVE  MtuAgreed' /\ \A u \in Threads : Holds(u)' => Transfer(proc[u])'
<1>0. /\ Flow /\ Control /\ Ours /\ DataTyped /\ InOrder /\ ~astray /\ MtuAgreed /\ CommandsBefore
      /\ IsSequence(queue) /\ IsSequence(toClient)
      /\ \A u \in Threads : Holds(u) => Transfer(proc[u])
  BY DEF Context, Flow, Shape
<1>1. proc' = proc /\ procLock' = procLock
  BY <1>0, FlowOfRest DEF Elsewhere
<1>2. \A u \in Threads : Holds(u)' => Holds(u) /\ procLock = u
  BY <1>1 DEF Holds
<1>3. CASE Server
  <2>1. ASSUME NEW u \in Threads, Holds(u)' PROVE Transfer(proc[u])'
    <3>p. PICK p : p = proc[u]
      OBVIOUS
    <3>1. Transfer(p)'
      BY <1>0, <1>2, <1>3, <2>1, <3>p, TransferServer
    <3> QED
      BY <1>1, <3>p, <3>1
  <2>2. MtuAgreed'
    <3>1. CASE OnExchangeMtu
      BY <1>0, <3>1, ExchangeAwaited
    <3>2. CASE ~OnExchangeMtu
      <4>1. mtu' = mtu
        BY <1>3, <3>2 DEF Server, OnRead, OnReadBlob, OnWrite, OnWriteCommand, Refuse,
                          OnPrepareWrite, OnExecuteWrite, OnDiscover
      <4> QED
        BY <1>0, <1>1, <4>1, MtuKept
    <3> QED
      BY <3>1, <3>2
  <2> QED
    BY <2>1, <2>2
<1>4. CASE OnPdu \/ CallbackReturns \/ Indicate \/ Disconnect \/ UNCHANGED vars
  <2>1. UNCHANGED <<mtu, attrs, prepared>>
    BY <1>4 DEF OnPdu, CallbackReturns, Indicate, Disconnect, vars, server
  <2>2. MtuAgreed'
    BY <1>0, <1>1, <2>1, MtuKept
  <2>3. /\ Items(toServer') \subseteq Items(toServer)
        /\ \A m \in Items(toClient') \cup Items(queue') :
             m \in Items(toClient) \cup Items(queue) \/ m.id = 0
    <3>1. CASE OnPdu
      <4>m. PICK m : m = Head(toClient)
        OBVIOUS
      <4>1. /\ toClient # <<>> /\ toClient' = Tail(toClient) /\ toServer' = toServer
            /\ (queue' = queue \/ queue' = Append(queue, m))
        BY <3>1, <4>m DEF OnPdu
      <4>2. m \in Items(toClient) /\ Items(toClient') \subseteq Items(toClient)
        BY <1>0, <4>m, <4>1, TailItem
      <4>3. Items(Append(queue, m)) = Items(queue) \cup {m}
        BY <1>0, AppendItem
      <4> QED
        BY <4>1, <4>2, <4>3
    <3>2. CASE CallbackReturns \/ UNCHANGED vars
      BY <3>2 DEF CallbackReturns, vars
    <3>3. CASE Indicate
      <4>1. PICK m : m.id = 0 /\ toClient' = Append(toClient, m) /\ UNCHANGED <<toServer, queue>>
        BY <3>3 DEF Indicate
      <4>2. Items(toClient') = Items(toClient) \cup {m}
        BY <1>0, <4>1, AppendItem
      <4> QED
        BY <4>1, <4>2
    <3>4. CASE Disconnect
      BY <3>4, EmptyItems DEF Disconnect
    <3> QED
      BY <1>4, <3>1, <3>2, <3>3, <3>4
  <2>4. ASSUME NEW u \in Threads, Holds(u)' PROVE Transfer(proc[u])'
    <3>1. proc[u].pc = "wait" => proc[u].own # 0
      BY <1>0 DEF DataTyped, ProcTyped
    <3> QED
      BY <1>0, <1>1, <1>2, <2>1, <2>3, <2>4, <3>1, TransferApart
  <2> QED
    BY <2>2, <2>4
<1> QED
  BY <1>3, <1>4

\* Every step keeps the invariant of the transfers.
LEMMA TransferNext ==
  ASSUME GattInv, TransferInv, [Next]_vars
  PROVE  TransferInv'
<1>0. Flow /\ Control /\ Ours /\ DataTyped /\ InOrder /\ Transfers
  BY DEF GattInv, TransferInv
<1>1. DataTyped' /\ InOrder'
  BY <1>0, DataNext, OrderNext
<1>2. \A t \in Threads : Fresh(proc[t])'
  BY <1>0, FreshNext DEF Transfers
<1>3. ASSUME ~astray'
      PROVE  MtuAgreed' /\ CommandsBefore' /\ \A t \in Threads : Holds(t)' => Transfer(proc[t])'
  <2>1. ~astray
    BY <1>0, <1>3, AstrayStays
  <2>2. Context
    BY <1>0, <2>1 DEF Context, Transfers
  <2>3. CommandsBefore'
    BY <1>0, <1>3, <2>2, CommandsNext DEF Context
  <2>4. MtuAgreed' /\ \A t \in Threads : Holds(t)' => Transfer(proc[t])'
    BY <1>3, <2>2, TransferOfThread, TransferOfRest DEF Next
  <2> QED
    BY <2>3, <2>4
<1> QED
  BY <1>1, <1>2, <1>3 DEF TransferInv, Transfers

\* The invariant of the transfers holds at first.
LEMMA TransferInit == Init => TransferInv
<1> SUFFICES ASSUME Init PROVE TransferInv
  OBVIOUS
<1>1. /\ proc = [t \in Threads |-> Idle] /\ queue = <<>> /\ toServer = <<>> /\ toClient = <<>>
      /\ mtu = [client |-> DefaultMtu, server |-> DefaultMtu]
  BY DEF Init
<1>2. DataTyped
  BY DataInit
<1>3. Items(toServer) = {} /\ 1..Len(toServer) = {}
  BY <1>1, EmptyItems
<1>4. InOrder
  BY <1>3 DEF InOrder
<1>5. \A t \in Threads : Fresh(proc[t]) /\ ~Holds(t)
  BY <1>1 DEF Fresh, Holds, Idle
<1>6. MtuAgreed
  BY <1>1 DEF MtuAgreed
<1> QED
  BY <1>2, <1>4, <1>5, <1>6 DEF TransferInv, Transfers, CommandsBefore

\* A transfer that reports success is whole, for any number of threads, any
\* values, any MTU and any interleaving.
THEOREM TransfersComplete == Spec => []TransfersWhole
<1>1. Init => GattInv /\ TransferInv
  BY GattInvInit, TransferInit
<1>2. GattInv /\ TransferInv /\ [Next]_vars => (GattInv /\ TransferInv)'
  <2> SUFFICES ASSUME GattInv, TransferInv, [Next]_vars PROVE (GattInv /\ TransferInv)'
    OBVIOUS
  <2>1. TransferInv'
    BY TransferNext
  <2> QED
    BY <2>1, FlowStep, ControlNext, OursNext, OwnNext DEF GattInv
<1>3. GattInv /\ TransferInv => TransfersWhole
  <2> SUFFICES ASSUME GattInv, TransferInv PROVE TransfersWhole
    OBVIOUS
  <2>1. ASSUME NEW t \in Threads, proc[t].pc = "stop", proc[t].result = "ok", ~astray,
               Enough(proc[t])
        PROVE  TransferredWhole(proc[t])
    <3>1. Controlled(t) /\ Transfers
      BY DEF GattInv, Control, TransferInv
    <3>2. CASE Locked(proc[t])
      <4>1. Holds(t)
        BY <2>1, <3>1, <3>2 DEF Controlled, Active, Holds
      <4> QED
        BY <2>1, <3>1, <4>1 DEF Transfers, Transfer
    <3>3. CASE ~Locked(proc[t])
      BY <3>3 DEF Locked, TransferredWhole
    <3> QED
      BY <3>2, <3>3
  <2> QED
    BY <2>1 DEF TransfersWhole
<1> QED
  BY <1>1, <1>2, <1>3, PTL DEF Spec

\* The client and the server have the same MTU whenever the procedure lock is
\* free: each stores the MTU of an exchange by itself, and the lock, which a
\* refused or timed out exchange releases late or never, covers both stores.
THEOREM MtusKeptEqual == Spec => []MtusAgree
<1>1. Init => GattInv /\ TransferInv
  BY GattInvInit, TransferInit
<1>2. GattInv /\ TransferInv /\ [Next]_vars => (GattInv /\ TransferInv)'
  <2> SUFFICES ASSUME GattInv, TransferInv, [Next]_vars PROVE (GattInv /\ TransferInv)'
    OBVIOUS
  <2>1. TransferInv'
    BY TransferNext
  <2> QED
    BY <2>1, FlowStep, ControlNext, OursNext, OwnNext DEF GattInv
<1>3. TransferInv => MtusAgree
  BY ThreadNumbers DEF TransferInv, Transfers, MtuAgreed, MtusAgree
<1> QED
  BY <1>1, <1>2, <1>3, PTL DEF Spec

-----------------------------------------------------------------------------
(***************************************************************************)
(* The lock that an exception leaves taken: its owner has left the procedure  *)
(* that took it, and will not end it.                                      *)
(***************************************************************************)
Lost == leaked => \E h \in Threads : procLock = h /\ proc[h].pc \in {"idle", "lock"}

\* Who moves in a step, and what becomes of the lock once it is lost.
LEMMA LostStep ==
  ASSUME Flow, Control, Lost, leaked, [Next]_vars
  PROVE  /\ procLock' = procLock
         /\ \A u \in Threads : proc[u].pc = "lock" => proc'[u] = proc[u]
         /\ \A u \in Threads : proc[u].pc = "idle" => proc'[u].pc \in {"idle", "lock"}
<1> DEFINE Kept == /\ procLock' = procLock
                   /\ \A u \in Threads : proc[u].pc = "lock" => proc'[u] = proc[u]
                   /\ \A u \in Threads : proc[u].pc = "idle" => proc'[u].pc \in {"idle", "lock"}
<1>0. Shape /\ \A t \in Threads : Controlled(t)
  BY DEF Flow, Control
<1>1. PICK h \in Threads : procLock = h /\ proc[h].pc \in {"idle", "lock"}
  BY DEF Lost
<1>2. ASSUME NEW t \in Threads, procLock' = procLock, proc[t].pc \notin {"idle", "lock"},
             \A u \in Threads : u # t => proc'[u] = proc[u]
      PROVE  Kept
  BY <1>2
<1>3. ASSUME NEW t \in Threads, Call(t) PROVE Kept
  <2>1. procLock' = procLock
    BY <1>3 DEF Call
  <2> QED
    BY <1>0, <1>3, <2>1, EffectOfCall
<1>4. ASSUME NEW t \in Threads, Begin(t) PROVE FALSE
  BY <1>0, <1>1, <1>4, EffectOfBegin, ThreadNumbers
<1>5. ASSUME NEW t \in Threads, Send(t) PROVE Kept
  BY <1>0, <1>2, <1>5, EffectOfSend
<1>6. ASSUME NEW t \in Threads, Take(t) PROVE Kept
  <2>1. PICK m : m = Head(queue)
    OBVIOUS
  <2> QED
    BY <1>0, <1>2, <1>6, <2>1, EffectOfTake
<1>7. ASSUME NEW t \in Threads, Ends(t) PROVE Kept
  <2>1. /\ proc[t].pc \in {"wait", "stop"} /\ \A u \in Threads : u # t => proc'[u] = proc[u]
        /\ procLock' = procLock \/ (Locked(proc[t]) /\ procLock' = None /\ proc[t].pc = "stop")
    BY <1>0, <1>7, EffectOfEnd
  \* A procedure that has the lock is not at its end, since h is not.
  <2>2. ~(Locked(proc[t]) /\ proc[t].pc = "stop")
    <3>1. Controlled(t)
      BY <1>0
    <3>2. proc[t].pc = "stop" /\ Locked(proc[t]) => t = h
      BY <1>1, <3>1 DEF Controlled, Active
    <3> QED
      BY <1>1, <3>2
  <2> QED
    BY <1>2, <2>1, <2>2
<1>8. CASE OnPdu \/ CallbackReturns \/ Server \/ Indicate \/ Disconnect \/ UNCHANGED vars
  BY <1>8, FlowOfRest DEF Elsewhere
<1> QED
  BY <1>3, <1>4, <1>5, <1>6, <1>7, <1>8 DEF Next, Procedure, Ends

LEMMA LostNext ==
  ASSUME Flow, Control, Lost, [Next]_vars
  PROVE  Lost'
<1>1. CASE leaked
  <2>1. PICK h \in Threads : procLock = h /\ proc[h].pc \in {"idle", "lock"}
    BY <1>1 DEF Lost
  <2>2. procLock' = h /\ proc'[h].pc \in {"idle", "lock"}
    BY <1>1, <2>1, LostStep
  <2> QED
    BY <2>2 DEF Lost
<1>2. CASE ~leaked
  <2>1. ASSUME NEW t \in Threads, GiveUp(t) PROVE Lost'
    <3>1. procLock' = procLock /\ leaked' = (leaked \/ procLock = t)
      BY <2>1 DEF GiveUp
    <3>2. proc'[t].pc = "idle"
      BY <2>1, EffectOfEnd DEF Flow, Ends
    <3> QED
      BY <1>2, <3>1, <3>2 DEF Lost
  <2>5. ASSUME NEW t \in Threads, Raise(t) PROVE Lost'
    <3>1. proc[t].pc = "wait" /\ proc[t].kind = "read_long" /\ procLock' = procLock
      BY <2>5 DEF Raise, Raises
    <3>2. procLock = t
      BY <3>1 DEF Control, Controlled, Active, Locked
    <3>3. proc'[t].pc = "idle"
      BY <2>5, EffectOfEnd DEF Flow, Ends
    <3> QED
      BY <3>1, <3>2, <3>3 DEF Lost
  <2>2. ASSUME NEW t \in Threads, Call(t) \/ Begin(t) \/ Send(t) \/ Take(t) \/ Stop(t)
        PROVE  leaked' = leaked
    BY <2>2 DEF Call, Begin, Send, Take, Stop, history
  <2>3. CASE OnPdu \/ CallbackReturns \/ Server \/ Indicate \/ Disconnect \/ UNCHANGED vars
    BY <2>3 DEF OnPdu, CallbackReturns, Server, OnRead, OnReadBlob, OnWrite, OnWriteCommand, Refuse,
                OnPrepareWrite, OnExecuteWrite, OnExchangeMtu, OnDiscover, Indicate, Disconnect,
                vars, client, history, Lost
  <2>4. leaked' = leaked => Lost'
    BY <1>2 DEF Lost
  <2> QED
    BY <2>1, <2>2, <2>3, <2>4, <2>5 DEF Next, Procedure
<1> QED
  BY <1>1, <1>2

\* proclock releases the procedure lock for an AttError only: after a timeout,
\* the TypeError of a read_long, or the end of the connection, every procedure that waits for the lock stays
\* where it is.  A thread that waits then never returns, which is why
\* ProceduresReturn has to make an exception for it.
THEOREM LockStaysLost == Spec => LockLost
<1>1. Init => GattInv /\ Lost
  BY GattInvInit DEF Init, Lost
<1>2. GattInv /\ Lost /\ [Next]_vars => GattInv' /\ Lost'
  BY FlowStep, ControlNext, OursNext, OwnNext, LostNext DEF GattInv
<1>3. GattInv /\ Lost /\ [Next]_vars =>
        (leaked => \A t \in Threads : proc[t].pc = "lock" => proc'[t] = proc[t])
  BY LostStep DEF GattInv
<1> QED
  BY <1>1, <1>2, <1>3, PTL DEF Spec, LockLost
=============================================================================
