----------------------------- MODULE Provisioning -----------------------------
(***************************************************************************)
(* Provisioning of a Bluetooth Mesh node over PB-ADV, between a            *)
(* provisioner and a provisionee that both run this code: the protocol     *)
(* (whad/btmesh/stack/provisioning), the transactions that carry its       *)
(* packets (whad/btmesh/stack/gen_prov), and the bearer                    *)
(* (whad/btmesh/stack/pb_adv).                                             *)
(*                                                                         *)
(* Each node has a receiving thread, which runs the handlers of all three  *)
(* layers, a thread that sends the fragments of the current transaction,   *)
(* round after round, and a user thread, which types the authentication    *)
(* value.  They share the transaction without a lock.  Every PDU is sent   *)
(* by a thread of its own, by radio: it may arrive at any time, any number *)
(* of times, or never.                                                     *)
(***************************************************************************)
EXTENDS Integers, Sequences

CONSTANTS
  Methods,   \* authentication methods: "none", "input" or "output"
  Fragments, \* number of fragments of each provisioning packet
  MaxRounds  \* rounds of the sending thread (15 in the code)

Peers == {"provisioner", "provisionee"}
Other(p) == CHOOSE q \in Peers : q # p

Packets == {"invite", "capabilities", "start", "public_key", "input_complete",
            "confirmation", "random", "data", "complete"}

ASSUME ProvisioningAssumption ==
  /\ Methods \subseteq {"none", "input", "output"}
  /\ Fragments \in [Packets -> Nat \ {0}]
  /\ MaxRounds \in Nat

VARIABLES
  method,    \* the authentication the provisioner chooses
  node,      \* state of both layers of each node
  thread,    \* the sending thread of each node
  user,      \* the thread that starts provisioning, or types the value
  auth,      \* the authentication value each node computes with
  air,       \* PDUs sent to each node
  submitted, \* history: packets the provisioning layer of each node has submitted
  passed     \* history: packets it has been given

vars == <<method, node, thread, user, auth, air, submitted, passed>>

\* A transaction: the fragments to send, or received so far.
NoTransaction == [role |-> "none", number |-> 0, parts |-> <<>>, last |-> 0, fcs |-> "none"]

\* The state of GenericProvisioningLayer and ProvisioningLayer.  Transaction
\* numbers start from 0 and from 128; -1 stands for none received.
NewNode(p) ==
  [exists |-> FALSE, linkOpen |-> FALSE, opening |-> FALSE, inTransaction |-> FALSE,
   current |-> NoTransaction, running |-> FALSE, lastReceived |-> -1,
   lastSent |-> IF p = "provisioner" THEN -1 ELSE 127, queue |-> <<>>,
   expected |-> IF p = "provisioner" THEN "none" ELSE "invite",
   deaf |-> FALSE, done |-> FALSE]

\* The sending thread: `index` is the next fragment of the round, or 0
\* between two rounds; it keeps the number and the count it read.
NewThread == [rounds |-> MaxRounds, index |-> 0, number |-> 0, count |-> 0, dead |-> FALSE]

-----------------------------------------------------------------------------
(* PDUs                                                                    *)

Pdu(kind, number) ==
  [kind |-> kind, number |-> number, index |-> 0, last |-> 0, part |-> "none", fcs |-> "none"]
StartPdu(number, t) ==
  [kind |-> "start", number |-> number, index |-> 0, last |-> Len(t.parts) - 1,
   part |-> t.parts[1], fcs |-> t.fcs]
ContinuationPdu(number, i, t) ==
  [kind |-> "continuation", number |-> number, index |-> i, last |-> 0,
   part |-> t.parts[i + 1], fcs |-> "none"]

Ack(number) == {Pdu("ack", number)}

-----------------------------------------------------------------------------
(* Submitting a packet                                                     *)

SendingTransaction(number, x) ==
  [role |-> "sending", number |-> number, parts |-> [i \in 1..Fragments[x] |-> x],
   last |-> Fragments[x] - 1, fcs |-> x]

\* process_provisioning_packet.  "FINISHED_PROV" closes the link instead.
Process(s, x) ==
  IF x = "finished" THEN [s EXCEPT !.done = TRUE]
  ELSE [s EXCEPT !.inTransaction = TRUE, !.running = TRUE,
                 !.current = SendingTransaction(s.lastSent + 1, x)]

\* on_provisioning_packet, on an open link
Ready(s) == s.queue = <<>> /\ ~s.inTransaction
Put(s, x) == [s EXCEPT !.queue = Append(@, x)]
Submit(s, x) == IF Ready(s) THEN Process(s, x) ELSE Put(s, x)

CheckQueue(s) ==
  IF ~s.inTransaction /\ s.queue # <<>>
  THEN Process([s EXCEPT !.queue = Tail(@)], Head(s.queue)) ELSE s

\* The handlers submit at most two packets.
SubmitAll(s, xs) ==
  CASE Len(xs) = 0 -> s
    [] Len(xs) = 1 -> Submit(s, xs[1])
    [] OTHER       -> Submit(Submit(s, xs[1]), xs[2])

-----------------------------------------------------------------------------
(* The protocol                                                            *)

Answer(xs, next) == [packets |-> xs, expected |-> next]

\* What the provisioner submits when it is given x, and what it then expects.
ProvisionerOn(x) ==
  CASE x = "capabilities"   -> Answer(<<"start", "public_key">>, "public_key")
    [] x = "public_key"     -> IF method = "none" THEN Answer(<<"confirmation">>, "confirmation")
                               ELSE Answer(<<>>, IF method = "input" THEN "input_complete"
                                                                     ELSE "auth")
    [] x = "input_complete" -> Answer(<<"confirmation">>, "confirmation")
    [] x = "confirmation"   -> Answer(<<"random">>, "random")
    [] x = "random"         -> Answer(<<"data">>, "complete")
    [] x = "complete"       -> Answer(<<"finished">>, "complete")

ProvisioneeOn(x) ==
  CASE x = "invite"       -> Answer(<<"capabilities">>, "start")
    [] x = "start"        -> Answer(<<>>, "public_key")
    [] x = "public_key"   -> Answer(<<"public_key">>,
                                    IF method = "input" THEN "auth" ELSE "confirmation")
    [] x = "confirmation" -> Answer(<<"confirmation">>, "random")
    [] x = "random"       -> Answer(<<"random">>, "data")
    [] x = "data"         -> Answer(<<"complete">>, "none")

On(p, x) == IF p = "provisioner" THEN ProvisionerOn(x) ELSE ProvisioneeOn(x)

\* Mutant: the confirmation of the other side is not checked.
VerifiedAlways(x) == TRUE

\* The random value of the other side opens its confirmation, which was
\* computed with its authentication value.
Verified(x) == x = "random" => auth["provisioner"] = auth["provisionee"]

\* on_packet_received, and the handler.  A packet that is not expected, or
\* a confirmation that does not match, raises: the receiving thread ends.
Upper(p, s, x) ==
  IF x = s.expected /\ Verified(x)
  THEN LET done == p = "provisionee" /\ x = "data" IN
       [SubmitAll(s, On(p, x).packets) EXCEPT !.expected = On(p, x).expected,
                                              !.done = @ \/ done]
  ELSE [s EXCEPT !.deaf = TRUE]

\* The packets for the other side that this submits.
PacketsOf(p, s, x) ==
  IF x = s.expected /\ Verified(x) /\ On(p, x).packets # <<"finished">>
  THEN On(p, x).packets ELSE <<>>

\* The nodes that show the authentication value, once they have the public key.
Displays == {<<"output", "provisionee">>, <<"input", "provisioner">>}

\* Node p goes from state s, with which it gives x to its upper layer, to
\* the state after that; `out` is what it sends.
PassUp(p, s, x, out) ==
  LET t == IF s.current.last > 0 /\ Verified(x) /\ x = s.expected
           THEN CheckQueue(Upper(p, s, x)) ELSE Upper(p, s, x)
      close == IF t.done /\ p = "provisioner" THEN {Pdu("close", 0)} ELSE {} IN
  /\ node' = [node EXCEPT ![p] = t]
  /\ air' = [air EXCEPT ![Other(p)] = @ \cup out \cup close]
  /\ passed' = [passed EXCEPT ![p] = Append(@, x)]
  /\ submitted' = [submitted EXCEPT ![p] = @ \o PacketsOf(p, s, x)]
  /\ auth' = IF x = "public_key" /\ x = s.expected /\ <<method, p>> \in Displays
             THEN [auth EXCEPT ![p] = "shown"] ELSE auth
  /\ UNCHANGED <<method, thread, user>>

\* Node p goes to state s and sends `out`; the protocol is not concerned.
Become(p, s, out) ==
  /\ node' = [node EXCEPT ![p] = s]
  /\ air' = [air EXCEPT ![Other(p)] = @ \cup out]
  /\ UNCHANGED <<method, thread, user, auth, submitted, passed>>

-----------------------------------------------------------------------------
(* The receiving thread.  A PDU that a handler ignores changes nothing.    *)

\* The provisionee hears no provisioning PDU once it is provisioned.
Hears(p) == node[p].exists /\ ~node[p].deaf /\ (p = "provisionee" => ~node[p].done)

\* A Link Open with its UUID creates the layers of the provisionee.
OnLinkOpen(p, m) ==
  /\ m.kind = "open" /\ p = "provisionee" /\ ~node[p].deaf /\ ~node[p].done
  /\ Become(p, [node[p] EXCEPT !.exists = TRUE, !.linkOpen = TRUE], {Pdu("link_ack", 0)})

OnLinkAck(p, m) ==
  /\ m.kind = "link_ack" /\ Hears(p) /\ ~node[p].linkOpen /\ ~node[p].done
  /\ Become(p, CheckQueue([node[p] EXCEPT !.linkOpen = TRUE, !.opening = FALSE]), {})

\* A Start or a Continuation of a transaction that is finished.
OnFinished(p, m) ==
  /\ m.kind \in {"start", "continuation"} /\ Hears(p) /\ m.number <= node[p].lastReceived
  /\ Become(p, node[p], Ack(m.number))

Received(s, m) == [s EXCEPT !.inTransaction = FALSE, !.lastReceived = m.number]

\* Mutant: only the latest transaction is known as finished.
OnStartAgain(p, m) ==
  LET s == [node[p] EXCEPT !.inTransaction = TRUE,
              !.current = [role |-> "receiving", number |-> m.number, parts |-> <<m.part>>,
                           last |-> m.last, fcs |-> m.fcs]] IN
  /\ m.kind = "start" /\ Hears(p) /\ m.number # node[p].lastReceived /\ ~node[p].inTransaction
  /\ \/ m.last = 0 /\ PassUp(p, Received(s, m), m.part, Ack(m.number))
     \/ m.last # 0 /\ Become(p, s, {})

OnStart(p, m) ==
  LET s == [node[p] EXCEPT !.inTransaction = TRUE,
              !.current = [role |-> "receiving", number |-> m.number, parts |-> <<m.part>>,
                           last |-> m.last, fcs |-> m.fcs]] IN
  /\ m.kind = "start" /\ Hears(p) /\ m.number > node[p].lastReceived /\ ~node[p].inTransaction
  /\ \/ m.last = 0 /\ PassUp(p, Received(s, m), m.part, Ack(m.number))
     \/ m.last # 0 /\ Become(p, s, {})

\* Mutant: a fragment is taken whatever its index.
OnContinuationAnyIndex(p, m) ==
  LET s == [node[p] EXCEPT !.current.parts = Append(@, m.part)] IN
  /\ m.kind = "continuation" /\ Hears(p) /\ m.number > node[p].lastReceived
  /\ node[p].inTransaction /\ node[p].current.number = m.number
  /\ Become(p, s, {})

\* The next fragment; a fragment further on drops the transaction.
OnContinuation(p, m) ==
  LET s == [node[p] EXCEPT !.current.parts = Append(@, m.part)]
      have == Len(node[p].current.parts) IN
  /\ m.kind = "continuation" /\ Hears(p) /\ m.number > node[p].lastReceived
  /\ node[p].inTransaction /\ node[p].current.number = m.number
  /\ \/ /\ m.index > have
        /\ Become(p, [node[p] EXCEPT !.current = NoTransaction, !.inTransaction = FALSE], {})
     \/ /\ m.index = have /\ have < node[p].current.last
        /\ Become(p, s, {})
     \/ /\ m.index = have /\ have = node[p].current.last
        /\ IF \A i \in 1..Len(s.current.parts) : s.current.parts[i] = s.current.fcs
           THEN PassUp(p, Received(s, m), s.current.fcs, Ack(m.number))
           ELSE Become(p, [s EXCEPT !.deaf = TRUE], {})

\* Mutant: the queue is not looked at.
OnAckOnly(p, m) ==
  /\ m.kind = "ack" /\ Hears(p)
  /\ node[p].inTransaction /\ node[p].current.number = m.number
  /\ Become(p, [node[p] EXCEPT !.running = FALSE, !.inTransaction = FALSE, !.lastSent = @ + 1], {})

OnAck(p, m) ==
  /\ m.kind = "ack" /\ Hears(p)
  /\ node[p].inTransaction /\ node[p].current.number = m.number
  /\ Become(p, CheckQueue([node[p] EXCEPT !.running = FALSE, !.inTransaction = FALSE,
                                          !.lastSent = @ + 1]), {})

Deliver(p, m) ==
  \/ OnLinkOpen(p, m) \/ OnLinkAck(p, m)
  \/ OnFinished(p, m) \/ OnStart(p, m) \/ OnContinuation(p, m) \/ OnAck(p, m)

Receive(p) == \E m \in air[p] : Deliver(p, m)

-----------------------------------------------------------------------------
(* The sending thread                                                      *)

Sends(p, t, out) ==
  /\ thread' = [thread EXCEPT ![p] = t]
  /\ air' = [air EXCEPT ![Other(p)] = @ \cup out]
  /\ UNCHANGED <<method, node, user, auth, submitted, passed>>

Alive(p) == node[p].exists /\ ~thread[p].dead

\* The end of a round of `count` fragments, or the next fragment of it.
NextFragment(t, i) ==
  IF i < t.count THEN [t EXCEPT !.index = i] ELSE [t EXCEPT !.index = 0, !.rounds = @ - 1]

IdleRound(p) ==
  /\ Alive(p) /\ thread[p].index = 0 /\ thread[p].rounds > 0 /\ ~node[p].running
  /\ Sends(p, [thread[p] EXCEPT !.rounds = @ - 1], {})

\* The test of is_thread_running and the reads for the first fragment are one
\* step: the receiving thread would have to handle an acknowledgment and the
\* start of the transaction that answers it between two of these statements,
\* while the other side waits 10 ms at least before each PDU.
FirstFragment(p) ==
  LET t == [thread[p] EXCEPT !.number = node[p].current.number,
                             !.count = Len(node[p].current.parts)] IN
  /\ Alive(p) /\ thread[p].index = 0 /\ thread[p].rounds > 0 /\ node[p].running
  /\ Sends(p, NextFragment(t, 1), {StartPdu(t.number, node[p].current)})

\* The transaction is read again for every fragment: when the receiving
\* thread has dropped it or put a shorter one there, the thread raises.
FollowingFragment(p) ==
  LET t == thread[p]
      now == node[p].current IN
  /\ Alive(p) /\ t.index > 0
  /\ \/ /\ t.index < Len(now.parts)
        /\ Sends(p, NextFragment(t, t.index + 1), {ContinuationPdu(t.number, t.index, now)})
     \/ /\ t.index >= Len(now.parts)
        /\ Sends(p, [t EXCEPT !.dead = TRUE], {})

SendingThread(p) == IdleRound(p) \/ FirstFragment(p) \/ FollowingFragment(p)

\* send_link_open_thread
LinkOpenThread(p) ==
  /\ node[p].opening
  /\ air' = [air EXCEPT ![Other(p)] = @ \cup {Pdu("open", 0)}]
  /\ UNCHANGED <<method, node, thread, user, auth, submitted, passed>>

-----------------------------------------------------------------------------
(* The user thread of each node                                            *)

UserGoes(p, at) == user' = [user EXCEPT ![p] = at]

\* initiate_provisioning: the link is not open, so it is opened and the
\* Invite queued; then the answer is expected.
Begin ==
  /\ user["provisioner"] = "idle" /\ ~node["provisioner"].exists
  /\ node' = [node EXCEPT !["provisioner"].exists = TRUE, !["provisioner"].opening = TRUE]
  /\ UserGoes("provisioner", "queueing")
  /\ UNCHANGED <<method, thread, auth, air, submitted, passed>>

\* The packet of on_provisioning_auth_data
Typed(p) == IF p = "provisioner" THEN "confirmation" ELSE "input_complete"

\* A packet queued on an open link with no transaction in progress stays.
Queue(p) ==
  LET x == IF p = "provisioner" /\ passed[p] = <<>> THEN "invite" ELSE Typed(p) IN
  /\ user[p] = "queueing"
  /\ node' = [node EXCEPT ![p] = Put(@, x)]
  /\ submitted' = [submitted EXCEPT ![p] = Append(@, x)]
  /\ UserGoes(p, "expecting")
  /\ UNCHANGED <<method, thread, auth, air, passed>>

\* The user types the value shown by the other side, or another one.
Type(p) ==
  /\ user[p] = "idle" /\ node[p].expected = "auth"
  /\ \E v \in {"shown", "other"} : auth' = [auth EXCEPT ![p] = v]
  /\ UserGoes(p, IF Ready(node[p]) THEN "sending" ELSE "queueing")
  /\ UNCHANGED <<method, node, thread, air, submitted, passed>>

SendTyped(p) ==
  /\ user[p] = "sending"
  /\ node' = [node EXCEPT ![p] = Process(@, Typed(p))]
  /\ submitted' = [submitted EXCEPT ![p] = Append(@, Typed(p))]
  /\ UserGoes(p, "expecting")
  /\ UNCHANGED <<method, thread, auth, air, passed>>

Expect(p) ==
  /\ user[p] = "expecting"
  /\ node' = [node EXCEPT ![p].expected =
                IF p = "provisioner" /\ @ = "none" THEN "capabilities" ELSE "confirmation"]
  /\ UserGoes(p, "idle")
  /\ UNCHANGED <<method, thread, auth, air, submitted, passed>>

UserThread(p) == Queue(p) \/ Type(p) \/ SendTyped(p) \/ Expect(p)

-----------------------------------------------------------------------------
Init ==
  /\ method \in Methods
  /\ node = [p \in Peers |-> NewNode(p)]
  /\ thread = [p \in Peers |-> NewThread]
  /\ user = [p \in Peers |-> "idle"]
  /\ auth = [p \in Peers |-> "none"]
  /\ air = [p \in Peers |-> {}]
  /\ submitted = [p \in Peers |-> <<>>]
  /\ passed = [p \in Peers |-> <<>>]

Next ==
  \/ Begin
  \/ \E p \in Peers : Receive(p) \/ SendingThread(p) \/ LinkOpenThread(p) \/ UserThread(p)

\* Threads run, and users type.  The radio owes nothing but the PDUs of the
\* link, which the other side sends again for ever.
Fairness ==
  /\ WF_vars(Begin)
  /\ \A p \in Peers :
       /\ WF_vars(\E m \in air[p] : OnLinkOpen(p, m) /\ ~node[p].linkOpen)
       /\ WF_vars(\E m \in air[p] : OnLinkAck(p, m))
       /\ WF_vars(SendingThread(p)) /\ WF_vars(LinkOpenThread(p)) /\ WF_vars(UserThread(p))

Spec == Init /\ [][Next]_vars /\ Fairness

-----------------------------------------------------------------------------
(* Properties                                                              *)

TypeOK ==
  /\ method \in Methods
  /\ \A p \in Peers :
       /\ node[p].current.role \in {"none", "sending", "receiving"}
       /\ Len(node[p].current.parts) <= node[p].current.last + 1
       /\ thread[p].rounds \in 0..MaxRounds
       /\ thread[p].index <= thread[p].count
       /\ node[p].expected \in Packets \cup {"none", "auth"}
       /\ user[p] \in {"idle", "queueing", "sending", "expecting"}
       /\ auth[p] \in {"none", "shown", "other"}

\* Packets cross whole, once and in order, though their fragments and
\* acknowledgments are lost, repeated and reordered, both directions share
\* one transaction, and it changes under the thread that sends it.
Channel == INSTANCE OrderedChannel
ImplementsChannel == Channel!Spec

\* The provisioner is done only when the provisionee has its keys, and a
\* provisionee takes keys only when the value typed is the one shown.
ProvisionedTogether ==
  /\ node["provisioner"].done => node["provisionee"].done
  /\ node["provisionee"].done => auth["provisioner"] = auth["provisionee"]
  /\ node["provisionee"].done /\ method # "none" => auth["provisionee"] = "shown"

\* A sending thread goes on: to its end, to a later round, or to a later
\* fragment of the number of fragments it counted when the round began.
GoesOn(t, u) ==
  /\ ~t.dead
  /\ \/ u.dead
     \/ u.rounds < t.rounds
     \/ /\ u.rounds = t.rounds /\ t.index < u.index /\ u.index < u.count
        /\ t.index > 0 => u.count = t.count

\* A sending thread never begins again: whatever transactions replace each
\* other under it, its rounds and the fragments of a round run down.
RoundsRunDown == [][\A p \in Peers : thread'[p] # thread[p] => GoesOn(thread[p], thread'[p])]_vars

\* The ways for a node to be stuck: an exception has ended its sending or its
\* receiving thread, its sending thread has no round left for the packet to
\* send, or a packet of the user thread was queued after the queue had been
\* looked at.
Stuck(p) ==
  \/ thread[p].dead \/ node[p].deaf
  \/ node[p].running /\ thread[p].rounds = 0
  \/ /\ node[p].linkOpen /\ ~node[p].inTransaction
     /\ node[p].queue # <<>> /\ Head(node[p].queue) \in {"invite", Typed(p)}

\* Provisioning ends, though any PDU of a transaction may be lost each time
\* it is sent, or one of the nodes is stuck for good for one of these reasons.
ProvisioningEnds ==
  \/ <>node["provisioner"].done
  \/ \E p \in Peers : <>[]Stuck(p)
=============================================================================
