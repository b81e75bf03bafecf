------------------------- MODULE Provisioning_proofs -------------------------
(***************************************************************************)
(* Proofs about Provisioning, for any number of fragments and of rounds:   *)
(* the packets of each node reach the other whole, once and in order, and  *)
(* two nodes are provisioned together.                                     *)
(***************************************************************************)
EXTENDS Provisioning, SequenceTheorems, TLAPS

LEMMA TwoPeers ==
  /\ Other("provisioner") = "provisionee" /\ Other("provisionee") = "provisioner"
  /\ \A p \in Peers : /\ Other(p) \in Peers /\ Other(p) # p /\ Other(Other(p)) = p
                      /\ Peers = {p, Other(p)}
<1>1. \E q \in Peers : q # "provisioner"
  BY DEF Peers
<1>2. \E q \in Peers : q # "provisionee"
  BY DEF Peers
<1>3. Other("provisioner") = "provisionee"
  BY <1>1 DEF Other, Peers
<1>4. Other("provisionee") = "provisioner"
  BY <1>2 DEF Other, Peers
<1> QED
  BY <1>3, <1>4 DEF Peers

-----------------------------------------------------------------------------
(***************************************************************************)
(* What a node has submitted: the packets it has started to send, those of *)
(* its queue, and then only the end of provisioning.                       *)
(***************************************************************************)

\* The first transaction number of each node.
Base(p) == IF p = "provisioner" THEN 0 ELSE 128

Queued == Packets \cup {"finished"}

\* The packets of sub after the first k are those of the queue q.
Backlog(q, sub, k) ==
  /\ k \in Nat /\ k <= Len(sub) /\ Len(sub) - k <= Len(q)
  /\ \A i \in 1..Len(q) : q[i] = IF i <= Len(sub) - k THEN sub[k + i] ELSE "finished"

LEMMA BacklogAppend ==
  ASSUME NEW q \in Seq(Queued), NEW sub \in Seq(Packets), NEW k, Backlog(q, sub, k),
         Len(q) = Len(sub) - k, NEW x \in Packets
  PROVE  Backlog(Append(q, x), Append(sub, x), k)
<1> DEFINE r == Append(q, x)
           s == Append(sub, x)
<1>1. /\ Len(q) \in Nat /\ Len(r) = Len(q) + 1 /\ r[Len(q) + 1] = x
      /\ \A i \in 1..Len(q) : r[i] = q[i]
  BY DEF Queued
<1>2. /\ Len(sub) \in Nat /\ Len(s) = Len(sub) + 1 /\ s[Len(sub) + 1] = x
      /\ \A i \in 1..Len(sub) : s[i] = sub[i]
  OBVIOUS
<1> HIDE DEF r, s
<1> QED
  BY <1>1, <1>2 DEF Backlog

LEMMA BacklogFinished ==
  ASSUME NEW q \in Seq(Queued), NEW sub \in Seq(Packets), NEW k, Backlog(q, sub, k)
  PROVE  Backlog(Append(q, "finished"), sub, k)
<1> DEFINE r == Append(q, "finished")
<1>1. /\ Len(q) \in Nat /\ Len(sub) \in Nat /\ Len(r) = Len(q) + 1 /\ r[Len(q) + 1] = "finished"
      /\ \A i \in 1..Len(q) : r[i] = q[i]
  BY DEF Queued
<1> HIDE DEF r
<1> QED
  BY <1>1 DEF Backlog

LEMMA BacklogHead ==
  ASSUME NEW q \in Seq(Queued), NEW sub \in Seq(Packets), NEW k, Backlog(q, sub, k), q # <<>>
  PROVE  /\ Head(q) \in Queued /\ Tail(q) \in Seq(Queued)
         /\ k < Len(sub) => Head(q) = sub[k + 1] /\ Backlog(Tail(q), sub, k + 1)
         /\ k = Len(sub) => Head(q) = "finished" /\ Backlog(Tail(q), sub, k)
<1>1. Len(q) \in Nat \ {0} /\ Head(q) = q[1] /\ Len(Tail(q)) = Len(q) - 1
      /\ Tail(q) \in Seq(Queued) /\ Head(q) \in Queued
      /\ \A i \in 1..Len(q) - 1 : Tail(q)[i] = q[i + 1]
  BY DEF Queued
<1> QED
  BY <1>1 DEF Backlog

LEMMA BacklogEmpty ==
  ASSUME NEW sub \in Seq(Packets), NEW k, Backlog(<<>>, sub, k), NEW x \in Packets
  PROVE  k = Len(sub) /\ Backlog(<<>>, Append(sub, x), k + 1)
  BY DEF Backlog

LEMMA Sending ==
  ASSUME ProvisioningAssumption, NEW x \in Packets, NEW n
  PROVE  LET t == SendingTransaction(n, x) IN
         /\ DOMAIN t = {"role", "number", "parts", "last", "fcs"}
         /\ t.role = "sending" /\ t.number = n /\ t.fcs = x
         /\ Fragments[x] \in Nat \ {0} /\ t.last = Fragments[x] - 1
         /\ t.parts \in Seq(Packets) /\ Len(t.parts) = Fragments[x]
         /\ \A i \in 1..Len(t.parts) : t.parts[i] = x
<1> DEFINE parts == [i \in 1..Fragments[x] |-> x]
<1>1. Fragments[x] \in Nat \ {0}
  BY DEF ProvisioningAssumption
<1>2. parts \in Seq(Packets) /\ Len(parts) = Fragments[x]
  BY <1>1
<1> QED
  BY <1>1, <1>2 DEF SendingTransaction

-----------------------------------------------------------------------------
(* The state of a node, and what submitting packets does to it.            *)

Expects(p) ==
  IF p = "provisioner"
  THEN {"none", "capabilities", "public_key", "input_complete", "auth", "confirmation",
        "random", "complete"}
  ELSE {"invite", "start", "public_key", "auth", "confirmation", "random", "data", "none"}

Fields == {"exists", "linkOpen", "opening", "inTransaction", "current", "running",
           "lastReceived", "lastSent", "queue", "expected", "deaf", "done"}

TransactionOK(c) ==
  /\ DOMAIN c = {"role", "number", "parts", "last", "fcs"}
  /\ c.role \in {"none", "sending", "receiving"}
  /\ c.number \in Int /\ c.last \in Int
  /\ c.parts \in Seq(Packets) /\ Len(c.parts) <= c.last + 1

NodeOK(p, s) ==
  /\ DOMAIN s = Fields
  /\ s.lastSent \in Int /\ s.lastReceived \in Int
  /\ s.queue \in Seq(Queued) /\ s.expected \in Expects(p)
  /\ TransactionOK(s.current)

\* The number of packets a node has started to send.
Started(p, s) == s.lastSent - Base(p) + 1 + (IF s.running THEN 1 ELSE 0)

\* The transaction in progress carries the last packet started.
SenderOK(p, s, sub) ==
  /\ s.lastSent >= Base(p) - 1
  /\ s.running => /\ s.inTransaction
                  /\ s.current = SendingTransaction(s.lastSent + 1, sub[Started(p, s)])
  /\ Backlog(s.queue, sub, Started(p, s))

\* The end of provisioning is not in the queue.
Open(p, s, sub) == Len(s.queue) = Len(sub) - Started(p, s)

\* It is, or has been taken from it.
Ends(s) == s.done \/ \E i \in 1..Len(s.queue) : s.queue[i] = "finished"

\* A node may start to send; what it had received, and its numbers, stay.
Keeps(s, t) ==
  /\ t.lastSent = s.lastSent /\ t.lastReceived = s.lastReceived /\ t.expected = s.expected
  /\ s.exists => t.exists
  /\ s.running => t.running
  /\ t.inTransaction /\ ~t.running => s.inTransaction /\ ~s.running /\ t.current = s.current

LEMMA BaseType == \A p : Base(p) \in Nat
  BY DEF Base

LEMMA ProcessWorks ==
  ASSUME ProvisioningAssumption, NEW p \in Peers, NEW s, NodeOK(p, s), NEW sub \in Seq(Packets),
         ~s.running, s.lastSent >= Base(p) - 1,
         Backlog(s.queue, sub, s.lastSent - Base(p) + 2),
         NEW x \in Packets, x = sub[s.lastSent - Base(p) + 2]
  PROVE  LET t == Process(s, x) IN
         /\ NodeOK(p, t) /\ SenderOK(p, t, sub) /\ Keeps(s, t)
         /\ t.running /\ t.inTransaction /\ t.queue = s.queue /\ t.done = s.done
         /\ Started(p, t) = s.lastSent - Base(p) + 2
<1> DEFINE t == Process(s, x)
           c == SendingTransaction(s.lastSent + 1, x)
<1>1. t = [s EXCEPT !.inTransaction = TRUE, !.running = TRUE, !.current = c]
  BY DEF Process, Packets
<1>2. /\ DOMAIN t = Fields
      /\ t.exists = s.exists
      /\ t.inTransaction = TRUE /\ t.running = TRUE /\ t.current = c
      /\ t.lastSent = s.lastSent /\ t.lastReceived = s.lastReceived /\ t.queue = s.queue
      /\ t.expected = s.expected /\ t.done = s.done
  BY <1>1 DEF NodeOK, Fields
<1> HIDE DEF t
<1>3. TransactionOK(c)
  <2>1. s.lastSent + 1 \in Int
    BY DEF NodeOK
  <2>2. /\ DOMAIN c = {"role", "number", "parts", "last", "fcs"}
        /\ c.role = "sending" /\ c.number = s.lastSent + 1
        /\ Fragments[x] \in Nat \ {0} /\ c.last = Fragments[x] - 1
        /\ c.parts \in Seq(Packets) /\ Len(c.parts) = Fragments[x]
    BY Sending
  <2> HIDE DEF c
  <2>3. c.last \in Int /\ Len(c.parts) <= c.last + 1
    BY <2>2
  <2> QED
    BY <2>1, <2>2, <2>3 DEF TransactionOK
<1> HIDE DEF c
<1>4. Started(p, t) = s.lastSent - Base(p) + 2
  BY <1>2, BaseType DEF Started, NodeOK
<1>5. NodeOK(p, t)
  BY <1>2, <1>3 DEF NodeOK
<1>6. SenderOK(p, t, sub)
  BY <1>2, <1>4 DEF SenderOK, c
<1> QED
  BY <1>2, <1>4, <1>5, <1>6 DEF Keeps, t

\* A packet submitted when nothing but packets is queued.
LEMMA SubmitWorks ==
  ASSUME ProvisioningAssumption, NEW p \in Peers, NEW s, NodeOK(p, s), NEW sub \in Seq(Packets),
         SenderOK(p, s, sub), Open(p, s, sub), NEW x \in Packets
  PROVE  LET t == Submit(s, x)
             new == Append(sub, x) IN
         /\ NodeOK(p, t) /\ SenderOK(p, t, new) /\ Open(p, t, new) /\ Keeps(s, t)
         /\ t.done = s.done
<1> DEFINE t == Submit(s, x)
           new == Append(sub, x)
<1>1. /\ new \in Seq(Packets) /\ Len(new) = Len(sub) + 1 /\ new[Len(sub) + 1] = x
      /\ \A i \in 1..Len(sub) : new[i] = sub[i]
      /\ Len(sub) \in Nat
  OBVIOUS
<1>2. CASE Ready(s)
  <2>1. ~s.running /\ s.queue = <<>> /\ Started(p, s) = s.lastSent - Base(p) + 1
    BY <1>2, BaseType DEF Ready, SenderOK, Started, NodeOK
  <2>2. Len(sub) = Started(p, s) /\ Backlog(s.queue, new, s.lastSent - Base(p) + 2)
    <3> HIDE DEF new
    <3>1. Backlog(<<>>, sub, Started(p, s))
      BY <2>1 DEF SenderOK
    <3>2. Started(p, s) = Len(sub) /\ Backlog(<<>>, Append(sub, x), Started(p, s) + 1)
      BY <3>1, BacklogEmpty
    <3> QED
      BY <2>1, <3>2, BaseType DEF new, NodeOK
  <2>3. x = new[s.lastSent - Base(p) + 2]
    BY <1>1, <2>1, <2>2, BaseType DEF NodeOK
  <2>4. t = Process(s, x)
    BY <1>2 DEF Submit
  <2> HIDE DEF new, t
  <2>5. /\ NodeOK(p, t) /\ SenderOK(p, t, new) /\ Keeps(s, t)
        /\ t.queue = s.queue /\ t.done = s.done /\ Started(p, t) = s.lastSent - Base(p) + 2
    <3>1. s.lastSent >= Base(p) - 1 /\ ~s.running
      BY <2>1 DEF SenderOK
    <3> QED
      BY <1>1, <2>1, <2>2, <2>3, <2>4, <3>1, ProcessWorks
  <2>6. Open(p, t, new)
    BY <1>1, <2>1, <2>2, <2>5, BaseType DEF Open, NodeOK
  <2> QED
    BY <2>5, <2>6 DEF t, new
<1>3. CASE ~Ready(s)
  <2>1. t = [s EXCEPT !.queue = Append(s.queue, x)]
    BY <1>3 DEF Submit, Put
  <2>2. /\ DOMAIN t = Fields
        /\ t.exists = s.exists
        /\ t.inTransaction = s.inTransaction /\ t.running = s.running
        /\ t.current = s.current /\ t.lastSent = s.lastSent /\ t.lastReceived = s.lastReceived
        /\ t.queue = Append(s.queue, x) /\ t.expected = s.expected /\ t.done = s.done
    BY <2>1 DEF NodeOK, Fields
  <2>3. Started(p, t) = Started(p, s)
    BY <2>2 DEF Started
  <2>4. t.queue \in Seq(Queued) /\ Len(t.queue) = Len(s.queue) + 1 /\ Len(s.queue) \in Nat
    BY <2>2 DEF NodeOK, Queued
  <2>5. Backlog(t.queue, new, Started(p, t))
    BY <2>2, <2>3, BacklogAppend DEF NodeOK, SenderOK, Open
  <2> HIDE DEF t, new
  <2>6. s.running => sub[Started(p, s)] = new[Started(p, s)]
    <3>1. Started(p, s) \in Nat /\ Started(p, s) <= Len(sub)
      BY DEF SenderOK, Backlog
    <3>2. s.running => Started(p, s) > 0
      BY BaseType DEF SenderOK, Started, NodeOK
    <3> QED
      BY <1>1, <3>1, <3>2
  <2>7. NodeOK(p, t) /\ SenderOK(p, t, new) /\ Keeps(s, t)
    BY <2>2, <2>3, <2>4, <2>5, <2>6 DEF NodeOK, SenderOK, Keeps
  <2>8. Open(p, t, new)
    BY <1>1, <2>3, <2>4 DEF Open, SenderOK, Backlog
  <2> QED
    BY <2>2, <2>7, <2>8 DEF t, new
<1> QED
  BY <1>2, <1>3

\* The end of provisioning, submitted like a packet.
LEMMA FinishWorks ==
  ASSUME ProvisioningAssumption, NEW p \in Peers, NEW s, NodeOK(p, s), NEW sub \in Seq(Packets),
         SenderOK(p, s, sub)
  PROVE  LET t == Submit(s, "finished") IN
         NodeOK(p, t) /\ SenderOK(p, t, sub) /\ Keeps(s, t)
<1> DEFINE t == Submit(s, "finished")
<1>1. CASE Ready(s)
  <2>1. t = [s EXCEPT !.done = TRUE]
    BY <1>1 DEF Submit, Process
  <2>2. /\ DOMAIN t = Fields
        /\ t.exists = s.exists
        /\ t.inTransaction = s.inTransaction /\ t.running = s.running
        /\ t.current = s.current /\ t.lastSent = s.lastSent /\ t.lastReceived = s.lastReceived
        /\ t.queue = s.queue /\ t.expected = s.expected
    BY <2>1 DEF NodeOK, Fields
  <2> HIDE DEF t
  <2> QED
    BY <2>2 DEF NodeOK, SenderOK, Keeps, Started, t
<1>2. CASE ~Ready(s)
  <2>1. t = [s EXCEPT !.queue = Append(s.queue, "finished")]
    BY <1>2 DEF Submit, Put
  <2>2. /\ DOMAIN t = Fields
        /\ t.exists = s.exists
        /\ t.inTransaction = s.inTransaction /\ t.running = s.running
        /\ t.current = s.current /\ t.lastSent = s.lastSent /\ t.lastReceived = s.lastReceived
        /\ t.queue = Append(s.queue, "finished") /\ t.expected = s.expected
    BY <2>1 DEF NodeOK, Fields
  <2>3. t.queue \in Seq(Queued) /\ Backlog(t.queue, sub, Started(p, s))
    <3>1. "finished" \in Queued /\ s.queue \in Seq(Queued) /\ Backlog(s.queue, sub, Started(p, s))
      BY DEF Queued, NodeOK, SenderOK
    <3>2. Append(s.queue, "finished") \in Seq(Queued)
      BY <3>1
    <3> QED
      BY <2>2, <3>1, <3>2, BacklogFinished
  <2> HIDE DEF t
  <2> QED
    BY <2>2, <2>3 DEF NodeOK, SenderOK, Keeps, Started, t
<1> QED
  BY <1>1, <1>2

LEMMA CheckQueueWorks ==
  ASSUME ProvisioningAssumption, NEW p \in Peers, NEW s, NodeOK(p, s), NEW sub \in Seq(Packets),
         SenderOK(p, s, sub)
  PROVE  LET t == CheckQueue(s) IN
         /\ NodeOK(p, t) /\ SenderOK(p, t, sub) /\ Keeps(s, t)
         /\ Open(p, s, sub) => Open(p, t, sub) /\ t.done = s.done
         /\ Ends(t) => Ends(s)
         /\ s.queue = <<>> => t = s
<1> DEFINE t == CheckQueue(s)
<1>1. CASE s.inTransaction \/ s.queue = <<>>
  <2>1. t = s
    BY <1>1 DEF CheckQueue
  <2> QED
    BY <2>1 DEF Keeps
<1>2. CASE ~s.inTransaction /\ s.queue # <<>>
  <2> DEFINE r == [s EXCEPT !.queue = Tail(s.queue)]
             x == Head(s.queue)
             k == Started(p, s)
  <2>1. /\ DOMAIN r = Fields
        /\ r.exists = s.exists
        /\ r.inTransaction = s.inTransaction /\ r.running = s.running
        /\ r.current = s.current /\ r.lastSent = s.lastSent /\ r.lastReceived = s.lastReceived
        /\ r.queue = Tail(s.queue) /\ r.expected = s.expected /\ r.done = s.done
    BY DEF NodeOK, Fields
  <2>2. t = Process(r, x)
    BY <1>2 DEF CheckQueue
  <2>3. ~s.running /\ k = s.lastSent - Base(p) + 1 /\ Backlog(s.queue, sub, k)
    BY <1>2, BaseType DEF SenderOK, Started, NodeOK
  <2>4. /\ x \in Queued /\ Tail(s.queue) \in Seq(Queued)
        /\ k < Len(sub) => x = sub[k + 1] /\ Backlog(Tail(s.queue), sub, k + 1)
        /\ k = Len(sub) => x = "finished" /\ Backlog(Tail(s.queue), sub, k)
    BY <1>2, <2>3, BacklogHead DEF NodeOK
  <2>5. /\ Len(s.queue) \in Nat /\ Len(Tail(s.queue)) = Len(s.queue) - 1
        /\ \A i \in 1..Len(s.queue) - 1 : Tail(s.queue)[i] = s.queue[i + 1]
        /\ Len(s.queue) > 0 /\ x = s.queue[1]
    BY <1>2 DEF NodeOK, Queued
  <2>6. k \in Nat /\ Len(sub) \in Nat /\ k <= Len(sub)
    BY <2>3 DEF Backlog
  <2>7. NodeOK(p, r)
    BY <2>1, <2>4 DEF NodeOK
  <2> HIDE DEF r, x, k, t
  <2>8. CASE k < Len(sub)
    <3>1. x \in Packets /\ k + 1 = s.lastSent - Base(p) + 2
      BY <2>3, <2>4, <2>6, <2>8, BaseType DEF NodeOK
    <3>2. /\ NodeOK(p, t) /\ SenderOK(p, t, sub) /\ Keeps(r, t)
          /\ t.running /\ t.queue = r.queue /\ t.done = r.done /\ Started(p, t) = k + 1
      <4>1. /\ r.lastSent - Base(p) + 2 = k + 1 /\ ~r.running /\ r.lastSent >= Base(p) - 1
            /\ Backlog(r.queue, sub, k + 1) /\ x = sub[k + 1]
        BY <2>1, <2>3, <2>4, <2>8, <3>1 DEF SenderOK
      <4> QED
        BY <2>2, <2>7, <3>1, <4>1, ProcessWorks
    <3>3. Keeps(s, t)
      BY <2>1, <2>3, <3>2 DEF Keeps
    <3>4. Open(p, s, sub) => Open(p, t, sub) /\ t.done = s.done
      BY <2>1, <2>5, <2>6, <3>2 DEF Open, k
    <3>5. Ends(t) => Ends(s)
      BY <2>1, <2>5, <3>2 DEF Ends
    <3> QED
      BY <1>2, <3>2, <3>3, <3>4, <3>5 DEF t
  <2>9. CASE k = Len(sub)
    <3>1. t = [r EXCEPT !.done = TRUE]
      BY <2>2, <2>4, <2>9 DEF Process
    <3>2. /\ DOMAIN t = Fields
          /\ t.exists = s.exists
          /\ t.inTransaction = s.inTransaction /\ t.running = s.running
          /\ t.current = s.current /\ t.lastSent = s.lastSent /\ t.lastReceived = s.lastReceived
          /\ t.queue = Tail(s.queue) /\ t.expected = s.expected
      BY <2>1, <3>1 DEF Fields
    <3>3. NodeOK(p, t) /\ SenderOK(p, t, sub) /\ Keeps(s, t)
      BY <2>3, <2>4, <2>9, <3>2 DEF NodeOK, SenderOK, Keeps, Started, k
    <3>4. Ends(s) /\ ~Open(p, s, sub)
      BY <2>4, <2>5, <2>6, <2>9 DEF Ends, Open, k
    <3> QED
      BY <1>2, <3>3, <3>4 DEF t
  <2> QED
    BY <2>6, <2>8, <2>9
<1> QED
  BY <1>1, <1>2

-----------------------------------------------------------------------------
(* The protocol: what a packet makes a node submit and expect.             *)

\* The packets a node has submitted at most when it expects e, and its user
\* is at u.
MaxSubmitted(p, e, u) ==
  IF p = "provisioner"
  THEN CASE e = "none"           -> IF u = "expecting" THEN 1 ELSE 0
         [] e = "capabilities"   -> 1
         [] e = "public_key"     -> 3
         [] e = "input_complete" -> 3
         [] e = "auth"           -> IF u = "expecting" THEN 4 ELSE 3
         [] e = "confirmation"   -> 4
         [] e = "random"         -> 5
         [] OTHER                -> 6
  ELSE CASE e = "invite"         -> 0
         [] e = "start"          -> 1
         [] e = "public_key"     -> 1
         [] e = "auth"           -> IF u = "expecting" THEN 3 ELSE 2
         [] e = "confirmation"   -> 3
         [] e = "random"         -> 4
         [] e = "data"           -> 5
         [] OTHER                -> 6

LEMMA AtMostSix ==
  \A p \in Peers : \A e, u : MaxSubmitted(p, e, u) \in 0..6
  BY DEF MaxSubmitted

\* The handlers, as a table.
LEMMA Table ==
  /\ On("provisioner", "capabilities") = Answer(<<"start", "public_key">>, "public_key")
  /\ On("provisioner", "input_complete") = Answer(<<"confirmation">>, "confirmation")
  /\ On("provisioner", "confirmation") = Answer(<<"random">>, "random")
  /\ On("provisioner", "random") = Answer(<<"data">>, "complete")
  /\ On("provisioner", "complete") = Answer(<<"finished">>, "complete")
  /\ On("provisionee", "invite") = Answer(<<"capabilities">>, "start")
  /\ On("provisionee", "start") = Answer(<<>>, "public_key")
  /\ On("provisionee", "confirmation") = Answer(<<"confirmation">>, "random")
  /\ On("provisionee", "random") = Answer(<<"random">>, "data")
  /\ On("provisionee", "data") = Answer(<<"complete">>, "none")
  /\ On("provisioner", "public_key") =
       IF method = "none" THEN Answer(<<"confirmation">>, "confirmation")
       ELSE Answer(<<>>, IF method = "input" THEN "input_complete" ELSE "auth")
  /\ On("provisionee", "public_key") =
       Answer(<<"public_key">>, IF method = "input" THEN "auth" ELSE "confirmation")
  BY DEF On, ProvisionerOn, ProvisioneeOn

LEMMA Idle ==
  /\ MaxSubmitted("provisioner", "none", "idle") = 0
  /\ MaxSubmitted("provisioner", "capabilities", "idle") = 1
  /\ MaxSubmitted("provisioner", "public_key", "idle") = 3
  /\ MaxSubmitted("provisioner", "input_complete", "idle") = 3
  /\ MaxSubmitted("provisioner", "auth", "idle") = 3
  /\ MaxSubmitted("provisioner", "confirmation", "idle") = 4
  /\ MaxSubmitted("provisioner", "random", "idle") = 5
  /\ MaxSubmitted("provisioner", "complete", "idle") = 6
  /\ MaxSubmitted("provisionee", "invite", "idle") = 0
  /\ MaxSubmitted("provisionee", "start", "idle") = 1
  /\ MaxSubmitted("provisionee", "public_key", "idle") = 1
  /\ MaxSubmitted("provisionee", "auth", "idle") = 2
  /\ MaxSubmitted("provisionee", "confirmation", "idle") = 3
  /\ MaxSubmitted("provisionee", "random", "idle") = 4
  /\ MaxSubmitted("provisionee", "data", "idle") = 5
  /\ MaxSubmitted("provisionee", "none", "idle") = 6
  BY DEF MaxSubmitted

\* What Given below needs to know of an answer.
Fits(p, x, a) ==
  /\ a.expected \in Expects(p)
  /\ \/ /\ a.packets = <<"finished">> /\ p = "provisioner"
        /\ x = "complete" /\ a.expected = "complete"
     \/ /\ p = "provisioner" => x # "complete"
        /\ a.packets # <<"finished">>
        /\ a.packets \in Seq(Packets) /\ Len(a.packets) <= 2
        /\ Len(a.packets) + MaxSubmitted(p, x, "idle") <= MaxSubmitted(p, a.expected, "idle")

LEMMA FitsWhen ==
  ASSUME NEW p, NEW x, p = "provisioner" => x # "complete",
         NEW xs \in Seq(Packets), Len(xs) <= 2, xs # <<"finished">>,
         NEW e \in Expects(p),
         Len(xs) + MaxSubmitted(p, x, "idle") <= MaxSubmitted(p, e, "idle")
  PROVE  Fits(p, x, Answer(xs, e))
  BY DEF Fits, Answer

LEMMA Answers ==
  ASSUME NEW p \in Peers, NEW x \in Packets, x \in Expects(p)
  PROVE  Fits(p, x, On(p, x))
<1>1. CASE p = "provisioner" /\ x = "capabilities"
  <2> DEFINE xs == <<"start", "public_key">>
  <2>1. On(p, x) = Answer(xs, "public_key")
    BY <1>1, Table
  <2>2. xs \in Seq(Packets) /\ Len(xs) = 2 /\ xs # <<"finished">>
    BY DEF Packets
  <2> HIDE DEF xs
  <2>3. "public_key" \in Expects(p) /\ (p = "provisioner" => x # "complete")
    BY <1>1 DEF Expects
  <2>4. Len(xs) + MaxSubmitted(p, x, "idle") <= MaxSubmitted(p, "public_key", "idle") /\ Len(xs) <= 2
    BY <1>1, <2>2, Idle
  <2> QED
    BY <2>1, <2>2, <2>3, <2>4, FitsWhen
<1>2. CASE p = "provisioner" /\ x = "public_key" /\ method = "none"
  <2> DEFINE xs == <<"confirmation">>
  <2>1. On(p, x) = Answer(xs, "confirmation")
    BY <1>2, Table
  <2>2. xs \in Seq(Packets) /\ Len(xs) = 1 /\ xs # <<"finished">>
    BY DEF Packets
  <2> HIDE DEF xs
  <2>3. "confirmation" \in Expects(p) /\ (p = "provisioner" => x # "complete")
    BY <1>2 DEF Expects
  <2>4. Len(xs) + MaxSubmitted(p, x, "idle") <= MaxSubmitted(p, "confirmation", "idle") /\ Len(xs) <= 2
    BY <1>2, <2>2, Idle
  <2> QED
    BY <2>1, <2>2, <2>3, <2>4, FitsWhen
<1>3. CASE p = "provisioner" /\ x = "public_key" /\ method = "input"
  <2> DEFINE xs == <<>>
  <2>1. On(p, x) = Answer(xs, "input_complete")
    BY <1>3, Table
  <2>2. xs \in Seq(Packets) /\ Len(xs) = 0 /\ xs # <<"finished">>
    BY DEF Packets
  <2> HIDE DEF xs
  <2>3. "input_complete" \in Expects(p) /\ (p = "provisioner" => x # "complete")
    BY <1>3 DEF Expects
  <2>4. Len(xs) + MaxSubmitted(p, x, "idle") <= MaxSubmitted(p, "input_complete", "idle") /\ Len(xs) <= 2
    BY <1>3, <2>2, Idle
  <2> QED
    BY <2>1, <2>2, <2>3, <2>4, FitsWhen
<1>4. CASE p = "provisioner" /\ x = "public_key" /\ method \notin {"none", "input"}
  <2> DEFINE xs == <<>>
  <2>1. On(p, x) = Answer(xs, "auth")
    BY <1>4, Table
  <2>2. xs \in Seq(Packets) /\ Len(xs) = 0 /\ xs # <<"finished">>
    BY DEF Packets
  <2> HIDE DEF xs
  <2>3. "auth" \in Expects(p) /\ (p = "provisioner" => x # "complete")
    BY <1>4 DEF Expects
  <2>4. Len(xs) + MaxSubmitted(p, x, "idle") <= MaxSubmitted(p, "auth", "idle") /\ Len(xs) <= 2
    BY <1>4, <2>2, Idle
  <2> QED
    BY <2>1, <2>2, <2>3, <2>4, FitsWhen
<1>5. CASE p = "provisioner" /\ x = "input_complete"
  <2> DEFINE xs == <<"confirmation">>
  <2>1. On(p, x) = Answer(xs, "confirmation")
    BY <1>5, Table
  <2>2. xs \in Seq(Packets) /\ Len(xs) = 1 /\ xs # <<"finished">>
    BY DEF Packets
  <2> HIDE DEF xs
  <2>3. "confirmation" \in Expects(p) /\ (p = "provisioner" => x # "complete")
    BY <1>5 DEF Expects
  <2>4. Len(xs) + MaxSubmitted(p, x, "idle") <= MaxSubmitted(p, "confirmation", "idle") /\ Len(xs) <= 2
    BY <1>5, <2>2, Idle
  <2> QED
    BY <2>1, <2>2, <2>3, <2>4, FitsWhen
<1>6. CASE p = "provisioner" /\ x = "confirmation"
  <2> DEFINE xs == <<"random">>
  <2>1. On(p, x) = Answer(xs, "random")
    BY <1>6, Table
  <2>2. xs \in Seq(Packets) /\ Len(xs) = 1 /\ xs # <<"finished">>
    BY DEF Packets
  <2> HIDE DEF xs
  <2>3. "random" \in Expects(p) /\ (p = "provisioner" => x # "complete")
    BY <1>6 DEF Expects
  <2>4. Len(xs) + MaxSubmitted(p, x, "idle") <= MaxSubmitted(p, "random", "idle") /\ Len(xs) <= 2
    BY <1>6, <2>2, Idle
  <2> QED
    BY <2>1, <2>2, <2>3, <2>4, FitsWhen
<1>7. CASE p = "provisioner" /\ x = "random"
  <2> DEFINE xs == <<"data">>
  <2>1. On(p, x) = Answer(xs, "complete")
    BY <1>7, Table
  <2>2. xs \in Seq(Packets) /\ Len(xs) = 1 /\ xs # <<"finished">>
    BY DEF Packets
  <2> HIDE DEF xs
  <2>3. "complete" \in Expects(p) /\ (p = "provisioner" => x # "complete")
    BY <1>7 DEF Expects
  <2>4. Len(xs) + MaxSubmitted(p, x, "idle") <= MaxSubmitted(p, "complete", "idle") /\ Len(xs) <= 2
    BY <1>7, <2>2, Idle
  <2> QED
    BY <2>1, <2>2, <2>3, <2>4, FitsWhen
<1>8. CASE p = "provisioner" /\ x = "complete"
  BY <1>8, Table DEF Answer, Expects, Fits
<1>9. CASE p = "provisionee" /\ x = "invite"
  <2> DEFINE xs == <<"capabilities">>
  <2>1. On(p, x) = Answer(xs, "start")
    BY <1>9, Table
  <2>2. xs \in Seq(Packets) /\ Len(xs) = 1 /\ xs # <<"finished">>
    BY DEF Packets
  <2> HIDE DEF xs
  <2>3. "start" \in Expects(p) /\ (p = "provisioner" => x # "complete")
    BY <1>9 DEF Expects
  <2>4. Len(xs) + MaxSubmitted(p, x, "idle") <= MaxSubmitted(p, "start", "idle") /\ Len(xs) <= 2
    BY <1>9, <2>2, Idle
  <2> QED
    BY <2>1, <2>2, <2>3, <2>4, FitsWhen
<1>10. CASE p = "provisionee" /\ x = "start"
  <2> DEFINE xs == <<>>
  <2>1. On(p, x) = Answer(xs, "public_key")
    BY <1>10, Table
  <2>2. xs \in Seq(Packets) /\ Len(xs) = 0 /\ xs # <<"finished">>
    BY DEF Packets
  <2> HIDE DEF xs
  <2>3. "public_key" \in Expects(p) /\ (p = "provisioner" => x # "complete")
    BY <1>10 DEF Expects
  <2>4. Len(xs) + MaxSubmitted(p, x, "idle") <= MaxSubmitted(p, "public_key", "idle") /\ Len(xs) <= 2
    BY <1>10, <2>2, Idle
  <2> QED
    BY <2>1, <2>2, <2>3, <2>4, FitsWhen
<1>11. CASE p = "provisionee" /\ x = "public_key" /\ method = "input"
  <2> DEFINE xs == <<"public_key">>
  <2>1. On(p, x) = Answer(xs, "auth")
    BY <1>11, Table
  <2>2. xs \in Seq(Packets) /\ Len(xs) = 1 /\ xs # <<"finished">>
    BY DEF Packets
  <2> HIDE DEF xs
  <2>3. "auth" \in Expects(p) /\ (p = "provisioner" => x # "complete")
    BY <1>11 DEF Expects
  <2>4. Len(xs) + MaxSubmitted(p, x, "idle") <= MaxSubmitted(p, "auth", "idle") /\ Len(xs) <= 2
    BY <1>11, <2>2, Idle
  <2> QED
    BY <2>1, <2>2, <2>3, <2>4, FitsWhen
<1>12. CASE p = "provisionee" /\ x = "public_key" /\ method # "input"
  <2> DEFINE xs == <<"public_key">>
  <2>1. On(p, x) = Answer(xs, "confirmation")
    BY <1>12, Table
  <2>2. xs \in Seq(Packets) /\ Len(xs) = 1 /\ xs # <<"finished">>
    BY DEF Packets
  <2> HIDE DEF xs
  <2>3. "confirmation" \in Expects(p) /\ (p = "provisioner" => x # "complete")
    BY <1>12 DEF Expects
  <2>4. Len(xs) + MaxSubmitted(p, x, "idle") <= MaxSubmitted(p, "confirmation", "idle") /\ Len(xs) <= 2
    BY <1>12, <2>2, Idle
  <2> QED
    BY <2>1, <2>2, <2>3, <2>4, FitsWhen
<1>13. CASE p = "provisionee" /\ x = "confirmation"
  <2> DEFINE xs == <<"confirmation">>
  <2>1. On(p, x) = Answer(xs, "random")
    BY <1>13, Table
  <2>2. xs \in Seq(Packets) /\ Len(xs) = 1 /\ xs # <<"finished">>
    BY DEF Packets
  <2> HIDE DEF xs
  <2>3. "random" \in Expects(p) /\ (p = "provisioner" => x # "complete")
    BY <1>13 DEF Expects
  <2>4. Len(xs) + MaxSubmitted(p, x, "idle") <= MaxSubmitted(p, "random", "idle") /\ Len(xs) <= 2
    BY <1>13, <2>2, Idle
  <2> QED
    BY <2>1, <2>2, <2>3, <2>4, FitsWhen
<1>14. CASE p = "provisionee" /\ x = "random"
  <2> DEFINE xs == <<"random">>
  <2>1. On(p, x) = Answer(xs, "data")
    BY <1>14, Table
  <2>2. xs \in Seq(Packets) /\ Len(xs) = 1 /\ xs # <<"finished">>
    BY DEF Packets
  <2> HIDE DEF xs
  <2>3. "data" \in Expects(p) /\ (p = "provisioner" => x # "complete")
    BY <1>14 DEF Expects
  <2>4. Len(xs) + MaxSubmitted(p, x, "idle") <= MaxSubmitted(p, "data", "idle") /\ Len(xs) <= 2
    BY <1>14, <2>2, Idle
  <2> QED
    BY <2>1, <2>2, <2>3, <2>4, FitsWhen
<1>15. CASE p = "provisionee" /\ x = "data"
  <2> DEFINE xs == <<"complete">>
  <2>1. On(p, x) = Answer(xs, "none")
    BY <1>15, Table
  <2>2. xs \in Seq(Packets) /\ Len(xs) = 1 /\ xs # <<"finished">>
    BY DEF Packets
  <2> HIDE DEF xs
  <2>3. "none" \in Expects(p) /\ (p = "provisioner" => x # "complete")
    BY <1>15 DEF Expects
  <2>4. Len(xs) + MaxSubmitted(p, x, "idle") <= MaxSubmitted(p, "none", "idle") /\ Len(xs) <= 2
    BY <1>15, <2>2, Idle
  <2> QED
    BY <2>1, <2>2, <2>3, <2>4, FitsWhen
<1> QED
  BY <1>1, <1>2, <1>3, <1>4, <1>5, <1>6, <1>7, <1>8, <1>9, <1>10, <1>11, <1>12, <1>13, <1>14, <1>15 DEF Peers, Packets, Expects

LEMMA ShortSequences ==
  ASSUME NEW xs \in Seq(Packets), NEW sub \in Seq(Packets)
  PROVE  /\ Len(xs) = 0 => sub \o xs = sub
         /\ Len(xs) = 1 => xs[1] \in Packets /\ sub \o xs = Append(sub, xs[1])
         /\ Len(xs) = 2 => /\ xs[1] \in Packets /\ xs[2] \in Packets
                           /\ sub \o xs = Append(Append(sub, xs[1]), xs[2])
<1>1. CASE Len(xs) = 0
  <2>1. xs = <<>>
    BY <1>1, EmptySeq
  <2> QED
    BY <1>1, <2>1, ConcatEmptySeq
<1>2. CASE Len(xs) = 1
  <2>1. xs[1] \in Packets
    BY <1>2, ElementOfSeq
  <2>2. /\ sub \o xs \in Seq(Packets) /\ Len(sub \o xs) = Len(sub) + 1 /\ Len(sub) \in Nat
        /\ \A i \in 1..Len(sub) + 1 : (sub \o xs)[i] = IF i <= Len(sub) THEN sub[i] ELSE xs[1]
    <3>1. /\ sub \o xs \in Seq(Packets) /\ Len(sub \o xs) = Len(sub) + Len(xs) /\ Len(sub) \in Nat
          /\ \A i \in 1..Len(sub) + Len(xs) :
               (sub \o xs)[i] = IF i <= Len(sub) THEN sub[i] ELSE xs[i - Len(sub)]
      BY ConcatProperties, LenProperties
    <3>2. \A i \in 1..Len(sub) + 1 : i <= Len(sub) \/ i - Len(sub) = 1
      BY <3>1
    <3> QED
      BY <1>2, <3>1, <3>2
  <2>3. /\ Append(sub, xs[1]) \in Seq(Packets) /\ Len(Append(sub, xs[1])) = Len(sub) + 1
        /\ \A i \in 1..Len(sub) + 1 : Append(sub, xs[1])[i] = IF i <= Len(sub) THEN sub[i] ELSE xs[1]
    BY <2>1, AppendProperties
  <2>4. sub \o xs = Append(sub, xs[1])
    BY <2>2, <2>3, SeqEqual
  <2> QED
    BY <1>2, <2>1, <2>4
<1>3. CASE Len(xs) = 2
  <2> DEFINE one == Append(sub, xs[1])
             two == Append(one, xs[2])
  <2>1. xs[1] \in Packets /\ xs[2] \in Packets
    <3>1. 1 \in 1..Len(xs) /\ 2 \in 1..Len(xs)
      BY <1>3
    <3> QED
      BY <3>1, ElementOfSeq
  <2>2. /\ sub \o xs \in Seq(Packets) /\ Len(sub \o xs) = Len(sub) + 2 /\ Len(sub) \in Nat
        /\ \A i \in 1..Len(sub) + 2 : (sub \o xs)[i] = IF i <= Len(sub) THEN sub[i] ELSE xs[i - Len(sub)]
    <3> DEFINE both == sub \o xs
    <3>1. /\ both \in Seq(Packets) /\ Len(both) = Len(sub) + Len(xs)
          /\ \A i \in 1..Len(sub) + Len(xs) :
               both[i] = IF i <= Len(sub) THEN sub[i] ELSE xs[i - Len(sub)]
      BY ConcatProperties
    <3>2. Len(sub) \in Nat
      BY LenProperties
    <3> HIDE DEF both
    <3>3. /\ both \in Seq(Packets) /\ Len(both) = Len(sub) + 2 /\ Len(sub) \in Nat
          /\ \A i \in 1..Len(sub) + 2 : both[i] = IF i <= Len(sub) THEN sub[i] ELSE xs[i - Len(sub)]
      BY <1>3, <3>1, <3>2
    <3> QED
      BY <3>3 DEF both
  <2>3. /\ one \in Seq(Packets) /\ Len(one) = Len(sub) + 1 /\ one[Len(sub) + 1] = xs[1]
        /\ \A i \in 1..Len(sub) : one[i] = sub[i]
    BY <2>1, AppendProperties
  <2> HIDE DEF one
  <2>4. /\ two \in Seq(Packets) /\ Len(two) = Len(one) + 1 /\ two[Len(one) + 1] = xs[2]
        /\ \A i \in 1..Len(one) : two[i] = one[i]
    BY <2>1, <2>3, AppendProperties
  <2> HIDE DEF two
  <2>5. \A i \in 1..Len(sub) + 2 : (sub \o xs)[i] = two[i]
    <3> SUFFICES ASSUME NEW i \in 1..Len(sub) + 2 PROVE (sub \o xs)[i] = two[i]
      OBVIOUS
    <3>1. CASE i \in 1..Len(sub)
      BY <2>2, <2>3, <2>4, <3>1
    <3>2. CASE i = Len(sub) + 1
      BY <2>2, <2>3, <2>4, <3>2
    <3>3. CASE i = Len(sub) + 2
      BY <2>2, <2>3, <2>4, <3>3
    <3> QED
      BY <2>2, <3>1, <3>2, <3>3
  <2>6. sub \o xs = two
    <3> DEFINE both == sub \o xs
    <3>1. Len(two) = Len(sub) + 2
      BY <2>2, <2>3, <2>4
    <3>2. both \in Seq(Packets) /\ Len(both) = Len(two)
          /\ \A i \in 1..Len(both) : both[i] = two[i]
      BY <2>2, <2>5, <3>1
    <3> HIDE DEF both
    <3>3. both = two
      BY <2>4, <3>2, SeqEqual
    <3> QED
      BY <3>3 DEF both
  <2> QED
    BY <1>3, <2>1, <2>6 DEF one, two
<1> QED
  BY <1>1, <1>2, <1>3

LEMMA SubmitAllWorks ==
  ASSUME ProvisioningAssumption, NEW p \in Peers, NEW s, NodeOK(p, s), NEW sub \in Seq(Packets),
         SenderOK(p, s, sub), Open(p, s, sub), NEW xs \in Seq(Packets), Len(xs) <= 2
  PROVE  LET t == SubmitAll(s, xs)
             new == sub \o xs IN
         /\ NodeOK(p, t) /\ SenderOK(p, t, new) /\ Open(p, t, new) /\ Keeps(s, t)
         /\ t.done = s.done
<1>1. CASE Len(xs) = 0
  <2>1. SubmitAll(s, xs) = s
    BY <1>1 DEF SubmitAll
  <2> QED
    BY <1>1, <2>1, ShortSequences DEF Keeps
<1>2. CASE Len(xs) = 1
  <2> DEFINE x == xs[1]
  <2>1. SubmitAll(s, xs) = Submit(s, x)
    BY <1>2 DEF SubmitAll
  <2>2. x \in Packets /\ sub \o xs = Append(sub, x)
    BY <1>2, ShortSequences
  <2> HIDE DEF x
  <2> QED
    BY <2>1, <2>2, SubmitWorks
<1>3. CASE Len(xs) = 2
  <2> DEFINE x == xs[1]
             y == xs[2]
             r == Submit(s, x)
             one == Append(sub, x)
  <2>1. SubmitAll(s, xs) = Submit(r, y)
    BY <1>3 DEF SubmitAll
  <2>2. x \in Packets /\ y \in Packets /\ sub \o xs = Append(one, y)
    BY <1>3, ShortSequences
  <2> HIDE DEF x, y
  <2>3. one \in Seq(Packets)
    BY <2>2, AppendProperties
  <2>4. /\ NodeOK(p, r) /\ SenderOK(p, r, one) /\ Open(p, r, one) /\ Keeps(s, r)
        /\ r.done = s.done
    BY <2>2, SubmitWorks
  <2> DEFINE t == Submit(r, y)
  <2> HIDE DEF one, r
  <2>5. /\ NodeOK(p, t) /\ SenderOK(p, t, Append(one, y)) /\ Open(p, t, Append(one, y))
        /\ Keeps(r, t) /\ t.done = r.done
    BY <2>2, <2>3, <2>4, SubmitWorks
  <2>6. Keeps(s, t)
    BY <2>4, <2>5 DEF Keeps
  <2> QED
    BY <2>1, <2>2, <2>4, <2>5, <2>6
<1>4. Len(xs) \in Nat
  BY LenProperties
<1>5. \A n \in Nat : n <= 2 => n = 0 \/ n = 1 \/ n = 2
  OBVIOUS
<1> QED
  BY <1>1, <1>2, <1>3, <1>4, <1>5

\* A packet that the node expects, and can verify.
Taken(s, x) == x = s.expected /\ Verified(x)

\* Whether only packets are queued: always, until the provisioner has ended.
Orderly(p, s, sub) == (p = "provisioner" /\ s.expected = "complete") \/ Open(p, s, sub)

\* What a node that is given a packet in answer to which it may submit
\* others has become.
LEMMA UpperWorks ==
  ASSUME ProvisioningAssumption, NEW p \in Peers, NEW s, NodeOK(p, s), NEW sub \in Seq(Packets),
         SenderOK(p, s, sub), ~s.inTransaction, Orderly(p, s, sub), NEW x \in Packets
  PROVE  LET t == Upper(p, s, x)
             new == sub \o PacketsOf(p, s, x) IN
         /\ NodeOK(p, t) /\ new \in Seq(Packets) /\ SenderOK(p, t, new) /\ Orderly(p, t, new)
         /\ t.lastSent = s.lastSent /\ t.lastReceived = s.lastReceived
         /\ t.inTransaction => t.running
         /\ Len(sub) <= MaxSubmitted(p, s.expected, "idle") =>
              Len(new) <= MaxSubmitted(p, t.expected, "idle")
         /\ PacketsOf(p, s, x) \in Seq(Packets)
         /\ t.expected = IF Taken(s, x) THEN On(p, x).expected ELSE s.expected
         /\ ~Taken(s, x) => t.queue = s.queue /\ t.running = s.running /\ t.done = s.done
                             /\ PacketsOf(p, s, x) = <<>>
         /\ p = "provisionee" => (t.done <=> s.done \/ (Taken(s, x) /\ x = "data"))
         /\ p = "provisioner" /\ x # "complete" => (t.done <=> s.done)
         /\ Taken(s, x) /\ x # "complete" => Open(p, t, new)
         /\ s.exists => t.exists
<1> DEFINE t == Upper(p, s, x)
           sent == PacketsOf(p, s, x)
           new == sub \o sent
<1>1. CASE ~Taken(s, x)
  <2>1. t = [s EXCEPT !.deaf = TRUE] /\ sent = <<>>
    BY <1>1 DEF Upper, PacketsOf, Taken
  <2>2. /\ DOMAIN t = Fields
        /\ t.exists = s.exists
        /\ t.inTransaction = s.inTransaction /\ t.running = s.running
        /\ t.current = s.current /\ t.lastSent = s.lastSent /\ t.lastReceived = s.lastReceived
        /\ t.queue = s.queue /\ t.expected = s.expected /\ t.done = s.done
    BY <2>1 DEF NodeOK, Fields
  <2>3. new = sub /\ sent \in Seq(Packets)
    BY <2>1, ConcatEmptySeq, EmptySeq
  <2> HIDE DEF t, sent, new
  <2>4. NodeOK(p, t) /\ SenderOK(p, t, new) /\ Orderly(p, t, new)
    BY <2>2, <2>3 DEF NodeOK, SenderOK, Orderly, Open, Started
  <2>5. x = "data" \/ ~(Taken(s, x) /\ x = "data")
    OBVIOUS
  <2> QED
    BY <1>1, <2>1, <2>2, <2>3, <2>4 DEF t, sent, new
<1>2. CASE Taken(s, x)
  <2> DEFINE a  == On(p, x)
             r  == SubmitAll(s, a.packets)
             dn == r.done \/ (p = "provisionee" /\ x = "data")
  <2>1. t = [r EXCEPT !.expected = a.expected, !.done = dn]
    BY <1>2 DEF Upper, Taken
  <2>2. x = s.expected /\ Fits(p, x, a)
    BY <1>2, Answers DEF Taken, NodeOK
  <2>3. sent = IF a.packets # <<"finished">> THEN a.packets ELSE <<>>
    BY <1>2 DEF PacketsOf, Taken
  <2> HIDE DEF a
  <2>4. ASSUME DOMAIN r = Fields
        PROVE  /\ DOMAIN t = Fields
               /\ t.exists = r.exists
               /\ t.inTransaction = r.inTransaction /\ t.running = r.running
               /\ t.current = r.current /\ t.lastSent = r.lastSent
               /\ t.lastReceived = r.lastReceived /\ t.queue = r.queue
               /\ t.expected = a.expected /\ t.done = dn
    BY <2>1, <2>4 DEF Fields
  <2>5. CASE a.packets = <<"finished">>
    <3>1. p = "provisioner" /\ x = "complete" /\ a.expected = "complete"
      BY <2>2, <2>5 DEF Fits
    <3>2. r = Submit(s, "finished")
      BY <2>5 DEF SubmitAll
    <3>3. NodeOK(p, r) /\ SenderOK(p, r, sub) /\ Keeps(s, r)
      BY <3>2, FinishWorks
    <3>4. new = sub /\ sent = <<>> /\ sent \in Seq(Packets)
      BY <2>3, <2>5, ConcatEmptySeq, EmptySeq
    <3> HIDE DEF t, r, sent, new
    <3>5. NodeOK(p, t) /\ SenderOK(p, t, new) /\ Orderly(p, t, new)
      BY <2>2, <2>4, <3>1, <3>3, <3>4 DEF NodeOK, SenderOK, Orderly, Started, Fits
    <3>6. /\ t.lastSent = s.lastSent /\ t.lastReceived = s.lastReceived
          /\ t.inTransaction => t.running
          /\ s.exists => t.exists
      BY <2>4, <3>3 DEF NodeOK, Keeps
    <3>7. t.expected = a.expected
      BY <2>4, <3>3 DEF NodeOK
    <3> QED
      BY <1>2, <2>2, <3>1, <3>4, <3>5, <3>6, <3>7 DEF t, sent, new, a
  <2>6. CASE a.packets # <<"finished">>
    <3>1. /\ p = "provisioner" => x # "complete"
          /\ a.packets \in Seq(Packets) /\ Len(a.packets) <= 2
          /\ Len(a.packets) + MaxSubmitted(p, x, "idle") <= MaxSubmitted(p, a.expected, "idle")
          /\ a.expected \in Expects(p)
      BY <2>2, <2>6 DEF Fits
    <3>2. Open(p, s, sub) /\ new = sub \o a.packets /\ sent = a.packets
      BY <2>2, <2>3, <2>6, <3>1 DEF Orderly
    <3>3. /\ NodeOK(p, r) /\ SenderOK(p, r, new) /\ Open(p, r, new) /\ Keeps(s, r)
          /\ r.done = s.done
      BY <3>1, <3>2, SubmitAllWorks
    <3>4. Len(new) = Len(sub) + Len(a.packets) /\ new \in Seq(Packets)
          /\ Len(sub) \in Nat /\ Len(a.packets) \in Nat
      BY <3>1, <3>2, ConcatProperties, LenProperties
    <3>5. MaxSubmitted(p, x, "idle") \in Nat /\ MaxSubmitted(p, a.expected, "idle") \in Nat
      BY AtMostSix
    <3> HIDE DEF t, r, sent, new
    <3>6. NodeOK(p, t) /\ SenderOK(p, t, new) /\ Orderly(p, t, new) /\ Open(p, t, new)
      BY <2>4, <3>1, <3>3 DEF NodeOK, SenderOK, Orderly, Open, Started
    <3>7. /\ t.lastSent = s.lastSent /\ t.lastReceived = s.lastReceived
          /\ t.inTransaction => t.running
          /\ s.exists => t.exists
      BY <2>4, <3>3 DEF NodeOK, Keeps
    <3>8. t.expected = a.expected /\ t.done = dn
      BY <2>4, <3>3 DEF NodeOK
    <3>9. Len(sub) <= MaxSubmitted(p, s.expected, "idle") =>
            Len(new) <= MaxSubmitted(p, t.expected, "idle")
      BY <2>2, <3>1, <3>4, <3>5, <3>8
    <3>10. p = "provisionee" => (t.done <=> s.done \/ (Taken(s, x) /\ x = "data"))
      BY <1>2, <3>3, <3>8
    <3>11. p = "provisioner" => (t.done <=> s.done)
      BY <3>3, <3>8
    <3> QED
      BY <1>2, <3>1, <3>2, <3>4, <3>6, <3>7, <3>8, <3>9, <3>10, <3>11 DEF t, sent, new, a
  <2> QED
    BY <2>5, <2>6
<1> QED
  BY <1>1, <1>2

-----------------------------------------------------------------------------
(***************************************************************************)
(* The two directions of the link.  What node p sends to q = Other(p) has  *)
(* the numbers of p, one for each packet; q has been given the packets     *)
(* below NextNumber(q).  A PDU with this number or a greater one carries   *)
(* the packet that p is sending: the others are of packets that are done.  *)
(***************************************************************************)

NextNumber(q) == Base(Other(q)) + Len(passed[q])

\* The packet that q will be given next.
NextPacket(q) == submitted[Other(q)][Len(passed[q]) + 1]

\* A transaction of which q has received some fragments.
Receiving(q, c) ==
  /\ Len(passed[q]) < Len(submitted[Other(q)])
  /\ c.number = NextNumber(q)
  /\ c.fcs = NextPacket(q) /\ c.last = Fragments[NextPacket(q)] - 1
  /\ 1 <= Len(c.parts) /\ Len(c.parts) <= c.last
  /\ \A i \in 1..Len(c.parts) : c.parts[i] = NextPacket(q)

ReceiverOK(q) ==
  /\ Len(passed[q]) <= Len(submitted[Other(q)])
  /\ node[Other(q)].lastSent < NextNumber(q)
  /\ node[q].lastReceived = IF Len(passed[q]) = 0 THEN -1 ELSE NextNumber(q) - 1
  /\ node[q].inTransaction /\ ~node[q].running => Receiving(q, node[q].current)

\* The sending thread keeps the number of a transaction that is in progress,
\* or acknowledged.
InProgress(p, n) ==
  /\ n \in Int /\ Base(p) <= n /\ n <= node[p].lastSent + 1
  /\ n = node[p].lastSent + 1 => node[p].running

ThreadOK(p, t) ==
  /\ DOMAIN t = {"rounds", "index", "number", "count", "dead"}
  /\ t.rounds \in 0..MaxRounds /\ t.index \in Nat /\ t.count \in Nat
  /\ t.index > 0 => t.index < t.count /\ t.rounds > 0 /\ InProgress(p, t.number)

\* A PDU on its way to q.
CarriesPacket(m) == m.kind \in {"start", "continuation"}

PduOK(q, m) ==
  /\ CarriesPacket(m) =>
       /\ InProgress(Other(q), m.number)
       /\ m.number >= NextNumber(q) => m.part = submitted[Other(q)][m.number - Base(Other(q)) + 1]
  /\ m.kind = "start" /\ m.number >= NextNumber(q) =>
       m.fcs = m.part /\ m.last = Fragments[m.part] - 1
  /\ m.kind = "ack" => /\ m.number \in Int /\ Base(q) <= m.number
                       /\ m.number < NextNumber(Other(q))

\* While a user's packet is on its way, nothing else is submitted.
PhaseOK(p) ==
  /\ Len(submitted[p]) <= MaxSubmitted(p, node[p].expected, user[p])
  /\ user[p] # "idle" =>
       node[p].expected = "auth" \/ (p = "provisioner" /\ node[p].expected = "none")
  /\ user[p] = "sending" => node[p].queue = <<>> /\ ~node[p].running
  /\ Orderly(p, node[p], submitted[p])
  /\ p = "provisioner" /\ ~node[p].exists => node[p].expected = "none" /\ user[p] = "idle"

Types ==
  /\ method \in Methods
  /\ DOMAIN node = Peers /\ DOMAIN thread = Peers /\ DOMAIN air = Peers
  /\ user \in [Peers -> {"idle", "queueing", "sending", "expecting"}]
  /\ auth \in [Peers -> {"none", "shown", "other"}]
  /\ submitted \in [Peers -> Seq(Packets)] /\ passed \in [Peers -> Seq(Packets)]

PeerOK(p) ==
  /\ NodeOK(p, node[p]) /\ SenderOK(p, node[p], submitted[p])
  /\ PhaseOK(p) /\ ThreadOK(p, thread[p]) /\ ReceiverOK(p)
  /\ \A m \in air[p] : PduOK(p, m)

Links == Types /\ \A p \in Peers : PeerOK(p)

\* The numbers of the two nodes never meet: a node submits too few packets.
Space(p) == Base(p)..Base(p) + 6

LEMMA Numbers ==
  ASSUME Links, NEW p \in Peers
  PROVE  /\ node[p].lastSent + 1 \in Space(p)
         /\ NextNumber(Other(p)) \in Space(p)
         /\ \A n \in Space(p) : n \notin Space(Other(p))
         /\ Len(passed[Other(p)]) \in Nat /\ Len(submitted[p]) \in Nat
         /\ Len(passed[Other(p)]) <= Len(submitted[p])
         /\ node[p].lastSent \in Int /\ Base(p) - 1 <= node[p].lastSent
         /\ node[p].lastSent < NextNumber(Other(p))
<1>1. /\ submitted[p] \in Seq(Packets) /\ passed[Other(p)] \in Seq(Packets)
      /\ Other(p) \in Peers /\ Other(Other(p)) = p
  BY TwoPeers DEF Links, Types
<1>2. Len(submitted[p]) \in Nat /\ Len(passed[Other(p)]) \in Nat
  BY <1>1, LenProperties
<1>3. Len(submitted[p]) <= 6
  BY <1>2, AtMostSix DEF Links, PeerOK, PhaseOK
<1>4. /\ node[p].lastSent \in Int /\ node[p].lastSent >= Base(p) - 1
      /\ Started(p, node[p]) <= Len(submitted[p])
  BY DEF Links, PeerOK, NodeOK, SenderOK, Backlog
<1>5. Base(p) \in Nat /\ node[p].lastSent - Base(p) + 1 <= Len(submitted[p])
  BY <1>2, <1>4, BaseType DEF Started
<1>6. Len(passed[Other(p)]) <= Len(submitted[p]) /\ NextNumber(Other(p)) = Base(p) + Len(passed[Other(p)])
      /\ node[p].lastSent < NextNumber(Other(p))
  BY <1>1 DEF Links, PeerOK, ReceiverOK, NextNumber
<1>7. \A n \in Space(p) : n \notin Space(Other(p))
  BY TwoPeers DEF Space, Base, Peers
<1> DEFINE a == Len(submitted[p])
           b == Len(passed[Other(p)])
<1>8. a \in Nat /\ b \in Nat /\ a <= 6 /\ b <= a /\ NextNumber(Other(p)) = Base(p) + b
      /\ node[p].lastSent - Base(p) + 1 <= a
  BY <1>2, <1>3, <1>5, <1>6
<1> HIDE DEF a, b
<1>9. node[p].lastSent + 1 \in Space(p) /\ NextNumber(Other(p)) \in Space(p)
  <2>1. \A base, last, c, d \in Int :
          base - 1 <= last /\ last - base + 1 <= c /\ c <= 6 /\ 0 <= d /\ d <= c =>
          last + 1 \in base..base + 6 /\ base + d \in base..base + 6
    OBVIOUS
  <2>2. a \in Int /\ b \in Int /\ 0 <= b /\ Base(p) \in Int
    BY <1>5, <1>8
  <2>3. node[p].lastSent \in Int /\ Base(p) - 1 <= node[p].lastSent
    BY <1>4
  <2> QED
    BY <1>8, <2>1, <2>2, <2>3 DEF Space
<1> QED
  BY <1>2, <1>4, <1>6, <1>7, <1>9

-----------------------------------------------------------------------------
(* A step of one node: what it must show, and what follows for the other.  *)

OtherRests(p) ==
  LET q == Other(p) IN
  /\ node'[q] = node[q] /\ thread'[q] = thread[q] /\ user'[q] = user[q]
  /\ submitted'[q] = submitted[q] /\ passed'[q] = passed[q] /\ air'[p] = air[p]

\* A node goes to its next number only when it has sent the last one, and
\* the other has got it; what is submitted or passed stays.
Advances(p) ==
  /\ \/ /\ node'[p].lastSent = node[p].lastSent
        /\ node[p].running => node'[p].running
     \/ /\ node'[p].lastSent = node[p].lastSent + 1 /\ node[p].running
        /\ node'[p].lastSent < NextNumber(Other(p))
  /\ Len(submitted[p]) <= Len(submitted'[p])
  /\ \A i \in 1..Len(submitted[p]) : submitted'[p][i] = submitted[p][i]
  /\ Len(passed[p]) <= Len(passed'[p])

LEMMA InProgressKept ==
  ASSUME Links, Types', NEW p \in Peers, Advances(p), NodeOK(p, node'[p]), NEW n, InProgress(p, n)
  PROVE  InProgress(p, n)'
  BY DEF InProgress, Advances, Links, PeerOK, NodeOK

LEMMA StepLemma ==
  ASSUME Links, Types', NEW p \in Peers, OtherRests(p), Advances(p),
         NodeOK(p, node'[p]), SenderOK(p, node'[p], submitted'[p]),
         PhaseOK(p)', ThreadOK(p, thread[p])', ReceiverOK(p)',
         \A m \in air'[Other(p)] \ air[Other(p)] : PduOK(Other(p), m)'
  PROVE  Links'
<1> DEFINE q == Other(p)
<1>1. /\ q \in Peers /\ Other(q) = p /\ Other(p) = q /\ q # p
      /\ \A r \in Peers : r = p \/ r = q
  BY TwoPeers
<1>2. /\ Len(submitted[p]) \in Nat /\ Len(submitted'[p]) \in Nat
      /\ Len(passed[p]) \in Nat /\ Len(passed'[p]) \in Nat
      /\ Len(submitted[q]) \in Nat /\ Len(passed[q]) \in Nat
  BY <1>1, LenProperties DEF Links, Types
<1>3. /\ node'[q] = node[q] /\ thread'[q] = thread[q] /\ user'[q] = user[q]
      /\ submitted'[q] = submitted[q] /\ passed'[q] = passed[q] /\ air'[p] = air[p]
  BY DEF OtherRests
<1>4. Base(p) \in Nat /\ Base(q) \in Nat
  BY BaseType
<1>5. NextNumber(q)' = NextNumber(q) /\ NextNumber(q) = Base(p) + Len(passed[q])
  BY <1>1, <1>3 DEF NextNumber
<1>6. /\ NextNumber(p) = Base(q) + Len(passed[p]) /\ NextNumber(p)' = Base(q) + Len(passed'[p])
      /\ NextNumber(p) <= NextNumber(p)'
  <2>1. NextNumber(p) = Base(q) + Len(passed[p]) /\ NextNumber(p)' = Base(q) + Len(passed'[p])
    BY DEF NextNumber
  <2> QED
    BY <1>2, <1>4, <2>1 DEF Advances
<1>7. PeerOK(p) /\ PeerOK(q)
  BY <1>1 DEF Links
<1>8. /\ node[p].lastSent \in Int /\ Len(passed[q]) <= Len(submitted[p])
      /\ Base(p) - 1 <= node[p].lastSent
  BY <1>1, <1>7 DEF PeerOK, NodeOK, ReceiverOK, SenderOK
<1>9. \A n : InProgress(p, n) => n \in Int /\ n - Base(p) + 1 \in 1..Len(submitted[p])
  <2> SUFFICES ASSUME NEW n, InProgress(p, n) PROVE n \in Int /\ n - Base(p) + 1 \in 1..Len(submitted[p])
    OBVIOUS
  <2>1. Started(p, node[p]) \in Nat /\ Started(p, node[p]) <= Len(submitted[p])
    BY <1>7 DEF PeerOK, SenderOK, Backlog
  <2>2. n - Base(p) + 1 <= Started(p, node[p])
    <3>1. n \in Int /\ n <= node[p].lastSent + 1 /\ (n = node[p].lastSent + 1 => node[p].running)
      BY DEF InProgress
    <3> DEFINE last == node[p].lastSent
    <3>4. last \in Int /\ Base(p) \in Int
      BY <1>4, <1>8
    <3>2. CASE node[p].running
      <4>1. Started(p, node[p]) = last - Base(p) + 1 + 1
        BY <3>2 DEF Started
      <4>2. \A i, j, k \in Int : i <= k + 1 => i - j + 1 <= k - j + 1 + 1
        OBVIOUS
      <4> QED
        BY <3>1, <3>4, <4>1, <4>2
    <3>3. CASE ~node[p].running
      <4>1. Started(p, node[p]) = last - Base(p) + 1 + 0
        BY <3>3 DEF Started
      <4>2. \A i, j, k \in Int : i <= k + 1 /\ i # k + 1 => i - j + 1 <= k - j + 1 + 0
        OBVIOUS
      <4> QED
        BY <3>1, <3>3, <3>4, <4>1, <4>2
    <3> QED
      BY <3>2, <3>3
  <2> QED
    BY <1>2, <1>4, <2>1, <2>2 DEF InProgress
<1> HIDE DEF q
<1>10. PeerOK(p)'
  <2>1. \A m \in air[p] : PduOK(p, m)'
    <3> SUFFICES ASSUME NEW m \in air[p] PROVE PduOK(p, m)'
      OBVIOUS
    <3>1. PduOK(p, m)
      BY <1>7 DEF PeerOK
    <3>2. InProgress(Other(p), m.number) => InProgress(Other(p), m.number)'
      BY <1>1, <1>3 DEF InProgress
    <3>3. InProgress(Other(p), m.number) => m.number \in Int
      BY DEF InProgress
    <3>7. submitted'[Other(p)] = submitted[Other(p)]
      BY <1>1, <1>3
    <3>4. NextNumber(p) \in Int /\ NextNumber(p)' \in Int
      BY <1>2, <1>4, <1>6
    <3>5. m.number \in Int => (m.number >= NextNumber(p)' => m.number >= NextNumber(p))
      BY <1>6, <3>4
    <3>6. NextNumber(Other(p))' = NextNumber(Other(p))
      BY <1>1, <1>5
    <3>8. CASE CarriesPacket(m)
      <4>1. InProgress(Other(p), m.number) /\ m.number \in Int
        BY <3>1, <3>3, <3>8 DEF PduOK
      <4>2. m.kind # "ack"
        BY <3>8 DEF CarriesPacket
      <4> QED
        BY <3>1, <3>2, <3>5, <3>7, <3>8, <4>1, <4>2 DEF PduOK
    <3>9. CASE ~CarriesPacket(m)
      <4>1. m.kind # "start"
        BY <3>9 DEF CarriesPacket
      <4> QED
        BY <3>1, <3>6, <3>9, <4>1 DEF PduOK
    <3> QED
      BY <3>8, <3>9
  <2> QED
    BY <1>3, <2>1 DEF PeerOK
<1>11. PeerOK(q)'
  <2>1. NodeOK(q, node[q])' /\ SenderOK(q, node[q], submitted[q])' /\ PhaseOK(q)'
    BY <1>3, <1>7 DEF PeerOK, PhaseOK
  <2>2. ThreadOK(q, thread[q])'
    BY <1>3, <1>7 DEF PeerOK, ThreadOK, InProgress
  <2>3. ReceiverOK(q)'
    <3>1. Len(passed[q]) < Len(submitted[p]) =>
            Len(passed[q]) < Len(submitted'[p]) /\ NextPacket(q)' = NextPacket(q)
      <4> DEFINE n == Len(passed[q]) + 1
      <4>1. /\ Len(submitted[p]) <= Len(submitted'[p])
            /\ \A i \in 1..Len(submitted[p]) : submitted'[p][i] = submitted[p][i]
        BY DEF Advances
      <4>2. \A a, b, c \in Nat : a < b /\ b <= c => a < c /\ a + 1 \in 1..b
        OBVIOUS
      <4>3. Len(passed[q]) < Len(submitted[p]) =>
              Len(passed[q]) < Len(submitted'[p]) /\ n \in 1..Len(submitted[p])
        BY <1>2, <4>1, <4>2
      <4>4. NextPacket(q) = submitted[p][n] /\ NextPacket(q)' = submitted'[p][n]
        BY <1>1, <1>3 DEF NextPacket
      <4> HIDE DEF n
      <4> QED
        BY <4>1, <4>3, <4>4
    <3>2. Receiving(q, node[q].current) => Receiving(q, node[q].current)'
      BY <1>1, <1>2, <1>3, <1>5, <3>1 DEF Receiving, Advances
    <3>3. node'[p].lastSent < NextNumber(q)'
      BY <1>1, <1>5, <1>7 DEF PeerOK, ReceiverOK, Advances, q
    <3> QED
      BY <1>1, <1>2, <1>3, <1>5, <1>7, <3>2, <3>3 DEF PeerOK, ReceiverOK, Advances
  <2>4. \A m \in air[q] : PduOK(q, m)'
    <3> SUFFICES ASSUME NEW m \in air[q] PROVE PduOK(q, m)'
      OBVIOUS
    <3>1. PduOK(q, m)
      BY <1>7 DEF PeerOK
    <3>2. InProgress(p, m.number) => InProgress(p, m.number)'
      BY InProgressKept
    <3>3. InProgress(p, m.number) =>
            submitted'[p][m.number - Base(p) + 1] = submitted[p][m.number - Base(p) + 1]
      BY <1>9 DEF Advances
    <3>4. m.number \in Int => (m.number < NextNumber(p) => m.number < NextNumber(p)')
      BY <1>2, <1>4, <1>6
    <3> QED
      BY <1>1, <1>5, <3>1, <3>2, <3>3, <3>4 DEF PduOK
  <2> QED
    BY <2>1, <2>2, <2>3, <2>4 DEF PeerOK, q
<1> QED
  BY <1>1, <1>10, <1>11 DEF Links

-----------------------------------------------------------------------------
(* The sending thread.                                                     *)

LEMMA AirWorks ==
  ASSUME Links, NEW p \in Peers, NEW t, NEW out,
         UNCHANGED <<method, node, user, auth, submitted, passed>>,
         DOMAIN thread' = Peers, thread'[p] = t, thread'[Other(p)] = thread[Other(p)],
         air' = [air EXCEPT ![Other(p)] = @ \cup out], ThreadOK(p, t),
         \A m \in out : PduOK(Other(p), m)
  PROVE  Links'
<1>1. Other(p) \in Peers /\ Other(p) # p
  BY TwoPeers
<1>2. /\ UNCHANGED <<method, node, user, auth, submitted, passed>>
      /\ air' = [air EXCEPT ![Other(p)] = air[Other(p)] \cup out]
  OBVIOUS
<1>3. Types'
  BY <1>2 DEF Types, Links
<1>4. thread'[p] = t /\ air'[Other(p)] = air[Other(p)] \cup out
  BY <1>1, <1>2 DEF Links, Types
<1>5. OtherRests(p)
  BY <1>1, <1>2 DEF OtherRests, Links, Types
<1>6. Len(submitted[p]) \in Nat /\ Len(passed[p]) \in Nat
  BY LenProperties DEF Links, Types
<1>7. Advances(p)
  BY <1>2, <1>6 DEF Advances
<1>8. NodeOK(p, node'[p]) /\ SenderOK(p, node'[p], submitted'[p]) /\ PhaseOK(p)' /\ ReceiverOK(p)'
  BY <1>2 DEF Links, PeerOK, PhaseOK, ReceiverOK, Receiving, NextNumber, NextPacket
<1>9. ThreadOK(p, thread[p])'
  BY <1>2, <1>4 DEF ThreadOK, InProgress
<1>10. \A m \in out : PduOK(Other(p), m)'
  BY <1>2 DEF PduOK, InProgress, NextNumber
<1>11. \A m \in air'[Other(p)] \ air[Other(p)] : PduOK(Other(p), m)'
  BY <1>4, <1>10
<1> QED
  BY <1>3, <1>5, <1>7, <1>8, <1>9, <1>11, StepLemma

LEMMA SendsWorks ==
  ASSUME Links, NEW p \in Peers, NEW t, NEW out, Sends(p, t, out), ThreadOK(p, t),
         \A m \in out : PduOK(Other(p), m)
  PROVE  Links'
<1>1. Other(p) \in Peers /\ Other(p) # p
  BY TwoPeers
<1>2. DOMAIN thread' = Peers /\ thread'[p] = t /\ thread'[Other(p)] = thread[Other(p)]
  BY <1>1 DEF Sends, Links, Types
<1> QED
  BY <1>2, AirWorks DEF Sends

LEMMA FragmentRounds ==
  ASSUME NEW p \in Peers, NEW t, NEW i \in Nat, MaxRounds \in Nat,
         DOMAIN t = {"rounds", "index", "number", "count", "dead"},
         t.rounds \in 1..MaxRounds, t.count \in Nat, InProgress(p, t.number)
  PROVE  ThreadOK(p, NextFragment(t, i))
  BY DEF ThreadOK, NextFragment

LEMMA SendingThreadWorks ==
  ASSUME ProvisioningAssumption, Links, NEW p \in Peers, SendingThread(p)
  PROVE  Links'
<1> DEFINE q == Other(p)
           s == node[p]
           now == node[p].current
<1>1. /\ q \in Peers /\ Other(q) = p
      /\ NodeOK(p, s) /\ SenderOK(p, s, submitted[p]) /\ ThreadOK(p, thread[p]) /\ ReceiverOK(q)
      /\ submitted[p] \in Seq(Packets) /\ MaxRounds \in Nat
  BY TwoPeers DEF Links, Types, PeerOK, ProvisioningAssumption
<1>2. Len(now.parts) \in Nat /\ \A i \in 1..Len(now.parts) : now.parts[i] \in Packets
  BY <1>1, LenProperties, ElementOfSeq DEF NodeOK, TransactionOK
\* While a transaction is sent, all its parts are of the packet started last.
<1>3. ASSUME s.running
      PROVE  LET x == submitted[p][s.lastSent - Base(p) + 2] IN
             /\ x \in Packets /\ now = SendingTransaction(s.lastSent + 1, x)
             /\ InProgress(p, s.lastSent + 1)
  <2>1. Started(p, s) = s.lastSent - Base(p) + 2 /\ s.lastSent >= Base(p) - 1 /\ s.lastSent \in Int
    BY <1>1, <1>3, BaseType DEF Started, SenderOK, NodeOK
  <2>2. Started(p, s) \in Nat /\ Started(p, s) <= Len(submitted[p]) /\ Len(submitted[p]) \in Nat
    BY <1>1, LenProperties DEF SenderOK, Backlog
  <2>3. Started(p, s) \in 1..Len(submitted[p])
    BY <2>1, <2>2, BaseType
  <2>4. submitted[p][Started(p, s)] \in Packets
    BY <1>1, <2>3, ElementOfSeq
  <2>5. now = SendingTransaction(s.lastSent + 1, submitted[p][Started(p, s)])
    BY <1>1, <1>3 DEF SenderOK
  <2>6. InProgress(p, s.lastSent + 1)
    <3>1. \A i, j \in Int : i >= j - 1 => i + 1 \in Int /\ j <= i + 1 /\ i + 1 <= i + 1
      OBVIOUS
    <3>2. Base(p) \in Int
      BY BaseType
    <3> QED
      BY <1>3, <2>1, <3>1, <3>2 DEF InProgress
  <2> QED
    BY <2>1, <2>4, <2>5, <2>6
<1>4. CASE IdleRound(p)
  <2> DEFINE t == [thread[p] EXCEPT !.rounds = @ - 1]
  <2>1. Sends(p, t, {}) /\ thread[p].rounds > 0 /\ thread[p].index = 0
    BY <1>4 DEF IdleRound
  <2>2. ThreadOK(p, t)
    BY <1>1, <2>1 DEF ThreadOK
  <2> HIDE DEF t
  <2> QED
    BY <2>1, <2>2, SendsWorks
<1>5. CASE FirstFragment(p)
  <2> DEFINE t == [thread[p] EXCEPT !.number = now.number, !.count = Len(now.parts)]
             m == StartPdu(t.number, now)
             x == submitted[p][s.lastSent - Base(p) + 2]
  <2>1. Sends(p, NextFragment(t, 1), {m}) /\ thread[p].rounds > 0 /\ s.running
    BY <1>5 DEF FirstFragment
  <2>2. x \in Packets /\ now = SendingTransaction(s.lastSent + 1, x) /\ InProgress(p, s.lastSent + 1)
    BY <1>3, <2>1
  <2>3. /\ now.number = s.lastSent + 1 /\ now.fcs = x
        /\ Fragments[x] \in Nat \ {0} /\ now.last = Fragments[x] - 1
        /\ Len(now.parts) = Fragments[x] /\ now.parts[1] = x
    BY <2>2, Sending
  <2>4. /\ DOMAIN t = {"rounds", "index", "number", "count", "dead"} /\ t.rounds = thread[p].rounds
        /\ t.number = s.lastSent + 1 /\ t.count = Fragments[x]
    BY <1>1, <2>3 DEF ThreadOK
  <2>5. ThreadOK(p, NextFragment(t, 1))
    <3> HIDE DEF t
    <3>1. t.rounds \in 1..MaxRounds /\ t.count \in Nat /\ InProgress(p, t.number)
      BY <1>1, <2>1, <2>2, <2>3, <2>4 DEF ThreadOK
    <3>2. MaxRounds \in Nat
      BY <1>1
    <3> QED
      BY <2>4, <3>1, <3>2, FragmentRounds
  <2>6. /\ m.kind = "start" /\ m.number = s.lastSent + 1 /\ m.part = x /\ m.fcs = x
        /\ m.last = Fragments[x] - 1
    BY <2>3, <2>4 DEF StartPdu
  <2> HIDE DEF t, m
  <2>7. m.part = submitted[p][m.number - Base(p) + 1]
    <3>1. \A a, b \in Int : a + 1 - b + 1 = a - b + 2
      OBVIOUS
    <3>2. s.lastSent \in Int /\ Base(p) \in Int
      BY <1>1, BaseType DEF NodeOK
    <3> QED
      BY <2>6, <3>1, <3>2
  <2> HIDE DEF x, q
  <2>8. PduOK(q, m)
    BY <1>1, <2>2, <2>6, <2>7 DEF PduOK, CarriesPacket
  <2> QED
    BY <2>1, <2>5, <2>8, SendsWorks DEF q
<1>6. CASE FollowingFragment(p)
  <2> DEFINE t == thread[p]
  <2>1. t.index > 0 /\ InProgress(p, t.number) /\ t.index < t.count /\ t.rounds \in 1..MaxRounds
    BY <1>1, <1>6 DEF FollowingFragment, ThreadOK
  <2>2. CASE t.index < Len(now.parts)
    <3> DEFINE m == ContinuationPdu(t.number, t.index, now)
               x == submitted[p][s.lastSent - Base(p) + 2]
    <3>1. Sends(p, NextFragment(t, t.index + 1), {m})
      BY <1>6, <2>2, <1>2, <1>1 DEF FollowingFragment, ThreadOK
    <3>2. ThreadOK(p, NextFragment(t, t.index + 1))
      <4>1. t.index + 1 \in Nat /\ t.count \in Nat /\ DOMAIN t = {"rounds", "index", "number", "count", "dead"}
        BY <1>1 DEF ThreadOK
      <4> QED
        BY <1>1, <2>1, <4>1, FragmentRounds
    <3>3. m.kind = "continuation" /\ m.number = t.number /\ m.part = now.parts[t.index + 1]
      BY DEF ContinuationPdu
    <3>4. t.number >= NextNumber(q) => m.part = submitted[p][t.number - Base(p) + 1]
      <4> SUFFICES ASSUME t.number >= NextNumber(q) PROVE m.part = submitted[p][t.number - Base(p) + 1]
        OBVIOUS
      <4>1. NextNumber(q) \in Int /\ s.lastSent < NextNumber(q) /\ s.lastSent \in Int
        BY Numbers DEF Space
      <4>2. t.number = s.lastSent + 1 /\ s.running
        BY <2>1, <4>1 DEF InProgress
      <4>3. x \in Packets /\ now = SendingTransaction(s.lastSent + 1, x)
        BY <1>3, <4>2
      <4>4. t.index + 1 \in 1..Len(now.parts)
        BY <1>1, <1>2, <2>2 DEF ThreadOK
      <4>5. now.parts[t.index + 1] = x
        BY <4>3, <4>4, Sending
      <4> QED
        BY <3>3, <4>1, <4>2, <4>5, BaseType
    <3> HIDE DEF m
    <3>5. PduOK(q, m)
      BY <1>1, <2>1, <3>3, <3>4 DEF PduOK, CarriesPacket
    <3> QED
      BY <3>1, <3>2, <3>5, SendsWorks
  <2>3. CASE ~(t.index < Len(now.parts))
    <3> DEFINE r == [t EXCEPT !.dead = TRUE]
    <3>1. Sends(p, r, {})
      BY <1>6, <2>3 DEF FollowingFragment
    <3>2. ThreadOK(p, r)
      BY <1>1 DEF ThreadOK
    <3> HIDE DEF r
    <3> QED
      BY <3>1, <3>2, SendsWorks
  <2> QED
    BY <2>2, <2>3
<1> QED
  BY <1>4, <1>5, <1>6 DEF SendingThread

LEMMA LinkOpenThreadWorks ==
  ASSUME Links, NEW p \in Peers, LinkOpenThread(p)
  PROVE  Links'
<1> DEFINE out == {Pdu("open", 0)}
<1>1. /\ UNCHANGED <<method, node, thread, user, auth, submitted, passed>>
      /\ air' = [air EXCEPT ![Other(p)] = @ \cup out]
  BY DEF LinkOpenThread
<1>2. \A m \in out : PduOK(Other(p), m)
  BY DEF PduOK, CarriesPacket, Pdu
<1>3. ThreadOK(p, thread[p]) /\ DOMAIN thread = Peers
  BY DEF Links, PeerOK, Types
<1> HIDE DEF out
<1> QED
  BY <1>1, <1>2, <1>3, AirWorks

-----------------------------------------------------------------------------
(* The receiving thread, when the protocol is not concerned.               *)

LEMMA BecomeWorks ==
  ASSUME Links, NEW p \in Peers, NEW s, NEW out, Become(p, s, out),
         NodeOK(p, s), SenderOK(p, s, submitted[p]), Orderly(p, s, submitted[p]),
         s.lastReceived = node[p].lastReceived, s.expected = node[p].expected,
         node[p].exists => s.exists,
         \/ s.lastSent = node[p].lastSent /\ (node[p].running => s.running)
         \/ /\ s.lastSent = node[p].lastSent + 1 /\ node[p].running
            /\ s.lastSent < NextNumber(Other(p)),
         user[p] = "sending" => s.queue = <<>> /\ ~s.running,
         s.inTransaction /\ ~s.running => Receiving(p, s.current),
         \A m \in out : ~CarriesPacket(m) /\ PduOK(Other(p), m)
  PROVE  Links'
<1>1. Other(p) \in Peers /\ Other(p) # p
  BY TwoPeers
<1>2. /\ UNCHANGED <<method, thread, user, auth, submitted, passed>>
      /\ node' = [node EXCEPT ![p] = s]
      /\ air' = [air EXCEPT ![Other(p)] = air[Other(p)] \cup out]
  BY DEF Become
<1>3. Types'
  BY <1>2 DEF Types, Links
<1>4. node'[p] = s /\ node'[Other(p)] = node[Other(p)] /\ air'[Other(p)] = air[Other(p)] \cup out
  BY <1>1, <1>2 DEF Links, Types
<1>5. OtherRests(p)
  BY <1>1, <1>2, <1>4 DEF OtherRests, Links, Types
<1>6. Len(submitted[p]) \in Nat /\ Len(passed[p]) \in Nat
  BY LenProperties DEF Links, Types
<1>7. Advances(p)
  BY <1>2, <1>4, <1>6 DEF Advances
<1>8. NodeOK(p, node'[p]) /\ SenderOK(p, node'[p], submitted'[p])
  BY <1>2, <1>4
<1>9. PhaseOK(p)'
  BY <1>2, <1>4 DEF Links, PeerOK, PhaseOK
<1>10. ReceiverOK(p)'
  BY <1>2, <1>4 DEF Links, PeerOK, ReceiverOK, Receiving, NextNumber, NextPacket
<1>11. ThreadOK(p, thread[p])'
  <2>1. \A n : InProgress(p, n) => InProgress(p, n)'
    BY <1>3, <1>7, <1>8, InProgressKept
  <2> QED
    BY <1>2, <2>1 DEF ThreadOK, Links, PeerOK
<1>12. \A m \in out : PduOK(Other(p), m)'
  <2> SUFFICES ASSUME NEW m \in out PROVE PduOK(Other(p), m)'
    OBVIOUS
  <2>1. ~CarriesPacket(m) /\ m.kind # "start" /\ PduOK(Other(p), m)
    BY DEF CarriesPacket
  <2>2. NextNumber(Other(Other(p)))' = NextNumber(Other(Other(p)))
    BY <1>2 DEF NextNumber
  <2> QED
    BY <2>1, <2>2 DEF PduOK
<1>13. \A m \in air'[Other(p)] \ air[Other(p)] : PduOK(Other(p), m)'
  BY <1>4, <1>12
<1> QED
  BY <1>3, <1>5, <1>7, <1>8, <1>9, <1>10, <1>11, <1>13, StepLemma

LEMMA Own ==
  ASSUME Links, NEW p \in Peers
  PROVE  /\ NodeOK(p, node[p]) /\ SenderOK(p, node[p], submitted[p])
         /\ Orderly(p, node[p], submitted[p])
         /\ submitted[p] \in Seq(Packets) /\ passed[p] \in Seq(Packets)
         /\ Other(p) \in Peers /\ Other(Other(p)) = p /\ Other(p) # p
         /\ user[p] = "sending" => node[p].queue = <<>> /\ ~node[p].running
         /\ node[p].running => node[p].inTransaction
         /\ node[p].inTransaction /\ ~node[p].running => Receiving(p, node[p].current)
  BY TwoPeers DEF Links, Types, PeerOK, PhaseOK, SenderOK, ReceiverOK

\* A PDU of a transaction that is not finished is of the next one.
LEMMA NextPdu ==
  ASSUME ProvisioningAssumption, Links, NEW p \in Peers, NEW m \in air[p], CarriesPacket(m),
         m.number > node[p].lastReceived
  PROVE  /\ m.number = NextNumber(p) /\ m.number \in Nat
         /\ m.part = NextPacket(p) /\ NextPacket(p) \in Packets
         /\ Fragments[NextPacket(p)] \in Nat \ {0}
         /\ Len(passed[p]) \in Nat /\ Len(passed[p]) < Len(submitted[Other(p)])
         /\ m.kind = "start" => m.fcs = NextPacket(p) /\ m.last = Fragments[NextPacket(p)] - 1
<1> DEFINE q == Other(p)
<1>1. q \in Peers /\ Other(q) = p
  BY TwoPeers
<1>2. PduOK(p, m) /\ ReceiverOK(p)
  BY DEF Links, PeerOK
<1>3. /\ node[q].lastSent \in Int /\ node[q].lastSent < NextNumber(p)
      /\ Len(passed[p]) \in Nat /\ Len(submitted[q]) \in Nat /\ Base(q) \in Nat
      /\ NextNumber(p) = Base(q) + Len(passed[p]) /\ submitted[q] \in Seq(Packets)
  <2>1. submitted[q] \in Seq(Packets)
    BY <1>1 DEF Links, Types
  <2> QED
    BY <1>1, <2>1, Numbers, BaseType DEF NextNumber
<1>4. InProgress(q, m.number)
  BY <1>2 DEF PduOK
<1>5. m.number \in Int /\ m.number >= NextNumber(p)
  BY <1>2, <1>3, <1>4 DEF ReceiverOK, InProgress
<1>6. m.number = NextNumber(p) /\ node[q].running
  <2>1. /\ m.number <= node[q].lastSent + 1
        /\ m.number = node[q].lastSent + 1 => node[q].running
    BY <1>4 DEF InProgress
  <2>2. \A a, b, c \in Int : a < b /\ b <= c /\ c <= a + 1 => b = c /\ c = a + 1
    OBVIOUS
  <2>3. NextNumber(p) \in Int
    BY <1>3
  <2> QED
    BY <1>3, <1>5, <2>1, <2>2, <2>3
<1>7. m.number - Base(q) + 1 = Len(passed[p]) + 1
  BY <1>3, <1>6
<1>8. Started(q, node[q]) = Len(passed[p]) + 1
  BY <1>3, <1>4, <1>5, <1>6 DEF Started, InProgress
<1>9. Len(passed[p]) < Len(submitted[q])
  <2>1. Started(q, node[q]) <= Len(submitted[q])
    BY <1>1 DEF Links, PeerOK, SenderOK, Backlog
  <2> QED
    BY <1>3, <1>8, <2>1
<1>10. NextPacket(p) \in Packets
  <2>1. Len(passed[p]) + 1 \in 1..Len(submitted[q])
    BY <1>3, <1>9
  <2> QED
    BY <1>3, <2>1, ElementOfSeq DEF NextPacket
<1>11. m.part = NextPacket(p)
  BY <1>2, <1>5, <1>7 DEF PduOK, NextPacket
<1>12. m.kind = "start" => m.fcs = NextPacket(p) /\ m.last = Fragments[NextPacket(p)] - 1
  BY <1>2, <1>5, <1>11 DEF PduOK
<1>13. Fragments[NextPacket(p)] \in Nat \ {0}
  BY <1>10 DEF ProvisioningAssumption
<1> QED
  BY <1>3, <1>6, <1>9, <1>10, <1>11, <1>12, <1>13

LEMMA KeepsWorks ==
  ASSUME Links, NEW p \in Peers, NEW s, NEW out, Become(p, s, out),
         NodeOK(p, s), SenderOK(p, s, submitted[p]), Orderly(p, s, submitted[p]),
         Keeps(node[p], s), node[p].queue = <<>> => s.queue = <<>> /\ (s.running => node[p].running),
         \A m \in out : ~CarriesPacket(m) /\ PduOK(Other(p), m)
  PROVE  Links'
<1>1. user[p] = "sending" => s.queue = <<>> /\ ~s.running
  BY Own
<1>2. s.inTransaction /\ ~s.running => Receiving(p, s.current)
  BY Own DEF Keeps
<1> QED
  BY <1>1, <1>2, BecomeWorks DEF Keeps

LEMMA LinkPdusWork ==
  ASSUME ProvisioningAssumption, Links, NEW p \in Peers, NEW m \in air[p],
         OnLinkOpen(p, m) \/ OnLinkAck(p, m) \/ OnFinished(p, m)
  PROVE  Links'
<1>1. CASE OnLinkOpen(p, m)
  <2> DEFINE s == [node[p] EXCEPT !.exists = TRUE, !.linkOpen = TRUE]
             out == {Pdu("link_ack", 0)}
  <2>1. Become(p, s, out)
    BY <1>1 DEF OnLinkOpen
  <2>2. /\ DOMAIN s = Fields /\ s.exists = TRUE
        /\ s.inTransaction = node[p].inTransaction
        /\ s.running = node[p].running /\ s.current = node[p].current
        /\ s.lastSent = node[p].lastSent /\ s.lastReceived = node[p].lastReceived
        /\ s.queue = node[p].queue /\ s.expected = node[p].expected
    BY Own DEF NodeOK, Fields
  <2>3. \A o \in out : ~CarriesPacket(o) /\ PduOK(Other(p), o)
    BY DEF PduOK, CarriesPacket, Pdu
  <2> HIDE DEF s, out
  <2>4. /\ NodeOK(p, s) /\ SenderOK(p, s, submitted[p]) /\ Orderly(p, s, submitted[p])
        /\ Keeps(node[p], s)
    BY <2>2, Own DEF NodeOK, SenderOK, Orderly, Open, Started, Keeps
  <2> QED
    BY <2>1, <2>2, <2>3, <2>4, KeepsWorks
<1>2. CASE OnLinkAck(p, m)
  <2> DEFINE r == [node[p] EXCEPT !.linkOpen = TRUE, !.opening = FALSE]
             s == CheckQueue(r)
  <2>1. Become(p, s, {})
    BY <1>2 DEF OnLinkAck
  <2>2. /\ DOMAIN r = Fields
        /\ r.exists = node[p].exists
        /\ r.inTransaction = node[p].inTransaction
        /\ r.running = node[p].running /\ r.current = node[p].current
        /\ r.lastSent = node[p].lastSent /\ r.lastReceived = node[p].lastReceived
        /\ r.queue = node[p].queue /\ r.expected = node[p].expected
    BY Own DEF NodeOK, Fields
  <2> HIDE DEF r
  <2>3. NodeOK(p, r) /\ SenderOK(p, r, submitted[p]) /\ Orderly(p, r, submitted[p])
    BY <2>2, Own DEF NodeOK, SenderOK, Orderly, Open, Started
  <2>4. /\ NodeOK(p, s) /\ SenderOK(p, s, submitted[p]) /\ Keeps(r, s)
        /\ Open(p, r, submitted[p]) => Open(p, s, submitted[p])
        /\ r.queue = <<>> => s = r
    BY <2>3, Own, CheckQueueWorks
  <2> HIDE DEF s
  <2>5. Keeps(node[p], s) /\ Orderly(p, s, submitted[p])
    BY <2>2, <2>3, <2>4 DEF Keeps, Orderly
  <2> QED
    BY <2>1, <2>2, <2>4, <2>5, KeepsWorks
<1>3. CASE OnFinished(p, m)
  <2> DEFINE o == Pdu("ack", m.number)
  <2>1. /\ Become(p, node[p], {o}) /\ m.number <= node[p].lastReceived
        /\ CarriesPacket(m)
    BY <1>3 DEF OnFinished, Ack, CarriesPacket
  <2>2. InProgress(Other(p), m.number) /\ ReceiverOK(p)
    BY <2>1 DEF Links, PeerOK, PduOK
  <2>3. m.number \in Int /\ Base(Other(p)) <= m.number /\ m.number < NextNumber(p)
    <3>1. Len(passed[p]) \in Nat /\ NextNumber(p) \in Int /\ Base(Other(p)) \in Nat
      BY LenProperties, Own, BaseType DEF NextNumber
    <3> QED
      BY <2>1, <2>2, <3>1 DEF ReceiverOK, InProgress
  <2>4. ~CarriesPacket(o) /\ PduOK(Other(p), o)
    BY <2>3, Own DEF PduOK, CarriesPacket, Pdu
  <2> HIDE DEF o
  <2>5. Keeps(node[p], node[p])
    BY DEF Keeps
  <2> QED
    BY <2>1, <2>4, <2>5, Own, KeepsWorks
<1> QED
  BY <1>1, <1>2, <1>3

LEMMA NumberSent ==
  ASSUME Links, NEW p \in Peers, node[p].running
  PROVE  node[p].inTransaction /\ node[p].current.number = node[p].lastSent + 1
<1>1. \A n, x : SendingTransaction(n, x).number = n
  BY DEF SendingTransaction
<1> DEFINE x == submitted[p][Started(p, node[p])]
<1>2. node[p].inTransaction /\ node[p].current = SendingTransaction(node[p].lastSent + 1, x)
  BY Own DEF SenderOK
<1> HIDE DEF x
<1> QED
  BY <1>1, <1>2

\* The numbers that the other side acknowledges are those of this side.
LEMMA AckIsOfSending ==
  ASSUME ProvisioningAssumption, Links, NEW p \in Peers, NEW m \in air[p], OnAck(p, m)
  PROVE  node[p].running /\ m.number < NextNumber(Other(p))
<1>1. m.kind = "ack" /\ node[p].inTransaction /\ node[p].current.number = m.number
  BY DEF OnAck
<1>2. m.number \in Space(p) /\ m.number < NextNumber(Other(p))
  <2>1. m.number \in Int /\ Base(p) <= m.number /\ m.number < NextNumber(Other(p))
    BY <1>1 DEF Links, PeerOK, PduOK
  <2> QED
    BY <2>1, Numbers, BaseType DEF Space
<1> SUFFICES ASSUME ~node[p].running PROVE FALSE
  BY <1>2
<1>3. m.number = NextNumber(p)
  BY <1>1, Own DEF Receiving
<1>4. NextNumber(Other(Other(p))) \in Space(Other(p))
  BY Own, Numbers
<1> QED
  BY <1>2, <1>3, <1>4, Own, Numbers

LEMMA OnAckWorks ==
  ASSUME ProvisioningAssumption, Links, NEW p \in Peers, NEW m \in air[p], OnAck(p, m)
  PROVE  Links'
<1> DEFINE r == [node[p] EXCEPT !.running = FALSE, !.inTransaction = FALSE, !.lastSent = @ + 1]
           s == CheckQueue(r)
<1>1. /\ m.kind = "ack" /\ node[p].inTransaction /\ node[p].current.number = m.number
      /\ Become(p, s, {})
  BY DEF OnAck
<1>2. m.number < NextNumber(Other(p))
  BY AckIsOfSending
<1>3. node[p].running
  BY AckIsOfSending
<1>4. m.number = node[p].lastSent + 1
  BY <1>1, <1>3, NumberSent
<1>5. /\ DOMAIN r = Fields
      /\ r.exists = node[p].exists
      /\ ~r.inTransaction /\ ~r.running /\ r.current = node[p].current
      /\ r.lastSent = node[p].lastSent + 1 /\ r.lastReceived = node[p].lastReceived
      /\ r.queue = node[p].queue /\ r.expected = node[p].expected
  BY Own DEF NodeOK, Fields
<1> HIDE DEF r
<1>6. Started(p, r) = Started(p, node[p]) /\ r.lastSent \in Int /\ r.lastSent >= Base(p) - 1
  BY <1>3, <1>5, Own, BaseType DEF Started, NodeOK, SenderOK
<1>7. NodeOK(p, r) /\ SenderOK(p, r, submitted[p]) /\ Orderly(p, r, submitted[p])
  BY <1>5, <1>6, Own DEF NodeOK, SenderOK, Orderly, Open
<1>8. /\ NodeOK(p, s) /\ SenderOK(p, s, submitted[p]) /\ Keeps(r, s)
      /\ Open(p, r, submitted[p]) => Open(p, s, submitted[p])
  BY <1>7, Own, CheckQueueWorks
<1> HIDE DEF s
<1>9. Orderly(p, s, submitted[p])
  BY <1>7, <1>8 DEF Orderly, Keeps
<1>10. s.inTransaction => s.running
  BY <1>5, <1>8 DEF Keeps
<1>11. /\ s.lastReceived = node[p].lastReceived /\ s.expected = node[p].expected
       /\ s.lastSent = node[p].lastSent + 1 /\ s.lastSent < NextNumber(Other(p))
       /\ node[p].exists => s.exists
  BY <1>2, <1>4, <1>5, <1>8 DEF Keeps
<1>12. user[p] # "sending"
  BY <1>3, Own
<1> QED
  BY <1>1, <1>3, <1>8, <1>9, <1>10, <1>11, <1>12, BecomeWorks

\* A node that receives a transaction is not sending one.
LEMMA Receptive ==
  ASSUME ProvisioningAssumption, Links, NEW p \in Peers, NEW m \in air[p], CarriesPacket(m),
         m.number > node[p].lastReceived,
         node[p].inTransaction => node[p].current.number = m.number
  PROVE  ~node[p].running
<1> SUFFICES ASSUME node[p].running PROVE FALSE
  OBVIOUS
<1>1. m.number = node[p].lastSent + 1
  BY NumberSent
<1>2. m.number \in Space(Other(p)) /\ m.number \in Space(p)
  BY <1>1, NextPdu, Own, Numbers
<1> QED
  BY <1>2, Numbers

\* A node whose transaction in progress, if any, is received.
LEMMA TransactionWorks ==
  ASSUME Links, NEW p \in Peers, ~node[p].running, NEW s, Become(p, s, {}),
         DOMAIN s = Fields, TransactionOK(s.current), ~s.running,
         s.lastSent = node[p].lastSent, s.lastReceived = node[p].lastReceived,
         s.queue = node[p].queue, s.expected = node[p].expected,
         node[p].exists => s.exists, s.inTransaction => Receiving(p, s.current)
  PROVE  Links'
<1>1. NodeOK(p, s) /\ SenderOK(p, s, submitted[p]) /\ Orderly(p, s, submitted[p])
  BY Own DEF NodeOK, SenderOK, Orderly, Open, Started
<1> QED
  BY <1>1, Own, BecomeWorks

\* The state after a packet is passed up, when a transaction of several
\* fragments has ended, or one of a single fragment.
Given(p, s, x) ==
  IF s.current.last > 0 /\ Taken(s, x) THEN CheckQueue(Upper(p, s, x)) ELSE Upper(p, s, x)

LEMMA OpenHasNoEnd ==
  ASSUME NEW p \in Peers, NEW s, NEW sub \in Seq(Packets), NodeOK(p, s), SenderOK(p, s, sub),
         Open(p, s, sub)
  PROVE  \A i \in 1..Len(s.queue) : s.queue[i] # "finished"
<1> SUFFICES ASSUME NEW i \in 1..Len(s.queue) PROVE s.queue[i] # "finished"
  OBVIOUS
<1> DEFINE k == Started(p, s)
<1>1. k \in Nat /\ k <= Len(sub) /\ Len(s.queue) = Len(sub) - k /\ s.queue[i] = sub[k + i]
  BY DEF SenderOK, Backlog, Open
<1> HIDE DEF k
<1>2. k + i \in 1..Len(sub)
  BY <1>1, LenProperties
<1>3. sub[k + i] \in Packets
  BY <1>2, ElementOfSeq
<1> QED
  BY <1>1, <1>3 DEF Packets

\* What a packet that is passed up leaves of the node, and of what it submits.
GivenOK(p, s, sub, x) ==
  LET t == Given(p, s, x)
      new == sub \o PacketsOf(p, s, x) IN
  /\ NodeOK(p, t) /\ new \in Seq(Packets) /\ SenderOK(p, t, new) /\ Orderly(p, t, new)
  /\ t.lastSent = s.lastSent /\ t.lastReceived = s.lastReceived
  /\ t.inTransaction => t.running
  /\ Len(sub) <= MaxSubmitted(p, s.expected, "idle") =>
       Len(new) <= MaxSubmitted(p, t.expected, "idle")
  /\ PacketsOf(p, s, x) \in Seq(Packets)
  /\ t.expected = IF Taken(s, x) THEN On(p, x).expected ELSE s.expected
  /\ ~Taken(s, x) => t.queue = s.queue /\ t.running = s.running
                      /\ PacketsOf(p, s, x) = <<>>
  /\ p = "provisionee" => (t.done <=> s.done \/ (Taken(s, x) /\ x = "data"))
  /\ p = "provisioner" => (Ends(t) => Ends(s) \/ (Taken(s, x) /\ x = "complete"))
  /\ s.exists => t.exists

LEMMA GivenWorks ==
  ASSUME ProvisioningAssumption, NEW p \in Peers, NEW s, NodeOK(p, s), NEW sub \in Seq(Packets),
         SenderOK(p, s, sub), ~s.inTransaction, Orderly(p, s, sub), NEW x \in Packets
  PROVE  GivenOK(p, s, sub, x)
<1> DEFINE u == Upper(p, s, x)
           t == Given(p, s, x)
           sent == PacketsOf(p, s, x)
           new == sub \o sent
<1>1. /\ NodeOK(p, u) /\ new \in Seq(Packets) /\ SenderOK(p, u, new) /\ Orderly(p, u, new)
      /\ u.lastSent = s.lastSent /\ u.lastReceived = s.lastReceived
      /\ u.inTransaction => u.running
      /\ Len(sub) <= MaxSubmitted(p, s.expected, "idle") =>
           Len(new) <= MaxSubmitted(p, u.expected, "idle")
      /\ sent \in Seq(Packets)
      /\ u.expected = IF Taken(s, x) THEN On(p, x).expected ELSE s.expected
      /\ ~Taken(s, x) => u.queue = s.queue /\ u.running = s.running /\ u.done = s.done
                          /\ sent = <<>>
      /\ p = "provisionee" => (u.done <=> s.done \/ (Taken(s, x) /\ x = "data"))
      /\ p = "provisioner" /\ x # "complete" => (u.done <=> s.done)
      /\ Taken(s, x) /\ x # "complete" => Open(p, u, new)
      /\ s.exists => u.exists
  BY UpperWorks
<1>2. t = u \/ (Taken(s, x) /\ t = CheckQueue(u))
  BY DEF Given
<1> HIDE DEF u, t, new, sent
<1>3. p = "provisioner" => (Ends(u) => Ends(s) \/ (Taken(s, x) /\ x = "complete"))
  <2> SUFFICES ASSUME p = "provisioner", Ends(u), ~(Taken(s, x) /\ x = "complete") PROVE Ends(s)
    OBVIOUS
  <2>1. CASE Taken(s, x)
    <3>1. Open(p, u, new) /\ (u.done <=> s.done)
      BY <1>1, <2>1
    <3>2. \A i \in 1..Len(u.queue) : u.queue[i] # "finished"
      BY <1>1, <3>1, OpenHasNoEnd
    <3> QED
      BY <3>1, <3>2 DEF Ends
  <2>2. CASE ~Taken(s, x)
    BY <1>1, <2>2 DEF Ends
  <2> QED
    BY <2>1, <2>2
<1>4. CASE t = u
  BY <1>1, <1>3, <1>4 DEF t, new, sent, GivenOK
<1>5. CASE Taken(s, x) /\ t = CheckQueue(u)
  <2>1. /\ NodeOK(p, t) /\ SenderOK(p, t, new) /\ Keeps(u, t)
        /\ Open(p, u, new) => Open(p, t, new) /\ t.done = u.done
        /\ Ends(t) => Ends(u)
    BY <1>1, <1>5, CheckQueueWorks
  <2>2. /\ t.lastSent = s.lastSent /\ t.lastReceived = s.lastReceived /\ t.expected = u.expected
        /\ t.inTransaction => t.running
        /\ s.exists => t.exists
        /\ Orderly(p, t, new)
    BY <1>1, <2>1 DEF Keeps, Orderly
  <2>3. p = "provisionee" => t.done = u.done
    BY <1>1, <2>1 DEF Orderly
  <2> QED
    BY <1>1, <1>3, <1>5, <2>1, <2>2, <2>3 DEF t, new, sent, GivenOK
<1> QED
  BY <1>2, <1>4, <1>5

\* Node p is given the next packet of the other, once it is whole.
PassesNext(p, s, x, out) ==
  /\ PassUp(p, s, x, out)
  /\ ~node[p].running /\ NodeOK(p, s) /\ ~s.inTransaction /\ ~s.running
  /\ s.lastSent = node[p].lastSent /\ s.queue = node[p].queue
  /\ s.expected = node[p].expected /\ s.done = node[p].done
  /\ node[p].exists /\ s.exists
  /\ s.lastReceived = NextNumber(p) /\ x = NextPacket(p) /\ x \in Packets
  /\ Len(passed[p]) < Len(submitted[Other(p)]) /\ out = Ack(NextNumber(p))

LEMMA PassesGiven ==
  ASSUME ProvisioningAssumption, Links, NEW p \in Peers, NEW s, NEW x, NEW out,
         PassesNext(p, s, x, out)
  PROVE  GivenOK(p, s, submitted[p], x)
<1>1. /\ NodeOK(p, s) /\ ~s.inTransaction /\ ~s.running /\ ~node[p].running
      /\ s.lastSent = node[p].lastSent /\ s.queue = node[p].queue
      /\ s.expected = node[p].expected /\ x \in Packets
  BY DEF PassesNext
<1>2. /\ SenderOK(p, node[p], submitted[p]) /\ Orderly(p, node[p], submitted[p])
      /\ NodeOK(p, node[p]) /\ submitted[p] \in Seq(Packets)
  BY Own
<1>3. SenderOK(p, s, submitted[p]) /\ Orderly(p, s, submitted[p])
  BY <1>1, <1>2 DEF SenderOK, Orderly, Open, Started
<1> QED
  BY <1>1, <1>2, <1>3, GivenWorks

LEMMA PassUpWorks ==
  ASSUME ProvisioningAssumption, Links, NEW p \in Peers, NEW s, NEW x, NEW out,
         PassesNext(p, s, x, out)
  PROVE  Links'
<1>0. /\ PassUp(p, s, x, out)
      /\ ~node[p].running /\ NodeOK(p, s) /\ ~s.inTransaction /\ ~s.running
      /\ s.lastSent = node[p].lastSent /\ s.queue = node[p].queue /\ s.expected = node[p].expected
      /\ s.lastReceived = NextNumber(p) /\ x = NextPacket(p) /\ x \in Packets
      /\ Len(passed[p]) < Len(submitted[Other(p)]) /\ out = Ack(NextNumber(p))
      /\ s.exists
  BY DEF PassesNext
<1> DEFINE sent == PacketsOf(p, s, x)
           new == submitted[p] \o sent
           t == Given(p, s, x)
           close == IF t.done /\ p = "provisioner" THEN {Pdu("close", 0)} ELSE {}
           sub == submitted[p]
<1>1. /\ sub \in Seq(Packets) /\ passed[p] \in Seq(Packets) /\ Other(p) \in Peers
      /\ Other(Other(p)) = p /\ Other(p) # p
  BY Own
<1>2. /\ NodeOK(p, t) /\ new \in Seq(Packets) /\ SenderOK(p, t, new) /\ Orderly(p, t, new)
      /\ t.lastSent = s.lastSent /\ t.lastReceived = s.lastReceived
      /\ t.inTransaction => t.running
      /\ Len(sub) <= MaxSubmitted(p, s.expected, "idle") =>
           Len(new) <= MaxSubmitted(p, t.expected, "idle")
      /\ sent \in Seq(Packets)
      /\ t.expected = IF Taken(s, x) THEN On(p, x).expected ELSE s.expected
      /\ ~Taken(s, x) => t.queue = s.queue /\ t.running = s.running /\ sent = <<>>
      /\ s.exists => t.exists
  <2>1. GivenOK(p, s, sub, x)
    BY PassesGiven
  <2> QED
    BY <2>1 DEF GivenOK
<1>3. /\ node' = [node EXCEPT ![p] = t]
      /\ air' = [air EXCEPT ![Other(p)] = air[Other(p)] \cup (out \cup close)]
      /\ passed' = [passed EXCEPT ![p] = Append(passed[p], x)]
      /\ submitted' = [submitted EXCEPT ![p] = new]
      /\ auth' = auth \/ auth' = [auth EXCEPT ![p] = "shown"]
      /\ UNCHANGED <<method, thread, user>>
  BY <1>0 DEF PassUp, Given, Taken
<1> HIDE DEF t, new, sent
<1>4. \A m \in out \cup close : m = Pdu("ack", NextNumber(p)) \/ m = Pdu("close", 0)
  BY <1>0 DEF Ack
<1> HIDE DEF close
<1>5. /\ Append(passed[p], x) \in Seq(Packets) /\ Len(Append(passed[p], x)) = Len(passed[p]) + 1
      /\ Len(passed[p]) \in Nat
  BY <1>0, <1>1, AppendProperties, LenProperties
<1>6. /\ Len(new) = Len(sub) + Len(sent) /\ Len(sub) \in Nat /\ Len(sent) \in Nat
      /\ \A i \in 1..Len(sub) : new[i] = sub[i]
  <2>1. Len(sub) \in Nat /\ Len(sent) \in Nat
    BY <1>1, <1>2, LenProperties
  <2> QED
    BY <1>1, <1>2, <2>1, ConcatProperties DEF new
<1>7. Types'
  BY <1>2, <1>3, <1>5 DEF Types, Links
<1>8. /\ node'[p] = t /\ node'[Other(p)] = node[Other(p)]
      /\ air'[Other(p)] = air[Other(p)] \cup (out \cup close) /\ air'[p] = air[p]
      /\ passed'[p] = Append(passed[p], x) /\ passed'[Other(p)] = passed[Other(p)]
      /\ submitted'[p] = new /\ submitted'[Other(p)] = submitted[Other(p)]
  BY <1>1, <1>3 DEF Links, Types
<1>9. OtherRests(p)
  BY <1>3, <1>8 DEF OtherRests
<1>10. Advances(p)
  <2>1. node'[p].lastSent = node[p].lastSent /\ ~node[p].running
    BY <1>0, <1>2, <1>8
  <2> QED
    BY <1>5, <1>6, <1>8, <2>1 DEF Advances
<1>11. NodeOK(p, node'[p]) /\ SenderOK(p, node'[p], submitted'[p])
  BY <1>2, <1>8
<1>12. PhaseOK(p)'
  <2>1. PhaseOK(p) /\ user[p] \in {"idle", "queueing", "sending", "expecting"}
    BY DEF Links, PeerOK, Types
  <2>2. CASE Taken(s, x)
    <3>1. user[p] = "idle"
      BY <1>0, <2>1, <2>2 DEF PhaseOK, Taken, Packets
    <3>2. Len(new) <= MaxSubmitted(p, t.expected, "idle")
      BY <1>0, <1>2, <2>1, <3>1 DEF PhaseOK
    <3> QED
      BY <1>0, <1>2, <1>3, <1>8, <3>1, <3>2 DEF PhaseOK
  <2>3. CASE ~Taken(s, x)
    <3>1. new = sub /\ t.expected = node[p].expected /\ t.queue = node[p].queue /\ ~t.running
      <4>1. sent = <<>> /\ ~t.running
        BY <1>0, <1>2, <2>3
      <4> QED
        BY <1>0, <1>1, <1>2, <2>3, <4>1, ConcatEmptySeq DEF new
    <3> QED
      BY <1>0, <1>2, <1>3, <1>8, <2>1, <3>1 DEF PhaseOK
  <2> QED
    BY <2>2, <2>3
<1>13. NextNumber(p)' = NextNumber(p) + 1 /\ NextNumber(p) \in Nat
       /\ NextNumber(p) = Base(Other(p)) + Len(passed[p])
  BY <1>5, <1>8, BaseType DEF NextNumber
<1>14. ReceiverOK(p)'
  <2>1. /\ Len(submitted[Other(p)]) \in Nat /\ node[Other(p)].lastSent \in Int
        /\ node[Other(p)].lastSent < NextNumber(p)
    BY <1>1, Numbers
  <2>2. Len(passed'[p]) <= Len(submitted'[Other(p)]) /\ Len(passed'[p]) # 0
    BY <1>0, <1>5, <1>8, <2>1
  <2>3. node'[Other(p)].lastSent < NextNumber(p)'
    BY <1>8, <1>13, <2>1
  <2>4. node'[p].lastReceived = NextNumber(p)' - 1
    BY <1>0, <1>2, <1>8, <1>13
  <2> QED
    BY <1>2, <1>8, <2>2, <2>3, <2>4 DEF ReceiverOK
<1>15. ThreadOK(p, thread[p])'
  <2>1. \A n : InProgress(p, n) => InProgress(p, n)'
    BY <1>7, <1>10, <1>11, InProgressKept
  <2> QED
    BY <1>3, <2>1 DEF ThreadOK, Links, PeerOK
<1>16. \A m \in air'[Other(p)] \ air[Other(p)] : PduOK(Other(p), m)'
  <2> SUFFICES ASSUME NEW m \in air'[Other(p)] \ air[Other(p)] PROVE PduOK(Other(p), m)'
    OBVIOUS
  <2>1. m = Pdu("ack", NextNumber(p)) \/ m = Pdu("close", 0)
    BY <1>4, <1>8
  <2>2. NextNumber(Other(Other(p)))' = NextNumber(p) + 1
    BY <1>1, <1>13
  <2>3. CASE m = Pdu("ack", NextNumber(p))
    <3>1. m.kind = "ack" /\ m.number = NextNumber(p)
      BY <2>3 DEF Pdu
    <3>2. ~CarriesPacket(m) /\ m.kind # "start"
      BY <3>1 DEF CarriesPacket
    <3>3. m.number \in Int /\ Base(Other(p)) <= m.number /\ m.number < NextNumber(p) + 1
      BY <1>5, <1>13, <3>1, BaseType
    <3> QED
      BY <2>2, <3>2, <3>3 DEF PduOK
  <2>4. CASE m = Pdu("close", 0)
    <3>1. m.kind = "close" /\ ~CarriesPacket(m)
      BY <2>4 DEF Pdu, CarriesPacket
    <3> QED
      BY <3>1 DEF PduOK
  <2> QED
    BY <2>1, <2>3, <2>4
<1> QED
  BY <1>7, <1>9, <1>10, <1>11, <1>12, <1>14, <1>15, <1>16, StepLemma

\* A step of the receiving thread that passes nothing up.
Quiet(p, s, out) ==
  /\ Become(p, s, out)
  /\ s.expected = node[p].expected
  /\ Ends(s) => Ends(node[p])
  /\ p = "provisionee" => (s.done <=> node[p].done)

LEMMA StartWorks ==
  ASSUME ProvisioningAssumption, Links, NEW p \in Peers, NEW m \in air[p], OnStart(p, m)
  PROVE  \/ \E s, x, out : PassesNext(p, s, x, out)
         \/ Links' /\ \E s, out : Quiet(p, s, out)
<1> DEFINE c == [role |-> "receiving", number |-> m.number, parts |-> <<m.part>>,
                 last |-> m.last, fcs |-> m.fcs]
           s == [node[p] EXCEPT !.inTransaction = TRUE, !.current = c]
           r == Received(s, m)
<1>1. /\ m.kind = "start" /\ CarriesPacket(m) /\ m.number > node[p].lastReceived
      /\ ~node[p].inTransaction /\ node[p].exists
      /\ \/ m.last = 0 /\ PassUp(p, r, m.part, Ack(m.number))
         \/ m.last # 0 /\ Become(p, s, {})
  BY DEF OnStart, CarriesPacket, Hears
<1>2. /\ m.number = NextNumber(p) /\ m.number \in Nat
      /\ m.part = NextPacket(p) /\ NextPacket(p) \in Packets
      /\ Fragments[NextPacket(p)] \in Nat \ {0}
      /\ Len(passed[p]) < Len(submitted[Other(p)])
      /\ m.fcs = NextPacket(p) /\ m.last = Fragments[NextPacket(p)] - 1
  BY <1>1, NextPdu
<1>3. ~node[p].running
  BY <1>1, Receptive
<1> DEFINE parts == <<m.part>>
<1>4. /\ parts \in Seq(Packets) /\ Len(parts) = 1
      /\ \A i \in 1..Len(parts) : parts[i] = NextPacket(p)
  BY <1>2
<1>5. /\ DOMAIN c = {"role", "number", "parts", "last", "fcs"} /\ c.role = "receiving"
      /\ c.number = m.number /\ c.parts = parts /\ c.last = m.last /\ c.fcs = m.fcs
  OBVIOUS
<1> HIDE DEF parts, c
<1>6. TransactionOK(c) /\ c.last \in Int /\ (c.last # 0 => Len(c.parts) <= c.last)
  <2>1. \A n \in Nat \ {0} : n - 1 \in Int /\ 1 <= n - 1 + 1 /\ (n - 1 # 0 => 1 <= n - 1)
    OBVIOUS
  <2>2. /\ m.last \in Int /\ 1 <= m.last + 1 /\ (m.last # 0 => 1 <= m.last)
    BY <1>2, <2>1
  <2>3. Len(c.parts) = 1
    BY <1>4, <1>5
  <2> QED
    <3>1. c.parts \in Seq(Packets) /\ c.number \in Int
      BY <1>2, <1>4, <1>5
    <3>2. c.last \in Int /\ Len(c.parts) <= c.last + 1 /\ (c.last # 0 => Len(c.parts) <= c.last)
      BY <1>5, <2>2, <2>3
    <3> QED
      BY <1>5, <3>1, <3>2 DEF TransactionOK
<1>7. /\ DOMAIN s = Fields
      /\ s.exists = node[p].exists
      /\ s.inTransaction = TRUE /\ s.current = c
      /\ s.running = node[p].running /\ s.lastSent = node[p].lastSent
      /\ s.lastReceived = node[p].lastReceived /\ s.queue = node[p].queue
      /\ s.expected = node[p].expected /\ s.done = node[p].done
  BY Own DEF NodeOK, Fields
<1> HIDE DEF s
<1>8. CASE m.last = 0 /\ PassUp(p, r, m.part, Ack(m.number))
  <2>1. /\ DOMAIN r = Fields
        /\ r.exists = s.exists
        /\ r.inTransaction = FALSE /\ r.current = c
        /\ r.running = node[p].running /\ r.lastSent = node[p].lastSent
        /\ r.lastReceived = m.number /\ r.queue = node[p].queue
        /\ r.expected = node[p].expected /\ r.done = node[p].done
    BY <1>7 DEF Received, Fields
  <2> HIDE DEF r
  <2>2. NodeOK(p, r)
    BY <1>2, <1>6, <2>1, Own DEF NodeOK
  <2>3. PassesNext(p, r, m.part, Ack(m.number))
    BY <1>1, <1>2, <1>3, <1>7, <1>8, <2>1, <2>2 DEF PassesNext
  <2> QED
    BY <2>3
<1>9. CASE m.last # 0 /\ Become(p, s, {})
  <2>1. Receiving(p, c)
    <3>1. 1 <= Len(c.parts) /\ Len(c.parts) <= c.last
      <4>1. c.last # 0 /\ Len(c.parts) = 1
        BY <1>4, <1>5, <1>9
      <4> QED
        BY <1>6, <4>1
    <3> QED
      BY <1>2, <1>4, <1>5, <3>1 DEF Receiving
  <2>2. Links'
    BY <1>3, <1>6, <1>7, <1>9, <2>1, TransactionWorks
  <2>3. Quiet(p, s, {})
    BY <1>7, <1>9 DEF Quiet, Ends
  <2> QED
    BY <2>2, <2>3
<1> QED
  BY <1>1, <1>8, <1>9

LEMMA ContinuationWorks ==
  ASSUME ProvisioningAssumption, Links, NEW p \in Peers, NEW m \in air[p], OnContinuation(p, m)
  PROVE  \/ \E s, x, out : PassesNext(p, s, x, out)
         \/ Links' /\ \E s, out : Quiet(p, s, out)
<1> DEFINE s == [node[p] EXCEPT !.current.parts = Append(@, m.part)]
           old == node[p].current
           have == Len(old.parts)
           dropped == [node[p] EXCEPT !.current = NoTransaction, !.inTransaction = FALSE]
           wrong == [s EXCEPT !.deaf = TRUE]
           r == Received(s, m)
           x == s.current.fcs
           whole == \A i \in 1..Len(s.current.parts) : s.current.parts[i] = s.current.fcs
<1>1. /\ CarriesPacket(m) /\ m.number > node[p].lastReceived
      /\ node[p].inTransaction /\ old.number = m.number /\ node[p].exists
      /\ \/ Become(p, dropped, {})
         \/ have < old.last /\ Become(p, s, {})
         \/ have = old.last /\ whole /\ PassUp(p, r, x, Ack(m.number))
         \/ ~whole /\ Become(p, wrong, {})
  BY DEF OnContinuation, CarriesPacket, Hears
<1>2. /\ m.number = NextNumber(p) /\ m.number \in Nat
      /\ m.part = NextPacket(p) /\ NextPacket(p) \in Packets
      /\ Fragments[NextPacket(p)] \in Nat \ {0}
      /\ Len(passed[p]) < Len(submitted[Other(p)])
  BY <1>1, NextPdu
<1>3. ~node[p].running
  BY <1>1, Receptive
<1>4. Receiving(p, old) /\ TransactionOK(old)
  BY <1>1, <1>3, Own DEF NodeOK
<1> DEFINE parts == Append(old.parts, m.part)
           c == [old EXCEPT !.parts = parts]
<1>5. /\ parts \in Seq(Packets) /\ Len(parts) = have + 1 /\ have \in Nat /\ have >= 1
      /\ \A i \in 1..Len(parts) : parts[i] = NextPacket(p)
  <2>1. /\ old.parts \in Seq(Packets) /\ 1 <= have
        /\ \A i \in 1..have : old.parts[i] = NextPacket(p)
    BY <1>4 DEF Receiving, TransactionOK
  <2>2. /\ parts \in Seq(Packets) /\ Len(parts) = have + 1 /\ have \in Nat
        /\ \A i \in 1..have : parts[i] = old.parts[i]
        /\ parts[have + 1] = m.part
    BY <1>2, <2>1, AppendProperties, LenProperties
  <2> HIDE DEF parts, have
  <2>3. \A i \in 1..have + 1 : i \in 1..have \/ i = have + 1
    BY <2>2
  <2> QED
    BY <1>2, <2>1, <2>2, <2>3
<1> HIDE DEF parts
<1>6. /\ DOMAIN c = {"role", "number", "parts", "last", "fcs"} /\ c.role = old.role
      /\ c.number = old.number /\ c.parts = parts /\ c.last = old.last /\ c.fcs = old.fcs
  BY <1>4 DEF TransactionOK
<1>7. s = [node[p] EXCEPT !.current = c]
  BY Own DEF parts, NodeOK, Fields
<1> HIDE DEF s, c
<1>8. /\ DOMAIN s = Fields
      /\ s.exists = node[p].exists
      /\ s.inTransaction = node[p].inTransaction /\ s.current = c
      /\ s.running = node[p].running /\ s.lastSent = node[p].lastSent
      /\ s.lastReceived = node[p].lastReceived /\ s.queue = node[p].queue
      /\ s.expected = node[p].expected /\ s.done = node[p].done
  BY <1>7, Own DEF NodeOK, Fields
<1>9. /\ old.fcs = NextPacket(p) /\ old.last = Fragments[NextPacket(p)] - 1 /\ have <= old.last
      /\ old.number = NextNumber(p) /\ old.role \in {"none", "sending", "receiving"}
  BY <1>4 DEF Receiving, TransactionOK
<1>10. whole /\ TransactionOK(c)
  <2>1. whole
    BY <1>5, <1>6, <1>8, <1>9
  <2>2. Len(c.parts) <= c.last + 1 /\ c.number \in Int /\ c.last \in Int
    <3>1. \A n \in Nat \ {0} : n - 1 \in Int
      OBVIOUS
    <3>2. old.last \in Int
      BY <1>2, <1>9, <3>1
    <3>3. Len(c.parts) = have + 1
      BY <1>5, <1>6
    <3> HIDE DEF have
    <3> QED
      BY <1>2, <1>5, <1>6, <1>9, <3>2, <3>3
  <2> QED
    BY <1>5, <1>6, <1>9, <2>1, <2>2 DEF TransactionOK
<1>11. CASE Become(p, dropped, {})
  <2>1. /\ DOMAIN dropped = Fields
        /\ dropped.exists = node[p].exists
        /\ dropped.inTransaction = FALSE
        /\ dropped.current = NoTransaction
        /\ dropped.running = node[p].running /\ dropped.lastSent = node[p].lastSent
        /\ dropped.lastReceived = node[p].lastReceived /\ dropped.queue = node[p].queue
        /\ dropped.expected = node[p].expected /\ dropped.done = node[p].done
    BY Own DEF NodeOK, Fields
  <2>2. TransactionOK(NoTransaction)
    BY EmptySeq DEF TransactionOK, NoTransaction
  <2> HIDE DEF dropped
  <2>3. Links'
    BY <1>3, <1>11, <2>1, <2>2, TransactionWorks
  <2>4. Quiet(p, dropped, {})
    BY <1>11, <2>1 DEF Quiet, Ends
  <2> QED
    BY <2>3, <2>4
<1>12. CASE have < old.last /\ Become(p, s, {})
  <2>1. Receiving(p, c)
    <3>1. 1 <= Len(c.parts) /\ Len(c.parts) <= c.last
      <4>1. Len(c.parts) = have + 1 /\ c.last = old.last
        BY <1>5, <1>6
      <4>2. have \in Nat /\ have < old.last /\ old.last \in Int
        BY <1>4, <1>5, <1>12 DEF TransactionOK
      <4>3. \A i \in Nat, j \in Int : i < j => 1 <= i + 1 /\ i + 1 <= j
        OBVIOUS
      <4> HIDE DEF have
      <4> QED
        BY <4>1, <4>2, <4>3
    <3> QED
      BY <1>2, <1>5, <1>6, <1>9, <3>1 DEF Receiving
  <2>2. Links'
    BY <1>3, <1>8, <1>10, <1>12, <2>1, TransactionWorks
  <2>3. Quiet(p, s, {})
    BY <1>8, <1>12 DEF Quiet, Ends
  <2> QED
    BY <2>2, <2>3
<1>13. CASE have = old.last /\ whole /\ PassUp(p, r, x, Ack(m.number))
  <2>1. /\ DOMAIN r = Fields
        /\ r.exists = s.exists
        /\ r.inTransaction = FALSE /\ r.current = c
        /\ r.running = node[p].running /\ r.lastSent = node[p].lastSent
        /\ r.lastReceived = m.number /\ r.queue = node[p].queue
        /\ r.expected = node[p].expected /\ r.done = node[p].done
    BY <1>8 DEF Received, Fields
  <2> HIDE DEF r
  <2>2. NodeOK(p, r)
    BY <1>2, <1>10, <2>1, Own DEF NodeOK
  <2>3. x = NextPacket(p)
    BY <1>6, <1>8, <1>9
  <2> HIDE DEF x
  <2>4. PassesNext(p, r, x, Ack(m.number))
    BY <1>1, <1>2, <1>3, <1>8, <1>13, <2>1, <2>2, <2>3 DEF PassesNext
  <2> QED
    BY <2>4
<1> HIDE DEF old, have, dropped, wrong, r, x, whole
<1> QED
  BY <1>1, <1>10, <1>11, <1>12, <1>13

LEMMA LinkPdusQuiet ==
  ASSUME ProvisioningAssumption, Links, NEW p \in Peers, NEW m \in air[p],
         OnLinkOpen(p, m) \/ OnLinkAck(p, m) \/ OnFinished(p, m) \/ OnAck(p, m)
  PROVE  \E s, out : Quiet(p, s, out)
<1>1. CASE OnLinkOpen(p, m)
  <2> DEFINE s == [node[p] EXCEPT !.exists = TRUE, !.linkOpen = TRUE]
             out == {Pdu("link_ack", 0)}
  <2>1. Become(p, s, out)
    BY <1>1 DEF OnLinkOpen
  <2>2. s.queue = node[p].queue /\ s.expected = node[p].expected /\ s.done = node[p].done
    BY Own DEF NodeOK, Fields
  <2> HIDE DEF s, out
  <2>3. Quiet(p, s, out)
    BY <2>1, <2>2 DEF Quiet, Ends
  <2> QED
    BY <2>3
<1>2. CASE OnLinkAck(p, m)
  <2> DEFINE r == [node[p] EXCEPT !.linkOpen = TRUE, !.opening = FALSE]
             s == CheckQueue(r)
  <2>1. Become(p, s, {})
    BY <1>2 DEF OnLinkAck
  <2>2. /\ DOMAIN r = Fields /\ r.inTransaction = node[p].inTransaction
        /\ r.running = node[p].running /\ r.current = node[p].current
        /\ r.lastSent = node[p].lastSent /\ r.lastReceived = node[p].lastReceived
        /\ r.queue = node[p].queue /\ r.expected = node[p].expected /\ r.done = node[p].done
    BY Own DEF NodeOK, Fields
  <2> HIDE DEF r
  <2>3. NodeOK(p, r) /\ SenderOK(p, r, submitted[p]) /\ Orderly(p, r, submitted[p])
    BY <2>2, Own DEF NodeOK, SenderOK, Orderly, Open, Started
  <2>4. /\ Keeps(r, s) /\ (Ends(s) => Ends(r))
        /\ Open(p, r, submitted[p]) => s.done = r.done
    BY <2>3, Own, CheckQueueWorks
  <2> HIDE DEF s
  <2>5. Quiet(p, s, {})
    BY <2>1, <2>2, <2>3, <2>4 DEF Quiet, Keeps, Ends, Orderly
  <2> QED
    BY <2>5
<1>3. CASE OnFinished(p, m)
  <2>1. Quiet(p, node[p], Ack(m.number))
    BY <1>3 DEF OnFinished, Quiet
  <2> QED
    BY <2>1
<1>4. CASE OnAck(p, m)
  <2> DEFINE r == [node[p] EXCEPT !.running = FALSE, !.inTransaction = FALSE, !.lastSent = @ + 1]
             s == CheckQueue(r)
  <2>1. Become(p, s, {})
    BY <1>4 DEF OnAck
  <2>2. node[p].running
    BY <1>4, AckIsOfSending
  <2>3. /\ DOMAIN r = Fields /\ ~r.inTransaction /\ ~r.running /\ r.current = node[p].current
        /\ r.lastSent = node[p].lastSent + 1 /\ r.lastReceived = node[p].lastReceived
        /\ r.queue = node[p].queue /\ r.expected = node[p].expected /\ r.done = node[p].done
    BY Own DEF NodeOK, Fields
  <2> HIDE DEF r
  <2>4. Started(p, r) = Started(p, node[p]) /\ r.lastSent \in Int /\ r.lastSent >= Base(p) - 1
    BY <2>2, <2>3, Own, BaseType DEF Started, NodeOK, SenderOK
  <2>5. NodeOK(p, r) /\ SenderOK(p, r, submitted[p]) /\ Orderly(p, r, submitted[p])
    BY <2>3, <2>4, Own DEF NodeOK, SenderOK, Orderly, Open
  <2>6. /\ Keeps(r, s) /\ (Ends(s) => Ends(r))
        /\ Open(p, r, submitted[p]) => s.done = r.done
    BY <2>5, Own, CheckQueueWorks
  <2> HIDE DEF s
  <2>7. Quiet(p, s, {})
    BY <2>1, <2>3, <2>5, <2>6 DEF Quiet, Keeps, Ends, Orderly
  <2> QED
    BY <2>7
<1> QED
  BY <1>1, <1>2, <1>3, <1>4

LEMMA ReceiveWorks ==
  ASSUME ProvisioningAssumption, Links, NEW p \in Peers, Receive(p)
  PROVE  /\ Links'
         /\ (\E s, x, out : PassesNext(p, s, x, out)) \/ (\E s, out : Quiet(p, s, out))
<1>1. PICK m \in air[p] : Deliver(p, m)
  BY DEF Receive
<1>2. CASE OnStart(p, m) \/ OnContinuation(p, m)
  <2>1. \/ \E s, x, out : PassesNext(p, s, x, out)
        \/ Links' /\ \E s, out : Quiet(p, s, out)
    BY <1>2, StartWorks, ContinuationWorks
  <2> QED
    BY <2>1, PassUpWorks
<1>3. CASE OnLinkOpen(p, m) \/ OnLinkAck(p, m) \/ OnFinished(p, m) \/ OnAck(p, m)
  BY <1>3, LinkPdusWork, OnAckWorks, LinkPdusQuiet
<1> QED
  BY <1>1, <1>2, <1>3 DEF Deliver

-----------------------------------------------------------------------------
(* The user threads.                                                       *)

\* A step that changes the node of p, and where its user is, and submits at
\* most a packet.
UserStep(p, s, u, new) ==
  /\ UNCHANGED <<method, thread, air, passed>> /\ auth' \in [Peers -> {"none", "shown", "other"}]
  /\ DOMAIN node' = Peers /\ node'[p] = s /\ node'[Other(p)] = node[Other(p)]
  /\ user' = [user EXCEPT ![p] = u] /\ submitted' = [submitted EXCEPT ![p] = new]
  /\ u \in {"idle", "queueing", "sending", "expecting"} /\ new \in Seq(Packets)
  /\ Len(submitted[p]) <= Len(new) /\ \A i \in 1..Len(submitted[p]) : new[i] = submitted[p][i]
  /\ NodeOK(p, s) /\ SenderOK(p, s, new) /\ Orderly(p, s, new)
  /\ s.lastSent = node[p].lastSent /\ s.lastReceived = node[p].lastReceived
  /\ node[p].running => s.running
  /\ s.inTransaction /\ ~s.running => Receiving(p, s.current)
  /\ p = "provisioner" => s.exists
  /\ Len(new) <= MaxSubmitted(p, s.expected, u)
  /\ u # "idle" => s.expected = "auth" \/ (p = "provisioner" /\ s.expected = "none")
  /\ u = "sending" => s.queue = <<>> /\ ~s.running

LEMMA UserStepWorks ==
  ASSUME Links, NEW p \in Peers, NEW s, NEW u, NEW new, UserStep(p, s, u, new)
  PROVE  Links'
<1> USE DEF UserStep
<1>1. Other(p) \in Peers /\ Other(p) # p
  BY TwoPeers
<1>2. Types'
  BY DEF Types, Links
<1>3. /\ node'[p] = s /\ node'[Other(p)] = node[Other(p)]
      /\ user'[p] = u /\ user'[Other(p)] = user[Other(p)]
      /\ submitted'[p] = new /\ submitted'[Other(p)] = submitted[Other(p)]
  BY <1>1 DEF Links, Types
<1>4. OtherRests(p)
  BY <1>3 DEF OtherRests
<1>5. Len(submitted[p]) \in Nat /\ Len(passed[p]) \in Nat
  BY LenProperties DEF Links, Types
<1>6. Advances(p)
  BY <1>3, <1>5 DEF Advances
<1>7. NodeOK(p, node'[p]) /\ SenderOK(p, node'[p], submitted'[p])
  BY <1>3
<1>8. PhaseOK(p)'
  BY <1>3 DEF PhaseOK
<1>9. ReceiverOK(p)'
  <2>1. /\ NextNumber(p)' = NextNumber(p) /\ NextPacket(p)' = NextPacket(p)
        /\ passed'[p] = passed[p]
    BY <1>3 DEF NextNumber, NextPacket
  <2>2. s.inTransaction /\ ~s.running => Receiving(p, s.current)'
    BY <1>3, <2>1 DEF Receiving
  <2> QED
    BY <1>3, <2>1, <2>2 DEF ReceiverOK, Links, PeerOK
<1>10. ThreadOK(p, thread[p])'
  <2>1. \A n : InProgress(p, n) => InProgress(p, n)'
    BY <1>2, <1>6, <1>7, InProgressKept
  <2> QED
    BY <2>1 DEF ThreadOK, Links, PeerOK
<1>11. \A m \in air'[Other(p)] \ air[Other(p)] : PduOK(Other(p), m)'
  OBVIOUS
<1> QED
  BY <1>2, <1>4, <1>6, <1>7, <1>8, <1>9, <1>10, <1>11, StepLemma

LEMMA Typing ==
  ASSUME Links, NEW p \in Peers, user[p] # "idle" \/ node[p].expected = "auth"
  PROVE  /\ p = "provisioner" => node[p].exists
         /\ node[p].expected = "auth" \/ (p = "provisioner" /\ node[p].expected = "none")
         /\ Open(p, node[p], submitted[p])
         /\ Len(submitted[p]) <= MaxSubmitted(p, node[p].expected, user[p])
  BY DEF Links, PeerOK, PhaseOK, Orderly

LEMMA Phases ==
  /\ MaxSubmitted("provisioner", "none", "queueing") = 0
  /\ MaxSubmitted("provisioner", "none", "sending") = 0
  /\ MaxSubmitted("provisioner", "none", "expecting") = 1
  /\ MaxSubmitted("provisioner", "auth", "queueing") = 3
  /\ MaxSubmitted("provisioner", "auth", "sending") = 3
  /\ MaxSubmitted("provisioner", "auth", "expecting") = 4
  /\ MaxSubmitted("provisionee", "auth", "queueing") = 2
  /\ MaxSubmitted("provisionee", "auth", "sending") = 2
  /\ MaxSubmitted("provisionee", "auth", "expecting") = 3
  BY DEF MaxSubmitted

\* Where a user may type, one more packet may be submitted.
LEMMA OneMore ==
  ASSUME NEW p \in Peers, NEW x, x = "auth" \/ (p = "provisioner" /\ x = "none"),
         NEW u \in {"queueing", "sending"}
  PROVE  MaxSubmitted(p, x, u) \in Nat /\ MaxSubmitted(p, x, "expecting") = MaxSubmitted(p, x, u) + 1
<1>1. CASE p = "provisioner" /\ x = "none"
  BY <1>1, Phases
<1>2. CASE p = "provisioner" /\ x = "auth"
  BY <1>2, Phases
<1>3. CASE p = "provisionee" /\ x = "auth"
  BY <1>3, Phases
<1> QED
  BY <1>1, <1>2, <1>3 DEF Peers

LEMMA BeginWorks ==
  ASSUME Links, Begin
  PROVE  Links'
<1> DEFINE p == "provisioner"
           s == [node[p] EXCEPT !.exists = TRUE, !.opening = TRUE]
<1>1. p \in Peers
  BY DEF Peers
<1>2. /\ user[p] = "idle" /\ ~node[p].exists
      /\ node' = [node EXCEPT ![p] = s] /\ user' = [user EXCEPT ![p] = "queueing"]
      /\ UNCHANGED <<method, thread, auth, air, submitted, passed>>
  BY DEF Begin, UserGoes, Links, Types
<1> HIDE DEF p
<1>3. /\ DOMAIN s = Fields /\ s.exists = TRUE /\ s.inTransaction = node[p].inTransaction
      /\ s.running = node[p].running /\ s.current = node[p].current
      /\ s.lastSent = node[p].lastSent /\ s.lastReceived = node[p].lastReceived
      /\ s.queue = node[p].queue /\ s.expected = node[p].expected
  BY <1>1, Own DEF NodeOK, Fields
<1> HIDE DEF s
<1>4. NodeOK(p, s) /\ SenderOK(p, s, submitted[p]) /\ Orderly(p, s, submitted[p])
  BY <1>1, <1>3, Own DEF NodeOK, SenderOK, Orderly, Open, Started
<1>5. node[p].expected = "none" /\ Len(submitted[p]) <= MaxSubmitted(p, "none", "queueing")
  <2>1. node[p].expected = "none" /\ Len(submitted[p]) <= MaxSubmitted(p, "none", "idle")
    BY <1>1, <1>2 DEF Links, PeerOK, PhaseOK, p
  <2> QED
    BY <2>1, Idle, Phases DEF p
<1>6. submitted' = [submitted EXCEPT ![p] = submitted[p]] /\ submitted[p] \in Seq(Packets)
  BY <1>1, <1>2 DEF Links, Types
<1>7. DOMAIN node' = Peers /\ node'[p] = s /\ node'[Other(p)] = node[Other(p)]
  BY <1>1, <1>2, TwoPeers DEF Links, Types
<1>8. auth' \in [Peers -> {"none", "shown", "other"}] /\ Len(submitted[p]) \in Nat
  BY <1>2, <1>6, LenProperties DEF Links, Types
<1>9. s.inTransaction /\ ~s.running => Receiving(p, s.current)
  BY <1>1, <1>3, Own
<1>10. p = "provisioner"
  BY DEF p
<1>11. UserStep(p, s, "queueing", submitted[p])
  <2>1. /\ UNCHANGED <<method, thread, air, passed>> /\ auth' \in [Peers -> {"none", "shown", "other"}]
        /\ DOMAIN node' = Peers /\ node'[p] = s /\ node'[Other(p)] = node[Other(p)]
        /\ user' = [user EXCEPT ![p] = "queueing"] /\ submitted' = [submitted EXCEPT ![p] = submitted[p]]
    BY <1>1, <1>2, <1>3, <1>4, <1>5, <1>6, <1>7, <1>8, <1>9, <1>10
  <2>2. Len(submitted[p]) <= Len(submitted[p]) /\ \A i \in 1..Len(submitted[p]) : submitted[p][i] = submitted[p][i]
    BY <1>1, <1>2, <1>3, <1>4, <1>5, <1>6, <1>7, <1>8, <1>9, <1>10
  <2>3. /\ s.lastSent = node[p].lastSent /\ s.lastReceived = node[p].lastReceived
        /\ node[p].running => s.running
        /\ s.inTransaction /\ ~s.running => Receiving(p, s.current)
        /\ p = "provisioner" => s.exists
        /\ Len(submitted[p]) <= MaxSubmitted(p, s.expected, "queueing")
        /\ "queueing" # "idle" => s.expected = "auth" \/ (p = "provisioner" /\ s.expected = "none")
        /\ "queueing" = "sending" => s.queue = <<>> /\ ~s.running
    BY <1>1, <1>2, <1>3, <1>4, <1>5, <1>6, <1>7, <1>8, <1>9, <1>10, Own
  <2> QED
    BY <1>1, <1>2, <1>3, <1>4, <1>5, <1>6, <1>7, <1>8, <1>9, <1>10, <2>1, <2>2, <2>3, Own DEF UserStep
<1> QED
  BY <1>1, <1>11, UserStepWorks

LEMMA QueueWorks ==
  ASSUME Links, NEW p \in Peers, Queue(p)
  PROVE  Links'
<1> DEFINE x == IF p = "provisioner" /\ passed[p] = <<>> THEN "invite" ELSE Typed(p)
           s == [node[p] EXCEPT !.queue = Append(node[p].queue, x)]
           sub == submitted[p]
           new == Append(sub, x)
<1>1. /\ user[p] = "queueing"
      /\ node' = [node EXCEPT ![p] = s] /\ user' = [user EXCEPT ![p] = "expecting"]
      /\ submitted' = [submitted EXCEPT ![p] = new]
      /\ UNCHANGED <<method, thread, auth, air, passed>>
  BY DEF Queue, UserGoes, Put, Links, Types
<1>2. x \in Packets
  BY DEF Typed, Packets
<1> HIDE DEF x
<1>3. /\ DOMAIN s = Fields /\ s.exists = node[p].exists /\ s.inTransaction = node[p].inTransaction
      /\ s.running = node[p].running /\ s.current = node[p].current
      /\ s.lastSent = node[p].lastSent /\ s.lastReceived = node[p].lastReceived
      /\ s.queue = Append(node[p].queue, x) /\ s.expected = node[p].expected
  BY Own DEF NodeOK, Fields
<1> HIDE DEF s
<1>4. /\ sub \in Seq(Packets) /\ new \in Seq(Packets) /\ Len(new) = Len(sub) + 1 /\ Len(sub) \in Nat
      /\ \A i \in 1..Len(sub) : new[i] = sub[i]
  BY <1>2, Own, AppendProperties, LenProperties
<1>5. /\ p = "provisioner" => node[p].exists
      /\ node[p].expected = "auth" \/ (p = "provisioner" /\ node[p].expected = "none")
      /\ Open(p, node[p], sub) /\ Len(sub) <= MaxSubmitted(p, node[p].expected, "queueing")
  BY <1>1, Typing
<1> DEFINE k == Started(p, node[p])
           queue == node[p].queue
<1>6. /\ queue \in Seq(Queued) /\ Backlog(queue, sub, k) /\ Len(queue) = Len(sub) - k
      /\ k \in Nat /\ k <= Len(sub) /\ x \in Queued
  BY <1>2, <1>5, Own DEF NodeOK, SenderOK, Open, Backlog, Queued
<1>7. Started(p, s) = k
  BY <1>3 DEF Started
<1> HIDE DEF k, queue
<1>8. /\ Backlog(Append(queue, x), new, k) /\ Append(queue, x) \in Seq(Queued)
      /\ Len(Append(queue, x)) = Len(queue) + 1 /\ Len(queue) \in Nat
  <2>1. Backlog(Append(queue, x), new, k)
    BY <1>2, <1>4, <1>6, BacklogAppend
  <2> QED
    BY <1>6, <2>1, AppendProperties, LenProperties
<1>9. node[p].running => k > 0
  BY Own, BaseType DEF k, Started, SenderOK, NodeOK
<1> HIDE DEF new
<1>10. NodeOK(p, s)
  BY <1>3, <1>8, Own DEF NodeOK, queue
<1>11. SenderOK(p, s, new)
  <2>1. node[p].running => new[k] = sub[k]
    BY <1>4, <1>6, <1>9
  <2> QED
    BY <1>3, <1>7, <1>8, <2>1, Own DEF SenderOK, queue, k
<1>12. Orderly(p, s, new)
  BY <1>3, <1>4, <1>6, <1>7, <1>8 DEF Orderly, Open, queue
<1>13. Len(new) <= MaxSubmitted(p, s.expected, "expecting")
  <2> DEFINE before == MaxSubmitted(p, node[p].expected, "queueing")
             after == MaxSubmitted(p, node[p].expected, "expecting")
  <2>1. before \in Nat /\ after = before + 1
    BY <1>5, OneMore
  <2> HIDE DEF before, after
  <2>2. Len(sub) <= before /\ MaxSubmitted(p, s.expected, "expecting") = after
    BY <1>3, <1>5 DEF before, after
  <2> QED
    BY <1>4, <2>1, <2>2
<1>14. DOMAIN node' = Peers /\ node'[p] = s /\ node'[Other(p)] = node[Other(p)]
  BY <1>1, TwoPeers DEF Links, Types
<1>15. auth' \in [Peers -> {"none", "shown", "other"}] /\ Len(sub) <= Len(new)
  BY <1>1, <1>4 DEF Links, Types
<1>16. s.inTransaction /\ ~s.running => Receiving(p, s.current)
  BY <1>3, Own
<1>17. /\ s.lastSent = node[p].lastSent /\ s.lastReceived = node[p].lastReceived
       /\ node[p].running => s.running
       /\ p = "provisioner" => s.exists
       /\ s.expected = "auth" \/ (p = "provisioner" /\ s.expected = "none")
  BY <1>3, <1>5
<1>18. UserStep(p, s, "expecting", new)
  BY <1>1, <1>4, <1>10, <1>11, <1>12, <1>13, <1>14, <1>15, <1>16, <1>17 DEF UserStep
<1> QED
  BY <1>18, UserStepWorks

LEMMA TypeWorks ==
  ASSUME Links, NEW p \in Peers, Type(p)
  PROVE  Links'
<1> DEFINE u == IF Ready(node[p]) THEN "sending" ELSE "queueing"
           sub == submitted[p]
<1>1. /\ user[p] = "idle" /\ node[p].expected = "auth"
      /\ user' = [user EXCEPT ![p] = u]
      /\ UNCHANGED <<method, node, thread, air, submitted, passed>>
  BY DEF Type, UserGoes
<1>2. auth' \in [Peers -> {"none", "shown", "other"}]
  BY DEF Type, Links, Types
<1>3. /\ p = "provisioner" => node[p].exists
      /\ Len(sub) <= MaxSubmitted(p, "auth", "idle")
  BY <1>1, Typing
<1>4. u = "sending" => node[p].queue = <<>> /\ ~node[p].running
  BY Own DEF Ready
<1>5. u \in {"queueing", "sending"}
  OBVIOUS
<1> HIDE DEF u
<1>6. Len(sub) <= MaxSubmitted(p, "auth", u)
  <2>1. CASE p = "provisioner"
    BY <1>3, <1>5, <2>1, Idle, Phases
  <2>2. CASE p = "provisionee"
    BY <1>3, <1>5, <2>2, Idle, Phases
  <2> QED
    BY <2>1, <2>2 DEF Peers
<1>7. /\ DOMAIN node' = Peers /\ node'[p] = node[p] /\ node'[Other(p)] = node[Other(p)]
      /\ submitted' = [submitted EXCEPT ![p] = sub] /\ sub \in Seq(Packets) /\ Len(sub) \in Nat
  BY <1>1, LenProperties DEF Links, Types
<1>8. UserStep(p, node[p], u, sub)
  <2>1. /\ UNCHANGED <<method, thread, air, passed>> /\ auth' \in [Peers -> {"none", "shown", "other"}]
        /\ DOMAIN node' = Peers /\ node'[p] = node[p] /\ node'[Other(p)] = node[Other(p)]
        /\ user' = [user EXCEPT ![p] = u] /\ submitted' = [submitted EXCEPT ![p] = sub]
    BY <1>1, <1>2, <1>3, <1>4, <1>5, <1>6, <1>7
  <2>2. Len(sub) <= Len(sub) /\ \A i \in 1..Len(sub) : sub[i] = sub[i]
    BY <1>1, <1>2, <1>3, <1>4, <1>5, <1>6, <1>7
  <2>3. /\ node[p].lastSent = node[p].lastSent /\ node[p].lastReceived = node[p].lastReceived
        /\ node[p].running => node[p].running
        /\ node[p].inTransaction /\ ~node[p].running => Receiving(p, node[p].current)
        /\ p = "provisioner" => node[p].exists
        /\ Len(sub) <= MaxSubmitted(p, node[p].expected, u)
        /\ u # "idle" => node[p].expected = "auth" \/ (p = "provisioner" /\ node[p].expected = "none")
        /\ u = "sending" => node[p].queue = <<>> /\ ~node[p].running
    BY <1>1, <1>2, <1>3, <1>4, <1>5, <1>6, <1>7, Own
  <2> QED
    BY <1>1, <1>2, <1>3, <1>4, <1>5, <1>6, <1>7, <2>1, <2>2, <2>3, Own DEF UserStep
<1> QED
  BY <1>8, UserStepWorks

LEMMA SendTypedWorks ==
  ASSUME ProvisioningAssumption, Links, NEW p \in Peers, SendTyped(p)
  PROVE  Links'
<1> DEFINE x == Typed(p)
           s == Process(node[p], x)
           sub == submitted[p]
           new == Append(sub, x)
<1>1. /\ user[p] = "sending"
      /\ node' = [node EXCEPT ![p] = s] /\ user' = [user EXCEPT ![p] = "expecting"]
      /\ submitted' = [submitted EXCEPT ![p] = new]
      /\ UNCHANGED <<method, thread, auth, air, passed>>
  BY DEF SendTyped, UserGoes, Links, Types
<1>2. x \in Packets
  BY DEF Typed, Packets
<1> HIDE DEF x
<1>3. /\ sub \in Seq(Packets) /\ new \in Seq(Packets) /\ Len(new) = Len(sub) + 1 /\ Len(sub) \in Nat
      /\ new[Len(sub) + 1] = x /\ \A i \in 1..Len(sub) : new[i] = sub[i]
  BY <1>2, Own, AppendProperties, LenProperties
<1>4. /\ p = "provisioner" => node[p].exists
      /\ node[p].expected = "auth" \/ (p = "provisioner" /\ node[p].expected = "none")
      /\ Len(sub) <= MaxSubmitted(p, node[p].expected, "sending")
      /\ node[p].queue = <<>> /\ ~node[p].running
  BY <1>1, Typing, Own
<1> DEFINE k == Started(p, node[p])
<1>5. /\ k = node[p].lastSent - Base(p) + 1 /\ node[p].lastSent \in Int
      /\ node[p].lastSent >= Base(p) - 1 /\ Backlog(<<>>, sub, k)
  BY <1>4, Own, BaseType DEF Started, SenderOK, NodeOK
<1> HIDE DEF k
<1>6. k = Len(sub) /\ Backlog(<<>>, new, k + 1)
  BY <1>2, <1>3, <1>5, BacklogEmpty
<1> HIDE DEF new, sub
<1>7. /\ NodeOK(p, s) /\ SenderOK(p, s, new) /\ Keeps(node[p], s)
      /\ s.running /\ s.inTransaction /\ s.queue = <<>>
      /\ Started(p, s) = k + 1
  <2>1. k + 1 = node[p].lastSent - Base(p) + 2
    BY <1>5, BaseType
  <2>2. Backlog(node[p].queue, new, node[p].lastSent - Base(p) + 2)
    BY <1>4, <1>6, <2>1
  <2>3. x = new[node[p].lastSent - Base(p) + 2]
    BY <1>3, <1>6, <2>1
  <2> QED
    <3>1. NodeOK(p, node[p]) /\ new \in Seq(Packets) /\ ~node[p].running
          /\ node[p].lastSent >= Base(p) - 1
      BY <1>3, <1>4, <1>5, Own
    <3>2. /\ NodeOK(p, s) /\ SenderOK(p, s, new) /\ Keeps(node[p], s)
          /\ s.running /\ s.inTransaction /\ s.queue = node[p].queue
          /\ Started(p, s) = node[p].lastSent - Base(p) + 2
      BY <1>2, <2>2, <2>3, <3>1, ProcessWorks
    <3> HIDE DEF s
    <3> QED
      BY <1>4, <2>1, <3>2
<1> HIDE DEF s
<1>8. Orderly(p, s, new)
  BY <1>3, <1>6, <1>7 DEF Orderly, Open
<1>9. Len(new) <= MaxSubmitted(p, s.expected, "expecting")
  <2>1. s.expected = node[p].expected
    BY <1>7 DEF Keeps
  <2> DEFINE before == MaxSubmitted(p, node[p].expected, "sending")
             after == MaxSubmitted(p, node[p].expected, "expecting")
  <2>2. before \in Nat /\ after = before + 1
    BY <1>4, OneMore
  <2> HIDE DEF before, after
  <2>3. Len(sub) <= before /\ MaxSubmitted(p, s.expected, "expecting") = after
    BY <1>4, <2>1 DEF before, after
  <2> QED
    BY <1>3, <2>2, <2>3
<1>10. DOMAIN node' = Peers /\ node'[p] = s /\ node'[Other(p)] = node[Other(p)]
  BY <1>1, TwoPeers DEF Links, Types
<1>11. auth' \in [Peers -> {"none", "shown", "other"}] /\ Len(sub) <= Len(new)
  BY <1>1, <1>3 DEF Links, Types
<1>12. /\ s.expected = node[p].expected /\ s.lastSent = node[p].lastSent
       /\ s.lastReceived = node[p].lastReceived /\ (node[p].exists => s.exists)
  BY <1>7 DEF Keeps
<1> QED
  BY <1>1, <1>3, <1>4, <1>7, <1>8, <1>9, <1>10, <1>11, <1>12, UserStepWorks DEF sub, UserStep

LEMMA ExpectWorks ==
  ASSUME Links, NEW p \in Peers, Expect(p)
  PROVE  Links'
<1> DEFINE e == IF p = "provisioner" /\ node[p].expected = "none" THEN "capabilities"
                ELSE "confirmation"
           s == [node[p] EXCEPT !.expected = e]
           sub == submitted[p]
<1>1. /\ user[p] = "expecting"
      /\ node' = [node EXCEPT ![p] = s] /\ user' = [user EXCEPT ![p] = "idle"]
      /\ UNCHANGED <<method, thread, auth, air, submitted, passed>>
  <2>1. node'[p] = s /\ node' = [node EXCEPT ![p] = s]
    BY Own DEF Expect, Links, Types, NodeOK, Fields
  <2> QED
    BY <2>1 DEF Expect, UserGoes
<1>2. /\ p = "provisioner" => node[p].exists
      /\ node[p].expected = "auth" \/ (p = "provisioner" /\ node[p].expected = "none")
      /\ Open(p, node[p], sub) /\ Len(sub) <= MaxSubmitted(p, node[p].expected, "expecting")
  BY <1>1, Typing
<1>3. e \in Expects(p)
  BY DEF Expects
<1>4. Len(sub) <= MaxSubmitted(p, e, "idle")
  <2>1. CASE p = "provisioner"
    BY <1>2, <2>1, Idle, Phases
  <2>2. CASE p = "provisionee"
    BY <1>2, <2>2, Idle, Phases
  <2> QED
    BY <2>1, <2>2 DEF Peers
<1> HIDE DEF e
<1>5. /\ DOMAIN s = Fields /\ s.exists = node[p].exists /\ s.inTransaction = node[p].inTransaction
      /\ s.running = node[p].running /\ s.current = node[p].current
      /\ s.lastSent = node[p].lastSent /\ s.lastReceived = node[p].lastReceived
      /\ s.queue = node[p].queue /\ s.expected = e
  BY Own DEF NodeOK, Fields
<1> HIDE DEF s
<1>6. NodeOK(p, s) /\ SenderOK(p, s, sub) /\ Orderly(p, s, sub)
  BY <1>2, <1>3, <1>5, Own DEF NodeOK, SenderOK, Orderly, Open, Started
<1>7. /\ DOMAIN node' = Peers /\ node'[p] = s /\ node'[Other(p)] = node[Other(p)]
      /\ submitted' = [submitted EXCEPT ![p] = sub] /\ sub \in Seq(Packets) /\ Len(sub) \in Nat
  BY <1>1, TwoPeers, LenProperties DEF Links, Types
<1>8. auth' \in [Peers -> {"none", "shown", "other"}]
  BY <1>1 DEF Links, Types
<1>9. s.inTransaction /\ ~s.running => Receiving(p, s.current)
  BY <1>5, Own
<1>10. UserStep(p, s, "idle", sub)
  <2>1. /\ UNCHANGED <<method, thread, air, passed>> /\ auth' \in [Peers -> {"none", "shown", "other"}]
        /\ DOMAIN node' = Peers /\ node'[p] = s /\ node'[Other(p)] = node[Other(p)]
        /\ user' = [user EXCEPT ![p] = "idle"] /\ submitted' = [submitted EXCEPT ![p] = sub]
    BY <1>1, <1>2, <1>4, <1>5, <1>6, <1>7, <1>8, <1>9
  <2>2. Len(sub) <= Len(sub) /\ \A i \in 1..Len(sub) : sub[i] = sub[i]
    BY <1>1, <1>2, <1>4, <1>5, <1>6, <1>7, <1>8, <1>9
  <2>3. /\ s.lastSent = node[p].lastSent /\ s.lastReceived = node[p].lastReceived
        /\ node[p].running => s.running
        /\ s.inTransaction /\ ~s.running => Receiving(p, s.current)
        /\ p = "provisioner" => s.exists
        /\ Len(sub) <= MaxSubmitted(p, s.expected, "idle")
        /\ "idle" # "idle" => s.expected = "auth" \/ (p = "provisioner" /\ s.expected = "none")
        /\ "idle" = "sending" => s.queue = <<>> /\ ~s.running
    BY <1>1, <1>2, <1>4, <1>5, <1>6, <1>7, <1>8, <1>9, Own
  <2> QED
    BY <1>1, <1>2, <1>4, <1>5, <1>6, <1>7, <1>8, <1>9, <2>1, <2>2, <2>3, Own DEF UserStep
<1> QED
  BY <1>10, UserStepWorks

LEMMA LinksInit ==
  ASSUME ProvisioningAssumption, Init
  PROVE  Links
<1>1. Types
  BY EmptySeq DEF Init, Types
<1> SUFFICES ASSUME NEW p \in Peers PROVE PeerOK(p)
  BY <1>1 DEF Links
<1>2. /\ node[p] = NewNode(p) /\ thread[p] = NewThread /\ user[p] = "idle" /\ air[p] = {}
      /\ submitted[p] = <<>> /\ passed[p] = <<>> /\ Other(p) \in Peers
  BY TwoPeers DEF Init
<1>3. submitted[Other(p)] = <<>> /\ node[Other(p)] = NewNode(Other(p))
  BY TwoPeers DEF Init
<1>4. NodeOK(p, node[p])
  <2>1. TransactionOK(NoTransaction)
    BY EmptySeq DEF TransactionOK, NoTransaction
  <2> QED
    BY <1>2, <2>1, EmptySeq DEF NodeOK, NewNode, Fields, Expects
<1>5. Started(p, node[p]) = 0 /\ ~node[p].running /\ ~node[p].inTransaction
      /\ node[p].lastSent = Base(p) - 1 /\ node[p].queue = <<>> /\ node[p].lastReceived = -1
      /\ node[Other(p)].lastSent = Base(Other(p)) - 1
  BY <1>2, <1>3, TwoPeers DEF Started, NewNode, Base, Peers
<1>6. SenderOK(p, node[p], submitted[p]) /\ Open(p, node[p], submitted[p])
  BY <1>2, <1>5, BaseType DEF SenderOK, Open, Backlog
<1>7. PhaseOK(p)
  <2>1. 0 <= MaxSubmitted(p, node[p].expected, "idle")
    BY AtMostSix
  <2>2. p = "provisioner" => node[p].expected = "none"
    BY <1>2 DEF NewNode
  <2> QED
    BY <1>2, <1>6, <2>1, <2>2 DEF PhaseOK, Orderly
<1>8. ThreadOK(p, thread[p])
  BY <1>2 DEF ThreadOK, NewThread, ProvisioningAssumption
<1>9. ReceiverOK(p)
  BY <1>2, <1>3, <1>5, BaseType DEF ReceiverOK, NextNumber
<1> QED
  BY <1>2, <1>4, <1>6, <1>7, <1>8, <1>9 DEF PeerOK

LEMMA LinksNext ==
  ASSUME ProvisioningAssumption, Links, [Next]_vars
  PROVE  Links'
<1>1. CASE Begin
  BY <1>1, BeginWorks
<1>2. ASSUME NEW p \in Peers, Receive(p)
      PROVE  Links'
  BY <1>2, ReceiveWorks
<1>3. ASSUME NEW p \in Peers, SendingThread(p)
      PROVE  Links'
  BY <1>3, SendingThreadWorks
<1>4. ASSUME NEW p \in Peers, LinkOpenThread(p)
      PROVE  Links'
  BY <1>4, LinkOpenThreadWorks
<1>5. ASSUME NEW p \in Peers, UserThread(p)
      PROVE  Links'
  BY <1>5, QueueWorks, TypeWorks, SendTypedWorks, ExpectWorks DEF UserThread
<1>6. CASE UNCHANGED vars
  <2>1. /\ node' = node /\ thread' = thread /\ user' = user /\ auth' = auth /\ air' = air
        /\ submitted' = submitted /\ passed' = passed /\ method' = method
    BY <1>6 DEF vars
  <2>2. Types'
    BY <2>1 DEF Links, Types
  <2>3. \A p : NextNumber(p)' = NextNumber(p) /\ NextPacket(p)' = NextPacket(p)
    BY <2>1 DEF NextNumber, NextPacket
  <2>4. \A p, n : InProgress(p, n)' = InProgress(p, n)
    BY <2>1 DEF InProgress
  <2>5. ASSUME NEW p \in Peers PROVE PeerOK(p)'
    <3>1. NodeOK(p, node'[p]) /\ SenderOK(p, node'[p], submitted'[p]) /\ PhaseOK(p)'
      BY <2>1 DEF Links, PeerOK, PhaseOK
    <3>2. ThreadOK(p, thread[p])'
      BY <2>1, <2>4 DEF Links, PeerOK, ThreadOK
    <3>3. ReceiverOK(p)'
      BY <2>1, <2>3 DEF Links, PeerOK, ReceiverOK, Receiving
    <3>4. \A m \in air[p] : PduOK(p, m)'
      BY <2>1, <2>3, <2>4 DEF Links, PeerOK, PduOK
    <3> QED
      BY <2>1, <3>1, <3>2, <3>3, <3>4 DEF PeerOK
  <2> QED
    BY <2>2, <2>5 DEF Links
<1> QED
  BY <1>1, <1>2, <1>3, <1>4, <1>5, <1>6 DEF Next

-----------------------------------------------------------------------------
(* The theorems about types and about the channel.                         *)

LEMMA LinksTypes ==
  ASSUME ProvisioningAssumption, Links
  PROVE  TypeOK
<1> SUFFICES ASSUME NEW p \in Peers
             PROVE  /\ node[p].current.role \in {"none", "sending", "receiving"}
                    /\ Len(node[p].current.parts) <= node[p].current.last + 1
                    /\ thread[p].rounds \in 0..MaxRounds
                    /\ thread[p].index <= thread[p].count
                    /\ node[p].expected \in Packets \cup {"none", "auth"}
                    /\ user[p] \in {"idle", "queueing", "sending", "expecting"}
                    /\ auth[p] \in {"none", "shown", "other"}
  BY DEF TypeOK, Links, Types
<1>1. NodeOK(p, node[p]) /\ ThreadOK(p, thread[p])
  BY DEF Links, PeerOK
<1>2. thread[p].rounds \in 0..MaxRounds /\ thread[p].index <= thread[p].count
  BY <1>1 DEF ThreadOK
<1>3. node[p].expected \in Packets \cup {"none", "auth"}
  BY <1>1 DEF NodeOK, Expects, Packets, Peers
<1> QED
  BY <1>1, <1>2, <1>3 DEF NodeOK, TransactionOK, Links, Types

\* The node, its transactions, threads and users keep their types.
THEOREM TypeCorrect == ProvisioningAssumption => (Spec => []TypeOK)
<1> SUFFICES ASSUME ProvisioningAssumption PROVE Spec => []TypeOK
  OBVIOUS
<1>1. Init => Links
  BY LinksInit
<1>2. Links /\ [Next]_vars => Links'
  BY LinksNext
<1>3. Links => TypeOK
  BY LinksTypes
<1> QED
  BY <1>1, <1>2, <1>3, PTL DEF Spec

LEMMA LongerExtends ==
  ASSUME NEW s \in Seq(Packets), NEW t \in Seq(Packets), Len(s) <= Len(t),
         \A i \in 1..Len(s) : t[i] = s[i]
  PROVE  Channel!Extends(s, t)
<1> DEFINE r == SubSeq(t, 1, Len(s))
<1>1. Len(s) \in Nat /\ Len(t) \in Nat
  BY LenProperties
<1>2. /\ r \in Seq(Packets) /\ Len(r) = Len(s)
      /\ \A i \in 1..Len(s) : r[i] = t[i]
  BY <1>1
<1>3. r = s
  <2> HIDE DEF r
  <2> QED
    BY <1>2, SeqEqual
<1> QED
  BY <1>3 DEF Channel!Extends

\* What the users submit comes after what their nodes have submitted.
LEMMA UserExtends ==
  ASSUME Links, NEW p \in Peers, NEW x \in Packets, UNCHANGED passed,
         submitted' = [submitted EXCEPT ![p] = Append(@, x)]
  PROVE  Channel!Next
<1> DEFINE new == Append(submitted[p], x)
<1>1. /\ submitted[p] \in Seq(Packets) /\ Other(p) \in Peers /\ Other(p) # p
      /\ Channel!Other(p) = Other(p)
  BY Own DEF Channel!Other, Other
<1>2. /\ new \in Seq(Packets) /\ Len(submitted[p]) <= Len(new)
      /\ \A i \in 1..Len(submitted[p]) : new[i] = submitted[p][i]
  BY <1>1, AppendProperties, LenProperties
<1>3. submitted'[p] = new /\ submitted'[Other(p)] = submitted[Other(p)]
  BY <1>1 DEF Links, Types
<1> HIDE DEF new
<1>4. Channel!Extends(submitted[p], submitted'[p])
  BY <1>1, <1>2, <1>3, LongerExtends
<1> QED
  BY <1>1, <1>3, <1>4 DEF Channel!Next

\* The receiver is given the next packet of the other side.
LEMMA PassesExtends ==
  ASSUME ProvisioningAssumption, Links, NEW p \in Peers, NEW s, NEW x, NEW out,
         PassesNext(p, s, x, out)
  PROVE  Channel!Next
<1> DEFINE sent == PacketsOf(p, s, x)
           new == submitted[p] \o sent
<1>1. /\ submitted[p] \in Seq(Packets) /\ Other(p) \in Peers /\ Other(p) # p
      /\ Channel!Other(p) = Other(p)
  BY Own DEF Channel!Other, Other
<1>2. /\ passed' = [passed EXCEPT ![p] = Append(@, x)]
      /\ submitted' = [submitted EXCEPT ![p] = new]
      /\ x = submitted[Other(p)][Len(passed[p]) + 1]
      /\ Len(passed[p]) < Len(submitted[Other(p)])
  BY DEF PassesNext, PassUp, NextPacket
<1>3. sent \in Seq(Packets)
  <2>1. GivenOK(p, s, submitted[p], x)
    BY PassesGiven
  <2> QED
    BY <2>1 DEF GivenOK
<1> HIDE DEF sent
<1>4. /\ new \in Seq(Packets) /\ Len(submitted[p]) <= Len(new)
      /\ \A i \in 1..Len(submitted[p]) : new[i] = submitted[p][i]
  <2>1. Len(submitted[p]) \in Nat /\ Len(sent) \in Nat
    BY <1>1, <1>3, LenProperties
  <2> QED
    BY <1>1, <1>3, <2>1, ConcatProperties
<1>5. submitted'[p] = new /\ submitted'[Other(p)] = submitted[Other(p)]
  BY <1>1, <1>2 DEF Links, Types
<1> HIDE DEF new
<1>6. Channel!Extends(submitted[p], submitted'[p])
  BY <1>1, <1>4, <1>5, LongerExtends
<1>7. Channel!Give(p)
  BY <1>1, <1>2 DEF Channel!Give
<1> QED
  BY <1>1, <1>5, <1>6, <1>7 DEF Channel!Next

LEMMA ChannelNext ==
  ASSUME ProvisioningAssumption, Links, [Next]_vars
  PROVE  Channel!Next \/ UNCHANGED <<submitted, passed>>
<1>1. CASE Begin
  BY <1>1 DEF Begin
<1>2. ASSUME NEW p \in Peers, Receive(p)
      PROVE  Channel!Next \/ UNCHANGED <<submitted, passed>>
  <2>1. CASE \E s, x, out : PassesNext(p, s, x, out)
    BY <2>1, PassesExtends
  <2>2. CASE \E s, out : Quiet(p, s, out)
    BY <2>2 DEF Quiet, Become
  <2> QED
    BY <1>2, <2>1, <2>2, ReceiveWorks
<1>3. ASSUME NEW p \in Peers, SendingThread(p) \/ LinkOpenThread(p)
      PROVE  UNCHANGED <<submitted, passed>>
  BY <1>3 DEF SendingThread, IdleRound, FirstFragment, FollowingFragment, Sends, LinkOpenThread
<1>4. ASSUME NEW p \in Peers, UserThread(p)
      PROVE  Channel!Next \/ UNCHANGED <<submitted, passed>>
  <2>1. CASE Queue(p)
    <3> DEFINE x == IF p = "provisioner" /\ passed[p] = <<>> THEN "invite" ELSE Typed(p)
    <3>1. /\ x \in Packets /\ UNCHANGED passed
          /\ submitted' = [submitted EXCEPT ![p] = Append(@, x)]
      BY <2>1 DEF Queue, Typed, Packets
    <3> HIDE DEF x
    <3> QED
      BY <3>1, UserExtends
  <2>2. CASE SendTyped(p)
    <3>1. /\ Typed(p) \in Packets /\ UNCHANGED passed
          /\ submitted' = [submitted EXCEPT ![p] = Append(@, Typed(p))]
      BY <2>2 DEF SendTyped, Typed, Packets
    <3> QED
      BY <3>1, UserExtends
  <2>3. CASE Type(p) \/ Expect(p)
    BY <2>3 DEF Type, Expect
  <2> QED
    BY <1>4, <2>1, <2>2, <2>3 DEF UserThread
<1>5. CASE UNCHANGED vars
  BY <1>5 DEF vars
<1> QED
  BY <1>1, <1>2, <1>3, <1>4, <1>5 DEF Next

\* Packets cross whole, once and in order: what generic provisioning does,
\* fragment by fragment, is what an ordered channel does.
THEOREM ChannelImplemented == ProvisioningAssumption => (Spec => ImplementsChannel)
<1> SUFFICES ASSUME ProvisioningAssumption PROVE Spec => ImplementsChannel
  OBVIOUS
<1>1. Init => Links /\ Channel!Init
  BY LinksInit DEF Init, Channel!Init
<1>2. Links /\ [Next]_vars => Links' /\ [Channel!Next]_<<submitted, passed>>
  BY LinksNext, ChannelNext
<1> QED
  BY <1>1, <1>2, PTL DEF Spec, ImplementsChannel, Channel!Spec

-----------------------------------------------------------------------------
(***************************************************************************)
(* The two nodes are provisioned together.  The node that shows the value  *)
(* does so before anyone may type it, and from then on neither value       *)
(* changes; the provisionee waits for the data only when the two values    *)
(* are equal, and the provisioner is at its last steps by then.            *)
(***************************************************************************)

Has(sub, x) == \E i \in 1..Len(sub) : sub[i] = x

AuthOK ==
  /\ method = "output" /\ node["provisionee"].expected \in {"confirmation", "random", "data", "none"}
       => auth["provisionee"] = "shown"
  /\ method = "input" /\ node["provisioner"].expected \in {"input_complete", "confirmation", "random",
                                                         "complete"}
       => auth["provisioner"] = "shown"
  /\ method # "output" => node["provisioner"].expected # "auth"
  /\ method # "input" => node["provisionee"].expected # "auth"
  /\ Has(submitted["provisioner"], "random") => node["provisioner"].expected \in {"random", "complete"}
  /\ node["provisionee"].expected \in {"data", "none"} =>
       /\ auth["provisioner"] = auth["provisionee"]
       /\ node["provisioner"].expected \in {"random", "complete"}
  /\ node["provisionee"].done => node["provisionee"].expected = "none"
  /\ Has(submitted["provisionee"], "complete") => node["provisionee"].done
  /\ Ends(node["provisioner"]) => node["provisionee"].done

\* What AuthOK needs to know of an answer.
LEMMA AnswerSteps ==
  /\ \A x \in Packets \cap Expects("provisioner") :
       LET a == On("provisioner", x) IN
       /\ Has(a.packets, "random") => x = "confirmation"
       /\ a.expected \in {"input_complete", "confirmation", "random", "complete"} =>
            x \in {"public_key", "input_complete", "confirmation", "random", "complete"}
       /\ a.expected = "auth" => x = "public_key" /\ method \notin {"none", "input"}
       /\ x \in {"confirmation", "random", "complete"} => a.expected \in {"random", "complete"}
  /\ \A x \in Packets \cap Expects("provisionee") :
       LET a == On("provisionee", x) IN
       /\ Has(a.packets, "complete") => x = "data"
       /\ a.expected \in {"confirmation", "random", "data", "none"} =>
            x \in {"public_key", "confirmation", "random", "data"}
       /\ a.expected \in {"data", "none"} => x \in {"random", "data"}
       /\ a.expected = "auth" => method = "input"
       /\ x = "data" => a.expected = "none"
<1>1. /\ \A y : ~Has(<<>>, y)
      /\ \A y, z : Has(<<z>>, y) => y = z
      /\ ~Has(<<"start", "public_key">>, "random")
  BY DEF Has
<1>2. ASSUME NEW x \in Packets \cap Expects("provisioner")
      PROVE  LET a == On("provisioner", x) IN
             /\ Has(a.packets, "random") => x = "confirmation"
             /\ a.expected \in {"input_complete", "confirmation", "random", "complete"} =>
                  x \in {"public_key", "input_complete", "confirmation", "random", "complete"}
             /\ a.expected = "auth" => x = "public_key" /\ method \notin {"none", "input"}
             /\ x \in {"confirmation", "random", "complete"} => a.expected \in {"random", "complete"}
  <2>1. CASE x = "capabilities"
    BY <1>1, <2>1, Table DEF Answer
  <2>2. CASE x = "public_key"
    BY <1>1, <2>2, Table DEF Answer
  <2>3. CASE x = "input_complete"
    BY <1>1, <2>3, Table DEF Answer
  <2>4. CASE x = "confirmation"
    BY <1>1, <2>4, Table DEF Answer
  <2>5. CASE x = "random"
    BY <1>1, <2>5, Table DEF Answer
  <2>6. CASE x = "complete"
    BY <1>1, <2>6, Table DEF Answer
  <2> QED
    BY <2>1, <2>2, <2>3, <2>4, <2>5, <2>6 DEF Packets, Expects
<1>3. ASSUME NEW x \in Packets \cap Expects("provisionee")
      PROVE  LET a == On("provisionee", x) IN
             /\ Has(a.packets, "complete") => x = "data"
             /\ a.expected \in {"confirmation", "random", "data", "none"} =>
                  x \in {"public_key", "confirmation", "random", "data"}
             /\ a.expected \in {"data", "none"} => x \in {"random", "data"}
             /\ a.expected = "auth" => method = "input"
             /\ x = "data" => a.expected = "none"
  <2>1. CASE x = "invite"
    BY <1>1, <2>1, Table DEF Answer
  <2>2. CASE x = "start"
    BY <1>1, <2>2, Table DEF Answer
  <2>3. CASE x = "public_key"
    BY <1>1, <2>3, Table DEF Answer
  <2>4. CASE x = "confirmation"
    BY <1>1, <2>4, Table DEF Answer
  <2>5. CASE x = "random"
    BY <1>1, <2>5, Table DEF Answer
  <2>6. CASE x = "data"
    BY <1>1, <2>6, Table DEF Answer
  <2> QED
    BY <2>1, <2>2, <2>3, <2>4, <2>5, <2>6 DEF Packets, Expects
<1> QED
  BY <1>2, <1>3

\* A step that neither takes a packet nor a value.
LEMMA AuthRests ==
  ASSUME AuthOK, NEW p \in Peers, NEW s, UNCHANGED <<method, auth>>,
         node'[p] = s, node'[Other(p)] = node[Other(p)],
         s.expected = node[p].expected, p = "provisioner" => (Ends(s) => Ends(node[p])),
         p = "provisionee" => (s.done <=> node[p].done),
         submitted'[Other(p)] = submitted[Other(p)],
         \A x \in {"random", "complete"} : Has(submitted'[p], x) => Has(submitted[p], x)
  PROVE  AuthOK'
<1>1. CASE p = "provisioner"
  <2>1. Other(p) = "provisionee"
    BY <1>1, TwoPeers
  <2> QED
    BY <1>1, <2>1 DEF AuthOK
<1>2. CASE p = "provisionee"
  <2>1. Other(p) = "provisioner"
    BY <1>2, TwoPeers
  <2> QED
    BY <1>2, <2>1 DEF AuthOK
<1> QED
  BY <1>1, <1>2 DEF Peers

LEMMA HasConcat ==
  ASSUME NEW sub \in Seq(Packets), NEW xs \in Seq(Packets), NEW x, Has(sub \o xs, x)
  PROVE  Has(sub, x) \/ Has(xs, x)
<1> DEFINE new == sub \o xs
<1>1. Len(sub) \in Nat /\ Len(xs) \in Nat
  BY LenProperties
<1>2. /\ Len(new) = Len(sub) + Len(xs)
      /\ \A i \in 1..Len(sub) + Len(xs) : new[i] = IF i <= Len(sub) THEN sub[i] ELSE xs[i - Len(sub)]
  BY <1>1, ConcatProperties
<1> HIDE DEF new
<1>3. PICK i \in 1..Len(new) : new[i] = x
  BY DEF Has, new
<1>4. CASE i <= Len(sub)
  BY <1>1, <1>2, <1>3, <1>4 DEF Has
<1>5. CASE ~(i <= Len(sub))
  <2>1. i - Len(sub) \in 1..Len(xs)
    BY <1>1, <1>2, <1>5
  <2> QED
    BY <1>2, <1>3, <1>5, <2>1 DEF Has
<1> QED
  BY <1>4, <1>5

LEMMA HasAppend ==
  ASSUME NEW sub \in Seq(Packets), NEW z \in Packets, NEW x, Has(Append(sub, z), x), x # z
  PROVE  Has(sub, x)
<1>1. /\ Len(Append(sub, z)) = Len(sub) + 1 /\ Len(sub) \in Nat
      /\ \A i \in 1..Len(sub) + 1 : Append(sub, z)[i] = IF i <= Len(sub) THEN sub[i] ELSE z
  BY AppendProperties, LenProperties
<1>2. PICK i \in 1..Len(sub) + 1 : Append(sub, z)[i] = x
  BY <1>1 DEF Has
<1>3. i \in 1..Len(sub) /\ sub[i] = x
  BY <1>1, <1>2
<1> QED
  BY <1>3 DEF Has

\* What a packet that is passed up does to what AuthOK is about.
LEMMA PassesEffect ==
  ASSUME ProvisioningAssumption, Links, NEW p \in Peers, NEW s, NEW x, NEW out,
         PassesNext(p, s, x, out)
  PROVE  LET t == node'[p]
             took == Taken(node[p], x) IN
         /\ node'[Other(p)] = node[Other(p)] /\ submitted'[Other(p)] = submitted[Other(p)]
         /\ x \in Packets /\ Has(submitted[Other(p)], x) /\ method' = method
         /\ \A y : Has(submitted'[p], y) => Has(submitted[p], y) \/ (took /\ Has(On(p, x).packets, y))
         /\ t.expected = IF took THEN On(p, x).expected ELSE node[p].expected
         /\ p = "provisionee" => (t.done <=> node[p].done \/ (took /\ x = "data"))
         /\ p = "provisioner" => (Ends(t) => Ends(node[p]) \/ (took /\ x = "complete"))
         /\ auth' = IF x = "public_key" /\ took /\ <<method, p>> \in Displays
                    THEN [auth EXCEPT ![p] = "shown"] ELSE auth
<1> DEFINE t == Given(p, s, x)
           sent == PacketsOf(p, s, x)
           new == submitted[p] \o sent
           took == Taken(node[p], x)
<1>1. /\ PassUp(p, s, x, out) /\ s.queue = node[p].queue /\ s.expected = node[p].expected
      /\ s.done = node[p].done /\ x = NextPacket(p) /\ x \in Packets
      /\ Len(passed[p]) < Len(submitted[Other(p)])
  BY DEF PassesNext
<1>2. /\ submitted[p] \in Seq(Packets) /\ passed[p] \in Seq(Packets) /\ Other(p) \in Peers
      /\ Other(p) # p /\ submitted[Other(p)] \in Seq(Packets)
  BY Own
<1>3. GivenOK(p, s, submitted[p], x)
  BY PassesGiven
<1>4. Taken(s, x) <=> took
  BY <1>1 DEF Taken
<1>5. /\ sent \in Seq(Packets)
      /\ t.expected = IF took THEN On(p, x).expected ELSE node[p].expected
      /\ ~took => sent = <<>>
      /\ p = "provisionee" => (t.done <=> s.done \/ (took /\ x = "data"))
      /\ p = "provisioner" => (Ends(t) => Ends(s) \/ (took /\ x = "complete"))
  BY <1>1, <1>3, <1>4 DEF GivenOK
<1>6. /\ node' = [node EXCEPT ![p] = t] /\ submitted' = [submitted EXCEPT ![p] = new]
      /\ method' = method
      /\ auth' = IF x = "public_key" /\ x = s.expected /\ <<method, p>> \in Displays
                 THEN [auth EXCEPT ![p] = "shown"] ELSE auth
  BY <1>1 DEF PassUp, Given, Taken
<1>7. x = "public_key" => (x = s.expected <=> took)
  BY <1>4 DEF Taken, Verified
<1>8. Has(submitted[Other(p)], x)
  <2>1. Len(passed[p]) + 1 \in 1..Len(submitted[Other(p)])
    BY <1>1, <1>2, LenProperties
  <2> QED
    BY <1>1, <2>1 DEF Has, NextPacket
<1>9. sent = <<>> \/ sent = On(p, x).packets
  BY DEF PacketsOf
<1> HIDE DEF t, sent, took
<1>10. \A y : Has(new, y) => Has(submitted[p], y) \/ (took /\ Has(On(p, x).packets, y))
  <2> SUFFICES ASSUME NEW y, Has(new, y), ~Has(submitted[p], y)
               PROVE  took /\ Has(On(p, x).packets, y)
    OBVIOUS
  <2>1. Has(sent, y)
    BY <1>2, <1>5, HasConcat
  <2>2. sent # <<>>
    BY <2>1 DEF Has
  <2> QED
    BY <1>5, <1>9, <2>1, <2>2
<1> HIDE DEF new
<1>11. /\ node'[p] = t /\ node'[Other(p)] = node[Other(p)]
       /\ submitted'[p] = new /\ submitted'[Other(p)] = submitted[Other(p)]
  BY <1>2, <1>6 DEF Links, Types
<1>12. Ends(s) <=> Ends(node[p])
  BY <1>1 DEF Ends
<1> QED
  BY <1>1, <1>5, <1>6, <1>7, <1>8, <1>10, <1>11, <1>12 DEF took

LEMMA ProvisionerTakes ==
  ASSUME ProvisioningAssumption, Links, AuthOK, NEW s, NEW x, NEW out,
         PassesNext("provisioner", s, x, out), Taken(node["provisioner"], x)
  PROVE  AuthOK'
<1> DEFINE r == "provisioner"
           e == "provisionee"
           a == On(r, x)
<1>1. r \in Peers /\ e \in Peers /\ Other(r) = e /\ r # e
  BY TwoPeers DEF Peers
<1>2. /\ node'[e] = node[e] /\ submitted'[e] = submitted[e]
      /\ x \in Packets /\ Has(submitted[e], x) /\ method' = method
      /\ \A y : Has(submitted'[r], y) => Has(submitted[r], y) \/ Has(a.packets, y)
      /\ node'[r].expected = a.expected
      /\ Ends(node'[r]) => Ends(node[r]) \/ x = "complete"
      /\ auth' = IF x = "public_key" /\ <<method, r>> \in Displays
                 THEN [auth EXCEPT ![r] = "shown"] ELSE auth
  BY <1>1, PassesEffect
<1>3. x = node[r].expected /\ x \in Packets \cap Expects(r)
  BY <1>1, <1>2, Own DEF Taken, NodeOK
<1>4. /\ Has(a.packets, "random") => x = "confirmation"
      /\ a.expected \in {"input_complete", "confirmation", "random", "complete"} =>
           x \in {"public_key", "input_complete", "confirmation", "random", "complete"}
      /\ a.expected = "auth" => x = "public_key" /\ method \notin {"none", "input"}
      /\ x \in {"confirmation", "random", "complete"} => a.expected \in {"random", "complete"}
  BY <1>3, AnswerSteps
<1>5. /\ method \in {"none", "input", "output"}
      /\ auth \in [Peers -> {"none", "shown", "other"}]
  BY DEF Links, Types, ProvisioningAssumption
<1>6. /\ auth'[e] = auth[e]
      /\ x # "public_key" => auth' = auth
      /\ x = "public_key" /\ method = "input" => auth'[r] = "shown"
  BY <1>1, <1>2, <1>5 DEF Displays
<1> HIDE DEF a
<1>7. Has(submitted'[r], "random") => a.expected \in {"random", "complete"}
  BY <1>2, <1>3, <1>4 DEF AuthOK
<1>8. node[e].expected \in {"data", "none"} =>
        auth'[r] = auth'[e] /\ a.expected \in {"random", "complete"}
  BY <1>3, <1>4, <1>6 DEF AuthOK
<1>9. Ends(node'[r]) => node[e].done
  BY <1>2 DEF AuthOK
<1>10. method = "input" /\ a.expected \in {"input_complete", "confirmation", "random", "complete"}
         => auth'[r] = "shown"
  BY <1>3, <1>4, <1>6 DEF AuthOK
<1> QED
  BY <1>2, <1>4, <1>5, <1>6, <1>7, <1>8, <1>9, <1>10 DEF AuthOK

LEMMA ProvisioneeTakes ==
  ASSUME ProvisioningAssumption, Links, AuthOK, NEW s, NEW x, NEW out,
         PassesNext("provisionee", s, x, out), Taken(node["provisionee"], x)
  PROVE  AuthOK'
<1> DEFINE r == "provisioner"
           e == "provisionee"
           a == On(e, x)
<1>1. r \in Peers /\ e \in Peers /\ Other(e) = r /\ r # e
  BY TwoPeers DEF Peers
<1>2. /\ node'[r] = node[r] /\ submitted'[r] = submitted[r]
      /\ x \in Packets /\ Has(submitted[r], x) /\ method' = method
      /\ \A y : Has(submitted'[e], y) => Has(submitted[e], y) \/ Has(a.packets, y)
      /\ node'[e].expected = a.expected
      /\ node'[e].done <=> node[e].done \/ x = "data"
      /\ auth' = IF x = "public_key" /\ <<method, e>> \in Displays
                 THEN [auth EXCEPT ![e] = "shown"] ELSE auth
  BY <1>1, PassesEffect
<1>3. /\ x = node[e].expected /\ x \in Packets \cap Expects(e)
      /\ x = "random" => auth[r] = auth[e]
  BY <1>1, <1>2, Own DEF Taken, NodeOK, Verified
<1>4. /\ Has(a.packets, "complete") => x = "data"
      /\ a.expected \in {"confirmation", "random", "data", "none"} =>
           x \in {"public_key", "confirmation", "random", "data"}
      /\ a.expected \in {"data", "none"} => x \in {"random", "data"}
      /\ a.expected = "auth" => method = "input"
      /\ x = "data" => a.expected = "none"
  BY <1>3, AnswerSteps
<1>5. auth \in [Peers -> {"none", "shown", "other"}]
  BY DEF Links, Types
<1>6. /\ auth'[r] = auth[r]
      /\ x # "public_key" => auth' = auth
      /\ x = "public_key" /\ method = "output" => auth'[e] = "shown"
  BY <1>1, <1>2, <1>5 DEF Displays
<1> HIDE DEF a
<1>7. ~node[e].done
  BY <1>3 DEF AuthOK, Packets
<1>8. method = "output" /\ a.expected \in {"confirmation", "random", "data", "none"}
        => auth'[e] = "shown"
  BY <1>3, <1>4, <1>6 DEF AuthOK
<1>9. a.expected \in {"data", "none"} =>
        auth'[r] = auth'[e] /\ node[r].expected \in {"random", "complete"}
  <2> SUFFICES ASSUME a.expected \in {"data", "none"}
               PROVE  auth'[r] = auth'[e] /\ node[r].expected \in {"random", "complete"}
    OBVIOUS
  <2>1. CASE x = "random"
    BY <1>2, <1>3, <1>6, <2>1 DEF AuthOK
  <2>2. CASE x = "data"
    BY <1>3, <1>6, <2>2 DEF AuthOK
  <2> QED
    BY <1>4, <2>1, <2>2
<1>10. /\ node'[e].done => a.expected = "none"
       /\ Has(submitted'[e], "complete") => node'[e].done
       /\ ~Ends(node[r])
  BY <1>2, <1>4, <1>7 DEF AuthOK
<1>11. /\ method # "output" => node'[r].expected # "auth"
       /\ Has(submitted'[r], "random") => node'[r].expected \in {"random", "complete"}
       /\ method = "input" /\ node'[r].expected \in {"input_complete", "confirmation", "random",
                                                   "complete"} => auth'[r] = "shown"
       /\ ~Ends(node'[r])
  BY <1>2, <1>6, <1>10 DEF AuthOK
<1> QED
  BY <1>2, <1>4, <1>8, <1>9, <1>10, <1>11 DEF AuthOK

LEMMA PassesAuth ==
  ASSUME ProvisioningAssumption, Links, AuthOK, NEW p \in Peers, NEW s, NEW x, NEW out,
         PassesNext(p, s, x, out)
  PROVE  AuthOK'
<1>1. CASE ~Taken(node[p], x)
  <2>1. /\ node'[Other(p)] = node[Other(p)] /\ submitted'[Other(p)] = submitted[Other(p)]
        /\ method' = method /\ auth' = auth
        /\ \A y : Has(submitted'[p], y) => Has(submitted[p], y)
        /\ node'[p].expected = node[p].expected
        /\ p = "provisionee" => (node'[p].done <=> node[p].done)
        /\ p = "provisioner" => (Ends(node'[p]) => Ends(node[p]))
    BY <1>1, PassesEffect
  <2> QED
    BY <2>1, AuthRests
<1>2. CASE Taken(node[p], x)
  BY <1>2, ProvisionerTakes, ProvisioneeTakes DEF Peers
<1> QED
  BY <1>1, <1>2

\* A packet of the user is neither a random value nor the end.
LEMMA UserSubmits ==
  ASSUME Links, AuthOK, NEW p \in Peers, NEW s, NEW x \in Packets \ {"random", "complete"},
         UNCHANGED <<method, auth>>, node' = [node EXCEPT ![p] = s],
         submitted' = [submitted EXCEPT ![p] = Append(@, x)],
         s.expected = node[p].expected, s.done = node[p].done, Ends(s) => Ends(node[p])
  PROVE  AuthOK'
<1>1. submitted[p] \in Seq(Packets) /\ Other(p) \in Peers /\ Other(p) # p
  BY Own
<1>2. /\ node'[p] = s /\ node'[Other(p)] = node[Other(p)]
      /\ submitted'[p] = Append(submitted[p], x) /\ submitted'[Other(p)] = submitted[Other(p)]
  BY <1>1 DEF Links, Types
<1>3. \A y \in {"random", "complete"} : Has(submitted'[p], y) => Has(submitted[p], y)
  BY <1>1, <1>2, HasAppend
<1> QED
  BY <1>2, <1>3, AuthRests

LEMMA QueueAuth ==
  ASSUME Links, AuthOK, NEW p \in Peers, Queue(p)
  PROVE  AuthOK'
<1> DEFINE x == IF p = "provisioner" /\ passed[p] = <<>> THEN "invite" ELSE Typed(p)
           queue == node[p].queue
           s == [node[p] EXCEPT !.queue = Append(queue, x)]
<1>1. /\ node' = [node EXCEPT ![p] = s] /\ UNCHANGED <<method, auth>>
      /\ submitted' = [submitted EXCEPT ![p] = Append(@, x)]
  BY DEF Queue, Put
<1>2. x \in Packets \ {"random", "complete"} /\ x # "finished" /\ x \in Queued
  BY DEF Typed, Packets, Queued
<1>3. queue \in Seq(Queued)
  BY Own DEF NodeOK
<1> HIDE DEF x, queue
<1>4. /\ s.queue = Append(queue, x) /\ s.expected = node[p].expected /\ s.done = node[p].done
  BY Own DEF NodeOK, Fields
<1>5. /\ Len(Append(queue, x)) = Len(queue) + 1 /\ Len(queue) \in Nat
      /\ \A i \in 1..Len(queue) + 1 : Append(queue, x)[i] = IF i <= Len(queue) THEN queue[i] ELSE x
  BY <1>2, <1>3, AppendProperties, LenProperties
<1> HIDE DEF s
<1>6. Ends(s) => Ends(node[p])
  BY <1>2, <1>4, <1>5 DEF Ends, queue
<1> QED
  BY <1>1, <1>2, <1>4, <1>6, UserSubmits

LEMMA SendTypedAuth ==
  ASSUME Links, AuthOK, NEW p \in Peers, SendTyped(p)
  PROVE  AuthOK'
<1> DEFINE x == Typed(p)
           s == Process(node[p], x)
<1>1. /\ node' = [node EXCEPT ![p] = s] /\ UNCHANGED <<method, auth>>
      /\ submitted' = [submitted EXCEPT ![p] = Append(@, x)]
  BY DEF SendTyped
<1>2. x \in Packets \ {"random", "complete"} /\ x # "finished"
  BY DEF Typed, Packets
<1> HIDE DEF x
<1>3. s.queue = node[p].queue /\ s.expected = node[p].expected /\ s.done = node[p].done
  BY <1>2, Own DEF Process, NodeOK, Fields
<1> HIDE DEF s
<1>4. Ends(s) => Ends(node[p])
  BY <1>3 DEF Ends
<1> QED
  BY <1>1, <1>2, <1>3, <1>4, UserSubmits

LEMMA TypeAuth ==
  ASSUME Links, AuthOK, NEW p \in Peers, Type(p)
  PROVE  AuthOK'
<1>1. /\ node[p].expected = "auth" /\ UNCHANGED <<method, node, submitted>>
      /\ \E v \in {"shown", "other"} : auth' = [auth EXCEPT ![p] = v]
  BY DEF Type
<1>2. auth'[Other(p)] = auth[Other(p)]
  BY <1>1, Own DEF Links, Types
<1>3. CASE p = "provisioner"
  <2>1. Other(p) = "provisionee"
    BY <1>3, TwoPeers
  <2> QED
    BY <1>1, <1>2, <1>3, <2>1 DEF AuthOK
<1>4. CASE p = "provisionee"
  <2>1. Other(p) = "provisioner"
    BY <1>4, TwoPeers
  <2> QED
    BY <1>1, <1>2, <1>4, <2>1 DEF AuthOK
<1> QED
  BY <1>3, <1>4 DEF Peers

LEMMA ExpectAuth ==
  ASSUME Links, AuthOK, NEW p \in Peers, Expect(p)
  PROVE  AuthOK'
<1> DEFINE e == IF p = "provisioner" /\ node[p].expected = "none" THEN "capabilities"
                ELSE "confirmation"
           s == [node[p] EXCEPT !.expected = e]
<1>1. /\ user[p] = "expecting" /\ node'[p] = s /\ node'[Other(p)] = node[Other(p)]
      /\ UNCHANGED <<method, auth, submitted>>
  BY Own DEF Expect, Links, Types, NodeOK, Fields
<1>2. node[p].expected = "auth" \/ (p = "provisioner" /\ node[p].expected = "none")
  BY <1>1, Typing
<1>3. s.expected = e /\ s.queue = node[p].queue /\ s.done = node[p].done
  BY Own DEF NodeOK, Fields
<1> HIDE DEF s
<1>4. Ends(s) <=> Ends(node[p])
  BY <1>3 DEF Ends
<1>5. CASE p = "provisioner"
  <2>1. Other(p) = "provisionee"
    BY <1>5, TwoPeers
  <2> QED
    BY <1>1, <1>2, <1>3, <1>4, <1>5, <2>1 DEF AuthOK
<1>6. CASE p = "provisionee"
  <2>1. Other(p) = "provisioner"
    BY <1>6, TwoPeers
  <2> QED
    BY <1>1, <1>2, <1>3, <1>4, <1>6, <2>1 DEF AuthOK
<1> QED
  BY <1>5, <1>6 DEF Peers

LEMMA AuthInit ==
  ASSUME Init
  PROVE  AuthOK
<1>1. "provisioner" \in Peers /\ "provisionee" \in Peers
  BY DEF Peers
<1>2. /\ node["provisioner"].expected = "none" /\ node["provisionee"].expected = "invite"
      /\ \A p \in Peers : /\ ~node[p].done /\ node[p].queue = <<>> /\ submitted[p] = <<>>
  BY <1>1 DEF Init, NewNode
<1>3. \A p \in Peers : ~Ends(node[p]) /\ \A x : ~Has(submitted[p], x)
  BY <1>2 DEF Ends, Has
<1> QED
  BY <1>1, <1>2, <1>3 DEF AuthOK

LEMMA AuthNext ==
  ASSUME ProvisioningAssumption, Links, AuthOK, [Next]_vars
  PROVE  AuthOK'
<1>1. CASE Begin
  <2> DEFINE p == "provisioner"
             s == [node[p] EXCEPT !.exists = TRUE, !.opening = TRUE]
  <2>1. p \in Peers
    BY DEF Peers
  <2>2. /\ node'[p] = s /\ node'[Other(p)] = node[Other(p)]
        /\ UNCHANGED <<method, auth, submitted>>
    BY <1>1, <2>1, Own DEF Begin, Links, Types
  <2>3. s.expected = node[p].expected /\ s.queue = node[p].queue /\ s.done = node[p].done
    BY <2>1, Own DEF NodeOK, Fields
  <2> HIDE DEF s
  <2>4. Ends(s) => Ends(node[p])
    BY <2>3 DEF Ends
  <2> HIDE DEF p
  <2> QED
    BY <2>1, <2>2, <2>3, <2>4, AuthRests
<1>2. ASSUME NEW p \in Peers, Receive(p)
      PROVE  AuthOK'
  <2>1. CASE \E s, x, out : PassesNext(p, s, x, out)
    BY <2>1, PassesAuth
  <2>2. CASE \E s, out : Quiet(p, s, out)
    <3>1. PICK s, out : Quiet(p, s, out)
      BY <2>2
    <3>2. /\ node'[p] = s /\ node'[Other(p)] = node[Other(p)]
          /\ UNCHANGED <<method, auth, submitted>>
      BY <3>1, Own DEF Quiet, Become, Links, Types
    <3>3. /\ s.expected = node[p].expected /\ (Ends(s) => Ends(node[p]))
          /\ p = "provisionee" => (s.done <=> node[p].done)
      BY <3>1 DEF Quiet
    <3> QED
      BY <3>2, <3>3, AuthRests
  <2> QED
    BY <1>2, <2>1, <2>2, ReceiveWorks
<1>3. ASSUME NEW p \in Peers, SendingThread(p) \/ LinkOpenThread(p)
      PROVE  AuthOK'
  <2>1. UNCHANGED <<method, node, auth, submitted>>
    BY <1>3 DEF SendingThread, IdleRound, FirstFragment, FollowingFragment, Sends, LinkOpenThread
  <2> QED
    BY <2>1 DEF AuthOK
<1>4. ASSUME NEW p \in Peers, UserThread(p)
      PROVE  AuthOK'
  BY <1>4, QueueAuth, SendTypedAuth, TypeAuth, ExpectAuth DEF UserThread
<1>5. CASE UNCHANGED vars
  BY <1>5 DEF vars, AuthOK
<1> QED
  BY <1>1, <1>2, <1>3, <1>4, <1>5 DEF Next

LEMMA AuthProvisions ==
  ASSUME ProvisioningAssumption, Links, AuthOK
  PROVE  ProvisionedTogether
<1>1. method \in {"none", "input", "output"}
  BY DEF Links, Types, ProvisioningAssumption
<1>2. node["provisioner"].done => node["provisionee"].done
  BY DEF AuthOK, Ends
<1>3. node["provisionee"].done => /\ auth["provisioner"] = auth["provisionee"]
                                  /\ node["provisioner"].expected \in {"random", "complete"}
                                  /\ method = "output" => auth["provisionee"] = "shown"
                                  /\ method = "input" => auth["provisioner"] = "shown"
  BY DEF AuthOK
<1> QED
  BY <1>1, <1>2, <1>3 DEF ProvisionedTogether

\* The provisioner ends only after the provisionee has its keys, and keys are
\* given only to a node whose user has typed the value that the other showed.
THEOREM TogetherProvisioned == ProvisioningAssumption => (Spec => []ProvisionedTogether)
<1> SUFFICES ASSUME ProvisioningAssumption PROVE Spec => []ProvisionedTogether
  OBVIOUS
<1>1. Init => Links /\ AuthOK
  BY LinksInit, AuthInit
<1>2. Links /\ AuthOK /\ [Next]_vars => Links' /\ AuthOK'
  BY LinksNext, AuthNext
<1>3. Links /\ AuthOK => ProvisionedTogether
  BY AuthProvisions
<1> QED
  BY <1>1, <1>2, <1>3, PTL DEF Spec

-----------------------------------------------------------------------------
(* The sending threads run down.                                           *)

\* Only the steps of a sending thread change it.
LEMMA ThreadsRest ==
  ASSUME [Next]_vars, \A p \in Peers : ~SendingThread(p)
  PROVE  thread' = thread
<1>1. ASSUME NEW p \in Peers, Receive(p)
      PROVE  thread' = thread
  <2>1. \A s, out : Become(p, s, out) => thread' = thread
    BY DEF Become
  <2>2. \A s, x, out : PassUp(p, s, x, out) => thread' = thread
    BY DEF PassUp
  <2>3. PICK m \in air[p] : Deliver(p, m)
    BY <1>1 DEF Receive
  <2>4. OnLinkOpen(p, m) \/ OnLinkAck(p, m) \/ OnFinished(p, m) \/ OnAck(p, m) => thread' = thread
    BY <2>1 DEF OnLinkOpen, OnLinkAck, OnFinished, OnAck
  <2>5. OnStart(p, m) => thread' = thread
    BY <2>1, <2>2 DEF OnStart
  <2>6. OnContinuation(p, m) => thread' = thread
    BY <2>1, <2>2 DEF OnContinuation
  <2> QED
    BY <2>3, <2>4, <2>5, <2>6 DEF Deliver
<1>2. CASE Begin
  BY <1>2 DEF Begin
<1>3. ASSUME NEW p \in Peers, LinkOpenThread(p) \/ UserThread(p)
      PROVE  thread' = thread
  BY <1>3 DEF LinkOpenThread, UserThread, Queue, Type, SendTyped, Expect
<1>4. CASE UNCHANGED vars
  BY <1>4 DEF vars
<1> QED
  BY <1>1, <1>2, <1>3, <1>4 DEF Next

\* A fragment has been sent: the next one, or the next round.
LEMMA NextGoesOn ==
  ASSUME NEW p \in Peers, NEW t, NEW u, NEW i \in Nat,
         DOMAIN t = {"rounds", "index", "number", "count", "dead"},
         DOMAIN u = {"rounds", "index", "number", "count", "dead"},
         t.rounds \in Nat, t.index \in Nat, u.count \in Nat, ~t.dead,
         u.rounds = t.rounds, i = t.index + 1, t.index > 0 => u.count = t.count
  PROVE  GoesOn(t, NextFragment(u, i))
<1>1. CASE i < u.count
  <2>1. NextFragment(u, i) = [u EXCEPT !.index = i]
    BY <1>1 DEF NextFragment
  <2> QED
    BY <1>1, <2>1 DEF GoesOn
<1>2. CASE ~(i < u.count)
  <2>1. NextFragment(u, i) = [u EXCEPT !.index = 0, !.rounds = @ - 1]
    BY <1>2 DEF NextFragment
  <2>2. NextFragment(u, i).rounds = t.rounds - 1
    BY <2>1
  <2> QED
    BY <2>2 DEF GoesOn
<1> QED
  BY <1>1, <1>2

LEMMA SendingGoesOn ==
  ASSUME ProvisioningAssumption, Links, NEW p \in Peers, SendingThread(p)
  PROVE  /\ GoesOn(thread[p], thread'[p])
         /\ \A q \in Peers : q # p => thread'[q] = thread[q]
<1> DEFINE t == thread[p]
           Others == \A q \in Peers : q # p => thread'[q] = thread[q]
<1>1. /\ DOMAIN t = {"rounds", "index", "number", "count", "dead"}
      /\ t.rounds \in Nat /\ t.index \in Nat /\ t.count \in Nat
      /\ DOMAIN thread = Peers
  BY DEF Links, Types, PeerOK, ThreadOK, ProvisioningAssumption
<1>2. \A u, out : Sends(p, u, out) => thread'[p] = u /\ Others
  BY <1>1 DEF Sends
<1>3. Len(node[p].current.parts) \in Nat
  BY LenProperties DEF Links, PeerOK, NodeOK, TransactionOK
<1>4. CASE IdleRound(p)
  <2>1. ~t.dead /\ thread'[p] = [t EXCEPT !.rounds = @ - 1] /\ Others
    BY <1>2, <1>4 DEF IdleRound, Alive
  <2>2. thread'[p].rounds = t.rounds - 1
    BY <1>1, <2>1
  <2> QED
    BY <1>1, <2>1, <2>2 DEF GoesOn
<1>5. CASE FirstFragment(p)
  <2> DEFINE u == [t EXCEPT !.number = node[p].current.number,
                            !.count = Len(node[p].current.parts)]
  <2>1. ~t.dead /\ t.index = 0 /\ thread'[p] = NextFragment(u, 1) /\ Others
    BY <1>2, <1>5 DEF FirstFragment, Alive
  <2>2. /\ DOMAIN u = {"rounds", "index", "number", "count", "dead"}
        /\ u.rounds = t.rounds /\ u.count \in Nat
    BY <1>1, <1>3
  <2> HIDE DEF u
  <2> QED
    BY <1>1, <2>1, <2>2, NextGoesOn
<1>6. CASE FollowingFragment(p)
  <2>1. /\ ~t.dead /\ t.index > 0 /\ Others
        /\ \/ thread'[p] = NextFragment(t, t.index + 1)
           \/ thread'[p] = [t EXCEPT !.dead = TRUE]
    BY <1>2, <1>6 DEF FollowingFragment, Alive
  <2>2. CASE thread'[p] = NextFragment(t, t.index + 1)
    BY <1>1, <2>1, <2>2, NextGoesOn
  <2>3. CASE thread'[p] = [t EXCEPT !.dead = TRUE]
    <3>1. thread'[p].dead
      BY <1>1, <2>3
    <3> QED
      BY <2>1, <3>1 DEF GoesOn
  <2> QED
    BY <2>1, <2>2, <2>3
<1> QED
  BY <1>4, <1>5, <1>6 DEF SendingThread

\* The sending thread of a node only runs down: the transaction that is
\* replaced under it, by the receiving thread or by the user's, never gives it
\* a round or a fragment more, so that it ends, or dies of its exception.
THEOREM RoundsCountDown == ProvisioningAssumption => (Spec => RoundsRunDown)
<1> SUFFICES ASSUME ProvisioningAssumption PROVE Spec => RoundsRunDown
  OBVIOUS
<1>1. ASSUME Links, [Next]_vars
      PROVE  \A p \in Peers : thread'[p] # thread[p] => GoesOn(thread[p], thread'[p])
  <2>1. CASE \A p \in Peers : ~SendingThread(p)
    BY <1>1, <2>1, ThreadsRest
  <2>2. ASSUME NEW p \in Peers, SendingThread(p)
        PROVE  \A q \in Peers : thread'[q] # thread[q] => GoesOn(thread[q], thread'[q])
    BY <1>1, <2>2, SendingGoesOn
  <2> QED
    BY <2>1, <2>2
<1>2. Init => Links
  BY LinksInit
<1>3. Links /\ [Next]_vars => Links'
  BY LinksNext
<1> QED
  BY <1>1, <1>2, <1>3, PTL DEF Spec, RoundsRunDown
=============================================================================
