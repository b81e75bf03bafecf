--------------------------- MODULE LowerTransportTx ---------------------------
(***************************************************************************)
(* Sending over Bluetooth Mesh (whad/btmesh/stack/lower_transport, and the *)
(* sequence numbers drawn by stack/upper_transport): the messages a node   *)
(* sends to one destination.  A message has a transaction and a thread of  *)
(* its own; the thread sends its segments in rounds, and the node's        *)
(* receiving thread applies the acknowledgments of the destination.        *)
(*                                                                         *)
(* Each network PDU leaves in a thread of its own, and the medium loses,   *)
(* repeats and reorders: a PDU once sent may arrive at any later time, any *)
(* number of times or never.  Messages are numbered in the order in which  *)
(* they reach the lower transport layer.                                   *)
(***************************************************************************)
EXTENDS Naturals, Sequences, FiniteSets

CONSTANTS
  MaxMessages,   \* bound: messages sent
  SegmentCounts, \* numbers of segments a message may have
  MaxAcks,       \* bound: acknowledgments the destination sends
  MaxRounds,     \* SAR unicast retransmissions count (3 by default)
  MaxIdleRounds  \* SAR unicast retransmissions without progress count (3)

ASSUME CountAssumption ==
  /\ MaxMessages \in Nat /\ MaxAcks \in Nat /\ MaxRounds \in Nat /\ MaxIdleRounds \in Nat
  /\ SegmentCounts \subseteq 1..32 /\ SegmentCounts # {}

Messages == 1..MaxMessages
Indexes  == 0..31
None     == 0

VARIABLES
  multicast,   \* the destination is a group
  submitted,   \* messages submitted so far
  control,     \* ctx.is_ctl of each message
  size,        \* number of fragments of each message
  seq,         \* ctx.seq_number of each message
  nextSeq,     \* the profile's sequence number
  transaction, \* the message in tx_transactions[dest], or None
  queue,       \* __queues[dest]
  pc,          \* where the sending thread of each message is
  index,       \* fragment_index in each thread
  finished,    \* is_transaction_finished
  acked,       \* acked_segments
  progress,    \* acked_received
  rounds,      \* unicast_retrans_count
  idleRounds,  \* unicast_retrans_no_progress_count
  sent,        \* PDUs given to the network layer
  received,    \* PDUs the destination has accepted (external)
  acks,        \* acknowledgments the destination has sent (external)
  deaf         \* the node's receiving thread has died of an exception

shape    == <<multicast, control, size, seq>>
threads  == <<pc, index>>
progressOf == <<finished, acked, progress, rounds, idleRounds>>
peer     == <<received, acks>>
vars == <<shape, submitted, nextSeq, transaction, queue, threads, progressOf, sent, peer, deaf>>

Pdu == [seq : Nat, message : Messages, segment : Indexes]
Got(m)       == {p.segment : p \in {q \in received : q.message = m}}
Fragments(m) == 0..(size[m] - 1)
SeqZero(m)   == seq[m] % 8192

TypeOK ==
  /\ multicast \in BOOLEAN
  /\ submitted \in 0..MaxMessages
  /\ control \in [Messages -> BOOLEAN]
  /\ size \in [Messages -> SegmentCounts \cup {0}]
  /\ seq \in [Messages -> Nat]
  /\ nextSeq \in Nat
  /\ transaction \in Messages \cup {None}
  /\ queue \in Seq(Messages)
  /\ pc \in [Messages -> {"none", "queued", "unsegmented", "test", "start", "send", "wait",
                          "done", "died"}]
  /\ index \in [Messages -> 0..32]
  /\ finished \in [Messages -> BOOLEAN]
  /\ acked \in [Messages -> SUBSET Indexes]
  /\ progress \in [Messages -> BOOLEAN]
  /\ rounds \in [Messages -> 0..MaxRounds]
  /\ idleRounds \in [Messages -> 0..MaxIdleRounds]
  /\ sent \subseteq Pdu /\ received \subseteq sent
  /\ acks \subseteq [message : Messages, segments : SUBSET Indexes]
  /\ deaf \in BOOLEAN

Init ==
  /\ multicast \in BOOLEAN
  /\ submitted = 0
  /\ control = [m \in Messages |-> FALSE]
  /\ size = [m \in Messages |-> 0]
  /\ seq = [m \in Messages |-> 0]
  /\ nextSeq = 0
  /\ transaction = None
  /\ queue = <<>>
  /\ pc = [m \in Messages |-> "none"]
  /\ index = [m \in Messages |-> 0]
  /\ finished = [m \in Messages |-> FALSE]
  /\ acked = [m \in Messages |-> {}]
  /\ progress = [m \in Messages |-> FALSE]
  /\ rounds = [m \in Messages |-> MaxRounds]
  /\ idleRounds = [m \in Messages |-> MaxIdleRounds]
  /\ sent = {}
  /\ received = {}
  /\ acks = {}
  /\ deaf = FALSE

Goto(m, from, to) == pc[m] = from /\ pc' = [pc EXCEPT ![m] = to]

(***************************************************************************)
(* on_upper_transport_layer_message: the message has been given its        *)
(* sequence numbers by the upper transport layer, 4 of them for an access  *)
(* message and 5 for a control message.                                    *)
(***************************************************************************)
\* Mutant: one sequence number is drawn for a message.
ReservedOne(ctl) == 1

Reserved(ctl) == IF ctl THEN 5 ELSE 4

Busy == transaction # None /\ ~finished[transaction]

Enqueue(m) ==
  /\ Busy
  /\ queue' = Append(queue, m)
  /\ Goto(m, "none", "queued")
  /\ UNCHANGED transaction

StartTransaction(m, n) ==
  /\ ~Busy
  /\ transaction' = m
  /\ Goto(m, "none", IF n > 1 THEN "test" ELSE "unsegmented")
  /\ UNCHANGED queue

\* on_access_message, send_control_message, then the start of the transaction.
\* The context has no number of its own (none was set by hand in the shell), so
\* the test of ctx.seq_number succeeds and the message reserves its numbers.
Submit(ctl, n) ==
  LET m == submitted + 1 IN
  /\ submitted < MaxMessages
  /\ submitted' = m
  /\ control' = [control EXCEPT ![m] = ctl]
  /\ size' = [size EXCEPT ![m] = n]
  /\ seq' = [seq EXCEPT ![m] = nextSeq]
  /\ nextSeq' = nextSeq + Reserved(ctl)
  /\ Enqueue(m) \/ StartTransaction(m, n)
  /\ UNCHANGED <<multicast, index, progressOf, sent, peer, deaf>>

(***************************************************************************)
(* The sending threads.                                                    *)
(***************************************************************************)
PduOf(m, i) == [seq |-> seq[m] + i, message |-> m, segment |-> i]

SendUnsegmented(m) ==
  /\ Goto(m, "unsegmented", "done")
  /\ sent' = sent \cup {PduOf(m, 0)}
  /\ finished' = [finished EXCEPT ![m] = TRUE]
  /\ UNCHANGED <<shape, submitted, nextSeq, transaction, queue, index, acked, progress, rounds,
                 idleRounds, peer, deaf>>

\* Mutant: one round too many.
TestRoundOnceMore(m) ==
  LET again == rounds[m] >= 0 /\ idleRounds[m] > 0 /\ ~finished[m] IN
  /\ Goto(m, "test", IF again THEN "start" ELSE "done")
  /\ idleRounds' = IF again /\ ~progress[m]
                   THEN [idleRounds EXCEPT ![m] = @ - 1] ELSE idleRounds
  /\ UNCHANGED <<shape, submitted, nextSeq, transaction, queue, index, finished, acked,
                 progress, rounds, sent, peer, deaf>>

\* The loop condition, and the test of acked_received.
TestRound(m) ==
  LET again == rounds[m] > 0 /\ idleRounds[m] > 0 /\ ~finished[m] IN
  /\ Goto(m, "test", IF again THEN "start" ELSE "done")
  /\ idleRounds' = IF again /\ ~progress[m]
                   THEN [idleRounds EXCEPT ![m] = @ - 1] ELSE idleRounds
  /\ UNCHANGED <<shape, submitted, nextSeq, transaction, queue, index, finished, acked,
                 progress, rounds, sent, peer, deaf>>

\* acked_received is reset: an acknowledgment since the test is forgotten.
StartRound(m) ==
  /\ Goto(m, "start", "send")
  /\ index' = [index EXCEPT ![m] = 0]
  /\ progress' = [progress EXCEPT ![m] = FALSE]
  /\ rounds' = [rounds EXCEPT ![m] = @ - 1]
  /\ UNCHANGED <<shape, submitted, nextSeq, transaction, queue, finished, acked, idleRounds,
                 sent, peer, deaf>>

\* A control message has no seq_auth, and the multicast threads read a
\* seq_zero that the context of a message to send does not have: the thread
\* ends by an exception at its first segment, so that the round count of the
\* multicast threads, which is one of their own, never matters.
CanSegment(m) == ~control[m] /\ ~multicast

SendRaises(m) ==
  /\ ~CanSegment(m)
  /\ Goto(m, "send", "died")
  /\ UNCHANGED <<shape, submitted, nextSeq, transaction, queue, index, progressOf, sent, peer,
                 deaf>>

\* A fragment is sent unless it has been acknowledged by now.
SendSegment(m) ==
  /\ CanSegment(m)
  /\ Goto(m, "send", IF index[m] = size[m] - 1 THEN "wait" ELSE "send")
  /\ index' = [index EXCEPT ![m] = @ + 1]
  /\ sent' = IF index[m] \in acked[m] THEN sent ELSE sent \cup {PduOf(m, index[m])}
  /\ UNCHANGED <<shape, submitted, nextSeq, transaction, queue, progressOf, peer, deaf>>

\* Mutant: the wait has no timeout.
EndWaitByEvent(m) ==
  /\ Goto(m, "wait", "test")
  /\ progress[m] \/ finished[m]
  /\ UNCHANGED <<shape, submitted, nextSeq, transaction, queue, index, progressOf, sent, peer,
                 deaf>>

\* The wait for the event ends, by the event or by its timeout.
EndWait(m) ==
  /\ Goto(m, "wait", "test")
  /\ UNCHANGED <<shape, submitted, nextSeq, transaction, queue, index, progressOf, sent, peer,
                 deaf>>

(***************************************************************************)
(* process_ack, run by the receiving thread on the transaction of the      *)
(* destination, if that one is not finished.                               *)
(***************************************************************************)
HearAck(a) ==
  /\ a \in acks
  /\ Busy /\ ~deaf /\ ~multicast

\* Mutant: an acknowledgment is applied to whatever is being sent.
ForAnyTransaction(a) == TRUE

ForTransaction(a) == SeqZero(a.message) = SeqZero(transaction)

\* The transaction of a control message has no seq_auth to compare with.
AckRaises(a) ==
  /\ HearAck(a)
  /\ control[transaction]
  /\ deaf' = TRUE
  /\ UNCHANGED <<shape, submitted, nextSeq, transaction, queue, threads, progressOf, sent, peer>>

AckCancels(a) ==
  /\ HearAck(a)
  /\ ~control[transaction] /\ ForTransaction(a)
  /\ a.segments = {}
  /\ finished' = [finished EXCEPT ![transaction] = TRUE]
  /\ UNCHANGED <<shape, submitted, nextSeq, transaction, queue, threads, acked, progress,
                 rounds, idleRounds, sent, peer, deaf>>

\* The latest acknowledgment replaces the earlier ones, whatever their order.
ApplyAck(a) ==
  /\ HearAck(a)
  /\ ~control[transaction] /\ ForTransaction(a)
  /\ a.segments # {}
  /\ progress' = [progress EXCEPT ![transaction] = @ \/ a.segments # acked[transaction]]
  /\ acked' = [acked EXCEPT ![transaction] = a.segments]
  /\ finished' = [finished EXCEPT ![transaction] =
                    Cardinality(a.segments) = size[transaction]]
  /\ UNCHANGED <<shape, submitted, nextSeq, transaction, queue, threads, rounds, idleRounds,
                 sent, peer, deaf>>

(***************************************************************************)
(* The destination (external): it drops a PDU whose sequence number it has *)
(* in its cache, and acknowledges the segments it has, or none to cancel.  *)
(* What it receives shows only in its acknowledgments, so the PDUs it has  *)
(* accepted since the last one are taken with the next.                    *)
(***************************************************************************)
Accepts(pdus) ==
  /\ \A p \in pdus, q \in received : p.seq # q.seq
  /\ \A p, q \in pdus : p # q => p.seq # q.seq
  /\ received' = received \cup pdus

PeerAcks(m, pdus, cancel) ==
  /\ size[m] > 1 /\ ~multicast
  /\ Cardinality(acks) < MaxAcks
  /\ Accepts(pdus)
  /\ LET has == Got(m) \cup {p.segment : p \in pdus} IN
     /\ has # {}
     /\ acks' = acks \cup {[message |-> m, segments |-> IF cancel THEN {} ELSE has]}
  /\ UNCHANGED <<shape, submitted, nextSeq, transaction, queue, threads, progressOf, sent, deaf>>

SentOf(m) == {p \in sent : p.message = m}

ThreadStep(m) ==
  \/ SendUnsegmented(m)
  \/ TestRound(m)
  \/ StartRound(m)
  \/ SendRaises(m)
  \/ SendSegment(m)
  \/ EndWait(m)

AckStep(a) == AckRaises(a) \/ AckCancels(a) \/ ApplyAck(a)

Next ==
  \/ \E ctl \in BOOLEAN, n \in SegmentCounts : Submit(ctl, n)
  \/ \E m \in Messages : ThreadStep(m)
  \/ \E a \in acks : AckStep(a)
  \/ \E m \in Messages : \E pdus \in SUBSET SentOf(m), cancel \in BOOLEAN :
       PeerAcks(m, pdus, cancel)

\* The threads run; the medium, the destination and the application owe
\* nothing.
Fairness == \A m \in Messages : WF_vars(ThreadStep(m))

Spec == Init /\ [][Next]_vars

FairSpec == Spec /\ Fairness

-----------------------------------------------------------------------------
(***************************************************************************)
(* Properties.                                                             *)
(***************************************************************************)

\* A segment is withheld, and a segmented message is given as finished, only
\* because the destination has it: neither a late acknowledgment of another
\* message nor a reordered one can make the node skip a segment.  The one
\* exception is a destination that cancels the message.
AckedWasReceived ==
  \A m \in Messages : size[m] > 1 =>
    /\ acked[m] \subseteq Got(m)
    /\ finished[m] => \/ Got(m) = Fragments(m)
                      \/ [message |-> m, segments |-> {}] \in acks

\* No two PDUs share a sequence number, so that the caches of the network
\* drop only repetitions: the numbers reserved for a message are enough for
\* its segments.
SeqDistinct == \A p, q \in sent : p.seq = q.seq => p = q

\* The steps a sending thread may still take, at most: a round is its start,
\* 32 segments, the wait and the test of the next.
StepsLeft(m) ==
  CASE pc[m] = "unsegmented" -> 1
    [] pc[m] = "start"       -> 35 * rounds[m]
    [] pc[m] = "send"        -> 35 * rounds[m] + 34 - index[m]
    [] pc[m] = "wait"        -> 35 * rounds[m] + 2
    [] pc[m] = "test"        -> 35 * rounds[m] + 1
    [] OTHER                 -> 0

\* A sending thread runs down: each of its steps leaves it fewer, and no
\* acknowledgment, repeated or late, gives it more.
ThreadsRunDown ==
  [][\A m \in Messages :
       /\ ThreadStep(m) => StepsLeft(m)' \in 0..(StepsLeft(m) - 1)
       /\ pc[m] # "none" => StepsLeft(m)' <= StepsLeft(m)]_vars

\* Every sending thread ends, whichever acknowledgments arrive, even if the
\* same ones arrive again and again.
ThreadEnds ==
  \A m \in Messages :
    (pc[m] \notin {"none", "queued"}) ~> (pc[m] \in {"done", "died"})
=============================================================================
