--------------------------- MODULE LowerTransportRx ---------------------------
(***************************************************************************)
(* Receiving over Bluetooth Mesh: the network cache                        *)
(* (whad/btmesh/stack/network), and the reassembly of the messages of one  *)
(* source (whad/btmesh/stack/lower_transport).  One thread receives the    *)
(* PDUs; acknowledgments are sent by timers.                               *)
(*                                                                         *)
(* The source (external) sends every segment in one or several             *)
(* transmissions, with sequence numbers of their own, and the medium       *)
(* loses, repeats and reorders them.  Sequence numbers stand for the       *)
(* SeqAuth values they extend: the IV index does not change.               *)
(***************************************************************************)
EXTENDS Integers, Sequences, FiniteSets

CONSTANTS
  MaxMessages,   \* bound: messages of the source
  Sizes,         \* numbers of segments; 0 is an unsegmented message
  Transmissions, \* times the source sends each PDU
  FirstSeq,      \* sequence number of the source's first PDU
  AckThreshold   \* sar_segment_threshold

ASSUME SourceAssumption ==
  /\ MaxMessages \in Nat /\ Transmissions \in Nat \ {0} /\ FirstSeq \in Nat \ {0}
  /\ Sizes \subseteq 0..32 /\ Sizes # {}
  /\ AckThreshold \in Nat

Messages == 1..MaxMessages
None     == 0

\* What arrives: segment i of message m, in its r-th transmission.
Stride == 32 * Transmissions
Base(m) == FirstSeq + (m - 1) * Stride
Pdu(m, i, r, n) == [message |-> m, segment |-> i, seq |-> Base(m) + 32 * r + i, last |-> n - 1]

\* calculate_seq_auth: the first sequence number of the message, from the
\* number of any of its segments and the 13 bits of SeqZero.
SeqZeroSpan == 8192

\* Mutant: the wrap-around is not seen.
SeqAuthUnwrapped(seq, seqZero) == seq - ((seq % SeqZeroSpan) - seqZero)

\* Mutant: a first segment is taken for a segment past the wrap-around.
SeqAuthOffByOne(seq, seqZero) ==
  LET masked == seq % SeqZeroSpan IN
  IF masked <= seqZero THEN seq - (masked - seqZero) - SeqZeroSpan
                       ELSE seq - (masked - seqZero)

SeqAuth(seq, seqZero) ==
  LET masked == seq % SeqZeroSpan IN
  IF masked < seqZero THEN seq - (masked - seqZero) - SeqZeroSpan
                      ELSE seq - (masked - seqZero)

VARIABLES
  size,      \* number of segments of each message of the source
  cache,     \* the network layer's cache of the source's sequence numbers
  lastAuth,  \* seq_auth_values[src], or None
  rx,        \* rx_transactions[src], or NoTransaction
  timers,    \* running acknowledgment timers
  acks,      \* messages acknowledged
  delivered, \* messages given to the upper transport layer
  arrived    \* history: segments that passed the network cache

vars == <<size, cache, lastAuth, rx, timers, acks, delivered, arrived>>

\* A transaction: its first segment's context, its fragments by offset, and
\* the state of its event.
NoTransaction == [auth |-> None, message |-> None, ctxSeq |-> 0, last |-> 0, fragments |-> {},
                  finished |-> FALSE]

TypeOK ==
  /\ size \in [Messages -> Sizes]
  /\ cache \subseteq Nat
  /\ lastAuth \in Nat
  /\ rx \in [auth : Nat, message : Messages \cup {None}, ctxSeq : Nat, last : 0..31,
             fragments : SUBSET ((0..31) \X Messages), finished : BOOLEAN]
  /\ timers \subseteq [message : Messages, last : 0..31, eventSet : BOOLEAN]
  /\ acks \subseteq Messages
  /\ delivered \in Seq([message : Messages, auth : Nat, nonce : Nat])
  /\ arrived \subseteq (Messages \X (0..31))

Init ==
  /\ size \in [Messages -> Sizes]
  /\ cache = {}
  /\ lastAuth = None
  /\ rx = NoTransaction
  /\ timers = {}
  /\ acks = {}
  /\ delivered = <<>>
  /\ arrived = {}

Deliver(m, auth, nonce) ==
  delivered' = Append(delivered, [message |-> m, auth |-> auth, nonce |-> nonce])

\* Every timer is given an Event() just created, and no handler sets it.
StartAckTimer(m, last) ==
  timers' = timers \cup {[message |-> m, last |-> last, eventSet |-> FALSE]}

(***************************************************************************)
(* dispatch_access_rx_pdu and dispatch_control_rx_pdu, which differ only   *)
(* in what the upper layer receives.                                       *)
(***************************************************************************)
\* Mutant: an unsegmented message is accepted whatever its age.
OnUnsegmentedAlways(p) ==
  /\ p.last = -1
  /\ lastAuth' = p.seq
  /\ Deliver(p.message, p.seq, p.seq)
  /\ UNCHANGED <<rx, timers, acks>>

OnUnsegmented(p) ==
  /\ p.last = -1
  /\ lastAuth = None \/ p.seq > lastAuth
  /\ lastAuth' = p.seq
  /\ Deliver(p.message, p.seq, p.seq)
  /\ UNCHANGED <<rx, timers, acks>>

AuthOf(p) == SeqAuth(p.seq, Base(p.message) % SeqZeroSpan)

\* A newer message: its transaction replaces the one before.
NewTransaction(p) ==
  /\ p.last >= 0
  /\ lastAuth = None \/ AuthOf(p) > lastAuth
  /\ lastAuth' = AuthOf(p)
  /\ rx' = [auth |-> AuthOf(p), message |-> p.message, ctxSeq |-> p.seq, last |-> p.last,
            fragments |-> {<<p.segment, p.message>>}, finished |-> FALSE]
  /\ StartAckTimer(p.message, p.last)
  /\ UNCHANGED <<acks, delivered>>

\* Mutant: any segment that is not newer goes to the transaction.
ToAnyTransaction(p) ==
  /\ p.last >= 0
  /\ lastAuth # None /\ AuthOf(p) <= lastAuth
  /\ rx # NoTransaction

\* A segment of the latest message, or of the latest transaction at least.
ToTransaction(p) ==
  /\ p.last >= 0
  /\ lastAuth # None /\ AuthOf(p) = lastAuth
  /\ rx # NoTransaction

\* process_rx_seg_message: the message goes up with the context of the first
\* segment received.
With(p) == {f \in rx.fragments : f[1] # p.segment} \cup {<<p.segment, p.message>>}

\* Mutant: the last segment number is taken for the number of segments.
AddSegmentShort(p) ==
  /\ ToTransaction(p)
  /\ ~rx.finished
  /\ LET complete == Cardinality(With(p)) = rx.last IN
     /\ rx' = [rx EXCEPT !.fragments = With(p), !.finished = complete]
     /\ IF complete
        THEN Deliver(rx.message, rx.auth, rx.ctxSeq) /\ StartAckTimer(rx.message, rx.last)
        ELSE UNCHANGED <<delivered, timers>>
  /\ UNCHANGED <<lastAuth, acks>>

AddSegment(p) ==
  /\ ToTransaction(p)
  /\ ~rx.finished
  /\ LET complete == Cardinality(With(p)) = rx.last + 1 IN
     /\ rx' = [rx EXCEPT !.fragments = With(p), !.finished = complete]
     /\ IF complete
        THEN Deliver(rx.message, rx.auth, rx.ctxSeq) /\ StartAckTimer(rx.message, rx.last)
        ELSE UNCHANGED <<delivered, timers>>
  /\ UNCHANGED <<lastAuth, acks>>

RepeatSegment(p) ==
  /\ ToTransaction(p)
  /\ rx.finished
  /\ StartAckTimer(rx.message, rx.last)
  /\ UNCHANGED <<lastAuth, rx, acks, delivered>>

Handle(p) ==
  \/ OnUnsegmented(p)
  \/ NewTransaction(p)
  \/ AddSegment(p)
  \/ RepeatSegment(p)

\* An old message is discarded, and so is a segment with the SeqAuth of an
\* unsegmented message.
Discard(p) ==
  /\ lastAuth # None
  /\ IF p.last = -1 THEN p.seq <= lastAuth
     ELSE AuthOf(p) < lastAuth \/ (AuthOf(p) = lastAuth /\ rx = NoTransaction)
  /\ UNCHANGED <<lastAuth, rx, timers, acks, delivered>>

\* on_net_pdu_received: a PDU whose number is in the cache goes no further.
Receive(p) ==
  /\ p.seq \notin cache
  /\ cache' = cache \cup {p.seq}
  /\ arrived' = arrived \cup {<<p.message, p.segment>>}
  /\ Handle(p) \/ Discard(p)
  /\ UNCHANGED size

\* sending_ack_thread.
AckTimer(t) ==
  /\ timers' = timers \ {t}
  /\ acks' = IF t.eventSet /\ t.last > AckThreshold THEN acks \cup {t.message} ELSE acks
  /\ UNCHANGED <<size, cache, lastAuth, rx, delivered, arrived>>

\* Only the segments of a segmented message are sent again with new numbers.
PdusOf(m) ==
  IF size[m] = 0 THEN {Pdu(m, 0, 0, 0)}
  ELSE {Pdu(m, i, r, size[m]) : i \in 0..(size[m] - 1), r \in 0..(Transmissions - 1)}

Next ==
  \/ \E m \in Messages : \E p \in PdusOf(m) : Receive(p)
  \/ \E t \in timers : AckTimer(t)

Spec == Init /\ [][Next]_vars

-----------------------------------------------------------------------------
(***************************************************************************)
(* Properties.                                                             *)
(***************************************************************************)

\* The fragments being assembled belong to one message, however segments of
\* successive messages are interleaved on the medium.
NoMixing == \A f \in rx.fragments : f[2] = rx.message

\* What goes up is a whole message: every segment of it has arrived.
WholeMessages ==
  \A k \in 1..Len(delivered) :
    LET m == delivered[k].message IN
    \A i \in 0..(size[m] - 1) : <<m, i>> \in arrived

\* Messages go up in the order of the source, each at most once: nothing is
\* replayed, whatever was repeated, retransmitted or delayed.
NoReplay ==
  \A j, k \in 1..Len(delivered) : j < k => delivered[j].message < delivered[k].message

\* SeqAuth is rebuilt exactly from 13 bits, across their wrap-around: what
\* is delivered is dated with its first sequence number.
DatedByFirstSegment ==
  \A k \in 1..Len(delivered) :
    size[delivered[k].message] > 0 => delivered[k].auth = Base(delivered[k].message)

\* The decryption nonce of a message is the "segment number Value (of first
\* segment)" (not so: it is the number of the first segment received).
NonceOfFirstSegment ==
  \A k \in 1..Len(delivered) : delivered[k].nonce = delivered[k].auth
=============================================================================
