----------------------- MODULE LowerTransportTx_proofs -----------------------
(***************************************************************************)
(* Proofs about LowerTransportTx, for any number of messages,              *)
(* acknowledgments and rounds.                                             *)
(***************************************************************************)
EXTENDS LowerTransportTx, SequenceTheorems, FiniteSetTheorems, TLAPS

\* What a thread may rely on: a message not submitted yet has no thread, the
\* others have fragments, and a thread about to send has one to send.
ThreadsKnow ==
  \A m \in Messages :
    /\ (m > submitted) <=> (pc[m] = "none")
    /\ m <= submitted => size[m] \in SegmentCounts
    /\ pc[m] = "start" => rounds[m] > 0
    /\ pc[m] = "send" => index[m] < size[m]

SentByMessages ==
  \A p \in sent :
    /\ p.message <= submitted
    /\ p.segment < size[p.message]
    /\ p.seq = seq[p.message] + p.segment

TypeInv == TypeOK /\ ThreadsKnow /\ SentByMessages

LEMMA Constants ==
  /\ MaxMessages \in Nat /\ MaxAcks \in Nat /\ MaxRounds \in Nat /\ MaxIdleRounds \in Nat
  /\ SegmentCounts \subseteq 1..32 /\ SegmentCounts # {}
  /\ Messages \subseteq Nat \ {0} /\ None \notin Messages
  /\ \A m \in Messages : m <= MaxMessages
  BY CountAssumption DEF Messages, None

LEMMA TypeInvInit == Init => TypeInv
<1> SUFFICES ASSUME Init PROVE TypeInv
  OBVIOUS
<1> USE Constants
<1>1. TypeOK
  <2>1. /\ control \in [Messages -> BOOLEAN] /\ seq \in [Messages -> Nat]
        /\ size \in [Messages -> SegmentCounts \cup {0}]
        /\ index \in [Messages -> 0..32] /\ finished \in [Messages -> BOOLEAN]
        /\ progress \in [Messages -> BOOLEAN]
    BY DEF Init
  <2>2. rounds \in [Messages -> 0..MaxRounds] /\ idleRounds \in [Messages -> 0..MaxIdleRounds]
    BY DEF Init
  <2>3. acked \in [Messages -> SUBSET Indexes]
    BY DEF Init
  <2>4. pc \in [Messages -> {"none", "queued", "unsegmented", "test", "start", "send", "wait",
                             "done", "died"}]
    BY DEF Init
  <2>5. queue \in Seq(Messages)
    BY DEF Init
  <2>6. /\ submitted \in 0..MaxMessages /\ nextSeq \in Nat
        /\ transaction \in Messages \cup {None}
    BY DEF Init
  <2>8. multicast \in BOOLEAN /\ deaf \in BOOLEAN
    BY Zenon DEF Init
  <2>7. /\ sent \subseteq Pdu /\ received \subseteq sent
        /\ acks \subseteq [message : Messages, segments : SUBSET Indexes]
    BY DEF Init
  <2> QED
    BY <2>1, <2>2, <2>3, <2>4, <2>5, <2>6, <2>7, <2>8 DEF TypeOK
<1>2. ThreadsKnow
  BY DEF Init, ThreadsKnow
<1>3. SentByMessages
  BY DEF Init, SentByMessages
<1> QED
  BY <1>1, <1>2, <1>3 DEF TypeInv

LEMMA PduTypes ==
  ASSUME TypeInv, NEW m \in Messages, m <= submitted, NEW i \in Nat, i < size[m]
  PROVE  /\ PduOf(m, i) \in Pdu /\ PduOf(m, i).message = m /\ PduOf(m, i).segment = i
         /\ PduOf(m, i).seq = seq[m] + i
         /\ i \in Indexes
<1>1. size[m] \in 1..32 /\ seq[m] \in Nat
  BY Constants DEF TypeInv, TypeOK, ThreadsKnow
<1>2. i \in 0..31
  BY <1>1
<1> QED
  BY <1>1, <1>2 DEF PduOf, Pdu, Indexes

LEMMA SubmitTypes ==
  ASSUME TypeInv, NEW ctl \in BOOLEAN, NEW n \in SegmentCounts, Submit(ctl, n)
  PROVE  TypeInv'
<1> DEFINE m == submitted + 1
<1> USE Constants
<1>1. /\ m \in Messages /\ submitted' = m /\ submitted \in Nat
      /\ control' = [control EXCEPT ![m] = ctl] /\ size' = [size EXCEPT ![m] = n]
      /\ seq' = [seq EXCEPT ![m] = nextSeq]
      /\ nextSeq' = nextSeq + Reserved(ctl) /\ nextSeq' \in Nat
      /\ UNCHANGED <<multicast, index, finished, acked, progress, rounds, idleRounds, sent,
                     received, acks, deaf>>
  BY DEF Submit, TypeInv, TypeOK, Messages, Reserved, progressOf, peer
<1>2. Enqueue(m) \/ StartTransaction(m, n)
  BY DEF Submit
<1>3. /\ pc[m] = "none"
      /\ \E to \in {"queued", "test", "unsegmented"} : pc' = [pc EXCEPT ![m] = to]
      /\ queue' \in Seq(Messages) /\ transaction' \in Messages \cup {None}
  <2>1. CASE Enqueue(m)
    BY <1>1, <2>1, AppendProperties DEF Enqueue, Goto, TypeInv, TypeOK
  <2>2. CASE StartTransaction(m, n)
    BY <1>1, <2>2 DEF StartTransaction, Goto, TypeInv, TypeOK
  <2> QED
    BY <1>2, <2>1, <2>2
<1> HIDE DEF m
<1>4. TypeOK'
  <2>1. /\ submitted' \in 0..MaxMessages /\ nextSeq' \in Nat
        /\ control' \in [Messages -> BOOLEAN]
        /\ size' \in [Messages -> SegmentCounts \cup {0}]
        /\ seq' \in [Messages -> Nat]
    BY <1>1 DEF TypeInv, TypeOK
  <2>2. pc' \in [Messages -> {"none", "queued", "unsegmented", "test", "start", "send", "wait",
                              "done", "died"}]
    BY <1>1, <1>3 DEF TypeInv, TypeOK
  <2> QED
    BY <1>1, <1>3, <2>1, <2>2 DEF TypeInv, TypeOK
<1>5. ThreadsKnow'
  <2> SUFFICES ASSUME NEW k \in Messages
               PROVE  /\ (k > submitted') <=> (pc'[k] = "none")
                      /\ k <= submitted' => size'[k] \in SegmentCounts
                      /\ pc'[k] = "start" => rounds'[k] > 0
                      /\ pc'[k] = "send" => index'[k] < size'[k]
    BY DEF ThreadsKnow
  <2>1. CASE k = m
    BY <1>1, <1>3, <2>1 DEF TypeInv, TypeOK
  <2>2. CASE k # m
    <3>1. (k > submitted') <=> (k > submitted)
      BY <1>1, <2>2 DEF m
    <3>2. pc'[k] = pc[k] /\ size'[k] = size[k]
      BY <1>1, <1>3, <2>2 DEF TypeInv, TypeOK
    <3> QED
      BY <1>1, <3>1, <3>2 DEF TypeInv, ThreadsKnow
  <2> QED
    BY <2>1, <2>2
<1>6. SentByMessages'
  <2> SUFFICES ASSUME NEW p \in sent
               PROVE  /\ p.message <= submitted'
                      /\ p.segment < size'[p.message]
                      /\ p.seq = seq'[p.message] + p.segment
    BY <1>1 DEF SentByMessages
  <2>1. p.message \in Messages /\ p.message <= submitted
    BY DEF TypeInv, TypeOK, SentByMessages, Pdu
  <2>2. p.message # m
    BY <1>1, <2>1 DEF m
  <2>3. size'[p.message] = size[p.message] /\ seq'[p.message] = seq[p.message]
    BY <1>1, <2>1, <2>2 DEF TypeInv, TypeOK
  <2>4. p.message <= submitted'
    <3>1. submitted' = submitted + 1 /\ submitted \in Nat /\ p.message \in Nat
      BY <1>1, <2>1 DEF m
    <3> QED
      BY <2>1, <3>1
  <2>5. p.segment < size[p.message] /\ p.seq = seq[p.message] + p.segment
    BY DEF TypeInv, SentByMessages
  <2> QED
    BY <2>3, <2>4, <2>5
<1> QED
  BY <1>4, <1>5, <1>6 DEF TypeInv

\* A step of the thread of message m, or of the receiving thread.
Frame(m) ==
  /\ UNCHANGED <<shape, submitted, nextSeq, transaction, queue, peer>>
  /\ \E to \in {"unsegmented", "test", "start", "send", "wait", "done", "died"} :
       pc' = [pc EXCEPT ![m] = to]

LEMMA StepTypes ==
  ASSUME TypeInv, NEW m \in Messages, pc[m] # "none", Frame(m), TypeOK',
         pc'[m] = "start" => rounds'[m] > 0,
         pc'[m] = "send" => index'[m] < size[m],
         \A k \in Messages : k # m => rounds'[k] = rounds[k] /\ index'[k] = index[k],
         SentByMessages'
  PROVE  TypeInv'
<1>1. ThreadsKnow'
  <2> SUFFICES ASSUME NEW k \in Messages
               PROVE  /\ (k > submitted) <=> (pc'[k] = "none")
                      /\ k <= submitted => size[k] \in SegmentCounts
                      /\ pc'[k] = "start" => rounds'[k] > 0
                      /\ pc'[k] = "send" => index'[k] < size[k]
    BY DEF ThreadsKnow, Frame, shape
  <2>1. /\ (k > submitted) <=> (pc[k] = "none")
        /\ k <= submitted => size[k] \in SegmentCounts
        /\ pc[k] = "start" => rounds[k] > 0
        /\ pc[k] = "send" => index[k] < size[k]
    BY DEF TypeInv, ThreadsKnow
  <2>2. CASE k = m
    <3>1. pc'[k] # "none"
      BY <2>2 DEF Frame, TypeInv, TypeOK
    <3> QED
      BY <2>1, <2>2, <3>1
  <2>3. CASE k # m
    <3>1. pc'[k] = pc[k]
      BY <2>3 DEF Frame, TypeInv, TypeOK
    <3> QED
      BY <2>1, <2>3, <3>1
  <2> QED
    BY <2>2, <2>3
<1> QED
  BY <1>1 DEF TypeInv

LEMMA ThreadTypes ==
  ASSUME TypeInv, NEW m \in Messages, ThreadStep(m)
  PROVE  TypeInv'
<1> USE Constants
<1>0. /\ pc[m] # "none" => m <= submitted /\ size[m] \in SegmentCounts /\ size[m] \in 1..32
      /\ pc \in [Messages -> {"none", "queued", "unsegmented", "test", "start", "send", "wait",
                              "done", "died"}]
      /\ submitted \in Nat
  <2>1. submitted \in Nat /\ m \in Nat
    BY DEF TypeInv, TypeOK
  <2>2. (m > submitted) <=> (pc[m] = "none")
    BY DEF TypeInv, ThreadsKnow
  <2>3. m <= submitted => size[m] \in SegmentCounts
    BY DEF TypeInv, ThreadsKnow
  <2>4. pc \in [Messages -> {"none", "queued", "unsegmented", "test", "start", "send", "wait",
                             "done", "died"}]
    BY DEF TypeInv, TypeOK
  <2>5. pc[m] # "none" => m <= submitted
    BY <2>1, <2>2
  <2>6. size[m] \in SegmentCounts => size[m] \in 1..32
    OBVIOUS
  <2> QED
    BY <2>1, <2>3, <2>4, <2>5, <2>6
<1>1. CASE SendUnsegmented(m)
  <2>1. /\ Frame(m) /\ pc[m] = "unsegmented" /\ pc'[m] = "done"
        /\ rounds' = rounds /\ index' = index
        /\ sent' = sent \cup {PduOf(m, 0)}
    BY <1>0, <1>1 DEF SendUnsegmented, Goto, Frame
  <2>2. PduOf(m, 0) \in Pdu
    BY <1>0, <2>1, PduTypes
  <2>3. TypeOK'
    BY <1>1, <2>2 DEF SendUnsegmented, Goto, TypeInv, TypeOK, shape, peer
  <2>4. SentByMessages'
    BY <1>0, <2>1, PduTypes DEF TypeInv, SentByMessages, Frame, shape
  <2> QED
    BY <2>1, <2>3, <2>4, StepTypes
<1>2. CASE TestRound(m)
  <2>1. /\ Frame(m) /\ pc[m] = "test" /\ pc'[m] \in {"start", "done"}
        /\ rounds' = rounds /\ index' = index /\ sent' = sent
        /\ pc'[m] = "start" => rounds[m] > 0 /\ idleRounds[m] > 0
        /\ idleRounds' = idleRounds \/ (idleRounds[m] > 0 /\ idleRounds' = [idleRounds EXCEPT ![m] = @ - 1])
    BY <1>0, <1>2 DEF TestRound, Goto, Frame
  <2>2. idleRounds' \in [Messages -> 0..MaxIdleRounds]
    <3>1. idleRounds \in [Messages -> 0..MaxIdleRounds]
      BY DEF TypeInv, TypeOK
    <3>2. idleRounds[m] > 0 => idleRounds[m] - 1 \in 0..MaxIdleRounds
      BY <3>1
    <3> QED
      BY <2>1, <3>1, <3>2
  <2>3. TypeOK'
    BY <1>2, <2>1, <2>2 DEF TestRound, Goto, TypeInv, TypeOK, shape, peer
  <2>4. SentByMessages'
    BY <2>1 DEF TypeInv, SentByMessages, Frame, shape
  <2> QED
    BY <2>1, <2>3, <2>4, StepTypes
<1>3. CASE StartRound(m)
  <2>1. /\ Frame(m) /\ pc[m] = "start" /\ pc'[m] = "send"
        /\ index' = [index EXCEPT ![m] = 0] /\ progress' = [progress EXCEPT ![m] = FALSE]
        /\ rounds' = [rounds EXCEPT ![m] = @ - 1] /\ rounds[m] > 0 /\ sent' = sent
    BY <1>0, <1>3 DEF StartRound, Goto, Frame, TypeInv, ThreadsKnow
  <2>2. rounds' \in [Messages -> 0..MaxRounds] /\ index' \in [Messages -> 0..32]
    <3>1. rounds \in [Messages -> 0..MaxRounds] /\ index \in [Messages -> 0..32]
      BY DEF TypeInv, TypeOK
    <3>2. rounds[m] - 1 \in 0..MaxRounds
      BY <2>1, <3>1
    <3> QED
      BY <2>1, <3>1, <3>2
  <2>3. TypeOK'
    BY <1>3, <2>1, <2>2 DEF StartRound, Goto, TypeInv, TypeOK, shape, peer
  <2>4. SentByMessages'
    BY <2>1 DEF TypeInv, SentByMessages, Frame, shape
  <2>5. /\ index'[m] < size[m]
        /\ \A k \in Messages : k # m => rounds'[k] = rounds[k] /\ index'[k] = index[k]
    <3>1. index'[m] = 0 /\ size[m] \in 1..32
      BY <1>0, <2>1 DEF TypeInv, TypeOK
    <3>2. \A k \in Messages : k # m => rounds'[k] = rounds[k] /\ index'[k] = index[k]
      BY <2>1 DEF TypeInv, TypeOK
    <3>3. index'[m] < size[m]
      BY ONLY <3>1
    <3> QED
      BY ONLY <3>2, <3>3
  <2> QED
    BY <2>1, <2>3, <2>4, <2>5, StepTypes
<1>4. CASE SendRaises(m) \/ EndWait(m)
  <2>1. /\ Frame(m) /\ pc[m] \in {"send", "wait"} /\ pc'[m] \in {"died", "test"}
        /\ rounds' = rounds /\ index' = index /\ sent' = sent
    BY <1>0, <1>4 DEF SendRaises, EndWait, Goto, Frame, progressOf
  <2>2. TypeOK'
    BY <1>4, <2>1 DEF SendRaises, EndWait, Goto, TypeInv, TypeOK, shape, peer, progressOf
  <2>3. SentByMessages'
    BY <2>1 DEF TypeInv, SentByMessages, Frame, shape
  <2> QED
    BY <2>1, <2>2, <2>3, StepTypes
<1>5. CASE SendSegment(m)
  <2>0. /\ pc[m] = "send" /\ index' = [index EXCEPT ![m] = @ + 1] /\ rounds' = rounds
        /\ pc' = [pc EXCEPT ![m] = IF index[m] = size[m] - 1 THEN "wait" ELSE "send"]
        /\ UNCHANGED <<shape, submitted, nextSeq, transaction, queue, peer, progressOf, deaf>>
        /\ \/ sent' = sent
           \/ sent' = sent \cup {PduOf(m, index[m])}
    BY <1>5 DEF SendSegment, Goto, progressOf
  <2>9. /\ index[m] < size[m] /\ index[m] \in Nat /\ size[m] \in 1..32
        /\ pc'[m] = IF index[m] = size[m] - 1 THEN "wait" ELSE "send"
        /\ index'[m] = index[m] + 1
    <3>1. pc \in [Messages -> {"none", "queued", "unsegmented", "test", "start", "send", "wait",
                               "done", "died"}]
      BY <1>0
    <3>2. index \in [Messages -> 0..32]
      BY DEF TypeInv, TypeOK
    <3>3. index[m] < size[m] /\ size[m] \in 1..32
      BY <1>0, <2>0 DEF TypeInv, ThreadsKnow
    <3> QED
      BY <2>0, <3>1, <3>2, <3>3
  <2>10. Frame(m)
    BY <2>0 DEF Frame
  <2>1. /\ Frame(m) /\ pc[m] = "send" /\ index[m] < size[m] /\ index[m] \in Nat
        /\ pc'[m] = IF index[m] = size[m] - 1 THEN "wait" ELSE "send"
        /\ index' = [index EXCEPT ![m] = @ + 1]
        /\ rounds' = rounds
        /\ sent' \subseteq sent \cup {PduOf(m, index[m])} /\ sent \subseteq sent'
    BY <2>0, <2>9, <2>10
  <2>2. PduOf(m, index[m]) \in Pdu
    BY <1>0, <2>1, PduTypes
  <2>3. index' \in [Messages -> 0..32]
    <3>1. index[m] + 1 \in 0..32
      BY <2>9
    <3> QED
      BY <2>1, <3>1 DEF TypeInv, TypeOK
  <2>4. TypeOK'
    BY <1>5, <2>1, <2>2, <2>3 DEF SendSegment, Goto, TypeInv, TypeOK, shape, peer, progressOf
  <2>5. SentByMessages'
    BY <1>0, <2>1, PduTypes DEF TypeInv, SentByMessages, Frame, shape
  <2>6. /\ pc'[m] = "send" => index'[m] < size[m]
        /\ \A k \in Messages : k # m => rounds'[k] = rounds[k] /\ index'[k] = index[k]
    <3>1. pc'[m] = "send" => index'[m] < size[m]
      BY <2>9
    <3>2. \A k \in Messages : k # m => rounds'[k] = rounds[k] /\ index'[k] = index[k]
      BY <2>1 DEF TypeInv, TypeOK
    <3> QED
      BY <3>1, <3>2
  <2> QED
    BY <2>1, <2>4, <2>5, <2>6, StepTypes
<1> QED
  BY <1>1, <1>2, <1>3, <1>4, <1>5 DEF ThreadStep

LEMMA TypeInvNext == TypeInv /\ [Next]_vars => TypeInv'
<1> SUFFICES ASSUME TypeInv, [Next]_vars PROVE TypeInv'
  OBVIOUS
<1>1. ASSUME NEW ctl \in BOOLEAN, NEW n \in SegmentCounts, Submit(ctl, n) PROVE TypeInv'
  BY <1>1, SubmitTypes
<1>2. ASSUME NEW m \in Messages, ThreadStep(m) PROVE TypeInv'
  BY <1>2, ThreadTypes
<1>3. ASSUME NEW a \in acks, AckStep(a) PROVE TypeInv'
  <2>1. /\ UNCHANGED <<shape, submitted, nextSeq, transaction, queue, threads, rounds, idleRounds,
                       sent, peer>>
        /\ transaction \in Messages /\ deaf' \in BOOLEAN
    BY <1>3, Constants DEF AckStep, AckRaises, AckCancels, ApplyAck, HearAck, Busy, TypeInv, TypeOK,
                           progressOf
  <2>2. /\ finished' \in [Messages -> BOOLEAN] /\ progress' \in [Messages -> BOOLEAN]
        /\ acked' \in [Messages -> SUBSET Indexes]
    <3>1. CASE AckRaises(a) \/ AckCancels(a)
      BY <2>1, <3>1 DEF AckRaises, AckCancels, progressOf, TypeInv, TypeOK
    <3>2. CASE ApplyAck(a)
      BY <2>1, <3>2 DEF ApplyAck, TypeInv, TypeOK
    <3> QED
      BY <1>3, <3>1, <3>2 DEF AckStep
  <2>3. TypeOK'
    BY <2>1, <2>2 DEF TypeInv, TypeOK, shape, threads, peer
  <2>4. ThreadsKnow' /\ SentByMessages'
    BY <2>1 DEF TypeInv, ThreadsKnow, SentByMessages, shape, threads
  <2> QED
    BY <2>3, <2>4 DEF TypeInv
<1>4. ASSUME NEW m \in Messages, NEW pdus \in SUBSET SentOf(m), NEW cancel \in BOOLEAN,
             PeerAcks(m, pdus, cancel)
      PROVE  TypeInv'
  <2>1. UNCHANGED <<shape, submitted, nextSeq, transaction, queue, threads, progressOf, sent, deaf>>
    BY <1>4 DEF PeerAcks
  <2>2. received' \subseteq sent
    BY <1>4 DEF PeerAcks, Accepts, SentOf, TypeInv, TypeOK
  <2>3. Got(m) \cup {p.segment : p \in pdus} \subseteq Indexes
    BY DEF Got, SentOf, TypeInv, TypeOK, Pdu
  <2>4. acks' \subseteq [message : Messages, segments : SUBSET Indexes]
    BY <1>4, <2>3 DEF PeerAcks, TypeInv, TypeOK
  <2>5. TypeOK'
    BY <2>1, <2>2, <2>4 DEF TypeInv, TypeOK, shape, threads, progressOf
  <2>6. ThreadsKnow' /\ SentByMessages'
    BY <2>1 DEF TypeInv, ThreadsKnow, SentByMessages, shape, threads, progressOf
  <2> QED
    BY <2>5, <2>6 DEF TypeInv
<1>5. CASE UNCHANGED vars
  <2>1. TypeOK'
    BY <1>5 DEF vars, TypeInv, TypeOK, shape, threads, progressOf, peer
  <2>2. ThreadsKnow' /\ SentByMessages'
    BY <1>5 DEF vars, TypeInv, ThreadsKnow, SentByMessages, shape, threads, progressOf
  <2> QED
    BY <2>1, <2>2 DEF TypeInv
<1> QED
  BY <1>1, <1>2, <1>3, <1>4, <1>5 DEF Next

\* Every variable keeps to its type: in particular the counts of rounds stay
\* above zero and no thread runs past its last fragment.
THEOREM TypeCorrect == Spec => []TypeOK
<1>1. TypeInv => TypeOK
  BY DEF TypeInv
<1> QED
  BY TypeInvInit, TypeInvNext, <1>1, PTL DEF Spec

-----------------------------------------------------------------------------
(***************************************************************************)
(* Sequence numbers.  The numbers of two messages are at least 4 apart.    *)
(***************************************************************************)
Apart ==
  /\ \A m \in Messages : m <= submitted => seq[m] + 4 <= nextSeq
  /\ \A m, k \in Messages : m < k /\ k <= submitted => seq[m] + 4 <= seq[k]

LEMMA ApartInit == Init => Apart
  BY Constants DEF Init, Apart

LEMMA ApartNext == TypeInv /\ Apart /\ [Next]_vars => Apart'
<1> SUFFICES ASSUME TypeInv, Apart, [Next]_vars PROVE Apart'
  OBVIOUS
<1>1. ASSUME NEW ctl \in BOOLEAN, NEW n \in SegmentCounts, Submit(ctl, n) PROVE Apart'
  <2> DEFINE m == submitted + 1
  <2>1. /\ submitted' = m /\ seq' = [seq EXCEPT ![m] = nextSeq] /\ submitted \in Nat
        /\ nextSeq' >= nextSeq + 4 /\ nextSeq \in Nat /\ nextSeq' \in Nat /\ m \in Messages
        /\ seq \in [Messages -> Nat]
    <3>1. /\ submitted' = m /\ seq' = [seq EXCEPT ![m] = nextSeq] /\ submitted < MaxMessages
          /\ nextSeq' = nextSeq + Reserved(ctl)
      BY <1>1 DEF Submit
    <3>2. submitted \in 0..MaxMessages /\ nextSeq \in Nat /\ seq \in [Messages -> Nat]
      BY DEF TypeInv, TypeOK
    <3>3. Reserved(ctl) \in {4, 5}
      BY DEF Reserved
    <3>4. nextSeq' \in Nat /\ nextSeq' >= nextSeq + 4
      BY <3>1, <3>2, <3>3
    <3>5. m \in Messages /\ submitted \in Nat
      BY <3>1, <3>2, Constants DEF Messages
    <3> QED
      BY <3>1, <3>2, <3>4, <3>5
  <2>2. \A k \in Messages : k <= submitted => seq'[k] = seq[k] /\ k # m
    BY <2>1, Constants
  <2>3. seq'[m] = nextSeq
    BY <2>1
  <2>4. \A k \in Messages : k <= submitted' => k <= submitted \/ k = m
    BY <2>1, Constants
  <2> HIDE DEF m
  <2>5. \A k \in Messages : k <= submitted' => seq'[k] + 4 <= nextSeq'
    BY <2>1, <2>2, <2>3, <2>4 DEF Apart
  <2>6. ASSUME NEW j \in Messages, NEW k \in Messages, j < k, k <= submitted'
        PROVE  seq'[j] + 4 <= seq'[k]
    <3>1. j <= submitted
      BY <2>1, <2>6, Constants DEF m
    <3>2. CASE k <= submitted
      BY <2>2, <2>6, <3>1, <3>2 DEF Apart
    <3>3. CASE k = m
      BY <2>2, <2>3, <3>1, <3>3 DEF Apart
    <3> QED
      BY <2>4, <2>6, <3>2, <3>3
  <2> QED
    BY <2>5, <2>6 DEF Apart
<1>2. CASE submitted' = submitted /\ seq' = seq /\ nextSeq' = nextSeq
  BY <1>2 DEF Apart
<1> QED
  BY <1>1, <1>2
     DEF Next, ThreadStep, SendUnsegmented, TestRound, StartRound, SendRaises, SendSegment, EndWait,
         AckStep, AckRaises, AckCancels, ApplyAck, PeerAcks, vars, shape

\* A message of at most 4 segments has numbers of its own for all of them,
\* however many messages are sent.
THEOREM NumbersSuffice ==
  ASSUME SegmentCounts \subseteq 1..4
  PROVE  Spec => []SeqDistinct
<1>1. TypeInv /\ Apart => SeqDistinct
  <2> SUFFICES ASSUME TypeInv, Apart, NEW p \in sent, NEW q \in sent, p.seq = q.seq
               PROVE  p = q
    BY DEF SeqDistinct
  <2>1. /\ p \in Pdu /\ p.message <= submitted /\ p.segment < size[p.message]
        /\ p.seq = seq[p.message] + p.segment
        /\ q \in Pdu /\ q.message <= submitted /\ q.segment < size[q.message]
        /\ q.seq = seq[q.message] + q.segment
    BY DEF TypeInv, TypeOK, SentByMessages
  <2>2. /\ p.message \in Messages /\ q.message \in Messages
        /\ p.segment \in Nat /\ q.segment \in Nat
    BY <2>1 DEF Pdu, Indexes
  <2>3. p.segment < 4 /\ q.segment < 4
    <3>1. size[p.message] \in 1..4 /\ size[q.message] \in 1..4
      BY <2>1, <2>2 DEF TypeInv, ThreadsKnow
    <3> QED
      BY <2>1, <2>2, <3>1
  <2>4. seq[p.message] \in Nat /\ seq[q.message] \in Nat
    BY <2>2 DEF TypeInv, TypeOK
  <2>5. ~(p.message < q.message) /\ ~(q.message < p.message)
    <3>1. /\ p.message < q.message => seq[p.message] + 4 <= seq[q.message]
          /\ q.message < p.message => seq[q.message] + 4 <= seq[p.message]
      BY <2>1, <2>2 DEF Apart
    <3>2. seq[p.message] + p.segment = seq[q.message] + q.segment
      BY <2>1
    <3> QED
      BY <2>2, <2>3, <2>4, <3>1, <3>2
  <2>6. p.message = q.message
    <3>1. p.message \in Nat /\ q.message \in Nat
      BY <2>2, Constants
    <3> QED
      BY <2>5, <3>1
  <2>7. p.segment = q.segment
    <3>1. seq[p.message] + p.segment = seq[p.message] + q.segment
      BY <2>1, <2>6
    <3> QED
      BY <2>2, <2>4, <3>1
  <2> QED
    BY <2>1, <2>6, <2>7 DEF Pdu
<1> QED
  BY TypeInvInit, TypeInvNext, ApartInit, ApartNext, <1>1, PTL DEF Spec

-----------------------------------------------------------------------------
(***************************************************************************)
(* Acknowledgments.  SeqZero names a message as long as the numbers of all *)
(* messages fit in its 13 bits.                                            *)
(***************************************************************************)
SeqZeroNames == 5 * MaxMessages <= 8192

FewNumbers == nextSeq <= 5 * submitted

\* Of a message not submitted yet nothing is known, and no thread of an
\* unsegmented message has more than one segment to send.
Untouched ==
  /\ transaction <= submitted
  /\ \A m \in Messages :
       /\ m > submitted => size[m] = 0 /\ acked[m] = {} /\ ~finished[m]
       /\ pc[m] = "unsegmented" => size[m] <= 1

\* The destination acknowledges what it has received.
AcksTrue == \A a \in acks : a.message <= submitted /\ a.segments \subseteq Got(a.message)

AckInv == FewNumbers /\ Untouched /\ AcksTrue /\ AckedWasReceived

SeqInv == TypeInv /\ Apart /\ AckInv

LEMMA AckInvInit == Init => AckInv
<1> SUFFICES ASSUME Init PROVE AckInv
  OBVIOUS
<1>1. FewNumbers
  BY DEF Init, FewNumbers
<1>2. Untouched
  BY Constants DEF Init, Untouched, None
<1>3. AcksTrue /\ AckedWasReceived
  BY DEF Init, AcksTrue, AckedWasReceived
<1> QED
  BY <1>1, <1>2, <1>3 DEF AckInv

\* What is got of a message is among its fragments.
LEMMA FragmentsOnly ==
  ASSUME NEW T \in SUBSET Pdu, NEW R \in SUBSET T, NEW sizes, NEW m \in Messages, sizes[m] \in Nat,
         \A p \in T : p.segment < sizes[p.message]
  PROVE  {p.segment : p \in {q \in R : q.message = m}} \subseteq 0..(sizes[m] - 1)
<1>1. ASSUME NEW p \in R, p.message = m PROVE p.segment \in 0..(sizes[m] - 1)
  <2>1. p \in T /\ p \in Pdu
    OBVIOUS
  <2>2. p.segment \in Nat
    BY <2>1 DEF Pdu, Indexes
  <2>3. p.segment < sizes[m]
    BY <1>1, <2>1
  <2> QED
    BY <2>2, <2>3
<1> QED
  BY <1>1

LEMMA GotFragments ==
  ASSUME TypeInv, NEW m \in Messages
  PROVE  Got(m) \subseteq Fragments(m) /\ size[m] \in Nat
<1>1. size[m] \in Nat
  <2>1. size[m] = 0 \/ size[m] \in SegmentCounts
    BY DEF TypeInv, TypeOK
  <2>2. \A k \in SegmentCounts : k \in Nat
    BY CountAssumption
  <2>3. size[m] \in SegmentCounts => size[m] \in Nat
    BY <2>2
  <2> QED
    BY <2>1, <2>3
<1>2. sent \subseteq Pdu /\ received \in SUBSET sent /\ \A p \in sent : p.segment < size[p.message]
  BY DEF TypeInv, TypeOK, SentByMessages
<1> QED
  BY <1>1, <1>2, FragmentsOnly DEF Got, Fragments

\* SeqZero tells the messages apart.
LEMMA SameSeqZero ==
  ASSUME SeqZeroNames, SeqInv, NEW m \in Messages, NEW k \in Messages,
         m <= submitted, k <= submitted, SeqZero(m) = SeqZero(k)
  PROVE  m = k
<1>1. /\ seq[m] \in Nat /\ seq[k] \in Nat /\ m \in Nat /\ k \in Nat
      /\ submitted \in Nat /\ submitted <= MaxMessages /\ MaxMessages \in Nat /\ nextSeq \in Nat
  BY Constants DEF SeqInv, TypeInv, TypeOK
<1>2. seq[m] + 4 <= nextSeq /\ seq[k] + 4 <= nextSeq /\ nextSeq <= 5 * submitted
  BY DEF SeqInv, Apart, AckInv, FewNumbers
<1>3. seq[m] < 8192 /\ seq[k] < 8192
  BY <1>1, <1>2 DEF SeqZeroNames
<1>4. seq[m] % 8192 = seq[m] /\ seq[k] % 8192 = seq[k]
  <2>1. \A n \in Nat : n < 8192 => n % 8192 = n
    OBVIOUS
  <2> QED
    BY <1>1, <1>3, <2>1
<1>5. seq[m] = seq[k]
  BY <1>4 DEF SeqZero
<1>6. /\ m < k => seq[m] + 4 <= seq[k]
      /\ k < m => seq[k] + 4 <= seq[m]
  BY DEF SeqInv, Apart
<1> QED
  BY <1>1, <1>5, <1>6

\* As the destination receives and acknowledges more, nothing becomes false.
LEMMA MoreReceived ==
  ASSUME SeqInv, TypeInv', received \subseteq received', acks \subseteq acks',
         UNCHANGED <<size, acked, finished>>
  PROVE  AckedWasReceived'
<1> SUFFICES ASSUME NEW m \in Messages, size[m] > 1
             PROVE  /\ acked[m] \subseteq Got(m)'
                    /\ finished[m] => \/ Got(m)' = Fragments(m)
                                      \/ [message |-> m, segments |-> {}] \in acks'
  BY DEF AckedWasReceived, Fragments
<1>1. Got(m) \subseteq Got(m)'
  BY DEF Got
<1>2. Got(m)' \subseteq Fragments(m)
  <2>1. size[m] \in Nat
    BY GotFragments DEF SeqInv
  <2>2. /\ sent' \subseteq Pdu /\ received' \in SUBSET sent'
        /\ \A p \in sent' : p.segment < size[p.message]
    BY DEF TypeInv, TypeOK, SentByMessages
  <2> QED
    BY <2>1, <2>2, FragmentsOnly DEF Got, Fragments
<1>3. /\ acked[m] \subseteq Got(m)
      /\ finished[m] => Got(m) = Fragments(m) \/ [message |-> m, segments |-> {}] \in acks
  BY DEF SeqInv, AckInv, AckedWasReceived
<1> QED
  BY <1>1, <1>2, <1>3

LEMMA SubmitAcks ==
  ASSUME SeqInv, TypeInv', NEW ctl \in BOOLEAN, NEW n \in SegmentCounts, Submit(ctl, n)
  PROVE  AckInv'
<1> DEFINE m == submitted + 1
<1>1. /\ m \in Messages /\ m \in Nat /\ submitted' = m /\ submitted \in Nat /\ nextSeq \in Nat
      /\ size' = [size EXCEPT ![m] = n] /\ nextSeq' = nextSeq + Reserved(ctl)
      /\ UNCHANGED <<acked, finished, received, acks>>
  <2>1. submitted \in 0..MaxMessages /\ submitted < MaxMessages /\ nextSeq \in Nat
    BY DEF Submit, SeqInv, TypeInv, TypeOK
  <2> QED
    BY <2>1, Constants DEF Submit, Messages, progressOf, peer
<1>2. /\ \E to \in {"queued", "test", "unsegmented"} : pc' = [pc EXCEPT ![m] = to]
      /\ pc'[m] = "unsegmented" => ~(n > 1)
      /\ transaction' = transaction \/ transaction' = m
  <2>1. pc \in [Messages -> {"none", "queued", "unsegmented", "test", "start", "send", "wait",
                             "done", "died"}]
    BY DEF SeqInv, TypeInv, TypeOK
  <2>2. CASE Enqueue(m)
    BY <1>1, <2>1, <2>2 DEF Enqueue, Goto
  <2>3. CASE StartTransaction(m, n)
    BY <1>1, <2>1, <2>3 DEF StartTransaction, Goto
  <2> QED
    BY <2>2, <2>3 DEF Submit
<1>3. /\ size'[m] = n
      /\ \A k \in Messages : k # m => size'[k] = size[k] /\ pc'[k] = pc[k]
  <2>1. /\ size \in [Messages -> SegmentCounts \cup {0}]
        /\ pc \in [Messages -> {"none", "queued", "unsegmented", "test", "start", "send", "wait",
                                "done", "died"}]
    BY DEF SeqInv, TypeInv, TypeOK
  <2> HIDE DEF m
  <2> QED
    BY <1>1, <1>2, <2>1
<1>4. submitted' = submitted + 1
  BY <1>1
<1>5. n \in Nat
  BY CountAssumption
<1> HIDE DEF m
<1>6. FewNumbers'
  <2>1. Reserved(ctl) \in {4, 5}
    BY DEF Reserved
  <2>2. nextSeq <= 5 * submitted
    BY DEF SeqInv, AckInv, FewNumbers
  <2> QED
    BY <1>1, <1>4, <2>1, <2>2 DEF FewNumbers
<1>7. Untouched'
  <2>1. transaction' <= submitted'
    <3>1. transaction <= submitted /\ transaction \in Messages \cup {None}
      BY DEF SeqInv, TypeInv, TypeOK, AckInv, Untouched
    <3>2. transaction \in Nat
      BY <3>1, Constants DEF None
    <3> QED
      BY <1>1, <1>2, <1>4, <3>1, <3>2
  <2>2. ASSUME NEW k \in Messages
        PROVE  /\ k > submitted' => size'[k] = 0 /\ acked'[k] = {} /\ ~finished'[k]
               /\ pc'[k] = "unsegmented" => size'[k] <= 1
    <3>1. /\ k > submitted => size[k] = 0 /\ acked[k] = {} /\ ~finished[k]
          /\ pc[k] = "unsegmented" => size[k] <= 1
      BY DEF SeqInv, AckInv, Untouched
    <3>2. k \in Nat
      BY Constants
    <3>3. CASE k = m
      BY <1>1, <1>2, <1>3, <1>5, <3>3
    <3>4. CASE k # m
      BY <1>1, <1>3, <1>4, <3>1, <3>2, <3>4
    <3> QED
      BY <3>3, <3>4
  <2> QED
    BY <2>1, <2>2 DEF Untouched
<1>8. AcksTrue'
  <2> SUFFICES ASSUME NEW a \in acks
               PROVE  a.message <= submitted' /\ a.segments \subseteq Got(a.message)'
    BY <1>1 DEF AcksTrue
  <2>1. a.message <= submitted /\ a.segments \subseteq Got(a.message) /\ a.message \in Messages
    BY DEF SeqInv, TypeInv, TypeOK, AckInv, AcksTrue
  <2>2. a.message \in Nat
    BY <2>1, Constants
  <2> QED
    BY <1>1, <1>4, <2>1, <2>2 DEF Got
<1>9. AckedWasReceived'
  <2> SUFFICES ASSUME NEW k \in Messages, size'[k] > 1
               PROVE  /\ acked[k] \subseteq Got(k)
                      /\ finished[k] => \/ Got(k) = 0..(size'[k] - 1)
                                        \/ [message |-> k, segments |-> {}] \in acks
    BY <1>1 DEF AckedWasReceived, Got, Fragments
  <2>1. CASE k = m
    <3>1. m = submitted + 1 /\ submitted \in Nat
      BY <1>1, <1>4
    <3>2. k > submitted
      BY ONLY <2>1, <3>1
    <3> QED
      BY <3>2 DEF SeqInv, AckInv, Untouched
  <2>2. CASE k # m
    BY <1>3, <2>2 DEF SeqInv, AckInv, AckedWasReceived, Fragments
  <2> QED
    BY <2>1, <2>2
<1> QED
  BY <1>6, <1>7, <1>8, <1>9 DEF AckInv

\* The sending threads know of acknowledgments, and make none.
LEMMA ThreadAcks ==
  ASSUME SeqInv, TypeInv', NEW m \in Messages, ThreadStep(m)
  PROVE  AckInv'
<1>1. /\ UNCHANGED <<shape, submitted, nextSeq, transaction, received, acks, acked>>
      /\ \E to \in {"test", "start", "send", "wait", "done", "died"} : pc' = [pc EXCEPT ![m] = to]
      /\ \/ finished' = finished
         \/ /\ pc[m] = "unsegmented"
            /\ finished' = [finished EXCEPT ![m] = TRUE]
  BY DEF ThreadStep, SendUnsegmented, TestRound, StartRound, SendRaises, SendSegment, EndWait,
         Goto, progressOf, peer
<1>2. /\ pc[m] # "none"
      /\ \A k \in Messages : pc'[k] = pc[k] \/ pc'[k] # "unsegmented"
      /\ finished \in [Messages -> BOOLEAN]
  <2>1. pc \in [Messages -> {"none", "queued", "unsegmented", "test", "start", "send", "wait",
                             "done", "died"}]
        /\ finished \in [Messages -> BOOLEAN]
    BY DEF SeqInv, TypeInv, TypeOK
  <2>2. pc[m] # "none"
    BY DEF ThreadStep, SendUnsegmented, TestRound, StartRound, SendRaises, SendSegment, EndWait, Goto
  <2> QED
    BY <1>1, <2>1, <2>2
<1>3. size' = size /\ seq' = seq
  BY <1>1 DEF shape
<1>4. FewNumbers'
  BY <1>1 DEF SeqInv, AckInv, FewNumbers
<1>5. m <= submitted
  <2>1. ~(m > submitted)
    BY <1>2 DEF SeqInv, TypeInv, ThreadsKnow
  <2>2. m \in Nat /\ submitted \in Nat
    BY Constants DEF SeqInv, TypeInv, TypeOK
  <2> QED
    BY <2>1, <2>2
<1>6. Untouched'
  <2>1. \A k \in Messages : k > submitted => finished'[k] = finished[k]
    BY <1>1, <1>2, <1>5 DEF SeqInv, TypeInv, ThreadsKnow
  <2> QED
    BY <1>1, <1>2, <1>3, <2>1 DEF SeqInv, AckInv, Untouched
<1>7. AcksTrue'
  BY <1>1 DEF SeqInv, AckInv, AcksTrue, Got
<1>8. AckedWasReceived'
  <2> SUFFICES ASSUME NEW k \in Messages, size[k] > 1
               PROVE  /\ acked[k] \subseteq Got(k)
                      /\ finished'[k] => \/ Got(k) = Fragments(k)
                                         \/ [message |-> k, segments |-> {}] \in acks
    BY <1>1, <1>3 DEF AckedWasReceived, Got, Fragments
  <2>1. /\ acked[k] \subseteq Got(k)
        /\ finished[k] => \/ Got(k) = Fragments(k)
                          \/ [message |-> k, segments |-> {}] \in acks
    BY DEF SeqInv, AckInv, AckedWasReceived
  <2>2. finished'[k] = finished[k]
    <3>1. size[k] \in Nat
      BY GotFragments DEF SeqInv
    <3>2. pc[k] = "unsegmented" => size[k] <= 1
      BY DEF SeqInv, AckInv, Untouched
    <3>3. pc[k] # "unsegmented"
      BY <3>1, <3>2
    <3> QED
      BY <1>1, <1>2, <3>3
  <2> QED
    BY <2>1, <2>2
<1> QED
  BY <1>4, <1>6, <1>7, <1>8 DEF AckInv

LEMMA CountOfFragments ==
  ASSUME NEW n \in Nat
  PROVE  IsFiniteSet(0..(n - 1)) /\ Cardinality(0..(n - 1)) = n
<1>1. 0 \in Int /\ n - 1 \in Int
  OBVIOUS
<1>2. /\ IsFiniteSet(0..(n - 1))
      /\ Cardinality(0..(n - 1)) = IF 0 > n - 1 THEN 0 ELSE (n - 1) - 0 + 1
  BY <1>1, FS_Interval
<1> QED
  BY <1>2

\* An acknowledgment is applied to the transaction of its own message only.
LEMMA HearAcks ==
  ASSUME SeqZeroNames, SeqInv, TypeInv', NEW a \in acks, AckStep(a)
  PROVE  AckInv'
<1>1. /\ UNCHANGED <<shape, submitted, nextSeq, transaction, threads, received, acks>>
      /\ transaction \in Messages /\ transaction <= submitted
  BY Constants DEF AckStep, AckRaises, AckCancels, ApplyAck, HearAck, Busy, SeqInv, TypeInv, TypeOK,
                   progressOf, peer, AckInv, Untouched
<1>2. size' = size /\ seq' = seq /\ pc' = pc
  BY <1>1 DEF shape, threads
<1>3. FewNumbers' /\ AcksTrue'
  BY <1>1 DEF SeqInv, AckInv, FewNumbers, AcksTrue, Got
<1>4. CASE acked' = acked /\ finished' = finished
  <2>1. Untouched'
    BY <1>1, <1>2, <1>4 DEF SeqInv, AckInv, Untouched
  <2>2. AckedWasReceived'
    BY <1>1, <1>2, <1>4, MoreReceived
  <2> QED
    BY <1>3, <2>1, <2>2 DEF AckInv
<1>5. ASSUME ForTransaction(a),
             \/ acked' = acked
             \/ acked' = [acked EXCEPT ![transaction] = a.segments],
             \/ /\ a.segments = {} /\ acked' = acked
                /\ finished' = [finished EXCEPT ![transaction] = TRUE]
             \/ /\ finished' = [finished EXCEPT ![transaction] =
                                  Cardinality(a.segments) = size[transaction]]
      PROVE  AckInv'
  <2>1. /\ a.message \in Messages /\ a.segments \subseteq Indexes
        /\ a = [message |-> a.message, segments |-> a.segments]
        /\ acked \in [Messages -> SUBSET Indexes] /\ finished \in [Messages -> BOOLEAN]
    BY DEF SeqInv, TypeInv, TypeOK
  <2>2. a.message <= submitted /\ a.segments \subseteq Got(a.message)
    BY DEF SeqInv, AckInv, AcksTrue
  <2>3. a.message = transaction
    BY <1>1, <1>5, <2>1, <2>2, SameSeqZero DEF ForTransaction
  <2>4. Got(transaction) \subseteq Fragments(transaction) /\ size[transaction] \in Nat
    BY <1>1, GotFragments DEF SeqInv
  <2>5. \A k \in Messages : k # transaction => acked'[k] = acked[k] /\ finished'[k] = finished[k]
    BY <1>5, <2>1
  <2>6. acked'[transaction] \in {acked[transaction], a.segments}
    BY <1>1, <1>5, <2>1
  <2>7. ~(transaction > submitted)
    <3>1. transaction \in Nat /\ submitted \in Nat
      BY <1>1, Constants DEF SeqInv, TypeInv, TypeOK
    <3> QED
      BY <1>1, <3>1
  <2>8. Untouched'
    BY <1>1, <1>2, <2>5, <2>7 DEF SeqInv, AckInv, Untouched
  <2>9. size[transaction] > 1 /\ finished'[transaction] =>
          \/ Got(transaction) = Fragments(transaction)
          \/ [message |-> transaction, segments |-> {}] \in acks
    <3>1. CASE a.segments = {}
      BY <2>1, <2>3, <3>1
    <3>2. CASE a.segments # {}
      <4> SUFFICES ASSUME size[transaction] > 1, finished'[transaction]
                   PROVE  Got(transaction) = Fragments(transaction)
        OBVIOUS
      <4>1. Cardinality(a.segments) = size[transaction]
        BY <1>1, <1>5, <2>1, <3>2
      <4>2. /\ IsFiniteSet(Fragments(transaction))
            /\ Cardinality(Fragments(transaction)) = size[transaction]
        BY <2>4, CountOfFragments DEF Fragments
      <4>3. a.segments \in SUBSET Fragments(transaction)
        BY <2>2, <2>3, <2>4
      <4>4. a.segments = Fragments(transaction)
        BY <4>1, <4>2, <4>3, FS_Subset
      <4> QED
        BY <2>2, <2>3, <2>4, <4>4
    <3> QED
      BY <3>1, <3>2
  <2>10. AckedWasReceived'
    <3> SUFFICES ASSUME NEW k \in Messages, size[k] > 1
                 PROVE  /\ acked'[k] \subseteq Got(k)
                        /\ finished'[k] => \/ Got(k) = Fragments(k)
                                           \/ [message |-> k, segments |-> {}] \in acks
      BY <1>1, <1>2 DEF AckedWasReceived, Got, Fragments
    <3>1. /\ acked[k] \subseteq Got(k)
          /\ finished[k] => \/ Got(k) = Fragments(k)
                            \/ [message |-> k, segments |-> {}] \in acks
      BY DEF SeqInv, AckInv, AckedWasReceived
    <3>2. CASE k = transaction
      BY <2>2, <2>3, <2>6, <2>9, <3>1, <3>2
    <3>3. CASE k # transaction
      BY <2>5, <3>1, <3>3
    <3> QED
      BY <3>2, <3>3
  <2> QED
    BY <1>3, <2>8, <2>10 DEF AckInv
<1>6. CASE AckRaises(a)
  BY <1>4, <1>6 DEF AckRaises, progressOf
<1>7. CASE AckCancels(a)
  BY <1>5, <1>7 DEF AckCancels
<1>8. CASE ApplyAck(a)
  BY <1>5, <1>8 DEF ApplyAck
<1> QED
  BY <1>6, <1>7, <1>8 DEF AckStep

LEMMA DestinationAcks ==
  ASSUME SeqInv, TypeInv', NEW m \in Messages, NEW pdus \in SUBSET SentOf(m),
         NEW cancel \in BOOLEAN, PeerAcks(m, pdus, cancel)
  PROVE  AckInv'
<1> DEFINE new == [message |-> m,
                   segments |-> IF cancel THEN {} ELSE Got(m) \cup {p.segment : p \in pdus}]
<1>1. /\ UNCHANGED <<shape, submitted, nextSeq, transaction, threads, acked, finished>>
      /\ received' = received \cup pdus /\ acks' = acks \cup {new} /\ size[m] > 1
  BY DEF PeerAcks, Accepts, progressOf
<1>2. size' = size /\ pc' = pc
  BY <1>1 DEF shape, threads
<1>3. FewNumbers' /\ Untouched'
  BY <1>1, <1>2 DEF SeqInv, AckInv, FewNumbers, Untouched
<1>4. \A k : Got(k) \subseteq Got(k)'
  BY <1>1 DEF Got
<1>5. new.message = m /\ m <= submitted /\ new.segments \subseteq Got(m)'
  <2>1. m <= submitted
    <3>1. ~(m > submitted)
      BY <1>1 DEF SeqInv, AckInv, Untouched
    <3>2. m \in Nat /\ submitted \in Nat
      BY Constants DEF SeqInv, TypeInv, TypeOK
    <3> QED
      BY <3>1, <3>2
  <2>2. {p.segment : p \in pdus} \subseteq Got(m)'
    BY <1>1 DEF Got, SentOf
  <2> QED
    BY <1>4, <2>1, <2>2
<1> HIDE DEF new
<1>6. AcksTrue'
  <2> SUFFICES ASSUME NEW a \in acks'
               PROVE  a.message <= submitted /\ a.segments \subseteq Got(a.message)'
    BY <1>1 DEF AcksTrue, Got
  <2>1. CASE a \in acks
    BY <1>4, <2>1 DEF SeqInv, AckInv, AcksTrue
  <2>2. CASE a = new
    BY <1>5, <2>2
  <2> QED
    BY <1>1, <2>1, <2>2
<1>7. AckedWasReceived'
  BY <1>1, <1>2, MoreReceived
<1> QED
  BY <1>3, <1>6, <1>7 DEF AckInv

LEMMA SeqInvNext ==
  ASSUME SeqZeroNames
  PROVE  SeqInv /\ [Next]_vars => SeqInv'
<1> SUFFICES ASSUME SeqInv, [Next]_vars PROVE SeqInv'
  OBVIOUS
<1>1. TypeInv' /\ Apart'
  BY TypeInvNext, ApartNext DEF SeqInv
<1>2. ASSUME NEW ctl \in BOOLEAN, NEW n \in SegmentCounts, Submit(ctl, n) PROVE AckInv'
  BY <1>1, <1>2, SubmitAcks
<1>3. ASSUME NEW m \in Messages, ThreadStep(m) PROVE AckInv'
  BY <1>1, <1>3, ThreadAcks
<1>4. ASSUME NEW a \in acks, AckStep(a) PROVE AckInv'
  BY <1>1, <1>4, HearAcks
<1>5. ASSUME NEW m \in Messages, NEW pdus \in SUBSET SentOf(m), NEW cancel \in BOOLEAN,
             PeerAcks(m, pdus, cancel)
      PROVE  AckInv'
  BY <1>1, <1>5, DestinationAcks
<1>6. ASSUME UNCHANGED vars PROVE AckInv'
  <2>1. /\ UNCHANGED <<size, pc, submitted, nextSeq, transaction, acked, finished, received, acks>>
    BY <1>6 DEF vars, shape, threads, progressOf, peer
  <2>2. FewNumbers' /\ Untouched' /\ AcksTrue'
    BY <2>1 DEF SeqInv, AckInv, FewNumbers, Untouched, AcksTrue, Got
  <2>3. AckedWasReceived'
    BY <1>1, <2>1, MoreReceived
  <2> QED
    BY <2>2, <2>3 DEF AckInv
<1>7. AckInv'
  BY <1>2, <1>3, <1>4, <1>5, <1>6 DEF Next
<1> QED
  BY <1>1, <1>7 DEF SeqInv

\* A segment is taken for acknowledged, and a message for finished, only if
\* the destination has it, or has cancelled it: for any number of messages
\* whose numbers fit in SeqZero, and any acknowledgments late or reordered.
THEOREM AcksBelong ==
  ASSUME SeqZeroNames
  PROVE  Spec => []AckedWasReceived
<1>1. Init => SeqInv
  BY TypeInvInit, ApartInit, AckInvInit DEF SeqInv
<1>2. SeqInv /\ [Next]_vars => SeqInv'
  BY SeqInvNext
<1>3. SeqInv => AckedWasReceived
  BY DEF SeqInv, AckInv
<1> QED
  BY <1>1, <1>2, <1>3, PTL DEF Spec
-----------------------------------------------------------------------------
(***************************************************************************)
(* The sending threads run down.  The steps left are a number of where the *)
(* thread is, its rounds and its index alone.                              *)
(***************************************************************************)
LeftAt(at, r, i) ==
  CASE at = "unsegmented" -> 1
    [] at = "start"       -> 35 * r
    [] at = "send"        -> 35 * r + 34 - i
    [] at = "wait"        -> 35 * r + 2
    [] at = "test"        -> 35 * r + 1
    [] OTHER              -> 0

LEMMA StepsLeftAt ==
  ASSUME NEW m \in Messages
  PROVE  /\ StepsLeft(m) = LeftAt(pc[m], rounds[m], index[m])
         /\ StepsLeft(m)' = LeftAt(pc'[m], rounds'[m], index'[m])
  BY DEF StepsLeft, LeftAt

LEMMA ThreadNumbers ==
  ASSUME TypeInv, NEW m \in Messages
  PROVE  /\ rounds[m] \in 0..MaxRounds /\ index[m] \in 0..32
         /\ pc[m] = "start" => rounds[m] > 0
         /\ pc[m] = "send" => index[m] < size[m] /\ size[m] \in 1..32
<1>1. rounds[m] \in 0..MaxRounds /\ index[m] \in 0..32
  BY DEF TypeInv, TypeOK
<1>2. pc[m] = "start" => rounds[m] > 0
  BY DEF TypeInv, ThreadsKnow
<1>3. pc[m] = "send" => index[m] < size[m]
  BY DEF TypeInv, ThreadsKnow
<1>4. pc[m] # "none" => size[m] \in SegmentCounts
  <2>1. submitted \in Nat /\ m \in Nat
    BY Constants DEF TypeInv, TypeOK
  <2>2. /\ (m > submitted) <=> (pc[m] = "none")
        /\ m <= submitted => size[m] \in SegmentCounts
    BY DEF TypeInv, ThreadsKnow
  <2> QED
    BY <2>1, <2>2
<1> QED
  BY <1>1, <1>2, <1>3, <1>4, Constants

LEMMA StepsLeftNatural ==
  ASSUME NEW m \in Messages
  PROVE  /\ TypeInv => StepsLeft(m) \in Nat
         /\ TypeInv' => StepsLeft(m)' \in Nat
<1>1. TypeInv => rounds[m] \in Nat /\ index[m] \in 0..32
  BY Constants DEF TypeInv, TypeOK
<1>2. TypeInv' => rounds'[m] \in Nat /\ index'[m] \in 0..32
  BY Constants DEF TypeInv, TypeOK
<1>3. \A r \in Nat, i \in 0..32 : \A at : LeftAt(at, r, i) \in Nat
  BY DEF LeftAt
<1> QED
  BY <1>1, <1>2, <1>3, StepsLeftAt

\* What the thread of m does to what its count depends on, and to nothing of
\* the other threads.
LEMMA ThreadStepEffect ==
  ASSUME TypeInv, NEW m \in Messages, ThreadStep(m)
  PROVE  /\ StepsLeft(m)' < StepsLeft(m)
         /\ \A k \in Messages : k # m => StepsLeft(k)' = StepsLeft(k)
<1> DEFINE Others == \A k \in Messages : k # m => /\ pc'[k] = pc[k] /\ rounds'[k] = rounds[k]
                                                  /\ index'[k] = index[k]
<1>0. /\ pc \in [Messages -> {"none", "queued", "unsegmented", "test", "start", "send", "wait",
                              "done", "died"}]
      /\ rounds \in [Messages -> 0..MaxRounds] /\ index \in [Messages -> 0..32]
  BY DEF TypeInv, TypeOK
<1>1. /\ rounds[m] \in Nat /\ index[m] \in 0..32
      /\ pc[m] = "start" => rounds[m] > 0
      /\ pc[m] = "send" => index[m] < size[m] /\ size[m] \in 1..32
  BY ThreadNumbers, Constants
<1>2. Others => \A k \in Messages : k # m => StepsLeft(k)' = StepsLeft(k)
  BY StepsLeftAt
<1>3. CASE SendUnsegmented(m)
  <2>1. pc[m] = "unsegmented" /\ pc'[m] = "done" /\ Others
    BY <1>0, <1>3 DEF SendUnsegmented, Goto
  <2>2. StepsLeft(m) = 1 /\ StepsLeft(m)' = 0
    BY <2>1, StepsLeftAt DEF LeftAt
  <2> QED
    BY <1>2, <2>1, <2>2
<1>4. CASE TestRound(m)
  <2>1. /\ pc[m] = "test" /\ rounds'[m] = rounds[m]
        /\ pc'[m] \in {"start", "done"} /\ Others
    BY <1>0, <1>4 DEF TestRound, Goto
  <2>2. StepsLeft(m) = 35 * rounds[m] + 1 /\ StepsLeft(m)' \in {35 * rounds[m], 0}
    BY <2>1, StepsLeftAt DEF LeftAt
  <2> QED
    BY <1>1, <1>2, <2>1, <2>2
<1>5. CASE StartRound(m)
  <2>1. /\ pc[m] = "start" /\ pc'[m] = "send" /\ rounds'[m] = rounds[m] - 1 /\ index'[m] = 0
        /\ Others
    BY <1>0, <1>5 DEF StartRound, Goto
  <2>2. StepsLeft(m) = 35 * rounds[m] /\ StepsLeft(m)' = 35 * (rounds[m] - 1) + 34 - 0
    BY <2>1, StepsLeftAt DEF LeftAt
  <2> QED
    BY <1>1, <1>2, <2>1, <2>2
<1>6. CASE SendRaises(m)
  <2>1. pc[m] = "send" /\ pc'[m] = "died" /\ Others
    BY <1>0, <1>6 DEF SendRaises, Goto, progressOf
  <2>2. StepsLeft(m) = 35 * rounds[m] + 34 - index[m] /\ StepsLeft(m)' = 0
    BY <2>1, StepsLeftAt DEF LeftAt
  <2> QED
    BY <1>1, <1>2, <2>1, <2>2
<1>7. CASE SendSegment(m)
  <2>1. /\ pc[m] = "send" /\ index'[m] = index[m] + 1 /\ rounds'[m] = rounds[m]
        /\ pc'[m] = IF index[m] = size[m] - 1 THEN "wait" ELSE "send"
        /\ Others
    BY <1>0, <1>7 DEF SendSegment, Goto, progressOf
  <2>2. StepsLeft(m) = 35 * rounds[m] + 34 - index[m]
    BY <2>1, StepsLeftAt DEF LeftAt
  <2>3. CASE pc'[m] = "send"
    <3>1. StepsLeft(m)' = 35 * rounds[m] + 34 - (index[m] + 1)
      BY <2>1, <2>3, StepsLeftAt DEF LeftAt
    <3> QED
      BY <1>1, <1>2, <2>1, <2>2, <3>1
  <2>4. CASE pc'[m] = "wait"
    <3>1. StepsLeft(m)' = 35 * rounds[m] + 2
      BY <2>1, <2>4, StepsLeftAt DEF LeftAt
    <3>2. index[m] < 32
      BY <1>1, <2>1
    <3> QED
      BY <1>1, <1>2, <2>1, <2>2, <3>1, <3>2
  <2> QED
    BY <2>1, <2>3, <2>4
<1>8. CASE EndWait(m)
  <2>1. pc[m] = "wait" /\ pc'[m] = "test" /\ rounds'[m] = rounds[m] /\ Others
    BY <1>0, <1>8 DEF EndWait, Goto, progressOf
  <2>2. StepsLeft(m) = 35 * rounds[m] + 2 /\ StepsLeft(m)' = 35 * rounds[m] + 1
    BY <2>1, StepsLeftAt DEF LeftAt
  <2> QED
    BY <1>1, <1>2, <2>1, <2>2
<1> QED
  BY <1>3, <1>4, <1>5, <1>6, <1>7, <1>8 DEF ThreadStep

LEMMA OthersKeepSteps ==
  ASSUME TypeInv, [Next]_vars, NEW k \in Messages, pc[k] # "none"
  PROVE  StepsLeft(k)' <= StepsLeft(k)
<1>0. StepsLeft(k) \in Nat
  BY StepsLeftNatural
<1>1. ASSUME NEW ctl \in BOOLEAN, NEW n \in SegmentCounts, Submit(ctl, n)
      PROVE  StepsLeft(k)' <= StepsLeft(k)
  <2> DEFINE m == submitted + 1
  <2>1. UNCHANGED <<index, rounds>> /\ m \in Messages
    BY <1>1, Constants DEF Submit, progressOf, TypeInv, TypeOK, Messages
  <2>2. pc[m] = "none" /\ \E to \in {"queued", "test", "unsegmented"} : pc' = [pc EXCEPT ![m] = to]
    BY <1>1 DEF Submit, Enqueue, StartTransaction, Goto
  <2>3. pc'[k] = pc[k]
    BY <2>2 DEF TypeInv, TypeOK
  <2> QED
    BY <1>0, <2>1, <2>3, StepsLeftAt
<1>2. ASSUME NEW m \in Messages, ThreadStep(m) PROVE StepsLeft(k)' <= StepsLeft(k)
  <2>1. StepsLeft(m)' < StepsLeft(m) /\ (k # m => StepsLeft(k)' = StepsLeft(k))
    BY <1>2, ThreadStepEffect
  <2>2. StepsLeft(k)' \in Nat
    BY TypeInvNext, StepsLeftNatural
  <2>3. CASE k = m
    BY <1>0, <2>1, <2>2, <2>3
  <2>4. CASE k # m
    BY <1>0, <2>1, <2>4
  <2> QED
    BY <2>3, <2>4
<1>3. ASSUME NEW a \in acks, AckStep(a) PROVE StepsLeft(k)' <= StepsLeft(k)
  <2>1. UNCHANGED <<pc, index, rounds>>
    BY <1>3 DEF AckStep, AckRaises, AckCancels, ApplyAck, threads, progressOf
  <2> QED
    BY <1>0, <2>1, StepsLeftAt
<1>4. ASSUME NEW m \in Messages, NEW pdus \in SUBSET SentOf(m), NEW cancel \in BOOLEAN,
             PeerAcks(m, pdus, cancel)
      PROVE  StepsLeft(k)' <= StepsLeft(k)
  <2>1. UNCHANGED <<pc, index, rounds>>
    BY <1>4 DEF PeerAcks, threads, progressOf
  <2> QED
    BY <1>0, <2>1, StepsLeftAt
<1>5. CASE UNCHANGED vars
  <2>1. UNCHANGED <<pc, index, rounds>>
    BY <1>5 DEF vars, threads, progressOf
  <2> QED
    BY <1>0, <2>1, StepsLeftAt
<1> QED
  BY <1>1, <1>2, <1>3, <1>4, <1>5 DEF Next

\* Each step of a sending thread leaves it fewer steps to take, and nothing
\* else that happens, in particular no acknowledgment whenever it comes, gives
\* it more: the rounds of _sending_thread_unicast are bounded whatever the
\* destination does.
THEOREM ThreadsCountDown == Spec => ThreadsRunDown
<1>1. ASSUME TypeInv, [Next]_vars
      PROVE  \A m \in Messages :
               /\ ThreadStep(m) => StepsLeft(m)' \in 0..(StepsLeft(m) - 1)
               /\ pc[m] # "none" => StepsLeft(m)' <= StepsLeft(m)
  <2>1. ASSUME NEW m \in Messages, ThreadStep(m) PROVE StepsLeft(m)' \in 0..(StepsLeft(m) - 1)
    <3>1. StepsLeft(m)' < StepsLeft(m)
      BY <1>1, <2>1, ThreadStepEffect
    <3>2. StepsLeft(m) \in Nat /\ StepsLeft(m)' \in Nat
      BY <1>1, TypeInvNext, StepsLeftNatural
    <3> QED
      BY <3>1, <3>2
  <2> QED
    BY <1>1, <2>1, OthersKeepSteps
<1> QED
  BY <1>1, TypeInvInit, TypeInvNext, PTL DEF Spec, ThreadsRunDown
=============================================================================
