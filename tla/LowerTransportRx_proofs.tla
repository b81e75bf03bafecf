----------------------- MODULE LowerTransportRx_proofs -----------------------
(***************************************************************************)
(* Proofs about LowerTransportRx, for any number of messages and any       *)
(* number of transmissions that keeps a message's sequence numbers within  *)
(* what 13 bits of SeqZero can tell apart.                                 *)
(***************************************************************************)
EXTENDS LowerTransportRx, FiniteSetTheorems, TLAPS

\* The source sends a message again for less than a turn of SeqZero.
SeqZeroSuffices == Stride <= SeqZeroSpan

-----------------------------------------------------------------------------
(***************************************************************************)
(* Sequence numbers.                                                       *)
(***************************************************************************)
LEMMA Constants ==
  /\ MaxMessages \in Nat /\ Transmissions \in Nat \ {0} /\ FirstSeq \in Nat \ {0}
  /\ Sizes \subseteq 0..32 /\ Sizes # {} /\ AckThreshold \in Nat
  /\ Stride \in Nat /\ Stride >= 32
  /\ Messages \subseteq Nat \ {0} /\ None = 0
<1>1. Transmissions \in Nat /\ Transmissions >= 1
  BY SourceAssumption
<1>2. 32 * Transmissions \in Nat /\ 32 * Transmissions >= 32
  BY <1>1
<1> QED
  BY <1>2, SourceAssumption DEF Stride, Messages, None

LEMMA BaseType ==
  ASSUME NEW m \in Messages
  PROVE  Base(m) \in Nat /\ Base(m) >= FirstSeq
<1>1. m - 1 \in Nat /\ Stride \in Nat /\ FirstSeq \in Nat
  BY Constants
<1>2. (m - 1) * Stride \in Nat
  <2> DEFINE a == m - 1
  <2>1. a \in Nat
    BY <1>1
  <2> HIDE DEF a
  <2>2. a * Stride \in Nat
    BY <1>1, <2>1
  <2> QED
    BY <2>2 DEF a
<1> QED
  BY <1>1, <1>2 DEF Base

\* Later messages have larger numbers.
LEMMA BaseGrows ==
  ASSUME NEW m \in Messages, NEW n \in Messages, m < n
  PROVE  Base(m) < Base(n)
<1> DEFINE a == m - 1
           b == n - 1
           d == b - a - 1
<1>1. a \in Nat /\ b \in Nat /\ d \in Nat /\ b = a + 1 + d
  BY Constants
<1>2. Stride \in Nat /\ Stride >= 32 /\ FirstSeq \in Nat
  BY Constants
<1> HIDE DEF d
<1>3. b * Stride = a * Stride + Stride + d * Stride /\ d * Stride \in Nat /\ a * Stride \in Nat
  <2> HIDE DEF a, b
  <2>1. d * Stride \in Nat /\ a * Stride \in Nat
    BY <1>1, <1>2
  <2>2. (a + 1 + d) * Stride = a * Stride + Stride + d * Stride
    BY <1>1, <1>2
  <2> QED
    BY <1>1, <2>1, <2>2
<1>4. Base(m) = FirstSeq + a * Stride /\ Base(n) = FirstSeq + b * Stride
  BY DEF Base
<1> HIDE DEF a, b
<1> QED
  BY <1>2, <1>3, <1>4

LEMMA BaseOrder ==
  ASSUME NEW m \in Messages, NEW n \in Messages
  PROVE  /\ Base(m) = Base(n) => m = n
         /\ Base(m) < Base(n) => m < n
<1>1. m \in Nat /\ n \in Nat /\ (m < n \/ m = n \/ n < m)
  BY Constants
<1>2. Base(m) \in Nat /\ Base(n) \in Nat
  BY BaseType, Constants
<1> QED
  BY <1>1, <1>2, BaseGrows

\* calculate_seq_auth is exact within a turn of SeqZero.
LEMMA SeqAuthExact ==
  ASSUME NEW b \in Nat, NEW d \in Nat, d < SeqZeroSpan
  PROVE  SeqAuth(b + d, b % SeqZeroSpan) = b
<1> DEFINE q == b \div 8192
           r == b % 8192
           s == (b + d) % 8192
           u == (b + d) \div 8192
<1>1. b = 8192 * q + r /\ q \in Nat /\ r \in Nat /\ r < 8192
  OBVIOUS
<1>2. b + d = 8192 * u + s /\ u \in Nat /\ s \in Nat /\ s < 8192
  OBVIOUS
<1> HIDE DEF q, r, s, u
<1>3. d < 8192
  BY DEF SeqZeroSpan
<1>4. u = q \/ u = q + 1
  BY <1>1, <1>2, <1>3
<1>5. IF s < r THEN b + d - (s - r) - 8192 = b ELSE b + d - (s - r) = b
  BY <1>1, <1>2, <1>3, <1>4
<1>6. SeqAuth(b + d, b % SeqZeroSpan)
        = IF s < r THEN b + d - (s - r) - 8192 ELSE b + d - (s - r)
  BY DEF SeqAuth, SeqZeroSpan, s, r
<1> QED
  BY <1>5, <1>6

\* What a PDU of the source says.
LEMMA PduOf ==
  ASSUME SeqZeroSuffices, size \in [Messages -> Sizes], NEW m \in Messages, NEW p \in PdusOf(m)
  PROVE  /\ p.message = m /\ p.seq \in Nat /\ p.last = size[m] - 1 /\ size[m] \in 0..32
         /\ p.segment \in 0..31
         /\ size[m] = 0 => p.seq = Base(m)
         /\ size[m] # 0 => p.segment \in 0..(size[m] - 1) /\ AuthOf(p) = Base(m)
<1>1. size[m] \in 0..32 /\ Base(m) \in Nat
  BY BaseType, Constants
<1>2. CASE size[m] = 0
  <2>1. p = Pdu(m, 0, 0, 0)
    BY <1>2 DEF PdusOf
  <2> QED
    BY <1>1, <1>2, <2>1 DEF Pdu
<1>3. CASE size[m] # 0
  <2>1. PICK i \in 0..(size[m] - 1), r \in 0..(Transmissions - 1) : p = Pdu(m, i, r, size[m])
    BY <1>3 DEF PdusOf
  <2> DEFINE d == 32 * r + i
  <2>2. i \in Nat /\ i < 32 /\ r \in Nat /\ r + 1 <= Transmissions /\ Transmissions \in Nat
    BY <1>1, Constants
  <2>3. d \in Nat /\ d < 32 * Transmissions
    BY <2>2
  <2>4. d < SeqZeroSpan
    BY <2>3, Constants DEF SeqZeroSuffices, Stride, SeqZeroSpan
  <2>5. /\ p.message = m /\ p.segment = i /\ p.last = size[m] - 1
        /\ p.seq = Base(m) + 32 * r + i
    BY <2>1 DEF Pdu
  <2>6. p.seq = Base(m) + d
    BY <1>1, <2>2, <2>5
  <2> HIDE DEF d
  <2>7. AuthOf(p) = Base(m)
    BY <1>1, <2>3, <2>4, <2>5, <2>6, SeqAuthExact DEF AuthOf
  <2> QED
    BY <1>1, <1>3, <2>3, <2>5, <2>6, <2>7
<1> QED
  BY <1>2, <1>3

-----------------------------------------------------------------------------
(***************************************************************************)
(* The invariant.                                                          *)
(***************************************************************************)
Deliveries == 1..Len(delivered)

\* m is the latest message accepted.  If it is segmented the transaction is
\* its own, and it is delivered only once the transaction is finished.
Latest(m) ==
  /\ lastAuth = Base(m)
  /\ size[m] = 0 \/ rx.message = m
  /\ \A k \in Deliveries : delivered[k].message <= m
  /\ size[m] # 0 /\ ~rx.finished => \A k \in Deliveries : delivered[k].message < m

Accepted ==
  \/ lastAuth = None /\ rx = NoTransaction /\ delivered = <<>>
  \/ \E m \in Messages : Latest(m)

\* The fragments of the transaction are segments of its message that arrived.
Assembling ==
  \/ rx = NoTransaction
  \/ /\ rx.message \in Messages
     /\ rx.auth = Base(rx.message)
     /\ rx.last = size[rx.message] - 1
     /\ \A f \in rx.fragments : \E i \in 0..rx.last :
          f = <<i, rx.message>> /\ <<rx.message, i>> \in arrived

\* Whatever is delivered, not only segmented messages, has its first number.
Dated == \A k \in Deliveries : delivered[k].auth = Base(delivered[k].message)

RxInv == TypeOK /\ Accepted /\ Assembling /\ Dated /\ NoReplay /\ WholeMessages

LEMMA DeliveredNumbers ==
  ASSUME RxInv
  PROVE  \A k \in Deliveries : delivered[k].message \in Nat
<1> DEFINE T == [message : Messages, auth : Nat, nonce : Nat]
<1>1. delivered \in Seq(T)
  BY DEF RxInv, TypeOK
<1>2. \A k \in Deliveries : delivered[k] \in T
  <2> HIDE DEF T
  <2> QED
    BY <1>1 DEF Deliveries
<1> QED
  BY <1>2, Constants

LEMMA RxInit == Init => RxInv
<1> SUFFICES ASSUME Init PROVE RxInv
  OBVIOUS
<1>1. NoTransaction \in [auth : Nat, message : Messages \cup {None}, ctxSeq : Nat, last : 0..31,
             fragments : SUBSET ((0..31) \X Messages), finished : BOOLEAN]
  BY DEF NoTransaction, None
<1>2. TypeOK
  BY <1>1 DEF Init, TypeOK, None
<1>3. Len(delivered) = 0 /\ Deliveries = {}
  BY DEF Init, Deliveries
<1>4. Accepted /\ Assembling
  BY DEF Init, Accepted, Assembling
<1>5. Dated /\ NoReplay /\ WholeMessages
  BY <1>3 DEF Dated, NoReplay, WholeMessages, Deliveries
<1> QED
  BY <1>2, <1>4, <1>5 DEF RxInv

-----------------------------------------------------------------------------
(***************************************************************************)
(* Delivery.                                                               *)
(***************************************************************************)
\* What one more delivery leaves true: the message is later than the others
\* and has arrived whole.
LEMMA OneMore ==
  ASSUME RxInv, NEW m \in Messages, NEW n \in Nat, Deliver(m, Base(m), n),
         \A k \in Deliveries : delivered[k].message < m,
         size' = size, arrived \subseteq arrived',
         \A i \in 0..(size[m] - 1) : <<m, i>> \in arrived'
  PROVE  /\ delivered' \in Seq([message : Messages, auth : Nat, nonce : Nat])
         /\ Dated' /\ NoReplay' /\ WholeMessages'
         /\ \A k \in Deliveries' : delivered'[k].message <= m
<1> DEFINE d == [message |-> m, auth |-> Base(m), nonce |-> n]
           T == [message : Messages, auth : Nat, nonce : Nat]
<1>1. d \in T /\ delivered \in Seq(T)
  BY BaseType DEF RxInv, TypeOK
<1>2. delivered' = Append(delivered, d)
  BY DEF Deliver
<1>3. d.message = m /\ d.auth = Base(m)
  OBVIOUS
<1> HIDE DEF d
<1>4. /\ delivered' \in Seq(T)
      /\ Len(delivered) \in Nat /\ Len(delivered') = Len(delivered) + 1
      /\ delivered'[Len(delivered) + 1] = d
      /\ \A k \in 1..Len(delivered) : delivered'[k] = delivered[k]
  <2> HIDE DEF T
  <2> QED
    BY <1>1, <1>2
<1>5. \A k \in Deliveries' : \/ k \in Deliveries /\ delivered'[k] = delivered[k]
                             \/ k = Len(delivered) + 1 /\ delivered'[k] = d
  <2> TAKE k \in Deliveries'
  <2>1. Deliveries' = 1..Len(delivered') /\ Deliveries = 1..Len(delivered)
    BY DEF Deliveries
  <2>2. k \in Nat /\ (k \in 1..Len(delivered) \/ k = Len(delivered) + 1)
    BY <1>4, <2>1
  <2> QED
    BY <1>4, <2>1, <2>2
<1>6. m \in Nat /\ \A k \in Deliveries : delivered[k].message \in Nat
  BY DeliveredNumbers, Constants
<1>7. Dated'
  <2> SUFFICES ASSUME NEW k \in Deliveries'
               PROVE  delivered'[k].auth = Base(delivered'[k].message)
    BY DEF Dated, Base, Stride
  <2> QED
    BY <1>3, <1>5 DEF RxInv, Dated
<1>8. NoReplay'
  <2> SUFFICES ASSUME NEW j \in Deliveries', NEW k \in Deliveries', j < k
               PROVE  delivered'[j].message < delivered'[k].message
    BY DEF NoReplay, Deliveries
  <2>1. j \in Deliveries /\ delivered'[j] = delivered[j]
    BY <1>4, <1>5 DEF Deliveries
  <2>2. CASE k \in Deliveries /\ delivered'[k] = delivered[k]
    BY <2>1, <2>2 DEF RxInv, NoReplay, Deliveries
  <2>3. CASE delivered'[k] = d
    BY <1>3, <2>1, <2>3
  <2> QED
    BY <1>5, <2>2, <2>3
<1>9. WholeMessages'
  <2> SUFFICES ASSUME NEW k \in Deliveries', NEW i \in 0..(size[delivered'[k].message] - 1)
               PROVE  <<delivered'[k].message, i>> \in arrived'
    BY DEF WholeMessages, Deliveries
  <2> QED
    BY <1>3, <1>5 DEF RxInv, WholeMessages, Deliveries
<1>10. \A k \in Deliveries' : delivered'[k].message <= m
  BY <1>3, <1>5, <1>6, Constants
<1> QED
  BY <1>4, <1>7, <1>8, <1>9, <1>10

\* What no delivery leaves true.
LEMMA NoneMore ==
  ASSUME RxInv, delivered' = delivered, size' = size, arrived \subseteq arrived'
  PROVE  /\ delivered' \in Seq([message : Messages, auth : Nat, nonce : Nat])
         /\ Dated' /\ NoReplay' /\ WholeMessages'
         /\ Deliveries' = Deliveries
<1>1. Deliveries' = Deliveries
  BY DEF Deliveries
<1>2. Dated'
  BY <1>1 DEF RxInv, Dated, Base, Stride
<1>3. NoReplay' /\ WholeMessages'
  BY DEF RxInv, NoReplay, WholeMessages
<1> QED
  BY <1>1, <1>2, <1>3 DEF RxInv, TypeOK

\* All the segments of a message are there once their number is right.
LEMMA Complete ==
  ASSUME NEW m, NEW last \in Nat, NEW F,
         \A f \in F : \E i \in 0..last : f = <<i, m>>,
         Cardinality(F) = last + 1
  PROVE  \A i \in 0..last : <<i, m>> \in F
<1> DEFINE S == (0..last) \X {m}
<1>1. IsFiniteSet(0..last) /\ Cardinality(0..last) = last + 1
  <2>1. /\ IsFiniteSet(0..last)
        /\ Cardinality(0..last) = IF 0 > last THEN 0 ELSE last - 0 + 1
    BY FS_Interval
  <2> QED
    BY <2>1
<1>2. IsFiniteSet({m}) /\ Cardinality({m}) = 1
  BY FS_Singleton
<1>3. IsFiniteSet(S) /\ Cardinality(S) = (last + 1) * 1
  BY <1>1, <1>2, FS_Product
<1>4. F \subseteq S
  OBVIOUS
<1>5. Cardinality(S) = Cardinality(F)
  BY <1>3
<1>6. S = F
  <2> HIDE DEF S
  <2> QED
    BY <1>3, <1>4, <1>5, FS_Subset
<1> QED
  BY <1>6

-----------------------------------------------------------------------------
(***************************************************************************)
(* The steps.                                                              *)
(***************************************************************************)
\* A step's effect on what the source and the network cache keep.
LEMMA Arrives ==
  ASSUME SeqZeroSuffices, RxInv, NEW m \in Messages, NEW p \in PdusOf(m), Receive(p)
  PROVE  /\ size' = size /\ size \in [Messages -> Sizes]
         /\ cache' \subseteq Nat /\ arrived' \subseteq (Messages \X (0..31))
         /\ arrived \subseteq arrived' /\ <<m, p.segment>> \in arrived'
<1>1. size' = size /\ size \in [Messages -> Sizes]
  BY DEF RxInv, TypeOK, Receive
<1>2. p.message = m /\ p.seq \in Nat /\ p.segment \in 0..31
  BY <1>1, PduOf
<1>3. cache' \subseteq Nat
  BY <1>2 DEF RxInv, TypeOK, Receive
<1>4. arrived' \subseteq (Messages \X (0..31))
  <2>1. arrived' = arrived \cup {<<m, p.segment>>}
    BY <1>2 DEF Receive
  <2>2. <<m, p.segment>> \in Messages \X (0..31)
    BY <1>2
  <2>3. arrived \subseteq (Messages \X (0..31))
    BY DEF RxInv, TypeOK
  <2> QED
    BY <2>1, <2>2, <2>3
<1> QED
  BY <1>1, <1>2, <1>3, <1>4 DEF Receive

\* A message newer than the latest is newer than all delivered.
LEMMA NewerThanAll ==
  ASSUME RxInv, NEW m \in Messages, lastAuth = None \/ Base(m) > lastAuth
  PROVE  \A k \in Deliveries : delivered[k].message < m
<1>1. CASE lastAuth = None /\ rx = NoTransaction /\ delivered = <<>>
  BY <1>1 DEF Deliveries
<1>2. ASSUME NEW n \in Messages, Latest(n)
      PROVE  \A k \in Deliveries : delivered[k].message < m
  <2>1. lastAuth = Base(n) /\ Base(n) \in Nat /\ Base(n) >= FirstSeq /\ Base(m) \in Nat
    BY <1>2, BaseType DEF Latest
  <2>2. Base(n) < Base(m)
    BY <2>1, Constants
  <2>3. n < m
    BY <2>2, BaseOrder
  <2> QED
    BY <1>2, <2>3, DeliveredNumbers, Constants DEF Latest
<1> QED
  BY <1>1, <1>2 DEF RxInv, Accepted

\* A transaction left alone stays one, whatever else arrives.
LEMMA AssemblingKept ==
  ASSUME RxInv, rx' = rx, size' = size, arrived \subseteq arrived'
  PROVE  Assembling'
<1>1. CASE rx = NoTransaction
  BY <1>1 DEF Assembling, NoTransaction, None
<1>2. CASE rx # NoTransaction
  <2>1. /\ rx.message \in Messages /\ rx.auth = Base(rx.message)
        /\ rx.last = size[rx.message] - 1
        /\ \A f \in rx.fragments : \E i \in 0..rx.last :
             f = <<i, rx.message>> /\ <<rx.message, i>> \in arrived
    BY <1>2 DEF RxInv, Assembling
  <2> QED
    BY <2>1 DEF Assembling, Base, Stride
<1> QED
  BY <1>1, <1>2

LEMMA TimerType ==
  ASSUME NEW m \in Messages, NEW last \in 0..31
  PROVE  [message |-> m, last |-> last, eventSet |-> FALSE]
           \in [message : Messages, last : 0..31, eventSet : BOOLEAN]
  OBVIOUS

LEMMA Unsegmented ==
  ASSUME SeqZeroSuffices, RxInv, NEW m \in Messages, NEW p \in PdusOf(m), Receive(p),
         OnUnsegmented(p)
  PROVE  RxInv'
<1>1. /\ size' = size /\ size \in [Messages -> Sizes]
      /\ cache' \subseteq Nat /\ arrived' \subseteq (Messages \X (0..31))
      /\ arrived \subseteq arrived'
  BY Arrives
<1>2. p.message = m /\ size[m] = 0 /\ p.seq = Base(m) /\ Base(m) \in Nat
  <2>1. p.message = m /\ p.last = size[m] - 1 /\ size[m] \in 0..32
        /\ (size[m] = 0 => p.seq = Base(m))
    BY <1>1, PduOf
  <2> QED
    BY <2>1, BaseType DEF OnUnsegmented
<1>3. /\ lastAuth' = Base(m) /\ Deliver(m, Base(m), Base(m))
      /\ UNCHANGED <<rx, timers, acks>>
  BY <1>2 DEF OnUnsegmented
<1>4. \A k \in Deliveries : delivered[k].message < m
  BY <1>2, NewerThanAll DEF OnUnsegmented
<1>5. \A i \in 0..(size[m] - 1) : <<m, i>> \in arrived'
  BY <1>2
<1>6. /\ delivered' \in Seq([message : Messages, auth : Nat, nonce : Nat])
      /\ Dated' /\ NoReplay' /\ WholeMessages'
      /\ \A k \in Deliveries' : delivered'[k].message <= m
  BY <1>1, <1>2, <1>3, <1>4, <1>5, OneMore
<1>7. TypeOK'
  BY <1>1, <1>2, <1>3, <1>6 DEF RxInv, TypeOK
<1>8. Accepted'
  <2>1. Latest(m)'
    BY <1>1, <1>2, <1>3, <1>6 DEF Latest, Base, Stride
  <2> QED
    BY <2>1 DEF Accepted, Messages
<1>9. Assembling'
  BY <1>1, <1>3, AssemblingKept
<1> QED
  BY <1>6, <1>7, <1>8, <1>9 DEF RxInv

LEMMA NewMessage ==
  ASSUME SeqZeroSuffices, RxInv, NEW m \in Messages, NEW p \in PdusOf(m), Receive(p),
         NewTransaction(p)
  PROVE  RxInv'
<1>1. /\ size' = size /\ size \in [Messages -> Sizes]
      /\ cache' \subseteq Nat /\ arrived' \subseteq (Messages \X (0..31))
      /\ arrived \subseteq arrived' /\ <<m, p.segment>> \in arrived'
  BY Arrives
<1>2. /\ p.message = m /\ p.seq \in Nat /\ p.last = size[m] - 1 /\ size[m] \in 1..32
      /\ p.segment \in 0..(size[m] - 1) /\ AuthOf(p) = Base(m) /\ Base(m) \in Nat
  <2>1. /\ p.message = m /\ p.seq \in Nat /\ p.last = size[m] - 1 /\ size[m] \in 0..32
        /\ size[m] # 0 => p.segment \in 0..(size[m] - 1) /\ AuthOf(p) = Base(m)
    BY <1>1, PduOf
  <2> QED
    BY <2>1, BaseType DEF NewTransaction
<1>3. /\ lastAuth' = Base(m)
      /\ rx' = [auth |-> Base(m), message |-> m, ctxSeq |-> p.seq, last |-> p.last,
                fragments |-> {<<p.segment, m>>}, finished |-> FALSE]
      /\ timers' = timers \cup {[message |-> m, last |-> p.last, eventSet |-> FALSE]}
      /\ UNCHANGED <<acks, delivered>>
  BY <1>2 DEF NewTransaction, StartAckTimer
<1>4. \A k \in Deliveries : delivered[k].message < m
  BY <1>2, NewerThanAll DEF NewTransaction
<1>5. /\ delivered' \in Seq([message : Messages, auth : Nat, nonce : Nat])
      /\ Dated' /\ NoReplay' /\ WholeMessages' /\ Deliveries' = Deliveries
  BY <1>1, <1>3, NoneMore
<1>6. TypeOK'
  <2>1. p.segment \in 0..31 /\ p.last \in 0..31
    BY <1>2
  <2>2. rx' \in [auth : Nat, message : Messages \cup {None}, ctxSeq : Nat, last : 0..31,
                 fragments : SUBSET ((0..31) \X Messages), finished : BOOLEAN]
    BY <1>2, <1>3, <2>1
  <2>3. timers' \subseteq [message : Messages, last : 0..31, eventSet : BOOLEAN]
    BY <1>3, <2>1, TimerType DEF RxInv, TypeOK
  <2> QED
    BY <1>1, <1>2, <1>3, <1>5, <2>2, <2>3 DEF RxInv, TypeOK
<1>7. Accepted'
  <2>1. \A k \in Deliveries : delivered[k].message <= m
    BY <1>4, DeliveredNumbers, Constants
  <2>2. rx'.message = m
    BY <1>3
  <2>3. Latest(m)'
    BY <1>1, <1>3, <1>4, <1>5, <2>1, <2>2 DEF Latest, Base, Stride
  <2> QED
    BY <2>3 DEF Accepted, Messages
<1>8. Assembling'
  <2>1. /\ rx'.message = m /\ rx'.auth = Base(m) /\ rx'.last = size'[m] - 1
        /\ rx'.fragments = {<<p.segment, m>>}
    BY <1>1, <1>2, <1>3
  <2> QED
    BY <1>1, <1>2, <2>1 DEF Assembling, Base, Stride
<1> QED
  BY <1>5, <1>6, <1>7, <1>8 DEF RxInv

\* A segment given to the transaction is one of its message's, the latest.
LEMMA OwnTransaction ==
  ASSUME SeqZeroSuffices, RxInv, NEW m \in Messages, NEW p \in PdusOf(m), ToTransaction(p)
  PROVE  /\ p.message = m /\ p.segment \in 0..rx.last /\ rx.last = size[m] - 1
         /\ rx.last \in 0..31
         /\ Latest(m) /\ rx.message = m /\ rx.auth = Base(m) /\ rx.ctxSeq \in Nat
         /\ \A f \in rx.fragments : \E i \in 0..rx.last :
              f = <<i, m>> /\ <<m, i>> \in arrived
<1>1. size \in [Messages -> Sizes] /\ rx.last \in 0..31 /\ rx.ctxSeq \in Nat
  BY DEF RxInv, TypeOK
<1>2. /\ p.message = m /\ p.last = size[m] - 1 /\ size[m] \in 1..32
      /\ p.segment \in 0..(size[m] - 1) /\ AuthOf(p) = Base(m) /\ Base(m) \in Nat
  <2>1. /\ p.message = m /\ p.last = size[m] - 1 /\ size[m] \in 0..32
        /\ size[m] # 0 => p.segment \in 0..(size[m] - 1) /\ AuthOf(p) = Base(m)
    BY <1>1, PduOf
  <2> QED
    BY <2>1, BaseType DEF ToTransaction
<1>3. rx # NoTransaction /\ lastAuth # None /\ lastAuth = Base(m)
  BY <1>2 DEF ToTransaction
<1>4. PICK n \in Messages : Latest(n)
  BY <1>3 DEF RxInv, Accepted
<1>5. n = m
  BY <1>3, <1>4, BaseOrder DEF Latest
<1>6. Latest(m) /\ rx.message = m
  BY <1>2, <1>4, <1>5 DEF Latest
<1>7. /\ rx.auth = Base(m) /\ rx.last = size[m] - 1
      /\ \A f \in rx.fragments : \E i \in 0..rx.last :
           f = <<i, m>> /\ <<m, i>> \in arrived
  BY <1>3, <1>6 DEF RxInv, Assembling
<1> QED
  BY <1>1, <1>2, <1>6, <1>7

LEMMA NextSegment ==
  ASSUME SeqZeroSuffices, RxInv, NEW m \in Messages, NEW p \in PdusOf(m), Receive(p),
         AddSegment(p)
  PROVE  RxInv'
<1>1. /\ size' = size /\ size \in [Messages -> Sizes]
      /\ cache' \subseteq Nat /\ arrived' \subseteq (Messages \X (0..31))
      /\ arrived \subseteq arrived' /\ <<m, p.segment>> \in arrived'
  BY Arrives
<1>2. /\ p.message = m /\ p.segment \in 0..rx.last /\ rx.last = size[m] - 1
      /\ rx.last \in 0..31
      /\ Latest(m) /\ rx.message = m /\ rx.auth = Base(m) /\ rx.ctxSeq \in Nat
      /\ \A f \in rx.fragments : \E i \in 0..rx.last :
           f = <<i, m>> /\ <<m, i>> \in arrived
  BY OwnTransaction DEF AddSegment
<1> DEFINE F == With(p)
           complete == Cardinality(F) = rx.last + 1
<1>3. \A f \in F : \E i \in 0..rx.last : f = <<i, m>> /\ <<m, i>> \in arrived'
  <2> TAKE f \in F
  <2>1. f \in rx.fragments \/ f = <<p.segment, m>>
    BY <1>2 DEF With
  <2> QED
    BY <1>1, <1>2, <2>1
<1>4. /\ ~rx.finished /\ lastAuth' = lastAuth /\ acks' = acks
      /\ rx' = [rx EXCEPT !.fragments = F, !.finished = complete]
      /\ complete => Deliver(m, Base(m), rx.ctxSeq) /\ StartAckTimer(m, rx.last)
      /\ ~complete => UNCHANGED <<delivered, timers>>
  BY <1>2 DEF AddSegment
<1> HIDE DEF F
<1>5. complete \in BOOLEAN
  OBVIOUS
<1> HIDE DEF complete
<1>6. /\ rx'.message = m /\ rx'.auth = Base(m) /\ rx'.ctxSeq = rx.ctxSeq /\ rx'.last = rx.last
      /\ rx'.fragments = F /\ rx'.finished = complete
      /\ rx' \in [auth : Nat, message : Messages \cup {None}, ctxSeq : Nat, last : 0..31,
                  fragments : SUBSET ((0..31) \X Messages), finished : BOOLEAN]
  <2>1. rx \in [auth : Nat, message : Messages \cup {None}, ctxSeq : Nat, last : 0..31,
                fragments : SUBSET ((0..31) \X Messages), finished : BOOLEAN]
    BY DEF RxInv, TypeOK
  <2>2. F \subseteq (0..31) \X Messages
    <3> SUFFICES ASSUME NEW f \in F PROVE f \in (0..31) \X Messages
      OBVIOUS
    <3>1. PICK i \in 0..rx.last : f = <<i, m>>
      BY <1>3
    <3>2. i \in 0..31
      BY <1>2
    <3> QED
      BY <3>1, <3>2
  <2> QED
    BY <1>2, <1>4, <1>5, <2>1, <2>2
<1>7. \A k \in Deliveries : delivered[k].message < m
  BY <1>1, <1>2, <1>4, Constants DEF Latest
<1>8. Assembling'
  BY <1>1, <1>2, <1>3, <1>6 DEF Assembling, Base, Stride
<1>9. /\ delivered' \in Seq([message : Messages, auth : Nat, nonce : Nat])
      /\ Dated' /\ NoReplay' /\ WholeMessages'
      /\ \A k \in Deliveries' : delivered'[k].message <= m
      /\ ~complete => \A k \in Deliveries' : delivered'[k].message < m
      /\ timers' \subseteq [message : Messages, last : 0..31, eventSet : BOOLEAN]
  <2>1. CASE complete
    <3>1. rx.last \in Nat /\ Cardinality(F) = rx.last + 1
      BY <1>2, <2>1 DEF complete
    <3>2. \A f \in F : \E i \in 0..rx.last : f = <<i, m>>
      BY <1>3
    <3>3. \A i \in 0..rx.last : <<i, m>> \in F
      BY <3>1, <3>2, Complete
    <3>4. \A i \in 0..(size[m] - 1) : <<m, i>> \in arrived'
      <4> SUFFICES ASSUME NEW i \in 0..rx.last PROVE <<m, i>> \in arrived'
        BY <1>2
      <4>1. PICK j \in 0..rx.last : <<i, m>> = <<j, m>> /\ <<m, j>> \in arrived'
        BY <1>3, <3>3
      <4> QED
        BY <4>1
    <3>5. /\ delivered' \in Seq([message : Messages, auth : Nat, nonce : Nat])
          /\ Dated' /\ NoReplay' /\ WholeMessages'
          /\ \A k \in Deliveries' : delivered'[k].message <= m
      BY <1>1, <1>2, <1>4, <1>7, <2>1, <3>4, OneMore
    <3>6. timers' \subseteq [message : Messages, last : 0..31, eventSet : BOOLEAN]
      BY <1>2, <1>4, <2>1, TimerType DEF StartAckTimer, RxInv, TypeOK
    <3> QED
      BY <2>1, <3>5, <3>6
  <2>2. CASE ~complete
    <3>1. delivered' = delivered /\ timers' = timers
      BY <1>4, <2>2
    <3>2. /\ delivered' \in Seq([message : Messages, auth : Nat, nonce : Nat])
          /\ Dated' /\ NoReplay' /\ WholeMessages' /\ Deliveries' = Deliveries
      BY <1>1, <3>1, NoneMore
    <3> QED
      BY <1>7, <3>1, <3>2, DeliveredNumbers, Constants DEF RxInv, TypeOK
  <2> QED
    BY <2>1, <2>2
<1>10. TypeOK'
  BY <1>1, <1>4, <1>6, <1>9 DEF RxInv, TypeOK
<1>11. Accepted'
  <2>1. Latest(m)'
    BY <1>1, <1>2, <1>4, <1>5, <1>6, <1>9 DEF Latest, Base, Stride
  <2> QED
    BY <2>1 DEF Accepted, Messages
<1> QED
  BY <1>8, <1>9, <1>10, <1>11 DEF RxInv

\* Steps that deliver nothing and leave the transaction and the date alone.
LEMMA NothingNew ==
  ASSUME RxInv, UNCHANGED <<size, lastAuth, rx, delivered>>,
         cache' \subseteq Nat, arrived' \subseteq (Messages \X (0..31)), arrived \subseteq arrived',
         timers' \subseteq [message : Messages, last : 0..31, eventSet : BOOLEAN],
         acks' \subseteq Messages
  PROVE  RxInv'
<1>1. /\ delivered' \in Seq([message : Messages, auth : Nat, nonce : Nat])
      /\ Dated' /\ NoReplay' /\ WholeMessages' /\ Deliveries' = Deliveries
  BY NoneMore
<1>2. TypeOK'
  BY <1>1 DEF RxInv, TypeOK
<1>3. Accepted'
  <2>1. CASE lastAuth = None /\ rx = NoTransaction /\ delivered = <<>>
    BY <2>1 DEF Accepted, None, NoTransaction
  <2>2. ASSUME NEW m \in Messages, Latest(m) PROVE Latest(m)'
    BY <1>1, <2>2 DEF Latest, Base, Stride
  <2> QED
    BY <2>1, <2>2 DEF RxInv, Accepted, Messages
<1>4. Assembling'
  BY AssemblingKept
<1> QED
  BY <1>1, <1>2, <1>3, <1>4 DEF RxInv

LEMMA RepeatedOrOld ==
  ASSUME SeqZeroSuffices, RxInv, NEW m \in Messages, NEW p \in PdusOf(m), Receive(p),
         RepeatSegment(p) \/ Discard(p)
  PROVE  RxInv'
<1>1. /\ size' = size /\ cache' \subseteq Nat /\ arrived' \subseteq (Messages \X (0..31))
      /\ arrived \subseteq arrived'
  BY Arrives
<1>2. /\ timers' \subseteq [message : Messages, last : 0..31, eventSet : BOOLEAN]
      /\ UNCHANGED <<lastAuth, rx, delivered, acks>>
  <2>1. CASE RepeatSegment(p)
    <3>1. rx.message = m /\ rx.last \in 0..31
      BY <2>1, OwnTransaction DEF RepeatSegment
    <3> QED
      BY <2>1, <3>1, TimerType DEF RepeatSegment, StartAckTimer, RxInv, TypeOK
  <2>2. CASE Discard(p)
    BY <2>2 DEF Discard, RxInv, TypeOK
  <2> QED
    BY <2>1, <2>2
<1>3. acks' \subseteq Messages
  BY <1>2 DEF RxInv, TypeOK
<1> QED
  BY <1>1, <1>2, <1>3, NothingNew

LEMMA Acknowledge ==
  ASSUME RxInv, NEW t \in timers, AckTimer(t)
  PROVE  RxInv'
<1>1. t.message \in Messages
  BY DEF RxInv, TypeOK
<1>2. /\ UNCHANGED <<size, lastAuth, rx, delivered>>
      /\ cache' \subseteq Nat /\ arrived' \subseteq (Messages \X (0..31)) /\ arrived \subseteq arrived'
      /\ timers' \subseteq [message : Messages, last : 0..31, eventSet : BOOLEAN]
      /\ acks' \subseteq Messages
  BY <1>1 DEF AckTimer, RxInv, TypeOK
<1> QED
  BY <1>2, NothingNew

LEMMA RxStep == SeqZeroSuffices /\ RxInv /\ [Next]_vars => RxInv'
<1> SUFFICES ASSUME SeqZeroSuffices, RxInv, [Next]_vars PROVE RxInv'
  OBVIOUS
<1>1. ASSUME NEW m \in Messages, NEW p \in PdusOf(m), Receive(p) PROVE RxInv'
  <2>1. CASE OnUnsegmented(p)
    BY <1>1, <2>1, Unsegmented
  <2>2. CASE NewTransaction(p)
    BY <1>1, <2>2, NewMessage
  <2>3. CASE AddSegment(p)
    BY <1>1, <2>3, NextSegment
  <2>4. CASE RepeatSegment(p) \/ Discard(p)
    BY <1>1, <2>4, RepeatedOrOld
  <2> QED
    BY <1>1, <2>1, <2>2, <2>3, <2>4 DEF Receive, Handle
<1>2. ASSUME NEW t \in timers, AckTimer(t) PROVE RxInv'
  BY <1>2, Acknowledge
<1>3. CASE UNCHANGED vars
  BY <1>3, NothingNew DEF vars, RxInv, TypeOK
<1> QED
  BY <1>1, <1>2, <1>3 DEF Next

-----------------------------------------------------------------------------
(***************************************************************************)
(* The theorems.                                                           *)
(***************************************************************************)
LEMMA Invariant == ASSUME SeqZeroSuffices PROVE Spec => []RxInv
<1>1. RxInv /\ [Next]_vars => RxInv'
  BY RxStep
<1> QED
  BY RxInit, <1>1, PTL DEF Spec

\* Every variable keeps its type: in particular a SeqAuth is never negative.
THEOREM TypeCorrect == ASSUME SeqZeroSuffices PROVE Spec => []TypeOK
<1>1. RxInv => TypeOK
  BY DEF RxInv
<1> QED
  BY Invariant, <1>1, PTL

\* Fragments of two messages are never put together, however their segments
\* are interleaved, repeated, lost or delayed.
THEOREM Unmixed == ASSUME SeqZeroSuffices PROVE Spec => []NoMixing
<1>1. RxInv => NoMixing
  <2> SUFFICES ASSUME RxInv, NEW f \in rx.fragments PROVE f[2] = rx.message
    BY DEF NoMixing
  <2>0. NoTransaction.fragments = {}
    BY DEF NoTransaction
  <2>1. \E i \in 0..rx.last : f = <<i, rx.message>>
    BY <2>0 DEF RxInv, Assembling
  <2> QED
    BY <2>1
<1> QED
  BY Invariant, <1>1, PTL

\* What goes up to the upper transport layer has arrived whole.
THEOREM Whole == ASSUME SeqZeroSuffices PROVE Spec => []WholeMessages
<1>1. RxInv => WholeMessages
  BY DEF RxInv
<1> QED
  BY Invariant, <1>1, PTL

\* Messages go up in the order of the source, none twice.
THEOREM NothingReplayed == ASSUME SeqZeroSuffices PROVE Spec => []NoReplay
<1>1. RxInv => NoReplay
  BY DEF RxInv
<1> QED
  BY Invariant, <1>1, PTL

\* What goes up is dated with the sequence number of its first segment.
THEOREM DatedExactly == ASSUME SeqZeroSuffices PROVE Spec => []DatedByFirstSegment
<1>1. RxInv => DatedByFirstSegment
  BY DEF RxInv, Dated, DatedByFirstSegment, Deliveries
<1> QED
  BY Invariant, <1>1, PTL
=============================================================================
