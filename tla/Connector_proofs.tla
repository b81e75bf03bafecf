--------------------------- MODULE Connector_proofs ---------------------------
(***************************************************************************)
(* Proofs about Connector, for any number of packets: the connector     *)
(* keeps its promises in every interleaving but one.                       *)
(***************************************************************************)
EXTENDS Connector, SequenceTheorems, TLAPS

Delivering == {"packet", "addPending", "putPending", "deliver"}

\* The steps of each thread, and when it holds a packet.
Hands ==
  /\ pc["message"] \in {"idle", "check", "addLocked"} \cup Delivering
  /\ pc["app"] \in {"idle", "clearLocked", "drain", "release", "syncOff"} \cup Delivering
  /\ hand["message"] # None <=> pc["message"] # "idle"
  /\ hand["app"] # None <=> pc["app"] \in Delivering

TypeInv == TypeOK /\ Hands

\* Packets are queued only while the connector is locked, and the message
\* thread delivers a packet itself only when nothing is left to release.
Locking ==
  ~raced =>
    /\ lockedPdus = <<>> \/ (locked /\ pc["app"] # "release")
    /\ hand["app"] # None => locked
    /\ pc["message"] \in Delivering => lockedPdus = <<>> /\ hand["app"] = None

\* Packets flow from the device through the message thread, the queue of the
\* lock and the application thread, in order.
Past == Queued(delivered) \cup Queued(pending)

Flow ==
  ~raced =>
    /\ Increasing(delivered) /\ Increasing(pending) /\ Increasing(lockedPdus)
    /\ \A x \in Past :
         /\ x < next
         /\ \A t \in Threads : hand[t] # None => x < hand[t]
         /\ \A y \in Queued(lockedPdus) : x < y
    /\ \A y \in Queued(lockedPdus) :
         /\ hand["app"] < y /\ y < next
         /\ hand["message"] # None => y < hand["message"]
    /\ \A t \in Threads : hand[t] < next
    /\ hand["message"] # None => hand["app"] < hand["message"]

Inv == TypeInv /\ Locking /\ Flow

LEMMA PacketNumbers == Packets \subseteq Nat \ {0} /\ None \notin Packets /\ None = 0
  BY BoundAssumption DEF Packets, None

-----------------------------------------------------------------------------
(***************************************************************************)
(* Queues.                                                                 *)
(***************************************************************************)
LEMMA EmptyQueue == Queued(<<>>) = {} /\ Increasing(<<>>) /\ <<>> \in Seq(Packets)
  BY EmptySeq DEF Queued, Increasing

LEMMA AppendQueue ==
  ASSUME NEW q \in Seq(Packets), NEW p \in Packets
  PROVE  /\ Append(q, p) \in Seq(Packets)
         /\ Queued(Append(q, p)) = Queued(q) \cup {p}
         /\ Increasing(q) /\ (\A x \in Queued(q) : x < p) => Increasing(Append(q, p))
<1> DEFINE r == Append(q, p)
<1>1. /\ r \in Seq(Packets) /\ Len(q) \in Nat /\ Len(r) = Len(q) + 1
      /\ r[Len(q) + 1] = p /\ \A i \in 1..Len(q) : r[i] = q[i]
  BY AppendProperties, LenProperties
<1> HIDE DEF r
<1>2. 1..Len(r) = 1..Len(q) \cup {Len(q) + 1}
  BY <1>1
<1>3. Queued(r) = Queued(q) \cup {p}
  BY <1>1, <1>2 DEF Queued
<1>4. ASSUME Increasing(q), \A x \in Queued(q) : x < p PROVE Increasing(r)
  <2> SUFFICES ASSUME NEW i \in 1..Len(r), NEW j \in 1..Len(r), i < j PROVE r[i] < r[j]
    BY DEF Increasing
  <2>1. i \in 1..Len(q) /\ r[i] = q[i] /\ q[i] \in Queued(q)
    BY <1>1 DEF Queued
  <2>2. CASE j \in 1..Len(q)
    BY <1>1, <1>4, <2>1, <2>2 DEF Increasing
  <2>3. CASE j = Len(q) + 1
    BY <1>1, <1>4, <2>1, <2>3
  <2> QED
    BY <1>2, <2>2, <2>3
<1> QED
  BY <1>1, <1>3, <1>4 DEF r

LEMMA TailQueue ==
  ASSUME NEW q \in Seq(Packets), q # <<>>
  PROVE  /\ Head(q) \in Packets /\ Tail(q) \in Seq(Packets)
         /\ Head(q) \in Queued(q) /\ Queued(Tail(q)) \subseteq Queued(q)
         /\ Increasing(q) => Increasing(Tail(q)) /\ \A y \in Queued(Tail(q)) : Head(q) < y
<1> DEFINE r == Tail(q)
<1>1. /\ Head(q) \in Packets /\ r \in Seq(Packets) /\ Len(q) \in Nat \ {0}
      /\ Len(r) = Len(q) - 1 /\ \A i \in 1..Len(r) : r[i] = q[i + 1]
      /\ Head(q) = q[1]
  BY HeadTailProperties, EmptySeq
<1> HIDE DEF r
<1>2. \A i \in 1..Len(r) : i + 1 \in 1..Len(q) /\ 1 < i + 1
  BY <1>1
<1>3. Head(q) \in Queued(q) /\ Queued(r) \subseteq Queued(q)
  BY <1>1, <1>2 DEF Queued
<1>4. ASSUME Increasing(q) PROVE Increasing(r) /\ \A y \in Queued(r) : Head(q) < y
  <2>1. \A i \in 1..Len(r) : q[1] < r[i]
    BY <1>1, <1>2, <1>4 DEF Increasing
  <2>2. \A i, j \in 1..Len(r) : i < j => i + 1 < j + 1
    BY <1>1
  <2>3. \A i, j \in 1..Len(r) : i < j => r[i] < r[j]
    BY <1>1, <1>2, <1>4, <2>2 DEF Increasing
  <2> QED
    BY <1>1, <2>1, <2>3 DEF Increasing, Queued
<1> QED
  BY <1>1, <1>3, <1>4 DEF r

LEMMA QueueTypes ==
  ASSUME TypeInv
  PROVE  /\ lockedPdus \in Seq(Packets) /\ pending \in Seq(Packets) /\ delivered \in Seq(Packets)
         /\ Queued(lockedPdus) \subseteq Packets /\ Past \subseteq Packets
         /\ next \in Nat \ {0} /\ \A t \in Threads : hand[t] \in Packets \cup {None}
         /\ "message" \in Threads /\ "app" \in Threads
<1>1. /\ lockedPdus \in Seq(Packets) /\ pending \in Seq(Packets) /\ delivered \in Seq(Packets)
      /\ next \in Nat \ {0} /\ \A t \in Threads : hand[t] \in Packets \cup {None}
      /\ "message" \in Threads /\ "app" \in Threads
  BY BoundAssumption DEF TypeInv, TypeOK, Threads
<1>2. \A q \in Seq(Packets) : Queued(q) \subseteq Packets
  BY LenProperties, ElementOfSeq DEF Queued
<1> QED
  BY <1>1, <1>2 DEF Past

-----------------------------------------------------------------------------
(***************************************************************************)
(* Types, and where the packets in hand are.                               *)
(***************************************************************************)
LEMMA TypeInvInit == Init => TypeInv
<1> SUFFICES ASSUME Init PROVE TypeInv
  OBVIOUS
<1>1. {locked, synchronous, raced} \subseteq BOOLEAN
  BY Zenon DEF Init
<1>2. TypeOK
  BY <1>1, EmptyQueue, BoundAssumption DEF Init, TypeOK, Threads
<1>3. Hands
  BY DEF Init, Hands, Threads, Delivering
<1> QED
  BY <1>2, <1>3 DEF TypeInv

\* A thread moves on, with or without a packet in its hands.
Moves(t, to, h) ==
  /\ pc' = [pc EXCEPT ![t] = to]
  /\ hand' = [hand EXCEPT ![t] = h]

LEMMA MoveTypes ==
  ASSUME TypeInv, NEW t \in Threads, NEW to, NEW h \in Packets \cup {None}, Moves(t, to, h),
         t = "message" =>
           /\ to \in {"idle", "check", "addLocked"} \cup Delivering
           /\ h # None <=> to # "idle",
         t = "app" =>
           /\ to \in {"idle", "clearLocked", "drain", "release", "syncOff"} \cup Delivering
           /\ h # None <=> to \in Delivering
  PROVE  /\ Hands'
         /\ pc' \in [Threads -> {"idle", "check", "addLocked", "packet", "addPending", "putPending",
                                 "deliver", "clearLocked", "drain", "release", "syncOff"}]
         /\ hand' \in [Threads -> Packets \cup {None}]
<1>1. t = "message" \/ t = "app"
  BY DEF Threads
<1> QED
  BY <1>1 DEF TypeInv, TypeOK, Hands, Moves, Threads, Delivering

LEMMA TypeInvNext == TypeInv /\ [Next]_vars => TypeInv'
<1> SUFFICES ASSUME TypeInv, [Next]_vars PROVE TypeInv'
  OBVIOUS
<1> USE QueueTypes, PacketNumbers
<1> DEFINE HandTypes ==
      /\ Hands'
      /\ pc' \in [Threads -> {"idle", "check", "addLocked", "packet", "addPending", "putPending",
                              "deliver", "clearLocked", "drain", "release", "syncOff"}]
      /\ hand' \in [Threads -> Packets \cup {None}]
<1>1. HandTypes
  <2>1. ASSUME NEW t \in Threads,
               CheckSynchronous(t) \/ StillSynchronous(t) \/ AddPendingPacket(t) \/ OnPacket(t)
        PROVE  HandTypes
    <3>1. t = "message" \/ t = "app"
      BY DEF Threads
    <3>2. CASE CheckSynchronous(t) \/ StillSynchronous(t)
      <4>1. /\ pc[t] \in Delivering /\ hand' = hand
            /\ \E to \in {"addPending", "putPending", "deliver"} : Moves(t, to, hand[t])
        BY <3>2 DEF CheckSynchronous, StillSynchronous, Delivering, Goto, Moves, TypeInv, TypeOK
      <4> QED
        BY <3>1, <4>1, MoveTypes DEF Delivering, TypeInv, Hands
    <3>3. CASE AddPendingPacket(t) \/ OnPacket(t)
      <4>1. Moves(t, Idle(t), None)
        BY <3>3 DEF AddPendingPacket, OnPacket, Done, Goto, Moves
      <4> QED
        BY <3>1, <4>1, MoveTypes DEF Delivering, Idle
    <3> QED
      BY <2>1, <3>2, <3>3
  <2>2. CASE PacketArrives
    <3>1. Moves("message", "check", next) /\ next \in Packets
      BY <2>2 DEF PacketArrives, Goto, Moves
    <3> QED
      BY <3>1, MoveTypes DEF Delivering
  <2>3. CASE CheckLocked
    <3>1. /\ pc["message"] = "check"
          /\ \E to \in {"addLocked", "packet"} : Moves("message", to, hand["message"])
      BY <2>3 DEF CheckLocked, Goto, Moves, TypeInv, TypeOK
    <3> QED
      BY <3>1, MoveTypes DEF Delivering, TypeInv, Hands
  <2>4. CASE AddLockedPdu
    <3>1. Moves("message", "idle", None)
      BY <2>4 DEF AddLockedPdu, Done, Goto, Moves, Idle
    <3> QED
      BY <3>1, MoveTypes DEF Delivering
  <2>5. CASE TakeLocked
    <3>1. Moves("app", "packet", Head(lockedPdus)) /\ Head(lockedPdus) \in Packets
      BY <2>5, TailQueue DEF TakeLocked, Goto, Moves
    <3> QED
      BY <3>1, MoveTypes DEF Delivering
  <2>6. CASE Lock \/ ClearLocked \/ Unlock \/ FoundEmpty \/ Release \/ ClearPending
               \/ DisableSynchronous
    <3>1. /\ pc["app"] \in {"idle", "clearLocked", "drain", "release", "syncOff"}
          /\ \E to \in {"idle", "clearLocked", "drain", "release", "syncOff"} :
               Moves("app", to, hand["app"])
      BY <2>6 DEF Lock, ClearLocked, Unlock, FoundEmpty, Release, ClearPending,
                  DisableSynchronous, Goto, Moves, TypeInv, TypeOK
    <3>2. hand["app"] = None
      BY <3>1 DEF TypeInv, Hands, Delivering
    <3> QED
      BY <3>1, <3>2, MoveTypes DEF Delivering
  <2>7. CASE UNCHANGED <<pc, hand>>
    BY <2>7 DEF TypeInv, TypeOK, Hands
  <2> QED
    BY <2>1, <2>2, <2>3, <2>4, <2>5, <2>6, <2>7
       DEF Next, Dispatch, EnableSynchronous, WaitPacket, vars
<1>2. next' \in 1..(MaxPackets + 1) /\ {locked', synchronous', raced'} \subseteq BOOLEAN
  <2>1. next' = next \/ (next \in Packets /\ next' = next + 1)
    BY DEF Next, Dispatch, PacketArrives, CheckLocked, AddLockedPdu, CheckSynchronous,
           StillSynchronous, AddPendingPacket, OnPacket, Lock, ClearLocked, Unlock, TakeLocked,
           FoundEmpty, Release,
           EnableSynchronous, ClearPending, DisableSynchronous, WaitPacket, vars
  <2>2. next' \in 1..(MaxPackets + 1)
    BY <2>1, BoundAssumption DEF TypeInv, TypeOK, Packets
  <2>3. /\ locked' = locked \/ locked' \in BOOLEAN
        /\ synchronous' = synchronous \/ synchronous' \in BOOLEAN
        /\ raced' = raced \/ raced' \in BOOLEAN
    BY DEF Next, Dispatch, PacketArrives, CheckLocked, AddLockedPdu, CheckSynchronous,
           StillSynchronous, AddPendingPacket, OnPacket, Lock, ClearLocked, Unlock, TakeLocked,
           FoundEmpty, Release,
           EnableSynchronous, ClearPending, DisableSynchronous, WaitPacket, vars, modes, history
  <2> QED
    BY <2>2, <2>3 DEF TypeInv, TypeOK
<1>3. /\ lockedPdus' \in Seq(Packets) /\ pending' \in Seq(Packets) /\ delivered' \in Seq(Packets)
      /\ collected' \subseteq Packets /\ discarded' \subseteq Packets
  <2>1. \A q \in Seq(Packets) : Queued(q) \subseteq Packets
    BY LenProperties, ElementOfSeq DEF Queued
  <2>2. collected \subseteq Packets /\ discarded \subseteq Packets
    BY DEF TypeInv, TypeOK
  <2>3. ASSUME NEW t \in Threads, AddPendingPacket(t) \/ OnPacket(t)
        PROVE  /\ lockedPdus' \in Seq(Packets) /\ pending' \in Seq(Packets)
               /\ delivered' \in Seq(Packets)
               /\ collected' \subseteq Packets /\ discarded' \subseteq Packets
    <3>1. hand[t] \in Packets
      BY <2>3 DEF AddPendingPacket, OnPacket, Done, Goto, TypeInv, Hands, Threads, Delivering
    <3>2. /\ Append(pending, hand[t]) \in Seq(Packets)
          /\ Append(delivered, hand[t]) \in Seq(Packets)
      BY <3>1, AppendQueue
    <3>3. CASE AddPendingPacket(t)
      BY <2>2, <3>1, <3>2, <3>3 DEF AddPendingPacket
    <3>4. CASE OnPacket(t)
      BY <2>2, <3>2, <3>4 DEF OnPacket, queues
    <3> QED
      BY <2>3, <3>3, <3>4
  <2>4. CASE AddLockedPdu
    <3>1. hand["message"] \in Packets
      BY <2>4 DEF AddLockedPdu, Done, Goto, TypeInv, Hands
    <3> QED
      BY <2>2, <2>4, <3>1, AppendQueue DEF AddLockedPdu
  <2>5. CASE TakeLocked
    BY <2>2, <2>5, TailQueue DEF TakeLocked, history
  <2>6. CASE WaitPacket
    <3>1. /\ pending # <<>> /\ pending' = Tail(pending)
          /\ collected' = collected \cup {Head(pending)}
          /\ lockedPdus' = lockedPdus /\ delivered' = delivered /\ discarded' = discarded
      BY <2>6 DEF WaitPacket
    <3>2. Head(pending) \in Packets /\ Tail(pending) \in Seq(Packets)
      BY <3>1, TailQueue
    <3> QED
      BY <2>2, <3>1, <3>2
  <2>7. CASE ClearLocked \/ ClearPending
    BY <2>1, <2>2, <2>7, EmptyQueue DEF ClearLocked, ClearPending
  <2>8. CASE UNCHANGED <<queues, delivered, collected, discarded>>
    BY <2>2, <2>8 DEF queues
  <2> QED
    BY <2>3, <2>4, <2>5, <2>6, <2>7, <2>8
       DEF Next, Dispatch, PacketArrives, CheckLocked, CheckSynchronous, StillSynchronous, Lock,
           Unlock, FoundEmpty, Release, EnableSynchronous, DisableSynchronous, vars, history
<1> QED
  BY <1>1, <1>2, <1>3 DEF TypeInv, TypeOK

\* Every variable keeps to its type.
THEOREM TypeCorrect == Spec => []TypeOK
<1>1. TypeInv => TypeOK
  BY DEF TypeInv
<1> QED
  BY TypeInvInit, TypeInvNext, <1>1, PTL DEF Spec

-----------------------------------------------------------------------------
(***************************************************************************)
(* Locking.                                                                *)
(***************************************************************************)
LEMMA LockingInit == Init => Locking
  BY DEF Init, Locking, Delivering, Threads, None

LEMMA LockingNext == TypeInv /\ Locking /\ [Next]_vars => Locking'
<1> SUFFICES ASSUME TypeInv, Locking, [Next]_vars PROVE Locking'
  OBVIOUS
<1> USE DEF Goto, Done, Delivering
<1>0. /\ pc \in [Threads -> {"idle", "check", "addLocked", "packet", "addPending", "putPending",
                             "deliver", "clearLocked", "drain", "release", "syncOff"}]
      /\ hand \in [Threads -> Packets \cup {None}]
      /\ "message" \in Threads /\ "app" \in Threads /\ "message" # "app"
      /\ hand["app"] # None <=> pc["app"] \in {"packet", "addPending", "putPending", "deliver"}
      /\ \A t \in Threads : t = "message" \/ t = "app"
  BY DEF TypeInv, TypeOK, Hands, Threads
<1>1. ASSUME NEW t \in Threads,
             CheckSynchronous(t) \/ StillSynchronous(t) \/ AddPendingPacket(t) \/ OnPacket(t)
      PROVE  Locking'
  <2>1. /\ UNCHANGED <<locked, lockedPdus, raced>>
        /\ pc[t] \in {"packet", "addPending", "putPending", "deliver"}
        /\ \A u \in Threads : u # t => pc'[u] = pc[u] /\ hand'[u] = hand[u]
        /\ pc'[t] \in {"addPending", "putPending", "deliver", Idle(t)}
        /\ hand'[t] \in {hand[t], None}
    BY <1>0, <1>1 DEF CheckSynchronous, StillSynchronous, AddPendingPacket, OnPacket, modes,
        queues, history
  <2>2. CASE t = "message"
    BY <1>0, <2>1, <2>2 DEF Locking, Idle
  <2>3. CASE t = "app"
    BY <1>0, <2>1, <2>3 DEF Locking, Idle
  <2> QED
    BY <1>0, <2>2, <2>3
<1>2. CASE PacketArrives
  BY <1>0, <1>2 DEF PacketArrives, Locking, modes, queues, history
<1>3. CASE CheckLocked
  BY <1>0, <1>3 DEF CheckLocked, Locking, modes, queues, history
<1>4. CASE AddLockedPdu
  <2>1. /\ pc["message"] = "addLocked" /\ pc' = [pc EXCEPT !["message"] = "idle"]
        /\ hand' = [hand EXCEPT !["message"] = None]
        /\ locked' = locked
        /\ ~raced' => ~raced /\ locked /\ pc["app"] # "release"
    BY <1>4 DEF AddLockedPdu, Idle, modes
  <2> QED
    BY <1>0, <2>1 DEF Locking
<1>5. CASE TakeLocked
  <2>1. /\ lockedPdus # <<>> /\ pc["app"] = "drain" /\ pc' = [pc EXCEPT !["app"] = "packet"]
        /\ hand' = [hand EXCEPT !["app"] = Head(lockedPdus)]
        /\ locked' = locked /\ raced' = raced
    BY <1>5 DEF TakeLocked, modes, history
  <2> QED
    BY <1>0, <2>1 DEF Locking
<1>6. CASE Lock \/ ClearLocked \/ Unlock \/ FoundEmpty \/ Release
  BY <1>0, <1>6 DEF Lock, ClearLocked, Unlock, FoundEmpty, Release, Locking, modes, queues, history
<1>7. CASE ClearPending \/ DisableSynchronous \/ EnableSynchronous \/ WaitPacket \/ UNCHANGED vars
  BY <1>0, <1>7 DEF ClearPending, DisableSynchronous, EnableSynchronous, WaitPacket, Locking, vars,
                    modes, queues, history
<1> QED
  BY <1>1, <1>2, <1>3, <1>4, <1>5, <1>6, <1>7 DEF Next, Dispatch

\* Whatever the application does, an unlocked connector keeps a packet back
\* only if that packet was queued between the last test of the queue by
\* unlock() and the next lock().
THEOREM PacketsReleased == Spec => []AllReleased
<1>1. Locking => AllReleased
  BY DEF Locking, AllReleased
<1> QED
  BY TypeInvInit, TypeInvNext, LockingInit, LockingNext, <1>1, PTL DEF Spec

-----------------------------------------------------------------------------
(***************************************************************************)
(* Order.                                                                  *)
(***************************************************************************)
LEMMA FlowInit == Init => Flow
  BY EmptyQueue DEF Init, Flow, Past, Threads, None

\* What is ahead of the packets already delivered.
Ahead(h, q, n) ==
  /\ \A y \in Queued(q) :
       /\ h["app"] < y /\ y < n
       /\ h["message"] # None => y < h["message"]
  /\ \A t \in Threads : h[t] < n
  /\ h["message"] # None => h["app"] < h["message"]

LEMMA FlowAhead == ASSUME Flow, ~raced PROVE Ahead(hand, lockedPdus, next)
  BY DEF Flow, Ahead

LEMMA Positive ==
  ASSUME TypeInv
  PROVE  /\ \A t \in Threads : hand[t] \in Nat
         /\ \A y \in Queued(lockedPdus) \cup Past : y \in Nat /\ 0 < y
         /\ next \in Nat /\ 0 < next /\ None = 0
<1>1. \A n \in Packets : n \in Nat /\ 0 < n
  BY PacketNumbers
<1>2. /\ \A t \in Threads : hand[t] \in Packets \/ hand[t] = None
      /\ \A y \in Queued(lockedPdus) \cup Past : y \in Packets
      /\ next \in Nat \ {0}
  BY QueueTypes
<1>3. next \in Nat /\ 0 < next
  BY <1>2
<1>4. None = 0 /\ 0 \in Nat
  BY PacketNumbers
<1>5. \A t \in Threads : hand[t] \in Nat
  BY <1>1, <1>2, <1>4
<1>6. \A y \in Queued(lockedPdus) \cup Past : y \in Nat /\ 0 < y
  BY <1>1, <1>2
<1> QED
  BY <1>3, <1>4, <1>5, <1>6

\* Steps that move no packet forward, and may clear a queue.
LEMMA QuietFlow ==
  ASSUME TypeInv, Flow, UNCHANGED <<hand, next, delivered, raced>>,
         pending' \in {pending, <<>>}, lockedPdus' \in {lockedPdus, <<>>}
  PROVE  Flow'
<1>1. /\ Queued(pending') \subseteq Queued(pending)
      /\ Queued(lockedPdus') \subseteq Queued(lockedPdus)
      /\ Increasing(pending) => Increasing(pending')
      /\ Increasing(lockedPdus) => Increasing(lockedPdus')
  BY EmptyQueue
<1>2. Past' \subseteq Past
  BY <1>1 DEF Past
<1> QED
  BY <1>1, <1>2 DEF Flow

\* Thread t puts the packet it holds at the end of delivered or of pending.
LEMMA DeliverFlow ==
  ASSUME TypeInv, Locking, Flow, NEW t \in Threads, AddPendingPacket(t) \/ OnPacket(t)
  PROVE  Flow'
<1> DEFINE p == hand[t]
<1>1. /\ pc[t] \in Delivering /\ p \in Packets
      /\ hand' = [hand EXCEPT ![t] = None]
      /\ UNCHANGED <<next, lockedPdus, raced>>
  <2>1. /\ pc[t] \in Delivering
        /\ hand' = [hand EXCEPT ![t] = None]
        /\ UNCHANGED <<next, lockedPdus, raced>>
    BY DEF AddPendingPacket, OnPacket, Done, Goto, Delivering, queues
  <2>2. p # None
    BY <2>1 DEF TypeInv, Hands, Threads, Delivering
  <2> QED
    BY <2>1, <2>2, QueueTypes
<1>2. /\ Past' \subseteq Past \cup {p}
      /\ ~raced => Increasing(delivered') /\ Increasing(pending')
  <2>1. ~raced => /\ Increasing(delivered) /\ Increasing(pending)
                  /\ \A x \in Queued(delivered) \cup Queued(pending) : x < p
    BY <1>1, PacketNumbers DEF Flow, Past
  <2>2. CASE UNCHANGED <<delivered, pending>>
    BY <2>1, <2>2 DEF Past
  <2>3. CASE delivered' = Append(delivered, p) /\ pending' = pending
    BY <1>1, <2>1, <2>3, QueueTypes, AppendQueue DEF Past
  <2>4. CASE pending' = Append(pending, p) /\ delivered' = delivered
    BY <1>1, <2>1, <2>4, QueueTypes, AppendQueue DEF Past
  <2> QED
    BY <2>2, <2>3, <2>4 DEF AddPendingPacket, OnPacket, queues
<1>3. /\ hand'[t] = None
      /\ \A u \in Threads : u # t => hand'[u] = hand[u]
  BY <1>1 DEF TypeInv, TypeOK
<1> SUFFICES ASSUME ~raced PROVE Flow'
  BY <1>1 DEF Flow
<1>4. /\ p < next
      /\ \A u \in Threads : hand'[u] # None => p < hand'[u]
      /\ \A y \in Queued(lockedPdus) : p < y
  <2>1. p < next
    BY DEF Flow
  <2>2. CASE t = "message"
    <3>1. lockedPdus = <<>> /\ hand["app"] = None
      BY <1>1, <2>2 DEF Locking
    <3> QED
      BY <1>3, <2>1, <2>2, <3>1, EmptyQueue DEF Threads
  <2>3. CASE t = "app"
    BY <1>3, <2>1, <2>3 DEF Flow, Threads
  <2> QED
    BY <2>2, <2>3 DEF Threads
<1>5. \A u \in Threads : hand'[u] \in {hand[u], None}
  BY <1>3
<1>9. /\ Ahead(hand, lockedPdus, next)
      /\ \A u \in Threads : hand[u] \in Nat
      /\ \A y \in Queued(lockedPdus) : y \in Nat /\ 0 < y
      /\ next \in Nat /\ 0 < next /\ None = 0
  BY FlowAhead, Positive
<1> HIDE DEF p
<1>6. \A x \in Past' :
        /\ x < next
        /\ \A u \in Threads : hand'[u] # None => x < hand'[u]
        /\ \A y \in Queued(lockedPdus) : x < y
  BY <1>2, <1>4, <1>5 DEF Flow
<1>7. \A y \in Queued(lockedPdus) :
        /\ hand'["app"] < y /\ y < next
        /\ hand'["message"] # None => y < hand'["message"]
  BY <1>5, <1>9 DEF Ahead, Threads
<1>8. /\ \A u \in Threads : hand'[u] < next
      /\ hand'["message"] # None => hand'["app"] < hand'["message"]
  BY <1>5, <1>9 DEF Ahead, Threads
<1> QED
  BY <1>1, <1>2, <1>6, <1>7, <1>8 DEF Flow

LEMMA FlowNext == Inv /\ [Next]_vars => Flow'
<1> SUFFICES ASSUME TypeInv, Locking, Flow, [Next]_vars PROVE Flow'
  BY DEF Inv
<1>1. ASSUME NEW t \in Threads, AddPendingPacket(t) \/ OnPacket(t) PROVE Flow'
  BY <1>1, DeliverFlow
<1>2. CASE PacketArrives
  <2>1. /\ hand' = [hand EXCEPT !["message"] = next] /\ next \in Packets /\ next' = next + 1
        /\ hand["message"] = None
        /\ UNCHANGED <<lockedPdus, delivered, pending, raced>>
    BY <1>2 DEF PacketArrives, Goto, queues, history, TypeInv, Hands
  <2>2. /\ hand'["message"] = next /\ hand'["app"] = hand["app"] /\ next \in Nat \ {0}
        /\ Past' = Past /\ next < next' /\ next' \in Nat
    BY <2>1, PacketNumbers DEF Past, TypeInv, TypeOK, Threads
  <2> SUFFICES ASSUME ~raced PROVE Flow'
    BY <2>1 DEF Flow
  <2>6. /\ Ahead(hand, lockedPdus, next)
        /\ \A x \in Past :
             /\ x < next /\ x \in Nat
             /\ \A t \in Threads : hand[t] # None => x < hand[t]
             /\ \A y \in Queued(lockedPdus) : x < y
        /\ \A t \in Threads : hand[t] \in Nat /\ t \in {"message", "app"}
        /\ \A y \in Queued(lockedPdus) : y \in Nat /\ 0 < y
    BY FlowAhead, Positive DEF Flow, Threads
  <2>7. next' = next + 1
    BY <2>1
  <2>3. \A x \in Past :
          /\ x < next'
          /\ \A t \in Threads : hand'[t] # None => x < hand'[t]
          /\ \A y \in Queued(lockedPdus) : x < y
    BY <2>2, <2>6, <2>7
  <2>4. \A y \in Queued(lockedPdus) :
          /\ hand'["app"] < y /\ y < next'
          /\ hand'["message"] # None => y < hand'["message"]
    BY <2>2, <2>6, <2>7 DEF Ahead
  <2>5. /\ \A t \in Threads : hand'[t] < next'
        /\ hand'["message"] # None => hand'["app"] < hand'["message"]
    <3>1. \A t \in Threads : hand[t] < next
      BY <2>6 DEF Ahead
    <3> QED
      BY <2>2, <2>6, <2>7, <3>1 DEF Threads
  <2> QED
    BY <2>1, <2>2, <2>3, <2>4, <2>5 DEF Flow
<1>3. CASE AddLockedPdu
  <2> DEFINE p == hand["message"]
  <2>1. /\ lockedPdus' = Append(lockedPdus, p) /\ p \in Packets
        /\ hand' = [hand EXCEPT !["message"] = None]
        /\ UNCHANGED <<next, delivered, pending>> /\ (~raced' => ~raced)
    <3>1. /\ lockedPdus' = Append(lockedPdus, p) /\ pc["message"] = "addLocked"
          /\ hand' = [hand EXCEPT !["message"] = None]
          /\ UNCHANGED <<next, delivered, pending>> /\ (~raced' => ~raced)
      BY <1>3 DEF AddLockedPdu, Done, Goto
    <3>2. p # None
      BY <3>1 DEF TypeInv, Hands
    <3> QED
      BY <3>1, <3>2, QueueTypes
  <2>2. hand'["message"] = None /\ hand'["app"] = hand["app"] /\ Past' = Past
    BY <2>1 DEF Past, TypeInv, TypeOK, Threads
  <2> SUFFICES ASSUME ~raced PROVE Flow'
    BY <2>1 DEF Flow
  <2>3. /\ p < next /\ hand["app"] < p
        /\ \A x \in Past : x < p
        /\ \A y \in Queued(lockedPdus) : y < p
    BY <2>1, QueueTypes, PacketNumbers DEF Flow
  <2> HIDE DEF p
  <2>4. Queued(lockedPdus') = Queued(lockedPdus) \cup {p} /\ Increasing(lockedPdus')
    BY <2>1, <2>3, QueueTypes, AppendQueue DEF Flow
  <2>5. \A x \in Past :
          /\ x < next
          /\ \A t \in Threads : hand'[t] # None => x < hand'[t]
          /\ \A y \in Queued(lockedPdus') : x < y
    BY <2>2, <2>3, <2>4 DEF Flow, Threads
  <2>6. \A y \in Queued(lockedPdus') : hand'["app"] < y /\ y < next
    BY <2>2, <2>3, <2>4 DEF Flow
  <2>7. \A t \in Threads : hand'[t] < next
    BY <2>2, QueueTypes, PacketNumbers DEF Flow, Threads
  <2> QED
    BY <2>1, <2>2, <2>4, <2>5, <2>6, <2>7 DEF Flow
<1>4. CASE TakeLocked
  <2> DEFINE p == Head(lockedPdus)
  <2>1. /\ lockedPdus # <<>> /\ lockedPdus' = Tail(lockedPdus)
        /\ hand' = [hand EXCEPT !["app"] = p]
        /\ UNCHANGED <<next, delivered, pending, raced>>
    BY <1>4 DEF TakeLocked, Goto, history
  <2>2. hand'["app"] = p /\ hand'["message"] = hand["message"] /\ Past' = Past
    BY <2>1 DEF Past, TypeInv, TypeOK, Threads
  <2> SUFFICES ASSUME ~raced PROVE Flow'
    BY <2>1 DEF Flow
  <2>3. /\ p \in Packets /\ p \in Queued(lockedPdus)
        /\ Queued(lockedPdus') \subseteq Queued(lockedPdus)
        /\ Increasing(lockedPdus') /\ \A y \in Queued(lockedPdus') : p < y
    BY <2>1, QueueTypes, TailQueue DEF Flow
  <2> HIDE DEF p
  <2>4. \A x \in Past :
          /\ x < next
          /\ \A t \in Threads : hand'[t] # None => x < hand'[t]
          /\ \A y \in Queued(lockedPdus') : x < y
    BY <2>2, <2>3 DEF Flow, Threads
  <2>5. \A y \in Queued(lockedPdus') :
          /\ hand'["app"] < y /\ y < next
          /\ hand'["message"] # None => y < hand'["message"]
    BY <2>2, <2>3 DEF Flow
  <2>6. /\ \A t \in Threads : hand'[t] < next
        /\ hand'["message"] # None => hand'["app"] < hand'["message"]
    BY <2>2, <2>3 DEF Flow, Threads
  <2> QED
    BY <2>1, <2>2, <2>3, <2>4, <2>5, <2>6 DEF Flow
<1>5. CASE WaitPacket
  <2>1. /\ pending # <<>> /\ pending' = Tail(pending)
        /\ UNCHANGED <<hand, next, lockedPdus, delivered, raced>>
    BY <1>5 DEF WaitPacket
  <2>2. /\ Queued(pending') \subseteq Queued(pending)
        /\ Increasing(pending) => Increasing(pending')
    BY <2>1, QueueTypes, TailQueue
  <2>3. Past' \subseteq Past
    BY <2>1, <2>2 DEF Past
  <2> QED
    BY <2>1, <2>2, <2>3 DEF Flow
<1>6. ASSUME UNCHANGED <<hand, next, delivered, raced>>,
             pending' \in {pending, <<>>}, lockedPdus' \in {lockedPdus, <<>>}
      PROVE  Flow'
  BY <1>6, QuietFlow
<1> QED
  BY <1>1, <1>2, <1>3, <1>4, <1>5, <1>6
     DEF Next, Dispatch, CheckLocked, CheckSynchronous, StillSynchronous, Lock, ClearLocked,
         Unlock, FoundEmpty,
         Release, EnableSynchronous, ClearPending, DisableSynchronous, vars, queues, history

\* on_packet, and the queue of the synchronous mode, get the packets in the
\* order the device sent them, whatever the interleaving of the two threads,
\* as long as no packet was queued too late.
THEOREM OrderKept == Spec => []InOrder
<1>1. Init => Inv
  BY TypeInvInit, LockingInit, FlowInit DEF Inv
<1>2. Inv /\ [Next]_vars => Inv'
  BY TypeInvNext, LockingNext, FlowNext DEF Inv
<1>3. Inv => InOrder
  BY DEF Inv, Flow, InOrder
<1> QED
  BY <1>1, <1>2, <1>3, PTL DEF Spec

-----------------------------------------------------------------------------
(***************************************************************************)
(* The connector implements Custody, for any number of packets: however    *)
(* its modes are switched while packets are on their way, each packet is   *)
(* in one place, and leaves the connector once.                            *)
(***************************************************************************)

Held == InHands \cup Queued(lockedPdus) \cup Queued(pending)
Gone == Queued(delivered) \cup collected \cup discarded

Distinct(q) == \A i, j \in 1..Len(q) : i < j => q[i] # q[j]

\* The inductive invariant: no packet is in two places.
Separate ==
  /\ \A x \in Held \cup Gone : x < next
  /\ Held \cap Gone = {}
  /\ InHands \cap Queued(lockedPdus) = {}
  /\ InHands \cap Queued(pending) = {}
  /\ Queued(lockedPdus) \cap Queued(pending) = {}
  /\ hand["message"] = hand["app"] => hand["app"] = None
  /\ Distinct(lockedPdus) /\ Distinct(pending)

\* What a step may do to the sets of Custody.
Keeps   == Held' = Held /\ Gone' = Gone
Accepts == /\ next \in Packets /\ next \notin Held \cup Gone
           /\ Held' = Held \cup {next} /\ Gone' = Gone
Settles(S) == S \subseteq Held /\ Held' = Held \ S /\ Gone' = Gone \cup S
Moved   == Keeps \/ Accepts \/ \E S \in SUBSET Held : Settles(S)

-----------------------------------------------------------------------------
(* Queues and hands                                                        *)

LEMMA AppendDistinct ==
  ASSUME NEW q \in Seq(Packets), NEW p \in Packets, Distinct(q), p \notin Queued(q)
  PROVE  Distinct(Append(q, p))
<1> DEFINE r == Append(q, p)
<1>1. /\ Len(q) \in Nat /\ Len(r) = Len(q) + 1
      /\ r[Len(q) + 1] = p /\ \A i \in 1..Len(q) : r[i] = q[i]
  BY AppendProperties, LenProperties
<1> HIDE DEF r
<1> SUFFICES ASSUME NEW i \in 1..Len(r), NEW j \in 1..Len(r), i < j PROVE r[i] # r[j]
  BY DEF Distinct, r
<1>2. i \in 1..Len(q) /\ r[i] = q[i] /\ q[i] \in Queued(q)
  BY <1>1 DEF Queued
<1>3. CASE j \in 1..Len(q)
  BY <1>1, <1>2, <1>3 DEF Distinct
<1>4. CASE j = Len(q) + 1
  BY <1>1, <1>2, <1>4
<1> QED
  BY <1>1, <1>3, <1>4

LEMMA TailDistinct ==
  ASSUME NEW q \in Seq(Packets), q # <<>>, Distinct(q)
  PROVE  /\ Distinct(Tail(q))
         /\ Head(q) \notin Queued(Tail(q))
         /\ Queued(q) = Queued(Tail(q)) \cup {Head(q)}
<1> DEFINE r == Tail(q)
<1>1. /\ Len(q) \in Nat \ {0} /\ Len(r) = Len(q) - 1
      /\ \A i \in 1..Len(r) : r[i] = q[i + 1]
      /\ Head(q) = q[1]
  BY HeadTailProperties, EmptySeq
<1> HIDE DEF r
<1>2. \A i \in 1..Len(r) : i + 1 \in 1..Len(q) /\ 1 < i + 1
  BY <1>1
<1>3. Distinct(r)
  BY <1>1, <1>2 DEF Distinct
<1>4. Head(q) \notin Queued(r)
  BY <1>1, <1>2 DEF Distinct, Queued
<1>5. \A i \in 1..Len(q) : i = 1 \/ (i - 1 \in 1..Len(r) /\ r[i - 1] = q[i])
  BY <1>1
<1>6. Queued(q) = Queued(r) \cup {Head(q)}
  BY <1>1, <1>2, <1>5 DEF Queued
<1> QED
  BY <1>3, <1>4, <1>6 DEF r

LEMMA HandsOf ==
  ASSUME TypeInv
  PROVE  InHands = {hand["message"], hand["app"]} \ {None}
  BY DEF InHands, Threads

\* Thread t gives away the packet it holds.
LEMMA HandEmptied ==
  ASSUME TypeInv, Separate, NEW t \in Threads, hand[t] # None,
         hand' = [hand EXCEPT ![t] = None]
  PROVE  /\ InHands = InHands' \cup {hand[t]} /\ hand[t] \notin InHands'
         /\ hand'["message"] = hand'["app"] => hand'["app"] = None
  BY DEF TypeInv, TypeOK, Separate, InHands, Threads

\* Thread t takes packet p.
LEMMA HandFilled ==
  ASSUME TypeInv, NEW t \in Threads, hand[t] = None, NEW p \in Packets, p \notin InHands,
         hand' = [hand EXCEPT ![t] = p]
  PROVE  /\ InHands' = InHands \cup {p}
         /\ hand'["message"] = hand'["app"] => hand'["app"] = None
  BY PacketNumbers DEF TypeInv, TypeOK, InHands, Threads

-----------------------------------------------------------------------------
(* Steps                                                                   *)

LEMMA SeparateInit == Init => Separate
  BY EmptyQueue, EmptySeq DEF Init, Separate, Held, Gone, InHands, Threads, Distinct, None

\* A packet moves from a thread's hand to a queue, or out of the connector.
LEMMA StepOfDelivery ==
  ASSUME TypeInv, Separate, NEW t \in Threads, AddPendingPacket(t) \/ OnPacket(t)
  PROVE  Separate' /\ Moved
<1> DEFINE p == hand[t]
<1>1. /\ pc[t] \in Delivering /\ hand' = [hand EXCEPT ![t] = None]
      /\ UNCHANGED <<next, lockedPdus, collected>>
  BY DEF AddPendingPacket, OnPacket, Done, Goto, Delivering, queues
<1>2. p # None /\ p \in Packets /\ p \in InHands
  BY <1>1, QueueTypes DEF TypeInv, Hands, Threads, Delivering, InHands
<1>3. /\ InHands = InHands' \cup {p} /\ p \notin InHands'
      /\ hand'["message"] = hand'["app"] => hand'["app"] = None
  BY <1>1, <1>2, HandEmptied
<1> HIDE DEF p
<1>4. CASE pending' = Append(pending, p) /\ delivered' = delivered /\ discarded' = discarded
  <2>1. Queued(pending') = Queued(pending) \cup {p} /\ Distinct(pending')
    BY <1>2, <1>4, QueueTypes, AppendQueue, AppendDistinct DEF Separate
  <2>2. Keeps
    BY <1>1, <1>2, <1>3, <1>4, <2>1 DEF Keeps, Held, Gone
  <2>3. Separate'
    BY <1>1, <1>2, <1>3, <1>4, <2>1, <2>2 DEF Separate, Keeps
  <2> QED
    BY <2>2, <2>3 DEF Moved
<1>5. CASE pending' = pending /\ Gone' = Gone \cup {p}
  <2>1. Settles({p})
    BY <1>1, <1>2, <1>3, <1>5 DEF Settles, Held, Separate
  <2>2. Separate'
    BY <1>1, <1>2, <1>3, <1>5, <2>1 DEF Separate, Settles
  <2>3. {p} \in SUBSET Held
    BY <2>1 DEF Settles
  <2> QED
    BY <2>1, <2>2, <2>3 DEF Moved
<1>6. CASE delivered' = Append(delivered, p) /\ discarded' = discarded /\ pending' = pending
  BY <1>1, <1>2, <1>5, <1>6, QueueTypes, AppendQueue DEF Gone
<1>7. CASE discarded' = discarded \cup {p} /\ delivered' = delivered /\ pending' = pending
  BY <1>1, <1>5, <1>7 DEF Gone
<1> QED
  BY <1>4, <1>6, <1>7 DEF AddPendingPacket, OnPacket, queues, p

LEMMA StepOfArrival ==
  ASSUME TypeInv, Separate, PacketArrives
  PROVE  Separate' /\ Moved
<1>1. /\ next \in Packets /\ next' = next + 1 /\ hand["message"] = None
      /\ hand' = [hand EXCEPT !["message"] = next]
      /\ UNCHANGED <<lockedPdus, pending, delivered, collected, discarded>>
  BY DEF PacketArrives, Goto, queues, history, TypeInv, Hands
<1>2. next \in Nat /\ \A x \in Held \cup Gone : x < next /\ x \in Nat
  BY <1>1, QueueTypes, PacketNumbers
     DEF Separate, Held, Gone, Past, InHands, TypeInv, TypeOK
<1>3. next \notin Held \cup Gone
  BY <1>2
<1>4. /\ InHands' = InHands \cup {next}
      /\ hand'["message"] = hand'["app"] => hand'["app"] = None
  BY <1>1, <1>3, HandFilled DEF Held, Threads
<1>5. Held' = Held \cup {next} /\ Gone' = Gone
  BY <1>1, <1>4 DEF Held, Gone
<1>6. \A x \in Held' \cup Gone' : x < next'
  BY <1>1, <1>2, <1>5
<1>7. Separate'
  BY <1>1, <1>3, <1>4, <1>5, <1>6 DEF Separate, Held
<1> QED
  BY <1>1, <1>3, <1>5, <1>7 DEF Moved, Accepts

LEMMA StepOfLockQueue ==
  ASSUME TypeInv, Separate, AddLockedPdu \/ TakeLocked
  PROVE  Separate' /\ Moved
<1>1. CASE AddLockedPdu
  <2> DEFINE p == hand["message"]
  <2>1. /\ pc["message"] = "addLocked" /\ hand' = [hand EXCEPT !["message"] = None]
        /\ lockedPdus' = Append(lockedPdus, p)
        /\ UNCHANGED <<next, pending, delivered, collected, discarded>>
    BY <1>1 DEF AddLockedPdu, Done, Goto
  <2>2. p # None /\ p \in Packets /\ p \in InHands /\ "message" \in Threads
    BY <2>1, QueueTypes DEF TypeInv, Hands, Threads, InHands
  <2>3. /\ InHands = InHands' \cup {p} /\ p \notin InHands'
        /\ hand'["message"] = hand'["app"] => hand'["app"] = None
    BY <2>1, <2>2, HandEmptied
  <2> HIDE DEF p
  <2>4. Queued(lockedPdus') = Queued(lockedPdus) \cup {p} /\ Distinct(lockedPdus')
    BY <2>1, <2>2, QueueTypes, AppendQueue, AppendDistinct DEF Separate
  <2>5. Keeps
    BY <2>1, <2>3, <2>4 DEF Keeps, Held, Gone
  <2>6. Separate'
    BY <2>1, <2>2, <2>3, <2>4, <2>5 DEF Separate, Keeps
  <2> QED
    BY <2>5, <2>6 DEF Moved
<1>2. CASE TakeLocked
  <2> DEFINE p == Head(lockedPdus)
  <2>1. /\ lockedPdus # <<>> /\ lockedPdus' = Tail(lockedPdus) /\ pc["app"] = "drain"
        /\ hand' = [hand EXCEPT !["app"] = p]
        /\ UNCHANGED <<next, pending, delivered, collected, discarded>>
    BY <1>2 DEF TakeLocked, Goto, history
  <2>2. /\ p \in Packets /\ p \in Queued(lockedPdus) /\ Distinct(lockedPdus')
        /\ p \notin Queued(lockedPdus') /\ Queued(lockedPdus) = Queued(lockedPdus') \cup {p}
    BY <2>1, QueueTypes, TailQueue, TailDistinct DEF Separate
  <2>3. hand["app"] = None /\ "app" \in Threads /\ p \notin InHands
    BY <2>1, <2>2 DEF TypeInv, Hands, Threads, Delivering, Separate
  <2>4. /\ InHands' = InHands \cup {p}
        /\ hand'["message"] = hand'["app"] => hand'["app"] = None
    BY <2>1, <2>2, <2>3, HandFilled
  <2> HIDE DEF p
  <2>5. Keeps
    BY <2>1, <2>2, <2>4 DEF Keeps, Held, Gone
  <2>6. Separate'
    BY <2>1, <2>2, <2>4, <2>5 DEF Separate, Keeps
  <2> QED
    BY <2>5, <2>6 DEF Moved
<1> QED
  BY <1>1, <1>2

\* A queue is cleared, or the first of the pending packets is collected.
LEMMA StepOfClearing ==
  ASSUME TypeInv, Separate, ClearLocked \/ ClearPending \/ WaitPacket
  PROVE  Separate' /\ Moved
<1>1. hand' = hand /\ InHands' = InHands /\ next' = next
  BY DEF ClearLocked, ClearPending, WaitPacket, InHands
<1>2. \A S \in SUBSET Held :
        Settles(S) /\ Queued(lockedPdus') \subseteq Queued(lockedPdus)
          /\ Queued(pending') \subseteq Queued(pending)
          /\ Distinct(lockedPdus') /\ Distinct(pending')
        => Separate' /\ Moved
  BY <1>1 DEF Separate, Settles, Moved
<1>3. CASE ClearLocked
  <2>1. /\ lockedPdus' = <<>> /\ pending' = pending /\ Gone' = Gone \cup Queued(lockedPdus)
    BY <1>3 DEF ClearLocked, Gone
  <2>2. Queued(lockedPdus') = {} /\ Distinct(lockedPdus')
    BY <2>1, EmptyQueue, EmptySeq DEF Distinct
  <2>3. Settles(Queued(lockedPdus)) /\ Queued(lockedPdus) \in SUBSET Held
    BY <1>1, <2>1, <2>2 DEF Settles, Held, Separate
  <2> QED
    BY <1>2, <2>1, <2>2, <2>3 DEF Separate
<1>4. CASE ClearPending
  <2>1. /\ pending' = <<>> /\ lockedPdus' = lockedPdus /\ Gone' = Gone \cup Queued(pending)
    BY <1>4 DEF ClearPending, Gone
  <2>2. Queued(pending') = {} /\ Distinct(pending')
    BY <2>1, EmptyQueue, EmptySeq DEF Distinct
  <2>3. Settles(Queued(pending)) /\ Queued(pending) \in SUBSET Held
    BY <1>1, <2>1, <2>2 DEF Settles, Held, Separate
  <2> QED
    BY <1>2, <2>1, <2>2, <2>3 DEF Separate
<1>5. CASE WaitPacket
  <2> DEFINE p == Head(pending)
  <2>1. /\ pending # <<>> /\ pending' = Tail(pending) /\ lockedPdus' = lockedPdus
        /\ Gone' = Gone \cup {p}
    BY <1>5 DEF WaitPacket, Gone
  <2>2. /\ p \notin Queued(pending') /\ Queued(pending) = Queued(pending') \cup {p}
        /\ Distinct(pending')
    BY <2>1, QueueTypes, TailDistinct DEF Separate
  <2> HIDE DEF p
  <2>3. Settles({p}) /\ {p} \in SUBSET Held
    BY <1>1, <2>1, <2>2 DEF Settles, Held, Separate
  <2> QED
    BY <1>2, <2>1, <2>2, <2>3 DEF Separate
<1> QED
  BY <1>3, <1>4, <1>5

LEMMA StepOfCustody ==
  ASSUME TypeInv, Separate, [Next]_vars
  PROVE  Separate' /\ Moved
<1>1. CASE UNCHANGED <<hand, next, lockedPdus, pending, delivered, collected, discarded>>
  BY <1>1 DEF Separate, Moved, Keeps, Held, Gone, InHands, Distinct
<1> QED
  BY <1>1, StepOfDelivery, StepOfArrival, StepOfLockQueue, StepOfClearing
     DEF Next, Dispatch, CheckLocked, CheckSynchronous, StillSynchronous, Lock, Unlock,
         FoundEmpty, Release, EnableSynchronous, DisableSynchronous, vars, queues, history

-----------------------------------------------------------------------------
\* Every packet is in one place of the connector until it leaves it, and
\* leaves it once: on_packet, wait_packet, or a queue that is cleared.
THEOREM ConnectorCustody == Spec => PacketCustody
<1>1. Init => CustodyOf!Init
  BY EmptyQueue DEF Init, CustodyOf!Init, InHands, Threads
<1>2. ASSUME TypeInv, Separate, [Next]_vars
      PROVE  [CustodyOf!Next]_<<InHands \cup Queued(lockedPdus) \cup Queued(pending),
                                Queued(delivered) \cup collected \cup discarded>>
  <2>1. Moved
    BY <1>2, StepOfCustody
  <2> QED
    BY <2>1 DEF Moved, Keeps, Accepts, Settles, Held, Gone, CustodyOf!Next, CustodyOf!Accept,
                CustodyOf!Settle
<1>3. TypeInv /\ Separate /\ [Next]_vars => Separate'
  BY StepOfCustody
<1> QED
  BY <1>1, <1>2, <1>3, TypeInvInit, TypeInvNext, SeparateInit, PTL
     DEF Spec, PacketCustody, CustodyOf!Spec
=============================================================================
