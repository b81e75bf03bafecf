----------------------------- MODULE Connector -----------------------------
(***************************************************************************)
(* The packets a device hands to its connector (whad/device/connector.py,  *)
(* WhadDevice.on_domain_msg).  The message thread dispatches one packet at *)
(* a time; an application thread locks and unlocks the connector, and      *)
(* turns the synchronous mode on and off.  None of these steps holds a     *)
(* lock across the test of a flag and the use of the queue it guards.      *)
(*                                                                         *)
(* Packets are numbered in the order the device sends them.                *)
(***************************************************************************)
EXTENDS Naturals, Sequences

CONSTANT MaxPackets   \* bound: packets the device sends

ASSUME BoundAssumption == MaxPackets \in Nat

Packets == 1..MaxPackets
Threads == {"message", "app"}
None    == 0

VARIABLES
  pc,           \* where each thread is
  hand,         \* the packet each thread is dispatching
  next,         \* number of the next packet
  locked,       \* __locked
  lockedPdus,   \* __locked_pdus
  synchronous,  \* __synchronous
  pending,      \* __pending_pdus
  delivered,    \* history: packets given to on_packet, in that order
  collected,    \* history: packets returned by wait_packet
  discarded,    \* history: packets cleared from a queue, or not added to it
  raced         \* history: a packet was queued after unlock() found the queue empty

queues  == <<lockedPdus, pending>>
modes   == <<locked, synchronous>>
history == <<delivered, collected, discarded, raced>>
vars    == <<pc, hand, next, modes, queues, history>>

Idle(t)  == IF t = "message" THEN "idle" ELSE "drain"
Queued(q) == {q[i] : i \in 1..Len(q)}

TypeOK ==
  /\ pc \in [Threads -> {"idle", "check", "addLocked", "packet", "addPending", "putPending",
                         "deliver", "clearLocked", "drain", "release", "syncOff"}]
  /\ hand \in [Threads -> Packets \cup {None}]
  /\ next \in 1..(MaxPackets + 1)
  /\ {locked, synchronous, raced} \subseteq BOOLEAN
  /\ lockedPdus \in Seq(Packets) /\ pending \in Seq(Packets) /\ delivered \in Seq(Packets)
  /\ collected \subseteq Packets /\ discarded \subseteq Packets

\* A LockedConnector is locked before its device is attached.
Init ==
  /\ pc = [t \in Threads |-> "idle"]
  /\ hand = [t \in Threads |-> None]
  /\ next = 1
  /\ locked \in BOOLEAN
  /\ lockedPdus = <<>>
  /\ synchronous \in BOOLEAN
  /\ pending = <<>>
  /\ delivered = <<>>
  /\ collected = {}
  /\ discarded = {}
  /\ raced = FALSE

Goto(t, from, to) == pc[t] = from /\ pc' = [pc EXCEPT ![t] = to]

\* t is done with the packet it holds.
Done(t, from) == Goto(t, from, Idle(t)) /\ hand' = [hand EXCEPT ![t] = None]

(***************************************************************************)
(* on_domain_msg: the message thread takes a packet, tests is_locked(),    *)
(* then queues the packet or processes it.                                 *)
(***************************************************************************)
PacketArrives ==
  /\ next \in Packets
  /\ Goto("message", "idle", "check")
  /\ hand' = [hand EXCEPT !["message"] = next]
  /\ next' = next + 1
  /\ UNCHANGED <<modes, queues, history>>

CheckLocked ==
  /\ Goto("message", "check", IF locked THEN "addLocked" ELSE "packet")
  /\ UNCHANGED <<hand, next, modes, queues, history>>

\* Mutant: the packet is given up before it is queued.
AddReleasedPdu ==
  /\ Done("message", "addLocked")
  /\ lockedPdus' = Append(lockedPdus, hand'["message"])
  /\ raced' = (raced \/ ~locked \/ pc["app"] = "release")
  /\ UNCHANGED <<next, modes, pending, delivered, collected, discarded>>

AddLockedPdu ==
  /\ Done("message", "addLocked")
  /\ lockedPdus' = Append(lockedPdus, hand["message"])
  /\ raced' = (raced \/ ~locked \/ pc["app"] = "release")
  /\ UNCHANGED <<next, modes, pending, delivered, collected, discarded>>

(***************************************************************************)
(* on_packet_message, run by the message thread and by unlock().           *)
(***************************************************************************)
CheckSynchronous(t) ==
  /\ Goto(t, "packet", IF synchronous THEN "addPending" ELSE "deliver")
  /\ UNCHANGED <<hand, next, modes, queues, history>>

\* add_pending_packet tests the mode again, then puts the packet in the queue.
StillSynchronous(t) ==
  /\ synchronous
  /\ Goto(t, "addPending", "putPending")
  /\ UNCHANGED <<hand, next, modes, queues, history>>

AddPendingPacket(t) ==
  /\ \/ /\ Done(t, "addPending") /\ ~synchronous
        /\ discarded' = discarded \cup {hand[t]} /\ UNCHANGED pending
     \/ /\ Done(t, "putPending")
        /\ pending' = Append(pending, hand[t]) /\ UNCHANGED discarded
  /\ UNCHANGED <<next, modes, lockedPdus, delivered, collected, raced>>

OnPacket(t) ==
  /\ Done(t, "deliver")
  /\ delivered' = Append(delivered, hand[t])
  /\ UNCHANGED <<next, modes, queues, collected, discarded, raced>>

(***************************************************************************)
(* lock(): the flag is set, then the queue is cleared.                     *)
(***************************************************************************)
Lock ==
  /\ Goto("app", "idle", "clearLocked")
  /\ locked' = TRUE
  /\ UNCHANGED <<hand, next, synchronous, queues, history>>

ClearLocked ==
  /\ Goto("app", "clearLocked", "idle")
  /\ lockedPdus' = <<>>
  /\ discarded' = discarded \cup Queued(lockedPdus)
  /\ UNCHANGED <<hand, next, modes, pending, delivered, collected, raced>>

(***************************************************************************)
(* unlock(): queued packets are processed one by one; the flag is reset    *)
(* once the queue has been found empty.                                    *)
(***************************************************************************)
\* Mutant: the flag is reset before the queue is drained.
UnlockFirst ==
  /\ Goto("app", "idle", "drain")
  /\ locked' = FALSE
  /\ UNCHANGED <<hand, next, synchronous, queues, history>>

Unlock ==
  /\ Goto("app", "idle", "drain")
  /\ UNCHANGED <<hand, next, modes, queues, history>>

\* Mutant: the packet stays in the queue.
PeekLocked ==
  /\ lockedPdus # <<>>
  /\ Goto("app", "drain", "packet")
  /\ hand' = [hand EXCEPT !["app"] = Head(lockedPdus)]
  /\ UNCHANGED <<next, modes, queues, history>>

TakeLocked ==
  /\ lockedPdus # <<>>
  /\ Goto("app", "drain", "packet")
  /\ hand' = [hand EXCEPT !["app"] = Head(lockedPdus)]
  /\ lockedPdus' = Tail(lockedPdus)
  /\ UNCHANGED <<next, modes, pending, history>>

\* Mutant: draining stops before the queue is empty.
FoundEnough ==
  /\ Goto("app", "drain", "release")
  /\ UNCHANGED <<hand, next, modes, queues, history>>

FoundEmpty ==
  /\ lockedPdus = <<>>
  /\ Goto("app", "drain", "release")
  /\ UNCHANGED <<hand, next, modes, queues, history>>

Release ==
  /\ Goto("app", "release", "idle")
  /\ locked' = FALSE
  /\ UNCHANGED <<hand, next, synchronous, queues, history>>

(***************************************************************************)
(* enable_synchronous(enabled), and wait_packet().                         *)
(***************************************************************************)
EnableSynchronous ==
  /\ pc["app"] = "idle"
  /\ synchronous' = TRUE
  /\ UNCHANGED <<pc, hand, next, locked, queues, history>>

ClearPending ==
  /\ Goto("app", "idle", "syncOff")
  /\ pending' = <<>>
  /\ discarded' = discarded \cup Queued(pending)
  /\ UNCHANGED <<hand, next, modes, lockedPdus, delivered, collected, raced>>

DisableSynchronous ==
  /\ Goto("app", "syncOff", "idle")
  /\ synchronous' = FALSE
  /\ UNCHANGED <<hand, next, locked, queues, history>>

WaitPacket ==
  /\ pc["app"] = "idle"
  /\ synchronous
  /\ pending # <<>>
  /\ pending' = Tail(pending)
  /\ collected' = collected \cup {Head(pending)}
  /\ UNCHANGED <<pc, hand, next, modes, lockedPdus, delivered, discarded, raced>>

Dispatch ==
  \/ CheckLocked
  \/ AddLockedPdu
  \/ \E t \in Threads :
       CheckSynchronous(t) \/ StillSynchronous(t) \/ AddPendingPacket(t) \/ OnPacket(t)

Next ==
  \/ PacketArrives
  \/ Dispatch
  \/ Lock
  \/ ClearLocked
  \/ Unlock
  \/ TakeLocked
  \/ FoundEmpty
  \/ Release
  \/ EnableSynchronous
  \/ ClearPending
  \/ DisableSynchronous
  \/ WaitPacket

Spec == Init /\ [][Next]_vars

-----------------------------------------------------------------------------
(***************************************************************************)
(* Properties.                                                             *)
(***************************************************************************)
Increasing(q) == \A i, j \in 1..Len(q) : i < j => q[i] < q[j]

\* Every packet leaves the connector exactly once, by one of its exits, and
\* is in one queue or in one thread's hands until then.
InHands == {hand[t] : t \in Threads} \ {None}

CustodyOf == INSTANCE Custody WITH
  Message <- Packets,
  held <- InHands \cup Queued(lockedPdus) \cup Queued(pending),
  settled <- Queued(delivered) \cup collected \cup discarded

PacketCustody == CustodyOf!Spec

\* Locking and unlocking do not reorder packets: on_packet sees them in the
\* order the device sent them, though two threads call it, unless a packet
\* was queued when unlock() was done with the queue.
InOrder == ~raced => Increasing(delivered) /\ Increasing(pending)

\* An unlocked connector keeps no packet back, with the same exception.
AllReleased == ~locked /\ ~raced => lockedPdus = <<>>

\* A locked connector keeps packets "in a waiting queue, but will dispatch
\* them all at once when unlocked" (not so: one may be queued too late).
ReleasedWhenUnlocked ==
  ~locked /\ pc["app"] = "idle" /\ pc["message"] = "idle" => lockedPdus = <<>>
=============================================================================
