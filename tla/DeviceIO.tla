------------------------------ MODULE DeviceIO ------------------------------
(***************************************************************************)
(* The life of one WHAD device session: open(), the input and message      *)
(* threads, the loss of the transport, and close(), which applications     *)
(* (Users) and the message thread itself may run at the same time          *)
(* (whad/device/device.py, with the transports of uart.py, tcp.py and      *)
(* unix.py).                                                               *)
(*                                                                         *)
(* Messages are only counted: DeviceMessages says what becomes of them.    *)
(***************************************************************************)
EXTENDS Naturals, FiniteSets

CONSTANTS
  Users,      \* application threads; one of them opens the device
  MsgThread,  \* WhadDeviceMessageThread
  MaxMsgs     \* bound: messages the firmware sends in a session

ASSUME ThreadAssumption ==
  /\ IsFiniteSet(Users) /\ MsgThread \notin Users
  /\ MaxMsgs \in Nat

Closers == Users \cup {MsgThread}

VARIABLES
  transport,     \* "uart" or "socket": they differ in read() and close()
  peer,          \* the device is still attached
  port,          \* __opened of the transport class: its file is open
  opened,        \* WhadDevice.__opened
  closing,       \* WhadDevice.__closing
  alive,         \* WhadDeviceIOThread.__alive
  disconnected,  \* WhadDeviceIOThread.__disconnected
  inCanceled,    \* WhadDeviceInputThread.__canceled
  msgCanceled,   \* WhadDeviceMessageThread.__canceled
  input,         \* where the input thread is
  pc,            \* where the message thread and the users are
  joinFor,       \* users in join(): called by wait() or by close()
  sent,          \* messages sent by the firmware so far
  queued,        \* messages in __messages
  notified,      \* history: calls of connector.on_disconnection()
  userClosed,    \* history: some user's close() has set __closing
  early          \* history: the message thread closed before open() had marked opened

session == <<opened, closing, alive, disconnected, inCanceled, msgCanceled>>
counts  == <<sent, queued>>
vars    == <<transport, peer, port, session, input, pc, joinFor, counts, notified, userClosed, early>>

CloseLabels == {"check", "mark", "cancel", "nop", "join", "joined", "clear", "reset", "notify", "after"}

TypeOK ==
  /\ transport \in {"uart", "socket"}
  /\ {peer, port, opened, closing, alive, disconnected, inCanceled, msgCanceled, userClosed,
      early} \subseteq BOOLEAN
  /\ input \in {"off", "read", "store", "leaving", "stopped", "dead"}
  /\ pc \in [Closers -> CloseLabels \cup
              {"off", "idle", "start", "alive", "opened", "resetting", "loop", "drain", "done"}]
  /\ joinFor \in [Closers -> {"close", "wait"}]
  /\ sent \in 0..MaxMsgs
  /\ queued \in 0..(MaxMsgs + Cardinality(Closers))
  /\ notified \in 0..Cardinality(Closers)

Init ==
  /\ transport \in {"uart", "socket"}
  /\ peer = TRUE
  /\ port = FALSE
  /\ opened = FALSE
  /\ closing = FALSE
  /\ alive = FALSE
  /\ disconnected = FALSE
  /\ inCanceled = FALSE
  /\ msgCanceled = FALSE
  /\ input = "off"
  /\ pc = [t \in Closers |-> "off"]
  /\ joinFor = [t \in Closers |-> "close"]
  /\ sent = 0 /\ queued = 0
  /\ notified = 0
  /\ userClosed = FALSE
  /\ early = FALSE

Goto(t, from, to) == pc[t] = from /\ pc' = [pc EXCEPT ![t] = to]

(***************************************************************************)
(* open(): the port is opened, the threads are started, the device is      *)
(* marked opened and reset.  The other users wait for open() to return.    *)
(***************************************************************************)
OpenPort(u) ==
  /\ \A t \in Closers : pc[t] = "off"
  /\ peer
  /\ Goto(u, "off", "start")
  /\ port' = TRUE
  /\ UNCHANGED <<transport, peer, session, input, joinFor, counts, notified, userClosed, early>>

StartThreads(u) ==
  /\ pc[u] = "start"
  /\ input' = "read"
  /\ pc' = [pc EXCEPT ![u] = "alive", ![MsgThread] = "loop"]
  /\ UNCHANGED <<transport, peer, port, session, joinFor, counts, notified, userClosed, early>>

MarkAlive(u) ==
  /\ Goto(u, "alive", "opened")
  /\ alive' = TRUE
  /\ UNCHANGED <<transport, peer, port, opened, closing, disconnected, inCanceled, msgCanceled,
                 input, joinFor, counts, notified, userClosed, early>>

MarkOpened(u) ==
  /\ Goto(u, "opened", "resetting")
  /\ opened' = TRUE
  /\ UNCHANGED <<transport, peer, port, closing, alive, disconnected, inCanceled, msgCanceled,
                 input, joinFor, counts, notified, userClosed, early>>

\* reset() returns, or its command times out: the exception is not the one
\* open() handles, so the session stays as it is either way.
ResetEnds(u) ==
  /\ pc[u] = "resetting"
  /\ pc' = [t \in Closers |-> IF t \in Users THEN "idle" ELSE pc[t]]
  /\ UNCHANGED <<transport, peer, port, session, input, joinFor, counts, notified, userClosed, early>>

(***************************************************************************)
(* The input thread.                                                       *)
(***************************************************************************)
\* read() gets a message; on_message_received drops it when closing.
ReadMessage ==
  /\ input = "read" /\ ~inCanceled
  /\ port /\ peer
  /\ sent < MaxMsgs
  /\ sent' = sent + 1
  /\ input' = IF closing THEN "read" ELSE "store"
  /\ UNCHANGED <<transport, peer, port, session, pc, joinFor, queued, notified,
                 userClosed, early>>

StoreMessage ==
  /\ input = "store"
  /\ input' = "read"
  /\ queued' = queued + 1
  /\ UNCHANGED <<transport, peer, port, session, pc, joinFor, sent, notified, userClosed, early>>

\* read() raises WhadDeviceNotReady or WhadDeviceDisconnected.
ReadDisconnected ==
  /\ input = "read" /\ ~inCanceled
  /\ ~port \/ ~peer
  /\ input' = "leaving"
  /\ UNCHANGED <<transport, peer, port, session, pc, joinFor, counts, notified, userClosed, early>>

\* The serial port raises an OSError instead, which run() does not handle:
\* the thread ends there.
ReadRaises ==
  /\ input = "read" /\ ~inCanceled
  /\ transport = "uart"
  /\ ~port \/ ~peer
  /\ input' = "dead"
  /\ UNCHANGED <<transport, peer, port, session, pc, joinFor, counts, notified, userClosed, early>>

InputCanceled ==
  /\ input = "read" /\ inCanceled
  /\ input' = "leaving"
  /\ UNCHANGED <<transport, peer, port, session, pc, joinFor, counts, notified, userClosed, early>>

\* Mutant: the message thread is not canceled with the input thread.
OnDisconnectionInputOnly ==
  /\ input = "leaving"
  /\ input' = "stopped"
  /\ disconnected' = TRUE
  /\ inCanceled' = TRUE
  /\ UNCHANGED <<transport, peer, port, opened, closing, alive, msgCanceled, pc, joinFor, counts,
                 notified, userClosed, early>>

OnDisconnection ==
  /\ input = "leaving"
  /\ input' = "stopped"
  /\ disconnected' = TRUE
  /\ inCanceled' = TRUE
  /\ msgCanceled' = TRUE
  /\ UNCHANGED <<transport, peer, port, opened, closing, alive, pc, joinFor, counts, notified,
                 userClosed, early>>

(***************************************************************************)
(* The message thread: it dispatches until canceled, then until a get on   *)
(* the queue times out, then closes the device.                            *)
(***************************************************************************)
\* Mutant: the queue is read whether or not it holds a message.
ProcessAnything ==
  /\ pc[MsgThread] \in {"loop", "drain"}
  /\ queued' = queued - 1
  /\ UNCHANGED <<transport, peer, port, session, input, pc, joinFor, sent, notified, userClosed,
                 early>>

ProcessMessage ==
  /\ pc[MsgThread] \in {"loop", "drain"}
  /\ queued > 0
  /\ queued' = queued - 1
  /\ UNCHANGED <<transport, peer, port, session, input, pc, joinFor, sent, notified, userClosed, early>>

LeaveLoop ==
  /\ msgCanceled
  /\ Goto(MsgThread, "loop", "drain")
  /\ UNCHANGED <<transport, peer, port, session, input, joinFor, counts, notified, userClosed, early>>

\* Mutant: the message thread closes the device without draining its queue.
LeaveUndrained ==
  /\ Goto(MsgThread, "drain", "check")
  /\ UNCHANGED <<transport, peer, port, session, input, joinFor, counts, notified, userClosed,
                 early>>

Drained ==
  /\ queued = 0
  /\ Goto(MsgThread, "drain", "check")
  /\ UNCHANGED <<transport, peer, port, session, input, joinFor, counts, notified, userClosed, early>>

(***************************************************************************)
(* close().  A socket is closed first; a serial port once WhadDevice.close *)
(* has returned.                                                           *)
(***************************************************************************)
BeginClose(u) ==
  /\ Goto(u, "idle", "check")
  /\ UNCHANGED <<transport, peer, port, session, input, joinFor, counts, notified, userClosed, early>>

\* wait(): join the threads.
BeginWait(u) ==
  /\ Goto(u, "idle", "join")
  /\ joinFor' = [joinFor EXCEPT ![u] = "wait"]
  /\ UNCHANGED <<transport, peer, port, session, input, counts, notified, userClosed, early>>

CloseCheck(t) ==
  /\ Goto(t, "check", IF ~opened \/ closing THEN "after" ELSE "mark")
  /\ port' = (transport = "uart" /\ port)
  /\ early' = (early \/ (~opened /\ \E u \in Users : pc[u] \in {"alive", "opened"}))
  /\ UNCHANGED <<transport, peer, session, input, joinFor, counts, notified, userClosed>>

CloseMark(t) ==
  /\ Goto(t, "mark", "cancel")
  /\ closing' = TRUE
  /\ userClosed' = (userClosed \/ t \in Users)
  /\ UNCHANGED <<transport, peer, port, opened, alive, disconnected, inCanceled, msgCanceled,
                 input, joinFor, counts, notified, early>>

\* Mutant: the test of is_alive() is inverted.
CancelNotAlive(t) ==
  /\ Goto(t, "cancel", "nop")
  /\ inCanceled' = (inCanceled \/ ~alive)
  /\ msgCanceled' = (msgCanceled \/ ~alive)
  /\ UNCHANGED <<transport, peer, port, opened, closing, alive, disconnected, input, joinFor,
                 counts, notified, userClosed, early>>

CloseCancel(t) ==
  /\ Goto(t, "cancel", "nop")
  /\ inCanceled' = (inCanceled \/ alive)
  /\ msgCanceled' = (msgCanceled \/ alive)
  /\ UNCHANGED <<transport, peer, port, opened, closing, alive, disconnected, input, joinFor,
                 counts, notified, userClosed, early>>

\* The NOP goes through on_message_received, which drops it while closing;
\* it is queued only if another close() has completed in between.
CloseNop(t) ==
  /\ Goto(t, "nop", "join")
  /\ joinFor' = [joinFor EXCEPT ![t] = "close"]
  /\ queued' = IF closing THEN queued ELSE queued + 1
  /\ UNCHANGED <<transport, peer, port, session, input, sent, notified, userClosed, early>>

\* join() loops until the input thread has called on_disconnection.
\* Mutant: join() returns before the input thread has ended.
JoinedAtOnce(t) ==
  /\ Goto(t, "join", "joined")
  /\ alive' = FALSE
  /\ UNCHANGED <<transport, peer, port, opened, closing, disconnected, inCanceled, msgCanceled,
                 input, joinFor, counts, notified, userClosed, early>>

Joined(t) ==
  /\ disconnected
  /\ Goto(t, "join", "joined")
  /\ alive' = FALSE
  /\ UNCHANGED <<transport, peer, port, opened, closing, disconnected, inCanceled, msgCanceled,
                 input, joinFor, counts, notified, userClosed, early>>

\* The end of join(): a device still opened is closed.  Called from wait()
\* this is a full close(); called from close() it finds closing set, and
\* only the port is closed.
AfterJoin(t) ==
  /\ Goto(t, "joined", IF joinFor[t] = "close" THEN "clear"
                       ELSE IF opened THEN "check" ELSE "idle")
  /\ port' = (port /\ ~(joinFor[t] = "close" /\ opened))
  /\ UNCHANGED <<transport, peer, session, input, joinFor, counts, notified, userClosed, early>>

CloseClear(t) ==
  /\ Goto(t, "clear", "reset")
  /\ opened' = FALSE
  /\ UNCHANGED <<transport, peer, port, closing, alive, disconnected, inCanceled, msgCanceled,
                 input, joinFor, counts, notified, userClosed, early>>

CloseReset(t) ==
  /\ Goto(t, "reset", "notify")
  /\ closing' = FALSE
  /\ UNCHANGED <<transport, peer, port, opened, alive, disconnected, inCanceled, msgCanceled,
                 input, joinFor, counts, notified, userClosed, early>>

CloseNotify(t) ==
  /\ Goto(t, "notify", "after")
  /\ notified' = notified + 1
  /\ UNCHANGED <<transport, peer, port, session, input, joinFor, counts, userClosed, early>>

CloseReturns(t) ==
  /\ Goto(t, "after", IF t = MsgThread THEN "done" ELSE "idle")
  /\ port' = FALSE
  /\ UNCHANGED <<transport, peer, session, input, joinFor, counts, notified, userClosed, early>>

(***************************************************************************)
(* The device is unplugged, or the peer closes the connection (external).  *)
(***************************************************************************)
Unplug ==
  /\ peer
  /\ peer' = FALSE
  /\ UNCHANGED <<transport, port, session, input, pc, joinFor, counts, notified, userClosed, early>>

OpenStep(u) == StartThreads(u) \/ MarkAlive(u) \/ MarkOpened(u) \/ ResetEnds(u)

InputStep ==
  \/ ReadMessage
  \/ StoreMessage
  \/ ReadDisconnected
  \/ ReadRaises
  \/ InputCanceled
  \/ OnDisconnection

CloseStep(t) ==
  \/ CloseCheck(t)
  \/ CloseMark(t)
  \/ CloseCancel(t)
  \/ CloseNop(t)
  \/ Joined(t)
  \/ AfterJoin(t)
  \/ CloseClear(t)
  \/ CloseReset(t)
  \/ CloseNotify(t)
  \/ CloseReturns(t)

MessageStep == ProcessMessage \/ LeaveLoop \/ Drained

Next ==
  \/ \E u \in Users : OpenPort(u) \/ OpenStep(u) \/ BeginClose(u) \/ BeginWait(u)
  \/ \E t \in Closers : CloseStep(t)
  \/ InputStep
  \/ MessageStep
  \/ Unplug

Fairness ==
  /\ \A u \in Users : WF_vars(OpenStep(u))
  /\ \A t \in Closers : WF_vars(CloseStep(t))
  /\ WF_vars(InputStep)
  /\ WF_vars(MessageStep)

Spec == Init /\ [][Next]_vars

FairSpec == Spec /\ Fairness

-----------------------------------------------------------------------------
(***************************************************************************)
(* Properties.                                                             *)
(***************************************************************************)
InClose(t) ==
  \/ pc[t] \in CloseLabels \ {"join", "joined"}
  \/ pc[t] \in {"join", "joined"} /\ joinFor[t] = "close"

\* The connector is told that the device is gone only when the input thread
\* has stopped reading it, whichever threads raced to close it.
ReaderStopsFirst == notified > 0 => input = "stopped"

\* When the device goes away by itself, every message read from it before is
\* dispatched before the message thread ends: cancellation comes after the
\* last message is queued.
NothingStranded == pc[MsgThread] = "done" /\ ~userClosed => queued = 0

\* A close() that joins the threads has canceled the input thread, and a
\* canceled input thread reads nothing more: what join() waits for is on its
\* way, whichever threads raced to reset the flags, or can no longer come.
JoinsCanceled ==
  \A t \in Closers : pc[t] = "join" /\ joinFor[t] = "close" => inCanceled

\* A lost device ends up closed and its connector notified, unless the
\* message thread has run its close() before open() marked the device opened.
LossClosesSession == disconnected ~> ((notified > 0 /\ ~opened) \/ early)

\* close() returns, even when several threads close at once, unless the
\* input thread has died of an exception.
CloseEnds ==
  \A t \in Closers : InClose(t) ~> (~InClose(t) \/ input = "dead")

\* close() always returns: it joins the I/O threads, "wait for the thread to
\* terminate nicely" (not so: join() waits for a flag that only a thread
\* ending by a handled exception sets).
CloseAlwaysEnds == \A t \in Closers : InClose(t) ~> ~InClose(t)
=============================================================================
