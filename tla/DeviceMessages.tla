--------------------------- MODULE DeviceMessages ---------------------------
(***************************************************************************)
(* The messages of an open WHAD device (whad/device/device.py).            *)
(*                                                                         *)
(* The input thread routes each incoming message to one of two queues:     *)
(* msgQueue, when the message matches the current queue filter, and        *)
(* messages otherwise.  The message thread dispatches messages to the      *)
(* connector; a connector callback may send a command of its own.          *)
(* Application threads (Clients) send commands, which set the filter,      *)
(* write a header and a payload and take the answer from msgQueue, or      *)
(* wait for a packet (the sniffers' loop); bridges and servers send        *)
(* messages without the command lock and without waiting.  A thread that   *)
(* waits dispatches the queued messages that do not match, so connector    *)
(* callbacks run in any thread.                                            *)
(*                                                                         *)
(* The messages sent and the packets of the firmware are numbered; a       *)
(* message received is a CommandResult or a packet, and a filter is the    *)
(* class it keeps.                                                         *)
(***************************************************************************)
EXTENDS Naturals, Sequences, FiniteSets

CONSTANTS
  Clients,      \* application threads
  MsgThread,    \* WhadDeviceMessageThread
  NoThread,     \* a lock nobody holds
  MaxCommands,  \* bound: messages the host sends in a run
  MaxPackets,   \* bound: packets the firmware sends in a run
  MaxFailures,  \* bound: write errors of the transport in a run
  SharedWait    \* may a thread wait for packets while another sends commands?

ASSUME ThreadAssumption ==
  /\ MsgThread \notin Clients
  /\ NoThread \notin Clients \cup {MsgThread}

ASSUME BoundAssumption ==
  /\ MaxCommands \in Nat /\ MaxPackets \in Nat /\ MaxFailures \in Nat
  /\ SharedWait \in BOOLEAN

Threads  == Clients \cup {MsgThread}
Commands == 1..MaxCommands

Result(n) == [kind |-> "result", n |-> n]
Packet(n) == [kind |-> "packet", n |-> n]
NoMessage == [kind |-> "none", n |-> 0]
Message   == {Result(n) : n \in Commands} \cup {Packet(n) : n \in 1..MaxPackets}

VARIABLES
  pc,        \* where each thread is
  cmd,       \* the message each thread is sending, 0 when none
  waiting,   \* clients in wait_for_message outside any command
  txOwner,   \* holder of __tx_lock
  wOwner,    \* holder of __lock, the output lock
  filter,    \* __mq_filter: the kind it keeps, or "none"
  line,      \* chunks written to the transport, not yet read by the firmware
  wire,      \* messages sent by the firmware, not yet read by the host
  inHand,    \* the message the input thread is storing, and where
  msgQueue,  \* __msg_queue
  messages,  \* __messages
  opened,    \* __opened
  closing,   \* __closing
  handled,   \* history: messages passed to the connector
  returned,  \* history: messages returned to a waiting caller
  outcome,   \* history: how each command ended
  answer,    \* history: the message each command returned
  overlapped, \* history: a direct send has met a frame half written
  nextCmd,   \* number of the next message sent
  nextPkt,   \* number of the firmware's next packet
  failures   \* write errors so far

hostVars == <<pc, cmd, waiting, txOwner, wOwner, filter>>
queues   == <<inHand, msgQueue, messages>>
history  == <<handled, returned, outcome, answer>>
counters == <<nextCmd, nextPkt, failures>>
vars     == <<hostVars, line, wire, queues, opened, closing, history, overlapped, counters>>

\* The labels of send_command; "callback" is a callback run by its wait, and
\* "relock" a second acquisition of __tx_lock, by that callback.
InCommand == {"lock", "filter", "header", "payload", "enter", "get", "callback", "relock"}
InSend    == {"sendHeader", "sendPayload"}
Labels    == InCommand \cup InSend \cup {"idle", "handler", "wait", "upcall"}

\* Where a thread sends messages from: a callback run by the message thread
\* ("handler") or by a client's wait ("upcall"), or the application.
Home(t) == IF t = MsgThread THEN "handler" ELSE IF t \in waiting THEN "upcall" ELSE "idle"

TypeOK ==
  /\ pc \in [Threads -> Labels]
  /\ waiting \subseteq Clients
  /\ cmd \in [Threads -> 0..MaxCommands]
  /\ txOwner \in Threads \cup {NoThread}
  /\ wOwner \in Threads \cup {NoThread}
  /\ filter \in {"none", "result", "packet"}
  /\ line \in Seq([part : {"header", "payload"}, n : Commands])
  /\ wire \in Seq(Message)
  /\ inHand \in [msg : Message \cup {NoMessage}, keep : BOOLEAN]
  /\ msgQueue \in Seq(Message)
  /\ messages \in Seq(Message)
  /\ opened \in BOOLEAN
  /\ closing \in BOOLEAN
  /\ handled \subseteq Message
  /\ returned \subseteq Message
  /\ outcome \in [Commands -> {"none", "sent", "answered", "timeout", "error", "disconnected"}]
  /\ answer \in [Commands -> Message \cup {NoMessage}]
  /\ overlapped \in BOOLEAN
  /\ nextCmd \in 1..(MaxCommands + 1)
  /\ nextPkt \in 1..(MaxPackets + 1)
  /\ failures \in 0..MaxFailures

Nothing == [msg |-> NoMessage, keep |-> FALSE]

Init ==
  /\ pc = [t \in Threads |-> "idle"]
  /\ cmd = [t \in Threads |-> 0]
  /\ waiting = {}
  /\ txOwner = NoThread
  /\ wOwner = NoThread
  /\ filter = "none"
  /\ line = <<>>
  /\ wire = <<>>
  /\ inHand = Nothing
  /\ msgQueue = <<>>
  /\ messages = <<>>
  /\ opened = TRUE
  /\ closing = FALSE
  /\ handled = {}
  /\ returned = {}
  /\ outcome = [n \in Commands |-> "none"]
  /\ answer = [n \in Commands |-> NoMessage]
  /\ overlapped = FALSE
  /\ nextCmd = 1
  /\ nextPkt = 1
  /\ failures = 0

Goto(t, label) == pc' = [pc EXCEPT ![t] = label]

(***************************************************************************)
(* send_command: take __tx_lock, set the filter, write header and payload, *)
(* then wait for the first message matching the filter.                    *)
(***************************************************************************)
Matches(m) == filter # "none" /\ m.kind = filter

BeginCommand(t) ==
  /\ pc[t] = Home(t)
  /\ nextCmd <= MaxCommands
  /\ SharedWait \/ waiting \subseteq {t}
  /\ Goto(t, "lock")
  /\ cmd' = [cmd EXCEPT ![t] = nextCmd]
  /\ nextCmd' = nextCmd + 1
  /\ UNCHANGED <<waiting, txOwner, wOwner, filter, line, wire, queues, opened, closing,
                 history, overlapped, nextPkt, failures>>

\* Mutant: __tx_lock is taken without waiting for it.
AcquireTxAtOnce(t) ==
  /\ pc[t] = "lock"
  /\ txOwner' = t
  /\ Goto(t, "filter")
  /\ UNCHANGED <<cmd, waiting, wOwner, filter, line, wire, queues, opened, closing, history,
                 overlapped, counters>>

AcquireTx(t) ==
  /\ pc[t] = "lock"
  /\ txOwner = NoThread
  /\ txOwner' = t
  /\ Goto(t, "filter")
  /\ UNCHANGED <<cmd, waiting, wOwner, filter, line, wire, queues, opened, closing, history,
                 overlapped, counters>>

\* Mutant: the filter is not set before the command is written.
SetCommandFilterLate(t) ==
  /\ pc[t] = "filter"
  /\ Goto(t, "header")
  /\ UNCHANGED <<cmd, waiting, txOwner, wOwner, filter, line, wire, queues, opened, closing,
                 history, overlapped, counters>>

SetCommandFilter(t) ==
  /\ pc[t] = "filter"
  /\ filter' = "result"
  /\ Goto(t, "header")
  /\ UNCHANGED <<cmd, waiting, txOwner, wOwner, line, wire, queues, opened, closing, history,
                 overlapped, counters>>

\* The command of t is over: __tx_lock is released on every exit.
FinishCommand(t, how) ==
  /\ Goto(t, Home(t))
  /\ cmd' = [cmd EXCEPT ![t] = 0]
  /\ txOwner' = NoThread
  /\ outcome' = [outcome EXCEPT ![cmd[t]] = how]

\* One __write: the output lock is taken, the chunk is written, and the lock
\* is released, unless write() raises.
Write(t, part) ==
  /\ wOwner = NoThread
  /\ opened
  /\ line' = Append(line, [part |-> part, n |-> cmd[t]])
  /\ UNCHANGED <<waiting, txOwner, wOwner, filter, wire, queues, opened, closing, history,
                 counters>>

\* A header written while another thread is between its header and payload,
\* which __lock allows: only send_command excludes send_command.
Overlap(t, labels) ==
  overlapped' = (overlapped \/ \E u \in Threads \ {t} : pc[u] \in labels)

WriteHeader(t) ==
  /\ pc[t] = "header"
  /\ Write(t, "header")
  /\ Goto(t, "payload")
  /\ Overlap(t, {"sendPayload"})
  /\ UNCHANGED cmd

WritePayload(t) ==
  /\ pc[t] = "payload"
  /\ Write(t, "payload")
  /\ Goto(t, "enter")
  /\ UNCHANGED <<cmd, overlapped>>

\* write() raises, because the transport failed or is closed: the exception
\* leaves __write between lock() and unlock().
Raises(t) ==
  /\ wOwner = NoThread
  /\ IF opened THEN failures < MaxFailures /\ failures' = failures + 1
               ELSE UNCHANGED failures
  /\ wOwner' = t
  /\ UNCHANGED <<waiting, filter, line, wire, queues, opened, closing, handled, returned,
                 answer, overlapped, nextCmd, nextPkt>>

WriteFails(t) ==
  /\ pc[t] \in {"header", "payload"}
  /\ Raises(t)
  /\ FinishCommand(t, "error")

(***************************************************************************)
(* send_message outside send_command (connectors, bridges, the servers on  *)
(* sockets): no lock covers the frame, no filter is set, nothing is        *)
(* awaited.                                                                *)
(***************************************************************************)
BeginSend(t) ==
  /\ pc[t] = Home(t)
  /\ nextCmd <= MaxCommands
  /\ Goto(t, "sendHeader")
  /\ cmd' = [cmd EXCEPT ![t] = nextCmd]
  /\ outcome' = [outcome EXCEPT ![nextCmd] = "sent"]
  /\ nextCmd' = nextCmd + 1
  /\ UNCHANGED <<waiting, txOwner, wOwner, filter, line, wire, queues, opened, closing,
                 handled, returned, answer, overlapped, nextPkt, failures>>

SendHeader(t) ==
  /\ pc[t] = "sendHeader"
  /\ Write(t, "header")
  /\ Goto(t, "sendPayload")
  /\ Overlap(t, {"payload", "sendPayload"})
  /\ UNCHANGED cmd

\* The message of t is sent, or its sending has raised.
FinishSend(t) ==
  /\ Goto(t, Home(t))
  /\ cmd' = [cmd EXCEPT ![t] = 0]

SendPayload(t) ==
  /\ pc[t] = "sendPayload"
  /\ Write(t, "payload")
  /\ FinishSend(t)
  /\ UNCHANGED overlapped

SendFails(t) ==
  /\ pc[t] \in InSend
  /\ Raises(t)
  /\ FinishSend(t)
  /\ UNCHANGED <<txOwner, outcome>>

(***************************************************************************)
(* The rest of send_command: wait_for_message on its own filter.           *)
(***************************************************************************)
EnterWait(t) ==
  /\ pc[t] = "enter"
  /\ IF ~opened /\ msgQueue = <<>>
     THEN FinishCommand(t, "disconnected")
     ELSE Goto(t, "get") /\ UNCHANGED <<cmd, txOwner, outcome>>
  /\ UNCHANGED <<waiting, wOwner, filter, line, wire, queues, opened, closing, handled,
                 returned, answer, overlapped, counters>>

\* Mutant: any queued message is taken for the answer.
TakeAnything(t) ==
  /\ pc[t] = "get"
  /\ msgQueue # <<>>
  /\ msgQueue' = Tail(msgQueue)
  /\ returned' = returned \cup {Head(msgQueue)}
  /\ answer' = [answer EXCEPT ![cmd[t]] = Head(msgQueue)]
  /\ FinishCommand(t, "answered")
  /\ UNCHANGED <<waiting, wOwner, filter, line, wire, inHand, messages, opened, closing,
                 handled, overlapped, counters>>

\* Mutant: the answer stays in the queue.
PeekAnswer(t) ==
  /\ pc[t] = "get"
  /\ msgQueue # <<>>
  /\ Matches(Head(msgQueue))
  /\ returned' = returned \cup {Head(msgQueue)}
  /\ answer' = [answer EXCEPT ![cmd[t]] = Head(msgQueue)]
  /\ FinishCommand(t, "answered")
  /\ UNCHANGED <<waiting, wOwner, filter, line, wire, queues, opened, closing, handled,
                 overlapped, counters>>

TakeAnswer(t) ==
  /\ pc[t] = "get"
  /\ msgQueue # <<>>
  /\ Matches(Head(msgQueue))
  /\ msgQueue' = Tail(msgQueue)
  /\ returned' = returned \cup {Head(msgQueue)}
  /\ answer' = [answer EXCEPT ![cmd[t]] = Head(msgQueue)]
  /\ FinishCommand(t, "answered")
  /\ UNCHANGED <<waiting, wOwner, filter, line, wire, inHand, messages, opened, closing,
                 handled, overlapped, counters>>

\* Mutant: the wait has no timeout while the device is open.
TimeoutWhenClosed(t) ==
  /\ pc[t] = "get"
  /\ msgQueue = <<>>
  /\ ~opened
  /\ FinishCommand(t, "timeout")
  /\ UNCHANGED <<waiting, wOwner, filter, line, wire, queues, opened, closing, handled,
                 returned, answer, overlapped, counters>>

CommandTimeout(t) ==
  /\ pc[t] = "get"
  /\ msgQueue = <<>>
  /\ FinishCommand(t, "timeout")
  /\ UNCHANGED <<waiting, wOwner, filter, line, wire, queues, opened, closing, handled,
                 returned, answer, overlapped, counters>>

(***************************************************************************)
(* wait_for_message(timeout, filter), outside any command.                 *)
(***************************************************************************)
BeginWait(c) ==
  /\ pc[c] = "idle"
  /\ opened \/ msgQueue # <<>>
  /\ SharedWait \/ (waiting = {} /\ \A u \in Threads : pc[u] \notin InCommand)
  /\ filter' = "packet"
  /\ waiting' = waiting \cup {c}
  /\ Goto(c, "wait")
  /\ UNCHANGED <<cmd, txOwner, wOwner, line, wire, queues, opened, closing, history,
                 overlapped, counters>>

FinishWait(c) ==
  /\ Goto(c, "idle")
  /\ waiting' = waiting \ {c}

TakePacket(c) ==
  /\ pc[c] = "wait"
  /\ msgQueue # <<>>
  /\ Matches(Head(msgQueue))
  /\ msgQueue' = Tail(msgQueue)
  /\ returned' = returned \cup {Head(msgQueue)}
  /\ FinishWait(c)
  /\ UNCHANGED <<cmd, txOwner, wOwner, filter, line, wire, inHand, messages, opened, closing,
                 handled, outcome, answer, overlapped, counters>>

WaitTimeout(c) ==
  /\ pc[c] = "wait"
  /\ msgQueue = <<>>
  /\ FinishWait(c)
  /\ UNCHANGED <<cmd, txOwner, wOwner, filter, line, wire, queues, opened, closing, history,
                 overlapped, counters>>

(***************************************************************************)
(* A queued message does not match the filter in force now: the waiting    *)
(* thread dispatches it itself, running the connector's callback, and      *)
(* waits again.  Inside a command it holds __tx_lock, which is not         *)
(* reentrant: a callback that sends a command waits for its own thread.    *)
(***************************************************************************)
DispatchQueued(t) ==
  /\ pc[t] \in {"get", "wait"}
  /\ msgQueue # <<>>
  /\ ~Matches(Head(msgQueue))
  /\ msgQueue' = Tail(msgQueue)
  /\ handled' = handled \cup {Head(msgQueue)}
  /\ Goto(t, IF pc[t] = "get" THEN "callback" ELSE "upcall")
  /\ UNCHANGED <<cmd, waiting, txOwner, wOwner, filter, line, wire, inHand, messages, opened,
                 closing, returned, outcome, answer, overlapped, counters>>

CallbackSends(t) ==
  /\ pc[t] = "callback"
  /\ Goto(t, "relock")
  /\ UNCHANGED <<cmd, waiting, txOwner, wOwner, filter, line, wire, queues, opened, closing,
                 history, overlapped, counters>>

CallbackReturns(t) ==
  /\ pc[t] \in {"callback", "upcall"}
  /\ Goto(t, IF pc[t] = "callback" THEN "get" ELSE "wait")
  /\ UNCHANGED <<cmd, waiting, txOwner, wOwner, filter, line, wire, queues, opened, closing,
                 history, overlapped, counters>>

(***************************************************************************)
(* The input thread: on_message_received tests the filter, then stores.    *)
(***************************************************************************)
Receive ==
  /\ inHand = Nothing
  /\ wire # <<>>
  /\ opened
  /\ wire' = Tail(wire)
  /\ inHand' = IF closing THEN Nothing
               ELSE [msg |-> Head(wire), keep |-> Matches(Head(wire))]
  /\ UNCHANGED <<hostVars, line, msgQueue, messages, opened, closing, history, overlapped, counters>>

\* Mutant: the routing decision is queued with the message.
StorePair ==
  /\ inHand # Nothing
  /\ inHand' = Nothing
  /\ IF inHand.keep
     THEN msgQueue' = Append(msgQueue, inHand) /\ UNCHANGED messages
     ELSE messages' = Append(messages, inHand) /\ UNCHANGED msgQueue
  /\ UNCHANGED <<hostVars, line, wire, opened, closing, history, overlapped, counters>>

\* Mutant: a message kept for a caller is dispatched in the background too.
StoreBoth ==
  /\ inHand # Nothing
  /\ inHand' = Nothing
  /\ IF inHand.keep THEN msgQueue' = Append(msgQueue, inHand.msg) ELSE UNCHANGED msgQueue
  /\ messages' = Append(messages, inHand.msg)
  /\ UNCHANGED <<hostVars, line, wire, opened, closing, history, overlapped, counters>>

Store ==
  /\ inHand # Nothing
  /\ inHand' = Nothing
  /\ IF inHand.keep
     THEN msgQueue' = Append(msgQueue, inHand.msg) /\ UNCHANGED messages
     ELSE messages' = Append(messages, inHand.msg) /\ UNCHANGED msgQueue
  /\ UNCHANGED <<hostVars, line, wire, opened, closing, history, overlapped, counters>>

(***************************************************************************)
(* The message thread: process_messages and dispatch_message.              *)
(***************************************************************************)
\* Mutant: the message thread stops as soon as the device is closed.
ProcessWhileOpened ==
  /\ pc[MsgThread] = "idle"
  /\ messages # <<>>
  /\ opened
  /\ messages' = Tail(messages)
  /\ handled' = handled \cup {Head(messages)}
  /\ Goto(MsgThread, "handler")
  /\ UNCHANGED <<cmd, waiting, txOwner, wOwner, filter, line, wire, inHand, msgQueue, opened,
                 closing, returned, outcome, answer, overlapped, counters>>

Process ==
  /\ pc[MsgThread] = "idle"
  /\ messages # <<>>
  /\ messages' = Tail(messages)
  /\ handled' = handled \cup {Head(messages)}
  /\ Goto(MsgThread, "handler")
  /\ UNCHANGED <<cmd, waiting, txOwner, wOwner, filter, line, wire, inHand, msgQueue, opened,
                 closing, returned, outcome, answer, overlapped, counters>>

HandlerReturns ==
  /\ pc[MsgThread] = "handler"
  /\ Goto(MsgThread, "idle")
  /\ UNCHANGED <<cmd, waiting, txOwner, wOwner, filter, line, wire, queues, opened, closing,
                 history, overlapped, counters>>

(***************************************************************************)
(* close(), as far as messages see it: once closing is set the input       *)
(* thread drops what it reads, and opened is reset when it has stopped.    *)
(***************************************************************************)
BeginClose ==
  /\ opened /\ ~closing
  /\ closing' = TRUE
  /\ UNCHANGED <<hostVars, line, wire, queues, opened, history, overlapped, counters>>

EndClose ==
  /\ closing
  /\ inHand = Nothing
  /\ opened' = FALSE
  /\ closing' = FALSE
  /\ UNCHANGED <<hostVars, line, wire, queues, history, overlapped, counters>>

(***************************************************************************)
(* The firmware (external): it reads frames, answers a message or not, and *)
(* sends packets of its own accord.                                        *)
(***************************************************************************)
WholeFrame ==
  /\ Len(line) >= 2
  /\ line[1].part = "header" /\ line[2].part = "payload" /\ line[1].n = line[2].n

FirmwareAnswers ==
  /\ WholeFrame
  /\ line' = SubSeq(line, 3, Len(line))
  /\ wire' = Append(wire, Result(line[1].n))
  /\ UNCHANGED <<hostVars, queues, opened, closing, history, overlapped, counters>>

FirmwareIgnores ==
  /\ WholeFrame
  /\ line' = SubSeq(line, 3, Len(line))
  /\ UNCHANGED <<hostVars, wire, queues, opened, closing, history, overlapped, counters>>

\* Frames that overlap are not frames: the firmware looks for the next one.
FirmwareResyncs ==
  /\ Len(line) >= 2
  /\ ~WholeFrame
  /\ line' = Tail(line)
  /\ UNCHANGED <<hostVars, wire, queues, opened, closing, history, overlapped, counters>>

FirmwareSendsPacket ==
  /\ nextPkt <= MaxPackets
  /\ wire' = Append(wire, Packet(nextPkt))
  /\ nextPkt' = nextPkt + 1
  /\ UNCHANGED <<hostVars, line, queues, opened, closing, history, overlapped, nextCmd,
                 failures>>

CommandStep(t) ==
  \/ AcquireTx(t)
  \/ SetCommandFilter(t)
  \/ WriteHeader(t)
  \/ WritePayload(t)
  \/ WriteFails(t)
  \/ EnterWait(t)
  \/ TakeAnswer(t)
  \/ CommandTimeout(t)

SendStep(t) == SendHeader(t) \/ SendPayload(t) \/ SendFails(t)

WaitStep(c) == TakePacket(c) \/ WaitTimeout(c)

Next ==
  \/ \E t \in Threads : BeginCommand(t) \/ CommandStep(t)
  \/ \E t \in Threads : BeginSend(t) \/ SendStep(t)
  \/ \E t \in Threads : DispatchQueued(t) \/ CallbackSends(t) \/ CallbackReturns(t)
  \/ \E c \in Clients : BeginWait(c) \/ WaitStep(c)
  \/ Receive
  \/ Store
  \/ Process
  \/ HandlerReturns
  \/ BeginClose
  \/ EndClose
  \/ FirmwareAnswers
  \/ FirmwareIgnores
  \/ FirmwareResyncs
  \/ FirmwareSendsPacket

\* Every thread of the host keeps running: a blocking call returns when its
\* lock is free, its queue is not empty or its timeout has passed, and a
\* callback ends unless it waits for a lock.
Fairness ==
  /\ \A t \in Threads : WF_vars(CommandStep(t) \/ SendStep(t) \/ DispatchQueued(t)
                                 \/ CallbackReturns(t))
  /\ \A c \in Clients : WF_vars(WaitStep(c) \/ DispatchQueued(c))
  /\ WF_vars(Receive) /\ WF_vars(Store)
  /\ WF_vars(Process) /\ WF_vars(HandlerReturns)

Spec == Init /\ [][Next]_vars

FairSpec == Spec /\ Fairness
-----------------------------------------------------------------------------
(***************************************************************************)
(* Properties.                                                             *)
(***************************************************************************)

\* What is written to the transport is a sequence of whole frames, each
\* header followed by the payload of the same message: two commands never
\* interleave their writes, though __lock is released between the two.  Only
\* send_message called without __tx_lock, by a connector, a bridge or a
\* server, can break a frame, and until one does all frames are whole.
FrameIntegrity ==
  ~overlapped =>
    \A i \in 1..Len(line) :
      IF i % 2 = 1 THEN line[i].part = "header"
                   ELSE line[i].part = "payload" /\ line[i].n = line[i - 1].n

\* The message a command returns is its own answer or, once some command has
\* timed out or some message was sent without waiting, an answer nobody
\* waits for any more: never a packet, nor the answer of a command that is
\* still waiting for it.
Unawaited(n) == outcome[n] \in {"timeout", "sent"}

AnswerBelongs ==
  \A n \in Commands : outcome[n] = "answered" =>
    \/ answer[n] = Result(n)
    \/ /\ \E j \in Commands : j # n /\ Unawaited(j)
       /\ \E k \in Commands : answer[n] = Result(k) /\ (Unawaited(k) \/ outcome[k] = "answered")

\* A thread waits for __tx_lock while it holds it: a callback run by the wait
\* of a command has sent a command.
SelfLocked == \E t \in Threads : pc[t] = "relock"

\* Who keeps a lock.  The holder of __tx_lock is sending a command, on every
\* path through send_command, and waits for no lock but __lock unless it has
\* locked itself out; __lock is kept only by a thread whose write has failed,
\* or found the device closed.
LockHoldersRun ==
  /\ txOwner # NoThread => txOwner \in Threads /\ pc[txOwner] \in InCommand \ {"lock"}
  /\ \A t \in Threads : pc[t] = "relock" => txOwner = t
  /\ wOwner # NoThread => failures > 0 \/ ~opened

\* No answer is given to two commands.
AnsweredOnce ==
  \A m, n \in Commands :
    m # n /\ outcome[m] = "answered" /\ outcome[n] = "answered" => answer[m] # answer[n]

\* The answer of a command still waiting for it is never routed to the
\* background queue or dispatched to the connector.
AnswerReachesCaller ==
  \A n \in Commands : outcome[n] = "none" =>
    /\ Result(n) \notin handled
    /\ \A i \in 1..Len(messages) : messages[i] # Result(n)
    /\ inHand.msg = Result(n) => inHand.keep

\* Every message accepted is handed over exactly once, to the connector or
\* to a waiting caller, whichever thread does it.
Queued(q) == {q[i] : i \in 1..Len(q)}
Held      == Queued(msgQueue) \cup Queued(messages)
               \cup (IF inHand = Nothing THEN {} ELSE {inHand.msg})

CustodyOf == INSTANCE Custody WITH held <- Held, settled <- handled \cup returned

MessageCustody == CustodyOf!Spec

\* send_command returns, with an answer, a timeout or an error, and so does
\* send_message, as long as no thread has been left holding the output lock
\* and no callback waits for the command lock of its own thread.
LockLeaked == wOwner # NoThread

CommandReturns ==
  \A t \in Threads : (cmd[t] # 0) ~> (cmd[t] = 0 \/ LockLeaked \/ SelfLocked)

\* A message in the background queue reaches the connector, with the same
\* exceptions, even while the message thread is itself sending commands that
\* are never answered.
BackgroundDelivered ==
  \A m \in Message : (m \in Queued(messages)) ~> (m \in handled \/ LockLeaked \/ SelfLocked)
=============================================================================
