------------------------ MODULE DeviceMessages_proofs ------------------------
(***************************************************************************)
(* Proofs about DeviceMessages, for any number of threads, commands,       *)
(* packets and write errors.                                               *)
(***************************************************************************)
EXTENDS DeviceMessages, SequenceTheorems, TLAPS

LEMMA MessageTypes ==
  /\ \A n \in Commands : Result(n) \in Message
  /\ \A n \in 1..MaxPackets : Packet(n) \in Message
  /\ NoMessage \notin Message
  /\ Nothing \in [msg : Message \cup {NoMessage}, keep : BOOLEAN]
<1>1. \A n \in Commands : Result(n) \in Message
  BY DEF Message
<1>2. \A n \in 1..MaxPackets : Packet(n) \in Message
  BY DEF Message
<1>3. NoMessage \notin Message
  BY DEF Message, Result, Packet, NoMessage
<1>4. Nothing \in [msg : Message \cup {NoMessage}, keep : BOOLEAN]
  BY DEF Nothing
<1> QED
  BY <1>1, <1>2, <1>3, <1>4

LEMMA Bounds ==
  /\ Commands \subseteq Nat \ {0}
  /\ MaxCommands \in Nat /\ MaxPackets \in Nat /\ MaxFailures \in Nat
  BY BoundAssumption DEF Commands

\* A thread has a message in every state in which it works on one.
CommandOf ==
  \A t \in Threads : (pc[t] \in InCommand \cup InSend) => cmd[t] \in Commands

\* What the input thread holds is a message.
HandOf == inHand = Nothing \/ inHand.msg \in Message

TypeInv == TypeOK /\ CommandOf /\ HandOf

LEMMA TypeInvInit == Init => TypeInv
<1> SUFFICES ASSUME Init PROVE TypeInv
  OBVIOUS
<1> USE MessageTypes, Bounds, ThreadAssumption DEF Init
<1>1. /\ pc \in [Threads -> Labels]
      /\ cmd \in [Threads -> 0..MaxCommands]
      /\ \A t \in Threads : pc[t] \notin InCommand \cup InSend
  BY DEF InCommand, InSend, Labels
<1>2. /\ outcome \in [Commands -> {"none", "sent", "answered", "timeout", "error", "disconnected"}]
      /\ answer \in [Commands -> Message \cup {NoMessage}]
  OBVIOUS
<1>3. /\ inHand \in [msg : Message \cup {NoMessage}, keep : BOOLEAN]
      /\ HandOf
  BY DEF HandOf
<1>4. /\ line \in Seq([part : {"header", "payload"}, n : Commands])
      /\ wire \in Seq(Message) /\ msgQueue \in Seq(Message) /\ messages \in Seq(Message)
  OBVIOUS
<1>5. /\ nextCmd \in 1..(MaxCommands + 1)
      /\ nextPkt \in 1..(MaxPackets + 1)
      /\ failures \in 0..MaxFailures
  OBVIOUS
<1> QED
  BY <1>1, <1>2, <1>3, <1>4, <1>5 DEF TypeInv, TypeOK, CommandOf

\* Reading a frame takes its two chunks off the line.
LEMMA FrameRead ==
  ASSUME line \in Seq([part : {"header", "payload"}, n : Commands]), WholeFrame
  PROVE  /\ SubSeq(line, 3, Len(line)) \in Seq([part : {"header", "payload"}, n : Commands])
         /\ line[1].n \in Commands
<1> DEFINE C == [part : {"header", "payload"}, n : Commands]
<1>1. Len(line) \in Nat /\ Len(line) >= 2 /\ \A i \in 1..Len(line) : line[i] \in C
  <2> HIDE DEF C
  <2>1. line \in Seq(C)
    BY DEF C
  <2>2. Len(line) \in Nat /\ \A i \in 1..Len(line) : line[i] \in C
    BY <2>1, LenProperties, ElementOfSeq
  <2> QED BY <2>2 DEF WholeFrame
<1>2. line[1].n \in Commands
  BY <1>1
<1>3. SubSeq(line, 3, Len(line)) \in Seq(C)
  <2> HIDE DEF C
  <2> QED BY <1>1, SubSeqProperties
<1> QED
  BY <1>2, <1>3

LEMMA TypeInvNext == TypeInv /\ [Next]_vars => TypeInv'
<1> SUFFICES ASSUME TypeInv, [Next]_vars PROVE TypeInv'
  OBVIOUS
<1> USE MessageTypes, Bounds, ThreadAssumption
<1> USE DEF TypeInv, TypeOK, CommandOf, HandOf, InCommand, InSend, Labels, Home, Goto, hostVars, queues, history, counters
<1>1. ASSUME NEW t \in Threads, BeginCommand(t) PROVE TypeInv'
  BY <1>1 DEF BeginCommand, Commands
<1>2. ASSUME NEW t \in Threads, AcquireTx(t) PROVE TypeInv'
  BY <1>2 DEF AcquireTx
<1>3. ASSUME NEW t \in Threads, SetCommandFilter(t) PROVE TypeInv'
  BY <1>3 DEF SetCommandFilter
<1>4. ASSUME NEW t \in Threads, WriteHeader(t) PROVE TypeInv'
  <2>1. overlapped' \in BOOLEAN
    BY <1>4, Zenon DEF WriteHeader, Overlap
  <2> QED
    BY <1>4, <2>1 DEF WriteHeader, Write
<1>5. ASSUME NEW t \in Threads, WritePayload(t) PROVE TypeInv'
  BY <1>5 DEF WritePayload, Write
<1>6. ASSUME NEW t \in Threads, WriteFails(t) PROVE TypeInv'
  BY <1>6 DEF WriteFails, Raises, FinishCommand, Commands
<1>7. ASSUME NEW t \in Threads, EnterWait(t) PROVE TypeInv'
  <2>1. CASE ~opened /\ msgQueue = <<>>
    <3>1. /\ pc[t] = "enter" /\ FinishCommand(t, "disconnected")
          /\ UNCHANGED <<waiting, wOwner, filter, line, wire, queues, opened, closing, handled,
                         returned, answer, overlapped, counters>>
      BY <1>7, <2>1 DEF EnterWait
    <3> QED
      BY <3>1 DEF FinishCommand
  <2>2. CASE ~(~opened /\ msgQueue = <<>>)
    <3>1. /\ pc[t] = "enter" /\ Goto(t, "get") /\ UNCHANGED <<cmd, txOwner, outcome>>
          /\ UNCHANGED <<waiting, wOwner, filter, line, wire, queues, opened, closing, handled,
                         returned, answer, overlapped, counters>>
      BY <1>7, <2>2 DEF EnterWait
    <3> QED
      BY <3>1
  <2> QED
    BY <2>1, <2>2
<1>8. ASSUME NEW t \in Threads, TakeAnswer(t) PROVE TypeInv'
  BY <1>8 DEF TakeAnswer, FinishCommand, Commands
<1>9. ASSUME NEW t \in Threads, CommandTimeout(t) PROVE TypeInv'
  BY <1>9 DEF CommandTimeout, FinishCommand, Commands
<1>10. ASSUME NEW t \in Threads, DispatchQueued(t) PROVE TypeInv'
  BY <1>10 DEF DispatchQueued
<1>11. ASSUME NEW c \in Clients, BeginWait(c) PROVE TypeInv'
  BY <1>11 DEF BeginWait, Threads
<1>12. ASSUME NEW c \in Clients, TakePacket(c) PROVE TypeInv'
  BY <1>12 DEF TakePacket, FinishWait, Threads
<1>13. ASSUME NEW c \in Clients, WaitTimeout(c) PROVE TypeInv'
  BY <1>13 DEF WaitTimeout, FinishWait, Threads
<1>14. CASE Receive
  <2>1. Head(wire) \in Message /\ Tail(wire) \in Seq(Message)
    BY <1>14, HeadTailProperties DEF Receive
  <2>2. Matches(Head(wire)) \in BOOLEAN
    BY DEF Matches
  <2>3. inHand' \in [msg : Message \cup {NoMessage}, keep : BOOLEAN] /\ HandOf'
    BY <1>14, <2>1, <2>2 DEF Receive, Nothing
  <2> QED
    BY <1>14, <2>1, <2>3 DEF Receive
<1>15. CASE Store
  <2>1. inHand.msg \in Message
    BY <1>15 DEF Store
  <2>2. inHand' = Nothing /\ inHand' \in [msg : Message \cup {NoMessage}, keep : BOOLEAN]
    BY <1>15 DEF Store
  <2>3. msgQueue' \in Seq(Message) /\ messages' \in Seq(Message)
    <3>1. CASE inHand.keep
      <4>1. msgQueue' = Append(msgQueue, inHand.msg) /\ messages' = messages
        BY <1>15, <3>1, Zenon DEF Store
      <4> QED
        BY <2>1, <4>1
    <3>2. CASE ~inHand.keep
      <4>1. messages' = Append(messages, inHand.msg) /\ msgQueue' = msgQueue
        BY <1>15, <3>2, Zenon DEF Store
      <4> QED
        BY <2>1, <4>1
    <3> QED
      BY <3>1, <3>2
  <2> QED
    BY <1>15, <2>2, <2>3 DEF Store
<1>16. CASE Process
  BY <1>16 DEF Process, Threads
<1>17. CASE HandlerReturns
  BY <1>17 DEF HandlerReturns, Threads
<1>18. CASE BeginClose
  BY <1>18 DEF BeginClose
<1>19. CASE EndClose
  BY <1>19 DEF EndClose
<1>20. CASE FirmwareAnswers
  <2>1. line' \in Seq([part : {"header", "payload"}, n : Commands])
    BY <1>20, FrameRead DEF FirmwareAnswers
  <2>2. line[1].n \in Commands
    BY <1>20, FrameRead DEF FirmwareAnswers
  <2>3. wire' \in Seq(Message)
    <3>1. Result(line[1].n) \in Message
      BY <2>2
    <3> QED
      BY <1>20, <3>1 DEF FirmwareAnswers
  <2> QED
    BY <1>20, <2>1, <2>3 DEF FirmwareAnswers
<1>21. CASE FirmwareIgnores
  <2>1. line' \in Seq([part : {"header", "payload"}, n : Commands])
    BY <1>21, FrameRead DEF FirmwareIgnores
  <2>2. line[1].n \in Commands
    BY <1>21, FrameRead DEF FirmwareIgnores
  <2> QED
    BY <1>21, <2>1, <2>2 DEF FirmwareIgnores
<1>22. CASE FirmwareSendsPacket
  BY <1>22 DEF FirmwareSendsPacket
<1>23. CASE FirmwareResyncs
  <2>1. line # <<>>
    BY <1>23, EmptySeq DEF FirmwareResyncs
  <2>2. line' \in Seq([part : {"header", "payload"}, n : Commands])
    BY <1>23, <2>1, HeadTailProperties DEF FirmwareResyncs
  <2> QED
    BY <1>23, <2>2 DEF FirmwareResyncs
<1>24. ASSUME NEW t \in Threads, BeginSend(t) PROVE TypeInv'
  BY <1>24 DEF BeginSend, Commands
<1>25. ASSUME NEW t \in Threads, SendHeader(t) PROVE TypeInv'
  <2>1. overlapped' \in BOOLEAN
    BY <1>25, Zenon DEF SendHeader, Overlap
  <2> QED
    BY <1>25, <2>1 DEF SendHeader, Write
<1>26. ASSUME NEW t \in Threads, SendPayload(t) PROVE TypeInv'
  BY <1>26 DEF SendPayload, Write, FinishSend
<1>27. ASSUME NEW t \in Threads, SendFails(t) PROVE TypeInv'
  BY <1>27 DEF SendFails, Raises, FinishSend
<1>28. ASSUME NEW t \in Threads, CallbackSends(t) \/ CallbackReturns(t) PROVE TypeInv'
  <2>1. pc[t] \in {"callback", "upcall"} /\ \E to \in {"relock", "get", "wait"} :
          /\ pc' = [pc EXCEPT ![t] = to]
          /\ pc[t] = "upcall" => to = "wait"
    BY <1>28 DEF CallbackSends, CallbackReturns
  <2>2. pc' \in [Threads -> Labels] /\ CommandOf'
    BY <1>28, <2>1 DEF CallbackSends, CallbackReturns
  <2>3. /\ UNCHANGED <<cmd, waiting, txOwner, wOwner, filter, line, wire, inHand, msgQueue,
                       messages, opened, closing>>
        /\ UNCHANGED <<handled, returned, outcome, answer, overlapped, nextCmd, nextPkt, failures>>
    BY <1>28 DEF CallbackSends, CallbackReturns
  <2> QED
    BY <2>2, <2>3
<1>29. CASE UNCHANGED vars
  BY <1>29 DEF vars
<1> HIDE DEF TypeInv
<1>30. ASSUME NEW t \in Threads, BeginCommand(t) \/ CommandStep(t) \/ BeginSend(t) \/ SendStep(t)
      PROVE  TypeInv'
  BY <1>1, <1>2, <1>3, <1>4, <1>5, <1>6, <1>7, <1>8, <1>9, <1>24, <1>25, <1>26, <1>27, <1>30
     DEF CommandStep, SendStep
<1> QED
  BY <1>10, <1>11, <1>12, <1>13, <1>14, <1>15, <1>16, <1>17, <1>18, <1>19, <1>20, <1>21, <1>22,
     <1>23, <1>28, <1>29, <1>30 DEF Next, WaitStep

\* Every variable keeps to its type, in every run of any size.
THEOREM TypeCorrect == Spec => []TypeOK
<1>1. TypeInv => TypeOK
  BY DEF TypeInv
<1> QED
  BY TypeInvInit, TypeInvNext, <1>1, PTL DEF Spec

-----------------------------------------------------------------------------
(***************************************************************************)
(* FrameIntegrity.  A thread past AcquireTx holds __tx_lock, so at most    *)
(* one command is between its header and its payload.  Until a direct send *)
(* meets a frame half written, at most one thread of any kind is; the line *)
(* has a header without payload only while one is, or after a write error, *)
(* which leaves the output lock held: then nothing is written any more.    *)
(***************************************************************************)
Holding == {"filter", "header", "payload", "enter", "get", "callback", "relock"}
Writing == {"payload", "sendPayload"}

TxExclusive == \A t \in Threads : pc[t] \in Holding => txOwner = t

OneWriter == \A t, u \in Threads : pc[t] \in Writing /\ pc[u] \in Writing => t = u

HeaderSent ==
  \A t \in Threads : pc[t] \in Writing => Len(line) % 2 = 1 /\ line[Len(line)].n = cmd[t]

OddLine ==
  Len(line) % 2 = 1 => wOwner # NoThread \/ \E t \in Threads : pc[t] \in Writing

Whole == OneWriter /\ HeaderSent /\ OddLine /\ FrameIntegrity

FrameInv == TypeInv /\ TxExclusive /\ (~overlapped => Whole)

LEMMA LineLength == TypeOK => Len(line) \in Nat
  BY LenProperties DEF TypeOK

LEMMA FrameInvInit == Init => FrameInv
<1> SUFFICES ASSUME Init PROVE FrameInv
  OBVIOUS
<1>1. TypeInv
  BY TypeInvInit
<1>2. \A t \in Threads : pc[t] = "idle"
  BY DEF Init
<1>3. Len(line) = 0
  BY DEF Init
<1> QED
  BY <1>1, <1>2, <1>3 DEF FrameInv, Whole, TxExclusive, Holding, Writing, OneWriter, HeaderSent,
                          OddLine, FrameIntegrity

\* The line of frames: appending a chunk, and reading two.
LEMMA AppendChunk ==
  ASSUME TypeOK, NEW part \in {"header", "payload"}, NEW n \in Commands
  PROVE  LET w == Append(line, [part |-> part, n |-> n]) IN
         /\ Len(w) = Len(line) + 1
         /\ w[Len(line) + 1] = [part |-> part, n |-> n]
         /\ \A i \in 1..Len(line) : w[i] = line[i]
<1> DEFINE C == [part : {"header", "payload"}, n : Commands]
<1>1. line \in Seq(C) /\ [part |-> part, n |-> n] \in C
  BY DEF TypeOK
<1> HIDE DEF C
<1> QED
  BY <1>1, AppendProperties

LEMMA ReadFrame ==
  ASSUME TypeOK, WholeFrame
  PROVE  LET w == SubSeq(line, 3, Len(line)) IN
         /\ Len(line) >= 2
         /\ Len(w) = Len(line) - 2
         /\ \A i \in 1..Len(w) : w[i] = line[i + 2]
<1> DEFINE C == [part : {"header", "payload"}, n : Commands]
<1>1. line \in Seq(C)
  BY DEF TypeOK
<1> HIDE DEF C
<1>2. Len(line) \in Nat /\ \A i \in 1..Len(line) : line[i] \in C
  BY <1>1, LenProperties, ElementOfSeq
<1>3. Len(line) >= 2
  BY DEF WholeFrame
<1>4. \A i \in 3..Len(line) : line[i] \in C
  BY <1>2
<1>5. /\ Len(SubSeq(line, 3, Len(line))) = IF 3 <= Len(line) THEN Len(line) - 3 + 1 ELSE 0
      /\ \A i \in 1..(Len(line) - 3 + 1) : SubSeq(line, 3, Len(line))[i] = line[3 + i - 1]
  BY <1>2, <1>4, SubSeqProperties
<1>6. Len(SubSeq(line, 3, Len(line))) = Len(line) - 2
  BY <1>2, <1>3, <1>5
<1>7. \A i \in 1..(Len(line) - 2) : SubSeq(line, 3, Len(line))[i] = line[i + 2]
  BY <1>2, <1>5
<1> QED
  BY <1>3, <1>6, <1>7

\* A step that writes nothing, reads nothing and moves no thread to or from
\* its payload keeps the frames as they are.
LEMMA SameLine ==
  ASSUME FrameInv, line' = line, wOwner' = wOwner, overlapped' = overlapped,
         \A t \in Threads : pc'[t] \in Writing <=> pc[t] \in Writing,
         \A t \in Threads : pc[t] \in Writing => cmd'[t] = cmd[t],
         ~overlapped'
  PROVE  Whole'
<1>0. ~overlapped /\ Whole
  BY DEF FrameInv
<1>1. OneWriter' /\ HeaderSent' /\ OddLine'
  BY <1>0 DEF Whole, OneWriter, HeaderSent, OddLine
<1>2. FrameIntegrity'
  BY <1>0 DEF Whole, FrameIntegrity
<1> QED
  BY <1>1, <1>2 DEF Whole

LEMMA TxExclusiveNext == TypeInv /\ TxExclusive /\ [Next]_vars => TxExclusive'
<1> SUFFICES ASSUME TypeInv, TxExclusive, [Next]_vars PROVE TxExclusive'
  OBVIOUS
<1>0. /\ pc \in [Threads -> Labels]
      /\ Clients \subseteq Threads /\ MsgThread \in Threads
      /\ NoThread \notin Threads
      /\ \A t \in Threads : Home(t) \notin Holding /\ "lock" \notin Holding /\ "wait" \notin Holding
  BY ThreadAssumption DEF TypeInv, TypeOK, Threads, Home, Holding
<1> USE <1>0 DEF TxExclusive, Goto
<1>1. ASSUME NEW t \in Threads, BeginCommand(t) PROVE TxExclusive'
  BY <1>1 DEF BeginCommand
<1>2. ASSUME NEW t \in Threads, AcquireTx(t) PROVE TxExclusive'
  BY <1>2 DEF AcquireTx
<1>3. ASSUME NEW t \in Threads, SetCommandFilter(t) PROVE TxExclusive'
  BY <1>3 DEF SetCommandFilter, Holding
<1>4. ASSUME NEW t \in Threads, WriteHeader(t) \/ WritePayload(t) PROVE TxExclusive'
  BY <1>4 DEF WriteHeader, WritePayload, Write, Holding
<1>5. ASSUME NEW t \in Threads, WriteFails(t) PROVE TxExclusive'
  <2>1. pc[t] \in Holding /\ FinishCommand(t, "error")
    BY <1>5 DEF WriteFails, Holding
  <2> QED
    BY <2>1 DEF FinishCommand
<1>6. ASSUME NEW t \in Threads, EnterWait(t) PROVE TxExclusive'
  <2>1. pc[t] \in Holding
    BY <1>6 DEF EnterWait, Holding
  <2>2. CASE FinishCommand(t, "disconnected")
    BY <2>1, <2>2 DEF FinishCommand
  <2>3. CASE Goto(t, "get") /\ UNCHANGED <<cmd, txOwner, outcome>>
    BY <2>1, <2>3 DEF Holding
  <2> QED
    BY <1>6, <2>2, <2>3 DEF EnterWait
<1>7. ASSUME NEW t \in Threads, TakeAnswer(t) PROVE TxExclusive'
  <2>1. pc[t] \in Holding /\ FinishCommand(t, "answered")
    BY <1>7 DEF TakeAnswer, Holding
  <2> QED
    BY <2>1 DEF FinishCommand
<1>8. ASSUME NEW t \in Threads, CommandTimeout(t) PROVE TxExclusive'
  <2>1. pc[t] \in Holding /\ FinishCommand(t, "timeout")
    BY <1>8 DEF CommandTimeout, Holding
  <2> QED
    BY <2>1 DEF FinishCommand
<1>9. ASSUME NEW c \in Clients, BeginWait(c) PROVE TxExclusive'
  BY <1>9 DEF BeginWait
<1>10. ASSUME NEW c \in Clients, WaitStep(c) PROVE TxExclusive'
  BY <1>10 DEF WaitStep, TakePacket, WaitTimeout, FinishWait, Holding
<1>11. CASE Process \/ HandlerReturns
  BY <1>11 DEF Process, HandlerReturns, Holding
<1>12. ASSUME NEW t \in Threads, BeginSend(t) \/ SendStep(t) PROVE TxExclusive'
  <2>1. txOwner' = txOwner /\ \E to \in {"sendHeader", "sendPayload", Home(t)} :
                                pc' = [pc EXCEPT ![t] = to]
    BY <1>12 DEF BeginSend, SendStep, SendHeader, SendPayload, SendFails, Write, Raises, FinishSend
  <2>2. "sendHeader" \notin Holding /\ "sendPayload" \notin Holding
    BY DEF Holding
  <2> QED
    BY <2>1, <2>2
<1>13. ASSUME NEW t \in Threads, DispatchQueued(t) \/ CallbackSends(t) \/ CallbackReturns(t)
       PROVE  TxExclusive'
  <2>1. /\ txOwner' = txOwner
        /\ \E to \in Labels : pc' = [pc EXCEPT ![t] = to] /\ (to \in Holding => pc[t] \in Holding)
    BY <1>13 DEF DispatchQueued, CallbackSends, CallbackReturns, Holding, Labels, InCommand
  <2> QED
    BY <2>1
<1>14. CASE pc' = pc /\ txOwner' = txOwner
  BY <1>14
<1> QED
  BY <1>1, <1>2, <1>3, <1>4, <1>5, <1>6, <1>7, <1>8, <1>9, <1>10, <1>11, <1>12, <1>13, <1>14
     DEF Next, CommandStep, Receive, Store, BeginClose, EndClose, FirmwareAnswers,
         FirmwareIgnores, FirmwareResyncs, FirmwareSendsPacket, vars, hostVars

\* A header makes its thread the only one between header and payload, unless
\* it overlaps a frame: the other commands are kept out by __tx_lock.
LEMMA OnlyWriter ==
  ASSUME FrameInv, TxExclusive', NEW t \in Threads, WriteHeader(t) \/ SendHeader(t), ~overlapped'
  PROVE  ~overlapped /\ \A u \in Threads : pc[u] \notin Writing
<1>1. /\ TxExclusive
      /\ pc \in [Threads -> Labels]
  BY DEF FrameInv, TypeInv, TypeOK
<1>2. CASE WriteHeader(t)
  <2>1. ~overlapped /\ \A u \in Threads \ {t} : pc[u] # "sendPayload"
    BY <1>2, Zenon DEF WriteHeader, Overlap
  <2>2. pc[t] = "header" /\ \A u \in Threads : pc[u] = "payload" => u = t
    BY <1>1, <1>2 DEF WriteHeader, TxExclusive, Holding
  <2> QED
    BY <2>1, <2>2 DEF Writing
<1>3. CASE SendHeader(t)
  <2>1. ~overlapped /\ \A u \in Threads \ {t} : pc[u] \notin {"payload", "sendPayload"}
    BY <1>3, Zenon DEF SendHeader, Overlap
  <2>2. pc[t] = "sendHeader"
    BY <1>3 DEF SendHeader
  <2> QED
    BY <2>1, <2>2 DEF Writing
<1> QED
  BY <1>2, <1>3

\* The writes: one thread writes, after an even line the header, after its
\* own header the payload.
LEMMA HeaderPreserves ==
  ASSUME FrameInv, TxExclusive', NEW t \in Threads, WriteHeader(t) \/ SendHeader(t), ~overlapped'
  PROVE  Whole'
<1>1. /\ ~overlapped /\ TypeOK /\ HeaderSent /\ OddLine /\ FrameIntegrity
      /\ Len(line) \in Nat
      /\ pc \in [Threads -> Labels]
      /\ \A u \in Threads : pc[u] \notin Writing
  BY LineLength, OnlyWriter DEF FrameInv, Whole, TypeInv, TypeOK
<1>2. cmd[t] \in Commands
  BY DEF FrameInv, TypeInv, CommandOf, WriteHeader, SendHeader, InCommand, InSend
<1>3. /\ line' = Append(line, [part |-> "header", n |-> cmd[t]]) /\ cmd' = cmd
      /\ wOwner = NoThread
      /\ \E to \in Writing : pc' = [pc EXCEPT ![t] = to]
  BY DEF WriteHeader, SendHeader, Write, Goto, Writing
<1>4. Len(line) % 2 = 0
  BY <1>1, <1>3 DEF OddLine
<1>5. /\ Len(line') = Len(line) + 1
      /\ line'[Len(line) + 1] = [part |-> "header", n |-> cmd[t]]
      /\ \A i \in 1..Len(line) : line'[i] = line[i]
  BY <1>1, <1>2, <1>3, AppendChunk
<1>6. Len(line') % 2 = 1
  BY <1>1, <1>4, <1>5
<1>7. \A u \in Threads : pc'[u] \in Writing <=> u = t
  BY <1>1, <1>3
<1>8. OneWriter'
  BY <1>7 DEF OneWriter
<1>9. HeaderSent'
  <2>1. line'[Len(line')].n = cmd[t]
    BY <1>5
  <2> QED
    BY <1>3, <1>6, <1>7, <2>1 DEF HeaderSent
<1>10. OddLine'
  BY <1>7 DEF OddLine
<1>11. FrameIntegrity'
  <2>1. SUFFICES ASSUME NEW i \in 1..Len(line')
        PROVE IF i % 2 = 1 THEN line'[i].part = "header"
              ELSE line'[i].part = "payload" /\ line'[i].n = line'[i - 1].n
    BY DEF FrameIntegrity
  <2>2. CASE i = Len(line) + 1
    <3>1. i % 2 = 1
      BY <1>5, <1>6, <2>2
    <3> QED
      BY <1>5, <2>2, <3>1
  <2>3. CASE i # Len(line) + 1
    <3>1. i \in 1..Len(line) /\ (i % 2 # 1 => i - 1 \in 1..Len(line))
      BY <1>1, <1>5, <2>3
    <3> QED
      BY <1>1, <1>5, <3>1 DEF FrameIntegrity
  <2> QED
    BY <2>2, <2>3
<1> QED
  BY <1>8, <1>9, <1>10, <1>11 DEF Whole

LEMMA PayloadPreserves ==
  ASSUME FrameInv, NEW t \in Threads, WritePayload(t) \/ SendPayload(t), ~overlapped'
  PROVE  Whole'
<1>0. ~overlapped
  BY DEF WritePayload, SendPayload
<1>1. /\ TypeOK /\ OneWriter /\ HeaderSent /\ OddLine /\ FrameIntegrity
      /\ Len(line) \in Nat
      /\ pc \in [Threads -> Labels] /\ cmd \in [Threads -> 0..MaxCommands]
      /\ Home(t) \notin Writing
  BY <1>0, LineLength DEF FrameInv, Whole, TypeInv, TypeOK, Home, Writing
<1>2. cmd[t] \in Commands /\ pc[t] \in Writing
  BY DEF FrameInv, TypeInv, CommandOf, WritePayload, SendPayload, InCommand, InSend, Writing
<1>3. /\ line' = Append(line, [part |-> "payload", n |-> cmd[t]])
      /\ \A u \in Threads : pc'[u] \notin Writing
  <2>1. /\ line' = Append(line, [part |-> "payload", n |-> cmd[t]])
        /\ pc' = [pc EXCEPT ![t] = "enter"] \/ pc' = [pc EXCEPT ![t] = Home(t)]
    BY DEF WritePayload, SendPayload, Write, FinishSend, Goto
  <2>2. \A u \in Threads \ {t} : pc[u] \notin Writing
    BY <1>1, <1>2 DEF OneWriter
  <2>3. "enter" \notin Writing
    BY DEF Writing
  <2> QED
    BY <1>1, <2>1, <2>2, <2>3
<1>4. Len(line) % 2 = 1 /\ line[Len(line)].n = cmd[t]
  BY <1>1, <1>2 DEF HeaderSent
<1>5. /\ Len(line') = Len(line) + 1
      /\ line'[Len(line) + 1] = [part |-> "payload", n |-> cmd[t]]
      /\ \A i \in 1..Len(line) : line'[i] = line[i]
  BY <1>1, <1>2, <1>3, AppendChunk
<1>6. Len(line') % 2 = 0
  <2>1. Len(line) \in Nat /\ Len(line) % 2 = 1 /\ Len(line') = Len(line) + 1
    BY <1>1, <1>4, <1>5
  <2> QED
    BY <2>1
<1>7. OneWriter' /\ HeaderSent' /\ OddLine'
  BY <1>3, <1>6 DEF OneWriter, HeaderSent, OddLine
<1>8. FrameIntegrity'
  <2>1. SUFFICES ASSUME NEW i \in 1..Len(line')
        PROVE IF i % 2 = 1 THEN line'[i].part = "header"
              ELSE line'[i].part = "payload" /\ line'[i].n = line'[i - 1].n
    BY DEF FrameIntegrity
  <2>2. CASE i = Len(line) + 1
    <3>1. i % 2 = 0 /\ i - 1 \in 1..Len(line) /\ i - 1 = Len(line)
      BY <1>1, <1>4, <2>2
    <3> QED
      BY <1>4, <1>5, <2>2, <3>1
  <2>3. CASE i # Len(line) + 1
    <3>1. i \in 1..Len(line) /\ (i % 2 # 1 => i - 1 \in 1..Len(line))
      BY <1>1, <1>5, <2>3
    <3> QED
      BY <1>0, <1>1, <1>5, <3>1 DEF FrameIntegrity
  <2> QED
    BY <2>2, <2>3
<1> QED
  BY <1>7, <1>8 DEF Whole

\* A write error ends the writing for good: the output lock stays held.
LEMMA FailurePreserves ==
  ASSUME FrameInv, NEW t \in Threads, WriteFails(t) \/ SendFails(t), ~overlapped'
  PROVE  Whole'
<1>1. /\ line' = line /\ wOwner' = t /\ overlapped' = overlapped
      /\ pc' = [pc EXCEPT ![t] = Home(t)] /\ cmd' = [cmd EXCEPT ![t] = 0]
  BY DEF WriteFails, SendFails, Raises, FinishCommand, FinishSend, Goto
<1>2. /\ Whole /\ ~overlapped
      /\ pc \in [Threads -> Labels]
      /\ cmd \in [Threads -> 0..MaxCommands]
      /\ Home(t) \notin Writing /\ NoThread \notin Threads
  BY <1>1, ThreadAssumption DEF FrameInv, TypeInv, TypeOK, Home, Threads, Writing
<1>3. \A u \in Threads : pc'[u] \in Writing => u # t /\ pc[u] \in Writing /\ cmd'[u] = cmd[u]
  BY <1>1, <1>2
<1>4. OneWriter' /\ HeaderSent'
  BY <1>1, <1>2, <1>3 DEF Whole, OneWriter, HeaderSent
<1>5. OddLine'
  BY <1>1, <1>2 DEF OddLine
<1>6. FrameIntegrity'
  BY <1>1, <1>2 DEF Whole, FrameIntegrity
<1> QED
  BY <1>4, <1>5, <1>6 DEF Whole

\* The firmware takes a whole frame off the line.
LEMMA ReadPreserves ==
  ASSUME FrameInv, FirmwareAnswers \/ FirmwareIgnores, ~overlapped'
  PROVE  Whole'
<1>1. /\ line' = SubSeq(line, 3, Len(line)) /\ WholeFrame
      /\ pc' = pc /\ cmd' = cmd /\ wOwner' = wOwner /\ overlapped' = overlapped
  BY DEF FirmwareAnswers, FirmwareIgnores, hostVars
<1>2. /\ TypeOK /\ OneWriter /\ HeaderSent /\ OddLine /\ FrameIntegrity /\ Len(line) \in Nat
      /\ ~overlapped
  BY <1>1, LineLength DEF FrameInv, Whole, TypeInv
<1>3. /\ Len(line) >= 2
      /\ Len(line') = Len(line) - 2
      /\ \A i \in 1..Len(line') : line'[i] = line[i + 2]
  BY <1>1, <1>2, ReadFrame
<1>4. Len(line') % 2 = Len(line) % 2
  BY <1>2, <1>3
<1>5. HeaderSent'
  <2> SUFFICES ASSUME NEW t \in Threads, pc[t] \in Writing
               PROVE  Len(line') % 2 = 1 /\ line'[Len(line')].n = cmd[t]
    BY <1>1 DEF HeaderSent
  <2>1. Len(line) % 2 = 1 /\ line[Len(line)].n = cmd[t]
    BY <1>2 DEF HeaderSent
  <2>2. Len(line') \in 1..Len(line') /\ Len(line') + 2 = Len(line)
    BY <1>2, <1>3, <2>1
  <2> QED
    BY <1>3, <1>4, <2>1, <2>2
<1>6. OneWriter' /\ OddLine'
  BY <1>1, <1>2, <1>4 DEF OneWriter, OddLine
<1>7. FrameIntegrity'
  <2> SUFFICES ASSUME NEW i \in 1..Len(line')
               PROVE  IF i % 2 = 1 THEN line'[i].part = "header"
                      ELSE line'[i].part = "payload" /\ line'[i].n = line'[i - 1].n
    BY DEF FrameIntegrity
  <2>1. i + 2 \in 1..Len(line) /\ (i + 2) % 2 = i % 2
    BY <1>2, <1>3
  <2>2. IF i % 2 = 1 THEN line[i + 2].part = "header"
        ELSE line[i + 2].part = "payload" /\ line[i + 2].n = line[i + 1].n
    BY <1>2, <2>1 DEF FrameIntegrity
  <2>3. i % 2 # 1 => i - 1 \in 1..Len(line')
    <3>1. i \in Nat /\ i >= 1 /\ i <= Len(line') /\ Len(line') \in Int
      BY <1>2, <1>3
    <3>2. i % 2 # 1 => i # 1
      OBVIOUS
    <3> QED
      BY <3>1, <3>2
  <2>4. i % 2 # 1 => line'[i - 1] = line[i + 1]
    BY <1>3, <2>3
  <2> QED
    BY <1>3, <2>2, <2>4
<1> QED
  BY <1>5, <1>6, <1>7 DEF Whole

\* The firmware has nothing to skip while all frames are whole.
LEMMA NothingToSkip ==
  ASSUME FrameInv, ~overlapped PROVE ~FirmwareResyncs
<1>1. FrameIntegrity /\ Len(line) \in Nat
  BY LineLength DEF FrameInv, Whole, TypeInv
<1>2. Len(line) >= 2 => 1 \in 1..Len(line) /\ 2 \in 1..Len(line)
  BY <1>1
<1>3. Len(line) >= 2 => line[1].part = "header" /\ line[2].part = "payload" /\ line[2].n = line[1].n
  <2>1. \A i \in 1..Len(line) : IF i % 2 = 1 THEN line[i].part = "header"
                   ELSE line[i].part = "payload" /\ line[i].n = line[i - 1].n
    BY <1>1 DEF FrameIntegrity
  <2>2. 1 % 2 = 1 /\ 2 % 2 = 0 /\ 2 - 1 = 1
    OBVIOUS
  <2>3. Len(line) >= 2 => line[1].part = "header"
    BY <1>2, <2>1, <2>2
  <2>4. Len(line) >= 2 => line[2].part = "payload" /\ line[2].n = line[2 - 1].n
    BY <1>2, <2>1, <2>2
  <2> QED
    BY <2>2, <2>3, <2>4
<1> QED
  BY <1>3 DEF FirmwareResyncs, WholeFrame

LEMMA FrameInvNext == FrameInv /\ [Next]_vars => FrameInv'
<1> SUFFICES ASSUME FrameInv, [Next]_vars PROVE FrameInv'
  OBVIOUS
<1>1. TypeInv' /\ TxExclusive'
  BY TypeInvNext, TxExclusiveNext DEF FrameInv
<1>2. SUFFICES ASSUME ~overlapped' PROVE Whole'
  BY <1>1 DEF FrameInv
<1>3. /\ pc \in [Threads -> Labels]
      /\ cmd \in [Threads -> 0..MaxCommands]
      /\ Clients \subseteq Threads /\ MsgThread \in Threads
      /\ \A t \in Threads : Home(t) \notin Writing
  BY DEF FrameInv, TypeInv, TypeOK, Threads, Home, Writing
\* The steps that move one thread outside Writing.
<1>4. ASSUME NEW t \in Threads, NEW to, to \notin Writing, pc[t] \notin Writing,
             pc' = [pc EXCEPT ![t] = to], \A u \in Threads : u # t => cmd'[u] = cmd[u],
             line' = line, wOwner' = wOwner, overlapped' = overlapped
      PROVE  Whole'
  BY <1>2, <1>3, <1>4, SameLine
<1>5. /\ {"idle", "handler", "wait", "upcall", "lock", "filter", "header", "enter", "get",
          "callback", "relock", "sendHeader"} \cap Writing = {}
  BY DEF Writing
<1>6. ASSUME NEW t \in Threads, CommandStep(t) PROVE Whole'
  <2>1. CASE WriteHeader(t)
    BY <1>1, <1>2, <2>1, HeaderPreserves
  <2>2. CASE WritePayload(t)
    BY <1>2, <2>2, PayloadPreserves
  <2>3. CASE WriteFails(t)
    BY <1>2, <2>3, FailurePreserves
  <2>4. CASE AcquireTx(t) \/ SetCommandFilter(t) \/ EnterWait(t) \/ TakeAnswer(t)
               \/ CommandTimeout(t)
    <3>1. /\ line' = line /\ wOwner' = wOwner /\ overlapped' = overlapped
          /\ pc[t] \notin Writing
      BY <1>5, <2>4 DEF AcquireTx, SetCommandFilter, EnterWait, TakeAnswer, CommandTimeout
    <3>2. /\ \E to : pc' = [pc EXCEPT ![t] = to] /\ to \notin Writing
          /\ \A u \in Threads : u # t => cmd'[u] = cmd[u]
      BY <1>3, <1>5, <2>4 DEF AcquireTx, SetCommandFilter, EnterWait, TakeAnswer, CommandTimeout,
                              FinishCommand, Goto
    <3> QED
      BY <1>4, <3>1, <3>2
  <2> QED
    BY <1>6, <2>1, <2>2, <2>3, <2>4 DEF CommandStep
<1>7. ASSUME NEW t \in Threads, SendStep(t) PROVE Whole'
  BY <1>1, <1>2, <1>7, HeaderPreserves, PayloadPreserves, FailurePreserves DEF SendStep
<1>8. ASSUME NEW t \in Threads, BeginCommand(t) \/ BeginSend(t) PROVE Whole'
  <2>1. /\ line' = line /\ wOwner' = wOwner /\ overlapped' = overlapped
        /\ pc[t] = Home(t)
        /\ \E to \in {"lock", "sendHeader"} : pc' = [pc EXCEPT ![t] = to]
        /\ \A u \in Threads : u # t => cmd'[u] = cmd[u]
    BY <1>3, <1>8 DEF BeginCommand, BeginSend, Goto
  <2> QED
    BY <1>3, <1>4, <1>5, <2>1
<1>9. ASSUME NEW c \in Clients, BeginWait(c) \/ WaitStep(c) PROVE Whole'
  <2>1. /\ line' = line /\ wOwner' = wOwner /\ overlapped' = overlapped /\ cmd' = cmd
        /\ pc[c] \in {"idle", "wait"}
        /\ \E to \in {"wait", "idle"} : pc' = [pc EXCEPT ![c] = to]
    BY <1>9 DEF BeginWait, WaitStep, TakePacket, WaitTimeout, FinishWait, Goto
  <2> QED
    BY <1>3, <1>4, <1>5, <2>1
<1>10. ASSUME Process \/ HandlerReturns PROVE Whole'
  <2>1. /\ line' = line /\ wOwner' = wOwner /\ overlapped' = overlapped /\ cmd' = cmd
        /\ pc[MsgThread] \in {"idle", "handler"}
        /\ \E to \in {"handler", "idle"} : pc' = [pc EXCEPT ![MsgThread] = to]
    BY <1>10 DEF Process, HandlerReturns, Goto
  <2> QED
    BY <1>3, <1>4, <1>5, <2>1
<1>11. ASSUME NEW t \in Threads, DispatchQueued(t) \/ CallbackSends(t) \/ CallbackReturns(t)
       PROVE  Whole'
  <2>1. /\ line' = line /\ wOwner' = wOwner /\ overlapped' = overlapped /\ cmd' = cmd
        /\ pc[t] \in {"get", "wait", "callback", "upcall"}
        /\ \E to \in {"callback", "upcall", "relock", "get", "wait"} : pc' = [pc EXCEPT ![t] = to]
    BY <1>11 DEF DispatchQueued, CallbackSends, CallbackReturns, Goto, queues
  <2> QED
    BY <1>3, <1>4, <1>5, <2>1
<1>12. ASSUME FirmwareAnswers \/ FirmwareIgnores PROVE Whole'
  BY <1>2, <1>12, ReadPreserves
<1>13. ASSUME FirmwareResyncs PROVE Whole'
  BY <1>2, <1>13, NothingToSkip DEF FirmwareResyncs
<1>14. ASSUME line' = line, hostVars' = hostVars, overlapped' = overlapped PROVE Whole'
  BY <1>2, <1>14, SameLine DEF hostVars
<1> QED
  BY <1>6, <1>7, <1>8, <1>9, <1>10, <1>11, <1>12, <1>13, <1>14
     DEF Next, Receive, Store, BeginClose, EndClose, FirmwareSendsPacket, vars

\* Whatever threads send commands and messages, and whatever writes fail, the
\* transport carries whole frames until a message sent without __tx_lock
\* meets a frame half written: __lock covers one chunk only, and it is
\* __tx_lock that keeps the two chunks of a command together.
THEOREM FramesWhole == Spec => []FrameIntegrity
<1>1. FrameInv => FrameIntegrity
  BY Zenon DEF FrameInv, Whole, FrameIntegrity
<1> QED
  BY FrameInvInit, FrameInvNext, <1>1, PTL DEF Spec

\* At most one thread is in the course of a command.
THEOREM OneCommandAtATime ==
  Spec => [](\A t, u \in Threads : pc[t] \in Holding /\ pc[u] \in Holding => t = u)
<1>1. FrameInv => \A t, u \in Threads : pc[t] \in Holding /\ pc[u] \in Holding => t = u
  BY DEF FrameInv, TxExclusive
<1> QED
  BY FrameInvInit, FrameInvNext, <1>1, PTL DEF Spec

-----------------------------------------------------------------------------
(***************************************************************************)
(* Proofs about the routing of answers in DeviceMessages: as long as no    *)
(* thread waits for packets while another sends commands, the answer of a  *)
(* command never goes to the background while its caller waits for it.     *)
(***************************************************************************)

\* Once the filter of a command is set, it stays set until the command ends.
Expecting == {"enter", "get", "callback", "relock"}
Filtering == {"header", "payload"} \cup Expecting

Discipline ==
  \A t \in Threads : pc[t] \in InCommand => waiting \subseteq {t}

FilterKept == \A t \in Threads : pc[t] \in Filtering => filter = "result"

\* A command that is not over, and whose payload or answer is anywhere
\* between the host and msgQueue, has a thread that waits for its answer.
Awaited(n) == \E t \in Threads : cmd[t] = n /\ pc[t] \in Expecting

\* A message sent without waiting is no command in progress.
SentOver == \A t \in Threads : pc[t] \in InSend => outcome[cmd[t]] # "none"

Visible(n) ==
  \/ [part |-> "payload", n |-> n] \in Queued(line)
  \/ Result(n) \in Queued(wire) \cup Queued(msgQueue)
  \/ inHand.msg = Result(n)

Tracked == \A n \in Commands : outcome[n] = "none" /\ Visible(n) => Awaited(n)

AnswerInv ==
  FrameInv /\ Discipline /\ FilterKept /\ SentOver /\ Tracked /\ AnswerReachesCaller

-----------------------------------------------------------------------------
(***************************************************************************)
(* What queues hold.                                                       *)
(***************************************************************************)
LEMMA AppendQueued ==
  ASSUME NEW S, NEW s \in Seq(S), NEW e \in S
  PROVE  Queued(Append(s, e)) = Queued(s) \cup {e}
<1>1. /\ Len(s) \in Nat /\ Len(Append(s, e)) = Len(s) + 1
      /\ Append(s, e)[Len(s) + 1] = e
      /\ \A i \in 1..Len(s) : Append(s, e)[i] = s[i]
  BY AppendProperties, LenProperties
<1>2. 1..Len(Append(s, e)) = 1..Len(s) \cup {Len(s) + 1}
  BY <1>1
<1> QED
  BY <1>1, <1>2 DEF Queued

LEMMA TailQueued ==
  ASSUME NEW S, NEW s \in Seq(S), s # <<>>
  PROVE  Queued(Tail(s)) \subseteq Queued(s) /\ Head(s) \in Queued(s)
<1>1. /\ Len(s) \in Nat \ {0} /\ Len(Tail(s)) = Len(s) - 1
      /\ \A i \in 1..Len(Tail(s)) : Tail(s)[i] = s[i + 1]
      /\ Head(s) = s[1]
  BY HeadTailProperties, EmptySeq
<1>2. \A i \in 1..Len(Tail(s)) : i + 1 \in 1..Len(s)
  BY <1>1
<1> QED
  BY <1>1, <1>2 DEF Queued

LEMMA FrameQueued ==
  ASSUME TypeOK, WholeFrame
  PROVE  /\ Queued(SubSeq(line, 3, Len(line))) \subseteq Queued(line)
         /\ [part |-> "payload", n |-> line[1].n] \in Queued(line)
         /\ line[1].n \in Commands
<1>1. /\ Len(line) \in Nat /\ Len(line) >= 2
      /\ Len(SubSeq(line, 3, Len(line))) = Len(line) - 2
      /\ \A i \in 1..(Len(line) - 2) : SubSeq(line, 3, Len(line))[i] = line[i + 2]
  BY LineLength, ReadFrame
<1>2. \A i \in 1..(Len(line) - 2) : i + 2 \in 1..Len(line)
  BY <1>1
<1>3. line[1].n \in Commands
  BY FrameRead DEF TypeOK
<1>4. line[2] \in [part : {"header", "payload"}, n : Commands]
  <2> DEFINE C == [part : {"header", "payload"}, n : Commands]
  <2>1. line \in Seq(C) /\ 2 \in 1..Len(line)
    BY <1>1 DEF TypeOK
  <2> HIDE DEF C
  <2>2. line[2] \in C
    BY <2>1, ElementOfSeq
  <2> QED
    BY <2>2 DEF C
<1>5. line[2] = [part |-> "payload", n |-> line[1].n]
  BY <1>4 DEF WholeFrame
<1> QED
  BY <1>1, <1>2, <1>3, <1>5 DEF Queued

LEMMA ResultInjective == \A m, n \in Commands : Result(m) = Result(n) => m = n
  BY DEF Result

LEMMA NotNothing ==
  \A n \in Commands : Result(n) # NoMessage /\ \A k \in 1..MaxPackets : Result(n) # Packet(k)
  BY DEF Result, NoMessage, Packet

-----------------------------------------------------------------------------
(***************************************************************************)
(* What a step does to the commands in progress.                           *)
(***************************************************************************)
LEMMA CommandTypes ==
  TypeInv => /\ pc \in [Threads -> Labels] /\ waiting \subseteq Clients
             /\ cmd \in [Threads -> 0..MaxCommands]
             /\ outcome \in [Commands -> {"none", "sent", "answered", "timeout",
                                          "error", "disconnected"}]
             /\ \A t \in Threads : pc[t] \in InCommand \cup InSend => cmd[t] \in Commands
             /\ Clients \subseteq Threads /\ MsgThread \in Threads
             /\ \A t \in Threads : Home(t) \in {"idle", "handler", "upcall"}
  BY DEF TypeInv, TypeOK, CommandOf, Threads, Home

\* A command that ends gets its outcome in the same step: until then its
\* thread keeps waiting.
KeepsWaiting ==
  \A n \in Commands : outcome'[n] = "none" =>
    outcome[n] = "none" /\ (Awaited(n) => Awaited(n)')

LEMMA FinishKeeps ==
  ASSUME TypeInv, NEW t \in Threads, pc[t] \in InCommand,
         NEW how \in {"answered", "timeout", "error", "disconnected"}, FinishCommand(t, how)
  PROVE  KeepsWaiting
<1>1. /\ pc' = [pc EXCEPT ![t] = Home(t)] /\ cmd' = [cmd EXCEPT ![t] = 0]
      /\ outcome' = [outcome EXCEPT ![cmd[t]] = how]
  BY DEF FinishCommand, Goto
<1>2. SUFFICES ASSUME NEW n \in Commands, outcome'[n] = "none"
               PROVE  outcome[n] = "none" /\ (Awaited(n) => Awaited(n)')
  BY DEF KeepsWaiting
<1>3. n # cmd[t] /\ outcome[n] = "none"
  BY <1>1, <1>2, CommandTypes
<1>4. \A u \in Threads : cmd[u] = n => cmd'[u] = n /\ pc'[u] = pc[u]
  BY <1>1, <1>3, CommandTypes
<1> QED
  BY <1>3, <1>4 DEF Awaited

\* A step of a thread that is not waiting for an answer ends no command.
LEMMA OtherKeeps ==
  ASSUME TypeInv, NEW t \in Threads, outcome' = outcome,
         \A u \in Threads : u # t => pc'[u] = pc[u] /\ cmd'[u] = cmd[u],
         pc[t] \notin Expecting \/ (pc'[t] \in Expecting /\ cmd'[t] = cmd[t])
  PROVE  KeepsWaiting
  BY DEF KeepsWaiting, Awaited

LEMMA KeepsWaitingNext == TypeInv /\ [Next]_vars => KeepsWaiting
<1> SUFFICES ASSUME TypeInv, [Next]_vars PROVE KeepsWaiting
  OBVIOUS
<1>0. /\ pc \in [Threads -> Labels]
      /\ cmd \in [Threads -> 0..MaxCommands]
      /\ Clients \subseteq Threads /\ MsgThread \in Threads
      /\ \A t \in Threads : Home(t) \in {"idle", "handler", "upcall"}
  BY CommandTypes
<1>1. ASSUME NEW t \in Threads,
             BeginCommand(t) \/ AcquireTx(t) \/ SetCommandFilter(t) \/ WriteHeader(t)
               \/ WritePayload(t) \/ SendStep(t)
      PROVE  KeepsWaiting
  <2>1. /\ outcome' = outcome /\ pc[t] \notin Expecting
        /\ \A u \in Threads : u # t => pc'[u] = pc[u] /\ cmd'[u] = cmd[u]
    BY <1>0, <1>1 DEF BeginCommand, AcquireTx, SetCommandFilter, WriteHeader, WritePayload, Write,
                      SendStep, SendHeader, SendPayload, SendFails, FinishSend, Raises, InSend,
                      Goto, history, Expecting
  <2> QED
    BY <2>1, OtherKeeps
<1>2. ASSUME NEW t \in Threads, WriteFails(t) PROVE KeepsWaiting
  BY <1>2, FinishKeeps DEF WriteFails, InCommand
<1>3. ASSUME NEW t \in Threads, EnterWait(t) PROVE KeepsWaiting
  <2>1. CASE FinishCommand(t, "disconnected")
    BY <1>3, <2>1, FinishKeeps DEF EnterWait, InCommand
  <2>2. CASE Goto(t, "get") /\ UNCHANGED <<cmd, txOwner, outcome>>
    BY <1>0, <2>2, OtherKeeps DEF Goto, Expecting
  <2> QED
    BY <1>3, <2>1, <2>2 DEF EnterWait
<1>4. ASSUME NEW t \in Threads, TakeAnswer(t) PROVE KeepsWaiting
  BY <1>4, FinishKeeps DEF TakeAnswer, InCommand
<1>5. ASSUME NEW t \in Threads, CommandTimeout(t) PROVE KeepsWaiting
  BY <1>5, FinishKeeps DEF CommandTimeout, InCommand
<1>6. ASSUME NEW c \in Clients, BeginWait(c) \/ WaitStep(c) PROVE KeepsWaiting
  <2>1. /\ outcome' = outcome /\ pc[c] \notin Expecting
        /\ \A u \in Threads : u # c => pc'[u] = pc[u] /\ cmd'[u] = cmd[u]
    BY <1>0, <1>6 DEF BeginWait, WaitStep, TakePacket, WaitTimeout, FinishWait, Goto, history,
                      Expecting
  <2> QED
    BY <1>0, <2>1, OtherKeeps
<1>7. ASSUME Process \/ HandlerReturns PROVE KeepsWaiting
  <2>1. /\ outcome' = outcome /\ pc[MsgThread] \notin Expecting
        /\ \A u \in Threads : u # MsgThread => pc'[u] = pc[u] /\ cmd'[u] = cmd[u]
    BY <1>0, <1>7 DEF Process, HandlerReturns, Goto, history, Expecting
  <2> QED
    BY <1>0, <2>1, OtherKeeps
<1>8. ASSUME NEW t \in Threads, DispatchQueued(t) \/ CallbackSends(t) \/ CallbackReturns(t)
      PROVE  KeepsWaiting
  <2>1. /\ outcome' = outcome /\ cmd' = cmd
        /\ pc[t] \notin Expecting \/ pc'[t] \in Expecting
        /\ \A u \in Threads : u # t => pc'[u] = pc[u]
    BY <1>0, <1>8 DEF DispatchQueued, CallbackSends, CallbackReturns, Goto, history, Expecting
  <2> QED
    BY <1>0, <2>1, OtherKeeps
<1>9. ASSUME NEW t \in Threads, BeginSend(t) PROVE KeepsWaiting
  <2>1. /\ outcome' = [outcome EXCEPT ![nextCmd] = "sent"] /\ pc[t] = Home(t)
        /\ pc' = [pc EXCEPT ![t] = "sendHeader"] /\ cmd' = [cmd EXCEPT ![t] = nextCmd]
    BY <1>9 DEF BeginSend, Goto
  <2>2. SUFFICES ASSUME NEW n \in Commands, outcome'[n] = "none"
                 PROVE  outcome[n] = "none" /\ (Awaited(n) => Awaited(n)')
    BY DEF KeepsWaiting
  <2>3. outcome[n] = "none"
    BY <2>1, <2>2, CommandTypes
  <2>4. \A u \in Threads : pc[u] \in Expecting => u # t
    BY <1>0, <2>1 DEF Expecting
  <2>5. \A u \in Threads : u # t => pc'[u] = pc[u] /\ cmd'[u] = cmd[u]
    BY <1>0, <2>1
  <2> QED
    BY <2>3, <2>4, <2>5 DEF Awaited
<1>10. ASSUME pc' = pc, cmd' = cmd, outcome' = outcome PROVE KeepsWaiting
  BY <1>10 DEF KeepsWaiting, Awaited
<1> QED
  BY <1>1, <1>2, <1>3, <1>4, <1>5, <1>6, <1>7, <1>8, <1>9, <1>10
     DEF Next, CommandStep, Receive, Store, BeginClose, EndClose, FirmwareAnswers,
         FirmwareIgnores, FirmwareResyncs, FirmwareSendsPacket, vars, hostVars, history

LEMMA SentOverNext == TypeInv /\ SentOver /\ [Next]_vars => SentOver'
<1> SUFFICES ASSUME TypeInv, SentOver, [Next]_vars, NEW t \in Threads, pc'[t] \in InSend
             PROVE  outcome'[cmd'[t]] # "none"
  BY DEF SentOver
<1>0. /\ pc \in [Threads -> Labels] /\ cmd \in [Threads -> 0..MaxCommands]
      /\ Clients \subseteq Threads /\ MsgThread \in Threads
      /\ \A u \in Threads : Home(u) \notin InSend
  BY CommandTypes DEF InSend
<1>1. CASE BeginSend(t)
  <2>1. nextCmd \in Commands /\ outcome \in [Commands -> {"none", "sent", "answered", "timeout",
                                                         "error", "disconnected"}]
    BY <1>1, CommandTypes, Bounds DEF BeginSend, Commands, TypeInv, TypeOK
  <2> QED
    BY <1>0, <1>1, <2>1 DEF BeginSend
<1> DEFINE Stays == pc[t] \in InSend /\ cmd'[t] = cmd[t]
<1>2. CASE Stays
  <2>1. outcome[cmd[t]] # "none" /\ cmd[t] \in Commands
    BY <1>2, CommandTypes DEF SentOver
  <2> QED
    BY <1>2, <2>1, KeepsWaitingNext DEF KeepsWaiting
<1>3. BeginSend(t) \/ Stays
  <2>1. ASSUME NEW u \in Threads, BeginCommand(u) \/ CommandStep(u) PROVE Stays
    <3>1. /\ \E to \in InCommand \cup {Home(u)} : pc' = [pc EXCEPT ![u] = to]
          /\ \A v \in Threads : v # u => cmd'[v] = cmd[v]
      BY <1>0, <2>1 DEF BeginCommand, CommandStep, AcquireTx, SetCommandFilter, WriteHeader,
           WritePayload, Write, WriteFails, EnterWait, TakeAnswer, CommandTimeout, FinishCommand,
           Goto, InCommand
    <3>2. InCommand \cap InSend = {}
      BY DEF InCommand, InSend
    <3> QED
      BY <1>0, <3>1, <3>2
  <2>2. ASSUME NEW u \in Threads, BeginSend(u) PROVE BeginSend(t) \/ Stays
    BY <1>0, <2>2 DEF BeginSend, Goto
  <2>3. ASSUME NEW u \in Threads, SendStep(u) PROVE Stays
    <3>1. CASE SendHeader(u)
      BY <1>0, <3>1 DEF SendHeader, Goto, InSend
    <3>2. CASE SendPayload(u) \/ SendFails(u)
      BY <1>0, <3>2 DEF SendPayload, SendFails, FinishSend, Goto
    <3> QED
      BY <2>3, <3>1, <3>2 DEF SendStep
  <2>4. ASSUME NEW u \in Threads, DispatchQueued(u) \/ CallbackSends(u) \/ CallbackReturns(u)
        PROVE  Stays
    BY <1>0, <2>4 DEF DispatchQueued, CallbackSends, CallbackReturns, Goto, InSend
  <2>5. ASSUME NEW c \in Clients, BeginWait(c) \/ WaitStep(c) PROVE Stays
    BY <1>0, <2>5 DEF BeginWait, WaitStep, TakePacket, WaitTimeout, FinishWait, Goto, InSend
  <2>6. ASSUME Process \/ HandlerReturns PROVE Stays
    BY <1>0, <2>6 DEF Process, HandlerReturns, Goto, InSend
  <2>7. ASSUME pc' = pc, cmd' = cmd PROVE Stays
    BY <2>7
  <2> QED
    BY <2>1, <2>2, <2>3, <2>4, <2>5, <2>6, <2>7
       DEF Next, Receive, Store, BeginClose, EndClose, FirmwareAnswers, FirmwareIgnores,
           FirmwareResyncs, FirmwareSendsPacket, vars, hostVars
<1> QED
  BY <1>1, <1>2, <1>3

-----------------------------------------------------------------------------
(***************************************************************************)
(* What a step makes visible: only the thread that writes a payload brings *)
(* a command to the transport.                                             *)
(***************************************************************************)
LEMMA QueueTypes ==
  TypeInv => /\ line \in Seq([part : {"header", "payload"}, n : Commands])
             /\ wire \in Seq(Message) /\ msgQueue \in Seq(Message)
             /\ messages \in Seq(Message)
             /\ \A n \in Commands : Result(n) \in Message
  BY MessageTypes DEF TypeInv, TypeOK

\* Visible depends on four variables only.
LEMMA VisibleShrinks ==
  ASSUME Queued(line)' \subseteq Queued(line),
         Queued(wire)' \cup Queued(msgQueue)' \subseteq
           Queued(wire) \cup Queued(msgQueue) \cup {inHand.msg},
         inHand'.msg \in {inHand.msg, NoMessage} \cup Queued(wire)
  PROVE  \A n \in Commands : Visible(n)' => Visible(n)
  BY NotNothing DEF Visible

LEMMA VisibleNext ==
  TypeInv /\ [Next]_vars =>
    \A n \in Commands : Visible(n)' =>
      Visible(n) \/ \E t \in Threads : cmd[t] = n /\ (WritePayload(t) \/ SendPayload(t))
<1> SUFFICES ASSUME TypeInv, [Next]_vars
             PROVE  \A n \in Commands : Visible(n)' =>
                      \/ Visible(n)
                      \/ \E t \in Threads : cmd[t] = n /\ (WritePayload(t) \/ SendPayload(t))
  OBVIOUS
<1> DEFINE Shrinks == \A n \in Commands : Visible(n)' => Visible(n)
<1>1. ASSUME line' = line, wire' = wire, msgQueue' = msgQueue, inHand' = inHand PROVE Shrinks
  BY <1>1, VisibleShrinks
<1>2. ASSUME NEW t \in Threads, WriteHeader(t) \/ SendHeader(t) PROVE Shrinks
  <2>1. /\ line' = Append(line, [part |-> "header", n |-> cmd[t]]) /\ cmd[t] \in Commands
        /\ wire' = wire /\ msgQueue' = msgQueue /\ inHand' = inHand
    BY <1>2, CommandTypes DEF WriteHeader, SendHeader, Write, InCommand, InSend, queues
  <2>2. Queued(line') = Queued(line) \cup {[part |-> "header", n |-> cmd[t]]}
    <3> DEFINE C == [part : {"header", "payload"}, n : Commands]
    <3>1. line \in Seq(C) /\ [part |-> "header", n |-> cmd[t]] \in C
      BY <2>1, QueueTypes
    <3> HIDE DEF C
    <3> QED
      BY <2>1, <3>1, AppendQueued
  <2>3. \A n \in Commands : [part |-> "payload", n |-> n] # [part |-> "header", n |-> cmd[t]]
    OBVIOUS
  <2> QED
    BY <2>1, <2>2, <2>3 DEF Visible, Queued
<1>3. ASSUME NEW t \in Threads, WritePayload(t) \/ SendPayload(t), NEW n \in Commands, Visible(n)'
      PROVE  Visible(n) \/ cmd[t] = n
  <2>1. /\ line' = Append(line, [part |-> "payload", n |-> cmd[t]]) /\ cmd[t] \in Commands
        /\ wire' = wire /\ msgQueue' = msgQueue /\ inHand' = inHand
    BY <1>3, CommandTypes DEF WritePayload, SendPayload, Write, InCommand, InSend, queues
  <2>2. Queued(line') = Queued(line) \cup {[part |-> "payload", n |-> cmd[t]]}
    <3> DEFINE C == [part : {"header", "payload"}, n : Commands]
    <3>1. line \in Seq(C) /\ [part |-> "payload", n |-> cmd[t]] \in C
      BY <2>1, QueueTypes
    <3> HIDE DEF C
    <3> QED
      BY <2>1, <3>1, AppendQueued
  <2>3. [part |-> "payload", n |-> n] = [part |-> "payload", n |-> cmd[t]] => n = cmd[t]
    OBVIOUS
  <2> QED
    BY <1>3, <2>1, <2>2, <2>3 DEF Visible, Queued
<1>4. ASSUME NEW t \in Threads, TakeAnswer(t) \/ TakePacket(t) \/ DispatchQueued(t) PROVE Shrinks
  <2>1. /\ msgQueue' = Tail(msgQueue) /\ msgQueue # <<>>
        /\ line' = line /\ wire' = wire /\ inHand' = inHand
    BY <1>4 DEF TakeAnswer, TakePacket, DispatchQueued
  <2>2. Queued(msgQueue') \subseteq Queued(msgQueue)
    BY <2>1, QueueTypes, TailQueued
  <2> QED
    BY <2>1, <2>2, VisibleShrinks DEF Queued
<1>5. ASSUME Receive PROVE Shrinks
  <2>1. /\ wire # <<>> /\ wire' = Tail(wire) /\ line' = line /\ msgQueue' = msgQueue
        /\ inHand' = IF closing THEN Nothing
                     ELSE [msg |-> Head(wire), keep |-> Matches(Head(wire))]
    BY <1>5 DEF Receive
  <2>2. Queued(wire') \subseteq Queued(wire) /\ Head(wire) \in Queued(wire)
    BY <2>1, QueueTypes, TailQueued
  <2>3. inHand'.msg \in {NoMessage} \cup Queued(wire)
    BY <2>1, <2>2 DEF Nothing
  <2> QED
    BY <2>1, <2>2, <2>3, VisibleShrinks DEF Queued
<1>6. ASSUME Store PROVE Shrinks
  <2>1. line' = line /\ wire' = wire /\ inHand'.msg = NoMessage /\ inHand.msg \in Message
    BY <1>6 DEF Store, Nothing, TypeInv, HandOf
  <2>2. msgQueue' = msgQueue \/ msgQueue' = Append(msgQueue, inHand.msg)
    BY <1>6, Zenon DEF Store
  <2>3. Queued(msgQueue') \subseteq Queued(msgQueue) \cup {inHand.msg}
    <3>1. Queued(Append(msgQueue, inHand.msg)) = Queued(msgQueue) \cup {inHand.msg}
      BY <2>1, QueueTypes, AppendQueued
    <3> QED
      BY <2>2, <3>1
  <2> QED
    BY <2>1, <2>3, VisibleShrinks DEF Queued
<1>7. ASSUME FirmwareAnswers \/ FirmwareIgnores PROVE Shrinks
  <2>1. /\ WholeFrame /\ line' = SubSeq(line, 3, Len(line))
        /\ msgQueue' = msgQueue /\ inHand' = inHand
        /\ wire' = wire \/ wire' = Append(wire, Result(line[1].n))
    BY <1>7 DEF FirmwareAnswers, FirmwareIgnores, queues
  <2>2. /\ Queued(line') \subseteq Queued(line)
        /\ [part |-> "payload", n |-> line[1].n] \in Queued(line)
        /\ line[1].n \in Commands
    BY <2>1, FrameQueued DEF TypeInv
  <2>3. Queued(wire') \subseteq Queued(wire) \cup {Result(line[1].n)}
    <3>1. wire \in Seq(Message) /\ Result(line[1].n) \in Message
      BY <2>2, QueueTypes
    <3>2. Queued(Append(wire, Result(line[1].n))) = Queued(wire) \cup {Result(line[1].n)}
      BY <3>1, AppendQueued
    <3> QED
      BY <2>1, <3>2
  <2>4. \A n \in Commands : Result(n) \in Queued(wire') => Visible(n)
    BY <2>2, <2>3, ResultInjective DEF Visible
  <2>5. \A n \in Commands : [part |-> "payload", n |-> n] \in Queued(line') => Visible(n)
    BY <2>2 DEF Visible
  <2>6. \A n \in Commands : Visible(n)' =>
          \/ [part |-> "payload", n |-> n] \in Queued(line')
          \/ Result(n) \in Queued(wire')
          \/ Result(n) \in Queued(msgQueue) \/ inHand.msg = Result(n)
    BY <2>1 DEF Visible, Queued
  <2> QED
    BY <2>4, <2>5, <2>6 DEF Visible
<1>8. ASSUME FirmwareSendsPacket PROVE Shrinks
  <2>1. /\ line' = line /\ msgQueue' = msgQueue /\ inHand' = inHand
        /\ wire' = Append(wire, Packet(nextPkt)) /\ nextPkt \in 1..MaxPackets
    BY <1>8, Bounds DEF FirmwareSendsPacket, queues, TypeInv, TypeOK
  <2>2. Queued(wire') = Queued(wire) \cup {Packet(nextPkt)}
    BY <2>1, QueueTypes, MessageTypes, AppendQueued
  <2> QED
    BY <2>1, <2>2, NotNothing DEF Visible, Queued
<1>9. ASSUME FirmwareResyncs PROVE Shrinks
  <2>1. /\ line' = Tail(line) /\ wire' = wire /\ msgQueue' = msgQueue /\ inHand' = inHand
        /\ Len(line) >= 2
    BY <1>9 DEF FirmwareResyncs, queues
  <2>2. Queued(line') \subseteq Queued(line)
    <3> DEFINE C == [part : {"header", "payload"}, n : Commands]
    <3>1. line \in Seq(C) /\ line # <<>>
      BY <2>1, QueueTypes, EmptySeq
    <3> HIDE DEF C
    <3> QED
      BY <2>1, <3>1, TailQueued
  <2> QED
    BY <2>1, <2>2, VisibleShrinks DEF Queued
<1> HIDE DEF Shrinks
<1>10. ASSUME NEW t \in Threads, BeginCommand(t) \/ CommandStep(t) \/ BeginSend(t) \/ SendStep(t)
       PROVE  Shrinks \/ WritePayload(t) \/ SendPayload(t)
  BY <1>1, <1>2, <1>4, <1>10
     DEF CommandStep, SendStep, BeginCommand, AcquireTx, SetCommandFilter, WriteFails, EnterWait,
         CommandTimeout, BeginSend, SendFails, Raises, queues
<1>11. Shrinks \/ \E t \in Threads : WritePayload(t) \/ SendPayload(t)
  BY <1>1, <1>4, <1>5, <1>6, <1>7, <1>8, <1>9, <1>10
     DEF Next, WaitStep, CallbackSends, CallbackReturns, BeginWait, WaitTimeout, Process,
         HandlerReturns, BeginClose, EndClose, vars, queues, Threads
<1> QED
  BY <1>3, <1>11 DEF Shrinks

-----------------------------------------------------------------------------
(***************************************************************************)
(* The filter.                                                             *)
(***************************************************************************)
LEMMA FilterNext ==
  ASSUME ~SharedWait, TypeInv, TxExclusive, Discipline, FilterKept, [Next]_vars
  PROVE  Discipline' /\ FilterKept'
<1>0. /\ pc \in [Threads -> Labels] /\ waiting \subseteq Clients
      /\ Clients \subseteq Threads /\ MsgThread \in Threads
      /\ \A t \in Threads : Home(t) \in {"idle", "handler", "upcall"}
  BY CommandTypes
<1> USE <1>0 DEF Discipline, FilterKept, InCommand, Filtering, Expecting
<1>1. ASSUME NEW t \in Threads, BeginCommand(t) PROVE Discipline' /\ FilterKept'
  BY <1>1 DEF BeginCommand, Goto
<1>2. ASSUME NEW t \in Threads, AcquireTx(t) PROVE Discipline' /\ FilterKept'
  BY <1>2 DEF AcquireTx, Goto
<1>3. ASSUME NEW t \in Threads, SetCommandFilter(t) PROVE Discipline' /\ FilterKept'
  BY <1>3 DEF SetCommandFilter, Goto
<1>4. ASSUME NEW t \in Threads, WriteHeader(t) \/ WritePayload(t)
      PROVE  Discipline' /\ FilterKept'
  BY <1>4 DEF WriteHeader, WritePayload, Write, Goto
\* A step that neither starts a command nor touches the filter.
<1>5. ASSUME NEW t \in Threads, NEW to, pc' = [pc EXCEPT ![t] = to],
             to \in InCommand => pc[t] \in InCommand,
             to \in Filtering => pc[t] \in Filtering,
             filter' = filter, waiting' \subseteq waiting
      PROVE  Discipline' /\ FilterKept'
  <2> HIDE DEF InCommand, Filtering
  <2>1. \A u \in Threads : /\ pc'[u] \in InCommand => pc[u] \in InCommand
                           /\ pc'[u] \in Filtering => pc[u] \in Filtering
    BY <1>5
  <2> QED
    BY <1>5, <2>1
<1>6. ASSUME NEW t \in Threads, WriteFails(t) \/ TakeAnswer(t) \/ CommandTimeout(t)
      PROVE  Discipline' /\ FilterKept'
  <2>1. pc' = [pc EXCEPT ![t] = Home(t)] /\ filter' = filter /\ waiting' = waiting
    BY <1>6 DEF WriteFails, Raises, TakeAnswer, CommandTimeout, FinishCommand, Goto
  <2> QED
    BY <1>5, <2>1
<1>7. ASSUME NEW t \in Threads, EnterWait(t) PROVE Discipline' /\ FilterKept'
  <2>1. pc[t] = "enter" /\ filter' = filter /\ waiting' = waiting
    BY <1>7 DEF EnterWait
  <2>2. pc' = [pc EXCEPT ![t] = Home(t)] \/ pc' = [pc EXCEPT ![t] = "get"]
    BY <1>7 DEF EnterWait, FinishCommand, Goto
  <2> QED
    BY <1>5, <2>1, <2>2
<1>8. ASSUME NEW c \in Clients, BeginWait(c) PROVE Discipline' /\ FilterKept'
  <2>1. /\ \A u \in Threads : pc[u] \notin InCommand
        /\ pc' = [pc EXCEPT ![c] = "wait"]
    BY <1>8 DEF BeginWait, Goto
  <2> QED
    BY <2>1
<1>9. ASSUME NEW c \in Clients, WaitStep(c) PROVE Discipline' /\ FilterKept'
  <2>1. pc' = [pc EXCEPT ![c] = "idle"] /\ filter' = filter /\ waiting' \subseteq waiting
    BY <1>9 DEF WaitStep, TakePacket, WaitTimeout, FinishWait, Goto
  <2> QED
    BY <1>5, <2>1
<1>10. ASSUME Process \/ HandlerReturns PROVE Discipline' /\ FilterKept'
  <2>1. /\ filter' = filter /\ waiting' = waiting
        /\ \E to \in {"idle", "handler"} : pc' = [pc EXCEPT ![MsgThread] = to]
    BY <1>10 DEF Process, HandlerReturns, Goto
  <2> QED
    BY <1>5, <2>1
<1>11. ASSUME NEW t \in Threads, BeginSend(t) \/ SendStep(t) PROVE Discipline' /\ FilterKept'
  <2>1. /\ filter' = filter /\ waiting' = waiting
        /\ \E to \in {"sendHeader", "sendPayload", Home(t)} : pc' = [pc EXCEPT ![t] = to]
    BY <1>11 DEF BeginSend, SendStep, SendHeader, SendPayload, SendFails, Write, Raises, FinishSend,
                 Goto
  <2> QED
    BY <1>5, <2>1
<1>12. ASSUME NEW t \in Threads, DispatchQueued(t) \/ CallbackSends(t) \/ CallbackReturns(t)
       PROVE  Discipline' /\ FilterKept'
  <2>1. /\ filter' = filter /\ waiting' = waiting
        /\ \E to : /\ pc' = [pc EXCEPT ![t] = to]
                   /\ \/ pc[t] \in Expecting /\ to \in Expecting
                      \/ to \in {"wait", "upcall"}
    BY <1>12 DEF DispatchQueued, CallbackSends, CallbackReturns, Goto
  <2> QED
    BY <1>5, <2>1
<1>13. ASSUME pc' = pc, filter' = filter, waiting' = waiting PROVE Discipline' /\ FilterKept'
  BY <1>13
<1> QED
  BY <1>1, <1>2, <1>3, <1>4, <1>6, <1>7, <1>8, <1>9, <1>10, <1>11, <1>12, <1>13
     DEF Next, CommandStep, Receive, Store, BeginClose, EndClose,
         FirmwareAnswers, FirmwareIgnores, FirmwareResyncs, FirmwareSendsPacket, vars, hostVars

-----------------------------------------------------------------------------
(***************************************************************************)
(* The invariant.                                                          *)
(***************************************************************************)
LEMMA AnswerInvInit == Init => AnswerInv
<1> SUFFICES ASSUME Init PROVE AnswerInv
  OBVIOUS
<1>1. FrameInv
  BY FrameInvInit
<1>2. /\ \A t \in Threads : pc[t] = "idle"
      /\ inHand = Nothing /\ handled = {}
      /\ Len(line) = 0 /\ Len(wire) = 0 /\ Len(msgQueue) = 0 /\ Len(messages) = 0
  BY DEF Init
<1>3. Queued(line) = {} /\ Queued(wire) = {} /\ Queued(msgQueue) = {}
  BY <1>2 DEF Queued
<1>4. Discipline /\ FilterKept /\ SentOver
  BY <1>2 DEF Discipline, FilterKept, SentOver, InCommand, InSend, Filtering, Expecting
<1>5. Tracked
  BY <1>2, <1>3, NotNothing DEF Tracked, Visible, Nothing
<1>6. AnswerReachesCaller
  BY <1>2, NotNothing DEF AnswerReachesCaller, Nothing
<1> QED
  BY <1>1, <1>4, <1>5, <1>6 DEF AnswerInv

LEMMA TrackedNext == TypeInv /\ SentOver /\ Tracked /\ [Next]_vars => Tracked'
<1> SUFFICES ASSUME TypeInv, SentOver, Tracked, [Next]_vars, NEW n \in Commands,
                    outcome'[n] = "none", Visible(n)'
             PROVE  Awaited(n)'
  BY DEF Tracked
<1>1. outcome[n] = "none" /\ (Awaited(n) => Awaited(n)')
  BY KeepsWaitingNext DEF KeepsWaiting
<1>2. CASE Visible(n)
  BY <1>1, <1>2 DEF Tracked
<1>3. ASSUME NEW t \in Threads, cmd[t] = n, WritePayload(t) PROVE Awaited(n)'
  <2>1. pc'[t] = "enter" /\ cmd'[t] = n
    BY <1>3, CommandTypes DEF WritePayload, Write, Goto
  <2> QED
    BY <2>1 DEF Awaited, Expecting
<1>4. ASSUME NEW t \in Threads, cmd[t] = n PROVE ~SendPayload(t)
  BY <1>1, <1>4 DEF SentOver, SendPayload, InSend
<1> QED
  BY <1>2, <1>3, <1>4, VisibleNext

\* While a thread waits for an answer, the filter is that of its command.
LEMMA WaitingFilters ==
  ASSUME FilterKept, Tracked, NEW n \in Commands, outcome[n] = "none", Visible(n)
  PROVE  Matches(Result(n))
  BY DEF FilterKept, Tracked, Awaited, Filtering, Expecting, Matches, Result

LEMMA AnswerNext ==
  ASSUME AnswerInv, [Next]_vars
  PROVE  AnswerReachesCaller'
<1> SUFFICES ASSUME NEW n \in Commands, outcome'[n] = "none"
             PROVE  /\ Result(n) \notin handled'
                    /\ Result(n) \notin Queued(messages')
                    /\ inHand'.msg = Result(n) => inHand'.keep
  BY DEF AnswerReachesCaller, Queued
<1>0. TypeInv /\ FilterKept /\ Tracked
  BY DEF AnswerInv, FrameInv
<1>1. outcome[n] = "none"
  BY <1>0, KeepsWaitingNext DEF KeepsWaiting
<1>2. /\ Result(n) \notin handled
      /\ Result(n) \notin Queued(messages)
      /\ inHand.msg = Result(n) => inHand.keep
  BY <1>1 DEF AnswerInv, AnswerReachesCaller, Queued
<1>3. ASSUME NEW t \in Threads, DispatchQueued(t)
      PROVE  Result(n) \notin handled' /\ messages' = messages /\ inHand' = inHand
  <2>1. /\ msgQueue # <<>> /\ ~Matches(Head(msgQueue))
        /\ handled' = handled \cup {Head(msgQueue)} /\ messages' = messages /\ inHand' = inHand
    BY <1>3 DEF DispatchQueued
  <2>2. Head(msgQueue) \in Queued(msgQueue)
    BY <1>0, <2>1, QueueTypes, TailQueued
  <2>3. Head(msgQueue) # Result(n)
    BY <1>0, <1>1, <2>1, <2>2, WaitingFilters DEF Visible
  <2> QED
    BY <1>2, <2>1, <2>3
<1>4. ASSUME Receive
      PROVE  handled' = handled /\ messages' = messages /\ (inHand'.msg = Result(n) => inHand'.keep)
  <2>1. /\ wire # <<>> /\ handled' = handled /\ messages' = messages
        /\ inHand' = IF closing THEN Nothing
                     ELSE [msg |-> Head(wire), keep |-> Matches(Head(wire))]
    BY <1>4 DEF Receive, history
  <2>2. Head(wire) \in Queued(wire)
    BY <1>0, <2>1, QueueTypes, TailQueued
  <2>3. Head(wire) = Result(n) => Matches(Head(wire))
    BY <1>0, <1>1, <2>2, WaitingFilters DEF Visible
  <2>4. CASE closing
    BY <2>1, <2>4, NotNothing DEF Nothing
  <2>5. CASE ~closing
    <3>1. inHand' = [msg |-> Head(wire), keep |-> Matches(Head(wire))]
      BY <2>1, <2>5
    <3>2. inHand'.msg = Head(wire) /\ (Matches(Head(wire)) => inHand'.keep)
      BY <3>1, Zenon
    <3> QED
      BY <2>1, <2>3, <3>2
  <2> QED
    BY <2>4, <2>5
<1>5. ASSUME Store
      PROVE  handled' = handled /\ inHand' = Nothing /\ Result(n) \notin Queued(messages')
  <2>1. handled' = handled /\ inHand' = Nothing /\ inHand.msg \in Message
    BY <1>0, <1>5 DEF Store, history, TypeInv, HandOf
  <2>2. CASE inHand.keep
    BY <1>2, <1>5, <2>1, <2>2, Zenon DEF Store
  <2>3. CASE ~inHand.keep
    <3>1. messages' = Append(messages, inHand.msg)
      BY <1>5, <2>3, Zenon DEF Store
    <3>2. Queued(Append(messages, inHand.msg)) = Queued(messages) \cup {inHand.msg}
      BY <1>0, <2>1, QueueTypes, AppendQueued
    <3> QED
      BY <1>2, <2>1, <2>3, <3>1, <3>2
  <2> QED
    BY <2>2, <2>3
<1>6. ASSUME Process
      PROVE  /\ Result(n) \notin handled' /\ inHand' = inHand
             /\ Queued(messages') \subseteq Queued(messages)
  <2>1. /\ messages # <<>> /\ messages' = Tail(messages) /\ inHand' = inHand
        /\ handled' = handled \cup {Head(messages)}
    BY <1>6 DEF Process
  <2>2. Queued(messages') \subseteq Queued(messages) /\ Head(messages) \in Queued(messages)
    BY <1>0, <2>1, QueueTypes, TailQueued
  <2> QED
    BY <1>2, <2>1, <2>2
<1>7. CASE handled' = handled /\ messages' = messages /\ inHand' = inHand
  BY <1>2, <1>7
<1>8. CASE \/ \E t \in Threads : DispatchQueued(t)
           \/ Receive \/ Process
  <2>1. CASE \E t \in Threads : DispatchQueued(t)
    BY <1>2, <1>3, <2>1
  <2>2. CASE Receive
    BY <1>2, <1>4, <2>2
  <2>3. CASE Process
    BY <1>2, <1>6, <2>3
  <2> QED
    BY <1>8, <2>1, <2>2, <2>3
<1>9. CASE Store
  BY <1>2, <1>5, <1>9, NotNothing DEF Nothing
<1>10. ASSUME NEW t \in Threads, BeginCommand(t) \/ CommandStep(t) \/ BeginSend(t) \/ SendStep(t)
       PROVE  handled' = handled /\ messages' = messages /\ inHand' = inHand
  BY <1>10
     DEF CommandStep, BeginCommand, AcquireTx, SetCommandFilter, WriteHeader, WritePayload, Write,
         WriteFails, Raises, EnterWait, TakeAnswer, CommandTimeout, BeginSend, SendStep, SendHeader,
         SendPayload, SendFails, queues, history
<1> QED
  BY <1>7, <1>8, <1>9, <1>10
     DEF Next, WaitStep, CallbackSends, CallbackReturns, BeginWait, TakePacket, WaitTimeout,
         HandlerReturns, BeginClose, EndClose, FirmwareAnswers, FirmwareIgnores, FirmwareResyncs,
         FirmwareSendsPacket, vars, queues, history, Threads

LEMMA AnswerInvNext ==
  ASSUME ~SharedWait
  PROVE  AnswerInv /\ [Next]_vars => AnswerInv'
<1> SUFFICES ASSUME AnswerInv, [Next]_vars PROVE AnswerInv'
  OBVIOUS
<1>1. FrameInv' /\ SentOver' /\ Tracked'
  BY FrameInvNext, SentOverNext, TrackedNext DEF AnswerInv, FrameInv
<1>2. Discipline' /\ FilterKept'
  BY FilterNext DEF AnswerInv, FrameInv
<1>3. AnswerReachesCaller'
  BY AnswerNext
<1> QED
  BY <1>1, <1>2, <1>3 DEF AnswerInv

\* As long as no thread waits for packets while another sends commands, the
\* answer of a command is never handed to the connector while its caller is
\* waiting for it, whatever threads and failures there are.
THEOREM AnswersRouted ==
  ASSUME ~SharedWait
  PROVE  Spec => []AnswerReachesCaller
<1>1. AnswerInv => AnswerReachesCaller
  BY DEF AnswerInv
<1>2. AnswerInv /\ [Next]_vars => AnswerInv'
  BY AnswerInvNext
<1> QED
  BY AnswerInvInit, <1>1, <1>2, PTL DEF Spec

-----------------------------------------------------------------------------
(* DeviceMessages implements Custody, for any number of threads, commands, *)
(* packets and failures: a message the device accepts is in one place, and *)
(* is handed over once; so no answer is given to two commands.  The        *)
(* argument starts where answers come from: a command has one number, is   *)
(* written once, and is answered at most once.                             *)

\* Numbers.  A message has not been answered as long as its number is not
\* used, or its thread has not written it, or its payload is on the line.
Working   == InCommand \cup InSend
Unwritten == {"lock", "filter", "header", "payload"} \cup InSend
Payloads  == {i \in 1..Len(line) : line[i].part = "payload"}
OnLine    == {line[i].n : i \in Payloads}

NumberedOnce ==
  /\ \A t \in Threads : cmd[t] < nextCmd
  /\ \A t, u \in Threads : t # u /\ cmd[t] = cmd[u] => cmd[t] = 0
  /\ \A t \in Threads : pc[t] \notin Working => cmd[t] = 0

WrittenOnce ==
  /\ \A n \in OnLine : n < nextCmd
  /\ \A t \in Threads : pc[t] \in Unwritten => cmd[t] \notin OnLine
  /\ \A i, j \in Payloads : i # j => line[i].n # line[j].n

Numbering == NumberedOnce /\ WrittenOnce

Unanswered(n) ==
  \/ n >= nextCmd
  \/ \E t \in Threads : cmd[t] = n /\ pc[t] \in Unwritten
  \/ n \in OnLine

-----------------------------------------------------------------------------
(* Messages and frames                                                     *)

\* A thread between two steps: nothing is numbered or written.
LEMMA StepOfThread ==
  ASSUME FrameInv, Numbering, NEW t \in Threads,
         line' = line, nextCmd' = nextCmd,
         \A u \in Threads : u # t => pc'[u] = pc[u] /\ cmd'[u] = cmd[u],
         \/ cmd'[t] = 0 /\ pc'[t] \notin Working
         \/ /\ cmd'[t] = cmd[t] /\ pc'[t] \in Working
            /\ pc'[t] \in Unwritten => pc[t] \in Unwritten
  PROVE  Numbering' /\ \A n \in Commands : Unanswered(n)' => Unanswered(n)
<1>1. cmd \in [Threads -> 0..MaxCommands] /\ nextCmd \in Nat \ {0} /\ MaxCommands \in Nat
  BY Bounds DEF FrameInv, TypeInv, TypeOK
<1>2. OnLine' = OnLine /\ Payloads' = Payloads /\ Unwritten \subseteq Working
  BY DEF OnLine, Payloads, Unwritten, Working, InCommand
<1>3. NumberedOnce'
  BY <1>1 DEF Numbering, NumberedOnce
<1>4. WrittenOnce'
  BY <1>2 DEF Numbering, WrittenOnce
<1>5. ASSUME NEW n \in Commands, Unanswered(n)' PROVE Unanswered(n)
  BY <1>1, <1>2, <1>5 DEF Unanswered
<1> QED
  BY <1>3, <1>4, <1>5 DEF Numbering

LEMMA OnLineTypes ==
  ASSUME TypeOK
  PROVE  OnLine \subseteq Commands /\ OnLine \subseteq Nat
<1> DEFINE C == [part : {"header", "payload"}, n : Commands]
<1>1. line \in Seq(C)
  BY DEF TypeOK
<1>2. \A i \in 1..Len(line) : line[i] \in C
  <2> HIDE DEF C
  <2> QED BY <1>1, LenProperties, ElementOfSeq
<1>3. \A i \in 1..Len(line) : line[i].n \in Commands
  BY <1>2
<1> QED
  BY <1>3, Bounds DEF OnLine, Payloads

LEMMA StepOfBegin ==
  ASSUME FrameInv, Numbering, NEW t \in Threads, BeginCommand(t) \/ BeginSend(t)
  PROVE  Numbering' /\ \A n \in Commands : Unanswered(n)' => Unanswered(n)
<1>1. /\ cmd \in [Threads -> 0..MaxCommands] /\ nextCmd \in Nat \ {0} /\ MaxCommands \in Nat
      /\ pc \in [Threads -> Labels] /\ TypeOK
      /\ pc[t] \notin Working
  BY Bounds
     DEF FrameInv, TypeInv, TypeOK, BeginCommand, BeginSend, Home, Working, InCommand, InSend
<1>2. /\ cmd' = [cmd EXCEPT ![t] = nextCmd] /\ nextCmd' = nextCmd + 1 /\ line' = line
      /\ \E to \in {"lock", "sendHeader"} : pc' = [pc EXCEPT ![t] = to]
  BY DEF BeginCommand, BeginSend, Goto
<1>3. /\ OnLine' = OnLine /\ Payloads' = Payloads /\ Unwritten \subseteq Working
      /\ {"lock", "sendHeader"} \subseteq Unwritten
  BY <1>2 DEF OnLine, Payloads, Unwritten, Working, InCommand, InSend
<1>4. \A n \in OnLine : n \in Nat
  BY <1>1, OnLineTypes
<1>5. NumberedOnce'
  BY <1>1, <1>2, <1>3 DEF Numbering, NumberedOnce
<1>6. WrittenOnce'
  <2>1. \A n \in OnLine : n < nextCmd /\ n < nextCmd + 1 /\ n # nextCmd
    BY <1>1, <1>4 DEF Numbering, WrittenOnce
  <2>2. \A u \in Threads : pc'[u] \in Unwritten => cmd'[u] \notin OnLine
    BY <1>1, <1>2, <2>1 DEF Numbering, WrittenOnce
  <2> QED
    BY <1>2, <1>3, <2>1, <2>2 DEF Numbering, WrittenOnce
<1>7. ASSUME NEW n \in Commands, Unanswered(n)' PROVE Unanswered(n)
  <2>1. n \in Nat
    BY Bounds
  <2>2. CASE n >= nextCmd'
    BY <1>1, <1>2, <2>1, <2>2 DEF Unanswered
  <2>3. CASE n \in OnLine'
    BY <1>3, <2>3 DEF Unanswered
  <2>4. ASSUME NEW u \in Threads, cmd'[u] = n, pc'[u] \in Unwritten PROVE Unanswered(n)
    <3>1. CASE u = t
      BY <1>1, <1>2, <2>1, <2>4, <3>1 DEF Unanswered
    <3>2. CASE u # t
      BY <1>1, <1>2, <2>4, <3>2 DEF Unanswered
    <3> QED
      BY <3>1, <3>2
  <2> QED
    BY <1>7, <2>2, <2>3, <2>4 DEF Unanswered
<1> QED
  BY <1>5, <1>6, <1>7 DEF Numbering

\* A header leaves its message unanswered.
LEMMA StepOfHeader ==
  ASSUME FrameInv, Numbering, NEW t \in Threads, WriteHeader(t) \/ SendHeader(t)
  PROVE  Numbering' /\ \A n \in Commands : Unanswered(n)' => Unanswered(n)
<1> DEFINE k == cmd[t]
           L == Len(line)
<1>1. /\ cmd \in [Threads -> 0..MaxCommands] /\ nextCmd \in Nat \ {0} /\ MaxCommands \in Nat
      /\ pc \in [Threads -> Labels]
      /\ L \in Nat /\ TypeOK
  BY Bounds, LineLength DEF FrameInv, TypeInv, TypeOK
<1>2. /\ k \in Commands /\ cmd' = cmd /\ nextCmd' = nextCmd
      /\ line' = Append(line, [part |-> "header", n |-> k])
      /\ \E to \in {"payload", "sendPayload"} : pc' = [pc EXCEPT ![t] = to]
      /\ pc[t] \in Unwritten
  BY CommandTypes
     DEF FrameInv, WriteHeader, SendHeader, Write, Goto, counters, InCommand, InSend, Unwritten
<1>3. /\ Len(line') = L + 1 /\ line'[L + 1].part = "header"
      /\ \A i \in 1..L : line'[i] = line[i]
  BY <1>1, <1>2, AppendChunk
<1>4. Payloads' = Payloads
  <2>1. 1..Len(line') = 1..L \cup {L + 1}
    BY <1>1, <1>3
  <2> QED
    BY <1>3, <2>1 DEF Payloads
<1>5. OnLine' = OnLine /\ \A i \in Payloads : line'[i] = line[i]
  BY <1>3, <1>4 DEF OnLine, Payloads
<1>6. \A u \in Threads : /\ pc'[u] \in Unwritten => pc[u] \in Unwritten
                         /\ pc'[u] \notin Working => pc[u] \notin Working
  BY <1>1, <1>2 DEF Unwritten, Working, InCommand, InSend
<1>7. NumberedOnce'
  <2>1. cmd' = cmd /\ nextCmd' = nextCmd
    BY <1>2
  <2> QED
    BY <1>6, <2>1 DEF Numbering, NumberedOnce
<1>8. WrittenOnce'
  <2>1. cmd' = cmd /\ nextCmd' = nextCmd /\ OnLine' = OnLine /\ Payloads' = Payloads
    BY <1>2, <1>4, <1>5
  <2>2. \A i \in Payloads : line'[i] = line[i]
    BY <1>5
  <2>3. \A u \in Threads : pc'[u] \in Unwritten => pc[u] \in Unwritten
    BY <1>6
  <2> QED
    BY <2>1, <2>2, <2>3 DEF Numbering, WrittenOnce
<1>9. \A n \in Commands : Unanswered(n)' => Unanswered(n)
  <2>1. cmd' = cmd /\ nextCmd' = nextCmd
    BY <1>2
  <2> QED
    BY <1>5, <1>6, <2>1 DEF Unanswered
<1> QED
  BY <1>7, <1>8, <1>9 DEF Numbering

\* A payload is that of a message that is not on the line.
LEMMA StepOfPayload ==
  ASSUME FrameInv, Numbering, NEW t \in Threads, WritePayload(t) \/ SendPayload(t)
  PROVE  Numbering' /\ \A n \in Commands : Unanswered(n)' => Unanswered(n)
<1> DEFINE k == cmd[t]
           L == Len(line)
<1>1. /\ cmd \in [Threads -> 0..MaxCommands] /\ nextCmd \in Nat \ {0} /\ MaxCommands \in Nat
      /\ pc \in [Threads -> Labels]
      /\ L \in Nat /\ TypeOK
      /\ Home(t) \notin Working
  BY Bounds, LineLength DEF FrameInv, TypeInv, TypeOK, Home, Working, InCommand, InSend
<1>2. /\ k \in Commands /\ k < nextCmd /\ nextCmd' = nextCmd
      /\ line' = Append(line, [part |-> "payload", n |-> k])
      /\ pc[t] \in Unwritten
  BY CommandTypes
     DEF FrameInv, Numbering, NumberedOnce, WritePayload, SendPayload, Write, counters, InCommand,
         InSend, Unwritten
<1>3. /\ \A u \in Threads : u # t => pc'[u] = pc[u] /\ cmd'[u] = cmd[u]
      /\ \/ cmd'[t] = 0 /\ pc'[t] = Home(t)
         \/ cmd'[t] = k /\ pc'[t] = "enter"
  BY <1>1 DEF WritePayload, SendPayload, FinishSend, Goto
<1>4. /\ Len(line') = L + 1 /\ line'[L + 1].n = k /\ line'[L + 1].part = "payload"
      /\ \A i \in 1..L : line'[i] = line[i]
  BY <1>1, <1>2, AppendChunk
<1>5. Payloads' = Payloads \cup {L + 1}
  <2>1. 1..Len(line') = 1..L \cup {L + 1}
    BY <1>1, <1>4
  <2> QED
    BY <1>4, <2>1 DEF Payloads
<1>6. OnLine' = OnLine \cup {k} /\ \A i \in Payloads : line'[i] = line[i] /\ i # L + 1
  BY <1>1, <1>4, <1>5 DEF OnLine, Payloads
<1>7. k \notin OnLine
  BY <1>2 DEF Numbering, WrittenOnce
<1>8. \A u \in Threads : pc'[u] \in Unwritten => u # t /\ pc[u] \in Unwritten /\ cmd'[u] = cmd[u]
  <2>1. Unwritten \subseteq Working /\ "enter" \notin Unwritten
    BY DEF Unwritten, Working, InCommand, InSend
  <2> QED
    BY <1>1, <1>3, <2>1
<1>9. NumberedOnce'
  <2>1. "enter" \in Working
    BY DEF Working, InCommand
  <2>2. /\ \A u \in Threads : cmd[u] < nextCmd
        /\ \A u, v \in Threads : u # v /\ cmd[u] = cmd[v] => cmd[u] = 0
        /\ \A u \in Threads : pc[u] \notin Working => cmd[u] = 0
    BY DEF Numbering, NumberedOnce
  <2>3. \A u \in Threads : cmd'[u] = cmd[u] \/ cmd'[u] = 0
    BY <1>3
  <2>4. \A u \in Threads : cmd'[u] < nextCmd'
    BY <1>1, <1>2, <2>2, <2>3
  <2>5. \A u, v \in Threads : u # v /\ cmd'[u] = cmd'[v] => cmd'[u] = 0
    BY <2>2, <2>3
  <2>6. \A u \in Threads : pc'[u] \notin Working => cmd'[u] = 0
    BY <1>3, <2>1, <2>2
  <2> QED
    BY <2>4, <2>5, <2>6 DEF NumberedOnce
<1>10. WrittenOnce'
  <2>1. \A n \in OnLine' : n < nextCmd'
    BY <1>2, <1>6 DEF Numbering, WrittenOnce
  <2>2. \A u \in Threads : pc'[u] \in Unwritten => cmd'[u] \notin OnLine'
    <3> SUFFICES ASSUME NEW u \in Threads, pc'[u] \in Unwritten PROVE cmd[u] \notin OnLine \cup {k}
      BY <1>6, <1>8
    <3>1. u # t /\ pc[u] \in Unwritten
      BY <1>8
    <3>2. cmd[u] # k
      BY <1>2, <3>1, Bounds DEF Numbering, NumberedOnce
    <3> QED
      BY <3>1, <3>2 DEF Numbering, WrittenOnce
  <2>3. \A i, j \in Payloads' : i # j => line'[i].n # line'[j].n
    <3>1. \A i \in Payloads : line[i].n # k
      BY <1>7 DEF OnLine
    <3>2. \A i, j \in Payloads : i # j => line[i].n # line[j].n
      BY DEF Numbering, WrittenOnce
    <3> QED
      BY <1>4, <1>5, <1>6, <3>1, <3>2
  <2> QED
    BY <2>1, <2>2, <2>3 DEF WrittenOnce
<1>11. ASSUME NEW n \in Commands, Unanswered(n)' PROVE Unanswered(n)
  <2>1. CASE n = k
    BY <1>2, <2>1 DEF Unanswered
  <2>2. CASE n # k
    BY <1>2, <1>6, <1>8, <1>11, <2>2 DEF Unanswered
  <2> QED
    BY <2>1, <2>2
<1> QED
  BY <1>9, <1>10, <1>11 DEF Numbering

\* The chunks left on the line when the firmware takes some of them.
LEMMA StepOfLine ==
  ASSUME TypeOK, Numbering, pc' = pc, cmd' = cmd, nextCmd' = nextCmd, NEW k \in Nat,
         Len(line') \in Nat, \A i \in 1..Len(line') : i + k \in 1..Len(line) /\ line'[i] = line[i + k]
  PROVE  /\ Numbering'
         /\ \A n \in Commands : Unanswered(n)' => Unanswered(n)
         /\ \A i \in Payloads : i <= k => line[i].n \notin OnLine'
<1>1. \A i \in Payloads' : i + k \in Payloads /\ line'[i] = line[i + k]
  BY DEF Payloads
<1>2. OnLine' \subseteq OnLine
  BY <1>1 DEF OnLine
<1>3. \A i \in Payloads' : i \in Nat /\ i >= 1
  BY DEF Payloads
<1>4. \A i, j \in Payloads' : i # j => i + k # j + k
  BY <1>3
<1>5. WrittenOnce'
  BY <1>1, <1>2, <1>4 DEF Numbering, WrittenOnce
<1>6. NumberedOnce'
  BY DEF Numbering, NumberedOnce
<1>7. \A n \in Commands : Unanswered(n)' => Unanswered(n)
  BY <1>2 DEF Unanswered
<1>8. ASSUME NEW i \in Payloads, i <= k PROVE line[i].n \notin OnLine'
  <2>1. \A j \in Payloads' : j + k # i
    BY <1>3, <1>8 DEF Payloads
  <2>2. \A j \in Payloads' : line'[j].n # line[i].n
    BY <1>1, <2>1 DEF Numbering, WrittenOnce
  <2> QED
    BY <2>2 DEF OnLine
<1> QED
  BY <1>5, <1>6, <1>7, <1>8 DEF Numbering

\* The firmware takes a frame: its command is not on the line any more.
LEMMA StepOfRead ==
  ASSUME FrameInv, Numbering, FirmwareAnswers \/ FirmwareIgnores
  PROVE  /\ Numbering'
         /\ \A n \in Commands : Unanswered(n)' => Unanswered(n)
         /\ \A n \in Commands : line[1].n = n => Unanswered(n) /\ ~Unanswered(n)'
<1>0. TypeOK /\ WholeFrame
  BY DEF FrameInv, TypeInv, FirmwareAnswers, FirmwareIgnores
<1> PICK k \in Commands : k = line[1].n
  BY <1>0, FrameQueued
<1>1. /\ Len(line) \in Nat /\ nextCmd \in Nat /\ k \in Nat
  BY <1>0, Bounds, LineLength DEF TypeOK
<1>2. /\ line' = SubSeq(line, 3, Len(line)) /\ pc' = pc /\ cmd' = cmd /\ nextCmd' = nextCmd
  BY DEF FirmwareAnswers, FirmwareIgnores, hostVars, counters
<1>3. /\ Len(line) >= 2 /\ Len(line') = Len(line) - 2
      /\ \A i \in 1..Len(line') : line'[i] = line[i + 2]
  BY <1>0, <1>2, ReadFrame
<1>4. Len(line') \in Nat /\ \A i \in 1..Len(line') : i + 2 \in 1..Len(line) /\ line'[i] = line[i + 2]
  BY <1>1, <1>3
<1>5. /\ Numbering'
      /\ \A n \in Commands : Unanswered(n)' => Unanswered(n)
      /\ \A i \in Payloads : i <= 2 => line[i].n \notin OnLine'
  BY <1>0, <1>2, <1>4, StepOfLine
<1>6. 2 \in Payloads /\ line[2].n = k
  BY <1>0, <1>1, <1>3 DEF WholeFrame, Payloads
<1>7. k \in OnLine /\ k \notin OnLine'
  BY <1>5, <1>6 DEF OnLine
<1>8. ~(k >= nextCmd) /\ \A t \in Threads : cmd[t] = k => pc[t] \notin Unwritten
  BY <1>1, <1>7 DEF Numbering, WrittenOnce
<1>9. Unanswered(k) /\ ~Unanswered(k)'
  BY <1>2, <1>7, <1>8 DEF Unanswered
<1> QED
  BY <1>5, <1>9

LEMMA StepOfResync ==
  ASSUME FrameInv, Numbering, FirmwareResyncs
  PROVE  Numbering' /\ \A n \in Commands : Unanswered(n)' => Unanswered(n)
<1>1. /\ TypeOK /\ Len(line) \in Nat /\ Len(line) >= 2
      /\ line' = Tail(line) /\ pc' = pc /\ cmd' = cmd /\ nextCmd' = nextCmd
  BY LineLength DEF FrameInv, TypeInv, FirmwareResyncs, hostVars, counters
<1>2. /\ Len(line') = Len(line) - 1
      /\ \A i \in 1..Len(line') : line'[i] = line[i + 1]
  <2> DEFINE C == [part : {"header", "payload"}, n : Commands]
  <2>1. line \in Seq(C) /\ line # <<>>
    BY <1>1, EmptySeq DEF TypeOK
  <2> HIDE DEF C
  <2> QED
    BY <1>1, <2>1, HeadTailProperties
<1>3. Len(line') \in Nat /\ \A i \in 1..Len(line') : i + 1 \in 1..Len(line) /\ line'[i] = line[i + 1]
  BY <1>1, <1>2
<1> QED
  BY <1>1, <1>3, StepOfLine

LEMMA NumberingInit == Init => Numbering
<1> SUFFICES ASSUME Init PROVE Numbering
  OBVIOUS
<1>1. nextCmd = 1 /\ \A t \in Threads : cmd[t] = 0 /\ pc[t] = "idle"
  BY DEF Init
<1>2. Payloads = {} /\ OnLine = {}
  BY DEF Init, Payloads, OnLine
<1> QED
  BY <1>1, <1>2 DEF Numbering, NumberedOnce, WrittenOnce

LEMMA NumberingNext ==
  ASSUME FrameInv, Numbering, [Next]_vars
  PROVE  Numbering' /\ \A n \in Commands : Unanswered(n)' => Unanswered(n)
<1> DEFINE Outcomes == {"answered", "timeout", "error", "disconnected"}
           Good == Numbering' /\ \A n \in Commands : Unanswered(n)' => Unanswered(n)
<1>0. /\ pc \in [Threads -> Labels]
      /\ cmd \in [Threads -> 0..MaxCommands]
      /\ Clients \subseteq Threads /\ MsgThread \in Threads
      /\ \A t \in Threads : Home(t) \in {"idle", "handler", "upcall"}
  BY CommandTypes DEF FrameInv
<1>1. ASSUME NEW t \in Threads, BeginCommand(t) \/ BeginSend(t) PROVE Good
  BY <1>1, StepOfBegin
<1>2. ASSUME NEW t \in Threads, WriteHeader(t) \/ WritePayload(t) \/ SendHeader(t) \/ SendPayload(t)
      PROVE  Good
  BY <1>2, StepOfHeader, StepOfPayload
<1>3. ASSUME FirmwareAnswers \/ FirmwareIgnores \/ FirmwareResyncs PROVE Good
  BY <1>3, StepOfRead, StepOfResync
<1>4. ASSUME NEW t \in Threads, FinishSend(t) \/ \E how \in Outcomes : FinishCommand(t, how),
             line' = line, nextCmd' = nextCmd
      PROVE  Good
  <2>1. pc' = [pc EXCEPT ![t] = Home(t)] /\ cmd' = [cmd EXCEPT ![t] = 0]
    BY <1>4 DEF FinishSend, FinishCommand, Goto
  <2>2. cmd'[t] = 0 /\ pc'[t] \notin Working
    BY <1>0, <2>1 DEF Working, InCommand, InSend
  <2>3. \A u \in Threads : u # t => pc'[u] = pc[u] /\ cmd'[u] = cmd[u]
    BY <1>0, <2>1
  <2> QED
    BY <1>4, <2>2, <2>3, StepOfThread
<1>5. ASSUME NEW t \in Threads,
             AcquireTx(t) \/ SetCommandFilter(t) \/ (EnterWait(t) /\ Goto(t, "get") /\ cmd' = cmd)
      PROVE  Good
  <2>1. /\ line' = line /\ nextCmd' = nextCmd /\ cmd' = cmd
        /\ \/ pc[t] \in Unwritten /\ \E to \in {"filter", "header"} : pc' = [pc EXCEPT ![t] = to]
           \/ pc' = [pc EXCEPT ![t] = "get"]
    BY <1>5 DEF AcquireTx, SetCommandFilter, EnterWait, Goto, counters, Unwritten
  <2>2. pc'[t] \in Working /\ (pc'[t] \in Unwritten => pc[t] \in Unwritten)
    BY <1>0, <2>1 DEF Working, InCommand, InSend, Unwritten
  <2>3. \A u \in Threads : u # t => pc'[u] = pc[u]
    BY <1>0, <2>1
  <2> QED
    BY <2>1, <2>2, <2>3, StepOfThread
<1>6. ASSUME NEW t \in Threads,
             WriteFails(t) \/ EnterWait(t) \/ TakeAnswer(t) \/ CommandTimeout(t) \/ SendFails(t)
      PROVE  Good
  <2>1. line' = line /\ nextCmd' = nextCmd
    BY <1>6 DEF WriteFails, Raises, EnterWait, TakeAnswer, CommandTimeout, SendFails, counters
  <2>2. CASE \E how \in Outcomes : FinishCommand(t, how)
    BY <1>4, <2>1, <2>2
  <2>3. CASE EnterWait(t) /\ Goto(t, "get") /\ cmd' = cmd
    BY <1>5, <2>3
  <2>4. CASE EnterWait(t)
    <3>1. FinishCommand(t, "disconnected") \/ (Goto(t, "get") /\ cmd' = cmd)
      BY <2>4 DEF EnterWait
    <3> QED
      BY <2>2, <2>3, <2>4, <3>1
  <2>5. CASE WriteFails(t) \/ TakeAnswer(t) \/ CommandTimeout(t)
    <3>1. \/ FinishCommand(t, "error") \/ FinishCommand(t, "answered")
          \/ FinishCommand(t, "timeout")
      BY <2>5 DEF WriteFails, TakeAnswer, CommandTimeout
    <3> QED
      BY <2>2, <3>1
  <2>6. CASE SendFails(t)
    BY <1>4, <2>1, <2>6 DEF SendFails
  <2> QED
    BY <1>6, <2>4, <2>5, <2>6
<1>7. ASSUME NEW t \in Threads, NEW to \in {"idle", "handler", "wait", "upcall"},
             pc[t] \notin Working,
             pc' = [pc EXCEPT ![t] = to], cmd' = cmd, line' = line, nextCmd' = nextCmd
      PROVE  Good
  <2>1. cmd'[t] = 0 /\ pc'[t] \notin Working
    BY <1>0, <1>7 DEF Numbering, NumberedOnce, Working, InCommand, InSend
  <2>2. \A u \in Threads : u # t => pc'[u] = pc[u] /\ cmd'[u] = cmd[u]
    BY <1>0, <1>7
  <2> QED
    BY <1>7, <2>1, <2>2, StepOfThread
<1>8. ASSUME NEW c \in Clients, BeginWait(c) \/ WaitStep(c) PROVE Good
  <2>1. /\ pc[c] \notin Working /\ cmd' = cmd /\ line' = line /\ nextCmd' = nextCmd
        /\ \E to \in {"idle", "wait"} : pc' = [pc EXCEPT ![c] = to]
    BY <1>8 DEF BeginWait, WaitStep, TakePacket, WaitTimeout, FinishWait, Goto, counters, Working,
                  InCommand, InSend
  <2> QED
    BY <1>0, <1>7, <2>1
<1>9. ASSUME Process \/ HandlerReturns PROVE Good
  <2>1. /\ pc[MsgThread] \notin Working /\ cmd' = cmd /\ line' = line /\ nextCmd' = nextCmd
        /\ \E to \in {"idle", "handler"} : pc' = [pc EXCEPT ![MsgThread] = to]
    BY <1>9 DEF Process, HandlerReturns, Goto, counters, Working, InCommand, InSend
  <2> QED
    BY <1>0, <1>7, <2>1
<1>10. ASSUME pc' = pc, cmd' = cmd, line' = line, nextCmd' = nextCmd PROVE Good
  BY <1>10 DEF Numbering, NumberedOnce, WrittenOnce, OnLine, Payloads, Unanswered
<1>11. ASSUME NEW t \in Threads, DispatchQueued(t) \/ CallbackSends(t) \/ CallbackReturns(t)
       PROVE  Good
  <2>1. /\ cmd' = cmd /\ line' = line /\ nextCmd' = nextCmd
        /\ \/ /\ pc[t] \in {"get", "callback"}
              /\ \E to \in {"get", "callback", "relock"} : pc' = [pc EXCEPT ![t] = to]
           \/ /\ pc[t] \in {"wait", "upcall"}
              /\ \E to \in {"wait", "upcall"} : pc' = [pc EXCEPT ![t] = to]
    BY <1>11 DEF DispatchQueued, CallbackSends, CallbackReturns, Goto, counters
  <2>2. CASE pc[t] \in {"get", "callback"}
    <3>1. pc'[t] \in Working /\ pc'[t] \notin Unwritten
      BY <1>0, <2>1, <2>2 DEF Working, InCommand, InSend, Unwritten
    <3>2. \A u \in Threads : u # t => pc'[u] = pc[u]
      BY <1>0, <2>1
    <3> QED
      BY <2>1, <3>1, <3>2, StepOfThread
  <2>3. CASE pc[t] \in {"wait", "upcall"}
    <3>1. pc[t] \notin Working /\ \E to \in {"wait", "upcall"} : pc' = [pc EXCEPT ![t] = to]
      BY <2>1, <2>3 DEF Working, InCommand, InSend
    <3> QED
      BY <1>7, <2>1, <3>1
  <2> QED
    BY <2>1, <2>2, <2>3
<1> HIDE DEF Good
<1>12. Good
  BY <1>1, <1>2, <1>3, <1>5, <1>6, <1>8, <1>9, <1>10, <1>11
     DEF Next, CommandStep, SendStep, Receive, Store, BeginClose, EndClose,
         FirmwareSendsPacket, vars, hostVars, counters
<1> QED
  BY <1>12 DEF Good

-----------------------------------------------------------------------------
(***************************************************************************)
(* Places.  A message is on the wire, in the input thread's hand, in one   *)
(* of the two queues, or handed over.                                      *)
(***************************************************************************)
Hand == IF inHand = Nothing THEN {} ELSE {inHand.msg}
Gone == handled \cup returned
Sent == Queued(wire) \cup Held \cup Gone

Distinct(q) == \A i, j \in 1..Len(q) : i < j => q[i] # q[j]

OnePlace ==
  /\ Queued(wire) \cap (Held \cup Gone) = {}
  /\ Held \cap Gone = {}
  /\ Hand \cap (Queued(msgQueue) \cup Queued(messages)) = {}
  /\ Queued(msgQueue) \cap Queued(messages) = {}
  /\ Distinct(wire) /\ Distinct(msgQueue) /\ Distinct(messages)

\* What has not been sent yet is nowhere.
Fresh ==
  /\ \A n \in Commands : Unanswered(n) => Result(n) \notin Sent
  /\ \A k \in 1..MaxPackets : k >= nextPkt => Packet(k) \notin Sent

\* What a step may do to the sets of Custody.
Keeps      == Held' = Held /\ Gone' = Gone
Accepts(m) == m \notin Held \cup Gone /\ Held' = Held \cup {m} /\ Gone' = Gone
Settles(m) == m \in Held /\ Held' = Held \ {m} /\ Gone' = Gone \cup {m}
Moved      == Keeps \/ \E m \in Message : Accepts(m) \/ Settles(m)

LEMMA PlacesOf == Held = Queued(msgQueue) \cup Queued(messages) \cup Hand
  BY DEF Held, Hand

\* OnePlace in the next state, from the sets of that state.
LEMMA PlacesNext ==
  ASSUME Queued(wire') \cap (Held' \cup Gone') = {},
         Held' \cap Gone' = {},
         Hand' \cap (Queued(msgQueue') \cup Queued(messages')) = {},
         Queued(msgQueue') \cap Queued(messages') = {},
         Distinct(wire'), Distinct(msgQueue'), Distinct(messages')
  PROVE  OnePlace'
<1>1. /\ Queued(wire)' = Queued(wire') /\ Queued(msgQueue)' = Queued(msgQueue')
      /\ Queued(messages)' = Queued(messages')
  BY DEF Queued
<1>2. Distinct(wire)' /\ Distinct(msgQueue)' /\ Distinct(messages)'
  BY DEF Distinct
<1> QED
  BY <1>1, <1>2 DEF OnePlace

LEMMA AppendDistinct ==
  ASSUME NEW S, NEW q \in Seq(S), NEW m \in S, Distinct(q), m \notin Queued(q)
  PROVE  Distinct(Append(q, m))
<1> DEFINE r == Append(q, m)
<1>1. /\ Len(q) \in Nat /\ Len(r) = Len(q) + 1
      /\ r[Len(q) + 1] = m /\ \A i \in 1..Len(q) : r[i] = q[i]
  BY AppendProperties, LenProperties
<1> HIDE DEF r
<1> SUFFICES ASSUME NEW i \in 1..Len(r), NEW j \in 1..Len(r), i < j PROVE r[i] # r[j]
  BY DEF Distinct, r
<1>2. i \in 1..Len(q) /\ r[i] = q[i] /\ q[i] \in Queued(q)
  BY <1>1 DEF Queued
<1>3. CASE j \in 1..Len(q)
  BY <1>1, <1>2, <1>3 DEF Distinct
<1>4. CASE j = Len(q) + 1
  BY <1>1, <1>2, <1>4
<1> QED
  BY <1>1, <1>3, <1>4

LEMMA TailDistinct ==
  ASSUME NEW S, NEW q \in Seq(S), q # <<>>, Distinct(q)
  PROVE  /\ Distinct(Tail(q)) /\ Head(q) \in S
         /\ Head(q) \notin Queued(Tail(q))
         /\ Queued(q) = Queued(Tail(q)) \cup {Head(q)}
<1> DEFINE r == Tail(q)
<1>1. /\ Len(q) \in Nat \ {0} /\ Len(r) = Len(q) - 1
      /\ \A i \in 1..Len(r) : r[i] = q[i + 1]
      /\ Head(q) = q[1] /\ Head(q) \in S
  BY HeadTailProperties, EmptySeq
<1> HIDE DEF r
<1>2. \A i \in 1..Len(r) : i + 1 \in 1..Len(q) /\ 1 < i + 1
  BY <1>1
<1>3. Distinct(r)
  BY <1>1, <1>2 DEF Distinct
<1>4. Head(q) \notin Queued(r)
  BY <1>1, <1>2 DEF Distinct, Queued
<1>5. \A i \in 1..Len(q) : i = 1 \/ (i - 1 \in 1..Len(r) /\ r[i - 1] = q[i])
  BY <1>1
<1>6. Queued(q) = Queued(r) \cup {Head(q)}
  BY <1>1, <1>2, <1>5 DEF Queued
<1> QED
  BY <1>1, <1>3, <1>4, <1>6 DEF r

\* The firmware sends a message that is nowhere yet.
LEMMA StepOfEmission ==
  ASSUME TypeInv, OnePlace, NEW m \in Message, m \notin Sent, wire' = Append(wire, m),
         UNCHANGED <<queues, handled, returned>>
  PROVE  OnePlace' /\ Keeps /\ Sent' = Sent \cup {m}
<1>1. Queued(wire') = Queued(wire) \cup {m} /\ Distinct(wire')
  BY QueueTypes, AppendQueued, AppendDistinct DEF OnePlace, Sent
<1>2. Held' = Held /\ Gone' = Gone /\ Hand' = Hand
  BY DEF Held, Gone, Hand, queues
<1>3. Sent' = Queued(wire') \cup Held' \cup Gone'
  BY DEF Sent, Queued
<1>4. OnePlace'
  BY <1>1, <1>2 DEF OnePlace, Sent, queues, Queued
<1> QED
  BY <1>1, <1>2, <1>3, <1>4 DEF Keeps, Sent

LEMMA StepOfReceive ==
  ASSUME TypeInv, OnePlace, Receive
  PROVE  OnePlace' /\ Moved /\ Sent' \subseteq Sent
<1> DEFINE m == Head(wire)
<1>1. /\ wire # <<>> /\ wire' = Tail(wire) /\ inHand = Nothing
      /\ UNCHANGED <<msgQueue, messages, handled, returned>>
      /\ inHand' = IF closing THEN Nothing ELSE [msg |-> m, keep |-> Matches(m)]
  BY DEF Receive, history
<1>2. /\ Queued(wire) = Queued(wire') \cup {m} /\ m \notin Queued(wire') /\ m \in Message
      /\ Distinct(wire')
  BY <1>1, QueueTypes, TailDistinct DEF OnePlace
<1>3. m \notin Held \cup Gone /\ Hand = {} /\ Gone' = Gone
  BY <1>1, <1>2 DEF OnePlace, Hand, Gone
<1> HIDE DEF m
<1>4. Hand' = {} \/ Hand' = {m}
  BY <1>1 DEF Hand
<1>5. Held' = Queued(msgQueue) \cup Queued(messages) \cup Hand'
  BY <1>1 DEF Held, Hand, Queued
<1>6. Held' = Held \/ Held' = Held \cup {m}
  BY <1>3, <1>4, <1>5, PlacesOf
<1>7. Moved
  BY <1>2, <1>3, <1>6 DEF Moved, Keeps, Accepts
<1>8. OnePlace'
  <2>1. /\ Queued(wire) \cap (Held \cup Gone) = {} /\ Held \cap Gone = {}
        /\ Queued(msgQueue) \cap Queued(messages) = {}
        /\ Distinct(msgQueue) /\ Distinct(messages)
    BY DEF OnePlace
  <2>2. Queued(wire') \cap (Held' \cup Gone') = {} /\ Held' \cap Gone' = {}
    BY <1>2, <1>3, <1>6, <2>1
  <2>3. Hand' \cap (Queued(msgQueue') \cup Queued(messages')) = {}
    BY <1>1, <1>3, <1>4, PlacesOf
  <2> QED
    BY <1>1, <1>2, <2>1, <2>2, <2>3, PlacesNext
<1>9. Sent' \subseteq Sent
  BY <1>2, <1>3, <1>6 DEF Sent, Queued
<1> QED
  BY <1>7, <1>8, <1>9

LEMMA StepOfStore ==
  ASSUME TypeInv, OnePlace, Store
  PROVE  OnePlace' /\ Keeps /\ Sent' = Sent
<1> DEFINE m == inHand.msg
<1>1. inHand # Nothing /\ inHand' = Nothing /\ UNCHANGED <<wire, handled, returned>>
  BY DEF Store, history
<1>2. m \in Message /\ Hand = {m} /\ Hand' = {} /\ m \notin Queued(msgQueue) \cup Queued(messages)
  BY <1>1 DEF TypeInv, HandOf, Hand, OnePlace
<1>3. \/ msgQueue' = Append(msgQueue, m) /\ messages' = messages
      \/ messages' = Append(messages, m) /\ msgQueue' = msgQueue
  <2>1. CASE inHand.keep
    BY <2>1, Zenon DEF Store
  <2>2. CASE ~inHand.keep
    BY <2>2, Zenon DEF Store
  <2> QED
    BY <2>1, <2>2
<1> HIDE DEF m
<1>4. /\ Distinct(msgQueue') /\ Distinct(messages')
      /\ \/ Queued(msgQueue') = Queued(msgQueue) \cup {m} /\ messages' = messages
         \/ Queued(messages') = Queued(messages) \cup {m} /\ msgQueue' = msgQueue
  <2>1. /\ Distinct(msgQueue) /\ Distinct(messages)
        /\ msgQueue \in Seq(Message) /\ messages \in Seq(Message)
        /\ m \notin Queued(msgQueue) /\ m \notin Queued(messages)
    BY <1>2, QueueTypes DEF OnePlace
  <2>2. CASE msgQueue' = Append(msgQueue, m) /\ messages' = messages
    <3>1. Distinct(msgQueue') /\ Queued(msgQueue') = Queued(msgQueue) \cup {m}
      BY <1>2, <2>1, <2>2, AppendQueued, AppendDistinct
    <3> QED
      BY <2>1, <2>2, <3>1
  <2>3. CASE messages' = Append(messages, m) /\ msgQueue' = msgQueue
    <3>1. Distinct(messages') /\ Queued(messages') = Queued(messages) \cup {m}
      BY <1>2, <2>1, <2>3, AppendQueued, AppendDistinct
    <3> QED
      BY <2>1, <2>3, <3>1
  <2> QED
    BY <1>3, <2>2, <2>3
<1>5. Held' = Queued(msgQueue') \cup Queued(messages') \cup Hand'
  BY DEF Held, Hand, Queued
<1>6. Held' = Held /\ Gone' = Gone
  BY <1>1, <1>2, <1>4, <1>5, PlacesOf DEF Gone
<1>7. OnePlace'
  <2>1. /\ Queued(wire) \cap (Held \cup Gone) = {} /\ Held \cap Gone = {}
        /\ Queued(msgQueue) \cap Queued(messages) = {} /\ Distinct(wire)
    BY DEF OnePlace
  <2>2. Queued(msgQueue') \cap Queued(messages') = {}
    BY <1>2, <1>4, <2>1
  <2> QED
    BY <1>1, <1>2, <1>4, <1>6, <2>1, <2>2, PlacesNext
<1> QED
  BY <1>1, <1>6, <1>7 DEF Keeps, Sent, Queued

\* The head of a queue is handed over.
LEMMA StepOfHandover ==
  ASSUME TypeInv, OnePlace, UNCHANGED <<wire, inHand>>, NEW m,
         \/ msgQueue # <<>> /\ m = Head(msgQueue) /\ msgQueue' = Tail(msgQueue) /\ messages' = messages
         \/ messages # <<>> /\ m = Head(messages) /\ messages' = Tail(messages) /\ msgQueue' = msgQueue,
         Gone' = Gone \cup {m}
  PROVE  OnePlace' /\ m \in Message /\ Settles(m) /\ Sent' = Sent
<1>1. /\ m \in Message /\ Distinct(msgQueue') /\ Distinct(messages')
      /\ \/ /\ Queued(msgQueue) = Queued(msgQueue') \cup {m} /\ m \notin Queued(msgQueue')
            /\ messages' = messages
         \/ /\ Queued(messages) = Queued(messages') \cup {m} /\ m \notin Queued(messages')
            /\ msgQueue' = msgQueue
  <2>1. /\ Distinct(msgQueue) /\ Distinct(messages)
        /\ msgQueue \in Seq(Message) /\ messages \in Seq(Message)
    BY QueueTypes DEF OnePlace
  <2>2. CASE msgQueue # <<>> /\ m = Head(msgQueue) /\ msgQueue' = Tail(msgQueue)
               /\ messages' = messages
    <3>1. /\ m \in Message /\ Distinct(msgQueue') /\ m \notin Queued(msgQueue')
          /\ Queued(msgQueue) = Queued(msgQueue') \cup {m}
      BY <2>1, <2>2, TailDistinct
    <3> QED
      BY <2>1, <2>2, <3>1
  <2>3. CASE messages # <<>> /\ m = Head(messages) /\ messages' = Tail(messages)
               /\ msgQueue' = msgQueue
    <3>1. /\ m \in Message /\ Distinct(messages') /\ m \notin Queued(messages')
          /\ Queued(messages) = Queued(messages') \cup {m}
      BY <2>1, <2>3, TailDistinct
    <3> QED
      BY <2>1, <2>3, <3>1
  <2> QED
    BY <2>2, <2>3
<1>2. Hand' = Hand
  BY DEF Hand
<1>3. Held' = Queued(msgQueue') \cup Queued(messages') \cup Hand'
  BY DEF Held, Hand, Queued
<1>4. m \in Held /\ Held' = Held \ {m}
  BY <1>1, <1>2, <1>3, PlacesOf DEF OnePlace, Queued
<1>5. OnePlace'
  <2>1. /\ Queued(wire) \cap (Held \cup Gone) = {} /\ Held \cap Gone = {}
        /\ Hand \cap (Queued(msgQueue) \cup Queued(messages)) = {}
        /\ Queued(msgQueue) \cap Queued(messages) = {} /\ Distinct(wire)
    BY DEF OnePlace
  <2>2. /\ Queued(msgQueue') \subseteq Queued(msgQueue)
        /\ Queued(messages') \subseteq Queued(messages)
    BY <1>1
  <2>3. Queued(wire') \cap (Held' \cup Gone') = {} /\ Held' \cap Gone' = {}
    BY <1>4, <2>1
  <2> QED
    BY <1>1, <1>2, <2>1, <2>2, <2>3, PlacesNext
<1>6. Sent' = Sent
  BY <1>4 DEF Sent, Queued
<1> QED
  BY <1>1, <1>4, <1>5, <1>6 DEF Settles

\* A step that sends nothing new keeps what is to come fresh.
LEMMA FreshKept ==
  ASSUME FrameInv, Numbering, Fresh, [Next]_vars, Sent' \subseteq Sent, nextPkt' = nextPkt
  PROVE  Fresh'
<1>1. \A n \in Commands : Unanswered(n)' => Unanswered(n)
  BY NumberingNext
<1> QED
  BY <1>1 DEF Fresh

LEMMA StepOfFirmware ==
  ASSUME FrameInv, Numbering, OnePlace, Fresh, [Next]_vars, FirmwareAnswers \/ FirmwareSendsPacket
  PROVE  OnePlace' /\ Fresh' /\ Keeps
<1>0. /\ TypeInv /\ nextPkt \in Nat
      /\ \A n \in Commands : Unanswered(n)' => Unanswered(n)
  BY NumberingNext DEF FrameInv, TypeInv, TypeOK
<1>1. CASE FirmwareAnswers
  <2>1. PICK k \in Commands : k = line[1].n
    BY <1>1, FrameQueued DEF FirmwareAnswers, FrameInv, TypeInv
  <2>2. Unanswered(k) /\ ~Unanswered(k)'
    BY <1>1, <2>1, StepOfRead
  <2>3. /\ wire' = Append(wire, Result(k)) /\ nextPkt' = nextPkt
        /\ UNCHANGED <<queues, handled, returned>>
    BY <1>1, <2>1 DEF FirmwareAnswers, history, counters
  <2>4. Result(k) \in Message /\ Result(k) \notin Sent
    BY <2>2, MessageTypes DEF Fresh
  <2>5. OnePlace' /\ Keeps /\ Sent' = Sent \cup {Result(k)}
    BY <1>0, <2>3, <2>4, StepOfEmission
  <2>6. \A n \in Commands : Unanswered(n)' => Result(n) \notin Sent'
    BY <1>0, <2>2, <2>5, ResultInjective DEF Fresh
  <2>7. \A j \in 1..MaxPackets : j >= nextPkt' => Packet(j) \notin Sent'
    BY <2>3, <2>5, NotNothing DEF Fresh
  <2> QED
    BY <2>5, <2>6, <2>7 DEF Fresh
<1>2. CASE FirmwareSendsPacket
  <2>1. /\ nextPkt \in 1..MaxPackets /\ wire' = Append(wire, Packet(nextPkt))
        /\ nextPkt' = nextPkt + 1 /\ UNCHANGED <<queues, handled, returned>>
    BY <1>0, <1>2, Bounds DEF FirmwareSendsPacket, history, FrameInv, TypeInv, TypeOK
  <2>2. PICK k \in 1..MaxPackets : k = nextPkt
    BY <2>1
  <2>3. Packet(k) \in Message /\ Packet(k) \notin Sent
    BY <2>1, <2>2, MessageTypes, Bounds DEF Fresh
  <2>4. OnePlace' /\ Keeps /\ Sent' = Sent \cup {Packet(k)}
    BY <1>0, <2>1, <2>2, <2>3, StepOfEmission
  <2>5. \A n \in Commands : Unanswered(n)' => Result(n) \notin Sent'
    BY <1>0, <2>2, <2>4, NotNothing DEF Fresh
  <2>6. ASSUME NEW j \in 1..MaxPackets, j >= nextPkt' PROVE Packet(j) \notin Sent'
    <3>1. j >= nextPkt /\ j # k
      BY <2>1, <2>2, <2>6, Bounds
    <3>2. Packet(j) # Packet(k)
      BY <3>1 DEF Packet
    <3> QED
      BY <2>4, <3>1, <3>2 DEF Fresh
  <2> QED
    BY <2>4, <2>5, <2>6 DEF Fresh
<1> QED
  BY <1>1, <1>2

LEMMA StepOfCustody ==
  ASSUME FrameInv, Numbering, OnePlace, Fresh, [Next]_vars
  PROVE  OnePlace' /\ Fresh' /\ Moved
<1>0. TypeInv
  BY DEF FrameInv
<1>1. CASE FirmwareAnswers \/ FirmwareSendsPacket
  BY <1>1, StepOfFirmware DEF Moved
<1>2. CASE Receive
  <2>1. OnePlace' /\ Moved /\ Sent' \subseteq Sent
    BY <1>0, <1>2, StepOfReceive
  <2>2. nextPkt' = nextPkt
    BY <1>2 DEF Receive, counters
  <2> QED
    BY <2>1, <2>2, FreshKept
<1>3. CASE Store
  <2>1. OnePlace' /\ Keeps /\ Sent' = Sent
    BY <1>0, <1>3, StepOfStore
  <2>2. nextPkt' = nextPkt
    BY <1>3 DEF Store, counters
  <2> QED
    BY <2>1, <2>2, FreshKept DEF Moved
<1>4. CASE Process \/ \E t \in Threads : TakeAnswer(t) \/ TakePacket(t) \/ DispatchQueued(t)
  <2>1. UNCHANGED <<wire, inHand>> /\ nextPkt' = nextPkt
    BY <1>4 DEF Process, TakeAnswer, TakePacket, DispatchQueued, counters
  <2>2. \E m : /\ \/ /\ msgQueue # <<>> /\ m = Head(msgQueue) /\ msgQueue' = Tail(msgQueue)
                     /\ messages' = messages
                  \/ /\ messages # <<>> /\ m = Head(messages) /\ messages' = Tail(messages)
                     /\ msgQueue' = msgQueue
               /\ Gone' = Gone \cup {m}
    <3>1. CASE Process
      BY <3>1 DEF Process, Gone
    <3>2. CASE \E t \in Threads : TakeAnswer(t) \/ TakePacket(t) \/ DispatchQueued(t)
      <4>1. /\ msgQueue # <<>> /\ msgQueue' = Tail(msgQueue) /\ messages' = messages
            /\ Gone' = Gone \cup {Head(msgQueue)}
        BY <3>2 DEF TakeAnswer, TakePacket, DispatchQueued, Gone
      <4> QED
        BY <4>1
    <3> QED
      BY <1>4, <3>1, <3>2
  <2>3. \E m \in Message : OnePlace' /\ Settles(m) /\ Sent' = Sent
    BY <1>0, <2>1, <2>2, StepOfHandover
  <2> QED
    BY <2>1, <2>3, FreshKept DEF Moved
<1>5. CASE UNCHANGED <<wire, queues, handled, returned>> /\ nextPkt' = nextPkt
  <2>1. OnePlace' /\ Keeps /\ Sent' = Sent
    <3>1. /\ wire' = wire /\ inHand' = inHand /\ msgQueue' = msgQueue /\ messages' = messages
          /\ handled' = handled /\ returned' = returned
      BY <1>5 DEF queues
    <3>2. Hand' = Hand /\ Gone' = Gone
      BY <3>1 DEF Hand, Gone
    <3>3. Held' = Held
      BY <3>1 DEF Held, Queued
    <3>4. Sent' = Sent
      BY <3>1, <3>2, <3>3 DEF Sent, Queued
    <3>5. OnePlace'
      BY <3>1, <3>2, <3>3, PlacesNext DEF OnePlace
    <3> QED
      BY <3>2, <3>3, <3>4, <3>5 DEF Keeps
  <2> QED
    BY <1>5, <2>1, FreshKept DEF Moved
<1>6. ASSUME NEW t \in Threads, BeginCommand(t) \/ CommandStep(t) \/ BeginSend(t) \/ SendStep(t)
      PROVE  TakeAnswer(t) \/ (UNCHANGED <<wire, queues, handled, returned>> /\ nextPkt' = nextPkt)
  BY <1>6
     DEF CommandStep, BeginCommand, AcquireTx, SetCommandFilter, WriteHeader, WritePayload, Write,
         WriteFails, Raises, EnterWait, CommandTimeout, BeginSend, SendStep, SendHeader,
         SendPayload, SendFails, history, counters
<1> QED
  BY <1>1, <1>2, <1>3, <1>4, <1>5, <1>6
     DEF Next, WaitStep, CallbackSends, CallbackReturns, BeginWait, WaitTimeout,
         HandlerReturns, BeginClose, EndClose, FirmwareIgnores, FirmwareResyncs, vars, history,
         counters, Threads

CustodyInv == FrameInv /\ Numbering /\ OnePlace /\ Fresh

LEMMA CustodyInvInit == Init => CustodyInv
<1> SUFFICES ASSUME Init PROVE CustodyInv
  OBVIOUS
<1>1. /\ Len(wire) = 0 /\ Len(msgQueue) = 0 /\ Len(messages) = 0
      /\ inHand = Nothing /\ handled = {} /\ returned = {}
  BY DEF Init
<1>2. /\ Queued(wire) = {} /\ Queued(msgQueue) = {} /\ Queued(messages) = {} /\ Hand = {}
      /\ Gone = {}
  BY <1>1 DEF Queued, Hand, Gone
<1>3. OnePlace /\ Fresh
  BY <1>1, <1>2, PlacesOf DEF OnePlace, Fresh, Sent, Distinct
<1> QED
  BY <1>3, FrameInvInit, NumberingInit DEF CustodyInv

LEMMA CustodyInvNext == CustodyInv /\ [Next]_vars => CustodyInv'
  BY FrameInvNext, NumberingNext, StepOfCustody DEF CustodyInv

\* The device implements Custody: each message it accepts is handed over
\* once, to the connector or to a waiting caller, whichever thread does it.
THEOREM DeviceCustody == Spec => MessageCustody
<1>1. Init => CustodyOf!Init
  <2> SUFFICES ASSUME Init PROVE CustodyOf!Init
    OBVIOUS
  <2>1. /\ Len(msgQueue) = 0 /\ Len(messages) = 0 /\ inHand = Nothing
        /\ handled = {} /\ returned = {}
    BY DEF Init
  <2>2. Held = {} /\ handled \cup returned = {}
    BY <2>1 DEF Held, Queued
  <2> QED
    BY <2>2 DEF CustodyOf!Init
<1>2. ASSUME CustodyInv, [Next]_vars
      PROVE  [CustodyOf!Next]_<<Held, handled \cup returned>>
  <2>1. Moved
    BY <1>2, StepOfCustody DEF CustodyInv
  <2>2. CASE Keeps
    BY <2>2 DEF Keeps, Gone
  <2>3. ASSUME NEW m \in Message, Accepts(m) PROVE CustodyOf!Next
    BY <2>3 DEF Accepts, Gone, CustodyOf!Next, CustodyOf!Accept
  <2>4. ASSUME NEW m \in Message, Settles(m) PROVE CustodyOf!Next
    <3>1. {m} \in SUBSET Held /\ CustodyOf!Settle({m})
      BY <2>4 DEF Settles, Gone, CustodyOf!Settle
    <3> QED
      BY <3>1 DEF CustodyOf!Next
  <2> QED
    BY <2>1, <2>2, <2>3, <2>4 DEF Moved
<1> QED
  BY <1>1, <1>2, CustodyInvInit, CustodyInvNext, PTL
     DEF Spec, MessageCustody, CustodyOf!Spec

-----------------------------------------------------------------------------
(***************************************************************************)
(* Answers.  A step ends at most one command, that of a thread in the      *)
(* course of it.                                                           *)
(***************************************************************************)
Ends(t, how) ==
  /\ pc[t] \in InCommand
  /\ FinishCommand(t, how) /\ nextCmd' = nextCmd
  /\ \/ how # "answered" /\ answer' = answer
     \/ how = "answered" /\ TakeAnswer(t)

LEMMA OutcomeSteps ==
  ASSUME [Next]_vars
  PROVE  \/ outcome' = outcome /\ answer' = answer
         \/ \E t \in Threads : TakeAnswer(t) \/ CommandTimeout(t) \/ WriteFails(t) \/ EnterWait(t)
                                 \/ BeginSend(t)
<1>1. ASSUME NEW t \in Threads, BeginCommand(t) \/ CommandStep(t) \/ BeginSend(t) \/ SendStep(t)
      PROVE  \/ outcome' = outcome /\ answer' = answer
             \/ TakeAnswer(t) \/ CommandTimeout(t) \/ WriteFails(t) \/ EnterWait(t) \/ BeginSend(t)
  BY <1>1 DEF CommandStep, BeginCommand, AcquireTx, SetCommandFilter, WriteHeader, WritePayload,
              Write, SendStep, SendHeader, SendPayload, SendFails, Raises, history
<1> QED
  BY <1>1
     DEF Next, WaitStep, BeginWait, TakePacket, WaitTimeout, DispatchQueued, CallbackSends,
         CallbackReturns, Receive, Store, Process, HandlerReturns, BeginClose, EndClose,
         FirmwareAnswers, FirmwareIgnores, FirmwareResyncs, FirmwareSendsPacket, vars, history

LEMMA OutcomeNext ==
  ASSUME [Next]_vars
  PROVE  \/ outcome' = outcome /\ answer' = answer
         \/ \E t \in Threads : \E how \in {"answered", "timeout", "error", "disconnected"} :
              Ends(t, how)
         \/ \E t \in Threads : BeginSend(t)
<1>1. ASSUME NEW t \in Threads, TakeAnswer(t) PROVE Ends(t, "answered")
  BY <1>1 DEF TakeAnswer, Ends, InCommand, counters
<1>2. ASSUME NEW t \in Threads, CommandTimeout(t) PROVE Ends(t, "timeout")
  BY <1>2 DEF CommandTimeout, Ends, InCommand, counters
<1>3. ASSUME NEW t \in Threads, WriteFails(t) PROVE Ends(t, "error")
  BY <1>3 DEF WriteFails, Raises, Ends, InCommand
<1>4. ASSUME NEW t \in Threads, EnterWait(t)
      PROVE  Ends(t, "disconnected") \/ (outcome' = outcome /\ answer' = answer)
  <2>1. pc[t] \in InCommand /\ answer' = answer /\ nextCmd' = nextCmd
    BY <1>4 DEF EnterWait, InCommand, counters
  <2>2. FinishCommand(t, "disconnected") \/ outcome' = outcome
    BY <1>4 DEF EnterWait
  <2> QED
    BY <2>1, <2>2 DEF Ends
<1> QED
  BY <1>1, <1>2, <1>3, <1>4, OutcomeSteps

\* What a command returned has been handed over.
AnswerGone == \A n \in Commands : outcome[n] = "answered" => answer[n] \in returned

OnceInv == CustodyInv /\ AnswerGone /\ AnsweredOnce

LEMMA ReturnedGrows == TypeInv /\ [Next]_vars => returned \subseteq returned'
<1> SUFFICES ASSUME [Next]_vars PROVE returned \subseteq returned'
  OBVIOUS
<1>1. ASSUME NEW t \in Threads, BeginCommand(t) \/ CommandStep(t) \/ BeginSend(t) \/ SendStep(t)
      PROVE  returned \subseteq returned'
  BY <1>1 DEF CommandStep, BeginCommand, AcquireTx, SetCommandFilter, WriteHeader, WritePayload,
              Write, WriteFails, Raises, EnterWait, TakeAnswer, CommandTimeout, BeginSend, SendStep,
              SendHeader, SendPayload, SendFails, history
<1> QED
  BY <1>1
     DEF Next, WaitStep, BeginWait, TakePacket, WaitTimeout, DispatchQueued, CallbackSends,
         CallbackReturns, Receive, Store, Process, HandlerReturns, BeginClose, EndClose,
         FirmwareAnswers, FirmwareIgnores, FirmwareResyncs, FirmwareSendsPacket, vars, history

LEMMA AnswerTypes ==
  TypeInv => /\ outcome \in [Commands -> {"none", "sent", "answered", "timeout", "error", "disconnected"}]
             /\ answer \in [Commands -> Message \cup {NoMessage}]
  BY DEF TypeInv, TypeOK

LEMMA OnceInvNext == OnceInv /\ [Next]_vars => OnceInv'
<1> SUFFICES ASSUME OnceInv, [Next]_vars PROVE OnceInv'
  OBVIOUS
<1>1. CustodyInv' /\ TypeInv /\ AnswerGone /\ AnsweredOnce /\ returned \subseteq returned'
  BY CustodyInvNext, ReturnedGrows DEF OnceInv, CustodyInv, FrameInv
<1>2. CASE outcome' = outcome /\ answer' = answer
  BY <1>1, <1>2 DEF OnceInv, AnswerGone, AnsweredOnce
<1>3. ASSUME NEW t \in Threads, NEW how \in {"answered", "timeout", "error", "disconnected"},
             Ends(t, how)
      PROVE  AnswerGone' /\ AnsweredOnce'
  <2>1. /\ cmd[t] \in Commands /\ outcome' = [outcome EXCEPT ![cmd[t]] = how]
        /\ outcome'[cmd[t]] = how /\ \A n \in Commands : n # cmd[t] => outcome'[n] = outcome[n]
    BY <1>1, <1>3, CommandTypes, AnswerTypes DEF Ends, FinishCommand
  <2>2. CASE how # "answered" /\ answer' = answer
    BY <1>1, <2>1, <2>2 DEF AnswerGone, AnsweredOnce
  <2>3. CASE TakeAnswer(t)
    <3> DEFINE m == Head(msgQueue)
    <3>1. /\ msgQueue # <<>> /\ returned' = returned \cup {m}
          /\ answer' = [answer EXCEPT ![cmd[t]] = m]
      BY <2>3 DEF TakeAnswer
    <3>2. m \in Held
      BY <1>1, <3>1, QueueTypes, TailQueued, PlacesOf
    <3>3. m \notin returned
      BY <3>2 DEF OnceInv, CustodyInv, OnePlace, Gone
    <3> HIDE DEF m
    <3>4. answer'[cmd[t]] = m /\ \A n \in Commands : n # cmd[t] => answer'[n] = answer[n]
      BY <1>1, <2>1, <3>1, AnswerTypes
    <3>5. AnswerGone'
      BY <1>1, <2>1, <3>1, <3>4 DEF AnswerGone
    <3>6. AnsweredOnce'
      BY <1>1, <2>1, <3>3, <3>4 DEF AnswerGone, AnsweredOnce
    <3> QED
      BY <3>5, <3>6
  <2> QED
    BY <1>3, <2>2, <2>3 DEF Ends
<1>4. ASSUME NEW t \in Threads, BeginSend(t) PROVE AnswerGone' /\ AnsweredOnce'
  <2>1. /\ outcome' = [outcome EXCEPT ![nextCmd] = "sent"] /\ answer' = answer
    BY <1>4 DEF BeginSend
  <2>2. \A n \in Commands : outcome'[n] = "answered" => outcome[n] = "answered"
    BY <1>1, <2>1, AnswerTypes
  <2> QED
    BY <1>1, <2>1, <2>2 DEF AnswerGone, AnsweredOnce
<1> QED
  BY <1>1, <1>2, <1>3, <1>4, OutcomeNext DEF OnceInv

\* No answer is given to two commands, whatever commands time out and
\* however late their answers come.
THEOREM OnlyOnce == Spec => []AnsweredOnce
<1>1. Init => OnceInv
  <2>1. Init => AnswerGone /\ AnsweredOnce
    BY DEF Init, AnswerGone, AnsweredOnce
  <2> QED
    BY <2>1, CustodyInvInit DEF OnceInv
<1>2. OnceInv => AnsweredOnce
  BY DEF OnceInv
<1> QED
  BY <1>1, <1>2, OnceInvNext, PTL DEF Spec

-----------------------------------------------------------------------------
(***************************************************************************)
(* Whose answer.  A command that ended otherwise than by a timeout or an   *)
(* answer leaves no answer behind: after a write error there never is one, *)
(* and a device found closed with nothing queued receives nothing more.    *)
(***************************************************************************)
Outcomes ==
  /\ \A t \in Threads : pc[t] \in InCommand => outcome[cmd[t]] = "none"
  /\ \A t \in Threads : pc[t] \in InSend => outcome[cmd[t]] = "sent"
  /\ \A n \in Commands : n >= nextCmd => outcome[n] = "none"

NothingLate ==
  /\ \A n \in Commands : outcome[n] = "error" => ~Visible(n)
  /\ \A n \in Commands : outcome[n] = "disconnected" => ~opened /\ Result(n) \notin Queued(msgQueue)
  /\ ~opened => inHand = Nothing

WhoseInv == OnceInv /\ AnswerInv /\ Outcomes /\ NothingLate /\ AnswerBelongs

LEMMA OutcomesNext ==
  ASSUME FrameInv, Numbering, Outcomes, [Next]_vars
  PROVE  /\ Outcomes'
         /\ \A n \in Commands : outcome[n] # "none" => outcome'[n] = outcome[n]
<1>0. /\ pc \in [Threads -> Labels]
      /\ cmd \in [Threads -> 0..MaxCommands]
      /\ outcome \in [Commands -> {"none", "sent", "answered", "timeout", "error", "disconnected"}]
      /\ \A t \in Threads : pc[t] \in Working => cmd[t] \in Commands
      /\ Clients \subseteq Threads /\ MsgThread \in Threads
      /\ \A t \in Threads : Home(t) \notin Working
      /\ nextCmd \in Nat /\ Commands \subseteq Nat \ {0}
      /\ InCommand \subseteq Working /\ InSend \subseteq Working /\ InCommand \cap InSend = {}
  BY CommandTypes, Bounds DEF FrameInv, TypeInv, TypeOK, Home, Working, InCommand, InSend
\* A step that sends nothing new and gives no outcome to a message in progress.
<1>1. ASSUME nextCmd' = nextCmd,
             \A u \in Threads : /\ pc'[u] \in InCommand => pc[u] \in InCommand
                                /\ pc'[u] \in InSend => pc[u] \in InSend
                                /\ pc'[u] \in Working =>
                                     cmd'[u] = cmd[u] /\ outcome'[cmd[u]] = outcome[cmd[u]],
             \A n \in Commands : n >= nextCmd => outcome'[n] = outcome[n]
      PROVE  Outcomes'
  BY <1>0, <1>1 DEF Outcomes
<1>2. ASSUME NEW t \in Threads, NEW how \in {"answered", "timeout", "error", "disconnected"},
             Ends(t, how)
      PROVE  /\ Outcomes'
             /\ \A n \in Commands : outcome[n] # "none" => outcome'[n] = outcome[n]
  <2>1. /\ pc' = [pc EXCEPT ![t] = Home(t)] /\ cmd' = [cmd EXCEPT ![t] = 0]
        /\ outcome' = [outcome EXCEPT ![cmd[t]] = how] /\ pc[t] \in InCommand
        /\ cmd[t] \in Commands /\ outcome[cmd[t]] = "none" /\ cmd[t] < nextCmd
    BY <1>0, <1>2 DEF Ends, FinishCommand, Goto, Outcomes, Numbering, NumberedOnce
  <2>2. nextCmd' = nextCmd
    BY <1>2 DEF Ends
  <2>3. \A u \in Threads : pc'[u] \in Working => u # t /\ pc'[u] = pc[u] /\ cmd[u] # cmd[t]
    BY <1>0, <2>1 DEF Numbering, NumberedOnce
  <2>4. \A u \in Threads : pc'[u] \in Working => cmd'[u] = cmd[u] /\ outcome'[cmd[u]] = outcome[cmd[u]]
    BY <1>0, <2>1, <2>3
  <2>5. \A n \in Commands : n >= nextCmd => outcome'[n] = outcome[n]
    BY <1>0, <2>1
  <2>6. \A n \in Commands : outcome[n] # "none" => outcome'[n] = outcome[n]
    BY <1>0, <2>1
  <2>7. Outcomes'
    BY <1>0, <1>1, <2>2, <2>3, <2>4, <2>5
  <2> QED
    BY <2>6, <2>7
<1>3. ASSUME NEW t \in Threads, BeginSend(t) \/ (BeginCommand(t) /\ outcome' = outcome)
      PROVE  /\ Outcomes'
             /\ \A n \in Commands : outcome[n] # "none" => outcome'[n] = outcome[n]
  <2>1. /\ cmd' = [cmd EXCEPT ![t] = nextCmd]
        /\ nextCmd' = nextCmd + 1 /\ nextCmd \in Commands
        /\ \/ pc' = [pc EXCEPT ![t] = "lock"] /\ outcome' = outcome
           \/ pc' = [pc EXCEPT ![t] = "sendHeader"] /\ outcome' = [outcome EXCEPT ![nextCmd] = "sent"]
    BY <1>0, <1>3, Bounds DEF BeginCommand, BeginSend, Goto, FrameInv, TypeInv, TypeOK, Commands
  <2>2. outcome[nextCmd] = "none"
    BY <1>0, <2>1 DEF Outcomes
  <2>3. \A n \in Commands : n # nextCmd => outcome'[n] = outcome[n]
    BY <1>0, <2>1
  <2>4. \A u \in Threads : u # t => /\ pc'[u] = pc[u] /\ cmd'[u] = cmd[u]
                                    /\ pc[u] \in Working => outcome'[cmd[u]] = outcome[cmd[u]]
    <3>1. \A u \in Threads : cmd[u] < nextCmd
      BY DEF Numbering, NumberedOnce
    <3> QED
      BY <1>0, <2>1, <2>3, <3>1
  <2>5. /\ pc'[t] \in InCommand => outcome'[cmd'[t]] = "none"
        /\ pc'[t] \in InSend => outcome'[cmd'[t]] = "sent"
    BY <1>0, <2>1, <2>2 DEF InCommand, InSend
  <2>6. \A u \in Threads : /\ pc'[u] \in InCommand => outcome'[cmd'[u]] = "none"
                           /\ pc'[u] \in InSend => outcome'[cmd'[u]] = "sent"
    BY <1>0, <2>4, <2>5 DEF Outcomes
  <2>7. \A n \in Commands : n >= nextCmd' => outcome'[n] = "none"
    BY <1>0, <2>1, <2>3 DEF Outcomes
  <2> QED
    BY <2>2, <2>3, <2>6, <2>7 DEF Outcomes
<1>4. ASSUME outcome' = outcome PROVE Outcomes'
  <2>1. ASSUME nextCmd' = nextCmd,
               \A u \in Threads : /\ pc'[u] \in InCommand => pc[u] \in InCommand
                                  /\ pc'[u] \in InSend => pc[u] \in InSend
                                  /\ pc'[u] \in Working => cmd'[u] = cmd[u]
        PROVE  Outcomes'
    BY <1>1, <1>4, <2>1
  <2>2. ASSUME NEW t \in Threads, CommandStep(t) PROVE Outcomes'
    <3>1. nextCmd' = nextCmd /\ pc[t] \in InCommand
      BY <2>2 DEF CommandStep, AcquireTx, SetCommandFilter, WriteHeader, WritePayload, Write,
                  WriteFails, Raises, EnterWait, TakeAnswer, CommandTimeout, counters, InCommand
    <3>2. \/ pc' = [pc EXCEPT ![t] = Home(t)] /\ cmd' = [cmd EXCEPT ![t] = 0]
          \/ cmd' = cmd /\ \E to \in InCommand : pc' = [pc EXCEPT ![t] = to]
      BY <2>2 DEF CommandStep, AcquireTx, SetCommandFilter, WriteHeader, WritePayload, Write,
                  WriteFails, EnterWait, TakeAnswer, CommandTimeout, FinishCommand, Goto, InCommand
    <3> QED
      BY <1>0, <2>1, <3>1, <3>2
  <2>3. ASSUME NEW t \in Threads, SendStep(t) PROVE Outcomes'
    <3>1. nextCmd' = nextCmd /\ pc[t] \in InSend
      BY <2>3 DEF SendStep, SendHeader, SendPayload, SendFails, Write, Raises, counters, InSend
    <3>2. \/ pc' = [pc EXCEPT ![t] = Home(t)] /\ cmd' = [cmd EXCEPT ![t] = 0]
          \/ cmd' = cmd /\ \E to \in InSend : pc' = [pc EXCEPT ![t] = to]
      BY <2>3 DEF SendStep, SendHeader, SendPayload, SendFails, FinishSend, Goto, InSend
    <3> QED
      BY <1>0, <2>1, <3>1, <3>2
  <2>4. ASSUME NEW t \in Threads, NEW to, pc' = [pc EXCEPT ![t] = to], to \notin Working,
               cmd' = cmd, nextCmd' = nextCmd
        PROVE  Outcomes'
    BY <1>0, <2>1, <2>4
  <2>5. ASSUME NEW c \in Clients, BeginWait(c) \/ WaitStep(c) PROVE Outcomes'
    <3>1. /\ nextCmd' = nextCmd /\ cmd' = cmd
          /\ \E to \in {"idle", "wait"} : pc' = [pc EXCEPT ![c] = to]
      BY <2>5 DEF BeginWait, WaitStep, TakePacket, WaitTimeout, FinishWait, Goto, counters
    <3> QED
      BY <1>0, <2>4, <3>1 DEF Working, InCommand, InSend
  <2>6. ASSUME Process \/ HandlerReturns PROVE Outcomes'
    <3>1. /\ nextCmd' = nextCmd /\ cmd' = cmd
          /\ \E to \in {"idle", "handler"} : pc' = [pc EXCEPT ![MsgThread] = to]
      BY <2>6 DEF Process, HandlerReturns, Goto, counters
    <3> QED
      BY <1>0, <2>4, <3>1 DEF Working, InCommand, InSend
  <2>7. ASSUME NEW t \in Threads, DispatchQueued(t) \/ CallbackSends(t) \/ CallbackReturns(t)
        PROVE  Outcomes'
    <3>1. /\ cmd' = cmd /\ nextCmd' = nextCmd
          /\ \E to : /\ pc' = [pc EXCEPT ![t] = to]
                     /\ \/ pc[t] \in {"get", "callback"} /\ to \in {"get", "callback", "relock"}
                        \/ to \in {"wait", "upcall"}
      BY <2>7 DEF DispatchQueued, CallbackSends, CallbackReturns, Goto, counters
    <3>2. CASE \E to \in {"wait", "upcall"} : pc' = [pc EXCEPT ![t] = to]
      BY <2>4, <3>1, <3>2 DEF Working, InCommand, InSend
    <3>3. CASE /\ pc[t] \in {"get", "callback"}
               /\ \E to \in {"get", "callback", "relock"} : pc' = [pc EXCEPT ![t] = to]
      <4>1. pc[t] \in InCommand /\ pc'[t] \in InCommand /\ \A u \in Threads : u # t => pc'[u] = pc[u]
        BY <1>0, <3>3 DEF InCommand
      <4> QED
        BY <1>0, <2>1, <3>1, <4>1
    <3> QED
      BY <3>1, <3>2, <3>3
  <2>8. ASSUME pc' = pc, cmd' = cmd, nextCmd' = nextCmd PROVE Outcomes'
    BY <2>1, <2>8
  <2> QED
    BY <1>3, <1>4, <2>2, <2>3, <2>5, <2>6, <2>7, <2>8
       DEF Next, Receive, Store, BeginClose, EndClose, FirmwareAnswers, FirmwareIgnores,
           FirmwareResyncs, FirmwareSendsPacket, vars, hostVars, counters
<1> QED
  BY <1>2, <1>3, <1>4, OutcomeNext

\* Which step gives a command its outcome.
LEMMA ErrorOf ==
  ASSUME FrameInv, Outcomes, [Next]_vars, NEW n \in Commands, outcome'[n] = "error",
         outcome[n] # "error"
  PROVE  \E t \in Threads : WriteFails(t) /\ cmd[t] = n /\ outcome[n] = "none"
<1>0. TypeInv
  BY DEF FrameInv
<1>1. ASSUME NEW t \in Threads, EnterWait(t) \/ TakeAnswer(t) \/ CommandTimeout(t)
      PROVE  outcome'[n] # "error"
  <2>1. outcome' = outcome \/ \E how \in {"disconnected", "answered", "timeout"} :
                                outcome' = [outcome EXCEPT ![cmd[t]] = how]
    BY <1>1 DEF EnterWait, TakeAnswer, CommandTimeout, FinishCommand
  <2> QED
    BY <1>0, <2>1, AnswerTypes
<1>2. ASSUME NEW t \in Threads, WriteFails(t) PROVE cmd[t] = n /\ outcome[n] = "none"
  <2>1. outcome' = [outcome EXCEPT ![cmd[t]] = "error"] /\ pc[t] \in InCommand
    BY <1>2 DEF WriteFails, FinishCommand, InCommand
  <2> QED
    BY <1>0, <2>1, AnswerTypes DEF Outcomes
<1>3. outcome' # outcome
  OBVIOUS
<1>4. ASSUME NEW t \in Threads, BeginSend(t) PROVE outcome'[n] # "error"
  <2>1. outcome' = [outcome EXCEPT ![nextCmd] = "sent"]
    BY <1>4 DEF BeginSend
  <2> QED
    BY <1>0, <2>1, AnswerTypes
<1> QED
  BY <1>1, <1>2, <1>3, <1>4, OutcomeSteps

LEMMA ClosedOf ==
  ASSUME FrameInv, [Next]_vars, NEW n \in Commands, outcome'[n] = "disconnected",
         outcome[n] # "disconnected"
  PROVE  ~opened /\ msgQueue = <<>>
<1>0. TypeInv
  BY DEF FrameInv
<1>1. ASSUME NEW t \in Threads, WriteFails(t) \/ TakeAnswer(t) \/ CommandTimeout(t)
      PROVE  outcome'[n] # "disconnected"
  <2>1. \E how \in {"error", "answered", "timeout"} : outcome' = [outcome EXCEPT ![cmd[t]] = how]
    BY <1>1 DEF WriteFails, TakeAnswer, CommandTimeout, FinishCommand
  <2> QED
    BY <1>0, <2>1, AnswerTypes
<1>2. outcome' # outcome
  OBVIOUS
<1>3. ASSUME NEW t \in Threads, EnterWait(t) PROVE ~opened /\ msgQueue = <<>>
  BY <1>2, <1>3 DEF EnterWait
<1>4. ASSUME NEW t \in Threads, BeginSend(t) PROVE outcome'[n] # "disconnected"
  <2>1. outcome' = [outcome EXCEPT ![nextCmd] = "sent"]
    BY <1>4 DEF BeginSend
  <2> QED
    BY <1>0, <2>1, AnswerTypes
<1> QED
  BY <1>1, <1>2, <1>3, <1>4, OutcomeSteps

\* The queue of a closed device only shrinks, and nothing arrives.
LEMMA NothingLateNext ==
  ASSUME FrameInv, Numbering, Tracked, Outcomes, NothingLate, [Next]_vars
  PROVE  NothingLate'
<1>0. /\ TypeInv /\ pc \in [Threads -> Labels]
      /\ outcome \in [Commands -> {"none", "sent", "answered", "timeout", "error", "disconnected"}]
      /\ \A t \in Threads : pc[t] \in InCommand => cmd[t] \in Commands
      /\ Commands \subseteq Nat \ {0}
  BY CommandTypes, Bounds DEF FrameInv
<1>1. (~opened => ~opened') /\ (~opened' => inHand' = Nothing)
  <2>1. CASE Receive
    BY <2>1 DEF Receive
  <2>2. CASE Store
    BY <2>2 DEF Store, NothingLate
  <2>3. CASE EndClose
    BY <2>3 DEF EndClose, queues
  <2>4. CASE opened' = opened /\ inHand' = inHand
    BY <2>4 DEF NothingLate
  <2>5. ASSUME NEW t \in Threads, BeginCommand(t) \/ CommandStep(t) \/ BeginSend(t) \/ SendStep(t)
        PROVE  opened' = opened /\ inHand' = inHand
    BY <2>5
       DEF CommandStep, BeginCommand, AcquireTx, SetCommandFilter, WriteHeader, WritePayload, Write,
           WriteFails, Raises, EnterWait, TakeAnswer, CommandTimeout, BeginSend, SendStep,
           SendHeader, SendPayload, SendFails, queues
  <2> QED
    BY <2>1, <2>2, <2>3, <2>4, <2>5
       DEF Next, WaitStep, BeginWait, TakePacket, WaitTimeout, DispatchQueued, CallbackSends,
           CallbackReturns, Process, HandlerReturns, BeginClose, FirmwareAnswers, FirmwareIgnores,
           FirmwareResyncs, FirmwareSendsPacket, vars, queues
<1>2. ~opened => Queued(msgQueue') \subseteq Queued(msgQueue)
  <2>1. CASE \E t \in Threads : TakeAnswer(t) \/ TakePacket(t) \/ DispatchQueued(t)
    <3>1. msgQueue # <<>> /\ msgQueue' = Tail(msgQueue)
      BY <2>1 DEF TakeAnswer, TakePacket, DispatchQueued
    <3> QED
      BY <1>0, <3>1, QueueTypes, TailQueued
  <2>2. CASE Store
    BY <2>2 DEF Store, NothingLate
  <2>3. CASE msgQueue' = msgQueue
    BY <2>3
  <2>4. ASSUME NEW t \in Threads, BeginCommand(t) \/ CommandStep(t) \/ BeginSend(t) \/ SendStep(t)
        PROVE  msgQueue' = msgQueue \/ TakeAnswer(t)
    BY <2>4
       DEF CommandStep, BeginCommand, AcquireTx, SetCommandFilter, WriteHeader, WritePayload, Write,
           WriteFails, Raises, EnterWait, CommandTimeout, BeginSend, SendStep, SendHeader,
           SendPayload, SendFails, queues
  <2> QED
    BY <2>1, <2>2, <2>3, <2>4
       DEF Next, WaitStep, BeginWait, WaitTimeout, CallbackSends, CallbackReturns, Receive, Process,
           HandlerReturns, BeginClose, EndClose, FirmwareAnswers, FirmwareIgnores, FirmwareResyncs,
           FirmwareSendsPacket, vars, queues, Threads
<1>3. ASSUME NEW n \in Commands, outcome'[n] = "error" PROVE ~Visible(n)'
  <2>1. CASE outcome[n] = "error"
    <3>1. ~Visible(n) /\ \A t \in Threads : WritePayload(t) \/ SendPayload(t) => cmd[t] # n
      BY <2>1 DEF NothingLate, Outcomes, WritePayload, SendPayload, InCommand, InSend
    <3> QED
      BY <1>0, <3>1, VisibleNext
  <2>2. CASE outcome[n] # "error"
    <3>1. PICK t \in Threads : WriteFails(t) /\ cmd[t] = n /\ outcome[n] = "none"
      BY <1>0, <1>3, <2>2, ErrorOf
    <3>2. pc[t] \in {"header", "payload"} /\ line' = line
          /\ wire' = wire /\ msgQueue' = msgQueue /\ inHand' = inHand
      BY <3>1 DEF WriteFails, Raises, queues
    <3>3. \A u \in Threads : cmd[u] = n => u = t
      BY <1>0, <3>1 DEF Numbering, NumberedOnce
    <3>4. ~Visible(n)
      BY <3>1, <3>2, <3>3 DEF Tracked, Awaited, Expecting
    <3> QED
      BY <3>2, <3>4 DEF Visible, Queued
  <2> QED
    BY <2>1, <2>2
<1>4. ASSUME NEW n \in Commands, outcome'[n] = "disconnected"
      PROVE  ~opened' /\ Result(n) \notin Queued(msgQueue')
  <2>1. CASE outcome[n] = "disconnected"
    BY <1>1, <1>2, <2>1 DEF NothingLate
  <2>2. CASE outcome[n] # "disconnected"
    <3>1. ~opened /\ msgQueue = <<>>
      BY <1>0, <1>4, <2>2, ClosedOf
    <3>2. Queued(msgQueue) = {}
      BY <3>1, EmptySeq DEF Queued
    <3> QED
      BY <1>1, <1>2, <3>1, <3>2
  <2> QED
    BY <2>1, <2>2
<1> QED
  BY <1>1, <1>3, <1>4 DEF NothingLate, Queued

\* The answer taken is the caller's own, or one nobody waits for.
LEMMA TakenAnswer ==
  ASSUME WhoseInv, NEW t \in Threads, TakeAnswer(t)
  PROVE  /\ cmd[t] \in Commands /\ outcome[cmd[t]] = "none"
         /\ \E k \in Commands :
              /\ Head(msgQueue) = Result(k)
              /\ \/ k = cmd[t]
                 \/ /\ Unawaited(k) \/ outcome[k] = "answered"
                    /\ \E j \in Commands : j # cmd[t] /\ Unawaited(j)
<1>0. /\ TypeInv /\ TxExclusive /\ Tracked /\ FilterKept /\ OnePlace
      /\ AnswerBelongs /\ AnswerGone /\ NothingLate /\ Outcomes
      /\ outcome \in [Commands -> {"none", "sent", "answered", "timeout", "error", "disconnected"}]
  BY AnswerTypes DEF WhoseInv, OnceInv, CustodyInv, AnswerInv, FrameInv
<1>1. /\ pc[t] = "get" /\ msgQueue # <<>> /\ Head(msgQueue).kind = "result"
      /\ cmd[t] \in Commands /\ outcome[cmd[t]] = "none"
  BY <1>0, CommandTypes
     DEF TakeAnswer, Matches, FilterKept, Filtering, Expecting, Outcomes, InCommand
<1>2. Head(msgQueue) \in Queued(msgQueue) /\ Head(msgQueue) \in Message
  BY <1>0, <1>1, QueueTypes, TailQueued, HeadTailProperties
<1>3. PICK k \in Commands : Head(msgQueue) = Result(k)
  BY <1>1, <1>2 DEF Message, Packet
<1>4. Visible(k) /\ Result(k) \in Held
  BY <1>2, <1>3, PlacesOf DEF Visible
<1>5. CASE outcome[k] = "none"
  <2>1. PICK u \in Threads : cmd[u] = k /\ pc[u] \in Expecting
    BY <1>0, <1>4, <1>5 DEF Tracked, Awaited
  <2>2. u = t
    BY <1>0, <1>1, <2>1 DEF TxExclusive, Holding, Expecting
  <2> QED
    BY <1>1, <1>3, <2>1, <2>2
<1>6. CASE Unawaited(k)
  <2>1. k # cmd[t]
    BY <1>1, <1>6 DEF Unawaited
  <2> QED
    BY <1>1, <1>3, <1>6, <2>1
<1>7. CASE outcome[k] = "answered"
  <2>1. answer[k] # Result(k)
    BY <1>0, <1>4, <1>7 DEF AnswerGone, OnePlace, Gone
  <2>2. PICK j \in Commands : Unawaited(j)
    BY <1>0, <1>7, <2>1 DEF AnswerBelongs
  <2>3. j # cmd[t]
    BY <1>1, <2>2 DEF Unawaited
  <2> QED
    BY <1>1, <1>3, <1>7, <2>2, <2>3
<1>8. CASE outcome[k] \in {"error", "disconnected"}
  BY <1>0, <1>2, <1>3, <1>4, <1>8 DEF NothingLate
<1> QED
  BY <1>0, <1>5, <1>6, <1>7, <1>8 DEF Unawaited

LEMMA BelongsNext ==
  ASSUME WhoseInv, [Next]_vars
  PROVE  AnswerBelongs'
<1> DEFINE Own(n) == answer'[n] = Result(n)
           Late(n) == /\ \E j \in Commands : j # n /\ Unawaited(j)'
                      /\ \E k \in Commands :
                           answer'[n] = Result(k) /\ (Unawaited(k)' \/ outcome'[k] = "answered")
<1>0. /\ TypeInv /\ AnswerBelongs /\ Outcomes
      /\ \A n \in Commands : outcome[n] # "none" => outcome'[n] = outcome[n]
  BY OutcomesNext DEF WhoseInv, OnceInv, CustodyInv, FrameInv
<1>1. \A n \in Commands : /\ Unawaited(n) => Unawaited(n)'
                          /\ outcome[n] = "answered" => outcome'[n] = "answered"
  BY <1>0 DEF Unawaited
<1>2. ASSUME NEW n \in Commands, outcome[n] = "answered", answer'[n] = answer[n]
      PROVE  Own(n) \/ Late(n)
  <2>1. CASE answer[n] = Result(n)
    BY <1>2, <2>1
  <2>2. CASE answer[n] # Result(n)
    <3>1. PICK j \in Commands : j # n /\ Unawaited(j)
      BY <1>0, <1>2, <2>2 DEF AnswerBelongs
    <3>2. PICK k \in Commands : answer[n] = Result(k) /\ (Unawaited(k) \/ outcome[k] = "answered")
      BY <1>0, <1>2, <2>2 DEF AnswerBelongs
    <3>3. Unawaited(j)' /\ (Unawaited(k)' \/ outcome'[k] = "answered")
      BY <1>1, <3>1, <3>2
    <3> QED
      BY <1>2, <3>1, <3>2, <3>3
  <2> QED
    BY <2>1, <2>2
<1>3. SUFFICES ASSUME NEW n \in Commands, outcome'[n] = "answered" PROVE Own(n) \/ Late(n)
  BY DEF AnswerBelongs
<1>4. CASE outcome' = outcome /\ answer' = answer
  BY <1>2, <1>3, <1>4
<1>5. ASSUME NEW t \in Threads, BeginSend(t) PROVE Own(n) \/ Late(n)
  <2>1. outcome' = [outcome EXCEPT ![nextCmd] = "sent"] /\ answer' = answer
    BY <1>5 DEF BeginSend
  <2>2. outcome[n] = "answered"
    BY <1>0, <1>3, <2>1, AnswerTypes
  <2> QED
    BY <1>2, <2>1, <2>2
<1>6. ASSUME NEW t \in Threads, NEW how \in {"answered", "timeout", "error", "disconnected"},
             Ends(t, how)
      PROVE  Own(n) \/ Late(n)
  <2>1. /\ cmd[t] \in Commands /\ outcome'[cmd[t]] = how
        /\ n # cmd[t] => outcome[n] = "answered"
    BY <1>0, <1>3, <1>6, CommandTypes, AnswerTypes DEF Ends, FinishCommand
  <2>2. CASE how # "answered" /\ answer' = answer
    BY <1>2, <1>3, <2>1, <2>2
  <2>3. CASE how = "answered" /\ TakeAnswer(t)
    <3>1. answer' = [answer EXCEPT ![cmd[t]] = Head(msgQueue)]
      BY <2>3 DEF TakeAnswer
    <3>2. answer'[cmd[t]] = Head(msgQueue) /\ (n # cmd[t] => answer'[n] = answer[n])
      BY <1>0, <2>1, <3>1, AnswerTypes
    <3>3. PICK k \in Commands : /\ Head(msgQueue) = Result(k)
                                /\ \/ k = cmd[t]
                                   \/ /\ Unawaited(k) \/ outcome[k] = "answered"
                                      /\ \E j \in Commands : j # cmd[t] /\ Unawaited(j)
      BY <2>3, TakenAnswer
    <3>4. CASE n = cmd[t] /\ k = cmd[t]
      BY <3>2, <3>3, <3>4
    <3>5. CASE n = cmd[t] /\ k # cmd[t]
      <4>1. Unawaited(k)' \/ outcome'[k] = "answered"
        BY <1>1, <3>3, <3>5
      <4>2. \E j \in Commands : j # n /\ Unawaited(j)'
        BY <1>1, <3>3, <3>5
      <4> QED
        BY <3>2, <3>3, <3>5, <4>1, <4>2
    <3>6. CASE n # cmd[t]
      BY <1>2, <2>1, <3>2, <3>6
    <3> QED
      BY <3>4, <3>5, <3>6
  <2> QED
    BY <1>6, <2>2, <2>3 DEF Ends
<1> QED
  BY <1>4, <1>5, <1>6, OutcomeNext

LEMMA WhoseInvInit == Init => WhoseInv
<1> SUFFICES ASSUME Init PROVE WhoseInv
  OBVIOUS
<1>1. /\ outcome = [n \in Commands |-> "none"] /\ opened = TRUE
      /\ \A t \in Threads : pc[t] = "idle"
  BY DEF Init
<1>2. AnswerGone /\ AnsweredOnce /\ AnswerBelongs /\ NothingLate
  BY <1>1 DEF AnswerGone, AnsweredOnce, AnswerBelongs, NothingLate
<1>3. Outcomes
  BY <1>1 DEF Outcomes, InCommand, InSend
<1> QED
  BY <1>2, <1>3, CustodyInvInit, AnswerInvInit DEF WhoseInv, OnceInv

\* As long as no thread waits for packets while another sends commands, a
\* command returns its own answer or, after a timeout or a message sent
\* without waiting, an answer nobody waits for any more: never a packet, nor
\* an answer still waited for.
THEOREM WhoseAnswer ==
  ASSUME ~SharedWait
  PROVE  Spec => []AnswerBelongs
<1>1. WhoseInv => AnswerBelongs
  BY DEF WhoseInv
<1>2. WhoseInv /\ [Next]_vars => WhoseInv'
  <2> SUFFICES ASSUME WhoseInv, [Next]_vars PROVE WhoseInv'
    OBVIOUS
  <2>1. FrameInv /\ Numbering /\ Tracked /\ Outcomes /\ NothingLate
    BY DEF WhoseInv, OnceInv, CustodyInv, AnswerInv
  <2>2. OnceInv' /\ AnswerInv'
    BY OnceInvNext, AnswerInvNext DEF WhoseInv
  <2>3. Outcomes' /\ NothingLate' /\ AnswerBelongs'
    BY <2>1, OutcomesNext, NothingLateNext, BelongsNext
  <2> QED
    BY <2>2, <2>3 DEF WhoseInv
<1> QED
  BY WhoseInvInit, <1>1, <1>2, PTL DEF Spec

-----------------------------------------------------------------------------
(***************************************************************************)
(* The holders of the locks.                                               *)
(***************************************************************************)
TxHeld == txOwner # NoThread => txOwner \in Threads /\ pc[txOwner] \in Holding

OutputKept == wOwner # NoThread => failures > 0 \/ ~opened

LEMMA TxHeldNext ==
  ASSUME TypeInv, TxExclusive, TxHeld, [Next]_vars
  PROVE  TxHeld'
<1>0. /\ pc \in [Threads -> Labels]
      /\ Clients \subseteq Threads /\ MsgThread \in Threads
      /\ NoThread \notin Threads
      /\ \A t \in Threads : Home(t) \notin Holding
      /\ {"filter", "header", "payload", "enter", "get", "callback", "relock"} = Holding
  BY ThreadAssumption DEF TypeInv, TypeOK, Threads, Home, Holding
<1>1. \A t \in Threads : \A how : FinishCommand(t, how) => TxHeld'
  BY DEF FinishCommand, TxHeld
\* A thread that holds the lock goes on holding it, or another thread moves.
<1>2. ASSUME NEW t \in Threads, NEW to, pc' = [pc EXCEPT ![t] = to], txOwner' = txOwner,
             pc[t] \notin Holding \/ to \in Holding
      PROVE  TxHeld'
  BY <1>0, <1>2 DEF TxHeld
<1>3. ASSUME NEW t \in Threads, BeginCommand(t) PROVE TxHeld'
  <2>1. pc' = [pc EXCEPT ![t] = "lock"] /\ txOwner' = txOwner /\ pc[t] \notin Holding
    BY <1>0, <1>3 DEF BeginCommand, Goto
  <2> QED
    BY <1>2, <2>1
<1>4. ASSUME NEW t \in Threads, AcquireTx(t) PROVE TxHeld'
  BY <1>0, <1>4 DEF AcquireTx, Goto, TxHeld
<1>5. ASSUME NEW t \in Threads, SetCommandFilter(t) PROVE TxHeld'
  <2>1. pc' = [pc EXCEPT ![t] = "header"] /\ txOwner' = txOwner
    BY <1>5 DEF SetCommandFilter, Goto
  <2> QED
    BY <1>0, <1>2, <2>1
<1>6. ASSUME NEW t \in Threads, WriteHeader(t) \/ WritePayload(t) PROVE TxHeld'
  <2>1. \E to \in {"payload", "enter"} : pc' = [pc EXCEPT ![t] = to] /\ txOwner' = txOwner
    BY <1>6 DEF WriteHeader, WritePayload, Write, Goto
  <2> QED
    BY <1>0, <1>2, <2>1
<1>7. ASSUME NEW t \in Threads, WriteFails(t) \/ TakeAnswer(t) \/ CommandTimeout(t) PROVE TxHeld'
  BY <1>1, <1>7 DEF WriteFails, TakeAnswer, CommandTimeout
<1>8. ASSUME NEW t \in Threads, EnterWait(t) PROVE TxHeld'
  <2>1. CASE FinishCommand(t, "disconnected")
    BY <1>1, <2>1
  <2>2. CASE Goto(t, "get") /\ txOwner' = txOwner
    BY <1>0, <1>2, <2>2 DEF Goto
  <2> QED
    BY <1>8, <2>1, <2>2 DEF EnterWait
<1>9. ASSUME NEW c \in Clients, BeginWait(c) \/ WaitStep(c) PROVE TxHeld'
  <2>1. c \in Threads /\ pc[c] \notin Holding /\ txOwner' = txOwner
    BY <1>0, <1>9 DEF BeginWait, WaitStep, TakePacket, WaitTimeout
  <2>2. \E to : pc' = [pc EXCEPT ![c] = to]
    BY <1>9 DEF BeginWait, WaitStep, TakePacket, WaitTimeout, FinishWait, Goto
  <2> QED
    BY <1>2, <2>1, <2>2
<1>10. CASE Process \/ HandlerReturns
  <2>1. pc[MsgThread] \notin Holding /\ txOwner' = txOwner
    BY <1>0, <1>10 DEF Process, HandlerReturns
  <2>2. \E to : pc' = [pc EXCEPT ![MsgThread] = to]
    BY <1>10 DEF Process, HandlerReturns, Goto
  <2> QED
    BY <1>0, <1>2, <2>1, <2>2
<1>11. ASSUME NEW t \in Threads, BeginSend(t) \/ SendStep(t) PROVE TxHeld'
  <2>1. pc[t] \notin Holding /\ txOwner' = txOwner
    BY <1>0, <1>11 DEF BeginSend, SendStep, SendHeader, SendPayload, SendFails, Write, InSend
  <2>2. \E to : pc' = [pc EXCEPT ![t] = to]
    BY <1>11 DEF BeginSend, SendStep, SendHeader, SendPayload, SendFails, FinishSend, Goto
  <2> QED
    BY <1>2, <2>1, <2>2
<1>12. ASSUME NEW t \in Threads, DispatchQueued(t) \/ CallbackSends(t) \/ CallbackReturns(t)
       PROVE  TxHeld'
  <2>1. /\ txOwner' = txOwner
        /\ \E to : /\ pc' = [pc EXCEPT ![t] = to]
                   /\ \/ to \in {"get", "callback", "relock"}
                      \/ pc[t] \in {"wait", "upcall"}
    BY <1>12 DEF DispatchQueued, CallbackSends, CallbackReturns, Goto
  <2>2. {"wait", "upcall"} \cap Holding = {}
    BY DEF Holding
  <2> QED
    BY <1>0, <1>2, <2>1, <2>2
<1>13. CASE pc' = pc /\ txOwner' = txOwner
  BY <1>13 DEF TxHeld
<1> QED
  BY <1>3, <1>4, <1>5, <1>6, <1>7, <1>8, <1>9, <1>10, <1>11, <1>12, <1>13
     DEF Next, CommandStep, Receive, Store, BeginClose, EndClose, FirmwareAnswers,
         FirmwareIgnores, FirmwareResyncs, FirmwareSendsPacket, vars, hostVars

\* Only a write that raises keeps the output lock; a closed device is not
\* opened again, and errors are not forgotten.
LEMMA OutputKeptNext ==
  ASSUME TypeInv, OutputKept, [Next]_vars
  PROVE  OutputKept'
<1>0. failures \in Nat /\ failures' \in Nat
  BY TypeInvNext, Bounds DEF TypeInv, TypeOK
<1>1. CASE wOwner' = wOwner /\ failures' = failures /\ (opened' => opened)
  BY <1>1 DEF OutputKept
<1>2. ASSUME NEW t \in Threads, WriteFails(t) \/ SendFails(t) PROVE OutputKept'
  <2>0. Raises(t)
    BY <1>2 DEF WriteFails, SendFails
  <2>1. CASE opened
    BY <1>0, <2>0, <2>1 DEF Raises, OutputKept
  <2>2. CASE ~opened
    BY <2>0, <2>2 DEF Raises, OutputKept
  <2> QED
    BY <2>1, <2>2
<1>3. ASSUME NEW t \in Threads, CommandStep(t), ~WriteFails(t)
      PROVE  wOwner' = wOwner /\ failures' = failures /\ opened' = opened
  BY <1>3 DEF CommandStep, AcquireTx, SetCommandFilter, WriteHeader, WritePayload, Write, EnterWait,
              TakeAnswer, CommandTimeout, counters
<1>4. ASSUME NEW t \in Threads,
             BeginCommand(t) \/ BeginSend(t) \/ SendHeader(t) \/ SendPayload(t) \/ DispatchQueued(t)
               \/ CallbackSends(t) \/ CallbackReturns(t)
      PROVE  wOwner' = wOwner /\ failures' = failures /\ opened' = opened
  BY <1>4 DEF BeginCommand, BeginSend, SendHeader, SendPayload, Write, DispatchQueued, CallbackSends,
              CallbackReturns, hostVars, counters
<1>5. ASSUME NEW c \in Clients, BeginWait(c) \/ WaitStep(c)
      PROVE  wOwner' = wOwner /\ failures' = failures /\ opened' = opened
  BY <1>5 DEF BeginWait, WaitStep, TakePacket, WaitTimeout, counters
<1>6. CASE Receive \/ Store \/ Process \/ HandlerReturns \/ BeginClose \/ EndClose \/ UNCHANGED vars
  <2>1. wOwner' = wOwner /\ failures' = failures /\ (opened' => opened)
    BY <1>6 DEF Receive, Store, Process, HandlerReturns, BeginClose, EndClose, vars, hostVars, counters
  <2> QED
    BY <1>1, <2>1
<1>7. CASE FirmwareAnswers \/ FirmwareIgnores \/ FirmwareResyncs \/ FirmwareSendsPacket
  <2>1. wOwner' = wOwner /\ failures' = failures /\ opened' = opened
    BY <1>7 DEF FirmwareAnswers, FirmwareIgnores, FirmwareResyncs, FirmwareSendsPacket, hostVars,
                counters
  <2> QED
    BY <1>1, <2>1
<1> QED
  BY <1>1, <1>2, <1>3, <1>4, <1>5, <1>6, <1>7 DEF Next, SendStep

\* send_command never leaves __tx_lock to a thread that is no longer sending,
\* on any of its exits; the only thread that waits for it for good is one that
\* holds it itself, in a callback its own wait has run; only a raised write()
\* keeps __lock.  What CommandReturns and BackgroundDelivered rest on.
THEOREM LocksHeldByRunning == Spec => []LockHoldersRun
<1>1. Init => TypeInv /\ TxExclusive /\ TxHeld /\ OutputKept
  BY FrameInvInit DEF Init, TxHeld, OutputKept, FrameInv
<1>2. TypeInv /\ TxExclusive /\ TxHeld /\ OutputKept /\ [Next]_vars
        => TypeInv' /\ TxExclusive' /\ TxHeld' /\ OutputKept'
  BY TypeInvNext, TxExclusiveNext, TxHeldNext, OutputKeptNext
<1>3. TxExclusive /\ TxHeld /\ OutputKept => LockHoldersRun
  BY DEF TxExclusive, TxHeld, OutputKept, LockHoldersRun, Holding, InCommand
<1> QED
  BY <1>1, <1>2, <1>3, PTL DEF Spec
=============================================================================
