# A TLA+ development of WHAD

WHAD (`src/whad`) is a Python framework that talks to radio devices running a
WHAD firmware: a host opens a device over a serial port or a socket, exchanges
messages with it, and builds the stacks of several wireless protocols on top of
that. This directory holds TLA+ models of its concurrent core, the TLC runs
that check them, and machine-checked proofs. `PROJECT.json` maps every
definition to the lines of code it stands for.

Contents: [the system](#1-the-system), [the modules](#2-the-modules),
[the runs](#3-the-runs), [what disagrees](#4-where-the-code-disagrees-with-what-it-says),
[the proofs](#5-the-proofs), [what is not modelled](#6-what-is-not-modelled),
[the plan](#7-the-plan).

## 1. The system

### Components, their state, and how they interact

| Component | State it keeps | Operations | Interacts by |
|---|---|---|---|
| **Device, messages** (`device/device.py`) | two queues (`__msg_queue`, `__messages`), the queue filter `__mq_filter`, the command lock `__tx_lock`, the output lock `__lock` | `send_command`, `send_message`, `wait_for_message`, `on_message_received`, `process_messages`, `dispatch_message` | called by any application thread; the input thread calls `on_message_received`; the message thread calls the connector |
| **Device, session** (`device/device.py`, `uart.py`, `tcp.py`, `unix.py`) | `__opened`, `__closing`, the I/O thread object (`__alive`, `__disconnected`, `__canceled` of each thread), the transport's own `__opened` | `open`, `close`, `wait`, `join`, `cancel`, `on_disconnection`, the `run` of both threads | starts and joins two threads; the message thread itself closes a device that was lost |
| **Connector** (`device/connector.py`) | `__locked` and `__locked_pdus`, `__synchronous` and `__pending_pdus` | `lock`, `unlock`, `enable_synchronous`, `wait_packet`, `on_packet` | callbacks in the message thread, calls from application threads, no lock |
| **Hub and protocol** (`hub`, `protocol`) | none | parse and build messages | called by the device |
| **Mesh lower transport** (`btmesh/stack/lower_transport`) | per destination: a transaction and a queue; per source: the latest SeqAuth and a transaction | segmentation, retransmission rounds, acknowledgments, reassembly | one thread per message sent, one timer per acknowledgment, one receiving thread |
| **Mesh upper transport, network** (`btmesh/stack/upper_transport`, `network`) | sequence number (in the profile), cache of received PDUs | encryption, sequence numbers, cache, obfuscation, relay | one thread per PDU sent |
| **Mesh provisioning** (`gen_prov`, `pb_adv`, `provisioning`) | transaction in progress, queue of PDUs, link state | start, continuation, acknowledgment, open, close | one thread per link, one thread per PDU |
| **Stack framework** (`common/stack/layer.py`) | layer instances by name, cache of lookups | `instantiate`, `destroy`, `send`, `get_layer` | every stack is built with it |
| **BLE GATT, ATT, L2CAP, LLM, SMP** (`ble/stack`) | procedure lock, transmit lock, response queue, prepared writes, reassembly buffer, connection table, pairing state | client procedures, server handlers, fragmentation, pairing | client procedures in application threads, responses in the message thread |
| **dot15d4, ZigBee, RF4CE** | databases of attributes, pending confirms | primitives of each layer | as BLE |
| **ESB, Unifying, PHY, LoRaWAN** | little | commands and packets | over the connector |
| **Bridge** (`device/bridge.py`) | two connectors | forwards messages both ways | callbacks of both |
| **Tools, CLI** | processes | command line | pipes, sockets |

### What is hard, and what correct means

*Messages.* Four kinds of threads meet in `WhadDevice`: those that send
commands, one that waits for packets, the one that reads the transport and the
one that dispatches. A command must be written in one piece, its answer must go
to its sender, every other message must go to the connector, once; and nobody
may wait for ever, though the firmware may not answer and the message thread
sends commands itself.

*Sessions.* `close()` is called by users, by the message thread when the device
is lost, and by `join()`, which `close()` calls. The reader has to stop before
the connector is told that the device is gone; what was read has to be
dispatched; every `close()` has to return.

*Connector.* Its queues are shared by the message thread and an application
thread, and a flag is tested before the queue it guards is used. Packets must
not be lost, doubled or reordered by these modes.

*Mesh transport.* Segments, acknowledgments and messages are lost, repeated and
reordered; sequence numbers wrap around and must not collide; several threads
work on one transaction without locks. A segment may be withheld only if it was
received, and a message goes up whole, once, in order, rightly dated.

*Provisioning.* Packets are cut in fragments, sent round after round until they
are acknowledged, and both directions share one transaction that two threads
read and write. Packets must cross once, whole and in order; both nodes must
end provisioned with the value the user saw; and a loss must not be fatal.

*GATT.* Procedures of several threads share a queue of responses, two locks, and
an error may mean the request of another. Each must end with the response to its
own request; a value written in pieces must be there whole; nobody may wait for
ever, though the peer does not answer or the connection ends.

*Pairing.* Two state machines exchange PDUs while users type and compare, an
application may start over, and encryption starts in the link layer in the
middle. Keys must not travel in clear, the two sides must store the same bond,
and may call it authenticated only if both users took part.

*L2CAP, stack framework and the rest.* See the hazards of `PROJECT.json`: each is
at its line, with the properties that cover it or the reason why none does.

## 2. The modules

| Module | Stands for | Extends / instantiates |
|---|---|---|
| `Custody` | what device and connector promise of a message: once accepted it is held until it is handed over, once | |
| `DeviceMessages` | commands, waits, routing and dispatch of one open device | `Custody` as refined specification |
| `DeviceIO` | one session: open, threads, loss, close | |
| `Connector` | locked and synchronous modes | `Custody` as refined specification |
| `LowerTransportTx` | sending to one mesh destination | |
| `LowerTransportRx` | receiving from one mesh source | |
| `Pairing` | pairing of a central and a peripheral, with the encryption it ends in | |
| `PairingLesc` | the inductive invariant of pairings with LE Secure Connections (section 5) | `Pairing` |
| `PairingLegacy` | that of legacy pairings which one application asks for (section 5) | `PairingLesc` |
| `Gatt` | GATT procedures of a client's threads, and the server's handlers | |
| `GattTransfers` | the inductive invariant of GATT transfers (section 5) | `Gatt` |
| `OrderedChannel` | what generic provisioning promises: packets cross whole, once, in order | |
| `Provisioning` | provisioning of a mesh node: protocol, transactions, bearer | `OrderedChannel` as refined specification |
| `DeviceMessages_proofs`, `DeviceIO_proofs`, `Connector_proofs`, `LowerTransportTx_proofs`, `LowerTransportRx_proofs`, `Pairing_proofs`, `Gatt_proofs`, `Provisioning_proofs` | the theorems | the module they are about, `TLAPS` |
| `MC...` | instances for TLC | the module they instantiate |

In every module an action is what one thread does between two points at which
another can observe it: taking or releasing a lock, reading or writing a shared
flag or queue, writing to the transport. `Next` interleaves all threads.

A definition commented "Mutant" is a variant of the action that follows it, with
a plausible mistake; `Next` never uses it. It shows that some property depends
on what that action does: with the mutant in its place, TLC finds the property
violated.

### DeviceMessages

A thread is at a program counter `pc`: `lock` (waiting for `__tx_lock`),
`filter`, `header`, `payload` (the two calls of `__write`), `enter` (the test at
the top of `wait_for_message`) and `get` (its blocking read); `wait` is
`wait_for_message` outside a command. `sendHeader` and `sendPayload` are the same
two writes in a `send_message` called directly, as the connector, the bridge and the
server on a Unix socket do: no lock covers that frame, since `__lock` is released
between the two, so that frames may overlap (`overlapped` records it, and
`FirmwareResyncs` is a firmware that finds no frame). A message sent is a
number; a message received is the result of one or a numbered packet; a filter is
the class it keeps, because every filter in use is a `message_filter` on a class.

Connector callbacks run in any thread. The message thread's home is one
(`handler`), from which it may send. A thread that waits dispatches what does not
match its filter itself: outside a command its callback (`upcall`) may send as well;
inside one (`callback`) it holds `__tx_lock`, which is not reentrant, so a callback
that sends a command waits for its own thread (`relock`) and never ends.

The input thread's `on_message_received` is two steps, `Receive` (tests
`__closing` and the filter) and `Store` (puts the message in a queue), since the
filter may change in between. `line` is what has been written to the transport
and not yet read; the firmware is external and reads frames, answers or
does not, and sends packets when it likes. `WriteFails` leaves the output lock
held, as the code does.

`SharedWait` says whether a thread may wait for packets while another sends
commands. There is one filter for the whole device, so the code supports only
the case `FALSE`; the routing property is about that case.

### DeviceIO

`close()` is one action for each flag it reads or writes, so that any number of
closers can be anywhere in it; `join()` is shared by `close()` and `wait()`
(`joinFor` tells which), and its own call to `close()` at the end is modelled
(`AfterJoin`). The serial transport closes its port after the common `close()`,
the sockets before it. `ReadDisconnected` is a `read()` that raises one of the
two exceptions the input thread handles; `ReadRaises` is the `OSError` of a
serial port, which ends the thread without `on_disconnection`. The message
thread drains its queue and then closes the device. `early` records that it did
so before `open()` had marked the session opened.

### Connector

The message thread has one packet in hand, at the step it is at
(`check`, `addLocked`, `packet`, `addPending`, `putPending`, `deliver`, where
`StillSynchronous` is the second test of the mode, before the queue is used); the application
thread goes through `lock`, `unlock` (`drain`, then the same steps for each
queued packet, then `release`) and the two halves of leaving the synchronous
mode. `raced` records that a packet was queued after `unlock()` found the queue
empty, the one case in which the promises do not hold (section 4).

### LowerTransportTx

Messages to one destination. `Submit` is the upper transport layer's reservation
of sequence numbers (4 for an access message, 5 for a control message,
whatever its length) with the lower layer's decision to queue the message or to
start its thread. A thread is in `test` (loop condition and test of
`acked_received`), `start` (reset of `acked_received`, counts), `send` (one
segment a step) or `wait`. The receiving thread's `process_ack` is atomic with
respect to the sending thread at the granularity of these steps. A PDU once sent
may arrive at any time, any number of times or never; the destination accepts a
sequence number once, and acknowledges what it has at any time, or cancels.
Since what it has received shows only in acknowledgments, `PeerAcks` takes the
arrivals since the last one with it: this loses no behaviour the host can see.

Control and multicast messages are segmented by threads that raise at their
first segment (`SendRaises`): they read a `seq_auth` or a `seq_zero` that the
context does not have. An acknowledgment that meets a control transaction raises
in the receiving thread (`AckRaises`), which hears nothing more (`deaf`).

### LowerTransportRx

Messages from one source, whose segments are sent several times with sequence
numbers of their own. `Receive` is the network cache, then the lower
transport's dispatch: an unsegmented message, a segment of a newer message, of
the latest, or of an old one. `SeqAuth` is `calculate_seq_auth`, with the real
width of SeqZero; the IV index is constant. Acknowledgment timers are there
with their event, which nothing sets.

### Pairing

Both sides run this code, on one connection. `sm` is the `SecurityManagerState` of
each side with the `SM_Peer` objects in it, `key` what the link layer has
registered, `session` the key it has given its hardware and `hardware` the one the
hardware encrypts with. The two differ when `set_encryption` fails: the stack drops its
result and the handler goes on, so `SetEncryption` may leave the hardware as it was
(`refused` records it). `net` keeps the order of PDUs
of each direction, SMP and the five link layer control PDUs that start encryption.
Each handler of the security manager is one action, and its guard the state it
tests; what arrives in another state goes to `Unexpected`, as the `else` of the
code does, and `Declined` is the refusal by parameters. An application calls
`initiate_pairing` (central) or `request_pairing` (peripheral) and polls:
`Call`, `Start`, `PollDone`, `PollFailed`, `ResetDone` are the points between
which the message thread may run.

Cryptography is data: a confirmation or a key is the tuple of what it is computed
from, so that two are equal exactly when their inputs are. A random value names
the side and the pairing it was drawn in. What a user types is any element of
`Passkeys`, and a comparison any answer; `consent` records who took part in which
pairing.

### Gatt

Each thread of the client is at `lock` (waiting for the procedure lock), `send`
(waiting for the transmit lock, then sending), `wait` (in `wait_for_message`) or
`stop`; `Answered` says what its procedure does with a response. `GiveUp` is both
the timeout and the lost connection: neither is an `AttError`, so the procedure
lock stays taken. So it does after `Raise`: an empty Read Blob response is passed on as
`None`, of which `read_long` takes the length, so that a value whose length is
a multiple of the MTU less one is never returned. A discovery has no lock when it sends, since it is a
generator. An indication's handler holds the transmit lock while the application's
callback runs. The server's handlers are an action each, over attribute values that are
sequences of bytes, cut at the boundaries that the MTU sets; prepared writes stay
in their queue when they have been executed. `Refuse` is the error
with which the server denies an access to an attribute, or one of another make a
discovery, which then makes the same request again, for ever if the server persists.
Requests are numbered, which `LastDenial` and the histories `own`, `taken` and `sender` use.

### Provisioning

Each node has the state of both layers (`node`), a sending thread that reads the
shared transaction again for each fragment (`FirstFragment`,
`FollowingFragment`) and ends after `MaxRounds` rounds with or without anything to
send (`IdleRound`), and a user's thread whose steps (`Queue`, `SendTyped`,
`Expect`) interleave with the receiving thread, which runs all three layers. The
air is the set of PDUs ever sent to a node: any may arrive at any time, any number of
times, or never. `PassUp` is the end of a reception with what the protocol answers
in the same thread. An exception ends the receiving thread (`deaf`) or the
sending one (`dead`).

`OrderedChannel` speaks of `submitted` and `passed` only, histories of the packets the
protocol hands to the transactions and gets from them: fragments,
acknowledgments, retransmissions and threads are hidden by the refinement.

## 3. The runs

| Run | Instance and bounds | Distinct states |
|---|---|---|
| `device_messages` | 2 clients and the message thread, 2 commands, 1 packet, 1 write error | 180 881 |
| `device_io` | 2 users and the message thread, 1 message, serial port or socket | 151 485 |
| `connector` | 4 packets | 41 400 |
| `mesh_sending` | 2 messages of 1 or 4 segments, 2 acknowledgments, 2 rounds, 2 without progress | 328 456 |
| `mesh_receiving` | 3 messages of 0 (unsegmented), 1 or 2 segments, sent twice, first number 8160 | 658 854 |
| `pairing` | 10 pairs of parameters, 3 calls of one side, or for LE Secure Connections 3 or 4 of both, passkeys 1 and 3, 2 rounds of a passkey, keys refused in the first pairing only | 154 172 |
| `gatt` | 2 threads, 11 pairs of call sequences, MTU 23 or 24, 1 indication, a disconnection, the first request may be denied | 640 792 |
| `provisioning` | 3 methods, packets of 1 to 3 fragments, 10 rounds | 115 796 |
| `device_io_unplugged` | 1 user, no message | violated |
| `connector_race` | 2 packets | violated |
| `mesh_nonce` | 1 message of 2 segments | violated |
| `gatt_discovery` | 2 threads, a discovery and 2 reads | violated |

The next paragraphs say what the passing runs show; section 4 says what the
violated ones do.

**Why the bounds are enough to see the interesting cases.** *device_messages*: two
commands are what interleaving, a late answer taken by the next command, and a
command blocked by another need; the three threads can each send one, so a
callback's command overlaps a user's, and a direct send of one thread meets a
command or a send of another between its two writes; one packet can be caught by a wait, by
the background, or during a command. *device_io*: two users race each other and
the message thread inside `close()` and `wait()`; one message is enough to be
stranded. *connector*: four packets can be one in hand, one locked, one pending
and one delivered at once; the theorems of section 5 cover any number.
*mesh_sending*: a message of four segments uses all its reserved numbers; two
acknowledgments can arrive in the wrong order, and each be of either message;
two rounds separate a first transmission from a retransmission. *mesh_receiving*:
with numbers starting at 8160 the first message ends below 8192 and the later
ones lie past the wrap-around; three messages make one old, one current and one
new; two transmissions make a repeated segment that the cache does not catch.
*pairing*: the parameters reach every method of both kinds, a side that declines
and sides with nothing to distribute; two calls make one pairing follow or cross
another; a passkey of two bits (`Rounds`, 20 in the code) has a round that is not
the last, and the passkeys 1 and 3 agree in one bit and differ in the other; `LastRefusal` lets
either hardware refuse its key in the first pairing, which the next ones may follow or cross.
*gatt*: values of 20 to 22 bytes are on both sides of what fits one
request, for both values of the MTU, one of 30 takes two prepared writes and two reads, and
one of 44 a third read that returns nothing; `LastDenial` lets the server deny the first
request of all when it is a discovery's, which is then made again; a write, a command
or a discovery of one thread meets every step of a long transfer of the other.
*provisioning*: public keys take three fragments and data two, so that a fragment may
be lost or overtaken in the middle; ten rounds (15 in the code) are enough for a
whole exchange to succeed, and few enough to run out anywhere in it.

### The properties

`DeviceMessages`
- `FrameIntegrity`: commands never interleave their frames on the transport, and as
  long as no direct send has met a frame half written every frame is whole.
- `AnswerBelongs`: a command returns its own answer, or, once some command has
  timed out or a message was sent without waiting, an answer nobody waits for any
  more. `AnsweredOnce`: never one answer for two commands.
- `AnswerReachesCaller`: the answer of a command in progress is never routed to
  the background queue.
- `MessageCustody`: the module implements `Custody` (each message is handed over
  once), through the mapping *held* = the queues and the input thread's hand,
  *settled* = dispatched or returned.
- `CommandReturns`, `BackgroundDelivered`: no command waits for ever and no
  background message starves, unless the output lock has leaked or a callback run
  by the wait of a command has sent one (`SelfLocked`). There is no third way.

`DeviceIO`
- `ReaderStopsFirst`: `on_disconnection` reaches the connector only when the
  reader has stopped. `NothingStranded`: a device that went away by itself
  leaves no message undispatched.
- `LossClosesSession`: a lost device ends up closed and notified, with the one
  exception `early`. `CloseEnds`: every `close()` returns unless the reader has
  died of an exception.

`Connector`
- `InOrder`, `AllReleased`: order is kept and nothing is kept back, unless
  `raced`. `PacketCustody`: the module implements `Custody`.

`LowerTransportTx`
- `AckedWasReceived`: a segment is withheld, or a message finished, only if the
  destination has it or has cancelled. `SeqDistinct`: no two PDUs share a
  number. `ThreadEnds`: every sending thread ends.

`LowerTransportRx`
- `NoMixing`, `WholeMessages`, `NoReplay`, `DatedByFirstSegment`: what is
  assembled belongs together, is whole, goes up once and in order, and has the
  right SeqAuth.

`Pairing`
- `KeysStayEncrypted`: while a PDU that carries a key is on its way, the hardware of both
  sides encrypts with the same key, until one refuses the key it is given: the code does
  not look at the result, and sends keys in clear.
- `BondsAgree`: a key stored for the peer is the peer's own of that same pairing, and
  both give it the same authentication. `AuthenticatedByUsers`: a bond marked
  authenticated rests on both users, who typed one passkey or accepted the
  comparison in that very pairing.
  These three hold when one application pairs, or when both sides use LE Secure
  Connections (`NoLegacyOverlap`). When two legacy pairings overlap they are false of
  the code, though it takes more calls than a run has: a pairing's PDUs do not name it,
  each security request that breaks into a pairing lets the central take the answer to
  its previous request for that to its next, and nothing in the responder's half of
  legacy pairing detects it. From four calls of one application and three of the other
  on the sides encrypt with keys of different attempts, and an old encryption's end
  completes an authenticated pairing; with six and five, a key of one attempt is stored
  for another.
- `PairingReturns`, `BondsBecomeMutual`: when one application pairs and both sides have
  a key to send, `pairing()` returns, and a pairing the initiator has stored the
  responder stores too. Without these conditions they are false of the code: a
  side waits for keys that never come, and an outcome may be missed when another
  pairing starts before the poll. They hold until a hardware refuses its key, when a real
  link is lost. `NoFailureLeft` is a third condition: two users who both
  refuse a comparison leave a failure on its way, which a second call takes for its
  own; a third call then breaks into the second's pairing.

`Gatt`
- `OwnResponse`: a procedure that holds the lock ends with the response to its own
  request, until one has been given an error that is for no procedure
  (section 4). `TransfersWhole`: what a write reports written is there, what a
  long read returns is the value, for the lengths whose prepared writes are
  enough: the code computes their number from the wrong quotient, so that at an
  MTU of 23 a long write of less than 18 bytes writes nothing, and one of 325 loses
  its end.
- `ProceduresReturn`: a procedure returns or raises, unless one has leaked the lock (by a
  timeout, a lost connection or the `TypeError` of `read_long`) or it is a discovery
  whose request was denied.

`Provisioning`
- `ImplementsChannel`: the module implements `OrderedChannel`.
- `ProvisionedTogether`: the provisioner is done only if the provisionee is, and the
  provisionee only with the value that was shown.
- `ProvisioningEnds`: the provisioner is done in the end, or a node is `Stuck` for good:
  an exception has ended a thread, the rounds have run out, or a packet of the
  user's thread was queued after the queue had been looked at. It says that there
  is no other way to hang.

Each property has a mutant of an action of the code that breaks it on the same
instance (`PROJECT.json`, "mutants").

### Fairness

All fairness is weak and on the host's own threads: Python runs a thread that
can run, and a blocking call returns when its lock is free, its queue not empty
or its timeout past. `DeviceMessages`: each command, direct send and
wait, the input thread, the message thread, and connector callbacks, which end unless they
wait for a lock, but neither the firmware (it need not answer) nor
the application (it need not send). Lock acquisition needs no strong fairness
in the instances checked because commands are finite in number; a real
`threading.Lock` is not fair, so starvation by an endless stream of commands is
outside what is claimed. `DeviceIO`: the opening user, every closer, both
threads; not `Unplug`, nor a user's decision to close. `LowerTransportTx`: the
sending threads; the medium, the destination and the application owe nothing.
`Pairing`: the message thread of each side, which handles what arrives, and an
application that polls; a connection delivers what was sent. `Gatt`: the threads'
procedures, whose waits are bounded by a timeout, and the callback of an
indication; the server owes nothing. `Provisioning`: the threads and a user who
types; of the radio only the delivery of Link Open and Link Ack, which are sent
again for ever, while any PDU of a transaction may be lost each time.
`Connector` and `LowerTransportRx` are checked for safety only.

Deadlock is checked for `connector`; the other systems may come to rest (all
messages sent, device closed), so their configurations disable it, and the
liveness properties say that nobody is left waiting.

## 4. Where the code disagrees with what it says

Four runs are expected to be violated; `PROJECT.json`, "findings", quotes both sides.

1. `device_io_unplugged`: a serial port that disappears raises `OSError` in the
   input thread, which ends without `on_disconnection`; `join()`, and so
   `close()`, loops for ever.
2. `connector_race`: a packet tested as locked before `unlock()` resets the flag
   is queued after `unlock()` has found the queue empty, and stays there.
3. `mesh_nonce`: a message whose first segment does not arrive first is handed up
   with another segment's sequence number, with which it cannot be decrypted.
4. `gatt_discovery`: the procedure lock does not cover discoveries, whose last
   error may end a read of another thread; the next read then returns the value
   of the attribute that read had asked for.

Others were met while modelling and are in the models as they are in the code,
named in a property's condition or in the hazards: a write error leaves the
output lock taken (`LockLeaked`); a direct `send_message` breaks the frame of another
thread (`overlapped`); a callback run by the wait of a command locks itself out when it sends
one (`SelfLocked`); the failure of `set_encryption` is ignored (`refused`); `read_long` raises
`TypeError` on an empty last response and keeps the procedure lock (`Raise`, `leaked`); a
discovery that is denied repeats its request for ever (`Denied`); mesh messages queued behind another are
never sent; prepared writes are too few for some lengths (`Enough`); a pairing
with nothing to distribute never ends (`BothDistribute`); the thread that sends
provisioning packets makes 15 rounds in its life, though a comment says
"15 tries per packet", and a provisioned node no longer acknowledges (`Stuck`).

## 5. The proofs

All proofs are checked by TLAPS with no step left open. They hold for every
value of the constants allowed by the modules' named assumptions (threads are
distinct, bounds are natural numbers).

| Theorem | States | Further assumption |
|---|---|---|
| `DeviceMessages_proofs!TypeCorrect` | `Spec => []TypeOK` | |
| `DeviceMessages_proofs!FramesWhole` | `Spec => []FrameIntegrity`, whoever sends directly | |
| `DeviceMessages_proofs!OneCommandAtATime` | at most one thread is past the command lock | |
| `DeviceMessages_proofs!AnswersRouted` | `Spec => []AnswerReachesCaller` | `~SharedWait` |
| `DeviceMessages_proofs!DeviceCustody` | `Spec => MessageCustody`: DeviceMessages implements Custody | |
| `DeviceMessages_proofs!OnlyOnce` | `Spec => []AnsweredOnce` | |
| `DeviceMessages_proofs!WhoseAnswer` | `Spec => []AnswerBelongs` | `~SharedWait` |
| `DeviceMessages_proofs!LocksHeldByRunning` | `Spec => []LockHoldersRun` | |
| `Connector_proofs!TypeCorrect` | `Spec => []TypeOK` | |
| `Connector_proofs!PacketsReleased` | `Spec => []AllReleased` | |
| `Connector_proofs!OrderKept` | `Spec => []InOrder` | |
| `Connector_proofs!ConnectorCustody` | `Spec => PacketCustody`: Connector implements Custody | |
| `DeviceIO_proofs!TypeCorrect` | `Spec => []TypeOK` | |
| `DeviceIO_proofs!ReaderStopped` | `Spec => []ReaderStopsFirst` | |
| `DeviceIO_proofs!AllDispatched` | `Spec => []NothingStranded` | |
| `DeviceIO_proofs!JoinsAfterCancel` | `Spec => []JoinsCanceled` | |
| `LowerTransportTx_proofs!TypeCorrect` | `Spec => []TypeOK` | |
| `LowerTransportTx_proofs!NumbersSuffice` | `Spec => []SeqDistinct` | no message has more than 4 segments |
| `LowerTransportTx_proofs!AcksBelong` | `Spec => []AckedWasReceived` | `5 * MaxMessages <= 8192` |
| `LowerTransportTx_proofs!ThreadsCountDown` | `Spec => ThreadsRunDown` | |
| `LowerTransportRx_proofs!TypeCorrect` | `Spec => []TypeOK` | `SeqZeroSuffices` |
| `LowerTransportRx_proofs!Unmixed` | `Spec => []NoMixing` | `SeqZeroSuffices` |
| `LowerTransportRx_proofs!Whole` | `Spec => []WholeMessages` | `SeqZeroSuffices` |
| `LowerTransportRx_proofs!NothingReplayed` | `Spec => []NoReplay` | `SeqZeroSuffices` |
| `LowerTransportRx_proofs!DatedExactly` | `Spec => []DatedByFirstSegment` | `SeqZeroSuffices` |
| `Pairing_proofs!TypeCorrect` | `Spec => []TypeOK` | |
| `Pairing_proofs!KeysBelong` | a key stored for a side was generated by that side | |
| `Pairing_proofs!RolesFixed` | only the central initiates | |
| `Pairing_proofs!KeysEncrypted` | `Spec => []KeysStayEncrypted`, whichever side refuses a key | |
| `Pairing_proofs!BondsMatch` | `Spec => []BondsAgree` | |
| `Pairing_proofs!UsersAuthenticate` | `Spec => []AuthenticatedByUsers` | |
| `Gatt_proofs!ResponsesOwned` | `Spec => []OwnResponse` | |
| `Gatt_proofs!TypeCorrect` | `Spec => []TypeOK` | |
| `Gatt_proofs!TransfersComplete` | `Spec => []TransfersWhole` | |
| `Gatt_proofs!MtusKeptEqual` | `Spec => []MtusAgree` | |
| `Gatt_proofs!LockStaysLost` | `Spec => LockLost` | |
| `Provisioning_proofs!TypeCorrect` | `Spec => []TypeOK` | |
| `Provisioning_proofs!ChannelImplemented` | `Spec => ImplementsChannel`: Provisioning implements OrderedChannel | |
| `Provisioning_proofs!TogetherProvisioned` | `Spec => []ProvisionedTogether` | |
| `Provisioning_proofs!RoundsCountDown` | `Spec => RoundsRunDown` | |

**FramesWhole.** `FrameIntegrity` is not inductive: a header may be appended
only if the line holds whole frames. The invariant `FrameInv` adds that the holder of
the command lock is the only thread past it (`TxExclusive`), which keeps commands apart, and,
until `overlapped`, `Whole`: at most one thread, in a command or in a direct
send, is between its header and its payload (`OneWriter`); the line then ends with
its header (`HeaderSent`); and the line has an odd number of chunks only then, or when the
output lock is lost (`OddLine`).

That case deserves a word: a write error between header and payload. The lock
that leaks there is what keeps later frames whole: no thread writes any more.

**AnswersRouted.** The answer of a command can exist only once the command has
been written. The invariant says that a command whose answer is visible anywhere
was written under the `result` filter, which stays in force until the command
is over: commands are serialised by the lock, and without `SharedWait` nobody
else sets the filter. The answer of a command in progress then always matches
when the input thread tests it. `Tracked` ties the command a thread is sending to
the numbers not yet used.

**DeviceCustody, OnlyOnce.** A command has a number of its own and is written at
most once (`Numbering`); the interface answers what was written and not yet
answered, so that an answer it may still give is nowhere yet (`Fresh`). From then
on every message is in one place: the wire, the input thread's hand, one of the
two queues, or handed over (`OnePlace`). Each step takes a message into custody,
moves it between two places `Custody` does not tell apart, or hands it over; a
close that empties the queues is the drop the abstraction allows. An answer
a command returned has been handed over, so no later command can take it
(`AnswerGone`).

**WhoseAnswer.** A command that ended by a write error, or found its device closed,
leaves no answer behind (`NothingLate`): what a later command can take instead of
its own answer is that of a command that timed out, or of a message sent without
waiting, whose result passes the filter of whichever command is in progress.

**PacketsReleased, OrderKept.** `Hands` types what each thread holds at each
step; `Locking` says that from the time a packet is tested as locked until it is
queued the connector stays locked unless `raced`; `Flow` says that packets
delivered, in the application thread's hand, queued, in the message thread's
hand and to come are numbered in this order. Two threads call `on_packet`, yet
while the application thread drains the queue the flag is still set, so the
message thread can only queue behind it.

**ConnectorCustody.** The refinement needs one more invariant, `Separate`: the
two hands, the two queues and what has left are pairwise disjoint, no queue
holds a packet twice, and every packet is older than the next one the device
sends. Each step then accepts a new packet, settles what leaves, or moves a
packet between two places the abstraction does not tell apart.

**ReaderStopped, AllDispatched.** Any number of users may be anywhere in `close()`, each
having seen or reset a flag. The invariant counts the closers instead of naming
them: how many are committed to a notification and how many NOPs they have queued or
will queue bounds the queue (this is where the set of users must be finite). Nobody else is in
the session while a user opens it; a join passes only when the input thread is over,
so whoever tells the connector has seen the reader stop; and the message thread
leaves its loop only on the NOP behind the last message read.

**NumbersSuffice.** The numbers of the messages submitted are disjoint intervals of
length `Reserved`, below the next free number. With five segments or more
the statement is false: the code's comment "max 4 fragments !"
(`upper_transport/__init__.py:285`) is a precondition nothing enforces, so it is
the theorem's assumption.

**AcksBelong.** An acknowledgment names its message by SeqZero only. While the numbers of
all messages fit in its 13 bits (`SeqZeroNames`), equal SeqZeros are equal numbers, and
the numbers of two messages are 4 apart, so an acknowledgment is applied to its own
message or not at all. An acknowledgment lists only what the destination got by then
(`AcksTrue`), and what it got only grows, within the fragments of the message: as
many segments as the message has are all of them. Without the assumption the statement
is false in principle, for an acknowledgment some two thousand messages late.

**The receiving side.** `SeqZeroSuffices` says that the source ends its transmissions of
a message less than 8192 sequence numbers after the first: 13 bits cannot date a
segment further than that. Then `calculate_seq_auth` returns the first number of the
message exactly (`SeqAuthExact`, about all numbers and offsets). The date kept is thus
that of one message, the latest accepted (`Accepted`): if it is segmented the
transaction is its own, and nothing as recent has been delivered until it is finished. A
segment with that date can only be the latest message's. A complete transaction has as
many fragments as segments, all of them segments of its message that arrived, so
none is missing (`Complete`).

**KeysBelong, RolesFixed.** The central alone sends pairing requests and receives
security requests, so that it alone is ever the initiator, however calls and requests of
both applications cross. A PDU that carries a key carries one its sender has
generated (`Sent`), and a side puts what it receives only where it keeps its peer's keys
(`SideOK`), which a reset empties.

**KeysEncrypted, BondsMatch, UsersAuthenticate.** The two halves of the condition the
properties state, `NoLegacyOverlap`, have nothing in common but their conclusion, and
each has an inductive invariant of its own, in a module of its own. None of the three
properties is inductive by itself: a bond is what is left at the end of a conversation
of twenty PDUs. `KeysEncrypted` is proved in two parts. `KeysGiven` says of `session`,
the key each side has given its hardware, what the property says of `hardware`; it follows from
the two invariants below. `Obeyed`, an invariant of its own, says that the two are the same
until a hardware has refused a key.

*Both sides use LE Secure Connections.* Two applications
may start any number of pairings, which fail, follow each other and cross, and no PDU
says which pairing it is of. The invariant (`LescInv` of `PairingLesc`) says for each
direction which PDUs can be left from an earlier pairing
and why none is taken for one of the pairing in progress. Its groups: a side's keys, its
peer's public key and its state belong together (`CentralOK`, `PeripheralOK`); what is on
its way in each direction carries values of a pairing already requested (`ToCentral`,
`ToPeripheral`); requests and public keys of several pairings are in the order of these
pairings (`Requests`, `PublicKeys`); what is left of a pairing given up comes before the
response that starts the next (`Old`); a value is taken as one of this pairing only if
it verifies against the pair of public keys, which differ from those of any other (`Checks`,
`RoundsOK`); keys are sent after the answer that starts encryption, and no side changes
its key in between (`Distribution`, `Encryption`); and what is stored was generated for the
pairing it is stored for, with what both users did (`BondsOK`). The proof has one
lemma per kind of move (a PDU taken, a PDU put behind others, a side reset, each change of
state), and each handler is a composition of moves.

*One application alone pairs, and not both sides use LE Secure Connections.* They then
speak in turn. The invariant (`LegacyInv` of `PairingLegacy`) is the list of
the moments of their conversation (`Moment`), each with the state of both sides and all that
is on its way: `Asking` and `Requesting` before the pairing, `Committing`, `Confirming`,
`Revealing` and `Accepting` while the values are exchanged, `Encrypting`, `Distributing`,
then `Rest`. Two things make the list longer than the protocol. The central's application
may pair again while the peripheral still waits for keys of the pairing before
(`Apart`), so that a new request follows them; and a side that refuses or finds a wrong
value lets its own application pair again before the other side knows (`Refusing`,
`Failing`). `Owed` says of the distribution that the keys a side has not got are those
on their way, once each, in any order; `OnlyCentralAsks` and `OnlyPeripheralAsks` that an
application pairs again only when its side's last pairing is over. The proof has one lemma
per PDU (`PairingResponseLegacy`, `KeyLegacy`) and per action of an application, with
one for each side where both take it: it finds the moments in which the PDU comes
first or the application may act, and the moment its handler leads to.

`LescHolds` and `LegacyHolds` state that each invariant holds in its case; added to the
INVARIANTs of `MCPairing.cfg`, they are checked on that run's states. With legacy pairing
and two applications at once the three properties are false of the code (section 3),
which is why they do not speak of it.

**ResponsesOwned.** The number of each request and of its response is in one place:
the link one way, the link back, or the client's queue (`Flow`). `Control` says that
a thread past the procedure lock, in a locked procedure, is its holder. `Ours` is
the heart: until a stray error, a request in flight that belongs to a locked
procedure is the one the holder of the lock waits for, or the holder has left by an
exception, and the lock with it, so that no other procedure will run. A late
response can then meet no procedure but its own. The values of attributes
play no part and are left untyped.

**TransfersComplete.** `TransfersWhole` speaks of the moment a procedure ends; what makes
it true happens over as many requests and responses as the value has parts. The
invariant is `TransferInv` of `GattTransfers`, on top of the one of `ResponsesOwned`. Types
come first (`DataTyped`, from which `TypeCorrect` follows), then `InOrder`: the server
handles requests in the order of their numbers, so that one still on its way is later
than any that was answered. `Progress` says what the procedure that has the lock has
collected, or how far its prepared writes have come and that those left are
enough; `Prepared`, that before its next request is handled the end of the server's
queue is its own, in order and without a gap (`Covers`, whatever older writes the
queue begins with, since the code never empties it); `Replied`, what the response on
its way says of the attribute. Two things could spoil a transfer from outside. A write
command needs no lock: `CommandsBefore` says that those still on their way were sent
before anything the holder has sent, so that the value they change is not one it
has read or written a part of. And the two sides cut parts at their own MTU:
`MtuAgreed` says that the numbers are equal unless an exchange goes on or was left
with the lock taken. `Patched`, what the server makes of the prepared writes, is a
recursive function over them. That the values after each write exist, and that the
writes that cover a value leave it, is shown by the least counterexample
(`StepsExist`, `PatchedCovered`), from the fact that the order of the natural numbers is
well-founded, since an induction principle cannot be cited.
`TransferInv`, added to the INVARIANTs of `MCGatt.cfg`, is checked on that run's states.

**ChannelImplemented.** The transaction numbers of the two nodes never meet: a node
submits at most six packets. A PDU that carries the number the receiver expects, or a
later one, carries a fragment of the packet that follows those it has passed up
(`NextPdu`), since the sender takes a new packet only when the last was acknowledged,
and the receiver acknowledges what it has passed up. The queue of the sender holds the packets submitted
and not started, then only the mark of the end (`Backlog`). A reassembled packet is
therefore whole and the next one. The argument is one lemma per direction (`StepLemma`).

**TogetherProvisioned.** Each protocol step of a node happens on a packet the other has
submitted, and the channel keeps their order, so that the phases of the two nodes
advance together (`PhaseOK`). A value is shown before it can be typed and is fixed
then; confirmations are compared before the data are sent (`AuthOK`).

**What the liveness rests on.** A liveness property cannot be proved here, but the
argument for it can be, up to the use of fairness. Six theorems state that part, for any number
of threads, messages and rounds. They belong to no run; TLC checks each of them on the
instance of its module's run when it is added to the `.cfg`, and finds it violated
once the step it is about is changed.

- *A lock has a holder that will go on.* `LockHoldersRun`, under `CommandReturns` and
  `BackgroundDelivered`: `__tx_lock` belongs to a thread past its acquisition, on every
  exit of `send_command` (`TxHeld`), `__lock` is kept only by a write that raised, and a thread
  that waits for a lock it holds is one whose callback sends a command: `SelfLocked` and
  `LockLeaked` are the only ways in which the holder of a lock does not go on.
- *A lock that is lost stays lost.* `LockLost`, the exception of `ProceduresReturn`:
  the owner has left the procedure that took the lock, and the only step that gives it back
  is the end of that procedure (`Lost`).
- *What is awaited is on its way.* `JoinsCanceled`, under `CloseEnds`: `is_alive()` may be
  read while another thread resets it, but only a reader that has canceled itself is
  ever seen not alive in an opened session (`Cancels`).
- *A thread that loops runs down.* `ThreadsRunDown`, under `ThreadEnds`, has a count that each
  step of a sending thread lowers and that no acknowledgment raises; `RoundsRunDown`,
  under `ProvisioningEnds`, an order on the states of a sending thread whose transaction is
  replaced while it reads it.
- *Both sides still understand each other.* `MtusAgree`: after any exchange, refused,
  timed out or crossed by others, a free procedure lock means equal MTUs, up to a stray
  error; it is `MtuAgreed` of `TransfersComplete`, whose exceptions all hold the lock.

**Only model-checked**: liveness (`CommandReturns`, `BackgroundDelivered`,
`LossClosesSession`, `CloseEnds`, `ThreadEnds`, `PairingReturns`,
`BondsBecomeMutual`, `ProceduresReturn`, `ProvisioningEnds`), which is out of this
prover's reach. Every other property of a passing run has its theorem.

## 6. What is not modelled

The models cover the parts whose control is hard. Most of the repository's
lines are something else: tables of constants, packet formats, generated
protocol buffers, message classes with one field per line, command-line shells.
They keep little state, and their correctness is about contents.

- The bytes of a transport: resynchronisation after garbage, frames split over
  several reads. Transports deliver whole frames here.
- Contents: cryptography, parsing, formatting, logging.
- Reopening a device after `close()`, and several devices at once (bridge).
- Result codes: `UNSUPPORTED_DOMAIN` raises in the message thread and ends it.
- Mesh: more than one destination or source (their states are independent in
  the code, except for the sequence number), keys, relay, friends, IV updates.
- Pairing: the out-of-band methods, which the code does not implement, a
  disconnection during pairing.
- GATT: discoveries other than the primary services', which have the same loop,
  subscriptions, signed writes, and a connection opened after one has ended.
- L2CAP: fragmentation, and the table of connections.
- Provisioning: static out-of-band data, several links at once, and the closing of
  the link by the provisioner once provisioning is complete.
- The stack framework (`Layer`), which routes calls between layers by name; the
  models call the next layer directly.
- dot15d4, ZigBee, RF4CE, esb, unifying, phy and lorawan: stacks of their own,
  not reached yet.
- Exceptions of connector callbacks, which are the application's; of what callbacks
  do in the wait of a command, the direct sends and waits (a callback in the message thread
  or in another wait may send directly).
- PDUs on a link whose two sides encrypt differently: they are delivered, where a radio would
  lose the link. The conditions `refused` of `Pairing` keep the properties out of this.
- A mesh context that already has a sequence number when it is sent: only the shell sets one.
- The reads of the shared transaction by a provisioning thread before its first fragment
  are one step (`FirstFragment`). The receiving thread could replace the transaction
  between them, and the packet would go out under the other side's number; but the other
  side waits at least 10 ms before each PDU, and these reads follow each other.
- Generated protocol buffers, firmware, virtual devices, tools: input and output.

## 7. The plan

Done: the device's core (messages, session, connector), mesh transport and
provisioning, BLE pairing, the GATT client and server, in the order of how many other
parts rest on them and of how hard their control is.

1. **L2CAP**: fragmentation and reassembly, against a reference definition of the
   packet sent.
2. **Stack framework and connections** (`Layers`): instances, names, lookups, and a
   disconnection in the middle of pairing.
3. **Network layer of mesh**: its cache, filled before a PDU is authenticated.
4. Composition of `DeviceIO` with `DeviceMessages` (a reader that dies with commands
   waiting), and the bridge.
5. **dot15d4 and ZigBee**: MAC and NWK managers, their requests and confirmations.
