--------------------------- MODULE DeviceIO_proofs ---------------------------
(***************************************************************************)
(* Proofs about DeviceIO, for any number of application threads that close *)
(* the device at any moment and any number of messages.                    *)
(***************************************************************************)
EXTENDS DeviceIO, FiniteSetTheorems, TLAPS

Labels == CloseLabels \cup
            {"off", "idle", "start", "alive", "opened", "resetting", "loop", "drain", "done"}

\* The types of the variables; what bounds the counters is in Counts below.
Types ==
  /\ transport \in {"uart", "socket"}
  /\ peer \in BOOLEAN /\ port \in BOOLEAN
  /\ opened \in BOOLEAN /\ closing \in BOOLEAN /\ alive \in BOOLEAN
  /\ disconnected \in BOOLEAN /\ inCanceled \in BOOLEAN /\ msgCanceled \in BOOLEAN
  /\ userClosed \in BOOLEAN /\ early \in BOOLEAN
  /\ input \in {"off", "read", "store", "leaving", "stopped", "dead"}
  /\ pc \in [Closers -> Labels]
  /\ joinFor \in [Closers -> {"close", "wait"}]
  /\ sent \in 0..MaxMsgs
  /\ queued \in Nat
  /\ notified \in Nat

LEMMA TypesInit == Init => Types
<1>1. Init => /\ peer \in BOOLEAN /\ port \in BOOLEAN
              /\ opened \in BOOLEAN /\ closing \in BOOLEAN /\ alive \in BOOLEAN
              /\ disconnected \in BOOLEAN /\ inCanceled \in BOOLEAN /\ msgCanceled \in BOOLEAN
              /\ userClosed \in BOOLEAN /\ early \in BOOLEAN
  BY Zenon DEF Init
<1> QED
  BY <1>1, ThreadAssumption DEF Init, Types, Labels, CloseLabels

LEMMA TypesNext ==
  ASSUME Types, [Next]_vars
  PROVE  Types'
<1> USE ThreadAssumption DEF Types, Closers, Labels, CloseLabels, session, counts
<1>1. ASSUME NEW u \in Users, OpenPort(u) PROVE Types'
  BY <1>1 DEF OpenPort, Goto
<1>2. ASSUME NEW u \in Users, StartThreads(u) PROVE Types'
  BY <1>2 DEF StartThreads, Goto
<1>3. ASSUME NEW u \in Users, MarkAlive(u) PROVE Types'
  BY <1>3 DEF MarkAlive, Goto
<1>4. ASSUME NEW u \in Users, MarkOpened(u) PROVE Types'
  BY <1>4 DEF MarkOpened, Goto
<1>5. ASSUME NEW u \in Users, ResetEnds(u) PROVE Types'
  BY <1>5 DEF ResetEnds, Goto
<1>6. ASSUME NEW u \in Users, BeginClose(u) PROVE Types'
  BY <1>6 DEF BeginClose, Goto
<1>7. ASSUME NEW u \in Users, BeginWait(u) PROVE Types'
  BY <1>7 DEF BeginWait, Goto
<1>8. ASSUME NEW t \in Closers, CloseCheck(t) PROVE Types'
  BY <1>8 DEF CloseCheck, Goto
<1>9. ASSUME NEW t \in Closers, CloseMark(t) PROVE Types'
  BY <1>9 DEF CloseMark, Goto
<1>10. ASSUME NEW t \in Closers, CloseCancel(t) PROVE Types'
  BY <1>10 DEF CloseCancel, Goto
<1>11. ASSUME NEW t \in Closers, CloseNop(t) PROVE Types'
  BY <1>11 DEF CloseNop, Goto
<1>12. ASSUME NEW t \in Closers, Joined(t) PROVE Types'
  <2>1. alive' \in BOOLEAN
    BY <1>12, Zenon DEF Joined
  <2> QED
    BY <1>12, <2>1 DEF Joined, Goto
<1>13. ASSUME NEW t \in Closers, AfterJoin(t) PROVE Types'
  BY <1>13 DEF AfterJoin, Goto
<1>14. ASSUME NEW t \in Closers, CloseClear(t) PROVE Types'
  <2>1. opened' \in BOOLEAN
    BY <1>14, Zenon DEF CloseClear
  <2> QED
    BY <1>14, <2>1 DEF CloseClear, Goto
<1>15. ASSUME NEW t \in Closers, CloseReset(t) PROVE Types'
  <2>1. closing' \in BOOLEAN
    BY <1>15, Zenon DEF CloseReset
  <2> QED
    BY <1>15, <2>1 DEF CloseReset, Goto
<1>16. ASSUME NEW t \in Closers, CloseNotify(t) PROVE Types'
  BY <1>16 DEF CloseNotify, Goto
<1>17. ASSUME NEW t \in Closers, CloseReturns(t) PROVE Types'
  <2>1. port' \in BOOLEAN
    BY <1>17, Zenon DEF CloseReturns
  <2> QED
    BY <1>17, <2>1 DEF CloseReturns, Goto
<1>18. ASSUME ReadMessage PROVE Types'
  BY <1>18 DEF ReadMessage
<1>19. ASSUME StoreMessage PROVE Types'
  BY <1>19 DEF StoreMessage
<1>20. ASSUME ReadDisconnected PROVE Types'
  BY <1>20 DEF ReadDisconnected
<1>21. ASSUME ReadRaises PROVE Types'
  BY <1>21 DEF ReadRaises
<1>22. ASSUME InputCanceled PROVE Types'
  BY <1>22 DEF InputCanceled
<1>23. ASSUME OnDisconnection PROVE Types'
  BY <1>23 DEF OnDisconnection
<1>24. ASSUME ProcessMessage PROVE Types'
  BY <1>24 DEF ProcessMessage
<1>25. ASSUME LeaveLoop PROVE Types'
  BY <1>25 DEF LeaveLoop, Goto
<1>26. ASSUME Drained PROVE Types'
  BY <1>26 DEF Drained, Goto
<1>27. ASSUME Unplug PROVE Types'
  <2>1. peer' \in BOOLEAN
    BY <1>27, Zenon DEF Unplug
  <2> QED
    BY <1>27, <2>1 DEF Unplug
<1>28. CASE UNCHANGED vars
  BY <1>28 DEF vars
<1> QED
  BY <1>1, <1>2, <1>3, <1>4, <1>5, <1>6, <1>7, <1>8, <1>9, <1>10, <1>11, <1>12, <1>13, <1>14, <1>15, <1>16, <1>17, <1>18, <1>19, <1>20, <1>21, <1>22, <1>23, <1>24, <1>25, <1>26, <1>27, <1>28
  DEF Next, OpenStep, CloseStep, InputStep, MessageStep

-----------------------------------------------------------------------------
(* Who runs while the device is being opened, and what close() has passed. *)

Opening == {"start", "alive", "opened"}

\* A thread that has found the device opened and not closing, until it has
\* told the connector.
Commit     == {"mark", "cancel", "nop", "clear", "reset", "notify"}
Passing(t) == pc[t] \in Commit \/ (pc[t] \in {"join", "joined"} /\ joinFor[t] = "close")

\* Nobody else is there while a user opens the device, except the message
\* thread, which cannot pass the first test of close().
Opens ==
  /\ \A u \in Users : pc[u] \in Opening \cup {"resetting"} =>
       \A v \in Users : v # u => pc[v] = "off"
  /\ \A u \in Users : pc[u] \in Opening =>
       ~opened /\ notified = 0 /\ \A t \in Closers : ~Passing(t)
  /\ \A u \in Users : pc[u] = "start" => pc[MsgThread] = "off"
  /\ pc[MsgThread] = "off" =>
       /\ input = "off" /\ ~disconnected /\ ~msgCanceled /\ ~opened /\ notified = 0
       /\ \A t \in Closers : pc[t] \in {"off", "start"}
  /\ pc[MsgThread] \notin Opening \cup {"resetting", "idle"}
  /\ joinFor[MsgThread] = "close"

LEMMA OpensInit == Init => Opens
  BY ThreadAssumption DEF Init, Opens, Opening, Passing, Commit, Closers

LEMMA OpensNext ==
  ASSUME Types, Opens, [Next]_vars
  PROVE  Opens'
<1> USE ThreadAssumption DEF Types, Opens, Opening, Passing, Commit, Closers, Labels, CloseLabels, session, counts
<1>1. ASSUME NEW u \in Users, OpenPort(u) PROVE Opens'
  BY <1>1 DEF OpenPort, Goto
<1>2. ASSUME NEW u \in Users, StartThreads(u) PROVE Opens'
  BY <1>2 DEF StartThreads, Goto
<1>3. ASSUME NEW u \in Users, MarkAlive(u) PROVE Opens'
  BY <1>3 DEF MarkAlive, Goto
<1>4. ASSUME NEW u \in Users, MarkOpened(u) PROVE Opens'
  BY <1>4 DEF MarkOpened, Goto
<1>5. ASSUME NEW u \in Users, ResetEnds(u) PROVE Opens'
  BY <1>5 DEF ResetEnds, Goto
<1>6. ASSUME NEW u \in Users, BeginClose(u) PROVE Opens'
  BY <1>6 DEF BeginClose, Goto
<1>7. ASSUME NEW u \in Users, BeginWait(u) PROVE Opens'
  BY <1>7 DEF BeginWait, Goto
<1>8. ASSUME NEW t \in Closers, CloseCheck(t) PROVE Opens'
  BY <1>8 DEF CloseCheck, Goto
<1>9. ASSUME NEW t \in Closers, CloseMark(t) PROVE Opens'
  BY <1>9 DEF CloseMark, Goto
<1>10. ASSUME NEW t \in Closers, CloseCancel(t) PROVE Opens'
  BY <1>10 DEF CloseCancel, Goto
<1>11. ASSUME NEW t \in Closers, CloseNop(t) PROVE Opens'
  BY <1>11 DEF CloseNop, Goto
<1>12. ASSUME NEW t \in Closers, Joined(t) PROVE Opens'
  BY <1>12 DEF Joined, Goto
<1>13. ASSUME NEW t \in Closers, AfterJoin(t) PROVE Opens'
  BY <1>13 DEF AfterJoin, Goto
<1>14. ASSUME NEW t \in Closers, CloseClear(t) PROVE Opens'
  BY <1>14 DEF CloseClear, Goto
<1>15. ASSUME NEW t \in Closers, CloseReset(t) PROVE Opens'
  BY <1>15 DEF CloseReset, Goto
<1>16. ASSUME NEW t \in Closers, CloseNotify(t) PROVE Opens'
  BY <1>16 DEF CloseNotify, Goto
<1>17. ASSUME NEW t \in Closers, CloseReturns(t) PROVE Opens'
  BY <1>17 DEF CloseReturns, Goto
<1>18. ASSUME ReadMessage PROVE Opens'
  BY <1>18 DEF ReadMessage
<1>19. ASSUME StoreMessage PROVE Opens'
  BY <1>19 DEF StoreMessage
<1>20. ASSUME ReadDisconnected PROVE Opens'
  BY <1>20 DEF ReadDisconnected
<1>21. ASSUME ReadRaises PROVE Opens'
  BY <1>21 DEF ReadRaises
<1>22. ASSUME InputCanceled PROVE Opens'
  BY <1>22 DEF InputCanceled
<1>23. ASSUME OnDisconnection PROVE Opens'
  BY <1>23 DEF OnDisconnection
<1>24. ASSUME ProcessMessage PROVE Opens'
  BY <1>24 DEF ProcessMessage
<1>25. ASSUME LeaveLoop PROVE Opens'
  BY <1>25 DEF LeaveLoop, Goto
<1>26. ASSUME Drained PROVE Opens'
  BY <1>26 DEF Drained, Goto
<1>27. ASSUME Unplug PROVE Opens'
  BY <1>27 DEF Unplug
<1>28. CASE UNCHANGED vars
  BY <1>28 DEF vars
<1> QED
  BY <1>1, <1>2, <1>3, <1>4, <1>5, <1>6, <1>7, <1>8, <1>9, <1>10, <1>11, <1>12, <1>13, <1>14, <1>15, <1>16, <1>17, <1>18, <1>19, <1>20, <1>21, <1>22, <1>23, <1>24, <1>25, <1>26, <1>27, <1>28
  DEF Next, OpenStep, CloseStep, InputStep, MessageStep

-----------------------------------------------------------------------------
(* The input thread stops before anyone passes join(); and, as long as no  *)
(* user closes the device, before the message thread leaves its loop.      *)

Stops ==
  /\ disconnected => input = "stopped"
  /\ \A t \in Closers : pc[t] \in {"joined", "clear", "reset", "notify"} => disconnected
  /\ notified > 0 => disconnected

\* What follows as long as no user's close() has set __closing: the message
\* thread is canceled by the input thread only, which has then stopped, and
\* closes the device itself with its queue empty.
Unwanted ==
  ~userClosed =>
    /\ \A u \in Users : Passing(u) => pc[u] = "mark"
    /\ pc[MsgThread] \in {"cancel", "nop", "join", "joined", "clear", "reset"} => closing
    /\ msgCanceled \/ pc[MsgThread] \notin {"off", "loop"} => input = "stopped"
    /\ pc[MsgThread] \notin {"off", "loop", "drain"} => queued = 0

LEMMA StopsInit == Init => Stops /\ Unwanted
  BY ThreadAssumption DEF Init, Stops, Unwanted, Passing, Commit, Closers

LEMMA StopsNext ==
  ASSUME Types, Opens, Stops, [Next]_vars
  PROVE  Stops'
<1> USE ThreadAssumption DEF Types, Opens, Stops, Opening, Passing, Commit, Closers, Labels, CloseLabels, session, counts
<1>1. ASSUME NEW u \in Users, OpenPort(u) PROVE Stops'
  BY <1>1 DEF OpenPort, Goto
<1>2. ASSUME NEW u \in Users, StartThreads(u) PROVE Stops'
  BY <1>2 DEF StartThreads, Goto
<1>3. ASSUME NEW u \in Users, MarkAlive(u) PROVE Stops'
  BY <1>3 DEF MarkAlive, Goto
<1>4. ASSUME NEW u \in Users, MarkOpened(u) PROVE Stops'
  BY <1>4 DEF MarkOpened, Goto
<1>5. ASSUME NEW u \in Users, ResetEnds(u) PROVE Stops'
  BY <1>5 DEF ResetEnds, Goto
<1>6. ASSUME NEW u \in Users, BeginClose(u) PROVE Stops'
  BY <1>6 DEF BeginClose, Goto
<1>7. ASSUME NEW u \in Users, BeginWait(u) PROVE Stops'
  BY <1>7 DEF BeginWait, Goto
<1>8. ASSUME NEW t \in Closers, CloseCheck(t) PROVE Stops'
  BY <1>8 DEF CloseCheck, Goto
<1>9. ASSUME NEW t \in Closers, CloseMark(t) PROVE Stops'
  BY <1>9 DEF CloseMark, Goto
<1>10. ASSUME NEW t \in Closers, CloseCancel(t) PROVE Stops'
  BY <1>10 DEF CloseCancel, Goto
<1>11. ASSUME NEW t \in Closers, CloseNop(t) PROVE Stops'
  BY <1>11 DEF CloseNop, Goto
<1>12. ASSUME NEW t \in Closers, Joined(t) PROVE Stops'
  BY <1>12 DEF Joined, Goto
<1>13. ASSUME NEW t \in Closers, AfterJoin(t) PROVE Stops'
  BY <1>13 DEF AfterJoin, Goto
<1>14. ASSUME NEW t \in Closers, CloseClear(t) PROVE Stops'
  BY <1>14 DEF CloseClear, Goto
<1>15. ASSUME NEW t \in Closers, CloseReset(t) PROVE Stops'
  BY <1>15 DEF CloseReset, Goto
<1>16. ASSUME NEW t \in Closers, CloseNotify(t) PROVE Stops'
  BY <1>16 DEF CloseNotify, Goto
<1>17. ASSUME NEW t \in Closers, CloseReturns(t) PROVE Stops'
  BY <1>17 DEF CloseReturns, Goto
<1>18. ASSUME ReadMessage PROVE Stops'
  BY <1>18 DEF ReadMessage
<1>19. ASSUME StoreMessage PROVE Stops'
  BY <1>19 DEF StoreMessage
<1>20. ASSUME ReadDisconnected PROVE Stops'
  BY <1>20 DEF ReadDisconnected
<1>21. ASSUME ReadRaises PROVE Stops'
  BY <1>21 DEF ReadRaises
<1>22. ASSUME InputCanceled PROVE Stops'
  BY <1>22 DEF InputCanceled
<1>23. ASSUME OnDisconnection PROVE Stops'
  BY <1>23 DEF OnDisconnection
<1>24. ASSUME ProcessMessage PROVE Stops'
  BY <1>24 DEF ProcessMessage
<1>25. ASSUME LeaveLoop PROVE Stops'
  BY <1>25 DEF LeaveLoop, Goto
<1>26. ASSUME Drained PROVE Stops'
  BY <1>26 DEF Drained, Goto
<1>27. ASSUME Unplug PROVE Stops'
  BY <1>27 DEF Unplug
<1>28. CASE UNCHANGED vars
  BY <1>28 DEF vars
<1> QED
  BY <1>1, <1>2, <1>3, <1>4, <1>5, <1>6, <1>7, <1>8, <1>9, <1>10, <1>11, <1>12, <1>13, <1>14, <1>15, <1>16, <1>17, <1>18, <1>19, <1>20, <1>21, <1>22, <1>23, <1>24, <1>25, <1>26, <1>27, <1>28
  DEF Next, OpenStep, CloseStep, InputStep, MessageStep

LEMMA UnwantedNext ==
  ASSUME Types, Opens, Stops, Unwanted, [Next]_vars
  PROVE  Unwanted'
<1> USE ThreadAssumption DEF Types, Opens, Stops, Unwanted, Opening, Passing, Commit, Closers, Labels, CloseLabels, session, counts
<1>1. ASSUME NEW u \in Users, OpenPort(u) PROVE Unwanted'
  BY <1>1 DEF OpenPort, Goto
<1>2. ASSUME NEW u \in Users, StartThreads(u) PROVE Unwanted'
  BY <1>2 DEF StartThreads, Goto
<1>3. ASSUME NEW u \in Users, MarkAlive(u) PROVE Unwanted'
  BY <1>3 DEF MarkAlive, Goto
<1>4. ASSUME NEW u \in Users, MarkOpened(u) PROVE Unwanted'
  BY <1>4 DEF MarkOpened, Goto
<1>5. ASSUME NEW u \in Users, ResetEnds(u) PROVE Unwanted'
  BY <1>5 DEF ResetEnds, Goto
<1>6. ASSUME NEW u \in Users, BeginClose(u) PROVE Unwanted'
  BY <1>6 DEF BeginClose, Goto
<1>7. ASSUME NEW u \in Users, BeginWait(u) PROVE Unwanted'
  BY <1>7 DEF BeginWait, Goto
<1>8. ASSUME NEW t \in Closers, CloseCheck(t) PROVE Unwanted'
  BY <1>8 DEF CloseCheck, Goto
<1>9. ASSUME NEW t \in Closers, CloseMark(t) PROVE Unwanted'
  BY <1>9 DEF CloseMark, Goto
<1>10. ASSUME NEW t \in Closers, CloseCancel(t) PROVE Unwanted'
  BY <1>10 DEF CloseCancel, Goto
<1>11. ASSUME NEW t \in Closers, CloseNop(t) PROVE Unwanted'
  BY <1>11 DEF CloseNop, Goto
<1>12. ASSUME NEW t \in Closers, Joined(t) PROVE Unwanted'
  BY <1>12 DEF Joined, Goto
<1>13. ASSUME NEW t \in Closers, AfterJoin(t) PROVE Unwanted'
  BY <1>13 DEF AfterJoin, Goto
<1>14. ASSUME NEW t \in Closers, CloseClear(t) PROVE Unwanted'
  BY <1>14 DEF CloseClear, Goto
<1>15. ASSUME NEW t \in Closers, CloseReset(t) PROVE Unwanted'
  BY <1>15 DEF CloseReset, Goto
<1>16. ASSUME NEW t \in Closers, CloseNotify(t) PROVE Unwanted'
  BY <1>16 DEF CloseNotify, Goto
<1>17. ASSUME NEW t \in Closers, CloseReturns(t) PROVE Unwanted'
  BY <1>17 DEF CloseReturns, Goto
<1>18. ASSUME ReadMessage PROVE Unwanted'
  BY <1>18 DEF ReadMessage
<1>19. ASSUME StoreMessage PROVE Unwanted'
  BY <1>19 DEF StoreMessage
<1>20. ASSUME ReadDisconnected PROVE Unwanted'
  BY <1>20 DEF ReadDisconnected
<1>21. ASSUME ReadRaises PROVE Unwanted'
  BY <1>21 DEF ReadRaises
<1>22. ASSUME InputCanceled PROVE Unwanted'
  BY <1>22 DEF InputCanceled
<1>23. ASSUME OnDisconnection PROVE Unwanted'
  BY <1>23 DEF OnDisconnection
<1>24. ASSUME ProcessMessage PROVE Unwanted'
  BY <1>24 DEF ProcessMessage
<1>25. ASSUME LeaveLoop PROVE Unwanted'
  BY <1>25 DEF LeaveLoop, Goto
<1>26. ASSUME Drained PROVE Unwanted'
  BY <1>26 DEF Drained, Goto
<1>27. ASSUME Unplug PROVE Unwanted'
  BY <1>27 DEF Unplug
<1>28. CASE UNCHANGED vars
  BY <1>28 DEF vars
<1> QED
  BY <1>1, <1>2, <1>3, <1>4, <1>5, <1>6, <1>7, <1>8, <1>9, <1>10, <1>11, <1>12, <1>13, <1>14, <1>15, <1>16, <1>17, <1>18, <1>19, <1>20, <1>21, <1>22, <1>23, <1>24, <1>25, <1>26, <1>27, <1>28
  DEF Next, OpenStep, CloseStep, InputStep, MessageStep

-----------------------------------------------------------------------------
(* Counting: who will still notify the connector, and what is queued.      *)

Committed == {t \in Closers : Passing(t)}
Marking   == {t \in Closers : pc[t] \in {"mark", "cancel", "nop"}}
InHand    == IF input = "store" THEN 1 ELSE 0

\* A device marked opened has told nobody yet that it is gone, and whoever
\* is past the second step of close() is still seen to be closing it.
OnceOpened ==
  opened =>
    /\ notified = 0
    /\ \A t \in Closers : pc[t] \notin {"reset", "notify"}
    /\ \A t \in Closers : Passing(t) => pc[t] = "mark" \/ closing

\* A thread notifies once for each time it finds the device opened, and the
\* device is opened once; a thread queues at most one NOP.
Counts ==
  /\ notified + Cardinality(Committed) <= Cardinality(Closers)
  /\ opened => queued + InHand <= sent
  /\ pc[MsgThread] = "off" \/ (\E u \in Users : pc[u] \in Opening) => queued + InHand <= sent
  /\ queued + InHand + Cardinality(Marking) <= sent + Cardinality(Closers)

LEMMA OnceOpenedInit == Init => OnceOpened
  BY DEF Init, OnceOpened

LEMMA Subsets ==
  /\ Cardinality(Closers) \in Nat
  /\ \A S \in SUBSET Closers :
       /\ IsFiniteSet(S) /\ Cardinality(S) \in Nat
       /\ \A R \in SUBSET S : Cardinality(R) \in Nat /\ Cardinality(R) <= Cardinality(S)
       /\ \A t \in S : Cardinality(S \ {t}) = Cardinality(S) - 1
<1>1. IsFiniteSet(Closers)
  BY FS_Union, FS_Singleton, ThreadAssumption DEF Closers
<1>2. \A S \in SUBSET Closers : IsFiniteSet(S)
  BY <1>1, FS_Subset
<1> QED
  BY <1>1, <1>2, FS_CardinalityType, FS_Subset, FS_RemoveElement

LEMMA CountsInit == Init => Counts
<1> SUFFICES ASSUME Init PROVE Counts
  OBVIOUS
<1>1. Committed = {} /\ Marking = {}
  BY DEF Init, Committed, Marking, Passing, Commit
<1> QED
  BY <1>1, FS_EmptySet, Subsets DEF Init, Counts, InHand

LEMMA OnceOpenedNext ==
  ASSUME Types, Opens, OnceOpened, [Next]_vars
  PROVE  OnceOpened'
<1> USE ThreadAssumption DEF Types, Opens, OnceOpened, Opening, Passing, Commit, Closers, Labels, CloseLabels, session, counts
<1>1. ASSUME NEW u \in Users, OpenPort(u) PROVE OnceOpened'
  BY <1>1 DEF OpenPort, Goto
<1>2. ASSUME NEW u \in Users, StartThreads(u) PROVE OnceOpened'
  BY <1>2 DEF StartThreads, Goto
<1>3. ASSUME NEW u \in Users, MarkAlive(u) PROVE OnceOpened'
  BY <1>3 DEF MarkAlive, Goto
<1>4. ASSUME NEW u \in Users, MarkOpened(u) PROVE OnceOpened'
  BY <1>4 DEF MarkOpened, Goto
<1>5. ASSUME NEW u \in Users, ResetEnds(u) PROVE OnceOpened'
  BY <1>5 DEF ResetEnds, Goto
<1>6. ASSUME NEW u \in Users, BeginClose(u) PROVE OnceOpened'
  BY <1>6 DEF BeginClose, Goto
<1>7. ASSUME NEW u \in Users, BeginWait(u) PROVE OnceOpened'
  BY <1>7 DEF BeginWait, Goto
<1>8. ASSUME NEW t \in Closers, CloseCheck(t) PROVE OnceOpened'
  BY <1>8 DEF CloseCheck, Goto
<1>9. ASSUME NEW t \in Closers, CloseMark(t) PROVE OnceOpened'
  BY <1>9 DEF CloseMark, Goto
<1>10. ASSUME NEW t \in Closers, CloseCancel(t) PROVE OnceOpened'
  BY <1>10 DEF CloseCancel, Goto
<1>11. ASSUME NEW t \in Closers, CloseNop(t) PROVE OnceOpened'
  BY <1>11 DEF CloseNop, Goto
<1>12. ASSUME NEW t \in Closers, Joined(t) PROVE OnceOpened'
  BY <1>12 DEF Joined, Goto
<1>13. ASSUME NEW t \in Closers, AfterJoin(t) PROVE OnceOpened'
  BY <1>13 DEF AfterJoin, Goto
<1>14. ASSUME NEW t \in Closers, CloseClear(t) PROVE OnceOpened'
  BY <1>14 DEF CloseClear, Goto
<1>15. ASSUME NEW t \in Closers, CloseReset(t) PROVE OnceOpened'
  BY <1>15 DEF CloseReset, Goto
<1>16. ASSUME NEW t \in Closers, CloseNotify(t) PROVE OnceOpened'
  BY <1>16 DEF CloseNotify, Goto
<1>17. ASSUME NEW t \in Closers, CloseReturns(t) PROVE OnceOpened'
  BY <1>17 DEF CloseReturns, Goto
<1>18. ASSUME ReadMessage PROVE OnceOpened'
  BY <1>18 DEF ReadMessage
<1>19. ASSUME StoreMessage PROVE OnceOpened'
  BY <1>19 DEF StoreMessage
<1>20. ASSUME ReadDisconnected PROVE OnceOpened'
  BY <1>20 DEF ReadDisconnected
<1>21. ASSUME ReadRaises PROVE OnceOpened'
  BY <1>21 DEF ReadRaises
<1>22. ASSUME InputCanceled PROVE OnceOpened'
  BY <1>22 DEF InputCanceled
<1>23. ASSUME OnDisconnection PROVE OnceOpened'
  BY <1>23 DEF OnDisconnection
<1>24. ASSUME ProcessMessage PROVE OnceOpened'
  BY <1>24 DEF ProcessMessage
<1>25. ASSUME LeaveLoop PROVE OnceOpened'
  BY <1>25 DEF LeaveLoop, Goto
<1>26. ASSUME Drained PROVE OnceOpened'
  BY <1>26 DEF Drained, Goto
<1>27. ASSUME Unplug PROVE OnceOpened'
  BY <1>27 DEF Unplug
<1>28. CASE UNCHANGED vars
  BY <1>28 DEF vars
<1> QED
  BY <1>1, <1>2, <1>3, <1>4, <1>5, <1>6, <1>7, <1>8, <1>9, <1>10, <1>11, <1>12, <1>13, <1>14, <1>15, <1>16, <1>17, <1>18, <1>19, <1>20, <1>21, <1>22, <1>23, <1>24, <1>25, <1>26, <1>27, <1>28
  DEF Next, OpenStep, CloseStep, InputStep, MessageStep

\* What the cardinalities do when the sets do not grow.
Fewer ==
  /\ Cardinality(Committed)' \in Nat /\ Cardinality(Committed)' <= Cardinality(Committed)
  /\ Cardinality(Marking)' \in Nat /\ Cardinality(Marking)' <= Cardinality(Marking)

LEMMA FewerWhenSubsets ==
  ASSUME Committed' \subseteq Committed, Marking' \subseteq Marking
  PROVE  Fewer
<1>1. Committed \in SUBSET Closers /\ Marking \in SUBSET Closers
  BY DEF Committed, Marking
<1> QED
  BY <1>1, Subsets DEF Fewer

LEMMA CountsNext ==
  ASSUME Types, Opens, OnceOpened, Counts, [Next]_vars
  PROVE  Counts'
<1> USE ThreadAssumption DEF Types, Closers, Opening, session, counts
<1>0. /\ Cardinality(Closers) \in Nat /\ Cardinality(Committed) \in Nat
      /\ Cardinality(Marking) \in Nat
  BY Subsets DEF Committed, Marking
<1>1. ASSUME NEW u \in Users, OpenPort(u) PROVE Counts'
  <2>1. Fewer
    <3>1. Committed' \subseteq Committed /\ Marking' \subseteq Marking
      BY <1>1 DEF OpenPort, Goto, Committed, Marking, Passing, Commit, Labels, CloseLabels
    <3> QED
      BY <3>1, FewerWhenSubsets
  <2> QED
    BY <1>0, <1>1, <2>1 DEF OpenPort, Goto, Fewer, Counts, OnceOpened, Opens, InHand
<1>2. ASSUME NEW u \in Users, StartThreads(u) PROVE Counts'
  <2>1. Fewer
    <3>1. Committed' \subseteq Committed /\ Marking' \subseteq Marking
      BY <1>2 DEF StartThreads, Goto, Committed, Marking, Passing, Commit, Labels, CloseLabels
    <3> QED
      BY <3>1, FewerWhenSubsets
  <2> QED
    BY <1>0, <1>2, <2>1 DEF StartThreads, Goto, Fewer, Counts, OnceOpened, Opens, InHand
<1>3. ASSUME NEW u \in Users, MarkAlive(u) PROVE Counts'
  <2>1. Fewer
    <3>1. Committed' \subseteq Committed /\ Marking' \subseteq Marking
      BY <1>3 DEF MarkAlive, Goto, Committed, Marking, Passing, Commit, Labels, CloseLabels
    <3> QED
      BY <3>1, FewerWhenSubsets
  <2> QED
    BY <1>0, <1>3, <2>1 DEF MarkAlive, Goto, Fewer, Counts, OnceOpened, Opens, InHand
<1>4. ASSUME NEW u \in Users, MarkOpened(u) PROVE Counts'
  <2>1. Fewer
    <3>1. Committed' \subseteq Committed /\ Marking' \subseteq Marking
      BY <1>4 DEF MarkOpened, Goto, Committed, Marking, Passing, Commit, Labels, CloseLabels
    <3> QED
      BY <3>1, FewerWhenSubsets
  <2> QED
    BY <1>0, <1>4, <2>1 DEF MarkOpened, Goto, Fewer, Counts, OnceOpened, Opens, InHand
<1>5. ASSUME NEW u \in Users, ResetEnds(u) PROVE Counts'
  <2>1. Fewer
    <3>1. Committed' \subseteq Committed /\ Marking' \subseteq Marking
      BY <1>5 DEF ResetEnds, Goto, Committed, Marking, Passing, Commit, Labels, CloseLabels
    <3> QED
      BY <3>1, FewerWhenSubsets
  <2> QED
    BY <1>0, <1>5, <2>1 DEF ResetEnds, Goto, Fewer, Counts, OnceOpened, Opens, InHand
<1>6. ASSUME NEW u \in Users, BeginClose(u) PROVE Counts'
  <2>1. Fewer
    <3>1. Committed' \subseteq Committed /\ Marking' \subseteq Marking
      BY <1>6 DEF BeginClose, Goto, Committed, Marking, Passing, Commit, Labels, CloseLabels
    <3> QED
      BY <3>1, FewerWhenSubsets
  <2> QED
    BY <1>0, <1>6, <2>1 DEF BeginClose, Goto, Fewer, Counts, OnceOpened, Opens, InHand
<1>7. ASSUME NEW u \in Users, BeginWait(u) PROVE Counts'
  <2>1. Fewer
    <3>1. Committed' \subseteq Committed /\ Marking' \subseteq Marking
      BY <1>7 DEF BeginWait, Goto, Committed, Marking, Passing, Commit, Labels, CloseLabels
    <3> QED
      BY <3>1, FewerWhenSubsets
  <2> QED
    BY <1>0, <1>7, <2>1 DEF BeginWait, Goto, Fewer, Counts, OnceOpened, Opens, InHand
<1>8. ASSUME NEW t \in Closers, CloseCheck(t) PROVE Counts'
  <2>1. Marking' \in SUBSET Closers /\ Committed' \in SUBSET Closers
    BY DEF Committed, Marking
  <2>2. /\ Cardinality(Committed)' \in Nat /\ Cardinality(Committed)' <= Cardinality(Closers)
        /\ Cardinality(Marking)' \in Nat /\ Cardinality(Marking)' <= Cardinality(Closers)
    BY <2>1, Subsets
  <2>3. CASE ~opened \/ closing
    <3>1. Committed' \subseteq Committed /\ Marking' \subseteq Marking
      BY <1>8, <2>3 DEF CloseCheck, Goto, Committed, Marking, Passing, Commit, Labels, CloseLabels
    <3>2. Fewer
      BY <3>1, FewerWhenSubsets
    <3> QED
      BY <1>0, <1>8, <2>3, <3>2 DEF CloseCheck, Goto, Fewer, Counts, OnceOpened, Opens, InHand
  <2>4. CASE opened /\ ~closing
    BY <1>0, <1>8, <2>2, <2>4 DEF CloseCheck, Goto, Counts, OnceOpened, Opens, InHand
  <2> QED
    BY <2>3, <2>4
<1>9. ASSUME NEW t \in Closers, CloseMark(t) PROVE Counts'
  <2>1. Fewer
    <3>1. Committed' \subseteq Committed /\ Marking' \subseteq Marking
      BY <1>9 DEF CloseMark, Goto, Committed, Marking, Passing, Commit, Labels, CloseLabels
    <3> QED
      BY <3>1, FewerWhenSubsets
  <2> QED
    BY <1>0, <1>9, <2>1 DEF CloseMark, Goto, Fewer, Counts, OnceOpened, Opens, InHand
<1>10. ASSUME NEW t \in Closers, CloseCancel(t) PROVE Counts'
  <2>1. Fewer
    <3>1. Committed' \subseteq Committed /\ Marking' \subseteq Marking
      BY <1>10 DEF CloseCancel, Goto, Committed, Marking, Passing, Commit, Labels, CloseLabels
    <3> QED
      BY <3>1, FewerWhenSubsets
  <2> QED
    BY <1>0, <1>10, <2>1 DEF CloseCancel, Goto, Fewer, Counts, OnceOpened, Opens, InHand
<1>11. ASSUME NEW t \in Closers, CloseNop(t) PROVE Counts'
  <2>1. Committed' \subseteq Committed /\ Marking' = Marking \ {t} /\ t \in Marking
    BY <1>11 DEF CloseNop, Goto, Committed, Marking, Passing, Commit, Labels, CloseLabels
  <2>2. Fewer
    BY <2>1, FewerWhenSubsets
  <2>3. Cardinality(Marking)' = Cardinality(Marking) - 1
    BY <2>1, Subsets DEF Marking
  <2>4. opened => closing
    BY <1>11 DEF CloseNop, Goto, OnceOpened, Passing, Commit
  <2> QED
    BY <1>0, <1>11, <2>2, <2>3, <2>4
    DEF CloseNop, Goto, Fewer, Counts, Opens, Passing, Commit, InHand
<1>12. ASSUME NEW t \in Closers, Joined(t) PROVE Counts'
  <2>1. Fewer
    <3>1. Committed' \subseteq Committed /\ Marking' \subseteq Marking
      BY <1>12 DEF Joined, Goto, Committed, Marking, Passing, Commit, Labels, CloseLabels
    <3> QED
      BY <3>1, FewerWhenSubsets
  <2> QED
    BY <1>0, <1>12, <2>1 DEF Joined, Goto, Fewer, Counts, OnceOpened, Opens, InHand
<1>13. ASSUME NEW t \in Closers, AfterJoin(t) PROVE Counts'
  <2>1. Fewer
    <3>1. Committed' \subseteq Committed /\ Marking' \subseteq Marking
      BY <1>13 DEF AfterJoin, Goto, Committed, Marking, Passing, Commit, Labels, CloseLabels
    <3> QED
      BY <3>1, FewerWhenSubsets
  <2> QED
    BY <1>0, <1>13, <2>1 DEF AfterJoin, Goto, Fewer, Counts, OnceOpened, Opens, InHand
<1>14. ASSUME NEW t \in Closers, CloseClear(t) PROVE Counts'
  <2>1. Fewer
    <3>1. Committed' \subseteq Committed /\ Marking' \subseteq Marking
      BY <1>14 DEF CloseClear, Goto, Committed, Marking, Passing, Commit, Labels, CloseLabels
    <3> QED
      BY <3>1, FewerWhenSubsets
  <2> QED
    BY <1>0, <1>14, <2>1 DEF CloseClear, Goto, Fewer, Counts, OnceOpened, Opens, InHand
<1>15. ASSUME NEW t \in Closers, CloseReset(t) PROVE Counts'
  <2>1. Fewer
    <3>1. Committed' \subseteq Committed /\ Marking' \subseteq Marking
      BY <1>15 DEF CloseReset, Goto, Committed, Marking, Passing, Commit, Labels, CloseLabels
    <3> QED
      BY <3>1, FewerWhenSubsets
  <2> QED
    BY <1>0, <1>15, <2>1 DEF CloseReset, Goto, Fewer, Counts, OnceOpened, Opens, InHand
<1>16. ASSUME NEW t \in Closers, CloseNotify(t) PROVE Counts'
  <2>1. Committed' = Committed \ {t} /\ t \in Committed /\ Marking' \subseteq Marking
    BY <1>16 DEF CloseNotify, Goto, Committed, Marking, Passing, Commit, Labels, CloseLabels
  <2>2. Fewer
    BY <2>1, FewerWhenSubsets
  <2>3. Cardinality(Committed)' = Cardinality(Committed) - 1
    BY <2>1, Subsets DEF Committed
  <2> QED
    BY <1>0, <1>16, <2>2, <2>3 DEF CloseNotify, Goto, Fewer, Counts, OnceOpened, Opens, InHand
<1>17. ASSUME NEW t \in Closers, CloseReturns(t) PROVE Counts'
  <2>1. Fewer
    <3>1. Committed' \subseteq Committed /\ Marking' \subseteq Marking
      BY <1>17 DEF CloseReturns, Goto, Committed, Marking, Passing, Commit, Labels, CloseLabels
    <3> QED
      BY <3>1, FewerWhenSubsets
  <2> QED
    BY <1>0, <1>17, <2>1 DEF CloseReturns, Goto, Fewer, Counts, OnceOpened, Opens, InHand
<1>18. ASSUME ReadMessage PROVE Counts'
  <2>1. Fewer
    <3>1. Committed' \subseteq Committed /\ Marking' \subseteq Marking
      BY <1>18 DEF ReadMessage, Committed, Marking, Passing, Commit, Labels, CloseLabels
    <3> QED
      BY <3>1, FewerWhenSubsets
  <2> QED
    BY <1>0, <1>18, <2>1 DEF ReadMessage, Fewer, Counts, OnceOpened, Opens, InHand
<1>19. ASSUME StoreMessage PROVE Counts'
  <2>1. Fewer
    <3>1. Committed' \subseteq Committed /\ Marking' \subseteq Marking
      BY <1>19 DEF StoreMessage, Committed, Marking, Passing, Commit, Labels, CloseLabels
    <3> QED
      BY <3>1, FewerWhenSubsets
  <2> QED
    BY <1>0, <1>19, <2>1 DEF StoreMessage, Fewer, Counts, OnceOpened, Opens, InHand
<1>20. ASSUME ReadDisconnected PROVE Counts'
  <2>1. Fewer
    <3>1. Committed' \subseteq Committed /\ Marking' \subseteq Marking
      BY <1>20 DEF ReadDisconnected, Committed, Marking, Passing, Commit, Labels, CloseLabels
    <3> QED
      BY <3>1, FewerWhenSubsets
  <2> QED
    BY <1>0, <1>20, <2>1 DEF ReadDisconnected, Fewer, Counts, OnceOpened, Opens, InHand
<1>21. ASSUME ReadRaises PROVE Counts'
  <2>1. Fewer
    <3>1. Committed' \subseteq Committed /\ Marking' \subseteq Marking
      BY <1>21 DEF ReadRaises, Committed, Marking, Passing, Commit, Labels, CloseLabels
    <3> QED
      BY <3>1, FewerWhenSubsets
  <2> QED
    BY <1>0, <1>21, <2>1 DEF ReadRaises, Fewer, Counts, OnceOpened, Opens, InHand
<1>22. ASSUME InputCanceled PROVE Counts'
  <2>1. Fewer
    <3>1. Committed' \subseteq Committed /\ Marking' \subseteq Marking
      BY <1>22 DEF InputCanceled, Committed, Marking, Passing, Commit, Labels, CloseLabels
    <3> QED
      BY <3>1, FewerWhenSubsets
  <2> QED
    BY <1>0, <1>22, <2>1 DEF InputCanceled, Fewer, Counts, OnceOpened, Opens, InHand
<1>23. ASSUME OnDisconnection PROVE Counts'
  <2>1. Fewer
    <3>1. Committed' \subseteq Committed /\ Marking' \subseteq Marking
      BY <1>23 DEF OnDisconnection, Committed, Marking, Passing, Commit, Labels, CloseLabels
    <3> QED
      BY <3>1, FewerWhenSubsets
  <2> QED
    BY <1>0, <1>23, <2>1 DEF OnDisconnection, Fewer, Counts, OnceOpened, Opens, InHand
<1>24. ASSUME ProcessMessage PROVE Counts'
  <2>1. Fewer
    <3>1. Committed' \subseteq Committed /\ Marking' \subseteq Marking
      BY <1>24 DEF ProcessMessage, Committed, Marking, Passing, Commit, Labels, CloseLabels
    <3> QED
      BY <3>1, FewerWhenSubsets
  <2> QED
    BY <1>0, <1>24, <2>1 DEF ProcessMessage, Fewer, Counts, OnceOpened, Opens, InHand
<1>25. ASSUME LeaveLoop PROVE Counts'
  <2>1. Fewer
    <3>1. Committed' \subseteq Committed /\ Marking' \subseteq Marking
      BY <1>25 DEF LeaveLoop, Goto, Committed, Marking, Passing, Commit, Labels, CloseLabels
    <3> QED
      BY <3>1, FewerWhenSubsets
  <2> QED
    BY <1>0, <1>25, <2>1 DEF LeaveLoop, Goto, Fewer, Counts, OnceOpened, Opens, InHand
<1>26. ASSUME Drained PROVE Counts'
  <2>1. Fewer
    <3>1. Committed' \subseteq Committed /\ Marking' \subseteq Marking
      BY <1>26 DEF Drained, Goto, Committed, Marking, Passing, Commit, Labels, CloseLabels
    <3> QED
      BY <3>1, FewerWhenSubsets
  <2> QED
    BY <1>0, <1>26, <2>1 DEF Drained, Goto, Fewer, Counts, OnceOpened, Opens, InHand
<1>27. ASSUME Unplug PROVE Counts'
  <2>1. Fewer
    <3>1. Committed' \subseteq Committed /\ Marking' \subseteq Marking
      BY <1>27 DEF Unplug, Committed, Marking, Passing, Commit, Labels, CloseLabels
    <3> QED
      BY <3>1, FewerWhenSubsets
  <2> QED
    BY <1>0, <1>27, <2>1 DEF Unplug, Fewer, Counts, OnceOpened, Opens, InHand
<1>28. CASE UNCHANGED vars
  <2>1. Fewer
    <3>1. Committed' \subseteq Committed /\ Marking' \subseteq Marking
      BY <1>28 DEF vars, Committed, Marking, Passing, Commit, Labels, CloseLabels
    <3> QED
      BY <3>1, FewerWhenSubsets
  <2> QED
    BY <1>0, <1>28, <2>1 DEF vars, Fewer, Counts, OnceOpened, Opens, InHand
<1> QED
  BY <1>1, <1>2, <1>3, <1>4, <1>5, <1>6, <1>7, <1>8, <1>9, <1>10, <1>11, <1>12, <1>13, <1>14, <1>15, <1>16, <1>17, <1>18, <1>19, <1>20, <1>21, <1>22, <1>23, <1>24, <1>25, <1>26, <1>27, <1>28
  DEF Next, OpenStep, CloseStep, InputStep, MessageStep

-----------------------------------------------------------------------------
(* The theorems.                                                           *)

Inv == Types /\ Opens /\ Stops /\ Unwanted /\ OnceOpened /\ Counts

LEMMA InvInit == Init => Inv
  BY TypesInit, OpensInit, StopsInit, OnceOpenedInit, CountsInit DEF Inv

LEMMA InvNext ==
  ASSUME Inv, [Next]_vars
  PROVE  Inv'
  BY TypesNext, OpensNext, StopsNext, UnwantedNext, OnceOpenedNext, CountsNext DEF Inv

\* Every variable keeps its type; in particular the connector is notified at
\* most once by each thread that may close the device, and the queue holds no
\* more than the messages of the device and one NOP for each of these threads.
THEOREM TypeCorrect == Spec => []TypeOK
<1>1. Inv /\ [Next]_vars => Inv'
  BY InvNext
<1>2. Inv => TypeOK
  <2> SUFFICES ASSUME Inv PROVE TypeOK
    OBVIOUS
  <2>1. Committed \in SUBSET Closers /\ Marking \in SUBSET Closers
    BY DEF Committed, Marking
  <2>2. /\ Cardinality(Closers) \in Nat /\ Cardinality(Committed) \in Nat
        /\ Cardinality(Marking) \in Nat
    BY <2>1, Subsets
  <2>3. queued \in 0..(MaxMsgs + Cardinality(Closers)) /\ notified \in 0..Cardinality(Closers)
    BY <2>2, ThreadAssumption DEF Inv, Types, Counts, InHand
  <2> QED
    BY <2>3 DEF Inv, Types, TypeOK, Labels
<1> QED
  BY <1>1, <1>2, InvInit, PTL DEF Spec

\* However many threads close the device at once, the connector is told that
\* it is gone only when the input thread has stopped reading it.
THEOREM ReaderStopped == Spec => []ReaderStopsFirst
<1>1. Inv /\ [Next]_vars => Inv'
  BY InvNext
<1>2. Inv => ReaderStopsFirst
  BY DEF Inv, Stops, ReaderStopsFirst
<1> QED
  BY <1>1, <1>2, InvInit, PTL DEF Spec

\* When the device goes away and no user closes it, the message thread ends
\* with every message read before dispatched.
THEOREM AllDispatched == Spec => []NothingStranded
<1>1. Inv /\ [Next]_vars => Inv'
  BY InvNext
<1>2. Inv => NothingStranded
  BY DEF Inv, Unwanted, NothingStranded
<1> QED
  BY <1>1, <1>2, InvInit, PTL DEF Spec

-----------------------------------------------------------------------------
(* The input thread is canceled before anyone joins it in close().         *)

\* __alive is set before the device is opened and reset only when the input
\* thread has told that it is disconnected, and then it has canceled itself.
Cancels ==
  /\ disconnected => inCanceled
  /\ opened => alive \/ inCanceled
  /\ \A t \in Closers : pc[t] \in {"opened", "mark", "cancel"} => alive \/ inCanceled
  /\ \A t \in Closers : pc[t] = "nop" \/ (pc[t] = "join" /\ joinFor[t] = "close") => inCanceled

LEMMA CancelsInit == Init => Cancels
  BY ThreadAssumption DEF Init, Cancels, Closers

LEMMA CancelsNext ==
  ASSUME Types, Cancels, [Next]_vars
  PROVE  Cancels'
<1> USE ThreadAssumption DEF Types, Cancels, Closers, Labels, CloseLabels, session, counts
<1>1. ASSUME NEW u \in Users, OpenPort(u) PROVE Cancels'
  BY <1>1 DEF OpenPort, Goto
<1>2. ASSUME NEW u \in Users, StartThreads(u) PROVE Cancels'
  BY <1>2 DEF StartThreads, Goto
<1>3. ASSUME NEW u \in Users, MarkAlive(u) PROVE Cancels'
  BY <1>3 DEF MarkAlive, Goto
<1>4. ASSUME NEW u \in Users, MarkOpened(u) PROVE Cancels'
  BY <1>4 DEF MarkOpened, Goto
<1>5. ASSUME NEW u \in Users, ResetEnds(u) PROVE Cancels'
  BY <1>5 DEF ResetEnds, Goto
<1>6. ASSUME NEW u \in Users, BeginClose(u) PROVE Cancels'
  BY <1>6 DEF BeginClose, Goto
<1>7. ASSUME NEW u \in Users, BeginWait(u) PROVE Cancels'
  BY <1>7 DEF BeginWait, Goto
<1>8. ASSUME NEW t \in Closers, CloseCheck(t) PROVE Cancels'
  BY <1>8 DEF CloseCheck, Goto
<1>9. ASSUME NEW t \in Closers, CloseMark(t) PROVE Cancels'
  BY <1>9 DEF CloseMark, Goto
<1>10. ASSUME NEW t \in Closers, CloseCancel(t) PROVE Cancels'
  BY <1>10 DEF CloseCancel, Goto
<1>11. ASSUME NEW t \in Closers, CloseNop(t) PROVE Cancels'
  BY <1>11 DEF CloseNop, Goto
<1>12. ASSUME NEW t \in Closers, Joined(t) PROVE Cancels'
  BY <1>12 DEF Joined, Goto
<1>13. ASSUME NEW t \in Closers, AfterJoin(t) PROVE Cancels'
  BY <1>13 DEF AfterJoin, Goto
<1>14. ASSUME NEW t \in Closers, CloseClear(t) PROVE Cancels'
  BY <1>14 DEF CloseClear, Goto
<1>15. ASSUME NEW t \in Closers, CloseReset(t) PROVE Cancels'
  BY <1>15 DEF CloseReset, Goto
<1>16. ASSUME NEW t \in Closers, CloseNotify(t) PROVE Cancels'
  BY <1>16 DEF CloseNotify, Goto
<1>17. ASSUME NEW t \in Closers, CloseReturns(t) PROVE Cancels'
  BY <1>17 DEF CloseReturns, Goto
<1>18. ASSUME ReadMessage PROVE Cancels'
  BY <1>18 DEF ReadMessage
<1>19. ASSUME StoreMessage PROVE Cancels'
  BY <1>19 DEF StoreMessage
<1>20. ASSUME ReadDisconnected PROVE Cancels'
  BY <1>20 DEF ReadDisconnected
<1>21. ASSUME ReadRaises PROVE Cancels'
  BY <1>21 DEF ReadRaises
<1>22. ASSUME InputCanceled PROVE Cancels'
  BY <1>22 DEF InputCanceled
<1>23. ASSUME OnDisconnection PROVE Cancels'
  BY <1>23 DEF OnDisconnection
<1>24. ASSUME ProcessMessage PROVE Cancels'
  BY <1>24 DEF ProcessMessage
<1>25. ASSUME LeaveLoop PROVE Cancels'
  BY <1>25 DEF LeaveLoop, Goto
<1>26. ASSUME Drained PROVE Cancels'
  BY <1>26 DEF Drained, Goto
<1>27. ASSUME Unplug PROVE Cancels'
  BY <1>27 DEF Unplug
<1>28. CASE UNCHANGED vars
  BY <1>28 DEF vars
<1> QED
  BY <1>1, <1>2, <1>3, <1>4, <1>5, <1>6, <1>7, <1>8, <1>9, <1>10, <1>11, <1>12, <1>13, <1>14, <1>15, <1>16, <1>17, <1>18, <1>19, <1>20, <1>21, <1>22, <1>23, <1>24, <1>25, <1>26, <1>27, <1>28
  DEF Next, OpenStep, CloseStep, InputStep, MessageStep

\* Whoever joins the threads in close() has canceled the input thread, though
\* is_alive() is read while other threads, in wait() or in close(), may be
\* resetting it: cancel() is skipped only for a thread that is already gone.
THEOREM JoinsAfterCancel == Spec => []JoinsCanceled
<1>1. Init => Types /\ Cancels
  BY TypesInit, CancelsInit
<1>2. Types /\ Cancels /\ [Next]_vars => Types' /\ Cancels'
  BY TypesNext, CancelsNext
<1>3. Cancels => JoinsCanceled
  BY DEF Cancels, JoinsCanceled
<1> QED
  BY <1>1, <1>2, <1>3, PTL DEF Spec
=============================================================================
