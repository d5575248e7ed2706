
---------------------------- MODULE RelayProofs ----------------------------
(* Theorems about Relay, for every set of users, tabs and messages.        *)
EXTENDS Relay, TLAPS, FiniteSetTheorems, SequenceTheorems

---------------------------------------------------------------------------
(* Type correctness                                                        *)

\* The two frame constructors build frames.
LEMMA FrameTypes ==
    /\ \A m \in Msg : MessageFrame(m) \in Frame
    /\ \A o \in User : OfferFrame(o) \in Frame
BY DEF MessageFrame, OfferFrame, Frame

\* What either SELECT of a flush returns is a sequence of frames.
LEMMA BatchTypes ==
    ASSUME NEW u \in User
    PROVE  QueueBatches(u) \subseteq Seq(Frame) /\ OfferBatches(u) \subseteq Seq(Frame)
<1>1. ASSUME NEW b \in QueueBatches(u) PROVE b \in Seq(Frame)
    <2> DEFINE ms == {m \in Msg : <<m, u>> \in queue /\ Deliverable(u)}
               n == IF Cardinality(ms) <= FlushLimit THEN Cardinality(ms) ELSE FlushLimit
    <2>1. n \in Nat
        <3>1. IsFiniteSet(ms)
            BY FS_Subset, ConstantsAssumption
        <3>2. QED
            BY <3>1, FS_CardinalityType, ConstantsAssumption
    <2> HIDE DEF n
    <2>2. PICK q \in Oldest(ms) : b = [i \in DOMAIN q |-> MessageFrame(q[i])]
        BY DEF QueueBatches
    <2>3. q \in [1..n -> ms]
        BY DEF Oldest, Listings, n
    <2>4. b \in [1..n -> Frame]
        BY <2>2, <2>3, FrameTypes
    <2>5. QED
        BY <2>1, <2>4, SeqDef
<1>2. ASSUME NEW b \in OfferBatches(u) PROVE b \in Seq(Frame)
    <2> DEFINE os == {o \in User : <<o, u>> \in offers /\ Deliverable(u)}
               n == Cardinality(os)
    <2>1. n \in Nat
        <3>1. IsFiniteSet(os)
            BY FS_Subset, ConstantsAssumption
        <3>2. QED
            BY <3>1, FS_CardinalityType
    <2> HIDE DEF n
    <2>2. PICK q \in Listings(n, os) : b = [i \in DOMAIN q |-> OfferFrame(q[i])]
        BY DEF OfferBatches, n
    <2>3. q \in [1..n -> os]
        BY DEF Listings
    <2>4. b \in [1..n -> Frame]
        BY <2>2, <2>3, FrameTypes
    <2>5. QED
        BY <2>1, <2>4, SeqDef
<1>3. QED
    BY <1>1, <1>2

\* The stages of a flush, begun, filled or followed by the next, are flush records.
LEMMA StageTypes ==
    /\ \A st \in Stage : Begin(st) \in FlushType
    /\ Idle \in FlushType
    /\ \A t \in Task : NextStage(t) \in FlushType
    /\ \A h \in FlushType, b \in Seq(Frame) :
            [h EXCEPT !.got = TRUE, !.batch = b] \in FlushType
<1>1. << >> \in Seq(Frame)
    BY EmptySeq
<1>2. ASSUME NEW st \in Stage PROVE Begin(st) \in FlushType
    BY <1>1 DEF Begin, FlushType
<1>3. ASSUME NEW h \in FlushType, NEW b \in Seq(Frame)
      PROVE  [h EXCEPT !.got = TRUE, !.batch = b] \in FlushType
    BY DEF FlushType
<1>4. QED
    BY <1>2, <1>3 DEF NextStage, Idle, Stage

\* The steps of a handler keep its record a record.
LEMMA HandlerTypes ==
    /\ Unsent \in SendType /\ [Unsent EXCEPT !.pc = "failed"] \in SendType
    /\ [Unsent EXCEPT !.pc = "done"] \in SendType
    /\ \A h \in SendType :
        /\ [h EXCEPT !.pc = "stamped"] \in SendType
        /\ h.pc = "insert" => [h EXCEPT !.pc = "push"] \in SendType /\ h.cur \in User
        /\ h.pc = "push" => h.cur \in User
        /\ Advance(h) \in SendType
        /\ \A l \in [User -> Status] : [h EXCEPT !.left = l] \in SendType
        /\ \A u \in User : /\ [h EXCEPT !.left[u] = "none"] \in SendType
                           /\ [h EXCEPT !.pc = "insert", !.cur = u] \in SendType
    /\ NoOffer \in OfferingType
    /\ \A h \in OfferingType : [h EXCEPT !.pc = "push"] \in OfferingType
<1>1. "none" \in Status
    BY DEF Status
<1>2. QED
    BY <1>1, ZenonT(60) DEF Unsent, SendType, Advance, NoOffer, OfferingType

\* sendTo appends a frame, or nothing, to every wire.
LEMMA SendToType ==
    ASSUME TypeOK, NEW u \in User, NEW f \in Frame, SendTo(u, f)
    PROVE  wire' \in [Socket -> Seq(Frame)]
BY AppendProperties DEF TypeOK, SendTo

\* The first state has every variable in its type.
LEMMA TypeInit == Init => TypeOK
<1> SUFFICES ASSUME Init PROVE TypeOK
    OBVIOUS
<1>1. wire \in [Socket -> Seq(Frame)]
    BY EmptySeq DEF Init
<1>2. /\ flush \in [Task -> FlushType] /\ send \in [Msg -> SendType]
      /\ offering \in [Pair -> OfferingType]
    BY StageTypes, HandlerTypes DEF Init
<1>3. /\ stamp \in [Msg -> Nat] /\ status \in [User -> Status] /\ watch \in [Msg -> WatchType]
    BY DEF Init, Status, WatchType
<1>4. queue \subseteq Row /\ posted \subseteq Row /\ dropped \subseteq Row
    BY ConstantsAssumption DEF Init, Row
<1>5. exists \in BOOLEAN /\ blocks \subseteq Pair /\ offers \subseteq Pair
    BY ConstantsAssumption DEF Init, Pair
<1>6. /\ sock \in [Socket -> {"closed", "flushing", "open"}] /\ registry \subseteq Socket
      /\ walk \in [User -> SUBSET Socket]
      /\ leaving \in [User -> {"idle", "queue", "offers", "channel"}]
    BY ConstantsAssumption DEF Init
<1>7. /\ recv \in [Socket -> SUBSET Frame] /\ acks \in [Socket -> SUBSET Frame]
      /\ stored \in [User -> SUBSET Msg] /\ hasKey \in [User -> BOOLEAN]
      /\ everActive \subseteq User /\ steady \in [Msg -> SUBSET User]
    BY ConstantsAssumption DEF Init
<1>8. QED
    BY <1>1, <1>2, <1>3, <1>4, <1>5, <1>6, <1>7 DEF TypeOK

\* No step of the database, the relay or a client takes a variable out of its type.
LEMMA TypeStep == TypeOK /\ [Next]_vars => TypeOK'
<1> SUFFICES ASSUME TypeOK, [Next]_vars PROVE TypeOK'
    OBVIOUS
<1> USE DEF TypeOK, dbVars, taskVars, connVars, clientVars, ghostVars
<1>1. ASSUME NEW s \in Socket, Connect(s) PROVE TypeOK'
    <2>1. flush' \in [Task -> FlushType]
        BY <1>1, StageTypes DEF Connect, Task, Stage
    <2>2. QED
        BY <1>1, <2>1 DEF Connect
<1>2. ASSUME NEW t \in Task, FlushQuery(t) PROVE TypeOK'
    <2>1. PICK b \in Seq(Frame) :
             flush' = [flush EXCEPT ![t] = [@ EXCEPT !.got = TRUE, !.batch = b]]
        BY <1>2, BatchTypes, ConstantsAssumption DEF FlushQuery, Task
    <2>2. flush' \in [Task -> FlushType]
        BY <1>2, <2>1, StageTypes
    <2>3. QED
        BY <1>2, <2>1, <2>2 DEF FlushQuery
<1>3. ASSUME NEW t \in Task, FlushSend(t) PROVE TypeOK'
    <2>1. flush' \in [Task -> FlushType]
        BY <1>3, StageTypes DEF FlushSend
    <2>2. wire' \in [Socket -> Seq(Frame)]
        BY <1>3, ConcatProperties DEF FlushSend, FlushType, Task
    <2>3. QED
        BY <1>3, <2>1, <2>2 DEF FlushSend, Attach, Task
<1>4. ASSUME NEW t \in Task, FlushFail(t) PROVE TypeOK'
    <2>1. flush' \in [Task -> FlushType]
        BY <1>4, StageTypes DEF FlushFail
    <2>2. QED
        BY <1>4, <2>1 DEF FlushFail, Attach, Task
<1>5. ASSUME NEW s \in Socket, ResumeVisit(s) PROVE TypeOK'
    <2>1. flush' \in [Task -> FlushType]
        BY <1>5, StageTypes DEF ResumeVisit, Stage
    <2>2. QED
        BY <1>5, <2>1 DEF ResumeVisit
<1>6. ASSUME NEW s \in Socket, NEW dies \in BOOLEAN, Close(s, dies) PROVE TypeOK'
    <2>1. flush' \in [Task -> FlushType]
        BY <1>6, StageTypes DEF Close
    <2>2. wire' \in [Socket -> Seq(Frame)]
        BY <1>6, EmptySeq DEF Close
    <2>3. QED
        BY <1>6, <2>1, <2>2 DEF Close, Committed
<1>7. ASSUME ServerCrash PROVE TypeOK'
    <2>1. flush' \in [Task -> FlushType]
        BY <1>7, StageTypes DEF ServerCrash
    <2>2. wire' \in [Socket -> Seq(Frame)]
        BY <1>7, EmptySeq DEF ServerCrash
    <2>3. send' \in [Msg -> SendType] /\ offering' \in [Pair -> OfferingType]
        BY <1>7, HandlerTypes DEF ServerCrash
    <2>4. QED
        BY <1>7, <2>1, <2>2, <2>3 DEF ServerCrash
<1>8. ASSUME NEW m \in Msg, StartSend(m) PROVE TypeOK'
    <2>1. send' \in [Msg -> SendType]
        BY <1>8, HandlerTypes DEF StartSend
    <2>2. stamp' \in [Msg -> Nat] /\ watch' \in [Msg -> WatchType]
        BY <1>8 DEF StartSend, NextStamps, WatchType
    <2>3. QED
        BY <1>8, <2>1, <2>2 DEF StartSend
<1>9. ASSUME NEW m \in Msg, Snapshot(m) PROVE TypeOK'
    <2>1. send' \in [Msg -> SendType]
        BY <1>9, HandlerTypes DEF Snapshot, Status
    <2>2. QED
        BY <1>9, <2>1 DEF Snapshot
<1>10. ASSUME NEW m \in Msg, NEW r \in User, CountBacklog(m, r) PROVE TypeOK'
    <2> DEFINE skip == Advance([send[m] EXCEPT !.left[r] = "none"])
    <2> DEFINE go == [send[m] EXCEPT !.pc = "insert", !.cur = r]
    <2>1. skip \in SendType /\ go \in SendType
        BY <1>10, HandlerTypes
    <2>2. send' = [send EXCEPT ![m] = skip] \/ send' = [send EXCEPT ![m] = go]
        BY <1>10 DEF CountBacklog
    <2> HIDE DEF skip, go
    <2>3. send' \in [Msg -> SendType]
        BY <1>10, <2>1, <2>2
    <2>4. QED
        BY <1>10, <2>1, <2>2, <2>3 DEF CountBacklog, Row
<1>11. ASSUME NEW m \in Msg, InsertRow(m) PROVE TypeOK'
    <2>1. send[m] \in SendType /\ send[m].pc = "insert"
        BY <1>11 DEF InsertRow
    <2>2. send[m].cur \in User
        BY <1>11, <2>1, HandlerTypes
    <2>3. ASSUME ChannelReferenced PROVE send' \in [Msg -> SendType]
        BY <1>11, <2>1, <2>3, HandlerTypes, ZenonT(60) DEF InsertRow
    <2>4. ASSUME ~ChannelReferenced PROVE send' \in [Msg -> SendType]
        BY <1>11, <2>1, <2>4, HandlerTypes DEF InsertRow
    <2>5. QED
        BY <1>11, <2>1, <2>2, <2>3, <2>4 DEF InsertRow, Row
<1>12. ASSUME NEW m \in Msg, Push(m) PROVE TypeOK'
    <2>1. send' \in [Msg -> SendType] /\ send[m].cur \in User
        BY <1>12, HandlerTypes DEF Push
    <2>2. wire' \in [Socket -> Seq(Frame)]
        BY <1>12, <2>1, SendToType, FrameTypes DEF Push
    <2>3. QED
        BY <1>12, <2>1, <2>2 DEF Push
<1>13. ASSUME NEW m \in Msg, SendFail(m) PROVE TypeOK'
    <2>1. send' \in [Msg -> SendType]
        BY <1>13, HandlerTypes DEF SendFail
    <2>2. QED
        BY <1>13, <2>1 DEF SendFail
<1>14. ASSUME NEW o \in User, NEW r \in User, StartOffer(o, r) PROVE TypeOK'
    <2>1. offering' \in [Pair -> OfferingType]
        BY <1>14 DEF StartOffer, OfferingType
    <2>2. QED
        BY <1>14, <2>1 DEF StartOffer
<1>15. ASSUME NEW p \in Pair, UpsertOffer(p) PROVE TypeOK'
    <2> DEFINE next == [offering[p] EXCEPT !.pc = "push"]
    <2>1. next \in OfferingType
        BY <1>15, HandlerTypes
    <2>2. offering' = [offering EXCEPT ![p] = next] \/ offering' = [offering EXCEPT ![p] = NoOffer]
        BY <1>15 DEF UpsertOffer
    <2> HIDE DEF next
    <2>3. offering' \in [Pair -> OfferingType]
        BY <1>15, <2>1, <2>2, HandlerTypes
    <2>4. QED
        BY <1>15, <2>1, <2>2, <2>3 DEF UpsertOffer
<1>16. ASSUME NEW p \in Pair, PushOffer(p) PROVE TypeOK'
    <2>1. offering' \in [Pair -> OfferingType]
        BY <1>16, HandlerTypes DEF PushOffer
    <2>2. wire' \in [Socket -> Seq(Frame)]
        BY <1>16, SendToType, FrameTypes DEF PushOffer, Pair
    <2>3. QED
        BY <1>16, <2>1, <2>2 DEF PushOffer
<1>17. ASSUME NEW s \in Socket, Arrive(s) PROVE TypeOK'
    <2>1. wire' \in [Socket -> Seq(Frame)] /\ Head(wire[s]) \in Frame
        BY <1>17, HeadTailProperties DEF Arrive
    <2>2. QED
        BY <1>17, <2>1 DEF Arrive
<1>18. ASSUME NEW s \in Socket, NEW f \in Frame, Handled(s, f) PROVE TypeOK'
    BY <1>18 DEF Handled, Committed
<1>19. ASSUME NEW s \in Socket, NEW f \in Frame, HandleAck(s, f) PROVE TypeOK'
    BY <1>19 DEF HandleAck
<1>20. ASSUME NEW s \in Socket, NEW f \in Frame, LoseAck(s, f) PROVE TypeOK'
    BY <1>20 DEF LoseAck
<1>21. ASSUME NEW u \in User, Join(u) PROVE TypeOK'
    <2>1. status' \in [User -> Status]
        BY <1>21 DEF Join, Status
    <2>2. QED
        BY <1>21, <2>1 DEF Join
<1>22. ASSUME NEW u \in User, NEW p \in User, DmOpen(u, p) PROVE TypeOK'
    <2>1. status' \in [User -> Status]
        BY <1>22 DEF DmOpen, Status
    <2>2. QED
        BY <1>22, <2>1 DEF DmOpen
<1>23. ASSUME NEW u \in User, Accept(u) PROVE TypeOK'
    <2>1. status' \in [User -> Status]
        BY <1>23 DEF Accept, Status
    <2>2. QED
        BY <1>23, <2>1 DEF Accept, SocketsOf
<1>24. ASSUME NEW u \in User, Leave(u) PROVE TypeOK'
    <2>1. status' \in [User -> Status]
        BY <1>24 DEF Leave, Status
    <2>2. QED
        BY <1>24, <2>1 DEF Leave
<1>25. ASSUME NEW u \in User, LeaveQueue(u) PROVE TypeOK'
    BY <1>25 DEF LeaveQueue, Addressed
<1>26. ASSUME NEW u \in User, LeaveOffers(u) PROVE TypeOK'
    BY <1>26 DEF LeaveOffers
<1>27. ASSUME NEW u \in User, LeaveChannel(u) PROVE TypeOK'
    <2>1. {<<m, u>> : m \in stored[u]} \subseteq Row
        BY <1>27 DEF Row
    <2>2. QED
        BY <1>27, <2>1 DEF LeaveChannel, Row
<1>28. ASSUME NEW b \in User, NEW c \in User, Block(b, c) PROVE TypeOK'
    <2>1. watch' \in [Msg -> WatchType]
        BY <1>28 DEF Block, Waver, WatchType
    <2>2. QED
        BY <1>28, <2>1 DEF Block, Pair
<1>29. ASSUME NEW b \in User, NEW c \in User, Unblock(b, c) PROVE TypeOK'
    <2>1. watch' \in [Msg -> WatchType]
        BY <1>29 DEF Unblock, Waver, WatchType
    <2>2. QED
        BY <1>29, <2>1 DEF Unblock
<1>30. ASSUME NEW n \in 1..Cardinality(Msg), ReapQueue(n) PROVE TypeOK'
    BY <1>30 DEF ReapQueue
<1>31. ASSUME NEW p \in Pair, ReapOffer(p) PROVE TypeOK'
    BY <1>31 DEF ReapOffer
<1>32. ASSUME UNCHANGED vars PROVE TypeOK'
    BY <1>32 DEF vars
<1>33. QED
    BY <1>1, <1>2, <1>3, <1>4, <1>5, <1>6, <1>7, <1>8, <1>9, <1>10, <1>11, <1>12,
       <1>13, <1>14, <1>15, <1>16, <1>17, <1>18, <1>19, <1>20, <1>21, <1>22, <1>23,
       <1>24, <1>25, <1>26, <1>27, <1>28, <1>29, <1>30, <1>31, <1>32
    DEF Next

\* Every variable keeps its type, whatever the users, the network and the faults do.
THEOREM TypeCorrect == Spec => []TypeOK
<1>1. QED
    BY TypeInit, TypeStep, PTL DEF Spec
---------------------------------------------------------------------------
(* No message is lost.  NoLoss is not inductive: an ack on its way deletes *)
(* a row, so it must be known to come from a client that has the message.  *)

\* Every ack in flight is for a message its user has, or has given up by leaving.
AckedIsKept ==
    \A s \in Socket, m \in Msg : MessageFrame(m) \in acks[s] =>
        m \in stored[Owner[s]] \/ <<m, Owner[s]>> \in dropped

KeepInv == NoLoss /\ AckedIsKept

\* Frames of different types, or of different messages, are different frames.
LEMMA FrameIdentity ==
    /\ \A m, n \in Msg : MessageFrame(m) = MessageFrame(n) => m = n
    /\ \A m \in Msg : MessageFrame(m).type = "message"
    /\ \A m \in Msg, o \in User : MessageFrame(m) # OfferFrame(o)
BY DEF MessageFrame, OfferFrame

\* No step loses a row: only an acknowledgement that follows the commit, the TTL or
\* leaving takes a row out of the queue.
LEMMA KeepStep == TypeOK /\ KeepInv /\ [Next]_vars => KeepInv'
<1> SUFFICES ASSUME TypeOK, KeepInv, [Next]_vars PROVE KeepInv'
    OBVIOUS
<1> USE DEF KeepInv, NoLoss, AckedIsKept, TypeOK, Row, dbVars, taskVars, connVars, clientVars, ghostVars
<1>1. ASSUME NEW s \in Socket, Connect(s) PROVE KeepInv'
    BY <1>1 DEF Connect
<1>2. ASSUME NEW t \in Task, FlushQuery(t) PROVE KeepInv'
    BY <1>2 DEF FlushQuery
<1>3. ASSUME NEW t \in Task, FlushSend(t) PROVE KeepInv'
    BY <1>3 DEF FlushSend
<1>4. ASSUME NEW t \in Task, FlushFail(t) PROVE KeepInv'
    BY <1>4 DEF FlushFail
<1>5. ASSUME NEW s \in Socket, ResumeVisit(s) PROVE KeepInv'
    BY <1>5 DEF ResumeVisit
<1>6. ASSUME NEW s \in Socket, NEW dies \in BOOLEAN, Close(s, dies) PROVE KeepInv'
    BY <1>6 DEF Close, Committed
<1>7. ASSUME ServerCrash PROVE KeepInv'
    BY <1>7 DEF ServerCrash
<1>8. ASSUME NEW m \in Msg, StartSend(m) PROVE KeepInv'
    BY <1>8 DEF StartSend
<1>9. ASSUME NEW m \in Msg, Snapshot(m) PROVE KeepInv'
    BY <1>9 DEF Snapshot
<1>10. ASSUME NEW m \in Msg, NEW r \in User, CountBacklog(m, r) PROVE KeepInv'
    BY <1>10 DEF CountBacklog
<1>11. ASSUME NEW m \in Msg, InsertRow(m) PROVE KeepInv'
    BY <1>11 DEF InsertRow
<1>12. ASSUME NEW m \in Msg, Push(m) PROVE KeepInv'
    BY <1>12 DEF Push
<1>13. ASSUME NEW m \in Msg, SendFail(m) PROVE KeepInv'
    BY <1>13 DEF SendFail
<1>14. ASSUME NEW o \in User, NEW r \in User, StartOffer(o, r) PROVE KeepInv'
    BY <1>14 DEF StartOffer
<1>15. ASSUME NEW p \in Pair, UpsertOffer(p) PROVE KeepInv'
    BY <1>15 DEF UpsertOffer
<1>16. ASSUME NEW p \in Pair, PushOffer(p) PROVE KeepInv'
    BY <1>16 DEF PushOffer
<1>17. ASSUME NEW s \in Socket, Arrive(s) PROVE KeepInv'
    BY <1>17, FrameIdentity DEF Arrive, AckAtOnce
<1>18. ASSUME NEW s \in Socket, NEW f \in Frame, Handled(s, f) PROVE KeepInv'
    BY <1>18, FrameIdentity, ConstantsAssumption DEF Handled, Committed
<1>19. ASSUME NEW s \in Socket, NEW f \in Frame, HandleAck(s, f) PROVE KeepInv'
    BY <1>19, FrameIdentity, ConstantsAssumption DEF HandleAck
<1>20. ASSUME NEW s \in Socket, NEW f \in Frame, LoseAck(s, f) PROVE KeepInv'
    BY <1>20 DEF LoseAck
<1>21. ASSUME NEW u \in User, Join(u) PROVE KeepInv'
    BY <1>21 DEF Join
<1>22. ASSUME NEW u \in User, NEW p \in User, DmOpen(u, p) PROVE KeepInv'
    BY <1>22 DEF DmOpen
<1>23. ASSUME NEW u \in User, Accept(u) PROVE KeepInv'
    BY <1>23 DEF Accept
<1>24. ASSUME NEW u \in User, Leave(u) PROVE KeepInv'
    BY <1>24 DEF Leave
<1>25. ASSUME NEW u \in User, LeaveQueue(u) PROVE KeepInv'
    BY <1>25 DEF LeaveQueue, Addressed
<1>26. ASSUME NEW u \in User, LeaveOffers(u) PROVE KeepInv'
    BY <1>26 DEF LeaveOffers
<1>27. ASSUME NEW u \in User, LeaveChannel(u) PROVE KeepInv'
    BY <1>27 DEF LeaveChannel
<1>28. ASSUME NEW b \in User, NEW c \in User, Block(b, c) PROVE KeepInv'
    BY <1>28 DEF Block
<1>29. ASSUME NEW b \in User, NEW c \in User, Unblock(b, c) PROVE KeepInv'
    BY <1>29 DEF Unblock
<1>30. ASSUME NEW n \in 1..Cardinality(Msg), ReapQueue(n) PROVE KeepInv'
    BY <1>30 DEF ReapQueue
<1>31. ASSUME NEW p \in Pair, ReapOffer(p) PROVE KeepInv'
    BY <1>31 DEF ReapOffer
<1>32. ASSUME UNCHANGED vars PROVE KeepInv'
    BY <1>32 DEF vars
<1>33. QED
    BY <1>1, <1>2, <1>3, <1>4, <1>5, <1>6, <1>7, <1>8, <1>9, <1>10, <1>11, <1>12,
       <1>13, <1>14, <1>15, <1>16, <1>17, <1>18, <1>19, <1>20, <1>21, <1>22, <1>23,
       <1>24, <1>25, <1>26, <1>27, <1>28, <1>29, <1>30, <1>31, <1>32
    DEF Next

\* A queued row is waiting, was given up by design, or is in its recipient's vault.
THEOREM NothingIsLost == Spec => []NoLoss
<1>1. Init => KeepInv
    BY DEF Init, KeepInv, NoLoss, AckedIsKept
<1>2. KeepInv => NoLoss
    BY DEF KeepInv
<1>3. QED
    BY <1>1, <1>2, TypeCorrect, KeepStep, PTL DEF Spec

---------------------------------------------------------------------------
(* A deleted direct message leaves nothing behind.                         *)

\* Nothing is inserted under, and nobody joins, a deleted direct message.
LEMMA DeletedStep == TypeOK /\ DeletedMeansEmpty /\ [Next]_vars => DeletedMeansEmpty'
<1> SUFFICES ASSUME TypeOK, DeletedMeansEmpty, [Next]_vars PROVE DeletedMeansEmpty'
    OBVIOUS
<1> USE DEF DeletedMeansEmpty, TypeOK, dbVars, taskVars, connVars, clientVars, ghostVars
<1>1. ASSUME NEW s \in Socket, Connect(s) PROVE DeletedMeansEmpty'
    BY <1>1 DEF Connect
<1>2. ASSUME NEW t \in Task, FlushQuery(t) PROVE DeletedMeansEmpty'
    BY <1>2 DEF FlushQuery
<1>3. ASSUME NEW t \in Task, FlushSend(t) PROVE DeletedMeansEmpty'
    BY <1>3 DEF FlushSend
<1>4. ASSUME NEW t \in Task, FlushFail(t) PROVE DeletedMeansEmpty'
    BY <1>4 DEF FlushFail
<1>5. ASSUME NEW s \in Socket, ResumeVisit(s) PROVE DeletedMeansEmpty'
    BY <1>5 DEF ResumeVisit
<1>6. ASSUME NEW s \in Socket, NEW dies \in BOOLEAN, Close(s, dies) PROVE DeletedMeansEmpty'
    BY <1>6 DEF Close
<1>7. ASSUME ServerCrash PROVE DeletedMeansEmpty'
    BY <1>7 DEF ServerCrash
<1>8. ASSUME NEW m \in Msg, StartSend(m) PROVE DeletedMeansEmpty'
    BY <1>8 DEF StartSend
<1>9. ASSUME NEW m \in Msg, Snapshot(m) PROVE DeletedMeansEmpty'
    BY <1>9 DEF Snapshot
<1>10. ASSUME NEW m \in Msg, NEW r \in User, CountBacklog(m, r) PROVE DeletedMeansEmpty'
    BY <1>10 DEF CountBacklog
<1>11. ASSUME NEW m \in Msg, InsertRow(m) PROVE DeletedMeansEmpty'
    BY <1>11 DEF InsertRow, ChannelReferenced
<1>12. ASSUME NEW m \in Msg, Push(m) PROVE DeletedMeansEmpty'
    BY <1>12 DEF Push
<1>13. ASSUME NEW m \in Msg, SendFail(m) PROVE DeletedMeansEmpty'
    BY <1>13 DEF SendFail
<1>14. ASSUME NEW o \in User, NEW r \in User, StartOffer(o, r) PROVE DeletedMeansEmpty'
    BY <1>14 DEF StartOffer
<1>15. ASSUME NEW p \in Pair, UpsertOffer(p) PROVE DeletedMeansEmpty'
    BY <1>15 DEF UpsertOffer, ChannelReferenced
<1>16. ASSUME NEW p \in Pair, PushOffer(p) PROVE DeletedMeansEmpty'
    BY <1>16 DEF PushOffer
<1>17. ASSUME NEW s \in Socket, Arrive(s) PROVE DeletedMeansEmpty'
    BY <1>17 DEF Arrive
<1>18. ASSUME NEW s \in Socket, NEW f \in Frame, Handled(s, f) PROVE DeletedMeansEmpty'
    BY <1>18 DEF Handled
<1>19. ASSUME NEW s \in Socket, NEW f \in Frame, HandleAck(s, f) PROVE DeletedMeansEmpty'
    BY <1>19 DEF HandleAck
<1>20. ASSUME NEW s \in Socket, NEW f \in Frame, LoseAck(s, f) PROVE DeletedMeansEmpty'
    BY <1>20 DEF LoseAck
<1>21. ASSUME NEW u \in User, Join(u) PROVE DeletedMeansEmpty'
    BY <1>21 DEF Join
<1>22. ASSUME NEW u \in User, NEW p \in User, DmOpen(u, p) PROVE DeletedMeansEmpty'
    BY <1>22 DEF DmOpen
<1>23. ASSUME NEW u \in User, Accept(u) PROVE DeletedMeansEmpty'
    BY <1>23 DEF Accept
<1>24. ASSUME NEW u \in User, Leave(u) PROVE DeletedMeansEmpty'
    BY <1>24 DEF Leave, IsMember, Status
<1>25. ASSUME NEW u \in User, LeaveQueue(u) PROVE DeletedMeansEmpty'
    BY <1>25 DEF LeaveQueue, Addressed
<1>26. ASSUME NEW u \in User, LeaveOffers(u) PROVE DeletedMeansEmpty'
    BY <1>26 DEF LeaveOffers
<1>27. ASSUME NEW u \in User, LeaveChannel(u) PROVE DeletedMeansEmpty'
    BY <1>27 DEF LeaveChannel
<1>28. ASSUME NEW b \in User, NEW c \in User, Block(b, c) PROVE DeletedMeansEmpty'
    BY <1>28 DEF Block
<1>29. ASSUME NEW b \in User, NEW c \in User, Unblock(b, c) PROVE DeletedMeansEmpty'
    BY <1>29 DEF Unblock
<1>30. ASSUME NEW n \in 1..Cardinality(Msg), ReapQueue(n) PROVE DeletedMeansEmpty'
    BY <1>30 DEF ReapQueue
<1>31. ASSUME NEW p \in Pair, ReapOffer(p) PROVE DeletedMeansEmpty'
    BY <1>31 DEF ReapOffer
<1>32. ASSUME UNCHANGED vars PROVE DeletedMeansEmpty'
    BY <1>32 DEF vars
<1>33. QED
    BY <1>1, <1>2, <1>3, <1>4, <1>5, <1>6, <1>7, <1>8, <1>9, <1>10, <1>11, <1>12,
       <1>13, <1>14, <1>15, <1>16, <1>17, <1>18, <1>19, <1>20, <1>21, <1>22, <1>23,
       <1>24, <1>25, <1>26, <1>27, <1>28, <1>29, <1>30, <1>31, <1>32
    DEF Next

\* Whatever handlers are running when the last member leaves, no row survives the
\* channel and nobody is a member of it again.
THEOREM NothingOutlivesTheDm == Spec => []DeletedMeansEmpty
<1>1. Init => DeletedMeansEmpty
    BY DEF Init, DeletedMeansEmpty
<1>2. QED
    BY <1>1, TypeCorrect, DeletedStep, PTL DEF Spec

---------------------------------------------------------------------------
(* Nothing reaches a user before it has accepted.  The gate is applied when *)
(* a status is read, and acted upon later: every place that remembers an    *)
(* "active" must remember it of a user who has been active.                 *)

Admitted(u) == u \in everActive

\* What the database, the snapshots and the fetched batches may hold.
GateInv ==
    /\ \A u \in User : status[u] = "active" => Admitted(u)
    /\ \A m \in Msg, u \in User : send[m].left[u] = "active" => Admitted(u)
    /\ \A m \in Msg : send[m].pc \in {"insert", "push"} => send[m].left[send[m].cur] # "none"
    /\ \A p \in Pair : offering[p].active => Admitted(p[2])
    /\ \A t \in Task : flush[t].batch # << >> => Admitted(Owner[t[2]])

\* What is on its way to a user, being handled or kept.
UntouchedInv ==
    /\ \A s \in Socket : ~Admitted(Owner[s]) => wire[s] = << >> /\ recv[s] = {}
    /\ \A u \in User : ~Admitted(u) => stored[u] = {}

\* Both SELECTs return nothing for a user who is not an active member.
LEMMA GatedBatches ==
    ASSUME NEW u \in User, status[u] # "active"
    PROVE  QueueBatches(u) \subseteq {<< >>} /\ OfferBatches(u) \subseteq {<< >>}
<1>1. ASSUME NEW b \in QueueBatches(u) PROVE b = << >>
    <2> DEFINE ms == {m \in Msg : <<m, u>> \in queue /\ Deliverable(u)}
    <2>1. ms = {}
        BY DEF Deliverable
    <2>2. PICK q \in Oldest({}) : b = [i \in DOMAIN q |-> MessageFrame(q[i])]
        BY <2>1 DEF QueueBatches
    <2>3. q \in [1..0 -> {}]
        BY FS_EmptySet, ConstantsAssumption DEF Oldest, Listings
    <2>4. QED
        BY <2>2, <2>3
<1>2. ASSUME NEW b \in OfferBatches(u) PROVE b = << >>
    <2> DEFINE os == {o \in User : <<o, u>> \in offers /\ Deliverable(u)}
    <2>1. os = {}
        BY DEF Deliverable
    <2>2. PICK q \in Listings(0, {}) : b = [i \in DOMAIN q |-> OfferFrame(q[i])]
        BY <2>1, FS_EmptySet DEF OfferBatches
    <2>3. q \in [1..0 -> {}]
        BY DEF Listings
    <2>4. QED
        BY <2>2, <2>3
<1>3. QED
    BY <1>1, <1>2

\* What the steps of a handler do to the statuses it remembers.
LEMMA HandlerSteps ==
    /\ \A h \in SendType : /\ [h EXCEPT !.pc = "push"].left = h.left
                           /\ [h EXCEPT !.pc = "push"].cur = h.cur
    /\ [Unsent EXCEPT !.pc = "failed"].pc = "failed"
    /\ \A u \in User : [Unsent EXCEPT !.pc = "failed"].left[u] = "none"
    /\ \A h \in OfferingType : [h EXCEPT !.pc = "push"].active = h.active
    /\ NoOffer.active = FALSE
BY SMTT(30) DEF SendType, OfferingType, Unsent, NoOffer

\* No step makes someone active without admitting them, and a handler only
\* remembers as active a recipient who was.
LEMMA GateStep == TypeOK /\ GateInv /\ [Next]_vars => GateInv'
<1> SUFFICES ASSUME TypeOK, GateInv, [Next]_vars PROVE GateInv'
    OBVIOUS
<1> USE DEF GateInv, Admitted, TypeOK, dbVars, taskVars, connVars, clientVars, ghostVars
<1>1. ASSUME NEW s \in Socket, Connect(s) PROVE GateInv'
    BY <1>1 DEF Connect, Begin
<1>2. ASSUME NEW t \in Task, FlushQuery(t) PROVE GateInv'
    <2>1. PICK b \in QueueBatches(Owner[t[2]]) \cup OfferBatches(Owner[t[2]]) :
             flush' = [flush EXCEPT ![t] = [@ EXCEPT !.got = TRUE, !.batch = b]]
        BY <1>2 DEF FlushQuery
    <2>2. Owner[t[2]] \in User
        BY ConstantsAssumption DEF Task
    <2>3. b # << >> => Owner[t[2]] \in everActive
        BY <2>1, <2>2, GatedBatches
    <2>4. flush'[t].batch = b /\ \A x \in Task : x # t => flush'[x] = flush[x]
        BY <2>1 DEF FlushType
    <2>5. QED
        BY <1>2, <2>3, <2>4 DEF FlushQuery
<1>3. ASSUME NEW t \in Task, FlushSend(t) PROVE GateInv'
    BY <1>3 DEF FlushSend, NextStage, Begin, Idle
<1>4. ASSUME NEW t \in Task, FlushFail(t) PROVE GateInv'
    BY <1>4 DEF FlushFail, Idle, Begin
<1>5. ASSUME NEW s \in Socket, ResumeVisit(s) PROVE GateInv'
    BY <1>5 DEF ResumeVisit, Begin
<1>6. ASSUME NEW s \in Socket, NEW dies \in BOOLEAN, Close(s, dies) PROVE GateInv'
    BY <1>6 DEF Close, Idle, Begin
<1>7. ASSUME ServerCrash PROVE GateInv'
    BY <1>7 DEF ServerCrash, Idle, Begin, Unsent, NoOffer, SendType
<1>8. ASSUME NEW m \in Msg, StartSend(m) PROVE GateInv'
    BY <1>8 DEF StartSend, SendType
<1>9. ASSUME NEW m \in Msg, Snapshot(m) PROVE GateInv'
    BY <1>9 DEF Snapshot, Advance, SendType
<1>10. ASSUME NEW m \in Msg, NEW r \in User, CountBacklog(m, r) PROVE GateInv'
    <2> DEFINE skip == Advance([send[m] EXCEPT !.left[r] = "none"])
    <2> DEFINE go == [send[m] EXCEPT !.pc = "insert", !.cur = r]
    <2>1. send[m] \in SendType
        OBVIOUS
    <2>2. skip.pc \in {"next", "done"}
        BY <2>1 DEF Advance, SendType
    <2>3. \A u \in User : skip.left[u] = "active" => send[m].left[u] = "active"
        BY <2>1 DEF Advance, SendType
    <2>4. go.left = send[m].left /\ go.cur = r
        BY <2>1 DEF SendType
    <2>5. \/ send' = [send EXCEPT ![m] = skip]
          \/ send' = [send EXCEPT ![m] = go] /\ send[m].left[r] # "none"
        BY <1>10 DEF CountBacklog
    <2> HIDE DEF skip, go
    <2>6. ASSUME send' = [send EXCEPT ![m] = skip] PROVE GateInv'
        BY <1>10, <2>2, <2>3, <2>6 DEF CountBacklog
    <2>7. ASSUME send' = [send EXCEPT ![m] = go], send[m].left[r] # "none" PROVE GateInv'
        BY <1>10, <2>4, <2>7 DEF CountBacklog
    <2>8. QED
        BY <2>5, <2>6, <2>7
<1>11. ASSUME NEW m \in Msg, InsertRow(m) PROVE GateInv'
    <2> DEFINE stop == [Unsent EXCEPT !.pc = "failed"]
    <2> DEFINE go == [send[m] EXCEPT !.pc = "push"]
    <2>1. /\ stop.pc = "failed" /\ go.left = send[m].left /\ go.cur = send[m].cur
          /\ \A u \in User : stop.left[u] = "none"
        BY HandlerSteps
    <2>2. \/ send' = [send EXCEPT ![m] = stop]
          \/ send' = [send EXCEPT ![m] = go] /\ send[m].pc = "insert"
        BY <1>11 DEF InsertRow
    <2> HIDE DEF stop, go
    <2>3. ASSUME send' = [send EXCEPT ![m] = stop] PROVE GateInv'
        BY <1>11, <2>1, <2>3 DEF InsertRow
    <2>4. ASSUME send' = [send EXCEPT ![m] = go], send[m].pc = "insert" PROVE GateInv'
        BY <1>11, <2>1, <2>4 DEF InsertRow
    <2>5. QED
        BY <2>2, <2>3, <2>4
<1>12. ASSUME NEW m \in Msg, Push(m) PROVE GateInv'
    BY <1>12 DEF Push, Advance, SendType
<1>13. ASSUME NEW m \in Msg, SendFail(m) PROVE GateInv'
    BY <1>13 DEF SendFail, Unsent, SendType
<1>14. ASSUME NEW o \in User, NEW r \in User, StartOffer(o, r) PROVE GateInv'
    BY <1>14 DEF StartOffer, Pair, OfferingType
<1>15. ASSUME NEW p \in Pair, UpsertOffer(p) PROVE GateInv'
    <2> DEFINE go == [offering[p] EXCEPT !.pc = "push"]
    <2>1. go.active = offering[p].active
        BY HandlerSteps
    <2>2. \/ offering' = [offering EXCEPT ![p] = go]
          \/ offering' = [offering EXCEPT ![p] = NoOffer]
        BY <1>15 DEF UpsertOffer
    <2> HIDE DEF go
    <2>3. ASSUME offering' = [offering EXCEPT ![p] = go] PROVE GateInv'
        BY <1>15, <2>1, <2>3 DEF UpsertOffer
    <2>4. ASSUME offering' = [offering EXCEPT ![p] = NoOffer] PROVE GateInv'
        BY <1>15, <2>4, HandlerSteps DEF UpsertOffer
    <2>5. QED
        BY <2>2, <2>3, <2>4
<1>16. ASSUME NEW p \in Pair, PushOffer(p) PROVE GateInv'
    BY <1>16 DEF PushOffer, NoOffer
<1>17. ASSUME NEW s \in Socket, Arrive(s) PROVE GateInv'
    BY <1>17 DEF Arrive
<1>18. ASSUME NEW s \in Socket, NEW f \in Frame, Handled(s, f) PROVE GateInv'
    BY <1>18 DEF Handled
<1>19. ASSUME NEW s \in Socket, NEW f \in Frame, HandleAck(s, f) PROVE GateInv'
    BY <1>19 DEF HandleAck
<1>20. ASSUME NEW s \in Socket, NEW f \in Frame, LoseAck(s, f) PROVE GateInv'
    BY <1>20 DEF LoseAck
<1>21. ASSUME NEW u \in User, Join(u) PROVE GateInv'
    BY <1>21 DEF Join
<1>22. ASSUME NEW u \in User, NEW p \in User, DmOpen(u, p) PROVE GateInv'
    BY <1>22 DEF DmOpen, Status
<1>23. ASSUME NEW u \in User, Accept(u) PROVE GateInv'
    BY <1>23 DEF Accept
<1>24. ASSUME NEW u \in User, Leave(u) PROVE GateInv'
    BY <1>24 DEF Leave
<1>25. ASSUME NEW u \in User, LeaveQueue(u) PROVE GateInv'
    BY <1>25 DEF LeaveQueue
<1>26. ASSUME NEW u \in User, LeaveOffers(u) PROVE GateInv'
    BY <1>26 DEF LeaveOffers
<1>27. ASSUME NEW u \in User, LeaveChannel(u) PROVE GateInv'
    BY <1>27 DEF LeaveChannel
<1>28. ASSUME NEW b \in User, NEW c \in User, Block(b, c) PROVE GateInv'
    BY <1>28 DEF Block
<1>29. ASSUME NEW b \in User, NEW c \in User, Unblock(b, c) PROVE GateInv'
    BY <1>29 DEF Unblock
<1>30. ASSUME NEW n \in 1..Cardinality(Msg), ReapQueue(n) PROVE GateInv'
    BY <1>30 DEF ReapQueue
<1>31. ASSUME NEW p \in Pair, ReapOffer(p) PROVE GateInv'
    BY <1>31 DEF ReapOffer
<1>32. ASSUME UNCHANGED vars PROVE GateInv'
    BY <1>32 DEF vars
<1>33. QED
    BY <1>1, <1>2, <1>3, <1>4, <1>5, <1>6, <1>7, <1>8, <1>9, <1>10, <1>11, <1>12,
       <1>13, <1>14, <1>15, <1>16, <1>17, <1>18, <1>19, <1>20, <1>21, <1>22, <1>23,
       <1>24, <1>25, <1>26, <1>27, <1>28, <1>29, <1>30, <1>31, <1>32
    DEF Next

\* No step puts a frame on the wire of, or a message in the vault of, a user who was
\* never admitted.
LEMMA UntouchedStep == TypeOK /\ GateInv /\ UntouchedInv /\ [Next]_vars => UntouchedInv'
<1> SUFFICES ASSUME TypeOK, GateInv, UntouchedInv, [Next]_vars PROVE UntouchedInv'
    OBVIOUS
<1> USE DEF UntouchedInv, Admitted, TypeOK, dbVars, taskVars, connVars, clientVars, ghostVars
<1>1. ASSUME NEW s \in Socket, Connect(s) PROVE UntouchedInv'
    BY <1>1 DEF Connect
<1>2. ASSUME NEW t \in Task, FlushQuery(t) PROVE UntouchedInv'
    BY <1>2 DEF FlushQuery
<1>3. ASSUME NEW t \in Task, FlushSend(t) PROVE UntouchedInv'
    BY <1>3 DEF FlushSend, GateInv, Task
<1>4. ASSUME NEW t \in Task, FlushFail(t) PROVE UntouchedInv'
    BY <1>4 DEF FlushFail
<1>5. ASSUME NEW s \in Socket, ResumeVisit(s) PROVE UntouchedInv'
    BY <1>5 DEF ResumeVisit
<1>6. ASSUME NEW s \in Socket, NEW dies \in BOOLEAN, Close(s, dies) PROVE UntouchedInv'
    BY <1>6, ConstantsAssumption DEF Close, Committed
<1>7. ASSUME ServerCrash PROVE UntouchedInv'
    BY <1>7, ConstantsAssumption DEF ServerCrash
<1>8. ASSUME NEW m \in Msg, StartSend(m) PROVE UntouchedInv'
    BY <1>8 DEF StartSend
<1>9. ASSUME NEW m \in Msg, Snapshot(m) PROVE UntouchedInv'
    BY <1>9 DEF Snapshot
<1>10. ASSUME NEW m \in Msg, NEW r \in User, CountBacklog(m, r) PROVE UntouchedInv'
    BY <1>10 DEF CountBacklog
<1>11. ASSUME NEW m \in Msg, InsertRow(m) PROVE UntouchedInv'
    BY <1>11 DEF InsertRow
<1>12. ASSUME NEW m \in Msg, Push(m) PROVE UntouchedInv'
    BY <1>12 DEF Push, GateInv, SendTo, SocketsOf, Status, SendType
<1>13. ASSUME NEW m \in Msg, SendFail(m) PROVE UntouchedInv'
    BY <1>13 DEF SendFail
<1>14. ASSUME NEW o \in User, NEW r \in User, StartOffer(o, r) PROVE UntouchedInv'
    BY <1>14 DEF StartOffer
<1>15. ASSUME NEW p \in Pair, UpsertOffer(p) PROVE UntouchedInv'
    BY <1>15 DEF UpsertOffer
<1>16. ASSUME NEW p \in Pair, PushOffer(p) PROVE UntouchedInv'
    BY <1>16 DEF PushOffer, GateInv, SendTo, SocketsOf, Pair
<1>17. ASSUME NEW s \in Socket, Arrive(s) PROVE UntouchedInv'
    BY <1>17 DEF Arrive
<1>18. ASSUME NEW s \in Socket, NEW f \in Frame, Handled(s, f) PROVE UntouchedInv'
    BY <1>18, ConstantsAssumption DEF Handled, Committed
<1>19. ASSUME NEW s \in Socket, NEW f \in Frame, HandleAck(s, f) PROVE UntouchedInv'
    BY <1>19 DEF HandleAck
<1>20. ASSUME NEW s \in Socket, NEW f \in Frame, LoseAck(s, f) PROVE UntouchedInv'
    BY <1>20 DEF LoseAck
<1>21. ASSUME NEW u \in User, Join(u) PROVE UntouchedInv'
    BY <1>21 DEF Join
<1>22. ASSUME NEW u \in User, NEW p \in User, DmOpen(u, p) PROVE UntouchedInv'
    BY <1>22 DEF DmOpen
<1>23. ASSUME NEW u \in User, Accept(u) PROVE UntouchedInv'
    BY <1>23 DEF Accept
<1>24. ASSUME NEW u \in User, Leave(u) PROVE UntouchedInv'
    BY <1>24 DEF Leave
<1>25. ASSUME NEW u \in User, LeaveQueue(u) PROVE UntouchedInv'
    BY <1>25 DEF LeaveQueue
<1>26. ASSUME NEW u \in User, LeaveOffers(u) PROVE UntouchedInv'
    BY <1>26 DEF LeaveOffers
<1>27. ASSUME NEW u \in User, LeaveChannel(u) PROVE UntouchedInv'
    BY <1>27 DEF LeaveChannel
<1>28. ASSUME NEW b \in User, NEW c \in User, Block(b, c) PROVE UntouchedInv'
    BY <1>28 DEF Block
<1>29. ASSUME NEW b \in User, NEW c \in User, Unblock(b, c) PROVE UntouchedInv'
    BY <1>29 DEF Unblock
<1>30. ASSUME NEW n \in 1..Cardinality(Msg), ReapQueue(n) PROVE UntouchedInv'
    BY <1>30 DEF ReapQueue
<1>31. ASSUME NEW p \in Pair, ReapOffer(p) PROVE UntouchedInv'
    BY <1>31 DEF ReapOffer
<1>32. ASSUME UNCHANGED vars PROVE UntouchedInv'
    BY <1>32 DEF vars
<1>33. QED
    BY <1>1, <1>2, <1>3, <1>4, <1>5, <1>6, <1>7, <1>8, <1>9, <1>10, <1>11, <1>12,
       <1>13, <1>14, <1>15, <1>16, <1>17, <1>18, <1>19, <1>20, <1>21, <1>22, <1>23,
       <1>24, <1>25, <1>26, <1>27, <1>28, <1>29, <1>30, <1>31, <1>32
    DEF Next

\* No body and no wrapped key is on the wire to, handled by or kept by a user who
\* has never been an active member.
THEOREM AcceptBeforeReading == Spec => []WithheldUntilAccepted
<1>1. Init => GateInv /\ UntouchedInv
    BY ConstantsAssumption DEF Init, GateInv, UntouchedInv, Admitted, Unsent, NoOffer, Idle, Begin
<1>2. TypeOK /\ UntouchedInv => WithheldUntilAccepted
    BY ConstantsAssumption DEF UntouchedInv, Admitted, WithheldUntilAccepted, TypeOK
<1>3. QED
    BY <1>1, <1>2, TypeCorrect, GateStep, UntouchedStep, PTL DEF Spec

---------------------------------------------------------------------------
(* What `sent` promises and what a block withholds.  Both speak of one run *)
(* of handleSend from its membership check to the end, so both need to     *)
(* know what its snapshot, its list of recipients and its rows have to do  *)
(* with each other at every await in between.                              *)

\* A step of anything but a handler leaves the handlers as they are; it may delete
\* rows, but it inserts none and makes nobody a member whom a handler counts on.
SendApart ==
    /\ UNCHANGED <<send, posted, blocks, watch>>
    /\ queue' \subseteq queue /\ dropped \subseteq dropped'
    /\ \A m \in Msg : \A r \in steady'[m] : r \in steady[m] /\ (IsMember(r) => IsMember(r)')

\* Every step is one of handleSend, one that touches it, or apart from it.
LEMMA SendSteps ==
    ASSUME TypeOK, [Next]_vars
    PROVE  \/ \E m \in Msg : StartSend(m) \/ Snapshot(m) \/ InsertRow(m) \/ Push(m) \/ SendFail(m)
           \/ \E m \in Msg, r \in User : CountBacklog(m, r)
           \/ ServerCrash
           \/ \E b, c \in User : Block(b, c) \/ Unblock(b, c)
           \/ SendApart
<1> USE DEF SendApart, IsMember, TypeOK, dbVars, taskVars, connVars, clientVars, ghostVars
<1>1. ASSUME NEW s \in Socket, Connect(s) \/ ResumeVisit(s) PROVE SendApart
    BY <1>1 DEF Connect, ResumeVisit
<1>2. ASSUME NEW t \in Task, FlushQuery(t) \/ FlushSend(t) \/ FlushFail(t) PROVE SendApart
    <2>1. CASE FlushQuery(t)
        BY <2>1 DEF FlushQuery
    <2>2. CASE FlushSend(t)
        BY <2>2 DEF FlushSend
    <2>3. CASE FlushFail(t)
        BY <2>3 DEF FlushFail
    <2>4. QED
        BY <1>2, <2>1, <2>2, <2>3
<1>3. ASSUME NEW s \in Socket, NEW dies \in BOOLEAN, Close(s, dies) PROVE SendApart
    BY <1>3 DEF Close
<1>4. ASSUME NEW o \in User, NEW r \in User, StartOffer(o, r) PROVE SendApart
    BY <1>4 DEF StartOffer
<1>5. ASSUME NEW p \in Pair, UpsertOffer(p) \/ PushOffer(p) \/ ReapOffer(p) PROVE SendApart
    BY <1>5 DEF UpsertOffer, PushOffer, ReapOffer
<1>6. ASSUME NEW s \in Socket, Arrive(s) PROVE SendApart
    BY <1>6 DEF Arrive
<1>7. ASSUME NEW s \in Socket, NEW f \in Frame, Handled(s, f) \/ HandleAck(s, f) \/ LoseAck(s, f)
      PROVE  SendApart
    BY <1>7 DEF Handled, HandleAck, LoseAck
<1>8. ASSUME NEW u \in User, Join(u) \/ Accept(u) PROVE SendApart
    BY <1>8 DEF Join, Accept
<1>9. ASSUME NEW u \in User, NEW p \in User, DmOpen(u, p) PROVE SendApart
    BY <1>9 DEF DmOpen
<1>10. ASSUME NEW u \in User, Leave(u) PROVE SendApart
    BY <1>10 DEF Leave
<1>11. ASSUME NEW u \in User, LeaveQueue(u) \/ LeaveOffers(u) PROVE SendApart
    BY <1>11 DEF LeaveQueue, LeaveOffers, Addressed
<1>12. ASSUME NEW u \in User, LeaveChannel(u) PROVE SendApart
    BY <1>12 DEF LeaveChannel
<1>13. ASSUME NEW n \in 1..Cardinality(Msg), ReapQueue(n) PROVE SendApart
    BY <1>13 DEF ReapQueue
<1>14. ASSUME UNCHANGED vars PROVE SendApart
    BY <1>14 DEF vars
<1>15. QED
    BY <1>1, <1>2, <1>3, <1>4, <1>5, <1>6, <1>7, <1>8, <1>9, <1>10, <1>11, <1>12, <1>13, <1>14
    DEF Next

\* The handler's records that replace one another: what the next one lists.
LEMMA Advances ==
    ASSUME NEW h \in SendType
    PROVE  /\ Advance(h).left = h.left
           /\ Advance(h).pc \in {"next", "done"}
           /\ Advance(h).pc = "done" => \A u \in User : h.left[u] = "none"
           /\ \A r \in User : /\ [h EXCEPT !.left[r] = "none"] \in SendType
                              /\ [h EXCEPT !.left[r] = "none"].left[r] = "none"
                              /\ \A u \in User : u # r =>
                                    [h EXCEPT !.left[r] = "none"].left[u] = h.left[u]
           /\ \A l \in [User -> Status] : /\ [h EXCEPT !.left = l] \in SendType
                                          /\ [h EXCEPT !.left = l].left = l
<1>1. "none" \in Status
    BY DEF Status
<1>2. QED
    BY <1>1 DEF Advance, SendType

\* r has been a member and has left the sender unblocked all along.
Asked(m, r) == r \in steady[m] /\ watch[m][r] = "clear"

\* Whoever is asked is on the list, or has been dealt with: a row or a full queue.
FanOut(m, r) ==
    /\ r \in steady[m] => IsMember(r) /\ r # From[m]
    /\ send[m].pc = "stamped" /\ watch[m][r] = "clear" => <<r, From[m]>> \notin blocks
    /\ send[m].pc \in {"next", "insert", "push", "done"} /\ Asked(m, r) =>
          send[m].left[r] # "none" \/ <<m, r>> \in posted \cup dropped
    /\ send[m].pc = "push" => <<m, send[m].cur>> \in posted
    /\ send[m].pc = "done" => send[m].left[r] = "none"

FanOutInv == \A m \in Msg, r \in User : FanOut(m, r)

\* No step takes a recipient off the list before its row is in or its queue is full.
LEMMA FanOutStep == TypeOK /\ FanOutInv /\ [Next]_vars => FanOutInv'
<1> SUFFICES ASSUME TypeOK, FanOutInv, [Next]_vars, NEW m \in Msg, NEW r \in User
             PROVE  FanOut(m, r)'
    BY DEF FanOutInv
<1> USE DEF FanOut, Asked, IsMember, dbVars, taskVars, clientVars, ghostVars
<1>0. /\ FanOut(m, r) /\ send[m] \in SendType
      /\ send \in [Msg -> SendType] /\ steady \in [Msg -> SUBSET User]
      /\ watch \in [Msg -> WatchType] /\ status \in [User -> Status]
    BY DEF FanOutInv, TypeOK
<1>1. ASSUME NEW x \in Msg, StartSend(x) PROVE FanOut(m, r)'
    <2>1. UNCHANGED <<status, blocks, posted, dropped>>
        BY <1>1 DEF StartSend
    <2>2. CASE x = m
        <3>1. /\ watch'[m][r] = "clear" => <<r, From[m]>> \notin blocks
              /\ steady'[m] = {u \in User \ {From[m]} : IsMember(u)}
              /\ send'[m].pc = "stamped"
            BY <1>0, <1>1, <2>2 DEF StartSend, SendType
        <3>2. QED
            BY <2>1, <3>1
    <2>3. CASE x # m
        <3>1. send'[m] = send[m] /\ watch'[m] = watch[m] /\ steady'[m] = steady[m]
            BY <1>0, <1>1, <2>3 DEF StartSend
        <3>2. QED
            BY <1>0, <2>1, <3>1
    <2>4. QED
        BY <2>2, <2>3
<1>2. ASSUME NEW x \in Msg, Snapshot(x) PROVE FanOut(m, r)'
    <2>1. UNCHANGED <<status, blocks, posted, dropped, steady, watch>>
        BY <1>2 DEF Snapshot
    <2>2. CASE x = m
        <3> DEFINE l == [u \in User |-> IF u \in Recipients(m) THEN status[u] ELSE "none"]
                   h == [send[m] EXCEPT !.left = l]
        <3>1. l \in [User -> Status] /\ (Asked(m, r) => l[r] # "none")
            BY <1>0, <1>2, <2>2 DEF Snapshot, Recipients, Status
        <3>2. send'[m] = Advance(h)
            BY <1>0, <1>2, <2>2 DEF Snapshot
        <3> HIDE DEF l
        <3>3. h \in SendType /\ h.left = l
            BY <1>0, <3>1, Advances
        <3> HIDE DEF h
        <3>4. /\ send'[m].left = l /\ send'[m].pc \in {"next", "done"}
              /\ send'[m].pc = "done" => l[r] = "none"
            BY <3>2, <3>3, Advances
        <3>5. QED
            BY <1>0, <2>1, <3>1, <3>4
    <2>3. CASE x # m
        <3>1. send'[m] = send[m]
            BY <1>0, <1>2, <2>3 DEF Snapshot
        <3>2. QED
            BY <1>0, <2>1, <3>1
    <2>4. QED
        BY <2>2, <2>3
<1>3. ASSUME NEW x \in Msg, NEW u \in User, CountBacklog(x, u) PROVE FanOut(m, r)'
    <2>1. UNCHANGED <<status, blocks, posted, steady, watch>> /\ dropped \subseteq dropped'
        BY <1>3 DEF CountBacklog
    <2>2. CASE x = m
        <3> DEFINE h == [send[m] EXCEPT !.left[u] = "none"]
                   go == [send[m] EXCEPT !.pc = "insert", !.cur = u]
        <3>1. send[m].pc = "next"
            BY <1>3, <2>2 DEF CountBacklog
        <3>2. /\ h \in SendType /\ h.left[u] = "none"
              /\ r # u => h.left[r] = send[m].left[r]
            BY <1>0 DEF SendType, Status
        <3>3. go.pc = "insert" /\ go.left = send[m].left
            BY <1>0 DEF SendType
        <3>4. \/ send'[m] = Advance(h) /\ <<m, u>> \in dropped'
              \/ send'[m] = go
            BY <1>0, <1>3, <2>2 DEF CountBacklog
        <3> HIDE DEF h, go
        <3>5. ASSUME send'[m] = Advance(h), <<m, u>> \in dropped' PROVE FanOut(m, r)'
            <4>1. /\ send'[m].left = h.left /\ send'[m].pc \in {"next", "done"}
                  /\ send'[m].pc = "done" => h.left[r] = "none"
                BY <3>2, <3>5, Advances
            <4>2. QED
                BY <1>0, <2>1, <3>1, <3>2, <3>5, <4>1
        <3>6. ASSUME send'[m] = go PROVE FanOut(m, r)'
            BY <1>0, <2>1, <3>1, <3>3, <3>6
        <3>7. QED
            BY <3>4, <3>5, <3>6
    <2>3. CASE x # m
        <3>1. send'[m] = send[m]
            BY <1>0, <1>3, <2>3 DEF CountBacklog
        <3>2. QED
            BY <1>0, <2>1, <3>1
    <2>4. QED
        BY <2>2, <2>3
<1>4. ASSUME NEW x \in Msg, InsertRow(x) PROVE FanOut(m, r)'
    <2>1. UNCHANGED <<status, blocks, dropped, steady, watch>> /\ posted \subseteq posted'
        BY <1>4 DEF InsertRow
    <2>2. CASE x = m
        <3> DEFINE stop == [Unsent EXCEPT !.pc = "failed"]
                   go == [send[m] EXCEPT !.pc = "push"]
        <3>1. /\ stop.pc = "failed" /\ go.left = send[m].left /\ go.cur = send[m].cur
              /\ send[m].pc = "insert" /\ go.pc = "push"
            BY <1>0, <1>4, <2>2, HandlerSteps DEF InsertRow, SendType
        <3>2. \/ send'[m] = stop
              \/ send'[m] = go /\ <<m, send[m].cur>> \in posted'
            BY <1>0, <1>4, <2>2 DEF InsertRow
        <3> HIDE DEF stop, go
        <3>3. QED
            BY <1>0, <2>1, <3>1, <3>2
    <2>3. CASE x # m
        <3>1. send'[m] = send[m]
            BY <1>0, <1>4, <2>3 DEF InsertRow
        <3>2. QED
            BY <1>0, <2>1, <3>1
    <2>4. QED
        BY <2>2, <2>3
<1>5. ASSUME NEW x \in Msg, Push(x) PROVE FanOut(m, r)'
    <2>1. UNCHANGED <<status, blocks, posted, dropped, steady, watch>>
        BY <1>5 DEF Push
    <2>2. CASE x = m
        <3> DEFINE u == send[m].cur
                   h == [send[m] EXCEPT !.left[u] = "none"]
        <3>1. send[m].pc = "push" /\ u \in User /\ <<m, u>> \in posted
            BY <1>0, <1>5, <2>2, HandlerTypes DEF Push
        <3>2. send'[m] = Advance(h)
            BY <1>0, <1>5, <2>2 DEF Push
        <3> HIDE DEF u
        <3>3. /\ h \in SendType /\ h.left[u] = "none"
              /\ r # u => h.left[r] = send[m].left[r]
            BY <1>0, <3>1 DEF SendType, Status
        <3> HIDE DEF h
        <3>4. /\ send'[m].left = h.left /\ send'[m].pc \in {"next", "done"}
              /\ send'[m].pc = "done" => h.left[r] = "none"
            BY <3>2, <3>3, Advances
        <3>5. QED
            BY <1>0, <2>1, <3>1, <3>3, <3>4
    <2>3. CASE x # m
        <3>1. send'[m] = send[m]
            BY <1>0, <1>5, <2>3 DEF Push
        <3>2. QED
            BY <1>0, <2>1, <3>1
    <2>4. QED
        BY <2>2, <2>3
<1>6. ASSUME (\E x \in Msg : SendFail(x)) \/ ServerCrash PROVE FanOut(m, r)'
    <2>1. /\ UNCHANGED <<status, blocks, posted, dropped, steady, watch>>
          /\ \/ send'[m] = send[m]
             \/ send'[m] = [Unsent EXCEPT !.pc = "failed"]
        BY <1>0, <1>6 DEF SendFail, ServerCrash
    <2>2. QED
        BY <1>0, <2>1, HandlerSteps
<1>7. ASSUME NEW b \in User, NEW c \in User, Block(b, c) \/ Unblock(b, c) PROVE FanOut(m, r)'
    <2>1. UNCHANGED <<status, posted, dropped, send, steady>>
        BY <1>7 DEF Block, Unblock
    <2>2. watch'[m][r] = "clear" => watch[m][r] = "clear"
        BY <1>0, <1>7 DEF Block, Unblock, Waver, WatchType
    <2>3. watch'[m][r] = "clear" /\ send[m].pc = "stamped" => r # b \/ From[m] # c
        BY <1>0, <1>7 DEF Block, Unblock, Waver, WatchType
    <2>4. \A y \in blocks' : y \in blocks \/ y = <<b, c>>
        BY <1>7 DEF Block, Unblock
    <2>5. <<r, From[m]>> \in blocks' => <<r, From[m]>> \in blocks \/ (r = b /\ From[m] = c)
        BY <2>4
    <2>6. QED
        BY <1>0, <2>1, <2>2, <2>3, <2>5
<1>8. ASSUME SendApart PROVE FanOut(m, r)'
    BY <1>0, <1>8 DEF SendApart
<1>9. QED
    BY <1>1, <1>2, <1>3, <1>4, <1>5, <1>6, <1>7, <1>8, SendSteps

\* A sender that was told `sent` has reached every member who was there throughout
\* and had not blocked it: each has the message, has it waiting, or had a full queue.
THEOREM SentIsKept == Spec => []SentReachesMembers
<1>1. Init => FanOutInv
    BY DEF Init, FanOutInv, FanOut, Asked, Unsent
<1>2. TypeOK /\ FanOutInv /\ NoLoss => SentReachesMembers
    <2> SUFFICES ASSUME TypeOK, FanOutInv, NoLoss,
                        NEW m \in Msg, send[m].pc = "done",
                        NEW r \in steady[m], watch[m][r] = "clear"
                 PROVE  <<m, r>> \in queue \cup dropped \/ m \in stored[r]
        BY DEF SentReachesMembers
    <2>1. r \in User
        BY DEF TypeOK
    <2>2. <<m, r>> \in posted \cup dropped
        BY <2>1 DEF FanOutInv, FanOut, Asked
    <2>3. QED
        BY <2>2 DEF NoLoss
<1>3. QED
    BY <1>1, <1>2, TypeCorrect, NothingIsLost, FanOutStep, PTL DEF Spec

\* Whoever had the sender blocked at the membership check, and kept it so, is on no
\* list of recipients and in no row.
Barred(m, r) ==
    /\ send[m].pc = "idle" => <<m, r>> \notin posted
    /\ watch[m][r] = "barred" =>
        /\ send[m].pc = "stamped" => <<r, From[m]>> \in blocks
        /\ send[m].pc # "idle" => <<m, r>> \notin posted
        /\ send[m].pc \in {"next", "insert", "push"} => send[m].left[r] = "none"

BarredInv == \A m \in Msg, r \in User : Barred(m, r)

\* No step lists, or inserts a row for, a recipient who has the sender blocked.
LEMMA BarredStep == TypeOK /\ GateInv /\ BarredInv /\ [Next]_vars => BarredInv'
<1> SUFFICES ASSUME TypeOK, GateInv, BarredInv, [Next]_vars, NEW m \in Msg, NEW r \in User
             PROVE  Barred(m, r)'
    BY DEF BarredInv
<1> USE DEF Barred, dbVars, taskVars, clientVars, ghostVars
<1>0. /\ Barred(m, r) /\ send[m] \in SendType
      /\ send \in [Msg -> SendType] /\ watch \in [Msg -> WatchType]
      /\ send[m].pc \in {"insert", "push"} => send[m].left[send[m].cur] # "none"
    BY DEF BarredInv, TypeOK, GateInv
<1>1. ASSUME NEW x \in Msg, StartSend(x) PROVE Barred(m, r)'
    <2>1. UNCHANGED <<blocks, posted>>
        BY <1>1 DEF StartSend
    <2>2. CASE x = m
        <3>1. /\ watch'[m][r] = "barred" => <<r, From[m]>> \in blocks
              /\ send[m].pc = "idle" /\ send'[m].pc = "stamped"
            BY <1>0, <1>1, <2>2 DEF StartSend, SendType
        <3>2. QED
            BY <1>0, <2>1, <3>1
    <2>3. CASE x # m
        <3>1. send'[m] = send[m] /\ watch'[m] = watch[m]
            BY <1>0, <1>1, <2>3 DEF StartSend
        <3>2. QED
            BY <1>0, <2>1, <3>1
    <2>4. QED
        BY <2>2, <2>3
<1>2. ASSUME NEW x \in Msg, Snapshot(x) PROVE Barred(m, r)'
    <2>1. UNCHANGED <<blocks, posted, watch>>
        BY <1>2 DEF Snapshot
    <2>2. CASE x = m
        <3> DEFINE l == [u \in User |-> IF u \in Recipients(m) THEN status[u] ELSE "none"]
                   h == [send[m] EXCEPT !.left = l]
        <3>1. l \in [User -> Status] /\ (watch[m][r] = "barred" => l[r] = "none")
            BY <1>0, <1>2, <2>2 DEF Snapshot, Recipients, Status, TypeOK
        <3>2. send'[m] = Advance(h) /\ send[m].pc = "stamped"
            BY <1>0, <1>2, <2>2 DEF Snapshot
        <3> HIDE DEF l
        <3>3. h \in SendType /\ h.left = l
            BY <1>0, <3>1, Advances
        <3> HIDE DEF h
        <3>4. send'[m].left = l /\ send'[m].pc \in {"next", "done"}
            BY <3>2, <3>3, Advances
        <3>5. QED
            BY <1>0, <2>1, <3>1, <3>2, <3>4
    <2>3. CASE x # m
        <3>1. send'[m] = send[m]
            BY <1>0, <1>2, <2>3 DEF Snapshot
        <3>2. QED
            BY <1>0, <2>1, <3>1
    <2>4. QED
        BY <2>2, <2>3
<1>3. ASSUME NEW x \in Msg, NEW u \in User, CountBacklog(x, u) PROVE Barred(m, r)'
    <2>1. UNCHANGED <<blocks, posted, watch>>
        BY <1>3 DEF CountBacklog
    <2>2. CASE x = m
        <3> DEFINE h == [send[m] EXCEPT !.left[u] = "none"]
                   go == [send[m] EXCEPT !.pc = "insert", !.cur = u]
        <3>1. send[m].pc = "next"
            BY <1>3, <2>2 DEF CountBacklog
        <3>2. h \in SendType /\ h.left[r] \in {"none", send[m].left[r]}
            BY <1>0 DEF SendType, Status
        <3>3. go.pc = "insert" /\ go.left = send[m].left
            BY <1>0 DEF SendType
        <3>4. send'[m] = Advance(h) \/ send'[m] = go
            BY <1>0, <1>3, <2>2 DEF CountBacklog
        <3> HIDE DEF h, go
        <3>5. ASSUME send'[m] = Advance(h) PROVE Barred(m, r)'
            <4>1. send'[m].left = h.left /\ send'[m].pc \in {"next", "done"}
                BY <3>2, <3>5, Advances
            <4>2. QED
                BY <1>0, <2>1, <3>1, <3>2, <4>1
        <3>6. ASSUME send'[m] = go PROVE Barred(m, r)'
            BY <1>0, <2>1, <3>1, <3>3, <3>6
        <3>7. QED
            BY <3>4, <3>5, <3>6
    <2>3. CASE x # m
        <3>1. send'[m] = send[m]
            BY <1>0, <1>3, <2>3 DEF CountBacklog
        <3>2. QED
            BY <1>0, <2>1, <3>1
    <2>4. QED
        BY <2>2, <2>3
<1>4. ASSUME NEW x \in Msg, InsertRow(x) PROVE Barred(m, r)'
    <2>1. UNCHANGED <<blocks, watch>> /\ posted' \subseteq posted \cup {<<x, send[x].cur>>}
        BY <1>4 DEF InsertRow
    <2>2. CASE x = m
        <3> DEFINE stop == [Unsent EXCEPT !.pc = "failed"]
                   go == [send[m] EXCEPT !.pc = "push"]
        <3>1. /\ stop.pc = "failed" /\ go.left = send[m].left
              /\ send[m].pc = "insert" /\ go.pc = "push"
            BY <1>0, <1>4, <2>2, HandlerSteps DEF InsertRow, SendType
        <3>2. send'[m] = stop \/ send'[m] = go
            BY <1>0, <1>4, <2>2 DEF InsertRow
        <3>3. watch[m][r] = "barred" => <<m, r>> \notin posted'
            BY <1>0, <2>1, <2>2, <3>1
        <3> HIDE DEF stop, go
        <3>4. QED
            BY <1>0, <2>1, <3>1, <3>2, <3>3
    <2>3. CASE x # m
        <3>1. send'[m] = send[m]
            BY <1>0, <1>4, <2>3 DEF InsertRow
        <3>2. <<m, r>> \in posted' => <<m, r>> \in posted
            BY <2>1, <2>3
        <3>3. QED
            BY <1>0, <2>1, <3>1, <3>2
    <2>4. QED
        BY <2>2, <2>3
<1>5. ASSUME NEW x \in Msg, Push(x) PROVE Barred(m, r)'
    <2>1. UNCHANGED <<blocks, posted, watch>>
        BY <1>5 DEF Push
    <2>2. CASE x = m
        <3> DEFINE u == send[m].cur
                   h == [send[m] EXCEPT !.left[u] = "none"]
        <3>1. send[m].pc = "push" /\ u \in User
            BY <1>0, <1>5, <2>2, HandlerTypes DEF Push
        <3>2. send'[m] = Advance(h)
            BY <1>0, <1>5, <2>2 DEF Push
        <3> HIDE DEF u
        <3>3. h \in SendType /\ h.left[r] \in {"none", send[m].left[r]}
            BY <1>0, <3>1 DEF SendType, Status
        <3> HIDE DEF h
        <3>4. send'[m].left = h.left /\ send'[m].pc \in {"next", "done"}
            BY <3>2, <3>3, Advances
        <3>5. QED
            BY <1>0, <2>1, <3>1, <3>3, <3>4
    <2>3. CASE x # m
        <3>1. send'[m] = send[m]
            BY <1>0, <1>5, <2>3 DEF Push
        <3>2. QED
            BY <1>0, <2>1, <3>1
    <2>4. QED
        BY <2>2, <2>3
<1>6. ASSUME (\E x \in Msg : SendFail(x)) \/ ServerCrash PROVE Barred(m, r)'
    <2>1. /\ UNCHANGED <<blocks, posted, watch>>
          /\ \/ send'[m] = send[m]
             \/ send'[m] = [Unsent EXCEPT !.pc = "failed"] /\ send[m].pc # "idle"
        BY <1>0, <1>6 DEF SendFail, ServerCrash
    <2>2. QED
        BY <1>0, <2>1, HandlerSteps
<1>7. ASSUME NEW b \in User, NEW c \in User, Block(b, c) \/ Unblock(b, c) PROVE Barred(m, r)'
    <2>1. UNCHANGED <<posted, send>>
        BY <1>7 DEF Block, Unblock
    <2>2. watch'[m][r] = "barred" => watch[m][r] = "barred"
        BY <1>0, <1>7 DEF Block, Unblock, Waver, WatchType
    <2>3. watch'[m][r] = "barred" /\ send[m].pc = "stamped" => r # b \/ From[m] # c
        BY <1>0, <1>7 DEF Block, Unblock, Waver, WatchType
    <2>4. blocks \ {<<b, c>>} \subseteq blocks'
        BY <1>7 DEF Block, Unblock
    <2>5. <<r, From[m]>> \in blocks => <<r, From[m]>> \in blocks' \/ (r = b /\ From[m] = c)
        BY <2>4
    <2>6. QED
        BY <1>0, <2>1, <2>2, <2>3, <2>5
<1>8. ASSUME SendApart PROVE Barred(m, r)'
    BY <1>0, <1>8 DEF SendApart
<1>9. QED
    BY <1>1, <1>2, <1>3, <1>4, <1>5, <1>6, <1>7, <1>8, SendSteps

\* A frame that, if it is a body, is of a row that was once inserted for u.
Listed(f, u) == \A m \in Msg : f = MessageFrame(m) => <<m, u>> \in posted

\* Every body in a batch, on a wire, in a handler or in a vault comes from a row.
TracedInv ==
    /\ queue \subseteq posted
    /\ \A m \in Msg : send[m].pc = "push" => <<m, send[m].cur>> \in posted
    /\ \A t \in Task : \A i \in DOMAIN flush[t].batch : Listed(flush[t].batch[i], Owner[t[2]])
    /\ \A s \in Socket : \A i \in DOMAIN wire[s] : Listed(wire[s][i], Owner[s])
    /\ \A s \in Socket : \A f \in recv[s] : Listed(f, Owner[s])
    /\ \A u \in User : \A m \in stored[u] : <<m, u>> \in posted

\* Both SELECTs return frames of rows that are in the queue.
LEMMA ListedBatches ==
    ASSUME NEW u \in User, queue \subseteq posted
    PROVE  \A b \in QueueBatches(u) \cup OfferBatches(u) : \A i \in DOMAIN b : Listed(b[i], u)
<1>1. ASSUME NEW b \in QueueBatches(u), NEW i \in DOMAIN b PROVE Listed(b[i], u)
    <2> DEFINE ms == {m \in Msg : <<m, u>> \in queue /\ Deliverable(u)}
               n == IF Cardinality(ms) <= FlushLimit THEN Cardinality(ms) ELSE FlushLimit
    <2>1. PICK q \in Oldest(ms) : b = [j \in DOMAIN q |-> MessageFrame(q[j])]
        BY DEF QueueBatches
    <2>2. q \in [1..n -> ms]
        BY DEF Oldest, Listings
    <2> HIDE DEF n
    <2>3. q[i] \in Msg /\ <<q[i], u>> \in queue /\ b[i] = MessageFrame(q[i])
        BY <2>1, <2>2
    <2>4. QED
        BY <2>3, FrameIdentity DEF Listed
<1>2. ASSUME NEW b \in OfferBatches(u), NEW i \in DOMAIN b PROVE Listed(b[i], u)
    <2> DEFINE os == {o \in User : <<o, u>> \in offers /\ Deliverable(u)}
               n == Cardinality(os)
    <2>1. PICK q \in Listings(n, os) : b = [j \in DOMAIN q |-> OfferFrame(q[j])]
        BY DEF OfferBatches
    <2>2. q \in [1..n -> os]
        BY DEF Listings
    <2> HIDE DEF n
    <2>3. q[i] \in User /\ b[i] = OfferFrame(q[i])
        BY <2>1, <2>2
    <2>4. QED
        BY <2>3, FrameIdentity DEF Listed
<1>3. QED
    BY <1>1, <1>2

\* sendTo puts a listed frame at the end of the recipient's wires and nothing anywhere else.
LEMMA SendToListed ==
    ASSUME TypeOK, NEW u \in User, NEW f \in Frame, Listed(f, u), SendTo(u, f),
           NEW s \in Socket, \A i \in DOMAIN wire[s] : Listed(wire[s][i], Owner[s])
    PROVE  \A i \in DOMAIN wire'[s] : Listed(wire'[s][i], Owner[s])
<1>1. CASE wire'[s] = wire[s]
    BY <1>1
<1>2. CASE wire'[s] = Append(wire[s], f) /\ Owner[s] = u
    <2> DEFINE w == wire[s]
    <2>1. w \in Seq(Frame)
        BY DEF TypeOK
    <2> HIDE DEF w
    <2>2. \A i \in DOMAIN Append(w, f) :
             Append(w, f)[i] = f \/ (i \in DOMAIN w /\ Append(w, f)[i] = w[i])
        <3>1. /\ DOMAIN w = 1..Len(w) /\ Len(w) \in Nat
              /\ DOMAIN Append(w, f) = 1..Len(w) + 1
              /\ \A i \in 1..Len(w) : Append(w, f)[i] = w[i]
              /\ Append(w, f)[Len(w) + 1] = f
            BY <2>1, AppendProperties, LenProperties
        <3>2. \A i \in 1..Len(w) + 1 : i = Len(w) + 1 \/ i \in 1..Len(w)
            BY <3>1
        <3>3. QED
            BY <3>1, <3>2
    <2>3. QED
        BY <1>2, <2>2 DEF w
<1>3. QED
    BY <1>1, <1>2 DEF SendTo, SocketsOf

\* A step that inserts no row keeps the trace if what it leaves in the batches, on the
\* wires, in the handlers and in the vaults was there before.
LEMMA TracedKept ==
    ASSUME TypeOK, TracedInv, posted' = posted, queue' \subseteq queue,
           \A m \in Msg : send'[m].pc = "push" => send'[m] = send[m],
           \A t \in Task : flush'[t].batch = flush[t].batch \/ flush'[t].batch = << >>,
           \A s \in Socket : wire'[s] = wire[s] \/ wire'[s] = << >>,
           \A s \in Socket : recv'[s] \subseteq recv[s],
           \A u \in User : \A m \in stored'[u] :
              \/ m \in stored[u]
              \/ m \in Msg /\ \E s \in Socket : Owner[s] = u /\ MessageFrame(m) \in recv[s]
    PROVE  TracedInv'
<1>1. \A f, u : Listed(f, u) => Listed(f, u)'
    BY DEF Listed
<1>2. ASSUME NEW t \in Task, NEW i \in DOMAIN flush'[t].batch
      PROVE  Listed(flush[t].batch[i], Owner[t[2]]) /\ flush'[t].batch = flush[t].batch
    BY <1>2 DEF TracedInv
<1>3. ASSUME NEW s \in Socket, NEW i \in DOMAIN wire'[s]
      PROVE  Listed(wire[s][i], Owner[s]) /\ wire'[s] = wire[s]
    BY <1>3 DEF TracedInv
<1>4. ASSUME NEW s \in Socket, NEW f \in recv'[s] PROVE Listed(f, Owner[s])
    BY <1>4 DEF TracedInv
<1>5. \A u \in User : \A m \in stored'[u] : <<m, u>> \in posted'
    BY DEF TracedInv, Listed
<1>6. /\ queue' \subseteq posted'
      /\ \A m \in Msg : send'[m].pc = "push" => <<m, send'[m].cur>> \in posted'
    BY DEF TracedInv
<1>7. QED
    BY <1>2, <1>3, <1>4, <1>5, <1>6 DEF TracedInv, Listed

\* No step puts a body anywhere that is not of a row.
LEMMA TracedStep == TypeOK /\ TracedInv /\ [Next]_vars => TracedInv'
<1> SUFFICES ASSUME TypeOK, TracedInv, [Next]_vars PROVE TracedInv'
    OBVIOUS
<1> USE DEF TracedInv, Listed, dbVars, taskVars, connVars, clientVars, ghostVars
<1>0. /\ queue \subseteq Row /\ posted \subseteq Row /\ send \in [Msg -> SendType]
      /\ flush \in [Task -> FlushType] /\ wire \in [Socket -> Seq(Frame)]
      /\ recv \in [Socket -> SUBSET Frame] /\ stored \in [User -> SUBSET Msg]
      /\ Owner \in [Socket -> User] /\ \A t \in Task : t[2] \in Socket
    BY ConstantsAssumption DEF TypeOK, Task
<1>1. ASSUME NEW s \in Socket, Connect(s) \/ ResumeVisit(s) PROVE TracedInv'
    <2>1. \A x \in Task : flush'[x].batch = flush[x].batch \/ flush'[x].batch = << >>
        <3>1. PICK x \in Task, st \in Stage : flush' = [flush EXCEPT ![x] = Begin(st)]
            BY <1>1 DEF Connect, ResumeVisit, Task, Stage
        <3>2. QED
            BY <1>0, <3>1 DEF Begin
    <2>2. UNCHANGED <<queue, posted, send, wire, recv, stored>>
        BY <1>1 DEF Connect, ResumeVisit
    <2>3. QED
        BY <2>1, <2>2, TracedKept
<1>2. ASSUME NEW t \in Task, FlushQuery(t) PROVE TracedInv'
    <2>1. PICK b \in QueueBatches(Owner[t[2]]) \cup OfferBatches(Owner[t[2]]) :
             flush' = [flush EXCEPT ![t] = [@ EXCEPT !.got = TRUE, !.batch = b]]
        BY <1>2 DEF FlushQuery
    <2>2. \A i \in DOMAIN b : Listed(b[i], Owner[t[2]])
        BY <1>0, ListedBatches
    <2>3. flush'[t].batch = b /\ \A x \in Task : x # t => flush'[x] = flush[x]
        BY <1>0, <2>1 DEF FlushType
    <2>4. QED
        BY <1>2, <2>2, <2>3 DEF FlushQuery
<1>3. ASSUME NEW t \in Task, FlushSend(t) PROVE TracedInv'
    <2>1. \A x \in Task : flush'[x].batch = flush[x].batch \/ flush'[x].batch = << >>
        BY <1>0, <1>3 DEF FlushSend, NextStage, Begin, Idle
    <2>2. \A s \in Socket : s # t[2] => wire'[s] = wire[s]
        BY <1>0, <1>3 DEF FlushSend
    <2>3. \A i \in DOMAIN wire'[t[2]] : Listed(wire'[t[2]][i], Owner[t[2]])
        <3> DEFINE w == wire[t[2]]
                   b == flush[t].batch
        <3>1. w \in Seq(Frame) /\ b \in Seq(Frame) /\ wire'[t[2]] = w \o b
            BY <1>0, <1>3 DEF FlushSend, FlushType
        <3>2. /\ \A i \in DOMAIN w : Listed(w[i], Owner[t[2]])
              /\ \A i \in DOMAIN b : Listed(b[i], Owner[t[2]])
            BY <1>0
        <3> HIDE DEF w, b, Listed
        <3>3. \A i \in DOMAIN (w \o b) : \/ i \in DOMAIN w /\ (w \o b)[i] = w[i]
                                         \/ \E j \in DOMAIN b : (w \o b)[i] = b[j]
            BY <3>1, ConcatProperties
        <3>4. QED
            BY <3>1, <3>2, <3>3
    <2>4. UNCHANGED <<queue, posted, send, recv, stored>>
        BY <1>3 DEF FlushSend
    <2>5. \A x \in Task : \A i \in DOMAIN flush'[x].batch : Listed(flush'[x].batch[i], Owner[x[2]])
        BY <2>1
    <2>6. \A s \in Socket : \A i \in DOMAIN wire'[s] : Listed(wire'[s][i], Owner[s])
        BY <2>2, <2>3
    <2>7. QED
        BY <2>4, <2>5, <2>6
<1>4. ASSUME NEW t \in Task, FlushFail(t) PROVE TracedInv'
    <2>1. \A x \in Task : flush'[x].batch = flush[x].batch \/ flush'[x].batch = << >>
        BY <1>0, <1>4 DEF FlushFail, Idle, Begin
    <2>2. UNCHANGED <<queue, posted, send, wire, recv, stored>>
        BY <1>4 DEF FlushFail
    <2>3. QED
        BY <2>1, <2>2, TracedKept
<1>5. ASSUME NEW s \in Socket, NEW dies \in BOOLEAN, Close(s, dies) PROVE TracedInv'
    <2>1. UNCHANGED <<queue, posted, send>>
        BY <1>5 DEF Close
    <2>2. \A x \in Task : flush'[x].batch = flush[x].batch \/ flush'[x].batch = << >>
        BY <1>0, <1>5 DEF Close, Begin, Idle
    <2>3. \A x \in Socket : /\ wire'[x] = wire[x] \/ wire'[x] = << >>
                            /\ recv'[x] \subseteq recv[x]
        BY <1>0, <1>5 DEF Close
    <2>4. \A u \in User : \A m \in stored'[u] :
             m \in stored[u] \/ (u = Owner[s] /\ m \in Msg /\ MessageFrame(m) \in recv[s])
        <3>1. PICK fs \in {{}, recv[s]} : Committed(Owner[s], fs)
            BY <1>5 DEF Close
        <3> HIDE DEF TracedInv
        <3>2. stored' = [stored EXCEPT ![Owner[s]] = @ \cup {m \in Msg : MessageFrame(m) \in fs}]
            BY <3>1 DEF Committed
        <3>3. \A u \in User : u # Owner[s] => stored'[u] = stored[u]
            BY <1>0, <3>2
        <3>4. stored'[Owner[s]] = stored[Owner[s]] \cup {m \in Msg : MessageFrame(m) \in fs}
            BY <1>0, <3>2
        <3>5. QED
            BY <3>1, <3>3, <3>4
    <2>5. QED
        BY <2>1, <2>2, <2>3, <2>4, TracedKept
<1>6. ASSUME ServerCrash PROVE TracedInv'
    <2>1. UNCHANGED <<queue, posted>> /\ \A m \in Msg : send'[m].pc = "push" => send'[m] = send[m]
        BY <1>6, HandlerSteps DEF ServerCrash
    <2>2. \A t \in Task : flush'[t].batch = << >>
        BY <1>6 DEF ServerCrash, Begin, Idle
    <2>3. \A s \in Socket : wire'[s] = << >> /\ recv'[s] = {}
        BY <1>6 DEF ServerCrash
    <2>4. \A u \in User : \A m \in stored'[u] :
             \/ m \in stored[u]
             \/ m \in Msg /\ \E s \in Socket : Owner[s] = u /\ MessageFrame(m) \in recv[s]
        BY <1>6 DEF ServerCrash
    <2>5. QED
        BY <2>1, <2>2, <2>3, <2>4, TracedKept
<1>7. ASSUME NEW m \in Msg, StartSend(m) \/ Snapshot(m) \/ SendFail(m) PROVE TracedInv'
    <2>1. \A x \in Msg : send'[x].pc = "push" => send'[x] = send[x]
        <3>1. StartSend(m) => send'[m].pc = "stamped" /\ \A x \in Msg : x # m => send'[x] = send[x]
            BY <1>0 DEF StartSend, SendType
        <3>2. Snapshot(m) => send'[m].pc # "push" /\ \A x \in Msg : x # m => send'[x] = send[x]
            BY <1>0 DEF Snapshot, Advance, SendType
        <3>3. SendFail(m) => send'[m].pc = "failed" /\ \A x \in Msg : x # m => send'[x] = send[x]
            BY <1>0, HandlerSteps DEF SendFail
        <3>4. QED
            BY <1>7, <3>1, <3>2, <3>3
    <2>2. UNCHANGED <<queue, posted, flush, wire, recv, stored>>
        BY <1>7 DEF StartSend, Snapshot, SendFail
    <2>3. QED
        BY <2>1, <2>2
<1>8. ASSUME NEW m \in Msg, NEW r \in User, CountBacklog(m, r) PROVE TracedInv'
    <2>1. send'[m].pc # "push"
        <3> DEFINE h == [send[m] EXCEPT !.left[r] = "none"]
        <3>1. h \in SendType
            BY <1>0, Advances, ZenonT(60)
        <3>2. send'[m] = Advance(h) \/ send'[m].pc = "insert"
            BY <1>0, <1>8, ZenonT(60) DEF CountBacklog, SendType
        <3> HIDE DEF h
        <3>3. QED
            BY <3>1, <3>2, Advances
    <2>2. \A x \in Msg : x # m => send'[x] = send[x]
        BY <1>0, <1>8 DEF CountBacklog
    <2>3. UNCHANGED <<queue, posted, flush, wire, recv, stored>>
        BY <1>8 DEF CountBacklog
    <2>4. QED
        BY <2>1, <2>2, <2>3
<1>9. ASSUME NEW m \in Msg, InsertRow(m) PROVE TracedInv'
    <2> DEFINE row == <<m, send[m].cur>>
    <2>1. \/ queue' = queue \cup {row} /\ posted' = posted \cup {row}
          \/ UNCHANGED <<queue, posted>>
        BY <1>9 DEF InsertRow
    <2>2. \A x \in Msg : x # m => send'[x] = send[x]
        BY <1>0, <1>9 DEF InsertRow
    <2>3. send'[m].pc = "push" => row \in posted' /\ send'[m].cur = send[m].cur
        BY <1>0, <1>9, HandlerSteps DEF InsertRow
    <2>4. UNCHANGED <<flush, wire, recv, stored>>
        BY <1>9 DEF InsertRow
    <2>5. QED
        BY <2>1, <2>2, <2>3, <2>4
<1>10. ASSUME NEW m \in Msg, Push(m) PROVE TracedInv'
    <2>1. send[m].cur \in User /\ Listed(MessageFrame(m), send[m].cur)
        BY <1>0, <1>10, HandlerTypes, FrameIdentity DEF Push
    <2>2. wire' = wire \/ SendTo(send[m].cur, MessageFrame(m))
        BY <1>10 DEF Push
    <2>3. \A s \in Socket : \A i \in DOMAIN wire[s] : Listed(wire[s][i], Owner[s])
        OBVIOUS
    <2>4. ASSUME NEW s \in Socket
          PROVE  \A i \in DOMAIN wire'[s] : Listed(wire'[s][i], Owner[s])
        <3> HIDE DEF Listed
        <3>1. QED
            BY <2>1, <2>2, <2>3, FrameTypes, SendToListed
    <2>5. send'[m].pc # "push" /\ \A x \in Msg : x # m => send'[x] = send[x]
        BY <1>0, <1>10 DEF Push, Advance, SendType
    <2>6. UNCHANGED <<queue, posted, flush, recv, stored>>
        BY <1>10 DEF Push
    <2>7. QED
        BY <2>4, <2>5, <2>6
<1>11. ASSUME NEW p \in Pair, PushOffer(p) PROVE TracedInv'
    <2>1. p[1] \in User /\ p[2] \in User
        BY DEF Pair
    <2>2. OfferFrame(p[1]) \in Frame /\ Listed(OfferFrame(p[1]), p[2])
        BY <2>1, FrameTypes, FrameIdentity
    <2>3. wire' = wire \/ SendTo(p[2], OfferFrame(p[1]))
        BY <1>11 DEF PushOffer
    <2>4. \A s \in Socket : \A i \in DOMAIN wire[s] : Listed(wire[s][i], Owner[s])
        OBVIOUS
    <2>5. ASSUME NEW s \in Socket
          PROVE  \A i \in DOMAIN wire'[s] : Listed(wire'[s][i], Owner[s])
        <3> HIDE DEF Listed
        <3>1. QED
            BY <2>1, <2>2, <2>3, <2>4, SendToListed
    <2>6. UNCHANGED <<queue, posted, send, flush, recv, stored>>
        BY <1>11 DEF PushOffer
    <2>7. QED
        BY <2>5, <2>6
<1>12. ASSUME NEW o \in User, NEW r \in User, StartOffer(o, r) PROVE TracedInv'
    BY <1>12 DEF StartOffer
<1>13. ASSUME NEW p \in Pair, UpsertOffer(p) \/ ReapOffer(p) PROVE TracedInv'
    BY <1>13 DEF UpsertOffer, ReapOffer
<1>14. ASSUME NEW s \in Socket, Arrive(s) PROVE TracedInv'
    <2>1. UNCHANGED <<queue, posted, send, flush, stored>>
        BY <1>14 DEF Arrive
    <2>2. /\ wire[s] # << >> /\ wire[s] \in Seq(Frame) /\ wire'[s] = Tail(wire[s])
          /\ \A x \in Socket : x # s => wire'[x] = wire[x] /\ recv'[x] = recv[x]
          /\ recv'[s] \subseteq recv[s] \cup {Head(wire[s])}
        BY <1>0, <1>14 DEF Arrive
    <2>3. /\ 1 \in DOMAIN wire[s] /\ Head(wire[s]) = wire[s][1]
          /\ \A i \in DOMAIN Tail(wire[s]) : i + 1 \in DOMAIN wire[s] /\ Tail(wire[s])[i] = wire[s][i+1]
        BY <2>2, HeadTailProperties
    <2>4. \A i \in DOMAIN wire'[s] : Listed(wire'[s][i], Owner[s])
        BY <2>2, <2>3
    <2>5. \A f \in recv'[s] : Listed(f, Owner[s])
        BY <2>2, <2>3
    <2>6. QED
        BY <2>1, <2>2, <2>4, <2>5, ZenonT(60)
<1>15. ASSUME NEW s \in Socket, NEW f \in Frame, Handled(s, f) PROVE TracedInv'
    <2>1. UNCHANGED <<queue, posted, send, flush, wire>>
        BY <1>15 DEF Handled
    <2>2. \A x \in Socket : recv'[x] \subseteq recv[x]
        BY <1>0, <1>15 DEF Handled
    <2>3. /\ f \in recv[s]
          /\ stored' = [stored EXCEPT ![Owner[s]] = @ \cup {m \in Msg : MessageFrame(m) \in {f}}]
        BY <1>15 DEF Handled, Committed
    <2>4. \A u \in User : \A m \in stored'[u] :
             m \in stored[u] \/ (u = Owner[s] /\ m \in Msg /\ MessageFrame(m) \in recv[s])
        <3>1. \A u \in User : u # Owner[s] => stored'[u] = stored[u]
            BY <1>0, <2>3
        <3>2. stored'[Owner[s]] = stored[Owner[s]] \cup {m \in Msg : MessageFrame(m) = f}
            BY <1>0, <2>3
        <3>3. QED
            BY <2>3, <3>1, <3>2
    <2>5. QED
        BY <2>1, <2>2, <2>4, TracedKept
<1>16. ASSUME NEW s \in Socket, NEW f \in Frame, HandleAck(s, f) \/ LoseAck(s, f) PROVE TracedInv'
    BY <1>16 DEF HandleAck, LoseAck
<1>17. ASSUME NEW u \in User, Join(u) \/ Accept(u) \/ Leave(u) PROVE TracedInv'
    BY <1>17 DEF Join, Accept, Leave
<1>18. ASSUME NEW u \in User, NEW p \in User, DmOpen(u, p) PROVE TracedInv'
    BY <1>18 DEF DmOpen
<1>19. ASSUME NEW u \in User, LeaveQueue(u) \/ LeaveOffers(u) PROVE TracedInv'
    BY <1>19 DEF LeaveQueue, LeaveOffers
<1>20. ASSUME NEW u \in User, LeaveChannel(u) PROVE TracedInv'
    BY <1>0, <1>20 DEF LeaveChannel
<1>21. ASSUME NEW b \in User, NEW c \in User, Block(b, c) \/ Unblock(b, c) PROVE TracedInv'
    BY <1>21 DEF Block, Unblock
<1>22. ASSUME NEW n \in 1..Cardinality(Msg), ReapQueue(n) PROVE TracedInv'
    BY <1>22 DEF ReapQueue
<1>23. ASSUME UNCHANGED vars PROVE TracedInv'
    BY <1>23 DEF vars
<1>24. QED
    BY <1>1, <1>2, <1>3, <1>4, <1>5, <1>6, <1>7, <1>8, <1>9, <1>10, <1>11, <1>12,
       <1>13, <1>14, <1>15, <1>16, <1>17, <1>18, <1>19, <1>20, <1>21, <1>22, <1>23
    DEF Next

\* A recipient who had the sender blocked from the membership check on gets no row, no
\* frame over any path, and no message in the vault.
THEOREM BlockWithholds == Spec => []BlockedGetsNothing
<1>1. Init => GateInv
    BY ConstantsAssumption DEF Init, GateInv, Admitted, Unsent, NoOffer, Idle, Begin
<1>2. Init => BarredInv
    <2> SUFFICES ASSUME Init, NEW m \in Msg, NEW r \in User PROVE Barred(m, r)
        BY DEF BarredInv
    <2>1. watch[m][r] = "clear"
        BY DEF Init
    <2>2. SentBefore(m) => send[m].pc = "done"
        BY DEF Init, Unsent
    <2>3. ~SentBefore(m) => <<m, r>> \notin posted
        BY DEF Init, SentBefore
    <2>4. QED
        BY <2>1, <2>2, <2>3 DEF Barred
<1>3. Init => TracedInv
    BY DEF Init, TracedInv, Listed, Unsent, Idle, Begin
<1>4. TypeOK /\ BarredInv /\ TracedInv => BlockedGetsNothing
    <2> SUFFICES ASSUME TypeOK, BarredInv, TracedInv, NEW m \in Msg, NEW r \in User,
                        send[m].pc # "idle", watch[m][r] = "barred"
                 PROVE  /\ <<m, r>> \notin posted /\ m \notin stored[r]
                        /\ \A s \in Socket : Owner[s] = r =>
                              \A i \in DOMAIN wire[s] : wire[s][i] # MessageFrame(m)
        BY DEF BlockedGetsNothing
    <2>1. <<m, r>> \notin posted
        BY DEF BarredInv, Barred
    <2>2. QED
        BY <2>1 DEF TracedInv, Listed
<1>5. QED
    BY <1>1, <1>2, <1>3, <1>4, TypeCorrect, GateStep, BarredStep, TracedStep, PTL DEF Spec
---------------------------------------------------------------------------
(* The live push and the connect flush leave no gap between them.  Neither *)
(* property is inductive: what keeps a row from being stranded is where    *)
(* its frame is at each moment on its way to each of the recipient's       *)
(* sockets.                                                                *)

\* A listing of as many members of a finite set as it has lists them all.
LEMMA ListsAll ==
    ASSUME NEW S, IsFiniteSet(S), NEW q \in Listings(Cardinality(S), S), NEW x \in S
    PROVE  \E i \in DOMAIN q : q[i] = x
<1>1. PICK n \in Nat : n = Cardinality(S)
    BY FS_CardinalityType
<1>2. q \in [1 .. n -> S] /\ \A i, j \in 1 .. n : q[i] = q[j] => i = j
    BY <1>1 DEF Listings
<1>3. q \in Injection(1 .. n, S)
    BY <1>2 DEF Injection, IsInjective
<1>4. Cardinality(1 .. n) = n
    BY FS_Interval
<1>5. q \in Surjection(1 .. n, S)
    BY <1>1, <1>3, <1>4, FS_Injection
<1>6. QED
    BY <1>2, <1>5 DEF Surjection

\* A flush that has room for every message reads all rows of an active member, and all
\* of the parked keys.
LEMMA BatchesAreWhole ==
    ASSUME TypeOK, NEW u \in User, status[u] = "active"
    PROVE  /\ Cardinality(Msg) <= FlushLimit =>
                \A b \in QueueBatches(u) : \A m \in Msg :
                    <<m, u>> \in queue => \E i \in DOMAIN b : b[i] = MessageFrame(m)
           /\ \A b \in OfferBatches(u) : \A o \in User :
                <<o, u>> \in offers => \E i \in DOMAIN b : b[i] = OfferFrame(o)
<1>1. ASSUME Cardinality(Msg) <= FlushLimit, NEW b \in QueueBatches(u),
             NEW m \in Msg, <<m, u>> \in queue
      PROVE  \E i \in DOMAIN b : b[i] = MessageFrame(m)
    <2> DEFINE ms == {x \in Msg : <<x, u>> \in queue /\ Deliverable(u)}
    <2>1. m \in ms
        BY <1>1 DEF Deliverable
    <2>2. IsFiniteSet(ms) /\ IsFiniteSet(Msg) /\ ms \subseteq Msg
        BY FS_Subset, ConstantsAssumption
    <2>3. Cardinality(ms) <= Cardinality(Msg) /\ Cardinality(ms) \in Nat /\ Cardinality(Msg) \in Nat
        BY <2>2, FS_Subset, FS_CardinalityType
    <2>4. Cardinality(ms) <= FlushLimit
        BY <1>1, <2>3, ConstantsAssumption
    <2>5. PICK q \in Oldest(ms) : b = [i \in DOMAIN q |-> MessageFrame(q[i])]
        BY <1>1 DEF QueueBatches
    <2> HIDE DEF ms
    <2>6. q \in Listings(Cardinality(ms), ms)
        BY <2>4, <2>5 DEF Oldest
    <2>7. PICK i \in DOMAIN q : q[i] = m
        BY <2>1, <2>2, <2>6, ListsAll
    <2>8. QED
        BY <2>5, <2>7
<1>2. ASSUME NEW b \in OfferBatches(u), NEW o \in User, <<o, u>> \in offers
      PROVE  \E i \in DOMAIN b : b[i] = OfferFrame(o)
    <2> DEFINE os == {x \in User : <<x, u>> \in offers /\ Deliverable(u)}
    <2>1. o \in os
        BY <1>2 DEF Deliverable
    <2>2. IsFiniteSet(os)
        BY FS_Subset, ConstantsAssumption
    <2>3. PICK q \in Listings(Cardinality(os), os) : b = [i \in DOMAIN q |-> OfferFrame(q[i])]
        BY <1>2 DEF OfferBatches
    <2> HIDE DEF os
    <2>4. PICK i \in DOMAIN q : q[i] = o
        BY <2>1, <2>2, <2>3, ListsAll
    <2>5. QED
        BY <2>3, <2>4
<1>3. QED
    BY <1>1, <1>2

\* Frame f is on its way to the tab of socket s.
Carried(s, f) == f \in recv[s] \/ \E i \in DOMAIN wire[s] : wire[s][i] = f

\* What is appended to a sequence joins what was there.
LEMMA AppendedTo ==
    ASSUME NEW w \in Seq(Frame)
    PROVE  /\ \A f \in Frame : /\ \E i \in DOMAIN Append(w, f) : Append(w, f)[i] = f
                               /\ \A j \in DOMAIN w : \E i \in DOMAIN Append(w, f) :
                                     Append(w, f)[i] = w[j]
           /\ \A b \in Seq(Frame) : /\ \A j \in DOMAIN b : \E i \in DOMAIN (w \o b) : (w \o b)[i] = b[j]
                                    /\ \A j \in DOMAIN w : \E i \in DOMAIN (w \o b) : (w \o b)[i] = w[j]
<1>1. ASSUME NEW f \in Frame
      PROVE  /\ \E i \in DOMAIN Append(w, f) : Append(w, f)[i] = f
             /\ \A j \in DOMAIN w : \E i \in DOMAIN Append(w, f) : Append(w, f)[i] = w[j]
    <2>1. /\ DOMAIN w = 1..Len(w) /\ Len(w) \in Nat
          /\ DOMAIN Append(w, f) = 1..Len(w) + 1
          /\ \A i \in 1..Len(w) : Append(w, f)[i] = w[i]
          /\ Append(w, f)[Len(w) + 1] = f
        BY AppendProperties, LenProperties
    <2>2. Len(w) + 1 \in 1..Len(w) + 1 /\ \A j \in 1..Len(w) : j \in 1..Len(w) + 1
        BY <2>1
    <2>3. QED
        BY <2>1, <2>2
<1>2. ASSUME NEW b \in Seq(Frame)
      PROVE  /\ \A j \in DOMAIN b : \E i \in DOMAIN (w \o b) : (w \o b)[i] = b[j]
             /\ \A j \in DOMAIN w : \E i \in DOMAIN (w \o b) : (w \o b)[i] = w[j]
    <2>1. /\ DOMAIN w = 1..Len(w) /\ Len(w) \in Nat /\ DOMAIN b = 1..Len(b) /\ Len(b) \in Nat
          /\ DOMAIN (w \o b) = 1..Len(w) + Len(b)
          /\ \A i \in 1..Len(w) + Len(b) :
                (w \o b)[i] = IF i <= Len(w) THEN w[i] ELSE b[i - Len(w)]
        BY ConcatProperties, LenProperties
    <2>2. ASSUME NEW j \in 1..Len(b)
          PROVE  Len(w) + j \in 1..Len(w) + Len(b) /\ (w \o b)[Len(w) + j] = b[j]
        BY <2>1
    <2>3. ASSUME NEW j \in 1..Len(w) PROVE j \in 1..Len(w) + Len(b) /\ (w \o b)[j] = w[j]
        BY <2>1
    <2>4. QED
        BY <2>1, <2>2, <2>3
<1>3. QED
    BY <1>1, <1>2

\* sendTo carries the frame to every socket of the user, and all that was carried on.
LEMMA SendToCarries ==
    ASSUME TypeOK, NEW u \in User, NEW f \in Frame, SendTo(u, f), UNCHANGED recv, NEW s \in Socket
    PROVE  /\ \A g : Carried(s, g) => Carried(s, g)'
           /\ s \in registry /\ Owner[s] = u /\ sock[s] # "closed" => Carried(s, f)'
<1>1. wire[s] \in Seq(Frame)
    BY DEF TypeOK
<1>2. wire'[s] = IF s \in SocketsOf(u) /\ sock[s] # "closed" THEN Append(wire[s], f) ELSE wire[s]
    BY DEF SendTo
<1>3. PICK w \in Seq(Frame) : w = wire[s]
    BY <1>1
<1>4. /\ \E i \in DOMAIN Append(w, f) : Append(w, f)[i] = f
      /\ \A j \in DOMAIN w : \E i \in DOMAIN Append(w, f) : Append(w, f)[i] = w[j]
    BY <1>3, AppendedTo
<1>5. QED
    BY <1>2, <1>3, <1>4 DEF Carried, SocketsOf

\* A flush puts its batch behind what the socket was sent before.
LEMMA FlushCarries ==
    ASSUME TypeOK, NEW t \in Task, FlushSend(t), NEW s \in Socket
    PROVE  /\ \A g : Carried(s, g) => Carried(s, g)'
           /\ \A g : s = t[2] /\ (\E j \in DOMAIN flush[t].batch : flush[t].batch[j] = g) =>
                   Carried(s, g)'
<1>1. wire \in [Socket -> Seq(Frame)] /\ flush[t].batch \in Seq(Frame) /\ recv' = recv
    BY DEF TypeOK, FlushType, FlushSend, clientVars
<1>2. PICK w \in Seq(Frame), b \in Seq(Frame) : w = wire[s] /\ b = flush[t].batch
    BY <1>1
<1>3. wire'[s] = IF s = t[2] THEN w \o b ELSE w
    BY <1>1, <1>2 DEF FlushSend
<1>4. /\ \A j \in DOMAIN b : \E i \in DOMAIN (w \o b) : (w \o b)[i] = b[j]
      /\ \A j \in DOMAIN w : \E i \in DOMAIN (w \o b) : (w \o b)[i] = w[j]
    BY AppendedTo
<1>5. \A g : Carried(s, g) => Carried(s, g)'
    BY <1>1, <1>2, <1>3, <1>4 DEF Carried
<1>6. ASSUME NEW g, s = t[2], NEW j \in DOMAIN flush[t].batch, flush[t].batch[j] = g
      PROVE  Carried(s, g)'
    <2>1. j \in DOMAIN b /\ b[j] = g
        BY <1>2, <1>6
    <2>2. PICK i \in DOMAIN wire'[s] : wire'[s][i] = g
        BY <1>3, <1>4, <1>6, <2>1
    <2>3. QED
        BY <2>2 DEF Carried
<1>7. QED
    BY <1>5, <1>6

\* A tab takes in the first frame that was sent to it if it is a body and it has the
\* key, or a key and it has none; nothing else leaves the way.
LEMMA ArriveCarries ==
    ASSUME TypeOK, NEW a \in Socket, Arrive(a), NEW s \in Socket, NEW g \in Frame,
           (g.type = "message") = hasKey[Owner[s]], Carried(s, g)
    PROVE  Carried(s, g)'
<1>1. /\ wire \in [Socket -> Seq(Frame)] /\ recv \in [Socket -> SUBSET Frame]
      /\ hasKey \in [User -> BOOLEAN] /\ Owner \in [Socket -> User]
    BY ConstantsAssumption DEF TypeOK
<1>2. CASE s # a
    BY <1>1, <1>2 DEF Arrive, Carried
<1>3. CASE s = a
    <2>1. wire[s] # << >> /\ wire'[s] = Tail(wire[s]) /\ recv[s] \subseteq recv'[s]
        BY <1>1, <1>3 DEF Arrive
    <2>2. g = Head(wire[s]) => g \in recv'[s]
        BY <1>1, <1>3 DEF Arrive
    <2>3. PICK w \in Seq(Frame) : w = wire[s]
        BY <1>1
    <2>4. \A j \in DOMAIN w : w[j] = Head(w) \/ \E i \in DOMAIN Tail(w) : Tail(w)[i] = w[j]
        <3>1. /\ DOMAIN w = 1..Len(w) /\ Len(w) \in Nat /\ Head(w) = w[1]
              /\ DOMAIN Tail(w) = 1..Len(w) - 1 /\ \A i \in 1..Len(w) - 1 : Tail(w)[i] = w[i + 1]
            BY <2>1, <2>3, HeadTailProperties, LenProperties
        <3>2. ASSUME NEW j \in 1..Len(w), j # 1
              PROVE  j - 1 \in 1..Len(w) - 1 /\ Tail(w)[j - 1] = w[j]
            BY <3>1, <3>2
        <3>3. QED
            BY <3>1, <3>2
    <2>5. QED
        BY <2>1, <2>2, <2>3, <2>4 DEF Carried
<1>4. QED
    BY <1>2, <1>3
\* Nothing that a step leaves alone is lost on the way.
LEMMA CarriedStays ==
    ASSUME NEW s \in Socket, wire'[s] = wire[s], recv[s] \subseteq recv'[s]
    PROVE  \A g : Carried(s, g) => Carried(s, g)'
BY DEF Carried

\* A socket that is not closed is in the registry; its connect flush runs until it is
\* open, and has a batch only while it runs.
Connected ==
    \A s \in Socket :
        LET h == flush[<<"connect", s>>]
        IN  /\ sock[s] # "closed" => s \in registry
            /\ h.stage # "idle" => sock[s] = "flushing"
            /\ h.got => h.stage # "idle"

\* Only an open socket is taken out of the registry, and then it is closed.
LEMMA ConnectedStep == TypeOK /\ Connected /\ [Next]_vars => Connected'
<1> SUFFICES ASSUME TypeOK, Connected, [Next]_vars PROVE Connected'
    OBVIOUS
<1> USE DEF Connected, dbVars, taskVars, connVars, clientVars, ghostVars
<1>0. /\ sock \in [Socket -> {"closed", "flushing", "open"}] /\ registry \subseteq Socket
      /\ flush \in [Task -> FlushType] /\ \A s \in Socket : <<"connect", s>> \in Task
    BY DEF TypeOK, Task
<1>1. ASSUME NEW s \in Socket, Connect(s) PROVE Connected'
    BY <1>0, <1>1 DEF Connect, Begin
<1>2. ASSUME NEW t \in Task, FlushQuery(t) PROVE Connected'
    <2>1. PICK b : flush' = [flush EXCEPT ![t] = [@ EXCEPT !.got = TRUE, !.batch = b]]
        BY <1>2 DEF FlushQuery
    <2>2. flush[t].stage # "idle" /\ flush'[t].stage = flush[t].stage
        BY <1>0, <1>2, <2>1 DEF FlushQuery, FlushType
    <2>3. \A x \in Task : x # t => flush'[x] = flush[x]
        BY <1>0, <2>1
    <2>4. UNCHANGED <<sock, registry>>
        BY <1>2 DEF FlushQuery
    <2>5. QED
        BY <1>0, <2>2, <2>3, <2>4
<1>3. ASSUME NEW t \in Task, FlushSend(t) PROVE Connected'
    <2>1. flush' = [flush EXCEPT ![t] = NextStage(t)] /\ flush[t].got /\ registry' = registry
        BY <1>3 DEF FlushSend
    <2>2. CASE t[1] = "connect"
        <3>1. t = <<"connect", t[2]>> /\ t[2] \in Socket
            BY <2>2 DEF Task
        <3>2. sock[t[2]] = "flushing"
            BY <2>1, <3>1
        <3>3. NextStage(t) = Idle \/ NextStage(t) = Begin("offers")
            BY <2>2 DEF NextStage
        <3>4. \A x \in Socket : x # t[2] => /\ sock'[x] = sock[x]
                                            /\ flush'[<<"connect", x>>] = flush[<<"connect", x>>]
            BY <1>0, <1>3, <2>1, <3>1 DEF FlushSend, Attach
        <3>5. sock'[t[2]] = IF NextStage(t) = Idle THEN "open" ELSE "flushing"
            BY <1>0, <1>3, <2>2, <3>1, <3>2 DEF FlushSend, Attach
        <3>6. flush'[<<"connect", t[2]>>] = NextStage(t)
            BY <1>0, <2>1, <3>1
        <3>7. ASSUME NEW x \in Socket, x = t[2]
              PROVE  LET h == flush[<<"connect", x>>]
                     IN  /\ sock'[x] # "closed" => x \in registry'
                         /\ h'.stage # "idle" => sock'[x] = "flushing"
                         /\ h'.got => h'.stage # "idle"
            <4>1. x \in registry'
                BY <2>1, <3>2, <3>7
            <4>2. QED
                BY <3>3, <3>5, <3>6, <3>7, <4>1 DEF Idle, Begin
        <3>8. QED
            BY <2>1, <3>4, <3>7, ZenonT(60)
    <2>3. CASE t[1] # "connect"
        <3>1. sock' = sock /\ \A x \in Socket : flush'[<<"connect", x>>] = flush[<<"connect", x>>]
            BY <1>0, <1>3, <2>1, <2>3 DEF FlushSend, Attach
        <3>2. QED
            BY <2>1, <3>1
    <2>4. QED
        BY <2>2, <2>3
<1>4. ASSUME NEW t \in Task, FlushFail(t) PROVE Connected'
    <2>1. flush' = [flush EXCEPT ![t] = Idle] /\ registry' = registry
        BY <1>4 DEF FlushFail
    <2>2. CASE t[1] = "connect"
        <3>1. t = <<"connect", t[2]>> /\ t[2] \in Socket
            BY <2>2 DEF Task
        <3>2. sock[t[2]] = "flushing"
            BY <1>4, <3>1 DEF FlushFail
        <3>3. sock' = [sock EXCEPT ![t[2]] = "open"]
            BY <1>4, <2>2 DEF FlushFail, Attach
        <3>4. \A x \in Socket : x # t[2] => /\ sock'[x] = sock[x]
                                            /\ flush'[<<"connect", x>>] = flush[<<"connect", x>>]
            BY <1>0, <2>1, <3>1, <3>3
        <3>5. flush'[<<"connect", t[2]>>] = Idle /\ t[2] \in registry'
            BY <1>0, <2>1, <3>1, <3>2
        <3>6. Idle.stage = "idle" /\ ~Idle.got
            BY DEF Idle, Begin
        <3>7. QED
            BY <2>1, <3>4, <3>5, <3>6, ZenonT(60)
    <2>3. CASE t[1] # "connect"
        <3>1. sock' = sock /\ \A x \in Socket : flush'[<<"connect", x>>] = flush[<<"connect", x>>]
            BY <1>0, <1>4, <2>1, <2>3 DEF FlushFail, Attach
        <3>2. QED
            BY <2>1, <3>1
    <2>4. QED
        BY <2>2, <2>3
<1>5. ASSUME NEW s \in Socket, ResumeVisit(s) PROVE Connected'
    BY <1>0, <1>5 DEF ResumeVisit
<1>6. ASSUME NEW s \in Socket, NEW dies \in BOOLEAN, Close(s, dies) PROVE Connected'
    BY <1>0, <1>6 DEF Close, Idle, Begin
<1>7. ASSUME ServerCrash PROVE Connected'
    BY <1>0, <1>7 DEF ServerCrash, Idle, Begin
<1>8. ASSUME UNCHANGED <<sock, registry, flush>> PROVE Connected'
    BY <1>8
<1>9. ASSUME NEW m \in Msg, StartSend(m) \/ Snapshot(m) \/ InsertRow(m) \/ Push(m) \/ SendFail(m)
      PROVE  UNCHANGED <<sock, registry, flush>>
    BY <1>9 DEF StartSend, Snapshot, InsertRow, Push, SendFail
<1>10. ASSUME NEW m \in Msg, NEW r \in User, CountBacklog(m, r)
       PROVE  UNCHANGED <<sock, registry, flush>>
    BY <1>10 DEF CountBacklog
<1>11. ASSUME NEW o \in User, NEW r \in User, StartOffer(o, r)
       PROVE  UNCHANGED <<sock, registry, flush>>
    BY <1>11 DEF StartOffer
<1>12. ASSUME NEW p \in Pair, UpsertOffer(p) \/ PushOffer(p) \/ ReapOffer(p)
       PROVE  UNCHANGED <<sock, registry, flush>>
    BY <1>12 DEF UpsertOffer, PushOffer, ReapOffer
<1>13. ASSUME NEW s \in Socket, NEW f \in Frame,
              Handled(s, f) \/ HandleAck(s, f) \/ LoseAck(s, f)
       PROVE  UNCHANGED <<sock, registry, flush>>
    BY <1>13 DEF Handled, HandleAck, LoseAck
<1>14. ASSUME NEW s \in Socket, Arrive(s) PROVE UNCHANGED <<sock, registry, flush>>
    BY <1>14 DEF Arrive
<1>15. ASSUME NEW u \in User, \/ Join(u) \/ Accept(u) \/ Leave(u) \/ LeaveQueue(u)
                              \/ LeaveOffers(u) \/ LeaveChannel(u)
       PROVE  UNCHANGED <<sock, registry, flush>>
    BY <1>15 DEF Join, Accept, Leave, LeaveQueue, LeaveOffers, LeaveChannel
<1>16. ASSUME NEW u \in User, NEW p \in User, DmOpen(u, p) \/ Block(u, p) \/ Unblock(u, p)
       PROVE  UNCHANGED <<sock, registry, flush>>
    BY <1>16 DEF DmOpen, Block, Unblock
<1>17. ASSUME NEW n \in 1..Cardinality(Msg), ReapQueue(n) PROVE UNCHANGED <<sock, registry, flush>>
    BY <1>17 DEF ReapQueue
<1>18. ASSUME UNCHANGED vars PROVE UNCHANGED <<sock, registry, flush>>
    BY <1>18 DEF vars
<1>19. QED
    BY <1>1, <1>2, <1>3, <1>4, <1>5, <1>6, <1>7, <1>8, <1>9, <1>10, <1>11, <1>12, <1>13,
       <1>14, <1>15, <1>16, <1>17, <1>18
    DEF Next

\* The members who hold the key from the start keep it and stay, if they may not leave;
\* no handler takes them for invitees.
KeyedStay ==
    \A u \in InitKeyed : /\ status[u] = "active" /\ hasKey[u] /\ leaving[u] = "idle"
                         /\ \A m \in Msg : send[m].left[u] # "pending"

LEMMA KeyedStayStep ==
    ASSUME InitKeyed \cap Leavers = {}
    PROVE  TypeOK /\ KeyedStay /\ [Next]_vars => KeyedStay'
<1> SUFFICES ASSUME TypeOK, KeyedStay, [Next]_vars PROVE KeyedStay'
    OBVIOUS
<1> USE DEF KeyedStay, dbVars, taskVars, connVars, clientVars, ghostVars
<1>0. /\ InitKeyed \subseteq User /\ status \in [User -> Status] /\ hasKey \in [User -> BOOLEAN]
      /\ send \in [Msg -> SendType] /\ Owner \in [Socket -> User]
      /\ leaving \in [User -> {"idle", "queue", "offers", "channel"}]
    BY ConstantsAssumption DEF TypeOK
<1>1. ASSUME UNCHANGED <<status, leaving>>, \A u \in User : hasKey[u] => hasKey'[u],
             \A m \in Msg : \A u \in User :
                send'[m].left[u] \in {send[m].left[u], status[u], "none"}
      PROVE  KeyedStay'
    BY <1>0, <1>1
<1>2. ASSUME NEW s \in Socket, NEW f \in Frame, Handled(s, f) \/ HandleAck(s, f) \/ LoseAck(s, f)
      PROVE  KeyedStay'
    <2>1. UNCHANGED <<status, leaving, send>>
        BY <1>2 DEF Handled, HandleAck, LoseAck
    <2>2. \A u \in User : hasKey[u] => hasKey'[u]
        BY <1>0, <1>2 DEF Handled, HandleAck, LoseAck, Committed
    <2>3. QED
        BY <1>1, <2>1, <2>2
<1>3. ASSUME NEW s \in Socket, NEW dies \in BOOLEAN,
             Connect(s) \/ ResumeVisit(s) \/ Close(s, dies) \/ Arrive(s)
      PROVE  KeyedStay'
    <2>1. UNCHANGED <<status, leaving, send>>
        BY <1>3 DEF Connect, ResumeVisit, Close, Arrive
    <2>2. \A u \in User : hasKey[u] => hasKey'[u]
        BY <1>0, <1>3 DEF Connect, ResumeVisit, Close, Arrive, Committed
    <2>3. QED
        BY <1>1, <2>1, <2>2
<1>4. ASSUME NEW t \in Task, FlushQuery(t) \/ FlushSend(t) \/ FlushFail(t) PROVE KeyedStay'
    <2>1. UNCHANGED <<status, leaving, send, hasKey>>
        BY <1>4, Zenon DEF FlushQuery, FlushSend, FlushFail
    <2>2. QED
        BY <1>1, <2>1, SMTT(30)
<1>5. ASSUME ServerCrash PROVE KeyedStay'
    <2>1. status' = status /\ \A u \in User : leaving'[u] = "idle" /\ (hasKey[u] => hasKey'[u])
        BY <1>5 DEF ServerCrash
    <2>2. \A m \in Msg : send'[m] = send[m] \/ send'[m] = [Unsent EXCEPT !.pc = "failed"]
        BY <1>5 DEF ServerCrash
    <2>3. \A m \in Msg : \A u \in User : send'[m].left[u] \in {send[m].left[u], "none"}
        BY <2>2, HandlerSteps
    <2>4. \A m \in Msg : \A u \in InitKeyed : send'[m].left[u] # "pending"
        BY <1>0, <2>3
    <2>5. QED
        BY <1>0, <2>1, <2>4
<1>6. ASSUME NEW m \in Msg, StartSend(m) \/ Snapshot(m) \/ InsertRow(m) \/ Push(m) \/ SendFail(m)
      PROVE  KeyedStay'
    <2>0. send[m] \in SendType
        BY <1>0
    <2>1. UNCHANGED <<status, leaving, hasKey>> /\ \A x \in Msg : x # m => send'[x] = send[x]
        BY <1>0, <1>6 DEF StartSend, Snapshot, InsertRow, Push, SendFail
    <2>2. \A u \in User : send'[m].left[u] \in {send[m].left[u], status[u], "none"}
        <3>1. CASE StartSend(m)
            BY <1>0, <3>1 DEF StartSend, SendType
        <3>2. CASE Snapshot(m)
            <4> DEFINE l == [u \in User |-> IF u \in Recipients(m) THEN status[u] ELSE "none"]
                       h == [send[m] EXCEPT !.left = l]
            <4>1. l \in [User -> Status] /\ \A u \in User : l[u] \in {status[u], "none"}
                BY <1>0 DEF Status
            <4>2. send'[m] = Advance(h)
                BY <1>0, <3>2 DEF Snapshot
            <4> HIDE DEF l
            <4>3. h \in SendType /\ h.left = l
                BY <2>0, <4>1, Advances
            <4> HIDE DEF h
            <4>4. send'[m].left = l
                BY <4>2, <4>3, Advances
            <4>5. QED
                BY <4>1, <4>4
        <3>3. CASE InsertRow(m)
            <4>1. \/ send'[m] = [send[m] EXCEPT !.pc = "push"]
                  \/ send'[m] = [Unsent EXCEPT !.pc = "failed"]
                BY <1>0, <3>3 DEF InsertRow
            <4>2. [send[m] EXCEPT !.pc = "push"].left = send[m].left
                BY <2>0, HandlerSteps
            <4>3. \A u \in User : [Unsent EXCEPT !.pc = "failed"].left[u] = "none"
                BY HandlerSteps
            <4>4. QED
                BY <4>1, <4>2, <4>3
        <3>4. CASE Push(m)
            <4> DEFINE r == send[m].cur
                       h == [send[m] EXCEPT !.left[r] = "none"]
            <4>1. r \in User
                BY <1>0, <3>4, HandlerTypes DEF Push
            <4>2. send'[m] = Advance(h)
                BY <1>0, <3>4 DEF Push
            <4> HIDE DEF r
            <4>3. /\ h \in SendType /\ h.left[r] = "none"
                  /\ \A u \in User : u # r => h.left[u] = send[m].left[u]
                BY <2>0, <4>1, Advances
            <4> HIDE DEF h
            <4>4. send'[m].left = h.left
                BY <4>2, <4>3, Advances
            <4>5. QED
                BY <4>3, <4>4
        <3>5. CASE SendFail(m)
            BY <1>0, <3>5, HandlerSteps DEF SendFail
        <3>6. QED
            BY <1>6, <3>1, <3>2, <3>3, <3>4, <3>5
    <2>3. QED
        BY <1>1, <2>1, <2>2
<1>7. ASSUME NEW m \in Msg, NEW r \in User, CountBacklog(m, r) PROVE KeyedStay'
    <2> DEFINE h == [send[m] EXCEPT !.left[r] = "none"]
    <2>0. send[m] \in SendType
        BY <1>0
    <2>1. UNCHANGED <<status, leaving, hasKey>> /\ \A x \in Msg : x # m => send'[x] = send[x]
        BY <1>0, <1>7 DEF CountBacklog
    <2>2. send'[m] = Advance(h) \/ send'[m] = [send[m] EXCEPT !.pc = "insert", !.cur = r]
        BY <1>0, <1>7 DEF CountBacklog
    <2>3. /\ h \in SendType /\ h.left[r] = "none"
          /\ \A u \in User : u # r => h.left[u] = send[m].left[u]
        BY <2>0, Advances
    <2> HIDE DEF h
    <2>4. Advance(h).left = h.left
        BY <2>3, Advances
    <2>5. [send[m] EXCEPT !.pc = "insert", !.cur = r].left = send[m].left
        BY <1>0 DEF SendType
    <2>6. \A u \in User : send'[m].left[u] \in {send[m].left[u], status[u], "none"}
        BY <2>2, <2>3, <2>4, <2>5, ZenonT(60)
    <2>7. QED
        BY <1>1, <2>1, <2>6
<1>8. ASSUME NEW o \in User, NEW r \in User, StartOffer(o, r) PROVE KeyedStay'
    BY <1>1, <1>8 DEF StartOffer
<1>9. ASSUME NEW p \in Pair, UpsertOffer(p) \/ PushOffer(p) \/ ReapOffer(p) PROVE KeyedStay'
    BY <1>1, <1>9 DEF UpsertOffer, PushOffer, ReapOffer
<1>10. ASSUME NEW u \in User, Join(u) \/ Accept(u) PROVE KeyedStay'
    BY <1>0, <1>10 DEF Join, Accept
<1>11. ASSUME NEW u \in User, NEW p \in User, DmOpen(u, p) PROVE KeyedStay'
    <2>1. \A v \in User : /\ status[v] = "active" => status'[v] = "active"
                          /\ hasKey[v] => hasKey'[v]
        BY <1>0, <1>11 DEF DmOpen
    <2>2. UNCHANGED <<leaving, send>>
        BY <1>11 DEF DmOpen
    <2>3. QED
        BY <1>0, <2>1, <2>2
<1>12. ASSUME NEW u \in User, Leave(u) \/ LeaveQueue(u) \/ LeaveOffers(u) \/ LeaveChannel(u)
       PROVE  KeyedStay'
    <2>1. u \notin InitKeyed
        BY <1>12 DEF Leave, LeaveQueue, LeaveOffers, LeaveChannel
    <2>2. /\ \A v \in User : v # u => /\ status'[v] = status[v] /\ leaving'[v] = leaving[v]
                                      /\ hasKey'[v] = hasKey[v]
          /\ send' = send
        BY <1>0, <1>12 DEF Leave, LeaveQueue, LeaveOffers, LeaveChannel
    <2>3. QED
        BY <1>0, <2>1, <2>2
<1>13. ASSUME NEW u \in User, NEW p \in User, Block(u, p) \/ Unblock(u, p) PROVE KeyedStay'
    BY <1>1, <1>13 DEF Block, Unblock
<1>14. ASSUME NEW n \in 1..Cardinality(Msg), ReapQueue(n) PROVE KeyedStay'
    BY <1>1, <1>14 DEF ReapQueue
<1>15. ASSUME UNCHANGED vars PROVE KeyedStay'
    BY <1>1, <1>15 DEF vars
<1>16. QED
    BY <1>2, <1>3, <1>4, <1>5, <1>6, <1>7, <1>8, <1>9, <1>10, <1>11, <1>12, <1>13, <1>14, <1>15
    DEF Next
\* The connect flush of s is at a stage, and its batch has frame f or is yet to be read.
ToFlush(s, stage, f) ==
    LET h == flush[<<"connect", s>>]
    IN  h.stage = stage /\ (h.got => \E i \in DOMAIN h.batch : h.batch[i] = f)

\* A keyed member with a socket that is not closed lacks a message that waits for it.
Lacking(s, m) ==
    /\ Owner[s] \in InitKeyed /\ sock[s] # "closed"
    /\ <<m, Owner[s]>> \in queue /\ m \notin stored[Owner[s]]

\* Then it is about to be pushed, is on its way, or will be flushed.
Reaching ==
    \A s \in Socket, m \in Msg : Lacking(s, m) =>
        \/ send[m].pc = "push" /\ send[m].cur = Owner[s]
        \/ Carried(s, MessageFrame(m))
        \/ ToFlush(s, "queue", MessageFrame(m))

\* Wherever a row's frame is, each step moves it on towards the recipient's vault.
LEMMA ReachingStep ==
    ASSUME "db" \notin Faults, Cardinality(Msg) <= FlushLimit, InitKeyed \cap Leavers = {}
    PROVE  TypeOK /\ KeyedStay /\ Connected /\ Reaching /\ [Next]_vars => Reaching'
<1> DEFINE Pushing(s, m) == send[m].pc = "push" /\ send[m].cur = Owner[s]
           Reached(s, m) == \/ Pushing(s, m) \/ Carried(s, MessageFrame(m))
                            \/ ToFlush(s, "queue", MessageFrame(m))
<1> SUFFICES ASSUME TypeOK, KeyedStay, Connected, Reaching, [Next]_vars,
                    NEW s \in Socket, NEW m \in Msg, Lacking(s, m)'
             PROVE  Reached(s, m)'
    BY DEF Reaching
<1> USE DEF dbVars, taskVars, connVars, clientVars, ghostVars
<1>0. /\ queue \subseteq Row /\ sock \in [Socket -> {"closed", "flushing", "open"}]
      /\ flush \in [Task -> FlushType] /\ send \in [Msg -> SendType]
      /\ wire \in [Socket -> Seq(Frame)] /\ recv \in [Socket -> SUBSET Frame]
      /\ stored \in [User -> SUBSET Msg] /\ hasKey \in [User -> BOOLEAN]
      /\ Owner \in [Socket -> User] /\ <<"connect", s>> \in Task
    BY ConstantsAssumption DEF TypeOK, Task
<1>1. /\ Owner[s] \in InitKeyed /\ sock'[s] # "closed" /\ <<m, Owner[s]>> \in queue'
      /\ m \notin stored'[Owner[s]]
    BY DEF Lacking
<1>2. ASSUME sock[s] # "closed", <<m, Owner[s]>> \in queue, m \notin stored[Owner[s]]
      PROVE  Reached(s, m)
    BY <1>1, <1>2 DEF Lacking, Reaching
<1>3. ASSUME sock[s] # "closed", queue' \subseteq queue, stored[Owner[s]] \subseteq stored'[Owner[s]],
             send[m].pc = "push" => send'[m] = send[m],
             Carried(s, MessageFrame(m)) => Carried(s, MessageFrame(m))',
             flush'[<<"connect", s>>] = flush[<<"connect", s>>]
      PROVE  Reached(s, m)'
    <2>1. Reached(s, m)
        BY <1>1, <1>2, <1>3
    <2>2. CASE Pushing(s, m)
        BY <1>3, <2>2
    <2>3. CASE Carried(s, MessageFrame(m))
        BY <1>3, <2>3 DEF MessageFrame
    <2>4. CASE ToFlush(s, "queue", MessageFrame(m))
        BY <1>3, <2>4 DEF ToFlush, MessageFrame
    <2>5. QED
        BY <2>1, <2>2, <2>3, <2>4
<1>4. ASSUME UNCHANGED <<sock, stored, wire, recv, flush>>, queue' \subseteq queue,
             send[m].pc = "push" => send'[m] = send[m]
      PROVE  Reached(s, m)'
    <2>1. Carried(s, MessageFrame(m)) => Carried(s, MessageFrame(m))'
        BY <1>4 DEF Carried, MessageFrame
    <2>2. QED
        BY <1>1, <1>3, <1>4, <2>1
<1>5. ASSUME NEW x \in Socket, Connect(x) PROVE Reached(s, m)'
    <2>1. UNCHANGED <<queue, stored, wire, recv, send>>
        BY <1>5 DEF Connect
    <2>2. CASE x = s
        <3>1. flush'[<<"connect", s>>] = Begin("queue")
            BY <1>0, <1>5, <2>2 DEF Connect
        <3>2. QED
            BY <3>1 DEF ToFlush, Begin
    <2>3. CASE x # s
        <3>1. sock'[s] = sock[s] /\ flush'[<<"connect", s>>] = flush[<<"connect", s>>]
            BY <1>0, <1>5, <2>3 DEF Connect
        <3>2. Carried(s, MessageFrame(m)) => Carried(s, MessageFrame(m))'
            BY <2>1 DEF Carried, MessageFrame
        <3>3. QED
            BY <1>1, <1>3, <2>1, <3>1, <3>2
    <2>4. QED
        BY <2>2, <2>3
<1>6. ASSUME NEW t \in Task, FlushQuery(t) PROVE Reached(s, m)'
    <2>1. UNCHANGED <<queue, stored, sock, wire, recv, send>>
        BY <1>6 DEF FlushQuery
    <2>2. Carried(s, MessageFrame(m)) => Carried(s, MessageFrame(m))'
        BY <2>1 DEF Carried, MessageFrame
    <2>3. CASE t = <<"connect", s>> /\ flush[t].stage = "queue"
        <3>1. PICK b \in QueueBatches(Owner[s]) :
                 flush' = [flush EXCEPT ![t] = [@ EXCEPT !.got = TRUE, !.batch = b]]
            BY <1>6, <2>3 DEF FlushQuery
        <3>2. flush'[t].stage = "queue" /\ flush'[t].batch = b
            BY <1>0, <2>3, <3>1 DEF FlushType
        <3>3. status[Owner[s]] = "active" /\ Owner[s] \in User
            BY <1>0, <1>1 DEF KeyedStay
        <3>4. \E i \in DOMAIN b : b[i] = MessageFrame(m)
            BY <1>1, <2>1, <3>3, BatchesAreWhole
        <3>5. QED
            BY <2>3, <3>2, <3>4 DEF ToFlush, MessageFrame
    <2>4. CASE t = <<"connect", s>> /\ flush[t].stage # "queue"
        <3>1. Reached(s, m) /\ ~ToFlush(s, "queue", MessageFrame(m))
            BY <1>1, <1>2, <2>1, <2>4 DEF ToFlush
        <3>2. QED
            BY <2>1, <2>2, <3>1
    <2>5. CASE t # <<"connect", s>>
        <3>1. flush'[<<"connect", s>>] = flush[<<"connect", s>>]
            BY <1>0, <1>6, <2>5 DEF FlushQuery
        <3>2. QED
            BY <1>1, <1>3, <2>1, <2>2, <3>1
    <2>6. QED
        BY <2>3, <2>4, <2>5
<1>7. ASSUME NEW t \in Task, FlushSend(t) PROVE Reached(s, m)'
    <2>1. UNCHANGED <<queue, stored, send>> /\ flush[t].got /\ flush' = [flush EXCEPT ![t] = NextStage(t)]
        BY <1>7 DEF FlushSend
    <2>2. Carried(s, MessageFrame(m)) => Carried(s, MessageFrame(m))'
        <3>1. PICK g : g = MessageFrame(m)
            OBVIOUS
        <3>2. Carried(s, g) => Carried(s, g)'
            BY <1>7, FlushCarries
        <3>3. QED
            BY <3>1, <3>2
    <2>3. CASE t = <<"connect", s>>
        <3>1. sock[s] = "flushing"
            BY <2>1, <2>3 DEF Connected
        <3>2. Reached(s, m)
            BY <1>1, <1>2, <2>1, <3>1
        <3>3. ASSUME ToFlush(s, "queue", MessageFrame(m)) PROVE Carried(s, MessageFrame(m))'
            <4>1. PICK g : g = MessageFrame(m)
                OBVIOUS
            <4>2. \E i \in DOMAIN flush[t].batch : flush[t].batch[i] = g
                BY <2>1, <2>3, <3>3, <4>1 DEF ToFlush
            <4>3. Carried(s, g)'
                BY <1>7, <2>3, <4>2, FlushCarries
            <4>4. QED
                BY <4>1, <4>3
        <3>4. QED
            BY <2>1, <2>2, <3>2, <3>3
    <2>4. CASE t # <<"connect", s>>
        <3>1. flush'[<<"connect", s>>] = flush[<<"connect", s>>]
            BY <1>0, <2>1, <2>4
        <3>2. sock[s] # "closed"
            <4>1. sock' = sock \/ (t[1] = "connect" /\ sock' = [sock EXCEPT ![t[2]] = "open"])
                BY <1>7 DEF FlushSend, Attach
            <4>2. t[1] = "connect" => t[2] # s
                BY <2>4 DEF Task
            <4>3. QED
                BY <1>0, <1>1, <4>1, <4>2
        <3>3. QED
            BY <1>1, <1>3, <2>1, <2>2, <3>1, <3>2
    <2>5. QED
        BY <2>3, <2>4
<1>8. ASSUME NEW x \in Socket, ResumeVisit(x) PROVE Reached(s, m)'
    <2>1. UNCHANGED <<queue, stored, send, sock, wire, recv>>
        BY <1>8 DEF ResumeVisit
    <2>2. Carried(s, MessageFrame(m)) => Carried(s, MessageFrame(m))'
        BY <2>1 DEF Carried, MessageFrame
    <2>3. flush'[<<"connect", s>>] = flush[<<"connect", s>>]
        BY <1>0, <1>8 DEF ResumeVisit
    <2>4. QED
        BY <1>1, <1>3, <2>1, <2>2, <2>3
<1>9. ASSUME NEW x \in Socket, NEW dies \in BOOLEAN, Close(x, dies) PROVE Reached(s, m)'
    <2>1. UNCHANGED <<queue, send>> /\ x # s
        BY <1>0, <1>1, <1>9 DEF Close
    <2>2. /\ sock'[s] = sock[s] /\ wire'[s] = wire[s] /\ recv'[s] = recv[s]
          /\ flush'[<<"connect", s>>] = flush[<<"connect", s>>]
        BY <1>0, <1>9, <2>1 DEF Close
    <2>3. stored[Owner[s]] \subseteq stored'[Owner[s]]
        BY <1>0, <1>9 DEF Close, Committed
    <2>4. Carried(s, MessageFrame(m)) => Carried(s, MessageFrame(m))'
        BY <2>2 DEF Carried, MessageFrame
    <2>5. QED
        BY <1>1, <1>3, <2>1, <2>2, <2>3, <2>4
<1>10. ASSUME ServerCrash PROVE Reached(s, m)'
    BY <1>1, <1>10 DEF ServerCrash
<1>11. ASSUME NEW x \in Msg, StartSend(x) \/ Snapshot(x) \/ SendFail(x) PROVE Reached(s, m)'
    <2>1. send[m].pc = "push" => send'[m] = send[m]
        BY <1>0, <1>11 DEF StartSend, Snapshot, SendFail
    <2>2. UNCHANGED <<sock, stored, wire, recv, flush, queue>>
        BY <1>11 DEF StartSend, Snapshot, SendFail
    <2>3. QED
        BY <1>4, <2>1, <2>2
<1>12. ASSUME NEW x \in Msg, NEW r \in User, CountBacklog(x, r) PROVE Reached(s, m)'
    <2>1. send[m].pc = "push" => send'[m] = send[m]
        BY <1>0, <1>12 DEF CountBacklog
    <2>2. UNCHANGED <<sock, stored, wire, recv, flush, queue>>
        BY <1>12 DEF CountBacklog
    <2>3. QED
        BY <1>4, <2>1, <2>2
<1>13. ASSUME NEW x \in Msg, InsertRow(x) PROVE Reached(s, m)'
    <2>1. send[m].pc = "push" => send'[m] = send[m]
        BY <1>0, <1>13 DEF InsertRow
    <2>2. UNCHANGED <<sock, stored, wire, recv, flush>>
        BY <1>13 DEF InsertRow
    <2>3. CASE queue' \subseteq queue
        BY <1>4, <2>1, <2>2, <2>3
    <2>4. CASE queue' = queue \cup {<<x, send[x].cur>>} /\ send' = [send EXCEPT ![x] = [@ EXCEPT !.pc = "push"]]
        <3>1. CASE x = m /\ send[x].cur = Owner[s]
            BY <1>0, <2>4, <3>1 DEF SendType
        <3>2. CASE ~(x = m /\ send[x].cur = Owner[s])
            <4>1. Reached(s, m)
                BY <1>1, <1>2, <2>2, <2>4, <3>2
            <4>2. Carried(s, MessageFrame(m)) => Carried(s, MessageFrame(m))'
                BY <2>2 DEF Carried, MessageFrame
            <4>3. ToFlush(s, "queue", MessageFrame(m)) => ToFlush(s, "queue", MessageFrame(m))'
                BY <2>2 DEF ToFlush, MessageFrame
            <4>4. QED
                BY <2>1, <4>1, <4>2, <4>3
        <3>3. QED
            BY <3>1, <3>2
    <2>5. QED
        BY <1>13, <2>3, <2>4 DEF InsertRow
<1>14. ASSUME NEW x \in Msg, Push(x) PROVE Reached(s, m)'
    <2>1. UNCHANGED <<queue, stored, sock, registry, flush, recv>>
        BY <1>14 DEF Push
    <2>2. send[x].cur \in User /\ MessageFrame(x) \in Frame
        BY <1>0, <1>14, HandlerTypes, FrameTypes DEF Push
    <2>3. wire' = wire \/ SendTo(send[x].cur, MessageFrame(x))
        BY <1>14 DEF Push
    <2>4. Carried(s, MessageFrame(m)) => Carried(s, MessageFrame(m))'
        <3>1. PICK g : g = MessageFrame(m)
            OBVIOUS
        <3>2. ASSUME SendTo(send[x].cur, MessageFrame(x)) PROVE Carried(s, g) => Carried(s, g)'
            BY <2>1, <2>2, <3>2, SendToCarries
        <3>3. ASSUME wire' = wire PROVE Carried(s, g) => Carried(s, g)'
            BY <2>1, <3>3 DEF Carried
        <3>4. QED
            BY <2>3, <3>1, <3>2, <3>3
    <2>5. Reached(s, m)
        BY <1>1, <1>2, <2>1
    <2>6. CASE x = m /\ Pushing(s, m)
        <3>1. send[m].left[Owner[s]] # "pending" /\ sock[s] # "closed" /\ s \in registry
            BY <1>1, <2>1 DEF KeyedStay, Connected
        <3>2. SendTo(Owner[s], MessageFrame(m))
            BY <1>14, <2>6, <3>1 DEF Push
        <3>3. PICK g \in Frame : g = MessageFrame(m)
            BY FrameTypes
        <3>4. Carried(s, g)'
            BY <1>0, <2>1, <3>1, <3>2, <3>3, SendToCarries
        <3>5. QED
            BY <3>3, <3>4
    <2>7. CASE x # m /\ Pushing(s, m)
        <3>1. send'[m] = send[m]
            BY <1>0, <1>14, <2>7 DEF Push
        <3>2. QED
            BY <2>7, <3>1
    <2>8. ToFlush(s, "queue", MessageFrame(m)) => ToFlush(s, "queue", MessageFrame(m))'
        BY <2>1 DEF ToFlush, MessageFrame
    <2>9. QED
        BY <2>4, <2>5, <2>6, <2>7, <2>8
<1>15. ASSUME NEW p \in Pair, PushOffer(p) PROVE Reached(s, m)'
    <2>1. UNCHANGED <<queue, stored, sock, flush, recv, send>>
        BY <1>15 DEF PushOffer
    <2>2. Carried(s, MessageFrame(m)) => Carried(s, MessageFrame(m))'
        <3>1. PICK g, f, u : g = MessageFrame(m) /\ f = OfferFrame(p[1]) /\ u = p[2]
            OBVIOUS
        <3>2. f \in Frame /\ u \in User
            BY <3>1, FrameTypes DEF Pair
        <3>3. ASSUME SendTo(u, f) PROVE Carried(s, g) => Carried(s, g)'
            BY <2>1, <3>2, <3>3, SendToCarries
        <3>4. ASSUME wire' = wire PROVE Carried(s, g) => Carried(s, g)'
            BY <2>1, <3>4 DEF Carried
        <3>5. QED
            BY <1>15, <3>1, <3>3, <3>4 DEF PushOffer
    <2>3. QED
        BY <1>1, <1>3, <2>1, <2>2
<1>16. ASSUME NEW a \in Socket, Arrive(a) PROVE Reached(s, m)'
    <2>1. UNCHANGED <<queue, stored, sock, flush, send>>
        BY <1>16 DEF Arrive
    <2>2. Carried(s, MessageFrame(m)) => Carried(s, MessageFrame(m))'
        <3>1. PICK g \in Frame : g = MessageFrame(m)
            BY FrameTypes
        <3>2. g.type = "message" /\ hasKey[Owner[s]]
            BY <1>1, <3>1, FrameIdentity DEF KeyedStay
        <3>3. Carried(s, g) => Carried(s, g)'
            BY <1>16, <3>2, ArriveCarries
        <3>4. QED
            BY <3>1, <3>3
    <2>3. QED
        BY <1>1, <1>3, <2>1, <2>2
<1>17. ASSUME NEW x \in Socket, NEW f \in Frame, Handled(x, f) PROVE Reached(s, m)'
    <2>1. UNCHANGED <<queue, wire, sock, flush, send>>
        BY <1>17 DEF Handled
    <2>2. stored[Owner[s]] \subseteq stored'[Owner[s]]
        BY <1>0, <1>17 DEF Handled, Committed
    <2>3. x = s => f # MessageFrame(m)
        BY <1>0, <1>1, <1>17 DEF Handled, Committed
    <2>4. Carried(s, MessageFrame(m)) => Carried(s, MessageFrame(m))'
        BY <1>0, <1>17, <2>1, <2>3 DEF Handled, Carried, MessageFrame
    <2>5. QED
        BY <1>1, <1>3, <2>1, <2>2, <2>4
<1>18. ASSUME NEW x \in Socket, NEW f \in Frame, HandleAck(x, f) \/ LoseAck(x, f) PROVE Reached(s, m)'
    BY <1>4, <1>18 DEF HandleAck, LoseAck
<1>19. ASSUME NEW o \in User, NEW r \in User, StartOffer(o, r) PROVE Reached(s, m)'
    BY <1>4, <1>19 DEF StartOffer
<1>20. ASSUME NEW p \in Pair, UpsertOffer(p) \/ ReapOffer(p) PROVE Reached(s, m)'
    BY <1>4, <1>20 DEF UpsertOffer, ReapOffer
<1>21. ASSUME NEW u \in User, Join(u) \/ Accept(u) \/ Leave(u) \/ LeaveQueue(u) \/ LeaveOffers(u)
       PROVE  Reached(s, m)'
    BY <1>4, <1>21 DEF Join, Accept, Leave, LeaveQueue, LeaveOffers
<1>22. ASSUME NEW u \in User, LeaveChannel(u) PROVE Reached(s, m)'
    <2>1. u # Owner[s]
        BY <1>1, <1>22 DEF LeaveChannel, KeyedStay
    <2>2. UNCHANGED <<sock, wire, recv, flush, send>> /\ queue' \subseteq queue
        BY <1>22 DEF LeaveChannel
    <2>3. stored'[Owner[s]] = stored[Owner[s]]
        BY <1>0, <1>22, <2>1 DEF LeaveChannel
    <2>4. Carried(s, MessageFrame(m)) => Carried(s, MessageFrame(m))'
        BY <2>2 DEF Carried, MessageFrame
    <2>5. QED
        BY <1>1, <1>3, <2>2, <2>3, <2>4
<1>23. ASSUME NEW u \in User, NEW p \in User, DmOpen(u, p) \/ Block(u, p) \/ Unblock(u, p)
       PROVE  Reached(s, m)'
    BY <1>4, <1>23 DEF DmOpen, Block, Unblock
<1>24. ASSUME NEW n \in 1..Cardinality(Msg), ReapQueue(n) PROVE Reached(s, m)'
    BY <1>4, <1>24 DEF ReapQueue
<1>25. ASSUME UNCHANGED vars PROVE Reached(s, m)'
    BY <1>4, <1>25 DEF vars
<1>26. ~\E t \in Task : FlushFail(t)
    BY DEF FlushFail
<1> HIDE DEF Reached
<1>27. QED
    BY <1>5, <1>6, <1>7, <1>8, <1>9, <1>10, <1>11, <1>12, <1>13, <1>14, <1>15, <1>16, <1>17,
       <1>18, <1>19, <1>20, <1>21, <1>22, <1>23, <1>24, <1>25, <1>26
    DEF Next
\* A member who has the key from the start, and whose socket is open when everything has
\* settled, lacks no message that waits for it.  Statements must not fail (a flush whose
\* query fails is over) and the flush must have room (what its LIMIT cuts off waits for
\* the next one); the members stay, and what was queued before the start was queued for
\* members without a socket.
THEOREM NoGapForMessages ==
    ASSUME "db" \notin Faults, Cardinality(Msg) <= FlushLimit, InitKeyed \cap Leavers = {},
           \A s \in InitOpen, m \in Msg : <<m, Owner[s]>> \notin InitQueue
    PROVE  Spec => []NoneStranded
<1>1. Init => KeyedStay
    <2> SUFFICES ASSUME Init, NEW u \in InitKeyed
                 PROVE  /\ status[u] = "active" /\ hasKey[u] /\ leaving[u] = "idle"
                        /\ \A m \in Msg : send[m].left[u] # "pending"
        BY DEF KeyedStay
    <2>1. u \in User /\ u \in InitActive
        BY ConstantsAssumption
    <2>2. \A m \in Msg : send[m].left[u] = "none"
        BY <2>1 DEF Init, Unsent
    <2>3. QED
        BY <2>1, <2>2 DEF Init
<1>2. Init => Connected
    BY DEF Init, Connected, Task, Idle, Begin
<1>3. Init => Reaching
    BY DEF Init, Reaching, Lacking
<1>4. TypeOK /\ Connected /\ Reaching => NoneStranded
    <2> SUFFICES ASSUME TypeOK, Connected, Reaching, NEW u \in InitKeyed, Quiet(u), CanTalk(u),
                        NEW m \in Msg, <<m, u>> \in queue, m \notin stored[u]
                 PROVE  FALSE
        BY DEF NoneStranded
    <2>1. PICK s \in Socket : Owner[s] = u /\ sock[s] = "open"
        BY DEF CanTalk
    <2>2. wire[s] = << >> /\ recv[s] = {} /\ send[m].pc # "push"
        BY <2>1 DEF Quiet
    <2>3. ~Carried(s, MessageFrame(m))
        BY <2>2 DEF Carried
    <2>4. ~ToFlush(s, "queue", MessageFrame(m))
        BY <2>1 DEF Connected, ToFlush
    <2>5. QED
        BY <2>1, <2>2, <2>3, <2>4 DEF Reaching, Lacking
<1>5. QED
    BY <1>1, <1>2, <1>3, <1>4, TypeCorrect, KeyedStayStep, ConnectedStep, ReachingStep, PTL DEF Spec

---------------------------------------------------------------------------
(* The same of wrapped keys, in a group.  In a direct message it is false: *)
(* an accept between the handler's read of the status and its insert finds *)
(* no offer to release, and the handler then sends none.                   *)

\* In a group that nobody leaves, who is offered a key is an active member and stays one,
\* and the handler of the offer knows it.
OfferedActive ==
    /\ \A u \in User : status[u] # "pending" /\ leaving[u] = "idle"
    /\ \A p \in offers : status[p[2]] = "active"
    /\ \A p \in Pair : offering[p].pc # "idle" => status[p[2]] = "active" /\ offering[p].active

LEMMA OfferedActiveStep ==
    ASSUME ~Dm, Leavers = {}
    PROVE  TypeOK /\ OfferedActive /\ [Next]_vars => OfferedActive'
<1> SUFFICES ASSUME TypeOK, OfferedActive, [Next]_vars PROVE OfferedActive'
    OBVIOUS
<1> USE DEF OfferedActive, dbVars, taskVars, connVars, clientVars, ghostVars
<1>0. /\ status \in [User -> Status] /\ offers \subseteq Pair /\ offering \in [Pair -> OfferingType]
      /\ \A p \in Pair : p[1] \in User /\ p[2] \in User
    BY DEF TypeOK, Pair
<1>1. ASSUME UNCHANGED <<status, leaving, offering>>, offers' \subseteq offers PROVE OfferedActive'
    BY <1>1
<1>2. ASSUME NEW s \in Socket, NEW dies \in BOOLEAN,
             Connect(s) \/ ResumeVisit(s) \/ Close(s, dies) \/ Arrive(s)
      PROVE  OfferedActive'
    BY <1>1, <1>2, SMTT(30) DEF Connect, ResumeVisit, Close, Arrive
<1>3. ASSUME NEW t \in Task, FlushQuery(t) \/ FlushSend(t) \/ FlushFail(t) PROVE OfferedActive'
    BY <1>1, <1>3, Zenon DEF FlushQuery, FlushSend, FlushFail
<1>4. ASSUME ServerCrash PROVE OfferedActive'
    BY <1>4 DEF ServerCrash, NoOffer
<1>5. ASSUME NEW m \in Msg, StartSend(m) \/ Snapshot(m) \/ InsertRow(m) \/ Push(m) \/ SendFail(m)
      PROVE  OfferedActive'
    BY <1>1, <1>5 DEF StartSend, Snapshot, InsertRow, Push, SendFail
<1>6. ASSUME NEW m \in Msg, NEW r \in User, CountBacklog(m, r) PROVE OfferedActive'
    BY <1>1, <1>6 DEF CountBacklog
<1>7. ASSUME NEW o \in User, NEW r \in User, StartOffer(o, r) PROVE OfferedActive'
    <2>1. status[r] = "active"
        BY <1>0, <1>7 DEF StartOffer, IsMember, Status
    <2>2. /\ UNCHANGED <<status, leaving, offers>>
          /\ offering' = [offering EXCEPT ![<<o, r>>] =
                            [pc |-> "upsert", active |-> status[r] = "active"]]
        BY <1>7 DEF StartOffer
    <2>3. \A p \in Pair : p # <<o, r>> => offering'[p] = offering[p]
        BY <1>0, <2>2
    <2>4. <<o, r>> \in Pair /\ offering'[<<o, r>>].active
        BY <1>0, <2>1, <2>2 DEF Pair
    <2>5. QED
        BY <2>1, <2>2, <2>3, <2>4
<1>8. ASSUME NEW p \in Pair, UpsertOffer(p) PROVE OfferedActive'
    <2>1. status[p[2]] = "active" /\ offering[p].active /\ UNCHANGED <<status, leaving>>
        BY <1>8 DEF UpsertOffer
    <2>2. offers' \subseteq offers \cup {p} /\ \A q \in Pair : q # p => offering'[q] = offering[q]
        BY <1>0, <1>8 DEF UpsertOffer
    <2>3. offering'[p].pc # "idle" => offering'[p].active
        BY <1>0, <1>8, <2>1 DEF UpsertOffer, OfferingType, NoOffer
    <2>4. QED
        BY <2>1, <2>2, <2>3
<1>9. ASSUME NEW p \in Pair, PushOffer(p) PROVE OfferedActive'
    <2>1. UNCHANGED <<status, leaving, offers>> /\ offering'[p].pc = "idle"
        BY <1>0, <1>9 DEF PushOffer, NoOffer
    <2>2. \A q \in Pair : q # p => offering'[q] = offering[q]
        BY <1>0, <1>9 DEF PushOffer
    <2>3. QED
        BY <2>1, <2>2
<1>10. ASSUME NEW s \in Socket, NEW f \in Frame, Handled(s, f) \/ HandleAck(s, f) \/ LoseAck(s, f)
       PROVE  OfferedActive'
    BY <1>1, <1>10 DEF Handled, HandleAck, LoseAck
<1>11. ASSUME NEW u \in User, Join(u) PROVE OfferedActive'
    <2>1. \A v \in User : status'[v] \in {status[v], "active"}
        BY <1>0, <1>11 DEF Join
    <2>2. UNCHANGED <<leaving, offers, offering>>
        BY <1>11 DEF Join
    <2>3. QED
        BY <1>0, <2>1, <2>2
<1>12. ASSUME NEW u \in User, LeaveQueue(u) \/ LeaveOffers(u) \/ LeaveChannel(u) PROVE OfferedActive'
    BY <1>12 DEF LeaveQueue, LeaveOffers, LeaveChannel
<1>13. ASSUME NEW b \in User, NEW c \in User, Block(b, c) \/ Unblock(b, c) PROVE OfferedActive'
    BY <1>1, <1>13 DEF Block, Unblock
<1>14. ASSUME NEW n \in 1..Cardinality(Msg), ReapQueue(n) PROVE OfferedActive'
    BY <1>1, <1>14 DEF ReapQueue
<1>15. ASSUME NEW p \in Pair, ReapOffer(p) PROVE OfferedActive'
    BY <1>1, <1>15 DEF ReapOffer
<1>16. ASSUME UNCHANGED vars PROVE OfferedActive'
    BY <1>1, <1>16 DEF vars
<1>17. \A u, p \in User : ~Accept(u) /\ ~DmOpen(u, p) /\ ~Leave(u)
    BY DEF Accept, DmOpen, Leave
<1>18. QED
    BY <1>2, <1>3, <1>4, <1>5, <1>6, <1>7, <1>8, <1>9, <1>10, <1>11, <1>12, <1>13, <1>14,
       <1>15, <1>16, <1>17
    DEF Next

\* A member with a socket that is not closed has no key, and one of o's is parked for it.
Keyless(s, o) ==
    sock[s] # "closed" /\ <<o, Owner[s]>> \in offers /\ ~hasKey[Owner[s]]

\* Then the key is about to be pushed, is on its way, or will be flushed.
KeyReaching ==
    \A s \in Socket, o \in User : Keyless(s, o) =>
        \/ offering[<<o, Owner[s]>>].pc = "push"
        \/ Carried(s, OfferFrame(o))
        \/ flush[<<"connect", s>>].stage = "queue"
        \/ ToFlush(s, "offers", OfferFrame(o))

\* Wherever the parked key is, each step moves it on towards the recipient's vault.
LEMMA KeyReachingStep ==
    ASSUME "db" \notin Faults, ~Dm, Leavers = {}
    PROVE  TypeOK /\ OfferedActive /\ Connected /\ KeyReaching /\ [Next]_vars => KeyReaching'
<1> DEFINE Pushing(s, o) == offering[<<o, Owner[s]>>].pc = "push"
           Queued(s) == flush[<<"connect", s>>].stage = "queue"
           Reached(s, o) == \/ Pushing(s, o) \/ Carried(s, OfferFrame(o))
                            \/ Queued(s) \/ ToFlush(s, "offers", OfferFrame(o))
<1> SUFFICES ASSUME TypeOK, OfferedActive, Connected, KeyReaching, [Next]_vars,
                    NEW s \in Socket, NEW o \in User, Keyless(s, o)'
             PROVE  Reached(s, o)'
    BY DEF KeyReaching
<1> USE DEF dbVars, taskVars, connVars, clientVars, ghostVars
<1>0. /\ offers \subseteq Pair /\ sock \in [Socket -> {"closed", "flushing", "open"}]
      /\ flush \in [Task -> FlushType] /\ offering \in [Pair -> OfferingType]
      /\ wire \in [Socket -> Seq(Frame)] /\ recv \in [Socket -> SUBSET Frame]
      /\ hasKey \in [User -> BOOLEAN] /\ Owner \in [Socket -> User]
      /\ <<"connect", s>> \in Task /\ <<o, Owner[s]>> \in Pair
    BY ConstantsAssumption DEF TypeOK, Task, Pair
<1>1. sock'[s] # "closed" /\ <<o, Owner[s]>> \in offers' /\ ~hasKey'[Owner[s]]
    BY DEF Keyless
<1>2. ASSUME sock[s] # "closed", <<o, Owner[s]>> \in offers, ~hasKey[Owner[s]]
      PROVE  Reached(s, o)
    BY <1>2 DEF Keyless, KeyReaching
<1>3. ASSUME sock[s] # "closed", offers' \subseteq offers, hasKey[Owner[s]] => hasKey'[Owner[s]],
             Pushing(s, o) => Pushing(s, o)',
             Carried(s, OfferFrame(o)) => Carried(s, OfferFrame(o))',
             flush'[<<"connect", s>>] = flush[<<"connect", s>>]
      PROVE  Reached(s, o)'
    <2>1. Reached(s, o)
        BY <1>1, <1>2, <1>3
    <2>2. CASE ToFlush(s, "offers", OfferFrame(o))
        BY <1>3, <2>2 DEF ToFlush, OfferFrame
    <2>3. CASE Queued(s)
        BY <1>3, <2>3
    <2>4. QED
        BY <1>3, <2>1, <2>2, <2>3
<1>4. ASSUME UNCHANGED <<sock, hasKey, wire, recv, flush, offering>>, offers' \subseteq offers
      PROVE  Reached(s, o)'
    <2>1. Carried(s, OfferFrame(o)) => Carried(s, OfferFrame(o))'
        BY <1>4 DEF Carried, OfferFrame
    <2>2. QED
        BY <1>1, <1>3, <1>4, <2>1
<1>5. ASSUME NEW x \in Socket, Connect(x) PROVE Reached(s, o)'
    <2>1. UNCHANGED <<offers, hasKey, wire, recv, offering>>
        BY <1>5 DEF Connect
    <2>2. CASE x = s
        BY <1>0, <1>5, <2>2 DEF Connect, Begin
    <2>3. CASE x # s
        <3>1. sock'[s] = sock[s] /\ flush'[<<"connect", s>>] = flush[<<"connect", s>>]
            BY <1>0, <1>5, <2>3 DEF Connect
        <3>2. Carried(s, OfferFrame(o)) => Carried(s, OfferFrame(o))'
            BY <2>1 DEF Carried, OfferFrame
        <3>3. QED
            BY <1>1, <1>3, <2>1, <3>1, <3>2
    <2>4. QED
        BY <2>2, <2>3
<1>6. ASSUME NEW t \in Task, FlushQuery(t) PROVE Reached(s, o)'
    <2>1. UNCHANGED <<offers, hasKey, sock, wire, recv, offering>>
        BY <1>6 DEF FlushQuery
    <2>2. Carried(s, OfferFrame(o)) => Carried(s, OfferFrame(o))'
        BY <2>1 DEF Carried, OfferFrame
    <2>3. Reached(s, o)
        BY <1>1, <1>2, <2>1
    <2>4. CASE t = <<"connect", s>>
        <3>1. PICK b : /\ flush' = [flush EXCEPT ![t] = [@ EXCEPT !.got = TRUE, !.batch = b]]
                       /\ flush[t].stage # "queue" => b \in OfferBatches(Owner[s])
            BY <1>6, <2>4 DEF FlushQuery
        <3>2. flush'[t].stage = flush[t].stage /\ flush'[t].batch = b
            BY <1>0, <2>4, <3>1 DEF FlushType
        <3>3. status[Owner[s]] = "active"
            BY <1>1, <2>1 DEF OfferedActive
        <3>4. flush[t].stage # "queue" => \E i \in DOMAIN b : b[i] = OfferFrame(o)
            BY <1>0, <1>1, <2>1, <3>1, <3>3, BatchesAreWhole
        <3>5. CASE flush[t].stage = "queue"
            BY <2>4, <3>2, <3>5
        <3>6. CASE flush[t].stage = "offers"
            BY <2>4, <3>2, <3>4, <3>6 DEF ToFlush, OfferFrame
        <3>7. CASE flush[t].stage \notin {"queue", "offers"}
            BY <2>1, <2>2, <2>3, <2>4, <3>7 DEF ToFlush
        <3>8. QED
            BY <3>5, <3>6, <3>7
    <2>5. CASE t # <<"connect", s>>
        <3>1. flush'[<<"connect", s>>] = flush[<<"connect", s>>]
            BY <1>0, <1>6, <2>5 DEF FlushQuery
        <3>2. QED
            BY <1>1, <1>3, <2>1, <2>2, <3>1
    <2>6. QED
        BY <2>4, <2>5
<1>7. ASSUME NEW t \in Task, FlushSend(t) PROVE Reached(s, o)'
    <2>1. UNCHANGED <<offers, hasKey, offering>> /\ flush[t].got /\ flush' = [flush EXCEPT ![t] = NextStage(t)]
        BY <1>7 DEF FlushSend
    <2>2. PICK g : g = OfferFrame(o)
        OBVIOUS
    <2>3. Carried(s, g) => Carried(s, g)'
        BY <1>7, FlushCarries
    <2>4. Carried(s, OfferFrame(o)) => Carried(s, OfferFrame(o))'
        BY <2>2, <2>3
    <2>5. CASE t = <<"connect", s>>
        <3>1. sock[s] = "flushing"
            BY <2>1, <2>5 DEF Connected
        <3>2. Reached(s, o)
            BY <1>1, <1>2, <2>1, <3>1
        <3>3. ASSUME ToFlush(s, "offers", OfferFrame(o)) PROVE Carried(s, OfferFrame(o))'
            <4>1. \E i \in DOMAIN flush[t].batch : flush[t].batch[i] = g
                BY <2>1, <2>2, <2>5, <3>3 DEF ToFlush
            <4>2. Carried(s, g)'
                BY <1>7, <2>5, <4>1, FlushCarries
            <4>3. QED
                BY <2>2, <4>2
        <3>4. ASSUME Queued(s) PROVE ToFlush(s, "offers", OfferFrame(o))'
            BY <1>0, <2>1, <2>5, <3>4 DEF ToFlush, NextStage, Begin
        <3>5. QED
            BY <2>1, <2>4, <3>2, <3>3, <3>4
    <2>6. CASE t # <<"connect", s>>
        <3>1. flush'[<<"connect", s>>] = flush[<<"connect", s>>]
            BY <1>0, <2>1, <2>6
        <3>2. sock[s] # "closed"
            <4>1. sock' = sock \/ (t[1] = "connect" /\ sock' = [sock EXCEPT ![t[2]] = "open"])
                BY <1>7 DEF FlushSend, Attach
            <4>2. t[1] = "connect" => t[2] # s
                BY <2>6 DEF Task
            <4>3. QED
                BY <1>0, <1>1, <4>1, <4>2
        <3>3. QED
            BY <1>1, <1>3, <2>1, <2>4, <3>1, <3>2
    <2>7. QED
        BY <2>5, <2>6
<1>8. ASSUME NEW x \in Socket, ResumeVisit(x) PROVE Reached(s, o)'
    <2>1. UNCHANGED <<offers, hasKey, offering, sock, wire, recv>>
        BY <1>8 DEF ResumeVisit
    <2>2. Carried(s, OfferFrame(o)) => Carried(s, OfferFrame(o))'
        BY <2>1 DEF Carried, OfferFrame
    <2>3. flush'[<<"connect", s>>] = flush[<<"connect", s>>]
        BY <1>0, <1>8 DEF ResumeVisit
    <2>4. QED
        BY <1>1, <1>3, <2>1, <2>2, <2>3
<1>9. ASSUME NEW x \in Socket, NEW dies \in BOOLEAN, Close(x, dies) PROVE Reached(s, o)'
    <2>1. UNCHANGED <<offers, offering>> /\ x # s
        BY <1>0, <1>1, <1>9 DEF Close
    <2>2. /\ sock'[s] = sock[s] /\ wire'[s] = wire[s] /\ recv'[s] = recv[s]
          /\ flush'[<<"connect", s>>] = flush[<<"connect", s>>]
        BY <1>0, <1>9, <2>1 DEF Close
    <2>3. hasKey[Owner[s]] => hasKey'[Owner[s]]
        BY <1>0, <1>9 DEF Close, Committed
    <2>4. Carried(s, OfferFrame(o)) => Carried(s, OfferFrame(o))'
        BY <2>2 DEF Carried, OfferFrame
    <2>5. QED
        BY <1>1, <1>3, <2>1, <2>2, <2>3, <2>4
<1>10. ASSUME ServerCrash PROVE Reached(s, o)'
    BY <1>1, <1>10 DEF ServerCrash
<1>11. ASSUME NEW x \in Msg, StartSend(x) \/ Snapshot(x) \/ InsertRow(x) \/ SendFail(x)
       PROVE  Reached(s, o)'
    BY <1>4, <1>11 DEF StartSend, Snapshot, InsertRow, SendFail
<1>12. ASSUME NEW x \in Msg, NEW r \in User, CountBacklog(x, r) PROVE Reached(s, o)'
    BY <1>4, <1>12 DEF CountBacklog
<1>13. ASSUME NEW x \in Msg, Push(x) PROVE Reached(s, o)'
    <2>1. UNCHANGED <<offers, hasKey, offering, sock, flush, recv>>
        BY <1>13 DEF Push
    <2>2. send[x].cur \in User /\ MessageFrame(x) \in Frame
        <3>1. send[x] \in SendType
            BY DEF TypeOK
        <3>2. QED
            BY <1>13, <3>1, HandlerTypes, FrameTypes DEF Push
    <2>3. Carried(s, OfferFrame(o)) => Carried(s, OfferFrame(o))'
        <3>1. PICK g : g = OfferFrame(o)
            OBVIOUS
        <3>2. ASSUME SendTo(send[x].cur, MessageFrame(x)) PROVE Carried(s, g) => Carried(s, g)'
            BY <2>1, <2>2, <3>2, SendToCarries
        <3>3. ASSUME wire' = wire PROVE Carried(s, g) => Carried(s, g)'
            BY <2>1, <3>3 DEF Carried
        <3>4. QED
            BY <1>13, <3>1, <3>2, <3>3 DEF Push
    <2>4. QED
        BY <1>1, <1>3, <2>1, <2>3
<1>14. ASSUME NEW x \in User, NEW r \in User, StartOffer(x, r) PROVE Reached(s, o)'
    <2>1. UNCHANGED <<offers, hasKey, wire, sock, flush, recv>>
        BY <1>14 DEF StartOffer
    <2>2. Pushing(s, o) => Pushing(s, o)'
        <3> DEFINE p == <<x, r>>
        <3>1. p \in Pair /\ offering[p] = NoOffer
            BY <1>14 DEF StartOffer, Pair
        <3>2. offering[p].pc = "idle"
            BY <3>1 DEF NoOffer
        <3>3. PICK h : offering' = [offering EXCEPT ![p] = h]
            BY <1>14 DEF StartOffer
        <3> HIDE DEF p
        <3>4. p # <<o, Owner[s]>> => offering'[<<o, Owner[s]>>] = offering[<<o, Owner[s]>>]
            BY <1>0, <3>1, <3>3
        <3>5. QED
            BY <3>2, <3>4
    <2>3. Carried(s, OfferFrame(o)) => Carried(s, OfferFrame(o))'
        BY <2>1 DEF Carried, OfferFrame
    <2>4. QED
        BY <1>1, <1>3, <2>1, <2>2, <2>3
<1>15. ASSUME NEW p \in Pair, UpsertOffer(p) PROVE Reached(s, o)'
    <2>1. UNCHANGED <<hasKey, wire, sock, flush, recv>>
        BY <1>15 DEF UpsertOffer
    <2>2. Carried(s, OfferFrame(o)) => Carried(s, OfferFrame(o))'
        BY <2>1 DEF Carried, OfferFrame
    <2>3. Pushing(s, o) => Pushing(s, o)'
        BY <1>0, <1>15 DEF UpsertOffer
    <2>4. CASE offers' \subseteq offers
        BY <1>1, <1>3, <2>1, <2>2, <2>3, <2>4
    <2>5. CASE offers' = offers \cup {p} /\ offering' = [offering EXCEPT ![p] = [@ EXCEPT !.pc = "push"]]
        <3>1. CASE p = <<o, Owner[s]>>
            BY <1>0, <2>5, <3>1 DEF OfferingType
        <3>2. CASE p # <<o, Owner[s]>>
            <4>1. Reached(s, o)
                BY <1>1, <1>2, <2>1, <2>5, <3>2
            <4>2. ToFlush(s, "offers", OfferFrame(o)) => ToFlush(s, "offers", OfferFrame(o))'
                BY <2>1 DEF ToFlush, OfferFrame
            <4>3. QED
                BY <2>1, <2>2, <2>3, <4>1, <4>2
        <3>3. QED
            BY <3>1, <3>2
    <2>6. QED
        BY <1>15, <2>4, <2>5 DEF UpsertOffer
<1>16. ASSUME NEW p \in Pair, PushOffer(p) PROVE Reached(s, o)'
    <2>1. UNCHANGED <<offers, hasKey, sock, registry, flush, recv>>
        BY <1>16 DEF PushOffer
    <2>2. PICK g \in Frame, f \in Frame, u \in User :
             g = OfferFrame(o) /\ f = OfferFrame(p[1]) /\ u = p[2]
        BY FrameTypes DEF Pair
    <2>3. wire' = wire \/ SendTo(u, f)
        BY <1>16, <2>2 DEF PushOffer
    <2>4. ASSUME SendTo(u, f) PROVE Carried(s, g) => Carried(s, g)'
        BY <2>1, <2>4, SendToCarries
    <2>5. ASSUME wire' = wire PROVE Carried(s, g) => Carried(s, g)'
        BY <2>1, <2>5 DEF Carried
    <2>6. Carried(s, OfferFrame(o)) => Carried(s, OfferFrame(o))'
        BY <2>2, <2>3, <2>4, <2>5
    <2>7. Reached(s, o) /\ sock[s] # "closed"
        BY <1>1, <1>2, <2>1
    <2>8. CASE p = <<o, Owner[s]>>
        <3>1. offering[p].active /\ s \in registry /\ u = Owner[s] /\ f = g
            BY <1>16, <2>2, <2>7, <2>8 DEF PushOffer, OfferedActive, Connected
        <3>2. SendTo(u, f)
            BY <1>16, <2>2, <3>1 DEF PushOffer
        <3>3. Carried(s, f)'
            BY <2>1, <2>7, <3>1, <3>2, SendToCarries
        <3>4. QED
            BY <2>2, <3>1, <3>3
    <2>9. CASE p # <<o, Owner[s]>>
        <3>1. Pushing(s, o) => Pushing(s, o)'
            BY <1>0, <1>16, <2>9 DEF PushOffer
        <3>2. QED
            BY <1>1, <1>3, <2>1, <2>6, <2>7, <3>1
    <2>10. QED
        BY <2>8, <2>9
<1>17. ASSUME NEW a \in Socket, Arrive(a) PROVE Reached(s, o)'
    <2>1. UNCHANGED <<offers, hasKey, offering, sock, flush>>
        BY <1>17 DEF Arrive
    <2>2. PICK g \in Frame : g = OfferFrame(o)
        BY FrameTypes
    <2>3. g.type # "message" /\ hasKey[Owner[s]] = FALSE
        BY <1>0, <1>1, <2>1, <2>2 DEF OfferFrame
    <2>4. Carried(s, g) => Carried(s, g)'
        BY <1>17, <2>3, ArriveCarries
    <2>5. QED
        BY <1>1, <1>3, <2>1, <2>2, <2>4
<1>18. ASSUME NEW x \in Socket, NEW f \in Frame, Handled(x, f) PROVE Reached(s, o)'
    <2>1. UNCHANGED <<offers, offering, wire, sock, flush>>
        BY <1>18 DEF Handled
    <2>2. hasKey[Owner[s]] => hasKey'[Owner[s]]
        BY <1>0, <1>18 DEF Handled, Committed
    <2>3. x = s => f # OfferFrame(o)
        BY <1>0, <1>1, <1>18 DEF Handled, Committed
    <2>4. Carried(s, OfferFrame(o)) => Carried(s, OfferFrame(o))'
        BY <1>0, <1>18, <2>1, <2>3 DEF Handled, Carried, OfferFrame
    <2>5. QED
        BY <1>1, <1>3, <2>1, <2>2, <2>4
<1>19. ASSUME NEW x \in Socket, NEW f \in Frame, HandleAck(x, f) \/ LoseAck(x, f) PROVE Reached(s, o)'
    BY <1>4, <1>19 DEF HandleAck, LoseAck
<1>20. ASSUME NEW u \in User, Join(u) \/ LeaveQueue(u) \/ LeaveOffers(u) PROVE Reached(s, o)'
    BY <1>4, <1>20 DEF Join, LeaveQueue, LeaveOffers
<1>21. ASSUME NEW b \in User, NEW c \in User, Block(b, c) \/ Unblock(b, c) PROVE Reached(s, o)'
    BY <1>4, <1>21 DEF Block, Unblock
<1>22. ASSUME NEW n \in 1..Cardinality(Msg), ReapQueue(n) PROVE Reached(s, o)'
    BY <1>4, <1>22 DEF ReapQueue
<1>23. ASSUME NEW p \in Pair, ReapOffer(p) PROVE Reached(s, o)'
    BY <1>4, <1>23 DEF ReapOffer
<1>24. ASSUME UNCHANGED vars PROVE Reached(s, o)'
    BY <1>4, <1>24 DEF vars
<1>25. /\ \A u, p \in User : ~Accept(u) /\ ~DmOpen(u, p) /\ ~Leave(u) /\ ~LeaveChannel(u)
       /\ \A t \in Task : ~FlushFail(t)
    BY DEF Accept, DmOpen, Leave, LeaveChannel, FlushFail, OfferedActive
<1> HIDE DEF Reached
<1>26. QED
    BY <1>5, <1>6, <1>7, <1>8, <1>9, <1>10, <1>11, <1>12, <1>13, <1>14, <1>15, <1>16, <1>17,
       <1>18, <1>19, <1>20, <1>21, <1>22, <1>23, <1>24, <1>25
    DEF Next

\* In a group that nobody leaves, a member who waits for a key and whose socket is open
\* when everything has settled has no key parked, if no statement fails.
THEOREM NoGapForKeys ==
    ASSUME "db" \notin Faults, ~Dm, InitPending = {}, Leavers = {}
    PROVE  Spec => []NoKeyStranded
<1>1. Init => OfferedActive
    BY ConstantsAssumption DEF Init, OfferedActive, NoOffer
<1>2. Init => Connected
    BY DEF Init, Connected, Task, Idle, Begin
<1>3. Init => KeyReaching
    BY DEF Init, KeyReaching, Keyless
<1>4. TypeOK /\ Connected /\ KeyReaching => NoKeyStranded
    <2> SUFFICES ASSUME TypeOK, Connected, KeyReaching, NEW u \in User, Quiet(u), CanTalk(u),
                        ~hasKey[u], NEW o \in User, <<o, u>> \in offers
                 PROVE  FALSE
        BY DEF NoKeyStranded
    <2>1. PICK s \in Socket : Owner[s] = u /\ sock[s] = "open"
        BY DEF CanTalk
    <2>2. wire[s] = << >> /\ recv[s] = {} /\ offering[<<o, u>>] = NoOffer
        BY <2>1 DEF Quiet, Pair
    <2>3. ~Carried(s, OfferFrame(o)) /\ offering[<<o, u>>].pc # "push"
        BY <2>2 DEF Carried, NoOffer
    <2>4. flush[<<"connect", s>>].stage = "idle"
        BY <2>1 DEF Connected
    <2>5. ~ToFlush(s, "offers", OfferFrame(o)) /\ flush[<<"connect", s>>].stage # "queue"
        BY <2>4 DEF ToFlush
    <2>6. QED
        BY <2>1, <2>3, <2>5 DEF KeyReaching, Keyless
<1>5. QED
    BY <1>1, <1>2, <1>3, <1>4, TypeCorrect, OfferedActiveStep, ConnectedStep, KeyReachingStep,
       PTL DEF Spec
=============================================================================
