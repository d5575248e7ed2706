-------------------------- MODULE TranscriptProofs --------------------------
(* Theorems about Transcript, for every feed, every buffer size and every    *)
(* fault; those about the transcript itself for an account with one tab.     *)
EXTENDS Transcript, TLAPS, FiniteSetTheorems, SequenceTheorems

---------------------------------------------------------------------------
(* Type correctness                                                        *)

\* Frames are positive numbers that say something of a message.
LEMMA FrameFacts ==
    /\ Frame = 1 .. Len(Feed) /\ Len(Feed) \in Nat
    /\ \A i \in Frame : /\ i \in Nat \ {0} /\ Feed[i].of \in Msg
                        /\ Feed[i].kind \in {"message", "edit", "delete"}
<1> DEFINE Said == [kind : {"message"} \cup Mutations, of : Msg, by : {From[m] : m \in Msg}]
<1>1. Feed \in Seq(Said)
    BY ConstantsAssumption
<1>2. DOMAIN Feed = 1 .. Len(Feed) /\ Len(Feed) \in Nat
    BY <1>1, LenProperties
<1>3. \A i \in 1 .. Len(Feed) : Feed[i] \in Said
    BY <1>1, ElementOfSeq
<1>4. QED
    BY <1>2, <1>3 DEF Frame, Mutations

\* What is picked from a sequence is a sequence of its elements.
LEMMA PicksTypes ==
    ASSUME NEW S, NEW s \in Seq(S), NEW I \in SUBSET DOMAIN s, NEW q \in Picks(s, I)
    PROVE  q \in Seq(S)
<1>1. DOMAIN s = 1 .. Len(s) /\ Len(s) \in Nat /\ \A k \in DOMAIN s : s[k] \in S
    BY LenProperties, ElementOfSeq
<1>2. IsFiniteSet(1 .. Len(s))
    BY <1>1, FS_Interval
<1>3. IsFiniteSet(I)
    BY <1>1, <1>2, FS_Subset
<1>4. Cardinality(I) \in Nat
    BY <1>3, FS_CardinalityType
<1>5. PICK n \in Nat : n = Cardinality(I)
    BY <1>4
<1>6. PICK p \in [1 .. n -> I] : q = [k \in 1 .. n |-> s[p[k]]]
    BY <1>5 DEF Picks
<1>7. q \in [1 .. n -> S]
    BY <1>1, <1>6
<1>8. QED
    BY <1>7, SeqDef

\* What a piece of work or a sweep makes of a transcript is a transcript.
LEMMA DiskTypes ==
    ASSUME NEW d \in [Msg -> Message]
    PROVE  /\ \A i \in Frame : Applied(d, i) \in [Msg -> Message]
           /\ \A gone : Swept(d, gone) \in [Msg -> Message]
<1>1. ASSUME NEW i \in Frame PROVE Changed(d, i) \in Message
    <2>1. d[Feed[i].of] \in Message /\ i \in Nat
        BY FrameFacts
    <2>2. CASE Feed[i].kind = "message"
        BY <2>1, <2>2 DEF Changed, Fresh, Absent, Message
    <2>3. CASE Feed[i].kind = "edit"
        BY <2>1, <2>3 DEF Changed, Message
    <2>4. CASE Feed[i].kind = "delete"
        BY <2>4 DEF Changed, Tombstone, Absent, Message
    <2>5. QED
        BY <2>2, <2>3, <2>4, FrameFacts
<1>2. ASSUME NEW i \in Frame PROVE Applied(d, i) \in [Msg -> Message]
    BY <1>1 DEF Applied
<1>3. ASSUME NEW gone PROVE Swept(d, gone) \in [Msg -> Message]
    <2>1. Absent \in Message
        BY DEF Absent, Message
    <2>2. ASSUME NEW m \in Msg PROVE [d[m] EXCEPT !.seen = TRUE] \in Message
        BY DEF Message
    <2>3. QED
        BY <2>1, <2>2 DEF Swept
<1>4. QED
    BY <1>2, <1>3

\* Pieces of work are pieces of work from the first to the last.
LEMMA WorkTypes ==
    /\ Tick \in WorkType
    /\ \A i \in Frame : Work(i) \in WorkType
    /\ \A w \in WorkType \ {Tick} :
        /\ w.do \in Frame /\ w.for \in Frame /\ w.left \in Seq(Frame) /\ w.on \in BOOLEAN
        /\ \A l \in Seq(Frame) : l # <<>> =>
            [w EXCEPT !.do = Head(l), !.left = Tail(l)] \in WorkType
    /\ \A w \in WorkType : [w EXCEPT !.on = FALSE] \in WorkType
<1>1. Tick \in WorkType
    BY DEF WorkType
<1>2. ASSUME NEW i \in Frame PROVE Work(i) \in WorkType
    BY EmptySeq DEF Work, WorkType
<1>3. ASSUME NEW w \in WorkType \ {Tick}
      PROVE  w \in [do : Frame, left : Seq(Frame), for : Frame, on : BOOLEAN]
    BY DEF WorkType
<1>4. ASSUME NEW w \in WorkType \ {Tick}, NEW l \in Seq(Frame), l # <<>>
      PROVE  [w EXCEPT !.do = Head(l), !.left = Tail(l)] \in WorkType
    <2>1. Head(l) \in Frame /\ Tail(l) \in Seq(Frame)
        BY <1>4, HeadTailProperties
    <2>2. QED
        BY <1>3, <2>1 DEF WorkType
<1>5. [Tick EXCEPT !.on = FALSE] = Tick
    BY DEF Tick, Work
<1>6. ASSUME NEW w \in WorkType PROVE [w EXCEPT !.on = FALSE] \in WorkType
    <2>1. CASE w = Tick
        BY <2>1, <1>5 DEF WorkType
    <2>2. CASE w # Tick
        BY <2>2, <1>3 DEF WorkType
    <2>3. QED
        BY <2>1, <2>2
<1>7. QED
    BY <1>1, <1>2, <1>3, <1>4, <1>6

\* The work that is queued stays a sequence of pieces of work when the first is over.
LEMMA ReleaseTypes ==
    ASSUME TypeOK, NEW t \in Tab, chain[t] # <<>>, NEW more \in Seq(WorkType), Release(t, more)
    PROVE  /\ chain' \in [Tab -> Seq(WorkType)]
           /\ hold' \in [Tab -> {NotLoaded} \cup [Msg -> Message]]
<1>1. Tail(chain[t]) \in Seq(WorkType)
    BY HeadTailProperties DEF TypeOK
<1>2. Tail(chain[t]) \o more \in Seq(WorkType)
    BY <1>1, ConcatProperties
<1>3. QED
    BY <1>2 DEF Release, Unlocked, TypeOK

\* The first state has every variable in its type.
LEMMA TypeInit == Init => TypeOK
BY EmptySeq DEF Init, TypeOK, Absent, Message

\* What a settled or continued handler leaves is in its types.
LEMMA SettleTypes ==
    ASSUME TypeOK, NEW t \in Tab, chain[t] # <<>>, NEW w \in WorkType \ {Tick}, Settle(t, w)
    PROVE  /\ chain' \in [Tab -> Seq(WorkType)]
           /\ hold' \in [Tab -> {NotLoaded} \cup [Msg -> Message]]
           /\ parked' \in [Tab -> Seq(Frame)] /\ spilt' \subseteq Frame /\ queue' \subseteq Frame
<1>1. w.do \in Frame
    BY WorkTypes
<1>2. parked[t] \in Seq(Frame) /\ Len(parked[t]) \in Nat
    BY LenProperties DEF TypeOK
<1>3. Len(parked[t]) >= MaxParked =>
        /\ parked[t] # <<>> /\ Head(parked[t]) \in Frame /\ Tail(parked[t]) \in Seq(Frame)
    <2>1. SUFFICES ASSUME Len(parked[t]) >= MaxParked PROVE parked[t] # <<>>
        BY <1>2, HeadTailProperties
    <2>2. Len(parked[t]) # 0
        BY <1>2, <2>1, ConstantsAssumption
    <2>3. QED
        BY <1>2, <2>2, EmptySeq
<1>4. Pushed(parked[t], w.do) \in Seq(Frame) /\ Shifted(parked[t]) \subseteq Frame
    BY <1>1, <1>2, <1>3, AppendProperties DEF Pushed, Shifted
<1>5. parked' \in [Tab -> Seq(Frame)] /\ spilt' \subseteq Frame
    BY <1>4 DEF Settle, TypeOK
<1>6. queue' \subseteq Frame
    BY DEF Settle, Acknowledge, TypeOK
<1>7. QED
    BY <1>5, <1>6, ReleaseTypes, EmptySeq DEF Settle

\* What the handler of a message goes on with is in its types.
LEMMA GoOnTypes ==
    ASSUME TypeOK, NEW t \in Tab, chain[t] # <<>>, NEW w \in WorkType \ {Tick},
           NEW left \in Seq(Frame), GoOn(t, w, left)
    PROVE  /\ chain' \in [Tab -> Seq(WorkType)]
           /\ hold' \in [Tab -> {NotLoaded} \cup [Msg -> Message]]
           /\ spilt' \subseteq Frame /\ queue' \subseteq Frame
<1> DEFINE more == IF left = <<>> THEN <<>>
                   ELSE <<[w EXCEPT !.do = Head(left), !.left = Tail(left)]>>
<1>1. more \in Seq(WorkType)
    <2>1. CASE left = <<>>
        BY <2>1, EmptySeq
    <2>2. CASE left # <<>>
        <3>1. [w EXCEPT !.do = Head(left), !.left = Tail(left)] \in WorkType
            BY <2>2, WorkTypes
        <3>2. QED
            BY <2>2, <3>1
    <2>3. QED
        BY <2>1, <2>2
<1>2. Release(t, more)
    BY DEF GoOn
<1>3. spilt' \subseteq Frame /\ queue' \subseteq Frame
    BY DEF GoOn, Acknowledge, TypeOK
<1>4. QED
    BY <1>1, <1>2, <1>3, ReleaseTypes

\* What is given up is a set of frames.
LEMMA TakenTypes == \A w \in WorkType : Taken(w) \subseteq Frame
<1> SUFFICES ASSUME NEW w \in WorkType PROVE Taken(w) \subseteq Frame
    OBVIOUS
<1>1. CASE w = Tick
    BY <1>1 DEF Taken, Tick, Work
<1>2. CASE w # Tick
    <2>1. w.do \in Frame /\ w.left \in Seq(Frame)
        BY <1>2, WorkTypes
    <2>2. ToSet(w.left) \subseteq Frame
        BY <2>1, ElementOfSeq DEF ToSet
    <2>3. QED
        BY <2>1, <2>2 DEF Taken
<1>3. QED
    BY <1>1, <1>2

\* Every step keeps every variable in its type.
LEMMA TypeNext == TypeOK /\ [Next]_vars => TypeOK'
<1> SUFFICES ASSUME TypeOK, [Next]_vars PROVE TypeOK'
    OBVIOUS
<1> USE DEF TypeOK, vars, relayVars, tabVars
<1>1. CASE Post
    <2>1. ASSUME NEW i \in Frame, NEW t \in Tab PROVE Append(wire[t], i) \in Seq(Frame)
        BY AppendProperties
    <2>2. QED
        BY <1>1, <2>1 DEF Post
<1>2. ASSUME NEW t \in Tab, Connect(t) PROVE TypeOK'
    BY <1>2 DEF Connect
<1>3. ASSUME NEW t \in Tab, FlushRead(t) PROVE TypeOK'
    <2>1. [i \in Frame |-> i] \in Seq(Frame) /\ queue \subseteq DOMAIN [i \in Frame |-> i]
        BY FrameFacts, SeqDef
    <2>2. Picks([i \in Frame |-> i], queue) \subseteq Seq(Frame)
        BY <2>1, PicksTypes
    <2>3. QED
        BY <1>3, <2>2 DEF FlushRead
<1>4. ASSUME NEW t \in Tab, FlushPush(t) PROVE TypeOK'
    <2>1. wire[t] \o batch[t] \in Seq(Frame) /\ <<>> \in Seq(Frame)
        BY ConcatProperties, EmptySeq
    <2>2. QED
        BY <1>4, <2>1 DEF FlushPush
<1>5. ASSUME NEW t \in Tab, Attach(t) PROVE TypeOK'
    BY <1>5 DEF Attach
<1>6. ASSUME NEW t \in Tab, Drop(t) PROVE TypeOK'
    <2>1. chain[t] \in Seq(WorkType) /\ DOMAIN chain[t] = 1 .. Len(chain[t]) /\ Len(chain[t]) \in Nat
          /\ \A k \in DOMAIN chain[t] : chain[t][k] \in WorkType
        BY LenProperties, ElementOfSeq
    <2>2. [k \in DOMAIN chain[t] |-> [chain[t][k] EXCEPT !.on = FALSE]] \in Seq(WorkType)
        <3>1. PICK n \in Nat : n = Len(chain[t])
            BY <2>1
        <3>2. [k \in 1 .. n |-> [chain[t][k] EXCEPT !.on = FALSE]] \in [1 .. n -> WorkType]
            BY <2>1, <3>1, WorkTypes
        <3>3. QED
            BY <2>1, <3>1, <3>2, SeqDef, SMTT(30)
    <2>3. chain' \in [Tab -> Seq(WorkType)]
        BY <1>6, <2>2 DEF Drop
    <2>4. QED
        BY <1>6, <2>3, EmptySeq DEF Drop
<1>7. ASSUME NEW t \in Tab, Arrive(t) PROVE TypeOK'
    <2>1. Head(wire[t]) \in Frame /\ Tail(wire[t]) \in Seq(Frame)
        BY <1>7, HeadTailProperties DEF Arrive
    <2>2. Append(chain[t], Work(Head(wire[t]))) \in Seq(WorkType)
        BY <2>1, WorkTypes, AppendProperties
    <2>3. QED
        BY <1>7, <2>1, <2>2 DEF Arrive
<1>8. ASSUME NEW t \in Tab, NEW i \in Frame, Do(t, i) PROVE TypeOK'
    <2>1. Append(chain[t], Work(i)) \in Seq(WorkType)
        BY WorkTypes, AppendProperties
    <2>2. QED
        BY <1>8, <2>1 DEF Do
<1>9. ASSUME NEW t \in Tab, StartTick(t) PROVE TypeOK'
    <2>1. Append(chain[t], Tick) \in Seq(WorkType)
        BY WorkTypes, AppendProperties
    <2>2. QED
        BY <1>9, <2>1 DEF StartTick
<1>10. ASSUME NEW t \in Tab, Load(t) PROVE TypeOK'
    BY <1>10 DEF Load
<1>11. ASSUME NEW t \in Tab, Save(t) PROVE TypeOK'
    <2>1. PICK w : w = chain[t][1]
        OBVIOUS
    <2>2. w \in WorkType \ {Tick} /\ chain[t] # <<>>
        <3>1. 1 \in DOMAIN chain[t]
            BY <1>11, LenProperties, EmptySeq, SMTT(30) DEF Save
        <3>2. QED
            BY <1>11, <2>1, <3>1, ElementOfSeq DEF Save
    <2>3. w.do \in Frame /\ w.left \in Seq(Frame) /\ hold[t] \in [Msg -> Message]
        BY <1>11, <2>2, WorkTypes DEF Save
    <2>4. disk' \in [Msg -> Message]
        BY <1>11, <2>1, <2>3, DiskTypes DEF Save
    <2>5. /\ chain' \in [Tab -> Seq(WorkType)]
          /\ hold' \in [Tab -> {NotLoaded} \cup [Msg -> Message]]
          /\ parked' \in [Tab -> Seq(Frame)] /\ spilt' \subseteq Frame /\ queue' \subseteq Frame
        <3>1. CASE Release(t, <<>>) /\ UNCHANGED <<queue, parked, spilt>>
            BY <2>2, <3>1, ReleaseTypes, EmptySeq
        <3>2. CASE Settle(t, w)
            BY <2>2, <3>2, SettleTypes
        <3>3. ASSUME NEW m, NEW left \in Picks(parked[t], Ready(t, m)), GoOn(t, w, left),
                     NEW rest \in Picks(parked[t], DOMAIN parked[t] \ Ready(t, m)),
                     parked' = [parked EXCEPT ![t] = rest]
              PROVE  /\ chain' \in [Tab -> Seq(WorkType)]
                     /\ hold' \in [Tab -> {NotLoaded} \cup [Msg -> Message]]
                     /\ parked' \in [Tab -> Seq(Frame)]
                     /\ spilt' \subseteq Frame /\ queue' \subseteq Frame
            <4>1. Ready(t, m) \subseteq DOMAIN parked[t]
                BY DEF Ready
            <4>2. left \in Seq(Frame) /\ rest \in Seq(Frame)
                BY <4>1, PicksTypes
            <4>3. QED
                BY <2>2, <3>3, <4>2, GoOnTypes
        <3>4. CASE GoOn(t, w, w.left) /\ UNCHANGED parked
            BY <2>2, <2>3, <3>4, GoOnTypes
        <3>5. QED
            BY <1>11, <2>1, <3>1, <3>2, <3>3, <3>4 DEF Save
    <2>6. QED
        BY <1>11, <2>4, <2>5 DEF Save
<1>12. ASSUME NEW t \in Tab, SaveTick(t) PROVE TypeOK'
    <2>1. hold[t] \in [Msg -> Message]
        BY <1>12 DEF SaveTick
    <2>2. PICK gone \in SUBSET {m \in Burning(hold[t]) : hold[t][m].seen} :
            /\ disk' = IF Swept(hold[t], gone) = hold[t] THEN disk ELSE Swept(hold[t], gone)
            /\ burned' = burned \cup gone
        BY <1>12 DEF SaveTick
    <2>5. disk' \in [Msg -> Message]
        BY <2>1, <2>2, DiskTypes
    <2>6. burned' \subseteq Msg
        BY <2>2, ConstantsAssumption DEF Burning
    <2>3. /\ chain' \in [Tab -> Seq(WorkType)]
          /\ hold' \in [Tab -> {NotLoaded} \cup [Msg -> Message]]
        BY <1>12, ReleaseTypes, EmptySeq DEF SaveTick
    <2>4. QED
        BY <1>12, <2>3, <2>5, <2>6 DEF SaveTick
<1>13. ASSUME NEW t \in Tab, Fail(t) PROVE TypeOK'
    <2>1. chain[t][1] \in WorkType
        <3>1. 1 \in DOMAIN chain[t]
            BY <1>13, LenProperties, EmptySeq DEF Fail
        <3>2. QED
            BY <3>1, ElementOfSeq
    <2>2. Taken(chain[t][1]) \subseteq Frame
        BY <2>1, TakenTypes
    <2>3. /\ chain' \in [Tab -> Seq(WorkType)]
          /\ hold' \in [Tab -> {NotLoaded} \cup [Msg -> Message]]
        BY <1>13, ReleaseTypes, EmptySeq DEF Fail
    <2>4. QED
        BY <1>13, <2>2, <2>3 DEF Fail
<1>14. ASSUME NEW t \in Tab, CloseTab(t) PROVE TypeOK'
    <2>1. ToSet(parked[t]) \subseteq Frame
        BY ElementOfSeq DEF ToSet
    <2>2. \A w \in ToSet(chain[t]) : Taken(w) \subseteq Frame
        BY ElementOfSeq, TakenTypes DEF ToSet
    <2>3. spilt' \subseteq Frame
        BY <1>14, <2>1, <2>2 DEF CloseTab
    <2>4. QED
        BY <1>14, <2>3, EmptySeq DEF CloseTab
<1>15. CASE UNCHANGED vars
    BY <1>15
<1>16. QED
    BY <1>1, <1>2, <1>3, <1>4, <1>5, <1>6, <1>7, <1>8, <1>9, <1>10, <1>11, <1>12, <1>13, <1>14,
       <1>15 DEF Next

\* The type invariant holds of every execution.
THEOREM TypeCorrect == Spec => []TypeOK
BY TypeInit, TypeNext, PTL DEF Spec
---------------------------------------------------------------------------
(* The transcript of an account with one tab.  The lock of that tab makes    *)
(* what a piece of work has loaded be what is stored until it saves; with    *)
(* that, no piece of work can undo another one.                              *)

OneTab == \E t \in Tab : Tab = {t}

\* What has been loaded is what is stored.
Locked == \A t \in Tab : hold[t] # NotLoaded => hold[t] = disk

\* A tombstone is a message without text.
Tombs(d) == \A m \in Msg : d[m].deleted => d[m].here /\ d[m].text = 0

\* Message frame i has been committed to transcript d, or burned among b.
Landed(i, d, b) == d[Feed[i].of].here \/ Feed[i].of \in b

\* A drain is a piece of work that applies another frame than its handler's; what it
\* was parked for has landed.
DrainLanded(w, d, b) ==
    w.do # w.for => Feed[w.for].kind = "message" /\ Landed(w.for, d, b)

\* A handler that applies what was parked has committed its message.
DrainsLanded ==
    \A t \in Tab : \A k \in DOMAIN chain[t] : DrainLanded(chain[t][k], disk, burned)

TranscriptInv ==
    /\ TypeOK
    /\ Locked
    /\ Tombs(disk)
    /\ AckedIsKept
    /\ DrainsLanded

\* A step from disk to d, after which the messages of b have burned, loses nothing
\* else and revives no tombstone.
Grows(d, b) ==
    /\ \A m \in Msg : disk[m].here => d[m].here \/ (m \in Burns /\ disk[m].seen /\ m \in b)
    /\ \A m \in Msg : disk[m].deleted => d[m].deleted
    /\ burned \subseteq b
    /\ Tombs(d)

\* Work on a frame loses nothing and revives no tombstone; an appended message is here.
LEMMA AppliedGrows ==
    ASSUME TypeOK, Tombs(disk), NEW i \in Frame
    PROVE  /\ Saves(disk, i) => Grows(Applied(disk, i), burned)
           /\ Feed[i].kind = "message" =>
                IF Saves(disk, i) THEN Applied(disk, i)[Feed[i].of].here ELSE disk[Feed[i].of].here
<1> DEFINE m == Feed[i].of
<1>1. m \in Msg /\ disk \in [Msg -> Message] /\ disk[m] \in Message /\ i \in Nat \ {0}
    BY FrameFacts DEF TypeOK
<1>2. ASSUME Saves(disk, i)
      PROVE  /\ disk[m].here => Changed(disk, i).here
             /\ disk[m].deleted => Changed(disk, i).deleted
             /\ Changed(disk, i).deleted => Changed(disk, i).here /\ Changed(disk, i).text = 0
             /\ Feed[i].kind = "message" => Changed(disk, i).here
    <2>1. CASE Feed[i].kind = "message"
        <3>1. ~disk[m].here /\ ~disk[m].deleted
            BY <1>1, <1>2, <2>1 DEF Saves, Tombs
        <3>2. Fresh(i).here /\ ~Fresh(i).deleted
            BY DEF Fresh, Absent
        <3>3. Changed(disk, i) = Fresh(i)
            BY <2>1, <3>1 DEF Changed
        <3>4. QED
            BY <3>1, <3>2, <3>3
    <2>2. CASE Feed[i].kind = "edit"
        <3>1. disk[m].here /\ ~disk[m].deleted
            BY <1>2, <2>2 DEF Saves, Finds, Editable
        <3>2. Changed(disk, i) = [disk[m] EXCEPT !.text = i]
            BY <2>2 DEF Changed
        <3>3. Changed(disk, i).here = disk[m].here /\ Changed(disk, i).deleted = disk[m].deleted
            BY <1>1, <3>2 DEF Message
        <3>4. QED
            BY <2>2, <3>1, <3>3
    <2>3. CASE Feed[i].kind = "delete"
        <3>1. Changed(disk, i) = Tombstone
            BY <2>3 DEF Changed
        <3>2. Tombstone.here /\ Tombstone.deleted /\ Tombstone.text = 0
            BY DEF Tombstone, Absent
        <3>3. QED
            BY <2>3, <3>1, <3>2
    <2>4. QED
        BY <2>1, <2>2, <2>3, FrameFacts
<1>3. ASSUME NEW n \in Msg
      PROVE  Applied(disk, i)[n] = IF n = m THEN Changed(disk, i) ELSE disk[n]
    BY <1>1 DEF Applied
<1>4. Saves(disk, i) => Grows(Applied(disk, i), burned)
    BY <1>2, <1>3 DEF Grows, Tombs
<1>5. Feed[i].kind = "message" =>
        IF Saves(disk, i) THEN Applied(disk, i)[m].here ELSE disk[m].here
    BY <1>1, <1>2, <1>3 DEF Saves, Finds
<1>6. QED
    BY <1>4, <1>5

\* A sweep loses what it burns, which has been seen, and nothing else.
LEMMA SweptGrows ==
    ASSUME TypeOK, Tombs(disk), NEW gone \in SUBSET {m \in Burning(disk) : disk[m].seen}
    PROVE  Grows(Swept(disk, gone), burned \cup gone)
<1> DEFINE d == Swept(disk, gone)
<1>1. ASSUME NEW m \in Msg
      PROVE  /\ disk[m].here => d[m].here \/ (m \in Burns /\ disk[m].seen /\ m \in burned \cup gone)
             /\ disk[m].deleted => d[m].deleted
             /\ d[m].deleted => d[m].here /\ d[m].text = 0
    <2>1. disk[m] \in Message
        BY DEF TypeOK
    <2>2. CASE m \in gone
        <3>1. d[m] = Absent
            BY <2>2 DEF Swept
        <3>2. m \in Burns /\ disk[m].seen /\ ~disk[m].deleted
            BY <2>2 DEF Burning
        <3>3. ~Absent.deleted
            BY DEF Absent
        <3>4. QED
            BY <2>2, <3>1, <3>2, <3>3
    <2>3. CASE m \notin gone /\ m \in Burning(disk)
        <3>1. d[m] = [disk[m] EXCEPT !.seen = TRUE]
            BY <2>3 DEF Swept
        <3>2. d[m].here = disk[m].here /\ d[m].deleted = disk[m].deleted
            BY <2>1, <3>1 DEF Message
        <3>3. ~disk[m].deleted
            BY <2>3 DEF Burning
        <3>4. QED
            BY <3>2, <3>3
    <2>4. CASE m \notin gone /\ m \notin Burning(disk)
        <3>1. d[m] = disk[m]
            BY <2>4 DEF Swept
        <3>2. QED
            BY <3>1 DEF Tombs
    <2>5. QED
        BY <2>2, <2>3, <2>4
<1>2. QED
    BY <1>1 DEF Grows, Tombs

\* Nothing is lost when nothing happens.
LEMMA StaysGrows == TypeOK /\ Tombs(disk) => Grows(disk, burned)
BY DEF Grows

\* Every step of the transcript loses only what burns.
LEMMA StepGrows == TranscriptInv /\ [Next]_vars => Grows(disk', burned')
<1> SUFFICES ASSUME TranscriptInv, [Next]_vars PROVE Grows(disk', burned')
    OBVIOUS
<1>0. TypeOK /\ Tombs(disk) /\ Locked
    BY DEF TranscriptInv
<1>1. CASE UNCHANGED <<disk, burned>>
    BY <1>0, <1>1, StaysGrows
<1>2. ASSUME NEW t \in Tab, Save(t) PROVE Grows(disk', burned')
    <2>1. chain[t] # <<>> /\ chain[t][1] \in WorkType \ {Tick}
        <3>1. chain[t] # <<>> /\ chain[t] \in Seq(WorkType)
            BY <1>0, <1>2 DEF Save, TypeOK
        <3>2. 1 \in DOMAIN chain[t]
            BY <3>1, LenProperties, EmptySeq
        <3>3. QED
            BY <1>2, <3>1, <3>2, ElementOfSeq DEF Save
    <2>2. PICK i \in Frame : i = chain[t][1].do
        BY <2>1, WorkTypes
    <2>3. hold[t] = disk
        BY <1>0, <1>2 DEF Save, Locked
    <2>4. disk' = (IF Saves(disk, i) THEN Applied(disk, i) ELSE disk) /\ burned' = burned
        BY <1>2, <2>2, <2>3 DEF Save
    <2>5. QED
        BY <1>0, <2>4, AppliedGrows, StaysGrows
<1>3. ASSUME NEW t \in Tab, SaveTick(t) PROVE Grows(disk', burned')
    <2>1. hold[t] = disk
        BY <1>0, <1>3 DEF SaveTick, Locked
    <2>2. PICK gone \in SUBSET {m \in Burning(disk) : disk[m].seen} :
            /\ disk' = IF Swept(disk, gone) = disk THEN disk ELSE Swept(disk, gone)
            /\ burned' = burned \cup gone
        BY <1>3, <2>1 DEF SaveTick
    <2>3. disk' = Swept(disk, gone)
        BY <2>2
    <2>4. QED
        BY <1>0, <2>2, <2>3, SweptGrows
<1>4. QED
    BY <1>1, <1>2, <1>3
       DEF Next, Post, Connect, FlushRead, FlushPush, Attach, Drop, Arrive, Do, StartTick, Load, Fail,
           CloseTab, vars

\* With one tab, what it has loaded is what is stored.
LEMMA LockedNext == OneTab /\ TypeOK /\ Locked /\ [Next]_vars => Locked'
<1> SUFFICES ASSUME OneTab, TypeOK, Locked, [Next]_vars PROVE Locked'
    OBVIOUS
<1>1. CASE UNCHANGED <<disk, hold>>
    BY <1>1 DEF Locked
<1>2. ASSUME NEW t \in Tab, Load(t) PROVE Locked'
    BY <1>2 DEF Load, Locked, TypeOK
<1>3. ASSUME NEW t \in Tab, hold' = [hold EXCEPT ![t] = NotLoaded] PROVE Locked'
    <2>1. \A u \in Tab : u = t
        BY DEF OneTab
    <2>2. hold'[t] = NotLoaded
        BY <1>3 DEF TypeOK
    <2>3. QED
        BY <2>1, <2>2 DEF Locked
<1>4. ASSUME NEW t \in Tab, Save(t) PROVE hold' = [hold EXCEPT ![t] = NotLoaded]
    BY <1>4, Zenon DEF Save, Settle, GoOn, Release, Unlocked
<1>5. ASSUME NEW t \in Tab, SaveTick(t) \/ Fail(t) \/ CloseTab(t)
      PROVE  hold' = [hold EXCEPT ![t] = NotLoaded]
    BY <1>5 DEF SaveTick, Fail, CloseTab, Release, Unlocked
<1>6. QED
    BY <1>1, <1>2, <1>3, <1>4, <1>5
       DEF Next, Post, Connect, FlushRead, FlushPush, Attach, Drop, Arrive, Do, StartTick, vars,
           relayVars, tabVars

\* What has landed stays landed.
LEMMA LandedStays ==
    ASSUME TypeOK, Grows(disk', burned'), NEW i \in Frame, Landed(i, disk, burned)
    PROVE  Landed(i, disk', burned')
BY FrameFacts DEF Landed, Grows

\* The pieces of work of a chain are pieces of work.
LEMMA ChainFacts ==
    ASSUME TypeOK, NEW t \in Tab
    PROVE  /\ chain[t] \in Seq(WorkType)
           /\ \A k \in DOMAIN chain[t] : chain[t][k] \in WorkType
           /\ chain[t] # <<>> => 1 \in DOMAIN chain[t]
BY LenProperties, ElementOfSeq, EmptySeq DEF TypeOK

\* The work that waits when the first piece is over waited before, or is `more`.
LEMMA ReleaseDrains ==
    ASSUME TypeOK, DrainsLanded, Grows(disk', burned'), NEW t \in Tab, chain[t] # <<>>,
           NEW more \in Seq(WorkType), Release(t, more),
           \A k \in DOMAIN more : DrainLanded(more[k], disk', burned')
    PROVE  DrainsLanded'
<1>1. ASSUME NEW u \in Tab, NEW k \in DOMAIN chain[u] PROVE DrainLanded(chain[u][k], disk', burned')
    <2>1. chain[u][k] \in WorkType /\ DrainLanded(chain[u][k], disk, burned)
        BY ChainFacts DEF DrainsLanded, DrainLanded
    <2>2. CASE chain[u][k] = Tick
        BY <2>2 DEF DrainLanded, Tick, Work
    <2>3. CASE chain[u][k] # Tick
        BY <2>1, <2>3, WorkTypes, LandedStays DEF DrainLanded
    <2>4. QED
        BY <2>2, <2>3
<1>2. ASSUME NEW u \in Tab, NEW k \in DOMAIN chain'[u] PROVE DrainLanded(chain'[u][k], disk', burned')
    <2>1. CASE u # t
        <3>1. chain'[u] = chain[u]
            BY <2>1 DEF Release, TypeOK
        <3>2. QED
            BY <1>1, <1>2, <3>1
    <2>2. CASE u = t
        <3>1. PICK c : c = chain[t]
            OBVIOUS
        <3>2. c \in Seq(WorkType) /\ c # <<>> /\ Tail(c) \in Seq(WorkType)
            BY <3>1, ChainFacts, HeadTailProperties
        <3>3. chain'[t] = Tail(c) \o more
            BY <3>1 DEF Release, TypeOK
        <3>4. /\ Len(c) \in Nat /\ Len(more) \in Nat /\ Len(Tail(c)) = Len(c) - 1
              /\ DOMAIN c = 1 .. Len(c) /\ DOMAIN more = 1 .. Len(more)
              /\ \A j \in 1 .. Len(Tail(c)) : Tail(c)[j] = c[j + 1]
            BY <3>2, LenProperties, HeadTailProperties
        <3>5. /\ DOMAIN (Tail(c) \o more) = 1 .. Len(c) - 1 + Len(more)
              /\ \A j \in 1 .. Len(c) - 1 + Len(more) :
                    (Tail(c) \o more)[j] = IF j <= Len(c) - 1 THEN Tail(c)[j]
                                           ELSE more[j - (Len(c) - 1)]
            BY <3>2, <3>4, ConcatProperties, LenProperties
        <3>6. PICK j \in 1 .. Len(c) - 1 + Len(more) : j = k
            BY <1>2, <2>2, <3>3, <3>5
        <3>7. Len(c) >= 1
            BY <3>2, <3>4, EmptySeq
        <3>8. CASE j <= Len(c) - 1
            <4>1. j + 1 \in DOMAIN c /\ (Tail(c) \o more)[j] = c[j + 1]
                BY <3>4, <3>5, <3>6, <3>7, <3>8
            <4>2. QED
                BY <1>1, <2>2, <3>1, <3>3, <3>6, <4>1
        <3>9. CASE ~(j <= Len(c) - 1)
            <4>1. /\ j - (Len(c) - 1) \in DOMAIN more
                  /\ (Tail(c) \o more)[j] = more[j - (Len(c) - 1)]
                BY <3>4, <3>5, <3>6, <3>7, <3>9
            <4>2. QED
                BY <2>2, <3>3, <3>6, <4>1
        <3>10. QED
            BY <3>8, <3>9
    <2>3. QED
        BY <2>1, <2>2
<1>3. QED
    BY <1>2 DEF DrainsLanded, DrainLanded

\* A piece of work that is over, and leaves none, drains nothing more.
LEMMA ReleaseEnds ==
    ASSUME TypeOK, DrainsLanded, Grows(disk', burned'), NEW t \in Tab, chain[t] # <<>>,
           Release(t, <<>>)
    PROVE  DrainsLanded'
<1>1. PICK none \in Seq(WorkType) : none = <<>>
    BY EmptySeq
<1>2. DOMAIN none = {}
    BY <1>1
<1>3. Release(t, none)
    BY <1>1
<1>4. QED
    BY <1>2, <1>3, ReleaseDrains

\* A piece of work that is appended drains nothing.
LEMMA AppendDrains ==
    ASSUME TypeOK, DrainsLanded, UNCHANGED <<disk, burned>>, NEW t \in Tab, NEW w \in WorkType,
           w.do = w.for, chain' = [chain EXCEPT ![t] = Append(@, w)]
    PROVE  DrainsLanded'
<1>1. ASSUME NEW u \in Tab, NEW k \in DOMAIN chain'[u] PROVE DrainLanded(chain'[u][k], disk', burned')
    <2>1. CASE u # t
        <3>1. chain'[u] = chain[u]
            BY <2>1 DEF TypeOK
        <3>2. QED
            BY <1>1, <3>1 DEF DrainsLanded
    <2>2. CASE u = t
        <3>1. chain'[t] = Append(chain[t], w)
            BY DEF TypeOK
        <3>2. chain'[t][k] = w \/ (k \in DOMAIN chain[t] /\ chain'[t][k] = chain[t][k])
            <4>1. /\ DOMAIN Append(chain[t], w) = 1 .. Len(chain[t]) + 1 /\ Len(chain[t]) \in Nat
                  /\ DOMAIN chain[t] = 1 .. Len(chain[t])
                  /\ \A j \in 1 .. Len(chain[t]) : Append(chain[t], w)[j] = chain[t][j]
                  /\ Append(chain[t], w)[Len(chain[t]) + 1] = w
                BY ChainFacts, AppendProperties, LenProperties
            <4>2. QED
                BY <1>1, <2>2, <3>1, <4>1
        <3>3. QED
            BY <2>2, <3>2 DEF DrainsLanded, DrainLanded, Landed
    <2>3. QED
        BY <2>1, <2>2
<1>2. QED
    BY <1>1 DEF DrainsLanded, DrainLanded

\* Rows are acknowledged when their message has landed.
LEMMA AckNext ==
    ASSUME TypeOK, AckedIsKept, Grows(disk', burned'), posted' = posted,
           queue' = queue \/ \E i \in Frame : /\ queue' = queue \ {i}
                                              /\ Feed[i].kind = "message" => Landed(i, disk', burned')
    PROVE  AckedIsKept'
<1>1. ASSUME NEW i \in posted' \ queue', Feed[i].kind = "message" PROVE Landed(i, disk', burned')
    <2>1. i \in Frame
        BY DEF TypeOK
    <2>2. CASE i \in posted \ queue
        <3>1. Landed(i, disk, burned)
            BY <1>1, <2>2 DEF AckedIsKept, Landed
        <3>2. QED
            BY <2>1, <3>1, LandedStays
    <2>3. CASE i \notin posted \ queue
        BY <1>1, <2>3
    <2>4. QED
        BY <2>2, <2>3
<1>2. QED
    BY <1>1 DEF AckedIsKept, Landed

\* Losing its socket, or going on, a handler stays the handler of its frame.
LEMMA OffFacts ==
    /\ \A w \in WorkType : /\ [w EXCEPT !.on = FALSE].do = w.do
                           /\ [w EXCEPT !.on = FALSE].for = w.for
    /\ \A w \in WorkType \ {Tick} : \A i, l :
            [w EXCEPT !.do = i, !.left = l].for = w.for
BY DEF WorkType, Tick, Work

\* Every step keeps the invariant.
LEMMA TranscriptInvNext == OneTab /\ TranscriptInv /\ [Next]_vars => TranscriptInv'
<1> SUFFICES ASSUME OneTab, TranscriptInv, [Next]_vars PROVE TranscriptInv'
    OBVIOUS
<1>1. TypeOK /\ Locked /\ Tombs(disk) /\ AckedIsKept /\ DrainsLanded
    BY DEF TranscriptInv
<1>2. TypeOK'
    BY <1>1, TypeNext
<1>3. Locked'
    BY <1>1, LockedNext
<1>4. Grows(disk', burned')
    BY StepGrows
<1>5. Tombs(disk')
    BY <1>4 DEF Grows
<1>6. AckedIsKept' /\ DrainsLanded'
    <2>1. CASE UNCHANGED <<posted, queue, disk, burned, chain>>
        BY <1>1, <2>1 DEF AckedIsKept, DrainsLanded
    <2>2. CASE Post
        <3>1. DrainsLanded'
            BY <1>1, <2>2 DEF Post, DrainsLanded
        <3>2. AckedIsKept'
            BY <1>1, <2>2 DEF Post, AckedIsKept
        <3>3. QED
            BY <3>1, <3>2
    <2>3. ASSUME NEW t \in Tab, NEW w \in WorkType, w.do = w.for,
                 chain' = [chain EXCEPT ![t] = Append(@, w)],
                 UNCHANGED <<posted, queue, disk, burned>>
          PROVE  AckedIsKept' /\ DrainsLanded'
        <3>1. AckedIsKept'
            BY <1>1, <2>3 DEF AckedIsKept
        <3>2. DrainsLanded'
            BY <1>1, <2>3, AppendDrains
        <3>3. QED
            BY <3>1, <3>2
    <2>4. ASSUME NEW t \in Tab, Arrive(t) PROVE AckedIsKept' /\ DrainsLanded'
        <3>1. Head(wire[t]) \in Frame
            BY <1>1, <2>4, HeadTailProperties DEF Arrive, TypeOK
        <3>2. Work(Head(wire[t])) \in WorkType
              /\ Work(Head(wire[t])).do = Work(Head(wire[t])).for
            BY <3>1, WorkTypes DEF Work
        <3>3. QED
            BY <2>3, <2>4, <3>2 DEF Arrive, relayVars
    <2>5. ASSUME NEW t \in Tab, NEW i \in Frame, Do(t, i) PROVE AckedIsKept' /\ DrainsLanded'
        <3>1. Work(i) \in WorkType /\ Work(i).do = Work(i).for
            BY WorkTypes DEF Work
        <3>2. QED
            BY <2>3, <2>5, <3>1 DEF Do, relayVars
    <2>6. ASSUME NEW t \in Tab, StartTick(t) PROVE AckedIsKept' /\ DrainsLanded'
        <3>1. Tick \in WorkType /\ Tick.do = Tick.for
            BY WorkTypes DEF Tick, Work
        <3>2. QED
            BY <2>3, <2>6, <3>1 DEF StartTick, relayVars
    <2>7. ASSUME NEW t \in Tab, Drop(t) PROVE AckedIsKept' /\ DrainsLanded'
        <3>1. AckedIsKept'
            BY <1>1, <2>7 DEF Drop, AckedIsKept
        <3>2. ASSUME NEW u \in Tab, NEW k \in DOMAIN chain'[u]
              PROVE  DrainLanded(chain'[u][k], disk', burned')
            <4>1. CASE u # t
                <5>1. chain'[u] = chain[u]
                    BY <1>1, <2>7, <4>1 DEF Drop, TypeOK
                <5>2. QED
                    BY <1>1, <2>7, <3>2, <5>1 DEF Drop, DrainsLanded
            <4>2. CASE u = t
                <5>1. chain'[t] = [j \in DOMAIN chain[t] |-> [chain[t][j] EXCEPT !.on = FALSE]]
                    BY <1>1, <2>7 DEF Drop, TypeOK
                <5>2. k \in DOMAIN chain[t] /\ chain'[t][k] = [chain[t][k] EXCEPT !.on = FALSE]
                    BY <3>2, <4>2, <5>1
                <5>3. chain[t][k] \in WorkType
                    BY <1>1, <5>2, ChainFacts
                <5>4. chain'[t][k].do = chain[t][k].do /\ chain'[t][k].for = chain[t][k].for
                    BY <5>2, <5>3, OffFacts
                <5>5. DrainLanded(chain[t][k], disk, burned)
                    BY <1>1, <5>2 DEF DrainsLanded
                <5>6. QED
                    BY <2>7, <4>2, <5>4, <5>5 DEF Drop, DrainLanded
            <4>3. QED
                BY <4>1, <4>2
        <3>3. QED
            BY <3>1, <3>2 DEF DrainsLanded
    <2>8. ASSUME NEW t \in Tab, Release(t, <<>>), chain[t] # <<>>, UNCHANGED <<posted, queue>>
          PROVE  AckedIsKept' /\ DrainsLanded'
        <3>1. DrainsLanded'
            BY <1>1, <1>4, <2>8, ReleaseEnds
        <3>2. AckedIsKept'
            BY <1>1, <1>4, <2>8, AckNext
        <3>3. QED
            BY <3>1, <3>2
    <2>9. ASSUME NEW t \in Tab, SaveTick(t) \/ Fail(t) PROVE AckedIsKept' /\ DrainsLanded'
        BY <2>8, <2>9 DEF SaveTick, Fail, relayVars
    <2>10. ASSUME NEW t \in Tab, CloseTab(t) PROVE AckedIsKept' /\ DrainsLanded'
        <3>1. AckedIsKept'
            BY <1>1, <2>10 DEF CloseTab, AckedIsKept
        <3>2. DrainsLanded'
            BY <1>1, <2>10, EmptySeq DEF CloseTab, DrainsLanded, TypeOK
        <3>3. QED
            BY <3>1, <3>2
    <2>11. ASSUME NEW t \in Tab, Save(t) PROVE AckedIsKept' /\ DrainsLanded'
        <3>1. PICK w : w = chain[t][1]
            OBVIOUS
        <3>2. chain[t] # <<>> /\ w \in WorkType \ {Tick} /\ 1 \in DOMAIN chain[t]
            BY <1>1, <2>11, <3>1, ChainFacts DEF Save
        <3>3. w.do \in Frame /\ w.for \in Frame /\ w.left \in Seq(Frame)
            BY <3>2, WorkTypes
        <3>4. DrainLanded(w, disk, burned) /\ posted' = posted /\ burned' = burned
            BY <1>1, <2>11, <3>1, <3>2 DEF DrainsLanded, Save
        <3>5. CASE Release(t, <<>>) /\ UNCHANGED <<queue, parked, spilt>>
            BY <2>8, <3>2, <3>4, <3>5
        <3>6. CASE Feed[w.for].kind # "message" /\ Settle(t, w)
            <4>1. DrainsLanded'
                BY <1>1, <1>4, <3>2, <3>6, ReleaseEnds DEF Settle
            <4>2. queue' = queue \/ queue' = queue \ {w.for}
                BY <3>6 DEF Settle, Acknowledge
            <4>3. AckedIsKept'
                BY <1>1, <1>4, <3>3, <3>4, <3>6, <4>2, AckNext
            <4>4. QED
                BY <4>1, <4>3
        <3>7. ASSUME Feed[w.for].kind = "message", Landed(w.for, disk', burned'),
                     NEW left \in Seq(Frame), GoOn(t, w, left)
              PROVE  AckedIsKept' /\ DrainsLanded'
            <4>1. queue' = queue \/ queue' = queue \ {w.for}
                BY <3>7 DEF GoOn, Acknowledge
            <4>2. AckedIsKept'
                BY <1>1, <1>4, <3>3, <3>4, <3>7, <4>1, AckNext
            <4>3. CASE left = <<>>
                BY <1>1, <1>4, <3>2, <3>7, <4>2, <4>3, ReleaseEnds DEF GoOn
            <4>4. CASE left # <<>>
                <5>1. PICK v : v = [w EXCEPT !.do = Head(left), !.left = Tail(left)]
                    OBVIOUS
                <5>2. v \in WorkType
                    BY <3>2, <4>4, <5>1, WorkTypes
                <5>3. v.for = w.for
                    BY <3>2, <5>1, OffFacts
                <5>4. DrainLanded(v, disk', burned')
                    BY <3>7, <5>3 DEF DrainLanded
                <5>5. Release(t, <<v>>)
                    BY <3>7, <4>4, <5>1 DEF GoOn
                <5>6. <<v>> \in Seq(WorkType) /\ \A k \in DOMAIN <<v>> : <<v>>[k] = v
                    BY <5>2
                <5>7. DrainsLanded'
                    BY <1>1, <1>4, <3>2, <5>4, <5>5, <5>6, ReleaseDrains
                <5>8. QED
                    BY <4>2, <5>7
            <4>5. QED
                BY <4>3, <4>4
        <3>8. ASSUME Feed[w.for].kind = "message", w.do = w.for,
                     NEW left \in Picks(parked[t], Ready(t, Feed[w.for].of)), GoOn(t, w, left)
              PROVE  AckedIsKept' /\ DrainsLanded'
            <4>1. left \in Seq(Frame)
                BY <1>1, PicksTypes DEF Ready, TypeOK
            <4>2. hold[t] = disk
                BY <1>1, <2>11 DEF Save, Locked
            <4>3. disk' = IF Saves(disk, w.for) THEN Applied(disk, w.for) ELSE disk
                BY <2>11, <3>1, <3>8, <4>2 DEF Save
            <4>4. disk'[Feed[w.for].of].here
                BY <1>1, <3>3, <3>8, <4>3, AppliedGrows
            <4>5. QED
                BY <3>7, <3>8, <4>1, <4>4 DEF Landed
        <3>9. CASE Feed[w.for].kind = "message" /\ w.do # w.for /\ GoOn(t, w, w.left)
            <4>1. Landed(w.for, disk, burned)
                BY <3>4, <3>9 DEF DrainLanded
            <4>2. Landed(w.for, disk', burned')
                BY <1>1, <1>4, <3>3, <4>1, LandedStays
            <4>3. QED
                BY <3>3, <3>7, <3>9, <4>2
        <3>10. QED
            BY <2>11, <3>1, <3>5, <3>6, <3>8, <3>9 DEF Save
    <2>12. QED
        BY <2>1, <2>2, <2>4, <2>5, <2>6, <2>7, <2>9, <2>10, <2>11
           DEF Next, Connect, FlushRead, FlushPush, Attach, Load, vars, relayVars, tabVars
<1>7. QED
    BY <1>2, <1>3, <1>5, <1>6 DEF TranscriptInv

\* The first transcript is empty.
LEMMA TranscriptInvInit == Init => TranscriptInv
<1> SUFFICES ASSUME Init PROVE TranscriptInv
    OBVIOUS
<1>1. Locked /\ Tombs(disk)
    BY DEF Init, Locked, Tombs, Absent
<1>2. AckedIsKept /\ DrainsLanded
    BY EmptySeq DEF Init, AckedIsKept, DrainsLanded
<1>3. QED
    BY <1>1, <1>2, TypeInit DEF TranscriptInv

\* The invariant holds of every execution of an account with one tab.
LEMMA TranscriptInvHolds == ASSUME OneTab PROVE Spec => []TranscriptInv
BY TranscriptInvInit, TranscriptInvNext, PTL DEF Spec

\* With one tab, a message leaves the transcript only by burning after it was seen,
\* whatever is sent, received, edited and swept at the same time: the lock of
\* MessageStore does what it is for.
THEOREM OnlyBurningRemoves == ASSUME OneTab PROVE Spec => NothingVanishes
<1>1. TranscriptInv /\ [Next]_vars =>
        [\A m \in Msg : disk[m].here /\ ~disk'[m].here => m \in Burns /\ disk[m].seen]_vars
    BY StepGrows DEF Grows
<1>2. QED
    BY <1>1, TranscriptInvHolds, PTL DEF Spec, NothingVanishes

\* With one tab, a deleted message stays deleted and has no text, whatever edits race
\* with the delete, come late, or are delivered again.
THEOREM DeletedStaysDeleted == ASSUME OneTab PROVE Spec => TombstoneStays
<1>1. TranscriptInv /\ [Next]_vars =>
        [\A m \in Msg : disk[m].deleted => disk'[m].deleted /\ disk'[m].text = 0]_vars
    BY StepGrows DEF Grows, Tombs
<1>2. QED
    BY <1>1, TranscriptInvHolds, PTL DEF Spec, TombstoneStays

\* With one tab, the relay deletes its row of a message only when the message is in the
\* transcript, or was and has burned: a lost tab, socket or write costs a redelivery.
THEOREM AckedAfterCommit == ASSUME OneTab PROVE Spec => []AckedIsKept
BY TranscriptInvHolds, PTL DEF TranscriptInv
---------------------------------------------------------------------------
(* Edits and deletes that come early                                       *)

\* Elements of a sequence without its first, or with one more.
LEMMA ElementsOf ==
    ASSUME NEW S, NEW s \in Seq(S)
    PROVE  /\ ToSet(s) \subseteq S /\ (s = <<>> => ToSet(s) = {})
           /\ s # <<>> => Head(s) = s[1] /\ s[1] \in S /\ ToSet(s) = {s[1]} \cup ToSet(Tail(s))
           /\ \A x \in S : ToSet(Append(s, x)) = ToSet(s) \cup {x}
           /\ \A q \in Seq(S) : ToSet(s \o q) = ToSet(s) \cup ToSet(q)
<1>1. Len(s) \in Nat /\ DOMAIN s = 1 .. Len(s) /\ \A k \in DOMAIN s : s[k] \in S
    BY LenProperties, ElementOfSeq
<1>2. ToSet(s) \subseteq S /\ (s = <<>> => ToSet(s) = {})
    BY <1>1 DEF ToSet
<1>3. ASSUME s # <<>>
      PROVE  Head(s) = s[1] /\ s[1] \in S /\ ToSet(s) = {s[1]} \cup ToSet(Tail(s))
    <2>1. /\ Tail(s) \in Seq(S) /\ Len(Tail(s)) = Len(s) - 1 /\ Len(s) >= 1
          /\ \A k \in 1 .. Len(Tail(s)) : Tail(s)[k] = s[k + 1]
        BY <1>1, <1>3, HeadTailProperties, EmptySeq
    <2>2. DOMAIN Tail(s) = 1 .. Len(s) - 1
        BY <2>1, LenProperties
    <2>3. ASSUME NEW k \in DOMAIN s PROVE s[k] \in {s[1]} \cup ToSet(Tail(s))
        <3>1. CASE k = 1
            BY <3>1
        <3>2. CASE k # 1
            <4>1. k - 1 \in 1 .. Len(s) - 1 /\ (k - 1) + 1 = k
                BY <1>1, <3>2
            <4>2. QED
                BY <2>1, <2>2, <4>1 DEF ToSet
        <3>3. QED
            BY <3>1, <3>2
    <2>4. ASSUME NEW k \in DOMAIN Tail(s) PROVE Tail(s)[k] \in ToSet(s)
        <3>1. k + 1 \in DOMAIN s
            BY <1>1, <2>1, <2>2
        <3>2. QED
            BY <2>1, <2>2, <3>1 DEF ToSet
    <2>5. 1 \in DOMAIN s
        BY <1>1, <2>1
    <2>6. QED
        BY <1>1, <2>3, <2>4, <2>5 DEF ToSet
<1>4. ASSUME NEW x \in S PROVE ToSet(Append(s, x)) = ToSet(s) \cup {x}
    <2>1. /\ DOMAIN Append(s, x) = 1 .. Len(s) + 1
          /\ \A k \in 1 .. Len(s) : Append(s, x)[k] = s[k]
          /\ Append(s, x)[Len(s) + 1] = x
        BY <1>1, AppendProperties, LenProperties
    <2>2. \A k \in 1 .. Len(s) + 1 : k \in 1 .. Len(s) \/ k = Len(s) + 1
        BY <1>1
    <2>3. \A k \in 1 .. Len(s) : k \in 1 .. Len(s) + 1
        BY <1>1
    <2>4. Len(s) + 1 \in 1 .. Len(s) + 1
        BY <1>1
    <2>5. QED
        BY <1>1, <2>1, <2>2, <2>3, <2>4 DEF ToSet
<1>5. ASSUME NEW q \in Seq(S) PROVE ToSet(s \o q) = ToSet(s) \cup ToSet(q)
    <2>1. Len(q) \in Nat /\ DOMAIN q = 1 .. Len(q)
        BY LenProperties
    <2>2. /\ DOMAIN (s \o q) = 1 .. Len(s) + Len(q)
          /\ \A k \in 1 .. Len(s) + Len(q) :
                (s \o q)[k] = IF k <= Len(s) THEN s[k] ELSE q[k - Len(s)]
        BY <1>1, <2>1, ConcatProperties, LenProperties
    <2>3. ASSUME NEW k \in 1 .. Len(s) + Len(q) PROVE (s \o q)[k] \in ToSet(s) \cup ToSet(q)
        <3>1. CASE k <= Len(s)
            BY <1>1, <2>2, <3>1 DEF ToSet
        <3>2. CASE ~(k <= Len(s))
            <4>1. k - Len(s) \in 1 .. Len(q)
                BY <1>1, <2>1, <3>2
            <4>2. QED
                BY <2>1, <2>2, <3>2, <4>1 DEF ToSet
        <3>3. QED
            BY <3>1, <3>2
    <2>4. ASSUME NEW k \in DOMAIN s PROVE s[k] \in ToSet(s \o q)
        <3>1. k \in 1 .. Len(s) + Len(q) /\ k <= Len(s)
            BY <1>1, <2>1
        <3>2. QED
            BY <2>2, <3>1 DEF ToSet
    <2>5. ASSUME NEW k \in DOMAIN q PROVE q[k] \in ToSet(s \o q)
        <3>1. k + Len(s) \in 1 .. Len(s) + Len(q) /\ ~(k + Len(s) <= Len(s))
              /\ (k + Len(s)) - Len(s) = k
            BY <1>1, <2>1
        <3>2. (s \o q)[k + Len(s)] = q[k]
            BY <2>2, <3>1
        <3>3. QED
            BY <2>2, <3>1, <3>2 DEF ToSet
    <2>6. QED
        BY <2>2, <2>3, <2>4, <2>5 DEF ToSet
<1>6. QED
    BY <1>2, <1>3, <1>4, <1>5

\* What is picked is all that was to be picked.
LEMMA PicksAll ==
    ASSUME NEW S, NEW s \in Seq(S), NEW I \in SUBSET DOMAIN s, NEW q \in Picks(s, I)
    PROVE  ToSet(q) = {s[k] : k \in I}
<1>1. DOMAIN s = 1 .. Len(s) /\ Len(s) \in Nat
    BY LenProperties
<1>2. IsFiniteSet(1 .. Len(s))
    BY <1>1, FS_Interval
<1>3. IsFiniteSet(I)
    BY <1>1, <1>2, FS_Subset
<1>4. PICK n \in Nat : n = Cardinality(I)
    BY <1>3, FS_CardinalityType
<1>5. PICK p \in [1 .. n -> I] : /\ q = [k \in 1 .. n |-> s[p[k]]]
                                 /\ \A j, k \in 1 .. n : j < k => p[j] < p[k]
    BY <1>4 DEF Picks
<1>6. IsInjective(p)
    <2>1. ASSUME NEW j \in 1 .. n, NEW k \in 1 .. n, j # k PROVE p[j] # p[k]
        <3>1. p[j] \in Nat /\ p[k] \in Nat
            BY <1>1, <1>5
        <3>2. CASE j < k
            BY <1>5, <3>1, <3>2
        <3>3. CASE k < j
            BY <1>5, <3>1, <3>3
        <3>4. QED
            BY <2>1, <3>2, <3>3
    <2>2. QED
        BY <1>5, <2>1 DEF IsInjective
<1>7. p \in Injection(1 .. n, I)
    BY <1>5, <1>6 DEF Injection
<1>8. Cardinality(1 .. n) = n
    BY FS_Interval
<1>9. p \in Surjection(1 .. n, I)
    BY <1>3, <1>4, <1>7, <1>8, FS_Injection
<1>10. \A k \in I : \E j \in 1 .. n : p[j] = k
    BY <1>9 DEF Surjection
<1>11. ToSet(q) = {s[p[j]] : j \in 1 .. n}
    BY <1>5 DEF ToSet
<1>12. QED
    BY <1>5, <1>10, <1>11
\* Frame i is an edit or a delete by the author of the message it is of.
Authored(i) == Feed[i].kind \in Mutations /\ Feed[i].by = From[Feed[i].of]

\* Transcript d shows it: the message is a tombstone, or has an edit's text.
Shows(d, i) ==
    LET m == Feed[i].of
    IN  /\ d[m].here
        /\ \/ d[m].deleted
           \/ Feed[i].kind = "edit" /\ d[m].text \in Frame /\ Feed[d[m].text].kind = "edit"

\* The edits and deletes of message m.
Changes(m) == {i \in Frame : Feed[i].kind \in Mutations /\ Feed[i].of = m}

\* A drain applies changes of its handler's message, and that came from the peer.
Proper(w) ==
    w.do # w.for => /\ Feed[w.for].kind = "message" /\ w.for \notin Own
                    /\ Taken(w) \subseteq Changes(Feed[w.for].of)

\* What is queued and what is parked is what the handlers put there.
Orderly ==
    /\ posted \cap Own = {}
    /\ \A t \in Tab : \A w \in ToSet(chain[t]) : Proper(w)
    /\ \A t \in Tab : \A i \in ToSet(parked[t]) : Feed[i].kind \in Mutations

\* Where a change of a message can be until the transcript shows it: given up, with
\* its message burned, in the relay, parked for a message that is not here, or taken
\* out of the buffer by the handler of its message.
Fated(i) ==
    \/ i \in spilt \/ Feed[i].of \in burned
    \/ i \in queue
    \/ Shows(disk, i)
    \/ ~disk[Feed[i].of].here /\ \E t \in Tab : i \in ToSet(parked[t])
    \/ \E t \in Tab : \E w \in ToSet(chain[t]) : i \in Taken(w)

AllFated == \A i \in posted : Authored(i) => Fated(i)

\* A change that is shown stays shown until its message burns.
LEMMA ShowsStays ==
    ASSUME TranscriptInv, [Next]_vars, NEW i \in Frame, Shows(disk, i)
    PROVE  Shows(disk', i) \/ Feed[i].of \in burned'
<1> DEFINE m == Feed[i].of
           Goal == Shows(disk', i) \/ m \in burned'
<1>1. m \in Msg /\ disk[m] \in Message /\ TypeOK /\ Locked
    BY FrameFacts DEF TranscriptInv, TypeOK
<1>2. disk[m].here => disk'[m].here \/ m \in burned'
    BY <1>1, StepGrows DEF Grows
<1>3. disk[m].deleted => disk'[m].deleted
    BY <1>1, StepGrows DEF Grows
<1>4. ASSUME disk'[m].text = disk[m].text PROVE Goal
    BY <1>2, <1>3, <1>4 DEF Shows
<1>5. ASSUME disk'[m].deleted PROVE Goal
    BY <1>2, <1>5 DEF Shows
<1>6. ASSUME NEW t \in Tab, Save(t) PROVE Goal
    <2>1. PICK w : w = chain[t][1] /\ w.do \in Frame
        BY <1>1, <1>6, ChainFacts, WorkTypes, Zenon DEF Save
    <2>2. disk' = IF Saves(disk, w.do) THEN Applied(disk, w.do) ELSE disk
        BY <1>1, <1>6, <2>1 DEF Save, Locked
    <2>3. CASE ~Saves(disk, w.do) \/ Feed[w.do].of # m
        BY <1>1, <1>4, <2>1, <2>2, <2>3 DEF Applied
    <2>4. CASE Saves(disk, w.do) /\ Feed[w.do].of = m
        <3>1. disk'[m] = Changed(disk, w.do)
            BY <1>1, <2>2, <2>4 DEF Applied, TypeOK
        <3>2. Feed[w.do].kind # "message"
            BY <2>4 DEF Saves, Shows
        <3>3. CASE Feed[w.do].kind = "edit"
            <4>1. disk'[m] = [disk[m] EXCEPT !.text = w.do]
                BY <2>4, <3>1, <3>3 DEF Changed
            <4>2. disk'[m].text = w.do
                BY <1>1, <4>1 DEF Message
            <4>3. QED
                BY <1>2, <1>3, <2>1, <3>3, <4>2 DEF Shows
        <3>4. CASE Feed[w.do].kind = "delete"
            <4>1. disk'[m] = Tombstone
                BY <3>1, <3>4 DEF Changed
            <4>2. QED
                BY <1>5, <4>1 DEF Tombstone, Absent
        <3>5. QED
            BY <2>1, <3>2, <3>3, <3>4, FrameFacts
    <2>5. QED
        BY <2>3, <2>4, SMTT(30)
<1>7. ASSUME NEW t \in Tab, SaveTick(t) PROVE Goal
    <2>1. PICK gone : disk' = Swept(disk, gone) /\ burned' = burned \cup gone
        BY <1>1, <1>7 DEF SaveTick, Locked
    <2>2. CASE m \in gone
        BY <2>1, <2>2
    <2>3. CASE m \notin gone
        <3>1. disk'[m] = disk[m] \/ disk'[m] = [disk[m] EXCEPT !.seen = TRUE]
            BY <1>1, <2>1, <2>3 DEF Swept
        <3>2. QED
            BY <1>1, <1>4, <3>1 DEF Message
    <2>4. QED
        BY <2>2, <2>3
<1>8. CASE disk' = disk
    BY <1>4, <1>8, SMTT(30)
<1>9. QED
    BY <1>6, <1>7, <1>8
       DEF Next, vars, Post, Connect, FlushRead, FlushPush, Attach, Drop, Arrive, Do,
           StartTick, Load, Fail, CloseTab

\* Only the work on its own frame brings a message into the transcript.
LEMMA NewIsAppended ==
    ASSUME TranscriptInv, [Next]_vars, NEW m \in Msg, ~disk[m].here, disk'[m].here
    PROVE  \E t \in Tab : Save(t) /\ LET i == chain[t][1].do
                                     IN  Feed[i].kind = "message" /\ Feed[i].of = m
<1>1. TypeOK /\ Locked /\ disk[m] \in Message
    BY DEF TranscriptInv, TypeOK
<1>2. ASSUME NEW t \in Tab, Save(t)
      PROVE  Feed[chain[t][1].do].kind = "message" /\ Feed[chain[t][1].do].of = m
    <2>1. PICK i \in Frame : i = chain[t][1].do
        BY <1>1, <1>2, ChainFacts, WorkTypes, Zenon DEF Save
    <2>2. disk' = IF Saves(disk, i) THEN Applied(disk, i) ELSE disk
        BY <1>1, <1>2, <2>1 DEF Save, Locked
    <2>3. Saves(disk, i) /\ Feed[i].of = m
        BY <1>1, <2>2 DEF Applied
    <2>4. Feed[i].kind = "message"
        BY <2>3, FrameFacts DEF Saves, Finds, Editable, Removable
    <2>5. QED
        BY <2>1, <2>3, <2>4
<1>3. ASSUME NEW t \in Tab, SaveTick(t) PROVE FALSE
    <2>1. PICK gone : disk' = Swept(disk, gone)
        BY <1>1, <1>3 DEF SaveTick, Locked
    <2>2. m \notin Burning(disk) /\ ~Absent.here
        BY DEF Burning, Absent
    <2>3. QED
        BY <1>1, <2>1, <2>2 DEF Swept
<1>4. disk' # disk
    OBVIOUS
<1>5. QED
    BY <1>2, <1>3, <1>4, Zenon
       DEF Next, vars, Post, Connect, FlushRead, FlushPush, Attach, Drop, Arrive, Do,
           StartTick, Load, Fail, CloseTab

\* A change by its author is shown when it is applied, or its message is not here.
LEMMA AppliedShows ==
    ASSUME TypeOK, Tombs(disk), NEW i \in Frame, Authored(i)
    PROVE  /\ Saves(disk, i) <=> Finds(disk, i)
           /\ Finds(disk, i) => Shows(Applied(disk, i), i)
           /\ ~Finds(disk, i) => Shows(disk, i) \/ ~disk[Feed[i].of].here
<1> DEFINE m == Feed[i].of
<1>1. m \in Msg /\ disk[m] \in Message /\ Feed[i].kind \in {"edit", "delete"}
    BY FrameFacts DEF TypeOK, Authored, Mutations
<1>2. Applied(disk, i)[m] = Changed(disk, i)
    BY <1>1 DEF Applied, TypeOK
<1>3. CASE Feed[i].kind = "edit"
    <2>1. Finds(disk, i) = Editable(disk, i) /\ Changed(disk, i) = [disk[m] EXCEPT !.text = i]
        BY <1>3 DEF Finds, Changed
    <2>2. Changed(disk, i).here = disk[m].here /\ Changed(disk, i).text = i
        BY <1>1, <2>1 DEF Message
    <2>3. QED
        BY <1>2, <1>3, <2>1, <2>2 DEF Saves, Editable, Shows, Authored
<1>4. CASE Feed[i].kind = "delete"
    <2>1. Finds(disk, i) = Removable(disk, i) /\ Changed(disk, i) = Tombstone
        BY <1>4 DEF Finds, Changed
    <2>2. Tombstone.here /\ Tombstone.deleted
        BY DEF Tombstone, Absent
    <2>3. QED
        BY <1>2, <1>4, <2>1, <2>2 DEF Saves, Removable, Shows, Authored
<1>5. QED
    BY <1>1, <1>3, <1>4

\* What waits when the first piece of work is over.
LEMMA ReleaseLeaves ==
    ASSUME TypeOK, NEW t \in Tab, chain[t] # <<>>, NEW more \in Seq(WorkType), Release(t, more)
    PROVE  /\ \A u \in Tab : u # t => chain'[u] = chain[u]
           /\ ToSet(chain'[t]) \subseteq ToSet(chain[t]) \cup ToSet(more)
           /\ ToSet(chain[t]) \subseteq {chain[t][1]} \cup ToSet(chain'[t])
           /\ ToSet(more) \subseteq ToSet(chain'[t])
<1>1. PICK c : c = chain[t]
    OBVIOUS
<1>2. PICK rest \in Seq(WorkType) : rest = Tail(c)
    BY <1>1, ChainFacts, HeadTailProperties
<1>3. chain'[t] = rest \o more /\ \A u \in Tab : u # t => chain'[u] = chain[u]
    BY <1>1, <1>2 DEF Release, TypeOK
<1>4. ToSet(rest \o more) = ToSet(rest) \cup ToSet(more)
    BY ElementsOf
<1>5. ToSet(c) = {c[1]} \cup ToSet(rest)
    BY <1>1, <1>2, ChainFacts, ElementsOf
<1>6. QED
    BY <1>1, <1>3, <1>4, <1>5
\* What is parked stays in the buffer, or was its oldest.
LEMMA PushedKeeps ==
    ASSUME NEW s \in Seq(Frame), NEW i \in Frame
    PROVE  /\ ToSet(Pushed(s, i)) \subseteq ToSet(s) \cup {i}
           /\ ToSet(s) \cup {i} \subseteq ToSet(Pushed(s, i)) \cup Shifted(s)
<1>1. CASE Len(s) >= MaxParked
    <2>1. s # <<>>
        BY <1>1, ConstantsAssumption, EmptySeq
    <2>2. PICK r \in Seq(Frame) : r = Tail(s)
        BY <2>1, HeadTailProperties
    <2>3. ToSet(s) = {Head(s)} \cup ToSet(r)
        BY <2>1, <2>2, ElementsOf
    <2>4. ToSet(Append(r, i)) = ToSet(r) \cup {i}
        BY ElementsOf
    <2>5. Pushed(s, i) = Append(r, i) /\ Shifted(s) = {Head(s)}
        BY <1>1, <2>2 DEF Pushed, Shifted
    <2>6. QED
        BY <2>3, <2>4, <2>5
<1>2. CASE ~(Len(s) >= MaxParked)
    <2>1. ToSet(Append(s, i)) = ToSet(s) \cup {i}
        BY ElementsOf
    <2>2. Pushed(s, i) = Append(s, i)
        BY <1>2 DEF Pushed
    <2>3. QED
        BY <2>1, <2>2
<1>3. QED
    BY <1>1, <1>2

\* The handler of a message that goes on has taken what is left.
LEMMA GoOnLeaves ==
    ASSUME TypeOK, NEW t \in Tab, chain[t] # <<>>, NEW w \in WorkType \ {Tick},
           w = chain[t][1], Feed[w.for].kind = "message", w.for \notin Own,
           NEW left \in Seq(Frame), ToSet(left) \subseteq Changes(Feed[w.for].of),
           GoOn(t, w, left)
    PROVE  /\ \A u \in Tab : u # t => chain'[u] = chain[u]
           /\ \A x \in ToSet(chain'[t]) : x \in ToSet(chain[t]) \/ Proper(x)
           /\ ToSet(chain[t]) \subseteq {w} \cup ToSet(chain'[t])
           /\ \A i \in ToSet(left) : \E x \in ToSet(chain'[t]) : i \in Taken(x)
<1>1. CASE left = <<>>
    <2>1. PICK none \in Seq(WorkType) : none = <<>>
        BY EmptySeq
    <2>2. ToSet(none) = {} /\ ToSet(left) = {}
        BY <1>1, <2>1, ElementsOf
    <2>3. Release(t, none)
        BY <1>1, <2>1 DEF GoOn
    <2>4. QED
        BY <2>2, <2>3, ReleaseLeaves
<1>2. CASE left # <<>>
    <2>1. PICK v : v = [w EXCEPT !.do = Head(left), !.left = Tail(left)]
        OBVIOUS
    <2>2. v \in WorkType
        BY <1>2, <2>1, WorkTypes
    <2>3. v.for = w.for /\ v.do = Head(left) /\ v.left = Tail(left)
        <3>1. w \in [do : Frame, left : Seq(Frame), for : Frame, on : BOOLEAN]
            BY DEF WorkType
        <3>2. QED
            BY <2>1, <3>1
    <2>4. ToSet(left) = {v.do} \cup ToSet(v.left)
        BY <1>2, <2>3, ElementsOf
    <2>5. v.do # v.for
        BY <2>3, <2>4 DEF Changes, Mutations
    <2>6. Taken(v) = ToSet(left)
        BY <2>4, <2>5 DEF Taken
    <2>7. Proper(v)
        BY <2>3, <2>6 DEF Proper
    <2>8. PICK more \in Seq(WorkType) : more = <<v>>
        <3>1. <<v>> \in Seq(WorkType)
            BY <2>2
        <3>2. QED
            BY <3>1
    <2>9. ToSet(more) = {v}
        BY <2>8 DEF ToSet
    <2>10. Release(t, more)
        BY <1>2, <2>1, <2>8 DEF GoOn
    <2>11. QED
        BY <2>6, <2>7, <2>9, <2>10, ReleaseLeaves, ZenonT(60)
<1>3. QED
    BY <1>1, <1>2

\* A piece of work that is over, and leaves none.
LEMMA EndLeaves ==
    ASSUME TypeOK, NEW t \in Tab, chain[t] # <<>>, Release(t, <<>>)
    PROVE  /\ \A u \in Tab : u # t => chain'[u] = chain[u]
           /\ ToSet(chain'[t]) \subseteq ToSet(chain[t])
           /\ ToSet(chain[t]) \subseteq {chain[t][1]} \cup ToSet(chain'[t])
<1>1. PICK none \in Seq(WorkType) : none = <<>>
    BY EmptySeq
<1>2. ToSet(none) = {}
    BY <1>1, ElementsOf
<1>3. Release(t, none)
    BY <1>1
<1>4. QED
    BY <1>2, <1>3, ReleaseLeaves

\* The piece of work that is saved.
LEMMA SaveFacts ==
    ASSUME TranscriptInv, Orderly, NEW t \in Tab, Save(t)
    PROVE  \E w \in WorkType \ {Tick} :
            /\ chain[t] # <<>> /\ w = chain[t][1] /\ w \in ToSet(chain[t]) /\ Proper(w)
            /\ w.do \in Frame /\ w.for \in Frame /\ w.left \in Seq(Frame)
            /\ hold[t] = disk /\ disk' = IF Saves(disk, w.do) THEN Applied(disk, w.do) ELSE disk
            /\ DrainLanded(w, disk, burned)
<1>1. TypeOK /\ Locked /\ DrainsLanded
    BY DEF TranscriptInv
<1>2. chain[t] # <<>> /\ chain[t][1] \in WorkType \ {Tick} /\ 1 \in DOMAIN chain[t]
    BY <1>1, ChainFacts DEF Save
<1>3. chain[t][1] \in ToSet(chain[t])
    BY <1>2 DEF ToSet
<1>4. hold[t] = disk
    BY <1>1 DEF Save, Locked
<1>5. Proper(chain[t][1]) /\ DrainLanded(chain[t][1], disk, burned)
    BY <1>1, <1>2, <1>3 DEF Orderly, DrainsLanded
<1>6. disk' = LET w == chain[t][1] IN IF Saves(disk, w.do) THEN Applied(disk, w.do) ELSE disk
    BY <1>4 DEF Save
<1>7. QED
    BY <1>2, <1>3, <1>4, <1>5, <1>6, WorkTypes

\* What the handler of a message takes out of the buffer, and what it leaves.
LEMMA DrainFacts ==
    ASSUME TypeOK, Orderly, NEW t \in Tab, NEW m,
           NEW left \in Picks(parked[t], Ready(t, m)),
           NEW rest \in Picks(parked[t], DOMAIN parked[t] \ Ready(t, m))
    PROVE  /\ left \in Seq(Frame) /\ rest \in Seq(Frame) /\ ToSet(left) \subseteq Changes(m)
           /\ ToSet(parked[t]) = ToSet(left) \cup ToSet(rest)
           /\ \A i \in ToSet(rest) : Feed[i].of # m
<1>1. PICK s \in Seq(Frame) : s = parked[t]
    BY DEF TypeOK
<1>2. PICK I \in SUBSET DOMAIN s : I = Ready(t, m)
    BY <1>1 DEF Ready
<1>3. PICK J \in SUBSET DOMAIN s : J = DOMAIN s \ I
    OBVIOUS
<1>4. left \in Picks(s, I) /\ rest \in Picks(s, J)
    BY <1>1, <1>2, <1>3
<1>5. left \in Seq(Frame) /\ rest \in Seq(Frame)
    BY <1>4, PicksTypes
<1>6. ToSet(left) = {s[k] : k \in I} /\ ToSet(rest) = {s[k] : k \in J}
    BY <1>4, PicksAll
<1>7. \A k \in DOMAIN s : k \in I <=> Feed[s[k]].of = m
    BY <1>1, <1>2 DEF Ready
<1>8. ToSet(s) = {s[k] : k \in DOMAIN s} /\ ToSet(s) \subseteq Frame
    BY ElementsOf DEF ToSet
<1>9. \A i \in ToSet(s) : Feed[i].kind \in Mutations
    BY <1>1 DEF Orderly
<1>10. QED
    BY <1>1, <1>3, <1>5, <1>6, <1>7, <1>8, <1>9 DEF Changes
\* Every step keeps what is queued and what is parked in order.
LEMMA OrderlyNext == TranscriptInv /\ Orderly /\ [Next]_vars => Orderly'
<1> SUFFICES ASSUME TranscriptInv, Orderly, [Next]_vars PROVE Orderly'
    OBVIOUS
<1>1. TypeOK
    BY DEF TranscriptInv
<1>2. posted' \cap Own = {}
    <2>1. \/ posted' = posted \/ Post
        BY Zenon DEF Next, vars, relayVars, Connect, FlushRead, FlushPush, Attach, Drop, Arrive,
               Do, StartTick, Load, Save, SaveTick, Fail, CloseTab
    <2>2. QED
        BY <2>1 DEF Orderly, Post
<1>3. ASSUME \A t \in Tab : /\ \A w \in ToSet(chain'[t]) : w \in ToSet(chain[t]) \/ Proper(w)
                            /\ \A i \in ToSet(parked'[t]) :
                                 i \in ToSet(parked[t]) \/ Feed[i].kind \in Mutations
      PROVE  Orderly'
    BY <1>2, <1>3 DEF Orderly, Proper, Taken
<1>4. CASE UNCHANGED <<chain, parked>>
    BY <1>3, <1>4
<1>5. ASSUME NEW t \in Tab, NEW w \in WorkType, w.do = w.for,
             chain' = [chain EXCEPT ![t] = Append(@, w)], UNCHANGED parked
      PROVE  Orderly'
    <2>1. ToSet(Append(chain[t], w)) = ToSet(chain[t]) \cup {w}
        BY <1>1, ChainFacts, ElementsOf
    <2>2. chain'[t] = Append(chain[t], w) /\ \A u \in Tab : u # t => chain'[u] = chain[u]
        BY <1>1, <1>5 DEF TypeOK
    <2>3. Proper(w)
        BY <1>5 DEF Proper
    <2>4. QED
        BY <1>3, <1>5, <2>1, <2>2, <2>3
<1>6. ASSUME NEW t \in Tab, Arrive(t) PROVE Orderly'
    <2>1. Head(wire[t]) \in Frame
        BY <1>1, <1>6, HeadTailProperties DEF Arrive, TypeOK
    <2>2. Work(Head(wire[t])) \in WorkType /\ Work(Head(wire[t])).do = Work(Head(wire[t])).for
        BY <2>1, WorkTypes DEF Work
    <2>3. QED
        BY <1>5, <1>6, <2>2 DEF Arrive
<1>7. ASSUME NEW t \in Tab, NEW i \in Frame, Do(t, i) PROVE Orderly'
    <2>1. Work(i) \in WorkType /\ Work(i).do = Work(i).for
        BY WorkTypes DEF Work
    <2>2. QED
        BY <1>5, <1>7, <2>1 DEF Do
<1>8. ASSUME NEW t \in Tab, StartTick(t) PROVE Orderly'
    <2>1. Tick \in WorkType /\ Tick.do = Tick.for
        BY WorkTypes DEF Tick, Work
    <2>2. QED
        BY <1>5, <1>8, <2>1 DEF StartTick
<1>9. ASSUME NEW t \in Tab, Drop(t) PROVE Orderly'
    <2>1. ASSUME NEW w \in ToSet(chain'[t]) PROVE Proper(w)
        <3>1. chain'[t] = [k \in DOMAIN chain[t] |-> [chain[t][k] EXCEPT !.on = FALSE]]
            BY <1>1, <1>9 DEF Drop, TypeOK
        <3>2. PICK k \in DOMAIN chain[t] : w = [chain[t][k] EXCEPT !.on = FALSE]
            BY <2>1, <3>1 DEF ToSet
        <3>3. PICK v \in WorkType : v = chain[t][k] /\ v \in ToSet(chain[t])
            BY <1>1, ChainFacts DEF ToSet
        <3>4. w.do = v.do /\ w.for = v.for /\ w.left = v.left
            BY <3>2, <3>3, OffFacts DEF WorkType, Tick, Work
        <3>5. QED
            BY <3>3, <3>4 DEF Orderly, Proper, Taken
    <2>2. \A u \in Tab : u # t => chain'[u] = chain[u]
        BY <1>1, <1>9 DEF Drop, TypeOK
    <2>3. QED
        BY <1>3, <1>9, <2>1, <2>2 DEF Drop
<1>10. ASSUME NEW t \in Tab, chain[t] # <<>>, Release(t, <<>>), UNCHANGED parked PROVE Orderly'
    <2>1. \A u \in Tab : ToSet(chain'[u]) \subseteq ToSet(chain[u])
        BY <1>1, <1>10, EndLeaves
    <2>2. QED
        BY <1>3, <1>10, <2>1
<1>11. ASSUME NEW t \in Tab, SaveTick(t) \/ Fail(t) PROVE Orderly'
    BY <1>10, <1>11 DEF SaveTick, Fail
<1>12. ASSUME NEW t \in Tab, CloseTab(t) PROVE Orderly'
    <2>1. ASSUME NEW u \in Tab
          PROVE  /\ chain'[u] = chain[u] \/ chain'[u] = <<>>
                 /\ parked'[u] = parked[u] \/ parked'[u] = <<>>
        BY <1>1, <1>12 DEF CloseTab, TypeOK
    <2>2. ToSet(<<>>) = {}
        BY DEF ToSet
    <2>3. QED
        BY <1>3, <2>1, <2>2
<1>13. ASSUME NEW t \in Tab, Save(t) PROVE Orderly'
    <2>1. PICK w \in WorkType \ {Tick} :
            /\ chain[t] # <<>> /\ w = chain[t][1] /\ Proper(w) /\ w \in ToSet(chain[t])
            /\ w.do \in Frame /\ w.for \in Frame /\ w.left \in Seq(Frame)
            /\ hold[t] = disk
        BY <1>13, SaveFacts
    <2>2. CASE Release(t, <<>>) /\ UNCHANGED parked
        BY <1>10, <2>1, <2>2
    <2>3. CASE w.for \notin Own /\ Feed[w.for].kind # "message" /\ Settle(t, w)
        <3>1. w.do = w.for /\ Feed[w.do].kind \in Mutations
            BY <2>1, <2>3, FrameFacts DEF Proper, Mutations
        <3>2. parked' = parked \/ parked' = [parked EXCEPT ![t] = Pushed(parked[t], w.do)]
            BY <2>3 DEF Settle
        <3>3. ASSUME NEW u \in Tab, NEW i \in ToSet(parked'[u])
              PROVE  i \in ToSet(parked[u]) \/ Feed[i].kind \in Mutations
            <4>1. parked[t] \in Seq(Frame)
                BY <1>1 DEF TypeOK
            <4>2. parked'[u] = parked[u] \/ (u = t /\ parked'[u] = Pushed(parked[t], w.do))
                BY <1>1, <3>2 DEF TypeOK
            <4>3. QED
                BY <2>1, <3>1, <3>3, <4>1, <4>2, PushedKeeps
        <3>4. \A u \in Tab : ToSet(chain'[u]) \subseteq ToSet(chain[u])
            BY <1>1, <2>1, <2>3, EndLeaves DEF Settle
        <3>5. QED
            BY <1>3, <3>3, <3>4
    <2>4. ASSUME w.for \notin Own, Feed[w.for].kind = "message", NEW left \in Seq(Frame),
                 ToSet(left) \subseteq Changes(Feed[w.for].of), GoOn(t, w, left),
                 \A u \in Tab : ToSet(parked'[u]) \subseteq ToSet(parked[u])
          PROVE  Orderly'
        <3>1. \A u \in Tab : \A x \in ToSet(chain'[u]) : x \in ToSet(chain[u]) \/ Proper(x)
            BY <1>1, <2>1, <2>4, GoOnLeaves
        <3>2. QED
            BY <1>3, <2>4, <3>1
    <2>5. ASSUME w.for \notin Own, Feed[w.for].kind = "message", NEW m, m = Feed[w.for].of,
                 NEW left \in Picks(parked[t], Ready(t, m)), GoOn(t, w, left),
                 NEW rest \in Picks(parked[t], DOMAIN parked[t] \ Ready(t, m)),
                 parked' = [parked EXCEPT ![t] = rest]
          PROVE  Orderly'
        <3>1. /\ left \in Seq(Frame) /\ ToSet(left) \subseteq Changes(Feed[w.for].of)
              /\ ToSet(rest) \subseteq ToSet(parked[t])
            <4>1. /\ left \in Seq(Frame) /\ ToSet(left) \subseteq Changes(m)
                  /\ ToSet(parked[t]) = ToSet(left) \cup ToSet(rest)
                BY <1>1, DrainFacts, ZenonT(60)
            <4>2. QED
                BY <2>5, <4>1
        <3>2. \A u \in Tab : ToSet(parked'[u]) \subseteq ToSet(parked[u])
            BY <1>1, <2>5, <3>1 DEF TypeOK
        <3>3. QED
            BY <2>4, <2>5, <3>1, <3>2
    <2>6. CASE /\ w.for \notin Own /\ Feed[w.for].kind = "message" /\ w.do # w.for
               /\ GoOn(t, w, w.left) /\ UNCHANGED parked
        <3>1. ToSet(w.left) \subseteq Changes(Feed[w.for].of)
            BY <2>1, <2>6 DEF Proper, Taken
        <3>2. QED
            BY <2>1, <2>4, <2>6, <3>1
    <2>7. QED
        BY <1>13, <2>1, <2>2, <2>3, <2>5, <2>6 DEF Save
<1>14. QED
    BY <1>4, <1>6, <1>7, <1>8, <1>9, <1>11, <1>12, <1>13, Zenon
       DEF Next, vars, relayVars, tabVars, Post, Connect, FlushRead, FlushPush, Attach, Load
\* What is given up or has burned stays so.
LEMMA SpiltStays ==
    ASSUME TranscriptInv, [Next]_vars
    PROVE  spilt \subseteq spilt' /\ burned \subseteq burned'
<1>1. burned \subseteq burned'
    BY StepGrows DEF Grows
<1>2. spilt \subseteq spilt'
    BY Zenon DEF Next, vars, Post, Connect, FlushRead, FlushPush, Attach, Drop, Arrive, Do, StartTick,
           Load, Save, Settle, GoOn, SaveTick, Fail, CloseTab
<1>3. QED
    BY <1>1, <1>2

\* Every step leaves a change of a message shown or where it can still be shown from.
LEMMA FatedNext ==
    ASSUME OneTab, TranscriptInv, Orderly, [Next]_vars, NEW i \in posted, Authored(i), Fated(i)
    PROVE  Fated(i)'
<1> DEFINE m == Feed[i].of
<1>1. /\ TypeOK /\ Tombs(disk) /\ i \in Frame /\ m \in Msg /\ i \notin Own
      /\ Feed[i].kind \in Mutations /\ Feed[i].kind # "message"
    BY FrameFacts DEF TranscriptInv, TypeOK, Orderly, Authored, Mutations
<1>2. spilt \subseteq spilt' /\ burned \subseteq burned'
    BY SpiltStays
<1>3. Shows(disk, i) => Shows(disk', i) \/ m \in burned'
    BY <1>1, ShowsStays
<1>4. ASSUME i \in queue => i \in queue' \/ Fated(i)',
             \A t \in Tab : ~disk[m].here /\ i \in ToSet(parked[t]) =>
                (~disk'[m].here /\ i \in ToSet(parked'[t])) \/ Fated(i)',
             \A t \in Tab : \A w \in ToSet(chain[t]) : i \in Taken(w) =>
                (\E x \in ToSet(chain'[t]) : i \in Taken(x)) \/ Fated(i)'
      PROVE  Fated(i)'
    BY <1>2, <1>3, <1>4 DEF Fated
<1>5. CASE UNCHANGED <<disk, chain, parked>> /\ queue \subseteq queue'
    BY <1>4, <1>5 DEF Taken
<1>6. ASSUME NEW t \in Tab, NEW w \in WorkType, chain' = [chain EXCEPT ![t] = Append(@, w)],
             UNCHANGED <<disk, parked, queue>>
      PROVE  Fated(i)'
    <2>1. ToSet(Append(chain[t], w)) = ToSet(chain[t]) \cup {w}
        BY <1>1, ChainFacts, ElementsOf
    <2>2. chain'[t] = Append(chain[t], w) /\ \A u \in Tab : u # t => chain'[u] = chain[u]
        BY <1>1, <1>6 DEF TypeOK
    <2>3. QED
        BY <1>4, <1>6, <2>1, <2>2
<1>7. ASSUME NEW t \in Tab, Arrive(t) PROVE Fated(i)'
    <2>1. Head(wire[t]) \in Frame
        BY <1>1, <1>7, HeadTailProperties DEF Arrive, TypeOK
    <2>2. QED
        BY <1>6, <1>7, <2>1, WorkTypes DEF Arrive, relayVars
<1>8. ASSUME NEW t \in Tab, NEW j \in Frame, Do(t, j) PROVE Fated(i)'
    BY <1>6, <1>8, WorkTypes DEF Do, relayVars
<1>9. ASSUME NEW t \in Tab, StartTick(t) PROVE Fated(i)'
    BY <1>6, <1>9, WorkTypes DEF StartTick, relayVars
<1>10. ASSUME NEW t \in Tab, Drop(t) PROVE Fated(i)'
    <2>1. ASSUME NEW w \in ToSet(chain[t]), i \in Taken(w)
          PROVE  \E x \in ToSet(chain'[t]) : i \in Taken(x)
        <3>1. PICK k \in DOMAIN chain[t] : w = chain[t][k]
            BY <2>1 DEF ToSet
        <3>2. chain'[t] = [j \in DOMAIN chain[t] |-> [chain[t][j] EXCEPT !.on = FALSE]]
            BY <1>1, <1>10 DEF Drop, TypeOK
        <3>3. w \in WorkType
            BY <1>1, <3>1, ChainFacts
        <3>4. PICK x : x = [w EXCEPT !.on = FALSE]
            OBVIOUS
        <3>5. x \in ToSet(chain'[t])
            BY <3>1, <3>2, <3>4 DEF ToSet
        <3>6. x.do = w.do /\ x.for = w.for /\ x.left = w.left
            BY <3>3, <3>4 DEF WorkType, Tick, Work
        <3>7. QED
            BY <2>1, <3>5, <3>6 DEF Taken
    <2>2. \A u \in Tab : u # t => chain'[u] = chain[u]
        BY <1>1, <1>10 DEF Drop, TypeOK
    <2>3. QED
        BY <1>4, <1>10, <2>1, <2>2 DEF Drop
<1>11. ASSUME NEW t \in Tab, chain[t] # <<>>, Release(t, <<>>), UNCHANGED <<parked, queue>>,
              ~disk[m].here => ~disk'[m].here, Taken(chain[t][1]) \subseteq spilt'
       PROVE  Fated(i)'
    <2>1. /\ \A u \in Tab : u # t => chain'[u] = chain[u]
          /\ ToSet(chain[t]) \subseteq {chain[t][1]} \cup ToSet(chain'[t])
        BY <1>1, <1>11, EndLeaves
    <2>2. \A w \in ToSet(chain[t]) : i \in Taken(w) => w \in ToSet(chain'[t]) \/ Fated(i)'
        BY <1>11, <2>1 DEF Fated
    <2>3. QED
        BY <1>4, <1>11, <2>1, <2>2
<1>12. ASSUME NEW t \in Tab, Fail(t) PROVE Fated(i)'
    BY <1>11, <1>12 DEF Fail, relayVars
<1>13. ASSUME NEW t \in Tab, SaveTick(t) PROVE Fated(i)'
    <2>1. Taken(chain[t][1]) = {}
        BY <1>13 DEF SaveTick, Taken, Tick, Work
    <2>2. ASSUME ~disk[m].here, disk'[m].here PROVE FALSE
        <3>1. PICK u \in Tab : Save(u)
            BY <1>1, <2>2, NewIsAppended
        <3>2. u = t
            BY DEF OneTab
        <3>3. QED
            BY <1>13, <3>1, <3>2 DEF Save, SaveTick
    <2>3. QED
        BY <1>11, <1>13, <2>1, <2>2 DEF SaveTick, relayVars
<1>14. ASSUME NEW t \in Tab, CloseTab(t) PROVE Fated(i)'
    <2>1. ToSet(parked[t]) \subseteq spilt' /\ \A w \in ToSet(chain[t]) : Taken(w) \subseteq spilt'
        BY <1>14 DEF CloseTab
    <2>2. \A u \in Tab : u = t
        BY DEF OneTab
    <2>3. QED
        BY <1>4, <1>14, <2>1, <2>2 DEF CloseTab, Fated
<1>15. ASSUME NEW t \in Tab, Save(t) PROVE Fated(i)'
    <2>1. PICK w \in WorkType \ {Tick} :
            /\ chain[t] # <<>> /\ w = chain[t][1] /\ w \in ToSet(chain[t]) /\ Proper(w)
            /\ w.do \in Frame /\ w.for \in Frame /\ w.left \in Seq(Frame)
            /\ hold[t] = disk /\ disk' = IF Saves(disk, w.do) THEN Applied(disk, w.do) ELSE disk
            /\ DrainLanded(w, disk, burned)
        BY <1>15, SaveFacts
    <2>2. ASSUME ~disk[m].here, disk'[m].here
          PROVE  w.for \notin Own /\ w.do = w.for /\ Feed[w.for].kind = "message" /\ Feed[w.for].of = m
        <3>1. PICK u \in Tab : /\ Feed[chain[u][1].do].kind = "message"
                               /\ Feed[chain[u][1].do].of = m
            BY <1>1, <2>2, NewIsAppended
        <3>2. Feed[w.do].kind = "message" /\ Feed[w.do].of = m
            BY <2>1, <3>1 DEF OneTab
        <3>3. w.do = w.for
            BY <2>1, <3>2 DEF Proper, Taken, Changes, Mutations
        <3>4. Feed[w.do].by = Feed[i].by
            BY <2>1, <3>2, ConstantsAssumption DEF Authored
        <3>5. w.do \notin Own
            BY <1>1, <2>1, <3>4, ConstantsAssumption
        <3>6. QED
            BY <3>2, <3>3, <3>5
    <2>3. Feed[w.for].kind # "message" \/ w.for \in Own => w.do = w.for /\ Taken(w) = {}
        BY <2>1 DEF Proper, Taken
    <2>4. CASE w.for \in Own /\ Release(t, <<>>) /\ UNCHANGED <<queue, parked, spilt>>
        BY <1>11, <2>1, <2>2, <2>3, <2>4
    <2>5. CASE w.for \notin Own /\ Feed[w.for].kind # "message" /\ Settle(t, w)
        <3>1. ~disk[m].here => ~disk'[m].here
            BY <2>2, <2>5
        <3>2. PICK s \in Seq(Frame) : s = parked[t]
            BY <1>1 DEF TypeOK
        <3>3. \/ parked' = parked
              \/ ~Finds(disk, w.do) /\ parked' = [parked EXCEPT ![t] = Pushed(s, w.do)]
                 /\ Shifted(s) \subseteq spilt'
            BY <2>1, <2>5, <3>2 DEF Settle
        <3>4. Finds(disk, w.do) \/ (parked'[t] = Pushed(s, w.do) /\ Shifted(s) \subseteq spilt')
            BY <1>1, <2>1, <2>5, <3>2 DEF Settle, TypeOK
        <3>5. ASSUME i \in ToSet(parked[t]) PROVE i \in ToSet(parked'[t]) \/ i \in spilt'
            BY <1>1, <2>1, <3>2, <3>3, <3>4, <3>5, PushedKeeps
        <3>6. ASSUME i \in queue, i \notin queue' PROVE Fated(i)'
            <4>1. i = w.do
                BY <2>3, <2>5, <3>6 DEF Settle, Acknowledge
            <4>2. CASE Finds(disk, i)
                BY <1>1, <2>1, <4>1, <4>2, AppliedShows DEF Fated
            <4>3. CASE ~Finds(disk, i) /\ Shows(disk, i)
                BY <1>3, <4>3 DEF Fated
            <4>4. CASE ~Finds(disk, i) /\ ~disk[m].here
                <5>1. i \in ToSet(parked'[t]) \/ i \in spilt'
                    BY <2>1, <3>4, <4>1, <4>4, PushedKeeps
                <5>2. QED
                    BY <3>1, <4>4, <5>1 DEF Fated
            <4>5. QED
                BY <1>1, <4>2, <4>3, <4>4, AppliedShows
        <3>7. \A u \in Tab : u = t
            BY DEF OneTab
        <3>8. ToSet(chain[t]) \subseteq {w} \cup ToSet(chain'[t])
            BY <1>1, <2>1, <2>5, EndLeaves DEF Settle
        <3>9. i \in spilt' => Fated(i)'
            BY DEF Fated
        <3>10. QED
            BY <1>4, <2>3, <2>5, <3>1, <3>5, <3>6, <3>7, <3>8, <3>9
    <2>6. ASSUME w.for \notin Own, Feed[w.for].kind = "message", NEW left \in Seq(Frame),
                 ToSet(left) \subseteq Changes(Feed[w.for].of), GoOn(t, w, left),
                 i \in Taken(w) => i \in ToSet(left) \/ Fated(i)',
                 ~disk[m].here /\ i \in ToSet(parked[t]) =>
                    i \in ToSet(left) \/ (~disk'[m].here /\ i \in ToSet(parked'[t]))
          PROVE  Fated(i)'
        <3>1. \A u \in Tab : u = t
            BY DEF OneTab
        <3>2. /\ ToSet(chain[t]) \subseteq {w} \cup ToSet(chain'[t])
              /\ \A j \in ToSet(left) : \E x \in ToSet(chain'[t]) : j \in Taken(x)
            <4>1. ToSet(chain[t]) \subseteq {w} \cup ToSet(chain'[t])
                BY <1>1, <2>1, <2>6, GoOnLeaves
            <4>2. \A j \in ToSet(left) : \E x \in ToSet(chain'[t]) : j \in Taken(x)
                BY <1>1, <2>1, <2>6, GoOnLeaves
            <4>3. QED
                BY <4>1, <4>2
        <3>3. i \in queue => i \in queue'
            BY <1>1, <2>6 DEF GoOn, Acknowledge
        <3>4. i \in ToSet(left) => Fated(i)'
            BY <3>2 DEF Fated
        <3>5. QED
            BY <1>4, <2>6, <3>1, <3>2, <3>3, <3>4
    <2>7. ASSUME w.for \notin Own, Feed[w.for].kind = "message", w.do = w.for,
                 NEW n, n = Feed[w.for].of,
                 NEW left \in Picks(parked[t], Ready(t, n)), GoOn(t, w, left),
                 NEW rest \in Picks(parked[t], DOMAIN parked[t] \ Ready(t, n)),
                 parked' = [parked EXCEPT ![t] = rest]
          PROVE  Fated(i)'
        <3>1. /\ left \in Seq(Frame) /\ ToSet(left) \subseteq Changes(n)
              /\ ToSet(parked[t]) = ToSet(left) \cup ToSet(rest)
              /\ \A j \in ToSet(rest) : Feed[j].of # n
            BY <1>1, DrainFacts, ZenonT(60)
        <3>2. parked'[t] = rest
            BY <1>1, <2>7 DEF TypeOK
        <3>3. Taken(w) = {}
            BY <2>7 DEF Taken
        <3>4. i \in ToSet(rest) /\ ~disk[m].here => ~disk'[m].here
            BY <2>2, <2>7, <3>1
        <3>5. QED
            BY <2>6, <2>7, <3>1, <3>2, <3>3, <3>4
    <2>8. CASE /\ w.for \notin Own /\ Feed[w.for].kind = "message" /\ w.do # w.for
               /\ GoOn(t, w, w.left) /\ UNCHANGED parked
        <3>1. Taken(w) = {w.do} \cup ToSet(w.left)
            BY <2>8 DEF Taken
        <3>2. Taken(w) \subseteq Changes(Feed[w.for].of)
            BY <2>1, <2>8 DEF Proper
        <3>3. ASSUME i = w.do PROVE Fated(i)'
            <4>1. CASE Finds(disk, i)
                BY <1>1, <2>1, <3>3, <4>1, AppliedShows DEF Fated
            <4>2. CASE Shows(disk, i)
                BY <1>3, <4>2 DEF Fated
            <4>3. CASE ~disk[m].here
                <5>1. m = Feed[w.for].of
                    BY <3>1, <3>2, <3>3 DEF Changes
                <5>2. m \in burned
                    BY <2>1, <2>8, <4>3, <5>1 DEF DrainLanded, Landed
                <5>3. QED
                    BY <1>2, <5>2 DEF Fated
            <4>4. QED
                BY <1>1, <4>1, <4>2, <4>3, AppliedShows
        <3>4. ~disk[m].here => ~disk'[m].here
            BY <2>2, <2>8
        <3>5. QED
            BY <2>1, <2>6, <2>8, <3>1, <3>2, <3>3, <3>4
    <2>9. QED
        BY <1>15, <2>1, <2>4, <2>5, <2>7, <2>8 DEF Save
<1>16. QED
    BY <1>5, <1>7, <1>8, <1>9, <1>10, <1>12, <1>13, <1>14, <1>15
       DEF Next, vars, relayVars, tabVars, Post, Connect, FlushRead, FlushPush, Attach, Load

\* With one tab, once all is quiet, a message that is here shows every edit and every
\* delete of its author that was not given up, in whatever order they and the message
\* came, and wherever a handler, a socket or a tab was lost.
THEOREM EarlyChangesLand == ASSUME OneTab PROVE Spec => []ParkedLands
<1> DEFINE Inv == TranscriptInv /\ Orderly /\ AllFated
<1>1. Init => Inv
    <2>1. ToSet(<<>>) = {}
        BY DEF ToSet
    <2>2. Init => Orderly /\ AllFated
        BY <2>1 DEF Init, Orderly, AllFated
    <2>3. QED
        BY <2>2, TranscriptInvInit
<1>2. Inv /\ [Next]_vars => Inv'
    <2> SUFFICES ASSUME Inv, [Next]_vars PROVE Inv'
        OBVIOUS
    <2>1. TranscriptInv' /\ Orderly'
        BY TranscriptInvNext, OrderlyNext
    <2>2. ASSUME NEW i \in posted', Authored(i) PROVE Fated(i)'
        <3>1. CASE i \in posted
            BY <2>2, <3>1, FatedNext DEF AllFated
        <3>2. CASE i \notin posted
            <4>1. Post
                BY <2>2, <3>2, Zenon
                   DEF Next, vars, relayVars, Connect, FlushRead, FlushPush, Attach, Drop, Arrive,
                       Do, StartTick, Load, Save, SaveTick, Fail, CloseTab
            <4>2. i \in queue'
                BY <2>2, <3>2, <4>1 DEF Post
            <4>3. QED
                BY <4>2, SMTT(30) DEF Fated
        <3>3. QED
            BY <3>1, <3>2
    <2>3. AllFated'
        BY <2>2 DEF AllFated, Authored
    <2>4. QED
        BY <2>1, <2>3
<1>3. Inv => ParkedLands
    <2> SUFFICES ASSUME Inv, Quiet, NEW i \in posted \ spilt, Authored(i),
                        disk[Feed[i].of].here, Feed[i].of \notin burned
                 PROVE  \/ disk[Feed[i].of].deleted
                        \/ Feed[i].kind = "edit" /\ Feed[disk[Feed[i].of].text].kind = "edit"
        BY DEF ParkedLands, Authored
    <2>1. \A t \in Tab : ToSet(chain[t]) = {}
        BY DEF Quiet, ToSet
    <2>2. Shows(disk, i)
        BY <2>1 DEF AllFated, Fated, Quiet
    <2>3. QED
        BY <2>2 DEF Shows
<1>4. QED
    BY <1>1, <1>2, <1>3, PTL DEF Spec
=============================================================================
