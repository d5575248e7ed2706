--------------------------- MODULE KeyringProofs ---------------------------
(* Theorems about Keyring, for any channels, contacts, keys and lanes.      *)
EXTENDS Keyring, TLAPS

-----------------------------------------------------------------------------
(* Types of what the actions build                                         *)

\* The socket is up only while a vault is open.
Typed == TypeOK /\ (up => live # 0)

LEMMA RecType ==
    /\ NoRec \in Rec /\ Fresh \in Rec /\ Keyed \in Rec /\ NotIn \in Srv
    /\ NoData \in Data /\ Dropped \in [alive : BOOLEAN, data : Data]
    /\ Fresh.here /\ ~Fresh.hasKey /\ Keyed.hasKey /\ ~NoRec.hasKey
BY DEF Rec, NoRec, Fresh, Keyed, NotIn, Srv, NoData, Data, Dropped

LEMMA IdleType == /\ Idle \in Task /\ Idle.at = "idle"
BY ChAssumption, RecType DEF Idle, Task, Stages, Kinds, Object

LEMMA StartType ==
    ASSUME live \in Object, NEW kind \in Kinds, NEW at \in Stages, NEW c \in Ch
    PROVE  /\ Start(kind, at, c) \in Task
           /\ Start(kind, at, c).at = at /\ Start(kind, at, c).v = live
           /\ Start(kind, at, c).kind = kind /\ Start(kind, at, c).c = c
BY IdleType DEF Start, Task, Idle

LEMMA SetRec ==
    ASSUME NEW d \in Data, NEW c \in Ch, NEW r \in Rec
    PROVE  /\ [d EXCEPT !.chans[c] = r] \in Data
           /\ [d EXCEPT !.chans[c] = r].chans = [d.chans EXCEPT ![c] = r]
           /\ [d EXCEPT !.chans[c] = r].pins = d.pins
BY DEF Data

LEMMA SetPin ==
    ASSUME NEW d \in Data, NEW p \in Peers, NEW k \in SignKeys
    PROVE  LET e == [d EXCEPT !.pins[p] = IF @ = NoKey THEN k ELSE @]
           IN  /\ e \in Data /\ e.chans = d.chans
               /\ \A x \in Peers : d.pins[x] # NoKey => e.pins[x] = d.pins[x]
BY DEF Data

LEMMA QueueType ==
    ASSUME puts \in Seq(Put), puts # <<>>
    PROVE  /\ Head(puts) \in Put /\ Tail(puts) \in Seq(Put)
           /\ Head(puts) = puts[1] /\ Len(puts) \in Nat \ {0}
           /\ Len(Tail(puts)) = Len(puts) - 1
           /\ \A i \in 1 .. Len(puts) - 1 : Tail(puts)[i] = puts[i + 1]
OBVIOUS

LEMMA FlushType ==
    ASSUME TypeOK, NEW s \in Lane, NEW o \in Object, NEW data \in Data,
           NEW queue \in Seq(Put), Flush(s, o, data, queue)
    PROVE  /\ vault' \in [Object -> [alive : BOOLEAN, data : Data]]
           /\ puts' \in Seq(Put)
           /\ vault'[o].data = data
           /\ \A x \in Object : /\ vault'[x].alive = vault[x].alive
                                /\ x # o => vault'[x] = vault[x]
<1>1. [lane |-> s, blob |-> [good |-> vault[o].alive, data |-> data]] \in Put
  BY DEF TypeOK, Put, Blob
<1> QED  BY <1>1, SMTT(30) DEF Flush, TypeOK

LEMMA SaveType ==
    ASSUME TypeOK, NEW s \in Lane, NEW o \in Object, NEW c \in Ch, NEW r \in Rec,
           NEW queue \in Seq(Put), SaveChannel(s, o, c, r, queue)
    PROVE  /\ vault' \in [Object -> [alive : BOOLEAN, data : Data]]
           /\ puts' \in Seq(Put)
<1>1. vault[o].data \in Data  BY DEF TypeOK
<1> QED  BY <1>1, SetRec, FlushType DEF SaveChannel

LEMMA PinType ==
    ASSUME TypeOK, NEW s \in Lane, NEW o \in Object, NEW p \in Peers,
           NEW k \in SignKeys, NEW queue \in Seq(Put), PinContact(s, o, p, k, queue)
    PROVE  /\ vault' \in [Object -> [alive : BOOLEAN, data : Data]]
           /\ puts' \in Seq(Put)
<1>1. vault[o].data \in Data  BY DEF TypeOK
<1> QED  BY <1>1, SetPin, FlushType DEF PinContact

LEMMA LandedType ==
    ASSUME TypeOK, NEW s \in Lane, Landed(s)
    PROVE  disk' \in Blob /\ Tail(puts) \in Seq(Put) /\ behind' \in BOOLEAN
BY QueueType DEF TypeOK, Landed, Put

LEMMA GotoType ==
    ASSUME TypeOK, NEW s \in Lane, NEW at \in Stages, Goto(s, at)
    PROVE  task' \in [Lane -> Task]
<1>1. task[s] \in Task /\ task \in [Lane -> Task]  BY DEF TypeOK
<1>2. [task[s] EXCEPT !.at = at] \in Task  BY <1>1 DEF Task
<1> QED  BY <1>1, <1>2 DEF Goto

LEMMA FinishType ==
    ASSUME TypeOK, NEW s \in Lane, Finish(s)
    PROVE  task' \in [Lane -> Task]
BY IdleType DEF TypeOK, Finish

LEMMA UnpluggedType ==
    ASSUME TypeOK, NEW s \in Lane
    PROVE  /\ Unplugged(s) \in Task
           /\ Unplugged(s).at = task[s].at /\ Unplugged(s).v = task[s].v
           /\ Unplugged(s).kind = task[s].kind /\ Unplugged(s).c = task[s].c
BY DEF TypeOK, Unplugged, Task

\* What a task record may be updated to.
LEMMA TaskType ==
    ASSUME NEW t \in Task, NEW r \in Rec, NEW b \in BOOLEAN
    PROVE  /\ [t EXCEPT !.flag = b] \in Task
           /\ [t EXCEPT !.flag = b].at = t.at /\ [t EXCEPT !.flag = b].v = t.v
           /\ [t EXCEPT !.copy = r, !.flag = b] \in Task
           /\ [t EXCEPT !.copy = r, !.flag = b].at = t.at
           /\ [t EXCEPT !.copy = r, !.flag = b].v = t.v
BY DEF Task

LEMMA LeftType ==
    ASSUME TypeOK
    PROVE  /\ left.troubles > 0 =>
                [left EXCEPT !.troubles = @ - 1]
                    \in [gestures : Nat, troubles : Nat, fresh : SUBSET Ch]
           /\ left.gestures > 0 =>
                /\ [left EXCEPT !.gestures = @ - 1]
                       \in [gestures : Nat, troubles : Nat, fresh : SUBSET Ch]
                /\ \A c : [left EXCEPT !.gestures = @ - 1, !.fresh = @ \ {c}]
                       \in [gestures : Nat, troubles : Nat, fresh : SUBSET Ch]
<1> DEFINE L == [gestures : Nat, troubles : Nat, fresh : SUBSET Ch]
<1>1. left \in L  BY DEF TypeOK
<1>2. left.troubles > 0 => [left EXCEPT !.troubles = @ - 1] \in L  BY <1>1
<1>3. left.gestures > 0 => [left EXCEPT !.gestures = @ - 1] \in L  BY <1>1
<1>4. ASSUME NEW c, left.gestures > 0
      PROVE  [left EXCEPT !.gestures = @ - 1, !.fresh = @ \ {c}] \in L
  <2>1. left.fresh \ {c} \in SUBSET Ch  BY <1>1
  <2>2. left.gestures - 1 \in Nat  BY <1>1, <1>4
  <2> QED  BY <1>1, <2>1, <2>2
<1> QED  BY <1>2, <1>3, <1>4

LEMMA FetchType ==
    ASSUME TypeOK, NEW o \in Object, Fetch(o)
    PROVE  task' \in [Lane -> Task]
<1>1. [Idle EXCEPT !.kind = "list", !.at = "call", !.v = o] \in Task
  BY IdleType DEF Idle, Task, Stages, Kinds
<1> QED  BY <1>1, IdleType DEF TypeOK, Fetch

LEMMA ChannelType ==
    ASSUME TypeOK, NEW o \in Object, NEW c \in Ch
    PROVE  Channel(o, c) \in Rec
BY DEF TypeOK, Channel, Data

LEMMA MergedType ==
    ASSUME TypeOK, NEW c \in Ch, NEW local \in Rec, NEW remote \in Srv
    PROVE  /\ Merged(c, local, remote) \in Rec
           /\ local.hasKey => Merged(c, local, remote).hasKey
<1>1. Incog(c) \in BOOLEAN  BY DEF Incog
<1>2. DEFINE b == IF local.here THEN local ELSE Fresh
<1>3. b \in Rec /\ (local.hasKey => b.hasKey)  BY RecType DEF Rec
<1>4. Merged(c, local, remote) =
        [b EXCEPT !.incog = Incog(c), !.blocked = remote.blocked,
                  !.request = remote.request]
  BY DEF Merged
<1>5. /\ [b EXCEPT !.incog = Incog(c), !.blocked = remote.blocked,
                   !.request = remote.request] \in Rec
      /\ [b EXCEPT !.incog = Incog(c), !.blocked = remote.blocked,
                   !.request = remote.request].hasKey = b.hasKey
  <2> HIDE DEF b
  <2> QED  BY <1>1, <1>3 DEF Rec, Srv
<1> QED  BY <1>3, <1>4, <1>5

-----------------------------------------------------------------------------
(* Every action keeps the types                                            *)

LEMMA InitTyped == Init => Typed
<1> SUFFICES ASSUME Init PROVE Typed  OBVIOUS
<1>1. \A in, kept \in SUBSET Ch :
        /\ [c \in Ch |-> [NotIn EXCEPT !.member = c \in in]] \in [Ch -> Srv]
        /\ [NoData EXCEPT !.chans = [c \in Ch |->
               IF c \in kept THEN Keyed ELSE NoRec]] \in Data
  <2>1. ASSUME NEW in, NEW kept
        PROVE  [c \in Ch |-> [NotIn EXCEPT !.member = c \in in]] \in [Ch -> Srv]
    <3>1. \A b \in BOOLEAN : [NotIn EXCEPT !.member = b] \in Srv  BY DEF Srv, NotIn
    <3>2. \A c \in Ch : (c \in in) \in BOOLEAN  OBVIOUS
    <3> QED  BY <3>1, <3>2, Zenon
  <2>2. ASSUME NEW in, NEW kept
        PROVE  [NoData EXCEPT !.chans = [c \in Ch |->
                   IF c \in kept THEN Keyed ELSE NoRec]] \in Data
    <3>1. [c \in Ch |-> IF c \in kept THEN Keyed ELSE NoRec] \in [Ch -> Rec]
      BY RecType
    <3> QED  BY <3>1, RecType DEF Data
  <2> QED  BY <2>1, <2>2
<1>2. PICK in \in SUBSET Ch, kept \in SUBSET Ch :
        /\ srv = [c \in Ch |-> [NotIn EXCEPT !.member = c \in in]]
        /\ disk = [good |-> TRUE,
                   data |-> [NoData EXCEPT !.chans = [c \in Ch |->
                                 IF c \in kept THEN Keyed ELSE NoRec]]]
        /\ left = [gestures |-> MaxGestures, troubles |-> MaxTroubles,
                   fresh |-> Ch \ (in \cup kept \cup held)]
  BY DEF Init
<1>3. srv \in [Ch -> Srv] /\ disk \in Blob  BY <1>1, <1>2 DEF Blob
<1>4. left \in [gestures : Nat, troubles : Nat, fresh : SUBSET Ch]
  BY <1>2, BoundAssumption
<1>5. /\ vault \in [Object -> [alive : BOOLEAN, data : Data]]
      /\ task \in [Lane -> Task] /\ puts \in Seq(Put) /\ live \in Object \cup {0}
      /\ up = FALSE
  BY RecType, IdleType DEF Init
<1> QED  BY <1>3, <1>4, <1>5 DEF Init, Typed, TypeOK

LEMMA SessionTyped ==
    ASSUME Typed, Open \/ Lock \/ Locked \/ TabDies \/ Connect \/ Drop \/ PutFails
    PROVE  Typed'
<1> USE DEF Typed
<1>1. CASE Open
  BY <1>1, FetchType DEF Open, TypeOK, Blob, Object
<1>2. CASE Lock
  <2>1. vault' \in [Object -> [alive : BOOLEAN, data : Data]]
    BY <1>2 DEF Lock, TypeOK
  <2> QED  BY <1>2, <2>1 DEF Lock, TypeOK
<1>3. CASE Locked
  BY <1>3, UnpluggedType, IdleType, RecType DEF Locked, TypeOK
<1>4. CASE TabDies
  <2>1. left' \in [gestures : Nat, troubles : Nat, fresh : SUBSET Ch]
    BY <1>4, LeftType DEF TabDies
  <2>2. /\ vault' \in [Object -> [alive : BOOLEAN, data : Data]]
        /\ task' \in [Lane -> Task] /\ puts' \in Seq(Put)
    BY <1>4, IdleType, RecType DEF TabDies
  <2> QED  BY <1>4, <2>1, <2>2 DEF TabDies, TypeOK
<1>5. CASE Connect
  BY <1>5, FetchType DEF Connect, TypeOK, Request
<1>6. CASE Drop
  BY <1>6, UnpluggedType DEF Drop, TypeOK
<1>7. CASE PutFails
  <2>1. Head(puts).lane \in Lane /\ Tail(puts) \in Seq(Put)
    BY <1>7, QueueType DEF PutFails, TypeOK, Put
  <2> QED  BY <1>7, <2>1, FinishType, LeftType DEF PutFails, TypeOK
<1> QED  BY <1>1, <1>2, <1>3, <1>4, <1>5, <1>6, <1>7

LEMMA RelayTyped ==
    ASSUME Typed, Relay
    PROVE  Typed'
<1> USE DEF Typed
<1>0. PICK c \in Ch :
        \/ Invited(c) \/ AlreadyKeyed(c)
        \/ \E s \in Frame, p \in Peers, k \in SignKeys :
              ReceiveOffer(s, c, p, k) \/ Give(s, c, p, k)
  BY DEF Relay
<1>1. CASE Invited(c)
  <2>1. srv' \in [Ch -> Srv]  BY <1>1 DEF Invited, TypeOK, Srv
  <2>2. task' \in [Lane -> Task]
    BY <1>1, FetchType DEF Invited, TypeOK
  <2> QED  BY <1>1, <2>1, <2>2, LeftType DEF Invited, TypeOK
<1>2. CASE AlreadyKeyed(c)
  BY <1>2 DEF AlreadyKeyed, Ack, TypeOK
<1>3. ASSUME NEW s \in Frame, NEW p \in Peers, NEW k \in SignKeys,
             ReceiveOffer(s, c, p, k)
      PROVE  Typed'
  <2>1. live \in Object /\ s \in Lane /\ puts \in Seq(Put)
    BY <1>3 DEF ReceiveOffer, TypeOK, Object, Lane
  <2>2. [Start("offer", "pin", c) EXCEPT !.copy = Channel(live, c), !.flag = TRUE]
           \in Task
    <3>1. Start("offer", "pin", c) \in Task  BY <2>1, StartType DEF Kinds, Stages
    <3> QED  BY <2>1, <3>1, ChannelType, TaskType
  <2>3. task' \in [Lane -> Task]  BY <1>3, <2>2 DEF ReceiveOffer, TypeOK
  <2>4. /\ vault' \in [Object -> [alive : BOOLEAN, data : Data]]
        /\ puts' \in Seq(Put)
    BY <1>3, <2>1, PinType DEF ReceiveOffer
  <2> QED  BY <1>3, <2>3, <2>4 DEF ReceiveOffer, TypeOK
<1>4. ASSUME NEW s \in Frame, NEW p \in Peers, NEW k \in SignKeys, Give(s, c, p, k)
      PROVE  Typed'
  <2>1. live \in Object /\ s \in Lane /\ puts \in Seq(Put)
    BY <1>4 DEF Give, TypeOK, Object, Lane
  <2>2. [Start("give", "pin", c) EXCEPT !.flag = TRUE] \in Task
    <3>1. Start("give", "pin", c) \in Task  BY <2>1, StartType DEF Kinds, Stages
    <3> QED  BY <3>1, RecType, TaskType
  <2>3. task' \in [Lane -> Task]  BY <1>4, <2>2 DEF Give, TypeOK
  <2>4. /\ vault' \in [Object -> [alive : BOOLEAN, data : Data]]
        /\ puts' \in Seq(Put)
    BY <1>4, <2>1, PinType DEF Give
  <2> QED  BY <1>4, <2>3, <2>4, LeftType DEF Give, TypeOK
<1> QED  BY <1>0, <1>1, <1>2, <1>3, <1>4

LEMMA GestureTyped ==
    ASSUME TypeOK, NEW u \in Ui, NEW kind \in Kinds, NEW at \in Stages, NEW c \in Ch,
           Gesture(u, kind, at, c)
    PROVE  task' \in [Lane -> Task]
<1>1. live \in Object  BY DEF Gesture, TypeOK, Object
<1>2. [Start(kind, at, c) EXCEPT !.copy = Channel(live, c), !.flag = up] \in Task
  <2>1. Start(kind, at, c) \in Task  BY <1>1, StartType
  <2> QED  BY <1>1, <2>1, ChannelType, TaskType DEF TypeOK
<1> QED  BY <1>2 DEF Gesture, TypeOK

LEMMA UserTyped ==
    ASSUME Typed, User
    PROVE  Typed'
<1>0. PICK u \in Ui, c \in Ch :
        \/ StartEdit(u, c) \/ StartBlock(u, c) \/ StartAccept(u, c)
        \/ StartLeave(u, c) \/ StartJoin(u, c) \/ OpenDm(u, c) \/ StartCreate(u, c)
  BY DEF User
<1>1. PICK kind \in Kinds, at \in Stages :
        /\ Gesture(u, kind, at, c)
        /\ left' \in [gestures : Nat, troubles : Nat, fresh : SUBSET Ch]
  <2>1. left.gestures > 0
    BY <1>0 DEF StartEdit, StartBlock, StartAccept, StartLeave, StartJoin, OpenDm,
       StartCreate, Gesture
  <2>2. \/ left' = [left EXCEPT !.gestures = @ - 1]
        \/ left' = [left EXCEPT !.gestures = @ - 1, !.fresh = @ \ {c}]
    BY <1>0 DEF StartEdit, StartBlock, StartAccept, StartLeave, StartJoin, OpenDm,
       StartCreate, Spend
  <2>3. \E kind \in Kinds, at \in Stages : Gesture(u, kind, at, c)
    BY <1>0 DEF StartEdit, StartBlock, StartAccept, StartLeave, StartJoin, OpenDm,
       StartCreate, Kinds, Stages
  <2> QED  BY <2>1, <2>2, <2>3, LeftType DEF Typed
<1> QED  BY <1>1, GestureTyped DEF Gesture, Typed, TypeOK

LEMMA TaskFields ==
    ASSUME TypeOK, NEW s \in Lane
    PROVE  /\ task[s] \in Task /\ task[s].v \in Object /\ task[s].c \in Ch
           /\ task[s].copy \in Rec /\ task[s].list \in [Ch -> Srv]
           /\ task[s].todo \in SUBSET Ch /\ task[s].flag \in BOOLEAN
           /\ vault[task[s].v].data \in Data
           /\ puts \in Seq(Put)
BY DEF TypeOK, Task

\* The record a handler of the menus writes, and when its key goes.
WritesOnce(u) ==
    \E rec \in Rec :
        /\ Write(u, rec)
        /\ ~rec.hasKey => \/ ~Channel(task[u].v, task[u].c).hasKey
                          \/ /\ task[u].kind \in {"edit", "block", "accept"}
                             /\ ~task[u].copy.hasKey
        /\ task[u].kind # "offer" /\ task[u].at \in {"form", "back"}
        /\ UNCHANGED <<sort, disk, live, srv, up, parked, behind, left, held>>

LEMMA MenuWrites ==
    ASSUME TypeOK, NEW u \in Lane,
           \/ SubmitEdit(u) \/ Blocked(u) \/ Accepted(u) \/ Created(u) \/ DmOpened(u)
    PROVE  WritesOnce(u)
<1>0. /\ task[u].copy \in Rec /\ Channel(task[u].v, task[u].c) \in Rec
      /\ Incog(task[u].c) \in BOOLEAN
  BY TaskFields, ChannelType DEF Incog
<1>1. CASE SubmitEdit(u)
  <2>1. /\ [task[u].copy EXCEPT !.edit = TRUE] \in Rec
        /\ [task[u].copy EXCEPT !.edit = TRUE].hasKey = task[u].copy.hasKey
    BY <1>0 DEF Rec
  <2> QED  BY <1>1, <2>1 DEF SubmitEdit, WritesOnce, Waits
<1>2. CASE Blocked(u)
  <2>1. /\ [task[u].copy EXCEPT !.blocked = ~@] \in Rec
        /\ [task[u].copy EXCEPT !.blocked = ~@].hasKey = task[u].copy.hasKey
    BY <1>0 DEF Rec
  <2> QED  BY <1>2, <2>1 DEF Blocked, WritesOnce, Waits
<1>3. CASE Accepted(u)
  <2>1. /\ [task[u].copy EXCEPT !.request = FALSE] \in Rec
        /\ [task[u].copy EXCEPT !.request = FALSE].hasKey = task[u].copy.hasKey
    BY <1>0 DEF Rec
  <2> QED  BY <1>3, <2>1 DEF Accepted, WritesOnce, Waits
<1>4. CASE Created(u)
  <2>1. /\ [Keyed EXCEPT !.incog = Incog(task[u].c)] \in Rec
        /\ [Keyed EXCEPT !.incog = Incog(task[u].c)].hasKey
    BY <1>0, RecType DEF Rec
  <2> QED  BY <1>4, <2>1 DEF Created, WritesOnce, Waits
<1>5. CASE DmOpened(u)
  <2> DEFINE e == Channel(task[u].v, task[u].c)
             rec == IF e.hasKey THEN e ELSE IF task[u].c \in held THEN Fresh ELSE Keyed
  <2>1. rec \in Rec /\ (e.hasKey => rec.hasKey)  BY <1>0, RecType
  <2>2. Write(u, rec)  BY <1>5 DEF DmOpened
  <2> HIDE DEF rec
  <2> QED  BY <1>5, <2>1, <2>2 DEF DmOpened, WritesOnce, Waits
<1> QED  BY <1>1, <1>2, <1>3, <1>4, <1>5

LEMMA JoinWrites ==
    ASSUME TypeOK, NEW u \in Lane, Joined(u)
    PROVE  \/ WritesOnce(u)
           \/ /\ Finish(u) /\ task[u].at = "back"
              /\ UNCHANGED <<sort, disk, puts, vault, live, srv, up, parked, behind,
                             left, held>>
<1>1. [Fresh EXCEPT !.incog = Incog(task[u].c)] \in Rec
  BY RecType DEF Rec, Incog
<1> QED  BY <1>1 DEF Joined, WritesOnce, Waits

LEMMA WriteTyped ==
    ASSUME Typed, NEW u \in Lane, WritesOnce(u)
    PROVE  Typed'
<1>1. PICK rec \in Rec : Write(u, rec)  BY DEF WritesOnce
<1>2. "save" \in Stages /\ TypeOK  BY DEF Stages, Typed
<1>3. /\ vault' \in [Object -> [alive : BOOLEAN, data : Data]]
      /\ puts' \in Seq(Put) /\ task' \in [Lane -> Task]
  BY <1>1, <1>2, SaveType, GotoType, TaskFields, SMTT(30) DEF Write
<1> QED  BY <1>3 DEF WritesOnce, Typed, TypeOK

\* A step of the reconcile loop: it ends, or saves a record with its key.
LEMMA IterateWrites ==
    ASSUME TypeOK, NEW s \in Lane, NEW queue \in Seq(Put), Iterate(s, queue)
    PROVE  \/ puts' = queue /\ Finish(s) /\ UNCHANGED vault
           \/ \E c \in Ch, rec \in Rec :
                /\ SaveChannel(s, task[s].v, c, rec, queue)
                /\ Channel(task[s].v, c).hasKey => rec.hasKey
                /\ task' \in [Lane -> Task]
                /\ \A x \in Lane : x # s => task'[x] = task[x]
                /\ task'[s].at = "save" /\ task'[s].v = task[s].v
                /\ task'[s].kind = task[s].kind
<1> DEFINE t == task[s]
           Diff == {c \in t.todo :
                      Merged(c, Channel(t.v, c), t.list[c]) # Channel(t.v, c)}
<1>1. \/ puts' = queue /\ Finish(s) /\ UNCHANGED vault
      \/ \E c \in Diff, skipped \in SUBSET (t.todo \ Diff) :
           /\ SaveChannel(s, t.v, c, Merged(c, Channel(t.v, c), t.list[c]), queue)
           /\ task' = [task EXCEPT ![s] = [@ EXCEPT !.at = "save",
                                         !.todo = t.todo \ ({c} \cup skipped)]]
  BY Zenon DEF Iterate
<1>2. ASSUME NEW c \in Diff, NEW skipped \in SUBSET (t.todo \ Diff),
             SaveChannel(s, t.v, c, Merged(c, Channel(t.v, c), t.list[c]), queue),
             task' = [task EXCEPT ![s] = [@ EXCEPT !.at = "save",
                                         !.todo = t.todo \ ({c} \cup skipped)]]
      PROVE  /\ c \in Ch /\ Merged(c, Channel(t.v, c), t.list[c]) \in Rec
             /\ Channel(t.v, c).hasKey => Merged(c, Channel(t.v, c), t.list[c]).hasKey
             /\ task' \in [Lane -> Task]
             /\ \A x \in Lane : x # s => task'[x] = task[x]
             /\ task'[s].at = "save" /\ task'[s].v = t.v /\ task'[s].kind = t.kind
  <2>1. t \in Task /\ t.todo \in SUBSET Ch /\ t.v \in Object /\ t.list \in [Ch -> Srv]
    BY TaskFields
  <2>2. c \in Ch /\ Channel(t.v, c) \in Rec /\ t.list[c] \in Srv
    BY <2>1, ChannelType
  <2>3. t.todo \ ({c} \cup skipped) \in SUBSET Ch  BY <2>1
  <2>4. DEFINE e == [t EXCEPT !.at = "save", !.todo = t.todo \ ({c} \cup skipped)]
  <2>5. e \in Task /\ e.at = "save" /\ e.v = t.v /\ e.kind = t.kind
    BY <2>1, <2>3 DEF Task, Stages
  <2>6. task' = [task EXCEPT ![s] = e]  BY <1>2
  <2>7. task \in [Lane -> Task]  BY DEF TypeOK
  <2> HIDE DEF e
  <2>8. /\ task' \in [Lane -> Task] /\ task'[s] = e
        /\ \A x \in Lane : x # s => task'[x] = task[x]
    BY <2>5, <2>6, <2>7
  <2> QED  BY <2>2, <2>5, <2>8, MergedType
<1> HIDE DEF Diff
<1> QED  BY <1>1, <1>2, ZenonT(60)

LEMMA ListTyped ==
    ASSUME Typed, NEW s \in Lane, ListServed(s) \/ ListBack(s) \/ ListSaved(s)
    PROVE  Typed'
<1> USE DEF Typed
<1>1. CASE ListServed(s)
  <2>1. {c \in Ch : srv[c].member} \in SUBSET Ch /\ srv \in [Ch -> Srv]
    BY DEF TypeOK
  <2>2. [task[s] EXCEPT !.at = "back", !.list = srv,
                        !.todo = {c \in Ch : srv[c].member}] \in Task
    BY <2>1, TaskFields DEF Task, Stages
  <2> QED  BY <1>1, <2>2 DEF ListServed, TypeOK
<1>2. ASSUME NEW queue \in Seq(Put), Iterate(s, queue)
      PROVE  /\ vault' \in [Object -> [alive : BOOLEAN, data : Data]]
             /\ puts' \in Seq(Put) /\ task' \in [Lane -> Task]
  <2>1. CASE puts' = queue /\ Finish(s) /\ UNCHANGED vault
    BY <1>2, <2>1, FinishType DEF TypeOK
  <2>2. CASE \E c \in Ch, rec \in Rec :
               /\ SaveChannel(s, task[s].v, c, rec, queue)
               /\ task' \in [Lane -> Task]
    BY <1>2, <2>2, SaveType, TaskFields
  <2> QED  BY <1>2, <2>1, <2>2, IterateWrites
<1>3. CASE ListBack(s)
  BY <1>2, <1>3 DEF ListBack, TypeOK
<1>4. CASE ListSaved(s)
  BY <1>2, <1>4, LandedType DEF ListSaved, TypeOK
<1> QED  BY <1>1, <1>3, <1>4

LEMMA ServedTyped ==
    ASSUME Typed, NEW u \in Lane, Served(u)
    PROVE  Typed'
<1> USE DEF Typed
<1> DEFINE t == task[u]
<1>1. t.c \in Ch /\ t.copy \in Rec /\ srv[t.c] \in Srv /\ left \in
        [gestures : Nat, troubles : Nat, fresh : SUBSET Ch]
  BY TaskFields DEF TypeOK
<1>2. srv' \in [Ch -> Srv]
  <2>1. /\ [srv[t.c] EXCEPT !.blocked = ~t.copy.blocked] \in Srv
        /\ [srv[t.c] EXCEPT !.request = FALSE] \in Srv
        /\ [srv[t.c] EXCEPT !.member = FALSE, !.request = FALSE] \in Srv
        /\ [srv[t.c] EXCEPT !.member = TRUE] \in Srv
    BY <1>1 DEF Srv
  <2> QED  BY <2>1 DEF Served, TypeOK
<1>3. parked' \in SUBSET Ch  BY <1>1 DEF Served, TypeOK
<1>4. task' \in [Lane -> Task]
  BY GotoType, FinishType, SMTT(30) DEF Served, Stages
<1>5. left' \in [gestures : Nat, troubles : Nat, fresh : SUBSET Ch]
  BY <1>1, LeftType, Zenon DEF Served
<1> QED  BY <1>2, <1>3, <1>4, <1>5 DEF Served, TypeOK

LEMMA SavedTyped ==
    ASSUME Typed, NEW u \in Lane, Saved(u)
    PROVE  Typed'
<1> USE DEF Typed
<1> DEFINE t == task[u]
<1>1. t \in Task /\ t.c \in Ch /\ t.v \in Object  BY TaskFields
<1>2. disk' \in Blob /\ Tail(puts) \in Seq(Put) /\ behind' \in BOOLEAN
  BY LandedType DEF Saved
<1>3. CASE t.kind = "dm" /\ t.c \notin held /\ up /\ live = t.v
  <2>1. [t EXCEPT !.kind = "give", !.at = "pin", !.flag = TRUE] \in Task
    BY <1>1 DEF Task, Kinds, Stages
  <2>2. task' \in [Lane -> Task]
    BY <1>3, <2>1 DEF Saved, TypeOK
  <2>3. PICK p \in Peers, k \in SignKeys : PinContact(u, t.v, p, k, Tail(puts))
    BY <1>3 DEF Saved
  <2>4. /\ vault' \in [Object -> [alive : BOOLEAN, data : Data]]
        /\ puts' \in Seq(Put)
    BY <1>1, <1>2, <2>3, PinType
  <2> QED  BY <1>2, <1>3, <2>2, <2>4 DEF Saved, TypeOK
<1>4. CASE ~(t.kind = "dm" /\ t.c \notin held /\ up /\ live = t.v)
  BY <1>1, <1>2, <1>4, FinishType DEF Saved, TypeOK, Request
<1> QED  BY <1>3, <1>4

LEMMA GoesTyped ==
    ASSUME Typed, NEW s \in Lane, Goes(s)
    PROVE  Typed'
<1> USE DEF Typed
<1>0. TypeOK /\ task[s] \in Task /\ task[s].c \in Ch /\ task[s].v \in Object
  BY TaskFields
<1>1. CASE OfferPinned(s)
  <2>1. /\ disk' \in Blob /\ Tail(puts) \in Seq(Put) /\ behind' \in BOOLEAN
        /\ task' \in [Lane -> Task]
    BY <1>1, LandedType, GotoType DEF OfferPinned, Stages
  <2>2. [task[s].copy EXCEPT !.here = TRUE, !.hasKey = TRUE, !.request = FALSE] \in Rec
    BY TaskFields DEF Rec
  <2> QED  BY <1>0, <1>1, <2>1, <2>2, SaveType DEF OfferPinned, TypeOK
<1>2. CASE OfferSaved(s)
  BY <1>2, LandedType, FinishType DEF OfferSaved, TypeOK, Ack
<1>3. CASE Given(s)
  BY <1>0, <1>3, LandedType, FinishType DEF Given, TypeOK
<1>4. CASE Left(s)
  <2>1. [vault[task[s].v].data EXCEPT !.chans[task[s].c] = NoRec] \in Data
    BY <1>0, TaskFields, RecType, SetRec
  <2>2. vault' \in [Object -> [alive : BOOLEAN, data : Data]]
    BY <1>0, <1>4, <2>1 DEF Left, TypeOK
  <2> QED  BY <1>4, <2>2, GotoType DEF Left, TypeOK, Stages
<1>5. CASE TranscriptDeleted(s)
  BY <1>0, <1>5, TaskFields, FlushType, GotoType DEF TranscriptDeleted, TypeOK, Stages
<1>6. CASE Joined(s)
  BY <1>6, JoinWrites, WriteTyped, FinishType DEF TypeOK
<1>7. CASE SubmitEdit(s) \/ Blocked(s) \/ Accepted(s) \/ Created(s) \/ DmOpened(s)
  BY <1>7, MenuWrites, WriteTyped
<1> QED  BY <1>1, <1>2, <1>3, <1>4, <1>5, <1>6, <1>7, ListTyped, ServedTyped,
            SavedTyped DEF Goes

LEMMA StepTyped == Typed /\ [Next]_vars => Typed'
<1> SUFFICES ASSUME Typed, [Next]_vars PROVE Typed'  OBVIOUS
<1>1. CASE Open \/ Lock \/ Locked \/ TabDies \/ Connect \/ Drop \/ PutFails
  BY <1>1, SessionTyped
<1>2. CASE Relay  BY <1>2, RelayTyped
<1>3. CASE User   BY <1>3, UserTyped
<1>4. CASE \E s \in Lane : Goes(s)  BY <1>4, GoesTyped
<1>5. CASE UNCHANGED vars  BY <1>5 DEF Typed, TypeOK, vars
<1> QED  BY <1>1, <1>2, <1>3, <1>4, <1>5 DEF Next

LEMMA TypedHolds == Spec => []Typed
BY InitTyped, StepTyped, PTL DEF Spec

\* The variables keep their types; a record that has a key is a record.
THEOREM TypeCorrect == Spec => []TypeOK
BY TypedHolds, PTL DEF Typed

-----------------------------------------------------------------------------
(* The inductive invariant, for a user who does not lock the vault while it  *)
(* is being written                                                         *)

Writing(s) == task[s].at \in {"pin", "save"}

\* Every coroutine works on the vault that is open.
Alone ==
    \A s \in Lane :
        ~Free(s) => /\ live # 0 /\ task[s].v = live
                    /\ vault[live].alive \/ Superseded(s)

\* A put belongs to a coroutine that waits for it, and for no other one.
OnePut ==
    \A i \in DOMAIN puts :
        /\ Writing(puts[i].lane)
        /\ \A j \in DOMAIN puts : puts[j].lane = puts[i].lane => j = i

\* The blobs on their way to the disk d are sealed with the account's key.
Sealed(d, q) == d.good /\ \A i \in DOMAIN q : q[i].blob.good

\* Each keeps the pins of those before it.
Pins(a, b) == \A p \in Peers : a.pins[p] # NoKey => b.pins[p] = a.pins[p]
Chain(d, q) ==
    \A i \in DOMAIN q :
        /\ Pins(d.data, q[i].blob.data)
        /\ \A j \in DOMAIN q : i <= j => Pins(q[i].blob.data, q[j].blob.data)
Below(d, q, m) ==
    Pins(d.data, m) /\ \A i \in DOMAIN q : Pins(q[i].blob.data, m)

\* The last put holds what the session holds, but for a channel that is being
\* removed.
Latest(d, q) == IF q = <<>> THEN d ELSE q[Len(q)].blob
Removing(c) == \E u \in Lane : task[u].at = "del" /\ task[u].c = c
Reaches(b, m) ==
    /\ b.data.pins = m.pins
    /\ \A c \in Ch : \/ b.data.chans[c] = m.chans[c]
                     \/ m.chans[c] = NoRec /\ Removing(c)
Memory ==
    (live # 0 /\ vault[live].alive) =>
        /\ Below(disk, puts, vault[live].data)
        /\ puts # <<>> \/ ~behind => Reaches(Latest(disk, puts), vault[live].data)

\* The record an offer writes has its key.
OfferPut ==
    \A i \in DOMAIN puts :
        LET t == task[puts[i].lane] IN
        t.kind = "offer" /\ t.at = "save" => puts[i].blob.data.chans[t.c].hasKey

Inv == /\ Typed /\ Alone /\ OnePut /\ Sealed(disk, puts) /\ Chain(disk, puts)
       /\ Memory /\ OfferPut

\* The queue s goes on with: nothing changed, or its put has committed.
Advance(s, q) ==
    \/ q = puts /\ disk' = disk /\ behind' = behind /\ ~Writing(s)
    \/ Landed(s) /\ q = Tail(puts)

LEMMA Advanced ==
    ASSUME Inv, NEW s \in Lane, NEW q, Advance(s, q)
    PROVE  /\ q \in Seq(Put) /\ disk' \in Blob
           /\ Sealed(disk', q) /\ Chain(disk', q)
           /\ \A m : Below(disk, puts, m) => Below(disk', q, m)
           /\ Latest(disk', q) = Latest(disk, puts)
           /\ q # <<>> \/ ~behind' => puts # <<>> \/ ~behind
           /\ \A i \in DOMAIN q :
                 /\ q[i].lane # s /\ \E j \in DOMAIN puts : q[i] = puts[j]
                 /\ \A j \in DOMAIN q : q[j].lane = q[i].lane => j = i
<1>0. puts \in Seq(Put) /\ disk \in Blob  BY DEF Inv, Typed, TypeOK
<1>1. CASE q = puts /\ disk' = disk /\ behind' = behind /\ ~Writing(s)
  BY <1>0, <1>1 DEF Inv, OnePut
<1>2. CASE Landed(s) /\ q = Tail(puts)
  <2>1. /\ puts # <<>> /\ puts[1].lane = s /\ disk' = puts[1].blob
        /\ Len(puts) \in Nat \ {0} /\ Len(q) = Len(puts) - 1
        /\ \A i \in 1 .. Len(puts) - 1 : q[i] = puts[i + 1]
        /\ q \in Seq(Put) /\ puts[1] \in Put
    BY <1>0, <1>2, QueueType DEF Landed
  <2>2. /\ DOMAIN puts = 1 .. Len(puts) /\ DOMAIN q = 1 .. Len(puts) - 1
        /\ 1 \in DOMAIN puts
        /\ \A i \in DOMAIN q : i + 1 \in DOMAIN puts /\ q[i] = puts[i + 1] /\ i + 1 # 1
    BY <1>0, <2>1
  <2>3. disk' \in Blob  BY <2>1 DEF Put
  <2>4. Sealed(disk', q)  BY <2>1, <2>2 DEF Inv, Sealed
  <2>5. Chain(disk', q)
    <3>1. \A i, j \in DOMAIN q : i <= j => i + 1 <= j + 1  BY <2>2
    <3>2. \A i \in DOMAIN q : 1 <= i + 1  BY <2>2
    <3> QED  BY <2>1, <2>2, <3>1, <3>2 DEF Inv, Chain
  <2>6. \A m : Below(disk, puts, m) => Below(disk', q, m)
    BY <2>1, <2>2 DEF Below
  <2>7. Latest(disk', q) = Latest(disk, puts)
    <3>1. CASE Len(puts) = 1
      BY <2>1, <2>2, <3>1 DEF Latest
    <3>2. CASE Len(puts) # 1
      <4>1. Len(q) \in DOMAIN q /\ Len(q) + 1 = Len(puts) /\ q # <<>>
        BY <2>1, <2>2, <3>2
      <4> QED  BY <2>1, <2>2, <4>1 DEF Latest
    <3> QED  BY <3>1, <3>2
  <2>8. \A i \in DOMAIN q :
          /\ q[i].lane # s /\ \E j \in DOMAIN puts : q[i] = puts[j]
          /\ \A j \in DOMAIN q : q[j].lane = q[i].lane => j = i
    <3>1. ASSUME NEW i \in DOMAIN q, q[i].lane = s PROVE FALSE
      BY <2>1, <2>2, <3>1 DEF Inv, OnePut
    <3>2. ASSUME NEW i \in DOMAIN q, NEW j \in DOMAIN q, q[j].lane = q[i].lane
          PROVE  j = i
      <4>1. j + 1 = i + 1  BY <2>2, <3>2 DEF Inv, OnePut
      <4> QED  BY <2>2, <4>1
    <3> QED  BY <2>2, <3>1, <3>2
  <2> QED  BY <2>1, <2>3, <2>4, <2>5, <2>6, <2>7, <2>8
<1> QED  BY <1>1, <1>2 DEF Advance

LEMMA Appended ==
    ASSUME NEW d \in Blob, NEW q \in Seq(Put), NEW e \in Put, NEW m,
           Sealed(d, q), Chain(d, q), Below(d, q, m),
           Pins(m, e.blob.data), e.blob.good
    PROVE  /\ Sealed(d, Append(q, e)) /\ Chain(d, Append(q, e))
           /\ Below(d, Append(q, e), e.blob.data)
           /\ Latest(d, Append(q, e)) = e.blob
           /\ DOMAIN Append(q, e) = DOMAIN q \cup {Len(q) + 1}
           /\ Len(q) + 1 \notin DOMAIN q /\ Append(q, e)[Len(q) + 1] = e
           /\ \A i \in DOMAIN q : Append(q, e)[i] = q[i]
           /\ Append(q, e) # <<>>
<1> DEFINE n == Len(q) + 1
           a == Append(q, e)
<1>1. /\ a \in Seq(Put) /\ Len(a) = n /\ a[n] = e /\ n \in Nat
      /\ DOMAIN q = 1 .. Len(q) /\ DOMAIN a = 1 .. n /\ Len(q) \in Nat
      /\ \A i \in DOMAIN q : a[i] = q[i]
      /\ a # <<>>
  OBVIOUS
<1> HIDE DEF a
<1>2. /\ DOMAIN a = DOMAIN q \cup {n} /\ n \notin DOMAIN q
      /\ \A i \in DOMAIN q : ~(n <= i)
  BY <1>1
<1>3. Sealed(d, a)  BY <1>1, <1>2 DEF Sealed
<1>4. Pins(d.data, e.blob.data) /\ \A i \in DOMAIN q : Pins(q[i].blob.data, e.blob.data)
  BY DEF Below, Pins
<1>5. Pins(e.blob.data, e.blob.data)  BY DEF Pins
<1>6. Chain(d, a)  BY <1>1, <1>2, <1>4, <1>5 DEF Chain
<1>7. Below(d, a, e.blob.data)  BY <1>1, <1>2, <1>4, <1>5 DEF Below
<1>8. Latest(d, a) = e.blob  BY <1>1 DEF Latest
<1> QED  BY <1>1, <1>2, <1>3, <1>6, <1>7, <1>8 DEF a

-----------------------------------------------------------------------------
(* The two kinds of step a coroutine takes                                  *)

Same(x) == /\ task'[x].at = task[x].at /\ task'[x].kind = task[x].kind
           /\ task'[x].v = task[x].v /\ task'[x].c = task[x].c

\* The task of x is replaced by one that waits for no put.
Stops(x) == /\ task'[x].at \notin {"pin", "save"} /\ task[x].at # "del"
            /\ task'[x].at # "idle" =>
                  /\ live # 0 /\ task'[x].v = live
                  /\ \/ vault[live].alive
                     \/ x \in Fetcher /\ task'[x].at \in {"call", "back"}

\* Nothing is written: coroutines start, stop, or go on to wait for something
\* else, and the put s waited for may have committed.
Moves(s, q) ==
    /\ Advance(s, q) /\ puts' = q
    /\ UNCHANGED <<vault, live>>
    /\ \A x \in Lane : Same(x) \/ (Stops(x) /\ (x = s \/ ~Writing(x)))
    /\ Stops(s) \/ ~Writing(s)

LEMMA MovesKeep ==
    ASSUME Inv, Typed', NEW s \in Lane, NEW q, Moves(s, q)
    PROVE  Inv'
<1>0. /\ q \in Seq(Put) /\ disk' \in Blob /\ puts \in Seq(Put)
      /\ Sealed(disk', q) /\ Chain(disk', q)
      /\ \A m : Below(disk, puts, m) => Below(disk', q, m)
      /\ Latest(disk', q) = Latest(disk, puts)
      /\ q # <<>> \/ ~behind' => puts # <<>> \/ ~behind
      /\ \A i \in DOMAIN q :
            /\ q[i].lane # s /\ \E j \in DOMAIN puts : q[i] = puts[j]
            /\ \A j \in DOMAIN q : q[j].lane = q[i].lane => j = i
  BY Advanced DEF Moves, Inv, Typed, TypeOK
<1>1. Alone'
  <2> SUFFICES ASSUME NEW x \in Lane, task'[x].at # "idle"
               PROVE  /\ live # 0 /\ task'[x].v = live
                      /\ vault[live].alive \/
                           (x \in Fetcher /\ task'[x].at \in {"call", "back"})
    BY DEF Alone, Free, Superseded, Moves
  <2>1. CASE Same(x)
    BY <2>1 DEF Inv, Alone, Free, Superseded, Same
  <2>2. CASE Stops(x)
    BY <2>2 DEF Stops
  <2> QED  BY <2>1, <2>2 DEF Moves
<1>2. \A i \in DOMAIN q : /\ Same(q[i].lane) /\ Writing(q[i].lane)
                          /\ \E j \in DOMAIN puts : q[i] = puts[j]
  <2> SUFFICES ASSUME NEW i \in DOMAIN q
               PROVE  /\ Same(q[i].lane) /\ Writing(q[i].lane)
                      /\ \E j \in DOMAIN puts : q[i] = puts[j]
    OBVIOUS
  <2>1. PICK j \in DOMAIN puts : q[i] = puts[j]  BY <1>0
  <2>2. q[i].lane \in Lane
    <3>1. q \in Seq(Put)  BY <1>0
    <3>2. q[i] \in Put  BY <3>1
    <3> QED  BY <3>2 DEF Put
  <2>3. Writing(q[i].lane)  BY <2>1 DEF Inv, OnePut
  <2>4. q[i].lane # s  BY <1>0
  <2> QED  BY <2>1, <2>2, <2>3, <2>4 DEF Moves
<1>3. OnePut'
  BY <1>0, <1>2 DEF OnePut, Writing, Same, Moves
<1>4. Sealed(disk, puts)' /\ Chain(disk, puts)'
  BY <1>0 DEF Moves, Sealed, Chain, Pins
<1>5. Memory'
  <2> SUFFICES ASSUME live # 0, vault[live].alive
               PROVE  /\ Below(disk', q, vault[live].data)
                      /\ q # <<>> \/ ~behind' =>
                           /\ Latest(disk', q).data.pins = vault[live].data.pins
                           /\ \A c \in Ch :
                                \/ Latest(disk', q).data.chans[c] = vault[live].data.chans[c]
                                \/ vault[live].data.chans[c] = NoRec /\ Removing(c)'
    BY DEF Memory, Moves, Below, Pins, Latest, Reaches
  <2>1. Below(disk, puts, vault[live].data)  BY DEF Inv, Memory
  <2>2. ASSUME NEW c \in Ch, Removing(c) PROVE Removing(c)'
    BY <2>2, SMTT(30) DEF Removing, Moves, Same, Stops
  <2> QED  BY <1>0, <2>1, <2>2 DEF Inv, Memory, Reaches
<1>6. OfferPut'
  <2> SUFFICES ASSUME NEW i \in DOMAIN q,
                      task'[q[i].lane].kind = "offer", task'[q[i].lane].at = "save"
               PROVE  q[i].blob.data.chans[task'[q[i].lane].c].hasKey
    BY DEF OfferPut, Moves
  <2>1. PICK j \in DOMAIN puts : q[i] = puts[j]  BY <1>0
  <2>2. Same(q[i].lane)  BY <1>2
  <2> QED  BY <2>1, <2>2 DEF Same, Inv, OfferPut
<1> QED  BY <1>1, <1>3, <1>4, <1>5, <1>6 DEF Inv

\* A coroutine changes the open vault, requests the put and waits for it.
Writes(s, q, data) ==
    /\ Advance(s, q)
    /\ live # 0 /\ vault[live].alive /\ live' = live
    /\ Flush(s, live, data, q)
    /\ \A x \in Lane : x # s => Same(x)
    /\ task'[s].at \in {"pin", "save"} /\ task'[s].v = live
    /\ Pins(vault[live].data, data)
    /\ task'[s].kind = "offer" /\ task'[s].at = "save" =>
          data.chans[task'[s].c].hasKey

LEMMA WritesKeep ==
    ASSUME Inv, Typed', NEW s \in Lane, NEW q, NEW data \in Data, Writes(s, q, data)
    PROVE  Inv'
<1>0. /\ q \in Seq(Put) /\ disk' \in Blob /\ live \in Object
      /\ Sealed(disk', q) /\ Chain(disk', q)
      /\ \A m : Below(disk, puts, m) => Below(disk', q, m)
      /\ \A i \in DOMAIN q :
            /\ q[i].lane # s /\ \E j \in DOMAIN puts : q[i] = puts[j]
            /\ \A j \in DOMAIN q : q[j].lane = q[i].lane => j = i
  BY Advanced DEF Writes, Inv, Typed, TypeOK
<1> DEFINE e == [lane |-> s, blob |-> [good |-> vault[live].alive, data |-> data]]
           n == Len(q) + 1
<1>1. /\ e \in Put /\ e.lane = s /\ e.blob.good /\ e.blob.data = data
      /\ puts' = Append(q, e)
  BY <1>0 DEF Writes, Flush, Put, Blob, Inv, Typed, TypeOK
<1>2. /\ vault'[live].data = data /\ vault'[live].alive /\ live' = live
  BY <1>0, FlushType DEF Writes, Inv, Typed, TypeOK
<1> HIDE DEF e
<1>3. Below(disk', q, vault[live].data)
  BY <1>0 DEF Inv, Memory, Writes
<1>4. Pins(vault[live].data, e.blob.data)  BY <1>1 DEF Writes
<1>5. /\ Sealed(disk', Append(q, e)) /\ Chain(disk', Append(q, e))
      /\ Below(disk', Append(q, e), e.blob.data)
      /\ Latest(disk', Append(q, e)) = e.blob
      /\ DOMAIN Append(q, e) = DOMAIN q \cup {n}
      /\ n \notin DOMAIN q /\ Append(q, e)[n] = e
      /\ \A i \in DOMAIN q : Append(q, e)[i] = q[i]
  BY <1>0, <1>1, <1>3, <1>4, Appended
<1> HIDE DEF n
<1>6. Alone'
  <2> SUFFICES ASSUME NEW x \in Lane, task'[x].at # "idle"
               PROVE  live # 0 /\ task'[x].v = live
    BY <1>2 DEF Alone, Free, Writes
  <2>1. CASE x = s  BY <2>1 DEF Writes
  <2>2. CASE x # s
    <3>1. Same(x)  BY <2>2 DEF Writes
    <3> QED  BY <3>1 DEF Inv, Alone, Free, Same
  <2> QED  BY <2>1, <2>2
<1>7. \A i \in DOMAIN q : /\ Same(q[i].lane) /\ Writing(q[i].lane)
                          /\ q[i].lane # s /\ puts'[i] = q[i]
                          /\ \E j \in DOMAIN puts : q[i] = puts[j]
  <2> SUFFICES ASSUME NEW i \in DOMAIN q
               PROVE  /\ Same(q[i].lane) /\ Writing(q[i].lane)
                      /\ q[i].lane # s /\ puts'[i] = q[i]
                      /\ \E j \in DOMAIN puts : q[i] = puts[j]
    OBVIOUS
  <2>1. PICK j \in DOMAIN puts : q[i] = puts[j]  BY <1>0
  <2>2. q[i].lane \in Lane
    <3>1. q \in Seq(Put)  BY <1>0
    <3>2. q[i] \in Put  BY <3>1
    <3> QED  BY <3>2 DEF Put
  <2>3. Writing(q[i].lane)  BY <2>1 DEF Inv, OnePut
  <2>4. q[i].lane # s  BY <1>0
  <2> QED  BY <1>1, <1>5, <2>1, <2>2, <2>3, <2>4 DEF Writes
<1>8. OnePut'
  <2> SUFFICES ASSUME NEW i \in DOMAIN puts'
               PROVE  /\ task'[puts'[i].lane].at \in {"pin", "save"}
                      /\ \A j \in DOMAIN puts' : puts'[j].lane = puts'[i].lane => j = i
    BY DEF OnePut, Writing
  <2>1. CASE i = n
    <3>1. puts'[i].lane = s  BY <1>1, <1>5, <2>1
    <3> QED  BY <1>1, <1>5, <1>7, <2>1, <3>1 DEF Writes
  <2>2. CASE i \in DOMAIN q
    <3>1. /\ puts'[i] = q[i] /\ Same(q[i].lane) /\ Writing(q[i].lane)
          /\ q[i].lane # s
      BY <1>7, <2>2
    <3>2. puts'[n].lane = s  BY <1>1, <1>5
    <3> QED  BY <1>0, <1>1, <1>5, <1>7, <2>2, <3>1, <3>2 DEF Same, Writing
  <2> QED  BY <1>1, <1>5, <2>1, <2>2
<1>9. Sealed(disk, puts)' /\ Chain(disk, puts)'
  BY <1>1, <1>5 DEF Sealed, Chain, Pins
<1>10. Memory'
  <2>1. Latest(disk, puts)' = e.blob  BY <1>1, <1>5 DEF Latest
  <2>2. Below(disk, puts, vault[live].data)'
    BY <1>1, <1>2, <1>5, SMTT(30) DEF Below, Pins
  <2> QED  BY <1>1, <1>2, <2>1, <2>2 DEF Memory, Reaches
<1>11. OfferPut'
  <2> SUFFICES ASSUME NEW i \in DOMAIN puts',
                      task'[puts'[i].lane].kind = "offer",
                      task'[puts'[i].lane].at = "save"
               PROVE  puts'[i].blob.data.chans[task'[puts'[i].lane].c].hasKey
    BY DEF OfferPut
  <2>1. CASE i = n
    <3>1. puts'[i] = e /\ puts'[i].lane = s  BY <1>1, <1>5, <2>1
    <3> QED  BY <1>1, <3>1 DEF Writes
  <2>2. CASE i \in DOMAIN q
    <3>1. /\ puts'[i] = q[i] /\ Same(q[i].lane)
          /\ \E j \in DOMAIN puts : q[i] = puts[j]
      BY <1>7, <2>2
    <3> QED  BY <3>1 DEF Same, Inv, OfferPut
  <2> QED  BY <1>1, <1>5, <2>1, <2>2, Zenon
<1> QED  BY <1>6, <1>8, <1>9, <1>10, <1>11 DEF Inv

-----------------------------------------------------------------------------
(* Every action keeps the invariant                                        *)

LEMMA NothingWaits ==
    ASSUME Inv, live = 0 \/ ~vault[live].alive
    PROVE  puts = <<>> /\ \A s \in Lane : Free(s) \/ Superseded(s)
<1>1. \A s \in Lane : Free(s) \/ Superseded(s)  BY DEF Inv, Alone
<1>2. ASSUME puts # <<>> PROVE FALSE
  <2>1. 1 \in DOMAIN puts /\ puts[1] \in Put
    BY <1>2 DEF Inv, Typed, TypeOK
  <2>2. puts[1].lane \in Lane /\ Writing(puts[1].lane)
    BY <2>1 DEF Inv, OnePut, Put
  <2> QED  BY <1>1, <2>2 DEF Writing, Free, Superseded
<1> QED  BY <1>1, <1>2

LEMMA SameKeeps ==
    ASSUME Inv, Typed', UNCHANGED <<disk, puts, vault, live, behind>>,
           \A x \in Lane : Same(x)
    PROVE  Inv'
<1>1. Alone'  BY DEF Inv, Alone, Free, Superseded, Same
<1>2. \A i \in DOMAIN puts : puts[i].lane \in Lane
  <2>1. puts \in Seq(Put)  BY DEF Inv, Typed, TypeOK
  <2>2. \A i \in DOMAIN puts : puts[i] \in Put  BY <2>1
  <2> QED  BY <2>2 DEF Put
<1>3. OnePut' /\ OfferPut'
  BY <1>2 DEF Inv, OnePut, OfferPut, Writing, Same
<1>4. Sealed(disk, puts)' /\ Chain(disk, puts)'  BY DEF Inv, Sealed, Chain, Pins
<1>5. Memory'
  <2>1. ASSUME NEW c \in Ch, Removing(c) PROVE Removing(c)'
    BY <2>1 DEF Removing, Same
  <2> QED  BY <2>1 DEF Inv, Memory, Below, Pins, Latest, Reaches
<1> QED  BY <1>1, <1>3, <1>4, <1>5 DEF Inv

LEMMA FetchKeeps ==
    ASSUME Inv, Typed', UNCHANGED <<disk, puts, vault, live, behind>>,
           live # 0, vault[live].alive, Fetch(live)
    PROVE  Inv'
<1>1. PICK s \in Fetcher :
        /\ Free(s) \/ Superseded(s)
        /\ task' = [x \in Lane |->
                      IF x = s THEN [Idle EXCEPT !.kind = "list", !.at = "call",
                                                 !.v = live]
                      ELSE IF Superseded(x) THEN Idle ELSE task[x]]
  BY DEF Fetch
<1>2. s \in Lane /\ ~Writing(s)  BY <1>1 DEF Lane, Free, Superseded, Writing
<1>3. task'[s].at = "call" /\ task'[s].v = live /\ task[s].at # "del"
  BY <1>1, <1>2 DEF Idle, Free, Superseded
<1>4. Stops(s)  BY <1>3 DEF Stops
<1>5. ASSUME NEW x \in Lane, x # s PROVE Same(x) \/ (Stops(x) /\ ~Writing(x))
  <2>1. CASE Superseded(x)
    BY <1>1, <1>5, <2>1, IdleType DEF Superseded, Stops, Writing
  <2>2. CASE ~Superseded(x)
    BY <1>1, <1>5, <2>2 DEF Same
  <2> QED  BY <2>1, <2>2
<1>6. Moves(s, puts)  BY <1>2, <1>4, <1>5 DEF Moves, Advance
<1> QED  BY <1>2, <1>6, MovesKeep

LEMMA SessionKeeps ==
    ASSUME Inv, Typed', ~Hasty,
           Open \/ Lock \/ Locked \/ TabDies \/ Connect \/ Drop \/ PutFails
    PROVE  Inv'
<1>1. CASE Open
  <2>1. PICK o \in Object :
          /\ vault' = [vault EXCEPT ![o] = [alive |-> TRUE, data |-> disk.data]]
          /\ live' = o /\ Fetch(o)
    BY <1>1 DEF Open
  <2>2. puts = <<>> /\ \A s \in Lane : Free(s) \/ Superseded(s)
    BY <1>1, NothingWaits DEF Open
  <2>3. UNCHANGED <<puts, disk, behind>> /\ o # 0
    BY <1>1 DEF Open, Object
  <2>4. vault'[live'].alive /\ vault'[live'].data = disk.data
    BY <2>1 DEF Inv, Typed, TypeOK
  <2>5. \A x \in Lane : Free(x)  BY <1>1 DEF Open, Inv, Alone
  <2>6. \A x \in Lane : task'[x].at = "idle" \/ task'[x].v = o
    BY <2>1, <2>5, IdleType, ZenonT(60) DEF Fetch, Free, Idle
  <2>7. Alone'  BY <2>1, <2>3, <2>4, <2>6 DEF Alone, Free
  <2>8. Memory'
    BY <2>2, <2>3, <2>4 DEF Memory, Below, Pins, Latest, Reaches
  <2> QED  BY <2>2, <2>3, <2>7, <2>8
           DEF Inv, OnePut, OfferPut, Sealed, Chain, Pins
<1>2. CASE Lock
  <2>1. /\ puts = <<>> /\ \A s \in Lane : Free(s) \/ Superseded(s)
        /\ UNCHANGED <<disk, puts, live, task, behind>>
        /\ live \in Object
        /\ vault' = [vault EXCEPT ![live].alive = FALSE]
    BY <1>2 DEF Lock, Quiet, Inv, Typed, TypeOK
  <2>2. ~vault'[live].alive  BY <2>1 DEF Inv, Typed, TypeOK
  <2>3. Alone'
    BY <2>1 DEF Inv, Alone, Free, Superseded
  <2> QED  BY <2>1, <2>2, <2>3
           DEF Inv, OnePut, OfferPut, Sealed, Chain, Pins, Memory
<1>3. CASE Locked
  <2>1. puts = <<>> /\ \A s \in Lane : Free(s) \/ Superseded(s)
    BY <1>3, NothingWaits DEF Locked
  <2>2. \A s \in Lane : task'[s].at = "idle"
    BY <1>3, <2>1, IdleType, UnpluggedType DEF Locked, Free, Inv, Typed
  <2>3. live' = 0 /\ UNCHANGED <<disk, puts, behind>>  BY <1>3 DEF Locked
  <2> QED  BY <2>1, <2>2, <2>3
           DEF Inv, Alone, Free, OnePut, OfferPut, Sealed, Chain, Pins, Memory
<1>4. CASE TabDies
  <2>1. /\ puts' = <<>> /\ live' = 0 /\ disk' = disk
        /\ \A s \in Lane : task'[s].at = "idle"
    BY <1>4, IdleType DEF TabDies
  <2> QED  BY <2>1
           DEF Inv, Alone, Free, OnePut, OfferPut, Sealed, Chain, Pins, Memory
<1>5. CASE Connect
  BY <1>5, FetchKeeps DEF Connect, Calm
<1>6. CASE Drop
  <2>1. \A x \in Lane : Same(x)
    BY <1>6, UnpluggedType DEF Drop, Same, Inv, Typed
  <2> QED  BY <1>6, <2>1, SameKeeps DEF Drop
<1>7. CASE PutFails
  <2> DEFINE s == Head(puts).lane
             q == Tail(puts)
  <2>1. /\ puts # <<>> /\ puts' = q /\ behind' = TRUE /\ Finish(s)
        /\ UNCHANGED <<disk, vault, live>>
    BY <1>7 DEF PutFails
  <2>2. /\ puts[1].lane = s /\ s \in Lane /\ puts \in Seq(Put)
        /\ Len(puts) \in Nat \ {0} /\ Len(q) = Len(puts) - 1
        /\ DOMAIN puts = 1 .. Len(puts) /\ DOMAIN q = 1 .. Len(puts) - 1
        /\ \A i \in DOMAIN q : q[i] = puts[i + 1] /\ i + 1 \in DOMAIN puts /\ i + 1 # 1
        /\ 1 \in DOMAIN puts /\ q \in Seq(Put)
    BY <2>1, QueueType DEF Inv, Typed, TypeOK, Put
  <2> HIDE DEF s, q
  <2>3. /\ \A x \in Lane : x # s => task'[x] = task[x]
        /\ task'[s].at = "idle"
    BY <2>1, <2>2, IdleType DEF Finish, Inv, Typed, TypeOK
  <2>4. \A i \in DOMAIN q : q[i].lane \in Lane
    <3>1. \A i \in DOMAIN q : q[i] \in Put  BY <2>2
    <3> QED  BY <3>1 DEF Put
  <2>5. Writing(s)  BY <2>2 DEF Inv, OnePut
  <2>6. \A i \in DOMAIN q : q[i].lane # s /\ task'[q[i].lane] = task[q[i].lane]
    <3>1. \A i \in DOMAIN q : q[i].lane # s  BY <2>2 DEF Inv, OnePut
    <3> QED  BY <2>3, <2>4, <3>1
  <2>7. Alone'
    BY <2>1, <2>3 DEF Inv, Alone, Free, Superseded
  <2>8. OnePut'
    <3> SUFFICES ASSUME NEW i \in DOMAIN q
                 PROVE  /\ task'[q[i].lane].at \in {"pin", "save"}
                        /\ \A j \in DOMAIN q : q[j].lane = q[i].lane => j = i
      BY <2>1 DEF OnePut, Writing
    <3>1. Writing(q[i].lane)  BY <2>2 DEF Inv, OnePut
    <3>2. ASSUME NEW j \in DOMAIN q, q[j].lane = q[i].lane PROVE j = i
      <4>1. j + 1 = i + 1  BY <2>2, <3>2 DEF Inv, OnePut
      <4> QED  BY <2>2, <4>1
    <3> QED  BY <2>6, <3>1, <3>2 DEF Writing
  <2>9. OfferPut'
    <3> SUFFICES ASSUME NEW i \in DOMAIN q,
                        task'[q[i].lane].kind = "offer", task'[q[i].lane].at = "save"
                 PROVE  q[i].blob.data.chans[task'[q[i].lane].c].hasKey
      BY <2>1 DEF OfferPut
    <3>1. i + 1 \in DOMAIN puts /\ q[i] = puts[i + 1]  BY <2>2
    <3>2. task'[q[i].lane] = task[q[i].lane]  BY <2>6
    <3> QED  BY <3>1, <3>2 DEF Inv, OfferPut
  <2>10. Sealed(disk, puts)' /\ Chain(disk, puts)'
    <3>1. \A i, j \in DOMAIN q : i <= j => i + 1 <= j + 1  BY <2>2
    <3> QED  BY <2>1, <2>2, <3>1, SMTT(30) DEF Inv, Sealed, Chain, Pins
  <2>11. Memory'
    <3> SUFFICES ASSUME live # 0, vault[live].alive
                 PROVE  /\ Below(disk, q, vault[live].data)
                        /\ q # <<>> =>
                             /\ Latest(disk, q).data.pins = vault[live].data.pins
                             /\ \A c \in Ch :
                                  \/ Latest(disk, q).data.chans[c] = vault[live].data.chans[c]
                                  \/ vault[live].data.chans[c] = NoRec /\ Removing(c)'
      BY <2>1 DEF Memory, Below, Pins, Latest, Reaches
    <3>1. Below(disk, q, vault[live].data)
      BY <2>2 DEF Inv, Memory, Below
    <3>2. ASSUME q # <<>> PROVE Latest(disk, q) = Latest(disk, puts)
      <4>1. Len(q) \in DOMAIN q /\ Len(q) + 1 = Len(puts)  BY <2>2, <3>2
      <4> QED  BY <2>1, <2>2, <3>2, <4>1 DEF Latest
    <3>3. ASSUME NEW c \in Ch, Removing(c) PROVE Removing(c)'
      BY <2>3, <2>5, <3>3 DEF Removing, Writing
    <3> QED  BY <2>1, <3>1, <3>2, <3>3 DEF Inv, Memory, Reaches
  <2> QED  BY <2>7, <2>8, <2>9, <2>10, <2>11 DEF Inv
<1> QED  BY <1>1, <1>2, <1>3, <1>4, <1>5, <1>6, <1>7

LEMMA PinWrites ==
    ASSUME Inv, NEW s \in Lane, NEW p \in Peers, NEW k \in SignKeys, NEW q,
           live # 0, vault[live].alive, live' = live, Advance(s, q),
           PinContact(s, live, p, k, q),
           \A x \in Lane : x # s => Same(x),
           task'[s].at = "pin", task'[s].v = live
    PROVE  \E data \in Data : /\ Writes(s, q, data)
                              /\ data.chans = vault[live].data.chans
<1>1. vault[live].data \in Data  BY DEF Inv, Typed, TypeOK
<1> DEFINE data == [vault[live].data EXCEPT !.pins[p] = IF @ = NoKey THEN k ELSE @]
<1>2. /\ data \in Data /\ data.chans = vault[live].data.chans
      /\ Pins(vault[live].data, data)
  BY <1>1, SetPin DEF Pins
<1>3. Flush(s, live, data, q)  BY DEF PinContact
<1> HIDE DEF data
<1> QED  BY <1>2, <1>3 DEF Writes

LEMMA SaveWrites ==
    ASSUME Inv, NEW s \in Lane, NEW c \in Ch, NEW rec \in Rec, NEW q,
           live # 0, vault[live].alive, live' = live, Advance(s, q),
           SaveChannel(s, live, c, rec, q),
           \A x \in Lane : x # s => Same(x),
           task'[s].at = "save", task'[s].v = live,
           task'[s].kind = "offer" => rec.hasKey /\ task'[s].c = c
    PROVE  \E data \in Data : /\ Writes(s, q, data)
                              /\ data.chans = [vault[live].data.chans EXCEPT ![c] = rec]
<1>1. vault[live].data \in Data  BY DEF Inv, Typed, TypeOK
<1> DEFINE data == [vault[live].data EXCEPT !.chans[c] = rec]
<1>2. /\ data \in Data /\ data.pins = vault[live].data.pins
      /\ data.chans = [vault[live].data.chans EXCEPT ![c] = rec]
  BY <1>1, SetRec
<1>3. data.chans[c] = rec  BY <1>1, <1>2 DEF Data
<1>4. Flush(s, live, data, q)  BY DEF SaveChannel
<1> HIDE DEF data
<1> QED  BY <1>2, <1>3, <1>4 DEF Writes, Pins

\* A coroutine that is past its first await is at work on the open vault.
LEMMA AtWork ==
    ASSUME Inv, ~Hasty, NEW s \in Lane, ~Free(s),
           Calm \/ s \notin Fetcher \/ task[s].at \notin {"call", "back"}
    PROVE  live # 0 /\ live \in Object /\ vault[live].alive /\ task[s].v = live
BY DEF Inv, Alone, Superseded, Calm, Typed, TypeOK

LEMMA GotoMoves ==
    ASSUME Inv, NEW s \in Lane, NEW at \in Stages \ {"pin", "save"}, Goto(s, at),
           UNCHANGED <<disk, puts, vault, live, behind>>,
           task[s].at \notin {"idle", "pin", "save", "del"},
           vault[live].alive \/ (s \in Fetcher /\ at \in {"call", "back"})
    PROVE  Moves(s, puts)
<1>1. /\ task'[s].at = at /\ task'[s].v = task[s].v
      /\ \A x \in Lane : x # s => task'[x] = task[x]
  BY TaskFields DEF Inv, Typed, TypeOK, Goto, Task
<1>2. live # 0 /\ task[s].v = live  BY DEF Inv, Alone, Free
<1> QED  BY <1>1, <1>2 DEF Moves, Advance, Writing, Same, Stops

LEMMA FinishMoves ==
    ASSUME Inv, NEW s \in Lane, NEW q, Finish(s), Advance(s, q), puts' = q,
           UNCHANGED <<vault, live>>, task[s].at # "del"
    PROVE  Moves(s, q)
<1>1. /\ task'[s].at = "idle"
      /\ \A x \in Lane : x # s => task'[x] = task[x]
  BY IdleType DEF Inv, Typed, TypeOK, Finish
<1> QED  BY <1>1 DEF Moves, Same, Stops

LEMMA RelayKeeps ==
    ASSUME Inv, Typed', ~Hasty, Relay
    PROVE  Inv'
<1>0. PICK c \in Ch :
        \/ Invited(c) \/ AlreadyKeyed(c)
        \/ \E s \in Frame, p \in Peers, k \in SignKeys :
              ReceiveOffer(s, c, p, k) \/ Give(s, c, p, k)
  BY DEF Relay
<1>1. CASE Invited(c)
  <2>1. CASE up /\ Calm
    BY <1>1, <2>1, FetchKeeps DEF Invited, Calm, Inv, Typed
  <2>2. CASE ~(up /\ Calm)
    BY <1>1, <2>2, SameKeeps DEF Invited, Same
  <2> QED  BY <2>1, <2>2
<1>2. CASE AlreadyKeyed(c)
  BY <1>2, SameKeeps DEF AlreadyKeyed, Same
<1>3. ASSUME NEW s \in Frame, NEW p \in Peers, NEW k \in SignKeys,
             ReceiveOffer(s, c, p, k) \/ Give(s, c, p, k)
      PROVE  Inv'
  <2>1. /\ s \in Lane /\ Free(s) /\ live # 0 /\ vault[live].alive /\ live \in Object
        /\ UNCHANGED <<disk, live, behind>>
        /\ PinContact(s, live, p, k, puts)
    BY <1>3 DEF ReceiveOffer, Give, Calm, Lane, Inv, Typed, TypeOK
  <2>2. \E t \in Task : /\ task' = [task EXCEPT ![s] = t]
                        /\ t.at = "pin" /\ t.v = live
    <3>1. /\ Start("offer", "pin", c) \in Task /\ Start("give", "pin", c) \in Task
          /\ Start("offer", "pin", c).at = "pin" /\ Start("offer", "pin", c).v = live
          /\ Start("give", "pin", c).at = "pin" /\ Start("give", "pin", c).v = live
      BY <2>1, StartType DEF Kinds, Stages
    <3>2. Channel(live, c) \in Rec  BY <2>1, ChannelType DEF Inv, Typed
    <3>3. CASE ReceiveOffer(s, c, p, k)
      <4>1. task' = [task EXCEPT ![s] = [Start("offer", "pin", c) EXCEPT
                                           !.copy = Channel(live, c), !.flag = TRUE]]
        BY <3>3 DEF ReceiveOffer
      <4> DEFINE e == [Start("offer", "pin", c) EXCEPT
                                           !.copy = Channel(live, c), !.flag = TRUE]
      <4>2. e \in Task  BY <3>1, <3>2, TaskType
      <4>3. e.at = "pin"  BY <3>1, <3>2, TaskType
      <4>4. e.v = live  BY <3>1, <3>2, TaskType
      <4> HIDE DEF e
      <4> QED  BY <4>1, <4>2, <4>3, <4>4 DEF e
    <3>4. CASE Give(s, c, p, k)
      <4>1. task' = [task EXCEPT ![s] = [Start("give", "pin", c) EXCEPT !.flag = TRUE]]
        BY <3>4 DEF Give
      <4> DEFINE e == [Start("give", "pin", c) EXCEPT !.flag = TRUE]
      <4>2. e \in Task  BY <3>1, <3>2, TaskType
      <4>3. e.at = "pin"  BY <3>1, <3>2, TaskType
      <4>4. e.v = live  BY <3>1, <3>2, TaskType
      <4> HIDE DEF e
      <4> QED  BY <4>1, <4>2, <4>3, <4>4 DEF e
    <3> QED  BY <1>3, <3>3, <3>4
  <2>3. /\ task'[s].at = "pin" /\ task'[s].v = live
        /\ \A x \in Lane : x # s => Same(x)
    BY <2>1, <2>2 DEF Inv, Typed, TypeOK, Same
  <2>4. Advance(s, puts)  BY <2>1 DEF Advance, Free, Writing
  <2> QED  BY <2>1, <2>3, <2>4, PinWrites, WritesKeep
<1> QED  BY <1>0, <1>1, <1>2, <1>3

LEMMA UserKeeps ==
    ASSUME Inv, Typed', ~Hasty, User
    PROVE  Inv'
<1>1. PICK u \in Ui, c \in Ch, kind \in Kinds, at \in {"call", "form"} :
        Gesture(u, kind, at, c)
  <2>1. PICK u \in Ui, c \in Ch :
          \/ StartEdit(u, c) \/ StartBlock(u, c) \/ StartAccept(u, c)
          \/ StartLeave(u, c) \/ StartJoin(u, c) \/ OpenDm(u, c) \/ StartCreate(u, c)
    BY DEF User
  <2>2. \E kind \in Kinds, at \in {"call", "form"} : Gesture(u, kind, at, c)
    BY <2>1 DEF StartEdit, StartBlock, StartAccept, StartLeave, StartJoin, OpenDm,
       StartCreate, Kinds
  <2> QED  BY <2>2
<1>2. /\ u \in Lane /\ Free(u) /\ live # 0 /\ live \in Object /\ vault[live].alive
      /\ UNCHANGED <<disk, puts, vault, live, behind>>
      /\ task' = [task EXCEPT ![u] =
                    [Start(kind, at, c) EXCEPT !.copy = Channel(live, c), !.flag = up]]
  BY <1>1 DEF Gesture, Calm, Lane, Inv, Typed, TypeOK
<1>3. /\ task'[u].at = at /\ task'[u].v = live
      /\ \A x \in Lane : x # u => task'[x] = task[x]
  <2>1. /\ Start(kind, at, c) \in Task /\ Start(kind, at, c).at = at
        /\ Start(kind, at, c).v = live
    BY <1>2, StartType DEF Stages
  <2>2. Channel(live, c) \in Rec /\ up \in BOOLEAN
    BY <1>2, ChannelType DEF Inv, Typed, TypeOK
  <2> DEFINE t == Start(kind, at, c)
             e == [t EXCEPT !.copy = Channel(live, c), !.flag = up]
  <2>5. task' = [task EXCEPT ![u] = e]  BY <1>2
  <2> HIDE DEF t
  <2>6. e.at = t.at /\ e.v = t.v  BY <2>1, <2>2, TaskType, ZenonT(60) DEF t
  <2>3. e.at = at  BY <2>1, <2>6 DEF t
  <2>4. e.v = live  BY <2>1, <2>6 DEF t
  <2> HIDE DEF e
  <2> QED  BY <1>2, <2>3, <2>4, <2>5 DEF Inv, Typed, TypeOK
<1>4. Moves(u, puts)
  BY <1>2, <1>3 DEF Moves, Advance, Stops, Same, Writing, Free
<1> QED  BY <1>2, <1>4, MovesKeep

LEMMA GotoTask ==
    ASSUME TypeOK, NEW s \in Lane, NEW at \in Stages, Goto(s, at)
    PROVE  /\ task'[s].at = at /\ task'[s].v = task[s].v
           /\ task'[s].kind = task[s].kind /\ task'[s].c = task[s].c
           /\ \A x \in Lane : x # s => Same(x)
BY TaskFields DEF TypeOK, Goto, Task, Same

LEMMA OfferKeeps ==
    ASSUME Inv, Typed', ~Hasty, NEW s \in Lane,
           OfferPinned(s) \/ OfferSaved(s) \/ Given(s)
    PROVE  Inv'
<1>0. /\ Landed(s) /\ live' = live /\ TypeOK /\ ~Free(s)
      /\ task[s].at \in {"pin", "save"}
  BY DEF OfferPinned, OfferSaved, Given, Waits, Free, Inv, Typed
<1>1. /\ live # 0 /\ live \in Object /\ vault[live].alive /\ task[s].v = live
      /\ Advance(s, Tail(puts))
  BY <1>0, AtWork DEF Advance
<1>2. CASE OfferPinned(s)
  <2> DEFINE rec == [task[s].copy EXCEPT !.here = TRUE, !.hasKey = TRUE,
                                         !.request = FALSE]
  <2>1. rec \in Rec /\ rec.hasKey  BY <1>0, TaskFields DEF Rec
  <2>2. /\ SaveChannel(s, live, task[s].c, rec, Tail(puts)) /\ Goto(s, "save")
        /\ task[s].c \in Ch
    BY <1>0, <1>1, <1>2, TaskFields DEF OfferPinned
  <2> HIDE DEF rec
  <2>3. /\ task'[s].at = "save" /\ task'[s].v = live /\ task'[s].c = task[s].c
        /\ \A x \in Lane : x # s => Same(x)
    BY <1>0, <1>1, <2>2, GotoTask DEF Stages
  <2> QED  BY <1>0, <1>1, <2>1, <2>2, <2>3, SaveWrites, WritesKeep
<1>3. CASE OfferSaved(s) \/ Given(s)
  <2>1. Finish(s) /\ puts' = Tail(puts) /\ vault' = vault
    BY <1>3 DEF OfferSaved, Given
  <2> QED  BY <1>0, <1>1, <2>1, FinishMoves, MovesKeep
<1> QED  BY <1>2, <1>3

LEMMA ListKeeps ==
    ASSUME Inv, Typed', ~Hasty, NEW s \in Lane,
           ListServed(s) \/ ListBack(s) \/ ListSaved(s)
    PROVE  Inv'
<1>0. /\ live' = live /\ TypeOK /\ ~Free(s) /\ task[s].kind = "list"
      /\ Calm \/ task[s].at = "save"
  BY DEF ListServed, ListBack, ListSaved, Waits, Free, Inv, Typed
<1>1. live # 0 /\ live \in Object /\ vault[live].alive /\ task[s].v = live
  BY <1>0, AtWork
<1>2. CASE ListServed(s)
  <2>1. /\ task[s].at = "call" /\ UNCHANGED <<disk, puts, vault, live, behind>>
        /\ task' = [task EXCEPT ![s] = [@ EXCEPT !.at = "back", !.list = srv,
                                  !.todo = {c \in Ch : srv[c].member}]]
    BY <1>2 DEF ListServed, Waits
  <2>2. /\ task'[s].at = "back" /\ task'[s].v = live
        /\ \A x \in Lane : x # s => Same(x)
    BY <1>0, <1>1, <2>1, TaskFields DEF TypeOK, Task, Same
  <2>3. Moves(s, puts)
    BY <1>0, <1>1, <2>1, <2>2 DEF Moves, Advance, Writing, Stops
  <2> QED  BY <2>3, MovesKeep
<1>3. ASSUME NEW q, Advance(s, q), Iterate(s, q), task[s].at # "del"
      PROVE  Inv'
  <2>1. q \in Seq(Put)  BY <1>3, Advanced
  <2>2. CASE puts' = q /\ Finish(s) /\ UNCHANGED vault
    BY <1>0, <1>3, <2>2, FinishMoves, MovesKeep
  <2>3. ASSUME NEW c \in Ch, NEW rec \in Rec,
               SaveChannel(s, task[s].v, c, rec, q),
               \A x \in Lane : x # s => task'[x] = task[x],
               task'[s].at = "save", task'[s].v = task[s].v,
               task'[s].kind = task[s].kind
        PROVE  Inv'
    <3>1. SaveChannel(s, live, c, rec, q) /\ task'[s].v = live
      BY <1>1, <2>3
    <3>2. \A x \in Lane : x # s => Same(x)  BY <2>3 DEF Same
    <3>3. task'[s].kind # "offer"  BY <1>0, <2>3
    <3> QED  BY <1>0, <1>1, <1>3, <2>3, <3>1, <3>2, <3>3, SaveWrites, WritesKeep
  <2> QED  BY <1>0, <1>3, <2>1, <2>2, <2>3, IterateWrites
<1>4. CASE ListBack(s)
  <2>1. Advance(s, puts)  BY <1>4 DEF ListBack, Advance, Writing, Waits
  <2> QED  BY <1>3, <1>4, <2>1 DEF ListBack, Waits
<1>5. CASE ListSaved(s)
  BY <1>3, <1>5 DEF ListSaved, Advance, Waits
<1> QED  BY <1>2, <1>4, <1>5

LEMMA ServedKeeps ==
    ASSUME Inv, Typed', ~Hasty, NEW s \in Lane, Served(s)
    PROVE  Inv'
<1>1. /\ task[s].at = "call" /\ s \notin Fetcher /\ TypeOK
      /\ UNCHANGED <<disk, puts, vault, live, behind>>
      /\ Goto(s, "back") \/ Finish(s)
  BY LaneAssumption DEF Served, Inv, Typed
<1>2. live # 0 /\ vault[live].alive  BY <1>1, AtWork DEF Free
<1>3. CASE Goto(s, "back")
  <2>1. Moves(s, puts)  BY <1>1, <1>2, <1>3, GotoMoves DEF Stages
  <2> QED  BY <2>1, MovesKeep
<1>4. CASE Finish(s)
  <2>1. Advance(s, puts)  BY <1>1 DEF Advance, Writing
  <2>2. Moves(s, puts)  BY <1>1, <1>4, <2>1, FinishMoves
  <2> QED  BY <2>2, MovesKeep
<1> QED  BY <1>1, <1>3, <1>4

LEMMA OnceKeeps ==
    ASSUME Inv, Typed', ~Hasty, NEW s \in Lane, Calm, WritesOnce(s)
    PROVE  Inv'
<1>1. PICK rec \in Rec :
        /\ Write(s, rec) /\ task[s].kind # "offer" /\ task[s].at \in {"form", "back"}
        /\ UNCHANGED <<disk, live, behind>>
  BY DEF WritesOnce
<1>2. /\ live # 0 /\ live \in Object /\ vault[live].alive /\ task[s].v = live
      /\ TypeOK
  BY <1>1, AtWork DEF Free, Inv, Typed
<1>3. /\ SaveChannel(s, live, task[s].c, rec, puts) /\ Goto(s, "save")
      /\ task[s].c \in Ch
  BY <1>1, <1>2, TaskFields DEF Write
<1>4. /\ task'[s].at = "save" /\ task'[s].v = live /\ task'[s].kind # "offer"
      /\ \A x \in Lane : x # s => Same(x)
  BY <1>1, <1>2, <1>3, GotoTask DEF Stages
<1>5. Advance(s, puts)  BY <1>1 DEF Advance, Writing
<1> QED  BY <1>1, <1>2, <1>3, <1>4, <1>5, SaveWrites, WritesKeep

LEMMA LeaveKeeps ==
    ASSUME Inv, Typed', ~Hasty, NEW s \in Lane, Left(s) \/ TranscriptDeleted(s)
    PROVE  Inv'
<1>0. /\ TypeOK /\ ~Free(s)
      /\ Calm \/ task[s].at = "del"
      /\ UNCHANGED <<disk, live, behind>> /\ task[s].kind = "leave"
  BY DEF Left, TranscriptDeleted, Waits, Free, Inv, Typed
<1>1. /\ live # 0 /\ live \in Object /\ vault[live].alive /\ task[s].v = live
      /\ vault[live].data \in Data /\ task[s].c \in Ch
  <2>1. live # 0 /\ live \in Object /\ vault[live].alive /\ task[s].v = live
    BY <1>0, AtWork
  <2> QED  BY <1>0, <2>1, TaskFields
<1>2. CASE Left(s)
  <2> PICK c \in Ch : c = task[s].c  BY <1>1
  <2> PICK d \in Data : d = vault[live].data  BY <1>1
  <2>1. /\ vault' = [vault EXCEPT ![live].data.chans[c] = NoRec]
        /\ puts' = puts /\ Goto(s, "del") /\ ~Writing(s) /\ task[s].at = "back"
    BY <1>1, <1>2 DEF Left, Waits, Writing
  <2>2. /\ vault'[live].alive /\ vault'[live].data.pins = d.pins
        /\ vault'[live].data.chans = [d.chans EXCEPT ![c] = NoRec]
        /\ d.chans \in [Ch -> Rec]
    BY <1>0, <1>1, <2>1 DEF TypeOK, Data
  <2>3. /\ task'[s].at = "del" /\ task'[s].c = c /\ task'[s].v = live
        /\ \A x \in Lane : x # s => Same(x)
    BY <1>0, <1>1, <2>1, GotoTask DEF Stages
  <2>4. Alone'
    BY <1>0, <1>1, <2>2, <2>3 DEF Inv, Alone, Free, Same
  <2>5. \A i \in DOMAIN puts : Same(puts[i].lane)
    <3>1. \A i \in DOMAIN puts : puts[i].lane \in Lane
      <4>1. puts \in Seq(Put)  BY <1>0 DEF TypeOK
      <4>2. \A i \in DOMAIN puts : puts[i] \in Put  BY <4>1
      <4> QED  BY <4>2 DEF Put
    <3> QED  BY <2>1, <2>3, <3>1 DEF Inv, OnePut
  <2>6. OnePut' /\ OfferPut'
    BY <2>1, <2>5 DEF Inv, OnePut, OfferPut, Writing, Same
  <2>7. Sealed(disk, puts)' /\ Chain(disk, puts)'
    BY <1>0, <2>1 DEF Inv, Sealed, Chain, Pins
  <2>8. Memory'
    <3> SUFFICES
          /\ Below(disk, puts, vault'[live].data)
          /\ puts # <<>> \/ ~behind =>
               /\ Latest(disk, puts).data.pins = vault'[live].data.pins
               /\ \A x \in Ch :
                    \/ Latest(disk, puts).data.chans[x] = vault'[live].data.chans[x]
                    \/ vault'[live].data.chans[x] = NoRec /\ Removing(x)'
      BY <1>0, <2>1 DEF Memory, Below, Pins, Latest, Reaches
    <3>1. Below(disk, puts, d)  BY <1>1 DEF Inv, Memory
    <3>2. Below(disk, puts, vault'[live].data)
      BY <2>2, <3>1 DEF Below, Pins
    <3>3. Removing(c)'  BY <2>3 DEF Removing
    <3>4. ASSUME NEW x \in Ch, Removing(x) PROVE Removing(x)'
      BY <2>1, <2>3, <3>4 DEF Removing, Same
    <3>5. ASSUME puts # <<>> \/ ~behind PROVE Reaches(Latest(disk, puts), d)
      BY <1>1, <3>5 DEF Inv, Memory
    <3>6. ASSUME puts # <<>> \/ ~behind, NEW x \in Ch
          PROVE  \/ Latest(disk, puts).data.chans[x] = vault'[live].data.chans[x]
                 \/ vault'[live].data.chans[x] = NoRec /\ Removing(x)'
      <4>1. CASE x = c  BY <2>2, <3>3, <4>1
      <4>2. CASE x # c
        <5>1. vault'[live].data.chans[x] = d.chans[x]  BY <2>2, <4>2
        <5> QED  BY <3>4, <3>5, <3>6, <5>1 DEF Reaches
      <4> QED  BY <4>1, <4>2
    <3> QED  BY <2>2, <3>2, <3>5, <3>6 DEF Reaches
  <2> QED  BY <2>4, <2>6, <2>7, <2>8 DEF Inv
<1>3. CASE TranscriptDeleted(s)
  <2>1. /\ Flush(s, live, vault[live].data, puts) /\ Goto(s, "save")
        /\ task[s].at = "del"
    BY <1>1, <1>3 DEF TranscriptDeleted, Waits
  <2>2. /\ task'[s].at = "save" /\ task'[s].v = live /\ task'[s].kind # "offer"
        /\ \A x \in Lane : x # s => Same(x)
    BY <1>0, <1>1, <2>1, GotoTask DEF Stages
  <2>3. Writes(s, puts, vault[live].data)
    BY <1>0, <1>1, <2>1, <2>2 DEF Writes, Advance, Writing, Pins
  <2> QED  BY <1>1, <2>3, WritesKeep
<1> QED  BY <1>2, <1>3

LEMMA SavedKeeps ==
    ASSUME Inv, Typed', ~Hasty, NEW s \in Lane, Saved(s)
    PROVE  Inv'
<1>0. /\ Landed(s) /\ live' = live /\ TypeOK /\ ~Free(s)
      /\ task[s].at = "save"
  BY DEF Saved, Free, Inv, Typed
<1>1. /\ live # 0 /\ live \in Object /\ vault[live].alive /\ task[s].v = live
      /\ Advance(s, Tail(puts))
  BY <1>0, AtWork DEF Advance
<1>2. CASE task[s].kind = "dm" /\ task[s].c \notin held /\ up /\ live = task[s].v
  <2>1. PICK p \in Peers, k \in SignKeys : PinContact(s, live, p, k, Tail(puts))
    BY <1>1, <1>2 DEF Saved
  <2>2. task' = [task EXCEPT ![s] = [@ EXCEPT !.kind = "give", !.at = "pin",
                                             !.flag = TRUE]]
    BY <1>2 DEF Saved
  <2>3. /\ task'[s].at = "pin" /\ task'[s].v = live
        /\ \A x \in Lane : x # s => Same(x)
    BY <1>0, <1>1, <2>2, TaskFields DEF TypeOK, Task, Same
  <2> QED  BY <1>0, <1>1, <2>1, <2>3, PinWrites, WritesKeep
<1>3. CASE ~(task[s].kind = "dm" /\ task[s].c \notin held /\ up /\ live = task[s].v)
  <2>1. Finish(s) /\ puts' = Tail(puts) /\ vault' = vault
    BY <1>3 DEF Saved
  <2> QED  BY <1>0, <1>1, <2>1, FinishMoves, MovesKeep
<1> QED  BY <1>2, <1>3

LEMMA GoesKeep ==
    ASSUME Inv, Typed', ~Hasty, NEW s \in Lane, Goes(s)
    PROVE  Inv'
<1>1. CASE OfferPinned(s) \/ OfferSaved(s) \/ Given(s)  BY <1>1, OfferKeeps
<1>2. CASE ListServed(s) \/ ListBack(s) \/ ListSaved(s)  BY <1>2, ListKeeps
<1>3. CASE Served(s)  BY <1>3, ServedKeeps
<1>4. CASE \/ SubmitEdit(s) \/ Blocked(s) \/ Accepted(s) \/ Created(s) \/ DmOpened(s)
  <2>1. Calm  BY <1>4 DEF SubmitEdit, Blocked, Accepted, Created, DmOpened
  <2> QED  BY <1>4, <2>1, MenuWrites, OnceKeeps DEF Inv, Typed
<1>5. CASE Joined(s)
  <2>1. Calm  BY <1>5 DEF Joined
  <2>2. CASE WritesOnce(s)  BY <2>1, <2>2, OnceKeeps
  <2>3. CASE /\ Finish(s) /\ task[s].at = "back"
             /\ UNCHANGED <<sort, disk, puts, vault, live, srv, up, parked, behind,
                            left, held>>
    <3>1. Advance(s, puts)  BY <2>3 DEF Advance, Writing
    <3>2. Moves(s, puts)  BY <2>3, <3>1, FinishMoves
    <3> QED  BY <3>2, MovesKeep
  <2> QED  BY <1>5, <2>2, <2>3, JoinWrites DEF Inv, Typed
<1>6. CASE Left(s) \/ TranscriptDeleted(s)  BY <1>6, LeaveKeeps
<1>7. CASE Saved(s)  BY <1>7, SavedKeeps
<1> QED  BY <1>1, <1>2, <1>3, <1>4, <1>5, <1>6, <1>7 DEF Goes

LEMMA InitInv == Init => Inv
<1> SUFFICES ASSUME Init PROVE Inv  OBVIOUS
<1>1. Typed  BY InitTyped
<1>2. /\ puts = <<>> /\ live = 0 /\ disk.good
      /\ \A s \in Lane : task[s].at = "idle"
  BY IdleType DEF Init
<1> QED  BY <1>1, <1>2
         DEF Inv, Alone, Free, OnePut, OfferPut, Sealed, Chain, Memory

LEMMA StepInv ==
    ASSUME ~Hasty
    PROVE  Inv /\ [Next]_vars => Inv'
<1> SUFFICES ASSUME Inv, [Next]_vars PROVE Inv'  OBVIOUS
<1>0. Typed'  BY StepTyped DEF Inv
<1>1. CASE Open \/ Lock \/ Locked \/ TabDies \/ Connect \/ Drop \/ PutFails
  BY <1>0, <1>1, SessionKeeps
<1>2. CASE Relay  BY <1>0, <1>2, RelayKeeps
<1>3. CASE User   BY <1>0, <1>3, UserKeeps
<1>4. CASE \E s \in Lane : Goes(s)  BY <1>0, <1>4, GoesKeep
<1>5. CASE UNCHANGED vars
  BY <1>0, <1>5, SameKeeps DEF vars, Same
<1> QED  BY <1>1, <1>2, <1>3, <1>4, <1>5 DEF Next

LEMMA InvHolds ==
    ASSUME ~Hasty
    PROVE  Spec => []Inv
BY InitInv, StepInv, PTL DEF Spec

-----------------------------------------------------------------------------
(* The theorems                                                            *)

\* Logging out leaves a vault the password opens, if no write was under way.
THEOREM PatientLogout ==
    ASSUME ~Hasty
    PROVE  Spec => []VaultStillOpens
<1>1. Inv => VaultStillOpens  BY DEF Inv, Sealed, VaultStillOpens
<1> QED  BY <1>1, InvHolds, PTL

\* Saves that overlap lose nothing to each other: whenever all of them have
\* landed, the sealed vault is the one in memory.
THEOREM NothingIsLost ==
    ASSUME ~Hasty
    PROVE  Spec => []DiskFollowsMemory
<1>1. Inv => DiskFollowsMemory
  <2> SUFFICES ASSUME Inv, live # 0, vault[live].alive, puts = <<>>, ~behind,
                      \A s \in Lane : task[s].at # "del"
               PROVE  disk = [good |-> TRUE, data |-> vault[live].data]
    BY DEF DiskFollowsMemory
  <2>1. /\ Reaches(disk, vault[live].data) /\ disk.good
        /\ \A c \in Ch : ~Removing(c)
    BY DEF Inv, Memory, Latest, Sealed, Removing
  <2>2. disk \in Blob /\ vault[live].data \in Data
    BY DEF Inv, Typed, TypeOK
  <2>3. disk.data.chans = vault[live].data.chans
    BY <2>1, <2>2 DEF Reaches, Blob, Data
  <2>4. disk.data = vault[live].data
    BY <2>1, <2>2, <2>3 DEF Reaches, Blob, Data
  <2> QED  BY <2>1, <2>2, <2>4 DEF Blob
<1> QED  BY <1>1, InvHolds, PTL

\* Only a put that commits changes the sealed vault.
LEMMA DiskMoves ==
    ASSUME [Next]_vars
    PROVE  disk' = disk \/ \E s \in Lane : Landed(s)
<1>1. CASE Open \/ Lock \/ Locked \/ TabDies \/ Connect \/ Drop \/ PutFails
  BY <1>1 DEF Open, Lock, Locked, TabDies, Connect, Drop, PutFails
<1>2. CASE Relay
  BY <1>2 DEF Relay, Invited, AlreadyKeyed, ReceiveOffer, Give
<1>3. CASE User
  BY <1>3, SMTT(30) DEF User, StartEdit, StartBlock, StartAccept, StartLeave, StartJoin,
     OpenDm, StartCreate, Gesture
<1>4. CASE \E s \in Lane : Goes(s)
  BY <1>4, ZenonT(60) DEF Goes, OfferPinned, OfferSaved, Given, ListServed, ListBack, ListSaved,
     Served, SubmitEdit, Blocked, Accepted, Created, Joined, DmOpened, Left,
     TranscriptDeleted, Saved
<1>5. CASE UNCHANGED vars  BY <1>5 DEF vars
<1> QED  BY <1>1, <1>2, <1>3, <1>4, <1>5 DEF Next

\* Trust on first use survives overlapping writers: the key first pinned for a
\* contact stays on the disk, whatever order the writes land in.
THEOREM FirstPinStays ==
    ASSUME ~Hasty
    PROVE  Spec => PinsStay
<1>1. Inv /\ [Next]_vars =>
        [\A p \in Peers :
            (disk.good /\ disk'.good /\ disk.data.pins[p] # NoKey)
            => disk'.data.pins[p] = disk.data.pins[p]]_vars
  <2> SUFFICES ASSUME Inv, [Next]_vars, NEW p \in Peers, disk.data.pins[p] # NoKey
               PROVE  disk'.data.pins[p] = disk.data.pins[p]
    OBVIOUS
  <2>1. CASE disk' = disk  BY <2>1
  <2>2. ASSUME NEW s \in Lane, Landed(s)
        PROVE  disk'.data.pins[p] = disk.data.pins[p]
    <3>1. disk' = puts[1].blob /\ 1 \in DOMAIN puts
      BY <2>2, QueueType DEF Landed, Inv, Typed, TypeOK
    <3> QED  BY <3>1 DEF Inv, Chain, Pins
  <2> QED  BY <2>1, <2>2, DiskMoves
<1> QED  BY <1>1, InvHolds, PTL DEF Spec, PinsStay

\* The relay lets go of an offer only when a crash cannot lose its key, but for
\* a write that failed or is one of the next to land.
THEOREM AckAfterStore ==
    ASSUME ~Hasty
    PROVE  Spec => AckedIsKept
<1>1. Inv /\ [Next]_vars =>
        [\A c \in Ch :
            (c \in parked /\ c \notin parked' /\ srv'[c].member)
            => \/ disk'.data.chans[c].hasKey \/ behind
               \/ \E i \in DOMAIN puts : puts[i].blob.data.chans[c].hasKey]_vars
  <2> SUFFICES ASSUME Inv, [Next]_vars, NEW c \in Ch,
                      c \in parked, c \notin parked', srv'[c].member, ~behind
               PROVE  \/ disk'.data.chans[c].hasKey
                      \/ \E i \in DOMAIN puts : puts[i].blob.data.chans[c].hasKey
    OBVIOUS
  <2>0. TypeOK  BY DEF Inv, Typed
  <2>1. \/ AlreadyKeyed(c)
        \/ \E s \in Lane : OfferSaved(s) /\ task[s].c = c
    <3>1. CASE Open \/ Lock \/ Locked \/ TabDies \/ Connect \/ Drop \/ PutFails
      BY <3>1 DEF Open, Lock, Locked, TabDies, Connect, Drop, PutFails, Request
    <3>2. CASE Relay
      BY <3>2 DEF Relay, Invited, AlreadyKeyed, ReceiveOffer, Give, Ack
    <3>3. CASE User
      BY <3>3 DEF User, StartEdit, StartBlock, StartAccept, StartLeave, StartJoin,
         OpenDm, StartCreate, Gesture
    <3>4. ASSUME NEW s \in Lane, Goes(s)
          PROVE  OfferSaved(s) /\ task[s].c = c
      <4>1. CASE Served(s)
        <5>1. parked' = parked \ {task[s].c} /\ task[s].kind = "leave" /\ task[s].c = c
          BY <4>1 DEF Served
        <5>2. srv' = [srv EXCEPT ![c] = [@ EXCEPT !.member = FALSE, !.request = FALSE]]
          BY <2>0, <4>1, <5>1 DEF Served
        <5>3. srv'[c] = [srv[c] EXCEPT !.member = FALSE, !.request = FALSE]
          BY <2>0, <5>2 DEF TypeOK
        <5>4. srv[c] \in Srv  BY <2>0 DEF TypeOK
        <5>5. ~srv'[c].member  BY <5>3, <5>4 DEF Srv
        <5> QED  BY <5>5
      <4>2. CASE OfferSaved(s)  BY <4>2 DEF OfferSaved, Ack
      <4> QED  BY <3>4, <4>1, <4>2 DEF Goes, OfferPinned, Given, ListServed, ListBack,
               ListSaved, SubmitEdit, Blocked, Accepted, Created, Joined, DmOpened,
               Left, TranscriptDeleted, Saved, Request
    <3>5. CASE UNCHANGED vars  BY <3>5 DEF vars
    <3> QED  BY <3>1, <3>2, <3>3, <3>4, <3>5 DEF Next
  <2>2. CASE AlreadyKeyed(c)
    <3>1. /\ live # 0 /\ live \in Object /\ vault[live].data.chans[c].hasKey
          /\ disk' = disk
      BY <2>0, <2>2 DEF AlreadyKeyed, Channel, TypeOK
    <3>2. CASE vault[live].alive
      <4>1. Reaches(Latest(disk, puts), vault[live].data)
        BY <3>1, <3>2 DEF Inv, Memory
      <4>2. Latest(disk, puts).data.chans[c].hasKey
        BY <3>1, <4>1, RecType DEF Reaches
      <4>3. puts # <<>> => Len(puts) \in DOMAIN puts  BY <2>0 DEF TypeOK
      <4> QED  BY <3>1, <4>2, <4>3 DEF Latest
    <3>3. CASE ~vault[live].alive
      <4>1. Hasty  BY <2>2, <3>1, <3>3 DEF AlreadyKeyed, Calm
      <4> QED  BY <4>1
    <3> QED  BY <3>2, <3>3
  <2>3. ASSUME NEW s \in Lane, OfferSaved(s), task[s].c = c
        PROVE  disk'.data.chans[c].hasKey
    <3>1. disk' = puts[1].blob /\ 1 \in DOMAIN puts /\ puts[1].lane = s
      BY <2>0, <2>3, QueueType DEF OfferSaved, Landed, TypeOK
    <3>2. task[s].kind = "offer" /\ task[s].at = "save"
      BY <2>3 DEF OfferSaved, Waits
    <3> QED  BY <2>3, <3>1, <3>2 DEF Inv, OfferPut
  <2> QED  BY <2>1, <2>2, <2>3
<1> QED  BY <1>1, InvHolds, PTL DEF Spec, AckedIsKept

LEMMA SaveKeys ==
    ASSUME TypeOK, NEW s \in Lane, NEW o \in Object, NEW c \in Ch, NEW r \in Rec,
           NEW queue \in Seq(Put), SaveChannel(s, o, c, r, queue)
    PROVE  \A x \in Object, y \in Ch :
              vault'[x].data.chans[y] =
                 IF x = o /\ y = c THEN r ELSE vault[x].data.chans[y]
<1>1. vault[o].data \in Data  BY DEF TypeOK
<1> DEFINE d == [vault[o].data EXCEPT !.chans[c] = r]
<1>2. d \in Data /\ d.chans = [vault[o].data.chans EXCEPT ![c] = r]
  BY <1>1, SetRec
<1>3. Flush(s, o, d, queue)  BY DEF SaveChannel
<1> HIDE DEF d
<1>4. /\ vault'[o].data = d
      /\ \A x \in Object : x # o => vault'[x] = vault[x]
  BY <1>2, <1>3, FlushType
<1> QED  BY <1>1, <1>2, <1>4 DEF Data

LEMMA PinKeys ==
    ASSUME TypeOK, NEW s \in Lane, NEW o \in Object, NEW p \in Peers,
           NEW k \in SignKeys, NEW queue \in Seq(Put), PinContact(s, o, p, k, queue)
    PROVE  \A x \in Object : vault'[x].data.chans = vault[x].data.chans
<1>1. vault[o].data \in Data  BY DEF TypeOK
<1> DEFINE d == [vault[o].data EXCEPT !.pins[p] = IF @ = NoKey THEN k ELSE @]
<1>2. d \in Data /\ d.chans = vault[o].data.chans  BY <1>1, SetPin
<1>3. Flush(s, o, d, queue)  BY DEF PinContact
<1> HIDE DEF d
<1>4. /\ vault'[o].data = d
      /\ \A x \in Object : x # o => vault'[x] = vault[x]
  BY <1>2, <1>3, FlushType
<1> QED  BY <1>2, <1>4

\* The action of KeyLostOnlyByMenu, for one channel.
Undone(c) == /\ live # 0 /\ live' = live
             /\ Channel(live, c).hasKey /\ ~vault'[live].data.chans[c].hasKey
ByMenu(c) == \E u \in Lane : /\ task[u].c = c
                             /\ \/ task[u].kind = "leave"
                                \/ /\ task[u].kind \in {"edit", "block", "accept"}
                                   /\ ~task[u].copy.hasKey

LEMMA GoesLoses ==
    ASSUME Typed, NEW s \in Lane, Goes(s), NEW c \in Ch, Undone(c)
    PROVE  ByMenu(c)
<1>0. /\ TypeOK /\ live \in Object /\ vault[live].data.chans[c].hasKey
      /\ ~vault'[live].data.chans[c].hasKey
      /\ task[s].v \in Object /\ task[s].c \in Ch /\ puts \in Seq(Put)
  BY TaskFields DEF Undone, Channel, Typed, TypeOK
<1>1. CASE OfferPinned(s)
  <2>1. PICK rec \in Rec : /\ SaveChannel(s, task[s].v, task[s].c, rec, Tail(puts))
                           /\ rec.hasKey
    <3> DEFINE r == [task[s].copy EXCEPT !.here = TRUE, !.hasKey = TRUE,
                                         !.request = FALSE]
    <3>1. r \in Rec /\ r.hasKey  BY <1>0, TaskFields DEF Rec
    <3>2. SaveChannel(s, task[s].v, task[s].c, r, Tail(puts))
      BY <1>1 DEF OfferPinned
    <3> HIDE DEF r
    <3> QED  BY <3>1, <3>2
  <2>2. PICK q \in Seq(Put) : q = Tail(puts)
    BY <1>0, <1>1, LandedType DEF OfferPinned
  <2>3. vault'[live].data.chans[c] = IF live = task[s].v /\ c = task[s].c
                                    THEN rec ELSE vault[live].data.chans[c]
    <3>1. SaveChannel(s, task[s].v, task[s].c, rec, q)  BY <2>1, <2>2
    <3> QED  BY <1>0, <3>1, SaveKeys
  <2> QED  BY <1>0, <2>1, <2>3
<1>2. ASSUME NEW q \in Seq(Put), Iterate(s, q) PROVE FALSE
  <2>1. ASSUME NEW y \in Ch, NEW rec \in Rec,
               SaveChannel(s, task[s].v, y, rec, q),
               Channel(task[s].v, y).hasKey => rec.hasKey
        PROVE  FALSE
    <3>1. vault'[live].data.chans[c] = IF live = task[s].v /\ c = y
                                      THEN rec ELSE vault[live].data.chans[c]
      BY <1>0, <1>2, <2>1, SaveKeys
    <3> QED  BY <1>0, <2>1, <3>1 DEF Channel
  <2>2. CASE UNCHANGED vault  BY <1>0, <2>2
  <2> QED  BY <1>0, <1>2, <2>1, <2>2, IterateWrites
<1>3. CASE ListBack(s)  BY <1>0, <1>2, <1>3 DEF ListBack
<1>4. CASE ListSaved(s)  BY <1>0, <1>2, <1>4, LandedType DEF ListSaved
<1>5. CASE WritesOnce(s)
  <2>1. PICK rec \in Rec :
          /\ SaveChannel(s, task[s].v, task[s].c, rec, puts)
          /\ ~rec.hasKey => \/ ~Channel(task[s].v, task[s].c).hasKey
                            \/ /\ task[s].kind \in {"edit", "block", "accept"}
                               /\ ~task[s].copy.hasKey
    BY <1>5 DEF WritesOnce, Write
  <2>2. task[s].v = live /\ task[s].c = c /\ ~rec.hasKey
    BY <1>0, <2>1, SaveKeys
  <2> QED  BY <1>0, <2>1, <2>2 DEF ByMenu, Channel
<1>6. CASE Left(s)
  <2>1. task[s].kind = "leave"  BY <1>6 DEF Left, Waits
  <2>2. task[s].c = c
    <3>1. vault' = [vault EXCEPT ![task[s].v].data.chans[task[s].c] = NoRec]
      BY <1>6 DEF Left
    <3> QED  BY <1>0, <3>1 DEF TypeOK, Data
  <2> QED  BY <2>1, <2>2 DEF ByMenu
<1>7. CASE TranscriptDeleted(s)
  <2>1. Flush(s, task[s].v, vault[task[s].v].data, puts)
        /\ vault[task[s].v].data \in Data
    BY <1>0, <1>7 DEF TranscriptDeleted, TypeOK
  <2>2. \A x \in Object : vault'[x].data = vault[x].data
    BY <1>0, <2>1, FlushType
  <2> QED  BY <1>0, <2>2
<1>8. CASE Saved(s)
  <2>1. Tail(puts) \in Seq(Put)  BY <1>0, <1>8, LandedType DEF Saved
  <2>2. ASSUME NEW p \in Peers, NEW k \in SignKeys,
               PinContact(s, task[s].v, p, k, Tail(puts))
        PROVE  FALSE
    BY <1>0, <2>1, <2>2, PinKeys
  <2>3. CASE UNCHANGED vault  BY <1>0, <2>3
  <2> QED  BY <1>8, <2>2, <2>3 DEF Saved
<1>9. CASE UNCHANGED vault  BY <1>0, <1>9
<1>10. CASE Joined(s)  BY <1>0, <1>5, <1>9, <1>10, JoinWrites
<1>11. CASE \/ SubmitEdit(s) \/ Blocked(s) \/ Accepted(s) \/ Created(s) \/ DmOpened(s)
  BY <1>0, <1>5, <1>11, MenuWrites
<1>12. CASE OfferSaved(s) \/ Given(s) \/ ListServed(s) \/ Served(s)
  BY <1>9, <1>12 DEF OfferSaved, Given, ListServed, Served
<1> QED  BY <1>1, <1>3, <1>4, <1>6, <1>7, <1>8, <1>10, <1>11, <1>12 DEF Goes

\* A stored key goes only when the channel is left or a menu writes back a copy
\* of the record that is older than the key; also for a hasty user.
THEOREM KeysStay == Spec => KeyLostOnlyByMenu
<1>1. Typed /\ [Next]_vars =>
        [\A c \in Ch :
            (/\ live # 0 /\ live' = live
             /\ Channel(live, c).hasKey /\ ~vault'[live].data.chans[c].hasKey)
            => \E u \in Lane : /\ task[u].c = c
                               /\ \/ task[u].kind = "leave"
                                  \/ /\ task[u].kind \in {"edit", "block", "accept"}
                                     /\ ~task[u].copy.hasKey]_vars
  <2> SUFFICES ASSUME Typed, [Next]_vars, NEW c \in Ch, Undone(c)
               PROVE  ByMenu(c)
    BY DEF Undone, ByMenu
  <2>0. TypeOK /\ live \in Object /\ puts \in Seq(Put)
    BY DEF Undone, Typed, TypeOK
  <2>1. CASE Open \/ Lock \/ Locked \/ TabDies \/ Connect \/ Drop \/ PutFails
    <3>1. CASE Lock
      <4>1. vault'[live].data = vault[live].data
        BY <2>0, <3>1 DEF Lock, TypeOK
      <4> QED  BY <4>1 DEF Undone, Channel
    <3> QED  BY <2>1, <3>1 DEF Open, Locked, TabDies, Connect, Drop, PutFails,
             Undone, Channel
  <2>2. CASE Relay
    <3>1. ASSUME NEW s \in Frame, NEW p \in Peers, NEW k \in SignKeys,
                 PinContact(s, live, p, k, puts)
          PROVE  FALSE
      <4>1. s \in Lane  BY DEF Lane
      <4>2. vault'[live].data.chans = vault[live].data.chans
        BY <2>0, <3>1, <4>1, PinKeys
      <4> QED  BY <4>2 DEF Undone, Channel
    <3>2. CASE UNCHANGED vault  BY <3>2 DEF Undone, Channel
    <3> QED  BY <2>2, <3>1, <3>2 DEF Relay, Invited, AlreadyKeyed, ReceiveOffer, Give
  <2>3. CASE User
    BY <2>3 DEF User, StartEdit, StartBlock, StartAccept, StartLeave, StartJoin,
       OpenDm, StartCreate, Gesture, Undone, Channel
  <2>4. CASE \E s \in Lane : Goes(s)  BY <2>4, GoesLoses
  <2>5. CASE UNCHANGED vars  BY <2>5 DEF vars, Undone, Channel
  <2> QED  BY <2>1, <2>2, <2>3, <2>4, <2>5 DEF Next
<1> QED  BY <1>1, TypedHolds, PTL DEF Spec, KeyLostOnlyByMenu
=============================================================================
