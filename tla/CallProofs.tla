
----------------------------- MODULE CallProofs -----------------------------
(* Theorems about Call, for any accounts, tabs and calls.                  *)
EXTENDS Call, TLAPS

-----------------------------------------------------------------------------
(* The inductive invariant                                                 *)

\* A call somebody can name was placed by a tab.
Known ==
    /\ \A m \in wire : m.kind = "offer" => placed[m.call].by # None
    /\ \A t \in Tab : /\ ui[t].incoming # None => placed[ui[t].incoming].by # None
                      /\ rendered[t].incoming # None =>
                            placed[rendered[t].incoming].by # None
    /\ \A t \in Tab, c \in Call : task[t][c].at # "none" => placed[c].by # None

\* A tab with a call shows it, and its listener was registered knowing it.
Shown(t) ==
    ui[t].callId # None =>
        /\ ui[t].status \notin {"idle", "ringing-in"}
        /\ rendered[t].status \notin {"idle", "ringing-in"}

\* The ring that is set and the ring that is shown are the offer in the ref.
Offers(t) ==
    ui[t].offer # None =>
        /\ ui[t].incoming \in {None, ui[t].offer}
        /\ rendered[t].status = "ringing-in" =>
               rendered[t].incoming \in {None, ui[t].offer}

\* Until a call is abandoned, whatever is open or under way is the call's.
Owned(t) ==
    ~abandoned[t] =>
        /\ \A c \in InFlight(t) : c = ui[t].callId
        /\ \A c \in live[t] : c = ui[t].local
        /\ ui[t].local \in {None, ui[t].callId}
        /\ ui[t].pc \in {None, ui[t].callId}
        /\ \A c \in Call : IsOpen(t, c) => ui[t].pc = c
        /\ \A c \in Call : remote[t][c] \in {None, c}

\* accept was given the offer of its call.
Given(t) == \A c \in Call : task[t][c].sdp \in {None, c}

TabInv(t) == Shown(t) /\ Offers(t) /\ Owned(t) /\ Given(t)

CallInv == TypeOK /\ Known /\ \A t \in Tab : TabInv(t)

-----------------------------------------------------------------------------
(* The helpers of the actions                                              *)

LEMMA FramesType ==
    ASSUME NEW kind \in {"offer", "answer", "decline", "hangup"},
           NEW t \in Tab, NEW c \in Call, NEW u
    PROVE  /\ Frames(kind, t, c, u) \subseteq Signal
           /\ \A m \in Frames(kind, t, c, u) : m.kind = kind /\ m.call = c
BY OwnerAssumption DEF Frames, Signal

LEMMA BlankType ==
    /\ Blank \in Provider /\ Blank.status = "idle"
    /\ Blank.callId = None /\ Blank.pc = None /\ Blank.local = None
    /\ Blank.offer = None /\ Blank.incoming = None
BY DEF Blank, Provider, Status, MaybeCall

LEMMA ViewType ==
    ASSUME NEW p \in Provider
    PROVE  /\ View(p) \in [status : Status, incoming : MaybeCall]
           /\ View(p).status = p.status /\ View(p).incoming = p.incoming
BY DEF View, Provider

LEMMA CommitEffect ==
    ASSUME TypeOK, NEW t \in Tab, ui'[t] \in Provider, Commit(t)
    PROVE  /\ rendered' \in [Tab -> [status : Status, incoming : MaybeCall]]
           /\ rendered'[t].status = ui'[t].status
           /\ rendered'[t].incoming = ui'[t].incoming
           /\ \A x \in Tab \ {t} : rendered'[x] = rendered[x]
BY ViewType DEF TypeOK, Commit

LEMMA UiEffect ==
    ASSUME TypeOK, NEW t \in Tab, NEW q \in Provider,
           ui' = [ui EXCEPT ![t] = q]
    PROVE  /\ ui' \in [Tab -> Provider] /\ ui'[t] = q
           /\ \A x \in Tab \ {t} : ui'[x] = ui[x]
BY DEF TypeOK

LEMMA TeardownEffect ==
    ASSUME TypeOK, NEW t \in Tab, NEW except, Teardown(t, except)
    PROVE  /\ ui' \in [Tab -> Provider] /\ ui'[t] = Blank
           /\ live' \in [Tab -> SUBSET Call]
           /\ live'[t] = live[t] \ {ui[t].local}
           /\ abandoned' \in [Tab -> BOOLEAN]
           /\ ~abandoned'[t] =>
                  ~abandoned[t] /\ \A c \in InFlight(t) : c = except
           /\ \A x \in Tab \ {t} : /\ ui'[x] = ui[x] /\ live'[x] = live[x]
                                   /\ abandoned'[x] = abandoned[x]
<1>1. /\ ui' \in [Tab -> Provider] /\ ui'[t] = Blank
      /\ \A x \in Tab \ {t} : ui'[x] = ui[x]
    BY BlankType, UiEffect DEF Teardown
<1>2. /\ live' \in [Tab -> SUBSET Call] /\ live'[t] = live[t] \ {ui[t].local}
      /\ \A x \in Tab \ {t} : live'[x] = live[x]
    BY DEF Teardown, TypeOK
<1>3. /\ abandoned' \in [Tab -> BOOLEAN]
      /\ abandoned'[t] = (abandoned[t] \/ InFlight(t) \ {except} # {})
      /\ \A x \in Tab \ {t} : abandoned'[x] = abandoned[x]
    BY DEF Teardown, TypeOK
<1>4. QED
    BY <1>1, <1>2, <1>3

LEMMA CloseEffect ==
    ASSUME TypeOK, NEW t \in Tab, NEW p \in [Tab -> [Call -> PcState]]
    PROVE  /\ Close(p, t) \in [Tab -> [Call -> PcState]]
           /\ \A x \in Tab \ {t} : Close(p, t)[x] = p[x]
           /\ \A c \in Call :
                 Close(p, t)[t][c] = IF c = ui[t].pc THEN "closed" ELSE p[t][c]
BY NoneAssumption DEF TypeOK, Close, PcState, Provider, MaybeCall

LEMMA GotoEffect ==
    ASSUME TypeOK, NEW t \in Tab, NEW c \in Call, NEW stage \in Stage,
           Goto(t, c, stage)
    PROVE  /\ task' \in [Tab -> [Call -> Coroutine]]
           /\ task'[t][c].at = stage
           /\ \A d \in Call : task'[t][d].sdp = task[t][d].sdp
           /\ \A d \in Call \ {c} : task'[t][d] = task[t][d]
           /\ \A x \in Tab \ {t} : task'[x] = task[x]
<1>1. \A x \in Tab, d \in Call : task[x][d] \in Coroutine
    BY DEF TypeOK
<1>2. [task[t][c] EXCEPT !.at = stage] \in Coroutine
    BY <1>1 DEF Coroutine
<1>3. task' = [task EXCEPT ![t] = [task[t] EXCEPT ![c] = [task[t][c] EXCEPT !.at = stage]]]
    BY DEF Goto, TypeOK
<1>4. /\ [task[t][c] EXCEPT !.at = stage].at = stage
      /\ [task[t][c] EXCEPT !.at = stage].sdp = task[t][c].sdp
    BY <1>1 DEF Coroutine
<1>5. QED
    BY <1>1, <1>2, <1>3, <1>4 DEF TypeOK

-----------------------------------------------------------------------------
(* One tab at a time                                                       *)

\* The step touches no other tab.
Alone(t) ==
    \A x \in Tab \ {t} :
        /\ ui'[x] = ui[x] /\ rendered'[x] = rendered[x] /\ task'[x] = task[x]
        /\ pcs'[x] = pcs[x] /\ remote'[x] = remote[x] /\ live'[x] = live[x]
        /\ abandoned'[x] = abandoned[x]

LEMMA OthersKeep ==
    ASSUME CallInv, NEW t \in Tab, Alone(t), NEW x \in Tab \ {t}
    PROVE  TabInv(x)'
BY DEF CallInv, Alone, TabInv, Shown, Offers, Owned, Given, InFlight, IsOpen

\* The refs and signals of the step name calls that were placed.
LEMMA KnownKeeps ==
    ASSUME CallInv, NEW t \in Tab, Alone(t),
           \A c \in Call : placed[c].by # None => placed'[c].by # None,
           \A m \in wire' :
              m.kind = "offer" => m \in wire \/ placed'[m.call].by # None,
           ui'[t].incoming # None => placed'[ui'[t].incoming].by # None,
           rendered'[t].incoming # None => placed'[rendered'[t].incoming].by # None,
           \A c \in Call : task'[t][c].at # "none" => placed'[c].by # None
    PROVE  Known'
<1>1. \A m \in wire : m.call \in Call
    BY DEF CallInv, TypeOK, Signal
<1>2. \A x \in Tab : /\ ui[x].incoming \in MaybeCall
                    /\ rendered[x].incoming \in MaybeCall
    BY DEF CallInv, TypeOK, Provider
<1>3. \A m \in wire' : m.kind = "offer" => placed'[m.call].by # None
    BY <1>1 DEF CallInv, Known
<1>4. \A x \in Tab :
         /\ ui'[x].incoming # None => placed'[ui'[x].incoming].by # None
         /\ rendered'[x].incoming # None =>
                placed'[rendered'[x].incoming].by # None
         /\ \A c \in Call : task'[x][c].at # "none" => placed'[c].by # None
    BY <1>2 DEF CallInv, Known, Alone, MaybeCall
<1>5. QED
    BY <1>3, <1>4 DEF Known

LEMMA Combine ==
    ASSUME CallInv, NEW t \in Tab, Alone(t), TypeOK', Known', TabInv(t)'
    PROVE  CallInv'
BY OthersKeep DEF CallInv

\* What teardown leaves behind, in every way that leads to it: a connection
\* may be closed before and a coroutine may end with it.
LEMMA TornDown ==
    ASSUME CallInv, NEW t \in Tab, NEW except, Teardown(t, except),
           NEW p \in [Tab -> [Call -> PcState]], pcs' = Close(p, t),
           \A x \in Tab \ {t} : p[x] = pcs[x],
           \A c \in Call : p[t][c] \in {"closed", pcs[t][c]},
           \A c \in Call : /\ task'[t][c].at \notin {"none", "done"} =>
                                  c \in InFlight(t) /\ c # except
                           /\ task'[t][c].sdp = task[t][c].sdp,
           remote' = remote
    PROVE  TabInv(t)' /\ pcs' \in [Tab -> [Call -> PcState]]
<1>1. TypeOK /\ TabInv(t)
    BY DEF CallInv
<1>2. pcs' \in [Tab -> [Call -> PcState]]
    BY <1>1, CloseEffect
<1>3. Shown(t)' /\ Offers(t)'
    BY <1>1, TeardownEffect, BlankType DEF Shown, Offers
<1>4. Given(t)'
    BY <1>1 DEF TabInv, Given
<1>5. ASSUME ~abandoned'[t]
      PROVE  /\ \A c \in Call : task'[t][c].at \in {"none", "done"}
             /\ live'[t] = {}
             /\ \A c \in Call : pcs'[t][c] \notin {"open", "connected"}
             /\ \A c \in Call : remote'[t][c] \in {None, c}
    <2>1. ~abandoned[t] /\ \A c \in InFlight(t) : c = except
        BY <1>1, <1>5, TeardownEffect
    <2>2. \A c \in Call : task'[t][c].at \in {"none", "done"}
        BY <2>1
    <2>3. live'[t] = {}
        BY <1>1, <2>1, TeardownEffect DEF TabInv, Owned
    <2>4. \A c \in Call : pcs'[t][c] \notin {"open", "connected"}
        BY <1>1, <2>1, CloseEffect DEF TabInv, Owned, IsOpen
    <2>5. \A c \in Call : remote'[t][c] \in {None, c}
        BY <1>1, <2>1 DEF TabInv, Owned
    <2>6. QED
        BY <2>2, <2>3, <2>4, <2>5
<1>6. Owned(t)'
    BY <1>1, <1>5, TeardownEffect, BlankType DEF Owned, InFlight, IsOpen
<1>7. QED
    BY <1>2, <1>3, <1>4, <1>6 DEF TabInv

LEMMA TasksStay ==
    ASSUME CallInv, NEW t \in Tab
    PROVE  /\ task \in [Tab -> [Call -> Coroutine]]
           /\ pcs \in [Tab -> [Call -> PcState]]
           /\ \A c \in Call : /\ task[t][c].at \notin {"none", "done"} =>
                                     c \in InFlight(t) /\ c # None
                              /\ task[t][c].at # "none" => placed[c].by # None
BY NoneAssumption DEF CallInv, TypeOK, Known, InFlight

-----------------------------------------------------------------------------
(* Steps                                                                   *)

LEMMA StartCallKeeps ==
    ASSUME CallInv, NEW t \in Tab, NEW u \in User, NEW c \in Call, StartCall(t, u, c)
    PROVE  CallInv'
<1> DEFINE q == [ui[t] EXCEPT !.callId = c, !.peer = u, !.status = "ringing-out"]
<1>1. TypeOK /\ Known /\ TabInv(t)
    BY DEF CallInv
<1>2. /\ ui[t] \in Provider
      /\ c \in MaybeCall
      /\ u \in User \cup {None}
      /\ "ringing-out" \in Status
    BY <1>1 DEF TypeOK, Provider, Status, MaybeCall
<1>3. /\ q \in Provider
      /\ q.status = "ringing-out" /\ q.incoming = ui[t].incoming
      /\ q.callId = c /\ q.peer = u
      /\ q.pc = ui[t].pc /\ q.local = ui[t].local
      /\ q.offer = ui[t].offer
    BY <1>2 DEF Provider
<1> HIDE DEF q
<1>4. /\ ui' \in [Tab -> Provider] /\ ui'[t] = q
      /\ \A x \in Tab \ {t} : ui'[x] = ui[x]
    BY <1>1, <1>3, UiEffect DEF StartCall, q
<1>5. /\ rendered' \in [Tab -> [status : Status, incoming : MaybeCall]]
      /\ rendered'[t].status = ui'[t].status
      /\ rendered'[t].incoming = ui'[t].incoming
      /\ \A x \in Tab \ {t} : rendered'[x] = rendered[x]
    BY <1>1, <1>3, <1>4, CommitEffect DEF StartCall
<1>6. "media" \in Stage
    BY DEF Stage
<1>7. /\ task' \in [Tab -> [Call -> Coroutine]]
      /\ task'[t][c].at = "media"
      /\ \A d \in Call : task'[t][d].sdp = task[t][d].sdp
      /\ \A d \in Call \ {c} : task'[t][d] = task[t][d]
      /\ \A x \in Tab \ {t} : task'[x] = task[x]
    BY <1>1, <1>6, GotoEffect DEF StartCall
<1>8. /\ placed' \in [Call -> [by : Tab \cup {None}, to : User \cup {None}]]
      /\ placed'[c].by = t /\ \A d \in Call \ {c} : placed'[d] = placed[d]
    BY <1>1 DEF StartCall, TypeOK
<1>9. Alone(t)
    BY <1>1, <1>3, <1>4, <1>5, <1>7, <1>8 DEF StartCall, Alone
<1>10. TypeOK'
    BY <1>1, <1>3, <1>4, <1>5, <1>7, <1>8 DEF StartCall, TypeOK
<1>11. \A d \in Call : task'[t][d].at # "none" => placed'[d].by # None
    BY <1>1, <1>3, <1>4, <1>5, <1>7, <1>8, TasksStay, NoneAssumption DEF StartCall, Known
<1>12. \A d \in Call : placed[d].by # None => placed'[d].by # None
    BY <1>1, <1>3, <1>4, <1>5, <1>7, <1>8, NoneAssumption DEF StartCall, TypeOK
<1>13. \A x \in wire' :
          x.kind = "offer" => x \in wire \/ placed'[x.call].by # None
    BY <1>1, <1>3, <1>4, <1>5, <1>7, <1>8 DEF StartCall, TypeOK
<1>14. /\ ui'[t].incoming # None => placed'[ui'[t].incoming].by # None
       /\ rendered'[t].incoming # None =>
              placed'[rendered'[t].incoming].by # None
    BY <1>1, <1>3, <1>4, <1>5, <1>7, <1>8, <1>12 DEF Known, TypeOK, Provider, MaybeCall
<1>15. Known'
    BY <1>9, <1>12, <1>13, <1>14, <1>11, KnownKeeps
<1>16. Shown(t)' /\ Offers(t)'
    BY <1>1, <1>3, <1>4, <1>5, <1>7, <1>8, NoneAssumption DEF StartCall, TabInv, Shown, Offers
<1>17. Given(t)'
    BY <1>1, <1>3, <1>4, <1>5, <1>7, <1>8, NoneAssumption DEF StartCall, TabInv, Given
<1>18. Owned(t)'
    BY <1>1, <1>3, <1>4, <1>5, <1>7, <1>8, NoneAssumption DEF StartCall, TabInv, Shown, Owned,
       InFlight, IsOpen
<1>19. TabInv(t)'
    BY <1>16, <1>17, <1>18 DEF TabInv
<1>20. QED
    BY <1>9, <1>10, <1>15, <1>19, Combine

LEMMA AcceptKeeps ==
    ASSUME CallInv, NEW t \in Tab, Accept(t)
    PROVE  CallInv'
<1> DEFINE q == [ui[t] EXCEPT !.callId = rendered[t].incoming,
                              !.peer = Other(t, rendered[t].incoming),
                              !.incoming = None, !.status = "connecting"]
<1>1. TypeOK /\ Known /\ TabInv(t)
    BY DEF CallInv
<1>2. /\ rendered[t].incoming \in Call /\ rendered[t].status = "ringing-in"
      /\ ui[t].offer = rendered[t].incoming /\ ui[t].callId = None
      /\ placed[rendered[t].incoming].by # None
    BY <1>1, NoneAssumption DEF Accept, Ringing, TypeOK, Known, TabInv, Offers, Shown,
       Provider, MaybeCall
<1>3. Other(t, rendered[t].incoming) \in User \cup {None}
    BY <1>1, <1>2, OwnerAssumption DEF TypeOK, Other
<1>4. /\ ui[t] \in Provider
      /\ rendered[t].incoming \in MaybeCall
      /\ Other(t, rendered[t].incoming) \in User \cup {None}
      /\ None \in MaybeCall
      /\ "connecting" \in Status
    BY <1>1, <1>2, <1>3 DEF TypeOK, Provider, Status, MaybeCall
<1>5. /\ q \in Provider
      /\ q.status = "connecting" /\ q.incoming = None
      /\ q.callId = rendered[t].incoming /\ q.peer = Other(t, rendered[t].incoming)
      /\ q.pc = ui[t].pc /\ q.local = ui[t].local
      /\ q.offer = ui[t].offer
    BY <1>4 DEF Provider
<1> HIDE DEF q
<1>6. /\ ui' \in [Tab -> Provider] /\ ui'[t] = q
      /\ \A x \in Tab \ {t} : ui'[x] = ui[x]
    BY <1>1, <1>5, UiEffect DEF Accept, q
<1>7. /\ rendered' \in [Tab -> [status : Status, incoming : MaybeCall]]
      /\ rendered'[t].status = ui'[t].status
      /\ rendered'[t].incoming = ui'[t].incoming
      /\ \A x \in Tab \ {t} : rendered'[x] = rendered[x]
    BY <1>1, <1>2, <1>3, <1>5, <1>6, CommitEffect DEF Accept
<1>8. /\ task' \in [Tab -> [Call -> Coroutine]]
      /\ task'[t][rendered[t].incoming] = [at |-> "media", sdp |-> rendered[t].incoming]
      /\ \A d \in Call \ {rendered[t].incoming} : task'[t][d] = task[t][d]
      /\ \A x \in Tab \ {t} : task'[x] = task[x]
    BY <1>1, <1>2, <1>3, <1>5, <1>6, <1>7 DEF Accept, TypeOK, Coroutine, Stage, MaybeCall
<1>9. Alone(t)
    BY <1>1, <1>2, <1>3, <1>5, <1>6, <1>7, <1>8 DEF Accept, Alone
<1>10. TypeOK'
    BY <1>1, <1>2, <1>3, <1>5, <1>6, <1>7, <1>8 DEF Accept, TypeOK
<1>11. \A d \in Call : task'[t][d].at # "none" => placed'[d].by # None
    BY <1>1, <1>2, <1>3, <1>5, <1>6, <1>7, <1>8, TasksStay, NoneAssumption DEF Accept, Known
<1>12. \A d \in Call : placed[d].by # None => placed'[d].by # None
    BY <1>1, <1>2, <1>3, <1>5, <1>6, <1>7, <1>8, NoneAssumption DEF Accept, TypeOK
<1>13. \A x \in wire' :
          x.kind = "offer" => x \in wire \/ placed'[x.call].by # None
    BY <1>1, <1>2, <1>3, <1>5, <1>6, <1>7, <1>8 DEF Accept, TypeOK
<1>14. /\ ui'[t].incoming # None => placed'[ui'[t].incoming].by # None
       /\ rendered'[t].incoming # None =>
              placed'[rendered'[t].incoming].by # None
    BY <1>1, <1>2, <1>3, <1>5, <1>6, <1>7, <1>8, NoneAssumption DEF Accept, Known, TypeOK,
       Provider, MaybeCall
<1>15. Known'
    BY <1>9, <1>12, <1>13, <1>14, <1>11, KnownKeeps
<1>16. TabInv(t)'
    BY <1>1, <1>2, <1>3, <1>5, <1>6, <1>7, <1>8, NoneAssumption DEF Accept, TabInv, Shown,
       Offers, Owned, Given, InFlight, IsOpen, Provider, MaybeCall
<1>17. QED
    BY <1>9, <1>10, <1>15, <1>16, Combine

LEMMA DeclineKeeps ==
    ASSUME CallInv, NEW t \in Tab, Decline(t)
    PROVE  CallInv'
<1> DEFINE q == [ui[t] EXCEPT !.offer = None, !.incoming = None, !.status = "idle"]
<1>1. TypeOK /\ Known /\ TabInv(t)
    BY DEF CallInv
<1>2. /\ rendered[t].incoming \in Call /\ rendered[t].status = "ringing-in"
      /\ ui[t].callId = None /\ placed[rendered[t].incoming].by # None
    BY <1>1, NoneAssumption DEF Decline, Ringing, TypeOK, Known, TabInv, Shown, Provider,
       MaybeCall
<1>3. /\ ui[t] \in Provider
      /\ None \in MaybeCall
      /\ None \in MaybeCall
      /\ "idle" \in Status
    BY <1>1, <1>2 DEF TypeOK, Provider, Status, MaybeCall
<1>4. /\ q \in Provider
      /\ q.status = "idle" /\ q.incoming = None
      /\ q.callId = ui[t].callId /\ q.peer = ui[t].peer
      /\ q.pc = ui[t].pc /\ q.local = ui[t].local
      /\ q.offer = None
    BY <1>3 DEF Provider
<1> HIDE DEF q
<1>5. /\ ui' \in [Tab -> Provider] /\ ui'[t] = q
      /\ \A x \in Tab \ {t} : ui'[x] = ui[x]
    BY <1>1, <1>4, UiEffect DEF Decline, q
<1>6. /\ rendered' \in [Tab -> [status : Status, incoming : MaybeCall]]
      /\ rendered'[t].status = ui'[t].status
      /\ rendered'[t].incoming = ui'[t].incoming
      /\ \A x \in Tab \ {t} : rendered'[x] = rendered[x]
    BY <1>1, <1>2, <1>4, <1>5, CommitEffect DEF Decline
<1>7. task' \in [Tab -> [Call -> Coroutine]] /\ task' = task
    BY <1>1 DEF Decline, TypeOK
<1>8. /\ wire' \subseteq Signal
      /\ \A m \in wire' : m \in wire \/ m.call = rendered[t].incoming
    BY <1>1, <1>2, <1>4, <1>5, <1>6, <1>7, FramesType DEF Decline, TypeOK
<1>9. Alone(t)
    BY <1>1, <1>2, <1>4, <1>5, <1>6, <1>7, <1>8 DEF Decline, Alone
<1>10. TypeOK'
    BY <1>1, <1>2, <1>4, <1>5, <1>6, <1>7, <1>8 DEF Decline, TypeOK
<1>11. \A d \in Call : placed[d].by # None => placed'[d].by # None
    BY <1>1, <1>2, <1>4, <1>5, <1>6, <1>7, <1>8, NoneAssumption DEF Decline, TypeOK
<1>12. \A x \in wire' :
          x.kind = "offer" => x \in wire \/ placed'[x.call].by # None
    BY <1>1, <1>2, <1>4, <1>5, <1>6, <1>7, <1>8 DEF Decline, TypeOK
<1>13. /\ ui'[t].incoming # None => placed'[ui'[t].incoming].by # None
       /\ rendered'[t].incoming # None =>
              placed'[rendered'[t].incoming].by # None
    BY <1>1, <1>2, <1>4, <1>5, <1>6, <1>7, <1>8, NoneAssumption DEF Decline, Known, TypeOK,
       Provider, MaybeCall
<1>14. \A d \in Call : task'[t][d].at # "none" => placed'[d].by # None
    BY <1>1, <1>2, <1>4, <1>5, <1>6, <1>7, <1>8, TasksStay DEF Decline, Known
<1>15. Known'
    BY <1>9, <1>11, <1>12, <1>13, <1>14, KnownKeeps
<1>16. TabInv(t)'
    BY <1>1, <1>2, <1>4, <1>5, <1>6, <1>7, <1>8, NoneAssumption DEF Decline, TabInv, Shown,
       Offers, Owned, Given, InFlight, IsOpen, Provider, MaybeCall
<1>17. QED
    BY <1>9, <1>10, <1>15, <1>16, Combine

LEMMA RenderKeeps ==
    ASSUME CallInv, NEW t \in Tab, Render(t)
    PROVE  CallInv'
<1>1. TypeOK /\ Known /\ TabInv(t)
    BY DEF CallInv
<1>2. /\ ui' \in [Tab -> Provider] /\ ui' = ui
    BY <1>1 DEF Render, TypeOK
<1>3. task' \in [Tab -> [Call -> Coroutine]] /\ task' = task
    BY <1>1 DEF Render, TypeOK
<1>4. /\ rendered' \in [Tab -> [status : Status, incoming : MaybeCall]]
      /\ rendered'[t].status = ui[t].status
      /\ rendered'[t].incoming = ui[t].incoming
      /\ \A x \in Tab \ {t} : rendered'[x] = rendered[x]
    BY <1>1, <1>2, <1>3, ViewType DEF Render, TypeOK
<1>5. Alone(t)
    BY <1>1, <1>2, <1>3, <1>4 DEF Render, Alone
<1>6. TypeOK'
    BY <1>1, <1>2, <1>3, <1>4 DEF Render, TypeOK
<1>7. \A d \in Call : placed[d].by # None => placed'[d].by # None
    BY <1>1, <1>2, <1>3, <1>4, NoneAssumption DEF Render, TypeOK
<1>8. \A x \in wire' :
         x.kind = "offer" => x \in wire \/ placed'[x.call].by # None
    BY <1>1, <1>2, <1>3, <1>4 DEF Render, TypeOK
<1>9. /\ ui'[t].incoming # None => placed'[ui'[t].incoming].by # None
      /\ rendered'[t].incoming # None =>
             placed'[rendered'[t].incoming].by # None
    BY <1>1, <1>2, <1>3, <1>4, NoneAssumption DEF Render, Known, TypeOK, Provider, MaybeCall
<1>10. \A d \in Call : task'[t][d].at # "none" => placed'[d].by # None
    BY <1>1, <1>2, <1>3, <1>4, TasksStay DEF Render, Known
<1>11. Known'
    BY <1>5, <1>7, <1>8, <1>9, <1>10, KnownKeeps
<1>12. TabInv(t)'
    BY <1>1, <1>2, <1>3, <1>4, NoneAssumption DEF Render, TabInv, Shown, Offers, Owned, Given,
       InFlight, IsOpen, Provider, MaybeCall
<1>13. QED
    BY <1>5, <1>6, <1>11, <1>12, Combine

LEMMA CapturedKeeps ==
    ASSUME CallInv, NEW t \in Tab, NEW c \in Call, Captured(t, c)
    PROVE  CallInv'
<1> DEFINE q == [ui[t] EXCEPT !.local = c]
<1>1. TypeOK /\ Known /\ TabInv(t)
    BY DEF CallInv
<1>2. /\ ui[t] \in Provider
      /\ c \in MaybeCall
    BY <1>1 DEF TypeOK, Provider, Status, MaybeCall
<1>3. /\ q \in Provider
      /\ q.status = ui[t].status /\ q.incoming = ui[t].incoming
      /\ q.callId = ui[t].callId /\ q.peer = ui[t].peer
      /\ q.pc = ui[t].pc /\ q.local = c
      /\ q.offer = ui[t].offer
    BY <1>2 DEF Provider
<1> HIDE DEF q
<1>4. /\ ui' \in [Tab -> Provider] /\ ui'[t] = q
      /\ \A x \in Tab \ {t} : ui'[x] = ui[x]
    BY <1>1, <1>3, UiEffect DEF Captured, q
<1>5. /\ rendered' \in [Tab -> [status : Status, incoming : MaybeCall]]
      /\ rendered' = rendered
    BY <1>1 DEF Captured, TypeOK
<1>6. "peer" \in Stage
    BY DEF Stage
<1>7. /\ task' \in [Tab -> [Call -> Coroutine]]
      /\ task'[t][c].at = "peer"
      /\ \A d \in Call : task'[t][d].sdp = task[t][d].sdp
      /\ \A d \in Call \ {c} : task'[t][d] = task[t][d]
      /\ \A x \in Tab \ {t} : task'[x] = task[x]
    BY <1>1, <1>6, GotoEffect DEF Captured
<1>8. /\ task[t][c].at = "media" /\ c \in InFlight(t)
      /\ placed[c].by # None
    BY <1>1 DEF Captured, Known, InFlight
<1>9. /\ placed' = placed /\ wire' = wire /\ abandoned' = abandoned
      /\ mounted' = mounted /\ pcs' = pcs /\ remote' = remote
    BY DEF Captured
<1>10. /\ live' \in [Tab -> SUBSET Call] /\ live'[t] = live[t] \cup {c}
       /\ \A x \in Tab \ {t} : live'[x] = live[x]
    BY <1>1 DEF Captured, TypeOK
<1>11. Alone(t)
    BY <1>4, <1>5, <1>7, <1>8, <1>9, <1>10 DEF Alone
<1>12. TypeOK'
    BY <1>1, <1>3, <1>4, <1>5, <1>7, <1>8, <1>9, <1>10 DEF TypeOK
<1>13. placed' = placed /\ task[t][c].at # "none"
    BY <1>1, <1>3, <1>4, <1>5, <1>7, <1>8, <1>9, <1>10 DEF Captured
<1>14. \A d \in Call : task'[t][d].at # "none" => placed'[d].by # None
    BY <1>7, <1>13, TasksStay, SMTT(30)
<1>15. \A d \in Call : placed[d].by # None => placed'[d].by # None
    BY <1>1, <1>3, <1>4, <1>5, <1>7, <1>8, <1>9, <1>10, NoneAssumption DEF TypeOK
<1>16. \A x \in wire' :
          x.kind = "offer" => x \in wire \/ placed'[x.call].by # None
    BY <1>1, <1>3, <1>4, <1>5, <1>7, <1>8, <1>9, <1>10 DEF TypeOK
<1>17. /\ ui'[t].incoming # None => placed'[ui'[t].incoming].by # None
       /\ rendered'[t].incoming # None =>
              placed'[rendered'[t].incoming].by # None
    BY <1>1, <1>3, <1>4, <1>5, <1>7, <1>8, <1>9, <1>10, NoneAssumption DEF Known, TypeOK,
       Provider, MaybeCall
<1>18. Known'
    BY <1>11, <1>15, <1>16, <1>17, <1>14, KnownKeeps
<1>19. Shown(t)' /\ Offers(t)'
    BY <1>1, <1>3, <1>4, <1>5, <1>7, <1>8, <1>9, <1>10, NoneAssumption DEF TabInv, Shown,
       Offers
<1>20. Given(t)'
    BY <1>1, <1>3, <1>4, <1>5, <1>7, <1>8, <1>9, <1>10, NoneAssumption DEF TabInv, Given
<1>21. ASSUME ~abandoned'[t]
       PROVE  /\ ui[t].callId = c /\ InFlight(t)' \subseteq {c}
              /\ live'[t] \subseteq {q.local} /\ q.local \in {None, c} /\ q.pc \in {None, c}
              /\ \A d \in Call : IsOpen(t, d)' => q.pc = d
              /\ \A d \in Call : remote'[t][d] \in {None, d}
    BY <1>1, <1>3, <1>4, <1>5, <1>7, <1>8, <1>9, <1>10, <1>21, NoneAssumption DEF TabInv,
       Owned, InFlight, IsOpen, TypeOK
<1>22. Owned(t)'
    BY <1>1, <1>3, <1>4, <1>5, <1>7, <1>8, <1>9, <1>10, <1>21 DEF Owned
<1>23. TabInv(t)'
    BY <1>19, <1>20, <1>22 DEF TabInv
<1>24. QED
    BY <1>11, <1>12, <1>18, <1>23, Combine

LEMMA BuildPeerKeeps ==
    ASSUME CallInv, NEW t \in Tab, NEW c \in Call, BuildPeer(t, c)
    PROVE  CallInv'
<1> DEFINE q == [ui[t] EXCEPT !.pc = c]
<1>1. TypeOK /\ Known /\ TabInv(t)
    BY DEF CallInv
<1>2. /\ ui[t] \in Provider
      /\ c \in MaybeCall
    BY <1>1 DEF TypeOK, Provider, Status, MaybeCall
<1>3. /\ q \in Provider
      /\ q.status = ui[t].status /\ q.incoming = ui[t].incoming
      /\ q.callId = ui[t].callId /\ q.peer = ui[t].peer
      /\ q.pc = c /\ q.local = ui[t].local
      /\ q.offer = ui[t].offer
    BY <1>2 DEF Provider
<1> HIDE DEF q
<1>4. /\ ui' \in [Tab -> Provider] /\ ui'[t] = q
      /\ \A x \in Tab \ {t} : ui'[x] = ui[x]
    BY <1>1, <1>3, UiEffect DEF BuildPeer, q
<1>5. /\ rendered' \in [Tab -> [status : Status, incoming : MaybeCall]]
      /\ rendered' = rendered
    BY <1>1 DEF BuildPeer, TypeOK
<1>6. (IF placed[c].by = t THEN "describe" ELSE "apply") \in Stage
    BY DEF Stage
<1>7. /\ task' \in [Tab -> [Call -> Coroutine]]
      /\ task'[t][c].at = (IF placed[c].by = t THEN "describe" ELSE "apply")
      /\ \A d \in Call : task'[t][d].sdp = task[t][d].sdp
      /\ \A d \in Call \ {c} : task'[t][d] = task[t][d]
      /\ \A x \in Tab \ {t} : task'[x] = task[x]
    BY <1>1, <1>6, GotoEffect DEF BuildPeer
<1>8. /\ task[t][c].at = "peer" /\ c \in InFlight(t)
      /\ placed[c].by # None
    BY <1>1 DEF BuildPeer, Known, InFlight
<1>9. /\ placed' = placed /\ wire' = wire /\ abandoned' = abandoned
      /\ mounted' = mounted /\ live' = live /\ remote' = remote
    BY DEF BuildPeer
<1>10. /\ pcs' \in [Tab -> [Call -> PcState]]
       /\ pcs'[t][c] = "open" /\ \A d \in Call \ {c} : pcs'[t][d] = pcs[t][d]
       /\ \A x \in Tab \ {t} : pcs'[x] = pcs[x]
    BY <1>1 DEF BuildPeer, TypeOK, PcState
<1>11. Alone(t)
    BY <1>4, <1>5, <1>7, <1>8, <1>9, <1>10 DEF Alone
<1>12. TypeOK'
    BY <1>1, <1>3, <1>4, <1>5, <1>7, <1>8, <1>9, <1>10 DEF TypeOK
<1>13. placed' = placed /\ task[t][c].at # "none"
    BY <1>1, <1>3, <1>4, <1>5, <1>7, <1>8, <1>9, <1>10 DEF BuildPeer
<1>14. \A d \in Call : task'[t][d].at # "none" => placed'[d].by # None
    BY <1>7, <1>13, TasksStay
<1>15. \A d \in Call : placed[d].by # None => placed'[d].by # None
    BY <1>1, <1>3, <1>4, <1>5, <1>7, <1>8, <1>9, <1>10, NoneAssumption DEF TypeOK
<1>16. \A x \in wire' :
          x.kind = "offer" => x \in wire \/ placed'[x.call].by # None
    BY <1>1, <1>3, <1>4, <1>5, <1>7, <1>8, <1>9, <1>10 DEF TypeOK
<1>17. /\ ui'[t].incoming # None => placed'[ui'[t].incoming].by # None
       /\ rendered'[t].incoming # None =>
              placed'[rendered'[t].incoming].by # None
    BY <1>1, <1>3, <1>4, <1>5, <1>7, <1>8, <1>9, <1>10, NoneAssumption DEF Known, TypeOK,
       Provider, MaybeCall
<1>18. Known'
    BY <1>11, <1>15, <1>16, <1>17, <1>14, KnownKeeps
<1>19. Shown(t)' /\ Offers(t)'
    BY <1>1, <1>3, <1>4, <1>5, <1>7, <1>8, <1>9, <1>10, NoneAssumption DEF TabInv, Shown,
       Offers
<1>20. Given(t)'
    BY <1>1, <1>3, <1>4, <1>5, <1>7, <1>8, <1>9, <1>10, NoneAssumption DEF TabInv, Given
<1>21. ASSUME ~abandoned'[t]
       PROVE  /\ ui[t].callId = c /\ InFlight(t)' \subseteq {c}
              /\ live'[t] \subseteq {q.local} /\ q.local \in {None, c} /\ q.pc \in {None, c}
              /\ \A d \in Call : IsOpen(t, d)' => q.pc = d
              /\ \A d \in Call : remote'[t][d] \in {None, d}
    BY <1>1, <1>3, <1>4, <1>5, <1>7, <1>8, <1>9, <1>10, <1>21, NoneAssumption DEF TabInv,
       Owned, InFlight, IsOpen, TypeOK
<1>22. Owned(t)'
    BY <1>1, <1>3, <1>4, <1>5, <1>7, <1>8, <1>9, <1>10, <1>21 DEF Owned
<1>23. TabInv(t)'
    BY <1>19, <1>20, <1>22 DEF TabInv
<1>24. QED
    BY <1>11, <1>12, <1>18, <1>23, Combine

LEMMA SendOfferKeeps ==
    ASSUME CallInv, NEW t \in Tab, NEW c \in Call, SendOffer(t, c)
    PROVE  CallInv'
<1>1. TypeOK /\ Known /\ TabInv(t)
    BY DEF CallInv
<1>2. /\ ui' \in [Tab -> Provider] /\ ui' = ui
    BY <1>1 DEF SendOffer, TypeOK
<1>3. /\ rendered' \in [Tab -> [status : Status, incoming : MaybeCall]]
      /\ rendered' = rendered
    BY <1>1 DEF SendOffer, TypeOK
<1>4. "done" \in Stage
    BY DEF Stage
<1>5. /\ task' \in [Tab -> [Call -> Coroutine]]
      /\ task'[t][c].at = "done"
      /\ \A d \in Call : task'[t][d].sdp = task[t][d].sdp
      /\ \A d \in Call \ {c} : task'[t][d] = task[t][d]
      /\ \A x \in Tab \ {t} : task'[x] = task[x]
    BY <1>1, <1>4, GotoEffect DEF SendOffer
<1>6. placed[c].by # None
    BY <1>1, <1>2, <1>3, <1>5 DEF SendOffer, Known
<1>7. /\ wire' \subseteq Signal
      /\ \A m \in wire' : m \in wire \/ m.call = c
    BY <1>1, <1>2, <1>3, <1>5, <1>6, FramesType DEF SendOffer, TypeOK
<1>8. Alone(t)
    BY <1>1, <1>2, <1>3, <1>5, <1>6, <1>7 DEF SendOffer, Alone
<1>9. TypeOK'
    BY <1>1, <1>2, <1>3, <1>5, <1>6, <1>7 DEF SendOffer, TypeOK
<1>10. placed' = placed /\ task[t][c].at # "none"
    BY <1>1, <1>2, <1>3, <1>5, <1>6, <1>7 DEF SendOffer
<1>11. \A d \in Call : task'[t][d].at # "none" => placed'[d].by # None
    BY <1>5, <1>10, TasksStay, SMTT(30)
<1>12. \A d \in Call : placed[d].by # None => placed'[d].by # None
    BY <1>1, <1>2, <1>3, <1>5, <1>6, <1>7, NoneAssumption DEF SendOffer, TypeOK
<1>13. \A x \in wire' :
          x.kind = "offer" => x \in wire \/ placed'[x.call].by # None
    BY <1>1, <1>2, <1>3, <1>5, <1>6, <1>7 DEF SendOffer, TypeOK
<1>14. /\ ui'[t].incoming # None => placed'[ui'[t].incoming].by # None
       /\ rendered'[t].incoming # None =>
              placed'[rendered'[t].incoming].by # None
    BY <1>1, <1>2, <1>3, <1>5, <1>6, <1>7, NoneAssumption DEF SendOffer, Known, TypeOK,
       Provider, MaybeCall
<1>15. Known'
    BY <1>8, <1>12, <1>13, <1>14, <1>11, KnownKeeps
<1>16. Shown(t)' /\ Offers(t)'
    BY <1>1, <1>2, <1>3, <1>5, <1>6, <1>7, NoneAssumption DEF SendOffer, TabInv, Shown, Offers
<1>17. Given(t)'
    BY <1>1, <1>2, <1>3, <1>5, <1>6, <1>7, NoneAssumption DEF SendOffer, TabInv, Given
<1>18. Owned(t)'
    BY <1>1, <1>2, <1>3, <1>5, <1>6, <1>7, NoneAssumption DEF SendOffer, TabInv, Shown, Owned,
       InFlight, IsOpen
<1>19. TabInv(t)'
    BY <1>16, <1>17, <1>18 DEF TabInv
<1>20. QED
    BY <1>8, <1>9, <1>15, <1>19, Combine

LEMMA ApplyOfferKeeps ==
    ASSUME CallInv, NEW t \in Tab, NEW c \in Call, ApplyOffer(t, c)
    PROVE  CallInv'
<1>1. TypeOK /\ Known /\ TabInv(t)
    BY DEF CallInv
<1>2. /\ ui' \in [Tab -> Provider] /\ ui' = ui
    BY <1>1 DEF ApplyOffer, TypeOK
<1>3. /\ rendered' \in [Tab -> [status : Status, incoming : MaybeCall]]
      /\ rendered' = rendered
    BY <1>1 DEF ApplyOffer, TypeOK
<1>4. "answer" \in Stage
    BY DEF Stage
<1>5. /\ task' \in [Tab -> [Call -> Coroutine]]
      /\ task'[t][c].at = "answer"
      /\ \A d \in Call : task'[t][d].sdp = task[t][d].sdp
      /\ \A d \in Call \ {c} : task'[t][d] = task[t][d]
      /\ \A x \in Tab \ {t} : task'[x] = task[x]
    BY <1>1, <1>4, GotoEffect DEF ApplyOffer
<1>6. task[t][c].sdp \in MaybeCall
    BY <1>1 DEF TypeOK, Coroutine
<1>7. /\ remote' \in [Tab -> [Call -> MaybeCall]]
      /\ remote'[t][c] \in {None, c} /\ \A d \in Call \ {c} : remote'[t][d] = remote[t][d]
      /\ \A x \in Tab \ {t} : remote'[x] = remote[x]
    BY <1>1, <1>2, <1>3, <1>5, <1>6 DEF ApplyOffer, TypeOK, TabInv, Given
<1>8. Alone(t)
    BY <1>1, <1>2, <1>3, <1>5, <1>6, <1>7 DEF ApplyOffer, Alone
<1>9. TypeOK'
    BY <1>1, <1>2, <1>3, <1>5, <1>6, <1>7 DEF ApplyOffer, TypeOK
<1>10. placed' = placed /\ task[t][c].at # "none"
    BY <1>1, <1>2, <1>3, <1>5, <1>6, <1>7 DEF ApplyOffer
<1>11. \A d \in Call : task'[t][d].at # "none" => placed'[d].by # None
    BY <1>5, <1>10, TasksStay, SMTT(30)
<1>12. \A d \in Call : placed[d].by # None => placed'[d].by # None
    BY <1>1, <1>2, <1>3, <1>5, <1>6, <1>7, NoneAssumption DEF ApplyOffer, TypeOK
<1>13. \A x \in wire' :
          x.kind = "offer" => x \in wire \/ placed'[x.call].by # None
    BY <1>1, <1>2, <1>3, <1>5, <1>6, <1>7 DEF ApplyOffer, TypeOK
<1>14. /\ ui'[t].incoming # None => placed'[ui'[t].incoming].by # None
       /\ rendered'[t].incoming # None =>
              placed'[rendered'[t].incoming].by # None
    BY <1>1, <1>2, <1>3, <1>5, <1>6, <1>7, NoneAssumption DEF ApplyOffer, Known, TypeOK,
       Provider, MaybeCall
<1>15. Known'
    BY <1>8, <1>12, <1>13, <1>14, <1>11, KnownKeeps
<1>16. Shown(t)' /\ Offers(t)'
    BY <1>1, <1>2, <1>3, <1>5, <1>6, <1>7, NoneAssumption DEF ApplyOffer, TabInv, Shown,
       Offers
<1>17. Given(t)'
    BY <1>1, <1>2, <1>3, <1>5, <1>6, <1>7, NoneAssumption DEF ApplyOffer, TabInv, Given
<1>18. Owned(t)'
    BY <1>1, <1>2, <1>3, <1>5, <1>6, <1>7, NoneAssumption, ZenonT(60) DEF ApplyOffer, TabInv, Shown,
       Owned, InFlight, IsOpen
<1>19. TabInv(t)'
    BY <1>16, <1>17, <1>18 DEF TabInv
<1>20. QED
    BY <1>8, <1>9, <1>15, <1>19, Combine

LEMMA SendAnswerKeeps ==
    ASSUME CallInv, NEW t \in Tab, NEW c \in Call, SendAnswer(t, c)
    PROVE  CallInv'
<1>1. TypeOK /\ Known /\ TabInv(t)
    BY DEF CallInv
<1>2. /\ ui' \in [Tab -> Provider] /\ ui' = ui
    BY <1>1 DEF SendAnswer, TypeOK
<1>3. /\ rendered' \in [Tab -> [status : Status, incoming : MaybeCall]]
      /\ rendered' = rendered
    BY <1>1 DEF SendAnswer, TypeOK
<1>4. "done" \in Stage
    BY DEF Stage
<1>5. /\ task' \in [Tab -> [Call -> Coroutine]]
      /\ task'[t][c].at = "done"
      /\ \A d \in Call : task'[t][d].sdp = task[t][d].sdp
      /\ \A d \in Call \ {c} : task'[t][d] = task[t][d]
      /\ \A x \in Tab \ {t} : task'[x] = task[x]
    BY <1>1, <1>4, GotoEffect DEF SendAnswer
<1>6. placed[c].by # None
    BY <1>1, <1>2, <1>3, <1>5 DEF SendAnswer, Known
<1>7. /\ wire' \subseteq Signal
      /\ \A m \in wire' : m \in wire \/ m.call = c
    BY <1>1, <1>2, <1>3, <1>5, <1>6, FramesType DEF SendAnswer, TypeOK
<1>8. Alone(t)
    BY <1>1, <1>2, <1>3, <1>5, <1>6, <1>7 DEF SendAnswer, Alone
<1>9. TypeOK'
    BY <1>1, <1>2, <1>3, <1>5, <1>6, <1>7 DEF SendAnswer, TypeOK
<1>10. placed' = placed /\ task[t][c].at # "none"
    BY <1>1, <1>2, <1>3, <1>5, <1>6, <1>7 DEF SendAnswer
<1>11. \A d \in Call : task'[t][d].at # "none" => placed'[d].by # None
    BY <1>5, <1>10, TasksStay, SMTT(30)
<1>12. \A d \in Call : placed[d].by # None => placed'[d].by # None
    BY <1>1, <1>2, <1>3, <1>5, <1>6, <1>7, NoneAssumption DEF SendAnswer, TypeOK
<1>13. \A x \in wire' :
          x.kind = "offer" => x \in wire \/ placed'[x.call].by # None
    BY <1>1, <1>2, <1>3, <1>5, <1>6, <1>7 DEF SendAnswer, TypeOK
<1>14. /\ ui'[t].incoming # None => placed'[ui'[t].incoming].by # None
       /\ rendered'[t].incoming # None =>
              placed'[rendered'[t].incoming].by # None
    BY <1>1, <1>2, <1>3, <1>5, <1>6, <1>7, NoneAssumption DEF SendAnswer, Known, TypeOK,
       Provider, MaybeCall
<1>15. Known'
    BY <1>8, <1>12, <1>13, <1>14, <1>11, KnownKeeps
<1>16. Shown(t)' /\ Offers(t)'
    BY <1>1, <1>2, <1>3, <1>5, <1>6, <1>7, NoneAssumption DEF SendAnswer, TabInv, Shown,
       Offers
<1>17. Given(t)'
    BY <1>1, <1>2, <1>3, <1>5, <1>6, <1>7, NoneAssumption DEF SendAnswer, TabInv, Given
<1>18. Owned(t)'
    BY <1>1, <1>2, <1>3, <1>5, <1>6, <1>7, NoneAssumption DEF SendAnswer, TabInv, Shown,
       Owned, InFlight, IsOpen
<1>19. TabInv(t)'
    BY <1>16, <1>17, <1>18 DEF TabInv
<1>20. QED
    BY <1>8, <1>9, <1>15, <1>19, Combine

LEMMA NeverSettlesKeeps ==
    ASSUME CallInv, NEW t \in Tab, NEW c \in Call, NeverSettles(t, c)
    PROVE  CallInv'
<1>1. TypeOK /\ Known /\ TabInv(t)
    BY DEF CallInv
<1>2. /\ ui' \in [Tab -> Provider] /\ ui' = ui
    BY <1>1 DEF NeverSettles, TypeOK
<1>3. /\ rendered' \in [Tab -> [status : Status, incoming : MaybeCall]]
      /\ rendered' = rendered
    BY <1>1 DEF NeverSettles, TypeOK
<1>4. "done" \in Stage
    BY DEF Stage
<1>5. /\ task' \in [Tab -> [Call -> Coroutine]]
      /\ task'[t][c].at = "done"
      /\ \A d \in Call : task'[t][d].sdp = task[t][d].sdp
      /\ \A d \in Call \ {c} : task'[t][d] = task[t][d]
      /\ \A x \in Tab \ {t} : task'[x] = task[x]
    BY <1>1, <1>4, GotoEffect DEF NeverSettles
<1>6. Alone(t)
    BY <1>1, <1>2, <1>3, <1>5 DEF NeverSettles, Alone
<1>7. TypeOK'
    BY <1>1, <1>2, <1>3, <1>5 DEF NeverSettles, TypeOK
<1>8. placed' = placed /\ task[t][c].at # "none"
    BY <1>1, <1>2, <1>3, <1>5 DEF NeverSettles
<1>9. \A d \in Call : task'[t][d].at # "none" => placed'[d].by # None
    BY <1>5, <1>8, TasksStay, SMTT(30)
<1>10. \A d \in Call : placed[d].by # None => placed'[d].by # None
    BY <1>1, <1>2, <1>3, <1>5, NoneAssumption DEF NeverSettles, TypeOK
<1>11. \A x \in wire' :
          x.kind = "offer" => x \in wire \/ placed'[x.call].by # None
    BY <1>1, <1>2, <1>3, <1>5 DEF NeverSettles, TypeOK
<1>12. /\ ui'[t].incoming # None => placed'[ui'[t].incoming].by # None
       /\ rendered'[t].incoming # None =>
              placed'[rendered'[t].incoming].by # None
    BY <1>1, <1>2, <1>3, <1>5, NoneAssumption DEF NeverSettles, Known, TypeOK, Provider,
       MaybeCall
<1>13. Known'
    BY <1>6, <1>10, <1>11, <1>12, <1>9, KnownKeeps
<1>14. Shown(t)' /\ Offers(t)'
    BY <1>1, <1>2, <1>3, <1>5, NoneAssumption DEF NeverSettles, TabInv, Shown, Offers
<1>15. Given(t)'
    BY <1>1, <1>2, <1>3, <1>5, NoneAssumption DEF NeverSettles, TabInv, Given
<1>16. Owned(t)'
    BY <1>1, <1>2, <1>3, <1>5, NoneAssumption DEF NeverSettles, TabInv, Shown, Owned,
       InFlight, IsOpen
<1>17. TabInv(t)'
    BY <1>14, <1>15, <1>16 DEF TabInv
<1>18. QED
    BY <1>6, <1>7, <1>13, <1>17, Combine

LEMMA ConnectKeeps ==
    ASSUME CallInv, NEW t \in Tab, NEW c \in Call, Connect(t, c)
    PROVE  CallInv'
<1> DEFINE q == [ui[t] EXCEPT !.status = IF mounted[t] THEN "connected" ELSE ui[t].status]
<1>1. TypeOK /\ Known /\ TabInv(t)
    BY DEF CallInv
<1>2. /\ ui[t] \in Provider
      /\ (IF mounted[t] THEN "connected" ELSE ui[t].status) \in Status
    BY <1>1 DEF TypeOK, Provider, Status, MaybeCall
<1>3. /\ q \in Provider
      /\ q.status = (IF mounted[t] THEN "connected" ELSE ui[t].status) /\ q.incoming = ui[t].incoming
      /\ q.callId = ui[t].callId /\ q.peer = ui[t].peer
      /\ q.pc = ui[t].pc /\ q.local = ui[t].local
      /\ q.offer = ui[t].offer
    BY <1>2 DEF Provider
<1> HIDE DEF q
<1>4. /\ ui' \in [Tab -> Provider] /\ ui'[t] = q
      /\ \A x \in Tab \ {t} : ui'[x] = ui[x]
    BY <1>1, <1>3, UiEffect DEF Connect, q
<1>5. /\ rendered' \in [Tab -> [status : Status, incoming : MaybeCall]]
      /\ rendered' = rendered
    BY <1>1 DEF Connect, TypeOK
<1>6. task' \in [Tab -> [Call -> Coroutine]] /\ task' = task
    BY <1>1 DEF Connect, TypeOK
<1>7. /\ pcs' \in [Tab -> [Call -> PcState]]
      /\ \A d \in Call : IsOpen(t, d)' => IsOpen(t, d)
      /\ \A x \in Tab \ {t} : pcs'[x] = pcs[x]
    BY <1>1 DEF Connect, TypeOK, PcState, IsOpen
<1>8. Alone(t)
    BY <1>1, <1>3, <1>4, <1>5, <1>6, <1>7 DEF Connect, Alone
<1>9. TypeOK'
    BY <1>1, <1>3, <1>4, <1>5, <1>6, <1>7 DEF Connect, TypeOK
<1>10. \A d \in Call : placed[d].by # None => placed'[d].by # None
    BY <1>1, <1>3, <1>4, <1>5, <1>6, <1>7, NoneAssumption DEF Connect, TypeOK
<1>11. \A x \in wire' :
          x.kind = "offer" => x \in wire \/ placed'[x.call].by # None
    BY <1>1, <1>3, <1>4, <1>5, <1>6, <1>7 DEF Connect, TypeOK
<1>12. /\ ui'[t].incoming # None => placed'[ui'[t].incoming].by # None
       /\ rendered'[t].incoming # None =>
              placed'[rendered'[t].incoming].by # None
    BY <1>1, <1>3, <1>4, <1>5, <1>6, <1>7, NoneAssumption DEF Connect, Known, TypeOK,
       Provider, MaybeCall
<1>13. \A d \in Call : task'[t][d].at # "none" => placed'[d].by # None
    BY <1>1, <1>3, <1>4, <1>5, <1>6, <1>7, TasksStay DEF Connect, Known
<1>14. Known'
    BY <1>8, <1>10, <1>11, <1>12, <1>13, KnownKeeps
<1>15. TabInv(t)'
    BY <1>1, <1>3, <1>4, <1>5, <1>6, <1>7, NoneAssumption DEF Connect, TabInv, Shown, Offers,
       Owned, Given, InFlight, IsOpen, Provider, MaybeCall
<1>16. QED
    BY <1>8, <1>9, <1>14, <1>15, Combine

\* Teardown ends every call of the tab, and tells nobody by itself.
LEMMA EndKeeps ==
    ASSUME CallInv, NEW t \in Tab, NEW except, Teardown(t, except), Alone(t),
           NEW p \in [Tab -> [Call -> PcState]], pcs' = Close(p, t),
           \A x \in Tab \ {t} : p[x] = pcs[x],
           \A c \in Call : p[t][c] \in {"closed", pcs[t][c]},
           task' \in [Tab -> [Call -> Coroutine]],
           \A c \in Call : /\ task'[t][c].at \notin {"none", "done"} =>
                                  c \in InFlight(t) /\ c # except
                           /\ task'[t][c].sdp = task[t][c].sdp
                           /\ task'[t][c].at # "none" => placed[c].by # None,
           remote' = remote, placed' = placed,
           mounted' \in [Tab -> BOOLEAN],
           rendered' \in [Tab -> [status : Status, incoming : MaybeCall]],
           rendered'[t].incoming \in {None, rendered[t].incoming},
           wire' \subseteq Signal,
           \A m \in wire' :
              m.kind = "offer" => m \in wire \/ placed[m.call].by # None
    PROVE  CallInv'
<1>1. TypeOK /\ Known
    BY DEF CallInv
<1>2. TabInv(t)' /\ pcs' \in [Tab -> [Call -> PcState]]
    <2>1. \A c \in Call : /\ task'[t][c].at \notin {"none", "done"} =>
                               c \in InFlight(t) /\ c # except
                        /\ task'[t][c].sdp = task[t][c].sdp
        OBVIOUS
    <2>2. QED
        BY <2>1, TornDown, ZenonT(60)
<1>3. /\ ui' \in [Tab -> Provider] /\ ui'[t] = Blank
      /\ live' \in [Tab -> SUBSET Call] /\ abandoned' \in [Tab -> BOOLEAN]
    BY <1>1, TeardownEffect
<1>4. TypeOK'
    BY <1>1, <1>2, <1>3 DEF TypeOK
<1>5. /\ ui'[t].incoming # None => placed'[ui'[t].incoming].by # None
      /\ rendered'[t].incoming # None => placed'[rendered'[t].incoming].by # None
    BY <1>1, <1>3, BlankType DEF Known
<1>6. Known'
    BY <1>5, KnownKeeps
<1>7. QED
    BY <1>2, <1>4, <1>6, Combine

LEMMA HangupKeeps ==
    ASSUME CallInv, NEW t \in Tab, Hangup(t)
    PROVE  CallInv'
<1>1. TypeOK /\ Known /\ TabInv(t)
    BY DEF CallInv
<1>2. /\ Teardown(t, None) /\ pcs' = Close(pcs, t) /\ Commit(t)
      /\ UNCHANGED <<mounted, task, remote, placed>>
    BY DEF Hangup
<1>3. /\ ui'[t] = Blank /\ Blank \in Provider
      /\ \A x \in Tab \ {t} : /\ ui'[x] = ui[x] /\ live'[x] = live[x]
                              /\ abandoned'[x] = abandoned[x]
                              /\ pcs'[x] = pcs[x]
    BY <1>1, <1>2, TeardownEffect, CloseEffect, BlankType, TasksStay
<1>4. /\ rendered' \in [Tab -> [status : Status, incoming : MaybeCall]]
      /\ rendered'[t].incoming = None
      /\ \A x \in Tab \ {t} : rendered'[x] = rendered[x]
    BY <1>1, <1>2, <1>3, CommitEffect, BlankType
<1>5. Alone(t)
    BY <1>2, <1>3, <1>4 DEF Alone
<1>6. /\ wire' \subseteq Signal
      /\ \A m \in wire' : m.kind = "offer" => m \in wire
    <2>1. ui[t].callId # None => ui[t].callId \in Call
        BY <1>1 DEF TypeOK, Provider, MaybeCall
    <2>2. ui[t].callId # None =>
             /\ Frames("hangup", t, ui[t].callId, ui[t].peer) \subseteq Signal
             /\ \A m \in Frames("hangup", t, ui[t].callId, ui[t].peer) :
                   m.kind = "hangup"
        BY <2>1, FramesType
    <2>3. QED
        BY <1>1, <2>2 DEF Hangup, TypeOK
<1>7. /\ mounted' \in [Tab -> BOOLEAN] /\ pcs \in [Tab -> [Call -> PcState]]
      /\ remote' = remote /\ placed' = placed /\ task' = task
    BY <1>1, <1>2 DEF TypeOK
<1>8. \A c \in Call :
         /\ task'[t][c].at \notin {"none", "done"} => c \in InFlight(t) /\ c # None
         /\ task'[t][c].sdp = task[t][c].sdp
         /\ task'[t][c].at # "none" => placed[c].by # None
    BY <1>7, TasksStay
<1>9. task' \in [Tab -> [Call -> Coroutine]]
    BY <1>7, TasksStay
<1>10. QED
    BY <1>2, <1>4, <1>5, <1>6, <1>7, <1>8, <1>9, EndKeeps, SMTT(30)

LEMMA UnmountKeeps ==
    ASSUME CallInv, NEW t \in Tab, Unmount(t)
    PROVE  CallInv'
<1>1. TypeOK /\ Known /\ TabInv(t)
    BY DEF CallInv
<1>2. /\ Teardown(t, None) /\ pcs' = Close(pcs, t) /\ Commit(t)
      /\ UNCHANGED <<task, remote, placed>>
    BY DEF Unmount
<1>3. /\ ui'[t] = Blank /\ Blank \in Provider
      /\ \A x \in Tab \ {t} : /\ ui'[x] = ui[x] /\ live'[x] = live[x]
                              /\ abandoned'[x] = abandoned[x]
                              /\ pcs'[x] = pcs[x]
    BY <1>1, <1>2, TeardownEffect, CloseEffect, BlankType, TasksStay
<1>4. /\ rendered' \in [Tab -> [status : Status, incoming : MaybeCall]]
      /\ rendered'[t].incoming = None
      /\ \A x \in Tab \ {t} : rendered'[x] = rendered[x]
    BY <1>1, <1>2, <1>3, CommitEffect, BlankType
<1>5. Alone(t)
    BY <1>2, <1>3, <1>4 DEF Alone
<1>6. /\ wire' \subseteq Signal
      /\ \A m \in wire' : m.kind = "offer" => m \in wire
    BY <1>1 DEF Unmount, TypeOK
<1>7. /\ mounted' \in [Tab -> BOOLEAN] /\ pcs \in [Tab -> [Call -> PcState]]
      /\ remote' = remote /\ placed' = placed /\ task' = task
    BY <1>1, <1>2 DEF Unmount, TypeOK
<1>8. \A c \in Call :
         /\ task'[t][c].at \notin {"none", "done"} => c \in InFlight(t) /\ c # None
         /\ task'[t][c].sdp = task[t][c].sdp
         /\ task'[t][c].at # "none" => placed[c].by # None
    BY <1>7, TasksStay
<1>9. task' \in [Tab -> [Call -> Coroutine]]
    BY <1>7, TasksStay
<1>10. QED
    BY <1>2, <1>4, <1>5, <1>6, <1>7, <1>8, <1>9, EndKeeps, SMTT(30)

LEMMA ThrowKeeps ==
    ASSUME CallInv, NEW t \in Tab, NEW c \in Call, Throw(t, c)
    PROVE  CallInv'
<1>1. TypeOK /\ Known /\ TabInv(t)
    BY DEF CallInv
<1>2. /\ Teardown(t, c) /\ pcs' = Close(pcs, t) /\ Goto(t, c, "done")
      /\ UNCHANGED <<rendered, mounted, remote, placed>>
    BY DEF Throw
<1>3. \A x \in Tab \ {t} : /\ ui'[x] = ui[x] /\ live'[x] = live[x]
                           /\ abandoned'[x] = abandoned[x]
                           /\ pcs'[x] = pcs[x]
    BY <1>1, <1>2, TeardownEffect, CloseEffect, TasksStay
<1>4. "done" \in Stage
    BY DEF Stage
<1>5. /\ task' \in [Tab -> [Call -> Coroutine]]
      /\ task'[t][c].at = "done"
      /\ \A d \in Call : task'[t][d].sdp = task[t][d].sdp
      /\ \A d \in Call \ {c} : task'[t][d] = task[t][d]
      /\ \A x \in Tab \ {t} : task'[x] = task[x]
    BY <1>1, <1>2, <1>4, GotoEffect
<1>6. Alone(t)
    BY <1>2, <1>3, <1>5 DEF Alone
<1>7. /\ wire' \subseteq Signal
      /\ \A m \in wire' : m.kind = "offer" => m \in wire
    <2>1. /\ Frames("hangup", t, c, ui[t].peer) \subseteq Signal
          /\ \A m \in Frames("hangup", t, c, ui[t].peer) : m.kind = "hangup"
        BY FramesType
    <2>2. QED
        BY <1>1, <2>1 DEF Throw, TypeOK
<1>8. task[t][c].at # "none" /\ placed[c].by # None
    BY <1>1 DEF Throw, Known
<1>9. \A d \in Call :
         /\ task'[t][d].at \notin {"none", "done"} => d \in InFlight(t) /\ d # c
         /\ task'[t][d].sdp = task[t][d].sdp
         /\ task'[t][d].at # "none" => placed[d].by # None
    BY <1>5, <1>8, TasksStay
<1>10. /\ mounted' \in [Tab -> BOOLEAN] /\ pcs \in [Tab -> [Call -> PcState]]
       /\ remote' = remote /\ placed' = placed
       /\ rendered' \in [Tab -> [status : Status, incoming : MaybeCall]]
       /\ rendered'[t].incoming = rendered[t].incoming
    BY <1>1, <1>2 DEF TypeOK
<1>11. QED
    BY <1>2, <1>5, <1>6, <1>7, <1>9, <1>10, EndKeeps

LEMMA FailKeeps ==
    ASSUME CallInv, NEW t \in Tab, NEW c \in Call, Fail(t, c)
    PROVE  CallInv'
<1> DEFINE p == [pcs EXCEPT ![t][c] = "closed"]
<1>1. TypeOK /\ Known /\ TabInv(t)
    BY DEF CallInv
<1>2. /\ p \in [Tab -> [Call -> PcState]]
      /\ \A x \in Tab \ {t} : p[x] = pcs[x]
      /\ \A d \in Call : p[t][d] \in {"closed", pcs[t][d]}
    BY <1>1 DEF TypeOK, PcState
<1>3. /\ Teardown(t, None) /\ pcs' = Close(p, t)
      /\ UNCHANGED <<rendered, mounted, task, remote, placed, wire>>
    BY DEF Fail
<1> HIDE DEF p
<1>4. \A x \in Tab \ {t} : /\ ui'[x] = ui[x] /\ live'[x] = live[x]
                           /\ abandoned'[x] = abandoned[x]
                           /\ pcs'[x] = pcs[x]
    BY <1>1, <1>2, <1>3, TeardownEffect, CloseEffect
<1>5. Alone(t)
    BY <1>3, <1>4 DEF Alone
<1>6. /\ mounted' \in [Tab -> BOOLEAN] /\ wire' = wire /\ wire' \subseteq Signal
      /\ remote' = remote /\ placed' = placed /\ task' = task
      /\ rendered' \in [Tab -> [status : Status, incoming : MaybeCall]]
      /\ rendered'[t].incoming = rendered[t].incoming
    BY <1>1, <1>3 DEF TypeOK
<1>7. \A d \in Call :
         /\ task'[t][d].at \notin {"none", "done"} => d \in InFlight(t) /\ d # None
         /\ task'[t][d].sdp = task[t][d].sdp
         /\ task'[t][d].at # "none" => placed[d].by # None
    BY <1>6, TasksStay
<1>8. task' \in [Tab -> [Call -> Coroutine]]
    BY <1>6, TasksStay
<1>9. QED
    BY <1>2, <1>3, <1>5, <1>6, <1>7, <1>8, EndKeeps

LEMMA OnOfferKeeps ==
    ASSUME CallInv, NEW t \in Tab, NEW m \in wire, OnOffer(t, m),
           UNCHANGED <<rendered, mounted, task, placed>>
    PROVE  CallInv'
<1> DEFINE q == [ui[t] EXCEPT !.offer = m.call, !.incoming = m.call,
                              !.status = "ringing-in"]
<1>1. TypeOK /\ Known /\ TabInv(t)
    BY DEF CallInv
<1>2. /\ m \in Signal /\ m.kind = "offer" /\ m.call \in Call
      /\ placed[m.call].by # None
      /\ UNCHANGED <<pcs, remote, live, abandoned>>
    BY <1>1 DEF OnOffer, TypeOK, Signal, Known
<1>3. /\ wire' \subseteq Signal
      /\ \A x \in wire' : x.kind = "offer" => x \in wire
    <2>1. /\ Frames("decline", t, m.call, m.from) \subseteq Signal
          /\ \A x \in Frames("decline", t, m.call, m.from) : x.kind = "decline"
        BY <1>2, FramesType
    <2>2. QED
        BY <1>1, <2>1 DEF OnOffer, TypeOK
<1>4. \/ ui' = ui
      \/ ~Busy(t) /\ ui' = [ui EXCEPT ![t] = q]
    BY DEF OnOffer
<1>5. CASE ui' = ui
    <2>1. TypeOK' /\ Alone(t) /\ TabInv(t)'
        BY <1>1, <1>2, <1>3, <1>5
        DEF TypeOK, Alone, TabInv, Shown, Offers, Owned, Given, InFlight, IsOpen
    <2>2. Known'
        BY <1>1, <1>3, <1>5 DEF Known
    <2>3. QED
        BY <2>1, <2>2, Combine
<1>6. CASE ~Busy(t) /\ ui' = [ui EXCEPT ![t] = q]
    <2>1. /\ ui[t] \in Provider /\ m.call \in MaybeCall
          /\ "ringing-in" \in Status
        BY <1>1, <1>2 DEF TypeOK, MaybeCall, Status
    <2>2. /\ q \in Provider /\ q.status = "ringing-in"
          /\ q.incoming = m.call /\ q.offer = m.call
          /\ q.callId = ui[t].callId /\ q.pc = ui[t].pc
          /\ q.local = ui[t].local
        BY <2>1 DEF Provider
    <2> HIDE DEF q
    <2>3. /\ ui' \in [Tab -> Provider] /\ ui'[t] = q
          /\ \A x \in Tab \ {t} : ui'[x] = ui[x]
        BY <1>1, <1>6, <2>2, UiEffect
    <2>4. rendered[t].status = "idle" /\ ui[t].callId = None
        BY <1>1, <1>6 DEF Busy, TabInv, Shown
    <2>5. Alone(t) /\ TypeOK'
        BY <1>1, <1>2, <1>3, <2>3 DEF Alone, TypeOK
    <2>6. /\ \A d \in Call : placed[d].by # None => placed'[d].by # None
          /\ \A x \in wire' :
                x.kind = "offer" => x \in wire \/ placed'[x.call].by # None
          /\ ui'[t].incoming # None => placed'[ui'[t].incoming].by # None
          /\ rendered'[t].incoming # None =>
                 placed'[rendered'[t].incoming].by # None
          /\ \A d \in Call : task'[t][d].at # "none" => placed'[d].by # None
        BY <1>1, <1>2, <1>3, <2>2, <2>3 DEF Known
    <2>7. Known'
        BY <2>5, <2>6, KnownKeeps
    <2>8. Shown(t)' /\ Offers(t)'
        BY <2>2, <2>3, <2>4 DEF Shown, Offers
    <2>9. Owned(t)' /\ Given(t)'
        BY <1>1, <1>2, <2>2, <2>3
        DEF TabInv, Owned, Given, InFlight, IsOpen
    <2>10. QED
        BY <2>5, <2>7, <2>8, <2>9, Combine DEF TabInv
<1>7. QED
    BY <1>4, <1>5, <1>6

LEMMA OnAnswerKeeps ==
    ASSUME CallInv, NEW t \in Tab, NEW m \in wire, OnAnswer(t, m),
           UNCHANGED <<rendered, mounted, task, placed>>
    PROVE  CallInv'
<1> DEFINE q == [ui[t] EXCEPT !.status = "connecting"]
<1>1. TypeOK /\ Known /\ TabInv(t)
    BY DEF CallInv
<1>2. /\ m \in Signal /\ m.call \in Call
      /\ UNCHANGED <<pcs, live, abandoned>>
      /\ wire' \subseteq Signal /\ wire' \subseteq wire
    BY <1>1 DEF OnAnswer, TypeOK, Signal
<1>3. ui[t].pc \in MaybeCall
    BY <1>1 DEF TypeOK, Provider
<1>4. \/ ui' = ui /\ remote' = remote
      \/ /\ m.call = ui[t].callId /\ ui' = [ui EXCEPT ![t] = q]
         /\ ui[t].pc # None
         /\ \/ remote' = remote
            \/ remote' = [remote EXCEPT ![t][ui[t].pc] = m.call]
    BY DEF OnAnswer
<1>5. CASE ui' = ui /\ remote' = remote
    <2>1. TypeOK' /\ Alone(t) /\ TabInv(t)'
        BY <1>1, <1>2, <1>5
        DEF TypeOK, Alone, TabInv, Shown, Offers, Owned, Given, InFlight, IsOpen
    <2>2. Known'
        BY <1>1, <1>2, <1>5 DEF Known
    <2>3. QED
        BY <2>1, <2>2, Combine
<1>6. CASE /\ m.call = ui[t].callId /\ ui' = [ui EXCEPT ![t] = q]
           /\ ui[t].pc # None
           /\ \/ remote' = remote
              \/ remote' = [remote EXCEPT ![t][ui[t].pc] = m.call]
    <2>1. ui[t] \in Provider /\ "connecting" \in Status
        BY <1>1 DEF TypeOK, Status
    <2>2. /\ q \in Provider /\ q.status = "connecting"
          /\ q.incoming = ui[t].incoming /\ q.offer = ui[t].offer
          /\ q.callId = ui[t].callId /\ q.pc = ui[t].pc
          /\ q.local = ui[t].local
        BY <2>1 DEF Provider
    <2> HIDE DEF q
    <2>3. /\ ui' \in [Tab -> Provider] /\ ui'[t] = q
          /\ \A x \in Tab \ {t} : ui'[x] = ui[x]
        BY <1>1, <1>6, <2>2, UiEffect
    <2>4. /\ remote' \in [Tab -> [Call -> MaybeCall]]
          /\ \A x \in Tab \ {t} : remote'[x] = remote[x]
          /\ \A c \in Call :
                \/ remote'[t][c] = remote[t][c]
                \/ c = ui[t].pc /\ remote'[t][c] = m.call
        <3>1. ui[t].pc \in Call /\ m.call \in MaybeCall
            BY <1>2, <1>3, <1>6 DEF MaybeCall
        <3>2. remote \in [Tab -> [Call -> MaybeCall]]
            BY <1>1 DEF TypeOK
        <3>3. CASE remote' = remote
            BY <3>2, <3>3
        <3>4. CASE remote' = [remote EXCEPT ![t][ui[t].pc] = m.call]
            BY <3>1, <3>2, <3>4
        <3>5. QED
            BY <1>6, <3>3, <3>4
    <2>5. Alone(t) /\ TypeOK'
        BY <1>1, <1>2, <2>3, <2>4 DEF Alone, TypeOK
    <2>6. Known'
        BY <1>1, <1>2, <2>2, <2>3 DEF Known
    <2>7. ui[t].callId # None
        BY <1>2, <1>6, NoneAssumption
    <2>8. Shown(t)' /\ Offers(t)' /\ Given(t)'
        BY <1>1, <1>2, <2>2, <2>3, <2>7 DEF TabInv, Shown, Offers, Given
    <2>9. Owned(t)'
        <3>1. ASSUME ~abandoned'[t], NEW c \in Call
              PROVE  remote'[t][c] \in {None, c}
            BY <1>1, <1>2, <1>6, <2>4, <3>1 DEF TabInv, Owned
        <3>2. QED
            BY <1>1, <1>2, <2>2, <2>3, <3>1 DEF TabInv, Owned, InFlight, IsOpen
    <2>10. QED
        BY <2>5, <2>6, <2>8, <2>9, Combine DEF TabInv
<1>7. QED
    BY <1>4, <1>5, <1>6

LEMMA OnEndKeeps ==
    ASSUME CallInv, NEW t \in Tab, NEW m \in wire, OnEnd(t, m),
           UNCHANGED <<rendered, mounted, task, placed>>
    PROVE  CallInv'
<1>1. TypeOK /\ Known /\ TabInv(t)
    BY DEF CallInv
<1>2. /\ wire' \subseteq Signal /\ wire' \subseteq wire
      /\ remote' = remote
    BY <1>1 DEF OnEnd, TypeOK
<1>3. \/ UNCHANGED <<ui, live, pcs, abandoned>>
      \/ Teardown(t, None) /\ pcs' = Close(pcs, t)
    BY DEF OnEnd
<1>4. CASE UNCHANGED <<ui, live, pcs, abandoned>>
    <2>1. TypeOK' /\ Alone(t) /\ TabInv(t)'
        BY <1>1, <1>2, <1>4
        DEF TypeOK, Alone, TabInv, Shown, Offers, Owned, Given, InFlight, IsOpen
    <2>2. Known'
        BY <1>1, <1>2, <1>4 DEF Known
    <2>3. QED
        BY <2>1, <2>2, Combine
<1>5. CASE Teardown(t, None) /\ pcs' = Close(pcs, t)
    <2>1. \A x \in Tab \ {t} : /\ ui'[x] = ui[x] /\ live'[x] = live[x]
                               /\ abandoned'[x] = abandoned[x]
                               /\ pcs'[x] = pcs[x]
        BY <1>1, <1>5, TeardownEffect, CloseEffect, TasksStay
    <2>2. Alone(t)
        BY <1>2, <2>1 DEF Alone
    <2>3. /\ mounted' \in [Tab -> BOOLEAN] /\ placed' = placed /\ task' = task
          /\ rendered' \in [Tab -> [status : Status, incoming : MaybeCall]]
          /\ rendered'[t].incoming = rendered[t].incoming
        BY <1>1 DEF TypeOK
    <2>4. \A c \in Call :
             /\ task'[t][c].at \notin {"none", "done"} =>
                    c \in InFlight(t) /\ c # None
             /\ task'[t][c].sdp = task[t][c].sdp
             /\ task'[t][c].at # "none" => placed[c].by # None
        BY <2>3, TasksStay
    <2>5. /\ task' \in [Tab -> [Call -> Coroutine]]
          /\ pcs \in [Tab -> [Call -> PcState]]
          /\ \A x \in wire' : x.kind = "offer" => x \in wire
        BY <1>2, <2>3, TasksStay
    <2>6. QED
        BY <1>2, <1>5, <2>2, <2>3, <2>4, <2>5, EndKeeps
<1>6. QED
    BY <1>3, <1>4, <1>5

-----------------------------------------------------------------------------
(* The theorems                                                            *)

LEMMA InitInv == Init => CallInv
<1> SUFFICES ASSUME Init PROVE CallInv
    OBVIOUS
<1>1. \A t \in Tab : ui[t] = Blank /\ rendered[t] = View(Blank)
    BY DEF Init
<1>2. /\ View(Blank).status = "idle" /\ View(Blank).incoming = None
      /\ View(Blank) \in [status : Status, incoming : MaybeCall]
    BY BlankType, ViewType
<1>3. TypeOK
    BY <1>2, BlankType
    DEF Init, TypeOK, Coroutine, Stage, PcState, MaybeCall
<1>4. Known
    BY <1>1, <1>2, BlankType DEF Init, Known
<1>5. ASSUME NEW t \in Tab PROVE TabInv(t)
    BY <1>1, <1>2, BlankType
    DEF Init, TabInv, Shown, Offers, Owned, Given, InFlight, IsOpen
<1>6. QED
    BY <1>3, <1>4, <1>5 DEF CallInv

LEMMA NextInv == CallInv /\ [Next]_vars => CallInv'
<1> SUFFICES ASSUME CallInv, [Next]_vars PROVE CallInv'
    OBVIOUS
<1>1. CASE UNCHANGED vars
    BY <1>1 DEF vars, CallInv, TypeOK, Known, TabInv, Shown, Offers, Owned,
                Given, InFlight, IsOpen
<1>2. ASSUME NEW t \in Tab, NEW u \in User, NEW c \in Call, StartCall(t, u, c)
      PROVE  CallInv'
    BY <1>2, StartCallKeeps
<1>3. ASSUME NEW t \in Tab,
             Accept(t) \/ Decline(t) \/ Hangup(t) \/ Unmount(t) \/ Render(t)
      PROVE  CallInv'
    BY <1>3, AcceptKeeps, DeclineKeeps, HangupKeeps, UnmountKeeps, RenderKeeps
<1>4. ASSUME NEW t \in Tab, Receive(t)
      PROVE  CallInv'
    BY <1>4, OnOfferKeeps, OnAnswerKeeps, OnEndKeeps DEF Receive
<1>5. ASSUME NEW t \in Tab, NEW c \in Call, Resume(t, c)
      PROVE  CallInv'
    BY <1>5, CapturedKeeps, BuildPeerKeeps, SendOfferKeeps, ApplyOfferKeeps,
       SendAnswerKeeps, ThrowKeeps, NeverSettlesKeeps DEF Resume
<1>6. ASSUME NEW t \in Tab, NEW c \in Call, Connect(t, c) \/ Fail(t, c)
      PROVE  CallInv'
    BY <1>6, ConnectKeeps, FailKeeps
<1>7. QED
    BY <1>1, <1>2, <1>3, <1>4, <1>5, <1>6 DEF Next

LEMMA InvHolds == Spec => []CallInv
BY InitInv, NextInv, PTL DEF Spec

\* The refs, the React state, the coroutines, the connections and the signals
\* always have their types.
THEOREM TypeCorrect == Spec => []TypeOK
<1>1. CallInv => TypeOK
    BY DEF CallInv
<1>2. QED
    BY <1>1, InvHolds, PTL

\* The offer the user accepts is the one of the ring on the screen.
THEOREM TheRingIsTheOffer == Spec => []RingIsTheOffer
<1>1. CallInv => RingIsTheOffer
    BY NoneAssumption DEF CallInv, TabInv, Offers, RingIsTheOffer, Ringing
<1>2. QED
    BY <1>1, InvHolds, PTL

\* Until a call is abandoned while it is set up, no connection is ever given
\* the description of another call.
THEOREM DescriptionsStayApart == Spec => []DescriptionsMatch
<1>1. CallInv => DescriptionsMatch
    BY DEF CallInv, TabInv, Owned, DescriptionsMatch
<1>2. QED
    BY <1>1, InvHolds, PTL

\* Until then, a tab that shows no call has released its devices and its
\* connection, however the call ended.
THEOREM CallsRelease == Spec => []Released
<1>1. ASSUME CallInv, NEW t \in Tab, Quiet(t), ~abandoned[t]
      PROVE  /\ live[t] = {} /\ ui[t].pc = None
             /\ \A c \in Call : ~IsOpen(t, c)
    <2>1. TypeOK /\ Shown(t) /\ Owned(t)
        BY <1>1 DEF CallInv, TabInv
    <2>2. ui[t].callId = None
        BY <1>1, <2>1 DEF Quiet, Shown
    <2>3. ui[t].pc = None /\ ui[t].local = None
        BY <1>1, <2>1, <2>2 DEF Owned
    <2>4. live[t] = {}
        BY <1>1, <2>1, <2>3, NoneAssumption DEF Owned, TypeOK
    <2>5. QED
        BY <1>1, <2>1, <2>3, <2>4, NoneAssumption DEF Owned
<1>2. CallInv => Released
    BY <1>1 DEF Released
<1>3. QED
    BY <1>2, InvHolds, PTL

\* A caller never replaces the offer of a tab that has a call already,
\* whenever its signal listener was registered.
THEOREM BusyIsKept == Spec => BusyKeepsItsCall
<1> DEFINE Kept == \A x \in Tab : ui[x].callId # None =>
                       ui'[x].offer \in {ui[x].offer, None}
<1>1. ASSUME CallInv, NEW t \in Tab, Receive(t)
      PROVE  Kept
    <2>1. PICK m \in wire : OnOffer(t, m) \/ OnAnswer(t, m) \/ OnEnd(t, m)
        BY <1>1 DEF Receive
    <2>2. ui \in [Tab -> Provider] /\ Blank.offer = None
        BY <1>1, BlankType DEF CallInv, TypeOK
    <2>3. CASE OnOffer(t, m)
        <3>1. ui[t].callId # None => Busy(t)
            BY <1>1 DEF CallInv, TabInv, Shown, Busy
        <3>2. QED
            BY <2>2, <2>3, <3>1 DEF OnOffer
    <2>4. CASE OnAnswer(t, m)
        <3>1. \/ ui' = ui
              \/ ui' = [ui EXCEPT ![t] = [@ EXCEPT !.status = "connecting"]]
            BY <2>4 DEF OnAnswer
        <3>2. QED
            BY <2>2, <3>1 DEF Provider
    <2>5. CASE OnEnd(t, m)
        BY <2>2, <2>5 DEF OnEnd, Teardown
    <2>6. QED
        BY <2>1, <2>3, <2>4, <2>5
<1>2. ASSUME CallInv, NEW t \in Tab,
             \/ \E u \in User, c \in Call : StartCall(t, u, c)
             \/ Accept(t) \/ Decline(t) \/ Hangup(t) \/ Unmount(t) \/ Render(t)
      PROVE  Kept
    <2>1. ui \in [Tab -> Provider] /\ Blank.offer = None
        BY <1>2, BlankType DEF CallInv, TypeOK
    <2>2. CASE \E u \in User, c \in Call : StartCall(t, u, c)
        <3>1. \E u \in User, c \in Call :
                 ui' = [ui EXCEPT ![t] = [@ EXCEPT !.callId = c, !.peer = u,
                                                   !.status = "ringing-out"]]
            BY <2>2 DEF StartCall
        <3>2. QED
            BY <2>1, <3>1 DEF Provider
    <2>3. CASE Accept(t)
        <3>1. \E c, u :
                 ui' = [ui EXCEPT ![t] = [@ EXCEPT !.callId = c, !.peer = u,
                                     !.incoming = None, !.status = "connecting"]]
            BY <2>3 DEF Accept
        <3>2. QED
            BY <2>1, <3>1 DEF Provider
    <2>4. CASE Decline(t)
        BY <2>1, <2>4 DEF Decline, Provider
    <2>5. CASE Hangup(t) \/ Unmount(t)
        BY <2>1, <2>5 DEF Hangup, Unmount, Teardown
    <2>6. CASE Render(t)
        BY <2>1, <2>6 DEF Render
    <2>7. QED
        BY <1>2, <2>2, <2>3, <2>4, <2>5, <2>6
<1>3. ASSUME CallInv, NEW t \in Tab, NEW c \in Call,
             Resume(t, c) \/ Connect(t, c) \/ Fail(t, c)
      PROVE  Kept
    <2>1. ui \in [Tab -> Provider] /\ Blank.offer = None
        BY <1>3, BlankType DEF CallInv, TypeOK
    <2>2. QED
        BY <1>3, <2>1
        DEF Resume, Captured, BuildPeer, SendOffer, ApplyOffer, SendAnswer,
            Throw, NeverSettles, Connect, Fail, Teardown, Provider
<1>4. CallInv /\ [Next]_vars =>
          [\A t \in Tab : ui[t].callId # None =>
                ui'[t].offer \in {ui[t].offer, None}]_vars
    BY <1>1, <1>2, <1>3 DEF Next
<1>5. QED
    BY <1>4, InvHolds, PTL DEF Spec, BusyKeepsItsCall
=============================================================================
