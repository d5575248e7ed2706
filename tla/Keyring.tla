------------------------------ MODULE Keyring ------------------------------
(***************************************************************************)
(* The channel keys of one account on one device: the unlocked Vault and   *)
(* its sealed copy in IndexedDB (vault/Vault.ts, vault/db.ts), and every   *)
(* writer of its channel records: the key-offer and key-request handlers   *)
(* (relay/useRelayInbound.ts), opening a DM (relay/useRelayOutbound.ts),   *)
(* the reconcile loop (channels/useChannelList.ts) and the menus of the    *)
(* channel list and the chat page.                                         *)
(*                                                                         *)
(* A writer keeps the vault object it started with.  It changes the record *)
(* at once, seals the whole vault at that moment, and waits for the put;   *)
(* puts of one database commit in the order they were requested, and what  *)
(* the writer does next happens before any other event.  Locking wipes the *)
(* key inside the object, under the writers that still hold it.            *)
(*                                                                         *)
(* A lane runs one coroutine at a time.  The relay is what module Relay    *)
(* promises: a parked offer is handed over at least once and dropped when  *)
(* it is acknowledged.                                                     *)
(***************************************************************************)
EXTENDS Naturals, Sequences, FiniteSets

CONSTANTS
    Ch,                     \* channels
    Peers, SignKeys, NoKey, \* contacts and the signing keys seen for them
    Frame, Ui, Fetcher,     \* lanes: relay frames, gestures, GET /list
    Hasty,                  \* the user locks and switches mid-way
    MaxGestures, MaxTroubles

ASSUME LaneAssumption ==
    Frame \cap Ui = {} /\ Frame \cap Fetcher = {} /\ Ui \cap Fetcher = {}
ASSUME ChAssumption == Ch # {}
ASSUME NoKeyAssumption == NoKey \notin SignKeys
ASSUME BoundAssumption == MaxGestures \in Nat /\ MaxTroubles \in Nat
ASSUME HastyAssumption == Hasty \in BOOLEAN

VARIABLES
    disk,       \* the sealed vault: does the account's key open it, its data
    puts,       \* puts requested and not committed, with the lane that waits
    vault,      \* vault objects: key not wiped, data
    live,       \* the object the session holds, 0 if none
    task,       \* the coroutine of each lane
    sort,       \* what each channel is: group, incognito group, direct message
    srv,        \* the account's membership rows and blocks
    up,         \* the relay socket is open
    parked,     \* key offers the relay keeps for us
    held,       \* channels whose key some other member holds
    behind,     \* the last put failed: memory is ahead of the disk
    left        \* what remains of the bounds; channels not created yet

vars == <<disk, puts, vault, live, task, sort, srv, up, parked, held,
          behind, left>>

-----------------------------------------------------------------------------
Lane == Frame \cup Ui \cup Fetcher
Object == {1, 2}

\* StoredChannel; `edit' is what the user sets locally: label and icon.
Rec == {r \in [here : BOOLEAN, hasKey : BOOLEAN, incog : BOOLEAN, blocked : BOOLEAN,
               request : BOOLEAN, edit : BOOLEAN] : r.hasKey => r.here}
NoRec == [here |-> FALSE, hasKey |-> FALSE, incog |-> FALSE, blocked |-> FALSE,
          request |-> FALSE, edit |-> FALSE]
Fresh == [NoRec EXCEPT !.here = TRUE]
Keyed == [Fresh EXCEPT !.hasKey = TRUE]

\* VaultData: the channels, and the signing key pinned for each contact.
Data == [chans : [Ch -> Rec], pins : [Peers -> SignKeys \cup {NoKey}]]
Blob == [good : BOOLEAN, data : Data]
Put == [lane : Lane, blob : Blob]
NoData == [chans |-> [c \in Ch |-> NoRec], pins |-> [p \in Peers |-> NoKey]]

Dropped == [alive |-> FALSE, data |-> NoData]    \* an object nobody holds

Sorts == {"group", "incognito", "dm"}
Srv == [member : BOOLEAN, blocked : BOOLEAN, request : BOOLEAN]
NotIn == [member |-> FALSE, blocked |-> FALSE, request |-> FALSE]

Kinds == {"offer", "give", "list", "edit", "block", "accept", "leave", "join",
          "create", "dm"}
\* call: request sent; back: answered; pin, save: waiting for a put;
\* del: deleting the transcript; form: the user fills in the menu's dialog.
Stages == {"idle", "call", "back", "form", "pin", "save", "del"}
Task == [at : Stages, kind : Kinds, v : Object, c : Ch, copy : Rec,
         list : [Ch -> Srv], todo : SUBSET Ch, flag : BOOLEAN]

TypeOK ==
    /\ disk \in Blob
    /\ puts \in Seq(Put)
    /\ vault \in [Object -> [alive : BOOLEAN, data : Data]]
    /\ live \in Object \cup {0}
    /\ task \in [Lane -> Task]
    /\ sort \in [Ch -> Sorts]
    /\ srv \in [Ch -> Srv]
    /\ up \in BOOLEAN
    /\ parked \subseteq Ch /\ held \subseteq Ch
    /\ behind \in BOOLEAN
    /\ left \in [gestures : Nat, troubles : Nat, fresh : SUBSET Ch]

Idle == [at |-> "idle", kind |-> "list", v |-> 1, c |-> CHOOSE c \in Ch : TRUE,
         copy |-> NoRec, list |-> [c \in Ch |-> NotIn], todo |-> {},
         flag |-> FALSE]
Free(s) == task[s].at = "idle"
Start(kind, at, c) ==
    [Idle EXCEPT !.kind = kind, !.at = at, !.c = c, !.v = live]

\* A device registered or recovered: the code brought back the keys of the
\* channels `kept', of an account that is a member of the channels `in'.
Init ==
    \E in \in SUBSET Ch, kept \in SUBSET Ch :
        /\ sort \in [Ch -> Sorts]
        /\ srv = [c \in Ch |-> [NotIn EXCEPT !.member = c \in in]]
        /\ disk = [good |-> TRUE,
                   data |-> [NoData EXCEPT !.chans = [c \in Ch |->
                                 IF c \in kept THEN Keyed ELSE NoRec]]]
        /\ puts = <<>>
        /\ vault = [o \in Object |-> Dropped]
        /\ live = 0
        /\ task = [s \in Lane |-> Idle]
        /\ up = FALSE
        /\ parked = {}
        /\ held \in SUBSET Ch
        /\ behind = FALSE
        /\ left = [gestures |-> MaxGestures, troubles |-> MaxTroubles,
                   fresh |-> Ch \ (in \cup kept \cup held)]

-----------------------------------------------------------------------------
(* Writing                                                                 *)

IsDm(c) == sort[c] = "dm"
Incog(c) == sort[c] = "incognito"
Channel(o, c) == vault[o].data.chans[c]

\* flush: the data is copied and the key read now, the put is only requested.
Flush(s, o, data, queue) ==
    /\ vault' = [vault EXCEPT ![o].data = data]
    /\ puts' = Append(queue, [lane |-> s,
                              blob |-> [good |-> vault[o].alive, data |-> data]])

SaveChannel(s, o, c, rec, queue) ==
    Flush(s, o, [vault[o].data EXCEPT !.chans[c] = rec], queue)

\* Mutant: the latest signing key seen replaces the pin.
PinLatest(s, o, p, k, queue) ==
    Flush(s, o, [vault[o].data EXCEPT !.pins[p] = k], queue)

\* pinContact: the first signing key stays; a different one is only flagged.
PinContact(s, o, p, k, queue) ==
    Flush(s, o, [vault[o].data EXCEPT !.pins[p] = IF @ = NoKey THEN k ELSE @],
          queue)

\* The oldest put commits and the coroutine that waits for it goes on.
Landed(s) ==
    /\ puts # <<>> /\ Head(puts).lane = s
    /\ disk' = Head(puts).blob
    /\ behind' = FALSE
Waits(s, kind, at) == task[s].kind = kind /\ task[s].at = at

Goto(s, at) == task' = [task EXCEPT ![s].at = at]
Finish(s) == task' = [task EXCEPT ![s] = Idle]

\* Between selectAccount's lock() and the render that follows, the session
\* still shows the wiped vault; only a hasty user, or a busy relay, meets it.
Calm == Hasty \/ (live # 0 => vault[live].alive)

-----------------------------------------------------------------------------
(* The session                                                             *)

\* GET /channel/list is sent again when membership may have changed; a result
\* nobody waits for any more is ignored, a loop that has begun goes on.
Superseded(s) == s \in Fetcher /\ task[s].at \in {"call", "back"}
Fetch(o) ==
    \E s \in Fetcher :
        /\ Free(s) \/ Superseded(s)
        /\ task' = [x \in Lane |->
                      IF x = s THEN [Idle EXCEPT !.kind = "list", !.at = "call",
                                                 !.v = o]
                      ELSE IF Superseded(x) THEN Idle ELSE task[x]]

InUse(o) == \E s \in Lane : ~Free(s) /\ ~Superseded(s) /\ task[s].v = o

\* Vault.unlock or Vault.resume, and the first render of the app.
Open ==
    /\ live = 0 /\ disk.good
    /\ \E o \in Object :
        /\ ~InUse(o) /\ (o = 2 => InUse(1))
        /\ vault' = [vault EXCEPT ![o] = [alive |-> TRUE, data |-> disk.data]]
        /\ live' = o
        /\ Fetch(o)
    /\ UNCHANGED <<sort, disk, puts, srv, up, parked, behind, left, held>>

\* Nothing is under way but a fetch, which the unmount cancels.
Quiet == puts = <<>> /\ \A s \in Lane : Free(s) \/ Superseded(s)

\* What a coroutine sends on a socket that is gone goes nowhere.
Unplugged(s) == [task[s] EXCEPT !.flag = FALSE]

\* logout, or selectAccount: vault.lock() wipes the key.
Lock ==
    /\ live # 0 /\ vault[live].alive
    /\ Hasty \/ Quiet
    /\ vault' = [vault EXCEPT ![live].alive = FALSE]
    /\ UNCHANGED <<sort, disk, puts, live, task, srv, up, parked,
                   behind, left, held>>

\* The session without the vault is rendered; the socket's effect closes it.
Locked ==
    /\ live # 0 /\ ~vault[live].alive
    /\ live' = 0
    /\ vault' = IF InUse(live) THEN vault ELSE [vault EXCEPT ![live] = Dropped]
    /\ up' = FALSE
    /\ task' = [s \in Lane |-> IF Superseded(s) THEN Idle ELSE Unplugged(s)]
    /\ UNCHANGED <<sort, disk, puts, srv, parked, behind, left, held>>

\* The tab is closed or reloaded: puts that were not committed are lost.
TabDies ==
    /\ left.troubles > 0
    /\ left' = [left EXCEPT !.troubles = @ - 1]
    /\ puts' = <<>>
    /\ vault' = [o \in Object |-> Dropped]
    /\ live' = 0
    /\ task' = [s \in Lane |-> Idle]
    /\ up' = FALSE
    /\ behind' = FALSE
    /\ UNCHANGED <<sort, disk, srv, parked, held>>

\* A request for a key reaches the members; one that holds it answers with an
\* offer, which the relay parks.
Request(cs) == parked' = parked \cup {c \in cs \cap held : srv[c].member}

\* Mutant: nothing is asked for on a reconnect.
ConnectSilently ==
    /\ live # 0 /\ ~up /\ Calm
    /\ up' = TRUE
    /\ Fetch(live)
    /\ UNCHANGED <<sort, disk, puts, vault, live, srv, parked, behind, left, held>>

\* ws.onopen: reconcile, and ask for every channel we cannot read.
Connect ==
    /\ live # 0 /\ ~up /\ Calm
    /\ up' = TRUE
    /\ Fetch(live)
    /\ Request({c \in Ch : Channel(live, c).here /\ ~Channel(live, c).hasKey})
    /\ UNCHANGED <<sort, disk, puts, vault, live, srv, behind, left, held>>

Drop ==
    /\ up
    /\ up' = FALSE
    /\ task' = [s \in Lane |-> Unplugged(s)]
    /\ UNCHANGED <<sort, disk, puts, vault, live, srv, parked,
                   behind, left, held>>

-----------------------------------------------------------------------------
(* The relay and the other members                                         *)

\* Another account opens a DM with us: a request until we accept it, and until
\* then the relay keeps the key back.
Invited(c) ==
    /\ left.gestures > 0
    /\ IsDm(c) /\ c \in held /\ ~srv[c].member
    /\ srv' = [srv EXCEPT ![c] = [@ EXCEPT !.member = TRUE, !.request = TRUE]]
    /\ left' = [left EXCEPT !.gestures = @ - 1]
    /\ parked' = parked \cup {c}
    /\ IF up /\ Calm THEN Fetch(live)          \* the dm-request frame
       ELSE UNCHANGED task
    /\ UNCHANGED <<sort, disk, puts, vault, live, up, behind, held>>

-----------------------------------------------------------------------------
(* handleKeyOffer                                                          *)

Ack(c) == parked' = parked \ {c}
Delivered(c) == c \in parked /\ ~srv[c].request

AlreadyKeyed(c) ==
    /\ live # 0 /\ up /\ Calm
    /\ Delivered(c) /\ Channel(live, c).hasKey
    /\ Ack(c)
    /\ UNCHANGED <<sort, disk, puts, vault, live, task, srv, up, behind, left, held>>

ReceiveOffer(s, c, p, k) ==
    /\ live # 0 /\ up /\ Calm
    /\ Delivered(c) /\ ~Channel(live, c).hasKey
    /\ Free(s)
    /\ task' = [task EXCEPT ![s] = [Start("offer", "pin", c) EXCEPT
                                       !.copy = Channel(live, c), !.flag = TRUE]]
    /\ PinContact(s, live, p, k, puts)
    /\ UNCHANGED <<sort, disk, live, srv, up, parked, behind, left, held>>

\* Mutant: the offer is acknowledged before its key is stored.
OfferPinnedAndAcked(s) ==
    LET t == task[s] IN
    /\ Waits(s, "offer", "pin") /\ Landed(s)
    /\ SaveChannel(s, t.v, t.c, [t.copy EXCEPT !.here = TRUE, !.hasKey = TRUE,
                                               !.request = FALSE], Tail(puts))
    /\ Ack(t.c)
    /\ Goto(s, "save")
    /\ UNCHANGED <<sort, live, srv, up, left, held>>

\* The record is built from what the channel was before the pin.
OfferPinned(s) ==
    LET t == task[s] IN
    /\ Waits(s, "offer", "pin") /\ Landed(s)
    /\ SaveChannel(s, t.v, t.c, [t.copy EXCEPT !.here = TRUE, !.hasKey = TRUE,
                                               !.request = FALSE], Tail(puts))
    /\ Goto(s, "save")
    /\ UNCHANGED <<sort, live, srv, up, parked, left, held>>

\* Stored: acknowledge, and tell the channel who we are.
OfferSaved(s) ==
    LET t == task[s] IN
    /\ Waits(s, "offer", "save") /\ Landed(s)
    /\ puts' = Tail(puts)
    /\ IF t.flag THEN Ack(t.c) ELSE UNCHANGED parked
    /\ Finish(s)
    /\ UNCHANGED <<sort, vault, live, srv, up, left, held>>

\* offerKeyTo, for a member that joined or asks for the key.
Give(s, c, p, k) ==
    /\ live # 0 /\ up /\ Calm /\ srv[c].member /\ Channel(live, c).hasKey
    /\ Free(s)
    /\ left.gestures > 0 /\ left' = [left EXCEPT !.gestures = @ - 1]
    /\ task' = [task EXCEPT ![s] = [Start("give", "pin", c) EXCEPT !.flag = TRUE]]
    /\ PinContact(s, live, p, k, puts)
    /\ UNCHANGED <<sort, disk, live, srv, up, parked, behind, held>>

Given(s) ==
    /\ Waits(s, "give", "pin") /\ Landed(s)
    /\ puts' = Tail(puts)
    /\ held' = IF task[s].flag THEN held \cup {task[s].c} ELSE held
    /\ Finish(s)
    /\ UNCHANGED <<sort, vault, live, srv, up, parked, left>>

-----------------------------------------------------------------------------
(* useChannelList: the server's list against the vault                     *)

ListServed(s) ==
    /\ Waits(s, "list", "call") /\ Calm
    /\ task' = [task EXCEPT ![s] = [@ EXCEPT !.at = "back", !.list = srv,
                                  !.todo = {c \in Ch : srv[c].member}]]
    /\ UNCHANGED <<sort, disk, puts, vault, live, srv, up, parked,
                   behind, left, held>>

Merged(c, local, remote) ==
    [(IF local.here THEN local ELSE Fresh) EXCEPT
        !.incog = Incog(c), !.blocked = remote.blocked, !.request = remote.request]

\* The loop goes on to the next channel that differs; it reads the vault now.
Iterate(s, queue) ==
    LET t == task[s]
        Diff == {c \in t.todo :
                   Merged(c, Channel(t.v, c), t.list[c]) # Channel(t.v, c)}
    IN  \/ /\ Diff = {}
           /\ puts' = queue
           /\ Finish(s)
           /\ UNCHANGED vault
        \/ \E c \in Diff, skipped \in SUBSET (t.todo \ Diff) :
           /\ SaveChannel(s, t.v, c, Merged(c, Channel(t.v, c), t.list[c]), queue)
           /\ task' = [task EXCEPT ![s] = [@ EXCEPT !.at = "save",
                                         !.todo = t.todo \ ({c} \cup skipped)]]

ListBack(s) ==
    /\ Waits(s, "list", "back") /\ Calm
    /\ Iterate(s, puts)
    /\ UNCHANGED <<sort, disk, live, srv, up, parked, behind, left, held>>

ListSaved(s) ==
    /\ Waits(s, "list", "save") /\ Landed(s)
    /\ Iterate(s, Tail(puts))
    /\ UNCHANGED <<sort, live, srv, up, parked, left, held>>

-----------------------------------------------------------------------------
(* The menus of the channel list and the chat page                         *)

\* A gesture works on the record its menu or dialog was opened with, however
\* long ago, and on the vault of that render.
Gesture(u, kind, at, c) ==
    /\ live # 0 /\ Calm /\ Free(u)
    /\ left.gestures > 0
    /\ task' = [task EXCEPT ![u] = [Start(kind, at, c) EXCEPT
                                  !.copy = Channel(live, c), !.flag = up]]
    /\ UNCHANGED <<sort, disk, puts, vault, live, srv, up, parked,
                   behind, held>>
Spend == left' = [left EXCEPT !.gestures = @ - 1]

\* Rename, or a new icon: a dialog, then the copy is written back.
StartEdit(u, c) ==
    live # 0 /\ Channel(live, c).here /\ Gesture(u, "edit", "form", c) /\ Spend
StartBlock(u, c) ==
    /\ live # 0 /\ IsDm(c) /\ Channel(live, c).here
    /\ Gesture(u, "block", "call", c) /\ Spend
StartAccept(u, c) ==
    live # 0 /\ Channel(live, c).request /\ Gesture(u, "accept", "call", c) /\ Spend
StartLeave(u, c) ==
    live # 0 /\ Channel(live, c).here /\ Gesture(u, "leave", "call", c) /\ Spend
StartJoin(u, c) == c \in held /\ ~IsDm(c) /\ Gesture(u, "join", "call", c) /\ Spend
OpenDm(u, c) == IsDm(c) /\ Gesture(u, "dm", "call", c) /\ Spend
StartCreate(u, c) ==
    /\ c \in left.fresh /\ ~IsDm(c) /\ Gesture(u, "create", "call", c)
    /\ left' = [left EXCEPT !.gestures = @ - 1, !.fresh = @ \ {c}]

\* What the server does with the request; its answer is still under way.
Served(u) ==
    LET t == task[u]  c == t.c
        refused == \/ t.kind = "block" /\ ~srv[c].member
                   \/ t.kind = "accept" /\ ~srv[c].request IN
    /\ t.at = "call" /\ u \in Ui
    /\ \/ /\ ~refused
          /\ srv' = [srv EXCEPT ![c] =
                CASE t.kind = "block" -> [@ EXCEPT !.blocked = ~t.copy.blocked]
                  [] t.kind = "accept" -> [@ EXCEPT !.request = FALSE]
                  [] t.kind = "leave" -> [@ EXCEPT !.member = FALSE,
                                                   !.request = FALSE]
                  [] OTHER -> [@ EXCEPT !.member = TRUE]]
          /\ parked' = CASE t.kind = "leave" -> parked \ {c}
                         [] t.kind = "join" /\ ~srv[c].member -> parked \cup {c}
                         [] OTHER -> parked
          /\ Goto(u, "back")
          /\ UNCHANGED left
       \/ /\ refused \/ left.troubles > 0               \* an error, or no network
          /\ left' = [left EXCEPT !.troubles = IF refused THEN @ ELSE @ - 1]
          /\ IF t.kind = "leave" THEN Goto(u, "back") ELSE Finish(u)
          /\ UNCHANGED <<srv, parked>>
    /\ UNCHANGED <<sort, disk, puts, vault, live, up, behind, held>>

\* The answer, or the dialog, leads to one save.
Write(u, rec) ==
    /\ SaveChannel(u, task[u].v, task[u].c, rec, puts)
    /\ Goto(u, "save")

SubmitEdit(u) ==
    /\ Waits(u, "edit", "form") /\ Calm
    /\ Write(u, [task[u].copy EXCEPT !.edit = TRUE])
    /\ UNCHANGED <<sort, disk, live, srv, up, parked, behind, left, held>>

Blocked(u) ==
    /\ Waits(u, "block", "back") /\ Calm
    /\ Write(u, [task[u].copy EXCEPT !.blocked = ~@])
    /\ UNCHANGED <<sort, disk, live, srv, up, parked, behind, left, held>>

Accepted(u) ==
    /\ Waits(u, "accept", "back") /\ Calm
    /\ Write(u, [task[u].copy EXCEPT !.request = FALSE])
    /\ UNCHANGED <<sort, disk, live, srv, up, parked, behind, left, held>>

\* The creator mints the key.
Created(u) ==
    /\ Waits(u, "create", "back") /\ Calm
    /\ Write(u, [Keyed EXCEPT !.incog = Incog(task[u].c)])
    /\ UNCHANGED <<sort, disk, live, srv, up, parked, behind, left, held>>

\* Mutant: the answer to the join replaces whatever record is there.
JoinedAnew(u) ==
    /\ Waits(u, "join", "back") /\ Calm
    /\ Write(u, [Fresh EXCEPT !.incog = Incog(task[u].c)])
    /\ UNCHANGED <<sort, disk, live, srv, up, parked, behind, left, held>>

\* A key that came before the answer is kept.
Joined(u) ==
    LET t == task[u] IN
    /\ Waits(u, "join", "back") /\ Calm
    /\ IF Channel(t.v, t.c).hasKey
       THEN Finish(u) /\ UNCHANGED <<vault, puts>>
       ELSE Write(u, [Fresh EXCEPT !.incog = Incog(t.c)])
    /\ UNCHANGED <<sort, disk, live, srv, up, parked, behind, left, held>>

\* openDirectMessage: keyed here, nobody to ask, or ask the peer.
DmOpened(u) ==
    LET t == task[u]  existing == Channel(t.v, t.c) IN
    /\ Waits(u, "dm", "back") /\ Calm
    /\ Write(u, IF existing.hasKey THEN existing
                ELSE IF t.c \in held THEN Fresh ELSE Keyed)
    /\ UNCHANGED <<sort, disk, live, srv, up, parked, behind, left, held>>

\* removeChannel: the record goes at once, the transcript next, then the flush.
Left(u) ==
    LET t == task[u] IN
    /\ Waits(u, "leave", "back") /\ Calm
    /\ vault' = [vault EXCEPT ![t.v].data.chans[t.c] = NoRec]
    /\ Goto(u, "del")
    /\ UNCHANGED <<sort, disk, puts, live, srv, up, parked, behind,
                   left, held>>
\* Mutant: the vault is not flushed after the transcript went.
TranscriptDeletedOnly(u) ==
    /\ Waits(u, "leave", "del")
    /\ Finish(u)
    /\ UNCHANGED <<sort, disk, puts, vault, live, srv, up, parked, behind, left,
                   held>>

TranscriptDeleted(u) ==
    /\ Waits(u, "leave", "del")
    /\ Flush(u, task[u].v, vault[task[u].v].data, puts)
    /\ Goto(u, "save")
    /\ UNCHANGED <<sort, disk, live, srv, up, parked, behind, left, held>>

\* The write landed; a new DM then gives or asks for its key.
Saved(u) ==
    LET t == task[u] IN
    /\ u \in Ui /\ t.at = "save" /\ Landed(u)
    /\ IF t.kind = "dm" /\ t.c \notin held /\ up /\ live = t.v
       THEN /\ \E p \in Peers, k \in SignKeys : PinContact(u, t.v, p, k, Tail(puts))
            /\ task' = [task EXCEPT ![u] = [@ EXCEPT !.kind = "give", !.at = "pin",
                                                   !.flag = TRUE]]
            /\ UNCHANGED parked
       ELSE /\ puts' = Tail(puts)
            /\ Finish(u)
            /\ Request(IF t.kind = "dm" /\ t.flag /\ ~Channel(t.v, t.c).hasKey
                       THEN {t.c} ELSE {})
            /\ UNCHANGED vault
    /\ UNCHANGED <<sort, live, srv, up, left, held>>

-----------------------------------------------------------------------------
\* IndexedDB refuses a put: its coroutine throws and ends.
PutFails ==
    /\ left.troubles > 0 /\ puts # <<>>
    /\ left' = [left EXCEPT !.troubles = @ - 1]
    /\ puts' = Tail(puts)
    /\ behind' = TRUE
    /\ Finish(Head(puts).lane)
    /\ UNCHANGED <<sort, disk, vault, live, srv, up, parked, held>>

Relay ==
    \E c \in Ch :
        \/ Invited(c) \/ AlreadyKeyed(c)
        \/ \E s \in Frame, p \in Peers, k \in SignKeys :
              ReceiveOffer(s, c, p, k) \/ Give(s, c, p, k)
User ==
    \E u \in Ui, c \in Ch :
        \/ StartEdit(u, c) \/ StartBlock(u, c) \/ StartAccept(u, c)
        \/ StartLeave(u, c) \/ StartJoin(u, c) \/ OpenDm(u, c) \/ StartCreate(u, c)
Goes(s) ==
    \/ OfferPinned(s) \/ OfferSaved(s) \/ Given(s)
    \/ ListServed(s) \/ ListBack(s) \/ ListSaved(s)
    \/ Served(s) \/ SubmitEdit(s) \/ Blocked(s) \/ Accepted(s) \/ Created(s)
    \/ Joined(s) \/ DmOpened(s) \/ Left(s) \/ TranscriptDeleted(s) \/ Saved(s)

Next ==
    \/ Open \/ Lock \/ Locked \/ TabDies \/ Connect \/ Drop \/ PutFails
    \/ Relay \/ User \/ \E s \in Lane : Goes(s)

Spec == Init /\ [][Next]_vars

\* The browser runs what can run.  Answers to GET /channel/list and frames of the
\* relay get through between two reconnects, which back off, often enough.
Fairness ==
    /\ \A s \in Lane : WF_vars(Goes(s) /\ task[s].at # "form")
    /\ \A s \in Fetcher : SF_vars(ListServed(s)) /\ SF_vars(ListBack(s))
    /\ \A c \in Ch : SF_vars(\E s \in Frame, p \in Peers, k \in SignKeys :
                                  ReceiveOffer(s, c, p, k))
    /\ WF_vars(Locked)
FairSpec == Spec /\ Fairness

-----------------------------------------------------------------------------
(* Properties                                                              *)

\* When no put is under way and none failed last, the disk holds what the
\* session holds, sealed so that the password opens it: saves of coroutines
\* that overlap lose nothing to each other.
DiskFollowsMemory ==
    (/\ live # 0 /\ vault[live].alive /\ puts = <<>> /\ ~behind
     /\ \A s \in Lane : task[s].at # "del")
    => disk = [good |-> TRUE, data |-> vault[live].data]

\* A record loses its key only by leaving, or by a menu that writes back a copy
\* it took before the key came: no frame, reconcile or join ever undoes a key.
KeyLostOnlyByMenu ==
    [][\A c \in Ch :
        (/\ live # 0 /\ live' = live
         /\ Channel(live, c).hasKey /\ ~vault'[live].data.chans[c].hasKey)
        => \E u \in Lane : /\ task[u].c = c
                           /\ \/ task[u].kind = "leave"
                              \/ /\ task[u].kind \in {"edit", "block", "accept"}
                                 /\ ~task[u].copy.hasKey]_vars

\* The relay drops an offer only when its key is on the disk or in a put that
\* commits before any later one, unless a write failed.
AckedIsKept ==
    [][\A c \in Ch :
        (c \in parked /\ c \notin parked' /\ srv'[c].member)
        => \/ disk'.data.chans[c].hasKey \/ behind
           \/ \E i \in DOMAIN puts : puts[i].blob.data.chans[c].hasKey]_vars

\* On the disk a contact's signing key, once pinned, is never another one.
PinsStay ==
    [][\A p \in Peers :
        (disk.good /\ disk'.good /\ disk.data.pins[p] # NoKey)
        => disk'.data.pins[p] = disk.data.pins[p]]_vars

\* With reconnects that never cease, the records come to agree with the server
\* and every channel somebody else can read gets its key.
Agree(c) ==
    (srv[c].member /\ live # 0)
    => LET rec == Channel(live, c) IN
       /\ rec.here /\ rec.incog = Incog(c)
       /\ rec.blocked = srv[c].blocked /\ rec.request = srv[c].request
       /\ rec.hasKey \/ rec.request \/ c \notin held
SelfHeals == []<><<Connect>>_vars => \A c \in Ch : <>[]Agree(c)

\* session.tsx:527: logging out is not "destroy my keys".
VaultStillOpens == disk.good
=============================================================================
