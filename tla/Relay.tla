------------------------------- MODULE Relay -------------------------------
(***************************************************************************)
(* The delivery core of the CryptChat backend (ws/relay.js with the        *)
(* membership routes of routes/channels.js) and the client half of the     *)
(* acknowledgement protocol (useRelay.ts, useRelayInbound.ts), for ONE     *)
(* channel: a group, or a direct message between two users.                *)
(*                                                                         *)
(* Every database statement is one step, because the Node process may run  *)
(* any other callback while a statement is awaited; everything between two *)
(* awaits belongs to the step that resumed the handler.                    *)
(*                                                                         *)
(* A message stands for its ciphertext and for all that is signed inside;  *)
(* the identity of a queue row is the pair <<message, recipient>>.         *)
(***************************************************************************)
EXTENDS Naturals, Sequences, FiniteSets

CONSTANTS
    User, Socket,   \* accounts; browser tabs, each of them with its socket
    Owner,          \* Owner[s]: the account tab s is logged in to
    Msg, From,      \* messages, each sent at most once, by From[m]
    None,           \* no recipient
    Dm,             \* TRUE: channels.type = 'dm'
    MaxQueue,       \* config.limits.maxQueuePerRecipient
    FlushLimit,     \* the LIMIT of flushQueue
    MaxWire,        \* bound: frames a socket may hold unread
    InitActive, InitPending, InitKeyed, InitBlocks,
    InitOpen,       \* sockets already connected when a behaviour starts
    InitQueue,      \* rows queued by sends that are over when a behaviour starts
    DmPeers,        \* <<a, b>>: a shares a DM with b, so a may block b
    Offerers,       \* bound: accounts whose client answers with key offers
    Leavers,        \* bound: accounts that may leave the channel
    Closers,        \* bound: sockets that may close and reconnect
    Faults          \* bound: which faults happen, of FaultKinds

FaultKinds == {"db", "crash", "tab", "ttl"}

ASSUME ConstantsAssumption ==
    /\ IsFiniteSet(User) /\ IsFiniteSet(Msg) /\ IsFiniteSet(Socket)
    /\ Owner \in [Socket -> User]
    /\ From \in [Msg -> User]
    /\ None \notin User
    /\ Dm \in BOOLEAN
    /\ MaxQueue \in Nat /\ FlushLimit \in Nat /\ MaxWire \in Nat
    /\ InitActive \subseteq User /\ InitPending \subseteq User \ InitActive
    /\ InitKeyed \subseteq InitActive
    /\ InitBlocks \subseteq User \X User /\ DmPeers \subseteq User \X User
    /\ InitQueue \subseteq Msg \X User
    /\ InitOpen \subseteq Socket /\ Closers \subseteq Socket
    /\ Offerers \subseteq User /\ Leavers \subseteq User /\ Faults \subseteq FaultKinds

VARIABLES
    \* PostgreSQL
    exists,     \* the channels row is there
    status,     \* channel_members.status, "none" for no row
    blocks,     \* dm_blocks: <<blocker, blocked>>
    queue,      \* message_queue rows
    offers,     \* key_offers rows: <<sender, recipient>>
    stamp,      \* message_queue.created_at of a message, 0 before it has one
    \* the Node process
    sock,       \* "flushing": open, but ws.on("message"/"close") not yet attached
    registry,   \* the sockets in the connections map
    flush,      \* the running flush of a socket, from connecting or accepting
    walk,       \* sockets resumeDelivery has yet to visit
    send,       \* handleSend of a message
    offering,   \* handleKeyOffer of <<sender, recipient>>
    leaving,    \* DELETE /:channelId/leave
    \* the network and the tabs
    wire,       \* frames sent to a socket and not yet read, in order
    recv,       \* frames whose onmessage handler is awaiting
    acks,       \* ack and key-ack frames on their way to the relay
    stored,     \* messages in an account's local vault
    hasKey,     \* channel.hasKey in that vault
    \* history, read by no action
    everActive, \* accounts that have at some time been active members
    posted,     \* rows that were ever inserted
    dropped,    \* rows given up by design: backlog full, TTL, leaving
    steady,     \* members, for as long as a message's handler has been running
    watch       \* whether a recipient blocked the sender during the handler

dbVars     == <<exists, status, blocks, queue, offers, stamp>>
taskVars   == <<flush, walk, send, offering, leaving>>
connVars   == <<sock, registry>>
clientVars == <<recv, acks, stored, hasKey>>
ghostVars  == <<everActive, posted, dropped, steady, watch>>
vars == <<dbVars, taskVars, connVars, wire, clientVars, ghostVars>>

Status == {"none", "pending", "active"}
Pair   == User \X User
Row    == Msg \X User
Frame  == [type : {"message"}, of : Msg] \cup [type : {"key-offer"}, of : User]
Task   == {"connect", "resume"} \X Socket
Stage  == {"idle", "queue", "offers"}

MessageFrame(m) == [type |-> "message", of |-> m]
OfferFrame(o)   == [type |-> "key-offer", of |-> o]

Begin(stage) == [stage |-> stage, got |-> FALSE, batch |-> << >>]
Idle == Begin("idle")
Unsent == [pc |-> "idle", left |-> [u \in User |-> "none"], cur |-> None]
NoOffer == [pc |-> "idle", active |-> FALSE]

IsMember(u)   == status[u] # "none"
\* Mutant: a socket counts as connected only once its handlers are attached.
SocketsOf_AttachedOnly(u) == {s \in registry : Owner[s] = u /\ sock[s] = "open"}
SocketsOf(u)  == {s \in registry : Owner[s] = u}
CanTalk(u)    == \E s \in Socket : Owner[s] = u /\ sock[s] = "open"

---------------------------------------------------------------------------
SentBefore(m) == \E u \in User : <<m, u>> \in InitQueue

Init ==
    /\ exists = TRUE
    /\ status = [u \in User |-> IF u \in InitActive THEN "active"
                                ELSE IF u \in InitPending THEN "pending" ELSE "none"]
    /\ blocks = InitBlocks
    /\ queue = InitQueue /\ offers = {}
    /\ stamp = [m \in Msg |-> IF SentBefore(m) THEN 1 ELSE 0]
    /\ sock = [s \in Socket |-> IF s \in InitOpen THEN "open" ELSE "closed"]
    /\ registry = InitOpen
    /\ flush = [t \in Task |-> Idle]
    /\ walk = [u \in User |-> {}]
    /\ send = [m \in Msg |-> IF SentBefore(m) THEN [Unsent EXCEPT !.pc = "done"] ELSE Unsent]
    /\ offering = [p \in Pair |-> NoOffer]
    /\ leaving = [u \in User |-> "idle"]
    /\ wire = [s \in Socket |-> << >>]
    /\ recv = [s \in Socket |-> {}]
    /\ acks = [s \in Socket |-> {}]
    /\ stored = [u \in User |-> {}]
    /\ hasKey = [u \in User |-> u \in InitKeyed]
    /\ everActive = InitActive
    /\ posted = InitQueue /\ dropped = {}
    /\ steady = [m \in Msg |-> {}]
    /\ watch = [m \in Msg |-> [u \in User |-> "clear"]]

---------------------------------------------------------------------------
(* Connecting: add to the registry, flush the queue, flush the offers, and *)
(* only then attach the message and close handlers.                        *)

\* resumeDelivery is somewhere in its loop over the sockets of u.
Walking(u) == walk[u] # {} \/ \E s \in Socket : Owner[s] = u /\ flush[<<"resume", s>>] # Idle

\* A tab opens a socket.  Its earlier one may still be in the registry, where it is
\* never open again.  A running loop also visits a socket that joins the Set it
\* iterates over.
Connect(s) ==
    /\ s \in Closers
    /\ sock[s] = "closed"
    /\ sock' = [sock EXCEPT ![s] = "flushing"]
    /\ registry' = registry \cup {s}
    /\ flush' = [flush EXCEPT ![<<"connect", s>>] = Begin("queue")]
    /\ walk' = IF Walking(Owner[s]) THEN [walk EXCEPT ![Owner[s]] = @ \cup {s}] ELSE walk
    /\ UNCHANGED <<dbVars, send, offering, leaving, wire, clientVars, ghostVars>>

\* The ways to list n members of S, none of them twice.
Listings(n, S) == {q \in [1..n -> S] : \A i, j \in 1..n : q[i] = q[j] => i = j}

\* The oldest rows up to the LIMIT, by created_at; equal stamps in any order.
Oldest(ms) ==
    LET n == IF Cardinality(ms) <= FlushLimit THEN Cardinality(ms) ELSE FlushLimit
    IN  {q \in Listings(n, ms) :
            \A i \in 1..n : \A m \in ms : stamp[m] < stamp[q[i]] => \E j \in 1..i : q[j] = m}

\* Mutant: the JOIN on channel_members without cm.status = 'active'.
Deliverable_AnyMember(u) == IsMember(u)
\* The gate of both flushes: the JOIN on channel_members with cm.status = 'active'.
Deliverable(u) == status[u] = "active"

\* The SELECT of flushQueue.
QueueBatches(u) ==
    LET ms == {m \in Msg : <<m, u>> \in queue /\ Deliverable(u)}
    IN  {[i \in DOMAIN q |-> MessageFrame(q[i])] : q \in Oldest(ms)}

\* The SELECT of flushKeyOffers.
OfferBatches(u) ==
    LET os == {o \in User : <<o, u>> \in offers /\ Deliverable(u)}
    IN  {[i \in DOMAIN q |-> OfferFrame(q[i])] : q \in Listings(Cardinality(os), os)}

FlushQuery(t) ==
    /\ flush[t].stage # "idle" /\ ~flush[t].got
    /\ \E b \in IF flush[t].stage = "queue" THEN QueueBatches(Owner[t[2]])
                ELSE OfferBatches(Owner[t[2]]) :
          flush' = [flush EXCEPT ![t] = [@ EXCEPT !.got = TRUE, !.batch = b]]
    /\ UNCHANGED <<dbVars, walk, send, offering, leaving, connVars, wire, clientVars,
                   ghostVars>>

\* Mutant: a connecting socket is sent its queue and no parked offers.
NextStage_NoOffers(t) ==
    IF t[1] = "resume" /\ flush[t].stage = "offers" THEN Begin("queue") ELSE Idle
\* A connecting socket is flushed queue first, a resumed one offers first.
NextStage(t) ==
    IF t[1] = "connect" /\ flush[t].stage = "queue" THEN Begin("offers")
    ELSE IF t[1] = "resume" /\ flush[t].stage = "offers" THEN Begin("queue") ELSE Idle

\* Once the connect flush is over, whichever way, the handlers are attached.
Attach(t, next) ==
    sock' = IF t[1] = "connect" /\ next = Idle THEN [sock EXCEPT ![t[2]] = "open"] ELSE sock

FlushSend(t) ==
    /\ flush[t].got
    /\ Len(wire[t[2]]) + Len(flush[t].batch) <= MaxWire
    /\ wire' = [wire EXCEPT ![t[2]] = @ \o flush[t].batch]
    /\ flush' = [flush EXCEPT ![t] = NextStage(t)]
    /\ Attach(t, NextStage(t))
    /\ UNCHANGED <<dbVars, walk, send, offering, leaving, registry, clientVars, ghostVars>>

\* A query rejects: the error is logged and the rest of this flush is skipped.
FlushFail(t) ==
    /\ "db" \in Faults
    /\ flush[t].stage # "idle" /\ ~flush[t].got
    /\ flush' = [flush EXCEPT ![t] = Idle]
    /\ Attach(t, Idle)
    /\ UNCHANGED <<dbVars, walk, send, offering, leaving, registry, wire, clientVars,
                   ghostVars>>

\* resumeDelivery's loop: one socket after the other.
ResumeVisit(s) ==
    /\ s \in walk[Owner[s]]
    /\ \A x \in Socket : Owner[x] = Owner[s] => flush[<<"resume", x>>] = Idle
    /\ walk' = [walk EXCEPT ![Owner[s]] = @ \ {s}]
    /\ flush' = [flush EXCEPT ![<<"resume", s>>] = Begin("offers")]
    /\ UNCHANGED <<dbVars, send, offering, leaving, connVars, wire, clientVars, ghostVars>>

---------------------------------------------------------------------------
(* Losing a socket.  Frames on the wire and acks on their way are lost.    *)

\* What a client's handlers that are still awaiting commit locally.
Committed(u, fs) ==
    /\ stored' = [stored EXCEPT ![u] = @ \cup {m \in Msg : MessageFrame(m) \in fs}]
    /\ hasKey' = [hasKey EXCEPT ![u] = @ \/ \E o \in User : OfferFrame(o) \in fs]

\* The connection drops.  The close handler removes it from the registry only
\* if it has been attached.  The tab survives a network loss and its running
\* handlers finish (their acks go nowhere); closing the tab kills them.
Close(s, tabDies) ==
    /\ s \in Closers /\ sock[s] # "closed"
    /\ tabDies => "tab" \in Faults
    /\ sock' = [sock EXCEPT ![s] = "closed"]
    /\ registry' = IF sock[s] = "open" THEN registry \ {s} ELSE registry
    /\ walk' = [walk EXCEPT ![Owner[s]] = @ \ {s}]
    /\ flush' = [flush EXCEPT ![<<"connect", s>>] = Idle, ![<<"resume", s>>] = Idle]
    /\ wire' = [wire EXCEPT ![s] = << >>]
    /\ acks' = [acks EXCEPT ![s] = {}]
    /\ recv' = [recv EXCEPT ![s] = {}]
    /\ Committed(Owner[s], IF tabDies THEN {} ELSE recv[s])
    /\ UNCHANGED <<dbVars, send, offering, leaving, ghostVars>>

\* The Node process dies: every handler stops between two statements and the
\* registry is gone.  The tabs live on.
ServerCrash ==
    /\ "crash" \in Faults
    /\ sock' = [s \in Socket |-> "closed"]
    /\ registry' = {}
    /\ flush' = [t \in Task |-> Idle]
    /\ walk' = [u \in User |-> {}]
    /\ send' = [m \in Msg |-> IF send[m].pc \in {"idle", "done", "failed"} THEN send[m]
                              ELSE [Unsent EXCEPT !.pc = "failed"]]
    /\ offering' = [p \in Pair |-> NoOffer]
    /\ leaving' = [u \in User |-> "idle"]
    /\ wire' = [s \in Socket |-> << >>]
    /\ acks' = [s \in Socket |-> {}]
    /\ recv' = [s \in Socket |-> {}]
    /\ stored' = [u \in User |-> stored[u] \cup
                    {m \in Msg : \E s \in Socket : Owner[s] = u /\ MessageFrame(m) \in recv[s]}]
    /\ hasKey' = [u \in User |-> hasKey[u] \/
                    \E s \in Socket, o \in User : Owner[s] = u /\ OfferFrame(o) \in recv[s]]
    /\ UNCHANGED <<dbVars, ghostVars>>

---------------------------------------------------------------------------
(* handleSend                                                              *)

\* One read of the database clock: not before any earlier one, perhaps equal.
NextStamps == {n \in 1..Cardinality(Msg) : /\ \A m \in Msg : stamp[m] <= n
                                           /\ n = 1 \/ \E m \in Msg : stamp[m] \in {n - 1, n}}

\* The membership check and the read of the clock.
StartSend(m) ==
    /\ send[m].pc = "idle"
    /\ CanTalk(From[m]) /\ hasKey[From[m]]
    /\ IsMember(From[m])
    /\ \E n \in NextStamps : stamp' = [stamp EXCEPT ![m] = n]
    /\ send' = [send EXCEPT ![m] = [@ EXCEPT !.pc = "stamped"]]
    /\ steady' = [steady EXCEPT ![m] = {u \in User \ {From[m]} : IsMember(u)}]
    /\ watch' = [watch EXCEPT ![m] =
                    [u \in User |-> IF <<u, From[m]>> \in blocks THEN "barred" ELSE "clear"]]
    /\ UNCHANGED <<exists, status, blocks, queue, offers, flush, walk, offering, leaving,
                   connVars, wire, clientVars, everActive, posted, dropped>>

\* After a recipient is dealt with: the next one, or the `sent` frame.
Advance(h) == [h EXCEPT !.pc = IF \A u \in User : h.left[u] = "none" THEN "done" ELSE "next",
                        !.cur = None]

\* Mutants: pending invitees are left out; nobody's block is looked at.
Recipients_ActiveOnly(m) ==
    {u \in User \ {From[m]} : status[u] = "active" /\ <<u, From[m]>> \notin blocks}
Recipients_NoBlocks(m) == {u \in User \ {From[m]} : IsMember(u)}
\* The members to fan out to, less those who have blocked the sender.
Recipients(m) == {u \in User \ {From[m]} : IsMember(u) /\ <<u, From[m]>> \notin blocks}

Snapshot(m) ==
    /\ send[m].pc = "stamped"
    /\ send' = [send EXCEPT ![m] = Advance([@ EXCEPT !.left =
                    [u \in User |-> IF u \in Recipients(m) THEN status[u] ELSE "none"]])]
    /\ UNCHANGED <<dbVars, flush, walk, offering, leaving, connVars, wire, clientVars,
                   ghostVars>>

\* The count of the recipient's backlog; a full queue skips the recipient.
CountBacklog(m, r) ==
    /\ send[m].pc = "next" /\ send[m].left[r] # "none"
    /\ IF Cardinality({x \in Msg : <<x, r>> \in queue}) >= MaxQueue
       THEN /\ send' = [send EXCEPT ![m] = Advance([@ EXCEPT !.left[r] = "none"])]
            /\ dropped' = dropped \cup {<<m, r>>}
       ELSE /\ send' = [send EXCEPT ![m] = [@ EXCEPT !.pc = "insert", !.cur = r]]
            /\ UNCHANGED dropped
    /\ UNCHANGED <<dbVars, flush, walk, offering, leaving, connVars, wire, clientVars,
                   everActive, posted, steady, watch>>

\* Mutant: no foreign key.
ChannelReferenced_Unchecked == TRUE
\* The foreign key of message_queue and key_offers to channels.
ChannelReferenced == exists

\* The INSERT of the row, which fails when the channel is gone.
InsertRow(m) ==
    /\ send[m].pc = "insert"
    /\ IF ChannelReferenced
       THEN /\ queue' = queue \cup {<<m, send[m].cur>>}
            /\ posted' = posted \cup {<<m, send[m].cur>>}
            /\ send' = [send EXCEPT ![m] = [@ EXCEPT !.pc = "push"]]
       ELSE /\ send' = [send EXCEPT ![m] = [Unsent EXCEPT !.pc = "failed"]]
            /\ UNCHANGED <<queue, posted>>
    /\ UNCHANGED <<exists, status, blocks, offers, stamp, flush, walk, offering, leaving,
                   connVars, wire, clientVars, everActive, dropped, steady, watch>>

\* sendTo: to every open socket of the user.
SendTo(u, f) ==
    LET live == {s \in SocketsOf(u) : sock[s] # "closed"}
    IN  /\ \A s \in live : Len(wire[s]) < MaxWire
        /\ wire' = [s \in Socket |-> IF s \in live THEN Append(wire[s], f) ELSE wire[s]]

\* Live delivery, by the status the snapshot saw.  A pending invitee gets a
\* dm-request frame instead, which carries no content and is not modelled.
Push(m) ==
    /\ send[m].pc = "push"
    /\ LET r == send[m].cur
       IN  /\ IF send[m].left[r] = "pending" THEN UNCHANGED wire
              ELSE SendTo(r, MessageFrame(m))
           /\ send' = [send EXCEPT ![m] = Advance([@ EXCEPT !.left[r] = "none"])]
    /\ UNCHANGED <<dbVars, flush, walk, offering, leaving, connVars, clientVars, ghostVars>>

\* A statement rejects: the handler stops where it is, and sends no `sent`.
SendFail(m) ==
    /\ "db" \in Faults
    /\ send[m].pc \in {"stamped", "next", "insert"}
    /\ send' = [send EXCEPT ![m] = [Unsent EXCEPT !.pc = "failed"]]
    /\ UNCHANGED <<dbVars, flush, walk, offering, leaving, connVars, wire, clientVars,
                   ghostVars>>

---------------------------------------------------------------------------
(* handleKeyOffer.  A client that holds the key runs offerKeyTo when a     *)
(* member joins, asks for the key, or is invited to a DM; in each case the *)
(* recipient's client has no key.                                          *)

StartOffer(o, r) ==
    /\ o \in Offerers /\ o # r /\ offering[<<o, r>>] = NoOffer
    /\ CanTalk(o) /\ hasKey[o] /\ ~hasKey[r]
    /\ IsMember(o) /\ IsMember(r)
    /\ \A s \in SocketsOf(r) : \A i \in DOMAIN wire[s] : wire[s][i] # OfferFrame(o)
    /\ offering' = [offering EXCEPT ![<<o, r>>] =
                        [pc |-> "upsert", active |-> status[r] = "active"]]
    /\ UNCHANGED <<dbVars, flush, walk, send, leaving, connVars, wire, clientVars, ghostVars>>

UpsertOffer(p) ==
    /\ offering[p].pc = "upsert"
    /\ IF ChannelReferenced
       THEN /\ offers' = offers \cup {p}
            /\ offering' = [offering EXCEPT ![p] = [@ EXCEPT !.pc = "push"]]
       ELSE /\ offering' = [offering EXCEPT ![p] = NoOffer]
            /\ UNCHANGED offers
    /\ UNCHANGED <<exists, status, blocks, queue, stamp, flush, walk, send, leaving, connVars,
                   wire, clientVars, ghostVars>>

PushOffer(p) ==
    /\ offering[p].pc = "push"
    /\ IF offering[p].active THEN SendTo(p[2], OfferFrame(p[1])) ELSE UNCHANGED wire
    /\ offering' = [offering EXCEPT ![p] = NoOffer]
    /\ UNCHANGED <<dbVars, flush, walk, send, leaving, connVars, clientVars, ghostVars>>

---------------------------------------------------------------------------
(* The client: onmessage runs handlers concurrently, one per frame.        *)

\* Mutant: bodies are acknowledged on receipt.
AckAtOnce_Eager(f, keyed) == keyed
\* What needs no local commit: an offer of a key the client has.
AckAtOnce(f, keyed) == f.type = "key-offer" /\ keyed

\* The synchronous part of a handler.  A body for a channel without a key is
\* put aside unacknowledged; an offer for a channel with a key is acknowledged.
Arrive(s) ==
    /\ wire[s] # << >>
    /\ LET f == Head(wire[s])
           keyed == hasKey[Owner[s]]
       IN  /\ recv' = IF (f.type = "message") = keyed THEN [recv EXCEPT ![s] = @ \cup {f}]
                      ELSE recv
           /\ acks' = IF AckAtOnce(f, keyed) THEN [acks EXCEPT ![s] = @ \cup {f}]
                      ELSE acks
    /\ wire' = [wire EXCEPT ![s] = Tail(@)]
    /\ UNCHANGED <<dbVars, taskVars, connVars, stored, hasKey, ghostVars>>

\* The local commit is over: the frame is acknowledged on its own socket.
Handled(s, f) ==
    /\ f \in recv[s]
    /\ recv' = [recv EXCEPT ![s] = @ \ {f}]
    /\ acks' = [acks EXCEPT ![s] = @ \cup {f}]
    /\ Committed(Owner[s], {f})
    /\ UNCHANGED <<dbVars, taskVars, connVars, wire, ghostVars>>

\* handleAck and handleKeyAck: the row must be addressed to the socket's user.
HandleAck(s, f) ==
    /\ f \in acks[s] /\ sock[s] = "open"
    /\ acks' = [acks EXCEPT ![s] = @ \ {f}]
    /\ queue' = queue \ {row \in Row : MessageFrame(row[1]) = f /\ row[2] = Owner[s]}
    /\ offers' = offers \ {p \in Pair : OfferFrame(p[1]) = f /\ p[2] = Owner[s]}
    /\ UNCHANGED <<exists, status, blocks, stamp, taskVars, connVars, wire, recv, stored,
                   hasKey, ghostVars>>

\* A frame that arrives while the socket is still being flushed has no listener.
LoseAck(s, f) ==
    /\ f \in acks[s] /\ sock[s] = "flushing"
    /\ acks' = [acks EXCEPT ![s] = @ \ {f}]
    /\ UNCHANGED <<dbVars, taskVars, connVars, wire, recv, stored, hasKey, ghostVars>>

---------------------------------------------------------------------------
(* Membership: routes/channels.js                                          *)

Join(u) ==
    /\ ~Dm /\ exists /\ status[u] = "none" /\ leaving[u] = "idle"
    /\ status' = [status EXCEPT ![u] = "active"]
    /\ everActive' = everActive \cup {u}
    /\ UNCHANGED <<exists, blocks, queue, offers, stamp, taskVars, connVars, wire, clientVars,
                   posted, dropped, steady, watch>>

\* POST /dm on a pair whose channel exists, one transaction; the opener's client
\* mints a key when the peer is not active.  Once the channel is deleted the pair
\* gets another channel, which is another instance of this module.
DmOpen(u, p) ==
    /\ Dm /\ exists /\ u # p /\ <<p, u>> \notin blocks
    /\ status[u] = "none" \/ status[p] = "none"
    /\ leaving[u] = "idle"
    /\ status' = [status EXCEPT ![u] = IF @ = "none" THEN "active" ELSE @,
                                ![p] = IF @ = "none" THEN "pending" ELSE @]
    /\ everActive' = IF status[u] = "none" THEN everActive \cup {u} ELSE everActive
    /\ hasKey' = [hasKey EXCEPT ![u] = @ \/ status[p] # "active"]
    /\ UNCHANGED <<exists, blocks, queue, offers, stamp, taskVars, connVars, wire, recv, acks,
                   stored, posted, dropped, steady, watch>>

\* POST /accept: the row becomes active and resumeDelivery starts its walk.
Accept(u) ==
    /\ Dm /\ exists /\ status[u] = "pending" /\ leaving[u] = "idle"
    /\ ~Walking(u)
    /\ status' = [status EXCEPT ![u] = "active"]
    /\ everActive' = everActive \cup {u}
    /\ walk' = [walk EXCEPT ![u] = {s \in SocketsOf(u) : sock[s] # "closed"}]
    /\ UNCHANGED <<exists, blocks, queue, offers, stamp, flush, send, offering, leaving,
                   connVars, wire, clientVars, posted, dropped, steady, watch>>

\* DELETE /leave: four statements, each awaited.
Leave(u) ==
    /\ u \in Leavers /\ leaving[u] = "idle" /\ IsMember(u)
    /\ status' = [status EXCEPT ![u] = "none"]
    /\ leaving' = [leaving EXCEPT ![u] = "queue"]
    /\ steady' = [m \in Msg |-> steady[m] \ {u}]
    /\ UNCHANGED <<exists, blocks, queue, offers, stamp, flush, walk, send, offering, connVars,
                   wire, clientVars, everActive, posted, dropped, watch>>

\* Mutant: DELETE FROM message_queue WHERE channel_id = $1.
Addressed_ToAnyone(u) == queue
\* The rows of the channel addressed to u.
Addressed(u) == {row \in queue : row[2] = u}

LeaveQueue(u) ==
    /\ leaving[u] = "queue"
    /\ queue' = queue \ Addressed(u)
    /\ dropped' = dropped \cup {row \in queue : row[2] = u}
    /\ leaving' = [leaving EXCEPT ![u] = "offers"]
    /\ UNCHANGED <<exists, status, blocks, offers, stamp, flush, walk, send, offering,
                   connVars, wire, clientVars, everActive, posted, steady, watch>>

LeaveOffers(u) ==
    /\ leaving[u] = "offers"
    /\ offers' = {p \in offers : p[2] # u}
    /\ leaving' = [leaving EXCEPT ![u] = "channel"]
    /\ UNCHANGED <<exists, status, blocks, queue, stamp, flush, walk, send, offering, connVars,
                   wire, clientVars, ghostVars>>

\* The last statement deletes a DM nobody is in, and with it (ON DELETE CASCADE)
\* its rows.  The client then removes the channel from its vault.
LeaveChannel(u) ==
    /\ leaving[u] = "channel"
    /\ IF Dm /\ \A v \in User : status[v] = "none"
       THEN /\ exists' = FALSE
            /\ queue' = {} /\ offers' = {}
            /\ dropped' = dropped \cup queue \cup {<<m, u>> : m \in stored[u]}
       ELSE /\ dropped' = dropped \cup {<<m, u>> : m \in stored[u]}
            /\ UNCHANGED <<exists, queue, offers>>
    /\ leaving' = [leaving EXCEPT ![u] = "idle"]
    /\ stored' = [stored EXCEPT ![u] = {}]
    /\ hasKey' = [hasKey EXCEPT ![u] = FALSE]
    /\ UNCHANGED <<status, blocks, stamp, flush, walk, send, offering, connVars, wire, recv,
                   acks, everActive, posted, steady, watch>>

\* A handler that is running sees the recipient's mind change.
Waver(b, c) == watch' = [m \in Msg |->
    IF From[m] = c /\ send[m].pc \notin {"idle", "done", "failed"}
    THEN [watch[m] EXCEPT ![b] = "wavered"] ELSE watch[m]]

Block(b, c) ==
    /\ <<b, c>> \in DmPeers \ blocks
    /\ Dm => exists /\ IsMember(b) /\ IsMember(c)
    /\ blocks' = blocks \cup {<<b, c>>}
    /\ Waver(b, c)
    /\ UNCHANGED <<exists, status, queue, offers, stamp, taskVars, connVars, wire, clientVars,
                   everActive, posted, dropped, steady>>

Unblock(b, c) ==
    /\ <<b, c>> \in DmPeers \cap blocks
    /\ Dm => exists /\ IsMember(b) /\ IsMember(c)
    /\ blocks' = blocks \ {<<b, c>>}
    /\ Waver(b, c)
    /\ UNCHANGED <<exists, status, queue, offers, stamp, taskVars, connVars, wire, clientVars,
                   everActive, posted, dropped, steady>>

---------------------------------------------------------------------------
(* startQueueReaper.  No handler runs for the three days of the TTL, so a  *)
(* row that expires belongs to a handler that is over.                     *)

ReapQueue(n) ==
    LET old == {row \in queue : stamp[row[1]] <= n}
    IN  /\ "ttl" \in Faults
        /\ old # {} /\ \A row \in old : send[row[1]].pc \in {"done", "failed"}
        /\ queue' = queue \ old
        /\ dropped' = dropped \cup old
        /\ UNCHANGED <<exists, status, blocks, offers, stamp, taskVars, connVars, wire,
                       clientVars, everActive, posted, steady, watch>>

ReapOffer(p) ==
    /\ "ttl" \in Faults
    /\ p \in offers /\ offering[p] = NoOffer
    /\ offers' = offers \ {p}
    /\ UNCHANGED <<exists, status, blocks, queue, stamp, taskVars, connVars, wire, clientVars,
                   ghostVars>>

---------------------------------------------------------------------------
Next ==
    \/ \E s \in Socket : Connect(s)
    \/ \E t \in Task : FlushQuery(t)
    \/ \E t \in Task : FlushSend(t)
    \/ \E t \in Task : FlushFail(t)
    \/ \E s \in Socket : ResumeVisit(s)
    \/ \E s \in Socket : Close(s, FALSE)
    \/ \E s \in Socket : Close(s, TRUE)
    \/ ServerCrash
    \/ \E m \in Msg : StartSend(m)
    \/ \E m \in Msg : Snapshot(m)
    \/ \E m \in Msg, r \in User : CountBacklog(m, r)
    \/ \E m \in Msg : InsertRow(m)
    \/ \E m \in Msg : Push(m)
    \/ \E m \in Msg : SendFail(m)
    \/ \E o, r \in User : StartOffer(o, r)
    \/ \E p \in Pair : UpsertOffer(p)
    \/ \E p \in Pair : PushOffer(p)
    \/ \E s \in Socket : Arrive(s)
    \/ \E s \in Socket, f \in Frame : Handled(s, f)
    \/ \E s \in Socket, f \in Frame : HandleAck(s, f)
    \/ \E s \in Socket, f \in Frame : LoseAck(s, f)
    \/ \E u \in User : Join(u)
    \/ \E u, p \in User : DmOpen(u, p)
    \/ \E u \in User : Accept(u)
    \/ \E u \in User : Leave(u)
    \/ \E u \in User : LeaveQueue(u)
    \/ \E u \in User : LeaveOffers(u)
    \/ \E u \in User : LeaveChannel(u)
    \/ \E b, c \in User : Block(b, c)
    \/ \E b, c \in User : Unblock(b, c)
    \/ \E n \in 1..Cardinality(Msg) : ReapQueue(n)
    \/ \E p \in Pair : ReapOffer(p)

Spec == Init /\ [][Next]_vars

\* What always happens sooner or later: the database answers, the event loop
\* runs the callback, the network delivers to an open socket, the tab handles
\* the frame.  Nothing forces a user or the network to do anything else.
Fairness ==
    /\ \A t \in Task : WF_vars(FlushQuery(t)) /\ WF_vars(FlushSend(t))
    /\ \A s \in Socket : WF_vars(ResumeVisit(s)) /\ WF_vars(Arrive(s))
    /\ \A m \in Msg : /\ WF_vars(Snapshot(m) \/ InsertRow(m) \/ Push(m))
                      /\ \A r \in User : WF_vars(CountBacklog(m, r))
    /\ \A p \in Pair : WF_vars(UpsertOffer(p) \/ PushOffer(p))
    /\ \A s \in Socket, f \in Frame : WF_vars(Handled(s, f)) /\ WF_vars(HandleAck(s, f))
    /\ \A u \in User : WF_vars(LeaveQueue(u) \/ LeaveOffers(u) \/ LeaveChannel(u))

FairSpec == Spec /\ Fairness

---------------------------------------------------------------------------
(* Properties                                                              *)

FlushType == [stage : Stage, got : BOOLEAN, batch : Seq(Frame)]
SendType == {h \in [pc : {"idle", "stamped", "next", "insert", "push", "done", "failed"},
                    left : [User -> Status], cur : User \cup {None}] :
                h.pc \in {"insert", "push"} => h.cur \in User}
OfferingType == [pc : {"idle", "upsert", "push"}, active : BOOLEAN]
WatchType == [User -> {"clear", "barred", "wavered"}]

\* The type invariant: every variable of the database, the relay and the clients
\* keeps its type.
TypeOK ==
    /\ exists \in BOOLEAN
    /\ status \in [User -> Status]
    /\ blocks \subseteq Pair
    /\ queue \subseteq Row
    /\ offers \subseteq Pair
    /\ stamp \in [Msg -> Nat]
    /\ sock \in [Socket -> {"closed", "flushing", "open"}]
    /\ registry \subseteq Socket
    /\ flush \in [Task -> FlushType]
    /\ walk \in [User -> SUBSET Socket]
    /\ send \in [Msg -> SendType]
    /\ offering \in [Pair -> OfferingType]
    /\ leaving \in [User -> {"idle", "queue", "offers", "channel"}]
    /\ wire \in [Socket -> Seq(Frame)]
    /\ recv \in [Socket -> SUBSET Frame]
    /\ acks \in [Socket -> SUBSET Frame]
    /\ stored \in [User -> SUBSET Msg]
    /\ hasKey \in [User -> BOOLEAN]
    /\ everActive \subseteq User
    /\ posted \subseteq Row
    /\ dropped \subseteq Row
    /\ steady \in [Msg -> SUBSET User]
    /\ watch \in [Msg -> WatchType]

\* A row once queued stays queued until its recipient has the message in the
\* vault, through lost sockets, dead tabs, a crash of the server and failing
\* statements; the only other ways out are those the code intends (the TTL,
\* leaving, a deleted DM).  This is what "ack only after the plaintext is
\* committed locally" (useRelay.ts) and the recipient predicate of handleAck
\* are for.
NoLoss == \A row \in posted : row \in queue \cup dropped \/ row[1] \in stored[row[2]]

\* `sent` promises the sender that every member there throughout, who at no
\* time blocked the sender, has the message waiting, has it, or had a full queue.
SentReachesMembers ==
    \A m \in Msg : send[m].pc = "done" =>
        \A r \in steady[m] : watch[m][r] = "clear" =>
            <<m, r>> \in queue \cup dropped \/ m \in stored[r]

\* A recipient who had the sender blocked while the message was handled gets
\* neither a row nor a frame ("no row is queued", handleSend).
BlockedGetsNothing ==
    \A m \in Msg, r \in User : send[m].pc # "idle" /\ watch[m][r] = "barred" =>
        /\ <<m, r>> \notin posted /\ m \notin stored[r]
        /\ \A s \in Socket : Owner[s] = r =>
              \A i \in DOMAIN wire[s] : wire[s][i] # MessageFrame(m)

\* "Accept it before you can read it": no body and no wrapped key reaches a
\* user who has never been an active member, over any path: the live push, the
\* offer, the connect flush or the resumed one.
WithheldUntilAccepted ==
    \A s \in Socket : Owner[s] \notin everActive =>
        /\ wire[s] = << >> /\ recv[s] = {} /\ stored[Owner[s]] = {}

\* A DM is deleted only when nobody is in it, and no row outlives it, whatever
\* handler was running at the time.
DeletedMeansEmpty ==
    ~exists => queue = {} /\ offers = {} /\ \A u \in User : status[u] = "none"

\* Nothing is happening to u and no handler is running.
Quiet(u) ==
    /\ \A m \in Msg : send[m].pc \in {"idle", "done", "failed"}
    /\ \A p \in Pair : offering[p] = NoOffer
    /\ \A v \in User : leaving[v] = "idle"
    /\ ~Walking(u)
    /\ \A s \in Socket : Owner[s] = u =>
          sock[s] # "flushing" /\ wire[s] = << >> /\ recv[s] = {} /\ acks[s] = {}

\* An active member who held the key from the start and is connected when
\* everything has settled is not left with a row waiting that it does not have:
\* live push and flush leave no gap between them, in whatever order they run.
NoneStranded ==
    \A u \in InitKeyed : Quiet(u) /\ CanTalk(u) /\ status[u] = "active" /\ hasKey[u] =>
        \A m \in Msg : <<m, u>> \in queue => m \in stored[u]

\* The same of wrapped keys: no key stays parked for a connected, active member
\* who is waiting for one.  accept says it releases what was withheld at once
\* "rather than waiting for a reconnect".
NoKeyStranded ==
    \A u \in User : Quiet(u) /\ CanTalk(u) /\ status[u] = "active" /\ ~hasKey[u] =>
        \A o \in User : <<o, u>> \notin offers

\* A user with one tab that stays connected gets every message queued for it,
\* whatever the user's other tabs do.
EventuallyDelivered ==
    \A s \in Socket : (<>[](sock[s] = "open")) =>
        \A m \in Msg : [](<<m, Owner[s]>> \in queue =>
                            <>(m \in stored[Owner[s]] \/ <<m, Owner[s]>> \in dropped))
=============================================================================
