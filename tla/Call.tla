-------------------------------- MODULE Call --------------------------------
(***************************************************************************)
(* One-to-one calls inside a direct message: the CallProvider of every tab *)
(* (callContext.tsx), the router of incoming signals (call/signals.ts) and *)
(* the peer connections (call/peer.ts).  A signal is sealed, sent and      *)
(* opened asynchronously and is never queued, so the wire delivers signals *)
(* in any order and need not deliver one at all.                           *)
(*                                                                         *)
(* A tab keeps its call in refs, which a coroutine reads when it resumes,  *)
(* and in React state, which buttons and the signal listener see as of the *)
(* last render: `ui' holds both, `rendered' what the last render closed    *)
(* over.  A click renders at once, everything else at a later Render.      *)
(* Capture devices and peer connections are named by the call whose        *)
(* startCall or accept opened them.  A tab is one life of the provider:    *)
(* mounted until the user logs out or locks.                               *)
(*                                                                         *)
(* Candidates only decide whether two connections that were given each     *)
(* other's descriptions come up, so they are the choice between Connect    *)
(* and Fail.  Not modelled: mute, camera and screen-share toggles, tones.  *)
(***************************************************************************)
EXTENDS FiniteSets

CONSTANTS
    User, Tab, Owner,   \* Owner[t] is the account signed in on tab t
    Call,               \* bound: the calls that may be placed
    Video, Premium,     \* calls placed with the camera; accounts that pay
    None

ASSUME OwnerAssumption == Owner \in [Tab -> User]
ASSUME SubsetAssumption == Video \subseteq Call /\ Premium \subseteq User
ASSUME NoneAssumption == None \notin Tab \cup User \cup Call

VARIABLES
    ui,         \* refs and React state of the provider
    rendered,   \* status and incoming as the last render saw them
    mounted,    \* the provider is in the tree
    task,       \* the startCall or accept of a call, by its await
    pcs,        \* the state of the peer connection of a call
    remote,     \* the call whose description a connection was given
    live,       \* captures that have not been stopped
    placed,     \* who called whom
    wire,       \* signals under way
    abandoned   \* a call of this tab ended under its own startCall or accept

vars == <<ui, rendered, mounted, task, pcs, remote, live, placed, wire,
          abandoned>>

-----------------------------------------------------------------------------
Status == {"idle", "ringing-out", "ringing-in", "connecting", "connected"}
MaybeCall == Call \cup {None}

\* refs: callId, peer (with channelId), pc, local, offer.
\* React state: status, incoming.
Provider == [status : Status, incoming : MaybeCall, callId : MaybeCall,
             peer : User \cup {None}, pc : MaybeCall, local : MaybeCall,
             offer : MaybeCall]
Blank == [status |-> "idle", incoming |-> None, callId |-> None,
          peer |-> None, pc |-> None, local |-> None, offer |-> None]

\* Where a startCall or an accept waits; `sdp' is the offer accept was given.
Stage == {"none", "media", "peer", "describe", "apply", "answer", "done"}
Coroutine == [at : Stage, sdp : MaybeCall]

PcState == {"none", "open", "connected", "closed"}

Signal == [kind : {"offer", "answer", "decline", "hangup"}, call : Call,
           from : User, to : Tab]

TypeOK ==
    /\ ui \in [Tab -> Provider]
    /\ rendered \in [Tab -> [status : Status, incoming : MaybeCall]]
    /\ mounted \in [Tab -> BOOLEAN]
    /\ task \in [Tab -> [Call -> Coroutine]]
    /\ pcs \in [Tab -> [Call -> PcState]]
    /\ remote \in [Tab -> [Call -> MaybeCall]]
    /\ live \in [Tab -> SUBSET Call]
    /\ placed \in [Call -> [by : Tab \cup {None}, to : User \cup {None}]]
    /\ wire \subseteq Signal
    /\ abandoned \in [Tab -> BOOLEAN]

View(p) == [status |-> p.status, incoming |-> p.incoming]

Init ==
    /\ ui = [t \in Tab |-> Blank]
    /\ rendered = [t \in Tab |-> View(Blank)]
    /\ mounted = [t \in Tab |-> TRUE]
    /\ task = [t \in Tab |-> [c \in Call |-> [at |-> "none", sdp |-> None]]]
    /\ pcs = [t \in Tab |-> [c \in Call |-> "none"]]
    /\ remote = [t \in Tab |-> [c \in Call |-> None]]
    /\ live = [t \in Tab |-> {}]
    /\ placed = [c \in Call |-> [by |-> None, to |-> None]]
    /\ wire = {}
    /\ abandoned = [t \in Tab |-> FALSE]

-----------------------------------------------------------------------------
\* sendSignal: the relay hands the frame to every tab of the peer that listens.
Frames(kind, t, c, u) ==
    {[kind |-> kind, call |-> c, from |-> Owner[t], to |-> x] :
        x \in {x \in Tab : Owner[x] = u /\ mounted[x] /\ mounted[t]}}

InFlight(t) == {c \in Call : task[t][c].at \notin {"none", "done"}}
IsOpen(t, c) == pcs[t][c] \in {"open", "connected"}
Other(t, c) == IF placed[c].by = t THEN placed[c].to ELSE Owner[placed[c].by]

\* teardown: it closes and stops what the refs hold at this moment.  `except'
\* is the coroutine that ends by calling it, if one does.
Teardown(t, except) ==
    /\ ui' = [ui EXCEPT ![t] = Blank]
    /\ live' = [live EXCEPT ![t] = @ \ {ui[t].local}]
    /\ abandoned' = [abandoned EXCEPT ![t] = @ \/ InFlight(t) \ {except} # {}]
Close(p, t) ==
    IF ui[t].pc = None THEN p ELSE [p EXCEPT ![t][ui[t].pc] = "closed"]

\* A click commits its own updates before the next event.
Commit(t) == rendered' = [rendered EXCEPT ![t] = View(ui'[t])]

Goto(t, c, stage) == task' = [task EXCEPT ![t][c].at = stage]

-----------------------------------------------------------------------------
(* The user                                                                *)

StartCall(t, u, c) ==
    /\ mounted[t] /\ rendered[t].status = "idle"
    /\ placed[c].by = None                      \* crypto.randomUUID()
    /\ u # Owner[t]
    /\ c \in Video => Owner[t] \in Premium
    /\ ui' = [ui EXCEPT ![t] = [@ EXCEPT !.callId = c, !.peer = u,
                                         !.status = "ringing-out"]]
    /\ placed' = [placed EXCEPT ![c] = [by |-> t, to |-> u]]
    /\ Goto(t, c, "media")
    /\ Commit(t)
    /\ UNCHANGED <<mounted, pcs, remote, live, wire, abandoned>>

\* The ring is on the screen: CallOverlay shows its two buttons.
Ringing(t) ==
    /\ mounted[t]
    /\ rendered[t].status = "ringing-in" /\ rendered[t].incoming # None

Accept(t) ==
    /\ Ringing(t) /\ ui[t].offer # None
    /\ LET c == rendered[t].incoming IN
       /\ ui' = [ui EXCEPT ![t] = [@ EXCEPT !.callId = c,
                                            !.peer = Other(t, c),
                                            !.incoming = None,
                                            !.status = "connecting"]]
       /\ task' = [task EXCEPT ![t][c] = [at |-> "media", sdp |-> ui[t].offer]]
    /\ Commit(t)
    /\ UNCHANGED <<mounted, pcs, remote, live, placed, wire, abandoned>>

Decline(t) ==
    /\ Ringing(t)
    /\ LET c == rendered[t].incoming IN
       wire' = wire \cup Frames("decline", t, c, Other(t, c))
    /\ ui' = [ui EXCEPT ![t] = [@ EXCEPT !.offer = None, !.incoming = None,
                                         !.status = "idle"]]
    /\ Commit(t)
    /\ UNCHANGED <<mounted, task, pcs, remote, live, placed, abandoned>>

\* The red button of the call window.
Hangup(t) ==
    /\ mounted[t] /\ rendered[t].status \notin {"idle", "ringing-in"}
    /\ wire' = IF ui[t].callId = None THEN wire
               ELSE wire \cup Frames("hangup", t, ui[t].callId, ui[t].peer)
    /\ Teardown(t, None)
    /\ pcs' = Close(pcs, t)
    /\ Commit(t)
    /\ UNCHANGED <<mounted, task, remote, placed>>

\* Log out or lock: the unmount effect tears down, and sends nothing.
Unmount(t) ==
    /\ mounted[t]
    /\ mounted' = [mounted EXCEPT ![t] = FALSE]
    /\ Teardown(t, None)
    /\ pcs' = Close(pcs, t)
    /\ Commit(t)
    /\ wire' = {m \in wire : m.to # t}
    /\ UNCHANGED <<task, remote, placed>>

\* React renders, and the listener is registered anew with what it sees.
Render(t) ==
    /\ mounted[t] /\ rendered[t] # View(ui[t])
    /\ rendered' = [rendered EXCEPT ![t] = View(ui[t])]
    /\ UNCHANGED <<ui, mounted, task, pcs, remote, live, placed, wire,
                   abandoned>>

-----------------------------------------------------------------------------
(* The coroutines startCall and accept                                     *)

\* getUserMedia is granted, the filter is built: acquireLocal returns.
Captured(t, c) ==
    /\ task[t][c].at = "media"
    /\ ui' = [ui EXCEPT ![t] = [@ EXCEPT !.local = c]]
    /\ live' = [live EXCEPT ![t] = @ \cup {c}]
    /\ Goto(t, c, "peer")
    /\ UNCHANGED <<rendered, mounted, pcs, remote, placed, wire, abandoned>>

\* buildPeer returns with a connection, with or without ICE servers.
BuildPeer(t, c) ==
    /\ task[t][c].at = "peer"
    /\ ui' = [ui EXCEPT ![t] = [@ EXCEPT !.pc = c]]
    /\ pcs' = [pcs EXCEPT ![t][c] = "open"]
    /\ Goto(t, c, IF placed[c].by = t THEN "describe" ELSE "apply")
    /\ UNCHANGED <<rendered, mounted, remote, live, placed, wire, abandoned>>

\* createOffer and setLocalDescription on a connection that is still open.
SendOffer(t, c) ==
    /\ task[t][c].at = "describe" /\ IsOpen(t, c)
    /\ wire' = wire \cup Frames("offer", t, c, placed[c].to)
    /\ Goto(t, c, "done")
    /\ UNCHANGED <<ui, rendered, mounted, pcs, remote, live, placed,
                   abandoned>>

\* setRemoteDescription with the offer the user accepted.
ApplyOffer(t, c) ==
    /\ task[t][c].at = "apply" /\ IsOpen(t, c)
    /\ remote' = [remote EXCEPT ![t][c] = task[t][c].sdp]
    /\ Goto(t, c, "answer")
    /\ UNCHANGED <<ui, rendered, mounted, pcs, live, placed, wire, abandoned>>

SendAnswer(t, c) ==
    /\ task[t][c].at = "answer" /\ IsOpen(t, c)
    /\ wire' = wire \cup Frames("answer", t, c, Other(t, c))
    /\ Goto(t, c, "done")
    /\ UNCHANGED <<ui, rendered, mounted, pcs, remote, live, placed,
                   abandoned>>

\* The catch block: no device, no permission, or a connection that was closed
\* meanwhile.  Only accept tells the peer, on the channel of the moment.
Throw(t, c) ==
    /\ \/ task[t][c].at = "media"
       \/ task[t][c].at \in {"describe", "apply", "answer"} /\ ~IsOpen(t, c)
    /\ wire' = IF placed[c].by = t \/ ui[t].peer = None THEN wire
               ELSE wire \cup Frames("hangup", t, c, ui[t].peer)
    /\ Teardown(t, c)
    /\ pcs' = Close(pcs, t)
    /\ Goto(t, c, "done")
    /\ UNCHANGED <<rendered, mounted, remote, placed>>

\* An operation under way on a connection when it is closed never settles.
NeverSettles(t, c) ==
    /\ task[t][c].at \in {"describe", "apply", "answer"} /\ pcs[t][c] = "closed"
    /\ Goto(t, c, "done")
    /\ UNCHANGED <<ui, rendered, mounted, pcs, remote, live, placed, wire,
                   abandoned>>

-----------------------------------------------------------------------------
(* Signals                                                                 *)

\* Mutant: a tab that calls is not busy.
BusyWhenConnected(t) == rendered[t].status \in {"ringing-in", "connected"}
\* Mutant: a tab that rings is not busy.
BusyOnlyInCall(t) ==
    rendered[t].status \notin {"idle", "ringing-in"} \/ ui[t].pc # None
Busy(t) == rendered[t].status # "idle" \/ ui[t].pc # None

OnOffer(t, m) ==
    /\ m.kind = "offer"
    /\ \E premium \in {FALSE, Owner[t] \in Premium} :  \* api.limits answered?
       IF Busy(t) \/ (m.call \in Video /\ ~premium)
       THEN /\ wire' = (wire \ {m}) \cup
                       Frames("decline", t, m.call, m.from)
            /\ UNCHANGED ui
       ELSE /\ wire' = wire \ {m}
            /\ ui' = [ui EXCEPT ![t] = [@ EXCEPT !.offer = m.call,
                                                 !.incoming = m.call,
                                                 !.status = "ringing-in"]]
    /\ UNCHANGED <<pcs, remote, live, abandoned>>

\* Mutant: an answer goes to whatever connection there is.
OnAnyAnswer(t, m) ==
    /\ m.kind = "answer"
    /\ wire' = wire \ {m}
    /\ LET p == ui[t].pc IN
       IF p = None \/ remote[t][p] # None \/ ~IsOpen(t, p)
       THEN UNCHANGED <<ui, remote>>
       ELSE /\ ui' = [ui EXCEPT ![t] = [@ EXCEPT !.status = "connecting"]]
            /\ remote' = [remote EXCEPT ![t][p] = m.call]
    /\ UNCHANGED <<pcs, live, abandoned>>

\* A connection takes an answer only while its own offer is outstanding.
OnAnswer(t, m) ==
    /\ m.kind = "answer"
    /\ wire' = wire \ {m}
    /\ LET p == ui[t].pc
           takes == /\ placed[p].by = t /\ task[t][p].at = "done"
                    /\ IsOpen(t, p) /\ remote[t][p] = None
       IN  IF m.call # ui[t].callId \/ p = None
           THEN UNCHANGED <<ui, remote>>
           ELSE IF ~takes
           THEN /\ ui' = [ui EXCEPT ![t] = [@ EXCEPT !.status = "connecting"]]
                /\ UNCHANGED remote
           ELSE /\ ui' = [ui EXCEPT ![t] = [@ EXCEPT !.status = "connecting"]]
                /\ remote' = [remote EXCEPT ![t][p] = m.call]
    /\ UNCHANGED <<pcs, live, abandoned>>

\* A decline ends the call of that id, a hang-up also the ring of that id.
OnEnd(t, m) ==
    /\ m.kind \in {"decline", "hangup"}
    /\ wire' = wire \ {m}
    /\ IF \/ m.call = ui[t].callId
          \/ m.kind = "hangup" /\ m.call = ui[t].offer
       THEN Teardown(t, None) /\ pcs' = Close(pcs, t)
       ELSE UNCHANGED <<ui, live, pcs, abandoned>>
    /\ UNCHANGED remote

Receive(t) ==
    /\ mounted[t]
    /\ \E m \in {m \in wire : m.to = t} :
          OnOffer(t, m) \/ OnAnswer(t, m) \/ OnEnd(t, m)
    /\ UNCHANGED <<rendered, mounted, task, placed>>

-----------------------------------------------------------------------------
(* The peer connection                                                     *)

\* Each side was given the description the other made.
Joined(c) ==
    LET by == placed[c].by IN
    /\ by # None /\ IsOpen(by, c) /\ remote[by][c] = c
    /\ \E x \in Tab \ {by} : IsOpen(x, c) /\ remote[x][c] = c

Connect(t, c) ==
    /\ pcs[t][c] = "open" /\ remote[t][c] = c /\ Joined(c)
    /\ pcs' = [pcs EXCEPT ![t][c] = "connected"]
    /\ ui' = [ui EXCEPT ![t] = [@ EXCEPT !.status =
                            IF mounted[t] THEN "connected" ELSE ui[t].status]]
    /\ UNCHANGED <<rendered, mounted, task, remote, live, placed, wire,
                   abandoned>>

\* Mutant: onFailed only shows that the call is over.
FailShownOnly(t, c) ==
    /\ IsOpen(t, c) /\ remote[t][c] # None
    /\ pcs' = [pcs EXCEPT ![t][c] = "closed"]
    /\ ui' = [ui EXCEPT ![t] = Blank]
    /\ UNCHANGED <<live, abandoned, rendered, mounted, task, remote, placed,
                   wire>>

\* The media path fails, or the other side has gone: onFailed is teardown.
Fail(t, c) ==
    /\ IsOpen(t, c) /\ remote[t][c] # None
    /\ pcs' = Close([pcs EXCEPT ![t][c] = "closed"], t)
    /\ Teardown(t, None)
    /\ UNCHANGED <<rendered, mounted, task, remote, placed, wire>>

-----------------------------------------------------------------------------
Resume(t, c) ==
    \/ Captured(t, c)  \/ BuildPeer(t, c)  \/ SendOffer(t, c)
    \/ ApplyOffer(t, c) \/ SendAnswer(t, c)
    \/ Throw(t, c)     \/ NeverSettles(t, c)

Next ==
    \E t \in Tab :
        \/ \E u \in User, c \in Call : StartCall(t, u, c)
        \/ Accept(t) \/ Decline(t) \/ Hangup(t) \/ Unmount(t)
        \/ Render(t) \/ Receive(t)
        \/ \E c \in Call : Resume(t, c) \/ Connect(t, c) \/ Fail(t, c)

Spec == Init /\ [][Next]_vars

-----------------------------------------------------------------------------
(* Properties                                                              *)

Quiet(t) == ui[t].status = "idle" /\ InFlight(t) = {}

\* When a tab shows no call and none is being set up, its microphone and
\* camera are off and no connection is open: whatever was lost, crossed or
\* failed, one of the ways out has released everything.  Excluded are tabs on
\* which a call ended while its own startCall or accept was still waiting.
Released ==
    \A t \in Tab : Quiet(t) /\ ~abandoned[t] =>
        /\ live[t] = {} /\ ui[t].pc = None
        /\ \A c \in Call : ~IsOpen(t, c)

\* A connection is only ever given the description of the call it was built
\* for, so an answer that comes late cannot steer the connection of another.
DescriptionsMatch ==
    \A t \in Tab, c \in Call : ~abandoned[t] => remote[t][c] \in {None, c}

\* Busy: no second caller replaces the offer of a tab that has a call, even
\* when the listener was registered before that call began.
BusyKeepsItsCall ==
    [][\A t \in Tab : ui[t].callId # None =>
          ui'[t].offer \in {ui[t].offer, None}]_vars

\* What the user accepts is what the screen names: the offer in the ref is the
\* one of the ring that is shown.
RingIsTheOffer ==
    \A t \in Tab : Ringing(t) /\ ui[t].offer # None =>
        ui[t].offer = rendered[t].incoming
=============================================================================
