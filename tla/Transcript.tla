---------------------------- MODULE Transcript ----------------------------
(***************************************************************************)
(* The transcript of one channel on one device (vault/messages.ts) and the *)
(* handlers that write it (useRelayInbound.ts, useRelayOutbound.ts): every *)
(* change loads the sealed transcript, changes it and saves it, under a    *)
(* lock that each tab has for itself, while the relay delivers each frame  *)
(* at least once and edits and deletes may come before the message they    *)
(* are about.  Reactions, which park in a buffer of their own, are not     *)
(* modelled.                                                               *)
(*                                                                         *)
(* One access to IndexedDB is one step; what follows it until the next     *)
(* await belongs to the step.  A frame is its index in the order the relay *)
(* accepted them.                                                          *)
(***************************************************************************)
EXTENDS Naturals, Sequences, FiniteSets, SequencesExt

CONSTANTS
    Tab,        \* browser tabs of the account
    Msg, From,  \* messages, and who wrote them
    Feed,       \* Feed[i]: what frame i says: kind, the message it is of, and by whom
    Own,        \* the frames this account makes itself
    Burns,      \* the messages with a burnTtl
    MaxParked,  \* MAX_PARKED
    MaxHandlers,\* bound: handlers of one frame at work in a tab
    Faults      \* bound: which faults happen, of FaultKinds

\* "drop": the socket is lost.  "fail": an access to IndexedDB rejects.
\* "close": the tab is closed.
FaultKinds == {"drop", "fail", "close"}

Frame == DOMAIN Feed
Mutations == {"edit", "delete"}

ASSUME ConstantsAssumption ==
    /\ IsFiniteSet(Msg) /\ Burns \subseteq Msg
    /\ Feed \in Seq([kind : {"message"} \cup Mutations, of : Msg, by : {From[m] : m \in Msg}])
    \* a message is sent once, by its author
    /\ \A i, j \in Frame : Feed[i].kind = "message" =>
        /\ Feed[i].by = From[Feed[i].of]
        /\ Feed[j].kind = "message" /\ Feed[j].of = Feed[i].of => j = i
    \* the relay stamps a frame with its sender, and does not send it back
    /\ Own \subseteq Frame
    /\ \A i, j \in Frame : Feed[i].by = Feed[j].by => (i \in Own <=> j \in Own)
    /\ MaxParked \in Nat \ {0} /\ MaxHandlers \in Nat \ {0}
    /\ Faults \subseteq FaultKinds

VARIABLES
    disk,       \* IndexedDB: the sealed transcript
    \* the relay
    posted,     \* frames it accepted from the peer
    queue,      \* frames whose rows have not been acknowledged
    sock,       \* the socket of a tab, from connecting to its handlers being attached
    batch,      \* the rows the flush has read
    \* each tab
    wire,       \* frames sent to it and not yet read
    chain,      \* withLock: the work queued for this transcript
    hold,       \* what the first of it has loaded
    parked,     \* parkedMutations
    \* the account
    made,       \* its own frames so far
    \* history, read by no action
    burned,     \* messages that have burned
    spilt       \* parked frames that were given up

relayVars == <<posted, queue, sock, batch>>
tabVars   == <<wire, chain, hold, parked>>
vars == <<disk, relayVars, tabVars, made, burned, spilt>>

\* A stored message: the frame its text is from, 0 for a tombstone's.
Absent == [here |-> FALSE, text |-> 0, deleted |-> FALSE, seen |-> FALSE]
NotLoaded == <<>>

\* What is left of sequence s when only the positions of I are kept: a set of one.
\* (A quantifier over it is all that the provers need to know of a filter.)
Picks(s, I) ==
    LET Rising == {p \in [1 .. Cardinality(I) -> I] :
                        \A j, k \in 1 .. Cardinality(I) : j < k => p[j] < p[k]}
    IN  {[k \in 1 .. Cardinality(I) |-> s[p[k]]] : p \in Rising}

\* A piece of work: apply frame `do`, and then `left`, for the handler of frame
\* `for`, which has its socket still if `on`.  Frame 0 is the tick.
Work(i) == [do |-> i, left |-> <<>>, for |-> i, on |-> i \notin Own]
Tick == [Work(0) EXCEPT !.on = FALSE]

Init ==
    /\ disk = [m \in Msg |-> Absent]
    /\ posted = {} /\ queue = {} /\ made = {} /\ burned = {} /\ spilt = {}
    /\ sock = [t \in Tab |-> "closed"]
    /\ batch = [t \in Tab |-> <<>>]
    /\ wire = [t \in Tab |-> <<>>]
    /\ chain = [t \in Tab |-> <<>>]
    /\ hold = [t \in Tab |-> NotLoaded]
    /\ parked = [t \in Tab |-> <<>>]

---------------------------------------------------------------------------
(* The relay, as far as this device can tell: a row per frame, pushed live *)
(* and flushed on connect, until it is acknowledged.                       *)

Post ==
    \E i \in Frame \ (Own \cup posted) :
        /\ \A j \in Frame \ (Own \cup posted) : i <= j
        /\ posted' = posted \cup {i}
        /\ queue' = queue \cup {i}
        /\ wire' = [t \in Tab |-> IF sock[t] = "closed" THEN wire[t] ELSE Append(wire[t], i)]
        /\ UNCHANGED <<disk, sock, batch, chain, hold, parked, made, burned,
                       spilt>>

Connect(t) ==
    /\ sock[t] = "closed"
    /\ sock' = [sock EXCEPT ![t] = "flushing"]
    /\ UNCHANGED <<disk, posted, queue, batch, tabVars, made, burned, spilt>>

\* The SELECT of the connect flush, in the order of created_at.
FlushRead(t) ==
    /\ sock[t] = "flushing"
    /\ sock' = [sock EXCEPT ![t] = "read"]
    /\ \E b \in Picks([i \in Frame |-> i], queue) : batch' = [batch EXCEPT ![t] = b]
    /\ UNCHANGED <<disk, posted, queue, tabVars, made, burned, spilt>>

\* Frames pushed since the SELECT are ahead of the batch.
FlushPush(t) ==
    /\ sock[t] = "read"
    /\ sock' = [sock EXCEPT ![t] = "attaching"]
    /\ wire' = [wire EXCEPT ![t] = @ \o batch[t]]
    /\ batch' = [batch EXCEPT ![t] = <<>>]
    /\ UNCHANGED <<disk, posted, queue, chain, hold, parked, made, burned,
                   spilt>>

\* The other flush is over: ws.on("message").
Attach(t) ==
    /\ sock[t] = "attaching"
    /\ sock' = [sock EXCEPT ![t] = "open"]
    /\ UNCHANGED <<disk, posted, queue, batch, tabVars, made, burned, spilt>>

\* The socket is lost; the tab's handlers go on, and answer to nobody.
Drop(t) ==
    /\ "drop" \in Faults /\ sock[t] # "closed"
    /\ sock' = [sock EXCEPT ![t] = "closed"]
    /\ batch' = [batch EXCEPT ![t] = <<>>]
    /\ wire' = [wire EXCEPT ![t] = <<>>]
    /\ chain' = [chain EXCEPT ![t] = [k \in DOMAIN @ |-> [@[k] EXCEPT !.on = FALSE]]]
    /\ UNCHANGED <<disk, posted, queue, hold, parked, made, burned, spilt>>

---------------------------------------------------------------------------
(* MessageStore: what a piece of work makes of a transcript                *)

\* The clock of the account's own burn message starts when it is sent.
Fresh(i) == [Absent EXCEPT !.here = TRUE, !.text = i,
                           !.seen = i \in Own /\ Feed[i].of \in Burns]
Tombstone == [Absent EXCEPT !.here = TRUE, !.deleted = TRUE]

\* Mutant: a deleted message can be edited.
Editable_Tombstone(d, i) == d[Feed[i].of].here /\ Feed[i].by = From[Feed[i].of]
\* edit: the target is here, by its author, and no tombstone.
Editable(d, i) ==
    /\ d[Feed[i].of].here
    /\ Feed[i].by = From[Feed[i].of]
    /\ ~d[Feed[i].of].deleted

\* remove.
Removable(d, i) == d[Feed[i].of].here /\ Feed[i].by = From[Feed[i].of]

\* The work finds what it is to change; otherwise it returns null.  An append
\* always returns, and changes nothing when the id is there.
Finds(d, i) ==
    CASE Feed[i].kind = "message" -> TRUE
      [] Feed[i].kind = "edit"    -> Editable(d, i)
      [] Feed[i].kind = "delete"  -> Removable(d, i)

Changed(d, i) ==
    LET m == Feed[i].of
    IN  CASE Feed[i].kind = "message" -> IF d[m].here THEN d[m] ELSE Fresh(i)
          [] Feed[i].kind = "edit"    -> [d[m] EXCEPT !.text = i]
          [] Feed[i].kind = "delete"  -> Tombstone

\* It saves unless it returned early.
Saves(d, i) == Finds(d, i) /\ (Feed[i].kind = "message" => ~d[Feed[i].of].here)
Applied(d, i) == [d EXCEPT ![Feed[i].of] = Changed(d, i)]

\* processBurns: a burn message that has been shown is clocked, and one that was
\* clocked goes once its time is up.  A tombstone has lost its burnTtl.
Burning(d) == {m \in Burns : d[m].here /\ ~d[m].deleted}
Swept(d, gone) ==
    [m \in Msg |-> IF m \in gone THEN Absent
                   ELSE IF m \in Burning(d) THEN [d[m] EXCEPT !.seen = TRUE] ELSE d[m]]

---------------------------------------------------------------------------
(* A tab                                                                   *)

\* onmessage, up to the work it queues.
Arrive(t) ==
    /\ wire[t] # <<>>
    /\ LET i == Head(wire[t])
       IN  /\ Cardinality({k \in DOMAIN chain[t] : chain[t][k].for = i}) < MaxHandlers
           /\ chain' = [chain EXCEPT ![t] = Append(@, Work(i))]
    /\ wire' = [wire EXCEPT ![t] = Tail(@)]
    /\ UNCHANGED <<disk, relayVars, hold, parked, made, burned, spilt>>

\* The user sends, or edits or deletes what is on the screen.
Do(t, i) ==
    /\ i \in Own \ made /\ \A j \in Own \ made : i <= j
    /\ Feed[i].kind = "message" \/ Finds(disk, i)
    /\ made' = made \cup {i}
    /\ chain' = [chain EXCEPT ![t] = Append(@, Work(i))]
    /\ UNCHANGED <<disk, relayVars, wire, hold, parked, burned, spilt>>

\* The tick of an open channel.
StartTick(t) ==
    /\ Burning(disk) # {} /\ \A k \in DOMAIN chain[t] : chain[t][k] # Tick
    /\ chain' = [chain EXCEPT ![t] = Append(@, Tick)]
    /\ UNCHANGED <<disk, relayVars, wire, hold, parked, made, burned, spilt>>

Load(t) ==
    /\ chain[t] # <<>> /\ hold[t] = NotLoaded
    /\ hold' = [hold EXCEPT ![t] = disk]
    /\ UNCHANGED <<disk, relayVars, wire, chain, parked, made, burned, spilt>>

\* Mutant: the transcript is kept in memory from one piece of work to the next.
Unlocked_Cached(t) == hold
\* The next piece of work loads the transcript anew.
Unlocked(t) == [hold EXCEPT ![t] = NotLoaded]

\* The first piece of work is over; `more` is queued behind the others.
Release(t, more) ==
    /\ chain' = [chain EXCEPT ![t] = Tail(@) \o more]
    /\ hold' = Unlocked(t)

\* The handler of w is over: it acknowledges on the socket the frame came from, if
\* that is still there.  An ack that comes before the relay listens is lost; one
\* that is lost on its way is one whose socket was lost before it.
Acknowledge(t, w) == queue' = IF w.on /\ sock[t] = "open" THEN queue \ {w.for} ELSE queue

\* The buffer with i at its end, less the oldest when it was full.
Pushed(s, i) == Append(IF Len(s) >= MaxParked THEN Tail(s) ELSE s, i)
Shifted(s) == IF Len(s) >= MaxParked THEN {Head(s)} ELSE {}

\* An edit or delete: parked if it found nothing, and acknowledged.
Settle(t, w) ==
    /\ Release(t, <<>>)
    /\ parked' = IF Finds(hold[t], w.do) THEN parked
                 ELSE [parked EXCEPT ![t] = Pushed(@, w.do)]
    /\ spilt' = IF Finds(hold[t], w.do) THEN spilt ELSE spilt \cup Shifted(parked[t])
    /\ Acknowledge(t, w)

\* The handler of a message goes on with what is `left` of drainMutations, one piece
\* of work after the other, and acknowledges when nothing is.
GoOn(t, w, left) ==
    /\ Release(t, IF left = <<>> THEN <<>>
                  ELSE <<[w EXCEPT !.do = Head(left), !.left = Tail(left)]>>)
    /\ IF left = <<>> THEN Acknowledge(t, w) ELSE UNCHANGED queue
    /\ UNCHANGED spilt

\* Mutant: what is parked is left there.
Ready_Never(t, m) == {}
\* What drainMutations takes out of the buffer when message m is in: its places.
Ready(t, m) == {k \in DOMAIN parked[t] : Feed[parked[t][k]].of = m}

\* The work on a frame is saved, or returns early, and its handler goes on.
Save(t) ==
    /\ chain[t] # <<>> /\ hold[t] # NotLoaded
    /\ LET w == chain[t][1]
           m == Feed[w.for].of
       IN  /\ w # Tick
           /\ disk' = IF Saves(hold[t], w.do) THEN Applied(hold[t], w.do) ELSE disk
           /\ \/ /\ w.for \in Own
                 /\ Release(t, <<>>)
                 /\ UNCHANGED <<queue, parked, spilt>>
              \/ /\ w.for \notin Own /\ Feed[w.for].kind # "message"
                 /\ Settle(t, w)
              \/ /\ w.for \notin Own /\ Feed[w.for].kind = "message" /\ w.do = w.for
                 /\ \E left \in Picks(parked[t], Ready(t, m)) : GoOn(t, w, left)
                 /\ \E rest \in Picks(parked[t], DOMAIN parked[t] \ Ready(t, m)) :
                        parked' = [parked EXCEPT ![t] = rest]
              \/ /\ w.for \notin Own /\ Feed[w.for].kind = "message" /\ w.do # w.for
                 /\ GoOn(t, w, w.left)
                 /\ UNCHANGED parked
    /\ UNCHANGED <<posted, sock, batch, wire, made, burned>>

SaveTick(t) ==
    /\ chain[t] # <<>> /\ hold[t] # NotLoaded /\ chain[t][1] = Tick
    /\ \E gone \in SUBSET {m \in Burning(hold[t]) : hold[t][m].seen} :
        /\ disk' = IF Swept(hold[t], gone) = hold[t] THEN disk ELSE Swept(hold[t], gone)
        /\ burned' = burned \cup gone
    /\ Release(t, <<>>)
    /\ UNCHANGED <<relayVars, wire, parked, made, spilt>>

\* What is lost of a piece of work that is given up: all that its handler had taken
\* out of the buffer.
Taken(w) == IF w.do = w.for THEN {} ELSE {w.do} \cup ToSet(w.left)

\* Mutant: the handler catches what the store throws, and acknowledges.
Fail_Caught(t) ==
    /\ "fail" \in Faults /\ chain[t] # <<>>
    /\ spilt' = spilt \cup Taken(chain[t][1])
    /\ Acknowledge(t, chain[t][1])
    /\ Release(t, <<>>)
    /\ UNCHANGED <<disk, posted, sock, batch, wire, parked, made, burned>>
\* The load or the save rejects: the handler throws and acknowledges nothing.
Fail(t) ==
    /\ "fail" \in Faults /\ chain[t] # <<>>
    /\ spilt' = spilt \cup Taken(chain[t][1])
    /\ Release(t, <<>>)
    /\ UNCHANGED <<disk, relayVars, wire, parked, made, burned>>

CloseTab(t) ==
    /\ "close" \in Faults
    /\ sock' = [sock EXCEPT ![t] = "closed"]
    /\ batch' = [batch EXCEPT ![t] = <<>>]
    /\ wire' = [wire EXCEPT ![t] = <<>>]
    /\ chain' = [chain EXCEPT ![t] = <<>>]
    /\ hold' = [hold EXCEPT ![t] = NotLoaded]
    /\ parked' = [parked EXCEPT ![t] = <<>>]
    /\ spilt' = spilt \cup ToSet(parked[t]) \cup UNION {Taken(w) : w \in ToSet(chain[t])}
    /\ UNCHANGED <<disk, posted, queue, made, burned>>

Next ==
    \/ Post
    \/ \E t \in Tab : Connect(t)
    \/ \E t \in Tab : FlushRead(t)
    \/ \E t \in Tab : FlushPush(t)
    \/ \E t \in Tab : Attach(t)
    \/ \E t \in Tab : Drop(t)
    \/ \E t \in Tab : Arrive(t)
    \/ \E t \in Tab, i \in Frame : Do(t, i)
    \/ \E t \in Tab : StartTick(t)
    \/ \E t \in Tab : Load(t)
    \/ \E t \in Tab : Save(t)
    \/ \E t \in Tab : SaveTick(t)
    \/ \E t \in Tab : Fail(t)
    \/ \E t \in Tab : CloseTab(t)

Spec == Init /\ [][Next]_vars

---------------------------------------------------------------------------
(* Properties                                                              *)

Message == [here : BOOLEAN, text : Nat, deleted : BOOLEAN, seen : BOOLEAN]
WorkType == {Tick} \cup [do : Frame, left : Seq(Frame), for : Frame, on : BOOLEAN]

\* The type invariant: the transcript, the relay's rows and all that a tab has in
\* memory keep their types.
TypeOK ==
    /\ disk \in [Msg -> Message]
    /\ posted \subseteq Frame /\ queue \subseteq Frame
    /\ sock \in [Tab -> {"closed", "flushing", "read", "attaching", "open"}]
    /\ batch \in [Tab -> Seq(Frame)] /\ wire \in [Tab -> Seq(Frame)]
    /\ chain \in [Tab -> Seq(WorkType)]
    /\ hold \in [Tab -> {NotLoaded} \cup [Msg -> Message]]
    /\ parked \in [Tab -> Seq(Frame)]
    /\ made \subseteq Frame /\ burned \subseteq Msg /\ spilt \subseteq Frame

\* "Without it our own send and an arriving message interleave and the second write
\* drops the first one's message" (MessageStore): a message leaves the transcript
\* only by burning after it was seen, whatever is sent, received, edited and swept
\* at the same time.
NothingVanishes ==
    [][\A m \in Msg : disk[m].here /\ ~disk'[m].here => m \in Burns /\ disk[m].seen]_vars

\* "Never edit a tombstone back to life" (edit), "no plaintext outlives the delete"
\* (remove): a tombstone stays one and has no text, whatever edits race with the
\* delete, come late, or come again.
TombstoneStays ==
    [][\A m \in Msg : disk[m].deleted => disk'[m].deleted /\ disk'[m].text = 0]_vars

\* "Ack only after the plaintext is committed locally" (useRelay.ts): a message whose
\* row the relay has deleted is in the transcript, or was and has burned.
AckedIsKept ==
    \A i \in posted \ queue : Feed[i].kind = "message" =>
        disk[Feed[i].of].here \/ Feed[i].of \in burned

\* Nothing is queued, on its way, or being handled.
Quiet ==
    /\ queue = {}
    /\ \A t \in Tab : wire[t] = <<>> /\ batch[t] = <<>> /\ chain[t] = <<>>

\* Edits and deletes that come before their message "are parked like reactions rather
\* than dropped" (drainMutations): when all is quiet, a message that is here has lost
\* its first text to every edit and its text to every delete of its author, in
\* whatever order they and the message came, unless they were given up.
ParkedLands ==
    Quiet => \A i \in posted \ spilt :
        LET m == Feed[i].of
        IN  Feed[i].kind \in Mutations /\ Feed[i].by = From[m] /\ disk[m].here
                /\ m \notin burned =>
            \/ disk[m].deleted
            \/ Feed[i].kind = "edit" /\ Feed[disk[m].text].kind = "edit"
=============================================================================
