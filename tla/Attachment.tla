---------------------------- MODULE Attachment ----------------------------
(***************************************************************************)
(* What the attachment store promises, whatever it does with rows, files,  *)
(* handlers and retries: an upload grows by whole chunks and in order, and *)
(* it is sealed only with the last of them; what is sealed never changes.  *)
(***************************************************************************)
EXTENDS Naturals, Sequences

CONSTANTS Blob, Size, Chunk

VARIABLES
    stage,      \* how far the attachment is
    stored      \* the pieces that can be relied on

vars == <<stage, stored>>

\* The ciphertext stream of an attachment, and its first n pieces.
Prefix(n) == [k \in 1..n |-> k]

Init ==
    /\ stage = [b \in Blob |-> "absent"]
    /\ stored = [b \in Blob |-> <<>>]

Reserve(b) ==
    /\ stage[b] = "absent"
    /\ stage' = [stage EXCEPT ![b] = "pending"]
    /\ UNCHANGED stored

\* The next chunk: Chunk pieces, or what is left of the stream.
StoreChunk(b) ==
    /\ stage[b] = "pending"
    /\ \E n \in (Len(stored[b]) + 1)..(Len(stored[b]) + Chunk) :
        /\ n <= Size[b]
        /\ n = Size[b] \/ n = Len(stored[b]) + Chunk
        /\ stored' = [stored EXCEPT ![b] = Prefix(n)]
    /\ UNCHANGED stage

Seal(b) ==
    /\ stage[b] = "pending"
    /\ stored[b] = Prefix(Size[b])
    /\ stage' = [stage EXCEPT ![b] = "complete"]
    /\ UNCHANGED stored

\* Expiry, an abandoned upload, or the end of the channel: several at a time.
Drop(S) ==
    /\ S # {} /\ \A b \in S : stage[b] \in {"pending", "complete"}
    /\ stage' = [b \in Blob |-> IF b \in S THEN "gone" ELSE stage[b]]
    /\ stored' = [b \in Blob |-> IF b \in S THEN <<>> ELSE stored[b]]

Next ==
    \/ \E b \in Blob : Reserve(b) \/ StoreChunk(b) \/ Seal(b)
    \/ \E S \in SUBSET Blob : Drop(S)

Spec == Init /\ [][Next]_vars
=============================================================================
