----------------------------- MODULE BlobStore -----------------------------
(***************************************************************************)
(* Attachment storage (routes/blobs.js, blobStore.js): rows in PostgreSQL, *)
(* files on a disk of their own, the request handlers that write first to  *)
(* one and then to the other, the reaper, and a Node process that may die  *)
(* between any two of their steps.                                         *)
(*                                                                         *)
(* The ciphertext stream of blob b is the pieces 1..Size[b] in this order. *)
(* A piece is what FileHandle.appendFile writes at a time, half a MiB, so  *)
(* a chunk of a MiB is several writes; every size below counts pieces.     *)
(* One await is one step: a statement, a system call, one write.           *)
(***************************************************************************)
EXTENDS Naturals, Sequences, FiniteSets

CONSTANTS
    Blob,       \* the uploads of one account; the id the INSERT will return
    Size,       \* Size[b]: declared_bytes
    Chunk,      \* CIPHER_CHUNK
    DmBlob,     \* the uploads to a direct message, which may be deleted
    Quota,      \* config.blob.quotaPerUserBytes
    Request,    \* handlers at work at a time
    None,       \* no blob
    Faults      \* bound: which faults happen, of FaultKinds

\* "fail": an awaited call of a handler throws.  "crash": the process dies.
\* "overlap": a chunk or finish is sent while another handler still has the blob.
FaultKinds == {"fail", "crash", "overlap"}

ASSUME ConstantsAssumption ==
    /\ IsFiniteSet(Blob) /\ IsFiniteSet(Request)
    /\ Size \in [Blob -> Nat \ {0}] /\ Chunk \in Nat \ {0}
    /\ DmBlob \subseteq Blob /\ None \notin Blob
    /\ Quota \in Nat /\ Faults \subseteq FaultKinds

VARIABLES
    row,        \* blobs: status (absent before the INSERT, gone after the DELETE) and counts
    dm,         \* the channels row of the direct message is there
    onDisk,     \* the files that exist
    data,       \* the pieces in a file, 0 where ftruncate made a hole
    req,        \* the request handlers
    unlinking   \* ids the reaper has deleted and whose files it has still to unlink

vars == <<row, dm, onDisk, data, req, unlinking>>

\* declared_chunks, and the pieces of chunk i.
Chunks(b) == (Size[b] + Chunk - 1) \div Chunk
ChunkLength(b, i) == IF (i + 1) * Chunk <= Size[b] THEN Chunk ELSE Size[b] - i * Chunk
Piece(i, k) == i * Chunk + k

Row == [status : {"absent", "pending", "complete", "gone"}, chunks : Nat, bytes : Nat]
Stages == {"insert", "open", "stat", "truncate", "write", "update", "size", "seal", "stream"}
Idle == [pc |-> "idle", blob |-> None, index |-> 0, exp |-> 0, done |-> 0]
\* exp: bytes_received as the handler read it; done: pieces of the chunk it wrote.
Handler == {Idle} \cup [pc : Stages, blob : Blob, index : Nat, exp : Nat, done : Nat]

TypeOK ==
    /\ row \in [Blob -> Row]
    /\ dm \in BOOLEAN
    /\ onDisk \subseteq Blob /\ unlinking \subseteq Blob
    /\ data \in [Blob -> Seq(Nat)]
    /\ req \in [Request -> Handler]

Init ==
    /\ row = [b \in Blob |-> [status |-> "absent", chunks |-> 0, bytes |-> 0]]
    /\ dm = TRUE
    /\ onDisk = {} /\ unlinking = {}
    /\ data = [b \in Blob |-> <<>>]
    /\ req = [r \in Request |-> Idle]

----------------------------------------------------------------------------
Live(b) == row[b].status \in {"pending", "complete"}

\* The pieces that the uploads in S declare, each with its upload.
Declared(S) == UNION {{b} \X (1..Size[b]) : b \in S}

\* SELECT coalesce(sum(declared_bytes), 0) ... status != 'expired': nothing is
\* ever given that status, so every row counts.  The sum of the sizes of uploads is
\* the number of their pieces.
Used == Cardinality(Declared({b \in Blob : Live(b)}))

\* isMember: only the direct message can go away.
Member(b) == b \in DmBlob => dm

\* The client awaits each reply; it starts the next request of an upload when
\* none of the earlier ones is running, except under "overlap".
Clear(b) == "overlap" \in Faults \/ \A r \in Request : req[r].blob # b

Goto(r, pc) == req' = [req EXCEPT ![r].pc = pc]
End(r) == req' = [req EXCEPT ![r] = Idle]
Unchanged_Disk == UNCHANGED <<onDisk, data>>

----------------------------------------------------------------------------
(* POST /init *)

\* Mutant. The upload that asks is not counted.
Fits_IgnoresNew(b) == Used <= Quota

Fits(b) == Used + Size[b] <= Quota

InitCheck(r, b) ==
    /\ req[r] = Idle
    /\ row[b].status = "absent" /\ \A q \in Request : req[q].blob # b
    /\ Member(b)
    /\ Fits(b)
    /\ req' = [req EXCEPT ![r] = [Idle EXCEPT !.pc = "insert", !.blob = b]]
    /\ UNCHANGED <<row, dm, unlinking>> /\ Unchanged_Disk

\* The INSERT fails on its foreign key when the channel is gone by now.
InitInsert(r) ==
    /\ req[r].pc = "insert"
    /\ End(r)
    /\ row' = IF Member(req[r].blob)
              THEN [row EXCEPT ![req[r].blob].status = "pending"] ELSE row
    /\ UNCHANGED <<dm, unlinking>> /\ Unchanged_Disk

----------------------------------------------------------------------------
(* PUT /:blobId/chunk *)

\* The checks on the row the handler selected; the last two never refuse a
\* client that frames its chunks as it declared them.
Accepts(b, i) ==
    /\ row[b].status = "pending"
    /\ i = row[b].chunks
    /\ row[b].bytes + ChunkLength(b, i) <= Size[b]
    /\ i < Chunks(b)

PutSelect(r, b, i) ==
    /\ req[r] = Idle /\ Clear(b)
    /\ Accepts(b, i)
    /\ req' = [req EXCEPT ![r] =
                [pc |-> "open", blob |-> b, index |-> i, exp |-> row[b].bytes, done |-> 0]]
    /\ UNCHANGED <<row, dm, unlinking>> /\ Unchanged_Disk

\* open(file, "a+") creates what is not there.
PutOpen(r) ==
    /\ req[r].pc = "open"
    /\ onDisk' = onDisk \cup {req[r].blob}
    /\ Goto(r, "stat")
    /\ UNCHANGED <<row, dm, data, unlinking>>

\* Mutant. append without the comparison of sizes.
AfterStat_NoTruncate(size, exp) == "write"

\* Where append goes on, given the size fstat returned.
AfterStat(size, exp) ==
    CASE size > exp -> "truncate"
      [] size < exp -> "idle"       \* "blob shorter than recorded size"
      [] OTHER -> "write"

PutStat(r) ==
    /\ req[r].pc = "stat"
    /\ LET pc == AfterStat(Len(data[req[r].blob]), req[r].exp) IN
        IF pc = "idle" THEN End(r) ELSE Goto(r, pc)
    /\ UNCHANGED <<row, dm, unlinking>> /\ Unchanged_Disk

\* ftruncate also lengthens a file that has become shorter.
Truncated(s, n) == [k \in 1..n |-> IF k <= Len(s) THEN s[k] ELSE 0]

PutTruncate(r) ==
    /\ req[r].pc = "truncate"
    /\ data' = [data EXCEPT ![req[r].blob] = Truncated(@, req[r].exp)]
    /\ Goto(r, "write")
    /\ UNCHANGED <<row, dm, onDisk, unlinking>>

\* The file was opened for appending: a write goes to its end, wherever that is.
PutWrite(r) ==
    LET q == req[r] IN
    /\ q.pc = "write"
    /\ data' = [data EXCEPT ![q.blob] = Append(@, Piece(q.index, q.done + 1))]
    /\ req' = [req EXCEPT ![r] =
                [@ EXCEPT !.done = q.done + 1,
                          !.pc = IF q.done + 1 = ChunkLength(q.blob, q.index)
                                 THEN "update" ELSE "write"]]
    /\ UNCHANGED <<row, dm, onDisk, unlinking>>

\* The UPDATE names the id only; it finds no row that has been deleted.
PutUpdate(r) ==
    LET q == req[r] IN
    /\ q.pc = "update"
    /\ row' = IF Live(q.blob)
              THEN [row EXCEPT ![q.blob] =
                     [@ EXCEPT !.chunks = q.index + 1, !.bytes = q.exp + q.done]]
              ELSE row
    /\ End(r)
    /\ UNCHANGED <<dm, unlinking>> /\ Unchanged_Disk

----------------------------------------------------------------------------
(* POST /:blobId/finish *)

FinishSelect(r, b) ==
    /\ req[r] = Idle /\ Clear(b)
    /\ row[b].status = "pending"
    /\ row[b].chunks = Chunks(b)
    /\ req' = [req EXCEPT ![r] =
                [Idle EXCEPT !.pc = "size", !.blob = b, !.exp = row[b].bytes]]
    /\ UNCHANGED <<row, dm, unlinking>> /\ Unchanged_Disk

\* blobStore.size: 0 when there is no file.
FileSize(b) == IF b \in onDisk THEN Len(data[b]) ELSE 0

FinishSize(r) ==
    LET q == req[r] IN
    /\ q.pc = "size"
    /\ IF FileSize(q.blob) = Size[q.blob] /\ FileSize(q.blob) = q.exp
       THEN Goto(r, "seal") ELSE End(r)
    /\ UNCHANGED <<row, dm, unlinking>> /\ Unchanged_Disk

FinishUpdate(r) ==
    /\ req[r].pc = "seal"
    /\ row' = IF Live(req[r].blob)
              THEN [row EXCEPT ![req[r].blob].status = "complete"] ELSE row
    /\ End(r)
    /\ UNCHANGED <<dm, unlinking>> /\ Unchanged_Disk

----------------------------------------------------------------------------
(* GET /:blobId *)

\* Mutant. Downloads of uploads that are still going on.
Downloadable_Pending(b) == Live(b) /\ Member(b)

Downloadable(b) == row[b].status = "complete" /\ Member(b)

GetSelect(r, b) ==
    /\ req[r] = Idle
    /\ Downloadable(b)
    /\ req' = [req EXCEPT ![r] = [Idle EXCEPT !.pc = "stream", !.blob = b]]
    /\ UNCHANGED <<row, dm, unlinking>> /\ Unchanged_Disk

\* createReadStream opens the file; from then on an unlink does not matter to it.
GetStream(r) ==
    /\ req[r].pc = "stream"
    /\ End(r)
    /\ UNCHANGED <<row, dm, unlinking>> /\ Unchanged_Disk

----------------------------------------------------------------------------
(* The reaper, the end of a direct message, and faults *)

Dropped(S) == [b \in Blob |-> IF b \in S THEN [row[b] EXCEPT !.status = "gone"] ELSE row[b]]

\* The rows that are past expires_at or abandoned: any, at any time.
ReapRows(S) ==
    /\ S # {} /\ \A b \in S : Live(b)
    /\ row' = Dropped(S)
    /\ unlinking' = unlinking \cup S
    /\ UNCHANGED <<dm, req>> /\ Unchanged_Disk

\* A handler that holds the file open goes on with an inode nobody can reach,
\* and its UPDATE finds no row: nothing it does can be seen any more.
ReapUnlink(b) ==
    /\ b \in unlinking
    /\ unlinking' = unlinking \ {b}
    /\ onDisk' = onDisk \ {b}
    /\ data' = [data EXCEPT ![b] = <<>>]
    /\ req' = [r \in Request |->
                IF req[r].blob = b /\ req[r].pc \in {"stat", "truncate", "write", "update"}
                THEN Idle ELSE req[r]]
    /\ UNCHANGED <<row, dm>>

\* leaveChannel deletes a direct message without members; ON DELETE CASCADE
\* takes the rows of its blobs, and nobody unlinks their files.
DmDelete ==
    /\ dm
    /\ dm' = FALSE
    /\ row' = Dropped({b \in DmBlob : Live(b)})
    /\ UNCHANGED <<req, unlinking>> /\ Unchanged_Disk

\* Mutant. The row counts what was written before a write failed.
Fail_Counts(r) ==
    LET q == req[r] IN
    /\ "fail" \in Faults
    /\ q # Idle
    /\ End(r)
    /\ row' = IF q.pc = "write" /\ Live(q.blob)
              THEN [row EXCEPT ![q.blob].bytes = q.exp + q.done] ELSE row
    /\ UNCHANGED <<dm, unlinking>> /\ Unchanged_Disk

Fail(r) ==
    /\ "fail" \in Faults
    /\ req[r] # Idle
    /\ End(r)
    /\ UNCHANGED <<row, dm, unlinking>> /\ Unchanged_Disk

Crash ==
    /\ "crash" \in Faults
    /\ req' = [r \in Request |-> Idle]
    /\ unlinking' = {}
    /\ UNCHANGED <<row, dm>> /\ Unchanged_Disk

Next ==
    \/ \E r \in Request, b \in Blob :
        InitCheck(r, b) \/ FinishSelect(r, b) \/ GetSelect(r, b)
    \/ \E r \in Request, b \in Blob : \E i \in 0..(Chunks(b) - 1) : PutSelect(r, b, i)
    \/ \E r \in Request :
        \/ InitInsert(r)
        \/ PutOpen(r) \/ PutStat(r) \/ PutTruncate(r) \/ PutWrite(r) \/ PutUpdate(r)
        \/ FinishSize(r) \/ FinishUpdate(r)
        \/ GetStream(r)
        \/ Fail(r)
    \/ \E S \in SUBSET Blob : ReapRows(S)
    \/ \E b \in Blob : ReapUnlink(b)
    \/ DmDelete
    \/ Crash

Spec == Init /\ [][Next]_vars

----------------------------------------------------------------------------
(* What must hold *)

Stream(n) == [k \in 1..n |-> k]

\* The counted bytes of an upload are on the disk, in order, each of them once:
\* whatever a chunk that died half-way left behind, the client can go on from
\* /status (schema.sql, bytes_received: "Authoritative for resume").
CountedIsOnDisk ==
    \A b \in Blob : Live(b) =>
        /\ row[b].bytes <= Len(data[b])
        /\ SubSeq(data[b], 1, row[b].bytes) = Stream(row[b].bytes)

\* A sealed attachment is a file that holds its stream and nothing else, as
\* long as its row is there.
CompleteIsWhole ==
    \A b \in Blob : row[b].status = "complete" =>
        b \in onDisk /\ data[b] = Stream(Size[b])

\* A download that finds a file finds the whole attachment in it, whatever
\* became of the row since the handler read it (GET /:blobId).
DownloadIsWhole ==
    \A r \in Request : LET b == req[r].blob IN
        req[r].pc = "stream" /\ b \in onDisk => data[b] = Stream(Size[b])

\* The quota is overrun by no more than what the other handlers at work may
\* have been granted at the same time (POST /init sums, then inserts): as often
\* as there are other handlers, the biggest upload.
QuotaHolds ==
    \A big \in Blob : (\A b \in Blob : Size[b] <= Size[big]) =>
        Used <= Quota + (Cardinality(Request) - 1) * Size[big]

Statuses == [b \in Blob |-> row[b].status]
Counted == [b \in Blob |-> IF Live(b) THEN SubSeq(data[b], 1, row[b].bytes) ELSE <<>>]

Promise == INSTANCE Attachment WITH stage <- Statuses, stored <- Counted

\* The store keeps the promise of Attachment: rows, files, half-written chunks
\* and retries amount to uploads that grow by whole chunks and are sealed whole.
KeepsThePromise == Promise!Spec

=============================================================================
