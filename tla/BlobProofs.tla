----------------------------- MODULE BlobProofs -----------------------------
(* Theorems about BlobStore, for every set of uploads, sizes and handlers.  *)
EXTENDS BlobStore, TLAPS, FiniteSetTheorems

---------------------------------------------------------------------------
(* Type correctness                                                        *)

\* The steps of a handler keep its record in type.
LEMMA HandlerTypes ==
    /\ Idle \in Handler /\ Idle.pc = "idle" /\ Idle.blob = None
    /\ \A q \in Handler : q.pc # "idle" =>
        q.blob \in Blob /\ q.index \in Nat /\ q.exp \in Nat /\ q.done \in Nat
    /\ \A q \in Handler : q.pc # "idle" =>
        /\ \A pc \in Stages : [q EXCEPT !.pc = pc] \in Handler
        /\ \A pc \in Stages, n \in Nat : [q EXCEPT !.done = n, !.pc = pc] \in Handler
    /\ \A b \in Blob, i \in Nat, n \in Nat :
        [pc |-> "open", blob |-> b, index |-> i, exp |-> n, done |-> 0] \in Handler
    /\ \A b \in Blob, pc \in Stages : [Idle EXCEPT !.pc = pc, !.blob = b] \in Handler
    /\ \A b \in Blob, pc \in Stages, n \in Nat :
        [Idle EXCEPT !.pc = pc, !.blob = b, !.exp = n] \in Handler
<1>1. Idle \in Handler /\ Idle.pc = "idle" /\ Idle.blob = None
    BY DEF Handler, Idle
<1>2. ASSUME NEW q \in Handler, q.pc # "idle"
      PROVE  q.blob \in Blob /\ q.index \in Nat /\ q.exp \in Nat /\ q.done \in Nat
    BY <1>2 DEF Handler, Idle
<1>3. ASSUME NEW q \in Handler, q.pc # "idle", NEW pc \in Stages
      PROVE  [q EXCEPT !.pc = pc] \in Handler
    BY <1>3 DEF Handler, Idle
<1>4. ASSUME NEW q \in Handler, q.pc # "idle", NEW pc \in Stages, NEW n \in Nat
      PROVE  [q EXCEPT !.done = n, !.pc = pc] \in Handler
    <2>1. q \in [pc : Stages, blob : Blob, index : Nat, exp : Nat, done : Nat]
        BY <1>4 DEF Handler, Idle
    <2>2. [q EXCEPT !.done = n] \in [pc : Stages, blob : Blob, index : Nat, exp : Nat, done : Nat]
        BY <2>1
    <2>3. QED
        BY <2>2 DEF Handler
<1>5. ASSUME NEW b \in Blob, NEW i \in Nat, NEW n \in Nat
      PROVE  [pc |-> "open", blob |-> b, index |-> i, exp |-> n, done |-> 0] \in Handler
    BY DEF Handler, Stages
<1>6. ASSUME NEW b \in Blob, NEW pc \in Stages
      PROVE  [Idle EXCEPT !.pc = pc, !.blob = b] \in Handler
    BY DEF Handler, Idle
<1>7. ASSUME NEW b \in Blob, NEW pc \in Stages, NEW n \in Nat
      PROVE  [Idle EXCEPT !.pc = pc, !.blob = b, !.exp = n] \in Handler
    BY DEF Handler, Idle
<1>8. QED
    BY <1>1, <1>2, <1>3, <1>4, <1>5, <1>6, <1>7

\* So do the updates of a row.
LEMMA RowTypes ==
    /\ \A w \in Row, s \in {"pending", "complete", "gone"} : [w EXCEPT !.status = s] \in Row
    /\ \A w \in Row, i \in Nat, n \in Nat : [w EXCEPT !.chunks = i, !.bytes = n] \in Row
    /\ [status |-> "absent", chunks |-> 0, bytes |-> 0] \in Row
    /\ \A w \in Row : w.chunks \in Nat /\ w.bytes \in Nat
BY DEF Row

---------------------------------------------------------------------------
(* Chunks and offsets                                                      *)

\* The pieces of the first i chunks.
Upto(b, i) == IF i * Chunk <= Size[b] THEN i * Chunk ELSE Size[b]

LEMMA PieceType == ASSUME NEW i \in Nat, NEW k \in Nat PROVE Piece(i, k) \in Nat
BY ConstantsAssumption DEF Piece

\* declared_chunks is the number of chunks that cover declared_bytes: the
\* chunks before it start inside of the stream, the others do not.
LEMMA ChunksCover ==
    ASSUME NEW b \in Blob, NEW i \in Nat
    PROVE  /\ Chunks(b) \in Nat
           /\ i < Chunks(b) => i * Chunk < Size[b]
           /\ i >= Chunks(b) => i * Chunk >= Size[b]
<1>1. PICK s \in Nat, c \in Nat : s = Size[b] /\ c = Chunk /\ s > 0 /\ c > 0
    BY ConstantsAssumption
<1>2. PICK d \in Nat : d = (s + c - 1) \div c /\ d * c <= s + c - 1 /\ s + c - 1 < d * c + c
    BY <1>1
<1>3. CASE i < d
    <2>1. PICK e \in Nat : d = i + 1 + e
        <3>1. d - (i + 1) \in Nat /\ d = i + 1 + (d - (i + 1))
            BY <1>3, <1>2
        <3>2. QED
            BY <3>1
    <2>2. d * c = i * c + c + e * c /\ e * c >= 0
        BY <2>1, <1>1, <1>2
    <2>3. i * c < s
        BY <2>2, <1>1, <1>2
    <2>4. QED
        BY <1>1, <1>2, <1>3, <2>3 DEF Chunks
<1>4. CASE i >= d
    <2>1. PICK e \in Nat : i = d + e
        BY <1>4, <1>2
    <2>2. i * c = d * c + e * c /\ e * c >= 0
        BY <2>1, <1>1, <1>2
    <2>3. i * c >= s
        BY <2>2, <1>1, <1>2
    <2>4. QED
        BY <1>1, <1>2, <1>4, <2>3 DEF Chunks
<1>5. QED
    BY <1>2, <1>3, <1>4

\* What one more chunk adds.
LEMMA NextChunk ==
    ASSUME NEW b \in Blob, NEW i \in Nat, i < Chunks(b)
    PROVE  /\ Upto(b, i) = i * Chunk /\ i * Chunk \in Nat
           /\ ChunkLength(b, i) \in 1..Chunk
           /\ Upto(b, i + 1) = i * Chunk + ChunkLength(b, i)
           /\ Upto(b, i + 1) <= Size[b]
           /\ Upto(b, i + 1) = Size[b] \/ ChunkLength(b, i) = Chunk
<1>1. PICK s \in Nat, c \in Nat : s = Size[b] /\ c = Chunk /\ s > 0 /\ c > 0
    BY ConstantsAssumption
<1>2. PICK o \in Nat : o = i * c /\ o < s /\ (i + 1) * c = o + c
    BY <1>1, ChunksCover
<1>3. QED
    BY <1>1, <1>2 DEF Upto, ChunkLength

\* Whatever is truncated or appended to is a sequence of numbers.
LEMMA FileTypes ==
    ASSUME NEW s \in Seq(Nat), NEW n \in Nat
    PROVE  /\ Truncated(s, n) \in Seq(Nat) /\ Len(Truncated(s, n)) = n
           /\ \A k \in 1..n : Truncated(s, n)[k] = IF k <= Len(s) THEN s[k] ELSE 0
           /\ Append(s, n) \in Seq(Nat)
<1>1. Truncated(s, n) \in [1..n -> Nat]
    BY DEF Truncated
<1>2. QED
    BY <1>1 DEF Truncated

LEMMA TypeInit == Init => TypeOK
<1> SUFFICES ASSUME Init PROVE TypeOK
    OBVIOUS
<1>1. row \in [Blob -> Row] /\ req \in [Request -> Handler]
    BY HandlerTypes, RowTypes DEF Init
<1>2. data \in [Blob -> Seq(Nat)]
    BY DEF Init
<1>3. QED
    BY <1>1, <1>2 DEF Init, TypeOK

LEMMA TypeStep == TypeOK /\ [Next]_vars => TypeOK'
<1> SUFFICES ASSUME TypeOK, [Next]_vars PROVE TypeOK'
    OBVIOUS
<1> USE DEF TypeOK, Goto, End, Unchanged_Disk
<1>1. ASSUME NEW r \in Request, NEW b \in Blob, InitCheck(r, b) PROVE TypeOK'
    BY <1>1, HandlerTypes, RowTypes, ZenonT(60) DEF InitCheck, Stages
<1>2. ASSUME NEW r \in Request, NEW b \in Blob, FinishSelect(r, b) PROVE TypeOK'
    BY <1>2, HandlerTypes, RowTypes, ZenonT(60) DEF FinishSelect, Stages
<1>3. ASSUME NEW r \in Request, NEW b \in Blob, GetSelect(r, b) PROVE TypeOK'
    BY <1>3, HandlerTypes, RowTypes DEF GetSelect, Stages
<1>4. ASSUME NEW r \in Request, NEW b \in Blob, NEW i \in Nat, PutSelect(r, b, i)
      PROVE  TypeOK'
    BY <1>4, HandlerTypes, RowTypes DEF PutSelect
<1>5. ASSUME NEW r \in Request, InitInsert(r) PROVE TypeOK'
    BY <1>5, HandlerTypes, RowTypes, ZenonT(60) DEF InitInsert
<1>6. ASSUME NEW r \in Request, PutOpen(r) PROVE TypeOK'
    BY <1>6, HandlerTypes, RowTypes DEF PutOpen, Stages
<1>7. ASSUME NEW r \in Request, PutStat(r) PROVE TypeOK'
    <2>1. req[r] \in Handler /\ req[r].pc # "idle"
        BY <1>7 DEF PutStat
    <2>2. AfterStat(Len(data[req[r].blob]), req[r].exp) \in Stages \cup {"idle"}
        BY DEF AfterStat, Stages
    <2>3. req' \in [Request -> Handler]
        BY <1>7, <2>1, <2>2, HandlerTypes, ZenonT(60) DEF PutStat
    <2>4. QED
        BY <1>7, <2>3 DEF PutStat
<1>8. ASSUME NEW r \in Request, PutTruncate(r) PROVE TypeOK'
    <2>1. data' \in [Blob -> Seq(Nat)]
        BY <1>8, HandlerTypes, RowTypes, FileTypes DEF PutTruncate
    <2>2. QED
        BY <1>8, <2>1, HandlerTypes, RowTypes DEF PutTruncate, Stages
<1>9. ASSUME NEW r \in Request, PutWrite(r) PROVE TypeOK'
    <2>1. req[r] \in Handler /\ req[r].pc # "idle"
        BY <1>9 DEF PutWrite
    <2>2. req[r].blob \in Blob /\ req[r].index \in Nat /\ req[r].done \in Nat
        BY <2>1, HandlerTypes
    <2>3. Piece(req[r].index, req[r].done + 1) \in Nat
        <3>1. req[r].done + 1 \in Nat
            BY <2>2
        <3>2. QED
            BY <2>2, <3>1, PieceType
    <2>4. data' \in [Blob -> Seq(Nat)]
        BY <1>9, <2>2, <2>3, FileTypes DEF PutWrite
    <2>5. PICK pc \in Stages :
            req' = [req EXCEPT ![r] = [req[r] EXCEPT !.done = req[r].done + 1, !.pc = pc]]
        BY <1>9 DEF PutWrite, Stages
    <2>6. req' \in [Request -> Handler]
        <3>1. req[r].done + 1 \in Nat
            BY <2>2
        <3>2. [req[r] EXCEPT !.done = req[r].done + 1, !.pc = pc] \in Handler
            BY <2>1, <3>1, HandlerTypes
        <3>3. QED
            BY <2>5, <3>2
    <2>7. QED
        BY <1>9, <2>4, <2>6 DEF PutWrite
<1>10. ASSUME NEW r \in Request, PutUpdate(r) PROVE TypeOK'
    <2>1. req[r] \in Handler /\ req[r].pc # "idle"
        BY <1>10 DEF PutUpdate
    <2>2. /\ req[r].blob \in Blob /\ req[r].index \in Nat
          /\ req[r].exp \in Nat /\ req[r].done \in Nat
        BY <2>1, HandlerTypes
    <2>3. req[r].index + 1 \in Nat /\ req[r].exp + req[r].done \in Nat
        BY <2>2
    <2>4. row' \in [Blob -> Row]
        BY <1>10, <2>2, <2>3, RowTypes DEF PutUpdate
    <2>5. QED
        BY <1>10, <2>4, HandlerTypes DEF PutUpdate
<1>11. ASSUME NEW r \in Request, FinishSize(r) PROVE TypeOK'
    <2>1. req[r] \in Handler /\ req[r].pc # "idle"
        BY <1>11, SMTT(30) DEF FinishSize
    <2>2. req' \in [Request -> Handler]
        BY <1>11, <2>1, HandlerTypes DEF FinishSize, Stages
    <2>3. QED
        BY <1>11, <2>2 DEF FinishSize
<1>12. ASSUME NEW r \in Request, FinishUpdate(r) PROVE TypeOK'
    BY <1>12, HandlerTypes, RowTypes DEF FinishUpdate
<1>13. ASSUME NEW r \in Request, GetStream(r) PROVE TypeOK'
    BY <1>13, HandlerTypes, RowTypes DEF GetStream
<1>14. ASSUME NEW r \in Request, Fail(r) PROVE TypeOK'
    BY <1>14, HandlerTypes, RowTypes DEF Fail
<1>15. ASSUME NEW S \in SUBSET Blob, ReapRows(S) PROVE TypeOK'
    BY <1>15, HandlerTypes, RowTypes DEF ReapRows, Dropped
<1>16. ASSUME NEW b \in Blob, ReapUnlink(b) PROVE TypeOK'
    <2>1. req' \in [Request -> Handler]
        BY <1>16, HandlerTypes DEF ReapUnlink
    <2>2. data' \in [Blob -> Seq(Nat)]
        <3>1. <<>> \in Seq(Nat)
            OBVIOUS
        <3>2. QED
            BY <1>16, <3>1 DEF ReapUnlink
    <2>3. QED
        BY <1>16, <2>1, <2>2 DEF ReapUnlink
<1>17. CASE DmDelete
    BY <1>17, HandlerTypes, RowTypes DEF DmDelete, Dropped
<1>18. CASE Crash
    BY <1>18, HandlerTypes, RowTypes DEF Crash
<1>19. CASE UNCHANGED vars
    BY <1>19 DEF vars
<1>20. QED
    <2>1. ASSUME NEW b \in Blob PROVE 0..(Chunks(b) - 1) \subseteq Nat
        OBVIOUS
    <2>2. QED
        BY <2>1, <1>1, <1>2, <1>3, <1>4, <1>5, <1>6, <1>7, <1>8, <1>9, <1>10, <1>11, <1>12,
           <1>13, <1>14, <1>15, <1>16, <1>17, <1>18, <1>19 DEF Next

\* TypeOK: every variable of the store keeps its type.
THEOREM TypeCorrect == Spec => []TypeOK
<1>1. QED
    BY TypeInit, TypeStep, PTL DEF Spec

---------------------------------------------------------------------------
(* The inductive invariant                                                 *)

Appending == {"stat", "truncate", "write", "update"}
Writing == {"open"} \cup Appending
Working == {"insert", "size", "seal"} \cup Writing

\* What the disk holds of an upload, by the status of its row.
RowInv(b) ==
    /\ b \notin onDisk => data[b] = <<>>
    /\ row[b].status = "absent" => row[b].chunks = 0 /\ row[b].bytes = 0
    /\ row[b].status = "pending" =>
        /\ row[b].bytes = Upto(b, row[b].chunks)
        /\ row[b].bytes <= Len(data[b])
        /\ \A k \in 1..row[b].bytes : data[b][k] = k
    /\ row[b].status = "complete" =>
        row[b].bytes = Size[b] /\ b \in onDisk /\ data[b] = Stream(Size[b])
    /\ b \in unlinking => row[b].status = "gone"

\* Where a handler stands, relative to the row it has read and to the file.
ReqInv(r) ==
    LET q == req[r]
        b == q.blob
    IN
    /\ q.pc = "insert" => row[b].status = "absent"
    /\ q.pc \in Working \ {"insert"} => row[b].status \in {"pending", "gone"}
    /\ q.pc \in Writing => q.index < Chunks(b) /\ q.exp = q.index * Chunk
    /\ q.pc \in Writing /\ row[b].status = "pending" => row[b].chunks = q.index
    /\ q.pc \in Appending => b \in onDisk
    /\ q.pc \in {"open", "stat", "truncate"} => q.done = 0
    /\ q.pc = "write" => q.done < ChunkLength(b, q.index)
    /\ q.pc = "update" => q.done = ChunkLength(b, q.index)
    /\ q.pc \in {"write", "update"} /\ row[b].status = "pending" =>
        data[b] = Stream(q.exp + q.done)
    /\ q.pc \in {"size", "seal"} /\ row[b].status = "pending" =>
        row[b].bytes = q.exp
    /\ q.pc = "seal" /\ row[b].status = "pending" =>
        b \in onDisk /\ q.exp = Size[b] /\ data[b] = Stream(Size[b])
    /\ q.pc = "stream" =>
        /\ row[b].status \in {"complete", "gone"}
        /\ b \in onDisk => data[b] = Stream(Size[b])

\* A handler that works on an upload has it for itself.
Alone ==
    \A r \in Request : req[r].pc \in Working =>
        \A s \in Request \ {r} : req[s].blob # req[r].blob

FileInv ==
    /\ \A b \in Blob : RowInv(b)
    /\ \A r \in Request : ReqInv(r)
    /\ Alone

\* A file with the right pieces in the right places is the stream.
LEMMA StreamFacts ==
    ASSUME NEW n \in Nat
    PROVE  /\ Stream(n) \in Seq(Nat) /\ Len(Stream(n)) = n
           /\ \A k \in 1..n : Stream(n)[k] = k
           /\ Append(Stream(n), n + 1) = Stream(n + 1)
           /\ \A s \in Seq(Nat) :
                Len(s) = n /\ (\A k \in 1..n : s[k] = k) => s = Stream(n)
<1>1. Stream(n) \in [1..n -> Nat] /\ Stream(n + 1) \in [1..(n + 1) -> Nat]
    BY DEF Stream
<1>2. Stream(n) \in Seq(Nat) /\ Len(Stream(n)) = n
      /\ Stream(n + 1) \in Seq(Nat) /\ Len(Stream(n + 1)) = n + 1
    BY <1>1
<1>3. \A k \in 1..n : Stream(n)[k] = k
    BY DEF Stream
<1>4. Append(Stream(n), n + 1) = Stream(n + 1)
    <2>1. Append(Stream(n), n + 1) \in Seq(Nat) /\ Len(Append(Stream(n), n + 1)) = n + 1
        BY <1>2
    <2>2. ASSUME NEW k \in 1..(n + 1)
          PROVE  Append(Stream(n), n + 1)[k] = Stream(n + 1)[k]
        BY <1>2, <1>3 DEF Stream
    <2>3. QED
        BY <1>2, <2>1, <2>2
<1>5. ASSUME NEW s \in Seq(Nat), Len(s) = n, \A k \in 1..n : s[k] = k
      PROVE  s = Stream(n)
    BY <1>2, <1>3, <1>5
<1>6. QED
    BY <1>2, <1>3, <1>4, <1>5

\* A step of one handler on its own upload leaves the others where they are.
LEMMA Others ==
    ASSUME TypeOK, FileInv,
           NEW r \in Request, NEW b \in Blob,
           \A s \in Request \ {r} : req[s].blob # b /\ req'[s] = req[s],
           \A c \in Blob \ {b} :
                row'[c] = row[c] /\ data'[c] = data[c] /\ (c \in onDisk' <=> c \in onDisk),
           unlinking' = unlinking,
           req'[r] = Idle \/ req'[r].blob = b,
           RowInv(b)', ReqInv(r)'
    PROVE  FileInv'
<1>1. ASSUME NEW c \in Blob, c # b PROVE RowInv(c)'
    <2>1. /\ row'[c] = row[c] /\ data'[c] = data[c]
          /\ (c \in onDisk' <=> c \in onDisk) /\ (c \in unlinking' <=> c \in unlinking)
        BY <1>1
    <2>2. RowInv(c)
        BY DEF FileInv
    <2>3. QED
        BY <2>1, <2>2 DEF RowInv
<1>2. ASSUME NEW s \in Request, s # r PROVE ReqInv(s)'
    <2>1. CASE req[s].pc = "idle"
        BY <1>2, <2>1 DEF ReqInv, Working, Writing, Appending
    <2>2. CASE req[s].pc # "idle"
        <3>1. req[s].blob \in Blob \ {b} /\ req'[s] = req[s]
            BY <1>2, <2>2, HandlerTypes DEF TypeOK
        <3>2. PICK c \in Blob \ {b} : c = req[s].blob
            BY <3>1
        <3>3. row'[c] = row[c] /\ data'[c] = data[c] /\ (c \in onDisk' <=> c \in onDisk)
            OBVIOUS
        <3>4. ReqInv(s)
            BY DEF FileInv
        <3>5. QED
            BY <3>1, <3>2, <3>3, <3>4 DEF ReqInv
    <2>3. QED
        BY <2>1, <2>2
<1>3. Alone'
    <2>1. ASSUME NEW s \in Request, req'[s].pc \in Working, NEW t \in Request \ {s}
          PROVE  req'[t].blob # req'[s].blob
        <3>1. CASE s # r /\ t # r
            BY <2>1, <3>1 DEF FileInv, Alone
        <3>2. CASE s = r
            BY <2>1, <3>2, HandlerTypes DEF Working, Writing, Appending
        <3>3. CASE t = r
            <4>1. req[s] \in Handler /\ req[s].pc # "idle" /\ req'[s] = req[s]
                BY <2>1, <3>3 DEF Working, Writing, Appending, TypeOK
            <4>2. QED
                BY <2>1, <3>3, <4>1, HandlerTypes, ConstantsAssumption
        <3>4. QED
            BY <3>1, <3>2, <3>3
    <2>2. QED
        BY <2>1 DEF Alone
<1>4. QED
    BY <1>1, <1>2, <1>3 DEF FileInv

\* Handlers that end, or die, leave the rest as it was.
LEMMA Endings ==
    ASSUME TypeOK, FileInv,
           row' = row, data' = data, onDisk' = onDisk, unlinking' \subseteq unlinking,
           \A s \in Request : req'[s] = req[s] \/ req'[s] = Idle
    PROVE  FileInv'
<1>1. ASSUME NEW c \in Blob PROVE RowInv(c)'
    BY DEF FileInv, RowInv
<1>2. ASSUME NEW s \in Request PROVE ReqInv(s)'
    <2>1. CASE req'[s] = req[s]
        BY <2>1 DEF FileInv, ReqInv
    <2>2. CASE req'[s] = Idle
        BY <2>2, HandlerTypes DEF ReqInv, Working, Writing, Appending
    <2>3. QED
        BY <2>1, <2>2
<1>3. Alone'
    <2>1. ASSUME NEW s \in Request, req'[s].pc \in Working, NEW t \in Request \ {s}
          PROVE  req'[t].blob # req'[s].blob
        <3>1. req'[s] = req[s] /\ req[s] \in Handler /\ req[s].pc # "idle"
            BY <2>1, HandlerTypes DEF Working, Writing, Appending, TypeOK
        <3>2. req[s].blob \in Blob
            BY <3>1, HandlerTypes
        <3>3. QED
            BY <2>1, <3>1, <3>2, HandlerTypes, ConstantsAssumption DEF FileInv, Alone
    <2>2. QED
        BY <2>1 DEF Alone
<1>4. QED
    BY <1>1, <1>2, <1>3 DEF FileInv

\* Rows that are deleted take no file with them, and the handlers notice.
LEMMA Deletions ==
    ASSUME TypeOK, FileInv, NEW S \in SUBSET Blob, \A b \in S : Live(b),
           row' = Dropped(S), unlinking' \subseteq unlinking \cup S,
           UNCHANGED <<data, onDisk, req>>
    PROVE  FileInv'
<1>1. ASSUME NEW c \in Blob
      PROVE  /\ c \in S => row'[c].status = "gone" /\ row[c].status \in {"pending", "complete"}
             /\ c \notin S => row'[c] = row[c]
    BY DEF Dropped, Live, TypeOK, Row
<1>2. ASSUME NEW c \in Blob PROVE RowInv(c)'
    <2>1. RowInv(c)
        BY DEF FileInv
    <2>2. CASE c \in S
        BY <1>1, <2>1, <2>2 DEF RowInv
    <2>3. CASE c \notin S
        BY <1>1, <2>1, <2>3 DEF RowInv
    <2>4. QED
        BY <2>2, <2>3
<1>3. ASSUME NEW s \in Request PROVE ReqInv(s)'
    <2>1. CASE req[s].pc = "idle"
        BY <2>1 DEF ReqInv, Working, Writing, Appending
    <2>2. CASE req[s].pc # "idle"
        <3>1. req[s].blob \in Blob /\ ReqInv(s)
            BY <2>2, HandlerTypes DEF TypeOK, FileInv
        <3>2. CASE req[s].blob \in S
            BY <1>1, <3>1, <3>2 DEF ReqInv
        <3>3. CASE req[s].blob \notin S
            BY <1>1, <3>1, <3>3 DEF ReqInv
        <3>4. QED
            BY <3>2, <3>3
    <2>3. QED
        BY <2>1, <2>2
<1>4. Alone'
    BY DEF FileInv, Alone
<1>5. QED
    BY <1>2, <1>3, <1>4 DEF FileInv

LEMMA FileInit == Init => FileInv
<1> SUFFICES ASSUME Init PROVE FileInv
    OBVIOUS
<1>1. ASSUME NEW b \in Blob PROVE RowInv(b)
    BY DEF Init, RowInv
<1>2. ASSUME NEW r \in Request PROVE ReqInv(r)
    BY HandlerTypes DEF Init, ReqInv, Working, Writing, Appending
<1>3. Alone
    BY HandlerTypes DEF Init, Alone, Working, Writing, Appending
<1>4. QED
    BY <1>1, <1>2, <1>3 DEF FileInv

---------------------------------------------------------------------------
(* The steps of a handler keep the invariant                               *)

\* A handler that is at work has its upload for itself.
LEMMA Exclusive ==
    ASSUME TypeOK, FileInv, NEW r \in Request, req[r].pc \in Working
    PROVE  /\ req[r] \in Handler /\ req[r].blob \in Blob
           /\ req[r].index \in Nat /\ req[r].exp \in Nat /\ req[r].done \in Nat
           /\ \A s \in Request \ {r} : req[s].blob # req[r].blob
           /\ RowInv(req[r].blob) /\ ReqInv(r)
<1>1. req[r] \in Handler /\ req[r].pc # "idle"
    BY DEF TypeOK, Working, Writing, Appending
<1>2. QED
    BY <1>1, HandlerTypes DEF FileInv, Alone

\* POST /init.
LEMMA InitSteps ==
    ASSUME TypeOK, FileInv, NEW r \in Request
    PROVE  /\ \A b \in Blob : InitCheck(r, b) => FileInv'
           /\ InitInsert(r) => FileInv'
<1> USE DEF Goto, End, Unchanged_Disk
<1>1. ASSUME NEW b \in Blob, InitCheck(r, b) PROVE FileInv'
    <2>1. req'[r] = [Idle EXCEPT !.pc = "insert", !.blob = b]
        BY <1>1 DEF InitCheck, TypeOK
    <2>2. req'[r].pc = "insert" /\ req'[r].blob = b
        BY <2>1 DEF Idle
    <2>3. ReqInv(r)'
        BY <1>1, <2>2 DEF InitCheck, ReqInv, Working, Writing, Appending
    <2>4. RowInv(b)'
        BY <1>1 DEF InitCheck, FileInv, RowInv
    <2>5. \A s \in Request \ {r} : req[s].blob # b /\ req'[s] = req[s]
        BY <1>1 DEF InitCheck, TypeOK
    <2>6. QED
        BY <1>1, <2>2, <2>3, <2>4, <2>5, Others DEF InitCheck
<1>2. ASSUME InitInsert(r) PROVE FileInv'
    <2> DEFINE b == req[r].blob
    <2>0. req[r].pc \in Working /\ req[r].pc = "insert"
        BY <1>2 DEF InitInsert, Working
    <2>1. PICK c \in Blob : c = b /\ RowInv(c) /\ row[c].status = "absent"
                            /\ \A s \in Request \ {r} : req[s].blob # c
        BY <2>0, Exclusive DEF ReqInv
    <2>2. req' = [req EXCEPT ![r] = Idle] /\ req'[r] = Idle
        BY <1>2 DEF InitInsert, TypeOK
    <2>3. ReqInv(r)'
        BY <2>2, HandlerTypes DEF ReqInv, Working, Writing, Appending
    <2>4. row' = row \/ row' = [row EXCEPT ![c].status = "pending"]
        BY <1>2, <2>1 DEF InitInsert
    <2>5. row'[c] = row[c] \/ row'[c] = [row[c] EXCEPT !.status = "pending"]
        BY <2>4 DEF TypeOK
    <2>6. RowInv(c)'
        <3>1. Upto(c, 0) = 0
            BY ConstantsAssumption DEF Upto
        <3>2. row[c] \in Row /\ data[c] \in Seq(Nat)
            BY DEF TypeOK
        <3>3. row'[c].chunks = 0 /\ row'[c].bytes = 0 /\ row'[c].status \in {"absent", "pending"}
            BY <2>1, <2>5, <3>2 DEF RowInv, Row
        <3>4. QED
            BY <1>2, <2>1, <3>1, <3>2, <3>3 DEF InitInsert, RowInv
    <2>7. \A d \in Blob \ {c} : row'[d] = row[d]
        BY <2>4 DEF TypeOK
    <2>8. QED
        BY <1>2, <2>1, <2>2, <2>3, <2>6, <2>7, Others DEF InitInsert
<1>3. QED
    BY <1>1, <1>2

\* PUT /:blobId/chunk, up to the write.
LEMMA PutSteps ==
    ASSUME TypeOK, FileInv, "overlap" \notin Faults, NEW r \in Request
    PROVE  /\ \A b \in Blob, i \in Nat : PutSelect(r, b, i) => FileInv'
           /\ PutOpen(r) => FileInv'
           /\ PutStat(r) => FileInv'
           /\ PutTruncate(r) => FileInv'
<1> USE DEF Goto, End, Unchanged_Disk
<1>1. ASSUME NEW b \in Blob, NEW i \in Nat, PutSelect(r, b, i) PROVE FileInv'
    <2>1. /\ req'[r].pc = "open" /\ req'[r].blob = b /\ req'[r].index = i
          /\ req'[r].exp = row[b].bytes /\ req'[r].done = 0
        BY <1>1 DEF PutSelect, TypeOK
    <2>2. row[b].status = "pending" /\ i = row[b].chunks /\ i < Chunks(b)
        BY <1>1 DEF PutSelect, Accepts
    <2>3. RowInv(b) /\ RowInv(b)'
        BY <1>1 DEF PutSelect, FileInv, RowInv
    <2>4. row[b].bytes = i * Chunk
        BY <2>2, <2>3, NextChunk DEF RowInv
    <2>5. ReqInv(r)'
        BY <1>1, <2>1, <2>2, <2>4 DEF PutSelect, ReqInv, Working, Writing, Appending
    <2>6. \A s \in Request \ {r} : req[s].blob # b /\ req'[s] = req[s]
        BY <1>1 DEF PutSelect, Clear, TypeOK
    <2>7. QED
        BY <1>1, <2>1, <2>3, <2>5, <2>6, Others DEF PutSelect
<1>2. ASSUME PutOpen(r) PROVE FileInv'
    <2>0. req[r].pc \in Working /\ req[r].pc = "open"
        BY <1>2 DEF PutOpen, Working, Writing
    <2>1. PICK c \in Blob : c = req[r].blob /\ RowInv(c)
                            /\ \A s \in Request \ {r} : req[s].blob # c
        BY <2>0, Exclusive
    <2>2. req[r] \in Handler /\ ReqInv(r)
        BY <2>0, Exclusive
    <2>3. req'[r] = [req[r] EXCEPT !.pc = "stat"]
        BY <1>2 DEF PutOpen, TypeOK
    <2>4. /\ req'[r].pc = "stat" /\ req'[r].blob = c /\ req'[r].index = req[r].index
          /\ req'[r].exp = req[r].exp /\ req'[r].done = req[r].done
        BY <2>1, <2>2, <2>3 DEF Handler, Idle
    <2>5. ReqInv(r)'
        BY <1>2, <2>0, <2>1, <2>2, <2>4 DEF PutOpen, ReqInv, Working, Writing, Appending
    <2>6. RowInv(c)'
        BY <1>2, <2>1 DEF PutOpen, RowInv
    <2>7. QED
        BY <1>2, <2>1, <2>4, <2>5, <2>6, Others DEF PutOpen, TypeOK
<1>3. ASSUME PutStat(r) PROVE FileInv'
    <2>0. req[r].pc \in Working /\ req[r].pc = "stat"
        BY <1>3 DEF PutStat, Working, Writing, Appending
    <2>1. PICK c \in Blob : c = req[r].blob /\ RowInv(c)
                            /\ \A s \in Request \ {r} : req[s].blob # c
        BY <2>0, Exclusive
    <2>2. req[r] \in Handler /\ ReqInv(r) /\ req[r].index \in Nat /\ req[r].exp \in Nat
        BY <2>0, Exclusive
    <2>3. data[c] \in Seq(Nat) /\ Len(data[c]) \in Nat
        BY DEF TypeOK
    <2>4. CASE req'[r] = Idle /\ \A s \in Request \ {r} : req'[s] = req[s]
        BY <1>3, <2>4, Endings DEF PutStat
    <2>5. CASE req' = [req EXCEPT ![r].pc = "truncate"]
        <3>1. /\ req'[r].pc = "truncate" /\ req'[r].blob = c /\ req'[r].index = req[r].index
              /\ req'[r].exp = req[r].exp /\ req'[r].done = req[r].done
            BY <2>1, <2>2, <2>5 DEF Handler, Idle, TypeOK
        <3>2. ReqInv(r)' /\ RowInv(c)'
            BY <1>3, <2>0, <2>1, <2>2, <3>1
               DEF PutStat, ReqInv, RowInv, Working, Writing, Appending
        <3>3. QED
            BY <1>3, <2>1, <2>5, <3>1, <3>2, Others DEF PutStat, TypeOK
    <2>6. CASE req' = [req EXCEPT ![r].pc = "write"] /\ Len(data[c]) = req[r].exp
        <3>1. /\ req'[r].pc = "write" /\ req'[r].blob = c /\ req'[r].index = req[r].index
              /\ req'[r].exp = req[r].exp /\ req'[r].done = 0
            BY <2>0, <2>1, <2>2, <2>6 DEF Handler, Idle, TypeOK, ReqInv
        <3>2. /\ req[r].index < Chunks(c) /\ req[r].exp = req[r].index * Chunk
              /\ c \in onDisk
              /\ row[c].status \in {"pending", "gone"}
              /\ row[c].status = "pending" => row[c].chunks = req[r].index
            BY <2>0, <2>1, <2>2 DEF ReqInv, Working, Writing, Appending
        <3>3. ChunkLength(c, req[r].index) \in 1..Chunk /\ Upto(c, req[r].index) = req[r].exp
            BY <2>2, <3>2, NextChunk
        <3>4. ASSUME row[c].status = "pending" PROVE data[c] = Stream(req[r].exp + 0)
            <4>1. row[c].bytes = req[r].exp /\ \A k \in 1..req[r].exp : data[c][k] = k
                BY <2>1, <3>2, <3>3, <3>4 DEF RowInv
            <4>2. data[c] = Stream(req[r].exp)
                BY <2>2, <2>3, <2>6, <4>1, StreamFacts
            <4>3. QED
                BY <2>2, <4>2
        <3>5. 0 < ChunkLength(c, req[r].index)
            BY <3>3, ConstantsAssumption
        <3>6. UNCHANGED <<row, data, onDisk, unlinking>>
            BY <1>3 DEF PutStat
        <3>7. ReqInv(r)' /\ RowInv(c)'
            BY <2>1, <3>1, <3>2, <3>4, <3>5, <3>6
               DEF ReqInv, RowInv, Working, Writing, Appending
        <3>8. QED
            BY <2>1, <2>6, <3>1, <3>6, <3>7, Others DEF TypeOK
    <2>7. QED
        <3>1. \/ Len(data[c]) = req[r].exp
              \/ AfterStat(Len(data[c]), req[r].exp) \in {"truncate", "idle"}
            BY <2>2, <2>3 DEF AfterStat
        <3>2. Len(data[c]) = req[r].exp => AfterStat(Len(data[c]), req[r].exp) = "write"
            BY <2>2, <2>3 DEF AfterStat
        <3>3. QED
            BY <1>3, <2>1, <2>4, <2>5, <2>6, <3>1, <3>2 DEF PutStat, TypeOK
<1>4. ASSUME PutTruncate(r) PROVE FileInv'
    <2>0. req[r].pc \in Working /\ req[r].pc = "truncate"
        BY <1>4 DEF PutTruncate, Working, Writing, Appending
    <2>1. PICK c \in Blob : c = req[r].blob /\ RowInv(c)
                            /\ \A s \in Request \ {r} : req[s].blob # c
        BY <2>0, Exclusive
    <2>2. req[r] \in Handler /\ ReqInv(r) /\ req[r].index \in Nat /\ req[r].exp \in Nat
        BY <2>0, Exclusive
    <2>3. data[c] \in Seq(Nat)
        BY DEF TypeOK
    <2>4. /\ req[r].index < Chunks(c) /\ req[r].exp = req[r].index * Chunk
          /\ c \in onDisk
          /\ row[c].status \in {"pending", "gone"}
          /\ row[c].status = "pending" => row[c].chunks = req[r].index
        BY <2>0, <2>1, <2>2 DEF ReqInv, Working, Writing, Appending
    <2>5. ChunkLength(c, req[r].index) \in 1..Chunk /\ Upto(c, req[r].index) = req[r].exp
        BY <2>2, <2>4, NextChunk
    <2>6. req'[r] = [req[r] EXCEPT !.pc = "write"]
        BY <1>4 DEF PutTruncate, TypeOK
    <2>7. /\ req'[r].pc = "write" /\ req'[r].blob = c /\ req'[r].index = req[r].index
          /\ req'[r].exp = req[r].exp /\ req'[r].done = 0
        BY <2>0, <2>1, <2>2, <2>6 DEF Handler, Idle, ReqInv
    <2>8. data'[c] = Truncated(data[c], req[r].exp)
        BY <1>4, <2>1 DEF PutTruncate, TypeOK
    <2>9. ASSUME row[c].status = "pending"
          PROVE  data'[c] = Stream(req[r].exp + 0) /\ row[c].bytes = req[r].exp
        <3>1. row[c].bytes = req[r].exp /\ req[r].exp <= Len(data[c])
              /\ \A k \in 1..req[r].exp : data[c][k] = k
            BY <2>1, <2>4, <2>5, <2>9 DEF RowInv
        <3>2. PICK n \in Nat, t \in Seq(Nat) :
                /\ n = req[r].exp /\ t = Truncated(data[c], n) /\ Len(t) = n
                /\ \A k \in 1..n : t[k] = IF k <= Len(data[c]) THEN data[c][k] ELSE 0
            BY <2>2, <2>3, FileTypes, ZenonT(60)
        <3>3. data'[c] = Stream(req[r].exp)
            <4>1. Len(data[c]) \in Nat
                BY <2>3
            <4>2. \A k \in 1..n : t[k] = k
                BY <3>1, <3>2, <4>1
            <4>3. t = Stream(n)
                BY <3>2, <4>2, StreamFacts
            <4>4. QED
                BY <2>8, <3>2, <4>3
        <3>4. QED
            BY <2>2, <3>1, <3>3
    <2>10. 0 < ChunkLength(c, req[r].index)
        BY <2>5, ConstantsAssumption
    <2>11. UNCHANGED <<row, onDisk, unlinking>>
        BY <1>4 DEF PutTruncate
    <2>12. ReqInv(r)'
        BY <2>4, <2>7, <2>9, <2>10, <2>11 DEF ReqInv, Working, Writing, Appending
    <2>13. RowInv(c)'
        <3>1. ASSUME row[c].status = "pending"
              PROVE  /\ row[c].bytes <= Len(data'[c])
                     /\ \A k \in 1..row[c].bytes : data'[c][k] = k
            <4>1. data'[c] = Stream(req[r].exp) /\ row[c].bytes = req[r].exp
                BY <2>2, <2>9, <3>1
            <4>2. QED
                BY <2>2, <4>1, StreamFacts
        <3>2. QED
            BY <2>1, <2>4, <2>11, <3>1 DEF RowInv
    <2>14. QED
        BY <1>4, <2>1, <2>7, <2>11, <2>12, <2>13, Others DEF PutTruncate, TypeOK
<1>5. QED
    BY <1>1, <1>2, <1>3, <1>4

\* PUT /:blobId/chunk: the write and the count.
LEMMA WriteSteps ==
    ASSUME TypeOK, FileInv, NEW r \in Request
    PROVE  (PutWrite(r) => FileInv') /\ (PutUpdate(r) => FileInv')
<1>1. ASSUME PutWrite(r) PROVE FileInv'
    <2>0. req[r].pc \in Working /\ req[r].pc = "write"
        BY <1>1 DEF PutWrite, Working, Writing, Appending
    <2>1. PICK c \in Blob : c = req[r].blob /\ RowInv(c)
                            /\ \A s \in Request \ {r} : req[s].blob # c
        BY <2>0, Exclusive
    <2>2. /\ req[r] \in Handler /\ ReqInv(r)
          /\ req[r].index \in Nat /\ req[r].exp \in Nat /\ req[r].done \in Nat
        BY <2>0, Exclusive
    <2>3. /\ req[r].index < Chunks(c) /\ req[r].exp = req[r].index * Chunk
          /\ c \in onDisk
          /\ row[c].status \in {"pending", "gone"}
          /\ row[c].status = "pending" => row[c].chunks = req[r].index
          /\ req[r].done < ChunkLength(c, req[r].index)
          /\ row[c].status = "pending" => data[c] = Stream(req[r].exp + req[r].done)
        BY <2>0, <2>1, <2>2 DEF ReqInv, Working, Writing, Appending
    <2>4. ChunkLength(c, req[r].index) \in 1..Chunk /\ Upto(c, req[r].index) = req[r].exp
        BY <2>2, <2>3, NextChunk
    <2>5. PICK n \in Nat : n = req[r].exp + req[r].done
        BY <2>2
    <2>6. Piece(req[r].index, req[r].done + 1) = n + 1
        <3>1. Piece(req[r].index, req[r].done + 1) = req[r].exp + (req[r].done + 1)
            BY <2>3 DEF Piece
        <3>2. QED
            BY <2>2, <2>5, <3>1
    <2>7. data'[c] = Append(data[c], n + 1)
        BY <1>1, <2>1, <2>6 DEF PutWrite, TypeOK
    <2>8. row[c].status = "pending" => data'[c] = Stream(n + 1)
        BY <2>3, <2>5, <2>7, StreamFacts
    <2>9. PICK pc \in {"write", "update"} :
            /\ req' = [req EXCEPT ![r] = [req[r] EXCEPT !.done = req[r].done + 1, !.pc = pc]]
            /\ pc = "update" <=> req[r].done + 1 = ChunkLength(c, req[r].index)
        BY <1>1, <2>1 DEF PutWrite
    <2>10. /\ req'[r].pc = pc /\ req'[r].blob = c /\ req'[r].index = req[r].index
           /\ req'[r].exp = req[r].exp /\ req'[r].done = req[r].done + 1
        <3>1. req'[r] = [req[r] EXCEPT !.done = req[r].done + 1, !.pc = pc]
            BY <2>9 DEF TypeOK
        <3>2. QED
            BY <2>0, <2>1, <2>2, <3>1 DEF Handler, Idle
    <2>11. req[r].exp + (req[r].done + 1) = n + 1
        BY <2>2, <2>5
    <2>12. pc = "write" => req[r].done + 1 < ChunkLength(c, req[r].index)
        BY <2>2, <2>3, <2>4, <2>9, ConstantsAssumption
    <2>13. UNCHANGED <<row, onDisk, unlinking>>
        BY <1>1 DEF PutWrite
    <2>14. ReqInv(r)'
        BY <2>3, <2>8, <2>9, <2>10, <2>11, <2>12, <2>13 DEF ReqInv, Working, Writing, Appending
    <2>15. RowInv(c)'
        <3>1. ASSUME row[c].status = "pending"
              PROVE  /\ row[c].bytes <= Len(data'[c])
                     /\ \A k \in 1..row[c].bytes : data'[c][k] = k
            <4>1. data'[c] = Stream(n + 1) /\ row[c].bytes = req[r].exp
                BY <2>1, <2>3, <2>4, <2>8, <3>1 DEF RowInv
            <4>2. row[c].bytes \in Nat /\ row[c].bytes <= n + 1
                BY <2>2, <2>5, <4>1
            <4>3. n + 1 \in Nat
                OBVIOUS
            <4>4. Len(Stream(n + 1)) = n + 1 /\ \A k \in 1..(n + 1) : Stream(n + 1)[k] = k
                BY <4>3, StreamFacts
            <4>5. QED
                BY <4>1, <4>2, <4>4
        <3>2. QED
            BY <2>1, <2>3, <2>13, <3>1 DEF RowInv
    <2>16. QED
        BY <1>1, <2>1, <2>9, <2>10, <2>13, <2>14, <2>15, Others DEF PutWrite, TypeOK
<1>2. ASSUME PutUpdate(r) PROVE FileInv'
    <2>0. req[r].pc \in Working /\ req[r].pc = "update"
        BY <1>2 DEF PutUpdate, Working, Writing, Appending
    <2>1. PICK c \in Blob : c = req[r].blob /\ RowInv(c)
                            /\ \A s \in Request \ {r} : req[s].blob # c
        BY <2>0, Exclusive
    <2>2. /\ req[r] \in Handler /\ ReqInv(r)
          /\ req[r].index \in Nat /\ req[r].exp \in Nat /\ req[r].done \in Nat
        BY <2>0, Exclusive
    <2>3. /\ req[r].index < Chunks(c) /\ req[r].exp = req[r].index * Chunk
          /\ c \in onDisk
          /\ row[c].status \in {"pending", "gone"}
          /\ req[r].done = ChunkLength(c, req[r].index)
          /\ row[c].status = "pending" => data[c] = Stream(req[r].exp + req[r].done)
        BY <2>0, <2>1, <2>2 DEF ReqInv, Working, Writing, Appending
    <2>4. PICK n \in Nat : n = req[r].exp + req[r].done /\ Upto(c, req[r].index + 1) = n
        BY <2>2, <2>3, NextChunk
    <2>5. CASE row[c].status = "gone"
        <3>1. row' = row
            BY <1>2, <2>1, <2>5 DEF PutUpdate, Live
        <3>2. QED
            BY <1>2, <3>1, Endings DEF PutUpdate, End, Unchanged_Disk, TypeOK
    <2>6. CASE row[c].status = "pending"
        <3>1. row' = [row EXCEPT ![c] = [row[c] EXCEPT !.chunks = req[r].index + 1, !.bytes = n]]
            BY <1>2, <2>1, <2>4, <2>6 DEF PutUpdate, Live
        <3>2. /\ row'[c].status = "pending" /\ row'[c].chunks = req[r].index + 1
              /\ row'[c].bytes = n
            BY <2>6, <3>1 DEF TypeOK, Row
        <3>3. UNCHANGED <<data, onDisk, unlinking>> /\ req' = [req EXCEPT ![r] = Idle]
            BY <1>2 DEF PutUpdate, End, Unchanged_Disk
        <3>4. data[c] = Stream(n)
            BY <2>3, <2>4, <2>6
        <3>5. n <= Len(data'[c]) /\ \A k \in 1..n : data'[c][k] = k
            <4>1. Len(Stream(n)) = n /\ \A k \in 1..n : Stream(n)[k] = k
                BY StreamFacts
            <4>2. data'[c] = Stream(n)
                BY <3>3, <3>4
            <4>3. QED
                BY <4>1, <4>2
        <3>6. RowInv(c)'
            BY <2>1, <2>3, <2>4, <2>6, <3>2, <3>3, <3>5 DEF RowInv
        <3>7. req'[r] = Idle
            BY <3>3 DEF TypeOK
        <3>8. ReqInv(r)'
            BY <3>7, HandlerTypes DEF ReqInv, Working, Writing, Appending
        <3>9. QED
            BY <2>1, <3>1, <3>3, <3>6, <3>7, <3>8, Others DEF TypeOK
    <2>7. QED
        BY <2>3, <2>5, <2>6
<1>3. QED
    BY <1>1, <1>2

\* POST /:blobId/finish.
LEMMA FinishSteps ==
    ASSUME TypeOK, FileInv, "overlap" \notin Faults, NEW r \in Request
    PROVE  /\ \A b \in Blob : FinishSelect(r, b) => FileInv'
           /\ FinishSize(r) => FileInv'
           /\ FinishUpdate(r) => FileInv'
<1> USE DEF Goto, End, Unchanged_Disk
<1>1. ASSUME NEW b \in Blob, FinishSelect(r, b) PROVE FileInv'
    <2>1. req'[r] = [Idle EXCEPT !.pc = "size", !.blob = b, !.exp = row[b].bytes]
        BY <1>1 DEF FinishSelect, TypeOK
    <2>2. req'[r].pc = "size" /\ req'[r].blob = b /\ req'[r].exp = row[b].bytes
        BY <2>1 DEF Idle
    <2>3. ReqInv(r)'
        BY <1>1, <2>2 DEF FinishSelect, ReqInv, Working, Writing, Appending
    <2>4. RowInv(b)'
        BY <1>1 DEF FinishSelect, FileInv, RowInv
    <2>5. \A s \in Request \ {r} : req[s].blob # b /\ req'[s] = req[s]
        BY <1>1 DEF FinishSelect, Clear, TypeOK
    <2>6. QED
        BY <1>1, <2>2, <2>3, <2>4, <2>5, Others DEF FinishSelect
<1>2. ASSUME FinishSize(r) PROVE FileInv'
    <2>0. req[r].pc \in Working /\ req[r].pc = "size"
        BY <1>2 DEF FinishSize, Working
    <2>1. PICK c \in Blob : c = req[r].blob /\ RowInv(c)
                            /\ \A s \in Request \ {r} : req[s].blob # c
        BY <2>0, Exclusive
    <2>2. req[r] \in Handler /\ ReqInv(r) /\ req[r].exp \in Nat
        BY <2>0, Exclusive
    <2>3. CASE req' = [req EXCEPT ![r] = Idle]
        BY <1>2, <2>3, Endings DEF FinishSize, TypeOK
    <2>4. CASE /\ req' = [req EXCEPT ![r].pc = "seal"]
               /\ FileSize(c) = Size[c] /\ FileSize(c) = req[r].exp
        <3>1. req'[r].pc = "seal" /\ req'[r].blob = c /\ req'[r].exp = req[r].exp
            BY <2>1, <2>2, <2>4 DEF Handler, Idle, TypeOK
        <3>2. Size[c] \in Nat /\ Size[c] > 0 /\ data[c] \in Seq(Nat)
            BY ConstantsAssumption DEF TypeOK
        <3>3. c \in onDisk /\ Len(data[c]) = Size[c] /\ req[r].exp = Size[c]
            BY <2>4, <3>2 DEF FileSize
        <3>4. row[c].status \in {"pending", "gone"}
            BY <2>0, <2>1, <2>2 DEF ReqInv
        <3>5. ASSUME row[c].status = "pending" PROVE data[c] = Stream(Size[c])
            <4>1. row[c].bytes = Size[c] /\ \A k \in 1..Size[c] : data[c][k] = k
                BY <2>0, <2>1, <2>2, <3>3, <3>5 DEF ReqInv, RowInv
            <4>2. QED
                BY <3>2, <3>3, <4>1, StreamFacts
        <3>6. UNCHANGED <<row, data, onDisk, unlinking>>
            BY <1>2 DEF FinishSize
        <3>7. ReqInv(r)'
            BY <2>0, <2>1, <2>2, <3>1, <3>3, <3>4, <3>5, <3>6
               DEF ReqInv, Working, Writing, Appending
        <3>8. RowInv(c)'
            BY <2>1, <3>6 DEF RowInv
        <3>9. QED
            BY <2>1, <2>4, <3>1, <3>6, <3>7, <3>8, Others DEF TypeOK
    <2>5. QED
        BY <1>2, <2>1, <2>3, <2>4 DEF FinishSize
<1>3. ASSUME FinishUpdate(r) PROVE FileInv'
    <2>0. req[r].pc \in Working /\ req[r].pc = "seal"
        BY <1>3 DEF FinishUpdate, Working
    <2>1. PICK c \in Blob : c = req[r].blob /\ RowInv(c)
                            /\ \A s \in Request \ {r} : req[s].blob # c
        BY <2>0, Exclusive
    <2>2. ReqInv(r)
        BY <2>0, Exclusive
    <2>3. row[c].status \in {"pending", "gone"}
        BY <2>0, <2>1, <2>2 DEF ReqInv
    <2>4. CASE row[c].status = "gone"
        <3>1. row' = row
            BY <1>3, <2>1, <2>4 DEF FinishUpdate, Live
        <3>2. QED
            BY <1>3, <3>1, Endings DEF FinishUpdate, TypeOK
    <2>5. CASE row[c].status = "pending"
        <3>1. row' = [row EXCEPT ![c].status = "complete"]
            BY <1>3, <2>1, <2>5 DEF FinishUpdate, Live
        <3>2. row'[c].status = "complete" /\ row'[c].bytes = row[c].bytes
            BY <3>1 DEF TypeOK, Row
        <3>3. UNCHANGED <<data, onDisk, unlinking>> /\ req' = [req EXCEPT ![r] = Idle]
            BY <1>3 DEF FinishUpdate
        <3>4. row[c].bytes = Size[c] /\ c \in onDisk /\ data[c] = Stream(Size[c])
            BY <2>0, <2>1, <2>2, <2>5 DEF ReqInv
        <3>5. RowInv(c)'
            BY <2>1, <2>5, <3>2, <3>3, <3>4 DEF RowInv
        <3>6. req'[r] = Idle
            BY <3>3 DEF TypeOK
        <3>7. ReqInv(r)'
            BY <3>6, HandlerTypes DEF ReqInv, Working, Writing, Appending
        <3>8. QED
            BY <2>1, <3>1, <3>3, <3>5, <3>6, <3>7, Others DEF TypeOK
    <2>6. QED
        BY <2>3, <2>4, <2>5
<1>4. QED
    BY <1>1, <1>2, <1>3

\* GET /:blobId: downloads of one attachment do not exclude each other.
LEMMA GetSteps ==
    ASSUME TypeOK, FileInv, NEW r \in Request, NEW b \in Blob, GetSelect(r, b)
    PROVE  FileInv'
<1>1. req'[r] = [Idle EXCEPT !.pc = "stream", !.blob = b]
      /\ \A s \in Request \ {r} : req'[s] = req[s]
    BY DEF GetSelect, TypeOK
<1>2. req'[r].pc = "stream" /\ req'[r].blob = b
    BY <1>1 DEF Idle
<1>3. UNCHANGED <<row, data, onDisk, unlinking>> /\ row[b].status = "complete"
    BY DEF GetSelect, Downloadable, Unchanged_Disk
<1>4. ASSUME NEW c \in Blob PROVE RowInv(c) /\ RowInv(c)'
    BY <1>3 DEF FileInv, RowInv
<1>5. ASSUME NEW s \in Request PROVE ReqInv(s)'
    <2>1. CASE s = r
        BY <1>2, <1>3, <1>4, <2>1 DEF ReqInv, RowInv, Working, Writing, Appending
    <2>2. CASE s # r
        BY <1>1, <1>3, <2>2 DEF FileInv, ReqInv
    <2>3. QED
        BY <2>1, <2>2
<1>6. Alone'
    <2>1. ASSUME NEW s \in Request, req'[s].pc \in Working, NEW t \in Request \ {s}
          PROVE  req'[t].blob # req'[s].blob
        <3>1. s # r /\ req'[s] = req[s] /\ req[s].pc \in Working
            BY <1>1, <1>2, <2>1 DEF Working, Writing, Appending
        <3>2. row[req[s].blob].status # "complete"
            BY <3>1, Exclusive DEF ReqInv, Working
        <3>3. QED
            BY <1>1, <1>2, <1>3, <2>1, <3>1, <3>2, ZenonT(60) DEF FileInv, Alone
    <2>2. QED
        BY <2>1 DEF Alone
<1>7. QED
    BY <1>4, <1>5, <1>6 DEF FileInv

\* The reaper unlinks files of deleted rows, and ends who still appends to them.
LEMMA UnlinkStep ==
    ASSUME TypeOK, FileInv, NEW b \in Blob, ReapUnlink(b)
    PROVE  FileInv'
<1>1. row[b].status = "gone" /\ row' = row /\ unlinking' \subseteq unlinking
    BY DEF ReapUnlink, FileInv, RowInv
<1>2. /\ b \notin onDisk' /\ data'[b] = <<>>
      /\ \A c \in Blob \ {b} : data'[c] = data[c] /\ (c \in onDisk' <=> c \in onDisk)
    BY DEF ReapUnlink, TypeOK
<1>3. ASSUME NEW s \in Request
      PROVE  \/ req'[s] = Idle
             \/ req'[s] = req[s] /\ (req[s].blob = b => req[s].pc \notin Appending)
    BY DEF ReapUnlink, Appending
<1>4. ASSUME NEW c \in Blob PROVE RowInv(c)'
    <2>1. RowInv(c)
        BY DEF FileInv
    <2>2. CASE c = b
        BY <1>1, <1>2, <2>1, <2>2 DEF RowInv
    <2>3. CASE c # b
        BY <1>1, <1>2, <2>1, <2>3 DEF RowInv
    <2>4. QED
        BY <2>2, <2>3
<1>5. ASSUME NEW s \in Request PROVE ReqInv(s)'
    <2>1. CASE req'[s].pc = "idle"
        BY <2>1 DEF ReqInv, Working, Writing, Appending
    <2>2. CASE req'[s].pc # "idle"
        <3>1. /\ req'[s] = req[s] /\ ReqInv(s)
              /\ req[s].blob = b => req[s].pc \notin Appending
            BY <1>3, <2>2, HandlerTypes DEF FileInv
        <3>2. PICK c \in Blob : c = req[s].blob
            BY <2>2, <3>1, HandlerTypes DEF TypeOK
        <3>3. CASE c = b
            BY <1>1, <1>2, <3>1, <3>2, <3>3 DEF ReqInv, Working, Writing, Appending
        <3>4. CASE c # b
            BY <1>1, <1>2, <3>1, <3>2, <3>4 DEF ReqInv
        <3>5. QED
            BY <3>3, <3>4
    <2>3. QED
        BY <2>1, <2>2
<1>6. Alone'
    <2>1. ASSUME NEW s \in Request, req'[s].pc \in Working, NEW t \in Request \ {s}
          PROVE  req'[t].blob # req'[s].blob
        <3>1. req'[s] = req[s] /\ req[s].pc \in Working
            BY <1>3, <2>1, HandlerTypes DEF Working, Writing, Appending
        <3>2. req[s].blob \in Blob /\ req[t].blob # req[s].blob
            BY <2>1, <3>1, Exclusive
        <3>3. QED
            BY <1>3, <2>1, <3>1, <3>2, HandlerTypes, ConstantsAssumption
    <2>2. QED
        BY <2>1 DEF Alone
<1>7. QED
    BY <1>4, <1>5, <1>6 DEF FileInv

LEMMA FileStep ==
    ASSUME "overlap" \notin Faults
    PROVE  TypeOK /\ FileInv /\ [Next]_vars => FileInv'
<1> SUFFICES ASSUME TypeOK, FileInv, [Next]_vars PROVE FileInv'
    OBVIOUS
<1>1. ASSUME NEW r \in Request, NEW b \in Blob,
             InitCheck(r, b) \/ FinishSelect(r, b) \/ GetSelect(r, b)
      PROVE  FileInv'
    BY <1>1, InitSteps, FinishSteps, GetSteps
<1>2. ASSUME NEW r \in Request, NEW b \in Blob, NEW i \in Nat, PutSelect(r, b, i)
      PROVE  FileInv'
    BY <1>2, PutSteps
<1>3. ASSUME NEW r \in Request,
             \/ InitInsert(r)
             \/ PutOpen(r) \/ PutStat(r) \/ PutTruncate(r) \/ PutWrite(r) \/ PutUpdate(r)
             \/ FinishSize(r) \/ FinishUpdate(r)
      PROVE  FileInv'
    BY <1>3, InitSteps, PutSteps, WriteSteps, FinishSteps
<1>4. ASSUME NEW r \in Request, GetStream(r) \/ Fail(r) PROVE FileInv'
    BY <1>4, Endings DEF GetStream, Fail, End, Unchanged_Disk, TypeOK
<1>5. ASSUME NEW S \in SUBSET Blob, ReapRows(S) PROVE FileInv'
    BY <1>5, Deletions DEF ReapRows, Unchanged_Disk
<1>6. ASSUME NEW b \in Blob, ReapUnlink(b) PROVE FileInv'
    BY <1>6, UnlinkStep
<1>7. CASE DmDelete
    <2>1. PICK S \in SUBSET Blob : S = {b \in DmBlob : Live(b)}
        BY ConstantsAssumption
    <2>2. QED
        BY <1>7, <2>1, Deletions DEF DmDelete, Unchanged_Disk
<1>8. CASE Crash
    BY <1>8, Endings DEF Crash, Unchanged_Disk
<1>9. CASE UNCHANGED vars
    BY <1>9, Endings DEF vars
<1>10. QED
    <2>1. ASSUME NEW b \in Blob PROVE 0..(Chunks(b) - 1) \subseteq Nat
        OBVIOUS
    <2>2. QED
        BY <2>1, <1>1, <1>2, <1>3, <1>4, <1>5, <1>6, <1>7, <1>8, <1>9 DEF Next

---------------------------------------------------------------------------
(* What follows from it                                                    *)

\* The counted part of a file is the stream.
LEMMA CountedIsStream ==
    TypeOK /\ FileInv =>
        \A b \in Blob : Live(b) =>
            /\ row[b].bytes <= Len(data[b])
            /\ SubSeq(data[b], 1, row[b].bytes) = Stream(row[b].bytes)
<1> SUFFICES ASSUME TypeOK, FileInv, NEW b \in Blob, Live(b)
             PROVE  /\ row[b].bytes <= Len(data[b])
                    /\ SubSeq(data[b], 1, row[b].bytes) = Stream(row[b].bytes)
    OBVIOUS
<1>1. PICK n \in Nat, s \in Seq(Nat) : n = row[b].bytes /\ s = data[b]
    BY RowTypes DEF TypeOK
<1>2. n <= Len(s) /\ \A k \in 1..n : s[k] = k
    <2>1. CASE row[b].status = "pending"
        BY <1>1, <2>1 DEF FileInv, RowInv
    <2>2. CASE row[b].status = "complete"
        <3>1. n = Size[b] /\ s = Stream(n)
            BY <1>1, <2>2 DEF FileInv, RowInv
        <3>2. Len(Stream(n)) = n /\ \A k \in 1..n : Stream(n)[k] = k
            BY StreamFacts
        <3>3. QED
            BY <3>1, <3>2
    <2>3. QED
        BY <2>1, <2>2 DEF Live
<1>3. SubSeq(s, 1, n) \in Seq(Nat) /\ Len(SubSeq(s, 1, n)) = n
      /\ \A k \in 1..n : SubSeq(s, 1, n)[k] = s[k]
    BY <1>1, <1>2
<1>4. SubSeq(s, 1, n) = Stream(n)
    <2>1. PICK t \in Seq(Nat) : t = SubSeq(s, 1, n) /\ Len(t) = n /\ \A k \in 1..n : t[k] = k
        BY <1>2, <1>3
    <2>2. t = Stream(n)
        BY <2>1, StreamFacts
    <2>3. QED
        BY <2>1, <2>2
<1>5. QED
    BY <1>1, <1>2, <1>4

\* FileInv holds in every state: no two handlers share an upload, and each of
\* them knows what is on the disk (blobs.js, blobStore.append).
THEOREM Invariance ==
    ASSUME "overlap" \notin Faults PROVE Spec => [](TypeOK /\ FileInv)
<1>1. Init => TypeOK /\ FileInv
    BY TypeInit, FileInit
<1>2. TypeOK /\ FileInv /\ [Next]_vars => (TypeOK /\ FileInv)'
    BY TypeStep, FileStep
<1>3. QED
    BY <1>1, <1>2, PTL DEF Spec

\* CountedIsOnDisk: what the row counts can be built upon after any failure.
THEOREM ResumeIsSafe ==
    ASSUME "overlap" \notin Faults PROVE Spec => []CountedIsOnDisk
<1>1. TypeOK /\ FileInv => CountedIsOnDisk
    BY CountedIsStream DEF CountedIsOnDisk
<1>2. QED
    BY <1>1, Invariance, PTL

\* CompleteIsWhole: a sealed attachment is intact while its row is there.
THEOREM SealedIsWhole ==
    ASSUME "overlap" \notin Faults PROVE Spec => []CompleteIsWhole
<1>1. TypeOK /\ FileInv => CompleteIsWhole
    BY DEF CompleteIsWhole, FileInv, RowInv
<1>2. QED
    BY <1>1, Invariance, PTL

\* DownloadIsWhole: no download meets a part of an attachment.
THEOREM DeliveredWhole ==
    ASSUME "overlap" \notin Faults PROVE Spec => []DownloadIsWhole
<1>1. TypeOK /\ FileInv => DownloadIsWhole
    BY DEF DownloadIsWhole, FileInv, ReqInv
<1>2. QED
    BY <1>1, Invariance, PTL

---------------------------------------------------------------------------
(* The store implements Attachment                                         *)

\* What the promise sees of a state, read off the rows alone.
Streams == [b \in Blob |-> IF Live(b) THEN Stream(row[b].bytes) ELSE <<>>]

LEMMA Mapped == TypeOK /\ FileInv => Counted = Streams
BY CountedIsStream DEF Counted, Streams

LEMMA PromiseInit == Init => Promise!Init
<1> SUFFICES ASSUME Init PROVE Promise!Init
    OBVIOUS
<1>1. Statuses = [b \in Blob |-> "absent"]
    BY DEF Init, Statuses
<1>2. Counted = [b \in Blob |-> <<>>]
    BY DEF Init, Counted, Live
<1>3. QED
    BY <1>1, <1>2 DEF Promise!Init

\* Rows that do not change are a stutter.
LEMMA Stutter ==
    ASSUME Counted = Streams, Counted' = Streams', row' = row
    PROVE  UNCHANGED Promise!vars
<1>1. Statuses' = Statuses /\ Streams' = Streams
    BY DEF Statuses, Streams, Live
<1>2. QED
    BY <1>1 DEF Promise!vars

\* Deleted rows are a Drop.
LEMMA DropStep ==
    ASSUME TypeOK, Counted = Streams, Counted' = Streams',
           NEW S \in SUBSET Blob, \A b \in S : Live(b), row' = Dropped(S)
    PROVE  [Promise!Next]_(Promise!vars)
<1>1. CASE S = {}
    <2>1. row' = row
        BY <1>1 DEF Dropped, TypeOK
    <2>2. QED
        BY <2>1, Stutter
<1>2. CASE S # {}
    <2>1. ASSUME NEW b \in Blob
          PROVE  /\ b \in S => row'[b].status = "gone"
                 /\ b \notin S => row'[b] = row[b]
        BY DEF Dropped, TypeOK, Row
    <2>2. Statuses' = [b \in Blob |-> IF b \in S THEN "gone" ELSE Statuses[b]]
        BY <2>1 DEF Statuses
    <2>3. Streams' = [b \in Blob |-> IF b \in S THEN <<>> ELSE Streams[b]]
        BY <2>1 DEF Streams, Live
    <2>4. \A b \in S : Statuses[b] \in {"pending", "complete"}
        BY DEF Statuses, Live
    <2>5. Promise!Drop(S)
        BY <1>2, <2>2, <2>3, <2>4 DEF Promise!Drop
    <2>6. QED
        BY <2>5 DEF Promise!Next
<1>3. QED
    BY <1>1, <1>2

\* A row that is inserted is a Reserve.
LEMMA ReserveStep ==
    ASSUME TypeOK, FileInv, Counted = Streams, Counted' = Streams',
           NEW r \in Request, InitInsert(r)
    PROVE  [Promise!Next]_(Promise!vars)
<1>0. req[r].pc \in Working /\ req[r].pc = "insert"
    BY DEF InitInsert, Working
<1>1. PICK c \in Blob : c = req[r].blob /\ row[c].status = "absent" /\ RowInv(c)
    BY <1>0, Exclusive DEF ReqInv
<1>2. row' = row \/ row' = [row EXCEPT ![c].status = "pending"]
    BY <1>1 DEF InitInsert
<1>3. CASE row' = row
    BY <1>3, Stutter
<1>4. CASE row' = [row EXCEPT ![c].status = "pending"]
    <2>1. /\ row'[c].status = "pending" /\ row'[c].bytes = 0
          /\ \A b \in Blob \ {c} : row'[b] = row[b]
        BY <1>1, <1>4 DEF TypeOK, Row, RowInv
    <2>2. Statuses' = [Statuses EXCEPT ![c] = "pending"]
        BY <2>1 DEF Statuses
    <2>3. Streams' = Streams
        <3>1. Stream(0) = <<>>
            BY DEF Stream
        <3>2. QED
            BY <1>1, <2>1, <3>1 DEF Streams, Live
    <2>4. Promise!Reserve(c)
        BY <1>1, <2>2, <2>3 DEF Promise!Reserve, Statuses
    <2>5. QED
        BY <2>4 DEF Promise!Next
<1>5. QED
    BY <1>2, <1>3, <1>4

\* A chunk that is counted is a StoreChunk.
LEMMA StoreStep ==
    ASSUME TypeOK, FileInv, Counted = Streams, Counted' = Streams',
           NEW r \in Request, PutUpdate(r)
    PROVE  [Promise!Next]_(Promise!vars)
<1>0. req[r].pc \in Working /\ req[r].pc = "update"
    BY DEF PutUpdate, Working, Writing, Appending
<1>1. PICK c \in Blob : c = req[r].blob /\ RowInv(c)
    BY <1>0, Exclusive
<1>2. /\ req[r].index \in Nat /\ req[r].exp \in Nat /\ req[r].index < Chunks(c)
      /\ req[r].exp = req[r].index * Chunk /\ req[r].done = ChunkLength(c, req[r].index)
      /\ row[c].status \in {"pending", "gone"}
      /\ row[c].status = "pending" => row[c].chunks = req[r].index
    BY <1>0, <1>1, Exclusive DEF ReqInv, Working, Writing, Appending
<1>3. CASE row[c].status = "gone"
    BY <1>1, <1>3, Stutter DEF PutUpdate, Live
<1>4. CASE row[c].status = "pending"
    <2>1. PICK m \in Nat, n \in Nat :
            /\ m = req[r].exp /\ n = req[r].exp + req[r].done
            /\ n \in (m + 1)..(m + Chunk) /\ n <= Size[c]
            /\ n = Size[c] \/ n = m + Chunk
            /\ row[c].bytes = m
        <3>1. /\ Upto(c, req[r].index) = req[r].exp
              /\ req[r].done \in 1..Chunk
              /\ req[r].exp + req[r].done <= Size[c]
              /\ req[r].exp + req[r].done = Size[c] \/ req[r].done = Chunk
            BY <1>2, NextChunk
        <3>2. row[c].bytes = req[r].exp
            BY <1>1, <1>2, <1>4, <3>1 DEF RowInv
        <3>3. QED
            BY <1>2, <3>1, <3>2, ConstantsAssumption
    <2>2. row' = [row EXCEPT ![c] = [row[c] EXCEPT !.chunks = req[r].index + 1, !.bytes = n]]
        BY <1>1, <1>4, <2>1 DEF PutUpdate, Live
    <2>3. /\ row'[c].status = "pending" /\ row'[c].bytes = n
          /\ \A b \in Blob \ {c} : row'[b] = row[b]
        BY <1>4, <2>2 DEF TypeOK, Row
    <2>4. Statuses' = Statuses
        BY <1>4, <2>3 DEF Statuses
    <2>5. Streams' = [Streams EXCEPT ![c] = Stream(n)]
        BY <2>3 DEF Streams, Live
    <2>6. Len(Streams[c]) = m
        <3>1. Streams[c] = Stream(m)
            BY <1>4, <2>1 DEF Streams, Live
        <3>2. QED
            BY <3>1, StreamFacts
    <2>7. Stream(n) = Promise!Prefix(n)
        BY DEF Stream, Promise!Prefix
    <2>8. Promise!StoreChunk(c)
        BY <1>4, <2>1, <2>4, <2>5, <2>6, <2>7 DEF Promise!StoreChunk, Statuses
    <2>9. QED
        BY <2>8 DEF Promise!Next
<1>5. QED
    BY <1>2, <1>3, <1>4

\* finish, when it finds the row, is a Seal.
LEMMA SealStep ==
    ASSUME TypeOK, FileInv, Counted = Streams, Counted' = Streams',
           NEW r \in Request, FinishUpdate(r)
    PROVE  [Promise!Next]_(Promise!vars)
<1>0. req[r].pc \in Working /\ req[r].pc = "seal"
    BY DEF FinishUpdate, Working
<1>1. PICK c \in Blob : c = req[r].blob /\ ReqInv(r)
    BY <1>0, Exclusive
<1>2. row[c].status \in {"pending", "gone"}
    BY <1>0, <1>1 DEF ReqInv
<1>3. CASE row[c].status = "gone"
    BY <1>1, <1>3, Stutter DEF FinishUpdate, Live
<1>4. CASE row[c].status = "pending"
    <2>1. row' = [row EXCEPT ![c].status = "complete"] /\ row[c].bytes = Size[c]
        BY <1>0, <1>1, <1>4 DEF FinishUpdate, Live, ReqInv
    <2>2. /\ row'[c].status = "complete" /\ row'[c].bytes = row[c].bytes
          /\ \A b \in Blob \ {c} : row'[b] = row[b]
        BY <2>1 DEF TypeOK, Row
    <2>3. Statuses' = [Statuses EXCEPT ![c] = "complete"]
        BY <2>2 DEF Statuses
    <2>4. Streams' = Streams
        BY <1>4, <2>2 DEF Streams, Live
    <2>5. Streams[c] = Promise!Prefix(Size[c])
        BY <1>4, <2>1 DEF Streams, Live, Stream, Promise!Prefix
    <2>6. Promise!Seal(c)
        BY <1>4, <2>3, <2>4, <2>5 DEF Promise!Seal, Statuses
    <2>7. QED
        BY <2>6 DEF Promise!Next
<1>5. QED
    BY <1>2, <1>3, <1>4

LEMMA PromiseStep ==
    ASSUME TypeOK, FileInv, Counted = Streams, Counted' = Streams', [Next]_vars
    PROVE  [Promise!Next]_(Promise!vars)
<1>1. CASE row' = row
    BY <1>1, Stutter
<1>2. ASSUME NEW r \in Request, InitInsert(r) PROVE [Promise!Next]_(Promise!vars)
    BY <1>2, ReserveStep
<1>3. ASSUME NEW r \in Request, PutUpdate(r) PROVE [Promise!Next]_(Promise!vars)
    BY <1>3, StoreStep
<1>4. ASSUME NEW r \in Request, FinishUpdate(r) PROVE [Promise!Next]_(Promise!vars)
    BY <1>4, SealStep
<1>5. ASSUME NEW S \in SUBSET Blob, ReapRows(S) PROVE [Promise!Next]_(Promise!vars)
    BY <1>5, DropStep DEF ReapRows
<1>6. CASE DmDelete
    <2>1. PICK S \in SUBSET Blob : S = {b \in DmBlob : Live(b)}
        BY ConstantsAssumption
    <2>2. QED
        BY <1>6, <2>1, DropStep DEF DmDelete
<1>7. QED
    <2>1. \/ row' = row \/ DmDelete \/ \E S \in SUBSET Blob : ReapRows(S)
          \/ \E r \in Request : InitInsert(r) \/ PutUpdate(r) \/ FinishUpdate(r)
        BY Zenon DEF Next, vars, InitCheck, FinishSelect, GetSelect, PutSelect, PutOpen, PutStat,
               PutTruncate, PutWrite, FinishSize, GetStream, Fail, ReapUnlink, Crash
    <2>2. QED
        BY <2>1, <1>1, <1>2, <1>3, <1>4, <1>5, <1>6

\* KeepsThePromise: BlobStore implements Attachment, as long as a client never
\* has two requests of one upload at work (encryptAndUpload awaits each).
THEOREM StoreKeepsThePromise ==
    ASSUME "overlap" \notin Faults PROVE Spec => KeepsThePromise
<1>1. TypeOK /\ FileInv => Counted = Streams
    BY Mapped
<1>2. TypeOK /\ FileInv /\ (TypeOK /\ FileInv)' /\ [Next]_vars
        => [Promise!Next]_(Promise!vars)
    <2>1. (TypeOK /\ FileInv)' => (Counted = Streams)'
        BY <1>1, PTL
    <2>2. QED
        BY <1>1, <2>1, PromiseStep
<1>3. QED
    BY <1>2, PromiseInit, Invariance, PTL DEF Spec, KeepsThePromise, Promise!Spec
---------------------------------------------------------------------------
(* The quota.  QuotaHolds is not inductive: a handler that has found room   *)
(* and not yet inserted its row is not counted by the next one that asks,   *)
(* so what is bounded is what has been granted: the rows and those inserts. *)

\* The declared pieces of uploads that are no bigger than `big` can be counted; more
\* uploads declare more, and two sets of them no more than their sum.
LEMMA Declarations ==
    ASSUME NEW big \in Blob, \A b \in Blob : Size[b] <= Size[big], NEW S \in SUBSET Blob
    PROVE  /\ IsFiniteSet(Declared(S)) /\ Cardinality(Declared(S)) \in Nat
           /\ Cardinality(S) \in Nat
           /\ Cardinality(Declared(S)) <= Cardinality(S) * Size[big]
<1>1. Size[big] \in Nat /\ IsFiniteSet(S)
    BY FS_Subset, ConstantsAssumption
<1>2. PICK n \in Nat : n = Size[big]
    BY <1>1
<1>3. IsFiniteSet(1 .. n) /\ Cardinality(1 .. n) = n
    BY FS_Interval
<1>4. IsFiniteSet(S \X (1 .. n)) /\ Cardinality(S \X (1 .. n)) = Cardinality(S) * n
    BY <1>1, <1>3, FS_Product
<1>5. Declared(S) \subseteq S \X (1 .. n)
    <2>1. ASSUME NEW b \in S PROVE 1 .. Size[b] \subseteq 1 .. n
        BY <1>2, ConstantsAssumption
    <2>2. QED
        BY <2>1 DEF Declared
<1>6. QED
    BY <1>1, <1>2, <1>4, <1>5, FS_Subset, FS_CardinalityType

LEMMA DeclaredGrows ==
    ASSUME NEW big \in Blob, \A b \in Blob : Size[b] <= Size[big],
           NEW T \in SUBSET Blob, NEW S \in SUBSET T
    PROVE  Cardinality(Declared(S)) <= Cardinality(Declared(T))
<1>1. IsFiniteSet(Declared(T))
    BY Declarations
<1>2. Declared(S) \subseteq Declared(T)
    BY DEF Declared
<1>3. QED
    BY <1>1, <1>2, FS_Subset

LEMMA DeclaredJoins ==
    ASSUME NEW big \in Blob, \A b \in Blob : Size[b] <= Size[big],
           NEW S \in SUBSET Blob, NEW T \in SUBSET Blob
    PROVE  Cardinality(Declared(S \cup T)) <= Cardinality(Declared(S)) + Cardinality(Declared(T))
<1>1. /\ IsFiniteSet(Declared(S)) /\ IsFiniteSet(Declared(T))
      /\ Cardinality(Declared(S)) \in Nat /\ Cardinality(Declared(T)) \in Nat
    BY Declarations
<1>2. Declared(S \cup T) = Declared(S) \cup Declared(T)
    BY DEF Declared
<1>3. IsFiniteSet(Declared(S) \cap Declared(T))
    BY <1>1, FS_Subset
<1>4. Cardinality(Declared(S) \cap Declared(T)) \in Nat
    BY <1>3, FS_CardinalityType
<1>5. Cardinality(Declared(S) \cup Declared(T)) =
        Cardinality(Declared(S)) + Cardinality(Declared(T)) - Cardinality(Declared(S) \cap Declared(T))
    BY <1>1, FS_Union
<1>6. PICK x \in Nat, y \in Nat, z \in Nat :
         /\ x = Cardinality(Declared(S)) /\ y = Cardinality(Declared(T))
         /\ z = Cardinality(Declared(S) \cap Declared(T))
    BY <1>1, <1>4
<1>7. Cardinality(Declared(S \cup T)) = x + y - z
    BY <1>2, <1>5, <1>6
<1>8. QED
    BY <1>6, <1>7

\* One upload declares as many pieces as its size says.
LEMMA DeclaredByOne == ASSUME NEW b \in Blob PROVE Cardinality(Declared({b})) = Size[b]
<1>1. PICK n \in Nat : n = Size[b]
    BY ConstantsAssumption
<1>2. IsFiniteSet({b}) /\ Cardinality({b}) = 1
    BY FS_Singleton
<1>3. IsFiniteSet(1 .. n) /\ Cardinality(1 .. n) = n
    <2>1. 1 \in Int /\ n \in Int
        BY <1>1
    <2>2. IsFiniteSet(1 .. n) /\ Cardinality(1 .. n) = IF 1 > n THEN 0 ELSE n - 1 + 1
        BY <2>1, FS_Interval
    <2>3. QED
        BY <1>1, <2>2
<1>4. PICK S, T : S = {b} /\ T = 1 .. n
    OBVIOUS
<1>5. Cardinality(S \X T) = Cardinality(S) * Cardinality(T)
    BY <1>2, <1>3, <1>4, FS_Product
<1>6. Declared({b}) = S \X T
    BY <1>1, <1>4 DEF Declared
<1>7. Cardinality(Declared({b})) = 1 * n
    BY <1>2, <1>3, <1>4, <1>5, <1>6
<1>8. QED
    BY <1>1, <1>7

\* The uploads that have been found to fit and whose INSERT is on its way.
Inserting == {req[r].blob : r \in {q \in Request : req[q].pc = "insert"}}

\* What has been granted: these, and the uploads that have a row.
Granted == {b \in Blob : Live(b)} \cup Inserting

QuotaInv ==
    \A big \in Blob : (\A b \in Blob : Size[b] <= Size[big]) =>
        Cardinality(Declared(Granted)) <= Quota + (Cardinality(Request) - 1) * Size[big]

LEMMA GrantedTypes == TypeOK => Inserting \subseteq Blob /\ Granted \subseteq Blob
BY HandlerTypes DEF TypeOK, Inserting, Granted

LEMMA GrantedTypesNext == TypeOK' => Granted' \subseteq Blob
BY HandlerTypes DEF TypeOK, Inserting, Granted

\* While a handler is free, all the others but it may be inserting.
LEMMA OthersInsert ==
    ASSUME TypeOK, NEW r \in Request, req[r] = Idle
    PROVE  Cardinality(Inserting) <= Cardinality(Request) - 1
<1> DEFINE Q == {q \in Request : req[q].pc = "insert"}
           f == [q \in Q |-> req[q].blob]
<1>1. Q \subseteq Request \ {r}
    BY DEF Idle
<1>2. /\ IsFiniteSet(Request) /\ IsFiniteSet(Request \ {r})
      /\ Cardinality(Request \ {r}) = Cardinality(Request) - 1
    BY FS_RemoveElement, ConstantsAssumption
<1>3. IsFiniteSet(Q) /\ Cardinality(Q) <= Cardinality(Request \ {r})
    BY <1>1, <1>2, FS_Subset
<1>4. f \in Surjection(Q, Inserting)
    BY DEF Surjection, Inserting
<1> HIDE DEF Q, f
<1>5. IsFiniteSet(Inserting) /\ Cardinality(Inserting) <= Cardinality(Q)
    BY <1>3, <1>4, FS_Surjection
<1>6. /\ Cardinality(Q) \in Nat /\ Cardinality(Inserting) \in Nat
      /\ Cardinality(Request) \in Nat
    BY <1>2, <1>3, <1>5, FS_CardinalityType
<1>7. QED
    BY <1>2, <1>3, <1>5, <1>6

\* Only the check of the quota grants anything.
LEMMA GrantSteps ==
    ASSUME TypeOK, [Next]_vars
    PROVE  \/ Granted' \subseteq Granted
           \/ \E r \in Request, b \in Blob : InitCheck(r, b)
<1> USE DEF Granted, Inserting, Live
<1>0. row \in [Blob -> Row] /\ req \in [Request -> Handler]
    BY DEF TypeOK
<1>1. ASSUME \A b \in Blob : Live(b)' => Live(b),
             \A q \in Request : req'[q].pc = "insert" => req'[q] = req[q]
      PROVE  Granted' \subseteq Granted
    BY <1>1
<1>2. ASSUME NEW r \in Request, NEW b \in Blob, FinishSelect(r, b) \/ GetSelect(r, b)
      PROVE  Granted' \subseteq Granted
    BY <1>0, <1>1, <1>2, ZenonT(60) DEF FinishSelect, GetSelect, Idle
<1>3. ASSUME NEW r \in Request, NEW b \in Blob, NEW i \in 0..(Chunks(b) - 1), PutSelect(r, b, i)
      PROVE  Granted' \subseteq Granted
    BY <1>0, <1>1, <1>3 DEF PutSelect
<1>4. ASSUME NEW r \in Request, InitInsert(r) PROVE Granted' \subseteq Granted
    <2>1. req[r].blob \in Inserting
        BY <1>4 DEF InitInsert
    <2>2. \A b \in Blob : Live(b)' => Live(b) \/ b = req[r].blob
        BY <1>0, <1>4 DEF InitInsert
    <2>3. \A q \in Request : req'[q].pc = "insert" => req'[q] = req[q]
        BY <1>0, <1>4 DEF InitInsert, End, Idle
    <2>4. Inserting' \subseteq Inserting
        BY <2>3
    <2>5. QED
        BY <2>1, <2>2, <2>4
<1>5. ASSUME NEW r \in Request,
             \/ PutOpen(r) \/ PutStat(r) \/ PutTruncate(r) \/ PutWrite(r)
             \/ FinishSize(r) \/ GetStream(r) \/ Fail(r)
      PROVE  Granted' \subseteq Granted
    <2>1. row' = row
        BY <1>5 DEF PutOpen, PutStat, PutTruncate, PutWrite, FinishSize, GetStream, Fail
    <2>2. req[r] = Idle \/ req[r] \in [pc : Stages, blob : Blob, index : Nat, exp : Nat, done : Nat]
        BY <1>0 DEF Handler
    <2>3. ASSUME NEW pc, Goto(r, pc)
          PROVE  req'[r].pc = pc /\ \A q \in Request : q # r => req'[q] = req[q]
        BY <1>0, <2>2, <2>3 DEF Goto, Idle
    <2>4. ASSUME End(r)
          PROVE  req'[r].pc = "idle" /\ \A q \in Request : q # r => req'[q] = req[q]
        BY <1>0, <2>4 DEF End, Idle
    <2>5. req'[r].pc # "insert" /\ \A q \in Request : q # r => req'[q] = req[q]
        <3>1. CASE PutOpen(r) \/ PutTruncate(r)
            BY <2>3, <3>1 DEF PutOpen, PutTruncate
        <3>2. CASE PutStat(r)
            BY <2>3, <2>4, <3>2 DEF PutStat, AfterStat
        <3>3. CASE PutWrite(r)
            BY <1>0, <2>2, <3>3 DEF PutWrite, Idle
        <3>4. CASE FinishSize(r) \/ GetStream(r) \/ Fail(r)
            BY <2>3, <2>4, <3>4 DEF FinishSize, GetStream, Fail
        <3>5. QED
            BY <1>5, <3>1, <3>2, <3>3, <3>4
    <2>6. QED
        BY <1>1, <2>1, <2>5
<1>6. ASSUME NEW r \in Request, PutUpdate(r) \/ FinishUpdate(r) PROVE Granted' \subseteq Granted
    <2>1. \A b \in Blob : Live(b)' => Live(b)
        BY <1>0, <1>6 DEF PutUpdate, FinishUpdate, Row
    <2>2. \A q \in Request : req'[q].pc = "insert" => req'[q] = req[q]
        BY <1>0, <1>6 DEF PutUpdate, FinishUpdate, End, Idle
    <2>3. QED
        BY <1>1, <2>1, <2>2
<1>7. ASSUME NEW S \in SUBSET Blob, ReapRows(S) PROVE Granted' \subseteq Granted
    BY <1>0, <1>1, <1>7 DEF ReapRows, Dropped, Row
<1>8. ASSUME NEW b \in Blob, ReapUnlink(b) PROVE Granted' \subseteq Granted
    BY <1>0, <1>1, <1>8 DEF ReapUnlink, Idle
<1>9. ASSUME DmDelete PROVE Granted' \subseteq Granted
    BY <1>0, <1>1, <1>9 DEF DmDelete, Dropped, Row
<1>10. ASSUME Crash PROVE Granted' \subseteq Granted
    BY <1>0, <1>1, <1>10 DEF Crash, Idle
<1>11. ASSUME UNCHANGED vars PROVE Granted' \subseteq Granted
    BY <1>11 DEF vars
<1>12. QED
    BY <1>2, <1>3, <1>4, <1>5, <1>6, <1>7, <1>8, <1>9, <1>10, <1>11 DEF Next

\* A grant finds the rows within the quota, and the other inserts are no more than the
\* other handlers.
LEMMA QuotaStep == TypeOK /\ TypeOK' /\ QuotaInv /\ [Next]_vars => QuotaInv'
<1> SUFFICES ASSUME TypeOK, TypeOK', QuotaInv, [Next]_vars,
                    NEW big \in Blob, \A b \in Blob : Size[b] <= Size[big]
             PROVE  Cardinality(Declared(Granted))' <= Quota + (Cardinality(Request) - 1) * Size[big]
    BY DEF QuotaInv
<1>1. Granted \subseteq Blob /\ Granted' \subseteq Blob /\ Inserting \subseteq Blob
    BY GrantedTypes, GrantedTypesNext
<1>2. Declared(Granted)' = Declared(Granted')
    BY DEF Declared
<1>3. CASE Granted' \subseteq Granted
    <2>1. Cardinality(Declared(Granted')) <= Cardinality(Declared(Granted))
        BY <1>1, <1>3, DeclaredGrows
    <2>2. Cardinality(Declared(Granted)) <= Quota + (Cardinality(Request) - 1) * Size[big]
        BY DEF QuotaInv
    <2>3. Cardinality(Declared(Granted')) \in Nat /\ Cardinality(Declared(Granted)) \in Nat
        BY <1>1, Declarations
    <2>4. Quota \in Nat /\ (Cardinality(Request) - 1) * Size[big] \in Int
        BY FS_CardinalityType, ConstantsAssumption
    <2>5. QED
        BY <1>2, <2>1, <2>2, <2>3, <2>4
<1>4. ASSUME NEW r \in Request, NEW b \in Blob, InitCheck(r, b)
      PROVE  Cardinality(Declared(Granted)') <= Quota + (Cardinality(Request) - 1) * Size[big]
    <2> DEFINE L == {x \in Blob : Live(x)}
    <2>1. Granted' \subseteq L \cup (Inserting \cup {b})
        <3>1. \A x \in Blob : Live(x)' => Live(x)
            BY <1>4 DEF InitCheck, Live
        <3>2. \A q \in Request : q # r => req'[q] = req[q]
            BY <1>4 DEF InitCheck, TypeOK
        <3>3. req'[r].blob = b
            BY <1>4 DEF InitCheck, TypeOK, Idle
        <3>4. Inserting' \subseteq Inserting \cup {b}
            BY <3>2, <3>3 DEF Inserting
        <3>5. QED
            BY <3>1, <3>4 DEF Granted
    <2>2. Used + Size[b] <= Quota /\ Used = Cardinality(Declared(L))
        BY <1>4 DEF InitCheck, Fits, Used
    <2> HIDE DEF L
    <2>3. L \subseteq Blob
        BY DEF L
    <2>4. PICK u \in Nat, i \in Nat, k \in Nat, g \in Nat, n \in Nat :
             /\ u = Cardinality(Declared(L)) /\ i = Cardinality(Declared(Inserting))
             /\ k = Cardinality(Inserting) /\ g = Cardinality(Declared(Granted'))
             /\ n = Cardinality(Declared(Inserting \cup {b}))
        <3>1. Inserting \cup {b} \subseteq Blob
            BY <1>1
        <3>2. Cardinality(Declared(L)) \in Nat
            BY <2>3, Declarations
        <3>3. Cardinality(Declared(Inserting)) \in Nat /\ Cardinality(Inserting) \in Nat
            BY <1>1, Declarations
        <3>4. Cardinality(Declared(Granted')) \in Nat
            BY <1>1, Declarations
        <3>5. Cardinality(Declared(Inserting \cup {b})) \in Nat
            BY <3>1, Declarations
        <3>6. QED
            BY <3>2, <3>3, <3>4, <3>5
    <2>5. g <= u + n
        <3>1. L \cup (Inserting \cup {b}) \subseteq Blob /\ Inserting \cup {b} \subseteq Blob
            BY <1>1, <2>3
        <3>2. g <= Cardinality(Declared(L \cup (Inserting \cup {b})))
            BY <2>1, <2>4, <3>1, DeclaredGrows
        <3>3. Cardinality(Declared(L \cup (Inserting \cup {b}))) <= u + n
            BY <2>3, <2>4, <3>1, DeclaredJoins
        <3>4. Cardinality(Declared(L \cup (Inserting \cup {b}))) \in Nat
            BY <3>1, Declarations
        <3>5. QED
            BY <3>2, <3>3, <3>4
    <2>6. n <= i + Size[b]
        BY <1>1, <2>4, DeclaredJoins, DeclaredByOne
    <2>7. i <= k * Size[big]
        BY <1>1, <2>4, Declarations
    <2>8. req[r] = Idle
        BY <1>4 DEF InitCheck
    <2>9. k <= Cardinality(Request) - 1
        BY <2>4, <2>8, OthersInsert
    <2>10. PICK c \in Nat, s \in Nat, t \in Nat, q \in Nat :
              c = Cardinality(Request) /\ s = Size[big] /\ t = Size[b] /\ q = Quota
        BY FS_CardinalityType, ConstantsAssumption
    <2>11. k * s <= (c - 1) * s
        BY <2>9, <2>10
    <2>12. u + t <= q /\ g <= u + n /\ n <= i + t /\ i <= k * s
        BY <2>2, <2>4, <2>5, <2>6, <2>7, <2>10
    <2>13. k * s \in Nat /\ (c - 1) * s \in Int
        BY <2>10
    <2>14. g <= q + (c - 1) * s
        BY <2>10, <2>11, <2>12, <2>13
    <2>15. QED
        BY <1>2, <2>4, <2>10, <2>14
<1>5. QED
    BY <1>3, <1>4, GrantSteps

\* The rows of an account never declare more than the quota and, for each handler but
\* one, once more the biggest upload.
THEOREM QuotaIsKept == ASSUME Request # {} PROVE Spec => []QuotaHolds
<1>1. Init => QuotaInv
    <2> SUFFICES ASSUME Init, NEW big \in Blob
                 PROVE  Cardinality(Declared(Granted)) <= Quota + (Cardinality(Request) - 1) * Size[big]
        BY DEF QuotaInv
    <2>1. Granted = {}
        BY DEF Init, Granted, Inserting, Live, Idle
    <2>2. Cardinality(Declared(Granted)) = 0
        BY <2>1, FS_EmptySet DEF Declared
    <2>3. Cardinality(Request) \in Nat \ {0}
        BY FS_CardinalityType, FS_EmptySet, ConstantsAssumption
    <2>4. PICK c \in Nat, s \in Nat : c = Cardinality(Request) - 1 /\ s = Size[big]
        BY <2>3, ConstantsAssumption
    <2>5. c * s \in Nat
        BY <2>4
    <2>6. QED
        BY <2>2, <2>4, <2>5, ConstantsAssumption
<1>2. TypeOK /\ QuotaInv => QuotaHolds
    <2> SUFFICES ASSUME TypeOK, QuotaInv, NEW big \in Blob, \A b \in Blob : Size[b] <= Size[big]
                 PROVE  Used <= Quota + (Cardinality(Request) - 1) * Size[big]
        BY DEF QuotaHolds
    <2>1. Granted \subseteq Blob /\ {b \in Blob : Live(b)} \subseteq Granted
        BY GrantedTypes DEF Granted
    <2>2. Used <= Cardinality(Declared(Granted))
        BY <2>1, DeclaredGrows DEF Used
    <2>3. Used \in Nat /\ Cardinality(Declared(Granted)) \in Nat
        BY <2>1, Declarations DEF Used
    <2>4. Cardinality(Declared(Granted)) <= Quota + (Cardinality(Request) - 1) * Size[big]
        BY DEF QuotaInv
    <2>5. Quota \in Nat /\ (Cardinality(Request) - 1) * Size[big] \in Int
        BY FS_CardinalityType, ConstantsAssumption
    <2>6. QED
        BY <2>2, <2>3, <2>4, <2>5
<1>3. QED
    BY <1>1, <1>2, TypeCorrect, QuotaStep, PTL DEF Spec
=============================================================================
