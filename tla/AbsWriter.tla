----------------------------- MODULE AbsWriter -----------------------------
(***************************************************************************)
(* The Azure Blob Storage writer of src/pkg/backup/writer/abs_writer.go,   *)
(* with the concurrent calls that share a storage account: Write calls     *)
(* (one per backup execution) and the retention pass that Lists the        *)
(* backups of a resource and Deletes the oldest.                           *)
(*                                                                         *)
(* A Write parses container/key, checks the container, then loops:         *)
(* io.ReadFull into a buffer of ChunkLimit bytes, StageBlock of what was   *)
(* read under a fresh block id, until EOF; then CommitBlockList of the ids *)
(* and GetProperties for the ContentLength it returns.  StageBlock sends   *)
(* the buffer through readSeekNopCloser: the SDK measures it with          *)
(* Seek(0, SeekEnd), rewinds it with Seek(0, SeekStart) before the first   *)
(* try and every retry, and reads it to EOF.                               *)
(*                                                                         *)
(* Bytes are abstract: byte i of writer w's snapshot stream is (w, i), so  *)
(* a block is the range [from, from + size) of one writer's stream.        *)
(***************************************************************************)
EXTENDS Integers, Sequences, FiniteSets

CONSTANTS
    Writers,     \* concurrent Write calls
    Keys,        \* container/key paths that parse
    BadPath,     \* a path ParseBucketAndKey rejects
    NoBlob,      \* no committed blob under a key
    ChunkLimit,  \* AzureBlobBlockChunkLimitInBytes (100 MiB in the code)
    MaxLen,      \* bound: length of a snapshot stream
    MaxTries,    \* the SDK retry policy's attempts per request
    MaxDeletes   \* bound: blobs the retention pass deletes

ASSUME WriterAssumption ==
    /\ ChunkLimit \in Nat \ {0} /\ MaxLen \in Nat
    /\ MaxTries \in Nat \ {0} /\ MaxDeletes \in Nat
    /\ BadPath \notin Keys

Blocks == [w : Writers, from : 0 .. MaxLen, size : 0 .. MaxLen]

BlockIds == Writers \X Nat

Phases == {"open", "read", "stage", "retry", "commit", "props", "done",
           "failed"}

VARIABLES
    path,      \* path[w]: the path given to Write
    input,     \* input[w]: length of the snapshot stream r
    wr,        \* wr[w]: the local state of Write(w)
    staged,    \* staged[k]: the uncommitted blocks of blob k (id -> block)
    blob,      \* blob[k]: who committed blob k and its block list, or NoBlob
    listed,    \* the keys the retention pass's last List returned
    deletes    \* blobs deleted by the retention pass

vars == <<path, input, wr, staged, blob, listed, deletes>>

-----------------------------------------------------------------------------
(***************************************************************************)
(* readSeekNopCloser (abs_writer.go:132-169).  Seek computes the absolute  *)
(* position from the whence and refuses a negative one; Read copies from   *)
(* pos and returns EOF at the end, so reading the body to EOF from pos     *)
(* yields len - pos bytes.                                                 *)
(***************************************************************************)
SeekError == -1

Seek(pos, len, offset, whence) ==
    LET abs == CASE whence = "start"   -> offset
                 [] whence = "current" -> pos + offset
                 [] whence = "end"     -> len + offset
    IN IF abs < 0 THEN SeekError ELSE abs

ReadToEOF(pos, len) == IF pos >= len THEN 0 ELSE len - pos

(* Mutant of ReadFull: n taken as len(buf) instead of the count read.     *)
ReadFullWholeBuffer(l, p) == ChunkLimit

(* io.ReadFull(r, buf) on a stream of l bytes of which p are consumed:     *)
(* n = min(len(buf), l - p).                                               *)
ReadFull(l, p) == IF l - p < ChunkLimit THEN l - p ELSE ChunkLimit

(* The reference: the blocks that hold a stream of l bytes cut into        *)
(* ChunkLimit-byte pieces, the last one short.                             *)
NumChunks(l) == (l + ChunkLimit - 1) \div ChunkLimit

Piece(w, l, i) ==
    [w |-> w, from |-> (i - 1) * ChunkLimit,
     size |-> IF i * ChunkLimit <= l THEN ChunkLimit
              ELSE l - (i - 1) * ChunkLimit]

Stream(w, l) == [i \in 1 .. NumChunks(l) |-> Piece(w, l, i)]

Chunks(w) == Stream(w, input[w])

-----------------------------------------------------------------------------
(* Mutant of NewId: a block id that repeats within one upload.            *)
NewIdReused(w) == <<w, 1>>

(* blockID: base64 of a fresh uuid, unique to this block.                  *)
NewId(w) == <<w, Len(wr[w].ids) + 1>>

Fail(w) == wr' = [wr EXCEPT ![w].pc = "failed"]

(* ParseBucketAndKey, then containerClient.GetProperties: a path without  *)
(* container/key or a missing (or unreachable) container ends Write.       *)
Open(w) ==
    /\ wr[w].pc = "open"
    /\ \/ path[w] # BadPath /\ wr' = [wr EXCEPT ![w].pc = "read"]
       \/ Fail(w)
    /\ UNCHANGED <<path, input, staged, blob, listed, deletes>>

(* Mutant of Read: the EOF test moved before StageBlock, so a short last  *)
(* chunk is read but never staged.                                         *)
ReadBreakBeforeStage(w) ==
    /\ wr[w].pc = "read"
    /\ LET n == ReadFull(input[w], wr[w].pos) IN
       \/ /\ n < ChunkLimit
          /\ wr' = [wr EXCEPT ![w].pc = "commit", ![w].n = 0]
       \/ /\ n = ChunkLimit
          /\ wr' = [wr EXCEPT ![w].pc = "stage", ![w].n = n,
                              ![w].pos = @ + n, ![w].bp = 0, ![w].eof = FALSE]
       \/ Fail(w)
    /\ UNCHANGED <<path, input, staged, blob, listed, deletes>>

(* One turn of the loop up to StageBlock: io.ReadFull(r, buf) returns      *)
(* n = min(ChunkLimit, bytes left); n = 0 (EOF) breaks out of the loop, a  *)
(* short chunk comes with ErrUnexpectedEOF, which ends the loop after it   *)
(* is staged.  A stream error (the etcd snapshot stream breaks) returns.   *)
Read(w) ==
    /\ wr[w].pc = "read"
    /\ LET n == ReadFull(input[w], wr[w].pos) IN
       \/ /\ n = 0
          /\ wr' = [wr EXCEPT ![w].pc = "commit", ![w].n = 0]
       \/ /\ n > 0
          /\ wr' = [wr EXCEPT ![w].pc = "stage", ![w].n = n,
                              ![w].pos = @ + n, ![w].bp = 0,
                              ![w].eof = n < ChunkLimit]
       \/ Fail(w)
    /\ UNCHANGED <<path, input, staged, blob, listed, deletes>>

(***************************************************************************)
(* One try of the StageBlock request whose body is at position bp and      *)
(* whose ContentLength was measured as cnt.  The body is read to EOF; the  *)
(* HTTP client refuses a body of another length.  The try succeeds: the    *)
(* block is staged under the new id, appended to blockIDs, and the loop    *)
(* goes on (or breaks after a short chunk).  Or it fails after reading the *)
(* body up to any point, the service having stored the block or not, and  *)
(* the SDK tries again while tries are left; or Write returns the error   *)
(* (tries used up, or the context deadline passed).                        *)
(***************************************************************************)
Attempt(w, cnt, bp) ==
    LET blk == [w |-> w, from |-> wr[w].pos - wr[w].n + bp,
                size |-> ReadToEOF(bp, wr[w].n)]
        put == [staged EXCEPT ![path[w]] =
                  {e \in @ : e.id # NewId(w)} \cup {[id |-> NewId(w), blk |-> blk]}]
        stored == IF blk.size = cnt THEN {staged, put} ELSE {staged}
    IN
    \/ /\ blk.size = cnt
       /\ staged' = put
       /\ wr' = [wr EXCEPT ![w].ids = Append(@, NewId(w)), ![w].tries = 0,
                           ![w].cnt = cnt, ![w].bp = wr[w].n,
                           ![w].pc = IF wr[w].eof THEN "commit" ELSE "read"]
    \/ /\ wr[w].tries + 1 < MaxTries
       /\ staged' \in stored
       /\ \E p \in bp .. wr[w].n :
            wr' = [wr EXCEPT ![w].bp = p, ![w].cnt = cnt,
                             ![w].tries = @ + 1, ![w].pc = "retry"]
    \/ /\ staged' \in stored
       /\ Fail(w)

(* StageBlock(ctx, blockID, streamingBytes(buf[:n])): the SDK measures the *)
(* body with Seek(0, SeekEnd) and rewinds it with Seek(0, SeekStart).      *)
StageBlock(w) ==
    /\ wr[w].pc = "stage"
    /\ LET cnt == Seek(wr[w].bp, wr[w].n, 0, "end") IN
       Attempt(w, cnt, Seek(cnt, wr[w].n, 0, "start"))
    /\ UNCHANGED <<path, input, blob, listed, deletes>>

(* The SDK's retry policy rewinds the body with Seek(0, SeekStart).        *)
RetryStage(w) ==
    /\ wr[w].pc = "retry"
    /\ Attempt(w, wr[w].cnt, Seek(wr[w].bp, wr[w].n, 0, "start"))
    /\ UNCHANGED <<path, input, blob, listed, deletes>>

(***************************************************************************)
(* CommitBlockList(ctx, blockIDs): the service makes the listed blocks the *)
(* blob's content and discards the blob's other uncommitted blocks; a list *)
(* naming a block it no longer has is refused (InvalidBlockList).  The     *)
(* commit may take effect and its answer still be lost (deadline passed).  *)
(***************************************************************************)
CommitBlockList(w) ==
    LET k == path[w]
        ids == wr[w].ids
        listedOK == \A i \in 1 .. Len(ids) : \E e \in staged[k] : e.id = ids[i]
        commit ==
          /\ blob' = [blob EXCEPT ![k] =
                [by |-> w,
                 blocks |-> [i \in 1 .. Len(ids) |->
                               (CHOOSE e \in staged[k] : e.id = ids[i]).blk]]]
          /\ staged' = [staged EXCEPT ![k] = {}]
    IN
    /\ wr[w].pc = "commit"
    /\ \/ listedOK /\ commit /\ wr' = [wr EXCEPT ![w].pc = "props"]
       \/ listedOK /\ commit /\ Fail(w)
       \/ Fail(w) /\ UNCHANGED <<staged, blob>>
    /\ UNCHANGED <<path, input, listed, deletes>>

(* blobClient.GetProperties: Write returns the blob's ContentLength (not  *)
(* modelled); it fails if the blob is gone (deleted meanwhile) or the      *)
(* deadline passed.                                                        *)
GetProperties(w) ==
    /\ wr[w].pc = "props"
    /\ \/ blob[path[w]] # NoBlob /\ wr' = [wr EXCEPT ![w].pc = "done"]
       \/ Fail(w)
    /\ UNCHANGED <<path, input, staged, blob, listed, deletes>>

-----------------------------------------------------------------------------
(***************************************************************************)
(* The retention pass (handleABS, not under src/, spec 4.2 step 4): List   *)
(* the prefix, then Delete blobs it returned.  List pages through the      *)
(* committed blobs only; a failed page makes it return nothing.            *)
(***************************************************************************)
List ==
    /\ \/ listed' = {k \in Keys : blob[k] # NoBlob}
       \/ listed' = {}
    /\ listed' # listed
    /\ UNCHANGED <<path, input, wr, staged, blob, deletes>>

(* blobClient.Delete: the blob and its uncommitted blocks go; deleting a   *)
(* blob that is already gone is an error that changes nothing.             *)
Delete(k) ==
    /\ k \in listed /\ blob[k] # NoBlob
    /\ deletes < MaxDeletes
    /\ deletes' = deletes + 1
    /\ blob' = [blob EXCEPT ![k] = NoBlob]
    /\ staged' = [staged EXCEPT ![k] = {}]
    /\ listed' = listed \ {k}
    /\ UNCHANGED <<path, input, wr>>

-----------------------------------------------------------------------------
Init ==
    /\ path \in [Writers -> Keys \cup {BadPath}]
    /\ input \in [Writers -> 0 .. MaxLen]
    /\ wr = [w \in Writers |->
               [pc |-> "open", pos |-> 0, n |-> 0, eof |-> FALSE, bp |-> 0,
                cnt |-> 0, tries |-> 0, ids |-> <<>>]]
    /\ staged = [k \in Keys |-> {}]
    /\ blob = [k \in Keys |-> NoBlob]
    /\ listed = {}
    /\ deletes = 0

Next ==
    \/ \E w \in Writers :
         \/ Open(w) \/ Read(w) \/ StageBlock(w) \/ RetryStage(w)
         \/ CommitBlockList(w) \/ GetProperties(w)
    \/ List
    \/ \E k \in Keys : Delete(k)

Spec == Init /\ [][Next]_vars

-----------------------------------------------------------------------------
WriterStates ==
    [pc : Phases, pos : 0 .. MaxLen, n : 0 .. ChunkLimit, eof : BOOLEAN,
     bp : 0 .. ChunkLimit, cnt : 0 .. ChunkLimit, tries : 0 .. MaxTries,
     ids : Seq(BlockIds)]

TypeOK ==
    /\ path \in [Writers -> Keys \cup {BadPath}]
    /\ input \in [Writers -> 0 .. MaxLen]
    /\ wr \in [Writers -> WriterStates]
    /\ staged \in [Keys -> SUBSET [id : BlockIds, blk : Blocks]]
    /\ blob \in [Keys -> [by : Writers, blocks : Seq(Blocks)] \cup {NoBlob}]
    /\ listed \subseteq Keys
    /\ deletes \in 0 .. MaxDeletes

(***************************************************************************)
(* No partial object is ever visible (spec 4.4 point 5 and the two-phase   *)
(* stage/commit contract): whatever stream errors, failed or retried       *)
(* StageBlock requests, concurrent writers of the same key and deletes     *)
(* happen, a committed blob holds exactly the whole stream of the Write    *)
(* that committed it, in order.                                            *)
(***************************************************************************)
CommittedBlobsWhole ==
    \A k \in Keys :
        blob[k] # NoBlob =>
            /\ path[blob[k].by] = k
            /\ blob[k].blocks = Chunks(blob[k].by)

(***************************************************************************)
(* Why no partial blob can be committed.  A Write that has staged j blocks *)
(* holds the ids (w, 1) .. (w, j) and has read j full chunks, plus the     *)
(* chunk it is staging; it reaches CommitBlockList only with every chunk   *)
(* of its stream in blockIDs.  Every staged block (w, i) holds the i-th    *)
(* piece of w's stream and sits under w's path.                            *)
(***************************************************************************)
WriteProgress(w) ==
    LET j == Len(wr[w].ids) IN
    /\ wr[w].ids = [i \in 1 .. j |-> <<w, i>>]
    /\ wr[w].pc = "open" => wr[w].pos = 0 /\ j = 0
    /\ wr[w].pc \notin {"open", "failed"} => path[w] \in Keys
    /\ wr[w].pc = "read" => wr[w].pos = j * ChunkLimit /\ wr[w].pos <= input[w]
    /\ wr[w].pc \in {"stage", "retry"} =>
         /\ wr[w].n = ReadFull(input[w], j * ChunkLimit) /\ wr[w].n > 0
         /\ wr[w].pos = j * ChunkLimit + wr[w].n /\ wr[w].pos <= input[w]
         /\ wr[w].eof = (wr[w].n < ChunkLimit)
    /\ wr[w].pc = "retry" => wr[w].cnt = wr[w].n /\ wr[w].bp <= wr[w].n
    /\ wr[w].pc = "commit" => j = NumChunks(input[w])

StagedBlocksRight ==
    \A k \in Keys : \A e \in staged[k] :
        /\ e.id[2] # 0 /\ (e.id[2] - 1) * ChunkLimit < input[e.id[1]]
        /\ path[e.id[1]] = k
        /\ e.blk = Piece(e.id[1], input[e.id[1]], e.id[2])

(***************************************************************************)
(* The inductive invariant behind CommittedBlobsWhole: besides the types,  *)
(* every Write's loop state matches how much of its stream it has read and *)
(* staged, and every staged block holds the right piece of its writer's   *)
(* stream, whatever retries, failures and concurrent commits happen.       *)
(***************************************************************************)
WholeInv ==
    /\ TypeOK
    /\ \A w \in Writers : WriteProgress(w)
    /\ StagedBlocksRight
    /\ CommittedBlobsWhole

(***************************************************************************)
(* Refinement: the stage/commit writer implements the atomic store.  The  *)
(* committed blobs are the store; a Write that has committed and waits for *)
(* GetProperties has put its blob; the retention pass's List is internal.  *)
(***************************************************************************)
AbstractPhase(w) ==
    CASE wr[w].pc = "props"  -> "put"
      [] wr[w].pc = "done"   -> "done"
      [] wr[w].pc = "failed" -> "failed"
      [] OTHER              -> "writing"

Store == INSTANCE AtomicBlobStore
           WITH phase <- [w \in Writers |-> AbstractPhase(w)],
                store <- blob, Whole <- Stream

(* The upload is atomic: every behaviour of the writer, the service and    *)
(* the retention pass is one of the atomic store's.                        *)
AtomicUpload == Store!Spec
=============================================================================
