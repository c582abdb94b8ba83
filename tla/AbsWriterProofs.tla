-------------------------- MODULE AbsWriterProofs --------------------------
(***************************************************************************)
(* Proofs about the Azure blob writer model: for every chunk size, stream  *)
(* length, number of writers and keys and retry budget, no partial blob is *)
(* ever committed.                                                         *)
(***************************************************************************)
EXTENDS AbsWriter, TLAPS

(* The constants' assumptions the proofs use: chunk size and retry budget   *)
(* positive, bounds natural.                                                *)
LEMMA Consts ==
    /\ ChunkLimit \in Nat \ {0} /\ MaxLen \in Nat
    /\ MaxTries \in Nat \ {0} /\ MaxDeletes \in Nat
  BY WriterAssumption

USE Consts

-----------------------------------------------------------------------------
(* Arithmetic of the read loop.                                           *)

(* A stream that ends exactly after j chunks has j pieces.                *)
LEMMA NumChunksExact ==
    ASSUME NEW j \in Nat
    PROVE  NumChunks(j * ChunkLimit) = j
  BY DEF NumChunks

(* A stream that ends n bytes into chunk j + 1 has j + 1 pieces.          *)
LEMMA NumChunksShort ==
    ASSUME NEW j \in Nat, NEW n \in 1 .. ChunkLimit - 1
    PROVE  NumChunks(j * ChunkLimit + n) = j + 1
  BY DEF NumChunks

(* ReadFull reads nothing only at the end of the stream.                  *)
LEMMA ReadEOF ==
    ASSUME NEW l \in Nat, NEW p \in Nat, p <= l, ReadFull(l, p) = 0
    PROVE  l = p
  BY DEF ReadFull

(* Appending the next id keeps blockIDs the ids (w, 1) .. (w, j + 1).      *)
LEMMA AppendIds ==
    ASSUME NEW w, NEW j \in Nat, NEW s, s = [i \in 1 .. j |-> <<w, i>>]
    PROVE  /\ Append(s, <<w, j + 1>>) = [i \in 1 .. j + 1 |-> <<w, i>>]
           /\ Len(Append(s, <<w, j + 1>>)) = j + 1
  OBVIOUS

(* The chunk staged after j full chunks: what it tells about the stream.   *)
LEMMA StageArith ==
    ASSUME NEW l \in Nat, NEW j \in Nat, NEW n \in Int, NEW pos \in Int,
           n = ReadFull(l, j * ChunkLimit), n > 0,
           pos = j * ChunkLimit + n, pos <= l
    PROVE  /\ n \in 1 .. ChunkLimit /\ j * ChunkLimit < l
           /\ n < ChunkLimit => NumChunks(l) = j + 1
           /\ ~(n < ChunkLimit) => pos = (j + 1) * ChunkLimit
  <1>1. n \in 1 .. ChunkLimit /\ j * ChunkLimit < l
    BY DEF ReadFull
  <1>2. ASSUME n < ChunkLimit PROVE NumChunks(l) = j + 1
    <2>1. n \in 1 .. ChunkLimit - 1 /\ l = j * ChunkLimit + n
      BY <1>1, <1>2 DEF ReadFull
    <2>2. QED
      BY <2>1, NumChunksShort
  <1>3. ASSUME ~(n < ChunkLimit) PROVE pos = (j + 1) * ChunkLimit
    BY <1>1, <1>3
  <1>4. QED
    BY <1>1, <1>2, <1>3

(* A function on 1 .. n is a sequence.                                    *)
LEMMA FunSeq ==
    ASSUME NEW S, NEW n \in Nat, NEW f \in [1 .. n -> S]
    PROVE  f \in Seq(S)
  OBVIOUS

(* The chunk ReadFull returns after j full chunks is piece j + 1.          *)
LEMMA PieceNext ==
    ASSUME NEW w \in Writers, NEW l \in Nat, NEW j \in Nat, j * ChunkLimit < l
    PROVE  Piece(w, l, j + 1) =
             [w |-> w, from |-> j * ChunkLimit, size |-> ReadFull(l, j * ChunkLimit)]
  BY DEF Piece, ReadFull

(* A piece that starts inside a stream of at most MaxLen bytes is a block. *)
LEMMA PieceType ==
    ASSUME NEW w \in Writers, NEW l \in 0 .. MaxLen, NEW i \in Nat \ {0},
           (i - 1) * ChunkLimit < l
    PROVE  Piece(w, l, i) \in Blocks
  BY DEF Piece, Blocks

(* The SDK measures the body with Seek(0, SeekEnd), rewinds it with        *)
(* Seek(0, SeekStart), and a body read from 0 yields all n bytes.          *)
LEMMA SeekFacts ==
    ASSUME NEW pos \in Nat, NEW len \in Nat
    PROVE  /\ Seek(pos, len, 0, "end") = len
           /\ Seek(pos, len, 0, "start") = 0
           /\ ReadToEOF(0, len) = len
  BY DEF Seek, SeekError, ReadToEOF

-----------------------------------------------------------------------------
(* Record updates of a Write's state keep its type.                       *)

LEMMA PcType ==
    ASSUME NEW r \in WriterStates, NEW p \in Phases
    PROVE  [r EXCEPT !.pc = p] \in WriterStates
  BY DEF WriterStates

(* Write returning an error (Fail) keeps wr well typed.                     *)
LEMMA FailType ==
    ASSUME NEW w \in Writers, wr \in [Writers -> WriterStates],
           wr' = [wr EXCEPT ![w].pc = "failed"]
    PROVE  wr' \in [Writers -> WriterStates]
  BY PcType DEF Phases

(* The state after io.ReadFull returned n > 0 bytes is well typed.          *)
LEMMA ReadType ==
    ASSUME NEW r \in WriterStates, NEW n \in 1 .. ChunkLimit,
           r.pos + n <= MaxLen, NEW b \in BOOLEAN
    PROVE  [r EXCEPT !.pc = "stage", !.n = n, !.pos = @ + n, !.bp = 0,
                     !.eof = b] \in WriterStates
  <1>1. /\ n \in 0 .. ChunkLimit /\ 0 \in 0 .. ChunkLimit
        /\ r.pos + n \in 0 .. MaxLen
    BY DEF WriterStates
  <1>2. QED
    BY <1>1, Zenon DEF WriterStates, Phases

(* The state after io.ReadFull hit EOF is well typed.                       *)
LEMMA CommitPhaseType ==
    ASSUME NEW r \in WriterStates
    PROVE  [r EXCEPT !.pc = "commit", !.n = 0] \in WriterStates
  <1>1. 0 \in 0 .. ChunkLimit
    OBVIOUS
  <1>2. QED
    BY <1>1, Zenon DEF WriterStates, Phases

(* The state after a StageBlock that succeeded is well typed.               *)
LEMMA StagedType ==
    ASSUME NEW r \in WriterStates, NEW id \in BlockIds, NEW c \in 0 .. ChunkLimit,
           NEW p \in {"commit", "read"}
    PROVE  [r EXCEPT !.ids = Append(@, id), !.tries = 0, !.cnt = c,
                     !.bp = r.n, !.pc = p] \in WriterStates
  <1>1. /\ 0 \in 0 .. MaxTries /\ r.n \in 0 .. ChunkLimit
        /\ Append(r.ids, id) \in Seq(BlockIds)
    BY DEF WriterStates
  <1>2. QED
    BY <1>1, Zenon DEF WriterStates, Phases

(* The state after a StageBlock try that the SDK retries is well typed.     *)
LEMMA RetryType ==
    ASSUME NEW r \in WriterStates, NEW c \in 0 .. ChunkLimit,
           r.tries + 1 < MaxTries, NEW p \in 0 .. r.n
    PROVE  [r EXCEPT !.bp = p, !.cnt = c, !.tries = @ + 1, !.pc = "retry"]
             \in WriterStates
  <1>1. /\ p \in 0 .. ChunkLimit /\ r.tries + 1 \in 0 .. MaxTries
    BY DEF WriterStates
  <1>2. QED
    BY <1>1, Zenon DEF WriterStates, Phases

-----------------------------------------------------------------------------
(* Steps that leave the other writers alone keep their progress.          *)

LEMMA OthersProgress ==
    ASSUME NEW w \in Writers, \A v \in Writers \ {w} : wr'[v] = wr[v],
           path' = path, input' = input,
           \A v \in Writers : WriteProgress(v)
    PROVE  \A v \in Writers \ {w} : WriteProgress(v)'
  <1> SUFFICES ASSUME NEW v \in Writers \ {w} PROVE WriteProgress(v)'
    OBVIOUS
  <1>1. wr'[v] = wr[v] /\ path'[v] = path[v] /\ input'[v] = input[v]
    OBVIOUS
  <1>2. WriteProgress(v)
    OBVIOUS
  <1>3. QED
    BY <1>1, <1>2, Zenon DEF WriteProgress

(* A Write that returns an error keeps the invariant when nothing else    *)
(* changes.                                                               *)
LEMMA FailStep ==
    ASSUME WholeInv, NEW w \in Writers, Fail(w),
           UNCHANGED <<path, input, staged, blob, listed, deletes>>
    PROVE  WholeInv'
  <1>1. wr' \in [Writers -> WriterStates]
    BY FailType DEF Fail, WholeInv, TypeOK
  <1>2. /\ wr'[w].ids = wr[w].ids /\ wr'[w].pc = "failed"
        /\ \A v \in Writers \ {w} : wr'[v] = wr[v]
    BY DEF Fail, WholeInv, TypeOK, WriterStates
  <1>3. WriteProgress(w)'
    BY <1>2 DEF WholeInv, WriteProgress
  <1>4. \A v \in Writers \ {w} : WriteProgress(v)'
    BY <1>2, OthersProgress DEF WholeInv
  <1>5. TypeOK' /\ StagedBlocksRight' /\ CommittedBlobsWhole'
    BY <1>1 DEF WholeInv, TypeOK, StagedBlocksRight, CommittedBlobsWhole, Chunks
  <1>6. QED
    BY <1>3, <1>4, <1>5 DEF WholeInv

(* A step that changes only the phase of one Write, to a phase whose      *)
(* progress conjuncts hold, keeps the invariant.                          *)
LEMMA PhaseStep ==
    ASSUME WholeInv, NEW w \in Writers, NEW p \in Phases,
           wr' = [wr EXCEPT ![w].pc = p],
           UNCHANGED <<path, input, staged, blob, listed, deletes>>,
           WriteProgress(w)'
    PROVE  WholeInv'
  <1>1. wr' \in [Writers -> WriterStates]
    BY PcType DEF WholeInv, TypeOK
  <1>2. \A v \in Writers \ {w} : wr'[v] = wr[v]
    BY DEF WholeInv, TypeOK
  <1>3. \A v \in Writers \ {w} : WriteProgress(v)'
    BY <1>2, OthersProgress DEF WholeInv
  <1>4. TypeOK' /\ StagedBlocksRight' /\ CommittedBlobsWhole'
    BY <1>1 DEF WholeInv, TypeOK, StagedBlocksRight, CommittedBlobsWhole, Chunks
  <1>5. QED
    BY <1>3, <1>4 DEF WholeInv

(* ParseBucketAndKey and the container check keep the invariant.            *)
LEMMA OpenStep ==
    ASSUME WholeInv, NEW w \in Writers, Open(w)
    PROVE  WholeInv'
  <1>1. CASE path[w] # BadPath /\ wr' = [wr EXCEPT ![w].pc = "read"]
    <2>1. /\ wr'[w] = [wr[w] EXCEPT !.pc = "read"]
          /\ wr[w] \in WriterStates /\ path[w] \in Keys
      BY <1>1 DEF WholeInv, TypeOK
    <2>2. wr[w].pc = "open" /\ WriteProgress(w)
      BY DEF Open, WholeInv
    <2>3. /\ wr'[w].pc = "read" /\ wr'[w].ids = wr[w].ids
          /\ wr'[w].pos = wr[w].pos /\ input[w] \in Nat
      BY <2>1 DEF WholeInv, TypeOK, WriterStates
    <2>4. WriteProgress(w)'
      BY <2>1, <2>2, <2>3 DEF Open, WriteProgress
    <2>5. QED
      BY <1>1, <2>4, PhaseStep DEF Open, Phases
  <1>2. CASE Fail(w)
    BY <1>2, FailStep DEF Open
  <1>3. QED
    BY <1>1, <1>2 DEF Open

(* blobClient.GetProperties after the commit keeps the invariant.           *)
LEMMA GetPropertiesStep ==
    ASSUME WholeInv, NEW w \in Writers, GetProperties(w)
    PROVE  WholeInv'
  <1>1. CASE wr' = [wr EXCEPT ![w].pc = "done"]
    <2>1. /\ wr'[w] = [wr[w] EXCEPT !.pc = "done"]
          /\ wr[w] \in WriterStates
      BY <1>1 DEF WholeInv, TypeOK
    <2>2. wr[w].pc = "props" /\ WriteProgress(w)
      BY DEF GetProperties, WholeInv
    <2>3. WriteProgress(w)'
      BY <2>1, <2>2 DEF GetProperties, WriteProgress, WriterStates
    <2>4. QED
      BY <1>1, <2>3, PhaseStep DEF GetProperties, Phases
  <1>2. CASE Fail(w)
    BY <1>2, FailStep DEF GetProperties
  <1>3. QED
    BY <1>1, <1>2 DEF GetProperties

(* The retention pass's List keeps the invariant.                           *)
LEMMA ListStep ==
    ASSUME WholeInv, List
    PROVE  WholeInv'
  <1>1. listed' \subseteq Keys
    BY DEF List
  <1>2. TypeOK'
    BY <1>1 DEF List, WholeInv, TypeOK
  <1>3. QED
    BY <1>2 DEF List, WholeInv, WriteProgress, StagedBlocksRight,
                CommittedBlobsWhole, Chunks

(* The retention pass's Delete keeps the invariant: a deleted blob is       *)
(* NoBlob and its staged blocks go with it.                                 *)
LEMMA DeleteStep ==
    ASSUME WholeInv, NEW k \in Keys, Delete(k)
    PROVE  WholeInv'
  <1>1. TypeOK'
    BY DEF Delete, WholeInv, TypeOK
  <1>2. StagedBlocksRight'
    BY DEF Delete, WholeInv, TypeOK, StagedBlocksRight
  <1>3. CommittedBlobsWhole'
    BY DEF Delete, WholeInv, TypeOK, CommittedBlobsWhole, Chunks
  <1>4. \A w \in Writers : WriteProgress(w)'
    BY DEF Delete, WholeInv, WriteProgress
  <1>5. QED
    BY <1>1, <1>2, <1>3, <1>4 DEF WholeInv

(* A step that changes only one Write's local state, well typed and with  *)
(* its progress conjuncts holding, keeps the invariant.                   *)
LEMMA WriterStep ==
    ASSUME WholeInv, NEW w \in Writers, wr' \in [Writers -> WriterStates],
           \A v \in Writers \ {w} : wr'[v] = wr[v],
           UNCHANGED <<path, input, staged, blob, listed, deletes>>,
           WriteProgress(w)'
    PROVE  WholeInv'
  <1>1. \A v \in Writers \ {w} : WriteProgress(v)'
    BY OthersProgress DEF WholeInv
  <1>2. TypeOK' /\ StagedBlocksRight' /\ CommittedBlobsWhole'
    BY DEF WholeInv, TypeOK, StagedBlocksRight, CommittedBlobsWhole, Chunks
  <1>3. QED
    BY <1>1, <1>2 DEF WholeInv

(* One io.ReadFull of the upload loop keeps the invariant: at EOF the       *)
(* ids already cover the stream, otherwise the chunk read is the next piece. *)
LEMMA ReadStep ==
    ASSUME WholeInv, NEW w \in Writers, Read(w)
    PROVE  WholeInv'
  <1> DEFINE r == wr[w]
             j == Len(r.ids)
             n == ReadFull(input[w], r.pos)
  <1>1. /\ r \in WriterStates /\ r.pc = "read" /\ j \in Nat
        /\ input[w] \in 0 .. MaxLen /\ path[w] \in Keys
        /\ r.pos = j * ChunkLimit /\ r.pos <= input[w]
        /\ r.ids = [i \in 1 .. j |-> <<w, i>>]
    <2>1. r \in WriterStates /\ input[w] \in 0 .. MaxLen
      BY DEF WholeInv, TypeOK
    <2>2. j \in Nat
      BY <2>1 DEF WriterStates
    <2>3. WriteProgress(w) /\ r.pc = "read"
      BY DEF WholeInv, Read
    <2>4. QED
      BY <2>1, <2>2, <2>3 DEF WriteProgress
  <1>2. /\ n \in 0 .. ChunkLimit /\ n <= input[w] - r.pos
        /\ n < ChunkLimit => n = input[w] - r.pos
    BY <1>1 DEF ReadFull
  <1>3. CASE n = 0 /\ wr' = [wr EXCEPT ![w].pc = "commit", ![w].n = 0]
    <2>1. wr' \in [Writers -> WriterStates]
      BY <1>1, <1>3, CommitPhaseType DEF WholeInv, TypeOK
    <2>2. /\ wr'[w].pc = "commit" /\ wr'[w].ids = r.ids
          /\ \A v \in Writers \ {w} : wr'[v] = wr[v]
      BY <1>1, <1>3 DEF WholeInv, TypeOK, WriterStates
    <2>0. n = 0
      BY <1>3
    <2>3. input[w] = j * ChunkLimit
      <3>1. r.pos \in Nat /\ input[w] \in Nat
        BY <1>1
      <3>2. QED
        BY <1>1, <2>0, <3>1, ReadEOF
    <2>4. NumChunks(input[w]) = j
      BY <1>1, <2>3, NumChunksExact
    <2>5. Len(wr'[w].ids) = j
      BY <2>2
    <2>6. WriteProgress(w)'
      BY <1>1, <2>2, <2>4, <2>5 DEF Read, WriteProgress
    <2>7. QED
      BY <2>1, <2>2, <2>6, WriterStep DEF Read
  <1>4. CASE /\ n > 0
             /\ wr' = [wr EXCEPT ![w].pc = "stage", ![w].n = n,
                                 ![w].pos = @ + n, ![w].bp = 0,
                                 ![w].eof = n < ChunkLimit]
    <2>1. /\ n \in 1 .. ChunkLimit /\ r.pos + n <= MaxLen
          /\ (n < ChunkLimit) \in BOOLEAN
      BY <1>1, <1>2, <1>4
    <2>2. wr' \in [Writers -> WriterStates]
      BY <1>1, <1>4, <2>1, ReadType DEF WholeInv, TypeOK
    <2>3. /\ wr'[w].pc = "stage" /\ wr'[w].ids = r.ids /\ wr'[w].n = n
          /\ wr'[w].pos = r.pos + n /\ wr'[w].eof = (n < ChunkLimit)
          /\ \A v \in Writers \ {w} : wr'[v] = wr[v]
      BY <1>1, <1>4 DEF WholeInv, TypeOK, WriterStates
    <2>4. /\ Len(wr'[w].ids) = j /\ wr'[w].n = ReadFull(input[w], j * ChunkLimit)
          /\ wr'[w].n > 0 /\ wr'[w].pos = j * ChunkLimit + wr'[w].n
          /\ wr'[w].pos <= input[w]
      <3>1. Len(wr'[w].ids) = j
        BY <2>3
      <3>2. wr'[w].n = ReadFull(input[w], j * ChunkLimit) /\ wr'[w].n > 0
        BY <1>1, <1>4, <2>3
      <3>3. wr'[w].pos = j * ChunkLimit + wr'[w].n /\ wr'[w].pos <= input[w]
        BY <1>1, <1>2, <2>1, <2>3
      <3>4. QED
        BY <3>1, <3>2, <3>3
    <2>6. WriteProgress(w)'
      BY <1>1, <2>3, <2>4 DEF Read, WriteProgress
    <2>7. QED
      BY <2>2, <2>3, <2>6, WriterStep DEF Read
  <1>5. CASE Fail(w)
    BY <1>5, FailStep DEF Read
  <1>6. QED
    BY <1>3, <1>4, <1>5 DEF Read

(* Staging piece j + 1 of w's stream under id (w, j + 1) keeps every      *)
(* staged block right.                                                    *)
LEMMA StagedPut ==
    ASSUME WholeInv, NEW w \in Writers, NEW j \in Nat,
           j * ChunkLimit < input[w], path[w] \in Keys,
           staged' = [staged EXCEPT ![path[w]] =
                        {e \in @ : e.id # <<w, j + 1>>}
                          \cup {[id |-> <<w, j + 1>>,
                                 blk |-> Piece(w, input[w], j + 1)]}],
           path' = path, input' = input
    PROVE  /\ staged' \in [Keys -> SUBSET [id : BlockIds, blk : Blocks]]
           /\ StagedBlocksRight'
  <1> DEFINE new == [id |-> <<w, j + 1>>, blk |-> Piece(w, input[w], j + 1)]
  <1>1. input[w] \in 0 .. MaxLen /\ j + 1 \in Nat \ {0}
    BY DEF WholeInv, TypeOK
  <1>2. new \in [id : BlockIds, blk : Blocks]
    <2>1. Piece(w, input[w], j + 1) \in Blocks
      BY <1>1, PieceType
    <2>2. <<w, j + 1>> \in BlockIds
      BY <1>1 DEF BlockIds
    <2>3. QED
      BY <2>1, <2>2
  <1>3. \A k \in Keys : \A e \in staged'[k] : e \in staged[k] \/ (k = path[w] /\ e = new)
    BY DEF WholeInv, TypeOK
  <1>4. staged' \in [Keys -> SUBSET [id : BlockIds, blk : Blocks]]
    BY <1>2, <1>3 DEF WholeInv, TypeOK
  <1>5. StagedBlocksRight'
    BY <1>1, <1>3 DEF WholeInv, StagedBlocksRight
  <1>6. QED
    BY <1>4, <1>5

(* A step that changes one Write's local state and the staged blocks,     *)
(* each keeping its part of the invariant, keeps the invariant.           *)
LEMMA StagingStep ==
    ASSUME WholeInv, NEW w \in Writers, wr' \in [Writers -> WriterStates],
           \A v \in Writers \ {w} : wr'[v] = wr[v],
           UNCHANGED <<path, input, blob, listed, deletes>>,
           WriteProgress(w)',
           staged' \in [Keys -> SUBSET [id : BlockIds, blk : Blocks]],
           StagedBlocksRight'
    PROVE  WholeInv'
  <1>1. \A v \in Writers \ {w} : WriteProgress(v)'
    BY OthersProgress DEF WholeInv
  <1>2. TypeOK' /\ CommittedBlobsWhole'
    BY DEF WholeInv, TypeOK, CommittedBlobsWhole, Chunks
  <1>3. QED
    BY <1>1, <1>2 DEF WholeInv

(* One try of StageBlock, with the body measured as n bytes and rewound    *)
(* to 0, keeps the invariant: whether it succeeds, is retried or fails,    *)
(* any block it stores is the next piece of the stream.                   *)
LEMMA AttemptStep ==
    ASSUME WholeInv, NEW w \in Writers, wr[w].pc \in {"stage", "retry"},
           Attempt(w, wr[w].n, 0),
           UNCHANGED <<path, input, blob, listed, deletes>>
    PROVE  WholeInv'
  <1>0a. PICK r : r = wr[w]
    OBVIOUS
  <1>0b. PICK j : j = Len(r.ids)
    OBVIOUS
  <1> USE <1>0a, <1>0b
  <1> DEFINE put == [staged EXCEPT ![path[w]] =
                       {e \in staged[path[w]] : e.id # <<w, j + 1>>}
                         \cup {[id |-> <<w, j + 1>>,
                                blk |-> Piece(w, input[w], j + 1)]}]
  <1>1. /\ r \in WriterStates /\ j \in Nat /\ input[w] \in 0 .. MaxLen
        /\ path[w] \in Keys /\ r.ids = [i \in 1 .. j |-> <<w, i>>]
        /\ r.n = ReadFull(input[w], j * ChunkLimit) /\ r.n > 0
        /\ r.pos = j * ChunkLimit + r.n /\ r.pos <= input[w]
        /\ r.eof = (r.n < ChunkLimit)
    <2>1. r \in WriterStates /\ input[w] \in 0 .. MaxLen
      BY DEF WholeInv, TypeOK
    <2>2. j \in Nat
      BY <2>1 DEF WriterStates
    <2>3. WriteProgress(w)
      BY DEF WholeInv
    <2>4. QED
      BY <2>1, <2>2, <2>3 DEF WriteProgress
  <1>2. /\ r.n \in 1 .. ChunkLimit /\ j * ChunkLimit < input[w]
        /\ r.n < ChunkLimit => NumChunks(input[w]) = j + 1
        /\ ~(r.n < ChunkLimit) => r.pos = (j + 1) * ChunkLimit
    <2>1. r.n \in Int /\ r.pos \in Int /\ input[w] \in Nat
      BY <1>1 DEF WriterStates
    <2>2. /\ r.n = ReadFull(input[w], j * ChunkLimit) /\ r.n > 0
          /\ r.pos = j * ChunkLimit + r.n /\ r.pos <= input[w] /\ j \in Nat
      BY <1>1
    <2> HIDE <1>0a, <1>0b
    <2>3. QED
      BY <2>1, <2>2, StageArith
  <1>3. /\ [w |-> w, from |-> r.pos - r.n + 0, size |-> ReadToEOF(0, r.n)]
             = Piece(w, input[w], j + 1)
        /\ ReadToEOF(0, r.n) = r.n
    <2>1. ReadToEOF(0, r.n) = r.n
      BY <1>2, SeekFacts
    <2>2. Piece(w, input[w], j + 1) =
            [w |-> w, from |-> j * ChunkLimit, size |-> r.n]
      <3>1. input[w] \in Nat
        BY <1>1
      <3>2. j \in Nat /\ j * ChunkLimit < input[w]
             /\ r.n = ReadFull(input[w], j * ChunkLimit)
        BY <1>1, <1>2
      <3>3. QED
        BY <3>1, <3>2, PieceNext
    <2>3. r.pos - r.n + 0 = j * ChunkLimit
      BY <1>1, <1>2
    <2>4. QED
      BY <2>1, <2>2, <2>3
  <1>4. NewId(w) = <<w, j + 1>>
    BY DEF NewId
  <1>5. ASSUME staged' \in {staged, put}
        PROVE  /\ staged' \in [Keys -> SUBSET [id : BlockIds, blk : Blocks]]
               /\ StagedBlocksRight'
    <2>1. CASE staged' = staged
      BY <2>1 DEF WholeInv, TypeOK, StagedBlocksRight
    <2>2. CASE staged' = put
      <3>1. j \in Nat /\ j * ChunkLimit < input[w] /\ path[w] \in Keys
        BY <1>1, <1>2
      <3>2. QED
        BY <2>2, <3>1, StagedPut
    <2>3. QED
      BY <1>5, <2>1, <2>2
  <1>6. \/ /\ staged' = put
           /\ wr' = [wr EXCEPT ![w].ids = Append(@, NewId(w)), ![w].tries = 0,
                               ![w].cnt = r.n, ![w].bp = r.n,
                               ![w].pc = IF r.eof THEN "commit" ELSE "read"]
        \/ /\ r.tries + 1 < MaxTries
           /\ staged' \in {staged, put}
           /\ \E p \in 0 .. r.n :
                wr' = [wr EXCEPT ![w].bp = p, ![w].cnt = r.n,
                                 ![w].tries = @ + 1, ![w].pc = "retry"]
        \/ staged' \in {staged, put} /\ Fail(w)
    <2> DEFINE blkM == [w |-> w, from |-> wr[w].pos - wr[w].n + 0,
                        size |-> ReadToEOF(0, wr[w].n)]
               putM == [staged EXCEPT ![path[w]] =
                          {e \in staged[path[w]] : e.id # NewId(w)}
                            \cup {[id |-> NewId(w), blk |-> blkM]}]
               storedM == IF blkM.size = wr[w].n THEN {staged, putM} ELSE {staged}
    <2>1. \/ /\ blkM.size = wr[w].n
             /\ staged' = putM
             /\ wr' = [wr EXCEPT ![w].ids = Append(@, NewId(w)), ![w].tries = 0,
                                 ![w].cnt = wr[w].n, ![w].bp = wr[w].n,
                                 ![w].pc = IF wr[w].eof THEN "commit" ELSE "read"]
          \/ /\ wr[w].tries + 1 < MaxTries
             /\ staged' \in storedM
             /\ \E p \in 0 .. wr[w].n :
                  wr' = [wr EXCEPT ![w].bp = p, ![w].cnt = wr[w].n,
                                   ![w].tries = @ + 1, ![w].pc = "retry"]
          \/ staged' \in storedM /\ Fail(w)
      BY Zenon DEF Attempt
    <2>2. putM = put /\ storedM = {staged, put}
      BY <1>3, <1>4
    <2>3. QED
      BY <2>1, <2>2
  <1>7. CASE /\ staged' = put
             /\ wr' = [wr EXCEPT ![w].ids = Append(@, NewId(w)), ![w].tries = 0,
                                 ![w].cnt = r.n, ![w].bp = r.n,
                                 ![w].pc = IF r.eof THEN "commit" ELSE "read"]
    <2>1. wr' \in [Writers -> WriterStates]
      <3>1. (IF r.eof THEN "commit" ELSE "read") \in {"commit", "read"}
        OBVIOUS
      <3>2. r.n \in 0 .. ChunkLimit /\ <<w, j + 1>> \in BlockIds
        BY <1>1, <1>2 DEF BlockIds
      <3>3. [r EXCEPT !.ids = Append(@, <<w, j + 1>>), !.tries = 0, !.cnt = r.n,
                      !.bp = r.n, !.pc = IF r.eof THEN "commit" ELSE "read"]
              \in WriterStates
        BY <1>1, <3>1, <3>2, StagedType
      <3>4. QED
        BY <1>4, <1>7, <3>3 DEF WholeInv, TypeOK
    <2>2. /\ wr'[w].ids = Append(r.ids, <<w, j + 1>>)
          /\ wr'[w].pc = IF r.eof THEN "commit" ELSE "read"
          /\ wr'[w].pos = r.pos
          /\ \A v \in Writers \ {w} : wr'[v] = wr[v]
      BY <1>1, <1>4, <1>7 DEF WholeInv, TypeOK, WriterStates
    <2>3. /\ wr'[w].ids = [i \in 1 .. j + 1 |-> <<w, i>>]
          /\ Len(wr'[w].ids) = j + 1
      <3>1. Append(r.ids, <<w, j + 1>>) = [i \in 1 .. j + 1 |-> <<w, i>>]
            /\ Len(Append(r.ids, <<w, j + 1>>)) = j + 1
        <4>1. j \in Nat /\ r.ids = [i \in 1 .. j |-> <<w, i>>]
          BY <1>1
        <4>2. QED
          BY <4>1, AppendIds
      <3>2. QED
        BY <2>2, <3>1
    <2>4. CASE r.eof
      <3>1. NumChunks(input[w]) = j + 1
        BY <1>1, <1>2, <2>4
      <3>2. WriteProgress(w)'
        BY <1>1, <2>2, <2>3, <2>4, <3>1 DEF WriteProgress
      <3>3. QED
        BY <1>5, <1>7, <2>1, <2>2, <3>2, StagingStep
    <2>5. CASE ~r.eof
      <3>1. r.pos = (j + 1) * ChunkLimit
        BY <1>1, <1>2, <2>5
      <3>2. WriteProgress(w)'
        BY <1>1, <2>2, <2>3, <2>5, <3>1 DEF WriteProgress
      <3>3. QED
        BY <1>5, <1>7, <2>1, <2>2, <3>2, StagingStep
    <2>6. QED
      BY <2>4, <2>5
  <1>8. CASE /\ r.tries + 1 < MaxTries
             /\ staged' \in {staged, put}
             /\ \E p \in 0 .. r.n :
                  wr' = [wr EXCEPT ![w].bp = p, ![w].cnt = r.n,
                                   ![w].tries = @ + 1, ![w].pc = "retry"]
    <2>1. PICK p \in 0 .. r.n :
            wr' = [wr EXCEPT ![w].bp = p, ![w].cnt = r.n,
                             ![w].tries = @ + 1, ![w].pc = "retry"]
      BY <1>8
    <2>2. wr' \in [Writers -> WriterStates]
      <3>1. r.n \in 0 .. ChunkLimit /\ r.tries + 1 < MaxTries
        BY <1>2, <1>8
      <3>2. [r EXCEPT !.bp = p, !.cnt = r.n, !.tries = @ + 1, !.pc = "retry"]
              \in WriterStates
        BY <1>1, <2>1, <3>1, RetryType
      <3>3. QED
        BY <2>1, <3>2 DEF WholeInv, TypeOK
    <2>3. /\ wr'[w].ids = r.ids /\ wr'[w].pc = "retry" /\ wr'[w].n = r.n
          /\ wr'[w].pos = r.pos /\ wr'[w].eof = r.eof
          /\ wr'[w].cnt = r.n /\ wr'[w].bp = p
          /\ \A v \in Writers \ {w} : wr'[v] = wr[v]
      BY <1>1, <2>1 DEF WholeInv, TypeOK, WriterStates
    <2>4. WriteProgress(w)'
      BY <1>1, <2>3 DEF WriteProgress
    <2>5. QED
      BY <1>5, <1>8, <2>2, <2>3, <2>4, StagingStep
  <1>9. CASE staged' \in {staged, put} /\ Fail(w)
    <2>1. wr' \in [Writers -> WriterStates]
      BY <1>9, FailType DEF Fail, WholeInv, TypeOK
    <2>2. /\ wr'[w].ids = r.ids /\ wr'[w].pc = "failed"
          /\ \A v \in Writers \ {w} : wr'[v] = wr[v]
      BY <1>9 DEF Fail, WholeInv, TypeOK, WriterStates
    <2>3. WriteProgress(w)'
      BY <1>1, <2>2 DEF WriteProgress
    <2>4. QED
      BY <1>5, <1>9, <2>1, <2>2, <2>3, StagingStep
  <1>10. QED
    BY <1>6, <1>7, <1>8, <1>9

(* StageBlock measures its body as n bytes and rewinds it to 0, so its      *)
(* tries are Attempt(w, n, 0).                                              *)
LEMMA StageBlockStep ==
    ASSUME WholeInv, NEW w \in Writers, StageBlock(w)
    PROVE  WholeInv'
  <1>1. wr[w].n \in Nat /\ wr[w].bp \in Nat
    BY DEF WholeInv, TypeOK, WriterStates
  <1>2. /\ Seek(wr[w].bp, wr[w].n, 0, "end") = wr[w].n
        /\ Seek(wr[w].n, wr[w].n, 0, "start") = 0
    BY <1>1, SeekFacts
  <1>3. Attempt(w, wr[w].n, 0)
    BY <1>2, Zenon DEF StageBlock
  <1>4. QED
    BY <1>3, AttemptStep DEF StageBlock

(* The SDK's retry rewinds the body to 0 and keeps the measured length n.   *)
LEMMA RetryStageStep ==
    ASSUME WholeInv, NEW w \in Writers, RetryStage(w)
    PROVE  WholeInv'
  <1>1. wr[w].n \in Nat /\ wr[w].bp \in Nat /\ wr[w].cnt = wr[w].n
    <2>1. WriteProgress(w) /\ wr[w].pc = "retry"
      BY DEF WholeInv, RetryStage
    <2>2. QED
      BY <2>1 DEF WholeInv, TypeOK, WriterStates, WriteProgress
  <1>2. Seek(wr[w].bp, wr[w].n, 0, "start") = 0
    BY <1>1, SeekFacts
  <1>3. Attempt(w, wr[w].n, 0)
    BY <1>1, <1>2, Zenon DEF RetryStage
  <1>4. QED
    BY <1>3, AttemptStep DEF RetryStage

(* CommitBlockList of the ids (w, 1) .. (w, J), every one of which names  *)
(* a staged block, commits exactly the pieces of w's stream.              *)
LEMMA CommitStep ==
    ASSUME WholeInv, NEW w \in Writers, CommitBlockList(w)
    PROVE  WholeInv'
  <1>0a. PICK k : k = path[w]
    OBVIOUS
  <1>0b. PICK J : J = Len(wr[w].ids)
    OBVIOUS
  <1>1. /\ wr[w].pc = "commit" /\ UNCHANGED <<path, input, listed, deletes>>
        /\ wr[w] \in WriterStates /\ input[w] \in 0 .. MaxLen /\ J \in Nat
        /\ k \in Keys /\ wr[w].ids = [i \in 1 .. J |-> <<w, i>>]
        /\ J = NumChunks(input[w])
    <2>1. wr[w] \in WriterStates /\ input[w] \in 0 .. MaxLen
      BY DEF WholeInv, TypeOK
    <2>2. J \in Nat
      BY <1>0b, <2>1 DEF WriterStates
    <2>3. wr[w].pc = "commit" /\ UNCHANGED <<path, input, listed, deletes>>
          /\ WriteProgress(w)
      BY DEF CommitBlockList, WholeInv
    <2>4. QED
      BY <1>0a, <1>0b, <2>1, <2>2, <2>3 DEF WriteProgress
  <1>2. CASE Fail(w) /\ UNCHANGED <<staged, blob>>
    BY <1>1, <1>2, FailStep
  <1> DEFINE chosen(i) == CHOOSE e \in staged[path[w]] : e.id = wr[w].ids[i]
  <1>3. ASSUME /\ \A i \in 1 .. J : \E e \in staged[path[w]] : e.id = wr[w].ids[i]
               /\ blob' = [blob EXCEPT ![k] =
                             [by |-> w, blocks |-> [i \in 1 .. J |-> chosen(i).blk]]]
               /\ staged' = [staged EXCEPT ![k] = {}]
        PROVE  /\ blob' \in [Keys -> [by : Writers, blocks : Seq(Blocks)] \cup {NoBlob}]
               /\ staged' \in [Keys -> SUBSET [id : BlockIds, blk : Blocks]]
               /\ StagedBlocksRight' /\ CommittedBlobsWhole'
    <2>1. ASSUME NEW i \in 1 .. J
          PROVE  chosen(i).blk = Piece(w, input[w], i) /\ chosen(i).blk \in Blocks
      <3>0. \E e \in staged[path[w]] : e.id = wr[w].ids[i]
        BY <1>3
      <3>1. chosen(i) \in staged[k] /\ chosen(i).id = <<w, i>>
        BY <1>0a, <1>1, <3>0
      <3>2. chosen(i).blk = Piece(w, input[w], i)
        BY <1>1, <3>1 DEF WholeInv, StagedBlocksRight
      <3>3. chosen(i).blk \in Blocks
        BY <1>1, <3>1 DEF WholeInv, TypeOK
      <3>4. QED
        BY <3>2, <3>3
    <2>2. [i \in 1 .. J |-> chosen(i).blk] = Chunks(w)
      BY <1>1, <2>1 DEF Chunks, Stream
    <2>3. [i \in 1 .. J |-> chosen(i).blk] \in Seq(Blocks)
      <3>1. [i \in 1 .. J |-> chosen(i).blk] \in [1 .. J -> Blocks]
        BY <2>1
      <3>2. QED
        BY <1>1, <3>1, FunSeq
    <2>4. blob' \in [Keys -> [by : Writers, blocks : Seq(Blocks)] \cup {NoBlob}]
      BY <1>1, <1>3, <2>3 DEF WholeInv, TypeOK
    <2>5. staged' \in [Keys -> SUBSET [id : BlockIds, blk : Blocks]]
      BY <1>1, <1>3 DEF WholeInv, TypeOK
    <2>6. StagedBlocksRight'
      BY <1>1, <1>3 DEF WholeInv, TypeOK, StagedBlocksRight
    <2>7. CommittedBlobsWhole'
      BY <1>0a, <1>1, <1>3, <2>2 DEF WholeInv, TypeOK, CommittedBlobsWhole, Chunks
    <2>8. QED
      BY <2>4, <2>5, <2>6, <2>7
  <1>4. CASE /\ \A i \in 1 .. J : \E e \in staged[path[w]] : e.id = wr[w].ids[i]
             /\ blob' = [blob EXCEPT ![k] =
                           [by |-> w, blocks |-> [i \in 1 .. J |-> chosen(i).blk]]]
             /\ staged' = [staged EXCEPT ![k] = {}]
             /\ (wr' = [wr EXCEPT ![w].pc = "props"] \/ Fail(w))
    <2>1. wr' \in [Writers -> WriterStates]
      <3>1. CASE wr' = [wr EXCEPT ![w].pc = "props"]
        BY <3>1, PcType DEF Phases, WholeInv, TypeOK
      <3>2. CASE Fail(w)
        BY <3>2, FailType DEF Fail, WholeInv, TypeOK
      <3>3. QED
        BY <1>4, <3>1, <3>2
    <2>2. /\ wr'[w].ids = wr[w].ids /\ wr'[w].pc \in {"props", "failed"}
          /\ \A v \in Writers \ {w} : wr'[v] = wr[v]
      BY <1>4 DEF Fail, WholeInv, TypeOK, WriterStates
    <2>3. WriteProgress(w)'
      BY <1>0a, <1>1, <2>2 DEF WriteProgress
    <2>4. \A v \in Writers \ {w} : WriteProgress(v)'
      BY <1>1, <2>2, OthersProgress DEF WholeInv
    <2>5. QED
      BY <1>1, <1>3, <1>4, <2>1, <2>3, <2>4 DEF WholeInv, TypeOK
  <1>5. QED
    <2>1. \/ Fail(w) /\ UNCHANGED <<staged, blob>>
          \/ /\ \A i \in 1 .. J : \E e \in staged[path[w]] : e.id = wr[w].ids[i]
             /\ blob' = [blob EXCEPT ![k] =
                           [by |-> w, blocks |-> [i \in 1 .. J |-> chosen(i).blk]]]
             /\ staged' = [staged EXCEPT ![k] = {}]
             /\ (wr' = [wr EXCEPT ![w].pc = "props"] \/ Fail(w))
      <3> DEFINE okM == \A i \in 1 .. Len(wr[w].ids) :
                          \E e \in staged[path[w]] : e.id = wr[w].ids[i]
                 commitM ==
                   /\ blob' = [blob EXCEPT ![path[w]] =
                        [by |-> w,
                         blocks |-> [i \in 1 .. Len(wr[w].ids) |->
                           (CHOOSE e \in staged[path[w]] : e.id = wr[w].ids[i]).blk]]]
                   /\ staged' = [staged EXCEPT ![path[w]] = {}]
      <3>1. \/ okM /\ commitM /\ wr' = [wr EXCEPT ![w].pc = "props"]
            \/ okM /\ commitM /\ Fail(w)
            \/ Fail(w) /\ UNCHANGED <<staged, blob>>
        BY Zenon DEF CommitBlockList
      <3>2. okM <=> \A i \in 1 .. J : \E e \in staged[path[w]] : e.id = wr[w].ids[i]
        BY <1>0b
      <3>3. [i \in 1 .. Len(wr[w].ids) |->
               (CHOOSE e \in staged[path[w]] : e.id = wr[w].ids[i]).blk]
              = [i \in 1 .. J |-> chosen(i).blk]
        BY <1>0b
      <3>4. QED
        BY <1>0a, <3>1, <3>2, <3>3
    <2>2. QED
      BY <1>2, <1>4, <2>1

(* The invariant holds before any Write starts.                             *)
LEMMA InitWhole ==
    Init => WholeInv
  <1> SUFFICES ASSUME Init PROVE WholeInv
    OBVIOUS
  <1>1. TypeOK
    <2>1. [pc |-> "open", pos |-> 0, n |-> 0, eof |-> FALSE, bp |-> 0,
           cnt |-> 0, tries |-> 0, ids |-> << >>] \in WriterStates
      <3>1. /\ 0 \in 0 .. MaxLen /\ 0 \in 0 .. ChunkLimit /\ 0 \in 0 .. MaxTries
            /\ << >> \in Seq(BlockIds)
        OBVIOUS
      <3>2. QED
        BY <3>1, Zenon DEF WriterStates, Phases
    <2>2. QED
      BY <2>1 DEF Init, TypeOK
  <1>2. QED
    BY <1>1 DEF Init, WholeInv, WriteProgress, StagedBlocksRight,
                CommittedBlobsWhole

(* Every step of the writers, the service and the retention pass keeps the  *)
(* invariant.                                                               *)
LEMMA WholeNext ==
    WholeInv /\ [Next]_vars => WholeInv'
  <1> SUFFICES ASSUME WholeInv, [Next]_vars PROVE WholeInv'
    OBVIOUS
  <1>1. ASSUME NEW w \in Writers, Open(w) PROVE WholeInv'
    BY <1>1, OpenStep
  <1>2. ASSUME NEW w \in Writers, Read(w) PROVE WholeInv'
    BY <1>2, ReadStep
  <1>3. ASSUME NEW w \in Writers, StageBlock(w) PROVE WholeInv'
    BY <1>3, StageBlockStep
  <1>4. ASSUME NEW w \in Writers, RetryStage(w) PROVE WholeInv'
    BY <1>4, RetryStageStep
  <1>5. ASSUME NEW w \in Writers, CommitBlockList(w) PROVE WholeInv'
    BY <1>5, CommitStep
  <1>6. ASSUME NEW w \in Writers, GetProperties(w) PROVE WholeInv'
    BY <1>6, GetPropertiesStep
  <1>7. CASE List
    BY <1>7, ListStep
  <1>8. ASSUME NEW k \in Keys, Delete(k) PROVE WholeInv'
    BY <1>8, DeleteStep
  <1>9. CASE UNCHANGED vars
    BY <1>9 DEF vars, WholeInv, TypeOK, WriteProgress, StagedBlocksRight,
                CommittedBlobsWhole, Chunks
  <1>10. QED
    BY <1>1, <1>2, <1>3, <1>4, <1>5, <1>6, <1>7, <1>8, <1>9 DEF Next

-----------------------------------------------------------------------------
(***************************************************************************)
(* For every chunk size, stream length, retry budget and number of writers *)
(* and keys, a committed blob holds exactly the whole stream of the Write  *)
(* that committed it: the ReadFull/StageBlock loop of abs_writer.go, with  *)
(* its retried and failed StageBlock requests, concurrent writers of one   *)
(* key and the retention pass's deletes, never commits a partial upload.   *)
(* The invariant is not inductive alone: WholeInv adds what the loop keeps *)
(* of its ids and position (WriteProgress) and what every staged block     *)
(* holds (StagedBlocksRight).                                             *)
(***************************************************************************)
THEOREM WholeCorrect == Spec => []CommittedBlobsWhole
  <1>1. Init => WholeInv
    BY InitWhole
  <1>2. WholeInv /\ [Next]_vars => WholeInv'
    BY WholeNext
  <1>3. WholeInv => CommittedBlobsWhole
    BY DEF WholeInv
  <1>4. QED
    BY <1>1, <1>2, <1>3, PTL DEF Spec

(* The writer's state stays well typed: in particular the position stays  *)
(* within the stream and every block id is a (writer, index) pair.         *)
THEOREM WriterTypeCorrect == Spec => []TypeOK
  <1>1. WholeInv => TypeOK
    BY DEF WholeInv
  <1>2. QED
    BY <1>1, InitWhole, WholeNext, PTL DEF Spec
=============================================================================
