------------------------- MODULE AbsWriterRefinement -------------------------
(***************************************************************************)
(* The stage/commit writer of abs_writer.go implements the atomic store of *)
(* AtomicBlobStore under the refinement mapping of AbsWriter: the          *)
(* committed blobs are the store, a Write waiting for GetProperties has    *)
(* put its blob, and staging, reading and listing are internal steps.      *)
(* The content of a put blob is the whole stream because WholeInv holds   *)
(* in the state after the commit (AbsWriterProofs).                        *)
(***************************************************************************)
EXTENDS AbsWriterProofs

(* The abstract phase of every Write under the refinement mapping.        *)
absPhase == [v \in Writers |-> AbstractPhase(v)]

(* A step of Write(w) that leaves the other Writes alone changes the       *)
(* abstract phase of w only.                                               *)
LEMMA PhaseOfOne ==
    ASSUME NEW w \in Writers, \A v \in Writers \ {w} : wr'[v] = wr[v]
    PROVE  absPhase' = [absPhase EXCEPT ![w] = AbstractPhase(w)']
  BY DEF absPhase, AbstractPhase

(* The writers start where the atomic store starts: every Write is        *)
(* writing and no blob is committed.                                       *)
LEMMA RefInit == Init => Store!Init
  <1> SUFFICES ASSUME Init PROVE Store!Init
    OBVIOUS
  <1>1. \A v \in Writers : AbstractPhase(v) = "writing"
    BY DEF Init, AbstractPhase
  <1>2. QED
    BY <1>1 DEF Init, Store!Init
(* A step that moves no Write between abstract phases and leaves paths,    *)
(* streams, committed blobs and the delete count alone is a stutter of the *)
(* atomic store.                                                           *)
LEMMA InternalStep ==
    ASSUME NEW w \in Writers, \A v \in Writers \ {w} : wr'[v] = wr[v],
           AbstractPhase(w)' = AbstractPhase(w),
           UNCHANGED <<path, input, blob, deletes>>
    PROVE  [Store!Next]_Store!vars
  <1>1. absPhase' = absPhase
    BY PhaseOfOne DEF absPhase
  <1>2. UNCHANGED Store!vars
    BY <1>1 DEF Store!vars, absPhase
  <1>3. QED
    BY <1>2

(* A Write that fails before committing returns its error: the atomic      *)
(* store's Return from writing to failed.                                  *)
LEMMA FailWriting ==
    ASSUME NEW w \in Writers, \A v \in Writers \ {w} : wr'[v] = wr[v],
           AbstractPhase(w) = "writing", wr'[w].pc = "failed",
           UNCHANGED <<path, input, blob, deletes>>
    PROVE  Store!Next
  <1>1. AbstractPhase(w)' = "failed"
    BY DEF AbstractPhase
  <1>2. absPhase' = [absPhase EXCEPT ![w] = "failed"] /\ absPhase[w] = "writing"
    BY <1>1, PhaseOfOne DEF absPhase
  <1>3. Store!Return(w)
    BY <1>2 DEF Store!Return, absPhase
  <1>4. QED
    BY <1>3 DEF Store!Next

(* A Write whose blob is committed returns: GetProperties answers or fails. *)
LEMMA ReturnPut ==
    ASSUME NEW w \in Writers, \A v \in Writers \ {w} : wr'[v] = wr[v],
           AbstractPhase(w) = "put", AbstractPhase(w)' \in {"done", "failed"},
           UNCHANGED <<path, input, blob, deletes>>
    PROVE  Store!Next
  <1>1. /\ absPhase' \in {[absPhase EXCEPT ![w] = "done"],
                          [absPhase EXCEPT ![w] = "failed"]}
        /\ absPhase[w] = "put"
    BY PhaseOfOne DEF absPhase
  <1>2. Store!Return(w)
    BY <1>1 DEF Store!Return, absPhase
  <1>3. QED
    BY <1>2 DEF Store!Next
(* The Write phases before the commit map to writing.                      *)
WritingPcs == {"open", "read", "stage", "retry", "commit"}

(* A step of Write(w) within the writing phases, or from them to failure,  *)
(* that touches no committed blob is a stutter or a failed Return.         *)
LEMMA WritingStep ==
    ASSUME NEW w \in Writers, \A v \in Writers \ {w} : wr'[v] = wr[v],
           wr[w].pc \in WritingPcs, wr'[w].pc \in WritingPcs \cup {"failed"},
           UNCHANGED <<path, input, blob, deletes>>
    PROVE  [Store!Next]_Store!vars
  <1>1. AbstractPhase(w) = "writing"
    BY DEF AbstractPhase, WritingPcs
  <1>2. CASE wr'[w].pc \in WritingPcs
    <2>1. AbstractPhase(w)' = "writing"
      BY <1>2 DEF AbstractPhase, WritingPcs
    <2>2. QED
      BY <1>1, <2>1, InternalStep
  <1>3. CASE wr'[w].pc = "failed"
    BY <1>1, <1>3, FailWriting
  <1>4. QED
    BY <1>2, <1>3

(* The blocks CommitBlockList(w) names, when all are staged, are the       *)
(* pieces of w's whole stream.                                             *)
LEMMA CommitContent ==
    ASSUME WholeInv, NEW w \in Writers, wr[w].pc = "commit",
           \A i \in 1 .. Len(wr[w].ids) :
              \E e \in staged[path[w]] : e.id = wr[w].ids[i]
    PROVE  [i \in 1 .. Len(wr[w].ids) |->
              (CHOOSE e \in staged[path[w]] : e.id = wr[w].ids[i]).blk]
             = Stream(w, input[w])
  <1>1. PICK J \in Nat : J = Len(wr[w].ids)
    BY DEF WholeInv, TypeOK, WriterStates
  <1>2. /\ path[w] \in Keys /\ wr[w].ids = [i \in 1 .. J |-> <<w, i>>]
        /\ J = NumChunks(input[w])
    BY <1>1 DEF WholeInv, WriteProgress
  <1>3. ASSUME NEW i \in 1 .. J
        PROVE  (CHOOSE e \in staged[path[w]] : e.id = wr[w].ids[i]).blk
                 = Piece(w, input[w], i)
    <2>1. PICK c \in staged[path[w]] :
             c = CHOOSE e \in staged[path[w]] : e.id = wr[w].ids[i]
      BY <1>1
    <2>2. c.id = <<w, i>>
      BY <1>1, <1>2, <2>1
    <2>3. QED
      BY <1>2, <2>1, <2>2 DEF WholeInv, StagedBlocksRight
  <1>4. QED
    BY <1>1, <1>2, <1>3 DEF Stream

(* One try of StageBlock changes only Write(w)'s state, and leaves it      *)
(* reading, committing, retrying or failed.                                *)
LEMMA AttemptPc ==
    ASSUME wr \in [Writers -> WriterStates], NEW w \in Writers,
           NEW cnt, NEW bp, Attempt(w, cnt, bp)
    PROVE  /\ \A v \in Writers \ {w} : wr'[v] = wr[v]
           /\ wr'[w].pc \in {"read", "commit", "retry", "failed"}
  <1>1. CASE wr' = [wr EXCEPT ![w].ids = Append(@, NewId(w)), ![w].tries = 0,
                              ![w].cnt = cnt, ![w].bp = wr[w].n,
                              ![w].pc = IF wr[w].eof THEN "commit" ELSE "read"]
    <2>1. \A v \in Writers \ {w} : wr'[v] = wr[v]
      BY <1>1
    <2>2. wr'[w].pc = IF wr[w].eof THEN "commit" ELSE "read"
      BY <1>1
    <2>3. QED
      BY <2>1, <2>2
  <1>2. CASE \E p \in bp .. wr[w].n :
               wr' = [wr EXCEPT ![w].bp = p, ![w].cnt = cnt,
                                ![w].tries = @ + 1, ![w].pc = "retry"]
    <2>1. PICK p \in bp .. wr[w].n :
               wr' = [wr EXCEPT ![w].bp = p, ![w].cnt = cnt,
                                ![w].tries = @ + 1, ![w].pc = "retry"]
      BY <1>2
    <2>2. \A v \in Writers \ {w} : wr'[v] = wr[v]
      BY <2>1
    <2>3. wr'[w].pc = "retry"
      BY <2>1
    <2>4. QED
      BY <2>2, <2>3
  <1>3. CASE Fail(w)
    BY <1>3 DEF Fail
  <1>4. QED
    BY <1>1, <1>2, <1>3 DEF Attempt

(* Open, Read, StageBlock and RetryStage are internal to the writing       *)
(* phase, or end the Write with an error.                                  *)
LEMMA LoopRef ==
    ASSUME WholeInv, NEW w \in Writers,
           Open(w) \/ Read(w) \/ StageBlock(w) \/ RetryStage(w)
    PROVE  [Store!Next]_Store!vars
  <1>0. wr \in [Writers -> WriterStates]
    BY DEF WholeInv, TypeOK
  <1>1. wr[w] \in WriterStates
    BY <1>0
  <1>2. wr[w].pc \in WritingPcs
    BY DEF Open, Read, StageBlock, RetryStage, WritingPcs
  <1>3. UNCHANGED <<path, input, blob, deletes>>
    BY DEF Open, Read, StageBlock, RetryStage
  <1>4. /\ \A v \in Writers \ {w} : wr'[v] = wr[v]
        /\ wr'[w].pc \in WritingPcs \cup {"failed"}
    <2>1. CASE Open(w)
      <3>1. CASE wr' = [wr EXCEPT ![w].pc = "read"]
        BY <1>0, <3>1 DEF WritingPcs
      <3>2. CASE Fail(w)
        BY <1>0, <3>2 DEF Fail
      <3>3. QED
        BY <2>1, <3>1, <3>2 DEF Open
    <2>2. CASE Read(w)
      <3>1. PICK n : n = ReadFull(input[w], wr[w].pos)
        OBVIOUS
      <3>2. CASE wr' = [wr EXCEPT ![w].pc = "commit", ![w].n = 0]
        BY <1>0, <3>2 DEF WritingPcs
      <3>3. CASE wr' = [wr EXCEPT ![w].pc = "stage", ![w].n = n,
                                  ![w].pos = @ + n, ![w].bp = 0,
                                  ![w].eof = n < ChunkLimit]
        <4>1. \A v \in Writers \ {w} : wr'[v] = wr[v]
          BY <1>0, <3>3
        <4>2. wr'[w].pc = "stage"
          BY <1>0, <3>3
        <4>3. QED
          BY <4>1, <4>2 DEF WritingPcs
      <3>4. CASE Fail(w)
        BY <1>0, <3>4 DEF Fail
      <3>5. QED
        BY <2>2, <3>1, <3>2, <3>3, <3>4 DEF Read
    <2>3. CASE StageBlock(w)
      <3>1. PICK cnt, bp : Attempt(w, cnt, bp)
        BY <2>3 DEF StageBlock
      <3>2. QED
        BY <1>0, <3>1, AttemptPc DEF WritingPcs
    <2>4. CASE RetryStage(w)
      <3>1. PICK cnt, bp : Attempt(w, cnt, bp)
        BY <2>4 DEF RetryStage
      <3>2. QED
        BY <1>0, <3>1, AttemptPc DEF WritingPcs
    <2>5. QED
      BY <2>1, <2>2, <2>3, <2>4
  <1>5. QED
    BY <1>2, <1>3, <1>4, WritingStep
(* A CommitBlockList that takes effect is the atomic Put of w's whole      *)
(* stream, whether its answer arrives or is lost; one the service refuses *)
(* is a failed Return.                                                     *)
LEMMA CommitRef ==
    ASSUME WholeInv, NEW w \in Writers, CommitBlockList(w)
    PROVE  [Store!Next]_Store!vars
  <1>0. wr \in [Writers -> WriterStates] /\ path[w] \in Keys
        /\ wr[w].pc = "commit" /\ BadPath \notin Keys
    BY WriterAssumption DEF WholeInv, TypeOK, WriteProgress, CommitBlockList
  <1>1. UNCHANGED <<path, input, deletes>>
    BY DEF CommitBlockList
  <1>2. CASE Fail(w) /\ UNCHANGED <<staged, blob>>
    <2>1. /\ \A v \in Writers \ {w} : wr'[v] = wr[v]
          /\ wr'[w].pc = "failed"
      BY <1>0, <1>2 DEF Fail
    <2>2. UNCHANGED <<path, input, blob, deletes>>
      BY <1>1, <1>2
    <2>3. wr[w].pc \in WritingPcs /\ wr'[w].pc \in WritingPcs \cup {"failed"}
      <3>1. wr[w].pc = "commit"
        BY <1>0
      <3>2. wr'[w].pc = "failed"
        BY <2>1
      <3>3. QED
        BY <3>1, <3>2 DEF WritingPcs
    <2>4. QED
      BY <2>1, <2>2, <2>3, WritingStep
  <1>3. ASSUME NEW to \in {"props", "failed"},
               wr' = [wr EXCEPT ![w].pc = to],
               \A i \in 1 .. Len(wr[w].ids) :
                  \E e \in staged[path[w]] : e.id = wr[w].ids[i],
               blob' = [blob EXCEPT ![path[w]] =
                  [by |-> w,
                   blocks |-> [i \in 1 .. Len(wr[w].ids) |->
                     (CHOOSE e \in staged[path[w]] : e.id = wr[w].ids[i]).blk]]]
        PROVE  Store!Next
    <2>1. blob' = [blob EXCEPT ![path[w]] =
                     [by |-> w, blocks |-> Stream(w, input[w])]]
      BY <1>0, <1>3, CommitContent
    <2>2. /\ \A v \in Writers \ {w} : wr'[v] = wr[v]
          /\ wr'[w].pc = to
      BY <1>0, <1>3
    <2>3. AbstractPhase(w) = "writing"
      BY <1>0 DEF AbstractPhase
    <2>4. AbstractPhase(w)' \in {"put", "failed"}
      <3>1. CASE to = "props"
        BY <2>2, <3>1, Zenon DEF AbstractPhase
      <3>2. CASE to = "failed"
        BY <2>2, <3>2, Zenon DEF AbstractPhase
      <3>3. QED
        BY <3>1, <3>2
    <2>5. /\ absPhase' \in {[absPhase EXCEPT ![w] = "put"],
                            [absPhase EXCEPT ![w] = "failed"]}
          /\ absPhase[w] = "writing"
      BY <2>2, <2>3, <2>4, PhaseOfOne DEF absPhase
    <2>6. Store!Put(w)
      BY <1>0, <1>1, <2>1, <2>5 DEF Store!Put, absPhase
    <2>7. QED
      BY <2>6 DEF Store!Next
  <1>4. QED
    BY <1>2, <1>3 DEF CommitBlockList, Fail

(* GetProperties ends a Write whose blob is put: Return from put.          *)
LEMMA PropsRef ==
    ASSUME WholeInv, NEW w \in Writers, GetProperties(w)
    PROVE  Store!Next
  <1>0. wr \in [Writers -> WriterStates] /\ wr[w].pc = "props"
    BY DEF WholeInv, TypeOK, GetProperties
  <1>1. /\ \A v \in Writers \ {w} : wr'[v] = wr[v]
        /\ wr'[w].pc \in {"done", "failed"}
    <2>1. CASE wr' = [wr EXCEPT ![w].pc = "done"]
      BY <1>0, <2>1
    <2>2. CASE Fail(w)
      BY <1>0, <2>2 DEF Fail
    <2>3. QED
      BY <2>1, <2>2 DEF GetProperties
  <1>2. AbstractPhase(w) = "put" /\ AbstractPhase(w)' \in {"done", "failed"}
    BY <1>0, <1>1 DEF AbstractPhase
  <1>3. QED
    BY <1>1, <1>2, ReturnPut DEF GetProperties

(* The retention pass's List is internal; its Delete is the store's.       *)
LEMMA RetentionRef ==
    ASSUME WholeInv, List \/ \E k \in Keys : Delete(k)
    PROVE  [Store!Next]_Store!vars
  <1>1. CASE List
    BY <1>1 DEF List, Store!vars, absPhase, AbstractPhase
  <1>2. ASSUME NEW k \in Keys, Delete(k) PROVE Store!Next
    <2>1. Store!Delete(k)
      BY <1>2 DEF Delete, Store!Delete, absPhase, AbstractPhase
    <2>2. QED
      BY <2>1 DEF Store!Next
  <1>3. QED
    BY <1>1, <1>2

-----------------------------------------------------------------------------
(* The inductive invariant that the abs_upload run checks holds in every   *)
(* behaviour, for every value of the constants: each Write's loop state    *)
(* matches what it has read and staged, every staged block is the right   *)
(* piece of its writer's stream, and every committed blob is whole.        *)
THEOREM WholeInvCorrect == Spec => []WholeInv
  BY InitWhole, WholeNext, PTL DEF Spec

(***************************************************************************)
(* The stage/commit upload of abs_writer.go is atomic: for every chunk     *)
(* size, stream length, retry budget and number of writers and keys, every *)
(* behaviour of concurrent Writes, with retried and failed StageBlock      *)
(* requests, commits whose answer is lost and the retention pass's List   *)
(* and Delete, is a behaviour of AtomicBlobStore, in which a Write puts   *)
(* its whole stream in one step or fails.  Each step is matched using      *)
(* WholeInv before and after it.                                           *)
(***************************************************************************)
THEOREM UploadRefinement == Spec => AtomicUpload
  <1>1. Spec => []WholeInv
    BY WholeInvCorrect
  <1>2. WholeInv /\ [Next]_vars => [Store!Next]_Store!vars
    <2> SUFFICES ASSUME WholeInv, [Next]_vars PROVE [Store!Next]_Store!vars
      OBVIOUS
    <2>1. ASSUME NEW w \in Writers,
                 Open(w) \/ Read(w) \/ StageBlock(w) \/ RetryStage(w)
          PROVE  [Store!Next]_Store!vars
      BY <2>1, LoopRef
    <2>2. ASSUME NEW w \in Writers, CommitBlockList(w)
          PROVE  [Store!Next]_Store!vars
      BY <2>2, CommitRef
    <2>3. ASSUME NEW w \in Writers, GetProperties(w)
          PROVE  [Store!Next]_Store!vars
      BY <2>3, PropsRef
    <2>4. CASE List \/ \E k \in Keys : Delete(k)
      BY <2>4, RetentionRef
    <2>5. CASE UNCHANGED vars
      BY <2>5 DEF vars, Store!vars, absPhase, AbstractPhase
    <2>6. QED
      BY <2>1, <2>2, <2>3, <2>4, <2>5 DEF Next
  <1>3. QED
    BY <1>1, <1>2, RefInit, PTL DEF Spec, AtomicUpload, Store!Spec
=============================================================================
