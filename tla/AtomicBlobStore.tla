-------------------------- MODULE AtomicBlobStore --------------------------
(***************************************************************************)
(* What the Writer interface of src/pkg/backup/writer promises a backup    *)
(* handler, as an abstract store: a Write either puts the whole stream it  *)
(* was given under its path in one step, or fails; it may fail after the  *)
(* put took effect (its answer lost).  A Delete removes a stored blob.     *)
(* A blob is the writer that put it and its content, the whole stream.     *)
(***************************************************************************)
EXTENDS Naturals, Sequences

CONSTANTS Writers, Keys, BadPath, NoBlob, ChunkLimit, MaxLen, MaxDeletes,
          Whole(_, _)  \* Whole(w, l): the content of w's stream of length l

VARIABLES
    path,     \* path[w]: the path given to Write(w)
    input,    \* input[w]: the length of w's stream
    phase,    \* phase[w]: writing, put (answer pending), done or failed
    store,    \* store[k]: the blob under k, or NoBlob
    deletes   \* blobs deleted

vars == <<path, input, phase, store, deletes>>

Init ==
    /\ path \in [Writers -> Keys \cup {BadPath}]
    /\ input \in [Writers -> 0 .. MaxLen]
    /\ phase = [w \in Writers |-> "writing"]
    /\ store = [k \in Keys |-> NoBlob]
    /\ deletes = 0

(* The whole stream becomes the blob under w's path, atomically; Write     *)
(* goes on to answer, or returns an error with the put already done.       *)
Put(w) ==
    /\ phase[w] = "writing" /\ path[w] # BadPath
    /\ store' = [store EXCEPT ![path[w]] = [by |-> w, blocks |-> Whole(w, input[w])]]
    /\ \E p \in {"put", "failed"} : phase' = [phase EXCEPT ![w] = p]
    /\ UNCHANGED <<path, input, deletes>>

(* Write returns: an error before the put, or success after it.            *)
Return(w) ==
    /\ \/ phase[w] = "writing" /\ phase' = [phase EXCEPT ![w] = "failed"]
       \/ phase[w] = "put" /\ phase' \in {[phase EXCEPT ![w] = "done"],
                                          [phase EXCEPT ![w] = "failed"]}
    /\ UNCHANGED <<path, input, store, deletes>>

Delete(k) ==
    /\ store[k] # NoBlob /\ deletes < MaxDeletes
    /\ store' = [store EXCEPT ![k] = NoBlob]
    /\ deletes' = deletes + 1
    /\ UNCHANGED <<path, input, phase>>

Next ==
    \/ \E w \in Writers : Put(w) \/ Return(w)
    \/ \E k \in Keys : Delete(k)

Spec == Init /\ [][Next]_vars
=============================================================================
