---------------------------- MODULE MC_AbsWriter ----------------------------
(***************************************************************************)
(* A small instance of AbsWriter for TLC: two concurrent Writes that may   *)
(* share a key, chunks of 2 bytes and streams of 0 to 4 bytes, so that an  *)
(* empty stream, a short single chunk, an exact multiple and a short last  *)
(* chunk all occur; three tries per request and two retention deletes.    *)
(***************************************************************************)
EXTENDS AbsWriter, TLC

CONSTANTS w1, w2, k1, k2

MC_Writers == {w1, w2}
MC_Keys == {k1, k2}

(* The two Write calls are interchangeable.                                *)
Symm == Permutations(MC_Writers)
=============================================================================
