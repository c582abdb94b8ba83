------------------------- MODULE MC_BackupOperator -------------------------
(***************************************************************************)
(* A small instance of BackupOperator for TLC: two incarnations of the key *)
(* (delete and re-create), intervals 0, 1 and 2 seconds, so that a spec    *)
(* edit can switch between two periodic schedules, to a policy with        *)
(* interval 0 (one-shot for processItem, NewTicker(0) for a running        *)
(* runner's drift check) and to a nil policy.                              *)
(***************************************************************************)
EXTENDS BackupOperator, TLC

CONSTANTS u1, u2

MC_UIDs == {u1, u2}
MC_Intervals == {0, 1, 2}

(* For the liveness runs: one incarnation and one interval, no symmetry   *)
(* (TLC's liveness checking is unsound under symmetry).                    *)
MC_OneUID == {u1}
MC_OneInterval == {1}

(* The incarnations are interchangeable.                                   *)
Symm == Permutations(MC_UIDs)
=============================================================================
