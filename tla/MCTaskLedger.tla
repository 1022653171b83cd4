---------------------------- MODULE MCTaskLedger ----------------------------
(***************************************************************************)
(* An instance of TaskLedger for TLC.                                      *)
(***************************************************************************)
EXTENDS TaskLedger, TLC

TaskSymmetry == Permutations(Workers)

==============================================================================
