--------------------------- MODULE MCHistoryStore ---------------------------
(***************************************************************************)
(* Small instances of the history and the runs that commit to it.          *)
(***************************************************************************)
EXTENDS HistoryStore, TLC

RunSymmetry == Permutations(Runs)
=============================================================================
