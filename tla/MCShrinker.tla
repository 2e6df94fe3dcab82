----------------------------- MODULE MCShrinker -----------------------------
(* The shrinker with the block sizes of the code. *)
EXTENDS Shrinker

TheBlockSizes == <<16, 8, 4, 2, 1>>
=============================================================================
