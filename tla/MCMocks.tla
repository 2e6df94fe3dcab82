------------------------------ MODULE MCMocks -------------------------------
(* Two mocks and two sequences; expectations of one call, of up to two, and  *)
(* of one or two; in one sequence, in two, and in none.                      *)
EXTENDS Mocks, TLC

ThreadSymmetry == Permutations(Threads)

File == <<"file", "any">>
Log == <<"log", "any">>
TheCalls == {File, Log}

Expected(call, minimum, maximum, sequences) ==
  [mock |-> call[1], accepts |-> {call},
   minimum |-> minimum, maximum |-> maximum, sequences |-> sequences]
TheDeclarations ==
  {Expected(File, 1, 1, {"order"}), Expected(File, 0, 2, {"order", "other"}),
   Expected(File, 1, 2, {}), Expected(Log, 1, 1, {"order"})}
=============================================================================
