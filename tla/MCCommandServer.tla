-------------------------- MODULE MCCommandServer --------------------------
(***************************************************************************)
(* Small instances of CommandServer for TLC: workers are interchangeable,  *)
(* and so are commands and responders.                                     *)
(***************************************************************************)
EXTENDS CommandServer, TLC

CONSTANTS w1, w2, c1, c2, c3, b1, r1, r2

CommandSymmetry == Permutations(Commands) \cup Permutations(Workers) \cup Permutations(Responders)
=============================================================================
