---------------------------- MODULE MCSettlement ----------------------------
(***************************************************************************)
(* Settlement for TLC: payment hashes are interchangeable.                 *)
(***************************************************************************)
EXTENDS Settlement, TLC

HashSymmetry == Permutations(Hashes)
=============================================================================
