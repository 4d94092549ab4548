----------------------------- MODULE MCHoldingFeed -----------------------------
(***************************************************************************)
(* A small instance of HoldingFeed: any calls in any order.                 *)
(***************************************************************************)
EXTENDS HoldingFeed, TLC
MCDts == 0..2
MCSizes == {1, 2}
MCSymmetry == Permutations(Configs)
=============================================================================
