-------------------------- MODULE MCMultiTargetSender --------------------------
(***************************************************************************)
(* A small instance of MultiTargetSender.                                   *)
(***************************************************************************)
EXTENDS MultiTargetSender
=============================================================================
