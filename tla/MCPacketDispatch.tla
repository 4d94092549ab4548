-------------------------- MODULE MCPacketDispatch --------------------------
(***************************************************************************)
(* Two consumers, so that a dispatch or a cutoff can be interrupted between *)
(* them, and as many epochs as two actions, a failure, a stop and a change  *)
(* of feed can take.                                                        *)
(***************************************************************************)
EXTENDS PacketDispatch

CONSTANT MaxEpoch  \* bound of the state space
Bound == publication_epoch <= MaxEpoch
=============================================================================
