----------------------------- MODULE MCBroadcast -----------------------------
(* Broadcast on two outputs and two runs, which are numbered as they come.   *)
EXTENDS Broadcast

MCOutputs == 1..2
MCRuns == 1..2
=============================================================================
