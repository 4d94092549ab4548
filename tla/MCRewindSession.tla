--------------------------- MODULE MCRewindSession ---------------------------
(***************************************************************************)
(* Captures of up to 6 ticks, every pattern of keyframes and of missing    *)
(* packets, a delay of 2 ticks: long enough to fill, rewind, return and    *)
(* rewind again.                                                           *)
(***************************************************************************)
EXTENDS RewindSession

MCInt64 == -20..20
MCDts == 0..6
MCTargets == {2}
=============================================================================
