--------------------------- MODULE MCHoldingCapture ---------------------------
(***************************************************************************)
(* A small instance of HoldingCapture: one owner, one monitor, two encoders *)
(* that deliver packets of two decoding times.                              *)
(***************************************************************************)
EXTENDS HoldingCapture
MCDts == 0..1
MCSizes == {1}
=============================================================================
