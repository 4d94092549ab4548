---------------------------- MODULE MCCaptureQueue ----------------------------
(***************************************************************************)
(* Two sounds to a picture, so that every other sound has a picture at its  *)
(* own instant.                                                             *)
(***************************************************************************)
EXTENDS CaptureQueue

MCStep == [Video |-> 2, Audio |-> 1]
=============================================================================
