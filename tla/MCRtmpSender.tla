---------------------------- MODULE MCRtmpSender ----------------------------
(***************************************************************************)
(* Two epochs, so that every critical section of the worker meets a new     *)
(* one, and batches of one and of two tags, so that what is shed or thinned *)
(* can be the tag that carries the ticket or the one before it.             *)
(***************************************************************************)
EXTENDS RtmpSender

MCBatches == {<<"key", "audio">>, <<"audio", "delta">>, <<"delta">>, <<"guard">>}
=============================================================================
