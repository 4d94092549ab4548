----------------------- MODULE MCTransitionCoordinator -----------------------
(***************************************************************************)
(* A millisecond of two units, so that rounding up is seen; sound of one    *)
(* and a half milliseconds, pictures of two and of two and a half.  The     *)
(* programme's first sound comes before the picture it goes with is shown.  *)
(***************************************************************************)
EXTENDS TransitionCoordinator

MCFrame == [Programme |-> 4, Holding |-> 5]
MCShape == [Programme |-> [lead |-> 1, composition |-> 3],
            Holding |-> [lead |-> 3, composition |-> 0]]
MCBursts == [Programme |-> {<<>>, <<TRUE>>, <<FALSE>>},
             Holding |-> {<<>>, <<TRUE, TRUE>>, <<FALSE, FALSE>>}]
=============================================================================
