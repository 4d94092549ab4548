-------------------------- MODULE MCDelayController --------------------------
(***************************************************************************)
(* Every operation of the controller in any order, on timestamps in 0..1   *)
(* that may also go backwards, with int64 shrunk so that rebasing a        *)
(* restarted encoder can overflow.                                         *)
(***************************************************************************)
EXTENDS DelayController

MCDts == {0, 1}
MCInt64 == -1..2
MCTargets == {1, 3}

\* Histories of up to 3 stored packets, and 1 of them due.
Bound == Len(buffered) <= 3 /\ Len(ready) <= 1

\* Video numbering is history that no operation and no property here reads.
Plain(q) == [i \in DOMAIN q |-> [kind |-> q[i].kind, key |-> q[i].key,
                                 dts |-> q[i].dts]]
View == <<timeVars, waterVars, modeVars, waiting_for_live_keyframe,
          IF waiting_for_live_keyframe THEN 0 ELSE live_keyframe_dts,
          Plain(buffered), buffered_bytes, Plain(ready), state, pending_trim>>
=============================================================================
