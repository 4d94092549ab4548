--------------------------- MODULE PublicationFence ---------------------------
(***************************************************************************)
(* What the epochs promise, without the threads that keep the promise.      *)
(* Once a cutoff has returned, at floor, no destination is handed media of  *)
(* an older epoch, and what a destination is handed never goes back in      *)
(* epochs.  released-packet-dispatcher.hpp calls it the publication floor.  *)
(***************************************************************************)
EXTENDS Naturals

CONSTANT Consumers

VARIABLES
  floor,   \* newest epoch whose cutoff has returned
  handed   \* per consumer: epoch of the media last handed to its sender

Init == floor = 0 /\ handed = [c \in Consumers |-> 0]

Raise == floor' \in Nat /\ floor' > floor /\ UNCHANGED handed
Hand(c) ==
  /\ \E e \in {handed'[c]} : /\ e \in Nat /\ e >= floor /\ e >= handed[c]
                             /\ handed' = [handed EXCEPT ![c] = e]
  /\ UNCHANGED floor

Next == Raise \/ \E c \in Consumers : Hand(c)
Spec == Init /\ [][Next]_<<floor, handed>>
=============================================================================
