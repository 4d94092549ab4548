----------------------------- MODULE CaptureQueue -----------------------------
(***************************************************************************)
(* How programme media reaches the owner: the capture callbacks             *)
(* (active-delay-output.cpp, output_packet) and the ingress of              *)
(* PipelineOwner (pipeline-owner.cpp).                                      *)
(*                                                                          *)
(* Two encoder threads bring packets, each in its own order, one of them    *)
(* often late.  Each reads the capture token, then looks at the packet, and *)
(* then enqueues it under mutex_, where the two streams are merged: a       *)
(* packet leaves its ingress queue once both encoders have gone past it.    *)
(* The worker takes what was merged.  An Emergency Dump raises the token    *)
(* and empties everything; late packets from before it are dropped.         *)
(*                                                                          *)
(* The loop that merges is an action per packet: the callback holds mutex_  *)
(* all the while.  Time stamps and the clock count in one unit; a packet's  *)
(* time stamp is when it was captured.                                      *)
(***************************************************************************)
EXTENDS Integers, Sequences

CONSTANTS
  Step,        \* per kind, between two packets of an encoder
  MaxLag,      \* how late an encoder that works may be
  Budget,      \* kInterleaveBudgetUs
  Limit,       \* kCaptureStallLimit
  Capacity,    \* the packets the queues hold
  MaxNow,      \* the clock runs up to here
  MaxRequests, \* actions admitted
  None

Kinds == {"Video", "Audio"}
Actions == {"SetDelay", "ReturnLive", "EmergencyDump"}
\* A packet, with the token its callback read and the discards before that.
Packets == [kind : Kinds, dts : Int, token : Nat, round : Nat]

ASSUME CaptureConstants ==
  /\ Step \in [Kinds -> Nat \ {0}]
  /\ MaxLag \in Nat /\ Limit \in Nat /\ Budget \in Nat /\ Capacity \in Nat
  /\ MaxRequests \in Nat
  /\ None \notin Int \cup Packets
  /\ None \notin Kinds \cup {"TimestampInvalid", "IngressOverflow", "IngressStalled"}

\* The lag the budget is meant for.  Twice: after an Emergency Dump a packet of
\* one encoder may open the merge late, while the next one of the other, whose
\* packet on its way was dropped, is late as well.
ASSUME LagWithinBudget == \A k \in Kinds : Step[k] + 2 * MaxLag <= Budget

VARIABLES
  ingress,        \* video_ingress_, audio_ingress_
  input,          \* video_input_, audio_input_: the newest time stamps
  capture_floor,  \* up to where late packets are dropped
  packets,        \* packets_, merged
  capture_epoch, error, stopping,
  last,           \* last_video_, last_audio_: when a packet counted
  held,           \* the packet and token each callback is busy with
  merging,        \* the callback that holds mutex_ in the merging loop
  hand, turn,     \* what the worker swapped out, and where its loop is
  ended,          \* how the owner's run ended
  now, clock,     \* the time, and each encoder's newest time stamp
  halted,         \* encoders that stopped
  requests,       \* actions admitted
  dumps, cut, newest
    \* history: how many of them discarded, up to where, and the last packet
    \* handed over of each kind and of any

queueVars   == <<ingress, input, capture_floor, packets, capture_epoch, error, stopping, last>>
workerVars  == <<hand, turn, ended>>
encoderVars == <<now, clock, halted>>
historyVars == <<requests, dumps, cut, newest>>
vars == <<queueVars, held, merging, workerVars, encoderVars, historyVars>>

Empty == [k \in Kinds |-> <<>>]
Nothing == [k \in Kinds |-> None]

Init ==
  /\ ingress = Empty /\ input = Nothing /\ capture_floor = None /\ packets = <<>>
  /\ capture_epoch = 1 /\ error = None /\ stopping = FALSE
  /\ last = [k \in Kinds |-> 0] /\ held = Nothing /\ merging = None
  /\ hand = <<>> /\ turn = "Due" /\ ended = None
  /\ now = 0 /\ clock = [k \in Kinds |-> -Step[k]] /\ halted = {}
  /\ requests = 0 /\ dumps = 0 /\ cut = None
  /\ newest = [k \in Kinds \cup {"Any"} |-> None]

MutexFree == merging = None

-----------------------------------------------------------------------------
(* The encoder threads: output_packet.                                      *)

\* The token is read before anything else is done with the packet.
Bring(k, dts) ==
  /\ held[k] = None /\ MutexFree /\ k \notin halted /\ dts <= now
  /\ held' = [held EXCEPT ![k] = [kind |-> k, dts |-> dts, token |-> capture_epoch,
                                   round |-> dumps]]
  /\ clock' = [clock EXCEPT ![k] = dts]
  /\ UNCHANGED <<queueVars, merging, workerVars, now, historyVars>>
Deliver(k) == Bring(k, clock[k] + Step[k]) /\ UNCHANGED halted

\* An encoder breaks down: it stops, or its clock does not advance.
Break(k) == halted = {} /\ halted' = {k}
Halt(k) ==
  /\ Break(k) /\ held[k] = None
  /\ UNCHANGED <<queueVars, held, merging, workerVars, now, clock, historyVars>>
Repeat(k) == Break(k) /\ clock[k] >= 0 /\ Bring(k, clock[k])

Refused(p) == stopping \/ p.token # capture_epoch \/ error # None

Late(p) == capture_floor # None /\ p.dts <= capture_floor
Queued == Len(ingress["Video"]) + Len(ingress["Audio"]) + Len(packets)

\* Mutant: the budget itself is too much.
Overfull(p) == p.dts - Head(ingress[p.kind]).dts >= Budget
Overdue(p) == p.dts - Head(ingress[p.kind]).dts > Budget

\* What is wrong with a packet that is neither refused nor late.
Fault(p) ==
  LET k == p.kind IN
  IF input[k] # None /\ p.dts <= input[k] THEN "TimestampInvalid"
  ELSE IF Queued >= Capacity THEN "IngressOverflow"
  ELSE IF ingress[k] # <<>> /\ Overdue(p) THEN "IngressStalled"
  ELSE None

\* Mutant: any packet shows that both encoders work.
AllCount(p) == [k \in Kinds |-> now]
Counted(p) == [last EXCEPT ![p.kind] = now]

\* enqueue_uninterleaved, up to the loop.  The floor goes with the first
\* picture past it, even one that is then found faulty.
Enqueue(k) ==
  LET p == held[k] IN
  /\ p # None /\ MutexFree
  /\ held' = [held EXCEPT ![k] = None]
  /\ IF Refused(p) \/ Late(p)
     THEN UNCHANGED <<queueVars, merging>>
     ELSE /\ capture_floor' = IF k = "Video" THEN None ELSE capture_floor
          /\ error' = Fault(p)
          /\ input' = IF Fault(p) \in {None, "IngressStalled"}
                      THEN [input EXCEPT ![k] = p.dts] ELSE input
          /\ IF Fault(p) # None THEN UNCHANGED <<ingress, last, merging>>
             ELSE /\ last' = Counted(p)
                  /\ ingress' = [ingress EXCEPT ![k] = Append(@, p)]
                  /\ merging' = k
          /\ UNCHANGED <<packets, capture_epoch, stopping>>
  /\ UNCHANGED <<workerVars, encoderVars, historyVars>>

\* Mutant: a packet at the other encoder's newest time stamp leaves.
PastOrAt(p) == \A k \in Kinds : input[k] # None /\ p.dts <= input[k]
Past(p) == \A k \in Kinds : input[k] # None /\ p.dts < input[k]

\* Which queue is next: at equal time stamps the picture.
NextKind ==
  IF ingress["Audio"] = <<>> THEN "Video"
  ELSE IF ingress["Video"] = <<>> THEN "Audio"
  ELSE IF Head(ingress["Video"]).dts <= Head(ingress["Audio"]).dts THEN "Video" ELSE "Audio"
CanMerge == ingress[NextKind] # <<>> /\ Past(Head(ingress[NextKind]))

Merge ==
  /\ merging # None /\ CanMerge
  /\ packets' = Append(packets, Head(ingress[NextKind]))
  /\ ingress' = [ingress EXCEPT ![NextKind] = Tail(@)]
  /\ UNCHANGED <<input, capture_floor, capture_epoch, error, stopping, last, held,
                 merging, workerVars, encoderVars, historyVars>>
Merged ==
  /\ merging # None /\ ~CanMerge /\ merging' = None
  /\ UNCHANGED <<queueVars, held, workerVars, encoderVars, historyVars>>

-----------------------------------------------------------------------------
(* The user interface: request, request_stop.                               *)

ClearCapture ==
  /\ packets' = <<>> /\ ingress' = Empty /\ input' = Nothing

\* Mutant: what a callback is busy with stays valid.
KeepToken == capture_epoch
NextToken == capture_epoch + 1

NewestInput ==
  LET inputs == {input[k] : k \in Kinds} \ {None}
  IN  IF inputs = {} THEN capture_floor
      ELSE CHOOSE d \in inputs : \A e \in inputs : e <= d

Revokes(action) == action = "EmergencyDump"

\* An action admitted on the air.  Start Delay and Return Live keep the buffer,
\* so what is being captured must still reach it.
Request(action) ==
  /\ newest["Any"] # None /\ MutexFree /\ error = None /\ ~stopping
  /\ requests < MaxRequests /\ requests' = requests + 1
  /\ IF Revokes(action)
     THEN capture_floor' = NewestInput /\ capture_epoch' = NextToken /\ ClearCapture
     ELSE UNCHANGED <<capture_floor, capture_epoch, packets, ingress, input>>
  /\ IF action = "EmergencyDump"
     THEN dumps' = dumps + 1 /\ cut' = IF NewestInput = None THEN cut ELSE NewestInput
     ELSE UNCHANGED <<dumps, cut>>
  /\ UNCHANGED <<error, stopping, last, held, merging, workerVars, encoderVars, newest>>

RequestStop ==
  /\ MutexFree /\ ~stopping
  /\ stopping' = TRUE /\ capture_epoch' = NextToken /\ ClearCapture
  /\ UNCHANGED <<capture_floor, error, last, held, merging, workerVars, encoderVars,
                 historyVars>>

-----------------------------------------------------------------------------
(* The worker.                                                              *)

Take ==
  /\ turn = "Due" /\ MutexFree
  /\ IF stopping
     THEN ended' = "Stopped" /\ turn' = "Over" /\ UNCHANGED <<hand, packets>>
     ELSE hand' = packets /\ packets' = <<>> /\ turn' = "Taken" /\ UNCHANGED ended
  /\ UNCHANGED <<ingress, input, capture_floor, capture_epoch, error, stopping, last,
                 held, merging, encoderVars, historyVars>>

Stalled == \E k \in Kinds : now - last[k] > Limit

\* After the swap the worker looks at the failure and at the clock; only then
\* does what it swapped out go on to the controller.
HandOver ==
  /\ turn = "Taken" /\ MutexFree /\ error = None /\ ~Stalled
  /\ turn' = "Done" /\ hand' = <<>>
  /\ newest' = [k \in Kinds \cup {"Any"} |->
       LET ks == {i \in DOMAIN hand : k = "Any" \/ hand[i].kind = k}
       IN  IF ks = {} THEN newest[k]
           ELSE hand[CHOOSE i \in ks : \A j \in ks : j <= i]]
  /\ UNCHANGED <<queueVars, held, merging, ended, encoderVars, requests, dumps, cut>>
End ==
  /\ turn = "Taken" /\ MutexFree /\ (error # None \/ Stalled)
  /\ turn' = "Over" /\ hand' = <<>> /\ stopping' = TRUE /\ ClearCapture
  /\ ended' = IF error # None THEN error ELSE "CaptureStalled"
  /\ UNCHANGED <<capture_floor, capture_epoch, error, last, held, merging,
                 encoderVars, historyVars>>

\* The worker turns every 10 ms, at least once between two instants told apart
\* here; an encoder that works is at most MaxLag late.
Tick ==
  /\ now < MaxNow /\ turn = "Done" /\ MutexFree
  /\ \A k \in Kinds : held[k] = None /\ (k \in halted \/ clock[k] + Step[k] + MaxLag > now)
  /\ now' = now + 1 /\ turn' = "Due"
  /\ UNCHANGED <<queueVars, held, merging, hand, ended, clock, halted, historyVars>>

Worker == Take \/ HandOver \/ End \/ Tick
Callback(k) == Deliver(k) \/ Enqueue(k)
Next == \/ Worker \/ Merge \/ Merged \/ RequestStop
        \/ \E a \in Actions : Request(a)
        \/ \E k \in Kinds : Callback(k) \/ Repeat(k) \/ Halt(k)

Spec == Init /\ [][Next]_vars

\* Threads run, time passes, and an encoder that works delivers.
FairSpec ==
  /\ Spec /\ WF_vars(Worker) /\ WF_vars(Merge \/ Merged)
  /\ \A k \in Kinds : WF_vars(Callback(k))

-----------------------------------------------------------------------------
(* Properties.                                                              *)

TypeOK ==
  /\ ingress \in [Kinds -> Seq(Packets)] /\ packets \in Seq(Packets) /\ hand \in Seq(Packets)
  /\ input \in [Kinds -> Int \cup {None}] /\ capture_floor \in Int \cup {None}
  /\ held \in [Kinds -> Packets \cup {None}] /\ merging \in Kinds \cup {None}
  /\ capture_epoch \in Nat /\ stopping \in BOOLEAN /\ turn \in {"Due", "Taken", "Done", "Over"}
  /\ clock \in [Kinds -> Int] /\ dumps \in Nat /\ cut \in Int \cup {None}
  /\ newest \in [Kinds \cup {"Any"} -> Packets \cup {None}]

\* What the controller is given is one stream in the order of the time stamps,
\* the picture before the sound of the same instant, whichever encoder is late
\* and whatever an Emergency Dump cuts out in between.
Before(p, q) ==
  p.dts < q.dts \/ (p.dts = q.dts /\ p.kind = "Video" /\ q.kind = "Audio")
TakenInOrder ==
  LET s == hand \o packets
  IN  \A j \in DOMAIN s :
        /\ newest["Any"] # None => Before(newest["Any"], s[j])
        /\ \A i \in 1..(j - 1) : Before(s[i], s[j])

\* Nothing captured before an Emergency Dump is queued after it: neither what
\* a callback was busy with, nor a picture older than the sound it discarded.
In(s) == {s[i] : i \in DOMAIN s}
RevokedIsGone ==
  \A p \in In(packets) \cup UNION {In(ingress[k]) : k \in Kinds} :
    /\ p.round = dumps
    /\ p.kind = "Video" /\ cut # None => p.dts > cut

\* Between two actions that discard, no packet of either encoder is missing,
\* from the last one handed over to the one that came in last.
Known(k) == {p \in ({newest[k]} \ {None}) \cup In(hand) \cup In(packets) \cup In(ingress[k]) :
               p.kind = k}
NothingLost ==
  \A k \in Kinds : \A p, q \in Known(k) :
    p.round = q.round /\ p.dts < q.dts =>
      \/ q.dts = p.dts + Step[k]
      \/ \E r \in Known(k) : p.dts < r.dts /\ r.dts < q.dts

\* An Emergency Dump takes all that was captured before it, on its way or
\* queued, and nothing else ever goes missing.
OnlyRevokedIsGone == RevokedIsGone /\ NothingLost

\* A lag within the budget never fails the merge: only an encoder that stopped
\* or whose clock stood still makes the other one's packets wait that long.
LagIsTolerated == error = "IngressStalled" => halted # {}

\* An encoder that stops ends the broadcast.
StallEnds ==
  \A k \in Kinds : (k \in halted /\ now + Limit < MaxNow) ~> ended # None

\* "Only a stall this long ends the broadcast." (pipeline-owner.cpp:8)
OnlyStallsEnd == ended = "CaptureStalled" => halted # {}
=============================================================================
