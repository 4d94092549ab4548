-------------------------- MODULE CaptureQueueProofs --------------------------
(***************************************************************************)
(* For every step of the encoders, every limit and every clock: what the    *)
(* worker takes is in order, nothing from before an Emergency Dump is       *)
(* queued after it, nothing else goes missing, and a lag the budget covers  *)
(* never fails the merge.                                                   *)
(*                                                                          *)
(* None is inductive.  The order rests on the front (Front): what has left  *)
(* the merge is older than all that can still come, because it is older     *)
(* than the newest packet of both encoders.  That the discarded stays away  *)
(* rests on the token a callback carries (Tokens) and, for a picture        *)
(* encoded late, on the floor (Floor).  That nothing goes missing rests on  *)
(* the young end of what is known (Tip, Near): the next packet of an        *)
(* encoder follows its newest one.  A lag is tolerated because the merge    *)
(* waits for one encoder only (Settled), which is not further behind than   *)
(* its clock (Clocks) and its last dropped packet (Waits) allow.            *)
(***************************************************************************)
EXTENDS CaptureQueue, SequenceTheorems, NaturalsInduction,
        WellFoundedInduction, TLAPS

-----------------------------------------------------------------------------
(* Natural numbers.                                                        *)

\* Every non-empty set of natural numbers has a least element.
LEMMA NatMinimum ==
  ASSUME NEW S, S \subseteq Nat, S # {}
  PROVE  \E n \in S : \A m \in S : n <= m
<1>1. IsWellFoundedOn(OpToRel(<, Nat), Nat)
  BY NatLessThanWellFounded, Zenon
<1>2. PICK n \in S : \A m \in S : <<m, n>> \notin OpToRel(<, Nat)
  BY <1>1, WFMin, Zenon
<1>3. \A m \in S : ~(m < n)
  BY <1>2 DEF OpToRel
<1> QED
  BY <1>3

\* A non-empty set of positions has a last one.
LEMMA IntervalMaximum ==
  ASSUME NEW N \in Nat, NEW S, S \subseteq 1..N, S # {}
  PROVE  \E n \in S : \A m \in S : m <= n
<1> DEFINE T == {N - i : i \in S}
<1>1. T \subseteq Nat /\ T # {}
  <2>1. \A i \in S : N - i \in Nat
    OBVIOUS
  <2>2. PICK i \in S : TRUE
    OBVIOUS
  <2>3. N - i \in T
    OBVIOUS
  <2> QED BY <2>1, <2>3
<1>2. PICK k \in T : \A m \in T : k <= m
  BY <1>1, NatMinimum
<1>3. PICK n \in S : k = N - n
  OBVIOUS
<1>4. \A m \in S : N - n <= N - m
  BY <1>2, <1>3
<1> QED
  BY <1>4


\* The packets of each encoder wait in order, none newer than input or clock.
Ingress ==
  \A k \in Kinds :
    /\ \A i \in 1..Len(ingress[k]) :
         /\ ingress[k][i].kind = k /\ input[k] # None /\ ingress[k][i].dts <= input[k]
         /\ \A j \in 1..Len(ingress[k]) : i < j => ingress[k][i].dts < ingress[k][j].dts
    /\ input[k] # None => input[k] <= clock[k]
    /\ held[k] # None => held[k].kind = k /\ held[k].dts = clock[k]

\* A packet that has left the merge is older than all that may follow it.
Behind(p) ==
  \A k \in Kinds : /\ p.dts < clock[k]
                   /\ \A i \in 1..Len(ingress[k]) : Before(p, ingress[k][i])
Front ==
  /\ \A i \in 1..Len(hand) : Behind(hand[i])
  /\ \A i \in 1..Len(packets) : Behind(packets[i])
  /\ newest["Any"] # None => Behind(newest["Any"])

InOrder(s) == \A i, j \in 1..Len(s) : i < j => Before(s[i], s[j])
Chain ==
  /\ InOrder(hand) /\ InOrder(packets)
  /\ \A i \in 1..Len(hand), j \in 1..Len(packets) : Before(hand[i], packets[j])
  /\ newest["Any"] # None =>
       /\ \A i \in 1..Len(hand) : Before(newest["Any"], hand[i])
       /\ \A i \in 1..Len(packets) : Before(newest["Any"], packets[i])
  /\ turn # "Taken" => hand = <<>>

OrderInv == TypeOK /\ Ingress /\ Front /\ Chain

\* A callback whose token still counts read it after the last discard.
Tokens ==
  \A k \in Kinds : held[k] # None =>
    /\ held[k].token <= capture_epoch
    /\ held[k].token = capture_epoch => held[k].round = dumps

\* Until a picture past the discard has come, the floor keeps out older ones;
\* after that, the order of the encoder does.
Floor ==
  cut # None /\ error = None /\ ~stopping =>
    \/ capture_floor = cut
    \/ capture_floor = None /\ input["Video"] # None /\ input["Video"] > cut

Current(p) == p.round = dumps /\ (p.kind = "Video" /\ cut # None => p.dts > cut)
Queues ==
  /\ \A i \in 1..Len(packets) : Current(packets[i])
  /\ \A k \in Kinds : \A i \in 1..Len(ingress[k]) : Current(ingress[k][i])

RevokeInv == OrderInv /\ Tokens /\ Floor /\ Queues

-----------------------------------------------------------------------------
\* What an action does, without the nesting of the code.

\* A packet that enters the merge is the newest of its encoder and not late.
Pushed(k) ==
  /\ ~Refused(held[k]) /\ ~Late(held[k])
  /\ input[k] # None => held[k].dts > input[k]
  /\ ingress' = [ingress EXCEPT ![k] = Append(@, held[k])]
  /\ input' = [input EXCEPT ![k] = held[k].dts]
  /\ capture_floor' = IF k = "Video" THEN None ELSE capture_floor
  /\ error' = None /\ merging' = k
\* One found faulty changes at most the newest time stamp.
Faulty(k) ==
  /\ ingress' = ingress /\ error' # None
  /\ input' = input \/ input' = [input EXCEPT ![k] = held[k].dts]
  /\ capture_floor' = IF k = "Video" THEN None ELSE capture_floor
Passed == UNCHANGED <<ingress, input, capture_floor, error, merging>>

LEMMA EnqueueCases ==
  ASSUME TypeOK, Ingress, NEW k \in Kinds, Enqueue(k)
  PROVE  /\ held[k] \in Packets /\ held' = [held EXCEPT ![k] = None]
         /\ Pushed(k) \/ Faulty(k) \/ (Passed /\ (Refused(held[k]) \/ Late(held[k])))
         /\ packets' = packets /\ capture_epoch' = capture_epoch /\ stopping' = stopping
         /\ merging' \in {merging, k}
         /\ UNCHANGED <<workerVars, encoderVars, historyVars>>
<1>1. /\ held[k] \in Packets /\ held[k].kind = k /\ held' = [held EXCEPT ![k] = None]
      /\ UNCHANGED <<workerVars, encoderVars, historyVars>>
  BY DEF Enqueue, TypeOK, Ingress
<1>2. CASE Refused(held[k]) \/ Late(held[k])
  BY <1>1, <1>2 DEF Enqueue, queueVars, Passed
<1>3. CASE ~Refused(held[k]) /\ ~Late(held[k])
  <2>1. /\ capture_floor' = IF k = "Video" THEN None ELSE capture_floor
        /\ error' = Fault(held[k])
        /\ input' = IF Fault(held[k]) \in {None, "IngressStalled"}
                    THEN [input EXCEPT ![k] = held[k].dts] ELSE input
        /\ IF Fault(held[k]) # None THEN UNCHANGED <<ingress, last, merging>>
           ELSE /\ ingress' = [ingress EXCEPT ![k] = Append(@, held[k])]
                /\ merging' = k
        /\ packets' = packets /\ capture_epoch' = capture_epoch /\ stopping' = stopping
    BY <1>1, <1>3 DEF Enqueue
  <2>2. CASE Fault(held[k]) # None
    BY <1>1, <2>1, <2>2 DEF Faulty
  <2>3. CASE Fault(held[k]) = None
    <3>1. ~(input[k] # None /\ held[k].dts <= input[k])
      BY <1>1, <2>3, CaptureConstants DEF Fault
    <3>2. input[k] # None => held[k].dts > input[k]
      BY <1>1, <3>1, CaptureConstants DEF TypeOK, Packets
    <3> QED BY <1>1, <1>3, <2>1, <2>3, <3>2 DEF Pushed
  <2> QED BY <2>2, <2>3
<1> QED BY <1>2, <1>3

\* One packet leaves the merge: the older of the two that wait, the picture
\* first, and older than the newest of both encoders.
LEMMA MergeNext ==
  ASSUME TypeOK, Ingress, CanMerge
  PROVE  /\ NextKind \in Kinds /\ ingress[NextKind] # <<>>
         /\ Len(ingress[NextKind]) \in Nat \ {0}
         /\ Head(ingress[NextKind]) = ingress[NextKind][1]
         /\ ingress[NextKind][1] \in Packets
         /\ \A k \in Kinds : ingress[NextKind][1].dts < clock[k]
         /\ \A k \in Kinds \ {NextKind} : \A i \in 1..Len(ingress[k]) :
              Before(ingress[NextKind][1], ingress[k][i])
<1> DEFINE n == NextKind
           p == ingress[n][1]
<1>1. n \in Kinds /\ ingress[n] # <<>>
  BY DEF CanMerge, NextKind, Kinds
<1>2. \A k \in Kinds : ingress[k] \in Seq(Packets) /\ Len(ingress[k]) \in Nat
                        /\ (ingress[k] # <<>> => Len(ingress[k]) # 0)
  BY EmptySeq, LenProperties DEF TypeOK
<1>3. p \in Packets /\ Head(ingress[n]) = p
  BY <1>1, <1>2, HeadTailProperties, ElementOfSeq DEF TypeOK
<1>4. p.kind = n /\ p.dts \in Int
  BY <1>1, <1>2, <1>3 DEF Ingress, Packets
<1>5. \A k \in Kinds : p.dts < clock[k]
  <2> SUFFICES ASSUME NEW k \in Kinds PROVE p.dts < clock[k]
    OBVIOUS
  <2>1. input[k] # None /\ p.dts < input[k]
    BY <1>3 DEF CanMerge, Past
  <2> QED BY <1>4, <2>1 DEF Ingress, TypeOK
<1>6. ASSUME NEW k \in Kinds \ {n}, NEW i \in 1..Len(ingress[k])
      PROVE  Before(p, ingress[k][i])
  <2>1. /\ ingress[k] # <<>> /\ Head(ingress[k]) = ingress[k][1]
        /\ ingress[k][1] \in Packets /\ ingress[k][i] \in Packets
        /\ 1 \in 1..Len(ingress[k])
    BY <1>2, <1>6, EmptySeq, HeadTailProperties, ElementOfSeq DEF TypeOK
  <2>2. i # 1 => ingress[k][1].dts < ingress[k][i].dts
    BY <1>2, <2>1 DEF Ingress
  <2>3. /\ ingress[k][1].kind = k /\ ingress[k][i].kind = k
    BY <2>1 DEF Ingress
  <2>4. Before(p, ingress[k][1])
    <3> DEFINE q == ingress[k][1]
    <3>1. p.dts \in Int /\ q.dts \in Int
      BY <1>4, <2>1 DEF Packets
    <3>2. CASE n = "Video"
      <4>1. k = "Audio" /\ p.dts <= q.dts
        BY <1>3, <2>1, <3>2 DEF NextKind, Kinds
      <4> QED BY <1>4, <2>3, <3>1, <3>2, <4>1 DEF Before
    <3>3. CASE n = "Audio"
      <4>1. k = "Video" /\ ~(q.dts <= p.dts)
        BY <1>1, <1>3, <2>1, <3>3 DEF NextKind, Kinds
      <4> QED BY <3>1, <4>1 DEF Before
    <3> QED BY <1>1, <3>2, <3>3 DEF Kinds
  <2>5. CASE i = 1
    BY <2>4, <2>5
  <2>6. CASE i # 1
    <3> DEFINE q == ingress[k][1] r == ingress[k][i]
    <3>1. p.dts \in Int /\ q.dts \in Int /\ r.dts \in Int /\ q.dts < r.dts
      BY <1>4, <2>1, <2>2, <2>6 DEF Packets
    <3>2. p.dts <= q.dts
      BY <2>4, <3>1 DEF Before
    <3>3. p.dts < r.dts
      <4> HIDE DEF p, q, r
      <4> QED BY <3>1, <3>2
    <3> QED BY <3>3 DEF Before
  <2> QED BY <2>5, <2>6
<1> HIDE DEF n, p
<1> QED BY <1>1, <1>2, <1>3, <1>5, <1>6 DEF n, p

-----------------------------------------------------------------------------
LEMMA NewestInputIs ==
  ASSUME TypeOK
  PROVE  IF \A k \in Kinds : input[k] = None THEN NewestInput = capture_floor
         ELSE NewestInput \in {input[k] : k \in Kinds} \ {None}
<1> DEFINE inputs == {input[k] : k \in Kinds} \ {None}
<1>1. inputs = {} <=> \A k \in Kinds : input[k] = None
  OBVIOUS
<1>2. ASSUME inputs # {} PROVE \E d \in inputs : \A e \in inputs : e <= d
  <2>1. inputs = {input["Video"], input["Audio"]} \ {None} /\ inputs \subseteq Int
    BY DEF TypeOK, Kinds
  <2>2. CASE input["Video"] = None \/ input["Audio"] = None
    <3>1. \A d, e \in inputs : e = d
      BY <2>1, <2>2
    <3> QED BY <1>2, <2>1, <3>1
  <2>3. CASE input["Video"] # None /\ input["Audio"] # None
    <3>1. inputs = {input["Video"], input["Audio"]}
      BY <2>1, <2>3
    <3>2. CASE input["Video"] <= input["Audio"]
      BY <2>1, <3>1, <3>2
    <3>3. CASE input["Audio"] <= input["Video"]
      BY <2>1, <3>1, <3>3
    <3> QED BY <2>1, <3>1, <3>2, <3>3
  <2> QED BY <2>2, <2>3
<1> QED BY <1>1, <1>2 DEF NewestInput

LEMMA ClearTypes ==
  ASSUME ClearCapture
  PROVE  /\ packets' \in Seq(Packets) /\ ingress' \in [Kinds -> Seq(Packets)]
         /\ input' \in [Kinds -> Int \cup {None}]
         /\ packets' = <<>> /\ \A k \in Kinds : ingress'[k] = <<>> /\ input'[k] = None
BY EmptySeq DEF ClearCapture, Empty, Nothing

LEMMA TypesInit == Init => TypeOK
<1> SUFFICES ASSUME Init PROVE TypeOK
  OBVIOUS
<1>1. <<>> \in Seq(Packets)
  BY EmptySeq
<1>2. ingress \in [Kinds -> Seq(Packets)]
  BY <1>1 DEF Init, Empty
<1>3. clock \in [Kinds -> Int]
  BY CaptureConstants DEF Init
<1> QED BY <1>1, <1>2, <1>3 DEF Init, TypeOK, Nothing

LEMMA BringTypes ==
  ASSUME TypeOK, NEW k \in Kinds, NEW dts \in Int, Bring(k, dts)
  PROVE  TypeOK'
<1>1. [kind |-> k, dts |-> dts, token |-> capture_epoch, round |-> dumps] \in Packets
  BY DEF TypeOK, Packets
<1>2. held' \in [Kinds -> Packets \cup {None}] /\ clock' \in [Kinds -> Int]
  BY <1>1 DEF Bring, TypeOK
<1> QED BY <1>2 DEF Bring, TypeOK, queueVars, workerVars, historyVars

LEMMA EnqueueTypes ==
  ASSUME TypeOK, Ingress, NEW k \in Kinds, Enqueue(k)
  PROVE  TypeOK'
<1> USE EnqueueCases
<1>1. held[k] \in Packets /\ held[k].dts \in Int
  BY DEF Packets
<1>2. /\ ingress' \in [Kinds -> Seq(Packets)] /\ input' \in [Kinds -> Int \cup {None}]
      /\ capture_floor' \in Int \cup {None}
  <2>1. CASE Pushed(k)
    <3>1. Append(ingress[k], held[k]) \in Seq(Packets)
      BY <1>1, AppendProperties DEF TypeOK
    <3> QED BY <1>1, <2>1, <3>1 DEF TypeOK, Pushed
  <2>2. CASE Faulty(k)
    BY <1>1, <2>2 DEF TypeOK, Faulty
  <2>3. CASE Passed
    BY <2>3 DEF TypeOK, Passed
  <2> QED BY <2>1, <2>2, <2>3
<1> QED BY <1>2 DEF TypeOK, workerVars, encoderVars, historyVars

LEMMA MergeTypes ==
  ASSUME TypeOK, Ingress, Merge
  PROVE  TypeOK'
<1>1. Append(packets, Head(ingress[NextKind])) \in Seq(Packets)
  BY MergeNext, AppendProperties DEF Merge, TypeOK
<1>2. Tail(ingress[NextKind]) \in Seq(Packets)
  BY MergeNext, HeadTailProperties DEF Merge, TypeOK
<1> QED BY <1>1, <1>2 DEF Merge, TypeOK, workerVars, encoderVars, historyVars

\* The newest packet handed over is the last one, if there is any.
LEMMA HandOverLast ==
  ASSUME TypeOK, HandOver, NEW k \in Kinds \cup {"Any"}
  PROVE  \/ /\ newest'[k] = newest[k]
            /\ \A i \in 1..Len(hand) : k # "Any" /\ hand[i].kind # k
         \/ \E i \in 1..Len(hand) :
              /\ newest'[k] = hand[i] /\ (k = "Any" \/ hand[i].kind = k)
              /\ \A j \in 1..Len(hand) : k = "Any" \/ hand[j].kind = k => j <= i
<1> DEFINE ks == {i \in 1..Len(hand) : k = "Any" \/ hand[i].kind = k}
           top == CHOOSE i \in ks : \A j \in ks : j <= i
<1>1. Len(hand) \in Nat /\ DOMAIN hand = 1..Len(hand)
  BY LenProperties DEF TypeOK
<1>2. newest'[k] = IF ks = {} THEN newest[k] ELSE hand[top]
  BY <1>1 DEF HandOver
<1>3. CASE ks = {}
  BY <1>2, <1>3
<1>4. CASE ks # {}
  <2>1. \E i \in ks : \A j \in ks : j <= i
    BY <1>1, <1>4, IntervalMaximum
  <2>2. top \in ks /\ \A j \in ks : j <= top
    BY <2>1
  <2> HIDE DEF top
  <2> QED BY <1>2, <1>4, <2>2
<1> QED BY <1>3, <1>4

LEMMA HandOverCases ==
  ASSUME TypeOK, HandOver
  PROVE  /\ newest' \in [Kinds \cup {"Any"} -> Packets \cup {None}]
         /\ newest'["Any"] = IF hand = <<>> THEN newest["Any"] ELSE hand[Len(hand)]
<1>1. Len(hand) \in Nat /\ \A i \in 1..Len(hand) : hand[i] \in Packets
  BY LenProperties, ElementOfSeq DEF TypeOK
<1>2. ASSUME NEW k \in Kinds \cup {"Any"} PROVE newest'[k] \in Packets \cup {None}
  BY <1>1, HandOverLast DEF TypeOK
<1>3. newest' \in [Kinds \cup {"Any"} -> Packets \cup {None}]
  <2>1. newest' = [k \in Kinds \cup {"Any"} |-> newest'[k]]
    BY DEF HandOver
  <2> QED BY <1>2, <2>1
<1>4. CASE hand = <<>>
  BY <1>3, <1>4, EmptySeq, HandOverLast
<1>5. CASE hand # <<>>
  <2>1. Len(hand) \in 1..Len(hand)
    BY <1>1, <1>5, EmptySeq DEF TypeOK
  <2>2. PICK i \in 1..Len(hand) : newest'["Any"] = hand[i] /\ \A j \in 1..Len(hand) : j <= i
    BY <2>1, HandOverLast
  <2>3. i = Len(hand)
    BY <2>1, <2>2
  <2> QED BY <1>3, <1>5, <2>2, <2>3
<1> QED BY <1>3, <1>4, <1>5

LEMMA HandOverTypes ==
  ASSUME TypeOK, HandOver
  PROVE  TypeOK'
BY HandOverCases, EmptySeq DEF HandOver, TypeOK, queueVars, encoderVars

\* An action on the air discards, or leaves the queues alone.
Discarded ==
  /\ capture_floor' = NewestInput /\ capture_epoch' = NextToken /\ ClearCapture
  /\ dumps' = dumps + 1 /\ cut' = IF NewestInput = None THEN cut ELSE NewestInput
Kept == UNCHANGED <<capture_floor, capture_epoch, packets, ingress, input, dumps, cut>>

LEMMA RequestCases ==
  ASSUME NEW a \in Actions, Request(a)
  PROVE  /\ Discarded \/ Kept
         /\ error = None /\ ~stopping
         /\ UNCHANGED <<error, stopping, held, merging, workerVars, encoderVars, newest>>
<1>1. CASE Revokes(a)
  BY <1>1 DEF Request, Revokes, Discarded
<1>2. CASE ~Revokes(a)
  BY <1>2 DEF Request, Revokes, Kept
<1>3. /\ error = None /\ ~stopping
      /\ UNCHANGED <<error, stopping, held, merging, workerVars, encoderVars, newest>>
  BY DEF Request
<1> QED BY <1>1, <1>2, <1>3

LEMMA RequestTypes ==
  ASSUME TypeOK, NEW a \in Actions, Request(a)
  PROVE  TypeOK'
<1>1. NewestInput \in Int \cup {None}
  <2>1. {input[k] : k \in Kinds} \subseteq Int \cup {None}
    BY DEF TypeOK
  <2> QED BY <2>1, NewestInputIs DEF TypeOK
<1>2. CASE Discarded
  BY <1>1, <1>2, RequestCases, ClearTypes DEF Discarded, TypeOK, NextToken, workerVars, encoderVars
<1>3. CASE Kept
  BY <1>3, RequestCases DEF Kept, TypeOK, workerVars, encoderVars
<1> QED BY <1>2, <1>3, RequestCases

LEMMA TypesNext == TypeOK /\ Ingress /\ [Next]_vars => TypeOK'
<1> SUFFICES ASSUME TypeOK, Ingress, [Next]_vars PROVE TypeOK'
  OBVIOUS
<1>1. CASE Take
  BY <1>1, EmptySeq DEF Take, TypeOK, encoderVars, historyVars
<1>2. CASE HandOver
  BY <1>2, HandOverTypes
<1>3. CASE End
  BY <1>3, ClearTypes, EmptySeq DEF End, TypeOK, encoderVars, historyVars
<1>4. CASE Tick
  BY <1>4 DEF Tick, TypeOK, queueVars, historyVars
<1>5. CASE Merge
  BY <1>5, MergeTypes
<1>6. CASE Merged
  BY <1>6 DEF Merged, TypeOK, queueVars, workerVars, encoderVars, historyVars
<1>7. CASE RequestStop
  BY <1>7, ClearTypes DEF RequestStop, TypeOK, NextToken, workerVars, encoderVars, historyVars
<1>8. ASSUME NEW a \in Actions, Request(a) PROVE TypeOK'
  BY <1>8, RequestTypes
<1>9. ASSUME NEW k \in Kinds, Deliver(k) PROVE TypeOK'
  <2>1. clock[k] + Step[k] \in Int
    BY CaptureConstants DEF TypeOK
  <2> QED BY <1>9, <2>1, BringTypes DEF Deliver
<1>10. ASSUME NEW k \in Kinds, Enqueue(k) PROVE TypeOK'
  BY <1>10, EnqueueTypes
<1>11. ASSUME NEW k \in Kinds, Repeat(k) PROVE TypeOK'
  BY <1>11, BringTypes DEF Repeat, TypeOK
<1>12. ASSUME NEW k \in Kinds, Halt(k) PROVE TypeOK'
  BY <1>12 DEF Halt, TypeOK, queueVars, workerVars, historyVars
<1>13. CASE UNCHANGED vars
  BY <1>13 DEF vars, TypeOK, queueVars, workerVars, encoderVars, historyVars
<1> QED BY <1>1, <1>2, <1>3, <1>4, <1>5, <1>6, <1>7, <1>8, <1>9, <1>10, <1>11, <1>12, <1>13
     DEF Next, Worker, Callback

-----------------------------------------------------------------------------
\* The order.  One lemma for each action that disturbs it.

LEMMA Elements ==
  ASSUME TypeOK
  PROVE  /\ Len(hand) \in Nat /\ \A i \in 1..Len(hand) : hand[i] \in Packets
         /\ Len(packets) \in Nat /\ \A i \in 1..Len(packets) : packets[i] \in Packets
         /\ newest["Any"] # None => newest["Any"] \in Packets
         /\ \A k \in Kinds :
              /\ Len(ingress[k]) \in Nat
              /\ \A i \in 1..Len(ingress[k]) : ingress[k][i] \in Packets
BY LenProperties, ElementOfSeq DEF TypeOK

LEMMA OrderInit == Init => OrderInv
<1> SUFFICES ASSUME Init PROVE OrderInv
  OBVIOUS
<1>1. /\ \A k \in Kinds : ingress[k] = <<>> /\ input[k] = None /\ held[k] = None
      /\ hand = <<>> /\ packets = <<>> /\ newest["Any"] = None
  BY DEF Init, Empty, Nothing
<1>2. Len(<<>>) = 0
  BY EmptySeq
<1>3. Ingress /\ Front
  BY <1>1, <1>2 DEF Ingress, Front
<1>4. Chain
  BY <1>1, <1>2 DEF Chain, InOrder
<1> QED BY <1>3, <1>4, TypesInit DEF OrderInv

LEMMA OrderUnchanged ==
  ASSUME OrderInv, UNCHANGED <<ingress, input, held, clock, hand, packets, newest>>,
         turn' # "Taken" => turn # "Taken"
  PROVE  Ingress' /\ Front' /\ Chain'
BY DEF OrderInv, Ingress, Front, Behind, Chain, InOrder

\* All queues are cleared; what the worker holds stays, or goes as well.
LEMMA OrderCleared ==
  ASSUME OrderInv, ClearCapture, UNCHANGED <<held, clock, newest>>,
         hand' = <<>> \/ (hand' = hand /\ turn' = turn)
  PROVE  Ingress' /\ Front' /\ Chain'
<1>1. /\ packets' = <<>> /\ \A k \in Kinds : ingress'[k] = <<>> /\ input'[k] = None
      /\ Len(<<>>) = 0
  BY ClearTypes, EmptySeq
<1>2. Ingress'
  BY <1>1 DEF OrderInv, Ingress
<1>3. Front'
  BY <1>1 DEF OrderInv, Front, Behind
<1>4. Chain'
  BY <1>1 DEF OrderInv, Chain, InOrder
<1> QED BY <1>2, <1>3, <1>4

LEMMA OrderBring ==
  ASSUME OrderInv, NEW k \in Kinds, NEW dts \in Int, dts >= clock[k], Bring(k, dts)
  PROVE  Ingress' /\ Front' /\ Chain'
<1>1. /\ TypeOK /\ UNCHANGED <<ingress, input, hand, packets, newest, turn>>
      /\ clock' = [clock EXCEPT ![k] = dts] /\ held[k] = None
  BY DEF OrderInv, Bring, queueVars, workerVars, historyVars
<1>2. \A q \in Kinds : clock[q] \in Int /\ clock'[q] \in Int /\ clock[q] <= clock'[q]
  BY <1>1 DEF TypeOK
<1>3. ASSUME NEW q \in Kinds, held'[q] # None
      PROVE  held'[q].kind = q /\ held'[q].dts = clock'[q]
  <2>1. CASE q = k
    BY <1>1, <2>1 DEF Bring, TypeOK
  <2>2. CASE q # k
    BY <1>1, <1>3, <2>2 DEF Bring, TypeOK, OrderInv, Ingress
  <2> QED BY <2>1, <2>2
<1>4. \A q \in Kinds : input[q] # None => input[q] <= clock'[q]
  BY <1>1, <1>2 DEF OrderInv, Ingress, TypeOK
<1>5. Ingress'
  BY <1>1, <1>3, <1>4 DEF OrderInv, Ingress
<1>6. ASSUME NEW p \in Packets, Behind(p)
      PROVE  \A q \in Kinds : p.dts < clock'[q]
                /\ \A i \in 1..Len(ingress[q]) : Before(p, ingress[q][i])
  BY <1>2, <1>6 DEF Behind, Packets
<1>7. Front'
  BY <1>1, <1>6, Elements DEF OrderInv, Front, Behind
<1>8. Chain'
  BY <1>1 DEF OrderInv, Chain, InOrder
<1> QED BY <1>5, <1>7, <1>8

LEMMA OrderEnqueue ==
  ASSUME OrderInv, NEW k \in Kinds, Enqueue(k)
  PROVE  Ingress' /\ Front' /\ Chain'
<1>1. TypeOK /\ Ingress /\ Front /\ Chain
  BY DEF OrderInv
<1>2. /\ held[k] \in Packets /\ held' = [held EXCEPT ![k] = None]
      /\ Pushed(k) \/ Faulty(k) \/ Passed
      /\ UNCHANGED <<packets, hand, turn, clock, newest>>
  BY <1>1, EnqueueCases DEF workerVars, encoderVars, historyVars
<1>3. held[k] # None => held[k].kind = k /\ held[k].dts = clock[k]
  BY <1>1 DEF Ingress
<1>4. held[k] # None
  BY DEF Enqueue
<1>5. Chain'
  BY <1>1, <1>2 DEF Chain, InOrder
<1>6. \A q \in Kinds : held'[q] # None => held'[q].kind = q /\ held'[q].dts = clock'[q]
  BY <1>1, <1>2 DEF Ingress, TypeOK
<1>7. CASE Faulty(k) \/ Passed
  <2>1. ingress' = ingress
    BY <1>7 DEF Faulty, Passed
  <2>2. input' = input \/ input' = [input EXCEPT ![k] = clock[k]]
    BY <1>3, <1>4, <1>7 DEF Faulty, Passed
  <2>3. ASSUME NEW q \in Kinds
        PROVE  /\ input[q] # None => input'[q] # None /\ input[q] <= input'[q]
               /\ input'[q] # None => input'[q] <= clock[q]
    <3>1. clock[q] \in Int /\ clock[q] # None /\ (input[q] # None => input[q] \in Int)
      BY <1>1, CaptureConstants DEF TypeOK
    <3>2. input'[q] = input[q] \/ input'[q] = clock[q]
      BY <1>1, <2>2 DEF TypeOK
    <3> QED BY <1>1, <3>1, <3>2 DEF Ingress
  <2>4. \A q \in Kinds : input[q] # None => input[q] \in Int /\ input'[q] \in Int
    BY <1>1, <2>2, <2>3, CaptureConstants DEF TypeOK
  <2>5. ASSUME NEW q \in Kinds, NEW i \in 1..Len(ingress[q])
        PROVE  /\ ingress[q][i].kind = q /\ input'[q] # None /\ ingress[q][i].dts <= input'[q]
               /\ \A j \in 1..Len(ingress[q]) : i < j => ingress[q][i].dts < ingress[q][j].dts
    <3>1. ingress[q][i].dts \in Int
      BY <1>1, Elements DEF Packets
    <3> QED BY <1>1, <2>3, <2>4, <3>1 DEF Ingress
  <2>6. Ingress'
    BY <1>2, <1>6, <2>1, <2>3, <2>5 DEF Ingress
  <2>7. Front'
    BY <1>1, <1>2, <2>1 DEF Front, Behind
  <2> QED BY <1>5, <2>6, <2>7
<1>8. CASE Pushed(k)
  <2> DEFINE p == held[k]
             n == Len(ingress[k])
  <2>1. /\ n \in Nat /\ ingress'[k] = Append(ingress[k], p) /\ Len(ingress'[k]) = n + 1
        /\ \A i \in 1..n : ingress'[k][i] = ingress[k][i]
        /\ ingress'[k][n + 1] = p
    BY <1>1, <1>2, <1>8, Elements, AppendProperties DEF Pushed, TypeOK
  <2>2. /\ p.dts \in Int /\ p.dts # None /\ p.kind = k /\ p.dts = clock[k]
        /\ input'[k] = p.dts
    BY <1>1, <1>2, <1>3, <1>4, <1>8, CaptureConstants DEF Pushed, TypeOK, Packets
  <2>3. \A i \in 1..n : ingress[k][i].dts \in Int /\ ingress[k][i].dts < p.dts
    <3>1. \A i \in 1..n : ingress[k][i].dts \in Int /\ ingress[k][i].dts <= input[k]
                            /\ input[k] # None
      BY <1>1, Elements DEF Ingress, Packets
    <3> QED BY <1>1, <1>8, <2>2, <3>1 DEF Pushed, TypeOK
  <2>4. \A q \in Kinds \ {k} : ingress'[q] = ingress[q] /\ input'[q] = input[q]
    BY <1>1, <1>8 DEF Pushed, TypeOK
  <2> HIDE DEF p, n
  <2>5. ASSUME NEW i \in 1..(n + 1)
        PROVE  /\ ingress'[k][i].kind = k /\ ingress'[k][i].dts <= input'[k]
               /\ \A j \in 1..(n + 1) : i < j => ingress'[k][i].dts < ingress'[k][j].dts
    <3>1. i \in 1..n \/ i = n + 1
      BY <2>1
    <3>2. \A j \in 1..n : ingress[k][j].kind = k
            /\ \A l \in 1..n : j < l => ingress[k][j].dts < ingress[k][l].dts
      BY <1>1 DEF Ingress, n
    <3> QED BY <2>1, <2>2, <2>3, <3>1, <3>2
  <2>6. ASSUME NEW q \in Kinds
        PROVE  /\ \A i \in 1..Len(ingress'[q]) :
                    /\ ingress'[q][i].kind = q /\ input'[q] # None
                    /\ ingress'[q][i].dts <= input'[q]
                    /\ \A j \in 1..Len(ingress'[q]) :
                         i < j => ingress'[q][i].dts < ingress'[q][j].dts
               /\ input'[q] # None => input'[q] <= clock'[q]
    <3>1. CASE q = k
      <4>1. input'[k] # None /\ input'[k] <= clock'[k]
        BY <1>2, <2>2
      <4>2. 1..Len(ingress'[k]) = 1..(n + 1)
        BY <2>1
      <4> QED BY <2>5, <3>1, <4>1, <4>2
    <3>2. CASE q # k
      BY <1>1, <1>2, <2>4, <3>2 DEF Ingress
    <3> QED BY <3>1, <3>2
  <2>7. Ingress'
    BY <1>2, <1>6, <2>6 DEF Ingress
  <2>8. ASSUME NEW r \in Packets, Behind(r)
        PROVE  \A q \in Kinds : r.dts < clock'[q]
                  /\ \A i \in 1..Len(ingress'[q]) : Before(r, ingress'[q][i])
    <3> SUFFICES ASSUME NEW q \in Kinds, NEW i \in 1..Len(ingress'[q])
                 PROVE  Before(r, ingress'[q][i])
      BY <1>2, <2>8 DEF Behind
    <3>1. CASE q # k
      BY <2>4, <2>8, <3>1 DEF Behind
    <3>2. CASE q = k /\ i \in 1..n
      BY <2>1, <2>8, <3>2 DEF Behind, n
    <3>3. CASE q = k /\ i = n + 1
      BY <2>1, <2>2, <2>8, <3>3 DEF Behind, Before
    <3> QED BY <2>1, <3>1, <3>2, <3>3
  <2>9. Front'
    BY <1>1, <1>2, <2>8, Elements DEF Front, Behind
  <2> QED BY <1>5, <2>7, <2>9
<1> QED BY <1>2, <1>7, <1>8

LEMMA OrderMerge ==
  ASSUME OrderInv, Merge
  PROVE  Ingress' /\ Front' /\ Chain'
<1> DEFINE k == NextKind
           p == ingress[k][1]
           m == Len(packets)
           n == Len(ingress[k])
<1>1. TypeOK /\ Ingress /\ Front /\ Chain /\ CanMerge
  BY DEF OrderInv, Merge
<1>2. /\ k \in Kinds /\ p \in Packets /\ n \in Nat /\ n # 0
      /\ \A q \in Kinds : p.dts < clock[q]
      /\ \A q \in Kinds \ {k} : \A i \in 1..Len(ingress[q]) : Before(p, ingress[q][i])
      /\ packets' = Append(packets, p) /\ ingress' = [ingress EXCEPT ![k] = Tail(@)]
  BY <1>1, MergeNext DEF Merge
<1>3. UNCHANGED <<input, held, clock, hand, newest, turn>>
  BY DEF Merge, workerVars, encoderVars, historyVars
<1>4. /\ m \in Nat /\ Len(packets') = m + 1 /\ packets'[m + 1] = p
      /\ \A i \in 1..m : packets'[i] = packets[i]
  BY <1>1, <1>2, Elements, AppendProperties DEF TypeOK
<1>5. /\ Len(ingress'[k]) = n - 1
      /\ \A i \in 1..(n - 1) : ingress'[k][i] = ingress[k][i + 1]
      /\ \A q \in Kinds \ {k} : ingress'[q] = ingress[q]
  <2>1. ingress[k] \in Seq(Packets) /\ ingress[k] # <<>>
    BY <1>1, <1>2, EmptySeq DEF TypeOK
  <2>2. ingress'[k] = Tail(ingress[k])
    BY <1>1, <1>2 DEF TypeOK
  <2> HIDE DEF k
  <2> QED BY <1>1, <1>2, <2>1, <2>2, HeadTailProperties DEF TypeOK
<1> HIDE DEF k, p, m, n
\* What was before what waits is before what still waits.
<1>6. ASSUME NEW q \in Kinds, NEW i \in 1..Len(ingress'[q])
      PROVE  \E j \in 1..Len(ingress[q]) :
               /\ ingress'[q][i] = ingress[q][j]
               /\ q = k => j = i + 1 /\ j \in 2..n
               /\ q # k => j = i
  BY <1>2, <1>5 DEF n
<1>7. Ingress'
  <2>1. ASSUME NEW q \in Kinds, NEW i \in 1..Len(ingress'[q])
        PROVE  /\ ingress'[q][i].kind = q /\ input[q] # None /\ ingress'[q][i].dts <= input[q]
               /\ \A j \in 1..Len(ingress'[q]) :
                    i < j => ingress'[q][i].dts < ingress'[q][j].dts
    <3>1. PICK a \in 1..Len(ingress[q]) : /\ ingress'[q][i] = ingress[q][a]
                                          /\ a = IF q = k THEN i + 1 ELSE i
      BY <1>6
    <3>2. ASSUME NEW j \in 1..Len(ingress'[q]), i < j
          PROVE  ingress'[q][i].dts < ingress'[q][j].dts
      <4>1. PICK b \in 1..Len(ingress[q]) : /\ ingress'[q][j] = ingress[q][b]
                                            /\ b = IF q = k THEN j + 1 ELSE j
        BY <1>6
      <4>2. a < b
        BY <3>1, <3>2, <4>1
      <4> QED BY <1>1, <3>1, <4>1, <4>2 DEF Ingress
    <3> QED BY <1>1, <3>1, <3>2 DEF Ingress
  <2> QED BY <1>1, <1>3, <2>1 DEF Ingress
<1>8. ASSUME NEW r \in Packets, Behind(r)
      PROVE  \A q \in Kinds : r.dts < clock[q]
                /\ \A i \in 1..Len(ingress'[q]) : Before(r, ingress'[q][i])
  BY <1>6, <1>8 DEF Behind
<1>9. ASSUME NEW q \in Kinds, NEW i \in 1..Len(ingress'[q])
      PROVE  Before(p, ingress'[q][i])
  <2>1. CASE q # k
    BY <1>2, <1>6, <2>1
  <2>2. CASE q = k
    <3>1. PICK j \in 2..n : ingress'[k][i] = ingress[k][j]
      BY <1>6, <2>2
    <3>2. 1 \in 1..n /\ j \in 1..n /\ 1 < j
      BY <1>2
    <3>3. p.dts < ingress[k][j].dts
      BY <1>1, <1>2, <3>2 DEF Ingress, n, p
    <3> QED BY <2>2, <3>1, <3>3 DEF Before
  <2> QED BY <2>1, <2>2
<1>10. Front'
  <2>1. ASSUME NEW i \in 1..Len(packets')
        PROVE  \A q \in Kinds : packets'[i].dts < clock[q]
                 /\ \A j \in 1..Len(ingress'[q]) : Before(packets'[i], ingress'[q][j])
    <3>1. CASE i = m + 1
      BY <1>2, <1>4, <1>9, <3>1
    <3>2. CASE i # m + 1
      <4>1. i \in 1..m /\ packets'[i] = packets[i]
        BY <1>4, <3>2
      <4>2. packets[i] \in Packets /\ Behind(packets[i])
        BY <1>1, <4>1, Elements DEF Front, m
      <4> QED BY <1>8, <4>1, <4>2
    <3> QED BY <3>1, <3>2
  <2>2. ASSUME NEW i \in 1..Len(hand)
        PROVE  \A q \in Kinds : hand[i].dts < clock[q]
                 /\ \A j \in 1..Len(ingress'[q]) : Before(hand[i], ingress'[q][j])
    <3>1. hand[i] \in Packets /\ Behind(hand[i])
      BY <1>1, Elements DEF Front
    <3> QED BY <1>8, <3>1
  <2>3. ASSUME newest["Any"] # None
        PROVE  \A q \in Kinds : newest["Any"].dts < clock[q]
                 /\ \A j \in 1..Len(ingress'[q]) : Before(newest["Any"], ingress'[q][j])
    <3>1. newest["Any"] \in Packets /\ Behind(newest["Any"])
      BY <1>1, <2>3, Elements DEF Front
    <3> QED BY <1>8, <3>1
  <2> QED BY <1>3, <2>1, <2>2, <2>3 DEF Front, Behind
<1>11. ASSUME NEW r, Behind(r) PROVE Before(r, p)
  BY <1>2, <1>11 DEF Behind, n, p
<1>12. Chain'
  <2>1. ASSUME NEW i \in 1..(m + 1), NEW j \in 1..(m + 1), i < j
        PROVE  Before(packets'[i], packets'[j])
    <3>1. i \in 1..m /\ (j \in 1..m \/ j = m + 1)
      BY <1>4, <2>1
    <3> QED BY <1>1, <1>4, <1>11, <2>1, <3>1 DEF Chain, InOrder, Front, m
  <2>2. ASSUME NEW j \in 1..(m + 1)
        PROVE  /\ \A i \in 1..Len(hand) : Before(hand[i], packets'[j])
               /\ newest["Any"] # None => Before(newest["Any"], packets'[j])
    <3>1. j \in 1..m \/ j = m + 1
      BY <1>4
    <3> QED BY <1>1, <1>4, <1>11, <3>1 DEF Chain, Front, m
  <2> QED BY <1>1, <1>3, <1>4, <2>1, <2>2 DEF Chain, InOrder
<1> QED BY <1>7, <1>10, <1>12

\* What was merged is now in the worker's hand, which was empty.
LEMMA OrderTake ==
  ASSUME OrderInv, Take
  PROVE  Ingress' /\ Front' /\ Chain'
<1>1. UNCHANGED <<ingress, input, held, clock, newest>>
  BY DEF Take, encoderVars, historyVars
<1>2. CASE stopping
  BY <1>1, <1>2, OrderUnchanged DEF Take
<1>3. CASE ~stopping
  <2>1. hand = <<>> /\ hand' = packets /\ packets' = <<>> /\ turn' = "Taken" /\ Len(<<>>) = 0
    BY <1>3, EmptySeq DEF Take, OrderInv, Chain
  <2>2. Ingress' /\ Front'
    BY <1>1, <2>1 DEF OrderInv, Ingress, Front, Behind
  <2>3. Chain'
    BY <1>1, <2>1 DEF OrderInv, Chain, InOrder
  <2> QED BY <2>2, <2>3
<1> QED BY <1>2, <1>3

LEMMA OrderHandOver ==
  ASSUME OrderInv, HandOver
  PROVE  Ingress' /\ Front' /\ Chain'
<1>1. /\ UNCHANGED <<ingress, input, held, clock, packets>> /\ hand' = <<>>
      /\ turn' = "Done" /\ Len(<<>>) = 0
  BY EmptySeq DEF HandOver, queueVars, encoderVars
<1>2. newest'["Any"] = IF hand = <<>> THEN newest["Any"] ELSE hand[Len(hand)]
  BY HandOverCases DEF OrderInv
<1>3. hand # <<>> => Len(hand) \in 1..Len(hand)
  BY Elements, EmptySeq DEF OrderInv, TypeOK
<1>4. Ingress'
  BY <1>1 DEF OrderInv, Ingress
<1>5. Front'
  BY <1>1, <1>2, <1>3 DEF OrderInv, Front, Behind
<1>6. Chain'
  BY <1>1, <1>2, <1>3 DEF OrderInv, Chain, InOrder
<1> QED BY <1>4, <1>5, <1>6

LEMMA OrderNext == OrderInv /\ [Next]_vars => OrderInv'
<1> SUFFICES ASSUME OrderInv, [Next]_vars PROVE Ingress' /\ Front' /\ Chain'
  BY TypesNext DEF OrderInv
<1>1. CASE Take
  BY <1>1, OrderTake
<1>2. CASE HandOver
  BY <1>2, OrderHandOver
<1>3. CASE End
  <2>1. /\ ClearCapture /\ UNCHANGED <<held, clock, newest>>
        /\ hand' = <<>> \/ (hand' = hand /\ turn' = turn)
    BY <1>3 DEF End, encoderVars, historyVars
  <2> QED BY <2>1, OrderCleared
<1>4. CASE Tick
  BY <1>4, OrderUnchanged DEF Tick, queueVars, historyVars
<1>5. CASE Merge
  BY <1>5, OrderMerge
<1>6. CASE Merged
  BY <1>6, OrderUnchanged DEF Merged, queueVars, workerVars, encoderVars, historyVars
<1>7. CASE RequestStop
  BY <1>7, OrderCleared DEF RequestStop, workerVars, encoderVars, historyVars
<1>8. ASSUME NEW a \in Actions, Request(a) PROVE Ingress' /\ Front' /\ Chain'
  <2>1. CASE Discarded
    BY <1>8, <2>1, RequestCases, OrderCleared DEF Discarded, workerVars, encoderVars
  <2>2. CASE Kept
    BY <1>8, <2>2, RequestCases, OrderUnchanged DEF Kept, workerVars, encoderVars
  <2> QED BY <1>8, <2>1, <2>2, RequestCases
<1>9. ASSUME NEW k \in Kinds, Deliver(k) PROVE Ingress' /\ Front' /\ Chain'
  <2>1. clock[k] + Step[k] \in Int /\ clock[k] + Step[k] >= clock[k]
    BY CaptureConstants DEF OrderInv, TypeOK
  <2> QED BY <1>9, <2>1, OrderBring DEF Deliver
<1>10. ASSUME NEW k \in Kinds, Enqueue(k) PROVE Ingress' /\ Front' /\ Chain'
  BY <1>10, OrderEnqueue
<1>11. ASSUME NEW k \in Kinds, Repeat(k) PROVE Ingress' /\ Front' /\ Chain'
  <2>1. clock[k] \in Int /\ clock[k] >= clock[k]
    BY DEF OrderInv, TypeOK
  <2> QED BY <1>11, <2>1, OrderBring DEF Repeat
<1>12. ASSUME NEW k \in Kinds, Halt(k) PROVE Ingress' /\ Front' /\ Chain'
  BY <1>12, OrderUnchanged DEF Halt, queueVars, workerVars, historyVars
<1>13. CASE UNCHANGED vars
  BY <1>13, OrderUnchanged DEF vars, queueVars, workerVars, encoderVars, historyVars
<1> QED BY <1>1, <1>2, <1>3, <1>4, <1>5, <1>6, <1>7, <1>8, <1>9, <1>10, <1>11, <1>12, <1>13
     DEF Next, Worker, Callback

LEMMA OrderInvariant == Spec => []OrderInv
BY OrderInit, OrderNext, PTL DEF Spec

\* Every variable keeps its type, and so every position in a queue exists.
THEOREM QueueTypes == Spec => []TypeOK
<1>1. OrderInv => TypeOK
  BY DEF OrderInv
<1> QED BY <1>1, OrderInvariant, PTL

\* The controller is given one stream in order, for any two encoders, any lag
\* and any interleaving with the actions.
THEOREM WorkerTakesInOrder == Spec => []TakenInOrder
<1>1. ASSUME OrderInv PROVE TakenInOrder
  <2> DEFINE s == hand \o packets
             h == Len(hand)
  <2>1. /\ h \in Nat /\ Len(packets) \in Nat /\ DOMAIN s = 1..(h + Len(packets))
        /\ \A i \in 1..(h + Len(packets)) : s[i] = IF i <= h THEN hand[i] ELSE packets[i - h]
    BY <1>1, Elements, ConcatProperties, LenProperties DEF OrderInv, TypeOK
  <2> HIDE DEF s, h
  <2>2. ASSUME NEW j \in DOMAIN s
        PROVE  /\ newest["Any"] # None => Before(newest["Any"], s[j])
               /\ \A i \in 1..(j - 1) : Before(s[i], s[j])
    <3>1. CASE j <= h
      <4>1. j \in 1..h /\ s[j] = hand[j] /\ \A i \in 1..(j - 1) : i \in 1..h /\ s[i] = hand[i] /\ i < j
        BY <2>1, <3>1
      <4> QED BY <1>1, <4>1 DEF OrderInv, Chain, InOrder, h
    <3>2. CASE j > h
      <4>1. j - h \in 1..Len(packets) /\ s[j] = packets[j - h]
        BY <2>1, <3>2
      <4>2. \A i \in 1..(j - 1) :
              \/ i \in 1..h /\ s[i] = hand[i]
              \/ i - h \in 1..Len(packets) /\ i - h < j - h /\ s[i] = packets[i - h]
        BY <2>1, <3>2
      <4>3. /\ newest["Any"] # None => Before(newest["Any"], packets[j - h])
            /\ \A i \in 1..h : Before(hand[i], packets[j - h])
            /\ \A i \in 1..Len(packets) : i < j - h => Before(packets[i], packets[j - h])
        BY <1>1, <4>1 DEF OrderInv, Chain, InOrder, h
      <4> QED BY <4>1, <4>2, <4>3
    <3>3. j <= h \/ j > h
      BY <2>1
    <3> QED BY <3>1, <3>2, <3>3, Zenon
  <2> QED BY <2>2 DEF TakenInOrder, s
<1> QED BY <1>1, OrderInvariant, PTL

-----------------------------------------------------------------------------
\* What was discarded stays away.

LEMMA RevokeInit == Init => Tokens /\ Floor /\ Queues
<1> SUFFICES ASSUME Init PROVE Tokens /\ Floor /\ Queues
  OBVIOUS
<1>1. /\ \A k \in Kinds : ingress[k] = <<>> /\ held[k] = None
      /\ packets = <<>> /\ cut = None /\ Len(<<>>) = 0
  BY EmptySeq DEF Init, Empty, Nothing
<1> QED BY <1>1 DEF Tokens, Floor, Queues

\* A token that was given out is older than the next one.
LEMMA TokensNext == RevokeInv /\ [Next]_vars => Tokens'
<1> SUFFICES ASSUME RevokeInv, [Next]_vars, NEW k \in Kinds, held'[k] # None
             PROVE  /\ held'[k].token <= capture_epoch'
                    /\ held'[k].token = capture_epoch' => held'[k].round = dumps'
  BY DEF Tokens
<1>1. TypeOK /\ Ingress /\ Tokens /\ capture_epoch \in Nat
  BY DEF RevokeInv, OrderInv, TypeOK
<1>2. CASE held' = held /\ capture_epoch' = capture_epoch /\ dumps' = dumps
  BY <1>1, <1>2 DEF Tokens
<1>3. CASE held' = held /\ capture_epoch' = capture_epoch + 1
  <2>1. held[k] \in Packets /\ held[k].token \in Nat /\ held[k].token <= capture_epoch
    BY <1>1, <1>3 DEF Tokens, TypeOK, Packets
  <2> QED BY <1>1, <1>3, <2>1
<1>4. ASSUME NEW q \in Kinds, NEW dts, Bring(q, dts)
      PROVE  /\ held'[k].token <= capture_epoch'
             /\ held'[k].token = capture_epoch' => held'[k].round = dumps'
  <2>1. capture_epoch' = capture_epoch /\ dumps' = dumps
    BY <1>4 DEF Bring, queueVars, historyVars
  <2>2. CASE k = q
    BY <1>1, <1>4, <2>1, <2>2 DEF Bring, TypeOK
  <2>3. CASE k # q
    BY <1>1, <1>4, <2>1, <2>3 DEF Bring, TypeOK, Tokens
  <2> QED BY <2>2, <2>3
<1>5. ASSUME NEW q \in Kinds, Enqueue(q)
      PROVE  /\ held'[k].token <= capture_epoch'
             /\ held'[k].token = capture_epoch' => held'[k].round = dumps'
  <2>1. held' = [held EXCEPT ![q] = None] /\ capture_epoch' = capture_epoch /\ dumps' = dumps
    BY <1>1, <1>5, EnqueueCases DEF historyVars
  <2>2. k # q
    BY <1>1, <2>1 DEF TypeOK
  <2> QED BY <1>1, <2>1, <2>2 DEF TypeOK, Tokens
<1>6. CASE Worker \/ Merge \/ Merged \/ UNCHANGED vars
  BY <1>2, <1>6 DEF Worker, Take, HandOver, End, Tick, Merge, Merged, vars, queueVars,
     workerVars, encoderVars, historyVars
<1>7. CASE RequestStop
  BY <1>3, <1>7 DEF RequestStop, NextToken
<1>8. ASSUME NEW a \in Actions, Request(a)
      PROVE  \/ held' = held /\ capture_epoch' = capture_epoch /\ dumps' = dumps
             \/ held' = held /\ capture_epoch' = capture_epoch + 1
  BY <1>8, RequestCases DEF Discarded, Kept, NextToken
<1>9. ASSUME NEW q \in Kinds, Halt(q)
      PROVE  held' = held /\ capture_epoch' = capture_epoch /\ dumps' = dumps
  BY <1>9 DEF Halt, queueVars, historyVars
<1> QED BY <1>2, <1>3, <1>4, <1>5, <1>6, <1>7, <1>8, <1>9 DEF Next, Callback, Deliver, Repeat

\* What waits is from after the last discard, while the floor lets nothing
\* older in.
LEMMA FloorEnqueue ==
  ASSUME RevokeInv, NEW k \in Kinds, Enqueue(k)
  PROVE  Floor' /\ Queues'
<1>1. TypeOK /\ Ingress /\ Tokens /\ Floor /\ Queues
  BY DEF RevokeInv, OrderInv
<1>2. /\ held[k] \in Packets /\ held[k] # None /\ held[k].kind = k /\ held[k].dts \in Int
      /\ held[k].dts # None
      /\ Pushed(k) \/ Faulty(k) \/ Passed
      /\ UNCHANGED <<packets, stopping, cut, dumps>>
  <2>1. held[k] # None
    BY DEF Enqueue
  <2>2. held[k].kind = k
    BY <1>1, <2>1 DEF Ingress
  <2>3. held[k] \in Packets /\ held[k].dts \in Int /\ held[k].dts # None
    BY <1>1, EnqueueCases, CaptureConstants DEF Packets
  <2> QED BY <1>1, <2>1, <2>2, <2>3, EnqueueCases DEF historyVars
<1>3. CASE Passed
  BY <1>1, <1>2, <1>3 DEF Passed, Floor, Queues, Current
<1>4. CASE Faulty(k)
  <2>1. ingress' = ingress /\ error' # None
    BY <1>4 DEF Faulty
  <2> QED BY <1>1, <1>2, <2>1 DEF Floor, Queues, Current
<1>5. CASE Pushed(k)
  <2>1. error = None /\ ~stopping /\ held[k].round = dumps
    BY <1>1, <1>2, <1>5 DEF Pushed, Refused, Tokens
  <2>2. k = "Video" /\ cut # None => held[k].dts > cut
    BY <1>1, <1>2, <1>5, <2>1 DEF Pushed, Late, Floor, TypeOK, Kinds
  <2>3. Current(held[k])
    BY <1>2, <2>1, <2>2 DEF Current
  <2>4. Floor'
    <3>1. CASE k = "Video"
      BY <1>1, <1>2, <1>5, <2>2, <3>1 DEF Pushed, Floor, TypeOK
    <3>2. CASE k # "Video"
      <4>1. capture_floor' = capture_floor /\ input'["Video"] = input["Video"]
        BY <1>1, <1>5, <3>2 DEF Pushed, TypeOK, Kinds
      <4> QED BY <1>1, <1>2, <2>1, <4>1 DEF Floor
    <3> QED BY <3>1, <3>2
  <2>5. ASSUME NEW q \in Kinds, NEW i \in 1..Len(ingress'[q]) PROVE Current(ingress'[q][i])
    <3>1. CASE q # k
      BY <1>1, <1>5, <2>5, <3>1 DEF Pushed, TypeOK, Queues
    <3>2. CASE q = k
      <4>1. /\ Len(ingress'[k]) = Len(ingress[k]) + 1 /\ Len(ingress[k]) \in Nat
            /\ ingress'[k][Len(ingress[k]) + 1] = held[k]
            /\ \A j \in 1..Len(ingress[k]) : ingress'[k][j] = ingress[k][j]
        BY <1>1, <1>2, <1>5, Elements, AppendProperties DEF Pushed, TypeOK
      <4>2. i \in 1..Len(ingress[k]) \/ i = Len(ingress[k]) + 1
        BY <2>5, <3>2, <4>1
      <4> QED BY <1>1, <2>3, <3>2, <4>1, <4>2 DEF Queues
    <3> QED BY <3>1, <3>2
  <2>6. Queues'
    BY <1>1, <1>2, <2>5 DEF Queues, Current
  <2> QED BY <2>4, <2>6
<1> QED BY <1>2, <1>3, <1>4, <1>5

LEMMA FloorRequest ==
  ASSUME RevokeInv, NEW a \in Actions, Request(a)
  PROVE  Floor' /\ Queues'
<1>1. TypeOK /\ Floor /\ Queues /\ error = None /\ ~stopping
  BY RequestCases DEF RevokeInv, OrderInv
<1>2. CASE Discarded
  <2>1. /\ packets' = <<>> /\ \A k \in Kinds : ingress'[k] = <<>> /\ Len(<<>>) = 0
    BY <1>2, ClearTypes, EmptySeq DEF Discarded
  <2>2. Queues'
    BY <2>1 DEF Queues
  <2>3. cut' # None => capture_floor' = cut'
    <3>1. CASE NewestInput # None
      BY <1>2, <3>1 DEF Discarded
    <3>2. CASE NewestInput = None
      <4>1. input["Video"] = None /\ capture_floor = None
        BY <1>1, <3>2, NewestInputIs DEF Kinds
      <4> QED BY <1>1, <1>2, <3>2, <4>1 DEF Discarded, Floor
    <3> QED BY <3>1, <3>2
  <2> QED BY <2>2, <2>3 DEF Floor
<1>3. CASE Kept
  BY <1>1, <1>3, RequestCases DEF Kept, Floor, Queues, Current
<1> QED BY <1>2, <1>3, RequestCases

LEMMA FloorMerge ==
  ASSUME RevokeInv, Merge
  PROVE  Floor' /\ Queues'
<1> DEFINE k == NextKind
           m == Len(packets)
<1>1. TypeOK /\ Ingress /\ Floor /\ Queues /\ CanMerge
  BY DEF RevokeInv, OrderInv, Merge
<1>2. UNCHANGED <<input, capture_floor, error, stopping, dumps, cut>>
  BY DEF Merge, historyVars
<1>3. /\ k \in Kinds /\ ingress[k] # <<>> /\ ingress[k] \in Seq(Packets)
      /\ Len(ingress[k]) \in Nat \ {0}
      /\ packets' = Append(packets, ingress[k][1])
      /\ ingress' = [ingress EXCEPT ![k] = Tail(@)]
  BY <1>1, MergeNext DEF Merge, TypeOK
<1> HIDE DEF k
<1>4. ASSUME NEW i \in 1..Len(packets') PROVE Current(packets'[i])
  <2>1. /\ m \in Nat /\ Len(packets') = m + 1 /\ packets'[m + 1] = ingress[k][1]
        /\ \A j \in 1..m : packets'[j] = packets[j]
    BY <1>1, <1>3, Elements, AppendProperties, ElementOfSeq DEF TypeOK
  <2>2. Current(ingress[k][1]) /\ \A j \in 1..m : Current(packets[j])
    BY <1>1, <1>3 DEF Queues
  <2> QED BY <2>1, <2>2
<1>5. ASSUME NEW q \in Kinds, NEW i \in 1..Len(ingress'[q]) PROVE Current(ingress'[q][i])
  <2>1. CASE q # k
    BY <1>1, <1>3, <1>5, <2>1 DEF TypeOK, Queues
  <2>2. CASE q = k
    <3>1. ingress'[k] = Tail(ingress[k])
      BY <1>1, <1>3 DEF TypeOK
    <3>2. /\ Len(ingress'[k]) = Len(ingress[k]) - 1
          /\ \A j \in 1..(Len(ingress[k]) - 1) : ingress'[k][j] = ingress[k][j + 1]
      BY <1>3, <3>1, HeadTailProperties
    <3> QED BY <1>1, <1>3, <1>5, <2>2, <3>2 DEF Queues
  <2> QED BY <2>1, <2>2
<1> QED BY <1>1, <1>2, <1>4, <1>5 DEF Floor, Queues, Current

LEMMA FloorNext == RevokeInv /\ [Next]_vars => Floor' /\ Queues'
<1> SUFFICES ASSUME RevokeInv, [Next]_vars PROVE Floor' /\ Queues'
  OBVIOUS
<1>1. Floor /\ Queues
  BY DEF RevokeInv
<1>2. CASE UNCHANGED <<capture_floor, error, stopping, input, ingress, dumps, cut>>
           /\ (packets' = packets \/ packets' = <<>>)
  BY <1>1, <1>2, EmptySeq DEF Floor, Queues, Current
<1>3. CASE stopping' /\ ClearCapture
  <2>1. /\ packets' = <<>> /\ \A k \in Kinds : ingress'[k] = <<>> /\ Len(<<>>) = 0
    BY <1>3, ClearTypes, EmptySeq
  <2> QED BY <1>3, <2>1 DEF Floor, Queues
<1>4. CASE Take \/ HandOver \/ Tick \/ Merged \/ UNCHANGED vars
  BY <1>2, <1>4 DEF Take, HandOver, Tick, Merged, vars, queueVars, workerVars, encoderVars,
     historyVars
<1>5. CASE End \/ RequestStop
  BY <1>3, <1>5 DEF End, RequestStop
<1>6. CASE Merge
  BY <1>6, FloorMerge
<1>7. ASSUME NEW a \in Actions, Request(a) PROVE Floor' /\ Queues'
  BY <1>7, FloorRequest
<1>8. ASSUME NEW k \in Kinds, Enqueue(k) PROVE Floor' /\ Queues'
  BY <1>8, FloorEnqueue
<1>9. ASSUME NEW k \in Kinds, Deliver(k) \/ Repeat(k) \/ Halt(k) PROVE Floor' /\ Queues'
  BY <1>2, <1>9 DEF Deliver, Repeat, Halt, Bring, queueVars, historyVars
<1> QED BY <1>4, <1>5, <1>6, <1>7, <1>8, <1>9 DEF Next, Worker, Callback

\* Whatever a callback was busy with and however late a picture is, nothing
\* captured before an Emergency Dump is queued after it.
THEOREM DiscardedStaysAway == Spec => []RevokedIsGone
<1>1. Init => RevokeInv
  BY OrderInit, RevokeInit DEF RevokeInv
<1>2. RevokeInv /\ [Next]_vars => RevokeInv'
  BY OrderNext, TokensNext, FloorNext DEF RevokeInv
<1>3. ASSUME RevokeInv PROVE RevokedIsGone
  <2>1. /\ DOMAIN packets = 1..Len(packets)
        /\ \A k \in Kinds : DOMAIN ingress[k] = 1..Len(ingress[k])
    BY <1>3, LenProperties DEF RevokeInv, OrderInv, TypeOK
  <2> QED BY <1>3, <2>1 DEF RevokeInv, Queues, Current, RevokedIsGone, In
<1> QED BY <1>1, <1>2, <1>3, PTL DEF Spec

-----------------------------------------------------------------------------
\* Nothing else goes missing.

Working == error = None /\ ~stopping

\* The newest of a kind is the newest of all, or before it.
Newest ==
  \A k \in Kinds : newest[k] # None =>
    /\ newest[k].kind = k /\ newest["Any"] # None
    /\ newest[k] = newest["Any"] \/ Before(newest[k], newest["Any"])

\* What is known is from this round or an earlier one; from an earlier one
\* until the encoder's first packet after the discard has come.
Rounds ==
  \A k \in Kinds : \A p \in Known(k) :
    /\ p.round <= dumps
    /\ input[k] = None /\ ~stopping => p.round < dumps

\* The newest time stamp of an encoder is that of its newest packet,
Tip ==
  \A k \in Kinds : input[k] # None =>
    /\ \A p \in Known(k) : p.dts <= input[k]
    /\ Working => \E p \in Known(k) : p.dts = input[k] /\ p.round = dumps

\* and no packet has been dropped since: the one a callback is busy with will
\* be the next.
Near ==
  \A k \in Kinds : input[k] # None /\ Working =>
    /\ held[k] = None => clock[k] = input[k]
    /\ held[k] # None => /\ clock[k] \in {input[k], input[k] + Step[k]}
                         /\ held[k].token = capture_epoch
    /\ capture_floor # None => capture_floor < input[k]

Linked(S, step) ==
  \A p, q \in S : p.round = q.round /\ p.dts < q.dts =>
    \/ q.dts = p.dts + step
    \/ \E r \in S : p.dts < r.dts /\ r.dts < q.dts

LostInv == RevokeInv /\ Newest /\ Rounds /\ Tip /\ Near /\ NothingLost

LEMMA KnownIs ==
  ASSUME TypeOK, NEW k \in Kinds, NEW p
  PROVE  p \in Known(k) <=>
           /\ p \in Packets /\ p.kind = k
           /\ \/ p = newest[k] /\ p # None
              \/ \E i \in 1..Len(hand) : p = hand[i]
              \/ \E i \in 1..Len(packets) : p = packets[i]
              \/ \E i \in 1..Len(ingress[k]) : p = ingress[k][i]
<1>1. /\ DOMAIN hand = 1..Len(hand) /\ DOMAIN packets = 1..Len(packets)
      /\ DOMAIN ingress[k] = 1..Len(ingress[k])
  BY LenProperties DEF TypeOK
<1>2. newest[k] \in Packets \cup {None}
  BY DEF TypeOK
<1>3. In(hand) \cup In(packets) \cup In(ingress[k]) \subseteq Packets
  BY <1>1, Elements DEF In
<1> QED BY <1>1, <1>2, <1>3 DEF Known, In

LEMMA BeforeTransitive ==
  ASSUME NEW p \in Packets, NEW q \in Packets, NEW r \in Packets, Before(p, q), Before(q, r)
  PROVE  Before(p, r)
BY DEF Before, Packets

LEMMA NewestFirst ==
  ASSUME OrderInv, Newest, NEW k \in Kinds, newest[k] # None
  PROVE  /\ newest[k] \in Packets
         /\ \A i \in 1..Len(hand) : Before(newest[k], hand[i])
         /\ \A i \in 1..Len(packets) : Before(newest[k], packets[i])
         /\ Behind(newest[k])
<1>1. /\ TypeOK /\ newest[k] \in Packets /\ newest["Any"] \in Packets
      /\ newest["Any"] # None
      /\ newest[k] = newest["Any"] \/ Before(newest[k], newest["Any"])
  BY DEF OrderInv, Newest, TypeOK
<1>2. ASSUME NEW p \in Packets, Before(newest["Any"], p) PROVE Before(newest[k], p)
  BY <1>1, <1>2, BeforeTransitive
<1>3. Behind(newest["Any"])
  BY <1>1 DEF OrderInv, Front
<1>4. \A q \in Kinds : newest[k].dts < clock[q]
  BY <1>1, <1>3 DEF Behind, Before, Packets, TypeOK
<1>5. Behind(newest[k])
  BY <1>1, <1>2, <1>3, <1>4, Elements DEF Behind
<1> QED BY <1>1, <1>2, <1>5, Elements DEF OrderInv, Chain

\* Nothing that is known of an encoder is newer than its clock.
LEMMA KnownClock ==
  ASSUME OrderInv, Newest, NEW k \in Kinds, NEW p \in Known(k)
  PROVE  /\ p \in Packets /\ p.kind = k /\ p.dts \in Int /\ p.dts <= clock[k]
<1>1. TypeOK /\ Front /\ Ingress /\ clock[k] \in Int
  BY DEF OrderInv, TypeOK
<1>2. p \in Packets /\ p.kind = k /\ p.dts \in Int
  BY <1>1, KnownIs DEF Packets
<1>3. CASE p = newest[k] /\ p # None
  BY <1>1, <1>2, <1>3, NewestFirst DEF Behind
<1>4. ASSUME NEW i \in 1..Len(ingress[k]), p = ingress[k][i] PROVE p.dts <= clock[k]
  <2>1. input[k] \in Int /\ p.dts <= input[k] /\ input[k] <= clock[k]
    BY <1>1, <1>4 DEF Ingress, TypeOK
  <2> QED BY <1>1, <1>2, <2>1
<1>5. ASSUME Behind(p) PROVE p.dts <= clock[k]
  BY <1>1, <1>2, <1>5 DEF Behind
<1>6. \/ p = newest[k] /\ p # None
      \/ \E i \in 1..Len(hand) : p = hand[i]
      \/ \E i \in 1..Len(packets) : p = packets[i]
      \/ \E i \in 1..Len(ingress[k]) : p = ingress[k][i]
  BY <1>1, KnownIs
<1> QED BY <1>1, <1>2, <1>3, <1>4, <1>5, <1>6 DEF Front

\* What is linked stays so when only one end of it goes.
LEMMA EndGoes ==
  ASSUME NEW S, NEW T, NEW step, T \subseteq S, \A p \in S : p.dts \in Int, Linked(S, step),
         \/ \A p \in S \ T, q \in T : q.dts <= p.dts
         \/ \A p \in S \ T, q \in T : p.dts <= q.dts
  PROVE  Linked(T, step)
<1> SUFFICES ASSUME NEW p \in T, NEW q \in T, p.round = q.round, p.dts < q.dts,
                    q.dts # p.dts + step
             PROVE  \E r \in T : p.dts < r.dts /\ r.dts < q.dts
  BY DEF Linked
<1>1. PICK r \in S : p.dts < r.dts /\ r.dts < q.dts
  BY DEF Linked
<1>2. r \in T
  BY <1>1
<1> QED BY <1>1, <1>2

\* A packet that comes one step after the newest is linked as well.
LEMMA NextComes ==
  ASSUME NEW S, NEW step, NEW q, \A p \in S : p.dts \in Int /\ p.dts <= q.dts, q.dts \in Int,
         Linked(S, step),
         \A p \in S : p.round = q.round =>
           \E t \in S : /\ q.dts = t.dts + step /\ t.dts < q.dts
                        /\ \A r \in S : r.dts <= t.dts
  PROVE  Linked(S \cup {q}, step)
<1> SUFFICES ASSUME NEW p \in S \cup {q}, NEW r \in S \cup {q}, p.round = r.round,
                    p.dts < r.dts, r.dts # p.dts + step
             PROVE  \E t \in S \cup {q} : p.dts < t.dts /\ t.dts < r.dts
  BY DEF Linked
<1>1. p \in S
  OBVIOUS
<1>2. CASE r \in S
  BY <1>1, <1>2 DEF Linked
<1>3. CASE r = q
  <2>1. PICK t \in S : /\ q.dts = t.dts + step /\ t.dts < q.dts
                       /\ \A u \in S : u.dts <= t.dts
    BY <1>1, <1>3
  <2>2. p.dts <= t.dts /\ p.dts # t.dts
    BY <1>1, <1>3, <2>1
  <2> QED BY <1>1, <1>3, <2>1, <2>2
<1> QED BY <1>2, <1>3

-----------------------------------------------------------------------------
\* What is known, after each kind of step.

LEMMA KnownSame ==
  ASSUME UNCHANGED <<newest, hand, packets, ingress>>, NEW k \in Kinds
  PROVE  Known(k)' = Known(k)
BY DEF Known, In

LEMMA KnownTaken ==
  ASSUME OrderInv, Take, NEW k \in Kinds
  PROVE  Known(k)' = Known(k)
<1>1. UNCHANGED <<newest, ingress>>
  BY DEF Take, historyVars
<1>2. CASE stopping
  BY <1>1, <1>2, KnownSame DEF Take
<1>3. CASE ~stopping
  <2>1. hand = <<>> /\ hand' = packets /\ packets' = <<>>
    BY <1>3 DEF Take, OrderInv, Chain
  <2>2. In(<<>>) = {}
    BY EmptySeq, LenProperties DEF In
  <2> QED BY <1>1, <2>1, <2>2 DEF Known, In
<1> QED BY <1>2, <1>3

LEMMA KnownMerged ==
  ASSUME OrderInv, Merge, NEW k \in Kinds
  PROVE  Known(k)' = Known(k)
<1> DEFINE n == NextKind
<1>1. TypeOK /\ Ingress /\ CanMerge
  BY DEF OrderInv, Merge
<1>2. /\ n \in Kinds /\ ingress[n] # <<>> /\ ingress[n] \in Seq(Packets)
      /\ packets' = Append(packets, ingress[n][1])
      /\ ingress' = [ingress EXCEPT ![n] = Tail(@)] /\ ingress[n][1] \in Packets
  BY <1>1, MergeNext DEF Merge, TypeOK
<1>3. UNCHANGED <<newest, hand>> /\ Len(ingress[n]) \in Nat \ {0} /\ 1 \in 1..Len(ingress[n])
  BY <1>1, MergeNext DEF Merge, workerVars, historyVars
<1>4. ingress[n][1].kind = n
  BY <1>1, <1>2, <1>3 DEF Ingress
<1> HIDE DEF n
<1>5. In(packets') = In(packets) \cup {ingress[n][1]}
  <2>1. /\ Len(packets) \in Nat /\ DOMAIN packets = 1..Len(packets)
        /\ DOMAIN packets' = 1..(Len(packets) + 1)
        /\ packets'[Len(packets) + 1] = ingress[n][1]
        /\ \A i \in 1..Len(packets) : packets'[i] = packets[i]
    BY <1>1, <1>2, LenProperties, AppendProperties DEF TypeOK
  <2>2. \A i \in 1..(Len(packets) + 1) : i \in 1..Len(packets) \/ i = Len(packets) + 1
    BY <2>1
  <2>3. Len(packets) + 1 \in 1..(Len(packets) + 1) /\ 1..Len(packets) \subseteq 1..(Len(packets) + 1)
    BY <2>1
  <2> QED BY <2>1, <2>2, <2>3 DEF In
<1>6. In(ingress[n]) = In(ingress'[n]) \cup {ingress[n][1]}
  <2>1. ingress'[n] = Tail(ingress[n])
    BY <1>1, <1>2 DEF TypeOK
  <2>2. /\ DOMAIN ingress[n] = 1..Len(ingress[n]) /\ DOMAIN ingress'[n] = 1..(Len(ingress[n]) - 1)
        /\ \A i \in 1..(Len(ingress[n]) - 1) : ingress'[n][i] = ingress[n][i + 1]
    BY <1>2, <1>3, <2>1, LenProperties, HeadTailProperties
  <2>3. \A i \in 1..Len(ingress[n]) : i = 1 \/ (i - 1 \in 1..(Len(ingress[n]) - 1) /\ (i - 1) + 1 = i)
    BY <1>3
  <2>4. \A i \in 1..(Len(ingress[n]) - 1) : i + 1 \in 1..Len(ingress[n])
    BY <1>3
  <2>5. In(ingress[n]) \subseteq In(ingress'[n]) \cup {ingress[n][1]}
    <3> SUFFICES ASSUME NEW i \in 1..Len(ingress[n])
                 PROVE  ingress[n][i] \in In(ingress'[n]) \cup {ingress[n][1]}
      BY <2>2 DEF In
    <3>1. CASE i = 1
      BY <3>1
    <3>2. ASSUME NEW j \in 1..(Len(ingress[n]) - 1), i = j + 1
          PROVE  ingress[n][i] \in In(ingress'[n])
      BY <2>2, <3>2 DEF In
    <3> QED BY <2>3, <3>1, <3>2
  <2>6. In(ingress'[n]) \subseteq In(ingress[n])
    BY <2>2, <2>4 DEF In
  <2>7. ingress[n][1] \in In(ingress[n])
    BY <1>3, <2>2 DEF In
  <2> QED BY <2>5, <2>6, <2>7
<1>7. CASE k = n
  BY <1>3, <1>5, <1>6, <1>7 DEF Known
<1>8. CASE k # n
  <2>1. ingress'[k] = ingress[k]
    BY <1>1, <1>2, <1>8 DEF TypeOK
  <2> QED BY <1>3, <1>4, <1>5, <1>8, <2>1 DEF Known
<1> QED BY <1>7, <1>8

LEMMA KnownPushed ==
  ASSUME OrderInv, NEW k \in Kinds, NEW q \in Kinds, held[k] # None, Pushed(k),
         UNCHANGED <<newest, hand, packets>>
  PROVE  Known(q)' = IF q = k THEN Known(k) \cup {held[k]} ELSE Known(q)
<1>1. /\ TypeOK /\ held[k] \in Packets /\ held[k].kind = k
      /\ ingress' = [ingress EXCEPT ![k] = Append(@, held[k])]
  BY DEF OrderInv, TypeOK, Ingress, Pushed
<1>2. CASE q # k
  BY <1>1, <1>2 DEF Known, In, TypeOK
<1>3. CASE q = k
  <2>1. /\ Len(ingress[k]) \in Nat /\ DOMAIN ingress[k] = 1..Len(ingress[k])
        /\ DOMAIN ingress'[k] = 1..(Len(ingress[k]) + 1)
        /\ ingress'[k][Len(ingress[k]) + 1] = held[k]
        /\ \A i \in 1..Len(ingress[k]) : ingress'[k][i] = ingress[k][i]
    BY <1>1, LenProperties, AppendProperties DEF TypeOK
  <2>2. \A i \in 1..(Len(ingress[k]) + 1) : i \in 1..Len(ingress[k]) \/ i = Len(ingress[k]) + 1
    BY <2>1
  <2>3. /\ Len(ingress[k]) + 1 \in 1..(Len(ingress[k]) + 1)
        /\ 1..Len(ingress[k]) \subseteq 1..(Len(ingress[k]) + 1)
    BY <2>1
  <2>4. In(ingress'[k]) = In(ingress[k]) \cup {held[k]}
    BY <2>1, <2>2, <2>3 DEF In
  <2> QED BY <1>1, <1>3, <2>4 DEF Known
<1> QED BY <1>2, <1>3

\* A discard takes the young end of what is known.
LEMMA KnownCleared ==
  ASSUME OrderInv, Newest, ClearCapture, newest' = newest, hand' = hand \/ hand' = <<>>,
         NEW k \in Kinds
  PROVE  /\ Known(k)' \subseteq Known(k)
         /\ \A p \in Known(k) \ Known(k)', q \in Known(k)' : q.dts <= p.dts
<1>1. TypeOK /\ Front /\ Chain
  BY DEF OrderInv
<1>2. In(packets') = {} /\ In(ingress'[k]) = {} /\ (hand' = <<>> => In(hand') = {})
  BY ClearTypes, EmptySeq, LenProperties DEF In
<1>3. Known(k)' \subseteq Known(k)
  BY <1>2 DEF Known
<1>4. ASSUME NEW p \in Known(k) \ Known(k)', NEW q \in Known(k)'
      PROVE  q.dts <= p.dts
  <2>1. p \in Packets /\ q \in Packets /\ p \in Known(k) /\ q \in Known(k) /\ p.kind = k
    BY <1>3, KnownClock
  <2>2. \/ q = newest[k] /\ q # None
        \/ \E i \in 1..Len(hand) : q = hand[i]
    <3>1. DOMAIN hand = 1..Len(hand)
      BY <1>1, LenProperties DEF TypeOK
    <3> QED BY <1>2, <3>1 DEF Known, In
  <2>3. \/ \E i \in 1..Len(hand) : p = hand[i] /\ hand' = <<>>
        \/ \E i \in 1..Len(packets) : p = packets[i]
        \/ \E i \in 1..Len(ingress[k]) : p = ingress[k][i]
    <3>1. /\ DOMAIN hand = 1..Len(hand) /\ DOMAIN packets = 1..Len(packets)
          /\ DOMAIN ingress[k] = 1..Len(ingress[k])
      BY <1>1, LenProperties DEF TypeOK
    <3>2. p \notin {newest[k]} \ {None} /\ (hand' = hand => p \notin In(hand))
      BY <1>4, <2>1 DEF Known
    <3> QED BY <1>4, <2>1, <3>1, <3>2 DEF Known, In
  <2>4. CASE q = newest[k] /\ q # None
    <3>1. Before(newest[k], p)
      <4>1. /\ \A i \in 1..Len(hand) : Before(newest[k], hand[i])
            /\ \A i \in 1..Len(packets) : Before(newest[k], packets[i])
            /\ \A i \in 1..Len(ingress[k]) : Before(newest[k], ingress[k][i])
        BY <2>4, NewestFirst DEF Behind
      <4> QED BY <2>3, <4>1
    <3> QED BY <2>1, <2>4, <3>1 DEF Before, Packets
  <2>5. ASSUME NEW i \in 1..Len(hand), q = hand[i], hand' = hand PROVE q.dts <= p.dts
    <3>1. hand # <<>>
      BY <2>5, EmptySeq
    <3>2. CASE \E j \in 1..Len(packets) : p = packets[j]
      BY <1>1, <2>1, <2>5, <3>2 DEF Chain, Before, Packets
    <3>3. CASE \E j \in 1..Len(ingress[k]) : p = ingress[k][j]
      <4>1. Before(q, p)
        BY <1>1, <2>5, <3>3 DEF Front, Behind
      <4> QED BY <2>1, <4>1 DEF Before, Packets
    <3> QED BY <2>3, <2>5, <3>1, <3>2, <3>3
  <2>6. hand' = <<>> => q = newest[k] /\ q # None
    BY <1>2 DEF Known
  <2> QED BY <2>2, <2>4, <2>5, <2>6
<1> QED BY <1>3, <1>4

\* A hand-over takes the old end.
LEMMA KnownHandedOver ==
  ASSUME OrderInv, Newest, HandOver, NEW k \in Kinds
  PROVE  /\ Known(k)' \subseteq Known(k)
         /\ \A p \in Known(k) \ Known(k)', q \in Known(k)' : p.dts < q.dts
         /\ \A p \in Known(k) \ Known(k)' : Known(k)' # {}
<1>1. /\ TypeOK /\ Front /\ Chain /\ hand' = <<>> /\ UNCHANGED <<packets, ingress>>
      /\ In(<<>>) = {}
  BY EmptySeq, LenProperties DEF OrderInv, HandOver, queueVars, In
<1>2. /\ DOMAIN hand = 1..Len(hand) /\ Len(hand) \in Nat
      /\ \A i \in 1..Len(hand) : hand[i] \in Packets
  BY <1>1, LenProperties, Elements DEF TypeOK
<1>3. CASE newest'[k] = newest[k] /\ \A i \in 1..Len(hand) : hand[i].kind # k
  <2>1. Known(k)' = Known(k)
    BY <1>1, <1>2, <1>3 DEF Known, In
  <2> QED BY <2>1
<1>4. ASSUME NEW i \in 1..Len(hand), newest'[k] = hand[i], hand[i].kind = k,
             \A j \in 1..Len(hand) : hand[j].kind = k => j <= i
      PROVE  /\ Known(k)' \subseteq Known(k)
             /\ \A p \in Known(k) \ Known(k)', q \in Known(k)' : p.dts < q.dts
             /\ \A p \in Known(k) \ Known(k)' : Known(k)' # {}
  <2>1. hand[i] \in In(hand)
    BY <1>2 DEF In
  <2>2. Known(k)' \subseteq Known(k)
    BY <1>1, <1>4, <2>1 DEF Known
  <2>3. hand[i] \in Known(k)'
    BY <1>2, <1>4, CaptureConstants DEF Known
  <2>4. ASSUME NEW p \in Known(k) \ Known(k)', NEW q \in Known(k)'
        PROVE  p.dts < q.dts
    <3>1. p \in Packets /\ q \in Packets /\ p \in Known(k) /\ q \in Known(k) /\ p.kind = k /\ q.kind = k
      BY <2>2, <2>4, KnownClock
    <3>2. \/ p = newest[k] /\ p # None
          \/ \E j \in 1..Len(hand) : p = hand[j] /\ j # i
      <4>1. DOMAIN packets = 1..Len(packets) /\ DOMAIN ingress[k] = 1..Len(ingress[k])
        BY <1>1, LenProperties DEF TypeOK
      <4>2. p \notin In(packets) /\ p \notin In(ingress[k]) /\ p # hand[i]
        BY <1>1, <2>3, <2>4, <3>1 DEF Known
      <4> QED BY <1>2, <3>1, <4>2 DEF Known, In
    <3>3. \/ p = newest[k] /\ p # None
          \/ \E j \in 1..Len(hand) : p = hand[j] /\ j < i
      BY <1>2, <1>4, <3>1, <3>2
    <3>4. \/ q = hand[i]
          \/ \E j \in 1..Len(packets) : q = packets[j]
          \/ \E j \in 1..Len(ingress[k]) : q = ingress[k][j]
      <4>1. DOMAIN packets = 1..Len(packets) /\ DOMAIN ingress[k] = 1..Len(ingress[k])
        BY <1>1, LenProperties DEF TypeOK
      <4> QED BY <1>1, <1>4, <2>4, <4>1 DEF Known, In
    <3>5. Before(p, q)
      <4>1. CASE p = newest[k] /\ p # None
        BY <3>1, <3>4, <4>1, NewestFirst DEF Behind
      <4>2. ASSUME NEW j \in 1..Len(hand), p = hand[j], j < i PROVE Before(p, q)
        BY <1>1, <3>4, <4>2 DEF Chain, InOrder, Front, Behind
      <4> QED BY <3>3, <4>1, <4>2
    <3> QED BY <3>1, <3>5 DEF Before
  <2> QED BY <2>2, <2>3, <2>4
<1> QED BY <1>1, <1>3, <1>4, HandOverLast DEF Kinds

-----------------------------------------------------------------------------
\* The newest packets.
LEMMA NewestStep == OrderInv /\ Newest /\ [Next]_vars => Newest'
<1> SUFFICES ASSUME OrderInv, Newest, [Next]_vars PROVE Newest'
  OBVIOUS
<1>1. CASE newest' = newest
  BY <1>1 DEF Newest
<1>2. CASE HandOver
  <2> SUFFICES ASSUME NEW k \in Kinds, newest'[k] # None
               PROVE  /\ newest'[k].kind = k /\ newest'["Any"] # None
                      /\ newest'[k] = newest'["Any"] \/ Before(newest'[k], newest'["Any"])
    BY DEF Newest
  <2>1. /\ TypeOK /\ Chain /\ Len(hand) \in Nat /\ k # "Any"
        /\ \A i \in 1..Len(hand) : hand[i] \in Packets
    BY Elements DEF OrderInv, Kinds
  <2>2. CASE /\ newest'[k] = newest[k] /\ newest'["Any"] = newest["Any"]
    BY <2>2 DEF Newest
  <2>3. ASSUME NEW i \in 1..Len(hand), newest'["Any"] = hand[i], \A j \in 1..Len(hand) : j <= i
        PROVE  /\ newest'[k].kind = k /\ newest'["Any"] # None
               /\ newest'[k] = newest'["Any"] \/ Before(newest'[k], newest'["Any"])
    <3>1. newest'["Any"] # None
      BY <2>1, <2>3, CaptureConstants
    <3>2. CASE newest'[k] = newest[k]
      BY <2>3, <3>1, <3>2, NewestFirst DEF Newest
    <3>3. ASSUME NEW j \in 1..Len(hand), newest'[k] = hand[j], hand[j].kind = k
          PROVE  newest'[k] = newest'["Any"] \/ Before(newest'[k], newest'["Any"])
      <4>1. j = i \/ j < i
        BY <2>1, <2>3
      <4> QED BY <2>1, <2>3, <3>3, <4>1 DEF Chain, InOrder
    <3> QED BY <1>2, <2>1, <3>1, <3>2, <3>3, HandOverLast DEF Newest
  <2>4. /\ newest'["Any"] = newest["Any"] /\ Len(hand) = 0
        \/ \E i \in 1..Len(hand) : newest'["Any"] = hand[i] /\ \A j \in 1..Len(hand) : j <= i
    BY <1>2, <2>1, HandOverLast
  <2>5. Len(hand) = 0 => newest'[k] = newest[k]
    BY <1>2, <2>1, HandOverLast
  <2> QED BY <2>2, <2>3, <2>4, <2>5
<1>3. ~HandOver => newest' = newest
  <2>1. CASE Take \/ End \/ Tick \/ Merge \/ Merged \/ RequestStop \/ UNCHANGED vars
    BY <2>1 DEF Take, End, Tick, Merge, Merged, RequestStop, vars, historyVars
  <2>2. ASSUME NEW a \in Actions, Request(a) PROVE newest' = newest
    BY <2>2, RequestCases
  <2>3. ASSUME NEW k \in Kinds, Deliver(k) \/ Repeat(k) \/ Halt(k) PROVE newest' = newest
    BY <2>3 DEF Deliver, Repeat, Halt, Bring, historyVars
  <2>4. ASSUME NEW k \in Kinds, Enqueue(k) PROVE newest' = newest
    BY <2>4, EnqueueCases DEF OrderInv, historyVars
  <2> QED BY <2>1, <2>2, <2>3, <2>4 DEF Next, Worker, Callback
<1> QED BY <1>1, <1>2, <1>3

-----------------------------------------------------------------------------
\* What a step leaves of what is known, of the ends of it, and of the links.
Lost(k) ==
  /\ \A p \in Known(k) : /\ p.round <= dumps
                         /\ input[k] = None /\ ~stopping => p.round < dumps
  /\ input[k] # None =>
       /\ \A p \in Known(k) : p.dts <= input[k]
       /\ Working => \E p \in Known(k) : p.dts = input[k] /\ p.round = dumps
  /\ Linked(Known(k), Step[k])

LEMMA LostIs == Rounds /\ Tip /\ NothingLost <=> \A k \in Kinds : Lost(k)
BY DEF Rounds, Tip, NothingLost, Lost, Linked

LEMMA LostSame ==
  ASSUME NEW k \in Kinds, Lost(k), Known(k)' = Known(k), input'[k] = input[k], dumps' = dumps,
         Working' => Working, stopping => stopping'
  PROVE  Lost(k)'
BY DEF Lost, Linked

\* After a discard: everything that is left is of an earlier round, unless the
\* owner is stopping.
LEMMA LostCleared ==
  ASSUME LostInv, NEW k \in Kinds, Lost(k), ClearCapture, newest' = newest,
         hand' = hand \/ hand' = <<>>,
         (stopping' /\ dumps' = dumps) \/ dumps' = dumps + 1
  PROVE  Lost(k)'
<1>1. /\ Known(k)' \subseteq Known(k)
      /\ \A p \in Known(k) \ Known(k)', q \in Known(k)' : q.dts <= p.dts
      /\ \A p \in Known(k) : p.dts \in Int /\ p.round \in Nat
  BY KnownCleared, KnownClock DEF LostInv, RevokeInv, Packets
<1>2. Linked(Known(k)', Step[k])
  BY <1>1, EndGoes DEF Lost
<1>3. input'[k] = None /\ dumps \in Nat
  BY ClearTypes DEF LostInv, RevokeInv, OrderInv, TypeOK
<1>4. \A p \in Known(k)' : p.round <= dumps' /\ (~stopping' => p.round < dumps')
  BY <1>1, <1>3 DEF Lost
<1> QED BY <1>2, <1>3, <1>4 DEF Lost

LEMMA LostHandOver ==
  ASSUME LostInv, NEW k \in Kinds, Lost(k), HandOver
  PROVE  Lost(k)'
<1>1. /\ Known(k)' \subseteq Known(k)
      /\ \A p \in Known(k) \ Known(k)', q \in Known(k)' : p.dts < q.dts
      /\ \A p \in Known(k) \ Known(k)' : Known(k)' # {}
      /\ \A p \in Known(k) : p.dts \in Int
  BY KnownHandedOver, KnownClock DEF LostInv, RevokeInv
<1>2. UNCHANGED <<input, error, stopping, dumps>> /\ (input[k] # None => input[k] \in Int)
  BY DEF HandOver, queueVars, LostInv, RevokeInv, OrderInv, TypeOK
<1>3. Linked(Known(k)', Step[k])
  <2>1. \A p \in Known(k) \ Known(k)', q \in Known(k)' : p.dts <= q.dts
    BY <1>1
  <2> QED BY <1>1, <2>1, EndGoes DEF Lost
<1>4. ASSUME input[k] # None, NEW t \in Known(k), t.dts = input[k]
      PROVE  t \in Known(k)'
  <2> SUFFICES ASSUME t \notin Known(k)' PROVE FALSE
    OBVIOUS
  <2>1. PICK q \in Known(k)' : t.dts < q.dts
    BY <1>1
  <2>2. q.dts <= input[k] /\ q.dts \in Int
    BY <1>1, <1>4 DEF Lost
  <2> QED BY <1>2, <1>4, <2>1, <2>2
<1> QED BY <1>1, <1>2, <1>3, <1>4 DEF Lost, Working

LEMMA LostEnqueue ==
  ASSUME LostInv, NEW k \in Kinds, NEW q \in Kinds, Lost(q), Enqueue(k)
  PROVE  Lost(q)'
<1>1. /\ TypeOK /\ Ingress /\ OrderInv /\ Newest /\ Near /\ Tokens /\ dumps \in Nat
      /\ (input[k] # None => input[k] \in Int)
  BY DEF LostInv, RevokeInv, OrderInv, TypeOK
<1>2. /\ held[k] \in Packets /\ held[k] # None /\ held[k].kind = k /\ held[k].dts = clock[k]
      /\ held[k].dts \in Int /\ held[k].dts # None
      /\ Pushed(k) \/ Faulty(k) \/ Passed
      /\ UNCHANGED <<packets, hand, newest, stopping, dumps>>
  <2>1. held[k] # None
    BY DEF Enqueue
  <2>2. held[k].kind = k /\ held[k].dts = clock[k]
    BY <1>1, <2>1 DEF Ingress
  <2>3. /\ held[k] \in Packets
        /\ Pushed(k) \/ Faulty(k) \/ Passed
        /\ UNCHANGED <<packets, hand, newest, stopping, dumps>>
    BY <1>1, EnqueueCases DEF workerVars, historyVars
  <2>4. held[k].dts \in Int /\ held[k].dts # None
    BY <2>3, CaptureConstants DEF Packets
  <2> QED BY <2>1, <2>2, <2>3, <2>4
<1>3. \A p \in Known(k) : p.dts \in Int /\ p.dts <= held[k].dts
  BY <1>1, <1>2, KnownClock
<1>4. CASE Passed
  BY <1>2, <1>4, KnownSame, LostSame DEF Passed, Working
<1>5. CASE Faulty(k)
  <2>1. Known(q)' = Known(q) /\ ~Working'
    BY <1>2, <1>5, KnownSame DEF Faulty, Working
  <2>2. CASE input'[q] = input[q]
    BY <1>2, <2>1, <2>2, LostSame
  <2>3. CASE input'[q] # input[q]
    <3>1. q = k /\ input'[k] = held[k].dts
      BY <1>1, <1>5, <2>3 DEF Faulty, TypeOK
    <3> QED BY <1>2, <1>3, <2>1, <3>1 DEF Lost, Linked
  <2> QED BY <2>2, <2>3
<1>6. CASE Pushed(k)
  <2>1. /\ Working /\ held[k].round = dumps
        /\ input[k] # None => held[k].dts > input[k]
        /\ input' = [input EXCEPT ![k] = held[k].dts]
    BY <1>1, <1>2, <1>6 DEF Pushed, Refused, Tokens, Working
  <2>2. CASE q # k
    <3>1. Known(q)' = Known(q) /\ input'[q] = input[q]
      BY <1>1, <1>2, <1>6, <2>1, <2>2, KnownPushed DEF TypeOK
    <3> QED BY <1>2, <2>1, <3>1, LostSame
  <2>3. CASE q = k
    <3>1. Known(k)' = Known(k) \cup {held[k]} /\ input'[k] = held[k].dts
      BY <1>1, <1>2, <1>6, <2>1, KnownPushed DEF TypeOK
    <3>2. ASSUME NEW p \in Known(k), p.round = held[k].round
          PROVE  \E t \in Known(k) : /\ held[k].dts = t.dts + Step[k] /\ t.dts < held[k].dts
                                     /\ \A r \in Known(k) : r.dts <= t.dts
      <4>1. input[k] # None
        BY <1>1, <1>3, <2>1, <2>3, <3>2 DEF Lost, Working
      <4>2. held[k].dts = input[k] + Step[k]
        BY <1>1, <1>2, <2>1, <4>1 DEF Near
      <4> QED BY <2>1, <2>3, <4>1, <4>2 DEF Lost
    <3>3. Linked(Known(k)', Step[k])
      BY <1>2, <1>3, <2>3, <3>1, <3>2, NextComes DEF Lost
    <3>4. \A p \in Known(k)' : p.round <= dumps' /\ p.dts <= input'[k]
      BY <1>1, <1>2, <1>3, <2>1, <2>3, <3>1 DEF Lost
    <3>5. held[k] \in Known(k)'
      BY <3>1
    <3> QED BY <1>2, <2>1, <2>3, <3>1, <3>3, <3>4, <3>5 DEF Lost
  <2> QED BY <2>2, <2>3
<1> QED BY <1>2, <1>4, <1>5, <1>6

LEMMA LostStep == LostInv /\ [Next]_vars => Rounds' /\ Tip' /\ NothingLost'
<1> SUFFICES ASSUME LostInv, [Next]_vars PROVE \A k \in Kinds : Lost(k)'
  <2>1. Rounds' /\ Tip' /\ NothingLost' <=> \A k \in Kinds : Lost(k)'
    BY DEF Rounds, Tip, NothingLost, Lost, Linked
  <2> QED BY <2>1
<1> SUFFICES ASSUME NEW k \in Kinds PROVE Lost(k)'
  OBVIOUS
<1>1. /\ OrderInv /\ Newest /\ Lost(k)
  BY LostIs DEF LostInv, RevokeInv
<1>2. CASE Take
  <2>1. UNCHANGED <<input, error, stopping, dumps>>
    BY <1>2 DEF Take, historyVars
  <2> QED BY <1>1, <1>2, <2>1, KnownTaken, LostSame DEF Working
<1>3. CASE HandOver
  BY <1>1, <1>3, LostHandOver
<1>4. CASE Merge
  <2>1. UNCHANGED <<input, error, stopping, dumps>>
    BY <1>4 DEF Merge, historyVars
  <2> QED BY <1>1, <1>4, <2>1, KnownMerged, LostSame DEF Working
<1>5. CASE End \/ RequestStop
  <2>1. /\ ClearCapture /\ newest' = newest /\ (hand' = hand \/ hand' = <<>>)
        /\ stopping' /\ dumps' = dumps
    BY <1>5 DEF End, RequestStop, workerVars, historyVars
  <2> QED BY <1>1, <2>1, LostCleared
<1>6. CASE UNCHANGED <<newest, hand, packets, ingress, input, dumps, error, stopping>>
  BY <1>1, <1>6, KnownSame, LostSame DEF Working
<1>7. CASE Tick \/ Merged \/ UNCHANGED vars
  BY <1>6, <1>7 DEF Tick, Merged, queueVars, workerVars, historyVars, vars
<1>8. ASSUME NEW a \in Actions, Request(a) PROVE Lost(k)'
  <2>1. /\ Discarded \/ Kept
        /\ UNCHANGED <<newest, hand, error, stopping>>
    BY <1>8, RequestCases DEF workerVars
  <2>2. CASE Discarded
    BY <1>1, <2>1, <2>2, LostCleared DEF Discarded
  <2>3. CASE Kept
    BY <1>6, <2>1, <2>3 DEF Kept
  <2> QED BY <2>1, <2>2, <2>3
<1>9. ASSUME NEW q \in Kinds, Deliver(q) \/ Repeat(q) \/ Halt(q) PROVE Lost(k)'
  BY <1>6, <1>9 DEF Deliver, Repeat, Halt, Bring, queueVars, workerVars, historyVars
<1>10. ASSUME NEW q \in Kinds, Enqueue(q) PROVE Lost(k)'
  BY <1>1, <1>10, LostEnqueue
<1> QED BY <1>2, <1>3, <1>4, <1>5, <1>7, <1>8, <1>9, <1>10 DEF Next, Worker, Callback

\* A callback brings the packet after the newest one, and takes it in.
LEMMA NearBring ==
  ASSUME LostInv, NEW q \in Kinds, NEW dts \in {clock[q], clock[q] + Step[q]}, Bring(q, dts)
  PROVE  Near'
<1>1. TypeOK /\ Near
  BY DEF LostInv, RevokeInv, OrderInv
<1>2. /\ UNCHANGED <<input, error, stopping, capture_epoch, capture_floor>> /\ held[q] = None
      /\ held' = [held EXCEPT ![q] = [kind |-> q, dts |-> dts, token |-> capture_epoch,
                                       round |-> dumps]]
      /\ clock' = [clock EXCEPT ![q] = dts]
  BY DEF Bring, queueVars
<1> SUFFICES ASSUME NEW k \in Kinds, input[k] # None, Working
             PROVE  /\ held'[k] = None => clock'[k] = input[k]
                    /\ held'[k] # None => /\ clock'[k] \in {input[k], input[k] + Step[k]}
                                          /\ held'[k].token = capture_epoch
                    /\ capture_floor # None => capture_floor < input[k]
  BY <1>2 DEF Near, Working
<1>3. CASE k = q
  <2>1. clock[k] = input[k] /\ (capture_floor # None => capture_floor < input[k])
    BY <1>1, <1>2, <1>3 DEF Near
  <2>2. held'[k] = [kind |-> q, dts |-> dts, token |-> capture_epoch, round |-> dumps]
        /\ clock'[k] = dts
    BY <1>1, <1>2, <1>3 DEF TypeOK
  <2>3. held'[k] # None
    BY <1>1, <2>2, CaptureConstants DEF Packets, TypeOK
  <2> QED BY <1>3, <2>1, <2>2, <2>3
<1>4. CASE k # q
  BY <1>1, <1>2, <1>4 DEF Near, TypeOK
<1> QED BY <1>3, <1>4

LEMMA NearEnqueue ==
  ASSUME LostInv, NEW q \in Kinds, Enqueue(q)
  PROVE  Near'
<1>1. TypeOK /\ Ingress /\ Near
  BY DEF LostInv, RevokeInv, OrderInv
<1>2. /\ held[q] \in Packets /\ held[q].dts = clock[q] /\ held[q].dts \in Int /\ held[q] # None
      /\ held' = [held EXCEPT ![q] = None]
      /\ Pushed(q) \/ Faulty(q) \/ (Passed /\ (Refused(held[q]) \/ Late(held[q])))
      /\ UNCHANGED <<clock, capture_epoch, stopping>>
  <2>1. held[q] # None
    BY DEF Enqueue
  <2>2. held[q].dts = clock[q]
    BY <1>1, <2>1 DEF Ingress
  <2> QED BY <1>1, <2>1, <2>2, EnqueueCases DEF encoderVars, Packets
<1> SUFFICES ASSUME NEW k \in Kinds, input'[k] # None, Working'
             PROVE  /\ held'[k] = None => clock[k] = input'[k]
                    /\ held'[k] # None => /\ clock[k] \in {input'[k], input'[k] + Step[k]}
                                          /\ held'[k].token = capture_epoch
                    /\ capture_floor' # None => capture_floor' < input'[k]
  BY <1>2 DEF Near
<1>3. ~Faulty(q) /\ Working
  BY <1>2 DEF Faulty, Pushed, Passed, Refused, Working
<1>4. CASE k # q
  <2>1. held'[k] = held[k] /\ input'[k] = input[k] /\ capture_floor' \in {None, capture_floor}
    BY <1>1, <1>2, <1>3, <1>4 DEF Pushed, Passed, TypeOK
  <2> QED BY <1>1, <1>3, <2>1 DEF Near
<1>5. CASE k = q /\ Pushed(q)
  <2>1. /\ held'[k] = None /\ input'[k] = clock[k] /\ capture_floor' \in {None, capture_floor}
        /\ ~Late(held[k])
    BY <1>1, <1>2, <1>5 DEF Pushed, TypeOK
  <2>2. capture_floor # None => capture_floor < clock[k]
    BY <1>1, <1>2, <1>5, <2>1 DEF Late, TypeOK
  <2> QED BY <2>1, <2>2
<1>6. CASE k = q /\ Passed
  <2>1. input[k] # None /\ input[k] \in Int
    BY <1>1, <1>6 DEF Passed, TypeOK
  <2>2. /\ held[k].token = capture_epoch /\ input[k] <= held[k].dts
        /\ (capture_floor # None => capture_floor < input[k] /\ capture_floor \in Int)
    <3>1. clock[k] \in {input[k], input[k] + Step[k]} /\ Step[k] \in Nat
      BY <1>1, <1>2, <1>3, <1>6, <2>1, CaptureConstants DEF Near
    <3> QED BY <1>1, <1>2, <1>3, <1>6, <2>1, <3>1 DEF Near, TypeOK
  <2>3. ~Refused(held[k]) /\ ~Late(held[k])
    BY <1>2, <1>3, <1>6, <2>1, <2>2 DEF Refused, Late, Working
  <2>4. Pushed(q)
    BY <1>2, <1>3, <1>6, <2>3
  <2> QED BY <1>5, <1>6, <2>4
<1> QED BY <1>2, <1>3, <1>4, <1>5, <1>6

LEMMA NearStep == LostInv /\ [Next]_vars => Near'
<1> SUFFICES ASSUME LostInv, [Next]_vars PROVE Near'
  OBVIOUS
<1>1. Near
  BY DEF LostInv
<1>2. CASE UNCHANGED <<input, error, held, clock, capture_epoch, capture_floor>>
           /\ (stopping => stopping')
  BY <1>1, <1>2 DEF Near, Working
<1>3. CASE ClearCapture
  BY <1>3, ClearTypes DEF Near
<1>4. CASE Take \/ HandOver \/ Tick \/ Merge \/ Merged \/ UNCHANGED vars
  BY <1>2, <1>4 DEF Take, HandOver, Tick, Merge, Merged, queueVars, encoderVars, vars
<1>5. CASE End \/ RequestStop
  BY <1>3, <1>5 DEF End, RequestStop
<1>6. ASSUME NEW a \in Actions, Request(a) PROVE Near'
  <2>1. CASE Discarded
    BY <1>3, <2>1 DEF Discarded
  <2>2. CASE Kept
    BY <1>2, <1>6, <2>2, RequestCases DEF Kept, encoderVars
  <2> QED BY <1>6, <2>1, <2>2, RequestCases
<1>7. ASSUME NEW q \in Kinds, Deliver(q) PROVE Near'
  BY <1>7, NearBring DEF Deliver
<1>8. ASSUME NEW q \in Kinds, Repeat(q) PROVE Near'
  BY <1>8, NearBring DEF Repeat
<1>9. ASSUME NEW q \in Kinds, Halt(q) PROVE Near'
  BY <1>2, <1>9 DEF Halt, queueVars
<1>10. ASSUME NEW q \in Kinds, Enqueue(q) PROVE Near'
  BY <1>10, NearEnqueue
<1> QED BY <1>4, <1>5, <1>6, <1>7, <1>8, <1>9, <1>10 DEF Next, Worker, Callback

LEMMA LostStarts == Init => LostInv
<1> SUFFICES ASSUME Init PROVE LostInv
  OBVIOUS
<1>1. RevokeInv
  BY OrderInit, RevokeInit DEF RevokeInv
<1>2. /\ \A k \in Kinds : /\ newest[k] = None /\ ingress[k] = <<>> /\ input[k] = None
      /\ hand = <<>> /\ packets = <<>> /\ In(<<>>) = {}
  BY EmptySeq, LenProperties DEF Init, Empty, Nothing, In
<1>3. \A k \in Kinds : Known(k) = {}
  BY <1>2 DEF Known
<1> QED BY <1>1, <1>2, <1>3 DEF LostInv, Newest, Rounds, Tip, Near, NothingLost

LEMMA LostKept == Spec => []LostInv
<1>1. LostInv /\ [Next]_vars => LostInv'
  BY OrderNext, TokensNext, FloorNext, NewestStep, LostStep, NearStep DEF LostInv, RevokeInv
<1> QED BY <1>1, LostStarts, PTL DEF Spec

\* An Emergency Dump takes all that was captured before it, and nothing else
\* goes missing on the way from the encoders to the controller.
THEOREM OnlyTheRevokedGoes == Spec => []OnlyRevokedIsGone
<1>1. LostInv => NothingLost
  BY DEF LostInv
<1> QED BY <1>1, LostKept, DiscardedStaysAway, PTL DEF OnlyRevokedIsGone

-----------------------------------------------------------------------------
\* How long the merge can wait while both encoders work.

\* Between two callbacks nothing is left that could be merged.
Settled == merging = None /\ Working => ~CanMerge

\* An encoder that works is not later than it may be.
Clocks ==
  /\ now \in Nat
  /\ \A k \in Kinds :
       /\ clock[k] <= now
       /\ halted = {} => now <= clock[k] + MaxLag + (IF held[k] = None THEN Step[k] ELSE 0)

AboveFloor ==
  \A k \in Kinds : \A i \in 1..Len(ingress[k]) :
    capture_floor # None => capture_floor < ingress[k][i].dts

\* While an encoder has brought nothing since a discard, what waits for it was
\* captured at most a lag before the last packet of it that was dropped.
Awaited(k) == held[k] # None /\ held[k].token = capture_epoch
Reached(k) == IF Awaited(k) THEN clock[k] - Step[k] ELSE clock[k]
Waits ==
  halted = {} /\ Working =>
    \A j \in Kinds : input[j] = None =>
      \A k \in Kinds \ {j} : \A i \in 1..Len(ingress[k]) :
        Reached(j) <= ingress[k][i].dts + MaxLag

LagInv == LostInv /\ Settled /\ Clocks /\ AboveFloor /\ Waits /\ LagIsTolerated

LEMMA SettledStep == LagInv /\ [Next]_vars => Settled'
<1> SUFFICES ASSUME LagInv, [Next]_vars PROVE Settled'
  OBVIOUS
<1>1. Settled /\ OrderInv
  BY DEF LagInv, LostInv, RevokeInv
<1>2. CASE UNCHANGED <<merging, error, ingress, input>> /\ (stopping => stopping')
  BY <1>1, <1>2 DEF Settled, Working, CanMerge, NextKind, Past
<1>3. CASE ClearCapture
  <2>1. \A k \in Kinds : ingress'[k] = <<>>
    BY <1>3, ClearTypes
  <2> QED BY <2>1 DEF Settled, CanMerge, NextKind, Kinds
<1>4. CASE Take \/ HandOver \/ Tick \/ UNCHANGED vars
  BY <1>2, <1>4 DEF Take, HandOver, Tick, queueVars, encoderVars, vars
<1>5. CASE End \/ RequestStop
  BY <1>3, <1>5 DEF End, RequestStop
<1>6. CASE Merge
  BY <1>6 DEF Merge, Settled
<1>7. CASE Merged
  <2>1. UNCHANGED <<ingress, input>> /\ ~CanMerge
    BY <1>7 DEF Merged, queueVars
  <2> QED BY <2>1 DEF Settled, CanMerge, NextKind, Past
<1>8. ASSUME NEW a \in Actions, Request(a) PROVE Settled'
  <2>1. CASE Discarded
    BY <1>3, <2>1 DEF Discarded
  <2>2. CASE Kept
    BY <1>2, <1>8, <2>2, RequestCases DEF Kept
  <2> QED BY <1>8, <2>1, <2>2, RequestCases
<1>9. ASSUME NEW q \in Kinds, Deliver(q) \/ Repeat(q) \/ Halt(q) PROVE Settled'
  BY <1>2, <1>9 DEF Deliver, Repeat, Halt, Bring, queueVars
<1>10. ASSUME NEW q \in Kinds, Enqueue(q) PROVE Settled'
  <2>1. Pushed(q) \/ Faulty(q) \/ Passed
    BY <1>1, <1>10, EnqueueCases DEF OrderInv
  <2>2. MutexFree /\ stopping' = stopping
    BY <1>1, <1>10, EnqueueCases DEF Enqueue, OrderInv
  <2>3. CASE Pushed(q)
    BY <2>3, CaptureConstants DEF Pushed, Settled
  <2>4. CASE Faulty(q)
    BY <2>4 DEF Faulty, Settled, Working
  <2>5. CASE Passed
    BY <1>2, <2>2, <2>5 DEF Passed
  <2> QED BY <2>1, <2>3, <2>4, <2>5
<1> QED BY <1>4, <1>5, <1>6, <1>7, <1>8, <1>9, <1>10 DEF Next, Worker, Callback

LEMMA ClocksStep == LagInv /\ [Next]_vars => Clocks'
<1> SUFFICES ASSUME LagInv, [Next]_vars PROVE Clocks'
  OBVIOUS
<1>1. /\ Clocks /\ OrderInv /\ TypeOK /\ MaxLag \in Nat /\ Step \in [Kinds -> Nat \ {0}]
      /\ now \in Nat /\ \A k \in Kinds : clock[k] \in Int
  BY CaptureConstants DEF LagInv, LostInv, RevokeInv, OrderInv, TypeOK, Clocks
<1>2. CASE UNCHANGED <<now, clock, halted, held>>
  BY <1>2, <1>1 DEF Clocks
<1>3. CASE Take \/ HandOver \/ End \/ Merge \/ Merged \/ RequestStop \/ UNCHANGED vars
  BY <1>2, <1>3 DEF Take, HandOver, End, Merge, Merged, RequestStop, encoderVars, vars
<1>4. CASE Tick
  <2>1. /\ now' = now + 1 /\ UNCHANGED <<clock, halted, held>>
        /\ \A k \in Kinds : held[k] = None /\ (k \in halted \/ clock[k] + Step[k] + MaxLag > now)
    BY <1>4 DEF Tick
  <2> QED BY <1>1, <2>1 DEF Clocks
<1>5. ASSUME NEW a \in Actions, Request(a) PROVE Clocks'
  BY <1>2, <1>5, RequestCases DEF encoderVars
<1>6. ASSUME NEW q \in Kinds, NEW dts \in Int, Bring(q, dts),
             halted' = {} => halted = {} /\ dts = clock[q] + Step[q]
      PROVE  Clocks'
  <2>1. /\ now' = now /\ dts <= now /\ held[q] = None
        /\ clock' = [clock EXCEPT ![q] = dts]
        /\ \A k \in Kinds \ {q} : held'[k] = held[k]
    BY <1>1, <1>6 DEF Bring, TypeOK
  <2>2. \A k \in Kinds : clock'[k] = IF k = q THEN dts ELSE clock[k]
    BY <1>1, <2>1 DEF TypeOK
  <2>3. held'[q] # None
    <3>1. /\ held'[q] = [kind |-> q, dts |-> dts, token |-> capture_epoch, round |-> dumps]
          /\ held'[q] \in Packets
      BY <1>1, <1>6 DEF Bring, TypeOK, Packets
    <3> QED BY <3>1, CaptureConstants
  <2>4. ASSUME NEW k \in Kinds
        PROVE  /\ clock'[k] <= now
               /\ halted' = {} => now <= clock'[k] + MaxLag + (IF held'[k] = None THEN Step[k] ELSE 0)
    <3>1. CASE k = q
      BY <1>1, <1>6, <2>1, <2>2, <2>3, <3>1 DEF Clocks
    <3>2. CASE k # q
      BY <1>1, <1>6, <2>1, <2>2, <3>2 DEF Clocks
    <3> QED BY <3>1, <3>2
  <2> QED BY <1>1, <2>1, <2>4 DEF Clocks
<1>7. ASSUME NEW q \in Kinds, Deliver(q) PROVE Clocks'
  BY <1>1, <1>6, <1>7 DEF Deliver
<1>8. ASSUME NEW q \in Kinds, Repeat(q) PROVE Clocks'
  BY <1>1, <1>6, <1>8 DEF Repeat, Break
<1>9. ASSUME NEW q \in Kinds, Halt(q) PROVE Clocks'
  BY <1>1, <1>9 DEF Halt, Break, Clocks
<1>10. ASSUME NEW q \in Kinds, Enqueue(q) PROVE Clocks'
  <2>1. held' = [held EXCEPT ![q] = None] /\ UNCHANGED <<now, clock, halted>>
    BY <1>1, <1>10, EnqueueCases DEF OrderInv, encoderVars
  <2>2. \A k \in Kinds : held'[k] = None \/ held'[k] = held[k]
    BY <1>1, <2>1 DEF TypeOK
  <2>3. ASSUME NEW k \in Kinds
        PROVE  halted = {} => now <= clock[k] + MaxLag + (IF held'[k] = None THEN Step[k] ELSE 0)
    BY <1>1, <2>2 DEF Clocks
  <2> QED BY <1>1, <2>1, <2>3 DEF Clocks
<1> QED BY <1>3, <1>4, <1>5, <1>7, <1>8, <1>9, <1>10 DEF Next, Worker, Callback

\* What waits after a step waited before, or is the packet taken in.
LEMMA StillWaits ==
  ASSUME OrderInv, Merge, NEW k \in Kinds, NEW i \in 1..Len(ingress'[k])
  PROVE  \E j \in 1..Len(ingress[k]) : ingress'[k][i] = ingress[k][j]
<1> DEFINE n == NextKind
<1>1. TypeOK /\ Ingress
  BY DEF OrderInv
<1>2. /\ n \in Kinds /\ ingress[n] # <<>> /\ Len(ingress[n]) \in Nat \ {0}
      /\ ingress' = [ingress EXCEPT ![n] = Tail(@)]
  BY <1>1, MergeNext DEF Merge
<1>3. ingress'[k] = IF k = n THEN Tail(ingress[n]) ELSE ingress[k]
  BY <1>1, <1>2 DEF TypeOK
<1>4. /\ Len(Tail(ingress[n])) = Len(ingress[n]) - 1
      /\ \A j \in 1..(Len(ingress[n]) - 1) : Tail(ingress[n])[j] = ingress[n][j + 1]
  BY <1>1, <1>2, HeadTailProperties DEF TypeOK
<1> HIDE DEF n
<1> QED BY <1>2, <1>3, <1>4

LEMMA NewlyWaits ==
  ASSUME OrderInv, NEW q \in Kinds, held[q] # None, Pushed(q),
         NEW k \in Kinds, NEW i \in 1..Len(ingress'[k])
  PROVE  \/ k = q /\ ingress'[k][i] = held[q]
         \/ \E j \in 1..Len(ingress[k]) : ingress'[k][i] = ingress[k][j]
<1>1. TypeOK /\ held[q] \in Packets
  BY DEF OrderInv, TypeOK
<1>2. CASE k = q
  <2>1. /\ Len(ingress'[k]) = Len(ingress[k]) + 1 /\ Len(ingress[k]) \in Nat
        /\ ingress'[k][Len(ingress[k]) + 1] = held[q]
        /\ \A j \in 1..Len(ingress[k]) : ingress'[k][j] = ingress[k][j]
    BY <1>1, <1>2, Elements, AppendProperties DEF Pushed, TypeOK
  <2>2. i \in 1..Len(ingress[k]) \/ i = Len(ingress[k]) + 1
    BY <2>1
  <2> QED BY <1>2, <2>1, <2>2
<1>3. CASE k # q
  BY <1>1, <1>3 DEF Pushed, TypeOK
<1> QED BY <1>2, <1>3

LEMMA AboveFloorStep == LagInv /\ [Next]_vars => AboveFloor'
<1> SUFFICES ASSUME LagInv, [Next]_vars PROVE AboveFloor'
  OBVIOUS
<1>1. AboveFloor /\ OrderInv /\ TypeOK /\ Ingress
  BY DEF LagInv, LostInv, RevokeInv, OrderInv
<1>2. CASE UNCHANGED <<ingress, capture_floor>>
  BY <1>1, <1>2 DEF AboveFloor
<1>3. CASE ClearCapture
  BY <1>3, ClearTypes, EmptySeq DEF AboveFloor
<1>4. CASE Take \/ HandOver \/ Tick \/ Merged \/ UNCHANGED vars
  BY <1>2, <1>4 DEF Take, HandOver, Tick, Merged, queueVars, vars
<1>5. CASE End \/ RequestStop
  BY <1>3, <1>5 DEF End, RequestStop
<1>6. CASE Merge
  <2>1. capture_floor' = capture_floor
    BY <1>6 DEF Merge
  <2> QED BY <1>1, <1>6, <2>1, StillWaits DEF AboveFloor
<1>7. ASSUME NEW a \in Actions, Request(a) PROVE AboveFloor'
  BY <1>2, <1>3, <1>7, RequestCases DEF Discarded, Kept
<1>8. ASSUME NEW q \in Kinds, Deliver(q) \/ Repeat(q) \/ Halt(q) PROVE AboveFloor'
  BY <1>2, <1>8 DEF Deliver, Repeat, Halt, Bring, queueVars
<1>9. ASSUME NEW q \in Kinds, Enqueue(q) PROVE AboveFloor'
  <2>1. /\ held[q] \in Packets /\ held[q].dts \in Int
        /\ Pushed(q) \/ Faulty(q) \/ Passed
    BY <1>1, <1>9, EnqueueCases DEF Packets
  <2>2. CASE Passed
    BY <1>2, <2>2 DEF Passed
  <2>3. CASE Faulty(q)
    BY <1>1, <2>3 DEF Faulty, AboveFloor
  <2>4. CASE Pushed(q)
    <3>1. /\ capture_floor' \in {None, capture_floor}
          /\ capture_floor # None => capture_floor < held[q].dts
      BY <1>1, <2>1, <2>4 DEF Pushed, Late, TypeOK
    <3>2. held[q] # None
      BY <1>9 DEF Enqueue
    <3> QED BY <1>1, <2>4, <3>1, <3>2, NewlyWaits DEF AboveFloor
  <2> QED BY <2>1, <2>2, <2>3, <2>4
<1> QED BY <1>4, <1>5, <1>6, <1>7, <1>8, <1>9 DEF Next, Worker, Callback

LEMMA WaitsStep == LagInv /\ [Next]_vars => Waits'
<1> SUFFICES ASSUME LagInv, [Next]_vars PROVE Waits'
  OBVIOUS
<1>1. /\ Waits /\ AboveFloor /\ Clocks /\ OrderInv /\ TypeOK /\ Ingress /\ Tokens
      /\ MaxLag \in Nat /\ Step \in [Kinds -> Nat \ {0}] /\ now \in Nat
      /\ \A k \in Kinds : clock[k] \in Int
  BY CaptureConstants DEF LagInv, LostInv, RevokeInv, OrderInv, TypeOK, Clocks
<1>2. CASE /\ UNCHANGED <<input, halted, held, clock, capture_epoch>>
           /\ Working' => Working
           /\ \A k \in Kinds : \A i \in 1..Len(ingress'[k]) :
                \E j \in 1..Len(ingress[k]) : ingress'[k][i] = ingress[k][j]
  <2> SUFFICES ASSUME halted' = {} /\ Working', NEW j \in Kinds, input'[j] = None,
                      NEW k \in Kinds \ {j}, NEW i \in 1..Len(ingress'[k])
               PROVE  Reached(j)' <= ingress'[k][i].dts + MaxLag
    BY DEF Waits
  <2>1. PICK h \in 1..Len(ingress[k]) : ingress'[k][i] = ingress[k][h]
    BY <1>2
  <2>2. halted = {} /\ Working /\ input[j] = None
    BY <1>2
  <2>3. Reached(j) <= ingress[k][h].dts + MaxLag
    BY <1>1, <2>2 DEF Waits
  <2>4. Reached(j)' = Reached(j)
    BY <1>2 DEF Reached, Awaited
  <2> QED BY <2>1, <2>3, <2>4
<1>3. CASE ClearCapture
  BY <1>3, ClearTypes, EmptySeq DEF Waits
<1>4. CASE UNCHANGED <<ingress, input, error, stopping, halted, held, clock, capture_epoch>>
  BY <1>2, <1>4 DEF Working
<1>5. CASE Take \/ HandOver \/ Tick \/ Merged \/ UNCHANGED vars
  BY <1>4, <1>5 DEF Take, HandOver, Tick, Merged, queueVars, encoderVars, vars
<1>6. CASE End \/ RequestStop
  BY <1>3, <1>6 DEF End, RequestStop
<1>7. CASE Merge
  <2>1. UNCHANGED <<input, error, stopping, halted, held, clock, capture_epoch>>
    BY <1>7 DEF Merge, encoderVars
  <2> QED BY <1>1, <1>2, <1>7, <2>1, StillWaits DEF Working
<1>8. ASSUME NEW a \in Actions, Request(a) PROVE Waits'
  <2>1. CASE Discarded
    BY <1>3, <2>1 DEF Discarded
  <2>2. CASE Kept
    BY <1>4, <1>8, <2>2, RequestCases DEF Kept, encoderVars
  <2> QED BY <1>8, <2>1, <2>2, RequestCases
<1>9. ASSUME NEW q \in Kinds, Deliver(q) PROVE Waits'
  <2>1. /\ UNCHANGED <<ingress, input, error, stopping, halted, capture_epoch>>
        /\ held[q] = None
        /\ clock' = [clock EXCEPT ![q] = clock[q] + Step[q]]
        /\ held' = [held EXCEPT ![q] = [kind |-> q, dts |-> clock[q] + Step[q],
                                         token |-> capture_epoch, round |-> dumps]]
    BY <1>9 DEF Deliver, Bring, queueVars
  <2>2. ASSUME NEW k \in Kinds PROVE Reached(k)' = Reached(k)
    <3>1. CASE k = q
      <4>1. /\ held'[q] = [kind |-> q, dts |-> clock[q] + Step[q], token |-> capture_epoch,
                            round |-> dumps]
            /\ clock'[q] = clock[q] + Step[q] /\ held'[q] \in Packets
        BY <1>1, <2>1 DEF TypeOK, Packets
      <4>2. held'[q] # None /\ held'[q].token = capture_epoch'
        BY <2>1, <4>1, CaptureConstants
      <4> QED BY <1>1, <2>1, <3>1, <4>1, <4>2 DEF Reached, Awaited
    <3>2. CASE k # q
      BY <1>1, <2>1, <3>2 DEF Reached, Awaited, TypeOK
    <3> QED BY <3>1, <3>2
  <2> QED BY <1>1, <2>1, <2>2 DEF Waits, Working
<1>10. ASSUME NEW q \in Kinds, Repeat(q) \/ Halt(q) PROVE Waits'
  BY <1>10 DEF Repeat, Halt, Break, Waits
<1>11. ASSUME NEW q \in Kinds, Enqueue(q) PROVE Waits'
  <2>1. /\ held[q] \in Packets /\ held[q] # None /\ held[q].dts = clock[q]
        /\ held' = [held EXCEPT ![q] = None]
        /\ UNCHANGED <<halted, clock, capture_epoch, stopping, now>>
        /\ Pushed(q) \/ Faulty(q) \/ (Passed /\ (Refused(held[q]) \/ Late(held[q])))
    <3>1. held[q] # None
      BY <1>11 DEF Enqueue
    <3> QED BY <1>1, <1>11, <3>1, EnqueueCases DEF encoderVars, Ingress
  <2> SUFFICES ASSUME halted = {}, Working', NEW j \in Kinds, input'[j] = None,
                      NEW k \in Kinds \ {j}, NEW i \in 1..Len(ingress'[k])
               PROVE  Reached(j)' <= ingress'[k][i].dts + MaxLag
    BY <2>1 DEF Waits
  <2>2. ~Faulty(q) /\ Working
    BY <2>1 DEF Faulty, Pushed, Passed, Refused, Working
  <2>3. j # q => Reached(j)' = Reached(j)
    BY <1>1, <2>1 DEF Reached, Awaited, TypeOK
  <2>4. CASE Pushed(q)
    <3>1. j # q /\ input[j] = None
      BY <1>1, <2>1, <2>4, CaptureConstants DEF Pushed, TypeOK
    <3>2. CASE \E l \in 1..Len(ingress[k]) : ingress'[k][i] = ingress[k][l]
      BY <1>1, <2>2, <2>3, <3>1, <3>2 DEF Waits
    <3>3. CASE k = q /\ ingress'[k][i] = held[q]
      <4>1. Reached(j) <= clock[j]
        BY <1>1 DEF Reached
      <4>2. clock[j] <= now /\ now <= clock[q] + MaxLag
        BY <1>1, <2>1 DEF Clocks
      <4>3. Reached(j) \in Int
        BY <1>1 DEF Reached
      <4> QED BY <1>1, <2>1, <2>3, <3>1, <3>3, <4>1, <4>2, <4>3
    <3> QED BY <1>1, <2>1, <2>4, <3>2, <3>3, NewlyWaits
  <2>5. CASE Passed
    <3>1. ingress' = ingress /\ input' = input
      BY <2>5 DEF Passed
    <3>2. CASE j # q
      BY <1>1, <2>2, <2>3, <3>1, <3>2 DEF Waits
    <3>3. CASE j = q
      <4>1. Reached(q)' = clock[q]
        BY <1>1, <2>1 DEF Reached, Awaited, TypeOK
      <4>2. CASE ~Awaited(q)
        BY <1>1, <2>2, <3>1, <3>3, <4>1, <4>2 DEF Waits, Reached
      <4>3. CASE Awaited(q)
        <5>1. Late(held[q]) \/ Pushed(q)
          BY <2>1, <2>2, <4>3 DEF Refused, Awaited, Working
        <5>2. CASE Late(held[q])
          <6>1. /\ capture_floor \in Int /\ clock[q] <= capture_floor
                /\ capture_floor < ingress[k][i].dts /\ ingress[k][i].dts \in Int
            BY <1>1, <2>1, <3>1, <5>2, Elements DEF Late, AboveFloor, TypeOK, Packets
          <6> QED BY <1>1, <3>1, <3>3, <4>1, <6>1
        <5> QED BY <2>4, <5>1, <5>2
      <4> QED BY <4>2, <4>3
    <3> QED BY <3>2, <3>3
  <2> QED BY <2>1, <2>2, <2>4, <2>5
<1> QED BY <1>5, <1>6, <1>7, <1>8, <1>9, <1>10, <1>11 DEF Next, Worker, Callback

\* What makes a packet overdue.
LEMMA StalledEnqueue ==
  ASSUME LagInv, NEW k \in Kinds, Enqueue(k), error' = "IngressStalled", error # "IngressStalled"
  PROVE  /\ Working /\ merging = None /\ ingress[k] # <<>> /\ Overdue(held[k])
         /\ held[k] # None
         /\ input[k] # None => held[k].dts > input[k]
<1>1. TypeOK /\ Ingress /\ held[k] # None /\ held[k].kind = k
  BY DEF LagInv, LostInv, RevokeInv, OrderInv, Enqueue, Ingress
<1>2. ~Refused(held[k]) /\ ~Late(held[k]) /\ error' = Fault(held[k])
  BY DEF Enqueue, queueVars
<1>3. /\ ~(input[k] # None /\ held[k].dts <= input[k])
      /\ ingress[k] # <<>> /\ Overdue(held[k])
  BY <1>1, <1>2, CaptureConstants DEF Fault
<1>4. input[k] # None => held[k].dts > input[k]
  BY <1>1, <1>3 DEF TypeOK, Packets
<1> QED BY <1>1, <1>2, <1>3, <1>4 DEF Working, Refused, Enqueue, MutexFree

LEMMA Waiting ==
  ASSUME TypeOK, Ingress, NEW q \in Kinds, ingress[q] # <<>>
  PROVE  /\ 1 \in 1..Len(ingress[q]) /\ Head(ingress[q]) = ingress[q][1]
         /\ ingress[q][1].dts \in Int /\ input[q] \in Int /\ input[q] # None
         /\ ingress[q][1].dts <= input[q]
<1>1. ingress[q] \in Seq(Packets) /\ input[q] \in Int \cup {None}
  BY DEF TypeOK
<1>2. 1 \in 1..Len(ingress[q]) /\ Head(ingress[q]) = ingress[q][1] /\ ingress[q][1] \in Packets
  BY <1>1, EmptySeq, LenProperties, HeadTailProperties, ElementOfSeq
<1> QED BY <1>1, <1>2 DEF Ingress, Packets

\* The merge waits for one of the encoders, and not longer than the budget:
\* for the same one a step, for the other a step and its lag, or, while it has
\* brought nothing since a discard, a step and the lag of both.
LEMMA NeverOverdue ==
  ASSUME LagInv, NEW k \in Kinds, held[k] # None, Working, merging = None, ingress[k] # <<>>,
         input[k] # None => held[k].dts > input[k], halted = {}
  PROVE  ~Overdue(held[k])
<1> DEFINE h == ingress[k][1]
           p == held[k]
<1>1. /\ TypeOK /\ Ingress /\ Near /\ Clocks /\ Waits /\ ~CanMerge
      /\ MaxLag \in Nat /\ Step \in [Kinds -> Nat \ {0}] /\ now \in Nat /\ Budget \in Nat
      /\ \A q \in Kinds : clock[q] \in Int /\ Step[q] + 2 * MaxLag <= Budget
  BY CaptureConstants, LagWithinBudget
  DEF LagInv, LostInv, RevokeInv, OrderInv, TypeOK, Clocks, Settled
<1>2. /\ p.kind = k /\ p.dts = clock[k] /\ p.dts <= now
  BY <1>1 DEF Ingress, Clocks
<1>3. ASSUME NEW q \in Kinds, ingress[q] # <<>>
      PROVE  /\ 1 \in 1..Len(ingress[q]) /\ Head(ingress[q]) = ingress[q][1]
             /\ ingress[q][1].dts \in Int /\ input[q] \in Int /\ input[q] # None
             /\ ingress[q][1].dts <= input[q]
  BY <1>1, <1>3, Waiting
<1>4. /\ NextKind \in Kinds /\ ingress[NextKind] # <<>>
      /\ ingress[NextKind][1].dts <= h.dts
  BY <1>3 DEF NextKind, Kinds
<1>5. PICK q \in Kinds : input[q] # None => input[q] <= ingress[NextKind][1].dts
  <2> DEFINE g == ingress[NextKind][1]
  <2>1. ~Past(g) /\ g.dts \in Int
    BY <1>1, <1>3, <1>4 DEF CanMerge
  <2>2. \A i \in Kinds : input[i] # None => input[i] \in Int
    BY <1>1 DEF TypeOK
  <2> HIDE DEF g
  <2> QED BY <2>1, <2>2 DEF Past, g
<1> HIDE DEF h, p
<1>6. SUFFICES p.dts - h.dts <= Budget
  BY <1>1, <1>2, <1>3 DEF Overdue, h, p
<1>7. h.dts \in Int /\ p.dts \in Int /\ input[k] \in Int /\ h.dts <= input[k]
  BY <1>1, <1>2, <1>3 DEF h
<1>8. CASE input[q] # None /\ q = k
  <2>1. p.dts = input[k] + Step[k]
    BY <1>1, <1>2, <1>7, <1>8 DEF Near, p
  <2>2. input[k] <= h.dts
    BY <1>3, <1>4, <1>5, <1>7, <1>8
  <2> QED BY <1>1, <1>7, <2>1, <2>2
<1>9. CASE input[q] # None /\ q # k
  <2>1. input[q] \in Int /\ input[q] <= h.dts
    <3>1. input[q] \in Int
      BY <1>1, <1>9 DEF TypeOK
    <3>2. ingress[NextKind][1].dts \in Int
      BY <1>3, <1>4
    <3> QED BY <1>4, <1>5, <1>7, <1>9, <3>1, <3>2
  <2>2. now <= input[q] + Step[q] + MaxLag
    <3>1. /\ held[q] = None => clock[q] = input[q]
          /\ held[q] # None => clock[q] \in {input[q], input[q] + Step[q]}
      BY <1>1, <1>9 DEF Near
    <3>2. now <= clock[q] + MaxLag + (IF held[q] = None THEN Step[q] ELSE 0)
      BY <1>1 DEF Clocks
    <3>3. Step[q] \in Nat /\ clock[q] \in Int
      BY <1>1
    <3> QED BY <1>1, <2>1, <3>1, <3>2, <3>3
  <2> QED BY <1>1, <1>2, <1>7, <2>1, <2>2 DEF p
<1>10. CASE input[q] = None
  <2>1. q # k
    BY <1>7, <1>10, CaptureConstants
  <2>2. Reached(q) <= h.dts + MaxLag /\ Reached(q) \in Int
    <3>1. Reached(q) \in Int
      BY <1>1 DEF Reached
    <3>2. k \in Kinds \ {q} /\ 1 \in 1..Len(ingress[k])
      BY <1>3, <2>1
    <3>3. Reached(q) <= ingress[k][1].dts + MaxLag
      BY <1>1, <1>10, <3>2 DEF Waits
    <3> QED BY <3>1, <3>3 DEF h
  <2>3. now <= Reached(q) + Step[q] + MaxLag
    BY <1>1 DEF Reached, Awaited, Clocks
  <2> QED BY <1>1, <1>2, <1>7, <2>2, <2>3 DEF p
<1> QED BY <1>8, <1>9, <1>10

LEMMA LagStep == LagInv /\ [Next]_vars => LagIsTolerated'
<1> SUFFICES ASSUME LagInv, [Next]_vars, error' = "IngressStalled", halted' = {}
             PROVE  FALSE
  BY DEF LagIsTolerated
<1>1. LagIsTolerated /\ OrderInv
  BY DEF LagInv, LostInv, RevokeInv
<1>2. CASE error' = error /\ halted' = halted
  BY <1>1, <1>2 DEF LagIsTolerated
<1>3. CASE Take \/ HandOver \/ End \/ Tick \/ Merge \/ Merged \/ RequestStop \/ UNCHANGED vars
  BY <1>2, <1>3 DEF Take, HandOver, End, Tick, Merge, Merged, RequestStop, queueVars,
     encoderVars, vars
<1>4. ASSUME NEW a \in Actions, Request(a) PROVE FALSE
  BY <1>2, <1>4, RequestCases DEF encoderVars
<1>5. ASSUME NEW q \in Kinds, Deliver(q) PROVE FALSE
  BY <1>2, <1>5 DEF Deliver, Bring, queueVars
<1>6. ASSUME NEW q \in Kinds, Repeat(q) \/ Halt(q) PROVE FALSE
  BY <1>6 DEF Repeat, Halt, Break
<1>7. ASSUME NEW q \in Kinds, Enqueue(q) PROVE FALSE
  <2>1. halted' = halted
    BY <1>1, <1>7, EnqueueCases DEF OrderInv, encoderVars
  <2> QED BY <1>2, <1>7, <2>1, StalledEnqueue, NeverOverdue
<1> QED BY <1>3, <1>4, <1>5, <1>6, <1>7 DEF Next, Worker, Callback

LEMMA LagStarts == Init => LagInv
<1> SUFFICES ASSUME Init PROVE LagInv
  OBVIOUS
<1>1. LostInv
  BY LostStarts
<1>2. /\ \A k \in Kinds : /\ ingress[k] = <<>> /\ held[k] = None /\ clock[k] = -Step[k]
                          /\ Step[k] \in Nat
      /\ now = 0 /\ error = None /\ Len(<<>>) = 0 /\ MaxLag \in Nat
  BY EmptySeq, CaptureConstants DEF Init, Empty, Nothing
<1>3. Settled
  BY <1>2 DEF Settled, CanMerge, NextKind, Kinds
<1>4. Clocks
  BY <1>2 DEF Clocks
<1>5. AboveFloor /\ Waits /\ LagIsTolerated
  BY <1>2, CaptureConstants DEF AboveFloor, Waits, LagIsTolerated
<1> QED BY <1>1, <1>3, <1>4, <1>5 DEF LagInv

\* While both encoders work, a lag the budget covers never fails the merge,
\* however it changes and whatever an Emergency Dump cuts out.
THEOREM LagNeverFails == Spec => []LagIsTolerated
<1>1. LagInv /\ [Next]_vars => LagInv'
  <2>1. LostInv /\ [Next]_vars => LostInv'
    BY OrderNext, TokensNext, FloorNext, NewestStep, LostStep, NearStep DEF LostInv, RevokeInv
  <2> QED BY <2>1, SettledStep, ClocksStep, AboveFloorStep, WaitsStep, LagStep DEF LagInv
<1>2. LagInv => LagIsTolerated
  BY DEF LagInv
<1> QED BY <1>1, <1>2, LagStarts, PTL DEF Spec
=============================================================================
