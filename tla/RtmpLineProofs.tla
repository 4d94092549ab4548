--------------------------- MODULE RtmpLineProofs ---------------------------
(***************************************************************************)
(* For any limit of the queue, any number of epochs, batches, attempts and *)
(* reconnections, and any connection: what the sender puts on air decodes  *)
(* (WhatGoesOnAirDecodes).                                                 *)
(*                                                                         *)
(* LineInv follows the video from the feed to the wire: a dependent frame  *)
(* finds the one it depends on before it in the queue, in the worker's     *)
(* hand or last on the wire (Frames, InTurn), unless the worker waits for  *)
(* a keyframe (MayJoin); everything pending was made with the headers in   *)
(* force (Source, Labelled), except a drain guard that the boundary        *)
(* overtook on a replaced connection, which has only guards before it      *)
(* (Overtaken, Lined), and the wire has those headers whenever a tag is    *)
(* written (Revisions, Primer).  The steps of the worker are read as the   *)
(* few that matter to the line (LineMoves).  It stands on SenderInv and    *)
(* on the shape of what shedding and thinning keep, proved in              *)
(* RtmpSenderProofs.                                                       *)
(***************************************************************************)
EXTENDS RtmpSenderProofs

-----------------------------------------------------------------------------
(* The video of the line: what the queue, the hand and the wire hold.       *)

\* Video in the order of its numbers, and no frame missing before a delta.
Rising(q) ==
  \A i, j \in 1..Len(q) :
    i < j /\ IsVideo(q[i]) /\ IsVideo(q[j]) => q[i].video < q[j].video
Leads(q, j) == \A i \in 1..(j - 1) : ~IsVideo(q[i])
Linked(q) ==
  \A j \in 1..Len(q) :
    q[j].kind = "delta" /\ ~Leads(q, j) =>
      \E i \in 1..(j - 1) : IsVideo(q[i]) /\ q[i].video = q[j].video - 1
Coherent(q) == Rising(q) /\ Linked(q)
\* q has no video, or its last is number v.
EndsAt(q, v) ==
  /\ \E i \in 1..Len(q) : IsVideo(q[i]) /\ q[i].video = v
  /\ \A i \in 1..Len(q) : IsVideo(q[i]) => q[i].video <= v

\* What is kept of q: the tags at the positions of K, in order.
Picked(r, q, K) ==
  \E pos \in [1..Len(r) -> K \cap 1..Len(q)] :
    /\ \A i, j \in 1..Len(r) : i < j => pos[i] < pos[j]
    /\ \A m \in K \cap 1..Len(q) : \E k \in 1..Len(r) : pos[k] = m
    /\ \A k \in 1..Len(r) : Same(r[k], q[pos[k]])

LEMMA ThinPicks ==
  ASSUME NEW q \in Seq(Tag), NEW c \in Nat, NEW drop \in BOOLEAN
  PROVE  Picked(Thin(q, c, drop).kept, q, ThinKept(q, drop))
<1> DEFINE f == Thinned(q, c, drop)
           N == Len(q)
<1>1. PICK pos : Shape(f, q, ThinKept(q, drop), N, pos)
  BY ThinnedShape
<1> HIDE DEF f
<1>2. Thin(q, c, drop) = f[N]
  BY DEF Thin, f
<1>3. /\ pos \in [1..Len(f[N].kept) -> ThinKept(q, drop) \cap 1..N]
      /\ \A i, j \in 1..Len(f[N].kept) : i < j => pos[i] < pos[j]
      /\ \A m \in ThinKept(q, drop) \cap 1..N : \E k \in 1..Len(f[N].kept) : pos[k] = m
      /\ \A k \in 1..Len(f[N].kept) : Same(f[N].kept[k], q[pos[k]])
  BY <1>1 DEF Shape, Same
<1> QED
  BY <1>2, <1>3 DEF Picked

\* In the order of the dispatches; what is kept stays in order, and so does a
\* queue that sheds.
Batched(q) == \A i, j \in 1..Len(q) : i < j => q[i].batch <= q[j].batch

LEMMA PickedBatched ==
  ASSUME NEW q \in Seq(Tag), NEW r, NEW K, Picked(r, q, K), Batched(q)
  PROVE  Batched(r)
<1>1. PICK pos \in [1..Len(r) -> K \cap 1..Len(q)] :
        /\ \A i, j \in 1..Len(r) : i < j => pos[i] < pos[j]
        /\ \A k \in 1..Len(r) : Same(r[k], q[pos[k]])
  BY DEF Picked
<1>2. \A k \in 1..Len(r) : pos[k] \in 1..Len(q) /\ r[k].batch = q[pos[k]].batch
  BY <1>1 DEF Same
<1> QED
  BY <1>1, <1>2 DEF Batched

LEMMA ShedBatched ==
  ASSUME NEW q \in Seq(Tag), NEW c \in Nat, Batched(q)
  PROVE  Batched(Shed(q, c).queue)
<1> DEFINE f == Dropped(q)
           N == Len(q)
<1>1. PICK pos : Shape(f, q, ShedKept(q), N, pos)
  BY DroppedShape
<1> HIDE DEF f
<1>2. Shed(q, c).queue = f[N].kept
  BY DEF Shed, f
<1>3. /\ pos \in [1..Len(f[N].kept) -> ShedKept(q) \cap 1..N]
      /\ \A i, j \in 1..Len(f[N].kept) : i < j => pos[i] < pos[j]
      /\ \A m \in ShedKept(q) \cap 1..N : \E k \in 1..Len(f[N].kept) : pos[k] = m
      /\ \A k \in 1..Len(f[N].kept) : Same(f[N].kept[k], q[pos[k]])
  BY <1>1 DEF Shape, Same
<1>4. Picked(f[N].kept, q, ShedKept(q))
  BY <1>3 DEF Picked
<1> QED BY <1>2, <1>4, PickedBatched

\* What a dispatch leaves of the queue before it adds its own tags.
LEMMA RelievedBatched ==
  ASSUME Typed, Media, Queued, Batched(queue), NEW tags,
         Relieved(tags).queue \in Seq(Tag), FirstTry(tags).carried \in Nat
  PROVE  Batched(Relieved(tags).queue) /\ Batched(Emptied(tags).queue)
<1>0. queue \in Seq(Tag) /\ Carried0 \in Nat
  BY GoodTags, Relieves DEF Typed, EpochTyped
<1>1. PICK R : R = Relieved(tags).queue
  OBVIOUS
<1>2. Batched(R)
  <2>1. CASE Congested(tags)
    BY <1>0, <1>1, <2>1, ShedBatched DEF Relieved
  <2>2. CASE ~Congested(tags)
    BY <1>1, <2>2 DEF Relieved
  <2> QED BY <2>1, <2>2
<1>3. PICK c \in Nat : c = FirstTry(tags).carried
  OBVIOUS
<1>4. Emptied(tags).queue = Shed(R, c).queue
  BY <1>1, <1>3 DEF Emptied
<1> QED BY <1>1, <1>2, <1>3, <1>4, ShedBatched

\* Thinning keeps the video from the first keyframe on, or all of it.
LEMMA ThinVideo ==
  ASSUME NEW q \in Seq(Tag), NEW c \in Nat, NEW drop \in BOOLEAN, Coherent(q)
  PROVE  LET r == Thin(q, c, drop).kept IN
         /\ Coherent(r)
         /\ drop => \A k \in 1..Len(r) : r[k].kind = "delta" => ~Leads(r, k)
         /\ ~drop => \A k \in 1..Len(r) :
              r[k].kind = "delta" /\ Leads(r, k) =>
                \E i \in 1..Len(q) : Same(r[k], q[i]) /\ Leads(q, i)
         /\ \A v \in Nat :
              EndsAt(q, v) /\ ~(drop /\ NoKey(q, Len(q))) => EndsAt(r, v)
<1> DEFINE r == Thin(q, c, drop).kept
           N == Len(q)
           K == ThinKept(q, drop)
<1>1. PICK pos \in [1..Len(r) -> K \cap 1..N] :
        /\ \A i, j \in 1..Len(r) : i < j => pos[i] < pos[j]
        /\ \A m \in K \cap 1..N : \E k \in 1..Len(r) : pos[k] = m
        /\ \A k \in 1..Len(r) : Same(r[k], q[pos[k]])
  <2>1. Picked(r, q, K)
    BY ThinPicks
  <2> HIDE DEF r, K
  <2> QED BY <2>1 DEF Picked
<1>2. r \in Seq(Tag) /\ Len(r) \in Nat /\ N \in Nat
  <2>1. r \in Seq(Tag)
    BY ThinFacts
  <2> HIDE DEF r
  <2> QED BY <2>1
<1> HIDE DEF r
<1>3. \A k \in 1..Len(r) :
        /\ pos[k] \in 1..N /\ pos[k] \in K
        /\ r[k].kind = q[pos[k]].kind /\ r[k].video = q[pos[k]].video
        /\ IsVideo(r[k]) <=> IsVideo(q[pos[k]])
  <2> SUFFICES ASSUME NEW k \in 1..Len(r)
               PROVE  /\ pos[k] \in 1..N /\ pos[k] \in K
                      /\ r[k].kind = q[pos[k]].kind /\ r[k].video = q[pos[k]].video
                      /\ IsVideo(r[k]) <=> IsVideo(q[pos[k]])
    OBVIOUS
  <2> HIDE DEF K, N
  <2>1. pos[k] \in K \cap 1..N
    BY <1>1
  <2>2. Same(r[k], q[pos[k]])
    BY <1>1
  <2> QED BY <2>1, <2>2 DEF Same, IsVideo
<1>4. \A i \in 1..N : q[i].video \in Nat
  BY TagsOfSeq
<1>5. Rising(r)
  BY <1>1, <1>3 DEF Rising, Coherent
\* An earlier video of q at or after a keyframe is kept, and before its successor.
<1>6. ASSUME NEW k \in 1..Len(r), NEW i \in 1..N, i < pos[k], i \in K
      PROVE  \E j \in 1..(k - 1) : pos[j] = i
  <2>1. PICK j \in 1..Len(r) : pos[j] = i
    BY <1>1, <1>6
  <2>2. j # k /\ ~(k < j)
    BY <1>1, <1>3, <1>6, <2>1
  <2> QED BY <1>2, <2>1, <2>2
<1>7. ASSUME drop, NEW k \in 1..Len(r), r[k].kind = "delta"
      PROVE  \E m \in 1..N : m < pos[k] /\ q[m].kind = "key" /\ m \in K
  <2>1. pos[k] \in 1..N /\ pos[k] \in K /\ q[pos[k]].kind = "delta"
    BY <1>3, <1>7
  <2>2. ~NoKey(q, pos[k] - 1)
    BY <1>7, <2>1 DEF ThinKept
  <2>3. PICK m \in 1..(pos[k] - 1) : q[m].kind = "key"
    BY <2>2 DEF NoKey
  <2>4. m \in 1..N /\ m < pos[k] /\ m \in K
    BY <1>2, <2>1, <2>3 DEF ThinKept
  <2> QED BY <2>3, <2>4
<1>8. drop => \A k \in 1..Len(r) : r[k].kind = "delta" => ~Leads(r, k)
  <2> SUFFICES ASSUME drop, NEW k \in 1..Len(r), r[k].kind = "delta"
               PROVE  ~Leads(r, k)
    OBVIOUS
  <2>1. PICK m \in 1..N : m < pos[k] /\ q[m].kind = "key" /\ m \in K
    BY <1>7
  <2>2. PICK j \in 1..(k - 1) : pos[j] = m
    BY <1>6, <2>1
  <2>3. j \in 1..Len(r) /\ IsVideo(q[pos[j]])
    BY <1>2, <2>1, <2>2 DEF IsVideo
  <2>4. IsVideo(r[j])
    BY <1>3, <2>3
  <2> QED BY <2>2, <2>4 DEF Leads
<1>9. Linked(r)
  <2> SUFFICES ASSUME NEW k \in 1..Len(r), r[k].kind = "delta", ~Leads(r, k)
               PROVE  \E j \in 1..(k - 1) : IsVideo(r[j]) /\ r[j].video = r[k].video - 1
    BY DEF Linked
  <2>1. PICK h \in 1..(k - 1) : IsVideo(r[h])
    BY DEF Leads
  <2>2. h \in 1..Len(r) /\ h < k
    BY <1>2
  <2>3. pos[h] < pos[k] /\ IsVideo(q[pos[h]]) /\ pos[h] \in 1..N /\ pos[k] \in 1..N
    <3>1. IsVideo(q[pos[h]]) /\ pos[h] \in 1..N /\ pos[k] \in 1..N
      BY <1>3, <2>1, <2>2
    <3>2. pos[h] < pos[k]
      BY <1>1, <2>2
    <3> QED BY <3>1, <3>2
  <2>4. q[pos[k]].kind = "delta" /\ ~Leads(q, pos[k])
    <3>1. pos[h] \in 1..(pos[k] - 1)
      BY <2>3
    <3>2. q[pos[k]].kind = "delta"
      BY <1>3
    <3> QED BY <2>3, <3>1, <3>2 DEF Leads
  <2>5. PICK i \in 1..(pos[k] - 1) : IsVideo(q[i]) /\ q[i].video = q[pos[k]].video - 1
    BY <2>3, <2>4 DEF Coherent, Linked
  <2>6. i \in 1..N /\ i < pos[k]
    BY <2>3
  <2>7. i \in K
    <3>1. CASE ~drop
      BY <2>6, <3>1 DEF ThinKept
    <3>2. CASE drop
      <4>1. PICK m \in 1..N : m < pos[k] /\ q[m].kind = "key" /\ m \in K
        BY <1>7, <3>2
      <4>2. IsVideo(q[m]) /\ IsVideo(q[pos[k]])
        BY <2>4, <4>1 DEF IsVideo
      <4>3. q[m].video < q[pos[k]].video
        BY <2>3, <4>1, <4>2 DEF Coherent, Rising
      <4>4. ~(i < m)
        <5> SUFFICES ASSUME i < m PROVE FALSE
          OBVIOUS
        <5>1. q[i].video < q[m].video
          BY <2>5, <2>6, <4>2 DEF Coherent, Rising
        <5>2. /\ q[i].video \in Nat /\ q[m].video \in Nat /\ q[pos[k]].video \in Nat
              /\ q[i].video = q[pos[k]].video - 1
          BY <1>4, <2>3, <2>5, <2>6
        <5>3. \A a, b, n \in Nat : a < b /\ b < n /\ a = n - 1 => FALSE
          OBVIOUS
        <5> QED BY <4>3, <5>1, <5>2, <5>3
      <4>5. CASE i = m
        BY <4>1, <4>5
      <4>6. CASE m < i
        <5>1. m \in 1..(i - 1)
          BY <2>6, <4>6
        <5> QED BY <2>6, <4>1, <5>1 DEF ThinKept, NoKey
      <4> QED BY <2>6, <4>4, <4>5, <4>6
    <3> QED BY <3>1, <3>2
  <2>8. PICK j \in 1..(k - 1) : pos[j] = i
    BY <1>6, <2>6, <2>7
  <2>9. j \in 1..Len(r)
    BY <1>2
  <2> QED BY <1>3, <2>5, <2>8, <2>9
<1>10. ASSUME ~drop, NEW k \in 1..Len(r), r[k].kind = "delta", Leads(r, k)
       PROVE  \E i \in 1..N : Same(r[k], q[i]) /\ Leads(q, i)
  <2>1. pos[k] \in 1..N /\ Same(r[k], q[pos[k]])
    BY <1>1, <1>3
  <2>2. Leads(q, pos[k])
    <3> SUFFICES ASSUME NEW i \in 1..(pos[k] - 1), IsVideo(q[i]) PROVE FALSE
      BY DEF Leads
    <3>1. i \in 1..N /\ i < pos[k] /\ i \in K
      BY <1>10, <2>1 DEF ThinKept
    <3>2. PICK j \in 1..(k - 1) : pos[j] = i
      BY <1>6, <3>1
    <3>3. j \in 1..Len(r) /\ IsVideo(r[j])
      BY <1>2, <1>3, <3>2
    <3> QED BY <1>10, <3>2, <3>3 DEF Leads
  <2> QED BY <2>1, <2>2
<1>11. ASSUME NEW v \in Nat, EndsAt(q, v), ~(drop /\ NoKey(q, N))
       PROVE  EndsAt(r, v)
  <2>1. PICK i \in 1..N : IsVideo(q[i]) /\ q[i].video = v
    BY <1>11 DEF EndsAt
  <2>2. i \in K
    <3>1. CASE ~drop
      BY <3>1 DEF ThinKept
    <3>2. CASE drop
      <4>1. PICK m \in 1..N : q[m].kind = "key"
        BY <1>11, <3>2 DEF NoKey
      <4>2. IsVideo(q[m]) /\ q[m].video <= v
        BY <1>11, <4>1 DEF EndsAt, IsVideo
      <4>3. ~(i < m)
        <5> SUFFICES ASSUME i < m PROVE FALSE
          OBVIOUS
        <5>1. q[i].video < q[m].video
          BY <2>1, <4>2 DEF Coherent, Rising
        <5> QED BY <1>4, <2>1, <4>2, <5>1
      <4>4. CASE i = m
        BY <4>1, <4>4 DEF ThinKept
      <4>5. CASE m < i
        <5>1. m \in 1..(i - 1)
          BY <4>5
        <5> QED BY <4>1, <5>1 DEF ThinKept, NoKey
      <4> QED BY <4>3, <4>4, <4>5
    <3> QED BY <3>1, <3>2
  <2>3. PICK k \in 1..Len(r) : pos[k] = i
    BY <1>1, <2>2
  <2>4. IsVideo(r[k]) /\ r[k].video = v
    BY <1>3, <2>1, <2>3
  <2>5. \A j \in 1..Len(r) : IsVideo(r[j]) => r[j].video <= v
    BY <1>3, <1>11 DEF EndsAt
  <2> QED BY <2>4, <2>5 DEF EndsAt
<1> QED
  BY <1>5, <1>8, <1>9, <1>10, <1>11 DEF Coherent, r

\* Nothing is wrong with video that is not there.
LEMMA SilentCoherent ==
  ASSUME NEW q, NoVideo(q)
  PROVE  Coherent(q)
<1>1. \A i \in 1..Len(q) : q[i].kind # "delta"
  BY DEF NoVideo, IsVideo
<1> QED
  BY <1>1 DEF Coherent, Rising, Linked, NoVideo

\* A batch joins the queue: its first video follows the last one queued.
LEMMA VideoJoins ==
  ASSUME NEW q \in Seq(Tag), NEW r \in Seq(Tag), Coherent(q), Coherent(r),
         NEW v \in Nat,
         \A i \in 1..Len(q) : IsVideo(q[i]) => q[i].video <= v,
         \A k \in 1..Len(r) : IsVideo(r[k]) => r[k].video > v,
         \A k \in 1..Len(r) : r[k].kind = "delta" /\ Leads(r, k) =>
           /\ r[k].video = v + 1
           /\ NoVideo(q) \/ \E i \in 1..Len(q) : IsVideo(q[i]) /\ q[i].video = v
  PROVE  /\ Coherent(q \o r)
         /\ \A j \in 1..Len(q \o r) :
              (q \o r)[j].kind = "delta" /\ Leads(q \o r, j) =>
                \/ j \in 1..Len(q) /\ (q \o r)[j] = q[j] /\ Leads(q, j)
                \/ /\ NoVideo(q)
                   /\ \E k \in 1..Len(r) : (q \o r)[j] = r[k] /\ Leads(r, k)
<1>1. PICK s : s = q \o r
  OBVIOUS
<1>2. /\ s \in Seq(Tag) /\ Len(s) = Len(q) + Len(r)
      /\ \A i \in 1..Len(q) : i \in 1..Len(s) /\ s[i] = q[i]
      /\ \A k \in 1..Len(r) : Len(q) + k \in 1..Len(s) /\ s[Len(q) + k] = r[k]
      /\ \A j \in 1..Len(s) : j \in 1..Len(q) \/ j - Len(q) \in 1..Len(r)
      /\ Len(q) \in Nat /\ Len(r) \in Nat
  BY <1>1
<1>3. \A j \in 1..Len(s) : \/ j \in 1..Len(q) /\ s[j] = q[j]
                           \/ j - Len(q) \in 1..Len(r) /\ s[j] = r[j - Len(q)]
  <2> SUFFICES ASSUME NEW j \in 1..Len(s), j - Len(q) \in 1..Len(r)
               PROVE  s[j] = r[j - Len(q)]
    BY <1>2
  <2>1. s[Len(q) + (j - Len(q))] = r[j - Len(q)]
    BY <1>2
  <2> QED BY <1>2, <2>1
<1>4. /\ \A i \in 1..Len(q) : q[i].video \in Nat
      /\ \A i \in 1..Len(r) : r[i].video \in Nat
  BY TagsOfSeq
<1>5. Rising(s)
  <2> SUFFICES ASSUME NEW i \in 1..Len(s), NEW j \in 1..Len(s), i < j,
                      IsVideo(s[i]), IsVideo(s[j])
               PROVE  s[i].video < s[j].video
    BY DEF Rising
  <2>1. CASE j \in 1..Len(q) /\ s[j] = q[j]
    <3>1. i \in 1..Len(q) /\ s[i] = q[i]
      BY <1>2, <2>1
    <3> QED BY <2>1, <3>1 DEF Coherent, Rising
  <2>2. CASE j - Len(q) \in 1..Len(r) /\ s[j] = r[j - Len(q)]
    <3>1. s[j].video > v /\ s[j].video \in Nat
      BY <1>4, <2>2
    <3>2. CASE i \in 1..Len(q) /\ s[i] = q[i]
      BY <1>4, <3>1, <3>2
    <3>3. CASE i - Len(q) \in 1..Len(r) /\ s[i] = r[i - Len(q)]
      <4>1. i - Len(q) < j - Len(q)
        BY <1>2
      <4> QED BY <2>2, <3>3, <4>1 DEF Coherent, Rising
    <3> QED BY <1>3, <3>2, <3>3
  <2> QED BY <1>3, <2>1, <2>2
<1>6. ASSUME NEW j \in 1..Len(q)
      PROVE  Leads(s, j) <=> Leads(q, j)
  <2>1. \A i \in 1..(j - 1) : s[i] = q[i]
    BY <1>2
  <2> QED BY <2>1 DEF Leads
<1>7. ASSUME NEW k \in 1..Len(r)
      PROVE  Leads(s, Len(q) + k) <=> NoVideo(q) /\ Leads(r, k)
  <2>1. ASSUME Leads(s, Len(q) + k) PROVE NoVideo(q) /\ Leads(r, k)
    <3>1. \A i \in 1..Len(q) : i \in 1..(Len(q) + k - 1) /\ s[i] = q[i]
      BY <1>2
    <3>2. \A i \in 1..(k - 1) : Len(q) + i \in 1..(Len(q) + k - 1) /\ s[Len(q) + i] = r[i]
      BY <1>2
    <3> QED BY <2>1, <3>1, <3>2 DEF Leads, NoVideo
  <2>2. ASSUME NoVideo(q), Leads(r, k) PROVE Leads(s, Len(q) + k)
    <3> SUFFICES ASSUME NEW i \in 1..(Len(q) + k - 1) PROVE ~IsVideo(s[i])
      BY DEF Leads
    <3>1. i \in 1..Len(s)
      BY <1>2
    <3>2. CASE i \in 1..Len(q) /\ s[i] = q[i]
      BY <2>2, <3>2 DEF NoVideo
    <3>3. CASE i - Len(q) \in 1..Len(r) /\ s[i] = r[i - Len(q)]
      <4>1. i - Len(q) \in 1..(k - 1)
        BY <1>2, <3>3
      <4> QED BY <2>2, <3>3, <4>1 DEF Leads
    <3> QED BY <1>3, <3>1, <3>2, <3>3
  <2> QED BY <2>1, <2>2
<1>8. Linked(s)
  <2> SUFFICES ASSUME NEW j \in 1..Len(s), s[j].kind = "delta", ~Leads(s, j)
               PROVE  \E i \in 1..(j - 1) : IsVideo(s[i]) /\ s[i].video = s[j].video - 1
    BY DEF Linked
  <2>1. CASE j \in 1..Len(q) /\ s[j] = q[j]
    <3>1. PICK i \in 1..(j - 1) : IsVideo(q[i]) /\ q[i].video = q[j].video - 1
      BY <1>6, <2>1 DEF Coherent, Linked
    <3>2. s[i] = q[i]
      BY <1>2, <2>1
    <3> QED BY <2>1, <3>1, <3>2
  <2>2. CASE j - Len(q) \in 1..Len(r) /\ s[j] = r[j - Len(q)]
    <3>1. PICK k \in 1..Len(r) : k = j - Len(q) /\ j = Len(q) + k /\ s[j] = r[k]
      BY <1>2, <2>2
    <3>2. CASE ~Leads(r, k)
      <4>1. PICK i \in 1..(k - 1) : IsVideo(r[i]) /\ r[i].video = r[k].video - 1
        BY <3>1, <3>2 DEF Coherent, Linked
      <4>2. s[Len(q) + i] = r[i] /\ Len(q) + i \in 1..(j - 1)
        BY <1>2, <3>1
      <4> QED BY <3>1, <4>1, <4>2
    <3>3. CASE Leads(r, k)
      <4>1. ~NoVideo(q)
        BY <1>7, <3>1, <3>3
      <4>2. PICK i \in 1..Len(q) : IsVideo(q[i]) /\ q[i].video = v
        BY <3>1, <3>3, <4>1
      <4>3. r[k].video = v + 1
        BY <3>1, <3>3
      <4>4. s[i] = q[i] /\ i \in 1..(j - 1)
        BY <1>2, <3>1
      <4>5. s[i].video = s[j].video - 1
        BY <3>1, <4>2, <4>3, <4>4
      <4> QED BY <4>2, <4>4, <4>5
    <3> QED BY <3>2, <3>3
  <2> QED BY <1>3, <2>1, <2>2
<1>9. ASSUME NEW j \in 1..Len(s), s[j].kind = "delta", Leads(s, j)
      PROVE  \/ j \in 1..Len(q) /\ s[j] = q[j] /\ Leads(q, j)
             \/ NoVideo(q) /\ \E k \in 1..Len(r) : s[j] = r[k] /\ Leads(r, k)
  <2>1. CASE j \in 1..Len(q) /\ s[j] = q[j]
    BY <1>6, <1>9, <2>1
  <2>2. CASE j - Len(q) \in 1..Len(r) /\ s[j] = r[j - Len(q)]
    <3>1. PICK k \in 1..Len(r) : j = Len(q) + k /\ s[j] = r[k]
      BY <1>2, <2>2
    <3> QED BY <1>7, <1>9, <3>1
  <2> QED BY <1>3, <2>1, <2>2
<1> QED
  BY <1>1, <1>5, <1>8, <1>9 DEF Coherent

\* The number of a frame: one more than the frame before it.
LEMMA VideoNumbers ==
  ASSUME SenderConstants, feed \in Feed, NEW kinds \in Batches,
         NEW i \in 0..Len(kinds), NEW j \in 0..Len(kinds), i <= j
  PROVE  /\ VideosBefore(kinds, i) \in Nat /\ VideosBefore(kinds, 0) = feed.videos
         /\ VideosBefore(kinds, i) <= VideosBefore(kinds, j)
         /\ i < j /\ kinds[j] \in {"key", "delta"} =>
              VideosBefore(kinds, i) < VideosBefore(kinds, j)
         /\ (\A m \in (i + 1)..(j - 1) : kinds[m] \notin {"key", "delta"}) =>
              VideosBefore(kinds, j) =
                IF i < j /\ kinds[j] \in {"key", "delta"}
                THEN VideosBefore(kinds, i) + 1 ELSE VideosBefore(kinds, i)
<1> DEFINE S(n) == {m \in 1..n : kinds[m] \in {"key", "delta"}}
<1>1. /\ feed.videos \in Nat /\ kinds \in Seq(Kinds) /\ Len(kinds) \in Nat
      /\ i \in Nat /\ j \in Nat
  BY DEF Feed, SenderConstants
<1>2. \A n \in Nat : /\ IsFiniteSet(S(n)) /\ Cardinality(S(n)) \in Nat
                     /\ VideosBefore(kinds, n) = feed.videos + Cardinality(S(n))
  <2> SUFFICES ASSUME NEW n \in Nat
               PROVE  /\ IsFiniteSet(S(n)) /\ Cardinality(S(n)) \in Nat
                      /\ VideosBefore(kinds, n) = feed.videos + Cardinality(S(n))
    OBVIOUS
  <2>1. IsFiniteSet(1..n) /\ S(n) \in SUBSET (1..n)
    <3>1. 1 \in Int /\ n \in Int
      OBVIOUS
    <3> QED BY <3>1, FS_Interval
  <2>2. IsFiniteSet(S(n)) /\ Cardinality(S(n)) \in Nat
    BY <2>1, FS_Subset, FS_CardinalityType
  <2> QED BY <2>2 DEF VideosBefore
<1>3. S(0) = {} /\ Cardinality(S(0)) = 0
  <2>1. S(0) = {}
    OBVIOUS
  <2> QED BY <2>1, FS_EmptySet
<1>4. S(i) \subseteq S(j) /\ Cardinality(S(i)) <= Cardinality(S(j))
  <2>1. S(i) \in SUBSET S(j)
    BY <1>1
  <2> QED BY <1>1, <1>2, <2>1, FS_Subset
<1>5. ASSUME i < j, kinds[j] \in {"key", "delta"}
      PROVE  Cardinality(S(i)) + 1 <= Cardinality(S(j))
  <2>1. S(i) \cup {j} \in SUBSET S(j) /\ j \notin S(i)
    BY <1>1, <1>5
  <2>2. Cardinality(S(i) \cup {j}) = Cardinality(S(i)) + 1
    BY <1>1, <1>2, <2>1, FS_AddElement
  <2> QED BY <1>1, <1>2, <2>1, <2>2, FS_Subset
<1>6. ASSUME \A m \in (i + 1)..(j - 1) : kinds[m] \notin {"key", "delta"}
      PROVE  Cardinality(S(j)) = IF i < j /\ kinds[j] \in {"key", "delta"}
                                 THEN Cardinality(S(i)) + 1 ELSE Cardinality(S(i))
  <2>1. \A m \in 1..j : m \in 1..i \/ m \in (i + 1)..(j - 1) \/ m = j
    BY <1>1
  <2>2. CASE i < j /\ kinds[j] \in {"key", "delta"}
    <3>1. S(j) = S(i) \cup {j} /\ j \notin S(i)
      BY <1>1, <1>6, <2>1, <2>2
    <3> QED BY <1>1, <1>2, <2>2, <3>1, FS_AddElement
  <2>3. CASE ~(i < j /\ kinds[j] \in {"key", "delta"})
    <3>1. S(j) \subseteq S(i)
      BY <1>1, <1>6, <2>1, <2>3
    <3>2. S(j) = S(i)
      BY <1>4, <3>1
    <3> QED BY <2>3, <3>2
  <2> QED BY <2>2, <2>3
<1> HIDE DEF S
<1>7. PICK a \in Nat, b \in Nat : a = Cardinality(S(i)) /\ b = Cardinality(S(j))
  BY <1>1, <1>2
<1>8. /\ VideosBefore(kinds, i) = feed.videos + a
      /\ VideosBefore(kinds, j) = feed.videos + b
      /\ VideosBefore(kinds, 0) = feed.videos
  <2>1. 0 \in Nat /\ feed.videos + 0 = feed.videos
    BY <1>1
  <2>2. VideosBefore(kinds, 0) = feed.videos + Cardinality(S(0))
    BY <1>2, <2>1
  <2>3. VideosBefore(kinds, i) = feed.videos + Cardinality(S(i))
    BY <1>1, <1>2
  <2>4. VideosBefore(kinds, j) = feed.videos + Cardinality(S(j))
    BY <1>1, <1>2
  <2> QED BY <1>3, <1>7, <2>1, <2>2, <2>3, <2>4
<1>9. i < j /\ kinds[j] \in {"key", "delta"} => a + 1 <= b
  BY <1>5, <1>7
<1>10. (\A m \in (i + 1)..(j - 1) : kinds[m] \notin {"key", "delta"}) =>
          b = IF i < j /\ kinds[j] \in {"key", "delta"} THEN a + 1 ELSE a
  BY <1>6, <1>7
<1>11. a <= b
  BY <1>4, <1>7
<1>12. feed.videos + a \in Nat /\ feed.videos + a <= feed.videos + b
  BY <1>1, <1>11
<1>13. a + 1 <= b => feed.videos + a < feed.videos + b
  BY <1>1
<1>14. b = a + 1 => feed.videos + b = feed.videos + a + 1
  BY <1>1
<1> QED
  BY <1>8, <1>9, <1>10, <1>12, <1>13, <1>14

\* The frames of a dispatch continue those of the feed.
LEMMA TagsVideo ==
  ASSUME SenderConstants, Typed, NEW kinds \in Batches
  PROVE  LET tags == Tags(kinds)
             total == VideosBefore(kinds, Len(kinds)) IN
         /\ tags \in Seq(Tag) /\ Len(tags) = Len(kinds)
         /\ total \in Nat /\ feed.videos \in Nat /\ feed.videos <= total
         /\ Coherent(tags)
         /\ \A i \in 1..Len(tags) :
              /\ tags[i].video <= total /\ tags[i].headers = HeaderId
              /\ tags[i].kind = kinds[i]
              /\ IsVideo(tags[i]) => tags[i].video > feed.videos
              /\ IsVideo(tags[i]) /\ Leads(tags, i) =>
                   tags[i].video = feed.videos + 1
         /\ \/ NoVideo(tags) /\ total = feed.videos
            \/ EndsAt(tags, total)
<1> DEFINE N == Len(kinds)
           V(n) == VideosBefore(kinds, n)
<1>1. PICK tags : tags = Tags(kinds)
  OBVIOUS
<1>2. /\ tags \in Seq(Tag) /\ Len(tags) = N /\ N \in Nat \ {0}
      /\ \A i \in 1..N : /\ tags[i].kind = kinds[i]
                         /\ tags[i].headers = HeaderId
                         /\ tags[i].video = V(i)
  BY <1>1, TagsShape
<1>3. feed \in Feed /\ feed.videos \in Nat
  BY DEF Typed, HeaderTyped, Feed
<1>4. \A i \in 0..N : \A j \in 0..N : i <= j =>
         /\ V(i) \in Nat /\ V(0) = feed.videos /\ V(i) <= V(j)
         /\ i < j /\ kinds[j] \in {"key", "delta"} => V(i) < V(j)
         /\ (\A m \in (i + 1)..(j - 1) : kinds[m] \notin {"key", "delta"}) =>
              V(j) = IF i < j /\ kinds[j] \in {"key", "delta"}
                     THEN V(i) + 1 ELSE V(i)
  BY <1>3, VideoNumbers
<1> HIDE DEF V
<1>5. \A i \in 1..N : IsVideo(tags[i]) <=> kinds[i] \in {"key", "delta"}
  BY <1>2 DEF IsVideo
<1>6. V(N) \in Nat /\ feed.videos <= V(N)
  <2>1. 0 \in 0..N /\ N \in 0..N /\ 0 <= N
    BY <1>2
  <2> QED BY <1>4, <2>1
<1>7. ASSUME NEW i \in 1..N
      PROVE  /\ tags[i].video <= V(N)
             /\ IsVideo(tags[i]) => tags[i].video > feed.videos
             /\ IsVideo(tags[i]) /\ Leads(tags, i) => tags[i].video = feed.videos + 1
  <2>1. 0 \in 0..N /\ i \in 0..N /\ N \in 0..N /\ 0 < i /\ i <= N
    BY <1>2
  <2>2. V(i) <= V(N) /\ (IsVideo(tags[i]) => feed.videos < V(i)) /\ V(i) \in Nat
    BY <1>4, <1>5, <2>1
  <2>3. ASSUME IsVideo(tags[i]), Leads(tags, i) PROVE V(i) = feed.videos + 1
    <3>1. \A m \in (0 + 1)..(i - 1) : kinds[m] \notin {"key", "delta"}
      BY <1>2, <1>5, <2>3 DEF Leads
    <3> QED BY <1>4, <1>5, <2>1, <2>3, <3>1
  <2> QED BY <1>2, <1>3, <2>2, <2>3
<1>8. Rising(tags)
  <2> SUFFICES ASSUME NEW i \in 1..N, NEW j \in 1..N, i < j, IsVideo(tags[j])
               PROVE  tags[i].video < tags[j].video
    BY <1>2 DEF Rising
  <2>1. i \in 0..N /\ j \in 0..N /\ i <= j
    BY <1>2
  <2> QED BY <1>2, <1>4, <1>5, <2>1
<1>9. Linked(tags)
  <2> SUFFICES ASSUME NEW j \in 1..N, IsVideo(tags[j]), ~Leads(tags, j)
               PROVE  \E i \in 1..(j - 1) : IsVideo(tags[i]) /\ tags[i].video = tags[j].video - 1
    BY <1>2 DEF Linked, IsVideo
  <2> DEFINE E == {i \in 1..(j - 1) : IsVideo(tags[i])}
  <2>1. E # {} /\ E \subseteq 1..N
    BY <1>2 DEF Leads
  <2>2. PICK i \in E : \A m \in E : m <= i
    BY <1>2, <2>1, IntervalMaximum
  <2>3. \A m \in (i + 1)..(j - 1) : kinds[m] \notin {"key", "delta"}
    <3> SUFFICES ASSUME NEW m \in (i + 1)..(j - 1), IsVideo(tags[m]) PROVE FALSE
      BY <1>2, <1>5, <2>2
    <3>1. m \in E /\ ~(m <= i)
      BY <2>2
    <3> QED BY <2>2, <3>1
  <2>4. i \in 0..N /\ j \in 0..N /\ i < j /\ i <= j /\ i \in 1..N
    BY <1>2, <2>2
  <2>5. V(j) = V(i) + 1 /\ V(i) \in Nat
    BY <1>4, <1>5, <2>3, <2>4
  <2> QED BY <1>2, <2>2, <2>4, <2>5
<1>10. ASSUME ~NoVideo(tags) PROVE EndsAt(tags, V(N))
  <2> DEFINE E == {i \in 1..N : IsVideo(tags[i])}
  <2>1. E # {} /\ E \subseteq 1..N
    BY <1>2, <1>10 DEF NoVideo
  <2>2. PICK i \in E : \A m \in E : m <= i
    BY <1>2, <2>1, IntervalMaximum
  <2>3. \A m \in (i + 1)..(N - 1) : kinds[m] \notin {"key", "delta"}
    <3> SUFFICES ASSUME NEW m \in (i + 1)..(N - 1), IsVideo(tags[m]) PROVE FALSE
      BY <1>2, <1>5, <2>2
    <3>1. m \in E /\ ~(m <= i)
      BY <1>2, <2>2
    <3> QED BY <2>2, <3>1
  <2>4. i < N => kinds[N] \notin {"key", "delta"}
    <3> SUFFICES ASSUME i < N, IsVideo(tags[N]) PROVE FALSE
      BY <1>2, <1>5
    <3>1. N \in E /\ ~(N <= i)
      BY <1>2, <2>2
    <3> QED BY <2>2, <3>1
  <2>5. i \in 0..N /\ N \in 0..N /\ i <= N /\ i \in 1..N
    BY <1>2, <2>2
  <2>6. V(N) = V(i)
    BY <1>4, <2>3, <2>4, <2>5
  <2> QED BY <1>2, <1>7, <2>2, <2>5, <2>6 DEF EndsAt
<1>11. NoVideo(tags) => V(N) = feed.videos
  <2> SUFFICES ASSUME NoVideo(tags) PROVE V(N) = feed.videos
    OBVIOUS
  <2>1. \A m \in 1..N : kinds[m] \notin {"key", "delta"}
    BY <1>2, <1>5 DEF NoVideo
  <2>2. 0 \in 0..N /\ N \in 0..N /\ 0 <= N /\ N \in 1..N
    BY <1>2
  <2>3. \A m \in (0 + 1)..(N - 1) : kinds[m] \notin {"key", "delta"}
    BY <1>2, <2>1
  <2> QED BY <1>4, <2>1, <2>2, <2>3
<1> QED
  BY <1>1, <1>2, <1>3, <1>6, <1>7, <1>8, <1>9, <1>10, <1>11 DEF Coherent, V

\* What enqueue_epoch makes of the queue and of the batch, as video.
LEMMA BatchVideo ==
  ASSUME SenderConstants, Typed, Media, Queued, TicketOrder,
         NEW kinds \in Batches, MayDispatch(kinds), Coherent(queue)
  PROVE  LET tags == Tags(kinds)
             R == Relieved(tags)
             F == FirstTry(tags)
             E == Emptied(tags)
             S == SecondTry(tags)
             total == VideosBefore(kinds, Len(kinds)) IN
         /\ Coherent(R.queue) /\ Coherent(F.kept) /\ Coherent(S.kept)
         /\ R.queue = queue \/ NoVideo(R.queue)
         /\ \A k \in 1..Len(F.kept) : F.kept[k].kind = "delta" /\ Leads(F.kept, k) =>
              /\ F.kept[k].video = feed.videos + 1 /\ feed.videos > 0
              /\ R.queue = queue /\ ~Drop0
         /\ \A k \in 1..Len(S.kept) : S.kept[k].kind = "delta" => ~Leads(S.kept, k)
         /\ ~F.drop => \/ EndsAt(F.kept, total)
                       \/ /\ NoVideo(F.kept) /\ total = feed.videos
                          /\ R.queue = queue /\ ~Drop0
         /\ ~S.drop => EndsAt(S.kept, total)
<1>1. PICK tags : tags = Tags(kinds)
  OBVIOUS
<1>2. PICK total : total = VideosBefore(kinds, Len(kinds))
  OBVIOUS
<1>3. /\ tags \in Seq(Tag) /\ Len(tags) = Len(kinds)
      /\ total \in Nat /\ feed.videos \in Nat /\ feed.videos <= total
      /\ Coherent(tags)
      /\ \A i \in 1..Len(tags) :
           /\ tags[i].kind = kinds[i]
           /\ IsVideo(tags[i]) /\ Leads(tags, i) => tags[i].video = feed.videos + 1
      /\ \/ NoVideo(tags) /\ total = feed.videos
         \/ EndsAt(tags, total)
  BY <1>1, <1>2, TagsVideo
<1>4. PICK R : R = Relieved(tags)
  OBVIOUS
<1>5. PICK F : F = FirstTry(tags)
  OBVIOUS
<1>6. PICK E : E = Emptied(tags)
  OBVIOUS
<1>7. PICK S : S = SecondTry(tags)
  OBVIOUS
<1>8. TryFacts(feed.batch, tags)
  BY <1>1, EnqueueOrder
<1>9. /\ F.kept \in Seq(Tag) /\ FromSome(F.kept, tags)
      /\ (F.drop => NoVideo(F.kept)) /\ F.carried \in Nat
  BY <1>5, <1>8 DEF TryFacts
<1>10. PICK drop \in BOOLEAN : drop <=> Drop0 \/ Congested(tags)
  OBVIOUS
<1>11. /\ ~drop => R.queue = queue
       /\ R.queue = queue \/ NoVideo(R.queue)
       /\ R.carried \in Nat
  <2>1. queue \in Seq(Tag) /\ Carried0 \in Nat
    <3>1. EpochTyped /\ TicketTyped
      BY DEF Typed
    <3> QED BY <3>1, GoodTags DEF TicketTyped, Carried0
  <2>2. CASE Congested(tags)
    BY <1>4, <1>10, <2>1, <2>2, ShedFacts DEF Relieved
  <2>3. CASE ~Congested(tags)
    BY <1>4, <2>1, <2>3 DEF Relieved
  <2> QED BY <2>2, <2>3
<1>12. Coherent(R.queue)
  BY <1>11, SilentCoherent
<1>13. F = Thin(tags, R.carried, drop)
  <2>1. drop = (Drop0 \/ Congested(tags))
    BY <1>10
  <2> QED BY <1>4, <1>5, <2>1 DEF FirstTry
<1>14. /\ Coherent(F.kept)
       /\ drop => \A k \in 1..Len(F.kept) : F.kept[k].kind = "delta" => ~Leads(F.kept, k)
       /\ ~drop => \A k \in 1..Len(F.kept) :
            F.kept[k].kind = "delta" /\ Leads(F.kept, k) =>
              \E i \in 1..Len(tags) : Same(F.kept[k], tags[i]) /\ Leads(tags, i)
       /\ EndsAt(tags, total) /\ ~(drop /\ NoKey(tags, Len(tags))) =>
            EndsAt(F.kept, total)
  BY <1>3, <1>11, <1>13, ThinVideo
<1>15. F.drop <=> drop /\ NoKey(tags, Len(tags))
  BY <1>3, <1>11, <1>13, ThinFacts
<1>16. ASSUME NEW k \in 1..Len(F.kept), F.kept[k].kind = "delta", Leads(F.kept, k)
       PROVE  /\ F.kept[k].video = feed.videos + 1 /\ feed.videos > 0
              /\ R.queue = queue /\ ~Drop0
  <2>1. ~drop
    BY <1>14, <1>16
  <2>2. PICK i \in 1..Len(tags) : Same(F.kept[k], tags[i]) /\ Leads(tags, i)
    BY <1>14, <1>16, <2>1
  <2>3. tags[i].kind = "delta" /\ tags[i].video = F.kept[k].video
    BY <1>16, <2>2 DEF Same
  <2>4. F.kept[k].video = feed.videos + 1
    BY <1>3, <2>2, <2>3 DEF IsVideo
  <2>5. kinds[i] = "delta" /\ i \in DOMAIN kinds
    <3>1. kinds \in Seq(Kinds)
      BY DEF SenderConstants
    <3> QED BY <1>3, <2>3, <3>1
  <2>6. feed.videos > 0
    <3> SUFFICES ASSUME ~(feed.videos > 0) PROVE FALSE
      OBVIOUS
    <3>1. PICK j \in 1..(i - 1) : kinds[j] = "key"
      BY <2>5 DEF MayDispatch
    <3>2. j \in 1..Len(tags)
      BY <1>3
    <3>3. tags[j].kind = "key"
      BY <1>3, <3>1, <3>2
    <3> QED BY <2>2, <3>3 DEF Leads, IsVideo
  <2> QED BY <1>10, <1>11, <2>1, <2>4, <2>6
<1>17. S = Thin(F.kept, E.carried, TRUE) /\ E.carried \in Nat
  <2>1. R.queue \in Seq(Tag)
    BY <1>4, <1>8 DEF TryFacts
  <2>2. E = Shed(R.queue, F.carried)
    BY <1>4, <1>5, <1>6 DEF Emptied
  <2>3. E.carried \in Nat
    BY <1>9, <2>1, <2>2, ShedFacts
  <2> QED BY <1>5, <1>6, <1>7, <2>3 DEF SecondTry
<1>18. /\ Coherent(S.kept)
       /\ \A k \in 1..Len(S.kept) : S.kept[k].kind = "delta" => ~Leads(S.kept, k)
       /\ EndsAt(F.kept, total) /\ ~NoKey(F.kept, Len(F.kept)) => EndsAt(S.kept, total)
  <2>1. PICK d \in BOOLEAN : d = TRUE
    OBVIOUS
  <2>2. S = Thin(F.kept, E.carried, d)
    BY <1>17, <2>1
  <2>3. /\ Coherent(S.kept)
        /\ d => \A k \in 1..Len(S.kept) : S.kept[k].kind = "delta" => ~Leads(S.kept, k)
        /\ EndsAt(F.kept, total) /\ ~(d /\ NoKey(F.kept, Len(F.kept))) => EndsAt(S.kept, total)
    BY <1>3, <1>9, <1>14, <1>17, <2>2, ThinVideo
  <2> QED BY <2>1, <2>3
<1>19. S.drop <=> NoKey(F.kept, Len(F.kept))
  <2>1. PICK d \in BOOLEAN : d = TRUE
    OBVIOUS
  <2>2. PICK q \in Seq(Tag), c \in Nat : q = F.kept /\ c = E.carried
    BY <1>9, <1>17
  <2>3. S = Thin(q, c, d)
    BY <1>17, <2>1, <2>2
  <2>4. S.drop <=> d /\ NoKey(q, Len(q))
    BY <2>3, ThinFacts
  <2> QED BY <2>1, <2>2, <2>4
<1>20. ASSUME ~F.drop
       PROVE  \/ EndsAt(F.kept, total)
              \/ /\ NoVideo(F.kept) /\ total = feed.videos
                 /\ R.queue = queue /\ ~Drop0
  <2>1. CASE EndsAt(tags, total)
    BY <1>14, <1>15, <1>20, <2>1
  <2>2. CASE NoVideo(tags) /\ total = feed.videos
    <3>1. NoKey(tags, Len(tags))
      BY <2>2 DEF NoKey, NoVideo, IsVideo
    <3>2. ~drop
      BY <1>15, <1>20, <3>1
    <3>3. NoVideo(F.kept)
      BY <1>9, <2>2 DEF NoVideo, FromSome, Same, IsVideo
    <3> QED BY <1>10, <1>11, <2>2, <3>2, <3>3
  <2> QED BY <1>3, <2>1, <2>2
<1>21. ASSUME ~S.drop PROVE EndsAt(S.kept, total)
  <2>1. ~NoKey(F.kept, Len(F.kept))
    BY <1>19, <1>21
  <2>2. ~NoVideo(F.kept)
    BY <2>1 DEF NoKey, NoVideo, IsVideo
  <2>3. ~F.drop
    BY <1>9, <2>2
  <2> QED BY <1>18, <1>20, <2>1, <2>2, <2>3
<1> QED
  BY <1>1, <1>2, <1>4, <1>5, <1>7, <1>11, <1>12, <1>14, <1>16, <1>18, <1>20, <1>21

-----------------------------------------------------------------------------
(* What goes on air.                                                        *)

\* The sender serves: it has not been stopped, and answers for its queue.
Serving == ~stop_requested /\ ~Doomed
OnTheLine == OnLine /\ w.pc \in Looping \cup Talking
Current == Hand /\ w.tag.epoch = epoch
\* The last frame on the wire is number v, unless the worker waits for a key.
Rejoins == w.awaiting \/ w.media # epoch
Wired(v) == ~OnTheLine \/ Rejoins \/ wire.video = v
\* The last frame ahead of the queue: the one in hand, or the one on the wire.
Ahead(v) == IF Current /\ IsVideo(w.tag) THEN w.tag.video = v ELSE Wired(v)

\* The connection has been replaced and has published nothing since.
Excused == published_epoch = 0 /\ (w.reconnected \/ w.redial)
\* The sound in hand is on the wire: lines 383-387 may publish its epoch.
Airing == w.pc = "publish" /\ w.tag.epoch = epoch

\* A sender that serves is in one of three states, and a connection is only
\* replaced by an attempt that was counted.
Redialling == {"delay", "dial", "connecting", "send", "sending", "wrote", "redialled"}
Counted ==
  /\ state \in {"Starting", "Running", "Reconnecting"} \/ stop_requested \/ Over
  /\ w.redial /\ w.pc \in Redialling => w.reconnected

\* Where the feed is: a boundary is the first of its epoch but for a guard, and
\* the batch after a guard finds nothing but guards before it.
Source ==
  /\ feed.epoch # epoch => feed.phase = "boundary"
  /\ feed.phase = "boundary" => queue = <<>> /\ ~Current /\ feed.videos = 0
  /\ feed.phase = "guarded" =>
       /\ feed.guard = feed.batch
       /\ \A i \in 1..Len(queue) : queue[i].kind = "guard"
       /\ Current => w.tag.kind = "guard"
  /\ feed.phase \in {"boundary", "guarded"} => ~Airing
  /\ \A i \in 1..Len(queue) :
       queue[i].epoch = epoch /\ queue[i].video <= feed.videos
\* The queue is in the order of the dispatches, and the hand comes before it.
Lined == /\ Batched(queue)
         /\ Current => \A i \in 1..Len(queue) : w.tag.batch <= queue[i].batch

\* What is pending was produced with the headers in force, but for a guard that
\* the boundary has overtaken: only guards are before it.
Overtaken(t) ==
  /\ t.kind = "guard" /\ Excused /\ ~Airing
  /\ \A i \in 1..Len(queue) : queue[i].batch <= t.batch => queue[i].kind = "guard"
  /\ Current => w.tag.kind = "guard"
Labelled ==
  Serving =>
    /\ feed.phase # "boundary" => sequence_headers # None
    /\ \A i \in 1..Len(queue) :
         queue[i].headers = sequence_headers \/ Overtaken(queue[i])
    /\ Current => \/ w.tag.headers = sequence_headers
                  \/ w.tag.kind = "guard" /\ Excused
\* The headers on the wire are those of the revision it was primed with.
Revisions == primed_revision <= header_revision /\ w.rev <= header_revision
Primer ==
  Serving =>
    /\ w.pc \in Talking /\ w.job = "header" /\ w.rev = header_revision =>
         w.sel = sequence_headers /\ w.selEpoch = epoch
    /\ w.pc = "wrote" /\ w.job = "header" /\ w.rev = header_revision
         /\ sequence_headers # None => wire.headers = sequence_headers
    /\ (OnTheLine \/ w.pc \in {"redialled", "booted"})
         /\ primed_revision = header_revision /\ sequence_headers # None =>
           wire.headers = sequence_headers
    /\ OnLine /\ w.pc \in {"send", "sending"} /\ w.job = "header" =>
         primed_revision < header_revision
    /\ Current /\ w.pc \in Talking =>
         \/ /\ w.rev = header_revision
            /\ w.job = "tag" => primed_revision = header_revision
         \/ w.tag.kind = "guard" /\ Excused
\* No frame is missing from the feed to the hand.
Frames ==
  Serving =>
    /\ Coherent(queue)
    /\ \A j \in 1..Len(queue) :
         queue[j].kind = "delta" /\ Leads(queue, j) => Ahead(queue[j].video - 1)
    /\ ~drop_video_until_keyframe /\ feed.videos > 0 /\ feed.phase # "failed" =>
         \/ EndsAt(queue, feed.videos)
         \/ NoVideo(queue) /\ Ahead(feed.videos)
\* Nor from the hand to the wire.
InTurn ==
  Serving /\ Current /\ IsVideo(w.tag) =>
    IF w.pc = "wrote" /\ w.job = "tag" THEN Wired(w.tag.video)
    ELSE w.tag.kind = "delta" => Wired(w.tag.video - 1)
MayJoin ==
  w.pc \in {"send", "sending"} /\ OnLine /\ w.job = "tag" =>
    w.tag.kind \in {"key", "guard"} \/ ~w.awaiting

LineInv == /\ Counted /\ Source /\ Lined /\ Labelled /\ Revisions /\ Primer
           /\ Frames /\ InTurn /\ MayJoin /\ OnAirDecodes

-----------------------------------------------------------------------------
(* The steps of the line.                                                   *)

\* The worker goes on, and is nowhere on the line.
Off ==
  /\ w'.pc \notin Talking \cup Looping \cup {"redialled", "booted"}
  /\ UNCHANGED <<stop_requested, epoch, feed, sequence_headers,
                 header_revision, primed_revision, wire>>
  /\ w'.rev = w.rev
  /\ \/ queue' = queue /\ drop_video_until_keyframe' = drop_video_until_keyframe
     \/ queue' = <<>>
\* Nothing the line depends on changes.
Idle == UNCHANGED <<stop_requested, epoch, feed, sequence_headers,
                    header_revision, primed_revision, wire, w, queue,
                    drop_video_until_keyframe>>
\* The owner stops the sender.
Stops ==
  /\ stop_requested' /\ queue' \in {queue, <<>>}
  /\ UNCHANGED <<epoch, feed, header_revision, primed_revision, wire, w>>
Starts == Booted /\ w.pc = "booted" /\ ~startup_timed_out

LEMMA LeavesTransport ==
  ASSUME WorkerTyped, Place,
         Dial \/ ConnectFails \/ SendFails \/ Close \/ Closed
  PROVE  Off
<1>0. w \in Locals
  BY DEF WorkerTyped
<1>1. CASE Dial
  BY <1>0, <1>1 DEF Dial, Local, Go, BeginIO, Off, Locals, Talking, Looping,
     sharedVars, lifeVars, epochVars, headerVars, queueVars, shedVars
<1>2. CASE ConnectFails
  BY <1>0, <1>2 DEF ConnectFails, Acked, LoseTransport, Go, Off, Locals, Talking, Looping,
     lifeVars, epochVars, headerVars, queueVars, shedVars
<1>3. CASE SendFails
  BY <1>0, <1>3 DEF SendFails, Acked, LoseTransport, Off, Locals, Talking, Looping,
     lifeVars, epochVars, headerVars, queueVars, shedVars
<1>4. CASE Close
  BY <1>0, <1>4 DEF Close, Go, BeginIO, Off, Locals, Talking, Looping,
     lifeVars, epochVars, headerVars, queueVars, shedVars
<1>5. CASE Closed
  <2>1. w.after \notin Talking \cup Looping \cup {"redialled", "booted"}
    BY <1>0, <1>5 DEF Closed, Place, Shutting, Locals, Talking, Looping
  <2> QED BY <1>0, <1>5, <2>1 DEF Closed, Acked, LoseTransport, Go, Off, Locals,
     lifeVars, epochVars, headerVars, queueVars, shedVars
<1> QED BY <1>1, <1>2, <1>3, <1>4, <1>5

LEMMA LeavesReconnect ==
  ASSUME WorkerTyped,
         \/ Reconnect \/ TakeCancellation \/ ReplaceTransport \/ ReplaceFails
         \/ Retry \/ Delayed \/ RetryEnds \/ Exhausted \/ AttemptFailed
  PROVE  Off
<1>0. w \in Locals
  BY DEF WorkerTyped
<1>1. CASE Reconnect
  BY <1>0, <1>1 DEF Reconnect, ReconnectQueue, Off, Locals, Talking, Looping,
     headerVars, shedVars
<1>2. CASE TakeCancellation
  BY <1>0, <1>2 DEF TakeCancellation, Off, Locals, Talking, Looping, lifeVars,
     headerVars, queueVars, shedVars
<1>3. CASE ReplaceTransport
  BY <1>0, <1>3 DEF ReplaceTransport, Off, Locals, Talking, Looping, lifeVars,
     epochVars, headerVars, queueVars, shedVars
<1>4. CASE ReplaceFails
  BY <1>0, <1>4 DEF ReplaceFails, EndResume, AckDropped, KeepPending, Go, Off, Locals,
     Talking, Looping, lifeVars, headerVars, shedVars
<1>5. CASE Retry
  BY <1>0, <1>5 DEF Retry, Off, Locals, Talking, Looping, epochVars, headerVars,
     queueVars, shedVars
<1>6. CASE Delayed
  BY <1>0, <1>6 DEF Delayed, Local, Go, Off, Locals, Talking, Looping, sharedVars,
     lifeVars, epochVars, headerVars, queueVars, shedVars
<1>7. CASE RetryEnds
  BY <1>0, <1>7 DEF RetryEnds, Local, Go, Off, Locals, Talking, Looping, sharedVars,
     lifeVars, epochVars, headerVars, queueVars, shedVars
<1>8. CASE Exhausted
  BY <1>0, <1>8 DEF Exhausted, EndResume, KeepPending, Go, Off, Locals,
     Talking, Looping, lifeVars, headerVars, shedVars
<1>9. CASE AttemptFailed
  <2>1. CASE ~w.redial /\ Local("reconnect")
    BY <1>0, <2>1 DEF Local, Go, Off, Locals, Talking, Looping, sharedVars,
       lifeVars, epochVars, headerVars, queueVars, shedVars
  <2>2. CASE w.redial /\ transition_cancelled_transport
    BY <1>0, <1>9, <2>2 DEF AttemptFailed, Go, Off, Locals, Talking, Looping,
       lifeVars, epochVars, headerVars, queueVars, shedVars
  <2>3. CASE w.redial /\ ~transition_cancelled_transport
    BY <1>0, <1>9, <2>3 DEF AttemptFailed, EndResume, AckDropped, KeepPending, Go, Off,
       Locals, Talking, Looping, lifeVars, epochVars, headerVars, queueVars, shedVars
  <2> QED BY <1>9, <2>1, <2>2, <2>3 DEF AttemptFailed
<1> QED BY <1>1, <1>2, <1>3, <1>4, <1>5, <1>6, <1>7, <1>8, <1>9

LEMMA LeavesLoop ==
  ASSUME WorkerTyped, GiveUp \/ Fail \/ CloseQueue \/ Leave
  PROVE  Off
<1>0. w \in Locals
  BY DEF WorkerTyped
<1>1. CASE GiveUp
  BY <1>0, <1>1 DEF GiveUp, Off, Locals, Talking, Looping, sharedVars,
     lifeVars, epochVars, headerVars, queueVars, shedVars
<1>2. CASE Fail
  BY <1>0, <1>2 DEF Fail, Go, Off, Locals, Talking, Looping, epochVars, headerVars,
     queueVars, shedVars
<1>3. CASE CloseQueue
  BY <1>0, <1>3 DEF CloseQueue, Go, Off, Locals, Talking, Looping, lifeVars, epochVars,
     headerVars, shedVars
<1>4. CASE Leave
  BY <1>0, <1>4 DEF Leave, Off, Locals, Talking, Looping, sharedVars,
     lifeVars, epochVars, headerVars, queueVars, shedVars
<1> QED BY <1>1, <1>2, <1>3, <1>4

LEMMA BootsOff ==
  ASSUME WorkerTyped, Booted
  PROVE  Off \/ Starts
<1>1. /\ UNCHANGED <<stop_requested, epoch, feed, sequence_headers, header_revision,
                     primed_revision, wire, queue, drop_video_until_keyframe>>
      /\ w.pc \in {"booted", "gaveUp"}
  BY DEF Booted, epochVars, shedVars, headerVars, queueVars
<1> QED
  BY <1>1, Boots DEF Off, Starts, Talking, Looping

\* Every step, as the line sees it.
LEMMA LineSteps ==
  ASSUME WorkerTyped, Place, [Next]_vars
  PROVE  \/ Idle \/ Stops \/ Off \/ InvalidateEpoch
         \/ \E kinds \in Batches :
              \/ EnqueueDropped(kinds) \/ EnqueueRefused(kinds)
              \/ EnqueuePushed(kinds) \/ EnqueueFull(kinds)
         \/ Connected \/ Send \/ Sent \/ ReadHeaders \/ ConnectPrimed
         \/ Redialled \/ Starts
         \/ Pop \/ Select \/ LoopPrimed \/ TagWritten \/ Publish
<1>1. CASE Pipeline
  BY <1>1 DEF Pipeline
<1>2. CASE Watchdog
  BY <1>2 DEF Watchdog, WatchdogExpires, WatchdogInterrupts, Idle, epochVars,
     shedVars, headerVars, queueVars
<1>3. CASE RequestStop
  BY <1>3 DEF RequestStop, StopQueue, Stops, epochVars, headerVars
<1>4. CASE Join
  BY <1>4 DEF Join, Stops, epochVars, queueVars
<1>5. CASE Worker
  BY <1>5, LeavesTransport, LeavesReconnect, LeavesLoop, BootsOff DEF Worker
<1>6. CASE Stopped \/ UNCHANGED vars
  BY <1>6 DEF Stopped, Idle, vars, lifeVars, epochVars, shedVars, headerVars, queueVars
<1> QED
  BY <1>1, <1>2, <1>3, <1>4, <1>5, <1>6 DEF Next, Owner

\* A sender that no longer answers for its queue never does again.
LEMMA ServingStays ==
  ASSUME Typed, Place, Life, KeepsNothing, [Next]_vars, Serving'
  PROVE  Serving
<1>0. w \in Locals
  BY DEF Typed, WorkerTyped
<1>1. SUFFICES ASSUME Doomed, ~stop_requested PROVE FALSE
  <2>1. ~stop_requested
    <3>1. CASE stop_requested' = stop_requested
      BY <3>1 DEF Serving
    <3>2. CASE RequestStop
      BY <3>2 DEF RequestStop, Serving
    <3>3. stop_requested' = stop_requested \/ RequestStop
      BY DEF Next, Pipeline, Owner, Watchdog, Worker, Stopped, vars, lifeVars,
         sharedVars, Go, Local, BeginIO, Acked, EndResume,
         EnqueueDropped, EnqueueRefused, EnqueuePushed, EnqueueFull, Accept, Admit,
         InvalidateEpoch, Join, WatchdogExpires, WatchdogInterrupts,
         Dial, Connected, ConnectFails, Send, Sent, SendFails, ReadHeaders,
         ConnectPrimed, Close, Closed, Reconnect, TakeCancellation,
         ReplaceTransport, ReplaceFails, Retry, Delayed, RetryEnds, Exhausted,
         AttemptFailed, Redialled, Booted, GiveUp, Fail, CloseQueue,
         Pop, Leave, Select, LoopPrimed, TagWritten, Publish
    <3> QED BY <3>1, <3>2, <3>3
  <2> QED BY <2>1 DEF Serving
<1>2. /\ ~stop_requested' /\ ~Doomed' /\ state # "Running"
      /\ w.pc = "gaveUp" \/ Over
  BY <1>1 DEF Serving, Doomed
<1>3. \/ w.pc \in {"gaveUp", "fail", "closeQueue", "done"}
      \/ w.pc \in {"close", "closing"} /\ w.after \in {"fail", "done"}
  BY <1>2 DEF Over, Shutting
<1>4. CASE w' = w
  <2>1. state' # "Running"
    BY <1>2, <1>3, <1>4
       DEF Next, Pipeline, Owner, Watchdog, Worker, Stopped, vars, lifeVars,
         sharedVars, Go, Local, BeginIO, Acked, EndResume,
         EnqueueDropped, EnqueueRefused, EnqueuePushed, EnqueueFull, Accept, Admit,
         InvalidateEpoch, RequestStop, Join, WatchdogExpires, WatchdogInterrupts,
         Dial, Connected, ConnectFails, Send, Sent, SendFails, ReadHeaders,
         ConnectPrimed, Close, Closed, Reconnect, TakeCancellation,
         ReplaceTransport, ReplaceFails, Retry, Delayed, RetryEnds, Exhausted,
         AttemptFailed, Redialled, Booted, GiveUp, Fail, CloseQueue,
         Pop, Leave, Select, LoopPrimed, TagWritten, Publish
  <2> QED BY <1>2, <1>4, <2>1 DEF Doomed, Over
<1>5. CASE Worker
  <2>1. Booted \/ GiveUp \/ Fail \/ CloseQueue \/ Close \/ Closed
    BY <1>3, <1>5 DEF Worker,
         Dial, Connected, ConnectFails, Send, Sent, SendFails, ReadHeaders,
         ConnectPrimed, Reconnect, TakeCancellation,
         ReplaceTransport, ReplaceFails, Retry, Delayed, RetryEnds, Exhausted,
         AttemptFailed, Redialled, Pop, Leave, Select, LoopPrimed, TagWritten, Publish
  <2>2. CASE Booted
    <3>1. w.pc = "gaveUp"
      BY <1>3, <2>2 DEF Booted
    <3> QED BY <1>0, <1>2, <2>2, <3>1, Boots DEF Typed, Doomed, Over, Shutting
  <2>3. CASE GiveUp
    <3>1. state' = state /\ w'.pc = "close" /\ w'.after = "fail"
      BY <1>0, <2>3 DEF GiveUp, sharedVars, lifeVars, Locals
    <3> QED BY <1>2, <3>1 DEF Doomed, Over, Shutting
  <2>4. CASE Fail
    <3>1. state' # "Running" /\ w'.pc = "closeQueue"
      BY <1>0, <2>4 DEF Fail, Go, Locals
    <3> QED BY <1>2, <3>1 DEF Doomed, Over, Shutting
  <2>5. CASE CloseQueue
    <3>1. state' = state /\ w'.pc = "done"
      BY <1>0, <2>5 DEF CloseQueue, Go, lifeVars, Locals
    <3> QED BY <1>2, <3>1 DEF Doomed, Over, Shutting
  <2>6. CASE Close
    <3>1. state' = state /\ w'.pc = "closing" /\ w'.after = w.after
      BY <1>0, <2>6 DEF Close, Go, BeginIO, lifeVars, Locals
    <3> QED BY <1>2, <1>3, <2>6, <3>1 DEF Doomed, Over, Shutting, Close
  <2>7. CASE Closed
    <3>1. state' = state /\ w'.pc = w.after
      BY <1>0, <2>7 DEF Closed, Go, Acked, lifeVars, Locals
    <3> QED BY <1>2, <1>3, <2>7, <3>1 DEF Doomed, Over, Shutting, Closed
  <2> QED BY <2>1, <2>2, <2>3, <2>4, <2>5, <2>6, <2>7
<1>6. w' = w \/ Worker
  BY DEF Next, Pipeline, Owner, Watchdog, Stopped, vars,
     EnqueueDropped, EnqueueRefused, EnqueuePushed, EnqueueFull, Accept, Admit,
     InvalidateEpoch, RequestStop, Join, WatchdogExpires, WatchdogInterrupts
<1> QED
  BY <1>4, <1>5, <1>6

-----------------------------------------------------------------------------
(* What the worker's steps on the line do, by variable.                     *)

\* The pipeline's side of the line stands still.
Still == UNCHANGED <<stop_requested, epoch, feed, sequence_headers,
                     header_revision, drop_video_until_keyframe>>
SameJob == /\ w'.job = w.job /\ w'.sel = w.sel /\ w'.selEpoch = w.selEpoch
           /\ w'.rev = w.rev
SameMedia == w'.media = w.media /\ w'.awaiting = w.awaiting
SameSide == w'.boot = w.boot /\ w'.redial = w.redial

\* The steps inside connect_and_prime, where no media is written.
Priming ==
  /\ Still /\ UNCHANGED queue /\ SameMedia /\ SameSide
  /\ \/ /\ w.pc = "connecting" /\ w'.pc = "send" /\ w'.job = "file"
        /\ primed_revision' = primed_revision /\ w'.rev = w.rev
     \/ /\ w.pc = "wrote" /\ w.job = "file" /\ wire' = wire
        /\ w'.pc = IF sequence_headers = None THEN "wrote" ELSE "send"
        /\ w'.job = "header" /\ w'.sel = sequence_headers
        /\ w'.selEpoch = epoch /\ w'.rev = header_revision
        /\ primed_revision' = primed_revision
     \/ /\ w.pc = "wrote" /\ w.job = "header" /\ ~OnLine
        /\ w'.pc \in {"redialled", "booted"} /\ wire' = wire
        /\ primed_revision' = w.rev /\ w'.rev = w.rev
\* The connection is up, and the stream joins it at a keyframe.
Rejoined ==
  /\ Still /\ UNCHANGED <<queue, wire, primed_revision>>
  /\ w.pc \in {"redialled", "booted"} /\ w'.pc \in {"booted", "pop"}
  /\ w'.awaiting /\ w'.rev = w.rev
Popping ==
  /\ Still /\ UNCHANGED <<wire, primed_revision>> /\ SameJob /\ SameMedia /\ SameSide
  /\ w.pc = "pop" /\ w'.pc = "popped"
  /\ queue # <<>> /\ queue' = Tail(queue) /\ w'.tag = Head(queue)
\* The worker is done with the tag in its hand, or finds it stale.
LetsGo ==
  /\ Still /\ UNCHANGED <<queue, wire, primed_revision>>
  /\ SameJob /\ SameMedia /\ SameSide /\ w'.tag = w.tag
  /\ \/ w.pc = "popped" /\ w.tag.epoch # epoch /\ w'.pc = "pop"
     \/ w.pc = "wrote" /\ w.job = "header" /\ OnLine /\ w.tag.epoch # epoch
          /\ w'.pc = "pop"
     \/ /\ w.pc = "wrote" /\ w.job = "tag" /\ w'.pc \in {"pop", "publish"}
        /\ w'.pc = "publish" => w.tag.kind = "audio"
     \/ w.pc = "publish" /\ w'.pc = "pop"
Selecting ==
  /\ Still /\ UNCHANGED <<queue, wire, primed_revision>> /\ SameSide
  /\ w.pc = "popped" /\ w.tag.epoch = epoch /\ w'.tag = w.tag
  /\ w'.media = w.tag.epoch
  /\ w'.awaiting = (w.awaiting \/ w.media # w.tag.epoch)
  /\ w'.job = "header" /\ w'.sel = sequence_headers
  /\ w'.selEpoch = w.tag.epoch /\ w'.rev = header_revision
  /\ w'.pc = IF primed_revision # header_revision /\ sequence_headers # None
             THEN "send" ELSE "wrote"
Turning ==
  /\ Still /\ UNCHANGED <<queue, wire>> /\ SameSide
  /\ w.pc = "wrote" /\ w.job = "header" /\ OnLine
  /\ w.tag.epoch = epoch /\ w'.tag = w.tag /\ w'.media = w.media
  /\ w'.rev = w.rev /\ primed_revision' = w.rev /\ w'.job = "tag"
  /\ w'.pc = (IF Joins THEN "send" ELSE "pop")
  /\ w'.awaiting = (w.awaiting /\ w.tag.kind # "key")
\* A write begins, or is taken for sent.
Sending ==
  /\ Still /\ UNCHANGED <<queue, wire, primed_revision>>
  /\ SameJob /\ SameMedia /\ SameSide /\ w'.tag = w.tag
  /\ w.pc = "send"
  /\ \/ w'.pc = "wrote" /\ (stop_requested \/ JobEpoch # epoch)
     \/ w'.pc = "sending" /\ ~stop_requested /\ JobEpoch = epoch
Writing ==
  /\ Still /\ UNCHANGED <<queue, primed_revision>>
  /\ SameJob /\ SameMedia /\ SameSide /\ w'.tag = w.tag
  /\ w.pc = "sending" /\ w'.pc = "wrote"
  /\ \/ w.job = "file" /\ wire' = wire
     \/ /\ w.job = "header" /\ wire'.headers = w.sel
        /\ wire'.epoch = wire.epoch /\ wire'.video = wire.video
     \/ /\ w.job = "tag" /\ wire'.headers = wire.headers
        /\ wire'.video = IF IsVideo(w.tag) THEN w.tag.video
                         ELSE IF wire.epoch = w.tag.epoch THEN wire.video ELSE 0

LEMMA PrimesTransport ==
  ASSUME WorkerTyped, Connected \/ ReadHeaders \/ ConnectPrimed
  PROVE  Priming
<1>0. w \in Locals
  BY DEF WorkerTyped
<1>1. CASE Connected
  <2>1. /\ w' = [w EXCEPT !.pc = "send", !.job = "file"] /\ w.pc = "connecting"
        /\ Still /\ UNCHANGED queue /\ primed_revision' = primed_revision
    BY <1>1 DEF Connected, Acked, Still, lifeVars, shedVars, headerVars, queueVars
  <2>2. /\ SameMedia /\ SameSide /\ w'.pc = "send" /\ w'.job = "file" /\ w'.rev = w.rev
    BY <1>0, <2>1 DEF Locals, SameMedia, SameSide
  <2> QED BY <2>1, <2>2 DEF Priming
<1>2. CASE ReadHeaders
  <2>1. /\ w' = [w EXCEPT !.sel = sequence_headers, !.selEpoch = epoch,
                   !.rev = header_revision, !.job = "header",
                   !.pc = IF sequence_headers = None THEN "wrote" ELSE "send"]
        /\ w.pc = "wrote" /\ w.job = "file" /\ UNCHANGED <<wire, queue>>
        /\ Still /\ primed_revision' = primed_revision
    BY <1>2 DEF ReadHeaders, Still, sharedVars, lifeVars, epochVars, shedVars, headerVars, queueVars
  <2>2. /\ SameMedia /\ SameSide /\ w'.job = "header" /\ w'.rev = header_revision
        /\ w'.pc = IF sequence_headers = None THEN "wrote" ELSE "send"
        /\ w'.sel = sequence_headers /\ w'.selEpoch = epoch
    BY <1>0, <2>1 DEF Locals, SameMedia, SameSide
  <2> QED BY <2>1, <2>2 DEF Priming
<1>3. CASE ConnectPrimed
  <2>1. PICK pc \in {"redialled", "booted"} : w' = [w EXCEPT !.pc = pc]
    BY <1>3 DEF ConnectPrimed, Go
  <2>2. /\ w.pc = "wrote" /\ w.job = "header" /\ ~OnLine
        /\ primed_revision' = w.rev /\ Still /\ UNCHANGED <<wire, queue>>
    BY <1>3 DEF ConnectPrimed, OnLine, Primed, Still, lifeVars, epochVars, shedVars, headerVars, queueVars
  <2>3. SameMedia /\ SameSide /\ w'.rev = w.rev /\ w'.pc = pc
    BY <1>0, <2>1 DEF Locals, SameMedia, SameSide
  <2> QED BY <2>1, <2>2, <2>3 DEF Priming
<1> QED BY <1>1, <1>2, <1>3

LEMMA RejoinsLine ==
  ASSUME WorkerTyped, Place, Redialled \/ Starts
  PROVE  Rejoined
<1>0. w \in Locals
  BY DEF WorkerTyped
<1>1. CASE Redialled
  <2>1. PICK pc \in {"booted", "pop"} :
          w' = [w EXCEPT !.pc = pc, !.redial = FALSE, !.awaiting = TRUE]
    BY <1>1 DEF Redialled, Rejoin
  <2>2. w'.pc = pc /\ w'.awaiting /\ w'.rev = w.rev
    BY <1>0, <2>1 DEF Locals
  <2> QED BY <1>1, <2>1, <2>2 DEF Redialled, Rejoined, Still, epochVars,
     shedVars, headerVars, queueVars
<1>2. CASE Starts
  <2>1. w'.pc = "pop" /\ w'.awaiting = w.awaiting /\ w'.rev = w.rev /\ w.awaiting
    BY <1>2, Boots DEF Starts, Place
  <2> QED BY <1>2, <2>1 DEF Starts, Booted, Rejoined, Still, epochVars,
     shedVars, headerVars, queueVars
<1> QED BY <1>1, <1>2

LEMMA TakesTag ==
  ASSUME WorkerTyped, Pop
  PROVE  Popping
<1>0. w \in Locals
  BY DEF WorkerTyped
<1>1. PICK t : t = Head(queue)
  OBVIOUS
<1>2. w' = [w EXCEPT !.pc = "popped", !.tag = t]
  BY <1>1 DEF Pop
<1>3. SameJob /\ SameMedia /\ SameSide /\ w'.pc = "popped" /\ w'.tag = t
  BY <1>0, <1>2 DEF Locals, SameJob, SameMedia, SameSide
<1> QED BY <1>1, <1>3 DEF Pop, Popping, Still, lifeVars, epochVars, shedVars, headerVars

LEMMA EndsTag ==
  ASSUME WorkerTyped, TagWritten \/ Publish
  PROVE  LetsGo
<1>0. w \in Locals
  BY DEF WorkerTyped
<1>1. PICK pc \in {"pop", "publish"} : /\ w' = [w EXCEPT !.pc = pc]
                                       /\ Publish => pc = "pop"
                                       /\ TagWritten /\ pc = "publish" =>
                                            w.tag.kind = "audio"
  BY DEF TagWritten, Publish, Go
<1>2. SameJob /\ SameMedia /\ SameSide /\ w'.pc = pc /\ w'.tag = w.tag
  BY <1>0, <1>1 DEF Locals, SameJob, SameMedia, SameSide
<1>3. CASE TagWritten
  BY <1>1, <1>2, <1>3 DEF TagWritten, LetsGo, Still, lifeVars, epochVars,
     shedVars, headerVars, queueVars
<1>4. CASE Publish
  BY <1>1, <1>2, <1>4 DEF Publish, LetsGo, Still, lifeVars, epochVars,
     shedVars, headerVars, queueVars
<1> QED BY <1>3, <1>4

LEMMA SelectsTag ==
  ASSUME WorkerTyped, Select
  PROVE  LetsGo \/ Selecting
<1>0. w \in Locals
  BY DEF WorkerTyped
<1>1. /\ w.pc = "popped" /\ Still /\ UNCHANGED <<queue, wire, primed_revision>>
  BY DEF Select, Still, sharedVars, lifeVars, epochVars, shedVars, headerVars, queueVars
<1>2. CASE w.tag.epoch # epoch
  <2>1. w' = [w EXCEPT !.pc = "pop"]
    BY <1>2 DEF Select
  <2>2. SameJob /\ SameMedia /\ SameSide /\ w'.pc = "pop" /\ w'.tag = w.tag
    BY <1>0, <2>1 DEF Locals, SameJob, SameMedia, SameSide
  <2> QED BY <1>1, <1>2, <2>2 DEF LetsGo
<1>3. CASE w.tag.epoch = epoch
  <2>1. PICK pc : pc = IF primed_revision # header_revision /\ sequence_headers # None
                       THEN "send" ELSE "wrote"
    OBVIOUS
  <2>2. w' = [w EXCEPT !.media = w.tag.epoch,
                !.awaiting = @ \/ w.media # w.tag.epoch,
                !.sel = sequence_headers, !.selEpoch = w.tag.epoch,
                !.rev = header_revision, !.job = "header", !.pc = pc]
    BY <1>3, <2>1 DEF Select
  <2>3. /\ SameSide /\ w'.tag = w.tag /\ w'.media = w.tag.epoch
        /\ w'.awaiting = (w.awaiting \/ w.media # w.tag.epoch)
        /\ w'.job = "header" /\ w'.sel = sequence_headers
        /\ w'.selEpoch = w.tag.epoch /\ w'.rev = header_revision /\ w'.pc = pc
    BY <1>0, <2>2 DEF Locals, SameSide
  <2> QED BY <1>1, <1>3, <2>1, <2>3 DEF Selecting
<1> QED BY <1>2, <1>3

LEMMA TurnsToTag ==
  ASSUME WorkerTyped, LoopPrimed
  PROVE  LetsGo \/ Turning
<1>1. /\ w.pc = "wrote" /\ w.job = "header" /\ OnLine /\ Still /\ UNCHANGED <<queue, wire>>
  BY DEF LoopPrimed, OnLine, Still, lifeVars, epochVars, shedVars, queueVars
<1> QED BY <1>1, Primes DEF LetsGo, Turning, SameJob, SameMedia, SameSide

LEMMA BeginsWrite ==
  ASSUME WorkerTyped, Send
  PROVE  Sending
<1>1. w.pc = "send"
  BY DEF Send
<1> QED BY <1>1, Sends DEF Sending, Still, SameJob, SameMedia, SameSide,
   lifeVars, shedVars, headerVars, queueVars

LEMMA EndsWrite ==
  ASSUME Typed, Media, Place, Sent
  PROVE  Writing
<1>1. w.pc = "sending"
  BY DEF Sent
<1> QED BY <1>1, Writes DEF Typed, Writing, Still, SameJob, SameMedia, SameSide,
   lifeVars, shedVars, headerVars, queueVars

\* Every step of the worker, as the line sees it.
LEMMA LineMoves ==
  ASSUME Typed, Place, Media, [Next]_vars
  PROVE  \/ Idle \/ Stops \/ Off \/ InvalidateEpoch
         \/ \E kinds \in Batches :
              \/ EnqueueDropped(kinds) \/ EnqueueRefused(kinds)
              \/ EnqueuePushed(kinds) \/ EnqueueFull(kinds)
         \/ Priming \/ Rejoined \/ Popping \/ LetsGo \/ Selecting \/ Turning
         \/ Sending \/ Writing
<1>0. WorkerTyped
  BY DEF Typed
<1> QED
  BY <1>0, LineSteps, PrimesTransport, RejoinsLine, TakesTag, EndsTag, SelectsTag,
     TurnsToTag, BeginsWrite, EndsWrite

\* What the worker holds at a step's end it held before, but for a pop.
LEMMA HandStays ==
  ASSUME Typed, Place, Media,
         \/ Off \/ Priming \/ Rejoined \/ LetsGo \/ Selecting \/ Turning
         \/ Sending \/ Writing
  PROVE  /\ epoch' = epoch /\ feed' = feed
         /\ Hand' => Hand /\ w'.tag = w.tag
         /\ Current' => Current /\ w'.tag = w.tag
<1>1. epoch' = epoch /\ feed' = feed
  BY DEF Off, Priming, Rejoined, LetsGo, Selecting, Turning, Sending, Writing, Still
<1>2. Hand' => Hand /\ w'.tag = w.tag
  <2>1. CASE Off \/ Rejoined \/ LetsGo
    BY <2>1 DEF Off, Rejoined, LetsGo, Hand, Talking, Looping
  <2>2. CASE Priming
    BY <2>2 DEF Priming, SameSide, Hand, OnLine, Talking, Reaching, Place
  <2>3. CASE Selecting \/ Turning \/ Sending \/ Writing
    BY <2>3 DEF Selecting, Turning, Sending, Writing, SameSide, Hand, OnLine, Talking
  <2> QED BY <2>1, <2>2, <2>3
<1> QED
  BY <1>1, <1>2 DEF Current

-----------------------------------------------------------------------------
(* What has been published, and what a reconnection excuses.                *)

\* published_epoch_ is written where an epoch is, and where the transport goes.
LEMMA Publications ==
  ASSUME [Next]_vars
  PROVE  published_epoch' = published_epoch \/ Reconnect \/ Publish
BY DEF Next, Pipeline, Owner, Watchdog, Worker, Stopped, vars, ackVars,
         sharedVars, Local, BeginIO, Acked, EndResume,
         EnqueueDropped, EnqueueRefused, EnqueuePushed, EnqueueFull, Accept, Admit,
         InvalidateEpoch, RequestStop, Join, WatchdogExpires, WatchdogInterrupts,
         Dial, Connected, ConnectFails, Send, Sent, SendFails, ReadHeaders,
         ConnectPrimed, Close, Closed, TakeCancellation,
         ReplaceTransport, ReplaceFails, Retry, Delayed, RetryEnds, Exhausted,
         AttemptFailed, Redialled, Booted, GiveUp, Fail, CloseQueue,
         Pop, Leave, Select, LoopPrimed, TagWritten

\* A sender that serves is in one of three states; a reconnection is counted
\* before its first attempt, and the count is never taken back.
Counts ==
  /\ Counted'
  /\ w.reconnected => w'.reconnected
  /\ w.redial => w'.redial \/ w'.reconnected

LEMMA CountedStep ==
  ASSUME WorkerTyped, LifeTyped, Place, Counted, [Next]_vars
  PROVE  Counts
<1>0. w \in Locals
  BY DEF WorkerTyped
<1>1. CASE UNCHANGED <<state, stop_requested, w>>
  BY <1>1 DEF Counts, Counted, Over, Shutting
<1>2. CASE Pipeline
  BY <1>1, <1>2 DEF Pipeline, EnqueueDropped, EnqueueRefused, EnqueuePushed,
     EnqueueFull, Accept, Admit, InvalidateEpoch, lifeVars
<1>3. CASE Owner \/ Watchdog
  BY <1>1, <1>3 DEF Owner, RequestStop, Join, Watchdog, WatchdogExpires,
     WatchdogInterrupts, Counts, Counted, Over, Shutting
<1>4. CASE Dial
  BY <1>0, <1>4 DEF Dial, BeginIO, Go, Local, sharedVars, lifeVars, Counts,
     Counted, Redialling, Over, Shutting, Place, OnLine, Looping, Talking,
     Away, Reaching, Locals
<1>5. CASE Connected
  BY <1>0, <1>5 DEF Connected, Acked, Go, Local, sharedVars, lifeVars, Counts,
     Counted, Redialling, Over, Shutting, Place, OnLine, Looping, Talking,
     Away, Reaching, Locals
<1>6. CASE ConnectFails
  BY <1>0, <1>6 DEF ConnectFails, Acked, Go, Local, sharedVars, lifeVars,
     Counts, Counted, Redialling, Over, Shutting, Place, OnLine, Looping,
     Talking, Away, Reaching, Locals
<1>7. CASE Send
  BY <1>0, <1>7 DEF Send, BeginIO, Go, Local, sharedVars, lifeVars, Counts,
     Counted, Redialling, Over, Shutting, Place, OnLine, Looping, Talking,
     Away, Reaching, Locals
<1>8. CASE Sent
  BY <1>0, <1>8 DEF Sent, Acked, Go, Local, sharedVars, lifeVars, Counts,
     Counted, Redialling, Over, Shutting, Place, OnLine, Looping, Talking,
     Away, Reaching, Locals
<1>9. CASE SendFails
  BY <1>0, <1>9 DEF SendFails, Acked, Go, Local, sharedVars, lifeVars, Counts,
     Counted, Redialling, Over, Shutting, Place, OnLine, Looping, Talking,
     Away, Reaching, Locals
<1>10. CASE ReadHeaders
  BY <1>0, <1>10 DEF ReadHeaders, Go, Local, sharedVars, lifeVars, Counts,
     Counted, Redialling, Over, Shutting, Place, OnLine, Looping, Talking,
     Away, Reaching, Locals
<1>11. CASE ConnectPrimed
  BY <1>0, <1>11 DEF ConnectPrimed, Go, Local, sharedVars, lifeVars, Counts,
     Counted, Redialling, Over, Shutting, Place, OnLine, Looping, Talking,
     Away, Reaching, Locals
<1>12. CASE Close
  BY <1>0, <1>12 DEF Close, BeginIO, Go, Local, sharedVars, lifeVars, Counts,
     Counted, Redialling, Over, Shutting, Place, OnLine, Looping, Talking,
     Away, Reaching, Locals
<1>13. CASE Closed
  BY <1>0, <1>13 DEF Closed, Acked, Go, Local, sharedVars, lifeVars, Counts,
     Counted, Redialling, Over, Shutting, Place, OnLine, Looping, Talking,
     Away, Reaching, Locals
<1>14. CASE Reconnect
  BY <1>0, <1>14 DEF Reconnect, Go, Local, sharedVars, lifeVars, Counts,
     Counted, Redialling, Over, Shutting, Place, OnLine, Looping, Talking,
     Away, Reaching, Locals
<1>15. CASE TakeCancellation
  BY <1>0, <1>15 DEF TakeCancellation, Go, Local, sharedVars, lifeVars,
     Counts, Counted, Redialling, Over, Shutting, Place, OnLine, Looping,
     Talking, Away, Reaching, Locals
<1>16. CASE ReplaceTransport
  BY <1>0, <1>16 DEF ReplaceTransport, Go, Local, sharedVars, lifeVars,
     Counts, Counted, Redialling, Over, Shutting, Place, OnLine, Looping,
     Talking, Away, Reaching, Locals
<1>17. CASE ReplaceFails
  BY <1>0, <1>17 DEF ReplaceFails, EndResume, Go, Local, sharedVars, lifeVars,
     Counts, Counted, Redialling, Over, Shutting, Place, OnLine, Looping,
     Talking, Away, Reaching, Locals
<1>18. CASE Retry
  BY <1>0, <1>18 DEF Retry, Go, Local, sharedVars, lifeVars, Counts, Counted,
     Redialling, Over, Shutting, Place, OnLine, Looping, Talking, Away,
     Reaching, Locals
<1>19. CASE Delayed
  BY <1>0, <1>19 DEF Delayed, Go, Local, sharedVars, lifeVars, Counts,
     Counted, Redialling, Over, Shutting, Place, OnLine, Looping, Talking,
     Away, Reaching, Locals
<1>20. CASE RetryEnds
  BY <1>0, <1>20 DEF RetryEnds, Go, Local, sharedVars, lifeVars, Counts,
     Counted, Redialling, Over, Shutting, Place, OnLine, Looping, Talking,
     Away, Reaching, Locals
<1>21. CASE Exhausted
  BY <1>0, <1>21 DEF Exhausted, EndResume, Go, Local, sharedVars, lifeVars,
     Counts, Counted, Redialling, Over, Shutting, Place, OnLine, Looping,
     Talking, Away, Reaching, Locals
<1>22. CASE AttemptFailed
  BY <1>0, <1>22 DEF AttemptFailed, EndResume, Go, Local, sharedVars,
     lifeVars, Counts, Counted, Redialling, Over, Shutting, Place, OnLine,
     Looping, Talking, Away, Reaching, Locals
<1>23. CASE Redialled
  BY <1>0, <1>23 DEF Redialled, Rejoin, Go, Local, sharedVars, lifeVars,
     Counts, Counted, Redialling, Over, Shutting, Place, OnLine, Looping,
     Talking, Away, Reaching, Locals
<1>24. CASE Booted
  <2>1. CASE w.pc = "booted" /\ BootInTime
    <3>1. /\ state' = IF stop_requested THEN state ELSE "Running"
          /\ w' = [w EXCEPT !.pc = "pop", !.boot = FALSE, !.redial = FALSE]
          /\ stop_requested' = stop_requested
      BY <1>24, <2>1 DEF Booted
    <3>2. /\ w'.pc = "pop" /\ w'.reconnected = w.reconnected
          /\ w.redial = FALSE /\ w.pc = "booted"
      BY <1>0, <2>1, <3>1 DEF Place, Locals
    <3>3. state' = "Running" \/ stop_requested'
      BY <3>1 DEF LifeTyped
    <3> QED BY <3>2, <3>3 DEF Counts, Counted, Redialling
  <2>2. CASE ~(w.pc = "booted" /\ BootInTime)
    <3>1. w' = [w EXCEPT !.pc = "close", !.after = "fail", !.boot = FALSE]
      BY <1>24, <2>2 DEF Booted
    <3>2. /\ w'.pc = "close" /\ w'.after = "fail" /\ w'.redial = w.redial
          /\ w'.reconnected = w.reconnected
      BY <1>0, <3>1 DEF Locals
    <3> QED BY <3>2 DEF Counts, Counted, Redialling, Over, Shutting
  <2> QED BY <2>1, <2>2
<1>25. CASE GiveUp
  BY <1>0, <1>25 DEF GiveUp, Go, Local, sharedVars, lifeVars, Counts, Counted,
     Redialling, Over, Shutting, Place, OnLine, Looping, Talking, Away,
     Reaching, Locals
<1>26. CASE Fail
  BY <1>0, <1>26 DEF Fail, Go, Local, sharedVars, lifeVars, Counts, Counted,
     Redialling, Over, Shutting, Place, OnLine, Looping, Talking, Away,
     Reaching, Locals
<1>27. CASE CloseQueue
  BY <1>0, <1>27 DEF CloseQueue, Go, Local, sharedVars, lifeVars, Counts,
     Counted, Redialling, Over, Shutting, Place, OnLine, Looping, Talking,
     Away, Reaching, Locals
<1>28. CASE Pop
  BY <1>0, <1>28 DEF Pop, Go, Local, sharedVars, lifeVars, Counts, Counted,
     Redialling, Over, Shutting, Place, OnLine, Looping, Talking, Away,
     Reaching, Locals
<1>29. CASE Leave
  BY <1>0, <1>29 DEF Leave, Go, Local, sharedVars, lifeVars, Counts, Counted,
     Redialling, Over, Shutting, Place, OnLine, Looping, Talking, Away,
     Reaching, Locals
<1>30. CASE Select
  BY <1>0, <1>30 DEF Select, Go, Local, sharedVars, lifeVars, Counts, Counted,
     Redialling, Over, Shutting, Place, OnLine, Looping, Talking, Away,
     Reaching, Locals
<1>31. CASE LoopPrimed
  BY <1>0, <1>31 DEF LoopPrimed, Go, Local, sharedVars, lifeVars, Counts,
     Counted, Redialling, Over, Shutting, Place, OnLine, Looping, Talking,
     Away, Reaching, Locals
<1>32. CASE TagWritten
  BY <1>0, <1>32 DEF TagWritten, Go, Local, sharedVars, lifeVars, Counts,
     Counted, Redialling, Over, Shutting, Place, OnLine, Looping, Talking,
     Away, Reaching, Locals
<1>33. CASE Publish
  BY <1>0, <1>33 DEF Publish, Go, Local, sharedVars, lifeVars, Counts,
     Counted, Redialling, Over, Shutting, Place, OnLine, Looping, Talking,
     Away, Reaching, Locals
<1>34. CASE UNCHANGED vars \/ Stopped
  BY <1>1, <1>34 DEF Stopped, vars, lifeVars
<1> QED
  BY <1>2, <1>3, <1>4, <1>5, <1>6, <1>7, <1>8, <1>9, <1>10, <1>11, <1>12,
     <1>13, <1>14, <1>15, <1>16, <1>17, <1>18, <1>19, <1>20, <1>21, <1>22,
     <1>23, <1>24, <1>25, <1>26, <1>27, <1>28, <1>29, <1>30, <1>31, <1>32,
     <1>33, <1>34 DEF Next, Worker

\* An excuse lasts while no sound of the epoch is being published.
LEMMA ExcuseStays ==
  ASSUME SenderInv, LineInv, Excused, ~Airing, [Next]_vars
  PROVE  Excused'
<1>1. Counts
  BY CountedStep DEF SenderInv, LineInv, Typed
<1>2. published_epoch' = 0
  <2>1. CASE Reconnect
    BY <2>1 DEF Reconnect
  <2>2. CASE Publish
    BY <2>2 DEF Publish, Published, Airing, Excused
  <2> QED BY <2>1, <2>2, Publications DEF Excused
<1> QED
  BY <1>1, <1>2 DEF Counts, Excused

\* The sound that is published was in the worker's hand.
LEMMA Airs ==
  ASSUME Typed, Place, Media, [Next]_vars, Airing'
  PROVE  /\ Airing \/ (LetsGo /\ Current /\ w.tag.kind = "audio")
         /\ epoch' = epoch
<1>0. /\ epoch \in Nat
      /\ w.pc = "publish" => w.tag.epoch \in Nat /\ w.tag.epoch <= epoch
  BY HeldTag DEF Holds, Typed, EpochTyped
<1>1. CASE Idle \/ Stops
  BY <1>1 DEF Idle, Stops, Airing
<1>2. CASE Off \/ Rejoined \/ Popping \/ Selecting \/ Turning \/ Sending \/ Writing
  BY <1>2 DEF Off, Rejoined, Popping, Selecting, Turning, Sending, Writing,
     Airing, Looping
<1>3. CASE Priming
  BY <1>3 DEF Priming, Airing
<1>4. CASE LetsGo
  BY <1>4 DEF LetsGo, Airing, Still, Current, Hand, Place, Talking
<1>5. CASE InvalidateEpoch
  <2>1. epoch < epoch' /\ epoch' \in Nat /\ w' = w
    BY <1>5, Invalidates DEF InvalidateEpoch
  <2> QED BY <1>0, <2>1 DEF Airing
<1>6. ASSUME NEW kinds \in Batches,
             \/ EnqueueDropped(kinds) \/ EnqueueRefused(kinds)
             \/ EnqueuePushed(kinds) \/ EnqueueFull(kinds)
      PROVE  Airing /\ epoch' = epoch
  <2>1. epoch <= epoch' /\ epoch' \in Nat /\ w' = w
    BY <1>6, SenderConstants, Enqueues
  <2> QED BY <1>0, <2>1 DEF Airing
<1> QED
  BY <1>1, <1>2, <1>3, <1>4, <1>5, <1>6, LineMoves

\* A dispatch that opens an epoch, or waited for its guard, finds nothing ahead;
\* one that did not wait finds a guard on a connection that is excused.
LEMMA NothingAhead ==
  ASSUME SenderInv, TicketInv, LineInv, Serving, NEW kinds \in Batches,
         MayDispatch(kinds)
  PROVE  /\ WithHeaders =>
              \/ Len(queue) = 0 /\ ~Current
              \/ feed.phase = "guarded" /\ Excused
         /\ feed.epoch # epoch => Len(queue) = 0 /\ ~Current /\ feed.videos = 0
         /\ ~WithHeaders => feed.epoch = epoch /\ feed.phase = "flowing"
<1>0. /\ Typed /\ Media /\ Queued /\ TicketOrder /\ Told /\ Source /\ ~Doomed
      /\ Counted /\ Life /\ OnAir /\ ~stop_requested
      /\ EpochTyped /\ HeaderTyped /\ TicketTyped
  BY DEF SenderInv, TicketInv, LineInv, Serving, Typed
<1>1. feed.phase \in {"boundary", "guarded", "flowing"}
  BY <1>0 DEF MayDispatch, HeaderTyped, Feed
<1>2. feed.phase = "boundary" => Len(queue) = 0 /\ ~Current /\ feed.videos = 0
  BY <1>0 DEF Source
<1>3. ~WithHeaders => feed.epoch = epoch /\ feed.phase = "flowing"
  BY <1>0, <1>1 DEF Source, WithHeaders
\* The guard that has been waited for was the last tag of this sender.
<1>4. ASSUME feed.phase = "guarded", Delivered(feed.epoch, feed.guard)
      PROVE  Len(queue) = 0 /\ ~Current
  <2>1. delivered_epoch = epoch /\ delivery_ticket >= feed.batch
    BY <1>0, <1>4 DEF Delivered, Source
  <2>2. \A t \in Pending : delivery_ticket < t.batch
    BY <1>0, <2>1 DEF Told
  <2>3. queue \in Seq(Tag) /\ Len(queue) \in Nat
    BY <1>0, GoodTags
  <2>4. feed.batch \in Nat /\ delivery_ticket \in Nat
    BY <1>0 DEF HeaderTyped, Feed, TicketTyped
  <2>5. ASSUME NEW i \in 1..Len(queue) PROVE FALSE
    <3>1. queue[i] \in Pending
      BY <1>0, <2>3, PendingIs DEF Source
    <3>2. queue[i].batch \in Nat /\ queue[i].batch <= feed.batch
      BY <1>0, <2>4 DEF TicketOrder, Within
    <3>3. delivery_ticket < queue[i].batch
      BY <3>1, <2>2
    <3> QED BY <2>1, <2>4, <3>2, <3>3
  <2>6. Len(queue) = 0
    <3>1. Len(queue) > 0 => 1 \in 1..Len(queue)
      BY <2>3
    <3> QED BY <2>3, <2>5, <3>1
  <2>7. ASSUME Current PROVE FALSE
    <3>1. w.tag \in Pending
      BY <2>3, <2>7, PendingIs DEF Current
    <3>2. Holds
      BY <2>7 DEF Current, Hand, Holds, Talking
    <3>3. w.tag.batch \in Nat /\ w.tag.batch <= feed.batch
      BY <1>0, <2>4, <3>2 DEF TicketOrder
    <3>4. delivery_ticket < w.tag.batch
      BY <3>1, <2>2
    <3> QED BY <2>1, <2>4, <3>3, <3>4
  <2> QED BY <2>6, <2>7
\* A sender that is skipped is away, or back and silent.
<1>5. ASSUME Skipped
      PROVE  Excused
  <2>1. CASE w.reconnected /\ published_epoch = 0
    BY <2>1 DEF Excused
  <2>2. CASE state \notin {"Starting", "Running"}
    <3>1. state = "Reconnecting"
      BY <1>0, <2>2 DEF Counted, Doomed
    <3>2. w.redial /\ published_epoch = 0
      BY <1>0, <3>1 DEF Life, OnAir, OnLine
    <3> QED BY <3>2 DEF Excused
  <2> QED BY <1>5, <2>1, <2>2 DEF Skipped
<1>6. feed.phase = "guarded" => \/ Len(queue) = 0 /\ ~Current
                                \/ Excused
  BY <1>4, <1>5 DEF MayDispatch
<1> QED
  BY <1>0, <1>2, <1>3, <1>6 DEF WithHeaders, Source

\* Lines 106-117 as the line sees them, and what becomes of the queue: tags it
\* held, then tags of the batch.
Arriving(kinds) ==
  /\ MayDispatch(kinds)
  /\ UNCHANGED <<stop_requested, w, wire, primed_revision>>
  /\ epoch' = feed.epoch /\ feed'.epoch = feed.epoch /\ epoch <= feed.epoch
  /\ feed'.phase \in {"guarded", "flowing", "failed"}
  /\ feed'.phase = "guarded" =>
       feed.phase = "boundary" /\ kinds = <<"guard">> /\ feed'.guard = feed'.batch
  /\ feed'.videos = VideosBefore(kinds, Len(kinds))
  /\ published_epoch' = published_epoch
  /\ sequence_headers' = HeaderId
  /\ header_revision' = IF WithHeaders THEN header_revision + 1 ELSE header_revision
  /\ \E q, r \in Seq(Tag) : /\ FromSome(q, queue) /\ FromSome(r, Tags(kinds))
                            /\ Batched(queue) => Batched(q)
                            /\ queue' = q \o r

LEMMA ArrivesOnLine ==
  ASSUME SenderInv, TicketInv, NEW kinds \in Batches,
         \/ EnqueueDropped(kinds) \/ EnqueueRefused(kinds)
         \/ EnqueuePushed(kinds) \/ EnqueueFull(kinds)
  PROVE  Arriving(kinds)
<1>0. /\ Typed /\ Media /\ Queued /\ TicketOrder /\ EpochTyped /\ HeaderTyped
  BY DEF SenderInv, TicketInv, Typed
<1>1. PICK phase \in {"guarded", "flowing", "failed"} :
        /\ Admit(kinds, phase) /\ MayDispatch(kinds)
        /\ phase = "guarded" => feed.phase = "boundary" /\ kinds = <<"guard">>
  <2>1. \A phase \in NextPhases(kinds) :
          /\ phase \in {"guarded", "flowing"}
          /\ phase = "guarded" => feed.phase = "boundary" /\ kinds = <<"guard">>
    BY DEF NextPhases
  <2>2. Accept(kinds) \/ Admit(kinds, "failed")
    BY DEF EnqueueDropped, EnqueueRefused, EnqueuePushed, EnqueueFull
  <2>3. MayDispatch(kinds)
    BY DEF EnqueueDropped, EnqueueRefused, EnqueuePushed, EnqueueFull
  <2> QED BY <2>1, <2>2, <2>3 DEF Accept
<1>2. /\ feed'.phase = phase /\ feed'.batch = feed.batch + 1
      /\ feed'.videos = VideosBefore(kinds, Len(kinds))
      /\ phase = "guarded" => feed'.guard = feed.batch + 1
  <2>1. PICK a, b, c : /\ a = VideosBefore(kinds, Len(kinds)) /\ b = feed.batch + 1
                       /\ c = IF phase = "guarded" THEN feed.batch + 1 ELSE feed.guard
    OBVIOUS
  <2>2. feed' = [feed EXCEPT !.batch = b, !.phase = phase, !.videos = a, !.guard = c]
    BY <1>1, <2>1 DEF Admit
  <2>3. feed'.phase = phase /\ feed'.batch = b /\ feed'.videos = a /\ feed'.guard = c
    BY <1>0, <2>2 DEF HeaderTyped, Feed
  <2> QED BY <2>1, <2>3
<1>3. \E q, r \in Seq(Tag) : /\ FromSome(q, queue) /\ FromSome(r, Tags(kinds))
                             /\ Batched(queue) => Batched(q)
                             /\ queue' = q \o r
  <2>0. queue \in Seq(Tag) /\ FromSome(queue, queue) /\ <<>> \in Seq(Tag)
        /\ FromSome(<<>>, Tags(kinds)) /\ queue \o <<>> = queue
    BY <1>0, GoodTags DEF FromSome, Same
  <2>1. PICK tags : tags = Tags(kinds)
    OBVIOUS
  <2>2. TryFacts(feed.batch, tags)
    BY <1>0, <2>1, SenderConstants, EnqueueOrder
  <2>6. Batched(queue) =>
          Batched(Relieved(tags).queue) /\ Batched(Emptied(tags).queue)
    BY <1>0, <2>2, RelievedBatched DEF TryFacts
  <2>3. CASE EnqueueDropped(kinds) \/ EnqueueRefused(kinds)
    <3>1. queue' = queue \o <<>>
      BY <2>0, <2>3 DEF EnqueueDropped, EnqueueRefused
    <3> QED BY <2>0, <3>1
  <2>4. CASE EnqueuePushed(kinds)
    <3>1. queue' = Relieved(tags).queue \o FirstTry(tags).kept
      BY <2>1, <2>4 DEF EnqueuePushed
    <3> QED BY <2>1, <2>2, <2>6, <3>1 DEF TryFacts
  <2>5. CASE EnqueueFull(kinds)
    <3>1. PICK r \in {SecondTry(tags).kept, <<>>} : queue' = Emptied(tags).queue \o r
      BY <2>1, <2>5 DEF EnqueueFull
    <3> QED BY <2>0, <2>1, <2>2, <2>6, <3>1 DEF TryFacts
  <2> QED BY <2>3, <2>4, <2>5
<1>4. /\ UNCHANGED <<stop_requested, w, wire, primed_revision, published_epoch>>
      /\ epoch' = feed.epoch /\ feed'.epoch = feed.epoch /\ epoch <= feed.epoch
  BY <1>0, SenderConstants, Enqueues DEF lifeVars
<1> QED
  BY <1>1, <1>2, <1>3, <1>4 DEF Arriving, Admit

\* A dispatch moves nothing in the hand, and no hand is current over its fence.
LEMMA ArrivalKeepsHand ==
  ASSUME SenderInv, LineInv, NEW kinds \in Batches, Arriving(kinds)
  PROVE  /\ Hand' = Hand /\ OnTheLine' = OnTheLine
         /\ Current' => Current /\ epoch' = epoch
         /\ epoch' = epoch => Current' = Current
<1>0. /\ Typed /\ Media /\ EpochTyped /\ Source
  BY DEF SenderInv, LineInv, Typed
<1>1. Hand' = Hand /\ OnTheLine' = OnTheLine /\ w' = w
  BY DEF Arriving, Hand, OnLine, OnTheLine
<1>2. ASSUME Current' PROVE epoch' = epoch
  <2>1. Hand => Holds
    BY DEF Hand, Holds, Talking
  <2>2. w.tag.epoch \in Nat /\ w.tag.epoch <= epoch /\ w.tag.epoch = epoch'
    BY <1>0, <1>1, <1>2, <2>1, HeldTag DEF Current
  <2>3. epoch \in Nat /\ epoch <= epoch'
    BY <1>0 DEF EpochTyped, Arriving
  <2> QED BY <2>2, <2>3
<1> QED
  BY <1>1, <1>2 DEF Current

\* What a dispatch makes of the queue: older tags, then tags of the batch.
LEMMA Arrivals ==
  ASSUME SenderInv, TicketInv, NEW kinds \in Batches, Arriving(kinds)
  PROVE  \E q, r \in Seq(Tag) :
           /\ queue' = q \o r /\ FromSome(q, queue)
           /\ Batched(queue) => Batched(q)
           /\ \A i \in 1..Len(q) : q[i].batch \in Nat /\ q[i].batch <= feed.batch
           /\ \A k \in 1..Len(r) :
                /\ r[k].batch = feed.batch + 1 /\ r[k].epoch = feed.epoch
                /\ r[k].headers = HeaderId
                /\ kinds = <<"guard">> => r[k].kind = "guard"
           /\ \A j \in 1..Len(queue') :
                \/ j \in 1..Len(q) /\ queue'[j] = q[j]
                \/ j - Len(q) \in 1..Len(r) /\ queue'[j] = r[j - Len(q)]
<1>0. Typed /\ TicketOrder /\ feed.batch \in Nat
  BY DEF SenderInv, TicketInv, Typed, HeaderTyped, Feed
<1>1. PICK q, r \in Seq(Tag) : /\ FromSome(q, queue) /\ FromSome(r, Tags(kinds))
                               /\ Batched(queue) => Batched(q)
                               /\ queue' = q \o r
  BY DEF Arriving
<1>2. \A i \in 1..Len(q) : q[i].batch \in Nat /\ q[i].batch <= feed.batch
  <2>1. \A n \in 1..Len(queue) : queue[n].batch \in Nat /\ queue[n].batch <= feed.batch
    BY <1>0 DEF TicketOrder, Within
  <2> QED BY <1>1, <2>1 DEF FromSome, Same
<1>3. PICK tags : tags = Tags(kinds)
  OBVIOUS
<1>4. /\ Len(tags) = Len(kinds)
      /\ \A i \in 1..Len(tags) :
           /\ tags[i].kind = kinds[i] /\ tags[i].epoch = feed.epoch
           /\ tags[i].batch = feed.batch + 1 /\ tags[i].headers = HeaderId
  BY <1>0, <1>3, SenderConstants, TagsShape
<1>5. kinds = <<"guard">> => \A i \in 1..Len(tags) : tags[i].kind = "guard"
  BY <1>4
<1>6. \A k \in 1..Len(r) : /\ r[k].batch = feed.batch + 1 /\ r[k].epoch = feed.epoch
                           /\ r[k].headers = HeaderId
                           /\ kinds = <<"guard">> => r[k].kind = "guard"
  <2>1. ASSUME NEW k \in 1..Len(r)
        PROVE  /\ r[k].batch = feed.batch + 1 /\ r[k].epoch = feed.epoch
               /\ r[k].headers = HeaderId
               /\ kinds = <<"guard">> => r[k].kind = "guard"
    <3>1. PICK n \in 1..Len(tags) : Same(r[k], tags[n])
      BY <1>1, <1>3 DEF FromSome
    <3> QED BY <1>4, <1>5, <3>1 DEF Same
  <2> QED BY <2>1
<1>7. \A j \in 1..Len(queue') : \/ j \in 1..Len(q) /\ queue'[j] = q[j]
                                \/ j - Len(q) \in 1..Len(r) /\ queue'[j] = r[j - Len(q)]
  BY <1>1
<1> QED
  BY <1>1, <1>2, <1>6, <1>7

\* The feed moves with a dispatch or an action, and not over a sound on air.
LEMMA FeedMoves ==
  ASSUME SenderInv, TicketInv, LineInv, [Next]_vars,
         feed'.phase \in {"boundary", "guarded"}
  PROVE  ~Airing'
<1>0. Typed /\ Place /\ Media /\ Source
  BY DEF SenderInv, LineInv
<1> SUFFICES ASSUME Airing' PROVE FALSE
  OBVIOUS
<1>1. /\ Airing \/ (LetsGo /\ Current /\ w.tag.kind = "audio")
      /\ epoch' = epoch
  BY <1>0, Airs
<1>2. CASE LetsGo /\ Current /\ w.tag.kind = "audio"
  BY <1>0, <1>2 DEF LetsGo, Still, Source
<1>3. CASE Airing
  <2>1. feed.phase \notin {"boundary", "guarded"}
    BY <1>0, <1>3 DEF Source
  <2>2. CASE InvalidateEpoch
    <3>1. epoch < epoch' /\ epoch' \in Nat
      BY <1>0, <2>2, Invalidates
    <3> QED BY <1>1, <3>1
  <2>3. ASSUME NEW kinds \in Batches,
               \/ EnqueueDropped(kinds) \/ EnqueueRefused(kinds)
               \/ EnqueuePushed(kinds) \/ EnqueueFull(kinds)
        PROVE  FALSE
    BY <2>1, <2>3, ArrivesOnLine DEF Arriving
  <2>4. CASE Idle \/ Stops \/ Popping
    BY <2>1, <2>4 DEF Idle, Stops, Popping, Still
  <2>5. CASE \/ Off \/ Priming \/ Rejoined \/ LetsGo \/ Selecting \/ Turning
             \/ Sending \/ Writing
    BY <1>0, <2>1, <2>5, HandStays
  <2> QED BY <1>0, <2>2, <2>3, <2>4, <2>5, LineMoves
<1> QED BY <1>1, <1>2, <1>3

\* Where the feed is.
LEMMA SourceStep ==
  ASSUME SenderInv, TicketInv, LineInv, [Next]_vars
  PROVE  Source'
<1>0. /\ Typed /\ Place /\ Media /\ Queued /\ Source /\ WorkerTyped
      /\ EpochTyped /\ HeaderTyped
      /\ queue \in Seq(Tag) /\ Len(queue) \in Nat /\ feed.videos \in Nat
  <2>1. /\ Typed /\ Place /\ Media /\ Queued /\ Source /\ WorkerTyped
        /\ EpochTyped /\ HeaderTyped
    BY DEF SenderInv, LineInv, Typed
  <2> QED BY <2>1, GoodTags DEF HeaderTyped, Feed
<1>a. feed'.phase \in {"boundary", "guarded"} => ~Airing'
  BY FeedMoves
<1>1. CASE Idle
  BY <1>0, <1>1, <1>a DEF Idle, Source, Current, Hand, OnLine
<1>2. CASE Stops
  <2>1. queue' \in {queue, <<>>} /\ feed' = feed /\ epoch' = epoch /\ w' = w
    BY <1>2 DEF Stops
  <2> QED BY <1>0, <1>a, <2>1 DEF Source, Current, Hand, OnLine
<1>3. CASE \/ Off \/ Priming \/ Rejoined \/ LetsGo \/ Selecting \/ Turning
           \/ Sending \/ Writing
  <2>1. epoch' = epoch /\ feed' = feed /\ (Current' => Current /\ w'.tag = w.tag)
    BY <1>0, <1>3, HandStays
  <2>2. queue' \in {queue, <<>>}
    BY <1>3 DEF Off, Priming, Rejoined, LetsGo, Selecting, Turning, Sending, Writing
  <2> QED BY <1>0, <1>a, <2>1, <2>2 DEF Source
<1>4. CASE InvalidateEpoch
  <2>1. /\ epoch' = feed'.epoch /\ epoch < epoch' /\ feed'.phase = "boundary"
        /\ queue' = <<>> /\ w' = w /\ feed'.videos = 0 /\ epoch' \in Nat /\ epoch \in Nat
    <3>1. PICK e : /\ e = feed.epoch + 1
                   /\ feed' = [feed EXCEPT !.epoch = e, !.videos = 0,
                                 !.phase = "boundary", !.guard = 0]
      BY <1>4 DEF InvalidateEpoch
    <3>2. feed'.videos = 0
      BY <1>0, <3>1 DEF HeaderTyped, Feed
    <3> QED BY <1>0, <1>4, <3>2, Invalidates DEF InvalidateEpoch, EpochTyped
  <2>2. ~Current'
    <3>1. Hand => Holds
      BY DEF Hand, Holds, Talking
    <3>2. Hand => w.tag.epoch \in Nat /\ w.tag.epoch <= epoch
      BY <1>0, <3>1, HeldTag
    <3>3. Hand' = Hand
      BY <2>1 DEF Hand, OnLine
    <3> QED BY <2>1, <3>2, <3>3 DEF Current
  <2> QED BY <1>a, <2>1, <2>2 DEF Source
<1>5. CASE Popping
  <2>1. /\ epoch' = epoch /\ feed' = feed /\ queue # <<>> /\ queue' = Tail(queue)
        /\ w'.tag = Head(queue)
    BY <1>5 DEF Popping, Still
  <2>2. /\ \A i \in 1..Len(queue') : i + 1 \in 1..Len(queue) /\ queue'[i] = queue[i + 1]
        /\ 1 \in 1..Len(queue) /\ w'.tag = queue[1]
    BY <1>0, <2>1
  <2> QED BY <1>0, <1>a, <2>1, <2>2 DEF Source
<1>6. ASSUME NEW kinds \in Batches,
             \/ EnqueueDropped(kinds) \/ EnqueueRefused(kinds)
             \/ EnqueuePushed(kinds) \/ EnqueueFull(kinds)
      PROVE  Source'
  <2>1. Arriving(kinds)
    BY <1>6, ArrivesOnLine
  <2>2. PICK q, r \in Seq(Tag) : /\ FromSome(q, queue) /\ FromSome(r, Tags(kinds))
                                 /\ queue' = q \o r
    BY <2>1 DEF Arriving
  <2>3. PICK tags, total : tags = Tags(kinds) /\ total = VideosBefore(kinds, Len(kinds))
    OBVIOUS
  <2>4. /\ total \in Nat /\ feed.videos <= total
        /\ Len(tags) = Len(kinds)
        /\ \A i \in 1..Len(tags) : /\ tags[i].video <= total
                                   /\ tags[i].epoch = feed.epoch
                                   /\ tags[i].kind = kinds[i]
    <3>1. LET tgs == Tags(kinds)
              ttl == VideosBefore(kinds, Len(kinds))
          IN  /\ ttl \in Nat /\ feed.videos <= ttl
              /\ Len(tgs) = Len(kinds)
              /\ \A i \in 1..Len(tgs) : tgs[i].video <= ttl /\ tgs[i].kind = kinds[i]
      BY <1>0, SenderConstants, TagsVideo
    <3>2. \A i \in 1..Len(Tags(kinds)) : Tags(kinds)[i].epoch = feed.epoch
      BY <1>0, SenderConstants, TagsOrder
    <3> QED BY <2>3, <3>1, <3>2
  <2>5. \A k \in 1..Len(r) : r[k].video <= total /\ r[k].epoch = feed.epoch
    BY <2>2, <2>3, <2>4 DEF FromSome, Same
  <2>6. \A i \in 1..Len(queue) : queue[i].epoch = feed.epoch /\ queue[i].video <= total
    <3>1. \A i \in 1..Len(queue) : queue[i].video \in Nat
      BY <1>0, TagsOfSeq
    <3> QED BY <1>0, <2>4, <3>1 DEF Source
  <2>7. \A i \in 1..Len(q) : q[i].epoch = feed.epoch /\ q[i].video <= total
    BY <2>2, <2>6 DEF FromSome, Same
  <2>8. \A i \in 1..Len(queue') : \/ i \in 1..Len(q) /\ queue'[i] = q[i]
                                  \/ i - Len(q) \in 1..Len(r) /\ queue'[i] = r[i - Len(q)]
    BY <2>2
  <2>9. \A i \in 1..Len(queue') : queue'[i].epoch = feed.epoch /\ queue'[i].video <= total
    BY <2>5, <2>7, <2>8
  \* Only the guard that opens an epoch leaves the feed guarded.
  <2>10. ASSUME feed'.phase = "guarded"
         PROVE  /\ feed'.guard = feed'.batch /\ ~Current'
                /\ \A i \in 1..Len(queue') : queue'[i].kind = "guard"
    <3>1. feed.phase = "boundary" /\ kinds = <<"guard">> /\ feed'.guard = feed'.batch
      BY <2>1, <2>10 DEF Arriving
    <3>2. Len(queue) = 0 /\ ~Current
      BY <1>0, <3>1 DEF Source
    <3>3. ~Current'
      BY <2>1, <3>2, ArrivalKeepsHand
    <3>4. \A i \in 1..Len(tags) : tags[i].kind = "guard"
      BY <2>4, <3>1
    <3>5. \A k \in 1..Len(r) : r[k].kind = "guard"
      BY <2>2, <2>3, <3>4 DEF FromSome, Same
    <3>6. \A i \in 1..Len(q) : FALSE
      BY <2>2, <3>2 DEF FromSome
    <3> QED BY <2>8, <3>1, <3>3, <3>5, <3>6
  <2>11. /\ epoch' = feed.epoch /\ feed'.epoch = feed.epoch /\ feed'.videos = total
         /\ feed'.phase \in {"guarded", "flowing", "failed"}
    BY <2>1, <2>3 DEF Arriving
  <2> QED BY <1>a, <2>9, <2>10, <2>11 DEF Source
<1> QED
  BY <1>0, <1>1, <1>2, <1>3, <1>4, <1>5, <1>6, LineMoves

LEMMA ServingBefore ==
  ASSUME SenderInv, TicketInv, [Next]_vars, Serving'
  PROVE  Serving
BY ServingStays DEF SenderInv, TicketInv

\* A fence of the pipeline: nothing queued, nothing current, new headers.
LEMMA EpochOpens ==
  ASSUME SenderInv, InvalidateEpoch
  PROVE  /\ queue' = <<>> /\ w' = w /\ ~Current' /\ wire' = wire
         /\ feed'.phase = "boundary" /\ feed'.videos = 0
         /\ header_revision' = header_revision + 1 /\ sequence_headers' = None
         /\ primed_revision' = primed_revision /\ stop_requested' = stop_requested
         /\ drop_video_until_keyframe' = FALSE
<1>0. /\ Typed /\ Media /\ EpochTyped /\ HeaderTyped
  BY DEF SenderInv, Typed
<1>1. /\ epoch < epoch' /\ queue' = <<>> /\ w' = w /\ epoch' \in Nat /\ epoch \in Nat
      /\ feed'.phase = "boundary"
  BY <1>0, Invalidates DEF InvalidateEpoch, EpochTyped
<1>2. ~Current'
  <2>1. Hand => Holds
    BY DEF Hand, Holds, Talking
  <2>2. Hand => w.tag.epoch \in Nat /\ w.tag.epoch <= epoch
    BY <1>0, <2>1, HeldTag
  <2>3. Hand' = Hand
    BY <1>1 DEF Hand, OnLine
  <2> QED BY <1>1, <2>2, <2>3 DEF Current
<1>3. feed'.videos = 0
  <2>1. PICK e : feed' = [feed EXCEPT !.epoch = e, !.videos = 0,
                           !.phase = "boundary", !.guard = 0]
    BY DEF InvalidateEpoch
  <2> QED BY <1>0, <2>1 DEF HeaderTyped, Feed
<1> QED
  BY <1>1, <1>2, <1>3 DEF InvalidateEpoch, lifeVars

\* The queue is in the order of the dispatches.
LEMMA LinedStep ==
  ASSUME SenderInv, TicketInv, LineInv, [Next]_vars
  PROVE  Lined'
<1>0. /\ Typed /\ Place /\ Media /\ Queued /\ Lined /\ TicketOrder
      /\ queue \in Seq(Tag) /\ Len(queue) \in Nat
  <2>1. /\ Typed /\ Place /\ Media /\ Queued /\ Lined /\ TicketOrder /\ EpochTyped
    BY DEF SenderInv, TicketInv, LineInv, Typed
  <2> QED BY <2>1, GoodTags
<1>1. /\ Batched(queue)
      /\ Current => \A i \in 1..Len(queue) : w.tag.batch <= queue[i].batch
  BY <1>0 DEF Lined
<1>2. SUFFICES
        /\ \A i, j \in 1..Len(queue') : i < j => queue'[i].batch <= queue'[j].batch
        /\ Current' => \A i \in 1..Len(queue') : w'.tag.batch <= queue'[i].batch
  BY DEF Lined, Batched
<1>3. CASE /\ queue' \in {queue, <<>>}
           /\ Current' => Current /\ w'.tag = w.tag
  BY <1>1, <1>3 DEF Batched
<1>4. CASE Idle \/ Stops
  <2>1. queue' \in {queue, <<>>} /\ w' = w /\ epoch' = epoch
    BY <1>4 DEF Idle, Stops
  <2>2. Current' => Current /\ w'.tag = w.tag
    BY <2>1 DEF Current, Hand, OnLine
  <2> QED BY <1>3, <2>1, <2>2
<1>5. CASE \/ Off \/ Priming \/ Rejoined \/ LetsGo \/ Selecting \/ Turning
           \/ Sending \/ Writing
  <2>1. Current' => Current /\ w'.tag = w.tag
    BY <1>0, <1>5, HandStays
  <2>2. queue' \in {queue, <<>>}
    BY <1>5 DEF Off, Priming, Rejoined, LetsGo, Selecting, Turning, Sending, Writing
  <2> QED BY <1>3, <2>1, <2>2
<1>6. CASE InvalidateEpoch
  <2>1. queue' = <<>> /\ ~Current'
    BY <1>6, EpochOpens
  <2> QED BY <1>3, <2>1
<1>7. CASE Popping
  <2>1. queue # <<>> /\ queue' = Tail(queue) /\ w'.tag = Head(queue)
    BY <1>7 DEF Popping
  <2>2. /\ \A i \in 1..Len(queue') : /\ i + 1 \in 1..Len(queue) /\ 1 < i + 1
                                     /\ queue'[i] = queue[i + 1]
        /\ 1 \in 1..Len(queue) /\ w'.tag = queue[1]
    BY <1>0, <2>1
  <2>3. \A i, j \in 1..Len(queue') : i < j => i + 1 < j + 1
    OBVIOUS
  <2> QED BY <1>1, <2>2, <2>3 DEF Batched
<1>8. ASSUME NEW kinds \in Batches,
             \/ EnqueueDropped(kinds) \/ EnqueueRefused(kinds)
             \/ EnqueuePushed(kinds) \/ EnqueueFull(kinds)
      PROVE  /\ \A i, j \in 1..Len(queue') : i < j => queue'[i].batch <= queue'[j].batch
             /\ Current' => \A i \in 1..Len(queue') : w'.tag.batch <= queue'[i].batch
  <2>1. Arriving(kinds)
    BY <1>8, ArrivesOnLine
  <2>2. PICK q, r \in Seq(Tag) :
          /\ queue' = q \o r /\ FromSome(q, queue)
          /\ Batched(queue) => Batched(q)
          /\ \A i \in 1..Len(q) : q[i].batch \in Nat /\ q[i].batch <= feed.batch
          /\ \A k \in 1..Len(r) :
               /\ r[k].batch = feed.batch + 1 /\ r[k].epoch = feed.epoch
               /\ r[k].headers = HeaderId
               /\ kinds = <<"guard">> => r[k].kind = "guard"
          /\ \A j \in 1..Len(queue') :
               \/ j \in 1..Len(q) /\ queue'[j] = q[j]
               \/ j - Len(q) \in 1..Len(r) /\ queue'[j] = r[j - Len(q)]
    BY <1>0, <2>1, Arrivals
  <2>a. /\ Len(q) \in Nat /\ Len(queue') \in Nat /\ Batched(q)
    BY <1>1, <2>2
  <2>b. \A k \in 1..Len(r) : r[k].batch = feed.batch + 1
    BY <2>2
  <2>3. feed.batch \in Nat
    BY <1>0 DEF Typed, HeaderTyped, Feed
  <2>4. ASSUME NEW i \in 1..Len(queue'), NEW j \in 1..Len(queue'), i < j
        PROVE  queue'[i].batch <= queue'[j].batch
    <3>a. i \in Nat /\ j \in Nat
      BY <2>a
    <3>b. \/ i \in 1..Len(q) /\ queue'[i] = q[i]
          \/ i - Len(q) \in 1..Len(r) /\ queue'[i] = r[i - Len(q)]
      BY <2>2
    <3>c. \/ j \in 1..Len(q) /\ queue'[j] = q[j]
          \/ j - Len(q) \in 1..Len(r) /\ queue'[j] = r[j - Len(q)]
      BY <2>2
    <3>1. CASE j \in 1..Len(q) /\ queue'[j] = q[j]
      <4>1. i <= Len(q)
        BY <2>a, <2>4, <3>a, <3>1
      <4>2. i - Len(q) \notin 1..Len(r)
        BY <2>a, <3>a, <4>1
      <4> QED BY <2>a, <2>4, <3>b, <3>1, <4>2 DEF Batched
    <3>2. CASE j - Len(q) \in 1..Len(r) /\ queue'[j] = r[j - Len(q)]
      <4>1. queue'[j].batch = feed.batch + 1
        BY <2>b, <3>2
      <4>2. CASE i \in 1..Len(q) /\ queue'[i] = q[i]
        BY <2>2, <2>3, <4>1, <4>2
      <4>3. CASE i - Len(q) \in 1..Len(r) /\ queue'[i] = r[i - Len(q)]
        <5>1. queue'[i].batch = feed.batch + 1
          BY <2>b, <4>3
        <5> QED BY <2>3, <4>1, <5>1
      <4> QED BY <3>b, <4>2, <4>3
    <3> QED BY <3>c, <3>1, <3>2
  <2>5. ASSUME Current', NEW i \in 1..Len(queue')
        PROVE  w'.tag.batch <= queue'[i].batch
    <3>1. Current /\ w' = w
      BY <2>1, <2>5, ArrivalKeepsHand DEF Arriving
    <3>2. w.tag.batch \in Nat /\ w.tag.batch <= feed.batch
      <4>1. Holds
        BY <3>1 DEF Current, Hand, Holds, Talking
      <4> QED BY <1>0, <2>3, <4>1 DEF TicketOrder
    <3>3. \A n \in 1..Len(q) : w.tag.batch <= q[n].batch
      BY <1>1, <2>2, <3>1 DEF FromSome, Same
    <3>4. \A k \in 1..Len(r) : w.tag.batch <= r[k].batch
      BY <2>b, <2>3, <3>2
    <3> QED BY <2>2, <3>1, <3>3, <3>4
  <2> QED BY <2>4, <2>5
<1> QED
  BY <1>0, <1>4, <1>5, <1>6, <1>7, <1>8, LineMoves

\* What is pending was produced with the headers in force, or overtaken by them.
LEMMA LabelledFrom ==
  ASSUME feed'.phase # "boundary" => sequence_headers' # None,
         \A i \in 1..Len(queue') :
           \/ queue'[i].headers = sequence_headers'
           \/ /\ queue'[i].kind = "guard" /\ Excused' /\ ~Airing'
              /\ \A j \in 1..Len(queue') : queue'[j].batch <= queue'[i].batch =>
                                             queue'[j].kind = "guard"
              /\ Current' => w'.tag.kind = "guard",
         Current' => \/ w'.tag.headers = sequence_headers'
                     \/ w'.tag.kind = "guard" /\ Excused'
  PROVE  Labelled'
BY DEF Labelled, Overtaken

LEMMA LabelledStep ==
  ASSUME SenderInv, TicketInv, LineInv, [Next]_vars
  PROVE  Labelled'
<1>0. /\ Typed /\ Place /\ Media /\ Queued /\ Source /\ Labelled /\ WorkerTyped
      /\ EpochTyped /\ HeaderTyped /\ Lined
      /\ queue \in Seq(Tag) /\ Len(queue) \in Nat
  <2>1. /\ Typed /\ Place /\ Media /\ Queued /\ Source /\ Labelled /\ WorkerTyped
        /\ EpochTyped /\ HeaderTyped /\ Lined
    BY DEF SenderInv, LineInv, Typed
  <2> QED BY <2>1, GoodTags
<1>1. SUFFICES ASSUME Serving' PROVE Labelled'
  BY DEF Labelled
<1>2. Serving /\ ~stop_requested'
  BY <1>1, ServingBefore DEF Serving
<1>3. /\ feed.phase # "boundary" => sequence_headers # None
      /\ \A i \in 1..Len(queue) :
           queue[i].headers = sequence_headers \/ Overtaken(queue[i])
      /\ Current => \/ w.tag.headers = sequence_headers
                    \/ w.tag.kind = "guard" /\ Excused
  BY <1>0, <1>2 DEF Labelled
\* The excuse of the hand and of an overtaken guard lasts.
<1>a. ASSUME Current, Excused PROVE Excused'
  <2>1. ~Airing
    BY <1>a DEF Current, Hand, Airing, Talking
  <2> QED BY <1>a, <2>1, ExcuseStays
<1>b. ASSUME Excused, ~Airing, Current => w.tag.kind = "guard"
      PROVE  Excused' /\ ~Airing'
  <2>1. Excused'
    BY <1>b, ExcuseStays
  <2>2. Airing' => Airing \/ (Current /\ w.tag.kind = "audio")
    BY <1>0, Airs
  <2> QED BY <1>b, <2>1, <2>2
<1>c. ASSUME NEW t, Overtaken(t)
      PROVE  /\ t.kind = "guard" /\ Excused' /\ ~Airing'
             /\ \A i \in 1..Len(queue) : queue[i].batch <= t.batch => queue[i].kind = "guard"
             /\ Current => w.tag.kind = "guard"
  BY <1>b, <1>c DEF Overtaken
<1>4. CASE /\ queue' \in {queue, <<>>}
           /\ Current' => Current /\ w'.tag = w.tag
           /\ sequence_headers' = sequence_headers /\ feed' = feed
  <2>1. ASSUME NEW i \in 1..Len(queue'), queue'[i].headers # sequence_headers'
        PROVE  /\ queue'[i].kind = "guard" /\ Excused' /\ ~Airing'
               /\ \A j \in 1..Len(queue') : queue'[j].batch <= queue'[i].batch =>
                                              queue'[j].kind = "guard"
               /\ Current' => w'.tag.kind = "guard"
    <3>1. queue' # <<>>
      <4>1. SUFFICES ASSUME queue' = <<>> PROVE FALSE
        OBVIOUS
      <4>2. Len(queue') = 0 /\ i \in 1..Len(queue')
        BY <4>1
      <4> QED BY <4>2
    <3>2. queue' = queue
      BY <1>4, <3>1
    <3>3. Overtaken(queue[i])
      BY <1>3, <1>4, <2>1, <3>2
    <3> QED BY <1>4, <1>c, <3>2, <3>3
  <2>2. \A i \in 1..Len(queue') :
          \/ queue'[i].headers = sequence_headers'
          \/ /\ queue'[i].kind = "guard" /\ Excused' /\ ~Airing'
             /\ \A j \in 1..Len(queue') : queue'[j].batch <= queue'[i].batch =>
                                            queue'[j].kind = "guard"
             /\ Current' => w'.tag.kind = "guard"
    BY <2>1
  <2>3. Current' => \/ w'.tag.headers = sequence_headers'
                    \/ w'.tag.kind = "guard" /\ Excused'
    BY <1>3, <1>4, <1>a
  <2>4. feed'.phase # "boundary" => sequence_headers' # None
    BY <1>3, <1>4
  <2> QED BY <2>2, <2>3, <2>4, LabelledFrom
<1>5. CASE Idle
  <2>1. Current' => Current /\ w'.tag = w.tag
    BY <1>5 DEF Idle, Current, Hand, OnLine
  <2> QED BY <1>4, <1>5, <2>1 DEF Idle
<1>6. CASE Stops
  BY <1>2, <1>6 DEF Stops
<1>7. CASE \/ Off \/ Priming \/ Rejoined \/ LetsGo \/ Selecting \/ Turning
           \/ Sending \/ Writing
  <2>1. feed' = feed /\ (Current' => Current /\ w'.tag = w.tag)
    BY <1>0, <1>7, HandStays
  <2>2. queue' \in {queue, <<>>} /\ sequence_headers' = sequence_headers
    BY <1>7 DEF Off, Priming, Rejoined, LetsGo, Selecting, Turning, Sending,
       Writing, Still
  <2> QED BY <1>4, <2>1, <2>2
<1>8. CASE InvalidateEpoch
  BY <1>8, EpochOpens DEF Labelled
<1>9. CASE Popping
  <2>1. /\ feed' = feed /\ queue # <<>> /\ queue' = Tail(queue)
        /\ w'.tag = Head(queue) /\ sequence_headers' = sequence_headers
    BY <1>9 DEF Popping, Still
  <2>2. /\ \A i \in 1..Len(queue') : /\ i + 1 \in 1..Len(queue) /\ 1 < i + 1
                                     /\ queue'[i] = queue[i + 1]
        /\ 1 \in 1..Len(queue) /\ w'.tag = queue[1]
    BY <1>0, <2>1
  <2>3. ASSUME NEW i \in 1..Len(queue'), queue'[i].headers # sequence_headers'
        PROVE  /\ queue'[i].kind = "guard" /\ Excused' /\ ~Airing'
               /\ \A j \in 1..Len(queue') : queue'[j].batch <= queue'[i].batch =>
                                              queue'[j].kind = "guard"
               /\ Current' => w'.tag.kind = "guard"
    <3>1. Overtaken(queue[i + 1])
      BY <1>3, <2>1, <2>2, <2>3
    <3>2. /\ queue[i + 1].kind = "guard" /\ Excused' /\ ~Airing'
          /\ \A j \in 1..Len(queue) : queue[j].batch <= queue[i + 1].batch =>
                                        queue[j].kind = "guard"
      BY <1>c, <3>1
    <3>3. queue[1].batch <= queue[i + 1].batch
      BY <1>0, <2>2 DEF Lined, Batched
    <3> QED BY <2>2, <3>2, <3>3
  <2>4. w'.tag.headers = sequence_headers' \/ (w'.tag.kind = "guard" /\ Excused')
    BY <1>3, <1>c, <2>1, <2>2
  <2> QED BY <1>3, <2>1, <2>3, <2>4, LabelledFrom
<1>10. ASSUME NEW kinds \in Batches,
             \/ EnqueueDropped(kinds) \/ EnqueueRefused(kinds)
             \/ EnqueuePushed(kinds) \/ EnqueueFull(kinds)
      PROVE  Labelled'
  <2>1. Arriving(kinds) /\ MayDispatch(kinds)
    BY <1>10, ArrivesOnLine DEF Arriving
  <2>2. PICK q, r \in Seq(Tag) :
          /\ FromSome(q, queue)
          /\ \A i \in 1..Len(q) : q[i].batch \in Nat /\ q[i].batch <= feed.batch
          /\ \A k \in 1..Len(r) : r[k].batch = feed.batch + 1 /\ r[k].headers = HeaderId
          /\ \A j \in 1..Len(queue') :
               \/ j \in 1..Len(q) /\ queue'[j] = q[j]
               \/ j - Len(q) \in 1..Len(r) /\ queue'[j] = r[j - Len(q)]
    BY <2>1, Arrivals
  <2>3. /\ WithHeaders => \/ Len(queue) = 0 /\ ~Current
                          \/ feed.phase = "guarded" /\ Excused
        /\ ~WithHeaders => feed.phase = "flowing"
    BY <1>2, <2>1, NothingAhead
  <2>4. HeaderId # None /\ (~WithHeaders => HeaderId = sequence_headers)
    <3>1. header_revision + 1 \in Nat /\ None \notin Nat
      BY <1>0, SenderConstants DEF HeaderTyped, SenderConstants
    <3> QED BY <1>3, <2>3, <3>1 DEF HeaderId
  <2>5. sequence_headers' = HeaderId
    BY <2>1 DEF Arriving
  <2>6. Current' => Current /\ w' = w
    BY <2>1, ArrivalKeepsHand DEF Arriving
  <2>7. feed.batch \in Nat
    BY <1>0 DEF HeaderTyped, Feed
  \* A tag that does not bear the headers in force is older than the batch, and
  \* is a guard with guards before it.
  <2>8. ASSUME NEW n \in 1..Len(q), q[n].headers # HeaderId
        PROVE  /\ q[n].kind = "guard" /\ Excused' /\ ~Airing'
               /\ \A m \in 1..Len(q) : q[m].batch <= q[n].batch => q[m].kind = "guard"
               /\ Current => w.tag.kind = "guard"
    <3>1. PICK o \in 1..Len(queue) : Same(q[n], queue[o])
      BY <2>2 DEF FromSome
    <3>2. CASE WithHeaders
      <4>1. feed.phase = "guarded" /\ Excused
        BY <2>3, <3>1, <3>2
      <4>2. /\ \A i \in 1..Len(queue) : queue[i].kind = "guard"
            /\ Current => w.tag.kind = "guard"
            /\ ~Airing
        BY <1>0, <4>1 DEF Source
      <4>3. \A m \in 1..Len(q) : q[m].kind = "guard"
        BY <2>2, <4>2 DEF FromSome, Same
      <4> QED BY <1>b, <4>1, <4>2, <4>3
    <3>3. CASE ~WithHeaders
      <4>1. queue[o].headers # sequence_headers
        BY <2>4, <2>8, <3>1, <3>3 DEF Same
      <4>2. Overtaken(queue[o])
        BY <1>3, <4>1
      <4>3. /\ queue[o].kind = "guard" /\ Excused' /\ ~Airing'
            /\ \A i \in 1..Len(queue) : queue[i].batch <= queue[o].batch =>
                                          queue[i].kind = "guard"
            /\ Current => w.tag.kind = "guard"
        BY <1>c, <4>2
      <4>4. ASSUME NEW m \in 1..Len(q), q[m].batch <= q[n].batch
            PROVE  q[m].kind = "guard"
        <5>1. PICK i \in 1..Len(queue) : Same(q[m], queue[i])
          BY <2>2 DEF FromSome
        <5> QED BY <3>1, <4>3, <4>4, <5>1 DEF Same
      <4> QED BY <3>1, <4>3, <4>4 DEF Same
    <3> QED BY <3>2, <3>3
  <2>9. ASSUME NEW i \in 1..Len(queue'), queue'[i].headers # sequence_headers'
        PROVE  /\ queue'[i].kind = "guard" /\ Excused' /\ ~Airing'
               /\ \A j \in 1..Len(queue') : queue'[j].batch <= queue'[i].batch =>
                                              queue'[j].kind = "guard"
               /\ Current' => w'.tag.kind = "guard"
    <3>1. i \in 1..Len(q) /\ queue'[i] = q[i] /\ q[i].headers # HeaderId
      BY <2>2, <2>5, <2>9
    <3>2. ASSUME NEW j \in 1..Len(queue'), queue'[j].batch <= queue'[i].batch
          PROVE  queue'[j].kind = "guard"
      <4>1. queue'[i].batch \in Nat /\ queue'[i].batch <= feed.batch
        BY <2>2, <3>1
      <4>2. queue'[j].batch # feed.batch + 1
        BY <2>7, <3>2, <4>1
      <4>3. j \in 1..Len(q) /\ queue'[j] = q[j]
        BY <2>2, <4>2
      <4> QED BY <2>8, <3>1, <3>2, <4>3
    <3> QED BY <2>6, <2>8, <3>1, <3>2
  <2>10. ASSUME Current'
         PROVE  \/ w'.tag.headers = sequence_headers'
                \/ w'.tag.kind = "guard" /\ Excused'
    <3>1. CASE WithHeaders
      <4>1. feed.phase = "guarded" /\ Excused /\ Current /\ w' = w
        BY <2>3, <2>6, <2>10, <3>1
      <4> QED BY <1>0, <1>a, <4>1 DEF Source
    <3>2. CASE ~WithHeaders
      BY <1>3, <1>a, <2>4, <2>5, <2>6, <2>10, <3>2
    <3> QED BY <3>1, <3>2
  <2> QED BY <2>4, <2>5, <2>9, <2>10, LabelledFrom
<1> QED
  BY <1>0, <1>5, <1>6, <1>7, <1>8, <1>9, <1>10, LineMoves

\* A revision is used after it is made.
LEMMA RevisionsStep ==
  ASSUME SenderInv, TicketInv, LineInv, [Next]_vars
  PROVE  Revisions'
<1>0. /\ Typed /\ Place /\ Media /\ Revisions
      /\ header_revision \in Nat /\ primed_revision \in Nat /\ w.rev \in Nat
  BY DEF SenderInv, LineInv, Typed, HeaderTyped, WorkerTyped, Locals
<1>1. CASE Idle \/ Stops \/ Off
  BY <1>0, <1>1 DEF Idle, Stops, Off, Revisions
<1>2. CASE InvalidateEpoch
  <2>1. header_revision' = header_revision + 1 /\ primed_revision' = primed_revision /\ w' = w
    BY <1>2, EpochOpens
  <2> QED BY <1>0, <2>1 DEF Revisions
<1>3. CASE Priming \/ Rejoined \/ Popping
  BY <1>0, <1>3 DEF Priming, Rejoined, Popping, SameJob, Still, Revisions
<1>4. CASE LetsGo \/ Selecting \/ Turning
  BY <1>0, <1>4 DEF LetsGo, Selecting, Turning, SameJob, Still, Revisions
<1>5. CASE Sending \/ Writing
  BY <1>0, <1>5 DEF Sending, Writing, SameJob, Still, Revisions
<1>6. ASSUME NEW kinds \in Batches,
             \/ EnqueueDropped(kinds) \/ EnqueueRefused(kinds)
             \/ EnqueuePushed(kinds) \/ EnqueueFull(kinds)
      PROVE  Revisions'
  <2>1. /\ header_revision' \in {header_revision, header_revision + 1}
        /\ primed_revision' = primed_revision /\ w' = w
    BY <1>6, ArrivesOnLine DEF Arriving
  <2> QED BY <1>0, <2>1 DEF Revisions
<1> QED
  BY <1>0, <1>1, <1>2, <1>3, <1>4, <1>5, <1>6, LineMoves

\* The headers on the wire are those of the revision it was primed with.
LEMMA PrimerStep ==
  ASSUME SenderInv, TicketInv, LineInv, [Next]_vars
  PROVE  Primer'
<1>0. /\ Typed /\ Place /\ Media /\ Source /\ Revisions /\ Primer
      /\ header_revision \in Nat /\ primed_revision \in Nat /\ w.rev \in Nat
      /\ primed_revision <= header_revision /\ w.rev <= header_revision
  BY DEF SenderInv, LineInv, Typed, HeaderTyped, WorkerTyped, Locals, Revisions
<1>1. SUFFICES ASSUME Serving' PROVE Primer'
  BY DEF Primer
<1>2. Serving /\ ~stop_requested' /\ ~stop_requested
  BY <1>1, ServingBefore DEF Serving
<1>a. w.pc \in Talking /\ w.job = "header" /\ w.rev = header_revision =>
        w.sel = sequence_headers /\ w.selEpoch = epoch
  BY <1>0, <1>2 DEF Primer
<1>b. w.pc = "wrote" /\ w.job = "header" /\ w.rev = header_revision
         /\ sequence_headers # None => wire.headers = sequence_headers
  BY <1>0, <1>2 DEF Primer
<1>c. (OnTheLine \/ w.pc \in {"redialled", "booted"})
         /\ primed_revision = header_revision /\ sequence_headers # None =>
           wire.headers = sequence_headers
  BY <1>0, <1>2 DEF Primer
<1>d. OnLine /\ w.pc \in {"send", "sending"} /\ w.job = "header" =>
         primed_revision < header_revision
  BY <1>0, <1>2 DEF Primer
<1>e. Current /\ w.pc \in Talking =>
         \/ /\ w.rev = header_revision
            /\ w.job = "tag" => primed_revision = header_revision
         \/ w.tag.kind = "guard" /\ Excused
  BY <1>0, <1>2 DEF Primer
<1>f. Current /\ Excused => Excused'
  <2>1. Current => ~Airing
    BY DEF Current, Hand, Airing, Talking
  <2> QED BY <2>1, ExcuseStays
<1>3. CASE Idle
  BY <1>3, <1>a, <1>b, <1>c, <1>d, <1>e, <1>f DEF Idle, Primer, Current, Hand, OnTheLine, OnLine
<1>4. CASE Stops
  BY <1>2, <1>4 DEF Stops
<1>5. CASE Off
  BY <1>5 DEF Off, Primer, OnTheLine, Looping, Talking
<1>6. CASE InvalidateEpoch
  <2>1. /\ w' = w /\ ~Current' /\ header_revision' = header_revision + 1
        /\ primed_revision' = primed_revision
    BY <1>6, EpochOpens
  <2>2. w.rev < header_revision' /\ primed_revision < header_revision'
    BY <1>0, <2>1
  <2> QED BY <1>0, <2>1, <2>2 DEF Primer
<1>7. ASSUME NEW kinds \in Batches,
             \/ EnqueueDropped(kinds) \/ EnqueueRefused(kinds)
             \/ EnqueuePushed(kinds) \/ EnqueueFull(kinds)
      PROVE  Primer'
  <2>1. Arriving(kinds)
    BY <1>7, ArrivesOnLine
  <2>2. /\ w' = w /\ wire' = wire /\ primed_revision' = primed_revision
        /\ Current' => Current /\ epoch' = epoch
        /\ OnTheLine' = OnTheLine /\ OnLine' = OnLine
    BY <2>1, ArrivalKeepsHand DEF Arriving, OnLine
  <2>3. CASE WithHeaders
    <3>1. header_revision' = header_revision + 1
      BY <2>1, <2>3 DEF Arriving
    <3>2. w.rev < header_revision' /\ primed_revision < header_revision'
      BY <1>0, <3>1
    <3>3. Current => feed.phase = "guarded" /\ Excused
      BY <1>2, <2>1, <2>3, NothingAhead DEF Arriving
    <3>4. Current' => w'.tag.kind = "guard" /\ Excused'
      BY <1>0, <1>f, <2>2, <3>3 DEF Source
    <3> QED BY <1>0, <2>2, <3>1, <3>2, <3>4 DEF Primer
  <2>4. CASE ~WithHeaders
    <3>1. header_revision' = header_revision /\ sequence_headers' = sequence_headers
          /\ epoch' = epoch
      BY <1>2, <2>1, <2>4, NothingAhead DEF Arriving, HeaderId
    <3> QED BY <1>a, <1>b, <1>c, <1>d, <1>e, <1>f, <2>2, <3>1 DEF Primer
  <2> QED BY <2>3, <2>4
<1>8. CASE Priming
  <2>1. OnLine' = OnLine /\ ~OnLine /\ ~Hand'
    BY <1>0, <1>8 DEF Priming, SameSide, OnLine, Hand, Place, Talking, Reaching
  <2>2. ~OnTheLine' /\ ~Current'
    BY <2>1 DEF OnTheLine, Current
  <2>3. CASE w'.pc \notin {"redialled", "booted"}
    BY <1>8, <2>1, <2>2, <2>3 DEF Priming, Still, Primer, Talking
  <2>4. CASE w'.pc \in {"redialled", "booted"}
    BY <1>b, <1>8, <2>1, <2>2, <2>4 DEF Priming, Still, Primer, Talking
  <2> QED BY <2>3, <2>4
<1>9. CASE Rejoined
  BY <1>c, <1>9 DEF Rejoined, Still, Primer, Talking, Looping, OnTheLine
<1>10. CASE Popping
  BY <1>c, <1>10 DEF Popping, Still, SameSide, Primer, Talking, Looping, OnTheLine, OnLine
<1>11. CASE LetsGo
  <2>1. OnTheLine
    BY <1>0, <1>11 DEF LetsGo, OnTheLine, Place, Looping, Talking
  <2> QED BY <1>c, <1>11, <2>1 DEF LetsGo, Still, Primer, Talking, OnTheLine
<1>12. CASE Selecting
  <2>1. OnTheLine /\ OnLine' = OnLine
    BY <1>0, <1>12 DEF Selecting, SameSide, OnTheLine, OnLine, Place, Looping, Talking
  <2>2. /\ w'.job = "header" /\ w'.rev = header_revision /\ w'.sel = sequence_headers
        /\ w'.selEpoch = epoch /\ w'.pc \in {"send", "wrote"}
        /\ w'.pc = "send" => primed_revision # header_revision
        /\ w'.pc = "wrote" => \/ primed_revision = header_revision
                              \/ sequence_headers = None
        /\ UNCHANGED <<epoch, sequence_headers, header_revision, wire, primed_revision>>
    BY <1>12 DEF Selecting, Still
  <2>3. w'.pc = "send" => primed_revision < header_revision
    BY <1>0, <2>2
  <2> QED BY <1>c, <2>1, <2>2, <2>3 DEF Primer
<1>13. CASE Turning
  <2>1. OnTheLine /\ OnLine' = OnLine /\ Current
    BY <1>0, <1>13 DEF Turning, SameSide, OnTheLine, OnLine, Looping, Talking, Current, Hand
  <2>2. /\ UNCHANGED <<epoch, sequence_headers, header_revision, wire>>
        /\ w'.rev = w.rev /\ primed_revision' = w.rev /\ w'.job = "tag"
        /\ w'.tag = w.tag /\ w.pc = "wrote" /\ w.job = "header"
        /\ w'.pc \in {"send", "pop"}
    BY <1>13 DEF Turning, Still
  <2>3. w.rev = header_revision \/ (w.tag.kind = "guard" /\ Excused')
    BY <1>e, <1>f, <2>1, <2>2 DEF Talking
  <2> QED BY <1>b, <2>2, <2>3 DEF Primer
<1>14. CASE Sending
  <2>1. /\ UNCHANGED <<epoch, sequence_headers, header_revision, wire, primed_revision>>
        /\ w'.job = w.job /\ w'.sel = w.sel /\ w'.selEpoch = w.selEpoch
        /\ w'.rev = w.rev /\ w'.tag = w.tag /\ OnLine' = OnLine
        /\ w.pc = "send" /\ w'.pc \in {"wrote", "sending"}
        /\ w'.pc = "wrote" => JobEpoch # epoch
    BY <1>2, <1>14 DEF Sending, Still, SameJob, SameSide, OnLine
  <2>2. OnTheLine' => OnTheLine
    BY <2>1 DEF OnTheLine, Talking
  <2>3. Current' => Current
    BY <2>1 DEF Current, Hand, Talking
  <2>4. w.pc \in Talking /\ w'.pc \in Talking
    BY <2>1 DEF Talking
  <2>5. w'.pc = "wrote" => ~(w.job = "header" /\ w.rev = header_revision)
    BY <1>a, <2>1, <2>4 DEF JobEpoch
  <2> QED BY <1>a, <1>b, <1>c, <1>d, <1>e, <1>f, <2>1, <2>2, <2>3, <2>4, <2>5 DEF Primer
<1>15. CASE Writing
  <2>1. /\ UNCHANGED <<epoch, sequence_headers, header_revision, primed_revision>>
        /\ w'.job = w.job /\ w'.sel = w.sel /\ w'.selEpoch = w.selEpoch
        /\ w'.rev = w.rev /\ w'.tag = w.tag /\ OnLine' = OnLine
        /\ w.pc = "sending" /\ w'.pc = "wrote"
        /\ \/ w.job = "file"
           \/ w.job = "header" /\ wire'.headers = w.sel
           \/ w.job = "tag" /\ wire'.headers = wire.headers
    BY <1>15 DEF Writing, Still, SameJob, SameSide, OnLine
  <2>2. OnTheLine' => OnTheLine /\ OnLine
    BY <2>1 DEF OnTheLine, Talking
  <2>3. Current' => Current
    BY <2>1 DEF Current, Hand, Talking
  <2>4. w.pc \in Talking /\ w'.pc \in Talking /\ (OnLine => w.job # "file")
    BY <1>0, <2>1 DEF Talking, Place
  <2>5. OnLine /\ w.job = "header" => primed_revision # header_revision
    BY <1>0, <1>d, <2>1
  <2> QED BY <1>a, <1>c, <1>e, <1>f, <2>1, <2>2, <2>3, <2>4, <2>5 DEF Primer
<1> QED
  BY <1>0, <1>3, <1>4, <1>5, <1>6, <1>7, <1>8, <1>9, <1>10, <1>11, <1>12,
     <1>13, <1>14, <1>15, LineMoves

\* Media joins at a keyframe, or goes on.
LEMMA MayJoinStep ==
  ASSUME SenderInv, TicketInv, LineInv, [Next]_vars
  PROVE  MayJoin'
<1>0. Typed /\ Place /\ Media /\ MayJoin
  BY DEF SenderInv, LineInv
<1>1. CASE Idle \/ Stops
  BY <1>0, <1>1 DEF Idle, Stops, MayJoin, OnLine
<1>2. CASE Off \/ Rejoined \/ Popping \/ LetsGo
  BY <1>2 DEF Off, Rejoined, Popping, LetsGo, MayJoin, Talking
<1>3. CASE InvalidateEpoch
  BY <1>0, <1>3 DEF InvalidateEpoch, MayJoin, OnLine
<1>4. ASSUME NEW kinds \in Batches,
             \/ EnqueueDropped(kinds) \/ EnqueueRefused(kinds)
             \/ EnqueuePushed(kinds) \/ EnqueueFull(kinds)
      PROVE  MayJoin'
  BY <1>0, <1>4, ArrivesOnLine DEF Arriving, MayJoin, OnLine
<1>5. CASE Priming
  BY <1>0, <1>5 DEF Priming, SameSide, MayJoin, OnLine, Place, Talking, Reaching
<1>6. CASE Selecting
  BY <1>6 DEF Selecting, MayJoin
<1>7. CASE Turning
  BY <1>7 DEF Turning, SameSide, MayJoin, OnLine, Joins
<1>8. CASE Sending \/ Writing
  BY <1>0, <1>8 DEF Sending, Writing, SameJob, SameSide, SameMedia, MayJoin, OnLine
<1> QED
  BY <1>0, <1>1, <1>2, <1>3, <1>4, <1>5, <1>6, <1>7, <1>8, LineMoves

\* The write that begins decodes.
LEMMA OnAirDecodesStep ==
  ASSUME SenderInv, TicketInv, LineInv, [Next]_vars
  PROVE  OnAirDecodes'
<1>0. /\ Typed /\ Place /\ Media /\ Joined /\ Source /\ Labelled /\ Primer
      /\ InTurn /\ MayJoin /\ OnAirDecodes /\ EpochTyped /\ WorkerTyped
  BY DEF SenderInv, LineInv, Typed
<1>a. w.pc = "sending" => published_epoch' = published_epoch
  BY Publications DEF Reconnect, Publish
<1>1. CASE Sending
  <2>1. SUFFICES ASSUME w'.pc = "sending", w'.job = "tag"
                 PROVE  OnAirDecodes'
    BY DEF OnAirDecodes
  <2>2. /\ w.pc = "send" /\ w.job = "tag" /\ ~stop_requested /\ JobEpoch = epoch
        /\ w'.tag = w.tag /\ wire' = wire
    BY <1>1, <2>1 DEF Sending, SameJob
  <2>3. /\ OnLine /\ w.tag.epoch = epoch /\ w.media = epoch /\ w.pc \in Talking
        /\ Hand /\ Current /\ OnTheLine /\ Holds
    BY <1>0, <2>2 DEF Place, Media, Talking, JobEpoch, Hand, Current, OnTheLine, Holds
  <2>4. Serving
    BY <2>2 DEF Serving, Doomed, Over, Shutting
  <2>5. /\ sequence_headers # None
        /\ \/ w.tag.headers = sequence_headers /\ primed_revision = header_revision
           \/ w.tag.kind = "guard" /\ Excused
    BY <1>0, <2>2, <2>3, <2>4 DEF Source, Labelled, Primer
  <2>6. \/ wire.headers = w.tag.headers
        \/ w.tag.kind = "guard" /\ w'.reconnected /\ published_epoch' = 0
    <3>1. CASE w.tag.headers = sequence_headers /\ primed_revision = header_revision
      BY <1>0, <2>3, <2>4, <2>5, <3>1 DEF Primer
    <3>2. CASE w.tag.kind = "guard" /\ Excused
      <4>1. ~Airing /\ ~w'.redial
        BY <1>1, <2>2, <2>3 DEF Airing, Sending, SameSide, OnLine
      <4>2. Excused'
        BY <3>2, <4>1, ExcuseStays
      <4> QED BY <3>2, <4>1, <4>2 DEF Excused
    <3> QED BY <2>5, <3>1, <3>2
  <2>7. ASSUME w.tag.kind \in {"delta", "audio"}
        PROVE  wire.epoch = w.tag.epoch /\ wire.video > 0 /\ ~w.awaiting
    BY <1>0, <2>2, <2>3, <2>7 DEF MayJoin, Joined
  <2>8. ASSUME w.tag.kind = "delta"
        PROVE  wire.video = w.tag.video - 1
    BY <1>0, <2>2, <2>3, <2>4, <2>7, <2>8 DEF InTurn, IsVideo, Wired, Rejoins
  <2> QED BY <2>2, <2>6, <2>7, <2>8 DEF OnAirDecodes
<1>2. CASE Idle \/ Stops
  BY <1>0, <1>2, <1>a DEF Idle, Stops, OnAirDecodes
<1>3. CASE \/ Off \/ Priming \/ Rejoined \/ Popping \/ LetsGo \/ Selecting
           \/ Turning \/ Writing
  <2>1. w'.pc # "sending"
    BY <1>3 DEF Off, Priming, Rejoined, Popping, LetsGo, Selecting, Turning,
       Writing, Talking
  <2> QED BY <2>1 DEF OnAirDecodes
<1>4. CASE InvalidateEpoch
  BY <1>0, <1>4, <1>a DEF InvalidateEpoch, OnAirDecodes
<1>5. ASSUME NEW kinds \in Batches,
             \/ EnqueueDropped(kinds) \/ EnqueueRefused(kinds)
             \/ EnqueuePushed(kinds) \/ EnqueueFull(kinds)
      PROVE  OnAirDecodes'
  BY <1>0, <1>5, <1>a, ArrivesOnLine DEF Arriving, OnAirDecodes
<1> QED
  BY <1>0, <1>1, <1>2, <1>3, <1>4, <1>5, LineMoves

\* The last frame on the wire is what it was, but for the write of a frame and
\* the keyframe the stream joins at.
LEMMA WiredStays ==
  ASSUME SenderInv, ~stop_requested, NEW v, Wired(v),
         \/ Off \/ Priming \/ Rejoined \/ Popping \/ LetsGo \/ Selecting
         \/ (Turning /\ w.tag.kind # "key") \/ Sending
         \/ (Writing /\ ~(Current /\ IsVideo(w.tag)))
  PROVE  Wired(v)'
<1>0. Typed /\ Place /\ Media /\ Joined /\ WorkerTyped
  BY DEF SenderInv, Typed
<1>1. CASE Off
  BY <1>1 DEF Off, Wired, OnTheLine
<1>2. CASE Priming
  BY <1>0, <1>2 DEF Priming, SameSide, Wired, OnTheLine, OnLine, Place, Talking,
     Reaching, Looping
<1>3. CASE Rejoined
  BY <1>3 DEF Rejoined, Wired, Rejoins
<1>4. CASE Popping \/ LetsGo
  <2>1. OnTheLine /\ UNCHANGED <<epoch, wire>> /\ SameMedia
    BY <1>0, <1>4 DEF Popping, LetsGo, Still, OnTheLine, Place, Looping, Talking
  <2> QED BY <2>1 DEF SameMedia, Wired, Rejoins
<1>5. CASE Selecting
  <2>1. /\ OnTheLine /\ UNCHANGED <<epoch, wire>> /\ w'.media = epoch
        /\ w'.awaiting = (w.awaiting \/ w.media # epoch)
    BY <1>0, <1>5 DEF Selecting, Still, OnTheLine, Place, Looping
  <2> QED BY <2>1 DEF Wired, Rejoins
<1>6. CASE Turning /\ w.tag.kind # "key"
  <2>1. /\ OnTheLine /\ UNCHANGED <<epoch, wire>> /\ w'.media = w.media
        /\ w'.awaiting = w.awaiting
    <3>1. w.awaiting \in BOOLEAN
      BY <1>0 DEF WorkerTyped, Locals
    <3> QED BY <1>6, <3>1 DEF Turning, Still, OnTheLine, Talking
  <2> QED BY <2>1 DEF Wired, Rejoins
<1>7. CASE Sending
  <2>1. /\ OnTheLine' => OnTheLine
        /\ UNCHANGED <<epoch, wire>> /\ SameMedia
    BY <1>7 DEF Sending, Still, SameSide, OnTheLine, OnLine, Talking
  <2> QED BY <2>1 DEF SameMedia, Wired, Rejoins
<1>8. CASE Writing /\ ~(Current /\ IsVideo(w.tag))
  <2>1. /\ OnTheLine' => OnTheLine /\ OnLine
        /\ epoch' = epoch /\ SameMedia /\ w.pc \in Talking
    BY <1>8 DEF Writing, Still, SameSide, OnTheLine, OnLine, Talking
  <2>2. SUFFICES ASSUME OnTheLine, OnLine, ~w.awaiting, w.media = epoch
                 PROVE  wire'.video = wire.video
    BY <2>1, <2>2 DEF SameMedia, Wired, Rejoins
  <2>3. w.tag.epoch = epoch /\ Current
    BY <1>0, <2>1, <2>2 DEF Media, Current, Hand
  <2>4. w.job # "file"
    BY <1>0, <2>1, <2>2 DEF Place
  <2>5. CASE w.job = "header"
    BY <1>8, <2>5 DEF Writing
  <2>6. CASE w.job = "tag"
    <3>1. wire.epoch = w.tag.epoch
      BY <1>0, <1>8, <2>1, <2>2, <2>3, <2>6 DEF Joined, IsVideo, Writing
    <3> QED BY <1>8, <2>3, <2>6, <3>1 DEF Writing
  <2> QED BY <1>8, <2>4, <2>5, <2>6 DEF Writing
<1> QED
  BY <1>1, <1>2, <1>3, <1>4, <1>5, <1>6, <1>7, <1>8
\* InTurn, of a frame in hand.
LEMMA InTurnStep ==
  ASSUME SenderInv, TicketInv, LineInv, [Next]_vars
  PROVE  InTurn'
<1>0. /\ Typed /\ Place /\ Media /\ Queued /\ WorkerTyped /\ EpochTyped
      /\ Source /\ Frames /\ InTurn /\ MayJoin
      /\ queue \in Seq(Tag) /\ Len(queue) \in Nat
  <2>1. /\ Typed /\ Place /\ Media /\ Queued /\ WorkerTyped /\ EpochTyped
        /\ Source /\ Frames /\ InTurn /\ MayJoin
    BY DEF SenderInv, LineInv, Typed
  <2> QED BY <2>1, GoodTags
<1>3. PICK v, u : v = w'.tag.video /\ u = w'.tag.video - 1
  OBVIOUS
<1>1. SUFFICES ASSUME Serving', Current', IsVideo(w'.tag)
               PROVE  IF w'.pc = "wrote" /\ w'.job = "tag" THEN Wired(v)'
                      ELSE w'.tag.kind = "delta" => Wired(u)'
  BY <1>3 DEF InTurn, Wired, Rejoins
<1>2. Serving /\ ~stop_requested' /\ ~stop_requested
  BY <1>1, ServingBefore DEF Serving
<1>5. ASSUME Current, w'.tag = w.tag
      PROVE  IF w.pc = "wrote" /\ w.job = "tag" THEN Wired(v)
             ELSE w'.tag.kind = "delta" => Wired(u)
  BY <1>0, <1>1, <1>2, <1>3, <1>5 DEF InTurn
<1>6. CASE Idle \/ Stops
  <2>1. /\ w' = w /\ wire' = wire /\ epoch' = epoch
    BY <1>6 DEF Idle, Stops
  <2>2. /\ Current /\ Wired(v)' = Wired(v) /\ Wired(u)' = Wired(u)
    BY <1>1, <2>1 DEF Current, Hand, OnLine, Wired, Rejoins, OnTheLine
  <2> QED BY <1>5, <2>1, <2>2
<1>7. CASE InvalidateEpoch
  BY <1>1, <1>7, EpochOpens
<1>8. ASSUME NEW kinds \in Batches,
             \/ EnqueueDropped(kinds) \/ EnqueueRefused(kinds)
             \/ EnqueuePushed(kinds) \/ EnqueueFull(kinds)
      PROVE  IF w'.pc = "wrote" /\ w'.job = "tag" THEN Wired(v)'
             ELSE w'.tag.kind = "delta" => Wired(u)'
  <2>1. Arriving(kinds)
    BY <1>8, ArrivesOnLine
  <2>2. /\ w' = w /\ wire' = wire /\ epoch' = epoch /\ Current
        /\ OnTheLine' = OnTheLine
    BY <1>1, <2>1, ArrivalKeepsHand DEF Arriving
  <2>3. Wired(v)' = Wired(v) /\ Wired(u)' = Wired(u)
    BY <2>2 DEF Wired, Rejoins
  <2> QED BY <1>5, <2>2, <2>3
<1>9. CASE Off \/ Priming \/ Rejoined \/ LetsGo
  <2>1. Current /\ w'.tag = w.tag
    BY <1>0, <1>1, <1>9, HandStays
  <2>2. CASE Off \/ Rejoined \/ LetsGo
    <3>1. ~Hand'
      BY <2>2 DEF Off, Rejoined, LetsGo, Hand, Talking, Looping
    <3> QED BY <1>1, <3>1 DEF Current
  <2>3. CASE Priming
    BY <1>0, <1>1, <2>3 DEF Priming, SameSide, Current, Hand, OnLine, Talking, Place, Reaching
  <2> QED BY <1>9, <2>2, <2>3
<1>10. CASE Popping
  <2>1. SUFFICES ASSUME w'.tag.kind = "delta" PROVE Wired(u)'
    BY <1>10 DEF Popping
  <2>2. /\ 1 \in 1..Len(queue) /\ w'.tag = queue[1] /\ Leads(queue, 1)
    <3>1. queue # <<>> /\ w'.tag = Head(queue)
      BY <1>10 DEF Popping
    <3> QED BY <1>0, <3>1 DEF Leads
  <2>3. Ahead(u) /\ ~Hand
    BY <1>0, <1>2, <1>3, <1>10, <2>1, <2>2 DEF Frames, Popping, Hand, Talking
  <2>4. Wired(u)
    BY <2>3 DEF Ahead, Current
  <2> QED BY <1>2, <1>10, <2>4, WiredStays
<1>11. CASE Selecting
  <2>1. SUFFICES ASSUME w'.tag.kind = "delta" PROVE Wired(u)'
    BY <1>11 DEF Selecting
  <2>2. Current /\ w'.tag = w.tag /\ w.pc = "popped"
    BY <1>0, <1>1, <1>11, HandStays DEF Selecting
  <2> QED BY <1>2, <1>5, <1>11, <2>1, <2>2, WiredStays
<1>12. CASE Turning
  <2>1. SUFFICES ASSUME w'.tag.kind = "delta" PROVE Wired(u)'
    BY <1>12 DEF Turning
  <2>2. Current /\ w'.tag = w.tag /\ w.pc = "wrote" /\ w.job = "header"
    BY <1>0, <1>1, <1>12, HandStays DEF Turning
  <2> QED BY <1>2, <1>5, <1>12, <2>1, <2>2, WiredStays
<1>13. CASE Sending
  <2>1. Current /\ w'.tag = w.tag /\ w.pc = "send" /\ w'.job = w.job
    BY <1>0, <1>1, <1>13, HandStays DEF Sending, SameJob
  <2>2. ~(w'.pc = "wrote" /\ w'.job = "tag")
    BY <1>2, <1>13, <2>1 DEF Sending, JobEpoch, Current
  <2>3. SUFFICES ASSUME w'.tag.kind = "delta" PROVE Wired(u)'
    BY <2>2
  <2> QED BY <1>2, <1>5, <1>13, <2>1, <2>3, WiredStays
<1>14. CASE Writing
  <2>1. Current /\ w'.tag = w.tag /\ w.pc = "sending" /\ w'.job = w.job /\ w'.pc = "wrote"
    BY <1>0, <1>1, <1>14, HandStays DEF Writing, SameJob
  <2>2. CASE w.job = "tag"
    BY <1>1, <1>3, <1>14, <2>1, <2>2 DEF Writing, Wired
  <2>3. CASE w.job # "tag"
    <3>1. wire'.video = wire.video /\ epoch' = epoch /\ SameMedia /\ SameSide
      BY <1>14, <2>3 DEF Writing, Still
    <3>2. OnTheLine' => OnTheLine
      BY <2>1, <3>1 DEF OnTheLine, OnLine, SameSide, Talking
    <3>3. Wired(u) => Wired(u)'
      BY <3>1, <3>2 DEF Wired, Rejoins, SameMedia
    <3> QED BY <1>5, <2>1, <2>3, <3>3
  <2> QED BY <2>2, <2>3
<1> QED
  BY <1>0, <1>6, <1>7, <1>8, <1>9, <1>10, <1>11, <1>12, <1>13, <1>14, LineMoves

\* The last frame ahead of the queue stays ahead of it.
LEMMA AheadStays ==
  ASSUME SenderInv, LineInv, Serving, ~stop_requested, NEW v, Ahead(v),
         \/ Off \/ Priming \/ Rejoined \/ LetsGo \/ Selecting \/ Turning
         \/ Sending \/ Writing
  PROVE  Ahead(v)'
<1>0. Typed /\ Place /\ Media /\ InTurn
  BY DEF SenderInv, LineInv
<1>1. epoch' = epoch /\ (Current' => Current /\ w'.tag = w.tag)
  BY <1>0, HandStays
<1>2. CASE Current /\ IsVideo(w.tag)
  <2>1. w.tag.video = v
    BY <1>2 DEF Ahead
  <2>2. CASE Current'
    BY <1>1, <1>2, <2>1, <2>2 DEF Ahead
  <2>3. CASE ~Current'
    <3>1. SUFFICES Wired(v)'
      BY <2>3 DEF Ahead
    <3>2. CASE Off
      BY <3>2 DEF Off, Wired, OnTheLine
    <3>3. CASE Priming \/ Rejoined \/ Selecting \/ Sending \/ Writing
      <4>1. CASE Priming
        BY <1>0, <4>1 DEF Priming, SameSide, Wired, OnTheLine, OnLine, Place,
           Talking, Reaching, Looping
      <4>2. CASE Rejoined
        BY <4>2 DEF Rejoined, Wired, Rejoins
      <4>3. CASE Selecting \/ Sending \/ Writing
        <5>1. Hand' /\ w'.tag = w.tag
          <6>1. CASE Selecting
            BY <1>0, <6>1 DEF Selecting, SameSide, Hand, OnLine, Talking, Looping, Place
          <6>2. CASE Sending
            BY <1>2, <6>2 DEF Sending, SameSide, Current, Hand, OnLine, Talking
          <6>3. CASE Writing
            BY <1>2, <6>3 DEF Writing, SameSide, Current, Hand, OnLine, Talking
          <6> QED BY <4>3, <6>1, <6>2, <6>3
        <5> QED BY <1>1, <1>2, <2>3, <5>1 DEF Current
      <4> QED BY <3>3, <4>1, <4>2, <4>3
    <3>4. CASE Turning
      <4>1. w'.pc = "pop"
        BY <1>1, <1>2, <2>3, <3>4 DEF Turning, SameSide, Current, Hand, OnLine, Talking
      <4>2. ~Joins /\ w'.awaiting
        BY <3>4, <4>1 DEF Turning, Joins
      <4> QED BY <4>2 DEF Wired, Rejoins
    <3>5. CASE LetsGo
      <4>1. w.pc = "wrote" /\ w.job = "tag"
        BY <1>2, <3>5 DEF LetsGo, Current, Hand, Talking
      <4>2. Wired(v)
        BY <1>0, <1>2, <2>1, <4>1 DEF InTurn
      <4> QED BY <3>5, <4>2, WiredStays
    <3> QED BY <3>2, <3>3, <3>4, <3>5
  <2> QED BY <2>2, <2>3
<1>3. CASE ~(Current /\ IsVideo(w.tag))
  <2>1. Wired(v)
    BY <1>3 DEF Ahead
  <2>2. ~(Current' /\ IsVideo(w'.tag))
    BY <1>1, <1>3
  <2>3. Turning => w.tag.kind # "key"
    <3>1. Turning => Current
      BY DEF Turning, Current, Hand, Talking
    <3> QED BY <1>3, <3>1 DEF IsVideo
  <2>4. Wired(v)'
    BY <1>3, <2>1, <2>3, WiredStays
  <2> QED BY <2>2, <2>4 DEF Ahead
<1> QED
  BY <1>2, <1>3

\* A queue that loses its head: the frame popped comes before the next one.
LEMMA TailVideo ==
  ASSUME NEW q \in Seq(Tag), q # <<>>, Coherent(q)
  PROVE  LET t == Tail(q) IN
         /\ Coherent(t)
         /\ \A j \in 1..Len(t) : t[j].kind = "delta" /\ Leads(t, j) =>
              IF IsVideo(q[1]) THEN q[1].video = t[j].video - 1
              ELSE \E i \in 1..Len(q) : t[j] = q[i] /\ Leads(q, i)
         /\ NoVideo(q) => NoVideo(t)
         /\ \A v \in Nat : EndsAt(q, v) =>
              EndsAt(t, v) \/ (NoVideo(t) /\ IsVideo(q[1]) /\ q[1].video = v)
<1>1. PICK t : t = Tail(q)
  OBVIOUS
<1>2. /\ Len(t) = Len(q) - 1 /\ Len(q) \in Nat \ {0} /\ Len(t) \in Nat
      /\ 1 \in 1..Len(q)
      /\ \A i \in 1..Len(t) : i + 1 \in 1..Len(q) /\ t[i] = q[i + 1]
      /\ \A i \in 1..Len(q) : i # 1 => i - 1 \in 1..Len(t) /\ t[i - 1] = q[i]
  <2>1. /\ Len(t) = Len(q) - 1 /\ Len(q) \in Nat \ {0} /\ Len(t) \in Nat
        /\ \A i \in 1..Len(t) : i + 1 \in 1..Len(q) /\ t[i] = q[i + 1]
    BY <1>1
  <2>2. ASSUME NEW i \in 1..Len(q), i # 1
        PROVE  i - 1 \in 1..Len(t) /\ t[i - 1] = q[i]
    <3>1. i - 1 \in 1..Len(t) /\ (i - 1) + 1 = i
      BY <2>1, <2>2
    <3> QED BY <2>1, <3>1
  <2> QED BY <2>1, <2>2
<1>3. \A i \in 1..Len(q) : q[i].video \in Nat
  BY TagsOfSeq
<1>4. Rising(t)
  <2> SUFFICES ASSUME NEW i \in 1..Len(t), NEW j \in 1..Len(t), i < j,
                      IsVideo(t[i]), IsVideo(t[j])
               PROVE  t[i].video < t[j].video
    BY DEF Rising
  <2>1. i + 1 < j + 1 /\ i + 1 \in 1..Len(q) /\ j + 1 \in 1..Len(q)
    BY <1>2
  <2> QED BY <1>2, <2>1 DEF Coherent, Rising
\* The frame before a delta of the tail.
<1>5. ASSUME NEW j \in 1..Len(t), t[j].kind = "delta", ~Leads(q, j + 1)
      PROVE  \/ IsVideo(q[1]) /\ q[1].video = t[j].video - 1
             \/ \E i \in 1..(j - 1) : IsVideo(t[i]) /\ t[i].video = t[j].video - 1
  <2>1. j + 1 \in 1..Len(q) /\ t[j] = q[j + 1] /\ (j + 1) - 1 = j
    BY <1>2
  <2>2. PICK i \in 1..j : IsVideo(q[i]) /\ q[i].video = t[j].video - 1
    BY <1>5, <2>1 DEF Coherent, Linked
  <2>3. CASE i = 1
    BY <2>2, <2>3
  <2>4. CASE i # 1
    <3>1. i \in 1..Len(q) /\ i - 1 \in 1..(j - 1)
      BY <1>2, <2>1, <2>4
    <3> QED BY <1>2, <2>2, <2>4, <3>1
  <2> QED BY <2>3, <2>4
<1>6. Linked(t)
  <2> SUFFICES ASSUME NEW j \in 1..Len(t), t[j].kind = "delta", ~Leads(t, j)
               PROVE  \E i \in 1..(j - 1) : IsVideo(t[i]) /\ t[i].video = t[j].video - 1
    BY DEF Linked
  <2>1. PICK h \in 1..(j - 1) : IsVideo(t[h])
    BY DEF Leads
  <2>2. h \in 1..Len(t) /\ h + 1 \in 1..((j + 1) - 1) /\ h + 1 \in 1..Len(q)
        /\ j + 1 \in 1..Len(q) /\ 1 < h + 1 /\ h + 1 < j + 1 /\ 1 \in 1..Len(q)
    BY <1>2
  <2>3. t[h] = q[h + 1] /\ t[j] = q[j + 1] /\ IsVideo(q[h + 1]) /\ IsVideo(q[j + 1])
    BY <1>2, <2>1, <2>2 DEF IsVideo
  <2>4. ~Leads(q, j + 1)
    BY <2>2, <2>3 DEF Leads
  <2>5. ~(IsVideo(q[1]) /\ q[1].video = t[j].video - 1)
    <3> SUFFICES ASSUME IsVideo(q[1]), q[1].video = t[j].video - 1 PROVE FALSE
      OBVIOUS
    <3>1. q[1].video < q[h + 1].video
      BY <2>2, <2>3 DEF Coherent, Rising
    <3>2. q[h + 1].video < q[j + 1].video
      BY <2>2, <2>3 DEF Coherent, Rising
    <3>3. q[1].video \in Nat /\ q[h + 1].video \in Nat /\ q[j + 1].video \in Nat
      BY <1>3, <2>2
    <3>4. \A a, b, n \in Nat : a < b /\ b < n /\ a = n - 1 => FALSE
      OBVIOUS
    <3> QED BY <2>3, <3>1, <3>2, <3>3, <3>4
  <2> QED BY <1>5, <2>4, <2>5
<1>7. ASSUME NEW j \in 1..Len(t), t[j].kind = "delta", Leads(t, j)
      PROVE  IF IsVideo(q[1]) THEN q[1].video = t[j].video - 1
             ELSE \E i \in 1..Len(q) : t[j] = q[i] /\ Leads(q, i)
  <2>1. CASE IsVideo(q[1])
    <3>1. ~Leads(q, j + 1)
      <4>1. 1 \in 1..((j + 1) - 1)
        BY <1>2
      <4> QED BY <2>1, <4>1 DEF Leads
    <3>2. ~\E i \in 1..(j - 1) : IsVideo(t[i])
      BY <1>7 DEF Leads
    <3> QED BY <1>5, <1>7, <2>1, <3>1, <3>2
  <2>2. CASE ~IsVideo(q[1])
    <3>1. Leads(q, j + 1)
      <4> SUFFICES ASSUME NEW i \in 1..((j + 1) - 1), IsVideo(q[i]) PROVE FALSE
        BY DEF Leads
      <4>1. i \in 1..Len(q) /\ i # 1
        BY <1>2, <2>2
      <4>2. i - 1 \in 1..(j - 1) /\ t[i - 1] = q[i]
        BY <1>2, <4>1
      <4> QED BY <1>7, <4>2 DEF Leads
    <3> QED BY <1>2, <2>2, <3>1
  <2> QED BY <2>1, <2>2
<1>8. NoVideo(q) => NoVideo(t)
  BY <1>2 DEF NoVideo
<1>9. ASSUME NEW v \in Nat, EndsAt(q, v)
      PROVE  EndsAt(t, v) \/ (NoVideo(t) /\ IsVideo(q[1]) /\ q[1].video = v)
  <2>1. PICK i \in 1..Len(q) : IsVideo(q[i]) /\ q[i].video = v
    BY <1>9 DEF EndsAt
  <2>2. \A k \in 1..Len(t) : IsVideo(t[k]) => t[k].video <= v
    BY <1>2, <1>9 DEF EndsAt
  <2>3. CASE i # 1
    <3>1. i - 1 \in 1..Len(t) /\ t[i - 1] = q[i]
      BY <1>2, <2>3
    <3> QED BY <2>1, <2>2, <3>1 DEF EndsAt
  <2>4. CASE i = 1
    <3>1. NoVideo(t)
      <4> SUFFICES ASSUME NEW k \in 1..Len(t), IsVideo(t[k]) PROVE FALSE
        BY DEF NoVideo
      <4>1. k + 1 \in 1..Len(q) /\ 1 < k + 1 /\ t[k] = q[k + 1]
        BY <1>2
      <4>2. q[1].video < q[k + 1].video
        BY <2>1, <2>4, <4>1 DEF Coherent, Rising
      <4>3. q[1].video = v /\ q[k + 1].video \in Nat /\ q[k + 1].video <= v
        BY <1>3, <2>1, <2>2, <2>4, <4>1
      <4> QED BY <4>2, <4>3
    <3> QED BY <2>1, <2>4, <3>1
  <2> QED BY <2>3, <2>4
<1> QED
  BY <1>1, <1>4, <1>6, <1>7, <1>8, <1>9 DEF Coherent

\* The last frame of a queue that a batch has joined.
LEMMA JoinEnds ==
  ASSUME NEW q \in Seq(Tag), NEW r \in Seq(Tag), NEW v \in Nat,
         \A i \in 1..Len(q) : IsVideo(q[i]) => q[i].video <= v
  PROVE  /\ EndsAt(r, v) => EndsAt(q \o r, v)
         /\ EndsAt(q, v) /\ NoVideo(r) => EndsAt(q \o r, v)
         /\ NoVideo(q) /\ NoVideo(r) => NoVideo(q \o r)
<1>1. PICK s : s = q \o r
  OBVIOUS
<1>2. /\ \A i \in 1..Len(q) : i \in 1..Len(s) /\ s[i] = q[i]
      /\ \A k \in 1..Len(r) : Len(q) + k \in 1..Len(s) /\ s[Len(q) + k] = r[k]
      /\ \A j \in 1..Len(s) : \/ j \in 1..Len(q) /\ s[j] = q[j]
                              \/ j - Len(q) \in 1..Len(r) /\ s[j] = r[j - Len(q)]
  BY <1>1
<1>3. EndsAt(r, v) => EndsAt(s, v)
  BY <1>2 DEF EndsAt
<1>4. EndsAt(q, v) /\ NoVideo(r) => EndsAt(s, v)
  BY <1>2 DEF EndsAt, NoVideo
<1>5. NoVideo(q) /\ NoVideo(r) => NoVideo(s)
  BY <1>2 DEF NoVideo
<1> QED
  BY <1>1, <1>3, <1>4, <1>5

\* Frames, from what a step makes of the queue and of the frame ahead of it.
LEMMA FramesFrom ==
  ASSUME Coherent(queue'),
         \A v : (\E j \in 1..Len(queue') :
                   /\ queue'[j].kind = "delta" /\ Leads(queue', j)
                   /\ v = queue'[j].video - 1) => Ahead(v)',
         \A v : v = feed'.videos /\ ~drop_video_until_keyframe' /\ feed'.videos > 0
                    /\ feed'.phase # "failed" =>
                  EndsAt(queue', v) \/ (NoVideo(queue') /\ Ahead(v)')
  PROVE  Frames'
<1>1. Coherent(queue)'
  BY DEF Coherent, Rising, Linked, Leads
<1>2. ASSUME NEW j \in 1..Len(queue'), queue'[j].kind = "delta", Leads(queue', j)
      PROVE  Ahead(queue[j].video - 1)'
  <2>1. PICK v : v = queue'[j].video - 1
    OBVIOUS
  <2>2. Ahead(v)'
    BY <1>2, <2>1
  <2> QED BY <2>1, <2>2 DEF Ahead, Wired
<1>3. ASSUME ~drop_video_until_keyframe', feed'.videos > 0, feed'.phase # "failed"
      PROVE  EndsAt(queue', feed'.videos) \/ (NoVideo(queue') /\ Ahead(feed.videos)')
  <2>1. PICK v : v = feed'.videos
    OBVIOUS
  <2>2. EndsAt(queue', v) \/ (NoVideo(queue') /\ Ahead(v)')
    BY <1>3, <2>1
  <2> QED BY <2>1, <2>2 DEF Ahead, Wired
<1> QED
  BY <1>1, <1>2, <1>3 DEF Frames, Coherent, Rising, Linked, Leads, EndsAt, NoVideo

\* The frames after a pop: the one taken is ahead of the next.
LEMMA FramesPop ==
  ASSUME SenderInv, LineInv, Serving, Popping
  PROVE  Frames'
<1>0. /\ Typed /\ Place /\ EpochTyped /\ HeaderTyped /\ Queued /\ Source /\ Frames
      /\ queue \in Seq(Tag) /\ Len(queue) \in Nat /\ ~stop_requested
      /\ feed.videos \in Nat
  <2>1. /\ Typed /\ Place /\ EpochTyped /\ HeaderTyped /\ Queued /\ Source /\ Frames
    BY DEF SenderInv, LineInv, Typed
  <2> QED BY <2>1, GoodTags DEF Serving, HeaderTyped, Feed
<1>1. /\ queue # <<>> /\ queue' = Tail(queue) /\ w'.tag = queue[1] /\ 1 \in 1..Len(queue)
      /\ UNCHANGED <<feed, epoch, drop_video_until_keyframe>>
  <2>1. queue # <<>> /\ queue' = Tail(queue) /\ w'.tag = Head(queue)
        /\ UNCHANGED <<feed, epoch, drop_video_until_keyframe>>
    BY DEF Popping, Still
  <2> QED BY <1>0, <2>1
<1>2. /\ Coherent(queue)
      /\ \A j \in 1..Len(queue) :
           queue[j].kind = "delta" /\ Leads(queue, j) => Ahead(queue[j].video - 1)
      /\ ~drop_video_until_keyframe /\ feed.videos > 0 /\ feed.phase # "failed" =>
           \/ EndsAt(queue, feed.videos)
           \/ NoVideo(queue) /\ Ahead(feed.videos)
  BY <1>0 DEF Frames
<1>3. ~Current /\ Current' /\ w'.pc = "popped"
  <2>1. w'.pc = "popped" /\ w.pc = "pop"
    BY DEF Popping
  <2>2. w'.tag.epoch = epoch
    BY <1>0, <1>1 DEF Source
  <2> QED BY <1>1, <2>1, <2>2 DEF Current, Hand, Talking
<1>4. PICK q, t : q = queue /\ t = Tail(queue)
  OBVIOUS
<1>5. /\ Coherent(t)
      /\ \A j \in 1..Len(t) : t[j].kind = "delta" /\ Leads(t, j) =>
           IF IsVideo(q[1]) THEN q[1].video = t[j].video - 1
           ELSE \E i \in 1..Len(q) : t[j] = q[i] /\ Leads(q, i)
      /\ NoVideo(q) => NoVideo(t)
      /\ \A v \in Nat : EndsAt(q, v) =>
           EndsAt(t, v) \/ (NoVideo(t) /\ IsVideo(q[1]) /\ q[1].video = v)
  BY <1>0, <1>1, <1>2, <1>4, TailVideo
<1>6. ASSUME NEW v, ~IsVideo(q[1]), Ahead(v) PROVE Ahead(v)'
  <2>1. Wired(v)
    BY <1>3, <1>6 DEF Ahead
  <2>2. Wired(v)'
    BY <1>0, <2>1, WiredStays
  <2> QED BY <1>1, <1>4, <1>6, <2>2 DEF Ahead, IsVideo
<1>7. ASSUME NEW v, IsVideo(q[1]), q[1].video = v PROVE Ahead(v)'
  BY <1>1, <1>3, <1>4, <1>7 DEF Ahead, IsVideo
<1>8. ASSUME NEW v, NEW j \in 1..Len(t), t[j].kind = "delta", Leads(t, j),
             v = t[j].video - 1
      PROVE  Ahead(v)'
  <2>1. CASE IsVideo(q[1])
    BY <1>5, <1>7, <1>8, <2>1
  <2>2. CASE ~IsVideo(q[1])
    <3>1. PICK i \in 1..Len(q) : t[j] = q[i] /\ Leads(q, i)
      BY <1>5, <1>8, <2>2
    <3>2. Ahead(q[i].video - 1)
      BY <1>2, <1>4, <1>8, <3>1
    <3>3. Ahead(v)
      BY <1>8, <3>1, <3>2
    <3> QED BY <1>6, <2>2, <3>3
  <2> QED BY <2>1, <2>2
<1>10. queue' = t /\ feed' = feed /\ drop_video_until_keyframe' = drop_video_until_keyframe
  BY <1>1, <1>4
<1>11. \A v : (\E j \in 1..Len(queue') :
                 /\ queue'[j].kind = "delta" /\ Leads(queue', j)
                 /\ v = queue'[j].video - 1) => Ahead(v)'
  BY <1>8, <1>10
<1>12. \A v : v = feed'.videos /\ ~drop_video_until_keyframe' /\ feed'.videos > 0
                    /\ feed'.phase # "failed" =>
                EndsAt(queue', v) \/ (NoVideo(queue') /\ Ahead(v)')
  <2> SUFFICES ASSUME NEW v, v = feed'.videos, ~drop_video_until_keyframe',
                      feed'.videos > 0, feed'.phase # "failed"
               PROVE  EndsAt(t, v) \/ (NoVideo(t) /\ Ahead(v)')
    BY <1>10
  <2>1. v = feed.videos /\ v \in Nat
    BY <1>0, <1>10
  <2>2. EndsAt(queue, feed.videos) \/ (NoVideo(queue) /\ Ahead(feed.videos))
    BY <1>2, <1>10
  <2>3. CASE EndsAt(queue, feed.videos)
    BY <1>4, <1>5, <1>7, <2>1, <2>3
  <2>4. CASE NoVideo(queue) /\ Ahead(feed.videos)
    <3>1. ~IsVideo(q[1]) /\ NoVideo(t)
      BY <1>1, <1>4, <1>5, <2>4 DEF NoVideo
    <3>2. Ahead(v)
      BY <2>1, <2>4
    <3> QED BY <1>6, <3>1, <3>2
  <2> QED BY <2>2, <2>3, <2>4
<1> QED
  BY <1>5, <1>10, <1>11, <1>12, FramesFrom

\* The frames after any other step of the worker.
LEMMA FramesStay ==
  ASSUME SenderInv, LineInv, Serving,
         \/ Off \/ Priming \/ Rejoined \/ LetsGo \/ Selecting \/ Turning
         \/ Sending \/ Writing
  PROVE  Frames'
<1>0. Frames /\ ~stop_requested
  BY DEF LineInv, Serving
<1>1. feed' = feed
  BY DEF Off, Priming, Rejoined, LetsGo, Selecting, Turning, Sending, Writing, Still
<1>2. ASSUME NEW v, Ahead(v) PROVE Ahead(v)'
  BY <1>0, <1>2, AheadStays
<1>3. CASE UNCHANGED <<queue, drop_video_until_keyframe>>
  <2>1. queue' = queue /\ drop_video_until_keyframe' = drop_video_until_keyframe
    BY <1>3
  <2>2. Coherent(queue')
    BY <1>0, <2>1 DEF Frames
  <2>3. ASSUME NEW v, NEW j \in 1..Len(queue'), queue'[j].kind = "delta",
               Leads(queue', j), v = queue'[j].video - 1
        PROVE  Ahead(v)'
    <3>1. j \in 1..Len(queue) /\ queue[j].kind = "delta" /\ Leads(queue, j)
          /\ v = queue[j].video - 1
      BY <2>1, <2>3
    <3>2. Ahead(queue[j].video - 1)
      BY <1>0, <3>1 DEF Frames
    <3>3. Ahead(v)
      BY <3>1, <3>2
    <3> QED BY <1>2, <3>3
  <2>5. \A v : (\E j \in 1..Len(queue') :
                  /\ queue'[j].kind = "delta" /\ Leads(queue', j)
                  /\ v = queue'[j].video - 1) => Ahead(v)'
    BY <2>3
  <2>6. \A v : v = feed'.videos /\ ~drop_video_until_keyframe' /\ feed'.videos > 0
                    /\ feed'.phase # "failed" =>
                 EndsAt(queue', v) \/ (NoVideo(queue') /\ Ahead(v)')
    <3> SUFFICES ASSUME NEW v, v = feed'.videos, ~drop_video_until_keyframe',
                        feed'.videos > 0, feed'.phase # "failed"
                 PROVE  EndsAt(queue', v) \/ (NoVideo(queue') /\ Ahead(v)')
      OBVIOUS
    <3>1. v = feed.videos /\ ~drop_video_until_keyframe /\ feed.videos > 0
          /\ feed.phase # "failed"
      BY <1>1, <2>1
    <3>2. EndsAt(queue, feed.videos) \/ (NoVideo(queue) /\ Ahead(feed.videos))
      BY <1>0, <3>1 DEF Frames
    <3>3. EndsAt(queue, v) \/ (NoVideo(queue) /\ Ahead(v))
      BY <3>1, <3>2
    <3> QED BY <1>2, <2>1, <3>3
  <2> QED BY <2>2, <2>5, <2>6, FramesFrom
<1>4. CASE Off /\ queue' = <<>>
  <2>1. \A v : Ahead(v)'
    BY <1>4 DEF Off, Ahead, Wired, OnTheLine, Current, Hand, Talking, Looping
  <2>2. Len(queue') = 0
    BY <1>4
  <2>3. NoVideo(queue') /\ Coherent(queue')
    BY <2>2, SilentCoherent DEF NoVideo
  <2>4. \A v : (\E j \in 1..Len(queue') :
                  /\ queue'[j].kind = "delta" /\ Leads(queue', j)
                  /\ v = queue'[j].video - 1) => Ahead(v)'
    BY <2>1
  <2>5. \A v : v = feed'.videos /\ ~drop_video_until_keyframe' /\ feed'.videos > 0
                    /\ feed'.phase # "failed" =>
                 EndsAt(queue', v) \/ (NoVideo(queue') /\ Ahead(v)')
    BY <2>1, <2>3
  <2> QED BY <2>3, <2>4, <2>5, FramesFrom
<1>5. \/ UNCHANGED <<queue, drop_video_until_keyframe>>
      \/ Off /\ queue' = <<>>
  BY DEF Off, Priming, Rejoined, LetsGo, Selecting, Turning, Sending, Writing, Still
<1> QED
  BY <1>3, <1>4, <1>5

\* The frames after a dispatch. Nothing moves in the hand or on the wire: within
\* an epoch what was ahead of the queue stays ahead of it.
LEMMA FramesArrive ==
  ASSUME SenderInv, TicketInv, LineInv, Serving, NEW kinds \in Batches,
         \/ EnqueueDropped(kinds) \/ EnqueueRefused(kinds)
         \/ EnqueuePushed(kinds) \/ EnqueueFull(kinds)
  PROVE  Frames'
<1>0. /\ Typed /\ Place /\ Life /\ Media /\ EpochTyped /\ HeaderTyped /\ Queued
      /\ TicketOrder /\ KeepsNothing /\ Source /\ Frames /\ ~stop_requested /\ ~Doomed
      /\ queue \in Seq(Tag) /\ Len(queue) \in Nat /\ feed.videos \in Nat
  <2>1. /\ Typed /\ Place /\ Life /\ Media /\ EpochTyped /\ HeaderTyped /\ Queued
        /\ TicketOrder /\ KeepsNothing /\ Source /\ Frames /\ ~stop_requested /\ ~Doomed
    BY DEF SenderInv, TicketInv, LineInv, Typed, Serving
  <2> QED BY <2>1, GoodTags DEF HeaderTyped, Feed
<1>1. Arriving(kinds) /\ MayDispatch(kinds) /\ feed.phase # "failed"
  BY ArrivesOnLine DEF Arriving, MayDispatch
<1>2. /\ Coherent(queue)
      /\ \A j \in 1..Len(queue) :
           queue[j].kind = "delta" /\ Leads(queue, j) => Ahead(queue[j].video - 1)
      /\ ~drop_video_until_keyframe /\ feed.videos > 0 =>
           \/ EndsAt(queue, feed.videos)
           \/ NoVideo(queue) /\ Ahead(feed.videos)
  BY <1>0, <1>1 DEF Frames
<1>3. feed.epoch # epoch => Len(queue) = 0 /\ feed.videos = 0
  BY <1>1, NothingAhead
<1>4. ASSUME NEW v, Ahead(v), feed.epoch = epoch PROVE Ahead(v)'
  <2>1. /\ epoch' = epoch /\ w' = w /\ wire' = wire
    BY <1>1, <1>4 DEF Arriving
  <2>2. OnTheLine' = OnTheLine /\ Current' = Current
    BY <1>1, <2>1, ArrivalKeepsHand
  <2> QED BY <1>4, <2>1, <2>2 DEF Ahead, Wired, Rejoins
<1>5. ASSUME NEW v, NEW j \in 1..Len(queue), queue[j].kind = "delta",
             Leads(queue, j), v = queue[j].video - 1
      PROVE  Ahead(v)'
  <2>1. feed.epoch = epoch
    BY <1>0, <1>3
  <2>2. Ahead(queue[j].video - 1)
    BY <1>2, <1>5
  <2>3. Ahead(v)
    BY <1>5, <2>2
  <2> QED BY <1>4, <2>1, <2>3
<1>6. CASE EnqueueDropped(kinds)
  <2>1. /\ queue' = queue /\ w' = w
        /\ state \in {"Starting", "Reconnecting"} /\ ~Resuming
    BY <1>1, <1>6 DEF EnqueueDropped, Dropping, Arriving
  <2>2. queue = <<>> /\ ~OnLine
    <3>1. CASE state = "Starting"
      BY <1>0, <3>1 DEF KeepsNothing, Doomed, OnLine
    <3>2. CASE state = "Reconnecting"
      BY <1>0, <2>1, <3>2 DEF KeepsNothing, Resuming, Life, OnLine
    <3> QED BY <2>1, <3>1, <3>2
  <2>3. ~OnLine' /\ w.pc # "popped"
    BY <1>0, <2>1, <2>2 DEF OnLine, Place, Looping
  <2>4. ASSUME NEW v PROVE Ahead(v)'
    BY <2>1, <2>3 DEF Ahead, Wired, OnTheLine, Current, Hand
  <2>5. Coherent(queue') /\ NoVideo(queue')
    <3>1. Len(queue') = 0
      BY <2>1, <2>2
    <3> QED BY <3>1, SilentCoherent DEF NoVideo
  <2>6. \A v : (\E j \in 1..Len(queue') :
                  /\ queue'[j].kind = "delta" /\ Leads(queue', j)
                  /\ v = queue'[j].video - 1) => Ahead(v)'
    BY <2>4
  <2>7. \A v : v = feed'.videos /\ ~drop_video_until_keyframe' /\ feed'.videos > 0
                 /\ feed'.phase # "failed" =>
                 EndsAt(queue', v) \/ (NoVideo(queue') /\ Ahead(v)')
    BY <2>4, <2>5
  <2> QED BY <2>5, <2>6, <2>7, FramesFrom
<1>7. CASE EnqueueRefused(kinds)
  <2>1. queue' = queue /\ feed'.phase = "failed"
    <3>1. PICK a, b, c : feed' = [feed EXCEPT !.batch = a, !.phase = "failed",
                                    !.videos = b, !.guard = c]
      BY <1>7 DEF EnqueueRefused, Admit
    <3>2. feed'.phase = "failed"
      BY <1>0, <3>1 DEF HeaderTyped, Feed
    <3> QED BY <1>7, <3>2 DEF EnqueueRefused
  <2>2. Coherent(queue')
    BY <1>2, <2>1
  <2>3. \A v : (\E j \in 1..Len(queue') :
                  /\ queue'[j].kind = "delta" /\ Leads(queue', j)
                  /\ v = queue'[j].video - 1) => Ahead(v)'
    BY <1>5, <2>1
  <2>4. \A v : v = feed'.videos /\ ~drop_video_until_keyframe' /\ feed'.videos > 0
                 /\ feed'.phase # "failed" =>
                 EndsAt(queue', v) \/ (NoVideo(queue') /\ Ahead(v)')
    BY <2>1
  <2> QED BY <2>2, <2>3, <2>4, FramesFrom
<1>8. PICK tags, total : tags = Tags(kinds) /\ total = VideosBefore(kinds, Len(kinds))
  OBVIOUS
<1>9. PICK R : R = Relieved(tags)
  OBVIOUS
<1>10. PICK F : F = FirstTry(tags)
  OBVIOUS
<1>11. PICK E : E = Emptied(tags)
  OBVIOUS
<1>12. PICK S : S = SecondTry(tags)
  OBVIOUS
<1>13. /\ Coherent(R.queue) /\ Coherent(F.kept) /\ Coherent(S.kept)
       /\ R.queue = queue \/ NoVideo(R.queue)
       /\ \A k \in 1..Len(F.kept) : F.kept[k].kind = "delta" /\ Leads(F.kept, k) =>
            /\ F.kept[k].video = feed.videos + 1 /\ feed.videos > 0
            /\ R.queue = queue /\ ~Drop0
       /\ \A k \in 1..Len(S.kept) : S.kept[k].kind = "delta" => ~Leads(S.kept, k)
       /\ ~F.drop => \/ EndsAt(F.kept, total)
                     \/ /\ NoVideo(F.kept) /\ total = feed.videos
                        /\ R.queue = queue /\ ~Drop0
       /\ ~S.drop => EndsAt(S.kept, total)
  BY <1>0, <1>1, <1>2, <1>8, <1>9, <1>10, <1>12, SenderConstants, BatchVideo
<1>14. /\ R.queue \in Seq(Tag) /\ F.kept \in Seq(Tag) /\ FromSome(F.kept, tags)
       /\ E.queue \in Seq(Tag) /\ NoVideo(E.queue)
       /\ S.kept \in Seq(Tag) /\ FromSome(S.kept, tags)
  <2>1. TryFacts(feed.batch, tags)
    BY <1>0, <1>8, SenderConstants, EnqueueOrder
  <2> QED BY <1>9, <1>10, <1>11, <1>12, <2>1 DEF TryFacts
<1>15. /\ total \in Nat /\ feed.videos <= total /\ feed'.videos = total
       /\ \A i \in 1..Len(tags) : IsVideo(tags[i]) => tags[i].video > feed.videos
  <2>1. LET tgs == Tags(kinds)
            ttl == VideosBefore(kinds, Len(kinds))
        IN  /\ ttl \in Nat /\ feed.videos <= ttl
            /\ \A i \in 1..Len(tgs) : IsVideo(tgs[i]) => tgs[i].video > feed.videos
    BY <1>0, SenderConstants, TagsVideo
  <2>2. feed'.videos = VideosBefore(kinds, Len(kinds))
    BY <1>1 DEF Arriving
  <2> QED BY <1>8, <2>1, <2>2
\* What is kept of the batch comes after every frame of the feed so far.
<1>16. ASSUME NEW r, FromSome(r, tags), NEW k \in 1..Len(r), IsVideo(r[k])
       PROVE  r[k].video > feed.videos
  BY <1>15, <1>16 DEF FromSome, Same, IsVideo
<1>17. \A i \in 1..Len(R.queue) : IsVideo(R.queue[i]) => R.queue[i].video <= feed.videos
  BY <1>0, <1>13 DEF Source, NoVideo
<1>18. ~Drop0 /\ feed.videos > 0 => ~drop_video_until_keyframe /\ feed.epoch = epoch
  BY <1>0, <1>3 DEF Drop0, NewEpoch
<1>19. CASE EnqueuePushed(kinds)
  <2>1. queue' = R.queue \o F.kept /\ drop_video_until_keyframe' = F.drop
    BY <1>8, <1>9, <1>10, <1>19 DEF EnqueuePushed
  <2>2. PICK q, r \in Seq(Tag), v \in Nat :
          q = R.queue /\ r = F.kept /\ v = feed.videos
    BY <1>0, <1>14
  <2>3. \A i \in 1..Len(r) : IsVideo(r[i]) => r[i].video > v
    BY <1>14, <1>16, <2>2
  <2>4. ASSUME NEW k \in 1..Len(r), r[k].kind = "delta", Leads(r, k)
        PROVE  /\ r[k].video = v + 1
               /\ NoVideo(q) \/ \E i \in 1..Len(q) : IsVideo(q[i]) /\ q[i].video = v
               /\ feed.epoch = epoch /\ (NoVideo(q) => Ahead(v))
    <3>1. r[k].video = v + 1 /\ feed.videos > 0 /\ q = queue /\ ~Drop0
      BY <1>13, <2>2, <2>4
    <3>2. EndsAt(q, v) \/ (NoVideo(q) /\ Ahead(v))
      BY <1>2, <1>18, <2>2, <3>1
    <3>3. EndsAt(q, v) => \E i \in 1..Len(q) : IsVideo(q[i]) /\ q[i].video = v
      BY DEF EndsAt
    <3>4. EndsAt(q, v) => ~NoVideo(q)
      BY DEF EndsAt, NoVideo
    <3> QED BY <1>18, <3>1, <3>2, <3>3, <3>4
  <2>5. /\ Coherent(q \o r)
        /\ \A j \in 1..Len(q \o r) :
             (q \o r)[j].kind = "delta" /\ Leads(q \o r, j) =>
               \/ j \in 1..Len(q) /\ (q \o r)[j] = q[j] /\ Leads(q, j)
               \/ /\ NoVideo(q)
                  /\ \E k \in 1..Len(r) : (q \o r)[j] = r[k] /\ Leads(r, k)
    <3>1. Coherent(q) /\ Coherent(r)
      BY <1>13, <2>2
    <3>2. \A i \in 1..Len(q) : IsVideo(q[i]) => q[i].video <= v
      BY <1>17, <2>2
    <3> QED BY <2>3, <2>4, <3>1, <3>2, VideoJoins
  <2>6. queue' = q \o r
    BY <2>1, <2>2
  <2>7. ASSUME NEW u, NEW j \in 1..Len(queue'), queue'[j].kind = "delta",
               Leads(queue', j), u = queue'[j].video - 1
        PROVE  Ahead(u)'
    <3>1. CASE j \in 1..Len(q) /\ queue'[j] = q[j] /\ Leads(q, j)
      <4>1. q = queue
        BY <1>13, <2>2, <2>7, <3>1 DEF NoVideo, IsVideo
      <4> QED BY <1>5, <2>7, <3>1, <4>1
    <3>2. CASE NoVideo(q) /\ \E k \in 1..Len(r) : queue'[j] = r[k] /\ Leads(r, k)
      <4>1. PICK k \in 1..Len(r) : queue'[j] = r[k] /\ Leads(r, k)
        BY <3>2
      <4>2. r[k].video = v + 1 /\ feed.epoch = epoch /\ Ahead(v)
        BY <2>4, <2>7, <3>2, <4>1
      <4>3. u = v
        BY <2>2, <2>7, <4>1, <4>2
      <4> QED BY <1>4, <4>2, <4>3
    <3> QED BY <2>5, <2>6, <2>7, <3>1, <3>2
  <2>8. ASSUME NEW u, u = feed'.videos, ~drop_video_until_keyframe', feed'.videos > 0
        PROVE  EndsAt(queue', u) \/ (NoVideo(queue') /\ Ahead(u)')
    <3>1. u = total /\ u \in Nat /\ ~F.drop
      BY <1>15, <2>1, <2>8
    <3>2. \A i \in 1..Len(q) : IsVideo(q[i]) => q[i].video <= u
      <4>1. \A i \in 1..Len(q) : q[i].video \in Nat
        BY TagsOfSeq
      <4> QED BY <1>15, <1>17, <2>2, <3>1, <4>1
    <3>3. /\ EndsAt(r, u) => EndsAt(q \o r, u)
          /\ EndsAt(q, u) /\ NoVideo(r) => EndsAt(q \o r, u)
          /\ NoVideo(q) /\ NoVideo(r) => NoVideo(q \o r)
      BY <3>1, <3>2, JoinEnds
    <3>4. CASE EndsAt(F.kept, total)
      BY <2>2, <2>6, <3>1, <3>3, <3>4
    <3>5. CASE NoVideo(F.kept) /\ total = feed.videos /\ R.queue = queue /\ ~Drop0
      <4>1. EndsAt(queue, feed.videos) \/ (NoVideo(queue) /\ Ahead(feed.videos))
        BY <1>2, <1>15, <1>18, <2>8, <3>5
      <4>2. EndsAt(q, u) \/ (NoVideo(q) /\ Ahead(u))
        BY <2>2, <3>1, <3>5, <4>1
      <4>3. NoVideo(r) /\ feed.epoch = epoch
        BY <1>15, <1>18, <2>2, <2>8, <3>5
      <4> QED BY <1>4, <2>6, <3>3, <4>2, <4>3
    <3> QED BY <1>13, <3>1, <3>4, <3>5
  <2>9. Coherent(queue')
    BY <2>5, <2>6
  <2>10. \A u : (\E j \in 1..Len(queue') :
                   /\ queue'[j].kind = "delta" /\ Leads(queue', j)
                   /\ u = queue'[j].video - 1) => Ahead(u)'
    BY <2>7
  <2>11. \A u : u = feed'.videos /\ ~drop_video_until_keyframe' /\ feed'.videos > 0
                  /\ feed'.phase # "failed" =>
                  EndsAt(queue', u) \/ (NoVideo(queue') /\ Ahead(u)')
    BY <2>8
  <2> QED BY <2>9, <2>10, <2>11, FramesFrom
<1>20. CASE EnqueueFull(kinds)
  <2>1. PICK room \in BOOLEAN :
          /\ IF room THEN Accept(kinds) ELSE Admit(kinds, "failed")
          /\ queue' = E.queue \o (IF room THEN S.kept ELSE <<>>)
          /\ drop_video_until_keyframe' = S.drop
    BY <1>8, <1>11, <1>12, <1>20 DEF EnqueueFull
  <2>2. PICK q, r \in Seq(Tag), v \in Nat :
          /\ q = E.queue /\ r = (IF room THEN S.kept ELSE <<>>) /\ v = feed.videos
    <3>1. (IF room THEN S.kept ELSE <<>>) \in Seq(Tag)
      BY <1>14
    <3> QED BY <1>0, <1>14, <3>1
  <2>3. queue' = q \o r
    BY <2>1, <2>2
  <2>4. /\ NoVideo(q) /\ Coherent(q)
        /\ \A i \in 1..Len(q) : IsVideo(q[i]) => q[i].video <= v
    BY <1>14, <2>2, SilentCoherent DEF NoVideo
  <2>5. /\ Coherent(r) /\ \A k \in 1..Len(r) : r[k].kind = "delta" => ~Leads(r, k)
        /\ \A k \in 1..Len(r) : IsVideo(r[k]) => r[k].video > v
    <3>1. CASE room
      BY <1>13, <1>14, <1>16, <2>2, <3>1
    <3>2. CASE ~room
      <4>1. Len(r) = 0
        BY <2>2, <3>2
      <4>2. NoVideo(r)
        BY <4>1 DEF NoVideo
      <4> QED BY <4>1, <4>2, SilentCoherent
    <3> QED BY <3>1, <3>2
  <2>6. /\ Coherent(q \o r)
        /\ \A j \in 1..Len(q \o r) :
             (q \o r)[j].kind = "delta" /\ Leads(q \o r, j) =>
               \/ j \in 1..Len(q) /\ (q \o r)[j] = q[j] /\ Leads(q, j)
               \/ /\ NoVideo(q)
                  /\ \E k \in 1..Len(r) : (q \o r)[j] = r[k] /\ Leads(r, k)
    BY <2>4, <2>5, VideoJoins
  <2>7. \A j \in 1..Len(queue') : ~(queue'[j].kind = "delta" /\ Leads(queue', j))
    <3> SUFFICES ASSUME NEW j \in 1..Len(queue'), queue'[j].kind = "delta",
                        Leads(queue', j)
                 PROVE  FALSE
      OBVIOUS
    <3>1. CASE j \in 1..Len(q) /\ queue'[j] = q[j]
      BY <2>4, <3>1 DEF NoVideo, IsVideo
    <3>2. CASE \E k \in 1..Len(r) : queue'[j] = r[k] /\ Leads(r, k)
      BY <2>5, <3>2
    <3> QED BY <2>3, <2>6, <3>1, <3>2
  <2>8. ASSUME NEW u, u = feed'.videos, ~drop_video_until_keyframe',
               feed'.phase # "failed"
        PROVE  EndsAt(queue', u)
    <3>1. u = total /\ u \in Nat /\ ~S.drop
      BY <1>15, <2>1, <2>8
    <3>2. room
      <4> SUFFICES ASSUME ~room PROVE FALSE
        OBVIOUS
      <4>1. Admit(kinds, "failed")
        BY <2>1
      <4>2. PICK a, b, c : feed' = [feed EXCEPT !.batch = a, !.phase = "failed",
                                      !.videos = b, !.guard = c]
        BY <4>1 DEF Admit
      <4>3. feed'.phase = "failed"
        BY <1>0, <4>2 DEF HeaderTyped, Feed
      <4> QED BY <2>8, <4>3
    <3>3. EndsAt(r, u)
      BY <1>13, <2>2, <3>1, <3>2
    <3>4. \A i \in 1..Len(q) : IsVideo(q[i]) => q[i].video <= u
      BY <2>4 DEF NoVideo
    <3> QED BY <2>3, <3>1, <3>3, <3>4, JoinEnds
  <2>9. Coherent(queue')
    BY <2>3, <2>6
  <2>10. \A u : (\E j \in 1..Len(queue') :
                   /\ queue'[j].kind = "delta" /\ Leads(queue', j)
                   /\ u = queue'[j].video - 1) => Ahead(u)'
    BY <2>7
  <2>11. \A u : u = feed'.videos /\ ~drop_video_until_keyframe' /\ feed'.videos > 0
                  /\ feed'.phase # "failed" =>
                  EndsAt(queue', u) \/ (NoVideo(queue') /\ Ahead(u)')
    BY <2>8
  <2> QED BY <2>9, <2>10, <2>11, FramesFrom
<1> QED
  BY <1>6, <1>7, <1>19, <1>20

\* No frame is missing from the feed to the hand.
LEMMA FramesStep ==
  ASSUME SenderInv, TicketInv, LineInv, [Next]_vars
  PROVE  Frames'
<1>0. Typed /\ Place /\ Media /\ Frames
  BY DEF SenderInv, LineInv
<1>1. SUFFICES ASSUME Serving' PROVE Frames'
  BY DEF Frames
<1>2. Serving /\ ~stop_requested'
  BY <1>1, ServingBefore DEF Serving
<1>3. CASE Idle
  BY <1>0, <1>2, <1>3 DEF Idle, Frames, Ahead, Wired, Rejoins, OnTheLine, OnLine,
     Current, Hand
<1>4. CASE Stops
  BY <1>2, <1>4 DEF Stops
<1>5. CASE InvalidateEpoch
  <2>1. queue' = <<>> /\ feed'.videos = 0
    BY <1>5, EpochOpens DEF SenderInv
  <2>2. Len(queue') = 0
    BY <2>1
  <2>3. Coherent(queue')
    BY <2>2, SilentCoherent DEF NoVideo
  <2>4. \A v : (\E j \in 1..Len(queue') :
                  /\ queue'[j].kind = "delta" /\ Leads(queue', j)
                  /\ v = queue'[j].video - 1) => Ahead(v)'
    BY <2>2
  <2>5. \A v : v = feed'.videos /\ ~drop_video_until_keyframe' /\ feed'.videos > 0
                 /\ feed'.phase # "failed" =>
                 EndsAt(queue', v) \/ (NoVideo(queue') /\ Ahead(v)')
    BY <2>1
  <2> QED BY <2>3, <2>4, <2>5, FramesFrom
<1> QED
  BY <1>0, <1>2, <1>3, <1>4, <1>5, LineMoves, FramesArrive, FramesPop, FramesStay

\* Nothing is on the line at the start.
LEMMA LineStarts ==
  ASSUME Init
  PROVE  LineInv
<1>1. /\ w.pc = "dial" /\ w.boot /\ w.rev = 0 /\ queue = <<>> /\ Len(queue) = 0
      /\ header_revision = 0 /\ primed_revision = 0
      /\ feed.phase = "boundary" /\ feed.videos = 0
  BY DEF Init
<1>2. ~OnLine /\ ~Hand /\ ~Current /\ ~OnTheLine /\ w.pc \notin Talking
  BY <1>1 DEF OnLine, Hand, Current, OnTheLine, Talking, Looping
<1>3. Counted /\ Source /\ Lined /\ Labelled
  <2>1. state = "Starting" /\ ~w.redial
    BY DEF Init
  <2> QED BY <1>1, <1>2, <2>1 DEF Counted, Source, Airing, Lined, Batched, Labelled
<1>4. Revisions /\ Primer
  BY <1>1, <1>2 DEF Revisions, Primer, Talking
<1>5. Frames
  <2>1. NoVideo(queue) /\ Coherent(queue)
    BY <1>1, SilentCoherent DEF NoVideo
  <2> QED BY <1>1, <2>1 DEF Frames
<1>6. InTurn /\ MayJoin /\ OnAirDecodes
  BY <1>1, <1>2 DEF InTurn, MayJoin, OnAirDecodes
<1> QED
  BY <1>3, <1>4, <1>5, <1>6 DEF LineInv

LEMMA LineKept ==
  ASSUME SenderInv, TicketInv, LineInv, [Next]_vars
  PROVE  LineInv'
<1>0. Counted'
  BY CountedStep DEF SenderInv, LineInv, Typed, Counts
<1>1. Source' /\ Lined' /\ Labelled' /\ Revisions' /\ Primer'
  BY SourceStep, LinedStep, LabelledStep, RevisionsStep, PrimerStep
<1>2. Frames' /\ InTurn'
  BY FramesStep, InTurnStep
<1>3. MayJoin' /\ OnAirDecodes'
  BY MayJoinStep, OnAirDecodesStep
<1> QED
  BY <1>0, <1>1, <1>2, <1>3 DEF LineInv

\* connect_and_prime, the loop of run and send_tag, against enqueue_epoch and
\* its shedding: whatever was shed, thinned, rejected, resumed or reconnected,
\* a dependent frame is written only when the frame it depends on was the last
\* one written on this connection and in this epoch, audio only after a
\* keyframe, and both under the codec headers they were produced with.  What may
\* be written under newer headers is a drain guard, on a connection that has
\* published nothing since the sender reconnected.
THEOREM WhatGoesOnAirDecodes == Spec => []OnAirDecodes
<1>1. Init => SenderInv /\ TicketInv /\ LineInv
  BY SenderStarts, TicketsStart, LineStarts
<1>2. SenderInv /\ TicketInv /\ LineInv /\ [Next]_vars =>
        SenderInv' /\ TicketInv' /\ LineInv'
  BY SenderSteps, TicketsKept, LineKept
<1>3. LineInv => OnAirDecodes
  BY DEF LineInv
<1> QED
  BY <1>1, <1>2, <1>3, PTL DEF Spec
=============================================================================
