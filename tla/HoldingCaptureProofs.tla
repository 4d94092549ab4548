------------------------ MODULE HoldingCaptureProofs ------------------------
(***************************************************************************)
(* What the holding feed and the captures that drive it always satisfy, for *)
(* every set of decoding times, payload sizes and limits.                   *)
(*                                                                          *)
(* The feed.  FeedInv says where everything stands between two calls: what  *)
(* waits is in the order of its encoder, at or after the cutoff and the     *)
(* tail (Waiting); nothing to come may be before the tail, since a drain    *)
(* stops at the slower encoder's newest packet (Opening); the keyframe that *)
(* opened the gate is the first to leave (Opening, Gate); the two cached    *)
(* limits are those of packets that wait (Spans).  Every call of the two    *)
(* encoders and of the worker keeps it.  The hard step is take_packets: the *)
(* sort is described by ranks, so the lemmas show first that each place has *)
(* one packet (RanksArePlaces, SortArranges), that the packets at or before *)
(* the watermark are an initial part of the sorted queue (InitialPart), and *)
(* that the bytes of a queue, counted one by one, are those of its two      *)
(* parts (BytesOfSorted, BytesCut).                                         *)
(*                                                                          *)
(* The capture.  Its steps are calls of the feed (CaptureUsesFeed), so all  *)
(* that holds of the feed holds under the owner, the monitor and the two    *)
(* encoders.  CaptureInv adds where each thread may be: the backend         *)
(* captures, and callbacks run, only between its start and the end of a     *)
(* stop; the monitor runs only between its start and its join; a capture    *)
(* that is taken down has a feed that no longer listens (Down), which is    *)
(* why a stop never looks like a failure.                                   *)
(***************************************************************************)
EXTENDS HoldingCapture, SequenceTheorems, FiniteSetTheorems,
        NaturalsInduction, WellFoundedInduction, TLAPS

-----------------------------------------------------------------------------
(* Natural numbers.                                                        *)

\* Every non-empty set of natural numbers has a least element.
LEMMA NatMinimum ==
  ASSUME NEW S, S \subseteq Nat, S # {}
  PROVE  \E n \in S : \A m \in S : n <= m
<1>1. IsWellFoundedOn(OpToRel(<, Nat), Nat)
  BY NatLessThanWellFounded, Zenon
<1>2. PICK n \in S : \A m \in S : <<m, n>> \notin OpToRel(<, Nat)
  BY <1>1, WFMin, Zenon
<1>3. \A m \in S : ~(m < n)
  BY <1>2 DEF OpToRel
<1> QED
  BY <1>3

\* A non-empty set of positions has a last one.
LEMMA IntervalMaximum ==
  ASSUME NEW N \in Nat, NEW S, S \subseteq 1..N, S # {}
  PROVE  \E n \in S : \A m \in S : m <= n
<1> DEFINE T == {N - i : i \in S}
<1>1. T \subseteq Nat /\ T # {}
  <2>1. \A i \in S : N - i \in Nat
    OBVIOUS
  <2>2. PICK i \in S : TRUE
    OBVIOUS
  <2>3. N - i \in T
    OBVIOUS
  <2> QED BY <2>1, <2>3
<1>2. PICK k \in T : \A m \in T : k <= m
  BY <1>1, NatMinimum
<1>3. PICK n \in S : k = N - n
  OBVIOUS
<1>4. \A m \in S : N - n <= N - m
  BY <1>2, <1>3
<1> QED
  BY <1>4

\* A set of natural numbers that holds 0 and is closed under successor.
LEMMA NatSetInduction ==
  ASSUME NEW S, 0 \in S, \A n \in Nat : n \in S => n + 1 \in S
  PROVE  \A n \in Nat : n \in S
<1> DEFINE T == Nat \ S
<1>1. SUFFICES ASSUME T # {} PROVE FALSE
  OBVIOUS
<1>2. PICK n \in T : \A m \in T : n <= m
  BY <1>1, NatMinimum
<1>3. n # 0 /\ n - 1 \in Nat
  BY <1>2
<1>4. n - 1 \in S
  BY <1>2, <1>3
<1> QED
  BY <1>3, <1>4


-----------------------------------------------------------------------------
(* The feed.                                                                *)

Active == state \in {"Starting", "Ready"}
Typed ==
  /\ FeedTypeOK
  /\ queued_bytes = BytesOf(packets)

\* Before the keyframe nothing is kept; after it each encoder stands at its
\* newest packet, at or behind the cutoff.
Gate ==
  /\ ~keyframe => /\ packets = <<>> /\ tail = None /\ ~audio
                  /\ \A k \in Kinds : last[k] = None
  /\ keyframe <=> last["video"] # None
  /\ audio <=> last["audio"] # None
  /\ \A k \in Kinds : last[k] # None => video_cutoff <= last[k]
  /\ state = "Ready" => keyframe /\ audio

\* What waits is in the order of its encoder, up to the newest, and not before
\* the cutoff or what was drained.
Waiting ==
  /\ \A i \in DOMAIN packets :
       /\ video_cutoff <= packets[i].dts
       /\ last[packets[i].kind] # None /\ packets[i].dts <= last[packets[i].kind]
       /\ tail # None => tail <= packets[i].dts
  /\ \A i, j \in DOMAIN packets :
       i < j /\ packets[i].kind = packets[j].kind => packets[i].dts <= packets[j].dts

\* The keyframe is the first to leave, and nothing that comes is before the tail.
Opening ==
  /\ keyframe /\ tail = None =>
       /\ packets # <<>> /\ packets[1].keyframe
       /\ packets[1].dts = video_cutoff
  /\ tail # None => \A k \in Kinds : last[k] # None /\ tail <= last[k]

\* The cached limits of the window are those of what waits.
Spans ==
  /\ packets = <<>> => minimum = None /\ maximum = None
  /\ packets # <<>> =>
       /\ minimum # None /\ maximum # None /\ maximum - minimum <= QueueDuration
       /\ \E i \in DOMAIN packets : packets[i].dts = minimum
       /\ \E i \in DOMAIN packets : packets[i].dts = maximum
       /\ \A i \in DOMAIN packets : minimum <= packets[i].dts /\ packets[i].dts <= maximum

FeedInv == Typed /\ (Active => Gate /\ Waiting /\ Opening /\ Spans)

-----------------------------------------------------------------------------
(* The capture.                                                             *)

\* A thread that is in a callback brings a packet.
CaptureTypes ==
  /\ pc \in {"idle", "preparing", "spawn", "starting", "opened", "check",
             "cleaning", "joining", "quiescing"}
  /\ prepared \in BOOLEAN /\ started \in BOOLEAN
  /\ cancel \in BOOLEAN /\ capturing \in BOOLEAN
  /\ monitor \in {"none", "waiting", "looking", "ended"}
  /\ observed \subseteq Kinds /\ rounds \in 0..MaxRounds
  /\ callback \in [Kinds -> {"out", "observe", "headers", "ingest"}]
  /\ held \in [Kinds -> Packets \cup {None}]
  /\ \A k \in Kinds : held[k] = None <=> callback[k] = "out"

\* While a capture may deliver, and while its monitor may run.
Captures == pc \in {"opened", "check", "cleaning", "joining"} \/ (pc = "idle" /\ started)
Watching == pc = "starting" \/ Captures
Threads ==
  /\ capturing => Captures
  /\ \A k \in Kinds : callback[k] # "out" => Captures \/ pc = "quiescing"
  /\ monitor # "none" => Watching
  /\ pc \in {"preparing", "spawn", "starting"} => ~started

\* A capture that is taken down no longer listens.
Down == pc \in {"cleaning", "joining", "quiescing"} => Latched

CaptureInv == CaptureTypes /\ Threads /\ Down

-----------------------------------------------------------------------------
(* The stable sort.                                                         *)

LEMMA PacketFields ==
  ASSUME FeedConstants, NEW p \in Packets
  PROVE  /\ p.kind \in Kinds /\ p.dts \in Dts /\ p.dts \in Nat /\ p.dts # None
         /\ p.size \in Nat /\ p.size > 0
         /\ p.keyframe \in BOOLEAN /\ (p.keyframe => p.kind = "video")
<1>1. /\ p.kind \in {"video", "audio"} /\ p.dts \in Dts /\ p.size \in Sizes
      /\ p.keyframe \in BOOLEAN /\ (p.keyframe => p.kind = "video")
  BY DEF Packets
<1>2. p.dts \in Nat /\ p.dts # None
  BY <1>1 DEF FeedConstants
<1>3. p.size \in Nat /\ p.size # 0
  BY <1>1 DEF FeedConstants
<1> QED
  BY <1>1, <1>2, <1>3 DEF Kinds

LEMMA PacketsOfSeq ==
  ASSUME FeedConstants, NEW s \in Seq(Packets)
  PROVE  /\ DOMAIN s = 1..Len(s) /\ Len(s) \in Nat
         /\ \A i \in 1..Len(s) :
              /\ s[i] \in Packets /\ s[i].kind \in Kinds /\ s[i].dts \in Dts
              /\ s[i].dts \in Nat /\ s[i].size \in Nat /\ s[i].size > 0
              /\ s[i].keyframe \in BOOLEAN /\ (s[i].keyframe => s[i].kind = "video")
<1>1. DOMAIN s = 1..Len(s) /\ Len(s) \in Nat /\ \A i \in 1..Len(s) : s[i] \in Packets
  OBVIOUS
<1> QED
  BY <1>1, PacketFields

LEMMA EmptyOrNot ==
  ASSUME NEW S, NEW q \in Seq(S)
  PROVE  q = <<>> <=> Len(q) = 0
OBVIOUS

LEMMA PrecedesIsTotal ==
  ASSUME FeedConstants, packets \in Seq(Packets)
  PROVE  /\ \A i \in DOMAIN packets : ~Precedes(i, i)
         /\ \A i, j \in DOMAIN packets : i # j => Precedes(i, j) \/ Precedes(j, i)
         /\ \A i, j, k \in DOMAIN packets :
              Precedes(i, j) /\ Precedes(j, k) => Precedes(i, k)
<1>1. /\ DOMAIN packets = 1..Len(packets) /\ Len(packets) \in Nat
      /\ \A i \in 1..Len(packets) : packets[i].dts \in Nat /\ packets[i].kind \in {"video", "audio"}
  BY PacketsOfSeq DEF Kinds
<1>2. ASSUME NEW i \in DOMAIN packets PROVE ~Precedes(i, i)
  BY <1>1, <1>2 DEF Precedes
<1>3. ASSUME NEW i \in DOMAIN packets, NEW j \in DOMAIN packets, i # j
      PROVE  Precedes(i, j) \/ Precedes(j, i)
  BY <1>1, <1>3 DEF Precedes
<1>4. ASSUME NEW i \in DOMAIN packets, NEW j \in DOMAIN packets, NEW k \in DOMAIN packets,
             Precedes(i, j), Precedes(j, k)
      PROVE  Precedes(i, k)
  BY <1>1, <1>4 DEF Precedes
<1> QED
  BY <1>2, <1>3, <1>4

\* The rank of a packet is its place in the order, and every place is taken.
LEMMA RanksArePlaces ==
  ASSUME FeedConstants, packets \in Seq(Packets)
  PROVE  /\ \A i \in DOMAIN packets : RankOf(i) \in DOMAIN packets
         /\ \A i, j \in DOMAIN packets : Precedes(i, j) <=> RankOf(i) < RankOf(j)
         /\ \A i, j \in DOMAIN packets : RankOf(i) = RankOf(j) => i = j
         /\ \A r \in DOMAIN packets : \E i \in DOMAIN packets : RankOf(i) = r
<1> DEFINE D == DOMAIN packets
           Before(i) == {j \in D : Precedes(j, i)}
<1>1. D = 1..Len(packets) /\ Len(packets) \in Nat
  BY PacketsOfSeq
<1>2. IsFiniteSet(D) /\ Cardinality(D) = Len(packets)
  <2>1. PICK n \in Nat : n = Len(packets)
    BY <1>1
  <2>2. IsFiniteSet(1..n) /\ Cardinality(1..n) = IF 1 > n THEN 0 ELSE n - 1 + 1
    BY FS_Interval
  <2> QED BY <1>1, <2>1, <2>2
<1>3. ASSUME NEW i \in D PROVE /\ IsFiniteSet(Before(i)) /\ Cardinality(Before(i)) \in Nat
                               /\ Cardinality(Before(i)) < Len(packets)
  <2>1. Before(i) \in SUBSET D /\ i \notin Before(i)
    BY PrecedesIsTotal
  <2>2. /\ IsFiniteSet(Before(i)) /\ Cardinality(Before(i)) <= Cardinality(D)
        /\ (Cardinality(D) = Cardinality(Before(i)) => D = Before(i))
    BY <1>2, <2>1, FS_Subset
  <2>3. Cardinality(Before(i)) \in Nat
    BY <2>2, FS_CardinalityType
  <2> QED BY <1>1, <1>2, <2>1, <2>2, <2>3
<1>4. \A i \in D : RankOf(i) = Cardinality(Before(i)) + 1
  BY DEF RankOf
<1>5. \A i \in D : RankOf(i) \in D
  <2>1. SUFFICES ASSUME NEW i \in D PROVE RankOf(i) \in 1..Len(packets)
    BY <1>1
  <2>2. PICK c \in Nat : c = Cardinality(Before(i))
    BY <1>3
  <2>3. RankOf(i) = c + 1 /\ c < Len(packets)
    BY <1>3, <1>4, <2>2
  <2> QED BY <1>1, <2>3
<1>6. ASSUME NEW i \in D, NEW j \in D, Precedes(i, j) PROVE RankOf(i) < RankOf(j)
  <2>1. Before(i) \in SUBSET Before(j) /\ i \in Before(j) /\ i \notin Before(i)
    BY <1>6, PrecedesIsTotal
  <2>2. IsFiniteSet(Before(j))
    BY <1>3
  <2>3. Cardinality(Before(i)) <= Cardinality(Before(j)) /\
        (Cardinality(Before(j)) = Cardinality(Before(i)) => Before(j) = Before(i))
    BY <2>1, <2>2, FS_Subset
  <2>4. Cardinality(Before(i)) \in Nat /\ Cardinality(Before(j)) \in Nat
    BY <1>3
  <2>5. Cardinality(Before(i)) # Cardinality(Before(j))
    BY <2>1, <2>3
  <2> QED BY <1>4, <2>3, <2>4, <2>5
<1>7. \A i \in D : RankOf(i) \in Nat
  BY <1>1, <1>5
<1>8. \A i, j \in D : Precedes(i, j) <=> RankOf(i) < RankOf(j)
  <2>1. SUFFICES ASSUME NEW i \in D, NEW j \in D, RankOf(i) < RankOf(j) PROVE Precedes(i, j)
    BY <1>6
  <2>2. i # j /\ ~Precedes(j, i)
    <3>1. RankOf(i) \in Nat /\ RankOf(j) \in Nat
      BY <1>7
    <3>2. Precedes(j, i) => RankOf(j) < RankOf(i)
      BY <1>6
    <3> QED BY <2>1, <3>1, <3>2
  <2> QED BY <2>2, PrecedesIsTotal
<1>9. \A i, j \in D : RankOf(i) = RankOf(j) => i = j
  <2>1. SUFFICES ASSUME NEW i \in D, NEW j \in D, RankOf(i) = RankOf(j), i # j PROVE FALSE
    OBVIOUS
  <2>2. RankOf(i) < RankOf(j) \/ RankOf(j) < RankOf(i)
    BY <1>6, <2>1, PrecedesIsTotal
  <2>3. RankOf(i) \in Nat /\ RankOf(j) \in Nat
    BY <1>7
  <2> QED BY <2>1, <2>2, <2>3
<1>10. PICK f : f = [i \in D |-> RankOf(i)]
  OBVIOUS
<1>11. f \in [D -> D] /\ \A i \in D : f[i] = RankOf(i)
  BY <1>5, <1>10
<1>12. f \in Injection(D, D)
  BY <1>9, <1>11 DEF Injection, IsInjective
<1>13. f \in Surjection(D, D)
  BY <1>2, <1>12, FS_Injection
<1>14. \A r \in D : \E i \in D : RankOf(i) = r
  BY <1>11, <1>13 DEF Surjection
<1> QED
  BY <1>5, <1>8, <1>9, <1>14

\* The sorted packets: at says where each of them was.
Arranged(at) ==
  /\ at \in [DOMAIN packets -> DOMAIN packets]
  /\ Sorted = [r \in DOMAIN packets |-> packets[at[r]]]
  /\ \A r \in DOMAIN packets : RankOf(at[r]) = r
  /\ \A i \in DOMAIN packets : RankOf(i) \in DOMAIN packets /\ at[RankOf(i)] = i
  /\ \A r, s \in DOMAIN packets : r < s => Precedes(at[r], at[s])
LEMMA SortArranges ==
  ASSUME FeedConstants, packets \in Seq(Packets)
  PROVE  \E at : Arranged(at)
<1> DEFINE D == DOMAIN packets
<1>1. PICK at : at = [r \in D |-> CHOOSE i \in D : RankOf(i) = r]
  OBVIOUS
<1>2. \A r \in D : at[r] \in D /\ RankOf(at[r]) = r
  <2>1. SUFFICES ASSUME NEW r \in D PROVE at[r] \in D /\ RankOf(at[r]) = r
    OBVIOUS
  <2>2. at[r] = CHOOSE i \in D : RankOf(i) = r
    BY <1>1
  <2>3. \E i \in D : RankOf(i) = r
    BY RanksArePlaces
  <2> QED BY <2>2, <2>3
<1>3. at \in [D -> D]
  BY <1>1, <1>2
<1>4. Sorted = [r \in D |-> packets[at[r]]]
  BY <1>1 DEF Sorted
<1>5. \A i \in D : RankOf(i) \in D /\ at[RankOf(i)] = i
  BY <1>2, RanksArePlaces
<1>6. \A r, s \in D : r < s => Precedes(at[r], at[s])
  BY <1>2, RanksArePlaces
<1> QED
  BY <1>2, <1>3, <1>4, <1>5, <1>6 DEF Arranged

-----------------------------------------------------------------------------
(* The bytes of a sequence of packets.                                      *)

LEMMA BytesAre ==
  ASSUME NEW s
  PROVE  \A x : x \in Bytes(s) <=>
           \E i \in DOMAIN s, b \in Nat : b \in 1..s[i].size /\ x = <<i, b>>
<1>1. \A x : x \in Bytes(s) <=> \E i \in DOMAIN s : x \in {i} \X (1..s[i].size)
  BY DEF Bytes
<1>2. ASSUME NEW i \in DOMAIN s, NEW x
      PROVE  x \in {i} \X (1..s[i].size) <=> \E b \in Nat : b \in 1..s[i].size /\ x = <<i, b>>
  <2>1. \A b \in 1..s[i].size : b \in Nat
    OBVIOUS
  <2> QED BY <2>1
<1> QED
  BY <1>1, <1>2

\* The bytes of one packet.
LEMMA OnePacket ==
  ASSUME NEW i, NEW m \in Nat
  PROVE  IsFiniteSet({i} \X (1..m)) /\ Cardinality({i} \X (1..m)) = m
<1>1. IsFiniteSet(1..m) /\ Cardinality(1..m) = m
  <2>1. IsFiniteSet(1..m) /\ Cardinality(1..m) = IF 1 > m THEN 0 ELSE m - 1 + 1
    BY FS_Interval
  <2> QED BY <2>1
<1>2. IsFiniteSet({i}) /\ Cardinality({i}) = 1
  BY FS_Singleton, Zenon
<1>3. /\ IsFiniteSet({i} \X (1..m))
      /\ Cardinality({i} \X (1..m)) = Cardinality({i}) * Cardinality(1..m)
  BY <1>1, <1>2, FS_Product, Zenon
<1> QED
  BY <1>1, <1>2, <1>3

LEMMA BytesAreFinite ==
  ASSUME FeedConstants, NEW s \in Seq(Packets)
  PROVE  IsFiniteSet(Bytes(s)) /\ BytesOf(s) \in Nat
<1>1. DOMAIN s = 1..Len(s) /\ Len(s) \in Nat /\ \A i \in 1..Len(s) : s[i].size \in Nat
  BY PacketsOfSeq
<1> DEFINE Part(i) == {i} \X (1..s[i].size)
<1>2. ASSUME NEW i \in 1..Len(s) PROVE IsFiniteSet(Part(i))
  <2>1. PICK n \in Nat : n = s[i].size
    BY <1>1
  <2> QED BY <2>1, OnePacket
<1>3. DEFINE X(n) == UNION {Part(i) : i \in 1..n}
             S == {n \in Nat : n <= Len(s) => IsFiniteSet(X(n))}
<1>4. 0 \in S
  <2>1. X(0) = {}
    OBVIOUS
  <2> QED BY <2>1, FS_EmptySet
<1>5. ASSUME NEW n \in Nat, n \in S PROVE n + 1 \in S
  <2>1. SUFFICES ASSUME n + 1 <= Len(s) PROVE IsFiniteSet(X(n + 1))
    OBVIOUS
  <2>2. IsFiniteSet(X(n)) /\ IsFiniteSet(Part(n + 1))
    BY <1>1, <1>2, <1>5, <2>1
  <2>3. 1..(n + 1) = 1..n \cup {n + 1}
    OBVIOUS
  <2>4. X(n + 1) = X(n) \cup Part(n + 1)
    BY <2>3
  <2>5. IsFiniteSet(X(n) \cup Part(n + 1))
    <3> HIDE DEF X, Part
    <3> QED BY <2>2, FS_Union
  <2> QED BY <2>4, <2>5
<1>6. \A n \in Nat : n \in S
  <2> HIDE DEF S
  <2> QED BY <1>4, <1>5, NatSetInduction
<1>7. IsFiniteSet(X(Len(s)))
  BY <1>1, <1>6
<1>8. Bytes(s) = X(Len(s))
  BY <1>1 DEF Bytes
<1> QED
  BY <1>7, <1>8, FS_CardinalityType DEF BytesOf

LEMMA NoBytes ==
  BytesOf(<<>>) = 0
<1>1. Bytes(<<>>) = {}
  BY DEF Bytes
<1> QED
  BY <1>1, FS_EmptySet DEF BytesOf

\* A packet more, its bytes more.
LEMMA BytesAdd ==
  ASSUME FeedConstants, NEW s \in Seq(Packets), NEW p \in Packets
  PROVE  BytesOf(Append(s, p)) = BytesOf(s) + p.size
<1>1. PICK t \in Seq(Packets) : t = Append(s, p)
  BY AppendProperties
<1>2. PICK n, m : n = Len(s) + 1 /\ m = p.size
  OBVIOUS
<1>a. n \in Nat /\ n > 0 /\ m \in Nat
  <2>1. Len(s) \in Nat
    OBVIOUS
  <2>2. t[Len(s) + 1] = p /\ Len(s) + 1 \in 1..Len(t)
    BY <1>1
  <2>3. p.size \in Nat
    BY <1>1, <2>2, PacketsOfSeq
  <2> QED BY <1>2, <2>1, <2>3
<1>3. /\ DOMAIN s = 1..(n - 1) /\ DOMAIN t = 1..n
      /\ t[n] = p /\ \A i \in 1..(n - 1) : t[i] = s[i]
  <2>1. Len(s) \in Nat /\ n - 1 = Len(s)
    BY <1>2, <1>a
  <2> QED BY <1>1, <1>2, <2>1
<1>4. Bytes(t) = Bytes(s) \cup ({n} \X (1..m))
  <2>1. 1..n = 1..(n - 1) \cup {n}
    BY <1>a
  <2>2. \A x : x \in Bytes(t) <=>
          \/ \E i \in 1..(n - 1), b \in Nat : b \in 1..s[i].size /\ x = <<i, b>>
          \/ \E b \in Nat : b \in 1..m /\ x = <<n, b>>
    BY <1>2, <1>3, <2>1, BytesAre
  <2>3. \A x : x \in Bytes(s) <=>
          \E i \in 1..(n - 1), b \in Nat : b \in 1..s[i].size /\ x = <<i, b>>
    <3>1. \A x : x \in Bytes(s) <=>
            \E i \in DOMAIN s, b \in Nat : b \in 1..s[i].size /\ x = <<i, b>>
      BY BytesAre
    <3> QED BY <1>3, <3>1
  <2>4. \A x : x \in {n} \X (1..m) <=> \E b \in Nat : b \in 1..m /\ x = <<n, b>>
    <3>1. \A b \in 1..m : b \in Nat
      OBVIOUS
    <3> QED BY <3>1
  <2> QED BY <2>2, <2>3, <2>4, Zenon
<1>5. Bytes(s) \cap ({n} \X (1..m)) = {}
  <2>1. \A x \in Bytes(s) : x[1] \in 1..(n - 1)
    <3>1. \A x \in Bytes(s) : x[1] \in DOMAIN s
      BY BytesAre
    <3> QED BY <1>3, <3>1
  <2>2. \A x \in {n} \X (1..m) : x[1] = n
    OBVIOUS
  <2>3. n \notin 1..(n - 1)
    BY <1>a
  <2> QED BY <2>1, <2>2, <2>3
<1>6. IsFiniteSet({n} \X (1..m)) /\ Cardinality({n} \X (1..m)) = m
  BY <1>a, OnePacket
<1>7. IsFiniteSet(Bytes(s)) /\ BytesOf(s) \in Nat
  BY BytesAreFinite
<1>8. PICK S, T : S = Bytes(s) /\ T = {n} \X (1..m)
  OBVIOUS
<1>9. /\ IsFiniteSet(S) /\ IsFiniteSet(T) /\ S \cap T = {} /\ Bytes(t) = S \cup T
      /\ Cardinality(T) = m
  BY <1>4, <1>5, <1>6, <1>7, <1>8
<1>10. Cardinality(S \cup T) = Cardinality(S) + Cardinality(T) - Cardinality(S \cap T)
  BY <1>9, FS_Union
<1>11. Cardinality(S \cap T) = 0 /\ Cardinality(S) \in Nat
  BY <1>9, FS_EmptySet, FS_CardinalityType
<1> QED
  BY <1>1, <1>2, <1>a, <1>8, <1>9, <1>10, <1>11 DEF BytesOf

\* As many bytes as those of a sequence with the same packets in another order.
LEMMA BytesOfSorted ==
  ASSUME FeedConstants, packets \in Seq(Packets)
  PROVE  BytesOf(Sorted) = BytesOf(packets)
<1>1. PICK at : Arranged(at)
  BY SortArranges
<1> DEFINE D == DOMAIN packets
<1>2. DOMAIN Sorted = D /\ \A r \in D : at[r] \in D /\ Sorted[r] = packets[at[r]]
  BY <1>1 DEF Arranged
<1>3. PICK f : f = [x \in Bytes(Sorted) |-> <<at[x[1]], x[2]>>]
  OBVIOUS
<1>4. \A x : x \in Bytes(Sorted) <=>
             \E r \in D, b \in Nat : b \in 1..packets[at[r]].size /\ x = <<r, b>>
  BY <1>2, BytesAre
<1>5. \A x : x \in Bytes(packets) <=>
             \E i \in D, b \in Nat : b \in 1..packets[i].size /\ x = <<i, b>>
  BY BytesAre
<1>6. f \in [Bytes(Sorted) -> Bytes(packets)]
  <2>1. ASSUME NEW x \in Bytes(Sorted) PROVE <<at[x[1]], x[2]>> \in Bytes(packets)
    <3>1. PICK r \in D, b \in Nat : b \in 1..packets[at[r]].size /\ x = <<r, b>>
      BY <1>4
    <3>2. at[r] \in D
      BY <1>2
    <3> QED BY <1>5, <3>1, <3>2
  <2> QED BY <1>3, <2>1
<1>7. \A x, y \in Bytes(Sorted) : f[x] = f[y] => x = y
  <2>1. SUFFICES ASSUME NEW x \in Bytes(Sorted), NEW y \in Bytes(Sorted), f[x] = f[y]
                 PROVE  x = y
    OBVIOUS
  <2>2. PICK r \in D, b \in Nat : b \in 1..packets[at[r]].size /\ x = <<r, b>>
    BY <1>4
  <2>3. PICK q \in D, c \in Nat : c \in 1..packets[at[q]].size /\ y = <<q, c>>
    BY <1>4
  <2>4. at[r] = at[q] /\ b = c
    BY <1>3, <2>1, <2>2, <2>3
  <2>5. r = q
    BY <1>1, <2>4 DEF Arranged
  <2> QED BY <2>2, <2>3, <2>4, <2>5
<1>8. \A y \in Bytes(packets) : \E x \in Bytes(Sorted) : f[x] = y
  <2>1. SUFFICES ASSUME NEW y \in Bytes(packets) PROVE \E x \in Bytes(Sorted) : f[x] = y
    OBVIOUS
  <2>2. PICK i \in D, b \in Nat : b \in 1..packets[i].size /\ y = <<i, b>>
    BY <1>5
  <2>3. PICK r \in D : at[r] = i
    BY <1>1 DEF Arranged
  <2>4. <<r, b>> \in Bytes(Sorted)
    BY <1>4, <2>2, <2>3
  <2>5. f[<<r, b>>] = <<at[r], b>>
    BY <1>3, <2>4
  <2> QED BY <2>2, <2>3, <2>4, <2>5
<1>9. f \in Bijection(Bytes(Sorted), Bytes(packets))
  BY <1>6, <1>7, <1>8 DEF Bijection, Injection, Surjection, IsInjective
<1>10. Sorted \in Seq(Packets)
  <2>1. D = 1..Len(packets) /\ Len(packets) \in Nat /\ \A i \in D : packets[i] \in Packets
    BY PacketsOfSeq
  <2>2. Sorted \in [1..Len(packets) -> Packets]
    BY <1>1, <2>1 DEF Arranged
  <2> QED BY <2>1, <2>2
<1>11. IsFiniteSet(Bytes(Sorted))
  BY <1>10, BytesAreFinite
<1> QED
  BY <1>9, <1>11, FS_Bijection DEF ExistsBijection, BytesOf

\* Cut in two, nothing is lost.
LEMMA BytesCut ==
  ASSUME FeedConstants, NEW s \in Seq(Packets), NEW m \in 0..Len(s)
  PROVE  BytesOf(SubSeq(s, 1, m)) + BytesOf(SubSeq(s, m + 1, Len(s))) = BytesOf(s)
<1>1. PICK n \in Nat : n = Len(s)
  OBVIOUS
<1>a. n \in Nat /\ m \in Nat /\ m <= n
  BY <1>1
<1>2. PICK u, v : u = SubSeq(s, 1, m) /\ v = SubSeq(s, m + 1, n)
  OBVIOUS
<1>b. u \in Seq(Packets) /\ v \in Seq(Packets)
  BY <1>1, <1>a, <1>2
<1>3. /\ m \in Nat /\ m <= n
      /\ DOMAIN s = 1..n /\ DOMAIN u = 1..m /\ DOMAIN v = 1..(n - m)
      /\ \A i \in 1..m : u[i] = s[i]
      /\ \A i \in 1..(n - m) : v[i] = s[m + i]
  BY <1>1, <1>a, <1>2
<1> DEFINE W == UNION {{i} \X (1..s[i].size) : i \in (m + 1)..n}
<1>4. Bytes(s) = Bytes(u) \cup W
  <2>1. 1..n = 1..m \cup (m + 1)..n
    BY <1>3
  <2>2. Bytes(u) = UNION {{i} \X (1..s[i].size) : i \in 1..m}
    BY <1>3 DEF Bytes
  <2>3. Bytes(s) = UNION {{i} \X (1..s[i].size) : i \in 1..n}
    BY <1>3 DEF Bytes
  <2> QED BY <2>1, <2>2, <2>3
<1>5. Bytes(u) \cap W = {}
  <2>1. \A x \in Bytes(u) : x[1] \in 1..m
    BY <1>3, BytesAre
  <2>2. \A x \in W : x[1] \in (m + 1)..n
    OBVIOUS
  <2>3. 1..m \cap (m + 1)..n = {}
    BY <1>3
  <2> QED BY <2>1, <2>2, <2>3
<1>6. IsFiniteSet(Bytes(u)) /\ IsFiniteSet(Bytes(s)) /\ IsFiniteSet(Bytes(v))
  BY <1>b, BytesAreFinite
<1>7. IsFiniteSet(W)
  BY <1>4, <1>6, FS_Subset
<1>8. Cardinality(W) = Cardinality(Bytes(v))
  <2>1. PICK f : f = [x \in Bytes(v) |-> <<m + x[1], x[2]>>]
    OBVIOUS
  <2>2. \A x : x \in Bytes(v) <=> \E i \in 1..(n - m), b \in Nat : b \in 1..s[m + i].size /\ x = <<i, b>>
    BY <1>3, BytesAre
  <2>3. \A x : x \in W <=> \E i \in (m + 1)..n, b \in Nat : b \in 1..s[i].size /\ x = <<i, b>>
    OBVIOUS
  <2>4. f \in [Bytes(v) -> W]
    <3>1. ASSUME NEW x \in Bytes(v) PROVE <<m + x[1], x[2]>> \in W
      <4>1. PICK i \in 1..(n - m), b \in Nat : b \in 1..s[m + i].size /\ x = <<i, b>>
        BY <2>2
      <4>2. m + i \in (m + 1)..n
        BY <1>3
      <4> QED BY <2>3, <4>1, <4>2
    <3> QED BY <2>1, <3>1
  <2>5. \A x, y \in Bytes(v) : f[x] = f[y] => x = y
    <3>1. SUFFICES ASSUME NEW x \in Bytes(v), NEW y \in Bytes(v), f[x] = f[y] PROVE x = y
      OBVIOUS
    <3>2. PICK i \in 1..(n - m), b \in Nat : b \in 1..s[m + i].size /\ x = <<i, b>>
      BY <2>2
    <3>3. PICK j \in 1..(n - m), c \in Nat : c \in 1..s[m + j].size /\ y = <<j, c>>
      BY <2>2
    <3>4. m + i = m + j /\ b = c
      BY <2>1, <3>1, <3>2, <3>3
    <3>5. i = j
      BY <1>3, <3>4
    <3> QED BY <3>2, <3>3, <3>4, <3>5
  <2>6. \A y \in W : \E x \in Bytes(v) : f[x] = y
    <3>1. SUFFICES ASSUME NEW y \in W PROVE \E x \in Bytes(v) : f[x] = y
      OBVIOUS
    <3>2. PICK i \in (m + 1)..n, b \in Nat : b \in 1..s[i].size /\ y = <<i, b>>
      BY <2>3
    <3>3. PICK k \in 1..(n - m) : i = m + k
      <4>1. i - m \in 1..(n - m) /\ i = m + (i - m)
        BY <1>3
      <4> QED BY <4>1
    <3>4. <<k, b>> \in Bytes(v)
      BY <2>2, <3>2, <3>3
    <3>5. f[<<k, b>>] = <<m + k, b>>
      BY <2>1, <3>4
    <3> QED BY <3>2, <3>3, <3>4, <3>5
  <2>7. f \in Bijection(Bytes(v), W)
    BY <2>4, <2>5, <2>6 DEF Bijection, Injection, Surjection, IsInjective
  <2> QED BY <1>6, <2>7, FS_Bijection DEF ExistsBijection
<1>9. PICK S : S = Bytes(u)
  OBVIOUS
<1>10. Cardinality(S \cup W) = Cardinality(S) + Cardinality(W) - Cardinality(S \cap W)
  <2> HIDE DEF W
  <2> QED BY <1>6, <1>7, <1>9, FS_Union
<1>11. /\ Cardinality(S \cap W) = 0 /\ Cardinality(S) \in Nat /\ Cardinality(W) \in Nat
  <2> HIDE DEF W
  <2> QED BY <1>5, <1>6, <1>7, <1>9, FS_EmptySet, FS_CardinalityType
<1>12. Cardinality(Bytes(s)) = Cardinality(S) + Cardinality(W)
  <2> HIDE DEF W
  <2> QED BY <1>4, <1>9, <1>10, <1>11
<1> QED
  <2> HIDE DEF W
  <2> QED BY <1>1, <1>2, <1>8, <1>9, <1>12 DEF BytesOf

-----------------------------------------------------------------------------
(* A drain.                                                                 *)

LEMMA InitialPart ==
  ASSUME NEW n \in Nat, NEW T, T \subseteq 1..n,
         \A i \in T, j \in 1..n : j < i => j \in T
  PROVE  Cardinality(T) \in 0..n /\ T = 1..Cardinality(T)
<1>1. CASE T = {}
  <2>1. Cardinality(T) = 0
    BY <1>1, FS_EmptySet
  <2> QED BY <1>1, <2>1
<1>2. CASE T # {}
  <2>1. PICK m \in T : \A i \in T : i <= m
    BY <1>2, IntervalMaximum
  <2>2. T = 1..m
    <3>1. \A i \in T : i \in 1..m
      BY <2>1
    <3>2. ASSUME NEW j \in 1..m PROVE j \in T
      <4>1. j \in 1..n /\ (j = m \/ j < m)
        BY <2>1
      <4> QED BY <2>1, <4>1
    <3> QED BY <3>1, <3>2
  <2>3. Cardinality(1..m) = IF 1 > m THEN 0 ELSE m - 1 + 1
    BY FS_Interval, <2>1
  <2> QED BY <2>1, <2>2, <2>3
<1> QED BY <1>1, <1>2

Drained(at, m) ==
  /\ Arranged(at) /\ m \in 0..Len(packets)
  /\ \A r \in 1..Len(packets) : r <= m <=> packets[at[r]].dts <= Watermark
  /\ Batch \in Seq(Packets) /\ Len(Batch) = m
  /\ \A r \in 1..m : Batch[r] = packets[at[r]]
  /\ packets' \in Seq(Packets) /\ Len(packets') = Len(packets) - m
  /\ \A r \in 1..Len(packets') : packets'[r] = packets[at[m + r]]
  /\ queued_bytes' = BytesOf(packets') /\ queued_bytes' \in Nat
  /\ queued_bytes' <= queued_bytes
LEMMA TakeDrains ==
  ASSUME FeedConstants, packets \in Seq(Packets), queued_bytes = BytesOf(packets),
         Watermark \in Nat, TakePackets
  PROVE  \E at, m : Drained(at, m)
<1>1. PICK at : Arranged(at)
  BY SortArranges
<1>2. PICK n : n = Len(packets)
  OBVIOUS
<1>3. n \in Nat /\ DOMAIN packets = 1..n
  BY <1>2
<1>4. PICK s : s = Sorted
  OBVIOUS
<1>5. /\ DOMAIN s = 1..n /\ \A r \in 1..n : at[r] \in 1..n /\ s[r] = packets[at[r]]
  BY <1>1, <1>3, <1>4 DEF Arranged
<1>6. \A i \in 1..n : packets[i] \in Packets /\ packets[i].dts \in Nat
  BY <1>2, PacketsOfSeq
<1>7. s \in Seq(Packets) /\ Len(s) = n
  <2>1. s \in [1..n -> Packets]
    BY <1>1, <1>3, <1>4, <1>5, <1>6 DEF Arranged
  <2> QED BY <1>3, <2>1
<1>8. \A r, q \in 1..n : r < q => s[r].dts <= s[q].dts
  <2>1. SUFFICES ASSUME NEW r \in 1..n, NEW q \in 1..n, r < q PROVE s[r].dts <= s[q].dts
    OBVIOUS
  <2>2. Precedes(at[r], at[q])
    BY <1>1, <1>3, <2>1 DEF Arranged
  <2>3. s[r] = packets[at[r]] /\ s[q] = packets[at[q]] /\ s[r].dts \in Nat /\ s[q].dts \in Nat
    BY <1>5, <1>6
  <2> QED BY <2>2, <2>3 DEF Precedes
<1>9. PICK T : T = {i \in DOMAIN Sorted : Sorted[i].dts <= Watermark}
  OBVIOUS
<1>10. PICK m : m = Released
  OBVIOUS
<1>11. m \in 0..n /\ T = 1..m
  <2>1. T \subseteq 1..n
    BY <1>4, <1>5, <1>9
  <2>2. \A i \in T, j \in 1..n : j < i => j \in T
    <3>1. SUFFICES ASSUME NEW i \in T, NEW j \in 1..n, j < i PROVE j \in T
      OBVIOUS
    <3>2. i \in 1..n /\ s[i].dts <= Watermark
      BY <1>4, <1>5, <1>9
    <3>3. s[j].dts <= s[i].dts
      BY <1>8, <3>1, <3>2
    <3>4. s[j].dts \in Nat /\ s[i].dts \in Nat
      BY <1>5, <1>6, <3>2
    <3> QED BY <1>4, <1>5, <1>9, <3>2, <3>3, <3>4
  <2>3. m = Cardinality(T)
    BY <1>9, <1>10 DEF Released
  <2> QED BY <1>3, <2>1, <2>2, <2>3, InitialPart
<1>12. \A r \in 1..n : r <= m <=> packets[at[r]].dts <= Watermark
  BY <1>4, <1>5, <1>9, <1>11
<1>13. /\ Batch = SubSeq(s, 1, m) /\ packets' = SubSeq(s, m + 1, n)
       /\ queued_bytes' = queued_bytes - BytesOf(Batch)
  BY <1>4, <1>7, <1>10 DEF TakePackets, Batch, Unqueued
<1>14. /\ SubSeq(s, 1, m) \in Seq(Packets) /\ Len(SubSeq(s, 1, m)) = m
       /\ \A r \in 1..m : SubSeq(s, 1, m)[r] = s[r]
  BY <1>7, <1>11
<1>15. /\ SubSeq(s, m + 1, n) \in Seq(Packets) /\ Len(SubSeq(s, m + 1, n)) = n - m
       /\ \A r \in 1..(n - m) : SubSeq(s, m + 1, n)[r] = s[m + r]
  BY <1>3, <1>7, <1>11
<1>16. /\ queued_bytes' = BytesOf(packets') /\ queued_bytes' \in Nat
       /\ queued_bytes' <= queued_bytes
  <2>1. BytesOf(s) = queued_bytes
    BY <1>4, BytesOfSorted
  <2>2. BytesOf(SubSeq(s, 1, m)) + BytesOf(SubSeq(s, m + 1, n)) = BytesOf(s)
    BY <1>7, <1>11, BytesCut
  <2>3. BytesOf(SubSeq(s, 1, m)) \in Nat /\ BytesOf(SubSeq(s, m + 1, n)) \in Nat
    BY <1>14, <1>15, BytesAreFinite
  <2> QED BY <1>13, <2>1, <2>2, <2>3
<1>17. \A r \in 1..(n - m) : m + r \in 1..n
  BY <1>3, <1>11
<1>18. Drained(at, m)
  <2>1. /\ Batch \in Seq(Packets) /\ Len(Batch) = m
        /\ \A r \in 1..m : Batch[r] = packets[at[r]]
    <3>1. \A r \in 1..m : r \in 1..n
      BY <1>3, <1>11
    <3>2. \A r \in 1..m : SubSeq(s, 1, m)[r] = packets[at[r]]
      BY <1>5, <1>14, <3>1
    <3> QED BY <1>13, <1>14, <3>2
  <2>2. /\ packets' \in Seq(Packets) /\ Len(packets') = Len(packets) - m
        /\ \A r \in 1..Len(packets') : packets'[r] = packets[at[m + r]]
    BY <1>2, <1>5, <1>13, <1>15, <1>17
  <2> QED BY <1>1, <1>2, <1>11, <1>12, <1>16, <2>1, <2>2 DEF Drained
<1> QED
  BY <1>18

-----------------------------------------------------------------------------
(* Every call keeps the invariant.                                          *)

Gates == /\ keyframe \in BOOLEAN /\ audio \in BOOLEAN /\ video_cutoff \in Nat
         /\ last \in [Kinds -> MaybeDts] /\ minimum \in MaybeDts /\ maximum \in MaybeDts

\* A call that fails the feed: nothing waits, and nothing is asked of the rest.
LEMMA FailsSafely ==
  ASSUME FeedConstants, Typed, Failing, Gates', UNCHANGED <<age, tail>>
  PROVE  FeedInv'
<1>1. state' = "Failed" /\ packets' = <<>> /\ queued_bytes' = 0 /\ headers' = None
      /\ announced' = TRUE
  BY DEF Failing
<1>2. QueueBytes \in Nat /\ packets' \in Seq(Packets)
  BY <1>1 DEF FeedConstants
<1>3. FeedTypeOK'
  BY <1>1, <1>2 DEF Typed, FeedTypeOK, Gates
<1>4. Typed'
  BY <1>1, <1>3, NoBytes DEF Typed
<1>5. ~Active'
  BY <1>1 DEF Active
<1> QED
  BY <1>4, <1>5 DEF FeedInv

LEMMA HasGates ==
  ASSUME FeedTypeOK
  PROVE  /\ Gates
         /\ UNCHANGED gateVars => Gates'
BY DEF FeedTypeOK, Gates, gateVars

LEMMA BeginKeeps ==
  ASSUME FeedConstants, Typed, Begin
  PROVE  FeedInv'
<1>1. FeedTypeOK'
  <2>1. [k \in Kinds |-> None] \in [Kinds -> MaybeDts]
    BY DEF MaybeDts
  <2>2. QueueBytes \in Nat /\ Readiness \in Nat
    BY DEF FeedConstants
  <2>3. packets' \in Seq(Packets) /\ queued_bytes' \in 0..QueueBytes /\ age' \in 0..Readiness
    BY <2>2 DEF Begin
  <2>4. /\ last' \in [Kinds -> MaybeDts] /\ minimum' \in MaybeDts
        /\ maximum' \in MaybeDts /\ tail' \in MaybeDts
    BY <2>1 DEF Begin, MaybeDts
  <2>5. /\ state' \in {"Stopped", "Starting", "Ready", "Failed"}
        /\ headers' \in Configs \cup {None} /\ video_cutoff' \in Nat
    BY DEF Begin
  <2>6. keyframe' \in BOOLEAN /\ audio' \in BOOLEAN /\ announced' \in BOOLEAN
    BY DEF Begin
  <2> QED BY <2>3, <2>4, <2>5, <2>6 DEF FeedTypeOK
<1>2. Typed'
  BY <1>1, NoBytes DEF Begin, Typed
<1>3. Gate' /\ Waiting' /\ Opening' /\ Spans'
  <2>1. \A k \in Kinds : last'[k] = None
    BY DEF Begin
  <2>2. packets' = <<>> /\ keyframe' = FALSE /\ audio' = FALSE /\ tail' = None
        /\ minimum' = None /\ maximum' = None /\ state' = "Starting"
    BY DEF Begin
  <2>3. Gate'
    BY <2>1, <2>2 DEF Gate, Kinds
  <2> QED BY <2>2, <2>3 DEF Waiting, Opening, Spans
<1> QED
  BY <1>2, <1>3 DEF FeedInv

LEMMA StopKeeps ==
  ASSUME FeedConstants, Typed, Stop
  PROVE  FeedInv'
<1>1. /\ state' = "Stopped" /\ packets' = <<>> /\ queued_bytes' = 0 /\ headers' = None
      /\ keyframe' = FALSE /\ audio' = FALSE /\ video_cutoff' = 0
      /\ UNCHANGED <<age, last, minimum, maximum, tail, announced>>
  BY DEF Stop
<1>2. QueueBytes \in Nat /\ packets' \in Seq(Packets)
  BY <1>1 DEF FeedConstants
<1>3. FeedTypeOK'
  <2>1. packets' \in Seq(Packets) /\ queued_bytes' \in 0..QueueBytes
    BY <1>1, <1>2
  <2>2. keyframe' \in BOOLEAN /\ audio' \in BOOLEAN /\ video_cutoff' \in Nat
    BY <1>1
  <2> QED BY <1>1, <2>1, <2>2 DEF Typed, FeedTypeOK
<1>4. Typed' /\ ~Active'
  BY <1>1, <1>3, NoBytes DEF Typed, Active
<1> QED
  BY <1>4 DEF FeedInv

\* Calls that leave the packets and the gate as they are.
LEMMA RestKeeps ==
  ASSUME FeedConstants, FeedInv, UNCHANGED <<packets, queued_bytes, gateVars, tail>>,
         headers' \in Configs \cup {None}, age' \in 0..Readiness, announced' \in BOOLEAN,
         \/ state' = state
         \/ state' = "Ready" /\ Active /\ keyframe /\ audio
  PROVE  FeedInv'
<1>1. FeedTypeOK'
  BY DEF FeedInv, Typed, FeedTypeOK, gateVars
<1>2. BytesOf(packets)' = BytesOf(packets)
  BY DEF BytesOf, Bytes
<1>3. Typed'
  BY <1>1, <1>2 DEF FeedInv, Typed
<1>4. ASSUME Active' PROVE Gate' /\ Waiting' /\ Opening' /\ Spans'
  <2>1. Active
    BY <1>4 DEF Active
  <2>2. Gate /\ Waiting /\ Opening /\ Spans
    BY <2>1 DEF FeedInv
  <2>3. Gate'
    BY <2>2 DEF Gate, gateVars
  <2>4. Waiting' /\ Opening' /\ Spans'
    BY <2>2 DEF Waiting, Opening, Spans, gateVars
  <2> QED BY <2>3, <2>4
<1> QED
  BY <1>3, <1>4 DEF FeedInv

LEMMA DeadlineKeeps ==
  ASSUME FeedConstants, FeedInv, Expire \/ Fail \/ CheckDeadline \/ Tick \/ UNCHANGED feedVars
  PROVE  FeedInv'
<1>0. Typed /\ FeedTypeOK /\ Gates
  BY HasGates DEF FeedInv, Typed
<1>1. ASSUME UNCHANGED feedVars PROVE FeedInv'
  BY <1>0, <1>1, RestKeeps DEF feedVars, gateVars, FeedTypeOK
<1>2. ASSUME Failing, UNCHANGED <<age, gateVars, tail>> PROVE FeedInv'
  BY <1>0, <1>2, HasGates, FailsSafely
<1>3. CASE Expire
  BY <1>2, <1>3 DEF Expire
<1>4. CASE Fail
  <2>1. CASE Latched
    BY <1>1, <1>4, <2>1 DEF Fail, feedVars
  <2>2. CASE ~Latched
    BY <1>2, <1>4, <2>2 DEF Fail
  <2> QED BY <2>1, <2>2
<1>5. CASE CheckDeadline
  BY <1>1, <1>3, <1>5, <1>2 DEF CheckDeadline, Expire
<1>6. CASE Tick
  <2>1. age' \in 0..Readiness
    BY <1>0, <1>6 DEF Tick, FeedTypeOK, FeedConstants
  <2> QED BY <1>0, <1>6, <2>1, RestKeeps DEF Tick, FeedTypeOK
<1>7. CASE UNCHANGED feedVars
  BY <1>1, <1>7
<1> QED
  BY <1>3, <1>4, <1>5, <1>6, <1>7

LEMMA HeadersKeep ==
  ASSUME FeedConstants, FeedInv, NEW config \in Configs, SetHeaders(config)
  PROVE  FeedInv'
<1>0. Typed /\ FeedTypeOK /\ Gates
  BY HasGates DEF FeedInv, Typed
<1>1. CASE Expire \/ Closed
  BY <1>1, DeadlineKeeps DEF Closed
<1>2. CASE Failing /\ UNCHANGED <<age, gateVars, tail>>
  BY <1>0, <1>2, HasGates, FailsSafely
<1>3. CASE /\ Open /\ headers' = config /\ Update(keyframe, audio, config)
           /\ UNCHANGED <<age, packets, queued_bytes, gateVars, tail, announced>>
  <2>1. \/ state' = state
        \/ state' = "Ready" /\ Active /\ keyframe /\ audio
    BY <1>0, <1>3 DEF Update, Open, Latched, Active, FeedTypeOK
  <2> QED BY <1>0, <1>3, <2>1, RestKeeps DEF FeedTypeOK
<1> QED
  BY <1>1, <1>2, <1>3 DEF SetHeaders

\* The gate after a packet has passed it.
LEMMA PassOpens ==
  ASSUME FeedConstants, Typed, NEW p \in Packets, Passes(p),
         last' \in {last, [last EXCEPT ![p.kind] = p.dts]},
         minimum' \in MaybeDts, maximum' \in MaybeDts
  PROVE  Gates'
<1>1. /\ p.kind \in Kinds /\ p.dts \in MaybeDts /\ p.dts \in Nat
  BY PacketFields DEF MaybeDts
<1>2. Gates
  BY HasGates DEF Typed
<1>3. keyframe' = TRUE /\ video_cutoff' = CutoffAt(p) /\ audio' = (audio \/ p.kind = "audio")
  BY DEF Passes
<1>4. video_cutoff' \in Nat
  BY <1>1, <1>2, <1>3 DEF CutoffAt, Gates
<1>5. keyframe' \in BOOLEAN /\ audio' \in BOOLEAN
  BY <1>3
<1>6. last' \in [Kinds -> MaybeDts]
  BY <1>1, <1>2 DEF Gates
<1> QED
  BY <1>4, <1>5, <1>6 DEF Gates

LEMMA BoundsOf ==
  ASSUME FeedConstants, Typed, NEW p \in Packets
  PROVE  /\ Lowest(p) \in MaybeDts /\ Highest(p) \in MaybeDts
         /\ Lowest(p) \in Nat /\ Highest(p) \in Nat
         /\ minimum = None => Lowest(p) = p.dts
         /\ maximum = None => Highest(p) = p.dts
         /\ minimum # None => /\ minimum \in Nat /\ Lowest(p) <= minimum /\ Lowest(p) <= p.dts
                              /\ Lowest(p) \in {minimum, p.dts}
         /\ maximum # None => /\ maximum \in Nat /\ maximum <= Highest(p) /\ p.dts <= Highest(p)
                              /\ Highest(p) \in {maximum, p.dts}
<1>1. p.dts \in Dts /\ p.dts \in Nat
  BY PacketFields
<1>2. /\ minimum \in MaybeDts /\ maximum \in MaybeDts
      /\ \A d \in MaybeDts : d # None => d \in Dts /\ d \in Nat
  BY DEF Typed, FeedTypeOK, MaybeDts, FeedConstants
<1> QED
  BY <1>1, <1>2 DEF Lowest, Highest, LowerOf, HigherOf, MaybeDts

\* A packet that is kept joins the queue behind those of its encoder.
LEMMA KeptKeeps ==
  ASSUME FeedConstants, FeedInv, NEW p \in Packets, IngestKept(p)
  PROVE  FeedInv'
<1>0. Typed /\ FeedTypeOK /\ Gates /\ packets \in Seq(Packets)
  BY HasGates DEF FeedInv, Typed, FeedTypeOK
<1>1. /\ p.kind \in Kinds /\ p.dts \in MaybeDts /\ p.dts \in Nat /\ p.dts # None
      /\ p.size \in Nat /\ (p.keyframe => p.kind = "video") /\ p.keyframe \in BOOLEAN
  BY PacketFields DEF MaybeDts
<1>2. /\ ~Latched /\ ~Skipped(p) /\ ~Backwards(p) /\ ~Exceeds(p)
      /\ keyframe' = TRUE /\ video_cutoff' = CutoffAt(p)
      /\ audio' = (audio \/ p.kind = "audio")
      /\ last' = [last EXCEPT ![p.kind] = p.dts]
      /\ minimum' = Lowest(p) /\ maximum' = Highest(p)
      /\ packets' = Append(packets, p) /\ queued_bytes' = queued_bytes + p.size
      /\ state' = (IF audio' /\ headers # None THEN "Ready" ELSE state)
      /\ UNCHANGED <<headers, age, tail, announced>>
  BY DEF IngestKept, Passes, Open, Update
<1>3. Active /\ Gate /\ Waiting /\ Opening /\ Spans
  BY <1>0, <1>2 DEF Latched, Active, FeedTypeOK, FeedInv
<1>4. PICK n \in Nat : n = Len(packets)
  BY <1>0
<1>5. /\ packets' \in Seq(Packets) /\ Len(packets') = n + 1 /\ packets'[n + 1] = p
      /\ \A i \in 1..n : packets'[i] = packets[i]
      /\ DOMAIN packets = 1..n /\ DOMAIN packets' = 1..(n + 1)
  <2>1. PICK q \in Seq(Packets) : q = Append(packets, p)
    BY <1>0, AppendProperties
  <2>2. Len(q) = n + 1 /\ q[n + 1] = p /\ \A i \in 1..n : q[i] = packets[i]
    BY <1>0, <1>4, <2>1, AppendProperties
  <2>3. DOMAIN q = 1..(n + 1)
    BY <2>1, <2>2
  <2> QED BY <1>0, <1>2, <1>4, <2>1, <2>2, <2>3
<1>6. \A i \in 1..n : /\ packets[i].kind \in Kinds /\ packets[i].dts \in Nat
                      /\ packets[i].keyframe \in BOOLEAN
                      /\ (packets[i].keyframe => packets[i].kind = "video")
  BY <1>0, <1>4, PacketsOfSeq
<1>7. Typed'
  <2>1. Gates'
    BY <1>0, <1>2, BoundsOf, PassOpens DEF IngestKept
  <2>2. queued_bytes \in Nat /\ queued_bytes + p.size <= QueueBytes
    BY <1>0, <1>1, <1>2 DEF Exceeds, FeedTypeOK, FeedConstants
  <2>3. BytesOf(packets)' = BytesOf(packets) + p.size
    <3>1. BytesOf(packets') = BytesOf(packets) + p.size
      BY <1>0, <1>2, BytesAdd
    <3> QED BY <3>1
  <2>4. queued_bytes' \in 0..QueueBytes
    BY <1>1, <1>2, <2>2
  <2>5. state' \in {"Stopped", "Starting", "Ready", "Failed"}
    BY <1>0, <1>2 DEF FeedTypeOK
  <2>6. FeedTypeOK'
    BY <1>0, <1>2, <1>5, <2>1, <2>4, <2>5 DEF FeedTypeOK, Gates
  <2> QED BY <1>0, <1>2, <2>3, <2>6 DEF Typed
<1>8. \A k \in Kinds : last[k] # None => last[k] \in Nat
  BY <1>0 DEF Gates, MaybeDts, FeedConstants
<1>9. /\ last'[p.kind] = p.dts
      /\ \A k \in Kinds : k # p.kind => last'[k] = last[k]
      /\ last[p.kind] # None => last[p.kind] <= p.dts
  BY <1>0, <1>1, <1>2, <1>8 DEF Gates, Backwards
<1>10. /\ keyframe => video_cutoff' = video_cutoff
       /\ ~keyframe => /\ p.kind = "video" /\ p.keyframe /\ video_cutoff' = p.dts
                       /\ n = 0
  BY <1>1, <1>2, <1>3, <1>4 DEF Skipped, Opens, CutoffAt, Gate
<1>11. video_cutoff' <= p.dts
  <2>1. video_cutoff \in Nat
    BY <1>0 DEF Gates
  <2>2. CASE ~keyframe
    BY <1>1, <1>10, <2>2
  <2>3. CASE keyframe /\ p.kind = "audio"
    BY <1>1, <1>2, <1>10, <2>1, <2>3 DEF Skipped
  <2>4. CASE keyframe /\ p.kind = "video"
    <3>1. last["video"] # None /\ video_cutoff <= last["video"] /\ last["video"] \in Nat
      BY <1>1, <1>3, <1>8, <2>4 DEF Gate
    <3> QED BY <1>1, <1>9, <1>10, <2>1, <2>4, <3>1
  <2> QED BY <1>1, <2>2, <2>3, <2>4 DEF Kinds
<1>12. Gate'
  <2>1. keyframe' <=> last'["video"] # None
    BY <1>1, <1>2, <1>3, <1>9, <1>10 DEF Gate, Kinds
  <2>2. audio' <=> last'["audio"] # None
    BY <1>1, <1>2, <1>3, <1>9, <1>10 DEF Gate, Kinds
  <2>3. \A k \in Kinds : last'[k] # None => video_cutoff' <= last'[k]
    BY <1>3, <1>9, <1>10, <1>11 DEF Gate
  <2>4. state' = "Ready" => keyframe' /\ audio'
    BY <1>2, <1>3 DEF Gate
  <2> QED BY <1>2, <2>1, <2>2, <2>3, <2>4 DEF Gate
<1>13. Waiting'
  <2>1. \A i \in 1..n :
          /\ video_cutoff <= packets[i].dts
          /\ last[packets[i].kind] # None /\ packets[i].dts <= last[packets[i].kind]
          /\ tail # None => tail <= packets[i].dts
    BY <1>3, <1>5 DEF Waiting
  <2>2. ASSUME NEW i \in 1..n
        PROVE  /\ video_cutoff' <= packets[i].dts
               /\ last'[packets[i].kind] # None /\ packets[i].dts <= last'[packets[i].kind]
               /\ tail' # None => tail' <= packets[i].dts
    <3>1. last[packets[i].kind] \in Nat /\ packets[i].dts \in Nat
      BY <1>6, <1>8, <2>1
    <3>2. keyframe
      BY <1>10, <2>2
    <3> QED BY <1>1, <1>2, <1>6, <1>9, <1>10, <2>1, <3>1, <3>2
  <2>3. tail # None => tail <= p.dts
    <3>1. SUFFICES ASSUME tail # None PROVE tail <= p.dts
      OBVIOUS
    <3>2. last[p.kind] # None /\ tail <= last[p.kind]
      BY <1>1, <1>3, <3>1 DEF Opening
    <3>3. last[p.kind] \in Nat /\ tail \in Nat
      BY <1>0, <1>1, <1>8, <3>1, <3>2 DEF FeedTypeOK, MaybeDts, FeedConstants
    <3> QED BY <1>1, <1>9, <3>2, <3>3
  <2>4. \A i \in 1..(n + 1) :
          /\ video_cutoff' <= packets'[i].dts
          /\ last'[packets'[i].kind] # None /\ packets'[i].dts <= last'[packets'[i].kind]
          /\ tail' # None => tail' <= packets'[i].dts
    <3>1. SUFFICES ASSUME NEW i \in 1..(n + 1)
                   PROVE  /\ video_cutoff' <= packets'[i].dts
                          /\ last'[packets'[i].kind] # None
                          /\ packets'[i].dts <= last'[packets'[i].kind]
                          /\ tail' # None => tail' <= packets'[i].dts
      OBVIOUS
    <3>2. CASE i \in 1..n
      BY <1>5, <2>2, <3>2
    <3>3. CASE i = n + 1
      BY <1>1, <1>2, <1>5, <1>9, <1>11, <2>3, <3>3
    <3> QED BY <3>2, <3>3
  <2>5. ASSUME NEW i \in 1..(n + 1), NEW j \in 1..(n + 1), i < j,
               packets'[i].kind = packets'[j].kind
        PROVE  packets'[i].dts <= packets'[j].dts
    <3>1. i \in 1..n
      BY <2>5
    <3>2. CASE j \in 1..n
      BY <1>3, <1>5, <2>5, <3>1, <3>2 DEF Waiting
    <3>3. CASE j = n + 1
      <4>1. packets[i].kind = p.kind /\ packets[i].dts <= last[p.kind] /\ last[p.kind] # None
        BY <1>5, <2>1, <2>5, <3>1, <3>3
      <4>2. packets[i].dts \in Nat /\ last[p.kind] \in Nat
        BY <1>1, <1>6, <1>8, <3>1, <4>1
      <4>3. packets[i].dts <= p.dts
        BY <1>1, <1>9, <4>1, <4>2
      <4> QED BY <1>5, <3>1, <3>3, <4>3
    <3> QED BY <3>2, <3>3
  <2> QED BY <1>5, <2>4, <2>5 DEF Waiting
<1>14. Opening'
  <2>1. tail' = None => /\ packets' # <<>> /\ packets'[1].keyframe
                        /\ packets'[1].dts = video_cutoff'
    <3>1. CASE keyframe
      <4>1. SUFFICES ASSUME tail = None PROVE /\ packets'[1].keyframe
                                              /\ packets'[1].dts = video_cutoff'
        BY <1>2, <1>5
      <4>2. packets # <<>> /\ packets[1].keyframe /\ packets[1].dts = video_cutoff
        BY <1>3, <3>1, <4>1 DEF Opening
      <4>3. 1 \in 1..n
        BY <1>0, <1>4, <4>2
      <4> QED BY <1>5, <1>10, <3>1, <4>2, <4>3
    <3>2. CASE ~keyframe
      BY <1>5, <1>10, <3>2
    <3> QED BY <3>1, <3>2
  <2>2. tail # None => \A k \in Kinds : last'[k] # None /\ tail <= last'[k]
    <3>1. SUFFICES ASSUME tail # None, NEW k \in Kinds PROVE last'[k] # None /\ tail <= last'[k]
      OBVIOUS
    <3>2. last[k] # None /\ tail <= last[k] /\ last[k] \in Nat /\ tail \in Nat
      BY <1>0, <1>3, <1>8, <3>1 DEF Opening, FeedTypeOK, MaybeDts, FeedConstants
    <3> QED BY <1>1, <1>9, <3>2
  <2> QED BY <1>2, <2>1, <2>2 DEF Opening
<1>15. Spans'
  <2>1. PICK lo, hi : lo = Lowest(p) /\ hi = Highest(p)
    OBVIOUS
  <2>2. lo \in Nat /\ hi \in Nat /\ lo # None /\ hi # None /\ hi - lo <= QueueDuration
    <3>1. lo \in Nat /\ hi \in Nat
      BY <1>0, <2>1, BoundsOf
    <3>2. QueueDuration \in Nat /\ None \notin Nat
      BY DEF FeedConstants
    <3>3. ~(hi - lo > QueueDuration)
      BY <1>2, <2>1 DEF Exceeds
    <3> QED BY <3>1, <3>2, <3>3
  <2>3. minimum' = lo /\ maximum' = hi
    BY <1>2, <2>1
  <2>4. /\ \E i \in 1..(n + 1) : packets'[i].dts = lo
        /\ \E i \in 1..(n + 1) : packets'[i].dts = hi
        /\ \A i \in 1..(n + 1) : lo <= packets'[i].dts /\ packets'[i].dts <= hi
    <3>1. CASE n = 0
      <4>1. minimum = None /\ maximum = None
        <5>1. packets = <<>>
          BY <1>0, <1>4, <3>1, EmptyOrNot
        <5> QED BY <1>3, <5>1 DEF Spans
      <4>2. lo = p.dts /\ hi = p.dts
        BY <1>0, <2>1, <4>1, BoundsOf
      <4> QED BY <1>1, <1>5, <3>1, <4>2
    <3>2. CASE n # 0
      <4>1. /\ minimum # None /\ maximum # None
            /\ \E i \in 1..n : packets[i].dts = minimum
            /\ \E i \in 1..n : packets[i].dts = maximum
            /\ \A i \in 1..n : minimum <= packets[i].dts /\ packets[i].dts <= maximum
        BY <1>0, <1>3, <1>4, <1>5, <3>2 DEF Spans
      <4>2. /\ minimum \in Nat /\ maximum \in Nat
            /\ lo <= minimum /\ lo <= p.dts /\ lo \in {minimum, p.dts}
            /\ maximum <= hi /\ p.dts <= hi /\ hi \in {maximum, p.dts}
        BY <1>0, <2>1, <4>1, BoundsOf
      <4>3. \E i \in 1..(n + 1) : packets'[i].dts = lo
        <5>1. CASE lo = p.dts
          BY <1>5, <5>1
        <5>2. CASE lo = minimum
          <6>1. PICK i \in 1..n : packets[i].dts = minimum
            BY <4>1
          <6>2. i \in 1..(n + 1) /\ packets'[i].dts = lo
            BY <1>5, <5>2, <6>1
          <6> QED BY <6>2
        <5> QED BY <4>2, <5>1, <5>2
      <4>4. \E i \in 1..(n + 1) : packets'[i].dts = hi
        <5>1. CASE hi = p.dts
          BY <1>5, <5>1
        <5>2. CASE hi = maximum
          <6>1. PICK i \in 1..n : packets[i].dts = maximum
            BY <4>1
          <6>2. i \in 1..(n + 1) /\ packets'[i].dts = hi
            BY <1>5, <5>2, <6>1
          <6> QED BY <6>2
        <5> QED BY <4>2, <5>1, <5>2
      <4>5. ASSUME NEW i \in 1..(n + 1) PROVE lo <= packets'[i].dts /\ packets'[i].dts <= hi
        <5>1. CASE i = n + 1
          BY <1>5, <4>2, <5>1
        <5>2. CASE i \in 1..n
          <6>1. packets'[i] = packets[i] /\ packets[i].dts \in Nat
            BY <1>5, <1>6, <5>2
          <6> QED BY <2>2, <4>1, <4>2, <5>2, <6>1
        <5> QED BY <5>1, <5>2
      <4> QED BY <4>3, <4>4, <4>5
    <3> QED BY <3>1, <3>2
  <2>5. packets' # <<>>
    BY <1>5
  <2> QED BY <1>5, <2>2, <2>3, <2>4, <2>5 DEF Spans
<1> QED
  BY <1>7, <1>12, <1>13, <1>14, <1>15 DEF FeedInv

LEMMA IngestKeeps ==
  ASSUME FeedConstants, FeedInv, NEW p \in Packets, Ingest(p)
  PROVE  FeedInv'
<1>0. Typed /\ FeedTypeOK /\ Gates
  BY HasGates DEF FeedInv, Typed
<1>1. CASE Expire \/ Closed \/ IngestSkipped(p)
  BY <1>1, DeadlineKeeps DEF Closed, IngestSkipped
<1>2. CASE IngestBackwards(p)
  <2>1. /\ Passes(p) /\ Failing /\ UNCHANGED <<age, tail>>
        /\ last' = last /\ minimum' \in MaybeDts /\ maximum' \in MaybeDts
    BY <1>0, <1>2 DEF IngestBackwards, Gates
  <2> QED BY <1>0, <2>1, PassOpens, FailsSafely
<1>3. CASE IngestFull(p)
  <2>1. /\ Passes(p) /\ Failing /\ UNCHANGED <<age, tail>>
        /\ last' = [last EXCEPT ![p.kind] = p.dts]
        /\ minimum' \in MaybeDts /\ maximum' \in MaybeDts
    BY <1>0, <1>3 DEF IngestFull, Gates
  <2> QED BY <1>0, <2>1, PassOpens, FailsSafely
<1>4. CASE IngestKept(p)
  BY <1>4, KeptKeeps
<1> QED
  BY <1>1, <1>2, <1>3, <1>4 DEF Ingest

\* A drain: what is left is younger than what left, in the same order.
LEMMA TakeKeeps ==
  ASSUME FeedConstants, FeedInv, TakePackets
  PROVE  FeedInv'
<1>0. /\ Typed /\ FeedTypeOK /\ Gates /\ packets \in Seq(Packets) /\ state = "Ready"
      /\ Gate /\ Waiting /\ Opening /\ Spans /\ queued_bytes = BytesOf(packets)
  BY HasGates DEF FeedInv, Typed, FeedTypeOK, TakePackets, Active
<1>1. UNCHANGED <<state, headers, age, keyframe, audio, video_cutoff, last, announced>>
  BY DEF TakePackets
<1>2. /\ \A k \in Kinds : last[k] # None /\ last[k] \in Nat /\ Watermark <= last[k]
      /\ Watermark \in Nat /\ video_cutoff <= Watermark
  <2>1. "video" \in Kinds /\ "audio" \in Kinds /\ \A k \in Kinds : k = "video" \/ k = "audio"
    BY DEF Kinds
  <2>2. last["video"] # None /\ last["audio"] # None
    BY <1>0 DEF Gate
  <2>3. last["video"] \in Nat /\ last["audio"] \in Nat /\ video_cutoff \in Nat
    BY <1>0, <2>1, <2>2 DEF Gates, MaybeDts, FeedConstants
  <2>4. video_cutoff <= last["video"] /\ video_cutoff <= last["audio"]
    BY <1>0, <2>1, <2>2 DEF Gate
  <2> QED BY <2>1, <2>2, <2>3, <2>4 DEF Watermark, LowerOf
<1>3. PICK at, m : Drained(at, m)
  BY <1>0, <1>2, TakeDrains
<1>4. PICK n \in Nat, l \in Nat : n = Len(packets) /\ l = Len(packets')
  BY <1>0, <1>3 DEF Drained
<1>5. /\ m \in Nat /\ m <= n /\ l = n - m /\ DOMAIN packets = 1..n /\ DOMAIN packets' = 1..l
      /\ \A r \in 1..l : m + r \in 1..n /\ at[m + r] \in 1..n /\ packets'[r] = packets[at[m + r]]
      /\ \A r \in 1..n : at[r] \in 1..n /\ (r <= m <=> packets[at[r]].dts <= Watermark)
  <2>1. DOMAIN packets = 1..n /\ DOMAIN packets' = 1..l
    <3>1. packets' \in Seq(Packets)
      BY <1>3 DEF Drained
    <3> QED BY <1>0, <1>4, <3>1
  <2>2. m \in 0..n /\ l = n - m
    BY <1>3, <1>4 DEF Drained
  <2>3. \A r \in 1..l : m + r \in 1..n
    BY <2>2
  <2>4. \A r \in 1..n : at[r] \in 1..n
    BY <1>3, <2>1 DEF Drained, Arranged
  <2>5. \A r \in 1..n : r <= m <=> packets[at[r]].dts <= Watermark
    BY <1>3, <1>4 DEF Drained
  <2>6. \A r \in 1..l : packets'[r] = packets[at[m + r]]
    BY <1>3, <1>4 DEF Drained
  <2> QED BY <2>1, <2>2, <2>3, <2>4, <2>5, <2>6
<1>6. \A i \in 1..n : /\ packets[i].kind \in Kinds /\ packets[i].dts \in Nat
                      /\ packets[i].dts \in Dts
  BY <1>0, <1>4, PacketsOfSeq
<1>7. \A r, q \in 1..l : r < q => Precedes(at[m + r], at[m + q])
  <2>1. \A r, q \in 1..n : r < q => Precedes(at[r], at[q])
    BY <1>3, <1>5 DEF Drained, Arranged
  <2>2. SUFFICES ASSUME NEW r \in 1..l, NEW q \in 1..l, r < q
                 PROVE  Precedes(at[m + r], at[m + q])
    OBVIOUS
  <2>3. m + r \in 1..n /\ m + q \in 1..n /\ m + r < m + q
    BY <1>5, <2>2
  <2> QED BY <2>1, <2>3
<1>a. \A r, q \in 1..l : r < q =>
        /\ packets'[r].dts <= packets'[q].dts
        /\ packets'[r].dts \in Nat /\ packets'[q].dts \in Nat
  <2>1. SUFFICES ASSUME NEW r \in 1..l, NEW q \in 1..l, r < q
                 PROVE  /\ packets'[r].dts <= packets'[q].dts
                        /\ packets'[r].dts \in Nat /\ packets'[q].dts \in Nat
    OBVIOUS
  <2>2. PICK i, j : i = at[m + r] /\ j = at[m + q]
    OBVIOUS
  <2>3. /\ i \in 1..n /\ j \in 1..n /\ packets'[r] = packets[i] /\ packets'[q] = packets[j]
        /\ Precedes(i, j)
    BY <1>5, <1>7, <2>1, <2>2
  <2>4. packets[i].dts \in Nat /\ packets[j].dts \in Nat
    BY <1>6, <2>3
  <2>5. packets[i].dts <= packets[j].dts
    BY <2>3, <2>4 DEF Precedes
  <2> QED BY <2>3, <2>4, <2>5
<1>8. \A r \in 1..l : Watermark < packets'[r].dts /\ packets'[r].dts \in Nat /\ packets'[r].dts \in Dts
  <2>1. SUFFICES ASSUME NEW r \in 1..l
                 PROVE  Watermark < packets'[r].dts /\ packets'[r].dts \in Nat /\ packets'[r].dts \in Dts
    OBVIOUS
  <2>2. m + r \in 1..n /\ ~(m + r <= m)
    BY <1>5
  <2>3. ~(packets[at[m + r]].dts <= Watermark)
    BY <1>5, <2>2
  <2>4. PICK i \in 1..n : i = at[m + r]
    BY <1>5
  <2>5. packets'[r] = packets[i] /\ packets[i].dts \in Nat /\ packets[i].dts \in Dts
    BY <1>5, <1>6, <2>4
  <2>6. Watermark \in Nat /\ ~(packets[i].dts <= Watermark)
    BY <1>2, <2>3, <2>4
  <2>7. Watermark < packets[i].dts
    BY <2>5, <2>6
  <2> QED BY <2>5, <2>7
<1>9. tail' = IF Batch = <<>> THEN tail ELSE Batch[Len(Batch)].dts
  BY DEF TakePackets
<1>10. CASE m = 0 /\ tail = None
  \* The keyframe is at the cutoff, and never stays behind.
  <2>1. packets # <<>> /\ packets[1].dts = video_cutoff
    BY <1>0, <1>10 DEF Gate, Opening
  <2>2. 1 \in 1..n
    BY <1>0, <1>4, <2>1
  <2>3. PICK r \in 1..n : at[r] = 1
    BY <1>3, <1>5, <2>2 DEF Drained, Arranged
  <2>4. packets[at[r]].dts <= Watermark
    BY <1>2, <2>1, <2>3
  <2>5. r <= m
    BY <1>5, <2>4
  <2> QED BY <1>10, <2>3, <2>5
<1>11. CASE ~(m = 0 /\ tail = None)
  <2>1. (tail' # None /\ tail' \in Nat /\ tail' \in MaybeDts /\ tail' <= Watermark)
        \/ (m = 0 /\ tail' = tail /\ tail # None)
    <3>1. CASE m = 0
      <4>1. Batch = <<>>
        BY <1>3, <3>1 DEF Drained
      <4> QED BY <1>9, <1>11, <3>1, <4>1
    <3>2. CASE m # 0
      <4>1. m \in 1..m /\ m \in 1..n /\ Batch # <<>> /\ Len(Batch) = m
        BY <1>3, <1>5, <3>2 DEF Drained
      <4>2. Batch[m] = packets[at[m]] /\ packets[at[m]].dts <= Watermark
        BY <1>3, <1>5, <4>1 DEF Drained
      <4>3. packets[at[m]].dts \in Nat /\ packets[at[m]].dts \in Dts /\ None \notin Nat
        BY <1>5, <1>6, <4>1 DEF FeedConstants
      <4> QED BY <1>9, <4>1, <4>2, <4>3 DEF MaybeDts
    <3> QED BY <3>1, <3>2
  <2>2. /\ tail' # None /\ tail' \in Nat /\ tail' \in MaybeDts
        /\ \A k \in Kinds : tail' <= last[k]
        /\ \A r \in 1..l : tail' <= packets'[r].dts
    <3>1. CASE tail' # None /\ tail' \in Nat /\ tail' \in MaybeDts /\ tail' <= Watermark
      BY <1>2, <1>8, <3>1
    <3>2. CASE m = 0 /\ tail' = tail /\ tail # None
      <4>1. tail \in MaybeDts /\ tail \in Nat
        BY <1>0, <3>2 DEF FeedTypeOK, MaybeDts, FeedConstants
      <4>2. \A k \in Kinds : tail <= last[k]
        BY <1>0, <3>2 DEF Opening
      <4>3. \A i \in 1..n : tail <= packets[i].dts
        BY <1>0, <1>5, <3>2 DEF Waiting
      <4>4. \A r \in 1..l : tail <= packets'[r].dts
        BY <1>5, <4>3
      <4> QED BY <3>2, <4>1, <4>2, <4>4
    <3> QED BY <2>1, <3>1, <3>2
  <2>3. /\ l = 0 => minimum' = None /\ maximum' = None
        /\ l # 0 => minimum' = packets'[1].dts /\ maximum' = packets'[l].dts
    <3>1. Window(packets')
      BY DEF TakePackets
    <3>2. packets' = <<>> <=> l = 0
      BY <1>3, <1>4 DEF Drained
    <3> QED BY <1>4, <3>1, <3>2 DEF Window
  <2>4. minimum' \in MaybeDts /\ maximum' \in MaybeDts
    <3>1. CASE l = 0
      BY <2>3, <3>1 DEF MaybeDts
    <3>2. CASE l # 0
      BY <1>8, <2>3, <3>2 DEF MaybeDts
    <3> QED BY <3>1, <3>2
  <2>5. Typed'
    <3>1. /\ packets' \in Seq(Packets) /\ queued_bytes' \in Nat /\ queued_bytes' <= queued_bytes
          /\ queued_bytes' = BytesOf(packets')
      BY <1>3 DEF Drained
    <3>2. queued_bytes' \in 0..QueueBytes
      BY <1>0, <3>1 DEF FeedTypeOK, FeedConstants
    <3>3. FeedTypeOK'
      BY <1>0, <1>1, <2>2, <2>4, <3>1, <3>2 DEF FeedTypeOK, Gates
    <3>4. BytesOf(packets)' = BytesOf(packets')
      OBVIOUS
    <3> QED BY <3>1, <3>3, <3>4 DEF Typed
  <2>6. Gate'
    BY <1>0, <1>1, <2>2 DEF Gate
  <2>7. Waiting'
    <3>1. ASSUME NEW r \in 1..l
          PROVE  /\ video_cutoff <= packets'[r].dts
                 /\ last[packets'[r].kind] # None /\ packets'[r].dts <= last[packets'[r].kind]
      BY <1>0, <1>5 DEF Waiting
    <3>2. ASSUME NEW r \in 1..l, NEW q \in 1..l, r < q, packets'[r].kind = packets'[q].kind
          PROVE  packets'[r].dts <= packets'[q].dts
      BY <1>a, <3>2
    <3> QED BY <1>1, <1>5, <2>2, <3>1, <3>2 DEF Waiting
  <2>8. Opening'
    BY <1>1, <1>2, <2>2 DEF Opening
  <2>9. Spans'
    <3>1. CASE l = 0
      <4>1. packets' = <<>>
        BY <1>3, <1>4, <3>1 DEF Drained
      <4> QED BY <2>3, <3>1, <4>1 DEF Spans
    <3>2. CASE l # 0
      <4>1. 1 \in 1..l /\ l \in 1..l
        BY <3>2
      <4>2. \A r, q \in 1..l : r < q => packets'[r].dts <= packets'[q].dts
        BY <1>a
      <4>3. \A r \in 1..l : minimum' <= packets'[r].dts /\ packets'[r].dts <= maximum'
        <5>1. SUFFICES ASSUME NEW r \in 1..l
                       PROVE  minimum' <= packets'[r].dts /\ packets'[r].dts <= maximum'
          OBVIOUS
        <5>2. minimum' = packets'[1].dts /\ maximum' = packets'[l].dts /\ packets'[r].dts \in Nat
          BY <1>8, <2>3, <3>2
        <5>3. r = 1 \/ 1 < r
          OBVIOUS
        <5>4. r = l \/ r < l
          OBVIOUS
        <5> QED BY <4>1, <4>2, <5>2, <5>3, <5>4
      <4>4. maximum' - minimum' <= QueueDuration
        <5>1. packets # <<>>
          <6>1. n # 0
            BY <1>5, <3>2
          <6> QED BY <1>4, <6>1
        <5>2. /\ \A i \in 1..n : minimum <= packets[i].dts /\ packets[i].dts <= maximum
              /\ maximum - minimum <= QueueDuration /\ minimum # None /\ maximum # None
          BY <1>0, <1>5, <5>1 DEF Spans
        <5>3. minimum \in Nat /\ maximum \in Nat /\ QueueDuration \in Nat
          BY <1>0, <5>2 DEF Gates, MaybeDts, FeedConstants
        <5>4. /\ minimum <= packets'[1].dts /\ packets'[l].dts <= maximum
              /\ packets'[1].dts \in Nat /\ packets'[l].dts \in Nat
          BY <1>5, <1>8, <4>1, <5>2
        <5> QED BY <2>3, <3>2, <5>2, <5>3, <5>4
      <4>5. minimum' # None /\ maximum' # None
        BY <1>8, <2>3, <3>2, <4>1 DEF FeedConstants
      <4>6. packets' # <<>>
        <5>1. Len(packets') # 0
          BY <1>4, <3>2
        <5> QED BY <5>1
      <4> QED BY <1>5, <2>3, <3>2, <4>1, <4>3, <4>4, <4>5, <4>6 DEF Spans
    <3> QED BY <3>1, <3>2
  <2> QED BY <2>5, <2>6, <2>7, <2>8, <2>9 DEF FeedInv
<1> QED BY <1>10, <1>11

-----------------------------------------------------------------------------
(* The invariant of the feed, and what it shows.                            *)

LEMMA FeedStarts ==
  ASSUME FeedConstants, FeedInit
  PROVE  FeedInv
<1>1. /\ state = "Stopped" /\ headers = None /\ age = 0 /\ packets = <<>> /\ queued_bytes = 0
      /\ keyframe = FALSE /\ audio = FALSE /\ video_cutoff = 0
      /\ last = [k \in Kinds |-> None] /\ minimum = None /\ maximum = None
      /\ tail = None /\ announced = FALSE
  BY DEF FeedInit
<1>2. packets \in Seq(Packets) /\ queued_bytes \in 0..QueueBytes /\ age \in 0..Readiness
  BY <1>1 DEF FeedConstants
<1>3. last \in [Kinds -> MaybeDts] /\ None \in MaybeDts
  BY <1>1 DEF MaybeDts
<1>4. FeedTypeOK
  BY <1>1, <1>2, <1>3 DEF FeedTypeOK
<1>5. Typed /\ ~Active
  BY <1>1, <1>4, NoBytes DEF Typed, Active
<1> QED
  BY <1>5 DEF FeedInv

LEMMA FeedSteps ==
  ASSUME FeedConstants, FeedInv, [FeedNext]_feedVars
  PROVE  FeedInv'
<1>0. Typed
  BY DEF FeedInv
<1>1. CASE Begin
  BY <1>0, <1>1, BeginKeeps
<1>2. CASE Stop
  BY <1>0, <1>2, StopKeeps
<1>3. CASE Fail \/ CheckDeadline \/ Tick \/ UNCHANGED feedVars
  BY <1>3, DeadlineKeeps
<1>4. CASE TakePackets
  BY <1>4, TakeKeeps
<1>5. CASE \E c \in Configs : SetHeaders(c)
  BY <1>5, HeadersKeep
<1>6. CASE \E p \in Packets : Ingest(p)
  BY <1>6, IngestKeeps
<1> QED
  BY <1>1, <1>2, <1>3, <1>4, <1>5, <1>6 DEF FeedNext

\* What a drain hands over: in order, after what left before, from the keyframe.
LEMMA DrainFollows ==
  ASSUME FeedConstants, FeedInv, TakePackets, Batch # <<>>
  PROVE  /\ \A i, j \in DOMAIN Batch : i < j => Batch[i].dts <= Batch[j].dts
         /\ IF tail = None THEN Batch[1].keyframe ELSE tail <= Batch[1].dts
<1>0. /\ Typed /\ FeedTypeOK /\ Gates /\ packets \in Seq(Packets) /\ state = "Ready"
      /\ Gate /\ Waiting /\ Opening /\ queued_bytes = BytesOf(packets)
  BY HasGates DEF FeedInv, Typed, FeedTypeOK, TakePackets, Active
<1>1. Watermark \in Nat
  <2>1. last["video"] # None /\ last["audio"] # None /\ "video" \in Kinds /\ "audio" \in Kinds
    BY <1>0 DEF Gate, Kinds
  <2>2. last["video"] \in Nat /\ last["audio"] \in Nat
    BY <1>0, <2>1 DEF Gates, MaybeDts, FeedConstants
  <2> QED BY <2>2 DEF Watermark, LowerOf
<1>2. PICK at, m : Drained(at, m)
  BY <1>0, <1>1, TakeDrains
<1>3. PICK n \in Nat : n = Len(packets)
  BY <1>0
<1>4. /\ DOMAIN packets = 1..n /\ m \in 0..n /\ Len(Batch) = m /\ DOMAIN Batch = 1..m
      /\ \A r \in 1..m : Batch[r] = packets[at[r]]
  <2>1. Batch \in Seq(Packets) /\ Len(Batch) = m /\ m \in 0..Len(packets)
    BY <1>2 DEF Drained
  <2>2. \A r \in 1..m : Batch[r] = packets[at[r]]
    BY <1>2 DEF Drained
  <2> QED BY <1>0, <1>3, <2>1, <2>2
<1>5. \A r \in 1..n : at[r] \in 1..n
  BY <1>2, <1>4 DEF Drained, Arranged
<1>6. \A r, q \in 1..n : r < q => Precedes(at[r], at[q])
  BY <1>2, <1>4 DEF Drained, Arranged
<1>7. \A i \in 1..n : /\ packets[i].dts \in Nat /\ packets[i].kind \in Kinds
                      /\ (packets[i].keyframe => packets[i].kind = "video")
  BY <1>0, <1>3, PacketsOfSeq
<1>8. ASSUME NEW i \in 1..m, NEW j \in 1..m, i < j PROVE Batch[i].dts <= Batch[j].dts
  <2>1. i \in 1..n /\ j \in 1..n
    BY <1>4
  <2>2. PICK k \in 1..n, l \in 1..n : k = at[i] /\ l = at[j]
    BY <1>5, <2>1
  <2>3. Precedes(k, l)
    BY <1>6, <1>8, <2>1, <2>2
  <2>4. packets[k].dts <= packets[l].dts
    BY <1>7, <2>3 DEF Precedes
  <2> QED BY <1>4, <2>2, <2>4
<1>9. 1 \in 1..m /\ 1 \in 1..n
  <2>1. m # 0
    <3>1. Batch \in Seq(Packets)
      BY <1>2 DEF Drained
    <3> QED BY <1>4, <3>1, EmptyOrNot
  <2> QED BY <1>4, <2>1
<1>10. PICK k \in 1..n : k = at[1] /\ Batch[1] = packets[k]
  BY <1>4, <1>5, <1>9
<1>11. ASSUME tail # None PROVE tail <= Batch[1].dts
  BY <1>0, <1>4, <1>10, <1>11 DEF Waiting
<1>12. ASSUME tail = None PROVE Batch[1].keyframe
  <2>1. packets[1].keyframe /\ packets[1].dts = video_cutoff
    BY <1>0, <1>12 DEF Gate, Opening
  <2>2. \A i \in 1..n : ~Precedes(i, 1)
    <3>1. SUFFICES ASSUME NEW i \in 1..n, Precedes(i, 1) PROVE FALSE
      OBVIOUS
    <3>2. video_cutoff <= packets[i].dts /\ packets[i].dts \in Nat /\ packets[1].dts \in Nat
      BY <1>0, <1>4, <1>7, <1>9 DEF Waiting
    <3>3. packets[1].kind = "video"
      BY <1>7, <1>9, <2>1
    <3> QED BY <2>1, <3>1, <3>2, <3>3 DEF Precedes
  <2>3. PICK r \in 1..n : at[r] = 1
    BY <1>2, <1>4, <1>9 DEF Drained, Arranged
  <2>4. ~(1 < r)
    BY <1>5, <1>6, <1>9, <2>2, <2>3
  <2>5. r = 1
    BY <2>4
  <2> QED BY <1>10, <1>12, <2>1, <2>3, <2>5
<1> QED
  BY <1>4, <1>8, <1>11, <1>12

\* The cached limits speak of packets that wait.
LEMMA FullOfWhatWaits ==
  ASSUME FeedConstants, FeedInv, NEW p \in Packets, IngestFull(p)
  PROVE  \/ BytesOf(packets) + p.size > QueueBytes
         \/ Len(packets) >= QueuePackets
         \/ \E i \in DOMAIN packets :
              HigherOf(packets[i].dts, p.dts) - LowerOf(packets[i].dts, p.dts)
                > QueueDuration
<1>0. /\ Typed /\ FeedTypeOK /\ packets \in Seq(Packets) /\ Spans
      /\ queued_bytes = BytesOf(packets) /\ queued_bytes \in Nat /\ Exceeds(p)
  <2>1. Active /\ Exceeds(p)
    BY DEF FeedInv, Typed, FeedTypeOK, IngestFull, Passes, Open, Latched, Active
  <2> QED BY <2>1 DEF FeedInv, Typed, FeedTypeOK
<1>1. p.dts \in Nat /\ p.size \in Nat /\ QueueBytes \in Nat /\ QueueDuration \in Nat
  BY PacketFields DEF FeedConstants
<1>2. CASE p.size > QueueBytes - queued_bytes
  BY <1>0, <1>1, <1>2
<1>3. CASE Len(packets) >= QueuePackets
  BY <1>3
<1>4. CASE Highest(p) - Lowest(p) > QueueDuration
  <2>1. packets # <<>> /\ minimum # None /\ maximum # None
    <3>1. SUFFICES ASSUME packets = <<>> PROVE FALSE
      BY <1>0 DEF Spans
    <3>2. Highest(p) = p.dts /\ Lowest(p) = p.dts
      BY <1>0, <3>1, BoundsOf DEF Spans
    <3> QED BY <1>1, <1>4, <3>2
  <2>2. PICK i \in DOMAIN packets : packets[i].dts = minimum
    BY <1>0, <2>1 DEF Spans
  <2>3. PICK j \in DOMAIN packets : packets[j].dts = maximum
    BY <1>0, <2>1 DEF Spans
  <2>4. minimum \in Nat /\ maximum \in Nat /\ maximum - minimum <= QueueDuration
    BY <1>0, <2>1, BoundsOf DEF Spans
  <2>5. \/ HigherOf(minimum, p.dts) - LowerOf(minimum, p.dts) > QueueDuration
        \/ HigherOf(maximum, p.dts) - LowerOf(maximum, p.dts) > QueueDuration
    BY <1>1, <1>4, <2>1, <2>4 DEF Highest, Lowest, HigherOf, LowerOf
  <2> QED BY <2>2, <2>3, <2>5
<1> QED
  BY <1>0, <1>2, <1>3, <1>4 DEF Exceeds

\* What waits, the gate and the cached limits agree after every call.
THEOREM FeedKept == FeedSpec => []FeedInv
<1>1. FeedInit => FeedInv
  BY FeedStarts, FeedConstants
<1>2. FeedInv /\ [FeedNext]_feedVars => FeedInv'
  BY FeedSteps, FeedConstants
<1> QED
  BY <1>1, <1>2, PTL DEF FeedSpec

\* take_packets: whatever the order of the two callbacks, the drains together
\* are one stream that opens on the keyframe and never goes back.
THEOREM DrainsJoin == FeedSpec => DrainsAreOneStream
<1>1. FeedInv /\ [FeedNext]_feedVars =>
        [TakePackets /\ Batch # <<>> =>
           /\ \A i, j \in DOMAIN Batch : i < j => Batch[i].dts <= Batch[j].dts
           /\ IF tail = None THEN Batch[1].keyframe
                             ELSE tail <= Batch[1].dts]_feedVars
  BY DrainFollows, FeedConstants
<1> QED
  BY <1>1, FeedKept, PTL DEF FeedSpec, DrainsAreOneStream

\* ingest: the queue limit is reported only of packets that are held, though it
\* is measured on a minimum and a maximum kept from one drain to the next.
THEOREM LimitsMeanWhatWaits == FeedSpec => FailsOnlyWhenFull
<1>1. FeedInv /\ [FeedNext]_feedVars =>
        [\A p \in Packets : IngestFull(p) =>
           \/ BytesOf(packets) + p.size > QueueBytes
           \/ Len(packets) >= QueuePackets
           \/ \E i \in DOMAIN packets :
                HigherOf(packets[i].dts, p.dts) - LowerOf(packets[i].dts, p.dts)
                  > QueueDuration]_feedVars
  BY FullOfWhatWaits, FeedConstants
<1> QED
  BY <1>1, FeedKept, PTL DEF FeedSpec, FailsOnlyWhenFull

-----------------------------------------------------------------------------
(* The capture drives the feed by its own calls alone.                      *)

LEMMA CaptureCallsFeed ==
  ASSUME CaptureConstants, CaptureTypes, [CaptureNext]_vars
  PROVE  [FeedNext]_feedVars
<1>1. CASE UNCHANGED vars
  BY <1>1 DEF vars
<1>2. CASE Prepare \/ StartCapture
  BY <1>2 DEF Prepare, StartCapture, FeedNext
<1>3. CASE \E ok \in BOOLEAN : PrepareReturns(ok) \/ StartReturns(ok)
  BY <1>3 DEF PrepareReturns, StartReturns, FeedNext
<1>4. CASE SpawnMonitor \/ CaptureBegins \/ CheckStarted \/ Cleanup
  BY <1>4 DEF SpawnMonitor, CaptureBegins, CheckStarted, Cleanup, CancelMonitor,
     JoinMonitor, Quiesced
<1>5. CASE Drain \/ StopCapture
  BY <1>5 DEF Drain, StopCapture, RejectsLate, FeedNext
<1>6. CASE Monitor
  BY <1>6 DEF Monitor, MonitorWakes, MonitorLooks, FeedNext
<1>7. CASE EncoderStops \/ Time
  BY <1>7 DEF EncoderStops, Time, FeedNext
<1>8. ASSUME NEW k \in Kinds, Encoder(k) PROVE [FeedNext]_feedVars
  <2>1. CASE Deliver(k) \/ Observe(k)
    BY <2>1 DEF Deliver, Observe
  <2>2. CASE Rejected(k)
    BY <2>2 DEF Rejected, FeedNext
  <2>3. CASE Headers(k)
    BY <2>3, CaptureConstants DEF Headers, FeedNext
  <2>4. CASE Queue(k)
    <3>1. held[k] \in Packets
      BY <2>4 DEF CaptureTypes, Queue
    <3> QED BY <2>4, <3>1 DEF Queue, FeedNext
  <2> QED BY <1>8, <2>1, <2>2, <2>3, <2>4 DEF Encoder, CallbackEnds
<1> QED
  BY <1>1, <1>2, <1>3, <1>4, <1>5, <1>6, <1>7, <1>8 DEF CaptureNext, Owner

\* A feed that is down only listens again when it is begun, and says nothing.
LEMMA DownStaysDown ==
  ASSUME Latched, [FeedNext]_feedVars
  PROVE  /\ Latched' \/ Begin
         /\ ~announced /\ announced' => FALSE
<1>1. CASE UNCHANGED feedVars
  BY <1>1 DEF feedVars, Latched
<1>2. CASE Begin \/ Stop
  BY <1>2 DEF Begin, Stop, Latched
<1>3. CASE Fail \/ CheckDeadline \/ Tick \/ TakePackets
  BY <1>3 DEF Fail, CheckDeadline, Expire, Expired, Tick, TakePackets, Latched, feedVars
<1>4. ASSUME NEW c \in Configs, SetHeaders(c) PROVE Latched' /\ announced' = announced
  BY <1>4 DEF SetHeaders, Expire, Expired, Closed, Open, Latched, feedVars
<1>5. ASSUME NEW p \in Packets, Ingest(p) PROVE Latched' /\ announced' = announced
  BY <1>5 DEF Ingest, Expire, Expired, Closed, Open, Latched, feedVars, IngestSkipped,
     IngestBackwards, IngestFull, IngestKept, Passes
<1> QED BY <1>1, <1>2, <1>3, <1>4, <1>5 DEF FeedNext

\* Begin is a call of the idle owner alone.
LEMMA FeedGoesDown ==
  ASSUME CaptureConstants, CaptureInv, [CaptureNext]_vars
  PROVE  Down'
<1>1. CASE pc \in {"cleaning", "joining", "quiescing"}
  <2>1. Latched /\ [FeedNext]_feedVars
    BY <1>1, CaptureCallsFeed DEF CaptureInv, Down
  <2>2. CASE Latched'
    BY <2>2 DEF Down
  <2>3. CASE Begin /\ ~Latched'
    <3>1. state' = "Starting"
      BY <2>3 DEF Begin
    <3>2. pc' = "idle" \/ UNCHANGED state \/ Latched'
      BY <1>1, <2>1, <3>1 DEF CaptureNext, Owner, Prepare, StartCapture, SpawnMonitor,
         CaptureBegins, CheckStarted, Drain, StopCapture, RejectsLate, Cleanup,
         CancelMonitor, JoinMonitor, Quiesced, PrepareReturns, StartReturns, Monitor,
         MonitorWakes, MonitorLooks, EncoderStops, Time, Encoder, CallbackEnds, Deliver,
         Observe, Rejected, Headers, Queue, vars, feedVars, CheckDeadline, Expire, Expired,
         Fail, Failing, Tick, SetHeaders, Ingest, Closed, Open, Latched, IngestSkipped,
         IngestBackwards, IngestFull, IngestKept, Passes
    <3> QED BY <2>1, <2>3, <3>1, <3>2 DEF Down, Latched
  <2> QED BY <2>1, <2>2, <2>3, DownStaysDown
<1>2. CASE pc \notin {"cleaning", "joining", "quiescing"} /\ Down
  <2>1. CASE pc' \notin {"cleaning", "joining", "quiescing"}
    BY <2>1 DEF Down
  <2>2. CASE StopCapture
    BY <2>2 DEF StopCapture, RejectsLate, Stop, Latched, Down
  <2>3. CASE \E ok \in BOOLEAN : PrepareReturns(ok) \/ StartReturns(ok)
    BY <2>3 DEF PrepareReturns, StartReturns, Fail, Failing, Latched, Down
  <2>4. CASE CheckStarted
    BY <2>4 DEF CheckStarted, Latched, Down, feedVars
  <2>5. CASE UNCHANGED pc
    BY <1>2, <2>5 DEF Down
  <2>6. CASE Prepare \/ StartCapture \/ SpawnMonitor \/ CaptureBegins
    BY <2>6 DEF Prepare, StartCapture, SpawnMonitor, CaptureBegins, Down
  <2>7. CASE Cleanup
    BY <1>2, <2>7 DEF Cleanup, CancelMonitor, JoinMonitor, Quiesced
  <2>8. ASSUME NEW k \in Kinds, Encoder(k) PROVE UNCHANGED pc
    BY <2>8 DEF Encoder, CallbackEnds, Deliver, Observe, Rejected, Headers, Queue, ownerVars
  <2>9. CASE Drain \/ Monitor \/ EncoderStops \/ Time \/ UNCHANGED vars
    BY <2>5, <2>9 DEF Drain, Monitor, MonitorWakes, MonitorLooks, EncoderStops, Time,
       ownerVars, vars
  <2> QED
    BY <2>2, <2>3, <2>4, <2>5, <2>6, <2>7, <2>8, <2>9 DEF CaptureNext, Owner
<1> QED BY <1>1, <1>2 DEF CaptureInv

LEMMA CaptureTypesStay ==
  ASSUME CaptureConstants, CaptureTypes, [CaptureNext]_vars
  PROVE  CaptureTypes'
<1>1. CASE UNCHANGED vars
  BY <1>1 DEF vars, ownerVars, watchVars, hostVars, CaptureTypes
<1>2. CASE Owner
  <2>1. rounds' \in 0..MaxRounds
    BY <1>2, CaptureConstants DEF Owner, Prepare, StartCapture, SpawnMonitor,
       CaptureBegins, CheckStarted, Drain, StopCapture, Cleanup, CancelMonitor, JoinMonitor,
       Quiesced, PrepareReturns, StartReturns, ownerVars, CaptureTypes
  <2>2. UNCHANGED <<callback, held>>
    BY <1>2 DEF Owner, Prepare, StartCapture, SpawnMonitor, CaptureBegins, CheckStarted,
       Drain, StopCapture, Cleanup, CancelMonitor, JoinMonitor, Quiesced, PrepareReturns,
       StartReturns, hostVars
  <2>3. CASE Prepare \/ StartCapture \/ SpawnMonitor \/ CaptureBegins
    BY <2>1, <2>2, <2>3 DEF Prepare, StartCapture, SpawnMonitor, Spawns, CaptureBegins,
       watchVars, hostVars, CaptureTypes
  <2>4. CASE \E ok \in BOOLEAN : PrepareReturns(ok) \/ StartReturns(ok)
    BY <2>1, <2>2, <2>4 DEF PrepareReturns, StartReturns, watchVars, hostVars, CaptureTypes
  <2>5. CASE CheckStarted \/ Drain \/ StopCapture
    BY <2>1, <2>2, <2>5 DEF CheckStarted, Drain, StopCapture, ownerVars, watchVars, hostVars,
       CaptureTypes
  <2>6. CASE Cleanup
    BY <2>1, <2>2, <2>6 DEF Cleanup, CancelMonitor, JoinMonitor, Quiesced, watchVars,
       hostVars, CaptureTypes
  <2> QED BY <1>2, <2>3, <2>4, <2>5, <2>6 DEF Owner
<1>3. CASE Monitor
  BY <1>3 DEF Monitor, MonitorWakes, Wakes, MonitorLooks, ownerVars, hostVars, CaptureTypes
<1>4. CASE EncoderStops \/ Time
  BY <1>4 DEF EncoderStops, Time, ownerVars, watchVars, hostVars, CaptureTypes
<1>5. ASSUME NEW k \in Kinds, Encoder(k) PROVE CaptureTypes'
  <2>1. UNCHANGED <<ownerVars, watchVars, capturing>>
    BY <1>5 DEF Encoder, CallbackEnds, Deliver, Observe, Rejected, Headers, Queue
  <2>2. observed' \subseteq Kinds
    BY <1>5 DEF Encoder, CallbackEnds, Deliver, Observe, Rejected, Headers, Queue, CaptureTypes
  <2>3. /\ callback' \in [Kinds -> {"out", "observe", "headers", "ingest"}]
        /\ held' \in [Kinds -> Packets \cup {None}]
        /\ \A j \in Kinds : held'[j] = None <=> callback'[j] = "out"
    <3>1. CASE Deliver(k)
      <4>1. PICK p \in Packets : held' = [held EXCEPT ![k] = p]
        BY <3>1 DEF Deliver
      <4>2. callback' = [callback EXCEPT ![k] = "observe"]
        BY <3>1 DEF Deliver, Goto
      <4>3. p # None
        BY CaptureConstants
      <4> QED BY <4>1, <4>2, <4>3 DEF CaptureTypes
    <3>2. CASE Observe(k)
      <4>1. PICK s \in {"headers", "ingest"} : callback' = [callback EXCEPT ![k] = s]
        BY <3>2 DEF Observe, Goto
      <4>2. held' = held /\ callback[k] = "observe"
        BY <3>2 DEF Observe
      <4> QED BY <4>1, <4>2 DEF CaptureTypes
    <3>3. CASE Headers(k)
      BY <3>3 DEF Headers, Goto, CaptureTypes
    <3>4. CASE Queue(k) \/ Rejected(k)
      <4>1. /\ callback' = [callback EXCEPT ![k] = "out"]
            /\ held' = [held EXCEPT ![k] = None]
        BY <3>4 DEF Queue, Rejected, Goto
      <4> QED BY <4>1 DEF CaptureTypes
    <3> QED BY <1>5, <3>1, <3>2, <3>3, <3>4 DEF Encoder, CallbackEnds
  <2> QED BY <2>1, <2>2, <2>3 DEF CaptureTypes, ownerVars, watchVars
<1> QED BY <1>1, <1>2, <1>3, <1>4, <1>5 DEF CaptureNext

\* A callback begins only while the backend captures, and the backend captures
\* only under an owner that has started it and not yet joined the monitor.
LEMMA ThreadsStay ==
  ASSUME CaptureConstants, CaptureInv, [CaptureNext]_vars
  PROVE  Threads'
<1> USE DEF CaptureInv
<1>1. CASE UNCHANGED vars
  BY <1>1 DEF vars, ownerVars, watchVars, hostVars, Threads, Captures, Watching
<1>2. CASE Owner
  <2>1. CASE Prepare \/ StartCapture \/ SpawnMonitor \/ CaptureBegins
    BY <2>1 DEF Prepare, StartCapture, SpawnMonitor, Spawns, CaptureBegins, watchVars,
       hostVars, Threads, Captures, Watching
  <2>2. CASE \E ok \in BOOLEAN : PrepareReturns(ok) \/ StartReturns(ok)
    BY <2>2 DEF PrepareReturns, StartReturns, watchVars, hostVars, Threads, Captures, Watching
  <2>3. CASE CheckStarted \/ Drain \/ StopCapture
    BY <2>3 DEF CheckStarted, Drain, StopCapture, ownerVars, watchVars, hostVars, Threads,
       Captures, Watching
  <2>4. CASE CancelMonitor \/ JoinMonitor
    BY <2>4 DEF CancelMonitor, JoinMonitor, Joins, hostVars, Threads, Captures, Watching
  <2>5. CASE Quiesced
    BY <2>5 DEF Quiesced, Quiet, watchVars, hostVars, Threads, Captures, Watching
  <2> QED BY <1>2, <2>1, <2>2, <2>3, <2>4, <2>5 DEF Owner, Cleanup
<1>3. CASE Monitor
  BY <1>3 DEF Monitor, MonitorWakes, MonitorLooks, ownerVars, hostVars, Threads, Captures,
     Watching
<1>4. CASE EncoderStops \/ Time
  BY <1>4 DEF EncoderStops, Time, ownerVars, watchVars, hostVars, Threads, Captures, Watching
<1>5. ASSUME NEW k \in Kinds, Encoder(k) PROVE Threads'
  <2>1. UNCHANGED <<ownerVars, watchVars, capturing>>
    BY <1>5 DEF Encoder, CallbackEnds, Deliver, Observe, Rejected, Headers, Queue
  <2>2. callback[k] # "out" \/ capturing
    BY <1>5 DEF Encoder, CallbackEnds, Deliver, Observe, Rejected, Headers, Queue
  <2>3. \A j \in Kinds : j # k => callback'[j] = callback[j]
    BY <1>5 DEF Encoder, CallbackEnds, Deliver, Observe, Rejected, Headers, Queue, Goto,
       CaptureTypes
  <2> QED BY <2>1, <2>2, <2>3 DEF Threads, Captures, Watching, ownerVars, watchVars
<1> QED BY <1>1, <1>2, <1>3, <1>4, <1>5 DEF CaptureNext

LEMMA CaptureStarts ==
  ASSUME CaptureConstants, CaptureInit
  PROVE  CaptureInv
<1>1. rounds \in 0..MaxRounds
  BY CaptureConstants DEF CaptureInit
<1>2. /\ callback = [k \in Kinds |-> "out"]
      /\ held = [k \in Kinds |-> None]
  BY DEF CaptureInit
<1>3. CaptureTypes
  BY <1>1, <1>2 DEF CaptureInit, CaptureTypes
<1>4. Threads /\ Down
  BY <1>2 DEF CaptureInit, Threads, Captures, Watching, Down
<1> QED BY <1>3, <1>4 DEF CaptureInv

\* The life cycle of a capture is kept by every step of its four threads.
THEOREM CaptureKept == CaptureSpec => []CaptureInv
<1> USE CaptureConstants
<1>1. CaptureInit => CaptureInv
  BY CaptureStarts
<1>2. CaptureInv /\ [CaptureNext]_vars => CaptureInv'
  <2>1. SUFFICES ASSUME CaptureInv, [CaptureNext]_vars PROVE CaptureInv'
    OBVIOUS
  <2>2. CaptureTypes'
    BY <2>1, CaptureTypesStay DEF CaptureInv
  <2> QED BY <2>1, <2>2, ThreadsStay, FeedGoesDown DEF CaptureInv
<1> QED BY <1>1, <1>2, PTL DEF CaptureSpec

\* holding-capture.cpp and the backend touch the feed through its calls alone:
\* every capture is a history of the feed.
THEOREM CaptureUsesFeed == CaptureSpec => FeedSpec
<1>1. CaptureInit => FeedInit
  BY DEF CaptureInit
<1>2. CaptureInv /\ [CaptureNext]_vars => [FeedNext]_feedVars
  BY CaptureConstants, CaptureCallsFeed DEF CaptureInv
<1> QED BY <1>1, <1>2, CaptureKept, PTL DEF CaptureSpec, FeedSpec

\* Threads and callbacks of one capture are over when the next one begins: no
\* prepare or start finds a callback running or a monitor to join.
THEOREM CapturesStaySound == CaptureSpec => []CaptureSound
<1>1. CaptureInv /\ FeedInv => CaptureSound
  BY DEF CaptureInv, CaptureTypes, Threads, Captures, Watching, FeedInv, Typed, CaptureSound,
     CaptureTypeOK, OneMonitor
<1> QED BY <1>1, CaptureKept, CaptureUsesFeed, FeedKept, PTL

\* A stop the owner asked for never reaches the failure callback, whatever the
\* encoders and the monitor were doing.
THEOREM StopsAreQuiet == CaptureSpec => QuietStop
<1>1. CaptureInv /\ [CaptureNext]_vars
        => [~announced /\ announced' => pc \notin {"cleaning", "joining", "quiescing"}]_vars
  <2>1. SUFFICES ASSUME CaptureInv, [CaptureNext]_vars, ~announced, announced',
                        pc \in {"cleaning", "joining", "quiescing"}
                 PROVE  FALSE
    OBVIOUS
  <2>2. Latched /\ [FeedNext]_feedVars
    BY <2>1, CaptureConstants, CaptureCallsFeed DEF CaptureInv, Down
  <2> QED BY <2>1, <2>2, DownStaysDown
<1> QED BY <1>1, CaptureKept, PTL DEF CaptureSpec, QuietStop
=============================================================================
