---------------------- MODULE TransitionCoordinatorProofs ----------------------
(***************************************************************************)
(* Whatever frame and sound durations, shapes, limits and hand-overs: the   *)
(* output time line never goes back (NeverRegresses), though an action may  *)
(* supersede a transition at any of its steps.                              *)
(*                                                                          *)
(* The invariant, LineInv, orders all there is along one line, from what    *)
(* the viewer has to what the feeds have yet to give (Good):                *)
(*   Posted   what the viewer has, then the outbox, then what was published *)
(*   Lined    what was published, then the schedule, then the tail          *)
(*   Ahead    the tail, then the boundary and what waits, shifted into the  *)
(*            epoch, then what the selected feed gives next                 *)
(*   Paced    which of the queues may hold something                        *)
(*   Headed, Opened   the headers of an epoch are on their way, the viewer  *)
(*            has them, or the epoch is superseded and nobody sees it       *)
(* A throw ends Lined, Paced, Ahead and Headed; Posted and Opened remain,   *)
(* for the outbox is still dispatched.                                      *)
(*                                                                          *)
(* On top of it QuietInv shows that nobody hears the programme under a      *)
(* holding picture (HoldingIsSilent).  Its part of the coordinator (Quiet): *)
(*   Levels, Queued    the tails cover what was sent; what the encoders     *)
(*                     have given, and how far their sound is               *)
(*   Hushed, Veiled    holding's pictures come behind the programme's sound *)
(*   Curtain           the programme's sound starts at a mark, and a        *)
(*                     picture no later than the mark is ahead of it        *)
(*                                                                          *)
(* Each member function keeps Good from the coordinator it finds to the one *)
(* it leaves, whatever the feeds, the viewer and the epochs are at: those   *)
(* lemmas take them as parameters (next, dts, pub, epoch).                  *)
(***************************************************************************)
EXTENDS TransitionCoordinator, SequenceTheorems, FiniteSetTheorems,
        NaturalsInduction, WellFoundedInduction, TLAPS

-----------------------------------------------------------------------------
(* The inductive invariant.                                                 *)

Packet == {p \in [kind : {"Video", "Audio"}, key : BOOLEAN, dts : Int, pts : Int,
                  drain : BOOLEAN] : p.kind = "Audio" => p.pts = p.dts}
Tails == [output : Int, audio : Int, video : Int]
Batches == [epoch : Nat, ticket : Nat, feed : Feeds, packets : Seq(Packet) \ {<<>>},
            avc : Feeds \cup {None}]
Fields ==
  {"epoch", "desired", "selected", "cutoff", "offset", "boundary", "waiting",
   "scheduled", "headers", "tail", "published", "published_feed", "silent",
   "drain_required", "guard_active", "drain_time", "paced_holding",
   "paced_programme", "boundary_sent", "boundary_delivered", "resume_time",
   "ack_age", "resume_age", "ticket", "drain_ticket", "holding_ticket",
   "programme_ticket", "boundary_left", "programme_left", "key_left", "outbox",
   "error"}
Typed(c) ==
  /\ Fields \subseteq DOMAIN c
  /\ c.epoch \in Nat /\ c.ticket \in Nat
  /\ c.desired \in Feeds /\ c.selected \in Feeds \cup {None}
  /\ c.headers \in Feeds \cup {None} /\ c.published_feed \in Feeds
  /\ c.cutoff \in Int \cup {None} /\ c.offset \in Int
  /\ c.boundary \in Seq(Packet) /\ c.waiting \in Seq(Packet)
  /\ c.scheduled \in Seq(Packet) /\ c.outbox \in Seq(Batches)
  /\ c.tail \in Tails /\ c.published \in Tails
  /\ c.silent \in BOOLEAN /\ c.drain_required \in BOOLEAN
  /\ c.paced_holding \in BOOLEAN /\ c.paced_programme \in BOOLEAN

-----------------------------------------------------------------------------
(* Natural numbers and recursion.                                          *)

\* Every non-empty set of natural numbers has a least element.
LEMMA NatMinimum ==
  ASSUME NEW S, S \subseteq Nat, S # {}
  PROVE  \E n \in S : \A m \in S : n <= m
<1>1. IsWellFoundedOn(OpToRel(<, Nat), Nat)
  BY NatLessThanWellFounded, Zenon
<1>2. PICK n \in S : \A m \in S : <<m, n>> \notin OpToRel(<, Nat)
  BY <1>1, WFMin, Zenon
<1>3. \A m \in S : ~(m < n)
  BY <1>2 DEF OpToRel
<1> QED
  BY <1>3

\* A non-empty set of positions has a last one.
LEMMA IntervalMaximum ==
  ASSUME NEW N \in Nat, NEW S, S \subseteq 1..N, S # {}
  PROVE  \E n \in S : \A m \in S : m <= n
<1> DEFINE T == {N - i : i \in S}
<1>1. T \subseteq Nat /\ T # {}
  <2>1. \A i \in S : N - i \in Nat
    OBVIOUS
  <2>2. PICK i \in S : TRUE
    OBVIOUS
  <2>3. N - i \in T
    OBVIOUS
  <2> QED BY <2>1, <2>3
<1>2. PICK k \in T : \A m \in T : k <= m
  BY <1>1, NatMinimum
<1>3. PICK n \in S : k = N - n
  OBVIOUS
<1>4. \A m \in S : N - n <= N - m
  BY <1>2, <1>3
<1> QED
  BY <1>4

\* A set of natural numbers that holds 0 and is closed under successor.
LEMMA NatSetInduction ==
  ASSUME NEW S, 0 \in S, \A n \in Nat : n \in S => n + 1 \in S
  PROVE  \A n \in Nat : n \in S
<1> DEFINE T == Nat \ S
<1>1. SUFFICES ASSUME T # {} PROVE FALSE
  OBVIOUS
<1>2. PICK n \in T : \A m \in T : n <= m
  BY <1>1, NatMinimum
<1>3. n # 0 /\ n - 1 \in Nat
  BY <1>2
<1>4. n - 1 \in S
  BY <1>2, <1>3
<1> QED
  BY <1>3, <1>4

\* A function over the prefixes of a sequence of steps: what a definition by
\* recursion on the length of a prefix denotes.
Iterates(f, A, start, N, step) ==
  /\ f \in [0..N -> A]
  /\ f[0] = start
  /\ \A n \in 1..N : f[n] = step[n][f[n - 1]]

\* What recurses over 1..N has a function of its values.
LEMMA PrefixRecursion ==
  ASSUME NEW A, NEW start \in A, NEW N \in Nat,
         NEW step \in [1..N -> [A -> A]]
  PROVE  \E f : Iterates(f, A, start, N, step)
<1> DEFINE Iterated(f, n) == /\ f \in [0..n -> A]
                            /\ f[0] = start
                            /\ \A m \in 1..n : f[m] = step[m][f[m - 1]]
           S == {n \in Nat : n <= N => \E f : Iterated(f, n)}
<1>1. 0 \in S
  <2>1. Iterated([n \in 0..0 |-> start], 0)
    OBVIOUS
  <2> QED BY <2>1
<1>2. ASSUME NEW n \in Nat, n \in S PROVE n + 1 \in S
  <2>1. SUFFICES ASSUME n + 1 <= N PROVE \E f : Iterated(f, n + 1)
    OBVIOUS
  <2>2. PICK f : Iterated(f, n)
    BY <1>2, <2>1
  <2> DEFINE g == [m \in 0..(n + 1) |-> IF m = n + 1 THEN step[n + 1][f[n]]
                                       ELSE f[m]]
  <2>3. n + 1 \in 1..N /\ f[n] \in A
    BY <2>1, <2>2
  <2>4. step[n + 1][f[n]] \in A
    BY <2>3
  <2>5. g \in [0..(n + 1) -> A]
    BY <2>2, <2>4
  <2>6. g[0] = start
    BY <2>2
  <2>7. ASSUME NEW m \in 1..(n + 1) PROVE g[m] = step[m][g[m - 1]]
    <3>1. CASE m = n + 1
      <4>1. g[m] = step[n + 1][f[n]] /\ g[m - 1] = f[n]
        BY <3>1
      <4> QED BY <3>1, <4>1
    <3>2. CASE m # n + 1
      <4>1. m \in 1..n
        BY <3>2
      <4>2. g[m] = f[m] /\ g[m - 1] = f[m - 1]
        BY <4>1
      <4> QED BY <2>2, <4>1, <4>2
    <3> QED BY <3>1, <3>2
  <2>8. Iterated(g, n + 1)
    BY <2>5, <2>6, <2>7
  <2> QED BY <2>8
<1>3. \A n \in Nat : n \in S
  BY <1>1, <1>2, NatSetInduction
<1>4. PICK f : Iterated(f, N)
  BY <1>3
<1> QED
  BY <1>4 DEF Iterates

-----------------------------------------------------------------------------
(* Sequences of packets.                                                    *)

\* At goes over the sequence, a position at a time.
LEMMA AtSteps ==
  ASSUME NEW T, NEW q \in Seq(T), NEW positions
  PROVE  \E d \in [0..Len(q) -> Seq(T)] :
           /\ At(q, positions) = d[Len(q)] /\ d[0] = <<>>
           /\ \A n \in 1..Len(q) :
                d[n] = IF n \in positions THEN Append(d[n - 1], q[n]) ELSE d[n - 1]
<1> DEFINE N == Len(q)
           A == Seq(T)
           Step(n, r) == IF n \in positions THEN Append(r, q[n]) ELSE r
           Is(d) == d = [n \in 0..N |-> IF n = 0 THEN <<>> ELSE Step(n, d[n - 1])]
<1>1. N \in Nat /\ <<>> \in A
  OBVIOUS
<1>2. ASSUME NEW n \in 1..N, NEW r \in A PROVE Step(n, r) \in A
  OBVIOUS
<1>3. PICK step \in [1..N -> [A -> A]] :
          \A n \in 1..N : \A r \in A : step[n][r] = Step(n, r)
  <2> DEFINE st == [n \in 1..N |-> [r \in A |-> Step(n, r)]]
  <2>1. st \in [1..N -> [A -> A]]
    BY <1>2
  <2> QED BY <2>1
<1> HIDE DEF N, A
<1>4. PICK f : Iterates(f, A, <<>>, N, step)
  BY <1>1, PrefixRecursion
<1>5. Is(f)
  <2>1. ASSUME NEW n \in 0..N
        PROVE  f[n] = IF n = 0 THEN <<>> ELSE Step(n, f[n - 1])
    <3>1. CASE n = 0
      BY <3>1, <1>4 DEF Iterates
    <3>2. CASE n # 0
      <4>1. n \in 1..N /\ f[n - 1] \in A
        BY <3>2, <1>1, <1>4 DEF Iterates
      <4>2. f[n] = step[n][f[n - 1]]
        BY <4>1, <1>4 DEF Iterates
      <4> HIDE DEF Step
      <4> QED BY <3>2, <4>1, <4>2, <1>3
    <3> QED BY <3>1, <3>2
  <2> QED BY <2>1, <1>4 DEF Iterates
<1> DEFINE d == CHOOSE g : Is(g)
<1>6. At(q, positions) = d[N]
  BY DEF At, N
<1>7. Is(d)
  BY <1>5
<1> HIDE DEF d, Step
<1>8. d[0] = <<>> /\ \A n \in 1..N : d[n] = Step(n, d[n - 1])
  BY <1>1, <1>7
<1> DEFINE S == {n \in Nat : n <= N => d[n] \in A}
<1>9. 0 \in S
  BY <1>1, <1>8
<1>10. ASSUME NEW n \in Nat, n \in S PROVE n + 1 \in S
  <2>1. SUFFICES ASSUME n + 1 <= N PROVE d[n + 1] \in A
    OBVIOUS
  <2>2. n + 1 \in 1..N /\ d[n] \in A /\ (n + 1) - 1 = n
    BY <2>1, <1>1, <1>10
  <2>3. d[n + 1] = Step(n + 1, d[n])
    BY <2>2, <1>8
  <2> QED BY <2>2, <2>3, <1>2
<1>11. \A n \in Nat : n \in S
  BY <1>9, <1>10, NatSetInduction
<1>12. d \in [0..N -> A]
  <2>1. \A n \in 0..N : d[n] \in A
    BY <1>1, <1>11
  <2>2. d = [n \in 0..N |-> d[n]]
    BY <1>7
  <2> QED BY <2>1, <2>2
<1> QED
  BY <1>6, <1>8, <1>12 DEF N, A, Step

\* At keeps the packets at the given positions and no others.
LEMMA AtPicks ==
  ASSUME NEW T, NEW q \in Seq(T), NEW positions
  PROVE  LET r == At(q, positions) IN
         /\ r \in Seq(T)
         /\ \A k \in DOMAIN r : \E i \in DOMAIN q : i \in positions /\ r[k] = q[i]
         /\ \A i \in DOMAIN q : i \in positions => \E k \in DOMAIN r : r[k] = q[i]
<1> DEFINE N == Len(q)
<1>1. PICK d \in [0..N -> Seq(T)] :
           /\ At(q, positions) = d[N] /\ d[0] = <<>>
           /\ \A n \in 1..N :
                d[n] = IF n \in positions THEN Append(d[n - 1], q[n]) ELSE d[n - 1]
  BY AtSteps
<1>2. N \in Nat /\ DOMAIN q = 1..N
  OBVIOUS
<1> DEFINE Fine(n) ==
             /\ \A k \in DOMAIN d[n] : \E i \in 1..n : i \in positions /\ d[n][k] = q[i]
             /\ \A i \in 1..n : i \in positions => \E k \in DOMAIN d[n] : d[n][k] = q[i]
           S == {n \in Nat : n <= N => Fine(n)}
<1> HIDE DEF N
<1>3. 0 \in S
  BY <1>1
<1>4. ASSUME NEW n \in Nat, n \in S PROVE n + 1 \in S
  <2>1. SUFFICES ASSUME n + 1 <= N PROVE Fine(n + 1)
    OBVIOUS
  <2>2. n + 1 \in 1..N /\ n \in 0..N /\ (n + 1) - 1 = n /\ Fine(n)
    BY <2>1, <1>2, <1>4
  <2>3. d[n] \in Seq(T)
    BY <1>1, <2>2
  <2>4. 1..(n + 1) = (1..n) \cup {n + 1}
    OBVIOUS
  <2>5. CASE n + 1 \in positions
    <3>1. d[n + 1] = Append(d[n], q[n + 1])
      BY <1>1, <2>2, <2>5
    <3>2. /\ DOMAIN d[n + 1] = 1..(Len(d[n]) + 1) /\ DOMAIN d[n] = 1..Len(d[n])
          /\ Len(d[n]) \in Nat
          /\ \A k \in DOMAIN d[n] : d[n + 1][k] = d[n][k]
          /\ d[n + 1][Len(d[n]) + 1] = q[n + 1]
      <4>1. PICK e \in Seq(T) : e = d[n]
        BY <2>3
      <4>2. n + 1 \in 1..Len(q) /\ q[n + 1] \in T
        BY <2>2 DEF N
      <4> QED BY <3>1, <4>1, <4>2
    <3>3. ASSUME NEW k \in DOMAIN d[n + 1]
          PROVE \E i \in 1..(n + 1) : i \in positions /\ d[n + 1][k] = q[i]
      <4>1. k \in DOMAIN d[n] \/ k = Len(d[n]) + 1
        BY <3>2
      <4>2. CASE k \in DOMAIN d[n]
        <5>1. PICK i \in 1..n : i \in positions /\ d[n][k] = q[i]
          BY <2>2, <4>2
        <5> QED BY <2>4, <3>2, <4>2, <5>1
      <4>3. CASE k = Len(d[n]) + 1
        BY <2>4, <2>5, <3>2, <4>3
      <4> QED BY <4>1, <4>2, <4>3
    <3>4. ASSUME NEW i \in 1..(n + 1), i \in positions
          PROVE \E k \in DOMAIN d[n + 1] : d[n + 1][k] = q[i]
      <4>1. DOMAIN d[n] \subseteq DOMAIN d[n + 1] /\ Len(d[n]) + 1 \in DOMAIN d[n + 1]
        BY <3>2
      <4> QED BY <2>2, <2>4, <3>2, <3>4, <4>1
    <3> QED BY <3>3, <3>4
  <2>6. CASE n + 1 \notin positions
    <3>1. d[n + 1] = d[n]
      BY <1>1, <2>2, <2>6
    <3> QED BY <2>2, <2>4, <2>6, <3>1
  <2> QED BY <2>5, <2>6
<1>5. N \in S
  BY <1>2, <1>3, <1>4, NatSetInduction
<1>6. Fine(N) /\ d[N] \in Seq(T)
  BY <1>1, <1>2, <1>5
<1> QED
  BY <1>1, <1>2, <1>6

InSequence(q) == \A i, j \in DOMAIN q : i <= j => q[i].dts <= q[j].dts
Within(q, low, high) == \A i \in DOMAIN q : low <= q[i].dts /\ q[i].dts <= high

\* The order of InOrder is total: of two packets one comes first.
LEMMA PrecedesIsTotal ==
  ASSUME NEW q \in Seq(Packet)
  PROVE  /\ \A i \in DOMAIN q : ~Precedes(q, i, i)
         /\ \A i, j \in DOMAIN q : i # j => Precedes(q, i, j) \/ Precedes(q, j, i)
         /\ \A i, j, k \in DOMAIN q :
              Precedes(q, i, j) /\ Precedes(q, j, k) => Precedes(q, i, k)
<1>1. DOMAIN q \subseteq Int /\ \A i \in DOMAIN q : q[i].dts \in Int
  BY DEF Packet
<1>2. ASSUME NEW i \in DOMAIN q PROVE ~Precedes(q, i, i)
  BY <1>1 DEF Precedes
<1>3. ASSUME NEW i \in DOMAIN q, NEW j \in DOMAIN q, i # j
      PROVE  Precedes(q, i, j) \/ Precedes(q, j, i)
  BY <1>1, <1>3 DEF Precedes
<1>4. ASSUME NEW i \in DOMAIN q, NEW j \in DOMAIN q, NEW k \in DOMAIN q,
             Precedes(q, i, j), Precedes(q, j, k)
      PROVE  Precedes(q, i, k)
  BY <1>1, <1>4 DEF Precedes
<1> QED
  BY <1>2, <1>3, <1>4

\* The rank of a packet is its place in the order, and every place is taken.
LEMMA RanksArePlaces ==
  ASSUME NEW q \in Seq(Packet)
  PROVE  /\ \A i, j \in DOMAIN q : Rank(q, i) < Rank(q, j) => Precedes(q, i, j)
         /\ \A r \in DOMAIN q : \E i \in DOMAIN q : Rank(q, i) = r
         /\ \A i \in DOMAIN q : Rank(q, i) \in DOMAIN q
         /\ \A i, j \in DOMAIN q : i # j => Rank(q, i) # Rank(q, j)
<1> DEFINE D == DOMAIN q
           Before(i) == {j \in D : Precedes(q, j, i)}
<1>1. D = 1..Len(q) /\ Len(q) \in Nat
  OBVIOUS
<1>2. IsFiniteSet(D) /\ Cardinality(D) = Len(q)
  <2>1. PICK n \in Nat : n = Len(q)
    BY <1>1
  <2>2. IsFiniteSet(1..n) /\ Cardinality(1..n) = IF 1 > n THEN 0 ELSE n - 1 + 1
    BY FS_Interval
  <2> QED BY <1>1, <2>1, <2>2
<1>3. ASSUME NEW i \in D PROVE /\ IsFiniteSet(Before(i)) /\ Cardinality(Before(i)) \in Nat
                               /\ Cardinality(Before(i)) < Len(q)
  <2>1. Before(i) \in SUBSET D /\ i \notin Before(i)
    BY PrecedesIsTotal
  <2>2. /\ IsFiniteSet(Before(i)) /\ Cardinality(Before(i)) <= Cardinality(D)
        /\ (Cardinality(D) = Cardinality(Before(i)) => D = Before(i))
    BY <1>2, <2>1, FS_Subset
  <2>3. Cardinality(Before(i)) \in Nat
    BY <2>2, FS_CardinalityType
  <2> QED BY <1>1, <1>2, <2>1, <2>2, <2>3
<1>4. \A i \in D : Rank(q, i) = Cardinality(Before(i)) + 1
  BY DEF Rank
<1>5. \A i \in D : Rank(q, i) \in D
  <2>1. SUFFICES ASSUME NEW i \in D PROVE Rank(q, i) \in 1..Len(q)
    BY <1>1
  <2>2. PICK c \in Nat : c = Cardinality(Before(i))
    BY <1>3
  <2>3. Rank(q, i) = c + 1 /\ c < Len(q)
    BY <1>3, <1>4, <2>2
  <2> QED BY <1>1, <2>3
<1>6. ASSUME NEW i \in D, NEW j \in D, Precedes(q, i, j) PROVE Rank(q, i) < Rank(q, j)
  <2>1. Before(i) \in SUBSET Before(j) /\ i \in Before(j) /\ i \notin Before(i)
    BY <1>6, PrecedesIsTotal
  <2>2. IsFiniteSet(Before(j))
    BY <1>3
  <2>3. Cardinality(Before(i)) <= Cardinality(Before(j)) /\
        (Cardinality(Before(j)) = Cardinality(Before(i)) => Before(j) = Before(i))
    BY <2>1, <2>2, FS_Subset
  <2>4. Cardinality(Before(i)) \in Nat /\ Cardinality(Before(j)) \in Nat
    BY <1>3
  <2>5. Cardinality(Before(i)) # Cardinality(Before(j))
    BY <2>1, <2>3
  <2> QED BY <1>4, <2>3, <2>4, <2>5
<1>7. \A i \in D : Rank(q, i) \in Nat
  BY <1>1, <1>5
<1>8. ASSUME NEW i \in D, NEW j \in D, Rank(q, i) < Rank(q, j) PROVE Precedes(q, i, j)
  <2>1. Rank(q, i) \in Nat /\ Rank(q, j) \in Nat
    BY <1>7
  <2>2. Precedes(q, j, i) => Rank(q, j) < Rank(q, i)
    BY <1>6
  <2>3. i # j /\ ~Precedes(q, j, i)
    BY <1>8, <2>1, <2>2
  <2> QED BY <2>3, PrecedesIsTotal
<1>9. ASSUME NEW i \in D, NEW j \in D, Rank(q, i) = Rank(q, j), i # j PROVE FALSE
  <2>1. Rank(q, i) < Rank(q, j) \/ Rank(q, j) < Rank(q, i)
    BY <1>6, <1>9, PrecedesIsTotal
  <2>2. Rank(q, i) \in Nat /\ Rank(q, j) \in Nat
    BY <1>7
  <2> QED BY <1>9, <2>1, <2>2
<1>10. PICK f : f = [i \in D |-> Rank(q, i)]
  OBVIOUS
<1>11. f \in [D -> D] /\ \A i \in D : f[i] = Rank(q, i)
  BY <1>5, <1>10
<1>12. f \in Injection(D, D)
  BY <1>9, <1>11 DEF Injection, IsInjective
<1>13. f \in Surjection(D, D)
  BY <1>2, <1>12, FS_Injection
<1>14. \A r \in D : \E i \in D : Rank(q, i) = r
  BY <1>11, <1>13 DEF Surjection
<1> QED
  BY <1>5, <1>8, <1>9, <1>14

\* Sorting neither adds packets nor changes their number.
LEMMA InOrderSorts ==
  ASSUME NEW q \in Seq(Packet)
  PROVE  LET r == InOrder(q) IN
         /\ r \in Seq(Packet) /\ DOMAIN r = DOMAIN q /\ InSequence(r)
         /\ \A k \in DOMAIN r : \E i \in DOMAIN q : r[k] = q[i]
<1> DEFINE D == DOMAIN q
           at == [r \in D |-> CHOOSE i \in D : Rank(q, i) = r]
           r == InOrder(q)
<1>1. D = 1..Len(q) /\ Len(q) \in Nat /\ \A i \in D : q[i] \in Packet
  OBVIOUS
<1>2. ASSUME NEW k \in D PROVE at[k] \in D /\ Rank(q, at[k]) = k
  <2>1. \E i \in D : Rank(q, i) = k
    BY RanksArePlaces
  <2> QED BY <2>1
<1>3. r = [k \in D |-> q[at[k]]]
  BY DEF InOrder
<1>a. \A k \in D : at[k] \in D /\ Rank(q, at[k]) = k /\ r[k] = q[at[k]]
  BY <1>2, <1>3
<1> HIDE DEF at, r
<1>4. ASSUME NEW k \in D, NEW m \in D, k <= m PROVE r[k].dts <= r[m].dts
  <2>1. r[k] = q[at[k]] /\ r[m] = q[at[m]] /\ at[k] \in D /\ at[m] \in D
    BY <1>a
  <2>2. \A i \in D : q[i].dts \in Int
    BY <1>1 DEF Packet
  <2>3. CASE k = m
    BY <2>1, <2>2, <2>3
  <2>4. CASE k < m
    <3>1. Precedes(q, at[k], at[m])
      BY <1>a, <2>1, <2>4, RanksArePlaces
    <3> QED BY <2>1, <2>2, <3>1 DEF Precedes
  <2> QED BY <1>1, <1>4, <2>3, <2>4
<1>5. DOMAIN r = D /\ \A k \in D : at[k] \in D /\ r[k] = q[at[k]]
  BY <1>a, <1>3
<1>6. \A k \in D : \E i \in D : r[k] = q[i]
  BY <1>5
<1>7. \A k \in 1..Len(q) : r[k] \in Packet
  BY <1>1, <1>5
<1>8. r \in Seq(Packet)
  <2>1. r = [k \in 1..Len(q) |-> r[k]]
    BY <1>1, <1>3
  <2> QED BY <1>1, <1>7, <2>1
<1> QED
  BY <1>4, <1>5, <1>6, <1>8 DEF InSequence, r

\* Rounding up does not go back.
LEMMA CeilAbove ==
  ASSUME NEW t \in Int
  PROVE  Ceil(t) \in Int /\ t <= Ceil(t)
  BY TimeConstants DEF Ceil

\* The larger of two.
LEMMA MaxOfTwo ==
  ASSUME NEW a \in Int, NEW b \in Int
  PROVE  Max({a, b}) \in {a, b} /\ a <= Max({a, b}) /\ b <= Max({a, b})
<1>1. \E x \in {a, b} : \A y \in {a, b} : x >= y
  OBVIOUS
<1> QED
  BY <1>1 DEF Max

\* The largest of three.
LEMMA MaxOfThree ==
  ASSUME NEW a \in Int, NEW b \in Int, NEW c \in Int
  PROVE  /\ Max({a, b, c}) \in Int
         /\ a <= Max({a, b, c}) /\ b <= Max({a, b, c}) /\ c <= Max({a, b, c})
<1>1. \E x \in {a, b, c} : \A y \in {a, b, c} : x >= y
  OBVIOUS
<1>2. Max({a, b, c}) \in {a, b, c} /\ \A y \in {a, b, c} : Max({a, b, c}) >= y
  BY <1>1 DEF Max
<1> QED
  BY <1>2

\* The values of a sequence of integers, with one more, have a largest.
LEMMA MaxOfSequence ==
  ASSUME NEW a \in Int, NEW q \in Seq(Int)
  PROVE  LET m == Max({a} \cup {q[i] : i \in DOMAIN q}) IN
         m \in Int /\ a <= m /\ \A i \in DOMAIN q : q[i] <= m
<1> DEFINE V(n) == {a} \cup {q[i] : i \in 1..n}
           Has(n) == \E x \in V(n) : \A y \in V(n) : x >= y
           S == {n \in Nat : n <= Len(q) => Has(n)}
<1>1. \A n \in Nat : n <= Len(q) => V(n) \subseteq Int
  OBVIOUS
<1>2. 0 \in S
  OBVIOUS
<1>3. ASSUME NEW n \in Nat, n \in S PROVE n + 1 \in S
  <2>1. SUFFICES ASSUME n + 1 <= Len(q) PROVE Has(n + 1)
    OBVIOUS
  <2>2. n <= Len(q) /\ q[n + 1] \in Int /\ V(n) \subseteq Int
    BY <1>1, <2>1
  <2>3. PICK x \in V(n) : \A y \in V(n) : x >= y
    BY <1>3, <2>2
  <2>4. V(n + 1) = V(n) \cup {q[n + 1]}
    OBVIOUS
  <2> HIDE DEF V
  <2>5. CASE x >= q[n + 1]
    BY <2>2, <2>3, <2>4, <2>5
  <2>6. CASE ~(x >= q[n + 1])
    BY <2>2, <2>3, <2>4, <2>6
  <2> QED BY <2>5, <2>6
<1>4. Len(q) \in S
  <2> HIDE DEF S
  <2>1. \A n \in Nat : n \in S
    BY <1>2, <1>3, NatSetInduction
  <2>2. Len(q) \in Nat
    OBVIOUS
  <2> QED BY <2>1, <2>2
<1> DEFINE W == {a} \cup {q[i] : i \in DOMAIN q}
<1>5. W = V(Len(q)) /\ V(Len(q)) \subseteq Int
  <2>1. DOMAIN q = 1..Len(q) /\ Len(q) \in Nat /\ Len(q) <= Len(q)
    OBVIOUS
  <2>2. W = V(Len(q))
    BY <2>1
  <2>3. V(Len(q)) \subseteq Int
    BY <1>1, <2>1
  <2> QED BY <2>2, <2>3
<1>b. Has(Len(q))
  <2>1. Len(q) \in Nat /\ Len(q) <= Len(q)
    OBVIOUS
  <2> HIDE DEF Has
  <2> QED BY <1>4, <2>1
<1> HIDE DEF V, W
<1>6. W \subseteq Int /\ \E x \in W : \A y \in W : x >= y
  BY <1>5, <1>b
<1>7. Max(W) \in W /\ \A y \in W : Max(W) >= y
  BY <1>6 DEF Max
<1>8. a \in W /\ \A i \in DOMAIN q : q[i] \in W
  BY DEF W
<1>9. Max(W) \in Int /\ a <= Max(W) /\ \A i \in DOMAIN q : q[i] <= Max(W)
  BY <1>6, <1>7, <1>8
<1> QED
  BY <1>9 DEF W

\* The tail after a batch ends at the batch's last time stamp.
LEMMA TailAfterIs ==
  ASSUME NEW tail, tail.audio \in Int, tail.video \in Int, NEW feed \in Feeds,
         NEW q \in Seq(Packet), q # <<>>
  PROVE  TailAfter(tail, feed, q) \in Tails /\ TailAfter(tail, feed, q).output = q[Len(q)].dts
<1>1. Len(q) \in DOMAIN q /\ q[Len(q)] \in Packet
  OBVIOUS
<1>2. Last(q).dts \in Int /\ Last(q) = q[Len(q)]
  BY <1>1 DEF Last, Packet
<1> DEFINE a == Kind(q, "Audio")
           v == Kind(q, "Video")
<1>3. a \in Seq(Packet) /\ v \in Seq(Packet)
  BY AtPicks DEF Kind
<1>4. Frame[feed] \in Nat /\ Duration \in Nat
  BY TimeConstants DEF Feeds
<1> HIDE DEF a, v
<1>5. a # <<>> => Last(a).pts + Duration \in Int
  <2>1. SUFFICES ASSUME a # <<>> PROVE Last(a).pts + Duration \in Int
    OBVIOUS
  <2>2. a[Len(a)] \in Packet
    BY <1>3, <2>1
  <2> QED BY <1>4, <2>2 DEF Last, Packet
<1> DEFINE g == [i \in DOMAIN v |-> v[i].pts + Frame[feed]]
<1>6. g \in Seq(Int)
  <2>1. ASSUME NEW i \in 1..Len(v) PROVE v[i].pts + Frame[feed] \in Int
    <3>1. v[i] \in Packet
      BY <1>3
    <3> QED BY <3>1, <1>4 DEF Packet
  <2>2. DOMAIN v = 1..Len(v) /\ Len(v) \in Nat
    BY <1>3
  <2> QED BY <2>1, <2>2
<1>7. {p.pts + Frame[feed] : p \in ToSet(v)} = {g[i] : i \in DOMAIN g}
  BY DEF ToSet
<1>8. Max({tail.video} \cup {p.pts + Frame[feed] : p \in ToSet(v)}) \in Int
  BY <1>6, <1>7, MaxOfSequence
<1> QED
  BY <1>2, <1>5, <1>8 DEF TailAfter, Tails, a, v

\* A silent frame is a packet.
LEMMA SilenceIs ==
  ASSUME NEW t \in Int
  PROVE  Silence(t) \in Packet /\ Silence(t).dts = t
  BY DEF Silence, Packet

\* The silence of a bridge lies between its two instants.
LEMMA BridgeIs ==
  ASSUME NEW t \in Int, NEW end \in Int
  PROVE  Bridge(t, end) \in Seq(Packet) /\ Within(Bridge(t, end), t, end)
<1> DEFINE C == Ceil(Duration)
           m == (end - t - Duration) \div C
           n == IF end - t < Duration THEN 0 ELSE m + 1
<1>1. Duration \in Nat \ {0} /\ C \in Int /\ C >= Duration
  <2>1. Duration \in Nat \ {0} /\ Duration \in Int
    BY TimeConstants
  <2> QED BY <2>1, CeilAbove
<1> HIDE DEF C
<1>2. end - t >= Duration => m \in Nat /\ m * C <= end - t - Duration
  BY <1>1
<1> HIDE DEF m
<1>3. n \in Nat
  BY <1>1, <1>2
<1>4. ASSUME NEW i \in 1..n
      PROVE  LET u == t + (i - 1) * C IN u \in Int /\ t <= u /\ u <= end
  <2>1. end - t >= Duration /\ n = m + 1 /\ m \in Nat /\ m * C <= end - t - Duration
    BY <1>1, <1>2, <1>4
  <2>2. PICK k \in Nat : k = i - 1
    BY <1>3, <1>4
  <2>3. k <= m
    BY <1>4, <2>1, <2>2
  <2>4. PICK j \in Nat : m = k + j
    <3>1. m - k \in Nat /\ m = k + (m - k)
      BY <2>1, <2>2, <2>3
    <3> QED BY <3>1
  <2>5. m * C = k * C + j * C /\ j * C >= 0 /\ k * C >= 0 /\ k * C \in Int /\ j * C \in Int
    BY <1>1, <2>2, <2>4
  <2> QED BY <1>1, <2>1, <2>2, <2>5
<1>5. Bridge(t, end) = [i \in 1..n |-> Silence(t + (i - 1) * C)]
  BY DEF Bridge, C, m
<1> HIDE DEF n
<1>6. \A i \in 1..n : Silence(t + (i - 1) * C) \in Packet
  BY <1>4, SilenceIs
<1>7. Bridge(t, end) \in Seq(Packet)
  BY <1>3, <1>5, <1>6
<1>8. ASSUME NEW i \in DOMAIN Bridge(t, end)
      PROVE  t <= Bridge(t, end)[i].dts /\ Bridge(t, end)[i].dts <= end
  <2>1. i \in 1..n /\ Bridge(t, end)[i] = Silence(t + (i - 1) * C)
    BY <1>5, <1>8
  <2> QED BY <2>1, <1>4, SilenceIs
<1> QED
  BY <1>7, <1>8 DEF Within

-----------------------------------------------------------------------------
(* The feeds.                                                               *)

Sources == [feed : Feeds, video : Nat, audio : Nat, opening : BOOLEAN]
\* No packet to come is before this.
Coming(s) == IF s.video <= s.audio THEN s.video ELSE s.audio
Encoding == [next : Sources, packets : Seq(Packet)]

\* An encoder's next packet carries the time stamp that was to come.
LEMMA EncodeIs ==
  ASSUME NEW e \in Encoding, NEW key \in BOOLEAN
  PROVE  /\ Encode(e, key) \in Encoding
         /\ Coming(e.next) <= Coming(Encode(e, key).next)
         /\ \E p \in Packet : /\ p.dts = Coming(e.next)
                              /\ Encode(e, key).packets = Append(e.packets, p)
<1> DEFINE s == e.next
<1>1. s \in Sources /\ e.packets \in Seq(Packet)
  BY DEF Encoding
<1> HIDE DEF s
<1>2. /\ Frame[s.feed] \in Nat /\ Duration \in Nat
      /\ Shape[s.feed].composition \in Nat
  BY <1>1, TimeConstants DEF Feeds, Sources
<1>3. s.video \in Nat /\ s.audio \in Nat /\ s.opening \in BOOLEAN
  BY <1>1 DEF Sources
<1>4. CASE s.video <= s.audio
  <2> DEFINE p == [kind |-> "Video", key |-> key \/ s.opening, dts |-> s.video,
                   pts |-> s.video + Shape[s.feed].composition, drain |-> FALSE]
             x == [s EXCEPT !.video = @ + Frame[s.feed], !.opening = FALSE]
  <2>1. p \in Packet /\ p.dts = Coming(s)
    BY <1>2, <1>3, <1>4 DEF Packet, Coming
  <2>2. x \in Sources /\ x.video = s.video + Frame[s.feed] /\ x.audio = s.audio
    <3>1. PICK v \in Nat : v = s.video + Frame[s.feed]
      BY <1>2, <1>3
    <3>2. x = [s EXCEPT !.video = v, !.opening = FALSE]
      BY <3>1
    <3> HIDE DEF x
    <3> QED BY <1>1, <3>1, <3>2 DEF Sources
  <2>3. Encode(e, key) = [next |-> x, packets |-> Append(e.packets, p)]
    BY <1>4 DEF Encode, s
  <2>4. Coming(s) <= Coming(x)
    BY <1>2, <1>3, <1>4, <2>2 DEF Coming
  <2> HIDE DEF p, x
  <2> QED BY <1>1, <2>1, <2>2, <2>3, <2>4 DEF Encoding, s
<1>5. CASE ~(s.video <= s.audio)
  <2> DEFINE p == [kind |-> "Audio", key |-> FALSE, dts |-> s.audio, pts |-> s.audio,
                   drain |-> FALSE]
             x == [s EXCEPT !.audio = @ + Duration]
  <2>1. p \in Packet /\ p.dts = Coming(s)
    BY <1>2, <1>3, <1>5 DEF Packet, Coming
  <2>2. x \in Sources /\ x.video = s.video /\ x.audio = s.audio + Duration
    BY <1>1, <1>2, <1>3 DEF Sources
  <2>3. Encode(e, key) = [next |-> x, packets |-> Append(e.packets, p)]
    BY <1>5 DEF Encode, s
  <2>4. Coming(s) <= Coming(x)
    BY <1>2, <1>3, <1>5, <2>2 DEF Coming
  <2> HIDE DEF p, x
  <2> QED BY <1>1, <2>1, <2>2, <2>3, <2>4 DEF Encoding, s
<1> QED
  BY <1>4, <1>5

\* A hand-over is encoded a packet at a time.
LEMMA EncodedSteps ==
  ASSUME NEW feed \in Feeds, source[feed] \in Sources, NEW keys \in Seq(BOOLEAN)
  PROVE  \E d \in [0..Len(keys) -> Encoding] :
           /\ Encoded(feed, keys) = d[Len(keys)]
           /\ d[0] = [next |-> source[feed], packets |-> <<>>]
           /\ \A n \in 1..Len(keys) : d[n] = Encode(d[n - 1], keys[n])
<1> DEFINE N == Len(keys)
           A == Encoding
           start == [next |-> source[feed], packets |-> <<>>]
           Is(d) == d = [n \in 0..N |-> IF n = 0 THEN start ELSE Encode(d[n - 1], keys[n])]
<1>1. N \in Nat /\ start \in A
  BY DEF Encoding
<1>2. ASSUME NEW n \in 1..N, NEW r \in A PROVE Encode(r, keys[n]) \in A
  <2>1. keys[n] \in BOOLEAN
    OBVIOUS
  <2> QED BY <2>1, EncodeIs
<1>3. PICK step \in [1..N -> [A -> A]] :
          \A n \in 1..N : \A r \in A : step[n][r] = Encode(r, keys[n])
  <2> DEFINE st == [n \in 1..N |-> [r \in A |-> Encode(r, keys[n])]]
  <2>1. st \in [1..N -> [A -> A]]
    BY <1>2
  <2> QED BY <2>1
<1> HIDE DEF N, A, start
<1>4. PICK f : Iterates(f, A, start, N, step)
  BY <1>1, PrefixRecursion
<1>5. Is(f)
  <2>1. ASSUME NEW n \in 0..N
        PROVE  f[n] = IF n = 0 THEN start ELSE Encode(f[n - 1], keys[n])
    <3>1. CASE n = 0
      BY <3>1, <1>4 DEF Iterates
    <3>2. CASE n # 0
      <4>1. n \in 1..N /\ f[n - 1] \in A
        BY <3>2, <1>1, <1>4 DEF Iterates
      <4>2. f[n] = step[n][f[n - 1]]
        BY <4>1, <1>4 DEF Iterates
      <4> QED BY <3>2, <4>1, <4>2, <1>3
    <3> QED BY <3>1, <3>2
  <2> QED BY <2>1, <1>4 DEF Iterates
<1> DEFINE d == CHOOSE g : Is(g)
<1>6. Encoded(feed, keys) = d[N]
  BY DEF Encoded, N, start
<1>7. Is(d)
  BY <1>5
<1> HIDE DEF d
<1>8. d[0] = start /\ \A n \in 1..N : d[n] = Encode(d[n - 1], keys[n])
  BY <1>1, <1>7
<1> DEFINE S == {n \in Nat : n <= N => d[n] \in A}
<1>9. 0 \in S
  BY <1>1, <1>8
<1>10. ASSUME NEW n \in Nat, n \in S PROVE n + 1 \in S
  <2>1. SUFFICES ASSUME n + 1 <= N PROVE d[n + 1] \in A
    OBVIOUS
  <2>2. n + 1 \in 1..N /\ d[n] \in A /\ (n + 1) - 1 = n
    BY <2>1, <1>1, <1>10
  <2>3. d[n + 1] = Encode(d[n], keys[n + 1])
    BY <2>2, <1>8
  <2> QED BY <2>2, <2>3, <1>2
<1>11. \A n \in Nat : n \in S
  BY <1>9, <1>10, NatSetInduction
<1>12. d \in [0..N -> A]
  <2>1. \A n \in 0..N : d[n] \in A
    BY <1>1, <1>11
  <2>2. d = [n \in 0..N |-> d[n]]
    BY <1>7
  <2> QED BY <2>1, <2>2
<1> QED
  BY <1>6, <1>8, <1>12 DEF N, A, start

\* What a feed hands over is not before what it was at, nor after what it
\* has come to.
LEMMA EncodedIs ==
  ASSUME NEW feed \in Feeds, source[feed] \in Sources, NEW keys \in Seq(BOOLEAN)
  PROVE  LET e == Encoded(feed, keys) IN
         /\ e \in Encoding /\ Coming(source[feed]) <= Coming(e.next)
         /\ Within(e.packets, Coming(source[feed]), Coming(e.next))
<1> DEFINE N == Len(keys)
           low == Coming(source[feed])
<1>1. PICK d \in [0..N -> Encoding] :
           /\ Encoded(feed, keys) = d[N]
           /\ d[0] = [next |-> source[feed], packets |-> <<>>]
           /\ \A n \in 1..N : d[n] = Encode(d[n - 1], keys[n])
  BY EncodedSteps
<1>2. N \in Nat /\ \A n \in 1..N : keys[n] \in BOOLEAN
  OBVIOUS
<1>0. \A s \in Sources : Coming(s) \in Nat
  BY DEF Coming, Sources
<1> HIDE DEF N
<1> DEFINE Fine(n) == low <= Coming(d[n].next) /\ Within(d[n].packets, low, Coming(d[n].next))
           S == {n \in Nat : n <= N => Fine(n)}
<1>3. 0 \in S
  <2>0. low \in Nat
    BY <1>0 DEF low
  <2>1. d[0].next = source[feed] /\ d[0].packets = <<>>
    BY <1>1
  <2>2. low \in Nat
    BY <1>0
  <2> QED BY <2>1, <2>2 DEF Within
<1> HIDE DEF low
<1>4. ASSUME NEW n \in Nat, n \in S PROVE n + 1 \in S
  <2>1. SUFFICES ASSUME n + 1 <= N PROVE Fine(n + 1)
    OBVIOUS
  <2>2. n + 1 \in 1..N /\ n \in 0..N /\ (n + 1) - 1 = n /\ Fine(n)
    BY <2>1, <1>2, <1>4
  <2>3. PICK e \in Encoding : e = d[n]
    BY <1>1, <2>2
  <2>a. PICK key \in BOOLEAN : key = keys[n + 1]
    BY <1>2, <2>2
  <2>4. d[n + 1] = Encode(e, key)
    BY <1>1, <2>2, <2>3, <2>a
  <2>5. PICK x \in Encoding : x = d[n + 1] /\ x = Encode(e, key)
    BY <2>4, EncodeIs
  <2>6. Coming(e.next) <= Coming(x.next)
    BY <2>5, EncodeIs
  <2>7. PICK p \in Packet : p.dts = Coming(e.next) /\ x.packets = Append(e.packets, p)
    <3>1. \E p \in Packet : p.dts = Coming(e.next)
                          /\ Encode(e, key).packets = Append(e.packets, p)
      BY EncodeIs, Zenon
    <3> QED BY <2>5, <3>1, Zenon
  <2>8. /\ Coming(e.next) \in Nat /\ Coming(x.next) \in Nat /\ low \in Nat
        /\ e.packets \in Seq(Packet)
    BY <1>0 DEF low, Encoding
  <2>9. low <= Coming(e.next) /\ Within(e.packets, low, Coming(e.next))
    BY <2>2, <2>3
  <2>10. ASSUME NEW i \in DOMAIN x.packets
         PROVE  low <= x.packets[i].dts /\ x.packets[i].dts <= Coming(x.next)
    <3>1. (i \in DOMAIN e.packets /\ x.packets[i] = e.packets[i]) \/ x.packets[i] = p
      BY <2>7, <2>8, <2>10
    <3>2. CASE x.packets[i] = p
      BY <2>6, <2>7, <2>8, <2>9, <3>2
    <3>3. CASE i \in DOMAIN e.packets /\ x.packets[i] = e.packets[i]
      <4>1. e.packets[i].dts \in Int
        BY <2>8, <3>3 DEF Packet
      <4> QED BY <2>6, <2>8, <2>9, <3>3, <4>1 DEF Within
    <3> QED BY <3>1, <3>2, <3>3
  <2> QED BY <2>5, <2>6, <2>8, <2>9, <2>10 DEF Within
<1>5. N \in S
  BY <1>2, <1>3, <1>4, NatSetInduction
<1>6. Fine(N) /\ d[N] \in Encoding
  BY <1>1, <1>2, <1>5
<1> QED
  BY <1>1, <1>6 DEF low

\* What waits in the outbox follows what the viewer has, in order.
Posted(c, dts) ==
  /\ dts <= c.published.output
  /\ \A a \in DOMAIN c.outbox :
       /\ c.outbox[a].epoch = c.epoch
       /\ InSequence(c.outbox[a].packets)
       /\ Within(c.outbox[a].packets, dts, c.published.output)
  /\ \A a, b \in DOMAIN c.outbox :
       a < b => \A i \in DOMAIN c.outbox[a].packets, j \in DOMAIN c.outbox[b].packets :
                  c.outbox[a].packets[i].dts <= c.outbox[b].packets[j].dts
\* The viewer has the headers of the epoch, or will never see it.
Heard(c, pub, epoch) == c.epoch <= epoch \/ c.epoch < pub
Opened(c, pub, epoch) ==
  c.outbox # <<>> /\ c.outbox[1].avc = None => Heard(c, pub, epoch)
Headed(c, pub, epoch) ==
  c.selected # None /\ c.headers = None =>
    Heard(c, pub, epoch) \/ (c.outbox # <<>> /\ c.outbox[1].avc # None)
\* The schedule lies between what was published and the tail.
Lined(c) ==
  /\ c.published.output <= c.tail.output
  /\ InSequence(c.scheduled)
  /\ Within(c.scheduled, c.published.output, c.tail.output)
Paced(c) ==
  /\ c.selected # None => c.selected = c.desired /\ c.cutoff # None /\ c.boundary = <<>>
  /\ c.selected = None => c.scheduled = <<>>
  /\ c.scheduled # <<>> => c.paced_holding \/ c.paced_programme
  /\ c.paced_holding => c.desired = "Holding"
  /\ c.paced_programme => c.desired = "Programme"
  /\ c.waiting # <<>> => c.paced_holding
  /\ c.boundary # <<>> => c.cutoff # None
  /\ \A i \in DOMAIN c.boundary : c.cutoff <= c.boundary[i].dts
\* Nothing that is still to come goes before the tail.
Ahead(c, next) ==
  /\ c.selected # None => c.tail.output <= c.offset + next[c.selected]
  /\ \A i \in DOMAIN c.boundary : c.boundary[i].dts <= next[c.desired]
  /\ \A i \in DOMAIN c.waiting : c.waiting[i].dts <= next["Programme"]
Going(c, next, pub, epoch) ==
  Lined(c) /\ Paced(c) /\ Ahead(c, next) /\ Headed(c, pub, epoch)
Good(c, next, pub, dts, epoch) ==
  /\ Typed(c) /\ Posted(c, dts) /\ Opened(c, pub, epoch)
  /\ c.error \notin {"DtsRegression", "Refused"}
  /\ c.error = None => Going(c, next, pub, epoch)

\* What is used of the constants over and over.
LEMMA Constants ==
  /\ None \notin Feeds /\ None \notin Int /\ None \notin Errors
  /\ "Programme" \in Feeds /\ "Holding" \in Feeds /\ "Programme" # "Holding"
  BY TimeConstants DEF Feeds

\* What Append leaves and what it adds.
LEMMA AppendIs ==
  ASSUME NEW T, NEW q \in Seq(T), NEW x \in T
  PROVE  LET r == Append(q, x) IN
         /\ r \in Seq(T) /\ r # <<>> /\ r[1] = IF q = <<>> THEN x ELSE q[1]
         /\ DOMAIN r = DOMAIN q \cup {Len(q) + 1} /\ r[Len(q) + 1] = x
         /\ \A i \in DOMAIN q : r[i] = q[i] /\ i < Len(q) + 1
<1>1. Append(q, x) \in Seq(T) /\ Append(q, x) # <<>>
  BY AppendProperties, Zenon
<1>2. Append(q, x)[1] = IF q = <<>> THEN x ELSE q[1]
  OBVIOUS
<1>3. DOMAIN Append(q, x) = 1..(Len(q) + 1) /\ DOMAIN q = 1..Len(q) /\ Len(q) \in Nat
  OBVIOUS
<1>4. Append(q, x)[Len(q) + 1] = x /\ \A i \in DOMAIN q : Append(q, x)[i] = q[i]
  OBVIOUS
<1> QED
  BY <1>1, <1>2, <1>3, <1>4

\* The last packet of a sequence in order bounds the others.
LEMMA LastIs ==
  ASSUME NEW q \in Seq(Packet), q # <<>>
  PROVE  /\ Len(q) \in DOMAIN q /\ 1 \in DOMAIN q
         /\ \A i \in DOMAIN q : i \in Int /\ 1 <= i /\ i <= Len(q) /\ q[i].dts \in Int
         /\ InSequence(q) => Within(q, q[1].dts, q[Len(q)].dts)
<1>1. /\ Len(q) \in Nat /\ Len(q) \in DOMAIN q /\ 1 \in DOMAIN q
      /\ DOMAIN q = 1..Len(q)
  OBVIOUS
<1>2. \A i \in DOMAIN q : q[i].dts \in Int
  <2>1. \A i \in DOMAIN q : q[i] \in Packet
    OBVIOUS
  <2> QED BY <2>1 DEF Packet
<1> QED
  BY <1>1, <1>2 DEF InSequence, Within

\* Only these fields matter to the line.
Agree(c, d) ==
  /\ c.epoch = d.epoch /\ c.desired = d.desired /\ c.selected = d.selected
  /\ c.headers = d.headers /\ c.cutoff = d.cutoff /\ c.offset = d.offset
  /\ c.boundary = d.boundary /\ c.waiting = d.waiting
  /\ c.scheduled = d.scheduled /\ c.outbox = d.outbox
  /\ c.tail = d.tail /\ c.published = d.published
  /\ c.paced_holding = d.paced_holding /\ c.paced_programme = d.paced_programme
  /\ c.error = d.error

\* The other fields may change as they like.
LEMMA GoodAgrees ==
  ASSUME NEW c, NEW d, Typed(d), Agree(c, d),
         NEW next, NEW pub, NEW dts, NEW epoch, Good(c, next, pub, dts, epoch)
  PROVE  Good(d, next, pub, dts, epoch)
<1>1. Posted(d, dts) /\ Opened(d, pub, epoch)
  BY DEF Good, Posted, Opened, Heard, Agree
<1>2. d.error = None => Going(d, next, pub, epoch)
  BY DEF Good, Going, Lined, Paced, Ahead, Headed, Heard, Agree
<1> QED
  BY <1>1, <1>2 DEF Good, Agree

\* A throw leaves what was posted.
LEMMA FailGood ==
  ASSUME NEW c, NEW next, NEW pub, NEW dts, NEW epoch, Typed(c), Posted(c, dts),
         Opened(c, pub, epoch), NEW what \in Errors, what \notin {"DtsRegression", "Refused"}
  PROVE  Good(Fail(c, what), next, pub, dts, epoch)
<1> DEFINE d == Fail(c, what)
<1>1. /\ Typed(d) /\ d.error = what /\ d.outbox = c.outbox /\ d.epoch = c.epoch
      /\ d.published = c.published
  BY DEF Fail, Typed, Fields
<1>2. d.error # None
  BY <1>1, Constants
<1>3. Posted(d, dts) /\ Opened(d, pub, epoch)
  BY <1>1 DEF Posted, Opened, Heard
<1> QED
  BY <1>1, <1>2, <1>3 DEF Good

\* What Dispatched adds to the outbox, and what it moves.
LEMMA SentIs ==
  ASSUME NEW c, Typed(c), NEW feed \in Feeds, NEW q \in Seq(Packet), q # <<>>
  PROVE  LET d == Dispatched(c, feed, q)
             b == [epoch |-> c.epoch, ticket |-> c.ticket + 1, feed |-> feed,
                   packets |-> q, avc |-> c.headers]
         IN  /\ Typed(d) /\ b \in Batches
             /\ d.outbox = Append(c.outbox, b)
             /\ d.published.output = q[Len(q)].dts
             /\ Agree([c EXCEPT !.headers = None, !.outbox = d.outbox,
                                !.published = d.published], d)
<1> DEFINE d == Dispatched(c, feed, q)
           b == [epoch |-> c.epoch, ticket |-> c.ticket + 1, feed |-> feed,
                 packets |-> q, avc |-> c.headers]
           t == TailAfter(c.published, feed, q)
           f == IF Kind(q, "Video") = <<>> THEN c.published_feed ELSE feed
<1>1. b \in Batches
  BY DEF Typed, Batches
<1>2. c.outbox \in Seq(Batches)
  BY DEF Typed
<1>3. Append(c.outbox, b) \in Seq(Batches)
  BY <1>1, <1>2
<1>4. t \in Tails /\ t.output = q[Len(q)].dts
  <2>1. c.published.audio \in Int /\ c.published.video \in Int
    BY DEF Typed, Tails
  <2> QED BY <2>1, TailAfterIs
<1>5. f \in Feeds
  BY DEF Typed
<1>6. d = [[[[[c EXCEPT !.published = t] EXCEPT !.published_feed = f]
               EXCEPT !.ticket = c.ticket + 1] EXCEPT !.outbox = Append(c.outbox, b)]
               EXCEPT !.headers = None]
  BY DEF Dispatched, Send, RecordPublication, Typed, Fields
<1> HIDE DEF d, b, t, f
<1>7. c.ticket + 1 \in Nat
  BY DEF Typed
<1>8. Typed(d)
  BY <1>3, <1>4, <1>5, <1>6, <1>7, Constants DEF Typed, Fields
<1>9. d.outbox = Append(c.outbox, b) /\ d.published = t
  BY <1>6 DEF Typed, Fields
<1>10. Agree([c EXCEPT !.headers = None, !.outbox = d.outbox, !.published = d.published], d)
  BY <1>6, <1>9 DEF Typed, Fields, Agree
<1> QED
  BY <1>1, <1>4, <1>8, <1>9, <1>10 DEF d, b

\* A batch in order, after what was published, may be posted.
LEMMA PostedOn ==
  ASSUME NEW c, Typed(c), NEW dts \in Int, Posted(c, dts), NEW b \in Batches, NEW d,
         b.epoch = c.epoch, InSequence(b.packets), c.published.output <= b.packets[1].dts,
         d.epoch = c.epoch, d.outbox = Append(c.outbox, b),
         d.published.output = b.packets[Len(b.packets)].dts
  PROVE  Posted(d, dts)
<1> DEFINE q == b.packets
<1>1. /\ q \in Seq(Packet) /\ q # <<>> /\ InSequence(q)
      /\ c.published.output <= q[1].dts /\ d.published.output = q[Len(q)].dts
  BY DEF Batches
<1>2. d.epoch = c.epoch
  OBVIOUS
<1>3. c.outbox \in Seq(Batches) /\ c.published.output \in Int
  BY DEF Typed, Tails
<1>4. b.epoch = c.epoch /\ b.packets = q
  OBVIOUS
<1> HIDE DEF q
<1>5. /\ d.outbox # <<>>
      /\ DOMAIN d.outbox = DOMAIN c.outbox \cup {Len(c.outbox) + 1}
      /\ d.outbox[Len(c.outbox) + 1] = b
      /\ \A i \in DOMAIN c.outbox : d.outbox[i] = c.outbox[i] /\ i < Len(c.outbox) + 1
      /\ DOMAIN c.outbox \subseteq Int /\ Len(c.outbox) + 1 \in Int
  <2>1. DOMAIN c.outbox \subseteq Int /\ Len(c.outbox) + 1 \in Int
    BY <1>3
  <2> QED BY <1>1, <1>3, <2>1, AppendIs
<1>6. /\ 1 \in DOMAIN q /\ Len(q) \in DOMAIN q
      /\ \A i \in DOMAIN q : /\ q[i].dts \in Int /\ q[1].dts <= q[i].dts
                             /\ q[i].dts <= q[Len(q)].dts
  BY <1>1, LastIs DEF Within
<1>7. Posted(d, dts)
  <2>1. dts <= d.published.output
    BY <1>1, <1>3, <1>6 DEF Posted
  <2>2. ASSUME NEW a \in DOMAIN d.outbox
        PROVE /\ d.outbox[a].epoch = d.epoch /\ InSequence(d.outbox[a].packets)
              /\ Within(d.outbox[a].packets, dts, d.published.output)
    <3>1. CASE a = Len(c.outbox) + 1
      <4>1. \A i \in DOMAIN q : dts <= q[i].dts /\ q[i].dts <= d.published.output
        BY <1>1, <1>3, <1>6 DEF Posted
      <4> QED BY <1>2, <1>4, <1>5, <3>1, <4>1 DEF Within
    <3>2. CASE a \in DOMAIN c.outbox
      <4>1. d.outbox[a] = c.outbox[a] /\ c.outbox[a] \in Batches
        BY <1>3, <1>5, <3>2
      <4>2. c.outbox[a].packets \in Seq(Packet)
        BY <4>1 DEF Batches
      <4>3. \A i \in DOMAIN c.outbox[a].packets : c.outbox[a].packets[i].dts \in Int
        BY <4>2 DEF Packet
      <4>4. c.published.output <= d.published.output
        BY <1>1, <1>3, <1>6
      <4>5. /\ c.outbox[a].epoch = c.epoch /\ InSequence(c.outbox[a].packets)
            /\ Within(c.outbox[a].packets, dts, c.published.output)
        BY <3>2 DEF Posted
      <4>6. Within(c.outbox[a].packets, dts, d.published.output)
        BY <1>1, <1>3, <1>6, <4>3, <4>4, <4>5 DEF Within
      <4> QED BY <1>2, <4>1, <4>5, <4>6
    <3> QED BY <1>5, <3>1, <3>2
  <2>3. ASSUME NEW a \in DOMAIN d.outbox, NEW k \in DOMAIN d.outbox, a < k,
               NEW i \in DOMAIN d.outbox[a].packets, NEW j \in DOMAIN d.outbox[k].packets
        PROVE  d.outbox[a].packets[i].dts <= d.outbox[k].packets[j].dts
    <3>1. a \in DOMAIN c.outbox /\ d.outbox[a] = c.outbox[a]
      BY <1>5, <2>3
    <3>2. CASE k \in DOMAIN c.outbox
      <4>1. d.outbox[k] = c.outbox[k]
        BY <1>5, <3>2
      <4> QED BY <2>3, <3>1, <3>2, <4>1 DEF Posted
    <3>3. CASE k = Len(c.outbox) + 1
      <4>1. d.outbox[k].packets = q
        BY <1>4, <1>5, <3>3
      <4>2. c.outbox[a].packets[i].dts <= c.published.output
        BY <2>3, <3>1 DEF Posted, Within
      <4>3. c.outbox[a].packets[i].dts \in Int
        <5>1. c.outbox[a] \in Batches
          BY <1>3, <3>1
        <5>2. c.outbox[a].packets \in Seq(Packet)
          BY <5>1 DEF Batches
        <5>3. c.outbox[a].packets[i] \in Packet
          BY <2>3, <3>1, <5>2
        <5> QED BY <5>3 DEF Packet
      <4> QED BY SMTT(60), <1>1, <1>3, <1>6, <2>3, <3>1, <4>1, <4>2, <4>3
    <3> QED BY <1>5, <3>2, <3>3
  <2> QED BY <2>1, <2>2, <2>3 DEF Posted
<1> QED
  BY <1>7

\* A batch in order, between what was published and what is scheduled, may go.
LEMMA DispatchedGood ==
  ASSUME NEW c, Typed(c), c.error = None, c.selected # None,
         NEW next, NEW pub, NEW dts \in Int, NEW epoch,
         NEW feed \in Feeds, NEW q \in Seq(Packet), q # <<>>, InSequence(q),
         Posted(c, dts), Opened(c, pub, epoch), Headed(c, pub, epoch),
         Paced(c), Ahead(c, next),
         c.published.output <= q[1].dts, q[Len(q)].dts <= c.tail.output,
         InSequence(c.scheduled), Within(c.scheduled, q[Len(q)].dts, c.tail.output)
  PROVE  Good(Dispatched(c, feed, q), next, pub, dts, epoch)
<1> DEFINE d == Dispatched(c, feed, q)
           b == [epoch |-> c.epoch, ticket |-> c.ticket + 1, feed |-> feed,
                 packets |-> q, avc |-> c.headers]
           e == [c EXCEPT !.headers = None, !.outbox = d.outbox, !.published = d.published]
<1>1. /\ Typed(d) /\ b \in Batches /\ d.outbox = Append(c.outbox, b)
      /\ d.published.output = q[Len(q)].dts /\ Agree(e, d)
  BY SentIs
<1>2. /\ d.epoch = c.epoch /\ d.desired = c.desired /\ d.selected = c.selected
      /\ d.headers = None /\ d.cutoff = c.cutoff /\ d.offset = c.offset
      /\ d.boundary = c.boundary /\ d.waiting = c.waiting /\ d.scheduled = c.scheduled
      /\ d.tail = c.tail /\ d.paced_holding = c.paced_holding
      /\ d.paced_programme = c.paced_programme /\ d.error = None
  BY <1>1 DEF Agree, Typed, Fields
<1>3. c.outbox \in Seq(Batches) /\ c.published.output \in Int
  BY DEF Typed, Tails
<1>4. b.epoch = c.epoch /\ b.packets = q /\ b.avc = c.headers
  OBVIOUS
<1> HIDE DEF d, b, e
<1>5. /\ d.outbox # <<>> /\ d.outbox[1] = IF c.outbox = <<>> THEN b ELSE c.outbox[1]
      /\ DOMAIN d.outbox = DOMAIN c.outbox \cup {Len(c.outbox) + 1}
      /\ d.outbox[Len(c.outbox) + 1] = b
      /\ \A i \in DOMAIN c.outbox : d.outbox[i] = c.outbox[i] /\ i < Len(c.outbox) + 1
      /\ DOMAIN c.outbox \subseteq Int /\ Len(c.outbox) + 1 \in Int
  <2>1. DOMAIN c.outbox \subseteq Int /\ Len(c.outbox) + 1 \in Int
    BY <1>3
  <2> QED BY <1>1, <1>3, <2>1, AppendIs
<1>6. /\ 1 \in DOMAIN q /\ Len(q) \in DOMAIN q
      /\ \A i \in DOMAIN q : /\ q[i].dts \in Int /\ q[1].dts <= q[i].dts
                             /\ q[i].dts <= q[Len(q)].dts
  BY LastIs DEF Within
<1>7. Posted(d, dts)
  <2>1. /\ b \in Batches /\ b.epoch = c.epoch /\ InSequence(b.packets)
        /\ c.published.output <= b.packets[1].dts /\ d.epoch = c.epoch
        /\ d.outbox = Append(c.outbox, b)
        /\ d.published.output = b.packets[Len(b.packets)].dts
    BY <1>1, <1>2, <1>4
  <2> QED BY <2>1, PostedOn
<1>8. Heard(d, pub, epoch) <=> Heard(c, pub, epoch)
  BY <1>2 DEF Heard
<1>9. Opened(d, pub, epoch)
  BY <1>4, <1>5, <1>8 DEF Opened, Headed
<1>10. Headed(d, pub, epoch)
  BY <1>5, <1>8, <1>9 DEF Opened, Headed
<1>11. Lined(d)
  <2>1. Within(d.scheduled, d.published.output, d.tail.output) /\ InSequence(d.scheduled)
    BY <1>1, <1>2
  <2>2. d.published.output <= d.tail.output
    BY <1>1, <1>2
  <2> QED BY <2>1, <2>2 DEF Lined
<1>12. Paced(d) /\ Ahead(d, next)
  BY <1>2 DEF Paced, Ahead
<1> QED
  BY <1>1, <1>2, <1>7, <1>9, <1>10, <1>11, <1>12, Constants DEF Good, Going, Errors, d

\* What lies between the tail of a schedule and a later tail may be scheduled.
LEMMA ScheduleGood ==
  ASSUME NEW c, Typed(c), c.error = None, c.selected # None,
         NEW next, NEW pub, NEW dts \in Int, NEW epoch,
         NEW q \in Seq(Packet), InSequence(q), NEW low \in Int,
         Posted(c, dts), Opened(c, pub, epoch), Headed(c, pub, epoch),
         Paced(c), Ahead(c, next), c.paced_holding \/ c.paced_programme,
         c.published.output <= low, low <= c.tail.output,
         InSequence(c.scheduled), Within(c.scheduled, c.published.output, low),
         Within(q, low, c.tail.output)
  PROVE  Good(Schedule(c, q), next, pub, dts, epoch)
<1> DEFINE s == c.scheduled
           r == s \o q
           d == [c EXCEPT !.scheduled = r]
<1>1. s \in Seq(Packet) /\ r \in Seq(Packet)
  BY DEF Typed
<1>2. c.published.output \in Int /\ c.tail.output \in Int
  BY DEF Typed, Tails
<1>3. /\ DOMAIN s = 1..Len(s) /\ DOMAIN q = 1..Len(q) /\ Len(s) \in Nat /\ Len(q) \in Nat
      /\ DOMAIN r = 1..(Len(s) + Len(q))
      /\ \A i \in DOMAIN r : r[i] = IF i \in DOMAIN s THEN s[i] ELSE q[i - Len(s)]
  BY <1>1
<1>4. ASSUME NEW i \in DOMAIN r
      PROVE  \/ i \in DOMAIN s /\ r[i] = s[i]
             \/ i - Len(s) \in DOMAIN q /\ r[i] = q[i - Len(s)] /\ i > Len(s)
  BY <1>3
<1>5. /\ \A i \in DOMAIN s : s[i].dts \in Int /\ c.published.output <= s[i].dts /\ s[i].dts <= low
      /\ \A i \in DOMAIN q : q[i].dts \in Int /\ low <= q[i].dts /\ q[i].dts <= c.tail.output
  <2>1. (\A i \in DOMAIN s : s[i] \in Packet) /\ (\A i \in DOMAIN q : q[i] \in Packet)
    BY <1>1, <1>3
  <2>2. (\A i \in DOMAIN s : s[i].dts \in Int) /\ (\A i \in DOMAIN q : q[i].dts \in Int)
    BY <2>1 DEF Packet
  <2> QED BY <2>2 DEF Within
<1> HIDE DEF r, s
<1>6. Within(r, c.published.output, c.tail.output)
  <2>1. SUFFICES ASSUME NEW i \in DOMAIN r
                 PROVE  c.published.output <= r[i].dts /\ r[i].dts <= c.tail.output
    BY DEF Within
  <2> QED BY <1>2, <1>4, <1>5
<1>7. InSequence(r)
  <2>1. SUFFICES ASSUME NEW i \in DOMAIN r, NEW j \in DOMAIN r, i <= j
                 PROVE  r[i].dts <= r[j].dts
    BY DEF InSequence
  <2>2. i \in Int /\ j \in Int
    BY <1>3
  <2>3. CASE j \in DOMAIN s /\ r[j] = s[j]
    <3>1. i \in DOMAIN s /\ r[i] = s[i]
      BY <1>3, <1>4, <2>1, <2>2, <2>3
    <3> QED BY <2>1, <2>3, <3>1 DEF InSequence, s
  <2>4. CASE j - Len(s) \in DOMAIN q /\ r[j] = q[j - Len(s)] /\ j > Len(s)
    <3>1. CASE i \in DOMAIN s /\ r[i] = s[i]
      BY <1>5, <2>4, <3>1
    <3>2. CASE i - Len(s) \in DOMAIN q /\ r[i] = q[i - Len(s)]
      <4>1. i - Len(s) <= j - Len(s)
        BY <1>3, <2>1, <2>2
      <4> QED BY <2>4, <3>2, <4>1 DEF InSequence
    <3> QED BY <1>4, <3>1, <3>2
  <2> QED BY <1>4, <2>3, <2>4
<1>8. Good(d, next, pub, dts, epoch)
  <2>1. /\ d.scheduled = r /\ d.epoch = c.epoch /\ d.desired = c.desired
        /\ d.selected = c.selected /\ d.headers = c.headers /\ d.cutoff = c.cutoff
        /\ d.offset = c.offset /\ d.boundary = c.boundary /\ d.waiting = c.waiting
        /\ d.outbox = c.outbox /\ d.tail = c.tail /\ d.published = c.published
        /\ d.paced_holding = c.paced_holding /\ d.paced_programme = c.paced_programme
        /\ d.error = None
    BY DEF Typed, Fields
  <2>2. Typed(d)
    BY <1>1 DEF Typed, Fields
  <2> HIDE DEF d
  <2>3. Posted(d, dts) /\ Opened(d, pub, epoch) /\ Headed(d, pub, epoch)
    BY <2>1 DEF Posted, Opened, Headed, Heard
  <2>4. Lined(d)
    BY <1>2, <1>6, <1>7, <2>1 DEF Lined
  <2>5. Paced(d) /\ Ahead(d, next)
    BY <2>1 DEF Paced, Ahead
  <2> QED BY <2>1, <2>2, <2>3, <2>4, <2>5, Constants DEF Good, Going, Errors
<1>9. Good(Fail(c, "GuardOverflow"), next, pub, dts, epoch)
  BY FailGood DEF Errors
<1>10. Schedule(c, q) = IF Len(r) > Capacity \/ Last(r).dts - r[1].dts > Window
                        THEN Fail(c, "GuardOverflow") ELSE d
  BY DEF Schedule, r, s
<1> HIDE DEF d
<1> QED
  BY <1>8, <1>9, <1>10

\* What is kept from the cutoff on.
LEMMA FromCutIs ==
  ASSUME NEW q \in Seq(Packet), NEW cut
  PROVE  LET x == FromCut(q, cut) IN
         /\ x \in Seq(Packet)
         /\ \A k \in DOMAIN x : \E i \in DOMAIN q : q[i].dts >= cut /\ x[k] = q[i]
         /\ (\E i \in DOMAIN q : q[i].dts >= cut) => x # <<>>
<1> DEFINE at == {i \in DOMAIN q : q[i].dts >= cut}
           x == At(q, at)
<1>1. FromCut(q, cut) = x /\ \A i \in DOMAIN q : i \in at <=> q[i].dts >= cut
  BY DEF FromCut
<1> HIDE DEF at
<1>2. /\ x \in Seq(Packet)
      /\ \A k \in DOMAIN x : \E i \in DOMAIN q : i \in at /\ x[k] = q[i]
      /\ \A i \in DOMAIN q : i \in at => \E k \in DOMAIN x : x[k] = q[i]
  BY AtPicks
<1> HIDE DEF x
<1>3. (\E i \in DOMAIN q : q[i].dts >= cut) => x # <<>>
  BY <1>1, <1>2
<1>4. \A k \in DOMAIN x : \E i \in DOMAIN q : q[i].dts >= cut /\ x[k] = q[i]
  BY <1>1, <1>2
<1> QED
  BY <1>1, <1>2, <1>3, <1>4

\* A shift moves every time stamp by the epoch's offset.
LEMMA ShiftedIs ==
  ASSUME NEW c, c.offset \in Int, NEW r \in Seq(Packet)
  PROVE  /\ Shifted(c, r) \in Seq(Packet) /\ DOMAIN Shifted(c, r) = DOMAIN r
         /\ \A k \in DOMAIN r : Shifted(c, r)[k].dts = r[k].dts + c.offset
<1> DEFINE s == Shifted(c, r)
<1>2. s = [i \in DOMAIN r |-> [r[i] EXCEPT !.dts = @ + c.offset, !.pts = @ + c.offset]]
  BY DEF Shifted
<1> HIDE DEF s
<1>3. ASSUME NEW k \in DOMAIN r PROVE s[k] \in Packet /\ s[k].dts = r[k].dts + c.offset
  <2>1. r[k] \in Packet
    OBVIOUS
  <2>2. s[k] = [r[k] EXCEPT !.dts = @ + c.offset, !.pts = @ + c.offset]
    BY <1>2, <1>3
  <2> DEFINE x == r[k]
  <2>3. x \in Packet /\ s[k] = [x EXCEPT !.dts = @ + c.offset, !.pts = @ + c.offset]
    BY <2>1, <2>2
  <2> HIDE DEF x
  <2>4. /\ x.kind \in {"Video", "Audio"} /\ x.key \in BOOLEAN /\ x.dts \in Int
        /\ x.pts \in Int /\ x.drain \in BOOLEAN /\ (x.kind = "Audio" => x.pts = x.dts)
        /\ x = [kind |-> x.kind, key |-> x.key, dts |-> x.dts, pts |-> x.pts,
                drain |-> x.drain]
    BY <2>3 DEF Packet
  <2>5. s[k] = [kind |-> x.kind, key |-> x.key, dts |-> x.dts + c.offset,
                pts |-> x.pts + c.offset, drain |-> x.drain]
    BY <2>3, <2>4
  <2> QED BY <2>4, <2>5 DEF Packet, x
<1>4. DOMAIN s = DOMAIN r
  BY <1>2
<1>5. DOMAIN r = 1..Len(r) /\ Len(r) \in Nat
  OBVIOUS
<1>6. s \in Seq(Packet)
  <2>1. \A k \in 1..Len(r) : s[k] \in Packet
    BY <1>3, <1>5
  <2>2. s = [k \in 1..Len(r) |-> s[k]]
    BY <1>2, <1>5
  <2> QED BY <1>5, <2>1, <2>2
<1> QED
  BY <1>3, <1>4, <1>6 DEF s

\* The output of an epoch is in order and lies where its packets were shifted to.
LEMMA OutputIs ==
  ASSUME NEW c, c.offset \in Int, c.cutoff \in Int, NEW packets \in Seq(Packet),
         NEW bridge \in Seq(Packet), NEW low \in Int, NEW high \in Int,
         Within(bridge, low, high),
         \A i \in DOMAIN packets :
           packets[i].dts >= c.cutoff => /\ low <= packets[i].dts + c.offset
                                         /\ packets[i].dts + c.offset <= high
  PROVE  /\ Output(c, bridge, packets) \in Seq(Packet)
         /\ InSequence(Output(c, bridge, packets))
         /\ Within(Output(c, bridge, packets), low, high)
         /\ (\E i \in DOMAIN packets : packets[i].dts >= c.cutoff) =>
              Output(c, bridge, packets) # <<>>
<1> DEFINE k0 == FromCut(packets, c.cutoff)
           s == Shifted(c, k0)
           r == bridge \o s
           o == Output(c, bridge, packets)
<1>1. /\ s \in Seq(Packet)
      /\ \A k \in DOMAIN s : \E i \in DOMAIN packets :
           packets[i].dts >= c.cutoff /\ s[k].dts = packets[i].dts + c.offset
      /\ (\E i \in DOMAIN packets : packets[i].dts >= c.cutoff) => s # <<>>
  <2>1. /\ k0 \in Seq(Packet)
        /\ \A k \in DOMAIN k0 : \E i \in DOMAIN packets :
             packets[i].dts >= c.cutoff /\ k0[k] = packets[i]
        /\ (\E i \in DOMAIN packets : packets[i].dts >= c.cutoff) => k0 # <<>>
    BY FromCutIs
  <2> HIDE DEF k0
  <2>2. /\ s \in Seq(Packet) /\ DOMAIN s = DOMAIN k0
        /\ \A k \in DOMAIN k0 : s[k].dts = k0[k].dts + c.offset
    BY <2>1, ShiftedIs
  <2> HIDE DEF s
  <2>3. k0 # <<>> => s # <<>>
    BY <2>1, <2>2
  <2> QED BY <2>1, <2>2, <2>3
<1> HIDE DEF s
<1>2. /\ r \in Seq(Packet)
      /\ \A i \in DOMAIN r : \/ i \in DOMAIN bridge /\ r[i] = bridge[i]
                             \/ i - Len(bridge) \in DOMAIN s /\ r[i] = s[i - Len(bridge)]
      /\ s # <<>> => r # <<>>
  BY <1>1
<1>3. Within(s, low, high)
  BY <1>1 DEF Within
<1> HIDE DEF r
<1>4. \A i \in DOMAIN r : low <= r[i].dts /\ r[i].dts <= high
  BY <1>2, <1>3 DEF Within
<1>5. /\ o \in Seq(Packet) /\ DOMAIN o = DOMAIN r /\ InSequence(o)
      /\ \A k \in DOMAIN o : \E i \in DOMAIN r : o[k] = r[i]
  <2>1. o = InOrder(r)
    BY DEF Output, r, s, k0
  <2> HIDE DEF o
  <2> QED BY <1>2, <2>1, InOrderSorts
<1> HIDE DEF o
<1>6. Within(o, low, high)
  BY <1>4, <1>5 DEF Within
<1>7. r # <<>> => o # <<>>
  BY <1>2, <1>5
<1> QED
  BY <1>1, <1>2, <1>5, <1>6, <1>7 DEF o

\* publish of a feed that is selected: what is emitted goes behind the tail.
LEMMA EmitGood ==
  ASSUME NEW c, Typed(c), c.error = None, NEW feed \in Feeds, c.selected = feed,
         NEW next \in [Feeds -> Int], NEW pub, NEW dts \in Int, NEW epoch,
         NEW bridge \in Seq(Packet), NEW packets \in Seq(Packet), NEW starts \in BOOLEAN,
         Posted(c, dts), Opened(c, pub, epoch), Lined(c), Paced(c), Ahead(c, next),
         starts \/ Headed(c, pub, epoch),
         starts => \E i \in DOMAIN packets : packets[i].dts >= c.cutoff,
         Within(bridge, c.tail.output, c.offset + next[feed]),
         \A i \in DOMAIN packets : packets[i].dts >= c.cutoff =>
           /\ c.tail.output <= packets[i].dts + c.offset
           /\ packets[i].dts + c.offset <= c.offset + next[feed]
  PROVE  Good(Emit(c, feed, bridge, packets, starts), next, pub, dts, epoch)
<1>1. /\ c.offset \in Int /\ c.tail.output \in Int /\ c.tail.audio \in Int
      /\ c.tail.video \in Int /\ c.published.output \in Int
  BY DEF Typed, Tails
<1>2. c.cutoff \in Int
  <2>1. c.selected # None
    BY Constants
  <2> QED BY <2>1 DEF Paced, Typed
<1> DEFINE high == c.offset + next[feed]
<1>a. high \in Int
  BY <1>1
<1> HIDE DEF high
<1> DEFINE o == Output(c, bridge, packets)
<1>3. /\ o \in Seq(Packet) /\ InSequence(o) /\ Within(o, c.tail.output, high)
      /\ starts => o # <<>>
  <2>1. Within(bridge, c.tail.output, high)
    BY DEF high
  <2>2. \A i \in DOMAIN packets :
           packets[i].dts >= c.cutoff => /\ c.tail.output <= packets[i].dts + c.offset
                                         /\ packets[i].dts + c.offset <= high
    BY DEF high
  <2> QED BY <1>1, <1>2, <1>a, <2>1, <2>2, OutputIs
<1> HIDE DEF o
<1> DEFINE t == TailAfter(c.tail, feed, o)
           h == IF starts THEN feed ELSE c.headers
           sl == c.silent \/ (feed = "Holding" /\ Kind(o, "Audio") # <<>>)
           c1 == Advanced(c, feed, o, starts)
           res == feed = "Programme" /\ starts /\ c1.silent /\ c.drain_ticket # 0
           c2 == IF res THEN PaceProgramme(c1, o) ELSE c1
           later == IF feed = "Holding" THEN c2.paced_holding ELSE c2.paced_programme
<1>4. Emit(c, feed, bridge, packets, starts) =
        IF o = <<>> THEN c
        ELSE IF o[1].dts < c.tail.output THEN Fail(c, "DtsRegression")
        ELSE IF later THEN Schedule(c2, o) ELSE Dispatched(c2, feed, o)
  BY DEF Emit, o
<1>5. CASE o = <<>>
  <2>1. Headed(c, pub, epoch)
    BY <1>3, <1>5
  <2> QED BY <1>4, <1>5, <2>1, Constants DEF Good, Going, Errors
<1>6. CASE o # <<>>
  <2>1. /\ 1 \in DOMAIN o /\ Len(o) \in DOMAIN o
        /\ \A i \in DOMAIN o : o[i].dts \in Int /\ o[i].dts <= o[Len(o)].dts
    BY <1>3, <1>6, LastIs DEF Within
  <2>2. /\ c.tail.output <= o[1].dts /\ o[1].dts <= o[Len(o)].dts
        /\ o[Len(o)].dts <= high
    BY <1>3, <2>1 DEF Within
  <2>3. t \in Tails /\ t.output = o[Len(o)].dts
    BY <1>1, <1>3, <1>6, TailAfterIs
  <2>4. h \in Feeds \cup {None} /\ sl \in BOOLEAN /\ res \in BOOLEAN
    BY DEF Typed
  <2>b. c1 = [c EXCEPT !.tail = t, !.silent = sl, !.headers = h]
    BY DEF Advanced
  <2>c. c2 = IF res THEN [c1 EXCEPT !.paced_programme = TRUE, !.boundary_sent = FALSE,
                                    !.resume_age = 0, !.resume_time = o[1].dts]
             ELSE c1
    BY DEF PaceProgramme
  <2> HIDE DEF t, h, sl, res, c1, c2
  <2>5. /\ Typed(c2)
        /\ c2.tail = t /\ c2.headers = h /\ c2.error = None
        /\ c2.paced_programme = (c.paced_programme \/ res)
        /\ c2.epoch = c.epoch /\ c2.desired = c.desired /\ c2.selected = c.selected
        /\ c2.cutoff = c.cutoff /\ c2.offset = c.offset /\ c2.boundary = c.boundary
        /\ c2.waiting = c.waiting /\ c2.scheduled = c.scheduled /\ c2.outbox = c.outbox
        /\ c2.published = c.published /\ c2.paced_holding = c.paced_holding
    <3>1. CASE res
      BY <2>3, <2>4, <2>b, <2>c, <3>1 DEF Typed, Fields
    <3>2. CASE ~res
      BY <2>3, <2>4, <2>b, <2>c, <3>2 DEF Typed, Fields
    <3> QED BY <3>1, <3>2
  <2>6. c.desired = feed /\ c.boundary = <<>> /\ c.selected # None
    BY Constants DEF Paced
  <2>7. res => feed = "Programme"
    BY DEF res
  <2>8. Paced(c2)
    BY <2>5, <2>6, <2>7, Constants DEF Paced
  <2>9. Ahead(c2, next)
    <3>1. c2.tail.output <= c2.offset + next[c2.selected]
      BY <2>2, <2>3, <2>5 DEF high
    <3> QED BY <2>5, <3>1 DEF Ahead
  <2>10. Headed(c2, pub, epoch)
    <3>1. CASE starts
      BY <2>5, <3>1, Constants DEF Headed, h
    <3>2. CASE ~starts
      BY <2>5, <3>2 DEF Headed, Heard, h
    <3> QED BY <3>1, <3>2
  <2>11. Posted(c2, dts) /\ Opened(c2, pub, epoch)
    BY <2>5 DEF Posted, Opened, Heard
  <2>12. /\ c.published.output <= c.tail.output /\ InSequence(c.scheduled)
         /\ Within(c.scheduled, c.published.output, c.tail.output)
    BY DEF Lined
  <2>13. CASE later
    <3>1. c2.paced_holding \/ c2.paced_programme
      BY <2>13
    <3>2. Within(o, c.tail.output, c2.tail.output)
      BY <1>3, <2>1, <2>3, <2>5 DEF Within
    <3>3. c.tail.output <= c2.tail.output
      BY <1>1, <2>1, <2>2, <2>3, <2>5
    <3>4. Good(Schedule(c2, o), next, pub, dts, epoch)
      BY <1>1, <1>3, <2>5, <2>6, <2>8, <2>9, <2>10, <2>11, <2>12, <3>1, <3>2, <3>3,
         ScheduleGood
    <3> QED BY <1>1, <1>4, <1>6, <2>1, <2>2, <2>13, <3>4
  <2>14. CASE ~later
    <3>1. c.scheduled = <<>>
      BY <2>5, <2>6, <2>14, Constants DEF Paced, Feeds
    <3>2. /\ c2.published.output <= o[1].dts /\ o[Len(o)].dts <= c2.tail.output
          /\ InSequence(c2.scheduled)
          /\ Within(c2.scheduled, o[Len(o)].dts, c2.tail.output)
      BY <1>1, <2>1, <2>2, <2>3, <2>5, <2>12, <3>1 DEF InSequence, Within
    <3>3. Good(Dispatched(c2, feed, o), next, pub, dts, epoch)
      BY <1>3, <1>6, <2>5, <2>6, <2>8, <2>9, <2>10, <2>11, <3>2, DispatchedGood
    <3> QED BY <1>1, <1>4, <1>6, <2>1, <2>2, <2>14, <3>3
  <2> QED BY <2>13, <2>14
<1> QED
  BY <1>5, <1>6

\* The silent frame goes behind the tail, under headers of its own.
LEMMA DrainIs ==
  ASSUME NEW c, Typed(c), NEW pub, NEW dts \in Int, NEW epoch,
         Posted(c, dts), Opened(c, pub, epoch), c.published.output <= c.tail.output
  PROVE  LET d == Drain(c) IN
         /\ Typed(d) /\ Posted(d, dts) /\ Opened(d, pub, epoch)
         /\ d.published.output = d.tail.output /\ d.tail.output <= d.tail.audio
         /\ d.epoch = c.epoch /\ d.desired = c.desired /\ d.selected = c.selected
         /\ d.cutoff = c.cutoff /\ d.offset = c.offset /\ d.boundary = c.boundary
         /\ d.waiting = c.waiting /\ d.scheduled = c.scheduled /\ d.error = c.error
         /\ d.paced_holding = c.paced_holding /\ d.paced_programme = c.paced_programme
<1> DEFINE m == Max({c.tail.output + Milli, c.tail.audio})
           t == Ceil(m)
           b == [epoch |-> c.epoch, ticket |-> c.ticket + 1, feed |-> "Holding",
                 packets |-> <<Silence(t)>>, avc |-> c.published_feed]
           c1 == Send(c, "Holding", <<Silence(t)>>, c.published_feed)
           d == Drain(c)
<1>1. /\ c.tail \in Tails /\ c.tail.output \in Int /\ c.tail.audio \in Int
      /\ c.published \in Tails /\ c.published.output \in Int
      /\ Milli \in Int /\ Milli >= 0 /\ Duration \in Int /\ Duration >= 0
      /\ c.ticket \in Nat /\ c.epoch \in Nat /\ c.published_feed \in Feeds
      /\ c.outbox \in Seq(Batches)
  BY TimeConstants DEF Typed, Tails
<1>2. t \in Int /\ c.tail.output <= t
  <2>1. m \in Int /\ c.tail.output + Milli <= m
    <3>1. PICK x \in Int : x = c.tail.output + Milli
      BY <1>1
    <3> QED BY <1>1, <3>1, MaxOfTwo
  <2> HIDE DEF m
  <2>2. t \in Int /\ m <= t
    <3>1. m \in Int
      BY <2>1
    <3> QED BY <3>1, CeilAbove, Zenon
  <2>3. c.tail.output <= m
    <3>1. PICK x \in Int : x = c.tail.output
      BY <1>1
    <3> QED BY <1>1, <2>1, <3>1
  <2> HIDE DEF t
  <2>4. PICK x \in Int : x = c.tail.output
    BY <1>1
  <2> QED BY <2>1, <2>2, <2>3, <2>4
<1> DEFINE tail == Silenced(c1.tail, t)
           published == Silenced(c1.published, t)
<1>3. d = [c1 EXCEPT !.drain_required = FALSE, !.drain_ticket = c1.ticket,
                     !.drain_time = c.tail.output, !.silent = TRUE,
                     !.tail = tail, !.published = published]
  BY DEF Drain
<1> HIDE DEF t, d
<1>4. c1 = [c EXCEPT !.ticket = c.ticket + 1, !.outbox = Append(c.outbox, b)]
  BY DEF Send
<1>5. b \in Batches /\ b.epoch = c.epoch /\ b.avc # None /\ b.packets = <<Silence(t)>>
  BY <1>1, <1>2, SilenceIs, Constants DEF Batches
<1> HIDE DEF b, c1
<1>6. Append(c.outbox, b) \in Seq(Batches)
  BY <1>1, <1>5
<1>7. /\ Fields \subseteq DOMAIN c1 /\ DOMAIN c1 = DOMAIN c
      /\ c1.tail = c.tail /\ c1.published = c.published /\ c1.ticket = c.ticket + 1
      /\ c1.outbox = Append(c.outbox, b) /\ Typed(c1)
      /\ c1.epoch = c.epoch /\ c1.desired = c.desired /\ c1.selected = c.selected
      /\ c1.cutoff = c.cutoff /\ c1.offset = c.offset /\ c1.boundary = c.boundary
      /\ c1.waiting = c.waiting /\ c1.scheduled = c.scheduled /\ c1.error = c.error
      /\ c1.paced_holding = c.paced_holding /\ c1.paced_programme = c.paced_programme
  BY <1>1, <1>4, <1>6 DEF Typed, Fields
<1>8. /\ tail \in Tails /\ published \in Tails /\ tail.output = t
      /\ tail.audio = t + Duration /\ published.output = t
  <2>1. c1.tail.video \in Int /\ c1.published.video \in Int
    BY <1>1, <1>7 DEF Tails
  <2> QED BY <1>1, <1>2, <2>1 DEF Tails, Silenced
<1> HIDE DEF tail, published
<1>9. /\ Typed(d) /\ d.tail = tail /\ d.published = published
       /\ d.outbox = Append(c.outbox, b)
       /\ d.epoch = c.epoch /\ d.desired = c.desired /\ d.selected = c.selected
       /\ d.cutoff = c.cutoff /\ d.offset = c.offset /\ d.boundary = c.boundary
       /\ d.waiting = c.waiting /\ d.scheduled = c.scheduled /\ d.error = c.error
       /\ d.paced_holding = c.paced_holding /\ d.paced_programme = c.paced_programme
  BY <1>3, <1>7, <1>8 DEF Typed, Fields
<1>10. Posted(d, dts)
  <2>1. /\ InSequence(b.packets) /\ b.packets[1].dts = t /\ Len(b.packets) = 1
    BY <1>2, <1>5, SilenceIs DEF InSequence
  <2>2. c.published.output <= b.packets[1].dts /\ d.published.output = b.packets[Len(b.packets)].dts
    BY <1>1, <1>2, <1>8, <1>9, <2>1
  <2> QED BY <1>5, <1>9, <2>1, <2>2, PostedOn
<1>11. Opened(d, pub, epoch)
  <2>1. d.outbox[1] = IF c.outbox = <<>> THEN b ELSE c.outbox[1]
    BY <1>1, <1>5, <1>9, AppendIs
  <2> QED BY <1>5, <1>9, <2>1 DEF Opened, Heard
<1> QED
  BY <1>1, <1>2, <1>8, <1>9, <1>10, <1>11 DEF d

-----------------------------------------------------------------------------
(* What a boundary gives.                                                   *)

\* The packets of a kind are those of the sequence.
LEMMA KindIs ==
  ASSUME NEW q \in Seq(Packet), NEW kind
  PROVE  /\ Kind(q, kind) \in Seq(Packet)
         /\ \A k \in DOMAIN Kind(q, kind) : \E i \in DOMAIN q :
              q[i].kind = kind /\ Kind(q, kind)[k] = q[i]
         /\ \A i \in DOMAIN q : q[i].kind = kind =>
              \E k \in DOMAIN Kind(q, kind) : Kind(q, kind)[k] = q[i]
<1> DEFINE at == {i \in DOMAIN q : q[i].kind = kind}
           x == At(q, at)
<1>1. Kind(q, kind) = x /\ \A i \in DOMAIN q : i \in at <=> q[i].kind = kind
  BY DEF Kind
<1> HIDE DEF at
<1>2. /\ x \in Seq(Packet)
      /\ \A k \in DOMAIN x : \E i \in DOMAIN q : i \in at /\ x[k] = q[i]
      /\ \A i \in DOMAIN q : i \in at => \E k \in DOMAIN x : x[k] = q[i]
  BY AtPicks
<1> HIDE DEF x
<1> QED
  BY <1>1, <1>2

\* What is joined comes from the boundary, its sound from the picture on.
LEMMA JoinableIs ==
  ASSUME NEW q \in Seq(Packet), NEW resumes \in BOOLEAN
  PROVE  LET r == Joinable(q, resumes) IN
         /\ r \in Seq(Packet)
         /\ \A k \in DOMAIN r : \E i \in DOMAIN q : r[k] = q[i]
         /\ \A i \in DOMAIN q : q[i].kind = "Audio" /\ (resumes => q[i].pts >= q[1].pts) =>
              \E k \in DOMAIN r : r[k] = q[i]
<1>1. CASE ~resumes
  BY <1>1 DEF Joinable
<1>2. CASE resumes
  <2> DEFINE at == {i \in DOMAIN q : q[i].kind = "Video" \/ q[i].pts >= q[1].pts}
             x == At(q, at)
  <2>1. /\ Joinable(q, resumes) = x
        /\ \A i \in DOMAIN q : q[i].pts >= q[1].pts => i \in at
    BY <1>2 DEF Joinable
  <2> HIDE DEF at
  <2>2. /\ x \in Seq(Packet)
        /\ \A k \in DOMAIN x : \E i \in DOMAIN q : i \in at /\ x[k] = q[i]
        /\ \A i \in DOMAIN q : i \in at => \E k \in DOMAIN x : x[k] = q[i]
    BY AtPicks
  <2> HIDE DEF x
  <2> QED BY <1>2, <2>1, <2>2
<1> QED
  BY <1>1, <1>2

\* The first sound of what is joined is one of the boundary's packets.
LEMMA FirstSoundIs ==
  ASSUME NEW q \in Seq(Packet), NEW resumes \in BOOLEAN,
         NEW i \in DOMAIN q, q[i].kind = "Audio", resumes => q[i].pts >= q[1].pts
  PROVE  LET r == Joinable(q, resumes)
             p == Kind(r, "Audio")[1]
         IN  \E k \in DOMAIN r : p = r[k] /\ p \in Packet /\ p.pts = p.dts
<1> DEFINE r == Joinable(q, resumes)
           a == Kind(r, "Audio")
<1>1. r \in Seq(Packet) /\ \E k \in DOMAIN r : r[k] = q[i]
  BY JoinableIs
<1> HIDE DEF r
<1>2. /\ a \in Seq(Packet)
      /\ \A k \in DOMAIN a : \E j \in DOMAIN r : r[j].kind = "Audio" /\ a[k] = r[j]
      /\ \A j \in DOMAIN r : r[j].kind = "Audio" => \E k \in DOMAIN a : a[k] = r[j]
  BY ZenonT(60), <1>1, KindIs
<1> HIDE DEF a
<1>3. a # <<>>
  BY <1>1, <1>2
<1>4. 1 \in DOMAIN a
  BY <1>2, <1>3
<1>5. PICK j \in DOMAIN r : r[j].kind = "Audio" /\ a[1] = r[j]
  BY <1>2, <1>4
<1>6. a[1] \in Packet
  BY <1>2, <1>4
<1>7. a[1].pts = a[1].dts
  BY <1>5, <1>6 DEF Packet
<1> QED
  BY <1>5, <1>6, <1>7 DEF a, r

\* The next instant is behind the tail.
LEMMA NextInstantIs ==
  ASSUME NEW tail \in Tails
  PROVE  NextInstant(tail) \in Int /\ tail.output <= NextInstant(tail)
<1>1. PICK a \in Int, b \in Int, v \in Int :
        a = tail.output + Milli /\ b = tail.audio /\ v = tail.video + Milli
  BY TimeConstants DEF Tails
<1>2. Max({a, b, v}) \in Int /\ a <= Max({a, b, v})
  BY MaxOfThree
<1>3. PICK m \in Int : m = Max({a, b, v}) /\ a <= m
  BY <1>2
<1>4. NextInstant(tail) = Ceil(m)
  BY <1>1, <1>3 DEF NextInstant
<1>5. Ceil(m) \in Int /\ m <= Ceil(m)
  BY CeilAbove
<1> QED
  BY SMTT(60), <1>1, <1>3, <1>4, <1>5, TimeConstants DEF Tails

\* A bridge starts behind the tail.
LEMMA BridgeStartIs ==
  ASSUME NEW tail \in Tails, NEW resumes \in BOOLEAN, resumes \/ tail.output <= tail.audio
  PROVE  BridgeStart(tail, resumes) \in Int /\ tail.output <= BridgeStart(tail, resumes)
<1>1. PICK a \in Int, b \in Int : a = tail.audio /\ b = tail.output
  BY DEF Tails
<1>2. PICK m \in Int : m = Max({a, b}) /\ b <= m
  BY MaxOfTwo
<1>3. BridgeStart(tail, resumes) = Ceil(IF resumes THEN m ELSE a)
  BY <1>1, <1>2 DEF BridgeStart
<1>4. Ceil(m) \in Int /\ m <= Ceil(m) /\ Ceil(a) \in Int /\ a <= Ceil(a)
  BY CeilAbove
<1> QED
  BY <1>1, <1>2, <1>3, <1>4

\* A feed is placed behind the tail.
LEMMA SelectGood ==
  ASSUME NEW c, Typed(c), c.error = None, c.selected = None, c.cutoff \in Int,
         NEW feed \in Feeds, c.desired = feed, NEW next \in [Feeds -> Int], NEW pub,
         NEW dts \in Int, NEW epoch, Posted(c, dts), Opened(c, pub, epoch),
         Lined(c), Paced(c), Ahead(c, next),
         NEW i \in DOMAIN c.boundary, c.boundary[i].kind = "Audio",
         feed = "Programme" /\ c.tail.output >= 0 =>
           c.boundary[i].pts >= c.boundary[1].pts
  PROVE  Good(Select(c, feed), next, pub, dts, epoch)
<1> DEFINE drained == feed = "Holding" /\ c.drain_required
           resumes == feed = "Programme" /\ c.tail.output >= 0 /\ c.silent
           c1      == IF drained THEN Drain(c) ELSE c
           offset  == NextInstant(c1.tail) - c.cutoff
           packets == Joinable(c.boundary, resumes)
           sound   == Kind(packets, "Audio")[1].pts + offset
           c2      == [c1 EXCEPT !.offset = offset, !.selected = feed, !.boundary = <<>>]
           bridge  == IF resumes \/ drained
                      THEN Bridge(BridgeStart(c1.tail, resumes), sound) ELSE <<>>
<1>1. Select(c, feed) = IF resumes /\ sound - c1.tail.audio > BridgeLimit
                        THEN Fail(c1, "BridgeTooLong")
                        ELSE Emit(c2, feed, bridge, packets, TRUE)
  BY DEF Select
<1>2. resumes \in BOOLEAN /\ drained \in BOOLEAN
  BY DEF Typed
<1>3. /\ Typed(c1) /\ Posted(c1, dts) /\ Opened(c1, pub, epoch)
      /\ c1.published.output <= c1.tail.output
      /\ drained => c1.tail.output <= c1.tail.audio
      /\ c1.epoch = c.epoch /\ c1.desired = c.desired /\ c1.selected = c.selected
      /\ c1.cutoff = c.cutoff /\ c1.offset = c.offset /\ c1.boundary = c.boundary
      /\ c1.waiting = c.waiting /\ c1.scheduled = c.scheduled /\ c1.error = c.error
      /\ c1.paced_holding = c.paced_holding /\ c1.paced_programme = c.paced_programme
  <2>0. c.published.output <= c.tail.output
    BY DEF Lined
  <2>1. CASE drained
    <3>1. c1 = Drain(c)
      BY <2>1
    <3>2. Drain(c).published.output \in Int /\ Drain(c).tail.output \in Int
      BY <2>0, DrainIs DEF Typed, Tails
    <3> HIDE DEF c1
    <3> QED BY <2>0, <3>1, <3>2, DrainIs
  <2>2. CASE ~drained
    BY <2>0, <2>2
  <2> QED BY <2>1, <2>2
<1> HIDE DEF c1
<1>4. c1.tail \in Tails /\ c1.tail.output \in Int /\ next[feed] \in Int
  BY <1>3 DEF Typed, Tails
<1>5. offset \in Int /\ c1.tail.output <= c.cutoff + offset
  <2>1. NextInstant(c1.tail) \in Int /\ c1.tail.output <= NextInstant(c1.tail)
    BY <1>4, NextInstantIs
  <2> QED BY <1>4, <2>1
<1> HIDE DEF offset
<1>6. resumes => c.boundary[i].pts >= c.boundary[1].pts
  OBVIOUS
<1>7. c.boundary \in Seq(Packet)
  BY DEF Typed
<1> HIDE DEF resumes, drained
<1>8. /\ packets \in Seq(Packet)
      /\ \A k \in DOMAIN packets : \E j \in DOMAIN c.boundary : packets[k] = c.boundary[j]
  BY <1>2, <1>7, JoinableIs
<1> DEFINE p == Kind(packets, "Audio")[1]
<1>9. \E k \in DOMAIN packets : p = packets[k] /\ p \in Packet /\ p.pts = p.dts
  BY <1>2, <1>6, <1>7, FirstSoundIs
<1> HIDE DEF packets, p
<1>10. \A j \in DOMAIN c.boundary :
         /\ c.boundary[j].dts \in Int /\ c.cutoff <= c.boundary[j].dts
         /\ c.boundary[j].dts <= next[feed]
  <2>1. \A j \in DOMAIN c.boundary : c.boundary[j] \in Packet
    BY <1>7
  <2> QED BY <2>1 DEF Paced, Ahead, Packet
<1>11. \A k \in DOMAIN packets :
         /\ packets[k].dts \in Int /\ c.cutoff <= packets[k].dts
         /\ packets[k].dts <= next[feed]
  BY <1>8, <1>10
<1>12. sound \in Int /\ sound <= offset + next[feed]
  <2>1. p.pts \in Int /\ p.pts <= next[feed]
    BY <1>9, <1>11
  <2>2. sound = p.pts + offset
    BY DEF p
  <2> HIDE DEF sound
  <2> QED BY <1>4, <1>5, <2>1, <2>2
<1> HIDE DEF sound
<1>13. bridge \in Seq(Packet) /\ Within(bridge, c1.tail.output, offset + next[feed])
  <2>1. CASE ~(resumes \/ drained)
    BY <2>1 DEF Within
  <2>2. CASE resumes \/ drained
    <3>1. PICK b \in Int : b = BridgeStart(c1.tail, resumes) /\ c1.tail.output <= b
      BY <1>2, <1>3, <1>4, <2>2, BridgeStartIs
    <3>2. bridge = Bridge(b, sound)
      BY <2>2, <3>1
    <3>3. /\ Bridge(b, sound) \in Seq(Packet)
          /\ \A k \in DOMAIN Bridge(b, sound) :
               b <= Bridge(b, sound)[k].dts /\ Bridge(b, sound)[k].dts <= sound
      BY <1>12, BridgeIs DEF Within
    <3>4. \A k \in DOMAIN Bridge(b, sound) : Bridge(b, sound)[k].dts \in Int
      <4>1. \A k \in DOMAIN Bridge(b, sound) : Bridge(b, sound)[k] \in Packet
        BY <3>3
      <4> QED BY <4>1 DEF Packet
    <3> HIDE DEF bridge
    <3> QED BY <1>4, <1>5, <1>12, <3>1, <3>2, <3>3, <3>4 DEF Within
  <2> QED BY <2>1, <2>2
<1> HIDE DEF bridge
<1>14. /\ Typed(c2) /\ c2.offset = offset /\ c2.selected = feed /\ c2.boundary = <<>>
       /\ c2.epoch = c1.epoch /\ c2.desired = c1.desired
       /\ c2.cutoff = c1.cutoff /\ c2.tail = c1.tail /\ c2.published = c1.published
       /\ c2.waiting = c1.waiting /\ c2.scheduled = c1.scheduled /\ c2.error = c1.error
       /\ c2.outbox = c1.outbox
       /\ c2.paced_holding = c1.paced_holding /\ c2.paced_programme = c1.paced_programme
  BY <1>3, <1>5 DEF Typed, Fields
<1> HIDE DEF c2
<1>15. Posted(c2, dts) /\ Opened(c2, pub, epoch)
  BY <1>3, <1>14 DEF Posted, Opened, Heard
<1>16. c.scheduled = <<>>
  BY DEF Paced
<1>17. Lined(c2)
  BY <1>3, <1>14, <1>16 DEF Lined, InSequence, Within
<1>18. Paced(c2)
  BY <1>3, <1>14, <1>16, Constants DEF Paced
<1>19. Ahead(c2, next)
  <2>1. c1.tail.output <= offset + next[feed]
    <3>1. c.cutoff <= next[feed]
      BY <1>4, <1>10
    <3> QED BY <1>4, <1>5, <3>1
  <2> QED BY <1>3, <1>14, <2>1 DEF Ahead
<1>20. \E k \in DOMAIN packets : packets[k].dts >= c2.cutoff
  BY <1>3, <1>9, <1>11, <1>14
<1>21. \A k \in DOMAIN packets : packets[k].dts >= c2.cutoff =>
          /\ c2.tail.output <= packets[k].dts + c2.offset
          /\ packets[k].dts + c2.offset <= c2.offset + next[feed]
  BY <1>4, <1>5, <1>11, <1>14
<1>22. Within(bridge, c2.tail.output, c2.offset + next[feed])
  BY <1>13, <1>14
<1>23. Good(Emit(c2, feed, bridge, packets, TRUE), next, pub, dts, epoch)
  BY <1>3, <1>8, <1>13, <1>14, <1>15, <1>17, <1>18, <1>19, <1>20, <1>21, <1>22, EmitGood
<1>24. Good(Fail(c1, "BridgeTooLong"), next, pub, dts, epoch)
  BY <1>3, FailGood DEF Errors
<1> QED
  BY <1>1, <1>23, <1>24

\* Nothing is lost when the feeds go on or an action is admitted.
LEMMA GoodLater ==
  ASSUME NEW c, NEW next \in [Feeds -> Int], NEW later \in [Feeds -> Int],
         \A f \in Feeds : next[f] <= later[f], NEW pub \in Int, NEW pub2 \in Int,
         pub <= pub2, NEW dts, NEW epoch, Good(c, next, pub, dts, epoch)
  PROVE  Good(c, later, pub2, dts, epoch)
<1>1. Typed(c) /\ Posted(c, dts) /\ Opened(c, pub, epoch)
  BY DEF Good
<1>2. Heard(c, pub, epoch) => Heard(c, pub2, epoch)
  <2>1. c.epoch \in Int
    BY SMTT(60), <1>1 DEF Typed
  <2> QED BY <2>1 DEF Heard
<1>3. Opened(c, pub2, epoch)
  BY <1>1, <1>2 DEF Opened
<1>4. ASSUME c.error = None PROVE Going(c, later, pub2, epoch)
  <2>1. Lined(c) /\ Paced(c) /\ Ahead(c, next) /\ Headed(c, pub, epoch)
    BY <1>4 DEF Good, Going
  <2>2. Headed(c, pub2, epoch)
    BY <1>2, <2>1 DEF Headed
  <2>3. c.boundary \in Seq(Packet) /\ c.waiting \in Seq(Packet)
    BY <1>1 DEF Typed
  <2>4. /\ \A i \in DOMAIN c.boundary : c.boundary[i].dts \in Int
        /\ \A i \in DOMAIN c.waiting : c.waiting[i].dts \in Int
    <3>1. (\A i \in DOMAIN c.boundary : c.boundary[i] \in Packet)
          /\ (\A i \in DOMAIN c.waiting : c.waiting[i] \in Packet)
      BY <2>3
    <3> QED BY <3>1 DEF Packet
  <2>5. /\ c.desired \in Feeds /\ (c.selected # None => c.selected \in Feeds)
        /\ c.offset \in Int /\ c.tail.output \in Int
    BY <1>1 DEF Typed, Tails
  <2>6. \A f \in Feeds : next[f] \in Int /\ later[f] \in Int /\ next[f] <= later[f]
    OBVIOUS
  <2>7. c.selected # None => c.tail.output <= c.offset + later[c.selected]
    BY <2>1, <2>5, <2>6 DEF Ahead
  <2>8. \A i \in DOMAIN c.boundary : c.boundary[i].dts <= later[c.desired]
    BY <2>1, <2>4, <2>5, <2>6 DEF Ahead
  <2>9. \A i \in DOMAIN c.waiting : c.waiting[i].dts <= later["Programme"]
    BY <2>1, <2>4, <2>6, Constants DEF Ahead
  <2> QED BY <2>1, <2>2, <2>7, <2>8, <2>9 DEF Going, Ahead
<1> QED
  BY <1>1, <1>3, <1>4 DEF Good

\* What follows a keyframe is part of what was there.
LEMMA FromKeyframeIs ==
  ASSUME NEW q \in Seq(Packet)
  PROVE  /\ FromKeyframe(q) \in Seq(Packet)
         /\ \A k \in DOMAIN FromKeyframe(q) : \E i \in DOMAIN q : FromKeyframe(q)[k] = q[i]
<1> DEFINE at == {i \in DOMAIN q : \E j \in 1..i : q[j].key}
           x == At(q, at)
<1>1. FromKeyframe(q) = x
  BY DEF FromKeyframe
<1> HIDE DEF at
<1>2. /\ x \in Seq(Packet)
      /\ \A k \in DOMAIN x : \E i \in DOMAIN q : i \in at /\ x[k] = q[i]
  BY AtPicks
<1> HIDE DEF x
<1> QED
  BY <1>1, <1>2

\* publish of a feed that is not selected: the boundary grows, or the feed is placed.
LEMMA CollectGood ==
  ASSUME NEW c, Typed(c), c.error = None, c.selected = None,
         NEW feed \in Feeds, c.desired = feed, NEW next \in [Feeds -> Int], NEW pub,
         NEW dts \in Int, NEW epoch, Good(c, next, pub, dts, epoch),
         NEW packets \in Seq(Packet),
         \A i \in DOMAIN packets : packets[i].dts <= next[feed]
  PROVE  Good(Collect(c, feed, packets), next, pub, dts, epoch)
<1> DEFINE from  == IF c.cutoff = None THEN FromKeyframe(packets) ELSE packets
           cut   == IF c.cutoff = None /\ from # <<>> THEN from[1].dts ELSE c.cutoff
           more  == FromCut(from, cut)
           grown == c.boundary \o more
           c1    == [c EXCEPT !.cutoff = cut, !.boundary = grown]
           rejoins == feed = "Programme" /\ c.tail.output >= 0
           sounds == \E p \in ToSet(Kind(grown, "Audio")) : rejoins => p.pts >= grown[1].pts
<1>1. Collect(c, feed, packets) =
        IF grown = <<>> THEN c1
        ELSE IF Len(grown) > Capacity \/ Last(grown).dts - cut > Window
        THEN Fail(c1, "BoundaryOverflow")
        ELSE IF sounds THEN Select(c1, feed) ELSE c1
  BY DEF Collect
<1>2. /\ Posted(c, dts) /\ Opened(c, pub, epoch) /\ Lined(c) /\ Paced(c)
      /\ Ahead(c, next) /\ Headed(c, pub, epoch)
  BY DEF Good, Going
<1>3. /\ from \in Seq(Packet)
      /\ \A k \in DOMAIN from : \E i \in DOMAIN packets : from[k] = packets[i]
  BY FromKeyframeIs
<1> HIDE DEF from
<1>4. \A k \in DOMAIN from : from[k].dts \in Int /\ from[k].dts <= next[feed]
  <2>1. \A k \in DOMAIN from : from[k] \in Packet
    BY <1>3
  <2> QED BY <1>3, <2>1 DEF Packet
<1>5. /\ cut \in Int \cup {None} /\ (from # <<>> => cut \in Int)
      /\ (c.cutoff # None => cut = c.cutoff)
  <2>1. from # <<>> => 1 \in DOMAIN from
    BY <1>3
  <2> QED BY <1>4, <2>1 DEF Typed
<1> HIDE DEF cut
<1>6. /\ more \in Seq(Packet)
      /\ \A k \in DOMAIN more : \E i \in DOMAIN from : from[i].dts >= cut /\ more[k] = from[i]
  BY <1>3, FromCutIs
<1> HIDE DEF more
<1>7. \A k \in DOMAIN more : /\ more[k].dts \in Int /\ cut \in Int
                             /\ cut <= more[k].dts /\ more[k].dts <= next[feed]
  <2>1. ASSUME NEW k \in DOMAIN more
        PROVE  /\ more[k].dts \in Int /\ cut \in Int
               /\ cut <= more[k].dts /\ more[k].dts <= next[feed]
    <3>1. PICK i \in DOMAIN from : from[i].dts >= cut /\ more[k] = from[i]
      BY <1>6, <2>1
    <3>2. cut \in Int
      BY <1>5, <3>1
    <3> QED BY <1>4, <3>1, <3>2
  <2> QED BY <2>1
<1>8. c.boundary \in Seq(Packet)
  BY DEF Typed
<1>9. \A k \in DOMAIN c.boundary :
        /\ c.boundary[k].dts \in Int /\ cut \in Int
        /\ cut <= c.boundary[k].dts /\ c.boundary[k].dts <= next[feed]
  <2>1. \A k \in DOMAIN c.boundary : c.boundary[k] \in Packet
    BY <1>8
  <2>2. \A k \in DOMAIN c.boundary : c.boundary[k].dts \in Int
    BY <2>1 DEF Packet
  <2>3. \A k \in DOMAIN c.boundary : c.cutoff # None
    BY <1>2 DEF Paced
  <2>4. c.cutoff # None => cut = c.cutoff /\ cut \in Int
    BY <1>5 DEF Typed
  <2> QED BY <1>2, <2>2, <2>3, <2>4 DEF Paced, Ahead
<1>10. /\ grown \in Seq(Packet)
       /\ \A k \in DOMAIN grown : \/ k \in DOMAIN c.boundary /\ grown[k] = c.boundary[k]
                                  \/ k - Len(c.boundary) \in DOMAIN more
                                     /\ grown[k] = more[k - Len(c.boundary)]
  BY <1>6, <1>8
<1> HIDE DEF grown
<1>11. \A k \in DOMAIN grown : /\ grown[k].dts \in Int /\ cut \in Int
                               /\ cut <= grown[k].dts /\ grown[k].dts <= next[feed]
  BY <1>7, <1>9, <1>10
<1>12. /\ Typed(c1) /\ c1.cutoff = cut /\ c1.boundary = grown
       /\ c1.epoch = c.epoch /\ c1.desired = c.desired /\ c1.selected = c.selected
       /\ c1.headers = c.headers /\ c1.offset = c.offset /\ c1.waiting = c.waiting
       /\ c1.scheduled = c.scheduled /\ c1.outbox = c.outbox
       /\ c1.tail = c.tail /\ c1.published = c.published
       /\ c1.paced_holding = c.paced_holding /\ c1.paced_programme = c.paced_programme
       /\ c1.error = c.error
  BY <1>5, <1>10 DEF Typed, Fields
<1> HIDE DEF c1
<1>13. Posted(c1, dts) /\ Opened(c1, pub, epoch)
  BY <1>2, <1>12 DEF Posted, Opened, Heard
<1>14. Lined(c1)
  BY <1>2, <1>12 DEF Lined
<1>15. grown # <<>> => cut \in Int
  <2>1. grown # <<>> => 1 \in DOMAIN grown
    BY <1>10
  <2> QED BY <1>11, <2>1
<1>16. Paced(c1)
  BY <1>2, <1>11, <1>12, <1>15, Constants DEF Paced
<1>17. Ahead(c1, next)
  BY <1>2, <1>11, <1>12 DEF Ahead
<1>18. Headed(c1, pub, epoch)
  BY <1>12 DEF Headed
<1>19. Good(c1, next, pub, dts, epoch)
  BY <1>12, <1>13, <1>14, <1>16, <1>17, <1>18, Constants DEF Good, Going, Errors
<1>20. Good(Fail(c1, "BoundaryOverflow"), next, pub, dts, epoch)
  BY <1>12, <1>13, FailGood DEF Errors
<1>21. ASSUME grown # <<>>, sounds PROVE Good(Select(c1, feed), next, pub, dts, epoch)
  <2> DEFINE a == Kind(grown, "Audio")
  <2>1. /\ a \in Seq(Packet)
        /\ \A k \in DOMAIN a : \E i \in DOMAIN grown : grown[i].kind = "Audio" /\ a[k] = grown[i]
    BY <1>10, KindIs
  <2>2. PICK p \in ToSet(a) : rejoins => p.pts >= grown[1].pts
    BY <1>21
  <2> HIDE DEF a
  <2>3. PICK k \in DOMAIN a : p = a[k]
    BY <2>2 DEF ToSet
  <2>4. PICK i \in DOMAIN grown : grown[i].kind = "Audio" /\ p = grown[i]
    BY <2>1, <2>3
  <2>5. i \in DOMAIN c1.boundary /\ c1.boundary[i].kind = "Audio"
    BY <1>12, <2>4
  <2>6. feed = "Programme" /\ c1.tail.output >= 0 => c1.boundary[i].pts >= c1.boundary[1].pts
    BY <1>12, <2>2, <2>4
  <2>7. c1.cutoff \in Int
    BY <1>12, <1>15, <1>21
  <2> QED BY <1>12, <1>13, <1>14, <1>16, <1>17, <2>5, <2>6, <2>7, SelectGood
<1> QED
  BY <1>1, <1>19, <1>20, <1>21

\* A hand-over that follows what the feed gave before.
LEMMA PublishGood ==
  ASSUME NEW c, c.error = None, NEW feed \in Feeds, c.desired = feed,
         NEW next \in [Feeds -> Int], NEW later \in [Feeds -> Int],
         \A f \in Feeds : next[f] <= later[f], NEW pub \in Int,
         NEW dts \in Int, NEW epoch, Good(c, next, pub, dts, epoch),
         NEW packets \in Seq(Packet),
         \A i \in DOMAIN packets : packets[i].dts <= later[feed],
         c.selected # None => \A i \in DOMAIN packets : next[feed] <= packets[i].dts
  PROVE  Good(Publish(c, feed, packets), later, pub, dts, epoch)
<1>1. Good(c, later, pub, dts, epoch) /\ Typed(c)
  BY SMTT(60), GoodLater DEF Good
<1>2. CASE packets = <<>>
  BY <1>1, <1>2 DEF Publish
<1>3. CASE packets # <<>> /\ c.selected = None
  <2>1. Good(Collect(c, feed, packets), later, pub, dts, epoch)
    BY <1>1, <1>3, CollectGood
  <2> QED BY <1>3, <2>1 DEF Publish
<1>4. CASE packets # <<>> /\ c.selected # None
  <2>1. /\ Posted(c, dts) /\ Opened(c, pub, epoch) /\ Lined(c) /\ Paced(c)
        /\ Ahead(c, later) /\ Ahead(c, next) /\ Headed(c, pub, epoch)
    BY <1>1 DEF Good, Going
  <2>2. c.selected = feed
    BY <1>4, <2>1 DEF Paced
  <2>3. c.tail.output \in Int /\ c.offset \in Int /\ next[feed] \in Int /\ later[feed] \in Int
    BY <1>1 DEF Typed, Tails
  <2>4. \A i \in DOMAIN packets : packets[i].dts \in Int
    <3>1. \A i \in DOMAIN packets : packets[i] \in Packet
      OBVIOUS
    <3> QED BY <3>1 DEF Packet
  <2>5. c.tail.output <= c.offset + next[feed]
    BY <1>4, <2>1, <2>2 DEF Ahead
  <2>6. \A i \in DOMAIN packets : packets[i].dts >= c.cutoff =>
          /\ c.tail.output <= packets[i].dts + c.offset
          /\ packets[i].dts + c.offset <= c.offset + later[feed]
    BY <1>4, <2>3, <2>4, <2>5
  <2>7. <<>> \in Seq(Packet) /\ Within(<<>>, c.tail.output, c.offset + later[feed])
    BY DEF Within
  <2>8. Good(Emit(c, feed, <<>>, packets, FALSE), later, pub, dts, epoch)
    BY <1>1, <2>1, <2>2, <2>6, <2>7, EmitGood
  <2> QED BY <1>4, <2>8 DEF Publish
<1> QED
  BY <1>2, <1>3, <1>4

\* Nothing waits for the dispatcher.
Clear(c) == c.error = None /\ c.outbox = <<>>
\* The programme waits only for holding.
Released(c) == c.desired = "Programme" => c.waiting = <<>>
NotBefore(q, limit) == \A i \in DOMAIN q : limit <= q[i].dts
NotAfter(q, limit) == \A i \in DOMAIN q : q[i].dts <= limit

\* An action starts over behind what was published.
LEMMA RestartGood ==
  ASSUME NEW c, Typed(c), Clear(c), NEW next, NEW pub,
         NEW dts, NEW epoch, Posted(c, dts), NEW e \in Nat, NEW direct \in BOOLEAN
  PROVE  Good(Restart(Invalidate(c, e), direct), next, pub, dts, epoch)
<1> DEFINE i == Invalidate(c, e)
           u == Unplayed(i)
           guard == ~direct /\ i.published.output >= 0
           d == Restart(i, direct)
<1>1. /\ Typed(i) /\ i.epoch = e /\ i.selected = None /\ i.cutoff = None
      /\ i.boundary = <<>> /\ i.outbox = <<>> /\ i.published = c.published
      /\ i.error = None
  <2>1. i = [c EXCEPT !.epoch = e, !.boundary_left = Deadline, !.programme_left = None,
                      !.key_left = Deadline, !.selected = None, !.cutoff = None,
                      !.boundary = <<>>]
    BY DEF Invalidate
  <2> HIDE DEF i
  <2>2. /\ Typed(i) /\ i.epoch = e /\ i.selected = None /\ i.cutoff = None
        /\ i.boundary = <<>> /\ i.published = c.published
    BY <2>1 DEF Typed, Fields
  <2>3. i.outbox = c.outbox /\ i.error = c.error
    BY <2>1 DEF Typed, Fields
  <2> QED BY <2>2, <2>3 DEF Clear
<1> HIDE DEF i
<1>2. /\ Typed(u) /\ u.waiting = <<>> /\ u.scheduled = <<>>
      /\ u.epoch = e /\ u.selected = None /\ u.cutoff = None
      /\ u.boundary = <<>> /\ u.outbox = <<>> /\ u.published = c.published
      /\ u.error = None
  BY <1>1 DEF Unplayed, Typed, Fields
<1>3. d = [u EXCEPT
                !.desired = IF direct THEN "Programme" ELSE "Holding",
                !.tail = i.published, !.headers = None, !.ack_age = None, !.paced_programme = FALSE,
                !.boundary_sent = FALSE, !.boundary_delivered = FALSE,
                !.drain_required = guard, !.guard_active = guard,
                !.paced_holding = guard, !.drain_ticket = 0,
                !.holding_ticket = 0, !.programme_ticket = 0]
  BY DEF Restart, PublishedTail
<1> DEFINE w == IF direct THEN "Programme" ELSE "Holding"
<1>4. guard \in BOOLEAN /\ w \in Feeds
  BY Constants
<1>5. guard => w = "Holding"
  OBVIOUS
<1> HIDE DEF u, d, guard
<1>6. /\ Typed(d) /\ d.desired = w /\ d.tail = i.published /\ d.headers = None
      /\ d.paced_programme = FALSE /\ d.paced_holding = guard
      /\ d.waiting = <<>> /\ d.scheduled = <<>>
      /\ d.epoch = e /\ d.selected = None /\ d.cutoff = None
      /\ d.boundary = <<>> /\ d.outbox = <<>> /\ d.published = i.published
      /\ d.error = None
  BY ZenonT(60), <1>1, <1>2, <1>3, <1>4 DEF Typed, Fields
<1> HIDE DEF w
<1>7. Posted(d, dts) /\ Opened(d, pub, epoch) /\ Headed(d, pub, epoch)
  BY <1>1, <1>6 DEF Posted, Opened, Headed
<1>8. d.published.output <= d.tail.output
  <2>1. d.published.output \in Int
    BY <1>6 DEF Typed, Tails
  <2> QED BY <1>6, <2>1
<1>9. Lined(d) /\ Paced(d) /\ Ahead(d, next)
  BY <1>5, <1>6, <1>8 DEF Lined, Paced, Ahead, InSequence, Within
<1> QED
  BY <1>6, <1>7, <1>9, Constants DEF Good, Going, Errors, d, i

\* What an emptied wait leaves as it was.
LEMMA EmptiedIs ==
  ASSUME NEW c, Typed(c), Clear(c), NEW d, d = [c EXCEPT !.waiting = <<>>]
  PROVE  /\ Typed(d) /\ d.error = None /\ d.outbox = <<>>
         /\ d.paced_holding = c.paced_holding
         /\ d.desired = c.desired /\ d.waiting = <<>> /\ d.epoch = c.epoch
         /\ d.tail = c.tail /\ d.published = c.published /\ d.scheduled = c.scheduled
         /\ d.paced_programme = c.paced_programme /\ d.selected = c.selected
         /\ c.epoch + 1 \in Nat
<1>1. c.epoch + 1 \in Nat
  BY DEF Typed
<1>2. d.outbox = c.outbox /\ d.error = c.error
  BY DEF Typed, Fields
<1>3. d.outbox = <<>> /\ d.error = None
  BY <1>2 DEF Clear
<1>4. Typed(d) /\ d.waiting = <<>> /\ d.epoch = c.epoch
  BY DEF Typed, Fields
<1>5. /\ d.paced_holding = c.paced_holding /\ d.desired = c.desired
      /\ d.tail = c.tail /\ d.published = c.published /\ d.scheduled = c.scheduled
      /\ d.paced_programme = c.paced_programme /\ d.selected = c.selected
  BY DEF Typed, Fields
<1> QED
  BY <1>1, <1>3, <1>4, <1>5

\* What was ready is released behind the tail, in the epoch or in a new one.
LEMMA ReleaseReadyGood ==
  ASSUME NEW c, Typed(c), Clear(c), ~c.paced_holding,
         NEW next \in [Feeds -> Int], NEW later \in [Feeds -> Int],
         \A f \in Feeds : next[f] <= later[f], NEW pub \in Int,
         NEW dts \in Int, NEW epoch,
         NEW c1, c1 = [c EXCEPT !.waiting = <<>>], Good(c1, next, pub, dts, epoch),
         Released(c), NotAfter(c.waiting, next["Programme"]),
         NEW ready \in Seq(Packet),
         NotBefore(ready, next["Programme"]), NotAfter(ready, later["Programme"])
  PROVE  Good(ReleaseReady(c, ready), later, pub, dts, epoch)
<1> DEFINE all == c.waiting \o ready
           key == FromKeyframe(all)
           v   == Invalidate(c1, c.epoch + 1)
           d   == [v EXCEPT !.desired = "Programme"]
           h   == HoldBack(c1, TRUE)
<1>1. ReleaseReady(c, ready) =
        IF all = <<>> THEN c
        ELSE IF c.desired = "Programme" THEN Publish(c1, "Programme", all)
        ELSE IF key = <<>> THEN h
        ELSE IF c.epoch # publication_epoch THEN c1
        ELSE Publish(d, "Programme", key)
  BY DEF ReleaseReady
<1>2. c.waiting \in Seq(Packet) /\ all \in Seq(Packet)
  BY DEF Typed
<1>3. \A i \in DOMAIN all : \/ i \in DOMAIN c.waiting /\ all[i] = c.waiting[i]
                            \/ i - Len(c.waiting) \in DOMAIN ready
                               /\ all[i] = ready[i - Len(c.waiting)]
  BY <1>2
<1>4. c.waiting = <<>> => all = ready
  BY <1>2
<1>5. all = <<>> => c.waiting = <<>>
  BY <1>2
<1> HIDE DEF all
<1>6. next["Programme"] \in Int /\ later["Programme"] \in Int /\ next["Programme"] <= later["Programme"]
  BY Constants
<1>7. \A i \in DOMAIN all : all[i].dts \in Int /\ all[i].dts <= later["Programme"]
  <2>1. \A i \in DOMAIN all : all[i] \in Packet
    BY <1>2
  <2>2. \A i \in DOMAIN all : all[i].dts \in Int
    BY <2>1 DEF Packet
  <2> QED BY SMTT(60), <1>3, <1>6, <2>2 DEF NotAfter
<1>8. /\ key \in Seq(Packet)
      /\ \A k \in DOMAIN key : \E i \in DOMAIN all : key[k] = all[i]
  BY <1>2, FromKeyframeIs
<1> HIDE DEF key
<1>9. \A k \in DOMAIN key : key[k].dts <= later["Programme"]
  BY <1>7, <1>8
<1>10. /\ Typed(c1) /\ c1.error = None /\ c1.outbox = <<>> /\ ~c1.paced_holding
       /\ c1.desired = c.desired /\ c1.waiting = <<>> /\ c1.epoch = c.epoch
       /\ c1.tail = c.tail /\ c1.published = c.published /\ c1.scheduled = c.scheduled
       /\ c1.paced_programme = c.paced_programme /\ c1.selected = c.selected
       /\ c.epoch + 1 \in Nat
  <2>1. /\ Typed(c1) /\ c1.error = None /\ c1.outbox = <<>>
        /\ c1.paced_holding = c.paced_holding
        /\ c1.desired = c.desired /\ c1.waiting = <<>> /\ c1.epoch = c.epoch
        /\ c1.tail = c.tail /\ c1.published = c.published /\ c1.scheduled = c.scheduled
        /\ c1.paced_programme = c.paced_programme /\ c1.selected = c.selected
        /\ c.epoch + 1 \in Nat
    BY EmptiedIs, Zenon
  <2> QED BY <2>1
<1>12. Good(c1, later, pub, dts, epoch)
  <2>1. pub <= pub
    OBVIOUS
  <2> QED BY <2>1, GoodLater
<1>13. CASE all = <<>>
  <2>1. Agree(c1, c)
    BY <1>5, <1>13 DEF Agree, Typed, Fields
  <2> QED BY <1>1, <1>12, <1>13, <2>1, GoodAgrees
<1>14. CASE all # <<>> /\ c.desired = "Programme"
  <2>1. all = ready
    BY <1>4, <1>14 DEF Released
  <2>2. Good(Publish(c1, "Programme", ready), later, pub, dts, epoch)
    <3> QED BY <1>10, <1>14, Constants, PublishGood DEF NotBefore, NotAfter
  <2> QED BY <1>1, <1>14, <2>1, <2>2
<1>15. Good(h, later, pub, dts, epoch)
  <2>1. Typed(h) /\ Agree(c1, h)
    <3> QED BY <1>10 DEF HoldBack, Agree, Typed, Fields
  <2> HIDE DEF h
  <2> QED BY <1>12, <2>1, GoodAgrees
<1>16. ASSUME c.desired # "Programme" PROVE Good(Publish(d, "Programme", key), later, pub, dts, epoch)
  <2>1. c.epoch + 1 \in Nat
    BY <1>10
  <2>2. /\ Typed(v) /\ v.epoch = c.epoch + 1 /\ v.selected = None /\ v.cutoff = None
        /\ v.boundary = <<>> /\ v.outbox = <<>> /\ v.published = c1.published
        /\ v.tail = c1.tail /\ v.scheduled = c1.scheduled /\ v.waiting = <<>>
        /\ ~v.paced_holding /\ v.error = None
    BY <1>10, <2>1 DEF Invalidate, Typed, Fields
  <2> HIDE DEF v
  <2>3. /\ Typed(d) /\ d.desired = "Programme" /\ d.selected = None /\ d.cutoff = None
        /\ d.boundary = <<>> /\ d.outbox = <<>> /\ d.published = c1.published
        /\ d.tail = c1.tail /\ d.scheduled = c1.scheduled /\ d.waiting = <<>>
        /\ ~d.paced_holding /\ d.error = None
    BY <2>2, Constants DEF Typed, Fields
  <2> HIDE DEF d
  <2>4. Posted(c1, dts) /\ Lined(c1) /\ Paced(c1)
    BY <1>10 DEF Good, Going
  <2>5. c1.scheduled = <<>>
    BY <1>10, <1>16, <2>4, Constants DEF Paced
  <2>6. Posted(d, dts) /\ Opened(d, pub, epoch) /\ Headed(d, pub, epoch)
    BY <1>10, <2>3, <2>4 DEF Posted, Opened, Headed
  <2>7. Lined(d) /\ Paced(d) /\ Ahead(d, next)
    BY <2>3, <2>4, <2>5 DEF Lined, Paced, Ahead
  <2>8. Good(d, next, pub, dts, epoch)
    BY <2>3, <2>6, <2>7, Constants DEF Good, Going, Errors
  <2> QED BY <1>8, <1>9, <2>3, <2>8, Constants, PublishGood
<1> HIDE DEF h, d
<1> QED
  BY <1>1, <1>12, <1>13, <1>14, <1>15, <1>16

\* What is ready while holding is paced waits.
LEMMA WaitGood ==
  ASSUME NEW c, c.error = None, c.paced_holding, NEW next \in [Feeds -> Int],
         NEW later \in [Feeds -> Int], \A f \in Feeds : next[f] <= later[f],
         NEW pub \in Int, NEW dts \in Int, NEW epoch, Good(c, next, pub, dts, epoch),
         NEW ready \in Seq(Packet), \A i \in DOMAIN ready : ready[i].dts <= later["Programme"]
  PROVE  Good(Wait(c, ready), later, pub, dts, epoch)
<1> DEFINE held  == IF c.waiting = <<>> /\ FromKeyframe(ready) = <<>> THEN <<>> ELSE ready
           queue == c.waiting \o held
           c1    == HoldBack(c, held # <<>>)
           d     == [c1 EXCEPT !.waiting = queue]
<1>1. Wait(c, ready) =
        IF held = <<>> THEN c
        ELSE IF Len(queue) > Capacity \/ Last(queue).dts - queue[1].dts > Window
        THEN Fail(c1, "GuardOverflow") ELSE d
  BY DEF Wait
<1>2. Good(c, later, pub, dts, epoch) /\ Typed(c)
  BY GoodLater DEF Good
<1>3. held \in Seq(Packet) /\ \A i \in DOMAIN held : held[i].dts <= later["Programme"]
  OBVIOUS
<1> HIDE DEF held
<1>4. Typed(c1) /\ Agree(c, c1)
  BY <1>2 DEF HoldBack, Agree, Typed, Fields
<1> HIDE DEF c1
<1>5. Good(c1, later, pub, dts, epoch)
  BY <1>2, <1>4, GoodAgrees
<1>6. Good(Fail(c1, "GuardOverflow"), later, pub, dts, epoch)
  BY <1>5, FailGood DEF Good, Errors
<1>0. c.waiting \in Seq(Packet)
  BY <1>2 DEF Typed
<1>7. /\ c.waiting \in Seq(Packet) /\ queue \in Seq(Packet)
      /\ \A i \in DOMAIN queue : \/ i \in DOMAIN c.waiting /\ queue[i] = c.waiting[i]
                                 \/ i - Len(c.waiting) \in DOMAIN held
                                    /\ queue[i] = held[i - Len(c.waiting)]
  BY <1>0, <1>3
<1> HIDE DEF queue
<1>8. c1.error = None /\ c1.paced_holding /\ c1.waiting = c.waiting
  BY <1>4 DEF Agree
<1>9. /\ Posted(c1, dts) /\ Opened(c1, pub, epoch) /\ Headed(c1, pub, epoch)
      /\ Lined(c1) /\ Paced(c1) /\ Ahead(c1, later)
  BY <1>5, <1>8 DEF Good, Going
<1>10. \A i \in DOMAIN queue : queue[i].dts <= later["Programme"]
  BY <1>3, <1>7, <1>8, <1>9 DEF Ahead
<1>11. /\ Typed(d) /\ d.waiting = queue
       /\ d.epoch = c1.epoch /\ d.desired = c1.desired /\ d.selected = c1.selected
       /\ d.headers = c1.headers /\ d.cutoff = c1.cutoff /\ d.offset = c1.offset
       /\ d.boundary = c1.boundary /\ d.scheduled = c1.scheduled /\ d.outbox = c1.outbox
       /\ d.tail = c1.tail /\ d.published = c1.published
       /\ d.paced_holding = c1.paced_holding /\ d.paced_programme = c1.paced_programme
       /\ d.error = c1.error
  BY <1>4, <1>7 DEF Typed, Fields
<1> HIDE DEF d
<1>12. Posted(d, dts) /\ Opened(d, pub, epoch) /\ Headed(d, pub, epoch)
  BY <1>9, <1>11 DEF Posted, Opened, Headed, Heard
<1>13. Lined(d) /\ Paced(d) /\ Ahead(d, later)
  BY <1>8, <1>9, <1>10, <1>11 DEF Lined, Paced, Ahead
<1>14. Good(d, later, pub, dts, epoch)
  BY <1>8, <1>11, <1>12, <1>13, Constants DEF Good, Going, Errors
<1> QED
  BY <1>1, <1>2, <1>6, <1>14

\* What is due is a prefix of the schedule.
LEMMA DueIs ==
  ASSUME NEW c, c.scheduled \in Seq(Packet), NEW age, NEW origin
  PROVE  \E n \in 0..Len(c.scheduled) : Due(c, age, origin) = SubSeq(c.scheduled, 1, n)
<1> DEFINE s == c.scheduled
           D == DOMAIN s
           P == {n \in D : \A i \in 1..n : age >= s[i].dts - origin}
<1>1. D = 1..Len(s) /\ Len(s) \in Nat
  OBVIOUS
<1>2. IsFiniteSet(D) /\ Cardinality(D) = Len(s)
  <2>1. IsFiniteSet(1..Len(s)) /\ Cardinality(1..Len(s)) = Len(s)
    BY <1>1, FS_Interval
  <2> QED BY <1>1, <2>1
<1>3. P \subseteq D
  OBVIOUS
<1>4. Due(c, age, origin) = SubSeq(s, 1, Cardinality(P))
  BY DEF Due
<1> HIDE DEF P, D
<1>5. Cardinality(P) \in Nat /\ Cardinality(P) <= Cardinality(D)
  BY <1>2, <1>3, FS_Subset, FS_CardinalityType
<1>6. Cardinality(P) \in 0..Len(s)
  BY <1>1, <1>2, <1>5
<1> QED
  BY <1>4, <1>6

\* A sequence cut in two.
LEMMA PrefixIs ==
  ASSUME NEW s \in Seq(Packet), NEW n \in 0..Len(s)
  PROVE  LET due  == SubSeq(s, 1, n)
             rest == SubSeq(s, n + 1, Len(s))
         IN  /\ due \in Seq(Packet) /\ rest \in Seq(Packet) /\ Len(due) = n
             /\ DOMAIN due = 1..n /\ \A i \in 1..n : due[i] = s[i]
             /\ DOMAIN rest = 1..(Len(s) - n)
             /\ \A i \in 1..(Len(s) - n) : rest[i] = s[i + n]
<1>1. Len(s) \in Nat /\ n \in Nat /\ n <= Len(s)
  OBVIOUS
<1>2. Len(SubSeq(s, 1, n)) = n /\ \A i \in 1..n : SubSeq(s, 1, n)[i] = s[i]
  BY <1>1
<1>3. SubSeq(s, 1, n) \in Seq(Packet) /\ DOMAIN SubSeq(s, 1, n) = 1..n
  BY <1>1
<1>4. /\ SubSeq(s, n + 1, Len(s)) \in Seq(Packet)
      /\ DOMAIN SubSeq(s, n + 1, Len(s)) = 1..(Len(s) - n)
      /\ \A i \in 1..(Len(s) - n) : SubSeq(s, n + 1, Len(s))[i] = s[i + n]
  BY <1>1
<1> QED
  BY <1>2, <1>3, <1>4

\* A prefix of the schedule may be sent.
LEMMA PrefixGood ==
  ASSUME NEW c, c.error = None, NEW next, NEW pub, NEW dts \in Int, NEW epoch,
         Good(c, next, pub, dts, epoch), NEW feed \in Feeds,
         NEW age, NEW origin, NEW due, due = Due(c, age, origin), due # <<>>
  PROVE  Good(Dispatched(Unscheduled(c, due), feed, due), next, pub, dts, epoch)
<1> DEFINE s == c.scheduled
<1>1. /\ Typed(c) /\ Posted(c, dts) /\ Opened(c, pub, epoch) /\ Headed(c, pub, epoch)
      /\ Lined(c) /\ Paced(c) /\ Ahead(c, next)
  BY DEF Good, Going
<1>2. s \in Seq(Packet)
  BY <1>1 DEF Typed
<1>3. PICK n \in 0..Len(s) : due = SubSeq(s, 1, n)
  BY <1>2, DueIs
<1> DEFINE rest == SubSeq(s, n + 1, Len(s))
           u == Unscheduled(c, due)
<1>4. /\ due \in Seq(Packet) /\ rest \in Seq(Packet) /\ Len(due) = n
      /\ DOMAIN due = 1..n /\ \A i \in 1..n : due[i] = s[i]
      /\ DOMAIN rest = 1..(Len(s) - n)
      /\ \A i \in 1..(Len(s) - n) : rest[i] = s[i + n]
  BY <1>2, <1>3, PrefixIs
<1>5. n \in Nat /\ n >= 1 /\ n <= Len(s) /\ Len(s) \in Nat /\ DOMAIN s = 1..Len(s)
  BY <1>2, <1>3, <1>4
<1>6. u = [c EXCEPT !.scheduled = rest]
  BY <1>4 DEF Unscheduled
<1> HIDE DEF rest, u
<1>7. /\ Typed(u) /\ u.scheduled = rest
      /\ u.epoch = c.epoch /\ u.desired = c.desired /\ u.selected = c.selected
      /\ u.headers = c.headers /\ u.cutoff = c.cutoff /\ u.offset = c.offset
      /\ u.boundary = c.boundary /\ u.waiting = c.waiting /\ u.outbox = c.outbox
      /\ u.tail = c.tail /\ u.published = c.published
      /\ u.paced_holding = c.paced_holding /\ u.paced_programme = c.paced_programme
      /\ u.error = c.error
  BY <1>1, <1>4, <1>6 DEF Typed, Fields
<1>8. s # <<>>
  BY <1>2, <1>5
<1>9. c.selected # None /\ (c.paced_holding \/ c.paced_programme)
  BY <1>1, <1>8 DEF Paced
<1> HIDE DEF s
<1>10. /\ \A i, j \in 1..Len(s) : i <= j => s[i].dts <= s[j].dts
       /\ \A i \in 1..Len(s) : c.published.output <= s[i].dts /\ s[i].dts <= c.tail.output
  BY <1>1, <1>5 DEF Lined, InSequence, Within, s
<1>11. InSequence(due) /\ c.published.output <= due[1].dts /\ due[n].dts <= c.tail.output
  BY <1>4, <1>5, <1>10 DEF InSequence
<1>12. ASSUME NEW i \in DOMAIN rest PROVE i \in Int /\ i + n \in 1..Len(s) /\ n < i + n
                                           /\ rest[i] = s[i + n]
  <2>1. i \in 1..(Len(s) - n)
    BY <1>4, <1>12
  <2> QED BY <1>4, <1>5, <2>1
<1>a. InSequence(rest)
  <2>1. SUFFICES ASSUME NEW i \in DOMAIN rest, NEW j \in DOMAIN rest, i <= j
                 PROVE  rest[i].dts <= rest[j].dts
    BY DEF InSequence
  <2>2. /\ i + n \in 1..Len(s) /\ j + n \in 1..Len(s) /\ i + n <= j + n
        /\ rest[i] = s[i + n] /\ rest[j] = s[j + n]
    BY <1>5, <1>12, <2>1
  <2> QED BY <1>10, <2>2
<1>13. Within(rest, due[n].dts, c.tail.output)
  <2>1. SUFFICES ASSUME NEW i \in DOMAIN rest
                 PROVE  due[n].dts <= rest[i].dts /\ rest[i].dts <= c.tail.output
    BY DEF Within
  <2>2. /\ i + n \in 1..Len(s) /\ n \in 1..Len(s) /\ n <= i + n
        /\ rest[i] = s[i + n] /\ due[n] = s[n]
    BY <1>4, <1>5, <1>12, <2>1
  <2> QED BY <1>10, <2>2
<1>14. Posted(u, dts) /\ Opened(u, pub, epoch) /\ Headed(u, pub, epoch)
  BY <1>1, <1>7 DEF Posted, Opened, Headed, Heard
<1>15. Paced(u) /\ Ahead(u, next)
  BY <1>1, <1>7, <1>9 DEF Paced, Ahead
<1> QED
  BY <1>4, <1>7, <1>9, <1>11, <1>a, <1>13, <1>14, <1>15, DispatchedGood DEF u

-----------------------------------------------------------------------------
(* check_deadline.                                                          *)

\* The clock alone moves nothing on the line.
LEMMA LaterGood ==
  ASSUME NEW c, NEW next, NEW pub, NEW dts, NEW epoch, Good(c, next, pub, dts, epoch)
  PROVE  Good(Later(c), next, pub, dts, epoch) /\ Later(c).error = c.error
<1>1. Typed(c)
  BY DEF Good
<1>2. Typed(Later(c)) /\ Agree(c, Later(c))
  BY <1>1 DEF Later, Agree, Typed, Fields
<1>3. Good(Later(c), next, pub, dts, epoch)
  BY <1>2, GoodAgrees
<1> QED
  BY <1>2, <1>3 DEF Agree

\* Holding that is due goes on air behind the silent frame.
LEMMA GuardStepGood ==
  ASSUME NEW c, c.error = None, NEW next, NEW pub, NEW dts \in Int, NEW epoch,
         Good(c, next, pub, dts, epoch)
  PROVE  Good(GuardStep(c), next, pub, dts, epoch)
<1> DEFINE c1  == [c EXCEPT !.ack_age = IF @ = None THEN 0 ELSE @]
           due == Due(c1, c1.ack_age, c1.drain_time)
           c2  == Dispatched(Unscheduled(c1, due), "Holding", due)
           d   == [c2 EXCEPT !.holding_ticket = IF @ = 0 /\ HasSound(due) THEN c2.ticket ELSE @]
<1>1. GuardStep(c) =
        IF ~c.paced_holding THEN c
        ELSE IF c.guard_active /\ c.boundary_left = 0 THEN Fail(c, "GuardTimeout")
        ELSE IF c.drain_ticket = 0 \/ ~Delivered(c, c.drain_ticket) THEN c
        ELSE IF due = <<>> THEN c1 ELSE d
  BY DEF GuardStep
<1>2. Typed(c) /\ Posted(c, dts) /\ Opened(c, pub, epoch)
  BY DEF Good
<1>3. Good(Fail(c, "GuardTimeout"), next, pub, dts, epoch)
  BY <1>2, FailGood DEF Errors
<1>4. Typed(c1) /\ Agree(c, c1)
  BY <1>2 DEF Agree, Typed, Fields
<1> HIDE DEF c1
<1>5. Good(c1, next, pub, dts, epoch) /\ c1.error = None
  BY <1>4, GoodAgrees DEF Agree
<1> HIDE DEF due
<1>6. ASSUME due # <<>> PROVE Good(d, next, pub, dts, epoch)
  <2>1. Good(c2, next, pub, dts, epoch)
    BY <1>5, <1>6, PrefixGood, Constants DEF due
  <2> HIDE DEF c2
  <2>2. Typed(c2)
    BY <2>1 DEF Good
  <2>3. Typed(d) /\ Agree(c2, d)
    BY <2>2 DEF Agree, Typed, Fields
  <2> HIDE DEF d
  <2> QED BY <2>1, <2>3, GoodAgrees
<1> HIDE DEF d
<1> QED
  BY <1>1, <1>3, <1>5, <1>6

\* The programme that waited is released once holding is acknowledged.
LEMMA ResumeStepGood ==
  ASSUME NEW c, Clear(c), NEW next \in [Feeds -> Int], NEW pub \in Int,
         NEW dts \in Int, NEW epoch, Good(c, next, pub, dts, epoch)
  PROVE  Good(ResumeStep(c), next, pub, dts, epoch)
<1> DEFINE g  == c.guard_active /\ ~(c.holding_ticket # 0 /\ Delivered(c, c.holding_ticket))
           c1 == [c EXCEPT !.guard_active = g]
           r  == [c1 EXCEPT !.paced_holding = FALSE]
           ends == c.paced_holding /\ ~c1.guard_active /\ c1.waiting # <<>>
                   /\ c1.scheduled = <<>> /\ Delivered(c1, c1.ticket)
<1>1. ResumeStep(c) = IF ends THEN ReleaseReady(r, <<>>)
                      ELSE IF c.paced_holding THEN c1 ELSE c
  BY DEF ResumeStep
<1>2. Typed(c)
  BY DEF Good
<1> HIDE DEF g
<1>3. Typed(c1) /\ Agree(c, c1)
  BY <1>2 DEF Agree, Typed, Fields
<1> HIDE DEF c1
<1>4. Good(c1, next, pub, dts, epoch) /\ c1.error = None /\ Clear(c1)
  BY <1>3, GoodAgrees DEF Agree, Clear
<1>5. ASSUME ends PROVE Good(ReleaseReady(r, <<>>), next, pub, dts, epoch)
  <2>1. c1.paced_holding /\ c1.scheduled = <<>>
    BY <1>3, <1>5 DEF Agree
  <2>2. Posted(c1, dts) /\ Opened(c1, pub, epoch) /\ Headed(c1, pub, epoch)
        /\ Lined(c1) /\ Paced(c1) /\ Ahead(c1, next)
    BY <1>4 DEF Good, Going
  <2>3. r = [c1 EXCEPT !.paced_holding = FALSE]
    OBVIOUS
  <2> HIDE DEF r
  <2>4. /\ Typed(r) /\ ~r.paced_holding /\ r.paced_programme = c1.paced_programme
        /\ r.epoch = c1.epoch /\ r.desired = c1.desired /\ r.selected = c1.selected
        /\ r.headers = c1.headers /\ r.cutoff = c1.cutoff /\ r.offset = c1.offset
        /\ r.boundary = c1.boundary /\ r.waiting = c1.waiting /\ r.outbox = c1.outbox
        /\ r.scheduled = c1.scheduled /\ r.tail = c1.tail /\ r.published = c1.published
        /\ r.error = c1.error
    BY <1>3, <2>3 DEF Typed, Fields
  <2> DEFINE e == [r EXCEPT !.waiting = <<>>]
  <2>5. /\ Typed(e) /\ e.waiting = <<>> /\ e.paced_holding = r.paced_holding
        /\ e.paced_programme = r.paced_programme
        /\ e.epoch = r.epoch /\ e.desired = r.desired /\ e.selected = r.selected
        /\ e.headers = r.headers /\ e.cutoff = r.cutoff /\ e.offset = r.offset
        /\ e.boundary = r.boundary /\ e.outbox = r.outbox
        /\ e.scheduled = r.scheduled /\ e.tail = r.tail /\ e.published = r.published
        /\ e.error = r.error
    BY SMTT(60), <2>4 DEF Typed, Fields
  <2>6. e = [r EXCEPT !.waiting = <<>>]
    OBVIOUS
  <2> HIDE DEF e
  <2>7. Posted(e, dts) /\ Opened(e, pub, epoch) /\ Headed(e, pub, epoch)
    BY <2>2, <2>4, <2>5 DEF Posted, Opened, Headed, Heard
  <2>8. Lined(e) /\ Ahead(e, next)
    BY <2>2, <2>4, <2>5 DEF Lined, Ahead
  <2>9. Paced(e)
    BY <2>1, <2>2, <2>4, <2>5 DEF Paced
  <2>10. Good(e, next, pub, dts, epoch)
    BY <1>4, <2>4, <2>5, <2>7, <2>8, <2>9, Constants DEF Good, Going, Errors
  <2>11. Released(r)
    BY <2>1, <2>2, <2>4, Constants DEF Released, Paced
  <2>12. NotAfter(r.waiting, next["Programme"])
    BY <2>2, <2>4 DEF NotAfter, Ahead
  <2>13. Clear(r)
    BY <1>4, <2>4 DEF Clear
  <2>14. /\ <<>> \in Seq(Packet) /\ NotBefore(<<>>, next["Programme"])
         /\ NotAfter(<<>>, next["Programme"])
    BY DEF NotBefore, NotAfter
  <2>15. \A f \in Feeds : next[f] <= next[f]
    OBVIOUS
  <2> QED BY <2>4, <2>6, <2>10, <2>11, <2>12, <2>13, <2>14, <2>15, ReleaseReadyGood
<1> HIDE DEF r
<1> QED
  BY <1>1, <1>4, <1>5

\* Programme that is due goes on air.
LEMMA PaceStepGood ==
  ASSUME NEW c, NEW next, NEW pub, NEW dts \in Int, NEW epoch,
         Good(c, next, pub, dts, epoch)
  PROVE  Good(PaceStep(c), next, pub, dts, epoch)
<1> DEFINE due == Due(c, c.resume_age, c.resume_time)
           c1  == Dispatched(Unscheduled(c, due), "Programme", due)
           sent == c.boundary_sent \/ HasSound(due)
           d    == [c1 EXCEPT !.boundary_sent = sent,
                      !.programme_ticket = IF sent /\ @ = 0 THEN c1.ticket ELSE @]
<1>1. PaceStep(c) = IF ~c.paced_programme \/ c.error # None \/ due = <<>> THEN c ELSE d
  BY DEF PaceStep
<1> HIDE DEF due
<1>2. ASSUME c.error = None, due # <<>> PROVE Good(d, next, pub, dts, epoch)
  <2>1. Good(c1, next, pub, dts, epoch)
    BY <1>2, PrefixGood, Constants DEF due
  <2> HIDE DEF c1
  <2>2. Typed(c1)
    BY <2>1 DEF Good
  <2> HIDE DEF sent
  <2>3. Typed(d) /\ Agree(c1, d)
    BY <2>2 DEF Agree, Typed, Fields
  <2> HIDE DEF d
  <2> QED BY <2>1, <2>3, GoodAgrees
<1> HIDE DEF d
<1> QED
  BY <1>1, <1>2

\* What is still scheduled goes on air when the pacing ends.
LEMMA SettleStepGood ==
  ASSUME NEW c, c.error = None, NEW next, NEW pub, NEW dts \in Int, NEW epoch,
         Good(c, next, pub, dts, epoch)
  PROVE  Good(SettleStep(c), next, pub, dts, epoch)
<1> DEFINE c1 == [c EXCEPT !.paced_programme = FALSE, !.boundary_delivered = TRUE]
           e  == [c1 EXCEPT !.scheduled = <<>>]
           s  == c.scheduled
           arrived == c.boundary_delivered
                      \/ (c.boundary_sent /\ Delivered(c, c.programme_ticket))
<1>1. SettleStep(c) =
        IF ~c.paced_programme THEN c
        ELSE IF ~arrived
        THEN IF c.boundary_left = 0 THEN Fail(c, "GuardTimeout") ELSE c
        ELSE IF s = <<>> THEN c1 ELSE Dispatched(e, "Programme", s)
  BY DEF SettleStep
<1>2. /\ Typed(c) /\ Posted(c, dts) /\ Opened(c, pub, epoch) /\ Headed(c, pub, epoch)
      /\ Lined(c) /\ Paced(c) /\ Ahead(c, next)
  BY DEF Good, Going
<1>3. Good(Fail(c, "GuardTimeout"), next, pub, dts, epoch)
  BY <1>2, FailGood DEF Errors
<1>4. /\ Typed(c1) /\ ~c1.paced_programme /\ c1.paced_holding = c.paced_holding
      /\ c1.epoch = c.epoch /\ c1.desired = c.desired /\ c1.selected = c.selected
      /\ c1.headers = c.headers /\ c1.cutoff = c.cutoff /\ c1.offset = c.offset
      /\ c1.boundary = c.boundary /\ c1.waiting = c.waiting /\ c1.outbox = c.outbox
      /\ c1.scheduled = c.scheduled /\ c1.tail = c.tail /\ c1.published = c.published
      /\ c1.error = c.error
  BY <1>2 DEF Typed, Fields
<1> HIDE DEF c1
<1>5. /\ Typed(e) /\ ~e.paced_programme /\ e.paced_holding = c.paced_holding
      /\ e.epoch = c.epoch /\ e.desired = c.desired /\ e.selected = c.selected
      /\ e.headers = c.headers /\ e.cutoff = c.cutoff /\ e.offset = c.offset
      /\ e.boundary = c.boundary /\ e.waiting = c.waiting /\ e.outbox = c.outbox
      /\ e.scheduled = <<>> /\ e.tail = c.tail /\ e.published = c.published
      /\ e.error = c.error
  BY <1>4 DEF Typed, Fields
<1> HIDE DEF e
<1>6. ASSUME s = <<>> PROVE Good(c1, next, pub, dts, epoch)
  <2>1. c1.scheduled = <<>>
    BY <1>4, <1>6
  <2>2. Posted(c1, dts) /\ Opened(c1, pub, epoch) /\ Headed(c1, pub, epoch)
    BY <1>2, <1>4 DEF Posted, Opened, Headed, Heard
  <2>3. Lined(c1) /\ Ahead(c1, next)
    BY <1>2, <1>4 DEF Lined, Ahead
  <2>4. Paced(c1)
    BY <1>2, <1>4, <2>1 DEF Paced
  <2> QED BY <1>4, <2>2, <2>3, <2>4, Constants DEF Good, Going, Errors
<1>7. ASSUME s # <<>> PROVE Good(Dispatched(e, "Programme", s), next, pub, dts, epoch)
  <2>1. s \in Seq(Packet)
    BY <1>2 DEF Typed
  <2>2. e.selected # None
    BY <1>2, <1>5, <1>7 DEF Paced
  <2>3. InSequence(s) /\ Within(s, c.published.output, c.tail.output)
    BY <1>2 DEF Lined
  <2> HIDE DEF s
  <2>4. e.published.output <= s[1].dts /\ s[Len(s)].dts <= e.tail.output
    BY <1>5, <1>7, <2>1, <2>3, LastIs DEF Within
  <2>5. InSequence(e.scheduled) /\ Within(e.scheduled, s[Len(s)].dts, e.tail.output)
    BY <1>5 DEF InSequence, Within
  <2>6. Posted(e, dts) /\ Opened(e, pub, epoch) /\ Headed(e, pub, epoch)
    BY <1>2, <1>5 DEF Posted, Opened, Headed, Heard
  <2>7. Ahead(e, next)
    BY <1>2, <1>5 DEF Ahead
  <2>8. Paced(e)
    BY <1>2, <1>5 DEF Paced
  <2> QED BY <1>5, <1>7, <2>1, <2>2, <2>3, <2>4, <2>5, <2>6, <2>7, <2>8, Constants,
             DispatchedGood
<1> QED
  BY <1>1, <1>3, <1>6, <1>7

\* A limit that is reached ends the broadcast, but moves nothing.
LEMMA LimitStepGood ==
  ASSUME NEW c, NEW next, NEW pub, NEW dts, NEW epoch, Good(c, next, pub, dts, epoch)
  PROVE  Good(LimitStep(c), next, pub, dts, epoch)
<1>1. Typed(c) /\ Posted(c, dts) /\ Opened(c, pub, epoch)
  BY DEF Good
<1>2. Good(Fail(c, "BoundaryTimeout"), next, pub, dts, epoch)
  BY <1>1, FailGood DEF Errors
<1>3. Good(Fail(c, "KeyframeTimeout"), next, pub, dts, epoch)
  BY <1>1, FailGood DEF Errors
<1> QED
  BY <1>2, <1>3 DEF LimitStep

\* Where the feeds are.
Position(src) == [f \in Feeds |-> Coming(src[f])]
Watched(v) ==
  /\ {"epoch", "dts", "audio", "last"} \subseteq DOMAIN v
  /\ v.epoch \in Nat /\ v.dts \in Int /\ v.audio \in Int /\ v.last \in Int
Admissions == Seq([action : Actions, epoch : Nat])
LineTyped ==
  /\ publication_epoch \in Nat /\ requests \in Admissions
  /\ source \in [Feeds -> Sources] /\ Watched(view)
LineInv ==
  LineTyped /\ Good(co, Position(source), publication_epoch, view.dts, view.epoch)

\* Every feed has a position.
LEMMA PositionIs ==
  ASSUME NEW src \in [Feeds -> Sources]
  PROVE  /\ Position(src) \in [Feeds -> Int]
         /\ \A f \in Feeds : Position(src)[f] = Coming(src[f])
<1>1. \A f \in Feeds : Coming(src[f]) \in Int
  <2>1. \A s \in Sources : Coming(s) \in Int
    BY DEF Coming, Sources
  <2> QED BY <2>1
<1> QED
  BY <1>1 DEF Position

\* A feed that is restarted is a feed.
LEMMA RestartedIs ==
  ASSUME NEW f \in Feeds
  PROVE  Restarted(f) \in Sources
<1>1. Shape[f] \in [lead : Nat, composition : Nat]
  BY TimeConstants
<1>2. Shape[f].lead \in Nat
  BY <1>1
<1> QED
  BY <1>2 DEF Restarted, Sources

\* A feed hands over what is neither before nor after where it was and went.
LEMMA HandedOver ==
  ASSUME NEW feed \in Feeds, source \in [Feeds -> Sources], NEW keys \in Bursts[feed]
  PROVE  LET e == Encoded(feed, keys)
             s == [source EXCEPT ![feed] = e.next]
         IN  /\ s \in [Feeds -> Sources] /\ e.packets \in Seq(Packet)
             /\ NotBefore(e.packets, Position(source)[feed])
             /\ NotAfter(e.packets, Position(s)[feed])
             /\ Position(source) \in [Feeds -> Int] /\ Position(s) \in [Feeds -> Int]
             /\ \A f \in Feeds : Position(source)[f] <= Position(s)[f]
<1> DEFINE e == Encoded(feed, keys)
           s == [source EXCEPT ![feed] = e.next]
<1>1. keys \in Seq(BOOLEAN) /\ source[feed] \in Sources
  BY TimeConstants
<1>2. /\ e \in Encoding /\ Coming(source[feed]) <= Coming(e.next)
      /\ Within(e.packets, Coming(source[feed]), Coming(e.next))
  BY <1>1, EncodedIs
<1> HIDE DEF e
<1>3. e.next \in Sources /\ e.packets \in Seq(Packet)
  BY <1>2 DEF Encoding
<1>4. s \in [Feeds -> Sources] /\ s[feed] = e.next /\ \A f \in Feeds : f # feed => s[f] = source[f]
  BY <1>3
<1> HIDE DEF s
<1>5. /\ Position(source) \in [Feeds -> Int] /\ Position(s) \in [Feeds -> Int]
      /\ \A f \in Feeds : Position(source)[f] = Coming(source[f]) /\ Position(s)[f] = Coming(s[f])
  BY <1>4, PositionIs
<1>6. NotBefore(e.packets, Position(source)[feed]) /\ NotAfter(e.packets, Position(s)[feed])
  BY <1>2, <1>4, <1>5 DEF Within, NotBefore, NotAfter
<1>7. ASSUME NEW f \in Feeds PROVE Position(source)[f] <= Position(s)[f]
  <2>1. Position(source)[f] \in Int
    BY <1>5
  <2>2. CASE f = feed
    BY <1>2, <1>4, <1>5, <2>2
  <2>3. CASE f # feed
    <3>1. Position(s)[f] = Position(source)[f]
      BY <1>4, <1>5, <2>3
    <3> QED BY <2>1, <3>1
  <2> QED BY <2>2, <2>3
<1> QED
  BY <1>3, <1>4, <1>5, <1>6, <1>7 DEF e, s

\* Nothing happens on the line when it is only the publication epoch that grows.
LEMMA EpochGrows ==
  ASSUME NEW c, NEW next \in [Feeds -> Int], NEW pub \in Nat, NEW dts, NEW epoch,
         Good(c, next, pub, dts, epoch), NEW e \in Int
  PROVE  Max({pub, e}) \in Int /\ pub <= Max({pub, e})
         /\ Good(c, next, Max({pub, e}), dts, epoch)
<1>1. PICK m \in Int : m = Max({pub, e}) /\ pub <= m
  <2>1. pub \in Int
    OBVIOUS
  <2> QED BY <2>1, MaxOfTwo
<1>2. \A f \in Feeds : next[f] <= next[f]
  OBVIOUS
<1>3. Good(c, next, m, dts, epoch)
  BY <1>1, <1>2, GoodLater
<1> QED
  BY <1>1, <1>3

-----------------------------------------------------------------------------
(* One action of the worker after the other.                                *)

\* A broadcast starts with the line empty.
LEMMA InitLine == Init => LineInv
<1>1. SUFFICES ASSUME Init PROVE LineInv
  OBVIOUS
<1>2. Milli \in Nat /\ -Milli \in Int /\ Start \in Tails /\ Start.output = -Milli
  BY TimeConstants DEF Start, Tails
<1>3. LineTyped
  <2>1. publication_epoch \in Nat /\ requests \in Admissions
    BY <1>1 DEF Init, Admissions
  <2>2. source \in [Feeds -> Sources]
    BY <1>1, RestartedIs DEF Init
  <2>3. Watched(view)
    BY <1>1, <1>2 DEF Init, Watched
  <2> QED BY <2>1, <2>2, <2>3 DEF LineTyped
<1> DEFINE next == Position(source)
<1> HIDE DEF next
<1>4. Typed(co)
  BY <1>1, <1>2, Constants DEF Init, Typed, Fields
<1>5. /\ co.error = None /\ co.outbox = <<>> /\ co.selected = None /\ co.boundary = <<>>
      /\ co.waiting = <<>> /\ co.scheduled = <<>> /\ co.tail = Start /\ co.published = Start
      /\ co.paced_holding = FALSE /\ co.paced_programme = FALSE
  BY <1>1 DEF Init
<1>6. view.dts = -Milli /\ view.epoch = 0
  BY <1>1 DEF Init
<1>7. Posted(co, view.dts) /\ Opened(co, publication_epoch, view.epoch)
      /\ Headed(co, publication_epoch, view.epoch)
  BY <1>2, <1>5, <1>6 DEF Posted, Opened, Headed
<1>8. Lined(co) /\ Paced(co) /\ Ahead(co, next)
  BY <1>2, <1>5 DEF Lined, Paced, Ahead, InSequence, Within
<1> QED
  BY <1>3, <1>4, <1>5, <1>7, <1>8, Constants DEF LineInv, Good, Going, Errors, next

\* An action starts over behind what was published.
LEMMA RequestLine == LineInv /\ Request => LineInv'
<1>1. SUFFICES ASSUME LineInv, Request PROVE LineInv'
  OBVIOUS
<1> DEFINE r == Head(requests)
           refused == mode' = mode /\ r.action # "EmergencyDump"
           direct == r.action # "EmergencyDump"
<1>2. /\ requests # <<>> /\ requests' = Tail(requests)
      /\ source' = [f \in Feeds |->
                      IF f = "Programme" /\ refused THEN source[f] ELSE Restarted(f)]
      /\ co' = Restart(Invalidate(co, r.epoch), direct)
      /\ publication_epoch' = publication_epoch /\ view' = view
      /\ co.error = None /\ co.outbox = <<>>
  BY <1>1 DEF Request, Ready
<1>3. LineTyped /\ Typed(co) /\ Posted(co, view.dts)
  BY <1>1 DEF LineInv, Good
<1>4. requests' \in Admissions /\ r \in [action : Actions, epoch : Nat]
  <2> DEFINE T == [action : Actions, epoch : Nat]
  <2>1. requests \in Seq(T) /\ requests # <<>>
    BY <1>2, <1>3 DEF LineTyped, Admissions
  <2> HIDE DEF T
  <2>2. Tail(requests) \in Seq(T) /\ Head(requests) \in T
    BY <2>1
  <2>3. Admissions = Seq(T)
    BY DEF Admissions, T
  <2>4. requests' \in Admissions
    BY <1>2, <2>2, <2>3
  <2>5. r \in T
    BY <2>2
  <2> QED BY <2>4, <2>5 DEF T
<1> HIDE DEF r, refused
<1>5. source' \in [Feeds -> Sources]
  <2>1. \A f \in Feeds : (IF f = "Programme" /\ refused THEN source[f] ELSE Restarted(f)) \in Sources
    <3>1. TAKE f \in Feeds
    <3>2. source[f] \in Sources /\ Restarted(f) \in Sources
      BY <1>3, RestartedIs DEF LineTyped
    <3>3. CASE f = "Programme" /\ refused
      BY <3>2, <3>3, Zenon
    <3>4. CASE ~(f = "Programme" /\ refused)
      BY <3>2, <3>4, Zenon
    <3> QED BY <3>3, <3>4, Zenon
  <2> QED BY <1>2, <2>1, Zenon
<1>6. LineTyped'
  BY <1>2, <1>3, <1>4, <1>5 DEF LineTyped
<1>7. r.epoch \in Nat /\ direct \in BOOLEAN
  BY <1>4
<1> HIDE DEF direct
<1>8. Clear(co)
  BY <1>2 DEF Clear
<1>9. Good(Restart(Invalidate(co, r.epoch), direct), Position(source'), publication_epoch,
           view.dts, view.epoch)
  BY <1>3, <1>7, <1>8, RestartGood, Zenon
<1>10. Good(co', Position(source'), publication_epoch', view'.dts, view'.epoch)
  BY <1>2, <1>9
<1> QED
  BY <1>6, <1>10 DEF LineInv

\* What the programme hands over waits, or is released.
LEMMA ProgrammeLine ==
  ASSUME LineInv, NEW keys \in Bursts["Programme"], NEW key \in BOOLEAN, Programme(keys, key)
  PROVE  LineInv'
<1> DEFINE e == Encoded("Programme", keys)
           c == IF key THEN [co EXCEPT !.key_left = Deadline] ELSE co
           s == [source EXCEPT !["Programme"] = e.next]
           pub == publication_epoch
<1>1. /\ co.error = None /\ co.outbox = <<>>
      /\ requests' = requests /\ view' = view
      /\ publication_epoch' = Max({publication_epoch, co'.epoch})
      /\ \/ co' = c /\ source' = source
         \/ /\ source' = s
            /\ co' = IF co.paced_holding THEN Wait(c, e.packets) ELSE ReleaseReady(c, e.packets)
  BY DEF Programme, Ready
<1>2. /\ LineTyped /\ Typed(co) /\ Good(co, Position(source), pub, view.dts, view.epoch)
      /\ pub \in Nat /\ pub \in Int /\ view.dts \in Int /\ source \in [Feeds -> Sources]
  BY DEF LineInv, LineTyped, Good, Watched
<1> HIDE DEF pub
<1>3. /\ s \in [Feeds -> Sources] /\ e.packets \in Seq(Packet)
      /\ NotBefore(e.packets, Position(source)["Programme"])
      /\ NotAfter(e.packets, Position(s)["Programme"])
      /\ Position(source) \in [Feeds -> Int] /\ Position(s) \in [Feeds -> Int]
      /\ \A f \in Feeds : Position(source)[f] <= Position(s)[f]
  BY <1>2, HandedOver, Constants
<1>4. Typed(c) /\ Agree(co, c)
  BY <1>2 DEF Agree, Typed, Fields
<1> HIDE DEF c, e, s
<1>5. Good(c, Position(source), pub, view.dts, view.epoch)
  BY <1>2, <1>4, GoodAgrees
<1>6. c.error = None /\ Clear(c) /\ c.paced_holding = co.paced_holding
  BY <1>1, <1>4 DEF Agree, Clear
<1>7. Good(co', Position(source'), pub, view.dts, view.epoch)
  <2>1. CASE co' = c /\ source' = source
    BY <1>5, <2>1
  <2>2. CASE co.paced_holding /\ source' = s /\ co' = Wait(c, e.packets)
    <3>1. \A i \in DOMAIN e.packets : e.packets[i].dts <= Position(s)["Programme"]
      BY <1>3 DEF NotAfter
    <3>2. Good(Wait(c, e.packets), Position(s), pub, view.dts, view.epoch)
      BY <1>2, <1>3, <1>5, <1>6, <2>2, <3>1, WaitGood
    <3> QED BY <2>2, <3>2
  <2>3. CASE ~co.paced_holding /\ source' = s /\ co' = ReleaseReady(c, e.packets)
    <3>1. Paced(c) /\ Ahead(c, Position(source))
      BY <1>5, <1>6 DEF Good, Going
    <3>2. c.waiting = <<>>
      BY <1>6, <2>3, <3>1 DEF Paced
    <3>3. Released(c) /\ NotAfter(c.waiting, Position(source)["Programme"])
      BY <3>2 DEF Released, NotAfter
    <3> DEFINE c1 == [c EXCEPT !.waiting = <<>>]
    <3>4. Typed(c1) /\ Agree(c, c1)
      BY <1>4, <3>2 DEF Agree, Typed, Fields
    <3>5. c1 = [c EXCEPT !.waiting = <<>>]
      OBVIOUS
    <3> HIDE DEF c1
    <3>6. Good(c1, Position(source), pub, view.dts, view.epoch)
      BY <1>5, <3>4, GoodAgrees
    <3>7. ~c.paced_holding
      BY <1>6, <2>3
    <3>8. Good(ReleaseReady(c, e.packets), Position(s), pub, view.dts, view.epoch)
      BY <1>2, <1>3, <1>4, <1>6, <3>3, <3>5, <3>6, <3>7, ReleaseReadyGood
    <3> QED BY <2>3, <3>8
  <2> QED BY <1>1, <2>1, <2>2, <2>3
<1>8. source' \in [Feeds -> Sources] /\ Position(source') \in [Feeds -> Int]
  BY <1>1, <1>2, <1>3
<1>9. co'.epoch \in Nat /\ co'.epoch \in Int
  BY <1>7 DEF Good, Typed
<1>10. /\ publication_epoch' \in Int /\ pub <= publication_epoch'
       /\ Good(co', Position(source'), publication_epoch', view.dts, view.epoch)
  <2>1. publication_epoch' = Max({pub, co'.epoch})
    BY <1>1 DEF pub
  <2> QED BY <1>2, <1>7, <1>8, <1>9, <2>1, EpochGrows
<1>11. publication_epoch' \in Nat
  BY <1>2, <1>10
<1>12. LineTyped'
  BY <1>1, <1>2, <1>8, <1>11 DEF LineTyped
<1> QED
  BY <1>1, <1>10, <1>12 DEF LineInv

\* What holding hands over is published.
LEMMA HoldingLine ==
  ASSUME LineInv, NEW keys \in Bursts["Holding"], Holding(keys)
  PROVE  LineInv'
<1> DEFINE e == Encoded("Holding", keys)
           c == [co EXCEPT !.silent = @ \/ HasSound(e.packets)]
           s == [source EXCEPT !["Holding"] = e.next]
<1>1. /\ co.error = None /\ requests' = requests /\ view' = view
      /\ publication_epoch' = publication_epoch
      /\ \/ co' = c /\ source' = source
         \/ co.desired = "Holding" /\ source' = s /\ co' = Publish(c, "Holding", e.packets)
  BY DEF Holding, Ready
<1>2. /\ LineTyped /\ Typed(co)
      /\ Good(co, Position(source), publication_epoch, view.dts, view.epoch)
      /\ publication_epoch \in Int /\ view.dts \in Int /\ source \in [Feeds -> Sources]
  BY DEF LineInv, LineTyped, Good, Watched
<1>3. /\ s \in [Feeds -> Sources] /\ e.packets \in Seq(Packet)
      /\ NotBefore(e.packets, Position(source)["Holding"])
      /\ NotAfter(e.packets, Position(s)["Holding"])
      /\ Position(source) \in [Feeds -> Int] /\ Position(s) \in [Feeds -> Int]
      /\ \A f \in Feeds : Position(source)[f] <= Position(s)[f]
  BY <1>2, HandedOver, Constants
<1> HIDE DEF e, s
<1>4. Typed(c) /\ Agree(co, c)
  <2>1. (co.silent \/ HasSound(e.packets)) \in BOOLEAN
    OBVIOUS
  <2>2. PICK b \in BOOLEAN : c = [co EXCEPT !.silent = b]
    BY <2>1
  <2> HIDE DEF c
  <2> QED BY <1>2, <2>2 DEF Agree, Typed, Fields
<1> HIDE DEF c
<1>5. Good(c, Position(source), publication_epoch, view.dts, view.epoch)
  BY <1>2, <1>4, GoodAgrees
<1>6. c.error = None /\ c.desired = co.desired
  BY <1>1, <1>4 DEF Agree
<1>7. Good(co', Position(source'), publication_epoch, view.dts, view.epoch)
  <2>1. CASE co' = c /\ source' = source
    BY <1>5, <2>1
  <2>2. CASE co.desired = "Holding" /\ source' = s /\ co' = Publish(c, "Holding", e.packets)
    <3>1. /\ \A i \in DOMAIN e.packets : e.packets[i].dts <= Position(s)["Holding"]
          /\ \A i \in DOMAIN e.packets : Position(source)["Holding"] <= e.packets[i].dts
      BY <1>3 DEF NotAfter, NotBefore
    <3>2. Good(Publish(c, "Holding", e.packets), Position(s), publication_epoch,
               view.dts, view.epoch)
      BY <1>2, <1>3, <1>5, <1>6, <2>2, <3>1, PublishGood, Constants
    <3> QED BY <2>2, <3>2
  <2> QED BY <1>1, <2>1, <2>2
<1>8. LineTyped'
  BY <1>1, <1>2, <1>3 DEF LineTyped
<1> QED
  BY <1>1, <1>7, <1>8 DEF LineInv

\* check_deadline, the guard.
LEMMA CheckGuardLine == LineInv /\ CheckGuard => LineInv'
<1>1. SUFFICES ASSUME LineInv, CheckGuard PROVE LineInv'
  OBVIOUS
<1>2. /\ co.error = None /\ co' \in {Later(co), GuardStep(Later(co))}
      /\ requests' = requests /\ view' = view /\ source' = source
      /\ publication_epoch' = publication_epoch
  BY <1>1 DEF CheckGuard, Ready
<1>3. /\ LineTyped /\ view.dts \in Int
      /\ Good(co, Position(source), publication_epoch, view.dts, view.epoch)
  BY <1>1 DEF LineInv, LineTyped, Watched
<1>4. /\ Good(Later(co), Position(source), publication_epoch, view.dts, view.epoch)
      /\ Later(co).error = None
  BY <1>2, <1>3, LaterGood
<1>5. Good(GuardStep(Later(co)), Position(source), publication_epoch, view.dts, view.epoch)
  BY <1>3, <1>4, GuardStepGood
<1>6. LineTyped'
  BY <1>2, <1>3 DEF LineTyped
<1> QED
  BY <1>2, <1>4, <1>5, <1>6 DEF LineInv

\* check_deadline, the resumed programme.
LEMMA CheckResumeLine == LineInv /\ CheckResume => LineInv'
<1>1. SUFFICES ASSUME LineInv, CheckResume PROVE LineInv'
  OBVIOUS
<1>2. /\ Clear(co) /\ co' = PaceStep(ResumeStep(co))
      /\ requests' = requests /\ view' = view /\ source' = source
      /\ publication_epoch' = Max({publication_epoch, co'.epoch})
  BY <1>1 DEF CheckResume, Ready, Clear
<1>3. /\ LineTyped /\ view.dts \in Int /\ publication_epoch \in Nat /\ publication_epoch \in Int
      /\ source \in [Feeds -> Sources]
      /\ Good(co, Position(source), publication_epoch, view.dts, view.epoch)
  BY <1>1 DEF LineInv, LineTyped, Watched
<1>4. Position(source) \in [Feeds -> Int]
  BY <1>3, PositionIs
<1>5. Good(ResumeStep(co), Position(source), publication_epoch, view.dts, view.epoch)
  BY <1>2, <1>3, <1>4, ResumeStepGood
<1>6. Good(co', Position(source), publication_epoch, view.dts, view.epoch)
  BY <1>2, <1>3, <1>5, PaceStepGood
<1>7. co'.epoch \in Int
  BY <1>6 DEF Good, Typed
<1>8. /\ publication_epoch' \in Int /\ publication_epoch <= publication_epoch'
      /\ Good(co', Position(source), publication_epoch', view.dts, view.epoch)
  BY <1>2, <1>3, <1>4, <1>6, <1>7, EpochGrows
<1>9. publication_epoch' \in Nat
  BY <1>3, <1>8
<1>10. LineTyped'
  BY <1>2, <1>3, <1>9 DEF LineTyped
<1> QED
  BY <1>2, <1>8, <1>10 DEF LineInv

\* check_deadline, the end of the pacing and the limits.
LEMMA CheckLimitsLine == LineInv /\ CheckLimits => LineInv'
<1>1. SUFFICES ASSUME LineInv, CheckLimits PROVE LineInv'
  OBVIOUS
<1>2. /\ co.error = None /\ co' = LimitStep(SettleStep(co))
      /\ requests' = requests /\ view' = view /\ source' = source
      /\ publication_epoch' = publication_epoch
  BY <1>1 DEF CheckLimits, Ready
<1>3. /\ LineTyped /\ view.dts \in Int
      /\ Good(co, Position(source), publication_epoch, view.dts, view.epoch)
  BY <1>1 DEF LineInv, LineTyped, Watched
<1>4. Good(SettleStep(co), Position(source), publication_epoch, view.dts, view.epoch)
  BY <1>2, <1>3, SettleStepGood
<1>5. Good(co', Position(source), publication_epoch, view.dts, view.epoch)
  BY <1>2, <1>4, LimitStepGood
<1>6. LineTyped'
  BY <1>2, <1>3 DEF LineTyped
<1> QED
  BY <1>2, <1>5, <1>6 DEF LineInv

\* What the head of a queue leaves behind.
LEMMA TailIs ==
  ASSUME NEW T, NEW q \in Seq(T), q # <<>>
  PROVE  /\ Tail(q) \in Seq(T) /\ Head(q) \in T /\ Head(q) = q[1] /\ 1 \in DOMAIN q
         /\ \A a \in DOMAIN Tail(q) :
              a + 1 \in DOMAIN q /\ Tail(q)[a] = q[a + 1] /\ a \in Int /\ 1 < a + 1
  OBVIOUS

\* The viewer has the batch: its epoch, and its last time stamp.
LEMMA SeenIs ==
  ASSUME NEW b \in Batches, Watched(view)
  PROVE  Watched(Seen(b)) /\ Seen(b).epoch = b.epoch
         /\ Seen(b).dts = b.packets[Len(b.packets)].dts
<1> DEFINE tail == TailAfter([audio |-> view.audio, video |-> view.last], b.feed, b.packets)
<1>1. /\ b.feed \in Feeds /\ b.packets \in Seq(Packet) /\ b.packets # <<>> /\ b.epoch \in Nat
  BY DEF Batches
<1>2. view.audio \in Int /\ view.last \in Int
  BY DEF Watched
<1>3. tail \in Tails /\ tail.output = b.packets[Len(b.packets)].dts
  BY <1>1, <1>2, TailAfterIs
<1> HIDE DEF tail
<1>4. tail.output \in Int /\ tail.audio \in Int /\ tail.video \in Int
  BY <1>3 DEF Tails
<1>5. /\ Seen(b).epoch = b.epoch /\ Seen(b).dts = tail.output
      /\ Seen(b).audio = tail.audio /\ Seen(b).last = tail.video
      /\ {"epoch", "dts", "audio", "last"} \subseteq DOMAIN Seen(b)
  BY DEF Seen, tail
<1> QED
  BY <1>1, <1>3, <1>4, <1>5 DEF Watched

\* Only what waits in the outbox and what went wrong is different.
LEMMA TakenGood ==
  ASSUME NEW c, NEW next, NEW pub, NEW dts \in Int, NEW epoch \in Int,
         Good(c, next, pub, dts, epoch), c.outbox # <<>>, pub \in Int,
         NEW d, d = [c EXCEPT !.outbox = Tail(c.outbox)], NEW dts2 \in Int, NEW epoch2 \in Int,
         \/ c.epoch < pub /\ dts2 = dts /\ epoch2 = epoch
         \/ /\ epoch2 = c.epoch
            /\ dts2 = Head(c.outbox).packets[Len(Head(c.outbox).packets)].dts
  PROVE  Good(d, next, pub, dts2, epoch2)
<1>1. /\ Typed(c) /\ Posted(c, dts) /\ c.outbox \in Seq(Batches) /\ c.epoch \in Int
      /\ c.published.output \in Int
      /\ c.error \notin {"DtsRegression", "Refused"}
  BY SMTT(60) DEF Good, Typed, Tails
<1> DEFINE q == c.outbox
           t == Tail(q)
           b == Head(q)
<1>2. /\ t \in Seq(Batches) /\ b \in Batches /\ b = q[1] /\ 1 \in DOMAIN q
      /\ \A a \in DOMAIN t : a + 1 \in DOMAIN q /\ t[a] = q[a + 1] /\ a \in Int /\ 1 < a + 1
  <2>1. q \in Seq(Batches) /\ q # <<>>
    BY <1>1
  <2> HIDE DEF q
  <2> QED BY <2>1, TailIs
<1>3. b.packets \in Seq(Packet) /\ b.packets # <<>>
  BY <1>2 DEF Batches
<1>4. Len(b.packets) \in DOMAIN b.packets
  BY <1>3, LastIs
<1>5. /\ d.epoch = c.epoch /\ d.desired = c.desired /\ d.selected = c.selected
      /\ d.headers = c.headers /\ d.cutoff = c.cutoff /\ d.offset = c.offset
      /\ d.boundary = c.boundary /\ d.waiting = c.waiting
      /\ d.scheduled = c.scheduled /\ d.outbox = t
      /\ d.tail = c.tail /\ d.published = c.published
      /\ d.paced_holding = c.paced_holding /\ d.paced_programme = c.paced_programme
      /\ d.error = c.error /\ Typed(d)
  <2>1. c.outbox \in Seq(Batches) /\ Fields \subseteq DOMAIN c
    BY <1>1 DEF Typed
  <2> HIDE DEF t
  <2>2. d = [c EXCEPT !.outbox = t]
    BY DEF t
  <2> QED BY <1>1, <1>2, <2>2 DEF Typed, Fields
<1>6. /\ \A a \in DOMAIN q :
           /\ q[a].epoch = c.epoch /\ InSequence(q[a].packets)
           /\ Within(q[a].packets, dts, c.published.output)
      /\ \A a1, b1 \in DOMAIN q :
           a1 < b1 => \A i \in DOMAIN q[a1].packets, j \in DOMAIN q[b1].packets :
                        q[a1].packets[i].dts <= q[b1].packets[j].dts
      /\ dts <= c.published.output
  BY <1>1 DEF Posted
<1>7. Heard(d, pub, epoch2)
  BY <1>1, <1>5 DEF Heard
<1>8. Opened(d, pub, epoch2) /\ Headed(d, pub, epoch2)
  BY <1>7 DEF Opened, Headed
<1>9. dts2 <= c.published.output
  <2>1. CASE dts2 = dts
    BY <1>6, <2>1
  <2>2. CASE dts2 = b.packets[Len(b.packets)].dts
    <3>1. Within(b.packets, dts, c.published.output)
      BY <1>2, <1>6
    <3> QED BY <1>4, <2>2, <3>1 DEF Within
  <2> QED BY <2>1, <2>2
<1> HIDE DEF q, t, b
<1>10. ASSUME NEW a \in DOMAIN t
       PROVE  /\ t[a].epoch = c.epoch /\ InSequence(t[a].packets)
              /\ Within(t[a].packets, dts2, c.published.output)
  <2>1. /\ a + 1 \in DOMAIN q /\ t[a] = q[a + 1] /\ 1 < a + 1 /\ q[a + 1].epoch = c.epoch
        /\ InSequence(q[a + 1].packets)
        /\ Within(q[a + 1].packets, dts, c.published.output)
    BY <1>2, <1>6
  <2>2. CASE dts2 = dts
    BY <2>1, <2>2
  <2>3. CASE dts2 = b.packets[Len(b.packets)].dts
    <3>1. \A j \in DOMAIN q[a + 1].packets : dts2 <= q[a + 1].packets[j].dts
      BY <1>2, <1>4, <1>6, <2>1, <2>3
    <3>2. Within(q[a + 1].packets, dts2, c.published.output)
      BY <2>1, <3>1 DEF Within
    <3> QED BY <2>1, <3>2
  <2>4. dts2 = dts \/ dts2 = b.packets[Len(b.packets)].dts
    BY DEF b, q
  <2> QED BY <2>2, <2>3, <2>4
<1>11. ASSUME NEW a1 \in DOMAIN t, NEW b1 \in DOMAIN t, a1 < b1
       PROVE  \A i \in DOMAIN t[a1].packets, j \in DOMAIN t[b1].packets :
                t[a1].packets[i].dts <= t[b1].packets[j].dts
  <2>1. /\ a1 + 1 \in DOMAIN q /\ t[a1] = q[a1 + 1] /\ b1 + 1 \in DOMAIN q /\ t[b1] = q[b1 + 1]
        /\ a1 + 1 < b1 + 1
    BY <1>2, <1>11
  <2> QED BY <1>6, <2>1
<1>12. Posted(d, dts2)
  <2>1. d.outbox = t /\ d.epoch = c.epoch /\ d.published.output = c.published.output
    BY <1>5
  <2>2. ASSUME NEW a \in DOMAIN d.outbox
        PROVE  /\ d.outbox[a].epoch = d.epoch /\ InSequence(d.outbox[a].packets)
               /\ Within(d.outbox[a].packets, dts2, d.published.output)
    <3>1. a \in DOMAIN t /\ d.outbox[a] = t[a]
      BY <2>1
    <3> QED BY <1>10, <2>1, <3>1
  <2>3. ASSUME NEW a1 \in DOMAIN d.outbox, NEW b1 \in DOMAIN d.outbox, a1 < b1,
               NEW i \in DOMAIN d.outbox[a1].packets, NEW j \in DOMAIN d.outbox[b1].packets
        PROVE  d.outbox[a1].packets[i].dts <= d.outbox[b1].packets[j].dts
    <3>1. a1 \in DOMAIN t /\ d.outbox[a1] = t[a1] /\ b1 \in DOMAIN t /\ d.outbox[b1] = t[b1]
      BY <2>1
    <3> QED BY <1>11, <2>3, <3>1
  <2>4. dts2 <= d.published.output
    BY <1>9, <2>1
  <2> QED BY <2>2, <2>3, <2>4, Zenon DEF Posted
<1>13. d.error = None => Going(d, next, pub, epoch2)
  <2>1. SUFFICES ASSUME d.error = None PROVE Going(d, next, pub, epoch2)
    OBVIOUS
  <2>2. Lined(c) /\ Paced(c) /\ Ahead(c, next)
    BY <1>5, <2>1 DEF Good, Going
  <2>3. Lined(d)
    BY <1>5, <2>2 DEF Lined
  <2>4. Paced(d)
    BY <1>5, <2>2 DEF Paced
  <2>5. Ahead(d, next)
    BY <1>5, <2>2 DEF Ahead
  <2> QED BY <1>8, <2>3, <2>4, <2>5 DEF Going
<1> QED
  BY <1>1, <1>5, <1>8, <1>12, <1>13 DEF Good

\* A batch that is not superseded brings the headers of its epoch, or the
\* viewer has them, and its time stamps do not go back: it is not refused.
LEMMA BatchAccepted ==
  ASSUME NEW next, LineTyped, Good(co, next, publication_epoch, view.dts, view.epoch),
         co.outbox # <<>>, Head(co.outbox).epoch >= publication_epoch
  PROVE  ~Refuses(Head(co.outbox))
<1> DEFINE b == Head(co.outbox)
<1>1. /\ co.outbox \in Seq(Batches) /\ Posted(co, view.dts) /\ co.epoch \in Int
      /\ Opened(co, publication_epoch, view.epoch)
      /\ publication_epoch \in Int /\ view.epoch \in Int /\ view.dts \in Int
  BY DEF Good, Typed, LineTyped, Watched
<1>2. b \in Batches /\ b = co.outbox[1] /\ 1 \in DOMAIN co.outbox
  BY <1>1, TailIs
<1> HIDE DEF b
<1>3. /\ b.epoch = co.epoch /\ InSequence(b.packets) /\ \A i \in DOMAIN b.packets : view.dts <= b.packets[i].dts
  BY <1>1, <1>2 DEF Posted, Within
<1>4. b.packets \in Seq(Packet) /\ b.packets # <<>>
  BY <1>2 DEF Batches
<1>5. /\ 1 \in DOMAIN b.packets /\ DOMAIN b.packets = 1..Len(b.packets) /\ Len(b.packets) \in Nat
      /\ \A i \in DOMAIN b.packets : b.packets[i].dts \in Int
  BY <1>4, LastIs
<1>6. ~(b.epoch > view.epoch /\ b.avc = None)
  <2>1. co.epoch >= publication_epoch
    BY <1>3 DEF b
  <2>2. b.avc = None => co.epoch <= view.epoch
    BY <1>1, <1>2, <2>1 DEF Opened, Heard
  <2> QED BY <1>1, <1>3, <2>2
<1>7. ~(b.packets[1].dts < view.dts)
  BY <1>1, <1>3, <1>5
<1>8. ~\E i \in 2..Len(b.packets) : b.packets[i].dts < b.packets[i - 1].dts
  <2>1. ASSUME NEW i \in 2..Len(b.packets) PROVE ~(b.packets[i].dts < b.packets[i - 1].dts)
    <3>1. i \in DOMAIN b.packets /\ i - 1 \in DOMAIN b.packets /\ i - 1 < i
      BY <1>5
    <3>2. b.packets[i - 1].dts <= b.packets[i].dts
      BY <1>3, <3>1 DEF InSequence
    <3> QED BY <1>5, <3>1, <3>2
  <2> QED BY <2>1
<1> QED
  BY <1>6, <1>7, <1>8 DEF Refuses, b

\* The head of the outbox reaches the viewer, or is dropped as superseded.
LEMMA DispatchLine == LineInv /\ Dispatch => LineInv'
<1>1. SUFFICES ASSUME LineInv, Dispatch PROVE LineInv'
  OBVIOUS
<1> DEFINE b == Head(co.outbox)
           current == b.epoch >= publication_epoch
           d == [co EXCEPT !.outbox = Tail(co.outbox)]
           next == Position(source)
<1>2. /\ co.outbox # <<>> /\ requests' = requests /\ source' = source
      /\ publication_epoch' = publication_epoch
      /\ view' = IF current THEN Seen(b) ELSE [view EXCEPT !.cut = TRUE]
      /\ co' = [co EXCEPT !.outbox = Tail(@),
                          !.error = IF current /\ Refuses(b) THEN "Refused" ELSE @]
  BY <1>1 DEF Dispatch
<1>3. /\ LineTyped /\ Watched(view) /\ publication_epoch \in Int
      /\ view.dts \in Int /\ view.epoch \in Int
      /\ Good(co, next, publication_epoch, view.dts, view.epoch)
      /\ co.outbox \in Seq(Batches) /\ Posted(co, view.dts) /\ Fields \subseteq DOMAIN co
      /\ co.epoch \in Int
  BY <1>1 DEF LineInv, LineTyped, Watched, Good, Typed
<1>4. b \in Batches /\ b = co.outbox[1] /\ 1 \in DOMAIN co.outbox
  BY <1>2, <1>3, TailIs
<1>5. b.epoch = co.epoch
  BY <1>3, <1>4 DEF Posted
<1>6. ~(current /\ Refuses(b))
  BY <1>2, <1>3, BatchAccepted
<1>7. co' = d
  <2>1. co' = [co EXCEPT !.outbox = Tail(co.outbox), !.error = co.error]
    BY <1>2, <1>6
  <2>2. "error" \in DOMAIN co
    BY <1>3 DEF Fields
  <2> QED BY <2>1, <2>2
<1> HIDE DEF d, next
<1>8. CASE current
  <2>1. view' = Seen(b)
    BY <1>2, <1>8
  <2> HIDE DEF b, current
  <2>2. Watched(view') /\ view'.epoch = co.epoch /\ view'.dts = b.packets[Len(b.packets)].dts
    BY <1>3, <1>4, <1>5, <2>1, SeenIs
  <2>3. view'.dts \in Int /\ view'.epoch \in Int
    BY <2>2 DEF Watched
  <2>4. d = [co EXCEPT !.outbox = Tail(co.outbox)] /\ b = Head(co.outbox)
    BY DEF d, b
  <2>5. Good(d, next, publication_epoch, view'.dts, view'.epoch)
    BY SMTT(60), <1>2, <1>3, <2>2, <2>3, <2>4, TakenGood
  <2>6. LineTyped'
    BY <1>2, <1>3, <2>2 DEF LineTyped
  <2> QED BY <1>2, <1>7, <2>5, <2>6 DEF LineInv, next
<1>9. CASE ~current
  <2>1. view' = [view EXCEPT !.cut = TRUE] /\ co.epoch < publication_epoch
    BY <1>2, <1>3, <1>5, <1>9
  <2> HIDE DEF b, current
  <2>2. Watched(view') /\ view'.epoch = view.epoch /\ view'.dts = view.dts
    BY <1>3, <2>1 DEF Watched
  <2>3. view'.dts \in Int /\ view'.epoch \in Int
    BY <2>2 DEF Watched
  <2>4. d = [co EXCEPT !.outbox = Tail(co.outbox)]
    BY DEF d
  <2>5. Good(d, next, publication_epoch, view'.dts, view'.epoch)
    BY <1>2, <1>3, <2>1, <2>2, <2>3, <2>4, TakenGood
  <2>6. LineTyped'
    BY <1>2, <1>3, <2>2 DEF LineTyped
  <2> QED BY <1>2, <1>7, <2>5, <2>6 DEF LineInv, next
<1> QED
  BY <1>8, <1>9

\* An action is admitted at any moment: the epoch it raises takes nothing back.
LEMMA AdmitLine == ASSUME LineInv, NEW action \in Actions, Admit(action) PROVE LineInv'
<1>1. /\ publication_epoch' = publication_epoch + 1
      /\ requests' = Append(requests, [action |-> action, epoch |-> publication_epoch + 1])
      /\ source' = source /\ co' = co /\ view' = view
  BY DEF Admit
<1>2. /\ LineTyped /\ publication_epoch \in Nat /\ publication_epoch + 1 \in Nat
      /\ publication_epoch \in Int /\ publication_epoch + 1 \in Int
      /\ publication_epoch <= publication_epoch + 1
      /\ source \in [Feeds -> Sources]
      /\ Good(co, Position(source), publication_epoch, view.dts, view.epoch)
  BY DEF LineInv, LineTyped
<1>3. requests' \in Admissions
  <2> DEFINE T == [action : Actions, epoch : Nat]
             r == [action |-> action, epoch |-> publication_epoch + 1]
  <2>1. r \in T
    BY <1>2
  <2>2. requests \in Seq(T) /\ Admissions = Seq(T)
    BY <1>2 DEF LineTyped, Admissions
  <2>3. requests' = Append(requests, r)
    BY <1>1
  <2> HIDE DEF T, r
  <2> QED BY <2>1, <2>2, <2>3
<1>4. Position(source) \in [Feeds -> Int]
  BY <1>2, PositionIs
<1>5. \A f \in Feeds : Position(source)[f] <= Position(source)[f]
  BY <1>4
<1>6. Good(co, Position(source), publication_epoch + 1, view.dts, view.epoch)
  BY <1>2, <1>4, <1>5, GoodLater
<1>7. LineTyped'
  BY <1>1, <1>2, <1>3 DEF LineTyped
<1> QED
  BY <1>1, <1>6, <1>7 DEF LineInv

\* The steps that leave the line alone.
LEMMA StillLine ==
  ASSUME LineInv, UNCHANGED <<publication_epoch, requests, source, co, view>>
  PROVE  LineInv'
  BY DEF LineInv, LineTyped

\* The line is kept by every step of the worker, the feeds, the threads that
\* admit actions, and the network.
THEOREM LineHolds == Spec => []LineInv
<1>1. Init => LineInv
  BY InitLine
<1>2. LineInv /\ [Next]_vars => LineInv'
  <2>1. SUFFICES ASSUME LineInv, [Next]_vars PROVE LineInv'
    OBVIOUS
  <2>2. CASE Request
    BY <2>1, <2>2, RequestLine
  <2>3. CASE CheckGuard
    BY <2>1, <2>3, CheckGuardLine
  <2>4. CASE CheckResume
    BY <2>1, <2>4, CheckResumeLine
  <2>5. CASE CheckLimits
    BY <2>1, <2>5, CheckLimitsLine
  <2>6. CASE Dispatch
    BY <2>1, <2>6, DispatchLine
  <2>7. ASSUME NEW keys \in Bursts["Holding"], Holding(keys) PROVE LineInv'
    BY <2>1, <2>7, HoldingLine
  <2>8. ASSUME NEW keys \in Bursts["Programme"], NEW key \in BOOLEAN, Programme(keys, key)
        PROVE  LineInv'
    BY <2>1, <2>8, ProgrammeLine
  <2>9. ASSUME NEW a \in Actions, Admit(a) PROVE LineInv'
    BY <2>1, <2>9, AdmitLine
  <2>10. CASE Wake \/ Deliver \/ UNCHANGED vars
    <3>1. UNCHANGED <<publication_epoch, requests, source, co, view>>
      BY <2>10 DEF Wake, Deliver, vars
    <3> QED BY <2>1, <3>1, StillLine
  <2> QED
    BY <2>1, <2>2, <2>3, <2>4, <2>5, <2>6, <2>7, <2>8, <2>9, <2>10
       DEF Next, Worker, HandOver
<1> QED
  BY <1>1, <1>2, PTL DEF Spec

\* Whatever is superseded, and at whatever moment, the coordinator finds no
\* regression in its own output, and the muxer and consumer refuse nothing
\* that is dispatched (NeverRegresses).
THEOREM NeverGoesBack == Spec => []NeverRegresses
<1>1. LineInv => NeverRegresses
  BY DEF LineInv, Good, NeverRegresses
<1> QED
  BY <1>1, LineHolds, PTL

\* The first of the packets at the given positions comes first.
LEMMA AtFirst ==
  ASSUME NEW T, NEW q \in Seq(T), NEW positions
  PROVE  \A i \in DOMAIN q :
           i \in positions /\ (\A j \in DOMAIN q : j < i => j \notin positions) =>
             At(q, positions) # <<>> /\ At(q, positions)[1] = q[i]
<1> DEFINE N == Len(q)
<1>1. PICK d \in [0..N -> Seq(T)] :
           /\ At(q, positions) = d[N] /\ d[0] = <<>>
           /\ \A n \in 1..N :
                d[n] = IF n \in positions THEN Append(d[n - 1], q[n]) ELSE d[n - 1]
  BY AtSteps
<1>2. N \in Nat /\ DOMAIN q = 1..N
  OBVIOUS
<1>a. SUFFICES ASSUME NEW i \in DOMAIN q, i \in positions,
                      \A j \in DOMAIN q : j < i => j \notin positions
               PROVE  At(q, positions) # <<>> /\ At(q, positions)[1] = q[i]
  OBVIOUS
<1> DEFINE Fine(n) == IF n < i THEN d[n] = <<>> ELSE d[n] # <<>> /\ d[n][1] = q[i]
           S == {n \in Nat : n <= N => Fine(n)}
<1> HIDE DEF N
<1>0. i \in 1..N /\ i \in Nat /\ 1 <= i /\ i <= N
  BY <1>2
<1>3. 0 \in S
  BY <1>0, <1>1
<1>4. ASSUME NEW n \in Nat, n \in S PROVE n + 1 \in S
  <2>1. SUFFICES ASSUME n + 1 <= N PROVE Fine(n + 1)
    OBVIOUS
  <2>2. n + 1 \in 1..N /\ n \in 0..N /\ (n + 1) - 1 = n /\ Fine(n)
    BY <2>1, <1>2, <1>4
  <2>3. PICK e \in Seq(T) : e = d[n]
    BY <1>1, <2>2
  <2>4. q[n + 1] \in T
    BY <1>2, <2>2
  <2>5. d[n + 1] = IF n + 1 \in positions THEN Append(e, q[n + 1]) ELSE e
    BY <1>1, <2>2, <2>3
  <2>6. /\ Append(e, q[n + 1]) # <<>>
        /\ Append(e, q[n + 1])[1] = IF e = <<>> THEN q[n + 1] ELSE e[1]
    BY <2>3, <2>4, AppendIs
  <2>7. CASE n + 1 < i
    <3>1. n + 1 \in DOMAIN q /\ n + 1 < i /\ n < i
      BY <1>0, <1>2, <2>2, <2>7
    <3>2. n + 1 \notin positions
      BY <1>a, <3>1
    <3> QED BY <2>2, <2>3, <2>5, <2>7, <3>1, <3>2
  <2>8. CASE n + 1 = i
    <3>1. n < i
      BY <1>0, <2>8
    <3> QED BY <1>a, <2>2, <2>3, <2>5, <2>6, <2>8, <3>1
  <2>9. CASE n >= i
    <3>1. ~(n < i) /\ ~(n + 1 < i)
      BY <1>0, <2>9
    <3> QED BY <2>2, <2>3, <2>5, <2>6, <3>1
  <2> QED BY <1>0, <2>7, <2>8, <2>9
<1>5. N \in S
  BY <1>2, <1>3, <1>4, NatSetInduction
<1>6. Fine(N) /\ ~(N < i)
  BY <1>0, <1>2, <1>5
<1> QED
  BY <1>1, <1>6

\* What is picked from a sequence in order is in order.
LEMMA AtInSequence ==
  ASSUME NEW q \in Seq(Packet), InSequence(q), NEW positions
  PROVE  InSequence(At(q, positions))
<1> DEFINE N == Len(q)
<1>1. PICK d \in [0..N -> Seq(Packet)] :
           /\ At(q, positions) = d[N] /\ d[0] = <<>>
           /\ \A n \in 1..N :
                d[n] = IF n \in positions THEN Append(d[n - 1], q[n]) ELSE d[n - 1]
  BY AtSteps
<1>2. N \in Nat /\ DOMAIN q = 1..N
  OBVIOUS
<1> DEFINE Fine(n) == /\ InSequence(d[n])
                     /\ \A k \in DOMAIN d[n] : \E i \in 1..n : d[n][k] = q[i]
           S == {n \in Nat : n <= N => Fine(n)}
<1> HIDE DEF N
<1>3. 0 \in S
  BY <1>1 DEF InSequence
<1>4. ASSUME NEW n \in Nat, n \in S PROVE n + 1 \in S
  <2>1. SUFFICES ASSUME n + 1 <= N PROVE Fine(n + 1)
    OBVIOUS
  <2>2. n + 1 \in 1..N /\ n \in 0..N /\ (n + 1) - 1 = n /\ Fine(n)
    BY <2>1, <1>2, <1>4
  <2>3. PICK e \in Seq(Packet) : e = d[n]
    BY <1>1, <2>2
  <2>4. PICK p \in Packet : p = q[n + 1]
    BY <1>2, <2>2
  <2>5. d[n + 1] = IF n + 1 \in positions THEN Append(e, p) ELSE e
    BY <1>1, <2>2, <2>3, <2>4
  <2>6. CASE n + 1 \notin positions
    <3>1. \A i \in 1..n : i \in 1..(n + 1)
      OBVIOUS
    <3> QED BY <2>2, <2>3, <2>5, <2>6, <3>1
  <2>7. CASE n + 1 \in positions
    <3> DEFINE x == Append(e, p)
    <3>1. /\ DOMAIN x = DOMAIN e \cup {Len(e) + 1} /\ x[Len(e) + 1] = p
          /\ \A i \in DOMAIN e : x[i] = e[i] /\ i < Len(e) + 1
      BY <2>3, <2>4, AppendIs
    <3>2. DOMAIN e = 1..Len(e) /\ Len(e) \in Nat
      BY <2>3
    <3> HIDE DEF x
    <3>3. ASSUME NEW k \in DOMAIN e PROVE e[k].dts <= p.dts
      <4>1. PICK i \in 1..n : e[k] = q[i]
        BY <2>2, <2>3, <3>3
      <4>2. i \in DOMAIN q /\ n + 1 \in DOMAIN q /\ i <= n + 1
        BY <1>2, <2>2
      <4> QED BY <2>4, <4>1, <4>2 DEF InSequence
    <3>4. ASSUME NEW k \in DOMAIN x, NEW m \in DOMAIN x, k <= m PROVE x[k].dts <= x[m].dts
      <4>1. CASE k \in DOMAIN e /\ m \in DOMAIN e
        BY <2>2, <2>3, <3>1, <3>4, <4>1 DEF InSequence
      <4>2. CASE k \in DOMAIN e /\ m = Len(e) + 1
        BY <3>1, <3>3, <4>2
      <4>3. CASE k = Len(e) + 1
        <5>1. m = Len(e) + 1
          BY <3>1, <3>2, <3>4, <4>3
        <5>2. p.dts \in Int
          BY DEF Packet
        <5> QED BY <3>1, <4>3, <5>1, <5>2
      <4> QED BY <3>1, <4>1, <4>2, <4>3
    <3>5. ASSUME NEW k \in DOMAIN x PROVE \E i \in 1..(n + 1) : x[k] = q[i]
      <4>1. CASE k \in DOMAIN e
        <5>1. PICK i \in 1..n : e[k] = q[i]
          BY <2>2, <2>3, <4>1
        <5>2. i \in 1..(n + 1)
          OBVIOUS
        <5> QED BY <3>1, <4>1, <5>1, <5>2
      <4>2. CASE k = Len(e) + 1
        BY <2>4, <3>1, <4>2
      <4> QED BY <3>1, <4>1, <4>2
    <3>6. d[n + 1] = x
      BY <2>5, <2>7 DEF x
    <3> QED BY <3>4, <3>5, <3>6 DEF InSequence
  <2> QED BY <2>6, <2>7
<1>5. N \in S
  BY <1>2, <1>3, <1>4, NatSetInduction
<1>6. Fine(N)
  BY <1>2, <1>5
<1> QED
  BY <1>1, <1>6

\* A packet that none after it precedes follows only packets that were before it.
LEMMA InOrderKeeps ==
  ASSUME NEW q \in Seq(Packet)
  PROVE  LET r == InOrder(q) IN
         /\ \A i \in DOMAIN q : \E k \in DOMAIN r : r[k] = q[i]
         /\ \A i \in DOMAIN q :
              (\A j \in DOMAIN q : i < j => q[i].dts <= q[j].dts) =>
                \E k \in DOMAIN r : /\ r[k] = q[i]
                                    /\ \A m \in DOMAIN r : m < k =>
                                         \E j \in DOMAIN q : j < i /\ r[m] = q[j]
<1> DEFINE D == DOMAIN q
           at == [r \in D |-> CHOOSE i \in D : Rank(q, i) = r]
           r == InOrder(q)
<1>1. D = 1..Len(q) /\ Len(q) \in Nat /\ \A i \in D : q[i] \in Packet
  OBVIOUS
<1>2. ASSUME NEW k \in D PROVE at[k] \in D /\ Rank(q, at[k]) = k
  <2>1. \E i \in D : Rank(q, i) = k
    BY RanksArePlaces
  <2> QED BY <2>1
<1>3. r = [k \in D |-> q[at[k]]]
  BY DEF InOrder
<1>4. DOMAIN r = D /\ \A k \in D : at[k] \in D /\ Rank(q, at[k]) = k /\ r[k] = q[at[k]]
  BY <1>2, <1>3
<1> HIDE DEF at, r
<1>5. ASSUME NEW i \in D PROVE Rank(q, i) \in D /\ at[Rank(q, i)] = i
  <2>1. Rank(q, i) \in D
    BY RanksArePlaces
  <2>2. at[Rank(q, i)] \in D /\ Rank(q, at[Rank(q, i)]) = Rank(q, i)
    BY <1>4, <2>1
  <2> QED BY <2>1, <2>2, RanksArePlaces
<1>6. \A i \in D : q[i].dts \in Int
  BY <1>1 DEF Packet
<1>7. ASSUME NEW i \in D, \A j \in D : i < j => q[i].dts <= q[j].dts
      PROVE  \E k \in D : r[k] = q[i] /\ \A m \in D : m < k => \E j \in D : j < i /\ r[m] = q[j]
  <2>1. Rank(q, i) \in D /\ r[Rank(q, i)] = q[i]
    BY <1>4, <1>5
  <2>2. ASSUME NEW m \in D, m < Rank(q, i) PROVE \E j \in D : j < i /\ r[m] = q[j]
    <3>1. at[m] \in D /\ Rank(q, at[m]) = m /\ r[m] = q[at[m]]
      BY <1>4
    <3>2. Precedes(q, at[m], i)
      BY <2>2, <3>1, RanksArePlaces
    <3>3. ~(i < at[m]) /\ i # at[m]
      BY <1>1, <1>6, <1>7, <2>2, <3>1, <3>2 DEF Precedes
    <3>4. at[m] < i
      BY <1>1, <3>1, <3>3
    <3> QED BY <3>1, <3>4
  <2> QED BY <2>1, <2>2
<1>8. ASSUME NEW i \in D PROVE \E k \in D : r[k] = q[i]
  <2>1. Rank(q, i) \in D /\ r[Rank(q, i)] = q[i]
    BY <1>4, <1>5
  <2> QED BY <2>1
<1>9. DOMAIN r = D
  BY <1>4
<1> HIDE DEF D
<1>10. /\ \A i \in D : \E k \in DOMAIN r : r[k] = q[i]
       /\ \A i \in D : (\A j \in D : i < j => q[i].dts <= q[j].dts) =>
            \E k \in DOMAIN r : /\ r[k] = q[i]
                                /\ \A m \in DOMAIN r : m < k =>
                                     \E j \in D : j < i /\ r[m] = q[j]
  BY <1>7, <1>8, <1>9
<1> QED
  BY <1>10, Zenon DEF r, D

(* What the sound and the pictures of a batch do to a tail.                 *)

IsSound(p) == p.kind = "Audio" /\ ~p.drain
Covers(t, q) == \A i \in DOMAIN q : /\ q[i].kind = "Audio" => q[i].pts + Duration <= t.audio
                                    /\ q[i].kind = "Video" => q[i].pts <= t.video

\* A tail ends with the packets it covers, and its sound with the last of them.
LEMMA TailAfterCovers ==
  ASSUME NEW t \in Tails, NEW feed \in Feeds, NEW q \in Seq(Packet), q # <<>>,
         InSequence(q), \A i \in DOMAIN q : 0 <= q[i].dts /\ t.output <= q[i].dts,
         0 <= t.audio, t.audio = 0 \/ t.audio <= t.output + Duration
  PROVE  LET u == TailAfter(t, feed, q) IN
         /\ u \in Tails /\ 0 <= u.output /\ t.output <= u.output
         /\ t.audio <= u.audio /\ t.video <= u.video /\ Covers(u, q)
         /\ u.audio = 0 \/ u.audio <= u.output + Duration
<1> DEFINE u == TailAfter(t, feed, q)
           a == Kind(q, "Audio")
           v == Kind(q, "Video")
           g == [i \in DOMAIN v |-> v[i].pts + Frame[feed]]
<1>0. Frame[feed] \in Nat /\ Duration \in Nat
  BY TimeConstants DEF Feeds
<1>1. t.output \in Int /\ t.audio \in Int /\ t.video \in Int
  BY DEF Tails
<1>2. u \in Tails /\ u.output = q[Len(q)].dts
  BY <1>1, TailAfterIs
<1>3. u.output \in Int /\ u.audio \in Int /\ u.video \in Int
  BY <1>2 DEF Tails
<1>4. /\ a \in Seq(Packet) /\ v \in Seq(Packet) /\ InSequence(a)
      /\ \A k \in DOMAIN a : \E i \in DOMAIN q : a[k] = q[i]
      /\ \A i \in DOMAIN q : q[i].kind = "Audio" => \E k \in DOMAIN a : a[k] = q[i]
      /\ \A k \in DOMAIN a : a[k].kind = "Audio"
      /\ \A i \in DOMAIN q : q[i].kind = "Video" => \E k \in DOMAIN v : v[k] = q[i]
  <2>1. InSequence(a)
    BY AtInSequence DEF Kind
  <2>2. /\ a \in Seq(Packet)
        /\ \A k \in DOMAIN a : \E i \in DOMAIN q : q[i].kind = "Audio" /\ a[k] = q[i]
        /\ \A i \in DOMAIN q : q[i].kind = "Audio" => \E k \in DOMAIN a : a[k] = q[i]
    BY KindIs, Zenon
  <2>3. /\ v \in Seq(Packet)
        /\ \A i \in DOMAIN q : q[i].kind = "Video" => \E k \in DOMAIN v : v[k] = q[i]
    BY KindIs, Zenon
  <2> HIDE DEF a, v
  <2> QED BY <2>1, <2>2, <2>3
<1>5. /\ u.audio = IF a = <<>> THEN t.audio ELSE Last(a).pts + Duration
      /\ u.video = Max({t.video} \cup {p.pts + Frame[feed] : p \in ToSet(v)})
  BY DEF TailAfter
<1> HIDE DEF u, a, v
<1>6. \A i \in DOMAIN q : /\ q[i].dts \in Int /\ q[i].pts \in Int /\ q[i].dts <= u.output
                          /\ q[i].kind \in {"Audio", "Video"}
                          /\ (q[i].kind = "Audio" => q[i].pts = q[i].dts)
  <2>1. \A i \in DOMAIN q : q[i] \in Packet
    OBVIOUS
  <2>2. \A i \in DOMAIN q : q[i].dts <= u.output
    BY <1>2, LastIs DEF Within
  <2> QED BY <2>1, <2>2 DEF Packet
<1>7. Len(q) \in DOMAIN q
  BY LastIs
<1>8. 0 <= u.output /\ t.output <= u.output
  BY <1>2, <1>7
<1>9. ASSUME a = <<>>
      PROVE  /\ t.audio <= u.audio /\ (u.audio = 0 \/ u.audio <= u.output + Duration)
             /\ \A i \in DOMAIN q : q[i].kind = "Audio" => q[i].pts + Duration <= u.audio
  <2>1. u.audio = t.audio
    BY <1>5, <1>9
  <2>2. \A i \in DOMAIN q : q[i].kind # "Audio"
    BY <1>4, <1>9
  <2>3. t.audio <= u.audio /\ (u.audio = 0 \/ u.audio <= u.output + Duration)
    BY <1>0, <1>1, <1>3, <1>8, <2>1
  <2> QED BY <2>2, <2>3
<1>10. ASSUME a # <<>>
      PROVE  /\ t.audio <= u.audio /\ (u.audio = 0 \/ u.audio <= u.output + Duration)
             /\ \A i \in DOMAIN q : q[i].kind = "Audio" => q[i].pts + Duration <= u.audio
  <2>1. Len(a) \in DOMAIN a /\ Last(a) = a[Len(a)] /\ \A k \in DOMAIN a : a[k].dts <= a[Len(a)].dts
    BY <1>4, <1>10, LastIs DEF Last, Within
  <2>2. PICK m \in DOMAIN q : a[Len(a)] = q[m]
    BY <1>4, <2>1
  <2>3. u.audio = q[m].dts + Duration /\ q[m].kind = "Audio"
    <3>1. q[m].kind = "Audio"
      BY <1>4, <2>1, <2>2
    <3>2. q[m].pts = q[m].dts
      BY <1>6, <2>2, <3>1
    <3> QED BY <1>5, <1>10, <2>1, <2>2, <3>1, <3>2
  <2>4. t.audio <= u.audio /\ u.audio <= u.output + Duration
    <3>1. PICK x : x = q[m].dts
      OBVIOUS
    <3>2. PICK o : o = u.output
      OBVIOUS
    <3>3. /\ x \in Int /\ o \in Int /\ x <= o /\ t.output <= x
          /\ t.audio = 0 \/ t.audio <= t.output + Duration
          /\ 0 <= x
      BY <1>3, <1>6, <3>1, <3>2
    <3>4. t.audio <= x + Duration /\ x + Duration <= o + Duration
      BY <1>0, <1>1, <3>3
    <3> QED BY <2>3, <3>1, <3>2, <3>4
  <2>5. \A i \in DOMAIN q : q[i].kind = "Audio" => q[i].pts + Duration <= u.audio
    <3>1. SUFFICES ASSUME NEW i \in DOMAIN q, q[i].kind = "Audio"
                   PROVE  q[i].pts + Duration <= u.audio
      OBVIOUS
    <3>2. PICK k \in DOMAIN a : a[k] = q[i]
      BY <1>4, <3>1
    <3>3. q[i].dts <= q[m].dts
      BY <2>1, <2>2, <3>2
    <3> QED BY <1>0, <1>6, <2>3, <3>1, <3>3
  <2> QED BY <2>4, <2>5
<1>11. g \in Seq(Int) /\ DOMAIN g = DOMAIN v /\ \A i \in DOMAIN v : g[i] = v[i].pts + Frame[feed]
  <2>1. ASSUME NEW i \in 1..Len(v) PROVE v[i].pts + Frame[feed] \in Int
    <3>1. v[i] \in Packet
      BY <1>4
    <3> QED BY <3>1, <1>0 DEF Packet
  <2>2. DOMAIN v = 1..Len(v) /\ Len(v) \in Nat
    BY <1>4
  <2> QED BY <2>1, <2>2
<1>12. {p.pts + Frame[feed] : p \in ToSet(v)} = {g[i] : i \in DOMAIN g}
  BY <1>11 DEF ToSet
<1> HIDE DEF g
<1>13. t.video <= u.video /\ \A i \in DOMAIN g : g[i] <= u.video
  <2> DEFINE mx == Max({t.video} \cup {g[i] : i \in DOMAIN g})
  <2>1. t.video <= mx /\ \A i \in DOMAIN g : g[i] <= mx
    BY <1>1, <1>11, MaxOfSequence, Zenon
  <2>2. u.video = mx
    BY <1>5, <1>12
  <2> QED BY <2>1, <2>2
<1>14. \A i \in DOMAIN q : q[i].kind = "Video" => q[i].pts <= u.video
  <2>1. SUFFICES ASSUME NEW i \in DOMAIN q, q[i].kind = "Video" PROVE q[i].pts <= u.video
    OBVIOUS
  <2>2. PICK k \in DOMAIN v : v[k] = q[i]
    BY <1>4, <2>1
  <2>3. q[i].pts + Frame[feed] <= u.video
    BY <1>11, <1>13, <2>2
  <2> QED BY <1>0, <1>3, <1>6, <2>3
<1> QED
  BY <1>2, <1>8, <1>9, <1>10, <1>13, <1>14 DEF Covers, u

(* What an epoch puts out, packet by packet.                                *)

Moved(p, by) == [p EXCEPT !.dts = @ + by, !.pts = @ + by]
Blank(q) == \A i \in DOMAIN q : q[i].kind = "Audio" /\ q[i].drain

\* A shift leaves a packet what it is.
LEMMA MovedIs ==
  ASSUME NEW p \in Packet, NEW by \in Int
  PROVE  LET r == Moved(p, by) IN
         /\ r \in Packet /\ r.dts = p.dts + by /\ r.pts = p.pts + by
         /\ r.kind = p.kind /\ r.drain = p.drain
<1> DEFINE r == Moved(p, by)
<1>1. r = [p EXCEPT !.dts = @ + by, !.pts = @ + by]
  BY DEF Moved
<1> HIDE DEF r
<1>2. /\ p.kind \in {"Video", "Audio"} /\ p.key \in BOOLEAN /\ p.dts \in Int
      /\ p.pts \in Int /\ p.drain \in BOOLEAN /\ (p.kind = "Audio" => p.pts = p.dts)
      /\ p = [kind |-> p.kind, key |-> p.key, dts |-> p.dts, pts |-> p.pts, drain |-> p.drain]
  BY DEF Packet
<1>3. r = [kind |-> p.kind, key |-> p.key, dts |-> p.dts + by, pts |-> p.pts + by,
           drain |-> p.drain]
  BY <1>1, <1>2
<1> QED
  BY <1>2, <1>3 DEF Packet, r

\* What is kept from the cutoff on, and what comes first.
LEMMA CutKeeps ==
  ASSUME NEW q \in Seq(Packet), NEW cut
  PROVE  LET x == FromCut(q, cut) IN
         /\ x \in Seq(Packet)
         /\ \A k \in DOMAIN x : \E i \in DOMAIN q : q[i].dts >= cut /\ x[k] = q[i]
         /\ \A i \in DOMAIN q : q[i].dts >= cut => \E k \in DOMAIN x : x[k] = q[i]
         /\ q # <<>> /\ q[1].dts >= cut => x # <<>> /\ x[1] = q[1]
<1> DEFINE at == {i \in DOMAIN q : q[i].dts >= cut}
           x == At(q, at)
<1>1. FromCut(q, cut) = x /\ \A i \in DOMAIN q : i \in at <=> q[i].dts >= cut
  BY DEF FromCut
<1> HIDE DEF at
<1>2. /\ x \in Seq(Packet)
      /\ \A k \in DOMAIN x : \E i \in DOMAIN q : i \in at /\ x[k] = q[i]
      /\ \A i \in DOMAIN q : i \in at => \E k \in DOMAIN x : x[k] = q[i]
  BY AtPicks
<1>3. \A i \in DOMAIN q : i \in at /\ (\A j \in DOMAIN q : j < i => j \notin at) =>
        x # <<>> /\ x[1] = q[i]
  BY AtFirst
<1> HIDE DEF x
<1>4. q # <<>> => 1 \in DOMAIN q /\ \A j \in DOMAIN q : ~(j < 1)
  BY LastIs
<1> QED
  BY <1>1, <1>2, <1>3, <1>4

\* The output holds the bridge and the epoch's packets, shifted; only the
\* bridge precedes a packet that starts the epoch.
OutputOf(o, bridge, packets, cut, by) ==
  /\ o \in Seq(Packet) /\ InSequence(o)
  /\ \A k \in DOMAIN o :
       \/ \E j \in DOMAIN bridge : o[k] = bridge[j]
       \/ \E i \in DOMAIN packets : packets[i].dts >= cut /\ o[k] = Moved(packets[i], by)
  /\ \A i \in DOMAIN packets : packets[i].dts >= cut =>
       \E k \in DOMAIN o : o[k] = Moved(packets[i], by)
  /\ packets # <<>> /\ packets[1].dts = cut =>
       \E k \in DOMAIN o : /\ o[k] = Moved(packets[1], by)
                           /\ \A m \in DOMAIN o : m < k =>
                                \E j \in DOMAIN bridge : o[m] = bridge[j]

\* What Output gives comes from bridge and packets, the cut's packet right behind the bridge.
LEMMA OutputHas ==
  ASSUME NEW c, c.offset \in Int, NEW bridge \in Seq(Packet), NEW packets \in Seq(Packet)
  PROVE  OutputOf(Output(c, bridge, packets), bridge, packets, c.cutoff, c.offset)
<1> DEFINE kept == FromCut(packets, c.cutoff)
           s == Shifted(c, kept)
           r == bridge \o s
           o == InOrder(r)
<1>1. /\ kept \in Seq(Packet)
      /\ \A k \in DOMAIN kept : \E i \in DOMAIN packets :
           packets[i].dts >= c.cutoff /\ kept[k] = packets[i]
      /\ \A i \in DOMAIN packets : packets[i].dts >= c.cutoff =>
           \E k \in DOMAIN kept : kept[k] = packets[i]
      /\ packets # <<>> /\ packets[1].dts >= c.cutoff => kept # <<>> /\ kept[1] = packets[1]
  <2>1. PICK cut : cut = c.cutoff
    OBVIOUS
  <2>2. PICK x : x = FromCut(packets, cut)
    OBVIOUS
  <2>3. /\ x \in Seq(Packet)
        /\ \A k \in DOMAIN x : \E i \in DOMAIN packets :
             packets[i].dts >= cut /\ x[k] = packets[i]
        /\ \A i \in DOMAIN packets : packets[i].dts >= cut =>
             \E k \in DOMAIN x : x[k] = packets[i]
        /\ packets # <<>> /\ packets[1].dts >= cut => x # <<>> /\ x[1] = packets[1]
    BY <2>2, CutKeeps
  <2> QED BY <2>1, <2>2, <2>3
<1>3. Output(c, bridge, packets) = o
  BY DEF Output
<1> HIDE DEF kept
<1>4. s \in Seq(Packet) /\ DOMAIN s = DOMAIN kept
  BY <1>1, ShiftedIs
<1>5. \A k \in DOMAIN kept : s[k] = Moved(kept[k], c.offset)
  BY DEF Shifted, Moved
<1> HIDE DEF s
<1>6. /\ r \in Seq(Packet) /\ Len(bridge) \in Nat /\ DOMAIN bridge = 1..Len(bridge)
      /\ DOMAIN s = 1..Len(s) /\ Len(s) \in Nat /\ DOMAIN r = 1..(Len(bridge) + Len(s))
      /\ \A i \in DOMAIN r : r[i] = IF i \in DOMAIN bridge THEN bridge[i] ELSE s[i - Len(bridge)]
  BY <1>4
<1> HIDE DEF r
<1>a. DOMAIN s = DOMAIN kept
  BY <1>4
<1>7. \A i \in DOMAIN r : \/ i \in DOMAIN bridge /\ r[i] = bridge[i]
                          \/ i - Len(bridge) \in DOMAIN s /\ r[i] = s[i - Len(bridge)]
  BY <1>6
<1>8. \A k \in DOMAIN s : k + Len(bridge) \in DOMAIN r /\ r[k + Len(bridge)] = s[k]
  <2>1. SUFFICES ASSUME NEW k \in DOMAIN s
                 PROVE  k + Len(bridge) \in DOMAIN r /\ r[k + Len(bridge)] = s[k]
    OBVIOUS
  <2>2. /\ k + Len(bridge) \in 1..(Len(bridge) + Len(s)) /\ k + Len(bridge) \notin 1..Len(bridge)
        /\ (k + Len(bridge)) - Len(bridge) = k
    BY <1>6, <2>1
  <2> QED BY <1>6, <2>2
<1>9. /\ o \in Seq(Packet) /\ DOMAIN o = DOMAIN r /\ InSequence(o)
      /\ \A k \in DOMAIN o : \E i \in DOMAIN r : o[k] = r[i]
  <2>1. o = InOrder(r)
    OBVIOUS
  <2> HIDE DEF o
  <2> QED BY <1>6, <2>1, InOrderSorts, ZenonT(60)
<1>10. /\ \A i \in DOMAIN r : \E k \in DOMAIN o : o[k] = r[i]
       /\ \A i \in DOMAIN r : (\A j \in DOMAIN r : i < j => r[i].dts <= r[j].dts) =>
            \E k \in DOMAIN o : /\ o[k] = r[i]
                                /\ \A m \in DOMAIN o : m < k =>
                                     \E j \in DOMAIN r : j < i /\ o[m] = r[j]
  <2>1. o = InOrder(r)
    OBVIOUS
  <2> HIDE DEF o
  <2>2. r \in Seq(Packet)
    BY <1>6
  <2>3. /\ \A i \in DOMAIN r : \E k \in DOMAIN InOrder(r) : InOrder(r)[k] = r[i]
        /\ \A i \in DOMAIN r : (\A j \in DOMAIN r : i < j => r[i].dts <= r[j].dts) =>
              \E k \in DOMAIN InOrder(r) : /\ InOrder(r)[k] = r[i]
                                /\ \A m \in DOMAIN InOrder(r) : m < k =>
                                     \E j \in DOMAIN r : j < i /\ InOrder(r)[m] = r[j]
    BY <2>2, InOrderKeeps, ZenonT(60)
  <2> QED BY <2>1, <2>3
<1> HIDE DEF o
<1>11. \A i \in DOMAIN packets : packets[i] \in Packet /\ packets[i].dts \in Int
  <2>1. \A i \in DOMAIN packets : packets[i] \in Packet
    OBVIOUS
  <2> QED BY <2>1 DEF Packet
<1>12. ASSUME NEW k \in DOMAIN o
       PROVE  \/ \E j \in DOMAIN bridge : o[k] = bridge[j]
              \/ \E i \in DOMAIN packets :
                   packets[i].dts >= c.cutoff /\ o[k] = Moved(packets[i], c.offset)
  <2>1. PICK i \in DOMAIN r : o[k] = r[i]
    BY <1>9
  <2>2. CASE i \in DOMAIN bridge /\ r[i] = bridge[i]
    BY <2>1, <2>2
  <2>3. CASE i - Len(bridge) \in DOMAIN s /\ r[i] = s[i - Len(bridge)]
    <3>1. PICK m \in DOMAIN kept : r[i] = s[m] /\ s[m] = Moved(kept[m], c.offset)
      BY <1>4, <1>5, <2>3
    <3>2. PICK n \in DOMAIN packets : packets[n].dts >= c.cutoff /\ kept[m] = packets[n]
      BY <1>1, <3>1
    <3> QED BY <2>1, <3>1, <3>2
  <2> QED BY <1>7, <2>2, <2>3
<1>13. ASSUME NEW i \in DOMAIN packets, packets[i].dts >= c.cutoff
       PROVE  \E k \in DOMAIN o : o[k] = Moved(packets[i], c.offset)
  <2>1. PICK m \in DOMAIN kept : kept[m] = packets[i]
    BY <1>1, <1>13
  <2>2. s[m] = Moved(packets[i], c.offset) /\ m \in DOMAIN s
    BY <1>4, <1>5, <2>1
  <2>3. PICK k \in DOMAIN o : o[k] = r[m + Len(bridge)]
    BY <1>8, <1>10, <2>2
  <2> QED BY <1>8, <2>2, <2>3
<1>14. ASSUME packets # <<>>, packets[1].dts = c.cutoff
       PROVE  \E k \in DOMAIN o : /\ o[k] = Moved(packets[1], c.offset)
                                  /\ \A m \in DOMAIN o : m < k =>
                                       \E j \in DOMAIN bridge : o[m] = bridge[j]
  <2>1. 1 \in DOMAIN packets /\ \A j \in DOMAIN packets : ~(j < 1)
    BY <1>14, LastIs
  <2>2. packets[1].dts >= c.cutoff
    BY <1>11, <1>14, <2>1
  <2>3. kept # <<>> /\ kept[1] = packets[1]
    BY <1>1, <1>14, <2>2
  <2>4. 1 \in DOMAIN kept /\ 1 \in DOMAIN s
    BY <1>1, <1>4, <2>3, LastIs
  <2> DEFINE f == 1 + Len(bridge)
  <2>5. f \in DOMAIN r /\ r[f] = s[1] /\ s[1] = Moved(packets[1], c.offset)
    BY <1>5, <1>8, <2>3, <2>4
  <2>6. r[f].dts = c.cutoff + c.offset /\ c.cutoff \in Int
    BY <1>11, <1>14, <2>1, <2>5, MovedIs
  <2>7. \A k \in DOMAIN s : c.cutoff + c.offset <= s[k].dts
    <3>1. SUFFICES ASSUME NEW k \in DOMAIN s PROVE c.cutoff + c.offset <= s[k].dts
      OBVIOUS
    <3>2. PICK n \in DOMAIN packets : packets[n].dts >= c.cutoff /\ kept[k] = packets[n]
      BY <1>1, <1>4, <3>1
    <3>3. s[k] = Moved(packets[n], c.offset) /\ packets[n] \in Packet
      BY <1>a, <1>5, <1>11, <3>1, <3>2
    <3>4. s[k].dts = packets[n].dts + c.offset
      BY <3>3, MovedIs
    <3> QED BY <1>11, <2>6, <3>2, <3>4
  <2>8. \A j \in DOMAIN r : f < j => r[f].dts <= r[j].dts
    <3>1. SUFFICES ASSUME NEW j \in DOMAIN r, f < j PROVE r[f].dts <= r[j].dts
      OBVIOUS
    <3>2. j - Len(bridge) \in DOMAIN s /\ r[j] = s[j - Len(bridge)]
      BY <1>6, <1>7, <3>1
    <3> QED BY <2>6, <2>7, <3>2
  <2>9. PICK k \in DOMAIN o : /\ o[k] = r[f]
                              /\ \A m \in DOMAIN o : m < k => \E j \in DOMAIN r : j < f /\ o[m] = r[j]
    BY <1>10, <2>5, <2>8
  <2>10. \A j \in DOMAIN r : j < f => j \in DOMAIN bridge /\ r[j] = bridge[j]
    BY <1>6
  <2> HIDE DEF f
  <2>11. \A m \in DOMAIN o : m < k => \E j \in DOMAIN bridge : o[m] = bridge[j]
    BY <2>9, <2>10
  <2> QED BY <2>5, <2>9, <2>11
<1>15. /\ o \in Seq(Packet) /\ InSequence(o)
       /\ \A k \in DOMAIN o :
              \/ \E j \in DOMAIN bridge : o[k] = bridge[j]
              \/ \E i \in DOMAIN packets :
                   packets[i].dts >= c.cutoff /\ o[k] = Moved(packets[i], c.offset)
       /\ \A i \in DOMAIN packets : packets[i].dts >= c.cutoff =>
              \E k \in DOMAIN o : o[k] = Moved(packets[i], c.offset)
       /\ packets # <<>> /\ packets[1].dts = c.cutoff =>
              \E k \in DOMAIN o : /\ o[k] = Moved(packets[1], c.offset)
                                  /\ \A m \in DOMAIN o : m < k =>
                                       \E j \in DOMAIN bridge : o[m] = bridge[j]
  BY <1>9, <1>12, <1>13, <1>14
<1>16. OutputOf(o, bridge, packets, c.cutoff, c.offset)
  BY <1>15 DEF OutputOf
<1> QED
  BY <1>3, <1>16

\* A bridge is silence.
LEMMA BridgeIsBlank ==
  ASSUME NEW t, NEW end
  PROVE  Blank(Bridge(t, end))
<1> DEFINE n == IF end - t < Duration THEN 0 ELSE (end - t - Duration) \div Ceil(Duration) + 1
<1>1. Bridge(t, end) = [i \in 1..n |-> Silence(t + (i - 1) * Ceil(Duration))]
  BY DEF Bridge
<1> HIDE DEF n
<1> QED
  BY <1>1 DEF Blank, Silence

\* The next instant is behind the sound and the pictures too.
LEMMA NextInstantAbove ==
  ASSUME NEW tail \in Tails
  PROVE  /\ NextInstant(tail) \in Int /\ tail.output <= NextInstant(tail)
         /\ tail.audio <= NextInstant(tail) /\ tail.video <= NextInstant(tail)
<1>1. PICK a \in Int, b \in Int, v \in Int :
        a = tail.output + Milli /\ b = tail.audio /\ v = tail.video + Milli
  BY TimeConstants DEF Tails
<1>2. Max({a, b, v}) \in Int /\ a <= Max({a, b, v}) /\ b <= Max({a, b, v}) /\ v <= Max({a, b, v})
  BY MaxOfThree
<1>3. PICK m \in Int : m = Max({a, b, v}) /\ a <= m /\ b <= m /\ v <= m
  BY <1>2
<1>4. NextInstant(tail) = Ceil(m)
  BY <1>1, <1>3 DEF NextInstant
<1>5. Ceil(m) \in Int /\ m <= Ceil(m)
  BY CeilAbove
<1>6. tail.output \in Int /\ tail.audio \in Int /\ tail.video \in Int
      /\ tail.output <= a /\ tail.video <= v
  BY <1>1, TimeConstants DEF Tails
<1> QED
  BY <1>1, <1>3, <1>4, <1>5, <1>6

-----------------------------------------------------------------------------
(* The inductive invariant of HoldingIsSilent.                              *)

SoundFrom(q, mark) == \A i \in DOMAIN q : IsSound(q[i]) => mark <= q[i].pts
PicturesFrom(q, mark) == \A i \in DOMAIN q : q[i].kind = "Video" => mark <= q[i].pts
HasPicture(q) == \E i \in DOMAIN q : q[i].kind = "Video"
\* Behind nothing but silence, a picture no later than the mark.
Unveils(q, mark) ==
  \E i \in DOMAIN q : /\ q[i].kind = "Video" /\ q[i].pts <= mark
                      /\ \A j \in DOMAIN q : j < i => q[j].kind = "Audio" /\ q[j].drain

\* The tails are behind the sound and the pictures that were sent.
Level(t, v) == /\ 0 <= t.audio /\ (t.audio = 0 \/ t.audio <= t.output + Duration)
               /\ v.sound <= t.audio /\ (v.unveiled <= 0 \/ v.unveiled <= t.video)
Levels(c, v) ==
  /\ Level(c.published, v) /\ Level(c.tail, v)
  /\ \A a \in DOMAIN c.outbox : /\ Covers(c.published, c.outbox[a].packets)
                                /\ Covers(c.tail, c.outbox[a].packets)
  /\ Covers(c.tail, c.scheduled) /\ NotBefore(c.scheduled, 0)
  /\ c.outbox # <<>> => 0 <= c.published.output
Begun(c) == c.selected # None => 0 <= c.tail.output
\* What an encoder gives.
Coded(p) == ~p.drain /\ (p.key => p.kind = "Video") /\ p.dts <= p.pts
Queued(c, sounds) ==
  /\ \A i \in DOMAIN c.waiting : Coded(c.waiting[i])
       /\ (c.waiting[i].kind = "Audio" => c.waiting[i].pts <= sounds["Programme"])
  /\ \A i \in DOMAIN c.boundary : Coded(c.boundary[i])
       /\ (c.boundary[i].kind = "Audio" => c.boundary[i].pts <= sounds[c.desired])
  /\ c.boundary # <<>> => c.boundary[1].kind = "Video" /\ c.boundary[1].dts = c.cutoff
  /\ c.selected = None /\ c.cutoff # None => c.boundary # <<>>

\* The outbox is of one feed.
OfFeed(c) == \A a \in DOMAIN c.outbox : c.outbox[a].feed = c.selected
\* Holding goes on behind the last programme sound.
Hushed(c, v) ==
  c.selected = "Holding" =>
    /\ \A a \in DOMAIN c.outbox : PicturesFrom(c.outbox[a].packets, v.sound)
    /\ c.error = None => c.silent /\ v.sound <= c.cutoff + c.offset
                         /\ PicturesFrom(c.scheduled, v.sound)
\* A viewer who sees holding is known to have been silenced.
Veiled(c, v) == c.error = None /\ v.feed = "Holding" => c.silent /\ 0 <= c.published.output
\* The programme's sound starts at the mark, and its picture is there by then.
Shown(c, v, mark) ==
  /\ v.feed # "Holding" => v.unveiled <= mark
  /\ \A a \in DOMAIN c.outbox :
       /\ SoundFrom(c.outbox[a].packets, mark)
       /\ v.feed = "Holding" =>
            \/ Blank(c.outbox[a].packets)
            \/ \E b \in DOMAIN c.outbox : b <= a /\ Unveils(c.outbox[b].packets, mark)
\* So it is with what was planned, and with what the feed gives next.
ToShow(c, v, sounds, mark) ==
  /\ SoundFrom(c.scheduled, mark) /\ mark <= sounds["Programme"] + c.offset
  /\ v.feed = "Holding" => \/ Unveils(c.scheduled, mark)
                           \/ \E b \in DOMAIN c.outbox : Unveils(c.outbox[b].packets, mark)
Curtain(c, v, pub, sounds, mark) ==
  c.selected = "Programme" /\ pub <= c.epoch =>
    Shown(c, v, mark) /\ (c.error = None => ToShow(c, v, sounds, mark))
Quiet(c, v, pub, sounds, mark) ==
  /\ OfFeed(c) /\ Hushed(c, v) /\ Veiled(c, v) /\ Curtain(c, v, pub, sounds, mark)
  /\ c.error = None => Levels(c, v) /\ Begun(c) /\ Queued(c, sounds)
Viewed(v) ==
  /\ {"epoch", "ticket", "sound", "unveiled", "feed"} \subseteq DOMAIN v
  /\ v.sound \in Int /\ v.unveiled \in Int /\ v.feed \in Feeds \cup {None}

\* Two coordinators of one epoch.
Alike(c, d) ==
  /\ d.error = c.error /\ d.epoch = c.epoch /\ d.desired = c.desired
  /\ d.selected = c.selected /\ d.cutoff = c.cutoff /\ d.offset = c.offset
  /\ d.boundary = c.boundary /\ d.waiting = c.waiting /\ (c.silent => d.silent)

\* Only these fields matter to the silence.
LEMMA QuietAgrees ==
  ASSUME NEW c, NEW d, Alike(c, d), d.scheduled = c.scheduled, d.outbox = c.outbox,
         d.tail = c.tail, d.published = c.published,
         NEW v, NEW pub, NEW sounds, NEW mark, Quiet(c, v, pub, sounds, mark)
  PROVE  Quiet(d, v, pub, sounds, mark)
<1>1. OfFeed(d) /\ Hushed(d, v) /\ Veiled(d, v)
  BY DEF Quiet, OfFeed, Hushed, Veiled, Alike
<1>2. Curtain(d, v, pub, sounds, mark)
  BY DEF Quiet, Curtain, Shown, ToShow, Alike
<1>3. d.error = None => Levels(d, v) /\ Begun(d) /\ Queued(d, sounds)
  BY DEF Quiet, Levels, Begun, Queued, Alike
<1> QED
  BY <1>1, <1>2, <1>3 DEF Quiet

\* A throw leaves what was sent.
LEMMA FailQuiet ==
  ASSUME NEW c, Typed(c), c.error = None, NEW what \in Errors,
         NEW v, NEW pub, NEW sounds, NEW mark, Quiet(c, v, pub, sounds, mark)
  PROVE  Quiet(Fail(c, what), v, pub, sounds, mark)
<1> DEFINE d == Fail(c, what)
<1>1. /\ d.error = what /\ d.selected = c.selected /\ d.outbox = c.outbox
      /\ d.epoch = c.epoch /\ d.silent = c.silent /\ d.published = c.published
  BY DEF Fail, Typed, Fields
<1> HIDE DEF d
<1>2. d.error # None
  BY <1>1, Constants
<1>3. OfFeed(d) /\ Hushed(d, v) /\ Veiled(d, v)
  BY <1>1, <1>2 DEF Quiet, OfFeed, Hushed, Veiled
<1>4. Curtain(d, v, pub, sounds, mark)
  BY <1>1, <1>2 DEF Quiet, Curtain, Shown
<1> QED
  BY <1>2, <1>3, <1>4 DEF Quiet, d

\* A sequence in two parts.
Parts(s, q, r) ==
  /\ DOMAIN s = 1..(Len(q) + Len(r))
  /\ \A i \in DOMAIN q : s[i] = q[i]
  /\ \A i \in DOMAIN r : s[i + Len(q)] = r[i]

\* Every packet is in one of the parts.
LEMMA PartsAre ==
  ASSUME NEW q \in Seq(Packet), NEW r \in Seq(Packet), NEW s, Parts(s, q, r)
  PROVE  /\ \A i \in DOMAIN q : i \in DOMAIN s /\ s[i] = q[i]
         /\ \A i \in DOMAIN r : /\ i + Len(q) \in DOMAIN s /\ s[i + Len(q)] = r[i]
                                /\ i \in Int /\ 1 <= i
         /\ \A i \in DOMAIN s : \/ i \in DOMAIN q /\ s[i] = q[i]
                                \/ i - Len(q) \in DOMAIN r /\ s[i] = r[i - Len(q)] /\ Len(q) < i
         /\ Len(q) \in Nat /\ DOMAIN q = 1..Len(q) /\ DOMAIN s \subseteq Int
<1>1. /\ Len(q) \in Nat /\ DOMAIN q = 1..Len(q) /\ Len(r) \in Nat /\ DOMAIN r = 1..Len(r)
      /\ DOMAIN s = 1..(Len(q) + Len(r))
  BY DEF Parts
<1>2. \A i \in DOMAIN q : i \in DOMAIN s /\ s[i] = q[i]
  BY <1>1 DEF Parts
<1>3. \A i \in DOMAIN r : /\ i + Len(q) \in DOMAIN s /\ s[i + Len(q)] = r[i] /\ i \in Int /\ 1 <= i
  BY <1>1 DEF Parts
<1>4. ASSUME NEW i \in DOMAIN s, i \notin DOMAIN q
      PROVE  i - Len(q) \in DOMAIN r /\ s[i] = r[i - Len(q)] /\ Len(q) < i
  <2>1. i - Len(q) \in DOMAIN r /\ (i - Len(q)) + Len(q) = i /\ Len(q) < i
    BY <1>1, <1>4
  <2>2. s[(i - Len(q)) + Len(q)] = r[i - Len(q)]
    BY <2>1 DEF Parts
  <2> QED BY <2>1, <2>2
<1> QED
  BY <1>1, <1>2, <1>3, <1>4

\* What holds of the packets of a sequence, of its parts, and back.
LEMMA PartsKeep ==
  ASSUME NEW q \in Seq(Packet), NEW r \in Seq(Packet), NEW s, Parts(s, q, r), NEW t, NEW mark
  PROVE  /\ SoundFrom(s, mark) <=> SoundFrom(q, mark) /\ SoundFrom(r, mark)
         /\ PicturesFrom(s, mark) <=> PicturesFrom(q, mark) /\ PicturesFrom(r, mark)
         /\ Covers(t, s) <=> Covers(t, q) /\ Covers(t, r)
         /\ NotBefore(s, mark) <=> NotBefore(q, mark) /\ NotBefore(r, mark)
<1>1. /\ \A i \in DOMAIN q : i \in DOMAIN s /\ s[i] = q[i]
      /\ \A i \in DOMAIN r : i + Len(q) \in DOMAIN s /\ s[i + Len(q)] = r[i]
      /\ \A i \in DOMAIN s : \/ i \in DOMAIN q /\ s[i] = q[i]
                             \/ i - Len(q) \in DOMAIN r /\ s[i] = r[i - Len(q)]
  BY PartsAre
<1>2. SoundFrom(s, mark) <=> SoundFrom(q, mark) /\ SoundFrom(r, mark)
  BY <1>1, ZenonT(60) DEF SoundFrom
<1>3. PicturesFrom(s, mark) <=> PicturesFrom(q, mark) /\ PicturesFrom(r, mark)
  BY <1>1, ZenonT(60) DEF PicturesFrom
<1>4. Covers(t, s) <=> Covers(t, q) /\ Covers(t, r)
  BY <1>1, ZenonT(60) DEF Covers
<1>5. NotBefore(s, mark) <=> NotBefore(q, mark) /\ NotBefore(r, mark)
  BY <1>1, ZenonT(60) DEF NotBefore
<1> QED
  BY <1>2, <1>3, <1>4, <1>5

\* The picture is in the first part, or only silence is.
LEMMA PartsUnveil ==
  ASSUME NEW q \in Seq(Packet), NEW r \in Seq(Packet), NEW s, Parts(s, q, r), NEW mark
  PROVE  /\ Unveils(s, mark) => Unveils(q, mark) \/ (Blank(q) /\ Unveils(r, mark))
         /\ Unveils(q, mark) => Unveils(s, mark)
         /\ q = <<>> /\ Unveils(r, mark) => Unveils(s, mark)
<1>1. /\ \A i \in DOMAIN q : i \in DOMAIN s /\ s[i] = q[i]
      /\ \A i \in DOMAIN r : /\ i + Len(q) \in DOMAIN s /\ s[i + Len(q)] = r[i]
                             /\ i \in Int /\ 1 <= i
      /\ \A i \in DOMAIN s : \/ i \in DOMAIN q /\ s[i] = q[i]
                             \/ i - Len(q) \in DOMAIN r /\ s[i] = r[i - Len(q)] /\ Len(q) < i
      /\ Len(q) \in Nat /\ DOMAIN q = 1..Len(q) /\ DOMAIN s \subseteq Int
  BY PartsAre
<1>2. ASSUME Unveils(s, mark) PROVE Unveils(q, mark) \/ (Blank(q) /\ Unveils(r, mark))
  <2>1. PICK i \in DOMAIN s : /\ s[i].kind = "Video" /\ s[i].pts <= mark
                      /\ \A j \in DOMAIN s : j < i => s[j].kind = "Audio" /\ s[j].drain
    BY <1>2 DEF Unveils
  <2>2. CASE i \in DOMAIN q /\ s[i] = q[i]
    <3>1. \A j \in DOMAIN q : j < i => q[j].kind = "Audio" /\ q[j].drain
      BY <1>1, <2>1
    <3> QED BY <2>1, <2>2, <3>1 DEF Unveils
  <2>3. CASE i - Len(q) \in DOMAIN r /\ s[i] = r[i - Len(q)] /\ Len(q) < i
    <3>1. \A j \in DOMAIN q : j < i
      BY <1>1, <2>3
    <3>2. Blank(q)
      BY <1>1, <2>1, <3>1 DEF Blank
    <3>3. ASSUME NEW j \in DOMAIN r, j < i - Len(q) PROVE r[j].kind = "Audio" /\ r[j].drain
      <4>1. j + Len(q) < i /\ j + Len(q) \in DOMAIN s /\ s[j + Len(q)] = r[j]
        BY <1>1, <3>3
      <4> QED BY <2>1, <4>1
    <3>4. Unveils(r, mark)
      BY <2>1, <2>3, <3>3 DEF Unveils
    <3> QED BY <3>2, <3>4
  <2> QED BY <1>1, <2>2, <2>3
<1>3. ASSUME Unveils(q, mark) PROVE Unveils(s, mark)
  <2>1. PICK i \in DOMAIN q : /\ q[i].kind = "Video" /\ q[i].pts <= mark
                      /\ \A j \in DOMAIN q : j < i => q[j].kind = "Audio" /\ q[j].drain
    BY <1>3 DEF Unveils
  <2>2. \A j \in DOMAIN s : j < i => s[j].kind = "Audio" /\ s[j].drain
    <3>1. SUFFICES ASSUME NEW j \in DOMAIN s, j < i PROVE s[j].kind = "Audio" /\ s[j].drain
      OBVIOUS
    <3>2. j \in DOMAIN q /\ s[j] = q[j]
      BY <1>1, <3>1
    <3> QED BY <2>1, <3>1, <3>2
  <2>3. i \in DOMAIN s /\ s[i] = q[i]
    BY <1>1
  <2> QED BY <2>1, <2>2, <2>3 DEF Unveils
<1>4. ASSUME q = <<>>, Unveils(r, mark) PROVE Unveils(s, mark)
  <2>1. PICK i \in DOMAIN r : /\ r[i].kind = "Video" /\ r[i].pts <= mark
                      /\ \A j \in DOMAIN r : j < i => r[j].kind = "Audio" /\ r[j].drain
    BY <1>4 DEF Unveils
  <2>2. \A j \in DOMAIN s : j \in DOMAIN r /\ s[j] = r[j]
    BY <1>1, <1>4
  <2>3. i \in DOMAIN s /\ s[i] = r[i]
    BY <1>1, <1>4
  <2> QED BY <2>1, <2>2, <2>3 DEF Unveils
<1> QED
  BY <1>2, <1>3, <1>4

\* A later tail covers it too.
LEMMA CoversOn ==
  ASSUME NEW t \in Tails, NEW u \in Tails, t.audio <= u.audio, t.video <= u.video,
         NEW q \in Seq(Packet), Covers(t, q)
  PROVE  Covers(u, q)
<1>1. /\ t.audio \in Int /\ u.audio \in Int /\ t.video \in Int /\ u.video \in Int
      /\ Duration \in Int
  BY TimeConstants DEF Tails
<1>2. \A i \in DOMAIN q : q[i].pts \in Int
  <2>1. \A i \in DOMAIN q : q[i] \in Packet
    OBVIOUS
  <2> QED BY <2>1 DEF Packet
<1>3. SUFFICES ASSUME NEW i \in DOMAIN q
      PROVE  /\ q[i].kind = "Audio" => q[i].pts + Duration <= u.audio
             /\ q[i].kind = "Video" => q[i].pts <= u.video
  BY DEF Covers
<1>4. /\ q[i].kind = "Audio" => q[i].pts + Duration <= t.audio
      /\ q[i].kind = "Video" => q[i].pts <= t.video
  BY DEF Covers
<1> QED
  BY <1>1, <1>2, <1>4

\* What Dispatched does to the outbox and to what was published, and nothing else.
LEMMA PlayedIs ==
  ASSUME NEW c, Typed(c), NEW feed \in Feeds, NEW q \in Seq(Packet), q # <<>>
  PROVE  LET d == Dispatched(c, feed, q)
             n == Len(c.outbox) + 1
         IN  /\ Typed(d) /\ Alike(c, d) /\ d.scheduled = c.scheduled /\ d.tail = c.tail
             /\ d.published = TailAfter(c.published, feed, q)
             /\ d.outbox # <<>> /\ DOMAIN d.outbox = DOMAIN c.outbox \cup {n}
             /\ d.outbox[n].feed = feed /\ d.outbox[n].packets = q
             /\ d.paced_holding = c.paced_holding /\ d.paced_programme = c.paced_programme
             /\ d.drain_ticket = c.drain_ticket
             /\ \A a \in DOMAIN c.outbox : d.outbox[a] = c.outbox[a] /\ a \in Int /\ a < n
<1> DEFINE d == Dispatched(c, feed, q)
           b == [epoch |-> c.epoch, ticket |-> c.ticket + 1, feed |-> feed,
                 packets |-> q, avc |-> c.headers]
           t == TailAfter(c.published, feed, q)
           f == IF Kind(q, "Video") = <<>> THEN c.published_feed ELSE feed
<1>1. b \in Batches /\ d.outbox = Append(c.outbox, b) /\ Typed(d)
  BY SentIs
<1>2. d = [[[[[c EXCEPT !.published = t] EXCEPT !.published_feed = f]
               EXCEPT !.ticket = c.ticket + 1] EXCEPT !.outbox = Append(c.outbox, b)]
               EXCEPT !.headers = None]
  BY DEF Dispatched, Send, RecordPublication, Typed, Fields
<1>3. b.feed = feed /\ b.packets = q
  OBVIOUS
<1> HIDE DEF d, b, t, f
<1>4. /\ Alike(c, d) /\ d.scheduled = c.scheduled /\ d.tail = c.tail /\ d.published = t
      /\ d.paced_holding = c.paced_holding /\ d.paced_programme = c.paced_programme
      /\ d.drain_ticket = c.drain_ticket
  BY <1>2 DEF Typed, Fields, Alike
<1>5. c.outbox \in Seq(Batches)
  BY DEF Typed
<1>6. /\ d.outbox # <<>> /\ DOMAIN d.outbox = DOMAIN c.outbox \cup {Len(c.outbox) + 1}
      /\ d.outbox[Len(c.outbox) + 1] = b
      /\ \A a \in DOMAIN c.outbox : d.outbox[a] = c.outbox[a] /\ a < Len(c.outbox) + 1
  BY <1>1, <1>5, AppendIs
<1>7. \A a \in DOMAIN c.outbox : a \in Int
  BY <1>5
<1> QED
  BY <1>1, <1>3, <1>4, <1>6, <1>7 DEF d, t

\* The front of the schedule goes on air.
LEMMA PlayedQuiet ==
  ASSUME NEW c, Typed(c), c.error = None, Lined(c), NEW v, Viewed(v), NEW pub, NEW sounds,
         NEW mark \in Int, Quiet(c, v, pub, sounds, mark),
         NEW feed \in Feeds, c.selected = feed, NEW q \in Seq(Packet), q # <<>>,
         NEW e, Typed(e), Parts(c.scheduled, q, e.scheduled), Alike(c, e),
         e.outbox = c.outbox, e.tail = c.tail, e.published = c.published
  PROVE  Quiet(Dispatched(e, feed, q), v, pub, sounds, mark)
<1> DEFINE d == Dispatched(e, feed, q)
           n == Len(e.outbox) + 1
           u == TailAfter(c.published, feed, q)
           s == c.scheduled
           r == e.scheduled
<1>1. /\ Typed(d) /\ Alike(e, d) /\ d.scheduled = r /\ d.tail = e.tail
      /\ d.published = u
      /\ d.outbox # <<>> /\ DOMAIN d.outbox = DOMAIN c.outbox \cup {n}
      /\ d.outbox[n].feed = feed /\ d.outbox[n].packets = q
      /\ \A a \in DOMAIN c.outbox : d.outbox[a] = c.outbox[a] /\ a \in Int /\ a < n
  BY PlayedIs
<1>2. /\ Alike(c, d) /\ d.tail = c.tail /\ d.error = None /\ d.selected = feed
  BY <1>1 DEF Alike
<1>n. n \in Int
  BY DEF Typed
<1> HIDE DEF d, n, u
<1>3. r \in Seq(Packet) /\ s \in Seq(Packet) /\ Parts(s, q, r)
  BY DEF Typed
<1>4. Levels(c, v) /\ Begun(c) /\ Queued(c, sounds)
  BY DEF Quiet
<1>5. InSequence(q) /\ \A i \in DOMAIN q : 0 <= q[i].dts /\ c.published.output <= q[i].dts
  <2>1. /\ InSequence(s) /\ \A i \in DOMAIN s : c.published.output <= s[i].dts
        /\ \A i \in DOMAIN s : 0 <= s[i].dts
    BY <1>4 DEF Lined, Within, Levels, NotBefore
  <2> HIDE DEF s, r
  <2>2. \A i \in DOMAIN q : i \in DOMAIN s /\ s[i] = q[i]
    BY <1>3, PartsAre
  <2> QED BY <2>1, <2>2 DEF InSequence
<1> HIDE DEF s, r
<1>6. /\ u \in Tails /\ 0 <= u.output /\ c.published.output <= u.output
      /\ c.published.audio <= u.audio /\ c.published.video <= u.video /\ Covers(u, q)
      /\ u.audio = 0 \/ u.audio <= u.output + Duration
  <2>1. Level(c.published, v) /\ c.published \in Tails
    BY <1>4 DEF Levels, Typed
  <2> QED BY <1>5, <2>1, TailAfterCovers DEF Level, u
<1>7. /\ c.published.audio \in Int /\ c.published.video \in Int
      /\ u.audio \in Int /\ u.video \in Int /\ v.sound \in Int /\ v.unveiled \in Int
  BY <1>6 DEF Typed, Tails, Viewed
<1>8. OfFeed(d)
  <2>1. \A a \in DOMAIN c.outbox : c.outbox[a].feed = feed
    BY DEF Quiet, OfFeed
  <2> QED BY <1>1, <1>2, <2>1 DEF OfFeed
<1>9. Hushed(d, v)
  <2>1. SUFFICES ASSUME feed = "Holding" PROVE Hushed(d, v)
    BY <1>2 DEF Hushed
  <2>2. /\ \A a \in DOMAIN c.outbox : PicturesFrom(c.outbox[a].packets, v.sound)
        /\ c.silent /\ v.sound <= c.cutoff + c.offset /\ PicturesFrom(s, v.sound)
    BY <2>1 DEF Quiet, Hushed, s
  <2>3. PicturesFrom(q, v.sound) /\ PicturesFrom(r, v.sound)
    BY <1>3, <2>2, PartsKeep
  <2>4. \A a \in DOMAIN d.outbox : PicturesFrom(d.outbox[a].packets, v.sound)
    BY <1>1, <2>2, <2>3
  <2> QED BY <1>1, <1>2, <2>2, <2>3, <2>4 DEF Hushed, Alike
<1>10. Veiled(d, v)
  <2>1. v.feed = "Holding" => d.silent
    BY <1>2 DEF Quiet, Veiled, Alike
  <2> QED BY <1>1, <1>6, <2>1 DEF Veiled
<1>11. Curtain(d, v, pub, sounds, mark)
  <2>1. SUFFICES ASSUME feed = "Programme", pub <= c.epoch
                 PROVE  Shown(d, v, mark) /\ ToShow(d, v, sounds, mark)
    BY <1>2 DEF Curtain, Alike
  <2>2. Shown(c, v, mark) /\ ToShow(c, v, sounds, mark)
    BY <2>1 DEF Quiet, Curtain
  <2>3. SoundFrom(q, mark) /\ SoundFrom(r, mark)
    BY <1>3, <2>2, PartsKeep DEF ToShow, s
  <2>4. n \in DOMAIN d.outbox
    BY <1>1
  <2>5. v.feed = "Holding" =>
          \/ Unveils(q, mark)
          \/ Blank(q) /\ Unveils(r, mark)
          \/ \E b \in DOMAIN c.outbox : Unveils(c.outbox[b].packets, mark)
    BY <1>3, <2>2, PartsUnveil DEF ToShow, s
  <2>6. ASSUME NEW a \in DOMAIN d.outbox, v.feed = "Holding"
        PROVE  \/ Blank(d.outbox[a].packets)
               \/ \E b \in DOMAIN d.outbox : b <= a /\ Unveils(d.outbox[b].packets, mark)
    <3>1. CASE a \in DOMAIN c.outbox
      BY <1>1, <2>2, <2>6, <3>1 DEF Shown
    <3>2. CASE a = n
      <4>1. CASE Unveils(q, mark)
        BY <1>1, <1>n, <2>4, <3>2, <4>1
      <4>2. CASE Blank(q)
        BY <1>1, <3>2, <4>2
      <4>3. CASE \E b \in DOMAIN c.outbox : Unveils(c.outbox[b].packets, mark)
        <5>1. PICK b \in DOMAIN c.outbox : Unveils(c.outbox[b].packets, mark)
          BY <4>3
        <5>2. b \in DOMAIN d.outbox /\ b <= n /\ d.outbox[b] = c.outbox[b]
          BY <1>1, <1>n
        <5> QED BY <3>2, <5>1, <5>2
      <4> QED BY <2>5, <2>6, <4>1, <4>2, <4>3
    <3> QED BY <1>1, <3>1, <3>2
  <2>7. \A a \in DOMAIN d.outbox : SoundFrom(d.outbox[a].packets, mark)
    BY <1>1, <2>2, <2>3 DEF Shown
  <2>8. Shown(d, v, mark)
    BY <2>2, <2>6, <2>7 DEF Shown
  <2>9. v.feed = "Holding" => \/ Unveils(r, mark)
                              \/ \E b \in DOMAIN d.outbox : Unveils(d.outbox[b].packets, mark)
    BY <1>1, <2>4, <2>5
  <2>10. ToShow(d, v, sounds, mark)
    BY <1>1, <1>2, <2>2, <2>3, <2>9 DEF ToShow, Alike
  <2> QED BY <2>8, <2>10
<1>12. Levels(d, v)
  <2>1. Level(u, v)
    BY <1>4, <1>6, <1>7 DEF Levels, Level
  <2>2. Covers(d.tail, q) /\ Covers(d.tail, r) /\ NotBefore(r, 0)
    BY <1>2, <1>3, <1>4, PartsKeep DEF Levels, s
  <2>3. ASSUME NEW a \in DOMAIN c.outbox PROVE Covers(u, c.outbox[a].packets)
    <3>1. Covers(c.published, c.outbox[a].packets)
      BY <1>4 DEF Levels
    <3>2. c.outbox[a] \in Batches
      BY DEF Typed
    <3>3. c.outbox[a].packets \in Seq(Packet)
      BY <3>2 DEF Batches
    <3>4. c.published \in Tails
      BY DEF Typed
    <3> QED BY <1>6, <3>1, <3>3, <3>4, CoversOn
  <2>4. \A a \in DOMAIN d.outbox : /\ Covers(d.published, d.outbox[a].packets)
                                   /\ Covers(d.tail, d.outbox[a].packets)
    BY <1>1, <1>2, <1>4, <1>6, <2>2, <2>3 DEF Levels
  <2>5. Level(d.tail, v)
    BY <1>2, <1>4 DEF Levels
  <2> QED BY <1>1, <1>6, <2>1, <2>2, <2>4, <2>5 DEF Levels
<1>13. Begun(d) /\ Queued(d, sounds)
  BY <1>2, <1>4 DEF Begun, Queued, Alike
<1> QED
  BY <1>8, <1>9, <1>10, <1>11, <1>12, <1>13 DEF Quiet, d

\* What is left when the coordinator has failed: what was sent.
LEMMA BrokenQuiet ==
  ASSUME NEW c, NEW d, d.error # None, d.selected = c.selected, d.outbox = c.outbox,
         d.epoch = c.epoch,
         NEW v, NEW pub, NEW sounds, NEW mark, Quiet(c, v, pub, sounds, mark)
  PROVE  Quiet(d, v, pub, sounds, mark)
<1>1. OfFeed(d) /\ Hushed(d, v) /\ Veiled(d, v)
  BY DEF Quiet, OfFeed, Hushed, Veiled
<1>2. Curtain(d, v, pub, sounds, mark)
  BY DEF Quiet, Curtain, Shown
<1> QED
  BY <1>1, <1>2 DEF Quiet

HasAudio(q) == \E i \in DOMAIN q : q[i].kind = "Audio"

\* One sequence after another.
LEMMA JoinIs ==
  ASSUME NEW q \in Seq(Packet), NEW r \in Seq(Packet)
  PROVE  q \o r \in Seq(Packet) /\ Parts(q \o r, q, r)
<1>1. /\ q \o r \in Seq(Packet) /\ DOMAIN (q \o r) = 1..(Len(q) + Len(r))
      /\ DOMAIN q = 1..Len(q) /\ DOMAIN r = 1..Len(r) /\ Len(q) \in Nat /\ Len(r) \in Nat
  OBVIOUS
<1>2. \A i \in DOMAIN q : (q \o r)[i] = q[i]
  OBVIOUS
<1>3. \A i \in DOMAIN r : (q \o r)[i + Len(q)] = r[i]
  OBVIOUS
<1> QED
  BY <1>1, <1>2, <1>3 DEF Parts

\* What the feed's packets must be to be sent behind the tail.
Sendable(c, v, pub, sounds, mark, feed, o) ==
  /\ OfFeed(c) /\ Veiled(c, v) /\ Levels(c, v) /\ Queued(c, sounds)
  /\ feed = "Holding" =>
       /\ \A a \in DOMAIN c.outbox : PicturesFrom(c.outbox[a].packets, v.sound)
       /\ v.sound <= c.cutoff + c.offset
       /\ PicturesFrom(c.scheduled, v.sound) /\ PicturesFrom(o, v.sound)
       /\ c.silent \/ HasAudio(o)
  /\ feed = "Programme" /\ pub <= c.epoch =>
       /\ Shown(c, v, mark) /\ SoundFrom(c.scheduled, mark) /\ SoundFrom(o, mark)
       /\ mark <= sounds["Programme"] + c.offset
       /\ v.feed = "Holding" =>
            \/ Unveils(c.scheduled, mark)
            \/ c.scheduled = <<>> /\ Unveils(o, mark)
            \/ \E b \in DOMAIN c.outbox : Unveils(c.outbox[b].packets, mark)

\* The tail has moved over packets that are all scheduled.
LEMMA StagedQuiet ==
  ASSUME NEW c, Typed(c), c.error = None, NEW v, Viewed(v), NEW pub, NEW sounds,
         NEW mark \in Int, NEW feed \in Feeds, c.selected = feed,
         NEW o \in Seq(Packet), o # <<>>, InSequence(o),
         \A i \in DOMAIN o : 0 <= o[i].dts /\ c.tail.output <= o[i].dts,
         Sendable(c, v, pub, sounds, mark, feed, o),
         NEW s, Alike(c, s), s.outbox = c.outbox, s.published = c.published,
         s.scheduled = c.scheduled \o o, s.tail = TailAfter(c.tail, feed, o),
         feed = "Holding" /\ HasAudio(o) => s.silent
  PROVE  Quiet(s, v, pub, sounds, mark)
<1> DEFINE u == TailAfter(c.tail, feed, o)
           q == c.scheduled
           r == s.scheduled
<1>1. /\ q \in Seq(Packet) /\ Parts(r, q, o)
      /\ c.tail \in Tails /\ c.published \in Tails
  <2>1. q \in Seq(Packet) /\ c.tail \in Tails /\ c.published \in Tails
    BY DEF Typed
  <2> QED BY <2>1, JoinIs
<1>2. Level(c.published, v) /\ Level(c.tail, v) /\ Covers(c.tail, q) /\ NotBefore(q, 0)
  BY DEF Sendable, Levels
<1>3. /\ u \in Tails /\ 0 <= u.output /\ c.tail.output <= u.output
      /\ c.tail.audio <= u.audio /\ c.tail.video <= u.video /\ Covers(u, o)
      /\ u.audio = 0 \/ u.audio <= u.output + Duration
  BY <1>1, <1>2, TailAfterCovers DEF Level
<1>s. s.tail = u
  OBVIOUS
<1> HIDE DEF u, q, r
<1>4. Level(u, v)
  <2>1. /\ c.tail.audio \in Int /\ u.audio \in Int /\ c.tail.video \in Int
        /\ u.video \in Int /\ v.sound \in Int /\ v.unveiled \in Int
    BY <1>1, <1>3 DEF Tails, Viewed
  <2> QED BY <1>2, <1>3, <2>1 DEF Level
<1>5. OfFeed(s) /\ Veiled(s, v)
  BY DEF Sendable, OfFeed, Veiled, Alike
<1>6. Hushed(s, v)
  <2>1. SUFFICES ASSUME feed = "Holding" PROVE Hushed(s, v)
    BY DEF Hushed, Alike
  <2>2. PicturesFrom(r, v.sound)
    <3>1. PicturesFrom(q, v.sound) /\ PicturesFrom(o, v.sound)
      BY <2>1 DEF Sendable, q
    <3> QED BY <1>1, <3>1, PartsKeep
  <2>3. s.silent
    <3>1. CASE c.silent
      BY <3>1 DEF Alike
    <3>2. CASE HasAudio(o)
      BY <2>1, <3>2
    <3>3. c.silent \/ HasAudio(o)
      BY <2>1 DEF Sendable
    <3> QED BY <3>1, <3>2, <3>3
  <2> QED BY <2>1, <2>2, <2>3 DEF Hushed, Sendable, Alike, r
<1>7. Curtain(s, v, pub, sounds, mark)
  <2>1. SUFFICES ASSUME feed = "Programme", pub <= c.epoch
                 PROVE  Shown(s, v, mark) /\ ToShow(s, v, sounds, mark)
    BY DEF Curtain, Alike
  <2>2. SoundFrom(r, mark)
    BY <1>1, <2>1, PartsKeep DEF Sendable, q
  <2>3. v.feed = "Holding" => \/ Unveils(r, mark)
                              \/ \E b \in DOMAIN c.outbox : Unveils(c.outbox[b].packets, mark)
    BY <1>1, <2>1, PartsUnveil DEF Sendable, q
  <2>4. Shown(s, v, mark)
    BY <2>1 DEF Shown, Sendable
  <2>5. ToShow(s, v, sounds, mark)
    BY <2>1, <2>2, <2>3 DEF ToShow, Sendable, Alike, r
  <2> QED BY <2>4, <2>5
<1>8. Levels(s, v)
  <2>1. Covers(u, q) /\ Covers(u, r)
    BY <1>1, <1>2, <1>3, CoversOn, PartsKeep
  <2>2. NotBefore(r, 0)
    <3>1. NotBefore(o, 0)
      BY DEF NotBefore
    <3> QED BY <1>1, <1>2, <3>1, PartsKeep
  <2>3. ASSUME NEW a \in DOMAIN c.outbox PROVE Covers(u, c.outbox[a].packets)
    <3>1. Covers(c.tail, c.outbox[a].packets)
      BY DEF Sendable, Levels
    <3>2. c.outbox[a] \in Batches
      BY DEF Typed
    <3>3. c.outbox[a].packets \in Seq(Packet)
      BY <3>2 DEF Batches
    <3> QED BY <1>1, <1>3, <3>1, <3>3, CoversOn
  <2> QED BY <1>s, <1>2, <1>4, <2>1, <2>2, <2>3 DEF Levels, Sendable, r
<1>9. Queued(s, sounds)
  <2>1. Queued(c, sounds)
    BY DEF Sendable
  <2> QED BY <2>1 DEF Queued, Alike
<1>10. Begun(s)
  BY <1>s, <1>3 DEF Begun
<1> QED
  BY <1>5, <1>6, <1>7, <1>8, <1>9, <1>10 DEF Quiet

\* The feed's packets are sent: at once, or through the schedule.
LEMMA EmitQuiet ==
  ASSUME NEW c, Typed(c), c.error = None, NEW v, Viewed(v), NEW pub, NEW sounds,
         NEW mark \in Int, NEW feed \in Feeds, c.selected = feed,
         c.published.output <= c.tail.output,
         c.scheduled # <<>> => IF feed = "Holding" THEN c.paced_holding ELSE c.paced_programme,
         NEW bridge, NEW packets, NEW starts \in BOOLEAN,
         NEW o \in Seq(Packet), o = Output(c, bridge, packets), o # <<>>, InSequence(o),
         \A i \in DOMAIN o : 0 <= o[i].dts /\ c.tail.output <= o[i].dts,
         Sendable(c, v, pub, sounds, mark, feed, o)
  PROVE  Quiet(Emit(c, feed, bridge, packets, starts), v, pub, sounds, mark)
<1> DEFINE t == TailAfter(c.tail, feed, o)
           h == IF starts THEN feed ELSE c.headers
           sl == c.silent \/ (feed = "Holding" /\ Kind(o, "Audio") # <<>>)
           c1 == Advanced(c, feed, o, starts)
           res == feed = "Programme" /\ starts /\ c1.silent /\ c.drain_ticket # 0
           c2 == IF res THEN PaceProgramme(c1, o) ELSE c1
           later == IF feed = "Holding" THEN c2.paced_holding ELSE c2.paced_programme
           queue == c.scheduled \o o
           s == [c2 EXCEPT !.scheduled = queue]
<1>1. /\ 1 \in DOMAIN o /\ Len(o) \in DOMAIN o /\ Within(o, o[1].dts, o[Len(o)].dts)
      /\ o[1].dts \in Int /\ c.tail.output \in Int /\ c.tail \in Tails /\ c.published \in Tails
  BY LastIs DEF Typed, Tails
<1>2. Emit(c, feed, bridge, packets, starts) =
        IF later THEN Schedule(c2, o) ELSE Dispatched(c2, feed, o)
  <2>1. ~(o[1].dts < c.tail.output)
    BY <1>1
  <2> QED BY <2>1 DEF Emit
<1>3. t \in Tails /\ t.output = o[Len(o)].dts
  BY <1>1, TailAfterIs DEF Tails
<1>4. h \in Feeds \cup {None} /\ sl \in BOOLEAN /\ res \in BOOLEAN
  BY DEF Typed
<1>5. c1 = [c EXCEPT !.tail = t, !.silent = sl, !.headers = h]
  BY DEF Advanced
<1>6. c2 = IF res THEN [c1 EXCEPT !.paced_programme = TRUE, !.boundary_sent = FALSE,
                                  !.resume_age = 0, !.resume_time = o[1].dts]
           ELSE c1
  BY DEF PaceProgramme
<1> HIDE DEF t, h, sl, res, c1, c2
<1>7. /\ Typed(c2)
      /\ c2.tail = t /\ c2.error = None /\ c2.silent = sl
      /\ c2.paced_programme = (c.paced_programme \/ res)
      /\ c2.epoch = c.epoch /\ c2.desired = c.desired /\ c2.selected = c.selected
      /\ c2.cutoff = c.cutoff /\ c2.offset = c.offset /\ c2.boundary = c.boundary
      /\ c2.waiting = c.waiting /\ c2.scheduled = c.scheduled /\ c2.outbox = c.outbox
      /\ c2.published = c.published /\ c2.paced_holding = c.paced_holding
  <2>1. CASE res
    BY <1>3, <1>4, <1>5, <1>6, <2>1 DEF Typed, Fields
  <2>2. CASE ~res
    BY <1>3, <1>4, <1>5, <1>6, <2>2 DEF Typed, Fields
  <2> QED BY <2>1, <2>2
<1>8. queue \in Seq(Packet) /\ c.scheduled \in Seq(Packet)
  BY DEF Typed
<1> HIDE DEF queue
<1>9. /\ Typed(s) /\ s.tail = t /\ s.error = None /\ s.silent = sl
      /\ s.epoch = c.epoch /\ s.desired = c.desired /\ s.selected = c.selected
      /\ s.cutoff = c.cutoff /\ s.offset = c.offset /\ s.boundary = c.boundary
      /\ s.waiting = c.waiting /\ s.scheduled = queue /\ s.outbox = c.outbox
      /\ s.published = c.published
  BY <1>7, <1>8 DEF Typed, Fields
<1> HIDE DEF s
<1>10. sl = (c.silent \/ (feed = "Holding" /\ HasAudio(o)))
  BY KindIs DEF sl, HasAudio
<1>11. Quiet(s, v, pub, sounds, mark)
  <2>1. Alike(c, s)
    BY <1>9, <1>10 DEF Alike
  <2>2. feed = "Holding" /\ HasAudio(o) => s.silent
    BY <1>9, <1>10
  <2>3. s.tail = TailAfter(c.tail, feed, o) /\ s.scheduled = c.scheduled \o o
    BY <1>9 DEF t, queue
  <2> QED BY <1>9, <2>1, <2>2, <2>3, StagedQuiet
<1>12. ASSUME later PROVE Quiet(Schedule(c2, o), v, pub, sounds, mark)
  <2>1. Schedule(c2, o) = s \/ Schedule(c2, o) = Fail(c2, "GuardOverflow")
    BY <1>7 DEF Schedule, s, queue
  <2>2. Quiet(Fail(c2, "GuardOverflow"), v, pub, sounds, mark)
    <3> DEFINE d == Fail(c2, "GuardOverflow")
    <3>1. /\ d.error = "GuardOverflow" /\ d.selected = c2.selected /\ d.outbox = c2.outbox
          /\ d.epoch = c2.epoch
      BY <1>7 DEF Fail, Typed, Fields
    <3> HIDE DEF d
    <3>2. d.error # None
      BY <3>1, Constants DEF Errors
    <3>3. Quiet(d, v, pub, sounds, mark)
      BY <1>7, <1>9, <1>11, <3>1, <3>2, BrokenQuiet
    <3> QED BY <3>3 DEF d
  <2> QED BY <1>11, <2>1, <2>2
<1>13. ASSUME ~later PROVE Quiet(Dispatched(c2, feed, o), v, pub, sounds, mark)
  <2>1. c2.scheduled = <<>> /\ queue = o
    <3>1. CASE feed = "Holding"
      <4>1. ~c.paced_holding
        BY <1>7, <1>13, <3>1
      <4> QED BY <1>7, <1>8, <3>1, <4>1 DEF queue
    <3>2. CASE feed # "Holding"
      <4>1. ~(c.paced_programme \/ res)
        BY <1>7, <1>13, <3>2, Zenon
      <4> QED BY <1>7, <1>8, <3>2, <4>1 DEF queue
    <3> QED BY <3>1, <3>2
  <2>2. Parts(s.scheduled, o, c2.scheduled)
    <3>1. Len(o) \in Nat /\ DOMAIN o = 1..Len(o)
      OBVIOUS
    <3>2. Parts(o, o, <<>>)
      BY <3>1 DEF Parts
    <3> QED BY <1>9, <2>1, <3>2
  <2>3. Lined(s)
    <3>1. /\ c.published.output \in Int /\ c.tail.output \in Int /\ o[Len(o)].dts \in Int
          /\ \A i \in DOMAIN o : o[i].dts \in Int /\ c.tail.output <= o[i].dts
                                /\ o[i].dts <= o[Len(o)].dts
      BY <1>1, LastIs DEF Within, Tails
    <3>2. Within(o, c.published.output, o[Len(o)].dts)
      BY <3>1 DEF Within
    <3>3. c.published.output <= o[Len(o)].dts
      BY <1>1, <3>1
    <3> QED BY <1>3, <1>9, <2>1, <3>2, <3>3 DEF Lined
  <2>4. Alike(s, c2)
    BY <1>7, <1>9 DEF Alike
  <2> QED BY <1>7, <1>9, <1>11, <2>2, <2>3, <2>4, PlayedQuiet
<1> QED
  BY <1>2, <1>12, <1>13

\* The coordinator before the viewer has seen anything.
Opening(c) ==
  /\ c.desired = "Programme" /\ ~c.paced_holding /\ ~c.paced_programme /\ c.drain_ticket = 0
  /\ \A a \in DOMAIN c.outbox : HasPicture(c.outbox[a].packets)
  /\ c.error = None /\ c.outbox = <<>> => c.selected = None

\* The first batch shows a picture.
LEMMA EmitOpens ==
  ASSUME NEW c, Typed(c), c.error = None, c.outbox = <<>>, c.desired = "Programme",
         ~c.paced_holding, ~c.paced_programme, c.drain_ticket = 0,
         NEW bridge, NEW packets,
         NEW o \in Seq(Packet), o = Output(c, bridge, packets), o # <<>>, HasPicture(o)
  PROVE  LET d == Emit(c, "Programme", bridge, packets, TRUE)
         IN  Opening(d) /\ d.epoch = c.epoch
<1> DEFINE t == TailAfter(c.tail, "Programme", o)
           c1 == Advanced(c, "Programme", o, TRUE)
           d == Emit(c, "Programme", bridge, packets, TRUE)
<1>1. t \in Tails
  BY TailAfterIs DEF Typed, Tails
<1>2. c1 = [c EXCEPT !.tail = t, !.silent = @ \/ ("Programme" = "Holding" /\ Kind(o, "Audio") # <<>>),
                     !.headers = "Programme"]
  BY DEF Advanced
<1> HIDE DEF t
<1>3. /\ Typed(c1) /\ c1.error = None /\ c1.outbox = <<>> /\ c1.desired = "Programme"
      /\ ~c1.paced_holding /\ ~c1.paced_programme /\ c1.drain_ticket = 0
      /\ c1.epoch = c.epoch
  <2>1. Fields \subseteq DOMAIN c1 /\ c1.tail = t /\ c1.headers = "Programme"
    BY <1>2 DEF Typed, Fields
  <2>2. c1.silent = (c.silent \/ ("Programme" = "Holding" /\ Kind(o, "Audio") # <<>>))
    BY <1>2 DEF Typed, Fields
  <2>3. /\ c1.epoch = c.epoch /\ c1.ticket = c.ticket /\ c1.desired = c.desired
        /\ c1.selected = c.selected /\ c1.published_feed = c.published_feed
        /\ c1.cutoff = c.cutoff /\ c1.offset = c.offset /\ c1.boundary = c.boundary
        /\ c1.waiting = c.waiting /\ c1.scheduled = c.scheduled /\ c1.outbox = c.outbox
        /\ c1.published = c.published /\ c1.drain_required = c.drain_required
        /\ c1.error = c.error /\ c1.drain_ticket = c.drain_ticket
        /\ c1.paced_holding = c.paced_holding /\ c1.paced_programme = c.paced_programme
    <3>1. {"epoch", "ticket", "desired", "selected", "published_feed", "cutoff", "offset",
           "boundary", "waiting", "scheduled", "outbox", "published", "drain_required", "error",
           "drain_ticket", "paced_holding", "paced_programme"} \subseteq DOMAIN c
      BY DEF Typed, Fields
    <3> QED BY <1>2, <3>1
  <2> HIDE DEF c1
  <2>4. c1.silent \in BOOLEAN
    BY <2>2
  <2>5. Typed(c1)
    BY <1>1, <2>1, <2>3, <2>4 DEF Typed, Feeds
  <2> QED BY <2>3, <2>5
<1>4. d = IF o[1].dts < c.tail.output THEN Fail(c, "DtsRegression")
          ELSE Dispatched(c1, "Programme", o)
  BY <1>3 DEF Emit
<1> HIDE DEF c1, d
<1>5. CASE d = Fail(c, "DtsRegression")
  <2>1. /\ d.error = "DtsRegression" /\ d.outbox = <<>> /\ d.desired = c.desired
        /\ d.paced_holding = c.paced_holding /\ d.paced_programme = c.paced_programme
        /\ d.drain_ticket = 0 /\ d.epoch = c.epoch
    BY <1>5 DEF Fail, Typed, Fields
  <2>2. d.error # None
    BY <2>1, Constants DEF Errors
  <2>3. ~c.paced_holding /\ ~c.paced_programme
    OBVIOUS
  <2>4. Opening(d) /\ d.epoch = c.epoch
    BY <2>1, <2>2, <2>3 DEF Opening
  <2> QED BY <2>4 DEF d
<1>6. CASE d = Dispatched(c1, "Programme", o)
  <2> DEFINE e == Dispatched(c1, "Programme", o)
  <2>1. /\ Alike(c1, e) /\ e.outbox # <<>>
        /\ DOMAIN e.outbox = DOMAIN c1.outbox \cup {Len(c1.outbox) + 1}
        /\ e.outbox[Len(c1.outbox) + 1].packets = o
        /\ e.paced_holding = c1.paced_holding /\ e.paced_programme = c1.paced_programme
        /\ e.drain_ticket = c1.drain_ticket
    <3>1. PICK f \in Feeds : f = "Programme"
      BY Constants
    <3>2. PICK c3 : c3 = c1
      OBVIOUS
    <3>3. Typed(c3)
      BY <1>3, <3>2
    <3> HIDE DEF e
    <3>4. e = Dispatched(c3, f, o)
      BY <3>1, <3>2 DEF e
    <3> QED BY <3>2, <3>3, <3>4, PlayedIs
  <2>a. d = e
    BY <1>6
  <2> HIDE DEF e
  <2>2. \A a \in DOMAIN d.outbox : HasPicture(d.outbox[a].packets)
    BY <1>3, <2>1, <2>a
  <2> QED BY <1>3, <2>1, <2>2, <2>a DEF Opening, Alike, d
<1> QED
  BY <1>4, <1>5, <1>6

\* The silent frame: what it leaves on the way to the viewer.
LEMMA DrainQuiet ==
  ASSUME NEW c, Typed(c), c.outbox = <<>>, c.published.output <= c.tail.output,
         NEW v, Viewed(v), Level(c.tail, v), Level(c.published, v)
  PROVE  LET d == Drain(c) IN
         /\ Typed(d) /\ d.silent /\ Level(d.tail, v) /\ Level(d.published, v)
         /\ 0 <= d.tail.output /\ d.published.output = d.tail.output
         /\ d.tail.output <= d.tail.audio
         /\ \A a \in DOMAIN d.outbox :
              /\ d.outbox[a].feed = "Holding" /\ PicturesFrom(d.outbox[a].packets, v.sound)
              /\ Covers(d.tail, d.outbox[a].packets) /\ Covers(d.published, d.outbox[a].packets)
         /\ d.epoch = c.epoch /\ d.desired = c.desired /\ d.selected = c.selected
         /\ d.cutoff = c.cutoff /\ d.offset = c.offset /\ d.boundary = c.boundary
         /\ d.waiting = c.waiting /\ d.scheduled = c.scheduled /\ d.error = c.error
         /\ d.paced_holding = c.paced_holding /\ d.paced_programme = c.paced_programme
<1> DEFINE m == Max({c.tail.output + Milli, c.tail.audio})
           t == Ceil(m)
           b == [epoch |-> c.epoch, ticket |-> c.ticket + 1, feed |-> "Holding",
                 packets |-> <<Silence(t)>>, avc |-> c.published_feed]
           c1 == Send(c, "Holding", <<Silence(t)>>, c.published_feed)
           d == Drain(c)
<1>1. /\ c.tail \in Tails /\ c.tail.output \in Int /\ c.tail.audio \in Int /\ c.tail.video \in Int
      /\ c.published \in Tails /\ c.published.output \in Int /\ c.published.audio \in Int
      /\ c.published.video \in Int
      /\ Milli \in Int /\ Duration \in Int /\ Duration >= 0
  <2>1. Milli \in Int /\ Duration \in Int /\ Duration >= 0
    BY TimeConstants
  <2> QED BY <2>1 DEF Typed, Tails
<1>v. v.sound \in Int /\ v.unveiled \in Int
  BY DEF Viewed
<1>2. t \in Int /\ c.tail.audio <= t
  <2>1. m \in Int /\ c.tail.audio <= m
    <3>1. PICK x \in Int : x = c.tail.output + Milli
      BY <1>1
    <3> QED BY <1>1, <3>1, MaxOfTwo
  <2> HIDE DEF m
  <2>2. t \in Int /\ m <= t
    <3>1. m \in Int
      BY <2>1
    <3> QED BY <3>1, CeilAbove, Zenon
  <2> HIDE DEF t
  <2> QED BY <1>1, <2>1, <2>2
<1> DEFINE tail == Silenced(c1.tail, t)
           published == Silenced(c1.published, t)
<1>d. d = [c1 EXCEPT !.drain_required = FALSE, !.drain_ticket = c1.ticket,
                     !.drain_time = c.tail.output, !.silent = TRUE,
                     !.tail = tail, !.published = published]
  BY DEF Drain
<1> HIDE DEF m, t, d
<1>4. c1 = [c EXCEPT !.ticket = c.ticket + 1, !.outbox = Append(c.outbox, b)]
  BY DEF Send
<1>5. Append(c.outbox, b) = <<b>>
  OBVIOUS
<1>6. b.feed = "Holding" /\ b.packets = <<Silence(t)>>
  OBVIOUS
<1> HIDE DEF b, c1
<1>7. /\ Fields \subseteq DOMAIN c1 /\ c1.tail = c.tail /\ c1.published = c.published
      /\ c1.outbox = <<b>>
  BY <1>4, <1>5 DEF Typed, Fields
<1>8. /\ tail = [output |-> t, audio |-> t + Duration, video |-> c.tail.video]
      /\ published = [output |-> t, audio |-> t + Duration, video |-> c.published.video]
  BY <1>7 DEF Silenced
<1> HIDE DEF tail, published
<1>9. d.silent /\ d.tail = tail /\ d.published = published /\ d.outbox = <<b>>
  BY <1>d, <1>7 DEF Fields
<1>10. /\ Level(c.tail, v) /\ Level(c.published, v) /\ 0 <= t
       /\ v.sound <= t + Duration /\ t <= t + Duration
  <2>1. Level(c.tail, v) /\ 0 <= c.tail.audio /\ v.sound <= c.tail.audio
    BY DEF Level
  <2> QED BY <1>1, <1>v, <1>2, <2>1
<1>11. Level(d.tail, v) /\ Level(d.published, v)
  <2>1. /\ d.tail.output = t /\ d.tail.audio = t + Duration /\ d.tail.video = c.tail.video
        /\ d.published.output = t /\ d.published.audio = t + Duration
        /\ d.published.video = c.published.video
    BY <1>8, <1>9
  <2>2. 0 <= t + Duration
    BY <1>1, <1>2, <1>10
  <2>3. t + Duration <= t + Duration
    BY <1>1, <1>2
  <2> QED BY <1>10, <2>1, <2>2, <2>3 DEF Level
<1>12. \A a \in DOMAIN d.outbox :
          /\ d.outbox[a].feed = "Holding" /\ PicturesFrom(d.outbox[a].packets, v.sound)
          /\ Covers(d.tail, d.outbox[a].packets) /\ Covers(d.published, d.outbox[a].packets)
  <2>1. DOMAIN d.outbox = {1} /\ d.outbox[1] = b
    BY <1>9
  <2> DEFINE q == <<Silence(t)>>
  <2>2. DOMAIN q = {1} /\ q[1].kind = "Audio" /\ q[1].pts = t /\ "Audio" # "Video"
    BY DEF Silence
  <2> HIDE DEF q
  <2>3. d.tail.audio = t + Duration /\ d.published.audio = t + Duration
    BY <1>8, <1>9
  <2>4. PicturesFrom(q, v.sound) /\ Covers(d.tail, q) /\ Covers(d.published, q)
    BY <1>1, <1>v, <1>2, <2>2, <2>3 DEF PicturesFrom, Covers
  <2> QED BY <1>6, <2>1, <2>4 DEF q
<1>13. 0 <= d.tail.output
  BY <1>8, <1>9, <1>10
<1>14. Posted(c, c.published.output) /\ Opened(c, 0, 0)
  BY <1>1 DEF Posted, Opened
<1>15. /\ Typed(d) /\ d.published.output = d.tail.output /\ d.tail.output <= d.tail.audio
       /\ d.epoch = c.epoch /\ d.desired = c.desired /\ d.selected = c.selected
       /\ d.cutoff = c.cutoff /\ d.offset = c.offset /\ d.boundary = c.boundary
       /\ d.waiting = c.waiting /\ d.scheduled = c.scheduled /\ d.error = c.error
       /\ d.paced_holding = c.paced_holding /\ d.paced_programme = c.paced_programme
  BY <1>1, <1>14, DrainIs DEF d
<1> QED
  BY <1>9, <1>11, <1>12, <1>13, <1>15 DEF d

\* What is joined starts with the boundary's picture.
LEMMA JoinableStarts ==
  ASSUME NEW q \in Seq(Packet), q # <<>>, q[1].kind = "Video", NEW resumes \in BOOLEAN
  PROVE  LET r == Joinable(q, resumes) IN
         /\ r # <<>> /\ r[1] = q[1]
         /\ resumes => \A k \in DOMAIN r : r[k].kind = "Audio" => q[1].pts <= r[k].pts
<1>1. CASE ~resumes
  BY <1>1 DEF Joinable
<1>2. CASE resumes
  <2> DEFINE at == {i \in DOMAIN q : q[i].kind = "Video" \/ q[i].pts >= q[1].pts}
             x == At(q, at)
  <2>1. Joinable(q, resumes) = x
    BY <1>2 DEF Joinable
  <2>2. 1 \in DOMAIN q /\ 1 \in at /\ \A j \in DOMAIN q : ~(j < 1)
    OBVIOUS
  <2>3. \A i \in DOMAIN q : q[i].pts \in Int
    <3>1. \A i \in DOMAIN q : q[i] \in Packet
      OBVIOUS
    <3> QED BY <3>1 DEF Packet
  <2>4. \A i \in at : q[i].kind = "Audio" => q[1].pts <= q[i].pts
    BY <2>2, <2>3
  <2> HIDE DEF at
  <2>5. \A k \in DOMAIN x : \E i \in DOMAIN q : i \in at /\ x[k] = q[i]
    BY AtPicks
  <2>6. x # <<>> /\ x[1] = q[1]
    BY <2>2, AtFirst
  <2> HIDE DEF x
  <2> QED BY <2>1, <2>4, <2>5, <2>6
<1> QED
  BY <1>1, <1>2

\* Nothing on the way, and no feed selected.
LEMMA IdleQuiet ==
  ASSUME NEW c, c.error # None, c.outbox = <<>>, c.selected = None,
         NEW v, NEW pub, NEW sounds, NEW mark
  PROVE  Quiet(c, v, pub, sounds, mark)
  BY Constants DEF Quiet, OfFeed, Hushed, Veiled, Curtain

\* The feed that is selected goes behind what the viewer has heard and seen.
LEMMA SelectQuiet ==
  ASSUME NEW c, Typed(c), c.error = None, c.selected = None, c.outbox = <<>>,
         c.cutoff \in Int, NEW feed \in Feeds, c.desired = feed,
         NEW v, Viewed(v), NEW pub, NEW sounds, sounds[feed] \in Int,
         c.published.output <= c.tail.output, Paced(c), Veiled(c, v), Levels(c, v),
         Queued(c, sounds),
         NEW i \in DOMAIN c.boundary, c.boundary[i].kind = "Audio",
         feed = "Programme" /\ c.tail.output >= 0 =>
           c.boundary[i].pts >= c.boundary[1].pts
  PROVE  LET d == Select(c, feed) IN
         /\ \E mark \in Int : Quiet(d, v, pub, sounds, mark)
         /\ feed = "Programme" /\ ~c.paced_holding /\ ~c.paced_programme /\ c.drain_ticket = 0 =>
              Opening(d) /\ d.epoch = c.epoch
<1> DEFINE drained == feed = "Holding" /\ c.drain_required
           resumes == feed = "Programme" /\ c.tail.output >= 0 /\ c.silent
           c1      == IF drained THEN Drain(c) ELSE c
           instant == NextInstant(c1.tail)
           offset  == instant - c.cutoff
           packets == Joinable(c.boundary, resumes)
           sound   == Kind(packets, "Audio")[1].pts + offset
           c2      == [c1 EXCEPT !.offset = offset, !.selected = feed, !.boundary = <<>>]
           bridge  == IF resumes \/ drained
                      THEN Bridge(BridgeStart(c1.tail, resumes), sound) ELSE <<>>
           d       == Select(c, feed)
           fresh   == feed = "Programme" /\ ~c.paced_holding /\ ~c.paced_programme
                      /\ c.drain_ticket = 0
<1>1. d = IF resumes /\ sound - c1.tail.audio > BridgeLimit
          THEN Fail(c1, "BridgeTooLong")
          ELSE Emit(c2, feed, bridge, packets, TRUE)
  BY DEF Select
<1> HIDE DEF d
<1>2. resumes \in BOOLEAN /\ drained \in BOOLEAN
  BY DEF Typed
<1>s. c.scheduled = <<>>
  BY DEF Paced
<1>p. c.boundary \in Seq(Packet)
  BY DEF Typed
<1>3. /\ Typed(c1) /\ Level(c1.tail, v) /\ Level(c1.published, v) /\ Veiled(c1, v)
      /\ c1.published.output <= c1.tail.output
      /\ \A a \in DOMAIN c1.outbox :
              /\ feed = "Holding" /\ c1.outbox[a].feed = "Holding"
              /\ PicturesFrom(c1.outbox[a].packets, v.sound)
              /\ Covers(c1.tail, c1.outbox[a].packets)
              /\ Covers(c1.published, c1.outbox[a].packets)
      /\ c1.outbox # <<>> => 0 <= c1.published.output
      /\ drained => 0 <= c1.tail.output /\ c1.tail.output <= c1.tail.audio
      /\ ~drained => c1 = c
      /\ c1.epoch = c.epoch /\ c1.desired = c.desired /\ c1.selected = c.selected
      /\ c1.cutoff = c.cutoff /\ c1.boundary = c.boundary
      /\ c1.waiting = c.waiting /\ c1.scheduled = c.scheduled /\ c1.error = c.error
      /\ c1.paced_holding = c.paced_holding /\ c1.paced_programme = c.paced_programme
  <2>1. CASE drained
    <3> DEFINE e == Drain(c)
    <3>1. /\ Typed(e) /\ e.silent /\ Level(e.tail, v) /\ Level(e.published, v)
          /\ 0 <= e.tail.output /\ e.published.output = e.tail.output
          /\ e.tail.output <= e.tail.audio
          /\ \A a \in DOMAIN e.outbox :
               /\ e.outbox[a].feed = "Holding" /\ PicturesFrom(e.outbox[a].packets, v.sound)
               /\ Covers(e.tail, e.outbox[a].packets) /\ Covers(e.published, e.outbox[a].packets)
          /\ e.epoch = c.epoch /\ e.desired = c.desired /\ e.selected = c.selected
          /\ e.cutoff = c.cutoff /\ e.boundary = c.boundary
          /\ e.waiting = c.waiting /\ e.scheduled = c.scheduled /\ e.error = c.error
          /\ e.paced_holding = c.paced_holding /\ e.paced_programme = c.paced_programme
      BY DrainQuiet DEF Levels
    <3>2. c1 = e
      BY <2>1
    <3> HIDE DEF e, c1
    <3>3. e.published.output <= e.tail.output /\ 0 <= e.published.output
      BY <3>1 DEF Typed, Tails
    <3>4. Veiled(e, v)
      BY <3>1, <3>3 DEF Veiled
    <3> QED BY <2>1, <3>1, <3>2, <3>3, <3>4
  <2>2. CASE ~drained
    BY <2>2 DEF Levels
  <2> QED BY <2>1, <2>2
<1> HIDE DEF c1
<1>4. /\ c1.tail \in Tails /\ c1.tail.output \in Int /\ c1.tail.audio \in Int
      /\ c1.tail.video \in Int /\ v.sound \in Int /\ v.unveiled \in Int
      /\ c1.published.output \in Int
  BY <1>3 DEF Typed, Tails, Viewed
<1>5. /\ instant \in Int /\ c1.tail.output <= instant /\ c1.tail.audio <= instant
      /\ c1.tail.video <= instant /\ 0 <= instant /\ v.sound <= instant
      /\ v.unveiled <= instant
  <2>1. /\ instant \in Int /\ c1.tail.output <= instant /\ c1.tail.audio <= instant
        /\ c1.tail.video <= instant
    BY <1>4, NextInstantAbove
  <2> HIDE DEF instant
  <2>2. /\ 0 <= c1.tail.audio /\ v.sound <= c1.tail.audio
        /\ v.unveiled <= 0 \/ v.unveiled <= c1.tail.video
    BY <1>3 DEF Level
  <2> QED BY <1>4, <2>1, <2>2
<1>6. offset \in Int /\ c.cutoff + offset = instant
  BY <1>5
<1> HIDE DEF instant, offset
<1>7. /\ c.boundary # <<>> /\ c.boundary[1].kind = "Video" /\ c.boundary[1].dts = c.cutoff
      /\ 1 \in DOMAIN c.boundary
      /\ \A j \in DOMAIN c.boundary :
           /\ c.boundary[j].dts \in Int /\ c.boundary[j].pts \in Int
           /\ c.cutoff <= c.boundary[j].dts /\ c.boundary[j].dts <= c.boundary[j].pts
           /\ c.boundary[j].kind = "Audio" =>
                c.boundary[j].pts <= sounds[feed] /\ c.boundary[j].pts = c.boundary[j].dts
           /\ c.boundary[j] \in Packet
  <2>1. \A j \in DOMAIN c.boundary : c.boundary[j] \in Packet
    BY <1>p
  <2>2. c.boundary # <<>> /\ 1 \in DOMAIN c.boundary
    BY <1>p
  <2>3. c.boundary[1].kind = "Video" /\ c.boundary[1].dts = c.cutoff
    BY <2>2 DEF Queued
  <2>4. \A j \in DOMAIN c.boundary : Coded(c.boundary[j])
            /\ (c.boundary[j].kind = "Audio" => c.boundary[j].pts <= sounds[feed])
    BY DEF Queued
  <2>5. \A j \in DOMAIN c.boundary : c.cutoff <= c.boundary[j].dts
    BY DEF Paced
  <2>6. \A j \in DOMAIN c.boundary :
           /\ c.boundary[j].dts \in Int /\ c.boundary[j].pts \in Int
           /\ c.boundary[j].kind = "Audio" => c.boundary[j].pts = c.boundary[j].dts
    BY <2>1 DEF Packet
  <2> QED BY <2>1, <2>2, <2>3, <2>4, <2>5, <2>6 DEF Coded
<1>8. resumes => c.boundary[i].pts >= c.boundary[1].pts
  OBVIOUS
<1>r. resumes => feed = "Programme" /\ c.tail.output >= 0
  OBVIOUS
<1>d. drained => feed = "Holding"
  OBVIOUS
<1>w. feed = "Programme" /\ v.feed = "Holding" => resumes
  <2>1. SUFFICES ASSUME feed = "Programme", v.feed = "Holding" PROVE resumes
    OBVIOUS
  <2>2. c.silent /\ 0 <= c.published.output
    BY <2>1 DEF Veiled
  <2>3. c.published.output \in Int /\ c.tail.output \in Int
    BY DEF Typed, Tails
  <2> QED BY <2>1, <2>2, <2>3
<1> HIDE DEF resumes, drained
<1>9. /\ packets \in Seq(Packet)
      /\ \A k \in DOMAIN packets : \E j \in DOMAIN c.boundary : packets[k] = c.boundary[j]
      /\ \E k \in DOMAIN packets : packets[k] = c.boundary[i]
      /\ packets # <<>> /\ packets[1] = c.boundary[1]
      /\ resumes => \A k \in DOMAIN packets :
                      packets[k].kind = "Audio" => c.boundary[1].pts <= packets[k].pts
  <2>1. packets # <<>> /\ packets[1] = c.boundary[1]
        /\ (resumes => \A k \in DOMAIN packets :
                      packets[k].kind = "Audio" => c.boundary[1].pts <= packets[k].pts)
    BY <1>2, <1>p, <1>7, JoinableStarts
  <2>2. /\ packets \in Seq(Packet)
        /\ \A k \in DOMAIN packets : \E j \in DOMAIN c.boundary : packets[k] = c.boundary[j]
        /\ \A j \in DOMAIN c.boundary :
             c.boundary[j].kind = "Audio" /\ (resumes => c.boundary[j].pts >= c.boundary[1].pts) =>
               \E k \in DOMAIN packets : packets[k] = c.boundary[j]
    BY <1>2, <1>p, JoinableIs
  <2> QED BY <1>8, <2>1, <2>2
<1> DEFINE p == Kind(packets, "Audio")[1]
<1>10. \E k \in DOMAIN packets : p = packets[k] /\ p \in Packet /\ p.pts = p.dts
  BY <1>2, <1>p, <1>8, FirstSoundIs
<1>11. sound = p.pts + offset
  BY DEF p
<1> HIDE DEF packets, p
<1>12. sound \in Int
  <2>1. p.pts \in Int
    BY <1>10 DEF Packet
  <2> HIDE DEF sound
  <2> QED BY <1>6, <1>11, <2>1
<1> HIDE DEF sound
<1>13. /\ bridge \in Seq(Packet) /\ Blank(bridge)
       /\ \A k \in DOMAIN bridge : 0 <= bridge[k].dts /\ c1.tail.output <= bridge[k].dts
  <2>1. CASE ~(resumes \/ drained)
    BY <2>1 DEF Blank
  <2>2. CASE resumes \/ drained
    <3>1. 0 <= c1.tail.output
      <4>1. CASE drained
        BY <1>3, <4>1
      <4>2. CASE ~drained
        BY <1>3, <1>r, <2>2, <4>2 DEF Typed, Tails
      <4> QED BY <4>1, <4>2
    <3>2. resumes \/ c1.tail.output <= c1.tail.audio
      BY <1>3, <2>2
    <3>3. PICK b \in Int : b = BridgeStart(c1.tail, resumes) /\ c1.tail.output <= b
      BY <1>2, <1>4, <3>2, BridgeStartIs
    <3>4. bridge = Bridge(b, sound)
      BY <2>2, <3>3
    <3> DEFINE x == Bridge(b, sound)
    <3>5. x \in Seq(Packet) /\ \A k \in DOMAIN x : b <= x[k].dts
      BY <1>12, BridgeIs DEF Within
    <3>6. Blank(x)
      BY BridgeIsBlank
    <3> HIDE DEF bridge, x
    <3>7. \A k \in DOMAIN x : x[k].dts \in Int
      <4>1. \A k \in DOMAIN x : x[k] \in Packet
        BY <3>5
      <4> QED BY <4>1 DEF Packet
    <3>8. \A k \in DOMAIN x : 0 <= x[k].dts /\ c1.tail.output <= x[k].dts
      BY <1>4, <3>1, <3>3, <3>5, <3>7
    <3>9. bridge = x
      BY <3>4 DEF x
    <3> QED BY <3>5, <3>6, <3>8, <3>9
  <2> QED BY <2>1, <2>2
<1> HIDE DEF bridge
<1>14. /\ Typed(c2) /\ c2.offset = offset /\ c2.selected = feed /\ c2.boundary = <<>>
       /\ c2.epoch = c1.epoch /\ c2.desired = c1.desired /\ c2.silent = c1.silent
       /\ c2.cutoff = c1.cutoff /\ c2.tail = c1.tail /\ c2.published = c1.published
       /\ c2.waiting = c1.waiting /\ c2.scheduled = c1.scheduled /\ c2.error = c1.error
       /\ c2.outbox = c1.outbox /\ c2.drain_ticket = c1.drain_ticket
       /\ c2.paced_holding = c1.paced_holding /\ c2.paced_programme = c1.paced_programme
  BY <1>3, <1>6 DEF Typed, Fields
<1> HIDE DEF c2
<1> DEFINE o == Output(c2, bridge, packets)
           mark == IF resumes THEN c.boundary[1].pts + offset ELSE instant
<1>15. /\ o \in Seq(Packet) /\ InSequence(o)
       /\ \A k \in DOMAIN o :
            \/ \E j \in DOMAIN bridge : o[k] = bridge[j]
            \/ \E j \in DOMAIN packets : o[k] = Moved(packets[j], offset)
       /\ \A j \in DOMAIN packets : packets[j].dts >= c.cutoff =>
            \E k \in DOMAIN o : o[k] = Moved(packets[j], offset)
       /\ \E k \in DOMAIN o : /\ o[k] = Moved(c.boundary[1], offset)
                              /\ \A m \in DOMAIN o : m < k =>
                                   \E j \in DOMAIN bridge : o[m] = bridge[j]
  <2>1. c2.offset = offset /\ c2.offset \in Int /\ c2.cutoff = c.cutoff
        /\ packets[1].dts = c2.cutoff
    BY <1>3, <1>6, <1>7, <1>9, <1>14
  <2>2. /\ o \in Seq(Packet) /\ InSequence(o)
        /\ \A k \in DOMAIN o :
             \/ \E j \in DOMAIN bridge : o[k] = bridge[j]
             \/ \E j \in DOMAIN packets :
                  packets[j].dts >= c2.cutoff /\ o[k] = Moved(packets[j], c2.offset)
        /\ \A j \in DOMAIN packets : packets[j].dts >= c2.cutoff =>
             \E k \in DOMAIN o : o[k] = Moved(packets[j], c2.offset)
        /\ \E k \in DOMAIN o : /\ o[k] = Moved(packets[1], c2.offset)
                               /\ \A m \in DOMAIN o : m < k =>
                                    \E j \in DOMAIN bridge : o[m] = bridge[j]
    <3>1. OutputOf(o, bridge, packets, c2.cutoff, c2.offset)
      BY <1>9, <1>13, <2>1, OutputHas
    <3> HIDE DEF o
    <3> QED BY <1>9, <2>1, <3>1 DEF OutputOf
  <2> HIDE DEF o
  <2> QED BY <1>9, <2>1, <2>2
<1> HIDE DEF o
<1>16. \A j \in DOMAIN c.boundary :
         LET r == Moved(c.boundary[j], offset)
             b == c.boundary[j]
         IN  /\ r.kind = b.kind /\ r.drain = b.drain /\ r.pts = b.pts + offset
             /\ r.dts \in Int /\ r.pts \in Int /\ instant <= r.dts /\ instant <= r.pts
  <2>1. SUFFICES ASSUME NEW j \in DOMAIN c.boundary
        PROVE LET r == Moved(c.boundary[j], offset)
                  b == c.boundary[j]
              IN  /\ r.kind = b.kind /\ r.drain = b.drain /\ r.pts = b.pts + offset
                  /\ r.dts \in Int /\ r.pts \in Int /\ instant <= r.dts /\ instant <= r.pts
    OBVIOUS
  <2> DEFINE b == c.boundary[j]
             r == Moved(b, offset)
  <2>2. /\ b \in Packet /\ b.dts \in Int /\ b.pts \in Int /\ c.cutoff <= b.dts /\ b.dts <= b.pts
    BY <1>7
  <2> HIDE DEF b
  <2>3. /\ r.kind = b.kind /\ r.drain = b.drain /\ r.pts = b.pts + offset /\ r.dts = b.dts + offset
    BY <1>6, <2>2, MovedIs
  <2> HIDE DEF r
  <2>4. r.dts \in Int /\ r.pts \in Int /\ instant <= r.dts /\ instant <= r.pts
    BY <1>5, <1>6, <2>2, <2>3
  <2> QED BY <2>3, <2>4 DEF r, b
<1>17. \A k \in DOMAIN o :
         \/ o[k].kind = "Audio" /\ o[k].drain /\ 0 <= o[k].dts /\ c1.tail.output <= o[k].dts
         \/ \E j \in DOMAIN c.boundary :
              /\ o[k].kind = c.boundary[j].kind /\ o[k].pts = c.boundary[j].pts + offset
              /\ o[k].dts \in Int /\ o[k].pts \in Int
              /\ instant <= o[k].dts /\ instant <= o[k].pts
              /\ resumes /\ o[k].kind = "Audio" => c.boundary[1].pts <= c.boundary[j].pts
  <2>1. SUFFICES ASSUME NEW k \in DOMAIN o
        PROVE \/ o[k].kind = "Audio" /\ o[k].drain /\ 0 <= o[k].dts /\ c1.tail.output <= o[k].dts
              \/ \E j \in DOMAIN c.boundary :
                   /\ o[k].kind = c.boundary[j].kind /\ o[k].pts = c.boundary[j].pts + offset
                   /\ o[k].dts \in Int /\ o[k].pts \in Int
                   /\ instant <= o[k].dts /\ instant <= o[k].pts
                   /\ resumes /\ o[k].kind = "Audio" => c.boundary[1].pts <= c.boundary[j].pts
    OBVIOUS
  <2>2. CASE \E j \in DOMAIN bridge : o[k] = bridge[j]
    BY <1>13, <2>2 DEF Blank
  <2>3. CASE \E j \in DOMAIN packets : o[k] = Moved(packets[j], offset)
    <3>1. PICK l \in DOMAIN packets : o[k] = Moved(packets[l], offset)
      BY <2>3
    <3>2. PICK j \in DOMAIN c.boundary : packets[l] = c.boundary[j]
      BY <1>9
    <3>3. /\ o[k].kind = c.boundary[j].kind /\ o[k].pts = c.boundary[j].pts + offset
          /\ o[k].dts \in Int /\ o[k].pts \in Int
          /\ instant <= o[k].dts /\ instant <= o[k].pts
      BY <1>16, <3>1, <3>2
    <3>4. resumes /\ o[k].kind = "Audio" => c.boundary[1].pts <= c.boundary[j].pts
      BY <1>9, <3>2, <3>3
    <3> QED BY <3>3, <3>4
  <2> QED BY <1>15, <2>2, <2>3
<1>18. /\ mark \in Int /\ instant <= mark
       /\ feed = "Programme" => mark <= sounds["Programme"] + offset
  <2>1. /\ c.boundary[1].dts = c.cutoff /\ c.boundary[1].dts <= c.boundary[1].pts
        /\ c.boundary[1].pts \in Int /\ c.boundary[1].dts \in Int
        /\ c.boundary[i].pts \in Int /\ c.boundary[i].pts <= sounds[feed]
        /\ c.cutoff <= c.boundary[i].pts
        /\ c.boundary[i].dts \in Int /\ c.boundary[i].pts = c.boundary[i].dts
    BY <1>7
  <2> QED BY SMTT(60), <1>5, <1>6, <1>8, <2>1
<1>19. \A k \in DOMAIN o : 0 <= o[k].dts /\ c1.tail.output <= o[k].dts
  BY <1>4, <1>5, <1>17
<1>20. PicturesFrom(o, v.sound)
  <2>1. \A k \in DOMAIN o : o[k].kind = "Video" => o[k].pts \in Int /\ instant <= o[k].pts
    BY <1>17
  <2> QED BY <1>4, <1>5, <2>1 DEF PicturesFrom
<1>21. SoundFrom(o, mark)
  <2>1. SUFFICES ASSUME NEW k \in DOMAIN o, IsSound(o[k]) PROVE mark <= o[k].pts
    BY DEF SoundFrom
  <2>2. PICK j \in DOMAIN c.boundary :
              /\ o[k].pts = c.boundary[j].pts + offset
              /\ o[k].pts \in Int /\ instant <= o[k].pts
              /\ resumes => c.boundary[1].pts <= c.boundary[j].pts
    BY <1>17, <2>1 DEF IsSound
  <2>3. c.boundary[j].pts \in Int /\ c.boundary[1].pts \in Int
    BY <1>7
  <2> QED BY <1>5, <1>6, <2>2, <2>3
<1>22. PICK k \in DOMAIN o : /\ o[k] = Moved(c.boundary[1], offset)
                             /\ \A m \in DOMAIN o : m < k =>
                                   \E j \in DOMAIN bridge : o[m] = bridge[j]
  BY <1>15
<1>23. o # <<>> /\ o[k].kind = "Video" /\ o[k].pts = c.boundary[1].pts + offset
  BY <1>7, <1>16, <1>22
<1>24. HasPicture(o) /\ HasAudio(o)
  <2>1. PICK l \in DOMAIN packets : packets[l] = c.boundary[i]
    BY <1>9
  <2>2. packets[l].dts >= c.cutoff
    BY <1>7, <2>1
  <2>3. PICK n \in DOMAIN o : o[n] = Moved(packets[l], offset)
    BY <1>15, <2>2
  <2>4. o[n].kind = "Audio"
    BY <1>16, <2>1, <2>3
  <2> QED BY <1>23, <2>4 DEF HasPicture, HasAudio
<1>25. resumes => Unveils(o, mark)
  <2>1. SUFFICES ASSUME resumes PROVE Unveils(o, mark)
    OBVIOUS
  <2>2. o[k].pts <= mark
    BY <1>18, <1>23, <2>1
  <2>3. \A m \in DOMAIN o : m < k => o[m].kind = "Audio" /\ o[m].drain
    BY <1>13, <1>22 DEF Blank
  <2> QED BY <1>23, <2>2, <2>3 DEF Unveils
<1> HIDE DEF mark
<1>26. Sendable(c2, v, pub, sounds, mark, feed, o)
  <2>1. OfFeed(c2) /\ Veiled(c2, v)
    BY <1>3, <1>14 DEF OfFeed, Veiled
  <2>2. Levels(c2, v)
    BY <1>s, <1>3, <1>14 DEF Levels, Covers, NotBefore
  <2>3. Queued(c2, sounds)
    <3>1. c2.boundary = <<>> /\ c2.selected # None /\ c2.waiting = c.waiting
      BY <1>3, <1>14, Constants
    <3> QED BY <3>1 DEF Queued
  <2>4. ASSUME feed = "Holding"
        PROVE  /\ \A a \in DOMAIN c2.outbox : PicturesFrom(c2.outbox[a].packets, v.sound)
               /\ v.sound <= c2.cutoff + c2.offset
               /\ PicturesFrom(c2.scheduled, v.sound)
    BY <1>s, <1>3, <1>5, <1>6, <1>14 DEF PicturesFrom
  <2>5. ASSUME feed = "Programme"
        PROVE  /\ Shown(c2, v, mark) /\ SoundFrom(c2.scheduled, mark)
               /\ mark <= sounds["Programme"] + c2.offset
               /\ v.feed = "Holding" => c2.scheduled = <<>> /\ Unveils(o, mark)
    <3>1. c2.outbox = <<>> /\ c2.scheduled = <<>>
      BY <1>s, <1>d, <1>3, <1>14, <2>5
    <3>2. v.unveiled <= mark
      BY <1>4, <1>5, <1>18
    <3>3. Shown(c2, v, mark)
      BY <3>1, <3>2 DEF Shown
    <3> QED BY <1>w, <1>14, <1>18, <1>25, <2>5, <3>1, <3>3 DEF SoundFrom
  <2> QED BY <1>20, <1>21, <1>24, <2>1, <2>2, <2>3, <2>4, <2>5 DEF Sendable
<1>27. Quiet(Emit(c2, feed, bridge, packets, TRUE), v, pub, sounds, mark)
  <2>1. /\ c2.error = None /\ c2.scheduled = <<>> /\ c2.published.output <= c2.tail.output
        /\ \A l \in DOMAIN o : 0 <= o[l].dts /\ c2.tail.output <= o[l].dts
    BY <1>s, <1>3, <1>14, <1>19
  <2> QED BY <1>14, <1>15, <1>18, <1>23, <1>26, <2>1, EmitQuiet DEF o
<1>28. resumes => Quiet(Fail(c1, "BridgeTooLong"), v, pub, sounds, mark) /\ c1 = c
  <2>1. SUFFICES ASSUME resumes PROVE Quiet(Fail(c1, "BridgeTooLong"), v, pub, sounds, mark) /\ c1 = c
    OBVIOUS
  <2>2. c1 = c
    BY <1>r, <1>d, <1>3, <2>1
  <2> DEFINE e == Fail(c, "BridgeTooLong")
  <2>3. e.error = "BridgeTooLong" /\ e.outbox = <<>> /\ e.selected = None
    BY DEF Fail, Typed, Fields
  <2>4. e.error # None
    BY <2>3, Constants DEF Errors
  <2> HIDE DEF e
  <2>5. Quiet(e, v, pub, sounds, mark)
    BY <2>3, <2>4, IdleQuiet
  <2> QED BY <2>2, <2>5 DEF e
<1>29. Quiet(d, v, pub, sounds, mark)
  BY <1>1, <1>27, <1>28
<1>30. ASSUME fresh PROVE Opening(d) /\ d.epoch = c.epoch
  <2>1. c1 = c /\ feed = "Programme"
    BY <1>d, <1>3, <1>30
  <2>2. CASE d = Fail(c1, "BridgeTooLong")
    <3>1. /\ d.error = "BridgeTooLong" /\ d.outbox = <<>> /\ d.desired = c.desired
          /\ d.paced_holding = c.paced_holding /\ d.paced_programme = c.paced_programme
          /\ d.drain_ticket = c.drain_ticket /\ d.epoch = c.epoch
      BY <2>1, <2>2 DEF Fail, Typed, Fields
    <3>2. d.error # None
      BY <3>1, Constants DEF Errors
    <3> QED BY <1>30, <2>1, <3>1, <3>2 DEF Opening
  <2>3. CASE d = Emit(c2, feed, bridge, packets, TRUE)
    <3>1. /\ c2.error = None /\ c2.outbox = <<>> /\ c2.desired = "Programme"
          /\ ~c2.paced_holding /\ ~c2.paced_programme /\ c2.drain_ticket = 0
          /\ c2.epoch = c.epoch
      BY <1>3, <1>14, <1>30, <2>1
    <3> DEFINE e == Emit(c2, "Programme", bridge, packets, TRUE)
    <3>2. Opening(e) /\ e.epoch = c2.epoch
      <4>1. o = Output(c2, bridge, packets)
        BY DEF o
      <4> HIDE DEF e
      <4>2. PICK e2 : e2 = Emit(c2, "Programme", bridge, packets, TRUE)
        OBVIOUS
      <4>3. Opening(e2) /\ e2.epoch = c2.epoch
        <5>1. /\ Typed(c2) /\ o \in Seq(Packet) /\ o # <<>> /\ HasPicture(o)
          BY <1>14, <1>15, <1>23, <1>24
        <5> QED BY <3>1, <4>1, <4>2, <5>1, EmitOpens, ZenonT(60)
      <4> QED BY <4>2, <4>3 DEF e
    <3>3. d = e
      BY <2>1, <2>3
    <3> QED BY <3>1, <3>2, <3>3
  <2> QED BY <1>1, <2>2, <2>3
<1> QED
  BY <1>18, <1>29, <1>30 DEF d

\* What is kept from a keyframe on starts with a picture.
LEMMA KeyframeFirst ==
  ASSUME NEW q \in Seq(Packet), \A i \in DOMAIN q : Coded(q[i])
  PROVE  LET x == FromKeyframe(q) IN x # <<>> => x[1].kind = "Video"
<1> DEFINE at == {i \in DOMAIN q : \E j \in 1..i : q[j].key}
           x == At(q, at)
           keys == {i \in DOMAIN q : q[i].key}
<1>1. FromKeyframe(q) = x
  BY DEF FromKeyframe
<1>2. Len(q) \in Nat /\ DOMAIN q = 1..Len(q)
  OBVIOUS
<1>3. \A i \in at : \E j \in keys : j <= i
  BY <1>2
<1>4. \A i \in keys : i \in at
  BY <1>2
<1>5. keys \subseteq Nat
  BY <1>2
<1>6. \A i \in keys : i \in DOMAIN q /\ q[i].key
  OBVIOUS
<1> HIDE DEF at, keys
<1>7. /\ x \in Seq(Packet)
      /\ \A k \in DOMAIN x : \E i \in DOMAIN q : i \in at /\ x[k] = q[i]
  BY AtPicks
<1>8. \A i \in DOMAIN q :
        i \in at /\ (\A j \in DOMAIN q : j < i => j \notin at) => x # <<>> /\ x[1] = q[i]
  BY AtFirst
<1> HIDE DEF x
<1>9. ASSUME x # <<>> PROVE x[1].kind = "Video"
  <2>1. keys # {}
    <3>1. 1 \in DOMAIN x
      BY <1>7, <1>9
    <3> QED BY <1>3, <1>7, <3>1
  <2>2. PICK i \in keys : \A m \in keys : i <= m
    BY <1>5, <2>1, NatMinimum
  <2>3. \A j \in DOMAIN q : j < i => j \notin at
    <3>1. SUFFICES ASSUME NEW j \in DOMAIN q, j < i, j \in at PROVE FALSE
      OBVIOUS
    <3>2. PICK l \in keys : l <= j
      BY <1>3, <3>1
    <3>3. i \in Int /\ j \in Int /\ l \in Int /\ i <= l
      BY <1>2, <1>5, <2>2, <3>1
    <3> QED BY <3>1, <3>2, <3>3
  <2>4. x[1] = q[i] /\ q[i].key /\ Coded(q[i])
    BY <1>4, <1>6, <1>8, <2>2, <2>3
  <2> QED BY <2>4 DEF Coded
<1> QED
  BY <1>1, <1>9

\* The feeds go on, and actions are admitted.
LEMMA LaterSounds ==
  ASSUME NEW c, Typed(c), NEW v, NEW pub \in Int, NEW pub2 \in Int, pub <= pub2,
         NEW sounds \in [Feeds -> Int], NEW later \in [Feeds -> Int],
         \A f \in Feeds : sounds[f] <= later[f],
         NEW mark \in Int, Quiet(c, v, pub, sounds, mark)
  PROVE  Quiet(c, v, pub2, later, mark)
<1>1. c.epoch \in Int /\ c.offset \in Int /\ c.desired \in Feeds
  BY SMTT(60) DEF Typed
<1>2. c.waiting \in Seq(Packet) /\ c.boundary \in Seq(Packet)
  BY DEF Typed
<1>3. /\ \A i \in DOMAIN c.waiting : c.waiting[i] \in Packet
      /\ \A i \in DOMAIN c.boundary : c.boundary[i] \in Packet
  BY <1>2
<1>4. /\ \A i \in DOMAIN c.waiting : c.waiting[i].pts \in Int
      /\ \A i \in DOMAIN c.boundary : c.boundary[i].pts \in Int
  BY <1>3 DEF Packet
<1>5. \A f \in Feeds : sounds[f] \in Int /\ later[f] \in Int
  OBVIOUS
<1>6. Curtain(c, v, pub2, later, mark)
  <2>1. SUFFICES ASSUME c.selected = "Programme", pub2 <= c.epoch
                 PROVE  Shown(c, v, mark) /\ (c.error = None => ToShow(c, v, later, mark))
    BY DEF Curtain
  <2>2. Shown(c, v, mark) /\ (c.error = None => ToShow(c, v, sounds, mark))
    BY <1>1, <2>1 DEF Quiet, Curtain
  <2>3. ASSUME c.error = None PROVE mark <= later["Programme"] + c.offset
    <3>1. mark <= sounds["Programme"] + c.offset
      BY <2>2, <2>3 DEF ToShow
    <3> QED BY <1>1, <1>5, <3>1, Constants
  <2> QED BY <2>2, <2>3 DEF ToShow
<1>7. ASSUME c.error = None PROVE Queued(c, later)
  <2>1. Queued(c, sounds)
    BY <1>7 DEF Quiet
  <2>2. \A i \in DOMAIN c.waiting : Coded(c.waiting[i])
           /\ (c.waiting[i].kind = "Audio" => c.waiting[i].pts <= later["Programme"])
    <3>1. SUFFICES ASSUME NEW i \in DOMAIN c.waiting
          PROVE  Coded(c.waiting[i])
                 /\ (c.waiting[i].kind = "Audio" => c.waiting[i].pts <= later["Programme"])
      OBVIOUS
    <3>2. Coded(c.waiting[i])
           /\ (c.waiting[i].kind = "Audio" => c.waiting[i].pts <= sounds["Programme"])
      BY <2>1 DEF Queued
    <3> QED BY <1>4, <1>5, <3>2, Constants
  <2>3. \A i \in DOMAIN c.boundary : Coded(c.boundary[i])
           /\ (c.boundary[i].kind = "Audio" => c.boundary[i].pts <= later[c.desired])
    <3>1. SUFFICES ASSUME NEW i \in DOMAIN c.boundary
          PROVE  Coded(c.boundary[i])
                 /\ (c.boundary[i].kind = "Audio" => c.boundary[i].pts <= later[c.desired])
      OBVIOUS
    <3>2. Coded(c.boundary[i])
           /\ (c.boundary[i].kind = "Audio" => c.boundary[i].pts <= sounds[c.desired])
      BY <2>1 DEF Queued
    <3> QED BY <1>1, <1>4, <1>5, <3>2
  <2> QED BY <2>1, <2>2, <2>3 DEF Queued
<1> QED
  BY <1>6, <1>7 DEF Quiet

\* Packets of an encoder, with no sound after the given instant.
Given(q, last) ==
  \A i \in DOMAIN q : Coded(q[i]) /\ (q[i].kind = "Audio" => q[i].pts <= last)

\* The feed goes on in silence; the first feed, with a picture.
Goes(d, c, feed, v, pub, later) ==
  /\ \E mark \in Int : Quiet(d, v, pub, later, mark)
  /\ feed = "Programme" /\ Opening(c) => Opening(d) /\ d.epoch = c.epoch

\* A feed's boundary grows until there is a picture and sound.
LEMMA CollectQuiet ==
  ASSUME NEW c, Typed(c), c.error = None, c.selected = None, c.outbox = <<>>,
         NEW feed \in Feeds, c.desired = feed, NEW v, Viewed(v), NEW pub \in Int,
         NEW later \in [Feeds -> Int], NEW mark0,
         Lined(c), Paced(c), Quiet(c, v, pub, later, mark0),
         NEW packets \in Seq(Packet), Given(packets, later[feed])
  PROVE  Goes(Collect(c, feed, packets), c, feed, v, pub, later)
<1> DEFINE from  == IF c.cutoff = None THEN FromKeyframe(packets) ELSE packets
           cut   == IF c.cutoff = None /\ from # <<>> THEN from[1].dts ELSE c.cutoff
           more  == FromCut(from, cut)
           grown == c.boundary \o more
           c1    == [c EXCEPT !.cutoff = cut, !.boundary = grown]
           rejoins == feed = "Programme" /\ c.tail.output >= 0
           audible == \E p \in ToSet(Kind(grown, "Audio")) : rejoins => p.pts >= grown[1].pts
           over  == Len(grown) > Capacity \/ Last(grown).dts - cut > Window
           d     == Collect(c, feed, packets)
<1>1. d = IF grown = <<>> THEN c1
          ELSE IF over THEN Fail(c1, "BoundaryOverflow")
          ELSE IF audible THEN Select(c1, feed) ELSE c1
  BY DEF Collect
<1>2. Levels(c, v) /\ Queued(c, later) /\ Veiled(c, v)
  BY DEF Quiet
<1>g. \A i \in DOMAIN packets :
        Coded(packets[i]) /\ (packets[i].kind = "Audio" => packets[i].pts <= later[feed])
  BY DEF Given
<1>3. /\ from \in Seq(Packet)
      /\ \A k \in DOMAIN from : \E i \in DOMAIN packets : from[k] = packets[i]
      /\ c.cutoff = None /\ from # <<>> => from[1].kind = "Video"
  BY <1>g, FromKeyframeIs, KeyframeFirst
<1> HIDE DEF from
<1>4. \A k \in DOMAIN from : /\ from[k] \in Packet /\ from[k].dts \in Int /\ Coded(from[k])
                             /\ from[k].kind = "Audio" => from[k].pts <= later[feed]
  <2>1. \A k \in DOMAIN from : from[k] \in Packet
    BY <1>3
  <2> QED BY SMTT(60), <1>g, <1>3, <2>1 DEF Packet
<1>5. /\ cut \in Int \cup {None} /\ (from # <<>> => cut \in Int)
      /\ (c.cutoff # None => cut = c.cutoff)
      /\ (c.cutoff = None /\ from # <<>> => cut = from[1].dts)
      /\ (c.cutoff = None /\ from = <<>> => cut = None)
  <2>1. from # <<>> => 1 \in DOMAIN from
    BY <1>3
  <2> QED BY <1>4, <2>1 DEF Typed
<1> HIDE DEF cut
<1>6. /\ more \in Seq(Packet)
      /\ \A k \in DOMAIN more : \E i \in DOMAIN from : from[i].dts >= cut /\ more[k] = from[i]
      /\ from # <<>> /\ from[1].dts >= cut => more # <<>> /\ more[1] = from[1]
  BY <1>3, CutKeeps
<1> HIDE DEF more
<1>7. \A k \in DOMAIN more : /\ Coded(more[k]) /\ more[k].dts \in Int /\ cut <= more[k].dts
                             /\ more[k].kind = "Audio" => more[k].pts <= later[feed]
  <2>1. SUFFICES ASSUME NEW k \in DOMAIN more
        PROVE  /\ Coded(more[k]) /\ more[k].dts \in Int /\ cut <= more[k].dts
               /\ more[k].kind = "Audio" => more[k].pts <= later[feed]
    OBVIOUS
  <2>2. PICK i \in DOMAIN from : from[i].dts >= cut /\ more[k] = from[i]
    BY <1>6
  <2>3. cut \in Int
    BY <1>5, <2>2
  <2> QED BY <1>4, <2>2, <2>3
<1>8. c.boundary \in Seq(Packet)
  BY DEF Typed
<1>9. \A k \in DOMAIN c.boundary :
        /\ Coded(c.boundary[k])
        /\ c.boundary[k].kind = "Audio" => c.boundary[k].pts <= later[feed]
        /\ cut <= c.boundary[k].dts
  <2>1. \A k \in DOMAIN c.boundary : c.cutoff # None /\ c.cutoff <= c.boundary[k].dts
    BY DEF Paced
  <2> QED BY <1>2, <1>5, <2>1 DEF Queued
<1>10. /\ grown \in Seq(Packet)
       /\ \A k \in DOMAIN grown : \/ k \in DOMAIN c.boundary /\ grown[k] = c.boundary[k]
                                  \/ k - Len(c.boundary) \in DOMAIN more
                                     /\ grown[k] = more[k - Len(c.boundary)]
       /\ c.boundary # <<>> => grown # <<>> /\ grown[1] = c.boundary[1]
       /\ c.boundary = <<>> => grown = more
  BY SMTT(60), <1>6, <1>8
<1> HIDE DEF grown
<1>11. \A k \in DOMAIN grown :
         /\ Coded(grown[k]) /\ (grown[k].kind = "Audio" => grown[k].pts <= later[feed])
         /\ cut <= grown[k].dts
  BY <1>7, <1>9, <1>10
<1>12. /\ Typed(c1) /\ c1.cutoff = cut /\ c1.boundary = grown
       /\ c1.epoch = c.epoch /\ c1.desired = c.desired /\ c1.selected = c.selected
       /\ c1.offset = c.offset /\ c1.waiting = c.waiting /\ c1.silent = c.silent
       /\ c1.scheduled = c.scheduled /\ c1.outbox = c.outbox
       /\ c1.tail = c.tail /\ c1.published = c.published
       /\ c1.paced_holding = c.paced_holding /\ c1.paced_programme = c.paced_programme
       /\ c1.error = c.error /\ c1.drain_ticket = c.drain_ticket
  BY <1>5, <1>10 DEF Typed, Fields
<1> HIDE DEF c1, d
<1>13. /\ grown # <<>> => cut \in Int /\ grown[1].kind = "Video" /\ grown[1].dts = cut
       /\ cut # None => grown # <<>>
  <2>1. CASE c.cutoff # None
    <3>1. cut = c.cutoff /\ cut \in Int /\ c.boundary # <<>>
      BY <1>2, <1>5, <2>1 DEF Typed, Queued
    <3>2. c.boundary[1].kind = "Video" /\ c.boundary[1].dts = cut
      BY <1>2, <3>1 DEF Queued
    <3> QED BY <1>10, <3>1, <3>2
  <2>2. CASE c.cutoff = None /\ from = <<>>
    <3>1. cut = None /\ c.boundary = <<>>
      BY <1>5, <1>8, <2>2 DEF Paced
    <3>2. more = <<>>
      <4>0. \A k \in DOMAIN from : FALSE
        BY <2>2
      <4>1. \A k \in DOMAIN more : FALSE
        BY <1>6, <4>0
      <4>2. more \in Seq(Packet)
        BY <1>6
      <4>3. more # <<>> => Len(more) \in DOMAIN more
        BY <4>2, LastIs
      <4> QED BY <4>1, <4>3
    <3>3. grown = <<>>
      BY <1>10, <3>1, <3>2
    <3> QED BY <3>1, <3>3
  <2>3. CASE c.cutoff = None /\ from # <<>>
    <3>1. cut = from[1].dts /\ cut \in Int /\ c.boundary = <<>> /\ from[1].kind = "Video"
      BY <1>3, <1>5, <1>8, <2>3 DEF Paced
    <3>2. more # <<>> /\ more[1] = from[1]
      BY <1>6, <2>3, <3>1
    <3> QED BY <1>10, <3>1, <3>2
  <2> QED BY <2>1, <2>2, <2>3
<1>14. Queued(c1, later)
  <2>1. \A k \in DOMAIN c1.boundary : Coded(c1.boundary[k])
           /\ (c1.boundary[k].kind = "Audio" => c1.boundary[k].pts <= later[c1.desired])
    BY <1>11, <1>12
  <2>2. c1.boundary # <<>> => c1.boundary[1].kind = "Video" /\ c1.boundary[1].dts = c1.cutoff
    BY <1>12, <1>13
  <2>3. c1.cutoff # None => c1.boundary # <<>>
    BY <1>12, <1>13
  <2> QED BY <1>2, <1>12, <2>1, <2>2, <2>3 DEF Queued
<1>15. Levels(c1, v) /\ Veiled(c1, v)
  BY <1>2, <1>12 DEF Levels, Veiled
<1>16. Quiet(c1, v, pub, later, 0)
  BY <1>12, <1>14, <1>15, Constants DEF Quiet, OfFeed, Hushed, Curtain, Begun
<1>17. Opening(c) => Opening(c1)
  BY <1>12 DEF Opening
<1>18. Paced(c1)
  <2>1. grown # <<>> => cut # None
    BY <1>13, Constants
  <2> QED BY <1>11, <1>12, <2>1 DEF Paced
<1>19. CASE d = c1
  BY <1>12, <1>16, <1>17, <1>19 DEF d, Goes
<1>20. CASE d = Fail(c1, "BoundaryOverflow")
  <2>1. /\ d.error = "BoundaryOverflow" /\ d.outbox = <<>> /\ d.selected = None
        /\ d.desired = c1.desired /\ d.epoch = c1.epoch /\ d.drain_ticket = c1.drain_ticket
        /\ d.paced_holding = c1.paced_holding /\ d.paced_programme = c1.paced_programme
    BY <1>12, <1>20 DEF Fail, Typed, Fields
  <2>2. d.error # None
    BY <2>1, Constants DEF Errors
  <2>3. Quiet(d, v, pub, later, 0)
    BY <2>1, <2>2, IdleQuiet
  <2>4. Opening(c) => Opening(d)
    BY <1>17, <2>1, <2>2 DEF Opening
  <2> QED BY <1>12, <2>1, <2>3, <2>4 DEF d, Goes
<1>21. ASSUME audible, grown # <<>>, d = Select(c1, feed)
       PROVE  /\ \E mark \in Int : Quiet(d, v, pub, later, mark)
              /\ feed = "Programme" /\ Opening(c) => Opening(d) /\ d.epoch = c.epoch
  <2>1. PICK i \in DOMAIN grown : grown[i].kind = "Audio" /\ (rejoins => grown[i].pts >= grown[1].pts)
    <3>1. PICK p \in ToSet(Kind(grown, "Audio")) : rejoins => p.pts >= grown[1].pts
      BY <1>21
    <3>2. PICK x : x = Kind(grown, "Audio")
      OBVIOUS
    <3>3. \A k \in DOMAIN x : \E j \in DOMAIN grown : grown[j].kind = "Audio" /\ x[k] = grown[j]
      BY <1>10, <3>2, KindIs
    <3>4. PICK k \in DOMAIN x : p = x[k]
      BY <3>1, <3>2 DEF ToSet
    <3> QED BY <3>1, <3>3, <3>4
  <2>2. /\ c1.cutoff \in Int /\ later[feed] \in Int
    BY <1>12, <1>13, <1>21
  <2>3. c1.published.output <= c1.tail.output
    BY <1>12 DEF Lined
  <2> DEFINE e == Select(c1, feed)
  <2>4. /\ \E mark \in Int : Quiet(e, v, pub, later, mark)
        /\ feed = "Programme" /\ ~c1.paced_holding /\ ~c1.paced_programme /\ c1.drain_ticket = 0 =>
              Opening(e) /\ e.epoch = c1.epoch
    <3>1. /\ i \in DOMAIN c1.boundary /\ c1.boundary[i].kind = "Audio"
          /\ feed = "Programme" /\ c1.tail.output >= 0 =>
               c1.boundary[i].pts >= c1.boundary[1].pts
      BY <1>12, <2>1
    <3>2. c1.error = None /\ c1.selected = None /\ c1.outbox = <<>> /\ c1.desired = feed
      BY <1>12
    <3> QED BY <1>12, <1>14, <1>15, <1>18, <2>2, <2>3, <3>1, <3>2, SelectQuiet
  <2> HIDE DEF e
  <2>5. d = e
    BY <1>21 DEF e
  <2>6. Opening(c) => ~c1.paced_holding /\ ~c1.paced_programme /\ c1.drain_ticket = 0
    BY <1>12 DEF Opening
  <2> QED BY <1>12, <2>4, <2>5, <2>6
<1>22. \/ d = c1 \/ d = Fail(c1, "BoundaryOverflow")
       \/ audible /\ grown # <<>> /\ d = Select(c1, feed)
  BY <1>1
<1>23. Goes(d, c, feed, v, pub, later) \/ d = c1 \/ d = Fail(c1, "BoundaryOverflow")
  BY <1>21, <1>22 DEF Goes
<1> QED
  BY <1>19, <1>20, <1>23 DEF d

\* Before a feed is selected.
LEMMA FreshQuiet ==
  ASSUME NEW c, c.outbox = <<>>, c.selected = None, NEW v, NEW pub, NEW sounds, NEW mark,
         Veiled(c, v), Levels(c, v), Queued(c, sounds)
  PROVE  Quiet(c, v, pub, sounds, mark)
  BY Constants DEF Quiet, OfFeed, Hushed, Curtain, Begun

\* What a feed gives goes on air behind what it gave before.
LEMMA PublishQuiet ==
  ASSUME NEW c, Typed(c), Clear(c), NEW feed \in Feeds, c.desired = feed,
         NEW v, Viewed(v), NEW pub \in Int, NEW next \in [Feeds -> Int],
         NEW sounds \in [Feeds -> Int], NEW later \in [Feeds -> Int],
         \A f \in Feeds : sounds[f] <= later[f],
         Lined(c), Paced(c), Ahead(c, next), NEW mark0 \in Int, Quiet(c, v, pub, sounds, mark0),
         NEW packets \in Seq(Packet), Given(packets, later[feed]),
         c.selected # None => \A i \in DOMAIN packets :
           /\ next[feed] <= packets[i].dts
           /\ packets[i].kind = "Audio" => sounds[feed] <= packets[i].pts
  PROVE  Goes(Publish(c, feed, packets), c, feed, v, pub, later)
<1> DEFINE d == Publish(c, feed, packets)
           o == Output(c, <<>>, packets)
<1>1. c.error = None /\ c.outbox = <<>>
  BY DEF Clear
<1>2. Quiet(c, v, pub, later, mark0)
  <2>1. pub <= pub
    OBVIOUS
  <2> QED BY <2>1, LaterSounds
<1>3. d = IF packets = <<>> THEN c
          ELSE IF c.selected = None THEN Collect(c, feed, packets)
          ELSE Emit(c, feed, <<>>, packets, FALSE)
  BY DEF Publish
<1>4. CASE packets = <<>>
  <2>1. d = c
    BY <1>3, <1>4
  <2> QED BY <1>2, <2>1 DEF d, Goes
<1>5. CASE packets # <<>> /\ c.selected = None
  <2>1. c.error = None /\ c.selected = None /\ c.outbox = <<>>
    BY <1>1, <1>5
  <2>2. Goes(Collect(c, feed, packets), c, feed, v, pub, later)
    BY <1>2, <2>1, CollectQuiet
  <2>3. d = Collect(c, feed, packets)
    BY <1>3, <1>5
  <2> QED BY <2>2, <2>3 DEF d
<1>6. CASE packets # <<>> /\ c.selected # None
  <2>1. ~Opening(c)
    BY <1>1, <1>6 DEF Opening
  <2>2. c.selected = feed /\ c.cutoff \in Int
    BY <1>6 DEF Paced, Typed
  <2>3. /\ c.tail.output \in Int /\ c.offset \in Int /\ next[feed] \in Int
        /\ v.sound \in Int
    BY DEF Typed, Tails, Viewed
  <2>4. 0 <= c.tail.output /\ c.tail.output <= c.offset + next[feed]
    BY <1>1, <1>6, <2>2 DEF Quiet, Begun, Ahead
  <2>5. \A i \in DOMAIN packets :
          /\ packets[i] \in Packet /\ packets[i].dts \in Int /\ packets[i].pts \in Int
          /\ next[feed] <= packets[i].dts /\ packets[i].dts <= packets[i].pts
          /\ packets[i].kind = "Audio" => sounds[feed] <= packets[i].pts
    <3>1. \A i \in DOMAIN packets : packets[i] \in Packet
      OBVIOUS
    <3>2. \A i \in DOMAIN packets : packets[i].dts \in Int /\ packets[i].pts \in Int
      BY <3>1 DEF Packet
    <3> QED BY <1>6, <3>1, <3>2 DEF Coded, Given
  <2>6. /\ o \in Seq(Packet) /\ InSequence(o)
        /\ \A k \in DOMAIN o : \E i \in DOMAIN packets :
             packets[i].dts >= c.cutoff /\ o[k] = Moved(packets[i], c.offset)
    <3>1. <<>> \in Seq(Packet) /\ \A j \in DOMAIN <<>> : FALSE
      OBVIOUS
    <3>2. OutputOf(o, <<>>, packets, c.cutoff, c.offset)
      BY <2>3, <3>1, OutputHas
    <3> HIDE DEF o
    <3> QED BY <3>1, <3>2 DEF OutputOf
  <2> HIDE DEF o
  <2>7. \A k \in DOMAIN o : \E i \in DOMAIN packets :
          /\ packets[i].dts >= c.cutoff
          /\ o[k].dts = packets[i].dts + c.offset /\ o[k].pts = packets[i].pts + c.offset
          /\ o[k].kind = packets[i].kind
    <3>1. SUFFICES ASSUME NEW k \in DOMAIN o
          PROVE \E i \in DOMAIN packets :
                  /\ packets[i].dts >= c.cutoff
                  /\ o[k].dts = packets[i].dts + c.offset /\ o[k].pts = packets[i].pts + c.offset
                  /\ o[k].kind = packets[i].kind
      OBVIOUS
    <3>2. PICK i \in DOMAIN packets :
            packets[i].dts >= c.cutoff /\ o[k] = Moved(packets[i], c.offset)
      BY <2>6
    <3>3. PICK p \in Packet : p = packets[i]
      BY <2>5
    <3>4. PICK r : r = Moved(p, c.offset)
      OBVIOUS
    <3>5. r.dts = p.dts + c.offset /\ r.pts = p.pts + c.offset /\ r.kind = p.kind
      BY <2>3, <3>4, MovedIs
    <3> QED BY <3>2, <3>3, <3>4, <3>5
  <2>8. \A k \in DOMAIN o :
          /\ 0 <= o[k].dts /\ c.tail.output <= o[k].dts /\ c.cutoff + c.offset <= o[k].pts
          /\ o[k].kind = "Audio" => sounds[feed] + c.offset <= o[k].pts
    <3>1. SUFFICES ASSUME NEW k \in DOMAIN o
          PROVE /\ 0 <= o[k].dts /\ c.tail.output <= o[k].dts /\ c.cutoff + c.offset <= o[k].pts
                /\ o[k].kind = "Audio" => sounds[feed] + c.offset <= o[k].pts
      OBVIOUS
    <3>2. PICK i \in DOMAIN packets :
            /\ packets[i].dts >= c.cutoff
            /\ o[k].dts = packets[i].dts + c.offset /\ o[k].pts = packets[i].pts + c.offset
            /\ o[k].kind = packets[i].kind
      BY <2>7
    <3>3. sounds[feed] \in Int
      OBVIOUS
    <3>4. PICK dts \in Int, pts \in Int : /\ dts = packets[i].dts /\ pts = packets[i].pts
                                          /\ next[feed] <= dts /\ dts <= pts
      BY <2>5
    <3>5. o[k].dts = dts + c.offset /\ o[k].pts = pts + c.offset /\ c.cutoff <= dts
      BY <2>2, <3>2, <3>4
    <3>6. 0 <= o[k].dts /\ c.tail.output <= o[k].dts /\ c.cutoff + c.offset <= o[k].pts
      <4>1. PICK t \in Int, n \in Int, f \in Int, cut \in Int :
              t = c.tail.output /\ n = next[feed] /\ f = c.offset /\ cut = c.cutoff
        BY <2>2, <2>3
      <4>2. 0 <= t /\ t <= f + n /\ n <= dts /\ dts <= pts /\ cut <= dts
        BY <2>4, <3>4, <3>5, <4>1
      <4>3. 0 <= dts + f /\ t <= dts + f /\ cut + f <= pts + f
        BY SMTT(60), <4>2
      <4> QED BY <3>5, <4>1, <4>3
    <3>7. ASSUME o[k].kind = "Audio" PROVE sounds[feed] + c.offset <= o[k].pts
      <4>1. sounds[feed] <= pts
        BY <2>5, <3>2, <3>4, <3>7
      <4> QED BY <2>3, <3>3, <3>5, <4>1
    <3> QED BY <3>6, <3>7
  <2>9. CASE o = <<>>
    <3>1. d = c
      BY <1>3, <1>6, <2>9 DEF Emit, o
    <3> QED BY <1>2, <2>1, <3>1 DEF d, Goes
  <2>10. CASE o # <<>>
    <3>a. \A k \in DOMAIN o : o[k].pts \in Int
      BY <2>3, <2>5, <2>7
    <3>1. OfFeed(c) /\ Veiled(c, v) /\ Levels(c, v) /\ Queued(c, later)
      BY <1>1, <1>2 DEF Quiet
    <3>2. ASSUME feed = "Holding"
          PROVE  /\ \A a \in DOMAIN c.outbox : PicturesFrom(c.outbox[a].packets, v.sound)
                 /\ v.sound <= c.cutoff + c.offset /\ PicturesFrom(c.scheduled, v.sound)
                 /\ PicturesFrom(o, v.sound) /\ c.silent
      <4>1. /\ \A a \in DOMAIN c.outbox : PicturesFrom(c.outbox[a].packets, v.sound)
            /\ c.silent /\ v.sound <= c.cutoff + c.offset /\ PicturesFrom(c.scheduled, v.sound)
        BY <1>1, <2>2, <3>2 DEF Quiet, Hushed
      <4>2. PicturesFrom(o, v.sound)
        BY <2>2, <2>3, <2>8, <3>a, <4>1 DEF PicturesFrom
      <4> QED BY <4>1, <4>2
    <3>3. ASSUME feed = "Programme", pub <= c.epoch
          PROVE  Shown(c, v, mark0) /\ ToShow(c, v, later, mark0) /\ SoundFrom(o, mark0)
      <4>1. Shown(c, v, mark0) /\ ToShow(c, v, later, mark0) /\ ToShow(c, v, sounds, mark0)
        BY <1>1, <1>2, <2>2, <3>3 DEF Quiet, Curtain
      <4>2. mark0 <= sounds[feed] + c.offset /\ sounds[feed] \in Int
        BY <3>3, <4>1 DEF ToShow
      <4>3. SoundFrom(o, mark0)
        BY <2>3, <2>8, <3>a, <4>2 DEF SoundFrom, IsSound
      <4> QED BY <4>1, <4>3
    <3>4. Sendable(c, v, pub, later, mark0, feed, o)
      BY <3>1, <3>2, <3>3 DEF Sendable, ToShow
    <3>5. c.scheduled # <<>> => IF feed = "Holding" THEN c.paced_holding ELSE c.paced_programme
      BY Constants DEF Paced
    <3>6. c.published.output <= c.tail.output
      BY DEF Lined
    <3>7. Quiet(Emit(c, feed, <<>>, packets, FALSE), v, pub, later, mark0)
      BY <1>1, <2>2, <2>6, <2>8, <2>10, <3>4, <3>5, <3>6, EmitQuiet DEF o
    <3>8. d = Emit(c, feed, <<>>, packets, FALSE)
      BY <1>3, <1>6
    <3> QED BY <2>1, <3>7, <3>8 DEF d, Goes
  <2> QED BY <2>9, <2>10
<1> QED
  BY <1>4, <1>5, <1>6

\* The wait is emptied.
LEMMA EmptiedQuiet ==
  ASSUME NEW c, Typed(c), NEW d, d = [c EXCEPT !.waiting = <<>>],
         NEW v, NEW pub, NEW sounds, NEW mark, Quiet(c, v, pub, sounds, mark)
  PROVE  Quiet(d, v, pub, sounds, mark) /\ (Opening(c) => Opening(d)) /\ d.epoch = c.epoch
<1>1. /\ d.error = c.error /\ d.epoch = c.epoch /\ d.desired = c.desired
      /\ d.selected = c.selected /\ d.cutoff = c.cutoff /\ d.offset = c.offset
      /\ d.boundary = c.boundary /\ d.waiting = <<>> /\ d.silent = c.silent
      /\ d.scheduled = c.scheduled /\ d.outbox = c.outbox
      /\ d.tail = c.tail /\ d.published = c.published
      /\ d.paced_holding = c.paced_holding /\ d.paced_programme = c.paced_programme
      /\ d.drain_ticket = c.drain_ticket
  BY DEF Typed, Fields
<1>2. OfFeed(d) /\ Hushed(d, v) /\ Veiled(d, v)
  BY <1>1 DEF Quiet, OfFeed, Hushed, Veiled
<1>3. Curtain(d, v, pub, sounds, mark)
  BY <1>1 DEF Quiet, Curtain, Shown, ToShow
<1>4. d.error = None => Levels(d, v) /\ Begun(d) /\ Queued(d, sounds)
  BY <1>1 DEF Quiet, Levels, Begun, Queued
<1>5. Opening(c) => Opening(d)
  BY <1>1 DEF Opening
<1> QED
  BY <1>1, <1>2, <1>3, <1>4, <1>5 DEF Quiet

\* What waits is what the programme gave.
LEMMA HeldQuiet ==
  ASSUME NEW c, Typed(c), NEW q \in Seq(Packet), NEW d, d = [c EXCEPT !.waiting = q],
         NEW v, NEW pub, NEW sounds, NEW mark, Quiet(c, v, pub, sounds, mark),
         Given(q, sounds["Programme"])
  PROVE  Quiet(d, v, pub, sounds, mark)
<1>1. /\ d.error = c.error /\ d.epoch = c.epoch /\ d.desired = c.desired
      /\ d.selected = c.selected /\ d.cutoff = c.cutoff /\ d.offset = c.offset
      /\ d.boundary = c.boundary /\ d.waiting = q /\ d.silent = c.silent
      /\ d.scheduled = c.scheduled /\ d.outbox = c.outbox
      /\ d.tail = c.tail /\ d.published = c.published
  BY DEF Typed, Fields
<1>2. OfFeed(d) /\ Hushed(d, v) /\ Veiled(d, v)
  BY <1>1 DEF Quiet, OfFeed, Hushed, Veiled
<1>3. Curtain(d, v, pub, sounds, mark)
  BY <1>1 DEF Quiet, Curtain, Shown, ToShow
<1>4. d.error = None => Levels(d, v) /\ Begun(d) /\ Queued(d, sounds)
  <2>1. SUFFICES ASSUME d.error = None PROVE Levels(d, v) /\ Begun(d) /\ Queued(d, sounds)
    OBVIOUS
  <2>2. Levels(c, v) /\ Begun(c) /\ Queued(c, sounds)
    BY <1>1, <2>1 DEF Quiet
  <2>3. Levels(d, v) /\ Begun(d)
    BY <1>1, <2>2 DEF Levels, Begun
  <2>4. Queued(d, sounds)
    BY <1>1, <2>2 DEF Queued, Given
  <2> QED BY <2>3, <2>4
<1> QED
  BY <1>2, <1>3, <1>4 DEF Quiet

\* What waited, and what is ready behind it.
LEMMA JoinGiven ==
  ASSUME NEW c, Typed(c), NEW sounds, Queued(c, sounds), NEW m \in Int, sounds["Programme"] \in Int,
         sounds["Programme"] <= m, NEW ready \in Seq(Packet), Given(ready, m),
         NEW all, all = c.waiting \o ready
  PROVE  all \in Seq(Packet) /\ Given(all, m)
<1>1. c.waiting \in Seq(Packet)
  BY DEF Typed
<1>2. /\ all \in Seq(Packet)
      /\ \A i \in DOMAIN all : \/ i \in DOMAIN c.waiting /\ all[i] = c.waiting[i]
                               \/ i - Len(c.waiting) \in DOMAIN ready
                                  /\ all[i] = ready[i - Len(c.waiting)]
  BY <1>1
<1>3. \A i \in DOMAIN c.waiting : c.waiting[i].pts \in Int
  <2>1. \A i \in DOMAIN c.waiting : c.waiting[i] \in Packet
    BY <1>1
  <2> QED BY <2>1 DEF Packet
<1>4. \A i \in DOMAIN c.waiting :
        Coded(c.waiting[i]) /\ (c.waiting[i].kind = "Audio" => c.waiting[i].pts <= m)
  <2>1. SUFFICES ASSUME NEW i \in DOMAIN c.waiting
        PROVE Coded(c.waiting[i]) /\ (c.waiting[i].kind = "Audio" => c.waiting[i].pts <= m)
    OBVIOUS
  <2>2. /\ Coded(c.waiting[i])
        /\ c.waiting[i].kind = "Audio" => c.waiting[i].pts <= sounds["Programme"]
    BY DEF Queued
  <2> QED BY <1>3, <2>2
<1>5. \A i \in DOMAIN all : Coded(all[i]) /\ (all[i].kind = "Audio" => all[i].pts <= m)
  BY <1>2, <1>4 DEF Given
<1> QED
  BY <1>2, <1>5 DEF Given

\* What was ready is released in the epoch, or in a new one.
LEMMA ReleaseReadyQuiet ==
  ASSUME NEW c, Typed(c), Clear(c), ~c.paced_holding, NEW v, Viewed(v), NEW pub \in Int,
         NEW next \in [Feeds -> Int], NEW sounds \in [Feeds -> Int], NEW later \in [Feeds -> Int],
         \A f \in Feeds : sounds[f] <= later[f],
         NEW c1, c1 = [c EXCEPT !.waiting = <<>>], Lined(c1), Paced(c1), Ahead(c1, next),
         NEW mark0 \in Int, Quiet(c, v, pub, sounds, mark0), Released(c),
         NEW ready \in Seq(Packet), Given(ready, later["Programme"]),
         c.desired = "Programme" => \A i \in DOMAIN ready :
           /\ next["Programme"] <= ready[i].dts
           /\ ready[i].kind = "Audio" => sounds["Programme"] <= ready[i].pts
  PROVE  Goes(ReleaseReady(c, ready), c, "Programme", v, pub, later)
<1> DEFINE all == c.waiting \o ready
           key == FromKeyframe(all)
           i   == Invalidate(c1, c.epoch + 1)
           d   == [i EXCEPT !.desired = "Programme"]
           h   == HoldBack(c1, TRUE)
           r   == ReleaseReady(c, ready)
<1>1. r = IF all = <<>> THEN c
          ELSE IF c.desired = "Programme" THEN Publish(c1, "Programme", all)
          ELSE IF key = <<>> THEN h
          ELSE IF c.epoch # publication_epoch THEN c1
          ELSE Publish(d, "Programme", key)
  BY DEF ReleaseReady
<1>2. /\ "Programme" \in Feeds /\ sounds["Programme"] \in Int /\ later["Programme"] \in Int
      /\ sounds["Programme"] <= later["Programme"] /\ c.error = None
  BY Constants DEF Clear
<1>3. Levels(c, v) /\ Queued(c, sounds) /\ Veiled(c, v)
  BY <1>2 DEF Quiet
<1>4. all \in Seq(Packet) /\ Given(all, later["Programme"])
  BY <1>2, <1>3, JoinGiven
<1>5. c.waiting = <<>> => all = ready
  OBVIOUS
<1> HIDE DEF all
<1>6. /\ key \in Seq(Packet)
      /\ \A k \in DOMAIN key : \E j \in DOMAIN all : key[k] = all[j]
  BY <1>4, FromKeyframeIs
<1> HIDE DEF key
<1>7. Given(key, later["Programme"])
  BY <1>4, <1>6 DEF Given
<1>8. /\ Typed(c1) /\ c1.error = None /\ c1.outbox = <<>>
      /\ c1.paced_holding = c.paced_holding
      /\ c1.desired = c.desired /\ c1.waiting = <<>> /\ c1.epoch = c.epoch
      /\ c1.tail = c.tail /\ c1.published = c.published /\ c1.scheduled = c.scheduled
      /\ c1.paced_programme = c.paced_programme /\ c1.selected = c.selected
      /\ c.epoch + 1 \in Nat
  BY EmptiedIs, Zenon
<1>9. Quiet(c1, v, pub, sounds, mark0) /\ (Opening(c) => Opening(c1)) /\ c1.epoch = c.epoch
  BY EmptiedQuiet
<1>10. Quiet(c1, v, pub, later, mark0) /\ Quiet(c, v, pub, later, mark0)
  <2>1. pub <= pub
    OBVIOUS
  <2> QED BY <1>8, <1>9, <2>1, LaterSounds
<1>11. CASE all = <<>>
  BY <1>1, <1>10, <1>11 DEF Goes
<1>12. CASE all # <<>> /\ c.desired = "Programme"
  <2>1. all = ready
    BY <1>5, <1>12 DEF Released
  <2>2. Clear(c1)
    BY <1>8 DEF Clear
  <2>3. Goes(Publish(c1, "Programme", ready), c1, "Programme", v, pub, later)
    BY <1>2, <1>8, <1>9, <1>12, <2>2, PublishQuiet
  <2>4. r = Publish(c1, "Programme", ready)
    BY <1>1, <1>12, <2>1
  <2> QED BY <1>9, <2>3, <2>4 DEF Goes, r
<1>13. ASSUME c.desired # "Programme", r = h PROVE Goes(r, c, "Programme", v, pub, later)
  <2>1. /\ Alike(c1, h) /\ h.scheduled = c1.scheduled /\ h.outbox = c1.outbox
        /\ h.tail = c1.tail /\ h.published = c1.published
    BY <1>8 DEF HoldBack, Alike, Typed, Fields
  <2> HIDE DEF h, r
  <2>2. Quiet(h, v, pub, later, mark0)
    BY <1>10, <2>1, QuietAgrees
  <2> QED BY <1>13, <2>2 DEF Goes, Opening
<1>14. ASSUME c.desired # "Programme", r = c1 PROVE Goes(r, c, "Programme", v, pub, later)
  BY <1>10, <1>14 DEF Goes, Opening
<1>15. ASSUME c.desired # "Programme", r = Publish(d, "Programme", key)
       PROVE Goes(r, c, "Programme", v, pub, later)
  <2>1. /\ Typed(i) /\ i.epoch = c.epoch + 1 /\ i.selected = None /\ i.cutoff = None
        /\ i.boundary = <<>> /\ i.outbox = <<>> /\ i.published = c1.published
        /\ i.tail = c1.tail /\ i.scheduled = c1.scheduled /\ i.waiting = <<>>
        /\ ~i.paced_holding /\ i.error = None /\ i.silent = c1.silent
    BY <1>8 DEF Invalidate, Typed, Fields
  <2> HIDE DEF i, r
  <2>2. /\ Typed(d) /\ d.desired = "Programme" /\ d.selected = None /\ d.cutoff = None
        /\ d.boundary = <<>> /\ d.outbox = <<>> /\ d.published = c1.published
        /\ d.tail = c1.tail /\ d.scheduled = c1.scheduled /\ d.waiting = <<>>
        /\ ~d.paced_holding /\ d.error = None /\ d.silent = c1.silent
    BY <2>1, Constants DEF Typed, Fields
  <2> HIDE DEF d
  <2>3. c1.scheduled = <<>>
    BY <1>8, <1>15, Constants DEF Paced
  <2>4. Lined(d) /\ Paced(d) /\ Ahead(d, next)
    BY <2>2, <2>3 DEF Lined, Paced, Ahead
  <2>5. Levels(c1, v) /\ Veiled(c1, v)
    BY <1>8, <1>9 DEF Quiet
  <2>6. Levels(d, v) /\ Veiled(d, v) /\ Queued(d, sounds)
    BY <1>8, <2>2, <2>5 DEF Levels, Veiled, Queued
  <2>7. Quiet(d, v, pub, sounds, mark0)
    BY <2>2, <2>6, FreshQuiet
  <2>8. Clear(d)
    BY <2>2 DEF Clear
  <2>9. Goes(Publish(d, "Programme", key), d, "Programme", v, pub, later)
    BY <1>2, <1>6, <1>7, <2>2, <2>4, <2>7, <2>8, PublishQuiet
  <2> QED BY <1>15, <2>9 DEF Goes, Opening
<1> HIDE DEF h, d, i
<1>16. \/ all = <<>>
       \/ all # <<>> /\ c.desired = "Programme"
       \/ c.desired # "Programme" /\ (r = h \/ r = c1 \/ r = Publish(d, "Programme", key))
  BY <1>1
<1> HIDE DEF r
<1>17. Goes(r, c, "Programme", v, pub, later)
  BY <1>11, <1>12, <1>13, <1>14, <1>15, <1>16 DEF r
<1> QED
  BY <1>17 DEF r

\* What is ready while holding is paced waits.
LEMMA WaitQuiet ==
  ASSUME NEW c, Typed(c), c.error = None, c.paced_holding, NEW v, Viewed(v), NEW pub \in Int,
         NEW sounds \in [Feeds -> Int], NEW later \in [Feeds -> Int],
         \A f \in Feeds : sounds[f] <= later[f],
         NEW mark0 \in Int, Quiet(c, v, pub, sounds, mark0),
         NEW ready \in Seq(Packet), Given(ready, later["Programme"])
  PROVE  Goes(Wait(c, ready), c, "Programme", v, pub, later)
<1> DEFINE held  == IF c.waiting = <<>> /\ FromKeyframe(ready) = <<>> THEN <<>> ELSE ready
           queue == c.waiting \o held
           c1    == HoldBack(c, held # <<>>)
           d     == [c1 EXCEPT !.waiting = queue]
           w     == Wait(c, ready)
<1>1. w = IF held = <<>> THEN c
          ELSE IF Len(queue) > Capacity \/ Last(queue).dts - queue[1].dts > Window
          THEN Fail(c1, "GuardOverflow") ELSE d
  BY DEF Wait
<1>2. Quiet(c, v, pub, later, mark0)
  <2>1. pub <= pub
    OBVIOUS
  <2> QED BY <2>1, LaterSounds
<1>3. held \in Seq(Packet) /\ Given(held, later["Programme"])
  BY DEF Given
<1> HIDE DEF held
<1>4. /\ Typed(c1) /\ Alike(c, c1) /\ c1.scheduled = c.scheduled /\ c1.outbox = c.outbox
      /\ c1.tail = c.tail /\ c1.published = c.published
  BY DEF HoldBack, Alike, Typed, Fields
<1> HIDE DEF c1
<1>5. Quiet(c1, v, pub, later, mark0)
  BY <1>2, <1>4, QuietAgrees
<1>6. Quiet(Fail(c1, "GuardOverflow"), v, pub, later, mark0)
  BY <1>4, <1>5, FailQuiet DEF Errors, Alike
<1>7. Quiet(d, v, pub, later, mark0)
  <2>1. "Programme" \in Feeds /\ later["Programme"] \in Int /\ later["Programme"] <= later["Programme"]
    BY Constants
  <2>2. Queued(c1, later) /\ queue = c1.waiting \o held
    BY <1>4, <1>5 DEF Quiet, Alike
  <2>3. queue \in Seq(Packet) /\ Given(queue, later["Programme"])
    BY <1>3, <1>4, <2>1, <2>2, JoinGiven
  <2> QED BY <1>4, <1>5, <2>3, HeldQuiet
<1>8. Quiet(w, v, pub, later, mark0)
  BY <1>1, <1>2, <1>6, <1>7
<1> QED
  BY <1>8 DEF Goes, Opening

\* An action starts over behind what was published.
LEMMA RestartQuiet ==
  ASSUME NEW c, Typed(c), Clear(c), NEW e \in Nat, NEW direct \in BOOLEAN,
         NEW v, NEW pub, NEW pub2, NEW sounds, NEW later, NEW mark, Quiet(c, v, pub, sounds, mark)
  PROVE  Quiet(Restart(Invalidate(c, e), direct), v, pub2, later, mark)
<1> DEFINE i == Invalidate(c, e)
           u == Unplayed(i)
           guard == ~direct /\ i.published.output >= 0
           d == Restart(i, direct)
<1>1. /\ Typed(i) /\ i.selected = None /\ i.cutoff = None
      /\ i.boundary = <<>> /\ i.outbox = <<>> /\ i.published = c.published
      /\ i.error = None /\ i.silent = c.silent
  <2>1. i = [c EXCEPT !.epoch = e, !.boundary_left = Deadline, !.programme_left = None,
                      !.key_left = Deadline, !.selected = None, !.cutoff = None,
                      !.boundary = <<>>]
    BY DEF Invalidate
  <2> HIDE DEF i
  <2>2. /\ Typed(i) /\ i.selected = None /\ i.cutoff = None
        /\ i.boundary = <<>> /\ i.published = c.published
    BY <2>1 DEF Typed, Fields
  <2>3. i.outbox = c.outbox /\ i.error = c.error /\ i.silent = c.silent
    BY <2>1 DEF Typed, Fields
  <2> QED BY <2>2, <2>3 DEF Clear
<1> HIDE DEF i
<1>2. /\ Typed(u) /\ u.waiting = <<>> /\ u.scheduled = <<>>
      /\ u.selected = None /\ u.cutoff = None
      /\ u.boundary = <<>> /\ u.outbox = <<>> /\ u.published = c.published
      /\ u.error = None /\ u.silent = c.silent
  BY <1>1 DEF Unplayed, Typed, Fields
<1>3. d = [u EXCEPT
                !.desired = IF direct THEN "Programme" ELSE "Holding",
                !.tail = i.published, !.headers = None, !.ack_age = None, !.paced_programme = FALSE,
                !.boundary_sent = FALSE, !.boundary_delivered = FALSE,
                !.drain_required = guard, !.guard_active = guard,
                !.paced_holding = guard, !.drain_ticket = 0,
                !.holding_ticket = 0, !.programme_ticket = 0]
  BY DEF Restart, PublishedTail
<1> HIDE DEF u, d, guard
<1>4. /\ d.tail = i.published /\ d.waiting = <<>> /\ d.scheduled = <<>>
      /\ d.selected = None /\ d.cutoff = None
      /\ d.boundary = <<>> /\ d.outbox = <<>> /\ d.published = i.published
      /\ d.error = None /\ d.silent = c.silent
  BY ZenonT(60), <1>1, <1>2, <1>3 DEF Typed, Fields
<1>5. Levels(c, v) /\ Veiled(c, v) /\ c.error = None
  BY DEF Quiet, Clear
<1>6. Veiled(d, v)
  BY <1>1, <1>4, <1>5 DEF Veiled
<1>7. Levels(d, v)
  <2>1. Level(d.published, v) /\ Level(d.tail, v)
    BY <1>1, <1>4, <1>5 DEF Levels
  <2> QED BY <1>4, <2>1 DEF Levels, Covers, NotBefore
<1>8. Queued(d, later)
  BY <1>4 DEF Queued
<1>9. Quiet(d, v, pub2, later, mark)
  BY <1>4, <1>6, <1>7, <1>8, FreshQuiet
<1> QED
  BY <1>9 DEF d, i

(* check_deadline, once more.                                               *)

\* What is due goes on air.
LEMMA DueQuiet ==
  ASSUME NEW c, Typed(c), c.error = None, Lined(c), NEW v, Viewed(v), NEW pub, NEW sounds,
         NEW mark \in Int, Quiet(c, v, pub, sounds, mark),
         NEW feed \in Feeds, c.selected = feed,
         NEW age, NEW origin, NEW due, due = Due(c, age, origin), due # <<>>
  PROVE  LET d == Dispatched(Unscheduled(c, due), feed, due)
         IN  Typed(d) /\ Quiet(d, v, pub, sounds, mark)
<1> DEFINE s == c.scheduled
<1>1. s \in Seq(Packet)
  BY DEF Typed
<1>2. PICK n \in 0..Len(s) : due = SubSeq(s, 1, n)
  BY <1>1, DueIs
<1> DEFINE rest == SubSeq(s, n + 1, Len(s))
           e == Unscheduled(c, due)
           d == Dispatched(e, feed, due)
<1>3. /\ due \in Seq(Packet) /\ rest \in Seq(Packet) /\ Len(due) = n
      /\ DOMAIN due = 1..n /\ \A i \in 1..n : due[i] = s[i]
      /\ DOMAIN rest = 1..(Len(s) - n)
      /\ \A i \in 1..(Len(s) - n) : rest[i] = s[i + n]
  BY <1>1, <1>2, PrefixIs
<1>4. n \in Nat /\ n <= Len(s) /\ Len(s) \in Nat /\ DOMAIN s = 1..Len(s)
  BY <1>1, <1>2
<1>5. e = [c EXCEPT !.scheduled = rest]
  BY <1>3 DEF Unscheduled
<1> HIDE DEF rest, e
<1>6. /\ Typed(e) /\ e.scheduled = rest /\ Alike(c, e) /\ e.outbox = c.outbox
      /\ e.tail = c.tail /\ e.published = c.published
  BY <1>3, <1>5 DEF Typed, Fields, Alike
<1>7. Parts(c.scheduled, due, e.scheduled)
  <2>1. Len(rest) \in Nat /\ DOMAIN rest = 1..Len(rest)
    BY <1>3
  <2>2. Len(rest) = Len(s) - n
    <3>0. Len(s) - n \in Nat
      BY <1>4
    <3>1. PICK k, l : k = Len(rest) /\ l = Len(s) - n
      OBVIOUS
    <3>a. k \in Nat /\ l \in Nat
      BY <2>1, <3>0, <3>1
    <3>2. 1..k = 1..l
      BY <1>3, <2>1, <3>1
    <3>3. k = l
      BY <3>2, <3>a
    <3> QED BY <3>1, <3>3
  <2>3. DOMAIN s = 1..(Len(due) + Len(rest))
    BY <1>3, <1>4, <2>2
  <2> QED BY <1>3, <1>6, <2>3 DEF Parts
<1>8. Quiet(d, v, pub, sounds, mark)
  BY <1>3, <1>6, <1>7, PlayedQuiet
<1>9. Typed(d)
  BY <1>3, <1>6, PlayedIs
<1> QED
  BY <1>8, <1>9 DEF e

\* The clock alone changes nothing.
LEMMA LaterQuiet ==
  ASSUME NEW c, Typed(c), NEW v, NEW pub, NEW sounds, NEW mark \in Int,
         Quiet(c, v, pub, sounds, mark)
  PROVE  Goes(Later(c), c, "Programme", v, pub, sounds)
<1> DEFINE d == Later(c)
<1>1. /\ Alike(c, d) /\ d.scheduled = c.scheduled /\ d.outbox = c.outbox
      /\ d.tail = c.tail /\ d.published = c.published
      /\ d.paced_holding = c.paced_holding /\ d.paced_programme = c.paced_programme
      /\ d.drain_ticket = c.drain_ticket
  BY DEF Later, Alike, Typed, Fields
<1> HIDE DEF d
<1>2. Quiet(d, v, pub, sounds, mark)
  BY <1>1, QuietAgrees
<1>3. Opening(c) => Opening(d) /\ d.epoch = c.epoch
  BY <1>1 DEF Opening, Alike
<1>4. Goes(d, c, "Programme", v, pub, sounds)
  BY <1>2, <1>3 DEF Goes
<1> QED
  BY <1>4 DEF d

\* What stays as it is stays quiet.
LEMMA GoesStill ==
  ASSUME NEW c, NEW v, NEW pub, NEW sounds, NEW mark \in Int, Quiet(c, v, pub, sounds, mark)
  PROVE  Goes(c, c, "Programme", v, pub, sounds)
  BY DEF Goes

\* Holding that is due goes on air.
LEMMA GuardStepQuiet ==
  ASSUME NEW c, Typed(c), c.error = None, Lined(c), Paced(c), NEW v, Viewed(v), NEW pub,
         NEW sounds, NEW mark \in Int, Quiet(c, v, pub, sounds, mark)
  PROVE  Goes(GuardStep(c), c, "Programme", v, pub, sounds)
<1> DEFINE c1  == [c EXCEPT !.ack_age = IF @ = None THEN 0 ELSE @]
           due == Due(c1, c1.ack_age, c1.drain_time)
           c2  == Dispatched(Unscheduled(c1, due), "Holding", due)
           d   == [c2 EXCEPT !.holding_ticket = IF @ = 0 /\ HasSound(due) THEN c2.ticket ELSE @]
           g   == GuardStep(c)
<1>1. /\ ~c.paced_holding => g = c
      /\ \/ g = c \/ g = Fail(c, "GuardTimeout") \/ g = c1
         \/ due # <<>> /\ g = d
  BY DEF GuardStep
<1>2. /\ Typed(c1) /\ Alike(c, c1) /\ c1.scheduled = c.scheduled /\ c1.outbox = c.outbox
      /\ c1.tail = c.tail /\ c1.published = c.published
  BY DEF Alike, Typed, Fields
<1> HIDE DEF c1
<1>3. Quiet(c1, v, pub, sounds, mark)
  BY <1>2, QuietAgrees
<1>4. Quiet(Fail(c, "GuardTimeout"), v, pub, sounds, mark)
  BY FailQuiet DEF Errors
<1>5. ASSUME due # <<>>, c.paced_holding PROVE Quiet(d, v, pub, sounds, mark)
  <2>1. c.scheduled # <<>>
    <3>1. c1.scheduled \in Seq(Packet)
      BY <1>2 DEF Typed
    <3>2. PICK n \in 0..Len(c1.scheduled) : due = SubSeq(c1.scheduled, 1, n)
      BY <3>1, DueIs
    <3>3. Len(due) = n /\ due \in Seq(Packet)
      BY <3>1, <3>2, PrefixIs
    <3> HIDE DEF due
    <3>4. Len(c1.scheduled) # 0
      BY <1>5, <3>3
    <3> QED BY <1>2, <3>1, <3>4
  <2>2. c1.selected = "Holding" /\ c1.error = None /\ Lined(c1)
    BY <1>2, <1>5, <2>1 DEF Paced, Alike, Lined
  <2> HIDE DEF due
  <2>3. Typed(c2) /\ Quiet(c2, v, pub, sounds, mark)
    BY <1>2, <1>3, <1>5, <2>2, DueQuiet, Constants DEF due
  <2> HIDE DEF c2
  <2>4. /\ Alike(c2, d) /\ d.scheduled = c2.scheduled /\ d.outbox = c2.outbox
        /\ d.tail = c2.tail /\ d.published = c2.published
    BY <2>3 DEF Alike, Typed, Fields
  <2> HIDE DEF d
  <2> QED BY <2>3, <2>4, QuietAgrees
<1> HIDE DEF due, d, g
<1>6. CASE c.paced_holding
  <2>1. Quiet(g, v, pub, sounds, mark)
    BY <1>1, <1>3, <1>4, <1>5, <1>6
  <2>2. ~Opening(c)
    BY <1>6 DEF Opening
  <2> QED BY <2>1, <2>2 DEF Goes, g
<1>7. CASE ~c.paced_holding
  BY <1>1, <1>7, GoesStill DEF g
<1> QED
  BY <1>6, <1>7

\* The programme that waited is released.
LEMMA ResumeStepQuiet ==
  ASSUME NEW c, Typed(c), Clear(c), NEW v, Viewed(v), NEW pub \in Int,
         NEW next \in [Feeds -> Int], NEW sounds \in [Feeds -> Int],
         Lined(c), Paced(c), Ahead(c, next),
         NEW mark \in Int, Quiet(c, v, pub, sounds, mark)
  PROVE  Goes(ResumeStep(c), c, "Programme", v, pub, sounds)
<1> DEFINE g  == c.guard_active /\ ~(c.holding_ticket # 0 /\ Delivered(c, c.holding_ticket))
           c1 == [c EXCEPT !.guard_active = g]
           r  == [c1 EXCEPT !.paced_holding = FALSE]
           ends == c.paced_holding /\ ~c1.guard_active /\ c1.waiting # <<>>
                   /\ c1.scheduled = <<>> /\ Delivered(c1, c1.ticket)
           d  == ResumeStep(c)
<1>1. d = IF ends THEN ReleaseReady(r, <<>>) ELSE IF c.paced_holding THEN c1 ELSE c
  BY DEF ResumeStep
<1> HIDE DEF g
<1>2. /\ Typed(c1) /\ Alike(c, c1) /\ c1.scheduled = c.scheduled /\ c1.outbox = c.outbox
      /\ c1.tail = c.tail /\ c1.published = c.published
      /\ c1.paced_holding = c.paced_holding /\ c1.paced_programme = c.paced_programme
  BY DEF Alike, Typed, Fields
<1> HIDE DEF c1
<1>3. Quiet(c1, v, pub, sounds, mark)
  BY <1>2, QuietAgrees
<1>4. ASSUME ends PROVE \E m \in Int : Quiet(ReleaseReady(r, <<>>), v, pub, sounds, m)
  <2>1. c.paced_holding /\ c1.scheduled = <<>>
    BY <1>4
  <2>2. r = [c1 EXCEPT !.paced_holding = FALSE]
    OBVIOUS
  <2> HIDE DEF r
  <2>3. /\ Typed(r) /\ ~r.paced_holding /\ r.paced_programme = c1.paced_programme
        /\ Alike(c1, r) /\ r.scheduled = c1.scheduled /\ r.outbox = c1.outbox
        /\ r.tail = c1.tail /\ r.published = c1.published
    BY <1>2, <2>2 DEF Typed, Fields, Alike
  <2>4. Quiet(r, v, pub, sounds, mark)
    BY <1>3, <2>3, QuietAgrees
  <2> DEFINE e == [r EXCEPT !.waiting = <<>>]
  <2>5. /\ Typed(e) /\ e.waiting = <<>> /\ e.paced_holding = r.paced_holding
        /\ e.paced_programme = r.paced_programme
        /\ e.desired = r.desired /\ e.selected = r.selected
        /\ e.cutoff = r.cutoff /\ e.offset = r.offset /\ e.boundary = r.boundary
        /\ e.scheduled = r.scheduled /\ e.tail = r.tail /\ e.published = r.published
    <3>1. Fields \subseteq DOMAIN e /\ e.waiting = <<>>
      BY <2>3 DEF Typed, Fields
    <3>2. /\ e.epoch = r.epoch /\ e.ticket = r.ticket /\ e.desired = r.desired
          /\ e.selected = r.selected /\ e.published_feed = r.published_feed
          /\ e.cutoff = r.cutoff /\ e.offset = r.offset /\ e.boundary = r.boundary
          /\ e.headers = r.headers /\ e.scheduled = r.scheduled /\ e.outbox = r.outbox
          /\ e.tail = r.tail /\ e.published = r.published
          /\ e.drain_required = r.drain_required /\ e.silent = r.silent
          /\ e.paced_holding = r.paced_holding /\ e.paced_programme = r.paced_programme
      OBVIOUS
    <3> HIDE DEF e
    <3>3. Typed(e)
      BY <2>3, <3>1, <3>2 DEF Typed
    <3> QED BY <3>1, <3>2, <3>3
  <2>6. e = [r EXCEPT !.waiting = <<>>]
    OBVIOUS
  <2> HIDE DEF e
  <2>7. c.desired = "Holding" /\ r.desired = "Holding" /\ r.desired # "Programme"
    BY <1>2, <2>1, <2>3, Constants DEF Paced, Alike
  <2>8. Lined(e) /\ Ahead(e, next)
    BY <1>2, <2>3, <2>5 DEF Lined, Ahead, Alike
  <2>9. Paced(e)
    BY <1>2, <2>1, <2>3, <2>5 DEF Paced, Alike
  <2>10. Released(r) /\ Clear(r)
    BY <1>2, <2>3, <2>7 DEF Released, Clear, Alike
  <2>11. <<>> \in Seq(Packet) /\ Given(<<>>, sounds["Programme"])
    BY DEF Given
  <2>12. \A f \in Feeds : sounds[f] <= sounds[f]
    OBVIOUS
  <2>13. Goes(ReleaseReady(r, <<>>), r, "Programme", v, pub, sounds)
    BY <2>3, <2>4, <2>6, <2>7, <2>8, <2>9, <2>10, <2>11, <2>12, ReleaseReadyQuiet
  <2> QED BY <2>13 DEF Goes
<1> HIDE DEF d, r
<1>5. CASE c.paced_holding
  <2>1. \E m \in Int : Quiet(d, v, pub, sounds, m)
    BY <1>1, <1>3, <1>4
  <2>2. ~Opening(c)
    BY <1>5 DEF Opening
  <2> QED BY <2>1, <2>2 DEF Goes, d
<1>6. CASE ~c.paced_holding
  BY <1>1, <1>6, GoesStill DEF d
<1> QED
  BY <1>5, <1>6

\* A schedule that something is due of is not empty.
LEMMA DueOfSome ==
  ASSUME NEW c, c.scheduled \in Seq(Packet), NEW age, NEW origin,
         NEW due, due = Due(c, age, origin), due # <<>>
  PROVE  c.scheduled # <<>>
<1>1. PICK n \in 0..Len(c.scheduled) : due = SubSeq(c.scheduled, 1, n)
  BY DueIs
<1>2. Len(due) = n /\ due \in Seq(Packet)
  BY <1>1, PrefixIs
<1>3. Len(c.scheduled) # 0
  BY <1>1, <1>2
<1> QED
  BY <1>3

\* Programme that is due goes on air.
LEMMA PaceStepQuiet ==
  ASSUME NEW c, Typed(c), c.error = None => Lined(c) /\ Paced(c), NEW v, Viewed(v), NEW pub,
         NEW sounds, NEW mark \in Int, Quiet(c, v, pub, sounds, mark)
  PROVE  Goes(PaceStep(c), c, "Programme", v, pub, sounds)
<1> DEFINE due == Due(c, c.resume_age, c.resume_time)
           c1  == Dispatched(Unscheduled(c, due), "Programme", due)
           sent == c.boundary_sent \/ HasSound(due)
           d    == [c1 EXCEPT !.boundary_sent = sent,
                      !.programme_ticket = IF sent /\ @ = 0 THEN c1.ticket ELSE @]
           g    == PaceStep(c)
<1>1. g = IF ~c.paced_programme \/ c.error # None \/ due = <<>> THEN c ELSE d
  BY DEF PaceStep
<1> HIDE DEF due
<1>2. ASSUME c.error = None, c.paced_programme, due # <<>> PROVE Quiet(d, v, pub, sounds, mark)
  <2>1. c.scheduled \in Seq(Packet)
    BY DEF Typed
  <2>2. c.scheduled # <<>>
    BY <1>2, <2>1, DueOfSome DEF due
  <2>3. c.selected = "Programme" /\ Lined(c)
    BY <1>2, <2>2 DEF Paced
  <2>4. Typed(c1) /\ Quiet(c1, v, pub, sounds, mark)
    BY <1>2, <2>3, DueQuiet, Constants DEF due
  <2> HIDE DEF c1, sent
  <2>5. /\ Alike(c1, d) /\ d.scheduled = c1.scheduled /\ d.outbox = c1.outbox
        /\ d.tail = c1.tail /\ d.published = c1.published
    BY <2>4 DEF Alike, Typed, Fields
  <2> HIDE DEF d
  <2> QED BY <2>4, <2>5, QuietAgrees
<1> HIDE DEF d, g
<1>3. CASE g = c
  BY <1>3, GoesStill DEF g
<1>4. CASE c.error = None /\ c.paced_programme /\ due # <<>> /\ g = d
  <2>1. ~Opening(c)
    BY <1>4 DEF Opening
  <2>2. Quiet(g, v, pub, sounds, mark)
    BY <1>2, <1>4
  <2> QED BY <2>1, <2>2 DEF Goes, g
<1> QED
  BY <1>1, <1>3, <1>4

\* The pacing ends, and with it the schedule.
LEMMA SettleStepQuiet ==
  ASSUME NEW c, Typed(c), c.error = None, Lined(c), Paced(c), NEW v, Viewed(v), NEW pub,
         NEW sounds, NEW mark \in Int, Quiet(c, v, pub, sounds, mark)
  PROVE  Goes(SettleStep(c), c, "Programme", v, pub, sounds)
<1> DEFINE c1 == [c EXCEPT !.paced_programme = FALSE, !.boundary_delivered = TRUE]
           e  == [c1 EXCEPT !.scheduled = <<>>]
           s  == c.scheduled
           arrived == c.boundary_delivered
                      \/ (c.boundary_sent /\ Delivered(c, c.programme_ticket))
           g  == SettleStep(c)
<1>1. g = IF ~c.paced_programme THEN c
          ELSE IF ~arrived
          THEN IF c.boundary_left = 0 THEN Fail(c, "GuardTimeout") ELSE c
          ELSE IF s = <<>> THEN c1 ELSE Dispatched(e, "Programme", s)
  BY DEF SettleStep
<1>2. Quiet(Fail(c, "GuardTimeout"), v, pub, sounds, mark)
  BY FailQuiet DEF Errors
<1>3. /\ Typed(c1) /\ Alike(c, c1) /\ c1.scheduled = c.scheduled /\ c1.outbox = c.outbox
      /\ c1.tail = c.tail /\ c1.published = c.published
  BY DEF Alike, Typed, Fields
<1> HIDE DEF c1
<1>4. /\ Typed(e) /\ Alike(c, e) /\ e.scheduled = <<>> /\ e.outbox = c.outbox
      /\ e.tail = c.tail /\ e.published = c.published
  BY <1>3 DEF Alike, Typed, Fields
<1> HIDE DEF e
<1>5. Quiet(c1, v, pub, sounds, mark)
  BY <1>3, QuietAgrees
<1>6. ASSUME s # <<>>, c.paced_programme
      PROVE  Quiet(Dispatched(e, "Programme", s), v, pub, sounds, mark)
  <2>1. s \in Seq(Packet)
    BY DEF Typed
  <2>2. c.selected = "Programme"
    BY <1>6 DEF Paced
  <2>3. Parts(c.scheduled, s, e.scheduled)
    <3>1. s \o <<>> = s
      BY <2>1
    <3>0. <<>> \in Seq(Packet)
      OBVIOUS
    <3>2. Parts(s \o <<>>, s, <<>>)
      BY <2>1, <3>0, JoinIs, Zenon
    <3> QED BY <1>4, <3>1, <3>2
  <2> HIDE DEF s
  <2> QED BY <1>4, <1>6, <2>1, <2>2, <2>3, PlayedQuiet, Constants
<1> HIDE DEF g
<1>7. CASE c.paced_programme
  <2>1. Quiet(g, v, pub, sounds, mark)
    BY <1>1, <1>2, <1>5, <1>6, <1>7
  <2>2. ~Opening(c)
    BY <1>7 DEF Opening
  <2> QED BY <2>1, <2>2 DEF Goes, g
<1>8. CASE ~c.paced_programme
  BY <1>1, <1>8, GoesStill DEF g
<1> QED
  BY <1>7, <1>8

\* A limit that is reached takes nothing back.
LEMMA LimitStepQuiet ==
  ASSUME NEW c, Typed(c), NEW v, NEW pub, NEW sounds, NEW mark \in Int,
         Quiet(c, v, pub, sounds, mark)
  PROVE  Goes(LimitStep(c), c, "Programme", v, pub, sounds)
<1>1. \/ LimitStep(c) = c
      \/ c.error = None /\ \E what \in Errors : LimitStep(c) = Fail(c, what)
  BY DEF LimitStep, Errors
<1>2. ASSUME NEW what \in Errors, c.error = None
      PROVE  Goes(Fail(c, what), c, "Programme", v, pub, sounds)
  <2> DEFINE d == Fail(c, what)
  <2>1. Quiet(d, v, pub, sounds, mark)
    BY <1>2, FailQuiet
  <2>2. /\ d.error = what /\ d.desired = c.desired /\ d.epoch = c.epoch /\ d.outbox = c.outbox
        /\ d.paced_holding = c.paced_holding /\ d.paced_programme = c.paced_programme
        /\ d.drain_ticket = c.drain_ticket
    BY DEF Fail, Typed, Fields
  <2> HIDE DEF d
  <2>3. Opening(c) => Opening(d)
    BY <2>2, Constants DEF Opening
  <2>4. Goes(d, c, "Programme", v, pub, sounds)
    BY <2>1, <2>2, <2>3 DEF Goes
  <2> QED BY <2>4 DEF d
<1> QED
  BY <1>1, <1>2, GoesStill

(* The feeds, once more.                                                    *)

\* The sound of a feed between two instants.
SoundWithin(q, low, high) ==
  \A i \in DOMAIN q : Coded(q[i]) /\ (q[i].kind = "Audio" => low <= q[i].pts /\ q[i].pts <= high)

\* An encoder's next sound is at the instant that was to come.
LEMMA EncodeCoded ==
  ASSUME NEW e \in Encoding, NEW key \in BOOLEAN
  PROVE  /\ e.next.audio \in Nat /\ e.next.audio <= Encode(e, key).next.audio
         /\ \E p \in Packet : /\ Encode(e, key).packets = Append(e.packets, p) /\ Coded(p)
                              /\ p.kind = "Audio" => p.pts = e.next.audio
<1> DEFINE s == e.next
<1>1. s \in Sources /\ e.packets \in Seq(Packet)
  BY DEF Encoding
<1> HIDE DEF s
<1>2. /\ Frame[s.feed] \in Nat /\ Duration \in Nat
      /\ Shape[s.feed].composition \in Nat
  BY <1>1, TimeConstants DEF Feeds, Sources
<1>3. s.video \in Nat /\ s.audio \in Nat /\ s.opening \in BOOLEAN
  BY <1>1 DEF Sources
<1>4. CASE s.video <= s.audio
  <2> DEFINE p == [kind |-> "Video", key |-> key \/ s.opening, dts |-> s.video,
                   pts |-> s.video + Shape[s.feed].composition, drain |-> FALSE]
             x == [s EXCEPT !.video = @ + Frame[s.feed], !.opening = FALSE]
  <2>1. p \in Packet /\ Coded(p) /\ p.kind # "Audio"
    BY <1>2, <1>3 DEF Packet, Coded
  <2>2. x.audio = s.audio
    OBVIOUS
  <2>3. Encode(e, key) = [next |-> x, packets |-> Append(e.packets, p)]
    BY <1>4 DEF Encode, s
  <2> HIDE DEF p, x
  <2> QED BY <1>3, <2>1, <2>2, <2>3 DEF s
<1>5. CASE ~(s.video <= s.audio)
  <2> DEFINE p == [kind |-> "Audio", key |-> FALSE, dts |-> s.audio, pts |-> s.audio,
                   drain |-> FALSE]
             x == [s EXCEPT !.audio = @ + Duration]
  <2>1. p \in Packet /\ Coded(p) /\ p.pts = s.audio
    BY <1>3 DEF Packet, Coded
  <2>2. x.audio = s.audio + Duration
    BY <1>1 DEF Sources
  <2>3. Encode(e, key) = [next |-> x, packets |-> Append(e.packets, p)]
    BY <1>5 DEF Encode, s
  <2> HIDE DEF p, x
  <2> QED BY <1>2, <1>3, <2>1, <2>2, <2>3 DEF s
<1> QED
  BY <1>4, <1>5

\* What a feed hands over is its own, and its sound goes from where it was to
\* where it has come to.
LEMMA EncodedCoded ==
  ASSUME NEW feed \in Feeds, source[feed] \in Sources, NEW keys \in Seq(BOOLEAN)
  PROVE  LET e == Encoded(feed, keys) IN
         /\ source[feed].audio <= e.next.audio
         /\ SoundWithin(e.packets, source[feed].audio, e.next.audio)
<1> DEFINE N == Len(keys)
           low == source[feed].audio
<1>1. PICK d \in [0..N -> Encoding] :
           /\ Encoded(feed, keys) = d[N]
           /\ d[0] = [next |-> source[feed], packets |-> <<>>]
           /\ \A n \in 1..N : d[n] = Encode(d[n - 1], keys[n])
  BY EncodedSteps
<1>2. N \in Nat /\ \A n \in 1..N : keys[n] \in BOOLEAN
  OBVIOUS
<1> HIDE DEF N
<1>0. low \in Nat
  BY DEF Sources
<1> DEFINE Fine(n) == low <= d[n].next.audio
                      /\ SoundWithin(d[n].packets, low, d[n].next.audio)
           S == {n \in Nat : n <= N => Fine(n)}
<1>3. 0 \in S
  <2>1. d[0].next.audio = low /\ d[0].packets = <<>>
    BY <1>1
  <2> HIDE DEF low
  <2> QED BY <1>0, <2>1 DEF SoundWithin
<1> HIDE DEF low
<1>4. ASSUME NEW n \in Nat, n \in S PROVE n + 1 \in S
  <2>1. SUFFICES ASSUME n + 1 <= N PROVE Fine(n + 1)
    OBVIOUS
  <2>2. n + 1 \in 1..N /\ n \in 0..N /\ (n + 1) - 1 = n /\ Fine(n)
    BY <2>1, <1>2, <1>4
  <2>3. PICK e \in Encoding : e = d[n]
    BY <1>1, <2>2
  <2>a. PICK key \in BOOLEAN : key = keys[n + 1]
    BY <1>2, <2>2
  <2>4. d[n + 1] = Encode(e, key)
    BY <1>1, <2>2, <2>3, <2>a
  <2>5. PICK x \in Encoding : x = d[n + 1] /\ x = Encode(e, key)
    BY <2>4, EncodeIs
  <2>6. e.next.audio \in Nat /\ e.next.audio <= x.next.audio
    BY <2>5, EncodeCoded
  <2>7. PICK p \in Packet : /\ x.packets = Append(e.packets, p) /\ Coded(p)
                            /\ p.kind = "Audio" => p.pts = e.next.audio
    <3>1. \E p \in Packet : /\ Encode(e, key).packets = Append(e.packets, p) /\ Coded(p)
                            /\ p.kind = "Audio" => p.pts = e.next.audio
      BY EncodeCoded, Zenon
    <3> QED BY <2>5, <3>1, Zenon
  <2>8. x.next.audio \in Nat /\ e.packets \in Seq(Packet)
    BY DEF Encoding, Sources
  <2>9. low <= e.next.audio /\ SoundWithin(e.packets, low, e.next.audio)
    BY <2>2, <2>3
  <2>10. ASSUME NEW i \in DOMAIN x.packets
         PROVE  Coded(x.packets[i]) /\ (x.packets[i].kind = "Audio" =>
                  low <= x.packets[i].pts /\ x.packets[i].pts <= x.next.audio)
    <3>1. (i \in DOMAIN e.packets /\ x.packets[i] = e.packets[i]) \/ x.packets[i] = p
      BY <2>7, <2>8, <2>10
    <3>2. CASE x.packets[i] = p
      BY <1>0, <2>6, <2>7, <2>8, <2>9, <3>2
    <3>3. CASE i \in DOMAIN e.packets /\ x.packets[i] = e.packets[i]
      <4>1. e.packets[i].pts \in Int
        BY <2>8, <3>3 DEF Packet
      <4>2. Coded(e.packets[i]) /\ (e.packets[i].kind = "Audio" =>
              low <= e.packets[i].pts /\ e.packets[i].pts <= e.next.audio)
        BY <2>9, <3>3 DEF SoundWithin
      <4> QED BY <1>0, <2>6, <2>8, <3>3, <4>1, <4>2
    <3> QED BY <3>1, <3>2, <3>3
  <2>11. low <= x.next.audio
    BY <1>0, <2>6, <2>8, <2>9
  <2> QED BY <2>5, <2>10, <2>11 DEF SoundWithin
<1>5. N \in S
  BY <1>2, <1>3, <1>4, NatSetInduction
<1>6. Fine(N)
  BY <1>2, <1>5
<1> QED
  BY <1>1, <1>6 DEF low

\* Where the sound of the feeds is.
Sounding(src) == [f \in Feeds |-> src[f].audio]

\* Every feed's sound is somewhere.
LEMMA SoundingIs ==
  ASSUME NEW src \in [Feeds -> Sources]
  PROVE  /\ Sounding(src) \in [Feeds -> Int]
         /\ \A f \in Feeds : Sounding(src)[f] = src[f].audio
<1>1. \A f \in Feeds : src[f].audio \in Int
  <2>1. \A s \in Sources : s.audio \in Int
    BY DEF Sources
  <2> QED BY <2>1
<1> QED
  BY <1>1 DEF Sounding

\* A hand-over is given by the feed, behind the sound it gave before.
LEMMA HandedSound ==
  ASSUME NEW feed \in Feeds, source \in [Feeds -> Sources], NEW keys \in Bursts[feed]
  PROVE  LET e == Encoded(feed, keys)
             s == [source EXCEPT ![feed] = e.next]
         IN  /\ Given(e.packets, Sounding(s)[feed])
             /\ \A i \in DOMAIN e.packets :
                  e.packets[i].kind = "Audio" => Sounding(source)[feed] <= e.packets[i].pts
             /\ Sounding(source) \in [Feeds -> Int] /\ Sounding(s) \in [Feeds -> Int]
             /\ \A f \in Feeds : Sounding(source)[f] <= Sounding(s)[f]
<1> DEFINE e == Encoded(feed, keys)
           s == [source EXCEPT ![feed] = e.next]
<1>1. keys \in Seq(BOOLEAN) /\ source[feed] \in Sources
  BY TimeConstants
<1>2. /\ e \in Encoding /\ source[feed].audio <= e.next.audio
      /\ SoundWithin(e.packets, source[feed].audio, e.next.audio)
  BY <1>1, EncodedIs, EncodedCoded
<1> HIDE DEF e
<1>3. e.next \in Sources
  BY <1>2 DEF Encoding
<1>4. s \in [Feeds -> Sources] /\ s[feed] = e.next /\ \A f \in Feeds : f # feed => s[f] = source[f]
  BY <1>3
<1> HIDE DEF s
<1>5. /\ Sounding(source) \in [Feeds -> Int] /\ Sounding(s) \in [Feeds -> Int]
      /\ \A f \in Feeds : Sounding(source)[f] = source[f].audio /\ Sounding(s)[f] = s[f].audio
  BY <1>4, SoundingIs
<1>6. /\ Given(e.packets, Sounding(s)[feed])
      /\ \A i \in DOMAIN e.packets :
           e.packets[i].kind = "Audio" => Sounding(source)[feed] <= e.packets[i].pts
  BY <1>2, <1>4, <1>5 DEF SoundWithin, Given
<1>7. ASSUME NEW f \in Feeds PROVE Sounding(source)[f] <= Sounding(s)[f]
  <2>1. Sounding(source)[f] \in Int
    BY <1>5
  <2>2. CASE f = feed
    BY <1>2, <1>4, <1>5, <2>2
  <2>3. CASE f # feed
    <3>1. Sounding(s)[f] = Sounding(source)[f]
      BY <1>4, <1>5, <2>3
    <3> QED BY <2>1, <3>1
  <2> QED BY <2>2, <2>3
<1> QED
  BY <1>5, <1>6, <1>7 DEF e, s

(* What the viewer sees.                                                    *)

\* The first picture of a batch.
LEMMA FirstPicture ==
  ASSUME NEW q \in Seq(Packet)
  PROVE  LET x == Kind(q, "Video") IN
         /\ (x = <<>>) <=> ~HasPicture(q)
         /\ x # <<>> => \E i \in DOMAIN q : q[i].kind = "Video" /\ x[1] = q[i]
         /\ \A mark : Unveils(q, mark) => x[1].pts <= mark
<1> DEFINE x == Kind(q, "Video")
           at == {i \in DOMAIN q : q[i].kind = "Video"}
<1>1. x = At(q, at) /\ \A i \in DOMAIN q : i \in at <=> q[i].kind = "Video"
  BY DEF Kind
<1> HIDE DEF at
<1>2. \A i \in DOMAIN q :
        i \in at /\ (\A j \in DOMAIN q : j < i => j \notin at) =>
          At(q, at) # <<>> /\ At(q, at)[1] = q[i]
  BY AtFirst
<1>3. /\ x \in Seq(Packet)
      /\ \A k \in DOMAIN x : \E i \in DOMAIN q : q[i].kind = "Video" /\ x[k] = q[i]
      /\ \A i \in DOMAIN q : q[i].kind = "Video" => \E k \in DOMAIN x : x[k] = q[i]
  BY KindIs, Zenon
<1> HIDE DEF x
<1>4. x # <<>> => 1 \in DOMAIN x
  BY <1>3, LastIs
<1>5. x # <<>> => \E i \in DOMAIN q : q[i].kind = "Video" /\ x[1] = q[i]
  BY <1>3, <1>4
<1>6. (x = <<>>) <=> ~HasPicture(q)
  <2>1. ASSUME HasPicture(q) PROVE x # <<>>
    <3>1. PICK i \in DOMAIN q : q[i].kind = "Video"
      BY <2>1 DEF HasPicture
    <3>2. PICK k \in DOMAIN x : x[k] = q[i]
      BY <1>3, <3>1
    <3> QED BY <3>2
  <2>2. ASSUME x # <<>> PROVE HasPicture(q)
    BY <1>5, <2>2 DEF HasPicture
  <2> QED BY <2>1, <2>2
<1>7. ASSUME NEW mark, Unveils(q, mark) PROVE x[1].pts <= mark
  <2>1. PICK i \in DOMAIN q : /\ q[i].kind = "Video" /\ q[i].pts <= mark
                      /\ \A j \in DOMAIN q : j < i => q[j].kind = "Audio" /\ q[j].drain
    BY <1>7 DEF Unveils
  <2>2. \A j \in DOMAIN q : j < i => j \notin at
    BY <1>1, <2>1
  <2>3. x[1] = q[i]
    BY <1>1, <1>2, <2>1, <2>2
  <2> QED BY <2>1, <2>3
<1> QED
  BY <1>5, <1>6, <1>7 DEF x

\* What the viewer has after a batch w of what he had before it.
Shows(w, v, b) ==
  /\ Viewed(w) /\ w.epoch = b.epoch
  /\ HasPicture(b.packets) => w.feed = b.feed
  /\ ~HasPicture(b.packets) => w.feed = v.feed
  /\ v.feed # "Holding" \/ b.feed = "Holding" \/ ~HasPicture(b.packets) => w.unveiled = v.unveiled
  /\ w.unveiled = v.unveiled
     \/ \E i \in DOMAIN b.packets : b.packets[i].kind = "Video" /\ w.unveiled = b.packets[i].pts
  /\ \A mark : v.feed = "Holding" /\ b.feed = "Programme" /\ Unveils(b.packets, mark) =>
       w.unveiled <= mark
  /\ b.feed = "Holding" => w.sound = v.sound
  /\ w.sound = v.sound
     \/ \E i \in DOMAIN b.packets : /\ b.packets[i].kind = "Audio"
                                    /\ w.sound = b.packets[i].pts + Duration

\* A batch shows its feed, from its first picture on, and its last sound.
LEMMA SeenShows ==
  ASSUME NEW b \in Batches, Viewed(view)
  PROVE  Shows(Seen(b), view, b)
<1> DEFINE q == b.packets
           video == Kind(q, "Video")
           at == {i \in DOMAIN q : q[i].kind = "Audio" /\ ~q[i].drain}
           sound == At(q, at)
           w == Seen(b)
<1>1. b.feed \in Feeds /\ q \in Seq(Packet) /\ q # <<>> /\ b.epoch \in Nat
  BY DEF Batches
<1>2. /\ view.sound \in Int /\ view.unveiled \in Int /\ view.feed \in Feeds \cup {None}
      /\ Duration \in Int
  BY TimeConstants DEF Viewed
<1>3. /\ {"epoch", "ticket", "sound", "unveiled", "feed"} \subseteq DOMAIN w
      /\ w.epoch = b.epoch
      /\ w.sound = IF b.feed = "Programme" /\ sound # <<>>
                   THEN Last(sound).pts + Duration ELSE view.sound
      /\ w.unveiled = IF video # <<>> /\ b.feed = "Programme" /\ view.feed = "Holding"
                      THEN video[1].pts ELSE view.unveiled
      /\ w.feed = IF video = <<>> THEN view.feed ELSE b.feed
  BY DEF Seen
<1>4. /\ sound \in Seq(Packet)
      /\ \A k \in DOMAIN sound : \E i \in DOMAIN q : i \in at /\ sound[k] = q[i]
  <2> HIDE DEF at
  <2> QED BY <1>1, AtPicks
<1>5. \A i \in DOMAIN q : i \in at => q[i].kind = "Audio"
  OBVIOUS
<1> HIDE DEF at
<1> HIDE DEF sound
<1>6. /\ (video = <<>>) <=> ~HasPicture(q)
      /\ video # <<>> => \E i \in DOMAIN q : q[i].kind = "Video" /\ video[1] = q[i]
      /\ \A mark : Unveils(q, mark) => video[1].pts <= mark
  BY <1>1, FirstPicture
<1> HIDE DEF video
<1>7. sound # <<>> => \E i \in DOMAIN q : q[i].kind = "Audio" /\ Last(sound) = q[i]
  <2>1. sound # <<>> => Len(sound) \in DOMAIN sound
    BY <1>4, LastIs
  <2> QED BY <1>4, <1>5, <2>1 DEF Last
<1>8. \A i \in DOMAIN q : q[i].pts \in Int
  <2>1. \A i \in DOMAIN q : q[i] \in Packet
    BY <1>1
  <2> QED BY <2>1 DEF Packet
<1> HIDE DEF q, w
<1>9. w.sound = view.sound
      \/ \E i \in DOMAIN q : q[i].kind = "Audio" /\ w.sound = q[i].pts + Duration
  BY <1>3, <1>7
<1>10. w.unveiled = view.unveiled
       \/ \E i \in DOMAIN q : q[i].kind = "Video" /\ w.unveiled = q[i].pts
  BY <1>3, <1>6
<1>11. Viewed(w)
  <2>1. w.sound \in Int
    BY <1>2, <1>8, <1>9
  <2>2. w.unveiled \in Int
    BY <1>2, <1>8, <1>10
  <2> QED BY <1>1, <1>2, <1>3, <2>1, <2>2 DEF Viewed
<1>12. ASSUME NEW mark, view.feed = "Holding", b.feed = "Programme", Unveils(q, mark)
       PROVE  w.unveiled <= mark
  <2>1. HasPicture(q)
    BY <1>12 DEF Unveils, HasPicture
  <2> QED BY <1>3, <1>6, <1>12, <2>1
<1>13. /\ HasPicture(q) => w.feed = b.feed
       /\ ~HasPicture(q) => w.feed = view.feed
  BY <1>3, <1>6
<1>14. view.feed # "Holding" \/ b.feed = "Holding" \/ ~HasPicture(q) => w.unveiled = view.unveiled
  BY <1>3, <1>6, Constants
<1>15. b.feed = "Holding" => w.sound = view.sound
  BY <1>3, Constants
<1> QED
  BY <1>3, <1>9, <1>10, <1>11, <1>12, <1>13, <1>14, <1>15 DEF Shows, q, w

\* A batch that is shown leaves the others to go on as silently.
LEMMA TakenQuiet ==
  ASSUME NEW c, Typed(c), c.outbox # <<>>, NEW b, b = Head(c.outbox),
         NEW d, d = [c EXCEPT !.outbox = Tail(c.outbox)],
         NEW v, Viewed(v), NEW w, Shows(w, v, b), NEW pub \in Int, pub <= c.epoch,
         NEW sounds, NEW mark \in Int, Quiet(c, v, pub, sounds, mark)
  PROVE  Quiet(d, w, pub, sounds, mark)
<1> DEFINE q == c.outbox
           t == Tail(q)
<1>1. q \in Seq(Batches)
  BY DEF Typed
<1>2. /\ t \in Seq(Batches) /\ b \in Batches /\ b = q[1] /\ 1 \in DOMAIN q
      /\ \A a \in DOMAIN t : a + 1 \in DOMAIN q /\ t[a] = q[a + 1] /\ a \in Int /\ 1 < a + 1
  <2> HIDE DEF q
  <2> QED BY <1>1, TailIs DEF q
<1>3. /\ d.epoch = c.epoch /\ d.desired = c.desired /\ d.selected = c.selected
      /\ d.cutoff = c.cutoff /\ d.offset = c.offset
      /\ d.boundary = c.boundary /\ d.waiting = c.waiting
      /\ d.scheduled = c.scheduled /\ d.outbox = t
      /\ d.tail = c.tail /\ d.published = c.published
      /\ d.error = c.error /\ d.silent = c.silent
  <2> HIDE DEF t
  <2>1. d = [c EXCEPT !.outbox = t]
    BY DEF t
  <2> QED BY <2>1 DEF Typed, Fields
<1>4. /\ b.packets \in Seq(Packet) /\ b.feed = c.selected
      /\ \A a \in DOMAIN t : t[a].feed = c.selected
  BY <1>2 DEF Quiet, OfFeed, Batches
<1>5. \A a \in DOMAIN q : a \in DOMAIN q /\ 1 <= a /\ a \in Int /\ (a # 1 => a - 1 \in DOMAIN t /\ t[a - 1] = q[a])
  <2>1. Len(t) = Len(q) - 1 /\ DOMAIN t = 1..Len(t) /\ DOMAIN q = 1..Len(q) /\ Len(q) \in Nat
    BY <1>1, <1>2
  <2>2. ASSUME NEW a \in DOMAIN q, a # 1 PROVE a - 1 \in DOMAIN t /\ t[a - 1] = q[a]
    <3>1. a - 1 \in DOMAIN t /\ (a - 1) + 1 = a
      BY <2>1, <2>2
    <3> QED BY <1>2, <3>1
  <2> QED BY <2>1, <2>2
<1> HIDE DEF q, t
<1>6. /\ OfFeed(c) /\ Hushed(c, v) /\ Veiled(c, v) /\ Curtain(c, v, pub, sounds, mark)
      /\ c.error = None => Levels(c, v) /\ Begun(c) /\ Queued(c, sounds)
  BY DEF Quiet
<1>7. /\ Viewed(w)
      /\ HasPicture(b.packets) => w.feed = b.feed
      /\ ~HasPicture(b.packets) => w.feed = v.feed
      /\ v.feed # "Holding" \/ b.feed = "Holding" \/ ~HasPicture(b.packets) => w.unveiled = v.unveiled
      /\ b.feed = "Holding" => w.sound = v.sound
  BY DEF Shows
<1>8. OfFeed(d)
  BY <1>3, <1>4 DEF OfFeed
<1>9. Hushed(d, w)
  <2>1. SUFFICES ASSUME c.selected = "Holding"
        PROVE  /\ \A a \in DOMAIN t : PicturesFrom(t[a].packets, w.sound)
               /\ c.error = None => c.silent /\ w.sound <= c.cutoff + c.offset
                                    /\ PicturesFrom(c.scheduled, w.sound)
    BY <1>3 DEF Hushed
  <2>2. /\ w.sound = v.sound
        /\ \A a \in DOMAIN q : PicturesFrom(q[a].packets, v.sound)
        /\ c.error = None => c.silent /\ v.sound <= c.cutoff + c.offset
                             /\ PicturesFrom(c.scheduled, v.sound)
    BY <1>4, <1>6, <1>7, <2>1 DEF Hushed, q
  <2> QED BY <1>2, <2>2
<1>10. Veiled(d, w)
  <2>1. SUFFICES ASSUME c.error = None, w.feed = "Holding"
        PROVE  c.silent /\ 0 <= c.published.output
    BY <1>3 DEF Veiled
  <2>2. CASE ~HasPicture(b.packets)
    BY <1>6, <1>7, <2>1, <2>2 DEF Veiled
  <2>3. CASE HasPicture(b.packets)
    <3>1. c.selected = "Holding"
      BY <1>4, <1>7, <2>1, <2>3
    <3> QED BY <1>6, <2>1, <3>1 DEF Hushed, Levels
  <2> QED BY <2>2, <2>3
<1>11. Curtain(d, w, pub, sounds, mark)
  <2>1. SUFFICES ASSUME c.selected = "Programme", pub <= c.epoch
        PROVE  Shown(d, w, mark) /\ (c.error = None => ToShow(d, w, sounds, mark))
    BY <1>3 DEF Curtain
  <2>2. Shown(c, v, mark) /\ (c.error = None => ToShow(c, v, sounds, mark))
    BY <1>6, <2>1 DEF Curtain
  <2>3. /\ v.feed # "Holding" => v.unveiled <= mark
        /\ \A a \in DOMAIN q :
             /\ SoundFrom(q[a].packets, mark)
             /\ v.feed = "Holding" =>
                  Blank(q[a].packets) \/ \E x \in DOMAIN q : x <= a /\ Unveils(q[x].packets, mark)
    BY <2>2 DEF Shown, q
  <2>4. ASSUME w.feed # "Holding" PROVE w.unveiled <= mark
    <3>1. CASE v.feed # "Holding"
      BY <1>7, <2>3, <3>1
    <3>2. CASE v.feed = "Holding"
      <4>1. HasPicture(b.packets)
        BY <1>7, <2>4, <3>2
      <4>2. ~Blank(b.packets)
        BY <4>1 DEF HasPicture, Blank
      <4>3. PICK x \in DOMAIN q : x <= 1 /\ Unveils(q[x].packets, mark)
        BY <1>2, <2>3, <3>2, <4>2
      <4>4. x = 1
        BY <1>5, <4>3
      <4>5. Unveils(b.packets, mark)
        BY <1>2, <4>3, <4>4
      <4> QED BY <1>4, <2>1, <3>2, <4>5 DEF Shows
    <3> QED BY <3>1, <3>2
  <2>5. ASSUME w.feed = "Holding"
        PROVE  v.feed = "Holding" /\ ~HasPicture(b.packets) /\ ~Unveils(b.packets, mark)
    <3>1. ~HasPicture(b.packets) /\ v.feed = "Holding"
      BY <1>4, <1>7, <2>1, <2>5, Constants
    <3> QED BY <3>1 DEF HasPicture, Unveils
  <2>6. ASSUME NEW x \in DOMAIN q, Unveils(q[x].packets, mark), w.feed = "Holding"
        PROVE  x - 1 \in DOMAIN t /\ Unveils(t[x - 1].packets, mark) /\ x \in Int
    <3>1. x # 1
      BY <1>2, <2>5, <2>6
    <3> QED BY <1>5, <2>6, <3>1
  <2>7. ASSUME NEW a \in DOMAIN t
        PROVE  /\ SoundFrom(t[a].packets, mark)
               /\ w.feed = "Holding" =>
                    Blank(t[a].packets) \/ \E y \in DOMAIN t : y <= a /\ Unveils(t[y].packets, mark)
    <3>1. a + 1 \in DOMAIN q /\ t[a] = q[a + 1] /\ a \in Int
      BY <1>2
    <3>2. SoundFrom(t[a].packets, mark)
      BY <2>3, <3>1
    <3>3. ASSUME w.feed = "Holding", ~Blank(t[a].packets)
          PROVE  \E y \in DOMAIN t : y <= a /\ Unveils(t[y].packets, mark)
      <4>1. PICK x \in DOMAIN q : x <= a + 1 /\ Unveils(q[x].packets, mark)
        BY <2>3, <2>5, <3>1, <3>3
      <4>2. x - 1 \in DOMAIN t /\ Unveils(t[x - 1].packets, mark) /\ x \in Int
        BY <2>6, <3>3, <4>1
      <4>3. x - 1 <= a
        BY <3>1, <4>1, <4>2
      <4> QED BY <4>2, <4>3
    <3> QED BY <3>2, <3>3
  <2>8. Shown(d, w, mark)
    BY <1>3, <2>4, <2>7 DEF Shown
  <2>9. ASSUME c.error = None PROVE ToShow(d, w, sounds, mark)
    <3>1. /\ SoundFrom(c.scheduled, mark) /\ mark <= sounds["Programme"] + c.offset
          /\ v.feed = "Holding" => \/ Unveils(c.scheduled, mark)
                                   \/ \E x \in DOMAIN q : Unveils(q[x].packets, mark)
      BY <2>2, <2>9 DEF ToShow, q
    <3>2. ASSUME w.feed = "Holding"
          PROVE  Unveils(c.scheduled, mark) \/ \E y \in DOMAIN t : Unveils(t[y].packets, mark)
      <4>1. CASE Unveils(c.scheduled, mark)
        BY <4>1
      <4>2. ASSUME NEW x \in DOMAIN q, Unveils(q[x].packets, mark)
            PROVE  \E y \in DOMAIN t : Unveils(t[y].packets, mark)
        BY <2>6, <3>2, <4>2
      <4> QED BY <2>5, <3>1, <3>2, <4>1, <4>2
    <3> QED BY <1>3, <3>1, <3>2 DEF ToShow
  <2> QED BY <2>8, <2>9
<1>12. ASSUME c.error = None PROVE Levels(d, w) /\ Begun(d) /\ Queued(d, sounds)
  <2>1. Levels(c, v) /\ Begun(c) /\ Queued(c, sounds)
    BY <1>6, <1>12
  <2>2. Begun(d) /\ Queued(d, sounds)
    BY <1>3, <2>1 DEF Begun, Queued
  <2>3. \A a \in DOMAIN q : Covers(c.published, q[a].packets) /\ Covers(c.tail, q[a].packets)
    BY <2>1 DEF Levels, q
  <2>4. ASSUME NEW u \in Tails, Level(u, v), Covers(u, b.packets) PROVE Level(u, w)
    <3>1. w.sound <= u.audio
      <4>1. CASE w.sound = v.sound
        BY <2>4, <4>1 DEF Level
      <4>2. ASSUME NEW i \in DOMAIN b.packets, b.packets[i].kind = "Audio",
                   w.sound = b.packets[i].pts + Duration
            PROVE  w.sound <= u.audio
        BY <2>4, <4>2 DEF Covers
      <4> QED BY <4>1, <4>2 DEF Shows
    <3>2. w.unveiled <= 0 \/ w.unveiled <= u.video
      <4>1. CASE w.unveiled = v.unveiled
        BY <2>4, <4>1 DEF Level
      <4>2. ASSUME NEW i \in DOMAIN b.packets, b.packets[i].kind = "Video",
                   w.unveiled = b.packets[i].pts
            PROVE  w.unveiled <= u.video
        BY <2>4, <4>2 DEF Covers
      <4> QED BY <4>1, <4>2 DEF Shows
    <3> QED BY <2>4, <3>1, <3>2 DEF Level
  <2>5. Level(c.published, w) /\ Level(c.tail, w)
    <3>1. c.published \in Tails /\ c.tail \in Tails
      BY DEF Typed
    <3>2. Covers(c.published, b.packets) /\ Covers(c.tail, b.packets)
      BY <1>2, <2>3
    <3>3. Level(c.published, v) /\ Level(c.tail, v)
      BY <2>1 DEF Levels
    <3> QED BY <2>4, <3>1, <3>2, <3>3
  <2>6. \A a \in DOMAIN t : Covers(c.published, t[a].packets) /\ Covers(c.tail, t[a].packets)
    BY <1>2, <2>3
  <2>7. /\ Covers(c.tail, c.scheduled) /\ NotBefore(c.scheduled, 0)
        /\ t # <<>> => 0 <= c.published.output
    BY <2>1 DEF Levels
  <2> QED BY <1>3, <2>2, <2>5, <2>6, <2>7 DEF Levels
<1> QED
  BY <1>3, <1>8, <1>9, <1>10, <1>11, <1>12 DEF Quiet

-----------------------------------------------------------------------------
(* HoldingIsSilent, one action after the other.                             *)

\* Until the viewer has a batch, the first broadcast is about to start.
Unseen ==
  /\ publication_epoch <= co.epoch /\ Opening(co)
  /\ requests = <<>> /\ acked = 0 /\ view.ticket = 0
\* What the viewer has, the coordinator and the feeds, as HoldingIsSilent needs it.
QuietInv ==
  /\ Viewed(view) /\ 1 <= publication_epoch
  /\ view.epoch = 0 => Unseen
  /\ view.epoch # 0 => view.feed # None
  /\ \E mark \in Int : Quiet(co, view, publication_epoch, Sounding(source), mark)

\* A broadcast starts in silence.
LEMMA InitQuiet == Init => QuietInv
<1>1. SUFFICES ASSUME Init PROVE QuietInv
  OBVIOUS
<1>2. /\ Milli \in Nat \ {0} /\ Duration \in Nat
      /\ Start.output = -Milli /\ Start.audio = 0 /\ Start.video = -Milli
  BY TimeConstants DEF Start
<1>3. /\ co.error = None /\ co.outbox = <<>> /\ co.selected = None /\ co.boundary = <<>>
      /\ co.waiting = <<>> /\ co.scheduled = <<>> /\ co.tail = Start /\ co.published = Start
      /\ co.paced_holding = FALSE /\ co.paced_programme = FALSE /\ co.drain_ticket = 0
      /\ co.cutoff = None /\ co.desired = "Programme" /\ co.epoch = 1
  BY <1>1 DEF Init
<1>4. /\ view.epoch = 0 /\ view.ticket = 0 /\ view.sound = 0 /\ view.unveiled = 0
      /\ view.feed = None
      /\ {"epoch", "ticket", "sound", "unveiled", "feed"} \subseteq DOMAIN view
  BY <1>1 DEF Init
<1>5. Viewed(view)
  BY <1>4 DEF Viewed
<1>6. Opening(co)
  BY <1>3 DEF Opening
<1>7. Unseen
  BY <1>1, <1>3, <1>4, <1>6 DEF Unseen, Init
<1>8. Veiled(co, view)
  BY <1>4, Constants DEF Veiled
<1>9. Level(Start, view)
  BY <1>2, <1>4 DEF Level
<1>10. Levels(co, view)
  BY <1>3, <1>9 DEF Levels, Covers, NotBefore
<1>11. Queued(co, Sounding(source))
  BY <1>3 DEF Queued
<1>12. Quiet(co, view, publication_epoch, Sounding(source), 0)
  BY <1>3, <1>8, <1>10, <1>11, FreshQuiet
<1>13. 0 \in Int /\ 1 <= publication_epoch
  BY <1>1 DEF Init
<1> QED
  BY <1>4, <1>5, <1>7, <1>12, <1>13 DEF QuietInv

\* What the line gives.
LEMMA FromLine ==
  ASSUME LineInv
  PROVE  /\ Typed(co) /\ publication_epoch \in Nat /\ publication_epoch \in Int
         /\ co.epoch \in Int
         /\ source \in [Feeds -> Sources]
         /\ Sounding(source) \in [Feeds -> Int] /\ Position(source) \in [Feeds -> Int]
         /\ co.error = None => Lined(co) /\ Paced(co) /\ Ahead(co, Position(source))
<1>1. /\ Typed(co) /\ publication_epoch \in Nat /\ source \in [Feeds -> Sources]
      /\ co.error = None => Lined(co) /\ Paced(co) /\ Ahead(co, Position(source))
  BY DEF LineInv, LineTyped, Good, Going
<1>2. co.epoch \in Int /\ publication_epoch \in Int
  BY <1>1 DEF Typed
<1> QED
  BY <1>1, <1>2, SoundingIs, PositionIs

\* One step after the other.
LEMMA GoesOn ==
  ASSUME NEW c, NEW d, NEW e, NEW v, NEW pub, NEW sounds,
         Goes(d, c, "Programme", v, pub, sounds), Goes(e, d, "Programme", v, pub, sounds)
  PROVE  Goes(e, c, "Programme", v, pub, sounds)
  BY DEF Goes

\* Where the coordinator goes on in silence, the broadcast does.
LEMMA GoesQuiet ==
  ASSUME LineInv, LineInv', QuietInv, view' = view, requests' = requests, acked' = acked,
         Goes(co', co, "Programme", view, publication_epoch, Sounding(source')),
         \/ publication_epoch' = publication_epoch
         \/ publication_epoch' = Max({publication_epoch, co'.epoch})
  PROVE  QuietInv'
<1>1. /\ Typed(co') /\ publication_epoch \in Int /\ publication_epoch' \in Int
      /\ co.epoch \in Int /\ co'.epoch \in Int
      /\ Sounding(source') \in [Feeds -> Int] /\ source' \in [Feeds -> Sources]
  <2>1. Typed(co') /\ publication_epoch' \in Nat /\ source' \in [Feeds -> Sources]
    BY DEF LineInv, LineTyped, Good
  <2>2. co'.epoch \in Int
    BY <2>1 DEF Typed
  <2> QED BY <2>1, <2>2, FromLine, SoundingIs
<1>2. /\ publication_epoch <= publication_epoch'
      /\ publication_epoch' = publication_epoch \/ publication_epoch' = co'.epoch
  <2>1. CASE publication_epoch' = publication_epoch
    BY <1>1, <2>1
  <2>2. CASE publication_epoch' = Max({publication_epoch, co'.epoch})
    <3>1. PICK a \in Int, b \in Int : a = publication_epoch /\ b = co'.epoch
      BY <1>1
    <3>2. Max({a, b}) \in {a, b} /\ a <= Max({a, b})
      BY MaxOfTwo
    <3>3. publication_epoch' = Max({a, b})
      BY <2>2, <3>1
    <3> QED BY <3>1, <3>2, <3>3
  <2> QED BY <2>1, <2>2
<1>3. PICK mark \in Int : Quiet(co', view, publication_epoch, Sounding(source'), mark)
  BY DEF Goes
<1>4. Quiet(co', view, publication_epoch', Sounding(source'), mark)
  <2>1. \A f \in Feeds : Sounding(source')[f] <= Sounding(source')[f]
    BY <1>1
  <2> QED BY <1>1, <1>2, <1>3, <2>1, LaterSounds DEF QuietInv
<1>5. ASSUME view.epoch = 0
      PROVE  /\ publication_epoch' <= co'.epoch /\ Opening(co')
             /\ requests' = <<>> /\ acked' = 0 /\ view'.ticket = 0
  <2>1. Unseen
    BY <1>5 DEF QuietInv
  <2>2. Opening(co') /\ co'.epoch = co.epoch
    BY <2>1 DEF Unseen, Goes
  <2>3. publication_epoch' <= co'.epoch
    BY <1>1, <1>2, <2>1, <2>2 DEF Unseen
  <2> QED BY <2>1, <2>2, <2>3 DEF Unseen
<1>6. 1 <= publication_epoch'
  BY <1>1, <1>2 DEF QuietInv
<1>7. Unseen' <=> /\ publication_epoch' <= co'.epoch /\ Opening(co')
                  /\ requests' = <<>> /\ acked' = 0 /\ view'.ticket = 0
  BY DEF Unseen
<1>8. \E m \in Int : Quiet(co', view', publication_epoch', Sounding(source'), m)
  BY <1>4
<1> QED
  BY <1>5, <1>6, <1>7, <1>8 DEF QuietInv

\* An action starts over behind what was published.
LEMMA RequestQuiet == LineInv /\ QuietInv /\ Request => QuietInv'
<1>1. SUFFICES ASSUME LineInv, QuietInv, Request PROVE QuietInv'
  OBVIOUS
<1> DEFINE r == Head(requests)
           direct == r.action # "EmergencyDump"
<1>2. /\ requests # <<>> /\ co' = Restart(Invalidate(co, r.epoch), direct)
      /\ publication_epoch' = publication_epoch /\ view' = view
      /\ co.error = None /\ co.outbox = <<>>
  BY <1>1 DEF Request, Ready
<1>3. Typed(co) /\ requests \in Admissions
  BY <1>1 DEF LineInv, LineTyped, Good
<1>4. r \in [action : Actions, epoch : Nat]
  <2> DEFINE T == [action : Actions, epoch : Nat]
  <2>1. requests \in Seq(T) /\ requests # <<>>
    BY <1>2, <1>3 DEF Admissions
  <2> HIDE DEF T
  <2>2. Head(requests) \in T
    BY <2>1
  <2> QED BY <2>2 DEF T
<1> HIDE DEF r
<1>5. r.epoch \in Nat /\ direct \in BOOLEAN
  BY <1>4
<1> HIDE DEF direct
<1>6. PICK mark \in Int : Quiet(co, view, publication_epoch, Sounding(source), mark)
  BY <1>1 DEF QuietInv
<1>7. Clear(co)
  BY <1>2 DEF Clear
<1>8. Quiet(Restart(Invalidate(co, r.epoch), direct), view, publication_epoch,
            Sounding(source'), mark)
  BY <1>3, <1>5, <1>6, <1>7, RestartQuiet
<1>9. Quiet(co', view', publication_epoch', Sounding(source'), mark)
  BY <1>2, <1>8
<1>10. view.epoch # 0
  BY <1>1, <1>2 DEF QuietInv, Unseen
<1> QED
  BY <1>1, <1>2, <1>9, <1>10 DEF QuietInv

\* What the programme hands over waits, or is released.
LEMMA ProgrammeQuiet ==
  ASSUME LineInv, LineInv', QuietInv, NEW keys \in Bursts["Programme"], NEW key \in BOOLEAN,
         Programme(keys, key)
  PROVE  QuietInv'
<1> DEFINE e == Encoded("Programme", keys)
           c == IF key THEN [co EXCEPT !.key_left = Deadline] ELSE co
           s == [source EXCEPT !["Programme"] = e.next]
           pub == publication_epoch
           next == Position(source)
           sounds == Sounding(source)
           later == Sounding(s)
<1>1. /\ co.error = None /\ co.outbox = <<>>
      /\ requests' = requests /\ view' = view /\ acked' = acked
      /\ publication_epoch' = Max({publication_epoch, co'.epoch})
      /\ \/ co' = c /\ source' = source
         \/ /\ source' = s
            /\ co' = IF co.paced_holding THEN Wait(c, e.packets) ELSE ReleaseReady(c, e.packets)
  BY DEF Programme, Ready
<1>2. /\ Typed(co) /\ pub \in Int /\ source \in [Feeds -> Sources] /\ Viewed(view)
      /\ Lined(co) /\ Paced(co) /\ Ahead(co, next)
  BY <1>1, FromLine DEF QuietInv
<1>3. PICK mark \in Int : Quiet(co, view, pub, sounds, mark)
  BY DEF QuietInv
<1>4. /\ e.packets \in Seq(Packet) /\ NotBefore(e.packets, next["Programme"])
      /\ next \in [Feeds -> Int]
  BY <1>2, HandedOver, Constants
<1>5. /\ Given(e.packets, later["Programme"])
      /\ \A i \in DOMAIN e.packets :
           e.packets[i].kind = "Audio" => sounds["Programme"] <= e.packets[i].pts
      /\ sounds \in [Feeds -> Int] /\ later \in [Feeds -> Int]
      /\ \A f \in Feeds : sounds[f] <= later[f]
  BY <1>2, HandedSound, Constants
<1>6. /\ Typed(c) /\ Alike(co, c) /\ c.scheduled = co.scheduled /\ c.outbox = co.outbox
      /\ c.tail = co.tail /\ c.published = co.published /\ c.drain_ticket = co.drain_ticket
      /\ c.paced_holding = co.paced_holding /\ c.paced_programme = co.paced_programme
  BY <1>2 DEF Alike, Typed, Fields
<1>7. later = Sounding(s) /\ sounds = Sounding(source) /\ pub = publication_epoch
  OBVIOUS
<1> HIDE DEF c, e, s, pub, next, sounds, later
<1>8. Quiet(c, view, pub, sounds, mark)
  BY <1>3, <1>6, QuietAgrees
<1>9. c.error = None /\ Clear(c)
  BY <1>1, <1>6 DEF Alike, Clear
<1>10. Opening(co) => Opening(c) /\ c.epoch = co.epoch
  BY <1>6 DEF Opening, Alike
<1>11. Goes(c, co, "Programme", view, pub, sounds)
  BY <1>8, <1>10 DEF Goes
<1>12. Goes(co', co, "Programme", view, pub, Sounding(source'))
  <2>1. CASE co' = c /\ source' = source
    BY <1>7, <1>11, <2>1
  <2>2. CASE co.paced_holding /\ source' = s /\ co' = Wait(c, e.packets)
    <3>1. c.paced_holding
      BY <1>6, <2>2
    <3>2. Goes(Wait(c, e.packets), c, "Programme", view, pub, later)
      BY <1>2, <1>4, <1>5, <1>6, <1>8, <1>9, <3>1, WaitQuiet
    <3>3. Goes(Wait(c, e.packets), co, "Programme", view, pub, later)
      BY <1>10, <3>2 DEF Goes
    <3> QED BY <1>7, <2>2, <3>3
  <2>3. CASE ~co.paced_holding /\ source' = s /\ co' = ReleaseReady(c, e.packets)
    <3>1. c.waiting = <<>>
      BY <1>2, <1>6, <2>3 DEF Paced, Alike
    <3> DEFINE c1 == [c EXCEPT !.waiting = <<>>]
    <3>2. /\ Alike(c, c1) /\ c1.scheduled = c.scheduled
          /\ c1.tail = c.tail /\ c1.published = c.published
          /\ c1.paced_holding = c.paced_holding /\ c1.paced_programme = c.paced_programme
      BY <1>6, <3>1 DEF Alike, Typed, Fields
    <3>3. c1 = [c EXCEPT !.waiting = <<>>]
      OBVIOUS
    <3> HIDE DEF c1
    <3>4. Lined(c1) /\ Paced(c1) /\ Ahead(c1, next)
      BY <1>2, <1>6, <3>2 DEF Lined, Paced, Ahead, Alike
    <3>5. Released(c) /\ ~c.paced_holding
      BY <1>6, <2>3, <3>1 DEF Released
    <3>6. \A i \in DOMAIN e.packets :
            /\ next["Programme"] <= e.packets[i].dts
            /\ e.packets[i].kind = "Audio" => sounds["Programme"] <= e.packets[i].pts
      BY <1>4, <1>5 DEF NotBefore
    <3>7. Goes(ReleaseReady(c, e.packets), c, "Programme", view, pub, later)
      BY <1>2, <1>4, <1>5, <1>6, <1>8, <1>9, <3>3, <3>4, <3>5, <3>6, ReleaseReadyQuiet
    <3>8. Goes(ReleaseReady(c, e.packets), co, "Programme", view, pub, later)
      BY <1>10, <3>7 DEF Goes
    <3> QED BY <1>7, <2>3, <3>8
  <2> QED BY <1>1, <2>1, <2>2, <2>3
<1> QED
  BY <1>1, <1>7, <1>12, GoesQuiet

\* What holding hands over is published.
LEMMA HoldingQuiet ==
  ASSUME LineInv, LineInv', QuietInv, NEW keys \in Bursts["Holding"], Holding(keys)
  PROVE  QuietInv'
<1> DEFINE e == Encoded("Holding", keys)
           c == [co EXCEPT !.silent = @ \/ HasSound(e.packets)]
           s == [source EXCEPT !["Holding"] = e.next]
           pub == publication_epoch
           next == Position(source)
           sounds == Sounding(source)
           later == Sounding(s)
<1>1. /\ co.error = None /\ co.outbox = <<>>
      /\ requests' = requests /\ view' = view /\ acked' = acked
      /\ publication_epoch' = publication_epoch
      /\ \/ co' = c /\ source' = source
         \/ co.desired = "Holding" /\ source' = s /\ co' = Publish(c, "Holding", e.packets)
  BY DEF Holding, Ready
<1>2. /\ Typed(co) /\ pub \in Int /\ source \in [Feeds -> Sources] /\ Viewed(view)
      /\ Lined(co) /\ Paced(co) /\ Ahead(co, next)
  BY <1>1, FromLine DEF QuietInv
<1>3. PICK mark \in Int : Quiet(co, view, pub, sounds, mark)
  BY DEF QuietInv
<1>4. /\ e.packets \in Seq(Packet) /\ NotBefore(e.packets, next["Holding"])
      /\ next \in [Feeds -> Int]
  BY <1>2, HandedOver, Constants
<1>5. /\ Given(e.packets, later["Holding"])
      /\ \A i \in DOMAIN e.packets :
           e.packets[i].kind = "Audio" => sounds["Holding"] <= e.packets[i].pts
      /\ sounds \in [Feeds -> Int] /\ later \in [Feeds -> Int]
      /\ \A f \in Feeds : sounds[f] <= later[f]
  BY <1>2, HandedSound, Constants
<1>6. /\ Typed(c) /\ Alike(co, c) /\ c.scheduled = co.scheduled /\ c.outbox = co.outbox
      /\ c.tail = co.tail /\ c.published = co.published /\ c.drain_ticket = co.drain_ticket
      /\ c.paced_holding = co.paced_holding /\ c.paced_programme = co.paced_programme
  <2>1. PICK b \in BOOLEAN : c = [co EXCEPT !.silent = b] /\ (co.silent => b)
    <3>1. (co.silent \/ HasSound(e.packets)) \in BOOLEAN
      OBVIOUS
    <3> QED BY <3>1
  <2> HIDE DEF c
  <2> QED BY <1>2, <2>1 DEF Alike, Typed, Fields
<1>7. later = Sounding(s) /\ sounds = Sounding(source) /\ pub = publication_epoch
  OBVIOUS
<1> HIDE DEF c, e, s, pub, next, sounds, later
<1>8. Quiet(c, view, pub, sounds, mark)
  BY <1>3, <1>6, QuietAgrees
<1>9. Clear(c)
  BY <1>1, <1>6 DEF Alike, Clear
<1>10. Opening(co) => Opening(c) /\ c.epoch = co.epoch
  BY <1>6 DEF Opening, Alike
<1>11. Goes(c, co, "Programme", view, pub, sounds)
  BY <1>8, <1>10 DEF Goes
<1>12. Goes(co', co, "Programme", view, pub, Sounding(source'))
  <2>1. CASE co' = c /\ source' = source
    BY <1>7, <1>11, <2>1
  <2>2. CASE co.desired = "Holding" /\ source' = s /\ co' = Publish(c, "Holding", e.packets)
    <3>1. c.desired = "Holding"
      BY <1>6, <2>2 DEF Alike
    <3>2. Lined(c) /\ Paced(c) /\ Ahead(c, next)
      BY <1>2, <1>6 DEF Lined, Paced, Ahead, Alike
    <3>3. \A i \in DOMAIN e.packets :
            /\ next["Holding"] <= e.packets[i].dts
            /\ e.packets[i].kind = "Audio" => sounds["Holding"] <= e.packets[i].pts
      BY <1>4, <1>5 DEF NotBefore
    <3>4. Goes(Publish(c, "Holding", e.packets), c, "Holding", view, pub, later)
      BY <1>2, <1>4, <1>5, <1>6, <1>8, <1>9, <3>1, <3>2, <3>3, Constants, PublishQuiet
    <3>5. ~Opening(co)
      BY <2>2, Constants DEF Opening
    <3>6. Goes(Publish(c, "Holding", e.packets), co, "Programme", view, pub, later)
      BY <3>4, <3>5 DEF Goes
    <3> QED BY <1>7, <2>2, <3>6
  <2> QED BY <1>1, <2>1, <2>2
<1> QED
  BY <1>1, <1>7, <1>12, GoesQuiet

\* What is good may be asked for by name.
LEMMA GoodGives ==
  ASSUME NEW c, NEW next, NEW pub, NEW dts, NEW epoch, Good(c, next, pub, dts, epoch)
  PROVE  Typed(c) /\ (c.error = None => Lined(c) /\ Paced(c) /\ Ahead(c, next))
  BY DEF Good, Going

\* check_deadline, the guard.
LEMMA CheckGuardQuiet == LineInv /\ LineInv' /\ QuietInv /\ CheckGuard => QuietInv'
<1>1. SUFFICES ASSUME LineInv, LineInv', QuietInv, CheckGuard PROVE QuietInv'
  OBVIOUS
<1> DEFINE pub == publication_epoch
           sounds == Sounding(source)
           l == Later(co)
<1>2. /\ co.error = None /\ (co' = l \/ co' = GuardStep(l))
      /\ requests' = requests /\ view' = view /\ source' = source /\ acked' = acked
      /\ publication_epoch' = publication_epoch
  BY <1>1 DEF CheckGuard, Ready
<1>3. Good(co, Position(source), pub, view.dts, view.epoch) /\ Viewed(view)
  BY <1>1 DEF LineInv, QuietInv
<1>4. Good(l, Position(source), pub, view.dts, view.epoch) /\ l.error = None
  BY <1>2, <1>3, LaterGood
<1>5. PICK mark \in Int : Quiet(co, view, pub, sounds, mark)
  BY <1>1 DEF QuietInv
<1>6. Typed(co)
  BY <1>3, GoodGives
<1>7. Goes(l, co, "Programme", view, pub, sounds)
  BY <1>5, <1>6, LaterQuiet
<1> HIDE DEF l
<1>8. Typed(l) /\ Lined(l) /\ Paced(l)
  BY <1>4, GoodGives
<1>9. PICK m \in Int : Quiet(l, view, pub, sounds, m)
  BY <1>7 DEF Goes
<1>10. Goes(GuardStep(l), l, "Programme", view, pub, sounds)
  BY <1>3, <1>4, <1>8, <1>9, GuardStepQuiet
<1>11. Goes(GuardStep(l), co, "Programme", view, pub, sounds)
  BY <1>7, <1>10, GoesOn
<1>12. Goes(co', co, "Programme", view, publication_epoch, Sounding(source'))
  BY <1>2, <1>7, <1>11
<1> QED
  BY <1>1, <1>2, <1>12, GoesQuiet

\* check_deadline, the resumed programme.
LEMMA CheckResumeQuiet == LineInv /\ LineInv' /\ QuietInv /\ CheckResume => QuietInv'
<1>1. SUFFICES ASSUME LineInv, LineInv', QuietInv, CheckResume PROVE QuietInv'
  OBVIOUS
<1> DEFINE pub == publication_epoch
           sounds == Sounding(source)
           next == Position(source)
           r == ResumeStep(co)
<1>2. /\ Clear(co) /\ co.error = None /\ co' = PaceStep(r)
      /\ requests' = requests /\ view' = view /\ source' = source /\ acked' = acked
      /\ publication_epoch' = Max({publication_epoch, co'.epoch})
  BY <1>1 DEF CheckResume, Ready, Clear
<1>3. /\ Good(co, next, pub, view.dts, view.epoch) /\ Viewed(view) /\ view.dts \in Int
  BY <1>1 DEF LineInv, QuietInv, LineTyped, Watched
<1>4. /\ Typed(co) /\ Lined(co) /\ Paced(co) /\ Ahead(co, next)
      /\ pub \in Int /\ sounds \in [Feeds -> Int] /\ next \in [Feeds -> Int]
  BY <1>1, <1>2, FromLine
<1>5. Good(r, next, pub, view.dts, view.epoch)
  BY <1>2, <1>3, <1>4, ResumeStepGood
<1>6. PICK mark \in Int : Quiet(co, view, pub, sounds, mark)
  BY <1>1 DEF QuietInv
<1>7. Goes(r, co, "Programme", view, pub, sounds)
  <2> HIDE DEF pub, sounds, next
  <2> QED BY <1>2, <1>3, <1>4, <1>6, ResumeStepQuiet
<1> HIDE DEF r
<1>8. Typed(r) /\ (r.error = None => Lined(r) /\ Paced(r))
  BY <1>5, GoodGives
<1>9. PICK m \in Int : Quiet(r, view, pub, sounds, m)
  BY <1>7 DEF Goes
<1>10. Goes(PaceStep(r), r, "Programme", view, pub, sounds)
  BY <1>3, <1>8, <1>9, PaceStepQuiet
<1>11. Goes(co', co, "Programme", view, publication_epoch, Sounding(source'))
  BY <1>2, <1>7, <1>10, GoesOn
<1> QED
  BY <1>1, <1>2, <1>11, GoesQuiet

\* check_deadline, the end of the pacing and the limits.
LEMMA CheckLimitsQuiet == LineInv /\ LineInv' /\ QuietInv /\ CheckLimits => QuietInv'
<1>1. SUFFICES ASSUME LineInv, LineInv', QuietInv, CheckLimits PROVE QuietInv'
  OBVIOUS
<1> DEFINE pub == publication_epoch
           sounds == Sounding(source)
           t == SettleStep(co)
<1>2. /\ co.error = None /\ co' = LimitStep(t)
      /\ requests' = requests /\ view' = view /\ source' = source /\ acked' = acked
      /\ publication_epoch' = publication_epoch
  BY <1>1 DEF CheckLimits, Ready
<1>3. /\ Good(co, Position(source), pub, view.dts, view.epoch) /\ Viewed(view)
      /\ view.dts \in Int
  BY <1>1 DEF LineInv, QuietInv, LineTyped, Watched
<1>4. Typed(co) /\ Lined(co) /\ Paced(co)
  BY <1>2, <1>3, GoodGives
<1>5. PICK mark \in Int : Quiet(co, view, pub, sounds, mark)
  BY <1>1 DEF QuietInv
<1>6. Goes(t, co, "Programme", view, pub, sounds)
  BY <1>2, <1>3, <1>4, <1>5, SettleStepQuiet
<1>7. Good(t, Position(source), pub, view.dts, view.epoch)
  BY <1>2, <1>3, SettleStepGood
<1> HIDE DEF t
<1>8. Typed(t)
  BY <1>7, GoodGives
<1>9. PICK m \in Int : Quiet(t, view, pub, sounds, m)
  BY <1>6 DEF Goes
<1>10. Goes(LimitStep(t), t, "Programme", view, pub, sounds)
  BY <1>8, <1>9, LimitStepQuiet
<1>11. Goes(co', co, "Programme", view, publication_epoch, Sounding(source'))
  BY <1>2, <1>6, <1>10, GoesOn
<1> QED
  BY <1>1, <1>2, <1>11, GoesQuiet

\* What the dispatcher takes, and how it changes the coordinator.
LEMMA DispatchTakes ==
  ASSUME LineInv, QuietInv, Dispatch
  PROVE  LET b == Head(co.outbox) IN
         /\ co.outbox # <<>> /\ b \in Batches /\ b = co.outbox[1] /\ 1 \in DOMAIN co.outbox
         /\ b.epoch = co.epoch /\ b.feed = co.selected /\ b.packets \in Seq(Packet)
         /\ co' = [co EXCEPT !.outbox = Tail(co.outbox)]
         /\ b.epoch >= publication_epoch => view' = Seen(b) /\ Shows(view', view, b)
         /\ ~(b.epoch >= publication_epoch) => view' = [view EXCEPT !.cut = TRUE]
         /\ requests' = requests /\ source' = source /\ acked' = acked
         /\ publication_epoch' = publication_epoch
<1> DEFINE b == Head(co.outbox)
           current == b.epoch >= publication_epoch
<1>1. /\ co.outbox # <<>> /\ requests' = requests /\ source' = source
      /\ publication_epoch' = publication_epoch /\ acked' = acked
      /\ view' = IF current THEN Seen(b) ELSE [view EXCEPT !.cut = TRUE]
      /\ co' = [co EXCEPT !.outbox = Tail(@),
                          !.error = IF current /\ Refuses(b) THEN "Refused" ELSE @]
  BY DEF Dispatch
<1>2. /\ LineTyped /\ Viewed(view)
      /\ Good(co, Position(source), publication_epoch, view.dts, view.epoch)
      /\ co.outbox \in Seq(Batches) /\ Posted(co, view.dts) /\ Fields \subseteq DOMAIN co
  BY DEF LineInv, QuietInv, Good, Typed
<1>3. b \in Batches /\ b = co.outbox[1] /\ 1 \in DOMAIN co.outbox
  BY <1>1, <1>2, TailIs
<1>4. b.epoch = co.epoch /\ b.feed = co.selected
  BY <1>2, <1>3 DEF Posted, QuietInv, Quiet, OfFeed
<1>5. ~(current /\ Refuses(b))
  BY <1>1, <1>2, BatchAccepted
<1>6. co' = [co EXCEPT !.outbox = Tail(co.outbox)]
  <2>1. co' = [co EXCEPT !.outbox = Tail(co.outbox), !.error = co.error]
    BY <1>1, <1>5
  <2>2. "error" \in DOMAIN co
    BY <1>2 DEF Fields
  <2> QED BY <2>1, <2>2
<1>7. b.packets \in Seq(Packet)
  BY <1>3 DEF Batches
<1>8. current => view' = Seen(b) /\ Shows(view', view, b)
  <2>1. SUFFICES ASSUME current PROVE view' = Seen(b) /\ Shows(view', view, b)
    OBVIOUS
  <2>2. view' = Seen(b)
    BY <1>1, <2>1
  <2> HIDE DEF b, current
  <2> QED BY <1>2, <1>3, <2>2, SeenShows
<1>9. ~current => view' = [view EXCEPT !.cut = TRUE]
  BY <1>1
<1> QED
  BY <1>1, <1>3, <1>4, <1>6, <1>7, <1>8, <1>9

\* A batch is shown, or dropped as superseded.
LEMMA DispatchQuiet == LineInv /\ LineInv' /\ QuietInv /\ Dispatch => QuietInv'
<1>1. SUFFICES ASSUME LineInv, LineInv', QuietInv, Dispatch PROVE QuietInv'
  OBVIOUS
<1> DEFINE b == Head(co.outbox)
           current == b.epoch >= publication_epoch
           d == [co EXCEPT !.outbox = Tail(co.outbox)]
           pub == publication_epoch
           sounds == Sounding(source)
<1>2. /\ co.outbox # <<>> /\ b \in Batches /\ b = co.outbox[1] /\ 1 \in DOMAIN co.outbox
      /\ b.epoch = co.epoch /\ b.feed = co.selected /\ b.packets \in Seq(Packet)
      /\ co' = d
      /\ current => view' = Seen(b) /\ Shows(view', view, b)
      /\ ~current => view' = [view EXCEPT !.cut = TRUE]
      /\ requests' = requests /\ source' = source /\ acked' = acked
      /\ publication_epoch' = publication_epoch
  BY <1>1, DispatchTakes
<1>3. Typed(co) /\ pub \in Int /\ co.epoch \in Int /\ Viewed(view) /\ 1 <= pub
  BY <1>1, FromLine DEF QuietInv
<1>4. PICK mark \in Int : Quiet(co, view, pub, sounds, mark)
  BY <1>1 DEF QuietInv
<1>5. CASE current
  <2>1. Shows(view', view, b) /\ pub <= co.epoch
    BY <1>2, <1>3, <1>5
  <2>2. Quiet(d, view', pub, sounds, mark)
    <3> HIDE DEF b, pub, sounds, d
    <3>1. b = Head(co.outbox) /\ d = [co EXCEPT !.outbox = Tail(co.outbox)]
      BY DEF b, d
    <3>2. co.outbox # <<>> /\ Typed(co) /\ Viewed(view) /\ pub \in Int /\ mark \in Int
      BY <1>2, <1>3, <1>4
    <3>3. Shows(view', view, b) /\ pub <= co.epoch /\ Quiet(co, view, pub, sounds, mark)
      BY <1>4, <2>1 DEF pub, sounds
    <3>4. PICK w : w = view'
      OBVIOUS
    <3>5. Shows(w, view, b)
      BY <3>3, <3>4
    <3>6. Quiet(d, w, pub, sounds, mark)
      BY <3>1, <3>2, <3>3, <3>5, TakenQuiet, ZenonT(60)
    <3> QED BY <3>4, <3>6
  <2>3. /\ Viewed(view') /\ view'.epoch = b.epoch
        /\ HasPicture(b.packets) => view'.feed = b.feed
        /\ ~HasPicture(b.packets) => view'.feed = view.feed
    BY <2>1 DEF Shows
  <2>4. view'.epoch # 0
    BY <1>2, <1>3, <2>1, <2>3
  <2>5. view'.feed # None
    <3>1. CASE HasPicture(b.packets)
      <4>1. b.feed \in Feeds
        BY <1>2 DEF Batches
      <4> QED BY <2>3, <3>1, <4>1, Constants
    <3>2. CASE ~HasPicture(b.packets)
      <4>1. ~Opening(co)
        BY <1>2, <3>2 DEF Opening
      <4>2. view.epoch # 0
        BY <1>1, <4>1 DEF QuietInv, Unseen
      <4> QED BY <1>1, <2>3, <3>2, <4>2 DEF QuietInv
    <3> QED BY <3>1, <3>2
  <2> QED BY <1>2, <1>3, <2>2, <2>3, <2>4, <2>5 DEF QuietInv
<1>6. CASE ~current
  <2>1. co.epoch < pub /\ view' = [view EXCEPT !.cut = TRUE]
    BY <1>2, <1>3, <1>6
  <2>2. /\ Viewed(view') /\ view'.epoch = view.epoch /\ view'.feed = view.feed
        /\ view'.sound = view.sound /\ view'.unveiled = view.unveiled
    BY <1>3, <2>1 DEF Viewed
  <2>3. view.epoch # 0
    <3>1. ~(pub <= co.epoch)
      BY <1>3, <2>1
    <3> QED BY <1>1, <3>1 DEF QuietInv, Unseen
  <2>4. Typed(d) /\ d.epoch = co.epoch
    BY <1>1, <1>2, FromLine DEF LineInv, Good, Typed, Fields
  <2>5. Quiet(d, view', pub, sounds, mark)
    <3> DEFINE q == co.outbox
               t == Tail(q)
    <3>1. q \in Seq(Batches) /\ q # <<>>
      BY <1>2, <1>3 DEF Typed
    <3>2. \A a \in DOMAIN t : a + 1 \in DOMAIN q /\ t[a] = q[a + 1]
      <4> HIDE DEF q
      <4> QED BY <3>1, TailIs
    <3>3. /\ d.selected = co.selected /\ d.desired = co.desired
          /\ d.cutoff = co.cutoff /\ d.offset = co.offset
          /\ d.boundary = co.boundary /\ d.waiting = co.waiting
          /\ d.scheduled = co.scheduled /\ d.outbox = t
          /\ d.tail = co.tail /\ d.published = co.published
          /\ d.error = co.error /\ d.silent = co.silent
      <4> HIDE DEF t
      <4>1. d = [co EXCEPT !.outbox = t]
        BY DEF t
      <4> QED BY <1>3, <4>1 DEF Typed, Fields
    <3> HIDE DEF d, t, sounds, pub
    <3>4. OfFeed(d) /\ Hushed(d, view') /\ Veiled(d, view')
      <4>1. OfFeed(co) /\ Hushed(co, view) /\ Veiled(co, view)
        BY <1>4 DEF Quiet
      <4>2. OfFeed(d)
        BY <3>2, <3>3, <4>1 DEF OfFeed
      <4>3. Hushed(d, view')
        BY <2>2, <3>2, <3>3, <4>1 DEF Hushed
      <4>4. Veiled(d, view')
        BY <2>2, <3>3, <4>1 DEF Veiled
      <4> QED BY <4>2, <4>3, <4>4
    <3>5. Curtain(d, view', pub, sounds, mark)
      BY <1>3, <2>1, <2>4 DEF Curtain
    <3>6. d.error = None => Levels(d, view') /\ Begun(d) /\ Queued(d, sounds)
      <4>1. SUFFICES ASSUME d.error = None
            PROVE Levels(d, view') /\ Begun(d) /\ Queued(d, sounds)
        OBVIOUS
      <4>2. Levels(co, view) /\ Begun(co) /\ Queued(co, sounds)
        BY <1>4, <3>3, <4>1 DEF Quiet
      <4>3. Begun(d) /\ Queued(d, sounds)
        BY <3>3, <4>2 DEF Begun, Queued
      <4>4. /\ Level(co.published, view) /\ Level(co.tail, view)
            /\ \A a \in DOMAIN q : Covers(co.published, q[a].packets)
                                   /\ Covers(co.tail, q[a].packets)
            /\ Covers(co.tail, co.scheduled) /\ NotBefore(co.scheduled, 0)
            /\ 0 <= co.published.output
        BY <3>1, <4>2 DEF Levels
      <4>5. Level(co.published, view') /\ Level(co.tail, view')
        BY <2>2, <4>4 DEF Level
      <4>6. \A a \in DOMAIN t : Covers(co.published, t[a].packets)
                                /\ Covers(co.tail, t[a].packets)
        BY <3>2, <4>4
      <4>7. Levels(d, view')
        BY <3>3, <4>4, <4>5, <4>6 DEF Levels
      <4> QED BY <4>3, <4>7
    <3> QED BY <3>4, <3>5, <3>6 DEF Quiet
  <2> QED BY <1>1, <1>2, <2>2, <2>3, <2>5 DEF QuietInv
<1> QED
  BY <1>5, <1>6

\* An action is admitted only once something was acknowledged.
LEMMA AdmitQuiet ==
  ASSUME LineInv, LineInv', QuietInv, NEW action \in Actions, Admit(action) PROVE QuietInv'
<1>1. /\ publication_epoch' = publication_epoch + 1 /\ acked > 0
      /\ source' = source /\ co' = co /\ view' = view
  BY DEF Admit
<1>2. view.epoch # 0
  <2>1. acked # 0
    BY <1>1
  <2> QED BY <2>1 DEF QuietInv, Unseen
<1>3. /\ Typed(co) /\ publication_epoch \in Int /\ publication_epoch' \in Int
      /\ publication_epoch <= publication_epoch' /\ Sounding(source) \in [Feeds -> Int]
  BY <1>1, FromLine
<1>4. PICK mark \in Int : Quiet(co, view, publication_epoch, Sounding(source), mark)
  BY DEF QuietInv
<1>5. \A f \in Feeds : Sounding(source)[f] <= Sounding(source)[f]
  BY <1>3
<1>6. Quiet(co, view, publication_epoch', Sounding(source), mark)
  BY <1>3, <1>4, <1>5, LaterSounds DEF QuietInv
<1>7. Quiet(co', view', publication_epoch', Sounding(source'), mark)
  BY <1>1, <1>6
<1>8. 1 <= publication_epoch'
  BY <1>1, <1>3 DEF QuietInv
<1> QED
  BY <1>1, <1>2, <1>7, <1>8 DEF QuietInv

\* What is acknowledged has been received.
LEMMA DeliverQuiet == QuietInv /\ Deliver => QuietInv'
<1>1. SUFFICES ASSUME QuietInv, Deliver PROVE QuietInv'
  OBVIOUS
<1>2. /\ publication_epoch' = publication_epoch /\ requests' = requests /\ source' = source
      /\ co' = co /\ view' = view
  BY <1>1 DEF Deliver
<1>3. PICK ticket \in (acked + 1)..view.ticket : acked' = ticket
  BY <1>1 DEF Deliver
<1>4. view.epoch # 0
  <2>1. SUFFICES ASSUME view.epoch = 0 PROVE FALSE
    OBVIOUS
  <2>2. acked = 0 /\ view.ticket = 0
    BY <1>1, <2>1 DEF QuietInv, Unseen
  <2> QED BY <1>3, <2>2
<1> QED
  BY <1>1, <1>2, <1>4 DEF QuietInv

\* The steps that leave the silence alone.
LEMMA StillQuiet ==
  ASSUME QuietInv, UNCHANGED <<publication_epoch, requests, source, co, view, acked>>
  PROVE  QuietInv'
  BY DEF QuietInv, Unseen

\* Holding stays silent, and the programme's sound behind its picture, over
\* every step of the worker, the feeds, the admitting threads and the network.
THEOREM QuietHolds == Spec => []QuietInv
<1>1. Init => QuietInv
  BY InitQuiet
<1>2. LineInv /\ LineInv' /\ QuietInv /\ [Next]_vars => QuietInv'
  <2>1. SUFFICES ASSUME LineInv, LineInv', QuietInv, [Next]_vars PROVE QuietInv'
    OBVIOUS
  <2>2. CASE Request
    BY <2>1, <2>2, RequestQuiet
  <2>3. CASE CheckGuard
    BY <2>1, <2>3, CheckGuardQuiet
  <2>4. CASE CheckResume
    BY <2>1, <2>4, CheckResumeQuiet
  <2>5. CASE CheckLimits
    BY <2>1, <2>5, CheckLimitsQuiet
  <2>6. CASE Dispatch
    BY <2>1, <2>6, DispatchQuiet
  <2>7. ASSUME NEW keys \in Bursts["Holding"], Holding(keys) PROVE QuietInv'
    BY <2>1, <2>7, HoldingQuiet
  <2>8. ASSUME NEW keys \in Bursts["Programme"], NEW key \in BOOLEAN, Programme(keys, key)
        PROVE  QuietInv'
    BY <2>1, <2>8, ProgrammeQuiet
  <2>9. ASSUME NEW a \in Actions, Admit(a) PROVE QuietInv'
    BY <2>1, <2>9, AdmitQuiet
  <2>10. CASE Deliver
    BY <2>1, <2>10, DeliverQuiet
  <2>11. CASE Wake \/ UNCHANGED vars
    <3>1. UNCHANGED <<publication_epoch, requests, source, co, view, acked>>
      BY <2>11 DEF Wake, vars
    <3> QED BY <2>1, <3>1, StillQuiet
  <2> QED
    BY <2>1, <2>2, <2>3, <2>4, <2>5, <2>6, <2>7, <2>8, <2>9, <2>10, <2>11
       DEF Next, Worker, HandOver
<1> QED
  BY <1>1, <1>2, LineHolds, PTL DEF Spec

\* Only the dispatcher takes a batch.
LEMMA ConsumedIsDispatch == [Next]_vars /\ Consumed => Dispatch
<1>1. SUFFICES ASSUME [Next]_vars, Consumed, ~Dispatch PROVE FALSE
  OBVIOUS
<1>2. co.outbox # <<>> /\ co' # co
  BY <1>1 DEF Consumed
<1>3. \A step : ~Ready(step)
  BY <1>2 DEF Ready
<1> QED
  BY <1>1, <1>2, <1>3 DEF Next, Worker, HandOver, vars, Wake, Request, CheckGuard,
     CheckResume, CheckLimits, Holding, Programme, Deliver, Admit

\* What a kind holds is one of the packets, of that kind.
LEMMA OfKind ==
  ASSUME NEW q \in Seq(Packet), NEW kind, NEW p \in ToSet(Kind(q, kind))
  PROVE  \E i \in DOMAIN q : q[i].kind = kind /\ p = q[i]
<1>1. PICK x : x = Kind(q, kind)
  OBVIOUS
<1>2. \A k \in DOMAIN x : \E i \in DOMAIN q : q[i].kind = kind /\ x[k] = q[i]
  BY <1>1, KindIs, SMTT(30)
<1>3. PICK k \in DOMAIN x : p = x[k]
  BY <1>1 DEF ToSet
<1> QED BY <1>2, <1>3

\* Nobody hears the programme under a holding picture, whichever action
\* supersedes which transition, and wherever: what is dispatched of holding has
\* no picture before the end of the programme sound that was received, and
\* after holding the programme's sound starts with its picture (HoldingIsSilent).
THEOREM HoldingStaysSilent == Spec => HoldingIsSilent
<1> DEFINE b == Head(co.outbox)
           Silent ==
             Consumed =>
               /\ Batch.feed = "Holding" =>
                    \A p \in ToSet(Kind(Batch.packets, "Video")) : p.pts >= view.sound
               /\ Batch.feed = "Programme" /\ view.epoch # 0 =>
                    \A p \in ToSet(Kind(Batch.packets, "Audio")) :
                      ~p.drain => view'.feed = "Programme" /\ p.pts >= view'.unveiled
<1>1. LineInv /\ QuietInv /\ [Next]_vars => Silent
  <2>1. SUFFICES ASSUME LineInv, QuietInv, [Next]_vars, Consumed PROVE Silent
    OBVIOUS
  <2>2. Dispatch /\ b.epoch >= publication_epoch /\ Batch = b
    BY <2>1, ConsumedIsDispatch DEF Consumed, Batch
  <2>3. /\ b \in Batches /\ b = co.outbox[1] /\ 1 \in DOMAIN co.outbox
        /\ b.epoch = co.epoch /\ b.feed = co.selected /\ b.packets \in Seq(Packet)
        /\ Shows(view', view, b)
    BY <2>1, <2>2, DispatchTakes
  <2>4. PICK mark \in Int :
          Quiet(co, view, publication_epoch, Sounding(source), mark)
    BY <2>1 DEF QuietInv
  <2>5. publication_epoch <= co.epoch /\ Viewed(view)
    BY <2>1, <2>2, <2>3, FromLine DEF QuietInv
  <2> HIDE DEF b
  <2>6. \A i \in DOMAIN b.packets : b.packets[i].pts \in Int
    <3>1. \A i \in DOMAIN b.packets : b.packets[i] \in Packet
      BY <2>3
    <3> QED BY <3>1 DEF Packet
  <2>7. ASSUME b.feed = "Holding", NEW p \in ToSet(Kind(b.packets, "Video"))
        PROVE  p.pts >= view.sound
    <3>1. PICK i \in DOMAIN b.packets : b.packets[i].kind = "Video" /\ p = b.packets[i]
      <4>1. PICK q : q = b.packets
        OBVIOUS
      <4>2. q \in Seq(Packet) /\ p \in ToSet(Kind(q, "Video"))
        BY <2>3, <2>7, <4>1
      <4>3. \E i \in DOMAIN q : q[i].kind = "Video" /\ p = q[i]
        BY <4>2, OfKind, SMTT(30)
      <4> QED BY <4>1, <4>3
    <3>2. PicturesFrom(b.packets, view.sound)
      BY <2>3, <2>4, <2>7 DEF Quiet, Hushed
    <3>3. view.sound <= p.pts /\ view.sound \in Int /\ p.pts \in Int
      BY <2>5, <2>6, <3>1, <3>2 DEF PicturesFrom, Viewed
    <3> QED BY <3>3
  <2>8. ASSUME b.feed = "Programme", view.epoch # 0,
               NEW p \in ToSet(Kind(b.packets, "Audio")), ~p.drain
        PROVE  view'.feed = "Programme" /\ p.pts >= view'.unveiled
    <3>1. PICK i \in DOMAIN b.packets : b.packets[i].kind = "Audio" /\ p = b.packets[i]
      <4>1. PICK q : q = b.packets
        OBVIOUS
      <4>2. q \in Seq(Packet) /\ p \in ToSet(Kind(q, "Audio"))
        BY <2>3, <2>8, <4>1
      <4>3. \E i \in DOMAIN q : q[i].kind = "Audio" /\ p = q[i]
        BY <4>2, OfKind, SMTT(30)
      <4> QED BY <4>1, <4>3
    <3>2. Shown(co, view, mark)
      BY <2>3, <2>4, <2>5, <2>8 DEF Quiet, Curtain
    <3>3. /\ SoundFrom(b.packets, mark)
          /\ view.feed # "Holding" => view.unveiled <= mark
      BY <2>3, <3>2 DEF Shown
    <3>4. mark <= p.pts
      BY <2>8, <3>1, <3>3 DEF SoundFrom, IsSound
    <3>5. ~Blank(b.packets)
      BY <2>8, <3>1 DEF Blank
    <3>6. /\ Viewed(view')
          /\ HasPicture(b.packets) => view'.feed = b.feed
          /\ ~HasPicture(b.packets) => view'.feed = view.feed
          /\ view.feed # "Holding" => view'.unveiled = view.unveiled
      BY <2>3 DEF Shows
    <3>7. view'.feed = "Programme" /\ view'.unveiled <= mark
      <4>1. CASE view.feed = "Holding"
        <5>1. PICK x \in DOMAIN co.outbox : x <= 1 /\ Unveils(co.outbox[x].packets, mark)
          BY <2>3, <3>2, <3>5, <4>1 DEF Shown
        <5>2. x = 1
          <6>1. co.outbox \in Seq(Batches)
            BY <2>1, FromLine DEF Typed
          <6> QED BY <5>1, <6>1
        <5>3. Unveils(b.packets, mark)
          BY <2>3, <5>1, <5>2
        <5>4. view'.unveiled <= mark
          BY <2>3, <2>8, <4>1, <5>3 DEF Shows
        <5>5. HasPicture(b.packets)
          BY <5>3 DEF Unveils, HasPicture
        <5> QED BY <2>8, <3>6, <5>4, <5>5
      <4>2. CASE view.feed # "Holding"
        <5>1. view.feed = "Programme"
          BY <2>1, <2>5, <2>8, <4>2 DEF QuietInv, Viewed, Feeds
        <5> QED BY <2>8, <3>3, <3>6, <4>2, <5>1
      <4> QED BY <4>1, <4>2
    <3>8. view'.unveiled \in Int /\ p.pts \in Int
      BY <2>6, <3>1, <3>6 DEF Viewed
    <3> QED BY <3>4, <3>7, <3>8
  <2> QED BY <2>2, <2>7, <2>8
<1>2. Spec => [][LineInv /\ QuietInv /\ [Next]_vars]_vars
  BY LineHolds, QuietHolds, PTL DEF Spec
<1>3. Spec => [][Silent]_vars
  BY <1>1, LineHolds, QuietHolds, PTL DEF Spec
<1> QED
  BY <1>3 DEF HoldingIsSilent
====
