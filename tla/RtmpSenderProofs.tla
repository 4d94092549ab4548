-------------------------- MODULE RtmpSenderProofs --------------------------
(***************************************************************************)
(* For any limit of the queue, any number of epochs, batches, attempts and  *)
(* reconnections, and any connection: what the sender tells the coordinator *)
(* is true (ReportsAreTrue), a transition waits for nothing a reconnection  *)
(* throws away (NothingWaitsForAReconnect), the connection it goes on with  *)
(* carries no deadline (KeptTransportIsUsable), and a ticket is             *)
(* acknowledged exactly when its media is written or shed                   *)
(* (TicketsAreExact).                                                       *)
(*                                                                          *)
(* SenderInv says what the worker's place implies of its locals (Place), of *)
(* the life cycle the pipeline sees (Life, Resume), of the deadline and the *)
(* watchdog (Watched, Armed), and of what the connection has carried        *)
(* (Fenced, OnAir, Joined).  TicketInv adds the order of the tickets: the   *)
(* ticket of a tag is behind the batch of every tag queued after it, so     *)
(* what is acknowledged is older than what is pending, and the newest       *)
(* ticket is on a pending tag, carried, or delivered.  Shedding and         *)
(* thinning both sift a sequence and hand the tickets of what they leave    *)
(* out to what they keep; Sieve states that once, by induction on the       *)
(* prefix, and both are instances of it.                                    *)
(***************************************************************************)
EXTENDS RtmpSender, SequenceTheorems, FiniteSetTheorems, NaturalsInduction,
        WellFoundedInduction, TLAPS

-----------------------------------------------------------------------------
(* Natural numbers and recursion.                                          *)

\* Every non-empty set of natural numbers has a least element.
LEMMA NatMinimum ==
  ASSUME NEW S, S \subseteq Nat, S # {}
  PROVE  \E n \in S : \A m \in S : n <= m
<1>1. IsWellFoundedOn(OpToRel(<, Nat), Nat)
  BY NatLessThanWellFounded, Zenon
<1>2. PICK n \in S : \A m \in S : <<m, n>> \notin OpToRel(<, Nat)
  BY <1>1, WFMin, Zenon
<1>3. \A m \in S : ~(m < n)
  BY <1>2 DEF OpToRel
<1> QED
  BY <1>3

\* A non-empty set of positions has a last one.
LEMMA IntervalMaximum ==
  ASSUME NEW N \in Nat, NEW S, S \subseteq 1..N, S # {}
  PROVE  \E n \in S : \A m \in S : m <= n
<1> DEFINE T == {N - i : i \in S}
<1>1. T \subseteq Nat /\ T # {}
  <2>1. \A i \in S : N - i \in Nat
    OBVIOUS
  <2>2. PICK i \in S : TRUE
    OBVIOUS
  <2>3. N - i \in T
    OBVIOUS
  <2> QED BY <2>1, <2>3
<1>2. PICK k \in T : \A m \in T : k <= m
  BY <1>1, NatMinimum
<1>3. PICK n \in S : k = N - n
  OBVIOUS
<1>4. \A m \in S : N - n <= N - m
  BY <1>2, <1>3
<1> QED
  BY <1>4

\* A set of natural numbers that holds 0 and is closed under successor.
LEMMA NatSetInduction ==
  ASSUME NEW S, 0 \in S, \A n \in Nat : n \in S => n + 1 \in S
  PROVE  \A n \in Nat : n \in S
<1> DEFINE T == Nat \ S
<1>1. SUFFICES ASSUME T # {} PROVE FALSE
  OBVIOUS
<1>2. PICK n \in T : \A m \in T : n <= m
  BY <1>1, NatMinimum
<1>3. n # 0 /\ n - 1 \in Nat
  BY <1>2
<1>4. n - 1 \in S
  BY <1>2, <1>3
<1> QED
  BY <1>3, <1>4

\* A function over the prefixes of a sequence of steps: what a definition by
\* recursion on the length of a prefix denotes.
Iterates(f, A, start, N, step) ==
  /\ f \in [0..N -> A]
  /\ f[0] = start
  /\ \A n \in 1..N : f[n] = step[n][f[n - 1]]
LEMMA PrefixRecursion ==
  ASSUME NEW A, NEW start \in A, NEW N \in Nat,
         NEW step \in [1..N -> [A -> A]]
  PROVE  \E f : Iterates(f, A, start, N, step)
<1> DEFINE IsPrefix(f, n) == /\ f \in [0..n -> A]
                            /\ f[0] = start
                            /\ \A m \in 1..n : f[m] = step[m][f[m - 1]]
           S == {n \in Nat : n <= N => \E f : IsPrefix(f, n)}
<1>1. 0 \in S
  <2>1. IsPrefix([n \in 0..0 |-> start], 0)
    OBVIOUS
  <2> QED BY <2>1
<1>2. ASSUME NEW n \in Nat, n \in S PROVE n + 1 \in S
  <2>1. SUFFICES ASSUME n + 1 <= N PROVE \E f : IsPrefix(f, n + 1)
    OBVIOUS
  <2>2. PICK f : IsPrefix(f, n)
    BY <1>2, <2>1
  <2> DEFINE g == [m \in 0..(n + 1) |-> IF m = n + 1 THEN step[n + 1][f[n]]
                                       ELSE f[m]]
  <2>3. n + 1 \in 1..N /\ f[n] \in A
    BY <2>1, <2>2
  <2>4. step[n + 1][f[n]] \in A
    BY <2>3
  <2>5. g \in [0..(n + 1) -> A]
    BY <2>2, <2>4
  <2>6. g[0] = start
    BY <2>2
  <2>7. ASSUME NEW m \in 1..(n + 1) PROVE g[m] = step[m][g[m - 1]]
    <3>1. CASE m = n + 1
      <4>1. g[m] = step[n + 1][f[n]] /\ g[m - 1] = f[n]
        BY <3>1
      <4> QED BY <3>1, <4>1
    <3>2. CASE m # n + 1
      <4>1. m \in 1..n
        BY <3>2
      <4>2. g[m] = f[m] /\ g[m - 1] = f[m - 1]
        BY <4>1
      <4> QED BY <2>2, <4>1, <4>2
    <3> QED BY <3>1, <3>2
  <2>8. IsPrefix(g, n + 1)
    BY <2>5, <2>6, <2>7
  <2> QED BY <2>8
<1>3. \A n \in Nat : n \in S
  BY <1>1, <1>2, NatSetInduction
<1>4. PICK f : IsPrefix(f, N)
  BY <1>3
<1> QED
  BY <1>4 DEF Iterates


-----------------------------------------------------------------------------
(* The inductive invariant.                                                 *)

\* Where the worker can be: inside send_tag or connect_and_prime, in the loop
\* of run, in reconnect, on a connection attempt; and on its way out.
Talking  == {"send", "sending", "wrote"}
Looping  == {"pop", "popped", "publish"}
Away     == {"takeCancellation", "replace", "retry", "delay", "exhausted",
             "redialled"}
Reaching == {"dial", "connecting", "attemptFailed"}
Shutting == {"close", "closing"}
Over == \/ w.pc \in {"fail", "closeQueue", "done"}
        \/ w.pc \in Shutting /\ w.after \in {"fail", "done"}

\* A tag as the pipeline makes it, of an epoch it has reached.
Good(e) == {t \in Tag : t.epoch <= e /\ (IsVideo(t) => t.video > 0)}
\* The worker holds a tag.
Holds == \/ w.pc \in {"popped", "publish"}
         \/ OnLine /\ w.pc \in Talking

Locals == [pc : Pcs,
           after : {"none", "attemptFailed", "takeCancellation", "fail", "done"},
           job : {"none", "file", "header", "tag"}, tag : Tag \cup {None},
           boot : BOOLEAN, redial : BOOLEAN, left : Nat, awaiting : BOOLEAN,
           media : Nat, sel : Nat \cup {None}, selEpoch : Nat, rev : Nat,
           reconnected : BOOLEAN]
Feed == [epoch : Nat, batch : Nat, videos : Nat,
         phase : {"boundary", "guarded", "flowing", "failed"}, guard : Nat]

LifeTyped ==
  /\ state \in {"Starting", "Running", "Reconnecting", "Stopping", "Failed",
                "Stopped"}
  /\ stop_requested \in BOOLEAN /\ startup_timed_out \in BOOLEAN
  /\ watchdog \in {"waiting", "expired", "done"} /\ closed \in BOOLEAN
EpochTyped ==
  /\ epoch \in Nat /\ acknowledged_epoch \in Nat /\ writing \in BOOLEAN
  /\ transition_cancelled_transport \in BOOLEAN
  /\ resume_after_transition \in BOOLEAN
  /\ connection \in [interrupted : BOOLEAN, armed : BOOLEAN]
TicketTyped ==
  /\ published_epoch \in Nat /\ delivered_epoch \in Nat /\ delivery_ticket \in Nat
  /\ enqueued_ticket \in Nat /\ carried_ticket \in Nat
  /\ drop_video_until_keyframe \in BOOLEAN
HeaderTyped ==
  /\ sequence_headers \in Nat \cup {None}
  /\ header_revision \in Nat /\ primed_revision \in Nat
  /\ feed \in Feed
WorkerTyped ==
  /\ w \in Locals
  /\ writing <=> w.pc \in {"connecting", "sending", "closing"}
WireTyped == wire \in [epoch : Nat \cup {None}, headers : Nat \cup {None},
                      video : Nat, audio : BOOLEAN]
Typed == /\ LifeTyped /\ EpochTyped /\ TicketTyped /\ HeaderTyped
         /\ WorkerTyped /\ WireTyped

\* What the worker's locals say at each of its places.
Place ==
  /\ w.pc \in Looping => OnLine
  /\ w.pc \in Talking => /\ w.job # "none"
                         /\ w.job = "file" => ~OnLine
                         /\ w.job = "tag" => OnLine
  /\ w.pc \in Reaching => ~OnLine
  /\ w.pc \in Away \cup {"gaveUp"} => w.redial
  /\ w.pc \in Shutting =>
       /\ w.after # "none"
       /\ w.after = "attemptFailed" => ~OnLine
       /\ w.after = "takeCancellation" => w.redial
       /\ w.after \in {"fail", "done"} => ~w.boot
  /\ w.pc \in {"fail", "closeQueue", "done"} => ~w.boot
  /\ w.pc = "booted" => w.boot /\ ~w.redial
  /\ w.pc = "reconnect" => ~w.redial
  /\ w.boot => w.awaiting
  /\ w.pc = "publish" => w.tag.kind = "audio"

\* What the queue and the worker hold comes from the pipeline.
Media ==
  /\ epoch <= feed.epoch
  /\ w.media <= epoch
  /\ Holds => w.tag \in Good(epoch)
  /\ OnLine /\ w.pc \in Talking \cup {"publish"} => w.media = w.tag.epoch
Queued ==
  /\ queue \in Seq(Good(epoch))
  /\ Len(queue) <= MaxTags

\* The life cycle the pipeline sees, and the transition that a reconnection
\* takes over: while it resumes, an attempt is left.
Life ==
  /\ stop_requested => state \in {"Stopping", "Stopped"}
  /\ state = "Reconnecting" => w.redial
  /\ w.redial /\ ~stop_requested /\ ~Over => state = "Reconnecting"
Resume ==
  /\ resume_after_transition =>
       /\ \/ w.pc = "takeCancellation"
          \/ w.pc \in Shutting /\ w.after = "takeCancellation"
          => transition_cancelled_transport
       /\ w.pc = "retry" => w.left > 0
       /\ w.pc = "exhausted" => stop_requested \/ startup_timed_out
  /\ ReconnectingNeverWaits

\* The startup watchdog has done with the connection once the start is over.
Watched ==
  /\ connection.interrupted => stop_requested \/ startup_timed_out
  /\ watchdog = "expired" => startup_timed_out
  /\ ~w.boot /\ ~Over => ~startup_timed_out
\* A transition that armed the deadline is still to be accounted for.
Armed ==
  /\ transition_cancelled_transport =>
       \/ writing
       \/ w.pc \in {"reconnect", "takeCancellation", "attemptFailed", "fail",
                    "closeQueue", "done"}
       \/ w.pc = "close" /\ w.after \in {"takeCancellation", "attemptFailed"}
  /\ connection.armed /\ ~transition_cancelled_transport =>
       stop_requested \/ w.pc \in {"replace", "gaveUp"} \/ Over

Fenced == acknowledged_epoch <= epoch /\ FenceHolds

\* What the connection has carried, against what the worker says of it.
OnAir ==
  /\ wire.epoch # None => wire.epoch <= epoch
  /\ ~OnLine => published_epoch = 0
  /\ w.pc = "sending" /\ w.job = "tag" /\ wire.epoch # None =>
       wire.epoch <= w.tag.epoch
  /\ \/ w.pc = "wrote" /\ w.job = "tag"
     \/ w.pc = "publish"
     => \/ stop_requested \/ w.tag.epoch # epoch
        \/ wire.epoch = epoch /\ (w.tag.kind = "audio" => wire.audio)
Joined ==
  ~stop_requested /\ ~w.awaiting /\ OnLine /\ w.media = epoch
    /\ w.pc \in Looping \cup Talking =>
      \/ wire.epoch = epoch /\ wire.video > 0
      \/ /\ w.pc \in {"send", "sending"} /\ w.job = "tag"
         /\ w.tag.kind = "key" /\ w.tag.epoch = epoch

SenderInv ==
  /\ Typed /\ Place /\ Media /\ Queued /\ Life /\ Resume /\ Watched /\ Armed
  /\ Fenced /\ OnAir /\ Joined /\ BoundaryWrittenWhileLive

-----------------------------------------------------------------------------
(* Sifting: what drop_video and thin_incoming_video_locked have in common.  *)
(* Both go over a sequence, keep the positions of K, and hand the tickets   *)
(* of the others to the next kept tag.                                      *)

\* f[n] is the state of the loop after n tags.
Sifts(f, tags, K) ==
  /\ K \subseteq 1..Len(tags)
  /\ f[0].kept = <<>> /\ f[0].carried \in Nat
  /\ \A n \in 1..Len(tags) :
       /\ n \in K =>
            /\ f[n].kept = Append(f[n - 1].kept,
                 [tags[n] EXCEPT !.ticket = Higher(@, f[n - 1].carried)])
            /\ f[n].carried = 0
       /\ n \notin K =>
            /\ f[n].kept = f[n - 1].kept
            /\ f[n].carried = Higher(f[n - 1].carried, tags[n].ticket)

\* The first n tags: kept[k] comes from tags[pos[k]], in order, with its own
\* ticket or one carried to it from before; so does what is still carried.
Shape(f, tags, K, n, pos) ==
  LET kept == f[n].kept IN
  /\ kept \in Seq(Tag) /\ Len(kept) <= n
  /\ 1..n \subseteq K => Len(kept) = n
  /\ pos \in [1..Len(kept) -> K \cap 1..n]
  /\ \A i, j \in 1..Len(kept) : i < j => pos[i] < pos[j]
  /\ \A m \in K \cap 1..n : \E k \in 1..Len(kept) : pos[k] = m
  /\ \A k \in 1..Len(kept) :
       /\ kept[k].kind = tags[pos[k]].kind
       /\ kept[k].epoch = tags[pos[k]].epoch
       /\ kept[k].batch = tags[pos[k]].batch
       /\ kept[k].video = tags[pos[k]].video
       /\ kept[k].headers = tags[pos[k]].headers
       /\ kept[k].ticket >= tags[pos[k]].ticket
       /\ \/ kept[k].ticket = f[0].carried
          \/ \E m \in 1..pos[k] : kept[k].ticket = tags[m].ticket
  /\ f[n].carried \in Nat
  /\ \/ f[n].carried \in {0, f[0].carried}
     \/ \E m \in 1..n : f[n].carried = tags[m].ticket
  /\ n > 0 =>
       IF n \in K THEN f[n].carried = 0
       ELSE f[n].carried >= tags[n].ticket

LEMMA SiftStarts ==
  ASSUME NEW tags \in Seq(Tag), NEW K, NEW f, Sifts(f, tags, K)
  PROVE  Shape(f, tags, K, 0, <<>>)
<1>1. f[0].kept = <<>> /\ f[0].carried \in Nat
  BY DEF Sifts
<1>2. <<>> \in [1..0 -> K \cap 1..0] /\ 1..0 = {} /\ Len(<<>>) = 0
  OBVIOUS
<1>3. <<>> \in Seq(Tag)
  OBVIOUS
<1> QED
  BY <1>1, <1>2, <1>3 DEF Shape

LEMMA SiftKeeps ==
  ASSUME NEW tags \in Seq(Tag), NEW K, NEW f, Sifts(f, tags, K),
         NEW n \in Nat, n + 1 <= Len(tags), n + 1 \in K,
         NEW pos, Shape(f, tags, K, n, pos)
  PROVE  \E p : Shape(f, tags, K, n + 1, p)
<1> DEFINE kept == f[n].kept
           len == Len(kept)
           new == f[n + 1].kept
           t == [tags[n + 1] EXCEPT !.ticket = Higher(@, f[n].carried)]
           p == [k \in 1..(len + 1) |-> IF k = len + 1 THEN n + 1 ELSE pos[k]]
<1>1. n + 1 \in 1..Len(tags) /\ (n + 1) - 1 = n
  OBVIOUS
<1>2. new = Append(kept, t) /\ f[n + 1].carried = 0
  BY <1>1 DEF Sifts
<1>3. /\ kept \in Seq(Tag) /\ len \in Nat /\ len <= n
      /\ pos \in [1..len -> K \cap 1..n]
      /\ f[n].carried \in Nat /\ f[0].carried \in Nat
  BY DEF Shape, Sifts
<1>4. /\ tags[n + 1] \in Tag
      /\ t \in Tag
      /\ t.kind = tags[n + 1].kind /\ t.epoch = tags[n + 1].epoch
      /\ t.batch = tags[n + 1].batch /\ t.video = tags[n + 1].video
      /\ t.headers = tags[n + 1].headers
      /\ t.ticket = Higher(tags[n + 1].ticket, f[n].carried)
      /\ tags[n + 1].ticket \in Nat
  <2>1. tags[n + 1] \in Tag
    BY <1>1, ElementOfSeq
  <2> QED BY <2>1, <1>3 DEF Tag, Higher
<1>5. /\ new \in Seq(Tag) /\ Len(new) = len + 1
      /\ \A k \in 1..len : new[k] = kept[k]
      /\ new[len + 1] = t
  BY <1>2, <1>3, <1>4
<1>6. p \in [1..Len(new) -> K \cap 1..(n + 1)]
  <2>1. ASSUME NEW k \in 1..(len + 1)
        PROVE  (IF k = len + 1 THEN n + 1 ELSE pos[k]) \in K \cap 1..(n + 1)
    <3>1. CASE k = len + 1
      BY <3>1
    <3>2. CASE k # len + 1
      <4>1. k \in 1..len
        BY <3>2, <1>3
      <4>2. pos[k] \in K \cap 1..n
        BY <4>1, <1>3
      <4> QED BY <3>2, <4>2
    <3> QED BY <3>1, <3>2
  <2> QED BY <2>1, <1>5
<1>7. \A i, j \in 1..Len(new) : i < j => p[i] < p[j]
  <2>1. SUFFICES ASSUME NEW i \in 1..Len(new), NEW j \in 1..Len(new), i < j
                 PROVE  p[i] < p[j]
    OBVIOUS
  <2>2. i \in 1..len /\ p[i] = pos[i] /\ pos[i] \in 1..n
    BY <2>1, <1>3, <1>5
  <2>3. CASE j = len + 1
    BY <2>2, <2>3
  <2>4. CASE j # len + 1
    <3>1. j \in 1..len /\ p[j] = pos[j]
      BY <2>1, <2>4, <1>5
    <3> QED BY <2>1, <2>2, <3>1 DEF Shape
  <2> QED BY <2>3, <2>4
<1>8. \A m \in K \cap 1..(n + 1) : \E k \in 1..Len(new) : p[k] = m
  <2>1. SUFFICES ASSUME NEW m \in K \cap 1..(n + 1)
                 PROVE  \E k \in 1..Len(new) : p[k] = m
    OBVIOUS
  <2>2. CASE m = n + 1
    <3>1. len + 1 \in 1..Len(new) /\ p[len + 1] = n + 1
      BY <1>3, <1>5
    <3> QED BY <2>2, <3>1
  <2>3. CASE m # n + 1
    <3>1. PICK k \in 1..len : pos[k] = m
      BY <2>3 DEF Shape
    <3>2. k \in 1..Len(new) /\ p[k] = pos[k]
      BY <3>1, <1>3, <1>5
    <3> QED BY <3>1, <3>2
  <2> QED BY <2>2, <2>3
<1>9. \/ f[n].carried \in {0, f[0].carried}
      \/ \E m \in 1..n : f[n].carried = tags[m].ticket
  BY DEF Shape
<1>10. ASSUME NEW k \in 1..Len(new)
       PROVE  /\ new[k].kind = tags[p[k]].kind
              /\ new[k].epoch = tags[p[k]].epoch
              /\ new[k].batch = tags[p[k]].batch
              /\ new[k].video = tags[p[k]].video
              /\ new[k].headers = tags[p[k]].headers
              /\ new[k].ticket >= tags[p[k]].ticket
              /\ \/ new[k].ticket = f[0].carried
                 \/ \E m \in 1..p[k] : new[k].ticket = tags[m].ticket
  <2>1. CASE k = len + 1
    <3>1. p[k] = n + 1 /\ new[k] = t
      BY <2>1, <1>5
    <3>2. t.ticket >= tags[n + 1].ticket
      BY <1>3, <1>4 DEF Higher
    <3>3. \/ t.ticket = tags[n + 1].ticket
          \/ t.ticket = f[0].carried
          \/ \E m \in 1..n : t.ticket = tags[m].ticket
      BY <1>3, <1>4, <1>9 DEF Higher
    <3>4. \/ t.ticket = f[0].carried
          \/ \E m \in 1..(n + 1) : t.ticket = tags[m].ticket
      BY <3>3
    <3> QED BY <3>1, <3>2, <3>4, <1>4
  <2>2. CASE k # len + 1
    <3>1. k \in 1..len /\ p[k] = pos[k] /\ new[k] = kept[k]
      BY <2>2, <1>5
    <3> QED BY <3>1 DEF Shape
  <2> QED BY <2>1, <2>2
<1>11. 1..(n + 1) \subseteq K => Len(new) = n + 1
  <2>1. 1..(n + 1) \subseteq K => 1..n \subseteq K
    OBVIOUS
  <2>2. 1..n \subseteq K => len = n
    BY DEF Shape
  <2> QED BY <2>1, <2>2, <1>5
<1>12. /\ f[n + 1].carried \in Nat /\ f[n + 1].carried \in {0, f[0].carried}
       /\ n + 1 > 0 /\ (n + 1 \in K => f[n + 1].carried = 0)
       /\ Len(new) <= n + 1
  BY <1>2, <1>3, <1>5
<1> HIDE DEF p, t
<1>13. Shape(f, tags, K, n + 1, p)
  BY <1>12, <1>3, <1>5, <1>6, <1>7, <1>8, <1>10, <1>11 DEF Shape
<1> QED
  BY <1>13

LEMMA SiftDrops ==
  ASSUME NEW tags \in Seq(Tag), NEW K, NEW f, Sifts(f, tags, K),
         NEW n \in Nat, n + 1 <= Len(tags), n + 1 \notin K,
         NEW pos, Shape(f, tags, K, n, pos)
  PROVE  Shape(f, tags, K, n + 1, pos)
<1> DEFINE kept == f[n].kept
<1>1. n + 1 \in 1..Len(tags) /\ (n + 1) - 1 = n
  OBVIOUS
<1>2. /\ f[n + 1].kept = kept
      /\ f[n + 1].carried = Higher(f[n].carried, tags[n + 1].ticket)
  BY <1>1 DEF Sifts
<1>3. tags[n + 1] \in Tag /\ tags[n + 1].ticket \in Nat
  <2>1. tags[n + 1] \in Tag
    BY <1>1, ElementOfSeq
  <2> QED BY <2>1 DEF Tag
<1>4. /\ kept \in Seq(Tag) /\ Len(kept) \in Nat /\ Len(kept) <= n
      /\ f[n].carried \in Nat /\ f[0].carried \in Nat
  BY DEF Shape, Sifts
<1>5. K \cap 1..(n + 1) = K \cap 1..n /\ ~(1..(n + 1) \subseteq K)
  BY <1>1
<1>6. /\ f[n + 1].carried \in Nat
      /\ f[n + 1].carried >= tags[n + 1].ticket
      /\ f[n + 1].carried \in {f[n].carried, tags[n + 1].ticket}
  BY <1>2, <1>3, <1>4 DEF Higher
<1>7. \/ f[n].carried \in {0, f[0].carried}
      \/ \E m \in 1..n : f[n].carried = tags[m].ticket
  BY DEF Shape
<1>8. \/ f[n + 1].carried \in {0, f[0].carried}
      \/ \E m \in 1..(n + 1) : f[n + 1].carried = tags[m].ticket
  <2>1. CASE f[n + 1].carried = f[n].carried
    BY <2>1, <1>7
  <2>2. CASE f[n + 1].carried = tags[n + 1].ticket
    BY <2>2
  <2> QED BY <2>1, <2>2, <1>6
<1> QED
  BY <1>2, <1>4, <1>5, <1>6, <1>8 DEF Shape

\* What the loop leaves once it has gone over the whole sequence.
LEMMA SiftShape ==
  ASSUME NEW tags \in Seq(Tag), NEW K, NEW f, Sifts(f, tags, K)
  PROVE  \E pos : Shape(f, tags, K, Len(tags), pos)
<1> DEFINE S == {n \in Nat : n <= Len(tags) =>
                    \E pos : Shape(f, tags, K, n, pos)}
<1>1. 0 \in S
  BY SiftStarts
<1>2. ASSUME NEW n \in Nat, n \in S PROVE n + 1 \in S
  <2>1. SUFFICES ASSUME n + 1 <= Len(tags)
                 PROVE  \E pos : Shape(f, tags, K, n + 1, pos)
    OBVIOUS
  <2>2. PICK pos : Shape(f, tags, K, n, pos)
    <3>1. Len(tags) \in Nat
      OBVIOUS
    <3>2. n <= Len(tags)
      BY <2>1, <3>1
    <3> QED BY <1>2, <3>2
  <2>3. CASE n + 1 \in K
    BY <2>1, <2>2, <2>3, SiftKeeps
  <2>4. CASE n + 1 \notin K
    BY <2>1, <2>2, <2>4, SiftDrops
  <2> QED BY <2>3, <2>4
<1>3. \A n \in Nat : n \in S
  BY <1>1, <1>2, NatSetInduction
<1> QED
  BY <1>3

\* drop_video, one iteration at a time.
Sieve == [kept : Seq(Tag), carried : Nat]
LEMMA DroppedSteps ==
  ASSUME NEW q \in Seq(Tag)
  PROVE  /\ Dropped(q) \in [0..Len(q) -> Sieve]
         /\ Dropped(q)[0] = [kept |-> <<>>, carried |-> 0]
         /\ \A n \in 1..Len(q) : Dropped(q)[n] = Carry(Dropped(q)[n - 1], q[n])
<1> DEFINE N == Len(q)
           start == [kept |-> <<>>, carried |-> 0]
           Is(d) == d = [n \in 0..N |-> IF n = 0 THEN start
                                        ELSE Carry(d[n - 1], q[n])]
<1>1. N \in Nat /\ start \in Sieve
  BY DEF Sieve
<1>2. ASSUME NEW n \in 1..N, NEW a \in Sieve PROVE Carry(a, q[n]) \in Sieve
  <2>1. q[n] \in Tag
    BY ElementOfSeq
  <2>2. Higher(a.carried, q[n].ticket) \in Nat /\ Higher(q[n].ticket, a.carried) \in Nat
    BY <2>1 DEF Tag, Higher, Sieve
  <2>3. [a EXCEPT !.carried = Higher(@, q[n].ticket)] \in Sieve
    BY <2>2 DEF Sieve
  <2>4. [q[n] EXCEPT !.ticket = Higher(@, a.carried)] \in Tag
    BY <2>1, <2>2 DEF Tag
  <2>5. Append(a.kept, [q[n] EXCEPT !.ticket = Higher(@, a.carried)]) \in Seq(Tag)
    BY <2>4 DEF Sieve
  <2> QED BY <2>3, <2>5 DEF Carry, Sieve
<1>3. PICK step \in [1..N -> [Sieve -> Sieve]] :
          \A n \in 1..N : \A a \in Sieve : step[n][a] = Carry(a, q[n])
  <2> DEFINE st == [n \in 1..N |-> [a \in Sieve |-> Carry(a, q[n])]]
  <2>1. st \in [1..N -> [Sieve -> Sieve]]
    BY <1>2
  <2> QED BY <2>1
<1> HIDE DEF start, N
<1>4. PICK f : Iterates(f, Sieve, start, N, step)
  BY <1>1, PrefixRecursion
<1>5. Is(f)
  <2>1. ASSUME NEW n \in 0..N
        PROVE  f[n] = IF n = 0 THEN start ELSE Carry(f[n - 1], q[n])
    <3>1. CASE n = 0
      BY <3>1, <1>4 DEF Iterates
    <3>2. CASE n # 0
      <4>1. n \in 1..N /\ f[n - 1] \in Sieve
        BY <3>2, <1>1, <1>4 DEF Iterates
      <4> QED BY <3>2, <4>1, <1>3, <1>4 DEF Iterates
    <3> QED BY <3>1, <3>2
  <2> QED BY <2>1, <1>4 DEF Iterates
<1> DEFINE d == CHOOSE g : Is(g)
<1>6. Dropped(q) = d
  BY DEF Dropped, start, N
<1>7. Is(d)
  BY <1>5
<1> HIDE DEF d
<1>8. d[0] = start /\ \A n \in 1..N : d[n] = Carry(d[n - 1], q[n])
  BY <1>1, <1>7
<1> DEFINE S == {n \in Nat : n <= N => d[n] \in Sieve}
<1>9. 0 \in S
  BY <1>1, <1>8
<1>10. ASSUME NEW n \in Nat, n \in S PROVE n + 1 \in S
  <2>1. SUFFICES ASSUME n + 1 <= N PROVE d[n + 1] \in Sieve
    OBVIOUS
  <2>2. n + 1 \in 1..N /\ d[n] \in Sieve /\ (n + 1) - 1 = n
    BY <2>1, <1>1, <1>10
  <2>3. d[n + 1] = Carry(d[n], q[n + 1])
    BY <2>2, <1>8
  <2> QED BY <2>2, <2>3, <1>2
<1>11. \A n \in Nat : n \in S
  BY <1>9, <1>10, NatSetInduction
<1>12. d \in [0..N -> Sieve]
  <2>1. \A n \in 0..N : d[n] \in Sieve
    BY <1>1, <1>11
  <2>2. d = [n \in 0..N |-> d[n]]
    BY <1>7
  <2> QED BY <2>1, <2>2
<1> QED
  BY <1>6, <1>8, <1>12 DEF start, N

\* thin_incoming_video_locked, one iteration at a time.
Thinner == [kept : Seq(Tag), carried : Nat, drop : BOOLEAN]
LEMMA ThinnedSteps ==
  ASSUME NEW q \in Seq(Tag), NEW carried \in Nat, NEW drop \in BOOLEAN
  PROVE  LET d == Thinned(q, carried, drop) IN
         /\ d \in [0..Len(q) -> Thinner]
         /\ d[0] = [kept |-> <<>>, carried |-> carried, drop |-> drop]
         /\ \A n \in 1..Len(q) : d[n] = ThinOne(d[n - 1], q[n])
<1> DEFINE N == Len(q)
           start == [kept |-> <<>>, carried |-> carried, drop |-> drop]
           Is(d) == d = [n \in 0..N |-> IF n = 0 THEN start
                                        ELSE ThinOne(d[n - 1], q[n])]
<1>1. N \in Nat /\ start \in Thinner
  BY DEF Thinner
<1>2. ASSUME NEW n \in 1..N, NEW a \in Thinner PROVE ThinOne(a, q[n]) \in Thinner
  <2>1. q[n] \in Tag
    BY ElementOfSeq
  <2>2. Higher(a.carried, q[n].ticket) \in Nat /\ Higher(q[n].ticket, a.carried) \in Nat
    BY <2>1 DEF Tag, Higher, Thinner
  <2>3. [a EXCEPT !.carried = Higher(@, q[n].ticket)] \in Thinner
    BY <2>2 DEF Thinner
  <2>4. [q[n] EXCEPT !.ticket = Higher(@, a.carried)] \in Tag
    BY <2>1, <2>2 DEF Tag
  <2>5. Append(a.kept, [q[n] EXCEPT !.ticket = Higher(@, a.carried)]) \in Seq(Tag)
    BY <2>4 DEF Thinner
  <2>6. (a.drop /\ ~IsVideo(q[n])) \in BOOLEAN
    OBVIOUS
  <2> QED BY <2>3, <2>5, <2>6 DEF ThinOne, Thinner
<1>3. PICK step \in [1..N -> [Thinner -> Thinner]] :
          \A n \in 1..N : \A a \in Thinner : step[n][a] = ThinOne(a, q[n])
  <2> DEFINE st == [n \in 1..N |-> [a \in Thinner |-> ThinOne(a, q[n])]]
  <2>1. st \in [1..N -> [Thinner -> Thinner]]
    BY <1>2
  <2> QED BY <2>1
<1> HIDE DEF start, N
<1>4. PICK f : Iterates(f, Thinner, start, N, step)
  BY <1>1, PrefixRecursion
<1>5. Is(f)
  <2>1. ASSUME NEW n \in 0..N
        PROVE  f[n] = IF n = 0 THEN start ELSE ThinOne(f[n - 1], q[n])
    <3>1. CASE n = 0
      BY <3>1, <1>4 DEF Iterates
    <3>2. CASE n # 0
      <4>1. n \in 1..N /\ f[n - 1] \in Thinner
        BY <3>2, <1>1, <1>4 DEF Iterates
      <4> QED BY <3>2, <4>1, <1>3, <1>4 DEF Iterates
    <3> QED BY <3>1, <3>2
  <2> QED BY <2>1, <1>4 DEF Iterates
<1> DEFINE d == CHOOSE g : Is(g)
<1>6. Thinned(q, carried, drop) = d
  BY DEF Thinned, start, N
<1>7. Is(d)
  BY <1>5
<1> HIDE DEF d
<1>8. d[0] = start /\ \A n \in 1..N : d[n] = ThinOne(d[n - 1], q[n])
  BY <1>1, <1>7
<1> DEFINE S == {n \in Nat : n <= N => d[n] \in Thinner}
<1>9. 0 \in S
  BY <1>1, <1>8
<1>10. ASSUME NEW n \in Nat, n \in S PROVE n + 1 \in S
  <2>1. SUFFICES ASSUME n + 1 <= N PROVE d[n + 1] \in Thinner
    OBVIOUS
  <2>2. n + 1 \in 1..N /\ d[n] \in Thinner /\ (n + 1) - 1 = n
    BY <2>1, <1>1, <1>10
  <2>3. d[n + 1] = ThinOne(d[n], q[n + 1])
    BY <2>2, <1>8
  <2> QED BY <2>2, <2>3, <1>2
<1>11. \A n \in Nat : n \in S
  BY <1>9, <1>10, NatSetInduction
<1>12. d \in [0..N -> Thinner]
  <2>1. \A n \in 0..N : d[n] \in Thinner
    BY <1>1, <1>11
  <2>2. d = [n \in 0..N |-> d[n]]
    BY <1>7
  <2> QED BY <2>1, <2>2
<1> QED
  BY <1>6, <1>8, <1>12 DEF start, N

\* What drop_video keeps, and what thin_incoming_video_locked keeps: under drop,
\* everything but the dependent frames before the first keyframe.
ShedKept(q) == {n \in 1..Len(q) : ~IsVideo(q[n])}
NoKey(q, n) == \A m \in 1..n : q[m].kind # "key"
ThinKept(q, drop) ==
  {n \in 1..Len(q) : ~(drop /\ q[n].kind = "delta" /\ NoKey(q, n - 1))}

LEMMA DroppedShape ==
  ASSUME NEW q \in Seq(Tag)
  PROVE  \E pos : /\ Shape(Dropped(q), q, ShedKept(q), Len(q), pos)
                  /\ Dropped(q)[0].carried = 0
<1> DEFINE d == Dropped(q)
           N == Len(q)
<1>1. /\ d \in [0..N -> Sieve]
      /\ d[0] = [kept |-> <<>>, carried |-> 0]
      /\ \A n \in 1..N : d[n] = Carry(d[n - 1], q[n])
  BY DroppedSteps
<1> HIDE DEF d
<1>2. d[0].kept = <<>> /\ d[0].carried = 0
  BY <1>1
<1>3. ASSUME NEW n \in 1..N
      PROVE  /\ n \in ShedKept(q) =>
                  /\ d[n].kept = Append(d[n - 1].kept,
                       [q[n] EXCEPT !.ticket = Higher(@, d[n - 1].carried)])
                  /\ d[n].carried = 0
             /\ n \notin ShedKept(q) =>
                  /\ d[n].kept = d[n - 1].kept
                  /\ d[n].carried = Higher(d[n - 1].carried, q[n].ticket)
  <2>1. d[n - 1] \in Sieve /\ d[n] = Carry(d[n - 1], q[n])
    BY <1>1
  <2>2. n \in ShedKept(q) <=> ~IsVideo(q[n])
    BY DEF ShedKept
  <2>3. CASE IsVideo(q[n])
    <3>1. d[n] = [d[n - 1] EXCEPT !.carried = Higher(@, q[n].ticket)]
      BY <2>1, <2>3 DEF Carry
    <3> QED BY <3>1, <2>1, <2>2, <2>3 DEF Sieve
  <2>4. CASE ~IsVideo(q[n])
    <3>1. d[n] = [kept |-> Append(d[n - 1].kept,
                     [q[n] EXCEPT !.ticket = Higher(@, d[n - 1].carried)]),
                  carried |-> 0]
      BY <2>1, <2>4 DEF Carry
    <3> QED BY <3>1, <2>2, <2>4
  <2> QED BY <2>3, <2>4
<1>4. ShedKept(q) \subseteq 1..Len(q)
  BY DEF ShedKept
<1>5. Sifts(d, q, ShedKept(q))
  BY <1>2, <1>3, <1>4 DEF Sifts
<1>6. \E pos : Shape(d, q, ShedKept(q), Len(q), pos)
  BY <1>5, SiftShape
<1> QED
  BY <1>2, <1>6 DEF d

LEMMA ThinnedShape ==
  ASSUME NEW q \in Seq(Tag), NEW carried \in Nat, NEW drop \in BOOLEAN
  PROVE  LET d == Thinned(q, carried, drop) IN
         /\ \E pos : Shape(d, q, ThinKept(q, drop), Len(q), pos)
         /\ d[0].carried = carried
         /\ d[Len(q)] \in Thinner
         /\ d[Len(q)].drop <=> drop /\ NoKey(q, Len(q))
<1> DEFINE d == Thinned(q, carried, drop)
           N == Len(q)
<1>1. /\ d \in [0..N -> Thinner]
      /\ d[0] = [kept |-> <<>>, carried |-> carried, drop |-> drop]
      /\ \A n \in 1..N : d[n] = ThinOne(d[n - 1], q[n])
  BY ThinnedSteps
<1> HIDE DEF d
<1>2. /\ d[0].kept = <<>> /\ d[0].carried = carried /\ d[0].drop = drop
      /\ N \in Nat /\ d[N] \in Thinner
  BY <1>1
<1>3. ASSUME NEW n \in 1..N
      PROVE  /\ d[n - 1] \in Thinner /\ q[n] \in Tag
             /\ d[n - 1].drop /\ q[n].kind = "delta" =>
                  d[n] = [d[n - 1] EXCEPT !.carried = Higher(@, q[n].ticket)]
             /\ ~(d[n - 1].drop /\ q[n].kind = "delta") =>
                  d[n] = [kept |-> Append(d[n - 1].kept,
                            [q[n] EXCEPT !.ticket = Higher(@, d[n - 1].carried)]),
                          carried |-> 0,
                          drop |-> d[n - 1].drop /\ ~IsVideo(q[n])]
  <2>1. d[n - 1] \in Thinner /\ d[n] = ThinOne(d[n - 1], q[n])
    BY <1>1
  <2>2. q[n] \in Tag
    BY ElementOfSeq
  <2> QED BY <2>1, <2>2 DEF ThinOne
<1> DEFINE S == {n \in Nat : n <= N => (d[n].drop <=> drop /\ NoKey(q, n))}
<1>4. 0 \in S
  BY <1>2 DEF NoKey
<1>5. ASSUME NEW n \in Nat, n \in S PROVE n + 1 \in S
  <2>1. SUFFICES ASSUME n + 1 <= N
                 PROVE  d[n + 1].drop <=> drop /\ NoKey(q, n + 1)
    OBVIOUS
  <2>2. n + 1 \in 1..N /\ (n + 1) - 1 = n
    BY <2>1, <1>2
  <2>3. d[n].drop <=> drop /\ NoKey(q, n)
    BY <2>1, <1>2, <1>5
  <2>4. NoKey(q, n + 1) <=> NoKey(q, n) /\ q[n + 1].kind # "key"
    <3>1. 1..(n + 1) = 1..n \cup {n + 1}
      OBVIOUS
    <3> QED BY <3>1 DEF NoKey
  <2>5. d[n] \in Thinner /\ d[n].drop \in BOOLEAN
    BY <2>2, <1>3 DEF Thinner
  <2>6. CASE d[n].drop /\ q[n + 1].kind = "delta"
    <3>1. d[n + 1] = [d[n] EXCEPT !.carried = Higher(@, q[n + 1].ticket)]
      BY <2>2, <2>6, <1>3
    <3>2. d[n + 1].drop = d[n].drop
      BY <3>1, <2>5 DEF Thinner
    <3> QED BY <3>2, <2>3, <2>4, <2>6
  <2>7. CASE ~(d[n].drop /\ q[n + 1].kind = "delta")
    <3>1. d[n + 1] = [kept |-> Append(d[n].kept,
                        [q[n + 1] EXCEPT !.ticket = Higher(@, d[n].carried)]),
                      carried |-> 0,
                      drop |-> d[n].drop /\ ~IsVideo(q[n + 1])]
      BY <2>2, <2>7, <1>3
    <3>2. d[n + 1].drop <=> d[n].drop /\ ~IsVideo(q[n + 1])
      <4> DEFINE B == d[n].drop /\ ~IsVideo(q[n + 1])
                 K == Append(d[n].kept,
                        [q[n + 1] EXCEPT !.ticket = Higher(@, d[n].carried)])
      <4>1. d[n + 1] = [kept |-> K, carried |-> 0, drop |-> B]
        BY <3>1
      <4> HIDE DEF K, B
      <4>2. d[n + 1].drop = B
        BY <4>1
      <4> QED BY <4>2, Zenon DEF B
    <3>3. d[n].drop => (~IsVideo(q[n + 1]) <=> q[n + 1].kind # "key")
      BY <2>7 DEF IsVideo
    <3> QED BY <3>2, <3>3, <2>3, <2>4, Zenon
  <2> QED BY <2>6, <2>7
<1>6. \A n \in 0..N : d[n].drop <=> drop /\ NoKey(q, n)
  <2>1. \A n \in Nat : n \in S
    BY <1>4, <1>5, NatSetInduction
  <2> QED BY <2>1, <1>2
<1>7. ASSUME NEW n \in 1..N
      PROVE  /\ n \in ThinKept(q, drop) =>
                  /\ d[n].kept = Append(d[n - 1].kept,
                       [q[n] EXCEPT !.ticket = Higher(@, d[n - 1].carried)])
                  /\ d[n].carried = 0
             /\ n \notin ThinKept(q, drop) =>
                  /\ d[n].kept = d[n - 1].kept
                  /\ d[n].carried = Higher(d[n - 1].carried, q[n].ticket)
  <2>1. d[n - 1].drop <=> drop /\ NoKey(q, n - 1)
    BY <1>6
  <2>2. n \in ThinKept(q, drop) <=> ~(d[n - 1].drop /\ q[n].kind = "delta")
    BY <2>1 DEF ThinKept
  <2>3. CASE n \in ThinKept(q, drop)
    <3>1. d[n] = [kept |-> Append(d[n - 1].kept,
                     [q[n] EXCEPT !.ticket = Higher(@, d[n - 1].carried)]),
                   carried |-> 0,
                   drop |-> d[n - 1].drop /\ ~IsVideo(q[n])]
      BY <2>2, <2>3, <1>3
    <3> QED BY <3>1, <2>3
  <2>4. CASE n \notin ThinKept(q, drop)
    <3>1. d[n] = [d[n - 1] EXCEPT !.carried = Higher(@, q[n].ticket)]
      BY <2>2, <2>4, <1>3
    <3> QED BY <3>1, <2>4, <1>3 DEF Thinner
  <2> QED BY <2>3, <2>4
<1>8. ThinKept(q, drop) \subseteq 1..Len(q)
  BY DEF ThinKept
<1>9. Sifts(d, q, ThinKept(q, drop))
  BY <1>2, <1>7, <1>8 DEF Sifts
<1>10. \E pos : Shape(d, q, ThinKept(q, drop), Len(q), pos)
  BY <1>9, SiftShape
<1>11. d[N].drop <=> drop /\ NoKey(q, N)
  BY <1>2, <1>6
<1> QED
  BY <1>2, <1>10, <1>11 DEF d

\* Tags that differ in their ticket only.
Same(t, u) == /\ t.kind = u.kind /\ t.epoch = u.epoch /\ t.batch = u.batch
              /\ t.video = u.video /\ t.headers = u.headers
Ordered(q) == \A i, j \in 1..Len(q) : i < j => q[i].ticket < q[j].batch
Within(q, b) == \A i \in 1..Len(q) : q[i].batch \in 1..b /\ q[i].ticket <= b
NoVideo(q) == \A i \in 1..Len(q) : ~IsVideo(q[i])
FromSome(r, q) == \A k \in 1..Len(r) : \E n \in 1..Len(q) : Same(r[k], q[n])

LEMMA TagsOfSeq ==
  ASSUME NEW q \in Seq(Tag)
  PROVE  \A i \in 1..Len(q) :
           /\ q[i] \in Tag /\ q[i].kind \in Kinds /\ q[i].epoch \in Nat
           /\ q[i].batch \in Nat /\ q[i].ticket \in Nat /\ q[i].video \in Nat
<1>1. SUFFICES ASSUME NEW i \in 1..Len(q), q[i] \in Tag
               PROVE  /\ q[i].kind \in Kinds /\ q[i].epoch \in Nat
                      /\ q[i].batch \in Nat /\ q[i].ticket \in Nat
                      /\ q[i].video \in Nat
  OBVIOUS
<1> QED
  BY <1>1 DEF Tag

\* A shape of the whole sequence, read as facts about what is kept.
LEMMA ShapeFacts ==
  ASSUME NEW q \in Seq(Tag), NEW K, NEW f, NEW pos,
         Shape(f, q, K, Len(q), pos), f[0].carried \in Nat
  PROVE  LET r == f[Len(q)].kept IN
         /\ r \in Seq(Tag) /\ Len(r) <= Len(q) /\ f[Len(q)].carried \in Nat
         /\ FromSome(r, q)
         /\ \A b \in Nat : Within(q, b) /\ f[0].carried <= b =>
              Within(r, b) /\ f[Len(q)].carried <= b
         /\ Ordered(q) /\ (\A i \in 1..Len(q) : f[0].carried < q[i].batch) =>
              Ordered(r)
<1> DEFINE N == Len(q)
           r == f[N].kept
           c == f[0].carried
<1>1. /\ r \in Seq(Tag) /\ Len(r) \in Nat /\ Len(r) <= N /\ N \in Nat
      /\ f[N].carried \in Nat /\ c \in Nat
      /\ pos \in [1..Len(r) -> K \cap 1..N]
  BY DEF Shape
<1>2. \A k \in 1..Len(r) : pos[k] \in 1..N /\ Same(r[k], q[pos[k]])
  BY <1>1 DEF Shape, Same
<1>3. \A k \in 1..Len(r) : r[k].ticket \in Nat /\ r[k].batch \in Nat
  BY <1>1, TagsOfSeq
<1>4. \A n \in 1..N : q[n].ticket \in Nat /\ q[n].batch \in Nat
  BY TagsOfSeq
<1>5. FromSome(r, q)
  BY <1>2 DEF FromSome
<1>6. \A k \in 1..Len(r) : \/ r[k].ticket = c
                           \/ \E m \in 1..pos[k] : r[k].ticket = q[m].ticket
  BY DEF Shape
<1>7. \/ f[N].carried \in {0, c}
      \/ \E m \in 1..N : f[N].carried = q[m].ticket
  BY DEF Shape
<1>8. ASSUME NEW b \in Nat, Within(q, b), c <= b
      PROVE  Within(r, b) /\ f[N].carried <= b
  <2>1. ASSUME NEW k \in 1..Len(r)
        PROVE  r[k].batch \in 1..b /\ r[k].ticket <= b
    <3>1. pos[k] \in 1..N /\ r[k].batch = q[pos[k]].batch
      BY <1>2 DEF Same
    <3>2. 1..pos[k] \subseteq 1..N
      BY <3>1
    <3> QED BY <3>1, <3>2, <1>6, <1>8 DEF Within
  <2>2. f[N].carried <= b
    BY <1>7, <1>8 DEF Within
  <2> QED BY <2>1, <2>2 DEF Within
<1>9. ASSUME Ordered(q), \A i \in 1..N : c < q[i].batch
      PROVE  Ordered(r)
  <2>1. SUFFICES ASSUME NEW i \in 1..Len(r), NEW j \in 1..Len(r), i < j
                 PROVE  r[i].ticket < r[j].batch
    BY DEF Ordered
  <2>2. /\ pos[i] \in 1..N /\ pos[j] \in 1..N /\ pos[i] < pos[j]
        /\ r[j].batch = q[pos[j]].batch
    BY <2>1, <1>2 DEF Shape, Same
  <2>3. CASE r[i].ticket = c
    BY <2>2, <2>3, <1>9
  <2>4. ASSUME NEW m \in 1..pos[i], r[i].ticket = q[m].ticket
        PROVE  r[i].ticket < r[j].batch
    <3>1. m \in 1..N /\ m < pos[j]
      BY <2>2
    <3> QED BY <3>1, <2>2, <2>4, <1>9 DEF Ordered
  <2> QED BY <2>3, <2>4, <1>6
<1> QED
  BY <1>1, <1>5, <1>8, <1>9

\* shed_queued_video_locked keeps no video and breaks no order.
LEMMA ShedFacts ==
  ASSUME NEW q \in Seq(Tag), NEW c \in Nat
  PROVE  LET s == Shed(q, c) IN
         /\ s.queue \in Seq(Tag) /\ Len(s.queue) <= Len(q) /\ s.carried \in Nat
         /\ FromSome(s.queue, q)
         /\ NoVideo(s.queue)
         /\ NoVideo(q) => Len(s.queue) = Len(q)
         /\ \A b \in Nat : Within(q, b) =>
              Within(s.queue, b) /\ (c <= b => s.carried <= b)
         /\ Ordered(q) /\ (\A i \in 1..Len(q) : q[i].batch > 0) =>
              Ordered(s.queue)
<1> DEFINE f == Dropped(q)
           N == Len(q)
<1>1. PICK pos : /\ Shape(f, q, ShedKept(q), N, pos)
                 /\ f[0].carried = 0
  BY DroppedShape
<1> HIDE DEF f
<1>2. Shed(q, c).queue = f[N].kept /\ Shed(q, c).carried = Higher(c, f[N].carried)
  BY DEF Shed, f
<1>3. /\ f[N].kept \in Seq(Tag) /\ Len(f[N].kept) <= N /\ f[N].carried \in Nat
      /\ FromSome(f[N].kept, q)
      /\ \A b \in Nat : Within(q, b) /\ 0 <= b =>
           Within(f[N].kept, b) /\ f[N].carried <= b
      /\ Ordered(q) /\ (\A i \in 1..N : 0 < q[i].batch) => Ordered(f[N].kept)
  BY <1>1, ShapeFacts
<1>4. Shed(q, c).carried \in Nat
  BY <1>2, <1>3 DEF Higher
<1>5. NoVideo(f[N].kept)
  <2>1. SUFFICES ASSUME NEW k \in 1..Len(f[N].kept)
                 PROVE  ~IsVideo(f[N].kept[k])
    BY DEF NoVideo
  <2>2. pos[k] \in ShedKept(q) /\ f[N].kept[k].kind = q[pos[k]].kind
    BY <1>1 DEF Shape
  <2> QED BY <2>2 DEF ShedKept, IsVideo
<1>6. NoVideo(q) => Len(f[N].kept) = N
  <2>1. NoVideo(q) => 1..N \subseteq ShedKept(q)
    BY DEF NoVideo, ShedKept
  <2> QED BY <2>1, <1>1 DEF Shape
<1>7. ASSUME NEW b \in Nat, Within(q, b)
      PROVE  Within(f[N].kept, b) /\ (c <= b => Shed(q, c).carried <= b)
  BY <1>2, <1>3, <1>7 DEF Higher
<1>8. (\A i \in 1..N : q[i].batch > 0) => \A i \in 1..N : 0 < q[i].batch
  <2>1. \A i \in 1..N : q[i].batch \in Nat
    BY TagsOfSeq
  <2> QED BY <2>1
<1> QED
  BY <1>2, <1>3, <1>4, <1>5, <1>6, <1>7, <1>8

\* thin_incoming_video_locked: what is dropped passes its ticket on, and is
\* never the end of the batch once the keyframe was found.
LEMMA ThinFacts ==
  ASSUME NEW q \in Seq(Tag), NEW c \in Nat, NEW drop \in BOOLEAN
  PROVE  LET s == Thin(q, c, drop) IN
         /\ s.kept \in Seq(Tag) /\ Len(s.kept) <= Len(q)
         /\ s.carried \in Nat /\ s.drop \in BOOLEAN
         /\ s.drop <=> drop /\ NoKey(q, Len(q))
         /\ FromSome(s.kept, q)
         /\ s.drop => NoVideo(s.kept)
         /\ ~drop \/ NoVideo(q) => Len(s.kept) = Len(q)
         /\ \A b \in Nat : Within(q, b) /\ c <= b =>
              Within(s.kept, b) /\ s.carried <= b
         /\ Ordered(q) /\ (\A i \in 1..Len(q) : c < q[i].batch) =>
              Ordered(s.kept)
         /\ q # <<>> =>
              /\ ~s.drop => s.carried = 0
              /\ \/ s.carried >= q[Len(q)].ticket
                 \/ \E k \in 1..Len(s.kept) : s.kept[k].ticket >= q[Len(q)].ticket
<1> DEFINE f == Thinned(q, c, drop)
           N == Len(q)
<1>1. /\ \E pos : Shape(f, q, ThinKept(q, drop), N, pos)
      /\ f[0].carried = c /\ f[N] \in Thinner
      /\ f[N].drop <=> drop /\ NoKey(q, N)
  BY ThinnedShape
<1>2. PICK pos : Shape(f, q, ThinKept(q, drop), N, pos)
  BY <1>1
<1> HIDE DEF f
<1>3. Thin(q, c, drop) = f[N]
  BY DEF Thin, f
<1>4. /\ f[N].kept \in Seq(Tag) /\ Len(f[N].kept) <= N /\ f[N].carried \in Nat
      /\ FromSome(f[N].kept, q)
      /\ \A b \in Nat : Within(q, b) /\ c <= b =>
           Within(f[N].kept, b) /\ f[N].carried <= b
      /\ Ordered(q) /\ (\A i \in 1..N : c < q[i].batch) => Ordered(f[N].kept)
  BY <1>1, <1>2, ShapeFacts
<1>5. f[N].drop \in BOOLEAN
  BY <1>1 DEF Thinner
<1>6. f[N].drop => NoVideo(f[N].kept)
  <2>1. SUFFICES ASSUME f[N].drop, NEW k \in 1..Len(f[N].kept)
                 PROVE  ~IsVideo(f[N].kept[k])
    BY DEF NoVideo
  <2>2. /\ pos[k] \in ThinKept(q, drop) /\ pos[k] \in 1..N
        /\ f[N].kept[k].kind = q[pos[k]].kind
    BY <1>2 DEF Shape
  <2>3. drop /\ NoKey(q, N) /\ NoKey(q, pos[k] - 1)
    BY <2>1, <2>2, <1>1 DEF NoKey
  <2> QED BY <2>2, <2>3 DEF ThinKept, IsVideo, NoKey
<1>7. ~drop \/ NoVideo(q) => Len(f[N].kept) = N
  <2>1. ~drop \/ NoVideo(q) => 1..N \subseteq ThinKept(q, drop)
    BY DEF NoVideo, ThinKept, IsVideo
  <2> QED BY <2>1, <1>2 DEF Shape
<1>8. ASSUME q # <<>>
      PROVE  /\ ~f[N].drop => f[N].carried = 0
             /\ \/ f[N].carried >= q[N].ticket
                \/ \E k \in 1..Len(f[N].kept) : f[N].kept[k].ticket >= q[N].ticket
  <2>1. N > 0 /\ N \in 1..N /\ N \in Nat
    BY <1>8
  <2>2. CASE N \in ThinKept(q, drop)
    <3>1. f[N].carried = 0
      BY <2>1, <2>2, <1>2 DEF Shape
    <3>2. PICK k \in 1..Len(f[N].kept) : pos[k] = N
      BY <2>1, <2>2, <1>2 DEF Shape
    <3>3. f[N].kept[k].ticket >= q[N].ticket
      BY <3>2, <1>2 DEF Shape
    <3> QED BY <3>1, <3>2, <3>3
  <2>3. CASE N \notin ThinKept(q, drop)
    <3>1. f[N].carried >= q[N].ticket
      BY <2>1, <2>3, <1>2 DEF Shape
    <3>2. drop /\ q[N].kind = "delta" /\ NoKey(q, N - 1)
      BY <2>1, <2>3 DEF ThinKept
    <3>3. NoKey(q, N)
      BY <2>1, <3>2 DEF NoKey
    <3> QED BY <3>1, <3>2, <3>3, <1>1
  <2> QED BY <2>2, <2>3
<1> QED
  BY <1>1, <1>3, <1>4, <1>5, <1>6, <1>7, <1>8

\* Sheding and thinning keep tags of the pipeline.
LEMMA StaysGood ==
  ASSUME NEW e \in Nat, NEW q \in Seq(Good(e)), NEW r \in Seq(Tag), FromSome(r, q)
  PROVE  r \in Seq(Good(e))
<1>1. ASSUME NEW k \in 1..Len(r) PROVE r[k] \in Good(e)
  <2>1. PICK n \in 1..Len(q) : Same(r[k], q[n])
    BY DEF FromSome
  <2>2. q[n] \in Good(e) /\ r[k] \in Tag
    OBVIOUS
  <2> QED BY <2>1, <2>2 DEF Good, Same, IsVideo
<1> QED
  BY <1>1

-----------------------------------------------------------------------------
(* What the pipeline hands in.                                              *)

LEMMA GoodGrows ==
  ASSUME NEW d \in Nat, NEW e \in Nat, d <= e
  PROVE  Good(d) \subseteq Good(e) /\ Good(e) \subseteq Tag
<1>1. \A t \in Tag : t.epoch \in Nat
  BY DEF Tag
<1> QED
  BY <1>1 DEF Good

LEMMA GoodSeqGrows ==
  ASSUME NEW d \in Nat, NEW e \in Nat, d <= e, NEW q \in Seq(Good(d))
  PROVE  q \in Seq(Good(e)) /\ q \in Seq(Tag)
<1>1. \A i \in 1..Len(q) : q[i] \in Good(e) /\ q[i] \in Tag
  BY GoodGrows
<1> QED
  BY <1>1

LEMMA VideosCount ==
  ASSUME SenderConstants, feed \in Feed, NEW kinds \in Batches,
         NEW i \in 1..Len(kinds)
  PROVE  /\ VideosBefore(kinds, i) \in Nat
         /\ VideosBefore(kinds, i) >= feed.videos
         /\ kinds[i] \in {"key", "delta"} => VideosBefore(kinds, i) > 0
<1> DEFINE S == {j \in 1..i : kinds[j] \in {"key", "delta"}}
<1>1. IsFiniteSet(1..i)
  BY FS_Interval
<1>2. IsFiniteSet(S) /\ Cardinality(S) \in Nat
  BY <1>1, FS_Subset, FS_CardinalityType
<1>3. kinds[i] \in {"key", "delta"} => Cardinality(S) # 0
  <2>1. kinds[i] \in {"key", "delta"} => i \in S
    OBVIOUS
  <2>2. Cardinality(S) = 0 <=> S = {}
    BY <1>2, FS_EmptySet
  <2> QED BY <2>1, <2>2
<1>4. feed.videos \in Nat
  BY DEF Feed
<1> QED
  BY <1>2, <1>3, <1>4 DEF VideosBefore

\* The tags of a dispatch: one epoch and one batch, its ticket on the last.
LEMMA TagsShape ==
  ASSUME SenderConstants, Typed, NEW kinds \in Batches
  PROVE  LET tags == Tags(kinds) IN
         /\ kinds \in Seq(Kinds) /\ Len(kinds) \in Nat \ {0}
         /\ tags \in Seq(Good(feed.epoch)) /\ tags \in Seq(Tag)
         /\ Len(tags) = Len(kinds) /\ tags # <<>>
         /\ \A i \in 1..Len(tags) :
              /\ tags[i].kind = kinds[i]
              /\ tags[i].epoch = feed.epoch
              /\ tags[i].batch = feed.batch + 1
              /\ tags[i].ticket = TicketOf(kinds, i)
              /\ tags[i].headers = HeaderId
              /\ tags[i].video = VideosBefore(kinds, i)
<1> DEFINE tags == Tags(kinds)
<1>1. kinds \in Seq(Kinds) /\ Len(kinds) \in Nat \ {0}
  <2>1. kinds \in Seq(Kinds) /\ kinds # <<>>
    BY DEF SenderConstants
  <2> QED BY <2>1
<1>2. feed.epoch \in Nat /\ feed.batch \in Nat /\ feed \in Feed
  BY DEF Typed, HeaderTyped, Feed
<1>3. HeaderId \in Nat \cup {None}
  BY DEF HeaderId, Typed, HeaderTyped
<1>4. Len(tags) = Len(kinds) /\ tags # <<>> /\ DOMAIN tags = 1..Len(kinds)
  BY <1>1 DEF Tags
<1>5. \A i \in 1..Len(kinds) :
        tags[i] = [kind |-> kinds[i], epoch |-> feed.epoch,
                   batch |-> feed.batch + 1, ticket |-> TicketOf(kinds, i),
                   video |-> VideosBefore(kinds, i), headers |-> HeaderId]
  BY DEF Tags
<1> HIDE DEF tags
<1>6. ASSUME NEW i \in 1..Len(kinds) PROVE tags[i] \in Good(feed.epoch)
  <2>1. /\ VideosBefore(kinds, i) \in Nat
        /\ kinds[i] \in {"key", "delta"} => VideosBefore(kinds, i) > 0
    BY <1>2, VideosCount
  <2>2. TicketOf(kinds, i) \in Nat
    BY <1>2 DEF TicketOf
  <2>3. kinds[i] \in Kinds
    BY <1>1
  <2>4. feed.batch + 1 \in Nat
    BY <1>2
  <2>5. tags[i] = [kind |-> kinds[i], epoch |-> feed.epoch,
                   batch |-> feed.batch + 1, ticket |-> TicketOf(kinds, i),
                   video |-> VideosBefore(kinds, i), headers |-> HeaderId]
    BY <1>5
  <2>6. tags[i] \in Tag
    BY ONLY <2>4, <2>5, <1>2, <1>3, <2>1, <2>2, <2>3 DEF Tag
  <2>7. /\ tags[i].kind = kinds[i] /\ tags[i].epoch = feed.epoch
        /\ tags[i].video = VideosBefore(kinds, i)
    BY ONLY <2>5
  <2>8. tags[i].epoch <= feed.epoch /\ (IsVideo(tags[i]) => tags[i].video > 0)
    BY <2>1, <2>7, <1>2 DEF IsVideo
  <2> QED BY <2>6, <2>8 DEF Good
<1>7. tags \in Seq(Good(feed.epoch))
  <2>1. tags = [i \in 1..Len(kinds) |-> tags[i]]
    BY DEF tags, Tags
  <2> QED BY <1>1, <1>6, <2>1
<1>8. tags \in Seq(Tag)
  BY <1>2, <1>7, GoodSeqGrows
<1> QED
  BY <1>1, <1>4, <1>5, <1>7, <1>8 DEF tags

\* What the queue and the batch become, whichever way enqueue_epoch goes.
Kept(q, r) == r \in Seq(Good(feed.epoch)) /\ Len(r) <= Len(q)
LEMMA EnqueueKeeps ==
  ASSUME SenderConstants, Typed, Media, Queued, NEW kinds \in Batches
  PROVE  LET tags == Tags(kinds) IN
         /\ Kept(queue, Relieved(tags).queue) /\ Relieved(tags).carried \in Nat
         /\ Kept(tags, FirstTry(tags).kept) /\ FirstTry(tags).carried \in Nat
         /\ FirstTry(tags).drop \in BOOLEAN
         /\ Kept(queue, Emptied(tags).queue) /\ Emptied(tags).carried \in Nat
         /\ Kept(tags, SecondTry(tags).kept) /\ SecondTry(tags).carried \in Nat
         /\ SecondTry(tags).drop \in BOOLEAN
<1> DEFINE tags == Tags(kinds)
           e == feed.epoch
<1>1. tags \in Seq(Good(e)) /\ tags \in Seq(Tag) /\ Len(tags) \in Nat
  BY TagsShape
<1> HIDE DEF tags
<1>2. e \in Nat /\ epoch \in Nat /\ epoch <= e
  BY DEF Typed, EpochTyped, HeaderTyped, Feed, Media
<1>3. queue \in Seq(Good(e)) /\ queue \in Seq(Tag) /\ Len(queue) \in Nat
  BY <1>2, GoodSeqGrows DEF Queued
<1>4. Carried0 \in Nat /\ Drop0 \in BOOLEAN
  BY DEF Carried0, Drop0, Typed, TicketTyped
<1>5. ASSUME NEW q \in Seq(Good(e)), NEW c \in Nat
      PROVE  /\ Shed(q, c).queue \in Seq(Good(e))
             /\ Len(Shed(q, c).queue) <= Len(q) /\ Shed(q, c).carried \in Nat
  <2>1. q \in Seq(Tag)
    BY <1>2, GoodSeqGrows
  <2> QED BY <2>1, <1>2, ShedFacts, StaysGood
<1>6. ASSUME NEW q \in Seq(Good(e)), NEW c \in Nat, NEW drop \in BOOLEAN
      PROVE  /\ Thin(q, c, drop).kept \in Seq(Good(e))
             /\ Len(Thin(q, c, drop).kept) <= Len(q)
             /\ Thin(q, c, drop).carried \in Nat
             /\ Thin(q, c, drop).drop \in BOOLEAN
  <2>1. q \in Seq(Tag)
    BY <1>2, GoodSeqGrows
  <2> QED BY <2>1, <1>2, ThinFacts, StaysGood
<1>7. /\ Relieved(tags).queue \in Seq(Good(e))
      /\ Len(Relieved(tags).queue) <= Len(queue)
      /\ Relieved(tags).carried \in Nat
  BY <1>3, <1>4, <1>5 DEF Relieved
<1>8. (Drop0 \/ Congested(tags)) \in BOOLEAN
  OBVIOUS
<1>9. /\ FirstTry(tags).kept \in Seq(Good(e))
      /\ Len(FirstTry(tags).kept) <= Len(tags)
      /\ FirstTry(tags).carried \in Nat /\ FirstTry(tags).drop \in BOOLEAN
  BY <1>1, <1>6, <1>7, <1>8 DEF FirstTry
<1>10. /\ Emptied(tags).queue \in Seq(Good(e))
       /\ Len(Emptied(tags).queue) <= Len(Relieved(tags).queue)
       /\ Emptied(tags).carried \in Nat
  BY <1>5, <1>7, <1>9 DEF Emptied
<1>11. /\ SecondTry(tags).kept \in Seq(Good(e))
       /\ Len(SecondTry(tags).kept) <= Len(FirstTry(tags).kept)
       /\ SecondTry(tags).carried \in Nat /\ SecondTry(tags).drop \in BOOLEAN
  BY <1>6, <1>9, <1>10 DEF SecondTry
<1>12. /\ Len(Relieved(tags).queue) \in Nat /\ Len(FirstTry(tags).kept) \in Nat
       /\ Len(Emptied(tags).queue) \in Nat /\ Len(SecondTry(tags).kept) \in Nat
  BY <1>7, <1>9, <1>10, <1>11
<1> QED
  BY <1>1, <1>3, <1>7, <1>9, <1>10, <1>11, <1>12 DEF Kept, tags

\* The worker's tag, while it holds one.
LEMMA HeldTag ==
  ASSUME EpochTyped, Media
  PROVE  /\ Holds => /\ w.tag \in Tag /\ w.tag.kind \in Kinds
                      /\ w.tag.epoch \in Nat /\ w.tag.epoch <= epoch
                      /\ w.tag.batch \in Nat /\ w.tag.ticket \in Nat
                      /\ w.tag.video \in Nat /\ (IsVideo(w.tag) => w.tag.video > 0)
         /\ w.pc \in {"popped", "publish"} => Holds
         /\ OnLine /\ w.pc \in Talking => Holds
<1>1. Holds => w.tag \in Tag /\ w.tag.epoch <= epoch /\ (IsVideo(w.tag) => w.tag.video > 0)
  BY DEF Media, Good
<1>2. w.tag \in Tag => /\ w.tag.kind \in Kinds /\ w.tag.epoch \in Nat
                       /\ w.tag.batch \in Nat /\ w.tag.ticket \in Nat
                       /\ w.tag.video \in Nat
  BY DEF Tag
<1>3. /\ w.pc \in {"popped", "publish"} => Holds
      /\ OnLine /\ w.pc \in Talking => Holds
  BY DEF Holds
<1> QED
  BY <1>1, <1>2, <1>3

LEMMA GoodTags ==
  ASSUME EpochTyped, Queued
  PROVE  /\ queue \in Seq(Tag) /\ Len(queue) \in Nat
         /\ queue # <<>> => Head(queue) \in Good(epoch) /\ Head(queue) \in Tag
<1>1. queue \in Seq(Tag) /\ queue \in Seq(Good(epoch))
  BY GoodSeqGrows DEF EpochTyped, Queued
<1> QED
  BY <1>1

-----------------------------------------------------------------------------
(* What the steps of the pipeline and of the worker do, by variable.       *)

\* Lines 106-117, whatever comes of the batch: the epoch is the feed's.
LEMMA Enqueues ==
  ASSUME SenderConstants, Typed, Media, NEW kinds \in Batches,
         \/ EnqueueDropped(kinds) \/ EnqueueRefused(kinds)
         \/ EnqueuePushed(kinds) \/ EnqueueFull(kinds)
  PROVE  /\ epoch' = feed.epoch /\ feed.epoch \in Nat /\ epoch <= feed.epoch
         /\ feed' \in Feed /\ feed'.epoch = feed.epoch
         /\ feed'.batch = feed.batch + 1 /\ feed.batch \in Nat
         /\ feed'.phase \in {"guarded", "flowing", "failed"}
         /\ enqueued_ticket' = feed.batch + 1
         /\ sequence_headers' = HeaderId
         /\ header_revision' \in Nat /\ HeaderId \in Nat \cup {None}
         /\ UNCHANGED <<lifeVars, acknowledged_epoch, writing, published_epoch,
                 transition_cancelled_transport, resume_after_transition,
                 primed_revision, closed, connection, w, wire>>
<1>0. /\ epoch \in Nat /\ epoch <= feed.epoch /\ feed \in Feed
      /\ header_revision \in Nat /\ sequence_headers \in Nat \cup {None}
  BY DEF Typed, EpochTyped, HeaderTyped, Media
<1>1. PICK phase \in {"guarded", "flowing", "failed"} : Admit(kinds, phase)
  <2>1. NextPhases(kinds) \subseteq {"guarded", "flowing"}
    BY DEF NextPhases
  <2>2. Accept(kinds) \/ Admit(kinds, "failed")
    BY DEF EnqueueDropped, EnqueueRefused, EnqueuePushed, EnqueueFull
  <2> QED BY <2>1, <2>2 DEF Accept
<1>2. VideosBefore(kinds, Len(kinds)) \in Nat
  <2>1. Len(kinds) \in 1..Len(kinds)
    BY TagsShape
  <2> QED BY <2>1, <1>0, VideosCount
<1>3. feed.epoch \in Nat /\ feed.batch \in Nat /\ feed.guard \in Nat
  BY <1>0 DEF Feed
<1>4. PICK g \in Nat : feed' =
        [feed EXCEPT !.batch = @ + 1, !.phase = phase,
           !.videos = VideosBefore(kinds, Len(kinds)), !.guard = g]
  <2>1. feed' = [feed EXCEPT !.batch = @ + 1, !.phase = phase,
           !.videos = VideosBefore(kinds, Len(kinds)),
           !.guard = IF phase = "guarded" THEN feed.batch + 1 ELSE @]
    BY <1>1 DEF Admit
  <2>2. CASE phase = "guarded"
    <3>1. feed.batch + 1 \in Nat
      BY <1>3
    <3>2. feed' = [feed EXCEPT !.batch = @ + 1, !.phase = phase,
             !.videos = VideosBefore(kinds, Len(kinds)),
             !.guard = feed.batch + 1]
      BY <2>1, <2>2
    <3> QED BY <3>1, <3>2
  <2>3. CASE phase # "guarded"
    BY <2>1, <2>3, <1>3
  <2> QED BY <2>2, <2>3
<1>5. /\ feed' \in Feed /\ feed'.epoch = feed.epoch
      /\ feed'.batch = feed.batch + 1 /\ feed'.phase = phase
  <2>1. feed.batch + 1 \in Nat /\ phase \in {"boundary", "guarded", "flowing", "failed"}
    BY <1>1, <1>3
  <2> QED BY <2>1, <1>0, <1>2, <1>4 DEF Feed
<1>6. HeaderId \in Nat \cup {None} /\ header_revision' \in Nat
  BY <1>0, <1>1 DEF Admit, HeaderId
<1> QED
  BY <1>0, <1>1, <1>3, <1>5, <1>6 DEF Admit

\* invalidate_epoch: the epoch and the feed move on together.
LEMMA Invalidates ==
  ASSUME Typed, Media, InvalidateEpoch
  PROVE  /\ epoch' = feed.epoch + 1 /\ epoch < epoch' /\ epoch' \in Nat
         /\ feed' \in Feed /\ feed'.epoch = epoch'
         /\ feed'.batch = feed.batch /\ feed'.phase = "boundary"
         /\ header_revision' \in Nat /\ queue' = <<>>
<1>0. feed \in Feed /\ epoch \in Nat /\ epoch <= feed.epoch /\ header_revision \in Nat
  BY DEF Typed, EpochTyped, HeaderTyped, Media
<1>1. feed.epoch \in Nat
  BY <1>0 DEF Feed
<1>2. feed' = [feed EXCEPT !.epoch = feed.epoch + 1, !.videos = 0,
                 !.phase = "boundary", !.guard = 0]
  BY DEF InvalidateEpoch
<1>3. /\ feed' \in Feed /\ feed'.epoch = feed.epoch + 1
      /\ feed'.batch = feed.batch /\ feed'.phase = "boundary"
  <2>1. feed.epoch + 1 \in Nat
    BY <1>1
  <2>2. PICK e \in Nat : e = feed.epoch + 1
    BY <2>1
  <2>3. feed' = [feed EXCEPT !.epoch = e, !.videos = 0, !.phase = "boundary",
                   !.guard = 0]
    BY <1>2, <2>2
  <2> QED BY <2>2, <2>3, <1>0 DEF Feed
<1> QED
  BY <1>0, <1>1, <1>3 DEF InvalidateEpoch

\* The two ways the start can end.
LEMMA Boots ==
  ASSUME WorkerTyped, Booted
  PROVE  \/ /\ w.pc = "booted" /\ ~startup_timed_out
            /\ state' = IF stop_requested THEN state ELSE "Running"
            /\ w'.pc = "pop" /\ w'.redial = FALSE /\ w'.after = w.after
            /\ w'.boot = FALSE /\ w'.job = w.job /\ w'.tag = w.tag
            /\ w'.media = w.media /\ w'.awaiting = w.awaiting
            /\ w'.selEpoch = w.selEpoch /\ w'.rev = w.rev /\ w'.sel = w.sel
         \/ /\ w.pc = "gaveUp" \/ startup_timed_out
            /\ state' = state
            /\ w'.pc = "close" /\ w'.after = "fail" /\ w'.redial = w.redial
            /\ w'.boot = FALSE /\ w'.job = w.job /\ w'.tag = w.tag
            /\ w'.media = w.media /\ w'.awaiting = w.awaiting
            /\ w'.selEpoch = w.selEpoch /\ w'.rev = w.rev /\ w'.sel = w.sel
<1>1. w \in Locals
  BY DEF WorkerTyped
<1>2. CASE w.pc = "booted" /\ BootInTime
  <2>1. /\ w' = [w EXCEPT !.pc = "pop", !.boot = FALSE, !.redial = FALSE]
        /\ state' = IF stop_requested THEN state ELSE "Running"
    BY <1>2 DEF Booted
  <2>2. /\ w'.pc = "pop" /\ w'.redial = FALSE /\ w'.after = w.after
        /\ w'.boot = FALSE /\ w'.job = w.job /\ w'.tag = w.tag
        /\ w'.media = w.media /\ w'.awaiting = w.awaiting
        /\ w'.selEpoch = w.selEpoch /\ w'.rev = w.rev /\ w'.sel = w.sel
    BY <1>1, <2>1 DEF Locals
  <2> QED BY <1>2, <2>1, <2>2 DEF BootInTime
<1>3. CASE ~(w.pc = "booted" /\ BootInTime)
  <2>1. /\ w' = [w EXCEPT !.pc = "close", !.after = "fail", !.boot = FALSE]
        /\ state' = state
    BY <1>3 DEF Booted
  <2>2. /\ w'.pc = "close" /\ w'.after = "fail" /\ w'.redial = w.redial
        /\ w'.boot = FALSE /\ w'.job = w.job /\ w'.tag = w.tag
        /\ w'.media = w.media /\ w'.awaiting = w.awaiting
        /\ w'.selEpoch = w.selEpoch /\ w'.rev = w.rev /\ w'.sel = w.sel
    BY <1>1, <2>1 DEF Locals
  <2>3. w.pc = "gaveUp" \/ startup_timed_out
    BY <1>3 DEF Booted, BootInTime
  <2> QED BY <2>1, <2>2, <2>3
<1> QED
  BY <1>2, <1>3

\* What the loop does with the tag it has primed for.
LEMMA Primes ==
  ASSUME WorkerTyped, LoopPrimed
  PROVE  \/ /\ w.tag.epoch # epoch /\ primed_revision' = primed_revision
            /\ w'.pc = "pop" /\ w'.after = w.after /\ w'.job = w.job
            /\ w'.tag = w.tag /\ w'.boot = w.boot /\ w'.redial = w.redial
            /\ w'.left = w.left /\ w'.awaiting = w.awaiting
            /\ w'.media = w.media /\ w'.sel = w.sel
            /\ w'.selEpoch = w.selEpoch /\ w'.rev = w.rev
         \/ /\ w.tag.epoch = epoch /\ primed_revision' = w.rev
            /\ w'.pc = (IF Joins THEN "send" ELSE "pop") /\ w'.after = w.after
            /\ w'.job = "tag" /\ w'.tag = w.tag /\ w'.boot = w.boot
            /\ w'.redial = w.redial /\ w'.left = w.left
            /\ w'.awaiting = (w.awaiting /\ w.tag.kind # "key")
            /\ w'.media = w.media /\ w'.sel = w.sel
            /\ w'.selEpoch = w.selEpoch /\ w'.rev = w.rev
<1>1. w \in Locals
  BY DEF WorkerTyped
<1>2. CASE w.tag.epoch # epoch
  <2>1. w' = [w EXCEPT !.pc = "pop"] /\ primed_revision' = primed_revision
    BY <1>2 DEF LoopPrimed, Go
  <2>2. /\ w'.pc = "pop" /\ w'.after = w.after /\ w'.job = w.job
        /\ w'.tag = w.tag /\ w'.boot = w.boot /\ w'.redial = w.redial
        /\ w'.left = w.left /\ w'.awaiting = w.awaiting /\ w'.media = w.media
        /\ w'.sel = w.sel /\ w'.selEpoch = w.selEpoch /\ w'.rev = w.rev
    BY <1>1, <2>1 DEF Locals
  <2> QED BY <1>2, <2>1, <2>2
<1>3. CASE w.tag.epoch = epoch
  <2>1. /\ w' = [w EXCEPT !.pc = IF Joins THEN "send" ELSE "pop", !.job = "tag",
                         !.awaiting = @ /\ w.tag.kind # "key"]
        /\ primed_revision' = w.rev
    BY <1>3 DEF LoopPrimed, Primed
  <2>2. /\ w'.pc = (IF Joins THEN "send" ELSE "pop") /\ w'.after = w.after
        /\ w'.job = "tag" /\ w'.tag = w.tag /\ w'.boot = w.boot
        /\ w'.redial = w.redial /\ w'.left = w.left
        /\ w'.awaiting = (w.awaiting /\ w.tag.kind # "key")
        /\ w'.media = w.media /\ w'.sel = w.sel /\ w'.selEpoch = w.selEpoch
        /\ w'.rev = w.rev
    BY <1>1, <2>1 DEF Locals
  <2> QED BY <1>3, <2>1, <2>2
<1> QED
  BY <1>2, <1>3

\* send_bytes: a write begins, or is taken for sent.
LEMMA Sends ==
  ASSUME WorkerTyped, Send
  PROVE  /\ UNCHANGED <<lifeVars, epoch, acknowledged_epoch, ackVars, shedVars,
                        headerVars, queueVars, connection, wire, feed,
                        transition_cancelled_transport, resume_after_transition>>
         /\ \/ /\ stop_requested \/ JobEpoch # epoch
               /\ w'.pc = "wrote"
            \/ /\ ~stop_requested /\ JobEpoch = epoch
               /\ w'.pc = "sending"
         /\ w'.after = w.after /\ w'.job = w.job /\ w'.tag = w.tag
         /\ w'.boot = w.boot /\ w'.redial = w.redial /\ w'.left = w.left
         /\ w'.awaiting = w.awaiting /\ w'.media = w.media /\ w'.sel = w.sel
         /\ w'.selEpoch = w.selEpoch /\ w'.rev = w.rev
<1>1. w \in Locals
  BY DEF WorkerTyped
<1>2. CASE stop_requested \/ JobEpoch # epoch
  <2>1. w' = [w EXCEPT !.pc = "wrote"] /\ UNCHANGED sharedVars
    BY <1>2 DEF Send, Local, Go
  <2> QED BY <1>1, <1>2, <2>1 DEF Locals, sharedVars, epochVars
<1>3. CASE ~stop_requested /\ JobEpoch = epoch
  <2>1. w' = [w EXCEPT !.pc = "sending"] /\ BeginIO /\ UNCHANGED wire
    BY <1>3 DEF Send, Go
  <2> QED BY <1>1, <1>3, <2>1 DEF Locals, BeginIO
<1> QED
  BY <1>2, <1>3

\* A write that completes, and what the connection has carried since.
LEMMA Writes ==
  ASSUME WorkerTyped, WireTyped, EpochTyped, Media, Place, Sent
  PROVE  /\ w'.pc = "wrote" /\ w'.after = w.after /\ w'.job = w.job
            /\ w'.tag = w.tag /\ w'.boot = w.boot /\ w'.redial = w.redial
            /\ w'.left = w.left /\ w'.awaiting = w.awaiting
            /\ w'.media = w.media /\ w'.sel = w.sel
            /\ w'.selEpoch = w.selEpoch /\ w'.rev = w.rev
         /\ UNCHANGED <<lifeVars, epoch, ackVars, shedVars, headerVars,
                        queueVars, feed, resume_after_transition>>
         /\ acknowledged_epoch' = epoch
         /\ \/ w.job = "file" /\ wire' = wire
            \/ /\ w.job = "header"
               /\ wire'.epoch = wire.epoch /\ wire'.video = wire.video
               /\ wire'.audio = wire.audio /\ wire'.headers = w.sel
            \/ /\ w.job = "tag" /\ Holds /\ OnLine
               /\ wire'.epoch = w.tag.epoch /\ wire'.headers = wire.headers
               /\ wire'.video = IF IsVideo(w.tag) THEN w.tag.video
                                ELSE IF wire.epoch = w.tag.epoch THEN wire.video
                                ELSE 0
               /\ wire'.audio <=> \/ w.tag.kind = "audio"
                                  \/ wire.epoch = w.tag.epoch /\ wire.audio
<1>1. w \in Locals
  BY DEF WorkerTyped
<1>2. w' = [w EXCEPT !.pc = "wrote"] /\ wire' = WireAfter /\ w.pc = "sending"
  BY DEF Sent, Go
<1>3. /\ w'.pc = "wrote" /\ w'.after = w.after /\ w'.job = w.job
      /\ w'.tag = w.tag /\ w'.boot = w.boot /\ w'.redial = w.redial
      /\ w'.left = w.left /\ w'.awaiting = w.awaiting /\ w'.media = w.media
      /\ w'.sel = w.sel /\ w'.selEpoch = w.selEpoch /\ w'.rev = w.rev
  BY <1>1, <1>2 DEF Locals
<1>4. CASE w.job = "file"
  BY <1>2, <1>3, <1>4 DEF WireAfter, Sent, Acked
<1>5. CASE w.job = "header"
  <2>1. wire' = [wire EXCEPT !.headers = w.sel]
    BY <1>2, <1>5 DEF WireAfter
  <2>2. /\ wire'.epoch = wire.epoch /\ wire'.video = wire.video
        /\ wire'.audio = wire.audio /\ wire'.headers = w.sel
    BY <2>1 DEF WireTyped
  <2> QED BY <1>3, <1>5, <2>2 DEF Sent, Acked
<1>6. CASE w.job = "tag"
  <2>1. Holds /\ OnLine
    BY <1>2, <1>6 DEF Holds, Place, Talking
  <2>2. w.tag.epoch \in Nat /\ w.tag.video \in Nat
    BY <2>1, HeldTag
  <2>3. PICK on \in [epoch : Nat \cup {None}, headers : Nat \cup {None},
                     video : Nat, audio : BOOLEAN] :
          /\ on = IF wire.epoch = w.tag.epoch THEN wire
                  ELSE [SilentWire EXCEPT !.epoch = w.tag.epoch,
                                          !.headers = wire.headers]
          /\ on.epoch = w.tag.epoch /\ on.headers = wire.headers
          /\ on.video = IF wire.epoch = w.tag.epoch THEN wire.video ELSE 0
          /\ on.audio <=> wire.epoch = w.tag.epoch /\ wire.audio
    <3>1. CASE wire.epoch = w.tag.epoch
      BY <3>1 DEF WireTyped
    <3>2. CASE wire.epoch # w.tag.epoch
      <4>1. PICK on : on = [SilentWire EXCEPT !.epoch = w.tag.epoch, !.headers = wire.headers]
        OBVIOUS
      <4>2. SilentWire \in [epoch : Nat \cup {None}, headers : Nat \cup {None},
                          video : Nat, audio : BOOLEAN]
        BY DEF SilentWire
      <4>4. SilentWire.video = 0 /\ SilentWire.audio = FALSE
        BY DEF SilentWire
      <4>3. /\ on \in [epoch : Nat \cup {None}, headers : Nat \cup {None},
                      video : Nat, audio : BOOLEAN]
            /\ on.epoch = w.tag.epoch /\ on.headers = wire.headers
            /\ on.video = 0 /\ on.audio = FALSE
        BY <2>2, <4>1, <4>2, <4>4 DEF WireTyped
      <4> QED BY <3>2, <4>1, <4>3
    <3> QED BY <3>1, <3>2
  <2>4. wire' = [on EXCEPT !.video = IF IsVideo(w.tag) THEN w.tag.video ELSE @,
                           !.audio = @ \/ w.tag.kind = "audio"]
    BY <1>2, <1>6, <2>3 DEF WireAfter
  <2>5. /\ wire'.epoch = on.epoch /\ wire'.headers = on.headers
        /\ wire'.video = IF IsVideo(w.tag) THEN w.tag.video ELSE on.video
        /\ wire'.audio = (on.audio \/ w.tag.kind = "audio")
    BY <2>4
  <2>6. /\ wire'.video = IF IsVideo(w.tag) THEN w.tag.video
                         ELSE IF wire.epoch = w.tag.epoch THEN wire.video ELSE 0
        /\ wire'.audio <=> \/ w.tag.kind = "audio"
                           \/ wire.epoch = w.tag.epoch /\ wire.audio
    BY <2>3, <2>5
  <2>7. wire'.epoch = w.tag.epoch /\ wire'.headers = wire.headers
    BY <2>3, <2>5
  <2> HIDE DEF WireAfter
  <2> QED BY <1>3, <1>6, <2>1, <2>6, <2>7 DEF Sent, Acked
<1> QED
  BY <1>1, <1>2, <1>4, <1>5, <1>6 DEF Locals, Place, Talking

-----------------------------------------------------------------------------
(* Every step keeps the invariant: one lemma for each part of it.           *)

\* Each step of the worker leaves its locals as its next place needs them.
LEMMA PlaceStep ==
  ASSUME w \in Locals, Place, [Next]_vars
  PROVE  Place'
<1>1. ASSUME NEW kinds \in Batches, EnqueueDropped(kinds) PROVE Place'
  BY <1>1 DEF Place, OnLine, Looping, Talking, Reaching, Away, Shutting,
       Locals, EnqueueDropped, Accept, Admit, lifeVars, epochVars, ackVars, shedVars,
       headerVars, queueVars, sharedVars, Go, Local
<1>2. ASSUME NEW kinds \in Batches, EnqueueRefused(kinds) PROVE Place'
  BY <1>2 DEF Place, OnLine, Looping, Talking, Reaching, Away, Shutting,
       Locals, EnqueueRefused, Admit, lifeVars, epochVars, ackVars, shedVars,
       headerVars, queueVars, sharedVars, Go, Local
<1>3. ASSUME NEW kinds \in Batches, EnqueuePushed(kinds) PROVE Place'
  BY <1>3 DEF Place, OnLine, Looping, Talking, Reaching, Away, Shutting,
       Locals, EnqueuePushed, Accept, Admit, lifeVars, epochVars, ackVars, shedVars,
       headerVars, queueVars, sharedVars, Go, Local
<1>4. ASSUME NEW kinds \in Batches, EnqueueFull(kinds) PROVE Place'
  BY <1>4 DEF Place, OnLine, Looping, Talking, Reaching, Away, Shutting,
       Locals, EnqueueFull, Accept, Admit, lifeVars, epochVars, ackVars, shedVars,
       headerVars, queueVars, sharedVars, Go, Local
<1>5. ASSUME InvalidateEpoch PROVE Place'
  BY <1>5 DEF Place, OnLine, Looping, Talking, Reaching, Away, Shutting,
       Locals, InvalidateEpoch, Fence, lifeVars, epochVars, ackVars, shedVars,
       headerVars, queueVars, sharedVars, Go, Local
<1>6. ASSUME RequestStop PROVE Place'
  BY <1>6 DEF Place, OnLine, Looping, Talking, Reaching, Away, Shutting,
       Locals, RequestStop, StopQueue, lifeVars, epochVars, ackVars, shedVars,
       headerVars, queueVars, sharedVars, Go, Local
<1>7. ASSUME Join PROVE Place'
  BY <1>7 DEF Place, OnLine, Looping, Talking, Reaching, Away, Shutting,
       Locals, Join, lifeVars, epochVars, ackVars, shedVars, headerVars,
       queueVars, sharedVars, Go, Local
<1>8. ASSUME WatchdogExpires PROVE Place'
  BY <1>8 DEF Place, OnLine, Looping, Talking, Reaching, Away, Shutting,
       Locals, WatchdogExpires, lifeVars, epochVars, ackVars, shedVars,
       headerVars, queueVars, sharedVars, Go, Local
<1>9. ASSUME WatchdogInterrupts PROVE Place'
  BY <1>9 DEF Place, OnLine, Looping, Talking, Reaching, Away, Shutting,
       Locals, WatchdogInterrupts, lifeVars, epochVars, ackVars, shedVars,
       headerVars, queueVars, sharedVars, Go, Local
<1>10. ASSUME Dial PROVE Place'
  BY <1>10 DEF Place, OnLine, Looping, Talking, Reaching, Away, Shutting,
       Locals, Dial, BeginIO, lifeVars, epochVars, ackVars, shedVars,
       headerVars, queueVars, sharedVars, Go, Local
<1>11. ASSUME Connected PROVE Place'
  BY <1>11 DEF Place, OnLine, Looping, Talking, Reaching, Away, Shutting,
       Locals, Connected, Acked, KeepTransport, SilentWire, lifeVars,
       epochVars, ackVars, shedVars, headerVars, queueVars, sharedVars, Go,
       Local
<1>12. ASSUME ConnectFails PROVE Place'
  BY <1>12 DEF Place, OnLine, Looping, Talking, Reaching, Away, Shutting,
       Locals, ConnectFails, Acked, LoseTransport, lifeVars, epochVars,
       ackVars, shedVars, headerVars, queueVars, sharedVars, Go, Local
<1>13. ASSUME Send PROVE Place'
  BY <1>13 DEF Place, OnLine, Looping, Talking, Reaching, Away, Shutting,
       Locals, Send, BeginIO, lifeVars, epochVars, ackVars, shedVars,
       headerVars, queueVars, sharedVars, Go, Local
<1>14. ASSUME Sent PROVE Place'
  BY <1>14 DEF Place, OnLine, Looping, Talking, Reaching, Away, Shutting,
       Locals, Sent, Acked, KeepTransport, lifeVars, epochVars, ackVars,
       shedVars, headerVars, queueVars, sharedVars, Go, Local
<1>15. ASSUME SendFails PROVE Place'
  BY <1>15 DEF Place, OnLine, Looping, Talking, Reaching, Away, Shutting,
       Locals, SendFails, Acked, LoseTransport, lifeVars, epochVars, ackVars,
       shedVars, headerVars, queueVars, sharedVars, Go, Local
<1>16. ASSUME ReadHeaders PROVE Place'
  BY <1>16 DEF Place, OnLine, Looping, Talking, Reaching, Away, Shutting,
       Locals, ReadHeaders, lifeVars, epochVars, ackVars, shedVars,
       headerVars, queueVars, sharedVars, Go, Local
<1>17. ASSUME ConnectPrimed PROVE Place'
  BY <1>17 DEF Place, OnLine, Looping, Talking, Reaching, Away, Shutting,
       Locals, ConnectPrimed, Primed, lifeVars, epochVars, ackVars, shedVars,
       headerVars, queueVars, sharedVars, Go, Local
<1>18. ASSUME Close PROVE Place'
  BY <1>18 DEF Place, OnLine, Looping, Talking, Reaching, Away, Shutting,
       Locals, Close, BeginIO, lifeVars, epochVars, ackVars, shedVars,
       headerVars, queueVars, sharedVars, Go, Local
<1>19. ASSUME Closed PROVE Place'
  BY <1>19 DEF Place, OnLine, Looping, Talking, Reaching, Away, Shutting,
       Locals, Closed, Acked, LoseTransport, lifeVars, epochVars, ackVars,
       shedVars, headerVars, queueVars, sharedVars, Go, Local
<1>20. ASSUME Reconnect PROVE Place'
  BY <1>20 DEF Place, OnLine, Looping, Talking, Reaching, Away, Shutting,
       Locals, Reconnect, ReconnectQueue, lifeVars, epochVars, ackVars,
       shedVars, headerVars, queueVars, sharedVars, Go, Local
<1>21. ASSUME TakeCancellation PROVE Place'
  BY <1>21 DEF Place, OnLine, Looping, Talking, Reaching, Away, Shutting,
       Locals, TakeCancellation, lifeVars, epochVars, ackVars, shedVars,
       headerVars, queueVars, sharedVars, Go, Local
<1>22. ASSUME ReplaceTransport PROVE Place'
  BY <1>22 DEF Place, OnLine, Looping, Talking, Reaching, Away, Shutting,
       Locals, ReplaceTransport, Fresh, lifeVars, epochVars, ackVars,
       shedVars, headerVars, queueVars, sharedVars, Go, Local
<1>23. ASSUME ReplaceFails PROVE Place'
  BY <1>23 DEF Place, OnLine, Looping, Talking, Reaching, Away, Shutting,
       Locals, ReplaceFails, EndResume, AckDropped, KeepPending, lifeVars,
       epochVars, ackVars, shedVars, headerVars, queueVars, sharedVars, Go,
       Local
<1>24. ASSUME Retry PROVE Place'
  BY <1>24 DEF Place, OnLine, Looping, Talking, Reaching, Away, Shutting,
       Locals, Retry, lifeVars, epochVars, ackVars, shedVars, headerVars,
       queueVars, sharedVars, Go, Local
<1>25. ASSUME Delayed PROVE Place'
  BY <1>25 DEF Place, OnLine, Looping, Talking, Reaching, Away, Shutting,
       Locals, Delayed, lifeVars, epochVars, ackVars, shedVars, headerVars,
       queueVars, sharedVars, Go, Local
<1>26. ASSUME RetryEnds PROVE Place'
  BY <1>26 DEF Place, OnLine, Looping, Talking, Reaching, Away, Shutting,
       Locals, RetryEnds, lifeVars, epochVars, ackVars, shedVars, headerVars,
       queueVars, sharedVars, Go, Local
<1>27. ASSUME Exhausted PROVE Place'
  BY <1>27 DEF Place, OnLine, Looping, Talking, Reaching, Away, Shutting,
       Locals, Exhausted, EndResume, AckDropped, KeepPending, lifeVars,
       epochVars, ackVars, shedVars, headerVars, queueVars, sharedVars, Go,
       Local
<1>28. ASSUME AttemptFailed PROVE Place'
  BY <1>28 DEF Place, OnLine, Looping, Talking, Reaching, Away, Shutting,
       Locals, AttemptFailed, EndResume, AckDropped, KeepPending, lifeVars,
       epochVars, ackVars, shedVars, headerVars, queueVars, sharedVars, Go,
       Local
<1>29. ASSUME Redialled PROVE Place'
  BY <1>29 DEF Place, OnLine, Looping, Talking, Reaching, Away, Shutting,
       Locals, Redialled, Rejoin, lifeVars, epochVars, ackVars, shedVars,
       headerVars, queueVars, sharedVars, Go, Local
<1>30. ASSUME Booted PROVE Place'
  <2>1. CASE w.pc = "booted" /\ BootInTime
    <3>1. w' = [w EXCEPT !.pc = "pop", !.boot = FALSE, !.redial = FALSE]
      BY <1>30, <2>1 DEF Booted
    <3>2. w'.pc = "pop" /\ ~w'.boot /\ ~w'.redial
      BY <3>1 DEF Locals
    <3> QED BY <3>2 DEF Place, OnLine, Looping, Talking, Reaching, Away, Shutting
  <2>2. CASE ~(w.pc = "booted" /\ BootInTime)
    <3>1. w' = [w EXCEPT !.pc = "close", !.after = "fail", !.boot = FALSE]
      BY <1>30, <2>2 DEF Booted
    <3>2. w'.pc = "close" /\ w'.after = "fail" /\ ~w'.boot
      BY <3>1 DEF Locals
    <3> QED BY <3>2 DEF Place, OnLine, Looping, Talking, Reaching, Away, Shutting
  <2> QED BY <2>1, <2>2
<1>31. ASSUME GiveUp PROVE Place'
  BY <1>31 DEF Place, OnLine, Looping, Talking, Reaching, Away, Shutting,
       Locals, GiveUp, lifeVars, epochVars, ackVars, shedVars, headerVars,
       queueVars, sharedVars, Go, Local
<1>32. ASSUME Fail PROVE Place'
  BY <1>32 DEF Place, OnLine, Looping, Talking, Reaching, Away, Shutting,
       Locals, Fail, lifeVars, epochVars, ackVars, shedVars, headerVars,
       queueVars, sharedVars, Go, Local
<1>33. ASSUME CloseQueue PROVE Place'
  BY <1>33 DEF Place, OnLine, Looping, Talking, Reaching, Away, Shutting,
       Locals, CloseQueue, lifeVars, epochVars, ackVars, shedVars, headerVars,
       queueVars, sharedVars, Go, Local
<1>34. ASSUME Pop PROVE Place'
  BY <1>34 DEF Place, OnLine, Looping, Talking, Reaching, Away, Shutting,
       Locals, Pop, lifeVars, epochVars, ackVars, shedVars, headerVars,
       queueVars, sharedVars, Go, Local
<1>35. ASSUME Leave PROVE Place'
  BY <1>35 DEF Place, OnLine, Looping, Talking, Reaching, Away, Shutting,
       Locals, Leave, lifeVars, epochVars, ackVars, shedVars, headerVars,
       queueVars, sharedVars, Go, Local
<1>36. ASSUME Select PROVE Place'
  BY <1>36 DEF Place, OnLine, Looping, Talking, Reaching, Away, Shutting,
       Locals, Select, lifeVars, epochVars, ackVars, shedVars, headerVars,
       queueVars, sharedVars, Go, Local
<1>37. ASSUME LoopPrimed PROVE Place'
  <2>1. CASE w.tag.epoch # epoch
    BY <1>37, <2>1 DEF Place, OnLine, Looping, Talking, Reaching, Away, Shutting, Locals, LoopPrimed, Go
  <2>2. CASE w.tag.epoch = epoch
    <3>1. /\ w' = [w EXCEPT !.pc = IF Joins THEN "send" ELSE "pop", !.job = "tag",
                           !.awaiting = @ /\ w.tag.kind # "key"]
          /\ ~w.redial /\ ~w.boot
      BY <1>37, <2>2 DEF LoopPrimed
    <3>2. /\ w'.pc \in {"send", "pop"} /\ w'.job = "tag"
          /\ ~w'.boot /\ ~w'.redial
      BY <3>1 DEF Locals
    <3> QED BY <3>2 DEF Place, OnLine, Looping, Talking, Reaching, Away, Shutting
  <2> QED BY <2>1, <2>2
<1>38. ASSUME TagWritten PROVE Place'
  BY <1>38 DEF Place, OnLine, Looping, Talking, Reaching, Away, Shutting,
       Locals, TagWritten, TicketCounts, lifeVars, epochVars, ackVars,
       shedVars, headerVars, queueVars, sharedVars, Go, Local
<1>39. ASSUME Publish PROVE Place'
  BY <1>39 DEF Place, OnLine, Looping, Talking, Reaching, Away, Shutting,
       Locals, Publish, Published, lifeVars, epochVars, ackVars, shedVars,
       headerVars, queueVars, sharedVars, Go, Local
<1>40. ASSUME Stopped PROVE Place'
  BY <1>40 DEF Place, OnLine, Looping, Talking, Reaching, Away, Shutting,
       Locals, Stopped, vars, lifeVars, epochVars, ackVars, shedVars,
       headerVars, queueVars, sharedVars, Go, Local
<1>41. ASSUME UNCHANGED vars PROVE Place'
  BY <1>41 DEF Place, OnLine, Looping, Talking, Reaching, Away, Shutting,
       Locals, vars, lifeVars, epochVars, ackVars, shedVars, headerVars,
       queueVars, sharedVars, Go, Local
<1> QED BY <1>1, <1>2, <1>3, <1>4, <1>5, <1>6, <1>7, <1>8, <1>9, <1>10,
     <1>11, <1>12, <1>13, <1>14, <1>15, <1>16, <1>17, <1>18, <1>19, <1>20,
     <1>21, <1>22, <1>23, <1>24, <1>25, <1>26, <1>27, <1>28, <1>29, <1>30,
     <1>31, <1>32, <1>33, <1>34, <1>35, <1>36, <1>37, <1>38, <1>39, <1>40,
     <1>41 DEF Next, Pipeline, Owner, Watchdog, Worker

\* Types, variable by variable.
LEMMA LifeTypedStep ==
  ASSUME LifeTyped, [Next]_vars
  PROVE  LifeTyped'
<1>1. ASSUME NEW kinds \in Batches, EnqueueDropped(kinds) PROVE LifeTyped'
  BY <1>1 DEF LifeTyped, EnqueueDropped, Accept, Admit, lifeVars, epochVars, ackVars,
       shedVars, headerVars, queueVars, sharedVars, Go, Local
<1>2. ASSUME NEW kinds \in Batches, EnqueueRefused(kinds) PROVE LifeTyped'
  BY <1>2 DEF LifeTyped, EnqueueRefused, Admit, lifeVars, epochVars, ackVars,
       shedVars, headerVars, queueVars, sharedVars, Go, Local
<1>3. ASSUME NEW kinds \in Batches, EnqueuePushed(kinds) PROVE LifeTyped'
  BY <1>3 DEF LifeTyped, EnqueuePushed, Accept, Admit, lifeVars, epochVars, ackVars,
       shedVars, headerVars, queueVars, sharedVars, Go, Local
<1>4. ASSUME NEW kinds \in Batches, EnqueueFull(kinds) PROVE LifeTyped'
  BY <1>4 DEF LifeTyped, EnqueueFull, Accept, Admit, lifeVars, epochVars, ackVars,
       shedVars, headerVars, queueVars, sharedVars, Go, Local
<1>5. ASSUME InvalidateEpoch PROVE LifeTyped'
  BY <1>5 DEF LifeTyped, InvalidateEpoch, Fence, lifeVars, epochVars, ackVars,
       shedVars, headerVars, queueVars, sharedVars, Go, Local
<1>6. ASSUME RequestStop PROVE LifeTyped'
  BY <1>6 DEF LifeTyped, RequestStop, StopQueue, lifeVars, epochVars, ackVars,
       shedVars, headerVars, queueVars, sharedVars, Go, Local
<1>7. ASSUME Join PROVE LifeTyped'
  BY <1>7 DEF LifeTyped, Join, lifeVars, epochVars, ackVars, shedVars,
       headerVars, queueVars, sharedVars, Go, Local
<1>8. ASSUME WatchdogExpires PROVE LifeTyped'
  BY <1>8 DEF LifeTyped, WatchdogExpires, lifeVars, epochVars, ackVars,
       shedVars, headerVars, queueVars, sharedVars, Go, Local
<1>9. ASSUME WatchdogInterrupts PROVE LifeTyped'
  BY <1>9 DEF LifeTyped, WatchdogInterrupts, lifeVars, epochVars, ackVars,
       shedVars, headerVars, queueVars, sharedVars, Go, Local
<1>10. ASSUME Dial PROVE LifeTyped'
  BY <1>10 DEF LifeTyped, Dial, BeginIO, lifeVars, epochVars, ackVars,
       shedVars, headerVars, queueVars, sharedVars, Go, Local
<1>11. ASSUME Connected PROVE LifeTyped'
  BY <1>11 DEF LifeTyped, Connected, Acked, KeepTransport, SilentWire,
       lifeVars, epochVars, ackVars, shedVars, headerVars, queueVars,
       sharedVars, Go, Local
<1>12. ASSUME ConnectFails PROVE LifeTyped'
  BY <1>12 DEF LifeTyped, ConnectFails, Acked, LoseTransport, lifeVars,
       epochVars, ackVars, shedVars, headerVars, queueVars, sharedVars, Go,
       Local
<1>13. ASSUME Send PROVE LifeTyped'
  BY <1>13 DEF LifeTyped, Send, BeginIO, lifeVars, epochVars, ackVars,
       shedVars, headerVars, queueVars, sharedVars, Go, Local
<1>14. ASSUME Sent PROVE LifeTyped'
  BY <1>14 DEF LifeTyped, Sent, Acked, KeepTransport, lifeVars, epochVars,
       ackVars, shedVars, headerVars, queueVars, sharedVars, Go, Local
<1>15. ASSUME SendFails PROVE LifeTyped'
  BY <1>15 DEF LifeTyped, SendFails, Acked, LoseTransport, lifeVars,
       epochVars, ackVars, shedVars, headerVars, queueVars, sharedVars, Go,
       Local
<1>16. ASSUME ReadHeaders PROVE LifeTyped'
  BY <1>16 DEF LifeTyped, ReadHeaders, lifeVars, epochVars, ackVars, shedVars,
       headerVars, queueVars, sharedVars, Go, Local
<1>17. ASSUME ConnectPrimed PROVE LifeTyped'
  BY <1>17 DEF LifeTyped, ConnectPrimed, Primed, lifeVars, epochVars, ackVars,
       shedVars, headerVars, queueVars, sharedVars, Go, Local
<1>18. ASSUME Close PROVE LifeTyped'
  BY <1>18 DEF LifeTyped, Close, BeginIO, lifeVars, epochVars, ackVars,
       shedVars, headerVars, queueVars, sharedVars, Go, Local
<1>19. ASSUME Closed PROVE LifeTyped'
  BY <1>19 DEF LifeTyped, Closed, Acked, LoseTransport, lifeVars, epochVars,
       ackVars, shedVars, headerVars, queueVars, sharedVars, Go, Local
<1>20. ASSUME Reconnect PROVE LifeTyped'
  BY <1>20 DEF LifeTyped, Reconnect, ReconnectQueue, lifeVars, epochVars,
       ackVars, shedVars, headerVars, queueVars, sharedVars, Go, Local
<1>21. ASSUME TakeCancellation PROVE LifeTyped'
  BY <1>21 DEF LifeTyped, TakeCancellation, lifeVars, epochVars, ackVars,
       shedVars, headerVars, queueVars, sharedVars, Go, Local
<1>22. ASSUME ReplaceTransport PROVE LifeTyped'
  BY <1>22 DEF LifeTyped, ReplaceTransport, Fresh, lifeVars, epochVars,
       ackVars, shedVars, headerVars, queueVars, sharedVars, Go, Local
<1>23. ASSUME ReplaceFails PROVE LifeTyped'
  BY <1>23 DEF LifeTyped, ReplaceFails, EndResume, AckDropped, KeepPending,
       lifeVars, epochVars, ackVars, shedVars, headerVars, queueVars,
       sharedVars, Go, Local
<1>24. ASSUME Retry PROVE LifeTyped'
  BY <1>24 DEF LifeTyped, Retry, lifeVars, epochVars, ackVars, shedVars,
       headerVars, queueVars, sharedVars, Go, Local
<1>25. ASSUME Delayed PROVE LifeTyped'
  BY <1>25 DEF LifeTyped, Delayed, lifeVars, epochVars, ackVars, shedVars,
       headerVars, queueVars, sharedVars, Go, Local
<1>26. ASSUME RetryEnds PROVE LifeTyped'
  BY <1>26 DEF LifeTyped, RetryEnds, lifeVars, epochVars, ackVars, shedVars,
       headerVars, queueVars, sharedVars, Go, Local
<1>27. ASSUME Exhausted PROVE LifeTyped'
  BY <1>27 DEF LifeTyped, Exhausted, EndResume, AckDropped, KeepPending,
       lifeVars, epochVars, ackVars, shedVars, headerVars, queueVars,
       sharedVars, Go, Local
<1>28. ASSUME AttemptFailed PROVE LifeTyped'
  BY <1>28 DEF LifeTyped, AttemptFailed, EndResume, AckDropped, KeepPending,
       lifeVars, epochVars, ackVars, shedVars, headerVars, queueVars,
       sharedVars, Go, Local
<1>29. ASSUME Redialled PROVE LifeTyped'
  BY <1>29 DEF LifeTyped, Redialled, Rejoin, lifeVars, epochVars, ackVars,
       shedVars, headerVars, queueVars, sharedVars, Go, Local
<1>30. ASSUME Booted PROVE LifeTyped'
  BY <1>30 DEF LifeTyped, Booted, BootInTime, lifeVars, epochVars, ackVars,
       shedVars, headerVars, queueVars, sharedVars, Go, Local
<1>31. ASSUME GiveUp PROVE LifeTyped'
  BY <1>31 DEF LifeTyped, GiveUp, lifeVars, epochVars, ackVars, shedVars,
       headerVars, queueVars, sharedVars, Go, Local
<1>32. ASSUME Fail PROVE LifeTyped'
  BY <1>32 DEF LifeTyped, Fail, lifeVars, epochVars, ackVars, shedVars,
       headerVars, queueVars, sharedVars, Go, Local
<1>33. ASSUME CloseQueue PROVE LifeTyped'
  BY <1>33 DEF LifeTyped, CloseQueue, lifeVars, epochVars, ackVars, shedVars,
       headerVars, queueVars, sharedVars, Go, Local
<1>34. ASSUME Pop PROVE LifeTyped'
  BY <1>34 DEF LifeTyped, Pop, lifeVars, epochVars, ackVars, shedVars,
       headerVars, queueVars, sharedVars, Go, Local
<1>35. ASSUME Leave PROVE LifeTyped'
  BY <1>35 DEF LifeTyped, Leave, lifeVars, epochVars, ackVars, shedVars,
       headerVars, queueVars, sharedVars, Go, Local
<1>36. ASSUME Select PROVE LifeTyped'
  BY <1>36 DEF LifeTyped, Select, lifeVars, epochVars, ackVars, shedVars,
       headerVars, queueVars, sharedVars, Go, Local
<1>37. ASSUME LoopPrimed PROVE LifeTyped'
  BY <1>37 DEF LifeTyped, LoopPrimed, Primed, Joins, lifeVars, epochVars,
       ackVars, shedVars, headerVars, queueVars, sharedVars, Go, Local
<1>38. ASSUME TagWritten PROVE LifeTyped'
  BY <1>38 DEF LifeTyped, TagWritten, TicketCounts, lifeVars, epochVars,
       ackVars, shedVars, headerVars, queueVars, sharedVars, Go, Local
<1>39. ASSUME Publish PROVE LifeTyped'
  BY <1>39 DEF LifeTyped, Publish, Published, lifeVars, epochVars, ackVars,
       shedVars, headerVars, queueVars, sharedVars, Go, Local
<1>40. ASSUME Stopped PROVE LifeTyped'
  BY <1>40 DEF LifeTyped, Stopped, vars, lifeVars, epochVars, ackVars,
       shedVars, headerVars, queueVars, sharedVars, Go, Local
<1>41. ASSUME UNCHANGED vars PROVE LifeTyped'
  BY <1>41 DEF LifeTyped, vars, lifeVars, epochVars, ackVars, shedVars,
       headerVars, queueVars, sharedVars, Go, Local
<1> QED BY <1>1, <1>2, <1>3, <1>4, <1>5, <1>6, <1>7, <1>8, <1>9, <1>10,
     <1>11, <1>12, <1>13, <1>14, <1>15, <1>16, <1>17, <1>18, <1>19, <1>20,
     <1>21, <1>22, <1>23, <1>24, <1>25, <1>26, <1>27, <1>28, <1>29, <1>30,
     <1>31, <1>32, <1>33, <1>34, <1>35, <1>36, <1>37, <1>38, <1>39, <1>40,
     <1>41 DEF Next, Pipeline, Owner, Watchdog, Worker

LEMMA EpochTypedStep ==
  ASSUME LifeTyped, EpochTyped, HeaderTyped, [Next]_vars
  PROVE  EpochTyped'
<1>1. ASSUME NEW kinds \in Batches, EnqueueDropped(kinds) PROVE EpochTyped'
  BY <1>1 DEF EpochTyped, HeaderTyped, Feed, EnqueueDropped, Accept, Admit, lifeVars,
       epochVars, ackVars, shedVars, headerVars, queueVars, sharedVars, Go,
       Local
<1>2. ASSUME NEW kinds \in Batches, EnqueueRefused(kinds) PROVE EpochTyped'
  BY <1>2 DEF EpochTyped, HeaderTyped, Feed, EnqueueRefused, Admit, lifeVars,
       epochVars, ackVars, shedVars, headerVars, queueVars, sharedVars, Go,
       Local
<1>3. ASSUME NEW kinds \in Batches, EnqueuePushed(kinds) PROVE EpochTyped'
  BY <1>3 DEF EpochTyped, HeaderTyped, Feed, EnqueuePushed, Accept, Admit, lifeVars,
       epochVars, ackVars, shedVars, headerVars, queueVars, sharedVars, Go,
       Local
<1>4. ASSUME NEW kinds \in Batches, EnqueueFull(kinds) PROVE EpochTyped'
  BY <1>4 DEF EpochTyped, HeaderTyped, Feed, EnqueueFull, Accept, Admit, lifeVars,
       epochVars, ackVars, shedVars, headerVars, queueVars, sharedVars, Go,
       Local
<1>5. ASSUME InvalidateEpoch PROVE EpochTyped'
  <2>1. /\ feed.epoch + 1 \in Nat /\ epoch' = feed.epoch + 1
        /\ writing' = writing /\ resume_after_transition' = resume_after_transition
    BY <1>5 DEF InvalidateEpoch, HeaderTyped, Feed, epochVars
  <2>2. CASE writing
    BY <1>5, <2>1, <2>2 DEF EpochTyped, InvalidateEpoch, Fence
  <2>3. CASE ~writing
    BY <1>5, <2>1, <2>3 DEF EpochTyped, InvalidateEpoch, Fence
  <2> QED BY <2>2, <2>3
<1>6. ASSUME RequestStop PROVE EpochTyped'
  BY <1>6 DEF EpochTyped, HeaderTyped, Feed, RequestStop, StopQueue, lifeVars,
       epochVars, ackVars, shedVars, headerVars, queueVars, sharedVars, Go,
       Local
<1>7. ASSUME Join PROVE EpochTyped'
  BY <1>7 DEF EpochTyped, HeaderTyped, Feed, Join, lifeVars, epochVars,
       ackVars, shedVars, headerVars, queueVars, sharedVars, Go, Local
<1>8. ASSUME WatchdogExpires PROVE EpochTyped'
  BY <1>8 DEF EpochTyped, HeaderTyped, Feed, WatchdogExpires, lifeVars,
       epochVars, ackVars, shedVars, headerVars, queueVars, sharedVars, Go,
       Local
<1>9. ASSUME WatchdogInterrupts PROVE EpochTyped'
  BY <1>9 DEF EpochTyped, HeaderTyped, Feed, WatchdogInterrupts, lifeVars,
       epochVars, ackVars, shedVars, headerVars, queueVars, sharedVars, Go,
       Local
<1>10. ASSUME Dial PROVE EpochTyped'
  BY <1>10 DEF EpochTyped, HeaderTyped, Feed, Dial, BeginIO, lifeVars,
       epochVars, ackVars, shedVars, headerVars, queueVars, sharedVars, Go,
       Local
<1>11. ASSUME Connected PROVE EpochTyped'
  BY <1>11 DEF EpochTyped, HeaderTyped, Feed, Connected, Acked, KeepTransport,
       SilentWire, lifeVars, epochVars, ackVars, shedVars, headerVars,
       queueVars, sharedVars, Go, Local
<1>12. ASSUME ConnectFails PROVE EpochTyped'
  BY <1>12 DEF EpochTyped, HeaderTyped, Feed, ConnectFails, Acked,
       LoseTransport, lifeVars, epochVars, ackVars, shedVars, headerVars,
       queueVars, sharedVars, Go, Local
<1>13. ASSUME Send PROVE EpochTyped'
  BY <1>13 DEF EpochTyped, HeaderTyped, Feed, Send, BeginIO, lifeVars,
       epochVars, ackVars, shedVars, headerVars, queueVars, sharedVars, Go,
       Local
<1>14. ASSUME Sent PROVE EpochTyped'
  BY <1>14 DEF EpochTyped, HeaderTyped, Feed, Sent, Acked, KeepTransport,
       lifeVars, epochVars, ackVars, shedVars, headerVars, queueVars,
       sharedVars, Go, Local
<1>15. ASSUME SendFails PROVE EpochTyped'
  BY <1>15 DEF EpochTyped, HeaderTyped, Feed, SendFails, Acked, LoseTransport,
       lifeVars, epochVars, ackVars, shedVars, headerVars, queueVars,
       sharedVars, Go, Local
<1>16. ASSUME ReadHeaders PROVE EpochTyped'
  BY <1>16 DEF EpochTyped, HeaderTyped, Feed, ReadHeaders, lifeVars,
       epochVars, ackVars, shedVars, headerVars, queueVars, sharedVars, Go,
       Local
<1>17. ASSUME ConnectPrimed PROVE EpochTyped'
  BY <1>17 DEF EpochTyped, HeaderTyped, Feed, ConnectPrimed, Primed, lifeVars,
       epochVars, ackVars, shedVars, headerVars, queueVars, sharedVars, Go,
       Local
<1>18. ASSUME Close PROVE EpochTyped'
  BY <1>18 DEF EpochTyped, HeaderTyped, Feed, Close, BeginIO, lifeVars,
       epochVars, ackVars, shedVars, headerVars, queueVars, sharedVars, Go,
       Local
<1>19. ASSUME Closed PROVE EpochTyped'
  BY <1>19 DEF EpochTyped, HeaderTyped, Feed, Closed, Acked, LoseTransport,
       lifeVars, epochVars, ackVars, shedVars, headerVars, queueVars,
       sharedVars, Go, Local
<1>20. ASSUME Reconnect PROVE EpochTyped'
  BY <1>20 DEF EpochTyped, HeaderTyped, Feed, Reconnect, ReconnectQueue,
       lifeVars, epochVars, ackVars, shedVars, headerVars, queueVars,
       sharedVars, Go, Local
<1>21. ASSUME TakeCancellation PROVE EpochTyped'
  BY <1>21 DEF EpochTyped, HeaderTyped, Feed, TakeCancellation, lifeVars,
       epochVars, ackVars, shedVars, headerVars, queueVars, sharedVars, Go,
       Local
<1>22. ASSUME ReplaceTransport PROVE EpochTyped'
  <2>1. connection' = IF stop_requested THEN connection
                      ELSE [Fresh EXCEPT !.interrupted = startup_timed_out]
    BY <1>22 DEF ReplaceTransport
  <2>2. connection' \in [interrupted : BOOLEAN, armed : BOOLEAN]
    BY <2>1 DEF EpochTyped, LifeTyped, Fresh
  <2> QED BY <1>22, <2>2 DEF EpochTyped, ReplaceTransport, epochVars
<1>23. ASSUME ReplaceFails PROVE EpochTyped'
  BY <1>23 DEF EpochTyped, HeaderTyped, Feed, ReplaceFails, EndResume,
       AckDropped, KeepPending, lifeVars, epochVars, ackVars, shedVars,
       headerVars, queueVars, sharedVars, Go, Local
<1>24. ASSUME Retry PROVE EpochTyped'
  BY <1>24 DEF EpochTyped, HeaderTyped, Feed, Retry, lifeVars, epochVars,
       ackVars, shedVars, headerVars, queueVars, sharedVars, Go, Local
<1>25. ASSUME Delayed PROVE EpochTyped'
  BY <1>25 DEF EpochTyped, HeaderTyped, Feed, Delayed, lifeVars, epochVars,
       ackVars, shedVars, headerVars, queueVars, sharedVars, Go, Local
<1>26. ASSUME RetryEnds PROVE EpochTyped'
  BY <1>26 DEF EpochTyped, HeaderTyped, Feed, RetryEnds, lifeVars, epochVars,
       ackVars, shedVars, headerVars, queueVars, sharedVars, Go, Local
<1>27. ASSUME Exhausted PROVE EpochTyped'
  BY <1>27 DEF EpochTyped, HeaderTyped, Feed, Exhausted, EndResume,
       AckDropped, KeepPending, lifeVars, epochVars, ackVars, shedVars,
       headerVars, queueVars, sharedVars, Go, Local
<1>28. ASSUME AttemptFailed PROVE EpochTyped'
  BY <1>28 DEF EpochTyped, HeaderTyped, Feed, AttemptFailed, EndResume,
       AckDropped, KeepPending, lifeVars, epochVars, ackVars, shedVars,
       headerVars, queueVars, sharedVars, Go, Local
<1>29. ASSUME Redialled PROVE EpochTyped'
  BY <1>29 DEF EpochTyped, HeaderTyped, Feed, Redialled, Rejoin, lifeVars,
       epochVars, ackVars, shedVars, headerVars, queueVars, sharedVars, Go,
       Local
<1>30. ASSUME Booted PROVE EpochTyped'
  BY <1>30 DEF EpochTyped, HeaderTyped, Feed, Booted, BootInTime, lifeVars,
       epochVars, ackVars, shedVars, headerVars, queueVars, sharedVars, Go,
       Local
<1>31. ASSUME GiveUp PROVE EpochTyped'
  BY <1>31 DEF EpochTyped, HeaderTyped, Feed, GiveUp, lifeVars, epochVars,
       ackVars, shedVars, headerVars, queueVars, sharedVars, Go, Local
<1>32. ASSUME Fail PROVE EpochTyped'
  BY <1>32 DEF EpochTyped, HeaderTyped, Feed, Fail, lifeVars, epochVars,
       ackVars, shedVars, headerVars, queueVars, sharedVars, Go, Local
<1>33. ASSUME CloseQueue PROVE EpochTyped'
  BY <1>33 DEF EpochTyped, HeaderTyped, Feed, CloseQueue, lifeVars, epochVars,
       ackVars, shedVars, headerVars, queueVars, sharedVars, Go, Local
<1>34. ASSUME Pop PROVE EpochTyped'
  BY <1>34 DEF EpochTyped, HeaderTyped, Feed, Pop, lifeVars, epochVars,
       ackVars, shedVars, headerVars, queueVars, sharedVars, Go, Local
<1>35. ASSUME Leave PROVE EpochTyped'
  BY <1>35 DEF EpochTyped, HeaderTyped, Feed, Leave, lifeVars, epochVars,
       ackVars, shedVars, headerVars, queueVars, sharedVars, Go, Local
<1>36. ASSUME Select PROVE EpochTyped'
  BY <1>36 DEF EpochTyped, HeaderTyped, Feed, Select, lifeVars, epochVars,
       ackVars, shedVars, headerVars, queueVars, sharedVars, Go, Local
<1>37. ASSUME LoopPrimed PROVE EpochTyped'
  BY <1>37 DEF EpochTyped, HeaderTyped, Feed, LoopPrimed, Primed, Joins,
       lifeVars, epochVars, ackVars, shedVars, headerVars, queueVars,
       sharedVars, Go, Local
<1>38. ASSUME TagWritten PROVE EpochTyped'
  BY <1>38 DEF EpochTyped, HeaderTyped, Feed, TagWritten, TicketCounts,
       lifeVars, epochVars, ackVars, shedVars, headerVars, queueVars,
       sharedVars, Go, Local
<1>39. ASSUME Publish PROVE EpochTyped'
  BY <1>39 DEF EpochTyped, HeaderTyped, Feed, Publish, Published, lifeVars,
       epochVars, ackVars, shedVars, headerVars, queueVars, sharedVars, Go,
       Local
<1>40. ASSUME Stopped PROVE EpochTyped'
  BY <1>40 DEF EpochTyped, HeaderTyped, Feed, Stopped, vars, lifeVars,
       epochVars, ackVars, shedVars, headerVars, queueVars, sharedVars, Go,
       Local
<1>41. ASSUME UNCHANGED vars PROVE EpochTyped'
  BY <1>41 DEF EpochTyped, HeaderTyped, Feed, vars, lifeVars, epochVars,
       ackVars, shedVars, headerVars, queueVars, sharedVars, Go, Local
<1> QED BY <1>1, <1>2, <1>3, <1>4, <1>5, <1>6, <1>7, <1>8, <1>9, <1>10,
     <1>11, <1>12, <1>13, <1>14, <1>15, <1>16, <1>17, <1>18, <1>19, <1>20,
     <1>21, <1>22, <1>23, <1>24, <1>25, <1>26, <1>27, <1>28, <1>29, <1>30,
     <1>31, <1>32, <1>33, <1>34, <1>35, <1>36, <1>37, <1>38, <1>39, <1>40,
     <1>41 DEF Next, Pipeline, Owner, Watchdog, Worker

\* Taking what is pending for delivered, or leaving it.
LEMMA AckTyped ==
  ASSUME EpochTyped, TicketTyped, AckDropped \/ KeepPending,
         published_epoch' = published_epoch
  PROVE  TicketTyped'
<1>1. CASE KeepPending
  BY <1>1 DEF KeepPending, TicketTyped, shedVars
<1>2. CASE AckDropped
  <2>1. /\ carried_ticket' = 0
        /\ enqueued_ticket' = enqueued_ticket
        /\ drop_video_until_keyframe' \in BOOLEAN
    BY <1>2 DEF AckDropped
  <2>2. CASE enqueued_ticket # 0
    BY <1>2, <2>1, <2>2 DEF AckDropped, TicketTyped, EpochTyped
  <2>3. CASE enqueued_ticket = 0
    BY <1>2, <2>1, <2>3 DEF AckDropped, TicketTyped
  <2> QED BY <2>2, <2>3
<1> QED
  BY <1>1, <1>2

LEMMA Relieves ==
  ASSUME TicketTyped
  PROVE  Carried0 \in Nat /\ Drop0 \in BOOLEAN
BY DEF Carried0, Drop0, TicketTyped

LEMMA TicketTypedStep ==
  ASSUME SenderConstants, Typed, Place, Media, Queued, [Next]_vars
  PROVE  TicketTyped'
<1>0. /\ LifeTyped /\ EpochTyped /\ TicketTyped /\ HeaderTyped /\ WorkerTyped
      /\ WireTyped
  BY DEF Typed
<1>1. ASSUME NEW kinds \in Batches, EnqueueDropped(kinds) PROVE TicketTyped'
  <2>1. /\ published_epoch' = published_epoch
        /\ enqueued_ticket' = feed.batch + 1
        /\ delivered_epoch' = feed.epoch /\ delivery_ticket' = feed.batch + 1
        /\ carried_ticket' = 0 /\ drop_video_until_keyframe' \in BOOLEAN
    BY <1>1 DEF EnqueueDropped, Accept, Admit
  <2> QED BY <1>0, <2>1 DEF TicketTyped, HeaderTyped, Feed
<1>2. ASSUME NEW kinds \in Batches, EnqueueRefused(kinds) PROVE TicketTyped'
  <2>1. Carried0 \in Nat /\ Drop0 \in BOOLEAN
    BY <1>0, Relieves
  <2>2. /\ published_epoch' = published_epoch
        /\ enqueued_ticket' = feed.batch + 1
        /\ delivered_epoch' = delivered_epoch /\ delivery_ticket' = delivery_ticket
        /\ carried_ticket' = Carried0
        /\ drop_video_until_keyframe' = Drop0
    BY <1>2 DEF EnqueueRefused, Admit
  <2> QED BY <1>0, <2>1, <2>2 DEF TicketTyped, HeaderTyped, Feed
<1>3. ASSUME NEW kinds \in Batches, EnqueuePushed(kinds) PROVE TicketTyped'
  <2>1. FirstTry(Tags(kinds)).carried \in Nat /\ FirstTry(Tags(kinds)).drop \in BOOLEAN
    BY EnqueueKeeps, Relieves
  <2>2. /\ published_epoch' = published_epoch
        /\ enqueued_ticket' = feed.batch + 1
        /\ delivered_epoch' = delivered_epoch /\ delivery_ticket' = delivery_ticket
        /\ carried_ticket' = FirstTry(Tags(kinds)).carried
        /\ drop_video_until_keyframe' = FirstTry(Tags(kinds)).drop
    BY <1>3 DEF EnqueuePushed, Accept, Admit
  <2> QED BY <1>0, <2>1, <2>2 DEF TicketTyped, HeaderTyped, Feed
<1>4. ASSUME NEW kinds \in Batches, EnqueueFull(kinds) PROVE TicketTyped'
  <2>1. SecondTry(Tags(kinds)).carried \in Nat /\ SecondTry(Tags(kinds)).drop \in BOOLEAN
    BY EnqueueKeeps, Relieves
  <2>2. /\ published_epoch' = published_epoch
        /\ enqueued_ticket' = feed.batch + 1
        /\ delivered_epoch' = delivered_epoch /\ delivery_ticket' = delivery_ticket
        /\ carried_ticket' = SecondTry(Tags(kinds)).carried
        /\ drop_video_until_keyframe' = SecondTry(Tags(kinds)).drop
    BY <1>4 DEF EnqueueFull, Accept, Admit
  <2> QED BY <1>0, <2>1, <2>2 DEF TicketTyped, HeaderTyped, Feed
<1>5. ASSUME InvalidateEpoch PROVE TicketTyped'
  BY <1>5, <1>0 DEF TicketTyped, InvalidateEpoch, Fence, lifeVars, epochVars,
       ackVars, shedVars, headerVars, queueVars, sharedVars, Go, Local
<1>6. ASSUME RequestStop PROVE TicketTyped'
  BY <1>6, <1>0 DEF TicketTyped, RequestStop, StopQueue, lifeVars, epochVars,
       ackVars, shedVars, headerVars, queueVars, sharedVars, Go, Local
<1>7. ASSUME Join PROVE TicketTyped'
  BY <1>7, <1>0 DEF TicketTyped, Join, lifeVars, epochVars, ackVars, shedVars,
       headerVars, queueVars, sharedVars, Go, Local
<1>8. ASSUME WatchdogExpires PROVE TicketTyped'
  BY <1>8, <1>0 DEF TicketTyped, WatchdogExpires, lifeVars, epochVars,
       ackVars, shedVars, headerVars, queueVars, sharedVars, Go, Local
<1>9. ASSUME WatchdogInterrupts PROVE TicketTyped'
  BY <1>9, <1>0 DEF TicketTyped, WatchdogInterrupts, lifeVars, epochVars,
       ackVars, shedVars, headerVars, queueVars, sharedVars, Go, Local
<1>10. ASSUME Dial PROVE TicketTyped'
  BY <1>10, <1>0 DEF TicketTyped, Dial, BeginIO, lifeVars, epochVars, ackVars,
       shedVars, headerVars, queueVars, sharedVars, Go, Local
<1>11. ASSUME Connected PROVE TicketTyped'
  BY <1>11, <1>0 DEF TicketTyped, Connected, Acked, KeepTransport, SilentWire,
       lifeVars, epochVars, ackVars, shedVars, headerVars, queueVars,
       sharedVars, Go, Local
<1>12. ASSUME ConnectFails PROVE TicketTyped'
  BY <1>12, <1>0 DEF TicketTyped, ConnectFails, Acked, LoseTransport,
       lifeVars, epochVars, ackVars, shedVars, headerVars, queueVars,
       sharedVars, Go, Local
<1>13. ASSUME Send PROVE TicketTyped'
  BY <1>13, <1>0 DEF TicketTyped, Send, BeginIO, lifeVars, epochVars, ackVars,
       shedVars, headerVars, queueVars, sharedVars, Go, Local
<1>14. ASSUME Sent PROVE TicketTyped'
  BY <1>14, <1>0 DEF TicketTyped, Sent, Acked, KeepTransport, lifeVars,
       epochVars, ackVars, shedVars, headerVars, queueVars, sharedVars, Go,
       Local
<1>15. ASSUME SendFails PROVE TicketTyped'
  BY <1>15, <1>0 DEF TicketTyped, SendFails, Acked, LoseTransport, lifeVars,
       epochVars, ackVars, shedVars, headerVars, queueVars, sharedVars, Go,
       Local
<1>16. ASSUME ReadHeaders PROVE TicketTyped'
  BY <1>16, <1>0 DEF TicketTyped, ReadHeaders, lifeVars, epochVars, ackVars,
       shedVars, headerVars, queueVars, sharedVars, Go, Local
<1>17. ASSUME ConnectPrimed PROVE TicketTyped'
  BY <1>17, <1>0 DEF TicketTyped, ConnectPrimed, Primed, lifeVars, epochVars,
       ackVars, shedVars, headerVars, queueVars, sharedVars, Go, Local
<1>18. ASSUME Close PROVE TicketTyped'
  BY <1>18, <1>0 DEF TicketTyped, Close, BeginIO, lifeVars, epochVars,
       ackVars, shedVars, headerVars, queueVars, sharedVars, Go, Local
<1>19. ASSUME Closed PROVE TicketTyped'
  BY <1>19, <1>0 DEF TicketTyped, Closed, Acked, LoseTransport, lifeVars,
       epochVars, ackVars, shedVars, headerVars, queueVars, sharedVars, Go,
       Local
<1>20. ASSUME Reconnect PROVE TicketTyped'
  <2>1. CASE transition_cancelled_transport
    BY <1>20, <2>1, <1>0 DEF Reconnect, ReconnectQueue, TicketTyped, shedVars
  <2>2. CASE ~transition_cancelled_transport
    <3>1. /\ published_epoch' = 0 /\ carried_ticket' = 0
          /\ drop_video_until_keyframe' \in BOOLEAN
          /\ enqueued_ticket' = enqueued_ticket
          /\ \/ delivered_epoch' = epoch /\ delivery_ticket' = enqueued_ticket
             \/ delivered_epoch' = 0 /\ delivery_ticket' = 0
      BY <1>20, <2>2 DEF Reconnect, ReconnectQueue
    <3> QED BY <3>1, <1>0 DEF TicketTyped, EpochTyped
  <2> QED BY <2>1, <2>2
<1>21. ASSUME TakeCancellation PROVE TicketTyped'
  BY <1>21, <1>0 DEF TicketTyped, TakeCancellation, lifeVars, epochVars,
       ackVars, shedVars, headerVars, queueVars, sharedVars, Go, Local
<1>22. ASSUME ReplaceTransport PROVE TicketTyped'
  BY <1>22, <1>0 DEF TicketTyped, ReplaceTransport, Fresh, lifeVars,
       epochVars, ackVars, shedVars, headerVars, queueVars, sharedVars, Go,
       Local
<1>23. ASSUME ReplaceFails PROVE TicketTyped'
  BY <1>23, <1>0, AckTyped DEF ReplaceFails, EndResume
<1>24. ASSUME Retry PROVE TicketTyped'
  BY <1>24, <1>0 DEF TicketTyped, Retry, lifeVars, epochVars, ackVars,
       shedVars, headerVars, queueVars, sharedVars, Go, Local
<1>25. ASSUME Delayed PROVE TicketTyped'
  BY <1>25, <1>0 DEF TicketTyped, Delayed, lifeVars, epochVars, ackVars,
       shedVars, headerVars, queueVars, sharedVars, Go, Local
<1>26. ASSUME RetryEnds PROVE TicketTyped'
  BY <1>26, <1>0 DEF TicketTyped, RetryEnds, lifeVars, epochVars, ackVars,
       shedVars, headerVars, queueVars, sharedVars, Go, Local
<1>27. ASSUME Exhausted PROVE TicketTyped'
  BY <1>27, <1>0, AckTyped DEF Exhausted, EndResume
<1>28. ASSUME AttemptFailed PROVE TicketTyped'
  <2>1. CASE ~w.redial
    BY <1>28, <2>1, <1>0 DEF AttemptFailed, Local, sharedVars, ackVars, shedVars, TicketTyped
  <2>2. CASE w.redial /\ transition_cancelled_transport
    BY <1>28, <2>2, <1>0 DEF AttemptFailed, ackVars, shedVars, TicketTyped
  <2>3. CASE w.redial /\ ~transition_cancelled_transport
    BY <1>28, <2>3, <1>0, AckTyped DEF AttemptFailed, EndResume
  <2> QED BY <2>1, <2>2, <2>3
<1>29. ASSUME Redialled PROVE TicketTyped'
  BY <1>29, <1>0 DEF TicketTyped, Redialled, Rejoin, lifeVars, epochVars,
       ackVars, shedVars, headerVars, queueVars, sharedVars, Go, Local
<1>30. ASSUME Booted PROVE TicketTyped'
  BY <1>30, <1>0 DEF TicketTyped, Booted, BootInTime, lifeVars, epochVars,
       ackVars, shedVars, headerVars, queueVars, sharedVars, Go, Local
<1>31. ASSUME GiveUp PROVE TicketTyped'
  BY <1>31, <1>0 DEF TicketTyped, GiveUp, lifeVars, epochVars, ackVars,
       shedVars, headerVars, queueVars, sharedVars, Go, Local
<1>32. ASSUME Fail PROVE TicketTyped'
  BY <1>32, <1>0 DEF TicketTyped, Fail, lifeVars, epochVars, ackVars,
       shedVars, headerVars, queueVars, sharedVars, Go, Local
<1>33. ASSUME CloseQueue PROVE TicketTyped'
  BY <1>33, <1>0 DEF TicketTyped, CloseQueue, lifeVars, epochVars, ackVars,
       shedVars, headerVars, queueVars, sharedVars, Go, Local
<1>34. ASSUME Pop PROVE TicketTyped'
  BY <1>34, <1>0 DEF TicketTyped, Pop, lifeVars, epochVars, ackVars, shedVars,
       headerVars, queueVars, sharedVars, Go, Local
<1>35. ASSUME Leave PROVE TicketTyped'
  BY <1>35, <1>0 DEF TicketTyped, Leave, lifeVars, epochVars, ackVars,
       shedVars, headerVars, queueVars, sharedVars, Go, Local
<1>36. ASSUME Select PROVE TicketTyped'
  BY <1>36, <1>0 DEF TicketTyped, Select, lifeVars, epochVars, ackVars,
       shedVars, headerVars, queueVars, sharedVars, Go, Local
<1>37. ASSUME LoopPrimed PROVE TicketTyped'
  BY <1>37, <1>0 DEF TicketTyped, LoopPrimed, Primed, Joins, lifeVars,
       epochVars, ackVars, shedVars, headerVars, queueVars, sharedVars, Go,
       Local
<1>38. ASSUME TagWritten PROVE TicketTyped'
  <2>1. w.tag.epoch \in Nat /\ w.tag.ticket \in Nat
    BY <1>38, <1>0, HeldTag DEF TagWritten, Place, Talking
  <2> QED BY <1>38, <1>0, <2>1 DEF TicketTyped, TagWritten, shedVars
<1>39. ASSUME Publish PROVE TicketTyped'
  <2>1. w.tag.epoch \in Nat
    BY <1>39, <1>0, HeldTag DEF Publish
  <2> QED BY <1>39, <1>0, <2>1 DEF TicketTyped, Publish, Published, shedVars
<1>40. ASSUME Stopped PROVE TicketTyped'
  BY <1>40, <1>0 DEF TicketTyped, Stopped, vars, lifeVars, epochVars, ackVars,
       shedVars, headerVars, queueVars, sharedVars, Go, Local
<1>41. ASSUME UNCHANGED vars PROVE TicketTyped'
  BY <1>41, <1>0 DEF TicketTyped, vars, lifeVars, epochVars, ackVars,
       shedVars, headerVars, queueVars, sharedVars, Go, Local
<1> QED BY <1>1, <1>2, <1>3, <1>4, <1>5, <1>6, <1>7, <1>8, <1>9, <1>10,
     <1>11, <1>12, <1>13, <1>14, <1>15, <1>16, <1>17, <1>18, <1>19, <1>20,
     <1>21, <1>22, <1>23, <1>24, <1>25, <1>26, <1>27, <1>28, <1>29, <1>30,
     <1>31, <1>32, <1>33, <1>34, <1>35, <1>36, <1>37, <1>38, <1>39, <1>40,
     <1>41 DEF Next, Pipeline, Owner, Watchdog, Worker

LEMMA WorkerTypedStep ==
  ASSUME SenderConstants, LifeTyped, EpochTyped, HeaderTyped, WorkerTyped, Place, Media, Queued, [Next]_vars
  PROVE  WorkerTyped'
<1>1. ASSUME NEW kinds \in Batches, EnqueueDropped(kinds) PROVE WorkerTyped'
  BY <1>1 DEF WorkerTyped, Locals, Pcs, EnqueueDropped, Accept, Admit, lifeVars,
       epochVars, ackVars, shedVars, headerVars, queueVars, sharedVars, Go,
       Local
<1>2. ASSUME NEW kinds \in Batches, EnqueueRefused(kinds) PROVE WorkerTyped'
  BY <1>2 DEF WorkerTyped, Locals, Pcs, EnqueueRefused, Admit, lifeVars,
       epochVars, ackVars, shedVars, headerVars, queueVars, sharedVars, Go,
       Local
<1>3. ASSUME NEW kinds \in Batches, EnqueuePushed(kinds) PROVE WorkerTyped'
  BY <1>3 DEF WorkerTyped, Locals, Pcs, EnqueuePushed, Accept, Admit, lifeVars,
       epochVars, ackVars, shedVars, headerVars, queueVars, sharedVars, Go,
       Local
<1>4. ASSUME NEW kinds \in Batches, EnqueueFull(kinds) PROVE WorkerTyped'
  BY <1>4 DEF WorkerTyped, Locals, Pcs, EnqueueFull, Accept, Admit, lifeVars,
       epochVars, ackVars, shedVars, headerVars, queueVars, sharedVars, Go,
       Local
<1>5. ASSUME InvalidateEpoch PROVE WorkerTyped'
  BY <1>5 DEF WorkerTyped, Locals, Pcs, InvalidateEpoch, Fence, lifeVars,
       epochVars, ackVars, shedVars, headerVars, queueVars, sharedVars, Go,
       Local
<1>6. ASSUME RequestStop PROVE WorkerTyped'
  BY <1>6 DEF WorkerTyped, Locals, Pcs, RequestStop, StopQueue, lifeVars,
       epochVars, ackVars, shedVars, headerVars, queueVars, sharedVars, Go,
       Local
<1>7. ASSUME Join PROVE WorkerTyped'
  BY <1>7 DEF WorkerTyped, Locals, Pcs, Join, lifeVars, epochVars, ackVars,
       shedVars, headerVars, queueVars, sharedVars, Go, Local
<1>8. ASSUME WatchdogExpires PROVE WorkerTyped'
  BY <1>8 DEF WorkerTyped, Locals, Pcs, WatchdogExpires, lifeVars, epochVars,
       ackVars, shedVars, headerVars, queueVars, sharedVars, Go, Local
<1>9. ASSUME WatchdogInterrupts PROVE WorkerTyped'
  BY <1>9 DEF WorkerTyped, Locals, Pcs, WatchdogInterrupts, lifeVars,
       epochVars, ackVars, shedVars, headerVars, queueVars, sharedVars, Go,
       Local
<1>10. ASSUME Dial PROVE WorkerTyped'
  BY <1>10 DEF WorkerTyped, Locals, Pcs, Dial, BeginIO, lifeVars, epochVars,
       ackVars, shedVars, headerVars, queueVars, sharedVars, Go, Local
<1>11. ASSUME Connected PROVE WorkerTyped'
  BY <1>11 DEF WorkerTyped, Locals, Pcs, Connected, Acked, KeepTransport,
       SilentWire, lifeVars, epochVars, ackVars, shedVars, headerVars,
       queueVars, sharedVars, Go, Local
<1>12. ASSUME ConnectFails PROVE WorkerTyped'
  BY <1>12 DEF WorkerTyped, Locals, Pcs, ConnectFails, Acked, LoseTransport,
       lifeVars, epochVars, ackVars, shedVars, headerVars, queueVars,
       sharedVars, Go, Local
<1>13. ASSUME Send PROVE WorkerTyped'
  BY <1>13 DEF WorkerTyped, Locals, Pcs, Send, BeginIO, lifeVars, epochVars,
       ackVars, shedVars, headerVars, queueVars, sharedVars, Go, Local
<1>14. ASSUME Sent PROVE WorkerTyped'
  BY <1>14 DEF WorkerTyped, Locals, Pcs, Sent, Acked, KeepTransport, lifeVars,
       epochVars, ackVars, shedVars, headerVars, queueVars, sharedVars, Go,
       Local
<1>15. ASSUME SendFails PROVE WorkerTyped'
  BY <1>15 DEF WorkerTyped, Locals, Pcs, SendFails, Acked, LoseTransport,
       lifeVars, epochVars, ackVars, shedVars, headerVars, queueVars,
       sharedVars, Go, Local
<1>16. ASSUME ReadHeaders PROVE WorkerTyped'
  <2>1. w' = [w EXCEPT !.sel = sequence_headers, !.selEpoch = epoch,
                !.rev = header_revision, !.job = "header",
                !.pc = IF sequence_headers = None THEN "wrote" ELSE "send"]
    BY <1>16 DEF ReadHeaders
  <2>2. sequence_headers \in Nat \cup {None} /\ epoch \in Nat /\ header_revision \in Nat
    BY DEF HeaderTyped, EpochTyped
  <2>3. PICK to : to = IF sequence_headers = None THEN "wrote" ELSE "send"
    OBVIOUS
  <2>4. to \in {"wrote", "send"} /\ to \in Pcs
    BY <2>3 DEF Pcs
  <2>5. w \in Locals
    BY DEF WorkerTyped
  <2>6. w' = [w EXCEPT !.sel = sequence_headers, !.selEpoch = epoch,
                !.rev = header_revision, !.job = "header", !.pc = to]
    BY <2>1, <2>3
  <2>7. w' \in Locals /\ w'.pc = to
    BY <2>2, <2>4, <2>5, <2>6 DEF Locals
  <2> QED BY <1>16, <2>4, <2>7 DEF WorkerTyped, ReadHeaders, sharedVars, epochVars
<1>17. ASSUME ConnectPrimed PROVE WorkerTyped'
  BY <1>17 DEF WorkerTyped, Locals, Pcs, ConnectPrimed, Primed, lifeVars,
       epochVars, ackVars, shedVars, headerVars, queueVars, sharedVars, Go,
       Local
<1>18. ASSUME Close PROVE WorkerTyped'
  BY <1>18 DEF WorkerTyped, Locals, Pcs, Close, BeginIO, lifeVars, epochVars,
       ackVars, shedVars, headerVars, queueVars, sharedVars, Go, Local
<1>19. ASSUME Closed PROVE WorkerTyped'
  BY <1>19 DEF WorkerTyped, Locals, Pcs, Closed, Acked, LoseTransport, Place,
       Shutting, lifeVars, epochVars, ackVars, shedVars, headerVars,
       queueVars, sharedVars, Go, Local
<1>20. ASSUME Reconnect PROVE WorkerTyped'
  BY <1>20 DEF WorkerTyped, Locals, Pcs, Reconnect, ReconnectQueue, lifeVars,
       epochVars, ackVars, shedVars, headerVars, queueVars, sharedVars, Go,
       Local
<1>21. ASSUME TakeCancellation PROVE WorkerTyped'
  <2>1. w' = [w EXCEPT !.pc = IF transition_cancelled_transport
                             THEN "replace" ELSE "retry",
                      !.left = Attempts]
    BY <1>21 DEF TakeCancellation
  <2>2. Attempts \in Nat
    BY DEF SenderConstants
  <2>3. w' \in Locals /\ w'.pc \in {"replace", "retry"}
    BY <2>1, <2>2 DEF WorkerTyped, Locals, Pcs
  <2> QED BY <1>21, <2>3 DEF WorkerTyped, TakeCancellation
<1>22. ASSUME ReplaceTransport PROVE WorkerTyped'
  <2>1. w' = [w EXCEPT !.pc = "retry", !.left = @ + 1]
    BY <1>22 DEF ReplaceTransport
  <2>2. w.left + 1 \in Nat
    BY DEF WorkerTyped, Locals
  <2>3. w' \in Locals /\ w'.pc = "retry"
    BY <2>1, <2>2 DEF WorkerTyped, Locals, Pcs
  <2> QED BY <1>22, <2>3 DEF WorkerTyped, ReplaceTransport, epochVars
<1>23. ASSUME ReplaceFails PROVE WorkerTyped'
  BY <1>23 DEF WorkerTyped, Locals, Pcs, ReplaceFails, EndResume, AckDropped,
       KeepPending, lifeVars, epochVars, ackVars, shedVars, headerVars,
       queueVars, sharedVars, Go, Local
<1>24. ASSUME Retry PROVE WorkerTyped'
  <2>1. w' = [w EXCEPT !.pc = "delay", !.left = @ - 1, !.reconnected = TRUE]
    BY <1>24 DEF Retry
  <2>2. w.left - 1 \in Nat
    BY <1>24 DEF Retry, WorkerTyped, Locals
  <2>3. w' \in Locals /\ w'.pc = "delay"
    BY <2>1, <2>2 DEF WorkerTyped, Locals, Pcs
  <2> QED BY <1>24, <2>3 DEF WorkerTyped, Retry, epochVars
<1>25. ASSUME Delayed PROVE WorkerTyped'
  BY <1>25 DEF WorkerTyped, Locals, Pcs, Delayed, lifeVars, epochVars,
       ackVars, shedVars, headerVars, queueVars, sharedVars, Go, Local
<1>26. ASSUME RetryEnds PROVE WorkerTyped'
  BY <1>26 DEF WorkerTyped, Locals, Pcs, RetryEnds, lifeVars, epochVars,
       ackVars, shedVars, headerVars, queueVars, sharedVars, Go, Local
<1>27. ASSUME Exhausted PROVE WorkerTyped'
  BY <1>27 DEF WorkerTyped, Locals, Pcs, Exhausted, EndResume, AckDropped,
       KeepPending, lifeVars, epochVars, ackVars, shedVars, headerVars,
       queueVars, sharedVars, Go, Local
<1>28. ASSUME AttemptFailed PROVE WorkerTyped'
  BY <1>28 DEF WorkerTyped, Locals, Pcs, AttemptFailed, EndResume, AckDropped,
       KeepPending, lifeVars, epochVars, ackVars, shedVars, headerVars,
       queueVars, sharedVars, Go, Local
<1>29. ASSUME Redialled PROVE WorkerTyped'
  BY <1>29 DEF WorkerTyped, Locals, Pcs, Redialled, Rejoin, lifeVars,
       epochVars, ackVars, shedVars, headerVars, queueVars, sharedVars, Go,
       Local
<1>30. ASSUME Booted PROVE WorkerTyped'
  <2>1. \/ w' = [w EXCEPT !.pc = "pop", !.boot = FALSE, !.redial = FALSE]
        \/ w' = [w EXCEPT !.pc = "close", !.after = "fail", !.boot = FALSE]
    BY <1>30 DEF Booted
  <2>2. CASE w' = [w EXCEPT !.pc = "pop", !.boot = FALSE, !.redial = FALSE]
    <3>1. w' \in Locals /\ w'.pc = "pop"
      BY <2>2 DEF WorkerTyped, Locals, Pcs
    <3> QED BY <1>30, <3>1 DEF WorkerTyped, Booted, epochVars
  <2>3. CASE w' = [w EXCEPT !.pc = "close", !.after = "fail", !.boot = FALSE]
    <3>1. w' \in Locals /\ w'.pc = "close"
      BY <2>3 DEF WorkerTyped, Locals, Pcs
    <3> QED BY <1>30, <3>1 DEF WorkerTyped, Booted, epochVars
  <2> QED BY <2>1, <2>2, <2>3
<1>31. ASSUME GiveUp PROVE WorkerTyped'
  BY <1>31 DEF WorkerTyped, Locals, Pcs, GiveUp, lifeVars, epochVars, ackVars,
       shedVars, headerVars, queueVars, sharedVars, Go, Local
<1>32. ASSUME Fail PROVE WorkerTyped'
  BY <1>32 DEF WorkerTyped, Locals, Pcs, Fail, lifeVars, epochVars, ackVars,
       shedVars, headerVars, queueVars, sharedVars, Go, Local
<1>33. ASSUME CloseQueue PROVE WorkerTyped'
  BY <1>33 DEF WorkerTyped, Locals, Pcs, CloseQueue, lifeVars, epochVars,
       ackVars, shedVars, headerVars, queueVars, sharedVars, Go, Local
<1>34. ASSUME Pop PROVE WorkerTyped'
  <2>1. w' = [w EXCEPT !.pc = "popped", !.tag = Head(queue)]
    BY <1>34 DEF Pop
  <2>2. Head(queue) \in Tag
    BY <1>34, GoodTags DEF Pop
  <2>3. w' \in Locals /\ w'.pc = "popped"
    BY <2>1, <2>2 DEF WorkerTyped, Locals, Pcs
  <2> QED BY <1>34, <2>3 DEF WorkerTyped, Pop, epochVars
<1>35. ASSUME Leave PROVE WorkerTyped'
  BY <1>35 DEF WorkerTyped, Locals, Pcs, Leave, lifeVars, epochVars, ackVars,
       shedVars, headerVars, queueVars, sharedVars, Go, Local
<1>36. ASSUME Select PROVE WorkerTyped'
  <2>1. CASE w.tag.epoch # epoch
    <3>1. w' = [w EXCEPT !.pc = "pop"]
      BY <1>36, <2>1 DEF Select
    <3>2. w' \in Locals /\ w'.pc = "pop"
      BY <3>1 DEF WorkerTyped, Locals, Pcs
    <3> QED BY <1>36, <3>2 DEF WorkerTyped, Select, sharedVars, epochVars
  <2>2. CASE w.tag.epoch = epoch
    <3>1. PICK p \in {"send", "wrote"}, a \in BOOLEAN :
            w' = [w EXCEPT !.media = w.tag.epoch, !.awaiting = a,
                           !.sel = sequence_headers, !.selEpoch = w.tag.epoch,
                           !.rev = header_revision, !.job = "header", !.pc = p]
      BY <1>36, <2>2 DEF Select
    <3>2. /\ w.tag.epoch \in Nat /\ sequence_headers \in Nat \cup {None}
          /\ header_revision \in Nat
      BY <2>2 DEF HeaderTyped, EpochTyped
    <3>3. w' \in Locals /\ w'.pc \in {"send", "wrote"}
      BY <3>1, <3>2 DEF WorkerTyped, Locals, Pcs
    <3> QED BY <1>36, <3>3 DEF WorkerTyped, Select, sharedVars, epochVars
  <2> QED BY <2>1, <2>2
<1>37. ASSUME LoopPrimed PROVE WorkerTyped'
  <2>1. PICK p \in {"send", "pop"}, j \in {w.job, "tag"}, a \in BOOLEAN :
          w' = [w EXCEPT !.pc = p, !.job = j, !.awaiting = a]
    <3>1. CASE w.tag.epoch # epoch
      <4>1. w' = [w EXCEPT !.pc = "pop"]
        BY <1>37, <3>1 DEF LoopPrimed, Go
      <4>2. w' = [w EXCEPT !.pc = "pop", !.job = w.job, !.awaiting = w.awaiting]
        BY <4>1 DEF WorkerTyped, Locals
      <4> QED BY <4>2 DEF WorkerTyped, Locals
    <3>2. CASE w.tag.epoch = epoch
      BY <1>37, <3>2 DEF LoopPrimed
    <3> QED BY <3>1, <3>2
  <2>2. w' \in Locals /\ w'.pc \in {"send", "pop"}
    BY <2>1 DEF WorkerTyped, Locals, Pcs
  <2> QED BY <1>37, <2>2 DEF WorkerTyped, LoopPrimed, epochVars
<1>38. ASSUME TagWritten PROVE WorkerTyped'
  BY <1>38 DEF WorkerTyped, Locals, Pcs, TagWritten, TicketCounts, lifeVars,
       epochVars, ackVars, shedVars, headerVars, queueVars, sharedVars, Go,
       Local
<1>39. ASSUME Publish PROVE WorkerTyped'
  BY <1>39 DEF WorkerTyped, Locals, Pcs, Publish, Published, lifeVars,
       epochVars, ackVars, shedVars, headerVars, queueVars, sharedVars, Go,
       Local
<1>40. ASSUME Stopped PROVE WorkerTyped'
  BY <1>40 DEF WorkerTyped, Locals, Pcs, Stopped, vars, lifeVars, epochVars,
       ackVars, shedVars, headerVars, queueVars, sharedVars, Go, Local
<1>41. ASSUME UNCHANGED vars PROVE WorkerTyped'
  BY <1>41 DEF WorkerTyped, Locals, Pcs, vars, lifeVars, epochVars, ackVars,
       shedVars, headerVars, queueVars, sharedVars, Go, Local
<1> QED BY <1>1, <1>2, <1>3, <1>4, <1>5, <1>6, <1>7, <1>8, <1>9, <1>10,
     <1>11, <1>12, <1>13, <1>14, <1>15, <1>16, <1>17, <1>18, <1>19, <1>20,
     <1>21, <1>22, <1>23, <1>24, <1>25, <1>26, <1>27, <1>28, <1>29, <1>30,
     <1>31, <1>32, <1>33, <1>34, <1>35, <1>36, <1>37, <1>38, <1>39, <1>40,
     <1>41 DEF Next, Pipeline, Owner, Watchdog, Worker

LEMMA HeaderTypedStep ==
  ASSUME SenderConstants, Typed, Place, Media, [Next]_vars
  PROVE  HeaderTyped'
<1>0. /\ LifeTyped /\ EpochTyped /\ TicketTyped /\ HeaderTyped /\ WorkerTyped
      /\ WireTyped
  BY DEF Typed
<1>1. ASSUME NEW kinds \in Batches, EnqueueDropped(kinds) PROVE HeaderTyped'
  BY <1>1, <1>0, Enqueues DEF HeaderTyped
<1>2. ASSUME NEW kinds \in Batches, EnqueueRefused(kinds) PROVE HeaderTyped'
  BY <1>2, <1>0, Enqueues DEF HeaderTyped
<1>3. ASSUME NEW kinds \in Batches, EnqueuePushed(kinds) PROVE HeaderTyped'
  BY <1>3, <1>0, Enqueues DEF HeaderTyped
<1>4. ASSUME NEW kinds \in Batches, EnqueueFull(kinds) PROVE HeaderTyped'
  BY <1>4, <1>0, Enqueues DEF HeaderTyped
<1>5. ASSUME InvalidateEpoch PROVE HeaderTyped'
  BY <1>5, <1>0, Invalidates DEF HeaderTyped, InvalidateEpoch
<1>6. ASSUME RequestStop PROVE HeaderTyped'
  BY <1>6, <1>0 DEF HeaderTyped, Feed, WorkerTyped, Locals, RequestStop,
       StopQueue, lifeVars, epochVars, ackVars, shedVars, headerVars,
       queueVars, sharedVars, Go, Local
<1>7. ASSUME Join PROVE HeaderTyped'
  BY <1>7, <1>0 DEF HeaderTyped, Feed, WorkerTyped, Locals, Join, lifeVars,
       epochVars, ackVars, shedVars, headerVars, queueVars, sharedVars, Go,
       Local
<1>8. ASSUME WatchdogExpires PROVE HeaderTyped'
  BY <1>8, <1>0 DEF HeaderTyped, Feed, WorkerTyped, Locals, WatchdogExpires,
       lifeVars, epochVars, ackVars, shedVars, headerVars, queueVars,
       sharedVars, Go, Local
<1>9. ASSUME WatchdogInterrupts PROVE HeaderTyped'
  BY <1>9, <1>0 DEF HeaderTyped, Feed, WorkerTyped, Locals,
       WatchdogInterrupts, lifeVars, epochVars, ackVars, shedVars, headerVars,
       queueVars, sharedVars, Go, Local
<1>10. ASSUME Dial PROVE HeaderTyped'
  BY <1>10, <1>0 DEF HeaderTyped, Feed, WorkerTyped, Locals, Dial, BeginIO,
       lifeVars, epochVars, ackVars, shedVars, headerVars, queueVars,
       sharedVars, Go, Local
<1>11. ASSUME Connected PROVE HeaderTyped'
  BY <1>11, <1>0 DEF HeaderTyped, Feed, WorkerTyped, Locals, Connected, Acked,
       KeepTransport, SilentWire, lifeVars, epochVars, ackVars, shedVars,
       headerVars, queueVars, sharedVars, Go, Local
<1>12. ASSUME ConnectFails PROVE HeaderTyped'
  BY <1>12, <1>0 DEF HeaderTyped, Feed, WorkerTyped, Locals, ConnectFails,
       Acked, LoseTransport, lifeVars, epochVars, ackVars, shedVars,
       headerVars, queueVars, sharedVars, Go, Local
<1>13. ASSUME Send PROVE HeaderTyped'
  BY <1>13, <1>0 DEF HeaderTyped, Feed, WorkerTyped, Locals, Send, BeginIO,
       lifeVars, epochVars, ackVars, shedVars, headerVars, queueVars,
       sharedVars, Go, Local
<1>14. ASSUME Sent PROVE HeaderTyped'
  BY <1>14, <1>0 DEF HeaderTyped, Feed, WorkerTyped, Locals, Sent, Acked,
       KeepTransport, lifeVars, epochVars, ackVars, shedVars, headerVars,
       queueVars, sharedVars, Go, Local
<1>15. ASSUME SendFails PROVE HeaderTyped'
  BY <1>15, <1>0 DEF HeaderTyped, Feed, WorkerTyped, Locals, SendFails, Acked,
       LoseTransport, lifeVars, epochVars, ackVars, shedVars, headerVars,
       queueVars, sharedVars, Go, Local
<1>16. ASSUME ReadHeaders PROVE HeaderTyped'
  BY <1>16, <1>0 DEF HeaderTyped, Feed, WorkerTyped, Locals, ReadHeaders,
       lifeVars, epochVars, ackVars, shedVars, headerVars, queueVars,
       sharedVars, Go, Local
<1>17. ASSUME ConnectPrimed PROVE HeaderTyped'
  BY <1>17, <1>0 DEF HeaderTyped, Feed, WorkerTyped, Locals, ConnectPrimed,
       Primed, lifeVars, epochVars, ackVars, shedVars, headerVars, queueVars,
       sharedVars, Go, Local
<1>18. ASSUME Close PROVE HeaderTyped'
  BY <1>18, <1>0 DEF HeaderTyped, Feed, WorkerTyped, Locals, Close, BeginIO,
       lifeVars, epochVars, ackVars, shedVars, headerVars, queueVars,
       sharedVars, Go, Local
<1>19. ASSUME Closed PROVE HeaderTyped'
  BY <1>19, <1>0 DEF HeaderTyped, Feed, WorkerTyped, Locals, Closed, Acked,
       LoseTransport, lifeVars, epochVars, ackVars, shedVars, headerVars,
       queueVars, sharedVars, Go, Local
<1>20. ASSUME Reconnect PROVE HeaderTyped'
  BY <1>20, <1>0 DEF HeaderTyped, Feed, WorkerTyped, Locals, Reconnect,
       ReconnectQueue, lifeVars, epochVars, ackVars, shedVars, headerVars,
       queueVars, sharedVars, Go, Local
<1>21. ASSUME TakeCancellation PROVE HeaderTyped'
  BY <1>21, <1>0 DEF HeaderTyped, Feed, WorkerTyped, Locals, TakeCancellation,
       lifeVars, epochVars, ackVars, shedVars, headerVars, queueVars,
       sharedVars, Go, Local
<1>22. ASSUME ReplaceTransport PROVE HeaderTyped'
  BY <1>22, <1>0 DEF HeaderTyped, Feed, WorkerTyped, Locals, ReplaceTransport,
       Fresh, lifeVars, epochVars, ackVars, shedVars, headerVars, queueVars,
       sharedVars, Go, Local
<1>23. ASSUME ReplaceFails PROVE HeaderTyped'
  BY <1>23, <1>0 DEF HeaderTyped, Feed, WorkerTyped, Locals, ReplaceFails,
       EndResume, AckDropped, KeepPending, lifeVars, epochVars, ackVars,
       shedVars, headerVars, queueVars, sharedVars, Go, Local
<1>24. ASSUME Retry PROVE HeaderTyped'
  BY <1>24, <1>0 DEF HeaderTyped, Feed, WorkerTyped, Locals, Retry, lifeVars,
       epochVars, ackVars, shedVars, headerVars, queueVars, sharedVars, Go,
       Local
<1>25. ASSUME Delayed PROVE HeaderTyped'
  BY <1>25, <1>0 DEF HeaderTyped, Feed, WorkerTyped, Locals, Delayed,
       lifeVars, epochVars, ackVars, shedVars, headerVars, queueVars,
       sharedVars, Go, Local
<1>26. ASSUME RetryEnds PROVE HeaderTyped'
  BY <1>26, <1>0 DEF HeaderTyped, Feed, WorkerTyped, Locals, RetryEnds,
       lifeVars, epochVars, ackVars, shedVars, headerVars, queueVars,
       sharedVars, Go, Local
<1>27. ASSUME Exhausted PROVE HeaderTyped'
  BY <1>27, <1>0 DEF HeaderTyped, Feed, WorkerTyped, Locals, Exhausted,
       EndResume, AckDropped, KeepPending, lifeVars, epochVars, ackVars,
       shedVars, headerVars, queueVars, sharedVars, Go, Local
<1>28. ASSUME AttemptFailed PROVE HeaderTyped'
  BY <1>28, <1>0 DEF HeaderTyped, Feed, WorkerTyped, Locals, AttemptFailed,
       EndResume, AckDropped, KeepPending, lifeVars, epochVars, ackVars,
       shedVars, headerVars, queueVars, sharedVars, Go, Local
<1>29. ASSUME Redialled PROVE HeaderTyped'
  BY <1>29, <1>0 DEF HeaderTyped, Feed, WorkerTyped, Locals, Redialled,
       Rejoin, lifeVars, epochVars, ackVars, shedVars, headerVars, queueVars,
       sharedVars, Go, Local
<1>30. ASSUME Booted PROVE HeaderTyped'
  BY <1>30, <1>0 DEF HeaderTyped, Feed, WorkerTyped, Locals, Booted,
       BootInTime, lifeVars, epochVars, ackVars, shedVars, headerVars,
       queueVars, sharedVars, Go, Local
<1>31. ASSUME GiveUp PROVE HeaderTyped'
  BY <1>31, <1>0 DEF HeaderTyped, Feed, WorkerTyped, Locals, GiveUp, lifeVars,
       epochVars, ackVars, shedVars, headerVars, queueVars, sharedVars, Go,
       Local
<1>32. ASSUME Fail PROVE HeaderTyped'
  BY <1>32, <1>0 DEF HeaderTyped, Feed, WorkerTyped, Locals, Fail, lifeVars,
       epochVars, ackVars, shedVars, headerVars, queueVars, sharedVars, Go,
       Local
<1>33. ASSUME CloseQueue PROVE HeaderTyped'
  BY <1>33, <1>0 DEF HeaderTyped, Feed, WorkerTyped, Locals, CloseQueue,
       lifeVars, epochVars, ackVars, shedVars, headerVars, queueVars,
       sharedVars, Go, Local
<1>34. ASSUME Pop PROVE HeaderTyped'
  BY <1>34, <1>0 DEF HeaderTyped, Feed, WorkerTyped, Locals, Pop, lifeVars,
       epochVars, ackVars, shedVars, headerVars, queueVars, sharedVars, Go,
       Local
<1>35. ASSUME Leave PROVE HeaderTyped'
  BY <1>35, <1>0 DEF HeaderTyped, Feed, WorkerTyped, Locals, Leave, lifeVars,
       epochVars, ackVars, shedVars, headerVars, queueVars, sharedVars, Go,
       Local
<1>36. ASSUME Select PROVE HeaderTyped'
  BY <1>36, <1>0 DEF HeaderTyped, Feed, WorkerTyped, Locals, Select, lifeVars,
       epochVars, ackVars, shedVars, headerVars, queueVars, sharedVars, Go,
       Local
<1>37. ASSUME LoopPrimed PROVE HeaderTyped'
  BY <1>37, <1>0 DEF HeaderTyped, Feed, WorkerTyped, Locals, LoopPrimed,
       Primed, Joins, lifeVars, epochVars, ackVars, shedVars, headerVars,
       queueVars, sharedVars, Go, Local
<1>38. ASSUME TagWritten PROVE HeaderTyped'
  BY <1>38, <1>0 DEF HeaderTyped, Feed, WorkerTyped, Locals, TagWritten,
       TicketCounts, lifeVars, epochVars, ackVars, shedVars, headerVars,
       queueVars, sharedVars, Go, Local
<1>39. ASSUME Publish PROVE HeaderTyped'
  BY <1>39, <1>0 DEF HeaderTyped, Feed, WorkerTyped, Locals, Publish,
       Published, lifeVars, epochVars, ackVars, shedVars, headerVars,
       queueVars, sharedVars, Go, Local
<1>40. ASSUME Stopped PROVE HeaderTyped'
  BY <1>40, <1>0 DEF HeaderTyped, Feed, WorkerTyped, Locals, Stopped, vars,
       lifeVars, epochVars, ackVars, shedVars, headerVars, queueVars,
       sharedVars, Go, Local
<1>41. ASSUME UNCHANGED vars PROVE HeaderTyped'
  BY <1>41, <1>0 DEF HeaderTyped, Feed, WorkerTyped, Locals, vars, lifeVars,
       epochVars, ackVars, shedVars, headerVars, queueVars, sharedVars, Go,
       Local
<1> QED BY <1>1, <1>2, <1>3, <1>4, <1>5, <1>6, <1>7, <1>8, <1>9, <1>10,
     <1>11, <1>12, <1>13, <1>14, <1>15, <1>16, <1>17, <1>18, <1>19, <1>20,
     <1>21, <1>22, <1>23, <1>24, <1>25, <1>26, <1>27, <1>28, <1>29, <1>30,
     <1>31, <1>32, <1>33, <1>34, <1>35, <1>36, <1>37, <1>38, <1>39, <1>40,
     <1>41 DEF Next, Pipeline, Owner, Watchdog, Worker

LEMMA WireTypedStep ==
  ASSUME SenderConstants, Typed, Place, Media, [Next]_vars
  PROVE  WireTyped'
<1>0. /\ LifeTyped /\ EpochTyped /\ TicketTyped /\ HeaderTyped /\ WorkerTyped
      /\ WireTyped
  BY DEF Typed
<1>1. ASSUME NEW kinds \in Batches, EnqueueDropped(kinds) PROVE WireTyped'
  BY <1>1, <1>0 DEF WireTyped, WorkerTyped, Locals, EnqueueDropped, Accept, Admit,
       lifeVars, epochVars, ackVars, shedVars, headerVars, queueVars,
       sharedVars, Go, Local
<1>2. ASSUME NEW kinds \in Batches, EnqueueRefused(kinds) PROVE WireTyped'
  BY <1>2, <1>0 DEF WireTyped, WorkerTyped, Locals, EnqueueRefused, Admit,
       lifeVars, epochVars, ackVars, shedVars, headerVars, queueVars,
       sharedVars, Go, Local
<1>3. ASSUME NEW kinds \in Batches, EnqueuePushed(kinds) PROVE WireTyped'
  BY <1>3, <1>0 DEF WireTyped, WorkerTyped, Locals, EnqueuePushed, Accept, Admit,
       lifeVars, epochVars, ackVars, shedVars, headerVars, queueVars,
       sharedVars, Go, Local
<1>4. ASSUME NEW kinds \in Batches, EnqueueFull(kinds) PROVE WireTyped'
  BY <1>4, <1>0 DEF WireTyped, WorkerTyped, Locals, EnqueueFull, Accept, Admit,
       lifeVars, epochVars, ackVars, shedVars, headerVars, queueVars,
       sharedVars, Go, Local
<1>5. ASSUME InvalidateEpoch PROVE WireTyped'
  BY <1>5, <1>0 DEF WireTyped, WorkerTyped, Locals, InvalidateEpoch, Fence,
       lifeVars, epochVars, ackVars, shedVars, headerVars, queueVars,
       sharedVars, Go, Local
<1>6. ASSUME RequestStop PROVE WireTyped'
  BY <1>6, <1>0 DEF WireTyped, WorkerTyped, Locals, RequestStop, StopQueue,
       lifeVars, epochVars, ackVars, shedVars, headerVars, queueVars,
       sharedVars, Go, Local
<1>7. ASSUME Join PROVE WireTyped'
  BY <1>7, <1>0 DEF WireTyped, WorkerTyped, Locals, Join, lifeVars, epochVars,
       ackVars, shedVars, headerVars, queueVars, sharedVars, Go, Local
<1>8. ASSUME WatchdogExpires PROVE WireTyped'
  BY <1>8, <1>0 DEF WireTyped, WorkerTyped, Locals, WatchdogExpires, lifeVars,
       epochVars, ackVars, shedVars, headerVars, queueVars, sharedVars, Go,
       Local
<1>9. ASSUME WatchdogInterrupts PROVE WireTyped'
  BY <1>9, <1>0 DEF WireTyped, WorkerTyped, Locals, WatchdogInterrupts,
       lifeVars, epochVars, ackVars, shedVars, headerVars, queueVars,
       sharedVars, Go, Local
<1>10. ASSUME Dial PROVE WireTyped'
  BY <1>10, <1>0 DEF WireTyped, WorkerTyped, Locals, Dial, BeginIO, lifeVars,
       epochVars, ackVars, shedVars, headerVars, queueVars, sharedVars, Go,
       Local
<1>11. ASSUME Connected PROVE WireTyped'
  <2>1. wire' = SilentWire
    BY <1>11 DEF Connected
  <2> QED BY <2>1 DEF WireTyped, SilentWire
<1>12. ASSUME ConnectFails PROVE WireTyped'
  BY <1>12, <1>0 DEF WireTyped, WorkerTyped, Locals, ConnectFails, Acked,
       LoseTransport, lifeVars, epochVars, ackVars, shedVars, headerVars,
       queueVars, sharedVars, Go, Local
<1>13. ASSUME Send PROVE WireTyped'
  BY <1>13, <1>0 DEF WireTyped, WorkerTyped, Locals, Send, BeginIO, lifeVars,
       epochVars, ackVars, shedVars, headerVars, queueVars, sharedVars, Go,
       Local
<1>14. ASSUME Sent PROVE WireTyped'
  <2>1. wire' = WireAfter /\ w.pc = "sending"
    BY <1>14 DEF Sent
  <2>2. CASE w.job = "tag"
    <3>1. Holds
      BY <2>1, <2>2 DEF Holds, Place, Talking
    <3>2. w.tag.epoch \in Nat /\ w.tag.video \in Nat
      BY <3>1, <1>0, HeldTag
    <3>3. PICK on \in [epoch : Nat \cup {None}, headers : Nat \cup {None},
                       video : Nat, audio : BOOLEAN] :
            on = IF wire.epoch = w.tag.epoch THEN wire
                 ELSE [SilentWire EXCEPT !.epoch = w.tag.epoch,
                                         !.headers = wire.headers]
      BY <1>0, <3>2 DEF SilentWire, WireTyped
    <3>4. wire' = [on EXCEPT !.video = IF IsVideo(w.tag) THEN w.tag.video ELSE @,
                             !.audio = @ \/ w.tag.kind = "audio"]
      BY <2>1, <2>2, <3>3 DEF WireAfter
    <3>5. PICK v \in Nat, a \in BOOLEAN : wire' = [on EXCEPT !.video = v, !.audio = a]
      <4>1. on.video \in Nat /\ on.audio \in BOOLEAN
        OBVIOUS
      <4>2. (IF IsVideo(w.tag) THEN w.tag.video ELSE on.video) \in Nat
        BY <4>1, <3>2
      <4>3. (on.audio \/ w.tag.kind = "audio") \in BOOLEAN
        OBVIOUS
      <4> QED BY <3>4, <4>2, <4>3
    <3> QED BY <3>5 DEF WireTyped
  <2>3. CASE w.job = "header"
    <3>1. w.sel \in Nat \cup {None}
      BY <1>0 DEF WorkerTyped, Locals
    <3> QED BY <1>0, <2>1, <2>3, <3>1 DEF WireAfter, WireTyped
  <2>4. CASE w.job = "file"
    BY <1>0, <2>1, <2>4 DEF WireAfter, WireTyped
  <2>5. w.job \in {"file", "header", "tag"}
    BY <1>0, <2>1 DEF WorkerTyped, Locals, Place, Talking
  <2> QED BY <2>2, <2>3, <2>4, <2>5
<1>15. ASSUME SendFails PROVE WireTyped'
  BY <1>15, <1>0 DEF WireTyped, WorkerTyped, Locals, SendFails, Acked,
       LoseTransport, lifeVars, epochVars, ackVars, shedVars, headerVars,
       queueVars, sharedVars, Go, Local
<1>16. ASSUME ReadHeaders PROVE WireTyped'
  BY <1>16, <1>0 DEF WireTyped, WorkerTyped, Locals, ReadHeaders, lifeVars,
       epochVars, ackVars, shedVars, headerVars, queueVars, sharedVars, Go,
       Local
<1>17. ASSUME ConnectPrimed PROVE WireTyped'
  BY <1>17, <1>0 DEF WireTyped, WorkerTyped, Locals, ConnectPrimed, Primed,
       lifeVars, epochVars, ackVars, shedVars, headerVars, queueVars,
       sharedVars, Go, Local
<1>18. ASSUME Close PROVE WireTyped'
  BY <1>18, <1>0 DEF WireTyped, WorkerTyped, Locals, Close, BeginIO, lifeVars,
       epochVars, ackVars, shedVars, headerVars, queueVars, sharedVars, Go,
       Local
<1>19. ASSUME Closed PROVE WireTyped'
  BY <1>19, <1>0 DEF WireTyped, WorkerTyped, Locals, Closed, Acked,
       LoseTransport, lifeVars, epochVars, ackVars, shedVars, headerVars,
       queueVars, sharedVars, Go, Local
<1>20. ASSUME Reconnect PROVE WireTyped'
  BY <1>20, <1>0 DEF WireTyped, WorkerTyped, Locals, Reconnect,
       ReconnectQueue, lifeVars, epochVars, ackVars, shedVars, headerVars,
       queueVars, sharedVars, Go, Local
<1>21. ASSUME TakeCancellation PROVE WireTyped'
  BY <1>21, <1>0 DEF WireTyped, WorkerTyped, Locals, TakeCancellation,
       lifeVars, epochVars, ackVars, shedVars, headerVars, queueVars,
       sharedVars, Go, Local
<1>22. ASSUME ReplaceTransport PROVE WireTyped'
  BY <1>22, <1>0 DEF WireTyped, WorkerTyped, Locals, ReplaceTransport, Fresh,
       lifeVars, epochVars, ackVars, shedVars, headerVars, queueVars,
       sharedVars, Go, Local
<1>23. ASSUME ReplaceFails PROVE WireTyped'
  BY <1>23, <1>0 DEF WireTyped, WorkerTyped, Locals, ReplaceFails, EndResume,
       AckDropped, KeepPending, lifeVars, epochVars, ackVars, shedVars,
       headerVars, queueVars, sharedVars, Go, Local
<1>24. ASSUME Retry PROVE WireTyped'
  BY <1>24, <1>0 DEF WireTyped, WorkerTyped, Locals, Retry, lifeVars,
       epochVars, ackVars, shedVars, headerVars, queueVars, sharedVars, Go,
       Local
<1>25. ASSUME Delayed PROVE WireTyped'
  BY <1>25, <1>0 DEF WireTyped, WorkerTyped, Locals, Delayed, lifeVars,
       epochVars, ackVars, shedVars, headerVars, queueVars, sharedVars, Go,
       Local
<1>26. ASSUME RetryEnds PROVE WireTyped'
  BY <1>26, <1>0 DEF WireTyped, WorkerTyped, Locals, RetryEnds, lifeVars,
       epochVars, ackVars, shedVars, headerVars, queueVars, sharedVars, Go,
       Local
<1>27. ASSUME Exhausted PROVE WireTyped'
  BY <1>27, <1>0 DEF WireTyped, WorkerTyped, Locals, Exhausted, EndResume,
       AckDropped, KeepPending, lifeVars, epochVars, ackVars, shedVars,
       headerVars, queueVars, sharedVars, Go, Local
<1>28. ASSUME AttemptFailed PROVE WireTyped'
  BY <1>28, <1>0 DEF WireTyped, WorkerTyped, Locals, AttemptFailed, EndResume,
       AckDropped, KeepPending, lifeVars, epochVars, ackVars, shedVars,
       headerVars, queueVars, sharedVars, Go, Local
<1>29. ASSUME Redialled PROVE WireTyped'
  BY <1>29, <1>0 DEF WireTyped, WorkerTyped, Locals, Redialled, Rejoin,
       lifeVars, epochVars, ackVars, shedVars, headerVars, queueVars,
       sharedVars, Go, Local
<1>30. ASSUME Booted PROVE WireTyped'
  BY <1>30, <1>0 DEF WireTyped, WorkerTyped, Locals, Booted, BootInTime,
       lifeVars, epochVars, ackVars, shedVars, headerVars, queueVars,
       sharedVars, Go, Local
<1>31. ASSUME GiveUp PROVE WireTyped'
  BY <1>31, <1>0 DEF WireTyped, WorkerTyped, Locals, GiveUp, lifeVars,
       epochVars, ackVars, shedVars, headerVars, queueVars, sharedVars, Go,
       Local
<1>32. ASSUME Fail PROVE WireTyped'
  BY <1>32, <1>0 DEF WireTyped, WorkerTyped, Locals, Fail, lifeVars,
       epochVars, ackVars, shedVars, headerVars, queueVars, sharedVars, Go,
       Local
<1>33. ASSUME CloseQueue PROVE WireTyped'
  BY <1>33, <1>0 DEF WireTyped, WorkerTyped, Locals, CloseQueue, lifeVars,
       epochVars, ackVars, shedVars, headerVars, queueVars, sharedVars, Go,
       Local
<1>34. ASSUME Pop PROVE WireTyped'
  BY <1>34, <1>0 DEF WireTyped, WorkerTyped, Locals, Pop, lifeVars, epochVars,
       ackVars, shedVars, headerVars, queueVars, sharedVars, Go, Local
<1>35. ASSUME Leave PROVE WireTyped'
  BY <1>35, <1>0 DEF WireTyped, WorkerTyped, Locals, Leave, lifeVars,
       epochVars, ackVars, shedVars, headerVars, queueVars, sharedVars, Go,
       Local
<1>36. ASSUME Select PROVE WireTyped'
  BY <1>36, <1>0 DEF WireTyped, WorkerTyped, Locals, Select, lifeVars,
       epochVars, ackVars, shedVars, headerVars, queueVars, sharedVars, Go,
       Local
<1>37. ASSUME LoopPrimed PROVE WireTyped'
  BY <1>37, <1>0 DEF WireTyped, WorkerTyped, Locals, LoopPrimed, Primed,
       Joins, lifeVars, epochVars, ackVars, shedVars, headerVars, queueVars,
       sharedVars, Go, Local
<1>38. ASSUME TagWritten PROVE WireTyped'
  BY <1>38, <1>0 DEF WireTyped, WorkerTyped, Locals, TagWritten, TicketCounts,
       lifeVars, epochVars, ackVars, shedVars, headerVars, queueVars,
       sharedVars, Go, Local
<1>39. ASSUME Publish PROVE WireTyped'
  BY <1>39, <1>0 DEF WireTyped, WorkerTyped, Locals, Publish, Published,
       lifeVars, epochVars, ackVars, shedVars, headerVars, queueVars,
       sharedVars, Go, Local
<1>40. ASSUME Stopped PROVE WireTyped'
  BY <1>40, <1>0 DEF WireTyped, WorkerTyped, Locals, Stopped, vars, lifeVars,
       epochVars, ackVars, shedVars, headerVars, queueVars, sharedVars, Go,
       Local
<1>41. ASSUME UNCHANGED vars PROVE WireTyped'
  BY <1>41, <1>0 DEF WireTyped, WorkerTyped, Locals, vars, lifeVars,
       epochVars, ackVars, shedVars, headerVars, queueVars, sharedVars, Go,
       Local
<1> QED BY <1>1, <1>2, <1>3, <1>4, <1>5, <1>6, <1>7, <1>8, <1>9, <1>10,
     <1>11, <1>12, <1>13, <1>14, <1>15, <1>16, <1>17, <1>18, <1>19, <1>20,
     <1>21, <1>22, <1>23, <1>24, <1>25, <1>26, <1>27, <1>28, <1>29, <1>30,
     <1>31, <1>32, <1>33, <1>34, <1>35, <1>36, <1>37, <1>38, <1>39, <1>40,
     <1>41 DEF Next, Pipeline, Owner, Watchdog, Worker

\* What is queued and held is of an epoch the sender has reached.
LEMMA MediaStep ==
  ASSUME SenderConstants, Typed, Place, Media, Queued, [Next]_vars
  PROVE  Media'
<1>0. /\ LifeTyped /\ EpochTyped /\ TicketTyped /\ HeaderTyped /\ WorkerTyped
      /\ WireTyped
  BY DEF Typed
<1>1. ASSUME NEW kinds \in Batches, EnqueueDropped(kinds) PROVE Media'
  <2>1. epoch' = feed.epoch /\ feed'.epoch = feed.epoch /\ w' = w
    BY <1>1, Enqueues
  <2>2. epoch \in Nat /\ epoch' \in Nat /\ epoch <= epoch'
    BY <1>1, <1>0, Enqueues DEF EpochTyped
  <2>3. Good(epoch) \subseteq Good(epoch')
    BY <2>2, GoodGrows
  <2>4. w.media \in Nat
    BY <1>0 DEF WorkerTyped, Locals
  <2> QED BY <2>1, <2>2, <2>3, <2>4 DEF Media, Holds, OnLine
<1>2. ASSUME NEW kinds \in Batches, EnqueueRefused(kinds) PROVE Media'
  <2>1. epoch' = feed.epoch /\ feed'.epoch = feed.epoch /\ w' = w
    BY <1>2, Enqueues
  <2>2. epoch \in Nat /\ epoch' \in Nat /\ epoch <= epoch'
    BY <1>2, <1>0, Enqueues DEF EpochTyped
  <2>3. Good(epoch) \subseteq Good(epoch')
    BY <2>2, GoodGrows
  <2>4. w.media \in Nat
    BY <1>0 DEF WorkerTyped, Locals
  <2> QED BY <2>1, <2>2, <2>3, <2>4 DEF Media, Holds, OnLine
<1>3. ASSUME NEW kinds \in Batches, EnqueuePushed(kinds) PROVE Media'
  <2>1. epoch' = feed.epoch /\ feed'.epoch = feed.epoch /\ w' = w
    BY <1>3, Enqueues
  <2>2. epoch \in Nat /\ epoch' \in Nat /\ epoch <= epoch'
    BY <1>3, <1>0, Enqueues DEF EpochTyped
  <2>3. Good(epoch) \subseteq Good(epoch')
    BY <2>2, GoodGrows
  <2>4. w.media \in Nat
    BY <1>0 DEF WorkerTyped, Locals
  <2> QED BY <2>1, <2>2, <2>3, <2>4 DEF Media, Holds, OnLine
<1>4. ASSUME NEW kinds \in Batches, EnqueueFull(kinds) PROVE Media'
  <2>1. epoch' = feed.epoch /\ feed'.epoch = feed.epoch /\ w' = w
    BY <1>4, Enqueues
  <2>2. epoch \in Nat /\ epoch' \in Nat /\ epoch <= epoch'
    BY <1>4, <1>0, Enqueues DEF EpochTyped
  <2>3. Good(epoch) \subseteq Good(epoch')
    BY <2>2, GoodGrows
  <2>4. w.media \in Nat
    BY <1>0 DEF WorkerTyped, Locals
  <2> QED BY <2>1, <2>2, <2>3, <2>4 DEF Media, Holds, OnLine
<1>5. ASSUME InvalidateEpoch PROVE Media'
  <2>1. feed'.epoch = epoch' /\ w' = w
    BY <1>5, Invalidates DEF InvalidateEpoch
  <2>2. epoch \in Nat /\ epoch' \in Nat /\ epoch < epoch'
    BY <1>5, <1>0, Invalidates DEF EpochTyped
  <2>3. Good(epoch) \subseteq Good(epoch')
    BY <2>2, GoodGrows
  <2>4. w.media \in Nat
    BY <1>0 DEF WorkerTyped, Locals
  <2> QED BY <2>1, <2>2, <2>3, <2>4 DEF Media, Holds, OnLine
<1>6. ASSUME RequestStop PROVE Media'
  BY <1>6, <1>0 DEF Media, Place, HeaderTyped, EpochTyped, Holds, WorkerTyped,
       Locals, OnLine, Looping, Talking, Reaching, Away, Shutting,
       RequestStop, StopQueue, lifeVars, epochVars, ackVars, shedVars,
       headerVars, queueVars, sharedVars, Go, Local
<1>7. ASSUME Join PROVE Media'
  BY <1>7, <1>0 DEF Media, Place, HeaderTyped, EpochTyped, Holds, WorkerTyped,
       Locals, OnLine, Looping, Talking, Reaching, Away, Shutting, Join,
       lifeVars, epochVars, ackVars, shedVars, headerVars, queueVars,
       sharedVars, Go, Local
<1>8. ASSUME WatchdogExpires PROVE Media'
  BY <1>8, <1>0 DEF Media, Place, HeaderTyped, EpochTyped, Holds, WorkerTyped,
       Locals, OnLine, Looping, Talking, Reaching, Away, Shutting,
       WatchdogExpires, lifeVars, epochVars, ackVars, shedVars, headerVars,
       queueVars, sharedVars, Go, Local
<1>9. ASSUME WatchdogInterrupts PROVE Media'
  BY <1>9, <1>0 DEF Media, Place, HeaderTyped, EpochTyped, Holds, WorkerTyped,
       Locals, OnLine, Looping, Talking, Reaching, Away, Shutting,
       WatchdogInterrupts, lifeVars, epochVars, ackVars, shedVars, headerVars,
       queueVars, sharedVars, Go, Local
<1>10. ASSUME Dial PROVE Media'
  BY <1>10, <1>0 DEF Media, Place, HeaderTyped, EpochTyped, Holds,
       WorkerTyped, Locals, OnLine, Looping, Talking, Reaching, Away,
       Shutting, Dial, BeginIO, lifeVars, epochVars, ackVars, shedVars,
       headerVars, queueVars, sharedVars, Go, Local
<1>11. ASSUME Connected PROVE Media'
  BY <1>11, <1>0 DEF Media, Place, HeaderTyped, EpochTyped, Holds,
       WorkerTyped, Locals, OnLine, Looping, Talking, Reaching, Away,
       Shutting, Connected, Acked, KeepTransport, SilentWire, lifeVars,
       epochVars, ackVars, shedVars, headerVars, queueVars, sharedVars, Go,
       Local
<1>12. ASSUME ConnectFails PROVE Media'
  BY <1>12, <1>0 DEF Media, Place, HeaderTyped, EpochTyped, Holds,
       WorkerTyped, Locals, OnLine, Looping, Talking, Reaching, Away,
       Shutting, ConnectFails, Acked, LoseTransport, lifeVars, epochVars,
       ackVars, shedVars, headerVars, queueVars, sharedVars, Go, Local
<1>13. ASSUME Send PROVE Media'
  BY <1>13, <1>0 DEF Media, Place, HeaderTyped, EpochTyped, Holds,
       WorkerTyped, Locals, OnLine, Looping, Talking, Reaching, Away,
       Shutting, Send, BeginIO, lifeVars, epochVars, ackVars, shedVars,
       headerVars, queueVars, sharedVars, Go, Local
<1>14. ASSUME Sent PROVE Media'
  BY <1>14, <1>0 DEF Media, Place, HeaderTyped, EpochTyped, Holds,
       WorkerTyped, Locals, OnLine, Looping, Talking, Reaching, Away,
       Shutting, Sent, Acked, KeepTransport, lifeVars, epochVars, ackVars,
       shedVars, headerVars, queueVars, sharedVars, Go, Local
<1>15. ASSUME SendFails PROVE Media'
  BY <1>15, <1>0 DEF Media, Place, HeaderTyped, EpochTyped, Holds,
       WorkerTyped, Locals, OnLine, Looping, Talking, Reaching, Away,
       Shutting, SendFails, Acked, LoseTransport, lifeVars, epochVars,
       ackVars, shedVars, headerVars, queueVars, sharedVars, Go, Local
<1>16. ASSUME ReadHeaders PROVE Media'
  BY <1>16, <1>0 DEF Media, Place, HeaderTyped, EpochTyped, Holds,
       WorkerTyped, Locals, OnLine, Looping, Talking, Reaching, Away,
       Shutting, ReadHeaders, lifeVars, epochVars, ackVars, shedVars,
       headerVars, queueVars, sharedVars, Go, Local
<1>17. ASSUME ConnectPrimed PROVE Media'
  BY <1>17, <1>0 DEF Media, Place, HeaderTyped, EpochTyped, Holds,
       WorkerTyped, Locals, OnLine, Looping, Talking, Reaching, Away,
       Shutting, ConnectPrimed, Primed, lifeVars, epochVars, ackVars,
       shedVars, headerVars, queueVars, sharedVars, Go, Local
<1>18. ASSUME Close PROVE Media'
  BY <1>18, <1>0 DEF Media, Place, HeaderTyped, EpochTyped, Holds,
       WorkerTyped, Locals, OnLine, Looping, Talking, Reaching, Away,
       Shutting, Close, BeginIO, lifeVars, epochVars, ackVars, shedVars,
       headerVars, queueVars, sharedVars, Go, Local
<1>19. ASSUME Closed PROVE Media'
  BY <1>19, <1>0 DEF Media, Place, HeaderTyped, EpochTyped, Holds,
       WorkerTyped, Locals, OnLine, Looping, Talking, Reaching, Away,
       Shutting, Closed, Acked, LoseTransport, lifeVars, epochVars, ackVars,
       shedVars, headerVars, queueVars, sharedVars, Go, Local
<1>20. ASSUME Reconnect PROVE Media'
  BY <1>20, <1>0 DEF Media, Place, HeaderTyped, EpochTyped, Holds,
       WorkerTyped, Locals, OnLine, Looping, Talking, Reaching, Away,
       Shutting, Reconnect, ReconnectQueue, lifeVars, epochVars, ackVars,
       shedVars, headerVars, queueVars, sharedVars, Go, Local
<1>21. ASSUME TakeCancellation PROVE Media'
  BY <1>21, <1>0 DEF Media, Place, HeaderTyped, EpochTyped, Holds,
       WorkerTyped, Locals, OnLine, Looping, Talking, Reaching, Away,
       Shutting, TakeCancellation, lifeVars, epochVars, ackVars, shedVars,
       headerVars, queueVars, sharedVars, Go, Local
<1>22. ASSUME ReplaceTransport PROVE Media'
  BY <1>22, <1>0 DEF Media, Place, HeaderTyped, EpochTyped, Holds,
       WorkerTyped, Locals, OnLine, Looping, Talking, Reaching, Away,
       Shutting, ReplaceTransport, Fresh, lifeVars, epochVars, ackVars,
       shedVars, headerVars, queueVars, sharedVars, Go, Local
<1>23. ASSUME ReplaceFails PROVE Media'
  BY <1>23, <1>0 DEF Media, Place, HeaderTyped, EpochTyped, Holds,
       WorkerTyped, Locals, OnLine, Looping, Talking, Reaching, Away,
       Shutting, ReplaceFails, EndResume, AckDropped, KeepPending, lifeVars,
       epochVars, ackVars, shedVars, headerVars, queueVars, sharedVars, Go,
       Local
<1>24. ASSUME Retry PROVE Media'
  BY <1>24, <1>0 DEF Media, Place, HeaderTyped, EpochTyped, Holds,
       WorkerTyped, Locals, OnLine, Looping, Talking, Reaching, Away,
       Shutting, Retry, lifeVars, epochVars, ackVars, shedVars, headerVars,
       queueVars, sharedVars, Go, Local
<1>25. ASSUME Delayed PROVE Media'
  BY <1>25, <1>0 DEF Media, Place, HeaderTyped, EpochTyped, Holds,
       WorkerTyped, Locals, OnLine, Looping, Talking, Reaching, Away,
       Shutting, Delayed, lifeVars, epochVars, ackVars, shedVars, headerVars,
       queueVars, sharedVars, Go, Local
<1>26. ASSUME RetryEnds PROVE Media'
  BY <1>26, <1>0 DEF Media, Place, HeaderTyped, EpochTyped, Holds,
       WorkerTyped, Locals, OnLine, Looping, Talking, Reaching, Away,
       Shutting, RetryEnds, lifeVars, epochVars, ackVars, shedVars,
       headerVars, queueVars, sharedVars, Go, Local
<1>27. ASSUME Exhausted PROVE Media'
  BY <1>27, <1>0 DEF Media, Place, HeaderTyped, EpochTyped, Holds,
       WorkerTyped, Locals, OnLine, Looping, Talking, Reaching, Away,
       Shutting, Exhausted, EndResume, AckDropped, KeepPending, lifeVars,
       epochVars, ackVars, shedVars, headerVars, queueVars, sharedVars, Go,
       Local
<1>28. ASSUME AttemptFailed PROVE Media'
  BY <1>28, <1>0 DEF Media, Place, HeaderTyped, EpochTyped, Holds,
       WorkerTyped, Locals, OnLine, Looping, Talking, Reaching, Away,
       Shutting, AttemptFailed, EndResume, AckDropped, KeepPending, lifeVars,
       epochVars, ackVars, shedVars, headerVars, queueVars, sharedVars, Go,
       Local
<1>29. ASSUME Redialled PROVE Media'
  BY <1>29, <1>0 DEF Media, Place, HeaderTyped, EpochTyped, Holds,
       WorkerTyped, Locals, OnLine, Looping, Talking, Reaching, Away,
       Shutting, Redialled, Rejoin, lifeVars, epochVars, ackVars, shedVars,
       headerVars, queueVars, sharedVars, Go, Local
<1>30. ASSUME Booted PROVE Media'
  BY <1>30, <1>0, Boots DEF Booted, Media, Place, Holds, OnLine, Talking, Looping,
     epochVars
<1>31. ASSUME GiveUp PROVE Media'
  BY <1>31, <1>0 DEF Media, Place, HeaderTyped, EpochTyped, Holds,
       WorkerTyped, Locals, OnLine, Looping, Talking, Reaching, Away,
       Shutting, GiveUp, lifeVars, epochVars, ackVars, shedVars, headerVars,
       queueVars, sharedVars, Go, Local
<1>32. ASSUME Fail PROVE Media'
  BY <1>32, <1>0 DEF Media, Place, HeaderTyped, EpochTyped, Holds,
       WorkerTyped, Locals, OnLine, Looping, Talking, Reaching, Away,
       Shutting, Fail, lifeVars, epochVars, ackVars, shedVars, headerVars,
       queueVars, sharedVars, Go, Local
<1>33. ASSUME CloseQueue PROVE Media'
  BY <1>33, <1>0 DEF Media, Place, HeaderTyped, EpochTyped, Holds,
       WorkerTyped, Locals, OnLine, Looping, Talking, Reaching, Away,
       Shutting, CloseQueue, lifeVars, epochVars, ackVars, shedVars,
       headerVars, queueVars, sharedVars, Go, Local
<1>34. ASSUME Pop PROVE Media'
  <2>1. w' = [w EXCEPT !.pc = "popped", !.tag = Head(queue)] /\ epoch' = epoch /\ feed' = feed
    BY <1>34 DEF Pop, epochVars
  <2>2. w'.pc = "popped" /\ w'.tag = Head(queue) /\ w'.media = w.media
    BY <2>1, <1>0 DEF WorkerTyped, Locals
  <2>3. Head(queue) \in Good(epoch)
    BY <1>34, <1>0, GoodTags DEF Pop
  <2> QED BY <2>1, <2>2, <2>3 DEF Media, Talking
<1>35. ASSUME Leave PROVE Media'
  BY <1>35, <1>0 DEF Media, Place, HeaderTyped, EpochTyped, Holds,
       WorkerTyped, Locals, OnLine, Looping, Talking, Reaching, Away,
       Shutting, Leave, lifeVars, epochVars, ackVars, shedVars, headerVars,
       queueVars, sharedVars, Go, Local
<1>36. ASSUME Select PROVE Media'
  BY <1>36, <1>0 DEF Media, Place, HeaderTyped, EpochTyped, Holds,
       WorkerTyped, Locals, OnLine, Looping, Talking, Reaching, Away,
       Shutting, Select, lifeVars, epochVars, ackVars, shedVars, headerVars,
       queueVars, sharedVars, Go, Local
<1>37. ASSUME LoopPrimed PROVE Media'
  <2>1. w.pc = "wrote" /\ OnLine /\ epoch' = epoch /\ feed' = feed
    BY <1>37 DEF LoopPrimed, OnLine, epochVars
  <2>2. Holds /\ w.media = w.tag.epoch
    BY <2>1 DEF Holds, Talking, Media
  <2>3. w'.tag = w.tag /\ w'.media = w.media /\ w'.redial = w.redial /\ w'.boot = w.boot
    <3>1. CASE w.tag.epoch # epoch
      BY <1>37, <1>0, <3>1 DEF LoopPrimed, Go, WorkerTyped, Locals
    <3>2. CASE w.tag.epoch = epoch
      BY <1>37, <1>0, <3>2 DEF LoopPrimed, WorkerTyped, Locals
    <3> QED BY <3>1, <3>2
  <2> QED BY <2>1, <2>2, <2>3 DEF Media, Holds, OnLine
<1>38. ASSUME TagWritten PROVE Media'
  BY <1>38, <1>0 DEF Media, Place, HeaderTyped, EpochTyped, Holds,
       WorkerTyped, Locals, OnLine, Looping, Talking, Reaching, Away,
       Shutting, TagWritten, TicketCounts, lifeVars, epochVars, ackVars,
       shedVars, headerVars, queueVars, sharedVars, Go, Local
<1>39. ASSUME Publish PROVE Media'
  BY <1>39, <1>0 DEF Media, Place, HeaderTyped, EpochTyped, Holds,
       WorkerTyped, Locals, OnLine, Looping, Talking, Reaching, Away,
       Shutting, Publish, Published, lifeVars, epochVars, ackVars, shedVars,
       headerVars, queueVars, sharedVars, Go, Local
<1>40. ASSUME Stopped PROVE Media'
  BY <1>40, <1>0 DEF Media, Place, HeaderTyped, EpochTyped, Holds,
       WorkerTyped, Locals, OnLine, Looping, Talking, Reaching, Away,
       Shutting, Stopped, vars, lifeVars, epochVars, ackVars, shedVars,
       headerVars, queueVars, sharedVars, Go, Local
<1>41. ASSUME UNCHANGED vars PROVE Media'
  BY <1>41, <1>0 DEF Media, Place, HeaderTyped, EpochTyped, Holds,
       WorkerTyped, Locals, OnLine, Looping, Talking, Reaching, Away,
       Shutting, vars, lifeVars, epochVars, ackVars, shedVars, headerVars,
       queueVars, sharedVars, Go, Local
<1> QED BY <1>1, <1>2, <1>3, <1>4, <1>5, <1>6, <1>7, <1>8, <1>9, <1>10,
     <1>11, <1>12, <1>13, <1>14, <1>15, <1>16, <1>17, <1>18, <1>19, <1>20,
     <1>21, <1>22, <1>23, <1>24, <1>25, <1>26, <1>27, <1>28, <1>29, <1>30,
     <1>31, <1>32, <1>33, <1>34, <1>35, <1>36, <1>37, <1>38, <1>39, <1>40,
     <1>41 DEF Next, Pipeline, Owner, Watchdog, Worker

\* Shedding, thinning and the limit keep the queue within MaxTags.
LEMMA QueuedStep ==
  ASSUME SenderConstants, Typed, Place, Media, Queued, [Next]_vars
  PROVE  Queued'
<1>0. /\ LifeTyped /\ EpochTyped /\ TicketTyped /\ HeaderTyped /\ WorkerTyped
      /\ WireTyped
  BY DEF Typed
<1>00. MaxTags \in Nat /\ Len(<<>>) <= MaxTags /\ \A e : <<>> \in Seq(Good(e))
  BY DEF SenderConstants
<1>1. ASSUME NEW kinds \in Batches, EnqueueDropped(kinds) PROVE Queued'
  <2>1. epoch' = feed.epoch /\ feed.epoch \in Nat /\ epoch <= feed.epoch /\ epoch \in Nat
    BY <1>1, <1>0, Enqueues DEF EpochTyped
  <2>2. queue \in Seq(Good(epoch')) /\ Len(queue) <= MaxTags
    BY <2>1, GoodSeqGrows DEF Queued
  <2> QED BY <1>1, <2>2 DEF EnqueueDropped, Queued
<1>2. ASSUME NEW kinds \in Batches, EnqueueRefused(kinds) PROVE Queued'
  <2>1. epoch' = feed.epoch /\ feed.epoch \in Nat /\ epoch <= feed.epoch /\ epoch \in Nat
    BY <1>2, <1>0, Enqueues DEF EpochTyped
  <2>2. queue \in Seq(Good(epoch')) /\ Len(queue) <= MaxTags
    BY <2>1, GoodSeqGrows DEF Queued
  <2> QED BY <1>2, <2>2 DEF EnqueueRefused, Queued
<1>3. ASSUME NEW kinds \in Batches, EnqueuePushed(kinds) PROVE Queued'
  <2>1. epoch' = feed.epoch /\ feed.epoch \in Nat /\ epoch <= feed.epoch /\ epoch \in Nat
    BY <1>3, <1>0, Enqueues DEF EpochTyped
  <2>2. queue \in Seq(Good(epoch')) /\ Len(queue) <= MaxTags
    BY <2>1, GoodSeqGrows DEF Queued
  <2>3. PICK q, r : /\ q = Relieved(Tags(kinds)).queue /\ r = FirstTry(Tags(kinds)).kept
    OBVIOUS
  <2>4. q \in Seq(Good(epoch')) /\ r \in Seq(Good(epoch'))
    BY <2>1, <2>3, EnqueueKeeps DEF Kept
  <2>5. queue' = q \o r /\ Len(q) + Len(r) <= MaxTags
    BY <1>3, <2>3 DEF EnqueuePushed, Fits
  <2> QED BY <2>4, <2>5 DEF Queued
<1>4. ASSUME NEW kinds \in Batches, EnqueueFull(kinds) PROVE Queued'
  <2>1. epoch' = feed.epoch /\ feed.epoch \in Nat /\ epoch <= feed.epoch /\ epoch \in Nat
    BY <1>4, <1>0, Enqueues DEF EpochTyped
  <2>2. queue \in Seq(Good(epoch')) /\ Len(queue) <= MaxTags
    BY <2>1, GoodSeqGrows DEF Queued
  <2>3. PICK q, r : /\ q = Emptied(Tags(kinds)).queue /\ r = SecondTry(Tags(kinds)).kept
    OBVIOUS
  <2>4. /\ q \in Seq(Good(epoch')) /\ r \in Seq(Good(epoch'))
        /\ Len(q) <= Len(queue)
    BY <2>1, <2>3, EnqueueKeeps DEF Kept
  <2>5. \/ queue' = q \o r /\ Len(q) + Len(r) <= MaxTags
        \/ queue' = q \o <<>>
    BY <1>4, <2>3 DEF EnqueueFull, Fits
  <2>6. Len(q) <= MaxTags
    BY <2>2, <2>4, <1>00
  <2>7. q \o <<>> = q
    BY <2>4
  <2>8. CASE queue' = q \o r /\ Len(q) + Len(r) <= MaxTags
    BY <2>4, <2>8 DEF Queued
  <2> QED BY <2>4, <2>5, <2>6, <2>7, <2>8 DEF Queued
<1>5. ASSUME InvalidateEpoch PROVE Queued'
  BY <1>5, <1>00, Invalidates DEF Queued
<1>6. ASSUME RequestStop PROVE Queued'
  <2>1. epoch' = epoch /\ queue' = <<>>
    BY <1>6 DEF RequestStop, StopQueue, epochVars
  <2> QED BY <2>1, <1>00 DEF Queued
<1>7. ASSUME Join PROVE Queued'
  BY <1>7, <1>0 DEF Queued, Join, lifeVars, epochVars, ackVars, shedVars,
       headerVars, queueVars, sharedVars, Go, Local
<1>8. ASSUME WatchdogExpires PROVE Queued'
  BY <1>8, <1>0 DEF Queued, WatchdogExpires, lifeVars, epochVars, ackVars,
       shedVars, headerVars, queueVars, sharedVars, Go, Local
<1>9. ASSUME WatchdogInterrupts PROVE Queued'
  BY <1>9, <1>0 DEF Queued, WatchdogInterrupts, lifeVars, epochVars, ackVars,
       shedVars, headerVars, queueVars, sharedVars, Go, Local
<1>10. ASSUME Dial PROVE Queued'
  BY <1>10, <1>0 DEF Queued, Dial, BeginIO, lifeVars, epochVars, ackVars,
       shedVars, headerVars, queueVars, sharedVars, Go, Local
<1>11. ASSUME Connected PROVE Queued'
  BY <1>11, <1>0 DEF Queued, Connected, Acked, KeepTransport, SilentWire,
       lifeVars, epochVars, ackVars, shedVars, headerVars, queueVars,
       sharedVars, Go, Local
<1>12. ASSUME ConnectFails PROVE Queued'
  BY <1>12, <1>0 DEF Queued, ConnectFails, Acked, LoseTransport, lifeVars,
       epochVars, ackVars, shedVars, headerVars, queueVars, sharedVars, Go,
       Local
<1>13. ASSUME Send PROVE Queued'
  BY <1>13, <1>0 DEF Queued, Send, BeginIO, lifeVars, epochVars, ackVars,
       shedVars, headerVars, queueVars, sharedVars, Go, Local
<1>14. ASSUME Sent PROVE Queued'
  BY <1>14, <1>0 DEF Queued, Sent, Acked, KeepTransport, lifeVars, epochVars,
       ackVars, shedVars, headerVars, queueVars, sharedVars, Go, Local
<1>15. ASSUME SendFails PROVE Queued'
  BY <1>15, <1>0 DEF Queued, SendFails, Acked, LoseTransport, lifeVars,
       epochVars, ackVars, shedVars, headerVars, queueVars, sharedVars, Go,
       Local
<1>16. ASSUME ReadHeaders PROVE Queued'
  BY <1>16, <1>0 DEF Queued, ReadHeaders, lifeVars, epochVars, ackVars,
       shedVars, headerVars, queueVars, sharedVars, Go, Local
<1>17. ASSUME ConnectPrimed PROVE Queued'
  BY <1>17, <1>0 DEF Queued, ConnectPrimed, Primed, lifeVars, epochVars,
       ackVars, shedVars, headerVars, queueVars, sharedVars, Go, Local
<1>18. ASSUME Close PROVE Queued'
  BY <1>18, <1>0 DEF Queued, Close, BeginIO, lifeVars, epochVars, ackVars,
       shedVars, headerVars, queueVars, sharedVars, Go, Local
<1>19. ASSUME Closed PROVE Queued'
  BY <1>19, <1>0 DEF Queued, Closed, Acked, LoseTransport, lifeVars,
       epochVars, ackVars, shedVars, headerVars, queueVars, sharedVars, Go,
       Local
<1>20. ASSUME Reconnect PROVE Queued'
  <2>1. epoch' = epoch /\ (queue' = queue \/ queue' = <<>>)
    BY <1>20 DEF Reconnect, ReconnectQueue
  <2> QED BY <2>1, <1>00 DEF Queued
<1>21. ASSUME TakeCancellation PROVE Queued'
  BY <1>21, <1>0 DEF Queued, TakeCancellation, lifeVars, epochVars, ackVars,
       shedVars, headerVars, queueVars, sharedVars, Go, Local
<1>22. ASSUME ReplaceTransport PROVE Queued'
  BY <1>22, <1>0 DEF Queued, ReplaceTransport, Fresh, lifeVars, epochVars,
       ackVars, shedVars, headerVars, queueVars, sharedVars, Go, Local
<1>23. ASSUME ReplaceFails PROVE Queued'
  <2>1. epoch' = epoch /\ (queue' = queue \/ queue' = <<>>)
    BY <1>23 DEF ReplaceFails, EndResume, AckDropped, KeepPending, Local, sharedVars,
       epochVars, queueVars
  <2> QED BY <2>1, <1>00 DEF Queued
<1>24. ASSUME Retry PROVE Queued'
  BY <1>24, <1>0 DEF Queued, Retry, lifeVars, epochVars, ackVars, shedVars,
       headerVars, queueVars, sharedVars, Go, Local
<1>25. ASSUME Delayed PROVE Queued'
  BY <1>25, <1>0 DEF Queued, Delayed, lifeVars, epochVars, ackVars, shedVars,
       headerVars, queueVars, sharedVars, Go, Local
<1>26. ASSUME RetryEnds PROVE Queued'
  BY <1>26, <1>0 DEF Queued, RetryEnds, lifeVars, epochVars, ackVars,
       shedVars, headerVars, queueVars, sharedVars, Go, Local
<1>27. ASSUME Exhausted PROVE Queued'
  <2>1. epoch' = epoch /\ (queue' = queue \/ queue' = <<>>)
    BY <1>27 DEF Exhausted, EndResume, AckDropped, KeepPending, Local, sharedVars,
       epochVars, queueVars
  <2> QED BY <2>1, <1>00 DEF Queued
<1>28. ASSUME AttemptFailed PROVE Queued'
  <2>1. epoch' = epoch /\ (queue' = queue \/ queue' = <<>>)
    BY <1>28 DEF AttemptFailed, EndResume, AckDropped, KeepPending, Local, sharedVars,
       epochVars, queueVars
  <2> QED BY <2>1, <1>00 DEF Queued
<1>29. ASSUME Redialled PROVE Queued'
  BY <1>29, <1>0 DEF Queued, Redialled, Rejoin, lifeVars, epochVars, ackVars,
       shedVars, headerVars, queueVars, sharedVars, Go, Local
<1>30. ASSUME Booted PROVE Queued'
  BY <1>30, <1>0 DEF Queued, Booted, BootInTime, lifeVars, epochVars, ackVars,
       shedVars, headerVars, queueVars, sharedVars, Go, Local
<1>31. ASSUME GiveUp PROVE Queued'
  BY <1>31, <1>0 DEF Queued, GiveUp, lifeVars, epochVars, ackVars, shedVars,
       headerVars, queueVars, sharedVars, Go, Local
<1>32. ASSUME Fail PROVE Queued'
  BY <1>32, <1>0 DEF Queued, Fail, lifeVars, epochVars, ackVars, shedVars,
       headerVars, queueVars, sharedVars, Go, Local
<1>33. ASSUME CloseQueue PROVE Queued'
  <2>1. epoch' = epoch /\ queue' = <<>>
    BY <1>33 DEF CloseQueue, epochVars
  <2> QED BY <2>1, <1>00 DEF Queued
<1>34. ASSUME Pop PROVE Queued'
  BY <1>34, <1>0 DEF Queued, Pop, lifeVars, epochVars, ackVars, shedVars,
       headerVars, queueVars, sharedVars, Go, Local
<1>35. ASSUME Leave PROVE Queued'
  BY <1>35, <1>0 DEF Queued, Leave, lifeVars, epochVars, ackVars, shedVars,
       headerVars, queueVars, sharedVars, Go, Local
<1>36. ASSUME Select PROVE Queued'
  BY <1>36, <1>0 DEF Queued, Select, lifeVars, epochVars, ackVars, shedVars,
       headerVars, queueVars, sharedVars, Go, Local
<1>37. ASSUME LoopPrimed PROVE Queued'
  BY <1>37, <1>0 DEF Queued, LoopPrimed, Primed, Joins, lifeVars, epochVars,
       ackVars, shedVars, headerVars, queueVars, sharedVars, Go, Local
<1>38. ASSUME TagWritten PROVE Queued'
  BY <1>38, <1>0 DEF Queued, TagWritten, TicketCounts, lifeVars, epochVars,
       ackVars, shedVars, headerVars, queueVars, sharedVars, Go, Local
<1>39. ASSUME Publish PROVE Queued'
  BY <1>39, <1>0 DEF Queued, Publish, Published, lifeVars, epochVars, ackVars,
       shedVars, headerVars, queueVars, sharedVars, Go, Local
<1>40. ASSUME Stopped PROVE Queued'
  BY <1>40, <1>0 DEF Queued, Stopped, vars, lifeVars, epochVars, ackVars,
       shedVars, headerVars, queueVars, sharedVars, Go, Local
<1>41. ASSUME UNCHANGED vars PROVE Queued'
  BY <1>41, <1>0 DEF Queued, vars, lifeVars, epochVars, ackVars, shedVars,
       headerVars, queueVars, sharedVars, Go, Local
<1> QED BY <1>1, <1>2, <1>3, <1>4, <1>5, <1>6, <1>7, <1>8, <1>9, <1>10,
     <1>11, <1>12, <1>13, <1>14, <1>15, <1>16, <1>17, <1>18, <1>19, <1>20,
     <1>21, <1>22, <1>23, <1>24, <1>25, <1>26, <1>27, <1>28, <1>29, <1>30,
     <1>31, <1>32, <1>33, <1>34, <1>35, <1>36, <1>37, <1>38, <1>39, <1>40,
     <1>41 DEF Next, Pipeline, Owner, Watchdog, Worker

\* state_ against the worker: Reconnecting exactly while it is away.
LEMMA LifeStep ==
  ASSUME SenderConstants, LifeTyped, EpochTyped, TicketTyped, HeaderTyped, WorkerTyped, WireTyped, Place, Life, [Next]_vars
  PROVE  Life'
<1>1. ASSUME NEW kinds \in Batches, EnqueueDropped(kinds) PROVE Life'
  BY <1>1 DEF Life, LifeTyped, Place, Over, WorkerTyped, Locals, OnLine,
       Looping, Talking, Reaching, Away, Shutting, EnqueueDropped, Accept, Admit,
       lifeVars, epochVars, ackVars, shedVars, headerVars, queueVars,
       sharedVars, Go, Local
<1>2. ASSUME NEW kinds \in Batches, EnqueueRefused(kinds) PROVE Life'
  BY <1>2 DEF Life, LifeTyped, Place, Over, WorkerTyped, Locals, OnLine,
       Looping, Talking, Reaching, Away, Shutting, EnqueueRefused, Admit,
       lifeVars, epochVars, ackVars, shedVars, headerVars, queueVars,
       sharedVars, Go, Local
<1>3. ASSUME NEW kinds \in Batches, EnqueuePushed(kinds) PROVE Life'
  BY <1>3 DEF Life, LifeTyped, Place, Over, WorkerTyped, Locals, OnLine,
       Looping, Talking, Reaching, Away, Shutting, EnqueuePushed, Accept, Admit,
       lifeVars, epochVars, ackVars, shedVars, headerVars, queueVars,
       sharedVars, Go, Local
<1>4. ASSUME NEW kinds \in Batches, EnqueueFull(kinds) PROVE Life'
  BY <1>4 DEF Life, LifeTyped, Place, Over, WorkerTyped, Locals, OnLine,
       Looping, Talking, Reaching, Away, Shutting, EnqueueFull, Accept, Admit,
       lifeVars, epochVars, ackVars, shedVars, headerVars, queueVars,
       sharedVars, Go, Local
<1>5. ASSUME InvalidateEpoch PROVE Life'
  BY <1>5 DEF Life, LifeTyped, Place, Over, WorkerTyped, Locals, OnLine,
       Looping, Talking, Reaching, Away, Shutting, InvalidateEpoch, Fence,
       lifeVars, epochVars, ackVars, shedVars, headerVars, queueVars,
       sharedVars, Go, Local
<1>6. ASSUME RequestStop PROVE Life'
  BY <1>6 DEF Life, LifeTyped, Place, Over, WorkerTyped, Locals, OnLine,
       Looping, Talking, Reaching, Away, Shutting, RequestStop, StopQueue,
       lifeVars, epochVars, ackVars, shedVars, headerVars, queueVars,
       sharedVars, Go, Local
<1>7. ASSUME Join PROVE Life'
  BY <1>7 DEF Life, LifeTyped, Place, Over, WorkerTyped, Locals, OnLine,
       Looping, Talking, Reaching, Away, Shutting, Join, lifeVars, epochVars,
       ackVars, shedVars, headerVars, queueVars, sharedVars, Go, Local
<1>8. ASSUME WatchdogExpires PROVE Life'
  BY <1>8 DEF Life, LifeTyped, Place, Over, WorkerTyped, Locals, OnLine,
       Looping, Talking, Reaching, Away, Shutting, WatchdogExpires, lifeVars,
       epochVars, ackVars, shedVars, headerVars, queueVars, sharedVars, Go,
       Local
<1>9. ASSUME WatchdogInterrupts PROVE Life'
  BY <1>9 DEF Life, LifeTyped, Place, Over, WorkerTyped, Locals, OnLine,
       Looping, Talking, Reaching, Away, Shutting, WatchdogInterrupts,
       lifeVars, epochVars, ackVars, shedVars, headerVars, queueVars,
       sharedVars, Go, Local
<1>10. ASSUME Dial PROVE Life'
  BY <1>10 DEF Life, LifeTyped, Place, Over, WorkerTyped, Locals, OnLine,
       Looping, Talking, Reaching, Away, Shutting, Dial, BeginIO, lifeVars,
       epochVars, ackVars, shedVars, headerVars, queueVars, sharedVars, Go,
       Local
<1>11. ASSUME Connected PROVE Life'
  BY <1>11 DEF Life, LifeTyped, Place, Over, WorkerTyped, Locals, OnLine,
       Looping, Talking, Reaching, Away, Shutting, Connected, Acked,
       KeepTransport, SilentWire, lifeVars, epochVars, ackVars, shedVars,
       headerVars, queueVars, sharedVars, Go, Local
<1>12. ASSUME ConnectFails PROVE Life'
  BY <1>12 DEF Life, LifeTyped, Place, Over, WorkerTyped, Locals, OnLine,
       Looping, Talking, Reaching, Away, Shutting, ConnectFails, Acked,
       LoseTransport, lifeVars, epochVars, ackVars, shedVars, headerVars,
       queueVars, sharedVars, Go, Local
<1>13. ASSUME Send PROVE Life'
  BY <1>13 DEF Life, LifeTyped, Place, Over, WorkerTyped, Locals, OnLine,
       Looping, Talking, Reaching, Away, Shutting, Send, BeginIO, lifeVars,
       epochVars, ackVars, shedVars, headerVars, queueVars, sharedVars, Go,
       Local
<1>14. ASSUME Sent PROVE Life'
  BY <1>14 DEF Life, LifeTyped, Place, Over, WorkerTyped, Locals, OnLine,
       Looping, Talking, Reaching, Away, Shutting, Sent, Acked, KeepTransport,
       lifeVars, epochVars, ackVars, shedVars, headerVars, queueVars,
       sharedVars, Go, Local
<1>15. ASSUME SendFails PROVE Life'
  BY <1>15 DEF Life, LifeTyped, Place, Over, WorkerTyped, Locals, OnLine,
       Looping, Talking, Reaching, Away, Shutting, SendFails, Acked,
       LoseTransport, lifeVars, epochVars, ackVars, shedVars, headerVars,
       queueVars, sharedVars, Go, Local
<1>16. ASSUME ReadHeaders PROVE Life'
  BY <1>16 DEF Life, LifeTyped, Place, Over, WorkerTyped, Locals, OnLine,
       Looping, Talking, Reaching, Away, Shutting, ReadHeaders, lifeVars,
       epochVars, ackVars, shedVars, headerVars, queueVars, sharedVars, Go,
       Local
<1>17. ASSUME ConnectPrimed PROVE Life'
  BY <1>17 DEF Life, LifeTyped, Place, Over, WorkerTyped, Locals, OnLine,
       Looping, Talking, Reaching, Away, Shutting, ConnectPrimed, Primed,
       lifeVars, epochVars, ackVars, shedVars, headerVars, queueVars,
       sharedVars, Go, Local
<1>18. ASSUME Close PROVE Life'
  BY <1>18 DEF Life, LifeTyped, Place, Over, WorkerTyped, Locals, OnLine,
       Looping, Talking, Reaching, Away, Shutting, Close, BeginIO, lifeVars,
       epochVars, ackVars, shedVars, headerVars, queueVars, sharedVars, Go,
       Local
<1>19. ASSUME Closed PROVE Life'
  BY <1>19 DEF Life, LifeTyped, Place, Over, WorkerTyped, Locals, OnLine,
       Looping, Talking, Reaching, Away, Shutting, Closed, Acked,
       LoseTransport, lifeVars, epochVars, ackVars, shedVars, headerVars,
       queueVars, sharedVars, Go, Local
<1>20. ASSUME Reconnect PROVE Life'
  BY <1>20 DEF Life, LifeTyped, Place, Over, WorkerTyped, Locals, OnLine,
       Looping, Talking, Reaching, Away, Shutting, Reconnect, ReconnectQueue,
       lifeVars, epochVars, ackVars, shedVars, headerVars, queueVars,
       sharedVars, Go, Local
<1>21. ASSUME TakeCancellation PROVE Life'
  BY <1>21 DEF Life, LifeTyped, Place, Over, WorkerTyped, Locals, OnLine,
       Looping, Talking, Reaching, Away, Shutting, TakeCancellation, lifeVars,
       epochVars, ackVars, shedVars, headerVars, queueVars, sharedVars, Go,
       Local
<1>22. ASSUME ReplaceTransport PROVE Life'
  BY <1>22 DEF Life, LifeTyped, Place, Over, WorkerTyped, Locals, OnLine,
       Looping, Talking, Reaching, Away, Shutting, ReplaceTransport, Fresh,
       lifeVars, epochVars, ackVars, shedVars, headerVars, queueVars,
       sharedVars, Go, Local
<1>23. ASSUME ReplaceFails PROVE Life'
  BY <1>23 DEF Life, LifeTyped, Place, Over, WorkerTyped, Locals, OnLine,
       Looping, Talking, Reaching, Away, Shutting, ReplaceFails, EndResume,
       AckDropped, KeepPending, lifeVars, epochVars, ackVars, shedVars,
       headerVars, queueVars, sharedVars, Go, Local
<1>24. ASSUME Retry PROVE Life'
  BY <1>24 DEF Life, LifeTyped, Place, Over, WorkerTyped, Locals, OnLine,
       Looping, Talking, Reaching, Away, Shutting, Retry, lifeVars, epochVars,
       ackVars, shedVars, headerVars, queueVars, sharedVars, Go, Local
<1>25. ASSUME Delayed PROVE Life'
  BY <1>25 DEF Life, LifeTyped, Place, Over, WorkerTyped, Locals, OnLine,
       Looping, Talking, Reaching, Away, Shutting, Delayed, lifeVars,
       epochVars, ackVars, shedVars, headerVars, queueVars, sharedVars, Go,
       Local
<1>26. ASSUME RetryEnds PROVE Life'
  BY <1>26 DEF Life, LifeTyped, Place, Over, WorkerTyped, Locals, OnLine,
       Looping, Talking, Reaching, Away, Shutting, RetryEnds, lifeVars,
       epochVars, ackVars, shedVars, headerVars, queueVars, sharedVars, Go,
       Local
<1>27. ASSUME Exhausted PROVE Life'
  BY <1>27 DEF Life, LifeTyped, Place, Over, WorkerTyped, Locals, OnLine,
       Looping, Talking, Reaching, Away, Shutting, Exhausted, EndResume,
       AckDropped, KeepPending, lifeVars, epochVars, ackVars, shedVars,
       headerVars, queueVars, sharedVars, Go, Local
<1>28. ASSUME AttemptFailed PROVE Life'
  BY <1>28 DEF Life, LifeTyped, Place, Over, WorkerTyped, Locals, OnLine,
       Looping, Talking, Reaching, Away, Shutting, AttemptFailed, EndResume,
       AckDropped, KeepPending, lifeVars, epochVars, ackVars, shedVars,
       headerVars, queueVars, sharedVars, Go, Local
<1>29. ASSUME Redialled PROVE Life'
  BY <1>29 DEF Life, LifeTyped, Place, Over, WorkerTyped, Locals, OnLine,
       Looping, Talking, Reaching, Away, Shutting, Redialled, Rejoin,
       lifeVars, epochVars, ackVars, shedVars, headerVars, queueVars,
       sharedVars, Go, Local
<1>30. ASSUME Booted PROVE Life'
  BY <1>30 DEF Life, LifeTyped, Place, Over, WorkerTyped, Locals, OnLine,
       Looping, Talking, Reaching, Away, Shutting, Booted, BootInTime,
       lifeVars, epochVars, ackVars, shedVars, headerVars, queueVars,
       sharedVars, Go, Local
<1>31. ASSUME GiveUp PROVE Life'
  BY <1>31 DEF Life, LifeTyped, Place, Over, WorkerTyped, Locals, OnLine,
       Looping, Talking, Reaching, Away, Shutting, GiveUp, lifeVars,
       epochVars, ackVars, shedVars, headerVars, queueVars, sharedVars, Go,
       Local
<1>32. ASSUME Fail PROVE Life'
  BY <1>32 DEF Life, LifeTyped, Place, Over, WorkerTyped, Locals, OnLine,
       Looping, Talking, Reaching, Away, Shutting, Fail, lifeVars, epochVars,
       ackVars, shedVars, headerVars, queueVars, sharedVars, Go, Local
<1>33. ASSUME CloseQueue PROVE Life'
  BY <1>33 DEF Life, LifeTyped, Place, Over, WorkerTyped, Locals, OnLine,
       Looping, Talking, Reaching, Away, Shutting, CloseQueue, lifeVars,
       epochVars, ackVars, shedVars, headerVars, queueVars, sharedVars, Go,
       Local
<1>34. ASSUME Pop PROVE Life'
  BY <1>34 DEF Life, LifeTyped, Place, Over, WorkerTyped, Locals, OnLine,
       Looping, Talking, Reaching, Away, Shutting, Pop, lifeVars, epochVars,
       ackVars, shedVars, headerVars, queueVars, sharedVars, Go, Local
<1>35. ASSUME Leave PROVE Life'
  BY <1>35 DEF Life, LifeTyped, Place, Over, WorkerTyped, Locals, OnLine,
       Looping, Talking, Reaching, Away, Shutting, Leave, lifeVars, epochVars,
       ackVars, shedVars, headerVars, queueVars, sharedVars, Go, Local
<1>36. ASSUME Select PROVE Life'
  BY <1>36 DEF Life, LifeTyped, Place, Over, WorkerTyped, Locals, OnLine,
       Looping, Talking, Reaching, Away, Shutting, Select, lifeVars,
       epochVars, ackVars, shedVars, headerVars, queueVars, sharedVars, Go,
       Local
<1>37. ASSUME LoopPrimed PROVE Life'
  <2>1. w'.pc \in {"pop", "send"} /\ w'.redial = w.redial
    BY <1>37, Primes
  <2> QED BY <1>37, <2>1 DEF Life, Over, Shutting, LoopPrimed, lifeVars
<1>38. ASSUME TagWritten PROVE Life'
  BY <1>38 DEF Life, LifeTyped, Place, Over, WorkerTyped, Locals, OnLine,
       Looping, Talking, Reaching, Away, Shutting, TagWritten, TicketCounts,
       lifeVars, epochVars, ackVars, shedVars, headerVars, queueVars,
       sharedVars, Go, Local
<1>39. ASSUME Publish PROVE Life'
  BY <1>39 DEF Life, LifeTyped, Place, Over, WorkerTyped, Locals, OnLine,
       Looping, Talking, Reaching, Away, Shutting, Publish, Published,
       lifeVars, epochVars, ackVars, shedVars, headerVars, queueVars,
       sharedVars, Go, Local
<1>40. ASSUME Stopped PROVE Life'
  BY <1>40 DEF Life, LifeTyped, Place, Over, WorkerTyped, Locals, OnLine,
       Looping, Talking, Reaching, Away, Shutting, Stopped, vars, lifeVars,
       epochVars, ackVars, shedVars, headerVars, queueVars, sharedVars, Go,
       Local
<1>41. ASSUME UNCHANGED vars PROVE Life'
  BY <1>41 DEF Life, LifeTyped, Place, Over, WorkerTyped, Locals, OnLine,
       Looping, Talking, Reaching, Away, Shutting, vars, lifeVars, epochVars,
       ackVars, shedVars, headerVars, queueVars, sharedVars, Go, Local
<1> QED BY <1>1, <1>2, <1>3, <1>4, <1>5, <1>6, <1>7, <1>8, <1>9, <1>10,
     <1>11, <1>12, <1>13, <1>14, <1>15, <1>16, <1>17, <1>18, <1>19, <1>20,
     <1>21, <1>22, <1>23, <1>24, <1>25, <1>26, <1>27, <1>28, <1>29, <1>30,
     <1>31, <1>32, <1>33, <1>34, <1>35, <1>36, <1>37, <1>38, <1>39, <1>40,
     <1>41 DEF Next, Pipeline, Owner, Watchdog, Worker

\* The watchdog only interrupts a start.
LEMMA WatchedStep ==
  ASSUME SenderConstants, LifeTyped, EpochTyped, TicketTyped, HeaderTyped, WorkerTyped, WireTyped, Place, Life, Watched, [Next]_vars
  PROVE  Watched'
<1>1. ASSUME NEW kinds \in Batches, EnqueueDropped(kinds) PROVE Watched'
  BY <1>1 DEF Watched, LifeTyped, EpochTyped, Place, Over, WorkerTyped,
       Locals, OnLine, Looping, Talking, Reaching, Away, Shutting,
       EnqueueDropped, Accept, Admit, lifeVars, epochVars, ackVars, shedVars,
       headerVars, queueVars, sharedVars, Go, Local
<1>2. ASSUME NEW kinds \in Batches, EnqueueRefused(kinds) PROVE Watched'
  BY <1>2 DEF Watched, LifeTyped, EpochTyped, Place, Over, WorkerTyped,
       Locals, OnLine, Looping, Talking, Reaching, Away, Shutting,
       EnqueueRefused, Admit, lifeVars, epochVars, ackVars, shedVars,
       headerVars, queueVars, sharedVars, Go, Local
<1>3. ASSUME NEW kinds \in Batches, EnqueuePushed(kinds) PROVE Watched'
  BY <1>3 DEF Watched, LifeTyped, EpochTyped, Place, Over, WorkerTyped,
       Locals, OnLine, Looping, Talking, Reaching, Away, Shutting,
       EnqueuePushed, Accept, Admit, lifeVars, epochVars, ackVars, shedVars,
       headerVars, queueVars, sharedVars, Go, Local
<1>4. ASSUME NEW kinds \in Batches, EnqueueFull(kinds) PROVE Watched'
  BY <1>4 DEF Watched, LifeTyped, EpochTyped, Place, Over, WorkerTyped,
       Locals, OnLine, Looping, Talking, Reaching, Away, Shutting,
       EnqueueFull, Accept, Admit, lifeVars, epochVars, ackVars, shedVars, headerVars,
       queueVars, sharedVars, Go, Local
<1>5. ASSUME InvalidateEpoch PROVE Watched'
  BY <1>5 DEF Watched, LifeTyped, EpochTyped, Place, Over, WorkerTyped,
       Locals, OnLine, Looping, Talking, Reaching, Away, Shutting,
       InvalidateEpoch, Fence, lifeVars, epochVars, ackVars, shedVars,
       headerVars, queueVars, sharedVars, Go, Local
<1>6. ASSUME RequestStop PROVE Watched'
  BY <1>6 DEF Watched, LifeTyped, EpochTyped, Place, Over, WorkerTyped,
       Locals, OnLine, Looping, Talking, Reaching, Away, Shutting,
       RequestStop, StopQueue, lifeVars, epochVars, ackVars, shedVars,
       headerVars, queueVars, sharedVars, Go, Local
<1>7. ASSUME Join PROVE Watched'
  BY <1>7 DEF Watched, LifeTyped, EpochTyped, Place, Over, WorkerTyped,
       Locals, OnLine, Looping, Talking, Reaching, Away, Shutting, Join,
       lifeVars, epochVars, ackVars, shedVars, headerVars, queueVars,
       sharedVars, Go, Local
<1>8. ASSUME WatchdogExpires PROVE Watched'
  BY <1>8 DEF Watched, LifeTyped, EpochTyped, Place, Over, WorkerTyped,
       Locals, OnLine, Looping, Talking, Reaching, Away, Shutting,
       WatchdogExpires, lifeVars, epochVars, ackVars, shedVars, headerVars,
       queueVars, sharedVars, Go, Local
<1>9. ASSUME WatchdogInterrupts PROVE Watched'
  BY <1>9 DEF Watched, LifeTyped, EpochTyped, Place, Over, WorkerTyped,
       Locals, OnLine, Looping, Talking, Reaching, Away, Shutting,
       WatchdogInterrupts, lifeVars, epochVars, ackVars, shedVars, headerVars,
       queueVars, sharedVars, Go, Local
<1>10. ASSUME Dial PROVE Watched'
  BY <1>10 DEF Watched, LifeTyped, EpochTyped, Place, Over, WorkerTyped,
       Locals, OnLine, Looping, Talking, Reaching, Away, Shutting, Dial,
       BeginIO, lifeVars, epochVars, ackVars, shedVars, headerVars, queueVars,
       sharedVars, Go, Local
<1>11. ASSUME Connected PROVE Watched'
  BY <1>11 DEF Watched, LifeTyped, EpochTyped, Place, Over, WorkerTyped,
       Locals, OnLine, Looping, Talking, Reaching, Away, Shutting, Connected,
       Acked, KeepTransport, SilentWire, lifeVars, epochVars, ackVars,
       shedVars, headerVars, queueVars, sharedVars, Go, Local
<1>12. ASSUME ConnectFails PROVE Watched'
  BY <1>12 DEF Watched, LifeTyped, EpochTyped, Place, Over, WorkerTyped,
       Locals, OnLine, Looping, Talking, Reaching, Away, Shutting,
       ConnectFails, Acked, LoseTransport, lifeVars, epochVars, ackVars,
       shedVars, headerVars, queueVars, sharedVars, Go, Local
<1>13. ASSUME Send PROVE Watched'
  BY <1>13 DEF Watched, LifeTyped, EpochTyped, Place, Over, WorkerTyped,
       Locals, OnLine, Looping, Talking, Reaching, Away, Shutting, Send,
       BeginIO, lifeVars, epochVars, ackVars, shedVars, headerVars, queueVars,
       sharedVars, Go, Local
<1>14. ASSUME Sent PROVE Watched'
  BY <1>14 DEF Watched, LifeTyped, EpochTyped, Place, Over, WorkerTyped,
       Locals, OnLine, Looping, Talking, Reaching, Away, Shutting, Sent,
       Acked, KeepTransport, lifeVars, epochVars, ackVars, shedVars,
       headerVars, queueVars, sharedVars, Go, Local
<1>15. ASSUME SendFails PROVE Watched'
  BY <1>15 DEF Watched, LifeTyped, EpochTyped, Place, Over, WorkerTyped,
       Locals, OnLine, Looping, Talking, Reaching, Away, Shutting, SendFails,
       Acked, LoseTransport, lifeVars, epochVars, ackVars, shedVars,
       headerVars, queueVars, sharedVars, Go, Local
<1>16. ASSUME ReadHeaders PROVE Watched'
  BY <1>16 DEF Watched, LifeTyped, EpochTyped, Place, Over, WorkerTyped,
       Locals, OnLine, Looping, Talking, Reaching, Away, Shutting,
       ReadHeaders, lifeVars, epochVars, ackVars, shedVars, headerVars,
       queueVars, sharedVars, Go, Local
<1>17. ASSUME ConnectPrimed PROVE Watched'
  BY <1>17 DEF Watched, LifeTyped, EpochTyped, Place, Over, WorkerTyped,
       Locals, OnLine, Looping, Talking, Reaching, Away, Shutting,
       ConnectPrimed, Primed, lifeVars, epochVars, ackVars, shedVars,
       headerVars, queueVars, sharedVars, Go, Local
<1>18. ASSUME Close PROVE Watched'
  BY <1>18 DEF Watched, LifeTyped, EpochTyped, Place, Over, WorkerTyped,
       Locals, OnLine, Looping, Talking, Reaching, Away, Shutting, Close,
       BeginIO, lifeVars, epochVars, ackVars, shedVars, headerVars, queueVars,
       sharedVars, Go, Local
<1>19. ASSUME Closed PROVE Watched'
  BY <1>19 DEF Watched, LifeTyped, EpochTyped, Place, Over, WorkerTyped,
       Locals, OnLine, Looping, Talking, Reaching, Away, Shutting, Closed,
       Acked, LoseTransport, lifeVars, epochVars, ackVars, shedVars,
       headerVars, queueVars, sharedVars, Go, Local
<1>20. ASSUME Reconnect PROVE Watched'
  BY <1>20 DEF Watched, LifeTyped, EpochTyped, Place, Over, WorkerTyped,
       Locals, OnLine, Looping, Talking, Reaching, Away, Shutting, Reconnect,
       ReconnectQueue, lifeVars, epochVars, ackVars, shedVars, headerVars,
       queueVars, sharedVars, Go, Local
<1>21. ASSUME TakeCancellation PROVE Watched'
  BY <1>21 DEF Watched, LifeTyped, EpochTyped, Place, Over, WorkerTyped,
       Locals, OnLine, Looping, Talking, Reaching, Away, Shutting,
       TakeCancellation, lifeVars, epochVars, ackVars, shedVars, headerVars,
       queueVars, sharedVars, Go, Local
<1>22. ASSUME ReplaceTransport PROVE Watched'
  BY <1>22 DEF Watched, LifeTyped, EpochTyped, Place, Over, WorkerTyped,
       Locals, OnLine, Looping, Talking, Reaching, Away, Shutting,
       ReplaceTransport, Fresh, lifeVars, epochVars, ackVars, shedVars,
       headerVars, queueVars, sharedVars, Go, Local
<1>23. ASSUME ReplaceFails PROVE Watched'
  BY <1>23 DEF Watched, LifeTyped, EpochTyped, Place, Over, WorkerTyped,
       Locals, OnLine, Looping, Talking, Reaching, Away, Shutting,
       ReplaceFails, EndResume, AckDropped, KeepPending, lifeVars, epochVars,
       ackVars, shedVars, headerVars, queueVars, sharedVars, Go, Local
<1>24. ASSUME Retry PROVE Watched'
  BY <1>24 DEF Watched, LifeTyped, EpochTyped, Place, Over, WorkerTyped,
       Locals, OnLine, Looping, Talking, Reaching, Away, Shutting, Retry,
       lifeVars, epochVars, ackVars, shedVars, headerVars, queueVars,
       sharedVars, Go, Local
<1>25. ASSUME Delayed PROVE Watched'
  BY <1>25 DEF Watched, LifeTyped, EpochTyped, Place, Over, WorkerTyped,
       Locals, OnLine, Looping, Talking, Reaching, Away, Shutting, Delayed,
       lifeVars, epochVars, ackVars, shedVars, headerVars, queueVars,
       sharedVars, Go, Local
<1>26. ASSUME RetryEnds PROVE Watched'
  BY <1>26 DEF Watched, LifeTyped, EpochTyped, Place, Over, WorkerTyped,
       Locals, OnLine, Looping, Talking, Reaching, Away, Shutting, RetryEnds,
       lifeVars, epochVars, ackVars, shedVars, headerVars, queueVars,
       sharedVars, Go, Local
<1>27. ASSUME Exhausted PROVE Watched'
  BY <1>27 DEF Watched, LifeTyped, EpochTyped, Place, Over, WorkerTyped,
       Locals, OnLine, Looping, Talking, Reaching, Away, Shutting, Exhausted,
       EndResume, AckDropped, KeepPending, lifeVars, epochVars, ackVars,
       shedVars, headerVars, queueVars, sharedVars, Go, Local
<1>28. ASSUME AttemptFailed PROVE Watched'
  BY <1>28 DEF Watched, LifeTyped, EpochTyped, Place, Over, WorkerTyped,
       Locals, OnLine, Looping, Talking, Reaching, Away, Shutting,
       AttemptFailed, EndResume, AckDropped, KeepPending, lifeVars, epochVars,
       ackVars, shedVars, headerVars, queueVars, sharedVars, Go, Local
<1>29. ASSUME Redialled PROVE Watched'
  BY <1>29 DEF Watched, LifeTyped, EpochTyped, Place, Over, WorkerTyped,
       Locals, OnLine, Looping, Talking, Reaching, Away, Shutting, Redialled,
       Rejoin, lifeVars, epochVars, ackVars, shedVars, headerVars, queueVars,
       sharedVars, Go, Local
<1>30. ASSUME Booted PROVE Watched'
  BY <1>30 DEF Watched, LifeTyped, EpochTyped, Place, Over, WorkerTyped,
       Locals, OnLine, Looping, Talking, Reaching, Away, Shutting, Booted,
       BootInTime, lifeVars, epochVars, ackVars, shedVars, headerVars,
       queueVars, sharedVars, Go, Local
<1>31. ASSUME GiveUp PROVE Watched'
  BY <1>31 DEF Watched, LifeTyped, EpochTyped, Place, Over, WorkerTyped,
       Locals, OnLine, Looping, Talking, Reaching, Away, Shutting, GiveUp,
       lifeVars, epochVars, ackVars, shedVars, headerVars, queueVars,
       sharedVars, Go, Local
<1>32. ASSUME Fail PROVE Watched'
  BY <1>32 DEF Watched, LifeTyped, EpochTyped, Place, Over, WorkerTyped,
       Locals, OnLine, Looping, Talking, Reaching, Away, Shutting, Fail,
       lifeVars, epochVars, ackVars, shedVars, headerVars, queueVars,
       sharedVars, Go, Local
<1>33. ASSUME CloseQueue PROVE Watched'
  BY <1>33 DEF Watched, LifeTyped, EpochTyped, Place, Over, WorkerTyped,
       Locals, OnLine, Looping, Talking, Reaching, Away, Shutting, CloseQueue,
       lifeVars, epochVars, ackVars, shedVars, headerVars, queueVars,
       sharedVars, Go, Local
<1>34. ASSUME Pop PROVE Watched'
  BY <1>34 DEF Watched, LifeTyped, EpochTyped, Place, Over, WorkerTyped,
       Locals, OnLine, Looping, Talking, Reaching, Away, Shutting, Pop,
       lifeVars, epochVars, ackVars, shedVars, headerVars, queueVars,
       sharedVars, Go, Local
<1>35. ASSUME Leave PROVE Watched'
  BY <1>35 DEF Watched, LifeTyped, EpochTyped, Place, Over, WorkerTyped,
       Locals, OnLine, Looping, Talking, Reaching, Away, Shutting, Leave,
       lifeVars, epochVars, ackVars, shedVars, headerVars, queueVars,
       sharedVars, Go, Local
<1>36. ASSUME Select PROVE Watched'
  BY <1>36 DEF Watched, LifeTyped, EpochTyped, Place, Over, WorkerTyped,
       Locals, OnLine, Looping, Talking, Reaching, Away, Shutting, Select,
       lifeVars, epochVars, ackVars, shedVars, headerVars, queueVars,
       sharedVars, Go, Local
<1>37. ASSUME LoopPrimed PROVE Watched'
  BY <1>37 DEF Watched, LifeTyped, EpochTyped, Place, Over, WorkerTyped,
       Locals, OnLine, Looping, Talking, Reaching, Away, Shutting, LoopPrimed,
       Primed, Joins, lifeVars, epochVars, ackVars, shedVars, headerVars,
       queueVars, sharedVars, Go, Local
<1>38. ASSUME TagWritten PROVE Watched'
  BY <1>38 DEF Watched, LifeTyped, EpochTyped, Place, Over, WorkerTyped,
       Locals, OnLine, Looping, Talking, Reaching, Away, Shutting, TagWritten,
       TicketCounts, lifeVars, epochVars, ackVars, shedVars, headerVars,
       queueVars, sharedVars, Go, Local
<1>39. ASSUME Publish PROVE Watched'
  BY <1>39 DEF Watched, LifeTyped, EpochTyped, Place, Over, WorkerTyped,
       Locals, OnLine, Looping, Talking, Reaching, Away, Shutting, Publish,
       Published, lifeVars, epochVars, ackVars, shedVars, headerVars,
       queueVars, sharedVars, Go, Local
<1>40. ASSUME Stopped PROVE Watched'
  BY <1>40 DEF Watched, LifeTyped, EpochTyped, Place, Over, WorkerTyped,
       Locals, OnLine, Looping, Talking, Reaching, Away, Shutting, Stopped,
       vars, lifeVars, epochVars, ackVars, shedVars, headerVars, queueVars,
       sharedVars, Go, Local
<1>41. ASSUME UNCHANGED vars PROVE Watched'
  BY <1>41 DEF Watched, LifeTyped, EpochTyped, Place, Over, WorkerTyped,
       Locals, OnLine, Looping, Talking, Reaching, Away, Shutting, vars,
       lifeVars, epochVars, ackVars, shedVars, headerVars, queueVars,
       sharedVars, Go, Local
<1> QED BY <1>1, <1>2, <1>3, <1>4, <1>5, <1>6, <1>7, <1>8, <1>9, <1>10,
     <1>11, <1>12, <1>13, <1>14, <1>15, <1>16, <1>17, <1>18, <1>19, <1>20,
     <1>21, <1>22, <1>23, <1>24, <1>25, <1>26, <1>27, <1>28, <1>29, <1>30,
     <1>31, <1>32, <1>33, <1>34, <1>35, <1>36, <1>37, <1>38, <1>39, <1>40,
     <1>41 DEF Next, Pipeline, Owner, Watchdog, Worker

\* A deadline that a transition armed is cleared with its mark.
LEMMA ArmedStep ==
  ASSUME SenderConstants, Typed, Place, Life, Armed, [Next]_vars
  PROVE  Armed'
<1>0. /\ LifeTyped /\ EpochTyped /\ TicketTyped /\ HeaderTyped /\ WorkerTyped
      /\ WireTyped
  BY DEF Typed
<1>1. ASSUME NEW kinds \in Batches, EnqueueDropped(kinds) PROVE Armed'
  BY <1>1, <1>0 DEF Armed, EpochTyped, Place, Over, WorkerTyped, Locals,
       OnLine, Looping, Talking, Reaching, Away, Shutting, EnqueueDropped,
       Accept, Admit, lifeVars, epochVars, ackVars, shedVars, headerVars, queueVars,
       sharedVars, Go, Local
<1>2. ASSUME NEW kinds \in Batches, EnqueueRefused(kinds) PROVE Armed'
  BY <1>2, <1>0 DEF Armed, EpochTyped, Place, Over, WorkerTyped, Locals,
       OnLine, Looping, Talking, Reaching, Away, Shutting, EnqueueRefused,
       Admit, lifeVars, epochVars, ackVars, shedVars, headerVars, queueVars,
       sharedVars, Go, Local
<1>3. ASSUME NEW kinds \in Batches, EnqueuePushed(kinds) PROVE Armed'
  BY <1>3, <1>0 DEF Armed, EpochTyped, Place, Over, WorkerTyped, Locals,
       OnLine, Looping, Talking, Reaching, Away, Shutting, EnqueuePushed,
       Accept, Admit, lifeVars, epochVars, ackVars, shedVars, headerVars, queueVars,
       sharedVars, Go, Local
<1>4. ASSUME NEW kinds \in Batches, EnqueueFull(kinds) PROVE Armed'
  BY <1>4, <1>0 DEF Armed, EpochTyped, Place, Over, WorkerTyped, Locals,
       OnLine, Looping, Talking, Reaching, Away, Shutting, EnqueueFull, Accept, Admit,
       lifeVars, epochVars, ackVars, shedVars, headerVars, queueVars,
       sharedVars, Go, Local
<1>5. ASSUME InvalidateEpoch PROVE Armed'
  BY <1>5, <1>0 DEF Armed, EpochTyped, Place, Over, WorkerTyped, Locals,
       OnLine, Looping, Talking, Reaching, Away, Shutting, InvalidateEpoch,
       Fence, lifeVars, epochVars, ackVars, shedVars, headerVars, queueVars,
       sharedVars, Go, Local
<1>6. ASSUME RequestStop PROVE Armed'
  BY <1>6, <1>0 DEF Armed, EpochTyped, Place, Over, WorkerTyped, Locals,
       OnLine, Looping, Talking, Reaching, Away, Shutting, RequestStop,
       StopQueue, lifeVars, epochVars, ackVars, shedVars, headerVars,
       queueVars, sharedVars, Go, Local
<1>7. ASSUME Join PROVE Armed'
  BY <1>7, <1>0 DEF Armed, EpochTyped, Place, Over, WorkerTyped, Locals,
       OnLine, Looping, Talking, Reaching, Away, Shutting, Join, lifeVars,
       epochVars, ackVars, shedVars, headerVars, queueVars, sharedVars, Go,
       Local
<1>8. ASSUME WatchdogExpires PROVE Armed'
  BY <1>8, <1>0 DEF Armed, EpochTyped, Place, Over, WorkerTyped, Locals,
       OnLine, Looping, Talking, Reaching, Away, Shutting, WatchdogExpires,
       lifeVars, epochVars, ackVars, shedVars, headerVars, queueVars,
       sharedVars, Go, Local
<1>9. ASSUME WatchdogInterrupts PROVE Armed'
  BY <1>9, <1>0 DEF Armed, EpochTyped, Place, Over, WorkerTyped, Locals,
       OnLine, Looping, Talking, Reaching, Away, Shutting, WatchdogInterrupts,
       lifeVars, epochVars, ackVars, shedVars, headerVars, queueVars,
       sharedVars, Go, Local
<1>10. ASSUME Dial PROVE Armed'
  BY <1>10, <1>0 DEF Armed, EpochTyped, Place, Over, WorkerTyped, Locals,
       OnLine, Looping, Talking, Reaching, Away, Shutting, Dial, BeginIO,
       lifeVars, epochVars, ackVars, shedVars, headerVars, queueVars,
       sharedVars, Go, Local
<1>11. ASSUME Connected PROVE Armed'
  BY <1>11, <1>0 DEF Armed, EpochTyped, Place, Over, WorkerTyped, Locals,
       OnLine, Looping, Talking, Reaching, Away, Shutting, Connected, Acked,
       KeepTransport, SilentWire, lifeVars, epochVars, ackVars, shedVars,
       headerVars, queueVars, sharedVars, Go, Local
<1>12. ASSUME ConnectFails PROVE Armed'
  BY <1>12, <1>0 DEF Armed, EpochTyped, Place, Over, WorkerTyped, Locals,
       OnLine, Looping, Talking, Reaching, Away, Shutting, ConnectFails,
       Acked, LoseTransport, lifeVars, epochVars, ackVars, shedVars,
       headerVars, queueVars, sharedVars, Go, Local
<1>13. ASSUME Send PROVE Armed'
  BY <1>13, <1>0 DEF Armed, EpochTyped, Place, Over, WorkerTyped, Locals,
       OnLine, Looping, Talking, Reaching, Away, Shutting, Send, BeginIO,
       lifeVars, epochVars, ackVars, shedVars, headerVars, queueVars,
       sharedVars, Go, Local
<1>14. ASSUME Sent PROVE Armed'
  BY <1>14, <1>0 DEF Armed, EpochTyped, Place, Over, WorkerTyped, Locals,
       OnLine, Looping, Talking, Reaching, Away, Shutting, Sent, Acked,
       KeepTransport, lifeVars, epochVars, ackVars, shedVars, headerVars,
       queueVars, sharedVars, Go, Local
<1>15. ASSUME SendFails PROVE Armed'
  BY <1>15, <1>0 DEF Armed, EpochTyped, Place, Over, WorkerTyped, Locals,
       OnLine, Looping, Talking, Reaching, Away, Shutting, SendFails, Acked,
       LoseTransport, lifeVars, epochVars, ackVars, shedVars, headerVars,
       queueVars, sharedVars, Go, Local
<1>16. ASSUME ReadHeaders PROVE Armed'
  BY <1>16, <1>0 DEF Armed, EpochTyped, Place, Over, WorkerTyped, Locals,
       OnLine, Looping, Talking, Reaching, Away, Shutting, ReadHeaders,
       lifeVars, epochVars, ackVars, shedVars, headerVars, queueVars,
       sharedVars, Go, Local
<1>17. ASSUME ConnectPrimed PROVE Armed'
  BY <1>17, <1>0 DEF Armed, EpochTyped, Place, Over, WorkerTyped, Locals,
       OnLine, Looping, Talking, Reaching, Away, Shutting, ConnectPrimed,
       Primed, lifeVars, epochVars, ackVars, shedVars, headerVars, queueVars,
       sharedVars, Go, Local
<1>18. ASSUME Close PROVE Armed'
  BY <1>18, <1>0 DEF Armed, EpochTyped, Place, Over, WorkerTyped, Locals,
       OnLine, Looping, Talking, Reaching, Away, Shutting, Close, BeginIO,
       lifeVars, epochVars, ackVars, shedVars, headerVars, queueVars,
       sharedVars, Go, Local
<1>19. ASSUME Closed PROVE Armed'
  BY <1>19, <1>0 DEF Armed, EpochTyped, Place, Over, WorkerTyped, Locals,
       OnLine, Looping, Talking, Reaching, Away, Shutting, Closed, Acked,
       LoseTransport, lifeVars, epochVars, ackVars, shedVars, headerVars,
       queueVars, sharedVars, Go, Local
<1>20. ASSUME Reconnect PROVE Armed'
  BY <1>20, <1>0 DEF Armed, EpochTyped, Place, Over, WorkerTyped, Locals,
       OnLine, Looping, Talking, Reaching, Away, Shutting, Reconnect,
       ReconnectQueue, lifeVars, epochVars, ackVars, shedVars, headerVars,
       queueVars, sharedVars, Go, Local
<1>21. ASSUME TakeCancellation PROVE Armed'
  BY <1>21, <1>0 DEF Armed, EpochTyped, Place, Over, WorkerTyped, Locals,
       OnLine, Looping, Talking, Reaching, Away, Shutting, TakeCancellation,
       lifeVars, epochVars, ackVars, shedVars, headerVars, queueVars,
       sharedVars, Go, Local
<1>22. ASSUME ReplaceTransport PROVE Armed'
  BY <1>22, <1>0 DEF Armed, EpochTyped, Place, Over, WorkerTyped, Locals,
       OnLine, Looping, Talking, Reaching, Away, Shutting, ReplaceTransport,
       Fresh, lifeVars, epochVars, ackVars, shedVars, headerVars, queueVars,
       sharedVars, Go, Local
<1>23. ASSUME ReplaceFails PROVE Armed'
  BY <1>23, <1>0 DEF Armed, EpochTyped, Place, Over, WorkerTyped, Locals,
       OnLine, Looping, Talking, Reaching, Away, Shutting, ReplaceFails,
       EndResume, AckDropped, KeepPending, lifeVars, epochVars, ackVars,
       shedVars, headerVars, queueVars, sharedVars, Go, Local
<1>24. ASSUME Retry PROVE Armed'
  BY <1>24, <1>0 DEF Armed, EpochTyped, Place, Over, WorkerTyped, Locals,
       OnLine, Looping, Talking, Reaching, Away, Shutting, Retry, lifeVars,
       epochVars, ackVars, shedVars, headerVars, queueVars, sharedVars, Go,
       Local
<1>25. ASSUME Delayed PROVE Armed'
  BY <1>25, <1>0 DEF Armed, EpochTyped, Place, Over, WorkerTyped, Locals,
       OnLine, Looping, Talking, Reaching, Away, Shutting, Delayed, lifeVars,
       epochVars, ackVars, shedVars, headerVars, queueVars, sharedVars, Go,
       Local
<1>26. ASSUME RetryEnds PROVE Armed'
  BY <1>26, <1>0 DEF Armed, EpochTyped, Place, Over, WorkerTyped, Locals,
       OnLine, Looping, Talking, Reaching, Away, Shutting, RetryEnds,
       lifeVars, epochVars, ackVars, shedVars, headerVars, queueVars,
       sharedVars, Go, Local
<1>27. ASSUME Exhausted PROVE Armed'
  BY <1>27, <1>0 DEF Armed, EpochTyped, Place, Over, WorkerTyped, Locals,
       OnLine, Looping, Talking, Reaching, Away, Shutting, Exhausted,
       EndResume, AckDropped, KeepPending, lifeVars, epochVars, ackVars,
       shedVars, headerVars, queueVars, sharedVars, Go, Local
<1>28. ASSUME AttemptFailed PROVE Armed'
  BY <1>28, <1>0 DEF Armed, EpochTyped, Place, Over, WorkerTyped, Locals,
       OnLine, Looping, Talking, Reaching, Away, Shutting, AttemptFailed,
       EndResume, AckDropped, KeepPending, lifeVars, epochVars, ackVars,
       shedVars, headerVars, queueVars, sharedVars, Go, Local
<1>29. ASSUME Redialled PROVE Armed'
  BY <1>29, <1>0 DEF Armed, EpochTyped, Place, Over, WorkerTyped, Locals,
       OnLine, Looping, Talking, Reaching, Away, Shutting, Redialled, Rejoin,
       lifeVars, epochVars, ackVars, shedVars, headerVars, queueVars,
       sharedVars, Go, Local
<1>30. ASSUME Booted PROVE Armed'
  <2>1. UNCHANGED <<transition_cancelled_transport, connection, writing, stop_requested>>
    BY <1>30 DEF Booted, epochVars
  <2>2. w.pc \in {"booted", "gaveUp"} /\ ~writing
    BY <1>30, <1>0 DEF Booted, WorkerTyped
  <2> QED BY <1>30, <1>0, <2>1, <2>2, Boots DEF Armed, Over, Shutting
<1>31. ASSUME GiveUp PROVE Armed'
  BY <1>31, <1>0 DEF Armed, EpochTyped, Place, Over, WorkerTyped, Locals,
       OnLine, Looping, Talking, Reaching, Away, Shutting, GiveUp, lifeVars,
       epochVars, ackVars, shedVars, headerVars, queueVars, sharedVars, Go,
       Local
<1>32. ASSUME Fail PROVE Armed'
  BY <1>32, <1>0 DEF Armed, EpochTyped, Place, Over, WorkerTyped, Locals,
       OnLine, Looping, Talking, Reaching, Away, Shutting, Fail, lifeVars,
       epochVars, ackVars, shedVars, headerVars, queueVars, sharedVars, Go,
       Local
<1>33. ASSUME CloseQueue PROVE Armed'
  BY <1>33, <1>0 DEF Armed, EpochTyped, Place, Over, WorkerTyped, Locals,
       OnLine, Looping, Talking, Reaching, Away, Shutting, CloseQueue,
       lifeVars, epochVars, ackVars, shedVars, headerVars, queueVars,
       sharedVars, Go, Local
<1>34. ASSUME Pop PROVE Armed'
  BY <1>34, <1>0 DEF Armed, EpochTyped, Place, Over, WorkerTyped, Locals,
       OnLine, Looping, Talking, Reaching, Away, Shutting, Pop, lifeVars,
       epochVars, ackVars, shedVars, headerVars, queueVars, sharedVars, Go,
       Local
<1>35. ASSUME Leave PROVE Armed'
  BY <1>35, <1>0 DEF Armed, EpochTyped, Place, Over, WorkerTyped, Locals,
       OnLine, Looping, Talking, Reaching, Away, Shutting, Leave, lifeVars,
       epochVars, ackVars, shedVars, headerVars, queueVars, sharedVars, Go,
       Local
<1>36. ASSUME Select PROVE Armed'
  BY <1>36, <1>0 DEF Armed, EpochTyped, Place, Over, WorkerTyped, Locals,
       OnLine, Looping, Talking, Reaching, Away, Shutting, Select, lifeVars,
       epochVars, ackVars, shedVars, headerVars, queueVars, sharedVars, Go,
       Local
<1>37. ASSUME LoopPrimed PROVE Armed'
  BY <1>37, <1>0 DEF Armed, EpochTyped, Place, Over, WorkerTyped, Locals,
       OnLine, Looping, Talking, Reaching, Away, Shutting, LoopPrimed, Primed,
       Joins, lifeVars, epochVars, ackVars, shedVars, headerVars, queueVars,
       sharedVars, Go, Local
<1>38. ASSUME TagWritten PROVE Armed'
  BY <1>38, <1>0 DEF Armed, EpochTyped, Place, Over, WorkerTyped, Locals,
       OnLine, Looping, Talking, Reaching, Away, Shutting, TagWritten,
       TicketCounts, lifeVars, epochVars, ackVars, shedVars, headerVars,
       queueVars, sharedVars, Go, Local
<1>39. ASSUME Publish PROVE Armed'
  BY <1>39, <1>0 DEF Armed, EpochTyped, Place, Over, WorkerTyped, Locals,
       OnLine, Looping, Talking, Reaching, Away, Shutting, Publish, Published,
       lifeVars, epochVars, ackVars, shedVars, headerVars, queueVars,
       sharedVars, Go, Local
<1>40. ASSUME Stopped PROVE Armed'
  BY <1>40, <1>0 DEF Armed, EpochTyped, Place, Over, WorkerTyped, Locals,
       OnLine, Looping, Talking, Reaching, Away, Shutting, Stopped, vars,
       lifeVars, epochVars, ackVars, shedVars, headerVars, queueVars,
       sharedVars, Go, Local
<1>41. ASSUME UNCHANGED vars PROVE Armed'
  BY <1>41, <1>0 DEF Armed, EpochTyped, Place, Over, WorkerTyped, Locals,
       OnLine, Looping, Talking, Reaching, Away, Shutting, vars, lifeVars,
       epochVars, ackVars, shedVars, headerVars, queueVars, sharedVars, Go,
       Local
<1> QED BY <1>1, <1>2, <1>3, <1>4, <1>5, <1>6, <1>7, <1>8, <1>9, <1>10,
     <1>11, <1>12, <1>13, <1>14, <1>15, <1>16, <1>17, <1>18, <1>19, <1>20,
     <1>21, <1>22, <1>23, <1>24, <1>25, <1>26, <1>27, <1>28, <1>29, <1>30,
     <1>31, <1>32, <1>33, <1>34, <1>35, <1>36, <1>37, <1>38, <1>39, <1>40,
     <1>41 DEF Next, Pipeline, Owner, Watchdog, Worker

\* An acknowledged epoch has no older write in flight, and a published one is on air.
LEMMA FencedStep ==
  ASSUME SenderConstants, Typed, Place, Media, Fenced, [Next]_vars
  PROVE  Fenced'
<1>0. /\ LifeTyped /\ EpochTyped /\ TicketTyped /\ HeaderTyped /\ WorkerTyped
      /\ WireTyped
  BY DEF Typed
<1>1. ASSUME NEW kinds \in Batches, EnqueueDropped(kinds) PROVE Fenced'
  <2>1. /\ epoch' = feed.epoch /\ epoch <= epoch' /\ epoch' \in Nat /\ w' = w
        /\ acknowledged_epoch' = acknowledged_epoch
    BY <1>1, Enqueues
  <2>2. epoch \in Nat /\ acknowledged_epoch \in Nat
    BY <1>0 DEF EpochTyped
  <2>3. acknowledged_epoch' <= epoch'
    BY <2>1, <2>2 DEF Fenced
  <2>4. ASSUME acknowledged_epoch' = epoch', w'.pc = "sending" PROVE JobEpoch' = epoch'
    <3>1. epoch' = epoch
      BY <2>1, <2>2, <2>4 DEF Fenced
    <3> QED BY <2>1, <2>4, <3>1 DEF Fenced, FenceHolds, JobEpoch
  <2> QED BY <2>3, <2>4 DEF Fenced, FenceHolds
<1>2. ASSUME NEW kinds \in Batches, EnqueueRefused(kinds) PROVE Fenced'
  <2>1. /\ epoch' = feed.epoch /\ epoch <= epoch' /\ epoch' \in Nat /\ w' = w
        /\ acknowledged_epoch' = acknowledged_epoch
    BY <1>2, Enqueues
  <2>2. epoch \in Nat /\ acknowledged_epoch \in Nat
    BY <1>0 DEF EpochTyped
  <2>3. acknowledged_epoch' <= epoch'
    BY <2>1, <2>2 DEF Fenced
  <2>4. ASSUME acknowledged_epoch' = epoch', w'.pc = "sending" PROVE JobEpoch' = epoch'
    <3>1. epoch' = epoch
      BY <2>1, <2>2, <2>4 DEF Fenced
    <3> QED BY <2>1, <2>4, <3>1 DEF Fenced, FenceHolds, JobEpoch
  <2> QED BY <2>3, <2>4 DEF Fenced, FenceHolds
<1>3. ASSUME NEW kinds \in Batches, EnqueuePushed(kinds) PROVE Fenced'
  <2>1. /\ epoch' = feed.epoch /\ epoch <= epoch' /\ epoch' \in Nat /\ w' = w
        /\ acknowledged_epoch' = acknowledged_epoch
    BY <1>3, Enqueues
  <2>2. epoch \in Nat /\ acknowledged_epoch \in Nat
    BY <1>0 DEF EpochTyped
  <2>3. acknowledged_epoch' <= epoch'
    BY <2>1, <2>2 DEF Fenced
  <2>4. ASSUME acknowledged_epoch' = epoch', w'.pc = "sending" PROVE JobEpoch' = epoch'
    <3>1. epoch' = epoch
      BY <2>1, <2>2, <2>4 DEF Fenced
    <3> QED BY <2>1, <2>4, <3>1 DEF Fenced, FenceHolds, JobEpoch
  <2> QED BY <2>3, <2>4 DEF Fenced, FenceHolds
<1>4. ASSUME NEW kinds \in Batches, EnqueueFull(kinds) PROVE Fenced'
  <2>1. /\ epoch' = feed.epoch /\ epoch <= epoch' /\ epoch' \in Nat /\ w' = w
        /\ acknowledged_epoch' = acknowledged_epoch
    BY <1>4, Enqueues
  <2>2. epoch \in Nat /\ acknowledged_epoch \in Nat
    BY <1>0 DEF EpochTyped
  <2>3. acknowledged_epoch' <= epoch'
    BY <2>1, <2>2 DEF Fenced
  <2>4. ASSUME acknowledged_epoch' = epoch', w'.pc = "sending" PROVE JobEpoch' = epoch'
    <3>1. epoch' = epoch
      BY <2>1, <2>2, <2>4 DEF Fenced
    <3> QED BY <2>1, <2>4, <3>1 DEF Fenced, FenceHolds, JobEpoch
  <2> QED BY <2>3, <2>4 DEF Fenced, FenceHolds
<1>5. ASSUME InvalidateEpoch PROVE Fenced'
  <2>1. /\ epoch' \in Nat /\ epoch \in Nat /\ epoch < epoch' /\ w' = w
        /\ acknowledged_epoch \in Nat /\ epoch' = feed.epoch + 1
    BY <1>5, <1>0, Invalidates DEF EpochTyped, InvalidateEpoch
  <2>2. CASE writing
    <3>1. acknowledged_epoch' = acknowledged_epoch
      BY <1>5, <2>2 DEF InvalidateEpoch, Fence
    <3> QED BY <2>1, <3>1 DEF Fenced, FenceHolds
  <2>3. CASE ~writing
    <3>1. acknowledged_epoch' = epoch'
      BY <1>5, <2>1, <2>3 DEF InvalidateEpoch, Fence
    <3>2. w.pc # "sending"
      BY <1>0, <2>3 DEF WorkerTyped
    <3> QED BY <2>1, <3>1, <3>2 DEF Fenced, FenceHolds
  <2> QED BY <2>2, <2>3
<1>6. ASSUME RequestStop PROVE Fenced'
  BY <1>6, <1>0 DEF Fenced, FenceHolds, JobEpoch, EpochTyped, HeaderTyped,
       Feed, Media, Place, Holds, WorkerTyped, Locals, OnLine, Looping,
       Talking, Reaching, Away, Shutting, RequestStop, StopQueue, lifeVars,
       epochVars, ackVars, shedVars, headerVars, queueVars, sharedVars, Go,
       Local
<1>7. ASSUME Join PROVE Fenced'
  BY <1>7, <1>0 DEF Fenced, FenceHolds, JobEpoch, EpochTyped, HeaderTyped,
       Feed, Media, Place, Holds, WorkerTyped, Locals, OnLine, Looping,
       Talking, Reaching, Away, Shutting, Join, lifeVars, epochVars, ackVars,
       shedVars, headerVars, queueVars, sharedVars, Go, Local
<1>8. ASSUME WatchdogExpires PROVE Fenced'
  BY <1>8, <1>0 DEF Fenced, FenceHolds, JobEpoch, EpochTyped, HeaderTyped,
       Feed, Media, Place, Holds, WorkerTyped, Locals, OnLine, Looping,
       Talking, Reaching, Away, Shutting, WatchdogExpires, lifeVars,
       epochVars, ackVars, shedVars, headerVars, queueVars, sharedVars, Go,
       Local
<1>9. ASSUME WatchdogInterrupts PROVE Fenced'
  BY <1>9, <1>0 DEF Fenced, FenceHolds, JobEpoch, EpochTyped, HeaderTyped,
       Feed, Media, Place, Holds, WorkerTyped, Locals, OnLine, Looping,
       Talking, Reaching, Away, Shutting, WatchdogInterrupts, lifeVars,
       epochVars, ackVars, shedVars, headerVars, queueVars, sharedVars, Go,
       Local
<1>10. ASSUME Dial PROVE Fenced'
  BY <1>10, <1>0 DEF Fenced, FenceHolds, JobEpoch, EpochTyped, HeaderTyped,
       Feed, Media, Place, Holds, WorkerTyped, Locals, OnLine, Looping,
       Talking, Reaching, Away, Shutting, Dial, BeginIO, lifeVars, epochVars,
       ackVars, shedVars, headerVars, queueVars, sharedVars, Go, Local
<1>11. ASSUME Connected PROVE Fenced'
  BY <1>11, <1>0 DEF Fenced, FenceHolds, JobEpoch, EpochTyped, HeaderTyped,
       Feed, Media, Place, Holds, WorkerTyped, Locals, OnLine, Looping,
       Talking, Reaching, Away, Shutting, Connected, Acked, KeepTransport,
       SilentWire, lifeVars, epochVars, ackVars, shedVars, headerVars,
       queueVars, sharedVars, Go, Local
<1>12. ASSUME ConnectFails PROVE Fenced'
  BY <1>12, <1>0 DEF Fenced, FenceHolds, JobEpoch, EpochTyped, HeaderTyped,
       Feed, Media, Place, Holds, WorkerTyped, Locals, OnLine, Looping,
       Talking, Reaching, Away, Shutting, ConnectFails, Acked, LoseTransport,
       lifeVars, epochVars, ackVars, shedVars, headerVars, queueVars,
       sharedVars, Go, Local
<1>13. ASSUME Send PROVE Fenced'
  <2>1. CASE stop_requested \/ JobEpoch # epoch
    BY <1>13, <1>0, <2>1 DEF Send, Local, Go, sharedVars, epochVars, Fenced, FenceHolds,
       WorkerTyped, Locals
  <2>2. CASE ~(stop_requested \/ JobEpoch # epoch)
    <3>1. w' = [w EXCEPT !.pc = "sending"] /\ UNCHANGED <<epoch, acknowledged_epoch>>
      BY <1>13, <2>2 DEF Send, Go, BeginIO
    <3>2. w'.job = w.job /\ w'.selEpoch = w.selEpoch /\ w'.tag = w.tag
      BY <1>0, <3>1 DEF WorkerTyped, Locals
    <3>3. JobEpoch' = JobEpoch
      BY <3>1, <3>2 DEF JobEpoch
    <3> QED BY <2>2, <3>1, <3>3 DEF Fenced, FenceHolds
  <2> QED BY <2>1, <2>2
<1>14. ASSUME Sent PROVE Fenced'
  BY <1>14, <1>0 DEF Fenced, FenceHolds, JobEpoch, EpochTyped, HeaderTyped,
       Feed, Media, Place, Holds, WorkerTyped, Locals, OnLine, Looping,
       Talking, Reaching, Away, Shutting, Sent, Acked, KeepTransport,
       lifeVars, epochVars, ackVars, shedVars, headerVars, queueVars,
       sharedVars, Go, Local
<1>15. ASSUME SendFails PROVE Fenced'
  BY <1>15, <1>0 DEF Fenced, FenceHolds, JobEpoch, EpochTyped, HeaderTyped,
       Feed, Media, Place, Holds, WorkerTyped, Locals, OnLine, Looping,
       Talking, Reaching, Away, Shutting, SendFails, Acked, LoseTransport,
       lifeVars, epochVars, ackVars, shedVars, headerVars, queueVars,
       sharedVars, Go, Local
<1>16. ASSUME ReadHeaders PROVE Fenced'
  BY <1>16, <1>0 DEF Fenced, FenceHolds, JobEpoch, EpochTyped, HeaderTyped,
       Feed, Media, Place, Holds, WorkerTyped, Locals, OnLine, Looping,
       Talking, Reaching, Away, Shutting, ReadHeaders, lifeVars, epochVars,
       ackVars, shedVars, headerVars, queueVars, sharedVars, Go, Local
<1>17. ASSUME ConnectPrimed PROVE Fenced'
  BY <1>17, <1>0 DEF Fenced, FenceHolds, JobEpoch, EpochTyped, HeaderTyped,
       Feed, Media, Place, Holds, WorkerTyped, Locals, OnLine, Looping,
       Talking, Reaching, Away, Shutting, ConnectPrimed, Primed, lifeVars,
       epochVars, ackVars, shedVars, headerVars, queueVars, sharedVars, Go,
       Local
<1>18. ASSUME Close PROVE Fenced'
  BY <1>18, <1>0 DEF Fenced, FenceHolds, JobEpoch, EpochTyped, HeaderTyped,
       Feed, Media, Place, Holds, WorkerTyped, Locals, OnLine, Looping,
       Talking, Reaching, Away, Shutting, Close, BeginIO, lifeVars, epochVars,
       ackVars, shedVars, headerVars, queueVars, sharedVars, Go, Local
<1>19. ASSUME Closed PROVE Fenced'
  BY <1>19, <1>0 DEF Fenced, FenceHolds, JobEpoch, EpochTyped, HeaderTyped,
       Feed, Media, Place, Holds, WorkerTyped, Locals, OnLine, Looping,
       Talking, Reaching, Away, Shutting, Closed, Acked, LoseTransport,
       lifeVars, epochVars, ackVars, shedVars, headerVars, queueVars,
       sharedVars, Go, Local
<1>20. ASSUME Reconnect PROVE Fenced'
  BY <1>20, <1>0 DEF Fenced, FenceHolds, JobEpoch, EpochTyped, HeaderTyped,
       Feed, Media, Place, Holds, WorkerTyped, Locals, OnLine, Looping,
       Talking, Reaching, Away, Shutting, Reconnect, ReconnectQueue, lifeVars,
       epochVars, ackVars, shedVars, headerVars, queueVars, sharedVars, Go,
       Local
<1>21. ASSUME TakeCancellation PROVE Fenced'
  BY <1>21, <1>0 DEF Fenced, FenceHolds, JobEpoch, EpochTyped, HeaderTyped,
       Feed, Media, Place, Holds, WorkerTyped, Locals, OnLine, Looping,
       Talking, Reaching, Away, Shutting, TakeCancellation, lifeVars,
       epochVars, ackVars, shedVars, headerVars, queueVars, sharedVars, Go,
       Local
<1>22. ASSUME ReplaceTransport PROVE Fenced'
  BY <1>22, <1>0 DEF Fenced, FenceHolds, JobEpoch, EpochTyped, HeaderTyped,
       Feed, Media, Place, Holds, WorkerTyped, Locals, OnLine, Looping,
       Talking, Reaching, Away, Shutting, ReplaceTransport, Fresh, lifeVars,
       epochVars, ackVars, shedVars, headerVars, queueVars, sharedVars, Go,
       Local
<1>23. ASSUME ReplaceFails PROVE Fenced'
  BY <1>23, <1>0 DEF Fenced, FenceHolds, JobEpoch, EpochTyped, HeaderTyped,
       Feed, Media, Place, Holds, WorkerTyped, Locals, OnLine, Looping,
       Talking, Reaching, Away, Shutting, ReplaceFails, EndResume, AckDropped,
       KeepPending, lifeVars, epochVars, ackVars, shedVars, headerVars,
       queueVars, sharedVars, Go, Local
<1>24. ASSUME Retry PROVE Fenced'
  BY <1>24, <1>0 DEF Fenced, FenceHolds, JobEpoch, EpochTyped, HeaderTyped,
       Feed, Media, Place, Holds, WorkerTyped, Locals, OnLine, Looping,
       Talking, Reaching, Away, Shutting, Retry, lifeVars, epochVars, ackVars,
       shedVars, headerVars, queueVars, sharedVars, Go, Local
<1>25. ASSUME Delayed PROVE Fenced'
  BY <1>25, <1>0 DEF Fenced, FenceHolds, JobEpoch, EpochTyped, HeaderTyped,
       Feed, Media, Place, Holds, WorkerTyped, Locals, OnLine, Looping,
       Talking, Reaching, Away, Shutting, Delayed, lifeVars, epochVars,
       ackVars, shedVars, headerVars, queueVars, sharedVars, Go, Local
<1>26. ASSUME RetryEnds PROVE Fenced'
  BY <1>26, <1>0 DEF Fenced, FenceHolds, JobEpoch, EpochTyped, HeaderTyped,
       Feed, Media, Place, Holds, WorkerTyped, Locals, OnLine, Looping,
       Talking, Reaching, Away, Shutting, RetryEnds, lifeVars, epochVars,
       ackVars, shedVars, headerVars, queueVars, sharedVars, Go, Local
<1>27. ASSUME Exhausted PROVE Fenced'
  BY <1>27, <1>0 DEF Fenced, FenceHolds, JobEpoch, EpochTyped, HeaderTyped,
       Feed, Media, Place, Holds, WorkerTyped, Locals, OnLine, Looping,
       Talking, Reaching, Away, Shutting, Exhausted, EndResume, AckDropped,
       KeepPending, lifeVars, epochVars, ackVars, shedVars, headerVars,
       queueVars, sharedVars, Go, Local
<1>28. ASSUME AttemptFailed PROVE Fenced'
  BY <1>28, <1>0 DEF Fenced, FenceHolds, JobEpoch, EpochTyped, HeaderTyped,
       Feed, Media, Place, Holds, WorkerTyped, Locals, OnLine, Looping,
       Talking, Reaching, Away, Shutting, AttemptFailed, EndResume,
       AckDropped, KeepPending, lifeVars, epochVars, ackVars, shedVars,
       headerVars, queueVars, sharedVars, Go, Local
<1>29. ASSUME Redialled PROVE Fenced'
  BY <1>29, <1>0 DEF Fenced, FenceHolds, JobEpoch, EpochTyped, HeaderTyped,
       Feed, Media, Place, Holds, WorkerTyped, Locals, OnLine, Looping,
       Talking, Reaching, Away, Shutting, Redialled, Rejoin, lifeVars,
       epochVars, ackVars, shedVars, headerVars, queueVars, sharedVars, Go,
       Local
<1>30. ASSUME Booted PROVE Fenced'
  <2>1. UNCHANGED <<epoch, acknowledged_epoch>>
    BY <1>30 DEF Booted, epochVars
  <2> QED BY <1>30, <1>0, <2>1, Boots DEF Fenced, FenceHolds
<1>31. ASSUME GiveUp PROVE Fenced'
  BY <1>31, <1>0 DEF Fenced, FenceHolds, JobEpoch, EpochTyped, HeaderTyped,
       Feed, Media, Place, Holds, WorkerTyped, Locals, OnLine, Looping,
       Talking, Reaching, Away, Shutting, GiveUp, lifeVars, epochVars,
       ackVars, shedVars, headerVars, queueVars, sharedVars, Go, Local
<1>32. ASSUME Fail PROVE Fenced'
  BY <1>32, <1>0 DEF Fenced, FenceHolds, JobEpoch, EpochTyped, HeaderTyped,
       Feed, Media, Place, Holds, WorkerTyped, Locals, OnLine, Looping,
       Talking, Reaching, Away, Shutting, Fail, lifeVars, epochVars, ackVars,
       shedVars, headerVars, queueVars, sharedVars, Go, Local
<1>33. ASSUME CloseQueue PROVE Fenced'
  BY <1>33, <1>0 DEF Fenced, FenceHolds, JobEpoch, EpochTyped, HeaderTyped,
       Feed, Media, Place, Holds, WorkerTyped, Locals, OnLine, Looping,
       Talking, Reaching, Away, Shutting, CloseQueue, lifeVars, epochVars,
       ackVars, shedVars, headerVars, queueVars, sharedVars, Go, Local
<1>34. ASSUME Pop PROVE Fenced'
  BY <1>34, <1>0 DEF Fenced, FenceHolds, JobEpoch, EpochTyped, HeaderTyped,
       Feed, Media, Place, Holds, WorkerTyped, Locals, OnLine, Looping,
       Talking, Reaching, Away, Shutting, Pop, lifeVars, epochVars, ackVars,
       shedVars, headerVars, queueVars, sharedVars, Go, Local
<1>35. ASSUME Leave PROVE Fenced'
  BY <1>35, <1>0 DEF Fenced, FenceHolds, JobEpoch, EpochTyped, HeaderTyped,
       Feed, Media, Place, Holds, WorkerTyped, Locals, OnLine, Looping,
       Talking, Reaching, Away, Shutting, Leave, lifeVars, epochVars, ackVars,
       shedVars, headerVars, queueVars, sharedVars, Go, Local
<1>36. ASSUME Select PROVE Fenced'
  BY <1>36, <1>0 DEF Fenced, FenceHolds, JobEpoch, EpochTyped, HeaderTyped,
       Feed, Media, Place, Holds, WorkerTyped, Locals, OnLine, Looping,
       Talking, Reaching, Away, Shutting, Select, lifeVars, epochVars,
       ackVars, shedVars, headerVars, queueVars, sharedVars, Go, Local
<1>37. ASSUME LoopPrimed PROVE Fenced'
  <2>1. w'.pc \in {"pop", "send"}
    BY <1>37, <1>0, Primes
  <2> QED BY <1>37, <1>0, <2>1 DEF Fenced, FenceHolds, LoopPrimed, epochVars
<1>38. ASSUME TagWritten PROVE Fenced'
  BY <1>38, <1>0 DEF Fenced, FenceHolds, JobEpoch, EpochTyped, HeaderTyped,
       Feed, Media, Place, Holds, WorkerTyped, Locals, OnLine, Looping,
       Talking, Reaching, Away, Shutting, TagWritten, TicketCounts, lifeVars,
       epochVars, ackVars, shedVars, headerVars, queueVars, sharedVars, Go,
       Local
<1>39. ASSUME Publish PROVE Fenced'
  BY <1>39, <1>0 DEF Fenced, FenceHolds, JobEpoch, EpochTyped, HeaderTyped,
       Feed, Media, Place, Holds, WorkerTyped, Locals, OnLine, Looping,
       Talking, Reaching, Away, Shutting, Publish, Published, lifeVars,
       epochVars, ackVars, shedVars, headerVars, queueVars, sharedVars, Go,
       Local
<1>40. ASSUME Stopped PROVE Fenced'
  BY <1>40, <1>0 DEF Fenced, FenceHolds, JobEpoch, EpochTyped, HeaderTyped,
       Feed, Media, Place, Holds, WorkerTyped, Locals, OnLine, Looping,
       Talking, Reaching, Away, Shutting, Stopped, vars, lifeVars, epochVars,
       ackVars, shedVars, headerVars, queueVars, sharedVars, Go, Local
<1>41. ASSUME UNCHANGED vars PROVE Fenced'
  BY <1>41, <1>0 DEF Fenced, FenceHolds, JobEpoch, EpochTyped, HeaderTyped,
       Feed, Media, Place, Holds, WorkerTyped, Locals, OnLine, Looping,
       Talking, Reaching, Away, Shutting, vars, lifeVars, epochVars, ackVars,
       shedVars, headerVars, queueVars, sharedVars, Go, Local
<1> QED BY <1>1, <1>2, <1>3, <1>4, <1>5, <1>6, <1>7, <1>8, <1>9, <1>10,
     <1>11, <1>12, <1>13, <1>14, <1>15, <1>16, <1>17, <1>18, <1>19, <1>20,
     <1>21, <1>22, <1>23, <1>24, <1>25, <1>26, <1>27, <1>28, <1>29, <1>30,
     <1>31, <1>32, <1>33, <1>34, <1>35, <1>36, <1>37, <1>38, <1>39, <1>40,
     <1>41 DEF Next, Pipeline, Owner, Watchdog, Worker

\* A transition that cancelled the transport is resumed with an attempt left.
LEMMA ResumeStep ==
  ASSUME SenderConstants, Typed, Place, Media, Life, Resume, [Next]_vars
  PROVE  Resume'
<1>0. /\ LifeTyped /\ EpochTyped /\ TicketTyped /\ HeaderTyped /\ WorkerTyped
      /\ WireTyped
  BY DEF Typed
<1>1. ASSUME NEW kinds \in Batches, EnqueueDropped(kinds) PROVE Resume'
  <2>1. /\ UNCHANGED <<lifeVars, transition_cancelled_transport, resume_after_transition, w>>
        /\ epoch' = feed.epoch /\ enqueued_ticket' = feed.batch + 1 /\ feed.batch \in Nat
    BY <1>1, Enqueues
  <2>2. state = "Reconnecting" /\ ~resume_after_transition /\ ~startup_timed_out =>
          delivered_epoch' = feed.epoch /\ delivery_ticket' = feed.batch + 1
    BY <1>1 DEF EnqueueDropped, Dropping, Resuming
  <2> QED BY <2>1, <2>2 DEF Resume, ReconnectingNeverWaits, Delivered, lifeVars
<1>2. ASSUME NEW kinds \in Batches, EnqueueRefused(kinds) PROVE Resume'
  <2>1. /\ UNCHANGED <<lifeVars, transition_cancelled_transport, resume_after_transition, w>>
        /\ epoch' = feed.epoch /\ enqueued_ticket' = feed.batch + 1 /\ feed.batch \in Nat
    BY <1>2, Enqueues
  <2>2. state = "Reconnecting" /\ ~resume_after_transition /\ ~startup_timed_out =>
          delivered_epoch' = feed.epoch /\ delivery_ticket' = feed.batch + 1
    BY <1>2 DEF EnqueueRefused, Dropping, Resuming
  <2> QED BY <2>1, <2>2 DEF Resume, ReconnectingNeverWaits, Delivered, lifeVars
<1>3. ASSUME NEW kinds \in Batches, EnqueuePushed(kinds) PROVE Resume'
  <2>1. /\ UNCHANGED <<lifeVars, transition_cancelled_transport, resume_after_transition, w>>
        /\ epoch' = feed.epoch /\ enqueued_ticket' = feed.batch + 1 /\ feed.batch \in Nat
    BY <1>3, Enqueues
  <2>2. state = "Reconnecting" /\ ~resume_after_transition /\ ~startup_timed_out =>
          delivered_epoch' = feed.epoch /\ delivery_ticket' = feed.batch + 1
    BY <1>3 DEF EnqueuePushed, Dropping, Resuming
  <2> QED BY <2>1, <2>2 DEF Resume, ReconnectingNeverWaits, Delivered, lifeVars
<1>4. ASSUME NEW kinds \in Batches, EnqueueFull(kinds) PROVE Resume'
  <2>1. /\ UNCHANGED <<lifeVars, transition_cancelled_transport, resume_after_transition, w>>
        /\ epoch' = feed.epoch /\ enqueued_ticket' = feed.batch + 1 /\ feed.batch \in Nat
    BY <1>4, Enqueues
  <2>2. state = "Reconnecting" /\ ~resume_after_transition /\ ~startup_timed_out =>
          delivered_epoch' = feed.epoch /\ delivery_ticket' = feed.batch + 1
    BY <1>4 DEF EnqueueFull, Dropping, Resuming
  <2> QED BY <2>1, <2>2 DEF Resume, ReconnectingNeverWaits, Delivered, lifeVars
<1>5. ASSUME InvalidateEpoch PROVE Resume'
  BY <1>5, <1>0 DEF Resume, ReconnectingNeverWaits, Delivered, LifeTyped,
       EpochTyped, TicketTyped, Place, Over, WorkerTyped, Locals, OnLine,
       Looping, Talking, Reaching, Away, Shutting, InvalidateEpoch, Fence,
       lifeVars, epochVars, ackVars, shedVars, headerVars, queueVars,
       sharedVars, Go, Local
<1>6. ASSUME RequestStop PROVE Resume'
  BY <1>6, <1>0 DEF Resume, ReconnectingNeverWaits, Delivered, LifeTyped,
       EpochTyped, TicketTyped, Place, Over, WorkerTyped, Locals, OnLine,
       Looping, Talking, Reaching, Away, Shutting, RequestStop, StopQueue,
       lifeVars, epochVars, ackVars, shedVars, headerVars, queueVars,
       sharedVars, Go, Local
<1>7. ASSUME Join PROVE Resume'
  BY <1>7, <1>0 DEF Resume, ReconnectingNeverWaits, Delivered, LifeTyped,
       EpochTyped, TicketTyped, Place, Over, WorkerTyped, Locals, OnLine,
       Looping, Talking, Reaching, Away, Shutting, Join, lifeVars, epochVars,
       ackVars, shedVars, headerVars, queueVars, sharedVars, Go, Local
<1>8. ASSUME WatchdogExpires PROVE Resume'
  BY <1>8, <1>0 DEF Resume, ReconnectingNeverWaits, Delivered, LifeTyped,
       EpochTyped, TicketTyped, Place, Over, WorkerTyped, Locals, OnLine,
       Looping, Talking, Reaching, Away, Shutting, WatchdogExpires, lifeVars,
       epochVars, ackVars, shedVars, headerVars, queueVars, sharedVars, Go,
       Local
<1>9. ASSUME WatchdogInterrupts PROVE Resume'
  BY <1>9, <1>0 DEF Resume, ReconnectingNeverWaits, Delivered, LifeTyped,
       EpochTyped, TicketTyped, Place, Over, WorkerTyped, Locals, OnLine,
       Looping, Talking, Reaching, Away, Shutting, WatchdogInterrupts,
       lifeVars, epochVars, ackVars, shedVars, headerVars, queueVars,
       sharedVars, Go, Local
<1>10. ASSUME Dial PROVE Resume'
  BY <1>10, <1>0 DEF Resume, ReconnectingNeverWaits, Delivered, LifeTyped,
       EpochTyped, TicketTyped, Place, Over, WorkerTyped, Locals, OnLine,
       Looping, Talking, Reaching, Away, Shutting, Dial, BeginIO, lifeVars,
       epochVars, ackVars, shedVars, headerVars, queueVars, sharedVars, Go,
       Local
<1>11. ASSUME Connected PROVE Resume'
  BY <1>11, <1>0 DEF Resume, ReconnectingNeverWaits, Delivered, LifeTyped,
       EpochTyped, TicketTyped, Place, Over, WorkerTyped, Locals, OnLine,
       Looping, Talking, Reaching, Away, Shutting, Connected, Acked,
       KeepTransport, SilentWire, lifeVars, epochVars, ackVars, shedVars,
       headerVars, queueVars, sharedVars, Go, Local
<1>12. ASSUME ConnectFails PROVE Resume'
  BY <1>12, <1>0 DEF Resume, ReconnectingNeverWaits, Delivered, LifeTyped,
       EpochTyped, TicketTyped, Place, Over, WorkerTyped, Locals, OnLine,
       Looping, Talking, Reaching, Away, Shutting, ConnectFails, Acked,
       LoseTransport, lifeVars, epochVars, ackVars, shedVars, headerVars,
       queueVars, sharedVars, Go, Local
<1>13. ASSUME Send PROVE Resume'
  BY <1>13, <1>0, Sends DEF Resume, ReconnectingNeverWaits, Delivered, lifeVars, ackVars, shedVars, Shutting
<1>14. ASSUME Sent PROVE Resume'
  BY <1>14, <1>0 DEF Resume, ReconnectingNeverWaits, Delivered, LifeTyped,
       EpochTyped, TicketTyped, Place, Over, WorkerTyped, Locals, OnLine,
       Looping, Talking, Reaching, Away, Shutting, Sent, Acked, KeepTransport,
       lifeVars, epochVars, ackVars, shedVars, headerVars, queueVars,
       sharedVars, Go, Local
<1>15. ASSUME SendFails PROVE Resume'
  BY <1>15, <1>0 DEF Resume, ReconnectingNeverWaits, Delivered, LifeTyped,
       EpochTyped, TicketTyped, Place, Over, WorkerTyped, Locals, OnLine,
       Looping, Talking, Reaching, Away, Shutting, SendFails, Acked,
       LoseTransport, lifeVars, epochVars, ackVars, shedVars, headerVars,
       queueVars, sharedVars, Go, Local
<1>16. ASSUME ReadHeaders PROVE Resume'
  BY <1>16, <1>0 DEF Resume, ReconnectingNeverWaits, Delivered, LifeTyped,
       EpochTyped, TicketTyped, Place, Over, WorkerTyped, Locals, OnLine,
       Looping, Talking, Reaching, Away, Shutting, ReadHeaders, lifeVars,
       epochVars, ackVars, shedVars, headerVars, queueVars, sharedVars, Go,
       Local
<1>17. ASSUME ConnectPrimed PROVE Resume'
  BY <1>17, <1>0 DEF Resume, ReconnectingNeverWaits, Delivered, LifeTyped,
       EpochTyped, TicketTyped, Place, Over, WorkerTyped, Locals, OnLine,
       Looping, Talking, Reaching, Away, Shutting, ConnectPrimed, Primed,
       lifeVars, epochVars, ackVars, shedVars, headerVars, queueVars,
       sharedVars, Go, Local
<1>18. ASSUME Close PROVE Resume'
  BY <1>18, <1>0 DEF Resume, ReconnectingNeverWaits, Delivered, LifeTyped,
       EpochTyped, TicketTyped, Place, Over, WorkerTyped, Locals, OnLine,
       Looping, Talking, Reaching, Away, Shutting, Close, BeginIO, lifeVars,
       epochVars, ackVars, shedVars, headerVars, queueVars, sharedVars, Go,
       Local
<1>19. ASSUME Closed PROVE Resume'
  BY <1>19, <1>0 DEF Resume, ReconnectingNeverWaits, Delivered, LifeTyped,
       EpochTyped, TicketTyped, Place, Over, WorkerTyped, Locals, OnLine,
       Looping, Talking, Reaching, Away, Shutting, Closed, Acked,
       LoseTransport, lifeVars, epochVars, ackVars, shedVars, headerVars,
       queueVars, sharedVars, Go, Local
<1>20. ASSUME Reconnect PROVE Resume'
  BY <1>20, <1>0 DEF Resume, ReconnectingNeverWaits, Delivered, LifeTyped,
       EpochTyped, TicketTyped, Place, Over, WorkerTyped, Locals, OnLine,
       Looping, Talking, Reaching, Away, Shutting, Reconnect, ReconnectQueue,
       lifeVars, epochVars, ackVars, shedVars, headerVars, queueVars,
       sharedVars, Go, Local
<1>21. ASSUME TakeCancellation PROVE Resume'
  BY <1>21, <1>0 DEF Resume, ReconnectingNeverWaits, Delivered, LifeTyped,
       EpochTyped, TicketTyped, Place, Over, WorkerTyped, Locals, OnLine,
       Looping, Talking, Reaching, Away, Shutting, TakeCancellation, lifeVars,
       epochVars, ackVars, shedVars, headerVars, queueVars, sharedVars, Go,
       Local
<1>22. ASSUME ReplaceTransport PROVE Resume'
  BY <1>22, <1>0 DEF Resume, ReconnectingNeverWaits, Delivered, LifeTyped,
       EpochTyped, TicketTyped, Place, Over, WorkerTyped, Locals, OnLine,
       Looping, Talking, Reaching, Away, Shutting, ReplaceTransport, Fresh,
       lifeVars, epochVars, ackVars, shedVars, headerVars, queueVars,
       sharedVars, Go, Local
<1>23. ASSUME ReplaceFails PROVE Resume'
  BY <1>23, <1>0 DEF Resume, ReconnectingNeverWaits, Delivered, LifeTyped,
       EpochTyped, TicketTyped, Place, Over, WorkerTyped, Locals, OnLine,
       Looping, Talking, Reaching, Away, Shutting, ReplaceFails, EndResume,
       AckDropped, KeepPending, lifeVars, epochVars, ackVars, shedVars,
       headerVars, queueVars, sharedVars, Go, Local
<1>24. ASSUME Retry PROVE Resume'
  <2>1. state = "Reconnecting"
    BY <1>24 DEF Retry, Place, Away, Life, Over, Shutting
  <2>2. w'.pc = "delay" /\ state' = state
    BY <1>24, <1>0, <2>1 DEF Retry, WorkerTyped, Locals
  <2> QED BY <1>24, <2>2 DEF Retry, Resume, ReconnectingNeverWaits, Delivered,
     epochVars, ackVars, shedVars, Shutting
<1>25. ASSUME Delayed PROVE Resume'
  BY <1>25, <1>0 DEF Resume, ReconnectingNeverWaits, Delivered, LifeTyped,
       EpochTyped, TicketTyped, Place, Over, WorkerTyped, Locals, OnLine,
       Looping, Talking, Reaching, Away, Shutting, Delayed, lifeVars,
       epochVars, ackVars, shedVars, headerVars, queueVars, sharedVars, Go,
       Local
<1>26. ASSUME RetryEnds PROVE Resume'
  BY <1>26, <1>0 DEF Resume, ReconnectingNeverWaits, Delivered, LifeTyped,
       EpochTyped, TicketTyped, Place, Over, WorkerTyped, Locals, OnLine,
       Looping, Talking, Reaching, Away, Shutting, RetryEnds, lifeVars,
       epochVars, ackVars, shedVars, headerVars, queueVars, sharedVars, Go,
       Local
<1>27. ASSUME Exhausted PROVE Resume'
  <2>1. w'.pc = "gaveUp" /\ ~resume_after_transition'
    BY <1>27, <1>0 DEF Exhausted, EndResume, Go, WorkerTyped, Locals
  <2>2. /\ UNCHANGED <<state, stop_requested, startup_timed_out, epoch>>
        /\ UNCHANGED <<delivered_epoch, delivery_ticket, enqueued_ticket>>
    BY <1>27 DEF Exhausted, EndResume, KeepPending, lifeVars, shedVars
  <2>3. stop_requested => state # "Reconnecting"
    BY DEF Life
  <2> QED BY <1>27, <2>1, <2>2, <2>3 DEF Exhausted, Resume, ReconnectingNeverWaits, Delivered
<1>28. ASSUME AttemptFailed PROVE Resume'
  BY <1>28, <1>0 DEF Resume, ReconnectingNeverWaits, Delivered, LifeTyped,
       EpochTyped, TicketTyped, Place, Over, WorkerTyped, Locals, OnLine,
       Looping, Talking, Reaching, Away, Shutting, AttemptFailed, EndResume,
       AckDropped, KeepPending, lifeVars, epochVars, ackVars, shedVars,
       headerVars, queueVars, sharedVars, Go, Local
<1>29. ASSUME Redialled PROVE Resume'
  <2>1. state' # "Reconnecting" /\ ~resume_after_transition'
    BY <1>29 DEF Redialled, Life
  <2> QED BY <2>1 DEF Resume, ReconnectingNeverWaits
<1>30. ASSUME Booted PROVE Resume'
  <2>1. /\ UNCHANGED <<stop_requested, startup_timed_out, epoch, resume_after_transition,
                        transition_cancelled_transport, delivered_epoch,
                        delivery_ticket, enqueued_ticket>>
        /\ w'.pc = "close" => w'.after = "fail"
        /\ w'.pc \in {"pop", "close"} /\ (state' = state \/ state' = "Running")
    BY <1>30, <1>0, Boots DEF Booted, epochVars, ackVars, shedVars
  <2> QED BY <2>1 DEF Resume, ReconnectingNeverWaits, Delivered, Shutting
<1>31. ASSUME GiveUp PROVE Resume'
  BY <1>31, <1>0 DEF Resume, ReconnectingNeverWaits, Delivered, LifeTyped,
       EpochTyped, TicketTyped, Place, Over, WorkerTyped, Locals, OnLine,
       Looping, Talking, Reaching, Away, Shutting, GiveUp, lifeVars,
       epochVars, ackVars, shedVars, headerVars, queueVars, sharedVars, Go,
       Local
<1>32. ASSUME Fail PROVE Resume'
  BY <1>32, <1>0 DEF Resume, ReconnectingNeverWaits, Delivered, LifeTyped,
       EpochTyped, TicketTyped, Place, Over, WorkerTyped, Locals, OnLine,
       Looping, Talking, Reaching, Away, Shutting, Fail, lifeVars, epochVars,
       ackVars, shedVars, headerVars, queueVars, sharedVars, Go, Local
<1>33. ASSUME CloseQueue PROVE Resume'
  BY <1>33, <1>0 DEF Resume, ReconnectingNeverWaits, Delivered, LifeTyped,
       EpochTyped, TicketTyped, Place, Over, WorkerTyped, Locals, OnLine,
       Looping, Talking, Reaching, Away, Shutting, CloseQueue, lifeVars,
       epochVars, ackVars, shedVars, headerVars, queueVars, sharedVars, Go,
       Local
<1>34. ASSUME Pop PROVE Resume'
  BY <1>34, <1>0 DEF Resume, ReconnectingNeverWaits, Delivered, LifeTyped,
       EpochTyped, TicketTyped, Place, Over, WorkerTyped, Locals, OnLine,
       Looping, Talking, Reaching, Away, Shutting, Pop, lifeVars, epochVars,
       ackVars, shedVars, headerVars, queueVars, sharedVars, Go, Local
<1>35. ASSUME Leave PROVE Resume'
  BY <1>35, <1>0 DEF Resume, ReconnectingNeverWaits, Delivered, LifeTyped,
       EpochTyped, TicketTyped, Place, Over, WorkerTyped, Locals, OnLine,
       Looping, Talking, Reaching, Away, Shutting, Leave, lifeVars, epochVars,
       ackVars, shedVars, headerVars, queueVars, sharedVars, Go, Local
<1>36. ASSUME Select PROVE Resume'
  BY <1>36, <1>0 DEF Resume, ReconnectingNeverWaits, Delivered, LifeTyped,
       EpochTyped, TicketTyped, Place, Over, WorkerTyped, Locals, OnLine,
       Looping, Talking, Reaching, Away, Shutting, Select, lifeVars,
       epochVars, ackVars, shedVars, headerVars, queueVars, sharedVars, Go,
       Local
<1>37. ASSUME LoopPrimed PROVE Resume'
  <2>1. w'.pc \in {"send", "pop"}
    BY <1>37, <1>0, Primes
  <2>2. UNCHANGED <<lifeVars, epochVars, ackVars, shedVars>>
    BY <1>37 DEF LoopPrimed
  <2> QED BY <2>1, <2>2 DEF Resume, ReconnectingNeverWaits, Delivered, lifeVars,
     epochVars, ackVars, shedVars, Shutting
<1>38. ASSUME TagWritten PROVE Resume'
  <2>1. state' = state /\ state # "Reconnecting"
    BY <1>38 DEF TagWritten, Place, Talking, OnLine, Life, lifeVars
  <2>2. w'.pc \in {"publish", "pop"} /\ resume_after_transition' = resume_after_transition
    BY <1>38, <1>0 DEF TagWritten, Go, WorkerTyped, Locals, epochVars
  <2> QED BY <2>1, <2>2 DEF Resume, ReconnectingNeverWaits, Shutting
<1>39. ASSUME Publish PROVE Resume'
  BY <1>39, <1>0 DEF Resume, ReconnectingNeverWaits, Delivered, LifeTyped,
       EpochTyped, TicketTyped, Place, Over, WorkerTyped, Locals, OnLine,
       Looping, Talking, Reaching, Away, Shutting, Publish, Published,
       lifeVars, epochVars, ackVars, shedVars, headerVars, queueVars,
       sharedVars, Go, Local
<1>40. ASSUME Stopped PROVE Resume'
  BY <1>40, <1>0 DEF Resume, ReconnectingNeverWaits, Delivered, LifeTyped,
       EpochTyped, TicketTyped, Place, Over, WorkerTyped, Locals, OnLine,
       Looping, Talking, Reaching, Away, Shutting, Stopped, vars, lifeVars,
       epochVars, ackVars, shedVars, headerVars, queueVars, sharedVars, Go,
       Local
<1>41. ASSUME UNCHANGED vars PROVE Resume'
  BY <1>41, <1>0 DEF Resume, ReconnectingNeverWaits, Delivered, LifeTyped,
       EpochTyped, TicketTyped, Place, Over, WorkerTyped, Locals, OnLine,
       Looping, Talking, Reaching, Away, Shutting, vars, lifeVars, epochVars,
       ackVars, shedVars, headerVars, queueVars, sharedVars, Go, Local
<1> QED BY <1>1, <1>2, <1>3, <1>4, <1>5, <1>6, <1>7, <1>8, <1>9, <1>10,
     <1>11, <1>12, <1>13, <1>14, <1>15, <1>16, <1>17, <1>18, <1>19, <1>20,
     <1>21, <1>22, <1>23, <1>24, <1>25, <1>26, <1>27, <1>28, <1>29, <1>30,
     <1>31, <1>32, <1>33, <1>34, <1>35, <1>36, <1>37, <1>38, <1>39, <1>40,
     <1>41 DEF Next, Pipeline, Owner, Watchdog, Worker

\* What a write leaves on the connection, against the epoch it was for.
LEMMA OnAirStep ==
  ASSUME SenderConstants, Typed, Place, Media, Life, OnAir, [Next]_vars
  PROVE  OnAir'
<1>0. /\ LifeTyped /\ EpochTyped /\ TicketTyped /\ HeaderTyped /\ WorkerTyped
      /\ WireTyped
  BY DEF Typed
<1>1. ASSUME NEW kinds \in Batches, EnqueueDropped(kinds) PROVE OnAir'
  <2>1. /\ UNCHANGED <<lifeVars, published_epoch, w, wire>>
        /\ epoch' = feed.epoch /\ epoch <= epoch' /\ epoch' \in Nat /\ epoch \in Nat
    BY <1>1, <1>0, Enqueues DEF EpochTyped
  <2>2. wire.epoch # None => wire.epoch \in Nat
    BY <1>0 DEF WireTyped
  <2>3. Holds => w.tag.epoch \in Nat /\ w.tag.epoch <= epoch
    BY <1>0, HeldTag
  <2> QED BY <2>1, <2>2, <2>3 DEF OnAir, OnLine, lifeVars, Holds, Place, Talking
<1>2. ASSUME NEW kinds \in Batches, EnqueueRefused(kinds) PROVE OnAir'
  <2>1. /\ UNCHANGED <<lifeVars, published_epoch, w, wire>>
        /\ epoch' = feed.epoch /\ epoch <= epoch' /\ epoch' \in Nat /\ epoch \in Nat
    BY <1>2, <1>0, Enqueues DEF EpochTyped
  <2>2. wire.epoch # None => wire.epoch \in Nat
    BY <1>0 DEF WireTyped
  <2>3. Holds => w.tag.epoch \in Nat /\ w.tag.epoch <= epoch
    BY <1>0, HeldTag
  <2> QED BY <2>1, <2>2, <2>3 DEF OnAir, OnLine, lifeVars, Holds, Place, Talking
<1>3. ASSUME NEW kinds \in Batches, EnqueuePushed(kinds) PROVE OnAir'
  <2>1. /\ UNCHANGED <<lifeVars, published_epoch, w, wire>>
        /\ epoch' = feed.epoch /\ epoch <= epoch' /\ epoch' \in Nat /\ epoch \in Nat
    BY <1>3, <1>0, Enqueues DEF EpochTyped
  <2>2. wire.epoch # None => wire.epoch \in Nat
    BY <1>0 DEF WireTyped
  <2>3. Holds => w.tag.epoch \in Nat /\ w.tag.epoch <= epoch
    BY <1>0, HeldTag
  <2> QED BY <2>1, <2>2, <2>3 DEF OnAir, OnLine, lifeVars, Holds, Place, Talking
<1>4. ASSUME NEW kinds \in Batches, EnqueueFull(kinds) PROVE OnAir'
  <2>1. /\ UNCHANGED <<lifeVars, published_epoch, w, wire>>
        /\ epoch' = feed.epoch /\ epoch <= epoch' /\ epoch' \in Nat /\ epoch \in Nat
    BY <1>4, <1>0, Enqueues DEF EpochTyped
  <2>2. wire.epoch # None => wire.epoch \in Nat
    BY <1>0 DEF WireTyped
  <2>3. Holds => w.tag.epoch \in Nat /\ w.tag.epoch <= epoch
    BY <1>0, HeldTag
  <2> QED BY <2>1, <2>2, <2>3 DEF OnAir, OnLine, lifeVars, Holds, Place, Talking
<1>5. ASSUME InvalidateEpoch PROVE OnAir'
  <2>1. /\ UNCHANGED <<lifeVars, published_epoch, w, wire>>
        /\ epoch < epoch' /\ epoch' \in Nat /\ epoch \in Nat
    BY <1>5, <1>0, Invalidates DEF EpochTyped, InvalidateEpoch, ackVars
  <2>2. wire.epoch # None => wire.epoch \in Nat
    BY <1>0 DEF WireTyped
  <2>3. Holds => w.tag.epoch \in Nat /\ w.tag.epoch <= epoch
    BY <1>0, HeldTag
  <2> QED BY <2>1, <2>2, <2>3 DEF OnAir, OnLine, lifeVars, Holds, Place, Talking
<1>6. ASSUME RequestStop PROVE OnAir'
  BY <1>6, <1>0 DEF OnAir, Life, LifeTyped, EpochTyped, TicketTyped,
       WireTyped, Place, Media, Over, WorkerTyped, Locals, OnLine, Looping,
       Talking, Reaching, Away, Shutting, RequestStop, StopQueue, lifeVars,
       epochVars, ackVars, shedVars, headerVars, queueVars, sharedVars, Go,
       Local
<1>7. ASSUME Join PROVE OnAir'
  BY <1>7, <1>0 DEF OnAir, Life, LifeTyped, EpochTyped, TicketTyped,
       WireTyped, Place, Media, Over, WorkerTyped, Locals, OnLine, Looping,
       Talking, Reaching, Away, Shutting, Join, lifeVars, epochVars, ackVars,
       shedVars, headerVars, queueVars, sharedVars, Go, Local
<1>8. ASSUME WatchdogExpires PROVE OnAir'
  BY <1>8, <1>0 DEF OnAir, Life, LifeTyped, EpochTyped, TicketTyped,
       WireTyped, Place, Media, Over, WorkerTyped, Locals, OnLine, Looping,
       Talking, Reaching, Away, Shutting, WatchdogExpires, lifeVars,
       epochVars, ackVars, shedVars, headerVars, queueVars, sharedVars, Go,
       Local
<1>9. ASSUME WatchdogInterrupts PROVE OnAir'
  BY <1>9, <1>0 DEF OnAir, Life, LifeTyped, EpochTyped, TicketTyped,
       WireTyped, Place, Media, Over, WorkerTyped, Locals, OnLine, Looping,
       Talking, Reaching, Away, Shutting, WatchdogInterrupts, lifeVars,
       epochVars, ackVars, shedVars, headerVars, queueVars, sharedVars, Go,
       Local
<1>10. ASSUME Dial PROVE OnAir'
  BY <1>10, <1>0 DEF OnAir, Life, LifeTyped, EpochTyped, TicketTyped,
       WireTyped, Place, Media, Over, WorkerTyped, Locals, OnLine, Looping,
       Talking, Reaching, Away, Shutting, Dial, BeginIO, lifeVars, epochVars,
       ackVars, shedVars, headerVars, queueVars, sharedVars, Go, Local
<1>11. ASSUME Connected PROVE OnAir'
  BY <1>11, <1>0 DEF OnAir, Life, LifeTyped, EpochTyped, TicketTyped,
       WireTyped, Place, Media, Over, WorkerTyped, Locals, OnLine, Looping,
       Talking, Reaching, Away, Shutting, Connected, Acked, KeepTransport,
       SilentWire, lifeVars, epochVars, ackVars, shedVars, headerVars,
       queueVars, sharedVars, Go, Local
<1>12. ASSUME ConnectFails PROVE OnAir'
  BY <1>12, <1>0 DEF OnAir, Life, LifeTyped, EpochTyped, TicketTyped,
       WireTyped, Place, Media, Over, WorkerTyped, Locals, OnLine, Looping,
       Talking, Reaching, Away, Shutting, ConnectFails, Acked, LoseTransport,
       lifeVars, epochVars, ackVars, shedVars, headerVars, queueVars,
       sharedVars, Go, Local
<1>13. ASSUME Send PROVE OnAir'
  <2>1. w.pc = "send" /\ (w.job = "tag" => JobEpoch = w.tag.epoch)
    BY <1>13 DEF Send, JobEpoch
  <2> QED BY <1>13, <1>0, <2>1, Sends DEF OnAir, OnLine, Place, Talking, Looping, lifeVars, ackVars
<1>14. ASSUME Sent PROVE OnAir'
  <2>1. w.pc = "sending"
    BY <1>14 DEF Sent
  <2>2. w.job = "tag" => w.tag.epoch <= epoch /\ w.tag.epoch \in Nat
    BY <1>0, <2>1, HeldTag DEF Place, Talking
  <2> QED BY <1>14, <1>0, <2>1, <2>2, Writes DEF OnAir, OnLine, Place, Talking, Looping, lifeVars, ackVars
<1>15. ASSUME SendFails PROVE OnAir'
  BY <1>15, <1>0 DEF OnAir, Life, LifeTyped, EpochTyped, TicketTyped,
       WireTyped, Place, Media, Over, WorkerTyped, Locals, OnLine, Looping,
       Talking, Reaching, Away, Shutting, SendFails, Acked, LoseTransport,
       lifeVars, epochVars, ackVars, shedVars, headerVars, queueVars,
       sharedVars, Go, Local
<1>16. ASSUME ReadHeaders PROVE OnAir'
  BY <1>16, <1>0 DEF OnAir, Life, LifeTyped, EpochTyped, TicketTyped,
       WireTyped, Place, Media, Over, WorkerTyped, Locals, OnLine, Looping,
       Talking, Reaching, Away, Shutting, ReadHeaders, lifeVars, epochVars,
       ackVars, shedVars, headerVars, queueVars, sharedVars, Go, Local
<1>17. ASSUME ConnectPrimed PROVE OnAir'
  BY <1>17, <1>0 DEF OnAir, Life, LifeTyped, EpochTyped, TicketTyped,
       WireTyped, Place, Media, Over, WorkerTyped, Locals, OnLine, Looping,
       Talking, Reaching, Away, Shutting, ConnectPrimed, Primed, lifeVars,
       epochVars, ackVars, shedVars, headerVars, queueVars, sharedVars, Go,
       Local
<1>18. ASSUME Close PROVE OnAir'
  BY <1>18, <1>0 DEF OnAir, Life, LifeTyped, EpochTyped, TicketTyped,
       WireTyped, Place, Media, Over, WorkerTyped, Locals, OnLine, Looping,
       Talking, Reaching, Away, Shutting, Close, BeginIO, lifeVars, epochVars,
       ackVars, shedVars, headerVars, queueVars, sharedVars, Go, Local
<1>19. ASSUME Closed PROVE OnAir'
  BY <1>19, <1>0 DEF OnAir, Life, LifeTyped, EpochTyped, TicketTyped,
       WireTyped, Place, Media, Over, WorkerTyped, Locals, OnLine, Looping,
       Talking, Reaching, Away, Shutting, Closed, Acked, LoseTransport,
       lifeVars, epochVars, ackVars, shedVars, headerVars, queueVars,
       sharedVars, Go, Local
<1>20. ASSUME Reconnect PROVE OnAir'
  BY <1>20, <1>0 DEF OnAir, Life, LifeTyped, EpochTyped, TicketTyped,
       WireTyped, Place, Media, Over, WorkerTyped, Locals, OnLine, Looping,
       Talking, Reaching, Away, Shutting, Reconnect, ReconnectQueue, lifeVars,
       epochVars, ackVars, shedVars, headerVars, queueVars, sharedVars, Go,
       Local
<1>21. ASSUME TakeCancellation PROVE OnAir'
  BY <1>21, <1>0 DEF OnAir, Life, LifeTyped, EpochTyped, TicketTyped,
       WireTyped, Place, Media, Over, WorkerTyped, Locals, OnLine, Looping,
       Talking, Reaching, Away, Shutting, TakeCancellation, lifeVars,
       epochVars, ackVars, shedVars, headerVars, queueVars, sharedVars, Go,
       Local
<1>22. ASSUME ReplaceTransport PROVE OnAir'
  BY <1>22, <1>0 DEF OnAir, Life, LifeTyped, EpochTyped, TicketTyped,
       WireTyped, Place, Media, Over, WorkerTyped, Locals, OnLine, Looping,
       Talking, Reaching, Away, Shutting, ReplaceTransport, Fresh, lifeVars,
       epochVars, ackVars, shedVars, headerVars, queueVars, sharedVars, Go,
       Local
<1>23. ASSUME ReplaceFails PROVE OnAir'
  BY <1>23, <1>0 DEF OnAir, Life, LifeTyped, EpochTyped, TicketTyped,
       WireTyped, Place, Media, Over, WorkerTyped, Locals, OnLine, Looping,
       Talking, Reaching, Away, Shutting, ReplaceFails, EndResume, AckDropped,
       KeepPending, lifeVars, epochVars, ackVars, shedVars, headerVars,
       queueVars, sharedVars, Go, Local
<1>24. ASSUME Retry PROVE OnAir'
  BY <1>24, <1>0 DEF OnAir, Life, LifeTyped, EpochTyped, TicketTyped,
       WireTyped, Place, Media, Over, WorkerTyped, Locals, OnLine, Looping,
       Talking, Reaching, Away, Shutting, Retry, lifeVars, epochVars, ackVars,
       shedVars, headerVars, queueVars, sharedVars, Go, Local
<1>25. ASSUME Delayed PROVE OnAir'
  BY <1>25, <1>0 DEF OnAir, Life, LifeTyped, EpochTyped, TicketTyped,
       WireTyped, Place, Media, Over, WorkerTyped, Locals, OnLine, Looping,
       Talking, Reaching, Away, Shutting, Delayed, lifeVars, epochVars,
       ackVars, shedVars, headerVars, queueVars, sharedVars, Go, Local
<1>26. ASSUME RetryEnds PROVE OnAir'
  BY <1>26, <1>0 DEF OnAir, Life, LifeTyped, EpochTyped, TicketTyped,
       WireTyped, Place, Media, Over, WorkerTyped, Locals, OnLine, Looping,
       Talking, Reaching, Away, Shutting, RetryEnds, lifeVars, epochVars,
       ackVars, shedVars, headerVars, queueVars, sharedVars, Go, Local
<1>27. ASSUME Exhausted PROVE OnAir'
  BY <1>27, <1>0 DEF OnAir, Life, LifeTyped, EpochTyped, TicketTyped,
       WireTyped, Place, Media, Over, WorkerTyped, Locals, OnLine, Looping,
       Talking, Reaching, Away, Shutting, Exhausted, EndResume, AckDropped,
       KeepPending, lifeVars, epochVars, ackVars, shedVars, headerVars,
       queueVars, sharedVars, Go, Local
<1>28. ASSUME AttemptFailed PROVE OnAir'
  BY <1>28, <1>0 DEF OnAir, Life, LifeTyped, EpochTyped, TicketTyped,
       WireTyped, Place, Media, Over, WorkerTyped, Locals, OnLine, Looping,
       Talking, Reaching, Away, Shutting, AttemptFailed, EndResume,
       AckDropped, KeepPending, lifeVars, epochVars, ackVars, shedVars,
       headerVars, queueVars, sharedVars, Go, Local
<1>29. ASSUME Redialled PROVE OnAir'
  BY <1>29, <1>0 DEF OnAir, Life, LifeTyped, EpochTyped, TicketTyped,
       WireTyped, Place, Media, Over, WorkerTyped, Locals, OnLine, Looping,
       Talking, Reaching, Away, Shutting, Redialled, Rejoin, lifeVars,
       epochVars, ackVars, shedVars, headerVars, queueVars, sharedVars, Go,
       Local
<1>30. ASSUME Booted PROVE OnAir'
  BY <1>30, <1>0, Boots DEF Booted, OnAir, OnLine, Place, epochVars, ackVars
<1>31. ASSUME GiveUp PROVE OnAir'
  BY <1>31, <1>0 DEF OnAir, Life, LifeTyped, EpochTyped, TicketTyped,
       WireTyped, Place, Media, Over, WorkerTyped, Locals, OnLine, Looping,
       Talking, Reaching, Away, Shutting, GiveUp, lifeVars, epochVars,
       ackVars, shedVars, headerVars, queueVars, sharedVars, Go, Local
<1>32. ASSUME Fail PROVE OnAir'
  BY <1>32, <1>0 DEF OnAir, Life, LifeTyped, EpochTyped, TicketTyped,
       WireTyped, Place, Media, Over, WorkerTyped, Locals, OnLine, Looping,
       Talking, Reaching, Away, Shutting, Fail, lifeVars, epochVars, ackVars,
       shedVars, headerVars, queueVars, sharedVars, Go, Local
<1>33. ASSUME CloseQueue PROVE OnAir'
  BY <1>33, <1>0 DEF OnAir, Life, LifeTyped, EpochTyped, TicketTyped,
       WireTyped, Place, Media, Over, WorkerTyped, Locals, OnLine, Looping,
       Talking, Reaching, Away, Shutting, CloseQueue, lifeVars, epochVars,
       ackVars, shedVars, headerVars, queueVars, sharedVars, Go, Local
<1>34. ASSUME Pop PROVE OnAir'
  BY <1>34, <1>0 DEF OnAir, Life, LifeTyped, EpochTyped, TicketTyped,
       WireTyped, Place, Media, Over, WorkerTyped, Locals, OnLine, Looping,
       Talking, Reaching, Away, Shutting, Pop, lifeVars, epochVars, ackVars,
       shedVars, headerVars, queueVars, sharedVars, Go, Local
<1>35. ASSUME Leave PROVE OnAir'
  BY <1>35, <1>0 DEF OnAir, Life, LifeTyped, EpochTyped, TicketTyped,
       WireTyped, Place, Media, Over, WorkerTyped, Locals, OnLine, Looping,
       Talking, Reaching, Away, Shutting, Leave, lifeVars, epochVars, ackVars,
       shedVars, headerVars, queueVars, sharedVars, Go, Local
<1>36. ASSUME Select PROVE OnAir'
  BY <1>36, <1>0 DEF OnAir, Life, LifeTyped, EpochTyped, TicketTyped,
       WireTyped, Place, Media, Over, WorkerTyped, Locals, OnLine, Looping,
       Talking, Reaching, Away, Shutting, Select, lifeVars, epochVars,
       ackVars, shedVars, headerVars, queueVars, sharedVars, Go, Local
<1>37. ASSUME LoopPrimed PROVE OnAir'
  <2>1. UNCHANGED <<lifeVars, ackVars, epoch, wire>> /\ w.pc = "wrote" /\ OnLine
    BY <1>37 DEF LoopPrimed, OnLine, epochVars
  <2> QED BY <1>0, <1>37, <2>1, Primes DEF OnAir, OnLine, Place, Talking, Looping, lifeVars, ackVars
<1>38. ASSUME TagWritten PROVE OnAir'
  BY <1>38, <1>0 DEF OnAir, Life, LifeTyped, EpochTyped, TicketTyped,
       WireTyped, Place, Media, Over, WorkerTyped, Locals, OnLine, Looping,
       Talking, Reaching, Away, Shutting, TagWritten, TicketCounts, lifeVars,
       epochVars, ackVars, shedVars, headerVars, queueVars, sharedVars, Go,
       Local
<1>39. ASSUME Publish PROVE OnAir'
  BY <1>39, <1>0 DEF OnAir, Life, LifeTyped, EpochTyped, TicketTyped,
       WireTyped, Place, Media, Over, WorkerTyped, Locals, OnLine, Looping,
       Talking, Reaching, Away, Shutting, Publish, Published, lifeVars,
       epochVars, ackVars, shedVars, headerVars, queueVars, sharedVars, Go,
       Local
<1>40. ASSUME Stopped PROVE OnAir'
  BY <1>40, <1>0 DEF OnAir, Life, LifeTyped, EpochTyped, TicketTyped,
       WireTyped, Place, Media, Over, WorkerTyped, Locals, OnLine, Looping,
       Talking, Reaching, Away, Shutting, Stopped, vars, lifeVars, epochVars,
       ackVars, shedVars, headerVars, queueVars, sharedVars, Go, Local
<1>41. ASSUME UNCHANGED vars PROVE OnAir'
  BY <1>41, <1>0 DEF OnAir, Life, LifeTyped, EpochTyped, TicketTyped,
       WireTyped, Place, Media, Over, WorkerTyped, Locals, OnLine, Looping,
       Talking, Reaching, Away, Shutting, vars, lifeVars, epochVars, ackVars,
       shedVars, headerVars, queueVars, sharedVars, Go, Local
<1> QED BY <1>1, <1>2, <1>3, <1>4, <1>5, <1>6, <1>7, <1>8, <1>9, <1>10,
     <1>11, <1>12, <1>13, <1>14, <1>15, <1>16, <1>17, <1>18, <1>19, <1>20,
     <1>21, <1>22, <1>23, <1>24, <1>25, <1>26, <1>27, <1>28, <1>29, <1>30,
     <1>31, <1>32, <1>33, <1>34, <1>35, <1>36, <1>37, <1>38, <1>39, <1>40,
     <1>41 DEF Next, Pipeline, Owner, Watchdog, Worker

\* Once it stops awaiting a keyframe, one of this epoch is on the connection.
LEMMA JoinedStep ==
  ASSUME SenderConstants, Typed, Place, Media, Life, OnAir, Fenced, Joined, [Next]_vars
  PROVE  Joined'
<1>0. /\ LifeTyped /\ EpochTyped /\ TicketTyped /\ HeaderTyped /\ WorkerTyped
      /\ WireTyped
  BY DEF Typed
<1>1. ASSUME NEW kinds \in Batches, EnqueueDropped(kinds) PROVE Joined'
  <2>1. /\ UNCHANGED <<lifeVars, w, wire>>
        /\ epoch' = feed.epoch /\ epoch <= epoch' /\ epoch' \in Nat /\ epoch \in Nat
    BY <1>1, <1>0, Enqueues DEF EpochTyped
  <2>2. w.media \in Nat /\ w.media <= epoch
    BY <1>0 DEF WorkerTyped, Locals, Media
  <2> QED BY <2>1, <2>2 DEF Joined, OnLine, lifeVars
<1>2. ASSUME NEW kinds \in Batches, EnqueueRefused(kinds) PROVE Joined'
  <2>1. /\ UNCHANGED <<lifeVars, w, wire>>
        /\ epoch' = feed.epoch /\ epoch <= epoch' /\ epoch' \in Nat /\ epoch \in Nat
    BY <1>2, <1>0, Enqueues DEF EpochTyped
  <2>2. w.media \in Nat /\ w.media <= epoch
    BY <1>0 DEF WorkerTyped, Locals, Media
  <2> QED BY <2>1, <2>2 DEF Joined, OnLine, lifeVars
<1>3. ASSUME NEW kinds \in Batches, EnqueuePushed(kinds) PROVE Joined'
  <2>1. /\ UNCHANGED <<lifeVars, w, wire>>
        /\ epoch' = feed.epoch /\ epoch <= epoch' /\ epoch' \in Nat /\ epoch \in Nat
    BY <1>3, <1>0, Enqueues DEF EpochTyped
  <2>2. w.media \in Nat /\ w.media <= epoch
    BY <1>0 DEF WorkerTyped, Locals, Media
  <2> QED BY <2>1, <2>2 DEF Joined, OnLine, lifeVars
<1>4. ASSUME NEW kinds \in Batches, EnqueueFull(kinds) PROVE Joined'
  <2>1. /\ UNCHANGED <<lifeVars, w, wire>>
        /\ epoch' = feed.epoch /\ epoch <= epoch' /\ epoch' \in Nat /\ epoch \in Nat
    BY <1>4, <1>0, Enqueues DEF EpochTyped
  <2>2. w.media \in Nat /\ w.media <= epoch
    BY <1>0 DEF WorkerTyped, Locals, Media
  <2> QED BY <2>1, <2>2 DEF Joined, OnLine, lifeVars
<1>5. ASSUME InvalidateEpoch PROVE Joined'
  <2>1. /\ UNCHANGED <<lifeVars, w, wire>>
        /\ epoch < epoch' /\ epoch' \in Nat /\ epoch \in Nat
    BY <1>5, <1>0, Invalidates DEF EpochTyped, InvalidateEpoch
  <2>2. w.media \in Nat /\ w.media <= epoch
    BY <1>0 DEF WorkerTyped, Locals, Media
  <2> QED BY <2>1, <2>2 DEF Joined, OnLine, lifeVars
<1>6. ASSUME RequestStop PROVE Joined'
  BY <1>6, <1>0 DEF Joined, Life, LifeTyped, EpochTyped, WireTyped, Place,
       Media, Over, WorkerTyped, Locals, OnLine, Looping, Talking, Reaching,
       Away, Shutting, RequestStop, StopQueue, lifeVars, epochVars, ackVars,
       shedVars, headerVars, queueVars, sharedVars, Go, Local
<1>7. ASSUME Join PROVE Joined'
  BY <1>7, <1>0 DEF Joined, Life, LifeTyped, EpochTyped, WireTyped, Place,
       Media, Over, WorkerTyped, Locals, OnLine, Looping, Talking, Reaching,
       Away, Shutting, Join, lifeVars, epochVars, ackVars, shedVars,
       headerVars, queueVars, sharedVars, Go, Local
<1>8. ASSUME WatchdogExpires PROVE Joined'
  BY <1>8, <1>0 DEF Joined, Life, LifeTyped, EpochTyped, WireTyped, Place,
       Media, Over, WorkerTyped, Locals, OnLine, Looping, Talking, Reaching,
       Away, Shutting, WatchdogExpires, lifeVars, epochVars, ackVars,
       shedVars, headerVars, queueVars, sharedVars, Go, Local
<1>9. ASSUME WatchdogInterrupts PROVE Joined'
  BY <1>9, <1>0 DEF Joined, Life, LifeTyped, EpochTyped, WireTyped, Place,
       Media, Over, WorkerTyped, Locals, OnLine, Looping, Talking, Reaching,
       Away, Shutting, WatchdogInterrupts, lifeVars, epochVars, ackVars,
       shedVars, headerVars, queueVars, sharedVars, Go, Local
<1>10. ASSUME Dial PROVE Joined'
  BY <1>10, <1>0 DEF Joined, Life, LifeTyped, EpochTyped, WireTyped, Place,
       Media, Over, WorkerTyped, Locals, OnLine, Looping, Talking, Reaching,
       Away, Shutting, Dial, BeginIO, lifeVars, epochVars, ackVars, shedVars,
       headerVars, queueVars, sharedVars, Go, Local
<1>11. ASSUME Connected PROVE Joined'
  BY <1>11, <1>0 DEF Joined, Life, LifeTyped, EpochTyped, WireTyped, Place,
       Media, Over, WorkerTyped, Locals, OnLine, Looping, Talking, Reaching,
       Away, Shutting, Connected, Acked, KeepTransport, SilentWire, lifeVars,
       epochVars, ackVars, shedVars, headerVars, queueVars, sharedVars, Go,
       Local
<1>12. ASSUME ConnectFails PROVE Joined'
  BY <1>12, <1>0 DEF Joined, Life, LifeTyped, EpochTyped, WireTyped, Place,
       Media, Over, WorkerTyped, Locals, OnLine, Looping, Talking, Reaching,
       Away, Shutting, ConnectFails, Acked, LoseTransport, lifeVars,
       epochVars, ackVars, shedVars, headerVars, queueVars, sharedVars, Go,
       Local
<1>13. ASSUME Send PROVE Joined'
  <2>1. w.pc = "send" /\ (w.job = "tag" => JobEpoch = w.tag.epoch)
    BY <1>13 DEF Send, JobEpoch
  <2> QED BY <1>13, <1>0, <2>1, Sends DEF Joined, OnLine, Place, Talking, Looping, lifeVars
<1>14. ASSUME Sent PROVE Joined'
  <2>1. w.pc = "sending"
    BY <1>14 DEF Sent
  <2>2. Holds => /\ w.tag.epoch <= epoch /\ w.tag.epoch \in Nat /\ epoch \in Nat
                 /\ w.tag.video \in Nat /\ (IsVideo(w.tag) => w.tag.video > 0)
                 /\ (w.tag.kind = "key" => IsVideo(w.tag))
    BY <1>0, HeldTag DEF EpochTyped, IsVideo
  <2>3. ASSUME w.job = "tag", w.media = epoch PROVE w.tag.epoch = epoch
    BY <2>1, <2>3 DEF Media, Talking, Place
  <2>4. wire.video \in Nat
    BY <1>0 DEF WireTyped
  <2> QED BY <1>14, <1>0, <2>1, <2>2, <2>3, <2>4, Writes DEF Joined, OnLine, Place, Talking, Looping, lifeVars
<1>15. ASSUME SendFails PROVE Joined'
  BY <1>15, <1>0 DEF Joined, Life, LifeTyped, EpochTyped, WireTyped, Place,
       Media, Over, WorkerTyped, Locals, OnLine, Looping, Talking, Reaching,
       Away, Shutting, SendFails, Acked, LoseTransport, lifeVars, epochVars,
       ackVars, shedVars, headerVars, queueVars, sharedVars, Go, Local
<1>16. ASSUME ReadHeaders PROVE Joined'
  BY <1>16, <1>0 DEF Joined, Life, LifeTyped, EpochTyped, WireTyped, Place,
       Media, Over, WorkerTyped, Locals, OnLine, Looping, Talking, Reaching,
       Away, Shutting, ReadHeaders, lifeVars, epochVars, ackVars, shedVars,
       headerVars, queueVars, sharedVars, Go, Local
<1>17. ASSUME ConnectPrimed PROVE Joined'
  BY <1>17, <1>0 DEF Joined, Life, LifeTyped, EpochTyped, WireTyped, Place,
       Media, Over, WorkerTyped, Locals, OnLine, Looping, Talking, Reaching,
       Away, Shutting, ConnectPrimed, Primed, lifeVars, epochVars, ackVars,
       shedVars, headerVars, queueVars, sharedVars, Go, Local
<1>18. ASSUME Close PROVE Joined'
  BY <1>18, <1>0 DEF Joined, Life, LifeTyped, EpochTyped, WireTyped, Place,
       Media, Over, WorkerTyped, Locals, OnLine, Looping, Talking, Reaching,
       Away, Shutting, Close, BeginIO, lifeVars, epochVars, ackVars, shedVars,
       headerVars, queueVars, sharedVars, Go, Local
<1>19. ASSUME Closed PROVE Joined'
  BY <1>19, <1>0 DEF Joined, Life, LifeTyped, EpochTyped, WireTyped, Place,
       Media, Over, WorkerTyped, Locals, OnLine, Looping, Talking, Reaching,
       Away, Shutting, Closed, Acked, LoseTransport, lifeVars, epochVars,
       ackVars, shedVars, headerVars, queueVars, sharedVars, Go, Local
<1>20. ASSUME Reconnect PROVE Joined'
  BY <1>20, <1>0 DEF Joined, Life, LifeTyped, EpochTyped, WireTyped, Place,
       Media, Over, WorkerTyped, Locals, OnLine, Looping, Talking, Reaching,
       Away, Shutting, Reconnect, ReconnectQueue, lifeVars, epochVars,
       ackVars, shedVars, headerVars, queueVars, sharedVars, Go, Local
<1>21. ASSUME TakeCancellation PROVE Joined'
  BY <1>21, <1>0 DEF Joined, Life, LifeTyped, EpochTyped, WireTyped, Place,
       Media, Over, WorkerTyped, Locals, OnLine, Looping, Talking, Reaching,
       Away, Shutting, TakeCancellation, lifeVars, epochVars, ackVars,
       shedVars, headerVars, queueVars, sharedVars, Go, Local
<1>22. ASSUME ReplaceTransport PROVE Joined'
  BY <1>22, <1>0 DEF Joined, Life, LifeTyped, EpochTyped, WireTyped, Place,
       Media, Over, WorkerTyped, Locals, OnLine, Looping, Talking, Reaching,
       Away, Shutting, ReplaceTransport, Fresh, lifeVars, epochVars, ackVars,
       shedVars, headerVars, queueVars, sharedVars, Go, Local
<1>23. ASSUME ReplaceFails PROVE Joined'
  BY <1>23, <1>0 DEF Joined, Life, LifeTyped, EpochTyped, WireTyped, Place,
       Media, Over, WorkerTyped, Locals, OnLine, Looping, Talking, Reaching,
       Away, Shutting, ReplaceFails, EndResume, AckDropped, KeepPending,
       lifeVars, epochVars, ackVars, shedVars, headerVars, queueVars,
       sharedVars, Go, Local
<1>24. ASSUME Retry PROVE Joined'
  BY <1>24, <1>0 DEF Joined, Life, LifeTyped, EpochTyped, WireTyped, Place,
       Media, Over, WorkerTyped, Locals, OnLine, Looping, Talking, Reaching,
       Away, Shutting, Retry, lifeVars, epochVars, ackVars, shedVars,
       headerVars, queueVars, sharedVars, Go, Local
<1>25. ASSUME Delayed PROVE Joined'
  BY <1>25, <1>0 DEF Joined, Life, LifeTyped, EpochTyped, WireTyped, Place,
       Media, Over, WorkerTyped, Locals, OnLine, Looping, Talking, Reaching,
       Away, Shutting, Delayed, lifeVars, epochVars, ackVars, shedVars,
       headerVars, queueVars, sharedVars, Go, Local
<1>26. ASSUME RetryEnds PROVE Joined'
  BY <1>26, <1>0 DEF Joined, Life, LifeTyped, EpochTyped, WireTyped, Place,
       Media, Over, WorkerTyped, Locals, OnLine, Looping, Talking, Reaching,
       Away, Shutting, RetryEnds, lifeVars, epochVars, ackVars, shedVars,
       headerVars, queueVars, sharedVars, Go, Local
<1>27. ASSUME Exhausted PROVE Joined'
  BY <1>27, <1>0 DEF Joined, Life, LifeTyped, EpochTyped, WireTyped, Place,
       Media, Over, WorkerTyped, Locals, OnLine, Looping, Talking, Reaching,
       Away, Shutting, Exhausted, EndResume, AckDropped, KeepPending,
       lifeVars, epochVars, ackVars, shedVars, headerVars, queueVars,
       sharedVars, Go, Local
<1>28. ASSUME AttemptFailed PROVE Joined'
  BY <1>28, <1>0 DEF Joined, Life, LifeTyped, EpochTyped, WireTyped, Place,
       Media, Over, WorkerTyped, Locals, OnLine, Looping, Talking, Reaching,
       Away, Shutting, AttemptFailed, EndResume, AckDropped, KeepPending,
       lifeVars, epochVars, ackVars, shedVars, headerVars, queueVars,
       sharedVars, Go, Local
<1>29. ASSUME Redialled PROVE Joined'
  BY <1>29, <1>0 DEF Joined, Life, LifeTyped, EpochTyped, WireTyped, Place,
       Media, Over, WorkerTyped, Locals, OnLine, Looping, Talking, Reaching,
       Away, Shutting, Redialled, Rejoin, lifeVars, epochVars, ackVars,
       shedVars, headerVars, queueVars, sharedVars, Go, Local
<1>30. ASSUME Booted PROVE Joined'
  BY <1>30, <1>0, Boots DEF Booted, Joined, OnLine, Place, Looping, Talking, epochVars
<1>31. ASSUME GiveUp PROVE Joined'
  BY <1>31, <1>0 DEF Joined, Life, LifeTyped, EpochTyped, WireTyped, Place,
       Media, Over, WorkerTyped, Locals, OnLine, Looping, Talking, Reaching,
       Away, Shutting, GiveUp, lifeVars, epochVars, ackVars, shedVars,
       headerVars, queueVars, sharedVars, Go, Local
<1>32. ASSUME Fail PROVE Joined'
  BY <1>32, <1>0 DEF Joined, Life, LifeTyped, EpochTyped, WireTyped, Place,
       Media, Over, WorkerTyped, Locals, OnLine, Looping, Talking, Reaching,
       Away, Shutting, Fail, lifeVars, epochVars, ackVars, shedVars,
       headerVars, queueVars, sharedVars, Go, Local
<1>33. ASSUME CloseQueue PROVE Joined'
  BY <1>33, <1>0 DEF Joined, Life, LifeTyped, EpochTyped, WireTyped, Place,
       Media, Over, WorkerTyped, Locals, OnLine, Looping, Talking, Reaching,
       Away, Shutting, CloseQueue, lifeVars, epochVars, ackVars, shedVars,
       headerVars, queueVars, sharedVars, Go, Local
<1>34. ASSUME Pop PROVE Joined'
  BY <1>34, <1>0 DEF Joined, Life, LifeTyped, EpochTyped, WireTyped, Place,
       Media, Over, WorkerTyped, Locals, OnLine, Looping, Talking, Reaching,
       Away, Shutting, Pop, lifeVars, epochVars, ackVars, shedVars,
       headerVars, queueVars, sharedVars, Go, Local
<1>35. ASSUME Leave PROVE Joined'
  BY <1>35, <1>0 DEF Joined, Life, LifeTyped, EpochTyped, WireTyped, Place,
       Media, Over, WorkerTyped, Locals, OnLine, Looping, Talking, Reaching,
       Away, Shutting, Leave, lifeVars, epochVars, ackVars, shedVars,
       headerVars, queueVars, sharedVars, Go, Local
<1>36. ASSUME Select PROVE Joined'
  BY <1>36, <1>0 DEF Joined, Life, LifeTyped, EpochTyped, WireTyped, Place,
       Media, Over, WorkerTyped, Locals, OnLine, Looping, Talking, Reaching,
       Away, Shutting, Select, lifeVars, epochVars, ackVars, shedVars,
       headerVars, queueVars, sharedVars, Go, Local
<1>37. ASSUME LoopPrimed PROVE Joined'
  <2>1. UNCHANGED <<lifeVars, epoch, wire>> /\ w.pc = "wrote" /\ OnLine /\ w.job = "header"
    BY <1>37 DEF LoopPrimed, OnLine, epochVars
  <2> QED BY <1>0, <1>37, <2>1, Primes DEF Joined, OnLine, Place, Talking, Looping, lifeVars, Joins
<1>38. ASSUME TagWritten PROVE Joined'
  BY <1>38, <1>0 DEF Joined, Life, LifeTyped, EpochTyped, WireTyped, Place,
       Media, Over, WorkerTyped, Locals, OnLine, Looping, Talking, Reaching,
       Away, Shutting, TagWritten, TicketCounts, lifeVars, epochVars, ackVars,
       shedVars, headerVars, queueVars, sharedVars, Go, Local
<1>39. ASSUME Publish PROVE Joined'
  BY <1>39, <1>0 DEF Joined, Life, LifeTyped, EpochTyped, WireTyped, Place,
       Media, Over, WorkerTyped, Locals, OnLine, Looping, Talking, Reaching,
       Away, Shutting, Publish, Published, lifeVars, epochVars, ackVars,
       shedVars, headerVars, queueVars, sharedVars, Go, Local
<1>40. ASSUME Stopped PROVE Joined'
  BY <1>40, <1>0 DEF Joined, Life, LifeTyped, EpochTyped, WireTyped, Place,
       Media, Over, WorkerTyped, Locals, OnLine, Looping, Talking, Reaching,
       Away, Shutting, Stopped, vars, lifeVars, epochVars, ackVars, shedVars,
       headerVars, queueVars, sharedVars, Go, Local
<1>41. ASSUME UNCHANGED vars PROVE Joined'
  BY <1>41, <1>0 DEF Joined, Life, LifeTyped, EpochTyped, WireTyped, Place,
       Media, Over, WorkerTyped, Locals, OnLine, Looping, Talking, Reaching,
       Away, Shutting, vars, lifeVars, epochVars, ackVars, shedVars,
       headerVars, queueVars, sharedVars, Go, Local
<1> QED BY <1>1, <1>2, <1>3, <1>4, <1>5, <1>6, <1>7, <1>8, <1>9, <1>10,
     <1>11, <1>12, <1>13, <1>14, <1>15, <1>16, <1>17, <1>18, <1>19, <1>20,
     <1>21, <1>22, <1>23, <1>24, <1>25, <1>26, <1>27, <1>28, <1>29, <1>30,
     <1>31, <1>32, <1>33, <1>34, <1>35, <1>36, <1>37, <1>38, <1>39, <1>40,
     <1>41 DEF Next, Pipeline, Owner, Watchdog, Worker

\* published_epoch_ is set after the write, and reset with the connection.
LEMMA WrittenStep ==
  ASSUME SenderConstants, Typed, Place, Media, Life, OnAir, Joined, BoundaryWrittenWhileLive, [Next]_vars
  PROVE  BoundaryWrittenWhileLive'
<1>0. /\ LifeTyped /\ EpochTyped /\ TicketTyped /\ HeaderTyped /\ WorkerTyped
      /\ WireTyped
  BY DEF Typed
<1>1. ASSUME NEW kinds \in Batches, EnqueueDropped(kinds) PROVE BoundaryWrittenWhileLive'
  <2>1. UNCHANGED <<lifeVars, published_epoch, wire>>
    BY <1>1, Enqueues
  <2> QED BY <2>1 DEF BoundaryWrittenWhileLive, BoundaryWritten, lifeVars
<1>2. ASSUME NEW kinds \in Batches, EnqueueRefused(kinds) PROVE BoundaryWrittenWhileLive'
  <2>1. UNCHANGED <<lifeVars, published_epoch, wire>>
    BY <1>2, Enqueues
  <2> QED BY <2>1 DEF BoundaryWrittenWhileLive, BoundaryWritten, lifeVars
<1>3. ASSUME NEW kinds \in Batches, EnqueuePushed(kinds) PROVE BoundaryWrittenWhileLive'
  <2>1. UNCHANGED <<lifeVars, published_epoch, wire>>
    BY <1>3, Enqueues
  <2> QED BY <2>1 DEF BoundaryWrittenWhileLive, BoundaryWritten, lifeVars
<1>4. ASSUME NEW kinds \in Batches, EnqueueFull(kinds) PROVE BoundaryWrittenWhileLive'
  <2>1. UNCHANGED <<lifeVars, published_epoch, wire>>
    BY <1>4, Enqueues
  <2> QED BY <2>1 DEF BoundaryWrittenWhileLive, BoundaryWritten, lifeVars
<1>5. ASSUME InvalidateEpoch PROVE BoundaryWrittenWhileLive'
  <2>1. UNCHANGED <<lifeVars, published_epoch, wire>>
    BY <1>5 DEF InvalidateEpoch, ackVars
  <2> QED BY <2>1 DEF BoundaryWrittenWhileLive, BoundaryWritten, lifeVars
<1>6. ASSUME RequestStop PROVE BoundaryWrittenWhileLive'
  BY <1>6, <1>0 DEF BoundaryWrittenWhileLive, BoundaryWritten, OnAir, Life,
       LifeTyped, EpochTyped, TicketTyped, WireTyped, Place, Media, Over,
       WorkerTyped, Locals, OnLine, Looping, Talking, Reaching, Away,
       Shutting, RequestStop, StopQueue, lifeVars, epochVars, ackVars,
       shedVars, headerVars, queueVars, sharedVars, Go, Local
<1>7. ASSUME Join PROVE BoundaryWrittenWhileLive'
  BY <1>7, <1>0 DEF BoundaryWrittenWhileLive, BoundaryWritten, OnAir, Life,
       LifeTyped, EpochTyped, TicketTyped, WireTyped, Place, Media, Over,
       WorkerTyped, Locals, OnLine, Looping, Talking, Reaching, Away,
       Shutting, Join, lifeVars, epochVars, ackVars, shedVars, headerVars,
       queueVars, sharedVars, Go, Local
<1>8. ASSUME WatchdogExpires PROVE BoundaryWrittenWhileLive'
  BY <1>8, <1>0 DEF BoundaryWrittenWhileLive, BoundaryWritten, OnAir, Life,
       LifeTyped, EpochTyped, TicketTyped, WireTyped, Place, Media, Over,
       WorkerTyped, Locals, OnLine, Looping, Talking, Reaching, Away,
       Shutting, WatchdogExpires, lifeVars, epochVars, ackVars, shedVars,
       headerVars, queueVars, sharedVars, Go, Local
<1>9. ASSUME WatchdogInterrupts PROVE BoundaryWrittenWhileLive'
  BY <1>9, <1>0 DEF BoundaryWrittenWhileLive, BoundaryWritten, OnAir, Life,
       LifeTyped, EpochTyped, TicketTyped, WireTyped, Place, Media, Over,
       WorkerTyped, Locals, OnLine, Looping, Talking, Reaching, Away,
       Shutting, WatchdogInterrupts, lifeVars, epochVars, ackVars, shedVars,
       headerVars, queueVars, sharedVars, Go, Local
<1>10. ASSUME Dial PROVE BoundaryWrittenWhileLive'
  BY <1>10, <1>0 DEF BoundaryWrittenWhileLive, BoundaryWritten, OnAir, Life,
       LifeTyped, EpochTyped, TicketTyped, WireTyped, Place, Media, Over,
       WorkerTyped, Locals, OnLine, Looping, Talking, Reaching, Away,
       Shutting, Dial, BeginIO, lifeVars, epochVars, ackVars, shedVars,
       headerVars, queueVars, sharedVars, Go, Local
<1>11. ASSUME Connected PROVE BoundaryWrittenWhileLive'
  BY <1>11, <1>0 DEF BoundaryWrittenWhileLive, BoundaryWritten, OnAir, Life,
       LifeTyped, EpochTyped, TicketTyped, WireTyped, Place, Media, Over,
       WorkerTyped, Locals, OnLine, Looping, Talking, Reaching, Away,
       Shutting, Connected, Acked, KeepTransport, SilentWire, lifeVars,
       epochVars, ackVars, shedVars, headerVars, queueVars, sharedVars, Go,
       Local
<1>12. ASSUME ConnectFails PROVE BoundaryWrittenWhileLive'
  BY <1>12, <1>0 DEF BoundaryWrittenWhileLive, BoundaryWritten, OnAir, Life,
       LifeTyped, EpochTyped, TicketTyped, WireTyped, Place, Media, Over,
       WorkerTyped, Locals, OnLine, Looping, Talking, Reaching, Away,
       Shutting, ConnectFails, Acked, LoseTransport, lifeVars, epochVars,
       ackVars, shedVars, headerVars, queueVars, sharedVars, Go, Local
<1>13. ASSUME Send PROVE BoundaryWrittenWhileLive'
  BY <1>13, <1>0, Sends DEF BoundaryWrittenWhileLive, BoundaryWritten, lifeVars, ackVars
<1>14. ASSUME Sent PROVE BoundaryWrittenWhileLive'
  <2>1. w.pc = "sending"
    BY <1>14 DEF Sent
  <2>2. Holds => /\ w.tag.epoch \in Nat /\ w.tag.video \in Nat
                 /\ (IsVideo(w.tag) => w.tag.video > 0)
    BY <1>0, HeldTag
  <2>3. /\ wire.epoch \in Nat \cup {None} /\ wire.video \in Nat /\ None \notin Nat
        /\ published_epoch \in Nat
    BY <1>0 DEF WireTyped, SenderConstants, TicketTyped
  <2>4. w.job = "tag" /\ wire.epoch # None => wire.epoch <= w.tag.epoch
    BY <2>1 DEF OnAir
  <2> QED BY <1>14, <1>0, <2>1, <2>2, <2>3, <2>4, Writes DEF BoundaryWrittenWhileLive, BoundaryWritten, lifeVars, ackVars
<1>15. ASSUME SendFails PROVE BoundaryWrittenWhileLive'
  BY <1>15, <1>0 DEF BoundaryWrittenWhileLive, BoundaryWritten, OnAir, Life,
       LifeTyped, EpochTyped, TicketTyped, WireTyped, Place, Media, Over,
       WorkerTyped, Locals, OnLine, Looping, Talking, Reaching, Away,
       Shutting, SendFails, Acked, LoseTransport, lifeVars, epochVars,
       ackVars, shedVars, headerVars, queueVars, sharedVars, Go, Local
<1>16. ASSUME ReadHeaders PROVE BoundaryWrittenWhileLive'
  BY <1>16, <1>0 DEF BoundaryWrittenWhileLive, BoundaryWritten, OnAir, Life,
       LifeTyped, EpochTyped, TicketTyped, WireTyped, Place, Media, Over,
       WorkerTyped, Locals, OnLine, Looping, Talking, Reaching, Away,
       Shutting, ReadHeaders, lifeVars, epochVars, ackVars, shedVars,
       headerVars, queueVars, sharedVars, Go, Local
<1>17. ASSUME ConnectPrimed PROVE BoundaryWrittenWhileLive'
  BY <1>17, <1>0 DEF BoundaryWrittenWhileLive, BoundaryWritten, OnAir, Life,
       LifeTyped, EpochTyped, TicketTyped, WireTyped, Place, Media, Over,
       WorkerTyped, Locals, OnLine, Looping, Talking, Reaching, Away,
       Shutting, ConnectPrimed, Primed, lifeVars, epochVars, ackVars,
       shedVars, headerVars, queueVars, sharedVars, Go, Local
<1>18. ASSUME Close PROVE BoundaryWrittenWhileLive'
  BY <1>18, <1>0 DEF BoundaryWrittenWhileLive, BoundaryWritten, OnAir, Life,
       LifeTyped, EpochTyped, TicketTyped, WireTyped, Place, Media, Over,
       WorkerTyped, Locals, OnLine, Looping, Talking, Reaching, Away,
       Shutting, Close, BeginIO, lifeVars, epochVars, ackVars, shedVars,
       headerVars, queueVars, sharedVars, Go, Local
<1>19. ASSUME Closed PROVE BoundaryWrittenWhileLive'
  BY <1>19, <1>0 DEF BoundaryWrittenWhileLive, BoundaryWritten, OnAir, Life,
       LifeTyped, EpochTyped, TicketTyped, WireTyped, Place, Media, Over,
       WorkerTyped, Locals, OnLine, Looping, Talking, Reaching, Away,
       Shutting, Closed, Acked, LoseTransport, lifeVars, epochVars, ackVars,
       shedVars, headerVars, queueVars, sharedVars, Go, Local
<1>20. ASSUME Reconnect PROVE BoundaryWrittenWhileLive'
  BY <1>20, <1>0 DEF BoundaryWrittenWhileLive, BoundaryWritten, OnAir, Life,
       LifeTyped, EpochTyped, TicketTyped, WireTyped, Place, Media, Over,
       WorkerTyped, Locals, OnLine, Looping, Talking, Reaching, Away,
       Shutting, Reconnect, ReconnectQueue, lifeVars, epochVars, ackVars,
       shedVars, headerVars, queueVars, sharedVars, Go, Local
<1>21. ASSUME TakeCancellation PROVE BoundaryWrittenWhileLive'
  BY <1>21, <1>0 DEF BoundaryWrittenWhileLive, BoundaryWritten, OnAir, Life,
       LifeTyped, EpochTyped, TicketTyped, WireTyped, Place, Media, Over,
       WorkerTyped, Locals, OnLine, Looping, Talking, Reaching, Away,
       Shutting, TakeCancellation, lifeVars, epochVars, ackVars, shedVars,
       headerVars, queueVars, sharedVars, Go, Local
<1>22. ASSUME ReplaceTransport PROVE BoundaryWrittenWhileLive'
  BY <1>22, <1>0 DEF BoundaryWrittenWhileLive, BoundaryWritten, OnAir, Life,
       LifeTyped, EpochTyped, TicketTyped, WireTyped, Place, Media, Over,
       WorkerTyped, Locals, OnLine, Looping, Talking, Reaching, Away,
       Shutting, ReplaceTransport, Fresh, lifeVars, epochVars, ackVars,
       shedVars, headerVars, queueVars, sharedVars, Go, Local
<1>23. ASSUME ReplaceFails PROVE BoundaryWrittenWhileLive'
  BY <1>23, <1>0 DEF BoundaryWrittenWhileLive, BoundaryWritten, OnAir, Life,
       LifeTyped, EpochTyped, TicketTyped, WireTyped, Place, Media, Over,
       WorkerTyped, Locals, OnLine, Looping, Talking, Reaching, Away,
       Shutting, ReplaceFails, EndResume, AckDropped, KeepPending, lifeVars,
       epochVars, ackVars, shedVars, headerVars, queueVars, sharedVars, Go,
       Local
<1>24. ASSUME Retry PROVE BoundaryWrittenWhileLive'
  BY <1>24, <1>0 DEF BoundaryWrittenWhileLive, BoundaryWritten, OnAir, Life,
       LifeTyped, EpochTyped, TicketTyped, WireTyped, Place, Media, Over,
       WorkerTyped, Locals, OnLine, Looping, Talking, Reaching, Away,
       Shutting, Retry, lifeVars, epochVars, ackVars, shedVars, headerVars,
       queueVars, sharedVars, Go, Local
<1>25. ASSUME Delayed PROVE BoundaryWrittenWhileLive'
  BY <1>25, <1>0 DEF BoundaryWrittenWhileLive, BoundaryWritten, OnAir, Life,
       LifeTyped, EpochTyped, TicketTyped, WireTyped, Place, Media, Over,
       WorkerTyped, Locals, OnLine, Looping, Talking, Reaching, Away,
       Shutting, Delayed, lifeVars, epochVars, ackVars, shedVars, headerVars,
       queueVars, sharedVars, Go, Local
<1>26. ASSUME RetryEnds PROVE BoundaryWrittenWhileLive'
  BY <1>26, <1>0 DEF BoundaryWrittenWhileLive, BoundaryWritten, OnAir, Life,
       LifeTyped, EpochTyped, TicketTyped, WireTyped, Place, Media, Over,
       WorkerTyped, Locals, OnLine, Looping, Talking, Reaching, Away,
       Shutting, RetryEnds, lifeVars, epochVars, ackVars, shedVars,
       headerVars, queueVars, sharedVars, Go, Local
<1>27. ASSUME Exhausted PROVE BoundaryWrittenWhileLive'
  BY <1>27, <1>0 DEF BoundaryWrittenWhileLive, BoundaryWritten, OnAir, Life,
       LifeTyped, EpochTyped, TicketTyped, WireTyped, Place, Media, Over,
       WorkerTyped, Locals, OnLine, Looping, Talking, Reaching, Away,
       Shutting, Exhausted, EndResume, AckDropped, KeepPending, lifeVars,
       epochVars, ackVars, shedVars, headerVars, queueVars, sharedVars, Go,
       Local
<1>28. ASSUME AttemptFailed PROVE BoundaryWrittenWhileLive'
  BY <1>28, <1>0 DEF BoundaryWrittenWhileLive, BoundaryWritten, OnAir, Life,
       LifeTyped, EpochTyped, TicketTyped, WireTyped, Place, Media, Over,
       WorkerTyped, Locals, OnLine, Looping, Talking, Reaching, Away,
       Shutting, AttemptFailed, EndResume, AckDropped, KeepPending, lifeVars,
       epochVars, ackVars, shedVars, headerVars, queueVars, sharedVars, Go,
       Local
<1>29. ASSUME Redialled PROVE BoundaryWrittenWhileLive'
  BY <1>29, <1>0 DEF BoundaryWrittenWhileLive, BoundaryWritten, OnAir, Life,
       LifeTyped, EpochTyped, TicketTyped, WireTyped, Place, Media, Over,
       WorkerTyped, Locals, OnLine, Looping, Talking, Reaching, Away,
       Shutting, Redialled, Rejoin, lifeVars, epochVars, ackVars, shedVars,
       headerVars, queueVars, sharedVars, Go, Local
<1>30. ASSUME Booted PROVE BoundaryWrittenWhileLive'
  BY <1>30, <1>0 DEF Booted, BoundaryWrittenWhileLive, BoundaryWritten, ackVars
<1>31. ASSUME GiveUp PROVE BoundaryWrittenWhileLive'
  BY <1>31, <1>0 DEF BoundaryWrittenWhileLive, BoundaryWritten, OnAir, Life,
       LifeTyped, EpochTyped, TicketTyped, WireTyped, Place, Media, Over,
       WorkerTyped, Locals, OnLine, Looping, Talking, Reaching, Away,
       Shutting, GiveUp, lifeVars, epochVars, ackVars, shedVars, headerVars,
       queueVars, sharedVars, Go, Local
<1>32. ASSUME Fail PROVE BoundaryWrittenWhileLive'
  BY <1>32, <1>0 DEF BoundaryWrittenWhileLive, BoundaryWritten, OnAir, Life,
       LifeTyped, EpochTyped, TicketTyped, WireTyped, Place, Media, Over,
       WorkerTyped, Locals, OnLine, Looping, Talking, Reaching, Away,
       Shutting, Fail, lifeVars, epochVars, ackVars, shedVars, headerVars,
       queueVars, sharedVars, Go, Local
<1>33. ASSUME CloseQueue PROVE BoundaryWrittenWhileLive'
  BY <1>33, <1>0 DEF BoundaryWrittenWhileLive, BoundaryWritten, OnAir, Life,
       LifeTyped, EpochTyped, TicketTyped, WireTyped, Place, Media, Over,
       WorkerTyped, Locals, OnLine, Looping, Talking, Reaching, Away,
       Shutting, CloseQueue, lifeVars, epochVars, ackVars, shedVars,
       headerVars, queueVars, sharedVars, Go, Local
<1>34. ASSUME Pop PROVE BoundaryWrittenWhileLive'
  BY <1>34, <1>0 DEF BoundaryWrittenWhileLive, BoundaryWritten, OnAir, Life,
       LifeTyped, EpochTyped, TicketTyped, WireTyped, Place, Media, Over,
       WorkerTyped, Locals, OnLine, Looping, Talking, Reaching, Away,
       Shutting, Pop, lifeVars, epochVars, ackVars, shedVars, headerVars,
       queueVars, sharedVars, Go, Local
<1>35. ASSUME Leave PROVE BoundaryWrittenWhileLive'
  BY <1>35, <1>0 DEF BoundaryWrittenWhileLive, BoundaryWritten, OnAir, Life,
       LifeTyped, EpochTyped, TicketTyped, WireTyped, Place, Media, Over,
       WorkerTyped, Locals, OnLine, Looping, Talking, Reaching, Away,
       Shutting, Leave, lifeVars, epochVars, ackVars, shedVars, headerVars,
       queueVars, sharedVars, Go, Local
<1>36. ASSUME Select PROVE BoundaryWrittenWhileLive'
  BY <1>36, <1>0 DEF BoundaryWrittenWhileLive, BoundaryWritten, OnAir, Life,
       LifeTyped, EpochTyped, TicketTyped, WireTyped, Place, Media, Over,
       WorkerTyped, Locals, OnLine, Looping, Talking, Reaching, Away,
       Shutting, Select, lifeVars, epochVars, ackVars, shedVars, headerVars,
       queueVars, sharedVars, Go, Local
<1>37. ASSUME LoopPrimed PROVE BoundaryWrittenWhileLive'
  BY <1>37, <1>0 DEF BoundaryWrittenWhileLive, BoundaryWritten, OnAir, Life,
       LifeTyped, EpochTyped, TicketTyped, WireTyped, Place, Media, Over,
       WorkerTyped, Locals, OnLine, Looping, Talking, Reaching, Away,
       Shutting, LoopPrimed, Primed, Joins, lifeVars, epochVars, ackVars,
       shedVars, headerVars, queueVars, sharedVars, Go, Local
<1>38. ASSUME TagWritten PROVE BoundaryWrittenWhileLive'
  BY <1>38, <1>0 DEF BoundaryWrittenWhileLive, BoundaryWritten, OnAir, Life,
       LifeTyped, EpochTyped, TicketTyped, WireTyped, Place, Media, Over,
       WorkerTyped, Locals, OnLine, Looping, Talking, Reaching, Away,
       Shutting, TagWritten, TicketCounts, lifeVars, epochVars, ackVars,
       shedVars, headerVars, queueVars, sharedVars, Go, Local
<1>39. ASSUME Publish PROVE BoundaryWrittenWhileLive'
  <2>1. w.pc = "publish" /\ UNCHANGED <<lifeVars, wire>> /\ published_epoch' = Published
    BY <1>39 DEF Publish
  <2>2. CASE w.tag.epoch = epoch /\ ~w.awaiting /\ ~stop_requested
    <3>1. OnLine /\ w.media = epoch /\ w.tag.kind = "audio"
      BY <2>1, <2>2 DEF Place, Looping, Media
    <3>2. wire.epoch = epoch /\ wire.video > 0 /\ wire.audio
      BY <2>1, <2>2, <3>1 DEF Joined, OnAir, Looping
    <3>3. epoch \in Nat /\ None \notin Nat /\ published_epoch' = epoch
      BY <1>0, <2>1, <2>2 DEF EpochTyped, Published, SenderConstants
    <3> QED BY <2>1, <3>2, <3>3 DEF BoundaryWrittenWhileLive, BoundaryWritten
  <2>3. CASE ~(w.tag.epoch = epoch /\ ~w.awaiting)
    <3>1. published_epoch' = published_epoch
      BY <2>1, <2>3 DEF Published
    <3> QED BY <2>1, <3>1 DEF BoundaryWrittenWhileLive, BoundaryWritten, lifeVars
  <2>4. CASE stop_requested
    BY <2>1, <2>4 DEF BoundaryWrittenWhileLive, lifeVars
  <2> QED BY <2>2, <2>3, <2>4
<1>40. ASSUME Stopped PROVE BoundaryWrittenWhileLive'
  BY <1>40, <1>0 DEF BoundaryWrittenWhileLive, BoundaryWritten, OnAir, Life,
       LifeTyped, EpochTyped, TicketTyped, WireTyped, Place, Media, Over,
       WorkerTyped, Locals, OnLine, Looping, Talking, Reaching, Away,
       Shutting, Stopped, vars, lifeVars, epochVars, ackVars, shedVars,
       headerVars, queueVars, sharedVars, Go, Local
<1>41. ASSUME UNCHANGED vars PROVE BoundaryWrittenWhileLive'
  BY <1>41, <1>0 DEF BoundaryWrittenWhileLive, BoundaryWritten, OnAir, Life,
       LifeTyped, EpochTyped, TicketTyped, WireTyped, Place, Media, Over,
       WorkerTyped, Locals, OnLine, Looping, Talking, Reaching, Away,
       Shutting, vars, lifeVars, epochVars, ackVars, shedVars, headerVars,
       queueVars, sharedVars, Go, Local
<1> QED BY <1>1, <1>2, <1>3, <1>4, <1>5, <1>6, <1>7, <1>8, <1>9, <1>10,
     <1>11, <1>12, <1>13, <1>14, <1>15, <1>16, <1>17, <1>18, <1>19, <1>20,
     <1>21, <1>22, <1>23, <1>24, <1>25, <1>26, <1>27, <1>28, <1>29, <1>30,
     <1>31, <1>32, <1>33, <1>34, <1>35, <1>36, <1>37, <1>38, <1>39, <1>40,
     <1>41 DEF Next, Pipeline, Owner, Watchdog, Worker

-----------------------------------------------------------------------------
(* The invariant, and what it shows.                                        *)

\* A sender is built disconnected, with nothing queued.
LEMMA SenderStarts ==
  ASSUME Init
  PROVE  SenderInv
<1>1. None \notin Nat /\ MaxTags \in Nat
  BY SenderConstants DEF SenderConstants
<1>2. LifeTyped /\ EpochTyped /\ TicketTyped
  BY DEF Init, LifeTyped, EpochTyped, TicketTyped, Fresh
<1>3. HeaderTyped
  BY DEF Init, HeaderTyped, Feed
<1>4. WorkerTyped
  BY DEF Init, WorkerTyped, Locals, Pcs
<1>5. WireTyped
  BY DEF Init, WireTyped, SilentWire
<1>6. w.pc = "dial" /\ w.boot /\ ~w.redial /\ w.awaiting /\ w.media = 0
  BY DEF Init
<1>7. Place /\ Media
  BY <1>6 DEF Init, Place, Media, Looping, Talking, Reaching, Away, Shutting,
     OnLine, Holds
<1>8. Queued
  BY <1>1 DEF Init, Queued
<1>9. Life /\ Resume /\ Watched /\ Armed
  BY <1>6 DEF Init, Life, Resume, ReconnectingNeverWaits, Watched, Armed,
     Shutting, Over, Fresh
<1>10. Fenced /\ OnAir /\ Joined /\ BoundaryWrittenWhileLive
  BY <1>6 DEF Init, Fenced, FenceHolds, OnAir, OnLine, Joined, Looping, Talking,
     SilentWire, BoundaryWrittenWhileLive, BoundaryWritten
<1> QED
  BY <1>2, <1>3, <1>4, <1>5, <1>7, <1>8, <1>9, <1>10 DEF SenderInv, Typed

LEMMA SenderSteps ==
  ASSUME SenderInv, [Next]_vars
  PROVE  SenderInv'
<1>1. /\ LifeTyped /\ EpochTyped /\ TicketTyped /\ HeaderTyped /\ WorkerTyped
      /\ WireTyped /\ Typed /\ Place /\ Media /\ Queued /\ Life /\ Resume
      /\ Watched /\ Armed /\ Fenced /\ OnAir /\ Joined
      /\ BoundaryWrittenWhileLive
  BY DEF SenderInv, Typed
<1>2. Typed'
  <2>1. LifeTyped' /\ EpochTyped' /\ TicketTyped'
    BY <1>1, SenderConstants, LifeTypedStep, EpochTypedStep, TicketTypedStep
  <2>2. HeaderTyped' /\ WorkerTyped' /\ WireTyped'
    BY <1>1, SenderConstants, HeaderTypedStep, WorkerTypedStep, WireTypedStep
  <2> QED BY <2>1, <2>2 DEF Typed
<1>3. Place' /\ Media' /\ Queued'
  <2>1. w \in Locals
    BY <1>1 DEF WorkerTyped
  <2> QED BY <1>1, <2>1, SenderConstants, PlaceStep, MediaStep, QueuedStep
<1>4. Life' /\ Resume' /\ Watched' /\ Armed'
  BY <1>1, SenderConstants, LifeStep, ResumeStep, WatchedStep, ArmedStep
<1>5. Fenced' /\ OnAir' /\ Joined' /\ BoundaryWrittenWhileLive'
  BY <1>1, SenderConstants, FencedStep, OnAirStep, JoinedStep, WrittenStep
<1> QED
  BY <1>2, <1>3, <1>4, <1>5 DEF SenderInv

\* The invariant every other theorem about the sender rests on.
THEOREM SenderKept == Spec => []SenderInv
<1>1. Init => SenderInv
  BY SenderStarts
<1>2. SenderInv /\ [Next]_vars => SenderInv'
  BY SenderSteps
<1> QED
  BY <1>1, <1>2, PTL DEF Spec

\* start() to stop(): every variable keeps its type, the queue stays within its
\* limit, and writing_ is set exactly while the worker is inside a transport call.
THEOREM SenderTypes == Spec => []TypeOK
<1>1. SenderInv => TypeOK
  <2>1. SUFFICES ASSUME SenderInv PROVE TypeOK
    OBVIOUS
  <2>2. /\ LifeTyped /\ EpochTyped /\ TicketTyped /\ HeaderTyped /\ WorkerTyped
        /\ Queued
    BY <2>1 DEF SenderInv, Typed
  <2>3. queue \in Seq(Tag)
    BY <2>2, GoodTags
  <2> QED BY <2>2, <2>3 DEF TypeOK, LifeTyped, EpochTyped, TicketTyped,
     HeaderTyped, WorkerTyped, Locals, Queued
<1> QED
  BY <1>1, SenderKept, PTL

\* reconnect() counts as delivered what it throws away: a transition never
\* waits on a connection that is being replaced.
THEOREM NothingWaitsForAReconnect == Spec => []ReconnectingNeverWaits
<1>1. SenderInv => ReconnectingNeverWaits
  BY DEF SenderInv, Resume
<1> QED
  BY <1>1, SenderKept, PTL

\* keep_transport_locked and the join of the watchdog: a connection the worker
\* goes on with carries no deadline and no interrupt of theirs.
THEOREM KeptTransportIsUsable == Spec => []IdleTransportIsUsable
<1>1. SenderInv => IdleTransportIsUsable
  <2>1. SUFFICES ASSUME SenderInv, w.pc = "pop", ~stop_requested
                 PROVE  connection = Fresh
    BY DEF IdleTransportIsUsable
  <2>2. /\ EpochTyped /\ WorkerTyped /\ Place /\ Watched /\ Armed
    BY <2>1 DEF SenderInv, Typed
  <2>3. OnLine /\ ~Over /\ ~writing
    BY <2>1, <2>2 DEF Place, Looping, Over, Shutting, WorkerTyped
  <2>4. ~connection.interrupted
    BY <2>1, <2>2, <2>3 DEF Watched, OnLine
  <2>5. ~connection.armed
    BY <2>1, <2>2, <2>3 DEF Armed
  <2>6. connection \in [interrupted : BOOLEAN, armed : BOOLEAN]
    BY <2>2 DEF EpochTyped
  <2>7. connection.interrupted = FALSE /\ connection.armed = FALSE
    BY <2>4, <2>5, <2>6
  <2> QED BY <2>6, <2>7 DEF Fresh
<1> QED
  BY <1>1, SenderKept, PTL

\* What the coordinator is told of an epoch is true: acknowledged, no write of an
\* older one is in flight; published, its keyframe and its sound are written.
THEOREM ReportsAreTrue == Spec => []EpochReportsHold
<1>1. SenderInv => EpochReportsHold
  BY DEF SenderInv, Fenced, EpochReportsHold
<1> QED
  BY <1>1, SenderKept, PTL

-----------------------------------------------------------------------------
(* Tickets.                                                                 *)

\* The worker is on its way out, and no longer answers for the queue.
Doomed == (w.pc = "gaveUp" \/ Over) /\ state # "Running"
Behind(ticket, q) == \A i \in 1..Len(q) : ticket < q[i].batch

\* Tickets follow the order of the queue: the ticket of a tag is behind the
\* batch of every tag that waits after it, and nothing runs ahead of the feed.
\* While the video of the next dispatch is to be dropped, the queue holds none.
TicketOrder ==
  /\ Within(queue, feed.batch) /\ Ordered(queue)
  /\ Holds => /\ w.tag.batch \in 1..feed.batch
              /\ w.tag.ticket <= feed.batch
              /\ Behind(w.tag.ticket, queue)
  /\ carried_ticket <= feed.batch /\ enqueued_ticket \in {0, feed.batch}
  /\ delivery_ticket <= feed.batch /\ delivered_epoch <= epoch
  /\ drop_video_until_keyframe => NoVideo(queue)
\* A sender that is not connected keeps nothing, unless a transition resumes.
KeepsNothing ==
  /\ state \in {"Starting", "Reconnecting"} /\ ~resume_after_transition =>
       Doomed \/ queue = <<>>
  /\ state = "Starting" => ~resume_after_transition /\ (w.boot \/ Over)
  /\ w.pc = "closeQueue" => state # "Running"
\* What is delivered comes before everything that is pending.
Told ==
  delivered_epoch = epoch => Doomed \/ \A t \in Pending : delivery_ticket < t.batch
\* While something is pending the newest ticket is on it, or behind it.
Newest ==
  enqueued_ticket # 0 /\ Pending # {} =>
    \/ stop_requested \/ Doomed \/ feed.phase = "failed"
    \/ carried_ticket = enqueued_ticket
    \/ \E t \in Pending : t.ticket = enqueued_ticket
\* When nothing is, the newest ticket was delivered, or is carried.
Steady == OnLine /\ ~w.awaiting /\ state = "Running" /\ w.pc # "reconnect"
Heard ==
  Steady /\ feed.phase # "failed" /\ enqueued_ticket # 0 /\ Pending = {} =>
    \/ carried_ticket = enqueued_ticket
    \/ delivered_epoch = epoch /\ delivery_ticket = enqueued_ticket
TicketInv == TicketOrder /\ KeepsNothing /\ Told /\ Newest /\ Heard

\* What one dispatch adds: every tag of it behind every ticket before it.
LEMMA TagsOrder ==
  ASSUME SenderConstants, Typed, NEW kinds \in Batches
  PROVE  LET tags == Tags(kinds) IN
         /\ tags \in Seq(Tag) /\ tags # <<>> /\ Len(tags) \in 1..Len(tags)
         /\ Within(tags, feed.batch + 1) /\ Ordered(tags)
         /\ \A c \in Nat : c <= feed.batch => Behind(c, tags)
         /\ tags[Len(tags)].ticket = feed.batch + 1
         /\ \A i \in 1..Len(tags) : /\ tags[i].batch = feed.batch + 1
                                    /\ tags[i].epoch = feed.epoch
                                    /\ tags[i].ticket \in Nat
                                    /\ tags[i].ticket <= feed.batch + 1
<1>1. PICK tags : tags = Tags(kinds)
  OBVIOUS
<1>2. /\ kinds \in Seq(Kinds) /\ Len(kinds) \in Nat \ {0}
      /\ tags \in Seq(Tag) /\ Len(tags) = Len(kinds) /\ tags # <<>>
      /\ \A i \in 1..Len(tags) : /\ tags[i].epoch = feed.epoch
                                 /\ tags[i].batch = feed.batch + 1
                                 /\ tags[i].ticket = TicketOf(kinds, i)
  BY <1>1, TagsShape
<1>3. feed.batch \in Nat
  BY DEF Typed, HeaderTyped, Feed
<1>4. \A i \in 1..Len(tags) :
        tags[i].ticket = IF i = Len(tags) THEN feed.batch + 1 ELSE 0
  BY <1>2 DEF TicketOf
<1>5. Within(tags, feed.batch + 1)
  BY <1>2, <1>3, <1>4 DEF Within
<1>6. Ordered(tags)
  <2>1. SUFFICES ASSUME NEW i \in 1..Len(tags), NEW j \in 1..Len(tags), i < j
                 PROVE  tags[i].ticket < tags[j].batch
    BY DEF Ordered
  <2>2. tags[i].ticket = 0
    BY <2>1, <1>2, <1>4
  <2> QED BY <2>2, <1>2, <1>3
<1>7. \A c \in Nat : c <= feed.batch => Behind(c, tags)
  BY <1>2, <1>3 DEF Behind
<1> QED
  BY <1>1, <1>2, <1>3, <1>4, <1>5, <1>6, <1>7

\* Once the keyframe is found nothing stays carried.
LEMMA ThinFound ==
  ASSUME NEW q \in Seq(Tag), q # <<>>, NEW c \in Nat, NEW drop \in BOOLEAN,
         NEW F, F = Thin(q, c, drop)
  PROVE  ~F.drop => F.carried = 0
<1>1. LET s == Thin(q, c, drop) IN
      s.drop \in BOOLEAN /\ (~s.drop => s.carried = 0)
  BY ThinFacts
<1> QED
  BY <1>1

LEMMA FromSomeAgain ==
  ASSUME NEW p, NEW q, NEW r, FromSome(p, q), FromSome(q, r)
  PROVE  FromSome(p, r)
<1>1. SUFFICES ASSUME NEW k \in 1..Len(p) PROVE \E n \in 1..Len(r) : Same(p[k], r[n])
  BY DEF FromSome
<1>2. PICK m \in 1..Len(q) : Same(p[k], q[m])
  BY DEF FromSome
<1>3. PICK n \in 1..Len(r) : Same(q[m], r[n])
  BY DEF FromSome
<1> QED
  BY <1>2, <1>3 DEF Same

\* The queue and the batch at the door of a full or congested queue.  When the
\* first thinning leaves the video still to be dropped nothing is left to drop,
\* so the second finds the same tags and the same want of room.
TryFacts(b, tags) ==
  LET R == Relieved(tags)
      F == FirstTry(tags)
      E == Emptied(tags)
      S == SecondTry(tags) IN
  /\ R.queue \in Seq(Tag) /\ Within(R.queue, b) /\ Ordered(R.queue)
  /\ FromSome(R.queue, queue)
  /\ F.kept \in Seq(Tag) /\ Within(F.kept, b + 1) /\ Ordered(F.kept)
  /\ FromSome(F.kept, tags)
  /\ F.carried \in Nat /\ F.carried <= b + 1
  /\ F.drop => NoVideo(F.kept) /\ NoVideo(R.queue)
  /\ F.carried >= b + 1 \/ \E k \in 1..Len(F.kept) : F.kept[k].ticket >= b + 1
  /\ E.queue \in Seq(Tag) /\ Within(E.queue, b) /\ Ordered(E.queue)
  /\ FromSome(E.queue, queue) /\ NoVideo(E.queue)
  /\ S.kept \in Seq(Tag) /\ Within(S.kept, b + 1) /\ FromSome(S.kept, tags)
  /\ S.carried \in Nat /\ S.carried <= b + 1
  /\ S.drop => NoVideo(S.kept)
  /\ F.drop => /\ Len(E.queue) = Len(R.queue)
               /\ Len(S.kept) = Len(F.kept)
  /\ ~F.drop =>
       /\ Ordered(S.kept)
       /\ \/ S.carried >= b + 1
          \/ \E k \in 1..Len(S.kept) : S.kept[k].ticket >= b + 1

\* The batch of every tag in a queue is positive, and so is what stays of it.
LEMMA WithinFrom ==
  ASSUME NEW b \in Nat, NEW q, Within(q, b)
  PROVE  \A i \in 1..Len(q) : q[i].batch > 0
BY DEF Within

LEMMA EnqueueOrder ==
  ASSUME SenderConstants, Typed, Media, Queued, TicketOrder, NEW kinds \in Batches
  PROVE  TryFacts(feed.batch, Tags(kinds))
<1>0. /\ feed.batch \in Nat /\ queue \in Seq(Tag) /\ Carried0 \in Nat
      /\ Carried0 <= feed.batch /\ Drop0 \in BOOLEAN
      /\ Drop0 => NoVideo(queue)
  <2>1. EpochTyped /\ TicketTyped /\ HeaderTyped
    BY DEF Typed
  <2>2. feed.batch \in Nat
    BY <2>1 DEF HeaderTyped, Feed
  <2>3. queue \in Seq(Tag)
    BY <2>1, GoodTags
  <2> QED BY <2>1, <2>2, <2>3 DEF TicketTyped, TicketOrder, Carried0, Drop0
<1>1. PICK b \in Nat : b = feed.batch
  BY <1>0
<1>2. PICK tags : tags = Tags(kinds)
  OBVIOUS
<1>3. /\ tags \in Seq(Tag) /\ tags # <<>> /\ Len(tags) \in 1..Len(tags)
      /\ Within(tags, b + 1) /\ Ordered(tags)
      /\ \A c \in Nat : c <= b => Behind(c, tags)
      /\ tags[Len(tags)].ticket = b + 1
      /\ \A i \in 1..Len(tags) : tags[i].batch = b + 1
  BY <1>1, <1>2, TagsOrder
<1>4. Within(queue, b) /\ Ordered(queue)
  BY <1>1 DEF TicketOrder
<1>5. PICK R : R = Relieved(tags)
  OBVIOUS
<1>6. /\ R.queue \in Seq(Tag) /\ Within(R.queue, b) /\ Ordered(R.queue)
      /\ FromSome(R.queue, queue) /\ R.carried \in Nat /\ R.carried <= b
      /\ (Drop0 \/ Congested(tags)) => NoVideo(R.queue)
  <2>1. CASE Congested(tags)
    <3>1. R = Shed(queue, Carried0)
      BY <2>1, <1>5 DEF Relieved
    <3>2. \A i \in 1..Len(queue) : queue[i].batch > 0
      BY <1>4, WithinFrom
    <3> QED BY <3>1, <3>2, <1>0, <1>1, <1>4, ShedFacts
  <2>2. CASE ~Congested(tags)
    <3>1. R.queue = queue /\ R.carried = Carried0
      BY <2>2, <1>5 DEF Relieved
    <3>2. FromSome(queue, queue)
      BY <1>0 DEF FromSome, Same
    <3> QED BY <3>1, <3>2, <2>2, <1>0, <1>1, <1>4
  <2> QED BY <2>1, <2>2
<1>7. PICK F : F = FirstTry(tags)
  OBVIOUS
<1>8. /\ F.kept \in Seq(Tag) /\ Within(F.kept, b + 1) /\ Ordered(F.kept)
      /\ FromSome(F.kept, tags) /\ F.carried \in Nat /\ F.carried <= b + 1
      /\ F.drop => NoVideo(F.kept) /\ NoVideo(R.queue)
      /\ F.carried >= b + 1 \/ \E k \in 1..Len(F.kept) : F.kept[k].ticket >= b + 1
      /\ ~F.drop => F.carried = 0
  <2>1. PICK drop \in BOOLEAN : drop <=> Drop0 \/ Congested(tags)
    OBVIOUS
  <2>2. F = Thin(tags, R.carried, drop)
    <3>1. drop = (Drop0 \/ Congested(tags))
      BY <2>1
    <3> QED BY <3>1, <1>5, <1>7 DEF FirstTry
  <2>3. \A i \in 1..Len(tags) : R.carried < tags[i].batch
    BY <1>3, <1>6
  <2>4. b + 1 \in Nat /\ R.carried <= b + 1
    BY <1>6
  <2>5. F.drop => drop
    BY <1>3, <1>6, <2>2, ThinFacts
  <2>6. F.drop => NoVideo(R.queue)
    BY <1>6, <2>1, <2>5
  <2>0. tags \in Seq(Tag) /\ R.carried \in Nat
    BY <1>3, <1>6
  <2>7. /\ F.kept \in Seq(Tag) /\ F.carried \in Nat /\ FromSome(F.kept, tags)
        /\ F.drop => NoVideo(F.kept)
    BY <2>0, <2>2, ThinFacts
  <2>12. tags # <<>> => (~F.drop => F.carried = 0)
    BY <2>0, <2>2, ThinFound
  <2>13. tags # <<>> =>
           \/ F.carried >= tags[Len(tags)].ticket
           \/ \E k \in 1..Len(F.kept) : F.kept[k].ticket >= tags[Len(tags)].ticket
    BY <2>0, <2>2, ThinFacts
  <2>8. Ordered(F.kept)
    BY <1>3, <1>6, <2>2, <2>3, ThinFacts
  <2>9. Within(F.kept, b + 1) /\ F.carried <= b + 1
    BY <1>3, <1>6, <2>2, <2>4, ThinFacts
  <2>10. F.carried >= b + 1 \/ \E k \in 1..Len(F.kept) : F.kept[k].ticket >= b + 1
    BY <1>3, <2>13
  <2>11. ~F.drop => F.carried = 0
    BY <1>3, <2>12
  <2> QED BY <2>11, <2>6, <2>7, <2>8, <2>9, <2>10
<1>9. PICK E : E = Emptied(tags)
  OBVIOUS
<1>10. /\ E.queue \in Seq(Tag) /\ Within(E.queue, b) /\ Ordered(E.queue)
       /\ FromSome(E.queue, queue) /\ NoVideo(E.queue)
       /\ E.carried \in Nat /\ E.carried <= b + 1
       /\ F.drop => Len(E.queue) = Len(R.queue)
       /\ ~F.drop => E.carried <= b
  <2>1. E = Shed(R.queue, F.carried)
    BY <1>5, <1>7, <1>9 DEF Emptied
  <2>2. \A i \in 1..Len(R.queue) : R.queue[i].batch > 0
    BY <1>6, WithinFrom
  <2>3. Within(R.queue, b + 1)
    <3>1. \A i \in 1..Len(R.queue) : R.queue[i].batch \in Nat /\ R.queue[i].ticket \in Nat
      BY <1>6, TagsOfSeq
    <3> QED BY <1>6, <3>1 DEF Within
  <2>4. E.carried <= b + 1
    BY <2>1, <2>3, <1>6, <1>8, ShedFacts
  <2>5. ~F.drop => E.carried <= b
    BY <2>1, <1>6, <1>8, ShedFacts
  <2>6. FromSome(E.queue, R.queue)
    BY <2>1, <1>6, <1>8, ShedFacts
  <2>7. FromSome(E.queue, queue)
    BY <2>6, <1>6, FromSomeAgain
  <2> QED BY <2>1, <2>2, <2>4, <2>5, <2>7, <1>6, <1>8, ShedFacts
<1>11. PICK S : S = SecondTry(tags)
  OBVIOUS
<1>12. S = Thin(F.kept, E.carried, TRUE)
  BY <1>7, <1>9, <1>11 DEF SecondTry
<1>13. /\ S.kept \in Seq(Tag) /\ Within(S.kept, b + 1) /\ FromSome(S.kept, tags)
       /\ S.carried \in Nat /\ S.carried <= b + 1
       /\ S.drop => NoVideo(S.kept)
       /\ F.drop => Len(S.kept) = Len(F.kept)
  <2>1. b + 1 \in Nat
    OBVIOUS
  <2>2. FromSome(S.kept, F.kept)
    BY <1>8, <1>10, <1>12, ThinFacts
  <2>3. FromSome(S.kept, tags)
    BY <2>2, <1>8, FromSomeAgain
  <2> QED BY <1>8, <1>10, <1>12, <2>1, <2>3, ThinFacts
<1>14. ASSUME ~F.drop
       PROVE  /\ Ordered(S.kept)
              /\ \/ S.carried >= b + 1
                 \/ \E k \in 1..Len(S.kept) : S.kept[k].ticket >= b + 1
  <2>1. \A i \in 1..Len(F.kept) : F.kept[i].batch = b + 1
    BY <1>3, <1>8 DEF FromSome, Same
  <2>2. \A i \in 1..Len(F.kept) : E.carried < F.kept[i].batch
    BY <1>10, <1>14, <2>1
  <2>3. PICK k \in 1..Len(F.kept) : F.kept[k].ticket >= b + 1
    BY <1>8, <1>14
  <2>4. k = Len(F.kept)
    <3>1. F.kept[k].ticket \in Nat /\ Len(F.kept) \in Nat
      BY <1>8, TagsOfSeq
    <3>2. ASSUME k < Len(F.kept) PROVE FALSE
      <4>1. Len(F.kept) \in 1..Len(F.kept)
        BY <3>1, <3>2
      <4>2. F.kept[k].ticket < b + 1
        BY <4>1, <3>2, <2>1, <1>8 DEF Ordered
      <4> QED BY <4>2, <2>3, <3>1
    <3> QED BY <3>1, <3>2
  <2>5. F.kept # <<>>
    BY <2>3, <1>8
  <2>6. Ordered(S.kept)
    BY <1>8, <1>10, <1>12, <2>2, ThinFacts
  <2>7. \/ S.carried >= F.kept[Len(F.kept)].ticket
        \/ \E m \in 1..Len(S.kept) : S.kept[m].ticket >= F.kept[Len(F.kept)].ticket
    BY <1>8, <1>10, <1>12, <2>5, ThinFacts
  <2>8. F.kept[Len(F.kept)].ticket \in Nat /\ S.carried \in Nat
    BY <1>8, <1>13, <2>4, TagsOfSeq
  <2>9. \A m \in 1..Len(S.kept) : S.kept[m].ticket \in Nat
    BY <1>13, TagsOfSeq
  <2> QED BY <2>3, <2>4, <2>6, <2>7, <2>8, <2>9
<1> QED
  BY <1>1, <1>2, <1>5, <1>6, <1>7, <1>8, <1>9, <1>10, <1>11, <1>13, <1>14 DEF TryFacts

\* A step that adds nothing to the queue, and acknowledges nothing new.
OrderHolds ==
  /\ queue' \in {queue, <<>>} /\ feed' = feed /\ epoch' = epoch
  /\ Holds' => Holds /\ w'.tag = w.tag
  /\ carried_ticket' \in {carried_ticket, 0}
  /\ enqueued_ticket' \in {enqueued_ticket, 0}
  /\ drop_video_until_keyframe' => drop_video_until_keyframe
  /\ delivered_epoch' \in {delivered_epoch, epoch, 0}
  /\ delivery_ticket' \in {delivery_ticket, enqueued_ticket, 0}
LEMMA OrderStays ==
  ASSUME EpochTyped, TicketTyped, HeaderTyped, TicketOrder, OrderHolds
  PROVE  TicketOrder'
<1>0. /\ feed.batch \in Nat /\ epoch \in Nat /\ delivered_epoch \in Nat
      /\ delivery_ticket \in Nat /\ enqueued_ticket \in Nat
      /\ carried_ticket \in Nat
  BY DEF EpochTyped, TicketTyped, HeaderTyped, Feed
<1>1. /\ Within(<<>>, feed.batch) /\ Ordered(<<>>) /\ NoVideo(<<>>)
      /\ \A c : Behind(c, <<>>)
  BY DEF Within, Ordered, NoVideo, Behind
<1>2. Within(queue', feed'.batch) /\ Ordered(queue')
  BY <1>1 DEF OrderHolds, TicketOrder
<1>3. Holds' => /\ w'.tag.batch \in 1..feed'.batch
                /\ w'.tag.ticket <= feed'.batch
                /\ Behind(w'.tag.ticket, queue')
  BY <1>1 DEF OrderHolds, TicketOrder
<1>4. carried_ticket' <= feed'.batch /\ enqueued_ticket' \in {0, feed'.batch}
  BY <1>0 DEF OrderHolds, TicketOrder
<1>5. delivery_ticket' <= feed'.batch /\ delivered_epoch' <= epoch'
  BY <1>0 DEF OrderHolds, TicketOrder
<1>6. drop_video_until_keyframe' => NoVideo(queue')
  BY <1>1 DEF OrderHolds, TicketOrder
<1> QED
  BY <1>2, <1>3, <1>4, <1>5, <1>6 DEF TicketOrder

\* Bounds carry over to the next batch, and to a part of the queue.
LEMMA WithinGrows ==
  ASSUME NEW b \in Nat, NEW q \in Seq(Tag), Within(q, b)
  PROVE  Within(q, b + 1)
<1>1. \A i \in 1..Len(q) : q[i].batch \in Nat /\ q[i].ticket \in Nat
  BY TagsOfSeq
<1> QED
  BY <1>1 DEF Within

LEMMA StaysBehind ==
  ASSUME NEW p, NEW q, FromSome(p, q)
  PROVE  \A c \in Nat : Behind(c, q) => Behind(c, p)
BY DEF FromSome, Same, Behind

\* A new batch behind the tags that wait.
LEMMA JoinsQueue ==
  ASSUME NEW b \in Nat, NEW q \in Seq(Tag), NEW r \in Seq(Tag),
         Within(q, b), Ordered(q), Within(r, b + 1), Ordered(r),
         \A k \in 1..Len(r) : r[k].batch = b + 1
  PROVE  /\ Within(q \o r, b + 1) /\ Ordered(q \o r)
         /\ NoVideo(q) /\ NoVideo(r) => NoVideo(q \o r)
         /\ \A c \in Nat : c <= b /\ Behind(c, q) => Behind(c, q \o r)
<1>1. PICK s : s = q \o r
  OBVIOUS
<1>2. /\ s \in Seq(Tag) /\ Len(s) = Len(q) + Len(r)
      /\ \A i \in 1..Len(s) : \/ i \in 1..Len(q) /\ s[i] = q[i]
                              \/ i - Len(q) \in 1..Len(r) /\ s[i] = r[i - Len(q)]
  BY <1>1
<1>3. Within(q, b + 1)
  BY WithinGrows
<1>4. Within(s, b + 1)
  BY <1>2, <1>3 DEF Within
<1>5. Ordered(s)
  <2>1. SUFFICES ASSUME NEW i \in 1..Len(s), NEW j \in 1..Len(s), i < j
                 PROVE  s[i].ticket < s[j].batch
    BY DEF Ordered
  <2>2. CASE j \in 1..Len(q) /\ s[j] = q[j]
    <3>1. i \in 1..Len(q) /\ s[i] = q[i]
      BY <1>2, <2>1, <2>2
    <3> QED BY <2>1, <2>2, <3>1 DEF Ordered
  <2>3. CASE j - Len(q) \in 1..Len(r) /\ s[j] = r[j - Len(q)]
    <3>1. s[j].batch = b + 1
      BY <2>3
    <3>2. CASE i \in 1..Len(q) /\ s[i] = q[i]
      <4>1. q[i].ticket <= b /\ q[i].ticket \in Nat
        BY <3>2, TagsOfSeq DEF Within
      <4> QED BY <3>1, <3>2, <4>1
    <3>3. CASE i - Len(q) \in 1..Len(r) /\ s[i] = r[i - Len(q)]
      <4>1. i - Len(q) < j - Len(q)
        BY <2>1
      <4> QED BY <2>3, <3>3, <4>1 DEF Ordered
    <3> QED BY <1>2, <3>2, <3>3
  <2> QED BY <1>2, <2>2, <2>3
<1>6. NoVideo(q) /\ NoVideo(r) => NoVideo(s)
  BY <1>2 DEF NoVideo
<1>7. \A c \in Nat : c <= b /\ Behind(c, q) => Behind(c, s)
  <2>1. SUFFICES ASSUME NEW c \in Nat, c <= b, Behind(c, q), NEW i \in 1..Len(s)
                 PROVE  c < s[i].batch
    BY DEF Behind
  <2>2. CASE i \in 1..Len(q) /\ s[i] = q[i]
    BY <2>1, <2>2 DEF Behind
  <2>3. CASE i - Len(q) \in 1..Len(r) /\ s[i] = r[i - Len(q)]
    <3>1. s[i].batch = b + 1
      BY <2>3
    <3> QED BY <2>1, <3>1
  <2> QED BY <1>2, <2>2, <2>3
<1> QED
  BY <1>1, <1>4, <1>5, <1>6, <1>7

LEMMA OneBatch ==
  ASSUME NEW r, NEW q, FromSome(r, q), NEW b, NEW e,
         \A i \in 1..Len(q) : q[i].batch = b /\ q[i].epoch = e
  PROVE  \A k \in 1..Len(r) : r[k].batch = b /\ r[k].epoch = e
BY DEF FromSome, Same

\* The worker holds a tag it has not accounted for.
Hand == w.pc = "popped" \/ (OnLine /\ w.pc \in Talking)

LEMMA PendingIs ==
  ASSUME queue \in Seq(Tag)
  PROVE  \A t : t \in Pending <=>
           /\ t.epoch = epoch
           /\ (\E i \in 1..Len(queue) : t = queue[i]) \/ (Hand /\ t = w.tag)
<1>1. DOMAIN queue = 1..Len(queue)
  OBVIOUS
<1>2. InHand = IF Hand THEN {w.tag} ELSE {}
  BY DEF InHand, Hand, Talking
<1> QED
  BY <1>1, <1>2 DEF Pending

\* The same queue and the same hand: the same tags are pending.
LEMMA SameHand ==
  ASSUME queue' = queue, epoch' = epoch, Hand' <=> Hand, Hand => w'.tag = w.tag
  PROVE  Pending' = Pending
<1>1. InHand = IF Hand THEN {w.tag} ELSE {}
  BY DEF InHand, Hand, Talking
<1>2. InHand' = IF Hand' THEN {w'.tag} ELSE {}
  BY DEF InHand, Hand, Talking
<1>3. InHand' = InHand
  BY <1>1, <1>2
<1> QED
  BY <1>3 DEF Pending

\* A step that moves no tag and no ticket.
LEMMA Unmoved ==
  ASSUME Told, Newest, Heard, Pending' = Pending, Doomed => Doomed',
         stop_requested => stop_requested', Steady' => Steady,
         UNCHANGED <<epoch, delivered_epoch, delivery_ticket, carried_ticket,
                     enqueued_ticket, feed>>
  PROVE  Told' /\ Newest' /\ Heard'
<1>1. Told'
  BY DEF Told
<1>2. Newest'
  BY DEF Newest
<1>3. Heard'
  BY DEF Heard
<1> QED
  BY <1>1, <1>2, <1>3

\* A step after which nothing is pending, on a sender that is not connected.
LEMMA Cleared ==
  ASSUME Pending' = {}, ~Steady'
  PROVE  Told' /\ Newest' /\ Heard'
BY DEF Told, Newest, Heard

LEMMA NothingPending ==
  ASSUME queue' = <<>>, ~Hand'
  PROVE  Pending' = {}
<1>1. InHand' = {}
  BY DEF InHand, Hand, Talking
<1>2. DOMAIN <<>> = {}
  OBVIOUS
<1> QED
  BY <1>1, <1>2 DEF Pending

LEMMA PendingShrinks ==
  ASSUME queue' = <<>>, epoch' = epoch, Hand' => Hand /\ w'.tag = w.tag
  PROVE  Pending' \subseteq Pending
<1>1. InHand = IF Hand THEN {w.tag} ELSE {}
  BY DEF InHand, Hand, Talking
<1>2. InHand' = IF Hand' THEN {w'.tag} ELSE {}
  BY DEF InHand, Hand, Talking
<1>3. InHand' \subseteq InHand
  BY <1>1, <1>2
<1>4. DOMAIN <<>> = {}
  OBVIOUS
<1> QED
  BY <1>3, <1>4 DEF Pending

\* The worker takes the next tag: it waits in its hand now.
LEMMA Taken ==
  ASSUME queue \in Seq(Tag), queue # <<>>, queue' = Tail(queue), epoch' = epoch,
         ~Hand, Hand', w'.tag = Head(queue)
  PROVE  Pending' = Pending
<1>1. InHand = {} /\ InHand' = {Head(queue)}
  BY DEF InHand, Hand, Talking
<1>2. {queue[i] : i \in DOMAIN queue}
        = {queue'[i] : i \in DOMAIN queue'} \cup {Head(queue)}
  <2>1. \A i \in 1..Len(queue') : i + 1 \in 1..Len(queue) /\ queue'[i] = queue[i + 1]
    OBVIOUS
  <2>2. \A i \in 1..Len(queue) :
          \/ i = 1
          \/ i - 1 \in 1..Len(queue') /\ queue'[i - 1] = queue[i]
    OBVIOUS
  <2>3. 1 \in 1..Len(queue) /\ Head(queue) = queue[1]
    OBVIOUS
  <2>4. DOMAIN queue = 1..Len(queue) /\ DOMAIN queue' = 1..Len(queue')
    OBVIOUS
  <2>5. \A t \in {queue'[i] : i \in DOMAIN queue'} : \E i \in 1..Len(queue) : t = queue[i]
    BY <2>1, <2>4
  <2>6. \A i \in 1..Len(queue) : queue[i] = Head(queue) \/ queue[i] \in {queue'[k] : k \in DOMAIN queue'}
    BY <2>2, <2>3, <2>4
  <2> QED BY <2>3, <2>4, <2>5, <2>6
<1> QED
  BY <1>1, <1>2 DEF Pending

\* A stale tag was not pending.
LEMMA StaleGone ==
  ASSUME queue' = queue, epoch' = epoch, Hand, ~Hand', w.tag.epoch # epoch
  PROVE  Pending' = Pending
<1>1. InHand = {w.tag} /\ InHand' = {}
  BY DEF InHand, Hand, Talking
<1> QED
  BY <1>1 DEF Pending

\* A batch joins what is left of the queue.
LEMMA Arrives ==
  ASSUME SenderConstants, Typed, Media, Queued, TicketOrder, Told,
         NEW q \in Seq(Tag), NEW r \in Seq(Tag), FromSome(q, queue),
         \A k \in 1..Len(r) : /\ r[k].batch = feed.batch + 1
                              /\ r[k].epoch = feed.epoch
                              /\ r[k].ticket \in Nat
                              /\ r[k].ticket <= feed.batch + 1,
         queue' = q \o r, epoch' = feed.epoch, enqueued_ticket' = feed.batch + 1,
         UNCHANGED <<w, state, delivered_epoch, delivery_ticket>>
  PROVE  /\ Told'
         /\ \/ carried_ticket' = feed.batch + 1
            \/ \E k \in 1..Len(r) : r[k].ticket >= feed.batch + 1
            => Newest' /\ Heard'
<1>0. /\ feed.batch \in Nat /\ epoch \in Nat /\ feed.epoch \in Nat /\ epoch <= feed.epoch
      /\ delivered_epoch \in Nat /\ delivered_epoch <= epoch
      /\ delivery_ticket \in Nat /\ delivery_ticket <= feed.batch
      /\ queue \in Seq(Tag) /\ enqueued_ticket' \in Nat
  <2>1. EpochTyped /\ TicketTyped /\ HeaderTyped
    BY DEF Typed
  <2> QED BY <2>1, GoodTags DEF EpochTyped, TicketTyped, HeaderTyped, Feed, Media, TicketOrder
<1>1. /\ queue' \in Seq(Tag) /\ Len(queue') = Len(q) + Len(r)
      /\ \A i \in 1..Len(queue') :
           \/ i \in 1..Len(q) /\ queue'[i] = q[i]
           \/ i - Len(q) \in 1..Len(r) /\ queue'[i] = r[i - Len(q)]
      /\ \A k \in 1..Len(r) : /\ Len(q) + k \in 1..Len(queue')
                              /\ queue'[Len(q) + k] = r[k]
  OBVIOUS
<1>2. /\ Hand' = Hand /\ Doomed' = Doomed /\ DOMAIN queue' = 1..Len(queue')
      /\ InHand' = IF Hand THEN {w.tag} ELSE {}
  BY <1>1 DEF Hand, Doomed, Over, OnLine, InHand, Talking
<1>3. Told'
  <2>1. SUFFICES ASSUME delivered_epoch = epoch', ~Doomed, NEW t \in Pending'
                 PROVE  delivery_ticket < t.batch
    BY <1>2 DEF Told
  <2>2. epoch' = epoch
    BY <1>0, <2>1
  <2>3. \A u : u.epoch = epoch
             /\ ((\E i \in 1..Len(queue) : u = queue[i]) \/ (Hand /\ u = w.tag)) =>
          delivery_ticket < u.batch
    BY <1>0, <2>1, <2>2, PendingIs DEF Told
  <2>4. t.epoch = epoch /\ ((\E i \in 1..Len(queue') : t = queue'[i]) \/ (Hand /\ t = w.tag))
    BY <1>2, <2>1, <2>2 DEF Pending
  <2>5. CASE Hand /\ t = w.tag
    BY <2>3, <2>4, <2>5
  <2>6. ASSUME NEW i \in 1..Len(q), t = q[i] PROVE delivery_ticket < t.batch
    <3>1. PICK n \in 1..Len(queue) : Same(q[i], queue[n])
      BY DEF FromSome
    <3>2. queue[n].epoch = epoch /\ queue[n].batch = t.batch
      BY <2>4, <2>6, <3>1 DEF Same
    <3> QED BY <2>3, <3>2
  <2>7. ASSUME NEW k \in 1..Len(r), t = r[k] PROVE delivery_ticket < t.batch
    BY <1>0, <2>7
  <2> QED BY <1>1, <2>4, <2>5, <2>6, <2>7
<1>4. ASSUME NEW k \in 1..Len(r), r[k].ticket >= feed.batch + 1
      PROVE  \E t \in Pending' : t.ticket = enqueued_ticket'
  <2>1. r[k].ticket = feed.batch + 1 /\ r[k].epoch = epoch'
    BY <1>0, <1>4
  <2>2. r[k] \in {queue'[i] : i \in DOMAIN queue'}
    BY <1>1, <1>2
  <2>3. r[k] \in Pending'
    BY <2>1, <2>2 DEF Pending
  <2> QED BY <2>1, <2>3
<1> QED
  BY <1>3, <1>4 DEF Newest, Heard

\* The worker lets go of its tag.  If that one carried the newest ticket nothing
\* waits behind it.
LEMMA LetGo ==
  ASSUME queue \in Seq(Tag), TicketOrder, Newest, Hand, ~Hand', Hand => Holds,
         feed.batch \in Nat, enqueued_ticket \in Nat, queue' = queue,
         w.tag.ticket \in Nat, Doomed => Doomed',
         UNCHANGED <<epoch, carried_ticket, enqueued_ticket, feed,
                     stop_requested>>
  PROVE  /\ Newest'
         /\ Pending' \subseteq Pending
         /\ \A t \in Pending' : w.tag.ticket < t.batch
         /\ \A t \in Pending : t \in Pending' \/ t = w.tag
<1>1. \A t : t \in Pending <=>
        /\ t.epoch = epoch
        /\ (\E i \in 1..Len(queue) : t = queue[i]) \/ t = w.tag
  BY PendingIs
<1>2. \A t : t \in Pending' <=>
        t.epoch = epoch /\ \E i \in 1..Len(queue) : t = queue[i]
  <2>1. InHand' = {}
    BY DEF InHand, Hand, Talking
  <2>2. DOMAIN queue = 1..Len(queue)
    OBVIOUS
  <2> QED BY <2>1, <2>2 DEF Pending
<1>3. \A t \in Pending' : /\ w.tag.ticket < t.batch
                          /\ t.batch \in Nat /\ t.batch <= feed.batch
  BY <1>2 DEF TicketOrder, Behind, Within
<1>4. Newest'
  <2>1. SUFFICES ASSUME enqueued_ticket # 0, Pending' # {},
                        ~stop_requested, ~Doomed', feed.phase # "failed",
                        carried_ticket # enqueued_ticket
                 PROVE  \E t \in Pending' : t.ticket = enqueued_ticket
    BY DEF Newest
  <2>2. Pending # {} /\ ~Doomed
    BY <1>1, <1>2, <2>1
  <2>3. PICK u \in Pending : u.ticket = enqueued_ticket
    BY <2>1, <2>2 DEF Newest
  <2>4. PICK t \in Pending' : TRUE
    BY <2>1
  <2>5. enqueued_ticket = feed.batch
    BY <2>1 DEF TicketOrder
  <2>6. u # w.tag
    BY <1>3, <2>3, <2>4, <2>5
  <2> QED BY <1>1, <1>2, <2>3, <2>6
<1> QED
  BY <1>1, <1>2, <1>3, <1>4

\* What a dispatch puts in the queue is of its own batch, and of its epoch.
LEMMA OfTheBatch ==
  ASSUME SenderConstants, Typed, NEW kinds \in Batches, NEW tags, tags = Tags(kinds),
         NEW r \in Seq(Tag), FromSome(r, tags), Within(r, feed.batch + 1)
  PROVE  \A k \in 1..Len(r) : /\ r[k].batch = feed.batch + 1 /\ r[k].epoch = feed.epoch
                              /\ r[k].ticket \in Nat /\ r[k].ticket <= feed.batch + 1
<1>1. PICK b, e : b = feed.batch + 1 /\ e = feed.epoch
  OBVIOUS
<1>2. \A i \in 1..Len(tags) : tags[i].batch = b /\ tags[i].epoch = e
  <2>1. \A i \in 1..Len(Tags(kinds)) : /\ Tags(kinds)[i].batch = feed.batch + 1
                                        /\ Tags(kinds)[i].epoch = feed.epoch
    BY TagsOrder
  <2> QED BY <1>1, <2>1
<1>3. \A k \in 1..Len(r) : r[k].batch = b /\ r[k].epoch = e
  <2>1. \A k \in 1..Len(r) : \E i \in 1..Len(tags) : Same(r[k], tags[i])
    BY DEF FromSome
  <2> QED BY <1>2, <2>1 DEF Same
<1>4. \A k \in 1..Len(r) : r[k].ticket \in Nat /\ r[k].ticket <= feed.batch + 1
  BY TagsOfSeq DEF Within
<1> QED
  BY <1>1, <1>3, <1>4

-----------------------------------------------------------------------------
(* Every step keeps the tickets in order.                                   *)

\* The queue stays in the order of its tickets.
LEMMA TicketOrderStep ==
  ASSUME SenderConstants, Typed, Place, Media, Queued, Life, Resume, TicketOrder, [Next]_vars
  PROVE  TicketOrder'
<1>0. /\ LifeTyped /\ EpochTyped /\ TicketTyped /\ HeaderTyped /\ WorkerTyped
      /\ WireTyped
  BY DEF Typed
<1>1. ASSUME NEW kinds \in Batches, EnqueueDropped(kinds) PROVE TicketOrder'
  <2>0. /\ epoch' = feed.epoch /\ epoch <= epoch' /\ feed'.batch = feed.batch + 1
        /\ feed.batch \in Nat /\ enqueued_ticket' = feed.batch + 1 /\ w' = w
        /\ feed.epoch \in Nat /\ epoch \in Nat
    BY <1>1, <1>0, Enqueues DEF EpochTyped
  <2>1. /\ delivered_epoch \in Nat /\ delivery_ticket \in Nat /\ carried_ticket \in Nat
        /\ delivered_epoch <= epoch' /\ delivery_ticket <= feed.batch + 1
        /\ queue \in Seq(Tag)
    BY <1>0, <2>0, GoodTags DEF TicketOrder, TicketTyped
  <2>2. Within(queue, feed.batch + 1)
    BY <2>0, <2>1, WithinGrows DEF TicketOrder
  <2>3. Holds' = Holds
    BY <2>0 DEF Holds, OnLine
  <2>4. Holds => /\ w.tag.batch \in 1..(feed.batch + 1) /\ w.tag.ticket \in Nat
                 /\ w.tag.ticket <= feed.batch + 1 /\ w.tag.ticket <= feed.batch
                 /\ Behind(w.tag.ticket, queue)
    BY <1>0, <2>0, HeldTag DEF TicketOrder
  <2>5. /\ queue' = queue /\ delivered_epoch' = epoch' /\ delivery_ticket' = feed.batch + 1
        /\ carried_ticket' = 0 /\ ~drop_video_until_keyframe'
    BY <1>1, <2>0 DEF EnqueueDropped
  <2> QED BY <2>0, <2>1, <2>2, <2>3, <2>4, <2>5 DEF TicketOrder
<1>2. ASSUME NEW kinds \in Batches, EnqueueRefused(kinds) PROVE TicketOrder'
  <2>0. /\ epoch' = feed.epoch /\ epoch <= epoch' /\ feed'.batch = feed.batch + 1
        /\ feed.batch \in Nat /\ enqueued_ticket' = feed.batch + 1 /\ w' = w
        /\ feed.epoch \in Nat /\ epoch \in Nat
    BY <1>2, <1>0, Enqueues DEF EpochTyped
  <2>1. /\ delivered_epoch \in Nat /\ delivery_ticket \in Nat /\ carried_ticket \in Nat
        /\ delivered_epoch <= epoch' /\ delivery_ticket <= feed.batch + 1
        /\ queue \in Seq(Tag)
    BY <1>0, <2>0, GoodTags DEF TicketOrder, TicketTyped
  <2>2. Within(queue, feed.batch + 1)
    BY <2>0, <2>1, WithinGrows DEF TicketOrder
  <2>3. Holds' = Holds
    BY <2>0 DEF Holds, OnLine
  <2>4. Holds => /\ w.tag.batch \in 1..(feed.batch + 1) /\ w.tag.ticket \in Nat
                 /\ w.tag.ticket <= feed.batch + 1 /\ w.tag.ticket <= feed.batch
                 /\ Behind(w.tag.ticket, queue)
    BY <1>0, <2>0, HeldTag DEF TicketOrder
  <2>5. /\ queue' = queue /\ UNCHANGED <<delivered_epoch, delivery_ticket>>
        /\ carried_ticket' \in {0, carried_ticket}
        /\ drop_video_until_keyframe' => drop_video_until_keyframe
    BY <1>2, <2>0 DEF EnqueueRefused, Carried0, Drop0
  <2>6. carried_ticket' <= feed.batch + 1
    BY <2>0, <2>1, <2>5 DEF TicketOrder
  <2>7. drop_video_until_keyframe' => NoVideo(queue')
    BY <2>5 DEF TicketOrder
  <2>8. Ordered(queue')
    BY <2>5 DEF TicketOrder
  <2> QED BY <2>0, <2>1, <2>2, <2>3, <2>4, <2>5, <2>6, <2>7, <2>8 DEF TicketOrder
<1>3. ASSUME NEW kinds \in Batches, EnqueuePushed(kinds) PROVE TicketOrder'
  <2>0. /\ epoch' = feed.epoch /\ epoch <= epoch' /\ feed'.batch = feed.batch + 1
        /\ feed.batch \in Nat /\ enqueued_ticket' = feed.batch + 1 /\ w' = w
        /\ feed.epoch \in Nat /\ epoch \in Nat
    BY <1>3, <1>0, Enqueues DEF EpochTyped
  <2>1. /\ delivered_epoch \in Nat /\ delivery_ticket \in Nat /\ carried_ticket \in Nat
        /\ delivered_epoch <= epoch' /\ delivery_ticket <= feed.batch + 1
        /\ queue \in Seq(Tag)
    BY <1>0, <2>0, GoodTags DEF TicketOrder, TicketTyped
  <2>2. Within(queue, feed.batch + 1)
    BY <2>0, <2>1, WithinGrows DEF TicketOrder
  <2>3. Holds' = Holds
    BY <2>0 DEF Holds, OnLine
  <2>4. Holds => /\ w.tag.batch \in 1..(feed.batch + 1) /\ w.tag.ticket \in Nat
                 /\ w.tag.ticket <= feed.batch + 1 /\ w.tag.ticket <= feed.batch
                 /\ Behind(w.tag.ticket, queue)
    BY <1>0, <2>0, HeldTag DEF TicketOrder
  <2>5. PICK tags : tags = Tags(kinds)
    OBVIOUS
  <2>6. PICK q, r : q = Relieved(tags).queue /\ r = FirstTry(tags).kept
    OBVIOUS
  <2>7. /\ queue' = q \o r /\ carried_ticket' = FirstTry(tags).carried
        /\ drop_video_until_keyframe' = FirstTry(tags).drop
        /\ UNCHANGED <<delivered_epoch, delivery_ticket>>
    BY <1>3, <2>5, <2>6 DEF EnqueuePushed
  <2>8. TryFacts(feed.batch, tags)
    BY <2>5, EnqueueOrder
  <2>9. /\ q \in Seq(Tag) /\ Within(q, feed.batch) /\ Ordered(q)
        /\ FromSome(q, queue)
        /\ r \in Seq(Tag) /\ Within(r, feed.batch + 1) /\ Ordered(r)
        /\ FromSome(r, tags) /\ carried_ticket' <= feed.batch + 1
        /\ drop_video_until_keyframe' => NoVideo(q) /\ NoVideo(r)
    BY <2>6, <2>7, <2>8 DEF TryFacts
  <2>10. \A k \in 1..Len(r) : r[k].batch = feed.batch + 1
    BY <2>5, <2>9, TagsOrder DEF FromSome, Same
  <2>11. /\ Within(queue', feed.batch + 1) /\ Ordered(queue')
         /\ NoVideo(q) /\ NoVideo(r) => NoVideo(queue')
         /\ \A c \in Nat : c <= feed.batch /\ Behind(c, q) => Behind(c, queue')
    BY <2>0, <2>7, <2>9, <2>10, JoinsQueue
  <2>12. \A c \in Nat : Behind(c, queue) => Behind(c, q)
    BY <2>9, StaysBehind
  <2>13. drop_video_until_keyframe' => NoVideo(queue')
    BY <2>9, <2>11
  <2>14. Holds => Behind(w.tag.ticket, queue')
    BY <2>4, <2>11, <2>12
  <2> QED BY <2>0, <2>1, <2>3, <2>4, <2>7, <2>9, <2>11, <2>13, <2>14 DEF TicketOrder
<1>4. ASSUME NEW kinds \in Batches, EnqueueFull(kinds) PROVE TicketOrder'
  <2>0. /\ epoch' = feed.epoch /\ epoch <= epoch' /\ feed'.batch = feed.batch + 1
        /\ feed.batch \in Nat /\ enqueued_ticket' = feed.batch + 1 /\ w' = w
        /\ feed.epoch \in Nat /\ epoch \in Nat
    BY <1>4, <1>0, Enqueues DEF EpochTyped
  <2>1. /\ delivered_epoch \in Nat /\ delivery_ticket \in Nat /\ carried_ticket \in Nat
        /\ delivered_epoch <= epoch' /\ delivery_ticket <= feed.batch + 1
        /\ queue \in Seq(Tag)
    BY <1>0, <2>0, GoodTags DEF TicketOrder, TicketTyped
  <2>2. Within(queue, feed.batch + 1)
    BY <2>0, <2>1, WithinGrows DEF TicketOrder
  <2>3. Holds' = Holds
    BY <2>0 DEF Holds, OnLine
  <2>4. Holds => /\ w.tag.batch \in 1..(feed.batch + 1) /\ w.tag.ticket \in Nat
                 /\ w.tag.ticket <= feed.batch + 1 /\ w.tag.ticket <= feed.batch
                 /\ Behind(w.tag.ticket, queue)
    BY <1>0, <2>0, HeldTag DEF TicketOrder
  <2>5. PICK tags : tags = Tags(kinds)
    OBVIOUS
  <2>6. PICK q, r : q = Emptied(tags).queue /\ r = SecondTry(tags).kept
    OBVIOUS
  <2>7. /\ (queue' = q \o r /\ Fits(q, r)) \/ queue' = q \o <<>>
        /\ carried_ticket' = SecondTry(tags).carried
        /\ drop_video_until_keyframe' = SecondTry(tags).drop
        /\ UNCHANGED <<delivered_epoch, delivery_ticket>>
        /\ ~Fits(Relieved(tags).queue, FirstTry(tags).kept)
    BY <1>4, <2>5, <2>6 DEF EnqueueFull
  <2>8. TryFacts(feed.batch, tags)
    BY <2>5, EnqueueOrder
  <2>9. /\ q \in Seq(Tag) /\ Within(q, feed.batch) /\ Ordered(q)
        /\ FromSome(q, queue) /\ NoVideo(q)
        /\ r \in Seq(Tag) /\ Within(r, feed.batch + 1)
        /\ FromSome(r, tags) /\ carried_ticket' <= feed.batch + 1
        /\ drop_video_until_keyframe' => NoVideo(r)
    BY <2>6, <2>7, <2>8 DEF TryFacts
  <2>10. \A k \in 1..Len(r) : r[k].batch = feed.batch + 1
    BY <2>5, <2>9, TagsOrder DEF FromSome, Same
  <2>11. Fits(q, r) => Ordered(r)
    <3>1. FirstTry(tags).drop => ~Fits(q, r)
      BY <2>6, <2>7, <2>8 DEF TryFacts, Fits
    <3> QED BY <3>1, <2>6, <2>8 DEF TryFacts
  <2>12. q \o <<>> = q
    BY <2>9
  <2>13. Within(q, feed.batch + 1)
    BY <2>0, <2>9, WithinGrows
  <2>14. /\ Within(queue', feed.batch + 1) /\ Ordered(queue')
         /\ NoVideo(r) => NoVideo(queue')
         /\ \A c \in Nat : c <= feed.batch /\ Behind(c, q) => Behind(c, queue')
    <3>1. CASE queue' = q \o r /\ Fits(q, r)
      BY <3>1, <2>0, <2>9, <2>10, <2>11, JoinsQueue
    <3>2. CASE queue' = q \o <<>>
      BY <3>2, <2>9, <2>12, <2>13
    <3> QED BY <2>7, <3>1, <3>2
  <2>15. \A c \in Nat : Behind(c, queue) => Behind(c, q)
    BY <2>9, StaysBehind
  <2>16. drop_video_until_keyframe' => NoVideo(queue')
    BY <2>9, <2>14
  <2>17. Holds => Behind(w.tag.ticket, queue')
    BY <2>4, <2>14, <2>15
  <2> QED BY <2>0, <2>1, <2>3, <2>4, <2>7, <2>9, <2>14, <2>16, <2>17 DEF TicketOrder
<1>5. ASSUME InvalidateEpoch PROVE TicketOrder'
  <2>1. /\ queue' = <<>> /\ feed'.batch = feed.batch /\ w' = w /\ epoch <= epoch'
        /\ epoch' \in Nat /\ epoch \in Nat /\ feed.batch \in Nat
        /\ carried_ticket' = 0 /\ enqueued_ticket' = 0 /\ ~drop_video_until_keyframe'
        /\ UNCHANGED <<delivered_epoch, delivery_ticket>>
    BY <1>5, <1>0, Invalidates DEF InvalidateEpoch, ackVars, EpochTyped, HeaderTyped, Feed
  <2>2. /\ Within(queue', feed.batch) /\ Ordered(queue') /\ \A c : Behind(c, queue')
    BY <2>1 DEF Within, Ordered, Behind
  <2>3. Holds' = Holds
    BY <2>1 DEF Holds, OnLine
  <2>4. delivered_epoch' <= epoch'
    BY <1>0, <2>1 DEF TicketOrder, TicketTyped
  <2> QED BY <2>1, <2>2, <2>3, <2>4 DEF TicketOrder
<1>6. ASSUME RequestStop PROVE TicketOrder'
  <2>1. OrderHolds
    BY <1>6, <1>0 DEF RequestStop, StopQueue, OrderHolds, Holds, OnLine, Talking, Looping, Away,
       Reaching, Shutting, Place, WorkerTyped, Locals, lifeVars, epochVars,
       ackVars, shedVars, headerVars, queueVars, sharedVars, Go, Local
  <2> QED BY <1>0, <2>1, OrderStays
<1>7. ASSUME Join PROVE TicketOrder'
  <2>1. OrderHolds
    BY <1>7, <1>0 DEF Join, OrderHolds, Holds, OnLine, Talking, Looping, Away,
       Reaching, Shutting, Place, WorkerTyped, Locals, lifeVars, epochVars,
       ackVars, shedVars, headerVars, queueVars, sharedVars, Go, Local
  <2> QED BY <1>0, <2>1, OrderStays
<1>8. ASSUME WatchdogExpires PROVE TicketOrder'
  <2>1. OrderHolds
    BY <1>8, <1>0 DEF WatchdogExpires, OrderHolds, Holds, OnLine, Talking, Looping, Away,
       Reaching, Shutting, Place, WorkerTyped, Locals, lifeVars, epochVars,
       ackVars, shedVars, headerVars, queueVars, sharedVars, Go, Local
  <2> QED BY <1>0, <2>1, OrderStays
<1>9. ASSUME WatchdogInterrupts PROVE TicketOrder'
  <2>1. OrderHolds
    BY <1>9, <1>0 DEF WatchdogInterrupts, OrderHolds, Holds, OnLine, Talking, Looping, Away,
       Reaching, Shutting, Place, WorkerTyped, Locals, lifeVars, epochVars,
       ackVars, shedVars, headerVars, queueVars, sharedVars, Go, Local
  <2> QED BY <1>0, <2>1, OrderStays
<1>10. ASSUME Dial PROVE TicketOrder'
  <2>1. OrderHolds
    BY <1>10, <1>0 DEF Dial, BeginIO, OrderHolds, Holds, OnLine, Talking, Looping, Away,
       Reaching, Shutting, Place, WorkerTyped, Locals, lifeVars, epochVars,
       ackVars, shedVars, headerVars, queueVars, sharedVars, Go, Local
  <2> QED BY <1>0, <2>1, OrderStays
<1>11. ASSUME Connected PROVE TicketOrder'
  <2>1. OrderHolds
    BY <1>11, <1>0 DEF Connected, Acked, KeepTransport, SilentWire, OrderHolds, Holds, OnLine, Talking, Looping, Away,
       Reaching, Shutting, Place, WorkerTyped, Locals, lifeVars, epochVars,
       ackVars, shedVars, headerVars, queueVars, sharedVars, Go, Local
  <2> QED BY <1>0, <2>1, OrderStays
<1>12. ASSUME ConnectFails PROVE TicketOrder'
  <2>1. OrderHolds
    BY <1>12, <1>0 DEF ConnectFails, Acked, LoseTransport, OrderHolds, Holds, OnLine, Talking, Looping, Away,
       Reaching, Shutting, Place, WorkerTyped, Locals, lifeVars, epochVars,
       ackVars, shedVars, headerVars, queueVars, sharedVars, Go, Local
  <2> QED BY <1>0, <2>1, OrderStays
<1>13. ASSUME Send PROVE TicketOrder'
  <2>1. OrderHolds
    BY <1>13, <1>0, Sends DEF OrderHolds, Send, Holds, OnLine, Talking, ackVars, shedVars, queueVars
  <2> QED BY <1>0, <2>1, OrderStays
<1>14. ASSUME Sent PROVE TicketOrder'
  <2>1. OrderHolds
    BY <1>14, <1>0, Writes DEF OrderHolds, Sent, Holds, OnLine, Talking, ackVars, shedVars, queueVars
  <2> QED BY <1>0, <2>1, OrderStays
<1>15. ASSUME SendFails PROVE TicketOrder'
  <2>1. OrderHolds
    BY <1>15, <1>0 DEF SendFails, Acked, LoseTransport, OrderHolds, Holds, OnLine, Talking, Looping, Away,
       Reaching, Shutting, Place, WorkerTyped, Locals, lifeVars, epochVars,
       ackVars, shedVars, headerVars, queueVars, sharedVars, Go, Local
  <2> QED BY <1>0, <2>1, OrderStays
<1>16. ASSUME ReadHeaders PROVE TicketOrder'
  <2>1. OrderHolds
    BY <1>16, <1>0 DEF ReadHeaders, OrderHolds, Holds, OnLine, Talking, Looping, Away,
       Reaching, Shutting, Place, WorkerTyped, Locals, lifeVars, epochVars,
       ackVars, shedVars, headerVars, queueVars, sharedVars, Go, Local
  <2> QED BY <1>0, <2>1, OrderStays
<1>17. ASSUME ConnectPrimed PROVE TicketOrder'
  <2>1. OrderHolds
    BY <1>17, <1>0 DEF ConnectPrimed, Primed, OrderHolds, Holds, OnLine, Talking, Looping, Away,
       Reaching, Shutting, Place, WorkerTyped, Locals, lifeVars, epochVars,
       ackVars, shedVars, headerVars, queueVars, sharedVars, Go, Local
  <2> QED BY <1>0, <2>1, OrderStays
<1>18. ASSUME Close PROVE TicketOrder'
  <2>1. OrderHolds
    BY <1>18, <1>0 DEF Close, BeginIO, OrderHolds, Holds, OnLine, Talking, Looping, Away,
       Reaching, Shutting, Place, WorkerTyped, Locals, lifeVars, epochVars,
       ackVars, shedVars, headerVars, queueVars, sharedVars, Go, Local
  <2> QED BY <1>0, <2>1, OrderStays
<1>19. ASSUME Closed PROVE TicketOrder'
  <2>1. OrderHolds
    BY <1>19, <1>0 DEF Closed, Acked, LoseTransport, OrderHolds, Holds, OnLine, Talking, Looping, Away,
       Reaching, Shutting, Place, WorkerTyped, Locals, lifeVars, epochVars,
       ackVars, shedVars, headerVars, queueVars, sharedVars, Go, Local
  <2> QED BY <1>0, <2>1, OrderStays
<1>20. ASSUME Reconnect PROVE TicketOrder'
  <2>1. OrderHolds
    BY <1>20, <1>0 DEF Reconnect, ReconnectQueue, OrderHolds, Holds, OnLine, Talking, Looping, Away,
       Reaching, Shutting, Place, WorkerTyped, Locals, lifeVars, epochVars,
       ackVars, shedVars, headerVars, queueVars, sharedVars, Go, Local
  <2> QED BY <1>0, <2>1, OrderStays
<1>21. ASSUME TakeCancellation PROVE TicketOrder'
  <2>1. OrderHolds
    BY <1>21, <1>0 DEF TakeCancellation, OrderHolds, Holds, OnLine, Talking, Looping, Away,
       Reaching, Shutting, Place, WorkerTyped, Locals, lifeVars, epochVars,
       ackVars, shedVars, headerVars, queueVars, sharedVars, Go, Local
  <2> QED BY <1>0, <2>1, OrderStays
<1>22. ASSUME ReplaceTransport PROVE TicketOrder'
  <2>1. OrderHolds
    BY <1>22, <1>0 DEF ReplaceTransport, Fresh, OrderHolds, Holds, OnLine, Talking, Looping, Away,
       Reaching, Shutting, Place, WorkerTyped, Locals, lifeVars, epochVars,
       ackVars, shedVars, headerVars, queueVars, sharedVars, Go, Local
  <2> QED BY <1>0, <2>1, OrderStays
<1>23. ASSUME ReplaceFails PROVE TicketOrder'
  <2>1. OrderHolds
    BY <1>23, <1>0 DEF ReplaceFails, EndResume, AckDropped, KeepPending, OrderHolds, Holds, OnLine, Talking, Looping, Away,
       Reaching, Shutting, Place, WorkerTyped, Locals, lifeVars, epochVars,
       ackVars, shedVars, headerVars, queueVars, sharedVars, Go, Local
  <2> QED BY <1>0, <2>1, OrderStays
<1>24. ASSUME Retry PROVE TicketOrder'
  <2>1. OrderHolds
    BY <1>24, <1>0 DEF Retry, OrderHolds, Holds, OnLine, Talking, Looping, Away,
       Reaching, Shutting, Place, WorkerTyped, Locals, lifeVars, epochVars,
       ackVars, shedVars, headerVars, queueVars, sharedVars, Go, Local
  <2> QED BY <1>0, <2>1, OrderStays
<1>25. ASSUME Delayed PROVE TicketOrder'
  <2>1. OrderHolds
    BY <1>25, <1>0 DEF Delayed, OrderHolds, Holds, OnLine, Talking, Looping, Away,
       Reaching, Shutting, Place, WorkerTyped, Locals, lifeVars, epochVars,
       ackVars, shedVars, headerVars, queueVars, sharedVars, Go, Local
  <2> QED BY <1>0, <2>1, OrderStays
<1>26. ASSUME RetryEnds PROVE TicketOrder'
  <2>1. OrderHolds
    BY <1>26, <1>0 DEF RetryEnds, OrderHolds, Holds, OnLine, Talking, Looping, Away,
       Reaching, Shutting, Place, WorkerTyped, Locals, lifeVars, epochVars,
       ackVars, shedVars, headerVars, queueVars, sharedVars, Go, Local
  <2> QED BY <1>0, <2>1, OrderStays
<1>27. ASSUME Exhausted PROVE TicketOrder'
  <2>1. OrderHolds
    BY <1>27, <1>0 DEF Exhausted, EndResume, AckDropped, KeepPending, OrderHolds, Holds, OnLine, Talking, Looping, Away,
       Reaching, Shutting, Place, WorkerTyped, Locals, lifeVars, epochVars,
       ackVars, shedVars, headerVars, queueVars, sharedVars, Go, Local
  <2> QED BY <1>0, <2>1, OrderStays
<1>28. ASSUME AttemptFailed PROVE TicketOrder'
  <2>1. OrderHolds
    BY <1>28, <1>0 DEF AttemptFailed, EndResume, AckDropped, KeepPending, OrderHolds, Holds, OnLine, Talking, Looping, Away,
       Reaching, Shutting, Place, WorkerTyped, Locals, lifeVars, epochVars,
       ackVars, shedVars, headerVars, queueVars, sharedVars, Go, Local
  <2> QED BY <1>0, <2>1, OrderStays
<1>29. ASSUME Redialled PROVE TicketOrder'
  <2>1. OrderHolds
    BY <1>29, <1>0 DEF Redialled, Rejoin, OrderHolds, Holds, OnLine, Talking, Looping, Away,
       Reaching, Shutting, Place, WorkerTyped, Locals, lifeVars, epochVars,
       ackVars, shedVars, headerVars, queueVars, sharedVars, Go, Local
  <2> QED BY <1>0, <2>1, OrderStays
<1>30. ASSUME Booted PROVE TicketOrder'
  <2>1. OrderHolds
    BY <1>30, <1>0, Boots DEF OrderHolds, Booted, Holds, OnLine, Talking, Looping, epochVars, ackVars, shedVars, queueVars
  <2> QED BY <1>0, <2>1, OrderStays
<1>31. ASSUME GiveUp PROVE TicketOrder'
  <2>1. OrderHolds
    BY <1>31, <1>0 DEF GiveUp, OrderHolds, Holds, OnLine, Talking, Looping, Away,
       Reaching, Shutting, Place, WorkerTyped, Locals, lifeVars, epochVars,
       ackVars, shedVars, headerVars, queueVars, sharedVars, Go, Local
  <2> QED BY <1>0, <2>1, OrderStays
<1>32. ASSUME Fail PROVE TicketOrder'
  <2>1. OrderHolds
    BY <1>32, <1>0 DEF Fail, OrderHolds, Holds, OnLine, Talking, Looping, Away,
       Reaching, Shutting, Place, WorkerTyped, Locals, lifeVars, epochVars,
       ackVars, shedVars, headerVars, queueVars, sharedVars, Go, Local
  <2> QED BY <1>0, <2>1, OrderStays
<1>33. ASSUME CloseQueue PROVE TicketOrder'
  <2>1. OrderHolds
    BY <1>33, <1>0 DEF CloseQueue, OrderHolds, Holds, OnLine, Talking, Looping, Away,
       Reaching, Shutting, Place, WorkerTyped, Locals, lifeVars, epochVars,
       ackVars, shedVars, headerVars, queueVars, sharedVars, Go, Local
  <2> QED BY <1>0, <2>1, OrderStays
<1>34. ASSUME Pop PROVE TicketOrder'
  <2>1. /\ queue \in Seq(Tag) /\ queue # <<>> /\ queue' = Tail(queue)
        /\ UNCHANGED <<epoch, ackVars, shedVars, feed>>
        /\ w'.tag = Head(queue) /\ Holds'
    BY <1>34, <1>0, GoodTags DEF Pop, WorkerTyped, Locals, Holds, epochVars
  <2>2. \A i \in 1..Len(queue') : i + 1 \in 1..Len(queue) /\ queue'[i] = queue[i + 1]
    BY <2>1
  <2>3. Within(queue', feed.batch)
    BY <2>2 DEF TicketOrder, Within
  <2>4. Ordered(queue')
    <3>1. SUFFICES ASSUME NEW i \in 1..Len(queue'), NEW j \in 1..Len(queue'), i < j
                   PROVE  queue'[i].ticket < queue'[j].batch
      BY DEF Ordered
    <3>2. i + 1 < j + 1 /\ i + 1 \in 1..Len(queue) /\ j + 1 \in 1..Len(queue)
      BY <2>2, <3>1
    <3> QED BY <2>2, <3>2 DEF TicketOrder, Ordered
  <2>5. 1 \in 1..Len(queue) /\ w'.tag = queue[1]
    BY <2>1
  <2>6. Behind(w'.tag.ticket, queue')
    <3>1. SUFFICES ASSUME NEW j \in 1..Len(queue') PROVE queue[1].ticket < queue'[j].batch
      BY <2>5 DEF Behind
    <3>2. 1 < j + 1 /\ j + 1 \in 1..Len(queue)
      BY <2>2
    <3> QED BY <2>2, <2>5, <3>2 DEF TicketOrder, Ordered
  <2>7. w'.tag.batch \in 1..feed.batch /\ w'.tag.ticket <= feed.batch
    BY <2>5 DEF TicketOrder, Within
  <2>8. drop_video_until_keyframe' => NoVideo(queue')
    BY <2>1, <2>2 DEF TicketOrder, NoVideo, shedVars
  <2> QED BY <2>1, <2>3, <2>4, <2>6, <2>7, <2>8 DEF TicketOrder, ackVars, shedVars
<1>35. ASSUME Leave PROVE TicketOrder'
  <2>1. OrderHolds
    BY <1>35, <1>0 DEF Leave, OrderHolds, Holds, OnLine, Talking, Looping, Away,
       Reaching, Shutting, Place, WorkerTyped, Locals, lifeVars, epochVars,
       ackVars, shedVars, headerVars, queueVars, sharedVars, Go, Local
  <2> QED BY <1>0, <2>1, OrderStays
<1>36. ASSUME Select PROVE TicketOrder'
  <2>1. OrderHolds
    BY <1>36, <1>0 DEF Select, OrderHolds, Holds, OnLine, Talking, Looping, Away,
       Reaching, Shutting, Place, WorkerTyped, Locals, lifeVars, epochVars,
       ackVars, shedVars, headerVars, queueVars, sharedVars, Go, Local
  <2> QED BY <1>0, <2>1, OrderStays
<1>37. ASSUME LoopPrimed PROVE TicketOrder'
  <2>1. OrderHolds
    BY <1>37, <1>0, Primes DEF OrderHolds, LoopPrimed, Holds, OnLine, Talking, epochVars, ackVars, shedVars, queueVars
  <2> QED BY <1>0, <2>1, OrderStays
<1>38. ASSUME TagWritten PROVE TicketOrder'
  <2>1. /\ UNCHANGED <<queue, feed, epoch, carried_ticket, enqueued_ticket,
                       drop_video_until_keyframe>>
        /\ Holds /\ w'.tag = w.tag
    BY <1>38, <1>0 DEF TagWritten, epochVars, shedVars, queueVars, Go, WorkerTyped,
       Locals, Place, Holds, Talking
  <2>2. \/ delivered_epoch' = w.tag.epoch /\ delivery_ticket' = w.tag.ticket
        \/ UNCHANGED <<delivered_epoch, delivery_ticket>>
    BY <1>38 DEF TagWritten
  <2>3. w.tag.epoch <= epoch
    BY <1>0, <2>1, HeldTag
  <2> QED BY <2>1, <2>2, <2>3 DEF TicketOrder
<1>39. ASSUME Publish PROVE TicketOrder'
  <2>1. OrderHolds
    BY <1>39, <1>0 DEF Publish, Published, OrderHolds, Holds, OnLine, Talking, Looping, Away,
       Reaching, Shutting, Place, WorkerTyped, Locals, lifeVars, epochVars,
       ackVars, shedVars, headerVars, queueVars, sharedVars, Go, Local
  <2> QED BY <1>0, <2>1, OrderStays
<1>40. ASSUME Stopped PROVE TicketOrder'
  <2>1. OrderHolds
    BY <1>40, <1>0 DEF Stopped, vars, OrderHolds, Holds, OnLine, Talking, Looping, Away,
       Reaching, Shutting, Place, WorkerTyped, Locals, lifeVars, epochVars,
       ackVars, shedVars, headerVars, queueVars, sharedVars, Go, Local
  <2> QED BY <1>0, <2>1, OrderStays
<1>41. ASSUME UNCHANGED vars PROVE TicketOrder'
  <2>1. OrderHolds
    BY <1>41, <1>0 DEF vars, OrderHolds, Holds, OnLine, Talking, Looping, Away,
       Reaching, Shutting, Place, WorkerTyped, Locals, lifeVars, epochVars,
       ackVars, shedVars, headerVars, queueVars, sharedVars, Go, Local
  <2> QED BY <1>0, <2>1, OrderStays
<1> QED BY <1>1, <1>2, <1>3, <1>4, <1>5, <1>6, <1>7, <1>8, <1>9, <1>10,
     <1>11, <1>12, <1>13, <1>14, <1>15, <1>16, <1>17, <1>18, <1>19, <1>20,
     <1>21, <1>22, <1>23, <1>24, <1>25, <1>26, <1>27, <1>28, <1>29, <1>30,
     <1>31, <1>32, <1>33, <1>34, <1>35, <1>36, <1>37, <1>38, <1>39, <1>40,
     <1>41 DEF Next, Pipeline, Owner, Watchdog, Worker

\* A sender that is not connected has nothing queued.
LEMMA KeepsNothingStep ==
  ASSUME SenderConstants, Typed, Place, Media, Queued, Life, Resume, KeepsNothing, [Next]_vars
  PROVE  KeepsNothing'
<1>0. /\ LifeTyped /\ EpochTyped /\ TicketTyped /\ HeaderTyped /\ WorkerTyped
      /\ WireTyped
  BY DEF Typed
<1>1. ASSUME NEW kinds \in Batches, EnqueueDropped(kinds) PROVE KeepsNothing'
  <2>1. UNCHANGED <<lifeVars, resume_after_transition, w>>
    BY <1>1, Enqueues
  <2>2. state \in {"Starting", "Reconnecting"} /\ ~resume_after_transition => queue' = queue
    BY <1>1 DEF EnqueueDropped, Resuming
  <2> QED BY <2>1, <2>2 DEF KeepsNothing, Doomed, Over, lifeVars
<1>2. ASSUME NEW kinds \in Batches, EnqueueRefused(kinds) PROVE KeepsNothing'
  <2>1. UNCHANGED <<lifeVars, resume_after_transition, w>>
    BY <1>2, Enqueues
  <2>2. state \in {"Starting", "Reconnecting"} /\ ~resume_after_transition => queue' = queue
    BY <1>2 DEF EnqueueRefused, Resuming
  <2> QED BY <2>1, <2>2 DEF KeepsNothing, Doomed, Over, lifeVars
<1>3. ASSUME NEW kinds \in Batches, EnqueuePushed(kinds) PROVE KeepsNothing'
  <2>1. UNCHANGED <<lifeVars, resume_after_transition, w>>
    BY <1>3, Enqueues
  <2>2. state \in {"Starting", "Reconnecting"} /\ ~resume_after_transition => queue' = queue
    BY <1>3 DEF EnqueuePushed, Resuming
  <2> QED BY <2>1, <2>2 DEF KeepsNothing, Doomed, Over, lifeVars
<1>4. ASSUME NEW kinds \in Batches, EnqueueFull(kinds) PROVE KeepsNothing'
  <2>1. UNCHANGED <<lifeVars, resume_after_transition, w>>
    BY <1>4, Enqueues
  <2>2. state \in {"Starting", "Reconnecting"} /\ ~resume_after_transition => queue' = queue
    BY <1>4 DEF EnqueueFull, Resuming
  <2> QED BY <2>1, <2>2 DEF KeepsNothing, Doomed, Over, lifeVars
<1>5. ASSUME InvalidateEpoch PROVE KeepsNothing'
  BY <1>5, <1>0 DEF KeepsNothing, Doomed, Over, Place, Life, Resume,
       LifeTyped, EpochTyped, WorkerTyped, Locals, OnLine, Looping, Talking,
       Reaching, Away, Shutting, InvalidateEpoch, Fence, lifeVars, epochVars,
       ackVars, shedVars, headerVars, queueVars, sharedVars, Go, Local
<1>6. ASSUME RequestStop PROVE KeepsNothing'
  BY <1>6, <1>0 DEF KeepsNothing, Doomed, Over, Place, Life, Resume,
       LifeTyped, EpochTyped, WorkerTyped, Locals, OnLine, Looping, Talking,
       Reaching, Away, Shutting, RequestStop, StopQueue, lifeVars, epochVars,
       ackVars, shedVars, headerVars, queueVars, sharedVars, Go, Local
<1>7. ASSUME Join PROVE KeepsNothing'
  BY <1>7, <1>0 DEF KeepsNothing, Doomed, Over, Place, Life, Resume,
       LifeTyped, EpochTyped, WorkerTyped, Locals, OnLine, Looping, Talking,
       Reaching, Away, Shutting, Join, lifeVars, epochVars, ackVars, shedVars,
       headerVars, queueVars, sharedVars, Go, Local
<1>8. ASSUME WatchdogExpires PROVE KeepsNothing'
  BY <1>8, <1>0 DEF KeepsNothing, Doomed, Over, Place, Life, Resume,
       LifeTyped, EpochTyped, WorkerTyped, Locals, OnLine, Looping, Talking,
       Reaching, Away, Shutting, WatchdogExpires, lifeVars, epochVars,
       ackVars, shedVars, headerVars, queueVars, sharedVars, Go, Local
<1>9. ASSUME WatchdogInterrupts PROVE KeepsNothing'
  BY <1>9, <1>0 DEF KeepsNothing, Doomed, Over, Place, Life, Resume,
       LifeTyped, EpochTyped, WorkerTyped, Locals, OnLine, Looping, Talking,
       Reaching, Away, Shutting, WatchdogInterrupts, lifeVars, epochVars,
       ackVars, shedVars, headerVars, queueVars, sharedVars, Go, Local
<1>10. ASSUME Dial PROVE KeepsNothing'
  BY <1>10, <1>0 DEF KeepsNothing, Doomed, Over, Place, Life, Resume,
       LifeTyped, EpochTyped, WorkerTyped, Locals, OnLine, Looping, Talking,
       Reaching, Away, Shutting, Dial, BeginIO, lifeVars, epochVars, ackVars,
       shedVars, headerVars, queueVars, sharedVars, Go, Local
<1>11. ASSUME Connected PROVE KeepsNothing'
  BY <1>11, <1>0 DEF KeepsNothing, Doomed, Over, Place, Life, Resume,
       LifeTyped, EpochTyped, WorkerTyped, Locals, OnLine, Looping, Talking,
       Reaching, Away, Shutting, Connected, Acked, KeepTransport, SilentWire,
       lifeVars, epochVars, ackVars, shedVars, headerVars, queueVars,
       sharedVars, Go, Local
<1>12. ASSUME ConnectFails PROVE KeepsNothing'
  BY <1>12, <1>0 DEF KeepsNothing, Doomed, Over, Place, Life, Resume,
       LifeTyped, EpochTyped, WorkerTyped, Locals, OnLine, Looping, Talking,
       Reaching, Away, Shutting, ConnectFails, Acked, LoseTransport, lifeVars,
       epochVars, ackVars, shedVars, headerVars, queueVars, sharedVars, Go,
       Local
<1>13. ASSUME Send PROVE KeepsNothing'
  BY <1>13, <1>0 DEF KeepsNothing, Doomed, Over, Place, Life, Resume,
       LifeTyped, EpochTyped, WorkerTyped, Locals, OnLine, Looping, Talking,
       Reaching, Away, Shutting, Send, BeginIO, lifeVars, epochVars, ackVars,
       shedVars, headerVars, queueVars, sharedVars, Go, Local
<1>14. ASSUME Sent PROVE KeepsNothing'
  BY <1>14, <1>0 DEF KeepsNothing, Doomed, Over, Place, Life, Resume,
       LifeTyped, EpochTyped, WorkerTyped, Locals, OnLine, Looping, Talking,
       Reaching, Away, Shutting, Sent, Acked, KeepTransport, lifeVars,
       epochVars, ackVars, shedVars, headerVars, queueVars, sharedVars, Go,
       Local
<1>15. ASSUME SendFails PROVE KeepsNothing'
  BY <1>15, <1>0 DEF KeepsNothing, Doomed, Over, Place, Life, Resume,
       LifeTyped, EpochTyped, WorkerTyped, Locals, OnLine, Looping, Talking,
       Reaching, Away, Shutting, SendFails, Acked, LoseTransport, lifeVars,
       epochVars, ackVars, shedVars, headerVars, queueVars, sharedVars, Go,
       Local
<1>16. ASSUME ReadHeaders PROVE KeepsNothing'
  BY <1>16, <1>0 DEF KeepsNothing, Doomed, Over, Place, Life, Resume,
       LifeTyped, EpochTyped, WorkerTyped, Locals, OnLine, Looping, Talking,
       Reaching, Away, Shutting, ReadHeaders, lifeVars, epochVars, ackVars,
       shedVars, headerVars, queueVars, sharedVars, Go, Local
<1>17. ASSUME ConnectPrimed PROVE KeepsNothing'
  BY <1>17, <1>0 DEF KeepsNothing, Doomed, Over, Place, Life, Resume,
       LifeTyped, EpochTyped, WorkerTyped, Locals, OnLine, Looping, Talking,
       Reaching, Away, Shutting, ConnectPrimed, Primed, lifeVars, epochVars,
       ackVars, shedVars, headerVars, queueVars, sharedVars, Go, Local
<1>18. ASSUME Close PROVE KeepsNothing'
  BY <1>18, <1>0 DEF KeepsNothing, Doomed, Over, Place, Life, Resume,
       LifeTyped, EpochTyped, WorkerTyped, Locals, OnLine, Looping, Talking,
       Reaching, Away, Shutting, Close, BeginIO, lifeVars, epochVars, ackVars,
       shedVars, headerVars, queueVars, sharedVars, Go, Local
<1>19. ASSUME Closed PROVE KeepsNothing'
  BY <1>19, <1>0 DEF KeepsNothing, Doomed, Over, Place, Life, Resume,
       LifeTyped, EpochTyped, WorkerTyped, Locals, OnLine, Looping, Talking,
       Reaching, Away, Shutting, Closed, Acked, LoseTransport, lifeVars,
       epochVars, ackVars, shedVars, headerVars, queueVars, sharedVars, Go,
       Local
<1>20. ASSUME Reconnect PROVE KeepsNothing'
  BY <1>20, <1>0 DEF KeepsNothing, Doomed, Over, Place, Life, Resume,
       LifeTyped, EpochTyped, WorkerTyped, Locals, OnLine, Looping, Talking,
       Reaching, Away, Shutting, Reconnect, ReconnectQueue, lifeVars,
       epochVars, ackVars, shedVars, headerVars, queueVars, sharedVars, Go,
       Local
<1>21. ASSUME TakeCancellation PROVE KeepsNothing'
  BY <1>21, <1>0 DEF KeepsNothing, Doomed, Over, Place, Life, Resume,
       LifeTyped, EpochTyped, WorkerTyped, Locals, OnLine, Looping, Talking,
       Reaching, Away, Shutting, TakeCancellation, lifeVars, epochVars,
       ackVars, shedVars, headerVars, queueVars, sharedVars, Go, Local
<1>22. ASSUME ReplaceTransport PROVE KeepsNothing'
  BY <1>22, <1>0 DEF KeepsNothing, Doomed, Over, Place, Life, Resume,
       LifeTyped, EpochTyped, WorkerTyped, Locals, OnLine, Looping, Talking,
       Reaching, Away, Shutting, ReplaceTransport, Fresh, lifeVars, epochVars,
       ackVars, shedVars, headerVars, queueVars, sharedVars, Go, Local
<1>23. ASSUME ReplaceFails PROVE KeepsNothing'
  BY <1>23, <1>0 DEF KeepsNothing, Doomed, Over, Place, Life, Resume,
       LifeTyped, EpochTyped, WorkerTyped, Locals, OnLine, Looping, Talking,
       Reaching, Away, Shutting, ReplaceFails, EndResume, AckDropped,
       KeepPending, lifeVars, epochVars, ackVars, shedVars, headerVars,
       queueVars, sharedVars, Go, Local
<1>24. ASSUME Retry PROVE KeepsNothing'
  BY <1>24, <1>0 DEF KeepsNothing, Doomed, Over, Place, Life, Resume,
       LifeTyped, EpochTyped, WorkerTyped, Locals, OnLine, Looping, Talking,
       Reaching, Away, Shutting, Retry, lifeVars, epochVars, ackVars,
       shedVars, headerVars, queueVars, sharedVars, Go, Local
<1>25. ASSUME Delayed PROVE KeepsNothing'
  BY <1>25, <1>0 DEF KeepsNothing, Doomed, Over, Place, Life, Resume,
       LifeTyped, EpochTyped, WorkerTyped, Locals, OnLine, Looping, Talking,
       Reaching, Away, Shutting, Delayed, lifeVars, epochVars, ackVars,
       shedVars, headerVars, queueVars, sharedVars, Go, Local
<1>26. ASSUME RetryEnds PROVE KeepsNothing'
  BY <1>26, <1>0 DEF KeepsNothing, Doomed, Over, Place, Life, Resume,
       LifeTyped, EpochTyped, WorkerTyped, Locals, OnLine, Looping, Talking,
       Reaching, Away, Shutting, RetryEnds, lifeVars, epochVars, ackVars,
       shedVars, headerVars, queueVars, sharedVars, Go, Local
<1>27. ASSUME Exhausted PROVE KeepsNothing'
  BY <1>27, <1>0 DEF KeepsNothing, Doomed, Over, Place, Life, Resume,
       LifeTyped, EpochTyped, WorkerTyped, Locals, OnLine, Looping, Talking,
       Reaching, Away, Shutting, Exhausted, EndResume, AckDropped,
       KeepPending, lifeVars, epochVars, ackVars, shedVars, headerVars,
       queueVars, sharedVars, Go, Local
<1>28. ASSUME AttemptFailed PROVE KeepsNothing'
  BY <1>28, <1>0 DEF KeepsNothing, Doomed, Over, Place, Life, Resume,
       LifeTyped, EpochTyped, WorkerTyped, Locals, OnLine, Looping, Talking,
       Reaching, Away, Shutting, AttemptFailed, EndResume, AckDropped,
       KeepPending, lifeVars, epochVars, ackVars, shedVars, headerVars,
       queueVars, sharedVars, Go, Local
<1>29. ASSUME Redialled PROVE KeepsNothing'
  BY <1>29, <1>0 DEF KeepsNothing, Doomed, Over, Place, Life, Resume,
       LifeTyped, EpochTyped, WorkerTyped, Locals, OnLine, Looping, Talking,
       Reaching, Away, Shutting, Redialled, Rejoin, lifeVars, epochVars,
       ackVars, shedVars, headerVars, queueVars, sharedVars, Go, Local
<1>30. ASSUME Booted PROVE KeepsNothing'
  <2>1. UNCHANGED <<queue, resume_after_transition>>
    BY <1>30 DEF Booted, epochVars, queueVars
  <2> QED BY <1>30, <1>0, <2>1, Boots DEF Booted, KeepsNothing, Doomed, Over, Shutting, Place, Life
<1>31. ASSUME GiveUp PROVE KeepsNothing'
  BY <1>31, <1>0 DEF KeepsNothing, Doomed, Over, Place, Life, Resume,
       LifeTyped, EpochTyped, WorkerTyped, Locals, OnLine, Looping, Talking,
       Reaching, Away, Shutting, GiveUp, lifeVars, epochVars, ackVars,
       shedVars, headerVars, queueVars, sharedVars, Go, Local
<1>32. ASSUME Fail PROVE KeepsNothing'
  BY <1>32, <1>0 DEF KeepsNothing, Doomed, Over, Place, Life, Resume,
       LifeTyped, EpochTyped, WorkerTyped, Locals, OnLine, Looping, Talking,
       Reaching, Away, Shutting, Fail, lifeVars, epochVars, ackVars, shedVars,
       headerVars, queueVars, sharedVars, Go, Local
<1>33. ASSUME CloseQueue PROVE KeepsNothing'
  BY <1>33, <1>0 DEF KeepsNothing, Doomed, Over, Place, Life, Resume,
       LifeTyped, EpochTyped, WorkerTyped, Locals, OnLine, Looping, Talking,
       Reaching, Away, Shutting, CloseQueue, lifeVars, epochVars, ackVars,
       shedVars, headerVars, queueVars, sharedVars, Go, Local
<1>34. ASSUME Pop PROVE KeepsNothing'
  BY <1>34, <1>0 DEF KeepsNothing, Doomed, Over, Place, Life, Resume,
       LifeTyped, EpochTyped, WorkerTyped, Locals, OnLine, Looping, Talking,
       Reaching, Away, Shutting, Pop, lifeVars, epochVars, ackVars, shedVars,
       headerVars, queueVars, sharedVars, Go, Local
<1>35. ASSUME Leave PROVE KeepsNothing'
  BY <1>35, <1>0 DEF KeepsNothing, Doomed, Over, Place, Life, Resume,
       LifeTyped, EpochTyped, WorkerTyped, Locals, OnLine, Looping, Talking,
       Reaching, Away, Shutting, Leave, lifeVars, epochVars, ackVars,
       shedVars, headerVars, queueVars, sharedVars, Go, Local
<1>36. ASSUME Select PROVE KeepsNothing'
  BY <1>36, <1>0 DEF KeepsNothing, Doomed, Over, Place, Life, Resume,
       LifeTyped, EpochTyped, WorkerTyped, Locals, OnLine, Looping, Talking,
       Reaching, Away, Shutting, Select, lifeVars, epochVars, ackVars,
       shedVars, headerVars, queueVars, sharedVars, Go, Local
<1>37. ASSUME LoopPrimed PROVE KeepsNothing'
  BY <1>37, <1>0 DEF KeepsNothing, Doomed, Over, Place, Life, Resume,
       LifeTyped, EpochTyped, WorkerTyped, Locals, OnLine, Looping, Talking,
       Reaching, Away, Shutting, LoopPrimed, Primed, Joins, lifeVars,
       epochVars, ackVars, shedVars, headerVars, queueVars, sharedVars, Go,
       Local
<1>38. ASSUME TagWritten PROVE KeepsNothing'
  BY <1>38, <1>0 DEF KeepsNothing, Doomed, Over, Place, Life, Resume,
       LifeTyped, EpochTyped, WorkerTyped, Locals, OnLine, Looping, Talking,
       Reaching, Away, Shutting, TagWritten, TicketCounts, lifeVars,
       epochVars, ackVars, shedVars, headerVars, queueVars, sharedVars, Go,
       Local
<1>39. ASSUME Publish PROVE KeepsNothing'
  BY <1>39, <1>0 DEF KeepsNothing, Doomed, Over, Place, Life, Resume,
       LifeTyped, EpochTyped, WorkerTyped, Locals, OnLine, Looping, Talking,
       Reaching, Away, Shutting, Publish, Published, lifeVars, epochVars,
       ackVars, shedVars, headerVars, queueVars, sharedVars, Go, Local
<1>40. ASSUME Stopped PROVE KeepsNothing'
  BY <1>40, <1>0 DEF KeepsNothing, Doomed, Over, Place, Life, Resume,
       LifeTyped, EpochTyped, WorkerTyped, Locals, OnLine, Looping, Talking,
       Reaching, Away, Shutting, Stopped, vars, lifeVars, epochVars, ackVars,
       shedVars, headerVars, queueVars, sharedVars, Go, Local
<1>41. ASSUME UNCHANGED vars PROVE KeepsNothing'
  BY <1>41, <1>0 DEF KeepsNothing, Doomed, Over, Place, Life, Resume,
       LifeTyped, EpochTyped, WorkerTyped, Locals, OnLine, Looping, Talking,
       Reaching, Away, Shutting, vars, lifeVars, epochVars, ackVars, shedVars,
       headerVars, queueVars, sharedVars, Go, Local
<1> QED BY <1>1, <1>2, <1>3, <1>4, <1>5, <1>6, <1>7, <1>8, <1>9, <1>10,
     <1>11, <1>12, <1>13, <1>14, <1>15, <1>16, <1>17, <1>18, <1>19, <1>20,
     <1>21, <1>22, <1>23, <1>24, <1>25, <1>26, <1>27, <1>28, <1>29, <1>30,
     <1>31, <1>32, <1>33, <1>34, <1>35, <1>36, <1>37, <1>38, <1>39, <1>40,
     <1>41 DEF Next, Pipeline, Owner, Watchdog, Worker

\* No step loses the newest ticket, or acknowledges it early.
LEMMA TicketsStep ==
  ASSUME SenderConstants, Typed, Place, Media, Queued, Life, Resume, TicketOrder, KeepsNothing, Told, Newest, Heard, [Next]_vars
  PROVE  Told' /\ Newest' /\ Heard'
<1>0. /\ LifeTyped /\ EpochTyped /\ TicketTyped /\ HeaderTyped /\ WorkerTyped
      /\ WireTyped
  BY DEF Typed
<1>1. ASSUME NEW kinds \in Batches, EnqueueDropped(kinds) PROVE Told' /\ Newest' /\ Heard'
  <2>1. /\ w' = w /\ state' = state /\ queue' = queue
        /\ state \in {"Starting", "Reconnecting"} /\ ~resume_after_transition
    BY <1>1, Enqueues DEF EnqueueDropped, Dropping, Resuming, KeepsNothing, lifeVars
  <2>2. Doomed' = Doomed /\ Hand' = Hand /\ ~Steady'
    BY <1>1, <2>1 DEF Doomed, Over, Hand, OnLine, Steady, EnqueueDropped, Dropping
  <2>3. CASE Doomed
    BY <2>2, <2>3 DEF Told, Newest, Heard
  <2>4. CASE ~Doomed
    <3>1. state \in {"Starting", "Reconnecting"} /\ queue' = <<>>
      BY <1>1, <2>1, <2>4 DEF KeepsNothing, EnqueueDropped, Dropping, Resuming
    <3>2. ~Hand
      BY <3>1 DEF Hand, KeepsNothing, Life, Place, Looping, OnLine, Over, Shutting, Talking
    <3>3. Pending' = {}
      BY <2>2, <3>1, <3>2, NothingPending
    <3> QED BY <2>2, <3>3, Cleared
  <2> QED BY <2>3, <2>4
<1>2. ASSUME NEW kinds \in Batches, EnqueueRefused(kinds) PROVE Told' /\ Newest' /\ Heard'
  <2>1. /\ w' = w /\ state' = state /\ queue' = queue /\ epoch <= epoch'
        /\ UNCHANGED <<delivered_epoch, delivery_ticket>>
        /\ epoch \in Nat /\ epoch' \in Nat
    BY <1>2, <1>0, Enqueues DEF EnqueueRefused, lifeVars, EpochTyped
  <2>2. feed'.phase = "failed"
    BY <1>2, <1>0 DEF EnqueueRefused, Admit, HeaderTyped, Feed
  <2>3. Doomed' = Doomed /\ Hand' = Hand
    BY <2>1 DEF Doomed, Over, Hand, OnLine
  <2>4. Told'
    <3>1. CASE epoch' = epoch
      <4>1. Pending' = Pending
        BY <2>1, <2>3, <3>1, SameHand
      <4> QED BY <2>1, <2>3, <3>1, <4>1 DEF Told
    <3>2. CASE epoch' # epoch
      <4>1. delivered_epoch \in Nat /\ delivered_epoch <= epoch
        BY <1>0 DEF TicketTyped, TicketOrder
      <4>2. delivered_epoch' # epoch'
        BY <2>1, <3>2, <4>1
      <4> QED BY <4>2 DEF Told
    <3> QED BY <3>1, <3>2
  <2> QED BY <2>2, <2>4 DEF Newest, Heard
<1>3. ASSUME NEW kinds \in Batches, EnqueuePushed(kinds) PROVE Told' /\ Newest' /\ Heard'
  <2>1. /\ epoch' = feed.epoch /\ feed.batch \in Nat
        /\ enqueued_ticket' = feed.batch + 1 /\ UNCHANGED <<w, state>>
    BY <1>3, Enqueues DEF lifeVars
  <2>2. PICK tags : tags = Tags(kinds)
    OBVIOUS
  <2>3. PICK q, r : q = Relieved(tags).queue /\ r = FirstTry(tags).kept
    OBVIOUS
  <2>4. /\ queue' = q \o r /\ carried_ticket' = FirstTry(tags).carried
        /\ UNCHANGED <<delivered_epoch, delivery_ticket>>
    BY <1>3, <2>2, <2>3 DEF EnqueuePushed
  <2>5. TryFacts(feed.batch, tags)
    BY <2>2, EnqueueOrder
  <2>6. /\ q \in Seq(Tag) /\ FromSome(q, queue) /\ r \in Seq(Tag) /\ FromSome(r, tags)
        /\ Within(r, feed.batch + 1)
        /\ carried_ticket' \in Nat /\ carried_ticket' <= feed.batch + 1
        /\ \/ carried_ticket' >= feed.batch + 1
           \/ \E k \in 1..Len(r) : r[k].ticket >= feed.batch + 1
    BY <2>3, <2>4, <2>5 DEF TryFacts
  <2>7. \A k \in 1..Len(r) : /\ r[k].batch = feed.batch + 1 /\ r[k].epoch = feed.epoch
                              /\ r[k].ticket \in Nat /\ r[k].ticket <= feed.batch + 1
    <3>1. r \in Seq(Tag) /\ FromSome(r, tags) /\ Within(r, feed.batch + 1)
      BY <2>6
    <3> QED BY <2>2, <3>1, OfTheBatch
  <2>8. \/ carried_ticket' = feed.batch + 1
        \/ \E k \in 1..Len(r) : r[k].ticket >= feed.batch + 1
    BY <2>1, <2>6
  <2> QED BY <2>1, <2>4, <2>6, <2>7, <2>8, Arrives
<1>4. ASSUME NEW kinds \in Batches, EnqueueFull(kinds) PROVE Told' /\ Newest' /\ Heard'
  <2>1. /\ epoch' = feed.epoch /\ feed.batch \in Nat
        /\ enqueued_ticket' = feed.batch + 1 /\ UNCHANGED <<w, state>>
    BY <1>4, Enqueues DEF lifeVars
  <2>2. PICK tags : tags = Tags(kinds)
    OBVIOUS
  <2>3. PICK q, r : q = Emptied(tags).queue /\ r = SecondTry(tags).kept
    OBVIOUS
  <2>4. /\ carried_ticket' = SecondTry(tags).carried
        /\ UNCHANGED <<delivered_epoch, delivery_ticket>>
        /\ ~Fits(Relieved(tags).queue, FirstTry(tags).kept)
    BY <1>4, <2>2, <2>3 DEF EnqueueFull
  <2>5. TryFacts(feed.batch, tags)
    BY <2>2, EnqueueOrder
  <2>6. /\ q \in Seq(Tag) /\ FromSome(q, queue) /\ r \in Seq(Tag) /\ FromSome(r, tags)
        /\ Within(r, feed.batch + 1)
        /\ carried_ticket' \in Nat /\ carried_ticket' <= feed.batch + 1
    BY <2>3, <2>4, <2>5 DEF TryFacts
  <2>7. CASE Fits(q, r)
    <3>1. queue' = q \o r
      BY <1>4, <2>2, <2>3, <2>7 DEF EnqueueFull
    <3>2. ~FirstTry(tags).drop
      BY <2>3, <2>4, <2>5, <2>7 DEF TryFacts, Fits
    <3>3. \/ carried_ticket' >= feed.batch + 1
          \/ \E k \in 1..Len(r) : r[k].ticket >= feed.batch + 1
      BY <2>3, <2>4, <2>5, <3>2 DEF TryFacts
    <3>4. \A k \in 1..Len(r) : /\ r[k].batch = feed.batch + 1 /\ r[k].epoch = feed.epoch
                                /\ r[k].ticket \in Nat /\ r[k].ticket <= feed.batch + 1
      <4>1. r \in Seq(Tag) /\ FromSome(r, tags) /\ Within(r, feed.batch + 1)
        BY <2>6
      <4> QED BY <2>2, <4>1, OfTheBatch
    <3>5. \/ carried_ticket' = feed.batch + 1
          \/ \E k \in 1..Len(r) : r[k].ticket >= feed.batch + 1
      BY <2>1, <2>6, <3>3
    <3> QED BY <2>1, <2>4, <2>6, <3>1, <3>4, <3>5, Arrives
  <2>8. CASE ~Fits(q, r)
    <3>1. queue' = q \o <<>> /\ Admit(kinds, "failed")
      BY <1>4, <2>2, <2>3, <2>8 DEF EnqueueFull
    <3>2. feed'.phase = "failed"
      BY <1>0, <3>1 DEF Admit, HeaderTyped, Feed
    <3>3. <<>> \in Seq(Tag) /\ 1..Len(<<>>) = {}
      OBVIOUS
    <3>4. Told'
      BY <2>1, <2>4, <2>6, <3>1, <3>3, Arrives
    <3> QED BY <3>2, <3>4 DEF Newest, Heard
  <2> QED BY <2>7, <2>8
<1>5. ASSUME InvalidateEpoch PROVE Told' /\ Newest' /\ Heard'
  <2>1. /\ epoch < epoch' /\ epoch' \in Nat /\ epoch \in Nat /\ enqueued_ticket' = 0
        /\ delivered_epoch' = delivered_epoch
    BY <1>5, <1>0, Invalidates DEF InvalidateEpoch, ackVars, EpochTyped
  <2>2. delivered_epoch' # epoch'
    BY <1>0, <2>1 DEF TicketTyped, TicketOrder
  <2> QED BY <2>1, <2>2 DEF Told, Newest, Heard
<1>6. ASSUME RequestStop PROVE Told' /\ Newest' /\ Heard'
  <2>1. /\ stop_requested' /\ state' = "Stopping" /\ queue' = <<>> /\ epoch' = epoch
        /\ UNCHANGED <<w, delivered_epoch, delivery_ticket>>
    BY <1>6 DEF RequestStop, StopQueue, epochVars, ackVars
  <2>2. Hand' = Hand /\ (Doomed => Doomed') /\ ~Steady'
    BY <2>1 DEF Hand, OnLine, Doomed, Over, Steady
  <2>3. Pending' \subseteq Pending
    BY <2>1, <2>2, PendingShrinks
  <2> QED BY <2>1, <2>2, <2>3 DEF Told, Newest, Heard
<1>7. ASSUME Join PROVE Told' /\ Newest' /\ Heard'
  <2>1. /\ UNCHANGED <<queue, epoch, delivered_epoch, delivery_ticket,
                       carried_ticket, enqueued_ticket, feed>>
        /\ (Hand' <=> Hand) /\ (Hand => w'.tag = w.tag)
        /\ (Doomed => Doomed') /\ (stop_requested => stop_requested')
        /\ (Steady' => Steady)
    BY <1>7, <1>0 DEF Join, Hand, Doomed, Over, Steady, OnLine, Talking,
       Looping, Away, Reaching, Shutting, Place, WorkerTyped, Locals, lifeVars,
       epochVars, ackVars, shedVars, headerVars, queueVars, sharedVars, Go, Local
  <2>2. Pending' = Pending
    BY <2>1, SameHand
  <2> QED BY <2>1, <2>2, Unmoved
<1>8. ASSUME WatchdogExpires PROVE Told' /\ Newest' /\ Heard'
  <2>1. /\ UNCHANGED <<queue, epoch, delivered_epoch, delivery_ticket,
                       carried_ticket, enqueued_ticket, feed>>
        /\ (Hand' <=> Hand) /\ (Hand => w'.tag = w.tag)
        /\ (Doomed => Doomed') /\ (stop_requested => stop_requested')
        /\ (Steady' => Steady)
    BY <1>8, <1>0 DEF WatchdogExpires, Hand, Doomed, Over, Steady, OnLine, Talking,
       Looping, Away, Reaching, Shutting, Place, WorkerTyped, Locals, lifeVars,
       epochVars, ackVars, shedVars, headerVars, queueVars, sharedVars, Go, Local
  <2>2. Pending' = Pending
    BY <2>1, SameHand
  <2> QED BY <2>1, <2>2, Unmoved
<1>9. ASSUME WatchdogInterrupts PROVE Told' /\ Newest' /\ Heard'
  <2>1. /\ UNCHANGED <<queue, epoch, delivered_epoch, delivery_ticket,
                       carried_ticket, enqueued_ticket, feed>>
        /\ (Hand' <=> Hand) /\ (Hand => w'.tag = w.tag)
        /\ (Doomed => Doomed') /\ (stop_requested => stop_requested')
        /\ (Steady' => Steady)
    BY <1>9, <1>0 DEF WatchdogInterrupts, Hand, Doomed, Over, Steady, OnLine, Talking,
       Looping, Away, Reaching, Shutting, Place, WorkerTyped, Locals, lifeVars,
       epochVars, ackVars, shedVars, headerVars, queueVars, sharedVars, Go, Local
  <2>2. Pending' = Pending
    BY <2>1, SameHand
  <2> QED BY <2>1, <2>2, Unmoved
<1>10. ASSUME Dial PROVE Told' /\ Newest' /\ Heard'
  <2>1. /\ UNCHANGED <<queue, epoch, delivered_epoch, delivery_ticket,
                       carried_ticket, enqueued_ticket, feed>>
        /\ (Hand' <=> Hand) /\ (Hand => w'.tag = w.tag)
        /\ (Doomed => Doomed') /\ (stop_requested => stop_requested')
        /\ (Steady' => Steady)
    BY <1>10, <1>0 DEF Dial, BeginIO, Hand, Doomed, Over, Steady, OnLine, Talking,
       Looping, Away, Reaching, Shutting, Place, WorkerTyped, Locals, lifeVars,
       epochVars, ackVars, shedVars, headerVars, queueVars, sharedVars, Go, Local
  <2>2. Pending' = Pending
    BY <2>1, SameHand
  <2> QED BY <2>1, <2>2, Unmoved
<1>11. ASSUME Connected PROVE Told' /\ Newest' /\ Heard'
  <2>1. /\ UNCHANGED <<queue, epoch, delivered_epoch, delivery_ticket,
                       carried_ticket, enqueued_ticket, feed>>
        /\ (Hand' <=> Hand) /\ (Hand => w'.tag = w.tag)
        /\ (Doomed => Doomed') /\ (stop_requested => stop_requested')
        /\ (Steady' => Steady)
    BY <1>11, <1>0 DEF Connected, Acked, KeepTransport, SilentWire, Hand, Doomed, Over, Steady, OnLine, Talking,
       Looping, Away, Reaching, Shutting, Place, WorkerTyped, Locals, lifeVars,
       epochVars, ackVars, shedVars, headerVars, queueVars, sharedVars, Go, Local
  <2>2. Pending' = Pending
    BY <2>1, SameHand
  <2> QED BY <2>1, <2>2, Unmoved
<1>12. ASSUME ConnectFails PROVE Told' /\ Newest' /\ Heard'
  <2>1. /\ UNCHANGED <<queue, epoch, delivered_epoch, delivery_ticket,
                       carried_ticket, enqueued_ticket, feed>>
        /\ (Hand' <=> Hand) /\ (Hand => w'.tag = w.tag)
        /\ (Doomed => Doomed') /\ (stop_requested => stop_requested')
        /\ (Steady' => Steady)
    BY <1>12, <1>0 DEF ConnectFails, Acked, LoseTransport, Hand, Doomed, Over, Steady, OnLine, Talking,
       Looping, Away, Reaching, Shutting, Place, WorkerTyped, Locals, lifeVars,
       epochVars, ackVars, shedVars, headerVars, queueVars, sharedVars, Go, Local
  <2>2. Pending' = Pending
    BY <2>1, SameHand
  <2> QED BY <2>1, <2>2, Unmoved
<1>13. ASSUME Send PROVE Told' /\ Newest' /\ Heard'
  <2>1. /\ UNCHANGED <<queue, epoch, delivered_epoch, delivery_ticket,
                       carried_ticket, enqueued_ticket, feed>>
        /\ (Hand' <=> Hand) /\ (Hand => w'.tag = w.tag)
        /\ (Doomed => Doomed') /\ (stop_requested => stop_requested')
        /\ (Steady' => Steady)
    BY <1>13, <1>0, Sends DEF Send, Hand, Doomed, Over, Steady, OnLine, Talking,
       Looping, Away, Reaching, Shutting, Place, WorkerTyped, Locals, lifeVars,
       epochVars, ackVars, shedVars, headerVars, queueVars, sharedVars, Go, Local
  <2>2. Pending' = Pending
    BY <2>1, SameHand
  <2> QED BY <2>1, <2>2, Unmoved
<1>14. ASSUME Sent PROVE Told' /\ Newest' /\ Heard'
  <2>1. /\ UNCHANGED <<queue, epoch, delivered_epoch, delivery_ticket,
                       carried_ticket, enqueued_ticket, feed>>
        /\ (Hand' <=> Hand) /\ (Hand => w'.tag = w.tag)
        /\ (Doomed => Doomed') /\ (stop_requested => stop_requested')
        /\ (Steady' => Steady)
    BY <1>14, <1>0, Writes DEF Sent, Hand, Doomed, Over, Steady, OnLine, Talking,
       Looping, Away, Reaching, Shutting, Place, WorkerTyped, Locals, lifeVars,
       epochVars, ackVars, shedVars, headerVars, queueVars, sharedVars, Go, Local
  <2>2. Pending' = Pending
    BY <2>1, SameHand
  <2> QED BY <2>1, <2>2, Unmoved
<1>15. ASSUME SendFails PROVE Told' /\ Newest' /\ Heard'
  <2>1. CASE w.redial \/ w.boot
    <3>1. /\ UNCHANGED <<queue, epoch, delivered_epoch, delivery_ticket,
                         carried_ticket, enqueued_ticket, feed>>
          /\ (Hand' <=> Hand) /\ (Hand => w'.tag = w.tag)
          /\ (Doomed => Doomed') /\ (stop_requested => stop_requested')
          /\ (Steady' => Steady)
      BY <1>15, <1>0, <2>1 DEF SendFails, Acked, LoseTransport, Hand, Doomed, Over, Steady, OnLine, Talking,
         Looping, Away, Reaching, Shutting, Place, WorkerTyped, Locals, lifeVars,
         epochVars, ackVars, shedVars, headerVars, queueVars, sharedVars, Go, Local
    <3>2. Pending' = Pending
      BY <3>1, SameHand
    <3> QED BY <3>1, <3>2, Unmoved
  <2>2. CASE ~(w.redial \/ w.boot)
    <3>9. /\ queue \in Seq(Tag) /\ feed.batch \in Nat /\ enqueued_ticket \in Nat
          /\ (Hand => Holds /\ w.tag.ticket \in Nat)
      BY <1>0, GoodTags, HeldTag DEF HeaderTyped, Feed, TicketTyped, Hand
    <3>1. /\ w' = [w EXCEPT !.pc = "reconnect"] /\ w.pc = "sending"
          /\ UNCHANGED <<queue, epoch, delivered_epoch, delivery_ticket, carried_ticket,
                         enqueued_ticket, feed, stop_requested>>
      BY <1>15, <2>2 DEF SendFails, Acked, lifeVars, epochVars, ackVars, shedVars, headerVars, queueVars
    <3>2. w'.pc = "reconnect"
      BY <1>0, <3>1 DEF WorkerTyped, Locals
    <3>3. Hand /\ ~Hand' /\ ~Steady' /\ ~Doomed
      BY <2>2, <3>1, <3>2 DEF Hand, OnLine, Talking, Steady, Doomed, Over, Shutting
    <3>4. Newest' /\ Pending' \subseteq Pending
      BY <3>1, <3>3, <3>9, LetGo
    <3> QED BY <3>1, <3>3, <3>4 DEF Told, Heard
  <2> QED BY <2>1, <2>2
<1>16. ASSUME ReadHeaders PROVE Told' /\ Newest' /\ Heard'
  <2>1. /\ UNCHANGED <<queue, epoch, delivered_epoch, delivery_ticket,
                       carried_ticket, enqueued_ticket, feed>>
        /\ (Hand' <=> Hand) /\ (Hand => w'.tag = w.tag)
        /\ (Doomed => Doomed') /\ (stop_requested => stop_requested')
        /\ (Steady' => Steady)
    BY <1>16, <1>0 DEF ReadHeaders, Hand, Doomed, Over, Steady, OnLine, Talking,
       Looping, Away, Reaching, Shutting, Place, WorkerTyped, Locals, lifeVars,
       epochVars, ackVars, shedVars, headerVars, queueVars, sharedVars, Go, Local
  <2>2. Pending' = Pending
    BY <2>1, SameHand
  <2> QED BY <2>1, <2>2, Unmoved
<1>17. ASSUME ConnectPrimed PROVE Told' /\ Newest' /\ Heard'
  <2>1. /\ UNCHANGED <<queue, epoch, delivered_epoch, delivery_ticket,
                       carried_ticket, enqueued_ticket, feed>>
        /\ (Hand' <=> Hand) /\ (Hand => w'.tag = w.tag)
        /\ (Doomed => Doomed') /\ (stop_requested => stop_requested')
        /\ (Steady' => Steady)
    BY <1>17, <1>0 DEF ConnectPrimed, Primed, Hand, Doomed, Over, Steady, OnLine, Talking,
       Looping, Away, Reaching, Shutting, Place, WorkerTyped, Locals, lifeVars,
       epochVars, ackVars, shedVars, headerVars, queueVars, sharedVars, Go, Local
  <2>2. Pending' = Pending
    BY <2>1, SameHand
  <2> QED BY <2>1, <2>2, Unmoved
<1>18. ASSUME Close PROVE Told' /\ Newest' /\ Heard'
  <2>1. /\ UNCHANGED <<queue, epoch, delivered_epoch, delivery_ticket,
                       carried_ticket, enqueued_ticket, feed>>
        /\ (Hand' <=> Hand) /\ (Hand => w'.tag = w.tag)
        /\ (Doomed => Doomed') /\ (stop_requested => stop_requested')
        /\ (Steady' => Steady)
    BY <1>18, <1>0 DEF Close, BeginIO, Hand, Doomed, Over, Steady, OnLine, Talking,
       Looping, Away, Reaching, Shutting, Place, WorkerTyped, Locals, lifeVars,
       epochVars, ackVars, shedVars, headerVars, queueVars, sharedVars, Go, Local
  <2>2. Pending' = Pending
    BY <2>1, SameHand
  <2> QED BY <2>1, <2>2, Unmoved
<1>19. ASSUME Closed PROVE Told' /\ Newest' /\ Heard'
  <2>1. /\ UNCHANGED <<queue, epoch, delivered_epoch, delivery_ticket,
                       carried_ticket, enqueued_ticket, feed>>
        /\ (Hand' <=> Hand) /\ (Hand => w'.tag = w.tag)
        /\ (Doomed => Doomed') /\ (stop_requested => stop_requested')
        /\ (Steady' => Steady)
    BY <1>19, <1>0 DEF Closed, Acked, LoseTransport, Hand, Doomed, Over, Steady, OnLine, Talking,
       Looping, Away, Reaching, Shutting, Place, WorkerTyped, Locals, lifeVars,
       epochVars, ackVars, shedVars, headerVars, queueVars, sharedVars, Go, Local
  <2>2. Pending' = Pending
    BY <2>1, SameHand
  <2> QED BY <2>1, <2>2, Unmoved
<1>20. ASSUME Reconnect PROVE Told' /\ Newest' /\ Heard'
  <2>1. /\ w.pc = "reconnect" /\ w'.pc = "close" /\ w'.redial = TRUE
        /\ UNCHANGED <<epoch, enqueued_ticket, feed, stop_requested>>
    BY <1>20, <1>0 DEF Reconnect, ReconnectQueue, WorkerTyped, Locals, shedVars
  <2>2. ~Hand /\ ~Hand' /\ ~Steady' /\ ~Doomed
    BY <2>1 DEF Hand, Talking, OnLine, Steady, Doomed, Over, Shutting
  <2>3. CASE transition_cancelled_transport
    <3>1. /\ queue' = queue /\ delivery_ticket' = 0 /\ carried_ticket' = carried_ticket
      BY <1>20, <2>3 DEF Reconnect, ReconnectQueue, shedVars
    <3>2. Pending' = Pending
      BY <2>1, <2>2, <3>1, SameHand
    <3>3. \A t \in Pending : 0 < t.batch
      BY <1>0, <2>2, PendingIs, GoodTags DEF TicketOrder, Within
    <3> QED BY <2>1, <2>2, <3>1, <3>2, <3>3 DEF Told, Newest, Heard
  <2>4. CASE ~transition_cancelled_transport
    <3>1. queue' = <<>>
      BY <1>20, <2>4 DEF Reconnect, ReconnectQueue
    <3> QED BY <2>2, <3>1, NothingPending, Cleared
  <2> QED BY <2>3, <2>4
<1>21. ASSUME TakeCancellation PROVE Told' /\ Newest' /\ Heard'
  <2>1. /\ UNCHANGED <<queue, epoch, delivered_epoch, delivery_ticket,
                       carried_ticket, enqueued_ticket, feed>>
        /\ (Hand' <=> Hand) /\ (Hand => w'.tag = w.tag)
        /\ (Doomed => Doomed') /\ (stop_requested => stop_requested')
        /\ (Steady' => Steady)
    BY <1>21, <1>0 DEF TakeCancellation, Hand, Doomed, Over, Steady, OnLine, Talking,
       Looping, Away, Reaching, Shutting, Place, WorkerTyped, Locals, lifeVars,
       epochVars, ackVars, shedVars, headerVars, queueVars, sharedVars, Go, Local
  <2>2. Pending' = Pending
    BY <2>1, SameHand
  <2> QED BY <2>1, <2>2, Unmoved
<1>22. ASSUME ReplaceTransport PROVE Told' /\ Newest' /\ Heard'
  <2>1. /\ UNCHANGED <<queue, epoch, delivered_epoch, delivery_ticket,
                       carried_ticket, enqueued_ticket, feed>>
        /\ (Hand' <=> Hand) /\ (Hand => w'.tag = w.tag)
        /\ (Doomed => Doomed') /\ (stop_requested => stop_requested')
        /\ (Steady' => Steady)
    BY <1>22, <1>0 DEF ReplaceTransport, Fresh, Hand, Doomed, Over, Steady, OnLine, Talking,
       Looping, Away, Reaching, Shutting, Place, WorkerTyped, Locals, lifeVars,
       epochVars, ackVars, shedVars, headerVars, queueVars, sharedVars, Go, Local
  <2>2. Pending' = Pending
    BY <2>1, SameHand
  <2> QED BY <2>1, <2>2, Unmoved
<1>23. ASSUME ReplaceFails PROVE Told' /\ Newest' /\ Heard'
  <2>1. CASE resume_after_transition
    <3>1. queue' = <<>> /\ w.redial /\ w'.redial = w.redial /\ w'.pc = "gaveUp"
      BY <1>23, <1>0, <2>1 DEF ReplaceFails, EndResume, AckDropped, Go, Place, Away,
         WorkerTyped, Locals
    <3>2. ~Hand' /\ ~Steady'
      BY <3>1 DEF Hand, Talking, OnLine, Steady
    <3> QED BY <3>1, <3>2, NothingPending, Cleared
  <2>2. CASE ~resume_after_transition
    <3>1. /\ UNCHANGED <<queue, epoch, delivered_epoch, delivery_ticket,
                         carried_ticket, enqueued_ticket, feed>>
          /\ (Hand' <=> Hand) /\ (Hand => w'.tag = w.tag)
          /\ (Doomed => Doomed') /\ (stop_requested => stop_requested')
          /\ (Steady' => Steady)
      BY <1>23, <1>0, <2>2 DEF ReplaceFails, EndResume, KeepPending, Hand, Doomed, Over, Steady, OnLine, Talking,
         Looping, Away, Reaching, Shutting, Place, WorkerTyped, Locals, lifeVars,
         epochVars, ackVars, shedVars, headerVars, queueVars, sharedVars, Go, Local
    <3>2. Pending' = Pending
      BY <3>1, SameHand
    <3> QED BY <3>1, <3>2, Unmoved
  <2> QED BY <2>1, <2>2
<1>24. ASSUME Retry PROVE Told' /\ Newest' /\ Heard'
  <2>1. /\ UNCHANGED <<queue, epoch, delivered_epoch, delivery_ticket,
                       carried_ticket, enqueued_ticket, feed>>
        /\ (Hand' <=> Hand) /\ (Hand => w'.tag = w.tag)
        /\ (Doomed => Doomed') /\ (stop_requested => stop_requested')
        /\ (Steady' => Steady)
    BY <1>24, <1>0 DEF Retry, Hand, Doomed, Over, Steady, OnLine, Talking,
       Looping, Away, Reaching, Shutting, Place, WorkerTyped, Locals, lifeVars,
       epochVars, ackVars, shedVars, headerVars, queueVars, sharedVars, Go, Local
  <2>2. Pending' = Pending
    BY <2>1, SameHand
  <2> QED BY <2>1, <2>2, Unmoved
<1>25. ASSUME Delayed PROVE Told' /\ Newest' /\ Heard'
  <2>1. /\ UNCHANGED <<queue, epoch, delivered_epoch, delivery_ticket,
                       carried_ticket, enqueued_ticket, feed>>
        /\ (Hand' <=> Hand) /\ (Hand => w'.tag = w.tag)
        /\ (Doomed => Doomed') /\ (stop_requested => stop_requested')
        /\ (Steady' => Steady)
    BY <1>25, <1>0 DEF Delayed, Hand, Doomed, Over, Steady, OnLine, Talking,
       Looping, Away, Reaching, Shutting, Place, WorkerTyped, Locals, lifeVars,
       epochVars, ackVars, shedVars, headerVars, queueVars, sharedVars, Go, Local
  <2>2. Pending' = Pending
    BY <2>1, SameHand
  <2> QED BY <2>1, <2>2, Unmoved
<1>26. ASSUME RetryEnds PROVE Told' /\ Newest' /\ Heard'
  <2>1. /\ UNCHANGED <<queue, epoch, delivered_epoch, delivery_ticket,
                       carried_ticket, enqueued_ticket, feed>>
        /\ (Hand' <=> Hand) /\ (Hand => w'.tag = w.tag)
        /\ (Doomed => Doomed') /\ (stop_requested => stop_requested')
        /\ (Steady' => Steady)
    BY <1>26, <1>0 DEF RetryEnds, Hand, Doomed, Over, Steady, OnLine, Talking,
       Looping, Away, Reaching, Shutting, Place, WorkerTyped, Locals, lifeVars,
       epochVars, ackVars, shedVars, headerVars, queueVars, sharedVars, Go, Local
  <2>2. Pending' = Pending
    BY <2>1, SameHand
  <2> QED BY <2>1, <2>2, Unmoved
<1>27. ASSUME Exhausted PROVE Told' /\ Newest' /\ Heard'
  <2>1. /\ UNCHANGED <<queue, epoch, delivered_epoch, delivery_ticket,
                       carried_ticket, enqueued_ticket, feed>>
        /\ (Hand' <=> Hand) /\ (Hand => w'.tag = w.tag)
        /\ (Doomed => Doomed') /\ (stop_requested => stop_requested')
        /\ (Steady' => Steady)
    BY <1>27, <1>0 DEF Exhausted, EndResume, AckDropped, KeepPending, Hand, Doomed, Over, Steady, OnLine, Talking,
       Looping, Away, Reaching, Shutting, Place, WorkerTyped, Locals, lifeVars,
       epochVars, ackVars, shedVars, headerVars, queueVars, sharedVars, Go, Local
  <2>2. Pending' = Pending
    BY <2>1, SameHand
  <2> QED BY <2>1, <2>2, Unmoved
<1>28. ASSUME AttemptFailed PROVE Told' /\ Newest' /\ Heard'
  <2>1. CASE w.redial /\ ~transition_cancelled_transport /\ resume_after_transition
    <3>1. queue' = <<>> /\ w'.redial = w.redial /\ w'.pc = "retry"
      BY <1>28, <1>0, <2>1 DEF AttemptFailed, EndResume, AckDropped, Go, WorkerTyped, Locals
    <3>2. ~Hand' /\ ~Steady'
      BY <2>1, <3>1 DEF Hand, Talking, OnLine, Steady
    <3> QED BY <3>1, <3>2, NothingPending, Cleared
  <2>2. CASE ~(w.redial /\ ~transition_cancelled_transport /\ resume_after_transition)
    <3>1. /\ UNCHANGED <<queue, epoch, delivered_epoch, delivery_ticket,
                         carried_ticket, enqueued_ticket, feed>>
          /\ (Hand' <=> Hand) /\ (Hand => w'.tag = w.tag)
          /\ (Doomed => Doomed') /\ (stop_requested => stop_requested')
          /\ (Steady' => Steady)
      BY <1>28, <1>0, <2>2 DEF AttemptFailed, EndResume, KeepPending, Hand, Doomed, Over, Steady, OnLine, Talking,
         Looping, Away, Reaching, Shutting, Place, WorkerTyped, Locals, lifeVars,
         epochVars, ackVars, shedVars, headerVars, queueVars, sharedVars, Go, Local
    <3>2. Pending' = Pending
      BY <3>1, SameHand
    <3> QED BY <3>1, <3>2, Unmoved
  <2> QED BY <2>1, <2>2
<1>29. ASSUME Redialled PROVE Told' /\ Newest' /\ Heard'
  <2>1. /\ UNCHANGED <<queue, epoch, delivered_epoch, delivery_ticket,
                       carried_ticket, enqueued_ticket, feed>>
        /\ (Hand' <=> Hand) /\ (Hand => w'.tag = w.tag)
        /\ (Doomed => Doomed') /\ (stop_requested => stop_requested')
        /\ (Steady' => Steady)
    BY <1>29, <1>0 DEF Redialled, Rejoin, Hand, Doomed, Over, Steady, OnLine, Talking,
       Looping, Away, Reaching, Shutting, Place, WorkerTyped, Locals, lifeVars,
       epochVars, ackVars, shedVars, headerVars, queueVars, sharedVars, Go, Local
  <2>2. Pending' = Pending
    BY <2>1, SameHand
  <2> QED BY <2>1, <2>2, Unmoved
<1>30. ASSUME Booted PROVE Told' /\ Newest' /\ Heard'
  <2>1. /\ UNCHANGED <<queue, epoch, delivered_epoch, delivery_ticket,
                       carried_ticket, enqueued_ticket, feed>>
        /\ (Hand' <=> Hand) /\ (Hand => w'.tag = w.tag)
        /\ (Doomed => Doomed') /\ (stop_requested => stop_requested')
        /\ (Steady' => Steady)
    BY <1>30, <1>0, Boots DEF Booted, Hand, Doomed, Over, Steady, OnLine, Talking,
       Looping, Away, Reaching, Shutting, Place, WorkerTyped, Locals, lifeVars,
       epochVars, ackVars, shedVars, headerVars, queueVars, sharedVars, Go, Local
  <2>2. Pending' = Pending
    BY <2>1, SameHand
  <2> QED BY <2>1, <2>2, Unmoved
<1>31. ASSUME GiveUp PROVE Told' /\ Newest' /\ Heard'
  <2>1. /\ UNCHANGED <<queue, epoch, delivered_epoch, delivery_ticket,
                       carried_ticket, enqueued_ticket, feed>>
        /\ (Hand' <=> Hand) /\ (Hand => w'.tag = w.tag)
        /\ (Doomed => Doomed') /\ (stop_requested => stop_requested')
        /\ (Steady' => Steady)
    BY <1>31, <1>0 DEF GiveUp, Hand, Doomed, Over, Steady, OnLine, Talking,
       Looping, Away, Reaching, Shutting, Place, WorkerTyped, Locals, lifeVars,
       epochVars, ackVars, shedVars, headerVars, queueVars, sharedVars, Go, Local
  <2>2. Pending' = Pending
    BY <2>1, SameHand
  <2> QED BY <2>1, <2>2, Unmoved
<1>32. ASSUME Fail PROVE Told' /\ Newest' /\ Heard'
  <2>1. /\ UNCHANGED <<queue, epoch, delivered_epoch, delivery_ticket,
                       carried_ticket, enqueued_ticket, feed>>
        /\ (Hand' <=> Hand) /\ (Hand => w'.tag = w.tag)
        /\ (Doomed => Doomed') /\ (stop_requested => stop_requested')
        /\ (Steady' => Steady)
    BY <1>32, <1>0 DEF Fail, Hand, Doomed, Over, Steady, OnLine, Talking,
       Looping, Away, Reaching, Shutting, Place, WorkerTyped, Locals, lifeVars,
       epochVars, ackVars, shedVars, headerVars, queueVars, sharedVars, Go, Local
  <2>2. Pending' = Pending
    BY <2>1, SameHand
  <2> QED BY <2>1, <2>2, Unmoved
<1>33. ASSUME CloseQueue PROVE Told' /\ Newest' /\ Heard'
  <2>1. queue' = <<>> /\ w.pc = "closeQueue" /\ w'.pc = "done" /\ state' = state
    BY <1>33, <1>0 DEF CloseQueue, Go, WorkerTyped, Locals, lifeVars
  <2>2. ~Hand' /\ ~Steady'
    BY <2>1 DEF Hand, Talking, Steady, KeepsNothing
  <2> QED BY <2>1, <2>2, NothingPending, Cleared
<1>34. ASSUME Pop PROVE Told' /\ Newest' /\ Heard'
  <2>1. /\ queue \in Seq(Tag) /\ queue # <<>> /\ queue' = Tail(queue) /\ epoch' = epoch
        /\ w.pc = "pop" /\ w'.pc = "popped" /\ w'.tag = Head(queue)
        /\ w'.redial = w.redial /\ w'.boot = w.boot /\ w'.awaiting = w.awaiting
    BY <1>34, <1>0, GoodTags DEF Pop, WorkerTyped, Locals, epochVars
  <2>2. /\ ~Hand /\ Hand' /\ (Steady' => Steady) /\ (Doomed => Doomed')
        /\ UNCHANGED <<epoch, delivered_epoch, delivery_ticket, carried_ticket,
                       enqueued_ticket, feed, stop_requested>>
    BY <1>34, <2>1 DEF Pop, Hand, Talking, Steady, OnLine, Doomed, Over, Shutting,
       lifeVars, epochVars, ackVars, shedVars
  <2>3. Pending' = Pending
    BY <2>1, <2>2, Taken
  <2> QED BY <2>2, <2>3, Unmoved
<1>35. ASSUME Leave PROVE Told' /\ Newest' /\ Heard'
  <2>9. /\ queue \in Seq(Tag) /\ feed.batch \in Nat /\ enqueued_ticket \in Nat
        /\ (Hand => Holds /\ w.tag.ticket \in Nat)
    BY <1>0, GoodTags, HeldTag DEF HeaderTyped, Feed, TicketTyped, Hand
  <2>1. /\ w'.pc = "close" /\ w'.tag = w.tag /\ w'.after = "done"
        /\ UNCHANGED <<queue, epoch, delivered_epoch, delivery_ticket, carried_ticket,
                       enqueued_ticket, feed, stop_requested, state>>
        /\ ~Hand'
    BY <1>35, <1>0 DEF Leave, sharedVars, WorkerTyped, Locals, Hand, Talking, lifeVars, epochVars, ackVars, shedVars, headerVars, queueVars
  <2>2. CASE w.pc = "pop" /\ queue = <<>>
    <3>1. queue' = <<>> /\ ~Hand
      BY <2>1, <2>2 DEF Hand, Talking
    <3>2. Pending' = Pending
      BY <2>1, <3>1, SameHand
    <3>3. (Steady' => Steady) /\ (Doomed => Doomed')
      BY <1>35, <1>0, <2>1, <2>2 DEF Leave, Steady, OnLine, Doomed, Over, Shutting, WorkerTyped, Locals
    <3> QED BY <2>1, <3>2, <3>3, Unmoved
  <2>3. CASE w.pc = "popped" /\ stop_requested
    <3>1. Hand /\ ~Steady' /\ ~Doomed
      BY <2>1, <2>3 DEF Hand, Life, Steady, Doomed, Over, Shutting
    <3>2. Newest' /\ Pending' \subseteq Pending
      BY <2>1, <2>9, <3>1, LetGo
    <3> QED BY <2>1, <3>1, <3>2 DEF Told, Heard
  <2> QED BY <1>35, <2>2, <2>3 DEF Leave
<1>36. ASSUME Select PROVE Told' /\ Newest' /\ Heard'
  <2>1. CASE w.tag.epoch # epoch
    <3>1. /\ w' = [w EXCEPT !.pc = "pop"] /\ w.pc = "popped"
          /\ UNCHANGED <<queue, epoch, delivered_epoch, delivery_ticket, carried_ticket,
                         enqueued_ticket, feed, stop_requested, state>>
      BY <1>36, <2>1 DEF Select, sharedVars, lifeVars, epochVars, ackVars, shedVars, headerVars, queueVars
    <3>2. /\ w'.pc = "pop" /\ w'.redial = w.redial /\ w'.boot = w.boot
          /\ w'.awaiting = w.awaiting
      BY <1>0, <3>1 DEF WorkerTyped, Locals
    <3>3. Hand /\ ~Hand' /\ (Steady' => Steady) /\ (Doomed => Doomed')
      BY <3>1, <3>2 DEF Hand, Talking, Steady, OnLine, Doomed, Over, Shutting
    <3>4. Pending' = Pending
      BY <2>1, <3>1, <3>3, StaleGone
    <3> QED BY <3>1, <3>3, <3>4, Unmoved
  <2>2. CASE w.tag.epoch = epoch
    <3>1. PICK p \in {"send", "wrote"}, a \in BOOLEAN :
            /\ w' = [w EXCEPT !.media = w.tag.epoch, !.awaiting = a,
                             !.sel = sequence_headers, !.selEpoch = w.tag.epoch,
                             !.rev = header_revision, !.job = "header", !.pc = p]
            /\ w.awaiting => a
      BY <1>36, <2>2 DEF Select
    <3>2. /\ w'.pc = p /\ w'.redial = w.redial /\ w'.boot = w.boot
          /\ w'.awaiting = a /\ w'.tag = w.tag
      BY <1>0, <3>1 DEF WorkerTyped, Locals
    <3>3. /\ w.pc = "popped" /\ OnLine
          /\ UNCHANGED <<queue, epoch, delivered_epoch, delivery_ticket, carried_ticket,
                         enqueued_ticket, feed, stop_requested, state>>
      BY <1>36 DEF Select, Place, Looping, sharedVars, lifeVars, epochVars, ackVars, shedVars, headerVars, queueVars
    <3>4. Hand /\ Hand' /\ (Steady' => Steady) /\ (Doomed => Doomed')
      BY <3>1, <3>2, <3>3 DEF Hand, Talking, Steady, OnLine, Doomed, Over, Shutting
    <3>5. Pending' = Pending
      BY <3>2, <3>3, <3>4, SameHand
    <3> QED BY <3>3, <3>4, <3>5, Unmoved
  <2> QED BY <2>1, <2>2
<1>37. ASSUME LoopPrimed PROVE Told' /\ Newest' /\ Heard'
  <2>9. /\ queue \in Seq(Tag) /\ feed.batch \in Nat /\ enqueued_ticket \in Nat
        /\ (Hand => Holds /\ w.tag.ticket \in Nat)
    BY <1>0, GoodTags, HeldTag DEF HeaderTyped, Feed, TicketTyped, Hand
  <2>1. /\ w.pc = "wrote" /\ OnLine /\ w'.redial = w.redial /\ w'.boot = w.boot
        /\ w'.tag = w.tag
        /\ UNCHANGED <<queue, epoch, delivered_epoch, delivery_ticket, carried_ticket,
                       enqueued_ticket, feed, stop_requested, state>>
    BY <1>37, <1>0, Primes DEF LoopPrimed, OnLine, lifeVars, epochVars, ackVars, shedVars, headerVars, queueVars
  <2>2. Hand /\ ~Doomed
    BY <2>1 DEF Hand, Talking, Doomed, Over, Shutting
  <2>3. CASE w.tag.epoch # epoch
    <3>1. w'.pc = "pop" /\ w'.awaiting = w.awaiting
      BY <1>37, <1>0, <2>3, Primes
    <3>2. ~Hand' /\ (Steady' => Steady)
      BY <2>1, <3>1 DEF Hand, Talking, Steady, OnLine
    <3>3. Pending' = Pending
      BY <2>1, <2>2, <2>3, <3>2, StaleGone
    <3> QED BY <2>1, <2>2, <3>2, <3>3, Unmoved
  <2>4. CASE w.tag.epoch = epoch /\ Joins
    <3>1. w'.pc = "send"
      BY <1>37, <1>0, <2>4, Primes
    <3>2. Hand'
      BY <2>1, <3>1 DEF Hand, Talking, OnLine
    <3>3. Pending' = Pending
      BY <2>1, <2>2, <3>2, SameHand
    <3>4. w.tag \in Pending
      BY <2>2, <2>4, <2>9, PendingIs
    <3> QED BY <2>1, <2>2, <3>3, <3>4 DEF Told, Newest, Heard
  <2>5. CASE w.tag.epoch = epoch /\ ~Joins
    <3>1. w'.pc = "pop" /\ w'.awaiting
      BY <1>37, <1>0, <2>5, Primes DEF Joins
    <3>2. ~Hand' /\ ~Steady'
      BY <3>1 DEF Hand, Talking, Steady
    <3>3. Newest' /\ Pending' \subseteq Pending
      BY <2>1, <2>2, <2>9, <3>2, LetGo
    <3> QED BY <2>1, <2>2, <3>2, <3>3 DEF Told, Heard
  <2> QED BY <2>3, <2>4, <2>5
<1>38. ASSUME TagWritten PROVE Told' /\ Newest' /\ Heard'
  <2>9. /\ queue \in Seq(Tag) /\ feed.batch \in Nat /\ enqueued_ticket \in Nat
        /\ (Hand => Holds /\ w.tag.ticket \in Nat)
    BY <1>0, GoodTags, HeldTag DEF HeaderTyped, Feed, TicketTyped, Hand
  <2>1. /\ w.pc = "wrote" /\ OnLine /\ w'.redial = w.redial /\ w'.boot = w.boot
        /\ w'.tag = w.tag /\ w'.awaiting = w.awaiting /\ w'.pc \in {"publish", "pop"}
        /\ UNCHANGED <<queue, epoch, carried_ticket, enqueued_ticket, feed,
                       stop_requested, state>>
    BY <1>38, <1>0 DEF TagWritten, Go, Place, Talking, WorkerTyped, Locals, lifeVars, epochVars, ackVars, shedVars, headerVars, queueVars
  <2>2. Hand /\ ~Doomed /\ ~Hand' /\ (Steady' => Steady)
    BY <2>1 DEF Hand, Talking, Doomed, Over, Shutting, Steady, OnLine
  <2>3. CASE w.tag.epoch # epoch
    <3>1. UNCHANGED <<delivered_epoch, delivery_ticket>>
      BY <1>38, <2>3 DEF TagWritten, TicketCounts
    <3>2. Pending' = Pending
      BY <2>1, <2>2, <2>3, StaleGone
    <3> QED BY <2>1, <2>2, <3>1, <3>2, Unmoved
  <2>4. CASE w.tag.epoch = epoch
    <3>1. /\ Newest' /\ Pending' \subseteq Pending
          /\ \A t \in Pending' : w.tag.ticket < t.batch
          /\ \A t \in Pending : t \in Pending' \/ t = w.tag
      BY <2>1, <2>2, <2>9, LetGo
    <3>2. \/ delivered_epoch' = epoch /\ delivery_ticket' = w.tag.ticket
          \/ ~TicketCounts /\ UNCHANGED <<delivered_epoch, delivery_ticket>>
      BY <1>38, <2>4 DEF TagWritten
    <3>3. Told'
      BY <2>1, <2>2, <3>1, <3>2 DEF Told
    <3>4. Heard'
      <4>1. SUFFICES ASSUME Steady, feed.phase # "failed", enqueued_ticket # 0,
                            Pending' = {}, carried_ticket # enqueued_ticket
                     PROVE  delivered_epoch' = epoch /\ delivery_ticket' = enqueued_ticket
        BY <2>1, <2>2 DEF Heard
      <4>2. ~stop_requested
        BY <4>1 DEF Steady, Life
      <4>3. w.tag \in Pending
        BY <2>2, <2>4, <2>9, PendingIs
      <4>4. PICK t \in Pending : t.ticket = enqueued_ticket
        BY <2>2, <4>1, <4>2, <4>3 DEF Newest
      <4>5. t = w.tag
        BY <3>1, <4>1, <4>4
      <4>6. TicketCounts
        BY <2>4, <4>1, <4>2, <4>4, <4>5 DEF TicketCounts
      <4> QED BY <3>2, <4>4, <4>5, <4>6
    <3> QED BY <3>1, <3>3, <3>4
  <2> QED BY <2>3, <2>4
<1>39. ASSUME Publish PROVE Told' /\ Newest' /\ Heard'
  <2>1. /\ UNCHANGED <<queue, epoch, delivered_epoch, delivery_ticket,
                       carried_ticket, enqueued_ticket, feed>>
        /\ (Hand' <=> Hand) /\ (Hand => w'.tag = w.tag)
        /\ (Doomed => Doomed') /\ (stop_requested => stop_requested')
        /\ (Steady' => Steady)
    BY <1>39, <1>0 DEF Publish, Published, Hand, Doomed, Over, Steady, OnLine, Talking,
       Looping, Away, Reaching, Shutting, Place, WorkerTyped, Locals, lifeVars,
       epochVars, ackVars, shedVars, headerVars, queueVars, sharedVars, Go, Local
  <2>2. Pending' = Pending
    BY <2>1, SameHand
  <2> QED BY <2>1, <2>2, Unmoved
<1>40. ASSUME Stopped PROVE Told' /\ Newest' /\ Heard'
  <2>1. /\ UNCHANGED <<queue, epoch, delivered_epoch, delivery_ticket,
                       carried_ticket, enqueued_ticket, feed>>
        /\ (Hand' <=> Hand) /\ (Hand => w'.tag = w.tag)
        /\ (Doomed => Doomed') /\ (stop_requested => stop_requested')
        /\ (Steady' => Steady)
    BY <1>40, <1>0 DEF Stopped, vars, Hand, Doomed, Over, Steady, OnLine, Talking,
       Looping, Away, Reaching, Shutting, Place, WorkerTyped, Locals, lifeVars,
       epochVars, ackVars, shedVars, headerVars, queueVars, sharedVars, Go, Local
  <2>2. Pending' = Pending
    BY <2>1, SameHand
  <2> QED BY <2>1, <2>2, Unmoved
<1>41. ASSUME UNCHANGED vars PROVE Told' /\ Newest' /\ Heard'
  <2>1. /\ UNCHANGED <<queue, epoch, delivered_epoch, delivery_ticket,
                       carried_ticket, enqueued_ticket, feed>>
        /\ (Hand' <=> Hand) /\ (Hand => w'.tag = w.tag)
        /\ (Doomed => Doomed') /\ (stop_requested => stop_requested')
        /\ (Steady' => Steady)
    BY <1>41, <1>0 DEF vars, Hand, Doomed, Over, Steady, OnLine, Talking,
       Looping, Away, Reaching, Shutting, Place, WorkerTyped, Locals, lifeVars,
       epochVars, ackVars, shedVars, headerVars, queueVars, sharedVars, Go, Local
  <2>2. Pending' = Pending
    BY <2>1, SameHand
  <2> QED BY <2>1, <2>2, Unmoved
<1> QED BY <1>1, <1>2, <1>3, <1>4, <1>5, <1>6, <1>7, <1>8, <1>9, <1>10,
     <1>11, <1>12, <1>13, <1>14, <1>15, <1>16, <1>17, <1>18, <1>19, <1>20,
     <1>21, <1>22, <1>23, <1>24, <1>25, <1>26, <1>27, <1>28, <1>29, <1>30,
     <1>31, <1>32, <1>33, <1>34, <1>35, <1>36, <1>37, <1>38, <1>39, <1>40,
     <1>41 DEF Next, Pipeline, Owner, Watchdog, Worker

\* Nothing is pending at the start.
LEMMA TicketsStart ==
  ASSUME Init
  PROVE  TicketInv
<1>1. w.pc = "dial" /\ w.boot /\ w.awaiting /\ queue = <<>>
  BY DEF Init
<1>2. ~Holds /\ Pending = {}
  <2>1. ~Holds /\ InHand = {}
    BY <1>1 DEF Holds, OnLine, Talking, InHand
  <2>2. DOMAIN <<>> = {}
    OBVIOUS
  <2> QED BY <1>1, <2>1, <2>2 DEF Pending
<1>3. TicketOrder
  <2>1. Within(queue, feed.batch) /\ Ordered(queue)
    BY <1>1 DEF Within, Ordered
  <2> QED BY <1>2, <2>1 DEF Init, TicketOrder
<1>4. KeepsNothing
  BY <1>1 DEF Init, KeepsNothing
<1>5. Told /\ Newest /\ Heard
  BY <1>1, <1>2 DEF Init, Told, Newest, Heard, Steady
<1> QED
  BY <1>3, <1>4, <1>5 DEF TicketInv

LEMMA TicketsKept ==
  ASSUME SenderInv, TicketInv, [Next]_vars
  PROVE  TicketInv'
<1>1. Typed /\ Place /\ Media /\ Queued /\ Life /\ Resume
  BY DEF SenderInv
<1>2. TicketOrder /\ KeepsNothing /\ Told /\ Newest /\ Heard
  BY DEF TicketInv
<1>3. TicketOrder'
  BY <1>1, <1>2, SenderConstants, TicketOrderStep
<1>4. KeepsNothing'
  BY <1>1, <1>2, SenderConstants, KeepsNothingStep
<1>5. Told' /\ Newest' /\ Heard'
  BY <1>1, <1>2, SenderConstants, TicketsStep
<1> QED
  BY <1>3, <1>4, <1>5 DEF TicketInv

\* enqueue_epoch, shed_queued_video_locked, thin_incoming_video_locked and
\* send_tag: a ticket is acknowledged when every batch up to it is written or
\* dropped, and the newest one is never lost, however the queue was shed and
\* thinned, the connection replaced and the epoch changed.
THEOREM TicketsAreExact == Spec => []TicketsExact
<1>1. Init => SenderInv /\ TicketInv
  BY SenderStarts, TicketsStart
<1>2. SenderInv /\ TicketInv /\ [Next]_vars => SenderInv' /\ TicketInv'
  BY SenderSteps, TicketsKept
<1>3. SenderInv /\ TicketInv => AcknowledgedInOrder
  BY DEF TicketInv, Told, Doomed, AcknowledgedInOrder
<1>4. SenderInv /\ TicketInv => TicketsAccounted
  <2>1. SUFFICES ASSUME SenderInv, TicketInv, state = "Running",
                        feed.phase # "failed", w.pc = "pop", ~w.awaiting,
                        enqueued_ticket # 0
                 PROVE  \/ delivered_epoch = epoch /\ delivery_ticket = enqueued_ticket
                        \/ carried_ticket = enqueued_ticket
                        \/ \E t \in Pending : t.ticket = enqueued_ticket
    BY DEF TicketsAccounted
  <2>2. OnLine /\ ~stop_requested
    BY <2>1 DEF SenderInv, Place, Looping, Life
  <2> QED BY <2>1, <2>2 DEF TicketInv, Newest, Heard, Steady, Doomed
<1> QED
  BY <1>1, <1>2, <1>3, <1>4, SenderTypes, PTL DEF Spec, TicketsExact
=============================================================================
