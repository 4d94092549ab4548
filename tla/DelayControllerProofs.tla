------------------------ MODULE DelayControllerProofs ------------------------
(***************************************************************************)
(* For every choice of the constants: types are kept, the byte counter is  *)
(* exact and the history is in decode order after any sequence of calls,   *)
(* and an armed history is silent and tight.  In the broadcast's session,  *)
(* which only makes such calls, the history also never has a hole, what a  *)
(* viewer is handed decodes, the delay is honoured and the depth is kept.  *)
(***************************************************************************)
EXTENDS RewindSession, SequenceTheorems, NaturalsInduction,
        WellFoundedInduction, TLAPS

-----------------------------------------------------------------------------
(* Natural numbers.                                                        *)

\* Every non-empty set of natural numbers has a least element.
LEMMA NatMinimum ==
  ASSUME NEW S, S \subseteq Nat, S # {}
  PROVE  \E n \in S : \A m \in S : n <= m
<1>1. IsWellFoundedOn(OpToRel(<, Nat), Nat)
  BY NatLessThanWellFounded, Zenon
<1>2. PICK n \in S : \A m \in S : <<m, n>> \notin OpToRel(<, Nat)
  BY <1>1, WFMin, Zenon
<1>3. \A m \in S : ~(m < n)
  BY <1>2 DEF OpToRel
<1> QED
  BY <1>3

\* A non-empty set of positions has a last one.
LEMMA IntervalMaximum ==
  ASSUME NEW N \in Nat, NEW S, S \subseteq 1..N, S # {}
  PROVE  \E n \in S : \A m \in S : m <= n
<1> DEFINE T == {N - i : i \in S}
<1>1. T \subseteq Nat /\ T # {}
  <2>1. \A i \in S : N - i \in Nat
    OBVIOUS
  <2>2. PICK i \in S : TRUE
    OBVIOUS
  <2>3. N - i \in T
    OBVIOUS
  <2> QED BY <2>1, <2>3
<1>2. PICK k \in T : \A m \in T : k <= m
  BY <1>1, NatMinimum
<1>3. PICK n \in S : k = N - n
  OBVIOUS
<1>4. \A m \in S : N - n <= N - m
  BY <1>2, <1>3
<1> QED
  BY <1>4


\* A history that is well typed and in order, and the bytes it weighs.
Sorted(q) == \A i, j \in DOMAIN q : i < j => q[i].dts <= q[j].dts
Good(q) == q \in Seq(Packets) /\ Sorted(q)
Counted == Good(buffered) /\ buffered_bytes = Len(buffered)

-----------------------------------------------------------------------------
\* Dropping the packets before position k.
LEMMA FromProperties ==
  ASSUME NEW q \in Seq(Packets), NEW k \in 1..(Len(q) + 1)
  PROVE  /\ From(q, k) \in Seq(Packets)
         /\ Len(From(q, k)) = Len(q) - k + 1
         /\ \A i \in 1..Len(From(q, k)) : From(q, k)[i] = q[k + i - 1]
<1>1. Len(q) \in Nat /\ \A i \in 1..Len(q) : q[i] \in Packets
  BY LenProperties, ElementOfSeq
<1>2. \A i \in k..Len(q) : q[i] \in Packets
  BY <1>1
<1>3. k \in Int /\ Len(q) \in Int
  BY <1>1
<1>4. /\ SubSeq(q, k, Len(q)) \in Seq(Packets)
      /\ Len(SubSeq(q, k, Len(q))) = IF k <= Len(q) THEN Len(q) - k + 1 ELSE 0
      /\ \A i \in 1..(Len(q) - k + 1) : SubSeq(q, k, Len(q))[i] = q[k + i - 1]
  BY <1>2, <1>3, SubSeqProperties
<1>5. Len(SubSeq(q, k, Len(q))) = Len(q) - k + 1
  BY <1>1, <1>4
<1> QED
  BY <1>4, <1>5 DEF From

LEMMA DomainIsInterval ==
  ASSUME NEW q \in Seq(Packets)
  PROVE  Len(q) \in Nat /\ DOMAIN q = 1..Len(q)
BY LenProperties

LEMMA GoodFrom ==
  ASSUME NEW q, Good(q), NEW k \in 1..(Len(q) + 1)
  PROVE  Good(From(q, k)) /\ Len(From(q, k)) = Len(q) - (k - 1)
<1>1. q \in Seq(Packets) /\ Sorted(q) /\ Len(q) \in Nat
      /\ DOMAIN q = 1..Len(q)
  BY DomainIsInterval DEF Good
<1>2. /\ From(q, k) \in Seq(Packets)
      /\ Len(From(q, k)) = Len(q) - k + 1
      /\ \A i \in 1..Len(From(q, k)) : From(q, k)[i] = q[k + i - 1]
  BY <1>1, FromProperties
<1>3. DOMAIN From(q, k) = 1..Len(From(q, k))
  BY <1>2, DomainIsInterval
<1>4. Sorted(From(q, k))
  <2> SUFFICES ASSUME NEW i \in 1..Len(From(q, k)), NEW j \in 1..Len(From(q, k)),
                      i < j
               PROVE  From(q, k)[i].dts <= From(q, k)[j].dts
    BY <1>3 DEF Sorted
  <2>1. k + i - 1 \in 1..Len(q) /\ k + j - 1 \in 1..Len(q) /\ k + i - 1 < k + j - 1
    BY <1>1, <1>2
  <2> QED
    BY <1>1, <1>2, <2>1 DEF Sorted
<1> QED
  BY <1>1, <1>2, <1>4 DEF Good

\* Storing a packet that is not older than the newest one kept.
LEMMA GoodAppend ==
  ASSUME NEW q, Good(q), NEW p \in Packets,
         q = <<>> \/ q[Len(q)].dts <= p.dts
  PROVE  Good(Append(q, p)) /\ Len(Append(q, p)) = Len(q) + 1
<1>1. q \in Seq(Packets) /\ Sorted(q) /\ Len(q) \in Nat
      /\ DOMAIN q = 1..Len(q)
  BY DomainIsInterval DEF Good
<1>2. /\ Append(q, p) \in Seq(Packets)
      /\ Len(Append(q, p)) = Len(q) + 1
      /\ \A i \in 1..Len(q) : Append(q, p)[i] = q[i]
      /\ Append(q, p)[Len(q) + 1] = p
  BY <1>1, AppendProperties
<1>3. DOMAIN Append(q, p) = 1..(Len(q) + 1)
  BY <1>2, DomainIsInterval
<1>4. p.dts \in Int /\ \A i \in 1..Len(q) : q[i].dts \in Int
  <2>1. \A i \in 1..Len(q) : q[i] \in Packets
    BY <1>1, ElementOfSeq
  <2> QED
    BY <2>1 DEF Packets
<1>5. \A i \in 1..Len(q) : q[i].dts <= p.dts
  <2> SUFFICES ASSUME NEW i \in 1..Len(q) PROVE q[i].dts <= p.dts
    OBVIOUS
  <2>1. q # <<>> /\ Len(q) \in 1..Len(q)
    BY <1>1, EmptySeq
  <2>2. q[i].dts <= q[Len(q)].dts
    <3>1. CASE i = Len(q)
      <4>1. q[i].dts \in Int
        BY <1>4
      <4> QED BY <3>1, <4>1
    <3>2. CASE i < Len(q)
      BY <3>2, <1>1, <2>1 DEF Sorted
    <3>3. Len(q) \in Int /\ i \in Int /\ i <= Len(q)
      BY <1>1
    <3> QED BY <3>1, <3>2, <3>3
  <2> QED BY <2>1, <2>2, <1>4
<1>6. Sorted(Append(q, p))
  <2> SUFFICES ASSUME NEW i \in 1..(Len(q) + 1), NEW j \in 1..(Len(q) + 1), i < j
               PROVE  Append(q, p)[i].dts <= Append(q, p)[j].dts
    BY <1>3 DEF Sorted
  <2>1. i \in 1..Len(q)
    BY <1>1
  <2>2. CASE j = Len(q) + 1
    BY <1>2, <1>5, <2>1, <2>2
  <2>3. CASE j \in 1..Len(q)
    BY <1>1, <1>2, <2>1, <2>3 DEF Sorted
  <2> QED BY <2>2, <2>3, <1>1
<1> QED
  BY <1>1, <1>2, <1>6 DEF Good

LEMMA GoodEmpty == Good(<<>>) /\ Len(<<>>) = 0
<1>1. <<>> \in Seq(Packets) /\ Len(<<>>) = 0
  BY EmptySeq
<1>2. DOMAIN <<>> = 1..0
  BY <1>1, DomainIsInterval
<1> QED BY <1>1, <1>2 DEF Good, Sorted

-----------------------------------------------------------------------------
\* What an operation has to leave behind in the fields that carry media.
MediaOK ==
  /\ Counted /\ ready \in Seq(Packets)
  /\ state \in States /\ pending_trim \in BOOLEAN
  /\ video_watermark \in Int \cup {None} /\ audio_watermark \in Int \cup {None}

LEMMA ReadyWithType ==
  ASSUME TypeOK, NEW p \in Packets
  PROVE  ReadyWith(p) \in Seq(Packets)
BY AppendProperties DEF TypeOK, ReadyWith

LEMMA MarkTypes ==
  ASSUME TypeOK, NEW p \in Packets
  PROVE  VideoMark(p) \in Int \cup {None} /\ AudioMark(p) \in Int \cup {None}
BY DEF TypeOK, VideoMark, AudioMark, Packets

\* A failure stores what it is given, or nothing.
LEMMA SetErrorGood ==
  ASSUME TypeOK, NEW q, Good(q), NEW w, w = Len(q), NEW r \in Seq(Packets),
         NEW v \in Int \cup {None}, NEW a \in Int \cup {None},
         SetError(q, w, r, v, a), pending_trim' \in BOOLEAN
  PROVE  MediaOK'
<1>1. CASE armed
  BY <1>1, GoodEmpty, EmptySeq DEF SetError, MediaOK, Counted, States
<1>2. CASE ~armed
  BY <1>2 DEF SetError, MediaOK, Counted, States
<1> QED BY <1>1, <1>2

\* The history with one more packet, when it does not move back in time.
LEMMA StoredGood ==
  ASSUME Counted, NEW p \in Packets, ~MovesBack(p)
  PROVE  /\ Good(Stored(p))
         /\ Len(Stored(p)) = buffered_bytes + 1
         /\ Len(Stored(p)) \in Nat \ {0} /\ DOMAIN Stored(p) = 1..Len(Stored(p))
<1>1. buffered = <<>> \/ buffered[Len(buffered)].dts <= p.dts
  <2>1. CASE buffered # <<>>
    <3>1. Len(buffered) \in 1..Len(buffered)
      BY <2>1, EmptySeq DEF Good, Counted
    <3>2. buffered[Len(buffered)] \in Packets
      BY <3>1, ElementOfSeq DEF Good, Counted
    <3> QED BY <2>1, <3>2 DEF MovesBack, Packets
  <2> QED BY <2>1
<1>2. Good(Stored(p)) /\ Len(Stored(p)) = buffered_bytes + 1
  BY <1>1, GoodAppend DEF Stored, Counted
<1>3. Len(Stored(p)) # 0
  BY AppendProperties DEF Good, Stored, Counted
<1> QED BY <1>2, <1>3, DomainIsInterval DEF Good

LEMMA IngestPassedGood ==
  ASSUME TypeOK, Counted, NEW p \in Packets, IngestPassed(p)
  PROVE  MediaOK'
<1>1. ready' \in Seq(Packets)
  BY ReadyWithType DEF IngestPassed
<1> QED
  BY <1>1 DEF IngestPassed, MediaOK, TypeOK, Counted, waterVars

LEMMA IngestBackwardsGood ==
  ASSUME TypeOK, Counted, NEW p \in Packets,
         IngestBackwards(p)
  PROVE  MediaOK'
<1>1. pending_trim' \in BOOLEAN
  BY DEF TypeOK, IngestBackwards
<1>2. SetError(buffered, buffered_bytes, ReadyWith(p), video_watermark,
               audio_watermark)
  BY DEF IngestBackwards
<1>3. /\ video_watermark \in Int \cup {None} /\ audio_watermark \in Int \cup {None}
  BY DEF TypeOK
<1> QED
  BY <1>1, <1>2, <1>3, ReadyWithType, SetErrorGood DEF Counted

LEMMA IngestOverflowGood ==
  ASSUME TypeOK, Counted, NEW p \in Packets,
         IngestOverflow(p)
  PROVE  MediaOK'
<1>1. pending_trim' \in BOOLEAN /\ ~MovesBack(p)
  BY DEF TypeOK, IngestOverflow
<1>2. SetError(Stored(p), buffered_bytes + 1, ReadyWith(p), VideoMark(p),
               AudioMark(p))
  BY DEF IngestOverflow
<1>3. Good(Stored(p)) /\ buffered_bytes + 1 = Len(Stored(p))
  BY <1>1, StoredGood
<1> QED
  BY <1>1, <1>2, <1>3, ReadyWithType, MarkTypes, SetErrorGood

LEMMA IngestArmedGood ==
  ASSUME TypeOK, Counted, NEW p \in Packets, IngestArmed(p)
  PROVE  MediaOK'
<1>1. pending_trim' \in BOOLEAN /\ ~MovesBack(p)
  BY DEF TypeOK, IngestArmed
<1>2. PICK k \in DOMAIN Stored(p) :
        LET kept == From(Stored(p), k)
            bytes == buffered_bytes + 1 - (k - 1)
        IN  IF OverBudget(kept, bytes)
            THEN SetError(kept, bytes, ReadyWith(p), VideoMark(p), AudioMark(p))
            ELSE /\ buffered' = kept /\ buffered_bytes' = bytes
                 /\ ready' = ReadyWith(p)
                 /\ state' = RolledState(p, kept)
                 /\ video_watermark' = VideoMark(p)
                 /\ audio_watermark' = AudioMark(p)
  BY DEF IngestArmed
<1> DEFINE kept == From(Stored(p), k)
           bytes == buffered_bytes + 1 - (k - 1)
<1>3. k \in 1..(Len(Stored(p)) + 1)
  BY <1>1, StoredGood
<1>4. Good(kept) /\ bytes = Len(kept)
  <2>1. Good(Stored(p)) /\ Len(Stored(p)) = buffered_bytes + 1
    BY <1>1, StoredGood
  <2>2. Good(kept) /\ Len(kept) = Len(Stored(p)) - (k - 1)
    BY <1>3, <2>1, GoodFrom
  <2>3. buffered_bytes \in Int /\ k \in Int
    BY <1>1, <1>3, StoredGood DEF TypeOK
  <2> QED
    BY <2>1, <2>2, <2>3
<1>5. RolledState(p, kept) \in States
  BY DEF RolledState, TypeOK, States
<1>6. CASE OverBudget(kept, bytes)
  <2>1. SetError(kept, bytes, ReadyWith(p), VideoMark(p), AudioMark(p))
    BY <1>2, <1>6
  <2> QED
    BY <1>1, <1>4, <2>1, ReadyWithType, MarkTypes, SetErrorGood
<1>7. CASE ~OverBudget(kept, bytes)
  BY <1>1, <1>2, <1>4, <1>5, <1>7, ReadyWithType, MarkTypes DEF MediaOK, Counted
<1> QED BY <1>6, <1>7

\* promote_locked: trim, find the first keyframe, release what is due.
LEMMA IngestPromotedGood ==
  ASSUME TypeOK, Counted, NEW p \in Packets,
         IngestPromoted(p)
  PROVE  MediaOK'
<1>1. ~armed /\ ~MovesBack(p) /\ Good(Stored(p)) /\ Len(Stored(p)) = buffered_bytes + 1
  BY StoredGood DEF IngestPromoted
<1>2. video_watermark' \in Int \cup {None} /\ audio_watermark' \in Int \cup {None}
  BY MarkTypes DEF IngestPromoted
<1>3. ReadyWith(p) \in Seq(Packets)
  BY ReadyWithType
<1>4. PICK t \in 1..(Len(Stored(p)) + 1) :
        LET q == From(Stored(p), t)
            blocked == pending_trim /\ Duration(q) > target_delay
            left == buffered_bytes + 1 - (t - 1)
        IN  /\ pending_trim' = blocked
            /\ \/ /\ buffered' = q /\ buffered_bytes' = left
                  /\ ready' = ReadyWith(p)
                  /\ UNCHANGED state
               \/ /\ \E s \in DOMAIN q, r \in 1..(Len(q) + 1) :
                       LET keyed == From(q, s)
                       IN  /\ ReleasePoint(keyed, r, Limit)
                           /\ ready' = ReadyWith(p) \o SubSeq(keyed, 1, r - 1)
                           /\ buffered' = From(keyed, r)
                           /\ buffered_bytes' = left - (s - 1) - (r - 1)
                  /\ state' = "Delayed"
               \/ SetError(q, left, ReadyWith(p), VideoMark(p), AudioMark(p))
  BY DEF IngestPromoted
<1> DEFINE q == From(Stored(p), t)
           left == buffered_bytes + 1 - (t - 1)
<1>5. Good(q) /\ Len(q) = left
  <2>1. Good(q) /\ Len(q) = Len(Stored(p)) - (t - 1)
    BY <1>1, GoodFrom
  <2>2. buffered_bytes \in Int /\ t \in Int
    BY <1>1, StoredGood DEF TypeOK
  <2> QED
    BY <1>1, <2>1, <2>2
<1>6. pending_trim' \in BOOLEAN
  BY <1>4
<1>7. CASE buffered' = q /\ buffered_bytes' = left /\ ready' = ReadyWith(p)
           /\ UNCHANGED state
  BY <1>2, <1>3, <1>5, <1>6, <1>7 DEF MediaOK, Counted, TypeOK
<1>8. CASE SetError(q, left, ReadyWith(p), VideoMark(p), AudioMark(p))
  BY <1>3, <1>5, <1>6, <1>8, MarkTypes, SetErrorGood
<1>9. ASSUME NEW s \in DOMAIN q, NEW r \in 1..(Len(q) + 1),
             ReleasePoint(From(q, s), r, Limit),
             ready' = ReadyWith(p) \o SubSeq(From(q, s), 1, r - 1),
             buffered' = From(From(q, s), r),
             buffered_bytes' = left - (s - 1) - (r - 1),
             state' = "Delayed"
      PROVE  MediaOK'
  <2> DEFINE keyed == From(q, s)
  <2>1. q \in Seq(Packets) /\ s \in 1..(Len(q) + 1)
    BY <1>5, DomainIsInterval DEF Good
  <2>2. Good(keyed) /\ Len(keyed) = left - (s - 1)
    BY <1>5, <2>1, GoodFrom
  <2>3. r \in 1..(Len(keyed) + 1)
    BY <1>9 DEF ReleasePoint
  <2>4. Good(From(keyed, r)) /\ Len(From(keyed, r)) = left - (s - 1) - (r - 1)
    BY <2>2, <2>3, GoodFrom
  <2>5. SubSeq(keyed, 1, r - 1) \in Seq(Packets)
    <3>1. keyed \in Seq(Packets) /\ Len(keyed) \in Nat
      BY <2>2, DomainIsInterval DEF Good
    <3>2. \A i \in 1..(r - 1) : keyed[i] \in Packets
      BY <2>3, <3>1, ElementOfSeq
    <3>3. 1 \in Int /\ r - 1 \in Int
      BY <2>3, <3>1
    <3> QED BY <3>2, <3>3, SubSeqProperties
  <2>6. ready' \in Seq(Packets)
    BY <1>3, <1>9, <2>5, ConcatProperties
  <2> QED
    BY <1>2, <1>6, <1>9, <2>4, <2>6 DEF MediaOK, Counted, States
<1> QED
  BY <1>4, <1>7, <1>8, <1>9

-----------------------------------------------------------------------------
LEMMA NormalizeTypes ==
  ASSUME ControllerConstants, TypeOK, NEW raw \in Dts
  PROVE  /\ NextOffset(raw) \in Int \cup {None}
         /\ Normalized(raw) \in Int
<1>1. raw \in Int
  BY DEF ControllerConstants
<1>2. Rebases => last_input_dts \in Int
  BY DEF Rebases, TypeOK
<1>3. NextOffset(raw) \in Int \cup {None}
  BY <1>1, <1>2 DEF NextOffset, TypeOK
<1> QED
  BY <1>1, <1>3 DEF Normalized

LEMMA IngestUnrepresentableGood ==
  ASSUME ControllerConstants, TypeOK, Counted,
         NEW raw \in Dts, IngestUnrepresentable(raw)
  PROVE  MediaOK' /\ timestamp_offset' \in Int \cup {None}
<1>1. pending_trim' \in BOOLEAN
  BY DEF TypeOK, IngestUnrepresentable
<1>2. SetError(buffered, buffered_bytes, ready, video_watermark, audio_watermark)
  BY DEF IngestUnrepresentable
<1>3. MediaOK'
  BY <1>1, <1>2, SetErrorGood DEF TypeOK, Counted
<1>4. timestamp_offset' \in Int \cup {None}
  BY NormalizeTypes DEF IngestUnrepresentable, TypeOK
<1> QED BY <1>3, <1>4

LEMMA IngestGood ==
  ASSUME ControllerConstants, TypeOK, Counted,
         NEW kind \in {"Video", "Audio"}, NEW key \in BOOLEAN, NEW raw \in Dts,
         Ingest(kind, key, raw)
  PROVE  TypeOK' /\ Counted'
<1>1. videos' \in Nat /\ rebase_next' = FALSE /\ UNCHANGED <<modeVars, sent>>
  BY DEF Ingest, TypeOK
<1>2. CASE IngestUnrepresentable(raw)
  <2>1. MediaOK' /\ timestamp_offset' \in Int \cup {None}
    BY <1>2, IngestUnrepresentableGood
  <2>2. UNCHANGED <<last_input_dts, liveVars>>
    BY <1>2 DEF IngestUnrepresentable
  <2>3. Counted' /\ buffered' \in Seq(Packets) /\ buffered_bytes' \in Int
    BY <2>1, DomainIsInterval DEF MediaOK, Counted, Good
  <2> QED
    BY <1>1, <2>1, <2>2, <2>3 DEF TypeOK, MediaOK, modeVars, liveVars
<1>3. CASE ~IngestUnrepresentable(raw)
  <2> DEFINE p == [kind |-> kind, key |-> key, dts |-> Normalized(raw),
                   vn |-> videos']
  <2>1. p \in Packets
    BY <1>1, NormalizeTypes DEF Packets
  <2>2. /\ timestamp_offset' = NextOffset(raw)
        /\ last_input_dts' = p.dts
        /\ IF state = "Live"
           THEN /\ waiting_for_live_keyframe' =
                     (waiting_for_live_keyframe /\ ~IsKeyframe(p))
                /\ live_keyframe_dts' = LiveFrom(p)
           ELSE UNCHANGED liveVars
        /\ \/ IngestPassed(p) \/ IngestBackwards(p) \/ IngestArmed(p)
           \/ IngestOverflow(p) \/ IngestPromoted(p)
    BY <1>3 DEF Ingest
  <2> HIDE DEF p
  <2>3. MediaOK'
    BY <2>1, <2>2, IngestPassedGood, IngestBackwardsGood, IngestArmedGood,
       IngestOverflowGood, IngestPromotedGood
  <2>4. p.dts \in Int
    BY <2>1 DEF Packets
  <2>5. waiting_for_live_keyframe' \in BOOLEAN /\ live_keyframe_dts' \in Int
    BY <2>2, <2>4 DEF TypeOK, LiveFrom, liveVars
  <2>6. timestamp_offset' \in Int \cup {None} /\ last_input_dts' \in Int \cup {None}
    BY <2>2, <2>4, NormalizeTypes
  <2>7. Counted' /\ buffered' \in Seq(Packets) /\ buffered_bytes' \in Int
    BY <2>3, DomainIsInterval DEF MediaOK, Counted, Good
  <2> QED
    BY <1>1, <2>3, <2>5, <2>6, <2>7 DEF TypeOK, MediaOK, modeVars
<1> QED BY <1>2, <1>3

-----------------------------------------------------------------------------
\* The inductive invariant: types alone are not enough, because the byte
\* counter is only an integer that stays in step with the deque.
MediaInv == TypeOK /\ Counted

LEMMA CountedTypes ==
  ASSUME Counted
  PROVE  buffered \in Seq(Packets) /\ buffered_bytes \in Int
BY DomainIsInterval DEF Counted, Good

LEMMA MediaInvInit ==
  ASSUME ControllerConstants, Init
  PROVE  MediaInv
<1>1. Counted
  BY GoodEmpty DEF Init, Counted
<1>2. buffered \in Seq(Packets) /\ ready \in Seq(Packets) /\ buffered_bytes \in Int
  BY <1>1, CountedTypes, EmptySeq DEF Init
<1> QED
  BY <1>1, <1>2 DEF Init, MediaInv, TypeOK, States

LEMMA ArmKeeps ==
  ASSUME ControllerConstants, MediaInv, NEW t \in Targets, Arm(t)
  PROVE  MediaInv'
<1>1. Counted' /\ buffered' \in Seq(Packets) /\ buffered_bytes' \in Int
  BY GoodEmpty, EmptySeq DEF Arm, ClearBuffers, Counted
<1>2. ready' \in Seq(Packets) /\ t \in Nat
  BY EmptySeq DEF Arm, ClearBuffers, ControllerConstants
<1> QED
  BY <1>1, <1>2 DEF Arm, MediaInv, TypeOK, Counted, States, ClearBuffers,
       ClearWatermarks, ResetTimestampTracking, NewSource, liveVars

LEMMA StartLiveKeeps ==
  ASSUME MediaInv, StartLive
  PROVE  MediaInv'
BY EmptySeq
   DEF StartLive, MediaInv, TypeOK, Counted, States, NewSource, waterVars, timeVars

LEMMA PlayHistoryKeeps ==
  ASSUME MediaInv, PlayHistory, ready' \in Seq(Packets), passthrough' \in BOOLEAN
  PROVE  MediaInv'
<1>1. buffered # <<>>
  BY DEF PlayHistory, PrebufferReady, ReadyHistory
<1>2. 1 \in 1..Len(buffered) /\ Len(buffered) \in 1..Len(buffered)
  BY <1>1, EmptySeq DEF MediaInv, TypeOK
<1>3. buffered[1] \in Packets /\ buffered[Len(buffered)] \in Packets
  BY <1>2, ElementOfSeq DEF MediaInv, TypeOK
<1>4. playback_delay' \in Int
  BY <1>3 DEF PlayHistory, Packets
<1> QED
  BY <1>4 DEF PlayHistory, MediaInv, TypeOK, Counted, States, NewSource,
     waterVars, timeVars, liveVars

LEMMA ResumeLiveKeeps ==
  ASSUME MediaInv, ResumeLive
  PROVE  MediaInv'
<1>1. Counted'
  <2>1. CASE UNCHANGED <<buffered, buffered_bytes>>
    BY <2>1 DEF MediaInv, Counted
  <2>2. ASSUME NEW k \in DOMAIN buffered,
               buffered' = From(buffered, k),
               buffered_bytes' = buffered_bytes - (k - 1)
        PROVE  Counted'
    <3>1. k \in 1..(Len(buffered) + 1) /\ k \in Int
      BY DomainIsInterval DEF MediaInv, TypeOK
    <3>2. Good(From(buffered, k)) /\ Len(From(buffered, k)) = Len(buffered) - (k - 1)
      BY <3>1, GoodFrom DEF MediaInv, Counted
    <3> QED
      BY <2>2, <3>1, <3>2 DEF MediaInv, Counted
  <2> QED
    BY <2>1, <2>2 DEF ResumeLive
<1>2. buffered' \in Seq(Packets) /\ buffered_bytes' \in Int
  BY <1>1, DomainIsInterval DEF Counted, Good
<1> QED
  BY <1>1, <1>2, EmptySeq
     DEF ResumeLive, MediaInv, TypeOK, States, NewSource, waterVars, timeVars

LEMMA SetTargetDelayKeeps ==
  ASSUME ControllerConstants, MediaInv, NEW t \in Targets, SetTargetDelay(t)
  PROVE  MediaInv'
<1>1. Counted'
  <2>1. CASE UNCHANGED <<buffered, buffered_bytes>>
    BY <2>1 DEF MediaInv, Counted
  <2>2. ASSUME NEW k \in 1..(Len(buffered) + 1),
               buffered' = From(buffered, k),
               buffered_bytes' = buffered_bytes - (k - 1)
        PROVE  Counted'
    <3>1. Len(buffered) \in Nat /\ k \in Int
      BY DomainIsInterval DEF MediaInv, TypeOK
    <3>2. Good(From(buffered, k)) /\ Len(From(buffered, k)) = Len(buffered) - (k - 1)
      BY GoodFrom DEF MediaInv, Counted
    <3> QED
      BY <2>2, <3>1, <3>2 DEF MediaInv, Counted
  <2> QED
    BY <2>1, <2>2 DEF SetTargetDelay
<1>2. buffered' \in Seq(Packets) /\ buffered_bytes' \in Int
  BY <1>1, DomainIsInterval DEF Counted, Good
<1>3. pending_trim' \in BOOLEAN
  <2>1. CASE pending_trim' = FALSE
    BY <2>1
  <2>2. CASE pending_trim' = (Duration(buffered') > t)
    BY <2>2
  <2> QED BY <2>1, <2>2 DEF SetTargetDelay
<1>5. state' \in States
  BY DEF SetTargetDelay, States
<1>4. ready' \in Seq(Packets)
  BY EmptySeq DEF SetTargetDelay, MediaInv, TypeOK
<1> QED
  BY <1>1, <1>2, <1>3, <1>4, <1>5
     DEF ControllerConstants, SetTargetDelay, MediaInv, TypeOK, NewSource,
         waterVars, timeVars, liveVars

LEMMA DropEverythingKeeps ==
  ASSUME MediaInv, NEW t \in Nat, DropEverything(t), rewind_mode' \in BOOLEAN
  PROVE  MediaInv'
<1>1. Counted' /\ buffered' \in Seq(Packets) /\ buffered_bytes' \in Int
  BY GoodEmpty, EmptySeq DEF DropEverything, ClearBuffers, Counted
<1>2. ready' \in Seq(Packets)
  BY EmptySeq DEF DropEverything, ClearBuffers
<1> QED
  BY <1>1, <1>2 DEF DropEverything, MediaInv, TypeOK, Counted, States, ClearBuffers,
       ClearWatermarks, ResetTimestampTracking, NewSource

LEMMA SetTargetLiveKeeps ==
  ASSUME MediaInv, SetTargetLive
  PROVE  MediaInv'
<1>1. Counted' /\ buffered' \in Seq(Packets) /\ buffered_bytes' \in Int
  BY GoodEmpty, EmptySeq DEF SetTargetLive, ClearBuffers, Counted
<1>2. ready' \in Seq(Packets)
  BY EmptySeq DEF SetTargetLive, ClearBuffers
<1> QED
  BY <1>1, <1>2 DEF SetTargetLive, MediaInv, TypeOK, Counted, States, ClearBuffers,
       ResetTimestampTracking, NewSource, waterVars

LEMMA TakeReadyPacketsKeeps ==
  ASSUME MediaInv, TakeReadyPackets
  PROVE  MediaInv'
<1>1. LastVideo(ready, sent) \in Nat
  <2> DEFINE v == {i \in DOMAIN ready : ready[i].kind = "Video"}
             m == CHOOSE i \in v : \A j \in v : j <= i
  <2>1. CASE v = {}
    BY <2>1 DEF LastVideo, MediaInv, TypeOK
  <2>2. CASE v # {}
    <3>1. DOMAIN ready = 1..Len(ready) /\ Len(ready) \in Nat
      BY DomainIsInterval DEF MediaInv, TypeOK
    <3>2. \E i \in v : \A j \in v : j <= i
      BY <2>2, <3>1, IntervalMaximum
    <3>3. m \in v
      BY <3>2
    <3>4. ready[m] \in Packets
      BY <3>1, <3>3, ElementOfSeq DEF MediaInv, TypeOK
    <3> QED
      BY <2>2, <3>4 DEF LastVideo, Packets
  <2> QED BY <2>1, <2>2
<1> QED
  BY <1>1, EmptySeq
     DEF TakeReadyPackets, MediaInv, TypeOK, Counted, timeVars, waterVars,
         modeVars, liveVars

LEMMA MediaInvNext ==
  ASSUME ControllerConstants, MediaInv, [Next]_vars
  PROVE  MediaInv'
<1>1. CASE UNCHANGED vars
  BY <1>1 DEF vars, timeVars, waterVars, modeVars, liveVars, dataVars, MediaInv,
     TypeOK, Counted
<1>2. ASSUME NEW t \in Targets, Arm(t) PROVE MediaInv'
  BY <1>2, ArmKeeps
<1>3. ASSUME NEW t \in Targets, SetTargetRefused(t) PROVE MediaInv'
  BY <1>3 DEF SetTargetRefused, waterVars, timeVars, liveVars, dataVars, MediaInv,
     TypeOK, Counted
<1>4. ASSUME NEW t \in Targets, SetTargetDelay(t) PROVE MediaInv'
  BY <1>4, SetTargetDelayKeeps
<1>5. CASE SetTargetLive
  BY <1>5, SetTargetLiveKeeps
<1>6. CASE StartLive
  BY <1>6, StartLiveKeeps
<1>7. CASE BeginBroadcast
  <2>1. ready' \in Seq(Packets) /\ passthrough' \in BOOLEAN
    BY <1>7 DEF BeginBroadcast, MediaInv, TypeOK
  <2> QED BY <1>7, <2>1, PlayHistoryKeeps DEF BeginBroadcast
<1>8. CASE Rewind
  <2>1. ready' \in Seq(Packets) /\ passthrough' \in BOOLEAN
    BY <1>8, EmptySeq DEF Rewind
  <2> QED BY <1>8, <2>1, PlayHistoryKeeps DEF Rewind
<1>9. CASE ResumeLive
  BY <1>9, ResumeLiveKeeps
<1>10. CASE ReturnLive
  <2>1. rewind_mode' \in BOOLEAN
    BY <1>10 DEF ReturnLive, MediaInv, TypeOK
  <2> QED BY <1>10, <2>1, DropEverythingKeeps DEF ReturnLive
<1>11. CASE EmergencyDump
  <2>1. rewind_mode' \in BOOLEAN /\ target_delay \in Nat
    BY <1>11 DEF EmergencyDump, MediaInv, TypeOK
  <2> QED BY <1>11, <2>1, DropEverythingKeeps DEF EmergencyDump
<1>12. CASE ResetForDiscontinuity
  BY <1>12, DropEverythingKeeps DEF ResetForDiscontinuity
<1>13. CASE BeginTimestampEpoch
  BY <1>13 DEF BeginTimestampEpoch, waterVars, modeVars, liveVars, dataVars,
     MediaInv, TypeOK, Counted
<1>14. CASE TakeReadyPackets
  BY <1>14, TakeReadyPacketsKeeps
<1>15. ASSUME NEW kind \in {"Video", "Audio"}, NEW key \in BOOLEAN, NEW raw \in Dts,
              Ingest(kind, key, raw)
       PROVE  MediaInv'
  BY <1>15, IngestGood DEF MediaInv
<1> QED
  BY <1>1, <1>2, <1>3, <1>4, <1>5, <1>6, <1>7, <1>8, <1>9, <1>10, <1>11, <1>12,
     <1>13, <1>14, <1>15 DEF Next

LEMMA MediaInvInvariant == Spec => []MediaInv
<1>1. Init => MediaInv
  BY ControllerConstants, MediaInvInit
<1>2. MediaInv /\ [Next]_vars => MediaInv'
  BY ControllerConstants, MediaInvNext
<1> QED
  BY <1>1, <1>2, PTL DEF Spec

\* Every variable keeps its type: in particular rolling, trimming and
\* releasing only ever cut the history at a position inside it.
THEOREM ControllerTypes == Spec => []TypeOK
BY MediaInvInvariant, PTL DEF MediaInv

\* buffered_bytes_ equals what the deque holds after any sequence of calls, so
\* the memory limit is enforced on the real size.
THEOREM BytesAreExact == Spec => []BytesTrackHistory
<1>1. MediaInv => BytesTrackHistory
  BY DEF MediaInv, Counted, BytesTrackHistory
<1> QED BY <1>1, MediaInvInvariant, PTL

\* The history is in decode order whatever an encoder stamps and however its
\* timestamps are rebased.
THEOREM HistoryIsInOrder == Spec => []HistoryInOrder
<1>1. MediaInv => HistoryInOrder
  BY DEF MediaInv, Counted, Good, Sorted, HistoryInOrder
<1> QED BY <1>1, MediaInvInvariant, PTL

-----------------------------------------------------------------------------
\* ArmedIsSilent is not inductive: an armed packet is withheld because the
\* state is not Live before start_live, which has to be carried along.
AirInv ==
  armed => /\ ~passthrough => ready = <<>> /\ state # "Live"
           /\ state = "Error" => ready = <<>> /\ buffered = <<>>

LEMMA IngestKeepsAir ==
  ASSUME AirInv, NEW kind, NEW key, NEW raw, Ingest(kind, key, raw)
  PROVE  AirInv'
<1>1. state # "Error" /\ UNCHANGED <<armed, passthrough>>
  BY DEF Ingest, modeVars
<1>2. CASE ~armed
  BY <1>1, <1>2 DEF AirInv
<1>3. ASSUME NEW q, NEW w, NEW r, NEW v, NEW a, armed, SetError(q, w, r, v, a)
      PROVE  AirInv'
  BY <1>3 DEF SetError, AirInv
<1>4. ASSUME armed, ~IngestUnrepresentable(raw)
      PROVE  AirInv'
  <2>1. PICK p : IngestPassed(p) \/ IngestBackwards(p) \/ IngestArmed(p)
                 \/ IngestOverflow(p) \/ IngestPromoted(p)
    BY <1>4 DEF Ingest
  <2>2. ~passthrough => ReadyWith(p) = ready
    BY <1>4 DEF AirInv, ReadyWith, Emits
  <2>3. CASE IngestPassed(p)
    BY <1>1, <2>2, <2>3 DEF IngestPassed, AirInv
  <2>4. CASE IngestBackwards(p)
    BY <1>3, <1>4, <2>4 DEF IngestBackwards
  <2>5. CASE IngestArmed(p)
    <3>1. PICK kept, bytes :
            IF OverBudget(kept, bytes)
            THEN SetError(kept, bytes, ReadyWith(p), VideoMark(p), AudioMark(p))
            ELSE ready' = ReadyWith(p) /\ state' = RolledState(p, kept)
      BY <2>5 DEF IngestArmed
    <3>2. CASE OverBudget(kept, bytes)
      BY <1>3, <1>4, <3>1, <3>2
    <3>3. CASE ~OverBudget(kept, bytes)
      <4>1. RolledState(p, kept) \in {state, "Delayed", "BuildingDelay"}
        BY DEF RolledState
      <4> QED BY <1>1, <2>2, <3>1, <3>3, <4>1 DEF AirInv
    <3> QED BY <3>2, <3>3
  <2>6. CASE IngestOverflow(p) \/ IngestPromoted(p)
    BY <1>4, <2>6 DEF IngestOverflow, IngestPromoted
  <2> QED BY <2>1, <2>3, <2>4, <2>5, <2>6
<1>5. CASE armed /\ IngestUnrepresentable(raw)
  BY <1>3, <1>5 DEF IngestUnrepresentable
<1> QED BY <1>2, <1>4, <1>5

LEMMA AirInvNext ==
  ASSUME AirInv, [Next]_vars
  PROVE  AirInv'
<1>1. CASE UNCHANGED vars
  BY <1>1 DEF vars, modeVars, dataVars, AirInv
<1>2. CASE \E t \in Targets : Arm(t) \/ SetTargetRefused(t) \/ SetTargetDelay(t)
  BY <1>2 DEF Arm, SetTargetRefused, SetTargetDelay, ClearBuffers, AirInv
<1>3. CASE SetTargetLive \/ StartLive \/ ResumeLive
  BY <1>3 DEF SetTargetLive, StartLive, ResumeLive, AirInv
<1>4. CASE BeginBroadcast \/ Rewind
  BY <1>4 DEF BeginBroadcast, Rewind, PlayHistory, AirInv
<1>5. CASE ReturnLive \/ EmergencyDump \/ ResetForDiscontinuity
  BY <1>5 DEF ReturnLive, EmergencyDump, ResetForDiscontinuity, DropEverything, AirInv
<1>6. CASE BeginTimestampEpoch
  BY <1>6 DEF BeginTimestampEpoch, modeVars, dataVars, AirInv
<1>7. CASE TakeReadyPackets
  BY <1>7 DEF TakeReadyPackets, modeVars, AirInv
<1>8. ASSUME NEW kind \in {"Video", "Audio"}, NEW key \in BOOLEAN, NEW raw \in Dts,
             Ingest(kind, key, raw)
      PROVE  AirInv'
  BY <1>8, IngestKeepsAir
<1> QED
  BY <1>1, <1>2, <1>3, <1>4, <1>5, <1>6, <1>7, <1>8 DEF Next

\* An armed controller that is off air offers nothing for release, and after a
\* failure an armed history is gone.
THEOREM ArmedStaysSilent == Spec => []ArmedIsSilent
<1>1. Init => AirInv
  BY DEF Init, AirInv
<1>2. AirInv /\ [Next]_vars => AirInv'
  BY AirInvNext
<1>3. AirInv => ArmedIsSilent
  BY DEF AirInv, ArmedIsSilent
<1> QED BY <1>1, <1>2, <1>3, PTL DEF Spec

-----------------------------------------------------------------------------
\* After a roll no keyframe behind the new front is still at or before the
\* cutoff: the one that was last is now the front itself.
LEMMA RollIsTight ==
  ASSUME NEW q \in Seq(Packets), NEW k \in 1..Len(q), NEW cutoff \in Int,
         RollPoint(q, k, cutoff),
         NEW i \in 2..Len(From(q, k)), IsKeyframe(From(q, k)[i])
  PROVE  From(q, k)[i].dts > cutoff
<1>1. Len(q) \in Nat /\ k \in 1..(Len(q) + 1)
  BY DomainIsInterval
<1>2. /\ From(q, k) \in Seq(Packets)
      /\ Len(From(q, k)) = Len(q) - k + 1
      /\ \A j \in 1..Len(From(q, k)) : From(q, k)[j] = q[k + j - 1]
  BY <1>1, FromProperties
<1>3. i \in 1..Len(From(q, k)) /\ k + i - 1 \in 2..Len(q) /\ k + i - 1 > k
  BY <1>1, <1>2
<1>4. From(q, k)[i] = q[k + i - 1]
  BY <1>2, <1>3
<1>5. q[k + i - 1].dts \in Int
  <2>1. k + i - 1 \in 1..Len(q)
    BY <1>1, <1>3
  <2>2. q[k + i - 1] \in Packets
    BY <2>1, ElementOfSeq
  <2> QED BY <2>2 DEF Packets
<1>6. ~(q[k + i - 1].dts <= cutoff)
  BY <1>1, <1>3, <1>4 DEF RollPoint
<1> QED
  BY <1>4, <1>5, <1>6

\* A history q rolled to position k under watermarks v and a is tight.
Tight(q, v, a) ==
  v # None /\ a # None =>
    \A i \in 2..Len(q) : IsKeyframe(q[i]) => q[i].dts > LowerOf(v, a) - target_delay

LEMMA RolledIsTight ==
  ASSUME target_delay \in Nat, NEW q \in Seq(Packets), NEW k \in 1..Len(q),
         NEW v \in Int \cup {None}, NEW a \in Int \cup {None},
         v = None \/ a = None \/ RollPoint(q, k, LowerOf(v, a) - target_delay)
  PROVE  Tight(From(q, k), v, a)
<1> SUFFICES ASSUME v # None, a # None, NEW i \in 2..Len(From(q, k)),
                    IsKeyframe(From(q, k)[i])
             PROVE  From(q, k)[i].dts > LowerOf(v, a) - target_delay
  BY DEF Tight
<1>1. LowerOf(v, a) - target_delay \in Int
  BY DEF LowerOf
<1> QED
  BY <1>1, RollIsTight

LEMMA TightWhenEmpty ==
  ASSUME NEW v, NEW a
  PROVE  Tight(<<>>, v, a)
<1>1. Len(<<>>) = 0
  BY EmptySeq
<1> QED BY <1>1 DEF Tight

TightInv == armed => Tight(buffered, video_watermark, audio_watermark)

LEMMA IngestKeepsTight ==
  ASSUME ControllerConstants, MediaInv, TightInv,
         NEW kind \in {"Video", "Audio"}, NEW key \in BOOLEAN, NEW raw \in Dts,
         Ingest(kind, key, raw)
  PROVE  TightInv'
<1>1. UNCHANGED <<armed, target_delay>>
  BY DEF Ingest, modeVars
<1>2. CASE ~armed
  BY <1>1, <1>2 DEF TightInv
<1>3. ASSUME NEW q, NEW w, NEW r, NEW v, NEW a, armed, SetError(q, w, r, v, a)
      PROVE  TightInv'
  BY <1>3, EmptySeq DEF SetError, TightInv, Tight
<1>4. ASSUME armed, UNCHANGED <<buffered, waterVars>>
      PROVE  TightInv'
  BY <1>1, <1>4 DEF TightInv, Tight, waterVars, LowerOf
<1>5. ASSUME armed, ~IngestUnrepresentable(raw)
      PROVE  TightInv'
  <2> DEFINE p == [kind |-> kind, key |-> key, dts |-> Normalized(raw),
                   vn |-> videos']
  <2>1. p \in Packets
    <3>1. videos' \in Nat
      BY DEF Ingest, MediaInv, TypeOK
    <3> QED BY <3>1, NormalizeTypes DEF Packets, MediaInv
  <2>2. \/ IngestPassed(p) \/ IngestBackwards(p) \/ IngestArmed(p)
        \/ IngestOverflow(p) \/ IngestPromoted(p)
    BY <1>5 DEF Ingest
  <2> HIDE DEF p
  <2>3. CASE IngestPassed(p)
    BY <1>4, <1>5, <2>3 DEF IngestPassed
  <2>4. CASE IngestBackwards(p)
    BY <1>3, <1>5, <2>4 DEF IngestBackwards
  <2>5. CASE IngestArmed(p)
    <3>1. PICK k \in DOMAIN Stored(p) : \E bytes :
            /\ Rolled(p, k)
            /\ \/ SetError(From(Stored(p), k), bytes, ReadyWith(p), VideoMark(p),
                           AudioMark(p))
               \/ /\ buffered' = From(Stored(p), k)
                  /\ video_watermark' = VideoMark(p)
                  /\ audio_watermark' = AudioMark(p)
      BY <2>5 DEF IngestArmed
    <3>2. PICK bytes :
            /\ \/ SetError(From(Stored(p), k), bytes, ReadyWith(p), VideoMark(p),
                           AudioMark(p))
               \/ /\ buffered' = From(Stored(p), k)
                  /\ video_watermark' = VideoMark(p)
                  /\ audio_watermark' = AudioMark(p)
      BY <3>1
    <3>3. CASE SetError(From(Stored(p), k), bytes, ReadyWith(p), VideoMark(p),
                        AudioMark(p))
      BY <1>3, <1>5, <3>3
    <3>4. CASE /\ buffered' = From(Stored(p), k)
               /\ video_watermark' = VideoMark(p)
               /\ audio_watermark' = AudioMark(p)
      <4>1. ~MovesBack(p) /\ Stored(p) \in Seq(Packets)
        BY <2>1, <2>5, StoredGood DEF IngestArmed, MediaInv, Good
      <4>2. k \in 1..Len(Stored(p))
        BY <4>1, DomainIsInterval
      <4>3. target_delay \in Nat /\ VideoMark(p) \in Int \cup {None}
            /\ AudioMark(p) \in Int \cup {None}
        BY <2>1, MarkTypes DEF MediaInv, TypeOK
      <4>4. Tight(From(Stored(p), k), VideoMark(p), AudioMark(p))
        <5>1. VideoMark(p) = None \/ AudioMark(p) = None
              \/ RollPoint(Stored(p), k,
                           LowerOf(VideoMark(p), AudioMark(p)) - target_delay)
          BY <3>1 DEF Rolled
        <5> QED BY <4>1, <4>2, <4>3, <5>1, RolledIsTight
      <4> QED BY <1>1, <3>4, <4>4 DEF TightInv, Tight
    <3> QED BY <3>2, <3>3, <3>4
  <2>6. CASE IngestOverflow(p) \/ IngestPromoted(p)
    BY <1>5, <2>6 DEF IngestOverflow, IngestPromoted
  <2> QED BY <2>2, <2>3, <2>4, <2>5, <2>6
<1>6. CASE armed /\ IngestUnrepresentable(raw)
  BY <1>3, <1>6 DEF IngestUnrepresentable
<1> QED BY <1>2, <1>5, <1>6

LEMMA ResumeLiveMakesTight ==
  ASSUME MediaInv, ResumeLive
  PROVE  TightInv'
<1>1. target_delay \in Nat /\ buffered \in Seq(Packets)
      /\ video_watermark \in Int \cup {None} /\ audio_watermark \in Int \cup {None}
  BY DEF MediaInv, TypeOK
<1>2. UNCHANGED <<target_delay, video_watermark, audio_watermark>>
  BY DEF ResumeLive, waterVars
<1>3. CASE video_watermark # None /\ audio_watermark # None /\ buffered # <<>>
  <2>1. PICK k \in DOMAIN buffered :
          /\ RollPoint(buffered, k,
               LowerOf(video_watermark, audio_watermark) - target_delay)
          /\ buffered' = From(buffered, k)
    BY <1>3 DEF ResumeLive
  <2>2. k \in 1..Len(buffered)
    BY <1>1, DomainIsInterval
  <2>3. Tight(From(buffered, k), video_watermark, audio_watermark)
    BY <1>1, <2>1, <2>2, RolledIsTight
  <2> QED BY <1>2, <2>1, <2>3 DEF TightInv, Tight
<1>4. CASE video_watermark = None \/ audio_watermark = None
  BY <1>2, <1>4 DEF TightInv, Tight
<1>5. CASE buffered = <<>>
  <2>1. buffered' = <<>>
    BY <1>5 DEF ResumeLive
  <2> QED BY <2>1, EmptySeq DEF TightInv, Tight
<1> QED BY <1>3, <1>4, <1>5

LEMMA TightInvNext ==
  ASSUME ControllerConstants, MediaInv, TightInv, [Next]_vars
  PROVE  TightInv'
<1>1. ASSUME UNCHANGED <<armed, target_delay, buffered, waterVars>>
      PROVE  TightInv'
  BY <1>1 DEF TightInv, Tight, waterVars, LowerOf
<1>2. CASE UNCHANGED vars
  BY <1>1, <1>2 DEF vars, modeVars, dataVars
<1>3. ASSUME NEW t \in Targets, Arm(t) PROVE TightInv'
  BY <1>3, EmptySeq DEF Arm, ClearBuffers, TightInv, Tight
<1>4. CASE \E t \in Targets : SetTargetRefused(t) \/ SetTargetDelay(t)
  BY <1>4 DEF SetTargetRefused, SetTargetDelay, TightInv
<1>5. CASE SetTargetLive
  BY <1>5 DEF SetTargetLive, TightInv
<1>6. CASE StartLive
  BY <1>1, <1>6 DEF StartLive
<1>7. CASE BeginBroadcast \/ Rewind
  BY <1>7 DEF BeginBroadcast, Rewind, PlayHistory, TightInv
<1>8. CASE ResumeLive
  BY <1>8, ResumeLiveMakesTight
<1>9. CASE ReturnLive \/ EmergencyDump \/ ResetForDiscontinuity
  BY <1>9 DEF ReturnLive, EmergencyDump, ResetForDiscontinuity, DropEverything,
     TightInv
<1>10. CASE BeginTimestampEpoch
  BY <1>1, <1>10 DEF BeginTimestampEpoch, modeVars, dataVars
<1>11. CASE TakeReadyPackets
  BY <1>1, <1>11 DEF TakeReadyPackets, modeVars
<1>12. ASSUME NEW kind \in {"Video", "Audio"}, NEW key \in BOOLEAN, NEW raw \in Dts,
              Ingest(kind, key, raw)
       PROVE  TightInv'
  BY <1>12, IngestKeepsTight
<1> QED
  BY <1>2, <1>3, <1>4, <1>5, <1>6, <1>7, <1>8, <1>9, <1>10, <1>11, <1>12 DEF Next

\* The armed history never reaches back further than the group of pictures a
\* rewind starts from, for every delay and every keyframe pattern.
THEOREM HistoryStaysTight == Spec => []HistoryTight
<1>1. Init => TightInv
  BY DEF Init, TightInv
<1>2. MediaInv /\ TightInv /\ [Next]_vars => TightInv'
  BY ControllerConstants, TightInvNext
<1>3. TightInv => HistoryTight
  BY DEF TightInv, Tight, HistoryTight
<1> QED BY <1>1, <1>2, <1>3, MediaInvInvariant, PTL DEF Spec

\* The four together: what the callers rely on holds for every delay, limit and
\* stream of packets, over any sequence of calls.
THEOREM HistoryStaysSound == Spec => []HistorySound
<1>1. BytesTrackHistory /\ HistoryInOrder /\ HistoryTight /\ ArmedIsSilent => HistorySound
  BY DEF HistorySound
<1> QED
  BY <1>1, BytesAreExact, HistoryIsInOrder, HistoryStaysTight, ArmedStaysSilent, PTL
-----------------------------------------------------------------------------
(* The broadcast's session.                                                 *)

\* No packet kept, and no mark, is newer than the last one taken in, whose
\* slot has passed; the marks do not run ahead of the history.
Clock ==
  /\ ~rebase_next /\ timestamp_offset = None /\ ~pending_trim /\ slot \in Int
  /\ last_input_dts # None => 2 * last_input_dts <= slot
  /\ video_watermark # None => last_input_dts # None /\ video_watermark <= last_input_dts
  /\ audio_watermark # None => last_input_dts # None /\ audio_watermark <= last_input_dts
  /\ buffered # <<>> =>
       /\ last_input_dts # None /\ buffered[Len(buffered)].dts <= last_input_dts
       /\ video_watermark # None /\ audio_watermark # None =>
            LowerOf(video_watermark, audio_watermark) <= buffered[Len(buffered)].dts

\* What the calls the broadcast makes can leave together.
Modes ==
  /\ target_delay = 0 => ~armed /\ ~passthrough /\ state = "Live" /\ buffered = <<>>
  /\ armed => /\ playback_delay = None
              /\ state # "Error" => (passthrough <=> state = "Live")
  /\ ~armed /\ target_delay # 0 => state # "Live" /\ ~passthrough
  /\ ~armed /\ state = "BuildingDelay" =>
       /\ playback_delay = None
       /\ buffered # <<>> => IsKeyframe(buffered[1])

SessionInv == MediaInv /\ AirInv /\ Clock /\ Modes

\* The history has no hole, and its pictures are numbered from 1.
HistoryInv ==
  state # "Error" => /\ Complete(buffered, videos)
                     /\ \A i \in Pictures(buffered) : 0 < buffered[i].vn

\* A viewer who has seen picture v can decode q.
Follows(q, v) ==
  /\ q # <<>> /\ v = 0 => IsKeyframe(q[1])
  /\ \A i \in Pictures(q) :
       /\ v < q[i].vn
       /\ \A j \in Pictures(q) : i < j => q[i].vn < q[j].vn
       /\ ~q[i].key => \/ \E j \in Pictures(q) : q[j].vn = q[i].vn - 1
                       \/ q[i].vn = v + 1
\* ... and has by then seen picture n, the last there is.
UpTo(q, v, n) ==
  /\ 0 < n /\ \A i \in Pictures(q) : q[i].vn <= n
  /\ v = n \/ \E i \in Pictures(q) : q[i].vn = n

Plays == state = "Delayed" /\ ~armed
Stream == IF Plays THEN ready \o buffered ELSE ready
\* Until the output's source changes, all that was taken in is in the stream,
\* or nothing of it yet.
PictureInv ==
  /\ Follows(Stream, sent)
  /\ Plays => UpTo(Stream, sent, videos)
  /\ armed /\ passthrough /\ state = "Live" =>
       IF waiting_for_live_keyframe THEN ready = <<>> /\ sent = 0
                                    ELSE UpTo(ready, sent, videos)
  /\ ~passthrough /\ ~Plays /\ state # "Error" => ready = <<>> /\ sent = 0

AgeInv ==
  Plays => /\ Limit >= target_delay
           /\ \A i \in DOMAIN ready : /\ last_input_dts # None
                                      /\ last_input_dts - ready[i].dts > Limit

-----------------------------------------------------------------------------
(* Sequences of pictures.                                                   *)

LEMMA PicturesAre ==
  ASSUME NEW q \in Seq(Packets)
  PROVE  /\ Len(q) \in Nat /\ DOMAIN q = 1..Len(q)
         /\ \A i \in 1..Len(q) : q[i] \in Packets /\ q[i].vn \in Nat /\ q[i].dts \in Int
         /\ \A i : i \in Pictures(q) <=> i \in 1..Len(q) /\ q[i].kind = "Video"
<1>1. Len(q) \in Nat /\ DOMAIN q = 1..Len(q)
  BY LenProperties
<1>2. \A i \in 1..Len(q) : q[i] \in Packets
  BY ElementOfSeq
<1> QED BY <1>1, <1>2 DEF Pictures, Packets

LEMMA PicturesOfAppend ==
  ASSUME NEW q \in Seq(Packets), NEW p \in Packets
  PROVE  /\ Append(q, p) \in Seq(Packets) /\ Append(q, p) # <<>>
         /\ Len(Append(q, p)) = Len(q) + 1
         /\ \A i \in 1..Len(q) : Append(q, p)[i] = q[i]
         /\ Append(q, p)[Len(q) + 1] = p
         /\ \A i : i \in Pictures(Append(q, p)) <=>
                     i \in Pictures(q) \/ (i = Len(q) + 1 /\ p.kind = "Video")
<1>1. /\ Append(q, p) \in Seq(Packets) /\ Append(q, p) # <<>>
      /\ Len(Append(q, p)) = Len(q) + 1
      /\ \A i \in 1..Len(q) : Append(q, p)[i] = q[i]
      /\ Append(q, p)[Len(q) + 1] = p
  BY AppendProperties
<1>2. \A i : i \in Pictures(q) <=> i \in 1..Len(q) /\ q[i].kind = "Video"
  BY PicturesAre
<1>3. \A i : i \in Pictures(Append(q, p)) <=>
        i \in 1..Len(Append(q, p)) /\ Append(q, p)[i].kind = "Video"
  BY <1>1, PicturesAre
<1>4. PICK n \in Nat : n = Len(q)
  BY PicturesAre
<1>5. \A i : i \in 1..(n + 1) <=> i \in 1..n \/ i = n + 1
  OBVIOUS
<1> QED BY <1>1, <1>2, <1>3, <1>4, <1>5

LEMMA PicturesOfConcat ==
  ASSUME NEW a \in Seq(Packets), NEW b \in Seq(Packets)
  PROVE  /\ a \o b \in Seq(Packets) /\ Len(a \o b) = Len(a) + Len(b)
         /\ \A i \in 1..Len(a) : (a \o b)[i] = a[i]
         /\ \A i \in 1..Len(b) : (a \o b)[Len(a) + i] = b[i]
         /\ \A i \in Pictures(a) : i \in Pictures(a \o b)
         /\ \A i \in Pictures(b) : Len(a) + i \in Pictures(a \o b)
         /\ \A i \in Pictures(a \o b) :
              \/ i \in Pictures(a)
              \/ i > Len(a) /\ i - Len(a) \in Pictures(b)
<1>1. PICK n \in Nat, m \in Nat : n = Len(a) /\ m = Len(b)
  BY PicturesAre
<1> DEFINE c == a \o b
<1>2. /\ c \in Seq(Packets) /\ Len(c) = n + m
      /\ \A i \in 1..(n + m) : c[i] = IF i <= n THEN a[i] ELSE b[i - n]
  BY <1>1, ConcatProperties
<1> HIDE DEF c
<1>3. \A i \in 1..n : c[i] = a[i]
  BY <1>2
<1>4. \A i \in 1..m : c[n + i] = b[i]
  <2>1. SUFFICES ASSUME NEW i \in 1..m PROVE c[n + i] = b[i]
    OBVIOUS
  <2>2. n + i \in 1..(n + m) /\ ~(n + i <= n) /\ (n + i) - n = i
    OBVIOUS
  <2> QED BY <1>2, <2>2
<1>5. /\ \A i : i \in Pictures(a) <=> i \in 1..n /\ a[i].kind = "Video"
      /\ \A i : i \in Pictures(b) <=> i \in 1..m /\ b[i].kind = "Video"
      /\ \A i : i \in Pictures(c) <=> i \in 1..(n + m) /\ c[i].kind = "Video"
  BY <1>1, <1>2, PicturesAre
<1>6. ASSUME NEW i \in Pictures(a) PROVE i \in Pictures(c)
  <2>1. i \in 1..n /\ a[i].kind = "Video"
    BY <1>5
  <2>2. i \in 1..(n + m) /\ c[i] = a[i]
    BY <1>3, <2>1
  <2> QED BY <1>5, <2>1, <2>2
<1>7. ASSUME NEW i \in Pictures(b) PROVE n + i \in Pictures(c)
  <2>1. i \in 1..m /\ b[i].kind = "Video"
    BY <1>5
  <2>2. n + i \in 1..(n + m) /\ c[n + i] = b[i]
    BY <1>4, <2>1
  <2> QED BY <1>5, <2>1, <2>2
<1>8. ASSUME NEW i \in Pictures(c)
      PROVE  i \in Pictures(a) \/ (i > n /\ i - n \in Pictures(b))
  <2>1. i \in 1..(n + m) /\ c[i].kind = "Video"
    BY <1>5
  <2>2. CASE i <= n
    <3>1. i \in 1..n /\ c[i] = a[i]
      BY <1>3, <2>1, <2>2
    <3> QED BY <1>5, <2>1, <3>1
  <2>3. CASE i > n
    <3>1. i - n \in 1..m /\ n + (i - n) = i
      BY <2>1, <2>3
    <3>2. b[i - n].kind = "Video"
      BY <1>4, <2>1, <3>1
    <3> QED BY <1>5, <2>3, <3>1, <3>2
  <2> QED BY <2>1, <2>2, <2>3
<1> QED BY <1>1, <1>2, <1>3, <1>4, <1>6, <1>7, <1>8 DEF c

LEMMA PicturesOfFrom ==
  ASSUME NEW q \in Seq(Packets), NEW k \in 1..(Len(q) + 1)
  PROVE  /\ From(q, k) \in Seq(Packets)
         /\ \A i \in Pictures(From(q, k)) :
              k + i - 1 \in Pictures(q) /\ From(q, k)[i] = q[k + i - 1]
         /\ \A j \in Pictures(q) : j >= k =>
              j - k + 1 \in Pictures(From(q, k)) /\ From(q, k)[j - k + 1] = q[j]
<1>1. PICK n \in Nat : n = Len(q)
  BY PicturesAre
<1>2. /\ From(q, k) \in Seq(Packets) /\ Len(From(q, k)) = n - k + 1
      /\ \A i \in 1..(n - k + 1) : From(q, k)[i] = q[k + i - 1]
  <2>1. /\ From(q, k) \in Seq(Packets) /\ Len(From(q, k)) = Len(q) - k + 1
        /\ \A i \in 1..Len(From(q, k)) : From(q, k)[i] = q[k + i - 1]
    BY FromProperties
  <2> QED BY <1>1, <2>1
<1>3. /\ \A i : i \in Pictures(q) <=> i \in 1..n /\ q[i].kind = "Video"
      /\ \A i : i \in Pictures(From(q, k)) <=>
                  i \in 1..(n - k + 1) /\ From(q, k)[i].kind = "Video"
  BY <1>1, <1>2, PicturesAre
<1>4. ASSUME NEW i \in Pictures(From(q, k))
      PROVE  k + i - 1 \in Pictures(q) /\ From(q, k)[i] = q[k + i - 1]
  <2>1. i \in 1..(n - k + 1) /\ k + i - 1 \in 1..n
    BY <1>1, <1>3
  <2> QED BY <1>2, <1>3, <2>1
<1>5. ASSUME NEW j \in Pictures(q), j >= k
      PROVE  j - k + 1 \in Pictures(From(q, k)) /\ From(q, k)[j - k + 1] = q[j]
  <2>1. j \in 1..n
    BY <1>3
  <2>2. j - k + 1 \in 1..(n - k + 1) /\ k + (j - k + 1) - 1 = j
    BY <1>1, <1>5, <2>1
  <2> QED BY <1>2, <1>3, <2>2
<1> QED BY <1>2, <1>4, <1>5

LEMMA NoPictures ==
  /\ Pictures(<<>>) = {} /\ <<>> \in Seq(Packets) /\ Len(<<>>) = 0
  /\ \A q \in Seq(Packets) : q # <<>> <=> Len(q) >= 1
<1>1. <<>> \in Seq(Packets) /\ Len(<<>>) = 0 /\ DOMAIN <<>> = 1..0
  BY EmptySeq, PicturesAre
<1>2. \A q \in Seq(Packets) : q # <<>> <=> Len(q) >= 1
  BY EmptySeq
<1> QED BY <1>1, <1>2 DEF Pictures

LEMMA CompleteEmpty == \A n : Complete(<<>>, n) /\ \A i \in Pictures(<<>>) : 0 < <<>>[i].vn
BY NoPictures DEF Complete

\* Giving up the oldest packets leaves no hole.
LEMMA CompleteFrom ==
  ASSUME NEW q \in Seq(Packets), NEW k \in 1..(Len(q) + 1), NEW n \in Nat,
         Complete(q, n), \A i \in Pictures(q) : 0 < q[i].vn
  PROVE  /\ Complete(From(q, k), n)
         /\ \A i \in Pictures(From(q, k)) : 0 < From(q, k)[i].vn
<1> DEFINE f == From(q, k)
<1>0. k \in Int /\ \A i \in Pictures(q) : i \in Int /\ q[i].vn \in Nat
  BY PicturesAre
<1>1. /\ f \in Seq(Packets)
      /\ \A i \in Pictures(f) : k + i - 1 \in Pictures(q) /\ f[i] = q[k + i - 1]
      /\ \A j \in Pictures(q) : j >= k => j - k + 1 \in Pictures(f) /\ f[j - k + 1] = q[j]
  BY PicturesOfFrom
<1>2. \A i \in Pictures(f) : i \in Int /\ i >= 1
  BY <1>1, PicturesAre
<1> HIDE DEF f
<1>3. ASSUME NEW i \in Pictures(f), NEW j \in Pictures(f), i < j
      PROVE  f[i].vn < f[j].vn
  <2>1. k + i - 1 < k + j - 1
    BY <1>0, <1>2, <1>3
  <2> QED BY <1>1, <2>1 DEF Complete
<1>4. ASSUME NEW i \in Pictures(f), NEW m \in f[i].vn..n
      PROVE  \E j \in Pictures(f) : f[j].vn = m
  <2>1. PICK j \in Pictures(q) : q[j].vn = m
    BY <1>1 DEF Complete
  <2>2. j >= k
    <3>1. SUFFICES ASSUME j < k + i - 1 PROVE FALSE
      BY <1>0, <1>2
    <3>2. q[j].vn < q[k + i - 1].vn
      BY <1>1, <3>1 DEF Complete
    <3> QED BY <1>0, <1>1, <2>1, <3>2
  <2> QED BY <1>1, <2>1, <2>2
<1>5. \A i \in Pictures(f) : 0 < f[i].vn /\ f[i].vn <= n
  BY <1>1 DEF Complete
<1>6. Complete(f, n)
  BY <1>3, <1>4, <1>5 DEF Complete
<1> QED BY <1>5, <1>6 DEF f

LEMMA CompleteAppend ==
  ASSUME NEW q \in Seq(Packets), NEW p \in Packets, NEW n \in Nat,
         NEW m \in Nat, Complete(q, n), \A i \in Pictures(q) : 0 < q[i].vn,
         IF p.kind = "Video" THEN m = n + 1 /\ p.vn = m ELSE m = n
  PROVE  /\ Complete(Append(q, p), m)
         /\ \A i \in Pictures(Append(q, p)) : 0 < Append(q, p)[i].vn
<1>0. PICK L \in Nat : L = Len(q)
  BY PicturesAre
<1> DEFINE a == Append(q, p)
<1>1. /\ \A i : i \in Pictures(a) <=> i \in Pictures(q) \/ (i = L + 1 /\ p.kind = "Video")
      /\ \A i \in 1..L : a[i] = q[i]
      /\ a[L + 1] = p
  BY <1>0, PicturesOfAppend
<1>2. \A i \in Pictures(q) : i \in 1..L /\ q[i].vn \in Nat
  BY <1>0, PicturesAre
<1>3. \A i \in Pictures(q) : a[i] = q[i] /\ i \in Pictures(a)
  BY <1>1, <1>2
<1> HIDE DEF a
<1>4. CASE p.kind # "Video"
  <2>1. Pictures(a) = Pictures(q) /\ m = n
    BY <1>1, <1>4
  <2> QED BY <1>3, <2>1 DEF Complete, a
<1>5. CASE p.kind = "Video"
  <2>1. m = n + 1 /\ a[L + 1].vn = n + 1 /\ L + 1 \in Pictures(a)
    BY <1>1, <1>5
  <2>2. \A i \in Pictures(q) : q[i].vn <= n
    BY DEF Complete
  <2>3. ASSUME NEW i \in Pictures(a), NEW j \in Pictures(a), i < j
        PROVE  a[i].vn < a[j].vn
    <3>1. i \in Pictures(q)
      BY <1>1, <1>2, <2>3
    <3>2. CASE j \in Pictures(q)
      BY <1>3, <2>3, <3>1, <3>2 DEF Complete
    <3>3. CASE j = L + 1
      BY <1>2, <1>3, <2>1, <2>2, <3>1, <3>3
    <3> QED BY <1>1, <3>2, <3>3
  <2>4. ASSUME NEW i \in Pictures(a), NEW x \in a[i].vn..m
        PROVE  \E j \in Pictures(a) : a[j].vn = x
    <3>1. CASE x = n + 1
      BY <2>1, <3>1
    <3>2. CASE x # n + 1
      <4>1. i \in Pictures(q)
        <5>1. i # L + 1
          BY <2>1, <3>2
        <5> QED BY <1>1, <5>1
      <4>2. x \in q[i].vn..n
        BY <1>2, <1>3, <2>1, <3>2, <4>1
      <4>3. PICK j \in Pictures(q) : q[j].vn = x
        BY <4>1, <4>2 DEF Complete
      <4> QED BY <1>3, <4>3
    <3> QED BY <3>1, <3>2
  <2>5. \A i \in Pictures(a) : 0 < a[i].vn /\ a[i].vn <= m
    BY <1>1, <1>2, <1>3, <2>1, <2>2
  <2> QED BY <2>3, <2>4, <2>5 DEF Complete, a
<1> QED BY <1>4, <1>5
-----------------------------------------------------------------------------
(* The viewer's stream.                                                     *)

LEMMA FollowsNothing == \A v : Follows(<<>>, v)
BY NoPictures DEF Follows

\* The first packet of a source is a keyframe.
LEMMA FollowsFirst ==
  ASSUME NEW p \in Packets, IsKeyframe(p), NEW n \in Nat, p.vn = n + 1
  PROVE  Follows(Append(<<>>, p), 0) /\ UpTo(Append(<<>>, p), 0, n + 1)
<1>1. /\ Append(<<>>, p)[1] = p
      /\ \A i : i \in Pictures(Append(<<>>, p)) <=> i = 1
  <2>1. <<>> \in Seq(Packets) /\ Len(<<>>) + 1 = 1 /\ Pictures(<<>>) = {}
    BY NoPictures
  <2>2. /\ Append(<<>>, p)[Len(<<>>) + 1] = p
        /\ \A i : i \in Pictures(Append(<<>>, p)) <=>
                    i \in Pictures(<<>>) \/ (i = Len(<<>>) + 1 /\ p.kind = "Video")
    BY <2>1, PicturesOfAppend
  <2> QED BY <2>1, <2>2 DEF IsKeyframe
<1> QED BY <1>1 DEF Follows, UpTo, IsKeyframe

LEMMA FollowsAppend ==
  ASSUME NEW q \in Seq(Packets), NEW v \in Nat, NEW n \in Nat, NEW m \in Nat,
         NEW p \in Packets, Follows(q, v), UpTo(q, v, n),
         IF p.kind = "Video" THEN m = n + 1 /\ p.vn = m ELSE m = n
  PROVE  Follows(Append(q, p), v) /\ UpTo(Append(q, p), v, m)
<1>0. PICK L \in Nat : L = Len(q)
  BY PicturesAre
<1> DEFINE a == Append(q, p)
<1>1. /\ \A i : i \in Pictures(a) <=> i \in Pictures(q) \/ (i = L + 1 /\ p.kind = "Video")
      /\ \A i \in 1..L : a[i] = q[i]
      /\ a[L + 1] = p
  BY <1>0, PicturesOfAppend
<1>2. \A i \in Pictures(q) : i \in 1..L /\ q[i].vn \in Nat
  BY <1>0, PicturesAre
<1>3. \A i \in Pictures(q) : a[i] = q[i] /\ i \in Pictures(a)
  BY <1>1, <1>2
<1> HIDE DEF a
<1>4. v <= n /\ 0 < n /\ \A i \in Pictures(q) : q[i].vn <= n
  <2>1. v = n \/ \E i \in Pictures(q) : q[i].vn = n
    BY DEF UpTo
  <2>2. \A i \in Pictures(q) : v < q[i].vn
    BY DEF Follows
  <2>3. v <= n
    BY <2>1, <2>2
  <2> QED BY <2>3 DEF UpTo
<1>5. a # <<>> /\ v = 0 => IsKeyframe(a[1])
  <2>1. SUFFICES ASSUME v = 0 PROVE IsKeyframe(a[1])
    OBVIOUS
  <2>2. q # <<>>
    BY <1>4, <2>1, NoPictures DEF UpTo
  <2>3. 1 \in 1..L
    BY <1>0, <2>2, NoPictures
  <2> QED BY <1>1, <2>1, <2>2, <2>3 DEF Follows
<1>6. CASE p.kind # "Video"
  <2>1. Pictures(a) = Pictures(q) /\ m = n
    BY <1>1, <1>6
  <2>2. Follows(a, v)
    BY <1>3, <1>5, <2>1 DEF Follows
  <2>3. UpTo(a, v, m)
    BY <1>3, <2>1 DEF UpTo
  <2> QED BY <2>2, <2>3 DEF a
<1>7. CASE p.kind = "Video"
  <2>1. m = n + 1 /\ a[L + 1].vn = n + 1 /\ L + 1 \in Pictures(a)
    BY <1>1, <1>7
  <2>2. ASSUME NEW i \in Pictures(a) PROVE v < a[i].vn /\ a[i].vn <= m
    <3>1. CASE i \in Pictures(q)
      BY <1>2, <1>3, <1>4, <2>1, <3>1 DEF Follows
    <3>2. CASE i = L + 1
      BY <1>4, <2>1, <3>2
    <3> QED BY <1>1, <3>1, <3>2
  <2>3. ASSUME NEW i \in Pictures(a), NEW j \in Pictures(a), i < j
        PROVE  a[i].vn < a[j].vn
    <3>1. i \in Pictures(q)
      BY <1>1, <1>2, <2>3
    <3>2. CASE j \in Pictures(q)
      BY <1>3, <2>3, <3>1, <3>2 DEF Follows
    <3>3. CASE j = L + 1
      <4>1. a[i].vn = q[i].vn /\ q[i].vn \in Nat /\ q[i].vn <= n
        BY <1>2, <1>3, <1>4, <3>1
      <4> QED BY <2>1, <3>3, <4>1
    <3> QED BY <1>1, <3>2, <3>3
  <2>4. ASSUME NEW i \in Pictures(a), ~a[i].key
        PROVE  (\E j \in Pictures(a) : a[j].vn = a[i].vn - 1) \/ a[i].vn = v + 1
    <3>1. CASE i \in Pictures(q)
      BY <1>3, <2>4, <3>1 DEF Follows
    <3>2. CASE i = L + 1
      <4>1. a[i].vn - 1 = n /\ a[i].vn = n + 1
        BY <2>1, <3>2
      <4>2. v = n \/ \E j \in Pictures(q) : q[j].vn = n
        BY DEF UpTo
      <4> QED BY <1>3, <4>1, <4>2
    <3> QED BY <1>1, <3>1, <3>2
  <2>5. Follows(a, v)
    BY <1>5, <2>2, <2>3, <2>4 DEF Follows
  <2>6. UpTo(a, v, m)
    BY <2>1, <2>2 DEF UpTo
  <2> QED BY <2>5, <2>6 DEF a
<1> QED BY <1>6, <1>7

\* A history without a hole that opens with a keyframe is a stream.
LEMMA FollowsHistory ==
  ASSUME NEW q \in Seq(Packets), NEW n \in Nat, q # <<>>, IsKeyframe(q[1]),
         Complete(q, n), \A i \in Pictures(q) : 0 < q[i].vn
  PROVE  Follows(q, 0) /\ UpTo(q, 0, n)
<1>1. /\ 1 \in Pictures(q)
      /\ \A i \in Pictures(q) : i \in Int /\ 1 <= i /\ q[i].vn \in Nat
  BY PicturesAre, NoPictures DEF IsKeyframe
<1>2. ASSUME NEW i \in Pictures(q), ~q[i].key
      PROVE  \E j \in Pictures(q) : q[j].vn = q[i].vn - 1
  <2>1. i # 1
    BY <1>2 DEF IsKeyframe
  <2>2. q[1].vn < q[i].vn /\ q[i].vn <= n
    BY <1>1, <2>1 DEF Complete
  <2>3. q[i].vn - 1 \in q[1].vn..n
    BY <1>1, <2>2
  <2> QED BY <1>1, <2>3 DEF Complete
<1>3. Follows(q, 0)
  BY <1>2 DEF Follows, Complete
<1>4. 0 < n /\ \E i \in Pictures(q) : q[i].vn = n
  <2>1. 0 < q[1].vn /\ q[1].vn <= n /\ n \in q[1].vn..n
    BY <1>1 DEF Complete
  <2> QED BY <1>1, <2>1 DEF Complete
<1> QED BY <1>3, <1>4 DEF UpTo, Complete

\* What is handed over is a stream in itself.
LEMMA FollowsPart ==
  ASSUME NEW a \in Seq(Packets), NEW b \in Seq(Packets), NEW v \in Nat,
         Follows(a \o b, v)
  PROVE  Follows(a, v)
<1> DEFINE c == a \o b
<1>0. PICK L \in Nat : L = Len(a)
  BY PicturesAre
<1>1. /\ \A i \in 1..L : c[i] = a[i]
      /\ \A i \in Pictures(a) : i \in Pictures(c)
      /\ \A i \in Pictures(c) : i \in Pictures(a) \/ i > L
      /\ c \in Seq(Packets) /\ Len(c) = L + Len(b)
  BY <1>0, PicturesOfConcat
<1> HIDE DEF c
<1>2. \A i \in Pictures(a) : i \in 1..L /\ c[i] = a[i]
  BY <1>0, <1>1, PicturesAre
<1>3. \A i \in Pictures(c) : i \in Int /\ c[i].vn \in Nat
  BY <1>1, PicturesAre
<1>4. a # <<>> /\ v = 0 => IsKeyframe(a[1])
  <2>1. SUFFICES ASSUME a # <<>>, v = 0 PROVE IsKeyframe(a[1])
    OBVIOUS
  <2>2. 1 \in 1..L /\ Len(b) \in Nat
    BY <1>0, <2>1, NoPictures, PicturesAre
  <2>3. c # <<>>
    BY <1>1, <2>2, NoPictures
  <2> QED BY <1>1, <2>1, <2>2, <2>3 DEF Follows, c
<1>5. ASSUME NEW i \in Pictures(a), ~a[i].key
      PROVE  (\E j \in Pictures(a) : a[j].vn = a[i].vn - 1) \/ a[i].vn = v + 1
  <2>1. (\E j \in Pictures(c) : c[j].vn = c[i].vn - 1) \/ c[i].vn = v + 1
    BY <1>1, <1>2, <1>5 DEF Follows, c
  <2>2. ASSUME NEW j \in Pictures(c), c[j].vn = c[i].vn - 1
        PROVE  \E x \in Pictures(a) : a[x].vn = a[i].vn - 1
    <3>1. CASE j > L
      <4>1. i < j
        BY <1>2, <1>3, <3>1
      <4>2. c[i].vn < c[j].vn
        BY <1>1, <4>1 DEF Follows, c
      <4> QED BY <1>1, <1>3, <2>2, <4>2
    <3>2. CASE j \in Pictures(a)
      BY <1>2, <2>2, <3>2
    <3> QED BY <1>1, <3>1, <3>2
  <2> QED BY <1>2, <2>1, <2>2
<1>6. ASSUME NEW i \in Pictures(a)
      PROVE  v < a[i].vn /\ \A j \in Pictures(a) : i < j => a[i].vn < a[j].vn
  BY <1>1, <1>2 DEF Follows, c
<1> QED BY <1>4, <1>5, <1>6 DEF Follows
LEMMA LastVideoIs ==
  ASSUME NEW q \in Seq(Packets), NEW v
  PROVE  \/ Pictures(q) = {} /\ LastVideo(q, v) = v
         \/ \E m \in Pictures(q) : /\ \A j \in Pictures(q) : j <= m
                                   /\ LastVideo(q, v) = q[m].vn
<1> DEFINE V == {i \in DOMAIN q : q[i].kind = "Video"}
           m == CHOOSE i \in V : \A j \in V : j <= i
<1>1. V = Pictures(q)
  BY DEF Pictures
<1>2. CASE V = {}
  BY <1>1, <1>2 DEF LastVideo
<1>3. CASE V # {}
  <2>1. DOMAIN q = 1..Len(q) /\ Len(q) \in Nat
    BY PicturesAre
  <2>2. \E i \in V : \A j \in V : j <= i
    BY <1>3, <2>1, IntervalMaximum
  <2>3. m \in V /\ \A j \in V : j <= m
    BY <2>2
  <2>4. LastVideo(q, v) = q[m].vn
    BY <1>3 DEF LastVideo
  <2> QED BY <1>1, <2>3, <2>4
<1> QED BY <1>2, <1>3

\* The newest picture of what was handed over, when it is up to date.
LEMMA LastOfStream ==
  ASSUME NEW q \in Seq(Packets), NEW v \in Nat, Follows(q, v)
  PROVE  /\ LastVideo(q, v) \in Nat /\ v <= LastVideo(q, v)
         /\ \A i \in Pictures(q) : q[i].vn <= LastVideo(q, v)
         /\ LastVideo(q, v) = v \/ \E i \in Pictures(q) : q[i].vn = LastVideo(q, v)
<1>1. \A i \in Pictures(q) : i \in Int /\ q[i].vn \in Nat /\ v < q[i].vn
  BY PicturesAre DEF Follows
<1>2. CASE Pictures(q) = {} /\ LastVideo(q, v) = v
  BY <1>2
<1>3. ASSUME NEW m \in Pictures(q), \A j \in Pictures(q) : j <= m,
             LastVideo(q, v) = q[m].vn
      PROVE  /\ v <= LastVideo(q, v)
             /\ \A i \in Pictures(q) : q[i].vn <= LastVideo(q, v)
  <2>1. ASSUME NEW i \in Pictures(q) PROVE q[i].vn <= q[m].vn
    <3>1. CASE i = m
      BY <1>1, <3>1
    <3>2. CASE i < m
      BY <1>1, <3>2 DEF Follows
    <3> QED BY <1>1, <1>3, <3>1, <3>2
  <2> QED BY <1>1, <1>3, <2>1
<1>4. LastVideo(q, v) \in Nat
  BY <1>1, LastVideoIs
<1> QED BY <1>1, <1>2, <1>3, <1>4, LastVideoIs

\* The viewer goes on where take_ready_packets left.
LEMMA FollowsRest ==
  ASSUME NEW a \in Seq(Packets), NEW b \in Seq(Packets), NEW v \in Nat, a # <<>>,
         Follows(a \o b, v)
  PROVE  /\ Follows(b, LastVideo(a, v))
         /\ \A n \in Nat : UpTo(a \o b, v, n) => UpTo(b, LastVideo(a, v), n)
<1> DEFINE c == a \o b
           w == LastVideo(a, v)
<1>0. PICK L \in Nat : L = Len(a)
  BY PicturesAre
<1>1. /\ c \in Seq(Packets)
      /\ \A i \in 1..Len(b) : c[L + i] = b[i]
      /\ \A i \in Pictures(a) : i \in Pictures(c)
      /\ \A i \in Pictures(b) : L + i \in Pictures(c)
      /\ \A i \in Pictures(c) : i \in Pictures(a) \/ (i > L /\ i - L \in Pictures(b))
      /\ \A i \in 1..L : c[i] = a[i]
  BY <1>0, PicturesOfConcat
<1>2. Follows(a, v)
  BY FollowsPart
<1>3. /\ w \in Nat /\ v <= w
      /\ \A i \in Pictures(a) : a[i].vn <= w
      /\ w = v \/ \E i \in Pictures(a) : a[i].vn = w
  BY <1>2, LastOfStream
<1>f. Follows(c, v)
  OBVIOUS
<1> HIDE DEF c, w
<1>4. \A i \in Pictures(c) : i \in Int /\ c[i].vn \in Nat
  BY <1>1, PicturesAre
<1>5. \A i \in Pictures(b) : /\ i \in Nat /\ i >= 1 /\ i \in 1..Len(b) /\ c[L + i] = b[i]
                             /\ L + i \in Pictures(c)
  BY <1>1, PicturesAre
<1>6. \A i \in Pictures(a) : i \in 1..L /\ c[i] = a[i] /\ i \in Pictures(c)
  BY <1>0, <1>1, PicturesAre
<1>7. ASSUME NEW i \in Pictures(b)
      PROVE  /\ w < b[i].vn
             /\ \A j \in Pictures(b) : i < j => b[i].vn < b[j].vn
  <2>1. v < c[L + i].vn /\ \A j \in Pictures(c) : L + i < j => c[L + i].vn < c[j].vn
    BY <1>5, <1>f DEF Follows
  <2>2. \A j \in Pictures(a) : a[j].vn < b[i].vn
    <3>1. SUFFICES ASSUME NEW j \in Pictures(a) PROVE c[j].vn < c[L + i].vn
      BY <1>5, <1>6
    <3>2. j < L + i
      BY <1>5, <1>6
    <3> QED BY <1>5, <1>6, <1>f, <3>2 DEF Follows
  <2>3. w < b[i].vn
    BY <1>3, <1>5, <2>1, <2>2
  <2>4. ASSUME NEW j \in Pictures(b), i < j PROVE b[i].vn < b[j].vn
    <3>1. L + i < L + j
      BY <1>5, <2>4
    <3> QED BY <1>5, <2>1, <3>1
  <2> QED BY <2>3, <2>4
<1>8. ASSUME NEW i \in Pictures(b), ~b[i].key
      PROVE  (\E j \in Pictures(b) : b[j].vn = b[i].vn - 1) \/ b[i].vn = w + 1
  <2>1. (\E j \in Pictures(c) : c[j].vn = c[L + i].vn - 1) \/ c[L + i].vn = v + 1
    BY <1>5, <1>8, <1>f DEF Follows
  <2>2. b[i].vn \in Nat /\ w < b[i].vn
    BY <1>4, <1>5, <1>7
  <2>3. CASE c[L + i].vn = v + 1
    BY <1>3, <1>5, <2>2, <2>3
  <2>4. ASSUME NEW j \in Pictures(c), c[j].vn = c[L + i].vn - 1
        PROVE  (\E x \in Pictures(b) : b[x].vn = b[i].vn - 1) \/ b[i].vn = w + 1
    <3>1. CASE j \in Pictures(a)
      <4>1. b[i].vn - 1 <= w
        BY <1>3, <1>5, <1>6, <2>4, <3>1
      <4> QED BY <1>3, <2>2, <4>1
    <3>2. CASE j > L /\ j - L \in Pictures(b)
      <4>1. L + (j - L) = j
        BY <1>4
      <4>2. c[j] = b[j - L]
        BY <1>5, <3>2, <4>1
      <4> QED BY <1>5, <2>4, <3>2, <4>2
    <3> QED BY <1>1, <3>1, <3>2
  <2> QED BY <2>1, <2>3, <2>4
<1>9. b # <<>> /\ w = 0 => IsKeyframe(b[1])
  <2>1. SUFFICES ASSUME w = 0 PROVE FALSE
    OBVIOUS
  <2>2. v = 0
    BY <1>3, <2>1
  <2>3. IsKeyframe(a[1]) /\ 1 \in 1..Len(a)
    BY <1>0, <1>2, <2>2, NoPictures DEF Follows
  <2>4. 1 \in Pictures(a)
    BY <2>3, PicturesAre DEF IsKeyframe
  <2>5. v < a[1].vn
    BY <1>2, <2>4 DEF Follows
  <2> QED BY <1>3, <1>4, <1>6, <2>1, <2>2, <2>4, <2>5
<1>10. ASSUME NEW n \in Nat, UpTo(c, v, n) PROVE UpTo(b, w, n)
  <2>1. 0 < n /\ \A i \in Pictures(b) : b[i].vn <= n
    BY <1>5, <1>10 DEF UpTo
  <2>2. w <= n
    <3>1. CASE w = v
      <4>1. v = n \/ \E i \in Pictures(c) : c[i].vn = n
        BY <1>10 DEF UpTo
      <4>2. \A i \in Pictures(c) : v < c[i].vn
        BY <1>f DEF Follows
      <4> QED BY <3>1, <4>1, <4>2
    <3>2. CASE \E i \in Pictures(a) : a[i].vn = w
      BY <1>6, <1>10, <3>2 DEF UpTo
    <3> QED BY <1>3, <3>1, <3>2
  <2>3. w = n \/ \E i \in Pictures(b) : b[i].vn = n
    <3>1. CASE v = n
      BY <1>3, <2>2, <3>1
    <3>2. ASSUME NEW i \in Pictures(c), c[i].vn = n
          PROVE  w = n \/ \E j \in Pictures(b) : b[j].vn = n
      <4>1. CASE i \in Pictures(a)
        BY <1>3, <1>6, <2>2, <3>2, <4>1
      <4>2. CASE i > L /\ i - L \in Pictures(b)
        <5>1. L + (i - L) = i
          BY <1>4
        <5> QED BY <1>5, <3>2, <4>2, <5>1
      <4> QED BY <1>1, <4>1, <4>2
    <3> QED BY <1>10, <3>1, <3>2 DEF UpTo
  <2> QED BY <2>1, <2>3 DEF UpTo
<1>11. Follows(b, w)
  BY <1>7, <1>8, <1>9 DEF Follows
<1> QED BY <1>10, <1>11 DEF c, w

\* A stream decodes: the reference of a dependent picture is the last before it.
LEMMA FollowsDecodes ==
  ASSUME NEW q \in Seq(Packets), NEW v \in Nat, Follows(q, v)
  PROVE  Decodable(q, v)
<1>1. /\ Len(q) \in Nat /\ DOMAIN q = 1..Len(q)
      /\ \A i : i \in Pictures(q) <=> i \in 1..Len(q) /\ q[i].kind = "Video"
      /\ \A i \in Pictures(q) : q[i].vn \in Nat
  BY PicturesAre
<1>2. ASSUME NEW i \in 1..Len(q), q[i].kind = "Video", ~q[i].key
      PROVE  q[i].vn = LastVideo(SubSeq(q, 1, i - 1), v) + 1
  <2> DEFINE a == SubSeq(q, 1, i - 1)
             b == SubSeq(q, i, Len(q))
  <2>1. a \o b = q
    <3>1. 1 \in 1..(Len(q) + 1) /\ i - 1 \in (1 - 1)..Len(q) /\ Len(q) \in (i - 1)..Len(q)
      BY <1>1
    <3>2. SubSeq(q, 1, i - 1) \o SubSeq(q, (i - 1) + 1, Len(q)) = SubSeq(q, 1, Len(q))
      BY <3>1, ConcatAdjacentSubSeq
    <3>3. (i - 1) + 1 = i
      BY <1>1
    <3> QED BY <3>2, <3>3, SubSeqFull
  <2>2. a \in Seq(Packets) /\ Len(a) = i - 1
    <3>1. \A j \in 1..(i - 1) : q[j] \in Packets
      BY <1>1, PicturesAre
    <3>2. i - 1 \in Int /\ (i - 1) - 1 + 1 = i - 1 /\ (~(1 <= i - 1) => i - 1 = 0)
      BY <1>1
    <3>3. /\ SubSeq(q, 1, i - 1) \in Seq(Packets)
          /\ Len(SubSeq(q, 1, i - 1)) = IF 1 <= i - 1 THEN (i - 1) - 1 + 1 ELSE 0
      BY <3>1, <3>2, SubSeqProperties
    <3> QED BY <3>2, <3>3
  <2>3. b \in Seq(Packets)
    <3>1. \A j \in i..Len(q) : q[j] \in Packets
      BY <1>1, PicturesAre
    <3>2. i \in Int /\ Len(q) \in Int
      BY <1>1
    <3> QED BY <3>1, <3>2, SubSeqProperties
  <2> HIDE DEF a, b
  <2>4. Follows(a, v)
    BY <2>1, <2>2, <2>3, FollowsPart
  <2>5. /\ LastVideo(a, v) \in Nat /\ v <= LastVideo(a, v)
        /\ \A j \in Pictures(a) : a[j].vn <= LastVideo(a, v)
        /\ LastVideo(a, v) = v \/ \E j \in Pictures(a) : a[j].vn = LastVideo(a, v)
    BY <2>2, <2>4, LastOfStream
  <2>6. /\ \A j \in 1..(i - 1) : q[j] = a[j]
        /\ \A j \in Pictures(a) : j \in Pictures(q)
    <3>1. /\ \A j \in 1..Len(a) : (a \o b)[j] = a[j]
          /\ \A j \in Pictures(a) : j \in Pictures(a \o b)
      BY <2>2, <2>3, PicturesOfConcat
    <3> QED BY <2>1, <2>2, <3>1
  <2>7. \A j : j \in Pictures(a) <=> j \in 1..(i - 1) /\ a[j].kind = "Video"
    BY <2>2, PicturesAre
  <2>8. i \in Pictures(q)
    BY <1>1, <1>2
  <2>9. LastVideo(a, v) < q[i].vn
    <3>1. v < q[i].vn
      BY <2>8 DEF Follows
    <3>2. ASSUME NEW j \in Pictures(a) PROVE a[j].vn < q[i].vn
      <4>1. j < i /\ j \in Pictures(q) /\ q[j] = a[j]
        BY <1>1, <2>6, <2>7
      <4> QED BY <2>8, <4>1 DEF Follows
    <3> QED BY <2>5, <3>1, <3>2
  <2>10. q[i].vn <= LastVideo(a, v) + 1
    <3>1. q[i].vn \in Nat
      BY <1>1, <2>8
    <3>2. CASE q[i].vn = v + 1
      BY <2>5, <3>2
    <3>3. ASSUME NEW j \in Pictures(q), q[j].vn = q[i].vn - 1
          PROVE  q[i].vn <= LastVideo(a, v) + 1
      <4>1. j < i
        <5>1. j \in Int /\ i \in Int /\ q[j].vn \in Nat
          BY <1>1
        <5>2. ~(i < j)
          <6>1. SUFFICES ASSUME i < j PROVE FALSE
            OBVIOUS
          <6>2. q[i].vn < q[j].vn
            BY <2>8, <6>1 DEF Follows
          <6> QED BY <3>1, <3>3, <5>1, <6>2
        <5>3. i # j
          BY <3>1, <3>3
        <5> QED BY <5>1, <5>2, <5>3
      <4>2. j \in 1..(i - 1) /\ q[j].kind = "Video"
        BY <1>1, <4>1
      <4>3. j \in Pictures(a) /\ a[j] = q[j]
        BY <2>6, <2>7, <4>2
      <4> QED BY <2>5, <3>1, <3>3, <4>3
    <3> QED BY <1>2, <2>8, <3>2, <3>3 DEF Follows
  <2>11. q[i].vn = LastVideo(a, v) + 1
    BY <1>1, <2>5, <2>8, <2>9, <2>10
  <2> QED BY <2>11 DEF a
<1>3. q # <<>> /\ v = 0 => IsKeyframe(q[1])
  BY DEF Follows
<1> QED BY <1>1, <1>2, <1>3 DEF Decodable
-----------------------------------------------------------------------------
(* What a packet of the programme does to the controller.                   *)

\* The packet is taken as it comes: the session never shifts its clock.
Takes(p) ==
  /\ p \in Packets /\ state # "Error" /\ target_delay # 0
  /\ p.vn = videos'
  /\ videos' = IF p.kind = "Video" THEN videos + 1 ELSE videos
  /\ p.kind \in {"Video", "Audio"}
  /\ UNCHANGED <<modeVars, sent>>
  /\ rebase_next' = FALSE /\ timestamp_offset' = None
  /\ last_input_dts' = p.dts
  /\ last_input_dts # None => last_input_dts <= p.dts
  /\ slot' \in Int /\ 2 * p.dts <= slot'
  /\ IF state = "Live"
     THEN waiting_for_live_keyframe' = (waiting_for_live_keyframe /\ ~IsKeyframe(p))
     ELSE UNCHANGED liveVars
  /\ \/ IngestPassed(p) \/ IngestBackwards(p) \/ IngestArmed(p)
     \/ IngestOverflow(p) \/ IngestPromoted(p)

LEMMA ProgrammeTakes ==
  ASSUME ControllerConstants, SlotConstants, SessionInv,
         NEW s \in 0..LastSlot, NEW key \in BOOLEAN, Programme(s, key)
  PROVE  \E p : Takes(p)
<1> DEFINE kind == IF s % 2 = 0 THEN "Video" ELSE "Audio"
           raw == s \div 2
           p == [kind |-> kind, key |-> key, dts |-> raw, vn |-> videos']
<1>1. raw \in Dts /\ raw \in Int /\ raw \in Int64
  BY DEF SlotConstants, ControllerConstants
<1>2. 2 * raw <= s /\ s < 2 * raw + 2 /\ s \in Int
  BY DEF SlotConstants
<1>3. kind \in {"Video", "Audio"}
  OBVIOUS
<1>4. Ingest(kind, key, raw) /\ slot' = s /\ target_delay # 0 /\ slot < s
  BY DEF Programme, SessionInv, Clock
<1> HIDE DEF kind, raw
<1>5. ~rebase_next /\ timestamp_offset = None /\ None \notin Int
  BY DEF SessionInv, Clock, ControllerConstants
<1>6. NextOffset(raw) = None /\ Normalized(raw) = raw /\ TimestampFits(raw)
  BY <1>1, <1>5 DEF NextOffset, Normalized, TimestampFits, OffsetFits, Rebases
<1>7. /\ state # "Error" /\ (kind = "Audio" => ~key) /\ rebase_next' = FALSE
      /\ videos' = IF kind = "Video" THEN videos + 1 ELSE videos
      /\ UNCHANGED <<modeVars, sent>>
      /\ timestamp_offset' = NextOffset(raw)
      /\ last_input_dts' = p.dts
      /\ IF state = "Live"
         THEN /\ waiting_for_live_keyframe' =
                   (waiting_for_live_keyframe /\ ~IsKeyframe(p))
              /\ live_keyframe_dts' = LiveFrom(p)
         ELSE UNCHANGED liveVars
      /\ \/ IngestPassed(p) \/ IngestBackwards(p) \/ IngestArmed(p)
         \/ IngestOverflow(p) \/ IngestPromoted(p)
  BY <1>4, <1>6 DEF Ingest, IngestUnrepresentable
<1>8. videos \in Nat /\ videos' \in Nat
  BY <1>7 DEF SessionInv, MediaInv, TypeOK
<1>9. p \in Packets
  BY <1>1, <1>3, <1>8 DEF Packets
<1>10. last_input_dts # None => last_input_dts <= raw
  <2>1. SUFFICES ASSUME last_input_dts # None PROVE last_input_dts <= raw
    OBVIOUS
  <2>2. last_input_dts \in Int /\ slot \in Int /\ 2 * last_input_dts <= slot
    BY <2>1 DEF SessionInv, MediaInv, TypeOK, Clock
  <2> QED BY <1>1, <1>2, <1>4, <2>2
<1>11. Takes(p)
  BY <1>1, <1>2, <1>3, <1>4, <1>6, <1>7, <1>9, <1>10 DEF Takes
<1> QED BY <1>11

\* The calls of the session are calls of the controller.
LEMMA SessionCalls ==
  ASSUME SlotConstants, [SessionNext]_sessionVars
  PROVE  [Next]_vars
<1>1. CASE UNCHANGED sessionVars
  BY <1>1 DEF sessionVars
<1>2. ASSUME NEW t \in Targets, StartCapture(t) PROVE Next
  BY <1>2 DEF StartCapture, Next
<1>3. ASSUME NEW s \in 0..LastSlot, NEW key \in BOOLEAN, Programme(s, key) PROVE Next
  <2>1. s \div 2 \in Dts /\ (IF s % 2 = 0 THEN "Video" ELSE "Audio") \in {"Video", "Audio"}
    BY DEF SlotConstants
  <2>2. Ingest(IF s % 2 = 0 THEN "Video" ELSE "Audio", key, s \div 2)
    BY <1>3 DEF Programme
  <2> QED BY <2>1, <2>2 DEF Next
<1>4. CASE GoLive \/ TakeReady \/ StartDelay \/ GoBackLive \/ Dump \/ StopCapture
  BY <1>4 DEF GoLive, TakeReady, StartDelay, GoBackLive, Dump, StopCapture, Next
<1> QED BY <1>1, <1>2, <1>3, <1>4 DEF SessionNext

\* Every packet kept is stored last; what is left after a cut ends with it.
LEMMA StoredIs ==
  ASSUME MediaInv, NEW p \in Packets
  PROVE  /\ Stored(p) \in Seq(Packets) /\ Len(Stored(p)) = Len(buffered) + 1
         /\ Len(buffered) \in Nat
         /\ Stored(p)[Len(Stored(p))] = p
         /\ buffered = <<>> => Stored(p)[1] = p
         /\ buffered # <<>> => Stored(p)[1] = buffered[1]
         /\ From(Stored(p), 1) = Stored(p)
<1>1. buffered \in Seq(Packets) /\ Len(buffered) \in Nat
  BY LenProperties DEF MediaInv, TypeOK
<1>2. /\ Append(buffered, p) \in Seq(Packets)
      /\ Len(Append(buffered, p)) = Len(buffered) + 1
      /\ \A i \in 1..Len(buffered) : Append(buffered, p)[i] = buffered[i]
      /\ Append(buffered, p)[Len(buffered) + 1] = p
  BY <1>1, AppendProperties
<1>3. buffered = <<>> => Len(buffered) = 0
  BY NoPictures
<1>4. buffered # <<>> => 1 \in 1..Len(buffered)
  BY <1>1, NoPictures
<1>5. SubSeq(Append(buffered, p), 1, Len(Append(buffered, p))) = Append(buffered, p)
  BY <1>2, SubSeqFull
<1> QED BY <1>1, <1>2, <1>3, <1>4, <1>5 DEF Stored, From

LEMMA EndsWithLast ==
  ASSUME NEW q \in Seq(Packets), NEW k \in 1..Len(q)
  PROVE  /\ From(q, k) \in Seq(Packets) /\ From(q, k) # <<>>
         /\ From(q, k)[Len(From(q, k))] = q[Len(q)]
         /\ From(q, k)[1] = q[k]
<1>1. PICK n \in Nat : n = Len(q)
  BY LenProperties
<1>2. /\ From(q, k) \in Seq(Packets) /\ Len(From(q, k)) = n - k + 1
      /\ \A i \in 1..Len(From(q, k)) : From(q, k)[i] = q[k + i - 1]
  <2>1. k \in 1..(Len(q) + 1)
    BY <1>1
  <2> QED BY <1>1, <2>1, FromProperties
<1>3. n - k + 1 \in 1..(n - k + 1) /\ 1 \in 1..(n - k + 1)
      /\ k + (n - k + 1) - 1 = n /\ k + 1 - 1 = k
  BY <1>1
<1>4. From(q, k) # <<>>
  BY <1>2, <1>3, NoPictures
<1> QED BY <1>1, <1>2, <1>3, <1>4

\* The packet is not behind the history.
LEMMA NeverBack ==
  ASSUME SessionInv, NEW p, Takes(p)
  PROVE  ~MovesBack(p)
<1>1. SUFFICES ASSUME buffered # <<>> PROVE ~(p.dts < buffered[Len(buffered)].dts)
  BY DEF MovesBack
<1>2. /\ last_input_dts # None /\ last_input_dts \in Int
      /\ buffered[Len(buffered)].dts <= last_input_dts
  BY <1>1 DEF SessionInv, Clock, MediaInv, TypeOK
<1>3. last_input_dts <= p.dts /\ p.dts \in Int
  BY <1>2 DEF Takes, Packets
<1>4. buffered[Len(buffered)].dts \in Int
  <2>1. Len(buffered) \in 1..Len(buffered) /\ buffered \in Seq(Packets)
    BY <1>1, NoPictures, LenProperties DEF SessionInv, MediaInv, TypeOK
  <2> QED BY <2>1, PicturesAre
<1> QED BY <1>2, <1>3, <1>4
-----------------------------------------------------------------------------
(* What a packet of the programme leads to.                                 *)

Marks(p) ==
  video_watermark' = VideoMark(p) /\ audio_watermark' = AudioMark(p) /\ ~pending_trim'
\* It opens nothing: there is no history and it is not a keyframe.
Passes(p) ==
  /\ buffered = <<>> /\ buffered' = <<>>
  /\ armed \/ state = "BuildingDelay"
  /\ ready' = ReadyWith(p)
  /\ UNCHANGED <<video_watermark, audio_watermark, state, pending_trim>>
Fails(p) ==
  /\ state' = "Error" /\ ~pending_trim'
  /\ IF armed THEN /\ buffered' = <<>> /\ ready' = <<>>
                   /\ video_watermark' = None /\ audio_watermark' = None
              ELSE buffered' = Stored(p) /\ ready' = ready /\ Marks(p)
Rolls(p) ==
  /\ armed /\ Marks(p) /\ ready' = ReadyWith(p)
  /\ \E k \in 1..Len(Stored(p)) : Rolled(p, k) /\ buffered' = From(Stored(p), k)
  /\ state' = RolledState(p, buffered')
Waits(p) ==
  /\ ~armed /\ state = "BuildingDelay" /\ state' = state /\ Marks(p)
  /\ buffered' = Stored(p) /\ ready' = ready /\ IsKeyframe(Stored(p)[1])
Releases(p) ==
  /\ ~armed /\ state \in {"BuildingDelay", "Delayed"} /\ state' = "Delayed" /\ Marks(p)
  /\ state = "BuildingDelay" => IsKeyframe(Stored(p)[1])
  /\ \E r \in 1..(Len(Stored(p)) + 1) :
       /\ ReleasePoint(Stored(p), r, Limit)
       /\ ready' = ready \o SubSeq(Stored(p), 1, r - 1)
       /\ buffered' = From(Stored(p), r)

LEMMA SessionModes ==
  ASSUME SessionInv, target_delay # 0, state # "Error"
  PROVE  /\ armed => (passthrough <=> state = "Live")
         /\ ~armed => ~passthrough /\ state \in {"BuildingDelay", "Delayed"}
         /\ \A p : ~(state = "Live") => ReadyWith(p) = ready
<1>1. state \in States
  BY DEF SessionInv, MediaInv, TypeOK
<1>2. \A p : ~(state = "Live") => ReadyWith(p) = ready
  BY DEF ReadyWith, Emits
<1> QED BY <1>1, <1>2 DEF SessionInv, Modes, States

\* Unarmed, the history opens with a keyframe until playback starts.
LEMMA StoredOpens ==
  ASSUME SessionInv, NEW p, Takes(p), Keeps(p), ~armed, state = "BuildingDelay"
  PROVE  IsKeyframe(Stored(p)[1])
<1>1. MediaInv /\ p \in Packets
  BY DEF SessionInv, Takes
<1>2. CASE buffered = <<>>
  BY <1>1, <1>2, StoredIs DEF Keeps
<1>3. CASE buffered # <<>>
  <2>1. IsKeyframe(buffered[1])
    BY <1>3 DEF SessionInv, Modes, Takes
  <2> QED BY <1>1, <1>3, <2>1, StoredIs
<1> QED BY <1>2, <1>3

LEMMA PassedPasses ==
  ASSUME SessionInv, NEW p, Takes(p), IngestPassed(p)
  PROVE  Passes(p)
<1>1. /\ armed => (passthrough <=> state = "Live")
      /\ ~armed => ~passthrough /\ state \in {"BuildingDelay", "Delayed"}
  BY SessionModes DEF Takes
<1> QED BY <1>1 DEF IngestPassed, Keeps, Passes, waterVars

LEMMA ArmedOutcome ==
  ASSUME SessionInv, NEW p, Takes(p), IngestArmed(p)
  PROVE  Rolls(p) \/ Fails(p)
<1>1. MediaInv /\ p \in Packets /\ ~pending_trim /\ pending_trim' = pending_trim /\ armed
  BY DEF SessionInv, Takes, Clock, IngestArmed
<1>2. Stored(p) \in Seq(Packets)
  BY <1>1, StoredIs
<1>3. PICK k \in DOMAIN Stored(p) :
        LET kept == From(Stored(p), k)
            bytes == buffered_bytes + 1 - (k - 1)
        IN  /\ Rolled(p, k)
            /\ IF OverBudget(kept, bytes)
               THEN SetError(kept, bytes, ReadyWith(p), VideoMark(p), AudioMark(p))
               ELSE /\ buffered' = kept /\ buffered_bytes' = bytes
                    /\ ready' = ReadyWith(p)
                    /\ state' = RolledState(p, kept)
                    /\ video_watermark' = VideoMark(p)
                    /\ audio_watermark' = AudioMark(p)
  BY DEF IngestArmed
<1>4. k \in 1..Len(Stored(p))
  BY <1>2, <1>3, DomainIsInterval
<1>5. CASE OverBudget(From(Stored(p), k), buffered_bytes + 1 - (k - 1))
  BY <1>1, <1>3, <1>5 DEF SetError, Fails
<1>6. CASE ~OverBudget(From(Stored(p), k), buffered_bytes + 1 - (k - 1))
  BY <1>1, <1>3, <1>4, <1>6 DEF Rolls, Marks
<1> QED BY <1>5, <1>6

LEMMA OverflowFails ==
  ASSUME SessionInv, NEW p, Takes(p), IngestOverflow(p)
  PROVE  Fails(p)
<1>1. ~armed /\ ReadyWith(p) = ready
  <2>1. ~armed
    BY DEF IngestOverflow
  <2> QED BY <2>1, SessionModes DEF Takes
<1>2. ~pending_trim'
  BY DEF IngestOverflow, SessionInv, Clock
<1> QED BY <1>1, <1>2 DEF IngestOverflow, SetError, Fails, Marks

LEMMA PromotedOutcome ==
  ASSUME SessionInv, NEW p, Takes(p), IngestPromoted(p)
  PROVE  Waits(p) \/ Releases(p) \/ Fails(p)
<1>1. MediaInv /\ p \in Packets /\ ~pending_trim /\ ~armed /\ Keeps(p)
  BY DEF SessionInv, Takes, Clock, IngestPromoted
<1>2. state \in {"BuildingDelay", "Delayed"} /\ ReadyWith(p) = ready
  BY <1>1, SessionModes DEF Takes
<1> DEFINE q == Stored(p)
<1>3. q \in Seq(Packets) /\ From(q, 1) = q
  BY <1>1, StoredIs
<1>4. state = "BuildingDelay" => IsKeyframe(q[1])
  BY <1>1, StoredOpens
<1>5. 1 \in DOMAIN q /\ DOMAIN q = 1..Len(q)
  <2>1. PICK n \in Nat : n = Len(buffered)
    BY <1>1, StoredIs
  <2>2. Len(q) = n + 1
    BY <1>1, <2>1, StoredIs
  <2>3. 1 \in 1..(n + 1)
    BY <2>1
  <2>4. DOMAIN q = 1..Len(q)
    BY <1>3, DomainIsInterval
  <2> QED BY <2>2, <2>3, <2>4
<1> HIDE DEF q
<1>6. /\ video_watermark' = VideoMark(p) /\ audio_watermark' = AudioMark(p)
      /\ ~pending_trim'
      /\ \/ /\ ~PlaysAfter(q)
            /\ buffered' = q /\ ready' = ReadyWith(p) /\ UNCHANGED state
         \/ /\ PlaysAfter(q)
            /\ \E s \in DOMAIN q, r \in 1..(Len(q) + 1) :
                 LET keyed == From(q, s)
                 IN  /\ StartPoint(q, s) /\ ReleasePoint(keyed, r, Limit)
                     /\ ready' = ReadyWith(p) \o SubSeq(keyed, 1, r - 1)
                     /\ buffered' = From(keyed, r)
            /\ state' = "Delayed"
         \/ \E left : SetError(q, left, ReadyWith(p), VideoMark(p), AudioMark(p))
  <2>1. PICK t \in 1..(Len(q) + 1) :
       LET qq == From(q, t)
           blocked == pending_trim /\ Duration(qq) > target_delay
           left == buffered_bytes + 1 - (t - 1)
       IN  /\ IF pending_trim THEN TrimPoint(q, t, target_delay) ELSE t = 1
           /\ pending_trim' = blocked
           /\ \/ /\ blocked \/ ~PlaysAfter(qq)
                 /\ buffered' = qq /\ buffered_bytes' = left
                 /\ ready' = ReadyWith(p)
                 /\ UNCHANGED state
              \/ /\ ~blocked /\ PlaysAfter(qq)
                 /\ \E s \in DOMAIN qq, r \in 1..(Len(qq) + 1) :
                      LET keyed == From(qq, s)
                      IN  /\ StartPoint(qq, s) /\ ReleasePoint(keyed, r, Limit)
                          /\ ready' = ReadyWith(p) \o SubSeq(keyed, 1, r - 1)
                          /\ buffered' = From(keyed, r)
                          /\ buffered_bytes' = left - (s - 1) - (r - 1)
                 /\ state' = "Delayed"
              \/ /\ ~blocked /\ state = "BuildingDelay"
                 /\ Duration(qq) >= target_delay
                 /\ \A s \in DOMAIN qq : ~FirstKeyframe(qq, s)
                 /\ SetError(qq, left, ReadyWith(p), VideoMark(p), AudioMark(p))
    BY DEF IngestPromoted, q
  <2>2. t = 1 /\ From(q, t) = q
    BY <1>1, <1>3, <2>1
  <2>3. video_watermark' = VideoMark(p) /\ audio_watermark' = AudioMark(p)
    BY DEF IngestPromoted
  <2> QED BY <1>1, <2>1, <2>2, <2>3
<1>7. ASSUME ~PlaysAfter(q), buffered' = q, ready' = ReadyWith(p), UNCHANGED state
      PROVE  Waits(p)
  <2>1. state = "BuildingDelay"
    BY <1>2, <1>7 DEF PlaysAfter
  <2> QED BY <1>1, <1>2, <1>4, <1>6, <1>7, <2>1 DEF Waits, Marks, q
<1>8. ASSUME NEW s \in DOMAIN q, NEW r \in 1..(Len(q) + 1),
             StartPoint(q, s), ReleasePoint(From(q, s), r, Limit),
             ready' = ReadyWith(p) \o SubSeq(From(q, s), 1, r - 1),
             buffered' = From(From(q, s), r), state' = "Delayed"
      PROVE  Releases(p)
  <2>1. s = 1
    <3>1. CASE state = "BuildingDelay" /\ Duration(q) >= target_delay
      <4>1. IsKeyframe(q[1]) /\ (\A i \in 1..(s - 1) : ~IsKeyframe(q[i]))
        BY <1>4, <1>8, <3>1 DEF StartPoint, FirstKeyframe
      <4>2. s \in Nat /\ s >= 1
        BY <1>3, <1>5, LenProperties
      <4>3. s # 1 => 1 \in 1..(s - 1)
        BY <4>2
      <4> QED BY <4>1, <4>3
    <3>2. CASE ~(state = "BuildingDelay" /\ Duration(q) >= target_delay)
      BY <1>8, <3>2 DEF StartPoint
    <3> QED BY <3>1, <3>2
  <2>2. From(q, s) = q
    BY <1>3, <2>1
  <2> QED BY <1>1, <1>2, <1>4, <1>6, <1>8, <2>2 DEF Releases, Marks, q
<1>9. ASSUME NEW left, SetError(q, left, ReadyWith(p), VideoMark(p), AudioMark(p))
      PROVE  Fails(p)
  BY <1>1, <1>2, <1>6, <1>9 DEF SetError, Fails, Marks, q
<1> QED BY <1>6, <1>7, <1>8, <1>9

LEMMA ProgrammeOutcomes ==
  ASSUME SessionInv, NEW p, Takes(p)
  PROVE  Passes(p) \/ Fails(p) \/ Rolls(p) \/ Waits(p) \/ Releases(p)
<1>1. ~IngestBackwards(p)
  BY NeverBack DEF IngestBackwards
<1>2. IngestPassed(p) \/ IngestArmed(p) \/ IngestOverflow(p) \/ IngestPromoted(p)
  BY <1>1 DEF Takes
<1> QED BY <1>2, PassedPasses, ArmedOutcome, OverflowFails, PromotedOutcome
-----------------------------------------------------------------------------
(* The session's clock and modes are kept.                                  *)

LEMMA TakesMarks ==
  ASSUME ControllerConstants, SessionInv, NEW p, Takes(p)
  PROVE  /\ p.dts \in Int
         /\ VideoMark(p) # None => VideoMark(p) \in Int /\ VideoMark(p) <= p.dts
         /\ AudioMark(p) # None => AudioMark(p) \in Int /\ AudioMark(p) <= p.dts
         /\ VideoMark(p) # None /\ AudioMark(p) # None =>
              LowerOf(VideoMark(p), AudioMark(p)) <= p.dts
         /\ video_watermark # None => VideoMark(p) # None /\ video_watermark <= VideoMark(p)
         /\ audio_watermark # None => AudioMark(p) # None /\ audio_watermark <= AudioMark(p)
<1>1. p \in Packets /\ p.dts \in Int /\ p.dts # None
  BY DEF Takes, Packets, ControllerConstants
<1>2. /\ video_watermark \in Int \cup {None} /\ audio_watermark \in Int \cup {None}
      /\ last_input_dts \in Int \cup {None}
  BY DEF SessionInv, MediaInv, TypeOK
<1>3. video_watermark # None => video_watermark <= p.dts
  <2>1. SUFFICES ASSUME video_watermark # None PROVE video_watermark <= p.dts
    OBVIOUS
  <2>2. last_input_dts # None /\ video_watermark <= last_input_dts /\ last_input_dts <= p.dts
    BY <2>1 DEF SessionInv, Clock, Takes
  <2> QED BY <1>1, <1>2, <2>1, <2>2
<1>4. audio_watermark # None => audio_watermark <= p.dts
  <2>1. SUFFICES ASSUME audio_watermark # None PROVE audio_watermark <= p.dts
    OBVIOUS
  <2>2. last_input_dts # None /\ audio_watermark <= last_input_dts /\ last_input_dts <= p.dts
    BY <2>1 DEF SessionInv, Clock, Takes
  <2> QED BY <1>1, <1>2, <2>1, <2>2
<1>5. VideoMark(p) # None => VideoMark(p) \in Int /\ VideoMark(p) <= p.dts
  BY <1>1, <1>2, <1>3 DEF VideoMark
<1>6. AudioMark(p) # None => AudioMark(p) \in Int /\ AudioMark(p) <= p.dts
  BY <1>1, <1>2, <1>4 DEF AudioMark
<1>7. video_watermark # None => VideoMark(p) # None /\ video_watermark <= VideoMark(p)
  BY <1>1, <1>2, <1>3 DEF VideoMark
<1>8. audio_watermark # None => AudioMark(p) # None /\ audio_watermark <= AudioMark(p)
  BY <1>1, <1>2, <1>4 DEF AudioMark
<1>9. VideoMark(p) # None /\ AudioMark(p) # None =>
        LowerOf(VideoMark(p), AudioMark(p)) <= p.dts
  BY <1>5, <1>6 DEF LowerOf
<1> QED BY <1>1, <1>5, <1>6, <1>7, <1>8, <1>9

\* What is left of the history with p ends with p, or is nothing.
LEMMA CutOfStored ==
  ASSUME SessionInv, NEW p, Takes(p), NEW k \in 1..(Len(Stored(p)) + 1)
  PROVE  /\ From(Stored(p), k) \in Seq(Packets)
         /\ From(Stored(p), k) # <<>> =>
              From(Stored(p), k)[Len(From(Stored(p), k))].dts = p.dts
<1>1. MediaInv /\ p \in Packets
  BY DEF SessionInv, Takes
<1>2. Stored(p) \in Seq(Packets) /\ Stored(p)[Len(Stored(p))] = p
  BY <1>1, StoredIs
<1>3. CASE k \in 1..Len(Stored(p))
  BY <1>2, <1>3, EndsWithLast
<1>4. CASE k \notin 1..Len(Stored(p))
  <2>1. PICK n \in Nat : n = Len(Stored(p))
    BY <1>2, LenProperties
  <2>2. k = n + 1
    BY <1>4, <2>1
  <2>3. From(Stored(p), k) \in Seq(Packets) /\ Len(From(Stored(p), k)) = n - k + 1
    BY <1>2, <2>1, FromProperties
  <2>4. Len(From(Stored(p), k)) = 0
    BY <2>2, <2>3
  <2>5. From(Stored(p), k) = <<>>
    BY <2>3, <2>4, NoPictures
  <2> QED BY <2>3, <2>5
<1> QED BY <1>3, <1>4

LEMMA ProgrammeKeepsClock ==
  ASSUME ControllerConstants, SessionInv, NEW p, Takes(p)
  PROVE  Clock'
<1>1. p.dts \in Int /\ p.dts # None
  BY TakesMarks DEF ControllerConstants
<1>2. /\ ~rebase_next' /\ timestamp_offset' = None /\ slot' \in Int
      /\ last_input_dts' = p.dts /\ 2 * p.dts <= slot' /\ last_input_dts' # None
  BY <1>1 DEF Takes
<1>3. CASE Marks(p) /\ \E k \in 1..(Len(Stored(p)) + 1) : buffered' = From(Stored(p), k)
  <2>1. PICK k \in 1..(Len(Stored(p)) + 1) : buffered' = From(Stored(p), k)
    BY <1>3
  <2>2. buffered' # <<>> => buffered'[Len(buffered')].dts = p.dts
    BY <2>1, CutOfStored
  <2>3. /\ video_watermark' # None => video_watermark' <= last_input_dts'
        /\ audio_watermark' # None => audio_watermark' <= last_input_dts'
        /\ video_watermark' # None /\ audio_watermark' # None =>
              LowerOf(video_watermark', audio_watermark') <= p.dts
        /\ ~pending_trim'
    BY <1>2, <1>3, TakesMarks DEF Marks
  <2>4. buffered' # <<>> => /\ buffered'[Len(buffered')].dts <= last_input_dts'
                            /\ video_watermark' # None /\ audio_watermark' # None =>
                                 LowerOf(video_watermark', audio_watermark')
                                   <= buffered'[Len(buffered')].dts
    BY <1>1, <1>2, <2>2, <2>3
  <2>5. (LowerOf(video_watermark, audio_watermark))' = LowerOf(video_watermark', audio_watermark')
    BY DEF LowerOf
  <2> QED BY <1>2, <2>3, <2>4, <2>5 DEF Clock
<1>4. CASE buffered' = <<>> /\ video_watermark' = None /\ audio_watermark' = None /\ ~pending_trim'
  BY <1>2, <1>4 DEF Clock
<1>5. CASE Passes(p)
  <2>1. UNCHANGED <<video_watermark, audio_watermark, pending_trim>> /\ buffered' = <<>>
    BY <1>5 DEF Passes
  <2>2. /\ ~pending_trim /\ p.dts \in Int
        /\ video_watermark # None => video_watermark \in Int /\ video_watermark <= p.dts
        /\ audio_watermark # None => audio_watermark \in Int /\ audio_watermark <= p.dts
    <3>1. /\ video_watermark \in Int \cup {None} /\ audio_watermark \in Int \cup {None}
          /\ last_input_dts \in Int \cup {None}
      BY DEF SessionInv, MediaInv, TypeOK
    <3>2. /\ ~pending_trim
          /\ video_watermark # None => last_input_dts # None /\ video_watermark <= last_input_dts
          /\ audio_watermark # None => last_input_dts # None /\ audio_watermark <= last_input_dts
      BY DEF SessionInv, Clock
    <3>3. last_input_dts # None => last_input_dts <= p.dts
      BY DEF Takes
    <3> QED BY <1>1, <3>1, <3>2, <3>3
  <2> QED BY <1>2, <2>1, <2>2 DEF Clock
<1>6. ASSUME buffered' = Stored(p)
      PROVE  \E k \in 1..(Len(Stored(p)) + 1) : buffered' = From(Stored(p), k)
  <2>1. Stored(p) \in Seq(Packets) /\ From(Stored(p), 1) = Stored(p)
    BY StoredIs DEF SessionInv, Takes
  <2>2. PICK n \in Nat : n = Len(Stored(p))
    BY <2>1, LenProperties
  <2>3. 1 \in 1..(n + 1)
    BY <2>2
  <2> QED BY <1>6, <2>1, <2>2, <2>3
<1>7. \A k \in 1..Len(Stored(p)) : k \in 1..(Len(Stored(p)) + 1)
  <2>1. PICK n \in Nat : n = Len(Stored(p))
    BY StoredIs, LenProperties DEF SessionInv, Takes
  <2> QED BY <2>1
<1>8. CASE Fails(p)
  BY <1>3, <1>4, <1>6, <1>8 DEF Fails
<1>9. CASE Rolls(p)
  BY <1>3, <1>7, <1>9 DEF Rolls
<1>10. CASE Waits(p)
  BY <1>3, <1>6, <1>10 DEF Waits
<1>11. CASE Releases(p)
  BY <1>3, <1>11 DEF Releases
<1> QED BY <1>5, <1>8, <1>9, <1>10, <1>11, ProgrammeOutcomes

\* A request or a start of capture leaves no clock behind, or leaves it alone.
LEMMA CallsKeepClock ==
  ASSUME ControllerConstants, SessionInv,
         \/ UNCHANGED sessionVars \/ GoLive \/ TakeReady \/ StartDelay \/ GoBackLive
         \/ Dump \/ StopCapture \/ (\E t \in Targets : StartCapture(t))
  PROVE  Clock'
<1>1. Clock /\ MediaInv
  BY DEF SessionInv
<1>2. CASE UNCHANGED <<timeVars, waterVars, pending_trim, slot, buffered>>
  BY <1>1, <1>2 DEF Clock, timeVars, waterVars, LowerOf
<1>3. CASE GoBackLive
  <2>1. UNCHANGED <<timeVars, waterVars, slot>> /\ pending_trim' = FALSE
    BY <1>3 DEF GoBackLive, ResumeLive
  <2>2. \/ UNCHANGED buffered
        \/ buffered # <<>> /\ \E k \in DOMAIN buffered : buffered' = From(buffered, k)
    BY <1>3 DEF GoBackLive, ResumeLive
  <2>3. ASSUME buffered # <<>>, NEW k \in DOMAIN buffered, buffered' = From(buffered, k)
        PROVE  buffered'[Len(buffered')] = buffered[Len(buffered)]
    <3>1. buffered \in Seq(Packets) /\ k \in 1..Len(buffered)
      BY <1>1, <2>3, DomainIsInterval DEF MediaInv, TypeOK
    <3> QED BY <2>3, <3>1, EndsWithLast
  <2>4. buffered' # <<>> => buffered # <<>> /\ buffered'[Len(buffered')] = buffered[Len(buffered)]
    BY <2>2, <2>3
  <2> QED BY <1>1, <2>1, <2>4 DEF Clock, timeVars, waterVars, LowerOf
<1>4. ASSUME ResetTimestampTracking, ClearWatermarks, buffered' = <<>>, slot' \in Int
      PROVE  Clock'
  BY <1>4 DEF ResetTimestampTracking, ClearWatermarks, Clock
<1>5. CASE Dump \/ StopCapture
  BY <1>1, <1>4, <1>5 DEF Dump, StopCapture, EmergencyDump, ReturnLive, DropEverything,
                          ClearBuffers, Clock
<1>6. CASE \E t \in Targets : StartCapture(t)
  BY <1>4, <1>6 DEF StartCapture, Arm, ClearBuffers
<1>7. CASE UNCHANGED sessionVars
  BY <1>2, <1>7 DEF sessionVars, vars, dataVars
<1>8. CASE GoLive
  BY <1>2, <1>8 DEF GoLive, StartLive
<1>9. CASE TakeReady
  BY <1>2, <1>9 DEF TakeReady, TakeReadyPackets
<1>10. CASE StartDelay
  BY <1>2, <1>10 DEF StartDelay, Rewind, PlayHistory
<1> QED BY <1>3, <1>5, <1>6, <1>7, <1>8, <1>9, <1>10

LEMMA ProgrammeKeepsModes ==
  ASSUME ControllerConstants, SessionInv, NEW p, Takes(p)
  PROVE  Modes'
<1>1. UNCHANGED <<armed, passthrough, playback_delay, target_delay>>
      /\ target_delay # 0 /\ state # "Error"
  BY DEF Takes, modeVars
<1>2. Modes
  BY DEF SessionInv
<1>3. /\ armed => (passthrough <=> state = "Live")
      /\ ~armed => ~passthrough /\ state \in {"BuildingDelay", "Delayed"}
  BY <1>1, SessionModes
<1>4. CASE Passes(p)
  BY <1>1, <1>2, <1>4 DEF Passes, Modes
<1>5. CASE Fails(p)
  BY <1>1, <1>2, <1>3, <1>5 DEF Fails, Modes
<1>6. CASE Rolls(p)
  BY <1>1, <1>2, <1>3, <1>6 DEF Rolls, RolledState, Modes
<1>7. CASE Waits(p)
  BY <1>1, <1>2, <1>3, <1>7 DEF Waits, Modes
<1>8. CASE Releases(p)
  BY <1>1, <1>2, <1>3, <1>8 DEF Releases, Modes
<1> QED BY <1>4, <1>5, <1>6, <1>7, <1>8, ProgrammeOutcomes

LEMMA CallsKeepModes ==
  ASSUME ControllerConstants, SessionInv,
         \/ UNCHANGED sessionVars \/ GoLive \/ TakeReady \/ StartDelay \/ GoBackLive
         \/ Dump \/ StopCapture \/ (\E t \in Targets : StartCapture(t))
  PROVE  Modes'
<1>1. Modes
  BY DEF SessionInv
<1>2. CASE UNCHANGED <<armed, passthrough, playback_delay, target_delay, state, buffered>>
  BY <1>1, <1>2 DEF Modes
<1>3. CASE UNCHANGED sessionVars
  BY <1>2, <1>3 DEF sessionVars, vars, dataVars, modeVars
<1>4. CASE TakeReady
  BY <1>2, <1>4 DEF TakeReady, TakeReadyPackets, modeVars
<1>5. CASE GoLive
  BY <1>1, <1>5 DEF GoLive, StartLive, Modes
<1>6. CASE StartDelay
  BY <1>1, <1>6 DEF StartDelay, Requestable, Rewind, PlayHistory, Modes
<1>7. CASE GoBackLive
  BY <1>1, <1>7 DEF GoBackLive, Requestable, ResumeLive, Modes
<1>8. CASE Dump \/ StopCapture
  BY <1>8 DEF Dump, StopCapture, Requestable, EmergencyDump, ReturnLive, DropEverything,
              ClearBuffers, Modes
<1>9. CASE \E t \in Targets : StartCapture(t)
  <2>1. PICK t \in Targets : StartCapture(t)
    BY <1>9
  <2>2. t # 0
    BY <2>1 DEF StartCapture, Arm, ControllerConstants
  <2> QED BY <2>1, <2>2 DEF StartCapture, Arm, Modes
<1> QED BY <1>3, <1>4, <1>5, <1>6, <1>7, <1>8, <1>9

LEMMA SessionCases ==
  ASSUME ControllerConstants, SlotConstants, SessionInv, [SessionNext]_sessionVars
  PROVE  \/ \E p : Takes(p)
         \/ UNCHANGED sessionVars \/ GoLive \/ TakeReady \/ StartDelay \/ GoBackLive
         \/ Dump \/ StopCapture \/ (\E t \in Targets : StartCapture(t))
<1>1. ASSUME NEW s \in 0..LastSlot, NEW key \in BOOLEAN, Programme(s, key)
      PROVE  \E p : Takes(p)
  BY <1>1, ProgrammeTakes
<1> QED BY <1>1 DEF SessionNext

LEMMA SessionInvNext ==
  ASSUME ControllerConstants, SlotConstants, SessionInv, [SessionNext]_sessionVars
  PROVE  SessionInv'
<1>1. [Next]_vars
  BY SessionCalls
<1>2. MediaInv' /\ AirInv'
  BY <1>1, MediaInvNext, AirInvNext DEF SessionInv
<1>3. ASSUME NEW p, Takes(p) PROVE Clock' /\ Modes'
  BY <1>3, ProgrammeKeepsClock, ProgrammeKeepsModes
<1>4. Clock' /\ Modes'
  BY <1>3, SessionCases, CallsKeepClock, CallsKeepModes
<1> QED BY <1>2, <1>4 DEF SessionInv

LEMMA SessionInvInit ==
  ASSUME ControllerConstants, SessionInit
  PROVE  SessionInv
<1>1. MediaInv /\ AirInv
  BY MediaInvInit DEF SessionInit, Init, AirInv
<1>2. Clock /\ Modes
  BY DEF SessionInit, Init, Clock, Modes
<1> QED BY <1>1, <1>2 DEF SessionInv
LEMMA SessionInvInvariant == SessionSpec => []SessionInv
<1> USE ControllerConstants, SlotConstants
<1>1. SessionInit => SessionInv
  BY SessionInvInit
<1>2. SessionInv /\ [SessionNext]_sessionVars => SessionInv'
  BY SessionInvNext
<1> QED BY <1>1, <1>2, PTL DEF SessionSpec

\* The broadcast only makes calls the controller's specification allows, so
\* all that is proved of the controller holds of the session.
THEOREM SessionIsControlled == SessionSpec => Spec
<1>1. SessionInit => Init
  BY DEF SessionInit
<1>2. [SessionNext]_sessionVars => [Next]_vars
  BY SlotConstants, SessionCalls
<1> QED BY <1>1, <1>2, PTL DEF SessionSpec, Spec

-----------------------------------------------------------------------------
(* The history has no hole.                                                 *)

Whole(q, n) == Complete(q, n) /\ \A i \in Pictures(q) : 0 < q[i].vn

LEMMA StoredWhole ==
  ASSUME SessionInv, HistoryInv, NEW p, Takes(p)
  PROVE  /\ Whole(Stored(p), videos')
         /\ \A k \in 1..(Len(Stored(p)) + 1) : Whole(From(Stored(p), k), videos')
<1>1. MediaInv /\ p \in Packets /\ state # "Error"
  BY DEF SessionInv, Takes
<1>2. buffered \in Seq(Packets) /\ videos \in Nat /\ Stored(p) \in Seq(Packets)
  BY <1>1, StoredIs DEF MediaInv, TypeOK
<1>3. videos' \in Nat /\ IF p.kind = "Video" THEN videos' = videos + 1 /\ p.vn = videos'
                                            ELSE videos' = videos
  BY <1>2 DEF Takes
<1>4. Whole(Stored(p), videos')
  BY <1>1, <1>2, <1>3, CompleteAppend DEF HistoryInv, Whole, Stored
<1>5. ASSUME NEW k \in 1..(Len(Stored(p)) + 1) PROVE Whole(From(Stored(p), k), videos')
  BY <1>2, <1>3, <1>4, CompleteFrom DEF Whole
<1> QED BY <1>4, <1>5

LEMMA HistoryInvWhole ==
  ASSUME state' # "Error" => Whole(buffered', videos')
  PROVE  HistoryInv'
BY DEF HistoryInv, Whole, Complete, Pictures

LEMMA ProgrammeKeepsHistory ==
  ASSUME SessionInv, HistoryInv, NEW p, Takes(p)
  PROVE  HistoryInv'
<1>1. SUFFICES ASSUME state' # "Error" PROVE Whole(buffered', videos')
  BY HistoryInvWhole
<1>2. CASE Passes(p)
  BY <1>2, CompleteEmpty DEF Passes, Whole
<1>3. CASE Rolls(p)
  <2>1. PICK k \in 1..Len(Stored(p)) : buffered' = From(Stored(p), k)
    BY <1>3 DEF Rolls
  <2>2. PICK n \in Nat : n = Len(Stored(p))
    BY StoredIs, LenProperties DEF SessionInv, Takes
  <2>3. k \in 1..(Len(Stored(p)) + 1)
    BY <2>1, <2>2
  <2> QED BY <2>1, <2>3, StoredWhole
<1>4. CASE Waits(p)
  BY <1>4, StoredWhole DEF Waits
<1>5. CASE Releases(p)
  BY <1>5, StoredWhole DEF Releases
<1> QED BY <1>1, <1>2, <1>3, <1>4, <1>5, ProgrammeOutcomes DEF Fails

LEMMA CallsKeepHistory ==
  ASSUME SessionInv, HistoryInv,
         \/ UNCHANGED sessionVars \/ GoLive \/ TakeReady \/ StartDelay \/ GoBackLive
         \/ Dump \/ StopCapture \/ (\E t \in Targets : StartCapture(t))
  PROVE  HistoryInv'
<1>1. buffered \in Seq(Packets) /\ videos \in Nat
  BY DEF SessionInv, MediaInv, TypeOK
<1>2. SUFFICES ASSUME state' # "Error" PROVE Whole(buffered', videos')
  BY HistoryInvWhole
<1>3. CASE state # "Error" /\ UNCHANGED <<buffered, videos>>
  BY <1>3 DEF HistoryInv, Whole
<1>4. CASE buffered' = <<>>
  BY <1>4, CompleteEmpty DEF Whole
<1>5. CASE GoBackLive
  <2>1. state # "Error" /\ videos' = videos
    BY <1>5 DEF GoBackLive, ResumeLive
  <2>2. \/ UNCHANGED buffered
        \/ \E k \in DOMAIN buffered : buffered' = From(buffered, k)
    BY <1>5 DEF GoBackLive, ResumeLive
  <2>3. ASSUME NEW k \in DOMAIN buffered, buffered' = From(buffered, k)
        PROVE  Whole(buffered', videos')
    <3>1. PICK n \in Nat : n = Len(buffered) /\ DOMAIN buffered = 1..n
      BY <1>1, DomainIsInterval
    <3>2. k \in 1..(Len(buffered) + 1)
      BY <2>3, <3>1
    <3> QED BY <1>1, <2>1, <2>3, <3>2, CompleteFrom DEF HistoryInv, Whole
  <2> QED BY <1>3, <2>1, <2>2, <2>3
<1>6. CASE UNCHANGED sessionVars \/ TakeReady
  BY <1>2, <1>3, <1>6 DEF TakeReady, TakeReadyPackets, sessionVars, vars, dataVars
<1>7. CASE GoLive
  BY <1>3, <1>7 DEF GoLive, StartLive
<1>8. CASE StartDelay
  BY <1>3, <1>8 DEF StartDelay, Rewind, PlayHistory, Requestable
<1>9. CASE Dump \/ StopCapture \/ \E t \in Targets : StartCapture(t)
  BY <1>4, <1>9 DEF Dump, StopCapture, EmergencyDump, ReturnLive, DropEverything,
                    StartCapture, Arm, ClearBuffers
<1> QED BY <1>5, <1>6, <1>7, <1>8, <1>9

LEMMA HistoryInvInit ==
  ASSUME SessionInit
  PROVE  HistoryInv
BY CompleteEmpty DEF SessionInit, Init, HistoryInv

LEMMA HistoryInvNext ==
  ASSUME ControllerConstants, SlotConstants, SessionInv, HistoryInv,
         [SessionNext]_sessionVars
  PROVE  HistoryInv'
BY SessionCases, ProgrammeKeepsHistory, CallsKeepHistory

LEMMA HistoryInvInvariant == SessionSpec => []HistoryInv
<1> USE ControllerConstants, SlotConstants
<1>1. SessionInit => HistoryInv
  BY HistoryInvInit
<1>2. SessionInv /\ HistoryInv /\ [SessionNext]_sessionVars => HistoryInv'
  BY HistoryInvNext
<1> QED BY <1>1, <1>2, SessionInvInvariant, PTL DEF SessionSpec

\* Every picture from the oldest kept to the newest taken in is in the history,
\* for every capture: rolls, rewinds, releases and returns to live leave no
\* hole behind.
THEOREM HistoryStaysComplete == SessionSpec => []HistoryComplete
<1>1. HistoryInv => HistoryComplete
  BY DEF HistoryInv, HistoryComplete
<1> QED BY <1>1, HistoryInvInvariant, PTL
-----------------------------------------------------------------------------
(* The viewer's stream is kept decodable.                                   *)

LEMMA JoinedThrice ==
  \A a, b, c \in Seq(Packets) : (a \o b) \o c = a \o (b \o c)
<1> SUFFICES ASSUME NEW a \in Seq(Packets), NEW b \in Seq(Packets), NEW c \in Seq(Packets)
             PROVE  (a \o b) \o c = a \o (b \o c)
  OBVIOUS
<1> QED BY ConcatAssociative

\* Releasing a prefix of the history moves it, and no packet is lost.
LEMMA Rejoin ==
  ASSUME NEW a \in Seq(Packets), NEW s \in Seq(Packets), NEW r \in 1..(Len(s) + 1)
  PROVE  /\ SubSeq(s, 1, r - 1) \in Seq(Packets) /\ From(s, r) \in Seq(Packets)
         /\ (a \o SubSeq(s, 1, r - 1)) \o From(s, r) = a \o s
<1>1. PICK n \in Nat : n = Len(s)
  BY LenProperties
<1>2. From(s, r) \in Seq(Packets)
  BY FromProperties
<1>3. SubSeq(s, 1, r - 1) \in Seq(Packets)
  <2>1. \A i \in 1..(r - 1) : s[i] \in Packets
    <3>1. \A i \in 1..n : s[i] \in Packets
      BY <1>1, PicturesAre
    <3> QED BY <1>1, <3>1
  <2>2. 1 \in Int /\ r - 1 \in Int
    BY <1>1
  <2> QED BY <2>1, <2>2, SubSeqProperties
<1>4. SubSeq(s, 1, r - 1) \o SubSeq(s, r, n) = SubSeq(s, 1, n)
  <2>1. 1 \in 1..(n + 1) /\ r - 1 \in (1 - 1)..n /\ n \in (r - 1)..n /\ (r - 1) + 1 = r
    BY <1>1
  <2>2. SubSeq(s, 1, r - 1) \o SubSeq(s, (r - 1) + 1, n) = SubSeq(s, 1, n)
    BY <1>1, <2>1, ConcatAdjacentSubSeq
  <2> QED BY <2>1, <2>2
<1>5. SubSeq(s, 1, r - 1) \o From(s, r) = s
  BY <1>1, <1>4, SubSeqFull DEF From
<1> DEFINE b == SubSeq(s, 1, r - 1)
           c == From(s, r)
<1>6. b \in Seq(Packets) /\ c \in Seq(Packets) /\ b \o c = s
  BY <1>2, <1>3, <1>5
<1> HIDE DEF b, c
<1>7. (a \o b) \o c = a \o (b \o c)
  BY <1>6, JoinedThrice, Zenon
<1>8. (a \o b) \o c = a \o s
  BY <1>6, <1>7, Zenon
<1> QED BY <1>2, <1>3, <1>8, Zenon DEF b, c

LEMMA AppendMoves ==
  ASSUME NEW a \in Seq(Packets), NEW q \in Seq(Packets), NEW p \in Packets
  PROVE  a \o Append(q, p) = Append(a \o q, p) /\ a \o q \in Seq(Packets)
<1> DEFINE e == <<p>>
           c == a \o q
<1>1. e \in Seq(Packets) /\ c \in Seq(Packets)
  BY ConcatProperties
<1>2. Append(q, p) = q \o e
  BY AppendIsConcat
<1>3. Append(c, p) = c \o e
  BY <1>1, AppendIsConcat
<1>4. (a \o q) \o e = a \o (q \o e)
  BY <1>1, ConcatAssociative
<1> HIDE DEF e
<1>5. a \o Append(q, p) = Append(c, p)
  BY <1>2, <1>3, <1>4, Zenon DEF c
<1> QED BY <1>1, <1>5, Zenon DEF c

LEMMA PicturePlays ==
  ASSUME state' = "Delayed", ~armed', ~passthrough', NEW q, q = ready' \o buffered',
         Follows(q, sent'), UpTo(q, sent', videos')
  PROVE  PictureInv'
<1>1. Plays' /\ Stream' = q
  BY Zenon DEF Plays, Stream
<1>2. Follows(Stream', sent') /\ UpTo(Stream', sent', videos')
  BY <1>1, Zenon
<1>3. (Follows(Stream, sent))' /\ (UpTo(Stream, sent, videos))'
  BY <1>2, Zenon DEF Follows, UpTo, Pictures
<1> QED BY <1>1, <1>3, Zenon DEF PictureInv

LEMMA PictureLive ==
  ASSUME state' = "Live", armed', passthrough', Follows(ready', sent'),
         IF waiting_for_live_keyframe' THEN ready' = <<>> /\ sent' = 0
                                       ELSE UpTo(ready', sent', videos')
  PROVE  PictureInv'
<1>1. ~Plays' /\ Stream' = ready'
  BY DEF Plays, Stream
<1>2. (Follows(Stream, sent))'
  BY <1>1 DEF Follows, Pictures
<1>3. IF waiting_for_live_keyframe' THEN ready' = <<>> /\ sent' = 0
                                    ELSE (UpTo(ready, sent, videos))'
  BY DEF UpTo, Pictures
<1> QED BY <1>1, <1>2, <1>3 DEF PictureInv

LEMMA PictureSilent ==
  ASSUME ready' = <<>>, sent' = 0, ~(state' = "Delayed" /\ ~armed'),
         state' = "Live" /\ armed' /\ passthrough' => waiting_for_live_keyframe'
  PROVE  PictureInv'
<1>1. ~Plays' /\ Stream' = ready'
  BY DEF Plays, Stream
<1>2. Follows(Stream', sent')
  BY <1>1, FollowsNothing
<1>3. (Follows(Stream, sent))'
  BY <1>2 DEF Follows, Pictures
<1> QED BY <1>1, <1>3 DEF PictureInv

LEMMA PictureFailed ==
  ASSUME state' = "Error", Follows(ready', sent')
  PROVE  PictureInv'
<1>1. ~Plays' /\ Stream' = ready'
  BY DEF Plays, Stream
<1>2. (Follows(Stream, sent))'
  BY <1>1 DEF Follows, Pictures
<1> QED BY <1>1, <1>2 DEF PictureInv

\* Live output starts at a keyframe and then misses no picture.
LEMMA LiveGoesOn ==
  ASSUME SessionInv, PictureInv, NEW p, Takes(p), armed, passthrough,
         state = "Live", state' = "Live", ready' = ReadyWith(p)
  PROVE  PictureInv'
<1>1. /\ ready \in Seq(Packets) /\ videos \in Nat /\ sent \in Nat
      /\ waiting_for_live_keyframe \in BOOLEAN /\ p \in Packets
  BY DEF SessionInv, MediaInv, TypeOK, Takes
<1>2. /\ armed' /\ passthrough' /\ sent' = sent
      /\ waiting_for_live_keyframe' = (waiting_for_live_keyframe /\ ~IsKeyframe(p))
      /\ p.vn = videos'
      /\ videos' = IF p.kind = "Video" THEN videos + 1 ELSE videos
      /\ p.kind \in {"Video", "Audio"}
  BY DEF Takes, modeVars
<1>3. /\ Follows(ready, sent)
      /\ IF waiting_for_live_keyframe THEN ready = <<>> /\ sent = 0
                                      ELSE UpTo(ready, sent, videos)
  BY DEF PictureInv, Stream, Plays
<1>4. videos' \in Nat /\ IF p.kind = "Video" THEN videos' = videos + 1 /\ p.vn = videos'
                                            ELSE videos' = videos
  BY <1>1, <1>2
<1>5. CASE waiting_for_live_keyframe /\ IsKeyframe(p)
  <2>1. Emits(p) /\ p.kind = "Video"
    BY <1>5 DEF Emits, IsKeyframe
  <2>2. ready' = Append(<<>>, p) /\ sent' = 0 /\ ~waiting_for_live_keyframe'
        /\ p.vn = videos + 1 /\ videos' = videos + 1
    BY <1>2, <1>3, <1>5, <2>1 DEF ReadyWith
  <2>3. Follows(ready', sent') /\ UpTo(ready', sent', videos')
    BY <1>1, <1>5, <2>2, FollowsFirst
  <2> QED BY <1>2, <2>2, <2>3, PictureLive
<1>6. CASE waiting_for_live_keyframe /\ ~IsKeyframe(p)
  <2>1. ready' = <<>> /\ sent' = 0 /\ waiting_for_live_keyframe'
    BY <1>2, <1>3, <1>6 DEF ReadyWith, Emits
  <2> QED BY <1>2, <2>1, PictureSilent
<1>7. CASE ~waiting_for_live_keyframe /\ Emits(p)
  <2>1. ready' = Append(ready, p)
    BY <1>7 DEF ReadyWith
  <2>2. Follows(Append(ready, p), sent) /\ UpTo(Append(ready, p), sent, videos')
    BY <1>1, <1>3, <1>4, <1>7, FollowsAppend
  <2>3. ~waiting_for_live_keyframe'
    BY <1>2, <1>7
  <2> QED BY <1>2, <2>1, <2>2, <2>3, PictureLive
<1>8. CASE ~waiting_for_live_keyframe /\ ~Emits(p)
  <2>1. ready' = ready /\ p.kind = "Audio" /\ ~waiting_for_live_keyframe'
    BY <1>2, <1>8 DEF ReadyWith, Emits
  <2>2. videos' = videos
    BY <1>2, <2>1
  <2> QED BY <1>2, <1>3, <1>8, <2>1, <2>2, PictureLive
<1> QED BY <1>1, <1>5, <1>6, <1>7, <1>8

LEMMA PlayingGoesOn ==
  ASSUME SessionInv, HistoryInv, PictureInv, NEW p, Takes(p), Releases(p)
  PROVE  PictureInv'
<1>1. /\ ready \in Seq(Packets) /\ buffered \in Seq(Packets) /\ sent \in Nat
      /\ videos \in Nat /\ p \in Packets /\ Stored(p) \in Seq(Packets)
  BY StoredIs DEF SessionInv, MediaInv, TypeOK, Takes
<1>2. /\ state' = "Delayed" /\ ~armed /\ ~armed' /\ ~passthrough /\ ~passthrough'
      /\ sent' = sent /\ state \in {"BuildingDelay", "Delayed"}
  BY SessionModes DEF Takes, Releases, modeVars
<1>3. PICK r \in 1..(Len(Stored(p)) + 1) :
        /\ ready' = ready \o SubSeq(Stored(p), 1, r - 1)
        /\ buffered' = From(Stored(p), r)
  BY DEF Releases
<1>4. ready' \o buffered' = ready \o Stored(p)
  BY <1>1, <1>3, Rejoin, Zenon
<1>5. videos' \in Nat /\ IF p.kind = "Video" THEN videos' = videos + 1 /\ p.vn = videos'
                                            ELSE videos' = videos
  BY <1>1 DEF Takes
<1>6. CASE state = "BuildingDelay"
  <2>1. ready = <<>> /\ sent = 0
    BY <1>2, <1>6 DEF PictureInv, Plays
  <2>2. <<>> \o Stored(p) = Stored(p)
    BY <1>1, ConcatEmptySeq
  <2>3. ready' \o buffered' = Stored(p)
    BY <1>4, <2>1, <2>2, Zenon
  <2>4. /\ IsKeyframe(Stored(p)[1])
        /\ Complete(Stored(p), videos')
        /\ \A i \in Pictures(Stored(p)) : 0 < Stored(p)[i].vn
    BY <1>6, StoredWhole DEF Releases, Whole
  <2>5. Stored(p) # <<>>
    <3>1. PICK n \in Nat : n = Len(buffered)
      BY <1>1, LenProperties
    <3>2. Len(Stored(p)) = n + 1
      BY <1>1, <3>1, StoredIs DEF SessionInv
    <3> QED BY <3>2, NoPictures
  <2>6. Follows(Stored(p), 0) /\ UpTo(Stored(p), 0, videos')
    BY <1>1, <1>5, <2>4, <2>5, FollowsHistory
  <2>7. sent' = 0
    BY <1>2, <2>1
  <2> QED BY <1>2, <2>3, <2>6, <2>7, PicturePlays, Zenon
<1>7. CASE state = "Delayed"
  <2> DEFINE c == ready \o buffered
  <2>1. ready \o Stored(p) = Append(c, p) /\ c \in Seq(Packets)
    BY <1>1, AppendMoves DEF Stored
  <2>2. Follows(c, sent) /\ UpTo(c, sent, videos)
    BY <1>2, <1>7 DEF PictureInv, Plays, Stream
  <2> HIDE DEF c
  <2>3. Follows(Append(c, p), sent) /\ UpTo(Append(c, p), sent, videos')
    BY <1>1, <1>5, <2>1, <2>2, FollowsAppend
  <2>4. Append(c, p) = ready' \o buffered'
    BY <1>4, <2>1, Zenon
  <2> QED BY <1>2, <2>3, <2>4, PicturePlays, Zenon
<1> QED BY <1>2, <1>6, <1>7

LEMMA ProgrammeKeepsPictures ==
  ASSUME SessionInv, HistoryInv, PictureInv, NEW p, Takes(p)
  PROVE  PictureInv'
<1>1. /\ ready \in Seq(Packets) /\ buffered \in Seq(Packets) /\ sent \in Nat
  BY DEF SessionInv, MediaInv, TypeOK
<1>2. /\ UNCHANGED <<armed, passthrough, sent>> /\ state # "Error"
      /\ armed => (passthrough <=> state = "Live")
      /\ ~armed => ~passthrough /\ state \in {"BuildingDelay", "Delayed"}
      /\ ~(state = "Live") => ReadyWith(p) = ready
  BY SessionModes DEF Takes, modeVars
<1>3. ~passthrough /\ ~Plays => ready = <<>> /\ sent = 0
  BY <1>2 DEF PictureInv
<1>4. CASE Passes(p)
  <2>1. ready' = ReadyWith(p) /\ state' = state /\ (armed \/ state = "BuildingDelay")
    BY <1>4 DEF Passes
  <2>2. CASE armed /\ passthrough
    BY <1>2, <2>1, <2>2, LiveGoesOn
  <2>3. CASE ~(armed /\ passthrough)
    <3>1. ~passthrough /\ ~Plays /\ state # "Live"
      BY <1>2, <2>1, <2>3 DEF Plays
    <3> QED BY <1>2, <1>3, <2>1, <2>3, <3>1, PictureSilent
  <2> QED BY <2>2, <2>3
<1>5. CASE Rolls(p)
  <2>1. ready' = ReadyWith(p) /\ state' = RolledState(p, buffered') /\ armed
    BY <1>5 DEF Rolls
  <2>2. CASE passthrough
    <3>1. state = "Live" /\ state' = "Live"
      BY <1>2, <2>1, <2>2 DEF RolledState
    <3> QED BY <2>1, <2>2, <3>1, LiveGoesOn
  <2>3. CASE ~passthrough
    <3>1. ready' = <<>> /\ sent' = 0
      BY <1>2, <1>3, <2>1, <2>3 DEF Plays
    <3> QED BY <1>2, <2>1, <2>3, <3>1, PictureSilent
  <2> QED BY <2>2, <2>3
<1>6. CASE Waits(p)
  <2>1. ready' = ready /\ state' = "BuildingDelay" /\ ~armed /\ state = "BuildingDelay"
    BY <1>6 DEF Waits
  <2>2. ready' = <<>> /\ sent' = 0
    BY <1>2, <1>3, <2>1 DEF Plays
  <2> QED BY <2>1, <2>2, PictureSilent
<1>7. CASE Fails(p)
  <2>1. state' = "Error" /\ IF armed THEN ready' = <<>> ELSE ready' = ready
    BY <1>7 DEF Fails
  <2>2. Follows(ready', sent')
    <3>1. CASE armed
      BY <2>1, <3>1, FollowsNothing
    <3>2. CASE ~armed /\ state = "Delayed"
      <4>1. Follows(ready \o buffered, sent)
        BY <3>2 DEF PictureInv, Plays, Stream
      <4>2. Follows(ready, sent)
        BY <1>1, <4>1, FollowsPart
      <4> QED BY <1>2, <2>1, <3>2, <4>2
    <3>3. CASE ~armed /\ state = "BuildingDelay"
      <4>1. ready' = <<>>
        BY <1>2, <1>3, <2>1, <3>3 DEF Plays
      <4> QED BY <4>1, FollowsNothing
    <3> QED BY <1>2, <3>1, <3>2, <3>3
  <2> QED BY <2>1, <2>2, PictureFailed
<1> QED BY <1>4, <1>5, <1>6, <1>7, ProgrammeOutcomes, PlayingGoesOn

LEMMA TakingGoesOn ==
  ASSUME SessionInv, PictureInv, TakeReady
  PROVE  PictureInv'
<1>1. /\ ready \in Seq(Packets) /\ buffered \in Seq(Packets) /\ sent \in Nat
      /\ videos \in Nat /\ <<>> \in Seq(Packets)
  BY NoPictures DEF SessionInv, MediaInv, TypeOK
<1>2. /\ ready # <<>> /\ ready' = <<>> /\ sent' = LastVideo(ready, sent)
      /\ UNCHANGED <<armed, passthrough, state, buffered, videos, waiting_for_live_keyframe>>
  BY DEF TakeReady, TakeReadyPackets, modeVars, liveVars
<1>3. ~armed => ~passthrough
  BY DEF SessionInv, Modes
<1>4. CASE Plays
  <2>1. Follows(ready \o buffered, sent) /\ UpTo(ready \o buffered, sent, videos)
    BY <1>4 DEF PictureInv, Stream
  <2>2. Follows(buffered, sent') /\ UpTo(buffered, sent', videos)
    BY <1>1, <1>2, <2>1, FollowsRest
  <2>3. <<>> \o buffered = buffered
    BY <1>1, ConcatEmptySeq
  <2>4. buffered = ready' \o buffered'
    BY <1>2, <2>3, Zenon
  <2>5. UpTo(buffered, sent', videos') /\ state' = "Delayed" /\ ~armed' /\ ~passthrough'
    BY <1>2, <1>3, <1>4, <2>2 DEF Plays
  <2> QED BY <2>2, <2>4, <2>5, PicturePlays, Zenon
<1>5. CASE armed /\ passthrough /\ state = "Live"
  <2>1. ~waiting_for_live_keyframe /\ UpTo(ready, sent, videos) /\ Follows(ready, sent)
    BY <1>2, <1>5 DEF PictureInv, Stream, Plays
  <2>2. ready \o <<>> = ready
    BY <1>1, ConcatEmptySeq
  <2>3. Follows(ready \o <<>>, sent) /\ UpTo(ready \o <<>>, sent, videos)
    BY <2>1, <2>2, Zenon
  <2>4. Follows(<<>>, sent') /\ UpTo(<<>>, sent', videos)
    BY <1>1, <1>2, <2>3, FollowsRest
  <2>5. Follows(ready', sent') /\ UpTo(ready', sent', videos') /\ ~waiting_for_live_keyframe'
    BY <1>2, <2>1, <2>4
  <2> QED BY <1>2, <1>5, <2>5, PictureLive
<1>6. CASE state = "Error"
  BY <1>2, <1>6, FollowsNothing, PictureFailed
<1>7. ~Plays /\ ~(armed /\ passthrough /\ state = "Live") /\ state # "Error" => FALSE
  <2>1. armed /\ state # "Error" => (passthrough <=> state = "Live")
    BY DEF SessionInv, Modes
  <2> QED BY <1>2, <1>3, <2>1 DEF PictureInv
<1> QED BY <1>4, <1>5, <1>6, <1>7

LEMMA RewindStarts ==
  ASSUME SessionInv, HistoryInv, StartDelay
  PROVE  PictureInv'
<1>1. buffered \in Seq(Packets) /\ videos \in Nat
  BY DEF SessionInv, MediaInv, TypeOK
<1>2. /\ state' = "Delayed" /\ ~armed' /\ ~passthrough' /\ ready' = <<>> /\ sent' = 0
      /\ UNCHANGED <<buffered, videos>> /\ PrebufferReady
  BY DEF StartDelay, Rewind, PlayHistory, NewSource
<1>3. state # "Error" /\ buffered # <<>> /\ IsKeyframe(buffered[1])
  BY <1>2 DEF PrebufferReady, ReadyHistory
<1>4. Follows(buffered, 0) /\ UpTo(buffered, 0, videos)
  BY <1>1, <1>3, FollowsHistory DEF HistoryInv
<1>5. <<>> \o buffered = buffered
  BY <1>1, ConcatEmptySeq
<1>6. buffered = ready' \o buffered' /\ Follows(buffered, sent') /\ UpTo(buffered, sent', videos')
  BY <1>2, <1>4, <1>5, Zenon
<1> QED BY <1>2, <1>6, PicturePlays, Zenon

LEMMA CallsKeepPictures ==
  ASSUME ControllerConstants, SessionInv, HistoryInv, PictureInv,
         \/ UNCHANGED sessionVars \/ GoLive \/ TakeReady \/ StartDelay \/ GoBackLive
         \/ Dump \/ StopCapture \/ (\E t \in Targets : StartCapture(t))
  PROVE  PictureInv'
<1>1. CASE UNCHANGED sessionVars
  <2>1. UNCHANGED <<state, armed, passthrough, ready, buffered, sent, videos,
                    waiting_for_live_keyframe>>
    BY <1>1 DEF sessionVars, vars, modeVars, dataVars, liveVars
  <2> QED BY <2>1, Zenon DEF PictureInv, Stream, Plays, Follows, UpTo, Pictures
<1>2. CASE GoLive
  BY <1>2, PictureSilent DEF GoLive, StartLive, NewSource
<1>3. CASE GoBackLive
  BY <1>3, PictureSilent DEF GoBackLive, ResumeLive, NewSource
<1>4. CASE Dump \/ StopCapture
  BY <1>4, PictureSilent DEF Dump, StopCapture, EmergencyDump, ReturnLive, DropEverything,
                             ClearBuffers, NewSource
<1>5. CASE \E t \in Targets : StartCapture(t)
  BY <1>5, PictureSilent DEF StartCapture, Arm, ClearBuffers, NewSource
<1> QED BY <1>1, <1>2, <1>3, <1>4, <1>5, TakingGoesOn, RewindStarts

LEMMA PictureInvInit ==
  ASSUME SessionInit
  PROVE  PictureInv
<1>1. /\ ready = <<>> /\ sent = 0 /\ ~Plays /\ ~armed
  BY DEF SessionInit, Init, Plays
<1>2. Follows(Stream, sent)
  BY <1>1, FollowsNothing DEF Stream
<1> QED BY <1>1, <1>2 DEF PictureInv

LEMMA PictureInvInvariant == SessionSpec => []PictureInv
<1> USE ControllerConstants, SlotConstants
<1>1. SessionInit => PictureInv
  BY PictureInvInit
<1>2. SessionInv /\ HistoryInv /\ PictureInv /\ [SessionNext]_sessionVars => PictureInv'
  BY SessionCases, ProgrammeKeepsPictures, CallsKeepPictures
<1> QED BY <1>1, <1>2, SessionInvInvariant, HistoryInvInvariant, PTL DEF SessionSpec

\* Whatever the order of requests, rolls, releases and takes, no viewer is
\* handed a dependent picture without the one before it, for every capture,
\* every delay and every keyframe pattern.
THEOREM StreamStaysDecodable == SessionSpec => []StreamDecodable
<1>1. SessionInv /\ PictureInv => StreamDecodable
  <2>1. SUFFICES ASSUME SessionInv, PictureInv PROVE StreamDecodable
    OBVIOUS
  <2>2. ready \in Seq(Packets) /\ buffered \in Seq(Packets) /\ sent \in Nat
    BY <2>1 DEF SessionInv, MediaInv, TypeOK
  <2>3. Stream \in Seq(Packets)
    <3>1. ready \o buffered \in Seq(Packets)
      BY <2>2, ConcatProperties
    <3> QED BY <2>2, <3>1, Zenon DEF Stream
  <2>4. Decodable(Stream, sent)
    BY <2>1, <2>2, <2>3, FollowsDecodes DEF PictureInv
  <2> QED BY <2>4, Zenon DEF StreamDecodable, Stream, Plays
<1> QED BY <1>1, SessionInvInvariant, PictureInvInvariant, PTL
-----------------------------------------------------------------------------
(* The delay is honoured.                                                   *)

\* What is due when p comes in is older than the limit.
LEMMA DueIsOld ==
  ASSUME SessionInv, NEW p, Takes(p), NEW limit \in Nat,
         NEW r \in 1..(Len(Stored(p)) + 1), ReleasePoint(Stored(p), r, limit),
         NEW j \in 1..(r - 1)
  PROVE  p.dts - Stored(p)[j].dts > limit
<1>1. MediaInv /\ p \in Packets
  BY DEF SessionInv, Takes
<1>2. Stored(p) \in Seq(Packets) /\ Stored(p)[Len(Stored(p))] = p
  BY <1>1, StoredIs
<1>3. PICK n \in Nat : n = Len(Stored(p))
  BY <1>2, LenProperties
<1>4. j \in 1..n
  BY <1>3
<1>5. PICK q \in Seq(Packets) : /\ q = From(Stored(p), j) /\ q[Len(q)] = p
                                /\ q[1] = Stored(p)[j]
  BY <1>2, <1>3, <1>4, EndsWithLast
<1>6. Duration(q) > limit
  BY <1>5 DEF ReleasePoint
<1>7. ~(0 > limit)
  OBVIOUS
<1>8. Duration(q) = q[Len(q)].dts - q[1].dts
  BY <1>6, <1>7 DEF Duration
<1> QED BY <1>5, <1>6, <1>8

LEMMA ReleasesKeepAge ==
  ASSUME ControllerConstants, SessionInv, PictureInv, AgeInv, NEW p, Takes(p),
         Releases(p)
  PROVE  AgeInv'
<1>1. /\ ready \in Seq(Packets) /\ Stored(p) \in Seq(Packets) /\ target_delay \in Nat
      /\ playback_delay \in Int \cup {None} /\ last_input_dts \in Int \cup {None}
      /\ p.dts \in Int
  BY StoredIs DEF SessionInv, MediaInv, TypeOK, Takes, Packets
<1>2. /\ Limit' = Limit /\ target_delay' = target_delay /\ last_input_dts' = p.dts
      /\ last_input_dts # None => last_input_dts <= p.dts
  BY DEF Takes, modeVars, Limit
<1>3. ~armed /\ ~passthrough /\ state # "Error"
  BY SessionModes DEF Takes, Releases
<1>4. /\ Limit >= target_delay
      /\ \A i \in DOMAIN ready : /\ last_input_dts # None
                                 /\ last_input_dts - ready[i].dts > Limit
  <2>1. CASE state = "Delayed"
    BY <1>3, <2>1 DEF AgeInv, Plays
  <2>2. CASE state = "BuildingDelay"
    <3>1. playback_delay = None /\ ready = <<>>
      BY <1>3, <2>2 DEF SessionInv, Modes, PictureInv, Plays, Takes
    <3>2. Limit = target_delay
      BY <3>1 DEF Limit
    <3>3. DOMAIN ready = {}
      BY <3>1
    <3> QED BY <1>1, <3>2, <3>3
  <2> QED BY <2>1, <2>2 DEF Releases
<1>5. PICK limit \in Nat : limit = Limit
  <2>1. Limit \in Int /\ Limit >= target_delay
    BY <1>1, <1>4, <1>3 DEF Limit
  <2> QED BY <1>1, <2>1
<1>6. p.dts # None
  BY <1>1 DEF ControllerConstants
<1>7. PICK r \in 1..(Len(Stored(p)) + 1) :
        /\ ReleasePoint(Stored(p), r, limit)
        /\ ready' = ready \o SubSeq(Stored(p), 1, r - 1)
  BY <1>5 DEF Releases
<1>8. PICK n \in Nat : n = Len(ready)
  BY <1>1, LenProperties
<1>9. PICK due \in Seq(Packets) : due = SubSeq(Stored(p), 1, r - 1)
  BY <1>1, Rejoin
<1>10. Len(due) = r - 1 /\ \A j \in 1..(r - 1) : due[j] = Stored(p)[j]
  <2>1. PICK m \in Nat : m = Len(Stored(p))
    BY <1>1, LenProperties
  <2>2. \A i \in 1..(r - 1) : Stored(p)[i] \in Packets
    <3>1. \A i \in 1..m : Stored(p)[i] \in Packets
      BY <1>1, <2>1, PicturesAre
    <3> QED BY <2>1, <3>1
  <2>3. 1 \in Int /\ r - 1 \in Int /\ 1 <= r
    BY <2>1
  <2>4. /\ Len(SubSeq(Stored(p), 1, r - 1)) = IF 1 <= r - 1 THEN r - 1 - 1 + 1 ELSE 0
        /\ \A i \in 1..(r - 1 - 1 + 1) : SubSeq(Stored(p), 1, r - 1)[i] = Stored(p)[1 + i - 1]
    BY <2>2, <2>3, SubSeqProperties
  <2> QED BY <1>9, <2>3, <2>4
<1>11. ASSUME NEW i \in DOMAIN ready' PROVE p.dts - ready'[i].dts > limit
  <2> DEFINE c == ready \o due
  <2>1. /\ ready' = c /\ DOMAIN c = 1..(n + (r - 1))
        /\ \A x \in 1..n : c[x] = ready[x]
        /\ \A x \in 1..(r - 1) : c[n + x] = due[x]
    BY <1>1, <1>7, <1>8, <1>9, <1>10, PicturesOfConcat, DomainIsInterval
  <2> HIDE DEF c
  <2>2. i \in 1..(n + (r - 1))
    BY <1>11, <2>1
  <2>3. CASE i \in 1..n
    <3>1. i \in DOMAIN ready /\ ready[i].dts \in Int
      BY <1>1, <1>8, <2>3, PicturesAre
    <3>2. last_input_dts # None /\ last_input_dts - ready[i].dts > limit
      BY <1>4, <1>5, <3>1
    <3>3. ready'[i] = ready[i]
      BY <2>1, <2>3
    <3> QED BY <1>1, <1>2, <1>5, <3>1, <3>2, <3>3
  <2>4. CASE i \notin 1..n
    <3>1. i - n \in 1..(r - 1) /\ n + (i - n) = i
      <4>1. PICK m \in Nat : m = Len(Stored(p))
        BY <1>1, LenProperties
      <4> QED BY <2>2, <2>4, <4>1
    <3>2. ready'[i] = Stored(p)[i - n]
      BY <1>10, <2>1, <3>1
    <3> QED BY <1>7, <3>1, <3>2, DueIsOld
  <2> QED BY <2>3, <2>4
<1> QED BY <1>2, <1>4, <1>5, <1>6, <1>11 DEF AgeInv

LEMMA RewindKeepsAge ==
  ASSUME SessionInv, PrebufferReady, ready' = <<>>, ControllerConstants,
         playback_delay' = buffered[Len(buffered)].dts - buffered[1].dts,
         UNCHANGED target_delay
  PROVE  AgeInv'
<1>1. buffered \in Seq(Packets) /\ target_delay \in Nat
      /\ video_watermark \in Int \cup {None} /\ audio_watermark \in Int \cup {None}
  BY DEF SessionInv, MediaInv, TypeOK
<1>2. /\ buffered # <<>> /\ video_watermark # None /\ audio_watermark # None
      /\ LowerOf(video_watermark, audio_watermark) - buffered[1].dts >= target_delay
  BY DEF PrebufferReady, ReadyHistory
<1>3. LowerOf(video_watermark, audio_watermark) <= buffered[Len(buffered)].dts
  BY <1>2 DEF SessionInv, Clock
<1>4. LowerOf(video_watermark, audio_watermark) \in Int
  BY <1>1, <1>2 DEF LowerOf
<1>5. PICK n \in Nat : n = Len(buffered) /\ n >= 1
  BY <1>1, <1>2, NoPictures, LenProperties
<1>6. 1 \in 1..n /\ n \in 1..n
  BY <1>5
<1>7. buffered[1].dts \in Int /\ buffered[Len(buffered)].dts \in Int
  BY <1>1, <1>5, <1>6, PicturesAre
<1>8. playback_delay' \in Int /\ playback_delay' >= target_delay
  BY <1>1, <1>2, <1>3, <1>4, <1>7
<1>9. Limit' = playback_delay'
  BY <1>8 DEF Limit, ControllerConstants
<1>10. DOMAIN ready' = {}
  OBVIOUS
<1> QED BY <1>8, <1>9, <1>10 DEF AgeInv

LEMMA AgeInvNext ==
  ASSUME ControllerConstants, SlotConstants, SessionInv, PictureInv, AgeInv,
         [SessionNext]_sessionVars
  PROVE  AgeInv'
<1>1. ASSUME ~Plays' PROVE AgeInv'
  BY <1>1 DEF AgeInv
<1>2. ASSUME NEW p, Takes(p) PROVE AgeInv'
  <2>1. armed' = armed /\ state # "Error"
    BY <1>2 DEF Takes, modeVars
  <2>2. CASE Releases(p)
    BY <1>2, <2>2, ReleasesKeepAge
  <2>3. CASE Passes(p)
    BY <1>1, <2>1, <2>3 DEF Plays, Passes
  <2>4. CASE Fails(p) \/ Waits(p) \/ Rolls(p)
    BY <1>1, <2>1, <2>4 DEF Plays, Fails, Waits, Rolls
  <2> QED BY <1>2, <2>2, <2>3, <2>4, ProgrammeOutcomes
<1>3. CASE UNCHANGED sessionVars
  <2>1. UNCHANGED <<state, armed, ready, playback_delay, target_delay, last_input_dts>>
    BY <1>3 DEF sessionVars, vars, modeVars, dataVars, timeVars
  <2> QED BY <2>1 DEF AgeInv, Plays, Limit
<1>4. CASE TakeReady
  <2>1. UNCHANGED <<state, armed, playback_delay, target_delay>> /\ ready' = <<>>
    BY <1>4 DEF TakeReady, TakeReadyPackets, modeVars
  <2>2. DOMAIN ready' = {}
    BY <2>1
  <2> QED BY <2>1, <2>2 DEF AgeInv, Plays, Limit
<1>5. CASE StartDelay
  BY <1>5, RewindKeepsAge DEF StartDelay, Rewind, PlayHistory
<1>6. CASE GoLive \/ GoBackLive \/ Dump \/ StopCapture
  BY <1>1, <1>6 DEF GoLive, StartLive, GoBackLive, ResumeLive, Dump, StopCapture,
                    EmergencyDump, ReturnLive, DropEverything, Plays
<1>7. CASE \E t \in Targets : StartCapture(t)
  BY <1>1, <1>7 DEF StartCapture, Arm, Plays
<1> QED BY <1>2, <1>3, <1>4, <1>5, <1>6, <1>7, SessionCases

LEMMA AgeInvInvariant == SessionSpec => []AgeInv
<1> USE ControllerConstants, SlotConstants
<1>1. SessionInit => AgeInv
  BY DEF SessionInit, Init, AgeInv, Plays
<1>2. SessionInv /\ PictureInv /\ AgeInv /\ [SessionNext]_sessionVars => AgeInv'
  BY AgeInvNext
<1> QED BY <1>1, <1>2, SessionInvInvariant, PictureInvInvariant, PTL DEF SessionSpec

\* A rewind never settles on less than the configured delay, and no packet is
\* released to a delayed viewer before it is older than that, for every delay.
THEOREM DelayStaysHonoured == SessionSpec => []DelayHonoured
<1>1. AgeInv => DelayHonoured
  BY DEF AgeInv, DelayHonoured, Plays
<1> QED BY <1>1, AgeInvInvariant, PTL
-----------------------------------------------------------------------------
(* The depth is kept while live.                                            *)

LEMMA RollKeepsOpening ==
  ASSUME NEW q \in Seq(Packets), NEW k \in 1..Len(q), NEW cutoff \in Int,
         IsKeyframe(q[1]), q[1].dts <= cutoff, RollPoint(q, k, cutoff)
  PROVE  /\ From(q, k) # <<>> /\ IsKeyframe(From(q, k)[1])
         /\ From(q, k)[1].dts \in Int /\ From(q, k)[1].dts <= cutoff
<1>1. From(q, k) # <<>> /\ From(q, k)[1] = q[k]
  BY EndsWithLast
<1>2. IsKeyframe(q[k]) /\ q[k].dts <= cutoff
  BY DEF RollPoint
<1>3. q[k].dts \in Int
  BY PicturesAre
<1> QED BY <1>1, <1>2, <1>3

\* A roll under marks that have only moved on leaves a rewind possible.
LEMMA RollKeepsDepth ==
  ASSUME SessionInv, DeepEnough, UNCHANGED target_delay,
         NEW q \in Seq(Packets), q[1] = buffered[1], NEW k \in 1..Len(q),
         video_watermark' \in Int, audio_watermark' \in Int, ControllerConstants,
         video_watermark <= video_watermark', audio_watermark <= audio_watermark',
         RollPoint(q, k, LowerOf(video_watermark', audio_watermark') - target_delay),
         buffered' = From(q, k)
  PROVE  DeepEnough'
<1>1. /\ target_delay \in Nat
      /\ video_watermark \in Int \cup {None} /\ audio_watermark \in Int \cup {None}
      /\ buffered \in Seq(Packets)
  BY DEF SessionInv, MediaInv, TypeOK
<1>2. /\ buffered # <<>> /\ IsKeyframe(q[1])
      /\ video_watermark \in Int /\ audio_watermark \in Int
      /\ LowerOf(video_watermark, audio_watermark) - q[1].dts >= target_delay
  BY <1>1 DEF DeepEnough
<1>3. PICK low \in Int : low = LowerOf(video_watermark, audio_watermark)
  BY <1>2 DEF LowerOf
<1>4. PICK lower \in Int : lower = LowerOf(video_watermark', audio_watermark')
  BY DEF LowerOf
<1>5. low <= lower
  BY <1>2, <1>3, <1>4 DEF LowerOf
<1>6. q[1].dts \in Int
  <2>1. PICK n \in Nat : n = Len(q)
    BY LenProperties
  <2>2. 1 \in 1..n
    BY <2>1
  <2> QED BY <2>1, <2>2, PicturesAre
<1>7. lower - target_delay \in Int /\ q[1].dts <= lower - target_delay
  BY <1>1, <1>2, <1>3, <1>5, <1>6
<1>8. /\ buffered' # <<>> /\ IsKeyframe(buffered'[1])
      /\ buffered'[1].dts \in Int /\ buffered'[1].dts <= lower - target_delay
  BY <1>2, <1>4, <1>7, RollKeepsOpening
<1>9. lower - buffered'[1].dts >= target_delay
  BY <1>1, <1>8
<1>10. (LowerOf(video_watermark, audio_watermark))' = lower
  BY <1>4 DEF LowerOf
<1>11. video_watermark' # None /\ audio_watermark' # None
  BY DEF ControllerConstants
<1>12. target_delay' = target_delay
  OBVIOUS
<1> QED BY <1>8, <1>9, <1>10, <1>11, <1>12 DEF DeepEnough, IsKeyframe

LEMMA RollsKeepDepth ==
  ASSUME ControllerConstants, SessionInv, DeepEnough, NEW p, Takes(p), Rolls(p)
  PROVE  DeepEnough'
<1>1. MediaInv /\ p \in Packets /\ buffered # <<>>
      /\ video_watermark # None /\ audio_watermark # None
  BY DEF SessionInv, Takes, DeepEnough
<1>2. Stored(p) \in Seq(Packets) /\ Stored(p)[1] = buffered[1]
  BY <1>1, StoredIs
<1>3. /\ VideoMark(p) \in Int /\ AudioMark(p) \in Int
      /\ VideoMark(p) # None /\ AudioMark(p) # None
      /\ video_watermark <= VideoMark(p) /\ audio_watermark <= AudioMark(p)
  BY <1>1, TakesMarks
<1>4. video_watermark' = VideoMark(p) /\ audio_watermark' = AudioMark(p)
  BY DEF Rolls, Marks
<1>5. PICK k \in 1..Len(Stored(p)) : Rolled(p, k) /\ buffered' = From(Stored(p), k)
  BY DEF Rolls
<1>6. RollPoint(Stored(p), k, LowerOf(VideoMark(p), AudioMark(p)) - target_delay)
  BY <1>3, <1>5 DEF Rolled
<1>7. UNCHANGED target_delay
  BY DEF Takes, modeVars
<1> QED BY <1>2, <1>3, <1>4, <1>5, <1>6, <1>7, RollKeepsDepth

LEMMA DepthStep ==
  ASSUME ControllerConstants, SlotConstants, SessionInv, [SessionNext]_sessionVars,
         armed, armed', state' # "Error", DeepEnough
  PROVE  DeepEnough'
<1>1. ASSUME UNCHANGED <<buffered, video_watermark, audio_watermark, target_delay>>
      PROVE  DeepEnough'
  BY <1>1 DEF DeepEnough, LowerOf
<1>2. ASSUME NEW p, Takes(p) PROVE DeepEnough'
  <2>1. ~Passes(p) /\ ~Fails(p) /\ ~Waits(p) /\ ~Releases(p)
    BY DEF DeepEnough, Passes, Fails, Waits, Releases
  <2> QED BY <1>2, <2>1, ProgrammeOutcomes, RollsKeepDepth
<1>3. CASE UNCHANGED sessionVars
  BY <1>1, <1>3 DEF sessionVars, vars, dataVars, waterVars, modeVars
<1>4. CASE GoLive
  BY <1>1, <1>4 DEF GoLive, StartLive, waterVars
<1>5. CASE TakeReady
  BY <1>1, <1>5 DEF TakeReady, TakeReadyPackets, waterVars, modeVars
<1>6. CASE GoBackLive
  <2>1. UNCHANGED <<video_watermark, audio_watermark, target_delay>>
    BY <1>6 DEF GoBackLive, ResumeLive, waterVars
  <2>2. video_watermark # None /\ audio_watermark # None /\ buffered # <<>>
    BY DEF DeepEnough
  <2>3. /\ buffered \in Seq(Packets)
        /\ video_watermark \in Int \cup {None} /\ audio_watermark \in Int \cup {None}
    BY DEF SessionInv, MediaInv, TypeOK
  <2>4. PICK k \in DOMAIN buffered :
          /\ RollPoint(buffered, k, LowerOf(video_watermark, audio_watermark) - target_delay)
          /\ buffered' = From(buffered, k)
    BY <1>6, <2>2 DEF GoBackLive, ResumeLive
  <2>5. k \in 1..Len(buffered)
    BY <2>3, <2>4, DomainIsInterval
  <2>6. /\ video_watermark' \in Int /\ audio_watermark' \in Int
        /\ video_watermark' = video_watermark /\ audio_watermark' = audio_watermark
        /\ video_watermark <= video_watermark' /\ audio_watermark <= audio_watermark'
    BY <2>1, <2>2, <2>3
  <2>7. RollPoint(buffered, k, LowerOf(video_watermark', audio_watermark') - target_delay)
    BY <2>4, <2>6
  <2> QED BY <2>1, <2>3, <2>4, <2>5, <2>6, <2>7, RollKeepsDepth
<1>7. CASE StartDelay \/ Dump \/ StopCapture
  BY <1>7 DEF StartDelay, Rewind, PlayHistory, Dump, StopCapture, EmergencyDump,
              ReturnLive, DropEverything
<1>8. ASSUME NEW t \in Targets, StartCapture(t) PROVE FALSE
  BY <1>8 DEF StartCapture, SessionInv, Modes
<1> QED BY <1>2, <1>3, <1>4, <1>5, <1>6, <1>7, <1>8, SessionCases

\* While live, whatever is rolled away, a history deep enough to rewind into
\* stays deep enough, for every delay and keyframe pattern.
THEOREM DepthIsNeverLost == SessionSpec => DepthIsKept
<1> USE ControllerConstants, SlotConstants
<1>1. SessionInv /\ [SessionNext]_sessionVars =>
        [armed /\ armed' /\ state' # "Error" /\ DeepEnough => DeepEnough']_sessionVars
  BY DepthStep
<1> QED BY <1>1, SessionInvInvariant, PTL DEF SessionSpec, DepthIsKept
=============================================================================
