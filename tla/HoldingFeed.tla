------------------------------ MODULE HoldingFeed ------------------------------
(***************************************************************************)
(* The compressed feed of the holding picture: holding-feed.cpp.  Two       *)
(* encoders fill it from their own threads, the pipeline worker drains it;  *)
(* every call holds the one mutex.  A packet keeps what the feed looks at;  *)
(* pts and payload are left out.  Time since begin() is counted in ticks.   *)
(* announced and tail are not in the code: whether the failure callback was *)
(* called, and the dts of the last packet drained, since begin().           *)
(***************************************************************************)
EXTENDS Naturals, Sequences, FiniteSets

CONSTANTS
  Configs,       \* codec configurations
  Dts, Sizes,    \* bound of the model: decoding times and payload sizes
  Readiness,     \* ticks in readiness_limit
  QueueDuration, \* queue_duration_us
  QueueBytes,    \* queue_byte_limit
  QueuePackets,  \* 4096 in the code
  None

ASSUME FeedConstants ==
  /\ Dts \subseteq Nat /\ Sizes \subseteq Nat \ {0}
  /\ Readiness \in Nat \ {0} /\ QueueDuration \in Nat
  /\ QueueBytes \in Nat /\ QueuePackets \in Nat
  /\ None \notin Configs /\ None \notin Nat

Kinds == {"video", "audio"}
Packets == [kind : {"video"}, keyframe : BOOLEAN, dts : Dts, size : Sizes]
           \cup [kind : {"audio"}, keyframe : {FALSE}, dts : Dts, size : Sizes]

VARIABLES
  state, headers, age,  \* age: ticks since begin
  packets, queued_bytes,
  keyframe, audio, video_cutoff,
  last,                 \* last_video_dts_, last_audio_dts_
  minimum, maximum,     \* minimum_dts_, maximum_dts_
  tail, announced

gateVars == <<keyframe, audio, video_cutoff, last, minimum, maximum>>
feedVars == <<state, headers, age, packets, queued_bytes, gateVars, tail,
              announced>>

FeedInit ==
  /\ state = "Stopped" /\ headers = None /\ age = 0
  /\ packets = <<>> /\ queued_bytes = 0
  /\ keyframe = FALSE /\ audio = FALSE /\ video_cutoff = 0
  /\ last = [k \in Kinds |-> None] /\ minimum = None /\ maximum = None
  /\ tail = None /\ announced = FALSE

-----------------------------------------------------------------------------
(* begin, stop, fail and the deadline.                                      *)

Begin ==
  /\ state' = "Starting" /\ headers' = None /\ age' = 0
  /\ packets' = <<>> /\ queued_bytes' = 0
  /\ keyframe' = FALSE /\ audio' = FALSE /\ video_cutoff' = 0
  /\ last' = [k \in Kinds |-> None] /\ minimum' = None /\ maximum' = None
  /\ tail' = None /\ announced' = FALSE

\* What was last seen is left for begin() to clear.
Stop ==
  /\ state' = "Stopped" /\ headers' = None
  /\ packets' = <<>> /\ queued_bytes' = 0
  /\ keyframe' = FALSE /\ audio' = FALSE /\ video_cutoff' = 0
  /\ UNCHANGED <<age, last, minimum, maximum, tail, announced>>

Failing ==
  /\ state' = "Failed" /\ announced' = TRUE
  /\ packets' = <<>> /\ queued_bytes' = 0 /\ headers' = None
Latched == state \in {"Stopped", "Failed"}
Fail ==
  /\ IF Latched THEN UNCHANGED <<state, announced, packets, queued_bytes, headers>>
                ELSE Failing
  /\ UNCHANGED <<age, gateVars, tail>>

Expired == state = "Starting" /\ age >= Readiness
\* check_deadline_locked comes first in every call from an encoder.
Expire == Expired /\ Failing /\ UNCHANGED <<age, gateVars, tail>>
Closed == Latched /\ UNCHANGED feedVars
Open == ~Latched /\ ~Expired
CheckDeadline == Expire \/ (~Expired /\ UNCHANGED feedVars)

Tick ==
  /\ state = "Starting" /\ age < Readiness
  /\ age' = age + 1
  /\ UNCHANGED <<state, headers, packets, queued_bytes, gateVars, tail,
                 announced>>

-----------------------------------------------------------------------------
(* set_headers and ingest, called by the encoders.                          *)

\* update_ready_locked, from what the call leaves behind.
Update(hasKey, hasAudio, config) ==
  state' = IF hasKey /\ hasAudio /\ config # None THEN "Ready" ELSE state

SetHeaders(config) ==
  \/ Expire \/ Closed
  \/ /\ Open /\ headers \notin {None, config}
     /\ Failing /\ UNCHANGED <<age, gateVars, tail>>
  \/ /\ Open /\ headers \in {None, config}
     /\ headers' = config /\ Update(keyframe, audio, config)
     /\ UNCHANGED <<age, packets, queued_bytes, gateVars, tail, announced>>

Opens(p) == ~keyframe /\ p.kind = "video" /\ p.keyframe
CutoffAt(p) == IF Opens(p) THEN p.dts ELSE video_cutoff
Skipped(p) == \/ ~keyframe /\ ~Opens(p)
              \/ p.kind = "audio" /\ p.dts < video_cutoff
Backwards(p) == last[p.kind] # None /\ p.dts < last[p.kind]

LowerOf(a, b) == IF a < b THEN a ELSE b
HigherOf(a, b) == IF a < b THEN b ELSE a
Lowest(p)  == IF minimum = None THEN p.dts ELSE LowerOf(minimum, p.dts)
Highest(p) == IF maximum = None THEN p.dts ELSE HigherOf(maximum, p.dts)
Exceeds(p) == \/ p.size > QueueBytes - queued_bytes
              \/ Len(packets) >= QueuePackets
              \/ Highest(p) - Lowest(p) > QueueDuration

\* The packet has passed the gate.
Passes(p) ==
  /\ Open /\ ~Skipped(p)
  /\ keyframe' = TRUE /\ video_cutoff' = CutoffAt(p)
  /\ audio' = (audio \/ p.kind = "audio")
IngestSkipped(p) == Open /\ Skipped(p) /\ UNCHANGED feedVars
IngestBackwards(p) ==
  /\ Passes(p) /\ Backwards(p)
  /\ Failing /\ UNCHANGED <<age, last, minimum, maximum, tail>>
IngestFull(p) ==
  /\ Passes(p) /\ ~Backwards(p) /\ Exceeds(p)
  /\ last' = [last EXCEPT ![p.kind] = p.dts]
  /\ Failing /\ UNCHANGED <<age, minimum, maximum, tail>>
IngestKept(p) ==
  /\ Passes(p) /\ ~Backwards(p) /\ ~Exceeds(p)
  /\ last' = [last EXCEPT ![p.kind] = p.dts]
  /\ minimum' = Lowest(p) /\ maximum' = Highest(p)
  /\ packets' = Append(packets, p) /\ queued_bytes' = queued_bytes + p.size
  /\ Update(TRUE, audio', headers)
  /\ UNCHANGED <<headers, age, tail, announced>>
Ingest(p) == \/ Expire \/ Closed \/ IngestSkipped(p)
             \/ IngestBackwards(p) \/ IngestFull(p) \/ IngestKept(p)

-----------------------------------------------------------------------------
(* take_packets, called by the pipeline worker.                             *)

\* The stable sort: by dts, video before audio.
Precedes(i, j) ==
  LET p == packets[i]  q == packets[j] IN
  \/ p.dts < q.dts
  \/ p.dts = q.dts /\ p.kind = "video" /\ q.kind = "audio"
  \/ p.dts = q.dts /\ p.kind = q.kind /\ i < j
RankOf(i) == Cardinality({j \in DOMAIN packets : Precedes(j, i)}) + 1
Sorted == [r \in DOMAIN packets |->
             packets[CHOOSE i \in DOMAIN packets : RankOf(i) = r]]

\* Mutant: up to the faster encoder.
WatermarkOfFaster == HigherOf(last["video"], last["audio"])
Watermark == LowerOf(last["video"], last["audio"])
\* The bytes of a sequence of packets, counted one by one.
Bytes(s) == UNION {{i} \X (1..s[i].size) : i \in DOMAIN s}
BytesOf(s) == Cardinality(Bytes(s))
\* Mutant: the limits go on looking at what was drained.
WindowStale(rest) == UNCHANGED <<minimum, maximum>>
Window(rest) ==
  IF rest = <<>> THEN minimum' = None /\ maximum' = None
  ELSE minimum' = rest[1].dts /\ maximum' = rest[Len(rest)].dts

Unqueued(s) == queued_bytes - BytesOf(s)
Released == Cardinality({i \in DOMAIN Sorted : Sorted[i].dts <= Watermark})
Batch == SubSeq(Sorted, 1, Released)
TakePackets ==
  /\ state = "Ready"
  /\ packets' = SubSeq(Sorted, Released + 1, Len(Sorted))
  /\ queued_bytes' = Unqueued(Batch)
  /\ tail' = IF Batch = <<>> THEN tail ELSE Batch[Len(Batch)].dts
  /\ Window(packets')
  /\ UNCHANGED <<state, headers, age, keyframe, audio, video_cutoff, last,
                 announced>>

-----------------------------------------------------------------------------
FeedNext ==
  \/ Begin \/ Stop \/ Fail \/ CheckDeadline \/ Tick \/ TakePackets
  \/ \E c \in Configs : SetHeaders(c)
  \/ \E p \in Packets : Ingest(p)
FeedSpec == FeedInit /\ [][FeedNext]_feedVars

-----------------------------------------------------------------------------
(* Properties.                                                              *)

MaybeDts == Dts \cup {None}
FeedTypeOK ==
  /\ state \in {"Stopped", "Starting", "Ready", "Failed"}
  /\ headers \in Configs \cup {None} /\ age \in 0..Readiness
  /\ packets \in Seq(Packets) /\ queued_bytes \in 0..QueueBytes
  /\ keyframe \in BOOLEAN /\ audio \in BOOLEAN /\ video_cutoff \in Nat
  /\ last \in [Kinds -> MaybeDts]
  /\ minimum \in MaybeDts /\ maximum \in MaybeDts
  /\ tail \in MaybeDts /\ announced \in BOOLEAN

\* "Only release up to the slower stream's DTS watermark, preventing
\* regression across drains": whatever the order of the two callbacks, the
\* drains together are one stream that opens on the keyframe, with nothing
\* before it, and never goes back.
DrainsAreOneStream ==
  [][TakePackets /\ Batch # <<>> =>
       /\ \A i, j \in DOMAIN Batch : i < j => Batch[i].dts <= Batch[j].dts
       /\ IF tail = None THEN Batch[1].keyframe
                         ELSE tail <= Batch[1].dts]_feedVars

\* The window is "wide enough that a CPU-starved holding encoder pausing for
\* a few seconds does not end the broadcast": the queue limit is reported only
\* of packets that are held, never of what a drain has taken.
FailsOnlyWhenFull ==
  [][\A p \in Packets : IngestFull(p) =>
       \/ BytesOf(packets) + p.size > QueueBytes
       \/ Len(packets) >= QueuePackets
       \/ \E i \in DOMAIN packets :
            HigherOf(packets[i].dts, p.dts) - LowerOf(packets[i].dts, p.dts)
              > QueueDuration]_feedVars
=============================================================================
