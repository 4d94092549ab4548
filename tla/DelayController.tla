--------------------------- MODULE DelayController ---------------------------
(***************************************************************************)
(* The compressed-media delay line: delay-controller.cpp / .hpp.  Every    *)
(* public operation locks mutex_ for its whole body, so each is one        *)
(* action.  A packet is a record of what the controller looks at; every    *)
(* payload weighs one byte, and PTS follows DTS.  The packet's vn numbers  *)
(* the video packets in input order and the variable sent remembers the    *)
(* last one handed to the caller since the output last changed source:     *)
(* neither is in the code, they let properties talk about the stream a     *)
(* viewer decodes.                                                         *)
(***************************************************************************)
EXTENDS Integers, Sequences

CONSTANTS
  Dts,         \* decode timestamps an encoder may stamp on a packet
  Int64,       \* timestamps that std::int64_t can represent
  Targets,     \* delays a caller may ask for
  MaxDelay,    \* BufferLimits::max_delay
  MaxBytes,    \* BufferLimits::max_bytes
  MaxHistory,  \* max_delay + 5 s, the time budget of an armed history
  MaxPackets,  \* the 262144-packet budget of an armed history
  None         \* an empty std::optional

ASSUME ControllerConstants ==
  /\ Int64 \subseteq Int /\ Dts \subseteq Int64
  /\ Targets \subseteq Nat
  /\ MaxDelay \in Nat /\ MaxBytes \in Nat \ {0}
  /\ MaxHistory \in Nat /\ MaxPackets \in Nat
  /\ None \notin Int

VARIABLES
  armed, passthrough, rewind_mode,  \* BOOLEAN flags
  playback_delay,                   \* age at which a rewound packet is due
  video_watermark, audio_watermark, \* newest DTS of each stream
  buffered, buffered_bytes,         \* history, and the bytes it holds
  ready,                            \* packets due, not yet taken
  state, target_delay,
  last_input_dts, timestamp_offset, rebase_next,
  waiting_for_live_keyframe, live_keyframe_dts, pending_trim,
  videos, sent                      \* history: see the header

timeVars  == <<last_input_dts, timestamp_offset, rebase_next>>
waterVars == <<video_watermark, audio_watermark>>
modeVars  == <<armed, passthrough, rewind_mode, playback_delay, target_delay>>
liveVars  == <<waiting_for_live_keyframe, live_keyframe_dts>>
dataVars  == <<buffered, buffered_bytes, ready>>
vars == <<timeVars, waterVars, modeVars, liveVars, dataVars, state,
          pending_trim, videos, sent>>

States == {"Live", "BuildingDelay", "Delayed", "Error"}
Packets == [kind : {"Video", "Audio"}, key : BOOLEAN, dts : Int, vn : Nat]

IsKeyframe(p) == p.kind = "Video" /\ p.key
Duration(q) == IF Len(q) < 2 THEN 0 ELSE q[Len(q)].dts - q[1].dts
From(q, k) == SubSeq(q, k, Len(q))

\* prebuffer_ready_locked for a history q under watermarks v and a: a whole
\* target's worth of it opens with a keyframe and has audio under it.
LowerOf(v, a) == IF v < a THEN v ELSE a
\* Mutant: readiness forgets how deep the history must reach.
ReadyHistoryAnyDepth(q, v, a) ==
  /\ armed /\ q # <<>> /\ v # None /\ a # None
  /\ IsKeyframe(q[1])
  /\ \E i \in DOMAIN q : q[i].kind = "Audio" /\ q[1].dts <= q[i].dts

ReadyHistory(q, v, a) ==
  /\ armed /\ q # <<>> /\ v # None /\ a # None
  /\ IsKeyframe(q[1])
  /\ LowerOf(v, a) - q[1].dts >= target_delay
  /\ \E i \in DOMAIN q : /\ q[i].kind = "Audio"
                         /\ q[1].dts <= q[i].dts /\ q[i].dts <= LowerOf(v, a)

PrebufferReady ==
  state # "Error" /\ ReadyHistory(buffered, video_watermark, audio_watermark)

-----------------------------------------------------------------------------
\* Cuts of a history q, each by the position k of the first packet kept.

\* Mutant: the roll also passes a keyframe one tick beyond the cutoff.
RollPointPastCutoff(q, k, cutoff) ==
  LET reached == {i \in 2..Len(q) : IsKeyframe(q[i]) /\ q[i].dts <= cutoff + 1}
  IN  \/ reached = {} /\ k = 1
      \/ k \in reached /\ \A i \in reached : i <= k

\* roll_prebuffer_locked: the last keyframe at or before the cutoff.
RollPoint(q, k, cutoff) ==
  LET reached == {i \in 2..Len(q) : IsKeyframe(q[i]) /\ q[i].dts <= cutoff}
  IN  \/ reached = {} /\ k = 1
      \/ k \in reached /\ \A i \in reached : i <= k

\* discard_to_next_keyframe_locked(): the first keyframe.
FirstKeyframe(q, k) ==
  /\ k \in DOMAIN q /\ IsKeyframe(q[k])
  /\ \A i \in 1..(k - 1) : ~IsKeyframe(q[i])

\* trim_to_target_locked: drop whole groups of pictures until what is left
\* lasts no longer than the target, or the last keyframe is reached.
TrimPoint(q, k, target) ==
  LET later == {i \in 2..Len(q) : IsKeyframe(q[i])}
      short == {i \in later : Duration(From(q, i)) <= target}
  IN  IF Duration(q) <= target \/ later = {} THEN k = 1
      ELSE IF short # {} THEN k \in short /\ \A i \in short : k <= i
      ELSE k \in later /\ \A i \in later : i <= k

\* promote_locked's release loop: the packets older than the limit are due.
ReleasePoint(q, k, limit) ==
  /\ k \in 1..(Len(q) + 1) /\ Duration(From(q, k)) <= limit
  /\ \A i \in 1..(k - 1) : Duration(From(q, i)) > limit

\* set_error_locked: an armed history is never usable after a failure.  The
\* caller has already stored q, weighing w, under watermarks v and a.
SetError(q, w, r, v, a) ==
  /\ state' = "Error"
  /\ buffered' = IF armed THEN <<>> ELSE q
  /\ buffered_bytes' = IF armed THEN 0 ELSE w
  /\ ready' = IF armed THEN <<>> ELSE r
  /\ video_watermark' = IF armed THEN None ELSE v
  /\ audio_watermark' = IF armed THEN None ELSE a

ClearBuffers == buffered' = <<>> /\ buffered_bytes' = 0 /\ ready' = <<>>
ClearWatermarks == video_watermark' = None /\ audio_watermark' = None
ResetTimestampTracking ==
  /\ last_input_dts' = None /\ timestamp_offset' = None /\ rebase_next' = FALSE
  /\ pending_trim' = FALSE
\* The next packet taken starts a new stream for the viewer.
NewSource == sent' = 0

-----------------------------------------------------------------------------
Init ==
  /\ armed = FALSE /\ passthrough = FALSE /\ rewind_mode = FALSE
  /\ playback_delay = None /\ target_delay = 0
  /\ video_watermark = None /\ audio_watermark = None
  /\ buffered = <<>> /\ buffered_bytes = 0 /\ ready = <<>>
  /\ state = "Live"
  /\ last_input_dts = None /\ timestamp_offset = None /\ rebase_next = FALSE
  /\ waiting_for_live_keyframe = TRUE /\ live_keyframe_dts = 0
  /\ pending_trim = FALSE
  /\ videos = 0 /\ sent = 0

Arm(t) ==
  /\ 0 < t /\ t <= MaxDelay
  /\ ClearBuffers /\ ResetTimestampTracking /\ ClearWatermarks
  /\ armed' = TRUE /\ passthrough' = FALSE /\ rewind_mode' = FALSE
  /\ playback_delay' = None /\ target_delay' = t
  /\ state' = "BuildingDelay"
  /\ NewSource /\ videos' = 0 /\ UNCHANGED liveVars

StartLive ==
  /\ armed /\ ~passthrough /\ state # "Error"
  /\ ready' = <<>>
  /\ passthrough' = TRUE /\ rewind_mode' = TRUE
  /\ waiting_for_live_keyframe' = TRUE
  /\ state' = "Live"
  /\ NewSource
  /\ UNCHANGED <<armed, playback_delay, target_delay, waterVars, timeVars, videos,
                 buffered, buffered_bytes, live_keyframe_dts, pending_trim>>

\* What begin_broadcast and rewind share: the history starts playing at the
\* age its oldest packet has now.
PlayHistory ==
  /\ PrebufferReady
  /\ playback_delay' = buffered[Len(buffered)].dts - buffered[1].dts
  /\ armed' = FALSE /\ state' = "Delayed"
  /\ NewSource
  /\ UNCHANGED <<rewind_mode, target_delay, waterVars, timeVars, liveVars,
                 buffered, buffered_bytes, pending_trim, videos>>

BeginBroadcast == PlayHistory /\ UNCHANGED <<passthrough, ready>>

Rewind ==
  /\ passthrough
  /\ PlayHistory
  /\ ready' = <<>> /\ passthrough' = FALSE

ResumeLive ==
  /\ rewind_mode /\ ~passthrough /\ target_delay > 0 /\ state # "Error"
  /\ ready' = <<>> /\ playback_delay' = None /\ pending_trim' = FALSE
  /\ armed' = TRUE /\ passthrough' = TRUE /\ waiting_for_live_keyframe' = TRUE
  /\ state' = "Live"
  /\ IF video_watermark # None /\ audio_watermark # None /\ buffered # <<>>
     THEN \E k \in DOMAIN buffered :
            /\ RollPoint(buffered, k,
                 LowerOf(video_watermark, audio_watermark) - target_delay)
            /\ buffered' = From(buffered, k)
            /\ buffered_bytes' = buffered_bytes - (k - 1)
     ELSE UNCHANGED <<buffered, buffered_bytes>>
  /\ NewSource
  /\ UNCHANGED <<rewind_mode, target_delay, waterVars, timeVars,
                 live_keyframe_dts, videos>>

-----------------------------------------------------------------------------
\* set_target(target, error) clears playback_delay_ before it validates.
SetTargetRefused(t) ==
  /\ ~armed /\ t > MaxDelay
  /\ playback_delay' = None
  /\ UNCHANGED <<armed, passthrough, rewind_mode, target_delay, waterVars,
       timeVars, liveVars, dataVars, state, pending_trim, videos, sent>>

SetTargetLive ==
  /\ ~armed
  /\ playback_delay' = None /\ target_delay' = 0
  /\ ClearBuffers /\ ResetTimestampTracking
  /\ waiting_for_live_keyframe' = TRUE
  /\ state' = "Live"
  /\ NewSource
  /\ UNCHANGED <<armed, passthrough, rewind_mode, waterVars, live_keyframe_dts,
                 videos>>

SetTargetDelay(t) ==
  /\ ~armed /\ 0 < t /\ t <= MaxDelay
  /\ playback_delay' = None /\ target_delay' = t
  /\ ready' = IF state = "Live" \/ t # target_delay THEN <<>> ELSE ready
  /\ \/ /\ state = "Live" \/ t > Duration(buffered)
        /\ state' = "BuildingDelay" /\ pending_trim' = FALSE
        /\ UNCHANGED <<buffered, buffered_bytes>>
     \/ /\ state # "Live" /\ t <= Duration(buffered)
        /\ \E k \in 1..(Len(buffered) + 1) :
             /\ TrimPoint(buffered, k, t)
             /\ buffered' = From(buffered, k)
             /\ buffered_bytes' = buffered_bytes - (k - 1)
        /\ pending_trim' = (Duration(buffered') > t)
        /\ state' = IF pending_trim' THEN "BuildingDelay" ELSE "Delayed"
  /\ NewSource
  /\ UNCHANGED <<armed, passthrough, rewind_mode, waterVars, timeVars, liveVars,
                 videos>>

\* return_live followed by clearing (t = 0) or by set_target(t): the latter is
\* the coordinator's emergency dump, which keeps the configured delay.
DropEverything(t) ==
  /\ armed' = FALSE /\ passthrough' = FALSE /\ playback_delay' = None
  /\ ClearWatermarks /\ ClearBuffers /\ ResetTimestampTracking
  /\ target_delay' = t
  /\ state' = IF t = 0 THEN "Live" ELSE "BuildingDelay"
  /\ waiting_for_live_keyframe' = TRUE
  /\ NewSource
  /\ UNCHANGED <<live_keyframe_dts, videos>>

ReturnLive == DropEverything(0) /\ UNCHANGED rewind_mode
EmergencyDump == DropEverything(target_delay) /\ UNCHANGED rewind_mode
ResetForDiscontinuity == DropEverything(0) /\ rewind_mode' = FALSE

BeginTimestampEpoch ==
  /\ timestamp_offset' = None /\ rebase_next' = TRUE
  /\ UNCHANGED <<waterVars, modeVars, liveVars, dataVars, state, pending_trim,
                 last_input_dts, videos, sent>>

-----------------------------------------------------------------------------
\* normalize_timestamp_locked: after begin_timestamp_epoch the first packet
\* fixes an offset that continues one tick after the last packet.
Rebases == rebase_next /\ last_input_dts # None
NextOffset(raw) == IF Rebases THEN last_input_dts + 1 - raw ELSE timestamp_offset
OffsetFits(raw) ==
  Rebases => last_input_dts + 1 \in Int64 /\ NextOffset(raw) \in Int64
Normalized(raw) == IF NextOffset(raw) = None THEN raw ELSE raw + NextOffset(raw)
TimestampFits(raw) == OffsetFits(raw) /\ Normalized(raw) \in Int64

IngestUnrepresentable(raw) ==
  /\ ~TimestampFits(raw)
  /\ timestamp_offset' = IF OffsetFits(raw) THEN NextOffset(raw)
                                            ELSE timestamp_offset
  /\ SetError(buffered, buffered_bytes, ready, video_watermark, audio_watermark)
  /\ UNCHANGED <<last_input_dts, liveVars, pending_trim>>

\* Live output waits for a keyframe, and for audio not older than it.
StartsLive(p) == waiting_for_live_keyframe /\ IsKeyframe(p)
LiveFrom(p) == IF StartsLive(p) THEN p.dts ELSE live_keyframe_dts
\* Mutant: live output does not wait for a keyframe.
EmitsAtOnce(p) == state = "Live" /\ (p.kind = "Audio" => p.dts >= LiveFrom(p))

Emits(p) ==
  /\ state = "Live"
  /\ waiting_for_live_keyframe => IsKeyframe(p)
  /\ p.kind = "Audio" => p.dts >= LiveFrom(p)
ReadyWith(p) == IF Emits(p) THEN Append(ready, p) ELSE ready

\* Mutant: only what is emitted live is kept as history.
KeepsEmitted(p) ==
  /\ state = "Live" => passthrough /\ Emits(p)
  /\ (state = "BuildingDelay" \/ passthrough) /\ buffered = <<>> => IsKeyframe(p)

\* Nothing is kept: plain live output, or a packet that depends on media the
\* empty history does not hold.
Keeps(p) ==
  /\ state = "Live" => passthrough
  /\ (state = "BuildingDelay" \/ passthrough) /\ buffered = <<>> => IsKeyframe(p)

IngestPassed(p) ==
  /\ ~Keeps(p)
  /\ ready' = ReadyWith(p)
  /\ UNCHANGED <<waterVars, buffered, buffered_bytes, state, pending_trim>>

\* Mutant: the packet is compared with the oldest one kept.
MovesBackBeyondAll(p) == buffered # <<>> /\ p.dts < buffered[1].dts

MovesBack(p) == buffered # <<>> /\ p.dts < buffered[Len(buffered)].dts
IngestBackwards(p) ==
  /\ Keeps(p) /\ MovesBack(p)
  /\ SetError(buffered, buffered_bytes, ReadyWith(p),
              video_watermark, audio_watermark)
  /\ UNCHANGED pending_trim

VideoMark(p) == IF p.kind = "Video" THEN p.dts ELSE video_watermark
AudioMark(p) == IF p.kind = "Audio" THEN p.dts ELSE audio_watermark
Stored(p) == Append(buffered, p)

\* An armed controller only rolls its history: it never plays it.
Rolled(p, k) ==
  IF VideoMark(p) = None \/ AudioMark(p) = None THEN k = 1
  ELSE RollPoint(Stored(p), k,
                 LowerOf(VideoMark(p), AudioMark(p)) - target_delay)
OverBudget(q, bytes) ==
  bytes > MaxBytes \/ Len(q) > MaxPackets \/ Duration(q) > MaxHistory
RolledState(p, q) ==
  IF passthrough \/ VideoMark(p) = None \/ AudioMark(p) = None THEN state
  ELSE IF ReadyHistory(q, VideoMark(p), AudioMark(p)) THEN "Delayed"
  ELSE "BuildingDelay"

IngestArmed(p) ==
  /\ Keeps(p) /\ ~MovesBack(p) /\ armed
  /\ \E k \in DOMAIN Stored(p) :
       LET kept == From(Stored(p), k)
           bytes == buffered_bytes + 1 - (k - 1)
       IN  /\ Rolled(p, k)
           /\ IF OverBudget(kept, bytes)
              THEN SetError(kept, bytes, ReadyWith(p), VideoMark(p), AudioMark(p))
              ELSE /\ buffered' = kept /\ buffered_bytes' = bytes
                   /\ ready' = ReadyWith(p)
                   /\ state' = RolledState(p, kept)
                   /\ video_watermark' = VideoMark(p)
                   /\ audio_watermark' = AudioMark(p)
  /\ UNCHANGED pending_trim

\* promote_locked, with the byte limit that is checked before it.
IngestOverflow(p) ==
  /\ Keeps(p) /\ ~MovesBack(p) /\ ~armed
  /\ buffered_bytes + 1 > MaxBytes
  /\ SetError(Stored(p), buffered_bytes + 1, ReadyWith(p),
              VideoMark(p), AudioMark(p))
  /\ UNCHANGED pending_trim

Limit == IF playback_delay = None THEN target_delay ELSE playback_delay

\* The group of pictures playback starts from, once enough is buffered.
StartPoint(q, k) ==
  IF state = "BuildingDelay" /\ Duration(q) >= target_delay
  THEN FirstKeyframe(q, k) ELSE k = 1
PlaysAfter(q) ==
  state = "Delayed" \/ (state = "BuildingDelay" /\ Duration(q) >= target_delay)

IngestPromoted(p) ==
  /\ Keeps(p) /\ ~MovesBack(p) /\ ~armed
  /\ buffered_bytes + 1 <= MaxBytes
  /\ video_watermark' = VideoMark(p) /\ audio_watermark' = AudioMark(p)
  /\ \E t \in 1..(Len(Stored(p)) + 1) :
       LET q == From(Stored(p), t)
           blocked == pending_trim /\ Duration(q) > target_delay
           left == buffered_bytes + 1 - (t - 1)
       IN  /\ IF pending_trim THEN TrimPoint(Stored(p), t, target_delay) ELSE t = 1
           /\ pending_trim' = blocked
           /\ \/ /\ blocked \/ ~PlaysAfter(q)
                 /\ buffered' = q /\ buffered_bytes' = left
                 /\ ready' = ReadyWith(p)
                 /\ UNCHANGED state
              \/ /\ ~blocked /\ PlaysAfter(q)
                 /\ \E s \in DOMAIN q, r \in 1..(Len(q) + 1) :
                      LET keyed == From(q, s)
                      IN  /\ StartPoint(q, s) /\ ReleasePoint(keyed, r, Limit)
                          /\ ready' = ReadyWith(p) \o SubSeq(keyed, 1, r - 1)
                          /\ buffered' = From(keyed, r)
                          /\ buffered_bytes' = left - (s - 1) - (r - 1)
                 /\ state' = "Delayed"
              \/ /\ ~blocked /\ state = "BuildingDelay"
                 /\ Duration(q) >= target_delay
                 /\ \A s \in DOMAIN q : ~FirstKeyframe(q, s)
                 /\ SetError(q, left, ReadyWith(p), VideoMark(p), AudioMark(p))

Ingest(kind, key, raw) ==
  /\ state # "Error"
  /\ kind = "Audio" => ~key
  /\ rebase_next' = FALSE
  /\ videos' = IF kind = "Video" THEN videos + 1 ELSE videos
  /\ UNCHANGED <<modeVars, sent>>
  /\ \/ IngestUnrepresentable(raw)
     \/ LET p == [kind |-> kind, key |-> key, dts |-> Normalized(raw),
                  vn |-> videos']
        IN  /\ TimestampFits(raw)
            /\ timestamp_offset' = NextOffset(raw)
            /\ last_input_dts' = p.dts
            /\ IF state = "Live"
               THEN /\ waiting_for_live_keyframe' =
                         (waiting_for_live_keyframe /\ ~IsKeyframe(p))
                    /\ live_keyframe_dts' = LiveFrom(p)
               ELSE UNCHANGED liveVars
            /\ \/ IngestPassed(p) \/ IngestBackwards(p) \/ IngestArmed(p)
               \/ IngestOverflow(p) \/ IngestPromoted(p)

LastVideo(q, none) ==
  LET v == {i \in DOMAIN q : q[i].kind = "Video"}
  IN  IF v = {} THEN none ELSE q[CHOOSE i \in v : \A j \in v : j <= i].vn

TakeReadyPackets ==
  /\ ready # <<>>
  /\ ready' = <<>>
  /\ sent' = LastVideo(ready, sent)
  /\ UNCHANGED <<timeVars, waterVars, modeVars, liveVars, buffered,
                 buffered_bytes, state, pending_trim, videos>>

-----------------------------------------------------------------------------
Next ==
  \/ \E t \in Targets : Arm(t) \/ SetTargetRefused(t) \/ SetTargetDelay(t)
  \/ SetTargetLive \/ StartLive \/ BeginBroadcast \/ Rewind \/ ResumeLive
  \/ ReturnLive \/ EmergencyDump \/ ResetForDiscontinuity
  \/ BeginTimestampEpoch \/ TakeReadyPackets
  \/ \E kind \in {"Video", "Audio"}, key \in BOOLEAN, raw \in Dts :
       Ingest(kind, key, raw)

Spec == Init /\ [][Next]_vars

-----------------------------------------------------------------------------
\* Type invariant.
TypeOK ==
  /\ armed \in BOOLEAN /\ passthrough \in BOOLEAN /\ rewind_mode \in BOOLEAN
  /\ playback_delay \in Int \cup {None}
  /\ video_watermark \in Int \cup {None} /\ audio_watermark \in Int \cup {None}
  /\ buffered \in Seq(Packets) /\ ready \in Seq(Packets)
  /\ buffered_bytes \in Int
  /\ state \in States /\ target_delay \in Nat
  /\ last_input_dts \in Int \cup {None} /\ timestamp_offset \in Int \cup {None}
  /\ rebase_next \in BOOLEAN /\ waiting_for_live_keyframe \in BOOLEAN
  /\ live_keyframe_dts \in Int /\ pending_trim \in BOOLEAN
  /\ videos \in Nat /\ sent \in Nat

\* Every path that drops, rolls, trims, releases or clears history gives back
\* exactly the bytes it held: over any sequence of calls the size accounting
\* that the memory limit is enforced by never drifts from the deque.
BytesTrackHistory == buffered_bytes = Len(buffered)

\* The history is in decode order whatever the encoder restarts and rebases
\* did, so Duration, the cutoffs and the release loop mean what they say.
HistoryInOrder ==
  \A i, j \in DOMAIN buffered : i < j => buffered[i].dts <= buffered[j].dts

\* Armed and off air, nothing is ever made available for release, and a failed
\* armed history leaves nothing a later call could replay.
ArmedIsSilent ==
  armed => /\ ~passthrough => ready = <<>>
           /\ state = "Error" => ready = <<>> /\ buffered = <<>>

\* An armed history reaches back one target delay at most one group of
\* pictures deeper than needed: no later keyframe could have replaced the
\* oldest packet.  Emergency limits therefore depend on the keyframe interval
\* and not on how long the capture runs.
HistoryTight ==
  armed /\ buffered # <<>> /\ video_watermark # None /\ audio_watermark # None
    => \A i \in 2..Len(buffered) :
         IsKeyframe(buffered[i]) =>
           buffered[i].dts > LowerOf(video_watermark, audio_watermark) - target_delay

\* What every caller relies on: whatever calls came before, in whatever order,
\* the history is weighed exactly, in order, no deeper than a rewind needs, and
\* never heard of while the capture is armed and off air.
HistorySound == BytesTrackHistory /\ HistoryInOrder /\ HistoryTight /\ ArmedIsSilent
=============================================================================
