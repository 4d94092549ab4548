---------------------------- MODULE RewindSession ----------------------------
(***************************************************************************)
(* The controller as the broadcast uses it.  One PipelineOwner worker arms *)
(* it, starts live output once the connection is up, feeds it programme in *)
(* DTS order and carries out accepted requests; the coordinator takes      *)
(* ready packets after a packet unless a newer request is already          *)
(* admitted, so ready may pile up across a request.  Requests are admitted *)
(* on another thread against a state that may have changed before the      *)
(* worker gets to them: each may therefore arrive in any mode.             *)
(***************************************************************************)
EXTENDS DelayController

CONSTANTS
  LastSlot,  \* the longest capture explored
  MaxGap     \* the longest pause between two packets, in slots

ASSUME SlotConstants ==
  /\ LastSlot \in Nat /\ MaxGap \in Nat
  /\ \A s \in 0..LastSlot : s \div 2 \in Dts

\* The owner releases packets in DTS order, video before equal-DTS audio, and
\* each stream advances strictly: slot 2d holds the video packet at DTS d and
\* slot 2d+1 the audio packet.
VARIABLE slot

sessionVars == <<vars, slot>>

SessionInit == Init /\ slot = -1

StartCapture(t) == target_delay = 0 /\ Arm(t) /\ slot' = -1

Programme(s, key) ==
  /\ target_delay # 0
  /\ s \in (slot + 1)..(slot + MaxGap) /\ s <= LastSlot
  /\ Ingest(IF s % 2 = 0 THEN "Video" ELSE "Audio", key, s \div 2)
  /\ slot' = s

GoLive == StartLive /\ UNCHANGED slot
TakeReady == TakeReadyPackets /\ UNCHANGED slot

\* TransitionCoordinator::request: in rewind mode Start Delay and Return Live
\* switch programme to programme and ignore a refusal; Dump starts over.
Requestable == rewind_mode /\ target_delay # 0 /\ state # "Error"
StartDelay == Requestable /\ Rewind /\ UNCHANGED slot
GoBackLive == Requestable /\ ResumeLive /\ UNCHANGED slot
Dump == Requestable /\ EmergencyDump /\ UNCHANGED slot

\* The worker's teardown, after a stop or a failure.
StopCapture == target_delay # 0 /\ ReturnLive /\ UNCHANGED slot

SessionNext ==
  \/ \E t \in Targets : StartCapture(t)
  \/ \E s \in 0..LastSlot, key \in BOOLEAN : Programme(s, key)
  \/ GoLive \/ TakeReady \/ StartDelay \/ GoBackLive \/ Dump \/ StopCapture

SessionSpec == SessionInit /\ [][SessionNext]_sessionVars

-----------------------------------------------------------------------------
\* A viewer who last decoded video packet v can decode q: its first packet is
\* a keyframe when there is nothing before it, and every dependent video
\* packet follows its predecessor with none missing.
Decodable(q, v) ==
  /\ q # <<>> /\ v = 0 => IsKeyframe(q[1])
  /\ \A i \in DOMAIN q :
       q[i].kind = "Video" /\ ~q[i].key =>
         q[i].vn = LastVideo(SubSeq(q, 1, i - 1), v) + 1

\* Whatever the order of requests, rolls, releases and takes, the packets
\* handed to the coordinator since the output last changed source decode
\* without a missing reference; while delayed that includes all the history
\* still to be played, so no packet is lost between release and take.
StreamDecodable ==
  Decodable(IF state = "Delayed" /\ ~armed THEN ready \o buffered ELSE ready, sent)

\* A delayed viewer is never shown a packet younger than the delay, and the
\* delay a rewind settles on is never shorter than the one configured.
DelayHonoured ==
  state = "Delayed" /\ ~armed =>
    /\ Limit >= target_delay
    /\ \A i \in DOMAIN ready : last_input_dts - ready[i].dts > Limit

\* The history never has a hole: from its oldest packet to the newest input
\* every video packet is there, across live output, rewinds and returns.
Pictures(q) == {i \in DOMAIN q : q[i].kind = "Video"}
Complete(q, n) ==
  \A i \in Pictures(q) :
    /\ \A j \in Pictures(q) : i < j => q[i].vn < q[j].vn
    /\ q[i].vn <= n /\ \A m \in q[i].vn..n : \E j \in Pictures(q) : q[j].vn = m
HistoryComplete == state # "Error" => Complete(buffered, videos)

DeepEnough ==
  /\ buffered # <<>> /\ IsKeyframe(buffered[1])
  /\ video_watermark # None /\ audio_watermark # None
  /\ LowerOf(video_watermark, audio_watermark) - buffered[1].dts >= target_delay

\* While live, a history deep enough to rewind into stays so: rolling never
\* gives away the keyframe Start Delay needs.
DepthIsKept ==
  [][armed /\ armed' /\ state' # "Error" /\ DeepEnough => DeepEnough']_sessionVars

\* README.md:151, leaving a delay that was playing: Return Live "keeps the
\* buffer, so Start Delay works again straight away".
ReturnLiveKeepsBufferReady ==
  [][GoBackLive /\ state = "Delayed" /\ playback_delay # None
       => PrebufferReady']_sessionVars
=============================================================================
