------------------------------ MODULE RtmpSender ------------------------------
(***************************************************************************)
(* One RTMP destination: rtmp-sender.cpp, bounded-sender-queue.cpp and the  *)
(* cancellation flags of ffmpeg-rtmp-connection.cpp.  Four threads meet at  *)
(* mutex_: the pipeline (enqueue_epoch, invalidate_epoch), the owner that   *)
(* stops the sender, the startup watchdog and the sender's worker.  The     *)
(* worker is a state machine over w.pc whose steps are the code's critical  *)
(* sections; transport calls run between two of them, outside the mutex.    *)
(*                                                                          *)
(* A behaviour is one start() and the life of its worker.  The two codec    *)
(* headers are one write.  A batch is one dispatch of the coordinator: it   *)
(* advances media time by one unit and its ticket by one, so batch is the   *)
(* timestamp of its tags as well.  Tags have one size.  Three variables are *)
(* not in the code: wire is what the current connection has carried, feed   *)
(* is the pipeline that calls the sender, and Tag.batch and Tag.video tell  *)
(* where a tag comes from.                                                  *)
(***************************************************************************)
EXTENDS Integers, Sequences, FiniteSets

CONSTANTS
  Batches,    \* the sequences of tag kinds one dispatch may carry
  MaxTags,    \* SenderQueueLimits::max_tags
  DropSpan,   \* kCongestionDropMs
  Attempts,   \* SenderConfig::reconnect_attempts
  MaxEpoch,   \* bound of the model: publication epochs
  MaxBatch,   \* bound of the model: dispatches
  None        \* no header, no epoch, no tag

Kinds == {"key", "delta", "audio", "guard"}

ASSUME SenderConstants ==
  /\ Batches \subseteq Seq(Kinds) \ {<<>>}
  /\ MaxTags \in Nat \ {0} /\ DropSpan \in Nat \ {0}
  /\ Attempts \in Nat /\ MaxEpoch \in Nat \ {0} /\ MaxBatch \in Nat
  /\ None \notin Nat

VARIABLES
  state, stop_requested, startup_timed_out, watchdog,
  epoch, acknowledged_epoch, writing,
  transition_cancelled_transport, resume_after_transition,
  published_epoch, delivered_epoch, delivery_ticket,
  enqueued_ticket, carried_ticket, drop_video_until_keyframe,
  sequence_headers, header_revision, primed_revision,
  queue, closed,   \* BoundedSenderQueue
  connection,      \* interrupted_ and an armed cancel_deadline_ns_
  w,               \* what only the worker writes: its locals, reconnect_count_
  wire, feed       \* history: see the header

lifeVars   == <<state, stop_requested, startup_timed_out, watchdog>>
epochVars  == <<epoch, acknowledged_epoch, writing,
                transition_cancelled_transport, resume_after_transition>>
ackVars    == <<published_epoch, delivered_epoch, delivery_ticket>>
shedVars   == <<enqueued_ticket, carried_ticket, drop_video_until_keyframe>>
headerVars == <<sequence_headers, header_revision, primed_revision>>
queueVars  == <<queue, closed>>
vars == <<lifeVars, epochVars, ackVars, shedVars, headerVars, queueVars,
          connection, w, wire, feed>>

IsVideo(t) == t.kind \in {"key", "delta"}
Higher(a, b) == IF a > b THEN a ELSE b
Fresh == [interrupted |-> FALSE, armed |-> FALSE]
SilentWire == [epoch |-> None, headers |-> None, video |-> 0, audio |-> FALSE]

\* start(), up to the launch of the worker: lines 63-88.
Init ==
  /\ state = "Starting" /\ stop_requested = FALSE /\ startup_timed_out = FALSE
  /\ watchdog = "waiting"
  /\ epoch = 0 /\ acknowledged_epoch = 0 /\ writing = FALSE
  /\ transition_cancelled_transport = FALSE /\ resume_after_transition = FALSE
  /\ published_epoch = 0 /\ delivered_epoch = 0 /\ delivery_ticket = 0
  /\ enqueued_ticket = 0 /\ carried_ticket = 0 /\ drop_video_until_keyframe = FALSE
  /\ sequence_headers = 0 /\ header_revision = 0 /\ primed_revision = 0
  /\ queue = <<>> /\ closed = FALSE
  /\ connection = Fresh
  /\ w = [pc |-> "dial", after |-> "none", job |-> "none", tag |-> None,
          boot |-> TRUE, redial |-> FALSE, left |-> 0, awaiting |-> TRUE,
          media |-> 0, sel |-> None, selEpoch |-> 0, rev |-> 0,
          reconnected |-> FALSE]
  /\ wire = SilentWire
  /\ feed = [epoch |-> 1, batch |-> 0, videos |-> 0, phase |-> "boundary",
             guard |-> 0]

-----------------------------------------------------------------------------
(* Congestion: the queue and the batch at its door, with the ticket of what *)
(* was dropped carried to the next tag that is kept.                        *)

\* One iteration of BoundedSenderQueue::drop_video.
Carry(acc, t) ==
  IF IsVideo(t) THEN [acc EXCEPT !.carried = Higher(@, t.ticket)]
  ELSE [kept |-> Append(acc.kept, [t EXCEPT !.ticket = Higher(@, acc.carried)]),
        carried |-> 0]

Dropped(q) ==
  LET dropped[n \in 0..Len(q)] == IF n = 0 THEN [kept |-> <<>>, carried |-> 0]
                                  ELSE Carry(dropped[n - 1], q[n])
  IN  dropped
\* shed_queued_video_locked
Shed(q, carried) ==
  LET dropped == Dropped(q)[Len(q)]
  IN  [queue |-> dropped.kept, carried |-> Higher(carried, dropped.carried)]

\* Mutant: the ticket of a dropped tag goes with it.
ThinForgets(acc, t) ==
  IF acc.drop /\ t.kind = "delta" THEN acc
  ELSE [kept |-> Append(acc.kept, [t EXCEPT !.ticket = Higher(@, acc.carried)]),
        carried |-> 0, drop |-> acc.drop /\ ~IsVideo(t)]
\* One iteration of thin_incoming_video_locked.
ThinOne(acc, t) ==
  IF acc.drop /\ t.kind = "delta"
  THEN [acc EXCEPT !.carried = Higher(@, t.ticket)]
  ELSE [kept |-> Append(acc.kept, [t EXCEPT !.ticket = Higher(@, acc.carried)]),
        carried |-> 0, drop |-> acc.drop /\ ~IsVideo(t)]
Thinned(tags, carried, drop) ==
  LET thinned[n \in 0..Len(tags)] ==
        IF n = 0 THEN [kept |-> <<>>, carried |-> carried, drop |-> drop]
        ELSE ThinOne(thinned[n - 1], tags[n])
  IN  thinned
Thin(tags, carried, drop) == Thinned(tags, carried, drop)[Len(tags)]

\* try_push
Fits(q, tags) == ~closed /\ Len(q) + Len(tags) <= MaxTags

-----------------------------------------------------------------------------
(* The pipeline: NetworkPacketConsumer::consume and ::discontinuity.        *)

Resuming == state = "Reconnecting" /\ resume_after_transition
Dropping == state \in {"Starting", "Reconnecting"} /\ ~Resuming
Delivered(e, t) == /\ state \in {"Running", "Reconnecting"}
                   /\ delivered_epoch = e /\ delivery_ticket >= t

\* MultiTargetSender::delivery_ready does not wait for a secondary that is down
\* or has published nothing since it reconnected; one that ends refuses.
Skipped == \/ state \notin {"Starting", "Running"}
           \/ w.reconnected /\ published_epoch = 0
\* What the coordinator dispatches next.  An action's epoch may open with the
\* drain guard, under the headers of the picture it ends; the boundary brings
\* its own, waits for the guard unless this sender is skipped, and may open
\* with silence, as may any batch after it.  Video starts at a keyframe.
WithHeaders == feed.phase \in {"boundary", "guarded"}
MayDispatch(kinds) ==
  /\ feed.batch < MaxBatch
  /\ feed.phase # "failed"
  /\ feed.phase = "guarded" => Delivered(feed.epoch, feed.guard) \/ Skipped
  /\ \A i \in DOMAIN kinds :
        kinds[i] = "delta" => \/ feed.videos > 0
                              \/ \E j \in 1..(i - 1) : kinds[j] = "key"
NextPhases(kinds) ==
  {"flowing"} \cup {p \in {"guarded"} : /\ feed.phase = "boundary" /\ feed.epoch > 1
                                       /\ kinds = <<"guard">>}

HeaderId == IF WithHeaders THEN header_revision + 1 ELSE sequence_headers
VideosBefore(kinds, i) ==
  feed.videos + Cardinality({j \in 1..i : kinds[j] \in {"key", "delta"}})
TicketOf(kinds, i) == IF i = Len(kinds) THEN feed.batch + 1 ELSE 0
Tags(kinds) ==
  [i \in 1..Len(kinds) |->
     [kind |-> kinds[i], epoch |-> feed.epoch, batch |-> feed.batch + 1,
      ticket |-> TicketOf(kinds, i), video |-> VideosBefore(kinds, i),
      headers |-> HeaderId]]

\* reset_congestion_locked when the batch opens an epoch.
NewEpoch == feed.epoch # epoch
Carried0 == IF NewEpoch THEN 0 ELSE carried_ticket
Drop0    == ~NewEpoch /\ drop_video_until_keyframe
Congested(tags) ==
  /\ ~Drop0
  /\ queue # <<>>
  /\ tags[Len(tags)].batch - Head(queue).batch >= DropSpan

\* Lines 106-117, common to every outcome of enqueue_epoch.
Admit(kinds, phase) ==
  /\ feed.epoch >= epoch
  /\ epoch' = feed.epoch
  /\ enqueued_ticket' = feed.batch + 1
  /\ sequence_headers' = HeaderId
  /\ header_revision' = IF WithHeaders THEN header_revision + 1
                                       ELSE header_revision
  /\ feed' = [feed EXCEPT !.batch = @ + 1, !.phase = phase,
                 !.videos = VideosBefore(kinds, Len(kinds)),
                 !.guard = IF phase = "guarded" THEN feed.batch + 1 ELSE @]
  /\ UNCHANGED <<lifeVars, acknowledged_epoch, writing, published_epoch,
                 transition_cancelled_transport, resume_after_transition,
                 primed_revision, closed, connection, w, wire>>
Accept(kinds) == \E phase \in NextPhases(kinds) : Admit(kinds, phase)

\* Mutant: what is dropped while disconnected is never acknowledged.
EnqueueForgotten(kinds) ==
  /\ Dropping /\ MayDispatch(kinds) /\ Accept(kinds)
  /\ carried_ticket' = 0 /\ drop_video_until_keyframe' = FALSE
  /\ UNCHANGED <<queue, delivered_epoch, delivery_ticket>>
\* Lines 123-126 with acknowledge_dropped_locked.
EnqueueDropped(kinds) ==
  /\ Dropping /\ MayDispatch(kinds) /\ Accept(kinds)
  /\ delivered_epoch' = feed.epoch /\ delivery_ticket' = feed.batch + 1
  /\ carried_ticket' = 0 /\ drop_video_until_keyframe' = FALSE
  /\ UNCHANGED queue

\* Lines 127-131: the consumer throws and the pipeline fails.
EnqueueRefused(kinds) ==
  /\ ~Dropping /\ ~Resuming /\ state # "Running"
  /\ MayDispatch(kinds) /\ Admit(kinds, "failed")
  /\ carried_ticket' = Carried0 /\ drop_video_until_keyframe' = Drop0
  /\ UNCHANGED <<queue, delivered_epoch, delivery_ticket>>

\* Lines 134-148: shed if congested, thin, push; shed and thin again if full.
Relieved(tags) == IF Congested(tags) THEN Shed(queue, Carried0)
                  ELSE [queue |-> queue, carried |-> Carried0]
FirstTry(tags) == Thin(tags, Relieved(tags).carried, Drop0 \/ Congested(tags))
Emptied(tags)  == Shed(Relieved(tags).queue, FirstTry(tags).carried)
SecondTry(tags) == Thin(FirstTry(tags).kept, Emptied(tags).carried, TRUE)

EnqueuePushed(kinds) ==
  LET tags == Tags(kinds) IN
  /\ state = "Running" \/ Resuming
  /\ MayDispatch(kinds) /\ Accept(kinds)
  /\ Fits(Relieved(tags).queue, FirstTry(tags).kept)
  /\ queue' = Relieved(tags).queue \o FirstTry(tags).kept
  /\ carried_ticket' = FirstTry(tags).carried
  /\ drop_video_until_keyframe' = FirstTry(tags).drop
  /\ UNCHANGED <<delivered_epoch, delivery_ticket>>

EnqueueFull(kinds) ==
  LET tags == Tags(kinds)
      room == Fits(Emptied(tags).queue, SecondTry(tags).kept) IN
  /\ state = "Running" \/ Resuming
  /\ MayDispatch(kinds)
  /\ IF room THEN Accept(kinds) ELSE Admit(kinds, "failed")
  /\ ~Fits(Relieved(tags).queue, FirstTry(tags).kept)
  /\ queue' = Emptied(tags).queue \o (IF room THEN SecondTry(tags).kept ELSE <<>>)
  /\ carried_ticket' = SecondTry(tags).carried
  /\ drop_video_until_keyframe' = SecondTry(tags).drop
  /\ UNCHANGED <<delivered_epoch, delivery_ticket>>

\* Mutant: the fence is acknowledged while an older write is in flight.
FenceNow(e) == acknowledged_epoch' = e /\
  UNCHANGED <<transition_cancelled_transport, connection>>
\* Lines 211-218: the write in flight gets its grace period, or none is.
Fence(e) ==
  IF writing
  THEN /\ transition_cancelled_transport' = TRUE
       /\ connection' = [connection EXCEPT !.armed = TRUE]
       /\ UNCHANGED acknowledged_epoch
  ELSE /\ acknowledged_epoch' = e
       /\ UNCHANGED <<transition_cancelled_transport, connection>>

\* invalidate_epoch, for an action admitted at any moment.
InvalidateEpoch ==
  LET e == feed.epoch + 1 IN
  /\ e <= MaxEpoch /\ e > epoch /\ feed.phase # "failed"
  /\ epoch' = e
  /\ enqueued_ticket' = 0 /\ carried_ticket' = 0
  /\ drop_video_until_keyframe' = FALSE
  /\ queue' = <<>>
  /\ sequence_headers' = None /\ header_revision' = header_revision + 1
  /\ Fence(e)
  /\ feed' = [feed EXCEPT !.epoch = e, !.videos = 0, !.phase = "boundary",
                 !.guard = 0]
  /\ UNCHANGED <<lifeVars, writing, resume_after_transition, ackVars,
                 primed_revision, closed, w, wire>>

-----------------------------------------------------------------------------
(* The owner and the startup watchdog.                                      *)

\* Mutant: a stop does not wake the worker on its queue.
StopAsleep == UNCHANGED queueVars
StopQueue  == closed' = TRUE /\ queue' = <<>>
\* request_stop; a second call changes nothing.
RequestStop ==
  /\ ~stop_requested /\ state # "Stopped"
  /\ stop_requested' = TRUE /\ state' = "Stopping"
  /\ StopQueue
  /\ connection' = [connection EXCEPT !.interrupted = TRUE]
  /\ UNCHANGED <<startup_timed_out, watchdog, epochVars, ackVars, shedVars,
                 headerVars, w, wire, feed>>

\* stop_locked after the join: lines 254-266.
Join ==
  /\ stop_requested /\ w.pc = "done" /\ state # "Stopped"
  /\ state' = "Stopped" /\ sequence_headers' = None
  /\ UNCHANGED <<stop_requested, startup_timed_out, watchdog, epochVars,
                 ackVars, shedVars, header_revision, primed_revision,
                 queueVars, connection, w, wire, feed>>

\* Lines 293-302: the deadline passes first, and the interrupt that follows
\* reaches the connection read under the lock, if it has not been replaced.
WatchdogExpires ==
  /\ watchdog = "waiting" /\ w.boot /\ ~stop_requested
  /\ startup_timed_out' = TRUE /\ watchdog' = "expired"
  /\ UNCHANGED <<state, stop_requested, epochVars, ackVars, shedVars,
                 headerVars, queueVars, connection, w, wire, feed>>
WatchdogInterrupts ==
  /\ watchdog = "expired" /\ watchdog' = "done"
  /\ connection' = [connection EXCEPT !.interrupted = TRUE]
  /\ UNCHANGED <<state, stop_requested, startup_timed_out, epochVars, ackVars,
                 shedVars, headerVars, queueVars, w, wire, feed>>

-----------------------------------------------------------------------------
(* The worker.  Go moves it; Acked ends a transport call.                   *)

Go(pc) == w' = [w EXCEPT !.pc = pc]
sharedVars == <<lifeVars, epochVars, ackVars, shedVars, headerVars, queueVars,
                connection, wire, feed>>
Local(pc) == Go(pc) /\ UNCHANGED sharedVars

BeginIO ==
  /\ writing' = TRUE
  /\ UNCHANGED <<lifeVars, epoch, acknowledged_epoch,
                 transition_cancelled_transport, resume_after_transition,
                 ackVars, shedVars, headerVars, queueVars, connection, feed>>
\* Mutant: the end of a write does not acknowledge the epoch.
AckedNothing ==
  /\ writing' = FALSE
  /\ UNCHANGED <<lifeVars, epoch, acknowledged_epoch, resume_after_transition,
                 ackVars, shedVars, headerVars, queueVars, feed>>
Acked ==
  /\ writing' = FALSE /\ acknowledged_epoch' = epoch
  /\ UNCHANGED <<lifeVars, epoch, resume_after_transition, ackVars, shedVars,
                 headerVars, queueVars, feed>>
\* Mutant: the transition's deadline stays armed on a transport that is kept.
KeepArmed == transition_cancelled_transport' = FALSE /\ UNCHANGED connection
\* keep_transport_locked
KeepTransport ==
  /\ transition_cancelled_transport' = FALSE
  /\ connection' = IF transition_cancelled_transport
                   THEN [connection EXCEPT !.armed = FALSE] ELSE connection
LoseTransport == UNCHANGED <<transition_cancelled_transport, connection>>

\* connect_and_prime: lines 410-419.
Dial ==
  /\ w.pc = "dial"
  /\ IF stop_requested \/ startup_timed_out
     THEN Local("attemptFailed")
     ELSE Go("connecting") /\ BeginIO /\ UNCHANGED wire
Connected ==
  /\ w.pc = "connecting" /\ ~connection.interrupted
  /\ Acked /\ KeepTransport
  /\ w' = [w EXCEPT !.pc = "send", !.job = "file"]
  /\ wire' = SilentWire
ConnectFails ==
  /\ w.pc = "connecting" /\ Acked /\ LoseTransport /\ Go("attemptFailed")
  /\ UNCHANGED wire

\* The epoch a write belongs to; the FLV file header belongs to none.
JobEpoch == CASE w.job = "file" -> epoch
              [] w.job = "header" -> w.selEpoch
              [] w.job = "tag" -> w.tag.epoch
\* send_bytes: lines 450-455.  A write that is stale is reported as sent.
Send ==
  /\ w.pc = "send"
  /\ IF stop_requested \/ JobEpoch # epoch
     THEN Local("wrote")
     ELSE Go("sending") /\ BeginIO /\ UNCHANGED wire
\* What a completed write adds to the connection.
WireAfter ==
  CASE w.job = "file" -> wire
    [] w.job = "header" -> [wire EXCEPT !.headers = w.sel]
    [] w.job = "tag" ->
         LET on == IF wire.epoch = w.tag.epoch THEN wire
                   ELSE [SilentWire EXCEPT !.epoch = w.tag.epoch,
                                           !.headers = wire.headers]
         IN  [on EXCEPT !.video = IF IsVideo(w.tag) THEN w.tag.video ELSE @,
                        !.audio = @ \/ w.tag.kind = "audio"]
Sent ==
  /\ w.pc = "sending" /\ ~connection.interrupted
  /\ Acked /\ KeepTransport /\ Go("wrote")
  /\ wire' = WireAfter
SendFails ==
  /\ w.pc = "sending" /\ Acked /\ LoseTransport
  /\ w' = IF w.redial \/ w.boot
          THEN [w EXCEPT !.pc = "close", !.after = "attemptFailed"]
          ELSE [w EXCEPT !.pc = "reconnect"]
  /\ UNCHANGED wire

\* Lines 420-434, after the file header and after the codec headers.
ReadHeaders ==
  /\ w.pc = "wrote" /\ w.job = "file"
  /\ w' = [w EXCEPT !.sel = sequence_headers, !.selEpoch = epoch,
              !.rev = header_revision, !.job = "header",
              !.pc = IF sequence_headers = None THEN "wrote" ELSE "send"]
  /\ UNCHANGED sharedVars
Primed == primed_revision' = w.rev
ConnectPrimed ==
  /\ w.pc = "wrote" /\ w.job = "header" /\ (w.redial \/ w.boot)
  /\ Primed
  /\ Go(IF w.redial THEN "redialled" ELSE "booted")
  /\ UNCHANGED <<lifeVars, epochVars, ackVars, shedVars, sequence_headers,
                 header_revision, queueVars, connection, wire, feed>>

\* close_transport, towards w.after.
Close ==
  /\ w.pc = "close" /\ Go("closing") /\ BeginIO /\ UNCHANGED wire
Closed ==
  /\ w.pc = "closing" /\ Acked /\ LoseTransport /\ Go(w.after)
  /\ UNCHANGED wire

\* acknowledge_dropped_locked and discard_pending, together at every caller.
AckDropped ==
  /\ IF enqueued_ticket # 0
     THEN delivered_epoch' = epoch /\ delivery_ticket' = enqueued_ticket
     ELSE UNCHANGED <<delivered_epoch, delivery_ticket>>
  /\ carried_ticket' = 0 /\ drop_video_until_keyframe' = FALSE
  /\ queue' = <<>>
  /\ UNCHANGED enqueued_ticket
KeepPending ==
  UNCHANGED <<delivered_epoch, delivery_ticket, shedVars, queue>>

\* reconnect: lines 533-545.
ReconnectQueue ==
  IF transition_cancelled_transport
  THEN /\ delivered_epoch' = 0 /\ delivery_ticket' = 0
       /\ UNCHANGED <<shedVars, queue>>
  ELSE /\ IF enqueued_ticket # 0
          THEN delivered_epoch' = epoch /\ delivery_ticket' = enqueued_ticket
          ELSE delivered_epoch' = 0 /\ delivery_ticket' = 0
       /\ carried_ticket' = 0 /\ drop_video_until_keyframe' = FALSE
       /\ queue' = <<>>
       /\ UNCHANGED enqueued_ticket
Reconnect ==
  /\ w.pc = "reconnect"
  /\ state' = IF stop_requested THEN state ELSE "Reconnecting"
  /\ published_epoch' = 0
  /\ resume_after_transition' = transition_cancelled_transport
  /\ ReconnectQueue
  /\ w' = [w EXCEPT !.pc = "close", !.after = "takeCancellation",
              !.redial = TRUE]
  /\ UNCHANGED <<stop_requested, startup_timed_out, watchdog, epoch,
                 acknowledged_epoch, writing, transition_cancelled_transport,
                 headerVars, closed, connection, wire, feed>>

\* Lines 547-552.
TakeCancellation ==
  /\ w.pc = "takeCancellation"
  /\ transition_cancelled_transport' = FALSE
  /\ w' = [w EXCEPT !.pc = IF transition_cancelled_transport
                           THEN "replace" ELSE "retry",
                    !.left = Attempts]
  /\ UNCHANGED <<lifeVars, epoch, acknowledged_epoch, writing,
                 resume_after_transition, ackVars, shedVars, headerVars,
                 queueVars, connection, wire, feed>>
\* replace_cancelled_transport; the attempt it costs is given back.
ReplaceTransport ==
  /\ w.pc = "replace"
  /\ connection' = IF stop_requested THEN connection
                   ELSE [Fresh EXCEPT !.interrupted = startup_timed_out]
  /\ w' = [w EXCEPT !.pc = "retry", !.left = @ + 1]
  /\ UNCHANGED <<lifeVars, epochVars, ackVars, shedVars, headerVars,
                 queueVars, wire, feed>>
\* end_transition_resume
EndResume(discard) ==
  /\ IF resume_after_transition /\ discard THEN AckDropped ELSE KeepPending
  /\ resume_after_transition' = FALSE
  /\ UNCHANGED <<lifeVars, epoch, acknowledged_epoch, writing,
                 published_epoch, headerVars, closed, wire, feed>>
ReplaceFails ==
  /\ w.pc = "replace" /\ ~stop_requested
  /\ EndResume(TRUE) /\ Go("gaveUp")
  /\ UNCHANGED <<transition_cancelled_transport, connection>>

\* The retry loop: lines 553-597.
Retry ==
  /\ w.pc = "retry"
  /\ w.left > 0 /\ ~stop_requested /\ ~startup_timed_out
  /\ state' = "Reconnecting"
  /\ w' = [w EXCEPT !.pc = "delay", !.left = @ - 1, !.reconnected = TRUE]
  /\ UNCHANGED <<stop_requested, startup_timed_out, watchdog, epochVars,
                 ackVars, shedVars, headerVars, queueVars, connection, wire,
                 feed>>
Delayed ==
  /\ w.pc = "delay"
  /\ Local(IF stop_requested THEN "exhausted" ELSE "dial")
RetryEnds ==
  /\ w.pc = "retry"
  /\ w.left = 0 \/ stop_requested \/ startup_timed_out
  /\ Local("exhausted")
Exhausted ==
  /\ w.pc = "exhausted" /\ EndResume(FALSE) /\ Go("gaveUp")
  /\ UNCHANGED <<transition_cancelled_transport, connection>>
\* Outside the loop a failed attempt starts it: line 304.
AttemptFailed ==
  /\ w.pc = "attemptFailed"
  /\ \/ ~w.redial /\ Local("reconnect")
     \/ /\ w.redial /\ transition_cancelled_transport
        /\ transition_cancelled_transport' = FALSE
        /\ Go("replace")
        /\ UNCHANGED <<lifeVars, epoch, acknowledged_epoch, writing,
                       resume_after_transition, ackVars, shedVars,
                       headerVars, queueVars, connection, wire, feed>>
     \/ /\ w.redial /\ ~transition_cancelled_transport
        /\ EndResume(TRUE) /\ Go("retry")
        /\ UNCHANGED <<transition_cancelled_transport, connection>>
\* Mutant: after a reconnect the stream goes on where it was.
RejoinAtOnce == [w EXCEPT !.pc = IF w.boot THEN "booted" ELSE "pop",
                          !.redial = FALSE]
Rejoin == [w EXCEPT !.pc = IF w.boot THEN "booted" ELSE "pop",
                    !.redial = FALSE, !.awaiting = TRUE]
Redialled ==
  /\ w.pc = "redialled"
  /\ state' = IF stop_requested THEN state ELSE "Running"
  /\ resume_after_transition' = FALSE
  /\ w' = Rejoin
  /\ UNCHANGED <<stop_requested, startup_timed_out, watchdog, epoch,
                 acknowledged_epoch, writing, transition_cancelled_transport,
                 ackVars, shedVars, headerVars, queueVars, connection, wire,
                 feed>>

BootInTime == ~startup_timed_out
\* Lines 304-318: the watchdog is joined before the outcome is judged.
Booted ==
  /\ w.pc \in {"booted", "gaveUp"} /\ w.boot
  /\ watchdog # "expired" /\ watchdog' = "done"
  /\ IF w.pc = "booted" /\ BootInTime
     THEN /\ state' = IF stop_requested THEN state ELSE "Running"
          /\ w' = [w EXCEPT !.pc = "pop", !.boot = FALSE, !.redial = FALSE]
     ELSE /\ UNCHANGED state
          /\ w' = [w EXCEPT !.pc = "close", !.after = "fail", !.boot = FALSE]
  /\ UNCHANGED <<stop_requested, startup_timed_out, epochVars, ackVars,
                 shedVars, headerVars, queueVars, connection, wire, feed>>
GiveUp ==
  /\ w.pc = "gaveUp" /\ ~w.boot
  /\ w' = [w EXCEPT !.pc = "close", !.after = "fail"]
  /\ UNCHANGED sharedVars

\* fail: lines 605-615.
Fail ==
  /\ w.pc = "fail"
  /\ state' = IF stop_requested THEN "Stopping" ELSE "Failed"
  /\ Go("closeQueue")
  /\ UNCHANGED <<stop_requested, startup_timed_out, watchdog, epochVars,
                 ackVars, shedVars, headerVars, queueVars, connection, wire,
                 feed>>
CloseQueue ==
  /\ w.pc = "closeQueue" /\ Go("done")
  /\ closed' = TRUE /\ queue' = <<>>
  /\ UNCHANGED <<lifeVars, epochVars, ackVars, shedVars, headerVars,
                 connection, wire, feed>>

\* The loop of run: lines 324-326.
Pop ==
  /\ w.pc = "pop" /\ queue # <<>>
  /\ queue' = Tail(queue)
  /\ w' = [w EXCEPT !.pc = "popped", !.tag = Head(queue)]
  /\ UNCHANGED <<lifeVars, epochVars, ackVars, shedVars, headerVars, closed,
                 connection, wire, feed>>
Leave ==
  /\ \/ w.pc = "pop" /\ queue = <<>> /\ closed
     \/ w.pc = "popped" /\ stop_requested
  /\ w' = [w EXCEPT !.pc = "close", !.after = "done"]
  /\ UNCHANGED sharedVars
\* Lines 328-350.
Select ==
  /\ w.pc = "popped" /\ ~stop_requested
  /\ LET stale == w.tag.epoch # epoch
         prime == primed_revision # header_revision
                    /\ sequence_headers # None
     IN  w' = IF stale THEN [w EXCEPT !.pc = "pop"]
              ELSE [w EXCEPT !.media = w.tag.epoch,
                             !.awaiting = @ \/ w.media # w.tag.epoch,
                             !.sel = sequence_headers,
                             !.selEpoch = w.tag.epoch,
                             !.rev = header_revision,
                             !.job = "header",
                             !.pc = IF prime THEN "send" ELSE "wrote"]
  /\ UNCHANGED sharedVars
\* Lines 356-380.  A guard needs no keyframe; media joins at one.
Joins == w.tag.kind \in {"key", "guard"} \/ ~w.awaiting
LoopPrimed ==
  /\ w.pc = "wrote" /\ w.job = "header" /\ ~w.redial /\ ~w.boot
  /\ IF w.tag.epoch # epoch
     THEN Go("pop") /\ UNCHANGED primed_revision
     ELSE /\ Primed
          /\ w' = [w EXCEPT !.pc = IF Joins THEN "send" ELSE "pop",
                            !.job = "tag",
                            !.awaiting = @ /\ w.tag.kind # "key"]
  /\ UNCHANGED <<lifeVars, epochVars, ackVars, shedVars, sequence_headers,
                 header_revision, queueVars, connection, wire, feed>>

\* send_tag: lines 441-444.
TicketCounts == w.tag.ticket # 0 /\ w.tag.epoch = epoch /\ ~stop_requested
TagWritten ==
  /\ w.pc = "wrote" /\ w.job = "tag"
  /\ IF TicketCounts
     THEN delivered_epoch' = w.tag.epoch /\ delivery_ticket' = w.tag.ticket
     ELSE UNCHANGED <<delivered_epoch, delivery_ticket>>
  /\ Go(IF w.tag.kind = "audio" THEN "publish" ELSE "pop")
  /\ UNCHANGED <<lifeVars, epochVars, published_epoch, shedVars, headerVars,
                 queueVars, connection, wire, feed>>
Published == IF w.tag.epoch = epoch /\ ~w.awaiting THEN w.tag.epoch
             ELSE published_epoch
\* Lines 383-387.
Publish ==
  /\ w.pc = "publish" /\ Go("pop")
  /\ published_epoch' = Published
  /\ UNCHANGED <<lifeVars, epochVars, delivered_epoch, delivery_ticket,
                 shedVars, headerVars, queueVars, connection, wire, feed>>

-----------------------------------------------------------------------------
Pipeline ==
  \/ \E kinds \in Batches : \/ EnqueueDropped(kinds)
                            \/ EnqueueRefused(kinds)
                            \/ EnqueuePushed(kinds)
                            \/ EnqueueFull(kinds)
  \/ InvalidateEpoch
Owner == RequestStop \/ Join
Watchdog == WatchdogExpires \/ WatchdogInterrupts
Worker ==
  \/ Dial \/ Connected \/ ConnectFails \/ Send \/ Sent \/ SendFails
  \/ ReadHeaders \/ ConnectPrimed \/ Close \/ Closed
  \/ Reconnect \/ TakeCancellation \/ ReplaceTransport \/ ReplaceFails
  \/ Retry \/ Delayed \/ RetryEnds \/ Exhausted \/ AttemptFailed \/ Redialled
  \/ Booted \/ GiveUp \/ Fail \/ CloseQueue
  \/ Pop \/ Leave \/ Select \/ LoopPrimed \/ TagWritten \/ Publish
Stopped == state = "Stopped" /\ UNCHANGED vars
Next == Pipeline \/ Owner \/ Watchdog \/ Worker \/ Stopped
Spec == Init /\ [][Next]_vars
\* Every transport call ends: rw_timeout, io_timeout_ and the interrupt flag
\* bound it, and the watchdog thread is never blocked.
FairSpec == Spec /\ WF_vars(Worker) /\ WF_vars(WatchdogInterrupts)

-----------------------------------------------------------------------------
(* Properties.                                                              *)

Pcs == {"dial", "connecting", "attemptFailed", "send", "sending", "wrote",
        "booted", "redialled", "close", "closing", "reconnect",
        "takeCancellation", "replace", "retry", "delay", "exhausted",
        "gaveUp", "fail", "closeQueue", "done", "pop", "popped", "publish"}
Tag == [kind : Kinds, epoch : Nat, batch : Nat, ticket : Nat, video : Nat,
        headers : Nat \cup {None}]

\* Types, with the queue within its limit and the mutex discipline of
\* writing_: it is set exactly while the worker is inside a transport call.
TypeOK ==
  /\ state \in {"Starting", "Running", "Reconnecting", "Stopping", "Failed",
                "Stopped"}
  /\ {stop_requested, startup_timed_out, writing, closed,
      transition_cancelled_transport, resume_after_transition,
      drop_video_until_keyframe} \subseteq BOOLEAN
  /\ watchdog \in {"waiting", "expired", "done"}
  /\ {epoch, acknowledged_epoch, published_epoch, delivered_epoch,
      delivery_ticket, enqueued_ticket, carried_ticket, header_revision,
      primed_revision} \subseteq Nat
  /\ sequence_headers \in Nat \cup {None}
  /\ queue \in Seq(Tag) /\ Len(queue) <= MaxTags
  /\ w.pc \in Pcs /\ w.tag \in Tag \cup {None}
  /\ writing <=> w.pc \in {"connecting", "sending", "closing"}

\* The tag the worker holds and has not accounted for yet.
OnLine == ~w.redial /\ ~w.boot
InHand ==
  IF \/ w.pc = "popped"
     \/ OnLine /\ w.pc \in {"send", "sending", "wrote"}
  THEN {w.tag} ELSE {}
Pending == {t \in {queue[i] : i \in DOMAIN queue} \cup InHand : t.epoch = epoch}

\* bounded-sender-queue.hpp: "a ticket is never acknowledged ahead of the
\* media before it".  While connected, every batch up to the delivered ticket
\* has no tag left to write, however the queue was shed and thinned.
AcknowledgedInOrder ==
  delivered_epoch = epoch /\ state = "Running" =>
    \A t \in Pending : t.batch > delivery_ticket

\* Shedding loses no ticket.  Once the stream has joined at a keyframe, the
\* newest ticket of the epoch is delivered, on a pending tag or carried for
\* the next one, so the coordinator is not left waiting for it.
TicketsAccounted ==
  state = "Running" /\ feed.phase # "failed" /\ w.pc = "pop"
    /\ ~w.awaiting /\ enqueued_ticket # 0 =>
      \/ delivered_epoch = epoch /\ delivery_ticket = enqueued_ticket
      \/ carried_ticket = enqueued_ticket
      \/ \E t \in Pending : t.ticket = enqueued_ticket
\* Delivery is neither told early nor forgotten.
TicketsExact == TypeOK /\ AcknowledgedInOrder /\ TicketsAccounted

\* network-packet-consumer.hpp: "a transition never waits on a connection that
\* is being replaced": unless its own media is kept for the new transport,
\* all it has handed in counts as delivered.
ReconnectingNeverWaits ==
  state = "Reconnecting" /\ ~resume_after_transition /\ ~startup_timed_out
    /\ enqueued_ticket # 0 =>
      Delivered(epoch, enqueued_ticket)

\* The publication fence: once an epoch is acknowledged no write of an older
\* one is in flight, on whichever connection.
FenceHolds ==
  acknowledged_epoch = epoch /\ w.pc = "sending" => JobEpoch = epoch

\* What goes on air decodes: on each connection and in each epoch video starts
\* at a keyframe and a dependent frame follows the frame it depends on, audio
\* does not precede the keyframe, and the codec headers in force are those the
\* tag was produced with.  Only a drain guard may be overtaken by the headers of
\* the boundary, and only on a connection that has published nothing since the
\* sender reconnected: delivery_ready does not wait for the guard there.
OnAirDecodes ==
  w.pc = "sending" /\ w.job = "tag" =>
    LET joined == wire.epoch = w.tag.epoch /\ wire.video > 0 IN
    /\ w.tag.kind = "delta" => joined /\ wire.video = w.tag.video - 1
    /\ w.tag.kind = "audio" => joined
    /\ \/ wire.headers = w.tag.headers
       \/ w.tag.kind = "guard" /\ w.reconnected /\ published_epoch = 0

\* A transition never kills a transport that is kept: whenever the worker is
\* idle its connection carries neither the grace deadline of a transition nor
\* the interrupt of the startup watchdog.
IdleTransportIsUsable ==
  w.pc = "pop" /\ ~stop_requested => connection = Fresh

\* released-packet-dispatcher.hpp: boundary_delivered is "True only after the
\* new source keyframe and post-cutoff audio are written".
BoundaryWritten ==
  published_epoch # 0 =>
    /\ wire.epoch # None /\ wire.epoch >= published_epoch
    /\ wire.epoch = published_epoch => wire.video > 0 /\ wire.audio
\* The same while no stop has been asked for: a write skipped for a stop counts
\* as sent.  The owner is stopping by then and asks no more.
BoundaryWrittenWhileLive == ~stop_requested => BoundaryWritten

\* What the coordinator is told of an epoch is true: acknowledged, no older
\* write is in flight; published, its keyframe and its sound are written.
EpochReportsHold == FenceHolds /\ BoundaryWrittenWhileLive

\* stop() joins the worker, so the worker must end whatever it is doing: in a
\* call, between two attempts, or asleep on the queue.
StopEnds == stop_requested ~> w.pc = "done"

\* Every epoch a transition opens (the first one is opened by its media) is
\* acknowledged in the end, unless a newer one replaces it or the worker ends:
\* each write it found in flight finishes or is cut, and says so.
FenceIsReached ==
  \A e \in 2..MaxEpoch :
    epoch = e ~> (acknowledged_epoch >= e \/ epoch > e \/ w.pc = "done")
=============================================================================
