# Verification of OBS Live Delay

OBS Live Delay lets a streamer put a broadcast several seconds behind, go back
to live and cut what is still delayed, without dropping the connection to the
streaming services.  This directory holds TLA+ modules translated from the C++
sources (`src/src/`), configurations that check small instances with TLC, and
theorems checked with TLAPS.

## 1. Inventory

### Components

| Component | Files | State | Operations | What makes it correct |
|---|---|---|---|---|
| Delay controller | `delay-controller` | history `buffered_`, released packets `ready_`, mode (`armed_`, `passthrough_`, `rewind_mode_`, `state_`), watermarks, time-line shift | arm, start live, begin broadcast, rewind, resume live, change target, return live, ingest, take | what is handed over decodes, is never younger than the delay, memory is bounded and accounted |
| Transition coordinator | `transition-coordinator`, `transition-codec` | epoch, feed on air and wanted, output time line, scheduled and waiting packets, deadlines | request, programme, holding, check_deadline | the output never goes back in time, a switch is decodable and silent media bridges it, every wait has an end |
| Pipeline owner | `pipeline-owner` | capture queue of two encoders, pending requests, status | start, two encoder callbacks, request, request_stop, worker loop | ordered ingress, admitted actions keep their order, stop always ends |
| Dispatcher and consumers | `released-packet-dispatcher`, `network-packet-consumer` | publication epoch, registered consumers, epoch and header need of each | dispatch, dispatch_discontinuity, reserve_epoch, advance_epoch | after a cutoff returns nobody is handed older media |
| RTMP sender | `rtmp-sender`, `bounded-sender-queue` | bounded queue, life-cycle state, epochs, tickets, connection | start, enqueue, invalidate, request_stop, worker, startup watchdog | decodable stream, honest acknowledgements, ends when told |
| RTMP connection | `ffmpeg-rtmp-connection`, `rtmp-connection` | interrupt flag, grace deadline, FFmpeg handle | connect, send, interrupt, interrupt_after, close | an interrupt ends a blocked call, and only that one |
| FLV muxer | `flv-muxer` | last time stamp | mux, headers | order and time stamps of tags |
| Multi target sender | `multi-target-sender` | one sender per destination, waits | start, dispatch, delivered, stop | a secondary neither holds nor kills the primary |
| Holding feed and capture | `holding-feed`, `holding-capture`, `holding-obs-*`, `obs-packet-copy` | packets of the holding scene, readiness | prepare, start, ingest, take, stop, monitor | ready within a deadline or failed, ordered, bounded |
| Session, output, dock | `active-delay-session`, `active-delay-output`, `active-delay-dock`, `delayed-output-watchdog`, `destination-card-widget` | operating mode, output life cycle, UI | configure, start, stop, actions, refresh | start and stop of the output agree with the pipeline |
| Settings and rest | `multistream-*`, `scene-*`, `diagnostic-error`, `plugin-main` | settings | parse, validate, probe | - |

### How they interact

    OBS encoders --callbacks--> PipelineOwner queue --worker--> TransitionCoordinator
                                                                 |   ^
                 UI --request/stop--> PipelineOwner              v   |  DelayController
                        |  reserve_epoch, cutoff        dispatcher (publication epoch)
                        +-------------------------------->  |  one call per consumer
                                                            v
                           NetworkPacketConsumer -> FLV muxer -> RtmpSender queue
                                                                      | worker thread
                                                                      v
                                                               RTMP connection

Threads: two OBS encoder callbacks, the UI, the worker of `PipelineOwner`, one
worker per `RtmpSender` and its startup watchdog, the callbacks and the monitor
of the holding encoders.  Locks are taken in one order (owner, failure, multi
target, consumer, sender, queue), so the hard part is not deadlock but what
happens *between* critical sections: an action is admitted by the UI thread
while the worker is half way through a dispatch, a sender is in a blocking
write while its epoch changes, a request was valid when admitted and is carried
out later.  `PROJECT.json` lists these hazards with their lines.

**Epochs.**  Each accepted action reserves a publication epoch and cuts every
consumer over to it before the call returns; media of an older epoch is then
ignored wherever it is found.  **Tickets.**  The last tag of a batch carries a
delivery ticket; the coordinator waits until each destination acknowledges it.

## 2. Modules

| Module | Models | Used by |
|---|---|---|
| `DelayController` | the class, one action per public operation | `MCDelayController`, `RewindSession`, proofs |
| `RewindSession` | the controller under the calls the broadcast really makes | `MCRewindSession`, proofs |
| `DelayControllerProofs` | theorems about `DelayController` and `RewindSession` | - |
| `TransitionCoordinator` | the outgoing time line of two feeds, with dispatcher, muxer and network around it | `MCTransitionCoordinator`, proofs |
| `TransitionCoordinatorProofs` | theorem about `TransitionCoordinator`: the time line | - |
| `CaptureQueue` | two encoder threads, the merge in the owner, what an action revokes | `MCCaptureQueue`, proofs |
| `CaptureQueueProofs` | theorems about `CaptureQueue` | - |
| `Broadcast` | dock, output, session and the workers of one owner after another | `MCBroadcast`, proofs |
| `RtmpSender` | sender, queue, connection flags, worker, watchdog, its caller | `MCRtmpSender`, proofs |
| `RtmpSenderProofs` | theorems about `RtmpSender`: the worker, reports and tickets | `RtmpLineProofs` |
| `RtmpLineProofs` | theorem about `RtmpSender`: the video from the queue to the wire | - |
| `PublicationFence` | abstract: what epochs promise | `PacketDispatch`, `MultiTargetSender` |
| `PacketDispatch` | dispatcher, consumers, admission in the owner, coordinator epoch | `MCPacketDispatch`, proofs |
| `PipelineOwnerProofs` | theorems about `Broadcast` and about `PacketDispatch`, the refinement included | - |
| `MultiTargetSender` | several destinations behind one consumer, each by its status | `MCMultiTargetSender`, proofs |
| `MultiTargetSenderProofs` | theorems about `MultiTargetSender`, the refinement included | - |
| `HoldingFeed` | packets of the holding picture | `MCHoldingFeed`, `HoldingCapture` |
| `HoldingCapture` | owner, monitor and encoder threads around the feed | `MCHoldingCapture`, proofs |
| `HoldingCaptureProofs` | theorems about `HoldingFeed` and `HoldingCapture` | - |

How they fit together.  `PipelineOwner` is in four modules, each with the part
of it that one question needs: `CaptureQueue` has its ingress, `PacketDispatch`
its admission of actions against the dispatcher, `TransitionCoordinator` its
loop around the coordinator, `Broadcast` its worker from start to finish.  What
one of them takes for granted another checks: `TransitionCoordinator` restarts
the programme at a keyframe, which is `StreamDecodable` of `RewindSession`;
`RewindSession` takes packets in order, which is `TakenInOrder`; the coordinator's
epochs never refuse, `NothingRefused`; that a ticket is acknowledged when it was
written is `TicketsExact`.

### DelayController

Variables are the members of the class with their names.  A packet is its kind,
keyframe flag and DTS; each has size 1, so `buffered_bytes` is checked against
the length of the history.  `videos` numbers the video packets ingested and
`sent` is the number of the last one handed over: both are history, used by the
properties only.  `Int64` stands for the 64 bit range so that a small instance
reaches the overflow paths of the time-line shift.  `Ingest` is split by the
branches of `ingest()`; `Normalized`, `Rolled`, `ReleasePoint` and `TrimPoint`
are its helpers.  An error clears the history exactly as `set_error_locked`.

`RewindSession` adds the order in which packets can arrive (the owner sorts by
DTS; `slot` numbers video and audio alternately) and drops the calls the rewind
product never makes.  A request arrives in any mode, because it is admitted on
another thread against a state that may have changed when it is processed.

### RtmpSender

One record `w` is the worker's program counter and local variables; every
critical section of `mutex_`, and every connection call, is one action, so all
interleavings with `enqueue_epoch`, `invalidate_epoch`, `request_stop` and the
watchdog at lock granularity are explored.  A connection call may succeed or
fail; if the interrupt flag is set it may fail at once.  `feed` stands for the
caller (coordinator, consumer and muxer): it supplies headers with the first
batch of an epoch, numbers frames and puts the ticket on the last tag.  An
action's epoch may open with the drain guard alone, under the headers of the
picture it ends; the boundary brings its own and waits for the guard to be
delivered, unless `delivery_ready` skips this sender (`Skipped`: down, or
reconnected and nothing published since).  Nothing says whether the sender is
the first or a secondary, so every sender may be skipped.  A batch may open with
silence at any time, with or without headers.
`drop_video` and `thin_incoming_video_locked` go over a sequence with a state:
`Dropped` and `Thinned` are recursive functions of the prefix gone over.  `wire`
records what the server has received: its properties are about the stream a
viewer decodes.

### PacketDispatch

`calling`, `seen`, `reserved` and `uncut` hold the progress of the two entries
that raise the epoch from outside the worker (an owner call, a failure).  Locks
show up as guards: `OwnerFree`, `FailureFree`.  One consumer's step is one action since it holds its mutex;
the loop over consumers is not.  `floor` and `handed` are the variables of
`PublicationFence`, which `PacketDispatch` implements.  Its specification is
`DispatchSpec` and so on, because `PipelineOwnerProofs` extends it next to
`Broadcast`.

### MultiTargetSender

`pc` and `at` are the pipeline worker in `start`, `consume`, `delivery_ready`
and `stop`; `cut` is an owner call on another thread; each sender moves by
itself and is its `SenderStatus` only (`link` is what decides its next status).
`delivery_ready` holds `mutex_` for the whole question while each status is read
under the sender's own lock, hence one `Look` and one `Decide` per secondary; the
primary, first in the loop, is asked in the step that takes `mutex_`.
Time is counted in ticks of 250 ms, the longest pause the code allows between
two questions of one wait.  The owner's loop turns every 10 ms, so a tick passes
only after what the coordinator waits for was asked and an admitted action was
taken up.  `reconnect_delay` (500 ms) is `Backoff`; a transport cut by a
transition is replaced without it.  `Second` is a parameter: 4 ticks in the
code and 2 in the run, which is still longer than `Backoff`.  `still` is how
long a destination has really stood still, kept by the senders' steps and not by
the waits, so that the two can be compared.  `OnlyStalledIsIsolated` compares
them, with one exception the code makes: the published epoch is read twice in
one question, by `status()` for the progress a wait notes and by
`boundary_delivered()` for the answer (`multi-target-sender.cpp:221` and `:229`).
A connection that published the boundary and is lost between the two reads
leaves a wait as old as it was, and the destination may be given up before its
second is over (`LostSinceSeen`).  It takes three losses of one connection, more
than the run has: the proof, which allows any number, is where it showed.

### HoldingFeed and HoldingCapture

`HoldingFeed` has one action per method; each runs under the one mutex.  A
packet keeps kind, keyframe flag, DTS and size, and every limit is a constant.
`Sorted` is the stable sort of `take_packets`, by ranks; `BytesOf` counts bytes
one by one.  `HoldingCapture` extends it with
the owner in `prepare`, `start`, `stop` and `cleanup`, the monitor thread with
its mutex, and two encoder callbacks that look at `capturing`, at the feed's
status, at the codecs and at the feed again, each a step of its own.  What
libobs does in a stop is external: it returns when no callback runs.

### TransitionCoordinator

The coordinator is one record `co` with the members of the class; each member
function is an operator from the record it finds to the one it leaves, because
one call of the owner's loop runs several of them in a row (`programme` may call
`release_ready`, that `invalidate` and `publish`).  The actions are what other
threads can see between: taking requests, one packet handed over, `holding`,
three steps of `check_deadline`, and each batch on its way through `co.outbox`,
so that an action can be admitted after a batch was built and before the
dispatcher looks at the epoch.  A throw sets `co.error` and ends the run.

Packets keep kind, keyframe, DTS, PTS and whether they are the coordinator's own
silence.  Time stamps and the clock have one unit; `Milli` is the millisecond
`ceil_ms` rounds to, chosen as 2 with a frame of sound of 3, so that rounding
really changes numbers.  `Shape` gives each feed its own offset of sound against
picture and its own composition time (B-frames).  The three deadlines are
counters that run down, the two origins of pacing ages that run up.  `view` is
what a viewer has received: the properties compare each batch with it.

### CaptureQueue

A callback has three steps, as in the code: it reads the token, it enqueues
under `mutex_`, and it merges, an action per packet while `merging` keeps the
mutex.  `held` is the packet between the first two; an action admitted there is
what the token is for.  The worker swaps the queue out, then looks at the
failure and the clock, then hands over.  `Halt` and `Repeat` are an encoder that
breaks down; an encoder that works is at most `MaxLag` late.  `round`, `dumps`,
`cut` and `newest` are history.

### Broadcast

`ui` is how far the UI thread has come in an operation that calls several
objects (`obs_output_start`, `obs_output_stop`, the destruction of an output);
the buttons, the timer, the events and queued notices run only when it is idle,
and a modal question leaves the timer running as Qt does.  `run[r]` is one
`PipelineOwner`: its flags and the step its worker is at.  `lifecycle`,
`pipeline` and `armed` are what all runs share.  `Filling` stands for `Ready`
too, which nothing here tells apart, and worker steps between which no other
thread can change what they read are one.  `output` includes what OBS keeps of
it: an output is `Active`, then `Ending` while OBS ends its capture on a thread
of its own, then `Idle`.  `faulty` holds the runs in which something did fail:
a run outside it has no reason to end with an error.

## 3. Runs

| Run | Configuration | Asks | Bounds |
|---|---|---|---|
| `controller_api` | `MCDelayController.cfg` | are bytes, order, tightness and silence kept by every call in any order, errors and refused calls included? | DTS 0..1 in a 4-value "int64", 2 targets, history up to 3 packets |
| `rewind_session` | `MCRewindSession.cfg` | does the viewer get a decodable stream, no younger than the delay, without holes, from a history that keeps its depth? | captures of 10 slots, gaps up to 3, delay of 2 ticks, all keyframe patterns |
| `sender` | `MCRtmpSender.cfg` | a transition, a reconnect, a timeout, a slow uplink and a stop at every step of the worker: decodability, tickets, epochs, and does it end? | 2 epochs, 3 batches of one or two tags, queue of 3 tags, one retry |
| `epoch_dispatch` | `MCPacketDispatch.cfg` | admissions, failure, stop, feed changes and dispatches interleaved: fence, refusals, order of actions | 2 consumers, epochs up to 5, 2 pending actions |
| `multi_target` | `MCMultiTargetSender.cfg` | does the gate open once the primary has delivered, is only a standing destination given up, does the fence hold over the fan-out? | 2 destinations, 3 epochs and batches together, 1 lost connection, 2 ticks of patience |
| `holding_feed` | `MCHoldingFeed.cfg` | order, first keyframe and the three limits, for any calls in any order | DTS 0..2, sizes 1 and 2, window of 1, 4 bytes, 3 packets |
| `holding_capture` | `MCHoldingCapture.cfg` | prepare, start and stop against monitor and callbacks: does a start resolve, does a stop end and stay quiet? | 2 captures, DTS 0..1, 2 packets |
| `transition_coordinator` | `MCTransitionCoordinator.cfg` | over actions that supersede each other at any step: does time go forward without gap or jump, does each switch decode, is nothing of the programme heard over holding, does a transition end? | 3 actions, two pictures and three sounds of each feed per epoch, 4 checks to a deadline |
| `capture_queue` | `MCCaptureQueue.cfg` | is the merged stream in order, does exactly what was revoked go missing, is a stop of an encoder found and a lag tolerated? | 1 action, 8 instants, lag of 1, budget of 4, limit of 3 |
| `broadcast` | `MCBroadcast.cfg` | do runs keep out of each other's way, is a stop quiet, a late notice harmless, OBS's own stream stopped; does the dock settle and a start take? | 2 outputs, 2 owners, 1 restart by OBS, 1 stream of OBS's own |
| `return_live_ready` | `ReturnLiveReady.cfg` | *violation*: is Start Delay available right after Return Live, as the README says? | as `rewind_session` |
| `capture_stall` | `CaptureStall.cfg` | *violation*: does only an encoder that pauses for the limit end the broadcast? | 1 action, 11 instants, lag of 2, limit of 5 |

Properties with several parts.  `HistorySound` is the byte count
(`BytesTrackHistory`), the order (`HistoryInOrder`), the tightness
(`HistoryTight`) of the history and the silence of an armed controller
(`ArmedIsSilent`).  `TicketsExact` says of tickets that they are acknowledged in
order and never lost (`AcknowledgedInOrder`, `TicketsAccounted`), `EpochReportsHold`
of epochs that none is reported while the old one can still be written and none
published before its sound was (`FenceHolds`, `BoundaryWrittenWhileLive`).
`EpochsInOrder` is `ActionsAhead` and `EpochsDiffer`; `OnlyRevokedIsGone` is
`RevokedIsGone` and `NothingLost`; `RunsDoNotOverlap` is `ControllerIsMine` and
`OneLifecycle`.

Why the bounds are enough.  A rewind needs a group of pictures, the delay and a
second group: 10 slots hold two rewinds with a return between.  A sender meets
each of its critical sections in the old and the new epoch with two epochs, and
a third adds no new relation between the worker's epoch and the sender's;
congestion needs a queue that fills, is shed, thinned and carries a ticket over
two batches.  A dispatch interrupted between two consumers needs two; five
epochs hold the coordinator's first, two actions, a failure and a stop.
Isolation is about one secondary against the primary; one lost connection puts
the second apart from the reconnect, and `Second` is longer than `Backoff` as in
the code; three epochs and batches together let an epoch follow a batch, and
let the worker ask about two tickets of one epoch in turn, whose wait is one.
In the feed two packets of one encoder ahead of the other are what a drain
leaves behind; each limit can be met without the other two.  Three actions
are a dump, one that supersedes it and one that supersedes that; a picture of
each feed outlasts a sound and is outlasted by two, so that both tails lead at
some switch; four checks before a deadline let an acknowledgement come before,
between and after each of the three steps of pacing.  In the queue every other
sound has a picture at its own instant, which is where the order is decided, and
the slower encoder can be a full step behind at the action; one action is enough
there, since the safety properties are proved for any number.  Two outputs with
two owners are a broadcast and the one that follows it, on the same output or
on another.

`LagIsTolerated` is about lags the budget covers (`LagWithinBudget`): a step of
an encoder and twice `MaxLag`, not once.  After an Emergency Dump a late packet
of one encoder may be the first in the merge, while the other's packet on its
way was dropped with the old token and its next one is late as well.  With
`Budget = 3` the run finds that stall at instant 7, and not before.  In the code
the budget is 5 s and a step at most some tens of milliseconds: encoders up to
about 2.4 s late are safe.

Fairness.  `FairSpec` of `RtmpSender` asks weak fairness of the worker and of
the watchdog's interrupt.  Every connection call has an I/O timeout or is ended
by the interrupt flag, waits have a timeout or are notified, and neither thread
waits for the other.  Nothing is assumed of the caller: it may stop supplying
media for ever.
`FairSpec` of `MultiTargetSender` asks weak fairness of the clock, of the
worker's steps while it feeds, asks and takes up an action (`Adopt`), and of an
admission that has begun, which cuts over one destination after another
(`Discontinuity`, `CutOver`, `Admitted`); none of them waits for the network.
Nothing is asked of the senders: a destination may hang for ever.
`CaptureFairness` asks it of the owner's own steps, of the monitor, the clock and
of callbacks that have begun, and strong fairness of taking `monitor_mutex_`,
which the monitor gives up for 10 ms in every turn; the host's `prepare` and
`start` may never return.
`FairSpec` of `TransitionCoordinator` asks that the owner's loop turns and that
the programme keeps coming whenever the loop would take it, which the stall limit
of the capture stands for: the owner ends a broadcast whose encoders stop
(`StallEnds`).  Nothing is asked of the network, nor of keyframes or sound.
`FairSpec` of `CaptureQueue` asks it of the worker with its clock, of the merge
and of each callback until its encoder breaks down.
`FairSpec` of `Broadcast` asks it of the UI thread's operations, timer and queue
(the health check only once the output has stopped), of OBS's thread that ends a
capture, of each worker, and that a connection attempt ends one way or the other
(FFmpeg's I/O timeout) and a running one delivers or fails.  Nothing is asked of
the user, of the other parts of OBS or of an answer to the question.

Deadlock checking is off where the system may stop for good: the controller (a
finished capture has no call left within the bounds), the dispatcher and the
destinations (after a stop nothing moves), the coordinator (after an error, and
at the end of the feeds explored), the queue (after the end of its run) and the
broadcast (after a shutdown).  The sender has an explicit `Stopped` step instead,
so a worker that hangs is found.

### Disagreements found

* `return_live_ready`: after Return Live from a rewind that has already released
  the keyframe of the current group, the rest of the history starts with
  dependent frames.  The buffer is kept but cannot be replayed until a keyframe
  is a full delay old; Start Delay answers `DELAY_NOT_READY` meanwhile.  The
  README promises it "works again straight away".
* `capture_stall`: "Only a stall this long ends the broadcast" (five seconds,
  `pipeline-owner.cpp:8`).  After an Emergency Dump late packets at or below the
  floor return before the time of the last packet is noted.  An encoder that
  hitched for `d` and stays `d` late thus passes up to `2d` without a packet that
  counts, and `PREBUFFER_CAPTURE_STALLED` ends a broadcast in which no encoder
  paused for the limit.

Three smaller observations, which no run states as a property.  A write skipped
because of a stop is reported as written (`rtmp-sender.cpp:385`), so the epoch of
audio that was never written is published; the owner is being torn down by then
and nobody acts on it, hence `BoundaryWrittenWhileLive` is about senders nobody
has told to stop.  And the dock disables Arm only at its next timer, 250 ms
later: pressing Arm twice within that time, when the first run has ended and
the second start fails, leaves the dock at `DelayedOutput` without an output,
where Arm stays disabled ("stopped dock must offer Arm Buffer",
`tests/transition-dock-tests.cpp:35`).  `DockSettles` is stated for docks whose
Arm button has been disabled.  Third, a secondary that is resuming
"drops media instead of queueing it" (`multi-target-sender.cpp:222-225`) only if
its connection was simply lost: one replaced for a transition, or reconnected
with nothing published yet, queues what it gets (`rtmp-sender.cpp:119-126`).  As
nobody waits for it, the boundary can be queued behind its drain guard, and the
new connection, primed with the boundary's headers, carries the guard under
them.  The guard is a frame of silence made with the boundary's own audio
headers (`drain_headers`, `transition-coordinator.cpp:237`), so it still decodes;
`OnAirDecodes` allows exactly this case and no other tag under other headers.

## 4. Proofs

For every value of the constants, any number of packets and any order of calls.

`DelayControllerProofs` shows the type invariant and `HistorySound`: exact byte
accounting, order of the history, silence while armed and tightness.  The first
two are proved from `MediaInv`, types and exact accounting together: order
and the byte counter are both about what each operation does to the same two
buffers.  `AirInv` (silence while armed, and both buffers empty after an error)
stands alone; `TightInv` is added on top of `MediaInv` and uses it.  The proof
has one lemma per operation; `Ingest`, the largest, is split by its branches.
`HistoryTight` is kept by `ingest` because the roll point is the *last* keyframe
at or before the cutoff, which needs a maximum of a finite set
(`IntervalMaximum`).

The same module proves the four safety properties of `RewindSession`, for every
capture, delay and keyframe pattern.  Its calls are the controller's
(`SessionIsControlled`), so `MediaInv` and `AirInv` hold.  `SessionInv` adds what
only this order of calls gives: packets, marks and the end of the history never
run ahead of the last packet taken in (`Clock`), which of the modes occur
together, and that a history that is built up unarmed opens with a keyframe
(`Modes`).  From it one lemma says what a packet can lead to (`ProgrammeOutcomes`):
it passes, the history rolls, waits or releases, or the capture fails.  Two of
the errors of `ingest`, a time stamp it cannot represent and one that moves back,
are thereby shown not to happen.  `HistoryInv`
adds that numbers start at 1.  `StreamDecodable` looks at the newest picture
before a dependent one (a CHOOSE); `PictureInv` says instead that the stream is
strictly increasing, that each dependent picture's predecessor is in it or was
the last handed over (`Follows`), and that nothing taken in since the source
changed is missing at its end (`UpTo`), which is what the next append, release or
take needs.  A release moves packets from one buffer to the other and a take cuts
the stream there: `Rejoin` and `FollowsRest`.  `AgeInv` rests on the release loop
comparing with the packet just stored; that a rewind is deep enough rests on
`Clock`: the newest packet is not behind the lower mark.  Depth is kept because
marks only move forward.
Assumptions: `ControllerConstants`, `SlotConstants`.

`PipelineOwnerProofs` shows of `PacketDispatch`, for any number of consumers and of pending
actions, that the threads implement `PublicationFence`, that no consumer
refuses a batch, that epochs are distinct and that actions keep their order.
`Inv` joins six parts, none inductive alone:

- `DispatchTypeOK`, and `Roles`: which call each admitter makes, and that an owner call
  which passed the limit still finds room when it returns (it holds the mutex);
- `Order`: every epoch in use (the coordinator's, those reserved, those queued
  or taken) is comparable with the others, in the order they were reserved;
- `Startup`: the coordinator is created only if nothing was cut before, so its
  first epoch finds consumers that expect no headers;
- `Cutoffs`: how far each cutoff has got.  A consumer a reservation has cut is
  at its epoch, and all are at or above `floor`;
- `Headers`: a consumer that waits for the headers of the coordinator's epoch is
  either not reached yet by the batch that brings them, or the epoch is already
  overtaken.  It needs the exact place of the dispatch loop (`Unreached`).

The refinement follows: `Return` and `WorkerReturn` are `Raise` or a stutter,
`Take` is `Hand` because `consume` lets only epochs at or above the consumer's
own pass and `Cutoffs` puts that above `floor`.  Assumption: `DispatchConstants`.

`CaptureQueueProofs` shows that the worker takes one stream in strict order
(`TakenInOrder`), that an Emergency Dump takes all that was captured before it and
nothing else is missing (`OnlyRevokedIsGone`), and that a lag the budget covers
does not fail the merge (`LagIsTolerated`), whatever the periods
and the lateness of the two encoders, the budget, the limits and the number of
actions.  The order needs `OrderInv`: with the types, that each ingress queue is
sorted up to its newest time stamp and that to its encoder's clock (`Ingress`),
that all that has left the merge is older than both clocks and than all that
waits (`Front`: it left because both encoders were past it), and that hand,
queue and the last packet given follow each other (`Chain`).  A dump empties the
queues but not what the worker holds, and `input` is forgotten then: this is why
`Front` speaks of the encoders' clocks and not of `input`.  For the discarded,
`RevokeInv` adds that a callback with a token that still counts read it after
the last dump (`Tokens`), and that until a picture past the dump has come the
floor is where the dump put it (`Floor`).  `LostInv` adds the young end of what is
known of an encoder: its newest time stamp is that of its newest packet, of this
round (`Tip`, `Rounds`), and the packet its callback holds is the next one and
will not be late (`Near`); a hand-over then takes only the old end of a chain
without gaps and a dump only the young one.  `LagInv` adds that between callbacks
nothing is left to merge (`Settled`), so the head that waits waits for one
encoder, whose clock is within its lag (`Clocks`); if that encoder has brought
nothing since a dump, what waits is at most a lag older than the last packet of
it that was dropped (`Waits`, which rests on `AboveFloor`).  Assumptions:
`CaptureConstants`, and `LagWithinBudget` for `LagIsTolerated` alone.

`RtmpSenderProofs` and `RtmpLineProofs` show every safety property of the sender,
for any queue, any number of epochs, batches, attempts and reconnections, with the calls of any
thread between any two critical sections.
`SenderInv` is what each place of the worker implies: of its locals (`Place`), of
the life cycle the pipeline sees and of what a reconnection will resume (`Life`,
`Resume`), of the interrupt, its deadline and the watchdog (`Watched`, `Armed`),
and of what the connection carried (`Fenced`, `OnAir`, `Joined`).  From it:
`ReconnectingNeverWaits`, `IdleTransportIsUsable`, `EpochReportsHold`.
`TicketsExact` needs `TicketInv` on top: tickets grow along the queue
(`TicketOrder`), what is acknowledged is older than all that is pending (`Told`),
the newest ticket is on a pending tag, carried by the next one, or delivered
(`Newest`, `Heard`).  Shedding and thinning both sift a sequence and pass the
tickets of what they leave out on; `Sieve` states that once, by induction on the
prefix (`PrefixRecursion` says what such a recursion denotes).
`OnAirDecodes` (`RtmpLineProofs`) needs `LineInv`, which follows the video from the feed to the wire
while the sender serves: the queue is in order and each dependent frame finds the
one before it, in the queue, in the worker's hand or last on the wire (`Frames`,
`InTurn`); one that does not is waited past for a keyframe (`Wired`, `MayJoin`).
Shedding may open a gap only by asking for a keyframe (`ThinVideo`, `BatchVideo`),
and over a fence nothing is ahead but a guard (`NothingAhead`, which takes the
guard's ticket from `Told`).  Beside it `Source` and `Labelled` say that all that
is pending was made with the headers in force, `Revisions` and `Primer` that the
wire has those whenever a tag is written.  The exception is a guard overtaken by
the boundary on a sender that was not waited for: `Overtaken` has it that only
guards are before it and that nothing has been published since the reconnect,
which lasts because no sound can be in hand before it (`Lined`, the queue is in
the order of the dispatches; `Airs`) and because a sender that serves counts each
reconnection before its first attempt (`Counted`).  `LineMoves` reads the 41 actions as the dozen steps
that matter to the line.  Assumption: `SenderConstants`.

`MultiTargetSenderProofs` shows, for any number of destinations, losses and any
patience, that the fan-out implements `PublicationFence` and that only a
destination that stood still is given up.  `FenceInv` adds to the types that a
destination a cutoff leaves out is isolated or gone and takes nothing any more
(`Out`), that batches under way are of the current epoch or already old (`Fresh`,
`Epochs`), and how far a cutoff under way has got (`Cut`).  `StillInv` adds what
each wait has noted: as long as the destination still shows the progress a wait
holds, it stood still for as long as the wait is old, ticket and boundary waits
apart, and in the middle of a question with what was read before (`Held`, `Known`,
`Current`, `Waiters`, `Seen`).  Assumption: `TargetConstants`.

The same module shows the four safety properties of `Broadcast` for any number
of outputs, owners, restarts and streams.  `SessionInv` ties the objects together:
where the UI thread is in an operation and what it holds (`UiRole`), that the open
lifecycle has one holder, the operation that opened it or the one busy worker
(`Token`), and that a busy worker's output belongs to the dock or to the operation
under way (`Home`), so that whoever ends a lifecycle has joined its worker.
`QuietInv` adds that the mark `StopAudio` looks at is cleared before the sound
stops, `Shown` that a requested run that was not stopped shows as one, and
`Generations` that a generation of an output names one run, which is what a
notice carries.  Assumption: `BroadcastConstants`.

`TransitionCoordinatorProofs` shows that the output never goes back
(`NeverRegresses`), whatever the durations of frames and sounds, the shapes of
the feeds, the hand-overs, the limits and the moments at which actions are
admitted.  That no time stamp regresses says nothing of why; the invariant
(`LineInv`, of which `Good` is the coordinator's part) puts all there is on one
line: what the viewer has, the outbox, what was published (`Posted`), then the
schedule, then the tail (`Lined`), then the boundary, what waits and what the
selected feed gives next, shifted by the epoch's offset (`Ahead`).  Which of the
queues may hold something, and for which feed, is `Paced`: it is what keeps the
schedule of a superseded transition out of the next one, whose tail is that of
what was published and not of what was planned (`RestartGood`).  That a feed gives
nothing behind what it gave before comes from `EncodedIs`; that a boundary placed
behind the tail stays there, with silence before it and sorted in between, from
`NextInstantIs`, `BridgeIs`, `InOrderSorts` and `OutputIs`.  The other reason to
refuse a batch is an epoch without its headers: they are on their way, the viewer
has them, or the epoch is superseded and nobody sees it (`Headed`, `Opened`),
which must survive an action that is admitted between the building of a batch
and its dispatch (`GoodLater`, `TakenGood`).  After a throw only `Posted` and
`Opened` remain, and the outbox is still dispatched.  Each member function keeps
`Good` for any place of the feeds and any epoch, so each lemma stands for every
call of it.

On top of it, that nobody hears the programme under a holding picture
(`HoldingIsSilent`).  Its invariant, `QuietInv`, says what the order of time stamps
does not: what each packet is and under which picture it is heard.  Into holding,
all of its pictures come behind the programme sound the viewer has (`Hushed`): the
epoch starts behind the tail, and the tail covers all sound that was sent
(`Levels`), also when what was planned is revoked and the tail falls back to what
was published.  Out of holding there is a *mark*: no programme sound before
it, and, while the viewer still sees holding, nothing but silence before a
picture that is no later than it (`Curtain`).  After holding the mark
is the picture the boundary opens with, for sound before it is not joined; that every
batch until then is silence or the picture itself has to be carried through
outbox, schedule and the wait for the guard (`Shown`, `ToShow`), and rests on what
the encoders may give (`Queued`).  The mark is lost when an action moves
`publication_epoch` past the epoch, for then nobody sees it; a later programme
starts a new one, which is sound only because a viewer who sees holding is known
to have been silenced (`Veiled`).  The first broadcast has no silence to
come from; it opens with a picture (`Opening`).
Assumption of both: `TimeConstants`.

`HoldingCaptureProofs` has two layers.  `FeedInv` holds of the feed under any
calls in any order: what waits is ordered within each encoder, at or after the
cutoff and the tail (`Waiting`); nothing to come is before the tail, since a drain
stops at the slower encoder's newest packet, and the keyframe that opened the
gate is the first to leave (`Opening`, `Gate`); the byte count is exact, the two
cached limits are those of what waits (`Typed`, `Spans`).  The hard step is
`take_packets`: the lemmas show that ranks arrange the queue (`RanksArePlaces`,
`SortArranges`) and that bytes are those of the two parts (`BytesOfSorted`,
`BytesCut`).  The capture then makes only calls of the feed (`CaptureUsesFeed`),
and `CaptureInv` says between which of the owner's steps callbacks and monitor
run (`Threads`) and that a capture taken down has a feed that no longer listens
(`Down`).  Assumptions: `FeedConstants`, `CaptureConstants` (of `HoldingCapture`).

Model-checked only: liveness (fairness and ENABLED are beyond the prover), and
three action properties of `TransitionCoordinator` (`SwitchDecodes`,
`SoundContinuous`, `TimelineTight`), which compare a batch packet by packet with
what was sent before: each needs an invariant about the gaps in all the queues,
as `LineInv` is one about their order.

## 5. Not modelled

Payload bytes, FLV framing, codec parsing, URLs, JSON, error wording, Qt widgets
and the libobs adapters are left out: they have no state the properties tell
apart.  FFmpeg and libobs are external.  The scene-capture probe is an
experiment that does not take part in a broadcast.  `begin_broadcast`,
`begin_timestamp_epoch` and the older building-delay mode are modelled in
`DelayController` but not composed in `RewindSession`, whose product never
calls them.  The coordinator's `holding_ready` compares two codec configurations
before the first action is admitted; its runs begin after it.  Limits in bytes
are modelled in the controller and the feed and counted in packets elsewhere.

The muxer starts its 32 bit millisecond time stamps at the first packet of a
connection; that they move forward is what `NeverRegresses` shows of the DTS they
are computed from.  They wrap after 49 days, which no run reaches.  `PipelineOwner`
writes `transition_pending` from the coordinator's state over what a request has
set meanwhile: it corrects itself in the next turn, and only a text in the dock
reads it.

## 6. What is left

1. The status `MultiTargetSender` assumes of a sender as an abstract module that
   `RtmpSender` implements.
2. Proofs of `SwitchDecodes` and `SoundContinuous`, on top of `LineInv` and
   `QuietInv`.  `TimelineTight` may need a bound on hand-overs that the constants
   do not state.
3. `CaptureQueue`, `DelayController` and `TransitionCoordinator` composed in one
   run; today each takes what the one before it promises.
