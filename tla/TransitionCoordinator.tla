------------------------- MODULE TransitionCoordinator -------------------------
(***************************************************************************)
(* The output time line of a broadcast: transition-coordinator.cpp, with    *)
(* the muxer and consumer that receive what it dispatches.                  *)
(*                                                                          *)
(* Two feeds, the programme and the holding scene, share one outgoing       *)
(* stream.  Every change of feed starts an epoch whose packets are shifted  *)
(* behind the tail of what is on air.  An Emergency Dump goes over holding: *)
(* a silent frame drains the viewers' sound, holding is paced against the   *)
(* clock from the moment that frame is acknowledged, and the programme      *)
(* comes back paced until its own first sound is acknowledged.  Start Delay *)
(* and Return Live switch programme to programme.                           *)
(*                                                                          *)
(* The coordinator is a record, co, and each member function an operator    *)
(* from the coordinator it finds to the one it leaves; a throw sets error,  *)
(* and nothing runs after it.  What it dispatches passes through            *)
(* co.outbox: another thread may admit an action, which raises the          *)
(* publication epoch, before the dispatcher looks at it.                    *)
(*                                                                          *)
(* Time stamps and the clock count in the same unit.  Only differences of   *)
(* a feed's own time stamps reach the output, so a restarted feed starts    *)
(* at 0.  Payloads are left out, and with them the limits in bytes.         *)
(***************************************************************************)
EXTENDS Integers, SequencesExt

CONSTANTS
  Milli,        \* a millisecond
  Duration,     \* of one AAC frame, the same in both feeds
  Frame,        \* per feed, the duration of a video frame
  Shape,        \* per feed: lead, by how much its sound starts after its
                \* video, and composition, pts - dts of its video
  BridgeLimit,  \* kMaxResumeBridgeUs
  Window,       \* the two seconds a boundary, a guard or a schedule may span
  Capacity,     \* and the 4096 packets
  Deadline,     \* five seconds
  Tick,         \* by how much the clock moves between two checks
  LongestAge,   \* ages are counted up to here
  MaxFill,      \* packets that fill the delay an Emergency Dump rebuilds
  Bursts,       \* per feed, the packets of one hand-over: which are keyframes
  LastDts,      \* the longest stretch of a feed explored
  MaxRequests,  \* actions admitted
  None

Feeds == {"Programme", "Holding"}
Actions == {"SetDelay", "ReturnLive", "EmergencyDump"}
Errors == {"DtsRegression", "Refused", "GuardOverflow", "GuardTimeout",
           "BridgeTooLong", "BoundaryOverflow", "BoundaryTimeout", "KeyframeTimeout"}

ASSUME TimeConstants ==
  /\ Milli \in Nat \ {0} /\ Duration \in Nat \ {0}
  /\ Frame \in [Feeds -> Nat]
  /\ Shape \in [Feeds -> [lead : Nat, composition : Nat]]
  /\ Bursts \in [Feeds -> SUBSET Seq(BOOLEAN)]
  /\ Tick \in Nat /\ LongestAge \in Nat /\ MaxFill \in Nat
  /\ {BridgeLimit, Window, Capacity, Deadline} \subseteq Nat
  /\ BridgeLimit < Window /\ Window < Deadline
  /\ None \notin Int \cup Feeds \cup Errors

VARIABLES
  publication_epoch,  \* the dispatcher's
  requests, admitted, \* actions not yet processed, how many there were
  mode, fill,         \* the controller: Live, Delayed, or Building
  source,             \* per feed, where its stream is
  co, pc,             \* the coordinator; where the owner's loop is
  acked,              \* the newest ticket the network acknowledged
  view                \* what the viewer has received

vars == <<publication_epoch, requests, admitted, mode, fill, source, co, pc,
          acked, view>>

-----------------------------------------------------------------------------
(* Packets and the tail of a stream.                                        *)

\* Mutant: an instant is rounded down.
Floor(t) == (t \div Milli) * Milli
Ceil(t) == ((t + Milli - 1) \div Milli) * Milli
Silence(t) ==
  [kind |-> "Audio", key |-> FALSE, dts |-> t, pts |-> t, drain |-> TRUE]

\* The packets of q at the given positions, in order.
At(q, positions) ==
  LET first[n \in 0..Len(q)] ==
        IF n = 0 THEN <<>>
        ELSE IF n \in positions THEN Append(first[n - 1], q[n]) ELSE first[n - 1]
  IN  first[Len(q)]
Kind(q, kind) == At(q, {i \in DOMAIN q : q[i].kind = kind})
HasSound(q) == \E i \in DOMAIN q : q[i].kind = "Audio" /\ ~q[i].drain
\* Mutant: a programme is joined wherever it happens to be.
Anywhere(q) == q
FromCut(q, cut) == At(q, {i \in DOMAIN q : q[i].dts >= cut})
FromKeyframe(q) == At(q, {i \in DOMAIN q : \E j \in 1..i : q[j].key})

TailAfter(tail, feed, q) ==
  [output |-> Last(q).dts,
   audio  |-> IF Kind(q, "Audio") = <<>> THEN tail.audio
              ELSE Last(Kind(q, "Audio")).pts + Duration,
   video  |-> Max({tail.video} \cup
                  {p.pts + Frame[feed] : p \in ToSet(Kind(q, "Video"))})]

\* Frames of silence from t on, as many as end by the given instant.
Bridge(t, end) ==
  [i \in 1..(IF end - t < Duration THEN 0
             ELSE (end - t - Duration) \div Ceil(Duration) + 1) |->
     Silence(t + (i - 1) * Ceil(Duration))]

\* std::stable_sort by DTS.
Precedes(q, i, j) == q[i].dts < q[j].dts \/ (q[i].dts = q[j].dts /\ i < j)
Rank(q, i) == Cardinality({j \in DOMAIN q : Precedes(q, j, i)}) + 1
InOrder(q) == [r \in DOMAIN q |-> q[CHOOSE i \in DOMAIN q : Rank(q, i) = r]]

-----------------------------------------------------------------------------
(* Dispatch.                                                                *)

Fail(c, what) == [c EXCEPT !.error = what]

Send(c, feed, q, avc) ==
  [c EXCEPT !.ticket = @ + 1,
            !.outbox = Append(@, [epoch |-> c.epoch, ticket |-> c.ticket + 1,
                                  feed |-> feed, packets |-> q, avc |-> avc])]

RecordPublication(c, feed, q) ==
  [c EXCEPT !.published = TailAfter(@, feed, q),
            !.published_feed = IF Kind(q, "Video") = <<>> THEN @ ELSE feed]

Dispatched(c, feed, q) ==
  [Send(RecordPublication(c, feed, q), feed, q, c.headers) EXCEPT !.headers = None]

Delivered(c, ticket) == publication_epoch = c.epoch /\ acked >= ticket

-----------------------------------------------------------------------------
(* TransitionCoordinator::publish.                                          *)

Silenced(tail, t) == [output |-> t, audio |-> t + Duration, video |-> tail.video]

\* The silent frame that ends the outgoing sound, under the headers of the
\* pictures it follows.
Drain(c) ==
  LET t  == Ceil(Max({c.tail.output + Milli, c.tail.audio}))
      c1 == Send(c, "Holding", <<Silence(t)>>, c.published_feed)
  IN  [c1 EXCEPT !.drain_required = FALSE, !.drain_ticket = c1.ticket,
                 !.drain_time = c.tail.output, !.silent = TRUE,
                 !.tail = Silenced(@, t), !.published = Silenced(@, t)]

Schedule(c, q) ==
  LET queue == c.scheduled \o q
  IN  IF Len(queue) > Capacity \/ Last(queue).dts - queue[1].dts > Window
      THEN Fail(c, "GuardOverflow") ELSE [c EXCEPT !.scheduled = queue]

\* Shift what the epoch keeps, and sort it in between the silence.
Shifted(c, q) == [i \in DOMAIN q |-> [q[i] EXCEPT !.dts = @ + c.offset, !.pts = @ + c.offset]]
Output(c, bridge, packets) == InOrder(bridge \o Shifted(c, FromCut(packets, c.cutoff)))

\* The tail moves.  starts: the first packets of an epoch, with its headers;
\* a programme that comes after holding is paced from here.
Advanced(c, feed, output, starts) ==
  [c EXCEPT !.tail = TailAfter(@, feed, output),
            !.silent = @ \/ (feed = "Holding" /\ Kind(output, "Audio") # <<>>),
            !.headers = IF starts THEN feed ELSE @]
PaceProgramme(c, output) ==
  [c EXCEPT !.paced_programme = TRUE, !.boundary_sent = FALSE,
            !.resume_age = 0, !.resume_time = output[1].dts]

Emit(c, feed, bridge, packets, starts) ==
  LET output == Output(c, bridge, packets)
      c1 == Advanced(c, feed, output, starts)
      c2 == IF feed = "Programme" /\ starts /\ c1.silent /\ c.drain_ticket # 0
            THEN PaceProgramme(c1, output) ELSE c1
  IN  IF output = <<>> THEN c
      ELSE IF output[1].dts < c.tail.output THEN Fail(c, "DtsRegression")
      ELSE IF IF feed = "Holding" THEN c2.paced_holding ELSE c2.paced_programme
           THEN Schedule(c2, output)
           ELSE Dispatched(c2, feed, output)

NextInstant(tail) == Ceil(Max({tail.output + Milli, tail.audio, tail.video + Milli}))

\* Mutant: a resumed programme keeps sound that precedes its picture.
KeepSound(boundary, resumes) == boundary
Joinable(boundary, resumes) ==
  IF resumes
  THEN At(boundary, {i \in DOMAIN boundary : boundary[i].kind = "Video"
                                             \/ boundary[i].pts >= boundary[1].pts})
  ELSE boundary

BridgeStart(tail, resumes) ==
  Ceil(IF resumes THEN Max({tail.audio, tail.output}) ELSE tail.audio)

\* A keyframe and its sound are there: place the feed behind the tail, with
\* silence up to its first sound.
Select(c, feed) ==
  LET drained == feed = "Holding" /\ c.drain_required
      resumes == feed = "Programme" /\ c.tail.output >= 0 /\ c.silent
      c1      == IF drained THEN Drain(c) ELSE c
      offset  == NextInstant(c1.tail) - c.cutoff
      packets == Joinable(c.boundary, resumes)
      sound   == Kind(packets, "Audio")[1].pts + offset
      c2      == [c1 EXCEPT !.offset = offset, !.selected = feed, !.boundary = <<>>]
  IN  IF resumes /\ sound - c1.tail.audio > BridgeLimit THEN Fail(c1, "BridgeTooLong")
      ELSE Emit(c2, feed,
                IF resumes \/ drained
                THEN Bridge(BridgeStart(c1.tail, resumes), sound) ELSE <<>>,
                packets, TRUE)

\* Collect from the first keyframe on until there is sound to go with it.
Collect(c, feed, packets) ==
  LET from  == IF c.cutoff = None THEN FromKeyframe(packets) ELSE packets
      cut   == IF c.cutoff = None /\ from # <<>> THEN from[1].dts ELSE c.cutoff
      grown == c.boundary \o FromCut(from, cut)
      c1    == [c EXCEPT !.cutoff = cut, !.boundary = grown]
      rejoins == feed = "Programme" /\ c.tail.output >= 0
  IN  IF grown = <<>> THEN c1
      ELSE IF Len(grown) > Capacity \/ Last(grown).dts - cut > Window
      THEN Fail(c1, "BoundaryOverflow")
      ELSE IF \E p \in ToSet(Kind(grown, "Audio")) : rejoins => p.pts >= grown[1].pts
      THEN Select(c1, feed) ELSE c1

Publish(c, feed, packets) ==
  IF packets = <<>> THEN c
  ELSE IF c.selected = None THEN Collect(c, feed, packets)
  ELSE Emit(c, feed, <<>>, packets, FALSE)

-----------------------------------------------------------------------------
(* The other member functions.                                              *)

Invalidate(c, epoch) ==
  [c EXCEPT !.epoch = epoch, !.boundary_left = Deadline, !.programme_left = None,
            !.key_left = Deadline, !.selected = None, !.cutoff = None,
            !.boundary = <<>>]

\* Mutant: a superseded transition's schedule is inherited.
InheritTail(c) == c.tail
PublishedTail(c) == c.published

\* Mutant: what was scheduled outlives its transition.
KeepSchedule(c) == [c EXCEPT !.waiting = <<>>]
Unplayed(c) == [c EXCEPT !.waiting = <<>>, !.scheduled = <<>>]

Restart(c, direct) ==
  LET guard == ~direct /\ c.published.output >= 0
  IN  [Unplayed(c) EXCEPT
                !.desired = IF direct THEN "Programme" ELSE "Holding",
                !.tail = PublishedTail(c), !.headers = None, !.ack_age = None, !.paced_programme = FALSE,
                !.boundary_sent = FALSE, !.boundary_delivered = FALSE,
                !.drain_required = guard, !.guard_active = guard,
                !.paced_holding = guard, !.drain_ticket = 0,
                !.holding_ticket = 0, !.programme_ticket = 0]

HoldBack(c, held) ==
  IF held /\ c.programme_left = None THEN [c EXCEPT !.programme_left = Deadline] ELSE c

\* Only an epoch nobody superseded is advanced; otherwise what was ready is
\* lost, and the action that is admitted starts over.
ReleaseReady(c, ready) ==
  LET all == c.waiting \o ready
      key == FromKeyframe(all)
      c1  == [c EXCEPT !.waiting = <<>>]
  IN  IF all = <<>> THEN c
      ELSE IF c.desired = "Programme" THEN Publish(c1, "Programme", all)
      ELSE IF key = <<>> THEN HoldBack(c1, TRUE)
      ELSE IF c.epoch # publication_epoch THEN c1
      ELSE Publish([Invalidate(c1, c.epoch + 1) EXCEPT !.desired = "Programme"],
                   "Programme", key)

Wait(c, ready) ==
  LET held  == IF c.waiting = <<>> /\ FromKeyframe(ready) = <<>> THEN <<>> ELSE ready
      queue == c.waiting \o held
      c1    == HoldBack(c, held # <<>>)
  IN  IF held = <<>> THEN c
      ELSE IF Len(queue) > Capacity \/ Last(queue).dts - queue[1].dts > Window
      THEN Fail(c1, "GuardOverflow") ELSE [c1 EXCEPT !.waiting = queue]

-----------------------------------------------------------------------------
(* check_deadline, in three steps: between them another thread may have     *)
(* admitted an action, and deliveries arrive.                               *)

Older(age) == IF age = None THEN None ELSE Min({age + Tick, LongestAge})
Shorter(left) == IF left = None THEN None ELSE Max({left - Tick, 0})
Later(c) == [c EXCEPT !.boundary_left = Shorter(@), !.programme_left = Shorter(@),
                      !.key_left = Shorter(@), !.ack_age = Older(@),
                      !.resume_age = Older(@)]

\* From the front of the schedule, as long as they are due.
Due(c, age, origin) ==
  SubSeq(c.scheduled, 1,
         Cardinality({n \in DOMAIN c.scheduled :
                        \A i \in 1..n : age >= c.scheduled[i].dts - origin}))
Unscheduled(c, due) ==
  [c EXCEPT !.scheduled = SubSeq(@, Len(due) + 1, Len(@))]

GuardStep(c) ==
  LET c1  == [c EXCEPT !.ack_age = IF @ = None THEN 0 ELSE @]
      due == Due(c1, c1.ack_age, c1.drain_time)
      c2  == Dispatched(Unscheduled(c1, due), "Holding", due)
  IN  IF ~c.paced_holding THEN c
      ELSE IF c.guard_active /\ c.boundary_left = 0 THEN Fail(c, "GuardTimeout")
      ELSE IF c.drain_ticket = 0 \/ ~Delivered(c, c.drain_ticket) THEN c
      ELSE IF due = <<>> THEN c1
      ELSE [c2 EXCEPT !.holding_ticket = IF @ = 0 /\ HasSound(due) THEN c2.ticket ELSE @]

ResumeStep(c) ==
  LET c1 == [c EXCEPT !.guard_active =
                 @ /\ ~(c.holding_ticket # 0 /\ Delivered(c, c.holding_ticket))]
  IN  IF c.paced_holding /\ ~c1.guard_active /\ c1.waiting # <<>>
         /\ c1.scheduled = <<>> /\ Delivered(c1, c1.ticket)
      THEN ReleaseReady([c1 EXCEPT !.paced_holding = FALSE], <<>>)
      ELSE IF c.paced_holding THEN c1 ELSE c

PaceStep(c) ==
  LET due == Due(c, c.resume_age, c.resume_time)
      c1  == Dispatched(Unscheduled(c, due), "Programme", due)
      sent == c.boundary_sent \/ HasSound(due)
  IN  IF ~c.paced_programme \/ c.error # None \/ due = <<>> THEN c
      ELSE [c1 EXCEPT !.boundary_sent = sent,
                      !.programme_ticket = IF sent /\ @ = 0 THEN c1.ticket ELSE @]

\* Mutant: nobody looks at the clock while the programme's sound is awaited.
SettlePatiently(c) ==
  IF c.paced_programme /\ c.boundary_sent /\ Delivered(c, c.programme_ticket)
  THEN [c EXCEPT !.paced_programme = FALSE, !.boundary_delivered = TRUE] ELSE c
SettleStep(c) ==
  LET arrived == c.boundary_delivered
                 \/ (c.boundary_sent /\ Delivered(c, c.programme_ticket))
      c1 == [c EXCEPT !.paced_programme = FALSE, !.boundary_delivered = TRUE]
  IN  IF ~c.paced_programme THEN c
      ELSE IF ~arrived
      THEN IF c.boundary_left = 0 THEN Fail(c, "GuardTimeout") ELSE c
      ELSE IF c.scheduled = <<>> THEN c1
      ELSE Dispatched([c1 EXCEPT !.scheduled = <<>>], "Programme", c.scheduled)

LimitStep(c) ==
  IF c.error # None THEN c
  ELSE IF (c.selected = None /\ c.boundary_left = 0) \/ c.programme_left = 0
  THEN Fail(c, "BoundaryTimeout")
  ELSE IF mode = "Building" /\ c.key_left = 0 THEN Fail(c, "KeyframeTimeout")
  ELSE c

-----------------------------------------------------------------------------
(* The feeds.                                                               *)

\* Encoders of a fixed frame rate: the earlier stream's packet comes next,
\* video first.  The programme restarts at a keyframe, which RewindSession
\* shows of the controller; holding is joined anywhere.
Restarted(feed) ==
  [feed |-> feed, video |-> 0, audio |-> Shape[feed].lead, opening |-> feed = "Programme"]

Encode(e, key) ==
  LET s == e.next IN
  IF s.video <= s.audio
  THEN [next    |-> [s EXCEPT !.video = @ + Frame[s.feed], !.opening = FALSE],
        packets |-> Append(e.packets,
          [kind |-> "Video", key |-> key \/ s.opening, dts |-> s.video,
           pts |-> s.video + Shape[s.feed].composition, drain |-> FALSE])]
  ELSE [next    |-> [s EXCEPT !.audio = @ + Duration],
        packets |-> Append(e.packets,
          [kind |-> "Audio", key |-> FALSE, dts |-> s.audio, pts |-> s.audio,
           drain |-> FALSE])]
Encoded(feed, keys) ==
  LET first[n \in 0..Len(keys)] ==
        IF n = 0 THEN [next |-> source[feed], packets |-> <<>>]
        ELSE Encode(first[n - 1], keys[n])
  IN  first[Len(keys)]

Explored(e) == e.next.video <= LastDts /\ e.next.audio <= LastDts

-----------------------------------------------------------------------------
(* The worker's loop, and the threads beside it.                            *)

Start == [output |-> -Milli, audio |-> 0, video |-> -Milli]

Init ==
  /\ publication_epoch = 1 /\ requests = <<>> /\ admitted = 0
  /\ mode = "Live" /\ fill = 0
  /\ source = [f \in Feeds |-> Restarted(f)]
  /\ co = [epoch |-> 1, desired |-> "Programme", selected |-> None,
           cutoff |-> None, offset |-> 0, boundary |-> <<>>, waiting |-> <<>>,
           scheduled |-> <<>>, headers |-> None, tail |-> Start,
           published |-> Start, published_feed |-> "Programme", silent |-> FALSE,
           drain_required |-> FALSE, guard_active |-> FALSE, drain_time |-> 0,
           paced_holding |-> FALSE, paced_programme |-> FALSE,
           boundary_sent |-> FALSE, boundary_delivered |-> FALSE,
           resume_time |-> 0, ack_age |-> None, resume_age |-> None,
           ticket |-> 0, drain_ticket |-> 0, holding_ticket |-> 0,
           programme_ticket |-> 0, boundary_left |-> Deadline,
           programme_left |-> None, key_left |-> Deadline,
           outbox |-> <<>>, error |-> None]
  /\ pc = "Idle" /\ acked = 0
  /\ view = [epoch |-> 0, ticket |-> 0, dts |-> -Milli, audio |-> 0, sound |-> 0,
             unveiled |-> 0, last |-> -Milli, feed |-> None, avc |-> "Programme",
             frame |-> None, cut |-> FALSE]

Ready(step) == pc = step /\ co.outbox = <<>> /\ co.error = None

\* PipelineOwner::request, on the thread of the user interface: what it admits
\* depends on the controller's state at that moment.
Admissible(action) == (mode = "Live") = (action = "SetDelay")
Admit(action) ==
  /\ co.error = None /\ acked > 0 /\ admitted < MaxRequests
  /\ Admissible(action)
  /\ publication_epoch' = publication_epoch + 1
  /\ requests' = Append(requests, [action |-> action, epoch |-> publication_epoch + 1])
  /\ admitted' = admitted + 1
  /\ UNCHANGED <<mode, fill, source, co, pc, acked, view>>

\* By the time it is processed the controller may refuse it: then the
\* programme goes on where it is.  (PipelineOwner always arms the controller,
\* so it is in rewind mode.)
Controller(action) ==
  \/ /\ action = "SetDelay" /\ mode = "Live" /\ mode' = "Delayed" /\ fill' = 0
  \/ /\ action = "SetDelay" /\ UNCHANGED <<mode, fill>>
  \/ /\ action = "ReturnLive" /\ mode' = "Live" /\ fill' = 0
  \/ /\ action = "EmergencyDump" /\ mode' = "Building" /\ fill' = MaxFill

\* The loop takes what is admitted when it wakes; an action admitted later
\* waits for the next turn.
Wake ==
  /\ Ready("Idle") /\ requests = <<>> /\ pc' = "Holding"
  /\ UNCHANGED <<publication_epoch, requests, admitted, mode, fill, source, co, acked, view>>
Request ==
  /\ Ready("Idle") \/ Ready("Requests")
  /\ requests # <<>>
  /\ pc' \in {"Holding"} \cup (IF Len(requests) > 1 THEN {"Requests"} ELSE {})
  /\ LET r == Head(requests)
         refused == mode' = mode /\ r.action # "EmergencyDump"
     IN  /\ Controller(r.action)
         /\ source' = [f \in Feeds |->
              IF f = "Programme" /\ refused THEN source[f] ELSE Restarted(f)]
         /\ co' = Restart(Invalidate(co, r.epoch), r.action # "EmergencyDump")
  /\ requests' = Tail(requests)
  /\ UNCHANGED <<publication_epoch, admitted, acked, view>>

Stale == co.epoch < publication_epoch

\* programme: a packet enters the controller, keys leave it.  While it builds
\* a delay nothing leaves; what it gives while an action is admitted stays
\* there.
Programme(keys, key) ==
  LET e  == Encoded("Programme", keys)
      c  == IF key THEN [co EXCEPT !.key_left = Deadline] ELSE co
  IN
  /\ Ready("Programme")
  /\ mode = "Building" => keys = <<>>
  /\ key => mode = "Building" /\ ~Stale
  /\ IF mode = "Building"
     THEN fill' = fill - 1 /\ mode' = IF fill = 1 THEN "Delayed" ELSE mode
     ELSE UNCHANGED <<mode, fill>>
  /\ IF Stale THEN co' = c /\ UNCHANGED source
     ELSE /\ Explored(e)
          /\ source' = [source EXCEPT !["Programme"] = e.next]
          /\ co' = IF co.paced_holding THEN Wait(c, e.packets)
                   ELSE ReleaseReady(c, e.packets)
  /\ publication_epoch' = Max({publication_epoch, co'.epoch})
  /\ UNCHANGED <<requests, admitted, pc, acked, view>>

\* holding: the scene is drained on and off the air; off the air only its
\* first silence is kept.
Holding(keys) ==
  LET e == Encoded("Holding", keys)
      c == [co EXCEPT !.silent = @ \/ HasSound(e.packets)]
  IN
  /\ Ready("Holding") /\ Explored(e) /\ pc' = "Programme"
  /\ IF ~Stale /\ co.desired = "Holding" /\ (co.waiting = <<>> \/ co.selected = None)
     THEN /\ source' = [source EXCEPT !["Holding"] = e.next]
          /\ co' = Publish(c, "Holding", e.packets)
     ELSE co' = c /\ UNCHANGED source
  /\ UNCHANGED <<publication_epoch, requests, admitted, mode, fill, acked, view>>

\* The first look at the publication epoch.
CheckGuard ==
  /\ Ready("Programme")
  /\ IF Stale THEN co' = Later(co) /\ pc' = "Idle"
     ELSE co' = GuardStep(Later(co)) /\ pc' = "Resume"
  /\ UNCHANGED <<publication_epoch, requests, admitted, mode, fill, source, acked, view>>
CheckResume ==
  /\ Ready("Resume")
  /\ co' = PaceStep(ResumeStep(co)) /\ pc' = "Settle"
  /\ publication_epoch' = Max({publication_epoch, co'.epoch})
  /\ UNCHANGED <<requests, admitted, mode, fill, source, acked, view>>
CheckLimits ==
  /\ Ready("Settle")
  /\ co' = LimitStep(SettleStep(co)) /\ pc' = "Idle"
  /\ UNCHANGED <<publication_epoch, requests, admitted, mode, fill, source, acked, view>>

-----------------------------------------------------------------------------
(* The dispatcher, the consumer with its muxer, and the viewer.             *)

Seen(b) ==
  LET video == Kind(b.packets, "Video")
      sound == At(b.packets, {i \in DOMAIN b.packets :
                    b.packets[i].kind = "Audio" /\ ~b.packets[i].drain})
      tail  == TailAfter([audio |-> view.audio, video |-> view.last], b.feed, b.packets)
  IN  [epoch |-> b.epoch, ticket |-> b.ticket, dts |-> tail.output,
       audio |-> tail.audio, last |-> tail.video,
       sound |-> IF b.feed = "Programme" /\ sound # <<>>
                 THEN Last(sound).pts + Duration ELSE view.sound,
       unveiled |-> IF video # <<>> /\ b.feed = "Programme" /\ view.feed = "Holding"
                    THEN video[1].pts ELSE view.unveiled,
       feed  |-> IF video = <<>> THEN view.feed ELSE b.feed,
       avc   |-> IF b.avc = None THEN view.avc ELSE b.avc,
       frame |-> IF video # <<>> THEN Last(video).dts
                 ELSE IF view.epoch = b.epoch THEN view.frame ELSE None,
       cut   |-> FALSE]

\* NetworkPacketConsumer::consume throws: no headers for a new epoch, or a
\* time stamp that moved back.
Refuses(b) == \/ b.epoch > view.epoch /\ b.avc = None
              \/ b.packets[1].dts < view.dts
              \/ \E i \in 2..Len(b.packets) : b.packets[i].dts < b.packets[i - 1].dts

Dispatch ==
  /\ co.outbox # <<>>
  /\ LET b == Head(co.outbox)
         current == b.epoch >= publication_epoch
     IN  /\ co' = [co EXCEPT !.outbox = Tail(@),
                     !.error = IF current /\ Refuses(b) THEN "Refused" ELSE @]
         /\ view' = IF current THEN Seen(b) ELSE [view EXCEPT !.cut = TRUE]
  /\ UNCHANGED <<publication_epoch, requests, admitted, mode, fill, source, pc, acked>>

\* The network writes what it was handed, in order.
Deliver ==
  /\ \E ticket \in (acked + 1)..view.ticket : acked' = ticket
  /\ UNCHANGED <<publication_epoch, requests, admitted, mode, fill, source, co, pc, view>>

HandOver == \E keys \in Bursts["Programme"], key \in BOOLEAN : Programme(keys, key)
Worker == \/ Wake \/ Request \/ CheckGuard \/ CheckResume \/ CheckLimits \/ Dispatch
          \/ \E keys \in Bursts["Holding"] : Holding(keys)

Next == Worker \/ HandOver \/ Deliver \/ \E a \in Actions : Admit(a)

Spec == Init /\ [][Next]_vars

\* The owner's loop turns at least every 10 ms, and the programme keeps coming:
\* the owner ends a broadcast whose capture stalls.  The network owes nothing.
\* (WF_vars(Worker) and SF_vars(HandOver), with what enables them written out.)
CanHandOver ==
  /\ Ready("Programme") /\ co.epoch >= publication_epoch
  /\ mode = "Building" \/ Explored(Encoded("Programme", <<FALSE>>))
FairSpec ==
  /\ Spec
  /\ []<>(co.error # None) \/ []<><<Worker>>_vars
  /\ <>[](~CanHandOver) \/ []<><<HandOver>>_vars

-----------------------------------------------------------------------------
(* Properties.                                                              *)

\* Whatever is superseded, the time line only moves forward: the coordinator
\* never finds a regression in its own output, and the muxer and consumer
\* refuse nothing.
NeverRegresses == co.error \notin {"DtsRegression", "Refused"}

Consumed == co.outbox # <<>> /\ Len(co'.outbox) < Len(co.outbox)
            /\ Head(co.outbox).epoch >= publication_epoch
Batch == Head(co.outbox)
Fresh == Batch.epoch # view.epoch \/ view.frame = None

\* What arrives decodes: pictures come under their own feed's headers, an
\* epoch's first one is a keyframe, and from there on none is missing, over
\* the boundary, the wait for the guard, the schedule and what is released
\* when the pacing ends.
SwitchDecodes ==
  [][Consumed =>
       LET video == Kind(Batch.packets, "Video")
       IN  /\ video # <<>> => view'.avc = Batch.feed
           /\ video # <<>> /\ Fresh => video[1].key
           /\ \A i \in DOMAIN video :
                IF i > 1 THEN video[i].dts = video[i - 1].dts + Frame[Batch.feed]
                ELSE Fresh \/ video[1].dts = view.frame + Frame[Batch.feed]]_vars

\* The sound neither overlaps nor stops for a frame or more at a change of
\* feed (tests/transition-coordinator-tests.cpp:301), unless the viewer missed
\* a batch that an action cut off, or holding never supplied silence.
SoundContinuous ==
  [][Consumed /\ view.epoch # 0 =>
       LET audio == Kind(Batch.packets, "Audio")
           Before(i) == IF i = 1 THEN view.audio ELSE audio[i - 1].pts + Duration
       IN  \A i \in DOMAIN audio :
             /\ audio[i].pts >= Before(i)
             /\ co.silent /\ ~view.cut => audio[i].pts < Before(i) + Duration + Milli]_vars

\* Nobody hears the programme under a holding picture: holding pictures start
\* after the last programme sound, and after holding the programme's sound
\* starts no earlier than its first picture is shown.
HoldingIsSilent ==
  [][Consumed =>
       /\ Batch.feed = "Holding" =>
            \A p \in ToSet(Kind(Batch.packets, "Video")) : p.pts >= view.sound
       /\ Batch.feed = "Programme" /\ view.epoch # 0 =>
            \A p \in ToSet(Kind(Batch.packets, "Audio")) :
              ~p.drain => view'.feed = "Programme" /\ p.pts >= view'.unveiled]_vars

\* A new epoch starts right behind what the viewer has: neither a schedule
\* that was revoked nor the wait for a boundary leaves a jump.
TimelineTight ==
  [][Consumed /\ Batch.epoch # view.epoch /\ ~view.cut =>
       Batch.packets[1].dts
         <= Max({view.dts, view.audio, view.last}) + 2 * Milli]_vars

\* A transition ends, on the air and acknowledged or with an error, though the
\* network may never acknowledge and a keyframe or sound may never come.
OnAir == co.selected = "Programme" /\ ~co.paced_programme /\ requests = <<>>
TransitionEnds == [](requests # <<>> => <>(OnAir \/ co.error # None))
=============================================================================
