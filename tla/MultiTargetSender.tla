--------------------------- MODULE MultiTargetSender ---------------------------
(***************************************************************************)
(* One batch for several destinations: multi-target-sender.cpp.  The first  *)
(* destination is OBS's own service and decides the broadcast; the others   *)
(* are contained.  The pipeline worker starts, feeds, asks and stops them;  *)
(* an owner call cuts them over to a new epoch at any moment; each has a    *)
(* sender of its own, known here by its SenderStatus only (RtmpSender).     *)
(*                                                                          *)
(* One tick is 250 ms, the longest pause between two questions of one wait. *)
(* Instants are kept as their age in ticks.  still, handed and floor are    *)
(* not in the code: still is how long a destination has really stood still  *)
(* while it was waited for, the other two are those of PublicationFence.    *)
(***************************************************************************)
EXTENDS Naturals

CONSTANTS
  N,          \* destinations, the primary first
  MaxWork,    \* bound of the model: publication epochs and batches together
  MaxLosses,  \* bound of the model: connections lost or replaced
  Second,     \* ticks a secondary may stand still
  Backoff,    \* ticks in SenderConfig::reconnect_delay
  None

Destinations == 1..N
Cutoffs == [epoch : Nat, todo : {None} \cup SUBSET Destinations]
ASSUME TargetConstants ==
  /\ N \in Nat \ {0}
  /\ MaxWork \in Nat /\ MaxLosses \in Nat
  /\ Second \in Nat \ {0} /\ Backoff \in Nat \ {0}
  /\ None \notin Nat /\ None \notin Cutoffs
  /\ \A ds \in SUBSET Destinations : ds # None

Primary == 1
Kinds == {"ticket", "boundary"}

VARIABLES
  pc, at,              \* the pipeline worker, and its place in a loop
  rows, stops,         \* workers_ and stops_in_progress_
  started, isolated,   \* results of start; isolated_error is set
  epochOf,             \* NetworkPacketConsumer::epoch_
  sender,              \* SenderStatus, as far as it is read here; reconnected:
                       \*   reconnect_count of a secondary is not 0, until it
                       \*   publishes
  link,                \* what a sender holds, how long it backs off, and
                       \*   whether a secondary was away a tick ago
  losses,
  alive, asked,        \* its thread runs; stop was requested
  publication_epoch, current, ticket, \* dispatcher; coordinator
  batch, todo,         \* consume under way and destinations it has left
  cut,                 \* discontinuity of an owner call under way
  want, polled,        \* what the coordinator waits for; questions asked
                       \*   in this tick
  query, ready, seen,  \* delivery_ready under way
  wait,                \* DeliveryWait of each kind and destination
  still, handed, floor

lifeVars  == <<rows, stops, started>>
linkVars  == <<sender, link, losses, alive>>
epochVars == <<publication_epoch, current, ticket>>
askVars   == <<want, polled, query, ready, seen>>
fenceVars == <<handed, floor>>
vars == <<pc, at, lifeVars, isolated, epochOf, linkVars, asked, epochVars,
          batch, todo, cut, askVars, wait, still, fenceVars>>

MoreWork == publication_epoch + ticket < MaxWork
Lower(a, b) == IF a < b THEN a ELSE b
\* since is unset; the other fields are then overwritten before they are read.
NoWait == [epoch |-> 0, progress |-> 0, age |-> None, gap |-> 0]
Unlinked == [queued |-> 0, media |-> FALSE, cut |-> FALSE, rest |-> 0,
             keeps |-> FALSE, away |-> FALSE]
Idle == [state |-> "Stopped", published |-> 0, epoch |-> 0, ticket |-> 0,
         reconnected |-> FALSE]

Init ==
  /\ pc = "starting" /\ at = 1
  /\ rows = {} /\ stops = 0
  /\ started = [d \in Destinations |-> "pending"]
  /\ isolated = [d \in Destinations |-> FALSE]
  /\ epochOf = [d \in Destinations |-> 0]
  /\ sender = [d \in Destinations |-> Idle]
  /\ link = [d \in Destinations |-> Unlinked] /\ losses = 0
  /\ alive = [d \in Destinations |-> FALSE]
  /\ asked = [d \in Destinations |-> FALSE]
  /\ publication_epoch = 0 /\ current = 0 /\ ticket = 0
  /\ batch = None /\ todo = {} /\ cut = None
  /\ want = None /\ polled = {} /\ query = None /\ ready = TRUE /\ seen = None
  /\ wait = [k \in Kinds |-> [d \in Destinations |-> NoWait]]
  /\ still = [k \in Kinds |-> [d \in Destinations |-> 0]]
  /\ handed = [d \in Destinations |-> 0] /\ floor = 0

-----------------------------------------------------------------------------
(* The senders, by what their status shows (see RtmpSender).                *)

To(d, s) == sender' = [sender EXCEPT ![d] = s]
\* The thread is between two writes, or writes media of its epoch.
Writing(d) == sender[d].state = "Running" /\ ~link[d].cut

Connect(d) ==
  /\ sender[d].state = "Starting"
  /\ To(d, [sender[d] EXCEPT !.state = "Running"])
  /\ UNCHANGED <<link, losses, alive, still>>
\* A tag with a delivery ticket is written.
Deliver(d) ==
  LET before == IF sender[d].epoch = epochOf[d] THEN sender[d].ticket ELSE 0 IN
  /\ Writing(d)
  /\ \E t \in (before + 1)..link[d].queued :
       To(d, [sender[d] EXCEPT !.epoch = epochOf[d], !.ticket = t])
  /\ still' = [still EXCEPT !["ticket"][d] = 0]
  /\ UNCHANGED <<link, losses, alive>>
\* Audio behind a keyframe of the epoch is written.
Publish(d) ==
  /\ Writing(d) /\ link[d].media
  /\ sender[d].published # epochOf[d]
  /\ To(d, [sender[d] EXCEPT !.published = epochOf[d], !.reconnected = FALSE])
  /\ link' = [link EXCEPT ![d].away = FALSE]
  /\ still' = [still EXCEPT !["boundary"][d] = 0]
  /\ UNCHANGED <<losses, alive>>
\* The epoch of what a lost connection held.
Acknowledged(d) == IF link[d].queued = 0 THEN 0 ELSE epochOf[d]
\* reconnect(): after a lost connection the queue is dropped, acknowledged,
\* and the sender backs off; a transport cut for a transition is replaced at
\* once and keeps what the new epoch has queued.
Lose(d) ==
  /\ losses < MaxLosses /\ losses' = losses + 1
  /\ \/ sender[d].state = "Starting" \/ Writing(d)
     \/ sender[d].state = "Reconnecting" /\ link[d].keeps
  /\ To(d, [state |-> "Reconnecting", published |-> 0, reconnected |-> d # Primary,
            epoch |-> Acknowledged(d), ticket |-> link[d].queued])
  /\ link' = [link EXCEPT ![d].media = FALSE, ![d].rest = Backoff,
                          ![d].keeps = FALSE]
  /\ UNCHANGED <<alive, still>>
Replace(d) ==
  /\ losses < MaxLosses /\ losses' = losses + 1
  /\ sender[d].state = "Running" /\ link[d].cut
  /\ To(d, [state |-> "Reconnecting", published |-> 0, reconnected |-> d # Primary,
            epoch |-> 0, ticket |-> 0])
  /\ link' = [link EXCEPT ![d].cut = FALSE, ![d].rest = 0, ![d].keeps = TRUE]
  /\ UNCHANGED <<alive, still>>
\* The write that a transition found under way ends within its grace.
FinishCut(d) ==
  /\ sender[d].state = "Running" /\ link[d].cut
  /\ link' = [link EXCEPT ![d].cut = FALSE]
  /\ UNCHANGED <<sender, losses, alive, still>>
Resume(d) ==
  /\ sender[d].state = "Reconnecting" /\ link[d].rest = 0
  /\ To(d, [sender[d] EXCEPT !.state = "Running"])
  /\ link' = [link EXCEPT ![d].keeps = FALSE]
  /\ UNCHANGED <<losses, alive, still>>
\* fail(): the reconnect budget is spent, startup took too long, or the
\* worker met an exception.
GiveUp(d) ==
  /\ sender[d].state \in {"Starting", "Running", "Reconnecting"}
  /\ To(d, [Idle EXCEPT !.state = "Failed", !.published = sender[d].published])
  /\ link' = [link EXCEPT ![d] = Unlinked]
  /\ alive' = [alive EXCEPT ![d] = FALSE]
  /\ UNCHANGED <<losses, still>>
\* The thread sees that a stop was requested.
End(d) ==
  /\ alive[d] /\ asked[d]
  /\ alive' = [alive EXCEPT ![d] = FALSE]
  /\ UNCHANGED <<sender, link, losses, still>>

Sender(d) ==
  /\ \/ Connect(d) \/ Deliver(d) \/ Publish(d) \/ Lose(d) \/ Replace(d)
     \/ FinishCut(d) \/ Resume(d) \/ GiveUp(d) \/ End(d)
  /\ UNCHANGED <<pc, at, lifeVars, isolated, epochOf, asked, epochVars, batch,
                 todo, cut, askVars, wait, fenceVars>>

\* NetworkPacketConsumer::request_stop.  Nothing else of a sender that stops
\* is read again.
RequestStop(d) ==
  /\ asked' = [asked EXCEPT ![d] = TRUE]
  /\ To(d, [Idle EXCEPT !.state = IF sender[d].state = "Stopped" THEN @
                                  ELSE "Stopping"])
  /\ link' = [link EXCEPT ![d] = Unlinked]

-----------------------------------------------------------------------------
(* start(): the consumers start on threads of their own.                    *)

Start(d) ==
  /\ pc = "starting" /\ started[d] = "pending"
  /\ \E ok \in BOOLEAN :
       /\ started' = [started EXCEPT ![d] = IF ok THEN "ok" ELSE "no"]
       /\ alive' = [alive EXCEPT ![d] = ok]
       /\ To(d, [sender[d] EXCEPT !.state = IF ok THEN "Starting" ELSE @])
  /\ UNCHANGED <<pc, at, rows, stops, isolated, epochOf, link, losses, asked,
                 epochVars, batch, todo, cut, askVars, wait, still,
                 fenceVars>>
\* Without the primary the others are stopped and no row appears.
Started ==
  /\ pc = "starting" /\ \A d \in Destinations : started[d] # "pending"
  /\ isolated' = [d \in Destinations |-> d # Primary /\ started[d] = "no"]
  /\ IF started[Primary] = "ok"
     THEN pc' = "connecting" /\ rows' = Destinations
     ELSE pc' = "cancel" /\ UNCHANGED rows
  /\ UNCHANGED <<at, stops, started, epochOf, linkVars, asked, epochVars,
                 batch, todo, cut, askVars, wait, still, fenceVars>>
\* The readiness test of active-delay-output.cpp, then the first epoch.
GoLive ==
  /\ pc = "connecting" /\ MoreWork
  /\ sender[Primary].state = "Running"
  /\ \A d \in rows :
       isolated[d] \/ sender[d].state \notin {"Starting", "Reconnecting"}
  /\ publication_epoch' = publication_epoch + 1
  /\ current' = publication_epoch + 1
  /\ pc' = "live"
  /\ UNCHANGED <<at, lifeVars, isolated, epochOf, linkVars, asked, ticket,
                 batch, todo, cut, askVars, wait, still, fenceVars>>

-----------------------------------------------------------------------------
(* stop(): every destination is asked before any is joined.                 *)

\* The waits go with the rows and are not read again.
Forget == /\ wait' = [k \in Kinds |-> [d \in Destinations |-> NoWait]]
          /\ still' = [k \in Kinds |-> [d \in Destinations |-> 0]]
Shutdown ==
  /\ pc \in {"connecting", "live"}
  /\ pc' = "cancel" /\ at' = 1 /\ stops' = stops + 1 /\ Forget /\ want' = None
  /\ UNCHANGED <<rows, started, isolated, epochOf, linkVars, asked, epochVars,
                 batch, todo, cut, polled, query, ready, seen, fenceVars>>
CancelsNext == IF at = N THEN pc' = "join" /\ at' = 1
               ELSE at' = at + 1 /\ UNCHANGED pc
Cancel ==
  /\ pc = "cancel"
  /\ RequestStop(at) /\ CancelsNext
  /\ UNCHANGED <<lifeVars, isolated, epochOf, losses, alive, epochVars, batch,
                 todo, cut, askVars, wait, still, fenceVars>>
Joined(d) == ~alive[d]
Join ==
  /\ pc = "join" /\ Joined(at)
  /\ To(at, [sender[at] EXCEPT !.state = "Stopped"])
  /\ IF at = N THEN pc' = "erase" /\ UNCHANGED at
               ELSE at' = at + 1 /\ UNCHANGED pc
  /\ UNCHANGED <<lifeVars, isolated, epochOf, link, losses, alive, asked,
                 epochVars, batch, todo, cut, askVars, wait, still,
                 fenceVars>>
Erase ==
  /\ pc = "erase"
  /\ rows' = {} /\ stops' = 0 /\ pc' = "off"
  /\ UNCHANGED <<at, started, isolated, epochOf, linkVars, asked, epochVars,
                 batch, todo, cut, askVars, wait, still, fenceVars>>

-----------------------------------------------------------------------------
(* consume() and discontinuity(): both go over a copy of the rows.          *)

InService == {d \in rows : d = Primary \/ ~isolated[d]}
First(ds) == CHOOSE d \in ds : \A o \in ds : d <= o

\* The coordinator's next batch: media of its epoch, or a guard alone.
Dispatch ==
  /\ pc = "live" /\ publication_epoch = current /\ MoreWork
  /\ ticket' = ticket + 1
  /\ \E media \in BOOLEAN : batch' = [epoch |-> current, media |-> media]
  /\ todo' = InService /\ pc' = "consume"
  /\ UNCHANGED <<at, lifeVars, isolated, epochOf, linkVars, asked,
                 publication_epoch, current, cut, askVars, wait, still,
                 fenceVars>>

\* Mutant: a destination takes whatever comes.
NothingStale(d) == FALSE
Stale(d) == batch.epoch < epochOf[d]
\* enqueue_epoch: refused once the sender has ended, or if the queue stays
\* full; dropped and acknowledged while the connection is away.
Refuses(d) == sender[d].state \in {"Failed", "Stopping", "Stopped"}
Away(d) == /\ sender[d].state \in {"Starting", "Reconnecting"} /\ ~link[d].keeps
Accept(d) ==
  /\ ~Refuses(d)
  /\ IF Away(d)
     THEN /\ To(d, [sender[d] EXCEPT !.epoch = batch.epoch, !.ticket = ticket])
          /\ still' = [still EXCEPT !["ticket"][d] = 0]
          /\ link' = [link EXCEPT ![d].queued = ticket]
     ELSE /\ link' = [link EXCEPT ![d].queued = ticket,
                                  ![d].media = @ \/ batch.media]
          /\ UNCHANGED <<sender, still>>
  /\ handed' = [handed EXCEPT ![d] = batch.epoch]
  /\ UNCHANGED <<pc, isolated, asked, want>>
\* The primary's exception ends the broadcast, another's only its own part.
Throw(d) ==
  /\ Refuses(d) \/ sender[d].state = "Running" \/ link[d].keeps
  /\ IF d = Primary
     THEN /\ pc' = "thrown" /\ want' = None
          /\ UNCHANGED <<isolated, asked, sender, link>>
     ELSE /\ RequestStop(d)
          /\ isolated' = [isolated EXCEPT ![d] = TRUE]
          /\ UNCHANGED <<pc, want>>
  /\ UNCHANGED <<still, handed>>
Consume ==
  /\ pc = "consume" /\ todo # {}
  /\ LET d == First(todo) IN
     /\ todo' = todo \ {d}
     /\ IF Stale(d)
        THEN UNCHANGED <<pc, isolated, epochOf, sender, link, asked, want,
                         still, handed>>
        ELSE /\ epochOf' = [epochOf EXCEPT ![d] = batch.epoch]
             /\ Accept(d) \/ Throw(d)
  /\ UNCHANGED <<at, lifeVars, losses, alive, epochVars, batch, cut, polled,
                 query, ready, seen, wait, floor>>
Consumed ==
  /\ pc = "consume" /\ todo = {}
  /\ pc' = "live" /\ batch' = None
  /\ UNCHANGED <<at, lifeVars, isolated, epochOf, linkVars, asked, epochVars,
                 todo, cut, askVars, wait, still, fenceVars>>
\* The failure reaches the owner's loop, which stops the broadcast.
Thrown ==
  /\ pc = "thrown"
  /\ pc' = "cancel" /\ at' = 1 /\ stops' = stops + 1 /\ Forget
  /\ UNCHANGED <<rows, started, isolated, epochOf, linkVars, asked, epochVars,
                 batch, todo, cut, askVars, fenceVars>>

\* An owner call reserves an epoch and cuts the destinations over to it.
Admit ==
  /\ cut = None /\ rows # {} /\ pc # "connecting"
  /\ MoreWork
  /\ publication_epoch' = publication_epoch + 1
  /\ cut' = [epoch |-> publication_epoch + 1, todo |-> None]
  /\ UNCHANGED <<pc, at, lifeVars, isolated, epochOf, linkVars, asked,
                 current, ticket, batch, todo, askVars, wait, still,
                 fenceVars>>
CutFor == InService
\* The copy of the rows waits for mutex_, which delivery_ready holds.
Discontinuity ==
  /\ cut # None /\ cut.todo = None /\ pc # "ask"
  /\ cut' = [cut EXCEPT !.todo = CutFor]
  /\ UNCHANGED <<pc, at, lifeVars, isolated, epochOf, linkVars, asked,
                 epochVars, batch, todo, askVars, wait, still, fenceVars>>
CutOver ==
  /\ cut # None /\ cut.todo \notin {None, {}}
  /\ LET d == First(cut.todo) IN
     /\ cut' = [cut EXCEPT !.todo = @ \ {d}]
     /\ epochOf' = [epochOf EXCEPT ![d] = cut.epoch]
     /\ \E writing \in {FALSE, sender[d].state = "Running"} :
          link' = [link EXCEPT ![d].queued = 0, ![d].media = FALSE,
                               ![d].cut = @ \/ writing]
  /\ UNCHANGED <<pc, at, lifeVars, isolated, sender, losses, alive, asked,
                 epochVars, batch, todo, askVars, wait, still, fenceVars>>
Admitted ==
  /\ cut # None /\ cut.todo = {}
  /\ floor' = cut.epoch /\ cut' = None
  /\ UNCHANGED <<pc, at, lifeVars, isolated, epochOf, linkVars, asked,
                 epochVars, batch, todo, askVars, wait, still, handed>>
\* The worker takes the action up; its own cutoff finds nothing older.
Adopt ==
  /\ pc = "live" /\ cut = None /\ current < publication_epoch
  /\ current' = publication_epoch /\ want' = None /\ polled' = {}
  /\ still' = [k \in Kinds |-> [d \in Destinations |-> 0]]
  /\ UNCHANGED <<pc, at, lifeVars, isolated, epochOf, linkVars, asked,
                 publication_epoch, ticket, batch, todo, cut, query, ready,
                 seen, wait, fenceVars>>

-----------------------------------------------------------------------------
(* delivery_ready: may the coordinator go on?                               *)

\* A question of the epoch: one of its tickets, or its boundary.
Queries ==
  {[kind |-> "ticket", epoch |-> current, ticket |-> t] : t \in 1..ticket}
  \cup {[kind |-> "boundary", epoch |-> current, ticket |-> 0]}
\* The dispatcher answers no for an epoch that is already retired.
Open(q) == q.kind = "ticket" => q.epoch = publication_epoch

\* What the coordinator waits for; it asks that in every round of its loop,
\* and other tickets too.  The two kinds of wait share nothing.
Await ==
  /\ pc = "live" /\ want = None
  /\ \E q \in Queries : want' = q
  /\ polled' = {}
  /\ UNCHANGED <<pc, at, lifeVars, isolated, epochOf, linkVars, asked,
                 epochVars, batch, todo, cut, query, ready, seen, wait, still,
                 fenceVars>>
Delivered(d, q) ==
  IF q.kind = "boundary" THEN sender[d].published >= q.epoch
  ELSE /\ sender[d].state \in {"Running", "Reconnecting"}
       /\ sender[d].epoch = q.epoch /\ sender[d].ticket >= q.ticket
\* The loop goes on with destination d, or its answer is returned.
Proceed(d, q, ok) ==
  IF d <= N
  THEN pc' = "ask" /\ at' = d /\ query' = q /\ ready' = ok /\ UNCHANGED want
  ELSE /\ pc' = "live" /\ at' = 1 /\ query' = None /\ ready' = TRUE
       /\ want' = IF ok /\ q = want THEN None ELSE want
\* The primary, first in the loop, is asked in the step that takes mutex_.
Begin(q) ==
  /\ pc = "live" /\ Open(q) /\ rows # {}
  /\ q \notin polled /\ polled' = polled \cup {q}
  /\ Proceed(2, q, Delivered(Primary, q))
  /\ UNCHANGED <<lifeVars, isolated, epochOf, linkVars, asked, epochVars,
                 batch, todo, cut, seen, wait, still, fenceVars>>
AskWanted == want # None /\ Begin(want)
AskOther ==
  /\ want # None /\ want \in polled
  /\ \E q \in Queries : q.kind = want.kind /\ Begin(q)

\* The status is read under the sender's mutex, delivered() under it again;
\* the primary's status is read but not used, hence no Look at it.
Look ==
  /\ pc = "ask" /\ at \in Destinations /\ seen = None
  /\ seen' = [status |-> sender[at], still |-> still[query.kind][at]]
  /\ UNCHANGED <<pc, at, lifeVars, isolated, epochOf, linkVars, asked,
                 epochVars, batch, todo, cut, want, polled, query, ready,
                 wait, still, fenceVars>>

Resuming(s) == \/ s.state = "Reconnecting"
               \/ s.state = "Running" /\ s.reconnected /\ s.published = 0
Progress(s, q) == IF q.kind = "boundary" THEN s.published
                  ELSE IF s.epoch = q.epoch THEN s.ticket ELSE 0
\* Mutant: progress does not renew the second.
RenewsForEpoch(w, s, q) == w.age = None \/ w.epoch # q.epoch
Renews(w, s, q) == \/ w.age = None \/ w.epoch # q.epoch
                   \/ w.progress # Progress(s, q)
Asked(w, s, q) ==
  IF Renews(w, s, q)
  THEN [epoch |-> q.epoch, progress |-> Progress(s, q), age |-> 0, gap |-> 0]
  ELSE [w EXCEPT !.gap = 0]

OutOfService(d) == isolated[d] \/ seen.status.state = "Failed"
Remember(d, w) == wait' = [wait EXCEPT ![query.kind][d] = w]

\* Mutant: a destination is never given up.
StandsStillNever(w) == FALSE
StandsStill(w) == w.age >= Second
Decide ==
  LET d == at
      next == Asked(wait[query.kind][d], seen.status, query)
      Behind == /\ ~OutOfService(d) /\ ~Resuming(seen.status)
                /\ ~Delivered(d, query) IN
  /\ pc = "ask" /\ seen # None
  /\ \/ /\ OutOfService(d) \/ (~Resuming(seen.status) /\ Delivered(d, query))
        /\ Proceed(d + 1, query, ready)
        /\ UNCHANGED <<isolated, wait, asked, sender, link>>
     \/ /\ ~OutOfService(d) /\ Resuming(seen.status)
        /\ Remember(d, NoWait) /\ Proceed(d + 1, query, ready)
        /\ UNCHANGED <<isolated, asked, sender, link>>
     \/ /\ Behind /\ StandsStill(next)
        /\ Remember(d, next) /\ Proceed(d + 1, query, ready)
        /\ isolated' = [isolated EXCEPT ![d] = TRUE] /\ RequestStop(d)
     \/ /\ Behind /\ ~StandsStill(next)
        /\ Remember(d, next) /\ Proceed(d + 1, query, FALSE)
        /\ UNCHANGED <<isolated, asked, sender, link>>
  /\ seen' = None
  /\ UNCHANGED <<lifeVars, epochOf, losses, alive, epochVars, batch, todo, cut,
                 polled, still, fenceVars>>

\* 250 ms pass.  The owner's loop turns every 10 ms: what it waits for is
\* asked in between, and an action admitted is taken up.
\* A wait that was not asked about for more than a tick has ended.
Older(w) == IF w.age = None \/ w.gap = 1 THEN NoWait
            ELSE [w EXCEPT !.age = Lower(@ + 1, Second), !.gap = 1]
Tick ==
  /\ want # None /\ Open(want) => want \in polled
  /\ pc \notin {"ask", "consume"} /\ current = publication_epoch
  /\ polled' = {}
  /\ wait' = [k \in Kinds |-> [d \in Destinations |-> Older(wait[k][d])]]
  /\ still' = [k \in Kinds |-> [d \in Destinations |->
                 IF \/ wait'[k][d].age = None
                    \/ link[d].away /\ Resuming(sender[d])
                 THEN 0
                 ELSE Lower(still[k][d] + 1, Second)]]
  /\ link' = [d \in Destinations |->
                [link[d] EXCEPT !.rest = IF @ = 0 THEN 0 ELSE @ - 1,
                                !.away = d # Primary /\ Resuming(sender[d])]]
  /\ UNCHANGED <<pc, at, lifeVars, isolated, epochOf, sender, losses, alive,
                 asked, epochVars, batch, todo, cut, want, query, ready, seen,
                 fenceVars>>

-----------------------------------------------------------------------------
Worker == \/ Started \/ GoLive \/ Shutdown \/ Cancel \/ Join \/ Erase
          \/ Dispatch \/ Consume \/ Consumed \/ Thrown \/ Adopt
          \/ Await \/ AskWanted \/ AskOther
          \/ Look \/ Decide
Admission == Admit \/ Discontinuity \/ CutOver \/ Admitted
Next == \/ Worker \/ Admission \/ Tick
        \/ \E d \in Destinations : Start(d) \/ Sender(d)
Spec == Init /\ [][Next]_vars

\* Time passes, the worker's loop turns and a cutoff goes on; nothing is asked
\* of the network.
Loop == AskWanted \/ Look \/ Decide \/ Consume \/ Consumed \/ Adopt
Cutoff == Discontinuity \/ CutOver \/ Admitted
Fairness == WF_vars(Tick) /\ WF_vars(Loop) /\ WF_vars(Cutoff)
FairSpec == Spec /\ Fairness

-----------------------------------------------------------------------------
(* Properties.                                                              *)

\* "An unavailable secondary does not hold the others": what the primary has
\* delivered and goes on having delivered is answered, whatever the others do.
PrimaryHas == want # None /\ Open(want) /\ Delivered(Primary, want)
Waiting == pc \in {"live", "consume", "ask"} /\ PrimaryHas
GateOpens == Waiting ~> ~Waiting

\* "Measure time without delivery progress, not time on one query": a
\* destination is given up at the gate only after a whole second of its epoch
\* in which it delivered nothing and was not away.  One that had published the
\* epoch when its status was read, and lost its connection before
\* boundary_delivered read it again, may be given up sooner: it is that epoch
\* which the wait has noted as its progress, once for every loss.
LostSinceSeen == query.kind = "boundary" /\ seen.status.published >= query.epoch
OnlyStalledIsIsolated ==
  [][\A d \in Destinations : isolated[d] # isolated'[d] /\ Decide
                                => seen.still >= Second \/ LostSinceSeen]_vars

\* The fan-out looks at the epoch once for all destinations, and an isolated
\* one is left out of later cutoffs: none of them is handed older media all
\* the same.
Fence == INSTANCE PublicationFence WITH Consumers <- Destinations
FanOutKeepsFence == Fence!Spec
=============================================================================
