----------------------------- MODULE HoldingCapture -----------------------------
(***************************************************************************)
(* The life cycle around HoldingFeed: holding-capture.cpp, and the calls of *)
(* its OBS backend (holding-obs-capture.cpp).  The owner prepares, starts,  *)
(* drains and stops; a monitor thread watches the deadline while the host's *)
(* start may block; two encoder threads deliver.  libobs itself is not      *)
(* modelled: a stop of the backend returns when no callback is left.        *)
(***************************************************************************)
EXTENDS HoldingFeed

CONSTANTS
  Config,    \* what the encoders report
  MaxRounds  \* bound of the model: captures prepared

ASSUME CaptureConstants ==
  Config \in Configs /\ MaxRounds \in Nat /\ None \notin Packets

VARIABLES
  pc,                  \* the owner
  prepared, started,
  monitor, cancel,     \* monitor_ and what it waits for
  capturing,           \* ObsHoldingBackend::capturing_
  observed,            \* encoders ObsCaptureCodecMonitor has seen
  callback, held,      \* each encoder's thread and the packet it brings
  rounds

ownerVars == <<pc, prepared, started, rounds>>
watchVars == <<monitor, cancel>>
hostVars  == <<capturing, observed, callback, held>>
vars == <<feedVars, ownerVars, watchVars, hostVars>>

CaptureInit ==
  /\ FeedInit
  /\ pc = "idle" /\ prepared = FALSE /\ started = FALSE /\ rounds = 0
  /\ monitor = "none" /\ cancel = FALSE
  /\ capturing = FALSE /\ observed = {}
  /\ callback = [k \in Kinds |-> "out"] /\ held = [k \in Kinds |-> None]

-----------------------------------------------------------------------------
(* The owner: prepare, start, stop.                                         *)

\* cleanup() before it finds nothing to do: the owner is idle.
Prepare ==
  /\ pc = "idle" /\ ~prepared /\ ~started /\ rounds < MaxRounds
  /\ Begin /\ pc' = "preparing" /\ rounds' = rounds + 1
  /\ cancel' = TRUE
  /\ UNCHANGED <<prepared, started, monitor, hostVars>>
PrepareReturns(ok) ==
  /\ pc = "preparing"
  /\ IF ok THEN pc' = "idle" /\ prepared' = TRUE /\ UNCHANGED feedVars
           ELSE pc' = "cleaning" /\ Fail /\ UNCHANGED prepared
  /\ UNCHANGED <<started, rounds, watchVars, hostVars>>
StartCapture ==
  /\ pc = "idle" /\ prepared /\ ~started
  /\ Begin /\ pc' = "spawn"
  /\ UNCHANGED <<prepared, started, rounds, watchVars, hostVars>>
\* Mutant: the monitor is left for later.
SpawnsNone == UNCHANGED monitor
Spawns == monitor' = "waiting"
SpawnMonitor ==
  /\ pc = "spawn" /\ pc' = "starting"
  /\ cancel' = FALSE /\ Spawns
  /\ UNCHANGED <<feedVars, prepared, started, rounds, hostVars>>
\* backend_->start: packets come before it returns, and it may take any time.
CaptureBegins ==
  /\ pc = "starting" /\ pc' = "opened"
  /\ capturing' = TRUE /\ observed' = {}
  /\ UNCHANGED <<feedVars, prepared, started, rounds, watchVars, callback, held>>
StartReturns(ok) ==
  /\ pc = "opened" \/ (pc = "starting" /\ ~ok)
  /\ IF ok THEN pc' = "check" /\ UNCHANGED feedVars
           ELSE pc' = "cleaning" /\ Fail
  /\ UNCHANGED <<prepared, started, rounds, watchVars, hostVars>>
CheckStarted ==
  /\ pc = "check"
  /\ IF state = "Failed" THEN pc' = "cleaning" /\ UNCHANGED started
                         ELSE pc' = "idle" /\ started' = TRUE
  /\ UNCHANGED <<feedVars, prepared, rounds, watchVars, hostVars>>
Drain ==
  /\ pc = "idle" /\ TakePackets
  /\ UNCHANGED <<ownerVars, watchVars, hostVars>>

\* "Reject all late packets before unregistering callbacks."
\* Mutant: the callbacks are unregistered first.
RejectsNone == UNCHANGED feedVars
RejectsLate == Stop
StopCapture ==
  /\ pc = "idle" /\ RejectsLate /\ pc' = "cleaning"
  /\ UNCHANGED <<prepared, started, rounds, watchVars, hostVars>>
\* cleanup(): cancel_monitor takes monitor_mutex_, which the monitor holds
\* except while it waits.
CancelMonitor ==
  /\ pc = "cleaning" /\ monitor # "looking"
  /\ cancel' = TRUE /\ pc' = "joining"
  /\ UNCHANGED <<feedVars, prepared, started, rounds, monitor, hostVars>>
\* Mutant: the thread is detached.
JoinsNone == TRUE
Joins == monitor \in {"none", "ended"}
JoinMonitor ==
  /\ pc = "joining" /\ Joins
  /\ monitor' = IF monitor = "ended" THEN "none" ELSE monitor
  /\ pc' = "quiescing" /\ capturing' = FALSE
  /\ UNCHANGED <<feedVars, prepared, started, rounds, cancel, observed, callback,
                 held>>
Quiet == \A k \in Kinds : callback[k] = "out"
Quiesced ==
  /\ pc = "quiescing" /\ Quiet
  /\ pc' = "idle" /\ prepared' = FALSE /\ started' = FALSE
  /\ UNCHANGED <<feedVars, rounds, watchVars, hostVars>>

-----------------------------------------------------------------------------
(* The monitor thread, which looks every 10 ms.                             *)

\* Mutant: a cancellation between two waits is missed.
WakesToLook == "looking"
Wakes == IF cancel THEN "ended" ELSE "looking"
MonitorWakes ==
  /\ monitor = "waiting"
  /\ monitor' = Wakes
  /\ UNCHANGED <<feedVars, ownerVars, cancel, hostVars>>
MonitorLooks ==
  /\ monitor = "looking"
  /\ CheckDeadline /\ monitor' = "waiting"
  /\ UNCHANGED <<ownerVars, cancel, hostVars>>

-----------------------------------------------------------------------------
(* The encoder threads: output_packet, output_stopped.                      *)

Goto(k, step) == callback' = [callback EXCEPT ![k] = step]
\* The packet is copied; a feed that is down takes none.
Deliver(k) ==
  /\ callback[k] = "out" /\ capturing
  /\ \E p \in Packets : p.kind = k /\ held' = [held EXCEPT ![k] = p]
  /\ ~Latched /\ Goto(k, "observe")
  /\ UNCHANGED <<feedVars, ownerVars, watchVars, capturing, observed>>
Observe(k) ==
  /\ callback[k] = "observe"
  /\ observed' = observed \cup {k}
  /\ Goto(k, IF observed' = Kinds THEN "headers" ELSE "ingest")
  /\ UNCHANGED <<feedVars, ownerVars, watchVars, capturing, held>>
\* The source is gone, the packet unusable, or its codec has changed.
Rejected(k) ==
  /\ callback[k] = "observe"
  /\ Fail /\ Goto(k, "out")
  /\ held' = [held EXCEPT ![k] = None]
  /\ UNCHANGED <<ownerVars, watchVars, capturing, observed>>
Headers(k) ==
  /\ callback[k] = "headers"
  /\ SetHeaders(Config) /\ Goto(k, "ingest")
  /\ UNCHANGED <<ownerVars, watchVars, capturing, observed, held>>
Queue(k) ==
  /\ callback[k] = "ingest"
  /\ Ingest(held[k]) /\ Goto(k, "out")
  /\ held' = [held EXCEPT ![k] = None]
  /\ UNCHANGED <<ownerVars, watchVars, capturing, observed>>
\* The encoder stops by itself; in a stop of the backend capturing is off.
EncoderStops ==
  /\ capturing /\ capturing' = FALSE /\ Fail
  /\ UNCHANGED <<ownerVars, watchVars, observed, callback, held>>

Time == Tick /\ UNCHANGED <<ownerVars, watchVars, hostVars>>

-----------------------------------------------------------------------------
Cleanup == CancelMonitor \/ JoinMonitor \/ Quiesced
Owner == \/ Prepare \/ StartCapture \/ SpawnMonitor \/ CaptureBegins
         \/ CheckStarted \/ Drain \/ StopCapture \/ Cleanup
         \/ \E ok \in BOOLEAN : PrepareReturns(ok) \/ StartReturns(ok)
Monitor == MonitorWakes \/ MonitorLooks
CallbackEnds(k) == Observe(k) \/ Headers(k) \/ Queue(k)
Encoder(k) == Deliver(k) \/ CallbackEnds(k) \/ Rejected(k)
CaptureNext == Owner \/ Monitor \/ EncoderStops \/ Time
               \/ \E k \in Kinds : Encoder(k)
CaptureSpec == CaptureInit /\ [][CaptureNext]_vars

\* Threads that run go on, the clock too; the host's calls may never return.
CaptureFairness ==
  /\ SF_vars(CancelMonitor) /\ WF_vars(JoinMonitor) /\ WF_vars(Quiesced)
  /\ WF_vars(SpawnMonitor) /\ WF_vars(CheckStarted)
  /\ WF_vars(Monitor) /\ WF_vars(Time)
  /\ \A k \in Kinds : WF_vars(CallbackEnds(k))
FairCaptureSpec == CaptureSpec /\ CaptureFairness

-----------------------------------------------------------------------------
(* Properties.                                                              *)

CaptureTypeOK ==
  /\ FeedTypeOK
  /\ pc \in {"idle", "preparing", "spawn", "starting", "opened", "check",
             "cleaning", "joining", "quiescing"}
  /\ {prepared, started, cancel, capturing} \subseteq BOOLEAN
  /\ monitor \in {"none", "waiting", "looking", "ended"}
  /\ observed \subseteq Kinds /\ rounds \in 0..MaxRounds
  /\ callback \in [Kinds -> {"out", "observe", "headers", "ingest"}]
  /\ \A k \in Kinds : held[k] = None <=> callback[k] = "out"
  \* No callback outlives the resources it uses.
  /\ pc \in {"preparing", "spawn"} => \A k \in Kinds : callback[k] = "out"

\* A std::thread that is assigned while it can still be joined ends the
\* process: no start finds the monitor of an earlier capture.
OneMonitor == pc = "spawn" => monitor = "none"

\* Threads and callbacks of one capture are over when the next one begins.
CaptureSound == CaptureTypeOK /\ OneMonitor

\* The failure callback retires the publication.  A stop the owner asked for
\* is no failure, whatever the encoders and the monitor were doing.
QuietStop ==
  [][~announced /\ announced'
       => pc \notin {"cleaning", "joining", "quiescing"}]_vars

\* "Start a fresh five-second media deadline before entering the host's
\* potentially blocking start call": the outcome is known though the host
\* never returns and no encoder delivers.
Awaiting == /\ state = "Starting"
            /\ started \/ pc \in {"starting", "opened", "check"}
StartupResolves == Awaiting ~> ~Awaiting

\* A stop ends: the owner, the monitor and the callbacks do not wait for one
\* another in a circle.
CaptureStopEnds == pc = "cleaning" ~> pc = "idle"
=============================================================================
