------------------------------ MODULE Broadcast ------------------------------
(***************************************************************************)
(* One broadcast after another: the dock's state machine                    *)
(* (active-delay-dock.cpp), OBS's output with its callbacks                 *)
(* (active-delay-output.cpp), the session they share                        *)
(* (active-delay-session.hpp) and the life of a PipelineOwner's worker      *)
(* (pipeline-owner.cpp).                                                    *)
(*                                                                          *)
(* The UI thread runs one operation at a time; those that call several      *)
(* objects are steps here, because the workers of the owners, the encoders  *)
(* and OBS's own stream run meanwhile.  A modal question leaves the timer   *)
(* and the queued tasks running.  A run is one PipelineOwner: its worker    *)
(* boots, turns, connects, goes on air and takes everything down.  What a   *)
(* turn does with media is TransitionCoordinator's and CaptureQueue's.      *)
(***************************************************************************)
EXTENDS Integers, Sequences

CONSTANTS
  Outputs,      \* OBS outputs the dock may create, numbered
  Runs,         \* owners that may be made, numbered
  MaxRestarts,  \* times something else starts an output again
  MaxStreams    \* times OBS's own streaming starts

ASSUME BroadcastConstants ==
  /\ Outputs \subseteq Nat \ {0} /\ Runs \subseteq Nat \ {0}
  /\ MaxRestarts \in Nat /\ MaxStreams \in Nat

VARIABLES
  output,     \* per output: OutputData and what OBS knows of it
  run,        \* per run: the PipelineOwner
  lifecycle,  \* consumers.active
  pipeline,   \* pipeline_, a weak pointer
  armed,      \* the run that armed the shared controller, 0 after return_live
  dock,       \* delayed_output_, output_flow_state_, whether the Arm button is
              \* enabled, whether a question is open, shutting_down_
  ui,         \* the operation the UI thread is in
  notices,    \* FinishNotices queued for the UI thread
  streaming,  \* OBS's own stream, its event, and whether the dock stops it
  restarts, streams, faulty
    \* history: restarts and streams so far, and the runs something failed in

sharedVars == <<lifecycle, pipeline, armed>>
uiVars     == <<dock, ui>>
streamVars == <<streaming, streams>>
vars == <<output, run, lifecycle, pipeline, armed, dock, ui, notices, streaming,
          restarts, streams, faulty>>

NoOutput == [state |-> "None", audio |-> FALSE, active |-> FALSE,
             generation |-> 0, owner |-> 0]
NoRun == [output |-> 0, generation |-> 0, pc |-> "None", phase |-> "Stopped", stopping |-> FALSE,
          stopped |-> TRUE, failed |-> FALSE, error |-> FALSE, requested |-> FALSE,
          network |-> "None", coordinator |-> FALSE, delivered |-> FALSE]
Idle == [at |-> "Idle", output |-> 0, then |-> "Nothing"]
At(step, o, then) == [at |-> step, output |-> o, then |-> then]

Init ==
  /\ output = [o \in Outputs |-> NoOutput]
  /\ run = [r \in Runs |-> NoRun]
  /\ lifecycle = FALSE /\ pipeline = 0 /\ armed = 0
  /\ dock = [delayed |-> 0, flow |-> "Stopped", armable |-> TRUE,
             asking |-> FALSE, shut |-> FALSE]
  /\ ui = Idle
  /\ notices = <<>>
  /\ streaming = [on |-> FALSE, seen |-> FALSE, stop |-> FALSE]
  /\ restarts = 0 /\ streams = 0 /\ faulty = {}

-----------------------------------------------------------------------------
(* What the parts say of themselves.                                        *)

\* obs_output_active: until OBS has ended the capture.
Active(o) == output[o].state \in {"Active", "Ending"}
DelayedActive == dock.delayed # 0 /\ Active(dock.delayed)

\* The owner the weak pointer still leads to; 0 when it is gone.
Attached ==
  IF pipeline # 0 /\ \E o \in Outputs : output[o].owner = pipeline
  THEN pipeline ELSE 0

\* PipelineOwner::status: a latched failure shows as Failed.
Stopped == IF Attached = 0 THEN TRUE ELSE run[Attached].stopped
Phase == IF Attached = 0 THEN "Stopped"
         ELSE IF run[Attached].failed THEN "Failed" ELSE run[Attached].phase
OnAir == ~Stopped /\ Phase \in {"Connecting", "Broadcasting"}

\* PipelineOwner::failure: the first one is kept.
Latch(w) == [w EXCEPT !.failed = TRUE]

\* PipelineOwner::request_stop
StopRequested(w) ==
  [w EXCEPT !.stopping = TRUE, !.phase = IF w.stopped THEN @ ELSE "Stopping"]

\* The programme's audio output is stopped: audio_stop reports a failure if
\* the output has not been marked inactive first.
AfterAudioStop(o) ==
  LET r == output[o].owner
  IN IF output[o].audio /\ output[o].active /\ r # 0
     THEN [run EXCEPT ![r] = Latch(@)] ELSE run

\* The owner itself is freed with the output, or when it is replaced.
Freed(r) == IF r = 0 THEN run
            ELSE [run EXCEPT ![r] = IF @.pc = "Done" THEN [NoRun EXCEPT !.pc = "Done"] ELSE @]

Unused == {r \in Runs : run[r].pc = "None"}
NextOf(S) == CHOOSE x \in S : \A y \in S : x <= y
Fresh == {o \in Outputs : output[o].state = "None"}

-----------------------------------------------------------------------------
(* obs_output_stop, called by the dock: output_stop in three steps, and     *)
(* then what the caller does next.                                          *)

\* Mutant of the next: active stays until the owner clears it.
StillMarked(o) == output[o].active

\* active is cleared first, so that the audio's end is not a failure.
Unmarked(o) == FALSE

StopFlag ==
  /\ ui.at = "StopFlag"
  /\ output' = [output EXCEPT ![ui.output].active = Unmarked(ui.output)]
  /\ ui' = [ui EXCEPT !.at = "StopAudio"]
  /\ UNCHANGED <<run, sharedVars, dock, notices, streamVars, restarts, faulty>>

StopAudio ==
  /\ ui.at = "StopAudio"
  /\ run' = AfterAudioStop(ui.output)
  /\ output' = [output EXCEPT ![ui.output].audio = FALSE]
  /\ ui' = [ui EXCEPT !.at = "StopOwner"]
  /\ UNCHANGED <<sharedVars, dock, notices, streamVars, restarts, faulty>>

\* request_stop and obs_output_end_data_capture, which ends in the background.
StopOwner ==
  LET o == ui.output
  IN /\ ui.at = "StopOwner"
     /\ run' = IF output[o].owner = 0 THEN run
               ELSE [run EXCEPT ![output[o].owner] = StopRequested(@)]
     /\ output' = [output EXCEPT ![o].state = IF @ = "Active" THEN "Ending" ELSE @]
     /\ \/ ui.then = "Stopping" /\ dock' = [dock EXCEPT !.flow = "Stopping"] /\ ui' = Idle
        \/ ui.then = "Shut" /\ dock' = [dock EXCEPT !.delayed = 0, !.flow = "Stopped"]
                            /\ ui' = At("Release", o, "Nothing")
     /\ UNCHANGED <<sharedVars, notices, streamVars, restarts, faulty>>

\* OBS's thread that ends the capture.
EndCapture(o) ==
  /\ output[o].state = "Ending"
  /\ output' = [output EXCEPT ![o].state = "Idle"]
  /\ UNCHANGED <<run, sharedVars, uiVars, notices, streamVars, restarts, faulty>>

-----------------------------------------------------------------------------
(* obs_output_release of the last reference: output_destroy.                *)

\* OBS waits for the capture to end; then the owner is told to stop.
Release ==
  LET o == ui.output
      r == output[o].owner
  IN /\ ui.at = "Release" /\ ~Active(o)
     /\ output' = [output EXCEPT ![o].active = FALSE]
     /\ run' = IF r = 0 THEN run ELSE [run EXCEPT ![r] = StopRequested(@)]
     /\ ui' = [ui EXCEPT !.at = "Join"]
     /\ UNCHANGED <<sharedVars, dock, notices, streamVars, restarts, faulty>>

\* PipelineOwner::stop, and its destructor, wait for the worker.
Joined(o) == IF output[o].owner = 0 THEN TRUE ELSE run[output[o].owner].pc = "Done"

\* Once the worker is joined: the audio, the lifecycle, the data.  An arming
\* goes on with a new output unless the destinations are refused.
Free ==
  LET o == ui.output
  IN /\ ui.at = "Join" /\ Joined(o)
     /\ run' = Freed(output[o].owner)
     /\ faulty' = faulty \ {output[o].owner}
     /\ output' = [output EXCEPT ![o] = [NoOutput EXCEPT !.state = "Gone"]]
     /\ lifecycle' = FALSE
     /\ \/ ui' = Idle
        \/ ui.then = "Arm" /\ Fresh # {} /\ ui' = At("Open", NextOf(Fresh), "Arm")
     /\ UNCHANGED <<pipeline, armed, dock, notices, streamVars, restarts>>

-----------------------------------------------------------------------------
(* obs_output_start: output_start, for the dock's new output or, by         *)
(* something else in OBS, for one that has ended.                           *)

\* output_start returned false: the dock releases its output, others keep it.
Refused(o) == IF ui.then = "Arm" THEN At("Release", o, "Nothing") ELSE Idle

Open ==
  LET o == ui.output
      r == output[o].owner
  IN /\ ui.at = "Open"
     /\ output' = [output EXCEPT ![o].state = "Idle"]
     /\ \/ lifecycle /\ ui' = Refused(o) /\ UNCHANGED <<run, lifecycle>>
        \/ /\ ~lifecycle /\ lifecycle' = TRUE
           /\ run' = IF r = 0 THEN run ELSE [run EXCEPT ![r] = StopRequested(@)]
           /\ ui' = [ui EXCEPT !.at = "Prepare"]
     /\ UNCHANGED <<pipeline, armed, dock, notices, streamVars, restarts, faulty>>

\* The former owner is joined; OBS's encoders, the service and the audio
\* output may still be refused.
Prepare ==
  LET o == ui.output
  IN /\ ui.at = "Prepare" /\ Joined(o)
     /\ output' = [output EXCEPT ![o].audio = FALSE]
     /\ \/ lifecycle' = FALSE /\ ui' = Refused(o)
        \/ lifecycle' = lifecycle /\ ui' = [ui EXCEPT !.at = "Spawn"]
     /\ UNCHANGED <<run, pipeline, armed, dock, notices, streamVars, restarts, faulty>>

\* A new owner is attached and marked active before its worker starts;
\* PipelineOwner::start arms the shared controller.
Spawn ==
  LET o == ui.output
      r == NextOf(Unused)
      started == [NoRun EXCEPT !.output = o, !.generation = output[o].generation + 1,
                               !.phase = "Arming", !.stopped = FALSE]
  IN /\ ui.at = "Spawn" /\ Unused # {}
     /\ pipeline' = r /\ armed' = r
     /\ \/ /\ run' = [Freed(output[o].owner) EXCEPT ![r] = [started EXCEPT !.pc = "Boot"]]
           /\ output' = [output EXCEPT ![o].owner = r, ![o].active = TRUE, ![o].generation = @ + 1]
           /\ ui' = [ui EXCEPT !.at = "StartAudio"]
           /\ faulty' = faulty \ {output[o].owner} /\ UNCHANGED lifecycle
        \/ \* the thread could not be made
           /\ run' = [Freed(output[o].owner) EXCEPT ![r] = [started EXCEPT !.pc = "Done"]]
           /\ output' = [output EXCEPT ![o].owner = r, ![o].active = FALSE, ![o].generation = @ + 1]
           /\ ui' = Refused(o)
           /\ lifecycle' = FALSE /\ faulty' = (faulty \ {output[o].owner}) \cup {r}
     /\ UNCHANGED <<dock, notices, streamVars, restarts>>

StartAudio ==
  /\ ui.at = "StartAudio"
  /\ output' = [output EXCEPT ![ui.output].audio = TRUE]
  /\ ui' = [ui EXCEPT !.at = "Capture"]
  /\ UNCHANGED <<run, sharedVars, dock, notices, streamVars, restarts, faulty>>

\* The capture begins.  By now the worker may have failed and finished.
Capture ==
  LET o == ui.output
  IN /\ ui.at = "Capture"
     /\ output' = [output EXCEPT ![o].state = "Active"]
     /\ dock' = IF ui.then = "Arm" THEN [dock EXCEPT !.delayed = o, !.flow = "DelayedOutput"] ELSE dock
     /\ ui' = Idle
     /\ UNCHANGED <<run, sharedVars, notices, streamVars, restarts, faulty>>

\* Mutant of the next: output_start ends it, as its other failures do.
EndsLifecycle == FALSE

\* What a capture that does not begin leaves of the lifecycle: the worker ends it.
LifecycleAfterRefusal == lifecycle

\* The audio or the capture is refused: the owner is only told to stop.
CaptureRefused ==
  LET o == ui.output
  IN /\ ui.at \in {"StartAudio", "Capture"}
     /\ output' = [output EXCEPT ![o].active = FALSE]
     /\ run' = [run EXCEPT ![output[o].owner] = StopRequested(@)]
     /\ lifecycle' = LifecycleAfterRefusal
     /\ ui' = Refused(o)
     /\ UNCHANGED <<pipeline, armed, dock, notices, streamVars, restarts, faulty>>

\* Something else in OBS starts the dock's output again.
Restart ==
  /\ ui = Idle /\ restarts < MaxRestarts /\ Unused # {}
  /\ dock.delayed # 0 /\ output[dock.delayed].state = "Idle"
  /\ restarts' = restarts + 1
  /\ ui' = At("Open", dock.delayed, "Restart")
  /\ UNCHANGED <<output, run, sharedVars, dock, notices, streamVars, faulty>>

UiStep ==
  \/ StopFlag \/ StopAudio \/ StopOwner
  \/ Release \/ Free
  \/ Open \/ Prepare \/ Spawn \/ StartAudio \/ Capture \/ CaptureRefused

-----------------------------------------------------------------------------
(* The dock's buttons and events.                                           *)

\* arm_buffer: refused while an output runs, OBS streams, or a lifecycle is
\* open; a former output is released first, when the button is pressed again
\* before the timer has disabled it.
ArmBuffer ==
  /\ ui = Idle /\ dock.armable /\ ~dock.asking /\ ~dock.shut
  /\ ~DelayedActive /\ ~streaming.on /\ ~lifecycle
  /\ Fresh # {} /\ Unused # {}
  /\ dock' = [dock EXCEPT !.delayed = 0]
  /\ ui' = IF dock.delayed # 0 THEN At("Release", dock.delayed, "Arm")
           ELSE At("Open", NextOf(Fresh), "Arm")
  /\ UNCHANGED <<output, run, sharedVars, notices, streamVars, restarts, faulty>>

\* Mutant of the next: the phase is left to the worker.
RequestedQuietly(w) == [w EXCEPT !.requested = TRUE]

\* start_broadcast shows the broadcast at once.
Requested(w) == [w EXCEPT !.requested = TRUE, !.phase = "Connecting"]

\* start_delayed_output, refused while OBS streams, and start_broadcast,
\* refused while the buffer is not ready.  Buttons of an output are enabled by
\* the timer, which disables Arm then.
StartDelayedOutput ==
  LET r == Attached
  IN /\ ui = Idle /\ ~dock.armable /\ ~dock.asking /\ ~dock.shut /\ dock.delayed # 0
     /\ ~streaming.on
     /\ r # 0 /\ ~run[r].stopping /\ ~run[r].failed
     /\ run[r].phase = "Filling" /\ ~run[r].requested
     /\ run' = [run EXCEPT ![r] = Requested(@)]
     /\ UNCHANGED <<output, sharedVars, uiVars, notices, streamVars, restarts, faulty>>

\* obs_output_stop of the delayed output, if it is active, and Stopping.
StopNow(question) ==
  /\ IF DelayedActive
     THEN /\ ui' = At("StopFlag", dock.delayed, "Stopping")
          /\ dock' = [dock EXCEPT !.asking = question]
     ELSE /\ ui' = Idle
          /\ dock' = [dock EXCEPT !.flow = "Stopping", !.asking = question]
  /\ UNCHANGED <<output, run, sharedVars, notices, streamVars, restarts, faulty>>

\* stop_delayed_output asks first while the broadcast is on.
AskStop ==
  /\ ui = Idle /\ ~dock.armable /\ ~dock.asking /\ ~dock.shut /\ dock.delayed # 0
  /\ Phase = "Broadcasting"
  /\ dock' = [dock EXCEPT !.asking = TRUE]
  /\ UNCHANGED <<output, run, sharedVars, ui, notices, streamVars, restarts, faulty>>

AnswerNo ==
  /\ ui = Idle /\ dock.asking
  /\ dock' = [dock EXCEPT !.asking = FALSE]
  /\ UNCHANGED <<output, run, sharedVars, ui, notices, streamVars, restarts, faulty>>

StopDelayedOutput ==
  /\ ui = Idle /\ ~dock.shut
  /\ dock.asking \/ (~dock.armable /\ dock.delayed # 0 /\ Phase # "Broadcasting")
  /\ StopNow(FALSE)

\* The scene collection changes: a stop without a question.
SceneCollectionChanging ==
  /\ ui = Idle /\ ~dock.shut
  /\ DelayedActive
  /\ StopNow(dock.asking)

Shutdown ==
  /\ ui = Idle /\ ~dock.shut
  /\ IF dock.delayed = 0 THEN /\ ui' = Idle /\ dock' = [dock EXCEPT !.shut = TRUE, !.flow = "Stopped"]
     ELSE IF Active(dock.delayed)
          THEN /\ ui' = At("StopFlag", dock.delayed, "Shut") /\ dock' = [dock EXCEPT !.shut = TRUE]
          ELSE /\ ui' = At("Release", dock.delayed, "Nothing")
               /\ dock' = [dock EXCEPT !.shut = TRUE, !.delayed = 0, !.flow = "Stopped"]
  /\ UNCHANGED <<output, run, sharedVars, notices, streamVars, restarts, faulty>>

-----------------------------------------------------------------------------
(* The dock's timer: refresh_status.                                        *)

\* Mutant of the next: only an owner that ended without an error counts.
OwnerEndedQuietly == Phase = "Stopped"

\* Has the owner ended, so that the output may go?
OwnerEnded == Stopped

Settle ==
  /\ ui = Idle /\ ~dock.shut
  /\ dock.flow = "Stopping" /\ OwnerEnded
  /\ ~DelayedActive
  /\ dock' = [dock EXCEPT !.delayed = 0, !.flow = "Stopped", !.armable = TRUE]
  /\ ui' = IF dock.delayed = 0 THEN Idle ELSE At("Release", dock.delayed, "Nothing")
  /\ UNCHANGED <<output, run, sharedVars, notices, streamVars, restarts, faulty>>

\* The Arm button follows, unless the check of the health returns early.
Tick ==
  /\ ui = Idle /\ ~dock.shut
  /\ dock.flow = "DelayedOutput" => dock.delayed = 0 \/ DelayedActive
  /\ dock' = [dock EXCEPT !.armable = dock.delayed = 0 /\ dock.flow = "Stopped"]
  /\ UNCHANGED <<output, run, sharedVars, ui, notices, streamVars, restarts, faulty>>

\* check_delayed_output_health: the output has stopped, or no frame came in
\* five seconds; recover_from_delayed_output_failure stops it.
CheckHealth ==
  /\ ui = Idle /\ ~dock.shut
  /\ dock.flow = "DelayedOutput" /\ dock.delayed # 0
  /\ StopNow(dock.asking)

\* Mutant of the next: whatever capture the output has by now.
ConcernsAny(notice) == TRUE

\* finish_on_ui: what an owner left behind ends the capture it was made for.
Concerns(notice) == output[notice.output].generation = notice.generation

FinishOnUi ==
  /\ ui = Idle /\ notices # <<>>
  /\ LET n == Head(notices)
     IN output' = IF Concerns(n) /\ output[n.output].state = "Active"
                  THEN [output EXCEPT ![n.output].state = "Ending"] ELSE output
  /\ notices' = Tail(notices)
  /\ UNCHANGED <<run, sharedVars, uiVars, streamVars, restarts, faulty>>

-----------------------------------------------------------------------------
(* OBS's own stream.                                                        *)

StreamStarts ==
  /\ ~streaming.on /\ streams < MaxStreams
  /\ streaming' = [on |-> TRUE, seen |-> FALSE, stop |-> FALSE]
  /\ streams' = streams + 1
  /\ UNCHANGED <<output, run, sharedVars, uiVars, notices, restarts, faulty>>

\* OBS_FRONTEND_EVENT_STREAMING_STARTED: stopped if the dock is on air.
StreamSeen ==
  /\ ui = Idle /\ ~dock.shut /\ streaming.on /\ ~streaming.seen
  /\ streaming' = [streaming EXCEPT !.seen = TRUE, !.stop = OnAir]
  /\ UNCHANGED <<output, run, sharedVars, uiVars, notices, streams, restarts, faulty>>

StreamEnds ==
  /\ streaming.on
  /\ streaming' = [on |-> FALSE, seen |-> FALSE, stop |-> FALSE]
  /\ UNCHANGED <<output, run, sharedVars, uiVars, notices, streams, restarts, faulty>>

-----------------------------------------------------------------------------
(* The worker of run r: PipelineOwner::run.                                 *)

Goto(r, step) == run' = [run EXCEPT ![r].pc = step]
Throws(r) == run' = [run EXCEPT ![r].pc = "Teardown", ![r].error = TRUE]

\* The holding capture is prepared and started.
Boot(r) ==
  /\ run[r].pc = "Boot"
  /\ \/ Goto(r, "Turn") /\ UNCHANGED faulty
     \/ Throws(r) /\ faulty' = faulty \cup {r}
  /\ UNCHANGED <<output, sharedVars, uiVars, notices, streamVars, restarts>>

\* A turn: a stop, a latched failure, and what the worker finds out by itself
\* (a stall, a deadline, a codec).
Turn(r) ==
  LET w == run[r]
  IN /\ w.pc = "Turn"
     /\ \/ w.stopping /\ Goto(r, "Teardown") /\ UNCHANGED faulty
        \/ ~w.stopping /\ w.failed /\ Throws(r) /\ UNCHANGED faulty
        \/ ~w.stopping /\ ~w.failed /\ Throws(r) /\ faulty' = faulty \cup {r}
        \/ ~w.stopping /\ ~w.failed /\ Goto(r, IF w.coordinator THEN "Pace" ELSE "OffAir")
           /\ UNCHANGED faulty
     /\ UNCHANGED <<output, sharedVars, uiVars, notices, streamVars, restarts>>

\* Off air the worker only fills the buffer, and does so over a stop that came
\* meanwhile.  "Filling" stands for Ready too: nothing tells the two apart.
OffAir(r) ==
  /\ run[r].pc = "OffAir"
  /\ run' = IF ~run[r].requested
            THEN [run EXCEPT ![r].phase = "Filling", ![r].pc = "Turn"]
            ELSE [run EXCEPT ![r].pc = IF run[r].network = "None" THEN "Connect" ELSE "Launch"]
  /\ UNCHANGED <<output, sharedVars, uiVars, notices, streamVars, restarts, faulty>>

\* consumer_start_: a sender that connects on threads of its own.
Connect(r) ==
  LET w == run[r]
  IN /\ w.pc = "Connect"
     /\ \/ w.stopping /\ Goto(r, "Teardown") /\ UNCHANGED faulty
        \/ ~w.stopping /\ Throws(r) /\ faulty' = faulty \cup {r}
        \/ ~w.stopping /\ run' = [run EXCEPT ![r].network = "Starting", ![r].pc = "Launch"]
           /\ UNCHANGED faulty
     /\ UNCHANGED <<output, sharedVars, uiVars, notices, streamVars, restarts>>

\* consumer_ready_, DelayController::start_live, and the coordinator.
Launch(r) ==
  LET w == run[r]
  IN /\ w.pc = "Launch"
     /\ \/ w.stopping /\ Goto(r, "Teardown")
        \/ ~w.stopping /\ w.network # "Running" /\ Goto(r, "Turn")
        \/ ~w.stopping /\ w.network = "Running" /\ (armed = 0 \/ w.failed) /\ Throws(r)
        \/ /\ ~w.stopping /\ w.network = "Running" /\ armed # 0 /\ ~w.failed
           /\ run' = [run EXCEPT ![r].coordinator = TRUE, ![r].phase = "Connecting", ![r].pc = "Pace"]
     /\ UNCHANGED <<output, sharedVars, uiVars, notices, streamVars, restarts, faulty>>

\* The rest of a turn on air: Broadcasting once the boundary is delivered.
Pace(r) ==
  /\ run[r].pc = "Pace"
  /\ run' = [run EXCEPT ![r].pc = "Turn",
               ![r].phase = IF run[r].delivered /\ ~run[r].stopping THEN "Broadcasting" ELSE @]
  /\ UNCHANGED <<output, sharedVars, uiVars, notices, streamVars, restarts, faulty>>

\* The consumer and the holding capture are stopped, then return_live.
Teardown(r) ==
  /\ run[r].pc = "Teardown"
  /\ run' = [run EXCEPT ![r].stopping = TRUE, ![r].network = "Stopped", ![r].pc = "Publish"]
  /\ armed' = 0
  /\ UNCHANGED <<output, lifecycle, pipeline, uiVars, notices, streamVars, restarts, faulty>>

Publish(r) ==
  /\ run[r].pc = "Publish"
  /\ run' = [run EXCEPT ![r].stopped = TRUE, ![r].pc = "Finish",
               ![r].phase = IF run[r].error THEN "Failed" ELSE "Stopped"]
  /\ UNCHANGED <<output, sharedVars, uiVars, notices, streamVars, restarts, faulty>>

\* finish_, the callback of active-delay-output.cpp: active is cleared and the
\* audio stopped, the lifecycle ended, and the UI thread told of an error.
Finish(r) ==
  /\ run[r].pc = "Finish"
  /\ output' = [output EXCEPT ![run[r].output].active = FALSE, ![run[r].output].audio = FALSE]
  /\ Goto(r, "FinishLifecycle")
  /\ UNCHANGED <<sharedVars, uiVars, notices, streamVars, restarts, faulty>>

FinishLifecycle(r) ==
  /\ run[r].pc = "FinishLifecycle"
  /\ lifecycle' = FALSE
  /\ Goto(r, "FinishNotice")
  /\ UNCHANGED <<output, pipeline, armed, uiVars, notices, streamVars, restarts, faulty>>

FinishNotice(r) ==
  LET w == run[r]
  IN /\ w.pc = "FinishNotice"
     /\ notices' = IF ~w.error THEN notices
                   ELSE Append(notices, [output |-> w.output, generation |-> w.generation, run |-> r])
     /\ Goto(r, "Done")
     /\ UNCHANGED <<output, sharedVars, uiVars, streamVars, restarts, faulty>>

Worker(r) ==
  \/ Boot(r) \/ Turn(r) \/ OffAir(r) \/ Connect(r) \/ Launch(r) \/ Pace(r)
  \/ Teardown(r) \/ Publish(r)
  \/ Finish(r) \/ FinishLifecycle(r) \/ FinishNotice(r)

-----------------------------------------------------------------------------
(* The threads around it.                                                   *)

InLoop == {"Turn", "OffAir", "Connect", "Launch", "Pace"}

\* The holding capture calls back, or an encoder hands over its last packet.
HoldingFails(r) ==
  /\ run[r].pc \in InLoop
  /\ run' = [run EXCEPT ![r] = Latch(@)]
  /\ faulty' = faulty \cup {r}
  /\ UNCHANGED <<output, sharedVars, uiVars, notices, streamVars, restarts>>

OutputPacketNull(o) ==
  /\ output[o].active /\ output[o].owner # 0
  /\ run' = [run EXCEPT ![output[o].owner] = Latch(@)]
  /\ faulty' = faulty \cup {output[o].owner}
  /\ UNCHANGED <<output, sharedVars, uiVars, notices, streamVars, restarts>>

\* The sender connects, and what it publishes first is acknowledged.
NetworkUp(r) ==
  /\ run[r].network = "Starting"
  /\ run' = [run EXCEPT ![r].network = "Running"]
  /\ UNCHANGED <<output, sharedVars, uiVars, notices, streamVars, restarts, faulty>>

Delivered(r) ==
  /\ run[r].coordinator /\ run[r].network = "Running" /\ ~run[r].delivered
  /\ run' = [run EXCEPT ![r].delivered = TRUE]
  /\ UNCHANGED <<output, sharedVars, uiVars, notices, streamVars, restarts, faulty>>

\* Mutant of the next: nothing.
SenderFailureLost(w) == w

\* What the sender's error callback leaves in the owner.
SenderFailure(w) == Latch(w)

SenderFails(r) ==
  /\ run[r].network \in {"Starting", "Running"}
  /\ run' = [run EXCEPT ![r] = [SenderFailure(@) EXCEPT !.network = "Failed"]]
  /\ faulty' = faulty \cup {r}
  /\ UNCHANGED <<output, sharedVars, uiVars, notices, streamVars, restarts>>

Next ==
  \/ UiStep \/ Restart
  \/ ArmBuffer \/ StartDelayedOutput
  \/ AskStop \/ AnswerNo \/ StopDelayedOutput \/ SceneCollectionChanging \/ Shutdown
  \/ Settle \/ Tick \/ CheckHealth \/ FinishOnUi
  \/ StreamStarts \/ StreamSeen \/ StreamEnds
  \/ \E o \in Outputs : EndCapture(o) \/ OutputPacketNull(o)
  \/ \E r \in Runs : Worker(r) \/ HoldingFails(r) \/ NetworkUp(r) \/ Delivered(r) \/ SenderFails(r)

Spec == Init /\ [][Next]_vars

\* Threads that can go on do: the UI thread serves its timer and its queue, and
\* a connection attempt ends.
FairSpec ==
  /\ Spec
  /\ WF_vars(UiStep)
  /\ WF_vars(Settle) /\ WF_vars(Tick) /\ WF_vars(CheckHealth /\ ~DelayedActive)
  /\ WF_vars(FinishOnUi)
  /\ \A o \in Outputs : WF_vars(EndCapture(o))
  /\ \A r \in Runs : /\ WF_vars(Worker(r))
                     /\ WF_vars(NetworkUp(r) \/ SenderFails(r))
                     /\ WF_vars(Delivered(r))

-----------------------------------------------------------------------------
(* What must hold.                                                          *)

\* The delay controller is shared by all runs: while a worker uses it, it is
\* armed by that worker's own start, and nobody else has taken it back.
ControllerIsMine ==
  \A r \in Runs : run[r].pc \in InLoop \cup {"Boot", "Teardown"} => armed = r

\* The lifecycle is open as long as any worker has work left that touches the
\* session, so that neither another start nor a change of mode is let in, and
\* only one worker has such work.
OneLifecycle ==
  LET busy == {r \in Runs : run[r].pc \notin {"None", "FinishNotice", "Done"}}
  IN /\ busy # {} => lifecycle
     /\ \A r, q \in busy : r = q

\* Runs of the output share one session; they never overlap in it.
RunsDoNotOverlap == ControllerIsMine /\ OneLifecycle

\* A run in which nothing failed ends without a failure, whoever stops it and
\* when: the programme's audio output, stopped on the way, reports none.
QuietEnd ==
  \A r \in Runs \ faulty : ~run[r].failed /\ ~run[r].error

\* While the dock is on air, OBS's own stream, once its start was announced,
\* is being stopped: the programme never goes out past the delay.
NeverBypassed == OnAir /\ streaming.on /\ streaming.seen => streaming.stop

\* The notice of an owner that ended, however late the UI thread gets to it,
\* ends no capture but that of its own run.
NoticeIsOwn ==
  [][\A o \in Outputs :
       notices' # notices /\ output[o].state = "Active" /\ output'[o].state = "Ending"
         => Head(notices).run = output[o].owner]_vars

\* A dock that is stopping, or whose owner has ended by itself, gets back to
\* Stopped, from where a new broadcast can be armed, unless something else in
\* OBS starts the output again or Arm can still be pressed.
DockSettles ==
  (\/ dock.flow = "Stopping"
   \/ dock.flow = "DelayedOutput" /\ dock.delayed # 0 /\ Stopped)
    ~> (dock.flow = "Stopped" \/ restarts > 0 \/ dock.armable)

\* A broadcast that was asked for goes on air or the run ends: it does not stay
\* Connecting for good.
StartTakes == Phase = "Connecting" ~> Phase # "Connecting"
=============================================================================
