-------------------------- MODULE PipelineOwnerProofs --------------------------
(***************************************************************************)
(* The owner seen from the dock (Broadcast), and seen from the threads that *)
(* raise the publication epoch (PacketDispatch).  The two components share  *)
(* no state: their theorems stand one after the other.                      *)
(*                                                                          *)
(* Broadcast, for any number of outputs, owners, restarts and streams:      *)
(* owners do not overlap in the session they share, a run in which nothing  *)
(* failed ends without a failure, OBS's own stream never bypasses the       *)
(* delay, and a late notice ends no capture but that of its own run.        *)
(* What ties the objects together is where the UI thread is (UiRole), that  *)
(* the open lifecycle has one holder (Token), which is the operation of the *)
(* UI thread that opened it or the one worker that is busy, and that the    *)
(* dock, or the operation under way, still holds that worker's output       *)
(* (Home): so that who ends the lifecycle has joined the worker.            *)
(*                                                                          *)
(* PacketDispatch, for any number of consumers, actions and epochs: the     *)
(* dispatcher keeps PublicationFence, no consumer refuses a batch, and      *)
(* epochs are distinct and in the order of admission.  None of these is     *)
(* inductive alone.  Inv joins what ties them together: who may call what   *)
(* (Roles), how epochs compare (Order), that a broadcast comes up only if   *)
(* nothing was cut before (Startup), how far a cutoff has got (Cutoffs),    *)
(* and where the headers of the epoch are (Headers).                        *)
(***************************************************************************)
EXTENDS Broadcast, PacketDispatch, SequenceTheorems, NaturalsInduction,
        WellFoundedInduction, TLAPS

-----------------------------------------------------------------------------
(* Broadcast: natural numbers.                                             *)

\* Every non-empty set of natural numbers has a least element.
LEMMA NatMinimum ==
  ASSUME NEW S, S \subseteq Nat, S # {}
  PROVE  \E n \in S : \A m \in S : n <= m
<1>1. IsWellFoundedOn(OpToRel(<, Nat), Nat)
  BY NatLessThanWellFounded, Zenon
<1>2. PICK n \in S : \A m \in S : <<m, n>> \notin OpToRel(<, Nat)
  BY <1>1, WFMin, Zenon
<1>3. \A m \in S : ~(m < n)
  BY <1>2 DEF OpToRel
<1> QED
  BY <1>3


Stopping  == {"StopFlag", "StopAudio", "StopOwner"}
Releasing == {"Release", "Join"}
Starting  == {"Open", "Prepare", "Spawn", "StartAudio", "Capture"}
WorkerPcs == {"None", "Boot", "Turn", "OffAir", "Connect", "Launch", "Pace", "Teardown",
              "Publish", "Finish", "FinishLifecycle", "FinishNotice", "Done"}
Phases == {"Stopped", "Arming", "Filling", "Connecting", "Broadcasting", "Stopping", "Failed"}

OutputRecord ==
  [state : {"None", "Idle", "Active", "Ending", "Gone"}, audio : BOOLEAN,
   active : BOOLEAN, generation : Nat, owner : Runs \cup {0}]
RunRecord ==
  [output : Outputs \cup {0}, generation : Nat, pc : WorkerPcs, phase : Phases,
   stopping : BOOLEAN, stopped : BOOLEAN, failed : BOOLEAN, error : BOOLEAN,
   requested : BOOLEAN, network : {"None", "Starting", "Running", "Failed", "Stopped"},
   coordinator : BOOLEAN, delivered : BOOLEAN]
Notice == [output : Outputs, generation : Nat, run : Runs]

UiSteps == {"Idle"} \cup Stopping \cup Releasing \cup Starting
UiRecord ==
  [at : UiSteps, output : Outputs \cup {0},
   then : {"Nothing", "Stopping", "Shut", "Arm", "Restart"}]
DockRecord ==
  [delayed : Outputs \cup {0}, flow : {"Stopped", "DelayedOutput", "Stopping"},
   armable : BOOLEAN, asking : BOOLEAN, shut : BOOLEAN]

TypeOK ==
  /\ output \in [Outputs -> OutputRecord] /\ run \in [Runs -> RunRecord]
  /\ lifecycle \in BOOLEAN /\ pipeline \in Runs \cup {0} /\ armed \in Runs \cup {0}
  /\ dock \in DockRecord /\ ui \in UiRecord
  /\ notices \in Seq(Notice)
  /\ streaming \in [on : BOOLEAN, seen : BOOLEAN, stop : BOOLEAN]
  /\ restarts \in Nat /\ streams \in Nat /\ faulty \subseteq Runs

\* Which output the operation of the UI thread is about, and whether the dock
\* still holds it.
UiRole ==
  /\ ui.at # "Idle" => ui.output \in Outputs
  /\ ui.at \in Stopping => ui.output = dock.delayed /\ ui.then \in {"Stopping", "Shut"}
  /\ ui.at \in Releasing => dock.delayed = 0
  /\ ui.at \in Starting =>
       /\ ui.then \in {"Arm", "Restart"}
       /\ ui.then = "Arm" => dock.delayed = 0
       /\ ui.then = "Restart" => dock.delayed = ui.output
  /\ ui.at = "Spawn" => Joined(ui.output)
  /\ ui.at \in Starting => output[ui.output].state # "Gone"
  /\ ui.at \in {"StartAudio", "Capture"} => output[ui.output].owner # 0
  /\ ui.at \notin {"Idle", "Open"} => output[ui.output].state # "None"
  /\ dock.delayed # 0 => output[dock.delayed].state # "None"

\* What the UI thread starts when it is idle.
DockStep ==
  \/ Restart \/ ArmBuffer \/ StartDelayedOutput
  \/ AskStop \/ AnswerNo \/ StopDelayedOutput \/ SceneCollectionChanging \/ Shutdown
  \/ Settle \/ Tick \/ CheckHealth \/ FinishOnUi

Busy(r) == run[r].pc \notin {"None", "FinishNotice", "Done"}
\* The lifecycle is held by the start that opened it or by one worker.
Token ==
  /\ ui.at \in {"Prepare", "Spawn"} => lifecycle /\ \A r \in Runs : ~Busy(r)
  /\ \A r \in Runs : Busy(r) => lifecycle /\ \A q \in Runs : Busy(q) => q = r

\* A worker's output cannot be freed behind its back.
Home ==
  \A r \in Runs :
    /\ run[r].pc \notin {"None", "Done"} => run[r].output \in Outputs
    /\ Busy(r) => /\ output[run[r].output].owner = r
                  /\ \/ run[r].output = dock.delayed
                     \/ ui.at # "Idle" /\ run[r].output = ui.output

SessionInv == TypeOK /\ UiRole /\ Token /\ Home /\ ControllerIsMine

\* The audio's end is no failure once the output is marked inactive.
QuietInv == QuietEnd /\ (ui.at = "StopAudio" => ~output[ui.output].active)

\* A broadcast that was asked for shows until it is told to stop.
Shows(w) ==
  /\ w.pc \in {"Connect", "Launch", "Pace"} \/ w.coordinator => w.requested
  /\ w.requested /\ ~w.stopping => w.phase \in {"Connecting", "Broadcasting"}
  /\ w.pc = "Publish" => w.stopping
Shown == \A r \in Runs : Shows(run[r])

\* A generation of an output belongs to one run: the owner it has.
Names(outputs, n) ==
  /\ n.output \in Outputs /\ n.generation > 0
  /\ outputs[n.output].state # "Gone" => n.generation <= outputs[n.output].generation
  /\ outputs[n.output].generation = n.generation => outputs[n.output].owner = n.run
RunName(r) == [output |-> run[r].output, generation |-> run[r].generation, run |-> r]
Generations ==
  /\ \A o \in Outputs : output[o].state = "Gone" => output[o].generation = 0
  /\ \A r \in Runs : run[r].pc \notin {"None", "Done"} => Names(output, RunName(r))
  /\ \A i \in 1..Len(notices) : Names(output, notices[i])

-----------------------------------------------------------------------------
\* Types, one step at a time.

LEMMA Numbers ==
  ASSUME BroadcastConstants
  PROVE  /\ 0 \notin Runs /\ 0 \notin Outputs
         /\ Unused # {} => NextOf(Unused) \in Unused
         /\ Fresh # {} => NextOf(Fresh) \in Fresh
<1>1. ASSUME NEW S, S \subseteq Nat, S # {} PROVE NextOf(S) \in S
  <2>1. \E x \in S : \A y \in S : x <= y
    BY <1>1, NatMinimum
  <2> QED BY <2>1 DEF NextOf
<1>2. Unused \subseteq Nat /\ Fresh \subseteq Nat
  BY DEF BroadcastConstants, Unused, Fresh
<1> QED BY <1>1, <1>2 DEF BroadcastConstants

LEMMA RunTypes ==
  ASSUME BroadcastConstants, TypeOK
  PROVE  /\ NoRun \in RunRecord /\ NoOutput \in OutputRecord
         /\ \A w \in RunRecord : StopRequested(w) \in RunRecord /\ Latch(w) \in RunRecord
         /\ \A o \in Outputs : AfterAudioStop(o) \in [Runs -> RunRecord]
         /\ \A r \in Runs \cup {0} : Freed(r) \in [Runs -> RunRecord]
<1>1. NoRun \in RunRecord /\ NoOutput \in OutputRecord
  BY DEF NoRun, NoOutput, RunRecord, OutputRecord, WorkerPcs, Phases
<1>2. \A w \in RunRecord : StopRequested(w) \in RunRecord /\ Latch(w) \in RunRecord
  BY DEF StopRequested, Latch, RunRecord, Phases
<1>3. \A o \in Outputs : AfterAudioStop(o) \in [Runs -> RunRecord]
  BY <1>2 DEF AfterAudioStop, TypeOK, OutputRecord
<1>4. [NoRun EXCEPT !.pc = "Done"] \in RunRecord
  BY <1>1 DEF RunRecord, WorkerPcs
<1>5. \A r \in Runs \cup {0} : Freed(r) \in [Runs -> RunRecord]
  BY <1>4 DEF Freed, TypeOK
<1> QED BY <1>1, <1>2, <1>3, <1>5


LEMMA OutputFields ==
  ASSUME NEW x \in OutputRecord
  PROVE  /\ \A b \in BOOLEAN : /\ [x EXCEPT !.active = b] \in OutputRecord
                               /\ [x EXCEPT !.audio = b] \in OutputRecord
                               /\ \A c \in BOOLEAN : [x EXCEPT !.active = b, !.audio = c] \in OutputRecord
         /\ \A q \in {"None", "Idle", "Active", "Ending", "Gone"} : [x EXCEPT !.state = q] \in OutputRecord
         /\ [x EXCEPT !.state = IF @ = "Active" THEN "Ending" ELSE @] \in OutputRecord
         /\ \A r \in Runs, b \in BOOLEAN, g \in Nat :
              [x EXCEPT !.owner = r, !.active = b, !.generation = g] \in OutputRecord
  BY ZenonT(40) DEF OutputRecord

LEMMA RunFields ==
  ASSUME NEW x \in RunRecord
  PROVE  /\ \A p \in WorkerPcs : /\ [x EXCEPT !.pc = p] \in RunRecord
                                 /\ [x EXCEPT !.pc = p, !.error = TRUE] \in RunRecord
                                 /\ \A h \in Phases : /\ [x EXCEPT !.pc = p, !.phase = h] \in RunRecord
                                                      /\ [x EXCEPT !.phase = h, !.pc = p] \in RunRecord
                                                      /\ [x EXCEPT !.coordinator = TRUE, !.phase = h, !.pc = p] \in RunRecord
                                                      /\ [x EXCEPT !.stopped = TRUE, !.pc = p, !.phase = h] \in RunRecord
         /\ [x EXCEPT !.delivered = TRUE] \in RunRecord
         /\ \A n \in {"None", "Starting", "Running", "Failed", "Stopped"} :
              /\ [x EXCEPT !.network = n] \in RunRecord
              /\ \A p \in WorkerPcs : /\ [x EXCEPT !.network = n, !.pc = p] \in RunRecord
                                      /\ [x EXCEPT !.stopping = TRUE, !.network = n, !.pc = p] \in RunRecord
  BY ZenonT(40) DEF RunRecord

LEMMA RequestedType ==
  ASSUME NEW x \in RunRecord
  PROVE  [x EXCEPT !.requested = TRUE, !.phase = "Connecting"] \in RunRecord
  BY DEF RunRecord, Phases

LEMMA UiFields ==
  ASSUME NEW x \in UiRecord
  PROVE  /\ \A p \in UiSteps : [x EXCEPT !.at = p] \in UiRecord
         /\ \A o \in Outputs \cup {0} :
              /\ At("Release", o, "Nothing") \in UiRecord /\ At("Release", o, "Arm") \in UiRecord
              /\ At("Open", o, "Arm") \in UiRecord /\ At("Open", o, "Restart") \in UiRecord
              /\ At("StopFlag", o, "Stopping") \in UiRecord /\ At("StopFlag", o, "Shut") \in UiRecord
              /\ Refused(o) \in UiRecord
         /\ Idle \in UiRecord
<1>1. "Release" \in UiSteps /\ "Open" \in UiSteps /\ "StopFlag" \in UiSteps /\ "Idle" \in UiSteps
  BY DEF UiSteps, Stopping, Releasing, Starting
<1> QED BY <1>1 DEF UiRecord, At, Idle, Refused

LEMMA DockFields ==
  ASSUME NEW x \in DockRecord
  PROVE  /\ x.delayed \in Outputs \cup {0} /\ x.asking \in BOOLEAN
         /\ x.flow \in {"Stopped", "DelayedOutput", "Stopping"}
         /\ \A b \in BOOLEAN : /\ [x EXCEPT !.asking = b] \in DockRecord
                               /\ [x EXCEPT !.armable = b] \in DockRecord
                               /\ [x EXCEPT !.flow = "Stopping", !.asking = b] \in DockRecord
         /\ [x EXCEPT !.flow = "Stopping"] \in DockRecord
         /\ [x EXCEPT !.shut = TRUE] \in DockRecord
         /\ [x EXCEPT !.shut = TRUE, !.flow = "Stopped"] \in DockRecord
         /\ [x EXCEPT !.delayed = 0] \in DockRecord
         /\ [x EXCEPT !.delayed = 0, !.flow = "Stopped"] \in DockRecord
         /\ [x EXCEPT !.shut = TRUE, !.delayed = 0, !.flow = "Stopped"] \in DockRecord
         /\ [x EXCEPT !.delayed = 0, !.flow = "Stopped", !.armable = TRUE] \in DockRecord
         /\ \A o \in Outputs : [x EXCEPT !.delayed = o, !.flow = "DelayedOutput"] \in DockRecord
  BY Zenon DEF DockRecord

LEMMA UiTypes ==
  ASSUME BroadcastConstants, TypeOK, UiRole, UiStep
  PROVE  TypeOK'
<1> USE DEF sharedVars, uiVars, streamVars
<1>0. ui.output \in Outputs
  BY Zenon DEF UiStep, UiRole, StopFlag, StopAudio, StopOwner, Release, Free, Open, Prepare, StartAudio,
         Capture, CaptureRefused, Spawn, TypeOK
<1>1. CASE StopFlag
  <2>1. output' \in [Outputs -> OutputRecord]
    BY Zenon, <1>1, <1>0, OutputFields DEF TypeOK, StopFlag, Unmarked
  <2>2. ui' \in UiRecord
    BY <1>1, <1>0, UiFields DEF TypeOK, StopFlag, UiSteps, Stopping, Releasing, Starting
  <2> QED BY <1>1, <2>1, <2>2 DEF TypeOK, StopFlag
<1>2. CASE StopAudio
  <2>1. output' \in [Outputs -> OutputRecord]
    BY Zenon, <1>2, <1>0, OutputFields DEF TypeOK, StopAudio
  <2>2. run' \in [Runs -> RunRecord]
    BY <1>2, <1>0, RunTypes DEF TypeOK, StopAudio
  <2>3. ui' \in UiRecord
    BY <1>2, <1>0, UiFields DEF TypeOK, StopAudio, UiSteps, Stopping, Releasing, Starting
  <2> QED BY <1>2, <2>1, <2>2, <2>3 DEF TypeOK, StopAudio
<1>3. CASE StopOwner
  <2>1. output' \in [Outputs -> OutputRecord]
    BY Zenon, <1>3, <1>0, OutputFields DEF TypeOK, StopOwner
  <2>2. run' \in [Runs -> RunRecord]
    BY SMTT(30), <1>3, <1>0, RunTypes DEF TypeOK, StopOwner, OutputRecord
  <2>3. dock' \in DockRecord
    BY Zenon, <1>3, <1>0, DockFields DEF TypeOK, StopOwner
  <2>4. ui' \in UiRecord
    BY <1>3, <1>0, UiFields DEF TypeOK, StopOwner
  <2> QED BY <1>3, <2>1, <2>2, <2>3, <2>4 DEF TypeOK, StopOwner
<1>4. CASE Release
  <2>1. output' \in [Outputs -> OutputRecord]
    BY Zenon, <1>4, <1>0, OutputFields DEF TypeOK, Release
  <2>2. run' \in [Runs -> RunRecord]
    BY <1>4, <1>0, RunTypes DEF TypeOK, Release, OutputRecord
  <2>3. ui' \in UiRecord
    BY <1>4, <1>0, UiFields DEF TypeOK, Release, UiSteps, Stopping, Releasing, Starting
  <2> QED BY <1>4, <2>1, <2>2, <2>3 DEF TypeOK, Release
<1>5. CASE Free
  <2>1. output' \in [Outputs -> OutputRecord]
    BY <1>5, <1>0, RunTypes DEF TypeOK, Free, OutputRecord
  <2>2. run' \in [Runs -> RunRecord]
    BY <1>5, <1>0, RunTypes DEF TypeOK, Free, OutputRecord
  <2>3. ui' \in UiRecord
    BY <1>5, <1>0, Numbers, UiFields DEF TypeOK, Free, Fresh
  <2> QED BY <1>5, <2>1, <2>2, <2>3 DEF TypeOK, Free
<1>6. CASE Open
  <2>1. output' \in [Outputs -> OutputRecord]
    BY Zenon, <1>6, <1>0, OutputFields DEF TypeOK, Open
  <2>2. run' \in [Runs -> RunRecord]
    <3>1. output[ui.output].owner \in Runs \cup {0}
      BY <1>0 DEF TypeOK, OutputRecord
    <3>2. \/ run' = run
          \/ /\ output[ui.output].owner # 0
             /\ run' = [run EXCEPT ![output[ui.output].owner] = StopRequested(@)]
      BY <1>6 DEF Open
    <3> QED BY <3>1, <3>2, RunTypes DEF TypeOK
  <2>3. ui' \in UiRecord
    <3>1. ui' = Refused(ui.output) \/ ui' = [ui EXCEPT !.at = "Prepare"]
      BY <1>6 DEF Open
    <3>2. "Prepare" \in UiSteps
      BY DEF UiSteps, Starting
    <3> QED BY <3>1, <3>2, <1>0, UiFields DEF TypeOK
  <2> QED BY <1>6, <2>1, <2>2, <2>3 DEF TypeOK, Open
<1>7. CASE Prepare
  <2>1. output' \in [Outputs -> OutputRecord]
    BY Zenon, <1>7, <1>0, OutputFields DEF TypeOK, Prepare
  <2>2. ui' \in UiRecord
    <3>1. ui' = Refused(ui.output) \/ ui' = [ui EXCEPT !.at = "Spawn"]
      BY <1>7 DEF Prepare
    <3>2. "Spawn" \in UiSteps
      BY DEF UiSteps, Starting
    <3> QED BY <3>1, <3>2, <1>0, UiFields DEF TypeOK
  <2> QED BY <1>7, <2>1, <2>2 DEF TypeOK, Prepare
<1>8. CASE StartAudio
  <2>1. output' \in [Outputs -> OutputRecord]
    BY Zenon, <1>8, <1>0, OutputFields DEF TypeOK, StartAudio
  <2>2. ui' \in UiRecord
    BY <1>8, <1>0, UiFields DEF TypeOK, StartAudio, UiSteps, Stopping, Releasing, Starting
  <2> QED BY <1>8, <2>1, <2>2 DEF TypeOK, StartAudio
<1>9. CASE Capture
  <2>1. output' \in [Outputs -> OutputRecord]
    BY ZenonT(40), <1>9, <1>0, OutputFields DEF TypeOK, Capture
  <2>2. dock' \in DockRecord
    BY Zenon, <1>9, <1>0, DockFields DEF TypeOK, Capture
  <2>3. ui' \in UiRecord
    BY <1>9, <1>0, UiFields DEF TypeOK, Capture
  <2> QED BY <1>9, <2>1, <2>2, <2>3 DEF TypeOK, Capture
<1>10. CASE CaptureRefused
  <2>1. output' \in [Outputs -> OutputRecord]
    BY Zenon, <1>10, <1>0, OutputFields DEF TypeOK, CaptureRefused
  <2>2. run' \in [Runs -> RunRecord]
    BY <1>10, <1>0, RunTypes DEF TypeOK, CaptureRefused, OutputRecord
  <2>3. ui' \in UiRecord
    BY <1>10, <1>0, UiFields DEF TypeOK, CaptureRefused
  <2> QED BY <1>10, <2>1, <2>2, <2>3 DEF TypeOK, CaptureRefused, LifecycleAfterRefusal
<1>11. CASE Spawn
  <2> DEFINE r == NextOf(Unused)
             o == ui.output
             g == output[o].generation + 1
             started == [NoRun EXCEPT !.output = o, !.generation = g,
                                      !.phase = "Arming", !.stopped = FALSE]
  <2>1. r \in Runs /\ output[o].owner \in Runs \cup {0} /\ g \in Nat
    <3>1. r \in Runs
      BY Zenon, <1>11, Numbers DEF Spawn, Unused
    <3>2. output[o] \in OutputRecord
      BY <1>0 DEF TypeOK
    <3> QED BY <3>1, <3>2 DEF OutputRecord
  <2>2. output' \in [Outputs -> OutputRecord]
    <3>1. \E b \in BOOLEAN : output' = [output EXCEPT ![o] = [@ EXCEPT !.owner = r, !.active = b, !.generation = g]]
      BY Zenon, <1>11, <1>0 DEF TypeOK, Spawn
    <3>2. o \in Outputs /\ output \in [Outputs -> OutputRecord]
      BY <1>0 DEF TypeOK
    <3> HIDE DEF r, o, g
    <3>3. \A b \in BOOLEAN : [output[o] EXCEPT !.owner = r, !.active = b, !.generation = g] \in OutputRecord
      BY ZenonT(40), <3>2, <2>1, OutputFields
    <3> QED BY Zenon, <3>1, <3>2, <3>3
  <2>3. /\ started \in RunRecord
        /\ [started EXCEPT !.pc = "Boot"] \in RunRecord /\ [started EXCEPT !.pc = "Done"] \in RunRecord
    <3>1. o \in Outputs
      BY <1>0
    <3> HIDE DEF o, g
    <3>2. started \in RunRecord
      BY <3>1, <2>1 DEF NoRun, RunRecord, WorkerPcs, Phases
    <3>3. "Boot" \in WorkerPcs /\ "Done" \in WorkerPcs
      BY DEF WorkerPcs
    <3> HIDE DEF started
    <3> QED BY Zenon, <3>2, <3>3, RunFields
  <2>4. run' \in [Runs -> RunRecord]
    <3>1. \E w \in RunRecord : run' = [Freed(output[o].owner) EXCEPT ![r] = w]
      BY <1>11, <2>3 DEF Spawn
    <3>2. Freed(output[o].owner) \in [Runs -> RunRecord]
      BY <2>1, RunTypes
    <3> HIDE DEF r
    <3> QED BY <3>1, <3>2, <2>1
  <2>5. ui' \in UiRecord
    <3>1. ui' = [ui EXCEPT !.at = "StartAudio"] \/ ui' = Refused(o)
      BY <1>11 DEF Spawn
    <3>2. "StartAudio" \in UiSteps
      BY DEF UiSteps, Starting
    <3> QED BY <3>1, <3>2, <1>0, UiFields DEF TypeOK
  <2> QED BY <1>11, <2>1, <2>2, <2>4, <2>5 DEF TypeOK, Spawn
<1> QED BY <1>1, <1>2, <1>3, <1>4, <1>5, <1>6, <1>7, <1>8, <1>9, <1>10, <1>11 DEF UiStep

LEMMA StopNowTypes ==
  ASSUME TypeOK, NEW b \in BOOLEAN, StopNow(b)
  PROVE  dock' \in DockRecord /\ ui' \in UiRecord
<1>1. dock' = [dock EXCEPT !.asking = b] \/ dock' = [dock EXCEPT !.flow = "Stopping", !.asking = b]
  BY DEF StopNow
<1>2. ui' = At("StopFlag", dock.delayed, "Stopping") \/ ui' = Idle
  BY SMTT(30) DEF StopNow
<1>3. dock \in DockRecord /\ ui \in UiRecord /\ dock.delayed \in Outputs \cup {0}
  BY Zenon, DockFields DEF TypeOK
<1>4. dock' \in DockRecord
  <2>1. \A x \in DockRecord : /\ [x EXCEPT !.asking = b] \in DockRecord
                              /\ [x EXCEPT !.flow = "Stopping", !.asking = b] \in DockRecord
    BY Zenon, DockFields
  <2> QED BY ZenonT(40), <1>1, <1>3, <2>1
<1>5. ui' \in UiRecord
  BY <1>2, <1>3, UiFields
<1> QED BY <1>4, <1>5

LEMMA DockTypes ==
  ASSUME BroadcastConstants, TypeOK, UiRole, DockStep
  PROVE  TypeOK'
<1> USE DEF sharedVars, uiVars, streamVars
<1>1. CASE Restart
  <2>1. ui' \in UiRecord
    BY Zenon, <1>1, UiFields, DockFields DEF TypeOK, Restart
  <2> QED BY SMTT(30), <1>1, <2>1 DEF TypeOK, Restart
<1>2. CASE ArmBuffer
  <2>1. dock' \in DockRecord
    BY Zenon, <1>2, DockFields DEF TypeOK, ArmBuffer
  <2>2. ui' \in UiRecord
    <3>1. NextOf(Fresh) \in Outputs /\ dock.delayed \in Outputs \cup {0}
      BY Zenon, <1>2, Numbers, DockFields DEF ArmBuffer, Fresh, TypeOK
    <3>2. ui' = At("Release", dock.delayed, "Arm") \/ ui' = At("Open", NextOf(Fresh), "Arm")
      BY <1>2 DEF ArmBuffer
    <3> QED BY SMTT(30), <3>1, <3>2, UiFields DEF TypeOK
  <2> QED BY SMTT(30), <1>2, <2>1, <2>2 DEF TypeOK, ArmBuffer
<1>3. CASE AskStop
  <2>1. dock' \in DockRecord
    BY Zenon, <1>3, DockFields DEF TypeOK, AskStop
  <2> QED BY SMTT(30), <1>3, <2>1 DEF TypeOK, AskStop
<1>4. CASE AnswerNo
  <2>1. dock' \in DockRecord
    BY Zenon, <1>4, DockFields DEF TypeOK, AnswerNo
  <2> QED BY SMTT(30), <1>4, <2>1 DEF TypeOK, AnswerNo
<1>5. CASE StopDelayedOutput
  <2>1. FALSE \in BOOLEAN /\ StopNow(FALSE)
    BY Zenon, <1>5, DockFields DEF TypeOK, StopDelayedOutput
  <2>2. dock' \in DockRecord /\ ui' \in UiRecord
    BY Zenon, <2>1, StopNowTypes
  <2> QED BY SMTT(30), <1>5, <2>1, <2>2 DEF TypeOK, StopDelayedOutput, StopNow
<1>6. CASE SceneCollectionChanging
  <2>1. dock.asking \in BOOLEAN /\ StopNow(dock.asking)
    BY Zenon, <1>6, DockFields DEF TypeOK, SceneCollectionChanging
  <2>2. dock' \in DockRecord /\ ui' \in UiRecord
    BY <2>1, StopNowTypes
  <2> QED BY <1>6, <2>1, <2>2 DEF TypeOK, SceneCollectionChanging, StopNow
<1>7. CASE CheckHealth
  <2>1. dock.asking \in BOOLEAN /\ StopNow(dock.asking)
    BY Zenon, <1>7, DockFields DEF TypeOK, CheckHealth
  <2>2. dock' \in DockRecord /\ ui' \in UiRecord
    BY <2>1, StopNowTypes
  <2> QED BY SMTT(30), <1>7, <2>1, <2>2 DEF TypeOK, CheckHealth, StopNow
<1>8. CASE Shutdown
  <2>1. dock' \in DockRecord
    BY ZenonT(40), <1>8, DockFields DEF TypeOK, Shutdown
  <2>2. ui' \in UiRecord
    BY ZenonT(40), <1>8, UiFields, DockFields DEF TypeOK, Shutdown
  <2> QED BY SMTT(30), <1>8, <2>1, <2>2 DEF TypeOK, Shutdown
<1>9. CASE Settle
  <2>1. dock' \in DockRecord
    BY Zenon, <1>9, DockFields DEF TypeOK, Settle
  <2>2. ui' \in UiRecord
    BY Zenon, <1>9, UiFields, DockFields DEF TypeOK, Settle
  <2> QED BY <1>9, <2>1, <2>2 DEF TypeOK, Settle
<1>10. CASE Tick
  <2>1. dock' \in DockRecord
    BY Zenon, <1>10, DockFields DEF TypeOK, Tick
  <2> QED BY SMTT(30), <1>10, <2>1 DEF TypeOK, Tick
<1>11. CASE StartDelayedOutput
  <2>1. Attached \in Runs
    BY <1>11 DEF StartDelayedOutput, Attached, TypeOK
  <2>3. [run[Attached] EXCEPT !.requested = TRUE, !.phase = "Connecting"] \in RunRecord
    BY Zenon, <2>1, RequestedType DEF TypeOK
  <2>2. run' \in [Runs -> RunRecord]
    BY <1>11, <2>1, <2>3 DEF StartDelayedOutput, Requested, TypeOK
  <2> QED BY <1>11, <2>2 DEF TypeOK, StartDelayedOutput
<1>12. CASE FinishOnUi
  <2>1. output' \in [Outputs -> OutputRecord]
    BY Zenon, <1>12, OutputFields DEF TypeOK, FinishOnUi
  <2>2. notices' \in Seq(Notice)
    BY <1>12, HeadTailProperties DEF TypeOK, FinishOnUi
  <2> QED BY SMTT(30), <1>12, <2>1, <2>2 DEF TypeOK, FinishOnUi
<1> QED BY <1>1, <1>2, <1>3, <1>4, <1>5, <1>6, <1>7, <1>8, <1>9, <1>10, <1>11, <1>12 DEF DockStep

LEMMA StepTypes ==
  ASSUME TypeOK, NEW r \in Runs
  PROVE  /\ \A p \in WorkerPcs : Goto(r, p) => run' \in [Runs -> RunRecord]
         /\ Throws(r) => run' \in [Runs -> RunRecord]
         /\ \A w \in RunRecord : run' = [run EXCEPT ![r] = w] => run' \in [Runs -> RunRecord]
<1>1. run[r] \in RunRecord /\ "Teardown" \in WorkerPcs
  BY DEF TypeOK, WorkerPcs
<1>2. ASSUME NEW p \in WorkerPcs, Goto(r, p) PROVE run' \in [Runs -> RunRecord]
  <2>1. [run[r] EXCEPT !.pc = p] \in RunRecord
    BY Zenon, <1>1, RunFields
  <2> QED BY SMTT(30), <1>2, <2>1 DEF Goto, TypeOK
<1>3. ASSUME Throws(r) PROVE run' \in [Runs -> RunRecord]
  <2>1. [run[r] EXCEPT !.pc = "Teardown", !.error = TRUE] \in RunRecord
    BY Zenon, <1>1, RunFields
  <2> QED BY SMTT(30), <1>3, <2>1 DEF Throws, TypeOK
<1> QED BY <1>1, <1>2, <1>3 DEF TypeOK

LEMMA WorkerTypes ==
  ASSUME BroadcastConstants, TypeOK, Home, NEW r \in Runs, Worker(r)
  PROVE  TypeOK'
<1> USE DEF sharedVars, uiVars, streamVars
<1>0. /\ run[r] \in RunRecord /\ run \in [Runs -> RunRecord]
      /\ run[r].phase \in Phases /\ "Filling" \in Phases /\ "Connecting" \in Phases
      /\ "Broadcasting" \in Phases /\ "Failed" \in Phases /\ "Stopped" \in Phases
  BY DEF TypeOK, RunRecord, Phases
<1>p. \A p \in {"Boot", "Turn", "OffAir", "Connect", "Launch", "Pace", "Teardown", "Publish",
               "Finish", "FinishLifecycle", "FinishNotice", "Done"} : p \in WorkerPcs
  BY DEF WorkerPcs
<1>1. CASE Boot(r)
  <2>1. Goto(r, "Turn") \/ Throws(r)
    BY <1>1 DEF Boot
  <2>3. run' \in [Runs -> RunRecord]
    BY <2>1, <1>p, StepTypes
  <2> QED BY <1>1, <2>3 DEF TypeOK, Boot
<1>2. CASE Turn(r)
  <2>1. Goto(r, "Teardown") \/ Throws(r) \/ Goto(r, "Pace") \/ Goto(r, "OffAir")
    BY <1>2 DEF Turn
  <2>3. run' \in [Runs -> RunRecord]
    BY <2>1, <1>p, StepTypes
  <2> QED BY <1>2, <2>3 DEF TypeOK, Turn
<1>3. CASE OffAir(r)
  <2>1. /\ [run[r] EXCEPT !.phase = "Filling", !.pc = "Turn"] \in RunRecord
        /\ [run[r] EXCEPT !.pc = "Connect"] \in RunRecord /\ [run[r] EXCEPT !.pc = "Launch"] \in RunRecord
    BY Zenon, <1>0, <1>p, RunFields
  <2>2. run' \in [Runs -> RunRecord]
    BY <1>3, <2>1, <1>0 DEF OffAir
  <2> QED BY SMTT(30), <1>3, <2>2 DEF TypeOK, OffAir
<1>4. CASE Connect(r)
  <2>1. \/ Goto(r, "Teardown") \/ Throws(r)
       \/ run' = [run EXCEPT ![r] = [@ EXCEPT !.network = "Starting", !.pc = "Launch"]]
    BY Zenon, <1>4 DEF Connect
  <2>2. [run[r] EXCEPT !.network = "Starting", !.pc = "Launch"] \in RunRecord
    BY Zenon, <1>0, <1>p, RunFields
  <2>3. run' \in [Runs -> RunRecord]
    BY <2>1, <2>2, <1>0, <1>p, StepTypes
  <2> QED BY <1>4, <2>3 DEF TypeOK, Connect
<1>5. CASE Launch(r)
  <2>1. \/ Goto(r, "Teardown") \/ Throws(r) \/ Goto(r, "Turn")
       \/ run' = [run EXCEPT ![r] = [@ EXCEPT !.coordinator = TRUE, !.phase = "Connecting", !.pc = "Pace"]]
    BY Zenon, <1>5 DEF Launch
  <2>2. [run[r] EXCEPT !.coordinator = TRUE, !.phase = "Connecting", !.pc = "Pace"] \in RunRecord
    BY Zenon, <1>0, <1>p, RunFields
  <2>3. run' \in [Runs -> RunRecord]
    BY <2>1, <2>2, <1>0, <1>p, StepTypes
  <2> QED BY <1>5, <2>3 DEF TypeOK, Launch
<1>6. CASE Pace(r)
  <2>1. \E h \in Phases : run' = [run EXCEPT ![r] = [@ EXCEPT !.pc = "Turn", !.phase = h]]
    BY ZenonT(40), <1>6, <1>0 DEF Pace
  <2>2. \A h \in Phases : [run[r] EXCEPT !.pc = "Turn", !.phase = h] \in RunRecord
    BY Zenon, <1>0, <1>p, RunFields
  <2>3. run' \in [Runs -> RunRecord]
    BY Zenon, <2>1, <2>2, <1>0
  <2> QED BY <1>6, <2>3 DEF TypeOK, Pace
<1>7. CASE Teardown(r)
  <2>1. run' \in [Runs -> RunRecord]
    BY Zenon, <1>7, <1>0, <1>p, RunFields DEF Teardown
  <2> QED BY SMTT(30), <1>7, <2>1 DEF TypeOK, Teardown
<1>8. CASE Publish(r)
  <2>1. \E h \in Phases : run' = [run EXCEPT ![r] = [@ EXCEPT !.stopped = TRUE, !.pc = "Finish", !.phase = h]]
    BY ZenonT(40), <1>8, <1>0 DEF Publish
  <2>2. \A h \in Phases : [run[r] EXCEPT !.stopped = TRUE, !.pc = "Finish", !.phase = h] \in RunRecord
    BY Zenon, <1>0, <1>p, RunFields
  <2>3. run' \in [Runs -> RunRecord]
    BY Zenon, <2>1, <2>2, <1>0
  <2> QED BY <1>8, <2>3 DEF TypeOK, Publish
<1>9. CASE Finish(r)
  <2>1. run' \in [Runs -> RunRecord]
    BY <1>9, <1>p, StepTypes DEF Finish
  <2>2. output' \in [Outputs -> OutputRecord]
    BY Zenon, <1>9, OutputFields DEF TypeOK, Finish
  <2> QED BY SMTT(30), <1>9, <2>1, <2>2 DEF TypeOK, Finish
<1>10. CASE FinishLifecycle(r)
  <2>1. run' \in [Runs -> RunRecord]
    BY <1>10, <1>p, StepTypes DEF FinishLifecycle
  <2> QED BY <1>10, <2>1 DEF TypeOK, FinishLifecycle
<1>11. CASE FinishNotice(r)
  <2>1. run' \in [Runs -> RunRecord]
    BY <1>11, <1>p, StepTypes DEF FinishNotice
  <2>2. notices' \in Seq(Notice)
    <3>1. CASE ~run[r].error
      BY <3>1, <1>11 DEF FinishNotice, TypeOK
    <3>2. CASE run[r].error
      <4>1. [output |-> run[r].output, generation |-> run[r].generation, run |-> r] \in Notice
        BY <1>11, <1>0 DEF FinishNotice, Notice, RunRecord, Home
      <4> QED BY <4>1, <3>2, <1>11, AppendProperties DEF FinishNotice, TypeOK
    <3> QED BY <3>1, <3>2
  <2> QED BY <1>11, <2>1, <2>2 DEF TypeOK, FinishNotice
<1> QED BY <1>1, <1>2, <1>3, <1>4, <1>5, <1>6, <1>7, <1>8, <1>9, <1>10, <1>11 DEF Worker

\* What the other threads do.
Around ==
  \/ StreamStarts \/ StreamSeen \/ StreamEnds
  \/ \E o \in Outputs : EndCapture(o) \/ OutputPacketNull(o)
  \/ \E r \in Runs : HoldingFails(r) \/ NetworkUp(r) \/ Delivered(r) \/ SenderFails(r)

LEMMA AroundTypes ==
  ASSUME BroadcastConstants, TypeOK, Around
  PROVE  TypeOK'
<1> USE DEF sharedVars, uiVars, streamVars
<1>1. CASE StreamStarts
  BY <1>1 DEF TypeOK, StreamStarts
<1>2. CASE StreamSeen
  BY <1>2 DEF TypeOK, StreamSeen, OnAir, Stopped, Phase
<1>3. CASE StreamEnds
  BY <1>3 DEF TypeOK, StreamEnds
<1>4. ASSUME NEW o \in Outputs, EndCapture(o) PROVE TypeOK'
  <2>1. output' \in [Outputs -> OutputRecord]
    BY Zenon, <1>4, OutputFields DEF TypeOK, EndCapture
  <2> QED BY <1>4, <2>1 DEF TypeOK, EndCapture
<1>5. ASSUME NEW o \in Outputs, OutputPacketNull(o) PROVE TypeOK'
  <2>1. run' \in [Runs -> RunRecord] /\ faulty' \subseteq Runs
    <3>1. output[o].owner \in Runs
      BY <1>5 DEF TypeOK, OutputRecord, OutputPacketNull
    <3> QED BY <1>5, <3>1, RunTypes DEF TypeOK, OutputPacketNull
  <2> QED BY <1>5, <2>1 DEF TypeOK, OutputPacketNull
<1>6. ASSUME NEW r \in Runs, HoldingFails(r) PROVE TypeOK'
  <2>1. run' \in [Runs -> RunRecord]
    BY <1>6, RunTypes DEF TypeOK, HoldingFails
  <2> QED BY <1>6, <2>1 DEF TypeOK, HoldingFails
<1>7. ASSUME NEW r \in Runs, NetworkUp(r) PROVE TypeOK'
  <2>1. run' \in [Runs -> RunRecord]
    BY Zenon, <1>7, RunFields DEF TypeOK, NetworkUp
  <2> QED BY SMTT(30), <1>7, <2>1 DEF TypeOK, NetworkUp
<1>8. ASSUME NEW r \in Runs, Delivered(r) PROVE TypeOK'
  <2>1. run' \in [Runs -> RunRecord]
    BY Zenon, <1>8, RunFields DEF TypeOK, Delivered
  <2> QED BY SMTT(30), <1>8, <2>1 DEF TypeOK, Delivered
<1>9. ASSUME NEW r \in Runs, SenderFails(r) PROVE TypeOK'
  <2>1. run' = [run EXCEPT ![r] = [Latch(run[r]) EXCEPT !.network = "Failed"]]
    BY <1>9 DEF SenderFails, SenderFailure
  <2>2. Latch(run[r]) \in RunRecord
    BY SMTT(30), RunTypes DEF TypeOK
  <2>3. run' \in [Runs -> RunRecord]
    BY Zenon, <2>1, <2>2, RunFields DEF TypeOK
  <2> QED BY <1>9, <2>3 DEF TypeOK, SenderFails
<1> QED BY <1>1, <1>2, <1>3, <1>4, <1>5, <1>6, <1>7, <1>8, <1>9 DEF Around

-----------------------------------------------------------------------------
\* The session: what the steps leave of it.

\* No worker moves, and no output changes hands or is freed.
SameRuns ==
  \A r \in Runs : /\ run'[r].pc = run[r].pc /\ run'[r].output = run[r].output
                  /\ run'[r].generation = run[r].generation
SameOwners ==
  \A o \in Outputs : /\ output'[o].owner = output[o].owner
                     /\ output'[o].state = "Gone" <=> output[o].state = "Gone"
                     /\ output'[o].state = "None" => output[o].state = "None"
                     /\ output'[o].generation = output[o].generation
\* What the invariants of the session say besides the types.
Bonds == UiRole /\ Token /\ Home /\ ControllerIsMine

LEMMA SameSession ==
  ASSUME TypeOK, Bonds, SameRuns, SameOwners, UNCHANGED <<ui, dock, lifecycle, armed>>
  PROVE  Bonds'
<1> USE DEF Bonds, SameRuns, SameOwners
<1>0. \A r \in Runs : Busy(r)' <=> Busy(r)
  BY DEF Busy
<1>1. UiRole'
  <2>1. ui.at = "Spawn" => Joined(ui.output)'
    BY DEF UiRole, Joined, TypeOK, OutputRecord, Starting
  <2>2. dock.delayed \in Outputs \cup {0} /\ (ui.at # "Idle" => ui.output \in Outputs)
    BY DEF TypeOK, DockRecord, UiRole
  <2> QED BY <2>1, <2>2 DEF UiRole, Starting
<1>2. Token'
  BY <1>0 DEF Token
<1>3. Home'
  <2>1. \A q \in Runs : Busy(q) => /\ run[q].output \in Outputs
                                 /\ output'[run[q].output].owner = output[run[q].output].owner
    BY DEF Home, Busy
  <2> QED BY <1>0, <2>1 DEF Home
<1>4. ControllerIsMine'
  BY DEF ControllerIsMine
<1> QED BY <1>1, <1>2, <1>3, <1>4

LEMMA AroundSame ==
  ASSUME TypeOK, Around
  PROVE  SameRuns /\ SameOwners /\ UNCHANGED <<ui, dock, lifecycle, armed>>
<1> USE DEF sharedVars, uiVars, streamVars, SameRuns, SameOwners
<1>1. CASE StreamStarts \/ StreamSeen \/ StreamEnds
  BY <1>1 DEF StreamStarts, StreamSeen, StreamEnds
<1>2. ASSUME NEW o \in Outputs, EndCapture(o)
      PROVE  SameRuns /\ SameOwners /\ UNCHANGED <<ui, dock, lifecycle, armed>>
  BY <1>2 DEF EndCapture, TypeOK, OutputRecord
<1>3. ASSUME NEW o \in Outputs, OutputPacketNull(o)
      PROVE  SameRuns /\ SameOwners /\ UNCHANGED <<ui, dock, lifecycle, armed>>
  BY <1>3 DEF OutputPacketNull, Latch, TypeOK, RunRecord
<1>4. ASSUME NEW r \in Runs, HoldingFails(r) \/ NetworkUp(r) \/ Delivered(r)
      PROVE  SameRuns /\ SameOwners /\ UNCHANGED <<ui, dock, lifecycle, armed>>
  <2>1. CASE HoldingFails(r)
    BY <2>1 DEF HoldingFails, Latch, TypeOK, RunRecord
  <2>2. CASE NetworkUp(r)
    BY <2>2 DEF NetworkUp, TypeOK, RunRecord
  <2>3. CASE Delivered(r)
    BY <2>3 DEF Delivered, TypeOK, RunRecord
  <2> QED BY <1>4, <2>1, <2>2, <2>3
<1>5. ASSUME NEW r \in Runs, SenderFails(r)
      PROVE  SameRuns /\ SameOwners /\ UNCHANGED <<ui, dock, lifecycle, armed>>
  BY <1>5 DEF SenderFails, SenderFailure, Latch, TypeOK, RunRecord
<1> QED BY <1>1, <1>2, <1>3, <1>4, <1>5 DEF Around

LEMMA AroundSession ==
  ASSUME TypeOK, Bonds, Around
  PROVE  Bonds'
  BY AroundSame, SameSession

\* One step of the worker of r: it goes on, and gives up what it holds at its
\* places.
Moves(r) ==
  /\ run[r].pc \notin {"None", "Done"} /\ run'[r].pc # "None"
  /\ run'[r].output = run[r].output /\ run'[r].generation = run[r].generation
  /\ \A q \in Runs \ {r} : run'[q] = run[q]
  /\ Busy(r)' => Busy(r)
  /\ \/ lifecycle' = lifecycle
     \/ run[r].pc = "FinishLifecycle" /\ run'[r].pc = "FinishNotice"
  /\ \/ armed' = armed
     \/ run[r].pc = "Teardown" /\ run'[r].pc = "Publish"
  /\ run'[r].pc \in InLoop \cup {"Boot", "Teardown"} => run[r].pc \in InLoop \cup {"Boot", "Teardown"}

LEMMA WorkerMoves ==
  ASSUME TypeOK, NEW r \in Runs, Worker(r)
  PROVE  Moves(r) /\ SameOwners /\ UNCHANGED <<ui, dock>>
<1> USE DEF sharedVars, uiVars, streamVars, SameOwners, Moves, Busy, InLoop, TypeOK
<1>1. CASE Boot(r)
  BY <1>1 DEF Boot, Goto, Throws, RunRecord
<1>2. CASE Turn(r)
  BY <1>2 DEF Turn, Goto, Throws, RunRecord
<1>3. CASE OffAir(r)
  BY <1>3 DEF OffAir, RunRecord
<1>4. CASE Connect(r)
  BY <1>4 DEF Connect, Goto, Throws, RunRecord
<1>5. CASE Launch(r)
  BY <1>5 DEF Launch, Goto, Throws, RunRecord
<1>6. CASE Pace(r)
  BY <1>6 DEF Pace, RunRecord
<1>7. CASE Teardown(r)
  BY <1>7 DEF Teardown, RunRecord
<1>8. CASE Publish(r)
  BY <1>8 DEF Publish, RunRecord
<1>9. CASE Finish(r)
  BY <1>9 DEF Finish, Goto, RunRecord, OutputRecord
<1>10. CASE FinishLifecycle(r)
  BY <1>10 DEF FinishLifecycle, Goto, RunRecord
<1>11. CASE FinishNotice(r)
  BY <1>11 DEF FinishNotice, Goto, RunRecord
<1> QED BY <1>1, <1>2, <1>3, <1>4, <1>5, <1>6, <1>7, <1>8, <1>9, <1>10, <1>11 DEF Worker

LEMMA WorkerSession ==
  ASSUME TypeOK, Bonds, NEW r \in Runs, Worker(r)
  PROVE  Bonds'
<1> USE DEF Bonds
<1>0. Moves(r) /\ SameOwners /\ UNCHANGED <<ui, dock>>
  BY WorkerMoves
<1>1. /\ \A q \in Runs : Busy(q)' => Busy(q)
      /\ \A q \in Runs : run[q].pc = "Done" => run'[q].pc = "Done"
      /\ \A q \in Runs : run'[q].output = run[q].output
      /\ \A q \in Runs : run'[q].pc \notin {"None", "Done"} => run[q].pc \notin {"None", "Done"}
  BY <1>0 DEF Moves, Busy
<1>2. UiRole'
  <2>1. ui.at = "Spawn" => Joined(ui.output)'
    BY <1>0, <1>1 DEF UiRole, Joined, TypeOK, OutputRecord, Starting, SameOwners
  <2>2. dock.delayed \in Outputs \cup {0} /\ (ui.at # "Idle" => ui.output \in Outputs)
    BY DEF TypeOK, DockRecord, UiRole
  <2> QED BY <1>0, <2>1, <2>2 DEF UiRole, Starting, SameOwners
<1>3. Token'
  <2>1. CASE lifecycle' = lifecycle
    BY <1>0, <1>1, <2>1 DEF Token
  <2>2. CASE run[r].pc = "FinishLifecycle" /\ run'[r].pc = "FinishNotice"
    <3>1. Busy(r) /\ ~Busy(r)'
      BY <2>2 DEF Busy
    <3> QED BY <1>0, <1>1, <3>1 DEF Token
  <2> QED BY <1>0, <2>1, <2>2 DEF Moves
<1>4. Home'
  <2> SUFFICES ASSUME NEW q \in Runs
               PROVE  /\ run'[q].pc \notin {"None", "Done"} => run'[q].output \in Outputs
                      /\ Busy(q)' => /\ output'[run'[q].output].owner = q
                                     /\ \/ run'[q].output = dock'.delayed
                                        \/ ui'.at # "Idle" /\ run'[q].output = ui'.output
    BY DEF Home
  <2>1. Busy(q) => run[q].output \in Outputs /\ output'[run[q].output].owner = output[run[q].output].owner
    BY <1>0 DEF Home, SameOwners, Busy
  <2> QED BY <1>0, <1>1, <2>1 DEF Home
<1>5. ControllerIsMine'
  <2> SUFFICES ASSUME NEW q \in Runs, run'[q].pc \in InLoop \cup {"Boot", "Teardown"}
               PROVE  armed' = q
    BY DEF ControllerIsMine
  <2>1. run[q].pc \in InLoop \cup {"Boot", "Teardown"} /\ armed = q
    BY <1>0 DEF Moves, ControllerIsMine
  <2>2. CASE armed' = armed
    BY <2>1, <2>2
  <2>3. CASE run[r].pc = "Teardown" /\ run'[r].pc = "Publish"
    <3>1. q # r
      BY <2>3 DEF InLoop
    <3>2. armed = r
      BY <2>3 DEF ControllerIsMine
    <3> QED BY <2>1, <3>1, <3>2
  <2> QED BY <1>0, <2>2, <2>3 DEF Moves
<1> QED BY <1>2, <1>3, <1>4, <1>5

\* What the UI thread may begin when it is idle.
Begins ==
  \/ ui' = Idle /\ dock'.delayed = dock.delayed
  \/ /\ dock.delayed # 0 /\ dock'.delayed = 0
     /\ ui' = At("Release", dock.delayed, "Nothing") \/ ui' = At("Release", dock.delayed, "Arm")
  \/ /\ dock.delayed = 0 /\ dock'.delayed = 0
     /\ \E o \in Outputs : ui' = At("Open", o, "Arm") /\ output[o].state # "Gone"
  \/ /\ dock.delayed # 0 /\ dock'.delayed = dock.delayed
     /\ \/ ui' = At("Open", dock.delayed, "Restart") /\ output[dock.delayed].state # "Gone"
        \/ ui' = At("StopFlag", dock.delayed, "Stopping")
        \/ ui' = At("StopFlag", dock.delayed, "Shut")

LEMMA DockBegins ==
  ASSUME BroadcastConstants, TypeOK, DockStep
  PROVE  /\ ui = Idle /\ Begins
         /\ SameRuns /\ SameOwners /\ UNCHANGED <<lifecycle, armed>>
<1> USE DEF sharedVars, uiVars, streamVars, SameRuns, SameOwners, Begins
<1>0. dock.delayed \in Outputs \cup {0}
  BY DEF TypeOK, DockRecord
<1>1. CASE Restart
  BY <1>1 DEF Restart
<1>2. CASE ArmBuffer
  <2>1. NextOf(Fresh) \in Outputs /\ output[NextOf(Fresh)].state # "Gone"
    BY <1>2, Numbers DEF ArmBuffer, Fresh
  <2> QED BY <1>2, <2>1 DEF ArmBuffer, TypeOK, DockRecord
<1>3. CASE StartDelayedOutput
  <2>1. Attached \in Runs
    BY <1>3 DEF StartDelayedOutput, Attached, TypeOK
  <2> HIDE DEF Begins
  <2>2. SameRuns /\ UNCHANGED <<output, ui, dock>> /\ ui = Idle
    BY <1>3, <2>1 DEF StartDelayedOutput, Requested, TypeOK, RunRecord
  <2> QED BY <1>3, <2>2 DEF StartDelayedOutput, Begins
<1>4. CASE AskStop
  BY <1>4 DEF AskStop, TypeOK, DockRecord
<1>5. CASE AnswerNo
  BY <1>5 DEF AnswerNo, TypeOK, DockRecord
<1>6. ASSUME NEW b \in BOOLEAN, StopNow(b), ui = Idle
      PROVE  /\ ui = Idle /\ Begins
             /\ SameRuns /\ SameOwners /\ UNCHANGED <<lifecycle, armed>>
  BY <1>6, <1>0 DEF StopNow, DelayedActive, TypeOK, DockRecord
<1>7. CASE StopDelayedOutput \/ SceneCollectionChanging \/ CheckHealth
  <2>1. \E b \in BOOLEAN : StopNow(b)
    BY <1>7 DEF StopDelayedOutput, SceneCollectionChanging, CheckHealth, TypeOK, DockRecord
  <2>2. ui = Idle
    BY <1>7 DEF StopDelayedOutput, SceneCollectionChanging, CheckHealth
  <2> QED BY <2>1, <2>2, <1>6
<1>8. CASE Shutdown
  BY <1>8, <1>0 DEF Shutdown, TypeOK, DockRecord
<1>9. CASE Settle
  BY <1>9, <1>0 DEF Settle, TypeOK, DockRecord
<1>10. CASE Tick
  BY <1>10 DEF Tick, TypeOK, DockRecord
<1>11. CASE FinishOnUi
  BY <1>11 DEF FinishOnUi, TypeOK, OutputRecord
<1> QED BY <1>1, <1>2, <1>3, <1>4, <1>5, <1>7, <1>8, <1>9, <1>10, <1>11 DEF DockStep

LEMMA DockSession ==
  ASSUME BroadcastConstants, TypeOK, Bonds, DockStep
  PROVE  Bonds'
<1> USE DEF Bonds, SameRuns, SameOwners
<1>0. /\ ui = Idle /\ Begins
      /\ SameRuns /\ SameOwners /\ UNCHANGED <<lifecycle, armed>>
  BY DockBegins
<1>1. /\ \A r \in Runs : Busy(r)' <=> Busy(r)
      /\ dock.delayed \in Outputs \cup {0}
      /\ \A r \in Runs : Busy(r) => run[r].output \in Outputs
  BY <1>0 DEF Busy, TypeOK, DockRecord, Home
<1>2. UiRole'
  <2> USE DEF UiRole, At, Idle, Stopping, Releasing, Starting
  <2>0. dock'.delayed # 0 => output'[dock'.delayed].state # "None"
    BY <1>0, <1>1 DEF Begins
  <2>1. CASE ui' = Idle
    BY <2>0, <2>1
  <2>2. CASE /\ ui' = At("Release", dock.delayed, "Nothing") \/ ui' = At("Release", dock.delayed, "Arm")
             /\ dock.delayed # 0 /\ dock'.delayed = 0
    <3>1. output'[dock.delayed].state # "None"
      BY <2>2, <1>0, <1>1
    <3>2. ui'.at = "Release" /\ ui'.output = dock.delayed
      BY <2>2
    <3> QED BY <2>2, <3>1, <3>2, <1>1
  <2>3. ASSUME NEW o \in Outputs, ui' = At("Open", o, "Arm"), output[o].state # "Gone", dock'.delayed = 0
        PROVE  UiRole'
    BY <2>0, <2>3, <1>0
  <2>4. CASE /\ ui' = At("Open", dock.delayed, "Restart") /\ output[dock.delayed].state # "Gone"
             /\ dock.delayed # 0 /\ dock'.delayed = dock.delayed
    BY <2>0, <2>4, <1>0, <1>1
  <2>5. CASE \/ ui' = At("StopFlag", dock.delayed, "Stopping") \/ ui' = At("StopFlag", dock.delayed, "Shut")
    BY <2>0, <2>5, <1>0, <1>1 DEF Begins
  <2> QED BY <1>0, <2>1, <2>2, <2>3, <2>4, <2>5 DEF Begins
<1>3. Token'
  <2>1. ui'.at \notin {"Prepare", "Spawn"}
    BY <1>0 DEF Begins, At, Idle
  <2> QED BY <1>0, <1>1, <2>1 DEF Token
<1>4. Home'
  <2> SUFFICES ASSUME NEW q \in Runs
               PROVE  /\ run'[q].pc \notin {"None", "Done"} => run'[q].output \in Outputs
                      /\ Busy(q)' => /\ output'[run'[q].output].owner = q
                                     /\ \/ run'[q].output = dock'.delayed
                                        \/ ui'.at # "Idle" /\ run'[q].output = ui'.output
    BY DEF Home
  <2>1. run'[q].pc \notin {"None", "Done"} => run'[q].output \in Outputs
    BY <1>0 DEF Home
  <2>2. ASSUME Busy(q)
        PROVE  run[q].output = dock.delayed /\ dock.delayed # 0 /\ output'[run'[q].output].owner = q
    <3>1. run[q].output \in Outputs /\ output[run[q].output].owner = q /\ run[q].output = dock.delayed
      BY <1>0, <1>1, <2>2 DEF Home, Idle
    <3> QED BY <1>0, <3>1, Numbers
  <2>3. ASSUME Busy(q)
        PROVE  \/ run'[q].output = dock'.delayed
               \/ ui'.at # "Idle" /\ run'[q].output = ui'.output
    <3>1. dock'.delayed = dock.delayed \/ (ui'.at # "Idle" /\ ui'.output = dock.delayed)
      BY <1>0 DEF Begins, At
    <3>2. run'[q].output = run[q].output
      BY <1>0
    <3> QED BY <2>2, <2>3, <3>1, <3>2
  <2> QED BY <2>1, <2>2, <2>3, <1>1
<1>5. ControllerIsMine'
  BY <1>0 DEF ControllerIsMine
<1> QED BY <1>2, <1>3, <1>4, <1>5

\* Steps of the UI thread that leave the workers and the owners alone.
Touches == StopFlag \/ StopAudio \/ StopOwner \/ Release \/ Open \/ Prepare \/ StartAudio
             \/ Capture \/ CaptureRefused

LEMMA UiTouches ==
  ASSUME BroadcastConstants, TypeOK, UiRole, Touches
  PROVE  SameRuns /\ SameOwners /\ armed' = armed
<1> USE DEF sharedVars, uiVars, streamVars, SameRuns, SameOwners
<1>0. ui.output \in Outputs /\ output[ui.output].owner \in Runs \cup {0}
  BY DEF Touches, UiRole, StopFlag, StopAudio, StopOwner, Release, Open, Prepare, StartAudio, Capture,
         CaptureRefused, TypeOK, OutputRecord
<1>1. CASE StopFlag
  BY <1>1, <1>0 DEF StopFlag, TypeOK, OutputRecord
<1>2. CASE StopAudio
  <2>1. SameRuns
    BY SMTT(30), <1>2, <1>0 DEF StopAudio, AfterAudioStop, Latch, TypeOK, RunRecord
  <2> QED BY <1>2, <1>0, <2>1 DEF StopAudio, TypeOK, OutputRecord
<1>3. ASSUME NEW r \in Runs, run' = [run EXCEPT ![r] = StopRequested(@)]
      PROVE  SameRuns
  BY <1>3 DEF StopRequested, TypeOK, RunRecord
<1>4. CASE StopOwner
  <2>1. SameRuns
    BY <1>4, <1>0, <1>3 DEF StopOwner
  <2>2. SameOwners /\ armed' = armed
    BY <1>4, <1>0 DEF StopOwner, TypeOK, OutputRecord
  <2> QED BY <2>1, <2>2
<1>5. CASE Release
  <2>1. SameRuns
    BY <1>5, <1>0, <1>3 DEF Release
  <2>2. SameOwners /\ armed' = armed
    BY <1>5, <1>0 DEF Release, TypeOK, OutputRecord
  <2> QED BY <2>1, <2>2
<1>6. CASE Open
  <2>1. SameRuns
    BY <1>6, <1>0, <1>3 DEF Open
  <2>2. SameOwners /\ armed' = armed
    BY <1>6, <1>0 DEF Open, UiRole, Starting, TypeOK, OutputRecord
  <2> QED BY <2>1, <2>2
<1>7. CASE Prepare
  BY <1>7, <1>0 DEF Prepare, TypeOK, OutputRecord
<1>8. CASE StartAudio
  BY <1>8, <1>0 DEF StartAudio, TypeOK, OutputRecord
<1>9. CASE Capture
  BY SMTT(30), <1>9, <1>0 DEF Capture, UiRole, Starting, TypeOK, OutputRecord
<1>10. CASE CaptureRefused
  <2>1. output[ui.output].owner \in Runs
    BY <1>10, <1>0 DEF CaptureRefused, UiRole
  <2>2. SameRuns
    BY <1>10, <2>1, <1>3 DEF CaptureRefused
  <2>3. SameOwners /\ armed' = armed
    BY SMTT(30), <1>10, <1>0 DEF CaptureRefused, TypeOK, OutputRecord
  <2> QED BY <2>2, <2>3
<1> QED BY <1>1, <1>2, <1>4, <1>5, <1>6, <1>7, <1>8, <1>9, <1>10 DEF Touches

\* What such a step makes of the operation and of the lifecycle.
GoesOn ==
  \/ /\ lifecycle' = lifecycle /\ dock'.delayed = dock.delayed
     /\ \/ ui' = [ui EXCEPT !.at = "StopAudio"] /\ ui.at = "StopFlag"
        \/ ui' = [ui EXCEPT !.at = "StopOwner"] /\ ui.at = "StopAudio"
        \/ ui' = Idle /\ ui.at = "StopOwner"
        \/ ui' = [ui EXCEPT !.at = "Join"] /\ ui.at = "Release"
        \/ ui' = [ui EXCEPT !.at = "Capture"] /\ ui.at = "StartAudio"
        \/ ui' = [ui EXCEPT !.at = "Spawn"] /\ ui.at = "Prepare" /\ Joined(ui.output)
        \/ ui' = Refused(ui.output) /\ ui.at \in {"Open", "StartAudio", "Capture"}
        \/ ui' = Idle /\ ui.at = "Capture" /\ ui.then # "Arm"
  \/ /\ lifecycle' = lifecycle /\ ui.at = "StopOwner" /\ dock'.delayed = 0
     /\ ui' = At("Release", ui.output, "Nothing")
  \/ /\ lifecycle' = lifecycle /\ ui.at = "Capture"
     /\ ui' = Idle /\ dock'.delayed = ui.output
  \/ /\ ~lifecycle /\ lifecycle' /\ dock'.delayed = dock.delayed
     /\ ui.at = "Open" /\ ui' = [ui EXCEPT !.at = "Prepare"]
  \/ /\ ~lifecycle' /\ dock'.delayed = dock.delayed
     /\ ui.at = "Prepare" /\ ui' = Refused(ui.output)

LEMMA UiGoesOn ==
  ASSUME BroadcastConstants, TypeOK, UiRole, Touches
  PROVE  GoesOn /\ (ui.at = "Open" => output'[ui.output].state # "None")
<1> USE DEF sharedVars, uiVars, streamVars, GoesOn
<1>0. ui.output \in Outputs /\ dock \in DockRecord
  BY DEF Touches, UiRole, StopFlag, StopAudio, StopOwner, Release, Open, Prepare, StartAudio, Capture,
         CaptureRefused, TypeOK
<1>1. CASE StopFlag
  BY <1>1 DEF StopFlag
<1>2. CASE StopAudio
  BY <1>2 DEF StopAudio
<1>3. CASE StopOwner
  BY <1>3, <1>0 DEF StopOwner, DockRecord
<1>4. CASE Release
  BY <1>4 DEF Release
<1>5. CASE Open
  BY <1>5, <1>0 DEF Open, TypeOK, OutputRecord
<1>6. CASE Prepare
  BY <1>6 DEF Prepare, TypeOK
<1>7. CASE StartAudio
  BY <1>7 DEF StartAudio
<1>8. CASE Capture
  BY <1>8, <1>0 DEF Capture, DockRecord
<1>9. CASE CaptureRefused
  BY <1>9 DEF CaptureRefused, LifecycleAfterRefusal
<1> QED BY <1>1, <1>2, <1>3, <1>4, <1>5, <1>6, <1>7, <1>8, <1>9 DEF Touches

LEMMA TouchesSession ==
  ASSUME BroadcastConstants, TypeOK, Bonds, Touches
  PROVE  Bonds'
<1> USE DEF Bonds
<1>0. SameRuns /\ SameOwners /\ armed' = armed /\ GoesOn
  BY UiTouches, UiGoesOn
<1>00. ui.at = "Open" => output'[ui.output].state # "None"
  BY UiGoesOn
<1>1. /\ \A r \in Runs : Busy(r)' <=> Busy(r)
      /\ \A r \in Runs : run[r].pc \notin {"None", "Done"} => run[r].output \in Outputs
      /\ \A r \in Runs : Busy(r) => run[r].output \in Outputs /\ output[run[r].output].owner = r
  BY <1>0 DEF Busy, SameRuns, Home
<1>2. ui.at \in UiSteps /\ ui.at # "Idle" /\ ui.output \in Outputs /\ ui \in UiRecord
  BY DEF Touches, UiRole, StopFlag, StopAudio, StopOwner, Release, Open, Prepare, StartAudio, Capture,
         CaptureRefused, TypeOK, UiRecord
<1>3. UiRole'
  <2>1. ui'.at = "Spawn" => Joined(ui.output)'
    <3> SUFFICES ASSUME ui'.at = "Spawn" PROVE Joined(ui.output)'
      OBVIOUS
    <3>1. output[ui.output].owner \in Runs \cup {0}
      BY <1>2 DEF TypeOK, OutputRecord
    <3>2. output'[ui.output].owner = output[ui.output].owner
      BY Zenon, <1>0, <1>2 DEF SameOwners
    <3>3. \A r \in Runs : run'[r].pc = run[r].pc
      BY <1>0 DEF SameRuns
    <3>4. Joined(ui.output) /\ ui'.output = ui.output
      BY <1>0, <1>2 DEF GoesOn, UiRecord, At, Idle, Refused
    <3> QED BY <3>1, <3>2, <3>3, <3>4 DEF Joined
  <2>2. /\ output'[ui.output].owner = output[ui.output].owner
        /\ output'[ui.output].state = "Gone" <=> output[ui.output].state = "Gone"
        /\ output'[ui.output].state # "None"
        /\ dock.delayed # 0 => output'[dock.delayed].state # "None"
    BY Zenon, <1>0, <1>00, <1>2, DockFields DEF SameOwners, UiRole, TypeOK
  <2>3. CASE ui.at \in Stopping
    BY <1>0, <1>2, <2>1, <2>2, <2>3 DEF UiRole, GoesOn, UiRecord, At, Idle, Stopping, Releasing, Starting
  <2>4. CASE ui.at \in Releasing
    BY <1>0, <1>2, <2>1, <2>2, <2>4 DEF UiRole, GoesOn, UiRecord, At, Idle, Stopping, Releasing, Starting
  <2>5. CASE ui.at \in {"Open", "Prepare"}
    BY <1>0, <1>2, <2>1, <2>2, <2>5 DEF UiRole, GoesOn, UiRecord, At, Idle, Refused, Stopping, Releasing, Starting
  <2>6. CASE ui.at \in {"StartAudio", "Capture"}
    BY <1>0, <1>2, <2>1, <2>2, <2>6 DEF UiRole, GoesOn, UiRecord, At, Idle, Refused, Stopping, Releasing, Starting
  <2> QED BY <1>2, <2>3, <2>4, <2>5, <2>6, <1>0 DEF UiSteps, Starting, Touches, StopFlag, StopAudio, StopOwner,
         Release, Open, Prepare, StartAudio, Capture, CaptureRefused, Stopping, Releasing
<1>4. Token'
  <2>1. /\ ui'.at = "Prepare" => ui.at = "Open" /\ ~lifecycle /\ lifecycle'
        /\ ui'.at = "Spawn" => ui.at = "Prepare" /\ lifecycle' = lifecycle
    BY <1>0, <1>2 DEF GoesOn, UiRecord, At, Idle, Refused
  <2>2. ~lifecycle => \A r \in Runs : ~Busy(r)
    BY DEF Token
  <2>3. lifecycle' = lifecycle \/ (\A r \in Runs : ~Busy(r))
    BY <1>0, <2>2 DEF GoesOn, Token
  <2>4. ui'.at \in {"Prepare", "Spawn"} => lifecycle' /\ \A r \in Runs : ~Busy(r)'
    BY <1>1, <2>1, <2>2 DEF Token
  <2>5. \A r \in Runs : Busy(r)' => lifecycle' /\ \A q \in Runs : Busy(q)' => q = r
    <3> SUFFICES ASSUME NEW r \in Runs, Busy(r)'
                 PROVE  lifecycle' /\ \A q \in Runs : Busy(q)' => q = r
      OBVIOUS
    <3>1. Busy(r) /\ lifecycle' = lifecycle
      BY <1>1, <2>3
    <3>2. lifecycle /\ \A q \in Runs : Busy(q) => q = r
      BY <3>1 DEF Token
    <3> QED BY <1>1, <3>1, <3>2
  <2> QED BY <2>4, <2>5 DEF Token
<1>5. Home'
  <2> SUFFICES ASSUME NEW q \in Runs
               PROVE  /\ run'[q].pc \notin {"None", "Done"} => run'[q].output \in Outputs
                      /\ Busy(q)' => /\ output'[run'[q].output].owner = q
                                     /\ \/ run'[q].output = dock'.delayed
                                        \/ ui'.at # "Idle" /\ run'[q].output = ui'.output
    BY DEF Home
  <2>1. run'[q].pc \notin {"None", "Done"} => run'[q].output \in Outputs
    BY <1>0, <1>1 DEF SameRuns
  <2>2. Busy(q)' => output'[run'[q].output].owner = q
    <3>1. run'[q].output = run[q].output /\ (Busy(q)' => Busy(q))
      BY <1>0, <1>1 DEF SameRuns
    <3>2. \A f \in Outputs : output'[f].owner = output[f].owner
      BY <1>0 DEF SameOwners
    <3> QED BY <1>1, <3>1, <3>2
  <2>3. \/ ui'.at # "Idle" /\ ui'.output = ui.output /\ dock'.delayed = dock.delayed
        \/ dock'.delayed = dock.delayed /\ dock.delayed = ui.output
        \/ ui'.at # "Idle" /\ ui'.output = ui.output /\ dock.delayed = ui.output
        \/ dock'.delayed = ui.output /\ dock.delayed \in {0, ui.output}
    BY <1>0, <1>2 DEF GoesOn, UiRole, UiRecord, At, Idle, Refused, Stopping, Starting
  <2>4. Busy(q) => run[q].output # 0 /\ (run[q].output = dock.delayed \/ run[q].output = ui.output)
    BY <1>1, Numbers DEF Home
  <2>5. run'[q].output = run[q].output
    BY <1>0 DEF SameRuns
  <2> QED BY <1>1, <2>1, <2>2, <2>3, <2>4, <2>5
<1>6. ControllerIsMine'
  BY <1>0 DEF ControllerIsMine, SameRuns
<1> QED BY <1>3, <1>4, <1>5, <1>6

\* When an output is freed nobody is busy: its own worker was joined, and no
\* other could be home elsewhere, for the dock holds no output.
LEMMA FreeAlone ==
  ASSUME BroadcastConstants, TypeOK, UiRole, Home, ui.at = "Join", Joined(ui.output)
  PROVE  \A r \in Runs : ~Busy(r)
<1> SUFFICES ASSUME NEW r \in Runs, Busy(r) PROVE FALSE
  OBVIOUS
<1>1. dock.delayed = 0
  BY DEF UiRole, Releasing
<1>2. run[r].output \in Outputs /\ output[run[r].output].owner = r
  BY DEF Home, Busy
<1>3. run[r].output = ui.output
  BY <1>1, <1>2, Numbers DEF Home
<1>4. r # 0
  BY Numbers
<1> QED BY <1>2, <1>3, <1>4 DEF Joined, Busy

LEMMA FreeSession ==
  ASSUME BroadcastConstants, TypeOK, Bonds, Free
  PROVE  Bonds'
<1> USE DEF Bonds
<1> DEFINE o == ui.output
<1>0. /\ ui.at = "Join" /\ o \in Outputs /\ dock.delayed = 0 /\ dock' = dock /\ armed' = armed /\ ~lifecycle'
      /\ output[o].owner \in Runs \cup {0} /\ Joined(o)
  BY DEF Free, UiRole, Releasing, TypeOK, OutputRecord
<1>1. \A r \in Runs : ~Busy(r)
  BY <1>0, FreeAlone
<1>2. \A r \in Runs : run'[r].pc = run[r].pc /\ (run[r].pc # "Done" => run'[r] = run[r])
  <2>1. run' = Freed(output[o].owner)
    BY DEF Free
  <2> QED BY <2>1, <1>0 DEF Freed, NoRun, TypeOK, RunRecord
<1>3. ui' = Idle \/ \E f \in Outputs : ui' = At("Open", f, "Arm") /\ output[f].state = "None"
  BY Numbers DEF Free, Fresh
<1>4. \A f \in Outputs : f # o => output'[f] = output[f]
  BY <1>0 DEF Free, TypeOK
<1>5. UiRole'
  <2>1. CASE ui' = Idle
    BY <1>0, <2>1 DEF UiRole, Idle, Stopping, Releasing, Starting
  <2>2. ASSUME NEW f \in Outputs, ui' = At("Open", f, "Arm"), output[f].state = "None"
        PROVE  UiRole'
    <3>1. output'[f].state # "Gone"
      <4>1. CASE f # o
        BY <2>2, <4>1, <1>4
      <4>2. CASE f = o
        BY <4>2, <2>2, <1>0 DEF UiRole
      <4> QED BY <4>1, <4>2
    <3> QED BY <2>2, <3>1, <1>0 DEF UiRole, At, Stopping, Releasing, Starting
  <2> QED BY <1>3, <2>1, <2>2
<1>6. Token'
  BY <1>1, <1>2, <1>3 DEF Token, Busy, At, Idle
<1>7. Home'
  BY <1>1, <1>2 DEF Home, Busy
<1>8. ControllerIsMine'
  BY <1>0, <1>2 DEF ControllerIsMine
<1> QED BY <1>5, <1>6, <1>7, <1>8

\* The new run, and what Spawn makes of the state.
NewRun(o, p) ==
  [[NoRun EXCEPT !.output = o, !.generation = output[o].generation + 1,
                 !.phase = "Arming", !.stopped = FALSE] EXCEPT !.pc = p]
Owned(x, r, b) == [x EXCEPT !.owner = r, !.active = b, !.generation = x.generation + 1]
Spawned(o, r, b) ==
  /\ run' = [Freed(output[o].owner) EXCEPT ![r] = NewRun(o, IF b THEN "Boot" ELSE "Done")]
  /\ output' = [output EXCEPT ![o] = Owned(@, r, b)]
  /\ ui' = IF b THEN [ui EXCEPT !.at = "StartAudio"] ELSE Refused(o)
  /\ faulty' = IF b THEN faulty \ {output[o].owner} ELSE (faulty \ {output[o].owner}) \cup {r}
  /\ lifecycle' = IF b THEN lifecycle ELSE FALSE
  /\ armed' = r /\ pipeline' = r
  /\ UNCHANGED <<dock, notices, streaming, streams>>

LEMMA SpawnShape ==
  ASSUME BroadcastConstants, TypeOK, UiRole, Spawn
  PROVE  /\ ui.at = "Spawn" /\ ui.output \in Outputs
         /\ output[ui.output].owner \in Runs \cup {0}
         /\ NextOf(Unused) \in Runs /\ run[NextOf(Unused)].pc = "None"
         /\ \E b \in BOOLEAN : Spawned(ui.output, NextOf(Unused), b)
<1> DEFINE o == ui.output
           r == NextOf(Unused)
<1>1. ui.at = "Spawn" /\ o \in Outputs /\ output[o] \in OutputRecord /\ output \in [Outputs -> OutputRecord]
  BY SMTT(30) DEF Spawn, UiRole, TypeOK
<1>2. output[o].owner \in Runs \cup {0} /\ r \in Runs /\ run[r].pc = "None"
  BY Zenon, <1>1, Numbers DEF Spawn, OutputRecord, Unused
<1>4. ASSUME NEW b \in BOOLEAN
      PROVE  [output EXCEPT ![o].owner = r, ![o].active = b, ![o].generation = @ + 1]
               = [output EXCEPT ![o] = Owned(@, r, b)]
  BY SMTT(30), <1>1 DEF Owned, OutputRecord
<1>5. \/ /\ run' = [Freed(output[o].owner) EXCEPT ![r] = NewRun(o, "Boot")]
         /\ output' = [output EXCEPT ![o] = Owned(@, r, TRUE)]
         /\ ui' = [ui EXCEPT !.at = "StartAudio"]
         /\ faulty' = faulty \ {output[o].owner} /\ UNCHANGED lifecycle
      \/ /\ run' = [Freed(output[o].owner) EXCEPT ![r] = NewRun(o, "Done")]
         /\ output' = [output EXCEPT ![o] = Owned(@, r, FALSE)]
         /\ ui' = Refused(o)
         /\ lifecycle' = FALSE /\ faulty' = (faulty \ {output[o].owner}) \cup {r}
  BY Zenon, <1>4 DEF Spawn, NewRun
<1>6. UNCHANGED <<dock, notices, streaming, streams>> /\ armed' = r /\ pipeline' = r
  BY DEF Spawn, streamVars
<1>7. Spawned(o, r, TRUE) \/ Spawned(o, r, FALSE)
  BY <1>5, <1>6 DEF Spawned
<1> QED BY <1>1, <1>2, <1>7

LEMMA SpawnSession ==
  ASSUME BroadcastConstants, TypeOK, Bonds, Spawn
  PROVE  Bonds'
<1> USE DEF Bonds
<1> DEFINE o == ui.output
           r == NextOf(Unused)
<1>00. PICK b \in BOOLEAN : Spawned(o, r, b)
  BY SpawnShape
<1>0. /\ ui.at = "Spawn" /\ o \in Outputs /\ dock' = dock /\ armed' = r /\ lifecycle /\ (lifecycle' <=> b)
      /\ \A q \in Runs : ~Busy(q)
      /\ output[o].owner \in Runs \cup {0}
      /\ r \in Runs /\ run[r].pc = "None"
  <2>1. lifecycle /\ \A q \in Runs : ~Busy(q)
    BY DEF Spawn, Token
  <2> QED BY <1>00, <2>1, SpawnShape DEF Spawned
<1>1. /\ \A q \in Runs : q # r => run'[q].pc = run[q].pc /\ (run[q].pc # "Done" => run'[q] = run[q])
      /\ run'[r].output = o
      /\ run'[r].pc = IF b THEN "Boot" ELSE "Done"
  <2>1. Freed(output[o].owner) \in [Runs -> RunRecord]
    BY <1>0, RunTypes
  <2>2. \A q \in Runs : /\ Freed(output[o].owner)[q].pc = run[q].pc
                        /\ run[q].pc # "Done" => Freed(output[o].owner)[q] = run[q]
    BY <1>0 DEF Freed, NoRun, TypeOK, RunRecord
  <2>3. run' = [Freed(output[o].owner) EXCEPT ![r] = NewRun(o, IF b THEN "Boot" ELSE "Done")]
    BY <1>00 DEF Spawned
  <2>4. \A p : NewRun(o, p).output = o /\ NewRun(o, p).pc = p
    BY DEF NewRun, NoRun
  <2>5. run'[r] = NewRun(o, IF b THEN "Boot" ELSE "Done")
    BY <2>1, <2>3, <1>0
  <2>6. \A q \in Runs : q # r => run'[q] = Freed(output[o].owner)[q]
    BY <2>1, <2>3
  <2>7. \A q \in Runs : q # r => run'[q].pc = run[q].pc /\ (run[q].pc # "Done" => run'[q] = run[q])
    BY <2>2, <2>6
  <2>8. run'[r].output = o
    BY <2>4, <2>5
  <2>9. run'[r].pc = IF b THEN "Boot" ELSE "Done"
    BY <2>4, <2>5
  <2> QED BY <2>7, <2>8, <2>9
<1>2. \A q \in Runs : Busy(q)' => q = r /\ b
  BY <1>0, <1>1 DEF Busy
<1>3. output'[o].owner = r /\ output'[o].state = output[o].state
  BY <1>00, <1>0 DEF Spawned, Owned, TypeOK, OutputRecord
<1>4. ui' = IF b THEN [ui EXCEPT !.at = "StartAudio"] ELSE Refused(o)
  BY <1>00 DEF Spawned
<1>5. ui \in UiRecord /\ r # 0
  BY <1>0, Numbers DEF TypeOK
<1>6. UiRole'
  BY <1>0, <1>3, <1>4, <1>5 DEF UiRole, UiRecord, Refused, At, Idle, Stopping, Releasing, Starting
<1>7. Token'
  <2>1. ui'.at \notin {"Prepare", "Spawn"}
    BY <1>4, <1>5 DEF UiRecord, Refused, At, Idle
  <2> QED BY <1>0, <1>2, <2>1 DEF Token
<1>8. Home'
  <2> SUFFICES ASSUME NEW q \in Runs
               PROVE  /\ run'[q].pc \notin {"None", "Done"} => run'[q].output \in Outputs
                      /\ Busy(q)' => /\ output'[run'[q].output].owner = q
                                     /\ \/ run'[q].output = dock'.delayed
                                        \/ ui'.at # "Idle" /\ run'[q].output = ui'.output
    BY DEF Home
  <2>1. run'[q].pc \notin {"None", "Done"} => run'[q].output \in Outputs
    BY <1>0, <1>1 DEF Home
  <2>2. ASSUME Busy(q)'
        PROVE  output'[run'[q].output].owner = q /\ ui'.at # "Idle" /\ run'[q].output = ui'.output
    <3>1. q = r /\ b
      BY <1>2, <2>2
    <3> QED BY <3>1, <1>1, <1>3, <1>4, <1>5 DEF UiRecord
  <2> QED BY <2>1, <2>2
<1>9. ControllerIsMine'
  <2> SUFFICES ASSUME NEW q \in Runs, run'[q].pc \in InLoop \cup {"Boot", "Teardown"}
               PROVE  q = r
    BY <1>0 DEF ControllerIsMine
  <2> QED BY <1>2 DEF Busy, InLoop
<1> QED BY <1>6, <1>7, <1>8, <1>9

LEMMA SessionInit ==
  ASSUME BroadcastConstants, Init
  PROVE  SessionInv
<1>1. TypeOK
  <2>1. NoOutput \in OutputRecord /\ NoRun \in RunRecord
    BY DEF NoOutput, NoRun, OutputRecord, RunRecord, WorkerPcs, Phases
  <2>2. /\ Idle \in UiRecord
        /\ [delayed |-> 0, flow |-> "Stopped", armable |-> TRUE, asking |-> FALSE, shut |-> FALSE] \in DockRecord
    BY DEF Idle, UiRecord, UiSteps, DockRecord
  <2>3. <<>> \in Seq(Notice)
    BY EmptySeq
  <2> QED BY <2>1, <2>2, <2>3 DEF Init, TypeOK
<1>2. UiRole /\ Token /\ Home /\ ControllerIsMine
  BY DEF Init, UiRole, Token, Home, Busy, ControllerIsMine, NoRun, Idle, Stopping, Releasing, Starting, InLoop
<1> QED BY <1>1, <1>2 DEF SessionInv

LEMMA SessionStep ==
  ASSUME BroadcastConstants, SessionInv, [Next]_vars
  PROVE  SessionInv'
<1> USE DEF SessionInv, Bonds
<1>1. CASE UiStep
  <2>1. TypeOK'
    BY <1>1, UiTypes
  <2>2. Touches \/ Free \/ Spawn
    BY <1>1 DEF UiStep, Touches
  <2> QED BY <2>1, <2>2, TouchesSession, FreeSession, SpawnSession
<1>2. CASE DockStep
  BY <1>2, DockTypes, DockSession
<1>3. ASSUME NEW r \in Runs, Worker(r) PROVE SessionInv'
  BY <1>3, WorkerTypes, WorkerSession
<1>4. CASE Around
  BY <1>4, AroundTypes, AroundSession
<1>5. CASE UNCHANGED vars
  BY <1>5 DEF vars, TypeOK, UiRole, Joined, Token, Home, Busy, ControllerIsMine
<1> QED BY <1>1, <1>2, <1>3, <1>4, <1>5 DEF Next, DockStep, Around

\* The delay controller and the lifecycle are one run's at a time: owners of
\* the output, however they follow each other, fail or are restarted, never
\* overlap in the session (consumers.active, PipelineOwner::start and run).
THEOREM RunsStayApart == Spec => []RunsDoNotOverlap
<1>1. SessionInv => RunsDoNotOverlap
  BY DEF SessionInv, RunsDoNotOverlap, OneLifecycle, Token, Busy
<1> QED BY <1>1, SessionInit, SessionStep, BroadcastConstants, PTL DEF Spec

-----------------------------------------------------------------------------
\* No failure without a cause.

LEMMA QuietUi ==
  ASSUME BroadcastConstants, TypeOK, UiRole, QuietInv, UiStep
  PROVE  QuietEnd'
<1> USE DEF sharedVars, uiVars, streamVars, QuietInv, QuietEnd
<1>0. ui.output \in Outputs /\ output[ui.output].owner \in Runs \cup {0}
  BY Zenon DEF UiStep, UiRole, StopFlag, StopAudio, StopOwner, Release, Free, Open, Prepare, Spawn, StartAudio,
         Capture, CaptureRefused, TypeOK, OutputRecord
<1>1. ASSUME NEW r \in Runs, run' = [run EXCEPT ![r] = StopRequested(@)], faulty' = faulty
      PROVE  QuietEnd'
  BY <1>1 DEF StopRequested, TypeOK, RunRecord
<1>2. ASSUME run' = run, faulty' = faulty
      PROVE  QuietEnd'
  BY <1>2
<1>3. CASE StopFlag \/ Prepare \/ StartAudio \/ Capture
  BY <1>2, <1>3 DEF StopFlag, Prepare, StartAudio, Capture
<1>4. CASE StopAudio
  BY SMTT(30), <1>2, <1>4 DEF StopAudio, AfterAudioStop
<1>5. CASE StopOwner
  BY ZenonT(60), <1>0, <1>1, <1>2, <1>5 DEF StopOwner
<1>6. CASE Release
  BY <1>0, <1>1, <1>2, <1>6 DEF Release
<1>7. CASE Open
  BY <1>0, <1>1, <1>2, <1>7 DEF Open
<1>8. CASE CaptureRefused
  <2>1. output[ui.output].owner \in Runs
    BY <1>0, <1>8 DEF CaptureRefused, UiRole
  <2> QED BY <2>1, <1>1, <1>8 DEF CaptureRefused
\* A freed run leaves the history with what it reported.
<1>9. ASSUME Joined(ui.output), NEW q \in Runs, q \notin faulty \ {output[ui.output].owner}
      PROVE  ~Freed(output[ui.output].owner)[q].failed /\ ~Freed(output[ui.output].owner)[q].error
  BY <1>0, <1>9, Numbers DEF Joined, Freed, NoRun, TypeOK, RunRecord
<1>10. CASE Free
  BY <1>9, <1>10 DEF Free
<1>11. CASE Spawn
  <2> DEFINE r == NextOf(Unused)
             o == ui.output
  <2>1. PICK b \in BOOLEAN : Spawned(o, r, b)
    BY SMTT(30), <1>11, SpawnShape
  <2>2. Joined(o) /\ r \in Runs
    BY <1>11, SpawnShape DEF UiRole, Spawn
  <2>3. Freed(output[o].owner) \in [Runs -> RunRecord]
    BY <1>0, RunTypes
  <2>4. \A p : ~NewRun(o, p).failed /\ ~NewRun(o, p).error
    BY DEF NewRun, NoRun
  <2>5. run' = [Freed(output[o].owner) EXCEPT ![r] = NewRun(o, IF b THEN "Boot" ELSE "Done")]
    BY <2>1 DEF Spawned
  <2>6. \A q \in Runs : q \notin faulty' => q \notin faulty \ {output[o].owner}
    BY <2>1 DEF Spawned
  <2> SUFFICES ASSUME NEW q \in Runs, q \notin faulty'
               PROVE  ~run'[q].failed /\ ~run'[q].error
    OBVIOUS
  <2>7. CASE q = r
    BY <2>2, <2>3, <2>4, <2>5, <2>7
  <2>8. CASE q # r
    <3>1. run'[q] = Freed(output[o].owner)[q]
      BY <2>3, <2>5, <2>8
    <3> QED BY <3>1, <2>2, <2>6, <1>9
  <2> QED BY <2>7, <2>8
<1> QED BY SMTT(30), <1>3, <1>4, <1>5, <1>6, <1>7, <1>8, <1>10, <1>11 DEF UiStep

LEMMA QuietWorker ==
  ASSUME BroadcastConstants, TypeOK, ControllerIsMine, QuietEnd, NEW r \in Runs, Worker(r)
  PROVE  QuietEnd'
<1> USE DEF sharedVars, uiVars, streamVars, QuietEnd, TypeOK
<1>1. ASSUME NEW p, Goto(r, p), faulty' = faulty
      PROVE  QuietEnd'
  BY <1>1 DEF Goto, RunRecord
<1>2. ASSUME Throws(r), r \in faulty', faulty \subseteq faulty'
      PROVE  QuietEnd'
  BY <1>2 DEF Throws
<1>3. CASE Boot(r)
  BY <1>1, <1>2, <1>3 DEF Boot
<1>4. CASE Turn(r)
  <2>1. run[r].failed => r \in faulty
    OBVIOUS
  <2> QED BY <1>1, <1>2, <1>4, <2>1 DEF Turn
<1>5. CASE OffAir(r)
  BY <1>5 DEF OffAir, RunRecord
<1>6. CASE Connect(r)
  <2>1. CASE run' = [run EXCEPT ![r].network = "Starting", ![r].pc = "Launch"] /\ faulty' = faulty
    BY <2>1 DEF RunRecord
  <2> QED BY <1>1, <1>2, <1>6, <2>1 DEF Connect
<1>7. CASE Launch(r)
  <2>1. armed # 0
    BY <1>7, Numbers DEF Launch, ControllerIsMine, InLoop
  <2>2. run[r].failed => r \in faulty
    OBVIOUS
  <2>3. CASE /\ run' = [run EXCEPT ![r].coordinator = TRUE, ![r].phase = "Connecting", ![r].pc = "Pace"]
             /\ faulty' = faulty
    BY <2>3 DEF RunRecord
  <2> QED BY <1>1, <1>2, <1>7, <2>1, <2>2, <2>3 DEF Launch
<1>8. CASE Pace(r)
  BY <1>8 DEF Pace, RunRecord
<1>9. CASE Teardown(r)
  BY <1>9 DEF Teardown, RunRecord
<1>10. CASE Publish(r)
  BY <1>10 DEF Publish, RunRecord
<1>11. CASE Finish(r) \/ FinishLifecycle(r) \/ FinishNotice(r)
  BY <1>1, <1>11 DEF Finish, FinishLifecycle, FinishNotice
<1> QED BY <1>3, <1>4, <1>5, <1>6, <1>7, <1>8, <1>9, <1>10, <1>11 DEF Worker

LEMMA QuietAround ==
  ASSUME BroadcastConstants, TypeOK, QuietEnd, Around
  PROVE  QuietEnd'
<1> USE DEF sharedVars, uiVars, streamVars, QuietEnd, TypeOK
<1>1. CASE StreamStarts \/ StreamSeen \/ StreamEnds
  BY <1>1 DEF StreamStarts, StreamSeen, StreamEnds
<1>2. ASSUME NEW o \in Outputs, EndCapture(o) PROVE QuietEnd'
  BY <1>2 DEF EndCapture
<1>3. ASSUME NEW o \in Outputs, OutputPacketNull(o) PROVE QuietEnd'
  BY <1>3 DEF OutputPacketNull
<1>4. ASSUME NEW r \in Runs, HoldingFails(r) PROVE QuietEnd'
  BY <1>4 DEF HoldingFails
<1>5. ASSUME NEW r \in Runs, NetworkUp(r) PROVE QuietEnd'
  BY <1>5 DEF NetworkUp, RunRecord
<1>6. ASSUME NEW r \in Runs, Delivered(r) PROVE QuietEnd'
  BY <1>6 DEF Delivered, RunRecord
<1>7. ASSUME NEW r \in Runs, SenderFails(r) PROVE QuietEnd'
  BY <1>7 DEF SenderFails
<1> QED BY <1>1, <1>2, <1>3, <1>4, <1>5, <1>6, <1>7 DEF Around

\* The mark of the output the UI thread is stopping stays cleared.
LEMMA StopAudioQuiet ==
  ASSUME BroadcastConstants, TypeOK, UiRole, QuietInv, [Next]_vars, ui'.at = "StopAudio"
  PROVE  ~output'[ui'.output].active
<1> USE DEF sharedVars, uiVars, streamVars, TypeOK
<1>1. CASE StopFlag
  BY SMTT(30), <1>1 DEF StopFlag, UiRole, Unmarked, OutputRecord, UiRecord
<1>2. CASE UiStep /\ ~StopFlag
  BY SMTT(60), <1>2 DEF UiStep, StopAudio, StopOwner, Release, Free, Open, Prepare, Spawn, StartAudio, Capture,
              CaptureRefused, Refused, UiRecord, At, Idle
<1>3. CASE DockStep
  <2>1. Begins
    BY <1>3, DockBegins
  <2> QED BY <2>1 DEF Begins, At, Idle
<1>4. ASSUME ui' = ui, \A o \in Outputs : output'[o].active => output[o].active
      PROVE  ~output'[ui'.output].active
  BY <1>4 DEF QuietInv, UiRole
<1>5. ASSUME NEW r \in Runs, Worker(r)
      PROVE  ui' = ui /\ \A o \in Outputs : output'[o].active => output[o].active
  <2>1. CASE Finish(r)
    BY <2>1 DEF Finish, OutputRecord
  <2>2. CASE ~Finish(r)
    BY <1>5, <2>2 DEF Worker, Boot, Turn, OffAir, Connect, Launch, Pace, Teardown, Publish, FinishLifecycle,
                      FinishNotice
  <2> QED BY <2>1, <2>2
<1>6. CASE Around
  <2>1. ui' = ui
    BY <1>6 DEF Around, StreamStarts, StreamSeen, StreamEnds, EndCapture, OutputPacketNull, HoldingFails,
                NetworkUp, Delivered, SenderFails
  <2>2. ASSUME NEW o \in Outputs, EndCapture(o)
        PROVE  \A f \in Outputs : output'[f].active => output[f].active
    BY <2>2 DEF EndCapture, OutputRecord
  <2>3. output' = output \/ \E o \in Outputs : EndCapture(o)
    BY <1>6 DEF Around, StreamStarts, StreamSeen, StreamEnds, OutputPacketNull, HoldingFails,
                NetworkUp, Delivered, SenderFails
  <2> QED BY <2>1, <2>2, <2>3, <1>4
<1>7. CASE UNCHANGED vars
  BY <1>7, <1>4 DEF vars
<1> QED BY <1>1, <1>2, <1>3, <1>4, <1>5, <1>6, <1>7 DEF Next, UiStep, DockStep, Around

LEMMA QuietStep ==
  ASSUME BroadcastConstants, SessionInv, QuietInv, [Next]_vars
  PROVE  QuietInv'
<1> USE DEF SessionInv
<1>1. QuietEnd'
  <2> USE DEF QuietInv
  <2>1. CASE UiStep
    BY <2>1, QuietUi
  <2>2. CASE DockStep
    <3>1. faulty' = faulty
      BY <2>2 DEF DockStep, Restart, ArmBuffer, StartDelayedOutput, AskStop, AnswerNo, StopDelayedOutput,
           SceneCollectionChanging, StopNow, Shutdown, Settle, Tick, CheckHealth, FinishOnUi
    <3>2. run' = run \/ StartDelayedOutput
      BY <2>2 DEF DockStep, Restart, ArmBuffer, AskStop, AnswerNo, StopDelayedOutput,
           SceneCollectionChanging, StopNow, Shutdown, Settle, Tick, CheckHealth, FinishOnUi
    <3>3. CASE StartDelayedOutput
      BY <3>1, <3>3 DEF StartDelayedOutput, Requested, QuietEnd, TypeOK, RunRecord
    <3> QED BY <3>1, <3>2, <3>3 DEF QuietEnd
  <2>3. ASSUME NEW r \in Runs, Worker(r) PROVE QuietEnd'
    BY <2>3, QuietWorker
  <2>4. CASE Around
    BY <2>4, QuietAround
  <2>5. CASE UNCHANGED vars
    BY <2>5 DEF vars, QuietEnd
  <2> QED BY <2>1, <2>2, <2>3, <2>4, <2>5 DEF Next, DockStep, Around
<1>2. ui'.at = "StopAudio" => ~output'[ui'.output].active
  BY StopAudioQuiet
<1> QED BY <1>1, <1>2 DEF QuietInv

\* A run in which nothing failed ends without a failure, whoever stops it and
\* when (output_stop, audio_stop and PipelineOwner::run).
THEOREM EndsAreQuiet == Spec => []QuietEnd
<1>1. Init => QuietInv
  BY DEF Init, QuietInv, QuietEnd, NoRun, Idle
<1>2. QuietInv => QuietEnd
  BY DEF QuietInv
<1> QED BY <1>1, <1>2, SessionInit, SessionStep, QuietStep, BroadcastConstants, PTL DEF Spec

-----------------------------------------------------------------------------
\* OBS's own stream.

Airborne(w) == ~w.stopped /\ ~w.failed /\ w.phase \in {"Connecting", "Broadcasting"}
\* A run's record after a step: still shown, and not on air from the ground.
Keeps(w, v) == Shows(v) /\ (Airborne(v) => Airborne(w))

LEMMA RecordsKeep ==
  ASSUME BroadcastConstants, TypeOK, Shown
  PROVE  /\ \A r \in Runs : /\ Keeps(run[r], run[r])
                           /\ Keeps(run[r], StopRequested(run[r])) /\ Keeps(run[r], Latch(run[r]))
         /\ \A q \in Runs \cup {0}, r \in Runs : Keeps(run[r], Freed(q)[r])
<1>1. ASSUME NEW r \in Runs
      PROVE  Keeps(run[r], run[r]) /\ Keeps(run[r], StopRequested(run[r])) /\ Keeps(run[r], Latch(run[r]))
  BY DEF Keeps, Shown, Shows, Airborne, StopRequested, Latch, TypeOK, RunRecord
<1>2. \A w : Keeps(w, [NoRun EXCEPT !.pc = "Done"])
  BY DEF Keeps, Shows, Airborne, NoRun
<1>3. ASSUME NEW q \in Runs \cup {0}, NEW r \in Runs
      PROVE  Keeps(run[r], Freed(q)[r])
  <2>1. Freed(q)[r] = run[r] \/ Freed(q)[r] = [NoRun EXCEPT !.pc = "Done"]
    BY DEF Freed, TypeOK
  <2> QED BY <1>1, <1>2, <2>1
<1> QED BY <1>1, <1>3

LEMMA UiKeeps ==
  ASSUME BroadcastConstants, TypeOK, UiRole, Shown, UiStep
  PROVE  \A r \in Runs : Keeps(run[r], run'[r])
<1> USE DEF sharedVars, uiVars, streamVars
<1>0. ui.output \in Outputs /\ output[ui.output].owner \in Runs \cup {0} /\ run \in [Runs -> RunRecord]
  BY Zenon DEF UiStep, UiRole, StopFlag, StopAudio, StopOwner, Release, Free, Open, Prepare, Spawn, StartAudio,
         Capture, CaptureRefused, TypeOK, OutputRecord
<1>1. ASSUME NEW q \in Runs, run' = [run EXCEPT ![q] = StopRequested(@)]
      PROVE  \A r \in Runs : Keeps(run[r], run'[r])
  BY <1>0, <1>1, RecordsKeep
<1>2. CASE run' = run
  BY <1>2, RecordsKeep
<1>3. CASE StopFlag \/ Prepare \/ StartAudio \/ Capture
  BY <1>2, <1>3 DEF StopFlag, Prepare, StartAudio, Capture
<1>4. CASE StopAudio
  <2>1. run' = run \/ \E q \in Runs : run' = [run EXCEPT ![q] = Latch(@)]
    BY <1>0, <1>4 DEF StopAudio, AfterAudioStop
  <2> QED BY <1>0, <2>1, RecordsKeep
<1>5. CASE StopOwner
  BY <1>0, <1>1, <1>2, <1>5 DEF StopOwner
<1>6. CASE Release
  BY <1>0, <1>1, <1>2, <1>6 DEF Release
<1>7. CASE Open
  BY <1>0, <1>1, <1>2, <1>7 DEF Open
<1>8. CASE CaptureRefused
  <2>1. output[ui.output].owner \in Runs
    BY <1>0, <1>8 DEF CaptureRefused, UiRole
  <2> QED BY <2>1, <1>1, <1>8 DEF CaptureRefused
<1>9. CASE Free
  BY <1>0, <1>9, RecordsKeep DEF Free
<1>10. CASE Spawn
  <2> DEFINE r == NextOf(Unused)
             o == ui.output
  <2>1. PICK b \in BOOLEAN : Spawned(o, r, b)
    BY <1>10, SpawnShape
  <2>2. Freed(output[o].owner) \in [Runs -> RunRecord]
    BY <1>0, RunTypes
  <2>3. Keeps(run[r], NewRun(o, "Boot")) /\ Keeps(run[r], NewRun(o, "Done"))
    BY DEF Keeps, Shows, Airborne, NewRun, NoRun
  <2>4. run' = [Freed(output[o].owner) EXCEPT ![r] = NewRun(o, IF b THEN "Boot" ELSE "Done")]
    BY <2>1 DEF Spawned
  <2>5. run' = [Freed(output[o].owner) EXCEPT ![r] = NewRun(o, "Boot")]
        \/ run' = [Freed(output[o].owner) EXCEPT ![r] = NewRun(o, "Done")]
    BY <2>4
  <2> SUFFICES ASSUME NEW q \in Runs PROVE Keeps(run[q], run'[q])
    OBVIOUS
  <2>6. CASE q = r
    BY <2>2, <2>3, <2>5, <2>6
  <2>7. CASE q # r
    <3>1. run'[q] = Freed(output[o].owner)[q]
      BY <2>2, <2>4, <2>7
    <3> QED BY <3>1, <1>0, RecordsKeep
  <2> QED BY <2>6, <2>7
<1> QED BY SMTT(30), <1>3, <1>4, <1>5, <1>6, <1>7, <1>8, <1>9, <1>10 DEF UiStep

LEMMA WorkerKeeps ==
  ASSUME BroadcastConstants, TypeOK, Shown, NEW r \in Runs, Worker(r)
  PROVE  \A q \in Runs : Keeps(run[q], run'[q])
<1> USE DEF sharedVars, uiVars, streamVars
<1>0. /\ run \in [Runs -> RunRecord] /\ run[r] \in RunRecord /\ Shows(run[r])
      /\ \A q \in Runs : Keeps(run[q], run[q])
  BY RecordsKeep DEF TypeOK, Shown
<1>1. ASSUME NEW w, run' = [run EXCEPT ![r] = w], Keeps(run[r], w)
      PROVE  \A q \in Runs : Keeps(run[q], run'[q])
  BY <1>0, <1>1
<1>2. ASSUME NEW p, Goto(r, p), p = "Publish" => run[r].stopping,
             p \in {"Connect", "Launch", "Pace"} => run[r].requested
      PROVE  \A q \in Runs : Keeps(run[q], run'[q])
  <2>1. Keeps(run[r], [run[r] EXCEPT !.pc = p])
    BY <1>0, <1>2 DEF Keeps, Shows, Airborne, RunRecord
  <2> QED BY <1>1, <1>2, <2>1 DEF Goto
<1>3. ASSUME Throws(r)
      PROVE  \A q \in Runs : Keeps(run[q], run'[q])
  <2>1. Keeps(run[r], [run[r] EXCEPT !.pc = "Teardown", !.error = TRUE])
    BY <1>0 DEF Keeps, Shows, Airborne, RunRecord
  <2> QED BY <1>1, <1>3, <2>1 DEF Throws
<1>4. CASE Boot(r)
  BY <1>2, <1>3, <1>4 DEF Boot
<1>5. CASE Turn(r)
  <2>1. run[r].coordinator => run[r].requested
    BY <1>0 DEF Shows
  <2> QED BY <1>2, <1>3, <1>5, <2>1 DEF Turn
<1>6. CASE OffAir(r)
  <2>1. CASE ~run[r].requested
    <3>1. Keeps(run[r], [run[r] EXCEPT !.phase = "Filling", !.pc = "Turn"])
      BY <1>0, <2>1 DEF Keeps, Shows, Airborne, RunRecord
    <3> QED BY <1>1, <1>6, <2>1, <3>1 DEF OffAir
  <2>2. CASE run[r].requested
    <3>1. Goto(r, "Connect") \/ Goto(r, "Launch")
      BY <1>6, <2>2 DEF OffAir, Goto
    <3> QED BY <1>2, <2>2, <3>1
  <2> QED BY <2>1, <2>2
<1>7. CASE Connect(r)
  <2>1. Keeps(run[r], [run[r] EXCEPT !.network = "Starting", !.pc = "Launch"])
    BY <1>0, <1>7 DEF Keeps, Shows, Airborne, RunRecord, Connect
  <2> QED BY <1>1, <1>2, <1>3, <1>7, <2>1 DEF Connect
<1>8. CASE Launch(r)
  <2>1. CASE run' = [run EXCEPT ![r].coordinator = TRUE, ![r].phase = "Connecting", ![r].pc = "Pace"]
             /\ ~run[r].stopping
    <3>1. Keeps(run[r], [run[r] EXCEPT !.coordinator = TRUE, !.phase = "Connecting", !.pc = "Pace"])
      BY <1>0, <1>8, <2>1 DEF Keeps, Shows, Airborne, RunRecord, Launch
    <3> QED BY <1>1, <2>1, <3>1
  <2> QED BY <1>2, <1>3, <1>8, <2>1 DEF Launch
<1>9. CASE Pace(r)
  <2>1. CASE run[r].delivered /\ ~run[r].stopping
    <3>1. Keeps(run[r], [run[r] EXCEPT !.pc = "Turn", !.phase = "Broadcasting"])
      BY <1>0, <1>9, <2>1 DEF Keeps, Shows, Airborne, RunRecord, Pace
    <3> QED BY <1>1, <1>9, <2>1, <3>1 DEF Pace
  <2>2. CASE ~(run[r].delivered /\ ~run[r].stopping)
    <3>1. Keeps(run[r], [run[r] EXCEPT !.pc = "Turn", !.phase = run[r].phase])
      BY <1>0 DEF Keeps, Shows, Airborne, RunRecord
    <3> QED BY <1>1, <1>9, <2>2, <3>1 DEF Pace
  <2> QED BY <2>1, <2>2
<1>10. CASE Teardown(r)
  <2>1. Keeps(run[r], [run[r] EXCEPT !.stopping = TRUE, !.network = "Stopped", !.pc = "Publish"])
    BY <1>0 DEF Keeps, Shows, Airborne, RunRecord
  <2> QED BY <1>1, <1>10, <2>1 DEF Teardown
<1>11. CASE Publish(r)
  <2>1. ASSUME NEW h
        PROVE  Keeps(run[r], [run[r] EXCEPT !.stopped = TRUE, !.pc = "Finish", !.phase = h])
    BY <1>0, <1>11 DEF Keeps, Shows, Airborne, RunRecord, Publish
  <2> QED BY Zenon, <1>1, <1>11, <2>1 DEF Publish
<1>12. CASE Finish(r) \/ FinishLifecycle(r) \/ FinishNotice(r)
  BY <1>2, <1>12 DEF Finish, FinishLifecycle, FinishNotice
<1> QED BY <1>4, <1>5, <1>6, <1>7, <1>8, <1>9, <1>10, <1>11, <1>12 DEF Worker

LEMMA AroundKeeps ==
  ASSUME BroadcastConstants, TypeOK, Shown, Around
  PROVE  \A r \in Runs : Keeps(run[r], run'[r])
<1> USE DEF sharedVars, uiVars, streamVars
<1>0. run \in [Runs -> RunRecord] /\ \A r \in Runs : Shows(run[r]) /\ Keeps(run[r], run[r])
  BY RecordsKeep DEF TypeOK, Shown
<1>1. ASSUME NEW q \in Runs, NEW w, run' = [run EXCEPT ![q] = w], Keeps(run[q], w)
      PROVE  \A r \in Runs : Keeps(run[r], run'[r])
  BY <1>0, <1>1
<1>2. CASE run' = run
  BY <1>0, <1>2
<1>3. ASSUME NEW o \in Outputs, OutputPacketNull(o)
      PROVE  \A r \in Runs : Keeps(run[r], run'[r])
  <2>1. output[o].owner \in Runs
    BY <1>3 DEF OutputPacketNull, TypeOK, OutputRecord
  <2> QED BY <1>1, <1>3, <2>1, RecordsKeep DEF OutputPacketNull
<1>4. ASSUME NEW r \in Runs, HoldingFails(r) PROVE \A q \in Runs : Keeps(run[q], run'[q])
  BY <1>1, <1>4, RecordsKeep DEF HoldingFails
<1>5. ASSUME NEW r \in Runs, NetworkUp(r) PROVE \A q \in Runs : Keeps(run[q], run'[q])
  <2>1. Keeps(run[r], [run[r] EXCEPT !.network = "Running"])
    BY <1>0 DEF Keeps, Shows, Airborne, RunRecord
  <2> QED BY <1>1, <1>5, <2>1 DEF NetworkUp
<1>6. ASSUME NEW r \in Runs, Delivered(r) PROVE \A q \in Runs : Keeps(run[q], run'[q])
  <2>1. Keeps(run[r], [run[r] EXCEPT !.delivered = TRUE])
    BY <1>0 DEF Keeps, Shows, Airborne, RunRecord
  <2> QED BY <1>1, <1>6, <2>1 DEF Delivered
<1>7. ASSUME NEW r \in Runs, SenderFails(r) PROVE \A q \in Runs : Keeps(run[q], run'[q])
  <2>1. Keeps(run[r], [Latch(run[r]) EXCEPT !.network = "Failed"])
    BY <1>0 DEF Keeps, Shows, Airborne, Latch, RunRecord
  <2> QED BY <1>1, <1>7, <2>1 DEF SenderFails, SenderFailure
<1> QED BY <1>2, <1>3, <1>4, <1>5, <1>6, <1>7 DEF Around, StreamStarts, StreamSeen, StreamEnds, EndCapture

\* The dock's steps keep the runs too, but for the one that asks for the
\* broadcast, and that is refused while OBS streams.
LEMMA DockKeeps ==
  ASSUME BroadcastConstants, TypeOK, Shown, DockStep
  PROVE  /\ Shown'
         /\ streaming.on => \A r \in Runs : Keeps(run[r], run'[r])
<1> USE DEF sharedVars, uiVars, streamVars
<1>1. CASE StartDelayedOutput
  <2>1. Attached \in Runs /\ run \in [Runs -> RunRecord] /\ streaming' = streaming /\ ~streaming.on
    BY <1>1 DEF StartDelayedOutput, Attached, TypeOK
  <2>2. Shows(Requested(run[Attached]))
    BY <2>1 DEF Shown, Shows, Requested, RunRecord
  <2>3. Shown'
    BY <1>1, <2>1, <2>2 DEF StartDelayedOutput, Shown
  <2> QED BY <2>1, <2>3
<1>2. CASE ~StartDelayedOutput
  <2>1. run' = run
    BY <1>2 DEF DockStep, Restart, ArmBuffer, AskStop, AnswerNo, StopDelayedOutput,
         SceneCollectionChanging, StopNow, Shutdown, Settle, Tick, CheckHealth, FinishOnUi
  <2> QED BY <2>1, RecordsKeep DEF Shown
<1> QED BY <1>1, <1>2

\* No step brings the dock on air while OBS's own stream is on.
LEMMA RunsKeep ==
  ASSUME BroadcastConstants, SessionInv, Shown, [Next]_vars
  PROVE  /\ Shown'
         /\ streaming.on => \A r \in Runs : Keeps(run[r], run'[r])
<1> USE DEF SessionInv
<1>1. (\A r \in Runs : Keeps(run[r], run'[r])) => Shown'
  BY DEF Shown, Keeps
<1>2. CASE UiStep
  BY <1>1, <1>2, UiKeeps
<1>3. CASE DockStep
  BY <1>3, DockKeeps
<1>4. ASSUME NEW r \in Runs, Worker(r)
      PROVE  /\ Shown' /\ \A q \in Runs : Keeps(run[q], run'[q])
  BY <1>1, <1>4, WorkerKeeps
<1>5. CASE Around
  BY <1>1, <1>5, AroundKeeps
<1>6. CASE UNCHANGED vars
  BY <1>1, <1>6, RecordsKeep DEF vars
<1> QED BY <1>2, <1>3, <1>4, <1>5, <1>6 DEF Next, DockStep, Around

\* The owner the session leads to, and whether it is on air.
LEMMA OnAirRun ==
  ASSUME BroadcastConstants, TypeOK
  PROVE  OnAir <=> \E r \in Runs : /\ pipeline = r /\ \E o \in Outputs : output[o].owner = r
                                   /\ Airborne(run[r])
<1>1. 0 \notin Runs /\ pipeline \in Runs \cup {0}
  BY Numbers DEF TypeOK
<1>2. CASE Attached = 0
  BY <1>1, <1>2 DEF Attached, OnAir, Stopped
<1>3. CASE Attached # 0
  <2>1. Attached = pipeline /\ pipeline \in Runs /\ \E o \in Outputs : output[o].owner = pipeline
    BY <1>1, <1>3 DEF Attached
  <2>2. OnAir <=> Airborne(run[pipeline])
    BY <1>3, <2>1 DEF OnAir, Stopped, Phase, Airborne
  <2> QED BY <2>1, <2>2
<1> QED BY <1>2, <1>3

\* Owners are attached by Spawn only.
LEMMA OwnersStay ==
  ASSUME BroadcastConstants, SessionInv, [Next]_vars, ~Spawn
  PROVE  pipeline' = pipeline /\ \A o \in Outputs : output'[o].owner \in {output[o].owner, 0}
<1> USE DEF SessionInv, sharedVars, uiVars, streamVars
<1>1. CASE Touches
  BY <1>1, UiTouches DEF SameOwners, Touches, StopFlag, StopAudio, StopOwner, Release, Open, Prepare,
                        StartAudio, Capture, CaptureRefused
<1>2. CASE Free
  BY <1>2 DEF Free, NoOutput, TypeOK
<1>3. CASE DockStep
  <2>1. pipeline' = pipeline
    BY <1>3 DEF DockStep, Restart, ArmBuffer, StartDelayedOutput, AskStop, AnswerNo, StopDelayedOutput,
         SceneCollectionChanging, StopNow, Shutdown, Settle, Tick, CheckHealth, FinishOnUi
  <2> QED BY <1>3, <2>1, DockBegins DEF SameOwners
<1>4. ASSUME NEW r \in Runs, Worker(r)
      PROVE  pipeline' = pipeline /\ \A o \in Outputs : output'[o].owner \in {output[o].owner, 0}
  <2>1. pipeline' = pipeline
    BY <1>4 DEF Worker, Boot, Turn, OffAir, Connect, Launch, Pace, Teardown, Publish, Finish, FinishLifecycle,
                FinishNotice
  <2> QED BY <1>4, <2>1, WorkerMoves DEF SameOwners
<1>5. CASE Around
  <2>1. pipeline' = pipeline
    BY <1>5 DEF Around, StreamStarts, StreamSeen, StreamEnds, EndCapture, OutputPacketNull, HoldingFails,
                NetworkUp, Delivered, SenderFails
  <2>2. output' = output \/ \E o \in Outputs : EndCapture(o)
    BY <1>5 DEF Around, StreamStarts, StreamSeen, StreamEnds, OutputPacketNull, HoldingFails,
                NetworkUp, Delivered, SenderFails
  <2>3. ASSUME NEW o \in Outputs, EndCapture(o)
        PROVE  \A f \in Outputs : output'[f].owner = output[f].owner
    BY <2>3 DEF EndCapture, TypeOK, OutputRecord
  <2> QED BY <2>1, <2>2, <2>3
<1>6. CASE UNCHANGED vars
  BY <1>6 DEF vars
<1>7. Touches \/ Free \/ DockStep \/ (\E r \in Runs : Worker(r)) \/ Around \/ UNCHANGED vars
  BY Zenon DEF Next, UiStep, Touches, DockStep, Around
<1> QED BY Zenon, <1>1, <1>2, <1>3, <1>4, <1>5, <1>6, <1>7

LEMMA NoTakeOff ==
  ASSUME BroadcastConstants, SessionInv, Shown, [Next]_vars, streaming.on, OnAir'
  PROVE  OnAir
<1> USE DEF SessionInv
<1>0. TypeOK' /\ 0 \notin Runs
  BY SessionStep, Numbers
<1>1. PICK r \in Runs : /\ pipeline' = r /\ \E o \in Outputs : output'[o].owner = r
                        /\ Airborne(run'[r])
  <2>1. OnAir' <=> (\E r \in Runs : /\ pipeline = r /\ \E o \in Outputs : output[o].owner = r
                                    /\ Airborne(run[r]))'
    BY <1>0, OnAirRun, PTL
  <2> QED BY <2>1 DEF Airborne
<1>2. Airborne(run[r])
  BY <1>1, RunsKeep DEF Keeps
<1>3. ~Spawn
  <2> SUFFICES ASSUME Spawn PROVE FALSE
    OBVIOUS
  <2>1. PICK b \in BOOLEAN : Spawned(ui.output, NextOf(Unused), b)
    BY SpawnShape
  <2>2. r = NextOf(Unused)
    BY <1>1, <2>1 DEF Spawned
  <2>3. Freed(output[ui.output].owner) \in [Runs -> RunRecord]
    BY SpawnShape, RunTypes
  <2>4. run'[r] = NewRun(ui.output, IF b THEN "Boot" ELSE "Done")
    BY <2>1, <2>2, <2>3 DEF Spawned
  <2>5. \A p : ~Airborne(NewRun(ui.output, p))
    BY DEF Airborne, NewRun, NoRun
  <2> QED BY <1>1, <2>4, <2>5
<1>4. pipeline = r /\ \E o \in Outputs : output[o].owner = r
  BY <1>0, <1>1, <1>3, OwnersStay
<1> QED BY <1>2, <1>4, OnAirRun

LEMMA BypassStep ==
  ASSUME BroadcastConstants, SessionInv, Shown, NeverBypassed, [Next]_vars
  PROVE  NeverBypassed'
<1> USE DEF SessionInv, sharedVars, uiVars, streamVars
<1>1. CASE StreamStarts \/ StreamEnds
  BY <1>1 DEF StreamStarts, StreamEnds, NeverBypassed
<1>2. CASE StreamSeen
  <2>1. OnAir' <=> OnAir
    BY <1>2 DEF StreamSeen, OnAir, Stopped, Phase, Attached
  <2>2. streaming'.stop = OnAir
    BY <1>2 DEF StreamSeen, TypeOK
  <2> QED BY <2>1, <2>2 DEF NeverBypassed
<1>3. CASE streaming' = streaming
  BY SMTT(30), <1>3, NoTakeOff DEF NeverBypassed
<1>4. CASE UiStep
  BY Zenon, <1>3, <1>4 DEF UiStep, StopFlag, StopAudio, StopOwner, Release, Free, Open, Prepare, Spawn, StartAudio,
         Capture, CaptureRefused
<1>5. CASE DockStep
  BY <1>3, <1>5 DEF DockStep, Restart, ArmBuffer, StartDelayedOutput, AskStop, AnswerNo, StopDelayedOutput,
         SceneCollectionChanging, StopNow, Shutdown, Settle, Tick, CheckHealth, FinishOnUi
<1>6. ASSUME NEW r \in Runs, Worker(r) PROVE NeverBypassed'
  <2>1. streaming' = streaming
    BY <1>6 DEF Worker, Boot, Turn, OffAir, Connect, Launch, Pace, Teardown, Publish, Finish, FinishLifecycle,
                FinishNotice
  <2> QED BY SMTT(30), <1>3, <2>1
<1>7. CASE Around /\ ~StreamStarts /\ ~StreamSeen /\ ~StreamEnds
  BY <1>3, <1>7 DEF Around, EndCapture, OutputPacketNull, HoldingFails, NetworkUp, Delivered, SenderFails
<1>8. CASE UNCHANGED vars
  BY <1>3, <1>8 DEF vars
<1> QED BY <1>1, <1>2, <1>4, <1>5, <1>6, <1>7, <1>8 DEF Next, DockStep, Around

\* While the dock is on air OBS's own stream, once announced, is being stopped
\* (frontend_event and start_delayed_output of active-delay-dock.cpp): the
\* programme never goes out past the delay.
THEOREM DelayIsNotBypassed == Spec => []NeverBypassed
<1>1. Init => Shown /\ NeverBypassed
  BY DEF Init, Shown, Shows, NeverBypassed, NoRun
<1>2. SessionInv /\ Shown /\ [Next]_vars => Shown'
  BY BroadcastConstants, RunsKeep
<1> QED BY <1>1, <1>2, SessionInit, SessionStep, BypassStep, BroadcastConstants, PTL DEF Spec

-----------------------------------------------------------------------------
\* Generations.

\* Outputs change hands in Free and in Spawn only; nor does a run that has
\* work left.
LEMMA StepsSort ==
  ASSUME BroadcastConstants, SessionInv, [Next]_vars
  PROVE  \/ Free \/ Spawn
         \/ /\ SameOwners
            /\ \A r \in Runs : run'[r].pc \notin {"None", "Done"} =>
                 /\ run[r].pc \notin {"None", "Done"}
                 /\ run'[r].output = run[r].output /\ run'[r].generation = run[r].generation
<1> USE DEF SessionInv
<1>1. CASE SameOwners /\ SameRuns
  BY <1>1 DEF SameRuns
<1>2. CASE Touches
  BY <1>1, <1>2, UiTouches
<1>3. CASE DockStep
  BY <1>1, <1>3, DockBegins
<1>4. ASSUME NEW r \in Runs, Worker(r)
      PROVE  /\ SameOwners
             /\ \A q \in Runs : run'[q].pc \notin {"None", "Done"} =>
                  /\ run[q].pc \notin {"None", "Done"}
                  /\ run'[q].output = run[q].output /\ run'[q].generation = run[q].generation
  BY <1>4, WorkerMoves DEF Moves
<1>5. CASE Around
  BY <1>1, <1>5, AroundSame
<1>6. CASE UNCHANGED vars
  BY <1>6 DEF vars, SameOwners
<1> QED BY <1>2, <1>3, <1>4, <1>5, <1>6 DEF Next, UiStep, Touches, DockStep, Around

\* A name stays good: an output that is started again has a higher generation,
\* one that was freed has none.
LEMMA NamesStay ==
  ASSUME BroadcastConstants, SessionInv, [Next]_vars, NEW n \in Notice, Names(output, n)
  PROVE  Names(output', n)
<1> USE DEF SessionInv
<1>0. n.output \in Outputs /\ n.generation \in Nat /\ output[n.output] \in OutputRecord
      /\ output \in [Outputs -> OutputRecord]
  BY DEF Notice, TypeOK
<1>1. CASE SameOwners
  BY <1>0, <1>1 DEF SameOwners, Names
<1>2. CASE Free
  <2>1. output' = [output EXCEPT ![ui.output] = [NoOutput EXCEPT !.state = "Gone"]]
    BY <1>2 DEF Free
  <2>2. CASE n.output = ui.output
    BY <1>0, <2>1, <2>2 DEF Names, NoOutput
  <2>3. CASE n.output # ui.output
    BY <1>0, <2>1, <2>3 DEF Names
  <2> QED BY <2>2, <2>3
<1>3. CASE Spawn
  <2>1. PICK b \in BOOLEAN : Spawned(ui.output, NextOf(Unused), b)
    BY <1>3, SpawnShape
  <2>2. output' = [output EXCEPT ![ui.output] = Owned(@, NextOf(Unused), b)]
    BY <2>1 DEF Spawned
  <2>3. CASE n.output = ui.output
    <3>1. output'[n.output] = Owned(output[n.output], NextOf(Unused), b)
      BY <1>0, <2>2, <2>3
    <3>2. output'[n.output].generation = output[n.output].generation + 1
      BY <1>0, <3>1 DEF Owned, OutputRecord
    <3>3. output[n.output].state # "Gone" /\ output[n.output].generation \in Nat
      BY <1>0, <1>3, <2>3 DEF Spawn, UiRole, Starting, OutputRecord
    <3>4. n.generation <= output[n.output].generation
      BY <3>3 DEF Names
    <3> QED BY <1>0, <3>2, <3>3, <3>4 DEF Names
  <2>4. CASE n.output # ui.output
    BY <1>0, <2>2, <2>4 DEF Names
  <2> QED BY <2>3, <2>4
<1> QED BY <1>1, <1>2, <1>3, StepsSort

LEMMA GoneStep ==
  ASSUME BroadcastConstants, SessionInv, Generations, [Next]_vars, NEW o \in Outputs, output'[o].state = "Gone"
  PROVE  output'[o].generation = 0
<1> USE DEF SessionInv
<1>0. output \in [Outputs -> OutputRecord] /\ (output[o].state = "Gone" => output[o].generation = 0)
  BY DEF TypeOK, Generations
<1>1. CASE SameOwners
  BY <1>0, <1>1 DEF SameOwners
<1>2. CASE Free
  <2>1. output' = [output EXCEPT ![ui.output] = [NoOutput EXCEPT !.state = "Gone"]]
    BY <1>2 DEF Free
  <2> QED BY <1>0, <2>1 DEF NoOutput
<1>3. CASE Spawn
  <2>1. PICK b \in BOOLEAN : Spawned(ui.output, NextOf(Unused), b)
    BY SMTT(30), <1>3, SpawnShape
  <2>2. /\ output' = [output EXCEPT ![ui.output] = Owned(@, NextOf(Unused), b)]
        /\ ui.output \in Outputs /\ output[ui.output].state # "Gone"
    BY <2>1, <1>3, SpawnShape DEF Spawned, Spawn, UiRole, Starting
  <2>3. o # ui.output
    BY <1>0, <2>2 DEF Owned, OutputRecord
  <2> QED BY <1>0, <2>2, <2>3
<1> QED BY <1>1, <1>2, <1>3, StepsSort

LEMMA RunNamesStep ==
  ASSUME BroadcastConstants, SessionInv, Generations, [Next]_vars,
         NEW r \in Runs, run'[r].pc \notin {"None", "Done"}
  PROVE  Names(output', RunName(r)')
<1> USE DEF SessionInv
<1>1. CASE /\ run[r].pc \notin {"None", "Done"}
           /\ run'[r].output = run[r].output /\ run'[r].generation = run[r].generation
  <2>1. Names(output, RunName(r)) /\ RunName(r) \in Notice
    BY <1>1 DEF Generations, RunName, Home, TypeOK, RunRecord, Notice
  <2>2. RunName(r)' = RunName(r)
    BY <1>1 DEF RunName
  <2> QED BY <2>1, <2>2, NamesStay
<1>2. CASE Free
  <2>1. run' = Freed(output[ui.output].owner) /\ output[ui.output].owner \in Runs \cup {0}
    BY <1>2 DEF Free, UiRole, TypeOK, OutputRecord
  <2>2. run'[r] = run[r]
    BY <2>1 DEF Freed, NoRun, TypeOK
  <2> QED BY <1>1, <2>2
<1>3. CASE Spawn
  <2>1. PICK b \in BOOLEAN : Spawned(ui.output, NextOf(Unused), b)
    BY <1>3, SpawnShape
  <2>2. Freed(output[ui.output].owner) \in [Runs -> RunRecord] /\ output[ui.output].owner \in Runs \cup {0}
    BY <1>3, SpawnShape, RunTypes
  <2>3. run' = [Freed(output[ui.output].owner) EXCEPT
                  ![NextOf(Unused)] = NewRun(ui.output, IF b THEN "Boot" ELSE "Done")]
    BY <2>1 DEF Spawned
  <2>4. CASE r = NextOf(Unused)
    <3>1. run'[r] = NewRun(ui.output, IF b THEN "Boot" ELSE "Done")
      BY <2>2, <2>3, <2>4
    <3>2. run'[r].output = ui.output /\ run'[r].generation = output[ui.output].generation + 1
      BY <3>1 DEF NewRun, NoRun
    <3>3. ui.output \in Outputs /\ output[ui.output] \in OutputRecord
      BY <1>3, SpawnShape DEF TypeOK
    <3>4. output'[ui.output] = Owned(output[ui.output], r, b)
      BY <2>1, <2>4, <3>3 DEF Spawned, TypeOK
    <3>5. output'[ui.output].generation = output[ui.output].generation + 1 /\ output'[ui.output].owner = r
      BY <3>3, <3>4 DEF Owned, OutputRecord
    <3>6. output[ui.output].generation \in Nat
      BY <3>3 DEF OutputRecord
    <3> QED BY <3>2, <3>3, <3>5, <3>6 DEF Names, RunName
  <2>5. CASE r # NextOf(Unused)
    <3>1. run'[r] = Freed(output[ui.output].owner)[r]
      BY <2>2, <2>3, <2>5
    <3>2. run'[r] = run[r]
      BY <2>2, <3>1 DEF Freed, NoRun, TypeOK
    <3> QED BY <1>1, <3>2
  <2> QED BY <2>4, <2>5
<1> QED BY <1>1, <1>2, <1>3, StepsSort

LEMMA NoticesStep ==
  ASSUME BroadcastConstants, SessionInv, Generations, [Next]_vars, NEW i \in 1..Len(notices')
  PROVE  Names(output', notices'[i])
<1> USE DEF SessionInv, sharedVars, uiVars, streamVars
<1>0. notices \in Seq(Notice) /\ \A j \in 1..Len(notices) : Names(output, notices[j]) /\ notices[j] \in Notice
  BY DEF TypeOK, Generations
<1>1. CASE notices' = notices
  BY <1>0, <1>1, NamesStay
<1>2. CASE FinishOnUi
  <2>1. notices' = Tail(notices) /\ notices # <<>>
    BY <1>2 DEF FinishOnUi
  <2>2. i + 1 \in 1..Len(notices) /\ notices'[i] = notices[i + 1]
    BY <1>0, <2>1, HeadTailProperties
  <2> QED BY <1>0, <2>2, NamesStay
<1>3. ASSUME NEW r \in Runs, FinishNotice(r) PROVE Names(output', notices'[i])
  <2>1. CASE ~run[r].error
    BY <1>1, <1>3, <2>1 DEF FinishNotice
  <2>2. CASE run[r].error
    <3>1. notices' = Append(notices, RunName(r)) /\ run[r].pc = "FinishNotice"
      BY <1>3, <2>2 DEF FinishNotice, RunName
    <3>2. Names(output, RunName(r)) /\ RunName(r) \in Notice
      BY Zenon, <3>1 DEF Generations, RunName, Home, TypeOK, RunRecord, Notice
    <3>3. (i \in 1..Len(notices) /\ notices'[i] = notices[i]) \/ notices'[i] = RunName(r)
      BY <1>0, <3>1, <3>2, AppendProperties
    <3> QED BY <1>0, <3>2, <3>3, NamesStay
  <2> QED BY <2>1, <2>2
<1>4. CASE UiStep
  BY Zenon, <1>1, <1>4 DEF UiStep, StopFlag, StopAudio, StopOwner, Release, Free, Open, Prepare, Spawn, StartAudio,
         Capture, CaptureRefused
<1>5. CASE DockStep
  BY <1>1, <1>2, <1>5 DEF DockStep, Restart, ArmBuffer, StartDelayedOutput, AskStop, AnswerNo, StopDelayedOutput,
         SceneCollectionChanging, StopNow, Shutdown, Settle, Tick, CheckHealth
<1>6. ASSUME NEW r \in Runs, Worker(r) PROVE Names(output', notices'[i])
  <2>1. notices' = notices \/ FinishNotice(r)
    BY <1>6 DEF Worker, Boot, Turn, OffAir, Connect, Launch, Pace, Teardown, Publish, Finish, FinishLifecycle
  <2> QED BY <1>1, <1>3, <2>1
<1>7. CASE Around
  BY <1>1, <1>7 DEF Around, StreamStarts, StreamSeen, StreamEnds, EndCapture, OutputPacketNull, HoldingFails,
                NetworkUp, Delivered, SenderFails
<1>8. CASE UNCHANGED vars
  BY <1>1, <1>8 DEF vars
<1> QED BY <1>4, <1>5, <1>6, <1>7, <1>8 DEF Next, DockStep, Around

LEMMA GenerationsStep ==
  ASSUME BroadcastConstants, SessionInv, Generations, [Next]_vars
  PROVE  Generations'
<1>1. \A o \in Outputs : output'[o].state = "Gone" => output'[o].generation = 0
  BY GoneStep
<1>2. \A r \in Runs : run'[r].pc \notin {"None", "Done"} => Names(output', RunName(r)')
  BY RunNamesStep
<1>3. \A i \in 1..Len(notices') : Names(output', notices'[i])
  BY NoticesStep
<1> QED BY <1>1, <1>2, <1>3 DEF Generations, RunName

\* The late notice of an owner ends no capture but that of its own run
\* (finish_on_ui and consumers.generation of active-delay-output.cpp).
THEOREM NoticesMeanTheirRun == Spec => NoticeIsOwn
<1>1. Init => Generations
  BY DEF Init, Generations, NoOutput, NoRun
<1>2. ASSUME SessionInv, Generations, [Next]_vars, NEW o \in Outputs,
             notices' # notices, output[o].state = "Active", output'[o].state = "Ending"
      PROVE  Head(notices).run = output[o].owner
  <2> USE DEF SessionInv, sharedVars, uiVars, streamVars
  <2>1. CASE FinishOnUi
    <3>1. Concerns(Head(notices)) /\ Head(notices).output = o /\ notices # <<>>
      BY <1>2, <2>1 DEF FinishOnUi, TypeOK, OutputRecord
    <3>2. Names(output, Head(notices))
      <4>1. notices \in Seq(Notice) /\ notices # <<>>
        BY <1>2, <3>1 DEF TypeOK
      <4>2. Len(notices) \in Nat \ {0}
        BY <4>1, EmptySeq
      <4>3. Names(output, notices[1])
        BY SMTT(30), <1>2, <4>2 DEF Generations
      <4> QED BY <4>1, <4>2, <4>3
    <3> QED BY <3>1, <3>2 DEF Names, Concerns
  <2>2. CASE UiStep
    BY Zenon, <1>2, <2>2 DEF UiStep, StopFlag, StopAudio, StopOwner, Release, Free, Open, Prepare, Spawn, StartAudio,
         Capture, CaptureRefused
  <2>3. CASE DockStep /\ ~FinishOnUi
    BY SMTT(30), <1>2, <2>3 DEF DockStep, Restart, ArmBuffer, StartDelayedOutput, AskStop, AnswerNo, StopDelayedOutput,
         SceneCollectionChanging, StopNow, Shutdown, Settle, Tick, CheckHealth
  <2>4. ASSUME NEW r \in Runs, Worker(r) PROVE notices' = notices \/ output' = output
    BY <2>4 DEF Worker, Boot, Turn, OffAir, Connect, Launch, Pace, Teardown, Publish, Finish, FinishLifecycle,
                FinishNotice
  <2>5. CASE Around
    BY <1>2, <2>5 DEF Around, StreamStarts, StreamSeen, StreamEnds, EndCapture, OutputPacketNull, HoldingFails,
                NetworkUp, Delivered, SenderFails
  <2>6. CASE UNCHANGED vars
    BY <1>2, <2>6 DEF vars
  <2>7. notices' = notices \/ output' = output => FALSE
    BY <1>2
  <2> QED BY <1>2, <2>1, <2>2, <2>3, <2>4, <2>5, <2>6, <2>7 DEF Next, DockStep, Around
<1>3. SessionInv /\ Generations /\ [Next]_vars =>
        [\A o \in Outputs :
           notices' # notices /\ output[o].state = "Active" /\ output'[o].state = "Ending"
             => Head(notices).run = output[o].owner]_vars
  BY <1>2
<1> QED BY <1>1, <1>3, SessionInit, SessionStep, GenerationsStep, BroadcastConstants, PTL DEF Spec, NoticeIsOwn

-----------------------------------------------------------------------------
(* PacketDispatch: its inductive invariant.                                *)

\* The coordinator exists and media may be dispatched.
Up == pc \notin {"starting", "stopped"}
Dispatching == pc \in {"check", "consume"}

Rising(s) == \A i, j \in 1..Len(s) : i < j => s[i] < s[j]
Above(n, s) == \A i \in 1..Len(s) : s[i] > n
Below(s, n) == \A i \in 1..Len(s) : s[i] < n

Roles ==
  /\ calling["owner"] \in {"idle", "request", "stop"}
  /\ calling["failure"] \in {"idle", "fail"}
  /\ \A a \in Admitters : calling[a] = "idle" => reserved[a] = 0
  /\ calling["failure"] # "idle" => failed
  /\ calling["owner"] = "request" => Len(requests) < MaxRequests
  /\ Dispatching => batch \in [epoch : Nat, headers : BOOLEAN]
  /\ pc = "consume" => target \in Consumers

Order ==
  /\ current <= publication_epoch
  /\ EpochsDiffer
  /\ Rising(taken) /\ Rising(requests)
  /\ \A i \in 1..Len(taken), j \in 1..Len(requests) : taken[i] < requests[j]
  /\ Above(current, taken) /\ Above(current, requests)
  /\ Below(taken, publication_epoch + 1) /\ Below(requests, publication_epoch + 1)
  /\ \A a \in Admitters : reserved[a] # 0 => Below(taken, reserved[a])
  /\ reserved["owner"] # 0 => Below(requests, reserved["owner"])

Startup ==
  pc = "starting" =>
    /\ current = 0 /\ ~selected /\ taken = <<>> /\ requests = <<>>
    /\ calling["owner"] # "request"
    /\ ~stopping /\ ~failed => floor = 0
    /\ ~stopping /\ ~failed /\ calling["owner"] = "idle" =>
         \A c \in Consumers : epoch[c] = 0 /\ ~needs_headers[c]

Cutoffs ==
  /\ \A c \in Consumers : handed[c] <= epoch[c]
  /\ Up =>
       /\ consumers = Consumers
       /\ \A c \in Consumers : floor <= epoch[c]
       /\ \A a \in Admitters : reserved[a] # 0 =>
            \A c \in Consumers \ uncut[a] : epoch[c] >= reserved[a]
       /\ \A c \in Consumers :
            IF pc = "cutoff" THEN c \notin todo => epoch[c] >= current
            ELSE epoch[c] # 0 => epoch[c] >= current

\* Consumers the batch under way has still to reach.
Unreached == IF Dispatching THEN todo \cup (IF pc = "consume" THEN {target} ELSE {})
             ELSE {}
Waiting(c) == needs_headers[c] /\ epoch[c] <= current
Headers ==
  /\ ~threw
  /\ pc = "cutoff" => ~selected
  /\ Dispatching => selected /\ batch.epoch = current
  /\ Up /\ selected /\ publication_epoch = current =>
       \A c \in Consumers : Waiting(c) => c \in Unreached /\ batch.headers
  /\ pc = "consume" /\ Waiting(target) => batch.headers

Inv == DispatchTypeOK /\ Roles /\ Order /\ Startup /\ Cutoffs /\ Headers

-----------------------------------------------------------------------------
\* What the steps that are not named leave alone.

LEMMA WorkerLeavesCalls ==
  ASSUME WorkerStep
  PROVE  UNCHANGED <<callVars, stopping, failed>>
BY DEF WorkerStep, AddConsumer, CreateCoordinator, Stop, TakeRequests, ProcessRequest,
       AdvanceEpoch, WorkerCut, WorkerReturn, StartDispatch, CheckEpoch, Ignore,
       Take, ownerVars

LEMMA EpochsAreStill ==
  ASSUME [DispatchNext]_dispatchVars,
         \A a \in Admitters : ~Exchange(a) /\ ~Return(a),
         ~CreateCoordinator, ~TakeRequests, ~ProcessRequest, ~AdvanceEpoch
  PROVE  UNCHANGED <<publication_epoch, current, taken, requests, reserved>>
<1>1. CASE Request \/ RequestStop \/ Failure
  BY <1>1 DEF Request, RequestStop, Failure, Enter, ownerVars, workVars
<1>2. CASE \E a \in Admitters : Cut(a)
  BY <1>2 DEF Cut, ownerVars, workVars
<1>3. CASE WorkerStep
  BY <1>3 DEF WorkerStep, AddConsumer, Stop, WorkerCut, WorkerReturn, StartDispatch,
              CheckEpoch, Ignore, Take, ownerVars, workVars, callVars
<1>4. CASE UNCHANGED dispatchVars
  BY <1>4 DEF dispatchVars, ownerVars, workVars, callVars
<1> QED BY <1>1, <1>2, <1>3, <1>4 DEF DispatchNext, Admission

-----------------------------------------------------------------------------
\* Types, and which kind of call each admitter makes.

LEMMA TypesInit ==
  ASSUME DispatchConstants, DispatchInit
  PROVE  DispatchTypeOK /\ Roles
<1>1. requests \in Seq(Nat) /\ taken \in Seq(Nat) /\ Len(requests) = 0
  BY EmptySeq DEF DispatchInit
<1>2. Roles
  BY DEF DispatchInit, Roles, Admitters, Dispatching
<1>3. {stopping, failed, selected, threw} \subseteq BOOLEAN
  BY DEF DispatchInit
<1>4. epoch \in [Consumers -> Nat] /\ handed \in [Consumers -> Nat]
      /\ needs_headers \in [Consumers -> BOOLEAN]
  BY DEF DispatchInit
<1>5. /\ calling \in [Admitters -> {"idle", "request", "stop", "fail"}]
      /\ seen \in [Admitters -> Nat] /\ reserved \in [Admitters -> Nat]
      /\ uncut \in [Admitters -> SUBSET Consumers]
  BY DEF DispatchInit
<1> QED
  BY <1>1, <1>2, <1>3, <1>4, <1>5 DEF DispatchConstants, DispatchInit, DispatchTypeOK, Pcs

LEMMA TypesNext ==
  ASSUME DispatchConstants, DispatchTypeOK, Roles, [DispatchNext]_dispatchVars
  PROVE  DispatchTypeOK' /\ Roles'
<1> USE DEF DispatchTypeOK, Roles, Admitters, DispatchConstants, Pcs, Dispatching
<1>1. CASE Request
  BY <1>1 DEF Request, Enter, MayRequest, ownerVars, consumerVars, workVars
<1>2. CASE RequestStop
  BY <1>2 DEF RequestStop, Enter, ownerVars, consumerVars, workVars
<1>3. CASE Failure
  BY <1>3 DEF Failure, Enter, ownerVars, consumerVars, workVars
<1>4. ASSUME NEW a \in Admitters, Exchange(a) PROVE DispatchTypeOK' /\ Roles'
  BY SMTT(60), <1>4 DEF Exchange, Higher, ownerVars, consumerVars, workVars
<1>5. ASSUME NEW a \in Admitters, Cut(a) PROVE DispatchTypeOK' /\ Roles'
  <2>1. PICK c \in uncut[a] : /\ CutOver(c, reserved[a])
                             /\ uncut' = [uncut EXCEPT ![a] = @ \ {c}]
    BY <1>5 DEF Cut
  <2>2. epoch' \in [Consumers -> Nat] /\ needs_headers' \in [Consumers -> BOOLEAN]
    BY ZenonT(60), <2>1 DEF CutOver, consumerVars
  <2> QED BY <1>5, <2>1, <2>2 DEF Cut, ownerVars, workVars
<1>6. ASSUME NEW a \in Admitters, Return(a) PROVE DispatchTypeOK' /\ Roles'
  <2>1. requests' \in Seq(Nat) /\ Len(requests') <= MaxRequests
        /\ stopping' \in BOOLEAN
    <3>1. CASE calling[a] = "request"
      <4>1. reserved[a] \in Nat /\ Len(requests) < MaxRequests
        BY <3>1
      <4>2. Append(requests, reserved[a]) \in Seq(Nat)
            /\ Len(Append(requests, reserved[a])) = Len(requests) + 1
        BY <4>1, AppendProperties
      <4>3. requests' = Append(requests, reserved[a]) /\ stopping' = stopping
        BY <1>6, <3>1 DEF Return
      <4>4. requests' \in Seq(Nat) /\ Len(requests') <= MaxRequests
        BY <4>1, <4>2, <4>3, LenProperties
      <4> QED BY <4>3, <4>4
    <3>2. CASE calling[a] = "stop"
      BY <1>6, <3>2, EmptySeq DEF Return
    <3>3. CASE calling[a] \notin {"request", "stop"}
      BY <1>6, <3>3 DEF Return, ownerVars
    <3> QED BY <3>1, <3>2, <3>3
  <2>2. floor' \in Nat
    BY <1>6 DEF Return, Higher
  <2>3. DispatchTypeOK'
    BY <1>6, <2>1, <2>2 DEF Return, consumerVars, workVars
  <2>4. Roles'
    BY <1>6 DEF Return, ownerVars, workVars
  <2> QED BY <2>3, <2>4
<1>7. CASE AddConsumer
  BY <1>7 DEF AddConsumer, callVars, ownerVars, consumerVars, workVars
<1>8. CASE CreateCoordinator
  BY <1>8 DEF CreateCoordinator, Higher, callVars, ownerVars, consumerVars
<1>9. CASE Stop
  BY <1>9 DEF Stop, callVars, ownerVars, consumerVars
<1>10. CASE TakeRequests
  BY <1>10, EmptySeq DEF TakeRequests, OwnerFree, callVars, consumerVars
<1>11. CASE ProcessRequest
  BY <1>11, HeadTailProperties
     DEF ProcessRequest, StartCutoff, callVars, ownerVars, consumerVars
<1>12. CASE AdvanceEpoch
  <2>1. current' \in Nat /\ publication_epoch' \in Nat
    BY <1>12 DEF AdvanceEpoch, AdvancesTo, StartCutoff
  <2> QED
    BY <1>12, <2>1 DEF AdvanceEpoch, StartCutoff, callVars, ownerVars, consumerVars
<1>13. CASE WorkerCut
  <2>1. PICK c \in todo : CutOver(c, current) /\ todo' = todo \ {c}
    BY <1>13 DEF WorkerCut
  <2>2. epoch' \in [Consumers -> Nat] /\ needs_headers' \in [Consumers -> BOOLEAN]
    BY ZenonT(60), <2>1 DEF CutOver, consumerVars
  <2> QED BY <1>13, <2>1, <2>2 DEF WorkerCut, callVars, ownerVars
<1>14. CASE WorkerReturn
  BY <1>14 DEF WorkerReturn, Higher, callVars, ownerVars, consumerVars
<1>15. CASE StartDispatch
  BY <1>15 DEF StartDispatch, callVars, ownerVars, consumerVars
<1>16. CASE CheckEpoch
  BY <1>16 DEF CheckEpoch, callVars, ownerVars, consumerVars
<1>17. CASE Ignore
  BY <1>17 DEF Ignore, callVars, ownerVars, consumerVars
<1>19. CASE Take
  <2>1. CASE Rejects(target)
    BY <1>19, <2>1 DEF Take, callVars, ownerVars, consumerVars
  <2>2. CASE ~Rejects(target)
    BY <1>19, <2>2 DEF Take, callVars, ownerVars
  <2> QED BY <2>1, <2>2
<1>18. CASE UNCHANGED dispatchVars
  BY <1>18 DEF dispatchVars, callVars, ownerVars, consumerVars, workVars
<1> QED
  BY <1>1, <1>2, <1>3, <1>4, <1>5, <1>6, <1>7, <1>8, <1>9, <1>10, <1>11, <1>12,
     <1>13, <1>14, <1>15, <1>16, <1>17, <1>18, <1>19 DEF DispatchNext, Admission, WorkerStep

-----------------------------------------------------------------------------
\* How epochs compare.

LEMMA BelowMore ==
  ASSUME NEW s \in Seq(Nat), NEW m \in Nat, NEW n \in Nat, m <= n, Below(s, m)
  PROVE  Below(s, n)
<1> SUFFICES ASSUME NEW i \in 1..Len(s) PROVE s[i] < n
  BY DEF Below
<1>1. s[i] \in Nat
  BY ElementOfSeq
<1> QED BY <1>1 DEF Below

LEMMA OrderInit ==
  ASSUME DispatchInit
  PROVE  Order
BY EmptySeq DEF DispatchInit, Order, EpochsDiffer, Rising, Above, Below, Admitters

\* The exchange succeeds on the newest epoch, so the new one is above all.
LEMMA ExchangeKeepsOrder ==
  ASSUME DispatchConstants, DispatchTypeOK, Order, NEW a \in Admitters, Exchange(a)
  PROVE  Order'
<1> DEFINE next == Higher(seen[a], OwnerEpoch) + 1
<1>1. UNCHANGED <<current, taken, requests>>
  BY DEF Exchange, ownerVars, workVars
<1>2. CASE publication_epoch = seen[a]
  <2>1. publication_epoch' = next /\ reserved' = [reserved EXCEPT ![a] = next]
    BY <1>2 DEF Exchange, ExchangeSucceeds
  <2>2. next \in Nat /\ next > publication_epoch
    BY <1>2 DEF DispatchTypeOK, DispatchConstants, Higher
  <2> HIDE DEF next
  <2>3. publication_epoch \in Nat /\ publication_epoch + 1 <= next
    BY <2>2 DEF DispatchTypeOK
  <2>4. current <= publication_epoch' /\ current < next
    BY <2>1, <2>2 DEF DispatchTypeOK, Order
  <2>5. \A b \in Admitters : reserved'[b] = IF b = a THEN next ELSE reserved[b]
    BY <2>1 DEF DispatchTypeOK
  <2>6. EpochsDiffer'
    <3>1. \A b \in Admitters : reserved'[b] # 0 =>
            current' < reserved'[b] /\ reserved'[b] <= publication_epoch'
      BY <1>1, <2>1, <2>2, <2>4, <2>5 DEF DispatchTypeOK, Order, EpochsDiffer
    <3>2. \A b \in Admitters : reserved[b] # next
      <4>1. \A b \in Admitters : reserved[b] # 0 => reserved[b] <= publication_epoch
        BY DEF Order, EpochsDiffer
      <4>2. \A b \in Admitters : reserved[b] \in Nat
        BY DEF DispatchTypeOK
      <4> QED BY <2>2, <2>3, <4>1, <4>2
    <3>3. \A b \in Admitters : reserved'[b] # 0 =>
            \A c \in Admitters \ {b} : reserved'[c] # reserved'[b]
      BY <2>2, <2>5, <3>2 DEF Order, EpochsDiffer
    <3> QED BY <3>1, <3>3 DEF EpochsDiffer
  <2>7. Below(taken, next) /\ Below(requests, next)
    BY <2>2, <2>3, BelowMore DEF DispatchTypeOK, Order
  <2>8. Below(taken, next + 1) /\ Below(requests, next + 1)
    BY <2>2, <2>7, BelowMore DEF DispatchTypeOK
  <2>9. \A b \in Admitters : reserved'[b] # 0 => Below(taken, reserved'[b])
    BY <2>1, <2>7 DEF DispatchTypeOK, Order
  <2>10. reserved'["owner"] # 0 => Below(requests, reserved'["owner"])
    BY <2>1, <2>7 DEF DispatchTypeOK, Order, Admitters
  <2> QED
    BY <1>1, <2>1, <2>4, <2>6, <2>8, <2>9, <2>10 DEF Order, Rising, Above, Below
<1>3. CASE publication_epoch # seen[a]
  <2>1. UNCHANGED <<publication_epoch, reserved>>
    BY <1>3 DEF Exchange, ExchangeSucceeds
  <2> QED BY <1>1, <2>1 DEF Order, EpochsDiffer, Rising, Above, Below
<1> QED BY <1>2, <1>3

\* What an owner call appends was reserved after all that waits.
LEMMA ReturnKeepsOrder ==
  ASSUME DispatchConstants, DispatchTypeOK, Roles, Order, NEW a \in Admitters, Return(a)
  PROVE  Order'
<1>1. UNCHANGED <<publication_epoch, current, taken>>
      /\ reserved' = [reserved EXCEPT ![a] = 0]
  BY DEF Return, workVars
<1>2. EpochsDiffer'
  BY <1>1 DEF DispatchTypeOK, Order, EpochsDiffer
<1>3. \A b \in Admitters : reserved'[b] # 0 => reserved'[b] = reserved[b]
  BY <1>1 DEF DispatchTypeOK
<1>4. CASE UNCHANGED requests
  BY <1>1, <1>2, <1>3, <1>4 DEF Order, Rising, Above, Below, Admitters
<1>5. CASE requests' = <<>>
  BY <1>1, <1>2, <1>3, <1>5, EmptySeq DEF Order, Rising, Above, Below, Admitters
<1>6. CASE requests' = Append(requests, reserved[a]) /\ calling[a] = "request"
  <2>1. a = "owner" /\ reserved[a] # 0
    BY <1>6 DEF Roles, Admitters, Return
  <2>2. /\ reserved[a] \in Nat /\ Len(requests) \in Nat
        /\ Len(requests') = Len(requests) + 1
        /\ \A i \in 1..Len(requests) : requests'[i] = requests[i]
                                      /\ requests[i] \in Nat
        /\ requests'[Len(requests) + 1] = reserved[a]
    BY <1>6, AppendProperties, LenProperties, ElementOfSeq DEF DispatchTypeOK
  <2>3. \A i \in 1..Len(requests') : requests'[i] = IF i = Len(requests) + 1
                                     THEN reserved[a] ELSE requests[i]
    BY <2>2
  <2>4. /\ current < reserved[a] /\ reserved[a] <= publication_epoch
        /\ Below(requests, reserved[a]) /\ Below(taken, reserved[a])
    BY <2>1 DEF Order, EpochsDiffer
  <2>5. Rising(requests')
    BY <2>2, <2>3, <2>4 DEF Order, Rising, Below
  <2>6. Above(current, requests') /\ Below(requests', publication_epoch + 1)
    <3>1. Above(current, requests')
      BY <2>2, <2>3, <2>4 DEF Order, Above
    <3>2. Below(requests, publication_epoch + 1)
          /\ reserved[a] < publication_epoch + 1
      BY <2>2, <2>4 DEF DispatchTypeOK, Order
    <3> QED BY <2>2, <2>3, <3>1, <3>2 DEF Below
  <2>7. \A i \in 1..Len(taken), j \in 1..Len(requests') : taken[i] < requests'[j]
    BY <2>2, <2>3, <2>4 DEF Order, Below
  <2>8. reserved'["owner"] = 0
    BY <1>1, <2>1 DEF DispatchTypeOK, Admitters
  <2> QED
    BY <1>1, <1>2, <1>3, <2>5, <2>6, <2>7, <2>8 DEF Order, Rising, Above, Below
<1> QED BY <1>4, <1>5, <1>6 DEF Return, ownerVars

LEMMA OrderNext ==
  ASSUME DispatchConstants, DispatchTypeOK, Roles, Order, Startup, [DispatchNext]_dispatchVars
  PROVE  Order'
<1>1. ASSUME NEW a \in Admitters, Exchange(a) PROVE Order'
  BY <1>1, ExchangeKeepsOrder
<1>2. ASSUME NEW a \in Admitters, Return(a) PROVE Order'
  BY <1>2, ReturnKeepsOrder
<1>3. CASE CreateCoordinator
  <2>1. taken = <<>> /\ requests = <<>> /\ \A a \in Admitters : reserved[a] = 0
    BY <1>3 DEF CreateCoordinator, Startup, Roles, OwnerFree, FailureFree, Admitters
  <2>2. UNCHANGED <<taken, requests, reserved>> /\ current' = publication_epoch'
        /\ publication_epoch' \in Nat
    BY <1>3 DEF CreateCoordinator, ownerVars, callVars, Higher, DispatchTypeOK,
                DispatchConstants
  <2> QED
    BY <2>1, <2>2, EmptySeq
       DEF Order, EpochsDiffer, Rising, Above, Below, Admitters
<1>4. CASE TakeRequests
  <2>1. taken = <<>> /\ taken' = requests /\ requests' = <<>>
        /\ UNCHANGED <<publication_epoch, current, reserved>>
    BY <1>4 DEF TakeRequests, callVars
  <2>2. \A a \in Admitters : reserved[a] = 0
    BY <1>4 DEF TakeRequests, Roles, OwnerFree, Admitters
  <2> QED
    BY <2>1, <2>2, EmptySeq
       DEF Order, EpochsDiffer, Rising, Above, Below, Admitters
<1>5. CASE ProcessRequest
  <2>1. taken # <<>> /\ taken' = Tail(taken) /\ current' = Head(taken)
        /\ UNCHANGED <<publication_epoch, requests, reserved>>
    BY <1>5 DEF ProcessRequest, StartCutoff, ownerVars, callVars
  <2>2. Head(taken) = taken[1] /\ Len(taken) \in Nat \ {0} /\ taken[1] \in Nat
    BY <2>1, EmptySeq, ElementOfSeq DEF DispatchTypeOK
  <2>3. Len(taken') = Len(taken) - 1
        /\ \A i \in 1..Len(taken') : taken'[i] = taken[i + 1] /\ i + 1 \in 1..Len(taken)
                                    /\ taken[i + 1] \in Nat
    BY <2>1, <2>2, HeadTailProperties, ElementOfSeq DEF DispatchTypeOK
  <2>4. 1 \in 1..Len(taken)
    BY <2>2
  <2>5. current' <= publication_epoch /\ Above(current', requests)
    BY SMTT(60), <2>1, <2>2, <2>4 DEF DispatchTypeOK, Order, Above, Below
  <2>6. EpochsDiffer'
    BY <2>1, <2>2, <2>4 DEF DispatchTypeOK, Order, EpochsDiffer, Below
  <2>7. Above(current', taken') /\ Rising(taken')
    BY <2>1, <2>2, <2>3, <2>4 DEF Order, Rising, Above
  <2>8. /\ Below(taken', publication_epoch + 1)
        /\ \A a \in Admitters : reserved[a] # 0 => Below(taken', reserved[a])
        /\ \A i \in 1..Len(taken'), j \in 1..Len(requests) : taken'[i] < requests[j]
    BY <2>3 DEF Order, Below
  <2> QED
    BY <2>1, <2>5, <2>6, <2>7, <2>8 DEF Order, Rising, Above, Below
<1>6. CASE AdvanceEpoch
  <2>1. /\ taken = <<>> /\ publication_epoch = current
        /\ publication_epoch' = current + 1 /\ current' = current + 1
        /\ UNCHANGED <<taken, requests, reserved>>
    BY <1>6 DEF AdvanceEpoch, MayAdvance, AdvancesTo, StartCutoff, ownerVars, callVars
  <2>2. \A a \in Admitters : reserved[a] = 0
    BY <2>1 DEF DispatchTypeOK, Order, EpochsDiffer
  <2>3. \A i \in 1..Len(requests) : FALSE
    BY <2>1, ElementOfSeq DEF DispatchTypeOK, Order, Above, Below
  <2> QED
    BY <2>1, <2>2, <2>3, EmptySeq
       DEF DispatchTypeOK, Order, EpochsDiffer, Rising, Above, Below, Admitters
<1>7. CASE UNCHANGED <<publication_epoch, current, taken, requests, reserved>>
  BY <1>7 DEF Order, EpochsDiffer, Rising, Above, Below
<1> QED
  BY <1>1, <1>2, <1>3, <1>4, <1>5, <1>6, <1>7, EpochsAreStill

-----------------------------------------------------------------------------
\* A broadcast comes up only if nothing was cut before.

LEMMA StartupInit ==
  ASSUME DispatchInit
  PROVE  Startup
BY DEF DispatchInit, Startup, Admitters

LEMMA StartupNext ==
  ASSUME DispatchTypeOK, Roles, Startup, [DispatchNext]_dispatchVars
  PROVE  Startup'
<1>1. CASE Request
  BY <1>1 DEF Request, MayRequest, workVars, Startup
<1>2. CASE RequestStop
  BY <1>2 DEF RequestStop, Enter, DispatchTypeOK, Admitters, Startup, ownerVars, workVars,
              consumerVars
<1>3. CASE Failure
  BY <1>3 DEF Failure, Enter, DispatchTypeOK, Admitters, Startup, ownerVars, workVars
<1>4. ASSUME NEW a \in Admitters, Exchange(a) PROVE Startup'
  BY <1>4 DEF Exchange, Startup, ownerVars, workVars, consumerVars
<1>5. ASSUME NEW a \in Admitters, Cut(a) PROVE Startup'
  <2>1. UNCHANGED <<ownerVars, failed, calling, workVars, floor>>
    BY <1>5 DEF Cut
  <2>2. failed \/ calling["owner"] # "idle"
    BY <1>5 DEF Cut, Roles, Admitters
  <2> QED BY <2>1, <2>2 DEF Startup, ownerVars, workVars
<1>6. ASSUME NEW a \in Admitters, Return(a) PROVE Startup'
  <2>1. SUFFICES ASSUME pc' = "starting" PROVE Startup'
    BY DEF Startup
  <2>2. UNCHANGED <<workVars, failed>> /\ pc = "starting"
        /\ calling' = [calling EXCEPT ![a] = "idle"]
    BY <1>6, <2>1 DEF Return, workVars
  <2>3. calling[a] # "idle"
    BY <1>6 DEF Return, Roles
  <2>4. CASE a = "owner"
    <3>1. requests' = <<>> /\ stopping'
      BY <1>6, <2>2, <2>3, <2>4 DEF Return, Roles, Startup
    <3> QED BY <2>2, <2>4, <3>1 DEF Startup, workVars, DispatchTypeOK, Admitters
  <2>5. CASE a = "failure"
    <3>1. failed /\ UNCHANGED ownerVars
      BY <1>6, <2>3, <2>5 DEF Return, Roles
    <3> QED BY <2>2, <2>5, <3>1 DEF Startup, workVars, ownerVars, DispatchTypeOK, Admitters
  <2> QED BY <2>4, <2>5 DEF Admitters
<1>7. CASE AddConsumer
  BY <1>7 DEF AddConsumer, Startup, ownerVars, workVars, consumerVars, callVars
<1>8. ASSUME WorkerStep, ~AddConsumer PROVE pc' # "starting"
  BY <1>8 DEF WorkerStep, CreateCoordinator, Stop, TakeRequests, ProcessRequest,
              AdvanceEpoch, StartCutoff, WorkerCut, WorkerReturn, StartDispatch,
              CheckEpoch, Ignore, Take
<1>9. CASE UNCHANGED dispatchVars
  BY <1>9 DEF Startup, dispatchVars, ownerVars, workVars, consumerVars, callVars
<1> QED
  BY <1>1, <1>2, <1>3, <1>4, <1>5, <1>6, <1>7, <1>8, <1>9 DEF DispatchNext, Admission, Startup

-----------------------------------------------------------------------------
\* How far a cutoff has got.

LEMMA CutOverRaises ==
  ASSUME DispatchTypeOK, NEW c \in Consumers, NEW e \in Nat, CutOver(c, e)
  PROVE  /\ epoch'[c] >= e
         /\ \A d \in Consumers : epoch'[d] >= epoch[d] /\ epoch'[d] \in Nat
         /\ \A d \in Consumers :
              \/ epoch'[d] = epoch[d] /\ needs_headers'[d] = needs_headers[d]
              \/ d = c /\ epoch'[d] = e
<1>1. \A d \in Consumers : epoch[d] \in Nat
  BY DEF DispatchTypeOK
<1>2. CASE e <= epoch[c]
  <2>1. epoch' = epoch /\ needs_headers' = needs_headers
    BY <1>2 DEF CutOver, consumerVars
  <2> QED BY <1>1, <1>2, <2>1
<1>3. CASE ~(e <= epoch[c])
  <2>1. \A d \in Consumers : epoch'[d] = (IF d = c THEN e ELSE epoch[d])
    BY <1>3 DEF DispatchTypeOK, CutOver
  <2>2. \A d \in Consumers : d # c => needs_headers'[d] = needs_headers[d]
    BY <1>3 DEF DispatchTypeOK, CutOver
  <2>3. e > epoch[c]
    BY <1>1, <1>3
  <2> QED BY <1>1, <2>1, <2>2, <2>3
<1> QED BY <1>2, <1>3

LEMMA CutoffsInit ==
  ASSUME DispatchInit
  PROVE  Cutoffs
BY DEF DispatchInit, Cutoffs, Up

LEMMA CutKeepsCutoffs ==
  ASSUME DispatchTypeOK, Order, Cutoffs, NEW a \in Admitters, Cut(a)
  PROVE  Cutoffs'
<1>1. PICK c \in uncut[a] : /\ CutOver(c, reserved[a])
                           /\ uncut' = [uncut EXCEPT ![a] = @ \ {c}]
  BY DEF Cut
<1>2. c \in Consumers /\ reserved[a] \in Nat /\ reserved[a] # 0
      /\ UNCHANGED <<consumers, reserved, pc, todo, current, floor, handed>>
  BY <1>1 DEF DispatchTypeOK, Cut, workVars
<1>3. /\ epoch'[c] >= reserved[a]
      /\ \A d \in Consumers : epoch'[d] >= epoch[d] /\ epoch'[d] \in Nat
      /\ \A d \in Consumers : epoch'[d] = epoch[d] \/ d = c
  BY <1>1, <1>2, CutOverRaises
<1>4. current < reserved[a]
  BY <1>2 DEF Order, EpochsDiffer
<1>5. \A d \in Consumers : handed'[d] <= epoch'[d]
  BY <1>2, <1>3 DEF DispatchTypeOK, Cutoffs
<1>6. Up' => \A d \in Consumers : floor' <= epoch'[d]
  BY <1>2, <1>3 DEF DispatchTypeOK, Cutoffs, Up
<1>7. ASSUME Up', NEW b \in Admitters, reserved'[b] # 0,
             NEW d \in Consumers \ uncut'[b]
      PROVE  epoch'[d] >= reserved'[b]
  <2>1. d \notin uncut[b] \/ (b = a /\ d = c)
    BY <1>1, <1>7 DEF DispatchTypeOK
  <2>2. CASE d \notin uncut[b]
    BY <1>2, <1>3, <1>7, <2>2 DEF DispatchTypeOK, Cutoffs, Up
  <2>3. CASE b = a /\ d = c
    BY <1>2, <1>3, <2>3
  <2> QED BY <2>1, <2>2, <2>3
<1>8. ASSUME Up', NEW d \in Consumers
      PROVE  IF pc' = "cutoff" THEN d \notin todo' => epoch'[d] >= current'
             ELSE epoch'[d] # 0 => epoch'[d] >= current'
  <2>1. CASE d = c
    BY <1>2, <1>3, <1>4, <2>1 DEF DispatchTypeOK
  <2>2. CASE d # c
    BY <1>2, <1>3, <1>8, <2>2 DEF Cutoffs, Up
  <2> QED BY <2>1, <2>2
<1> QED BY <1>2, <1>5, <1>6, <1>7, <1>8 DEF Cutoffs, Up

LEMMA ReturnKeepsCutoffs ==
  ASSUME DispatchTypeOK, Cutoffs, NEW a \in Admitters, Return(a)
  PROVE  Cutoffs'
<1>1. /\ reserved[a] # 0 /\ uncut[a] = {}
      /\ reserved' = [reserved EXCEPT ![a] = 0] /\ floor' = Higher(floor, reserved[a])
      /\ UNCHANGED <<consumers, epoch, uncut, pc, todo, current, handed>>
  BY DEF Return, consumerVars, workVars
<1>2. \A b \in Admitters : reserved'[b] # 0 => reserved'[b] = reserved[b]
  BY <1>1 DEF DispatchTypeOK
<1>3. Up => \A c \in Consumers : floor' <= epoch[c]
  BY <1>1 DEF DispatchTypeOK, Cutoffs, Higher
<1> QED BY <1>1, <1>2, <1>3 DEF Cutoffs, Up

LEMMA WorkerCutKeepsCutoffs ==
  ASSUME DispatchTypeOK, Order, Cutoffs, WorkerCut
  PROVE  Cutoffs'
<1>1. PICK c \in todo : CutOver(c, current) /\ todo' = todo \ {c}
  BY DEF WorkerCut
<1>2. /\ c \in Consumers /\ current \in Nat /\ pc = "cutoff"
      /\ UNCHANGED <<consumers, reserved, uncut, pc, current, floor, handed>>
  BY <1>1 DEF DispatchTypeOK, WorkerCut, callVars
<1>3. /\ epoch'[c] >= current
      /\ \A d \in Consumers : epoch'[d] >= epoch[d] /\ epoch'[d] \in Nat
  BY <1>1, <1>2, CutOverRaises
<1>4. \A d \in Consumers : handed'[d] <= epoch'[d] /\ floor' <= epoch'[d]
  BY <1>2, <1>3 DEF DispatchTypeOK, Cutoffs, Up
<1>5. \A b \in Admitters : reserved'[b] # 0 =>
        \A d \in Consumers \ uncut'[b] : epoch'[d] >= reserved'[b]
  BY <1>2, <1>3 DEF DispatchTypeOK, Cutoffs, Up
<1>6. \A d \in Consumers : d \notin todo' => epoch'[d] >= current'
  BY <1>1, <1>2, <1>3 DEF DispatchTypeOK, Cutoffs, Up
<1> QED BY <1>2, <1>4, <1>5, <1>6 DEF Cutoffs, Up

\* A batch that is not old is of the coordinator's epoch, so what it is handed
\* to is at that epoch or behind.
LEMMA TakeKeepsCutoffs ==
  ASSUME DispatchTypeOK, Roles, Cutoffs, Headers, Take
  PROVE  Cutoffs'
<1>1. /\ target \in Consumers /\ batch.epoch = current /\ batch.epoch \in Nat
      /\ epoch[target] <= current /\ Up /\ Up' /\ pc # "cutoff" /\ pc' # "cutoff"
      /\ UNCHANGED <<consumers, reserved, uncut, current, floor>>
  BY DEF Take, Roles, Headers, Dispatching, Old, Up, DispatchTypeOK, callVars
<1>2. CASE Rejects(target)
  BY <1>1, <1>2 DEF Take, consumerVars, Cutoffs
<1>3. CASE ~Rejects(target)
  <2>1. /\ epoch' = [epoch EXCEPT ![target] = current]
        /\ handed' = [handed EXCEPT ![target] = current]
    BY <1>1, <1>3 DEF Take
  <2>2. \A d \in Consumers : epoch'[d] >= epoch[d] /\ epoch'[d] \in Nat
    BY <1>1, <2>1 DEF DispatchTypeOK
  <2>3. \A d \in Consumers : handed'[d] <= epoch'[d] /\ floor' <= epoch'[d]
    BY <1>1, <2>1, <2>2 DEF DispatchTypeOK, Cutoffs
  <2>4. \A b \in Admitters : reserved'[b] # 0 =>
          \A d \in Consumers \ uncut'[b] : epoch'[d] >= reserved'[b]
    BY <1>1, <2>2 DEF DispatchTypeOK, Cutoffs
  <2>5. \A d \in Consumers : epoch'[d] # 0 => epoch'[d] >= current'
    BY <1>1, <2>1 DEF DispatchTypeOK, Cutoffs
  <2> QED BY <1>1, <2>3, <2>4, <2>5 DEF Cutoffs
<1> QED BY <1>2, <1>3

LEMMA CutoffsNext ==
  ASSUME DispatchConstants, DispatchTypeOK, Roles, Order, Startup, Cutoffs, Headers,
         [DispatchNext]_dispatchVars
  PROVE  Cutoffs'
<1>1. CASE Request \/ RequestStop \/ Failure
  <2>1. UNCHANGED <<consumers, epoch, reserved, uncut, pc, todo, current, floor, handed>>
    BY <1>1 DEF Request, RequestStop, Failure, Enter, consumerVars, workVars
  <2> QED BY <2>1 DEF Cutoffs, Up
<1>2. ASSUME NEW a \in Admitters, Exchange(a) PROVE Cutoffs'
  <2>1. UNCHANGED <<consumers, epoch, pc, todo, current, floor, handed>>
    BY <1>2 DEF Exchange, consumerVars, workVars
  <2>2. \/ UNCHANGED <<reserved, uncut>>
        \/ /\ uncut' = [uncut EXCEPT ![a] = consumers]
           /\ \A b \in Admitters : b # a => reserved'[b] = reserved[b]
    BY <1>2 DEF Exchange, DispatchTypeOK
  <2>3. Up => \A b \in Admitters : reserved'[b] # 0 =>
          \A c \in Consumers \ uncut'[b] : epoch'[c] >= reserved'[b]
    BY <2>1, <2>2 DEF DispatchTypeOK, Cutoffs
  <2> QED BY <2>1, <2>3 DEF Cutoffs, Up
<1>3. ASSUME NEW a \in Admitters, Cut(a) PROVE Cutoffs'
  BY <1>3, CutKeepsCutoffs
<1>4. ASSUME NEW a \in Admitters, Return(a) PROVE Cutoffs'
  BY <1>4, ReturnKeepsCutoffs
<1>5. CASE AddConsumer \/ Stop
  <2>1. ~Up' /\ UNCHANGED <<epoch, handed>>
    BY <1>5 DEF AddConsumer, Stop, Up, consumerVars, workVars
  <2> QED BY <2>1 DEF Cutoffs
<1>6. CASE CreateCoordinator
  <2>1. /\ consumers' = Consumers /\ pc' = "idle" /\ floor' = 0
        /\ \A c \in Consumers : epoch'[c] = 0
        /\ \A a \in Admitters : reserved'[a] = 0
        /\ UNCHANGED <<epoch, handed>>
    BY <1>6 DEF CreateCoordinator, Startup, Roles, OwnerFree, FailureFree,
                Admitters, consumerVars, callVars
  <2> QED BY <2>1 DEF Cutoffs, Up
<1>7. CASE ProcessRequest \/ AdvanceEpoch
  <2>1. /\ pc = "idle" /\ pc' = "cutoff" /\ todo' = consumers
        /\ UNCHANGED <<consumers, epoch, reserved, uncut, floor, handed>>
    BY <1>7 DEF ProcessRequest, AdvanceEpoch, StartCutoff, consumerVars, callVars
  <2> QED BY <2>1 DEF Cutoffs, Up
<1>8. CASE WorkerCut
  BY <1>8, WorkerCutKeepsCutoffs
<1>9. CASE WorkerReturn
  <2>1. /\ pc = "cutoff" /\ todo = {} /\ pc' = "idle" /\ floor' = Higher(floor, current)
        /\ UNCHANGED <<consumers, epoch, reserved, uncut, current, handed>>
    BY <1>9 DEF WorkerReturn, consumerVars, callVars
  <2>2. \A c \in Consumers : epoch[c] >= current /\ floor' <= epoch[c]
    BY <2>1 DEF DispatchTypeOK, Cutoffs, Up, Higher
  <2> QED BY <2>1, <2>2 DEF Cutoffs, Up
<1>10. CASE TakeRequests \/ StartDispatch \/ CheckEpoch \/ Ignore
  <2>1. /\ Up /\ Up' /\ pc # "cutoff" /\ pc' # "cutoff"
        /\ UNCHANGED <<consumers, epoch, reserved, uncut, current, floor, handed>>
    BY <1>10 DEF TakeRequests, StartDispatch, CheckEpoch, Ignore, Up, consumerVars,
                 callVars
  <2> QED BY <2>1 DEF Cutoffs
<1>11. CASE Take
  BY <1>11, TakeKeepsCutoffs
<1>12. CASE UNCHANGED dispatchVars
  BY <1>12 DEF dispatchVars, Cutoffs, Up, consumerVars, callVars, workVars
<1> QED
  BY <1>1, <1>2, <1>3, <1>4, <1>5, <1>6, <1>7, <1>8, <1>9, <1>10, <1>11, <1>12
     DEF DispatchNext, Admission, WorkerStep

-----------------------------------------------------------------------------
\* Where the headers of the epoch are.

LEMMA HeadersInit ==
  ASSUME DispatchInit
  PROVE  Headers
BY DEF DispatchInit, Headers, Up, Dispatching

\* A cutoff to an epoch the coordinator has not reached leaves nobody waiting
\* for headers of the coordinator's.
LEMMA CutKeepsHeaders ==
  ASSUME DispatchTypeOK, Roles, Order, Headers, NEW a \in Admitters, Cut(a)
  PROVE  Headers'
<1>1. PICK c \in uncut[a] : CutOver(c, reserved[a])
  BY DEF Cut
<1>2. /\ c \in Consumers /\ reserved[a] \in Nat /\ current < reserved[a]
      /\ UNCHANGED <<publication_epoch, workVars, threw>>
  BY <1>1 DEF DispatchTypeOK, Cut, Order, EpochsDiffer
<1>3. \A d \in Consumers :
        \/ epoch'[d] = epoch[d] /\ needs_headers'[d] = needs_headers[d]
        \/ d = c /\ epoch'[d] = reserved[a]
  BY <1>1, <1>2, CutOverRaises
<1>4. \A d \in Consumers : Waiting(d)' => Waiting(d)
  <2> SUFFICES ASSUME NEW d \in Consumers, Waiting(d)' PROVE Waiting(d)
    OBVIOUS
  <2>1. needs_headers'[d] /\ epoch'[d] <= current
    BY <1>2 DEF Waiting, workVars
  <2>2. current \in Nat
    BY DEF DispatchTypeOK
  <2>3. epoch'[d] # reserved[a]
    BY <1>2, <2>1, <2>2
  <2>4. epoch'[d] = epoch[d] /\ needs_headers'[d] = needs_headers[d]
    BY <1>3, <2>3
  <2> QED BY <2>1, <2>4 DEF Waiting
<1>5. /\ UNCHANGED <<pc, selected, batch, current, publication_epoch, threw>>
      /\ target' = target /\ Unreached' = Unreached /\ Up' = Up
      /\ Dispatching' = Dispatching
  BY <1>2 DEF Unreached, Dispatching, Up, workVars
<1>6. pc = "consume" /\ Waiting(target)' => batch.headers
  BY <1>4, <1>5 DEF Headers, Roles
<1> QED
  BY <1>4, <1>5, <1>6 DEF Headers

LEMMA WorkerCutKeepsHeaders ==
  ASSUME Headers, WorkerCut
  PROVE  Headers'
BY DEF Headers, WorkerCut, Dispatching

\* Consumers behind or at the epoch of the batch have had its headers, or get
\* them with it: nothing is refused.
LEMMA TakeKeepsHeaders ==
  ASSUME DispatchTypeOK, Roles, Cutoffs, Headers, Take
  PROVE  Headers'
<1>1. /\ target \in Consumers /\ batch.epoch = current /\ batch.headers \in BOOLEAN
      /\ Up /\ pc = "consume" /\ pc' = "check" /\ selected /\ ~threw
      /\ UNCHANGED <<publication_epoch, current, selected, batch, todo>>
  BY DEF Take, Roles, Headers, Dispatching, Up
<1>2. epoch[target] \in Nat /\ current \in Nat /\ epoch[target] <= current
  BY <1>1 DEF Take, Old, DispatchTypeOK
<1>3. epoch[target] # 0 => epoch[target] >= current
  BY <1>1 DEF Cutoffs, Up
<1>4. needs_headers[target] => batch.headers
  BY <1>1, <1>2 DEF Headers, Waiting
<1>5. ~Rejects(target)
  <2>1. ~(epoch[target] # 0 /\ batch.epoch > epoch[target])
    BY <1>1, <1>2, <1>3
  <2> QED BY <1>4, <2>1 DEF Rejects
<1>6. /\ needs_headers' = [needs_headers EXCEPT ![target] = @ /\ ~batch.headers]
      /\ epoch' = [epoch EXCEPT ![target] = current] /\ ~threw'
  BY <1>1, <1>5 DEF Take
<1>7. ~needs_headers'[target]
  <2>1. needs_headers'[target] = (needs_headers[target] /\ ~batch.headers)
    BY <1>1, <1>6 DEF DispatchTypeOK
  <2> QED BY <1>4, <2>1
<1>8. \A c \in Consumers \ {target} : needs_headers'[c] = needs_headers[c]
                                     /\ epoch'[c] = epoch[c]
  BY <1>6 DEF DispatchTypeOK
<1>9. ASSUME publication_epoch = current, NEW c \in Consumers, Waiting(c)'
      PROVE  c \in todo /\ batch.headers
  <2>1. c # target
    BY <1>7, <1>9 DEF Waiting
  <2>2. Waiting(c)
    BY <1>1, <1>8, <1>9, <2>1 DEF Waiting
  <2> QED BY <1>1, <1>9, <2>1, <2>2 DEF Headers, Unreached, Dispatching
<1>10. Dispatching' /\ todo \subseteq Unreached'
  BY <1>1 DEF Dispatching, Unreached
<1> QED
  BY <1>1, <1>6, <1>9, <1>10 DEF Headers

LEMMA HeadersNext ==
  ASSUME DispatchConstants, DispatchTypeOK, Roles, Order, Startup, Cutoffs, Headers,
         [DispatchNext]_dispatchVars
  PROVE  Headers'
<1>1. CASE Request \/ RequestStop \/ Failure
  <2>1. UNCHANGED <<publication_epoch, consumerVars, workVars, threw>>
    BY <1>1 DEF Request, RequestStop, Failure, Enter
  <2> QED
    BY <2>1 DEF Headers, Unreached, Waiting, Dispatching, Up, consumerVars, workVars
<1>2. ASSUME NEW a \in Admitters, Exchange(a) PROVE Headers'
  <2>1. UNCHANGED <<consumerVars, workVars, threw>>
    BY <1>2 DEF Exchange
  <2>2. publication_epoch' = publication_epoch \/ publication_epoch' # current
    BY <1>2 DEF Exchange, ExchangeSucceeds, Higher, DispatchTypeOK, DispatchConstants, Order
  <2> QED
    BY <2>1, <2>2
       DEF Headers, Unreached, Waiting, Dispatching, Up, consumerVars, workVars
<1>3. ASSUME NEW a \in Admitters, Cut(a) PROVE Headers'
  BY <1>3, CutKeepsHeaders
<1>4. ASSUME NEW a \in Admitters, Return(a) PROVE Headers'
  <2>1. UNCHANGED <<publication_epoch, consumerVars, workVars, threw>>
    BY <1>4 DEF Return
  <2> QED
    BY <2>1 DEF Headers, Unreached, Waiting, Dispatching, Up, consumerVars, workVars
<1>5. CASE AddConsumer \/ Stop
  <2>1. ~Up' /\ threw' = threw /\ ~Dispatching' /\ pc' \notin {"cutoff", "consume"}
    BY <1>5 DEF AddConsumer, Stop, Up, Dispatching, workVars
  <2> QED BY <2>1 DEF Headers
<1>6. CASE CreateCoordinator
  <2>1. pc' = "idle" /\ ~selected' /\ threw' = threw
    BY <1>6 DEF CreateCoordinator, Startup
  <2> QED BY <2>1 DEF Headers, Dispatching
<1>7. CASE ProcessRequest \/ AdvanceEpoch
  <2>1. pc' = "cutoff" /\ ~selected' /\ threw' = threw
    BY <1>7 DEF ProcessRequest, AdvanceEpoch, StartCutoff
  <2> QED BY <2>1 DEF Headers, Dispatching
<1>8. CASE WorkerCut
  BY <1>8, WorkerCutKeepsHeaders
<1>9. CASE WorkerReturn
  <2>1. pc' = "idle" /\ ~selected' /\ threw' = threw
    BY <1>9 DEF WorkerReturn, Headers
  <2> QED BY <2>1 DEF Headers, Dispatching
<1>10. CASE TakeRequests
  <2>1. UNCHANGED <<publication_epoch, consumerVars, pc, current, selected, batch,
                    target, todo, threw>>
    BY <1>10 DEF TakeRequests
  <2> QED BY <2>1 DEF Headers, Unreached, Waiting, Dispatching, Up, consumerVars
<1>11. CASE StartDispatch
  <2>1. /\ pc = "idle" /\ pc' = "check" /\ todo' = consumers /\ selected'
        /\ batch'.epoch = current /\ (selected \/ batch'.headers)
        /\ UNCHANGED <<publication_epoch, consumerVars, current, threw>>
    BY <1>11 DEF StartDispatch
  <2>2. consumers = Consumers /\ Unreached' = consumers
    BY <2>1 DEF Cutoffs, Up, Unreached, Dispatching
  <2>3. selected /\ publication_epoch = current =>
          \A c \in Consumers : ~Waiting(c)
    BY <2>1 DEF Headers, Unreached, Dispatching, Up
  <2>4. \A c \in Consumers : Waiting(c)' <=> Waiting(c)
    BY <2>1 DEF Waiting, consumerVars
  <2> QED BY <2>1, <2>2, <2>3, <2>4 DEF Headers, Dispatching
<1>12. CASE CheckEpoch
  <2>1. /\ pc = "check" /\ Up /\ Up' /\ selected
        /\ batch.epoch = current /\ batch.epoch \in Nat
        /\ UNCHANGED <<publication_epoch, consumerVars, current, selected, batch,
                        threw>>
    BY <1>12 DEF CheckEpoch, Headers, Roles, Dispatching, Up
  <2>2. \A c \in Consumers : Waiting(c)' <=> Waiting(c)
    BY <2>1 DEF Waiting, consumerVars
  <2>3. CASE todo = {} \/ Retired
    <3>1. pc' = "idle"
      BY <1>12, <2>3 DEF CheckEpoch
    <3>2. publication_epoch = current => \A c \in Consumers : ~Waiting(c)
      BY <2>1, <2>3 DEF Headers, Unreached, Dispatching, Retired, DispatchTypeOK
    <3> QED BY <2>1, <2>2, <3>1, <3>2 DEF Headers, Dispatching
  <2>4. CASE ~(todo = {} \/ Retired)
    <3>1. target' \in todo /\ todo' = todo \ {target'} /\ pc' = "consume"
      BY <1>12, <2>4 DEF CheckEpoch
    <3>2. publication_epoch = current
      BY <2>1, <2>4 DEF Retired, Order, DispatchTypeOK
    <3>3. Unreached = todo /\ Unreached' = todo
      BY <2>1, <3>1 DEF Unreached, Dispatching
    <3>4. \A c \in Consumers : Waiting(c) => batch.headers /\ c \in todo
      BY <2>1, <3>2, <3>3 DEF Headers
    <3>5. target' \in Consumers /\ (Waiting(target)' => batch'.headers)
      BY <2>1, <3>1, <3>4 DEF DispatchTypeOK, Waiting, consumerVars
    <3> QED
      BY <2>1, <2>2, <3>1, <3>3, <3>4, <3>5 DEF Headers, Dispatching
  <2> QED BY <2>3, <2>4
<1>13. CASE Ignore
  <2>1. /\ pc = "consume" /\ pc' = "check" /\ target \in Consumers
        /\ batch.epoch = current /\ batch.epoch < epoch[target]
        /\ UNCHANGED <<publication_epoch, consumerVars, current, selected, batch,
                        todo, threw>>
    BY <1>13 DEF Ignore, Old, Headers, Roles, Dispatching
  <2>2. ~Waiting(target)
    BY <2>1 DEF Waiting, DispatchTypeOK
  <2>3. \A c \in Consumers : Waiting(c)' <=> Waiting(c)
    BY <2>1 DEF Waiting, consumerVars
  <2>4. Unreached = todo \cup {target} /\ Unreached' = todo
    BY <2>1 DEF Unreached, Dispatching
  <2> QED
    BY <2>1, <2>2, <2>3, <2>4 DEF Headers, Dispatching, Up
<1>14. CASE Take
  BY <1>14, TakeKeepsHeaders
<1>15. CASE UNCHANGED dispatchVars
  BY <1>15
     DEF dispatchVars, Headers, Unreached, Waiting, Dispatching, Up, consumerVars, workVars
<1> QED
  BY <1>1, <1>2, <1>3, <1>4, <1>5, <1>6, <1>7, <1>8, <1>9, <1>10, <1>11, <1>12,
     <1>13, <1>14, <1>15 DEF DispatchNext, Admission, WorkerStep

-----------------------------------------------------------------------------
LEMMA InvInvariant == DispatchSpec => []Inv
<1>1. DispatchInit => Inv
  BY DispatchConstants, TypesInit, OrderInit, StartupInit, CutoffsInit, HeadersInit
     DEF Inv
<1>2. Inv /\ [DispatchNext]_dispatchVars => Inv'
  BY DispatchConstants, TypesNext, OrderNext, StartupNext, CutoffsNext, HeadersNext
     DEF Inv
<1> QED BY <1>1, <1>2, PTL DEF DispatchSpec

\* Every variable keeps its type, and the owner never holds more actions than
\* it admits though the check and the append are apart.
THEOREM DispatchTypes == DispatchSpec => []DispatchTypeOK
<1>1. Inv => DispatchTypeOK
  BY DEF Inv
<1> QED BY <1>1, InvInvariant, PTL

\* No order of admissions, cutoffs, feed changes and batches makes a consumer
\* refuse a batch, whatever the number of consumers and actions.
THEOREM NeverRefuses == DispatchSpec => []NothingRefused
<1>1. Inv => NothingRefused
  BY DEF Inv, Headers, NothingRefused
<1> QED BY <1>1, InvInvariant, PTL

\* Reservations in progress are all different and newer than the coordinator.
THEOREM EpochsAreDistinct == DispatchSpec => []EpochsDiffer
<1>1. Inv => EpochsDiffer
  BY DEF Inv, Order
<1> QED BY <1>1, InvInvariant, PTL

\* Actions admitted and not processed are newer than the coordinator's epoch
\* and in the order of their admission.
THEOREM ActionsStayAhead == DispatchSpec => []ActionsAhead
<1>1. ASSUME Inv PROVE ActionsAhead
  <2> DEFINE pending == taken \o requests
             n == Len(taken)
  <2>1. n \in Nat /\ Len(requests) \in Nat
    BY <1>1, LenProperties DEF Inv, DispatchTypeOK
  <2>2. /\ pending \in Seq(Nat) /\ Len(pending) = n + Len(requests)
        /\ \A i \in 1..(n + Len(requests)) :
             pending[i] = IF i <= n THEN taken[i] ELSE requests[i - n]
    BY <1>1, ConcatProperties DEF Inv, DispatchTypeOK
  <2>3. DOMAIN pending = 1..(n + Len(requests))
    BY <2>2, LenProperties
  <2> HIDE DEF pending, n
  <2>4. ASSUME NEW i \in DOMAIN pending PROVE pending[i] > current
    <3>1. CASE i <= n
      <4>1. i \in 1..n /\ pending[i] = taken[i]
        BY <2>1, <2>2, <2>3, <2>4, <3>1
      <4> QED BY <1>1, <4>1 DEF Inv, Order, Above, n
    <3>2. CASE ~(i <= n)
      <4>1. i - n \in 1..Len(requests) /\ pending[i] = requests[i - n]
        BY <2>1, <2>2, <2>3, <2>4, <3>2
      <4> QED BY <1>1, <4>1 DEF Inv, Order, Above
    <3> QED BY <3>1, <3>2
  <2>5. ASSUME NEW i \in DOMAIN pending, NEW j \in 1..(i - 1)
        PROVE  pending[j] < pending[i]
    <3>1. i \in 1..(n + Len(requests)) /\ j \in 1..(n + Len(requests)) /\ j < i
      BY <2>1, <2>3
    <3>2. CASE i <= n
      <4>1. /\ i \in 1..n /\ j \in 1..n
            /\ pending[i] = taken[i] /\ pending[j] = taken[j]
        BY <2>1, <2>2, <3>1, <3>2
      <4> QED BY <1>1, <3>1, <4>1 DEF Inv, Order, Rising, n
    <3>3. CASE ~(i <= n) /\ j <= n
      <4>1. /\ i - n \in 1..Len(requests) /\ j \in 1..n
            /\ pending[i] = requests[i - n] /\ pending[j] = taken[j]
        BY SMTT(60), <2>1, <2>2, <3>1, <3>3
      <4> QED BY <1>1, <4>1 DEF Inv, Order, n
    <3>4. CASE ~(j <= n)
      <4>1. /\ i - n \in 1..Len(requests) /\ j - n \in 1..Len(requests)
            /\ j - n < i - n
            /\ pending[i] = requests[i - n] /\ pending[j] = requests[j - n]
        BY SMTT(60), <2>1, <2>2, <3>1, <3>4
      <4> QED BY <1>1, <4>1 DEF Inv, Order, Rising
    <3> QED BY <2>1, <3>1, <3>2, <3>3, <3>4
  <2> QED BY <2>4, <2>5 DEF ActionsAhead, pending
<1> QED BY <1>1, InvInvariant, PTL

\* Both together: every cutoff's epoch is its own and later than those before,
\* from its reservation until the worker reaches it.
THEOREM EpochsStayInOrder == DispatchSpec => []EpochsInOrder
<1>1. EpochsDiffer /\ ActionsAhead => EpochsInOrder
  BY DEF EpochsInOrder
<1> QED BY <1>1, EpochsAreDistinct, ActionsStayAhead, PTL

-----------------------------------------------------------------------------
\* The refinement.

LEMMA FloorSteps ==
  ASSUME DispatchTypeOK, NEW e \in Nat, floor' = Higher(floor, e), UNCHANGED handed
  PROVE  [Fence!Next]_<<floor, handed>>
<1>1. CASE e > floor
  <2>1. floor' = e
    BY <1>1 DEF Higher, DispatchTypeOK
  <2> QED BY <1>1, <2>1 DEF Fence!Next, Fence!Raise
<1>2. CASE ~(e > floor)
  <2>1. floor' = floor
    BY <1>2 DEF Higher, DispatchTypeOK
  <2> QED BY <2>1
<1> QED BY <1>1, <1>2

LEMMA TakeHands ==
  ASSUME Inv, Take
  PROVE  [Fence!Next]_<<floor, handed>>
<1>1. /\ target \in Consumers /\ batch.epoch \in Nat /\ batch.epoch >= epoch[target]
      /\ Up /\ floor' = floor
  BY DEF Inv, Take, Roles, Dispatching, Old, Up, DispatchTypeOK
<1>2. CASE Rejects(target)
  BY <1>1, <1>2 DEF Take
<1>3. CASE ~Rejects(target)
  <2>1. handed' = [handed EXCEPT ![target] = batch.epoch]
    BY <1>3 DEF Take
  <2>2. handed'[target] = batch.epoch
    BY <1>1, <2>1 DEF Inv, DispatchTypeOK
  <2>3. batch.epoch >= floor /\ batch.epoch >= handed[target]
    BY <1>1 DEF Inv, DispatchTypeOK, Cutoffs
  <2>4. Fence!Hand(target)
    BY <1>1, <2>1, <2>2, <2>3 DEF Fence!Hand
  <2> QED BY <1>1, <2>4 DEF Fence!Next
<1> QED BY <1>2, <1>3

LEMMA StepKeepsFence ==
  ASSUME Inv, [DispatchNext]_dispatchVars
  PROVE  [Fence!Next]_<<floor, handed>>
<1>1. ASSUME NEW a \in Admitters, Return(a)
      PROVE  [Fence!Next]_<<floor, handed>>
  BY <1>1, FloorSteps DEF Return, Inv, DispatchTypeOK
<1>2. CASE WorkerReturn
  BY <1>2, FloorSteps DEF WorkerReturn, Inv, DispatchTypeOK
<1>3. CASE Take
  BY <1>3, TakeHands
<1>4. ASSUME \A a \in Admitters : ~Return(a), ~WorkerReturn, ~Take
      PROVE  UNCHANGED <<floor, handed>>
  <2>1. CASE Request \/ RequestStop \/ Failure
    BY <2>1 DEF Request, RequestStop, Failure
  <2>2. CASE \E a \in Admitters : Exchange(a) \/ Cut(a)
    BY <2>2 DEF Exchange, Cut
  <2>3. CASE WorkerStep
    BY <1>4, <2>3
       DEF WorkerStep, AddConsumer, CreateCoordinator, Stop, TakeRequests, ProcessRequest,
           AdvanceEpoch, WorkerCut, StartDispatch, CheckEpoch, Ignore
  <2>4. CASE UNCHANGED dispatchVars
    BY <2>4 DEF dispatchVars
  <2> QED BY <1>4, <2>1, <2>2, <2>3, <2>4 DEF DispatchNext, Admission
<1> QED BY <1>1, <1>2, <1>3, <1>4

\* The threads implement the fence: once the cutoff of an action, a stop, a
\* failure or a change of feed has returned, no consumer is handed media of an
\* older epoch, for any number of consumers and at any point of a dispatch.
THEOREM DispatchKeepsFence == DispatchSpec => KeepsFence
<1>1. DispatchInit => Fence!Init
  BY DEF DispatchInit, Fence!Init
<1>2. Inv /\ [DispatchNext]_dispatchVars => [Fence!Next]_<<floor, handed>>
  BY StepKeepsFence
<1> QED BY <1>1, <1>2, InvInvariant, PTL DEF DispatchSpec, KeepsFence, Fence!Spec
=============================================================================
