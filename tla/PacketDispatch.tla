---------------------------- MODULE PacketDispatch ----------------------------
(***************************************************************************)
(* The publication epoch and who obeys it: released-packet-dispatcher.cpp,  *)
(* network-packet-consumer.cpp, the admission of actions in                 *)
(* pipeline-owner.cpp and the epoch of transition-coordinator.cpp.          *)
(*                                                                          *)
(* Three threads.  The worker of PipelineOwner runs the coordinator and     *)
(* dispatches media.  An owner call (request or request_stop, one at a      *)
(* time: both hold mutex_) and failure() (once, under the failure mutex)    *)
(* each reserve an epoch and cut every consumer over to it, while the       *)
(* worker goes on.  A consumer locks its mutex for the whole of a call, so  *)
(* what happens to one consumer is one action; a dispatch or a cutoff over  *)
(* all of them is not.  floor and handed are not in the code: see           *)
(* PublicationFence.                                                        *)
(***************************************************************************)
EXTENDS Naturals, Sequences

CONSTANTS
  Consumers,   \* what consumer_start_ hands to add_consumer
  OwnerEpoch,  \* PipelineOwner::epoch_, the session's packet epoch
  MaxRequests, \* the 64 pending actions an owner admits
  None

ASSUME DispatchConstants ==
  /\ OwnerEpoch \in Nat /\ MaxRequests \in Nat
  /\ None \notin Nat /\ None \notin Consumers

\* The calls that raise the epoch from outside the worker.
Admitters == {"owner", "failure"}

VARIABLES
  publication_epoch,
  consumers,            \* registered in the dispatcher
  epoch, needs_headers, \* of each NetworkPacketConsumer
  requests, stopping,   \* PipelineOwner: actions admitted, not yet taken
  failed,               \* failure_->error is set
  calling, seen,        \* per admitter: its call, the epoch it last loaded,
  reserved, uncut,      \*   the one it got, the consumers still to cut over
  pc, current,          \* the worker's step; the coordinator's epoch_
  taken,                \* actions the worker has swapped out
  selected,             \* the headers of current have been dispatched
  batch, target, todo,  \* the dispatch or cutoff under way
  threw,                \* a consumer refused a batch
  floor, handed

ownerVars    == <<requests, stopping>>
consumerVars == <<epoch, needs_headers>>
callVars     == <<calling, seen, reserved, uncut>>
workVars     == <<pc, current, taken, selected, batch, target, todo>>
dispatchVars == <<publication_epoch, consumers, consumerVars, ownerVars, failed, callVars,
                  workVars, threw, floor, handed>>

Higher(a, b) == IF a > b THEN a ELSE b

DispatchInit ==
  /\ publication_epoch = 0 /\ consumers = {}
  /\ epoch = [c \in Consumers |-> 0]
  /\ needs_headers = [c \in Consumers |-> FALSE]
  /\ requests = <<>> /\ stopping = FALSE /\ failed = FALSE
  /\ calling = [a \in Admitters |-> "idle"] /\ seen = [a \in Admitters |-> 0]
  /\ reserved = [a \in Admitters |-> 0] /\ uncut = [a \in Admitters |-> {}]
  /\ pc = "starting" /\ current = 0 /\ taken = <<>> /\ selected = FALSE
  /\ batch = None /\ target = None /\ todo = {}
  /\ threw = FALSE
  /\ floor = 0 /\ handed = [c \in Consumers |-> 0]

-----------------------------------------------------------------------------
(* Owner calls and failure(): reserve_epoch, then dispatch_discontinuity.   *)

\* request() once the broadcast is up; requests of a stopping or failed owner
\* are refused.  request_stop() at any time, the first time.
MayRequest == /\ pc \notin {"starting", "stopped"} /\ ~stopping /\ ~failed
              /\ Len(requests) < MaxRequests
MayStop == ~stopping
MayFail == ~failed

Enter(a, kind) == /\ calling' = [calling EXCEPT ![a] = kind]
                  /\ seen' = [seen EXCEPT ![a] = publication_epoch]
                  /\ UNCHANGED <<reserved, uncut>>
Request ==
  /\ calling["owner"] = "idle" /\ MayRequest
  /\ Enter("owner", "request")
  /\ UNCHANGED <<publication_epoch, consumers, consumerVars, ownerVars, failed,
                 workVars, threw, floor, handed>>
RequestStop ==
  /\ calling["owner"] = "idle" /\ MayStop
  /\ Enter("owner", "stop")
  /\ UNCHANGED <<publication_epoch, consumers, consumerVars, ownerVars, failed,
                 workVars, threw, floor, handed>>
Failure ==
  /\ calling["failure"] = "idle" /\ MayFail
  /\ failed' = TRUE
  /\ Enter("failure", "fail")
  /\ UNCHANGED <<publication_epoch, consumers, consumerVars, ownerVars,
                 workVars, threw, floor, handed>>

\* One round of the loop in reserve_epoch: the exchange succeeds, or another
\* thread was first and its value is loaded.
ExchangeSucceeds(previous) == publication_epoch = previous
Exchange(a) ==
  LET next == Higher(seen[a], OwnerEpoch) + 1 IN
  /\ calling[a] # "idle" /\ reserved[a] = 0
  /\ IF ExchangeSucceeds(seen[a])
     THEN /\ publication_epoch' = next
          /\ reserved' = [reserved EXCEPT ![a] = next]
          /\ uncut' = [uncut EXCEPT ![a] = consumers]
          /\ UNCHANGED seen
     ELSE /\ seen' = [seen EXCEPT ![a] = publication_epoch]
          /\ UNCHANGED <<publication_epoch, reserved, uncut>>
  /\ UNCHANGED <<consumers, consumerVars, ownerVars, failed, calling, workVars,
                 threw, floor, handed>>

\* NetworkPacketConsumer::discontinuity
CutOver(c, e) ==
  IF e <= epoch[c] THEN UNCHANGED consumerVars
  ELSE /\ epoch' = [epoch EXCEPT ![c] = e]
       /\ needs_headers' = [needs_headers EXCEPT ![c] = TRUE]
Cut(a) ==
  /\ reserved[a] # 0
  /\ \E c \in uncut[a] : /\ CutOver(c, reserved[a])
                        /\ uncut' = [uncut EXCEPT ![a] = @ \ {c}]
  /\ UNCHANGED <<publication_epoch, consumers, ownerVars, failed, calling,
                 seen, reserved, workVars, threw, floor, handed>>

\* The call returns: an action is queued, a stop empties the queue.
Return(a) ==
  /\ reserved[a] # 0 /\ uncut[a] = {}
  /\ \/ calling[a] = "request" /\ requests' = Append(requests, reserved[a])
                               /\ UNCHANGED stopping
     \/ calling[a] = "stop" /\ requests' = <<>> /\ stopping' = TRUE
     \/ calling[a] = "fail" /\ UNCHANGED ownerVars
  /\ calling' = [calling EXCEPT ![a] = "idle"]
  /\ reserved' = [reserved EXCEPT ![a] = 0]
  /\ floor' = Higher(floor, reserved[a])
  /\ UNCHANGED <<publication_epoch, consumers, consumerVars, failed, seen,
                 uncut, workVars, threw, handed>>

-----------------------------------------------------------------------------
(* The worker.                                                              *)

OwnerFree == calling["owner"] = "idle"      \* mutex_ can be taken
FailureFree == calling["failure"] = "idle"  \* failure_->mutex can be taken

\* Lines 240-252: stop and failure were looked at before the consumer
\* started, and either may have come since.
AddConsumer ==
  /\ pc = "starting"
  /\ \E c \in Consumers \ consumers : consumers' = consumers \cup {c}
  /\ UNCHANGED <<publication_epoch, consumerVars, ownerVars, failed, callVars,
                 workVars, threw, floor, handed>>
\* Lines 259-264, both mutexes held: the coordinator reserves its first epoch.
CreateCoordinator ==
  LET before == IF OwnerEpoch = 0 THEN 0 ELSE OwnerEpoch - 1
      next == Higher(publication_epoch, before) + 1 IN
  /\ pc = "starting" /\ consumers = Consumers
  /\ OwnerFree /\ FailureFree /\ ~stopping /\ ~failed
  /\ publication_epoch' = next /\ current' = next
  /\ pc' = "idle"
  /\ UNCHANGED <<consumers, consumerVars, ownerVars, failed, callVars, taken,
                 selected, batch, target, todo, threw, floor, handed>>
\* Lines 201-206: stop and failure are looked at once per round.
Stop ==
  /\ pc \in {"starting", "idle"}
  /\ stopping \/ failed \/ threw
  /\ pc' = "stopped" /\ consumers' = {}
  /\ UNCHANGED <<publication_epoch, consumerVars, ownerVars, failed, callVars,
                 current, taken, selected, batch, target, todo, threw, floor,
                 handed>>
\* Lines 201-206, the check for a failure included.
TakeRequests ==
  /\ pc = "idle" /\ OwnerFree /\ ~stopping /\ ~failed /\ ~threw
  /\ requests # <<>> /\ taken = <<>>
  /\ taken' = requests /\ requests' = <<>>
  /\ UNCHANGED <<publication_epoch, consumers, consumerVars, stopping, failed,
                 callVars, pc, current, selected, batch, target, todo, threw,
                 floor, handed>>

\* Mutant: the feed stays selected, so the next batch brings no headers.
StaysSelected(e) ==
  /\ current' = e /\ UNCHANGED selected
  /\ pc' = "cutoff" /\ todo' = consumers
\* TransitionCoordinator::invalidate, up to its dispatch_discontinuity.
StartCutoff(e) ==
  /\ current' = e /\ selected' = FALSE
  /\ pc' = "cutoff" /\ todo' = consumers
\* For an action: the epoch reserved at its admission.
ProcessRequest ==
  /\ pc = "idle" /\ taken # <<>>
  /\ taken' = Tail(taken) /\ StartCutoff(Head(taken))
  /\ UNCHANGED <<publication_epoch, consumers, consumerVars, ownerVars, failed,
                 callVars, batch, target, threw, floor, handed>>
\* Mutant: the feed change goes ahead whatever was admitted meanwhile.
AdvancesAnyway == TRUE
MayAdvance == publication_epoch = current
AdvancesTo == current + 1
\* For a change of feed: advance_epoch(epoch_), or nothing.
AdvanceEpoch ==
  /\ pc = "idle" /\ taken = <<>> /\ ~threw
  /\ MayAdvance
  /\ publication_epoch' = AdvancesTo /\ StartCutoff(AdvancesTo)
  /\ UNCHANGED <<consumers, consumerVars, ownerVars, failed, callVars, taken,
                 batch, target, threw, floor, handed>>
WorkerCut ==
  /\ pc = "cutoff"
  /\ \E c \in todo : CutOver(c, current) /\ todo' = todo \ {c}
  /\ UNCHANGED <<publication_epoch, consumers, ownerVars, failed, callVars, pc,
                 current, taken, selected, batch, target, threw, floor,
                 handed>>
WorkerReturn ==
  /\ pc = "cutoff" /\ todo = {}
  /\ pc' = "idle" /\ floor' = Higher(floor, current)
  /\ UNCHANGED <<publication_epoch, consumers, consumerVars, ownerVars, failed,
                 callVars, current, taken, selected, batch, target, todo, threw,
                 handed>>

\* A batch of the coordinator: the first of an epoch carries the headers, a
\* later one may.
StartDispatch ==
  /\ pc = "idle" /\ taken = <<>> /\ ~threw
  /\ \E h \in BOOLEAN : /\ ~selected => h
                        /\ batch' = [epoch |-> current, headers |-> h]
  /\ selected' = TRUE
  /\ pc' = "check" /\ todo' = consumers
  /\ UNCHANGED <<publication_epoch, consumers, consumerVars, ownerVars, failed,
                 callVars, current, taken, target, threw, floor, handed>>
Retired == batch.epoch < publication_epoch
\* Line 65: the loop ends, or goes on to the consumer chosen here.
CheckEpoch ==
  /\ pc = "check"
  /\ IF todo = {} \/ Retired
     THEN pc' = "idle" /\ UNCHANGED <<target, todo>>
     ELSE /\ target' \in todo /\ todo' = todo \ {target'}
          /\ pc' = "consume"
  /\ UNCHANGED <<publication_epoch, consumers, consumerVars, ownerVars, failed,
                 callVars, current, taken, selected, batch, threw, floor, handed>>

\* NetworkPacketConsumer::consume.
\* Mutant: media of an older epoch is not told apart.
NothingOld(c) == FALSE
Old(c) == batch.epoch < epoch[c]
Rejects(c) == \/ epoch[c] # 0 /\ batch.epoch > epoch[c]
              \/ needs_headers[c] /\ ~batch.headers
Ignore ==
  /\ pc = "consume" /\ Old(target)
  /\ pc' = "check"
  /\ UNCHANGED <<publication_epoch, consumers, consumerVars, ownerVars, failed,
                 callVars, current, taken, selected, batch, target, todo, threw,
                 floor, handed>>
Take ==
  /\ pc = "consume" /\ ~Old(target)
  /\ pc' = "check"
  /\ IF Rejects(target)
     THEN threw' = TRUE /\ UNCHANGED <<consumerVars, handed>>
     ELSE /\ epoch' = [epoch EXCEPT ![target] = batch.epoch]
          /\ needs_headers' = [needs_headers EXCEPT ![target] =
                                 @ /\ ~batch.headers]
          /\ handed' = [handed EXCEPT ![target] = batch.epoch]
          /\ UNCHANGED threw
  /\ UNCHANGED <<publication_epoch, consumers, ownerVars, failed, callVars,
                 current, taken, selected, batch, target, todo, floor>>

-----------------------------------------------------------------------------
Admission == \/ Request \/ RequestStop \/ Failure
             \/ \E a \in Admitters : Exchange(a) \/ Cut(a) \/ Return(a)
WorkerStep == \/ AddConsumer \/ CreateCoordinator \/ Stop
              \/ TakeRequests \/ ProcessRequest \/ AdvanceEpoch
              \/ WorkerCut \/ WorkerReturn
              \/ StartDispatch \/ CheckEpoch \/ Ignore \/ Take
DispatchNext == Admission \/ WorkerStep
DispatchSpec == DispatchInit /\ [][DispatchNext]_dispatchVars

-----------------------------------------------------------------------------
(* Properties.                                                              *)

Pcs == {"starting", "idle", "cutoff", "check", "consume", "stopped"}
DispatchTypeOK ==
  /\ publication_epoch \in Nat /\ floor \in Nat /\ current \in Nat
  /\ consumers \subseteq Consumers /\ todo \subseteq Consumers
  /\ epoch \in [Consumers -> Nat] /\ handed \in [Consumers -> Nat]
  /\ needs_headers \in [Consumers -> BOOLEAN]
  /\ requests \in Seq(Nat) /\ taken \in Seq(Nat)
  /\ Len(requests) <= MaxRequests
  /\ {stopping, failed, selected, threw} \subseteq BOOLEAN
  /\ calling \in [Admitters -> {"idle", "request", "stop", "fail"}]
  /\ seen \in [Admitters -> Nat] /\ reserved \in [Admitters -> Nat]
  /\ uncut \in [Admitters -> SUBSET Consumers]
  /\ pc \in Pcs
  /\ batch \in [epoch : Nat, headers : BOOLEAN] \cup {None}
  /\ target \in Consumers \cup {None}

\* The threads keep the promise of PublicationFence: when request(), a stop,
\* a failure or a change of feed returns, no sender is handed older media,
\* though a dispatch may be half way through the consumers.
Fence == INSTANCE PublicationFence
KeepsFence == Fence!Spec

\* "TRANSITION_EPOCH_NOT_COORDINATED" and "TRANSITION_CODEC_HEADERS_MISSING"
\* never happen: no order of admissions, feed changes and batches makes a
\* consumer refuse a batch and so fails a healthy broadcast.
NothingRefused == ~threw

\* "An internal feed change must CAS its current epoch, never leap over a
\* concurrently accepted action": an action that is admitted and not yet
\* processed is ahead of the coordinator, in the order of admission.
ActionsAhead ==
  LET pending == taken \o requests IN
  \A i \in DOMAIN pending :
    /\ pending[i] > current
    /\ \A j \in 1..(i - 1) : pending[j] < pending[i]

\* No two reservations return the same epoch: one in progress is newer than
\* the coordinator's own epoch and differs from the other one's.
EpochsDiffer ==
  \A a \in Admitters : reserved[a] # 0 =>
    /\ current < reserved[a] /\ reserved[a] <= publication_epoch
    /\ \A b \in Admitters \ {a} : reserved[b] # reserved[a]

\* Every cutoff has an epoch of its own, from the moment it is reserved until
\* the worker has reached it, and later cutoffs have later ones.
EpochsInOrder == ActionsAhead /\ EpochsDiffer
=============================================================================
