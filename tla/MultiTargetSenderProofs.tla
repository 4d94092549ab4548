------------------------ MODULE MultiTargetSenderProofs ------------------------
(***************************************************************************)
(* For any number of destinations, epochs, batches, losses and any patience *)
(* of the gate: no destination is handed media older than a cutoff that has *)
(* returned, and a secondary is given up at the gate only after it has      *)
(* stood still for all of that patience.                                    *)
(*                                                                          *)
(* The first rests on what an epoch raises before it counts (Cut): a        *)
(* destination that a cutoff leaves out refuses media for good (Refuses),   *)
(* and every other one has taken the epoch when the cutoff returns.  The    *)
(* second rests on what a wait has noted (TicketWaits, BoundaryWaits): as   *)
(* long as the destination still shows that progress, it has stood still    *)
(* for as long as the wait is old.                                          *)
(***************************************************************************)
EXTENDS MultiTargetSender, NaturalsInduction, WellFoundedInduction, TLAPS

-----------------------------------------------------------------------------
(* Natural numbers.                                                        *)

\* Every non-empty set of natural numbers has a least element.
LEMMA NatMinimum ==
  ASSUME NEW S, S \subseteq Nat, S # {}
  PROVE  \E n \in S : \A m \in S : n <= m
<1>1. IsWellFoundedOn(OpToRel(<, Nat), Nat)
  BY NatLessThanWellFounded, Zenon
<1>2. PICK n \in S : \A m \in S : <<m, n>> \notin OpToRel(<, Nat)
  BY <1>1, WFMin, Zenon
<1>3. \A m \in S : ~(m < n)
  BY <1>2 DEF OpToRel
<1> QED
  BY <1>3


Ended == {"Failed", "Stopping", "Stopped"}
States == Ended \cup {"Starting", "Running", "Reconnecting"}
Status == [state : States, published : Nat, epoch : Nat, ticket : Nat,
           reconnected : BOOLEAN]
Links == [queued : Nat, media : BOOLEAN, cut : BOOLEAN, rest : Nat,
          keeps : BOOLEAN, away : BOOLEAN]
Questions == [kind : Kinds, epoch : Nat, ticket : Nat]
Waits == [epoch : Nat, progress : Nat, age : Nat \cup {None}, gap : {0, 1}]
Batches == [epoch : Nat, media : BOOLEAN]

Serving == {"live", "consume", "ask", "thrown"}
Places == Serving \cup {"starting", "connecting", "cancel", "join", "erase", "off"}

TypeOK ==
  /\ pc \in Places /\ at \in Destinations /\ rows \in {{}, Destinations}
  /\ started \in [Destinations -> {"pending", "ok", "no"}]
  /\ isolated \in [Destinations -> BOOLEAN]
  /\ epochOf \in [Destinations -> Nat]
  /\ sender \in [Destinations -> Status] /\ link \in [Destinations -> Links]
  /\ publication_epoch \in Nat /\ current \in Nat /\ ticket \in Nat
  /\ pc = "consume" => batch \in Batches
  /\ todo \subseteq Destinations
  /\ cut \in {None} \cup Cutoffs
  /\ want \in {None} \cup Questions
  /\ pc = "ask" => query \in Questions
  /\ seen # None => seen \in [status : Status, still : Nat]
  /\ wait \in [Kinds -> [Destinations -> Waits]]
  /\ still \in [Kinds -> [Destinations -> Nat]]
  /\ handed \in [Destinations -> Nat] /\ floor \in Nat

\* Who is out of service, and will stay so.
Out ==
  /\ \A d \in Destinations :
       isolated[d] \/ started[d] = "no" => Refuses(d)
  /\ pc \in {"join", "erase", "off"} => \A d \in Destinations : Refuses(d)
  /\ pc = "cancel" => \A d \in 1..(at - 1) : Refuses(d)
  /\ rows = {} /\ cut # None => \A d \in Destinations : Refuses(d)

\* Where nothing has begun.
Fresh ==
  /\ pc \in {"starting", "connecting"} =>
       /\ cut = None /\ floor = 0 /\ current = 0 /\ publication_epoch = 0
       /\ \A d \in Destinations : epochOf[d] = 0
  /\ pc = "starting" => at = 1 /\ rows = {} /\ \A d \in Destinations : ~isolated[d]
  /\ pc \in Serving \cup {"connecting"} => rows = Destinations
  /\ \A d \in Destinations :
       started[d] = "pending" => pc = "starting" /\ sender[d].state = "Stopped"

\* How far the epochs of the objects are apart.
Epochs ==
  /\ current <= publication_epoch /\ floor <= publication_epoch
  /\ pc = "consume" => batch.epoch = current
  /\ pc \in Serving => current > 0
  /\ \A d \in Destinations :
       epochOf[d] <= publication_epoch /\ handed[d] <= epochOf[d]
  /\ cut # None => cut.epoch = publication_epoch /\ floor < cut.epoch

\* A destination that a cutoff has left behind takes nothing any more.
Behind(d, epoch) == ~Refuses(d) /\ epochOf[d] < epoch
Cut ==
  /\ \A d \in Destinations : ~Behind(d, floor)
  /\ cut # None /\ cut.todo # None =>
       \A d \in Destinations \ cut.todo : ~Behind(d, cut.epoch)

FenceInv == TypeOK /\ Out /\ Fresh /\ Epochs /\ Cut

-----------------------------------------------------------------------------
\* What a sender has acknowledged, what it holds and how it is away.
HeldBy(d) ==
  /\ sender[d].epoch <= epochOf[d] /\ sender[d].published <= epochOf[d]
  /\ sender[d].epoch = epochOf[d] => sender[d].ticket <= link[d].queued
  /\ epochOf[d] = 0 => link[d].queued = 0
  /\ link[d].cut => sender[d].state = "Running" /\ sender[d].epoch # epochOf[d]
  /\ sender[d].ticket <= ticket /\ link[d].queued <= ticket
  /\ pc = "consume" /\ d \in todo => sender[d].ticket < ticket /\ link[d].queued < ticket
  /\ d # Primary /\ sender[d].state = "Reconnecting" =>
       sender[d].reconnected /\ sender[d].published = 0
  /\ link[d].away => d # Primary /\ Resuming(sender[d])
Held == \A d \in Destinations : HeldBy(d)

\* The worker knows who has stopped.
Known ==
  \A d \in Destinations :
    /\ pc = "starting" /\ sender[d].state \in {"Stopping", "Stopped"} => started[d] # "ok"
    /\ pc \in Serving \cup {"connecting"} /\ d # Primary
         /\ sender[d].state \in {"Stopping", "Stopped"} => isolated[d]

\* Which epochs are in use where the worker asks.
Current ==
  /\ \A d \in Destinations : Refuses(d) \/ epochOf[d] = 0 \/ current <= epochOf[d]
  /\ cut # None => /\ current < cut.epoch
                   /\ \A d \in Destinations : cut.todo = None \/ d \in cut.todo
                                               => epochOf[d] < cut.epoch
  /\ cut = None /\ current < publication_epoch => floor = publication_epoch
  /\ want # None => want.epoch = current
  /\ pc \in {"starting", "connecting"} => want = None
  /\ pc = "ask" => /\ query.epoch = current /\ at > Primary
                   /\ query.kind = "ticket" =>
                        /\ cut = None \/ cut.todo = None
                        /\ \A d \in Destinations : epochOf[d] <= current

\* What a wait has noted.
TicketsOf(s, epoch) == IF s.epoch = epoch THEN s.ticket ELSE 0
WaitsOf(d) ==
  \A k \in Kinds : wait[k][d].age # None =>
    wait[k][d].epoch <= current /\ (link[d].away => wait[k][d].gap = 1)
TicketWait(d) ==
  LET w == wait["ticket"][d] IN
  w.age # None /\ ~Refuses(d) /\ epochOf[d] <= w.epoch =>
    /\ w.progress <= TicketsOf(sender[d], w.epoch)
    /\ w.progress = TicketsOf(sender[d], w.epoch) => w.age <= still["ticket"][d]
BoundaryWait(d) ==
  LET w == wait["boundary"][d] IN
  /\ w.age # None /\ ~Refuses(d) /\ ~Resuming(sender[d])
  /\ w.epoch = current /\ w.progress < w.epoch /\ w.progress = sender[d].published
  => w.age <= still["boundary"][d]
Waited(d) == WaitsOf(d) /\ TicketWait(d) /\ BoundaryWait(d)
Waiters ==
  /\ \A d \in Destinations \ {Primary} : Waited(d)
  /\ pc = "starting" => \A k \in Kinds, d \in Destinations : wait[k][d].age = None

\* What was seen at a destination is compared with its wait.
Seen ==
  LET s == seen.status
      w == wait[query.kind][at] IN
  seen # None =>
    /\ pc = "ask"
    /\ isolated[at] \/ s.state \notin {"Stopping", "Stopped"}
    /\ link[at].away => Resuming(s)
    /\ query.kind = "ticket" /\ ~Refuses(at) =>
         TicketsOf(s, query.epoch) <= TicketsOf(sender[at], query.epoch)
    /\ ~OutOfService(at) /\ ~Resuming(s) /\ ~LostSinceSeen
         /\ w.age # None /\ w.epoch = query.epoch /\ w.progress = Progress(s, query)
       => w.age <= seen.still

StillInv == FenceInv /\ Held /\ Known /\ Current /\ Waiters /\ Seen

-----------------------------------------------------------------------------
\* Types, one step at a time.

LEMMA Numbers ==
  ASSUME TargetConstants
  PROVE  /\ Primary \in Destinations /\ 1 \in Destinations /\ N \in Nat
         /\ \A d \in Destinations : /\ d \in Nat /\ d > 0
                                   /\ d + 1 \in Nat /\ d + 1 > 0
                                   /\ d # N => d + 1 \in Destinations
BY DEF TargetConstants, Destinations, Primary

LEMMA Pieces ==
  ASSUME TargetConstants
  PROVE  /\ Primary \in Destinations /\ Destinations \subseteq Nat /\ None \notin Nat
         /\ NoWait \in Waits /\ Unlinked \in Links /\ Idle \in Status
         /\ \A s \in Status : \A x \in States : [s EXCEPT !.state = x] \in Status
         /\ \A s \in Status : \A p \in Nat :
              [s EXCEPT !.published = p, !.reconnected = FALSE] \in Status
         /\ \A s \in Status : \A e, t \in Nat :
              [s EXCEPT !.epoch = e, !.ticket = t] \in Status
         /\ \A s \in Status : s.state \in States
<1>1. Primary \in Destinations /\ Destinations \subseteq Nat /\ None \notin Nat
  BY DEF TargetConstants, Primary, Destinations
<1>2. NoWait \in Waits /\ Unlinked \in Links /\ Idle \in Status
  BY DEF NoWait, Waits, Unlinked, Links, Idle, Status, States, Ended
<1>3. /\ \A s \in Status : \A x \in States : [s EXCEPT !.state = x] \in Status
      /\ \A s \in Status : \A p \in Nat :
           [s EXCEPT !.published = p, !.reconnected = FALSE] \in Status
      /\ \A s \in Status : \A e, t \in Nat :
           [s EXCEPT !.epoch = e, !.ticket = t] \in Status
      /\ \A s \in Status : s.state \in States
  BY Zenon DEF Status
<1> QED BY Zenon, <1>1, <1>2, <1>3

LEMMA LinkPieces ==
  /\ \A l \in Links : \A b \in BOOLEAN :
       /\ [l EXCEPT !.away = b] \in Links /\ [l EXCEPT !.cut = b] \in Links
       /\ [l EXCEPT !.keeps = b] \in Links
  /\ \A l \in Links : \A q \in Nat :
       /\ [l EXCEPT !.queued = q] \in Links
       /\ \A b \in BOOLEAN : [l EXCEPT !.queued = q, !.media = @ \/ b] \in Links
       /\ \A b \in BOOLEAN :
            [l EXCEPT !.queued = q, !.media = FALSE, !.cut = @ \/ b] \in Links
       /\ [l EXCEPT !.media = FALSE, !.rest = q, !.keeps = FALSE] \in Links
       /\ [l EXCEPT !.cut = FALSE, !.rest = q, !.keeps = TRUE] \in Links
       /\ \A b \in BOOLEAN : [l EXCEPT !.rest = q, !.away = b] \in Links
BY ZenonT(40) DEF Links

\* What one sender does to itself; a sender that has ended stays so.
LEMMA SenderMoves ==
  ASSUME TargetConstants, TypeOK, NEW d \in Destinations, Sender(d)
  PROVE  /\ \E s \in Status : /\ sender' = [sender EXCEPT ![d] = s]
                              /\ Refuses(d) => s.state \in Ended
         /\ \E l \in Links : link' = [link EXCEPT ![d] = l]
         /\ still' \in [Kinds -> [Destinations -> Nat]]
<1> DEFINE Moves ==
      /\ \E s \in Status : /\ sender' = [sender EXCEPT ![d] = s]
                           /\ Refuses(d) => s.state \in Ended
      /\ \E l \in Links : link' = [link EXCEPT ![d] = l]
      /\ still' \in [Kinds -> [Destinations -> Nat]]
<1>s. /\ sender[d] \in Status /\ sender = [sender EXCEPT ![d] = sender[d]]
      /\ sender[d].state \in Ended <=> Refuses(d)
      /\ sender[d].published \in Nat
  BY DEF TypeOK, Status, Refuses, Ended
<1>l. /\ link[d] \in Links /\ link = [link EXCEPT ![d] = link[d]]
      /\ link[d].queued \in Nat
  BY DEF TypeOK, Links
<1>t. /\ still \in [Kinds -> [Destinations -> Nat]] /\ epochOf[d] \in Nat
      /\ \A k \in Kinds : [still EXCEPT ![k][d] = 0] \in [Kinds -> [Destinations -> Nat]]
  BY DEF TypeOK
<1>k. "ticket" \in Kinds /\ "boundary" \in Kinds
  BY DEF Kinds
<1>1. ASSUME Connect(d) PROVE Moves
  <2>1. [sender[d] EXCEPT !.state = "Running"] \in Status
    BY Zenon, <1>s, Pieces DEF States
  <2>2. ~Refuses(d)
    BY <1>1 DEF Connect, Refuses
  <2> QED BY <1>1, <2>1, <2>2, <1>l, <1>t DEF Connect, To
<1>2. ASSUME Deliver(d) PROVE Moves
  <2>1. \A t \in Nat : [sender[d] EXCEPT !.epoch = epochOf[d], !.ticket = t] \in Status
    BY Zenon, <1>s, <1>t, Pieces
  <2>2. PICK t \in Nat :
          sender' = [sender EXCEPT ![d] = [sender[d] EXCEPT !.epoch = epochOf[d], !.ticket = t]]
    <3> DEFINE before == IF sender[d].epoch = epochOf[d] THEN sender[d].ticket ELSE 0
    <3>1. before \in Nat
      BY <1>s DEF Status
    <3>2. \E t \in (before + 1)..link[d].queued :
            To(d, [sender[d] EXCEPT !.epoch = epochOf[d], !.ticket = t])
      BY Zenon, <1>2 DEF Deliver
    <3> HIDE DEF before
    <3>3. PICK t \in (before + 1)..link[d].queued :
            To(d, [sender[d] EXCEPT !.epoch = epochOf[d], !.ticket = t])
      BY Zenon, <3>2
    <3>4. t \in Nat
      BY <3>1, <1>l
    <3> QED BY Zenon, <3>3, <3>4 DEF To
  <2>3. ~Refuses(d)
    BY <1>2 DEF Deliver, Writing, Refuses
  <2> QED BY Zenon, <1>2, <2>1, <2>2, <2>3, <1>l, <1>t, <1>k DEF Deliver
<1>3. ASSUME Publish(d) PROVE Moves
  <2>1. [sender[d] EXCEPT !.published = epochOf[d], !.reconnected = FALSE] \in Status
    BY Zenon, <1>s, <1>t, Pieces
  <2>2. ~Refuses(d)
    BY SMTT(30), <1>3 DEF Publish, Writing, Refuses
  <2>3. link' = [link EXCEPT ![d] = [link[d] EXCEPT !.away = FALSE]]
        /\ [link[d] EXCEPT !.away = FALSE] \in Links
    BY Zenon, <1>3, <1>l, LinkPieces DEF Publish
  <2> QED BY <1>3, <2>1, <2>2, <2>3, <1>t, <1>k DEF Publish, To
<1>4. ASSUME Lose(d) PROVE Moves
  <2>1. [state |-> "Reconnecting", published |-> 0, reconnected |-> d # Primary,
         epoch |-> Acknowledged(d), ticket |-> link[d].queued] \in Status
    BY <1>l, <1>t DEF Status, States, Acknowledged
  <2>2. ~Refuses(d)
    BY <1>4 DEF Lose, Writing, Refuses
  <2>3. [link[d] EXCEPT !.media = FALSE, !.rest = Backoff, !.keeps = FALSE] \in Links
    BY Zenon, <1>l, LinkPieces DEF TargetConstants
  <2>4. link' = [link EXCEPT ![d] = [link[d] EXCEPT !.media = FALSE, !.rest = Backoff, !.keeps = FALSE]]
    BY <1>4 DEF Lose
  <2> QED BY Zenon, <1>4, <2>1, <2>2, <2>3, <2>4, <1>t DEF Lose, To
<1>5. ASSUME Replace(d) PROVE Moves
  <2>1. [state |-> "Reconnecting", published |-> 0, reconnected |-> d # Primary,
         epoch |-> 0, ticket |-> 0] \in Status
    BY DEF Status, States
  <2>2. ~Refuses(d)
    BY SMTT(30), <1>5 DEF Replace, Refuses
  <2>3. link' = [link EXCEPT ![d] = [link[d] EXCEPT !.cut = FALSE, !.rest = 0, !.keeps = TRUE]]
        /\ [link[d] EXCEPT !.cut = FALSE, !.rest = 0, !.keeps = TRUE] \in Links
    BY ZenonT(40), <1>5, <1>l, LinkPieces DEF Replace
  <2> QED BY <1>5, <2>1, <2>2, <2>3, <1>t DEF Replace, To
<1>6. ASSUME FinishCut(d) PROVE Moves
  <2>1. link' = [link EXCEPT ![d] = [link[d] EXCEPT !.cut = FALSE]]
        /\ [link[d] EXCEPT !.cut = FALSE] \in Links
    BY Zenon, <1>6, <1>l, LinkPieces DEF FinishCut
  <2> QED BY <1>6, <2>1, <1>s, <1>t DEF FinishCut
<1>7. ASSUME Resume(d) PROVE Moves
  <2>1. [sender[d] EXCEPT !.state = "Running"] \in Status
    BY Zenon, <1>s, Pieces DEF States
  <2>2. ~Refuses(d)
    BY <1>7 DEF Resume, Refuses
  <2>3. link' = [link EXCEPT ![d] = [link[d] EXCEPT !.keeps = FALSE]]
        /\ [link[d] EXCEPT !.keeps = FALSE] \in Links
    BY Zenon, <1>7, <1>l, LinkPieces DEF Resume
  <2> QED BY Zenon, <1>7, <2>1, <2>2, <2>3, <1>t DEF Resume, To
<1>8. ASSUME GiveUp(d) PROVE Moves
  <2>1. [Idle EXCEPT !.state = "Failed", !.published = sender[d].published] \in Status
    BY <1>s DEF Idle, Status, States, Ended
  <2>2. ~Refuses(d)
    BY <1>8 DEF GiveUp, Refuses
  <2> QED BY Zenon, <1>8, <2>1, <2>2, <1>t, Pieces DEF GiveUp, To
<1>9. ASSUME End(d) PROVE Moves
  BY <1>9, <1>s, <1>l, <1>t DEF End
<1> QED
  BY <1>1, <1>2, <1>3, <1>4, <1>5, <1>6, <1>7, <1>8, <1>9 DEF Sender

LEMMA Asking ==
  ASSUME TargetConstants, TypeOK, NEW d \in Destinations, RequestStop(d)
  PROVE  /\ sender' \in [Destinations -> Status] /\ link' \in [Destinations -> Links]
         /\ sender'[d].state \in {"Stopping", "Stopped"}
         /\ \A e \in Destinations \ {d} : sender'[e] = sender[e] /\ link'[e] = link[e]
         /\ link'[d] = Unlinked
<1>1. \A x \in States : [Idle EXCEPT !.state = x] \in Status /\ [Idle EXCEPT !.state = x].state = x
  BY DEF Idle, Status, States, Ended
<1> DEFINE x == IF sender[d].state = "Stopped" THEN "Stopped" ELSE "Stopping"
<1>2. sender' = [sender EXCEPT ![d] = [Idle EXCEPT !.state = x]]
      /\ link' = [link EXCEPT ![d] = Unlinked]
  BY DEF RequestStop, To, Idle
<1>3. x \in {"Stopping", "Stopped"} /\ x \in States
  BY DEF States, Ended
<1> QED BY Zenon, <1>1, <1>2, <1>3, Pieces DEF TypeOK

LEMMA WaitPieces ==
  ASSUME TargetConstants, TypeOK
  PROVE  /\ \A w \in Waits : Older(w) \in Waits
         /\ \A w \in Waits, s \in Status, q \in Questions :
              Progress(s, q) \in Nat /\ Asked(w, s, q) \in Waits
         /\ Queries \subseteq Questions
<1>1. ASSUME NEW w \in Waits PROVE Older(w) \in Waits
  <2>1. CASE w.age = None \/ w.gap = 1
    BY Zenon, <2>1, Pieces DEF Older
  <2>2. CASE ~(w.age = None \/ w.gap = 1)
    <3>1. w.age \in Nat
      BY <2>2 DEF Waits
    <3>2. Lower(w.age + 1, Second) \in Nat
      BY <3>1 DEF Lower, TargetConstants
    <3> QED BY <2>2, <3>2 DEF Older, Waits
  <2> QED BY <2>1, <2>2
<1>2. ASSUME NEW w \in Waits, NEW s \in Status, NEW q \in Questions
      PROVE  Progress(s, q) \in Nat /\ Asked(w, s, q) \in Waits
  <2>1. Progress(s, q) \in Nat
    BY DEF Progress, Status, Questions
  <2> QED BY <2>1 DEF Asked, Waits, Questions
<1>3. Queries \subseteq Questions
  BY DEF Queries, Questions, Kinds, TypeOK
<1> QED BY <1>1, <1>2, <1>3

\* The worker goes on with another destination, or back to its loop.
LEMMA Proceeding ==
  ASSUME TargetConstants, TypeOK, NEW d \in Nat, d > 0, NEW q \in Questions, NEW ok,
         Proceed(d, q, ok)
  PROVE  /\ pc' \in {"ask", "live"} /\ at' \in Destinations
         /\ pc' = "ask" => query' = q /\ at' = d
         /\ want' \in {want, None}
<1>1. CASE d <= N
  <2>1. pc' = "ask" /\ at' = d /\ query' = q /\ want' = want
    BY <1>1 DEF Proceed
  <2> QED BY <1>1, <2>1 DEF Destinations, TargetConstants
<1>2. CASE ~(d <= N)
  <2>1. pc' = "live" /\ at' = 1
    BY <1>2 DEF Proceed
  <2>2. want' = IF ok /\ q = want THEN None ELSE want
    BY <1>2 DEF Proceed
  <2> QED BY <2>1, <2>2, Numbers DEF Primary
<1> QED BY <1>1, <1>2

LEMMA FirstOf ==
  ASSUME NEW S \in SUBSET Destinations, S # {}
  PROVE  First(S) \in S
<1>1. S \subseteq Nat
  BY DEF Destinations
<1>2. \E d \in S : \A o \in S : d <= o
  BY <1>1, NatMinimum
<1> QED BY <1>2 DEF First

\* What accepting a batch does to a sender that has not ended.
LEMMA Accepting ==
  ASSUME TargetConstants, TypeOK, NEW d \in Destinations, Accept(d), batch \in Batches
  PROVE  /\ sender' \in [Destinations -> Status] /\ link' \in [Destinations -> Links]
         /\ still' \in [Kinds -> [Destinations -> Nat]]
         /\ \A e \in Destinations : sender'[e].state = sender[e].state
<1>1. batch.epoch \in Nat /\ batch.media \in BOOLEAN
  BY DEF Batches
<1>2. sender[d] \in Status /\ link[d] \in Links /\ ticket \in Nat /\ "ticket" \in Kinds
  BY DEF TypeOK, Kinds
<1>3. CASE Away(d)
  <2>1. /\ sender' = [sender EXCEPT ![d] = [sender[d] EXCEPT !.epoch = batch.epoch, !.ticket = ticket]]
        /\ still' = [still EXCEPT !["ticket"][d] = 0]
        /\ link' = [link EXCEPT ![d] = [link[d] EXCEPT !.queued = ticket]]
    BY <1>3 DEF Accept, To
  <2>2. [sender[d] EXCEPT !.epoch = batch.epoch, !.ticket = ticket] \in Status
        /\ [link[d] EXCEPT !.queued = ticket] \in Links
    BY Zenon, <1>1, <1>2, Pieces, LinkPieces
  <2>3. [sender[d] EXCEPT !.epoch = batch.epoch, !.ticket = ticket].state = sender[d].state
    BY <1>2 DEF Status
  <2> QED BY <1>2, <2>1, <2>2, <2>3 DEF TypeOK
<1>4. CASE ~Away(d)
  <2>1. link' = [link EXCEPT ![d] = [link[d] EXCEPT !.queued = ticket, !.media = @ \/ batch.media]]
        /\ UNCHANGED <<sender, still>>
    BY Zenon, <1>4 DEF Accept
  <2>2. [link[d] EXCEPT !.queued = ticket, !.media = @ \/ batch.media] \in Links
    BY Zenon, <1>1, <1>2, LinkPieces
  <2> QED BY <2>1, <2>2 DEF TypeOK
<1> QED BY <1>3, <1>4

LEMMA TypeInit ==
  ASSUME TargetConstants, Init
  PROVE  TypeOK
<1>1. sender \in [Destinations -> Status] /\ link \in [Destinations -> Links]
  BY Zenon, Pieces DEF Init
<1>2. wait \in [Kinds -> [Destinations -> Waits]]
  BY Zenon, Pieces DEF Init
<1> QED BY Zenon, <1>1, <1>2, Pieces DEF Init, TypeOK, Places, Serving, Primary

LEMMA TypeKept ==
  ASSUME TargetConstants, TypeOK, [Next]_vars
  PROVE  TypeOK'
<1> USE DEF lifeVars, linkVars, epochVars, askVars, fenceVars
<1>a. /\ at \in Nat /\ at + 1 \in Nat /\ at + 1 > 0 /\ 1 \in Destinations
      /\ at # N => at + 1 \in Destinations
      /\ at \in Destinations
  <2>1. at \in Destinations
    BY DEF TypeOK
  <2> QED BY <2>1 DEF Destinations, TargetConstants
<1>0. CASE UNCHANGED vars
  BY <1>0 DEF vars, TypeOK
<1>1. ASSUME NEW d \in Destinations, Start(d) PROVE TypeOK'
  <2>1. \A ok \in BOOLEAN : [sender[d] EXCEPT !.state = IF ok THEN "Starting" ELSE @] \in Status
    BY ZenonT(40), Pieces DEF TypeOK, States, Status
  <2>2. sender' \in [Destinations -> Status] /\ started' \in [Destinations -> {"pending", "ok", "no"}]
    BY <1>1, <2>1 DEF Start, To, TypeOK
  <2> QED BY <1>1, <2>2 DEF Start, TypeOK
<1>2. ASSUME NEW d \in Destinations, Sender(d) PROVE TypeOK'
  <2>1. sender' \in [Destinations -> Status] /\ link' \in [Destinations -> Links]
    <3>1. PICK s \in Status : sender' = [sender EXCEPT ![d] = s]
      BY <1>2, SenderMoves
    <3>2. PICK l \in Links : link' = [link EXCEPT ![d] = l]
      BY <1>2, SenderMoves
    <3> QED BY <3>1, <3>2 DEF TypeOK
  <2>2. still' \in [Kinds -> [Destinations -> Nat]]
    BY <1>2, SenderMoves
  <2> QED BY <1>2, <2>1, <2>2 DEF Sender, TypeOK
<1>3. CASE Started \/ GoLive \/ Erase
  <2>1. CASE Started
    <3>1. isolated' \in [Destinations -> BOOLEAN]
      BY <2>1 DEF Started
    <3>2. pc' \in {"connecting", "cancel"} /\ rows' \in {{}, Destinations}
      BY <2>1 DEF Started, TypeOK
    <3> QED BY <2>1, <3>1, <3>2 DEF Started, TypeOK, Places
  <2>2. CASE GoLive
    BY <2>2 DEF GoLive, TypeOK, Places, Serving
  <2>3. CASE Erase
    BY <2>3 DEF Erase, TypeOK, Places
  <2> QED BY <1>3, <2>1, <2>2, <2>3
<1>4. CASE Shutdown \/ Thrown
  <2>1. wait' \in [Kinds -> [Destinations -> Waits]] /\ still' \in [Kinds -> [Destinations -> Nat]]
    <3>1. Forget
      BY <1>4 DEF Shutdown, Thrown
    <3>2. NoWait \in Waits
      BY Zenon, Pieces
    <3> QED BY <3>1, <3>2 DEF Forget
  <2>2. at' \in Destinations /\ pc' = "cancel"
    BY <1>4, Numbers DEF Shutdown, Thrown
  <2> QED BY <1>4, <2>1, <2>2 DEF Shutdown, Thrown, TypeOK, Places
<1>5. CASE Cancel
  <2>1. sender' \in [Destinations -> Status] /\ link' \in [Destinations -> Links]
    BY <1>5, Asking DEF Cancel, TypeOK
  <2>2. at' \in Destinations /\ pc' \in {"cancel", "join"}
    BY <1>5, <1>a DEF Cancel, CancelsNext
  <2> QED BY <1>5, <2>1, <2>2 DEF Cancel, TypeOK, Places
<1>6. CASE Join
  <2>1. sender' \in [Destinations -> Status]
    <3>1. [sender[at] EXCEPT !.state = "Stopped"] \in Status
      BY Zenon, Pieces DEF TypeOK, States, Ended
    <3> QED BY <1>6, <3>1 DEF Join, To, TypeOK
  <2>2. at' \in Destinations /\ pc' \in {"join", "erase"}
    BY <1>6, <1>a DEF Join
  <2> QED BY <1>6, <2>1, <2>2 DEF Join, TypeOK, Places
<1>7. CASE Dispatch \/ Consumed
  <2>1. InService \subseteq Destinations
    BY DEF InService, TypeOK
  <2> QED BY <1>7, <2>1 DEF Dispatch, Consumed, TypeOK, Places, Serving, Batches
<1>8. CASE Consume
  <2> DEFINE d == First(todo)
  <2>1. d \in todo /\ d \in Destinations
    BY <1>8, FirstOf DEF Consume, TypeOK
  <2>2. batch.epoch \in Nat /\ batch.media \in BOOLEAN
    BY <1>8 DEF Consume, TypeOK, Batches
  <2>3. CASE Stale(d)
    BY <1>8, <2>1, <2>3 DEF Consume, TypeOK
  <2>4. CASE ~Stale(d) /\ Accept(d)
    <3>1. /\ epochOf' = [epochOf EXCEPT ![d] = batch.epoch]
          /\ handed' = [handed EXCEPT ![d] = batch.epoch]
      BY <1>8, <2>4 DEF Consume, Accept
    <3>2. sender' \in [Destinations -> Status] /\ link' \in [Destinations -> Links]
          /\ still' \in [Kinds -> [Destinations -> Nat]]
      <4>1. batch \in Batches
        BY <1>8 DEF Consume, TypeOK
      <4> QED BY <4>1, <2>1, <2>4, Accepting
    <3> QED BY <1>8, <2>2, <2>4, <3>1, <3>2 DEF Consume, Accept, TypeOK
  <2>5. CASE ~Stale(d) /\ Throw(d)
    <3>1. epochOf' \in [Destinations -> Nat]
      BY <1>8, <2>2, <2>5 DEF Consume, TypeOK
    <3>2. sender' \in [Destinations -> Status] /\ link' \in [Destinations -> Links]
      BY <2>1, <2>5, Asking DEF Throw, TypeOK
    <3>3. isolated' \in [Destinations -> BOOLEAN] /\ pc' \in {pc, "thrown"}
          /\ want' \in {want, None}
      BY <2>5 DEF Throw, TypeOK
    <3> QED BY <1>8, <2>5, <3>1, <3>2, <3>3 DEF Consume, Throw, TypeOK, Places, Serving
  <2> QED BY <1>8, <2>3, <2>4, <2>5 DEF Consume
<1>9. CASE Adopt \/ Await
  BY <1>9, WaitPieces DEF Adopt, Await, TypeOK
<1>10. ASSUME NEW q \in Questions, Begin(q) PROVE TypeOK'
  <2>1. pc' \in {"ask", "live"} /\ at' \in Destinations /\ (pc' = "ask" => query' = q)
        /\ want' \in {want, None}
    BY <1>10, Proceeding DEF Begin
  <2> QED BY <1>10, <2>1 DEF Begin, TypeOK, Places, Serving
<1>11. CASE AskWanted
  BY <1>10, <1>11 DEF AskWanted, TypeOK
<1>12. CASE AskOther
  BY <1>10, <1>12, WaitPieces DEF AskOther
<1>13. CASE Look
  <2>1. query.kind \in Kinds
    BY <1>13 DEF Look, TypeOK, Questions
  <2> QED BY <1>13, <2>1 DEF Look, TypeOK
<1>14. CASE Decide
  <2>1. query \in Questions /\ query.kind \in Kinds /\ seen.status \in Status
    BY <1>14 DEF Decide, TypeOK, Questions
  <2>2. pc' \in {"ask", "live"} /\ at' \in Destinations /\ (pc' = "ask" => query' = query)
        /\ want' \in {want, None}
    <3>1. at + 1 \in Nat /\ at + 1 > 0
      BY <1>a
    <3>2. \E ok : Proceed(at + 1, query, ok)
      BY <1>14 DEF Decide
    <3> QED BY <2>1, <3>1, <3>2, Proceeding
  <2>3. wait' \in [Kinds -> [Destinations -> Waits]]
    <3>1. \A w \in Waits : Remember(at, w) => wait' \in [Kinds -> [Destinations -> Waits]]
      BY <2>1 DEF Remember, TypeOK
    <3>2. Asked(wait[query.kind][at], seen.status, query) \in Waits
      BY <2>1, WaitPieces DEF TypeOK
    <3> QED BY Zenon, <1>14, <3>1, <3>2, Pieces DEF Decide, TypeOK
  <2>4. /\ sender' \in [Destinations -> Status] /\ link' \in [Destinations -> Links]
        /\ isolated' \in [Destinations -> BOOLEAN]
    BY <1>14, Asking DEF Decide, TypeOK
  <2> QED BY <1>14, <2>2, <2>3, <2>4 DEF Decide, TypeOK, Places, Serving
<1>15. CASE Tick
  <2>1. wait' \in [Kinds -> [Destinations -> Waits]]
    BY Zenon, <1>15, WaitPieces DEF Tick, TypeOK
  <2>2. still' \in [Kinds -> [Destinations -> Nat]]
    <3>1. \A n \in Nat : Lower(n + 1, Second) \in Nat
      BY DEF Lower, TargetConstants
    <3> QED BY ZenonT(40), <1>15, <3>1 DEF Tick, TypeOK
  <2>3. link' \in [Destinations -> Links]
    <3>1. \A d \in Destinations :
            [link[d] EXCEPT !.rest = IF @ = 0 THEN 0 ELSE @ - 1,
                            !.away = d # Primary /\ Resuming(sender[d])] \in Links
      <4> TAKE d \in Destinations
      <4> DEFINE rest == IF link[d].rest = 0 THEN 0 ELSE link[d].rest - 1
                 away == d # Primary /\ Resuming(sender[d])
      <4>1. link[d].rest \in Nat /\ link[d] \in Links
        BY DEF TypeOK, Links
      <4>2. rest \in Nat /\ away \in BOOLEAN
        BY <4>1
      <4>3. [link[d] EXCEPT !.rest = rest, !.away = away] \in Links
        <5> HIDE DEF rest, away
        <5> QED BY Zenon, <4>1, <4>2, LinkPieces
      <4> QED BY <4>3
    <3> QED BY Zenon, <1>15, <3>1 DEF Tick
  <2> QED BY Zenon, <1>15, <2>1, <2>2, <2>3 DEF Tick, TypeOK
<1>16. CASE Admission
  <2>1. CASE CutOver
    <3> DEFINE d == First(cut.todo)
    <3>1. d \in Destinations /\ cut \in Cutoffs /\ cut.epoch \in Nat /\ cut.todo \subseteq Destinations
      BY <2>1, FirstOf DEF CutOver, TypeOK, Cutoffs
    <3>2. cut' \in Cutoffs
      BY <2>1, <3>1 DEF CutOver, Cutoffs
    <3>3. link' \in [Destinations -> Links]
      <4>1. PICK w \in {FALSE, sender[d].state = "Running"} :
              link' = [link EXCEPT ![d].queued = 0, ![d].media = FALSE, ![d].cut = @ \/ w]
        BY Zenon, <2>1 DEF CutOver
      <4>2. [link[d] EXCEPT !.queued = 0, !.media = FALSE, !.cut = @ \/ w] \in Links
        BY Zenon, <3>1, LinkPieces DEF TypeOK
      <4>3. link' = [link EXCEPT ![d] = [link[d] EXCEPT !.queued = 0, !.media = FALSE, !.cut = @ \/ w]]
        BY <4>1
      <4> QED BY <4>2, <4>3 DEF TypeOK
    <3>4. epochOf' \in [Destinations -> Nat]
      BY <2>1, <3>1 DEF CutOver, TypeOK
    <3> QED BY <2>1, <3>2, <3>3, <3>4 DEF CutOver, TypeOK
  <2>2. CASE Admit \/ Admitted
    BY <1>16, <2>2 DEF Admit, Admitted, TypeOK, Cutoffs
  <2>3. CASE Discontinuity
    <3>1. CutFor \in SUBSET Destinations
      BY DEF CutFor, InService, TypeOK
    <3>2. cut' \in Cutoffs
      BY <2>3, <3>1 DEF Discontinuity, TypeOK, Cutoffs
    <3> QED BY <2>3, <3>2 DEF Discontinuity, TypeOK
  <2> QED BY <1>16, <2>1, <2>2, <2>3 DEF Admission
<1> QED
  BY <1>0, <1>1, <1>2, <1>3, <1>4, <1>5, <1>6, <1>7, <1>8, <1>9, <1>11, <1>12,
     <1>13, <1>14, <1>15, <1>16 DEF Next, Worker

-----------------------------------------------------------------------------
\* A sender that has ended takes nothing any more.

LEMMA EndedStays ==
  ASSUME TargetConstants, TypeOK, [Next]_vars,
         NEW e \in Destinations, Refuses(e), ~Start(e)
  PROVE  Refuses(e)'
<1> USE DEF lifeVars, linkVars, epochVars, askVars, fenceVars
<1>1. SUFFICES ASSUME sender' # sender PROVE Refuses(e)'
  BY DEF Refuses
<1>2. ASSUME NEW d \in Destinations, RequestStop(d) PROVE Refuses(e)'
  <2>1. CASE d = e
    BY <1>2, <2>1, Asking DEF Refuses
  <2>2. CASE d # e
    BY <1>2, <2>2, Asking DEF Refuses
  <2> QED BY <2>1, <2>2
<1>3. ASSUME NEW d \in Destinations, Start(d) PROVE Refuses(e)'
  BY <1>3 DEF Start, To, Refuses, TypeOK
<1>4. ASSUME NEW d \in Destinations, Sender(d) PROVE Refuses(e)'
  <2>1. PICK s \in Status : /\ sender' = [sender EXCEPT ![d] = s]
                            /\ Refuses(d) => s.state \in Ended
    BY <1>4, SenderMoves
  <2> QED BY <2>1 DEF Refuses, TypeOK, Ended
<1>5. CASE Cancel
  BY <1>2, <1>5 DEF Cancel, TypeOK
<1>6. CASE Join
  <2>1. at \in Destinations /\ sender' = [sender EXCEPT ![at] = [sender[at] EXCEPT !.state = "Stopped"]]
        /\ [sender[at] EXCEPT !.state = "Stopped"].state = "Stopped"
    BY <1>6 DEF Join, To, TypeOK, Status
  <2> QED BY <2>1 DEF Refuses, TypeOK
<1>7. CASE Consume
  <2> DEFINE d == First(todo)
  <2>1. d \in Destinations /\ batch \in Batches
    BY <1>7, FirstOf DEF Consume, TypeOK
  <2>2. Accept(d) \/ Throw(d)
    BY <1>1, <1>7 DEF Consume
  <2>3. CASE Accept(d)
    BY <2>1, <2>3, Accepting DEF Refuses
  <2>4. CASE Throw(d)
    BY <1>1, <1>2, <2>1, <2>4 DEF Throw
  <2> QED BY <2>2, <2>3, <2>4
<1>8. CASE Decide
  BY <1>1, <1>2, <1>8 DEF Decide, TypeOK
<1>9. CASE UNCHANGED vars \/ Started \/ GoLive \/ Shutdown \/ Erase \/ Dispatch \/ Consumed
           \/ Thrown \/ Adopt \/ Await \/ AskWanted \/ AskOther \/ Look \/ Admission \/ Tick
  BY Zenon, <1>1, <1>9 DEF vars, Started, GoLive, Shutdown, Erase, Dispatch, Consumed, Thrown,
       Adopt, Await, AskWanted, AskOther, Begin, Look, Admission, Admit, Discontinuity,
       CutOver, Admitted, Tick
<1> QED BY <1>3, <1>4, <1>5, <1>6, <1>7, <1>8, <1>9 DEF Next, Worker

LEMMA OutKept ==
  ASSUME TargetConstants, TypeOK, Out, Fresh, [Next]_vars
  PROVE  Out'
<1> USE DEF lifeVars, linkVars, epochVars, askVars, fenceVars
<1>e. ASSUME NEW e \in Destinations, Refuses(e), \A d \in Destinations : ~Start(d)
      PROVE  Refuses(e)'
  BY <1>e, EndedStays
<1>1. ASSUME NEW d \in Destinations, Start(d) PROVE Out'
  <2>1. pc = "starting" /\ rows = {} /\ cut = None /\ \A e \in Destinations : ~isolated[e]
    BY <1>1 DEF Start, Fresh
  <2>2. pc' = pc /\ rows' = rows /\ cut' = cut /\ isolated' = isolated
    BY <1>1 DEF Start
  <2>3. ASSUME NEW e \in Destinations, started'[e] = "no" PROVE Refuses(e)'
    <3>1. CASE e = d
      <4>1. sender[d].state = "Stopped"
        BY <1>1 DEF Start, Fresh
      <4>2. PICK ok \in BOOLEAN :
              /\ started' = [started EXCEPT ![d] = IF ok THEN "ok" ELSE "no"]
              /\ sender' = [sender EXCEPT ![d] = [sender[d] EXCEPT !.state = IF ok THEN "Starting" ELSE @]]
        BY <1>1 DEF Start, To
      <4>3. ok = FALSE
        BY <2>3, <3>1, <4>2 DEF TypeOK
      <4>4. sender'[d].state = "Stopped"
        BY <4>1, <4>2, <4>3 DEF TypeOK, Status
      <4> QED BY <3>1, <4>4 DEF Refuses
    <3>2. CASE e # d
      <4>1. started[e] = "no" /\ sender'[e] = sender[e]
        BY <1>1, <2>3, <3>2 DEF Start, To, TypeOK
      <4> QED BY <4>1 DEF Out, Refuses
    <3> QED BY <3>1, <3>2
  <2> QED BY <2>1, <2>2, <2>3 DEF Out
<1>2. SUFFICES ASSUME \A d \in Destinations : ~Start(d) PROVE Out'
  BY <1>1
<1>3. \A e \in Destinations : Refuses(e) => Refuses(e)'
  BY <1>e, <1>2
<1>4. ASSUME NEW d \in Destinations, isolated'[d] \/ started'[d] = "no" PROVE Refuses(d)'
  <2>1. CASE isolated[d] \/ started[d] = "no"
    BY <1>3, <2>1 DEF Out
  <2>2. ASSUME NEW e \in Destinations, RequestStop(e), e = d PROVE Refuses(d)'
    BY <2>2, Asking DEF Refuses
  <2>3. CASE ~isolated[d] /\ started[d] # "no"
    <3>1. CASE Consume
      <4> DEFINE e == First(todo)
      <4>1. e \in Destinations
        BY <3>1, FirstOf DEF Consume, TypeOK
      <4>2. Throw(e) /\ e # Primary /\ RequestStop(e) /\ isolated' = [isolated EXCEPT ![e] = TRUE]
        BY <1>4, <2>3, <3>1 DEF Consume, Accept, Throw
      <4> QED BY <1>4, <2>2, <2>3, <3>1, <4>1, <4>2 DEF Consume, TypeOK
    <3>2. CASE Decide
      <4>1. isolated' = [isolated EXCEPT ![at] = TRUE] /\ RequestStop(at)
        BY <1>4, <2>3, <3>2 DEF Decide
      <4> QED BY <1>4, <2>2, <2>3, <3>2, <4>1 DEF Decide, TypeOK
    <3>3. CASE Started
      BY <1>4, <2>3, <3>3 DEF Started
    <3>4. CASE ~Consume /\ ~Decide /\ ~Started
      <4>1. UNCHANGED <<isolated, started>>
        BY Zenon, <1>2, <3>4 DEF Next, Worker, Admission, vars, Sender, GoLive, Shutdown, Cancel, Join,
             Erase, Dispatch, Consumed, Thrown, Adopt, Await, AskWanted, AskOther, Begin, Look,
             Admit, Discontinuity, CutOver, Admitted, Tick
      <4> QED BY <1>4, <2>3, <4>1
    <3> QED BY <3>1, <3>2, <3>3, <3>4
  <2> QED BY <2>1, <2>3
<1>5. pc' \in {"join", "erase", "off"} => \A e \in Destinations : Refuses(e)'
  <2>1. CASE pc \in {"join", "erase", "off"}
    BY <1>3, <2>1 DEF Out
  <2>2. CASE Cancel /\ pc' = "join"
    <3>1. at = N /\ RequestStop(at) /\ at \in Destinations
      BY <2>2 DEF Cancel, CancelsNext, TypeOK
    <3>2. \A e \in Destinations : e = at => Refuses(e)'
      BY <3>1, Asking DEF Refuses
    <3>3. \A e \in Destinations : e = at \/ Refuses(e)
      BY SMTT(30), <2>2, <3>1 DEF Cancel, Out, Destinations, TargetConstants
    <3> QED BY <1>3, <3>2, <3>3
  <2>3. pc \notin {"join", "erase", "off"} /\ pc' \in {"join", "erase", "off"} => Cancel /\ pc' = "join"
    BY ZenonT(40), <1>2 DEF Next, Worker, Admission, vars, Sender, Started, GoLive, Shutdown, Cancel,
         CancelsNext, Join, Erase, Dispatch, Consume, Accept, Throw, Consumed, Thrown, Adopt,
         Await, AskWanted, AskOther, Begin, Proceed, Look, Decide, Admit, Discontinuity, CutOver,
         Admitted, Tick
  <2> QED BY <2>1, <2>2, <2>3
<1>6. pc' = "cancel" => \A e \in 1..(at' - 1) : Refuses(e)'
  <2>1. CASE Cancel
    <3>1. at \in Destinations /\ RequestStop(at) /\ pc = "cancel"
      BY <2>1 DEF Cancel, TypeOK
    <3>2. \A e \in Destinations : e = at => Refuses(e)'
      BY <3>1, Asking DEF Refuses
    <3>3. pc' = "cancel" => at' = at + 1 /\ at # N
      BY <2>1 DEF Cancel, CancelsNext
    <3>4. \A e \in 1..(at - 1) : Refuses(e) /\ e \in Destinations
      BY <3>1 DEF Out, Destinations, TargetConstants
    <3>5. at \in Nat /\ \A e \in 1..at : e = at \/ e \in 1..(at - 1)
      BY <3>1 DEF Destinations, TargetConstants
    <3>6. \A e \in 1..at : Refuses(e)'
      BY <1>3, <3>1, <3>2, <3>4, <3>5
    <3>7. pc' = "cancel" => at' - 1 = at
      BY <3>3, <3>5
    <3> QED BY <3>6, <3>7
  <2>2. pc' = "cancel" /\ ~Cancel => (pc = "cancel" /\ at' = at) \/ at' = 1
    BY Zenon, <1>2 DEF Next, Worker, Admission, vars, Sender, Started, Fresh, GoLive, Shutdown, Join,
         Erase, Dispatch, Consume, Accept, Throw, Consumed, Thrown, Adopt,
         Await, AskWanted, AskOther, Begin, Proceed, Look, Decide, Admit, Discontinuity, CutOver,
         Admitted, Tick
  <2>3. CASE pc = "cancel" /\ at' = at
    <3>1. \A e \in 1..(at - 1) : Refuses(e) /\ e \in Destinations
      BY <2>3 DEF Out, TypeOK, Destinations, TargetConstants
    <3> QED BY <1>3, <2>3, <3>1
  <2>4. at' = 1 => 1..(at' - 1) = {}
    OBVIOUS
  <2> QED BY <2>1, <2>2, <2>3, <2>4
<1>7. rows' = {} /\ cut' # None => \A e \in Destinations : Refuses(e)'
  <2>1. CASE rows = {} /\ cut # None
    BY <1>3, <2>1 DEF Out
  <2>2. CASE Erase
    BY <1>3, <2>2 DEF Erase, Out
  <2>3. CASE ~Erase /\ ~(rows = {} /\ cut # None)
    <3>1. Destinations # {}
      BY SMTT(30), Numbers
    <3>2. rows' # {} \/ cut' = None
      BY Zenon, <1>2, <2>3, <3>1 DEF Next, Worker, Admission, vars, Sender, Started, Fresh, GoLive,
         Shutdown, Cancel, Join, Dispatch, Consume, Consumed, Thrown, Adopt, Await, AskWanted,
         AskOther, Begin, Look, Decide, Admit, Discontinuity, CutOver, Admitted, Tick
    <3> QED BY <3>2
  <2> QED BY <2>1, <2>2, <2>3
<1> QED BY <1>4, <1>5, <1>6, <1>7 DEF Out

LEMMA FreshKept ==
  ASSUME TargetConstants, TypeOK, Fresh, [Next]_vars
  PROVE  Fresh'
<1> USE DEF lifeVars, linkVars, epochVars, askVars, fenceVars
<1>1. CASE pc \in {"starting", "connecting"}
  <2>1. /\ cut = None /\ floor = 0 /\ current = 0 /\ publication_epoch = 0
        /\ \A d \in Destinations : epochOf[d] = 0
        /\ pc = "starting" => at = 1 /\ rows = {} /\ \A d \in Destinations : ~isolated[d]
    BY <1>1 DEF Fresh
  <2>2. \/ Started \/ GoLive \/ Shutdown \/ Tick \/ Admission \/ UNCHANGED vars
        \/ \E d \in Destinations : Start(d) \/ Sender(d)
    BY <1>1 DEF Next, Worker, Cancel, Join, Erase, Dispatch, Consume, Consumed, Thrown, Adopt,
         Await, AskWanted, AskOther, Begin, Look, Decide
  <2>3. ~Admission
    BY <1>1, <2>1 DEF Admission, Admit, Discontinuity, CutOver, Admitted
  <2>4. CASE Started
    <3>1. /\ \A d \in Destinations : started[d] # "pending"
          /\ pc' = "connecting" => rows' = Destinations
      BY <2>4 DEF Started
    <3> QED BY <2>1, <2>4, <3>1 DEF Started, Fresh, Serving
  <2>5. CASE GoLive \/ Shutdown
    <3>1. pc = "connecting" /\ started' = started /\ rows' = rows
      BY <1>1, <2>5 DEF GoLive, Shutdown
    <3>2. \A d \in Destinations : started[d] # "pending"
      BY <3>1 DEF Fresh
    <3>3. rows = Destinations
      BY <3>1 DEF Fresh
    <3> QED BY <2>5, <3>1, <3>2, <3>3 DEF GoLive, Shutdown, Fresh, Serving
  <2>6. CASE Tick \/ UNCHANGED vars
    BY Zenon, <1>1, <2>1, <2>6 DEF Tick, vars, Fresh, Serving
  <2>7. ASSUME NEW d \in Destinations, Start(d) PROVE Fresh'
    <3>1. \A e \in Destinations : started'[e] = "pending" => started[e] = "pending" /\ sender'[e] = sender[e]
      BY <2>7 DEF Start, To, TypeOK
    <3> QED BY <2>1, <2>7, <3>1 DEF Start, Fresh, Serving
  <2>8. ASSUME NEW d \in Destinations, Sender(d) PROVE Fresh'
    <3>1. ASSUME NEW e \in Destinations, started[e] = "pending"
          PROVE  sender'[e].state = "Stopped"
      <4>1. sender[e].state = "Stopped"
        BY <3>1 DEF Fresh
      <4>2. CASE d = e
        <5>1. sender' = sender
          BY Zenon, <2>8, <4>1, <4>2 DEF Sender, Connect, Deliver, Publish, Writing, Lose, Replace,
               FinishCut, Resume, GiveUp, End
        <5> QED BY SMTT(30), <4>1, <5>1
      <4>3. CASE d # e
        <5>1. PICK s \in Status : sender' = [sender EXCEPT ![d] = s]
          BY <2>8, SenderMoves
        <5> QED BY <4>1, <4>3, <5>1 DEF TypeOK
      <4> QED BY <4>2, <4>3
    <3>2. UNCHANGED <<pc, at, rows, started, cut, floor, current, publication_epoch, epochOf, isolated>>
      BY <2>8 DEF Sender
    <3> QED BY <1>1, <2>1, <3>1, <3>2 DEF Fresh, Serving
  <2> QED BY <2>2, <2>3, <2>4, <2>5, <2>6, <2>7, <2>8
<1>2. CASE pc \notin {"starting", "connecting"}
  <2>1. \A d \in Destinations : started[d] # "pending"
    BY SMTT(30), <1>2 DEF Fresh
  <2>2. UNCHANGED started
    BY ZenonT(40), <1>2 DEF Next, Worker, Admission, vars, Sender, Start, Started, GoLive, Shutdown, Cancel,
         Join, Erase, Dispatch, Consume, Consumed, Thrown, Adopt, Await, AskWanted, AskOther,
         Begin, Look, Decide, Admit, Discontinuity, CutOver, Admitted, Tick
  <2>3. pc' \notin {"starting", "connecting"} /\ (pc' \in Serving => pc \in Serving /\ rows' = rows)
    BY Zenon, <1>2 DEF Serving, Next, Worker, Admission, vars, Sender, Start, Started, GoLive, Shutdown,
         Cancel, CancelsNext, Join, Erase, Dispatch, Consume, Accept, Throw, Consumed, Thrown,
         Adopt, Await, AskWanted, AskOther, Begin, Proceed, Look, Decide, Admit, Discontinuity,
         CutOver, Admitted, Tick
  <2> QED BY <2>1, <2>2, <2>3 DEF Fresh
<1> QED BY <1>1, <1>2

LEMMA EpochsGrow ==
  ASSUME TargetConstants, TypeOK, Epochs, [Next]_vars, NEW d \in Destinations
  PROVE  epochOf[d] <= epochOf'[d]
<1> USE DEF lifeVars, linkVars, epochVars, askVars, fenceVars
<1>0. epochOf \in [Destinations -> Nat]
  BY DEF TypeOK
<1>1. CASE Consume
  <2> DEFINE e == First(todo)
  <2>1. e \in Destinations /\ batch.epoch \in Nat
    BY <1>1, FirstOf DEF Consume, TypeOK, Batches
  <2>2. /\ Stale(e) => epochOf' = epochOf
        /\ ~Stale(e) => epochOf' = [epochOf EXCEPT ![e] = batch.epoch]
    BY <1>1 DEF Consume
  <2> QED BY <1>0, <2>1, <2>2 DEF Stale
<1>2. CASE CutOver
  <2> DEFINE e == First(cut.todo)
  <2>1. e \in Destinations /\ cut.epoch = publication_epoch /\ epochOf[e] <= cut.epoch
        /\ cut.epoch \in Nat
    BY SMTT(30), <1>2, FirstOf DEF CutOver, TypeOK, Cutoffs, Epochs
  <2> QED BY <1>0, <1>2, <2>1 DEF CutOver
<1>3. CASE ~Consume /\ ~CutOver
  <2>1. UNCHANGED epochOf
    BY Zenon, <1>3 DEF Next, Worker, Admission, vars, Sender, Start, Started, GoLive, Shutdown, Cancel,
         Join, Erase, Dispatch, Consumed, Thrown, Adopt, Await, AskWanted, AskOther,
         Begin, Look, Decide, Admit, Discontinuity, Admitted, Tick
  <2> QED BY <1>0, <2>1
<1> QED BY <1>1, <1>2, <1>3

LEMMA EpochsKept ==
  ASSUME TargetConstants, TypeOK, Fresh, Epochs, [Next]_vars
  PROVE  Epochs'
<1> USE DEF lifeVars, linkVars, epochVars, askVars, fenceVars
<1>0. /\ epochOf \in [Destinations -> Nat] /\ handed \in [Destinations -> Nat]
      /\ publication_epoch \in Nat /\ current \in Nat /\ floor \in Nat
      /\ cut # None => cut \in Cutoffs
  BY DEF TypeOK
<1>1. CASE Consume
  <2> DEFINE e == First(todo)
  <2>1. e \in Destinations /\ batch.epoch \in Nat /\ batch.epoch = current
    BY <1>1, FirstOf DEF Consume, TypeOK, Batches, Epochs
  <2>2. \/ UNCHANGED <<epochOf, handed>>
        \/ /\ epochOf' = [epochOf EXCEPT ![e] = batch.epoch] /\ ~Stale(e)
           /\ \/ UNCHANGED handed
              \/ handed' = [handed EXCEPT ![e] = batch.epoch]
    BY <1>1 DEF Consume, Accept, Throw
  <2>3. UNCHANGED <<current, publication_epoch, floor, cut, batch>>
    BY <1>1 DEF Consume
  <2>4. \A d \in Destinations : epochOf'[d] <= publication_epoch /\ handed'[d] <= epochOf'[d]
    BY <1>0, <2>1, <2>2 DEF Stale, Epochs
  <2>5. pc \in Serving
    BY <1>1 DEF Consume, Serving
  <2> QED BY <2>1, <2>3, <2>4, <2>5 DEF Epochs
<1>2. CASE CutOver
  <2> DEFINE e == First(cut.todo)
  <2>1. e \in Destinations /\ cut \in Cutoffs /\ cut # None
    BY <1>2, FirstOf DEF CutOver, TypeOK, Cutoffs
  <2>2. cut.epoch = publication_epoch /\ cut'.epoch = cut.epoch
    BY <1>2, <2>1 DEF CutOver, Cutoffs, Epochs
  <2>3. \A d \in Destinations : epochOf'[d] <= publication_epoch /\ handed[d] <= epochOf'[d]
    BY <1>0, <1>2, <2>1, <2>2 DEF CutOver, Epochs
  <2> QED BY <1>2, <2>1, <2>2, <2>3 DEF CutOver, Epochs
<1>3. CASE Admit
  BY <1>0, <1>3 DEF Admit, Epochs
<1>4. CASE Discontinuity
  <2>1. cut'.epoch = cut.epoch /\ cut # None
    BY <1>0, <1>4 DEF Discontinuity, Cutoffs
  <2> QED BY <1>4, <2>1 DEF Discontinuity, Epochs
<1>5. CASE Admitted
  BY <1>0, <1>5 DEF Admitted, Epochs
<1>6. CASE GoLive
  <2>1. cut = None /\ floor = 0 /\ current = 0 /\ publication_epoch = 0
        /\ \A d \in Destinations : epochOf[d] = 0
    BY <1>6 DEF GoLive, Fresh
  <2> QED BY <1>0, <1>6, <2>1 DEF GoLive, Epochs, Serving
<1>7. CASE Dispatch
  BY <1>0, <1>7 DEF Dispatch, Epochs, Serving
<1>8. CASE Adopt
  BY <1>0, <1>8 DEF Adopt, Epochs, Serving
<1>9. CASE /\ ~Consume /\ ~Admission /\ ~GoLive /\ ~Dispatch /\ ~Adopt
  <2>1. UNCHANGED <<epochOf, handed, floor, cut, publication_epoch, current, batch>> \/ Consumed
    BY ZenonT(40), <1>9 DEF Next, Worker, vars, Sender, Start, Started, Shutdown, Cancel, Join,
         Erase, Thrown, Await, AskWanted, AskOther, Begin, Look, Decide, Tick
  <2>2. (pc' = "consume" => pc = "consume") /\ (pc' \in Serving => pc \in Serving)
    BY Zenon, <1>9 DEF Next, Worker, vars, Sender, Start, Started, Shutdown, Cancel, CancelsNext, Join,
         Erase, Consumed, Thrown, Await, AskWanted, AskOther, Begin, Proceed, Look, Decide, Tick,
         Serving
  <2>3. CASE Consumed
    BY <2>3 DEF Consumed, Epochs, Serving
  <2> QED BY SMTT(30), <2>1, <2>2, <2>3 DEF Epochs
<1> QED BY <1>1, <1>2, <1>3, <1>4, <1>5, <1>6, <1>7, <1>8, <1>9 DEF Admission

LEMMA CutKept ==
  ASSUME TargetConstants, FenceInv, [Next]_vars
  PROVE  Cut'
<1> USE DEF lifeVars, linkVars, epochVars, askVars, fenceVars
<1>0. TypeOK /\ Out /\ Fresh /\ Epochs /\ Cut
  BY DEF FenceInv
<1>t. /\ epochOf \in [Destinations -> Nat] /\ epochOf' \in [Destinations -> Nat] /\ floor \in Nat
      /\ cut # None => cut \in Cutoffs
  BY <1>0, TypeKept DEF TypeOK
<1>1. CASE \E d \in Destinations : Start(d)
  <2>1. pc = "starting" /\ cut = None /\ floor = 0 /\ cut' = cut /\ floor' = floor
    BY <1>0, <1>1 DEF Start, Fresh
  <2> QED BY <1>t, <2>1 DEF Cut, Behind
<1>2. SUFFICES ASSUME \A d \in Destinations : ~Start(d) PROVE Cut'
  BY <1>1
<1>3. ASSUME NEW d \in Destinations, NEW e \in Nat, ~Behind(d, e)
      PROVE  (~Behind(d, e))'
  BY <1>0, <1>2, <1>3, <1>t, EndedStays, EpochsGrow DEF Behind
<1>4. CASE Admitted
  <2>1. floor' = cut.epoch /\ cut' = None /\ cut.epoch \in Nat /\ cut # None
    BY <1>4, <1>t DEF Admitted, Cutoffs
  <2>2. cut.todo = {} /\ cut.todo # None
    BY <1>4 DEF Admitted, TargetConstants
  <2>3. \A d \in Destinations : ~Behind(d, cut.epoch)
    BY <1>0, <2>1, <2>2 DEF Cut
  <2> QED BY <1>3, <2>1, <2>3 DEF Cut
<1>5. CASE Admit
  BY <1>0, <1>3, <1>t, <1>5 DEF Admit, Cut
<1>6. CASE Discontinuity
  <2>1. cut # None /\ cut' = [cut EXCEPT !.todo = InService] /\ cut \in Cutoffs
    BY <1>6, <1>t DEF Discontinuity, CutFor
  <2>2. cut'.epoch = cut.epoch /\ cut'.todo = InService /\ cut.epoch \in Nat
    BY <2>1 DEF Cutoffs
  <2>3. \A d \in Destinations \ InService : Refuses(d)
    <3>1. rows = {} \/ rows = Destinations
      BY <1>0 DEF TypeOK
    <3> QED BY <1>0, <2>1, <3>1 DEF InService, Out
  <2>4. \A d \in Destinations \ InService : ~Behind(d, cut.epoch)
    BY <2>3 DEF Behind
  <2> QED BY <1>0, <1>3, <1>6, <1>t, <2>1, <2>2, <2>4 DEF Discontinuity, Cut
<1>7. CASE CutOver
  <2> DEFINE e == First(cut.todo)
  <2>1. cut # None /\ cut \in Cutoffs /\ cut.todo # None /\ e \in cut.todo /\ e \in Destinations
    BY <1>7, <1>t, FirstOf DEF CutOver, Cutoffs
  <2>2. cut'.epoch = cut.epoch /\ cut'.todo = cut.todo \ {e} /\ cut.epoch \in Nat
    BY <1>7, <2>1 DEF CutOver, Cutoffs
  <2>3. PICK epoch \in Nat : epoch = cut.epoch
    BY <2>2
  <2>4. \A d \in Destinations \ cut.todo : ~Behind(d, epoch)
    BY <1>0, <2>1, <2>3 DEF Cut
  <2>5. epochOf'[e] = cut.epoch
    BY <1>7, <1>t, <2>1 DEF CutOver
  <2>6. \A d \in Destinations \ (cut.todo \ {e}) : (~Behind(d, epoch))'
    <3>1. ASSUME NEW d \in Destinations, d = e PROVE (~Behind(d, epoch))'
      BY <2>3, <2>5, <3>1 DEF Behind
    <3> QED BY <1>3, <2>4, <3>1
  <2>7. \A d \in Destinations : (~Behind(d, floor))'
    <3>1. floor' = floor
      BY <1>7 DEF CutOver
    <3>2. PICK f \in Nat : f = floor
      BY <1>t
    <3>3. \A d \in Destinations : (~Behind(d, f))'
      BY <1>0, <1>3, <3>2 DEF Cut
    <3> QED BY <3>1, <3>2, <3>3
  <2> QED BY <2>2, <2>3, <2>6, <2>7 DEF Cut
<1>8. CASE ~Admission
  <2>1. cut' = cut /\ floor' = floor
    BY Zenon, <1>2, <1>8 DEF Admission, Next, Worker, vars, Sender, Started, GoLive, Shutdown, Cancel,
         Join, Erase, Dispatch, Consume, Consumed, Thrown, Adopt, Await, AskWanted, AskOther,
         Begin, Look, Decide, Tick
  <2>2. PICK f \in Nat : f = floor
    BY <1>t
  <2>3. \A d \in Destinations : (~Behind(d, f))'
    BY <1>0, <1>3, <2>2 DEF Cut
  <2>4. ASSUME cut # None, cut.todo # None
        PROVE  \A d \in Destinations \ cut.todo : (~Behind(d, cut.epoch))'
    <3>1. PICK e \in Nat : e = cut.epoch
      BY <1>t, <2>4 DEF Cutoffs
    <3>2. \A d \in Destinations \ cut.todo : (~Behind(d, e))'
      BY <1>0, <1>3, <2>4, <3>1 DEF Cut
    <3> QED BY <2>1, <3>1, <3>2
  <2> QED BY SMTT(30), <2>1, <2>2, <2>3, <2>4 DEF Cut
<1> QED BY <1>4, <1>5, <1>6, <1>7, <1>8 DEF Admission

LEMMA FenceStart ==
  ASSUME TargetConstants, Init
  PROVE  FenceInv
<1>1. TypeOK
  BY TypeInit
<1>2. \A d \in Destinations : sender[d].state = "Stopped"
  BY DEF Init, Idle
<1>3. Out /\ Fresh
  BY <1>2 DEF Init, Out, Fresh, Serving
<1>4. Epochs /\ Cut
  BY DEF Init, Epochs, Cut, Behind, Serving
<1> QED BY <1>1, <1>3, <1>4 DEF FenceInv

LEMMA FenceStep ==
  ASSUME TargetConstants, FenceInv, [Next]_vars
  PROVE  FenceInv'
BY TypeKept, OutKept, FreshKept, EpochsKept, CutKept DEF FenceInv

\* Whoever accepts a batch has not left a cutoff behind it.
LEMMA StepsOfFence ==
  ASSUME TargetConstants, FenceInv, [Next]_vars
  PROVE  [Fence!Next]_<<floor, handed>>
<1> USE DEF lifeVars, linkVars, epochVars, askVars, fenceVars
<1>0. /\ TypeOK /\ Epochs /\ Cut
      /\ epochOf \in [Destinations -> Nat] /\ handed \in [Destinations -> Nat] /\ floor \in Nat
      /\ cut # None => cut \in Cutoffs
  BY DEF FenceInv, TypeOK
<1>1. CASE Admitted
  <2>1. cut.epoch \in Nat /\ floor < cut.epoch
    BY <1>0, <1>1 DEF Admitted, Cutoffs, Epochs
  <2> QED BY <1>0, <1>1, <2>1 DEF Admitted, Fence!Next, Fence!Raise
<1>2. CASE Consume /\ UNCHANGED handed
  BY <1>2 DEF Consume
<1>3. CASE Consume /\ ~UNCHANGED handed
  <2> DEFINE d == First(todo)
  <2>1. d \in Destinations /\ batch.epoch \in Nat
    BY <1>0, <1>3, FirstOf DEF Consume, TypeOK, Batches
  <2>2. ~Stale(d) /\ Accept(d) /\ floor' = floor
    BY <1>3 DEF Consume, Throw
  <2>3. handed' = [handed EXCEPT ![d] = batch.epoch] /\ ~Refuses(d)
    BY <2>2 DEF Accept
  <2>4. handed[d] <= epochOf[d] /\ floor <= epochOf[d] /\ epochOf[d] <= batch.epoch
    BY <1>0, <2>1, <2>2, <2>3 DEF Epochs, Cut, Behind, Stale
  <2>5. handed'[d] = batch.epoch /\ batch.epoch >= floor /\ batch.epoch >= handed[d]
    BY <1>0, <2>1, <2>3, <2>4
  <2>6. Fence!Hand(d)
    BY Zenon, <2>1, <2>2, <2>3, <2>5 DEF Fence!Hand
  <2> QED BY <2>1, <2>6 DEF Fence!Next
<1>4. CASE ~Consume /\ ~Admitted
  <2>1. UNCHANGED <<floor, handed>>
    BY Zenon, <1>4 DEF Admission, Next, Worker, vars, Sender, Start, Started, GoLive, Shutdown, Cancel,
         Join, Erase, Dispatch, Consumed, Thrown, Adopt, Await, AskWanted, AskOther,
         Begin, Look, Decide, Admit, Discontinuity, CutOver, Tick
  <2> QED BY <2>1
<1> QED BY <1>1, <1>2, <1>3, <1>4

\* The types of the state, for any number of destinations.
THEOREM TargetTypes == Spec => []TypeOK
<1>1. Init => TypeOK
  BY TargetConstants, TypeInit
<1>2. TypeOK /\ [Next]_vars => TypeOK'
  BY TargetConstants, TypeKept
<1> QED BY <1>1, <1>2, PTL DEF Spec

THEOREM AllFenced == Spec => []FenceInv
<1>1. Init => FenceInv
  BY TargetConstants, FenceStart
<1>2. FenceInv /\ [Next]_vars => FenceInv'
  BY TargetConstants, FenceStep
<1> QED BY <1>1, <1>2, PTL DEF Spec

\* The fan-out implements the fence: once a cutoff has returned, no destination
\* is handed media of an older epoch, although the isolated ones were left out
\* of it and the worker looked at the epoch before the cutoff began.
THEOREM FanOutIsFenced == Spec => FanOutKeepsFence
<1>1. Init => Fence!Init
  BY DEF Init, Fence!Init
<1>2. FenceInv /\ [Next]_vars => [Fence!Next]_<<floor, handed>>
  BY TargetConstants, StepsOfFence
<1> QED BY <1>1, <1>2, AllFenced, PTL DEF Spec, FanOutKeepsFence, Fence!Spec

-----------------------------------------------------------------------------
\* What a sender holds.

\* Everything of one destination but its waits.
Same(d) == UNCHANGED <<sender[d], link[d], epochOf[d]>>

LEMMA SameHeld ==
  ASSUME TargetConstants, TypeOK, NEW d \in Destinations, HeldBy(d), Same(d),
         ticket' = ticket, pc' = "consume" => pc = "consume" /\ todo' \subseteq todo
  PROVE  HeldBy(d)'
BY DEF HeldBy, Same

\* The fields of what an object is.
LEMMA FieldTypes ==
  ASSUME TypeOK, NEW d \in Destinations
  PROVE  /\ sender[d] \in Status /\ sender[d].state \in States /\ sender[d].published \in Nat
         /\ sender[d].epoch \in Nat /\ sender[d].ticket \in Nat
         /\ sender[d].reconnected \in BOOLEAN
         /\ link[d] \in Links /\ link[d].queued \in Nat /\ link[d].rest \in Nat
         /\ epochOf[d] \in Nat /\ ticket \in Nat
BY DEF TypeOK, Status, Links

\* What an action of a sender leaves of it.
LEMMA SenderFields ==
  ASSUME TargetConstants, TypeOK, NEW d \in Destinations
  PROVE  /\ Connect(d) =>
              /\ sender[d].state = "Starting" /\ sender'[d].state = "Running"
              /\ UNCHANGED <<sender[d].published, sender[d].epoch, sender[d].ticket,
                             sender[d].reconnected, link[d]>>
         /\ Deliver(d) =>
              /\ sender[d].state = "Running" /\ ~link[d].cut
              /\ sender'[d].epoch = epochOf[d]
              /\ sender'[d].ticket \in Nat /\ sender'[d].ticket <= link[d].queued
              /\ sender'[d].ticket > TicketsOf(sender[d], epochOf[d])
              /\ UNCHANGED <<sender[d].state, sender[d].published, sender[d].reconnected, link[d]>>
         /\ Publish(d) =>
              /\ sender[d].state = "Running" /\ ~link[d].cut
              /\ sender'[d].published = epochOf[d] /\ sender[d].published # epochOf[d]
              /\ sender'[d].reconnected = FALSE /\ ~link'[d].away
              /\ UNCHANGED <<sender[d].state, sender[d].epoch, sender[d].ticket,
                             link[d].queued, link[d].cut>>
         /\ Lose(d) =>
              /\ sender[d].state \in {"Starting", "Reconnecting"} \/ ~link[d].cut
              /\ sender[d].state \in {"Starting", "Running", "Reconnecting"}
              /\ sender'[d].state = "Reconnecting" /\ sender'[d].published = 0
              /\ (d # Primary => sender'[d].reconnected)
              /\ sender'[d].epoch = (IF link[d].queued = 0 THEN 0 ELSE epochOf[d])
              /\ sender'[d].ticket = link[d].queued
              /\ UNCHANGED <<link[d].queued, link[d].cut, link[d].away>>
         /\ Replace(d) =>
              /\ sender[d].state = "Running" /\ link[d].cut
              /\ sender'[d].state = "Reconnecting" /\ sender'[d].published = 0
              /\ (d # Primary => sender'[d].reconnected)
              /\ sender'[d].epoch = 0 /\ sender'[d].ticket = 0 /\ ~link'[d].cut
              /\ UNCHANGED <<link[d].queued, link[d].away>>
         /\ FinishCut(d) =>
              /\ ~link'[d].cut
              /\ UNCHANGED <<sender[d], link[d].queued, link[d].away>>
         /\ Resume(d) =>
              /\ sender[d].state = "Reconnecting" /\ sender'[d].state = "Running"
              /\ UNCHANGED <<sender[d].published, sender[d].epoch, sender[d].ticket,
                             sender[d].reconnected, link[d].queued, link[d].cut, link[d].away>>
         /\ GiveUp(d) =>
              /\ sender'[d].state = "Failed" /\ sender'[d].epoch = 0 /\ sender'[d].ticket = 0
              /\ link'[d] = Unlinked /\ UNCHANGED sender[d].published
         /\ End(d) => UNCHANGED <<sender[d], link[d]>>
<1>t. /\ sender[d] \in Status /\ link[d] \in Links /\ epochOf[d] \in Nat
      /\ sender \in [Destinations -> Status] /\ link \in [Destinations -> Links]
  BY FieldTypes DEF TypeOK
<1> DEFINE s == sender[d]
<1>1. ASSUME Connect(d)
      PROVE  /\ sender[d].state = "Starting" /\ sender'[d].state = "Running"
             /\ UNCHANGED <<sender[d].published, sender[d].epoch, sender[d].ticket,
                            sender[d].reconnected, link[d]>>
  BY <1>1, <1>t DEF Connect, To, Status
<1>2. ASSUME Deliver(d)
      PROVE  /\ sender[d].state = "Running" /\ ~link[d].cut
             /\ sender'[d].epoch = epochOf[d]
             /\ sender'[d].ticket \in Nat /\ sender'[d].ticket <= link[d].queued
             /\ sender'[d].ticket > TicketsOf(sender[d], epochOf[d])
             /\ UNCHANGED <<sender[d].state, sender[d].published, sender[d].reconnected, link[d]>>
  <2>1. /\ TicketsOf(sender[d], epochOf[d]) \in Nat /\ link[d].queued \in Nat
    BY <1>t, FieldTypes DEF TicketsOf
  <2>2. \E t \in (TicketsOf(sender[d], epochOf[d]) + 1)..link[d].queued :
          sender' = [sender EXCEPT ![d] = [sender[d] EXCEPT !.epoch = epochOf[d], !.ticket = t]]
    BY Zenon, <1>2 DEF Deliver, To, TicketsOf
  <2>3. PICK t \in (TicketsOf(sender[d], epochOf[d]) + 1)..link[d].queued :
          sender' = [sender EXCEPT ![d] = [sender[d] EXCEPT !.epoch = epochOf[d], !.ticket = t]]
    BY Zenon, <2>2
  <2>4. t \in Nat /\ t <= link[d].queued /\ t > TicketsOf(sender[d], epochOf[d])
    BY <2>1
  <2>5. /\ sender'[d].epoch = epochOf[d] /\ sender'[d].ticket = t
        /\ UNCHANGED <<sender[d].state, sender[d].published, sender[d].reconnected>>
    BY <1>t, <2>3 DEF Status
  <2> QED BY <1>2, <2>4, <2>5 DEF Deliver, Writing
<1>3. ASSUME Publish(d)
      PROVE  /\ sender[d].state = "Running" /\ ~link[d].cut
             /\ sender'[d].published = epochOf[d] /\ sender[d].published # epochOf[d]
             /\ sender'[d].reconnected = FALSE /\ ~link'[d].away
             /\ UNCHANGED <<sender[d].state, sender[d].epoch, sender[d].ticket,
                            link[d].queued, link[d].cut>>
  BY <1>3, <1>t DEF Publish, Writing, To, Status, Links
<1>4. ASSUME Lose(d)
      PROVE  /\ sender[d].state \in {"Starting", "Reconnecting"} \/ ~link[d].cut
             /\ sender[d].state \in {"Starting", "Running", "Reconnecting"}
             /\ sender'[d].state = "Reconnecting" /\ sender'[d].published = 0
             /\ (d # Primary => sender'[d].reconnected)
             /\ sender'[d].epoch = (IF link[d].queued = 0 THEN 0 ELSE epochOf[d])
             /\ sender'[d].ticket = link[d].queued
             /\ UNCHANGED <<link[d].queued, link[d].cut, link[d].away>>
  <2>1. UNCHANGED <<link[d].queued, link[d].cut, link[d].away>>
    BY <1>4, <1>t DEF Lose, Links
  <2> QED BY <1>4, <1>t, <2>1 DEF Lose, To, Writing, Acknowledged
<1>5. ASSUME Replace(d)
      PROVE  /\ sender[d].state = "Running" /\ link[d].cut
             /\ sender'[d].state = "Reconnecting" /\ sender'[d].published = 0
             /\ (d # Primary => sender'[d].reconnected)
             /\ sender'[d].epoch = 0 /\ sender'[d].ticket = 0 /\ ~link'[d].cut
             /\ UNCHANGED <<link[d].queued, link[d].away>>
  <2>1. ~link'[d].cut /\ UNCHANGED <<link[d].queued, link[d].away>>
    BY <1>5, <1>t DEF Replace, Links
  <2> QED BY <1>5, <1>t, <2>1 DEF Replace, To
<1>6. ASSUME FinishCut(d)
      PROVE  ~link'[d].cut /\ UNCHANGED <<sender[d], link[d].queued, link[d].away>>
  BY <1>6, <1>t DEF FinishCut, Links
<1>7. ASSUME Resume(d)
      PROVE  /\ sender[d].state = "Reconnecting" /\ sender'[d].state = "Running"
             /\ UNCHANGED <<sender[d].published, sender[d].epoch, sender[d].ticket,
                            sender[d].reconnected, link[d].queued, link[d].cut, link[d].away>>
  BY <1>7, <1>t DEF Resume, To, Status, Links
<1>8. ASSUME GiveUp(d)
      PROVE  /\ sender'[d].state = "Failed" /\ sender'[d].epoch = 0 /\ sender'[d].ticket = 0
             /\ link'[d] = Unlinked /\ UNCHANGED sender[d].published
  BY <1>8, <1>t DEF GiveUp, To, Idle
<1>9. End(d) => UNCHANGED <<sender[d], link[d]>>
  BY DEF End
<1> QED BY <1>1, <1>2, <1>3, <1>4, <1>5, <1>6, <1>7, <1>8, <1>9, Zenon

LEMMA SenderHolds ==
  ASSUME TargetConstants, TypeOK, NEW d \in Destinations, HeldBy(d), Sender(d)
  PROVE  HeldBy(d)'
<1>f. /\ sender[d].epoch \in Nat /\ sender[d].ticket \in Nat /\ sender[d].published \in Nat
      /\ sender[d].reconnected \in BOOLEAN
      /\ link[d].queued \in Nat /\ epochOf[d] \in Nat /\ ticket \in Nat
  BY FieldTypes
<1>0. UNCHANGED <<pc, todo, ticket, epochOf>>
  BY DEF Sender, epochVars
<1>1. CASE Connect(d)
  BY <1>0, <1>1, <1>f, SenderFields DEF HeldBy, Resuming
<1>2. CASE Deliver(d)
  <2>1. /\ sender[d].state = "Running" /\ ~link[d].cut
        /\ sender'[d].epoch = epochOf[d]
        /\ sender'[d].ticket \in Nat /\ sender'[d].ticket <= link[d].queued
        /\ UNCHANGED <<sender[d].state, sender[d].published, sender[d].reconnected, link[d]>>
    BY <1>2, SenderFields
  <2> QED BY <1>0, <1>f, <2>1 DEF HeldBy, Resuming
<1>3. CASE Publish(d)
  <2>1. /\ sender[d].state = "Running" /\ sender'[d].published = epochOf[d] /\ ~link'[d].away
        /\ UNCHANGED <<sender[d].state, sender[d].epoch, sender[d].ticket,
                       link[d].queued, link[d].cut>>
    BY <1>3, SenderFields
  <2> QED BY <1>0, <1>f, <2>1 DEF HeldBy
<1>4. CASE Lose(d)
  <2>1. /\ sender[d].state \in {"Starting", "Reconnecting"} \/ ~link[d].cut
        /\ sender'[d].state = "Reconnecting" /\ sender'[d].published = 0
        /\ (d # Primary => sender'[d].reconnected)
        /\ sender'[d].epoch = (IF link[d].queued = 0 THEN 0 ELSE epochOf[d])
        /\ sender'[d].ticket = link[d].queued
        /\ UNCHANGED <<link[d].queued, link[d].cut, link[d].away>>
    BY <1>4, SenderFields
  <2> QED BY <1>0, <1>f, <2>1 DEF HeldBy, Resuming
<1>5. CASE Replace(d)
  <2>1. /\ link[d].cut
        /\ sender'[d].state = "Reconnecting" /\ sender'[d].published = 0
        /\ (d # Primary => sender'[d].reconnected)
        /\ sender'[d].epoch = 0 /\ sender'[d].ticket = 0 /\ ~link'[d].cut
        /\ UNCHANGED <<link[d].queued, link[d].away>>
    BY <1>5, SenderFields
  <2> QED BY <1>0, <1>f, <2>1 DEF HeldBy, Resuming
<1>6. CASE FinishCut(d)
  BY <1>0, <1>6, <1>f, SenderFields DEF HeldBy
<1>7. CASE Resume(d)
  BY <1>0, <1>7, <1>f, SenderFields DEF HeldBy, Resuming
<1>8. CASE GiveUp(d)
  <2>1. /\ sender'[d].state = "Failed" /\ sender'[d].epoch = 0 /\ sender'[d].ticket = 0
        /\ link'[d].queued = 0 /\ ~link'[d].cut /\ ~link'[d].away
        /\ UNCHANGED sender[d].published
    <3>1. link'[d] = Unlinked /\ sender'[d].state = "Failed" /\ sender'[d].epoch = 0
          /\ sender'[d].ticket = 0 /\ UNCHANGED sender[d].published
      BY <1>8, SenderFields
    <3> QED BY <3>1 DEF Unlinked
  <2> QED BY <1>0, <1>f, <2>1 DEF HeldBy
<1>9. CASE End(d)
  BY <1>0, <1>9, SenderFields DEF HeldBy
<1> QED BY <1>1, <1>2, <1>3, <1>4, <1>5, <1>6, <1>7, <1>8, <1>9 DEF Sender

LEMMA StopHolds ==
  ASSUME TargetConstants, TypeOK, NEW d \in Destinations, RequestStop(d), epochOf'[d] \in Nat,
         ticket' = ticket, ~(pc' = "consume" /\ d \in todo')
  PROVE  HeldBy(d)'
<1>1. /\ sender'[d].state \in {"Stopping", "Stopped"}
      /\ sender'[d].epoch = 0 /\ sender'[d].ticket = 0 /\ sender'[d].published = 0
      /\ link'[d].queued = 0 /\ ~link'[d].cut /\ ~link'[d].away
  BY DEF RequestStop, To, Idle, Unlinked, TypeOK
<1>2. ticket \in Nat
  BY DEF TypeOK
<1> QED BY <1>1, <1>2 DEF HeldBy

\* What it is to accept a batch, to throw at it, and to be cut over.
LEMMA ConsumeFields ==
  ASSUME TargetConstants, TypeOK, Epochs, Consume
  PROVE  \E d \in todo :
           /\ d \in Destinations /\ todo' = todo \ {d} /\ ticket' = ticket
           /\ \A e \in Destinations \ {d} : Same(e)
           /\ \/ Same(d) /\ UNCHANGED <<pc, isolated, still>>
              \/ /\ epochOf'[d] = current /\ epochOf[d] <= current /\ current > 0
                 /\ \/ /\ Away(d) /\ ~Refuses(d) /\ UNCHANGED <<pc, isolated>>
                       /\ sender'[d].epoch = current /\ sender'[d].ticket = ticket
                       /\ link'[d].queued = ticket /\ still' = [still EXCEPT !["ticket"][d] = 0]
                       /\ UNCHANGED <<sender[d].state, sender[d].published,
                                      sender[d].reconnected, link[d].cut, link[d].away>>
                    \/ /\ ~Away(d) /\ ~Refuses(d) /\ UNCHANGED <<pc, isolated>>
                       /\ link'[d].queued = ticket
                       /\ UNCHANGED <<sender[d], link[d].cut, link[d].away, still>>
                    \/ /\ d = Primary /\ UNCHANGED <<sender[d], link[d], isolated, still>>
                       /\ pc' = "thrown"
                    \/ RequestStop(d) /\ isolated' = [isolated EXCEPT ![d] = TRUE]
                       /\ UNCHANGED <<pc, still>>
<1>0. PICK d \in todo : d = First(todo)
  BY FirstOf DEF Consume, TypeOK
<1>1. /\ d \in todo /\ d \in Destinations /\ batch \in Batches /\ batch.epoch = current
      /\ current > 0 /\ current \in Nat /\ todo' = todo \ {d} /\ ticket' = ticket
  BY <1>0 DEF Consume, TypeOK, Epochs, Serving, epochVars
<1>2. /\ epochOf \in [Destinations -> Nat] /\ sender \in [Destinations -> Status]
      /\ link \in [Destinations -> Links] /\ link[d] \in Links /\ sender[d] \in Status
      /\ ticket \in Nat /\ batch.media \in BOOLEAN
  BY <1>1 DEF TypeOK, Batches
<1>3. CASE Stale(d)
  <2>1. \A e \in Destinations : Same(e)
    BY <1>0, <1>3 DEF Consume, Same
  <2> QED BY <1>0, <1>1, <1>3, <2>1 DEF Consume
<1>4. CASE ~Stale(d)
  <2>1. /\ epochOf' = [epochOf EXCEPT ![d] = current]
        /\ Accept(d) \/ Throw(d)
    BY <1>0, <1>1, <1>4 DEF Consume
  <2>2. epochOf'[d] = current /\ epochOf[d] <= current
        /\ \A e \in Destinations \ {d} : epochOf'[e] = epochOf[e]
    BY <1>1, <1>2, <1>4, <2>1 DEF Stale
  <2>3. CASE Accept(d) /\ Away(d)
    <3>1. /\ sender' = [sender EXCEPT ![d] = [sender[d] EXCEPT !.epoch = current, !.ticket = ticket]]
          /\ link' = [link EXCEPT ![d] = [link[d] EXCEPT !.queued = ticket]]
          /\ still' = [still EXCEPT !["ticket"][d] = 0] /\ UNCHANGED <<pc, isolated>>
          /\ ~Refuses(d)
      BY <1>1, <2>3 DEF Accept, To
    <3>2. /\ sender'[d].epoch = current /\ sender'[d].ticket = ticket
          /\ UNCHANGED <<sender[d].state, sender[d].published, sender[d].reconnected>>
      BY <1>1, <1>2, <3>1 DEF Status
    <3>3. link'[d].queued = ticket /\ UNCHANGED <<link[d].cut, link[d].away>>
      BY <1>1, <1>2, <3>1 DEF Links
    <3>4. \A e \in Destinations \ {d} : Same(e)
      BY <1>2, <2>2, <3>1 DEF Same
    <3> QED BY <1>1, <2>2, <2>3, <3>1, <3>2, <3>3, <3>4
  <2>4. CASE Accept(d) /\ ~Away(d)
    <3>1. /\ link' = [link EXCEPT ![d] = [link[d] EXCEPT !.queued = ticket, !.media = @ \/ batch.media]]
          /\ UNCHANGED <<pc, isolated, sender, still>> /\ ~Refuses(d)
      BY <1>1, <2>4 DEF Accept
    <3>2. link'[d].queued = ticket /\ UNCHANGED <<link[d].cut, link[d].away>>
      BY <1>1, <1>2, <3>1 DEF Links
    <3>3. \A e \in Destinations \ {d} : Same(e)
      BY <1>2, <2>2, <3>1 DEF Same
    <3> QED BY <1>1, <2>2, <2>4, <3>1, <3>2, <3>3
  <2>5. CASE Throw(d) /\ d = Primary
    <3>1. \A e \in Destinations \ {d} : Same(e)
      BY <2>2, <2>5 DEF Throw, Same
    <3> QED BY <1>1, <2>2, <2>5, <3>1 DEF Throw
  <2>6. CASE Throw(d) /\ d # Primary
    <3>1. \A e \in Destinations \ {d} : Same(e)
      BY <1>1, <2>2, <2>6, Asking DEF Throw, Same
    <3> QED BY <1>1, <2>2, <2>6, <3>1 DEF Throw
  <2> QED BY <2>1, <2>3, <2>4, <2>5, <2>6
<1> QED BY <1>3, <1>4

LEMMA CutOverFields ==
  ASSUME TargetConstants, TypeOK, CutOver
  PROVE  \E d \in cut.todo :
           /\ d \in Destinations /\ cut \in Cutoffs /\ cut # None
           /\ \A e \in Destinations \ {d} : Same(e)
           /\ epochOf'[d] = cut.epoch /\ cut'.epoch = cut.epoch /\ cut'.todo = cut.todo \ {d}
           /\ link'[d].queued = 0 /\ (link'[d].cut => link[d].cut \/ sender[d].state = "Running")
           /\ UNCHANGED <<sender, link[d].away, ticket, pc, todo, still>>
<1>0. PICK d \in cut.todo : d = First(cut.todo)
  BY FirstOf DEF CutOver, TypeOK, Cutoffs
<1>1. /\ d \in cut.todo /\ d \in Destinations /\ cut \in Cutoffs /\ cut # None
  BY <1>0 DEF CutOver, TypeOK, Cutoffs
<1>2. /\ epochOf \in [Destinations -> Nat] /\ link \in [Destinations -> Links] /\ link[d] \in Links
      /\ sender[d] \in Status
  BY <1>1 DEF TypeOK
<1>3. PICK w \in {FALSE, sender[d].state = "Running"} :
        link' = [link EXCEPT ![d] = [link[d] EXCEPT !.queued = 0, !.media = FALSE, !.cut = @ \/ w]]
  BY ZenonT(40), <1>0 DEF CutOver
<1>4. link'[d].queued = 0 /\ link'[d].cut = (link[d].cut \/ w) /\ link'[d].away = link[d].away
  BY <1>1, <1>2, <1>3 DEF Links
<1>5. /\ epochOf' = [epochOf EXCEPT ![d] = cut.epoch]
      /\ cut' = [cut EXCEPT !.todo = cut.todo \ {d}]
      /\ UNCHANGED <<sender, ticket, pc, todo, still>>
  BY <1>0 DEF CutOver, epochVars
<1>6. cut'.epoch = cut.epoch /\ cut'.todo = cut.todo \ {d}
  BY <1>1, <1>5 DEF Cutoffs
<1>7. \A e \in Destinations \ {d} : Same(e)
  BY <1>2, <1>3, <1>5 DEF Same
<1>8. link'[d].cut => link[d].cut \/ sender[d].state = "Running"
  BY <1>3, <1>4
<1> QED BY <1>1, <1>2, <1>4, <1>5, <1>6, <1>7, <1>8

LEMMA TickFields ==
  ASSUME TargetConstants, TypeOK, Tick, NEW d \in Destinations
  PROVE  /\ UNCHANGED <<sender[d], epochOf[d], link[d].queued, link[d].cut>>
         /\ link'[d].away <=> d # Primary /\ Resuming(sender[d])
<1>1. link[d] \in Links
  BY DEF TypeOK
<1> DEFINE rest == IF link[d].rest = 0 THEN 0 ELSE link[d].rest - 1
           away == d # Primary /\ Resuming(sender[d])
<1>2. link'[d] = [link[d] EXCEPT !.rest = rest, !.away = away]
  BY Zenon DEF Tick
<1>3. link'[d].queued = link[d].queued /\ link'[d].cut = link[d].cut /\ link'[d].away = away
  <2> HIDE DEF rest, away
  <2> QED BY <1>1, <1>2 DEF Links
<1> QED BY Zenon, <1>3 DEF Tick

LEMMA HeldKept ==
  ASSUME TargetConstants, FenceInv, Held, Current, [Next]_vars
  PROVE  Held'
<1> USE DEF lifeVars, linkVars, epochVars, askVars, fenceVars
<1>0. TypeOK /\ Out /\ Fresh /\ Epochs
  BY DEF FenceInv
<1>s. SUFFICES ASSUME NEW e \in Destinations, HeldBy(e) PROVE HeldBy(e)'
  BY DEF Held
<1>f. /\ sender[e].epoch \in Nat /\ sender[e].ticket \in Nat /\ sender[e].published \in Nat
      /\ sender[e].reconnected \in BOOLEAN
      /\ link[e].queued \in Nat /\ epochOf[e] \in Nat /\ ticket \in Nat
      /\ sender[e] \in Status /\ sender \in [Destinations -> Status]
  BY <1>0, FieldTypes DEF TypeOK
<1>1. ASSUME NEW d \in Destinations, Sender(d) PROVE HeldBy(e)'
  <2>1. CASE d = e
    BY <1>0, <1>s, <1>1, <2>1, SenderHolds
  <2>2. CASE d # e
    <3>1. PICK s \in Status : sender' = [sender EXCEPT ![d] = s]
      BY <1>0, <1>1, SenderMoves
    <3>2. PICK l \in Links : link' = [link EXCEPT ![d] = l]
      BY <1>0, <1>1, SenderMoves
    <3>3. Same(e) /\ UNCHANGED <<ticket, pc, todo>>
      BY <1>1, <2>2, <3>1, <3>2, <1>0 DEF Same, Sender, TypeOK
    <3> QED BY <1>0, <1>s, <3>3, SameHeld
  <2> QED BY <2>1, <2>2
<1>2. ASSUME NEW d \in Destinations, RequestStop(d), epochOf'[d] \in Nat, d # e => epochOf'[e] = epochOf[e],
             ticket' = ticket, pc' # "consume"
      PROVE  HeldBy(e)'
  <2>1. CASE d = e
    BY <1>0, <1>2, <2>1, StopHolds
  <2>2. CASE d # e
    <3>1. Same(e)
      BY <1>0, <1>2, <2>2, Asking DEF Same
    <3> QED BY <1>0, <1>s, <1>2, <3>1, SameHeld
  <2> QED BY <2>1, <2>2
<1>3. CASE Cancel
  <2>1. at \in Destinations /\ epochOf'[at] \in Nat /\ pc' # "consume"
    BY <1>0, <1>3 DEF Cancel, CancelsNext, TypeOK
  <2> QED BY <1>2, <1>3, <2>1 DEF Cancel
<1>4. CASE Decide
  <2>1. CASE UNCHANGED <<sender, link>>
    <3>1. Same(e) /\ pc' # "consume" /\ ticket' = ticket
      BY <1>4, <2>1 DEF Decide, Proceed, Same
    <3> QED BY <1>0, <1>s, <3>1, SameHeld
  <2>2. CASE RequestStop(at)
    <3>1. at \in Destinations /\ epochOf'[at] \in Nat /\ epochOf' = epochOf /\ pc' # "consume" /\ ticket' = ticket
      BY <1>0, <1>4 DEF Decide, Proceed, TypeOK
    <3> QED BY <1>2, <2>2, <3>1
  <2> QED BY <1>4, <2>1, <2>2 DEF Decide
<1>5. CASE Consume
  <2>0. PICK d \in todo :
           /\ d \in Destinations /\ todo' = todo \ {d} /\ ticket' = ticket
           /\ \A x \in Destinations \ {d} : Same(x)
           /\ \/ Same(d) /\ UNCHANGED <<pc, isolated, still>>
              \/ /\ epochOf'[d] = current /\ epochOf[d] <= current /\ current > 0
                 /\ \/ /\ Away(d) /\ ~Refuses(d) /\ UNCHANGED <<pc, isolated>>
                       /\ sender'[d].epoch = current /\ sender'[d].ticket = ticket
                       /\ link'[d].queued = ticket /\ still' = [still EXCEPT !["ticket"][d] = 0]
                       /\ UNCHANGED <<sender[d].state, sender[d].published,
                                      sender[d].reconnected, link[d].cut, link[d].away>>
                    \/ /\ ~Away(d) /\ ~Refuses(d) /\ UNCHANGED <<pc, isolated>>
                       /\ link'[d].queued = ticket
                       /\ UNCHANGED <<sender[d], link[d].cut, link[d].away, still>>
                    \/ /\ d = Primary /\ UNCHANGED <<sender[d], link[d], isolated, still>>
                       /\ pc' = "thrown"
                    \/ RequestStop(d) /\ isolated' = [isolated EXCEPT ![d] = TRUE]
                       /\ UNCHANGED <<pc, still>>
    BY <1>0, <1>5, ConsumeFields
  <2>1. pc = "consume" /\ current \in Nat /\ (pc' = "consume" => pc = "consume")
    BY <1>0, <1>5 DEF Consume, TypeOK
  <2>2. CASE Same(e)
    BY <1>0, <1>s, <2>0, <2>1, <2>2, SameHeld
  <2>3. CASE e = d /\ ~Same(d)
    <3>1. epochOf'[e] = current /\ epochOf[e] <= current /\ current > 0 /\ e \notin todo'
      BY <2>0, <2>3
    <3>2. CASE RequestStop(e)
      BY <1>0, <2>0, <2>1, <2>3, <3>1, <3>2, StopHolds
    <3>3. CASE /\ Away(e) /\ sender'[e].epoch = current /\ sender'[e].ticket = ticket
               /\ link'[e].queued = ticket
               /\ UNCHANGED <<sender[e].state, sender[e].published,
                              sender[e].reconnected, link[e].cut, link[e].away>>
      BY <1>s, <1>f, <2>0, <2>1, <3>1, <3>3 DEF HeldBy, Away, Resuming
    <3>4. CASE link'[e].queued = ticket /\ UNCHANGED <<sender[e], link[e].cut, link[e].away>>
      BY <1>s, <1>f, <2>0, <2>1, <3>1, <3>4 DEF HeldBy
    <3>5. CASE UNCHANGED <<sender[e], link[e]>>
      BY <1>s, <1>f, <2>0, <2>1, <3>1, <3>5 DEF HeldBy
    <3> QED BY <2>0, <2>3, <3>2, <3>3, <3>4, <3>5
  <2> QED BY <2>0, <2>2, <2>3
<1>6. CASE CutOver
  <2>0. PICK d \in cut.todo :
           /\ d \in Destinations /\ cut \in Cutoffs /\ cut # None
           /\ \A x \in Destinations \ {d} : Same(x)
           /\ epochOf'[d] = cut.epoch
           /\ link'[d].queued = 0 /\ (link'[d].cut => link[d].cut \/ sender[d].state = "Running")
           /\ UNCHANGED <<sender, link[d].away, ticket, pc, todo>>
    BY <1>0, <1>6, CutOverFields
  <2>1. CASE e # d
    BY <1>0, <1>s, <2>0, <2>1, SameHeld
  <2>2. CASE e = d
    <3>1. cut.epoch \in Nat /\ epochOf[e] < cut.epoch
      BY <2>0, <2>2 DEF Cutoffs, Current
    <3>2. pc = "consume" /\ e \in todo => 0 < ticket
      BY <1>s, <1>f DEF HeldBy
    <3> QED BY <1>s, <1>f, <2>0, <2>2, <3>1, <3>2 DEF HeldBy
  <2> QED BY <2>1, <2>2
<1>7. CASE Tick
  <2>1. UNCHANGED <<pc, todo, ticket>>
    BY Zenon, <1>7 DEF Tick
  <2> QED BY <1>0, <1>s, <1>f, <1>7, <2>1, TickFields DEF HeldBy
<1>8. CASE Join
  <2>1. /\ pc = "join" /\ UNCHANGED <<link, epochOf, ticket>> /\ pc' # "consume"
        /\ sender' = [sender EXCEPT ![at] = [sender[at] EXCEPT !.state = "Stopped"]]
    BY <1>8 DEF Join, To
  <2>2. CASE e # at
    <3>1. Same(e)
      BY <1>f, <2>1, <2>2 DEF Same
    <3> QED BY <1>0, <1>s, <2>1, <3>1, SameHeld
  <2>3. CASE e = at
    <3>1. Refuses(e)
      BY <1>0, <2>1 DEF Out
    <3>2. ~link[e].cut /\ ~link[e].away
      BY <1>s, <3>1 DEF HeldBy, Refuses, Resuming
    <3>3. sender'[e].state = "Stopped"
          /\ UNCHANGED <<sender[e].epoch, sender[e].ticket, sender[e].published>>
      BY <1>f, <2>1, <2>3 DEF Status
    <3> QED BY <1>s, <1>f, <2>1, <3>2, <3>3 DEF HeldBy
  <2> QED BY <2>2, <2>3
<1>9. ASSUME NEW d \in Destinations, Start(d) PROVE HeldBy(e)'
  <2>1. /\ UNCHANGED <<link, epochOf, ticket, pc, todo>> /\ pc = "starting"
        /\ sender[d].state = "Stopped"
    BY <1>0, <1>9 DEF Start, Fresh
  <2>2. PICK ok \in BOOLEAN :
          sender' = [sender EXCEPT ![d] = [sender[d] EXCEPT !.state = IF ok THEN "Starting" ELSE @]]
    BY <1>9 DEF Start, To
  <2>3. CASE e # d
    <3>1. Same(e)
      BY <1>f, <2>1, <2>2, <2>3 DEF Same
    <3> QED BY <1>0, <1>s, <2>1, <3>1, SameHeld
  <2>4. CASE e = d
    <3>1. sender'[e].state \in {"Starting", "Stopped"}
          /\ UNCHANGED <<sender[e].epoch, sender[e].ticket, sender[e].published>>
      BY <1>f, <2>1, <2>2, <2>4 DEF Status
    <3>2. ~link[e].cut /\ ~link[e].away
      BY <1>s, <2>1, <2>4 DEF HeldBy, Resuming
    <3> QED BY <1>s, <1>f, <2>1, <3>1, <3>2 DEF HeldBy
  <2> QED BY <2>3, <2>4
<1>10. CASE Dispatch
  BY <1>s, <1>f, <1>10 DEF Dispatch, HeldBy
<1>11. CASE /\ \A d \in Destinations : ~Start(d) /\ ~Sender(d)
            /\ ~Cancel /\ ~Decide /\ ~Consume /\ ~CutOver /\ ~Tick /\ ~Join /\ ~Dispatch
  <2>1. Same(e) /\ ticket' = ticket
    BY <1>11 DEF Same, Admission, Next, Worker, vars, Started, GoLive, Shutdown,
         Erase, Consumed, Thrown, Adopt, Await, AskWanted, AskOther,
         Begin, Look, Admit, Discontinuity, Admitted
  <2>2. pc' = "consume" => pc = "consume" /\ todo' \subseteq todo
    BY <1>11 DEF Admission, Next, Worker, vars, Started, GoLive, Shutdown,
         Erase, Consumed, Thrown, Adopt, Await, AskWanted, AskOther,
         Begin, Proceed, Look, Admit, Discontinuity, Admitted
  <2> QED BY <1>0, <1>s, <2>1, <2>2, SameHeld
<1> QED BY <1>1, <1>3, <1>4, <1>5, <1>6, <1>7, <1>8, <1>9, <1>10, <1>11

-----------------------------------------------------------------------------
\* Who has stopped is out of service, and what epochs the questions are of.

LEMMA KnownStart ==
  ASSUME TargetConstants, Init
  PROVE  Held /\ Known /\ Current /\ Waiters /\ Seen
<1>1. \A d \in Destinations : sender[d] = Idle /\ link[d] = Unlinked /\ epochOf[d] = 0
  BY DEF Init
<1>2. Held
  BY <1>1 DEF Init, Held, HeldBy, Idle, Unlinked
<1>3. Known /\ Current
  BY DEF Init, Known, Current, Serving
<1>4. \A k \in Kinds, d \in Destinations : wait[k][d].age = None
  BY DEF Init, NoWait
<1>5. Waiters
  BY <1>4 DEF Waiters, Waited, WaitsOf, TicketWait, BoundaryWait, Kinds
<1> QED BY <1>2, <1>3, <1>5 DEF Init, Seen

LEMMA KnownKept ==
  ASSUME TargetConstants, FenceInv, Known, [Next]_vars
  PROVE  Known'
<1> USE DEF lifeVars, linkVars, epochVars, askVars, fenceVars
<1>0. TypeOK /\ Out /\ Fresh /\ Epochs
  BY DEF FenceInv
<1>f. /\ sender \in [Destinations -> Status] /\ started \in [Destinations -> {"pending", "ok", "no"}]
      /\ isolated \in [Destinations -> BOOLEAN]
  BY <1>0 DEF TypeOK
<1> DEFINE Halted(e) == sender[e].state \in {"Stopping", "Stopped"}
           Knows(e) ==
             /\ pc = "starting" /\ Halted(e) => started[e] # "ok"
             /\ pc \in Serving \cup {"connecting"} /\ e # Primary /\ Halted(e) => isolated[e]
<1>s. SUFFICES ASSUME NEW e \in Destinations, Knows(e) PROVE Knows(e)'
  BY DEF Known
<1>1. ASSUME NEW d \in Destinations, Sender(d) PROVE Knows(e)'
  <2>1. UNCHANGED <<pc, started, isolated>>
    BY <1>1 DEF Sender
  <2>2. Halted(e)' => Halted(e)
    <3>1. CASE d = e
      BY <1>0, <1>1, <3>1, SenderFields DEF Sender
    <3>2. CASE d # e
      <4>1. PICK s \in Status : sender' = [sender EXCEPT ![d] = s]
        BY <1>0, <1>1, SenderMoves
      <4> QED BY <1>f, <3>2, <4>1
    <3> QED BY <3>1, <3>2
  <2> QED BY <1>s, <2>1, <2>2
<1>2. ASSUME NEW d \in Destinations, Start(d) PROVE Knows(e)'
  <2>1. pc' = "starting"
    BY <1>2 DEF Start
  <2>2. PICK ok \in BOOLEAN :
          /\ started' = [started EXCEPT ![d] = IF ok THEN "ok" ELSE "no"]
          /\ sender' = [sender EXCEPT ![d] = [sender[d] EXCEPT !.state = IF ok THEN "Starting" ELSE @]]
    BY <1>2 DEF Start, To
  <2>3. CASE d # e
    BY <1>s, <1>2, <1>f, <2>1, <2>2, <2>3 DEF Start, Serving
  <2>4. CASE d = e
    <3>1. ok => sender'[e].state = "Starting"
      BY <1>f, <2>2, <2>4 DEF Status
    <3> QED BY <1>f, <2>1, <2>2, <2>4, <3>1 DEF Serving
  <2> QED BY <2>3, <2>4
<1>3. CASE Started
  <2>1. pc = "starting" /\ pc' \in {"connecting", "cancel"} /\ sender' = sender
        /\ started[e] # "pending"
    BY <1>3 DEF Started
  <2>2. e # Primary /\ started[e] = "no" => isolated'[e]
    BY <1>3 DEF Started
  <2> QED BY <1>s, <1>f, <2>1, <2>2
<1>4. CASE Cancel \/ Join
  <2>1. pc' \in {"cancel", "join", "erase"}
    BY <1>4 DEF Cancel, CancelsNext, Join
  <2> QED BY <2>1 DEF Serving
<1>5. CASE Consume
  <2>1. pc = "consume" /\ (pc' = "consume" \/ pc' = "thrown")
    BY <1>5 DEF Consume, Accept, Throw
  <2>2. CASE UNCHANGED <<sender[e].state, isolated>>
    BY <1>s, <2>1, <2>2 DEF Serving
  <2>3. CASE e # Primary => isolated'[e]
    BY <2>1, <2>3
  <2>4. PICK d \in Destinations :
           /\ \A x \in Destinations \ {d} : Same(x)
           /\ \/ UNCHANGED <<sender[d].state, isolated>>
              \/ isolated' = [isolated EXCEPT ![d] = TRUE]
    <3>1. PICK d \in todo :
           /\ d \in Destinations
           /\ \A x \in Destinations \ {d} : Same(x)
           /\ \/ Same(d) /\ UNCHANGED isolated
              \/ UNCHANGED <<sender[d].state, isolated>>
              \/ UNCHANGED <<sender[d], isolated>>
              \/ isolated' = [isolated EXCEPT ![d] = TRUE]
      BY <1>0, <1>5, ConsumeFields
    <3> QED BY <3>1 DEF Same
  <2>5. CASE d = e
    BY <1>f, <2>2, <2>3, <2>4, <2>5
  <2>6. CASE d # e
    <3>1. sender'[e] = sender[e] /\ isolated'[e] = isolated[e]
      BY <1>f, <2>4, <2>6 DEF Same
    <3> QED BY <1>s, <2>1, <3>1 DEF Serving
  <2> QED BY <2>5, <2>6
<1>6. CASE Decide
  <2>1. pc = "ask" /\ pc' \in {"ask", "live"} /\ at \in Destinations
    BY <1>0, <1>6 DEF Decide, Proceed, TypeOK
  <2>2. CASE UNCHANGED <<sender, isolated>>
    BY <1>s, <2>1, <2>2 DEF Serving
  <2>3. CASE RequestStop(at) /\ isolated' = [isolated EXCEPT ![at] = TRUE]
    <3>1. CASE e = at
      BY <1>f, <2>1, <2>3, <3>1
    <3>2. CASE e # at
      <4>1. sender'[e] = sender[e]
        BY <1>0, <2>1, <2>3, <3>2, Asking
      <4> QED BY <1>s, <1>f, <2>1, <2>3, <3>2, <4>1 DEF Serving
    <3> QED BY <3>1, <3>2
  <2> QED BY <1>6, <2>2, <2>3 DEF Decide
<1>7. CASE /\ \A d \in Destinations : ~Start(d) /\ ~Sender(d)
           /\ ~Started /\ ~Cancel /\ ~Join /\ ~Consume /\ ~Decide
  <2>1. UNCHANGED <<sender, started, isolated>>
    BY ZenonT(40), <1>7 DEF Admission, Next, Worker, vars, GoLive, Shutdown,
         Erase, Dispatch, Consumed, Thrown, Adopt, Await, AskWanted, AskOther,
         Begin, Look, Admit, Discontinuity, CutOver, Admitted, Tick
  <2>2. /\ pc' = "starting" => pc = "starting"
        /\ pc' \in Serving \cup {"connecting"} => pc \in Serving \cup {"connecting"}
    BY Zenon, <1>7 DEF Admission, Next, Worker, vars, GoLive, Shutdown,
         Erase, Dispatch, Consumed, Thrown, Adopt, Await, AskWanted, AskOther,
         Begin, Proceed, Look, Admit, Discontinuity, CutOver, Admitted, Tick, Serving
  <2> QED BY SMTT(30), <1>s, <2>1, <2>2
<1> QED BY <1>1, <1>2, <1>3, <1>4, <1>5, <1>6, <1>7

LEMMA CurrentKept ==
  ASSUME TargetConstants, FenceInv, Current, [Next]_vars
  PROVE  Current'
<1> USE DEF lifeVars, linkVars, epochVars, askVars, fenceVars
<1>0. TypeOK /\ Out /\ Fresh /\ Epochs /\ Cut
  BY DEF FenceInv
<1>f. /\ publication_epoch \in Nat /\ current \in Nat /\ floor \in Nat
      /\ epochOf \in [Destinations -> Nat] /\ epochOf' \in [Destinations -> Nat]
      /\ cut # None => cut \in Cutoffs
  BY <1>0, TypeKept DEF TypeOK
<1>c. \A x \in Cutoffs : x # None /\ x.epoch \in Nat /\ (x.todo # None => x.todo \in SUBSET Destinations)
  <2>1. None \notin Cutoffs
    BY DEF TargetConstants
  <2>2. \A x \in Cutoffs : x.epoch \in Nat /\ (x.todo # None => x.todo \in SUBSET Destinations)
    BY DEF Cutoffs
  <2> QED BY <2>1, <2>2
<1>1. CASE GoLive
  <2>1. /\ cut = None /\ floor = 0 /\ publication_epoch = 0 /\ want = None
        /\ \A d \in Destinations : epochOf[d] = 0
    BY <1>0, <1>1 DEF GoLive, Fresh, Current
  <2> QED BY <1>1, <2>1 DEF GoLive, Current
<1>2. CASE Adopt
  <2>1. cut = None /\ floor = publication_epoch /\ current < publication_epoch
    BY <1>2 DEF Adopt, Current
  <2>2. \A d \in Destinations : Refuses(d) \/ publication_epoch <= epochOf[d]
    BY <1>0, <1>f, <2>1 DEF Cut, Behind
  <2>3. current' = publication_epoch /\ want' = None /\ pc' = "live"
        /\ UNCHANGED <<cut, floor, publication_epoch, epochOf, sender>>
    BY <1>2 DEF Adopt
  <2> QED BY <2>1, <2>2, <2>3 DEF Current, Refuses
<1>3. CASE Consume
  <2>1. PICK d \in Destinations : epochOf' = epochOf \/ epochOf' = [epochOf EXCEPT ![d] = current]
    <3>1. First(todo) \in Destinations /\ batch.epoch = current
      BY <1>0, <1>3, FirstOf DEF Consume, TypeOK, Epochs
    <3> QED BY <1>3, <3>1 DEF Consume
  <2>2. /\ UNCHANGED <<current, cut, floor, publication_epoch>> /\ pc = "consume"
        /\ pc' \in {"consume", "thrown"} /\ want' \in {want, None}
    BY <1>3 DEF Consume, Accept, Throw
  <2>3. \A e \in Destinations : Refuses(e) => Refuses(e)'
    BY <1>0, <1>3, EndedStays DEF Consume, Start
  <2>4. \A e \in Destinations : Refuses(e)' \/ epochOf'[e] = 0 \/ current <= epochOf'[e]
    BY <1>f, <2>1, <2>3 DEF Current
  <2>5. cut # None => \A e \in Destinations : cut.todo = None \/ e \in cut.todo
                                             => epochOf'[e] < cut.epoch
    BY <1>f, <1>c, <2>1 DEF Current
  <2> QED BY <2>2, <2>4, <2>5 DEF Current
<1>4. CASE CutOver
  <2>0. PICK d \in cut.todo :
           /\ d \in Destinations /\ cut \in Cutoffs /\ cut # None
           /\ \A e \in Destinations \ {d} : Same(e)
           /\ epochOf'[d] = cut.epoch /\ cut'.epoch = cut.epoch /\ cut'.todo = cut.todo \ {d}
           /\ UNCHANGED <<sender, pc>>
    BY <1>0, <1>4, CutOverFields
  <2>1. /\ UNCHANGED <<current, floor, publication_epoch, want, query, at>>
        /\ cut.todo # None /\ cut.epoch = publication_epoch /\ current < cut.epoch
    BY <1>0, <1>4, <2>0 DEF CutOver, Epochs, Current
  <2>2. cut.todo \in SUBSET Destinations /\ cut'.todo # None
    BY <1>c, <2>0, <2>1 DEF TargetConstants
  <2>3. \A e \in Destinations : Refuses(e)' \/ epochOf'[e] = 0 \/ current <= epochOf'[e]
    BY <1>f, <2>0, <2>1 DEF Current, Refuses, Same
  <2>4. \A e \in Destinations : e \in cut'.todo => epochOf'[e] < cut.epoch
    BY <1>f, <2>0, <2>1 DEF Current, Same
  <2>5. cut' # None
    <3>1. TypeOK'
      BY <1>0, TypeKept
    <3>2. cut' = [cut EXCEPT !.todo = @ \ {First(cut.todo)}]
      BY <1>4 DEF CutOver
    <3>3. cut' \in Cutoffs
      BY <2>0, <2>2, <3>2 DEF Cutoffs
    <3> QED BY <1>c, <3>3
  <2>6. ~(pc = "ask" /\ query.kind = "ticket")
    BY <2>0, <2>1 DEF Current
  <2> QED BY <2>0, <2>1, <2>2, <2>3, <2>4, <2>5, <2>6 DEF Current
<1>5. CASE Admit
  <2>1. cut' = [epoch |-> publication_epoch + 1, todo |-> None] /\ publication_epoch' = publication_epoch + 1
        /\ UNCHANGED <<current, floor, want, query, at, pc, epochOf, sender>>
    BY <1>5 DEF Admit
  <2>2. cut' \in Cutoffs /\ cut' # None
    BY <1>f, <1>c, <2>1 DEF Cutoffs
  <2>3. \A e \in Destinations : epochOf[e] < publication_epoch + 1
    BY <1>0, <1>f DEF Epochs
  <2>4. current < publication_epoch + 1
    BY <1>0, <1>f DEF Epochs
  <2> QED BY <2>1, <2>2, <2>3, <2>4 DEF Current, Refuses
<1>6. CASE Discontinuity
  <2>1. /\ cut # None /\ cut.todo = None /\ pc # "ask" /\ cut \in Cutoffs
        /\ cut' = [cut EXCEPT !.todo = InService]
        /\ UNCHANGED <<current, floor, publication_epoch, want, query, at, pc, epochOf, sender>>
    BY <1>f, <1>6 DEF Discontinuity, CutFor
  <2>2. cut'.epoch = cut.epoch /\ InService \in SUBSET Destinations /\ cut' \in Cutoffs
    BY <1>0, <2>1 DEF Cutoffs, InService, TypeOK
  <2>3. cut' # None
    BY <1>c, <2>2
  <2> QED BY <2>1, <2>2, <2>3 DEF Current, Refuses
<1>7. CASE Admitted
  <2>1. cut' = None /\ floor' = publication_epoch
        /\ UNCHANGED <<current, publication_epoch, want, query, at, pc, epochOf, sender>>
    BY <1>0, <1>7 DEF Admitted, Epochs
  <2> QED BY <2>1 DEF Current, Refuses
<1>8. ASSUME NEW q \in Questions, q.epoch = current, Begin(q) PROVE Current'
  <2>1. /\ UNCHANGED <<current, cut, floor, publication_epoch, epochOf, sender>>
        /\ pc' \in {"ask", "live"} /\ want' \in {want, None}
        /\ pc' = "ask" => query' = q /\ at' = 2
    BY <1>8 DEF Begin, Proceed
  <2>2. q.kind = "ticket" => cut = None /\ \A d \in Destinations : epochOf[d] <= current
    <3>1. ASSUME q.kind = "ticket" PROVE publication_epoch = current
      BY <1>8, <3>1 DEF Begin, Open
    <3>2. cut # None => current < cut.epoch /\ cut.epoch = publication_epoch
      BY <1>0 DEF Current, Epochs
    <3> QED BY <1>0, <1>f, <3>1, <3>2 DEF Epochs
  <2> QED BY <1>8, <2>1, <2>2 DEF Current, Refuses, Primary
<1>9. CASE AskWanted
  <2>1. want \in Questions /\ want.epoch = current
    BY <1>0, <1>9 DEF AskWanted, TypeOK, Current
  <2> QED BY <1>8, <1>9, <2>1 DEF AskWanted
<1>10. CASE AskOther
  <2>1. \A q \in Queries : q \in Questions /\ q.epoch = current
    BY <1>0, WaitPieces DEF Queries
  <2> QED BY <1>8, <1>10, <2>1 DEF AskOther
<1>11. CASE Await
  <2>1. \A q \in Queries : q.epoch = current
    BY DEF Queries
  <2> QED BY <1>11, <2>1 DEF Await, Current, Refuses
<1>12. CASE Decide
  <2>1. /\ UNCHANGED <<current, cut, floor, publication_epoch, epochOf>>
        /\ pc = "ask" /\ pc' \in {"ask", "live"} /\ want' \in {want, None}
        /\ pc' = "ask" => query' = query /\ at' = at + 1
    BY <1>12 DEF Decide, Proceed
  <2>2. \A e \in Destinations : Refuses(e) => Refuses(e)'
    BY <1>0, <1>12, EndedStays DEF Decide, Start
  <2>3. at \in Nat
    BY <1>0 DEF TypeOK, Destinations
  <2> QED BY <2>1, <2>2, <2>3 DEF Current, Primary
<1>13. ASSUME NEW d \in Destinations, Start(d) PROVE Current'
  <2>1. UNCHANGED <<current, cut, floor, publication_epoch, epochOf, pc, want, query, at>>
        /\ pc = "starting" /\ \A e \in Destinations : epochOf[e] = 0
    BY <1>0, <1>13 DEF Start, Fresh
  <2> QED BY <2>1 DEF Current
<1>14. CASE /\ \A d \in Destinations : ~Start(d)
            /\ ~Admission /\ ~GoLive /\ ~Adopt /\ ~Consume /\ ~AskWanted /\ ~AskOther
            /\ ~Await /\ ~Decide
  <2>1. UNCHANGED <<current, cut, floor, publication_epoch, epochOf>>
    BY Zenon, <1>14 DEF Next, Worker, vars, Sender, Started, Shutdown, Cancel, Join, Erase, Dispatch,
         Consumed, Thrown, Look, Tick
  <2>2. /\ pc' = "ask" => pc = "ask" /\ UNCHANGED <<query, at>>
        /\ want' \in {want, None}
        /\ pc' \in {"starting", "connecting"} => pc \in {"starting", "connecting"}
    BY Zenon, <1>14 DEF Next, Worker, vars, Sender, Started, Shutdown, Cancel, CancelsNext, Join, Erase,
         Dispatch, Consumed, Thrown, Look, Tick
  <2>3. \A e \in Destinations : Refuses(e) => Refuses(e)'
    BY <1>0, <1>14, EndedStays
  <2> QED BY <2>1, <2>2, <2>3 DEF Current
<1> QED BY <1>1, <1>2, <1>3, <1>4, <1>5, <1>6, <1>7, <1>9, <1>10, <1>11, <1>12, <1>13, <1>14
        DEF Admission

-----------------------------------------------------------------------------
\* What a wait has noted holds while it is noted.

LEMMA WaitTypes ==
  ASSUME TypeOK, NEW d \in Destinations, NEW k \in Kinds
  PROVE  /\ wait[k][d] \in Waits /\ wait[k][d].epoch \in Nat /\ wait[k][d].progress \in Nat
         /\ wait[k][d].age # None => wait[k][d].age \in Nat
         /\ wait[k][d].gap \in {0, 1} /\ still[k][d] \in Nat
BY DEF TypeOK, Waits

\* A destination whose state, waits and stand are as they were.
LEMMA SameWaits ==
  ASSUME TargetConstants, TypeOK, NEW d \in Destinations, Waited(d), Same(d),
         \A k \in Kinds : UNCHANGED <<wait[k][d], still[k][d]>>,
         current' = current
  PROVE  Waited(d)'
<1>1. "ticket" \in Kinds /\ "boundary" \in Kinds
  BY DEF Kinds
<1>2. WaitsOf(d)'
  BY DEF Waited, WaitsOf, Same
<1>3. TicketWait(d)'
  BY <1>1 DEF Waited, TicketWait, Same, Refuses, TicketsOf
<1>4. BoundaryWait(d)'
  BY <1>1 DEF Waited, BoundaryWait, Same, Refuses, Resuming
<1> QED BY <1>2, <1>3, <1>4 DEF Waited

\* A sender that has ended is not waited for.
LEMMA EndedWaits ==
  ASSUME TargetConstants, TypeOK, NEW d \in Destinations, Refuses(d)', WaitsOf(d)'
  PROVE  Waited(d)'
BY DEF Waited, TicketWait, BoundaryWait

LEMMA SenderWaits ==
  ASSUME TargetConstants, TypeOK, Current, NEW d \in Destinations, d # Primary,
         HeldBy(d), Waited(d), Sender(d)
  PROVE  Waited(d)'
<1>f. /\ sender[d].epoch \in Nat /\ sender[d].ticket \in Nat /\ sender[d].published \in Nat
      /\ link[d].queued \in Nat /\ epochOf[d] \in Nat /\ current \in Nat
  BY FieldTypes DEF TypeOK
<1> DEFINE tw == wait["ticket"][d]
           bw == wait["boundary"][d]
<1>w. /\ "ticket" \in Kinds /\ "boundary" \in Kinds
      /\ tw.epoch \in Nat /\ tw.progress \in Nat /\ (tw.age # None => tw.age \in Nat)
      /\ bw.epoch \in Nat /\ bw.progress \in Nat /\ (bw.age # None => bw.age \in Nat)
      /\ still["ticket"][d] \in Nat /\ still["boundary"][d] \in Nat
  BY WaitTypes DEF Kinds
<1>0. UNCHANGED <<current, epochOf, wait>>
  BY DEF Sender, epochVars
<1>1. ASSUME link'[d].away => link[d].away PROVE WaitsOf(d)'
  BY <1>0, <1>1 DEF Waited, WaitsOf
<1>2. CASE Connect(d) \/ FinishCut(d) \/ End(d)
  <2>1. /\ UNCHANGED <<sender[d].epoch, sender[d].ticket, sender[d].published,
                       sender[d].reconnected, link[d].away>>
        /\ still' = still
    BY <1>2, SenderFields DEF Connect, FinishCut, End
  <2>2. Refuses(d)' <=> Refuses(d)
    BY <1>2, SenderFields DEF Refuses
  <2>3. ~Resuming(sender'[d]) => ~Resuming(sender[d])
    BY <1>2, SenderFields DEF Resuming
  <2>4. TicketWait(d)'
    BY <1>0, <2>1, <2>2 DEF Waited, TicketWait, TicketsOf
  <2>5. BoundaryWait(d)'
    BY <1>0, <2>1, <2>2, <2>3 DEF Waited, BoundaryWait
  <2> QED BY <1>1, <2>1, <2>4, <2>5 DEF Waited
<1>3. CASE Deliver(d)
  <2>1. /\ sender[d].state = "Running"
        /\ sender'[d].epoch = epochOf[d] /\ sender'[d].ticket \in Nat
        /\ sender'[d].ticket <= link[d].queued
        /\ sender'[d].ticket > TicketsOf(sender[d], epochOf[d])
        /\ UNCHANGED <<sender[d].state, sender[d].published, sender[d].reconnected, link[d]>>
    BY <1>3, SenderFields
  <2>2. still'["boundary"][d] = still["boundary"][d]
    BY <1>3 DEF Deliver, TypeOK, Kinds
  <2>3. BoundaryWait(d)'
    BY <1>0, <2>1, <2>2 DEF Waited, BoundaryWait, Refuses, Resuming
  <2>4. TicketWait(d)'
    <3>1. SUFFICES ASSUME tw.age # None, epochOf[d] <= tw.epoch
                   PROVE  tw.progress < TicketsOf(sender'[d], tw.epoch)
      BY <1>0, <1>w, <1>f, <2>1 DEF TicketWait, TicketsOf
    <3>2. epochOf[d] # 0
      BY <1>f, <2>1 DEF HeldBy, TicketsOf
    <3>3. ~Refuses(d) /\ tw.epoch <= current
      BY <1>w, <2>1, <3>1 DEF Refuses, Waited, WaitsOf
    <3>4. epochOf[d] = tw.epoch
      BY <1>f, <1>w, <3>1, <3>2, <3>3 DEF Current
    <3>5. tw.progress <= TicketsOf(sender[d], tw.epoch)
      BY <3>1, <3>3 DEF Waited, TicketWait
    <3>6. TicketsOf(sender'[d], tw.epoch) = sender'[d].ticket
      BY <2>1, <3>4 DEF TicketsOf
    <3>7. TicketsOf(sender[d], tw.epoch) \in Nat
      BY <1>f DEF TicketsOf
    <3> QED BY <1>w, <2>1, <3>4, <3>5, <3>6, <3>7
  <2> QED BY <1>1, <2>1, <2>3, <2>4 DEF Waited
<1>4. CASE Publish(d)
  <2>1. /\ sender[d].state = "Running"
        /\ sender'[d].published = epochOf[d] /\ sender[d].published # epochOf[d]
        /\ ~link'[d].away /\ UNCHANGED <<sender[d].state, sender[d].epoch, sender[d].ticket>>
    BY <1>4, SenderFields
  <2>2. still'["ticket"][d] = still["ticket"][d]
    BY <1>4 DEF Publish, TypeOK, Kinds
  <2>3. TicketWait(d)'
    BY <1>0, <2>1, <2>2 DEF Waited, TicketWait, TicketsOf, Refuses
  <2>4. BoundaryWait(d)'
    <3>1. SUFFICES ASSUME bw.epoch = current, bw.progress < bw.epoch, bw.progress = epochOf[d],
                          bw.age # None, bw.age > still'["boundary"][d]
                   PROVE  FALSE
      <4>1. still'["boundary"][d] \in Nat
        BY <1>4, <1>w DEF Publish, TypeOK
      <4> QED BY <1>0, <1>w, <2>1, <4>1 DEF BoundaryWait
    <3>2. ~Refuses(d)
      BY <2>1 DEF Refuses
    <3>3. epochOf[d] = 0
      BY <1>f, <1>w, <3>1, <3>2 DEF Current
    <3> QED BY <1>f, <2>1, <3>3 DEF HeldBy
  <2> QED BY <1>1, <2>1, <2>3, <2>4 DEF Waited
<1>5. CASE Lose(d)
  <2>1. /\ ~Refuses(d) /\ still' = still
        /\ sender'[d].state = "Reconnecting"
        /\ sender'[d].epoch = (IF link[d].queued = 0 THEN 0 ELSE epochOf[d])
        /\ sender'[d].ticket = link[d].queued
        /\ UNCHANGED link[d].away
    BY Zenon, <1>5, SenderFields DEF Refuses, Lose
  <2>2. BoundaryWait(d)'
    BY <2>1 DEF BoundaryWait, Resuming
  <2>3. TicketWait(d)'
    <3>1. SUFFICES ASSUME tw.age # None, epochOf[d] <= tw.epoch
                   PROVE  TicketsOf(sender[d], tw.epoch) <= TicketsOf(sender'[d], tw.epoch)
      <4>1. TicketsOf(sender[d], tw.epoch) \in Nat /\ TicketsOf(sender'[d], tw.epoch) \in Nat
        BY <1>f, <2>1 DEF TicketsOf
      <4> QED BY <1>0, <1>w, <2>1, <3>1, <4>1 DEF Waited, TicketWait
    <3>2. sender[d].epoch = tw.epoch => epochOf[d] = tw.epoch /\ sender[d].ticket <= link[d].queued
      BY <1>f, <1>w, <3>1 DEF HeldBy
    <3> QED BY <1>f, <2>1, <3>2 DEF TicketsOf
  <2> QED BY SMTT(30), <1>1, <2>1, <2>2, <2>3 DEF Waited
<1>6. CASE Replace(d)
  <2>1. /\ ~Refuses(d) /\ still' = still /\ link[d].cut
        /\ sender'[d].state = "Reconnecting"
        /\ sender'[d].epoch = 0 /\ sender'[d].ticket = 0 /\ UNCHANGED link[d].away
    BY Zenon, <1>6, SenderFields DEF Refuses, Replace
  <2>2. BoundaryWait(d)'
    BY <2>1 DEF BoundaryWait, Resuming
  <2>3. TicketWait(d)'
    <3>1. epochOf[d] <= tw.epoch => TicketsOf(sender[d], tw.epoch) = 0
      BY <1>f, <1>w, <2>1 DEF HeldBy, TicketsOf
    <3>2. TicketsOf(sender'[d], tw.epoch) = 0
      BY <2>1 DEF TicketsOf
    <3> QED BY <1>0, <1>w, <2>1, <3>1, <3>2 DEF Waited, TicketWait
  <2> QED BY SMTT(30), <1>1, <2>1, <2>2, <2>3 DEF Waited
<1>7. CASE Resume(d)
  <2>1. /\ sender[d].state = "Reconnecting" /\ sender'[d].state = "Running" /\ still' = still
        /\ UNCHANGED <<sender[d].published, sender[d].epoch, sender[d].ticket,
                       sender[d].reconnected, link[d].away>>
    BY <1>7, SenderFields DEF Resume
  <2>2. Resuming(sender'[d])
    BY <2>1 DEF HeldBy, Resuming
  <2>3. BoundaryWait(d)'
    BY <2>2 DEF BoundaryWait
  <2>4. TicketWait(d)'
    BY <1>0, <2>1 DEF Waited, TicketWait, TicketsOf, Refuses
  <2> QED BY <1>1, <2>1, <2>3, <2>4 DEF Waited
<1>8. CASE GiveUp(d)
  <2>1. sender'[d].state = "Failed" /\ link'[d] = Unlinked
    BY <1>8, SenderFields
  <2>2. Refuses(d)' /\ ~link'[d].away
    BY <2>1 DEF Refuses, Unlinked
  <2> QED BY <1>1, <2>2, EndedWaits
<1> QED BY <1>2, <1>3, <1>4, <1>5, <1>6, <1>7, <1>8 DEF Sender

LEMMA AcceptWaits ==
  ASSUME TargetConstants, TypeOK, NEW d \in Destinations, d # Primary, HeldBy(d), Waited(d),
         pc = "consume", d \in todo, current' = current, wait' = wait,
         epochOf'[d] = current, epochOf[d] <= current, current > 0,
         \/ /\ Away(d) /\ ~Refuses(d)
            /\ sender'[d].epoch = current /\ sender'[d].ticket = ticket
            /\ still' = [still EXCEPT !["ticket"][d] = 0]
            /\ UNCHANGED <<sender[d].state, sender[d].published,
                           sender[d].reconnected, link[d].away>>
         \/ UNCHANGED <<sender[d], link[d].away, still>>
  PROVE  Waited(d)'
<1>f. /\ sender[d].epoch \in Nat /\ sender[d].ticket \in Nat /\ ticket \in Nat
      /\ epochOf[d] \in Nat /\ current \in Nat
  BY FieldTypes DEF TypeOK
<1> DEFINE tw == wait["ticket"][d]
<1>w. /\ "ticket" \in Kinds /\ "boundary" \in Kinds
      /\ tw.epoch \in Nat /\ tw.progress \in Nat /\ (tw.age # None => tw.age \in Nat)
  BY WaitTypes DEF Kinds
<1>1. WaitsOf(d)'
  BY DEF Waited, WaitsOf
<1>2. BoundaryWait(d)'
  <2>1. still'["boundary"][d] = still["boundary"][d]
    BY DEF TypeOK, Kinds
  <2> QED BY <2>1 DEF Waited, BoundaryWait, Refuses, Resuming
<1>3. TicketWait(d)'
  <2>1. SUFFICES ASSUME tw.age # None, current <= tw.epoch, ~Refuses(d)
                 PROVE  /\ tw.progress <= TicketsOf(sender'[d], tw.epoch)
                        /\ tw.progress = TicketsOf(sender'[d], tw.epoch) => tw.age <= still'["ticket"][d]
    BY DEF TicketWait, Refuses
  <2>2. tw.epoch = current
    BY <1>f, <1>w, <2>1 DEF Waited, WaitsOf
  <2>3. epochOf[d] <= tw.epoch
    BY <2>2
  <2>4. /\ tw.progress <= TicketsOf(sender[d], tw.epoch)
        /\ tw.progress = TicketsOf(sender[d], tw.epoch) => tw.age <= still["ticket"][d]
    BY <2>1, <2>3 DEF Waited, TicketWait
  <2>5. CASE UNCHANGED <<sender[d], still>>
    BY <2>4, <2>5
  <2>6. CASE sender'[d].epoch = current /\ sender'[d].ticket = ticket
    <3>1. TicketsOf(sender'[d], tw.epoch) = ticket
      BY <2>2, <2>6 DEF TicketsOf
    <3>2. TicketsOf(sender[d], tw.epoch) < ticket /\ TicketsOf(sender[d], tw.epoch) \in Nat
      BY <1>f DEF HeldBy, TicketsOf
    <3> QED BY <1>f, <1>w, <2>4, <3>1, <3>2
  <2> QED BY <2>5, <2>6
<1> QED BY <1>1, <1>2, <1>3 DEF Waited

LEMMA TickWaits ==
  ASSUME TargetConstants, TypeOK, Tick, NEW d \in Destinations, d # Primary, Waited(d), HeldBy(d)
  PROVE  Waited(d)'
<1>f. UNCHANGED <<sender, epochOf, current>> /\ (link'[d].away <=> Resuming(sender[d]))
  BY Zenon, TickFields DEF Tick, epochVars
<1>k. "ticket" \in Kinds /\ "boundary" \in Kinds
  BY DEF Kinds
<1>1. ASSUME NEW k \in Kinds, wait'[k][d].age # None
      PROVE  /\ wait[k][d].age # None /\ wait[k][d].gap = 0 /\ wait'[k][d].gap = 1
             /\ wait'[k][d].epoch = wait[k][d].epoch /\ wait'[k][d].progress = wait[k][d].progress
             /\ wait'[k][d].age = Lower(wait[k][d].age + 1, Second)
             /\ still'[k][d] = Lower(still[k][d] + 1, Second)
             /\ wait[k][d].age <= still[k][d] => wait'[k][d].age <= still'[k][d]
  <2> DEFINE w == wait[k][d]
  <2>1. wait'[k][d] = Older(w) /\ w \in Waits /\ w.gap \in {0, 1}
    BY Zenon, WaitTypes DEF Tick
  <2>2. w.age # None /\ w.gap = 0
    BY <1>1, <2>1 DEF Older, NoWait
  <2>3. wait'[k][d] = [w EXCEPT !.age = Lower(@ + 1, Second), !.gap = 1]
    BY <2>1, <2>2 DEF Older
  <2>4. /\ wait'[k][d].epoch = w.epoch /\ wait'[k][d].progress = w.progress
        /\ wait'[k][d].age = Lower(w.age + 1, Second) /\ wait'[k][d].gap = 1
    <3> HIDE DEF w
    <3> QED BY <2>1, <2>3 DEF Waits
  <2>5. ~link[d].away
    BY <2>2 DEF Waited, WaitsOf
  <2>6. still'[k][d] = Lower(still[k][d] + 1, Second)
    BY Zenon, <1>1, <2>5 DEF Tick
  <2>7. w.age <= still[k][d] => Lower(w.age + 1, Second) <= Lower(still[k][d] + 1, Second)
    <3>1. w.age \in Nat /\ still[k][d] \in Nat /\ Second \in Nat
      BY <2>2, WaitTypes DEF TargetConstants
    <3> QED BY <3>1 DEF Lower
  <2> QED BY <2>2, <2>4, <2>6, <2>7
<1>2. WaitsOf(d)'
  BY <1>f, <1>1 DEF Waited, WaitsOf
<1>3. TicketWait(d)'
  BY <1>f, <1>k, <1>1 DEF Waited, TicketWait, Refuses, TicketsOf
<1>4. BoundaryWait(d)'
  BY <1>f, <1>k, <1>1 DEF Waited, BoundaryWait, Refuses, Resuming
<1> QED BY <1>2, <1>3, <1>4 DEF Waited

\* The answer is noted: a wait begins anew, or goes on.
LEMMA DecideWaits ==
  ASSUME TargetConstants, TypeOK, Current, Seen, Decide, NEW d \in Destinations, d # Primary,
         Waited(d)
  PROVE  Waited(d)'
<1> DEFINE k == query.kind
           s == seen.status
           w == wait[k][d]
           next == Asked(wait[query.kind][at], seen.status, query)
<1>t. /\ seen # None /\ query \in Questions /\ k \in Kinds /\ s \in Status /\ query.epoch = current
      /\ at \in Destinations /\ UNCHANGED <<epochOf, current, still>> /\ current \in Nat
      /\ seen.still \in Nat /\ query.epoch \in Nat
  BY DEF Decide, TypeOK, Questions, Current, epochVars
<1>w. /\ wait \in [Kinds -> [Destinations -> Waits]] /\ "ticket" \in Kinds /\ "boundary" \in Kinds
      /\ \A j \in Kinds : still[j][d] \in Nat
  BY DEF TypeOK, Kinds
<1>1. CASE UNCHANGED <<wait, sender, link>>
  <2>1. Same(d)
    BY <1>1, <1>t DEF Same
  <2> QED BY <1>1, <1>t, <2>1, SameWaits
<1>2. CASE Remember(at, NoWait) /\ UNCHANGED <<sender, link>>
  <2>1. CASE d # at
    <3>1. \A j \in Kinds : wait'[j][d] = wait[j][d]
      BY <1>t, <1>w, <1>2, <2>1 DEF Remember
    <3>2. Same(d)
      BY <1>2, <1>t DEF Same
    <3> QED BY <1>t, <3>1, <3>2, SameWaits
  <2>2. CASE d = at
    <3>1. \A j \in Kinds : wait'[j][d] = wait[j][d] \/ wait'[j][d] = NoWait
      BY <1>t, <1>w, <1>2, <2>2 DEF Remember
    <3>2. NoWait.age = None
      BY DEF NoWait
    <3>3. WaitsOf(d)'
      BY <1>t, <1>2, <3>1, <3>2 DEF Waited, WaitsOf
    <3>4. TicketWait(d)'
      BY <1>t, <1>w, <1>2, <3>1, <3>2 DEF Waited, TicketWait, Refuses, TicketsOf
    <3>5. BoundaryWait(d)'
      BY <1>t, <1>w, <1>2, <3>1, <3>2 DEF Waited, BoundaryWait, Refuses, Resuming
    <3> QED BY <3>3, <3>4, <3>5 DEF Waited
  <2> QED BY <2>1, <2>2
<1>3. CASE /\ ~Resuming(s) /\ Remember(at, next)
           /\ \/ RequestStop(at)
              \/ UNCHANGED <<sender, link>>
  <2>1. CASE d # at
    <3>1. \A j \in Kinds : wait'[j][d] = wait[j][d]
      BY <1>t, <1>w, <1>3, <2>1 DEF Remember
    <3>2. Same(d)
      BY <1>3, <1>t, <2>1, Asking DEF Same
    <3> QED BY <1>t, <3>1, <3>2, SameWaits
  <2>2. CASE d = at
    <3> DEFINE n == Asked(w, s, query)
    <3>1. /\ \A j \in Kinds : j # k => wait'[j][d] = wait[j][d]
          /\ wait'[k][d] = n
      BY <1>t, <1>w, <1>3, <2>2 DEF Remember
    <3>2. /\ n.gap = 0
          /\ \/ /\ n.epoch = current /\ n.progress = Progress(s, query) /\ n.age = 0
             \/ /\ w.age # None /\ n.epoch = w.epoch /\ n.progress = w.progress /\ n.age = w.age
      <4>1. w \in Waits
        BY <1>t, <1>w
      <4>2. CASE Renews(w, s, query)
        BY <1>t, <4>2 DEF Asked
      <4>3. CASE ~Renews(w, s, query)
        <5>1. n = [w EXCEPT !.gap = 0]
          BY <4>3 DEF Asked
        <5> QED BY <4>1, <4>3, <5>1 DEF Waits, Renews
      <4> QED BY <4>2, <4>3
    <3>3. ~link[d].away
      BY <1>t, <1>3, <2>2 DEF Seen
    <3> HIDE DEF n, k, s
    <3>4. CASE RequestStop(at)
      <4>1. link'[d] = Unlinked /\ sender'[d].state \in {"Stopping", "Stopped"}
        BY <1>t, <2>2, <3>4, Asking
      <4>2. ~link'[d].away
        BY <4>1 DEF Unlinked
      <4>3. WaitsOf(d)'
        BY <1>t, <3>1, <3>2, <4>2 DEF Waited, WaitsOf
      <4> QED BY <4>1, <4>3, EndedWaits DEF Refuses
    <3>5. CASE UNCHANGED <<sender, link>>
      <4>1. WaitsOf(d)'
        BY <1>t, <3>1, <3>2, <3>3, <3>5 DEF Waited, WaitsOf
      <4>2. TicketWait(d)'
        <5>1. CASE k # "ticket"
          BY <1>t, <1>w, <3>1, <3>5, <5>1 DEF Waited, TicketWait, Refuses, TicketsOf
        <5>2. CASE k = "ticket" /\ n.epoch = current /\ n.progress = Progress(s, query) /\ n.age = 0
          <6>1. ~Refuses(d) => TicketsOf(s, current) <= TicketsOf(sender[d], current)
            BY <1>t, <2>2, <5>2 DEF Seen, k, s
          <6>2. Progress(s, query) = TicketsOf(s, current)
            BY <1>t, <5>2 DEF Progress, TicketsOf, k
          <6> QED BY <1>t, <1>w, <3>1, <3>5, <5>2, <6>1, <6>2 DEF TicketWait, Refuses, TicketsOf
        <5>3. CASE /\ k = "ticket"
                   /\ w.age # None /\ n.epoch = w.epoch /\ n.progress = w.progress /\ n.age = w.age
          BY <1>t, <3>1, <3>5, <5>3 DEF Waited, TicketWait, Refuses, TicketsOf
        <5> QED BY <3>2, <5>1, <5>2, <5>3
      <4>3. BoundaryWait(d)'
        <5>1. CASE k # "boundary"
          BY <1>t, <1>w, <3>1, <3>5, <5>1 DEF Waited, BoundaryWait, Refuses, Resuming
        <5>2. CASE k = "boundary" /\ n.age = 0
          BY <1>t, <1>w, <3>1, <3>5, <5>2 DEF BoundaryWait
        <5>3. CASE /\ k = "boundary"
                   /\ w.age # None /\ n.epoch = w.epoch /\ n.progress = w.progress /\ n.age = w.age
          BY <1>t, <3>1, <3>5, <5>3 DEF Waited, BoundaryWait, Refuses, Resuming
        <5> QED BY <3>2, <5>1, <5>2, <5>3
      <4> QED BY <4>1, <4>2, <4>3 DEF Waited
    <3> QED BY <1>3, <3>4, <3>5
  <2> QED BY <2>1, <2>2
<1>4. \/ UNCHANGED <<wait, sender, link>>
      \/ Remember(at, NoWait) /\ UNCHANGED <<sender, link>>
      \/ /\ ~Resuming(s) /\ Remember(at, next)
         /\ \/ RequestStop(at)
            \/ UNCHANGED <<sender, link>>
  BY DEF Decide
<1> QED BY <1>1, <1>2, <1>3, <1>4

LEMMA NotTicked ==
  ASSUME Tick, NEW k \in Kinds, NEW d \in Destinations, wait[k][d].age = None
  PROVE  wait'[k][d].age = None
<1>1. wait'[k][d] = Older(wait[k][d])
  BY Zenon DEF Tick
<1> QED BY <1>1 DEF Older, NoWait

LEMMA WaitersKept ==
  ASSUME TargetConstants, StillInv, [Next]_vars
  PROVE  Waiters'
<1> USE DEF lifeVars, linkVars, epochVars, askVars, fenceVars
<1>0. TypeOK /\ Out /\ Fresh /\ Epochs /\ Cut /\ Held /\ Current /\ Seen
  BY DEF StillInv, FenceInv
<1>s. SUFFICES ASSUME NEW e \in Destinations, e # Primary, HeldBy(e), Waited(e) PROVE Waited(e)'
  <2>1. \A e \in Destinations \ {Primary} : HeldBy(e) /\ Waited(e)
    BY DEF StillInv, Held, Waiters
  <2>2. pc' = "starting" => \A k \in Kinds, e \in Destinations : wait'[k][e].age = None
    <3>1. pc' = "starting" => pc = "starting"
      BY Zenon DEF Next, Worker, Admission, vars, Sender, Start, Started, GoLive, Shutdown, Cancel,
         CancelsNext, Join, Erase, Dispatch, Consume, Accept, Throw, Consumed, Thrown, Adopt,
         Await, AskWanted, AskOther, Begin, Proceed, Look, Decide, Admit, Discontinuity, CutOver,
         Admitted, Tick
    <3>2. pc = "starting" => want = None
      BY <1>0 DEF Current
    <3>3. pc = "starting" => wait' = wait \/ Tick
      <4>0. SUFFICES ASSUME pc = "starting", ~Tick PROVE wait' = wait
        OBVIOUS
      <4>1. ~(AskWanted \/ AskOther \/ Decide \/ Shutdown \/ Thrown)
        BY <3>2, <4>0 DEF AskWanted, AskOther, Decide, Shutdown, Thrown
      <4>2. ASSUME NEW d \in Destinations, Start(d) \/ Sender(d) PROVE wait' = wait
        BY <4>2 DEF Start, Sender
      <4>3. CASE Admission \/ UNCHANGED vars
        BY <4>3 DEF Admission, Admit, Discontinuity, CutOver, Admitted, vars
      <4>4. CASE Worker
        BY <4>1, <4>4 DEF Worker, Started, GoLive, Cancel, Join, Erase, Dispatch, Consume,
           Consumed, Adopt, Await, Look
      <4> QED BY <4>0, <4>2, <4>3, <4>4 DEF Next
    <3>4. Tick => \A k \in Kinds, e \in Destinations :
                    wait[k][e].age = None => wait'[k][e].age = None
      BY NotTicked
    <3> QED BY SMTT(30), <3>1, <3>3, <3>4 DEF StillInv, Waiters
  <2> QED BY <2>1, <2>2 DEF Waiters
<1>f. /\ sender \in [Destinations -> Status] /\ still \in [Kinds -> [Destinations -> Nat]]
      /\ link \in [Destinations -> Links] /\ epochOf \in [Destinations -> Nat]
      /\ current \in Nat /\ publication_epoch \in Nat
  BY <1>0 DEF TypeOK
<1>k. Kinds = {"ticket", "boundary"}
  BY DEF Kinds
<1>1. ASSUME NEW d \in Destinations, Sender(d) PROVE Waited(e)'
  <2>1. CASE d = e
    BY <1>0, <1>s, <1>1, <2>1, SenderWaits
  <2>2. CASE d # e
    <3>1. PICK s \in Status : sender' = [sender EXCEPT ![d] = s]
      BY <1>0, <1>1, SenderMoves
    <3>2. PICK l \in Links : link' = [link EXCEPT ![d] = l]
      BY <1>0, <1>1, SenderMoves
    <3>3. \A k \in Kinds : still'[k][e] = still[k][e]
      <4>1. \/ still' = still \/ still' = [still EXCEPT !["ticket"][d] = 0]
            \/ still' = [still EXCEPT !["boundary"][d] = 0]
        BY Zenon, <1>1 DEF Sender, Connect, Deliver, Publish, Lose, Replace, FinishCut, Resume, GiveUp, End
      <4> QED BY SMTT(30), <1>f, <1>k, <2>2, <4>1
    <3>4. Same(e) /\ UNCHANGED <<current, wait>>
      BY <1>1, <1>f, <2>2, <3>1, <3>2 DEF Same, Sender
    <3> QED BY <1>0, <1>s, <3>3, <3>4, SameWaits
  <2> QED BY <2>1, <2>2
<1>2. CASE Consume
  <2>0. PICK d \in todo :
           /\ d \in Destinations
           /\ \A x \in Destinations \ {d} : Same(x)
           /\ \/ Same(d) /\ UNCHANGED still
              \/ /\ epochOf'[d] = current /\ epochOf[d] <= current /\ current > 0
                 /\ \/ /\ Away(d) /\ ~Refuses(d)
                       /\ sender'[d].epoch = current /\ sender'[d].ticket = ticket
                       /\ still' = [still EXCEPT !["ticket"][d] = 0]
                       /\ UNCHANGED <<sender[d].state, sender[d].published,
                                      sender[d].reconnected, link[d].away>>
                    \/ UNCHANGED <<sender[d], link[d].away, still>>
                    \/ d = Primary /\ UNCHANGED still
                    \/ RequestStop(d) /\ UNCHANGED still
    BY <1>0, <1>2, ConsumeFields
  <2>1. pc = "consume" /\ UNCHANGED <<current, wait>>
    BY <1>2 DEF Consume
  <2>2. CASE d # e
    <3>1. still' = still \/ still' = [still EXCEPT !["ticket"][d] = 0]
      BY <2>0
    <3>2. \A k \in Kinds : still'[k][e] = still[k][e]
      BY <1>f, <1>k, <2>2, <3>1
    <3> QED BY <1>0, <1>s, <2>0, <2>1, <2>2, <3>2, SameWaits
  <2>3. CASE d = e
    <3>1. CASE Same(e) /\ UNCHANGED still
      BY <1>0, <1>s, <2>1, <3>1, SameWaits
    <3>2. CASE RequestStop(e)
      <4>1. link'[e] = Unlinked /\ Refuses(e)'
        BY <1>0, <3>2, Asking DEF Refuses
      <4>2. WaitsOf(e)'
        BY <1>s, <2>1, <4>1 DEF Waited, WaitsOf, Unlinked
      <4> QED BY <1>0, <4>1, <4>2, EndedWaits
    <3>3. CASE /\ epochOf'[e] = current /\ epochOf[e] <= current /\ current > 0
               /\ \/ /\ Away(e) /\ ~Refuses(e)
                     /\ sender'[e].epoch = current /\ sender'[e].ticket = ticket
                     /\ still' = [still EXCEPT !["ticket"][e] = 0]
                     /\ UNCHANGED <<sender[e].state, sender[e].published,
                                    sender[e].reconnected, link[e].away>>
                  \/ UNCHANGED <<sender[e], link[e].away, still>>
      BY <1>0, <1>s, <2>0, <2>1, <2>3, <3>3, AcceptWaits
    <3> QED BY <1>s, <2>0, <2>3, <3>1, <3>2, <3>3
  <2> QED BY <2>2, <2>3
<1>3. CASE Cancel \/ Join
  <2>1. at \in Destinations /\ UNCHANGED <<current, wait, still, epochOf>>
    BY <1>0, <1>3 DEF Cancel, Join, TypeOK
  <2>2. CASE e # at
    <3>1. sender'[e] = sender[e] /\ link'[e] = link[e]
      BY <1>0, <1>3, <1>f, <2>1, <2>2, Asking DEF Cancel, Join, To
    <3>2. Same(e)
      BY <2>1, <3>1 DEF Same
    <3> QED BY <1>0, <1>s, <2>1, <3>2, SameWaits
  <2>3. CASE e = at
    <3>1. CASE Cancel
      <4>1. link'[e] = Unlinked /\ Refuses(e)'
        BY <1>0, <2>3, <3>1, Asking DEF Cancel, Refuses
      <4>2. WaitsOf(e)'
        BY <1>s, <2>1, <4>1 DEF Waited, WaitsOf, Unlinked
      <4> QED BY <1>0, <4>1, <4>2, EndedWaits
    <3>2. CASE Join
      <4>1. link' = link /\ Refuses(e)'
        BY <1>f, <2>3, <3>2 DEF Join, To, Refuses, Status
      <4>2. WaitsOf(e)'
        BY <1>s, <2>1, <4>1 DEF Waited, WaitsOf
      <4> QED BY <1>0, <4>1, <4>2, EndedWaits
    <3> QED BY <1>3, <3>1, <3>2
  <2> QED BY <2>2, <2>3
<1>4. CASE CutOver
  <2>0. PICK d \in cut.todo :
           /\ d \in Destinations /\ cut \in Cutoffs /\ cut # None
           /\ \A x \in Destinations \ {d} : Same(x)
           /\ epochOf'[d] = cut.epoch
           /\ UNCHANGED <<sender, link[d].away, still>>
    BY <1>0, <1>4, CutOverFields
  <2>1. UNCHANGED <<current, wait>>
    BY <1>4 DEF CutOver
  <2>2. CASE e # d
    BY <1>0, <1>s, <2>0, <2>1, <2>2, SameWaits
  <2>3. CASE e = d
    <3>1. current < cut.epoch /\ cut.epoch \in Nat
      BY <1>0, <2>0 DEF Current, Cutoffs
    <3>2. WaitsOf(e)'
      BY <1>s, <2>0, <2>1, <2>3 DEF Waited, WaitsOf
    <3>3. wait["ticket"][e].age # None => wait["ticket"][e].epoch < cut.epoch
      BY <1>0, <1>s, <1>f, <1>k, <3>1, WaitTypes DEF Waited, WaitsOf
    <3>4. wait["ticket"][e].epoch \in Nat
      BY <1>0, <1>k, WaitTypes
    <3>5. TicketWait(e)'
      BY <2>0, <2>1, <2>3, <3>1, <3>3, <3>4 DEF TicketWait
    <3>6. BoundaryWait(e)'
      BY <1>s, <2>0, <2>1, <2>3 DEF Waited, BoundaryWait, Refuses, Resuming
    <3> QED BY <3>2, <3>5, <3>6 DEF Waited
  <2> QED BY <2>2, <2>3
<1>5. CASE Tick
  BY <1>0, <1>s, <1>5, TickWaits
<1>6. CASE Decide
  BY <1>0, <1>s, <1>6, DecideWaits
<1>7. CASE (\E d \in Destinations : Start(d)) \/ Shutdown \/ Thrown
  <2>1. \A k \in Kinds : wait'[k][e].age = None
    <3>1. CASE \E d \in Destinations : Start(d)
      BY <3>1 DEF Start, StillInv, Waiters
    <3>2. CASE Shutdown \/ Thrown
      BY <3>2 DEF Shutdown, Thrown, Forget, NoWait
    <3> QED BY <1>7, <3>1, <3>2
  <2> QED BY <1>k, <2>1 DEF Waited, WaitsOf, TicketWait, BoundaryWait
<1>8. CASE Adopt \/ GoLive
  <2>1. current < current' /\ current' \in Nat /\ UNCHANGED <<wait, sender, link, epochOf>>
    BY <1>0, <1>f, <1>8 DEF Adopt, GoLive, Fresh
  <2>2. \A k \in Kinds : wait[k][e].age # None => wait[k][e].epoch < current'
    BY <1>0, <1>s, <1>f, <2>1, WaitTypes DEF Waited, WaitsOf
  <2>3. \A k \in Kinds : wait[k][e].epoch \in Nat
    BY <1>0, WaitTypes
  <2>4. WaitsOf(e)'
    BY <1>s, <1>f, <2>1, <2>2, <2>3 DEF Waited, WaitsOf
  <2>5. BoundaryWait(e)'
    BY <1>k, <2>1, <2>2, <2>3 DEF BoundaryWait
  <2>6. TicketWait(e)'
    <3>1. CASE Adopt
      <4>1. floor = publication_epoch /\ current' = floor
        BY <1>0, <3>1 DEF Adopt, Current
      <4>2. Refuses(e) \/ current' <= epochOf[e]
        BY <1>0, <1>f, <4>1 DEF Cut, Behind
      <4> QED BY <1>f, <1>k, <2>1, <2>2, <2>3, <4>2 DEF TicketWait, Refuses
    <3>2. CASE GoLive
      <4>1. still' = still
        BY <3>2 DEF GoLive
      <4> QED BY <1>s, <2>1, <4>1 DEF Waited, TicketWait, Refuses, TicketsOf
    <3> QED BY <1>8, <3>1, <3>2
  <2> QED BY <2>4, <2>5, <2>6 DEF Waited
<1>9. CASE /\ \A d \in Destinations : ~Start(d) /\ ~Sender(d)
           /\ ~Consume /\ ~Cancel /\ ~Join /\ ~CutOver /\ ~Tick /\ ~Decide /\ ~Shutdown
           /\ ~Thrown /\ ~Adopt /\ ~GoLive
  <2>1. UNCHANGED <<sender, link, epochOf, wait, still, current>>
    BY <1>9 DEF Admission, Next, Worker, vars, Started, Erase, Dispatch, Consumed, Await,
         AskWanted, AskOther, Begin, Look, Admit, Discontinuity, Admitted
  <2>2. Same(e)
    BY <2>1 DEF Same
  <2> QED BY <1>0, <1>s, <2>1, <2>2, SameWaits
<1> QED BY <1>1, <1>2, <1>3, <1>4, <1>5, <1>6, <1>7, <1>8, <1>9

-----------------------------------------------------------------------------
\* What was seen is still comparable when the answer is decided.

\* The tickets of an epoch that a sender has acknowledged do not become fewer.
LEMMA TicketsGrow ==
  ASSUME TargetConstants, TypeOK, NEW d \in Destinations, HeldBy(d), Sender(d),
         NEW e \in Nat, epochOf[d] <= e, epochOf[d] = 0 \/ e <= epochOf[d],
         ~Refuses(d)'
  PROVE  TicketsOf(sender[d], e) <= TicketsOf(sender'[d], e)
<1>f. /\ sender[d].epoch \in Nat /\ sender[d].ticket \in Nat /\ sender[d].published \in Nat
      /\ link[d].queued \in Nat /\ epochOf[d] \in Nat
  BY FieldTypes
<1>1. CASE Connect(d) \/ Publish(d) \/ FinishCut(d) \/ Resume(d) \/ End(d)
  <2>1. UNCHANGED <<sender[d].epoch, sender[d].ticket>>
    BY <1>1, SenderFields
  <2> QED BY <1>f, <2>1 DEF TicketsOf
<1>2. CASE Deliver(d)
  <2>1. /\ sender'[d].epoch = epochOf[d] /\ sender'[d].ticket \in Nat
        /\ sender'[d].ticket <= link[d].queued
        /\ sender'[d].ticket > TicketsOf(sender[d], epochOf[d])
    BY <1>2, SenderFields
  <2>2. epochOf[d] = e
    BY <1>f, <2>1 DEF HeldBy, TicketsOf
  <2> QED BY <1>f, <2>1, <2>2 DEF TicketsOf
<1>3. CASE Lose(d)
  <2>1. /\ sender'[d].epoch = (IF link[d].queued = 0 THEN 0 ELSE epochOf[d])
        /\ sender'[d].ticket = link[d].queued
    BY <1>3, SenderFields
  <2>2. sender[d].epoch = e => epochOf[d] = e /\ sender[d].ticket <= link[d].queued
    BY <1>f DEF HeldBy
  <2> QED BY <1>f, <2>1, <2>2 DEF TicketsOf
<1>4. CASE Replace(d)
  <2>1. link[d].cut /\ sender'[d].ticket = 0
    BY <1>4, SenderFields
  <2>2. TicketsOf(sender[d], e) = 0
    BY <1>f, <2>1 DEF HeldBy, TicketsOf
  <2> QED BY <2>1, <2>2 DEF TicketsOf
<1>5. CASE GiveUp(d)
  BY <1>5, SenderFields DEF Refuses
<1> QED BY <1>1, <1>2, <1>3, <1>4, <1>5 DEF Sender

\* The status is noted together with how long the destination has stood still.
LEMMA SeenAtLook ==
  ASSUME TargetConstants, StillInv, Look
  PROVE  Seen'
<1>0. TypeOK /\ Held /\ Known /\ Current /\ Waiters
  BY DEF StillInv, FenceInv
<1> DEFINE s == sender[at]
           k == query.kind
           w == wait[k][at]
<1>1. /\ pc = "ask" /\ pc' = "ask" /\ at \in Destinations /\ at # Primary
      /\ query \in Questions /\ k \in Kinds /\ query.epoch = current
      /\ UNCHANGED <<at, query, sender, link, wait, isolated>>
      /\ seen' = [status |-> s, still |-> still[k][at]]
  BY <1>0 DEF Look, TypeOK, Current, Questions, Primary, linkVars
<1>2. seen'.status = s /\ seen'.still = still[k][at]
  BY <1>1
<1>3. isolated[at] \/ s.state \notin {"Stopping", "Stopped"}
  BY <1>0, <1>1 DEF Known, Serving
<1>4. link[at].away => Resuming(s)
  BY <1>0, <1>1 DEF Held, HeldBy
<1>5. TicketsOf(s, query.epoch) <= TicketsOf(sender[at], query.epoch)
  <2>1. TicketsOf(s, query.epoch) \in Nat
    BY <1>0, <1>1, FieldTypes DEF TicketsOf
  <2> QED BY <2>1
<1>6. ASSUME ~isolated[at], s.state # "Failed", ~Resuming(s),
             ~(k = "boundary" /\ s.published >= query.epoch),
             w.age # None, w.epoch = query.epoch, w.progress = Progress(s, query)
      PROVE  w.age <= still[k][at]
  <2>1. ~Refuses(at) /\ Waited(at)
    BY <1>0, <1>1, <1>3, <1>6 DEF Refuses, Waiters
  <2>2. CASE k = "ticket"
    <3>1. epochOf[at] <= current
      BY <1>0, <1>1, <2>2 DEF Current
    <3>2. w.progress = TicketsOf(sender[at], w.epoch)
      BY <1>6, <2>2 DEF Progress, TicketsOf
    <3> QED BY <1>1, <1>6, <2>1, <2>2, <3>1, <3>2 DEF Waited, TicketWait
  <2>3. CASE k = "boundary"
    <3>1. w.progress = s.published
      BY <1>6, <2>3 DEF Progress
    <3>2. s.published \in Nat /\ current \in Nat
      BY <1>0, <1>1, FieldTypes DEF TypeOK
    <3>3. w.progress < w.epoch
      BY <1>1, <1>6, <2>3, <3>1, <3>2
    <3> QED BY <1>1, <1>6, <2>1, <2>3, <3>1, <3>3 DEF Waited, BoundaryWait
  <2> QED BY <1>1, <2>2, <2>3 DEF Kinds
<1> QED BY <1>1, <1>2, <1>3, <1>4, <1>5, <1>6 DEF Seen, OutOfService, LostSinceSeen

\* Nothing that it is compared with changes, and no ticket is lost.
LEMMA SeenStays ==
  ASSUME TargetConstants, StillInv, seen # None,
         UNCHANGED <<pc, at, query, wait, isolated, seen>>,
         link'[at].away => link[at].away,
         query.kind = "ticket" /\ ~Refuses(at)' =>
           /\ ~Refuses(at)
           /\ TicketsOf(sender[at], query.epoch) <= TicketsOf(sender'[at], query.epoch),
         TypeOK'
  PROVE  Seen'
<1>0. TypeOK /\ Seen
  BY DEF StillInv, FenceInv
<1>1. pc = "ask" /\ at \in Destinations /\ query \in Questions /\ seen.status \in Status
  BY <1>0 DEF TypeOK, Seen
<1>2. ASSUME query.kind = "ticket", ~Refuses(at)'
      PROVE  TicketsOf(seen.status, query.epoch) <= TicketsOf(sender'[at], query.epoch)
  <2>1. TicketsOf(seen.status, query.epoch) <= TicketsOf(sender[at], query.epoch)
    BY <1>0, <1>2 DEF Seen
  <2>2. /\ TicketsOf(seen.status, query.epoch) \in Nat /\ TicketsOf(sender[at], query.epoch) \in Nat
    BY <1>0, <1>1, FieldTypes DEF TicketsOf, Status
  <2>3. TicketsOf(sender'[at], query.epoch) \in Nat
    <3>1. sender'[at] \in Status
      BY <1>1 DEF TypeOK
    <3> QED BY <3>1 DEF TicketsOf, Status
  <2> QED BY <1>2, <2>1, <2>2, <2>3
<1> QED BY <1>0, <1>2 DEF Seen, OutOfService, LostSinceSeen

LEMMA SeenKept ==
  ASSUME TargetConstants, StillInv, [Next]_vars
  PROVE  Seen'
<1> USE DEF lifeVars, linkVars, epochVars, askVars, fenceVars
<1>0. TypeOK /\ TypeOK' /\ Held /\ Current /\ Seen
  BY TypeKept DEF StillInv, FenceInv
<1>1. CASE Look
  BY <1>1, SeenAtLook
<1>2. CASE seen' = None
  BY <1>2 DEF Seen
<1>3. CASE ~Look /\ seen' # None
  <2>1. ~Decide
    BY Zenon, <1>3 DEF Decide
  <2>2. seen' = seen
    BY Zenon, <1>3, <2>1 DEF Next, Worker, Admission, vars, Sender, Start, Started, GoLive, Shutdown,
       Cancel, Join, Erase, Dispatch, Consume, Consumed, Thrown, Adopt, Await, AskWanted,
       AskOther, Begin, Admit, Discontinuity, CutOver, Admitted, Tick
  <2>3. pc = "ask" /\ at \in Destinations /\ seen # None
    BY <1>0, <1>3, <2>2 DEF Seen, TypeOK
  <2>4. \/ \E d \in Destinations : Sender(d)
        \/ Admit \/ CutOver \/ Admitted \/ UNCHANGED vars
    <3>1. ~Tick /\ \A d \in Destinations : ~Start(d)
      BY <2>3 DEF Tick, Start
    <3>2. ~Worker
      BY <1>3, <2>1, <2>3 DEF Worker, Started, GoLive, Shutdown, Cancel, Join, Erase, Dispatch,
         Consume, Consumed, Thrown, Adopt, Await, AskWanted, AskOther, Begin
    <3>3. ~Discontinuity
      BY <2>3 DEF Discontinuity
    <3> QED BY <3>1, <3>2, <3>3 DEF Next, Admission
  <2>t. TicketsOf(sender[at], query.epoch) \in Nat
    BY <1>0, <2>3, FieldTypes DEF TicketsOf
  <2>5. CASE Admit \/ Admitted \/ UNCHANGED vars
    <3>1. UNCHANGED <<pc, at, query, wait, isolated, seen, sender, link>>
      BY <2>5 DEF Admit, Admitted, vars
    <3> QED BY <1>0, <2>3, <2>t, <3>1, SeenStays DEF Refuses
  <2>6. CASE CutOver
    <3>1. link'[at].away = link[at].away /\ sender' = sender
      <4>1. PICK d \in cut.todo :
              /\ \A x \in Destinations \ {d} : Same(x)
              /\ UNCHANGED <<sender, link[d].away>>
        BY <1>0, <2>6, CutOverFields DEF StillInv, FenceInv
      <4> QED BY <2>3, <4>1 DEF Same
    <3>2. UNCHANGED <<pc, at, query, wait, isolated, seen>>
      BY <2>6 DEF CutOver
    <3> QED BY <1>0, <2>3, <2>t, <3>1, <3>2, SeenStays DEF Refuses
  <2>7. ASSUME NEW d \in Destinations, Sender(d) PROVE Seen'
    <3>1. UNCHANGED <<pc, at, query, wait, isolated, seen>>
      BY <2>7 DEF Sender
    <3>2. CASE d # at
      <4>1. sender'[at] = sender[at] /\ link'[at] = link[at]
        <5>1. PICK s \in Status : sender' = [sender EXCEPT ![d] = s]
          BY <1>0, <2>7, SenderMoves
        <5>2. PICK l \in Links : link' = [link EXCEPT ![d] = l]
          BY <1>0, <2>7, SenderMoves
        <5> QED BY <1>0, <2>3, <3>2, <5>1, <5>2 DEF TypeOK
      <4> QED BY <1>0, <2>3, <2>t, <3>1, <4>1, SeenStays DEF Refuses
    <3>3. CASE d = at
      <4>1. link'[at].away => link[at].away
        <5>1. ~Unlinked.away
          BY DEF Unlinked
        <5> QED BY <1>0, <2>7, <3>3, <5>1, SenderFields DEF Sender
      <4>2. ASSUME query.kind = "ticket", ~Refuses(at)'
            PROVE  /\ ~Refuses(at)
                   /\ TicketsOf(sender[at], query.epoch) <= TicketsOf(sender'[at], query.epoch)
        <5>1. ~Refuses(at)
          <6>1. PICK s \in Status : /\ sender' = [sender EXCEPT ![d] = s]
                                    /\ Refuses(d) => s.state \in Ended
            BY <1>0, <2>7, SenderMoves
          <6> QED BY <1>0, <3>1, <3>3, <4>2, <6>1 DEF TypeOK, Refuses, Ended
        <5>2. query.epoch = current /\ current \in Nat /\ epochOf[at] <= current
          BY <1>0, <2>3, <4>2 DEF Current, TypeOK
        <5>3. epochOf[at] = 0 \/ current <= epochOf[at]
          BY <1>0, <2>3, <5>1 DEF Current
        <5>4. HeldBy(at)
          BY <1>0, <2>3 DEF Held
        <5>5. ~Refuses(d)'
          BY <3>1, <3>3, <4>2 DEF Refuses
        <5>6. TicketsOf(sender[d], current) <= TicketsOf(sender'[d], current)
          BY <1>0, <2>7, <3>3, <5>2, <5>3, <5>4, <5>5, TicketsGrow
        <5> QED BY <3>3, <5>1, <5>2, <5>6
      <4> QED BY <1>0, <2>3, <3>1, <4>1, <4>2, SeenStays
    <3> QED BY <3>2, <3>3
  <2> QED BY <2>4, <2>5, <2>6, <2>7
<1> QED BY <1>1, <1>2, <1>3

LEMMA StillStep ==
  ASSUME TargetConstants, StillInv, [Next]_vars
  PROVE  StillInv'
<1>1. FenceInv'
  BY FenceStep DEF StillInv
<1>2. Held'
  BY HeldKept DEF StillInv
<1>3. Known'
  BY KnownKept DEF StillInv
<1>4. Current'
  BY CurrentKept DEF StillInv
<1>5. Waiters' /\ Seen'
  BY WaitersKept, SeenKept
<1> QED BY <1>1, <1>2, <1>3, <1>4, <1>5 DEF StillInv

\* Whoever the gate gives up has stood still for as long as its wait is old.
LEMMA OnlyStalled ==
  ASSUME TargetConstants, StillInv, Decide, NEW d \in Destinations,
         isolated[d] # isolated'[d]
  PROVE  seen.still >= Second \/ LostSinceSeen
<1>0. TypeOK /\ Seen
  BY DEF StillInv, FenceInv
<1> DEFINE w == wait[query.kind][at]
           s == seen.status
           next == Asked(wait[query.kind][at], seen.status, query)
<1>1. /\ seen # None /\ pc = "ask" /\ at \in Destinations /\ query \in Questions
      /\ query.kind \in Kinds /\ seen.still \in Nat /\ s \in Status /\ w \in Waits
  BY <1>0 DEF Decide, TypeOK, Questions
<1>2. /\ ~OutOfService(at) /\ ~Resuming(s) /\ next.age >= Second
  BY DEF Decide, StandsStill
<1>3. Second \in Nat /\ Second > 0
  BY DEF TargetConstants
<1>4. ~Renews(w, s, query)
  BY <1>2, <1>3 DEF Asked
<1>5. next.age = w.age /\ w.age # None /\ w.epoch = query.epoch /\ w.progress = Progress(s, query)
  <2>1. next = [w EXCEPT !.gap = 0]
    BY <1>4 DEF Asked
  <2> QED BY <1>1, <1>4, <2>1 DEF Waits, Renews
<1>6. w.age \in Nat
  BY <1>1, <1>5 DEF Waits
<1> QED BY <1>0, <1>1, <1>2, <1>3, <1>5, <1>6 DEF Seen

\* The invariant behind the patience of the gate.
THEOREM AllStill == Spec => []StillInv
<1>1. Init => StillInv
  BY TargetConstants, FenceStart, KnownStart DEF StillInv
<1>2. StillInv /\ [Next]_vars => StillInv'
  BY TargetConstants, StillStep
<1> QED BY <1>1, <1>2, PTL DEF Spec

\* However slowly the questions are asked, and whatever becomes of the
\* connections, delivery_ready gives a secondary up only after it has delivered
\* nothing for the whole patience of the gate (OnlyStalledIsIsolated).
THEOREM StalledIsIsolated == Spec => OnlyStalledIsIsolated
<1>1. StillInv /\ [Next]_vars =>
        [\A d \in Destinations : isolated[d] # isolated'[d] /\ Decide
                                   => seen.still >= Second \/ LostSinceSeen]_vars
  BY TargetConstants, OnlyStalled
<1> QED BY <1>1, AllStill, PTL DEF Spec, OnlyStalledIsIsolated
=============================================================================
