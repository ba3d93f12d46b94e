------------------------- MODULE SessionQueueProofs -------------------------
(***************************************************************************)
(* Proofs about SessionQueue, for every set of keys, every capacity and    *)
(* every number of messages and queues.                                    *)
(***************************************************************************)
EXTENDS SessionQueue, FiniteSetTheorems, TLAPS

(* Type correctness, with the fact that consumers, cancellations and marks *)
(* are those of queues that were made.                                     *)

MadeInv ==
  /\ \A c \in Queues : consumer[c] # "none" => c <= made
  /\ cancelled \subseteq 1..made
  /\ idle \subseteq 1..made

TypeInv == TypeOK /\ MadeInv

(* What a queue holds is "queued" for it, no message stands in it twice,   *)
(* and a queued message stands in the queue it was routed to.              *)
HeldIsQueued ==
  \A c \in Queues : \A i \in 1..Len(queue[c]) :
    place[queue[c][i]] = "queued" /\ target[queue[c][i]] = c

HeldOnce ==
  \A c \in Queues : \A i, j \in 1..Len(queue[c]) : queue[c][i] = queue[c][j] => i = j

QueuedIsHeld ==
  \A m \in Messages : place[m] = "queued" =>
    \E i \in 1..Len(queue[target[m]]) : queue[target[m]][i] = m

(* Messages that have not arrived are nowhere; those on their way or in a  *)
(* queue have one.                                                         *)
RoutedHasQueue ==
  \A m \in Messages :
    /\ m > arrived => place[m] = "none" /\ target[m] = None
    /\ place[m] \in {"routed", "queued"} => target[m] # None

QueuesInv == HeldIsQueued /\ HeldOnce /\ QueuedIsHeld /\ RoutedHasQueue

(* Queues are made for one key, and so are the messages in them.           *)
OwnersInv ==
  /\ \A k \in Keys : registered[k] # None => owner[registered[k]] = k
  /\ \A m \in Messages : target[m] # None => owner[target[m]] = keyOf[m]

(* Until stop_all cancels the consumers, a registered one is alive, nobody *)
(* has cancelled it, and the cleanup does not await it: it awaits what it  *)
(* has popped before.                                                      *)
AliveInv ==
  manager \in {"up", "draining", "halting"} =>
    \A k \in Keys : registered[k] # None =>
      /\ Live(registered[k])
      /\ registered[k] \notin cancelled
      /\ registered[k] # sweep.joining

(* While the manager is up, the sweep and the cancellations concern quiet  *)
(* keys; a busy key's consumer stays registered, and follows its run.      *)
BusyInv ==
  manager = "up" =>
    /\ \A c \in idle \cup cancelled : owner[c] \in Quiet
    /\ sweep.todo \subseteq Quiet
    /\ \A c \in Queues : Serves(c) /\ owner[c] \notin Quiet => registered[owner[c]] = c
    /\ \A k \in Keys \ Quiet : run[k] # None =>
         consumer[run[k]] = "streaming" /\ owner[run[k]] = k
    /\ \A m \in Messages : place[m] = "ignored" => keyOf[m] \in Quiet

(* The messages a consumer has taken are its batch until it hands them on, *)
(* and while it gathers one it has a batch; messages that run have a run.  *)
Gathering == {"fetching", "preparing"}

BatchesInv ==
  /\ \A m \in Messages :
       /\ place[m] = "taken" => target[m] # None /\ consumer[target[m]] \in Gathering
       /\ place[m] = "running" => run[keyOf[m]] # None
  /\ \A c \in Queues : consumer[c] \in Gathering => Batch(c) # {}

(* The messages of a busy key were all routed to the queue it has.         *)
TargetsInv ==
  Up => \A m \in Messages :
    target[m] # None /\ keyOf[m] \notin Quiet => registered[keyOf[m]] = target[m]

IInv == /\ TypeInv /\ QueuesInv /\ OwnersInv /\ AliveInv /\ BusyInv
        /\ BatchesInv /\ TargetsInv
-----------------------------------------------------------------------------
(* Type correctness.                                                       *)

LEMMA MoveType ==
  ASSUME TypeOK, NEW S, NEW p \in Place, Move(S, p)
  PROVE  /\ place' \in [Messages -> Place]
         /\ \A m \in Messages : place'[m] = IF m \in S THEN p ELSE place[m]
BY DEF TypeOK, Move

(* What the sweep does in a step.                                          *)
LEMMA SweepType ==
  ASSUME TypeOK, NEW S \in SUBSET Keys, SweepNext(S)
  PROVE  /\ sweep' \in [todo : SUBSET Keys, joining : 0..made]
         /\ registered' \in [Keys -> 0..made]
         /\ cancelled' \subseteq cancelled \cup 1..made
         /\ cancelled' \subseteq Queues
         /\ sweep'.todo \subseteq S
         /\ \A k \in Keys : registered'[k] \in {registered[k], None}
<1> USE DEF TypeOK, None, Queues
<1>1. CASE sweep' = Sleeping /\ UNCHANGED <<registered, cancelled>>
  BY <1>1 DEF Sleeping
<1>2. ASSUME NEW k \in S, NEW rest \in SUBSET S, registered[k] # None,
             sweep' = [todo |-> rest, joining |-> registered[k]],
             cancelled' = cancelled \cup {registered[k]}, registered' = Forget(k)
      PROVE  /\ sweep' \in [todo : SUBSET Keys, joining : 0..made]
             /\ registered' \in [Keys -> 0..made]
             /\ cancelled' \subseteq cancelled \cup 1..made
             /\ cancelled' \subseteq Queues
             /\ sweep'.todo \subseteq S
             /\ \A j \in Keys : registered'[j] \in {registered[j], None}
  <2>1. registered[k] \in 1..made
    BY <1>2
  <2>2. 1..made \subseteq Queues
    BY ConstantsAssumption
  <2> HIDE DEF Queues
  <2>4. cancelled' \subseteq cancelled \cup 1..made /\ cancelled' \subseteq Queues
    BY <1>2, <2>1, <2>2
  <2>3. /\ registered' \in [Keys -> 0..made]
        /\ \A j \in Keys : registered'[j] \in {registered[j], None}
    BY <1>2 DEF Forget
  <2> QED
    BY <1>2, <2>1, <2>3, <2>4
<1> QED
  BY <1>1, <1>2 DEF SweepNext

LEMMA RouteType ==
  ASSUME TypeInv, NEW k \in Keys, Route(k)
  PROVE  TypeInv'
<1> USE DEF Route, TypeInv, TypeOK, Messages, Queues, None
<1>1. /\ arrived + 1 \in Messages /\ arrived' \in 0..MaxMessages
      /\ keyOf' \in [Messages -> Keys]
  BY ConstantsAssumption
<1>2. place' \in [Messages -> Place]
  BY DEF Place
<1>3. CASE registered[k] # None
  <2>1. /\ made' = made /\ target' \in [Messages -> 0..made']
        /\ idle' \subseteq idle
    BY <1>1, <1>3
  <2>2. TypeOK'
    BY <1>1, <1>2, <1>3, <2>1
  <2> QED
    BY <1>3, <2>1, <2>2 DEF MadeInv
<1>4. CASE registered[k] = None
  <2>1. made' = made + 1 /\ made + 1 \in Queues /\ made' \in 0..MaxQueues
    BY <1>4, ConstantsAssumption
  <2>2. 0..made \subseteq 0..made' /\ 1..made \subseteq 1..made' /\ made + 1 \in 0..made'
    BY <2>1
  <2>3. registered' \in [Keys -> 0..made']
    <3>1. registered' = [registered EXCEPT ![k] = made + 1]
      BY <1>4 DEF Register
    <3>2. registered \in [Keys -> 0..made']
      BY <2>2
    <3> QED
      BY <2>2, <3>1, <3>2
  <2>4. target' \in [Messages -> 0..made']
    <3>1. target' = [target EXCEPT ![arrived + 1] = made + 1]
      BY <1>4
    <3>2. target \in [Messages -> 0..made']
      BY <2>2
    <3> QED
      BY <2>2, <3>1, <3>2
  <2>5. owner' \in [Queues -> Keys] /\ consumer' \in [Queues -> Consumer]
    <3>1. owner' = [owner EXCEPT ![made + 1] = k]
      BY <1>4
    <3>2. consumer' = [consumer EXCEPT ![made + 1] = "created"] /\ "created" \in Consumer
      BY <1>4 DEF Consumer
    <3> QED
      BY <3>1, <3>2
  <2>6. run' \in [Keys -> 0..made'] /\ sweep' \in [todo : SUBSET Keys, joining : 0..made']
    BY <1>4, <2>2
  <2>7. TypeOK'
    BY <1>1, <1>2, <1>4, <2>1, <2>3, <2>4, <2>5, <2>6
  <2>8. ASSUME NEW c \in Queues, consumer'[c] # "none"
        PROVE  c <= made'
    <3>1. consumer' = [consumer EXCEPT ![made + 1] = "created"]
      BY <1>4
    <3>2. c = made + 1 \/ c <= made
      BY <2>8, <3>1 DEF MadeInv
    <3> QED
      BY <2>1, <3>2
  <2>9. cancelled' \subseteq 1..made' /\ idle' \subseteq 1..made'
    BY <1>4, <2>2 DEF MadeInv
  <2> QED
    BY <2>7, <2>8, <2>9 DEF MadeInv
<1> QED
  BY <1>3, <1>4

LEMMA ConsumerType ==
  ASSUME TypeInv, NEW c \in Queues, ConsumerStep(c)
  PROVE  TypeOK'
<1> USE DEF TypeOK, TypeInv
<1>1. {"waiting", "fetching", "preparing", "streaming", "stopped"} \subseteq Consumer
  BY DEF Consumer
<1>2. \A st \in Consumer : Goes(c, st) => consumer' \in [Queues -> Consumer]
  BY DEF Goes
<1>3. \A k \in Keys : Refreshed(k) \subseteq Queues
  BY DEF Refreshed
<1>4. {"taken", "running", "ignored", "absorbed", "lost"} \subseteq Place
  BY DEF Place
<1>5. CASE ConsumerStarts(c)
  BY <1>1, <1>2, <1>5 DEF ConsumerStarts, messageVars, queueVars
<1>6. CASE Take(c)
  <2>1. queue[c] \in Seq(Messages) /\ queue[c] # <<>>
    BY <1>6 DEF Take
  <2>2. Head(queue[c]) \in Messages /\ Tail(queue[c]) \in Seq(Messages)
    BY <2>1
  <2>3. place' \in [Messages -> Place] /\ queue' \in [Queues -> Seq(Messages)]
    BY <1>4, <1>6, <2>2 DEF Take
  <2> QED
    BY <1>1, <1>2, <1>6, <2>3 DEF Take
<1>7. CASE Drain(c)
  <2>1. place' \in [Messages -> Place]
    BY <1>4, <1>7, MoveType DEF Drain
  <2>2. queue' \in [Queues -> Seq(Messages)]
    BY <1>7 DEF Drain
  <2> QED
    BY <1>1, <1>2, <1>7, <2>1, <2>2 DEF Drain
<1>8. CASE Dispatch(c)
  <2>1. place' \in [Messages -> Place]
    BY <1>4, <1>8, MoveType DEF Dispatch
  <2>2. consumer' \in [Queues -> Consumer]
    BY <1>1, <1>2, <1>8 DEF Dispatch
  <2>3. CASE run[owner[c]] = None
    <3>1. c \in 0..made
      BY <1>8 DEF Dispatch, Queues, MadeInv
    <3>2. run' \in [Keys -> 0..made]
      BY <1>8, <2>3, <3>1 DEF Dispatch
    <3> QED
      BY <1>8, <2>1, <2>2, <2>3, <3>2 DEF Dispatch
  <2>4. CASE run[owner[c]] # None
    <3>1. idle' \subseteq Queues
      BY <1>3, <1>8, <2>4 DEF Dispatch
    <3>2. UNCHANGED <<arrived, keyOf, target, made, registered, owner, queue, cancelled,
                      run, sweep, manager>>
      BY <1>8, <2>4 DEF Dispatch
    <3> QED
      BY <2>1, <2>2, <3>1, <3>2
  <2> QED
    BY <2>3, <2>4
<1>9. CASE Absorb(c)
  <2>1. place' \in [Messages -> Place]
    BY <1>4, <1>9, MoveType DEF Absorb
  <2> QED
    BY <1>1, <1>2, <1>3, <1>9, <2>1 DEF Absorb
<1>10. CASE StreamEnds(c)
  BY <1>1, <1>2, <1>3, <1>10 DEF StreamEnds, messageVars
<1>11. CASE CancelArrives(c)
  <2>1. registered' \in [Keys -> 0..made]
    <3>1. None \in 0..made
      BY DEF None
    <3>2. registered' = registered \/ registered' = [registered EXCEPT ![owner[c]] = None]
      BY <1>11 DEF CancelArrives, Forget
    <3> QED
      BY <3>1, <3>2
  <2>2. place' \in [Messages -> Place]
    BY <1>4, <1>11, MoveType DEF CancelArrives
  <2>3. consumer' \in [Queues -> Consumer] /\ idle' \subseteq Queues
    BY <1>1, <1>2, <1>3, <1>11 DEF CancelArrives
  <2> QED
    BY <1>11, <2>1, <2>2, <2>3 DEF CancelArrives
<1> QED
  BY <1>5, <1>6, <1>7, <1>8, <1>9, <1>10, <1>11 DEF ConsumerStep

LEMMA ConsumerMade ==
  ASSUME TypeInv, NEW c \in Queues, ConsumerStep(c)
  PROVE  MadeInv'
<1> USE DEF TypeInv, MadeInv
<1>1. consumer \in [Queues -> Consumer]
  BY DEF TypeOK
<1>2. made' = made /\ cancelled' \subseteq cancelled /\ idle' \subseteq idle
  BY DEF ConsumerStep, ConsumerStarts, Take, Drain, Dispatch, Absorb, StreamEnds,
         CancelArrives, queueVars, Refreshed
<1>3. c <= made
  <2>1. CASE c \in cancelled
    BY <2>1
  <2>2. CASE c \notin cancelled
    BY <2>2 DEF ConsumerStep, ConsumerStarts, Take, Drain, Dispatch, Absorb,
                StreamEnds, CancelArrives
  <2> QED
    BY <2>1, <2>2
<1>4. \E st : Goes(c, st)
  BY DEF ConsumerStep, ConsumerStarts, Take, Drain, Dispatch, Absorb, StreamEnds,
         CancelArrives
<1>5. \A d \in Queues : consumer'[d] # "none" => d <= made
  BY <1>1, <1>3, <1>4 DEF Goes
<1> QED
  BY <1>2, <1>5

LEMMA StopType ==
  ASSUME TypeInv, StopStep
  PROVE  TypeInv'
<1> USE DEF TypeInv, TypeOK, MadeInv
<1>1. CASE StopEnqueues
  BY <1>1, MoveType DEF StopEnqueues, queueVars, Place
<1>2. CASE StopCleanup
  <2>1. sweep.joining # None => sweep.joining \in 1..made
    BY DEF None
  <2>2. cancelled' \subseteq 1..made
    BY <1>2, <2>1 DEF StopCleanup
  <2>3. 1..made \subseteq Queues
    BY ConstantsAssumption DEF Queues
  <2> QED
    BY <1>2, <2>2, <2>3 DEF StopCleanup, messageVars, queueVars
<1>3. CASE StopConsumers
  <2>1. cancelled' \subseteq 1..made
    <3>1. \A c \in Queues : Live(c) => c \in 1..made
      BY DEF Live, Queues
    <3> QED
      BY <1>3, <3>1 DEF StopConsumers
  <2> QED
    BY <1>3, <2>1 DEF StopConsumers, messageVars, queueVars
<1>4. CASE StopForgets
  BY <1>4 DEF StopForgets, messageVars, None
<1> QED
  BY <1>1, <1>2, <1>3, <1>4 DEF StopStep

LEMMA TypeStep ==
  ASSUME TypeInv, [Next]_vars
  PROVE  TypeInv'
<1> USE DEF TypeInv, TypeOK, MadeInv
<1>1. ASSUME NEW k \in Keys, Route(k)
      PROVE  TypeInv'
  BY <1>1, RouteType
<1>2. ASSUME NEW k \in Keys, RunEnds(k)
      PROVE  TypeInv'
  <2>1. place' \in [Messages -> Place]
    BY <1>2, MoveType DEF RunEnds, Place
  <2>2. run' \in [Keys -> 0..made]
    BY <1>2 DEF RunEnds, None
  <2> QED
    BY <1>2, <2>1, <2>2 DEF RunEnds, queueVars
<1>3. ASSUME NEW k \in Keys, ClearQueue(k)
      PROVE  TypeInv'
  <2>1. place' \in [Messages -> Place]
    BY <1>3, MoveType DEF ClearQueue, Place
  <2>2. queue' \in [Queues -> Seq(Messages)]
    <3>1. queue' = [queue EXCEPT ![registered[k]] = <<>>]
      BY <1>3 DEF ClearQueue
    <3>2. <<>> \in Seq(Messages)
      OBVIOUS
    <3>3. queue \in [Queues -> Seq(Messages)]
      OBVIOUS
    <3> HIDE DEF TypeInv, MadeInv, TypeOK
    <3> QED
      BY <3>1, <3>2, <3>3
  <2> QED
    BY <1>3, <2>1, <2>2 DEF ClearQueue
<1>4. ASSUME NEW m \in Messages, Put(m)
      PROVE  TypeInv'
  <2>1. place' \in [Messages -> Place]
    BY <1>4 DEF Put, Place
  <2>2. queue' \in [Queues -> Seq(Messages)]
    <3>1. \A q \in Seq(Messages) : Append(q, m) \in Seq(Messages)
      OBVIOUS
    <3>2. queue' = [queue EXCEPT ![target[m]] = Append(queue[target[m]], m)]
      BY <1>4 DEF Put
    <3>3. \A c \in Queues : queue'[c] \in {queue[c], Append(queue[c], m)}
      BY <3>2
    <3>4. queue' = [c \in Queues |-> queue'[c]]
      BY <3>2
    <3>5. \A c \in Queues : queue[c] \in Seq(Messages)
      OBVIOUS
    <3> HIDE DEF TypeInv, MadeInv, TypeOK
    <3>6. \A c \in Queues : queue'[c] \in Seq(Messages)
      BY <3>1, <3>3, <3>5
    <3> QED
      BY <3>4, <3>6
  <2> QED
    BY <1>4, <2>1, <2>2 DEF Put
<1>5. ASSUME NEW m \in Messages, PutTimesOut(m)
      PROVE  TypeInv'
  BY <1>5 DEF PutTimesOut, queueVars, Place
<1>6. ASSUME NEW c \in Queues, ConsumerStep(c)
      PROVE  TypeInv'
  BY <1>6, ConsumerType, ConsumerMade
<1>7. ASSUME NEW c \in Queues, GrowIdle(c)
      PROVE  TypeInv'
  <2>1. c \in 1..made
    BY <1>7 DEF GrowIdle, Queues
  <2> QED
    BY <1>7, <2>1 DEF GrowIdle, messageVars
<1>8. CASE Wake
  BY <1>8, SweepType DEF Wake, messageVars, IdleKeys
<1>9. CASE Joined
  BY <1>9, SweepType DEF Joined, messageVars
<1>10. CASE StopStep
  BY <1>10, StopType
<1>11. CASE UNCHANGED vars
  BY <1>11 DEF vars
<1> QED
  BY <1>1, <1>2, <1>3, <1>4, <1>5, <1>6, <1>7, <1>8, <1>9, <1>10, <1>11 DEF Next

LEMMA InitType == Init => TypeInv
<1> SUFFICES ASSUME Init PROVE TypeInv
  OBVIOUS
<1>1. (CHOOSE k \in Keys : TRUE) \in Keys
  BY ConstantsAssumption
<1> QED
  BY <1>1, ConstantsAssumption DEF Init, TypeOK, TypeInv, MadeInv, None, Sleeping, Place, Consumer
-----------------------------------------------------------------------------
(* The contents of the queues.                                             *)

LEMMA HeldMessage ==
  ASSUME TypeInv, NEW c \in Queues, NEW i \in 1..Len(queue[c])
  PROVE  queue[c][i] \in Messages
BY DEF TypeInv, TypeOK

LEMMA MadeQueue ==
  ASSUME TypeInv
  PROVE  1..made \subseteq Queues
BY ConstantsAssumption DEF TypeInv, TypeOK, Queues

LEMMA QueuedTarget ==
  ASSUME TypeInv, QueuesInv, NEW m \in Messages, place[m] \in {"routed", "queued"}
  PROVE  target[m] \in Queues
<1>1. target[m] \in 0..made /\ made \in Nat
  BY DEF TypeInv, TypeOK
<1>2. target[m] # 0
  BY DEF QueuesInv, RoutedHasQueue, None
<1> QED
  BY <1>1, <1>2, MadeQueue

(* Steps that leave the queues alone and move messages that are not        *)
(* queued from one place to a later one.                                   *)
LEMMA OthersMove ==
  ASSUME TypeInv, QueuesInv, UNCHANGED <<arrived, target, queue>>,
         \A m \in Messages :
           \/ place'[m] = place[m]
           \/ /\ place[m] \notin {"none", "queued"}
              /\ place'[m] \notin {"none", "routed", "queued"}
  PROVE  QueuesInv'
<1> USE DEF QueuesInv
<1>0. \A m \in Messages : place'[m] = "queued" <=> place[m] = "queued"
  OBVIOUS
<1>1. HeldIsQueued'
  <2> SUFFICES ASSUME NEW c \in Queues, NEW i \in 1..Len(queue[c])
               PROVE  place'[queue[c][i]] = "queued" /\ target[queue[c][i]] = c
    BY DEF HeldIsQueued
  <2>1. place[queue[c][i]] = "queued" /\ target[queue[c][i]] = c
    BY DEF HeldIsQueued
  <2> QED
    BY <2>1, HeldMessage
<1>2. HeldOnce'
  BY DEF HeldOnce
<1>3. QueuedIsHeld'
  BY <1>0 DEF QueuedIsHeld
<1>4. RoutedHasQueue'
  BY DEF RoutedHasQueue
<1> QED
  BY <1>1, <1>2, <1>3, <1>4

(* The queue of c is emptied, and what was in it moves to p.               *)
LEMMA QueueEmptied ==
  ASSUME TypeInv, QueuesInv, NEW c \in Queues,
         NEW p \in Place \ {"none", "routed", "queued"},
         queue' = [queue EXCEPT ![c] = <<>>],
         Move({m \in Messages : place[m] = "queued" /\ target[m] = c}, p),
         UNCHANGED <<arrived, target>>
  PROVE  QueuesInv'
<1> USE DEF QueuesInv
<1>1. \A d \in Queues : queue'[d] = IF d = c THEN <<>> ELSE queue[d]
  BY DEF TypeInv, TypeOK
<1>2. \A m \in Messages :
        place'[m] = IF place[m] = "queued" /\ target[m] = c THEN p ELSE place[m]
  BY DEF Move
<1>3. HeldIsQueued'
  <2> SUFFICES ASSUME NEW d \in Queues, NEW i \in 1..Len(queue'[d])
               PROVE  place'[queue'[d][i]] = "queued" /\ target[queue'[d][i]] = d
    BY DEF HeldIsQueued
  <2>1. d # c /\ queue'[d] = queue[d]
    BY <1>1
  <2>2. place[queue[d][i]] = "queued" /\ target[queue[d][i]] = d
    BY <2>1 DEF HeldIsQueued
  <2> QED
    BY <1>2, <2>1, <2>2, HeldMessage
<1>4. HeldOnce'
  BY <1>1 DEF HeldOnce
<1>5. QueuedIsHeld'
  <2> SUFFICES ASSUME NEW m \in Messages, place'[m] = "queued"
               PROVE  \E i \in 1..Len(queue'[target[m]]) : queue'[target[m]][i] = m
    BY DEF QueuedIsHeld
  <2>1. place[m] = "queued" /\ target[m] # c
    BY <1>2
  <2>2. queue'[target[m]] = queue[target[m]]
    BY <1>1, <2>1, QueuedTarget
  <2> QED
    BY <2>1, <2>2 DEF QueuedIsHeld
<1>6. RoutedHasQueue'
  BY <1>2 DEF RoutedHasQueue
<1> QED
  BY <1>3, <1>4, <1>5, <1>6

LEMMA RouteQueues ==
  ASSUME TypeInv, QueuesInv, NEW k \in Keys, Route(k)
  PROVE  QueuesInv'
<1> USE DEF QueuesInv
<1> DEFINE m0 == arrived + 1
<1>1. /\ m0 \in Messages /\ arrived' = m0 /\ queue' = queue
      /\ place' = [place EXCEPT ![m0] = "routed"]
      /\ \E t \in Nat \ {0} : target' = [target EXCEPT ![m0] = t]
  <2>1. m0 \in Messages
    BY ConstantsAssumption DEF Route, TypeInv, TypeOK, Messages
  <2>2. /\ arrived' = m0 /\ queue' = queue
        /\ place' = [place EXCEPT ![m0] = "routed"]
        /\ \E t \in {registered[k], made + 1} :
             t # None /\ target' = [target EXCEPT ![m0] = t]
    <3>1. made + 1 # None
      BY DEF TypeInv, TypeOK, None
    <3> QED
      BY <3>1 DEF Route
  <2>3. registered[k] \in Nat /\ made + 1 \in Nat
    BY DEF TypeInv, TypeOK
  <2> QED
    BY <2>1, <2>2, <2>3 DEF None
<1>2. place[m0] = "none" /\ arrived \in Nat
  BY <1>1 DEF RoutedHasQueue, TypeInv, TypeOK, Messages
<1>3. /\ place'[m0] = "routed" /\ target'[m0] # None
      /\ \A m \in Messages \ {m0} : place'[m] = place[m] /\ target'[m] = target[m]
  BY <1>1 DEF TypeInv, TypeOK, None
<1> HIDE DEF m0
<1>4. HeldIsQueued'
  <2> SUFFICES ASSUME NEW c \in Queues, NEW i \in 1..Len(queue[c])
               PROVE  place'[queue[c][i]] = "queued" /\ target'[queue[c][i]] = c
    BY <1>1 DEF HeldIsQueued
  <2>1. place[queue[c][i]] = "queued" /\ target[queue[c][i]] = c
    BY DEF HeldIsQueued
  <2> QED
    BY <1>2, <1>3, <2>1, HeldMessage
<1>5. HeldOnce'
  BY <1>1 DEF HeldOnce
<1>6. QueuedIsHeld'
  BY <1>1, <1>3 DEF QueuedIsHeld
<1>7. RoutedHasQueue'
  <2> SUFFICES ASSUME NEW m \in Messages
               PROVE  /\ m > arrived' => place'[m] = "none" /\ target'[m] = None
                      /\ place'[m] \in {"routed", "queued"} => target'[m] # None
    BY DEF RoutedHasQueue
  <2>1. CASE m = m0
    BY <1>1, <1>2, <1>3, <2>1 DEF m0
  <2>2. CASE m # m0
    <3>1. m > arrived' => m > arrived
      BY <1>1, <1>2 DEF m0, Messages
    <3> QED
      BY <1>3, <2>2, <3>1 DEF RoutedHasQueue
  <2> QED
    BY <2>1, <2>2
<1> QED
  BY <1>4, <1>5, <1>6, <1>7

LEMMA PutQueues ==
  ASSUME TypeInv, QueuesInv, NEW m \in Messages, Put(m)
  PROVE  QueuesInv'
<1> USE DEF QueuesInv
<1> DEFINE c == target[m]
<1>1. c \in Queues /\ queue[c] \in Seq(Messages) /\ place[m] = "routed"
  BY QueuedTarget DEF Put, TypeInv, TypeOK
<1>2. /\ place'[m] = "queued" /\ UNCHANGED <<arrived, target>>
      /\ \A n \in Messages \ {m} : place'[n] = place[n]
  BY DEF Put, TypeInv, TypeOK
<1>3. /\ queue'[c] = Append(queue[c], m)
      /\ \A d \in Queues \ {c} : queue'[d] = queue[d]
  BY <1>1 DEF Put, TypeInv, TypeOK
<1> HIDE DEF c
<1>4. /\ Len(queue'[c]) = Len(queue[c]) + 1 /\ Len(queue[c]) \in Nat
      /\ queue'[c][Len(queue[c]) + 1] = m
      /\ \A i \in 1..Len(queue[c]) : queue'[c][i] = queue[c][i]
  BY <1>1, <1>3
<1>5. \A d \in Queues : \A i \in 1..Len(queue[d]) : queue[d][i] \in Messages \ {m}
  BY <1>1, HeldMessage DEF HeldIsQueued
<1>6. HeldIsQueued'
  <2> SUFFICES ASSUME NEW d \in Queues, NEW i \in 1..Len(queue'[d])
               PROVE  place'[queue'[d][i]] = "queued" /\ target[queue'[d][i]] = d
    BY <1>2 DEF HeldIsQueued
  <2>1. CASE d # c \/ i \in 1..Len(queue[c])
    <3>1. i \in 1..Len(queue[d]) /\ queue'[d][i] = queue[d][i]
      BY <1>3, <1>4, <2>1
    <3> QED
      BY <1>2, <1>5, <3>1 DEF HeldIsQueued
  <2>2. CASE d = c /\ i = Len(queue[c]) + 1
    BY <1>2, <1>4, <2>2 DEF c
  <2> QED
    BY <1>4, <2>1, <2>2
<1>7. HeldOnce'
  <2> SUFFICES ASSUME NEW d \in Queues, NEW i \in 1..Len(queue'[d]),
                      NEW j \in 1..Len(queue'[d]), queue'[d][i] = queue'[d][j]
               PROVE  i = j
    BY DEF HeldOnce
  <2>1. CASE d # c
    BY <1>3, <2>1 DEF HeldOnce
  <2>2. CASE d = c /\ i \in 1..Len(queue[c]) /\ j \in 1..Len(queue[c])
    BY <1>4, <2>2 DEF HeldOnce
  <2>3. CASE d = c /\ (i = Len(queue[c]) + 1 \/ j = Len(queue[c]) + 1)
    BY <1>1, <1>4, <1>5, <2>3
  <2> QED
    BY <1>4, <2>1, <2>2, <2>3
<1>8. QueuedIsHeld'
  <2> SUFFICES ASSUME NEW n \in Messages, place'[n] = "queued"
               PROVE  \E i \in 1..Len(queue'[target[n]]) : queue'[target[n]][i] = n
    BY <1>2 DEF QueuedIsHeld
  <2>1. CASE n = m
    BY <1>4, <2>1 DEF c
  <2>2. CASE n # m
    <3>1. place[n] = "queued"
      BY <1>2, <2>2
    <3>2. PICK i \in 1..Len(queue[target[n]]) : queue[target[n]][i] = n
      BY <3>1 DEF QueuedIsHeld
    <3>3. i \in 1..Len(queue'[target[n]]) /\ queue'[target[n]][i] = n
      BY <1>3, <1>4, <3>1, <3>2, QueuedTarget
    <3> QED
      BY <3>3
  <2> QED
    BY <2>1, <2>2
<1>9. RoutedHasQueue'
  BY <1>1, <1>2 DEF RoutedHasQueue
<1> QED
  BY <1>6, <1>7, <1>8, <1>9

LEMMA TakeQueues ==
  ASSUME TypeInv, QueuesInv, NEW c \in Queues, Take(c)
  PROVE  QueuesInv'
<1> USE DEF QueuesInv
<1> DEFINE h == Head(queue[c])
<1>1. queue[c] \in Seq(Messages) /\ queue[c] # <<>>
  BY DEF Take, TypeInv, TypeOK
<1>2. /\ h \in Messages /\ h = queue[c][1] /\ 1 \in 1..Len(queue[c])
      /\ Len(queue[c]) \in Nat
  BY <1>1
<1>3. /\ place'[h] = "taken" /\ UNCHANGED <<arrived, target>>
      /\ \A n \in Messages \ {h} : place'[n] = place[n]
  BY <1>2 DEF Take, TypeInv, TypeOK
<1>4. /\ queue'[c] = Tail(queue[c])
      /\ \A d \in Queues \ {c} : queue'[d] = queue[d]
  BY DEF Take, TypeInv, TypeOK
<1>5. place[h] = "queued" /\ target[h] = c
  BY <1>2 DEF HeldIsQueued
<1> HIDE DEF h
<1>6. /\ Len(queue'[c]) = Len(queue[c]) - 1
      /\ \A i \in 1..Len(queue'[c]) :
           i + 1 \in 2..Len(queue[c]) /\ queue'[c][i] = queue[c][i + 1]
  BY <1>1, <1>4
<1>7. HeldIsQueued'
  <2> SUFFICES ASSUME NEW d \in Queues, NEW i \in 1..Len(queue'[d])
               PROVE  place'[queue'[d][i]] = "queued" /\ target[queue'[d][i]] = d
    BY <1>3 DEF HeldIsQueued
  <2>1. CASE d # c
    <3>1. i \in 1..Len(queue[d]) /\ queue'[d][i] = queue[d][i]
      BY <1>4, <2>1
    <3>2. place[queue[d][i]] = "queued" /\ target[queue[d][i]] = d
      BY <3>1 DEF HeldIsQueued
    <3> QED
      BY <1>3, <1>5, <2>1, <3>1, <3>2, HeldMessage
  <2>2. CASE d = c
    <3>1. i + 1 \in 1..Len(queue[c]) /\ i + 1 # 1 /\ queue'[d][i] = queue[c][i + 1]
      BY <1>2, <1>6, <2>2
    <3>2. place[queue[c][i + 1]] = "queued" /\ target[queue[c][i + 1]] = c
      BY <3>1 DEF HeldIsQueued
    <3>3. queue[c][i + 1] # h
      BY <1>2, <3>1 DEF HeldOnce
    <3> QED
      BY <1>3, <2>2, <3>1, <3>2, <3>3, HeldMessage
  <2> QED
    BY <2>1, <2>2
<1>8. HeldOnce'
  <2> SUFFICES ASSUME NEW d \in Queues, NEW i \in 1..Len(queue'[d]),
                      NEW j \in 1..Len(queue'[d]), queue'[d][i] = queue'[d][j]
               PROVE  i = j
    BY DEF HeldOnce
  <2>1. CASE d # c
    BY <1>4, <2>1 DEF HeldOnce
  <2>2. CASE d = c
    <3>1. /\ i + 1 \in 1..Len(queue[c]) /\ j + 1 \in 1..Len(queue[c])
          /\ queue[c][i + 1] = queue[c][j + 1]
      BY <1>2, <1>6, <2>2
    <3>2. i + 1 = j + 1
      BY <3>1 DEF HeldOnce
    <3> QED
      BY <3>2
  <2> QED
    BY <2>1, <2>2
<1>9. QueuedIsHeld'
  <2> SUFFICES ASSUME NEW n \in Messages, place'[n] = "queued"
               PROVE  \E i \in 1..Len(queue'[target[n]]) : queue'[target[n]][i] = n
    BY <1>3 DEF QueuedIsHeld
  <2>1. n # h /\ place[n] = "queued"
    BY <1>2, <1>3
  <2>2. PICK i \in 1..Len(queue[target[n]]) : queue[target[n]][i] = n
    BY <2>1 DEF QueuedIsHeld
  <2>3. CASE target[n] # c
    BY <1>4, <2>1, <2>2, <2>3, QueuedTarget
  <2>4. CASE target[n] = c
    <3>1. i # 1 /\ i - 1 \in 1..Len(queue'[c])
      BY <1>2, <1>6, <2>1, <2>2, <2>4
    <3>2. queue'[c][i - 1] = queue[c][(i - 1) + 1]
      BY <1>6, <3>1
    <3>3. queue'[c][i - 1] = n
      BY <2>2, <2>4, <3>2
    <3> QED
      BY <2>4, <3>1, <3>3
  <2> QED
    BY <2>3, <2>4
<1>10. RoutedHasQueue'
  BY <1>2, <1>3, <1>5 DEF RoutedHasQueue
<1> QED
  BY <1>7, <1>8, <1>9, <1>10
LEMMA ConsumerQueues ==
  ASSUME TypeInv, QueuesInv, NEW c \in Queues, ConsumerStep(c)
  PROVE  QueuesInv'
<1>0. /\ \A m \in Batch(c) : m \in Messages /\ place[m] = "taken"
      /\ \A m \in Drained(c) : m \in Messages /\ place[m] = "queued"
  BY DEF Batch, Drained
<1>1. CASE Take(c)
  BY <1>1, TakeQueues
<1>2. CASE Drain(c)
  BY <1>2, QueueEmptied DEF Drain, Drained, Place
<1>3. CASE ~Take(c) /\ ~Drain(c)
  <2>1. UNCHANGED <<arrived, target, queue>>
    BY <1>3 DEF ConsumerStep, ConsumerStarts, Dispatch, Absorb, StreamEnds,
                CancelArrives, messageVars, queueVars
  <2>2. \A m \in Messages :
          \/ place'[m] = place[m]
          \/ m \in Batch(c) /\ place'[m] \in {"running", "ignored", "absorbed", "lost"}
    BY <1>3 DEF ConsumerStep, ConsumerStarts, Dispatch, Absorb, StreamEnds,
                CancelArrives, messageVars, Move
  <2> QED
    BY <1>0, <2>1, <2>2, OthersMove
<1> QED
  BY <1>1, <1>2, <1>3

LEMMA QueuesStep ==
  ASSUME TypeInv, QueuesInv, [Next]_vars
  PROVE  QueuesInv'
<1>1. ASSUME NEW k \in Keys, Route(k)
      PROVE  QueuesInv'
  BY <1>1, RouteQueues
<1>2. ASSUME NEW k \in Keys, RunEnds(k)
      PROVE  QueuesInv'
  BY <1>2, OthersMove DEF RunEnds, queueVars, Move
<1>3. ASSUME NEW k \in Keys, ClearQueue(k)
      PROVE  QueuesInv'
  <2>1. registered[k] \in Queues
    BY <1>3, MadeQueue DEF ClearQueue, TypeInv, TypeOK, None
  <2> QED
    BY <1>3, <2>1, QueueEmptied DEF ClearQueue, Cleared, Place
<1>4. ASSUME NEW m \in Messages, Put(m)
      PROVE  QueuesInv'
  BY <1>4, PutQueues
<1>5. ASSUME NEW m \in Messages, PutTimesOut(m)
      PROVE  QueuesInv'
  BY <1>5, OthersMove DEF PutTimesOut, queueVars, TypeInv, TypeOK
<1>6. ASSUME NEW c \in Queues, ConsumerStep(c)
      PROVE  QueuesInv'
  BY <1>6, ConsumerQueues
<1>7. CASE StopStep
  BY <1>7, OthersMove DEF StopStep, StopEnqueues, StopCleanup, StopConsumers,
                          StopForgets, Move, messageVars, queueVars
<1>8. CASE UNCHANGED <<messageVars, queue>>
  BY <1>8, OthersMove DEF messageVars
<1> QED
  BY <1>1, <1>2, <1>3, <1>4, <1>5, <1>6, <1>7, <1>8
     DEF Next, GrowIdle, Wake, Joined, vars, messageVars

LEMMA InitQueues == Init => QueuesInv
BY DEF Init, QueuesInv, HeldIsQueued, HeldOnce, QueuedIsHeld, RoutedHasQueue
-----------------------------------------------------------------------------
(* Owners.                                                                 *)

LEMMA RegisteredQueue ==
  ASSUME TypeInv, NEW k \in Keys, registered[k] # None
  PROVE  registered[k] \in Queues /\ registered[k] \in 1..made
BY MadeQueue DEF TypeInv, TypeOK, None

(* What a step other than Route leaves as it was.                          *)
LEMMA NotRouted ==
  ASSUME TypeInv, [Next]_vars, \A k \in Keys : ~Route(k)
  PROVE  /\ UNCHANGED <<arrived, keyOf, target, made, owner>>
         /\ \A k \in Keys : registered'[k] \in {registered[k], None}
<1>1. UNCHANGED <<arrived, keyOf, target, made, owner>>
  BY DEF Next, RunEnds, ClearQueue, Put, PutTimesOut, ConsumerStep, ConsumerStarts,
         Take, Drain, Dispatch, Absorb, StreamEnds, CancelArrives, GrowIdle, Wake,
         Joined, StopStep, StopEnqueues, StopCleanup, StopConsumers, StopForgets,
         vars, messageVars, queueVars
<1>2. CASE Wake
  BY <1>1, <1>2, SweepType DEF Wake, IdleKeys, TypeInv
<1>3. CASE Joined
  BY <1>1, <1>3, SweepType DEF Joined, TypeInv, TypeOK
<1>4. ASSUME NEW c \in Queues, CancelArrives(c)
      PROVE  \A k \in Keys : registered'[k] \in {registered[k], None}
  BY <1>4 DEF CancelArrives, Forget, TypeInv, TypeOK
<1>5. CASE StopForgets
  BY <1>1, <1>5 DEF StopForgets
<1>6. CASE /\ ~Wake /\ ~Joined /\ ~StopForgets
           /\ \A c \in Queues : ~CancelArrives(c)
  <2>1. registered' = registered
    BY <1>6 DEF Next, RunEnds, ClearQueue, Put, PutTimesOut, ConsumerStep,
         ConsumerStarts, Take, Drain, Dispatch, Absorb, StreamEnds, GrowIdle,
         StopStep, StopEnqueues, StopCleanup, StopConsumers,
         vars, messageVars, queueVars
  <2> QED
    BY <1>1, <2>1
<1> QED
  BY <1>1, <1>2, <1>3, <1>4, <1>5, <1>6

(* What Route does, when it makes a queue.                                 *)
LEMMA RouteMakes ==
  ASSUME TypeInv, NEW k \in Keys, Route(k), registered[k] = None
  PROVE  /\ made + 1 \in Queues
         /\ registered'[k] = made + 1 /\ owner'[made + 1] = k
         /\ consumer'[made + 1] = "created"
         /\ \A j \in Keys \ {k} : registered'[j] = registered[j]
         /\ \A c \in Queues \ {made + 1} :
              owner'[c] = owner[c] /\ consumer'[c] = consumer[c]
         /\ UNCHANGED <<cancelled, idle, run, sweep, manager>>
<1>1. made + 1 \in Queues
  BY ConstantsAssumption DEF Route, TypeInv, TypeOK, Queues
<1>2. registered' = [registered EXCEPT ![k] = made + 1]
  BY DEF Route, Register
<1>3. owner' = [owner EXCEPT ![made + 1] = k]
  BY DEF Route
<1>4. consumer' = [consumer EXCEPT ![made + 1] = "created"]
  BY DEF Route
<1>5. UNCHANGED <<cancelled, idle, run, sweep, manager>>
  BY DEF Route
<1> QED
  BY <1>1, <1>2, <1>3, <1>4, <1>5 DEF TypeInv, TypeOK

LEMMA RouteArrives ==
  ASSUME TypeInv, NEW k \in Keys, Route(k)
  PROVE  /\ arrived + 1 \in Messages
         /\ keyOf'[arrived + 1] = k /\ place'[arrived + 1] = "routed"
         /\ target'[arrived + 1]
              = IF registered[k] # None THEN registered[k] ELSE made + 1
         /\ \A m \in Messages \ {arrived + 1} :
              keyOf'[m] = keyOf[m] /\ place'[m] = place[m] /\ target'[m] = target[m]
         /\ UNCHANGED <<cancelled, run, sweep, manager>>
<1>1. arrived + 1 \in Messages
  BY ConstantsAssumption DEF Route, TypeInv, TypeOK, Messages
<1>2. keyOf' = [keyOf EXCEPT ![arrived + 1] = k]
  BY DEF Route
<1>3. place' = [place EXCEPT ![arrived + 1] = "routed"]
  BY DEF Route
<1>4. target' = [target EXCEPT ![arrived + 1] =
                   IF registered[k] # None THEN registered[k] ELSE made + 1]
  BY DEF Route
<1>5. UNCHANGED <<cancelled, run, sweep, manager>>
  BY DEF Route
<1> QED
  BY <1>1, <1>2, <1>3, <1>4, <1>5 DEF TypeInv, TypeOK

LEMMA OwnersStep ==
  ASSUME TypeInv, OwnersInv, [Next]_vars
  PROVE  OwnersInv'
<1>1. ASSUME NEW k \in Keys, Route(k), registered[k] # None
      PROVE  OwnersInv'
  <2>1. UNCHANGED <<registered, owner>>
    BY <1>1 DEF Route
  <2>2. \A m \in Messages :
          target'[m] # None => owner[target'[m]] = keyOf'[m]
    BY <1>1, RouteArrives DEF OwnersInv
  <2> QED
    BY <2>1, <2>2 DEF OwnersInv
<1>2. ASSUME NEW k \in Keys, Route(k), registered[k] = None
      PROVE  OwnersInv'
  <2>1. ASSUME NEW j \in Keys, registered'[j] # None
        PROVE  owner'[registered'[j]] = j
    <3>1. CASE j = k
      BY <1>2, <3>1, RouteMakes
    <3>2. CASE j # k
      <4>1. registered'[j] = registered[j] /\ registered[j] \in Queues \ {made + 1}
        <5>1. registered'[j] = registered[j]
          BY <1>2, <3>2, RouteMakes
        <5>2. made \in Nat
          BY DEF TypeInv, TypeOK
        <5> QED
          BY <2>1, <5>1, <5>2, RegisteredQueue
      <4> QED
        BY <1>2, <2>1, <4>1, RouteMakes DEF OwnersInv
    <3> QED
      BY <3>1, <3>2
  <2>2. ASSUME NEW m \in Messages, target'[m] # None
        PROVE  owner'[target'[m]] = keyOf'[m]
    <3>1. CASE m = arrived + 1
      BY <1>2, <3>1, RouteArrives, RouteMakes
    <3>2. CASE m # arrived + 1
      <4>1. target'[m] = target[m] /\ keyOf'[m] = keyOf[m]
        BY <1>2, <3>2, RouteArrives
      <4>2. target[m] \in Queues \ {made + 1}
        BY <2>2, <4>1, MadeQueue DEF TypeInv, TypeOK, None
      <4> QED
        BY <1>2, <2>2, <4>1, <4>2, RouteMakes DEF OwnersInv
    <3> QED
      BY <3>1, <3>2
  <2> QED
    BY <2>1, <2>2 DEF OwnersInv
<1>3. CASE \A k \in Keys : ~Route(k)
  BY <1>3, NotRouted DEF OwnersInv
<1> QED
  BY <1>1, <1>2, <1>3
-----------------------------------------------------------------------------
(* Registered consumers are alive.                                         *)

(* What happens to the consumers outside of Route.                         *)
LEMMA ConsumersStay ==
  ASSUME TypeInv, [Next]_vars, \A k \in Keys : ~Route(k)
  PROVE  \A c \in Queues :
           Live(c) => Live(c)' \/ (c \in cancelled /\ CancelArrives(c))
<1> SUFFICES ASSUME NEW c \in Queues, Live(c), ~Live(c)'
             PROVE  c \in cancelled /\ CancelArrives(c)
  OBVIOUS
<1>1. consumer' # consumer
  BY DEF Live
<1>2. PICK d \in Queues : ConsumerStep(d)
  BY <1>1 DEF Next, RunEnds, ClearQueue, Put, PutTimesOut, GrowIdle, Wake, Joined,
              StopStep, StopEnqueues, StopCleanup, StopConsumers, StopForgets,
              vars, messageVars, queueVars
<1>3. consumer \in [Queues -> Consumer]
  BY DEF TypeInv, TypeOK
<1>4. CASE CancelArrives(d)
  <2>1. d = c
    BY <1>3, <1>4 DEF CancelArrives, Goes, Live
  <2> QED
    BY <1>4, <2>1 DEF CancelArrives
<1>5. CASE ~CancelArrives(d)
  <2>1. \E st \in {"waiting", "fetching", "preparing", "streaming"} : Goes(d, st)
    BY <1>2, <1>5 DEF ConsumerStep, ConsumerStarts, Take, Drain, Dispatch, Absorb,
                      StreamEnds
  <2> QED
    BY <1>3, <2>1 DEF Goes, Live
<1> QED
  BY <1>4, <1>5

(* Cancellations come from the sweep, which pops the key, and from stop_all.*)
LEMMA CancelledBy ==
  ASSUME TypeInv, [Next]_vars, \A k \in Keys : ~Route(k),
         manager' \in {"up", "draining", "halting"}, NEW c \in cancelled', c \notin cancelled
  PROVE  \/ \E k \in Keys : registered[k] = c /\ registered'[k] = None /\ sweep'.joining = c
               /\ (k \in sweep.todo \/ k \in IdleKeys)
         \/ manager' = "halting" /\ c = sweep.joining
<1>1. CASE Wake
  BY <1>1 DEF Wake, SweepNext, Forget, IdleKeys, TypeInv, TypeOK
<1>2. CASE Joined
  BY <1>2 DEF Joined, SweepNext, Forget, TypeInv, TypeOK
<1>3. CASE StopCleanup
  BY <1>3 DEF StopCleanup
<1>4. CASE ~Wake /\ ~Joined /\ ~StopCleanup
  <2>1. cancelled' \subseteq cancelled
    BY <1>4 DEF Next, RunEnds, ClearQueue, Put, PutTimesOut, ConsumerStep,
         ConsumerStarts, Take, Drain, Dispatch, Absorb, StreamEnds, CancelArrives,
         GrowIdle, StopStep, StopEnqueues, StopConsumers, StopForgets,
         vars, messageVars, queueVars
  <2> QED
    BY <2>1
<1> QED
  BY <1>1, <1>2, <1>3, <1>4
LEMMA AliveStep ==
  ASSUME TypeInv, OwnersInv, AliveInv, [Next]_vars
  PROVE  AliveInv'
<1> SUFFICES ASSUME manager' \in {"up", "draining", "halting"},
                    NEW k \in Keys, registered'[k] # None
             PROVE  /\ Live(registered[k])'
                    /\ registered'[k] \notin cancelled'
                    /\ registered'[k] # sweep'.joining
  BY DEF AliveInv
<1>0. manager \in {"up", "draining", "halting"}
  BY DEF Next, Route, RunEnds, ClearQueue, Put, PutTimesOut, ConsumerStep,
         ConsumerStarts, Take, Drain, Dispatch, Absorb, StreamEnds, CancelArrives,
         GrowIdle, Wake, Joined, StopStep, StopEnqueues, StopCleanup, StopConsumers,
         StopForgets, vars
<1>1. ASSUME NEW j \in Keys, Route(j), registered[j] # None
      PROVE  /\ Live(registered[k])'
             /\ registered'[k] \notin cancelled'
             /\ registered'[k] # sweep'.joining
  BY <1>0, <1>1 DEF AliveInv, Route, Live
<1>2. ASSUME NEW j \in Keys, Route(j), registered[j] = None
      PROVE  /\ Live(registered[k])'
             /\ registered'[k] \notin cancelled'
             /\ registered'[k] # sweep'.joining
  <2>1. CASE k = j
    <3>1. registered'[k] = made + 1 /\ consumer'[made + 1] = "created"
      BY <1>2, <2>1, RouteMakes
    <3>2. made + 1 \notin cancelled' /\ made + 1 # sweep'.joining
      <4>1. cancelled' = cancelled /\ sweep' = sweep
        BY <1>2, RouteMakes
      <4>2. made \in Nat /\ cancelled \subseteq 1..made /\ sweep.joining \in 0..made
        BY DEF TypeInv, TypeOK, MadeInv
      <4> QED
        BY <4>1, <4>2
    <3> QED
      BY <3>1, <3>2 DEF Live
  <2>2. CASE k # j
    <3>1. registered'[k] = registered[k] /\ registered[k] \in Queues \ {made + 1}
      <4>1. registered'[k] = registered[k]
        BY <1>2, <2>2, RouteMakes
      <4>2. made \in Nat
        BY DEF TypeInv, TypeOK
      <4> QED
        BY <4>1, <4>2, RegisteredQueue
    <3>2. consumer'[registered[k]] = consumer[registered[k]]
      BY <1>2, <3>1, RouteMakes
    <3>3. cancelled' = cancelled /\ sweep' = sweep
      BY <1>2, RouteMakes
    <3> QED
      BY <1>0, <3>1, <3>2, <3>3 DEF AliveInv, Live
  <2> QED
    BY <2>1, <2>2
<1>3. CASE \A j \in Keys : ~Route(j)
  <2> DEFINE c == registered[k]
  <2>1. registered'[k] = c /\ c # None /\ c \in Queues
    BY <1>3, NotRouted, RegisteredQueue
  <2>2. Live(c) /\ c \notin cancelled /\ c # sweep.joining /\ owner[c] = k
    BY <1>0, <2>1 DEF AliveInv, OwnersInv
  <2>3. Live(c)'
    BY <1>3, <2>1, <2>2, ConsumersStay DEF Live
  <2>4. c \notin cancelled'
    <3>1. SUFFICES ASSUME c \in cancelled' PROVE FALSE
      OBVIOUS
    <3>2. PICK j \in Keys : registered[j] = c /\ registered'[j] = None
      BY <1>3, <2>2, <3>1, CancelledBy
    <3>3. j = k
      BY <2>1, <2>2, <3>2 DEF OwnersInv
    <3> QED
      BY <2>1, <3>2, <3>3
  <2>5. c # sweep'.joining
    <3>1. CASE sweep' = sweep
      BY <2>2, <3>1
    <3>2. CASE sweep' = Sleeping
      BY <2>1, <3>2 DEF Sleeping
    <3>3. CASE \E S \in SUBSET Keys : SweepNext(S) /\ sweep' # Sleeping
      <4>1. PICK j \in Keys : sweep'.joining = registered[j] /\ registered[j] # None
                                /\ registered' = Forget(j)
        BY <3>3 DEF SweepNext
      <4>2. registered'[j] = None
        BY <4>1 DEF Forget, TypeInv, TypeOK
      <4> QED
        BY <2>1, <2>2, <4>1, <4>2 DEF OwnersInv
    <3>4. IdleKeys \in SUBSET Keys /\ sweep.todo \in SUBSET Keys
      BY DEF IdleKeys, TypeInv, TypeOK
    <3>5. sweep' = sweep \/ SweepNext(IdleKeys) \/ SweepNext(sweep.todo)
      BY <1>3 DEF Next, RunEnds, ClearQueue, Put, PutTimesOut, ConsumerStep,
         ConsumerStarts, Take, Drain, Dispatch, Absorb, StreamEnds, CancelArrives,
         GrowIdle, Wake, Joined, StopStep, StopEnqueues, StopCleanup, StopConsumers,
         StopForgets, vars
    <3> QED
      BY <3>1, <3>2, <3>3, <3>4, <3>5
  <2> QED
    BY <2>1, <2>3, <2>4, <2>5 DEF Live
<1> QED
  BY <1>1, <1>2, <1>3
-----------------------------------------------------------------------------
(* Busy keys.                                                              *)

LEMMA UpStays ==
  ASSUME [Next]_vars, manager' = "up"
  PROVE  manager = "up" /\ ~StopStep
BY DEF Next, Route, RunEnds, ClearQueue, Put, PutTimesOut, ConsumerStep,
       ConsumerStarts, Take, Drain, Dispatch, Absorb, StreamEnds, CancelArrives,
       GrowIdle, Wake, Joined, StopStep, StopEnqueues, StopCleanup, StopConsumers,
       StopForgets, vars

(* The sweep is after quiet keys, and cancels the consumers of such.       *)
LEMMA QuietStep ==
  ASSUME TypeInv, OwnersInv, AliveInv, BusyInv, [Next]_vars, manager' = "up",
         \A k \in Keys : ~Route(k)
  PROVE  /\ \A c \in idle' \cup cancelled' : owner'[c] \in Quiet
         /\ sweep'.todo \subseteq Quiet
<1>1. manager = "up" /\ ~StopStep /\ owner' = owner
  BY UpStays, NotRouted
<1>2. IdleKeys \subseteq Quiet
  BY <1>1 DEF IdleKeys, BusyInv, OwnersInv
<1>3. sweep'.todo \subseteq Quiet
  <2>1. CASE Wake
    BY <1>2, <2>1, SweepType DEF Wake, IdleKeys, TypeInv
  <2>2. CASE Joined
    BY <1>1, <2>2, SweepType DEF Joined, BusyInv, TypeInv, TypeOK
  <2>3. CASE ~Wake /\ ~Joined
    <3>1. sweep' = sweep
      BY <1>1, <2>3 DEF Next, Route, RunEnds, ClearQueue, Put, PutTimesOut, ConsumerStep,
       ConsumerStarts, Take, Drain, Dispatch, Absorb, StreamEnds, CancelArrives,
       GrowIdle, vars
    <3> QED
      BY <1>1, <3>1 DEF BusyInv
  <2> QED
    BY <2>1, <2>2, <2>3
<1>4. ASSUME NEW c \in cancelled' PROVE owner[c] \in Quiet
  <2>1. CASE c \in cancelled
    BY <1>1, <2>1 DEF BusyInv
  <2>2. CASE c \notin cancelled
    <3>1. PICK k \in Keys : registered[k] = c /\ (k \in sweep.todo \/ k \in IdleKeys)
                             /\ registered'[k] = None
      BY <2>2, CancelledBy
    <3>2. k \in Quiet
      BY <1>1, <1>2, <3>1 DEF BusyInv
    <3>3. c # None
      <4>1. c \in 1..made'
        BY TypeStep DEF TypeInv, MadeInv
      <4> QED
        BY <4>1 DEF None
    <3> QED
      BY <3>1, <3>2, <3>3 DEF OwnersInv
  <2> QED
    BY <2>1, <2>2
<1>5. ASSUME NEW c \in idle' PROVE owner[c] \in Quiet
  <2>1. idle' \subseteq idle \/ \E d \in Queues : GrowIdle(d)
    BY <1>1 DEF Next, Route, RunEnds, ClearQueue, Put, PutTimesOut, ConsumerStep,
       ConsumerStarts, Take, Drain, Dispatch, Absorb, StreamEnds, CancelArrives,
       Wake, Joined, Refreshed, vars, messageVars, queueVars
  <2> QED
    BY <1>1, <2>1 DEF GrowIdle, BusyInv
<1> QED
  BY <1>1, <1>3, <1>4, <1>5
(* Only Route starts consumers.                                            *)
LEMMA LiveBefore ==
  ASSUME TypeInv, [Next]_vars, \A k \in Keys : ~Route(k), NEW c \in Queues, Live(c)'
  PROVE  Live(c)
<1> SUFFICES ASSUME ~Live(c) PROVE FALSE
  OBVIOUS
<1>1. consumer' # consumer
  BY DEF Live
<1>2. PICK d \in Queues : ConsumerStep(d)
  BY <1>1 DEF Next, RunEnds, ClearQueue, Put, PutTimesOut, GrowIdle, Wake, Joined,
              StopStep, StopEnqueues, StopCleanup, StopConsumers, StopForgets,
              vars, messageVars, queueVars
<1>3. consumer \in [Queues -> Consumer]
  BY DEF TypeInv, TypeOK
<1>4. CASE CancelArrives(d)
  BY <1>3, <1>4 DEF CancelArrives, Goes, Live
<1>5. CASE ~CancelArrives(d)
  <2>1. Live(d) /\ \E st : Goes(d, st)
    BY <1>2, <1>5 DEF ConsumerStep, ConsumerStarts, Take, Drain, Dispatch, Absorb,
                      StreamEnds, Live
  <2> QED
    BY <1>3, <2>1 DEF Goes, Live
<1> QED
  BY <1>4, <1>5

(* Busy keys are not popped while the manager is up.                       *)
LEMMA BusyKept ==
  ASSUME TypeInv, OwnersInv, AliveInv, BusyInv, [Next]_vars, manager' = "up",
         \A j \in Keys : ~Route(j), NEW k \in Keys \ Quiet
  PROVE  registered'[k] = registered[k]
<1>1. manager = "up" /\ ~StopStep
  BY UpStays
<1>2. \A S \in SUBSET Quiet : SweepNext(S) => registered'[k] = registered[k]
  BY ConstantsAssumption DEF SweepNext, Forget, TypeInv, TypeOK
<1>3. CASE Wake
  <2>1. IdleKeys \subseteq Quiet
    BY <1>1 DEF IdleKeys, BusyInv, OwnersInv
  <2> QED
    BY <1>2, <1>3, <2>1 DEF Wake
<1>4. CASE Joined
  BY <1>1, <1>2, <1>4 DEF Joined, BusyInv
<1>5. ASSUME NEW c \in Queues, CancelArrives(c)
      PROVE  registered'[k] = registered[k]
  <2>1. owner[c] \in Quiet
    BY <1>1, <1>5 DEF CancelArrives, BusyInv
  <2> QED
    BY <1>5, <2>1 DEF CancelArrives, Forget, TypeInv, TypeOK
<1>6. CASE ~Wake /\ ~Joined /\ \A c \in Queues : ~CancelArrives(c)
  <2>1. registered' = registered
    BY <1>1, <1>6 DEF Next, RunEnds, ClearQueue, Put, PutTimesOut, ConsumerStep,
         ConsumerStarts, Take, Drain, Dispatch, Absorb, StreamEnds, GrowIdle,
         vars, messageVars, queueVars
  <2> QED
    BY <2>1
<1> QED
  BY <1>3, <1>4, <1>5, <1>6

(* A busy key's consumer is the registered one.                            *)
LEMMA ServesStep ==
  ASSUME TypeInv, OwnersInv, AliveInv, BusyInv, [Next]_vars, manager' = "up",
         NEW c \in Queues, Serves(c)', owner'[c] \notin Quiet
  PROVE  registered'[owner'[c]] = c
<1>1. manager = "up"
  BY UpStays
<1>2. ASSUME NEW k \in Keys, Route(k), registered[k] # None
      PROVE  registered'[owner'[c]] = c
  BY <1>1, <1>2 DEF Route, Serves, Live, BusyInv
<1>3. ASSUME NEW k \in Keys, Route(k), registered[k] = None
      PROVE  registered'[owner'[c]] = c
  <2>1. CASE c = made + 1
    BY <1>3, <2>1, RouteMakes
  <2>2. CASE c # made + 1
    <3>1. owner'[c] = owner[c] /\ Serves(c)
      BY <1>3, <2>2, RouteMakes DEF Serves, Live
    <3>2. registered[owner[c]] = c
      BY <1>1, <3>1 DEF BusyInv
    <3>3. owner[c] \in Keys \ {k}
      <4>1. c # None /\ owner[c] \in Keys
        BY ConstantsAssumption DEF TypeInv, TypeOK, Queues, None
      <4> QED
        BY <1>3, <3>2, <4>1
    <3> QED
      BY <1>3, <3>1, <3>2, <3>3, RouteMakes
  <2> QED
    BY <2>1, <2>2
<1>4. CASE \A k \in Keys : ~Route(k)
  <2>1. owner'[c] = owner[c] /\ owner[c] \in Keys \ Quiet
    BY <1>4, NotRouted DEF TypeInv, TypeOK
  <2>2. Live(c)
    BY <1>4, LiveBefore DEF Serves
  <2>3. c \notin cancelled
    BY <1>1, <2>1 DEF BusyInv
  <2> QED
    BY <1>1, <1>4, <2>1, <2>2, <2>3, BusyKept DEF BusyInv, Serves
<1> QED
  BY <1>2, <1>3, <1>4

(* The consumer that started the run of a busy key follows it.             *)
LEMMA RunStep ==
  ASSUME TypeInv, OwnersInv, AliveInv, BusyInv, [Next]_vars, manager' = "up",
         NEW k \in Keys \ Quiet, run'[k] # None
  PROVE  consumer'[run'[k]] = "streaming" /\ owner'[run'[k]] = k
<1> USE DEF TypeInv, TypeOK
<1>1. manager = "up"
  BY UpStays
<1>2. CASE run'[k] = run[k]
  <2> DEFINE d == run[k]
  <2>1. d \in 1..made /\ d \in Queues
    BY <1>2, MadeQueue DEF None
  <2>2. consumer[d] = "streaming" /\ owner[d] = k
    BY <1>1, <1>2 DEF BusyInv
  <2>3. d \notin cancelled
    BY <1>1, <2>2 DEF BusyInv
  <2>4. ASSUME NEW j \in Keys, Route(j)
        PROVE  consumer'[d] = consumer[d] /\ owner'[d] = owner[d]
    <3>1. CASE registered[j] = None
      <4>1. d # made + 1
        BY <2>1
      <4> QED
        BY <2>1, <2>4, <3>1, <4>1, RouteMakes
    <3>2. CASE registered[j] # None
      BY <2>4, <3>2 DEF Route
    <3> QED
      BY <3>1, <3>2
  <2>5. ASSUME \A j \in Keys : ~Route(j)
        PROVE  consumer'[d] = consumer[d] /\ owner'[d] = owner[d]
    <3>1. owner'[d] = owner[d]
      BY <2>5, NotRouted
    <3>2. consumer'[d] = consumer[d]
      <4>1. CASE consumer' = consumer
        BY <4>1
      <4>2. CASE consumer' # consumer
        <5>1. PICK c \in Queues : ConsumerStep(c)
          BY <2>5, <4>2 DEF Next, RunEnds, ClearQueue, Put, PutTimesOut, GrowIdle, Wake,
              Joined, StopStep, StopEnqueues, StopCleanup, StopConsumers, StopForgets,
              vars, messageVars, queueVars
        <5>2. \E st : Goes(c, st)
          BY <5>1 DEF ConsumerStep, ConsumerStarts, Take, Drain, Dispatch, Absorb,
                      StreamEnds, CancelArrives
        <5>3. c # d
          BY <2>2, <2>3, <5>1 DEF ConsumerStep, ConsumerStarts, Take, Drain, Dispatch,
                      Absorb, StreamEnds, CancelArrives, Over
        <5> QED
          BY <2>1, <5>2, <5>3 DEF Goes
      <4> QED
        BY <4>1, <4>2
    <3> QED
      BY <3>1, <3>2
  <2>6. consumer'[d] = consumer[d] /\ owner'[d] = owner[d]
    BY <2>4, <2>5
  <2>7. run'[k] = d
    BY <1>2
  <2> HIDE DEF d
  <2> QED
    BY <2>2, <2>6, <2>7
<1>3. CASE run'[k] # run[k]
  <2>0. \A j \in Keys : ~RunEnds(j)
    BY <1>3 DEF RunEnds
  <2>6. run' # run
    BY <1>3
  <2>7. ~Wake /\ ~Joined /\ ~StopStep /\ ~UNCHANGED vars
    BY <2>6 DEF Wake, Joined, StopStep, StopEnqueues, StopCleanup, StopConsumers,
       StopForgets, vars
  <2>8. /\ \A j \in Keys : ~Route(j) /\ ~ClearQueue(j)
        /\ \A m \in Messages : ~Put(m) /\ ~PutTimesOut(m)
        /\ \A c \in Queues : ~GrowIdle(c)
    BY <2>6 DEF Route, ClearQueue, Put, PutTimesOut, GrowIdle
  <2>4. PICK c \in Queues : ConsumerStep(c)
    BY <2>0, <2>7, <2>8 DEF Next
  <2>1. Dispatch(c) /\ run[owner[c]] = None
    BY <1>3, <2>4 DEF ConsumerStep, ConsumerStarts, Take, Drain, Dispatch, Absorb,
       StreamEnds, CancelArrives, messageVars, queueVars
  <2>2. run' = [run EXCEPT ![owner[c]] = c] /\ Goes(c, "streaming") /\ owner' = owner
    BY <2>1 DEF Dispatch
  <2>3. owner[c] = k /\ run'[k] = c
    BY <1>3, <2>2
  <2>5. consumer'[c] = "streaming"
    BY <2>2 DEF Goes
  <2> QED
    BY <2>2, <2>3, <2>5
<1> QED
  BY <1>2, <1>3

(* Messages of a busy key find no run of somebody else.                    *)
LEMMA IgnoredStep ==
  ASSUME TypeInv, OwnersInv, AliveInv, BusyInv, [Next]_vars, manager' = "up",
         NEW m \in Messages, place'[m] = "ignored"
  PROVE  keyOf'[m] \in Quiet
<1> USE DEF TypeInv, TypeOK
<1>1. manager = "up" /\ ~StopStep
  BY UpStays
<1>2. ASSUME NEW k \in Keys, Route(k)
      PROVE  keyOf'[m] \in Quiet
  <2>1. m # arrived + 1
    BY <1>2, RouteArrives
  <2> QED
    BY <1>1, <1>2, <2>1, RouteArrives DEF BusyInv
<1>3. CASE \A k \in Keys : ~Route(k)
  <2>0. keyOf' = keyOf
    BY <1>3, NotRouted
  <2>1. CASE place[m] = "ignored"
    BY <1>1, <2>0, <2>1 DEF BusyInv
  <2>2. CASE place[m] # "ignored"
    <3>0. PICK c \in Queues : ConsumerStep(c)
      BY <1>1, <1>3, <2>2 DEF Next, RunEnds, ClearQueue, Put, PutTimesOut,
         GrowIdle, Wake, Joined, Move, vars, messageVars
    <3>1. Dispatch(c) /\ run[owner[c]] # None /\ m \in Batch(c)
      BY <2>2, <3>0 DEF ConsumerStep, ConsumerStarts, Take, Drain, Dispatch, Absorb,
         StreamEnds, CancelArrives, Move, messageVars
    <3>2. target[m] = c /\ c # None
      BY <3>1 DEF Batch, Queues, None
    <3>3. keyOf[m] = owner[c]
      BY <3>2 DEF OwnersInv
    <3>4. ASSUME owner[c] \notin Quiet
          PROVE  FALSE
      <4>1. Serves(c)
        BY <3>1 DEF Serves, Live, Dispatch
      <4>2. registered[owner[c]] = c
        BY <1>1, <3>4, <4>1 DEF BusyInv
      <4> DEFINE d == run[owner[c]]
      <4>3. d \in Queues
        BY <3>1, MadeQueue DEF None
      <4>4. consumer[d] = "streaming" /\ owner[d] = owner[c]
        BY <1>1, <3>1, <3>4 DEF BusyInv
      <4>5. Serves(d)
        BY <1>1, <3>4, <4>4 DEF Serves, Live, BusyInv
      <4>6. registered[owner[c]] = d
        BY <1>1, <3>4, <4>3, <4>4, <4>5 DEF BusyInv
      <4> QED
        BY <3>1, <4>2, <4>4, <4>6 DEF Dispatch
    <3> QED
      BY <2>0, <3>3, <3>4
  <2> QED
    BY <2>1, <2>2
<1> QED
  BY <1>2, <1>3

LEMMA BusyStep ==
  ASSUME TypeInv, OwnersInv, AliveInv, BusyInv, [Next]_vars
  PROVE  BusyInv'
<1> SUFFICES ASSUME manager' = "up"
             PROVE  /\ \A c \in idle' \cup cancelled' : owner'[c] \in Quiet
                    /\ sweep'.todo \subseteq Quiet
  BY ServesStep, RunStep, IgnoredStep DEF BusyInv
<1>1. CASE \A k \in Keys : ~Route(k)
  BY <1>1, QuietStep
<1>2. ASSUME NEW k \in Keys, Route(k)
      PROVE  /\ \A c \in idle' \cup cancelled' : owner'[c] \in Quiet
             /\ sweep'.todo \subseteq Quiet
  <2>1. manager = "up"
    BY UpStays
  <2>2. idle' \subseteq idle /\ UNCHANGED <<cancelled, sweep>>
    BY <1>2 DEF Route
  <2>3. ASSUME NEW c \in idle \cup cancelled
        PROVE  owner'[c] = owner[c]
    <3>1. CASE registered[k] # None
      BY <1>2, <3>1 DEF Route
    <3>2. CASE registered[k] = None
      <4>1. c \in Queues \ {made + 1}
        BY MadeQueue DEF TypeInv, MadeInv, TypeOK
      <4> QED
        BY <1>2, <3>2, <4>1, RouteMakes
    <3> QED
      BY <3>1, <3>2
  <2> QED
    BY <2>1, <2>2, <2>3 DEF BusyInv
<1> QED
  BY <1>1, <1>2
-----------------------------------------------------------------------------
(* Batches.                                                                *)

(* Steps that move messages to and from places before and after a batch.   *)
LEMMA BatchesKept ==
  ASSUME TypeInv, BatchesInv, UNCHANGED <<keyOf, target, consumer, run>>,
         \A m \in Messages : \/ place'[m] = place[m]
                             \/ {place[m], place'[m]} \cap {"taken", "running"} = {}
  PROVE  BatchesInv'
<1>1. \A m \in Messages : /\ place'[m] = "taken" <=> place[m] = "taken"
                          /\ place'[m] = "running" <=> place[m] = "running"
  OBVIOUS
<1>2. \A c \in Queues : Batch(c)' = Batch(c)
  BY <1>1 DEF Batch
<1> QED
  BY <1>1, <1>2 DEF BatchesInv

(* A consumer hands its batch on, and its messages are taken no more.      *)
LEMMA BatchGoes ==
  ASSUME TypeInv, BatchesInv, NEW c \in Queues, NEW st, st \notin Gathering, Goes(c, st),
         NEW p, p # "taken", Move(Batch(c), p), UNCHANGED <<keyOf, target>>,
         p = "running" => \A m \in Batch(c) : run'[keyOf[m]] # None,
         \A k \in Keys : run[k] # None => run'[k] # None
  PROVE  BatchesInv'
<1>1. \A d \in Queues : consumer'[d] = IF d = c THEN st ELSE consumer[d]
  BY DEF Goes, TypeInv, TypeOK
<1>2. \A m \in Messages : place'[m] = IF m \in Batch(c) THEN p ELSE place[m]
  BY DEF Move
<1>3. ASSUME NEW m \in Messages, place'[m] = "taken"
      PROVE  target[m] # None /\ consumer'[target[m]] \in Gathering
  <2>1. place[m] = "taken" /\ m \notin Batch(c)
    BY <1>2, <1>3
  <2>2. target[m] # None /\ target[m] # c /\ consumer[target[m]] \in Gathering
    BY <2>1 DEF BatchesInv, Batch
  <2>3. target[m] \in Queues
    BY <2>2, MadeQueue DEF TypeInv, TypeOK, None
  <2> QED
    BY <1>1, <2>2, <2>3
<1>4. ASSUME NEW m \in Messages, place'[m] = "running"
      PROVE  run'[keyOf[m]] # None
  <2>1. CASE m \in Batch(c)
    BY <1>2, <1>4, <2>1
  <2>2. CASE m \notin Batch(c)
    BY <1>2, <1>4, <2>2 DEF BatchesInv, TypeInv, TypeOK
  <2> QED
    BY <2>1, <2>2
<1>5. ASSUME NEW d \in Queues, consumer'[d] \in Gathering
      PROVE  Batch(d)' # {}
  <2>1. d # c /\ Batch(d) # {}
    BY <1>1, <1>5 DEF BatchesInv
  <2>2. Batch(d) \cap Batch(c) = {}
    BY <2>1 DEF Batch
  <2>3. Batch(d) \subseteq Batch(d)'
    BY <1>2, <2>2 DEF Batch
  <2> QED
    BY <2>1, <2>3
<1> QED
  BY <1>3, <1>4, <1>5 DEF BatchesInv

(* A consumer without a batch goes on to where it has none.                *)
LEMMA NoBatch ==
  ASSUME TypeInv, BatchesInv, NEW c \in Queues, consumer[c] \notin Gathering
  PROVE  Batch(c) = {}
<1>1. c # None
  BY DEF Queues, None
<1> QED
  BY <1>1 DEF BatchesInv, Batch

LEMMA WithoutBatch ==
  ASSUME TypeInv, BatchesInv, NEW c \in Queues, consumer[c] \notin Gathering,
         NEW st, st \notin Gathering, Goes(c, st), UNCHANGED <<place, keyOf, target, run>>
  PROVE  BatchesInv'
<1>1. Move(Batch(c), "lost")
  <2>1. place = [m \in Messages |-> place[m]]
    BY DEF TypeInv, TypeOK
  <2> QED
    BY <2>1, NoBatch DEF Move
<1> QED
  BY <1>1, BatchGoes

LEMMA TakeBatches ==
  ASSUME TypeInv, QueuesInv, BatchesInv, NEW c \in Queues, Take(c)
  PROVE  BatchesInv'
<1> DEFINE h == Head(queue[c])
<1>1. h \in Messages /\ h = queue[c][1] /\ 1 \in 1..Len(queue[c])
  BY DEF Take, TypeInv, TypeOK
<1>2. place[h] = "queued" /\ target[h] = c
  BY <1>1 DEF QueuesInv, HeldIsQueued
<1>3. place' = [place EXCEPT ![h] = "taken"] /\ consumer' = [consumer EXCEPT ![c] = "fetching"]
      /\ UNCHANGED <<keyOf, target, run>>
  BY DEF Take, Goes
<1> HIDE DEF h
<1>4. /\ \A m \in Messages : place'[m] = IF m = h THEN "taken" ELSE place[m]
      /\ \A d \in Queues : consumer'[d] = IF d = c THEN "fetching" ELSE consumer[d]
  BY <1>1, <1>3 DEF TypeInv, TypeOK
<1>5. c # None
  BY DEF Queues, None
<1>6. ASSUME NEW m \in Messages, place'[m] = "taken"
      PROVE  target[m] # None /\ consumer'[target[m]] \in Gathering
  <2>1. CASE m = h
    BY <1>2, <1>4, <1>5, <2>1 DEF Gathering
  <2>2. CASE m # h
    <3>1. target[m] # None /\ consumer[target[m]] \in Gathering
      BY <1>4, <1>6, <2>2 DEF BatchesInv
    <3>2. target[m] \in Queues
      BY <3>1, MadeQueue DEF TypeInv, TypeOK, None
    <3> QED
      BY <1>4, <3>1, <3>2 DEF Gathering
  <2> QED
    BY <2>1, <2>2
<1>7. ASSUME NEW m \in Messages, place'[m] = "running"
      PROVE  run'[keyOf[m]] # None
  BY <1>3, <1>4, <1>7 DEF BatchesInv
<1>8. ASSUME NEW d \in Queues, consumer'[d] \in Gathering
      PROVE  Batch(d)' # {}
  <2>1. CASE d = c
    <3>1. h \in Batch(d)'
      BY <1>1, <1>2, <1>3, <1>4, <2>1 DEF Batch
    <3> QED
      BY <3>1
  <2>2. CASE d # c
    <3>1. Batch(d) # {}
      BY <1>4, <1>8, <2>2 DEF BatchesInv
    <3>2. Batch(d) \subseteq Batch(d)'
      BY <1>3, <1>4 DEF Batch
    <3> QED
      BY <3>1, <3>2
  <2> QED
    BY <2>1, <2>2
<1> QED
  BY <1>3, <1>6, <1>7, <1>8 DEF BatchesInv

LEMMA DrainBatches ==
  ASSUME TypeInv, BatchesInv, NEW c \in Queues, Drain(c)
  PROVE  BatchesInv'
<1>1. consumer[c] = "fetching" /\ UNCHANGED <<keyOf, target, run>>
  BY DEF Drain
<1>2. /\ \A m \in Messages : place'[m] = IF m \in Drained(c) THEN "taken" ELSE place[m]
      /\ \A d \in Queues : consumer'[d] = IF d = c THEN "preparing" ELSE consumer[d]
  BY DEF Drain, Goes, Move, TypeInv, TypeOK
<1>3. c # None
  BY DEF Queues, None
<1>4. ASSUME NEW m \in Messages, place'[m] = "taken"
      PROVE  target[m] # None /\ consumer'[target[m]] \in Gathering
  <2>1. CASE m \in Drained(c)
    BY <1>2, <1>3, <2>1 DEF Gathering, Drained
  <2>2. CASE m \notin Drained(c)
    <3>1. target[m] # None /\ consumer[target[m]] \in Gathering
      BY <1>2, <1>4, <2>2 DEF BatchesInv
    <3>2. target[m] \in Queues
      BY <3>1, MadeQueue DEF TypeInv, TypeOK, None
    <3> QED
      BY <1>2, <3>1, <3>2 DEF Gathering
  <2> QED
    BY <2>1, <2>2
<1>5. ASSUME NEW m \in Messages, place'[m] = "running"
      PROVE  run'[keyOf[m]] # None
  BY <1>1, <1>2, <1>5 DEF BatchesInv
<1>6. ASSUME NEW d \in Queues, consumer'[d] \in Gathering
      PROVE  Batch(d)' # {}
  <2>1. Batch(d) # {}
    BY <1>1, <1>2, <1>6 DEF BatchesInv, Gathering
  <2>2. Batch(d) \subseteq Batch(d)'
    BY <1>1, <1>2 DEF Batch
  <2> QED
    BY <2>1, <2>2
<1> QED
  BY <1>1, <1>4, <1>5, <1>6 DEF BatchesInv

LEMMA RouteBatches ==
  ASSUME TypeInv, QueuesInv, BatchesInv, NEW k \in Keys, Route(k)
  PROVE  BatchesInv'
<1> DEFINE m0 == arrived + 1
<1>1. /\ m0 \in Messages /\ place'[m0] = "routed" /\ run' = run
      /\ \A m \in Messages \ {m0} :
           keyOf'[m] = keyOf[m] /\ place'[m] = place[m] /\ target'[m] = target[m]
  BY RouteArrives
<1>2. \A c \in Queues : c <= made => consumer'[c] = consumer[c]
  <2>1. CASE registered[k] = None
    <3>1. made \in Nat
      BY DEF TypeInv, TypeOK
    <3> QED
      BY <2>1, <3>1, RouteMakes DEF Queues
  <2>2. CASE registered[k] # None
    BY <2>2 DEF Route
  <2> QED
    BY <2>1, <2>2
<1>3. \A c \in Queues : consumer'[c] \in Gathering => consumer[c] = consumer'[c]
  <2>1. CASE registered[k] = None
    BY <2>1, RouteMakes DEF Gathering
  <2>2. CASE registered[k] # None
    BY <2>2 DEF Route
  <2> QED
    BY <2>1, <2>2
<1>4. place[m0] \notin {"taken", "running"} => \A c \in Queues : Batch(c) \subseteq Batch(c)'
  BY <1>1 DEF Batch
<1> HIDE DEF m0
<1>5. ASSUME NEW m \in Messages, place'[m] = "taken"
      PROVE  target'[m] # None /\ consumer'[target'[m]] \in Gathering
  <2>1. m # m0 /\ place[m] = "taken" /\ target'[m] = target[m]
    BY <1>1, <1>5
  <2>2. target[m] # None /\ consumer[target[m]] \in Gathering
    BY <2>1 DEF BatchesInv
  <2>3. target[m] \in Queues /\ target[m] <= made
    BY <2>2, MadeQueue DEF TypeInv, TypeOK, None
  <2> QED
    BY <1>2, <2>1, <2>2, <2>3
<1>6. ASSUME NEW m \in Messages, place'[m] = "running"
      PROVE  run'[keyOf'[m]] # None
  BY <1>1, <1>6 DEF BatchesInv
<1>7. ASSUME NEW c \in Queues, consumer'[c] \in Gathering
      PROVE  Batch(c)' # {}
  <2>1. place[m0] = "none"
    BY <1>1 DEF QueuesInv, RoutedHasQueue, m0, TypeInv, TypeOK, Messages
  <2>2. Batch(c) # {}
    BY <1>3, <1>7 DEF BatchesInv
  <2> QED
    BY <1>4, <2>1, <2>2
<1> QED
  BY <1>5, <1>6, <1>7 DEF BatchesInv

LEMMA ConsumerBatches ==
  ASSUME TypeInv, QueuesInv, OwnersInv, BatchesInv, NEW c \in Queues, ConsumerStep(c)
  PROVE  BatchesInv'
<1> USE DEF TypeInv, TypeOK
<1>0. owner[c] \in Keys /\ c # None
  <2>1. owner[c] \in Keys
    OBVIOUS
  <2>2. c # None
    BY DEF Queues, None
  <2> QED
    BY <2>1, <2>2
<1>1. CASE ConsumerStarts(c) \/ StreamEnds(c)
  BY <1>1, WithoutBatch DEF ConsumerStarts, StreamEnds, messageVars, Gathering
<1>2. CASE Take(c)
  BY <1>2, TakeBatches
<1>3. CASE Drain(c)
  BY <1>3, DrainBatches
<1>4. CASE Dispatch(c)
  <2>1. \A m \in Batch(c) : keyOf[m] = owner[c]
    BY <1>0 DEF Batch, OwnersInv
  <2>2. CASE run[owner[c]] = None
    <3>1. /\ Move(Batch(c), "running") /\ Goes(c, "streaming")
          /\ run' = [run EXCEPT ![owner[c]] = c] /\ UNCHANGED <<keyOf, target>>
      BY <1>4, <2>2 DEF Dispatch
    <3>2. \A k \in Keys : run'[k] = IF k = owner[c] THEN c ELSE run[k]
      BY <1>0, <3>1
    <3>3. run'[owner[c]] # None /\ \A k \in Keys : run[k] # None => run'[k] # None
      BY <1>0, <3>2
    <3> QED
      BY <2>1, <3>1, <3>3, BatchGoes DEF Gathering
  <2>3. CASE run[owner[c]] # None
    BY <1>4, <2>3, BatchGoes DEF Dispatch, Gathering
  <2> QED
    BY <2>2, <2>3
<1>5. CASE Absorb(c)
  BY <1>5, BatchGoes DEF Absorb, Gathering
<1>6. CASE CancelArrives(c)
  <2>1. CASE consumer[c] = "streaming"
    BY <1>6, <2>1, WithoutBatch DEF CancelArrives, Gathering
  <2>2. CASE consumer[c] # "streaming"
    BY <1>6, <2>2, BatchGoes DEF CancelArrives, Gathering
  <2> QED
    BY <2>1, <2>2
<1> QED
  BY <1>1, <1>2, <1>3, <1>4, <1>5, <1>6 DEF ConsumerStep

LEMMA BatchesStep ==
  ASSUME TypeInv, QueuesInv, OwnersInv, BatchesInv, [Next]_vars
  PROVE  BatchesInv'
<1>1. ASSUME NEW k \in Keys, Route(k)
      PROVE  BatchesInv'
  BY <1>1, RouteBatches
<1>2. ASSUME NEW c \in Queues, ConsumerStep(c)
      PROVE  BatchesInv'
  BY <1>2, ConsumerBatches
<1>3. ASSUME NEW k \in Keys, RunEnds(k)
      PROVE  BatchesInv'
  <2>1. /\ UNCHANGED <<keyOf, target, consumer>> /\ run' = [run EXCEPT ![k] = None]
        /\ \A m \in Messages : place'[m] =
             IF place[m] = "running" /\ keyOf[m] = k THEN "done" ELSE place[m]
    BY <1>3 DEF RunEnds, Move, queueVars
  <2>2. \A j \in Keys : run'[j] = IF j = k THEN None ELSE run[j]
    BY <2>1 DEF TypeInv, TypeOK
  <2>3. \A c \in Queues : Batch(c)' = Batch(c)
    BY <2>1 DEF Batch
  <2>4. \A m \in Messages : keyOf[m] \in Keys
    BY DEF TypeInv, TypeOK
  <2> QED
    BY <2>1, <2>2, <2>3, <2>4 DEF BatchesInv
<1>4. CASE /\ \A k \in Keys : ~Route(k) /\ ~RunEnds(k)
           /\ \A c \in Queues : ~ConsumerStep(c)
  <2>1. UNCHANGED <<keyOf, target, consumer, run>>
    BY <1>4 DEF Next, ClearQueue, Put, PutTimesOut, GrowIdle, Wake, Joined, StopStep,
         StopEnqueues, StopCleanup, StopConsumers, StopForgets, vars, messageVars, queueVars
  <2>2. \A m \in Messages :
          \/ place'[m] = place[m]
          \/ place[m] \in {"routed", "queued"} /\ place'[m] \in {"queued", "cleared", "lost"}
    BY <1>4 DEF Next, ClearQueue, Cleared, Put, PutTimesOut, GrowIdle, Wake, Joined, StopStep,
         StopEnqueues, StopCleanup, StopConsumers, StopForgets, vars, messageVars, queueVars,
         Move, TypeInv, TypeOK
  <2>3. \A m \in Messages : \/ place'[m] = place[m]
                            \/ {place[m], place'[m]} \cap {"taken", "running"} = {}
    BY <2>2
  <2> QED
    BY <2>1, <2>3, BatchesKept
<1> QED
  BY <1>1, <1>2, <1>3, <1>4

LEMMA TargetsStep ==
  ASSUME TypeInv, QueuesInv, OwnersInv, AliveInv, BusyInv, TargetsInv, [Next]_vars
  PROVE  TargetsInv'
<1> SUFFICES ASSUME manager' = "up", NEW m \in Messages, target'[m] # None,
                    keyOf'[m] \notin Quiet
             PROVE  registered'[keyOf'[m]] = target'[m]
  BY DEF TargetsInv, Up
<1>1. Up
  BY UpStays DEF Up
<1>2. ASSUME NEW k \in Keys, Route(k)
      PROVE  registered'[keyOf'[m]] = target'[m]
  <2>1. CASE m = arrived + 1
    <3>0. /\ keyOf'[m] = k
          /\ target'[m] = IF registered[k] # None THEN registered[k] ELSE made + 1
      BY <1>2, <2>1, RouteArrives
    <3>1. CASE registered[k] = None
      <4>1. registered'[k] = made + 1
        BY <1>2, <3>1, RouteMakes
      <4> QED
        BY <3>0, <3>1, <4>1
    <3>2. CASE registered[k] # None
      BY <1>2, <3>0, <3>2 DEF Route
    <3> QED
      BY <3>1, <3>2
  <2>2. CASE m # arrived + 1
    <3>1. keyOf'[m] = keyOf[m] /\ target'[m] = target[m] /\ keyOf[m] \in Keys
      BY <1>2, <2>2, RouteArrives DEF TypeInv, TypeOK
    <3>2. registered[keyOf[m]] = target[m]
      BY <1>1, <3>1 DEF TargetsInv
    <3>3. registered'[keyOf[m]] = registered[keyOf[m]]
      <4>1. CASE registered[k] = None
        <5>1. keyOf[m] # k
          BY <3>1, <3>2, <4>1
        <5> QED
          BY <1>2, <3>1, <4>1, <5>1, RouteMakes
      <4>2. CASE registered[k] # None
        BY <1>2, <4>2 DEF Route
      <4> QED
        BY <4>1, <4>2
    <3> QED
      BY <3>1, <3>2, <3>3
  <2> QED
    BY <2>1, <2>2
<1>3. CASE \A k \in Keys : ~Route(k)
  <2>1. keyOf' = keyOf /\ target' = target
    BY <1>3, NotRouted
  <2>2. keyOf[m] \in Keys \ Quiet
    BY <2>1 DEF TypeInv, TypeOK
  <2>3. registered'[keyOf[m]] = registered[keyOf[m]]
    BY <1>3, <2>2, BusyKept
  <2> QED
    BY <1>1, <2>1, <2>3 DEF TargetsInv
<1> QED
  BY <1>2, <1>3
-----------------------------------------------------------------------------
LEMMA InitIInv == Init => IInv
<1> SUFFICES ASSUME Init PROVE IInv
  OBVIOUS
<1>1. OwnersInv /\ AliveInv
  BY DEF Init, OwnersInv, AliveInv
<1>2. BusyInv
  BY DEF Init, BusyInv, Sleeping, Serves, Live
<1>3. BatchesInv /\ TargetsInv
  BY DEF Init, BatchesInv, TargetsInv, Gathering
<1> QED
  BY <1>1, <1>2, <1>3, InitType, InitQueues DEF IInv

LEMMA NextIInv == IInv /\ [Next]_vars => IInv'
BY TypeStep, QueuesStep, OwnersStep, AliveStep, BusyStep, BatchesStep, TargetsStep DEF IInv

LEMMA InvariantHolds == Spec => []IInv
BY InitIInv, NextIInv, PTL DEF Spec

(* The variables of the queues keep their types, whatever arrives, is      *)
(* swept, cleared or stopped.                                              *)
THEOREM TypeCorrect == Spec => []TypeOK
<1>1. IInv => TypeOK
  BY DEF IInv, TypeInv
<1> QED
  BY <1>1, InvariantHolds, PTL

(* Until the consumers are stopped, the registered queue of a key has a    *)
(* living consumer and was made for that key.                              *)
THEOREM RegisteredConsumerLives == Spec => []RegisteredIsAlive
<1>1. IInv => RegisteredIsAlive
  BY DEF IInv, AliveInv, OwnersInv, RegisteredIsAlive
<1> QED
  BY <1>1, InvariantHolds, PTL

(* Keys that are never idle for long have one consumer at a time, whatever *)
(* the sweep does to the others.                                           *)
THEOREM BusyKeysHaveOneConsumer == Spec => []BusyKeysSerialized
<1>1. ASSUME IInv PROVE BusyKeysSerialized
  <2> SUFFICES ASSUME manager = "up", NEW k \in Keys \ Quiet, NEW c \in Queues,
                      NEW d \in Queues, Serves(c), Serves(d), owner[c] = k, owner[d] = k
               PROVE  c = d
    BY DEF BusyKeysSerialized, OneConsumer
  <2> QED
    BY <1>1 DEF IInv, BusyInv
<1> QED
  BY <1>1, InvariantHolds, PTL

(* The queue that an enqueue of such a key looked up, however long ago, is *)
(* the registered one and is served when the message is put, and while     *)
(* messages wait in it.                                                    *)
THEOREM BusyQueuesAreServed == Spec => []BusyLookupsHold
<1>1. ASSUME IInv PROVE BusyLookupsHold
  <2> SUFFICES ASSUME manager = "up", NEW c \in Queues, owner[c] \notin Quiet,
                      AwaitsPut(c) \/ queue[c] # <<>>
               PROVE  registered[owner[c]] = c /\ Serves(c)
    BY DEF BusyLookupsHold
  <2> USE <1>1 DEF IInv
  <2>1. PICK m \in Messages : target[m] = c
    <3>1. CASE AwaitsPut(c)
      BY <3>1 DEF AwaitsPut
    <3>2. CASE queue[c] # <<>>
      <4>1. queue[c] \in Seq(Messages)
        BY DEF TypeInv, TypeOK
      <4>2. 1 \in 1..Len(queue[c]) /\ queue[c][1] \in Messages
        BY <3>2, <4>1
      <4>3. target[queue[c][1]] = c
        BY <4>2 DEF QueuesInv, HeldIsQueued
      <4> QED
        BY <4>2, <4>3
    <3> QED
      BY <3>1, <3>2
  <2>2. c # None
    BY DEF Queues, None
  <2>3. owner[c] \in Keys
    BY DEF TypeInv, TypeOK
  <2>4. keyOf[m] = owner[c]
    BY <2>1, <2>2 DEF OwnersInv
  <2>5. registered[owner[c]] = c
    BY <2>1, <2>2, <2>4 DEF TargetsInv, Up
  <2> QED
    BY <2>2, <2>3, <2>5 DEF AliveInv, Serves
<1> QED
  BY <1>1, InvariantHolds, PTL

(* No message of such a key is dropped because a run is active.            *)
THEOREM BusyMessagesNeverIgnored == Spec => []BusyNeverIgnored
<1>1. IInv => BusyNeverIgnored
  BY DEF IInv, BusyInv, BusyNeverIgnored
<1> QED
  BY <1>1, InvariantHolds, PTL
-----------------------------------------------------------------------------
(***************************************************************************)
(* The mailboxes.                                                          *)
(***************************************************************************)

MailboxVars == <<Up, Seen, Boxes, Batches, Servings, Wiped>>

(* A step that concerns one session leaves the mailboxes of the others.    *)
LEMMA OneSession ==
  ASSUME Up, Up', keyOf' = keyOf, NEW k,
         \A j \in Busy \ {k} :
           /\ registered'[j] = registered[j]
           /\ registered[j] # None => queue'[registered[j]] = queue[registered[j]],
         \A m \in Messages : keyOf[m] # k => place'[m] = place[m]
  PROVE  /\ Boxes' = [Boxes EXCEPT ![k] = Boxes'[k]]
         /\ Batches' = [Batches EXCEPT ![k] = Batches'[k]]
         /\ Servings' = [Servings EXCEPT ![k] = Servings'[k]]
<1>1. \A j \in Busy \ {k} : \A p : At(j, p)' = At(j, p)
  BY DEF At
<1>2. \A j \in Busy \ {k} : /\ Boxes'[j] = Boxes[j]
                           /\ Batches'[j] = Batches[j] /\ Servings'[j] = Servings[j]
  BY <1>1 DEF Boxes, Batches, Servings
<1>3. /\ Boxes = [j \in Busy |-> Boxes[j]] /\ Boxes' = [j \in Busy |-> Boxes'[j]]
      /\ Batches = [j \in Busy |-> Batches[j]] /\ Batches' = [j \in Busy |-> Batches'[j]]
      /\ Servings = [j \in Busy |-> Servings[j]] /\ Servings' = [j \in Busy |-> Servings'[j]]
  BY DEF Boxes, Batches, Servings
<1> HIDE DEF Boxes, Batches, Servings, Busy
<1> QED
  BY <1>2, <1>3

(* A step that concerns a session that is not busy, or moves only messages *)
(* that are not delivered, leaves all of them.                             *)
LEMMA NoSession ==
  ASSUME Up, Up', keyOf' = keyOf,
         \A j \in Busy :
           /\ registered'[j] = registered[j]
           /\ registered[j] # None => queue'[registered[j]] = queue[registered[j]],
         \A m \in Messages :
           \/ place'[m] = place[m]
           \/ keyOf[m] \notin Busy
           \/ {place[m], place'[m]} \cap Delivered = {}
  PROVE  UNCHANGED MailboxVars
<1>1. Boxes' = Boxes
  BY DEF Boxes
<1>2. \A j \in Busy : /\ At(j, "taken")' = At(j, "taken")
                     /\ At(j, "running")' = At(j, "running")
  <2> SUFFICES ASSUME NEW j \in Busy, NEW m \in Messages, keyOf[m] = j
               PROVE  /\ place'[m] = "taken" <=> place[m] = "taken"
                      /\ place'[m] = "running" <=> place[m] = "running"
    BY DEF At
  <2>1. CASE place'[m] = place[m]
    BY <2>1
  <2>2. CASE {place[m], place'[m]} \cap Delivered = {}
    BY <2>2 DEF Delivered
  <2> QED
    BY <2>1, <2>2
<1>3. Batches' = Batches /\ Servings' = Servings
  BY <1>2 DEF Batches, Servings
<1>4. Seen' = Seen /\ Wiped' = Wiped
  BY DEF Seen, Wiped, Delivered
<1> QED
  BY <1>1, <1>3, <1>4 DEF MailboxVars

(* The queue of a key that is registered belongs to no other key.          *)
LEMMA OtherQueues ==
  ASSUME TypeInv, OwnersInv, NEW c \in Queues, NEW q, queue' = [queue EXCEPT ![c] = q]
  PROVE  /\ \A j \in Keys : j # owner[c] /\ registered[j] # None =>
              queue'[registered[j]] = queue[registered[j]]
         /\ queue'[c] = q
<1>1. queue \in [Queues -> Seq(Messages)]
  BY DEF TypeInv, TypeOK
<1>2. \A j \in Keys : j # owner[c] /\ registered[j] # None =>
        registered[j] \in Queues /\ registered[j] # c
  BY RegisteredQueue DEF OwnersInv
<1> QED
  BY <1>1, <1>2

(* While the manager is up, the live consumer of a busy key is the one of  *)
(* its mailbox.                                                            *)
LEMMA BusyConsumer ==
  ASSUME IInv, Up, NEW c \in Queues, Live(c), NEW k \in Busy, owner[c] = k
  PROVE  /\ registered[k] = c /\ c \notin cancelled
         /\ Boxes[k] = queue[c]
         /\ Batches[k] = Batch(c)
         /\ At(k, "queued") = Drained(c)
         /\ consumer[c] # "streaming" => run[k] = None /\ Servings[k] = {}
<1> USE DEF IInv
<1>0. c # None
  BY DEF Queues, None
<1>1. c \notin cancelled
  BY DEF BusyInv, Up, Busy
<1>2. registered[k] = c
  BY <1>1 DEF BusyInv, Up, Busy, Serves
<1>3. \A m \in Messages : target[m] = c => keyOf[m] = k
  BY <1>0 DEF OwnersInv
<1>4. \A m \in Messages : place[m] \in {"queued", "taken"} => target[m] # None
  BY DEF BatchesInv, QueuesInv, RoutedHasQueue
<1>5. \A m \in Messages : place[m] \in {"queued", "taken"} =>
        (keyOf[m] = k <=> target[m] = c)
  BY <1>2, <1>3, <1>4 DEF TargetsInv, Busy
<1>6. ASSUME consumer[c] # "streaming"
      PROVE  run[k] = None
  <2> SUFFICES ASSUME run[k] # None PROVE FALSE
    OBVIOUS
  <2> DEFINE d == run[k]
  <2>1. consumer[d] = "streaming" /\ owner[d] = k
    BY DEF BusyInv, Up, Busy
  <2>2. d \in Queues
    BY MadeQueue DEF TypeInv, TypeOK, None, Busy
  <2>3. Serves(d)
    BY <2>1 DEF Serves, Live, BusyInv, Up, Busy
  <2>4. registered[k] = d
    BY <2>1, <2>2, <2>3 DEF BusyInv, Up, Busy
  <2> QED
    BY <1>2, <1>6, <2>1, <2>4
<1>7. run[k] = None => Servings[k] = {}
  BY DEF Servings, At, BatchesInv
<1>8. At(k, "taken") = Batch(c) /\ At(k, "queued") = Drained(c)
  BY <1>5 DEF At, Batch, Drained
<1>9. Boxes[k] = queue[c] /\ Batches[k] = Batch(c)
  BY <1>0, <1>2, <1>8 DEF Boxes, Batches
<1> QED
  BY <1>1, <1>2, <1>6, <1>7, <1>8, <1>9

(* What a message's place says of its delivery.                            *)
LEMMA SeenStays ==
  ASSUME Up, Up', keyOf' = keyOf,
         \A m \in Messages :
           /\ place'[m] \in Delivered <=> place[m] \in Delivered
           /\ place'[m] = "cleared" <=> place[m] = "cleared"
  PROVE  Seen' = Seen /\ Wiped' = Wiped
BY DEF Seen, Wiped

(* The steps of a consumer.                                                *)
LEMMA TakePicks ==
  ASSUME IInv, Up, Up', NEW c \in Queues, Take(c), NEW k \in Busy, owner[c] = k
  PROVE  Mailbox!Pick(k)
<1> DEFINE h == Head(queue[c])
<1>1. Live(c) /\ consumer[c] = "waiting" /\ queue[c] # <<>>
  BY DEF Take, Live
<1>2. /\ registered[k] = c /\ Boxes[k] = queue[c] /\ Batches[k] = Batch(c)
      /\ Servings[k] = {}
  BY <1>1, BusyConsumer
<1>3. Batch(c) = {}
  BY <1>1, NoBatch DEF IInv, Gathering
<1>4. /\ h \in Messages /\ place[h] = "queued" /\ target[h] = c
  <2>1. h = queue[c][1] /\ 1 \in 1..Len(queue[c]) /\ h \in Messages
    BY <1>1 DEF IInv, TypeInv, TypeOK
  <2> QED
    BY <2>1 DEF IInv, QueuesInv, HeldIsQueued
<1>5. c # None
  BY DEF Queues, None
<1>6. keyOf[h] = k
  BY <1>4, <1>5 DEF IInv, OwnersInv
<1>7. /\ place' = [place EXCEPT ![h] = "taken"] /\ queue' = [queue EXCEPT ![c] = Tail(queue[c])]
      /\ UNCHANGED <<keyOf, registered>>
  BY DEF Take
<1> HIDE DEF h
<1>8. \A m \in Messages : place'[m] = IF m = h THEN "taken" ELSE place[m]
  BY <1>4, <1>7 DEF IInv, TypeInv, TypeOK
<1>9. /\ Boxes' = [Boxes EXCEPT ![k] = Boxes'[k]]
      /\ Batches' = [Batches EXCEPT ![k] = Batches'[k]]
      /\ Servings' = [Servings EXCEPT ![k] = Servings'[k]]
  <2>1. \A j \in Busy \ {k} : registered[j] # None => queue'[registered[j]] = queue[registered[j]]
    BY <1>7, OtherQueues DEF IInv, Busy
  <2> QED
    BY <1>6, <1>7, <1>8, <2>1, OneSession
<1>10. Boxes'[k] = Tail(queue[c])
  BY <1>2, <1>5, <1>7, OtherQueues DEF IInv, Boxes
<1>11. Batches'[k] = {h}
  <2>1. At(k, "taken")' = At(k, "taken") \cup {h}
    BY <1>4, <1>6, <1>7, <1>8 DEF At
  <2>2. At(k, "taken") = {}
    BY <1>2, <1>3 DEF Batches
  <2> QED
    BY <2>1, <2>2 DEF Batches
<1>12. Servings'[k] = Servings[k]
  BY <1>4, <1>7, <1>8 DEF Servings, At
<1>13. Seen' = Seen /\ Wiped' = Wiped
  BY <1>4, <1>7, <1>8, SeenStays DEF Delivered
<1>14. Servings' = Servings
  BY <1>9, <1>12 DEF Servings
<1> QED
  BY <1>1, <1>2, <1>3, <1>9, <1>10, <1>11, <1>13, <1>14 DEF Mailbox!Pick, h

(* What a queue holds are the messages queued in it.                       *)
LEMMA HeldSet ==
  ASSUME TypeInv, QueuesInv, NEW c \in Queues
  PROVE  {queue[c][i] : i \in DOMAIN queue[c]} = Drained(c)
<1>1. DOMAIN queue[c] = 1..Len(queue[c]) /\ \A i \in DOMAIN queue[c] : queue[c][i] \in Messages
  BY DEF TypeInv, TypeOK
<1>2. \A i \in DOMAIN queue[c] : queue[c][i] \in Drained(c)
  BY <1>1 DEF QueuesInv, HeldIsQueued, Drained
<1>3. \A m \in Drained(c) : \E i \in DOMAIN queue[c] : queue[c][i] = m
  BY <1>1 DEF QueuesInv, QueuedIsHeld, Drained
<1> QED
  BY <1>2, <1>3

LEMMA DrainGathers ==
  ASSUME IInv, Up, Up', NEW c \in Queues, Drain(c), NEW k \in Busy, owner[c] = k
  PROVE  Mailbox!Gather(k)
<1>1. Live(c) /\ consumer[c] = "fetching"
  BY DEF Drain, Live
<1>2. /\ registered[k] = c /\ Boxes[k] = queue[c] /\ Batches[k] = Batch(c)
      /\ At(k, "queued") = Drained(c)
  BY <1>1, BusyConsumer
<1>3. Batch(c) # {}
  BY <1>1 DEF IInv, BatchesInv, Gathering
<1>4. c # None
  BY DEF Queues, None
<1>5. /\ Move(Drained(c), "taken") /\ queue' = [queue EXCEPT ![c] = <<>>]
      /\ UNCHANGED <<keyOf, registered>>
  BY DEF Drain
<1>6. \A m \in Messages : place'[m] = IF m \in Drained(c) THEN "taken" ELSE place[m]
  BY <1>5 DEF Move
<1>7. \A m \in Drained(c) : m \in Messages /\ keyOf[m] = k /\ place[m] = "queued"
  BY <1>2 DEF At
<1>8. /\ Boxes' = [Boxes EXCEPT ![k] = Boxes'[k]]
      /\ Batches' = [Batches EXCEPT ![k] = Batches'[k]]
      /\ Servings' = [Servings EXCEPT ![k] = Servings'[k]]
  <2>1. \A j \in Busy \ {k} : registered[j] # None => queue'[registered[j]] = queue[registered[j]]
    BY <1>5, OtherQueues DEF IInv, Busy
  <2>2. \A m \in Messages : keyOf[m] # k => place'[m] = place[m]
    BY <1>6, <1>7
  <2> QED
    BY <1>5, <2>1, <2>2, OneSession
<1>9. Boxes'[k] = <<>>
  BY <1>2, <1>4, <1>5, OtherQueues DEF IInv, Boxes
<1>10. Batches'[k] = Batches[k] \cup Drained(c)
  <2>1. At(k, "taken")' = At(k, "taken") \cup Drained(c)
    BY <1>5, <1>6, <1>7 DEF At
  <2> QED
    BY <2>1 DEF Batches
<1>11. Servings'[k] = Servings[k]
  BY <1>5, <1>6, <1>7 DEF Servings, At
<1>12. Seen' = Seen /\ Wiped' = Wiped
  BY <1>5, <1>6, <1>7, SeenStays DEF Delivered
<1>13. Servings' = Servings
  BY <1>8, <1>11 DEF Servings
<1>14. Mailbox!Waiting(k) = Drained(c)
  BY <1>2, HeldSet DEF IInv, Mailbox!Waiting
<1> QED
  BY <1>2, <1>3, <1>8, <1>9, <1>10, <1>12, <1>13, <1>14 DEF Mailbox!Gather

(* A consumer hands its batch on: the batch becomes what is served, or is  *)
(* dropped.                                                                *)
LEMMA BatchHandedOn ==
  ASSUME IInv, Up, Up', NEW c \in Queues, consumer[c] = "preparing",
         NEW k \in Busy, owner[c] = k,
         NEW p \in {"running", "absorbed"}, Move(Batch(c), p),
         UNCHANGED <<keyOf, registered, queue>>
  PROVE  /\ Batches[k] # {} /\ Batches' = [Batches EXCEPT ![k] = {}]
         /\ Seen' = Seen /\ Wiped' = Wiped /\ Boxes' = Boxes
         /\ Servings' = IF p = "running" THEN [Servings EXCEPT ![k] = Batches[k]]
                        ELSE Servings
<1>1. Live(c) /\ consumer[c] # "streaming"
  BY DEF Live
<1>2. Batches[k] = Batch(c) /\ Servings[k] = {}
  BY <1>1, BusyConsumer
<1>3. Batch(c) # {}
  BY DEF IInv, BatchesInv, Gathering
<1>4. \A m \in Messages : place'[m] = IF m \in Batch(c) THEN p ELSE place[m]
  BY DEF Move
<1>5. \A m \in Batch(c) : m \in Messages /\ keyOf[m] = k /\ place[m] = "taken"
  BY <1>2 DEF Batches, At
<1>6. /\ Batches' = [Batches EXCEPT ![k] = Batches'[k]]
      /\ Servings' = [Servings EXCEPT ![k] = Servings'[k]]
  <2>1. \A m \in Messages : keyOf[m] # k => place'[m] = place[m]
    BY <1>4, <1>5
  <2> QED
    BY <2>1, OneSession
<1>7. Boxes' = Boxes
  BY DEF Boxes
<1>8. Batches'[k] = {}
  <2>1. At(k, "taken") = Batch(c)
    BY <1>2 DEF Batches
  <2>2. At(k, "taken")' = {}
    BY <1>4, <2>1 DEF At
  <2> QED
    BY <2>2 DEF Batches
<1>9. Servings'[k] = IF p = "running" THEN Batches[k] ELSE Servings[k]
  <2>1. At(k, "running") = {}
    BY <1>2 DEF Servings
  <2>2. At(k, "running")' = IF p = "running" THEN Batch(c) ELSE {}
    BY <1>4, <1>5, <2>1 DEF At
  <2>3. Servings'[k] = At(k, "running")'
    BY DEF Servings
  <2> QED
    BY <1>2, <2>2, <2>3
<1>10. Seen' = Seen /\ Wiped' = Wiped
  BY <1>4, <1>5, SeenStays DEF Delivered
<1>11. Servings' = IF p = "running" THEN [Servings EXCEPT ![k] = Batches[k]] ELSE Servings
  <2>1. Servings = [Servings EXCEPT ![k] = Servings[k]]
    BY DEF Servings
  <2> QED
    BY <1>6, <1>9, <2>1
<1> QED
  BY <1>2, <1>3, <1>6, <1>7, <1>8, <1>10, <1>11

LEMMA DispatchServes ==
  ASSUME IInv, Up, Up', NEW c \in Queues, Dispatch(c), NEW k \in Busy, owner[c] = k
  PROVE  Mailbox!Serve(k)
<1>1. consumer[c] = "preparing" /\ Live(c) /\ UNCHANGED <<keyOf, registered, queue>>
  BY DEF Dispatch, Live
<1>2. run[k] = None
  BY <1>1, BusyConsumer
<1>3. Move(Batch(c), "running")
  BY <1>2 DEF Dispatch
<1>4. /\ Batches[k] # {} /\ Batches' = [Batches EXCEPT ![k] = {}]
      /\ Seen' = Seen /\ Wiped' = Wiped /\ Boxes' = Boxes
      /\ Servings' = [Servings EXCEPT ![k] = Batches[k]]
  BY <1>1, <1>3, BatchHandedOn
<1> QED
  BY <1>4 DEF Mailbox!Serve

LEMMA AbsorbDrops ==
  ASSUME IInv, Up, Up', NEW c \in Queues, Absorb(c), NEW k \in Busy, owner[c] = k
  PROVE  Mailbox!Drop(k)
<1>1. /\ consumer[c] = "preparing" /\ UNCHANGED <<keyOf, registered, queue>>
      /\ Move(Batch(c), "absorbed")
  BY DEF Absorb
<1>2. /\ Batches[k] # {} /\ Batches' = [Batches EXCEPT ![k] = {}]
      /\ Seen' = Seen /\ Wiped' = Wiped /\ Boxes' = Boxes /\ Servings' = Servings
  BY <1>1, BatchHandedOn
<1> QED
  BY <1>2 DEF Mailbox!Drop

(* The agent run of a session ends; a run of which no message remains is   *)
(* not seen in its mailbox.                                                *)
LEMMA RunEndFinishes ==
  ASSUME IInv, Up, Up', NEW k \in Busy, RunEnds(k)
  PROVE  Mailbox!Finish(k) \/ UNCHANGED MailboxVars
<1>1. UNCHANGED <<keyOf, registered, queue>>
  BY DEF RunEnds, queueVars
<1>2. \A m \in Messages :
        place'[m] = IF place[m] = "running" /\ keyOf[m] = k THEN "done" ELSE place[m]
  BY DEF RunEnds, Move
<1>3. Servings' = [Servings EXCEPT ![k] = Servings'[k]]
  BY <1>1, <1>2, OneSession
<1>4. Boxes' = Boxes
  BY <1>1 DEF Boxes
<1>5. Batches' = Batches
  <2>1. \A j \in Busy : At(j, "taken")' = At(j, "taken")
    BY <1>1, <1>2 DEF At
  <2> QED
    BY <2>1 DEF Batches
<1>6. Servings'[k] = {}
  <2>1. At(k, "running")' = {}
    BY <1>1, <1>2 DEF At
  <2> QED
    BY <2>1 DEF Servings
<1>7. Seen' = Seen /\ Wiped' = Wiped
  BY <1>1, <1>2, SeenStays DEF Delivered
<1>8. CASE Servings[k] = {}
  <2>1. Servings' = Servings
    BY <1>3, <1>6, <1>8 DEF Servings
  <2> QED
    BY <1>4, <1>5, <1>7, <2>1 DEF MailboxVars
<1>9. CASE Servings[k] # {}
  BY <1>3, <1>4, <1>5, <1>6, <1>7, <1>9 DEF Mailbox!Finish
<1> QED
  BY <1>8, <1>9

(* A message is put in the queue it was routed to, that of its session.    *)
LEMMA PutDelivers ==
  ASSUME IInv, Up, Up', NEW m \in Messages, Put(m), NEW k \in Busy, keyOf[m] = k
  PROVE  Mailbox!Deliver(k, m)
<1>1. target[m] # None
  BY DEF Put, IInv, QueuesInv, RoutedHasQueue
<1>2. registered[k] = target[m]
  BY <1>1 DEF IInv, TargetsInv, Busy
<1>3. target[m] \in Queues /\ registered[k] \in Queues /\ owner[registered[k]] = k
  BY <1>1, <1>2, RegisteredQueue DEF IInv, OwnersInv, Busy
<1>c. PICK c \in Queues : c = registered[k] /\ owner[c] = k
  BY <1>3
<1>4. /\ queue' = [queue EXCEPT ![c] = Append(queue[c], m)]
      /\ place' = [place EXCEPT ![m] = "queued"] /\ place[m] = "routed"
      /\ UNCHANGED <<keyOf, registered>>
  BY <1>2, <1>c DEF Put
<1>5. \A n \in Messages : place'[n] = IF n = m THEN "queued" ELSE place[n]
  BY <1>4 DEF IInv, TypeInv, TypeOK
<1>6. Boxes' = [Boxes EXCEPT ![k] = Boxes'[k]]
  <2>1. \A j \in Busy \ {k} : registered[j] # None => queue'[registered[j]] = queue[registered[j]]
    <3>1. \A j \in Keys : j # owner[c] /\ registered[j] # None =>
            queue'[registered[j]] = queue[registered[j]]
      BY <1>4, OtherQueues DEF IInv
    <3> QED
      BY <1>c, <3>1 DEF Busy
  <2> QED
    BY <1>4, <1>5, <2>1, OneSession
<1>7. Boxes'[k] = Append(Boxes[k], m)
  <2>1. queue'[c] = Append(queue[c], m)
    BY <1>4, OtherQueues DEF IInv
  <2> QED
    BY <1>1, <1>2, <1>4, <1>c, <2>1 DEF Boxes
<1>8. Batches' = Batches /\ Servings' = Servings
  <2>1. \A j \in Busy : /\ At(j, "taken")' = At(j, "taken")
                        /\ At(j, "running")' = At(j, "running")
    BY <1>4, <1>5 DEF At
  <2> QED
    BY <2>1 DEF Batches, Servings
<1>9. m \notin Seen /\ Seen' = Seen \cup {m} /\ Wiped' = Wiped
  BY <1>4, <1>5 DEF Seen, Wiped, Delivered
<1> QED
  BY <1>6, <1>7, <1>8, <1>9 DEF Mailbox!Deliver

(* What /stop clears is the mailbox.                                       *)
LEMMA ClearQueueClears ==
  ASSUME IInv, Up, Up', NEW k \in Busy, ClearQueue(k)
  PROVE  Mailbox!Clear(k)
<1>1. registered[k] # None
  BY DEF ClearQueue
<1>2. registered[k] \in Queues /\ owner[registered[k]] = k
  BY <1>1, RegisteredQueue DEF IInv, OwnersInv, Busy
<1>3. PICK c \in Queues : c = registered[k]
  BY <1>2
<1>4. /\ queue' = [queue EXCEPT ![c] = <<>>] /\ queue[c] # <<>>
      /\ Move(Cleared(c), "cleared") /\ UNCHANGED <<keyOf, registered>>
  BY <1>3 DEF ClearQueue
<1>5. \A m \in Messages : place'[m] = IF m \in Cleared(c) THEN "cleared" ELSE place[m]
  BY <1>4 DEF Move
<1>6. \A m \in Cleared(c) : m \in Messages /\ keyOf[m] = k /\ place[m] = "queued"
  BY <1>1, <1>2, <1>3 DEF Cleared, IInv, OwnersInv
<1>7. Boxes' = [Boxes EXCEPT ![k] = Boxes'[k]]
  <2>1. \A j \in Busy \ {k} : registered[j] # None => queue'[registered[j]] = queue[registered[j]]
    <3>1. \A j \in Keys : j # owner[c] /\ registered[j] # None =>
            queue'[registered[j]] = queue[registered[j]]
      BY <1>4, OtherQueues DEF IInv
    <3> QED
      BY <1>2, <1>3, <3>1 DEF Busy
  <2>2. \A m \in Messages : keyOf[m] # k => place'[m] = place[m]
    BY <1>5, <1>6
  <2> QED
    BY <1>4, <2>1, <2>2, OneSession
<1>8. Boxes'[k] = <<>> /\ Boxes[k] # <<>>
  BY <1>1, <1>3, <1>4, OtherQueues DEF IInv, Boxes
<1>9. Batches' = Batches /\ Servings' = Servings
  <2>1. \A j \in Busy : /\ At(j, "taken")' = At(j, "taken")
                        /\ At(j, "running")' = At(j, "running")
    BY <1>4, <1>5, <1>6 DEF At
  <2> QED
    BY <2>1 DEF Batches, Servings
<1>10. Seen' = Seen
  BY <1>4, <1>5, <1>6 DEF Seen, Delivered
<1>11. Wiped' = Wiped \cup Drained(c)
  <2>1. Cleared(c) = Drained(c)
    BY DEF Cleared, Drained
  <2>2. \A m \in Messages : keyOf'[m] = keyOf[m]
    BY <1>4
  <2> QED
    BY <1>5, <1>6, <2>1, <2>2 DEF Wiped
<1>12. Mailbox!Waiting(k) = Drained(c)
  <2>1. Boxes[k] = queue[c]
    BY <1>1, <1>3 DEF Boxes
  <2> QED
    BY <2>1, HeldSet DEF IInv, Mailbox!Waiting
<1> QED
  BY <1>7, <1>8, <1>9, <1>10, <1>11, <1>12 DEF Mailbox!Clear

(* Looking a queue up, or making an empty one, changes no mailbox: the     *)
(* message is not delivered yet.                                           *)
LEMMA RouteStutters ==
  ASSUME IInv, Up, Up', NEW k \in Keys, Route(k)
  PROVE  UNCHANGED MailboxVars
<1> DEFINE new == arrived + 1
<1>1. place[new] = "none"
  BY RouteArrives DEF IInv, QueuesInv, RoutedHasQueue, TypeInv, TypeOK
<1>2. /\ new \in Messages /\ place'[new] = "routed"
      /\ \A m \in Messages \ {new} : keyOf'[m] = keyOf[m] /\ place'[m] = place[m]
  BY RouteArrives DEF IInv
<1> HIDE DEF new
<1>3. Batches' = Batches /\ Servings' = Servings
  <2>1. \A j \in Busy : /\ At(j, "taken")' = At(j, "taken")
                        /\ At(j, "running")' = At(j, "running")
    BY <1>1, <1>2 DEF At
  <2> QED
    BY <2>1 DEF Batches, Servings
<1>4. Seen' = Seen /\ Wiped' = Wiped
  BY <1>1, <1>2 DEF Seen, Wiped, Delivered
<1>5. queue' = queue
  BY DEF Route
<1>6. CASE registered[k] # None
  <2>1. registered' = registered
    BY <1>6 DEF Route
  <2> QED
    BY <1>3, <1>4, <1>5, <2>1 DEF MailboxVars, Boxes
<1>7. CASE registered[k] = None
  <2>1. /\ made + 1 \in Queues /\ registered'[k] = made + 1
        /\ \A j \in Keys \ {k} : registered'[j] = registered[j]
    BY <1>7, RouteMakes DEF IInv
  <2>2. queue[made + 1] = <<>>
    <3>1. queue[made + 1] \in Seq(Messages)
      BY <2>1 DEF IInv, TypeInv, TypeOK
    <3>2. ASSUME NEW i \in 1..Len(queue[made + 1]) PROVE FALSE
      <4>1. queue[made + 1][i] \in Messages
        BY <3>1
      <4>2. target[queue[made + 1][i]] = made + 1
        BY <2>1 DEF IInv, QueuesInv, HeldIsQueued
      <4>3. target[queue[made + 1][i]] \in 0..made /\ made \in Nat
        BY <4>1 DEF IInv, TypeInv, TypeOK
      <4> QED
        BY <4>2, <4>3
    <3> QED
      BY <3>1, <3>2
  <2>3. made + 1 # None
    BY DEF IInv, TypeInv, TypeOK, None
  <2>4. Boxes' = Boxes
    <3> SUFFICES ASSUME NEW j \in Busy
                 PROVE  (IF registered'[j] # None THEN queue[registered'[j]] ELSE <<>>)
                          = (IF registered[j] # None THEN queue[registered[j]] ELSE <<>>)
      BY <1>5 DEF Boxes
    <3>1. CASE j = k
      BY <1>7, <2>1, <2>2, <2>3, <3>1
    <3>2. CASE j # k
      BY <2>1, <3>2 DEF Busy
    <3> QED
      BY <3>1, <3>2
  <2> QED
    BY <1>3, <1>4, <2>4 DEF MailboxVars
<1> QED
  BY <1>6, <1>7

(* The steps of a session that is idle for long, while the manager is up.  *)
LEMMA QuietStutters ==
  ASSUME IInv, Up, Up', [Next]_vars, \A k \in Keys : ~Route(k),
         NEW c \in Queues, owner[c] \in Quiet,
         NEW q, queue' = queue \/ queue' = [queue EXCEPT ![c] = q],
         \A m \in Messages : place'[m] = place[m] \/ keyOf[m] = owner[c]
  PROVE  UNCHANGED MailboxVars
<1>1. \A j \in Busy : registered'[j] = registered[j]
  BY BusyKept DEF IInv, Busy, Up
<1>2. \A j \in Busy : registered[j] # None => queue'[registered[j]] = queue[registered[j]]
  <2>1. CASE queue' = [queue EXCEPT ![c] = q]
    <3>1. \A j \in Keys : j # owner[c] /\ registered[j] # None =>
            queue'[registered[j]] = queue[registered[j]]
      BY <2>1, OtherQueues DEF IInv
    <3> QED
      BY <3>1 DEF Busy
  <2> QED
    BY <2>1
<1>3. keyOf' = keyOf
  BY NotRouted DEF IInv
<1> QED
  BY <1>1, <1>2, <1>3, NoSession DEF Busy

(* Steps that leave the queues and the messages that were delivered.       *)
LEMMA OthersStutter ==
  ASSUME IInv, Up, Up', [Next]_vars, \A k \in Keys : ~Route(k), queue' = queue,
         \A m \in Messages :
           place'[m] = place[m] \/ {place[m], place'[m]} \cap Delivered = {}
  PROVE  UNCHANGED MailboxVars
<1>1. \A j \in Busy : registered'[j] = registered[j]
  BY BusyKept DEF IInv, Busy, Up
<1>2. keyOf' = keyOf
  BY NotRouted DEF IInv
<1> QED
  BY <1>1, <1>2, NoSession

(* A consumer moves messages of its own key only, and touches its own      *)
(* queue.                                                                  *)
LEMMA ConsumerMoves ==
  ASSUME IInv, NEW c \in Queues, ConsumerStep(c)
  PROVE  /\ \E q : queue' = queue \/ queue' = [queue EXCEPT ![c] = q]
         /\ \A m \in Messages : place'[m] = place[m] \/ keyOf[m] = owner[c]
<1>0. c # None
  BY DEF Queues, None
<1>1. \A m \in Messages : target[m] = c => keyOf[m] = owner[c]
  BY <1>0 DEF IInv, OwnersInv
<1>2. \A m \in Batch(c) \cup Drained(c) : target[m] = c
  BY DEF Batch, Drained
<1>3. \A S, p : Move(S, p) => \A m \in Messages : place'[m] = place[m] \/ m \in S
  BY DEF Move
<1>4. CASE Take(c)
  <2> DEFINE h == Head(queue[c])
  <2>1. h \in Messages /\ target[h] = c
    <3>1. h = queue[c][1] /\ 1 \in 1..Len(queue[c]) /\ h \in Messages
      BY <1>4 DEF IInv, TypeInv, TypeOK, Take
    <3> QED
      BY <3>1 DEF IInv, QueuesInv, HeldIsQueued
  <2>2. place' = [place EXCEPT ![h] = "taken"] /\ queue' = [queue EXCEPT ![c] = Tail(queue[c])]
    BY <1>4 DEF Take
  <2> HIDE DEF h
  <2>3. \A m \in Messages : place'[m] = place[m] \/ m = h
    BY <2>2 DEF IInv, TypeInv, TypeOK
  <2> QED
    BY <1>1, <2>1, <2>2, <2>3
<1>5. CASE Drain(c)
  <2>1. Move(Drained(c), "taken") /\ queue' = [queue EXCEPT ![c] = <<>>]
    BY <1>5 DEF Drain
  <2> QED
    BY <1>1, <1>2, <1>3, <2>1
<1>6. CASE Dispatch(c) \/ Absorb(c) \/ CancelArrives(c)
  <2>1. queue' = queue /\ (place' = place \/ \E p : Move(Batch(c), p))
    BY <1>6 DEF Dispatch, Absorb, CancelArrives
  <2> QED
    BY <1>1, <1>2, <1>3, <2>1
<1>7. CASE ConsumerStarts(c) \/ StreamEnds(c)
  BY <1>7 DEF ConsumerStarts, StreamEnds, messageVars, queueVars
<1> QED
  BY <1>4, <1>5, <1>6, <1>7 DEF ConsumerStep

LEMMA ConsumerMaps ==
  ASSUME IInv, Up, Up', [Next]_vars, \A k \in Keys : ~Route(k),
         NEW c \in Queues, ConsumerStep(c)
  PROVE  (\E k \in Busy : Mailbox!SessionStep(k)) \/ UNCHANGED MailboxVars
<1>1. owner[c] \in Keys
  BY DEF IInv, TypeInv, TypeOK
<1>2. CASE owner[c] \in Quiet
  <2>1. PICK q : queue' = queue \/ queue' = [queue EXCEPT ![c] = q]
    BY ConsumerMoves
  <2>2. \A m \in Messages : place'[m] = place[m] \/ keyOf[m] = owner[c]
    BY ConsumerMoves
  <2> QED
    BY <1>2, <2>1, <2>2, QuietStutters
<1>3. CASE owner[c] \notin Quiet
  <2>1. PICK k \in Busy : owner[c] = k
    BY <1>1, <1>3 DEF Busy
  <2>2. ~CancelArrives(c)
    BY <1>3 DEF CancelArrives, IInv, BusyInv, Up
  <2>3. CASE ConsumerStarts(c) \/ StreamEnds(c)
    <3>1. queue' = queue /\ place' = place
      BY <2>3 DEF ConsumerStarts, StreamEnds, messageVars, queueVars
    <3> QED
      BY <3>1, OthersStutter
  <2>4. CASE Take(c)
    BY <2>1, <2>4, TakePicks DEF Mailbox!SessionStep
  <2>5. CASE Drain(c)
    BY <2>1, <2>5, DrainGathers DEF Mailbox!SessionStep
  <2>6. CASE Dispatch(c)
    BY <2>1, <2>6, DispatchServes DEF Mailbox!SessionStep
  <2>7. CASE Absorb(c)
    BY <2>1, <2>7, AbsorbDrops DEF Mailbox!SessionStep
  <2> QED
    BY <2>2, <2>3, <2>4, <2>5, <2>6, <2>7 DEF ConsumerStep
<1> QED
  BY <1>2, <1>3

LEMMA RunEndMaps ==
  ASSUME IInv, Up, Up', [Next]_vars, \A k \in Keys : ~Route(k),
         NEW k \in Keys, RunEnds(k)
  PROVE  (\E j \in Busy : Mailbox!SessionStep(j)) \/ UNCHANGED MailboxVars
<1>1. CASE k \in Busy
  BY <1>1, RunEndFinishes DEF Mailbox!SessionStep
<1>2. CASE k \notin Busy
  <2>1. queue' = queue /\ keyOf' = keyOf /\ registered' = registered
    BY DEF RunEnds, queueVars
  <2>2. \A m \in Messages : place'[m] = place[m] \/ keyOf[m] = k
    BY DEF RunEnds, Move
  <2> QED
    BY <1>2, <2>1, <2>2, NoSession
<1> QED
  BY <1>1, <1>2

LEMMA ClearMaps ==
  ASSUME IInv, Up, Up', [Next]_vars, \A k \in Keys : ~Route(k),
         NEW k \in Keys, ClearQueue(k)
  PROVE  (\E j \in Busy : Mailbox!SessionStep(j)) \/ UNCHANGED MailboxVars
<1>1. CASE k \in Busy
  BY <1>1, ClearQueueClears DEF Mailbox!SessionStep
<1>2. CASE k \notin Busy
  <2>1. registered[k] # None
    BY DEF ClearQueue
  <2>2. PICK c \in Queues : c = registered[k] /\ owner[c] = k
    BY <2>1, RegisteredQueue DEF IInv, OwnersInv
  <2>3. queue' = [queue EXCEPT ![c] = <<>>] /\ Move(Cleared(c), "cleared")
    BY <2>2 DEF ClearQueue
  <2>4. \A m \in Messages : place'[m] = place[m] \/ keyOf[m] = owner[c]
    BY <2>1, <2>2, <2>3 DEF Move, Cleared, IInv, OwnersInv
  <2> QED
    BY <1>2, <2>2, <2>3, <2>4, QuietStutters DEF Busy
<1> QED
  BY <1>1, <1>2

LEMMA PutMaps ==
  ASSUME IInv, Up, Up', [Next]_vars, \A k \in Keys : ~Route(k),
         NEW m \in Messages, Put(m)
  PROVE  (\E j \in Busy : Mailbox!SessionStep(j)) \/ UNCHANGED MailboxVars
<1>1. PICK k \in Keys : keyOf[m] = k
  BY DEF IInv, TypeInv, TypeOK
<1>2. CASE k \in Busy
  BY <1>1, <1>2, PutDelivers DEF Mailbox!SessionStep
<1>3. CASE k \notin Busy
  <2>1. target[m] # None /\ target[m] \in Queues
    BY QueuedTarget DEF Put, IInv, QueuesInv, RoutedHasQueue
  <2>2. PICK c \in Queues : c = target[m] /\ owner[c] = k
    BY <1>1, <2>1 DEF IInv, OwnersInv
  <2>3. queue' = [queue EXCEPT ![c] = Append(queue[c], m)] /\ place' = [place EXCEPT ![m] = "queued"]
    BY <2>2 DEF Put
  <2>4. \A n \in Messages : place'[n] = place[n] \/ keyOf[n] = owner[c]
    BY <1>1, <2>2, <2>3 DEF IInv, TypeInv, TypeOK
  <2> QED
    BY <1>3, <2>2, <2>3, <2>4, QuietStutters DEF Busy
<1> QED
  BY <1>2, <1>3

(* Every step is one of a mailbox, or is not seen there.                   *)
LEMMA MailboxStep ==
  ASSUME IInv, [Next]_vars
  PROVE  Mailbox!Next \/ UNCHANGED MailboxVars
<1>1. CASE ~Up
  <2>1. ~Up'
    BY <1>1, UpStays DEF Up
  <2> QED
    BY <1>1, <2>1 DEF MailboxVars, Seen, Wiped, Boxes, Batches, Servings, Up
<1>2. CASE Up /\ ~Up'
  <2>1. /\ Seen' = {} /\ Wiped' = {} /\ Boxes' = [k \in Busy |-> <<>>]
        /\ Batches' = [k \in Busy |-> {}] /\ Servings' = [k \in Busy |-> {}]
    BY <1>2 DEF Seen, Wiped, Boxes, Batches, Servings
  <2>2. Up' = FALSE
    BY <1>2 DEF Up
  <2> QED
    BY <1>2, <2>1, <2>2 DEF Mailbox!Next, Mailbox!Close
<1>3. CASE Up /\ Up' /\ \E k \in Keys : Route(k)
  BY <1>3, RouteStutters
<1>4. CASE Up /\ Up' /\ \A k \in Keys : ~Route(k)
  <2> SUFFICES (\E j \in Busy : Mailbox!SessionStep(j)) \/ UNCHANGED MailboxVars
    BY <1>4 DEF Mailbox!Next
  <2>1. ~StopStep
    BY <1>4, UpStays DEF Up
  <2>2. ASSUME NEW k \in Keys, RunEnds(k) \/ ClearQueue(k)
        PROVE  (\E j \in Busy : Mailbox!SessionStep(j)) \/ UNCHANGED MailboxVars
    BY <1>4, <2>2, RunEndMaps, ClearMaps
  <2>3. ASSUME NEW m \in Messages, Put(m)
        PROVE  (\E j \in Busy : Mailbox!SessionStep(j)) \/ UNCHANGED MailboxVars
    BY <1>4, <2>3, PutMaps
  <2>4. ASSUME NEW m \in Messages, PutTimesOut(m)
        PROVE  UNCHANGED MailboxVars
    <3>1. queue' = queue
      BY <2>4 DEF PutTimesOut, queueVars
    <3>2. place' = [place EXCEPT ![m] = "lost"] /\ place[m] = "routed"
      BY <2>4 DEF PutTimesOut
    <3>3. \A n \in Messages : place'[n] = place[n] \/ {place[n], place'[n]} \cap Delivered = {}
      BY <3>2 DEF IInv, TypeInv, TypeOK, Delivered
    <3> QED
      BY <1>4, <3>1, <3>3, OthersStutter
  <2>5. ASSUME NEW c \in Queues, ConsumerStep(c)
        PROVE  (\E j \in Busy : Mailbox!SessionStep(j)) \/ UNCHANGED MailboxVars
    BY <1>4, <2>5, ConsumerMaps
  <2>6. CASE (\E c \in Queues : GrowIdle(c)) \/ Wake \/ Joined \/ UNCHANGED vars
    <3>1. queue' = queue /\ place' = place
      BY <2>6 DEF GrowIdle, Wake, Joined, messageVars, vars
    <3> QED
      BY <1>4, <3>1, OthersStutter
  <2> QED
    BY <1>4, <2>1, <2>2, <2>3, <2>4, <2>5, <2>6 DEF Next
<1> QED
  BY <1>1, <1>2, <1>3, <1>4

(* However queues are made, swept, cancelled and cleared around it, a      *)
(* session that is never idle for long has one mailbox until the shutdown: *)
(* its messages are delivered once, taken in order unless the user clears  *)
(* them, and served one batch at a time (UnifiedQueueManager and the       *)
(* consumers of ChannelManager).                                           *)
THEOREM QueuesImplementMailbox == Spec => ImplementsMailbox
<1>1. Init => Mailbox!Init
  <2> SUFFICES ASSUME Init PROVE Mailbox!Init
    OBVIOUS
  <2>1. \A m \in Messages : place[m] = "none"
    BY DEF Init
  <2>2. Up = TRUE
    BY DEF Init, Up
  <2>3. Seen = {} /\ Wiped = {}
    BY <2>1 DEF Seen, Wiped, Delivered
  <2>4. Boxes = [k \in Busy |-> <<>>]
    <3>1. \A k \in Busy : registered[k] = None
      BY DEF Init, Busy
    <3> QED
      BY <3>1 DEF Boxes
  <2>5. \A k \in Busy : At(k, "taken") = {} /\ At(k, "running") = {}
    BY <2>1 DEF At
  <2>6. Batches = [k \in Busy |-> {}] /\ Servings = [k \in Busy |-> {}]
    BY <2>5 DEF Batches, Servings
  <2> QED
    BY <2>2, <2>3, <2>4, <2>6 DEF Mailbox!Init
<1>2. IInv /\ [Next]_vars => [Mailbox!Next]_(Mailbox!vars)
  BY MailboxStep DEF MailboxVars, Mailbox!vars
<1> QED
  BY <1>1, <1>2, InvariantHolds, PTL DEF Spec, ImplementsMailbox, Mailbox!Spec
=============================================================================
