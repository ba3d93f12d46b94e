----------------------------- MODULE SessionQueue -----------------------------
(***************************************************************************)
(* The message queues between the chat channels and the agent: one queue   *)
(* and one consumer task per session, made on demand and swept when idle.  *)
(* UnifiedQueueManager (app/channels/unified_queue_manager.py), the part   *)
(* of ChannelManager that feeds and drains it (app/channels/manager.py)    *)
(* and the way a channel hands a batch to the TaskTracker                  *)
(* (app/channels/base.py).  Keys are those of ordinary messages, priority  *)
(* 20; commands have queues of their own and bypass the tracker.           *)
(*                                                                         *)
(* The lock of the queue manager is never held across an await, so each    *)
(* action is the code between two suspensions.                             *)
(***************************************************************************)
EXTENDS Naturals, Sequences, FiniteSets

CONSTANTS
  Keys,         \* QueueKeys
  Capacity,     \* queue_maxsize
  MaxMessages,  \* bound: messages that arrive
  MaxQueues,    \* bound: queues created
  Quiet         \* keys that may see no activity for longer than idle_timeout

ASSUME ConstantsAssumption ==
  /\ Keys # {}
  /\ Capacity \in Nat \ {0}
  /\ MaxMessages \in Nat
  /\ MaxQueues \in Nat
  /\ Quiet \subseteq Keys

Messages == 1..MaxMessages
Queues == 1..MaxQueues
None == 0

VARIABLES
  arrived,    \* number of messages that arrived
  keyOf,      \* keyOf[m]: the QueueKey of message m
  place,      \* place[m]: where message m is
  target,     \* target[m]: the queue that the enqueue task of m looked up
  made,       \* number of queues made; a QueueState is named by its rank
  registered, \* registered[k]: UnifiedQueueManager._queues[k], or None
  owner,      \* owner[c]: the key queue c was made for
  queue,      \* queue[c]: contents of the asyncio.Queue
  consumer,   \* consumer[c]: where the consumer task of c stands
  cancelled,  \* consumers with a cancellation not yet delivered
  idle,       \* queues without activity for longer than idle_timeout
  run,        \* run[k]: the consumer that started the agent run of chat k
  sweep,      \* the cleanup loop: keys still to sweep, consumer it awaits
  manager     \* how far ChannelManager.stop_all has come

messageVars == <<arrived, keyOf, place, target>>
queueVars == <<made, registered, owner, queue, idle>>
vars == <<arrived, keyOf, place, target, made, registered, owner, queue,
          consumer, cancelled, idle, run, sweep, manager>>

Place == {"none", "routed", "queued", "taken", "running",
          "done", "absorbed", "ignored", "cleared", "lost"}
Consumer == {"none", "created", "waiting", "fetching", "preparing",
            "streaming", "stopped"}
Sleeping == [todo |-> {}, joining |-> None]

Live(c) == consumer[c] \notin {"none", "stopped"}

(* The messages S move to place p.                                         *)
Move(S, p) == place' = [m \in Messages |-> IF m \in S THEN p ELSE place[m]]
-----------------------------------------------------------------------------
Init ==
  /\ arrived = 0
  /\ keyOf = [m \in Messages |-> CHOOSE k \in Keys : TRUE]
  /\ place = [m \in Messages |-> "none"]
  /\ target = [m \in Messages |-> None]
  /\ made = 0
  /\ registered = [k \in Keys |-> None]
  /\ owner = [c \in Queues |-> CHOOSE k \in Keys : TRUE]
  /\ queue = [c \in Queues |-> <<>>]
  /\ consumer = [c \in Queues |-> "none"]
  /\ cancelled = {}
  /\ idle = {}
  /\ run = [k \in Keys |-> None]
  /\ sweep = Sleeping
  /\ manager = "up"

(***************************************************************************)
(* A message arrives and its enqueue task looks its queue up or makes one. *)
(* Variant: the queue is not registered.                                   *)
(***************************************************************************)
RegisterNot(k, c) == registered

Register(k, c) == [registered EXCEPT ![k] = c]

Route(k) ==
  LET m == arrived + 1
      new == made + 1
  IN /\ arrived < MaxMessages
     /\ manager # "down"
     /\ arrived' = m
     /\ keyOf' = [keyOf EXCEPT ![m] = k]
     /\ place' = [place EXCEPT ![m] = "routed"]
     /\ IF registered[k] # None
        THEN /\ target' = [target EXCEPT ![m] = registered[k]]
             /\ idle' = idle \ {registered[k]}
             /\ UNCHANGED <<made, registered, owner, consumer>>
        ELSE /\ made < MaxQueues
             /\ made' = new
             /\ registered' = Register(k, new)
             /\ owner' = [owner EXCEPT ![new] = k]
             /\ consumer' = [consumer EXCEPT ![new] = "created"]
             /\ target' = [target EXCEPT ![m] = new]
             /\ UNCHANGED idle
     /\ UNCHANGED <<queue, cancelled, run, sweep, manager>>

(* queue.put, which wait_for runs in a later step (Python 3.10 and 3.11)   *)
(* or delays while the queue is full; after 30 s it gives the message up.  *)
Put(m) ==
  /\ place[m] = "routed"
  /\ Len(queue[target[m]]) < Capacity
  /\ queue' = [queue EXCEPT ![target[m]] = Append(@, m)]
  /\ place' = [place EXCEPT ![m] = "queued"]
  /\ UNCHANGED <<arrived, keyOf, target, made, registered, owner, consumer,
                 cancelled, idle, run, sweep, manager>>

PutTimesOut(m) ==
  /\ place[m] = "routed"
  /\ Len(queue[target[m]]) >= Capacity
  /\ place' = [place EXCEPT ![m] = "lost"]
  /\ UNCHANGED <<arrived, keyOf, target, queueVars, consumer, cancelled, run,
                 sweep, manager>>
-----------------------------------------------------------------------------
(* The consumer of queue c.                                                *)

Goes(c, state) == consumer' = [consumer EXCEPT ![c] = state]

ConsumerStarts(c) ==
  /\ consumer[c] = "created" /\ c \notin cancelled
  /\ Goes(c, "waiting")
  /\ UNCHANGED <<messageVars, queueVars, cancelled, run, sweep, manager>>

(* The first payload is taken; get_channel may have to wait for the lock   *)
(* that replace_channel holds while the old channel stops.                 *)
Take(c) ==
  /\ consumer[c] = "waiting" /\ c \notin cancelled
  /\ queue[c] # <<>>
  /\ place' = [place EXCEPT ![Head(queue[c])] = "taken"]
  /\ queue' = [queue EXCEPT ![c] = Tail(@)]
  /\ Goes(c, "fetching")
  /\ UNCHANGED <<arrived, keyOf, target, made, registered, owner, cancelled,
                 idle, run, sweep, manager>>

(* The rest of the queue is drained and merged into the batch; the variant *)
(* drains without merging.                                                 *)
Batch(c) == {m \in Messages : place[m] = "taken" /\ target[m] = c}

DrainedNone(c) == {}

Drained(c) == {m \in Messages : place[m] = "queued" /\ target[m] = c}

Drain(c) ==
  /\ consumer[c] = "fetching" /\ c \notin cancelled
  /\ queue' = [queue EXCEPT ![c] = <<>>]
  /\ Move(Drained(c), "taken")
  /\ Goes(c, "preparing")
  /\ UNCHANGED <<arrived, keyOf, target, made, registered, owner, cancelled,
                 idle, run, sweep, manager>>

(* increment_processed counts for whatever queue is registered.            *)
Refreshed(k) == idle \ {registered[k]}

(* The batch is handed to attach_or_start: it starts the run of the chat,  *)
(* or is ignored if one is active.                                         *)
Dispatch(c) ==
  LET k == owner[c] IN
  /\ consumer[c] = "preparing" /\ c \notin cancelled
  /\ IF run[k] = None
     THEN /\ Move(Batch(c), "running")
          /\ run' = [run EXCEPT ![k] = c]
          /\ Goes(c, "streaming")
          /\ UNCHANGED idle
     ELSE /\ Move(Batch(c), "ignored")
          /\ Goes(c, "waiting")
          /\ idle' = Refreshed(k)
          /\ UNCHANGED run
  /\ UNCHANGED <<arrived, keyOf, target, made, registered, owner, queue,
                 cancelled, sweep, manager>>

(* No run is made of the batch: it has no text and is kept for the next    *)
(* message, access control answers it, or it fails (and is not counted).   *)
Absorb(c) ==
  /\ consumer[c] = "preparing" /\ c \notin cancelled
  /\ Move(Batch(c), "absorbed")
  /\ Goes(c, "waiting")
  /\ idle' \in {idle, Refreshed(owner[c])}
  /\ UNCHANGED <<arrived, keyOf, target, made, registered, owner, queue,
                 cancelled, run, sweep, manager>>

(* The agent run of chat k ends.                                           *)
RunEnds(k) ==
  /\ run[k] # None
  /\ run' = [run EXCEPT ![k] = None]
  /\ Move({m \in Messages : place[m] = "running" /\ keyOf[m] = k}, "done")
  /\ UNCHANGED <<arrived, keyOf, target, queueVars, consumer, cancelled, sweep,
                 manager>>

(* Its stream ends, and the consumer waits for the next message.  In the   *)
(* variant the consumer does not wait for the end of the run.              *)
OverAtOnce(c) == TRUE

Over(c) == run[owner[c]] # c

StreamEnds(c) ==
  /\ consumer[c] = "streaming" /\ c \notin cancelled
  /\ Over(c)
  /\ Goes(c, "waiting")
  /\ idle' = Refreshed(owner[c])
  /\ UNCHANGED <<messageVars, made, registered, owner, queue, cancelled, run,
                 sweep, manager>>

(***************************************************************************)
(* A cancellation reaches the consumer.  Before its first step it just     *)
(* ends.  While it waits or prepares a batch it stops, and its finally     *)
(* block pops its key.  While it follows a run, stream_from_queue swallows *)
(* the cancellation: the consumer goes on as if the run had ended.  The    *)
(* variant keeps the key.                                                  *)
(***************************************************************************)
ForgetNot(k) == registered

Forget(k) == [registered EXCEPT ![k] = None]

CancelArrives(c) ==
  /\ c \in cancelled
  /\ cancelled' = cancelled \ {c}
  /\ IF consumer[c] = "streaming"
     THEN /\ Goes(c, "waiting")
          /\ idle' = Refreshed(owner[c])
          /\ UNCHANGED <<place, registered>>
     ELSE /\ Goes(c, "stopped")
          /\ Move(Batch(c), "lost")
          /\ registered' = IF consumer[c] = "created" THEN registered
                           ELSE Forget(owner[c])
          /\ UNCHANGED idle
  /\ UNCHANGED <<arrived, keyOf, target, made, owner, queue, run, sweep, manager>>
-----------------------------------------------------------------------------
(* The cleanup loop.                                                       *)

(* The consumer can stay where it is for as long as idle_timeout, which is *)
(* longer than the 30 s of an enqueue.                                     *)
Rests(c) ==
  /\ \/ consumer[c] = "waiting" /\ queue[c] = <<>>
     \/ consumer[c] \in {"fetching", "preparing"}
     \/ consumer[c] = "streaming" /\ run[owner[c]] = c
  /\ \A m \in Messages : place[m] = "routed" => target[m] # c

(* A registered queue is without activity for longer than idle_timeout.    *)
GrowIdle(c) ==
  /\ owner[c] \in Quiet
  /\ Rests(c) /\ registered[owner[c]] = c /\ c \notin idle
  /\ idle' = idle \cup {c}
  /\ UNCHANGED <<messageVars, made, registered, owner, queue, consumer,
                 cancelled, run, sweep, manager>>

(* The next key of S that is registered is popped, and its consumer        *)
(* cancelled and awaited; keys found unregistered are skipped.             *)
SweepNext(S) ==
  \/ /\ \A k \in S : registered[k] = None
     /\ sweep' = Sleeping
     /\ UNCHANGED <<registered, cancelled>>
  \/ \E k \in S, rest \in SUBSET S :
       /\ registered[k] # None
       /\ k \notin rest /\ \A j \in S \ rest : j = k \/ registered[j] = None
       /\ sweep' = [todo |-> rest, joining |-> registered[k]]
       /\ cancelled' = cancelled \cup {registered[k]}
       /\ registered' = Forget(k)

(* Variant: the time of the last activity is not asked.                    *)
EmptyKeys ==
  {k \in Keys : registered[k] # None /\ queue[registered[k]] = <<>>}

IdleKeys ==
  {k \in Keys : registered[k] # None /\ registered[k] \in idle
                  /\ queue[registered[k]] = <<>>}

Wake ==
  /\ manager \in {"up", "draining"}
  /\ sweep = Sleeping
  /\ IdleKeys # {}
  /\ SweepNext(IdleKeys)
  /\ UNCHANGED <<messageVars, made, owner, queue, consumer, idle, run, manager>>

(* The awaited consumer has ended.                                         *)
Joined ==
  /\ sweep.joining # None
  /\ consumer[sweep.joining] = "stopped"
  /\ SweepNext(sweep.todo)
  /\ UNCHANGED <<messageVars, made, owner, queue, consumer, idle, run, manager>>
-----------------------------------------------------------------------------
(* /stop: clear_queue of the registered queue.                             *)
Cleared(c) == {m \in Messages : place[m] = "queued" /\ target[m] = c}

ClearQueue(k) ==
  LET c == registered[k] IN
  /\ c # None /\ queue[c] # <<>> /\ manager # "down"
  /\ queue' = [queue EXCEPT ![c] = <<>>]
  /\ Move(Cleared(c), "cleared")
  /\ UNCHANGED <<arrived, keyOf, target, made, registered, owner, consumer,
                 cancelled, idle, run, sweep, manager>>

(***************************************************************************)
(* ChannelManager.stop_all: cancel the enqueue tasks; cancel the cleanup   *)
(* loop, or the consumer it awaits; cancel the consumers, if there are     *)
(* any; forget every queue when they have ended or 5 s have passed.  The   *)
(* channels, which go on delivering messages, are stopped after that.      *)
(***************************************************************************)
StopEnqueues ==
  /\ manager = "up"
  /\ manager' = "draining"
  /\ Move({m \in Messages : place[m] = "routed"}, "lost")
  /\ UNCHANGED <<arrived, keyOf, target, queueVars, consumer, cancelled, run, sweep>>

StopCleanup ==
  /\ manager = "draining"
  /\ manager' = "halting"
  /\ cancelled' = IF sweep.joining # None /\ Live(sweep.joining)
                  THEN cancelled \cup {sweep.joining} ELSE cancelled
  /\ UNCHANGED <<messageVars, queueVars, consumer, run, sweep>>

StopConsumers ==
  /\ manager = "halting" /\ sweep = Sleeping
  /\ manager' = IF \A k \in Keys : registered[k] = None THEN "down" ELSE "joining"
  /\ cancelled' = cancelled \cup {c \in Queues : Live(c) /\ registered[owner[c]] = c}
  /\ UNCHANGED <<messageVars, queueVars, consumer, run, sweep>>

StopForgets ==
  /\ manager = "joining"
  /\ manager' = "down"
  /\ registered' = [k \in Keys |-> None]
  /\ UNCHANGED <<messageVars, made, owner, queue, consumer, cancelled, idle, run,
                 sweep>>
-----------------------------------------------------------------------------
ConsumerStep(c) ==
  \/ ConsumerStarts(c) \/ Take(c) \/ Drain(c) \/ Dispatch(c) \/ Absorb(c)
  \/ StreamEnds(c) \/ CancelArrives(c)

StopStep == StopEnqueues \/ StopCleanup \/ StopConsumers \/ StopForgets

Next ==
  \/ \E k \in Keys : Route(k) \/ RunEnds(k) \/ ClearQueue(k)
  \/ \E m \in Messages : Put(m) \/ PutTimesOut(m)
  \/ \E c \in Queues : ConsumerStep(c) \/ GrowIdle(c)
  \/ Wake \/ Joined \/ StopStep

Spec == Init /\ [][Next]_vars

(* The event loop runs what is ready.  That an agent run ends is not       *)
(* assumed here: see RunsEnd.                                              *)
Fairness ==
  /\ \A m \in Messages : WF_vars(Put(m) \/ PutTimesOut(m))
  /\ \A c \in Queues : WF_vars(ConsumerStep(c))
  /\ WF_vars(Joined)

FairSpec == Spec /\ Fairness
-----------------------------------------------------------------------------
TypeOK ==
  /\ arrived \in 0..MaxMessages
  /\ keyOf \in [Messages -> Keys]
  /\ place \in [Messages -> Place]
  /\ target \in [Messages -> 0..made]
  /\ made \in 0..MaxQueues
  /\ registered \in [Keys -> 0..made]
  /\ owner \in [Queues -> Keys]
  /\ queue \in [Queues -> Seq(Messages)]
  /\ consumer \in [Queues -> Consumer]
  /\ cancelled \subseteq Queues
  /\ idle \subseteq Queues
  /\ run \in [Keys -> 0..made]
  /\ sweep \in [todo : SUBSET Keys, joining : 0..made]
  /\ manager \in {"up", "draining", "halting", "joining", "down"}

(* Whoever looks a queue up gets one whose consumer is alive, unless the   *)
(* manager is being stopped.                                               *)
RegisteredIsAlive ==
  manager \in {"up", "draining", "halting"} =>
    \A k \in Keys : registered[k] # None =>
      Live(registered[k]) /\ owner[registered[k]] = k

(***************************************************************************)
(* No two consumers serve the same key.  The code says so of every key:    *)
(* "Strict serialization for messages with the same QueueKey"              *)
(* (unified_queue_manager.py), but it holds only of keys that are never    *)
(* idle for long, whatever the sweep does to the others.                   *)
(***************************************************************************)
Serves(c) == Live(c) /\ c \notin cancelled

OneConsumer(k) ==
  \A c, d \in Queues : Serves(c) /\ Serves(d) /\ owner[c] = k /\ owner[d] = k => c = d

StrictSerialization == manager = "up" => \A k \in Keys : OneConsumer(k)

BusyKeysSerialized == manager = "up" => \A k \in Keys \ Quiet : OneConsumer(k)

(***************************************************************************)
(* enqueue puts into the queue it has looked up, possibly after waiting    *)
(* 30 s for room.  Of a key that is never idle for long, that queue is     *)
(* still the registered one, and a consumer that nobody has cancelled      *)
(* serves it: nothing is put, or left, where nobody looks any more.        *)
(***************************************************************************)
AwaitsPut(c) == \E m \in Messages : place[m] = "routed" /\ target[m] = c

BusyLookupsHold ==
  manager = "up" =>
    \A c \in Queues :
      owner[c] \notin Quiet /\ (AwaitsPut(c) \/ queue[c] # <<>>) =>
        registered[owner[c]] = c /\ Serves(c)

(* "Message ignored (task already running) ... This should not happen with *)
(* UnifiedQueueManager" (channels/base.py), and does not to busy keys.     *)
NeverIgnored == manager = "up" => \A m \in Messages : place[m] # "ignored"

BusyNeverIgnored ==
  manager = "up" => \A m \in Messages : place[m] = "ignored" => keyOf[m] \in Quiet

(* Agent runs end: a hypothesis of the next property.                      *)
RunsEnd == \A k \in Keys : []<>(run[k] = None)

(* As long as the manager is up and agent runs end, every message of a     *)
(* busy key that was put in a queue is handed to the channel and its run   *)
(* ends, or it is cleared by /stop, even if the sweep hangs.               *)
MessagesAreHandled ==
  RunsEnd => \A m \in Messages :
    place[m] = "queued" ~>
      (place[m] \in {"done", "absorbed", "cleared"} \/ manager # "up" \/ keyOf[m] \in Quiet)

(***************************************************************************)
(* The abstract mailboxes of the sessions that are never idle for long: in *)
(* the box is what their registered queue holds.                           *)
(***************************************************************************)
Busy == Keys \ Quiet
Up == manager = "up"

Delivered == {"queued", "taken", "running", "done", "absorbed", "cleared"}

At(k, p) == {m \in Messages : keyOf[m] = k /\ place[m] = p}

Seen == {m \in Messages : Up /\ keyOf[m] \in Busy /\ place[m] \in Delivered}
Wiped == {m \in Messages : Up /\ keyOf[m] \in Busy /\ place[m] = "cleared"}
Boxes == [k \in Busy |-> IF Up /\ registered[k] # None THEN queue[registered[k]] ELSE <<>>]
Batches == [k \in Busy |-> IF Up THEN At(k, "taken") ELSE {}]
Servings == [k \in Busy |-> IF Up THEN At(k, "running") ELSE {}]

Mailbox == INSTANCE SessionMailbox
             WITH Sessions <- Busy, open <- Up, seen <- Seen, box <- Boxes,
                  batch <- Batches, serving <- Servings, cleared <- Wiped

(* A session that is never idle for long has, until the shutdown, one      *)
(* mailbox: however queues are made, swept, cancelled and cleared around   *)
(* it, its messages are delivered once, are taken in order unless its user *)
(* clears them, and are served in one batch at a time.                     *)
ImplementsMailbox == Mailbox!Spec
=============================================================================
