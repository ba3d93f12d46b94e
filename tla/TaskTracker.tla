----------------------------- MODULE TaskTracker -----------------------------
(***************************************************************************)
(* Background runs and the streams that follow them: TaskTracker           *)
(* (app/runner/task_tracker.py), the console route that starts, follows    *)
(* and stops a run (app/routers/console.py) and the wrapper that registers *)
(* runs made elsewhere (app/_app.py).                                      *)
(*                                                                         *)
(* A run object (_RunState) is named by its rank, an event of a run by its *)
(* rank in that run, so the buffer of a run is the number of its events.   *)
(* The tracker's lock is never held across an await: every method, and the *)
(* producer between two events, is one action.                             *)
(***************************************************************************)
EXTENDS Integers, Sequences

CONSTANTS
  Chats,         \* run keys of internal runs: chat ids
  ExternalKeys,  \* run keys "ext-..." of runs registered from outside
  Streams,       \* subscriber queues, each with the stream that reads it
  MaxRuns,       \* bound: run objects created
  MaxEvents      \* bound: events of one run

ASSUME ConstantsAssumption ==
  /\ Chats # {} /\ Chats \cap ExternalKeys = {}
  /\ MaxRuns \in Nat
  /\ MaxEvents \in Nat \ {0}

Keys == Chats \cup ExternalKeys
Runs == 1..MaxRuns
None == 0        \* no run object
Sentinel == 0    \* _SENTINEL; events are 1, 2, ...

VARIABLES
  created,    \* number of run objects created
  current,    \* current[k]: TaskTracker._runs[k], or None
  task,       \* task[r]: the producer task (or the Future) of run r
  published,  \* published[r]: length of the event buffer of run r
  queues,     \* queues[r]: the subscriber list of run r
  mode,       \* mode[q]: the stream that reads q
  followed,   \* followed[q]: the run q was attached to, a history variable
  keyOf,      \* keyOf[q]: the run_key given to stream_from_queue
  queue,      \* queue[q]: contents of the asyncio.Queue
  got         \* got[q]: the last event the stream has yielded

runVars == <<created, current, task, published, queues>>
streamVars == <<mode, followed, keyOf, queue, got>>
vars == <<created, current, task, published, queues,
          mode, followed, keyOf, queue, got>>

(* "scheduled": created, its first step not yet run.  "doomed": cancelled  *)
(* before that step, so that its body never runs.  "external": a Future.   *)
TaskState == {"none", "scheduled", "doomed", "running", "stopping",
              "external", "finished", "dropped"}
Done == {"finished", "dropped"}
-----------------------------------------------------------------------------
Init ==
  /\ created = 0
  /\ current = [k \in Keys |-> None]
  /\ task = [r \in Runs |-> "none"]
  /\ published = [r \in Runs |-> 0]
  /\ queues = [r \in Runs |-> {}]
  /\ mode = [q \in Streams |-> "unused"]
  /\ followed = [q \in Streams |-> None]
  /\ keyOf = [q \in Streams |-> CHOOSE k \in Chats : TRUE]
  /\ queue = [q \in Streams |-> <<>>]
  /\ got = [q \in Streams |-> 0]

Active(k) == current[k] # None /\ task[current[k]] \notin Done

(* The events of run r so far, with which a new queue is filled; in the    *)
(* variant a reconnecting stream only gets what comes next.                *)
NoReplay(r) == <<>>

Replay(r) == [i \in 1..published[r] |-> i]

(* put_nowait of x on every queue that follows run r.                      *)
Broadcast(r, x) ==
  [q \in Streams |-> IF q \in queues[r] THEN Append(queue[q], x) ELSE queue[q]]

(* q follows run r from now on and has been filled with items.             *)
Follow(q, k, r, items) ==
  /\ mode' = [mode EXCEPT ![q] = "attached"]
  /\ followed' = [followed EXCEPT ![q] = r]
  /\ keyOf' = [keyOf EXCEPT ![q] = k]
  /\ queue' = [queue EXCEPT ![q] = items]
  /\ UNCHANGED got

(* attach: also what attach_or_start does while a run is active.           *)
Attach(k, q) ==
  /\ mode[q] = "unused"
  /\ k \in Chats /\ Active(k)
  /\ queues' = [queues EXCEPT ![current[k]] = @ \cup {q}]
  /\ Follow(q, k, current[k], Replay(current[k]))
  /\ UNCHANGED <<created, current, task, published>>

(* attach_or_start when no run is active: a new run object and its task.   *)
(* In the variant the run is started even if one is active.                *)
MayStartAlways(k) == created < MaxRuns

MayStart(k) == created < MaxRuns /\ ~Active(k)

Start(k, q) ==
  LET r == created + 1 IN
  /\ mode[q] = "unused"
  /\ k \in Chats /\ MayStart(k)
  /\ created' = r
  /\ current' = [current EXCEPT ![k] = r]
  /\ task' = [task EXCEPT ![r] = "scheduled"]
  /\ queues' = [queues EXCEPT ![r] = {q}]
  /\ Follow(q, k, r, <<>>)
  /\ UNCHANGED published
-----------------------------------------------------------------------------
(* The producer.                                                           *)

ProducerStarts(r) ==
  /\ task[r] = "scheduled"
  /\ task' = [task EXCEPT ![r] = "running"]
  /\ UNCHANGED <<created, current, published, queues, streamVars>>

(* One event of stream_fn.  A cancelled stream_fn may still yield: it is   *)
(* only asked to stop.                                                     *)
Publish(r) ==
  /\ task[r] \in {"running", "stopping"}
  /\ published[r] < MaxEvents
  /\ published' = [published EXCEPT ![r] = @ + 1]
  /\ queue' = Broadcast(r, published[r] + 1)
  /\ UNCHANGED <<created, current, task, queues, mode, followed, keyOf, got>>

(* _runs.pop(run_key): whatever run object is there.                       *)
Forget(k) == current' = [current EXCEPT ![k] = None]

(***************************************************************************)
(* stream_fn has ended, in any way.  An exception is reported by one more  *)
(* event; the finally block sends the sentinel and pops the key.           *)
(* Variants: the queues are not told; the sentinel comes before the error; *)
(* the error is numbered after itself.                                     *)
(***************************************************************************)
FinalSilent(r, n) == queue

FinalEarly(r, n) ==
  [q \in Streams |-> IF q \in queues[r]
                     THEN Append(Append(queue[q], Sentinel), n) ELSE queue[q]]

Final(r, n) ==
  [q \in Streams |->
     IF q \in queues[r]
     THEN IF n = published[r] THEN Append(queue[q], Sentinel)
          ELSE Append(Append(queue[q], n), Sentinel)
     ELSE queue[q]]

ProducerEnds(k, r) ==
  /\ task[r] \in {"running", "stopping"}
  /\ k \in Chats /\ current[k] = r
  /\ \E n \in {published[r], published[r] + 1} :
       /\ n =< MaxEvents
       /\ queue' = Final(r, n)
       /\ published' = [published EXCEPT ![r] = n]
  /\ task' = [task EXCEPT ![r] = "finished"]
  /\ Forget(k)
  /\ UNCHANGED <<created, queues, mode, followed, keyOf, got>>

(* request_stop: task.cancel().                                            *)
RequestStop(k) ==
  /\ k \in Chats
  /\ Active(k)
  /\ task[current[k]] \in {"scheduled", "running"}
  /\ task' = [task EXCEPT
        ![current[k]] = IF @ = "scheduled" THEN "doomed" ELSE "stopping"]
  /\ UNCHANGED <<created, current, published, queues, streamVars>>

(* A coroutine cancelled before its first step ends at once: neither its   *)
(* try nor its finally block runs.                                         *)
ProducerDropped(r) ==
  /\ task[r] = "doomed"
  /\ task' = [task EXCEPT ![r] = "dropped"]
  /\ UNCHANGED <<created, current, published, queues, streamVars>>
-----------------------------------------------------------------------------
(* Runs made elsewhere.                                                    *)

RegisterExternal(k) ==
  LET r == created + 1 IN
  /\ k \in ExternalKeys /\ MayStart(k)
  /\ created' = r
  /\ current' = [current EXCEPT ![k] = r]
  /\ task' = [task EXCEPT ![r] = "external"]
  /\ UNCHANGED <<published, queues, streamVars>>

UnregisterExternal(k) ==
  LET r == current[k] IN
  /\ k \in ExternalKeys
  /\ r # None
  /\ Forget(k)
  /\ task' = [task EXCEPT ![r] = "finished"]
  /\ queue' = Final(r, published[r])
  /\ UNCHANGED <<created, published, queues, mode, followed, keyOf, got>>
-----------------------------------------------------------------------------
(* stream_from_queue.                                                      *)

Open(q) ==
  /\ mode[q] = "attached"
  /\ mode' = [mode EXCEPT ![q] = "reading"]
  /\ UNCHANGED <<runVars, followed, keyOf, queue, got>>

(* The queue is never read: a channel ignores a message that finds a run   *)
(* active, a client is gone before its response starts.  Nothing detaches. *)
Abandon(q) ==
  /\ mode[q] = "attached"
  /\ mode' = [mode EXCEPT ![q] = "abandoned"]
  /\ UNCHANGED <<runVars, followed, keyOf, queue, got>>

(* detach_subscriber looks the key up: the run that is there now need not  *)
(* be the one q follows.  In the variant the finally block is missing.     *)
DetachNot(q) == UNCHANGED queues

Detach(q) ==
  queues' = [r \in Runs |->
               IF r = current[keyOf[q]] THEN queues[r] \ {q} ELSE queues[r]]

Yield(q) ==
  /\ mode[q] = "reading"
  /\ queue[q] # <<>>
  /\ Head(queue[q]) # Sentinel
  /\ got' = [got EXCEPT ![q] = Head(queue[q])]
  /\ queue' = [queue EXCEPT ![q] = Tail(@)]
  /\ UNCHANGED <<runVars, mode, followed, keyOf>>

(* The sentinel ends the stream; so does a cancellation or a closed        *)
(* connection, at any time.                                                *)
StreamEnds(q) ==
  /\ mode[q] = "reading"
  /\ queue[q] # <<>>
  /\ Head(queue[q]) = Sentinel
  /\ mode' = [mode EXCEPT ![q] = "ended"]
  /\ queue' = [queue EXCEPT ![q] = Tail(@)]
  /\ Detach(q)
  /\ UNCHANGED <<created, current, task, published, followed, keyOf, got>>

Disconnect(q) ==
  /\ mode[q] = "reading"
  /\ mode' = [mode EXCEPT ![q] = "left"]
  /\ Detach(q)
  /\ UNCHANGED <<created, current, task, published, followed, keyOf, queue, got>>
-----------------------------------------------------------------------------
ProducerStep(r) ==
  ProducerStarts(r) \/ Publish(r) \/ ProducerDropped(r)
    \/ \E k \in Keys : ProducerEnds(k, r)

StreamStep(q) ==
  Open(q) \/ Abandon(q) \/ Yield(q) \/ StreamEnds(q) \/ Disconnect(q)

KeyStep(k) ==
  \/ \E q \in Streams : Attach(k, q) \/ Start(k, q)
  \/ RequestStop(k) \/ RegisterExternal(k) \/ UnregisterExternal(k)

Next ==
  \/ \E k \in Keys : KeyStep(k)
  \/ \E r \in Runs : ProducerStep(r)
  \/ \E q \in Streams : StreamStep(q)

Spec == Init /\ [][Next]_vars

(* The event loop runs what is ready; a connected client reads.  Nothing   *)
(* makes stream_fn yield or end.                                           *)
Fairness ==
  /\ \A r \in Runs : WF_vars(ProducerStarts(r)) /\ WF_vars(ProducerDropped(r))
  /\ \A q \in Streams : WF_vars(Yield(q) \/ StreamEnds(q))

FairSpec == Spec /\ Fairness
-----------------------------------------------------------------------------
TypeOK ==
  /\ created \in 0..MaxRuns
  /\ current \in [Keys -> 0..created]
  /\ task \in [Runs -> TaskState]
  /\ published \in [Runs -> 0..MaxEvents]
  /\ queues \in [Runs -> SUBSET Streams]
  /\ mode \in [Streams -> {"unused", "attached", "abandoned", "reading", "ended", "left"}]
  /\ followed \in [Streams -> 0..created]
  /\ keyOf \in [Streams -> Keys]
  /\ queue \in [Streams -> Seq(0..MaxEvents)]
  /\ got \in [Streams -> 0..MaxEvents]

(***************************************************************************)
(* A stream that is read has in its queue exactly the events of its run it *)
(* has not yet yielded, in order, whenever it was attached, and then the   *)
(* sentinel if and only if the run has finished.                           *)
(***************************************************************************)
Backlog(q) ==
  LET rest == published[followed[q]] - got[q] IN
  IF task[followed[q]] = "finished"
  THEN [i \in 1..(rest + 1) |-> IF i =< rest THEN got[q] + i ELSE Sentinel]
  ELSE [i \in 1..rest |-> got[q] + i]

NothingMissed ==
  \A q \in Streams :
    mode[q] \in {"attached", "reading"} => queue[q] = Backlog(q)

(* A stream ends by itself only after the last event of its run.           *)
EndsAfterTheLastEvent ==
  \A q \in Streams : mode[q] = "ended" =>
    /\ task[followed[q]] = "finished"
    /\ got[q] = published[followed[q]]

(* Two runs of the same chat never produce at the same time, although a    *)
(* finished producer pops whatever run its key holds.                      *)
OneProducerPerChat ==
  \A r \in Runs : task[r] \in {"scheduled", "doomed", "running", "stopping"} =>
    \E k \in Chats : current[k] = r

(* A stream that was read and is closed is off the list of its run as long *)
(* as that run goes on, although it is looked up by key and not by run.    *)
ClosedStreamsDetached ==
  \A q \in Streams : mode[q] \in {"ended", "left"} =>
    q \notin queues[followed[q]] \/ task[followed[q]] \in Done

(* A stream that follows a run which is over is always released, unless    *)
(* the run was dropped before its first step.                              *)
StreamsAreReleased ==
  \A q \in Streams :
    (mode[q] = "reading" /\ followed[q] # None /\ task[followed[q]] = "finished")
      ~> mode[q] # "reading"

(* "Cleanup when task completes." (task_tracker.py): a run whose task is   *)
(* done is not kept, and no stream waits for it.                           *)
CleanupWhenTaskCompletes ==
  \A k \in Keys : current[k] # None => task[current[k]] \notin Done

(***************************************************************************)
(* Streams read the log of their run: whatever is queued, replayed and     *)
(* detached, the tracker implements RunLog, in which a reader gets every   *)
(* event of one run in turn and the end only after the last; a chat has    *)
(* one run at a time, and a run vanishes only before its first event.      *)
(***************************************************************************)
Lives == [k \in Keys |-> IF Active(k) THEN current[k] ELSE None]

Closed == [r \in Runs |-> task[r] = "finished"]

StatusOf(m) ==
  IF m = "unused" THEN "new"
  ELSE IF m \in {"attached", "reading"} THEN "reading"
  ELSE IF m = "ended" THEN "complete" ELSE "left"

Statuses == [q \in Streams |-> StatusOf(mode[q])]

Log == INSTANCE RunLog
         WITH Topics <- Keys, Readers <- Streams, NoRun <- None,
              begun <- 1..created, live <- Lives, length <- published,
              closed <- Closed, status <- Statuses, reads <- followed, seen <- got

ImplementsLog == Log!Spec
=============================================================================
