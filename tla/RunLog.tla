------------------------------- MODULE RunLog -------------------------------
(***************************************************************************)
(* What the task tracker promises those who follow its runs, without its   *)
(* queues and subscriber lists: a run is a log that grows and is closed;   *)
(* a reader that joins it while it goes on reads it from the beginning,    *)
(* each event in turn, and is told of its end when it has read it all.     *)
(* Each topic has at most one run at a time.                               *)
(***************************************************************************)
EXTENDS Naturals

CONSTANTS Topics, Runs, Readers, NoRun

VARIABLES
  begun,  \* the runs that have begun
  live,   \* live[t]: the run of topic t that goes on, or NoRun
  length, \* length[r]: number of events in the log of run r
  closed, \* closed[r]: the log of r is complete
  status, \* status[q]: "new", "reading", "complete" or "left"
  reads,  \* reads[q]: the run whose log q reads
  seen    \* seen[q]: how many events of it q has read

logVars == <<begun, live, length, closed>>
vars == <<begun, live, length, closed, status, reads, seen>>

Init ==
  /\ begun = {}
  /\ live = [t \in Topics |-> NoRun]
  /\ length = [r \in Runs |-> 0]
  /\ closed = [r \in Runs |-> FALSE]
  /\ status = [q \in Readers |-> "new"]
  /\ reads = [q \in Readers |-> NoRun]
  /\ seen = [q \in Readers |-> 0]

(* A run begins, alone or with its first reader.                           *)
Begin(t, r) ==
  /\ live[t] = NoRun /\ r \notin begun
  /\ begun' = begun \cup {r}
  /\ live' = [live EXCEPT ![t] = r]
  /\ UNCHANGED <<length, closed>>

Joins(q, r) ==
  /\ status[q] = "new"
  /\ status' = [status EXCEPT ![q] = "reading"]
  /\ reads' = [reads EXCEPT ![q] = r]
  /\ UNCHANGED seen

BeginAlone(t, r) == Begin(t, r) /\ UNCHANGED <<status, reads, seen>>

BeginWith(t, r, q) == Begin(t, r) /\ Joins(q, r)

Join(t, q) == live[t] # NoRun /\ Joins(q, live[t]) /\ UNCHANGED logVars

(* The log grows; it is closed, perhaps with a last event; or the run      *)
(* vanishes before its first event.                                        *)
Publish(t) ==
  /\ live[t] # NoRun
  /\ length' = [length EXCEPT ![live[t]] = @ + 1]
  /\ UNCHANGED <<begun, live, closed, status, reads, seen>>

Finish(t) ==
  /\ live[t] # NoRun
  /\ \E n \in {0, 1} : length' = [length EXCEPT ![live[t]] = @ + n]
  /\ closed' = [closed EXCEPT ![live[t]] = TRUE]
  /\ live' = [live EXCEPT ![t] = NoRun]
  /\ UNCHANGED <<begun, status, reads, seen>>

Vanish(t) ==
  /\ live[t] # NoRun /\ length[live[t]] = 0
  /\ live' = [live EXCEPT ![t] = NoRun]
  /\ UNCHANGED <<begun, length, closed, status, reads, seen>>

(* A reader reads the next event, reaches the end, or goes away.           *)
Read(q) ==
  /\ status[q] = "reading"
  /\ seen[q] < length[reads[q]]
  /\ seen' = [seen EXCEPT ![q] = @ + 1]
  /\ UNCHANGED <<logVars, status, reads>>

Complete(q) ==
  /\ status[q] = "reading"
  /\ closed[reads[q]] /\ seen[q] = length[reads[q]]
  /\ status' = [status EXCEPT ![q] = "complete"]
  /\ UNCHANGED <<logVars, reads, seen>>

Leave(q) ==
  /\ status[q] = "reading"
  /\ status' = [status EXCEPT ![q] = "left"]
  /\ UNCHANGED <<logVars, reads, seen>>

TopicStep(t) ==
  \/ Publish(t) \/ Finish(t) \/ Vanish(t)
  \/ \E r \in Runs : BeginAlone(t, r)

ReaderStep(q) ==
  \/ Read(q) \/ Complete(q) \/ Leave(q)
  \/ \E t \in Topics : Join(t, q) \/ \E r \in Runs : BeginWith(t, r, q)

Next == (\E t \in Topics : TopicStep(t)) \/ (\E q \in Readers : ReaderStep(q))

Spec == Init /\ [][Next]_vars
=============================================================================
