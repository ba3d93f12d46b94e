-------------------------- MODULE TaskTrackerProofs --------------------------
(***************************************************************************)
(* Proofs about TaskTracker, for every set of chats and streams: the       *)
(* inductive invariant IInv and the safety properties it implies.          *)
(***************************************************************************)
EXTENDS TaskTracker, SequenceTheorems, TLAPS

OpenModes == {"attached", "reading"}
Live == {"scheduled", "doomed", "running", "stopping"}

(* A key holds a run of its own kind, and no run has two keys.             *)
KeysHoldOwnRuns ==
  /\ \A k, j \in Keys : current[k] = current[j] /\ current[k] # None => k = j
  /\ \A k \in Chats : current[k] # None => task[current[k]] \in Live \cup {"dropped"}
  /\ \A k \in ExternalKeys : current[k] # None => task[current[k]] = "external"

(* A run object that was not created yet is untouched.                     *)
NotYetCreated ==
  \A r \in Runs : r > created =>
    task[r] = "none" /\ published[r] = 0 /\ queues[r] = {}

(* The subscriber lists and the streams agree.                             *)
Unused(q) == got[q] = 0 /\ \A r \in Runs : q \notin queues[r]

Follows(q, f) ==
  /\ f \in 1..created
  /\ keyOf[q] \in Chats
  /\ got[q] =< published[f]
  /\ task[f] # "none"
  /\ task[f] \notin Done => current[keyOf[q]] = f
  /\ \A r \in Runs : q \in queues[r] => r = f
  /\ mode[q] \in OpenModes => q \in queues[f]

StreamsFollow ==
  \A q \in Streams :
    IF mode[q] = "unused" THEN Unused(q) ELSE Follows(q, followed[q])

(* s holds the events after a up to p, and the sentinel if fin.            *)
Holds(s, a, p, fin) ==
  /\ Len(s) = (p - a) + (IF fin THEN 1 ELSE 0)
  /\ \A i \in 1..Len(s) : s[i] = IF i =< p - a THEN a + i ELSE Sentinel

QueuesHoldTheRest ==
  \A q \in Streams : mode[q] \in OpenModes =>
    Holds(queue[q], got[q], published[followed[q]], task[followed[q]] = "finished")

IInv == /\ TypeOK
        /\ KeysHoldOwnRuns
        /\ NotYetCreated
        /\ StreamsFollow
        /\ QueuesHoldTheRest
        /\ EndsAfterTheLastEvent
        /\ ClosedStreamsDetached
        /\ OneProducerPerChat
-----------------------------------------------------------------------------
(* Facts about sequences of events.                                        *)

Items == 0..MaxEvents

LEMMA HoldsEmpty ==
  ASSUME NEW a \in Nat
  PROVE  Holds(<<>>, a, a, FALSE)
BY DEF Holds

LEMMA HoldsAppend ==
  ASSUME NEW s \in Seq(Items), NEW a \in Nat, NEW p \in Nat, a =< p,
         Holds(s, a, p, FALSE), p + 1 \in Items
  PROVE  /\ Append(s, p + 1) \in Seq(Items)
         /\ Holds(Append(s, p + 1), a, p + 1, FALSE)
<1> DEFINE t == Append(s, p + 1)
<1>1. /\ t \in Seq(Items) /\ Len(t) = Len(s) + 1 /\ Len(s) = p - a
      /\ \A i \in 1..Len(t) : t[i] = IF i = Len(s) + 1 THEN p + 1 ELSE s[i]
  BY DEF Holds
<1> HIDE DEF t
<1>2. \A i \in 1..Len(s) : s[i] = a + i
  BY <1>1 DEF Holds
<1>3. \A i \in 1..Len(t) : t[i] = a + i
  BY <1>1, <1>2
<1>4. Holds(t, a, p + 1, FALSE)
  BY <1>1, <1>3 DEF Holds
<1>5. QED
  BY <1>1, <1>4 DEF t

LEMMA HoldsFinal ==
  ASSUME NEW s \in Seq(Items), NEW a \in Nat, NEW p \in Nat, a =< p,
         Holds(s, a, p, FALSE), MaxEvents \in Nat
  PROVE  /\ Append(s, Sentinel) \in Seq(Items)
         /\ Holds(Append(s, Sentinel), a, p, TRUE)
<1> DEFINE t == Append(s, Sentinel)
<1>0. Sentinel \in Items
  BY DEF Sentinel, Items
<1>1. /\ t \in Seq(Items) /\ Len(t) = Len(s) + 1 /\ Len(s) = p - a
      /\ \A i \in 1..Len(t) : t[i] = IF i = Len(s) + 1 THEN Sentinel ELSE s[i]
  BY <1>0 DEF Holds
<1> HIDE DEF t
<1>2. \A i \in 1..Len(s) : s[i] = a + i
  BY <1>1 DEF Holds
<1>3. Holds(t, a, p, TRUE)
  BY <1>1, <1>2 DEF Holds
<1>4. QED
  BY <1>1, <1>3 DEF t

LEMMA HoldsTail ==
  ASSUME NEW s \in Seq(Items), NEW a \in Nat, NEW p \in Nat, a =< p,
         NEW fin \in BOOLEAN, Holds(s, a, p, fin), s # <<>>
  PROVE  /\ Head(s) \in Items /\ Tail(s) \in Seq(Items)
         /\ Head(s) = Sentinel => p = a /\ fin
         /\ Head(s) # Sentinel => /\ Head(s) = a + 1 /\ a + 1 =< p
                                  /\ Holds(Tail(s), a + 1, p, fin)
<1>1. /\ Head(s) = s[1] /\ Len(s) \in Nat /\ Len(s) >= 1
      /\ Tail(s) \in Seq(Items) /\ Len(Tail(s)) = Len(s) - 1
      /\ \A i \in 1..Len(Tail(s)) : Tail(s)[i] = s[i + 1]
      /\ Head(s) \in Items
  BY HeadTailProperties
<1>2. s[1] = IF 1 =< p - a THEN a + 1 ELSE Sentinel
  BY <1>1 DEF Holds
<1>3. CASE 1 =< p - a
  <2>1. \A i \in 1..Len(Tail(s)) :
          Tail(s)[i] = IF i =< p - (a + 1) THEN (a + 1) + i ELSE Sentinel
    BY <1>1, <1>3 DEF Holds
  <2>2. Holds(Tail(s), a + 1, p, fin)
    BY <2>1, <1>1, <1>3 DEF Holds
  <2>3. QED
    BY <1>1, <1>2, <1>3, <2>2 DEF Sentinel
<1>4. CASE ~(1 =< p - a)
  <2>1. p = a
    BY <1>4
  <2>2. fin
    BY <1>1, <2>1 DEF Holds
  <2>3. QED
    BY <1>1, <1>2, <1>4, <2>1, <2>2 DEF Sentinel
<1>5. QED
  BY <1>3, <1>4

LEMMA HoldsReplay ==
  ASSUME NEW p \in Nat, p =< MaxEvents, MaxEvents \in Nat
  PROVE  /\ [i \in 1..p |-> i] \in Seq(Items)
         /\ Holds([i \in 1..p |-> i], 0, p, FALSE)
<1> DEFINE t == [i \in 1..p |-> i]
<1>1. t \in [1..p -> Items]
  BY DEF Items
<1>2. t \in Seq(Items)
  BY <1>1, SeqDef
<1>3. Len(t) = p
  BY <1>2, LenProperties
<1>4. QED
  BY <1>2, <1>3 DEF Holds

(* What the invariant says of a queue is what the property says of it.     *)
LEMMA HoldsIsBacklog ==
  ASSUME TypeOK, NEW q \in Streams, followed[q] \in Runs, got[q] =< published[followed[q]],
         Holds(queue[q], got[q], published[followed[q]], task[followed[q]] = "finished")
  PROVE  queue[q] = Backlog(q)
<1> DEFINE s == queue[q]
           rest == published[followed[q]] - got[q]
           n == IF task[followed[q]] = "finished" THEN rest + 1 ELSE rest
           b == [i \in 1..n |-> IF i =< rest THEN got[q] + i ELSE Sentinel]
<1>1. s \in Seq(Items) /\ got[q] \in Nat /\ published[followed[q]] \in Nat /\ rest \in Nat
  BY ConstantsAssumption DEF TypeOK, Items
<1>2. Backlog(q) = b
  <2>1. CASE task[followed[q]] = "finished"
    BY <2>1 DEF Backlog
  <2>2. CASE task[followed[q]] # "finished"
    <3>1. \A i \in 1..rest : i =< rest
      BY <1>1
    <3>2. QED
      BY <2>2, <3>1 DEF Backlog
  <2>3. QED
    BY <2>1, <2>2
<1>3. Len(s) = n /\ \A i \in 1..Len(s) : s[i] = IF i =< rest THEN got[q] + i ELSE Sentinel
  BY <1>1 DEF Holds
<1>4. s = [i \in 1..Len(s) |-> s[i]]
  BY <1>1
<1>5. s = b
  <2> HIDE DEF s, rest, n
  <2> QED
    BY <1>3, <1>4
<1>6. QED
  BY <1>2, <1>5
-----------------------------------------------------------------------------
LEMMA InitIInv == Init => IInv
<1> SUFFICES ASSUME Init PROVE IInv
  OBVIOUS
<1>1. \A k \in Keys : current[k] = None
  BY DEF Init
<1>2. TypeOK
  <2>1. keyOf \in [Streams -> Keys]
    BY ConstantsAssumption DEF Init, Keys
  <2>2. queue \in [Streams -> Seq(0..MaxEvents)]
    BY DEF Init
  <2>3. /\ created = 0 /\ MaxRuns \in Nat /\ MaxEvents \in Nat
        /\ current = [k \in Keys |-> 0]
        /\ task = [r \in Runs |-> "none"] /\ published = [r \in Runs |-> 0]
        /\ queues = [r \in Runs |-> {}] /\ mode = [q \in Streams |-> "unused"]
        /\ followed = [q \in Streams |-> 0] /\ got = [q \in Streams |-> 0]
    BY ConstantsAssumption DEF Init, None
  <2>4. QED
    BY <2>1, <2>2, <2>3 DEF TypeOK, TaskState
<1>3. QED
  BY <1>1, <1>2 DEF Init, IInv, KeysHoldOwnRuns, NotYetCreated, StreamsFollow, Unused,
     QueuesHoldTheRest, OpenModes, EndsAfterTheLastEvent, ClosedStreamsDetached,
     OneProducerPerChat, Keys

(* A new stream q follows run f; the other streams and runs are unchanged. *)
LEMMA AttachIInv ==
  ASSUME IInv, NEW k \in Keys, NEW q \in Streams, Attach(k, q)
  PROVE  IInv'
<1> DEFINE f == current[k]
<1>1. /\ mode[q] = "unused" /\ k \in Chats /\ f # None /\ task[f] \notin Done
      /\ queues' = [queues EXCEPT ![f] = @ \cup {q}]
      /\ mode' = [mode EXCEPT ![q] = "attached"]
      /\ followed' = [followed EXCEPT ![q] = f]
      /\ keyOf' = [keyOf EXCEPT ![q] = k]
      /\ queue' = [queue EXCEPT ![q] = Replay(f)]
      /\ got' = got
      /\ created' = created /\ current' = current /\ task' = task /\ published' = published
  BY DEF Attach, Active, Follow
<1>2. f \in 1..created /\ f \in Runs
  BY <1>1, ConstantsAssumption DEF IInv, TypeOK, Runs, None
<1>3. got[q] = 0 /\ \A r \in Runs : q \notin queues[r]
  BY <1>1 DEF IInv, StreamsFollow, Unused
<1>4. Replay(f) \in Seq(Items) /\ Holds(Replay(f), 0, published[f], FALSE)
  <2>1. published[f] \in Nat /\ published[f] =< MaxEvents /\ MaxEvents \in Nat
    BY <1>2, ConstantsAssumption DEF IInv, TypeOK
  <2>2. QED
    BY <2>1, HoldsReplay DEF Replay
<1> HIDE DEF f
<1>5. TypeOK'
  <2>1. queues' \in [Runs -> SUBSET Streams] /\ followed' \in [Streams -> 0..created']
    BY <1>1, <1>2, ConstantsAssumption DEF IInv, TypeOK, Runs
  <2>2. queue' \in [Streams -> Seq(Items)]
    BY <1>1, <1>4 DEF IInv, TypeOK, Items
  <2>3. mode' \in [Streams -> {"unused", "attached", "abandoned", "reading", "ended", "left"}]
    BY <1>1 DEF IInv, TypeOK
  <2>4. QED
    BY <1>1, <2>1, <2>2, <2>3 DEF IInv, TypeOK, Items
<1>6. KeysHoldOwnRuns' /\ OneProducerPerChat'
  BY <1>1 DEF IInv, KeysHoldOwnRuns, OneProducerPerChat
<1>7. NotYetCreated'
  BY <1>1, <1>2 DEF IInv, NotYetCreated, TypeOK
<1>8. StreamsFollow'
  <2> SUFFICES ASSUME NEW p \in Streams
               PROVE  IF mode'[p] = "unused" THEN Unused(p)' ELSE Follows(p, followed[p])'
    BY DEF StreamsFollow
  <2>1. CASE p = q
    <3>1. task[f] # "none"
      BY <1>1, <1>2 DEF IInv, KeysHoldOwnRuns, f, Live
    <3>2. mode'[p] = "attached" /\ followed'[p] = f /\ keyOf'[p] = k /\ got'[p] = 0
          /\ current'[k] = f /\ q \in queues'[f]
      BY <1>1, <1>2, <1>3, <2>1 DEF IInv, TypeOK, f
    <3>3. \A r \in Runs : q \in queues'[r] => r = f
      BY <1>1, <1>2, <1>3 DEF IInv, TypeOK
    <3>4. 0 =< published'[f]
      BY <1>1, <1>2, ConstantsAssumption DEF IInv, TypeOK
    <3>5. QED
      BY <1>1, <1>2, <2>1, <3>1, <3>2, <3>3, <3>4 DEF Follows
  <2>2. CASE p # q
    <3>1. /\ mode'[p] = mode[p] /\ followed'[p] = followed[p] /\ keyOf'[p] = keyOf[p]
          /\ \A r \in Runs : p \in queues'[r] <=> p \in queues[r]
      BY <1>1, <1>2, <2>2 DEF IInv, TypeOK
    <3>2. QED
      BY <1>1, <2>2, <3>1, ConstantsAssumption
         DEF IInv, StreamsFollow, Unused, Follows, TypeOK, Runs
  <2>3. QED
    BY <2>1, <2>2
<1>9. QueuesHoldTheRest'
  BY <1>1, <1>2, <1>3, <1>4 DEF IInv, QueuesHoldTheRest, TypeOK, Done, OpenModes
<1>10. EndsAfterTheLastEvent'
  BY <1>1 DEF IInv, EndsAfterTheLastEvent, TypeOK
<1>11. ClosedStreamsDetached'
  BY <1>1, <1>2 DEF IInv, ClosedStreamsDetached, TypeOK
<1>12. QED
  BY <1>5, <1>6, <1>7, <1>8, <1>9, <1>10, <1>11 DEF IInv

(* A new run r for key k, followed by the streams in S: one for an         *)
(* internal run, none for an external one.                                 *)
LEMMA NewRunIInv ==
  ASSUME IInv, NEW k \in Keys, NEW r, NEW S \in SUBSET Streams, NEW st,
         r = created + 1, created < MaxRuns, ~Active(k),
         created' = r, current' = [current EXCEPT ![k] = r],
         task' = [task EXCEPT ![r] = st],
         \/ k \in Chats /\ st = "scheduled"
         \/ k \in ExternalKeys /\ st = "external" /\ S = {},
         queues' = [queues EXCEPT ![r] = S],
         \A q \in S : mode[q] = "unused",
         mode' = [q \in Streams |-> IF q \in S THEN "attached" ELSE mode[q]],
         followed' = [q \in Streams |-> IF q \in S THEN r ELSE followed[q]],
         keyOf' = [q \in Streams |-> IF q \in S THEN k ELSE keyOf[q]],
         queue' = [q \in Streams |-> IF q \in S THEN <<>> ELSE queue[q]],
         UNCHANGED <<published, got>>
  PROVE  IInv'
<1>1. /\ r \in Runs /\ created \in Nat /\ MaxRuns \in Nat /\ MaxEvents \in Nat
      /\ r \notin 1..created /\ r # None
  BY ConstantsAssumption DEF IInv, TypeOK, Runs, None
<1>2. task[r] = "none" /\ published[r] = 0 /\ queues[r] = {}
  BY <1>1 DEF IInv, NotYetCreated
<1>3. \A j \in Keys : current[j] \in 0..created /\ current[j] # r
  BY <1>1 DEF IInv, TypeOK
<1>4. TypeOK'
  <2>1. queue' \in [Streams -> Seq(0..MaxEvents)]
    <3>1. <<>> \in Seq(0..MaxEvents) /\ \A q \in Streams : queue[q] \in Seq(0..MaxEvents)
      BY DEF IInv, TypeOK
    <3>2. QED
      BY <3>1
  <2>2. current' \in [Keys -> 0..created'] /\ followed' \in [Streams -> 0..created']
        /\ created' \in 0..MaxRuns
    BY <1>1 DEF IInv, TypeOK
  <2>3. QED
    BY <1>1, <2>1, <2>2 DEF IInv, TypeOK, TaskState
<1>5. KeysHoldOwnRuns'
  <2>1. \A j \in Keys : current'[j] = IF j = k THEN r ELSE current[j]
    BY DEF IInv, TypeOK
  <2>2. \A x \in Runs : task'[x] = IF x = r THEN st ELSE task[x]
    BY DEF IInv, TypeOK
  <2>3. \A j \in Keys : j # k /\ current'[j] # None => task'[current'[j]] = task[current[j]]
    BY <1>1, <1>3, <2>1, <2>2 DEF Runs, None
  <2>4. QED
    BY <1>1, <1>3, <2>1, <2>2, <2>3, ConstantsAssumption
       DEF IInv, KeysHoldOwnRuns, Keys, Live, None
<1>6. NotYetCreated'
  BY <1>1 DEF IInv, NotYetCreated, TypeOK
<1>7. \A q \in Streams : mode[q] # "unused" =>
        q \notin S /\ followed[q] \in 1..created /\ followed[q] # r
  BY <1>1 DEF IInv, StreamsFollow, Follows
<1>8. StreamsFollow'
  <2> SUFFICES ASSUME NEW q \in Streams
               PROVE  IF mode'[q] = "unused" THEN Unused(q)' ELSE Follows(q, followed[q])'
    BY DEF StreamsFollow
  <2>1. CASE q \in S
    <3>1. Unused(q)
      BY <2>1 DEF IInv, StreamsFollow
    <3>2. /\ k \in Chats /\ st = "scheduled" /\ mode'[q] = "attached"
          /\ followed'[q] = r /\ keyOf'[q] = k /\ got'[q] = 0 /\ q \in queues'[r]
          /\ task'[r] = "scheduled" /\ current'[k] = r /\ published'[r] = 0
      BY <1>1, <1>2, <2>1, <3>1 DEF Unused, IInv, TypeOK
    <3>3. \A x \in Runs : q \in queues'[x] => x = r
      BY <1>1, <3>1 DEF Unused, IInv, TypeOK
    <3>4. QED
      BY <1>1, <3>2, <3>3 DEF Follows
  <2>2. CASE q \notin S
    <3>1. /\ mode'[q] = mode[q] /\ followed'[q] = followed[q] /\ keyOf'[q] = keyOf[q]
          /\ \A x \in Runs : q \in queues'[x] <=> q \in queues[x]
      BY <1>1, <1>2, <2>2 DEF IInv, TypeOK
    <3>2. CASE mode[q] = "unused"
      BY <3>1, <3>2 DEF IInv, StreamsFollow, Unused
    <3>3. CASE mode[q] # "unused"
      <4>1. Follows(q, followed[q]) /\ followed[q] \in Runs /\ followed[q] # r
        BY <1>1, <1>7, <3>3 DEF IInv, StreamsFollow, Runs
      <4>2. task'[followed[q]] = task[followed[q]]
        BY <4>1 DEF IInv, TypeOK
      <4>3. task[followed[q]] \notin Done => current'[keyOf[q]] = followed[q]
        <5> SUFFICES ASSUME task[followed[q]] \notin Done
                     PROVE  current'[keyOf[q]] = followed[q]
          OBVIOUS
        <5>1. current[keyOf[q]] = followed[q] /\ keyOf[q] \in Keys /\ followed[q] # None
          BY <4>1 DEF Follows, Keys, Runs, None
        <5>2. keyOf[q] # k
          BY <5>1 DEF Active
        <5>3. QED
          BY <5>1, <5>2 DEF IInv, TypeOK
      <4>4. QED
        BY <1>1, <3>1, <3>3, <4>1, <4>2, <4>3 DEF Follows
    <3>4. QED
      BY <3>2, <3>3
  <2>3. QED
    BY <2>1, <2>2
<1>9. QueuesHoldTheRest'
  <2> SUFFICES ASSUME NEW q \in Streams, mode'[q] \in OpenModes
               PROVE  Holds(queue'[q], got'[q], published'[followed'[q]],
                            task'[followed'[q]] = "finished")
    BY DEF QueuesHoldTheRest
  <2>1. CASE q \in S
    <3>1. got'[q] = 0 /\ followed'[q] = r /\ queue'[q] = <<>> /\ task'[r] # "finished"
          /\ published'[r] = 0
      BY <1>1, <1>2, <2>1 DEF IInv, StreamsFollow, Unused, TypeOK
    <3>2. QED
      <4>1. Holds(<<>>, 0, 0, FALSE)
        BY HoldsEmpty
      <4>2. QED
        BY <3>1, <4>1 DEF Holds
  <2>2. CASE q \notin S
    <3>1. mode[q] \in OpenModes /\ queue'[q] = queue[q] /\ followed'[q] = followed[q]
          /\ followed[q] # r /\ followed[q] \in Runs
      BY <2>2, <1>1, <1>7 DEF OpenModes, Runs
    <3>2. task'[followed[q]] = task[followed[q]]
      BY <3>1 DEF IInv, TypeOK
    <3>3. Holds(queue[q], got[q], published[followed[q]], task[followed[q]] = "finished")
      BY <3>1 DEF IInv, QueuesHoldTheRest
    <3>4. QED
      BY <3>1, <3>2, <3>3
  <2>3. QED
    BY <2>1, <2>2
<1>10. EndsAfterTheLastEvent' /\ ClosedStreamsDetached'
  <2> SUFFICES ASSUME NEW q \in Streams, mode'[q] \in {"ended", "left"}
               PROVE  /\ mode'[q] = mode[q] /\ followed'[q] = followed[q]
                      /\ task'[followed[q]] = task[followed[q]]
                      /\ queues'[followed[q]] = queues[followed[q]]
    BY DEF IInv, EndsAfterTheLastEvent, ClosedStreamsDetached
  <2>1. mode[q] \in {"ended", "left"} /\ q \notin S
    OBVIOUS
  <2>2. followed[q] \in Runs /\ followed[q] # r
    BY <1>1, <1>7, <2>1 DEF Runs
  <2>3. QED
    BY <2>1, <2>2 DEF IInv, TypeOK
<1>11. OneProducerPerChat'
  <2> SUFFICES ASSUME NEW x \in Runs,
                      task'[x] \in {"scheduled", "doomed", "running", "stopping"}
               PROVE  \E j \in Chats : current'[j] = x
    BY DEF OneProducerPerChat
  <2>1. CASE x = r
    BY <2>1, <1>1 DEF IInv, TypeOK, Keys
  <2>2. CASE x # r
    <3>1. task[x] \in {"scheduled", "doomed", "running", "stopping"}
      BY <2>2 DEF IInv, TypeOK
    <3>2. PICK j \in Chats : current[j] = x
      BY <3>1 DEF IInv, OneProducerPerChat
    <3>3. j # k
      BY <3>1, <3>2 DEF Active, Done, Runs, None
    <3>4. QED
      BY <3>2, <3>3 DEF IInv, TypeOK, Keys
  <2>3. QED
    BY <2>1, <2>2
<1>12. QED
  BY <1>4, <1>5, <1>6, <1>8, <1>9, <1>10, <1>11 DEF IInv

LEMMA StartIInv ==
  ASSUME IInv, NEW k \in Keys, NEW q \in Streams, Start(k, q)
  PROVE  IInv'
<1> DEFINE r == created + 1
<1>1. /\ created < MaxRuns /\ ~Active(k) /\ k \in Chats /\ mode[q] = "unused"
      /\ created' = r /\ current' = [current EXCEPT ![k] = r]
      /\ task' = [task EXCEPT ![r] = "scheduled"]
      /\ queues' = [queues EXCEPT ![r] = {q}]
      /\ published' = published /\ got' = got
  BY DEF Start, MayStart, Follow
<1>2. /\ mode' = [p \in Streams |-> IF p \in {q} THEN "attached" ELSE mode[p]]
      /\ followed' = [p \in Streams |-> IF p \in {q} THEN r ELSE followed[p]]
      /\ keyOf' = [p \in Streams |-> IF p \in {q} THEN k ELSE keyOf[p]]
      /\ queue' = [p \in Streams |-> IF p \in {q} THEN <<>> ELSE queue[p]]
  BY DEF Start, Follow, IInv, TypeOK
<1> HIDE DEF r
<1>3. QED
  BY <1>1, <1>2, NewRunIInv DEF r

LEMMA RegisterExternalIInv ==
  ASSUME IInv, NEW k \in Keys, RegisterExternal(k)
  PROVE  IInv'
<1> DEFINE r == created + 1
           S == {}
           st == "external"
<1>1. /\ created < MaxRuns /\ ~Active(k) /\ k \in ExternalKeys
      /\ created' = r /\ current' = [current EXCEPT ![k] = r]
      /\ task' = [task EXCEPT ![r] = st]
  BY DEF RegisterExternal, MayStart
<1>0. /\ queues' = queues /\ mode' = mode /\ followed' = followed /\ keyOf' = keyOf
      /\ queue' = queue
      /\ published' = published /\ got' = got
  BY DEF RegisterExternal, streamVars
<1>2. queues' = [queues EXCEPT ![r] = S]
  <2>1. r \in Runs => queues[r] = {}
    <3>1. created \in Nat /\ r > created
      BY DEF IInv, TypeOK
    <3>2. QED
      BY <3>1 DEF IInv, NotYetCreated
  <2>2. QED
    BY <1>0, <2>1 DEF IInv, TypeOK
<1>3. /\ mode' = [p \in Streams |-> IF p \in S THEN "attached" ELSE mode[p]]
      /\ followed' = [p \in Streams |-> IF p \in S THEN r ELSE followed[p]]
      /\ keyOf' = [p \in Streams |-> IF p \in S THEN k ELSE keyOf[p]]
      /\ queue' = [p \in Streams |-> IF p \in S THEN <<>> ELSE queue[p]]
  BY <1>0 DEF IInv, TypeOK
<1>4. S \in SUBSET Streams /\ S = {} /\ \A q \in S : mode[q] = "unused"
  OBVIOUS
<1>5. /\ r = created + 1 /\ UNCHANGED <<published, got>>
      /\ (k \in Chats /\ st = "scheduled") \/ (k \in ExternalKeys /\ st = "external" /\ S = {})
  BY <1>0, <1>1
<1> HIDE DEF r, S, st
<1>6. QED
  BY <1>1, <1>2, <1>3, <1>4, <1>5, NewRunIInv
-----------------------------------------------------------------------------
(* A step of the task of run r that does not end it regularly.             *)
LEMMA TaskIInv ==
  ASSUME IInv, NEW r \in Runs, NEW st \in (Live \ {"scheduled"}) \cup {"dropped"},
         task[r] \in Live, task' = [task EXCEPT ![r] = st],
         UNCHANGED <<created, current, published, queues, streamVars>>
  PROVE  IInv'
<1>1. /\ created' = created /\ current' = current /\ published' = published
      /\ queues' = queues /\ mode' = mode /\ followed' = followed /\ keyOf' = keyOf
      /\ queue' = queue /\ got' = got
      /\ \A x \in Runs : task'[x] = IF x = r THEN st ELSE task[x]
  BY DEF streamVars, IInv, TypeOK
<1>2. \A x \in Runs : /\ (task'[x] = "finished") <=> (task[x] = "finished")
                      /\ task'[x] = "external" <=> task[x] = "external"
                      /\ task'[x] = "none" <=> task[x] = "none"
                      /\ task'[x] \notin Done => task[x] \notin Done
                      /\ task[x] \in Done => task'[x] \in Done
                      /\ task'[x] \in Live => task[x] \in Live
                      /\ task[x] \in Live \cup {"dropped"}
                           => task'[x] \in Live \cup {"dropped"}
  BY <1>1 DEF Done, Live
<1>3. TypeOK'
  <2>1. task' \in [Runs -> TaskState]
    BY DEF IInv, TypeOK, TaskState, Live
  <2>2. QED
    BY <1>1, <2>1 DEF IInv, TypeOK
<1>4. \A k \in Keys : current[k] # None => current[k] \in Runs
  BY ConstantsAssumption DEF IInv, TypeOK, None, Runs
<1>5. \A q \in Streams : mode[q] # "unused" => followed[q] \in Runs
  BY ConstantsAssumption DEF IInv, StreamsFollow, Follows, TypeOK, Runs
<1>6. KeysHoldOwnRuns'
  BY <1>1, <1>2, <1>4 DEF IInv, KeysHoldOwnRuns, Keys
<1>7. NotYetCreated'
  BY <1>1, <1>2 DEF IInv, NotYetCreated
<1>8. StreamsFollow'
  BY <1>1, <1>2, <1>5 DEF IInv, StreamsFollow, Unused, Follows
<1>9. QueuesHoldTheRest'
  BY <1>1, <1>2, <1>5 DEF IInv, QueuesHoldTheRest, Holds, OpenModes
<1>10. EndsAfterTheLastEvent' /\ ClosedStreamsDetached'
  BY <1>1, <1>2, <1>5 DEF IInv, EndsAfterTheLastEvent, ClosedStreamsDetached
<1>11. OneProducerPerChat'
  BY <1>1, <1>2 DEF IInv, OneProducerPerChat, Live
<1>12. QED
  BY <1>3, <1>6, <1>7, <1>8, <1>9, <1>10, <1>11 DEF IInv

LEMMA ProducerTaskIInv ==
  ASSUME IInv, NEW r \in Runs, ProducerStarts(r) \/ ProducerDropped(r)
  PROVE  IInv'
<1>1. CASE ProducerStarts(r)
  BY <1>1, TaskIInv DEF ProducerStarts, Live
<1>2. CASE ProducerDropped(r)
  BY <1>2, TaskIInv DEF ProducerDropped, Live
<1>3. QED
  BY <1>1, <1>2

LEMMA RequestStopIInv ==
  ASSUME IInv, NEW k \in Keys, RequestStop(k)
  PROVE  IInv'
<1> DEFINE r == current[k]
           st == IF task[r] = "scheduled" THEN "doomed" ELSE "stopping"
<1>1. r \in Runs
  BY ConstantsAssumption DEF RequestStop, Active, IInv, TypeOK, Runs, None
<1>2. task' = [task EXCEPT ![r] = st]
  BY DEF RequestStop
<1>3. QED
  BY <1>1, <1>2, TaskIInv DEF RequestStop, Live

LEMMA PublishIInv ==
  ASSUME IInv, NEW r \in Runs, Publish(r)
  PROVE  IInv'
<1> DEFINE n == published[r] + 1
<1>1. /\ task[r] \in {"running", "stopping"} /\ published[r] < MaxEvents
      /\ published' = [published EXCEPT ![r] = n]
      /\ created' = created /\ current' = current /\ task' = task
      /\ queues' = queues /\ mode' = mode /\ followed' = followed /\ keyOf' = keyOf
      /\ got' = got
      /\ \A q \in Streams : queue'[q] = IF q \in queues[r] THEN Append(queue[q], n)
                                        ELSE queue[q]
      /\ queue' = [q \in Streams |-> queue'[q]]
  BY DEF Publish, Broadcast
<1>2. MaxEvents \in Nat /\ n \in Items /\ published[r] \in Nat
  BY <1>1, ConstantsAssumption DEF IInv, TypeOK, Items
<1>3. \A q \in Streams : queue[q] \in Seq(Items) /\ got[q] \in Nat
  BY DEF IInv, TypeOK, Items
<1> HIDE DEF n
<1>4. TypeOK'
  <2>1. ASSUME NEW q \in Streams PROVE queue'[q] \in Seq(Items)
    <3>1. queue[q] \in Seq(Items) /\ Append(queue[q], n) \in Seq(Items)
      BY <1>2, <1>3
    <3>2. QED
      BY <1>1, <3>1
  <2>2. queue' \in [Streams -> Seq(0..MaxEvents)]
    BY <1>1, <2>1 DEF Items
  <2>3. published' \in [Runs -> 0..MaxEvents]
    BY <1>1, <1>2 DEF IInv, TypeOK, Items
  <2>4. QED
    BY <1>1, <2>2, <2>3 DEF IInv, TypeOK
<1>5. KeysHoldOwnRuns' /\ OneProducerPerChat' /\ ClosedStreamsDetached'
  BY <1>1 DEF IInv, KeysHoldOwnRuns, OneProducerPerChat, ClosedStreamsDetached
<1>6. NotYetCreated'
  BY <1>1 DEF IInv, NotYetCreated, TypeOK
<1>7. \A x \in Runs : published'[x] = IF x = r THEN n ELSE published[x]
  BY <1>1 DEF IInv, TypeOK
<1>8. \A q \in Streams : mode[q] # "unused" => followed[q] \in Runs
  BY ConstantsAssumption DEF IInv, StreamsFollow, Follows, TypeOK, Runs
<1>9. StreamsFollow'
  <2> SUFFICES ASSUME NEW q \in Streams
               PROVE  IF mode'[q] = "unused" THEN Unused(q)' ELSE Follows(q, followed[q])'
    BY DEF StreamsFollow
  <2>1. CASE mode[q] = "unused"
    BY <1>1, <2>1 DEF IInv, StreamsFollow, Unused
  <2>2. CASE mode[q] # "unused"
    <3>1. Follows(q, followed[q]) /\ followed[q] \in Runs
      BY <1>8, <2>2 DEF IInv, StreamsFollow
    <3>2. got[q] =< published'[followed[q]]
      BY <1>2, <1>3, <1>7, <3>1 DEF Follows, n
    <3>3. QED
      BY <1>1, <2>2, <3>1, <3>2 DEF Follows
  <2>3. QED
    BY <2>1, <2>2
<1>10. QueuesHoldTheRest'
  <2> SUFFICES ASSUME NEW q \in Streams, mode[q] \in OpenModes
               PROVE  Holds(queue'[q], got[q], published'[followed[q]],
                            task[followed[q]] = "finished")
    BY <1>1 DEF QueuesHoldTheRest, Holds
  <2>1. /\ Holds(queue[q], got[q], published[followed[q]], task[followed[q]] = "finished")
        /\ Follows(q, followed[q]) /\ followed[q] \in Runs
    BY <1>8 DEF IInv, QueuesHoldTheRest, StreamsFollow, OpenModes
  <2>2. CASE followed[q] = r
    <3>1. q \in queues[r] /\ got[q] =< published[r]
      BY <2>1, <2>2 DEF Follows
    <3>2. Holds(queue[q], got[q], published[r], FALSE)
      BY <1>1, <2>1, <2>2 DEF Holds
    <3>3. Holds(Append(queue[q], n), got[q], n, FALSE)
      BY <1>2, <1>3, <3>1, <3>2, HoldsAppend DEF n
    <3>4. QED
      BY <1>1, <1>7, <2>2, <3>1, <3>3 DEF Holds
  <2>3. CASE followed[q] # r
    <3>1. q \notin queues[r]
      BY <2>1, <2>3 DEF Follows
    <3>2. QED
      BY <1>1, <1>7, <2>1, <2>3, <3>1 DEF Holds
  <2>4. QED
    BY <2>2, <2>3
<1>11. EndsAfterTheLastEvent'
  BY <1>1, <1>7, <1>8 DEF IInv, EndsAfterTheLastEvent
<1>12. QED
  BY <1>4, <1>5, <1>6, <1>9, <1>10, <1>11 DEF IInv

(* Run r of key k ends with n events.                                      *)
LEMMA FinishIInv ==
  ASSUME IInv, NEW k \in Keys, NEW r \in Runs, NEW n \in {published[r], published[r] + 1},
         current[k] = r, task[r] \notin Done, n =< MaxEvents,
         queue' = Final(r, n), published' = [published EXCEPT ![r] = n],
         task' = [task EXCEPT ![r] = "finished"], Forget(k),
         UNCHANGED <<created, queues, mode, followed, keyOf, got>>
  PROVE  IInv'
<1>1. MaxEvents \in Nat /\ n \in Items /\ published[r] \in Nat /\ n >= published[r] /\ n \in Nat
  BY ConstantsAssumption DEF IInv, TypeOK, Items
<1>2. /\ \A x \in Runs : published'[x] = IF x = r THEN n ELSE published[x]
      /\ \A x \in Runs : task'[x] = IF x = r THEN "finished" ELSE task[x]
      /\ \A j \in Keys : current'[j] = IF j = k THEN None ELSE current[j]
      /\ \A q \in Streams : q \notin queues[r] => queue'[q] = queue[q]
      /\ \A q \in Streams : q \in queues[r] =>
           queue'[q] = IF n = published[r] THEN Append(queue[q], Sentinel)
                       ELSE Append(Append(queue[q], n), Sentinel)
  BY DEF IInv, TypeOK, Forget, Final
<1>3. \A j \in Keys : j # k => current[j] # r
  BY DEF IInv, KeysHoldOwnRuns, Runs, None
<1>4. \A q \in Streams : mode[q] # "unused" => followed[q] \in Runs /\ Follows(q, followed[q])
  BY ConstantsAssumption DEF IInv, StreamsFollow, Follows, TypeOK, Runs
<1>5. ASSUME NEW q \in Streams, q \in queues[r], mode[q] \in OpenModes
      PROVE  queue'[q] \in Seq(Items) /\ Holds(queue'[q], got[q], n, TRUE)
  <2>1. queue[q] \in Seq(Items) /\ got[q] \in Nat
    BY DEF IInv, TypeOK, Items
  <2>2. followed[q] = r /\ got[q] =< published[r]
    BY <1>4, <1>5 DEF Follows, OpenModes
  <2>3. Holds(queue[q], got[q], published[r], FALSE)
    BY <1>5, <2>2 DEF IInv, QueuesHoldTheRest, Holds, Done
  <2>4. CASE n = published[r]
    <3>1. queue'[q] = Append(queue[q], Sentinel)
      BY <1>2, <1>5, <2>4
    <3>2. Holds(queue[q], got[q], n, FALSE) /\ got[q] =< n
      BY <2>2, <2>3, <2>4
    <3>3. /\ Append(queue[q], Sentinel) \in Seq(Items)
          /\ Holds(Append(queue[q], Sentinel), got[q], n, TRUE)
      BY <1>1, <2>1, <3>2, HoldsFinal
    <3>4. QED
      BY <3>1, <3>3
  <2>5. CASE n # published[r]
    <3> DEFINE t == Append(queue[q], n)
    <3>1. n = published[r] + 1
      BY <2>5
    <3>2. t \in Seq(Items) /\ Holds(t, got[q], n, FALSE)
      BY <1>1, <2>1, <2>2, <2>3, <3>1, HoldsAppend
    <3>3. got[q] =< n
      BY <1>1, <2>1, <2>2
    <3>4. queue'[q] = Append(t, Sentinel)
      BY <1>2, <1>5, <2>5
    <3> HIDE DEF t
    <3>5. Append(t, Sentinel) \in Seq(Items) /\ Holds(Append(t, Sentinel), got[q], n, TRUE)
      BY <1>1, <2>1, <3>2, <3>3, HoldsFinal
    <3>6. QED
      BY <3>4, <3>5
  <2>6. QED
    BY <2>4, <2>5
<1>6. TypeOK'
  <2>1. ASSUME NEW q \in Streams PROVE queue'[q] \in Seq(Items)
    <3>1. /\ queue[q] \in Seq(Items) /\ Sentinel \in Items
          /\ Append(queue[q], Sentinel) \in Seq(Items)
          /\ Append(queue[q], n) \in Seq(Items)
      <4>1. queue[q] \in Seq(Items) /\ Sentinel \in Items
        BY <1>1 DEF IInv, TypeOK, Items, Sentinel
      <4>2. QED
        BY <1>1, <4>1
    <3>2. Append(Append(queue[q], n), Sentinel) \in Seq(Items)
      BY <3>1
    <3>3. QED
      BY <1>2, <3>1, <3>2
  <2>2. queue' \in [Streams -> Seq(0..MaxEvents)]
    BY <2>1 DEF Final, Items
  <2>3. published' \in [Runs -> 0..MaxEvents] /\ task' \in [Runs -> TaskState]
    BY <1>1 DEF IInv, TypeOK, Items, TaskState
  <2>4. current' \in [Keys -> 0..created']
    BY DEF IInv, TypeOK, Forget, None
  <2>5. QED
    BY <2>2, <2>3, <2>4 DEF IInv, TypeOK
<1>7. KeysHoldOwnRuns'
  <2>1. \A j \in Keys : current'[j] # None => j # k /\ current'[j] = current[j]
    BY <1>2
  <2>2. \A j \in Keys : current'[j] # None =>
          task'[current'[j]] = task[current[j]] /\ current[j] # None
    <3>1. \A j \in Keys : current[j] # None => current[j] \in Runs
      BY ConstantsAssumption DEF IInv, TypeOK, None, Runs
    <3>2. QED
      BY <1>2, <1>3, <2>1, <3>1
  <2>3. QED
    BY <2>1, <2>2 DEF IInv, KeysHoldOwnRuns, Keys
<1>8. NotYetCreated'
  <2>1. r =< created
    BY ConstantsAssumption DEF IInv, TypeOK
  <2>2. QED
    BY <1>2, <2>1 DEF IInv, NotYetCreated, TypeOK, Runs
<1>9. StreamsFollow'
  <2> SUFFICES ASSUME NEW q \in Streams
               PROVE  IF mode[q] = "unused" THEN Unused(q)' ELSE Follows(q, followed[q])'
    BY DEF StreamsFollow
  <2>1. CASE mode[q] = "unused"
    BY <2>1 DEF IInv, StreamsFollow, Unused
  <2>2. CASE mode[q] # "unused"
    <3>1. Follows(q, followed[q]) /\ followed[q] \in Runs /\ got[q] \in Nat
          /\ published[followed[q]] \in Nat /\ keyOf[q] \in Keys
      BY <1>4, <2>2 DEF IInv, TypeOK
    <3>2. got[q] =< published'[followed[q]]
      BY <1>1, <1>2, <3>1 DEF Follows
    <3>3. task'[followed[q]] # "none"
      BY <1>2, <3>1 DEF Follows
    <3>4. task'[followed[q]] \notin Done => current'[keyOf[q]] = followed[q]
      BY <1>2, <1>3, <3>1 DEF Follows, Done
    <3>5. QED
      BY <2>2, <3>1, <3>2, <3>3, <3>4 DEF Follows
  <2>3. QED
    BY <2>1, <2>2
<1>10. QueuesHoldTheRest'
  <2> SUFFICES ASSUME NEW q \in Streams, mode[q] \in OpenModes
               PROVE  Holds(queue'[q], got[q], published'[followed[q]],
                            task'[followed[q]] = "finished")
    BY DEF QueuesHoldTheRest, Holds
  <2>1. /\ Holds(queue[q], got[q], published[followed[q]], task[followed[q]] = "finished")
        /\ Follows(q, followed[q]) /\ followed[q] \in Runs
    BY <1>4 DEF IInv, QueuesHoldTheRest, OpenModes
  <2>2. CASE followed[q] = r
    <3>1. q \in queues[r]
      BY <2>1, <2>2 DEF Follows
    <3>2. Holds(queue'[q], got[q], n, TRUE)
      BY <1>5, <3>1
    <3>3. QED
      BY <1>2, <2>2, <3>2 DEF Holds
  <2>3. CASE followed[q] # r
    <3>1. q \notin queues[r]
      BY <2>1, <2>3 DEF Follows
    <3>2. QED
      BY <1>2, <2>1, <2>3, <3>1 DEF Holds
  <2>4. QED
    BY <2>2, <2>3
<1>11. EndsAfterTheLastEvent' /\ ClosedStreamsDetached'
  BY <1>2, <1>4 DEF IInv, EndsAfterTheLastEvent, ClosedStreamsDetached, Done
<1>12. OneProducerPerChat'
  <2> SUFFICES ASSUME NEW x \in Runs,
                      task'[x] \in {"scheduled", "doomed", "running", "stopping"}
               PROVE  \E j \in Chats : current'[j] = x
    BY DEF OneProducerPerChat
  <2>1. x # r /\ task[x] \in {"scheduled", "doomed", "running", "stopping"}
    BY <1>2
  <2>2. PICK j \in Chats : current[j] = x
    BY <2>1 DEF IInv, OneProducerPerChat
  <2>3. QED
    BY <1>2, <2>1, <2>2 DEF Keys
<1>13. QED
  BY <1>6, <1>7, <1>8, <1>9, <1>10, <1>11, <1>12 DEF IInv

LEMMA ProducerEndsIInv ==
  ASSUME IInv, NEW k \in Keys, NEW r \in Runs, ProducerEnds(k, r)
  PROVE  IInv'
<1>1. PICK n \in {published[r], published[r] + 1} :
        n =< MaxEvents /\ queue' = Final(r, n) /\ published' = [published EXCEPT ![r] = n]
  BY DEF ProducerEnds
<1>2. task[r] \notin Done
  BY DEF ProducerEnds, Done
<1>3. QED
  BY <1>1, <1>2, FinishIInv DEF ProducerEnds

LEMMA UnregisterExternalIInv ==
  ASSUME IInv, NEW k \in Keys, UnregisterExternal(k)
  PROVE  IInv'
<1> DEFINE r == current[k]
           n == published[r]
<1>1. r \in Runs /\ task[r] = "external"
  BY ConstantsAssumption DEF UnregisterExternal, IInv, TypeOK, Runs, None, KeysHoldOwnRuns
<1>2. /\ task' = [task EXCEPT ![r] = "finished"] /\ Forget(k) /\ queue' = Final(r, n)
      /\ UNCHANGED <<created, queues, mode, followed, keyOf, got>>
      /\ n \in {published[r], published[r] + 1} /\ current[k] = r
  BY DEF UnregisterExternal
<1>3. published' = [published EXCEPT ![r] = n] /\ n =< MaxEvents
  BY <1>1, ConstantsAssumption DEF UnregisterExternal, IInv, TypeOK
<1>4. task[r] \notin Done
  BY <1>1 DEF Done
<1> HIDE DEF r, n
<1>5. QED
  BY <1>1, <1>2, <1>3, <1>4, FinishIInv
-----------------------------------------------------------------------------
(* A stream that only changes its mode, and stays on its list.             *)
LEMMA ModeIInv ==
  ASSUME IInv, NEW q \in Streams, Open(q) \/ Abandon(q)
  PROVE  IInv'
<1>1. /\ mode[q] = "attached" /\ mode'[q] \in {"reading", "abandoned"}
      /\ \A p \in Streams : p # q => mode'[p] = mode[p]
      /\ mode' \in [Streams -> {"unused", "attached", "abandoned", "reading",
                                "ended", "left"}]
      /\ created' = created /\ current' = current /\ task' = task
      /\ published' = published /\ queues' = queues
      /\ followed' = followed /\ keyOf' = keyOf /\ queue' = queue /\ got' = got
  BY DEF Open, Abandon, runVars, IInv, TypeOK
<1>2. TypeOK' /\ KeysHoldOwnRuns' /\ NotYetCreated' /\ OneProducerPerChat'
  BY <1>1 DEF IInv, TypeOK, KeysHoldOwnRuns, NotYetCreated, OneProducerPerChat
<1>3. StreamsFollow'
  BY <1>1 DEF IInv, StreamsFollow, Unused, Follows, OpenModes
<1>4. QueuesHoldTheRest'
  BY <1>1 DEF IInv, QueuesHoldTheRest, Holds, OpenModes
<1>5. EndsAfterTheLastEvent' /\ ClosedStreamsDetached'
  BY <1>1 DEF IInv, EndsAfterTheLastEvent, ClosedStreamsDetached
<1>6. QED
  BY <1>2, <1>3, <1>4, <1>5 DEF IInv

LEMMA FollowsARun ==
  ASSUME IInv, NEW q \in Streams, mode[q] # "unused"
  PROVE  followed[q] \in Runs /\ Follows(q, followed[q])
<1>1. Follows(q, followed[q])
  BY DEF IInv, StreamsFollow
<1>2. created \in Nat /\ created =< MaxRuns
  BY ConstantsAssumption DEF IInv, TypeOK
<1>3. QED
  BY <1>1, <1>2, ConstantsAssumption DEF Follows, Runs

LEMMA YieldIInv ==
  ASSUME IInv, NEW q \in Streams, Yield(q)
  PROVE  IInv'
<1> DEFINE f == followed[q]
<1>1. /\ mode[q] = "reading" /\ queue[q] # <<>> /\ Head(queue[q]) # Sentinel
      /\ got' = [got EXCEPT ![q] = Head(queue[q])]
      /\ queue' = [queue EXCEPT ![q] = Tail(queue[q])]
      /\ created' = created /\ current' = current /\ task' = task
      /\ published' = published /\ queues' = queues
      /\ followed' = followed /\ keyOf' = keyOf /\ mode' = mode
  BY DEF Yield, runVars
<1>2. f \in Runs /\ Follows(q, f)
  BY <1>1, FollowsARun
<1>3. /\ queue[q] \in Seq(Items) /\ got[q] \in Nat /\ published[f] \in Nat
      /\ got[q] =< published[f]
      /\ Holds(queue[q], got[q], published[f], task[f] = "finished")
  BY <1>1, <1>2 DEF IInv, TypeOK, Items, Follows, QueuesHoldTheRest, OpenModes
<1>4. /\ Head(queue[q]) \in Items /\ Tail(queue[q]) \in Seq(Items)
      /\ Head(queue[q]) = got[q] + 1 /\ got[q] + 1 =< published[f]
      /\ Holds(Tail(queue[q]), got[q] + 1, published[f], task[f] = "finished")
  <2> DEFINE fin == task[f] = "finished"
  <2>1. fin \in BOOLEAN
    OBVIOUS
  <2> HIDE DEF fin
  <2>2. Holds(queue[q], got[q], published[f], fin)
    BY <1>3 DEF fin
  <2>3. /\ Head(queue[q]) \in Items /\ Tail(queue[q]) \in Seq(Items)
        /\ Head(queue[q]) = got[q] + 1 /\ got[q] + 1 =< published[f]
        /\ Holds(Tail(queue[q]), got[q] + 1, published[f], fin)
    BY <1>1, <1>3, <2>1, <2>2, HoldsTail
  <2>4. QED
    BY <2>3 DEF fin
<1>5. /\ \A p \in Streams : got'[p] = IF p = q THEN got[q] + 1 ELSE got[p]
      /\ \A p \in Streams : queue'[p] = IF p = q THEN Tail(queue[q]) ELSE queue[p]
  BY <1>1, <1>4 DEF IInv, TypeOK
<1> HIDE DEF f
<1>6. TypeOK'
  BY <1>1, <1>4 DEF IInv, TypeOK, Items
<1>7. KeysHoldOwnRuns' /\ NotYetCreated' /\ OneProducerPerChat' /\ ClosedStreamsDetached'
  BY <1>1 DEF IInv, KeysHoldOwnRuns, NotYetCreated, OneProducerPerChat, ClosedStreamsDetached
<1>8. StreamsFollow'
  <2> SUFFICES ASSUME NEW p \in Streams
               PROVE  IF mode[p] = "unused" THEN Unused(p)' ELSE Follows(p, followed[p])'
    BY <1>1 DEF StreamsFollow
  <2>1. CASE p = q
    BY <1>1, <1>2, <1>4, <1>5, <2>1 DEF Follows, f
  <2>2. CASE p # q
    BY <1>1, <1>5, <2>2 DEF IInv, StreamsFollow, Unused, Follows
  <2>3. QED
    BY <2>1, <2>2
<1>9. QueuesHoldTheRest'
  <2> SUFFICES ASSUME NEW p \in Streams, mode[p] \in OpenModes
               PROVE  Holds(queue'[p], got'[p], published[followed[p]],
                            task[followed[p]] = "finished")
    BY <1>1 DEF QueuesHoldTheRest, Holds
  <2>1. CASE p = q
    BY <1>4, <1>5, <2>1 DEF Holds, f
  <2>2. CASE p # q
    BY <1>5, <2>2 DEF IInv, QueuesHoldTheRest, Holds
  <2>3. QED
    BY <2>1, <2>2
<1>10. EndsAfterTheLastEvent'
  BY <1>1, <1>5 DEF IInv, EndsAfterTheLastEvent
<1>11. QED
  BY <1>6, <1>7, <1>8, <1>9, <1>10 DEF IInv

(* A stream that is closed and detached; x is what is left in its queue.   *)
LEMMA CloseIInv ==
  ASSUME IInv, NEW q \in Streams, NEW md \in {"ended", "left"}, NEW x \in Seq(Items),
         mode[q] = "reading", mode' = [mode EXCEPT ![q] = md], Detach(q),
         md = "ended" => /\ task[followed[q]] = "finished"
                         /\ got[q] = published[followed[q]],
         queue' = [queue EXCEPT ![q] = x],
         UNCHANGED <<created, current, task, published, followed, keyOf, got>>
  PROVE  IInv'
<1> DEFINE f == followed[q]
           c == current[keyOf[q]]
<1>1. f \in Runs /\ Follows(q, f)
  BY ConstantsAssumption DEF IInv, StreamsFollow, Follows, TypeOK, Runs
<1>2. /\ \A r \in Runs : queues'[r] = IF r = c THEN queues[r] \ {q} ELSE queues[r]
      /\ queues' \in [Runs -> SUBSET Streams]
  BY DEF Detach, IInv, TypeOK
<1>3. /\ \A p \in Streams : mode'[p] = IF p = q THEN md ELSE mode[p]
      /\ \A p \in Streams : p # q => queue'[p] = queue[p]
      /\ \A p \in Streams, r \in Runs : p # q => (p \in queues'[r] <=> p \in queues[r])
  BY <1>2 DEF IInv, TypeOK
<1>4. task[f] \notin Done => q \notin queues'[f]
  BY <1>1, <1>2 DEF Follows
<1>5. TypeOK'
  BY <1>2 DEF IInv, TypeOK, Items
<1>6. KeysHoldOwnRuns' /\ OneProducerPerChat'
  BY DEF IInv, KeysHoldOwnRuns, OneProducerPerChat
<1>7. NotYetCreated'
  BY <1>2 DEF IInv, NotYetCreated
<1>8. StreamsFollow'
  <2> SUFFICES ASSUME NEW p \in Streams
               PROVE  IF mode'[p] = "unused" THEN Unused(p)' ELSE Follows(p, followed[p])'
    BY DEF StreamsFollow
  <2>1. CASE p = q
    <3>1. \A r \in Runs : q \in queues'[r] => r = f
      BY <1>1, <1>2 DEF Follows
    <3>2. mode'[q] = md /\ md \notin OpenModes /\ md # "unused"
      BY <1>3 DEF OpenModes
    <3>3. Follows(q, f)'
      BY <1>1, <3>1, <3>2 DEF Follows
    <3>4. QED
      BY <2>1, <3>2, <3>3
  <2>2. CASE p # q
    <3>1. mode'[p] = mode[p] /\ \A r \in Runs : p \in queues'[r] <=> p \in queues[r]
      BY <1>3, <2>2
    <3>2. CASE mode[p] = "unused"
      BY <3>1, <3>2 DEF IInv, StreamsFollow, Unused
    <3>3. CASE mode[p] # "unused"
      <4>1. Follows(p, followed[p]) /\ followed[p] \in Runs
        BY <3>3, FollowsARun
      <4>2. \A r \in Runs : p \in queues'[r] <=> p \in queues[r]
        BY <3>1
      <4>3. Follows(p, followed[p])'
        BY <3>1, <4>1, <4>2 DEF Follows
      <4>4. QED
        BY <3>1, <3>3, <4>3
    <3>4. QED
      BY <3>2, <3>3
  <2>3. QED
    BY <2>1, <2>2
<1>9. QueuesHoldTheRest'
  BY <1>3 DEF IInv, QueuesHoldTheRest, Holds, OpenModes
<1>10. EndsAfterTheLastEvent'
  BY <1>3 DEF IInv, EndsAfterTheLastEvent
<1>11. ClosedStreamsDetached'
  <2> SUFFICES ASSUME NEW p \in Streams, mode'[p] \in {"ended", "left"},
                      task[followed[p]] \notin Done
               PROVE  p \notin queues'[followed[p]]
    BY DEF ClosedStreamsDetached
  <2>1. CASE p = q
    BY <1>4, <2>1
  <2>2. CASE p # q
    <3>1. mode[p] \in {"ended", "left"} /\ p \notin queues[followed[p]]
      BY <1>3, <2>2 DEF IInv, ClosedStreamsDetached
    <3>2. followed[p] \in Runs
      BY <3>1, ConstantsAssumption DEF IInv, StreamsFollow, Follows, TypeOK, Runs
    <3>3. QED
      BY <1>3, <2>2, <3>1, <3>2
  <2>3. QED
    BY <2>1, <2>2
<1>12. QED
  BY <1>5, <1>6, <1>7, <1>8, <1>9, <1>10, <1>11 DEF IInv

LEMMA StreamEndsIInv ==
  ASSUME IInv, NEW q \in Streams, StreamEnds(q)
  PROVE  IInv'
<1> DEFINE f == followed[q]
           fin == task[f] = "finished"
<1>1. f \in Runs /\ got[q] =< published[f]
  BY ConstantsAssumption DEF StreamEnds, IInv, StreamsFollow, Follows, TypeOK, Runs
<1>2. /\ queue[q] \in Seq(Items) /\ got[q] \in Nat /\ published[f] \in Nat
      /\ Holds(queue[q], got[q], published[f], fin) /\ fin \in BOOLEAN
  BY <1>1 DEF StreamEnds, IInv, TypeOK, Items, QueuesHoldTheRest, OpenModes
<1>3. queue[q] # <<>> /\ Head(queue[q]) = Sentinel
  BY DEF StreamEnds
<1> HIDE DEF fin
<1>4. Tail(queue[q]) \in Seq(Items) /\ published[f] = got[q] /\ fin
  BY <1>1, <1>2, <1>3, HoldsTail
<1> DEFINE x == Tail(queue[q])
<1>5. /\ mode[q] = "reading" /\ mode' = [mode EXCEPT ![q] = "ended"] /\ Detach(q)
      /\ queue' = [queue EXCEPT ![q] = x]
      /\ UNCHANGED <<created, current, task, published, followed, keyOf, got>>
  BY DEF StreamEnds
<1>6. x \in Seq(Items) /\ task[followed[q]] = "finished" /\ got[q] = published[followed[q]]
  BY <1>4 DEF fin
<1> HIDE DEF x, f
<1>7. QED
  BY <1>5, <1>6, CloseIInv

LEMMA DisconnectIInv ==
  ASSUME IInv, NEW q \in Streams, Disconnect(q)
  PROVE  IInv'
<1> DEFINE x == queue[q]
<1>1. x \in Seq(Items) /\ queue' = [queue EXCEPT ![q] = x]
  BY DEF Disconnect, IInv, TypeOK, Items
<1>2. /\ mode[q] = "reading" /\ mode' = [mode EXCEPT ![q] = "left"] /\ Detach(q)
      /\ UNCHANGED <<created, current, task, published, followed, keyOf, got>>
  BY DEF Disconnect
<1> HIDE DEF x
<1>3. QED
  BY <1>1, <1>2, CloseIInv
-----------------------------------------------------------------------------
LEMMA NextIInv == IInv /\ [Next]_vars => IInv'
<1> SUFFICES ASSUME IInv, [Next]_vars PROVE IInv'
  OBVIOUS
<1>1. ASSUME NEW k \in Keys, KeyStep(k) PROVE IInv'
  BY <1>1, AttachIInv, StartIInv, RequestStopIInv, RegisterExternalIInv,
     UnregisterExternalIInv DEF KeyStep
<1>2. ASSUME NEW r \in Runs, ProducerStep(r) PROVE IInv'
  BY <1>2, ProducerTaskIInv, PublishIInv, ProducerEndsIInv DEF ProducerStep
<1>3. ASSUME NEW q \in Streams, StreamStep(q) PROVE IInv'
  BY <1>3, ModeIInv, YieldIInv, StreamEndsIInv, DisconnectIInv DEF StreamStep
<1>4. CASE UNCHANGED vars
  BY <1>4 DEF vars, IInv, TypeOK, KeysHoldOwnRuns, NotYetCreated, StreamsFollow, Unused,
     Follows, QueuesHoldTheRest, Holds, EndsAfterTheLastEvent, ClosedStreamsDetached,
     OneProducerPerChat
<1>5. QED
  BY <1>1, <1>2, <1>3, <1>4 DEF Next

(* The inductive invariant.                                                *)
THEOREM Invariance == Spec => []IInv
<1>1. QED
  BY InitIInv, NextIInv, PTL DEF Spec

(* Type correctness of the tracker.                                        *)
THEOREM TypeCorrect == Spec => []TypeOK
<1>1. IInv => TypeOK
  BY DEF IInv
<1>2. QED
  BY <1>1, Invariance, PTL

(* However streams attach, read and leave, and runs start, fail and stop:  *)
(* the queue of an open stream is the rest of its run, in order.           *)
THEOREM StreamsMissNothing == Spec => []NothingMissed
<1>1. IInv => NothingMissed
  <2> SUFFICES ASSUME IInv, NEW q \in Streams, mode[q] \in OpenModes
               PROVE  queue[q] = Backlog(q)
    BY DEF NothingMissed, OpenModes
  <2>1. followed[q] \in Runs /\ got[q] =< published[followed[q]]
    BY ConstantsAssumption DEF IInv, StreamsFollow, Follows, TypeOK, Runs, OpenModes
  <2>2. Holds(queue[q], got[q], published[followed[q]], task[followed[q]] = "finished")
    BY DEF IInv, QueuesHoldTheRest
  <2>3. QED
    BY <2>1, <2>2, HoldsIsBacklog DEF IInv
<1>2. QED
  BY <1>1, Invariance, PTL

(* A stream that ended by itself has yielded every event of its run.       *)
THEOREM StreamsEndComplete == Spec => []EndsAfterTheLastEvent
<1>1. IInv => EndsAfterTheLastEvent
  BY DEF IInv
<1>2. QED
  BY <1>1, Invariance, PTL

(* A closed stream is detached from a run that goes on.                    *)
THEOREM StreamsDetach == Spec => []ClosedStreamsDetached
<1>1. IInv => ClosedStreamsDetached
  BY DEF IInv
<1>2. QED
  BY <1>1, Invariance, PTL

(* A chat has at most one producer: every live producer is the current run *)
(* of a chat.                                                              *)
THEOREM OneProducer == Spec => []OneProducerPerChat
<1>1. IInv => OneProducerPerChat
  BY DEF IInv
<1>2. QED
  BY <1>1, Invariance, PTL
-----------------------------------------------------------------------------
(***************************************************************************)
(* The tracker implements RunLog.  A run that has not made its first step  *)
(* has no events, which is what RunLog allows a run that vanishes.         *)
(***************************************************************************)
SilentBefore ==
  \A r \in Runs : task[r] \in {"none", "scheduled", "doomed", "dropped"} =>
    published[r] = 0

LogInv == IInv /\ SilentBefore

LEMMA InitLogInv == Init => LogInv
<1>1. Init => SilentBefore
  BY DEF Init, SilentBefore
<1> QED
  BY <1>1, InitIInv DEF LogInv

(* Events are published by producers that have started, and no other task  *)
(* is taken back to a state before its first step.                         *)
LEMMA SilentStep ==
  ASSUME LogInv, [Next]_vars
  PROVE  SilentBefore'
<1> DEFINE Early == {"none", "scheduled", "doomed", "dropped"}
<1> USE DEF LogInv
<1>0. task \in [Runs -> TaskState] /\ published \in [Runs -> 0..MaxEvents]
      /\ \A k \in Keys : current[k] # None => current[k] \in Runs
  BY ConstantsAssumption DEF IInv, TypeOK, None, Runs
<1>1. ASSUME NEW r \in Runs, NEW st, task' = [task EXCEPT ![r] = st],
             published' = published, task[r] \in Early \/ st \notin Early
      PROVE  SilentBefore'
  BY <1>0, <1>1 DEF SilentBefore
<1>2. ASSUME NEW r \in Runs, NEW n, task[r] \notin Early, task'[r] \notin Early,
             \A x \in Runs \ {r} : task'[x] = task[x],
             published' = [published EXCEPT ![r] = n]
      PROVE  SilentBefore'
  BY <1>0, <1>2 DEF SilentBefore
<1>3. ASSUME NEW k \in Keys, KeyStep(k) PROVE SilentBefore'
  <2>1. ASSUME NEW q \in Streams, Attach(k, q) PROVE SilentBefore'
    BY <2>1 DEF Attach, SilentBefore
  <2>2. (\E q \in Streams : Start(k, q)) \/ RegisterExternal(k) => SilentBefore'
    <3>1. created + 1 \in Runs \/ created >= MaxRuns
      BY ConstantsAssumption DEF IInv, TypeOK, Runs
    <3>2. created + 1 \in Runs => task[created + 1] \in Early
      BY ConstantsAssumption DEF IInv, NotYetCreated, TypeOK
    <3>3. ASSUME NEW q \in Streams, Start(k, q) PROVE SilentBefore'
      <4>1. created + 1 \in Runs
        BY <3>1, <3>3, ConstantsAssumption DEF Start, MayStart, IInv, TypeOK
      <4>2. task' = [task EXCEPT ![created + 1] = "scheduled"] /\ published' = published
        BY <3>3 DEF Start
      <4> QED
        BY <1>1, <3>2, <4>1, <4>2
    <3>4. ASSUME RegisterExternal(k) PROVE SilentBefore'
      <4>1. created + 1 \in Runs
        BY <3>1, <3>4, ConstantsAssumption DEF RegisterExternal, MayStart, IInv, TypeOK
      <4>2. task' = [task EXCEPT ![created + 1] = "external"] /\ published' = published
        BY <3>4 DEF RegisterExternal
      <4> QED
        BY <1>1, <3>2, <4>1, <4>2
    <3> QED
      BY <3>3, <3>4
  <2>3. ASSUME RequestStop(k) PROVE SilentBefore'
    <3>1. current[k] \in Runs
      BY <1>0, <2>3 DEF RequestStop, Active
    <3>2. CASE task[current[k]] = "scheduled"
      BY <1>1, <2>3, <3>1, <3>2 DEF RequestStop
    <3>3. CASE task[current[k]] = "running"
      <4>1. task' = [task EXCEPT ![current[k]] = "stopping"] /\ published' = published
        BY <1>0, <2>3, <3>1, <3>3 DEF RequestStop
      <4> QED
        BY <1>1, <3>1, <4>1
    <3> QED
      BY <2>3, <3>2, <3>3 DEF RequestStop
  <2>4. ASSUME UnregisterExternal(k) PROVE SilentBefore'
    <3>1. current[k] \in Runs
      BY <1>0, <2>4 DEF UnregisterExternal
    <3>2. task' = [task EXCEPT ![current[k]] = "finished"] /\ published' = published
      BY <2>4 DEF UnregisterExternal
    <3> QED
      BY <1>1, <3>1, <3>2
  <2> QED
    BY <1>3, <2>1, <2>2, <2>3, <2>4 DEF KeyStep
<1>4. ASSUME NEW r \in Runs, ProducerStep(r) PROVE SilentBefore'
  <2>1. ASSUME ProducerStarts(r) PROVE SilentBefore'
    BY <1>1, <2>1 DEF ProducerStarts
  <2>2. ASSUME ProducerDropped(r) PROVE SilentBefore'
    BY <1>1, <2>2 DEF ProducerDropped
  <2>3. ASSUME Publish(r) PROVE SilentBefore'
    BY <1>2, <2>3 DEF Publish
  <2>4. ASSUME NEW k \in Keys, ProducerEnds(k, r) PROVE SilentBefore'
    <3>1. PICK n : published' = [published EXCEPT ![r] = n]
      BY <2>4 DEF ProducerEnds
    <3>2. task[r] \notin Early /\ task' = [task EXCEPT ![r] = "finished"]
      BY <2>4 DEF ProducerEnds
    <3>3. task'[r] \notin Early /\ \A x \in Runs \ {r} : task'[x] = task[x]
      BY <1>0, <3>2
    <3> QED
      BY <1>2, <3>1, <3>2, <3>3
  <2> QED
    BY <1>4, <2>1, <2>2, <2>3, <2>4 DEF ProducerStep
<1>5. ASSUME NEW q \in Streams, StreamStep(q) PROVE SilentBefore'
  <2>1. task' = task /\ published' = published
    BY <1>5 DEF StreamStep, Open, Abandon, Yield, StreamEnds, Disconnect, runVars
  <2> QED
    BY <2>1 DEF SilentBefore
<1>6. CASE UNCHANGED vars
  BY <1>6 DEF vars, SilentBefore
<1> QED
  BY <1>3, <1>4, <1>5, <1>6 DEF Next

LEMMA LogInvariant == Spec => []LogInv
<1>1. LogInv /\ [Next]_vars => LogInv'
  BY NextIInv, SilentStep DEF LogInv
<1> QED
  BY <1>1, InitLogInv, PTL DEF Spec
-----------------------------------------------------------------------------
(* How the steps of the tracker look in RunLog.                            *)

LEMMA RunOfKey ==
  ASSUME IInv, NEW k \in Keys, current[k] # None
  PROVE  current[k] \in Runs
BY ConstantsAssumption DEF IInv, TypeOK, None, Runs

(* A task that changes and neither ends nor was over: a stutter.           *)
LEMMA TaskStutters ==
  ASSUME IInv, NEW r \in Runs, NEW st, task' = [task EXCEPT ![r] = st],
         task[r] \notin Done, st \notin Done,
         UNCHANGED <<created, current, published, mode, followed, got>>
  PROVE  UNCHANGED Log!vars
<1>1. \A x \in Runs : task'[x] = IF x = r THEN st ELSE task[x]
  BY DEF IInv, TypeOK
<1>2. Lives' = Lives
  <2>1. \A k \in Keys : Active(k)' <=> Active(k)
    BY <1>1, RunOfKey DEF Active
  <2> QED
    BY <2>1 DEF Lives
<1>3. Closed' = Closed
  BY <1>1 DEF Closed, Done
<1>4. Statuses' = Statuses
  BY DEF Statuses
<1> QED
  BY <1>2, <1>3, <1>4 DEF Log!vars

(* A stream that changes neither the runs nor what it has read.            *)
LEMMA RunsUnchanged ==
  ASSUME UNCHANGED <<created, current, task, published>>
  PROVE  UNCHANGED Log!logVars
BY DEF Log!logVars, Lives, Active, Closed

(* The status of one stream changes.                                       *)
LEMMA StatusChanges ==
  ASSUME IInv, NEW q \in Streams, NEW m, mode' = [mode EXCEPT ![q] = m]
  PROVE  Statuses' = [Statuses EXCEPT ![q] = StatusOf(m)]
<1>1. \A p \in Streams : mode'[p] = IF p = q THEN m ELSE mode[p]
  BY DEF IInv, TypeOK
<1>2. \A p \in Streams : StatusOf(mode'[p]) = IF p = q THEN StatusOf(m) ELSE Statuses[p]
  BY <1>1 DEF Statuses
<1>3. Statuses' = [p \in Streams |-> StatusOf(mode'[p])]
  BY DEF Statuses, StatusOf
<1>4. Statuses' = [p \in Streams |-> IF p = q THEN StatusOf(m) ELSE Statuses[p]]
  BY <1>2, <1>3
<1>5. Statuses = [p \in Streams |-> Statuses[p]]
  BY DEF Statuses
<1> QED
  BY <1>4, <1>5

(* A new stream joins run f.                                               *)
LEMMA FollowJoins ==
  ASSUME IInv, NEW q \in Streams, NEW k, NEW f, NEW items,
         mode[q] = "unused", Follow(q, k, f, items)
  PROVE  Log!Joins(q, f)
<1>1. Statuses[q] = "new"
  BY DEF Statuses, StatusOf
<1>2. Statuses' = [Statuses EXCEPT ![q] = "reading"]
  BY StatusChanges DEF Follow, StatusOf
<1> QED
  BY <1>1, <1>2 DEF Log!Joins, Follow

LEMMA AttachMaps ==
  ASSUME IInv, NEW k \in Keys, NEW q \in Streams, Attach(k, q)
  PROVE  Log!ReaderStep(q)
<1>1. Lives[k] = current[k] /\ Lives[k] # None
  BY DEF Attach, Active, Lives
<1>2. Log!Joins(q, Lives[k])
  BY <1>1, FollowJoins DEF Attach
<1>3. UNCHANGED Log!logVars
  BY RunsUnchanged DEF Attach
<1>4. Log!Join(k, q)
  BY <1>1, <1>2, <1>3 DEF Log!Join
<1> QED
  BY <1>4 DEF Log!ReaderStep

(* A new run begins.                                                       *)
LEMMA NewRunBegins ==
  ASSUME IInv, NEW k \in Keys, NEW r, NEW st, r = created + 1,
         created < MaxRuns, ~Active(k), st \notin Done,
         created' = r, current' = [current EXCEPT ![k] = r],
         task' = [task EXCEPT ![r] = st], UNCHANGED published
  PROVE  r \in Runs /\ Log!Begin(k, r)
<1>1. r \in Runs /\ created \in Nat /\ r # None
  BY ConstantsAssumption DEF IInv, TypeOK, Runs, None
<1>2. r \notin 1..created /\ 1..created' = 1..created \cup {r}
  BY <1>1
<1>3. task[r] = "none"
  BY <1>1 DEF IInv, NotYetCreated
<1>4. \A x \in Runs : task'[x] = IF x = r THEN st ELSE task[x]
  BY DEF IInv, TypeOK
<1>5. \A j \in Keys : /\ current'[j] = IF j = k THEN r ELSE current[j]
                      /\ current[j] # r
  BY <1>1 DEF IInv, TypeOK
<1>6. Lives[k] = None
  BY DEF Lives
<1>7. Lives' = [Lives EXCEPT ![k] = r]
  <2>1. Active(k)'
    BY <1>1, <1>4, <1>5 DEF Active
  <2>2. \A j \in Keys : j # k => (Active(j)' <=> Active(j))
    BY <1>4, <1>5, RunOfKey DEF Active
  <2>3. \A j \in Keys : Lives'[j] = IF j = k THEN r ELSE Lives[j]
    BY <1>5, <2>1, <2>2 DEF Lives
  <2> QED
    BY <2>3 DEF Lives
<1>8. Closed' = Closed
  BY <1>3, <1>4 DEF Closed, Done
<1> QED
  BY <1>1, <1>2, <1>6, <1>7, <1>8 DEF Log!Begin

LEMMA StartMaps ==
  ASSUME IInv, NEW k \in Keys, NEW q \in Streams, Start(k, q)
  PROVE  Log!ReaderStep(q)
<1>1. created + 1 \in Runs /\ Log!Begin(k, created + 1)
  <2>1. "scheduled" \notin Done
    BY DEF Done
  <2> QED
    BY <2>1, NewRunBegins DEF Start, MayStart
<1>2. Log!Joins(q, created + 1)
  BY FollowJoins DEF Start
<1> QED
  BY <1>1, <1>2 DEF Log!ReaderStep, Log!BeginWith

LEMMA RegisterMaps ==
  ASSUME IInv, NEW k \in Keys, RegisterExternal(k)
  PROVE  Log!TopicStep(k)
<1>1. created + 1 \in Runs /\ Log!Begin(k, created + 1)
  <2>1. "external" \notin Done
    BY DEF Done
  <2> QED
    BY <2>1, NewRunBegins DEF RegisterExternal, MayStart
<1>2. UNCHANGED <<Statuses, followed, got>>
  BY DEF RegisterExternal, streamVars, Statuses
<1> QED
  BY <1>1, <1>2 DEF Log!TopicStep, Log!BeginAlone

(* A live run r of key k ends: it is then the run of no key.               *)
LEMMA RunEndsLives ==
  ASSUME IInv, NEW k \in Keys, NEW r \in Runs, NEW st \in Done,
         current[k] = r, task[r] \notin Done, task' = [task EXCEPT ![r] = st],
         current' = current \/ current' = [current EXCEPT ![k] = None]
  PROVE  /\ Lives[k] = r /\ Lives[k] # None
         /\ Lives' = [Lives EXCEPT ![k] = None]
<1>1. r # None
  BY DEF Runs, None
<1>2. Active(k)
  BY <1>1 DEF Active
<1>3. \A x \in Runs : task'[x] = IF x = r THEN st ELSE task[x]
  BY DEF IInv, TypeOK
<1>4. \A j \in Keys : j # k => current[j] # r /\ current'[j] = current[j]
  BY <1>1 DEF IInv, KeysHoldOwnRuns, TypeOK
<1>5. current'[k] \in {r, None}
  BY DEF IInv, TypeOK
<1>6. ~Active(k)'
  BY <1>3, <1>5 DEF Active
<1>7. \A j \in Keys : j # k => (Active(j)' <=> Active(j))
  BY <1>3, <1>4, RunOfKey DEF Active
<1>8. \A j \in Keys : Lives'[j] = IF j = k THEN None ELSE Lives[j]
  BY <1>4, <1>6, <1>7 DEF Lives
<1>9. Lives' = [Lives EXCEPT ![k] = None]
  BY <1>8 DEF Lives
<1> QED
  BY <1>1, <1>2, <1>9 DEF Lives

LEMMA FinishMaps ==
  ASSUME IInv, NEW k \in Keys, NEW r \in Runs, NEW n \in {0, 1},
         current[k] = r, task[r] \notin Done,
         task' = [task EXCEPT ![r] = "finished"],
         current' = [current EXCEPT ![k] = None],
         published' = [published EXCEPT ![r] = @ + n],
         UNCHANGED <<created, mode, followed, got>>
  PROVE  Log!TopicStep(k)
<1>1. "finished" \in Done
  BY DEF Done
<1>2. Lives[k] = r /\ Lives[k] # None /\ Lives' = [Lives EXCEPT ![k] = None]
  BY <1>1, RunEndsLives
<1>3. Closed' = [Closed EXCEPT ![r] = TRUE]
  <2>1. \A x \in Runs : task'[x] = IF x = r THEN "finished" ELSE task[x]
    BY DEF IInv, TypeOK
  <2> QED
    BY <2>1 DEF Closed
<1>4. Statuses' = Statuses
  BY DEF Statuses
<1>5. Log!Finish(k)
  BY <1>2, <1>3, <1>4 DEF Log!Finish
<1> QED
  BY <1>5 DEF Log!TopicStep

LEMMA ProducerEndsMaps ==
  ASSUME IInv, NEW k \in Keys, NEW r \in Runs, ProducerEnds(k, r)
  PROVE  Log!TopicStep(k)
<1>1. task[r] \notin Done /\ current[k] = r
  BY DEF ProducerEnds, Done
<1>2. published[r] \in Nat
  BY ConstantsAssumption DEF IInv, TypeOK
<1>3. PICK n \in {published[r], published[r] + 1} :
        published' = [published EXCEPT ![r] = n]
  BY DEF ProducerEnds
<1>4. PICK e \in {0, 1} : n = published[r] + e
  BY <1>2, <1>3
<1>5. published' = [published EXCEPT ![r] = @ + e]
  BY <1>3, <1>4 DEF IInv, TypeOK
<1> QED
  BY <1>1, <1>5, FinishMaps DEF ProducerEnds, Forget

LEMMA UnregisterMaps ==
  ASSUME IInv, NEW k \in Keys, UnregisterExternal(k)
  PROVE  Log!TopicStep(k)
<1> DEFINE r == current[k]
<1>1. r \in Runs /\ k \in ExternalKeys /\ r # None
  BY RunOfKey DEF UnregisterExternal
<1>2. task[r] \notin Done
  BY <1>1 DEF IInv, KeysHoldOwnRuns, Done
<1>3. published[r] \in Nat
  BY <1>1, ConstantsAssumption DEF IInv, TypeOK
<1>4. published' = [published EXCEPT ![r] = @ + 0]
  BY <1>1, <1>3 DEF UnregisterExternal, IInv, TypeOK
<1> QED
  BY <1>1, <1>2, <1>4, FinishMaps DEF UnregisterExternal, Forget

LEMMA DroppedMaps ==
  ASSUME LogInv, NEW r \in Runs, ProducerDropped(r)
  PROVE  \E k \in Keys : Log!TopicStep(k)
<1> USE DEF LogInv
<1>1. PICK k \in Chats : current[k] = r
  BY DEF ProducerDropped, IInv, OneProducerPerChat
<1>2. k \in Keys /\ "dropped" \in Done /\ task[r] \notin Done
  BY DEF Keys, Done, ProducerDropped
<1>3. Lives[k] = r /\ Lives[k] # None /\ Lives' = [Lives EXCEPT ![k] = None]
  BY <1>1, <1>2, RunEndsLives DEF ProducerDropped
<1>4. published[r] = 0
  BY DEF ProducerDropped, SilentBefore
<1>5. Closed' = Closed
  <2>1. \A x \in Runs : task'[x] = IF x = r THEN "dropped" ELSE task[x]
    BY DEF ProducerDropped, IInv, TypeOK
  <2> QED
    BY <2>1 DEF Closed, ProducerDropped
<1>6. UNCHANGED <<created, published, Statuses, followed, got>>
  BY DEF ProducerDropped, streamVars, Statuses
<1>7. Log!Vanish(k)
  BY <1>3, <1>4, <1>5, <1>6 DEF Log!Vanish
<1> QED
  BY <1>2, <1>7 DEF Log!TopicStep

LEMMA PublishMaps ==
  ASSUME IInv, NEW r \in Runs, Publish(r)
  PROVE  \E k \in Keys : Log!TopicStep(k)
<1>1. PICK k \in Chats : current[k] = r
  BY DEF Publish, IInv, OneProducerPerChat
<1>2. k \in Keys /\ task[r] \notin Done /\ r # None
  BY DEF Keys, Done, Publish, Runs, None
<1>3. Lives[k] = r
  BY <1>1, <1>2 DEF Lives, Active
<1>4. UNCHANGED <<created, Lives, Closed, Statuses, followed, got>>
  BY DEF Publish, Lives, Active, Closed, Statuses
<1>5. published' = [published EXCEPT ![Lives[k]] = @ + 1]
  BY <1>3 DEF Publish
<1>6. Log!Publish(k)
  BY <1>2, <1>3, <1>4, <1>5 DEF Log!Publish
<1> QED
  BY <1>2, <1>6 DEF Log!TopicStep

(* What a stream takes from its queue is the next event of its log.        *)
LEMMA YieldMaps ==
  ASSUME IInv, NEW q \in Streams, Yield(q)
  PROVE  Log!ReaderStep(q)
<1> DEFINE f == followed[q]
           fin == task[f] = "finished"
<1>1. mode[q] = "reading" /\ queue[q] # <<>> /\ Head(queue[q]) # Sentinel
  BY DEF Yield
<1>2. f \in Runs /\ got[q] =< published[f]
  BY <1>1, FollowsARun DEF Follows
<1>3. queue[q] \in Seq(Items) /\ got[q] \in Nat /\ published[f] \in Nat /\ fin \in BOOLEAN
  BY <1>2, ConstantsAssumption DEF IInv, TypeOK, Items
<1>4. Holds(queue[q], got[q], published[f], fin)
  BY <1>1 DEF IInv, QueuesHoldTheRest, OpenModes
<1> HIDE DEF fin
<1>5. Head(queue[q]) = got[q] + 1 /\ got[q] + 1 =< published[f]
  BY <1>1, <1>2, <1>3, <1>4, HoldsTail
<1>6. got' = [got EXCEPT ![q] = @ + 1]
  BY <1>5 DEF Yield, IInv, TypeOK
<1>7. got[q] < published[f]
  BY <1>3, <1>5
<1>8. Statuses[q] = "reading" /\ UNCHANGED <<Statuses, followed>> /\ UNCHANGED Log!logVars
  BY <1>1, RunsUnchanged DEF Statuses, StatusOf, Yield, runVars
<1>9. Log!Read(q)
  BY <1>6, <1>7, <1>8 DEF Log!Read
<1> QED
  BY <1>9 DEF Log!ReaderStep

(* The sentinel comes after the last event.                                *)
LEMMA StreamEndsMaps ==
  ASSUME IInv, NEW q \in Streams, StreamEnds(q)
  PROVE  Log!ReaderStep(q)
<1> DEFINE f == followed[q]
           fin == task[f] = "finished"
<1>1. mode[q] = "reading" /\ queue[q] # <<>> /\ Head(queue[q]) = Sentinel
  BY DEF StreamEnds
<1>2. f \in Runs /\ got[q] =< published[f]
  BY <1>1, FollowsARun DEF Follows
<1>3. queue[q] \in Seq(Items) /\ got[q] \in Nat /\ published[f] \in Nat /\ fin \in BOOLEAN
  BY <1>2, ConstantsAssumption DEF IInv, TypeOK, Items
<1>4. Holds(queue[q], got[q], published[f], fin)
  BY <1>1 DEF IInv, QueuesHoldTheRest, OpenModes
<1> HIDE DEF fin
<1>5. got[q] = published[f] /\ fin
  BY <1>1, <1>2, <1>3, <1>4, HoldsTail
<1>6. Closed[f]
  BY <1>2, <1>5 DEF Closed, fin
<1>7. Statuses' = [Statuses EXCEPT ![q] = "complete"]
  BY StatusChanges DEF StreamEnds, StatusOf
<1>8. Statuses[q] = "reading" /\ UNCHANGED <<followed, got>> /\ UNCHANGED Log!logVars
  BY <1>1, RunsUnchanged DEF Statuses, StatusOf, StreamEnds
<1>9. Log!Complete(q)
  BY <1>5, <1>6, <1>7, <1>8 DEF Log!Complete
<1> QED
  BY <1>9 DEF Log!ReaderStep

LEMMA LeaveMaps ==
  ASSUME IInv, NEW q \in Streams, Abandon(q) \/ Disconnect(q)
  PROVE  Log!ReaderStep(q)
<1>1. Statuses[q] = "reading"
  BY DEF Abandon, Disconnect, Statuses, StatusOf
<1>2. Statuses' = [Statuses EXCEPT ![q] = "left"]
  BY StatusChanges DEF Abandon, Disconnect, StatusOf
<1>3. UNCHANGED <<followed, got>> /\ UNCHANGED Log!logVars
  BY RunsUnchanged DEF Abandon, Disconnect, runVars
<1>4. Log!Leave(q)
  BY <1>1, <1>2, <1>3 DEF Log!Leave
<1> QED
  BY <1>4 DEF Log!ReaderStep

LEMMA OpenStutters ==
  ASSUME IInv, NEW q \in Streams, Open(q)
  PROVE  UNCHANGED Log!vars
<1>1. Statuses' = Statuses
  <2>1. Statuses' = [Statuses EXCEPT ![q] = "reading"] /\ Statuses[q] = "reading"
    BY StatusChanges DEF Open, StatusOf, Statuses
  <2> QED
    BY <2>1 DEF Statuses
<1>2. UNCHANGED <<followed, got>> /\ UNCHANGED Log!logVars
  BY RunsUnchanged DEF Open, runVars
<1> QED
  BY <1>1, <1>2 DEF Log!vars, Log!logVars

LEMMA LogStep ==
  ASSUME LogInv, [Next]_vars
  PROVE  [Log!Next]_(Log!vars)
<1> USE DEF LogInv
<1>1. ASSUME NEW k \in Keys, KeyStep(k) PROVE [Log!Next]_(Log!vars)
  <2>1. ASSUME NEW q \in Streams, Attach(k, q) \/ Start(k, q) PROVE Log!ReaderStep(q)
    BY <2>1, AttachMaps, StartMaps
  <2>2. ASSUME RequestStop(k) PROVE UNCHANGED Log!vars
    <3> DEFINE r == current[k]
               st == IF task[r] = "scheduled" THEN "doomed" ELSE "stopping"
    <3>1. r \in Runs /\ task[r] \notin Done /\ st \notin Done
      BY <2>2, RunOfKey DEF RequestStop, Active, Done
    <3>2. task' = [task EXCEPT ![r] = st]
      BY <2>2 DEF RequestStop
    <3>3. UNCHANGED <<created, current, published, mode, followed, got>>
      BY <2>2 DEF RequestStop, streamVars
    <3> HIDE DEF r, st
    <3> QED
      BY <3>1, <3>2, <3>3, TaskStutters
  <2> QED
    BY <1>1, <2>1, <2>2, RegisterMaps, UnregisterMaps DEF KeyStep, Log!Next
<1>2. ASSUME NEW r \in Runs, ProducerStep(r) PROVE [Log!Next]_(Log!vars)
  <2>1. ASSUME ProducerStarts(r) PROVE UNCHANGED Log!vars
    <3>1. task[r] \notin Done /\ "running" \notin Done
      BY <2>1 DEF ProducerStarts, Done
    <3> QED
      BY <2>1, <3>1, TaskStutters DEF ProducerStarts, streamVars
  <2> QED
    BY <1>2, <2>1, PublishMaps, DroppedMaps, ProducerEndsMaps DEF ProducerStep, Log!Next
<1>3. ASSUME NEW q \in Streams, StreamStep(q) PROVE [Log!Next]_(Log!vars)
  BY <1>3, OpenStutters, LeaveMaps, YieldMaps, StreamEndsMaps DEF StreamStep, Log!Next
<1>4. CASE UNCHANGED vars
  <2>1. Statuses' = Statuses
    BY <1>4 DEF vars, Statuses
  <2> QED
    BY <1>4, <2>1, RunsUnchanged DEF vars, Log!vars, Log!logVars
<1> QED
  BY <1>1, <1>2, <1>3, <1>4 DEF Next

(* Whatever is queued, replayed and detached: a stream of the tracker is a *)
(* reader of its run's log, which it reads from the first event on and is  *)
(* told to be complete after the last; a chat has one run at a time.       *)
THEOREM TrackerImplementsLog == Spec => ImplementsLog
<1>1. Init => Log!Init
  <2> SUFFICES ASSUME Init PROVE Log!Init
    OBVIOUS
  <2>1. 1..created = {}
    BY DEF Init
  <2>2. Lives = [k \in Keys |-> None]
    BY DEF Init, Lives, Active
  <2>3. Closed = [r \in Runs |-> FALSE]
    BY DEF Init, Closed
  <2>4. Statuses = [q \in Streams |-> "new"]
    BY DEF Init, Statuses, StatusOf
  <2> QED
    BY <2>1, <2>2, <2>3, <2>4 DEF Init, Log!Init
<1>2. LogInv /\ [Next]_vars => [Log!Next]_(Log!vars)
  BY LogStep
<1> QED
  BY <1>1, <1>2, LogInvariant, PTL DEF Spec, ImplementsLog, Log!Spec
=============================================================================
