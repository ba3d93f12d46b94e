--------------------------- MODULE CronJobsProofs ---------------------------
(***************************************************************************)
(* Proofs about CronJobs, for every number of managers, of executions and  *)
(* of requests, and every limit of concurrency and of the history.         *)
(***************************************************************************)
EXTENDS CronJobs, SequenceTheorems, FiniteSetTheorems, NaturalsInduction, TLAPS

Execution ==
  [at : InFlight \cup {"ended", "dropped"}, by : Managers,
   trigger : {"scheduled", "manual"}, job : Specs \cup {None},
   sem : Nat, st : Nat, cancelled : BOOLEAN]

(* What TypeOK says, without the bounds on the numbers of objects.         *)
TypeInv ==
  /\ stored \in Specs \cup {None}
  /\ records \in Seq(Nat) /\ file \subseteq DOMAIN records
  /\ life \in [Managers -> {"new", "started", "stopped"}]
  /\ sched \in [Managers -> {"none", "armed", "paused"}]
  /\ sem \in [Managers -> Nat]
  /\ state \in [Managers -> Nat]
  /\ cache \in [Managers -> (SUBSET Nat) \cup {None}]
  /\ limits \in Seq(Limits)
  /\ status \in Seq(Statuses)
  /\ run \in Seq(Execution)
  /\ lost \subseteq DOMAIN records /\ unwritten \subseteq Runs
  /\ outlived \subseteq Runs /\ behind \subseteq Managers

(* Managers, executions and records refer to what has been made.           *)
RefersToMade ==
  /\ \A m \in Managers : /\ sem[m] <= Len(limits) /\ state[m] <= Len(status)
                         /\ cache[m] = None \/ cache[m] \subseteq DOMAIN records
  /\ \A n \in DOMAIN records : records[n] \in Runs
  /\ \A r \in Runs : run[r].sem <= Len(limits) /\ run[r].st <= Len(status)

(* A manager that has not started has shown nothing and called nothing.    *)
NewIsIdle ==
  /\ \A m \in Managers : life[m] = "new" => cache[m] = None
  /\ \A m \in Managers : sched[m] # "none" => life[m] # "new"
  /\ \A r \in Runs : life[run[r].by] # "new"

(* An execution that waits or runs has been given a job, and after the job *)
(* is deleted only executions that had it are left to run or recorded.     *)
JobsInv ==
  /\ \A r \in Runs : run[r].at \in {"waiting", "executing"} => run[r].job # None
  /\ stored = None => /\ \A r \in Runs : HasJob(r) => r \in outlived
                      /\ \A n \in file : records[n] \in outlived

(* Every state object is used by one manager and by its executions only,   *)
(* and says "running" while one of them runs.                              *)
StatesInv ==
  /\ \A r \in Runs : run[r].at = "executing" => run[r].st # 0
  /\ \A r \in Runs, m \in Managers :
        run[r].at = "executing" /\ run[r].st = state[m] => run[r].by = m
  /\ \A r, q \in Runs :
        run[r].at = "executing" /\ run[q].at = "executing" /\ run[r].st = run[q].st =>
            run[r].by = run[q].by
  /\ \A m, n \in Managers : state[m] = state[n] /\ state[m] # 0 => m = n
  /\ \A s \in DOMAIN status :
        status[s] = "running" => \E r \in Runs : run[r].at = "executing" /\ run[r].st = s

IInv == TypeInv /\ RefersToMade /\ NewIsIdle /\ HistoryKept /\ JobsInv /\ StatesInv
-----------------------------------------------------------------------------
(***************************************************************************)
(* How the sequences of objects and of executions change                   *)
(***************************************************************************)

LEMMA Lengths ==
  ASSUME TypeInv
  PROVE  /\ Len(run) \in Nat /\ Runs = 1..Len(run)
         /\ Len(limits) \in Nat
         /\ Len(status) \in Nat /\ DOMAIN status = 1..Len(status)
         /\ \A r \in Runs : run[r] \in Execution
<1>1. /\ run \in Seq(Execution) /\ limits \in Seq(Limits) /\ status \in Seq(Statuses)
  BY DEF TypeInv
<1>2. Len(run) \in Nat /\ run \in [1..Len(run) -> Execution] /\ Runs = 1..Len(run)
  BY <1>1, LenProperties DEF Runs
<1> QED
  BY <1>1, <1>2, LenProperties

LEMMA RunExcept ==
  ASSUME TypeInv, NEW r \in Runs, NEW e \in Execution, run' = [run EXCEPT ![r] = e]
  PROVE  /\ run' \in Seq(Execution) /\ Runs' = Runs
         /\ run'[r] = e /\ \A q \in Runs \ {r} : run'[q] = run[q]
<1>1. run \in Seq(Execution) /\ r \in 1..Len(run)
  BY Lengths DEF TypeInv
<1>2. run' \in Seq(Execution)
  BY <1>1, ExceptSeq
<1> QED
  BY <1>1, <1>2 DEF Runs

LEMMA CalledRun ==
  ASSUME TypeInv, NEW m \in Managers, NEW trigger \in {"scheduled", "manual"},
         NEW job \in Specs \cup {None}, Called(m, trigger, job)
  PROVE  /\ run' \in Seq(Execution) /\ Runs \subseteq Runs'
         /\ \A r \in Runs : run'[r] = run[r]
         /\ \A r \in Runs' \ Runs :
               /\ run'[r].at = "called" /\ run'[r].by = m /\ run'[r].job = job
               /\ run'[r].sem = 0 /\ run'[r].st = 0
<1> DEFINE e == [at |-> "called", by |-> m, trigger |-> trigger, job |-> job,
                 sem |-> 0, st |-> 0, cancelled |-> FALSE]
<1>1. e \in Execution
  BY DEF Execution, InFlight
<1>2. run' = Append(run, e) /\ run \in Seq(Execution)
  BY DEF Called, TypeInv
<1>3. /\ e.at = "called" /\ e.by = m /\ e.job = job /\ e.sem = 0 /\ e.st = 0
  OBVIOUS
<1> HIDE DEF e
<1>4. /\ run' \in Seq(Execution) /\ Len(run') = Len(run) + 1
      /\ \A i \in 1..Len(run) : run'[i] = run[i]
      /\ run'[Len(run) + 1] = e
  BY <1>1, <1>2, AppendProperties
<1>5. /\ Runs' = 1..(Len(run) + 1) /\ Runs = 1..Len(run) /\ Len(run) \in Nat
  BY <1>4, Lengths, LenProperties DEF Runs
<1> QED
  BY <1>3, <1>4, <1>5

LEMMA BeginRun ==
  ASSUME TypeInv, NEW r \in Runs, Begin(r), sem'[run[r].by] \in Nat
  PROVE  /\ run' \in Seq(Execution) /\ Runs' = Runs
         /\ \A q \in Runs \ {r} : run'[q] = run[q]
         /\ run'[r].by = run[r].by /\ run'[r].st = run[r].st
         /\ \/ run'[r].at = "dropped" /\ run'[r].sem = run[r].sem
            \/ /\ run'[r].at = "waiting" /\ run'[r].sem = sem'[run[r].by]
               /\ run'[r].job = (IF run[r].trigger = "scheduled" THEN stored ELSE run[r].job)
               /\ run'[r].job # None
<1> DEFINE m == run[r].by
           job == IF run[r].trigger = "scheduled" THEN stored ELSE run[r].job
<1>1. run[r] \in Execution /\ job \in Specs \cup {None}
  BY Lengths DEF TypeInv, Execution
<1>2. CASE job = None
  <2> DEFINE e == [run[r] EXCEPT !.at = "dropped"]
  <2>1. run' = [run EXCEPT ![r] = e]
    BY <1>2 DEF Begin
  <2>2. e \in Execution /\ e.at = "dropped" /\ e.sem = run[r].sem /\ e.by = run[r].by
        /\ e.st = run[r].st
    BY <1>1 DEF Execution
  <2> HIDE DEF e
  <2> QED
    BY <2>1, <2>2, RunExcept
<1>3. CASE job # None
  <2> DEFINE e == [run[r] EXCEPT !.at = "waiting", !.job = job, !.sem = sem'[m]]
  <2>1. run' = [run EXCEPT ![r].at = "waiting", ![r].job = job, ![r].sem = sem'[m]]
    BY <1>3, Zenon DEF Begin
  <2>2. run' = [run EXCEPT ![r] = e]
    BY <2>1
  <2>3. e \in Execution /\ e.at = "waiting" /\ e.sem = sem'[m] /\ e.job = job
        /\ e.by = run[r].by /\ e.st = run[r].st
    BY <1>1 DEF Execution, InFlight
  <2> HIDE DEF e
  <2>4. /\ run' \in Seq(Execution) /\ Runs' = Runs
        /\ run'[r] = e /\ \A q \in Runs \ {r} : run'[q] = run[q]
    BY <2>2, <2>3, RunExcept
  <2> QED
    BY <1>3, <2>3, <2>4
<1> QED
  BY <1>2, <1>3

LEMMA AcquireRun ==
  ASSUME TypeInv, NEW r \in Runs, Acquire(r), state'[run[r].by] \in Nat
  PROVE  /\ run' \in Seq(Execution) /\ Runs' = Runs
         /\ \A q \in Runs \ {r} : run'[q] = run[q]
         /\ run'[r].at = "executing" /\ run'[r].st = state'[run[r].by]
         /\ run'[r].by = run[r].by /\ run'[r].job = run[r].job /\ run'[r].sem = run[r].sem
<1> DEFINE e == [run[r] EXCEPT !.at = "executing", !.st = state'[run[r].by]]
<1>1. run[r] \in Execution
  BY Lengths
<1>2. run' = [run EXCEPT ![r].at = "executing", ![r].st = state'[run[r].by]]
  BY Zenon DEF Acquire
<1>3. run' = [run EXCEPT ![r] = e]
  BY <1>2
<1>4. e \in Execution /\ e.at = "executing" /\ e.st = state'[run[r].by]
      /\ e.by = run[r].by /\ e.job = run[r].job /\ e.sem = run[r].sem
  BY <1>1 DEF Execution, InFlight
<1> HIDE DEF e
<1> QED
  BY <1>3, <1>4, RunExcept

(* An execution ends, recorded or not.                                     *)
LEMMA EndRun ==
  ASSUME TypeInv, NEW r \in Runs, NEW end \in {"ended", "dropped"},
         run' = [run EXCEPT ![r].at = end]
  PROVE  /\ run' \in Seq(Execution) /\ Runs' = Runs
         /\ \A q \in Runs \ {r} : run'[q] = run[q]
         /\ run'[r].at = end
         /\ run'[r].by = run[r].by /\ run'[r].job = run[r].job
         /\ run'[r].sem = run[r].sem /\ run'[r].st = run[r].st
<1> DEFINE e == [run[r] EXCEPT !.at = end]
<1>1. run[r] \in Execution
  BY Lengths
<1>2. run' = [run EXCEPT ![r] = e]
  OBVIOUS
<1>3. e \in Execution /\ e.at = end /\ e.by = run[r].by /\ e.job = run[r].job
      /\ e.sem = run[r].sem /\ e.st = run[r].st
  BY <1>1 DEF Execution
<1> HIDE DEF e
<1> QED
  BY <1>2, <1>3, RunExcept

LEMMA StopRun ==
  ASSUME TypeInv, NEW m \in Managers, Stop(m)
  PROVE  /\ run' \in Seq(Execution) /\ Runs' = Runs
         /\ \A r \in Runs : /\ run'[r].at = run[r].at /\ run'[r].by = run[r].by
                            /\ run'[r].job = run[r].job /\ run'[r].sem = run[r].sem
                            /\ run'[r].st = run[r].st
<1> DEFINE hit(r) == run[r].by = m /\ run[r].trigger = "scheduled" /\ run[r].at \in InFlight
           e(r) == IF hit(r) THEN [run[r] EXCEPT !.cancelled = TRUE] ELSE run[r]
<1>1. ASSUME NEW r \in Runs
      PROVE  /\ e(r) \in Execution
             /\ e(r).at = run[r].at /\ e(r).by = run[r].by /\ e(r).job = run[r].job
             /\ e(r).sem = run[r].sem /\ e(r).st = run[r].st
  <2>1. run[r] \in Execution
    BY Lengths
  <2> QED
    BY <2>1 DEF Execution
<1>2. run' = [r \in Runs |-> e(r)]
  BY DEF Stop
<1> HIDE DEF e
<1>3. run' \in [Runs -> Execution] /\ Runs' = Runs
  BY <1>1, <1>2 DEF Runs
<1>4. run' \in Seq(Execution)
  BY <1>3, Lengths, SeqDef
<1> QED
  BY <1>1, <1>2, <1>3, <1>4

(* The state object of a job is made when there is none.                   *)
Made(m, s) == /\ state[m] = 0
              /\ status' = Append(status, s) /\ state' = Set(state, m, Len(status) + 1)

LEMMA MadeObjects ==
  ASSUME TypeInv, NEW m \in Managers, NEW s \in Statuses, Made(m, s)
  PROVE  /\ status' \in Seq(Statuses) /\ state' \in [Managers -> Nat]
         /\ Len(status') = Len(status) + 1
         /\ \A i \in DOMAIN status : i \in DOMAIN status' /\ status'[i] = status[i]
         /\ \A i \in DOMAIN status' \ DOMAIN status : i = Len(status) + 1 /\ status'[i] = s
         /\ Len(status) + 1 \in DOMAIN status'
         /\ state'[m] = Len(status) + 1 /\ \A n \in Managers \ {m} : state'[n] = state[n]
<1>1. status \in Seq(Statuses) /\ state \in [Managers -> Nat]
  BY DEF TypeInv
<1>2. /\ status' \in Seq(Statuses) /\ Len(status') = Len(status) + 1
      /\ \A i \in 1..Len(status) : status'[i] = status[i]
      /\ status'[Len(status) + 1] = s
  BY <1>1, AppendProperties DEF Made
<1>3. /\ DOMAIN status' = 1..(Len(status) + 1) /\ DOMAIN status = 1..Len(status)
      /\ Len(status) \in Nat
  BY <1>2, Lengths, LenProperties
<1>4. state' = [state EXCEPT ![m] = Len(status) + 1]
  BY DEF Made, Set
<1> QED
  BY <1>1, <1>2, <1>3, <1>4

LEMMA RegisterObjects ==
  ASSUME TypeInv, NEW m \in Managers, NEW spec \in Specs, Register(m, spec)
  PROVE  /\ limits' \in Seq(Limits) /\ Len(limits') = Len(limits) + 1
         /\ sem' \in [Managers -> Nat]
         /\ sem'[m] = Len(limits) + 1 /\ \A n \in Managers \ {m} : sem'[n] = sem[n]
         /\ sched' \in [Managers -> {"none", "armed", "paused"}]
         /\ \A n \in Managers \ {m} : sched'[n] = sched[n]
         /\ Made(m, "none") \/ UNCHANGED <<status, state>>
<1>1. limits \in Seq(Limits) /\ spec.limit \in Limits /\ Len(limits) \in Nat
  BY Lengths DEF TypeInv, Specs
<1>2. limits' \in Seq(Limits) /\ Len(limits') = Len(limits) + 1
  BY <1>1, AppendProperties DEF Register
<1>3. sem' = [sem EXCEPT ![m] = Len(limits) + 1] /\ sem \in [Managers -> Nat]
  BY DEF Register, Set, TypeInv
<1>4. /\ sched' = [sched EXCEPT ![m] = IF spec.schedule = "enabled" THEN "armed" ELSE "paused"]
      /\ sched \in [Managers -> {"none", "armed", "paused"}]
  BY DEF Register, Set, TypeInv
<1>5. Made(m, "none") \/ UNCHANGED <<status, state>>
  BY Zenon DEF Register, Made
<1> QED
  BY <1>1, <1>2, <1>3, <1>4, <1>5

LEMMA StatusExcept ==
  ASSUME TypeInv, NEW i, NEW s \in Statuses, status' = [status EXCEPT ![i] = s]
  PROVE  /\ status' \in Seq(Statuses) /\ Len(status') = Len(status)
         /\ DOMAIN status' = DOMAIN status
         /\ \A j \in DOMAIN status : status'[j] = IF j = i THEN s ELSE status[j]
<1>1. /\ status \in Seq(Statuses) /\ Len(status) \in Nat
      /\ status \in [1..Len(status) -> Statuses] /\ DOMAIN status = 1..Len(status)
  BY LenProperties DEF TypeInv
<1>2. status' \in [1..Len(status) -> Statuses]
  BY <1>1
<1>3. status' \in Seq(Statuses)
  BY <1>1, <1>2, SeqDef
<1>4. DOMAIN status' = 1..Len(status') /\ Len(status') \in Nat
  BY <1>3, LenProperties
<1>5. DOMAIN status' = 1..Len(status)
  BY <1>2
<1>6. Len(status') = Len(status)
  BY <1>1, <1>4, <1>5
<1> QED
  BY <1>1, <1>3, <1>5, <1>6

LEMMA AcquireStatus ==
  ASSUME TypeInv, NEW r \in Runs, Acquire(r)
  PROVE  \/ Made(run[r].by, "running")
         \/ /\ state[run[r].by] # 0 /\ state' = state
            /\ status' = [status EXCEPT ![state[run[r].by]] = "running"]
BY Zenon DEF Acquire, Made

LEMMA ByManager ==
  ASSUME TypeInv, NEW r \in Runs
  PROVE  /\ run[r].by \in Managers /\ run[r].st \in Nat /\ run[r].sem \in Nat
         /\ run[r].job \in Specs \cup {None}
BY Lengths DEF Execution

(* A semaphore is made for an execution that finds none.                   *)
LEMMA BeginSemaphore ==
  ASSUME TypeInv, NEW r \in Runs, Begin(r)
  PROVE  /\ limits' \in Seq(Limits) /\ sem' \in [Managers -> Nat]
         /\ \/ limits' = limits /\ sem' = sem
            \/ Len(limits') = Len(limits) + 1
         /\ \A m \in Managers : sem'[m] = sem[m] \/ sem'[m] = Len(limits')
<1> DEFINE m == run[r].by
           job == IF run[r].trigger = "scheduled" THEN stored ELSE run[r].job
<1>1. m \in Managers /\ job \in Specs \cup {None}
  BY ByManager DEF TypeInv
<1>2. limits \in Seq(Limits) /\ sem \in [Managers -> Nat] /\ Len(limits) \in Nat
  BY Lengths DEF TypeInv
<1>3. CASE limits' = limits /\ sem' = sem
  BY <1>2, <1>3
<1>4. CASE /\ job # None /\ limits' = Append(limits, job.limit)
           /\ sem' = Set(sem, m, Len(limits) + 1)
  <2>1. job.limit \in Limits
    BY <1>1, <1>4 DEF Specs
  <2>2. limits' \in Seq(Limits) /\ Len(limits') = Len(limits) + 1
    BY <1>2, <1>4, <2>1, AppendProperties
  <2>3. sem' = [sem EXCEPT ![m] = Len(limits) + 1]
    BY <1>4 DEF Set
  <2> QED
    BY <1>1, <1>2, <2>2, <2>3
<1>5. \/ limits' = limits /\ sem' = sem
      \/ /\ job # None /\ limits' = Append(limits, job.limit)
         /\ sem' = Set(sem, m, Len(limits) + 1)
  BY Zenon DEF Begin
<1> QED
  BY <1>3, <1>4, <1>5

LEMMA EndedTypes ==
  ASSUME TypeInv, NEW r \in Runs, Ended(r)
  PROVE  /\ status' \in Seq(Statuses) /\ Len(status') = Len(status)
         /\ DOMAIN status' = DOMAIN status
         /\ \A j \in DOMAIN status : status'[j] = IF j = run[r].st THEN "over" ELSE status[j]
         /\ state' = [state EXCEPT ![run[r].by] = run[r].st] /\ state' \in [Managers -> Nat]
         /\ run' = [run EXCEPT ![r].at = "ended"]
<1>1. run[r].by \in Managers /\ run[r].st \in Nat
  BY ByManager
<1>2. /\ status' = [status EXCEPT ![run[r].st] = "over"] /\ "over" \in Statuses
      /\ state' = [state EXCEPT ![run[r].by] = run[r].st]
      /\ run' = [run EXCEPT ![r].at = "ended"]
  BY DEF Ended, Set, Statuses
<1>3. /\ status' \in Seq(Statuses) /\ Len(status') = Len(status)
      /\ DOMAIN status' = DOMAIN status
      /\ \A j \in DOMAIN status : status'[j] = IF j = run[r].st THEN "over" ELSE status[j]
  BY <1>2, StatusExcept
<1>4. state \in [Managers -> Nat]
  BY DEF TypeInv
<1> QED
  BY <1>1, <1>2, <1>3, <1>4
-----------------------------------------------------------------------------
(***************************************************************************)
(* What the history file keeps                                             *)
(***************************************************************************)

LEMMA LeastElement ==
  ASSUME NEW S \in SUBSET Nat, S # {}
  PROVE  \E m \in S : \A q \in S : m =< q
<1>1. PICK m \in S : \A q \in S : <<q, m>> \notin OpToRel(<, Nat)
  BY NatLessThanWellFounded, WFMin
<1>2. \A q, n \in Nat : q < n => <<q, n>> \in OpToRel(<, Nat)
  BY DEF OpToRel
<1>3. ASSUME NEW q \in S PROVE m =< q
  <2>1. ~ (q < m)
    BY <1>1, <1>2
  <2> QED
    BY <2>1
<1> QED
  BY <1>3

(* The newest records are at most HistoryLimit, and of records numbered up *)
(* to N they include those whose number is one of the last HistoryLimit.   *)
LEMMA NewestKept ==
  ASSUME NEW N \in Nat, NEW S \in SUBSET (1..N)
  PROVE  /\ Newest(S) \subseteq S
         /\ Cardinality(Newest(S)) =< HistoryLimit
         /\ \A n \in S : n + HistoryLimit > N => n \in Newest(S)
<1>0. S \in SUBSET Nat /\ IsFiniteSet(S) /\ HistoryLimit \in Nat
  <2>1. IsFiniteSet(1..N)
    BY FS_Interval
  <2>2. IsFiniteSet(S)
    BY <2>1, FS_Subset
  <2>3. S \in SUBSET Nat
    OBVIOUS
  <2> QED
    BY <2>2, <2>3, ConstantsAssumption
<1>1. Newest(S) \subseteq S
  BY DEF Newest
<1>2. ASSUME Newest(S) = {}
      PROVE  Cardinality(Newest(S)) =< HistoryLimit
  BY <1>0, <1>2, FS_EmptySet
<1>3. ASSUME Newest(S) # {}
      PROVE  Cardinality(Newest(S)) =< HistoryLimit
  <2>1. PICK m \in Newest(S) : \A q \in Newest(S) : m =< q
    BY <1>0, <1>1, <1>3, LeastElement
  <2> DEFINE T == {k \in S : k >= m}
  <2>2. IsFiniteSet(T) /\ Cardinality(T) =< HistoryLimit
    <3>1. T \in SUBSET S
      OBVIOUS
    <3>2. IsFiniteSet(T)
      BY <1>0, <3>1, FS_Subset
    <3> QED
      BY <3>2, <2>1 DEF Newest
  <2>3. Newest(S) \in SUBSET T
    BY <1>0, <1>1, <2>1
  <2>4. IsFiniteSet(Newest(S)) /\ Cardinality(Newest(S)) =< Cardinality(T)
    BY <2>2, <2>3, FS_Subset
  <2>5. Cardinality(T) \in Nat /\ Cardinality(Newest(S)) \in Nat
    BY <2>2, <2>4, FS_CardinalityType
  <2> QED
    BY <1>0, <2>2, <2>4, <2>5
<1>4. Cardinality(Newest(S)) =< HistoryLimit
  BY <1>2, <1>3
<1>5. ASSUME NEW n \in S, n + HistoryLimit > N
      PROVE  n \in Newest(S)
  <2> DEFINE T == {k \in S : k >= n}
  <2>1. n \in 1..N /\ T \in SUBSET (n..N)
    <3>1. n \in 1..N
      OBVIOUS
    <3>2. ASSUME NEW k \in T PROVE k \in n..N
      <4>1. k \in 1..N /\ k >= n
        OBVIOUS
      <4> QED
        BY <3>1, <4>1
    <3> QED
      BY <3>1, <3>2
  <2>2. IsFiniteSet(n..N) /\ Cardinality(n..N) = N - n + 1
    BY <2>1, FS_Interval
  <2>3. IsFiniteSet(T) /\ Cardinality(T) =< Cardinality(n..N)
    BY <2>1, <2>2, FS_Subset
  <2>4. Cardinality(T) \in Nat
    BY <2>3, FS_CardinalityType
  <2>5. Cardinality(T) =< HistoryLimit
    BY <1>0, <1>5, <2>1, <2>2, <2>3, <2>4
  <2> QED
    BY <2>5 DEF Newest
<1> QED
  BY <1>1, <1>4, <1>5

LEMMA RecordNumbers ==
  ASSUME TypeInv
  PROVE  /\ Len(records) \in Nat /\ DOMAIN records = 1..Len(records)
         /\ file \subseteq 1..Len(records) /\ lost \subseteq 1..Len(records)
<1>1. records \in Seq(Nat)
  BY DEF TypeInv
<1>2. Len(records) \in Nat /\ DOMAIN records = 1..Len(records)
  BY <1>1, LenProperties
<1> QED
  BY <1>2 DEF TypeInv

(* A record is written: it is the newest one of the file.                  *)
Written(r) == /\ records' = Append(records, r)
              /\ file' = Newest(file \cup {Len(records) + 1})
              /\ cache' = [cache EXCEPT ![run[r].by] = file']
              /\ behind' = (behind \ {run[r].by}) \cup (Managers \ {run[r].by})
              /\ UNCHANGED unwritten

Unwritten(r) == /\ unwritten' = unwritten \cup {r}
                /\ UNCHANGED <<records, file, cache, behind>>

LEMMA RecordedCases ==
  ASSUME NEW r, Ended(r)
  PROVE  Written(r) \/ Unwritten(r)
BY DEF Ended, Recorded, Set, Written, Unwritten

LEMMA WrittenRecord ==
  ASSUME TypeInv, NEW r \in Runs, Written(r)
  PROVE  /\ records' \in Seq(Nat) /\ Len(records') = Len(records) + 1
         /\ DOMAIN records' = DOMAIN records \cup {Len(records) + 1}
         /\ \A n \in DOMAIN records : records'[n] = records[n]
         /\ records'[Len(records) + 1] = r
         /\ file' \subseteq file \cup {Len(records) + 1}
         /\ file' \subseteq DOMAIN records'
         /\ Cardinality(file') =< HistoryLimit
         /\ \A n \in file \cup {Len(records) + 1} :
               n + HistoryLimit > Len(records') => n \in file'
<1> DEFINE S == file \cup {Len(records) + 1}
           N == Len(records) + 1
<1>1. /\ Len(records) \in Nat /\ DOMAIN records = 1..Len(records)
      /\ file \subseteq 1..Len(records)
  BY RecordNumbers
<1>2. r \in Nat /\ records \in Seq(Nat)
  BY Lengths DEF TypeInv
<1>3. /\ records' \in Seq(Nat) /\ Len(records') = N
      /\ \A n \in 1..Len(records) : records'[n] = records[n]
      /\ records'[N] = r
  BY <1>2, AppendProperties DEF Written
<1>4. DOMAIN records' = 1..N
  BY <1>3, LenProperties
<1>5. N \in Nat /\ S \in SUBSET (1..N) /\ 1..N = (1..Len(records)) \cup {N}
  <2>1. N \in Nat /\ 1..N = (1..Len(records)) \cup {N}
    BY <1>1
  <2> HIDE DEF N
  <2> QED
    BY <1>1, <2>1 DEF S, N
<1>6. file' = Newest(S)
  BY DEF Written
<1> HIDE DEF S, N
<1>7. /\ file' \subseteq S /\ Cardinality(file') =< HistoryLimit
      /\ \A n \in S : n + HistoryLimit > N => n \in file'
  BY <1>5, <1>6, NewestKept
<1> QED
  BY <1>1, <1>3, <1>4, <1>5, <1>7 DEF S, N
-----------------------------------------------------------------------------
(***************************************************************************)
(* Types                                                                   *)
(***************************************************************************)

LEMMA SetTypes ==
  ASSUME TypeInv, NEW m \in Managers
  PROVE  /\ \A v \in {"none", "armed", "paused"} :
              Set(sched, m, v) \in [Managers -> {"none", "armed", "paused"}]
         /\ \A v \in {"new", "started", "stopped"} :
              Set(life, m, v) \in [Managers -> {"new", "started", "stopped"}]
         /\ \A v \in Nat : /\ Set(sem, m, v) \in [Managers -> Nat]
                           /\ Set(state, m, v) \in [Managers -> Nat]
         /\ \A v \in (SUBSET Nat) \cup {None} : Set(cache, m, v) \in [Managers -> (SUBSET Nat) \cup {None}]
BY DEF TypeInv, Set

LEMMA RegisterTypes ==
  ASSUME TypeInv, NEW m \in Managers, NEW spec \in Specs,
         Register(m, spec) \/ NotRegistered
  PROVE  /\ limits' \in Seq(Limits) /\ status' \in Seq(Statuses)
         /\ sem' \in [Managers -> Nat] /\ state' \in [Managers -> Nat]
         /\ sched' \in [Managers -> {"none", "armed", "paused"}]
<1>1. CASE NotRegistered
  BY <1>1 DEF NotRegistered, TypeInv
<1>2. CASE Register(m, spec)
  <2>1. /\ limits' \in Seq(Limits) /\ sem' \in [Managers -> Nat]
        /\ sched' \in [Managers -> {"none", "armed", "paused"}]
        /\ Made(m, "none") \/ UNCHANGED <<status, state>>
    BY <1>2, RegisterObjects
  <2>2. status' \in Seq(Statuses) /\ state' \in [Managers -> Nat]
    BY <2>1, MadeObjects DEF Statuses, TypeInv
  <2> QED
    BY <2>1, <2>2
<1> QED
  BY <1>1, <1>2

LEMMA NotRegisteredTypes ==
  ASSUME TypeInv, NotRegistered
  PROVE  /\ limits' \in Seq(Limits) /\ status' \in Seq(Statuses)
         /\ sem' \in [Managers -> Nat] /\ state' \in [Managers -> Nat]
         /\ sched' \in [Managers -> {"none", "armed", "paused"}]
BY DEF NotRegistered, TypeInv

LEMMA TypeStep ==
  ASSUME TypeInv, [Next]_vars
  PROVE  TypeInv'
<1>1. ASSUME NEW m \in Managers, CreateOrReplace(m)
      PROVE  TypeInv'
  <2>1. PICK spec \in Specs :
          /\ stored' = spec
          /\ IF life[m] = "started" /\ spec.schedule # "invalid"
             THEN Register(m, spec) ELSE NotRegistered
    BY <1>1 DEF CreateOrReplace
  <2>2. /\ limits' \in Seq(Limits) /\ status' \in Seq(Statuses)
        /\ sem' \in [Managers -> Nat] /\ state' \in [Managers -> Nat]
        /\ sched' \in [Managers -> {"none", "armed", "paused"}]
    BY <2>1, RegisterTypes
  <2>3. UNCHANGED <<life, cache, run, outlived, history>>
    BY <1>1 DEF CreateOrReplace, history
  <2> QED
    BY <2>1, <2>2, <2>3 DEF TypeInv, Runs, history
<1>2. ASSUME NEW m \in Managers, Delete(m)
      PROVE  TypeInv'
  <2>1. sched' \in [Managers -> {"none", "armed", "paused"}]
    <3>1. sched' = Set(sched, m, "none") \/ sched' = sched
      BY <1>2 DEF Delete
    <3>2. Set(sched, m, "none") \in [Managers -> {"none", "armed", "paused"}]
      BY SetTypes
    <3>3. sched \in [Managers -> {"none", "armed", "paused"}]
      BY DEF TypeInv
    <3> QED
      BY <3>1, <3>2, <3>3
  <2>2. sem' \in [Managers -> Nat] /\ state' \in [Managers -> Nat]
    <3>1. sem' = Set(sem, m, 0) /\ state' = Set(state, m, 0)
      BY <1>2 DEF Delete
    <3> QED
      BY <3>1, SetTypes
  <2>3. cache' \in [Managers -> (SUBSET Nat) \cup {None}]
    <3>1. cache' = Set(cache, m, None) /\ None \in (SUBSET Nat) \cup {None}
      BY <1>2 DEF Delete
    <3> QED
      BY <3>1, SetTypes
  <2>4. /\ stored' \in Specs \cup {None} /\ file' \subseteq DOMAIN records
        /\ lost' \subseteq DOMAIN records
        /\ outlived' \subseteq Runs' /\ behind' \subseteq Managers
    BY <1>2 DEF Delete, FileBecomes, TypeInv, Runs
  <2>5. UNCHANGED <<life, limits, status, run, records, unwritten>>
    BY <1>2 DEF Delete, FileBecomes
  <2> QED
    BY <2>1, <2>2, <2>3, <2>4, <2>5 DEF TypeInv, Runs
<1>3. ASSUME NEW m \in Managers, Start(m)
      PROVE  TypeInv'
  <2>1. /\ limits' \in Seq(Limits) /\ status' \in Seq(Statuses)
        /\ sem' \in [Managers -> Nat] /\ state' \in [Managers -> Nat]
        /\ sched' \in [Managers -> {"none", "armed", "paused"}]
    <3>1. (stored \in Specs /\ Register(m, stored)) \/ NotRegistered
      BY <1>3 DEF Start, TypeInv
    <3> QED
      BY <3>1, RegisterTypes, NotRegisteredTypes
  <2>2. life' \in [Managers -> {"new", "started", "stopped"}]
    <3>1. life' = Set(life, m, "started")
      BY <1>3 DEF Start
    <3> QED
      BY <3>1, SetTypes
  <2>3. UNCHANGED <<stored, cache, run, outlived>>
    BY <1>3 DEF Start
  <2>4. /\ file' \subseteq DOMAIN records /\ lost' \subseteq DOMAIN records
        /\ behind' \subseteq Managers /\ UNCHANGED <<records, unwritten>>
    BY <1>3, <2>3 DEF Start, FileBecomes, TypeInv, history
  <2> QED
    BY <2>1, <2>2, <2>3, <2>4 DEF TypeInv, Runs
<1>4. ASSUME NEW m \in Managers, Stop(m)
      PROVE  TypeInv'
  <2>1. run' \in Seq(Execution) /\ Runs' = Runs
    BY <1>4, StopRun
  <2>2. life' = Set(life, m, "stopped") /\ sched' = Set(sched, m, "none")
    BY <1>4 DEF Stop
  <2>3. /\ life' \in [Managers -> {"new", "started", "stopped"}]
        /\ sched' \in [Managers -> {"none", "armed", "paused"}]
    BY <2>2, SetTypes
  <2>4. UNCHANGED <<stored, shown, outlived, history>>
    BY <1>4 DEF Stop
  <2> QED
    BY <2>1, <2>3, <2>4 DEF TypeInv, shown, history
<1>5. ASSUME NEW m \in Managers, Pause(m) \/ Resume(m)
      PROVE  TypeInv'
  <2>1. sched' = Set(sched, m, "paused") \/ sched' = Set(sched, m, "armed")
    BY <1>5 DEF Pause, Resume
  <2>2. sched' \in [Managers -> {"none", "armed", "paused"}]
    BY <2>1, SetTypes
  <2>3. UNCHANGED <<stored, life, shown, run, outlived, history>>
    BY <1>5 DEF Pause, Resume
  <2> QED
    BY <2>2, <2>3 DEF TypeInv, shown, history, Runs
<1>6. ASSUME NEW m \in Managers, GetHistory(m)
      PROVE  TypeInv'
  <2>1. cache' = Set(cache, m, file) /\ behind' = behind \ {m}
    BY <1>6 DEF GetHistory
  <2>2. file \in (SUBSET Nat) \cup {None}
    BY RecordNumbers
  <2>3. cache' \in [Managers -> (SUBSET Nat) \cup {None}]
    BY <2>1, <2>2, SetTypes
  <2>4. UNCHANGED <<stored, life, sched, sem, state, limits, status, run, outlived,
                    records, file, lost, unwritten>>
    BY <1>6 DEF GetHistory
  <2> QED
    BY <2>1, <2>3, <2>4 DEF TypeInv, Runs
<1>7. ASSUME NEW m \in Managers, RunJob(m)
      PROVE  TypeInv'
  <2>1. Called(m, "manual", stored) /\ stored \in Specs \cup {None}
    BY <1>7 DEF RunJob, TypeInv
  <2>2. run' \in Seq(Execution) /\ Runs \subseteq Runs'
    BY <2>1, CalledRun
  <2>3. UNCHANGED <<stored, life, sched, shown, outlived, history>>
    BY <1>7 DEF RunJob, Called
  <2> QED
    BY <2>2, <2>3 DEF TypeInv, shown, history
<1>8. ASSUME NEW m \in Managers, Fire(m)
      PROVE  TypeInv'
  <2>1. Called(m, "scheduled", None)
    BY <1>8 DEF Fire
  <2>2. run' \in Seq(Execution) /\ Runs \subseteq Runs'
    BY <2>1, CalledRun
  <2>3. sched' \in [Managers -> {"none", "armed", "paused"}]
    BY <1>8, SetTypes DEF Fire
  <2>4. UNCHANGED <<stored, life, shown, outlived, history>>
    BY <2>1 DEF Called
  <2> QED
    BY <2>2, <2>3, <2>4 DEF TypeInv, shown, history
<1>9. ASSUME NEW r \in Runs, Begin(r)
      PROVE  TypeInv'
  <2>1. limits' \in Seq(Limits) /\ sem' \in [Managers -> Nat]
    BY <1>9, BeginSemaphore
  <2>2. run' \in Seq(Execution) /\ Runs' = Runs
    BY <1>9, <2>1, ByManager, BeginRun
  <2>3. UNCHANGED <<stored, life, sched, state, cache, status, outlived, history>>
    BY <1>9 DEF Begin
  <2> QED
    BY <2>1, <2>2, <2>3 DEF TypeInv, history
<1>10. ASSUME NEW r \in Runs, Acquire(r)
       PROVE  TypeInv'
  <2>1. status' \in Seq(Statuses) /\ state' \in [Managers -> Nat]
    <3>1. "running" \in Statuses /\ run[r].by \in Managers
      BY ByManager DEF Statuses
    <3> QED
      BY <1>10, <3>1, AcquireStatus, MadeObjects, StatusExcept DEF TypeInv
  <2>2. run' \in Seq(Execution) /\ Runs' = Runs
    BY <1>10, <2>1, ByManager, AcquireRun
  <2>3. UNCHANGED <<stored, life, sched, sem, cache, limits, outlived, history>>
    BY <1>10 DEF Acquire
  <2> QED
    BY <2>1, <2>2, <2>3 DEF TypeInv, history
<1>11. ASSUME NEW r \in Runs, Ended(r),
              UNCHANGED <<stored, life, sched, sem, limits, requests, lost, outlived>>
       PROVE  TypeInv'
  <2>1. /\ status' \in Seq(Statuses) /\ state' \in [Managers -> Nat]
        /\ run' = [run EXCEPT ![r].at = "ended"]
    BY <1>11, EndedTypes
  <2>2. run' \in Seq(Execution) /\ Runs' = Runs
    BY <2>1, EndRun
  <2>3. /\ records' \in Seq(Nat) /\ file' \subseteq DOMAIN records'
        /\ lost' \subseteq DOMAIN records' /\ unwritten' \subseteq Runs
        /\ cache' \in [Managers -> (SUBSET Nat) \cup {None}] /\ behind' \subseteq Managers
    <3>1. CASE Written(r)
      <4>1. /\ records' \in Seq(Nat) /\ file' \subseteq DOMAIN records'
            /\ DOMAIN records \subseteq DOMAIN records'
        BY <3>1, WrittenRecord
      <4>2. file' \in (SUBSET Nat) \cup {None}
        BY <4>1, LenProperties
      <4>3. cache' \in [Managers -> (SUBSET Nat) \cup {None}]
        BY <3>1, <4>2 DEF Written, TypeInv
      <4> QED
        BY <1>11, <3>1, <4>1, <4>3 DEF Written, TypeInv
    <3>2. CASE Unwritten(r)
      BY <1>11, <3>2 DEF Unwritten, TypeInv
    <3> QED
      BY <1>11, <3>1, <3>2, RecordedCases
  <2> QED
    BY <1>11, <2>1, <2>2, <2>3 DEF TypeInv
<1>12. ASSUME NEW r \in Runs, Cancelled(r), run[r].at # "executing"
       PROVE  TypeInv'
  <2>1. /\ run' = [run EXCEPT ![r].at = "dropped"]
        /\ UNCHANGED <<status, state, cache, records, file, unwritten, behind>>
        /\ UNCHANGED <<stored, life, sched, sem, limits, requests, lost, outlived>>
    BY <1>12 DEF Cancelled
  <2>2. run' \in Seq(Execution) /\ Runs' = Runs
    BY <2>1, EndRun
  <2> QED
    BY <2>1, <2>2 DEF TypeInv
<1>13. CASE UNCHANGED vars
  BY <1>13 DEF vars, shown, history, TypeInv, Runs
<1>14. ASSUME NEW r \in Runs, Finish(r) \/ (Cancelled(r) /\ run[r].at = "executing")
       PROVE  /\ Ended(r)
              /\ UNCHANGED <<stored, life, sched, sem, limits, requests, lost, outlived>>
  BY <1>14 DEF Finish, Cancelled
<1> QED
  BY <1>1, <1>2, <1>3, <1>4, <1>5, <1>6, <1>7, <1>8, <1>9, <1>10, <1>11, <1>12, <1>13, <1>14
     DEF Next

(* How an execution ends.                                                  *)
Ends(r) == /\ Ended(r)
           /\ UNCHANGED <<stored, life, sched, sem, limits, requests, lost, outlived>>

Drops(r) == /\ run' = [run EXCEPT ![r].at = "dropped"]
            /\ UNCHANGED <<stored, life, sched, shown, requests, outlived, history>>

LEMMA NextSteps ==
  ASSUME [Next]_vars
  PROVE  \/ \E m \in Managers :
               \/ CreateOrReplace(m) \/ Delete(m) \/ Start(m) \/ Stop(m)
               \/ Pause(m) \/ Resume(m) \/ GetHistory(m) \/ RunJob(m) \/ Fire(m)
         \/ \E r \in Runs : Begin(r) \/ Acquire(r)
         \/ \E r \in Runs : Ends(r) /\ run[r].at = "executing"
         \/ \E r \in Runs : Drops(r) /\ run[r].at \in {"called", "waiting"}
         \/ UNCHANGED vars
<1>1. ASSUME NEW r \in Runs, Finish(r)
      PROVE  Ends(r) /\ run[r].at = "executing"
  BY <1>1 DEF Finish, Ends
<1>2. ASSUME NEW r \in Runs, Cancelled(r)
      PROVE  \/ Ends(r) /\ run[r].at = "executing"
             \/ Drops(r) /\ run[r].at \in {"called", "waiting"}
  BY <1>2 DEF Cancelled, Ends, Drops, shown, history, InFlight
<1> QED
  BY <1>1, <1>2 DEF Next

(***************************************************************************)
(* The references to objects                                               *)
(***************************************************************************)

LEMMA RegisterRefers ==
  ASSUME TypeInv, RefersToMade, NEW m \in Managers, NEW spec \in Specs,
         Register(m, spec)
  PROVE  /\ Len(limits) <= Len(limits') /\ Len(status) <= Len(status')
         /\ \A n \in Managers : sem'[n] <= Len(limits') /\ state'[n] <= Len(status')
<1>1. /\ Len(limits) \in Nat /\ Len(status) \in Nat
      /\ sem \in [Managers -> Nat] /\ state \in [Managers -> Nat]
  BY Lengths DEF TypeInv
<1>2. /\ Len(limits') = Len(limits) + 1
      /\ sem'[m] = Len(limits) + 1 /\ \A n \in Managers \ {m} : sem'[n] = sem[n]
      /\ Made(m, "none") \/ UNCHANGED <<status, state>>
  BY RegisterObjects
<1>3. ASSUME Made(m, "none")
      PROVE  Len(status') = Len(status) + 1 /\ \A n \in Managers : state'[n] <= Len(status')
  <2>1. "none" \in Statuses
    BY DEF Statuses
  <2>2. /\ Len(status') = Len(status) + 1 /\ state'[m] = Len(status) + 1
        /\ \A n \in Managers \ {m} : state'[n] = state[n]
    BY <1>3, <2>1, MadeObjects
  <2> QED
    BY <1>1, <2>2 DEF RefersToMade
<1> QED
  BY <1>1, <1>2, <1>3 DEF RefersToMade

LEMMA RefersStep ==
  ASSUME TypeInv, RefersToMade, [Next]_vars
  PROVE  RefersToMade'
<1>0. /\ Len(limits) \in Nat /\ Len(status) \in Nat
      /\ sem \in [Managers -> Nat] /\ state \in [Managers -> Nat]
      /\ cache \in [Managers -> (SUBSET Nat) \cup {None}] /\ file \subseteq DOMAIN records
  BY Lengths DEF TypeInv
<1>1. ASSUME NEW m \in Managers, NEW spec \in Specs, Register(m, spec), UNCHANGED <<cache, run, records>>
      PROVE  RefersToMade'
  <2>1. /\ Len(limits) <= Len(limits') /\ Len(status) <= Len(status')
        /\ \A n \in Managers : sem'[n] <= Len(limits') /\ state'[n] <= Len(status')
        /\ limits' \in Seq(Limits) /\ status' \in Seq(Statuses)
    BY <1>1, RegisterRefers, RegisterTypes
  <2>2. Len(limits') \in Nat /\ Len(status') \in Nat
    BY <2>1, LenProperties
  <2>3. \A r \in Runs : run[r].sem <= Len(limits') /\ run[r].st <= Len(status')
    BY <1>0, <2>1, <2>2, ByManager DEF RefersToMade
  <2> QED
    BY <1>1, <2>1, <2>3 DEF RefersToMade, Runs
<1>2. ASSUME UNCHANGED <<sem, state, cache, limits, status, run, records>>
      PROVE  RefersToMade'
  BY <1>2 DEF RefersToMade, Runs
<1>3. ASSUME NEW m \in Managers, CreateOrReplace(m) \/ Start(m)
      PROVE  RefersToMade'
  <2>1. UNCHANGED <<cache, run, records>>
    BY <1>3 DEF CreateOrReplace, Start, FileBecomes, history
  <2>2. (\E spec \in Specs : Register(m, spec)) \/ NotRegistered
    BY <1>3 DEF CreateOrReplace, Start, TypeInv
  <2> QED
    BY <1>1, <1>2, <2>1, <2>2 DEF NotRegistered
<1>4. ASSUME NEW m \in Managers, Delete(m)
      PROVE  RefersToMade'
  <2>1. /\ sem' = [sem EXCEPT ![m] = 0] /\ state' = [state EXCEPT ![m] = 0]
        /\ cache' = [cache EXCEPT ![m] = None] /\ UNCHANGED <<limits, status, run, records>>
    BY <1>4 DEF Delete, FileBecomes, Set
  <2>2. \A n \in Managers : sem'[n] <= Len(limits) /\ state'[n] <= Len(status)
    BY <1>0, <2>1 DEF RefersToMade
  <2>3. \A n \in Managers : cache'[n] = None \/ cache'[n] = cache[n]
    BY <1>0, <2>1
  <2> QED
    BY <2>1, <2>2, <2>3 DEF RefersToMade, Runs
<1>5. ASSUME NEW m \in Managers, GetHistory(m)
      PROVE  RefersToMade'
  <2>1. cache' = [cache EXCEPT ![m] = file] /\ UNCHANGED <<sem, state, limits, status, run, records>>
    BY <1>5 DEF GetHistory, Set
  <2>2. \A n \in Managers : cache'[n] = file \/ cache'[n] = cache[n]
    BY <1>0, <2>1
  <2> QED
    BY <1>0, <2>1, <2>2 DEF RefersToMade, Runs
<1>6. ASSUME NEW m \in Managers, Pause(m) \/ Resume(m)
      PROVE  RefersToMade'
  BY <1>2, <1>6 DEF Pause, Resume, shown, history
<1>7. ASSUME NEW m \in Managers, Stop(m)
      PROVE  RefersToMade'
  <2>1. /\ Runs' = Runs
        /\ \A r \in Runs : run'[r].sem = run[r].sem /\ run'[r].st = run[r].st
    BY <1>7, StopRun
  <2>2. UNCHANGED <<sem, state, cache, limits, status, records>>
    BY <1>7 DEF Stop, shown, history
  <2> QED
    BY <2>1, <2>2 DEF RefersToMade
<1>8. ASSUME NEW m \in Managers, NEW trigger \in {"scheduled", "manual"},
             NEW job \in Specs \cup {None}, Called(m, trigger, job)
      PROVE  RefersToMade'
  <2>1. /\ Runs \subseteq Runs' /\ \A r \in Runs : run'[r] = run[r]
        /\ \A r \in Runs' \ Runs : run'[r].sem = 0 /\ run'[r].st = 0
    BY <1>8, CalledRun
  <2>2. UNCHANGED <<sem, state, cache, limits, status, records>>
    BY <1>8 DEF Called, shown, history
  <2>3. \A r \in Runs' : run'[r].sem <= Len(limits) /\ run'[r].st <= Len(status)
    BY <1>0, <2>1 DEF RefersToMade
  <2>4. \A n \in DOMAIN records : records[n] \in Runs'
    BY <2>1 DEF RefersToMade
  <2> QED
    BY <2>2, <2>3, <2>4 DEF RefersToMade
<1>9. ASSUME NEW m \in Managers, RunJob(m) \/ Fire(m)
      PROVE  RefersToMade'
  BY <1>8, <1>9 DEF RunJob, Fire, TypeInv
<1>10. ASSUME NEW r \in Runs, Begin(r)
       PROVE  RefersToMade'
  <2>1. /\ limits' \in Seq(Limits) /\ sem' \in [Managers -> Nat]
        /\ limits' = limits \/ Len(limits') = Len(limits) + 1
        /\ \A m \in Managers : sem'[m] = sem[m] \/ sem'[m] = Len(limits')
    BY <1>10, BeginSemaphore
  <2>2. \A m \in Managers : sem'[m] <= Len(limits')
    BY <1>0, <2>1 DEF RefersToMade
  <2>3. /\ Runs' = Runs /\ \A q \in Runs \ {r} : run'[q] = run[q]
        /\ run'[r].st = run[r].st
        /\ run'[r].sem = run[r].sem \/ run'[r].sem = sem'[run[r].by]
    BY <1>10, <2>1, ByManager, BeginRun
  <2>4. UNCHANGED <<state, cache, status, records>>
    BY <1>10 DEF Begin, history
  <2>5. \A q \in Runs : run[q].sem <= Len(limits')
    BY <1>0, <2>1, ByManager DEF RefersToMade
  <2>6. \A q \in Runs : run'[q].sem <= Len(limits') /\ run'[q].st <= Len(status)
    BY <2>2, <2>3, <2>5, ByManager DEF RefersToMade
  <2> QED
    BY <2>2, <2>3, <2>4, <2>6 DEF RefersToMade
<1>11. ASSUME NEW r \in Runs, Acquire(r)
       PROVE  RefersToMade'
  <2>1. "running" \in Statuses /\ run[r].by \in Managers
    BY ByManager DEF Statuses
  <2>2. /\ state' \in [Managers -> Nat] /\ Len(status) <= Len(status')
        /\ Len(status') \in Nat
        /\ \A m \in Managers : state'[m] <= Len(status')
    <3>1. CASE Made(run[r].by, "running")
      <4>1. /\ Len(status') = Len(status) + 1 /\ state' \in [Managers -> Nat]
            /\ state'[run[r].by] = Len(status) + 1
            /\ \A n \in Managers \ {run[r].by} : state'[n] = state[n]
        BY <2>1, <3>1, MadeObjects
      <4>2. \A n \in Managers : state[n] \in Nat /\ state[n] <= Len(status)
        BY <1>0 DEF RefersToMade
      <4> QED
        BY <1>0, <4>1, <4>2
    <3>2. CASE state' = state /\ status' = [status EXCEPT ![state[run[r].by]] = "running"]
      <4>1. Len(status') = Len(status)
        BY <2>1, <3>2, StatusExcept
      <4> QED
        BY <1>0, <3>2, <4>1 DEF RefersToMade
    <3> QED
      BY <1>11, <3>1, <3>2, AcquireStatus
  <2>3. /\ Runs' = Runs /\ \A q \in Runs \ {r} : run'[q] = run[q]
        /\ run'[r].st = state'[run[r].by] /\ run'[r].sem = run[r].sem
    BY <1>11, <2>1, <2>2, AcquireRun
  <2>4. UNCHANGED <<sem, cache, limits, records>>
    BY <1>11 DEF Acquire, history
  <2>5. \A q \in Runs : run[q].st <= Len(status')
    BY <1>0, <2>2, ByManager DEF RefersToMade
  <2>6. \A q \in Runs : run'[q].st <= Len(status') /\ run'[q].sem <= Len(limits)
    BY <2>1, <2>2, <2>3, <2>5 DEF RefersToMade
  <2> QED
    BY <2>2, <2>3, <2>4, <2>6 DEF RefersToMade
<1>12. ASSUME NEW r \in Runs, Ends(r)
       PROVE  RefersToMade'
  <2>1. /\ Len(status') = Len(status)
        /\ state' = [state EXCEPT ![run[r].by] = run[r].st]
        /\ run' = [run EXCEPT ![r].at = "ended"] /\ UNCHANGED <<sem, limits>>
    BY <1>12, EndedTypes DEF Ends
  <2>2. /\ Runs' = Runs /\ \A q \in Runs \ {r} : run'[q] = run[q]
        /\ run'[r].st = run[r].st /\ run'[r].sem = run[r].sem
    BY <2>1, EndRun
  <2>3. \A n \in Managers : state'[n] = state[n] \/ state'[n] = run[r].st
    BY <1>0, <2>1
  <2>4. /\ \A n \in Managers : cache'[n] = None \/ cache'[n] \subseteq DOMAIN records'
        /\ \A n \in DOMAIN records' : records'[n] \in Runs
    <3>1. CASE Written(r)
      <4>1. /\ DOMAIN records' = DOMAIN records \cup {Len(records) + 1}
            /\ \A n \in DOMAIN records : records'[n] = records[n]
            /\ records'[Len(records) + 1] = r /\ file' \subseteq DOMAIN records'
        BY <3>1, WrittenRecord
      <4>2. \A n \in Managers : cache'[n] = cache[n] \/ cache'[n] = file'
        BY <1>0, <3>1 DEF Written
      <4> QED
        BY <4>1, <4>2 DEF RefersToMade
    <3>2. CASE Unwritten(r)
      BY <3>2 DEF Unwritten, RefersToMade
    <3> QED
      BY <1>12, <3>1, <3>2, RecordedCases DEF Ends
  <2>5. \A q \in Runs : run'[q].st = run[q].st /\ run'[q].sem = run[q].sem
    BY <2>2
  <2> QED
    BY <2>1, <2>2, <2>3, <2>4, <2>5 DEF RefersToMade
<1>13. ASSUME NEW r \in Runs, Drops(r)
       PROVE  RefersToMade'
  <2>1. run' = [run EXCEPT ![r].at = "dropped"]
        /\ UNCHANGED <<sem, state, cache, limits, status, records>>
    BY <1>13 DEF Drops, shown, history
  <2>2. /\ Runs' = Runs /\ \A q \in Runs \ {r} : run'[q] = run[q]
        /\ run'[r].st = run[r].st /\ run'[r].sem = run[r].sem
    BY <2>1, EndRun
  <2>3. \A q \in Runs : run'[q].st = run[q].st /\ run'[q].sem = run[q].sem
    BY <2>2
  <2> QED
    BY <2>1, <2>2, <2>3 DEF RefersToMade
<1>14. CASE UNCHANGED vars
  BY <1>2, <1>14 DEF vars, shown, history
<1> QED
  BY <1>3, <1>4, <1>5, <1>6, <1>7, <1>9, <1>10, <1>11, <1>12, <1>13, <1>14, NextSteps

(***************************************************************************)
(* Managers that have not started                                          *)
(***************************************************************************)

LEMMA NewStep ==
  ASSUME TypeInv, NewIsIdle, [Next]_vars
  PROVE  NewIsIdle'
<1>0. /\ life \in [Managers -> {"new", "started", "stopped"}]
      /\ sched \in [Managers -> {"none", "armed", "paused"}]
      /\ cache \in [Managers -> (SUBSET Nat) \cup {None}]
  BY DEF TypeInv
<1>1. ASSUME UNCHANGED <<life, cache, run>>, \A m \in Managers : sched'[m] # "none" => life[m] # "new"
      PROVE  NewIsIdle'
  BY <1>1 DEF NewIsIdle, Runs
<1>2. ASSUME NEW m \in Managers, CreateOrReplace(m)
      PROVE  NewIsIdle'
  <2>1. life[m] # "new" /\ UNCHANGED <<life, cache, run>>
    BY <1>2 DEF CreateOrReplace
  <2>2. (\E spec \in Specs : Register(m, spec)) \/ NotRegistered
    BY <1>2 DEF CreateOrReplace
  <2>3. \A n \in Managers \ {m} : sched'[n] = sched[n]
    BY <2>2, RegisterObjects DEF NotRegistered
  <2> QED
    BY <1>1, <2>1, <2>3 DEF NewIsIdle
<1>3. ASSUME NEW m \in Managers, Delete(m)
      PROVE  NewIsIdle'
  <2>1. /\ cache' = [cache EXCEPT ![m] = None] /\ UNCHANGED <<life, run>>
        /\ sched' = sched \/ sched' = [sched EXCEPT ![m] = "none"]
    BY <1>3 DEF Delete, Set
  <2>2. /\ \A n \in Managers : cache'[n] = cache[n] \/ cache'[n] = None
        /\ \A n \in Managers : sched'[n] = sched[n] \/ sched'[n] = "none"
    BY <1>0, <2>1
  <2> QED
    BY <2>1, <2>2 DEF NewIsIdle, Runs
<1>4. ASSUME NEW m \in Managers, Start(m)
      PROVE  NewIsIdle'
  <2>1. life' = [life EXCEPT ![m] = "started"] /\ UNCHANGED <<cache, run>>
    BY <1>4 DEF Start, Set
  <2>2. \A n \in Managers : life'[n] = "new" => life[n] = "new" /\ n # m
    BY <1>0, <2>1
  <2>3. (\E spec \in Specs : Register(m, spec)) \/ NotRegistered
    BY <1>4 DEF Start, TypeInv
  <2>4. \A n \in Managers \ {m} : sched'[n] = sched[n]
    BY <2>3, RegisterObjects DEF NotRegistered
  <2> QED
    BY <2>1, <2>2, <2>4, ByManager DEF NewIsIdle, Runs
<1>5. ASSUME NEW m \in Managers, Stop(m)
      PROVE  NewIsIdle'
  <2>1. /\ life' = [life EXCEPT ![m] = "stopped"] /\ sched' = [sched EXCEPT ![m] = "none"]
        /\ cache' = cache
    BY <1>5 DEF Stop, Set, shown
  <2>2. /\ \A n \in Managers : life'[n] = "new" => life[n] = "new"
        /\ \A n \in Managers : sched'[n] = sched[n] \/ sched'[n] = "none"
    BY <1>0, <2>1
  <2>3. Runs' = Runs /\ \A r \in Runs : run'[r].by = run[r].by
    BY <1>5, StopRun
  <2> QED
    BY <2>1, <2>2, <2>3, ByManager DEF NewIsIdle
<1>6. ASSUME NEW m \in Managers, Pause(m) \/ Resume(m)
      PROVE  NewIsIdle'
  <2>1. /\ sched[m] # "none" /\ UNCHANGED <<life, cache, run>>
        /\ sched' = [sched EXCEPT ![m] = "paused"] \/ sched' = [sched EXCEPT ![m] = "armed"]
    BY <1>6 DEF Pause, Resume, Set, shown
  <2>2. \A n \in Managers : sched'[n] = sched[n] \/ n = m
    BY <1>0, <2>1
  <2> QED
    BY <1>1, <2>1, <2>2 DEF NewIsIdle
<1>7. ASSUME NEW m \in Managers, GetHistory(m)
      PROVE  NewIsIdle'
  <2>1. /\ life[m] # "new" /\ cache' = [cache EXCEPT ![m] = file]
        /\ UNCHANGED <<life, sched, run>>
    BY <1>7 DEF GetHistory, Set
  <2>2. \A n \in Managers : cache'[n] = cache[n] \/ n = m
    BY <1>0, <2>1
  <2> QED
    BY <2>1, <2>2 DEF NewIsIdle, Runs
<1>8. ASSUME NEW m \in Managers, RunJob(m) \/ Fire(m)
      PROVE  NewIsIdle'
  <2>1. life[m] # "new" /\ UNCHANGED <<life, cache>>
    BY <1>8 DEF RunJob, Fire, Called, shown, NewIsIdle
  <2>2. \A n \in Managers : sched'[n] # "none" => sched[n] # "none"
    BY <1>0, <1>8 DEF RunJob, Fire, Set
  <2>3. \E trigger \in {"scheduled", "manual"}, job \in Specs \cup {None} : Called(m, trigger, job)
    BY <1>8 DEF RunJob, Fire, TypeInv
  <2>4. /\ \A r \in Runs : run'[r] = run[r]
        /\ \A r \in Runs' \ Runs : run'[r].by = m
    BY <2>3, CalledRun
  <2> QED
    BY <2>1, <2>2, <2>4 DEF NewIsIdle
<1>9. ASSUME UNCHANGED <<life, sched, cache>>, Runs' = Runs,
             \A r \in Runs : run'[r].by = run[r].by
      PROVE  NewIsIdle'
  BY <1>9 DEF NewIsIdle
<1>10. ASSUME NEW r \in Runs, Begin(r)
       PROVE  NewIsIdle'
  <2>1. sem'[run[r].by] \in Nat
    BY <1>10, BeginSemaphore, ByManager
  <2> QED
    BY <1>9, <1>10, <2>1, BeginRun DEF Begin
<1>11. ASSUME NEW r \in Runs, Acquire(r)
       PROVE  NewIsIdle'
  <2>1. "running" \in Statuses /\ run[r].by \in Managers
    BY ByManager DEF Statuses
  <2>2. state' \in [Managers -> Nat]
    BY <1>11, <2>1, AcquireStatus, MadeObjects DEF TypeInv
  <2>3. state'[run[r].by] \in Nat
    BY <2>1, <2>2
  <2> QED
    BY <1>9, <1>11, <2>3, AcquireRun DEF Acquire
<1>12. ASSUME NEW r \in Runs, Ends(r)
       PROVE  NewIsIdle'
  <2>1. run' = [run EXCEPT ![r].at = "ended"] /\ UNCHANGED <<life, sched>>
    BY <1>12, EndedTypes DEF Ends
  <2>2. \A n \in Managers : cache'[n] = cache[n] \/ n = run[r].by
    BY <1>0, <1>12, RecordedCases DEF Ends, Written, Unwritten
  <2>3. Runs' = Runs /\ \A q \in Runs : run'[q].by = run[q].by
    BY <2>1, EndRun
  <2> QED
    BY <2>1, <2>2, <2>3 DEF NewIsIdle
<1>13. ASSUME NEW r \in Runs, Drops(r)
       PROVE  NewIsIdle'
  BY <1>9, <1>13, EndRun DEF Drops, shown
<1>14. CASE UNCHANGED vars
  BY <1>14 DEF vars, shown, NewIsIdle, Runs
<1> QED
  BY <1>2, <1>3, <1>4, <1>5, <1>6, <1>7, <1>8, <1>10, <1>11, <1>12, <1>13, <1>14, NextSteps

(***************************************************************************)
(* The history                                                             *)
(***************************************************************************)

LEMMA HistoryStep ==
  ASSUME TypeInv, NewIsIdle, HistoryKept, [Next]_vars
  PROVE  HistoryKept'
<1>0. /\ cache \in [Managers -> (SUBSET Nat) \cup {None}]
      /\ \A m \in Managers \ behind : cache[m] = None \/ cache[m] = file
  BY DEF TypeInv, HistoryKept
<1>1. ASSUME UNCHANGED <<history, cache>>,
             \A r \in Runs' : run'[r].at = "ended" => r \in Runs /\ run[r].at = "ended"
      PROVE  HistoryKept'
  BY <1>1 DEF HistoryKept, history
<1>2. ASSUME UNCHANGED run, NEW m \in Managers, FileBecomes(m, {}), lost' = lost \cup file,
             cache'[m] = None, \A n \in Managers \ {m} : cache'[n] = cache[n]
      PROVE  HistoryKept'
  <2>1. /\ file' = {} /\ behind' = behind \cup {n \in Managers \ {m} : {} # file}
        /\ UNCHANGED <<records, unwritten>>
    BY <1>2 DEF FileBecomes
  <2>2. ASSUME NEW n \in Managers \ behind' PROVE cache'[n] \in {None, file'}
    BY <1>0, <1>2, <2>1
  <2>3. file' \cup lost' = file \cup lost
    BY <1>2, <2>1
  <2>4. Cardinality(file') =< HistoryLimit
    BY <2>1, FS_EmptySet, ConstantsAssumption
  <2> QED
    BY <1>2, <2>1, <2>2, <2>3, <2>4 DEF HistoryKept, Runs
<1>3. ASSUME NEW m \in Managers, CreateOrReplace(m)
      PROVE  HistoryKept'
  BY <1>1, <1>3 DEF CreateOrReplace, Runs
<1>4. ASSUME NEW m \in Managers, Delete(m)
      PROVE  HistoryKept'
  <2>1. /\ FileBecomes(m, {}) /\ lost' = lost \cup file /\ UNCHANGED run
        /\ cache' = [cache EXCEPT ![m] = None]
    BY <1>4 DEF Delete, Set
  <2>2. cache'[m] = None /\ \A n \in Managers \ {m} : cache'[n] = cache[n]
    BY <1>0, <2>1
  <2> QED
    BY <1>2, <2>1, <2>2
<1>5. ASSUME NEW m \in Managers, Start(m)
      PROVE  HistoryKept'
  <2>1. cache[m] = None /\ UNCHANGED <<cache, run>>
    BY <1>5 DEF Start, NewIsIdle
  <2>2. CASE stored = None
    BY <1>2, <1>5, <2>1, <2>2 DEF Start
  <2>3. CASE stored # None
    BY <1>1, <1>5, <2>1, <2>3 DEF Start, Runs
  <2> QED
    BY <2>2, <2>3
<1>6. ASSUME NEW m \in Managers, Stop(m)
      PROVE  HistoryKept'
  BY <1>1, <1>6, StopRun DEF Stop, shown
<1>7. ASSUME NEW m \in Managers, Pause(m) \/ Resume(m)
      PROVE  HistoryKept'
  BY <1>1, <1>7 DEF Pause, Resume, shown, Runs
<1>8. ASSUME NEW m \in Managers, GetHistory(m)
      PROVE  HistoryKept'
  <2>1. /\ cache' = [cache EXCEPT ![m] = file] /\ behind' = behind \ {m}
        /\ UNCHANGED <<records, file, run, lost, unwritten>>
    BY <1>8 DEF GetHistory, Set
  <2>2. ASSUME NEW n \in Managers \ behind' PROVE cache'[n] \in {None, file}
    BY <1>0, <2>1
  <2> QED
    BY <1>0, <2>1, <2>2 DEF HistoryKept, Runs
<1>9. ASSUME NEW m \in Managers, RunJob(m) \/ Fire(m)
      PROVE  HistoryKept'
  <2>1. \E trigger \in {"scheduled", "manual"}, job \in Specs \cup {None} : Called(m, trigger, job)
    BY <1>9 DEF RunJob, Fire, TypeInv
  <2>2. /\ \A r \in Runs : run'[r] = run[r]
        /\ \A r \in Runs' \ Runs : run'[r].at = "called"
        /\ UNCHANGED <<history, cache>>
    BY <2>1, CalledRun DEF Called, shown
  <2> QED
    BY <1>1, <2>2
<1>10. ASSUME NEW r \in Runs, Begin(r)
       PROVE  HistoryKept'
  <2>1. sem'[run[r].by] \in Nat
    BY <1>10, BeginSemaphore, ByManager
  <2>2. /\ Runs' = Runs /\ \A q \in Runs \ {r} : run'[q] = run[q]
        /\ run'[r].at = "dropped" \/ run'[r].at = "waiting"
    BY <1>10, <2>1, BeginRun
  <2> QED
    BY <1>1, <1>10, <2>2 DEF Begin
<1>11. ASSUME NEW r \in Runs, Acquire(r)
       PROVE  HistoryKept'
  <2>1. "running" \in Statuses /\ run[r].by \in Managers
    BY ByManager DEF Statuses
  <2>2. state' \in [Managers -> Nat]
    BY <1>11, <2>1, AcquireStatus, MadeObjects DEF TypeInv
  <2>3. /\ Runs' = Runs /\ \A q \in Runs \ {r} : run'[q] = run[q]
        /\ run'[r].at = "executing"
    BY <1>11, <2>1, <2>2, AcquireRun
  <2> QED
    BY <1>1, <1>11, <2>3 DEF Acquire
<1>12. ASSUME NEW r \in Runs, Ends(r)
       PROVE  HistoryKept'
  <2> DEFINE m == run[r].by
  <2>1. /\ run' = [run EXCEPT ![r].at = "ended"] /\ lost' = lost /\ m \in Managers
    BY <1>12, EndedTypes, ByManager DEF Ends
  <2>2. Runs' = Runs /\ \A q \in Runs \ {r} : run'[q] = run[q]
    BY <2>1, EndRun
  <2>3. CASE Written(r)
    <3>1. /\ Len(records) \in Nat /\ DOMAIN records = 1..Len(records)
      BY RecordNumbers
    <3>2. /\ Len(records') = Len(records) + 1
          /\ DOMAIN records' = DOMAIN records \cup {Len(records) + 1}
          /\ \A n \in DOMAIN records : records'[n] = records[n]
          /\ records'[Len(records) + 1] = r
          /\ Cardinality(file') =< HistoryLimit
          /\ \A n \in file \cup {Len(records) + 1} :
                n + HistoryLimit > Len(records') => n \in file'
      BY <2>3, WrittenRecord
    <3>3. ASSUME NEW q \in Runs, run'[q].at = "ended"
          PROVE  q \in unwritten' \/ \E n \in DOMAIN records' : records'[n] = q
      <4>1. CASE q = r
        BY <3>2, <4>1
      <4>2. CASE q # r
        <5>1. q \in unwritten \/ \E n \in DOMAIN records : records[n] = q
          BY <2>2, <3>3, <4>2 DEF HistoryKept
        <5> QED
          BY <2>3, <3>2, <5>1 DEF Written
      <4> QED
        BY <4>1, <4>2
    <3>4. ASSUME NEW n \in DOMAIN records', n + HistoryLimit > Len(records')
          PROVE  n \in file' \cup lost'
      <4>1. CASE n \in DOMAIN records
        <5>1. n + HistoryLimit > Len(records)
          BY <3>1, <3>2, <3>4, <4>1, ConstantsAssumption
        <5>2. n \in file \cup lost
          BY <4>1, <5>1 DEF HistoryKept
        <5> QED
          BY <2>1, <3>2, <3>4, <5>2
      <4>2. CASE n = Len(records) + 1
        BY <3>2, <3>4, <4>2
      <4> QED
        BY <3>2, <4>1, <4>2
    <3>5. ASSUME NEW n \in Managers \ behind' PROVE cache'[n] = file'
      <4>1. n = m /\ cache' = [cache EXCEPT ![m] = file']
        BY <2>3, <2>1 DEF Written
      <4> QED
        BY <1>0, <2>1, <4>1
    <3> QED
      BY <2>2, <3>2, <3>3, <3>4, <3>5 DEF HistoryKept
  <2>4. CASE Unwritten(r)
    <3>1. UNCHANGED <<records, file, lost, cache, behind>> /\ unwritten' = unwritten \cup {r}
      BY <2>1, <2>4 DEF Unwritten
    <3>2. ASSUME NEW q \in Runs, run'[q].at = "ended"
          PROVE  q \in unwritten' \/ \E n \in DOMAIN records : records[n] = q
      BY <2>2, <3>1, <3>2 DEF HistoryKept
    <3> QED
      BY <2>2, <3>1, <3>2 DEF HistoryKept
  <2> QED
    BY <1>12, <2>3, <2>4, RecordedCases DEF Ends
<1>13. ASSUME NEW r \in Runs, Drops(r)
       PROVE  HistoryKept'
  <2>1. Runs' = Runs /\ \A q \in Runs : run'[q] = run[q] \/ run'[q].at = "dropped"
    BY <1>13, EndRun DEF Drops
  <2> QED
    BY <1>1, <1>13, <2>1 DEF Drops, shown
<1>14. CASE UNCHANGED vars
  BY <1>1, <1>14 DEF vars, shown, Runs
<1> QED
  BY <1>3, <1>4, <1>5, <1>6, <1>7, <1>8, <1>9, <1>10, <1>11, <1>12, <1>13, <1>14, NextSteps

(***************************************************************************)
(* The job and its executions                                              *)
(***************************************************************************)

LEMMA JobsStep ==
  ASSUME TypeInv, JobsInv, [Next]_vars
  PROVE  JobsInv'
<1>0. None \notin Specs /\ stored \in Specs \cup {None}
  BY ConstantsAssumption DEF TypeInv
<1>1. ASSUME stored' = stored \/ stored' # None, file' = file \/ file' = {},
             records' = records, outlived' = outlived, Runs' = Runs,
             \A r \in Runs : run'[r].at = run[r].at /\ run'[r].job = run[r].job
      PROVE  JobsInv'
  BY <1>1 DEF JobsInv, HasJob
<1>2. ASSUME NEW m \in Managers, CreateOrReplace(m)
      PROVE  JobsInv'
  <2>1. stored' # None
    BY <1>0, <1>2 DEF CreateOrReplace
  <2> QED
    BY <1>1, <1>2, <2>1 DEF CreateOrReplace, Runs, history
<1>3. ASSUME NEW m \in Managers, Delete(m)
      PROVE  JobsInv'
  <2>1. file' = {} /\ outlived' = {r \in Runs : HasJob(r)} /\ run' = run
    BY <1>3 DEF Delete, FileBecomes
  <2> QED
    BY <2>1 DEF JobsInv, HasJob, Runs
<1>4. ASSUME NEW m \in Managers, Start(m)
      PROVE  JobsInv'
  BY <1>1, <1>4 DEF Start, FileBecomes, Runs, history
<1>5. ASSUME NEW m \in Managers, Stop(m)
      PROVE  JobsInv'
  BY <1>1, <1>5, StopRun DEF Stop, history
<1>6. ASSUME NEW m \in Managers, Pause(m) \/ Resume(m) \/ GetHistory(m)
      PROVE  JobsInv'
  BY <1>1, <1>6 DEF Pause, Resume, GetHistory, Runs, history
<1>7. ASSUME NEW m \in Managers, RunJob(m) \/ Fire(m)
      PROVE  JobsInv'
  <2>1. PICK trigger \in {"scheduled", "manual"}, job \in Specs \cup {None} :
          Called(m, trigger, job) /\ (stored # None \/ job = None)
    BY <1>7 DEF RunJob, Fire, TypeInv
  <2>2. /\ Runs \subseteq Runs' /\ \A r \in Runs : run'[r] = run[r]
        /\ \A r \in Runs' \ Runs : run'[r].at = "called" /\ run'[r].job = job
    BY <2>1, CalledRun
  <2>3. UNCHANGED <<stored, records, file, outlived>>
    BY <2>1 DEF Called, history
  <2> QED
    BY <2>1, <2>2, <2>3 DEF JobsInv, HasJob
<1>8. ASSUME NEW r \in Runs, Begin(r)
      PROVE  JobsInv'
  <2>1. sem'[run[r].by] \in Nat
    BY <1>8, BeginSemaphore, ByManager
  <2>2. /\ Runs' = Runs /\ \A q \in Runs \ {r} : run'[q] = run[q]
        /\ \/ run'[r].at = "dropped"
           \/ /\ run'[r].at = "waiting" /\ run'[r].job # None
              /\ run'[r].job = (IF run[r].trigger = "scheduled" THEN stored ELSE run[r].job)
    BY <1>8, <2>1, BeginRun
  <2>3. run[r].at = "called" /\ UNCHANGED <<stored, records, file, outlived>>
    BY <1>8 DEF Begin, history
  <2>4. run'[r].at = "waiting" => run'[r].job # None /\ (stored = None => HasJob(r))
    BY <2>2, <2>3 DEF HasJob, InFlight
  <2>5. \A q \in Runs : run'[q].at \in {"waiting", "executing"} => run'[q].job # None
    BY <2>2, <2>4 DEF JobsInv
  <2>6. stored = None => \A q \in Runs : HasJob(q)' => q \in outlived
    BY <2>2, <2>4 DEF JobsInv, HasJob, InFlight
  <2> QED
    BY <2>2, <2>3, <2>5, <2>6 DEF JobsInv
<1>9. ASSUME NEW r \in Runs, Acquire(r)
      PROVE  JobsInv'
  <2>1. "running" \in Statuses /\ run[r].by \in Managers
    BY ByManager DEF Statuses
  <2>2. state' \in [Managers -> Nat]
    BY <1>9, <2>1, AcquireStatus, MadeObjects DEF TypeInv
  <2>3. /\ Runs' = Runs /\ \A q \in Runs \ {r} : run'[q] = run[q]
        /\ run'[r].at = "executing" /\ run'[r].job = run[r].job
    BY <1>9, <2>1, <2>2, AcquireRun
  <2>4. run[r].at = "waiting" /\ UNCHANGED <<stored, records, file, outlived>>
    BY <1>9 DEF Acquire, history
  <2> QED
    BY <2>3, <2>4 DEF JobsInv, HasJob, InFlight
<1>10. ASSUME NEW r \in Runs, Ends(r), run[r].at = "executing"
       PROVE  JobsInv'
  <2>1. run' = [run EXCEPT ![r].at = "ended"] /\ UNCHANGED <<stored, outlived>>
    BY <1>10, EndedTypes DEF Ends
  <2>2. /\ Runs' = Runs /\ \A q \in Runs \ {r} : run'[q] = run[q]
        /\ run'[r].at = "ended"
    BY <2>1, EndRun
  <2>3. stored = None => r \in outlived
    BY <1>10 DEF JobsInv, HasJob, InFlight
  <2>4. ASSUME stored = None, NEW n \in file'
        PROVE  records'[n] \in outlived
    <3>1. CASE Written(r)
      <4>1. /\ \A k \in DOMAIN records : records'[k] = records[k]
            /\ records'[Len(records) + 1] = r
            /\ file' \subseteq file \cup {Len(records) + 1} /\ file \subseteq DOMAIN records
        BY <3>1, WrittenRecord DEF TypeInv
      <4> QED
        BY <2>3, <2>4, <4>1 DEF JobsInv
    <3>2. CASE Unwritten(r)
      BY <2>4, <3>2 DEF Unwritten, JobsInv
    <3> QED
      BY <1>10, <3>1, <3>2, RecordedCases DEF Ends
  <2> QED
    BY <2>1, <2>2, <2>4 DEF JobsInv, HasJob, InFlight
<1>11. ASSUME NEW r \in Runs, Drops(r)
       PROVE  JobsInv'
  <2>1. /\ Runs' = Runs /\ \A q \in Runs \ {r} : run'[q] = run[q]
        /\ run'[r].at = "dropped" /\ UNCHANGED <<stored, records, file, outlived>>
    BY <1>11, EndRun DEF Drops, history
  <2> QED
    BY <2>1 DEF JobsInv, HasJob, InFlight
<1>12. CASE UNCHANGED vars
  BY <1>1, <1>12 DEF vars, history, Runs
<1> QED
  BY <1>2, <1>3, <1>4, <1>5, <1>6, <1>7, <1>8, <1>9, <1>10, <1>11, <1>12, NextSteps

(***************************************************************************)
(* The state objects                                                       *)
(***************************************************************************)

LEMMA StatesMade ==
  ASSUME TypeInv, RefersToMade, StatesInv, NEW m \in Managers, Made(m, "none"), UNCHANGED run
  PROVE  StatesInv'
<1> DEFINE new == Len(status) + 1
<1>1. /\ \A i \in DOMAIN status : i \in DOMAIN status' /\ status'[i] = status[i]
      /\ \A i \in DOMAIN status' \ DOMAIN status : status'[i] = "none"
      /\ state'[m] = new /\ \A n \in Managers \ {m} : state'[n] = state[n]
  BY MadeObjects DEF Statuses
<1>2. \A n \in Managers : state[n] \in Nat /\ state[n] < new /\ state[n] # new
  BY Lengths DEF TypeInv, RefersToMade
<1>3. \A r \in Runs : run[r].st \in Nat /\ run[r].st # new
  BY Lengths, ByManager DEF RefersToMade
<1>4. new # 0
  BY Lengths
<1> HIDE DEF new
<1>5. \A r \in Runs, n \in Managers :
         run[r].at = "executing" /\ run[r].st = state'[n] => run[r].by = n
  BY <1>1, <1>3 DEF StatesInv
<1>6. \A k, n \in Managers : state'[k] = state'[n] /\ state'[k] # 0 => k = n
  BY <1>1, <1>2 DEF StatesInv
<1>7. \A i \in DOMAIN status' : status'[i] = "running" =>
         \E r \in Runs : run[r].at = "executing" /\ run[r].st = i
  BY <1>1 DEF StatesInv
<1> QED
  BY <1>5, <1>6, <1>7 DEF StatesInv, Runs

LEMMA StatesStep ==
  ASSUME TypeInv, RefersToMade, StatesInv, [Next]_vars
  PROVE  StatesInv'
<1>0. state \in [Managers -> Nat]
  BY DEF TypeInv
<1>1. ASSUME UNCHANGED <<state, status>>, Runs \subseteq Runs',
             \A r \in Runs' : run'[r].at = "executing" => r \in Runs /\ run[r].at = "executing",
             \A r \in Runs : run[r].at = "executing" => run'[r].at = "executing",
             \A r \in Runs : run'[r].st = run[r].st /\ run'[r].by = run[r].by
      PROVE  StatesInv'
  <2>1. /\ \A r \in Runs' : run'[r].at = "executing" => run'[r].st # 0
        /\ \A r \in Runs', m \in Managers :
              run'[r].at = "executing" /\ run'[r].st = state[m] => run'[r].by = m
    BY <1>1 DEF StatesInv
  <2>2. \A r, q \in Runs' :
          run'[r].at = "executing" /\ run'[q].at = "executing" /\ run'[r].st = run'[q].st =>
              run'[r].by = run'[q].by
    BY <1>1 DEF StatesInv
  <2>3. \A s \in DOMAIN status :
          status[s] = "running" => \E r \in Runs' : run'[r].at = "executing" /\ run'[r].st = s
    BY <1>1 DEF StatesInv
  <2> QED
    BY <1>1, <2>1, <2>2, <2>3 DEF StatesInv
<1>2. ASSUME UNCHANGED <<state, status, run>>
      PROVE  StatesInv'
  BY <1>2 DEF StatesInv, Runs
<1>3. ASSUME NEW m \in Managers, CreateOrReplace(m) \/ Start(m)
      PROVE  StatesInv'
  <2>1. UNCHANGED run
    BY <1>3 DEF CreateOrReplace, Start
  <2>2. (\E spec \in Specs : Register(m, spec)) \/ NotRegistered
    BY <1>3 DEF CreateOrReplace, Start, TypeInv
  <2>3. Made(m, "none") \/ UNCHANGED <<status, state>>
    BY <2>2, RegisterObjects DEF NotRegistered
  <2> QED
    BY <1>2, <2>1, <2>3, StatesMade
<1>4. ASSUME NEW m \in Managers, Delete(m)
      PROVE  StatesInv'
  <2>1. state' = [state EXCEPT ![m] = 0] /\ UNCHANGED <<status, run>>
    BY <1>4 DEF Delete, Set
  <2>2. \A n \in Managers : state'[n] = state[n] \/ state'[n] = 0
    BY <1>0, <2>1
  <2>3. \A r \in Runs, n \in Managers :
          run[r].at = "executing" /\ run[r].st = state'[n] => run[r].by = n
    BY <2>2 DEF StatesInv
  <2>4. \A k, n \in Managers : state'[k] = state'[n] /\ state'[k] # 0 => k = n
    BY <2>2 DEF StatesInv
  <2> QED
    BY <2>1, <2>3, <2>4 DEF StatesInv, Runs
<1>5. ASSUME NEW m \in Managers, Stop(m)
      PROVE  StatesInv'
  BY <1>1, <1>5, StopRun DEF Stop, shown
<1>6. ASSUME NEW m \in Managers, Pause(m) \/ Resume(m) \/ GetHistory(m)
      PROVE  StatesInv'
  BY <1>2, <1>6 DEF Pause, Resume, GetHistory, shown
<1>7. ASSUME NEW m \in Managers, RunJob(m) \/ Fire(m)
      PROVE  StatesInv'
  <2>1. \E trigger \in {"scheduled", "manual"}, job \in Specs \cup {None} : Called(m, trigger, job)
    BY <1>7 DEF RunJob, Fire, TypeInv
  <2>2. /\ Runs \subseteq Runs' /\ \A r \in Runs : run'[r] = run[r]
        /\ \A r \in Runs' \ Runs : run'[r].at = "called"
        /\ UNCHANGED <<state, status>>
    BY <2>1, CalledRun DEF Called, shown
  <2> QED
    BY <1>1, <2>2
<1>8. ASSUME NEW r \in Runs, Begin(r)
      PROVE  StatesInv'
  <2>1. sem'[run[r].by] \in Nat
    BY <1>8, BeginSemaphore, ByManager
  <2>2. /\ Runs' = Runs /\ \A q \in Runs \ {r} : run'[q] = run[q]
        /\ run'[r].at # "executing"
        /\ run'[r].by = run[r].by /\ run'[r].st = run[r].st
    BY <1>8, <2>1, BeginRun
  <2>3. run[r].at = "called" /\ UNCHANGED <<state, status>>
    BY <1>8 DEF Begin
  <2> QED
    BY <1>1, <2>2, <2>3
<1>9. ASSUME NEW r \in Runs, Acquire(r)
      PROVE  StatesInv'
  <2> DEFINE m == run[r].by
             new == Len(status) + 1
  <2>1. "running" \in Statuses /\ m \in Managers
    BY ByManager DEF Statuses
  <2>2. state' \in [Managers -> Nat]
    BY <1>9, <2>1, AcquireStatus, MadeObjects DEF TypeInv
  <2>3. /\ Runs' = Runs /\ \A q \in Runs \ {r} : run'[q] = run[q]
        /\ run'[r].at = "executing" /\ run'[r].st = state'[m] /\ run'[r].by = m
    BY <1>9, <2>1, <2>2, AcquireRun
  <2>4. run[r].at = "waiting"
    BY <1>9 DEF Acquire
  <2>5. /\ \A n \in Managers : state[n] # new
        /\ \A q \in Runs : run[q].st # new /\ new # 0
    BY <1>0, Lengths, ByManager DEF RefersToMade
  (* Only the manager of r has the object that r is given.                 *)
  <2>6. /\ state'[m] # 0 /\ \A n \in Managers \ {m} : state'[n] = state[n] /\ state[n] # state'[m]
        /\ state'[m] = state[m] \/ state'[m] = new
    <3>1. CASE Made(m, "running")
      <4>1. state'[m] = new /\ \A n \in Managers \ {m} : state'[n] = state[n]
        BY <2>1, <3>1, MadeObjects
      <4> QED
        BY <2>5, <4>1
    <3>2. CASE state[m] # 0 /\ state' = state
      BY <2>1, <3>2 DEF StatesInv
    <3> QED
      BY <1>9, <3>1, <3>2, AcquireStatus
  <2>7. \A s \in DOMAIN status' : s # state'[m] => s \in DOMAIN status /\ status'[s] = status[s]
    <3>1. CASE Made(m, "running")
      BY <2>1, <3>1, MadeObjects
    <3>2. CASE state' = state /\ status' = [status EXCEPT ![state[m]] = "running"]
      BY <2>1, <3>2, StatusExcept
    <3> QED
      BY <1>9, <3>1, <3>2, AcquireStatus
  <2> HIDE DEF m, new
  <2>8. \A q \in Runs : run[q].at = "executing" /\ run[q].st = state'[m] => run[q].by = m
    BY <2>1, <2>5, <2>6 DEF StatesInv
  <2>9. \A q \in Runs : run'[q].at = "executing" => run'[q].st # 0
    BY <2>3, <2>6 DEF StatesInv
  <2>10. \A q \in Runs, n \in Managers :
           run'[q].at = "executing" /\ run'[q].st = state'[n] => run'[q].by = n
    <3> SUFFICES ASSUME NEW q \in Runs, NEW n \in Managers,
                        run'[q].at = "executing", run'[q].st = state'[n]
                 PROVE  run'[q].by = n
      OBVIOUS
    <3>1. CASE q = r
      BY <2>3, <2>6, <3>1
    <3>2. CASE q # r /\ n = m
      BY <2>3, <2>8, <3>2
    <3>3. CASE q # r /\ n # m
      BY <2>3, <2>6, <3>3 DEF StatesInv
    <3> QED
      BY <3>1, <3>2, <3>3
  <2>11. \A p, q \in Runs :
           run'[p].at = "executing" /\ run'[q].at = "executing" /\ run'[p].st = run'[q].st =>
               run'[p].by = run'[q].by
    <3> SUFFICES ASSUME NEW p \in Runs, NEW q \in Runs,
                        run'[p].at = "executing", run'[q].at = "executing",
                        run'[p].st = run'[q].st
                 PROVE  run'[p].by = run'[q].by
      OBVIOUS
    <3>1. CASE p = r \/ q = r
      BY <2>3, <2>8, <3>1
    <3>2. CASE p # r /\ q # r
      BY <2>3, <3>2 DEF StatesInv
    <3> QED
      BY <3>1, <3>2
  <2>12. \A k, n \in Managers : state'[k] = state'[n] /\ state'[k] # 0 => k = n
    BY <2>6 DEF StatesInv
  <2>13. ASSUME NEW s \in DOMAIN status', status'[s] = "running"
         PROVE  \E q \in Runs : run'[q].at = "executing" /\ run'[q].st = s
    <3>1. CASE s = state'[m]
      BY <2>3, <3>1
    <3>2. CASE s \in DOMAIN status /\ status'[s] = status[s]
      <4>1. PICK q \in Runs : run[q].at = "executing" /\ run[q].st = s
        BY <2>13, <3>2 DEF StatesInv
      <4> QED
        BY <2>3, <2>4, <4>1
    <3> QED
      BY <2>7, <3>1, <3>2
  <2> QED
    BY <2>3, <2>9, <2>10, <2>11, <2>12, <2>13 DEF StatesInv
<1>10. ASSUME NEW r \in Runs, Ends(r), run[r].at = "executing"
       PROVE  StatesInv'
  <2> DEFINE m == run[r].by
             st == run[r].st
  <2>1. /\ DOMAIN status' = DOMAIN status
        /\ \A j \in DOMAIN status : status'[j] = IF j = st THEN "over" ELSE status[j]
        /\ state' = [state EXCEPT ![m] = st] /\ m \in Managers
        /\ run' = [run EXCEPT ![r].at = "ended"]
    BY <1>10, EndedTypes, ByManager DEF Ends
  <2>2. /\ Runs' = Runs /\ \A q \in Runs \ {r} : run'[q] = run[q]
        /\ run'[r].at = "ended"
    BY <2>1, EndRun
  <2>3. \A q \in Runs : run'[q].at = "executing" => q # r /\ run'[q] = run[q]
    BY <2>2
  <2>4. state'[m] = st /\ \A n \in Managers \ {m} : state'[n] = state[n] /\ state[n] # st
    BY <1>0, <1>10, <2>1 DEF StatesInv
  <2> HIDE DEF m, st
  <2>5. \A q \in Runs : run[q].at = "executing" /\ run[q].st = st => run[q].by = m
    BY <1>10 DEF StatesInv, m, st
  <2>6. \A q \in Runs, n \in Managers :
          run'[q].at = "executing" /\ run'[q].st = state'[n] => run'[q].by = n
    <3> SUFFICES ASSUME NEW q \in Runs, NEW n \in Managers,
                        run'[q].at = "executing", run'[q].st = state'[n]
                 PROVE  run'[q].by = n
      OBVIOUS
    <3>1. CASE n = m
      BY <2>3, <2>4, <2>5, <3>1
    <3>2. CASE n # m
      BY <2>3, <2>4, <3>2 DEF StatesInv
    <3> QED
      BY <3>1, <3>2
  <2>7. \A k, n \in Managers : state'[k] = state'[n] /\ state'[k] # 0 => k = n
    BY <2>4 DEF StatesInv
  <2>8. ASSUME NEW s \in DOMAIN status', status'[s] = "running"
        PROVE  \E q \in Runs : run'[q].at = "executing" /\ run'[q].st = s
    <3>1. s \in DOMAIN status /\ s # st /\ status[s] = "running"
      BY <2>1, <2>8
    <3>2. PICK q \in Runs : run[q].at = "executing" /\ run[q].st = s
      BY <3>1 DEF StatesInv
    <3> QED
      BY <2>2, <3>1, <3>2 DEF st
  <2>9. \A q \in Runs : run'[q].at = "executing" => run'[q].st # 0
    BY <2>3 DEF StatesInv
  <2>10. \A p, q \in Runs :
           run'[p].at = "executing" /\ run'[q].at = "executing" /\ run'[p].st = run'[q].st =>
               run'[p].by = run'[q].by
    BY <2>3 DEF StatesInv
  <2> QED
    BY <2>2, <2>6, <2>7, <2>8, <2>9, <2>10 DEF StatesInv
<1>11. ASSUME NEW r \in Runs, Drops(r), run[r].at \in {"called", "waiting"}
       PROVE  StatesInv'
  <2>1. /\ Runs' = Runs /\ \A q \in Runs \ {r} : run'[q] = run[q]
        /\ run'[r].at = "dropped" /\ run'[r].by = run[r].by /\ run'[r].st = run[r].st
        /\ UNCHANGED <<state, status>>
    BY <1>11, EndRun DEF Drops, shown
  <2> QED
    BY <1>1, <1>11, <2>1
<1>12. CASE UNCHANGED vars
  BY <1>2, <1>12 DEF vars, shown
<1> QED
  BY <1>3, <1>4, <1>5, <1>6, <1>7, <1>8, <1>9, <1>10, <1>11, <1>12, NextSteps

-----------------------------------------------------------------------------
(***************************************************************************)
(* The theorems                                                            *)
(***************************************************************************)

LEMMA InitIInv == Init => IInv
<1> SUFFICES ASSUME Init PROVE IInv
  OBVIOUS
<1>1. run = <<>> /\ records = <<>> /\ DOMAIN records = {} /\ limits = <<>> /\ status = <<>>
      /\ Runs = {} /\ DOMAIN status = {}
  BY DEF Init, Runs
<1>2. /\ run \in Seq(Execution) /\ limits \in Seq(Limits) /\ status \in Seq(Statuses)
      /\ records \in Seq(Nat) /\ Len(limits) = 0 /\ Len(status) = 0
  BY <1>1, EmptySeq
<1>3. TypeInv
  BY <1>1, <1>2 DEF Init, TypeInv
<1>4. RefersToMade /\ NewIsIdle
  BY <1>1, <1>2 DEF Init, RefersToMade, NewIsIdle
<1>5. HistoryKept
  BY <1>1, FS_EmptySet, ConstantsAssumption DEF Init, HistoryKept
<1>6. JobsInv /\ StatesInv
  BY <1>1 DEF Init, JobsInv, StatesInv
<1> QED
  BY <1>3, <1>4, <1>5, <1>6 DEF IInv

LEMMA StepIInv == IInv /\ [Next]_vars => IInv'
BY TypeStep, RefersStep, NewStep, HistoryStep, JobsStep, StatesStep DEF IInv

(* The inductive invariant holds in every behaviour of the cron jobs.      *)
THEOREM Invariant == Spec => []IInv
BY InitIInv, StepIInv, PTL DEF Spec

(* The variables have their types, and semaphores, state objects,          *)
(* executions and records are referred to only when they have been made.   *)
THEOREM TypeCorrect == Spec => []TypeOK
<1>1. IInv => TypeOK
  <2> SUFFICES ASSUME TypeInv, RefersToMade PROVE TypeOK
    BY DEF IInv
  <2>1. /\ Len(limits) \in Nat /\ Len(status) \in Nat
    BY Lengths
  <2>2. sem \in [Managers -> 0..Len(limits)] /\ state \in [Managers -> 0..Len(status)]
    BY <2>1 DEF TypeInv, RefersToMade
  <2>3. ASSUME NEW r \in Runs
        PROVE  run[r] \in [at : InFlight \cup {"ended", "dropped"}, by : Managers,
                           trigger : {"scheduled", "manual"}, job : Specs \cup {None},
                           sem : 0..Len(limits), st : 0..Len(status), cancelled : BOOLEAN]
    <3>1. /\ run[r] \in Execution /\ run[r].sem <= Len(limits) /\ run[r].st <= Len(status)
      BY Lengths DEF RefersToMade
    <3> QED
      BY <2>1, <3>1 DEF Execution
  <2>4. records \in Seq(Runs)
    BY SeqDef, RecordNumbers, LenProperties DEF TypeInv, RefersToMade
  <2> QED
    BY <2>2, <2>3, <2>4 DEF TypeInv, RefersToMade, TypeOK
<1> QED
  BY <1>1, Invariant, PTL

(* Through reloads, deletions and cancellations every execution that ended *)
(* was recorded, but for a file that could not be written; the history     *)
(* file keeps the last HistoryLimit records, and no more, but for those    *)
(* deleted with the job; and no manager shows another history without      *)
(* having been overtaken.                                                  *)
THEOREM HistoryIsKept == Spec => []HistoryKept
<1>1. IInv => HistoryKept
  BY DEF IInv
<1> QED
  BY <1>1, Invariant, PTL

(* A deleted job is run and recorded by no execution but those that had    *)
(* the job when it was deleted.                                            *)
THEOREM DeletedStaysDeleted == Spec => []DeletedIsNotRun
<1>1. IInv => DeletedIsNotRun
  BY DEF IInv, JobsInv, DeletedIsNotRun, HasJob, InFlight
<1> QED
  BY <1>1, Invariant, PTL

(* A job shown as running has an execution of that manager that will say   *)
(* how it ended.                                                           *)
THEOREM RunningHasExecution == Spec => []RunningIsTrue
<1>1. IInv => RunningIsTrue
  <2> SUFFICES ASSUME TypeInv, RefersToMade, StatesInv,
                      NEW m \in Managers, state[m] # 0, status[state[m]] = "running"
               PROVE  \E r \in Runs : /\ run[r].at = "executing" /\ run[r].by = m
                                      /\ run[r].st = state[m]
    BY DEF IInv, RunningIsTrue
  <2>1. state[m] \in DOMAIN status
    BY Lengths DEF TypeInv, RefersToMade
  <2>2. PICK r \in Runs : run[r].at = "executing" /\ run[r].st = state[m]
    BY <2>1 DEF StatesInv
  <2> QED
    BY <2>2 DEF StatesInv
<1> QED
  BY <1>1, Invariant, PTL
=============================================================================
