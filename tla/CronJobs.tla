----------------------------- MODULE CronJobs -----------------------------
(***************************************************************************)
(* One cron job of an agent (app/crons/manager.py, repo/json_repo.py,      *)
(* repo/base.py): the API stores, replaces, deletes, pauses, resumes and   *)
(* runs it, a scheduler fires it, and its executions wait for a semaphore, *)
(* run, and are recorded in a history file and in a state that the user    *)
(* sees.  Jobs share nothing but the file that holds them all.             *)
(*                                                                         *)
(* When the agent is reloaded, a second manager with a scheduler of its    *)
(* own starts on the same files before the first one is stopped, and       *)
(* executions started by hand outlive their manager.                       *)
(*                                                                         *)
(* The repository never suspends, so that every operation of a manager is  *)
(* one step; an execution suspends when it waits for the semaphore and     *)
(* while the job runs.                                                     *)
(***************************************************************************)
EXTENDS Naturals, Sequences, FiniteSets

CONSTANTS NManagers,  \* managers, those of successive instances of the workspace
          Limits,     \* values of max_concurrency
          HistoryLimit,  \* CRON_HISTORY_LIMIT
          None,
          MaxRuns,    \* bound: executions
          MaxRequests    \* bound: requests that change the job

Specs == [limit : Limits, schedule : {"enabled", "disabled", "invalid"}]

ASSUME ConstantsAssumption ==
    /\ NManagers \in Nat
    /\ Limits \subseteq Nat \ {0}
    /\ HistoryLimit \in Nat \ {0}
    /\ None \notin Specs
    /\ MaxRuns \in Nat /\ MaxRequests \in Nat

VARIABLES
    stored,   \* the job in jobs.json
    records,  \* the records written so far, as the executions they are of
    file,     \* those of them, by number, that its history file has
    \* per manager
    life,     \* it is new, started or stopped
    sched,    \* the job in its scheduler
    sem,      \* the semaphore of the job, by number, 0 for none
    state,    \* the state object of the job, by number, 0 for none
    cache,    \* the history that it shows
    \* the objects that managers and executions refer to
    limits,   \* the semaphores made so far: their sizes
    status,   \* the state objects made so far: last_status
    run,      \* the executions, in the order in which they were called
    requests,
    \* observation
    lost,     \* records that were deleted with the job
    unwritten,   \* executions whose record could not be written
    outlived, \* executions that had begun when the job was last deleted
    behind    \* managers whose history another manager has changed

shown == <<sem, state, cache, limits, status>>
history == <<records, file, lost, unwritten, behind>>
vars == <<stored, life, sched, shown, run, requests, outlived, history>>

Managers == 1..NManagers
Runs == DOMAIN run
InFlight == {"called", "waiting", "executing"}
Statuses == {"none", "running", "over"}   \* over: success, error or cancelled

TypeOK ==
    /\ stored \in Specs \cup {None}
    /\ records \in Seq(Runs) /\ file \subseteq DOMAIN records
    /\ life \in [Managers -> {"new", "started", "stopped"}]
    /\ sched \in [Managers -> {"none", "armed", "paused"}]
    /\ sem \in [Managers -> 0..Len(limits)]
    /\ state \in [Managers -> 0..Len(status)]
    /\ \A m \in Managers : cache[m] = None \/ cache[m] \subseteq DOMAIN records
    /\ limits \in Seq(Limits) /\ status \in Seq(Statuses)
    /\ \A r \in Runs :
          run[r] \in [at : InFlight \cup {"ended", "dropped"}, by : Managers,
                     trigger : {"scheduled", "manual"}, job : Specs \cup {None},
                     sem : 0..Len(limits), st : 0..Len(status), cancelled : BOOLEAN]
    /\ lost \subseteq DOMAIN records /\ unwritten \subseteq Runs
    /\ outlived \subseteq Runs /\ behind \subseteq Managers

\* A first manager that starts on a job stored before, or on none.
Init ==
    /\ stored \in Specs \cup {None}
    /\ records = <<>> /\ file = {}
    /\ run = <<>> /\ limits = <<>> /\ status = <<>>
    /\ life = [m \in Managers |-> "new"]
    /\ sched = [m \in Managers |-> "none"]
    /\ sem = [m \in Managers |-> 0] /\ state = [m \in Managers |-> 0]
    /\ cache = [m \in Managers |-> None]
    /\ requests = 0
    /\ lost = {} /\ unwritten = {} /\ outlived = {} /\ behind = {}

-----------------------------------------------------------------------------
Set(f, m, v) == [f EXCEPT ![m] = v]

\* The history file changes through m: the other managers keep what they show.
FileBecomes(m, kept) ==
    /\ file' = kept
    /\ behind' = behind \cup {n \in Managers \ {m} : kept # file}
    /\ UNCHANGED <<records, unwritten>>

Request == requests < MaxRequests /\ requests' = requests + 1

(***************************************************************************)
(* Storing the job: create_or_replace_job, delete_job, start, stop         *)
(***************************************************************************)

\* _register_or_update of a job with a valid schedule: a semaphore, a place in
\* the scheduler, and the state object, which is kept if there is one.
Register(m, spec) ==
    /\ limits' = Append(limits, spec.limit)
    /\ sem' = Set(sem, m, Len(limits) + 1)
    /\ sched' = Set(sched, m, IF spec.schedule = "enabled" THEN "armed" ELSE "paused")
    /\ IF state[m] = 0
       THEN status' = Append(status, "none") /\ state' = Set(state, m, Len(status) + 1)
       ELSE UNCHANGED <<status, state>>

NotRegistered == UNCHANGED <<limits, sem, sched, status, state>>

\* The job is stored first and validated then: an invalid schedule is refused
\* and stays in the file, and the scheduler keeps the trigger it had.
CreateOrReplace(m) ==
    /\ Request /\ life[m] # "new"
    /\ \E spec \in Specs :
          /\ stored' = spec
          /\ IF life[m] = "started" /\ spec.schedule # "invalid" THEN Register(m, spec) ELSE NotRegistered
    /\ UNCHANGED <<life, cache, run, outlived, history>>

\* Mutant: the history file of a deleted job stays.
DeleteKeepsHistory(m) ==
    /\ Request /\ life[m] # "new"
    /\ stored' = None
    /\ sched' = IF life[m] = "started" THEN Set(sched, m, "none") ELSE sched
    /\ state' = Set(state, m, 0) /\ sem' = Set(sem, m, 0)
    /\ cache' = Set(cache, m, None)
    /\ outlived' = {r \in Runs : run[r].at \in InFlight /\ run[r].job # None}
    /\ UNCHANGED <<life, limits, status, run, history>>

\* Executions that have been given the job.
HasJob(r) == run[r].at \in InFlight /\ run[r].job # None

Delete(m) ==
    /\ Request /\ life[m] # "new"
    /\ stored' = None
    /\ sched' = IF life[m] = "started" THEN Set(sched, m, "none") ELSE sched
    /\ state' = Set(state, m, 0) /\ sem' = Set(sem, m, 0)
    /\ cache' = Set(cache, m, None)
    /\ FileBecomes(m, {})
    /\ lost' = lost \cup file
    /\ outlived' = {r \in Runs : HasJob(r)}
    /\ UNCHANGED <<life, limits, status, run>>

\* The manager of the next instance starts.  Histories of jobs that are not
\* stored are removed; a job with an invalid schedule is not registered (it is
\* disabled in the file, which changes nothing more).
Start(m) ==
    /\ life[m] = "new" /\ \A n \in 1..(m - 1) : life[n] # "new"
    /\ life' = Set(life, m, "started")
    /\ IF stored = None
       THEN FileBecomes(m, {}) /\ lost' = lost \cup file
       ELSE UNCHANGED history
    /\ IF stored # None /\ stored.schedule # "invalid" THEN Register(m, stored)
                                                      ELSE NotRegistered
    /\ UNCHANGED <<stored, cache, run, requests, outlived>>

\* The scheduler is shut down, and with it what it started; executions started
\* by hand go on.
Stop(m) ==
    /\ life[m] = "started"
    /\ life' = Set(life, m, "stopped")
    /\ sched' = Set(sched, m, "none")
    /\ run' = [r \in Runs |->
                  IF run[r].by = m /\ run[r].trigger = "scheduled" /\ run[r].at \in InFlight
                  THEN [run[r] EXCEPT !.cancelled = TRUE] ELSE run[r]]
    /\ UNCHANGED <<stored, shown, requests, outlived, history>>

Pause(m) ==
    /\ Request /\ sched[m] = "armed"
    /\ sched' = Set(sched, m, "paused")
    /\ UNCHANGED <<stored, life, shown, run, outlived, history>>

Resume(m) ==
    /\ Request /\ sched[m] = "paused"
    /\ sched' = Set(sched, m, "armed")
    /\ UNCHANGED <<stored, life, shown, run, outlived, history>>

\* The API asks for the history of a stored job.
GetHistory(m) ==
    /\ life[m] # "new" /\ stored # None /\ cache[m] = None
    /\ cache' = Set(cache, m, file)
    /\ behind' = behind \ {m}
    /\ UNCHANGED <<stored, life, sched, sem, state, limits, status, run, requests,
                   outlived, records, file, lost, unwritten>>

(***************************************************************************)
(* Executions                                                              *)
(***************************************************************************)

Called(m, trigger, job) ==
    /\ Len(run) < MaxRuns
    /\ run' = Append(run, [at |-> "called", by |-> m, trigger |-> trigger, job |-> job,
                           sem |-> 0, st |-> 0, cancelled |-> FALSE])
    /\ UNCHANGED <<stored, life, shown, requests, outlived, history>>

\* run_job: a task is made for the job as it is stored now.
RunJob(m) ==
    /\ life[m] # "new" /\ stored # None
    /\ Called(m, "manual", stored)
    /\ UNCHANGED sched

\* The scheduler fires, unless the execution it started before is in progress;
\* a trigger with no further time is removed.
Fire(m) ==
    /\ sched[m] = "armed"
    /\ ~\E r \in Runs : /\ run[r].by = m /\ run[r].trigger = "scheduled"
                        /\ run[r].at \in InFlight
    /\ Called(m, "scheduled", None)
    /\ \E again \in {"armed", "none"} : sched' = Set(sched, m, again)

\* _scheduled_callback reads the job; then _execute_once looks for the
\* semaphore, and makes one if there is none.
Begin(r) ==
    LET m == run[r].by
        job == IF run[r].trigger = "scheduled" THEN stored ELSE run[r].job
    IN  /\ run[r].at = "called" /\ ~run[r].cancelled
        /\ IF job = None
           THEN /\ run' = [run EXCEPT ![r].at = "dropped"]
                /\ UNCHANGED <<limits, sem>>
           ELSE /\ IF sem[m] = 0
                   THEN /\ limits' = Append(limits, job.limit)
                        /\ sem' = Set(sem, m, Len(limits) + 1)
                   ELSE UNCHANGED <<limits, sem>>
                /\ run' = [run EXCEPT ![r].at = "waiting", ![r].job = job, ![r].sem = sem'[m]]
        /\ UNCHANGED <<stored, life, sched, state, cache, status, requests, outlived,
                       history>>

Executing(s) == {r \in Runs : run[r].at = "executing" /\ run[r].sem = s}

\* The semaphore lets executions in by their turn.
Acquire(r) ==
    LET m == run[r].by
    IN  /\ run[r].at = "waiting" /\ ~run[r].cancelled
        /\ Cardinality(Executing(run[r].sem)) < limits[run[r].sem]
        /\ \A q \in 1..(r - 1) : ~(run[q].at = "waiting" /\ run[q].sem = run[r].sem)
        /\ IF state[m] = 0
           THEN status' = Append(status, "running") /\ state' = Set(state, m, Len(status) + 1)
           ELSE status' = [status EXCEPT ![state[m]] = "running"] /\ UNCHANGED state
        /\ run' = [run EXCEPT ![r].at = "executing", ![r].st = state'[m]]
        /\ UNCHANGED <<stored, life, sched, sem, cache, limits, requests, outlived,
                       history>>

\* Mutant: the wrong end of the history is cut.
Oldest(S) == {n \in S : Cardinality({k \in S : k <= n}) =< HistoryLimit}

\* append_history keeps the newest records.
Newest(S) == {n \in S : Cardinality({k \in S : k >= n}) =< HistoryLimit}

\* The record of r is put in front of those that the file has now, and what the
\* file has then is shown; a file that cannot be read or written stays as it is.
Recorded(r) ==
    LET m == run[r].by
    IN  \/ /\ records' = Append(records, r)
           /\ file' = Newest(file \cup {Len(records) + 1})
           /\ cache' = Set(cache, m, file')
           /\ behind' = (behind \ {m}) \cup (Managers \ {m})
           /\ UNCHANGED unwritten
        \/ /\ unwritten' = unwritten \cup {r}
           /\ UNCHANGED <<records, file, cache, behind>>

\* The end of _execute_once: the state object that the execution began with
\* becomes that of the job again.
Ended(r) ==
    /\ status' = [status EXCEPT ![run[r].st] = "over"]
    /\ state' = Set(state, run[r].by, run[r].st)
    /\ run' = [run EXCEPT ![r].at = "ended"]
    /\ Recorded(r)

Finish(r) ==
    /\ run[r].at = "executing" /\ ~run[r].cancelled
    /\ Ended(r)
    /\ UNCHANGED <<stored, life, sched, sem, limits, requests, lost, outlived>>

\* Mutant: a cancelled execution just ends.
CancelledSilently(r) ==
    /\ run[r].cancelled /\ run[r].at \in InFlight
    /\ run' = [run EXCEPT ![r].at = "dropped"]
    /\ UNCHANGED <<stored, life, sched, shown, requests, outlived, history>>

\* Cancelled while it waits, an execution leaves nothing behind.
Cancelled(r) ==
    /\ run[r].cancelled /\ run[r].at \in InFlight
    /\ IF run[r].at = "executing"
       THEN Ended(r)
       ELSE /\ run' = [run EXCEPT ![r].at = "dropped"]
            /\ UNCHANGED <<status, state, cache, records, file, unwritten, behind>>
    /\ UNCHANGED <<stored, life, sched, sem, limits, requests, lost, outlived>>

Next ==
    \/ \E m \in Managers :
          \/ CreateOrReplace(m) \/ Delete(m) \/ Start(m) \/ Stop(m)
          \/ Pause(m) \/ Resume(m) \/ GetHistory(m) \/ RunJob(m) \/ Fire(m)
    \/ \E r \in Runs : Begin(r) \/ Acquire(r) \/ Finish(r) \/ Cancelled(r)

Spec == Init /\ [][Next]_vars

-----------------------------------------------------------------------------
(***************************************************************************)
(* Properties                                                              *)
(***************************************************************************)

\* An execution that has ended was recorded, unless the file could not be
\* written.  The file keeps at most HistoryLimit records and has each of the
\* last HistoryLimit that were written, but for those deleted with the job; and
\* a manager shows what the file has, unless another manager has changed the
\* file after it looked.
HistoryKept ==
    /\ \A r \in Runs : run[r].at = "ended" =>
          r \in unwritten \/ \E n \in DOMAIN records : records[n] = r
    /\ \A n \in DOMAIN records :
          n + HistoryLimit > Len(records) => n \in file \cup lost
    /\ Cardinality(file) =< HistoryLimit
    /\ \A m \in Managers \ behind : cache[m] \in {None, file}

\* A deleted job is not executed again, by this manager or by the other one,
\* and has no history, but for executions that had begun when it was deleted.
DeletedIsNotRun ==
    stored = None =>
        /\ \A r \in Runs : run[r].at \in {"waiting", "executing"} => r \in outlived
        /\ \A n \in file : records[n] \in outlived

\* A job is shown as running only while an execution of this manager is
\* running that will say how it ended: through deletions, replacements and
\* executions side by side no job is shown as running for ever.
RunningIsTrue ==
    \A m \in Managers :
        state[m] # 0 /\ status[state[m]] = "running" =>
            \E r \in Runs : run[r].at = "executing" /\ run[r].by = m /\ run[r].st = state[m]
=============================================================================
