---------------------------- MODULE TokenUsage ----------------------------
(***************************************************************************)
(* The token usage buffer (token_usage/buffer.py, storage.py): model calls *)
(* put usage events on a queue, a consumer task adds them to a cache that  *)
(* it first seeds from the file, a flush task writes the cache to the file *)
(* in a worker thread, readers merge the cache and the queue, and shutdown *)
(* drains the queue and writes the cache once more.                        *)
(*                                                                         *)
(* A step is what runs between two awaits of the event loop, or one system *)
(* call of a worker thread.  An event stands for one model call, and a     *)
(* table of counts says how often each call is counted: days, models and   *)
(* token numbers are left out.  The process may crash and be started again.*)
(***************************************************************************)
EXTENDS Naturals

CONSTANTS Events,    \* the model calls whose usage is recorded
          Readers,   \* callers of get_merged_data
          Consumer   \* the consumer task, which also loads the file

ASSUME ConstantsAssumption == Consumer \notin Readers

VARIABLES
    \* the files
    exists, file,       \* token_usage.json: is it there, and what it counts
    tmpThere, tmp,      \* the temporary file that replaces it
    \* the buffer
    cache, loaded, dirty, queue,
    consumer,           \* the consumer task
    load,               \* the load that a reader or the consumer awaits
    flusher,            \* the flush task
    write,              \* the worker threads that write a snapshot
    stop,               \* how far stop() has come
    up,                 \* the process runs
    \* observation
    recorded,           \* events that the buffer has taken over
    mishaps             \* what has gone wrong in the life of this process

files == <<exists, file, tmpThere, tmp>>
vars == <<files, cache, loaded, dirty, queue, consumer, load, flusher, write,
          stop, up, recorded, mishaps>>

Counts == [Events -> Nat]
Nothing == [e \in Events |-> 0]
Loaders == Readers \cup {Consumer}
Threads == {"periodic", "final"}
Mishaps == {"misread",      \* the file could not be read: an empty table was taken
            "unwritten",    \* a write failed
            "reseeded",     \* a second load replaced a cache that was in use
            "unseeded",     \* the consumer was cancelled before the load ended
            "overlap"}      \* the final flush began beside a periodic one

NotLoading == [at |-> "no", got |-> Nothing]
NotWriting == [at |-> "no", snap |-> Nothing]

TypeOK ==
    /\ exists \in BOOLEAN /\ file \in Counts
    /\ tmpThere \in BOOLEAN /\ tmp \in Counts
    /\ cache \in Counts /\ loaded \in BOOLEAN /\ dirty \in BOOLEAN
    /\ queue \in SUBSET Events
    /\ consumer \in {"new", "loading", "idle", "done"}
    /\ load \in [Loaders -> [at : {"no", "opening", "read"}, got : Counts]]
    /\ flusher \in {"sleeping", "writing", "done"}
    /\ write \in [Threads -> [at : {"no", "queued", "filled"}, snap : Counts]]
    /\ stop \in {"no", "joining", "joined", "closed", "flushing", "over"}
    /\ up \in BOOLEAN
    /\ recorded \in SUBSET Events
    /\ mishaps \in SUBSET Mishaps

-----------------------------------------------------------------------------
\* A process that has just called start(): the tasks exist and have not run.
Fresh ==
    /\ cache' = Nothing /\ loaded' = FALSE /\ dirty' = FALSE /\ queue' = {}
    /\ consumer' = "new" /\ flusher' = "sleeping"
    /\ load' = [p \in Loaders |-> NotLoading]
    /\ write' = [w \in Threads |-> NotWriting]
    /\ stop' = "no" /\ mishaps' = {}

Init ==
    /\ \E saved \in SUBSET Events :
          file = [e \in Events |-> IF e \in saved THEN 1 ELSE 0]
    /\ exists \in BOOLEAN
    /\ ~exists => file = Nothing
    /\ tmpThere = FALSE /\ tmp = Nothing
    /\ cache = Nothing /\ loaded = FALSE /\ dirty = FALSE /\ queue = {}
    /\ consumer = "new" /\ flusher = "sleeping"
    /\ load = [p \in Loaders |-> NotLoading]
    /\ write = [w \in Threads |-> NotWriting]
    /\ stop = "no" /\ up = TRUE
    /\ recorded = {e \in Events : file[e] > 0}
    /\ mishaps = {}

-----------------------------------------------------------------------------
(***************************************************************************)
(* Recording                                                               *)
(***************************************************************************)

\* TokenUsageBuffer.enqueue: put_nowait, which never fails on this unbounded
\* queue.  What arrives after the consumer has ended is nobody's to save.
Enqueue(e) ==
    /\ up /\ e \notin recorded \cup queue
    /\ queue' = queue \cup {e}
    /\ recorded' = IF consumer = "done" THEN recorded ELSE recorded \cup {e}
    /\ UNCHANGED <<files, cache, loaded, dirty, consumer, load, flusher, write,
                   stop, up, mishaps>>

\* _apply_event for each event of q.
Applied(c, q) == [e \in Events |-> IF e \in q THEN c[e] + 1 ELSE c[e]]

\* _consumer_loop, once it is woken: get() does not suspend while there are
\* events, so the whole queue is applied in one go.
Consume ==
    /\ up /\ consumer = "idle" /\ queue # {}
    /\ cache' = Applied(cache, queue)
    /\ queue' = {}
    /\ dirty' = TRUE
    /\ UNCHANGED <<files, loaded, consumer, load, flusher, write, stop, up,
                   recorded, mishaps>>

(***************************************************************************)
(* Seeding: _seed_cache and load_data                                      *)
(***************************************************************************)

\* Mutant: what was read is added to the cache.
SeededMerging(got) ==
    /\ cache' = [e \in Events |-> cache[e] + got[e]]
    /\ loaded' = TRUE
    /\ mishaps' = mishaps \cup (IF loaded THEN {"reseeded"} ELSE {})

\* What the load does to the cache when its data is there.
Seeded(got) ==
    /\ cache' = got
    /\ loaded' = TRUE
    /\ mishaps' = mishaps \cup (IF loaded THEN {"reseeded"} ELSE {})

\* A load begins: without a file it ends at once, else the file is opened in
\* a worker thread and the caller waits.
LoadBegins(p) ==
    IF exists
    THEN /\ load' = [load EXCEPT ![p].at = "opening"]
         /\ UNCHANGED <<cache, loaded, mishaps>>
    ELSE Seeded(Nothing) /\ UNCHANGED load

\* The first step of _consumer_loop.
ConsumerStarts ==
    /\ up /\ consumer = "new"
    /\ IF loaded THEN UNCHANGED <<load, cache, loaded, mishaps>>
                 ELSE LoadBegins(Consumer)
    /\ consumer' = IF ~loaded /\ exists THEN "loading" ELSE "idle"
    /\ UNCHANGED <<files, dirty, queue, flusher, write, stop, up, recorded>>

\* get_merged_data of a caller that finds no cache.
ReaderLoads(r) ==
    /\ up /\ ~loaded /\ load[r].at = "no"
    /\ LoadBegins(r)
    /\ UNCHANGED <<files, dirty, queue, consumer, flusher, write, stop, up, recorded>>

\* The file is opened and read: os.replace leaves an opened file as it was.
Open(p) ==
    /\ up /\ load[p].at = "opening"
    /\ load' = [load EXCEPT ![p] = [at |-> "read", got |-> file]]
    /\ UNCHANGED <<files, cache, loaded, dirty, queue, consumer, flusher, write,
                   stop, up, recorded, mishaps>>

\* An unreadable file counts as an empty one.
OpenFails(p) ==
    /\ up /\ load[p].at = "opening"
    /\ load' = [load EXCEPT ![p] = [at |-> "read", got |-> Nothing]]
    /\ mishaps' = mishaps \cup {"misread"}
    /\ UNCHANGED <<files, cache, loaded, dirty, queue, consumer, flusher, write,
                   stop, up, recorded>>

\* load_data returns: the cache becomes what was read, whoever asked for it
\* and whatever the cache is by now.
LoadEnds(p) ==
    /\ up /\ load[p].at = "read"
    /\ Seeded(load[p].got)
    /\ load' = [load EXCEPT ![p] = NotLoading]
    /\ consumer' = IF p = Consumer THEN "idle" ELSE consumer
    /\ UNCHANGED <<files, dirty, queue, flusher, write, stop, up, recorded>>

\* Mutant: the queue is forgotten.
ViewOfCache(e) == cache[e]

\* What get_merged_data returns: the cache and the events still queued.
View(e) == cache[e] + (IF e \in queue THEN 1 ELSE 0)

(***************************************************************************)
(* Flushing: _flush_loop, _flush_once and save_data_sync                   *)
(***************************************************************************)

\* _flush_once up to its await: the snapshot is taken and handed to a thread.
FlushOnce(w) ==
    /\ dirty' = FALSE
    /\ write' = [write EXCEPT ![w] = [at |-> "queued", snap |-> cache]]

Flush ==
    /\ up /\ flusher = "sleeping" /\ dirty
    /\ FlushOnce("periodic")
    /\ flusher' = "writing"
    /\ UNCHANGED <<files, cache, loaded, queue, consumer, load, stop, up,
                   recorded, mishaps>>

\* Mutant: dirty is unset again when the write has ended.
FlushReturnsClean ==
    /\ up /\ flusher = "writing" /\ write["periodic"].at = "no"
    /\ flusher' = "sleeping" /\ dirty' = FALSE
    /\ UNCHANGED <<files, cache, loaded, queue, consumer, load, write, stop, up,
                   recorded, mishaps>>

FlushReturns ==
    /\ up /\ flusher = "writing" /\ write["periodic"].at = "no"
    /\ flusher' = "sleeping"
    /\ UNCHANGED <<files, cache, loaded, dirty, queue, consumer, load, write,
                   stop, up, recorded, mishaps>>

\* The thread writes the temporary file, which all threads share...
Fill(w) ==
    /\ up /\ write[w].at = "queued"
    /\ tmpThere' = TRUE /\ tmp' = write[w].snap
    /\ write' = [write EXCEPT ![w].at = "filled"]
    /\ UNCHANGED <<exists, file, cache, loaded, dirty, queue, consumer, load,
                   flusher, stop, up, recorded, mishaps>>

\* ...and renames it; when another thread has renamed it before, the error is
\* logged and the thread ends.
Replace(w) ==
    /\ up /\ write[w].at = "filled"
    /\ IF tmpThere THEN exists' = TRUE /\ file' = tmp ELSE UNCHANGED <<exists, file>>
    /\ tmpThere' = FALSE
    /\ write' = [write EXCEPT ![w] = NotWriting]
    /\ UNCHANGED <<tmp, cache, loaded, dirty, queue, consumer, load, flusher, stop,
                   up, recorded, mishaps>>

\* A write fails: the error is logged, the temporary file removed, and nobody
\* is told; dirty stays unset.
WriteFails(w) ==
    /\ up /\ write[w].at \in {"queued", "filled"}
    /\ tmpThere' = FALSE
    /\ write' = [write EXCEPT ![w] = NotWriting]
    /\ mishaps' = mishaps \cup {"unwritten"}
    /\ UNCHANGED <<exists, file, tmp, cache, loaded, dirty, queue, consumer, load,
                   flusher, stop, up, recorded>>

(***************************************************************************)
(* Shutdown: stop()                                                        *)
(***************************************************************************)

\* The flush task is cancelled.  A write that no thread has taken up goes with
\* it; a thread that runs cannot be cancelled.
StopBegins ==
    /\ up /\ stop = "no"
    /\ stop' = "joining"
    /\ flusher' = "done"
    /\ \/ UNCHANGED write
       \/ /\ write["periodic"].at = "queued"
          /\ write' = [write EXCEPT !["periodic"] = NotWriting]
    /\ UNCHANGED <<files, cache, loaded, dirty, queue, consumer, load, up, recorded, mishaps>>

\* queue.join() is satisfied once the queue is empty; events may follow
\* before stop() goes on.
Joined ==
    /\ up /\ stop = "joining" /\ queue = {}
    /\ stop' = "joined"
    /\ UNCHANGED <<files, cache, loaded, dirty, queue, consumer, load, flusher,
                   write, up, recorded, mishaps>>

\* Mutant: the consumer does not drain the queue.
ConsumerCancelledAtOnce ==
    /\ up /\ stop = "joined"
    /\ stop' = "closed"
    /\ consumer' = "done"
    /\ load' = [load EXCEPT ![Consumer] = NotLoading]
    /\ mishaps' = mishaps \cup (IF consumer = "idle" THEN {} ELSE {"unseeded"})
    /\ UNCHANGED <<files, cache, loaded, dirty, queue, flusher, write, up, recorded>>

\* The consumer is cancelled: waiting for events it drains the queue, waiting
\* for the file (or not yet run) it just ends.
ConsumerCancelled ==
    /\ up /\ stop = "joined"
    /\ stop' = "closed"
    /\ consumer' = "done"
    /\ IF consumer = "idle"
       THEN /\ cache' = Applied(cache, queue)
            /\ dirty' = (dirty \/ queue # {})
            /\ queue' = {}
            /\ UNCHANGED <<load, mishaps>>
       ELSE /\ load' = [load EXCEPT ![Consumer] = NotLoading]
            /\ mishaps' = mishaps \cup {"unseeded"}
            /\ UNCHANGED <<cache, dirty, queue>>
    /\ UNCHANGED <<files, loaded, flusher, write, up, recorded>>

\* The final flush, forced: it writes the cache as it is.
FinalFlush ==
    /\ up /\ stop = "closed"
    /\ stop' = "flushing"
    /\ FlushOnce("final")
    /\ mishaps' = mishaps \cup
                    (IF write["periodic"].at # "no" THEN {"overlap"} ELSE {})
    /\ UNCHANGED <<files, cache, loaded, queue, consumer, load, flusher, up, recorded>>

StopReturns ==
    /\ up /\ stop = "flushing" /\ write["final"].at = "no"
    /\ stop' = "over"
    /\ UNCHANGED <<files, cache, loaded, dirty, queue, consumer, load, flusher,
                   write, up, recorded, mishaps>>

(***************************************************************************)
(* The process                                                             *)
(***************************************************************************)

\* A crash at any time, or the end of the program; of the files nothing is lost.
Dies ==
    /\ up
    /\ up' = FALSE
    /\ UNCHANGED <<files, cache, loaded, dirty, queue, consumer, load, flusher,
                   write, stop, recorded, mishaps>>

Restarts ==
    /\ ~up
    /\ up' = TRUE
    /\ Fresh
    /\ recorded' = {e \in Events : file[e] > 0}
    /\ UNCHANGED files

Next ==
    \/ \E e \in Events : Enqueue(e)
    \/ Consume \/ ConsumerStarts
    \/ \E r \in Readers : ReaderLoads(r)
    \/ \E p \in Loaders : Open(p) \/ OpenFails(p) \/ LoadEnds(p)
    \/ Flush \/ FlushReturns
    \/ \E w \in Threads : Fill(w) \/ Replace(w) \/ WriteFails(w)
    \/ StopBegins \/ Joined \/ ConsumerCancelled \/ FinalFlush \/ StopReturns
    \/ Dies \/ Restarts

Spec == Init /\ [][Next]_vars

\* The event loop runs every task that can run, threads end, and reads end.
Fairness ==
    /\ WF_vars(Consume) /\ WF_vars(ConsumerStarts)
    /\ \A p \in Loaders : WF_vars(Open(p)) /\ WF_vars(LoadEnds(p))
    /\ WF_vars(Flush) /\ WF_vars(FlushReturns)
    /\ \A w \in Threads : WF_vars(Fill(w)) /\ WF_vars(Replace(w))
    /\ WF_vars(Joined) /\ WF_vars(ConsumerCancelled)
    /\ WF_vars(FinalFlush) /\ WF_vars(StopReturns)

FairSpec == Spec /\ Fairness

-----------------------------------------------------------------------------
(***************************************************************************)
(* Properties                                                              *)
(***************************************************************************)

\* No call is counted twice, in what a reader sees or in the file, through
\* repeated loads, failed writes, crashes and restarts.
CountedOnce ==
    \A e \in Events :
        /\ up => View(e) <= 1
        /\ file[e] <= 1

\* A reader sees every call that the buffer has taken over, and every call
\* that was in the file at the start, unless the file was misread, the
\* consumer was cancelled before it had the file, or a second load replaced
\* the cache.
ViewComplete ==
    up /\ loaded /\ mishaps \cap {"misread", "unseeded", "reseeded"} = {}
        => \A e \in recorded : View(e) = 1

\* When stop() has returned and nothing went wrong, the file counts every
\* call that the buffer took over before its consumer ended.
StopSavesAll ==
    up /\ stop = "over" /\ mishaps = {} => \A e \in recorded : file[e] = 1

\* A recorded call reaches the file although nobody stops the program: a
\* flush that overlaps with new events does not lose its reason to run.
EventuallySaved ==
    \A e \in Events :
        (up /\ e \in recorded)
            ~> (file[e] = 1 \/ ~up \/ stop # "no" \/ mishaps # {})

\* What the docstring of stop says ("Drain queue, stop tasks, perform final
\* flush."): when it has returned the file counts every recorded call.  No
\* read and no write failed.
StopLosesNothing ==
    up /\ stop = "over" /\ mishaps \cap {"misread", "unwritten"} = {}
        => \A e \in recorded : file[e] = 1
=============================================================================
