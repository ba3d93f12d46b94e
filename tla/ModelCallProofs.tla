--------------------------- MODULE ModelCallProofs ---------------------------
(***************************************************************************)
(* Proofs about what surrounds a call of a language model: the limiter that*)
(* lets it through (RateLimiter) and the count of what it used             *)
(* (TokenUsage), for every set of calls and readers and for all limits.    *)
(***************************************************************************)
EXTENDS TokenUsage, RateLimiter, FiniteSetTheorems, TLAPS

(***************************************************************************)
(* Token usage                                                             *)
(***************************************************************************)

(* A table that counts a call once or not at all, and then the buffer took *)
(* the call over and it does not wait in the queue any more.               *)
Once(table) ==
  \A e \in Events :
    /\ table[e] \in {0, 1}
    /\ table[e] = 1 => e \in recorded /\ e \notin queue

(* Every table there is, on its way from the file to the cache and back;   *)
(* of the temporary file only what a thread of this process wrote.         *)
OnceInv ==
  /\ Once(file) /\ Once(cache)
  /\ \A p \in Loaders : load[p].at = "read" => Once(load[p].got)
  /\ \A w \in Threads : write[w].at # "no" => Once(write[w].snap)
  /\ (\E w \in Threads : write[w].at = "filled") => Once(tmp)
  /\ consumer # "done" => queue \subseteq recorded
  /\ load[Consumer].at # "no" => consumer = "loading"

(* A table from which, with the queue, no recorded call is missing.        *)
Complete(table) == \A e \in recorded : table[e] = 1 \/ e \in queue

Sound == mishaps \cap {"misread", "unseeded", "reseeded"} = {}

(* Until the first load ends nothing is written: the file is complete, and *)
(* so is what a load has read; then it is the cache.                       *)
SeedInv ==
  /\ consumer = "idle" => loaded
  /\ ~exists => file = Nothing
  /\ Sound => IF loaded THEN Complete(cache)
              ELSE /\ Complete(file) /\ ~dirty
                   /\ stop \in {"no", "joining", "joined"}
                   /\ consumer # "done"
                   /\ \A w \in Threads : write[w].at = "no"
                   /\ \A p \in Loaders : load[p].at = "read" => Complete(load[p].got)

(* A table from which no recorded call is missing at all.                  *)
Full(table) == \A e \in recorded : table[e] = 1

(* Once the consumer has ended the cache is full, and the final flush      *)
(* carries it to the file, alone.                                          *)
StopInv ==
  /\ stop # "no" => flusher = "done"
  /\ stop \in {"closed", "flushing", "over"} => consumer = "done"
  /\ mishaps = {} =>
       /\ consumer = "done" => loaded /\ Full(cache)
       /\ stop \in {"flushing", "over"} => write["periodic"].at = "no"
       /\ stop = "flushing" =>
            /\ write["final"].at = "no" => Full(file)
            /\ write["final"].at # "no" => Full(write["final"].snap)
            /\ write["final"].at = "filled" => tmpThere /\ Full(tmp)
       /\ stop = "over" => Full(file) /\ write["final"].at = "no"
       /\ stop \notin {"flushing", "over"} => write["final"].at = "no"

IInv == TypeOK /\ OnceInv /\ SeedInv /\ StopInv
-----------------------------------------------------------------------------
LEMMA NothingType == Nothing \in Counts /\ \A e \in Events : Nothing[e] = 0
BY DEF Nothing, Counts

LEMMA AppliedType ==
  ASSUME NEW c \in Counts, NEW q
  PROVE  /\ Applied(c, q) \in Counts
         /\ \A e \in Events : Applied(c, q)[e] = IF e \in q THEN c[e] + 1 ELSE c[e]
BY DEF Applied, Counts

LEMMA LoadType ==
  ASSUME TypeOK, NEW p \in Loaders, LoadBegins(p)
  PROVE  /\ load' \in [Loaders -> [at : {"no", "opening", "read"}, got : Counts]]
         /\ cache' \in Counts /\ loaded' \in BOOLEAN /\ mishaps' \in SUBSET Mishaps
<1>1. CASE exists
  <2>1. load' = [load EXCEPT ![p].at = "opening"] /\ UNCHANGED <<cache, loaded, mishaps>>
    BY <1>1 DEF LoadBegins
  <2>2. load' \in [Loaders -> [at : {"no", "opening", "read"}, got : Counts]]
    BY <2>1 DEF TypeOK
  <2> QED
    BY <2>1, <2>2 DEF TypeOK
<1>2. CASE ~exists
  BY <1>2, NothingType DEF LoadBegins, Seeded, TypeOK, Mishaps
<1> QED
  BY <1>1, <1>2 DEF TypeOK

LEMMA TypeStep ==
  ASSUME TypeOK, [Next]_vars
  PROVE  TypeOK'
<1> USE NothingType, AppliedType DEF TypeOK, files, Mishaps, Threads, NotLoading, NotWriting
<1>0. Consumer \in Loaders /\ Readers \subseteq Loaders
  BY DEF Loaders
<1>1. ASSUME NEW e \in Events, Enqueue(e)
      PROVE  TypeOK'
  BY <1>1 DEF Enqueue
<1>2. CASE Consume
  BY <1>2 DEF Consume
<1>3. CASE ConsumerStarts
  <2>1. CASE loaded
    BY <1>3, <2>1 DEF ConsumerStarts
  <2>2. CASE ~loaded
    BY <1>0, <1>3, <2>2, LoadType DEF ConsumerStarts
  <2> QED
    BY <2>1, <2>2
<1>4. ASSUME NEW r \in Readers, ReaderLoads(r)
      PROVE  TypeOK'
  BY <1>0, <1>4, LoadType DEF ReaderLoads
<1>5. ASSUME NEW p \in Loaders, Open(p)
      PROVE  TypeOK'
  BY <1>5 DEF Open
<1>6. ASSUME NEW p \in Loaders, OpenFails(p)
      PROVE  TypeOK'
  BY <1>6 DEF OpenFails
<1>7. ASSUME NEW p \in Loaders, LoadEnds(p)
      PROVE  TypeOK'
  BY <1>7 DEF LoadEnds, Seeded
<1>8. CASE Flush
  BY <1>8 DEF Flush, FlushOnce
<1>9. CASE FlushReturns
  BY <1>9 DEF FlushReturns
<1>10. ASSUME NEW w \in Threads, Fill(w)
       PROVE  TypeOK'
  BY <1>10 DEF Fill
<1>11. ASSUME NEW w \in Threads, Replace(w)
       PROVE  TypeOK'
  <2>1. write' = [write EXCEPT ![w] = NotWriting]
    BY <1>11 DEF Replace
  <2>2. write' \in [Threads -> [at : {"no", "queued", "filled"}, snap : Counts]]
    BY <2>1
  <2>3. exists' \in BOOLEAN /\ file' \in Counts /\ tmpThere' = FALSE
    BY <1>11 DEF Replace
  <2> QED
    BY <1>11, <2>2, <2>3 DEF Replace
<1>12. ASSUME NEW w \in Threads, WriteFails(w)
       PROVE  TypeOK'
  BY <1>12 DEF WriteFails
<1>13. CASE StopBegins
  BY <1>13 DEF StopBegins
<1>14. CASE Joined \/ StopReturns \/ Dies
  <2>1. CASE Joined
    BY <2>1 DEF Joined
  <2>2. CASE StopReturns
    BY <2>2 DEF StopReturns
  <2>3. CASE Dies
    <3>1. up' \in BOOLEAN
      BY <2>3 DEF Dies
    <3> QED
      BY <2>3, <3>1 DEF Dies
  <2> QED
    BY <1>14, <2>1, <2>2, <2>3
<1>15. CASE ConsumerCancelled
  <2>1. load' \in [Loaders -> [at : {"no", "opening", "read"}, got : Counts]]
    BY <1>0, <1>15 DEF ConsumerCancelled
  <2>2. cache' \in Counts
    BY <1>15 DEF ConsumerCancelled
  <2>4. queue' \in SUBSET Events
    BY <1>15 DEF ConsumerCancelled
  <2>5. mishaps' \in SUBSET Mishaps
    <3>1. mishaps' = mishaps \/ mishaps' = mishaps \cup {"unseeded"}
      BY <1>15 DEF ConsumerCancelled
    <3>2. mishaps \in SUBSET Mishaps /\ "unseeded" \in Mishaps
      OBVIOUS
    <3> HIDE DEF Mishaps
    <3> QED
      BY <3>1, <3>2
  <2>3. dirty' \in BOOLEAN
    BY <1>15 DEF ConsumerCancelled
  <2> QED
    BY <1>15, <2>1, <2>2, <2>3, <2>4, <2>5 DEF ConsumerCancelled
<1>16. CASE FinalFlush
  BY <1>16 DEF FinalFlush, FlushOnce
<1>17. CASE Restarts
  BY <1>17 DEF Restarts, Fresh
<1>18. CASE UNCHANGED vars
  BY <1>18 DEF vars
<1> QED
  BY <1>1, <1>2, <1>3, <1>4, <1>5, <1>6, <1>7, <1>8, <1>9, <1>10, <1>11, <1>12,
     <1>13, <1>14, <1>15, <1>16, <1>17, <1>18 DEF Next

LEMMA InitType == Init => TypeOK
<1> SUFFICES ASSUME Init PROVE TypeOK
  OBVIOUS
<1>1. file \in Counts
  <2>1. PICK saved \in SUBSET Events :
          file = [e \in Events |-> IF e \in saved THEN 1 ELSE 0]
    BY DEF Init
  <2>2. \A e \in Events : (IF e \in saved THEN 1 ELSE 0) \in Nat
    OBVIOUS
  <2> QED
    BY <2>1, <2>2 DEF Counts
<1> QED
  BY <1>1, NothingType DEF Init, TypeOK, NotLoading, NotWriting, Threads, Mishaps
-----------------------------------------------------------------------------
(* Calls are counted once.                                                 *)

(* A table stays as it is while the buffer takes over new calls and takes  *)
(* others from the queue.                                                  *)
LEMMA OnceKept ==
  ASSUME recorded \subseteq recorded', \A e \in recorded : e \in queue' => e \in queue,
         NEW t, Once(t)
  PROVE  Once(t)'
BY DEF Once

LEMMA OnceNothing == Once(Nothing) /\ Once(Nothing)'
BY NothingType DEF Once, Nothing

(* The queue is applied to a cache that counts none of it.                 *)
LEMMA OnceApplied ==
  ASSUME TypeOK, Once(cache), queue \subseteq recorded, cache' = Applied(cache, queue),
         queue' = {}, recorded' = recorded
  PROVE  Once(cache)'
<1>1. \A e \in Events : cache'[e] = IF e \in queue THEN cache[e] + 1 ELSE cache[e]
  BY AppliedType DEF TypeOK
<1>2. \A e \in Events : e \in queue => cache[e] = 0
  BY DEF Once
<1> QED
  BY <1>1, <1>2 DEF Once

LEMMA OnceStep ==
  ASSUME TypeOK, OnceInv, [Next]_vars
  PROVE  OnceInv'
<1> USE DEF OnceInv
<1>0. Consumer \in Loaders /\ Readers \subseteq Loaders
  BY DEF Loaders
<1>1. ASSUME NEW e \in Events, Enqueue(e)
      PROVE  OnceInv'
  <2>1. /\ recorded \subseteq recorded' /\ \A d \in recorded : d \in queue' => d \in queue
        /\ UNCHANGED <<file, cache, load, write, tmp, consumer>>
        /\ consumer # "done" => queue' \subseteq recorded'
    BY <1>1 DEF Enqueue, files
  <2> QED
    BY <2>1, OnceKept
<1>2. CASE Consume
  <2>1. /\ Once(cache)' /\ queue' = {} /\ recorded' = recorded
        /\ UNCHANGED <<file, load, write, tmp, consumer>>
    BY <1>2, OnceApplied DEF Consume, files
  <2> QED
    BY <2>1, OnceKept
<1>3. CASE ConsumerStarts
  <2>1. UNCHANGED <<file, write, tmp, queue, recorded>> /\ consumer = "new"
    BY <1>3 DEF ConsumerStarts, files
  <2>3. cache' \in {cache, Nothing} /\ consumer' # "done"
    BY <1>3 DEF ConsumerStarts, LoadBegins, Seeded
  <2>4. \A p \in Loaders : load'[p].at = "read" => load'[p] = load[p]
    BY <1>0, <1>3 DEF ConsumerStarts, LoadBegins, TypeOK
  <2>5. load'[Consumer].at # "no" => consumer' = "loading"
    BY <1>0, <1>3 DEF ConsumerStarts, LoadBegins, TypeOK
  <2> QED
    BY <2>1, <2>3, <2>4, <2>5, OnceKept, OnceNothing
<1>4. ASSUME NEW r \in Readers, ReaderLoads(r)
      PROVE  OnceInv'
  <2>1. UNCHANGED <<file, write, tmp, queue, recorded, consumer>>
    BY <1>4 DEF ReaderLoads, files
  <2>2. cache' \in {cache, Nothing}
    BY <1>4 DEF ReaderLoads, LoadBegins, Seeded
  <2>3. \A p \in Loaders : load'[p].at = "read" => load'[p] = load[p]
    BY <1>0, <1>4 DEF ReaderLoads, LoadBegins, TypeOK
  <2>4. load'[Consumer] = load[Consumer]
    BY <1>0, <1>4, ConstantsAssumption DEF ReaderLoads, LoadBegins, TypeOK
  <2> QED
    BY <2>1, <2>2, <2>3, <2>4, OnceKept, OnceNothing
<1>5. ASSUME NEW p \in Loaders, Open(p) \/ OpenFails(p)
      PROVE  OnceInv'
  <2>1. UNCHANGED <<file, cache, write, tmp, queue, recorded, consumer>>
    BY <1>5 DEF Open, OpenFails, files
  <2>2. \E t \in {file, Nothing} : load' = [load EXCEPT ![p] = [at |-> "read", got |-> t]]
    BY <1>5 DEF Open, OpenFails
  <2>3. \A o \in Loaders : load'[o].at = "read" =>
          load'[o] = load[o] \/ load'[o].got \in {file, Nothing}
    BY <2>2 DEF TypeOK
  <2>4. load'[Consumer].at # "no" => load[Consumer].at # "no"
    BY <1>0, <1>5, <2>2 DEF TypeOK, Open, OpenFails
  <2> QED
    BY <2>1, <2>3, <2>4, OnceKept, OnceNothing
<1>6. ASSUME NEW p \in Loaders, LoadEnds(p)
      PROVE  OnceInv'
  <2>1. UNCHANGED <<file, write, tmp, queue, recorded>> /\ cache' = load[p].got
    BY <1>6 DEF LoadEnds, Seeded, files
  <2>2. Once(load[p].got)
    BY <1>6 DEF LoadEnds
  <2>4. /\ \A o \in Loaders : load'[o].at = "read" => load'[o] = load[o]
        /\ load'[Consumer].at # "no" => load'[Consumer] = load[Consumer] /\ p # Consumer
    BY <1>0, <1>6 DEF LoadEnds, TypeOK, NotLoading
  <2>5. consumer' = (IF p = Consumer THEN "idle" ELSE consumer)
    BY <1>6 DEF LoadEnds
  <2>6. consumer' # "done" => consumer # "done"
    BY <1>6, <2>5 DEF LoadEnds
  <2>7. Once(cache)'
    BY <2>1, <2>2, OnceKept
  <2> QED
    BY <2>1, <2>4, <2>5, <2>6, <2>7, OnceKept
<1>7. CASE Flush \/ FinalFlush
  <2>1. /\ UNCHANGED <<file, cache, tmp, load, queue, recorded, consumer>>
        /\ \E w \in Threads : write' = [write EXCEPT ![w] = [at |-> "queued", snap |-> cache]]
    BY <1>7 DEF Flush, FinalFlush, FlushOnce, files, Threads
  <2>2. \A w \in Threads :
          /\ write'[w] = write[w] \/ write'[w].snap = cache
          /\ write'[w].at = "filled" => write[w].at = "filled"
    BY <2>1 DEF TypeOK
  <2> QED
    BY <2>1, <2>2, OnceKept
<1>8. ASSUME NEW w \in Threads, Fill(w)
      PROVE  OnceInv'
  <2>1. /\ UNCHANGED <<file, cache, load, queue, recorded, consumer>> /\ tmp' = write[w].snap
        /\ Once(write[w].snap)
    BY <1>8 DEF Fill
  <2>2. \A v \in Threads : write'[v].snap = write[v].snap /\ (v = w \/ write'[v] = write[v])
    BY <1>8 DEF Fill, TypeOK
  <2>3. write[w].at # "no"
    BY <1>8 DEF Fill
  <2>4. Once(tmp)'
    BY <2>1, OnceKept
  <2> QED
    BY <2>1, <2>2, <2>3, <2>4, OnceKept
<1>9. ASSUME NEW w \in Threads, Replace(w) \/ WriteFails(w)
      PROVE  OnceInv'
  <2>1. /\ UNCHANGED <<tmp, cache, load, queue, recorded, consumer>>
        /\ file' = file \/ (file' = tmp /\ write[w].at = "filled")
    BY <1>9 DEF Replace, WriteFails
  <2>2. \A v \in Threads : write'[v] = write[v] \/ write'[v].at = "no"
    BY <1>9 DEF Replace, WriteFails, TypeOK, NotWriting
  <2>3. Once(file)'
    BY <2>1, OnceKept
  <2> QED
    BY <2>1, <2>2, <2>3, OnceKept
<1>10. CASE StopBegins
  <2>1. UNCHANGED <<file, cache, tmp, load, queue, recorded, consumer>>
    BY <1>10 DEF StopBegins, files
  <2>2. \A v \in Threads : write'[v] = write[v] \/ write'[v].at = "no"
    BY <1>10 DEF StopBegins, TypeOK, NotWriting
  <2> QED
    BY <2>1, <2>2, OnceKept
<1>11. CASE ConsumerCancelled
  <2>1. /\ UNCHANGED <<file, tmp, write, recorded>> /\ consumer' = "done"
        /\ queue' \subseteq queue
    BY <1>11 DEF ConsumerCancelled, files
  <2>2. Once(cache)'
    <3>1. CASE consumer = "idle"
      BY <1>11, <3>1, OnceApplied DEF ConsumerCancelled
    <3>2. CASE consumer # "idle"
      <4>1. cache' = cache
        BY <1>11, <3>2 DEF ConsumerCancelled
      <4> QED
        BY <2>1, <4>1, OnceKept
    <3> QED
      BY <3>1, <3>2
  <2>3. /\ \A p \in Loaders : load'[p].at = "read" => load'[p] = load[p]
        /\ load'[Consumer].at = "no"
    <3>1. CASE consumer = "idle"
      BY <1>0, <1>11, <3>1 DEF ConsumerCancelled, TypeOK
    <3>2. CASE consumer # "idle"
      BY <1>0, <1>11, <3>2 DEF ConsumerCancelled, TypeOK, NotLoading
    <3> QED
      BY <3>1, <3>2
  <2> QED
    BY <2>1, <2>2, <2>3, OnceKept
<1>12. CASE Restarts
  <2>1. /\ cache' = Nothing /\ queue' = {} /\ consumer' = "new" /\ UNCHANGED file
        /\ \A p \in Loaders : load'[p].at = "no"
        /\ \A w \in Threads : write'[w].at = "no"
        /\ recorded' = {e \in Events : file[e] > 0}
    BY <1>12 DEF Restarts, Fresh, files, NotLoading, NotWriting
  <2>2. Once(file)'
    BY <2>1 DEF Once
  <2> QED
    BY <1>0, <2>1, <2>2, OnceNothing
<1>13. CASE UNCHANGED <<file, cache, tmp, load, write, queue, recorded, consumer>>
  BY <1>13, OnceKept
<1> QED
  BY <1>1, <1>2, <1>3, <1>4, <1>5, <1>6, <1>7, <1>8, <1>9, <1>10, <1>11, <1>12, <1>13
     DEF Next, FlushReturns, Joined, StopReturns, Dies, files, vars

LEMMA InitOnce == Init => OnceInv
<1> SUFFICES ASSUME Init PROVE OnceInv
  OBVIOUS
<1>1. Once(file)
  <2>1. PICK saved \in SUBSET Events :
          file = [e \in Events |-> IF e \in saved THEN 1 ELSE 0]
    BY DEF Init
  <2> SUFFICES ASSUME NEW e \in Events
               PROVE  /\ file[e] \in {0, 1}
                      /\ file[e] = 1 => e \in recorded /\ e \notin queue
    BY DEF Once
  <2>2. file[e] \in {0, 1}
    BY <2>1
  <2>3. queue = {} /\ (e \in recorded <=> file[e] > 0)
    BY DEF Init
  <2> QED
    BY <2>2, <2>3
<1> QED
  BY <1>1, OnceNothing DEF Init, OnceInv, Threads, NotWriting, NotLoading, Loaders
-----------------------------------------------------------------------------
(* Nothing recorded is missing.                                            *)

LEMMA CompleteKept ==
  ASSUME \A e \in recorded' : e \in queue' \/ (e \in recorded /\ e \notin queue),
         NEW t, Complete(t)
  PROVE  Complete(t)'
BY DEF Complete

LEMMA CompleteApplied ==
  ASSUME TypeOK, Once(cache), Complete(cache), cache' = Applied(cache, queue),
         recorded' = recorded
  PROVE  Full(cache)'
<1> SUFFICES ASSUME NEW e \in recorded
             PROVE  cache'[e] = 1
  BY DEF Full
<1>1. e \in Events
  BY DEF TypeOK
<1>2. cache'[e] = IF e \in queue THEN cache[e] + 1 ELSE cache[e]
  BY <1>1, AppliedType DEF TypeOK
<1>3. IF e \in queue THEN cache[e] = 0 ELSE cache[e] = 1
  BY <1>1 DEF Once, Complete
<1> QED
  BY <1>2, <1>3

LEMMA FullComplete == Full(cache)' => Complete(cache)'
BY DEF Full, Complete

(* What a load that begins leaves, when the file is complete.              *)
LEMMA SeedLoads ==
  ASSUME TypeOK, SeedInv, NEW p \in Loaders, ~loaded, LoadBegins(p),
         UNCHANGED <<files, dirty, queue, recorded, write, stop>>,
         consumer' # "done" \/ consumer' = consumer, consumer' = "idle" => loaded' \/ consumer = "idle"
  PROVE  SeedInv'
<1> USE DEF SeedInv, files
<1>1. mishaps' = mishaps
  BY DEF LoadBegins, Seeded
<1>2. CASE exists
  <2>1. load' = [load EXCEPT ![p].at = "opening"] /\ UNCHANGED <<cache, loaded>>
    BY <1>2 DEF LoadBegins
  <2>2. \A o \in Loaders : load'[o].at = "read" => load'[o] = load[o]
    BY <2>1 DEF TypeOK
  <2> QED
    BY <1>1, <2>1, <2>2, CompleteKept DEF Sound, Complete
<1>3. CASE ~exists
  <2>1. cache' = file /\ loaded'
    BY <1>3 DEF LoadBegins, Seeded
  <2> QED
    BY <1>1, <2>1 DEF Sound, Complete
<1> QED
  BY <1>2, <1>3

LEMMA SeedStep ==
  ASSUME TypeOK, OnceInv, SeedInv, [Next]_vars
  PROVE  SeedInv'
<1> USE DEF SeedInv, files
<1>0. Consumer \in Loaders /\ Readers \subseteq Loaders
  BY DEF Loaders
<1>1. ASSUME NEW e \in Events, Enqueue(e)
      PROVE  SeedInv'
  BY <1>1 DEF Enqueue, Complete, Sound
<1>2. CASE Consume
  <2>1. loaded /\ UNCHANGED <<loaded, exists, file, mishaps, consumer>>
    BY <1>2 DEF Consume
  <2>2. Sound => Complete(cache)'
    BY <1>2, <2>1, CompleteApplied, FullComplete DEF Consume, OnceInv
  <2> QED
    BY <2>1, <2>2 DEF Sound
<1>3. CASE ConsumerStarts
  <2>1. CASE loaded
    BY <1>3, <2>1 DEF ConsumerStarts, Complete, Sound
  <2>2. CASE ~loaded
    <3>1. ~exists => loaded'
      BY <1>3, <2>2 DEF ConsumerStarts, LoadBegins, Seeded
    <3> QED
      BY <1>0, <1>3, <2>2, <3>1, SeedLoads DEF ConsumerStarts
  <2> QED
    BY <2>1, <2>2
<1>4. ASSUME NEW r \in Readers, ReaderLoads(r)
      PROVE  SeedInv'
  BY <1>0, <1>4, SeedLoads DEF ReaderLoads
<1>5. ASSUME NEW p \in Loaders, Open(p)
      PROVE  SeedInv'
  <2>1. \A o \in Loaders : load'[o] = load[o] \/ load'[o].got = file
    BY <1>5 DEF Open, TypeOK
  <2> QED
    BY <1>5, <2>1 DEF Open, Complete, Sound
<1>6. ASSUME NEW p \in Loaders, OpenFails(p)
      PROVE  SeedInv'
  BY <1>6 DEF OpenFails, Sound
<1>7. ASSUME NEW p \in Loaders, LoadEnds(p)
      PROVE  SeedInv'
  <2>1. Sound' => Sound /\ ~loaded
    BY <1>7 DEF LoadEnds, Seeded, Sound
  <2> QED
    BY <1>7, <2>1 DEF LoadEnds, Seeded, Complete
<1>8. CASE Flush
  BY <1>8 DEF Flush, FlushOnce, Complete, Sound
<1>9. ASSUME NEW w \in Threads, Fill(w) \/ Replace(w) \/ WriteFails(w)
      PROVE  SeedInv'
  <2>1. /\ UNCHANGED <<cache, loaded, queue, recorded, consumer>> /\ (Sound' => Sound)
        /\ (~exists' => ~exists /\ file' = file) /\ write[w].at # "no"
    BY <1>9 DEF Fill, Replace, WriteFails, Sound
  <2>2. Sound => loaded
    BY <2>1
  <2> QED
    BY <2>1, <2>2 DEF Complete
<1>10. CASE StopBegins
  <2>1. \A v \in Threads : write'[v] = write[v] \/ write'[v].at = "no"
    BY <1>10 DEF StopBegins, TypeOK, NotWriting
  <2> QED
    BY <1>10, <2>1 DEF StopBegins, Complete, Sound
<1>11. CASE ConsumerCancelled
  <2>1. CASE consumer = "idle"
    <3>1. Sound => Complete(cache)'
      BY <1>11, <2>1, CompleteApplied, FullComplete DEF ConsumerCancelled, OnceInv
    <3> QED
      BY <1>11, <2>1, <3>1 DEF ConsumerCancelled, Sound
  <2>2. CASE consumer # "idle"
    BY <1>11, <2>2 DEF ConsumerCancelled, Sound
  <2> QED
    BY <2>1, <2>2
<1>12. CASE FinalFlush
  <2>1. Sound' => Sound /\ loaded
    BY <1>12 DEF FinalFlush, Sound
  <2> QED
    BY <1>12, <2>1 DEF FinalFlush, Complete
<1>13. CASE Restarts
  <2>1. Complete(file)'
    BY <1>13 DEF Restarts, Fresh, Complete, OnceInv, Once
  <2> QED
    BY <1>13, <2>1 DEF Restarts, Fresh, NotLoading, NotWriting
<1>14. CASE FlushReturns \/ Joined \/ StopReturns \/ Dies \/ UNCHANGED vars
  BY <1>14 DEF FlushReturns, Joined, StopReturns, Dies, vars, Complete, Sound
<1> QED
  BY <1>1, <1>2, <1>3, <1>4, <1>5, <1>6, <1>7, <1>8, <1>9, <1>10, <1>11, <1>12,
     <1>13, <1>14 DEF Next

LEMMA InitSeed == Init => SeedInv
<1> SUFFICES ASSUME Init PROVE SeedInv
  OBVIOUS
<1>1. Complete(file)
  <2>1. Once(file)
    BY InitOnce DEF OnceInv
  <2>2. recorded = {e \in Events : file[e] > 0}
    BY DEF Init
  <2> SUFFICES ASSUME NEW e \in recorded PROVE file[e] = 1 \/ e \in queue
    BY DEF Complete
  <2>3. e \in Events /\ file[e] > 0
    BY <2>2
  <2>4. file[e] \in {0, 1}
    BY <2>1, <2>3 DEF Once
  <2> QED
    BY <2>3, <2>4
<1> QED
  BY <1>1 DEF Init, SeedInv, NotLoading, NotWriting
-----------------------------------------------------------------------------
(* What stop() leaves in the file.                                         *)

LEMMA FullKept ==
  ASSUME recorded' \subseteq recorded, NEW t, Full(t)
  PROVE  Full(t)'
BY DEF Full

(* Steps that change none of the variables of StopInv, or make a mishap.   *)
LEMMA StopKept ==
  ASSUME StopInv, UNCHANGED <<flusher, stop, consumer>>,
         \/ mishaps' # {}
         \/ /\ UNCHANGED <<file, tmpThere, tmp, cache, mishaps>>
            /\ loaded => loaded' /\ recorded' \subseteq recorded
            /\ write["periodic"].at = "no" => write'["periodic"].at = "no"
            /\ write'["final"] = write["final"]
  PROVE  StopInv'
BY DEF StopInv, Full

LEMMA StopStep ==
  ASSUME TypeOK, OnceInv, SeedInv, StopInv, [Next]_vars
  PROVE  StopInv'
<1> USE DEF StopInv, files
<1>1. ASSUME NEW e \in Events, Enqueue(e)
      PROVE  StopInv'
  <2>1. CASE consumer = "done"
    BY <1>1, <2>1, StopKept DEF Enqueue
  <2>2. CASE consumer # "done"
    BY <1>1, <2>2 DEF Enqueue
  <2> QED
    BY <2>1, <2>2
<1>2. CASE Consume
  BY <1>2 DEF Consume
<1>3. CASE ConsumerStarts
  BY <1>3 DEF ConsumerStarts, LoadBegins, Seeded
<1>4. ASSUME NEW r \in Readers, ReaderLoads(r)
      PROVE  StopInv'
  <2>1. mishaps = {} => consumer # "done"
    BY <1>4 DEF ReaderLoads
  <2>2. /\ mishaps' = mishaps
        /\ UNCHANGED <<flusher, stop, consumer, write>>
    BY <1>4 DEF ReaderLoads, LoadBegins, Seeded
  <2> QED
    BY <2>1, <2>2
<1>5. ASSUME NEW p \in Loaders, Open(p)
      PROVE  StopInv'
  BY <1>5, StopKept DEF Open
<1>6. ASSUME NEW p \in Loaders, OpenFails(p)
      PROVE  StopInv'
  BY <1>6, StopKept DEF OpenFails
<1>7. ASSUME NEW p \in Loaders, LoadEnds(p)
      PROVE  StopInv'
  <2>1. UNCHANGED <<flusher, stop, write>> /\ (consumer' = consumer \/ consumer' = "idle")
    BY <1>7 DEF LoadEnds
  <2>2. consumer' = "done" => consumer = "done"
    BY <2>1
  <2>3. stop \in {"closed", "flushing", "over"} => consumer' = "done"
    BY <1>7 DEF LoadEnds, OnceInv
  <2>4. mishaps' = {} => mishaps = {} /\ ~loaded
    BY <1>7 DEF LoadEnds, Seeded
  <2> QED
    BY <2>1, <2>2, <2>3, <2>4
<1>8. CASE Flush
  <2>1. stop = "no" /\ UNCHANGED <<stop, consumer, cache, loaded, recorded, mishaps>>
    BY <1>8 DEF Flush, FlushOnce
  <2>2. write'["final"] = write["final"]
    BY <1>8 DEF Flush, FlushOnce, TypeOK, Threads
  <2> QED
    BY <2>1, <2>2 DEF Full
<1>9. CASE FlushReturns
  <2>1. /\ stop = "no"
        /\ UNCHANGED <<stop, consumer, cache, loaded, recorded, mishaps, write>>
    BY <1>9 DEF FlushReturns
  <2> QED
    BY <2>1 DEF Full
<1>10. ASSUME NEW w \in Threads, Fill(w)
      PROVE  StopInv'
  <2>1. CASE w = "periodic"
    <3>1. write["periodic"].at = "queued" /\ write'["final"] = write["final"]
      BY <1>10, <2>1 DEF Fill, TypeOK, Threads
    <3>2. UNCHANGED <<file, cache, loaded, recorded, mishaps, flusher, stop, consumer>>
      BY <1>10 DEF Fill
    <3>3. mishaps = {} => stop \notin {"flushing", "over"}
      BY <3>1
    <3> QED
      BY <3>1, <3>2, <3>3 DEF Full
  <2>2. CASE w = "final"
    BY <1>10, <2>2 DEF Fill, TypeOK, Threads, Full
  <2> QED
    BY <2>1, <2>2 DEF Threads
<1>11. ASSUME NEW w \in Threads, Replace(w)
      PROVE  StopInv'
  <2>1. CASE w = "periodic"
    <3>1. write["periodic"].at = "filled" /\ write'["final"] = write["final"]
      BY <1>11, <2>1 DEF Replace, TypeOK, Threads
    <3>2. UNCHANGED <<cache, loaded, recorded, mishaps, flusher, stop, consumer>>
      BY <1>11 DEF Replace
    <3>3. mishaps = {} => stop \notin {"flushing", "over"}
      BY <3>1
    <3> QED
      BY <3>1, <3>2, <3>3 DEF Full
  <2>2. CASE w = "final"
    BY <1>11, <2>2 DEF Replace, TypeOK, Threads, Full, NotWriting
  <2> QED
    BY <2>1, <2>2 DEF Threads
<1>12. ASSUME NEW w \in Threads, WriteFails(w)
      PROVE  StopInv'
  BY <1>12, StopKept DEF WriteFails
<1>13. CASE StopBegins
  BY <1>13 DEF StopBegins, TypeOK, Threads, Full
<1>14. CASE Joined
  BY <1>14 DEF Joined, Full
<1>15. CASE ConsumerCancelled
  <2>1. CASE consumer = "idle"
    <3>1. mishaps = {} => Full(cache)'
      BY <1>15, <2>1, CompleteApplied DEF ConsumerCancelled, OnceInv, SeedInv, Sound
    <3> QED
      BY <1>15, <2>1, <3>1 DEF ConsumerCancelled, SeedInv
  <2>2. CASE consumer # "idle"
    <3>1. mishaps' # {}
      BY <1>15, <2>2 DEF ConsumerCancelled
    <3> QED
      BY <1>15, <3>1 DEF ConsumerCancelled
  <2> QED
    BY <2>1, <2>2
<1>16. CASE FinalFlush
  <2>1. mishaps' = {} => mishaps = {} /\ write["periodic"].at = "no"
    BY <1>16 DEF FinalFlush
  <2>2. /\ write'["final"].at = "queued" /\ write'["final"].snap = cache
        /\ write'["periodic"] = write["periodic"]
    BY <1>16 DEF FinalFlush, FlushOnce, TypeOK, Threads
  <2> QED
    BY <1>16, <2>1, <2>2 DEF FinalFlush, Full
<1>17. CASE StopReturns
  BY <1>17 DEF StopReturns, Full
<1>18. CASE Restarts
  BY <1>18 DEF Restarts, Fresh, Threads, NotWriting
<1>19. CASE Dies \/ UNCHANGED vars
  BY <1>19, StopKept DEF Dies, vars
<1> QED
  BY <1>1, <1>2, <1>3, <1>4, <1>5, <1>6, <1>7, <1>8, <1>9, <1>10, <1>11, <1>12,
     <1>13, <1>14, <1>15, <1>16, <1>17, <1>18, <1>19 DEF Next

LEMMA InitStop == Init => StopInv
<1> SUFFICES ASSUME Init PROVE StopInv
  OBVIOUS
<1>1. stop = "no" /\ consumer = "new"
  BY DEF Init
<1>2. \A w \in Threads : write[w].at = "no"
  BY DEF Init, NotWriting
<1> QED
  BY <1>1, <1>2 DEF StopInv, Threads
-----------------------------------------------------------------------------
LEMMA InvariantHolds == Spec => []IInv
<1>1. Init => IInv
  BY InitType, InitOnce, InitSeed, InitStop DEF IInv
<1>2. IInv /\ [Next]_vars => IInv'
  BY TypeStep, OnceStep, SeedStep, StopStep DEF IInv
<1> QED
  BY <1>1, <1>2, PTL DEF Spec

(* The variables keep their types through loads, writes, crashes and       *)
(* restarts.                                                               *)
THEOREM TypeCorrect == Spec => []TypeOK
<1>1. IInv => TypeOK
  BY DEF IInv
<1> QED
  BY <1>1, InvariantHolds, PTL

(* No call is counted twice, neither in what a reader is shown nor in the  *)
(* file.                                                                   *)
THEOREM CallsCountedOnce == Spec => []CountedOnce
<1>1. ASSUME IInv PROVE CountedOnce
  <2>1. Once(file) /\ Once(cache)
    BY <1>1 DEF IInv, OnceInv
  <2> SUFFICES ASSUME NEW e \in Events
               PROVE  View(e) <= 1 /\ file[e] <= 1
    BY DEF CountedOnce
  <2>2. file[e] \in {0, 1} /\ cache[e] \in {0, 1} /\ (e \in queue => cache[e] = 0)
    BY <2>1 DEF Once
  <2> QED
    BY <2>2 DEF View
<1> QED
  BY <1>1, InvariantHolds, PTL

(* Unless the file was misread, the consumer ended before it had it, or a  *)
(* second load replaced the cache, a reader is shown every recorded call.  *)
THEOREM ReadersSeeEverything == Spec => []ViewComplete
<1>1. ASSUME IInv PROVE ViewComplete
  <2> SUFFICES ASSUME loaded, Sound, NEW e \in recorded
               PROVE  View(e) = 1
    BY DEF ViewComplete, Sound
  <2>1. e \in Events /\ Once(cache) /\ Complete(cache)
    BY <1>1 DEF IInv, TypeOK, OnceInv, SeedInv
  <2> QED
    BY <2>1 DEF Once, Complete, View
<1> QED
  BY <1>1, InvariantHolds, PTL

(* When stop() has returned after a life without mishaps, the file counts  *)
(* every call recorded before the consumer ended.                          *)
THEOREM StopSaves == Spec => []StopSavesAll
<1>1. IInv => StopSavesAll
  BY DEF IInv, StopInv, Full, StopSavesAll
<1> QED
  BY <1>1, InvariantHolds, PTL
-----------------------------------------------------------------------------
(***************************************************************************)
(* The limiter                                                             *)
(***************************************************************************)

Places == {"idle"} \cup Acquiring \cup Holding \cup {"streaming", "backoff", "done"}
Backoffs == {"holdingBackoff", "backoff"}

(* What LimiterTypeOK says, without the bounds that follow from the other parts.  *)
TypeInv ==
  /\ free \in Int
  /\ pauseLeft \in Nat
  /\ claims \in [Ages -> Nat]
  /\ pc \in [Calls -> Places]
  /\ streamed \in [Calls -> BOOLEAN]
  /\ attempt \in [Calls -> Nat]
  /\ waited \in [Calls -> Nat]
  /\ stale \in [Calls -> BOOLEAN]
  /\ patched \in [Calls -> BOOLEAN]
  /\ sends \in [Calls -> Nat]

Holders == {c \in Calls : pc[c] \in Holding}

Extra(c) == IF patched[c] THEN 1 ELSE 0

(* A call has sent nothing yet in the attempt it is being let through for. *)
Counted(c) ==
  /\ attempt[c] <= Attempts
  /\ pc[c] = "idle" => attempt[c] = 0
  /\ pc[c] \in Backoffs => attempt[c] < Attempts
  /\ sends[c] <= attempt[c] + Extra(c)
  /\ pc[c] \in Acquiring => sends[c] < attempt[c] + Extra(c)

SendsInv == \A c \in Calls : Counted(c)

(* A call that has seen the end of a pause has seen the end of this one.   *)
StaleInv == \A c \in Calls : stale[c] => pauseLeft = 0

(* The window holds at most max_qpm claims; and what else the types say of *)
(* the sizes of variables.                                                 *)
BoundsInv ==
  /\ free >= 0 /\ pauseLeft <= MaxPause /\ doomed \subseteq Calls
  /\ \A c \in Calls : waited[c] <= AcquireTimeout
  /\ \A a \in Ages : claims[a] <= MaxQpm
  /\ Cardinality(ClaimsMade) <= MaxQpm

LimiterIInv == TypeInv /\ PermitsConserved /\ SendsInv /\ StaleInv /\ BoundsInv
-----------------------------------------------------------------------------
LEMMA BoundsType == Attempts \in Nat \ {0} /\ MaxPause \in Nat /\ MaxConcurrent \in Nat
BY LimiterAssumption

LEMMA FinallyType ==
  ASSUME TypeInv, NEW c \in Calls, Finally(c)
  PROVE  free' \in Int
BY DEF Finally, Release, KeepPermits, TypeInv

LEMMA PauseType ==
  ASSUME TypeInv, Noted \/ Report(MaxPause)
  PROVE  pauseLeft' \in Nat /\ stale' \in [Calls -> BOOLEAN]
<1>1. ASSUME NEW pause \in Nat, Report(pause)
      PROVE  pauseLeft' \in Nat /\ stale' \in [Calls -> BOOLEAN]
  BY <1>1 DEF Report, TypeInv
<1>2. CASE NoReport
  BY <1>2 DEF NoReport, TypeInv
<1>3. MaxPause \in Nat /\ 0..MaxPause \subseteq Nat
  BY BoundsType
<1> QED
  BY <1>1, <1>2, <1>3 DEF Noted

LEMMA GotoType ==
  ASSUME TypeInv, NEW c \in Calls, NEW place \in Places, Goto(c, place)
  PROVE  pc' \in [Calls -> Places]
BY DEF Goto, TypeInv

LEMMA BeginType ==
  ASSUME TypeInv, NEW c \in Calls, BeginAttempt(c)
  PROVE  /\ pc' \in [Calls -> Places] /\ attempt' \in [Calls -> Nat]
         /\ waited' \in [Calls -> Nat] /\ stale' \in [Calls -> BOOLEAN]
<1>1. "cooldown" \in Places
  BY DEF Places, Acquiring
<1>2. pc' \in [Calls -> Places]
  BY <1>1, GotoType DEF BeginAttempt
<1>3. stale' \in [Calls -> BOOLEAN]
  <2>1. (pauseLeft = 0) \in BOOLEAN
    OBVIOUS
  <2>2. stale' = [stale EXCEPT ![c] = (pauseLeft = 0)]
    BY DEF BeginAttempt
  <2> QED
    BY <2>1, <2>2 DEF TypeInv
<1> QED
  BY <1>2, <1>3 DEF BeginAttempt, Uncounted, TypeInv

LEMMA LimiterTypeStep ==
  ASSUME TypeInv, [LimiterNext]_limiterVars
  PROVE  TypeInv'
<1> USE DEF TypeInv
<1>0. /\ {"idle", "cooldown", "window", "permit", "asking", "opening", "holdingBackoff",
          "streaming", "backoff", "done"} \subseteq Places
      /\ \A c \in Calls : pc[c] \in Places
  BY DEF Places, Acquiring, Holding
<1>1. CASE Tick
  <2>1. pauseLeft' \in Nat
    BY <1>1 DEF Tick
  <2>2. claims' \in [Ages -> Nat]
    <3>1. ASSUME NEW a \in Ages PROVE (IF a = 0 THEN 0 ELSE claims[a - 1]) \in Nat
      <4>1. CASE a # 0
        <5>1. a - 1 \in Ages
          BY <4>1, LimiterAssumption DEF Ages
        <5> QED
          BY <4>1, <5>1
      <4> QED
        BY <4>1
    <3>2. claims' = [a \in Ages |-> IF a = 0 THEN 0 ELSE claims[a - 1]]
      BY <1>1 DEF Tick
    <3>3. [a \in Ages |-> IF a = 0 THEN 0 ELSE claims[a - 1]] \in [Ages -> Nat]
      BY <3>1, Zenon
    <3> QED
      BY ONLY <3>2, <3>3, Zenon
  <2>3. waited' \in [Calls -> Nat]
    BY <1>1 DEF Tick
  <2> QED
    BY <1>1, <2>1, <2>2, <2>3 DEF Tick
<1>2. ASSUME NEW c \in Calls, Begin(c)
      PROVE  TypeInv'
  BY <1>2, BeginType DEF Begin
<1>3. ASSUME NEW c \in Calls, Cooled(c)
      PROVE  TypeInv'
  <2>1. pc' \in [Calls -> Places]
    BY <1>0, <1>3 DEF Cooled, Goto
  <2> QED
    BY <1>3, <2>1 DEF Cooled
<1>4. ASSUME NEW c \in Calls, Claim(c)
      PROVE  TypeInv'
  <2>1. pc' \in [Calls -> Places]
    BY <1>0, <1>4, GotoType DEF Claim
  <2>2. claims' \in [Ages -> Nat]
    <3>1. 0 \in Ages /\ claims' = [claims EXCEPT ![0] = claims[0] + 1]
      BY <1>4, LimiterAssumption DEF Claim, Ages
    <3> QED
      BY <3>1
  <2> QED
    BY <1>4, <2>1, <2>2 DEF Claim
<1>5. ASSUME NEW c \in Calls, Acquire(c)
      PROVE  TypeInv'
  <2>1. pc' \in [Calls -> Places]
    BY <1>0, <1>5, GotoType DEF Acquire
  <2>2. waited' \in [Calls -> Nat] /\ sends' \in [Calls -> Nat] /\ free' \in Int
    BY <1>5 DEF Acquire, Uncounted
  <2> QED
    BY <1>5, <2>1, <2>2 DEF Acquire
<1>6. ASSUME NEW c \in Calls, AcquireTimesOut(c)
      PROVE  TypeInv'
  BY <1>0, <1>6, GotoType DEF AcquireTimesOut, Uncounted
<1>7. ASSUME NEW c \in Calls, Retry(c)
      PROVE  TypeInv'
  BY <1>7, BeginType, FinallyType DEF Retry
<1>8. ASSUME NEW c \in Calls, Answered(c)
      PROVE  TypeInv'
  <2>1. pauseLeft' \in Nat
    BY <1>8 DEF Answered, OnSuccess
  <2> QED
    BY <1>0, <1>8, <2>1, GotoType, FinallyType DEF Answered
<1>9. ASSUME NEW c \in Calls, StreamOpened(c)
      PROVE  TypeInv'
  BY <1>0, <1>9, GotoType DEF StreamOpened
<1>10. ASSUME NEW c \in Calls, FirstChunk(c)
       PROVE  TypeInv'
  <2>1. pauseLeft' \in Nat /\ free' \in Int
    BY <1>10 DEF FirstChunk, OnSuccess, Release
  <2> QED
    BY <1>0, <1>10, <2>1, GotoType DEF FirstChunk
<1>11. ASSUME NEW c \in Calls, StreamEnds(c)
       PROVE  TypeInv'
  BY <1>0, <1>11, GotoType, FinallyType DEF StreamEnds
<1>12. ASSUME NEW c \in Calls, RequestFails(c)
       PROVE  TypeInv'
  BY <1>0, <1>12, GotoType, PauseType DEF RequestFails
<1>13. ASSUME NEW c \in Calls, StreamFails(c)
       PROVE  TypeInv'
  BY <1>0, <1>13, GotoType, PauseType, FinallyType DEF StreamFails
<1>14. ASSUME NEW c \in Calls, Raises(c)
       PROVE  TypeInv'
  BY <1>0, <1>14, GotoType, PauseType, FinallyType DEF Raises
<1>15. ASSUME NEW c \in Calls, TooLong(c)
       PROVE  TypeInv'
  <2>1. free' \in Int
    BY <1>15, FinallyType DEF TooLong, KeepPermits
  <2>2. pc' \in [Calls -> Places]
    BY <1>0, <1>15, GotoType DEF TooLong
  <2>3. pauseLeft' \in Nat /\ stale' \in [Calls -> BOOLEAN]
    BY <1>15, PauseType DEF TooLong, Noted
  <2> QED
    BY <1>15, <2>1, <2>2, <2>3 DEF TooLong
<1>16. ASSUME NEW c \in Calls, Patched(c)
       PROVE  TypeInv'
  <2>1. patched' \in [Calls -> BOOLEAN] /\ sends' \in [Calls -> Nat]
    BY <1>16 DEF Patched
  <2> QED
    BY <1>16, <2>1 DEF Patched
<1>17. ASSUME NEW c \in Calls, Cancel(c)
       PROVE  TypeInv'
  BY <1>0, <1>17, GotoType, FinallyType DEF Cancel, Uncounted
<1>18. CASE UNCHANGED limiterVars
  BY <1>18 DEF limiterVars
<1> QED
  BY <1>1, <1>2, <1>3, <1>4, <1>5, <1>6, <1>7, <1>8, <1>9, <1>10, <1>11, <1>12,
     <1>13, <1>14, <1>15, <1>16, <1>17, <1>18 DEF LimiterNext, Proceeds, Responds

LEMMA LimiterInitType == LimiterInit => TypeInv
BY BoundsType DEF LimiterInit, TypeInv, Places
-----------------------------------------------------------------------------
(* Permits.                                                                *)

LEMMA HoldersFinite ==
  /\ IsFiniteSet(Holders) /\ Cardinality(Holders) \in Nat
  /\ PermitsConserved <=> free + Cardinality(Holders) = MaxConcurrent
<1>1. Holders \in SUBSET Calls
  BY DEF Holders
<1> QED
  BY <1>1, LimiterAssumption, FS_Subset, FS_CardinalityType DEF PermitsConserved, Holders

Held(place) == IF place \in Holding THEN 1 ELSE 0

(* A call that moves takes a permit when it enters a place where it holds  *)
(* one, and gives it back when it leaves one.                              *)
LEMMA CallMoves ==
  ASSUME TypeInv, PermitsConserved, NEW c \in Calls, NEW place, Goto(c, place),
         free' = free + Held(pc[c]) - Held(place)
  PROVE  PermitsConserved'
<1>1. /\ IsFiniteSet(Holders)' /\ (Cardinality(Holders) \in Nat)'
      /\ (PermitsConserved <=> free + Cardinality(Holders) = MaxConcurrent)'
  BY HoldersFinite, LimiterAssumption, FS_Subset, FS_CardinalityType, PTL
<1>2. \A d \in Calls : pc'[d] = IF d = c THEN place ELSE pc[d]
  BY DEF Goto, TypeInv
<1>3. CASE place \in Holding
  <2>1. Holders' = Holders \cup {c}
    BY <1>2, <1>3 DEF Holders
  <2>2. Cardinality(Holders') = IF c \in Holders THEN Cardinality(Holders) ELSE Cardinality(Holders) + 1
    BY <2>1, HoldersFinite, FS_AddElement
  <2> QED
    BY <1>1, <1>3, <2>2, HoldersFinite DEF Held, Holders, TypeInv
<1>4. CASE place \notin Holding
  <2>1. Holders' = Holders \ {c}
    BY <1>2, <1>4 DEF Holders
  <2>2. Cardinality(Holders') = IF c \in Holders THEN Cardinality(Holders) - 1 ELSE Cardinality(Holders)
    BY <2>1, HoldersFinite, FS_RemoveElement
  <2> QED
    BY <1>1, <1>4, <2>2, HoldersFinite DEF Held, Holders, TypeInv
<1> QED
  BY <1>3, <1>4

LEMMA PermitsStay ==
  ASSUME TypeInv, PermitsConserved, UNCHANGED <<free, pc>>
  PROVE  PermitsConserved'
BY DEF PermitsConserved

LEMMA PermitsStep ==
  ASSUME TypeInv, PermitsConserved, [LimiterNext]_limiterVars
  PROVE  PermitsConserved'
<1> USE DEF Finally, Release, KeepPermits, Held, Holding, Acquiring
<1>0. free \in Int
  BY DEF TypeInv
<1>1. CASE Tick \/ UNCHANGED limiterVars \/ \E c \in Calls : Patched(c)
  BY <1>1, PermitsStay DEF Tick, limiterVars, Patched
<1>2. ASSUME NEW c \in Calls, Begin(c) \/ Retry(c)
      PROVE  PermitsConserved'
  <2>1. Goto(c, "cooldown") /\ free' = free + Held(pc[c]) - Held("cooldown")
    BY <1>0, <1>2 DEF Begin, Retry, BeginAttempt
  <2> QED
    BY <2>1, CallMoves
<1>3. ASSUME NEW c \in Calls, Cooled(c)
      PROVE  PermitsConserved'
  <2>1. \E place \in {"window", "permit"} :
          Goto(c, place) /\ free' = free + Held(pc[c]) - Held(place)
    BY <1>0, <1>3 DEF Cooled
  <2> QED
    BY <2>1, CallMoves
<1>4. ASSUME NEW c \in Calls, Claim(c)
      PROVE  PermitsConserved'
  <2>1. Goto(c, "permit") /\ free' = free + Held(pc[c]) - Held("permit")
    BY <1>0, <1>4 DEF Claim
  <2> QED
    BY <2>1, CallMoves
<1>5. ASSUME NEW c \in Calls, Acquire(c)
      PROVE  PermitsConserved'
  <2>1. Goto(c, "asking") /\ free' = free + Held(pc[c]) - Held("asking")
    BY <1>0, <1>5 DEF Acquire
  <2> QED
    BY <2>1, CallMoves
<1>6. ASSUME NEW c \in Calls,
             AcquireTimesOut(c) \/ Answered(c) \/ StreamEnds(c) \/ Raises(c) \/ Cancel(c)
      PROVE  PermitsConserved'
  <2>1. Goto(c, "done") /\ free' = free + Held(pc[c]) - Held("done")
    BY <1>0, <1>6 DEF AcquireTimesOut, Answered, StreamEnds, Raises, Cancel
  <2> QED
    BY <2>1, CallMoves
<1>7. ASSUME NEW c \in Calls, StreamOpened(c)
      PROVE  PermitsConserved'
  <2>1. Goto(c, "opening") /\ free' = free + Held(pc[c]) - Held("opening")
    BY <1>0, <1>7 DEF StreamOpened
  <2> QED
    BY <2>1, CallMoves
<1>8. ASSUME NEW c \in Calls, FirstChunk(c)
      PROVE  PermitsConserved'
  <2>1. Goto(c, "streaming") /\ free' = free + Held(pc[c]) - Held("streaming")
    BY <1>0, <1>8 DEF FirstChunk
  <2> QED
    BY <2>1, CallMoves
<1>9. ASSUME NEW c \in Calls, RequestFails(c)
      PROVE  PermitsConserved'
  <2>1. Goto(c, "holdingBackoff") /\ free' = free + Held(pc[c]) - Held("holdingBackoff")
    BY <1>0, <1>9 DEF RequestFails
  <2> QED
    BY <2>1, CallMoves
<1>10. ASSUME NEW c \in Calls, StreamFails(c)
       PROVE  PermitsConserved'
  <2>1. Goto(c, "backoff") /\ free' = free + Held(pc[c]) - Held("backoff")
    BY <1>0, <1>10 DEF StreamFails
  <2> QED
    BY <2>1, CallMoves
<1>11. ASSUME NEW c \in Calls, TooLong(c)
       PROVE  PermitsConserved'
  <2>1. \E place \in {"done", "holdingBackoff", "backoff"} :
          Goto(c, place) /\ free' = free + Held(pc[c]) - Held(place)
    BY <1>0, <1>11 DEF TooLong
  <2> QED
    BY <2>1, CallMoves
<1> QED
  BY <1>1, <1>2, <1>3, <1>4, <1>5, <1>6, <1>7, <1>8, <1>9, <1>10, <1>11
     DEF LimiterNext, Proceeds, Responds

LEMMA InitPermits == LimiterInit => PermitsConserved
<1> SUFFICES ASSUME LimiterInit PROVE PermitsConserved
  OBVIOUS
<1>1. {c \in Calls : pc[c] \in Holding} = {}
  BY DEF LimiterInit, Holding
<1> QED
  BY <1>1, BoundsType, FS_EmptySet DEF LimiterInit, PermitsConserved
-----------------------------------------------------------------------------
(* Requests.                                                               *)

(* The calls that do not move keep their counts.                           *)
LEMMA CountedKept ==
  ASSUME NEW c \in Calls, Counted(c),
         pc'[c] = pc[c], attempt'[c] = attempt[c], patched'[c] = patched[c], sends'[c] = sends[c]
  PROVE  Counted(c)'
BY DEF Counted, Extra

(* A call that moves on within its attempt.                                *)
LEMMA CountedMoves ==
  ASSUME TypeInv, SendsInv, NEW c \in Calls, NEW place, Goto(c, place),
         place \notin Acquiring \cup {"idle"},
         place \in Backoffs => attempt[c] < Attempts,
         UNCHANGED <<attempt, patched, sends>>
  PROVE  SendsInv'
<1>1. \A d \in Calls : pc'[d] = IF d = c THEN place ELSE pc[d]
  BY DEF Goto, TypeInv
<1>2. \A d \in Calls \ {c} : Counted(d)'
  BY <1>1, CountedKept DEF SendsInv
<1>3. Counted(c)'
  BY <1>1 DEF SendsInv, Counted, Extra
<1> QED
  BY <1>2, <1>3 DEF SendsInv

LEMMA SendsStep ==
  ASSUME TypeInv, SendsInv, [LimiterNext]_limiterVars
  PROVE  SendsInv'
<1> USE DEF Backoffs, Acquiring
<1>1. CASE Tick \/ UNCHANGED limiterVars
  BY <1>1 DEF Tick, limiterVars, SendsInv, Counted, Extra
<1>2. ASSUME NEW c \in Calls, Begin(c) \/ Retry(c)
      PROVE  SendsInv'
  <2>1. /\ pc' = [pc EXCEPT ![c] = "cooldown"] /\ attempt' = [attempt EXCEPT ![c] = @ + 1]
        /\ UNCHANGED <<patched, sends>>
    BY <1>2 DEF Begin, Retry, BeginAttempt, Goto
  <2>2. attempt[c] < Attempts
    BY <1>2, BoundsType DEF Begin, Retry, SendsInv, Counted
  <2>3. \A d \in Calls \ {c} : Counted(d)'
    BY <2>1, CountedKept DEF SendsInv
  <2>4. /\ pc'[c] = "cooldown" /\ attempt'[c] = attempt[c] + 1
        /\ sends'[c] = sends[c] /\ patched'[c] = patched[c]
    BY <2>1 DEF TypeInv
  <2>5. sends[c] <= attempt[c] + Extra(c)
    BY DEF SendsInv, Counted
  <2>6. attempt[c] \in Nat /\ sends[c] \in Nat /\ Extra(c) \in Nat /\ Extra(c)' = Extra(c)
    BY <2>4 DEF TypeInv, Extra
  <2>7. Counted(c)'
    BY <2>2, <2>4, <2>5, <2>6, BoundsType DEF Counted
  <2> QED
    BY <2>3, <2>7 DEF SendsInv
<1>3. ASSUME NEW c \in Calls, Cooled(c) \/ Claim(c)
      PROVE  SendsInv'
  <2>1. PICK place \in {"window", "permit"} : pc' = [pc EXCEPT ![c] = place]
    BY <1>3 DEF Cooled, Claim, Goto
  <2>2. UNCHANGED <<attempt, patched, sends>> /\ pc[c] \in Acquiring
    BY <1>3 DEF Cooled, Claim
  <2>3. \A d \in Calls \ {c} : Counted(d)'
    <3>1. \A d \in Calls \ {c} : pc'[d] = pc[d]
      BY <2>1
    <3> QED
      BY <2>2, <3>1, CountedKept DEF SendsInv
  <2>4. Counted(c)'
    BY <2>1, <2>2 DEF SendsInv, Counted, Extra, TypeInv
  <2> QED
    BY <2>3, <2>4 DEF SendsInv
<1>4. ASSUME NEW c \in Calls, Acquire(c)
      PROVE  SendsInv'
  <2>1. /\ pc' = [pc EXCEPT ![c] = "asking"] /\ sends' = [sends EXCEPT ![c] = @ + 1]
        /\ UNCHANGED <<patched, attempt>> /\ pc[c] = "permit"
    BY <1>4 DEF Acquire, Goto
  <2>2. \A d \in Calls \ {c} : Counted(d)'
    BY <2>1, CountedKept DEF SendsInv
  <2>3. sends[c] < attempt[c] + Extra(c) /\ attempt[c] <= Attempts
    BY <2>1 DEF SendsInv, Counted
  <2>4. pc'[c] = "asking" /\ sends'[c] = sends[c] + 1 /\ Extra(c)' = Extra(c)
    BY <2>1 DEF TypeInv, Extra
  <2>5. sends[c] \in Nat /\ attempt[c] \in Nat /\ Extra(c) \in Nat
    BY DEF TypeInv, Extra
  <2>6. Counted(c)'
    BY <2>1, <2>3, <2>4, <2>5 DEF Counted
  <2> QED
    BY <2>2, <2>6 DEF SendsInv
<1>5. ASSUME NEW c \in Calls, Patched(c)
      PROVE  SendsInv'
  <2>1. /\ patched' = [patched EXCEPT ![c] = TRUE] /\ sends' = [sends EXCEPT ![c] = @ + 1]
        /\ UNCHANGED <<pc, attempt>> /\ ~patched[c] /\ pc[c] = "asking"
    BY <1>5 DEF Patched
  <2>2. \A d \in Calls \ {c} : Counted(d)'
    <3>1. \A d \in Calls \ {c} : patched'[d] = patched[d] /\ sends'[d] = sends[d]
      BY <2>1 DEF TypeInv
    <3> QED
      BY <2>1, <3>1 DEF SendsInv, Counted, Extra
  <2>3. sends[c] <= attempt[c] + Extra(c) /\ attempt[c] <= Attempts /\ Extra(c) = 0
    BY <2>1 DEF SendsInv, Counted, Extra
  <2>4. sends'[c] = sends[c] + 1 /\ Extra(c)' = 1
    BY <2>1 DEF TypeInv, Extra
  <2>5. sends[c] \in Nat /\ attempt[c] \in Nat
    BY DEF TypeInv
  <2>6. Counted(c)'
    BY <2>1, <2>3, <2>4, <2>5 DEF Counted
  <2> QED
    BY <2>2, <2>6 DEF SendsInv
<1>6. ASSUME NEW c \in Calls, AcquireTimesOut(c) \/ Answered(c) \/ StreamOpened(c)
                              \/ FirstChunk(c) \/ StreamEnds(c) \/ Raises(c) \/ Cancel(c)
      PROVE  SendsInv'
  <2>1. /\ \E place \in {"done", "opening", "streaming"} : Goto(c, place)
        /\ UNCHANGED <<attempt, patched, sends>>
    BY <1>6 DEF AcquireTimesOut, Answered, StreamOpened, FirstChunk, StreamEnds, Raises, Cancel
  <2> QED
    BY <2>1, CountedMoves
<1>7. ASSUME NEW c \in Calls, RequestFails(c) \/ StreamFails(c)
      PROVE  SendsInv'
  <2>1. /\ \E place \in Backoffs : Goto(c, place)
        /\ UNCHANGED <<attempt, patched, sends>> /\ attempt[c] < Attempts
    BY <1>7 DEF RequestFails, StreamFails
  <2> QED
    BY <2>1, CountedMoves
<1>8. ASSUME NEW c \in Calls, TooLong(c)
      PROVE  SendsInv'
  <2>1. /\ \E place \in Backoffs \cup {"done"} :
              Goto(c, place) /\ (place \in Backoffs => attempt[c] < Attempts)
        /\ UNCHANGED <<attempt, patched, sends>>
    BY <1>8 DEF TooLong
  <2> QED
    BY <2>1, CountedMoves
<1> QED
  BY <1>1, <1>2, <1>3, <1>4, <1>5, <1>6, <1>7, <1>8 DEF LimiterNext, Proceeds, Responds

LEMMA InitSends == LimiterInit => SendsInv
BY BoundsType DEF LimiterInit, SendsInv, Counted, Extra, Backoffs, Acquiring
-----------------------------------------------------------------------------
(* The pause.                                                              *)

LEMMA StaleStep ==
  ASSUME TypeInv, StaleInv, [LimiterNext]_limiterVars
  PROVE  StaleInv'
<1> USE DEF StaleInv
<1>1. CASE Tick
  BY <1>1 DEF Tick
<1>2. ASSUME NEW c \in Calls, Begin(c) \/ Retry(c)
      PROVE  StaleInv'
  <2>1. stale' = [stale EXCEPT ![c] = (pauseLeft = 0)] /\ pauseLeft' = pauseLeft
    BY <1>2 DEF Begin, Retry, BeginAttempt
  <2>2. \A d \in Calls : stale'[d] => stale[d] \/ pauseLeft = 0
    BY <2>1 DEF TypeInv
  <2> QED
    BY <2>1, <2>2
<1>3. ASSUME NEW c \in Calls, Answered(c) \/ FirstChunk(c)
      PROVE  StaleInv'
  BY <1>3 DEF Answered, FirstChunk, OnSuccess
<1>4. ASSUME NEW c \in Calls,
             RequestFails(c) \/ StreamFails(c) \/ Raises(c) \/ TooLong(c)
      PROVE  StaleInv'
  <2>1. NoReport \/ \E pause \in Nat : Report(pause)
    BY <1>4, BoundsType DEF RequestFails, StreamFails, Raises, TooLong, Noted
  <2> QED
    BY <2>1 DEF NoReport, Report
<1>5. CASE UNCHANGED <<stale, pauseLeft>>
  BY <1>5
<1> QED
  BY <1>1, <1>2, <1>3, <1>4, <1>5 DEF LimiterNext, Proceeds, Responds, Cooled, Claim, Acquire,
     AcquireTimesOut, StreamOpened, StreamEnds, Patched, Cancel, limiterVars

LEMMA PauseStep ==
  ASSUME TypeInv, StaleInv, [LimiterNext]_limiterVars
  PROVE  pauseLeft' < pauseLeft => pauseLeft' = pauseLeft - 1 /\ UNCHANGED pc
<1>0. pauseLeft \in Nat
  BY DEF TypeInv
<1>1. CASE Tick
  BY <1>0, <1>1 DEF Tick
<1>2. ASSUME NEW c \in Calls, Answered(c) \/ FirstChunk(c)
      PROVE  pauseLeft' = pauseLeft
  BY <1>2 DEF Answered, FirstChunk, OnSuccess, StaleInv
<1>3. ASSUME NEW c \in Calls,
             RequestFails(c) \/ StreamFails(c) \/ Raises(c) \/ TooLong(c)
      PROVE  ~(pauseLeft' < pauseLeft)
  <2>1. NoReport \/ \E pause \in Nat : Report(pause)
    BY <1>3, BoundsType DEF RequestFails, StreamFails, Raises, TooLong, Noted
  <2> QED
    BY <1>0, <2>1 DEF NoReport, Report
<1>4. CASE UNCHANGED pauseLeft
  BY <1>0, <1>4
<1> QED
  BY <1>0, <1>1, <1>2, <1>3, <1>4 DEF LimiterNext, Proceeds, Responds, Begin, Retry, Cooled, Claim,
     Acquire, AcquireTimesOut, StreamOpened, StreamEnds, Patched, Cancel, limiterVars
-----------------------------------------------------------------------------
(* Bounds.                                                                 *)

LEMMA ClaimsFinite ==
  IsFiniteSet(ClaimsMade) /\ Cardinality(ClaimsMade) \in Nat
<1>1. ClaimsMade \in SUBSET (Ages \X (1..MaxQpm))
  BY DEF ClaimsMade
<1>2. IsFiniteSet(Ages) /\ IsFiniteSet(1..MaxQpm)
  BY LimiterAssumption, FS_Interval DEF Ages
<1> QED
  BY <1>1, <1>2, FS_Product, FS_Subset, FS_CardinalityType

(* As time passes the claims of a window are those of the last but for the *)
(* oldest.                                                                 *)
LEMMA ClaimsAge ==
  ASSUME TypeInv, BoundsInv, Tick
  PROVE  /\ IsFiniteSet(ClaimsMade')
         /\ Cardinality(ClaimsMade') <= Cardinality(ClaimsMade)
         /\ \A a \in Ages : claims'[a] <= MaxQpm
<1>1. \A a \in Ages : claims'[a] = IF a = 0 THEN 0 ELSE claims[a - 1]
  BY DEF Tick
<1>2. \A a \in Ages : a \in Nat /\ (a # 0 => a - 1 \in Ages)
  BY LimiterAssumption DEF Ages
<1>3. \A a \in Ages : claims'[a] <= MaxQpm
  BY <1>1, <1>2, LimiterAssumption DEF BoundsInv
<1> DEFINE f == [k \in ClaimsMade' |-> <<k[1] - 1, k[2]>>]
<1>4. \A k \in ClaimsMade' : /\ k \in Ages \X (1..MaxQpm) /\ k[2] <= claims'[k[1]]
  BY DEF ClaimsMade
<1>5. ASSUME NEW k \in ClaimsMade' PROVE f[k] \in ClaimsMade
  <2>1. k[1] \in Ages /\ k[2] \in 1..MaxQpm /\ k[2] <= claims'[k[1]]
    BY <1>4, <1>5
  <2>2. k[1] # 0
    BY <1>1, <2>1
  <2>3. k[1] - 1 \in Ages /\ k[2] <= claims[k[1] - 1]
    BY <1>1, <1>2, <2>1, <2>2
  <2> QED
    BY <1>5, <2>1, <2>3 DEF ClaimsMade
<1>6. ASSUME NEW j \in ClaimsMade', NEW k \in ClaimsMade', f[j] = f[k]
      PROVE  j = k
  <2>1. /\ j \in Ages \X (1..MaxQpm) /\ k \in Ages \X (1..MaxQpm)
        /\ j[1] \in Nat /\ k[1] \in Nat
    BY <1>2, <1>4
  <2>2. j[1] - 1 = k[1] - 1 /\ j[2] = k[2]
    BY <1>6
  <2> QED
    BY <2>1, <2>2
<1>7. f \in Injection(ClaimsMade', ClaimsMade)
  BY <1>5, <1>6 DEF Injection, IsInjective
<1> HIDE DEF f
<1> QED
  BY <1>3, <1>7, ClaimsFinite, FS_Injection

(* A claim is made where there is room for it.                             *)
LEMMA ClaimFits ==
  ASSUME TypeInv, BoundsInv, NEW c \in Calls, Claim(c)
  PROVE  /\ Cardinality(ClaimsMade') <= MaxQpm
         /\ \A a \in Ages : claims'[a] <= MaxQpm
<1>1. 0 \in Ages /\ MaxQpm \in Nat
  BY LimiterAssumption DEF Ages
<1>2. \A a \in Ages : claims'[a] = IF a = 0 THEN claims[0] + 1 ELSE claims[a]
  BY <1>1 DEF Claim, TypeInv
<1>3. claims[0] \in Nat /\ claims[0] <= MaxQpm
  BY <1>1 DEF TypeInv, BoundsInv
<1>4. claims[0] < MaxQpm
  <2> SUFFICES ASSUME claims[0] = MaxQpm PROVE FALSE
    BY <1>1, <1>3
  <2>1. {0} \X (1..MaxQpm) \in SUBSET ClaimsMade
    BY <1>1 DEF ClaimsMade
  <2>2. Cardinality({0}) = 1 /\ IsFiniteSet({0})
    BY FS_Singleton
  <2>3. Cardinality(1..MaxQpm) = MaxQpm /\ IsFiniteSet(1..MaxQpm)
    BY <1>1, FS_Interval
  <2>4. Cardinality({0} \X (1..MaxQpm)) = 1 * MaxQpm
    BY <2>2, <2>3, FS_Product
  <2>5. Cardinality({0} \X (1..MaxQpm)) = MaxQpm
    BY <1>1, <2>4
  <2> QED
    BY <1>1, <2>1, <2>5, ClaimsFinite, FS_Subset DEF Claim
<1>5. ClaimsMade' = ClaimsMade \cup {<<0, claims[0] + 1>>}
  <2>1. \A k \in Ages \X (1..MaxQpm) :
          k[2] <= claims'[k[1]] <=> k[2] <= claims[k[1]] \/ k = <<0, claims[0] + 1>>
    BY <1>1, <1>2, <1>3 DEF TypeInv
  <2>2. <<0, claims[0] + 1>> \in Ages \X (1..MaxQpm)
    BY <1>1, <1>3, <1>4
  <2> QED
    BY <2>1, <2>2 DEF ClaimsMade
<1>6. Cardinality(ClaimsMade') \in {Cardinality(ClaimsMade), Cardinality(ClaimsMade) + 1}
  <2> DEFINE x == <<0, claims[0] + 1>>
             S == ClaimsMade
  <2>1. IsFiniteSet(S) /\ Cardinality(S) \in Nat
    BY ClaimsFinite
  <2> HIDE DEF x, S
  <2>2. Cardinality(S \cup {x}) \in {Cardinality(S), Cardinality(S) + 1}
    BY <2>1, FS_AddElement
  <2> QED
    BY <1>5, <2>2 DEF x, S
<1>7. Cardinality(ClaimsMade) < MaxQpm
  BY DEF Claim
<1>8. \A a \in Ages : claims'[a] <= MaxQpm
  BY <1>1, <1>2, <1>3, <1>4 DEF BoundsInv
<1> QED
  BY <1>1, <1>6, <1>7, <1>8, ClaimsFinite

LEMMA BoundsStep ==
  ASSUME TypeInv, BoundsInv, [LimiterNext]_limiterVars
  PROVE  BoundsInv'
<1> USE DEF TypeInv
<1>1. \A c \in Calls : Finally(c) => free' >= 0
  BY DEF Finally, Release, KeepPermits, BoundsInv
<1>2. \A c \in Calls : Uncounted(c) => \A d \in Calls : waited'[d] <= AcquireTimeout
  BY LimiterAssumption DEF Uncounted, BoundsInv
<1>3. Noted \/ Report(MaxPause) => pauseLeft' <= MaxPause
  BY LimiterAssumption DEF Noted, NoReport, Report, BoundsInv
<1>4. \A c \in Calls : OnSuccess(c) => pauseLeft' <= MaxPause
  BY LimiterAssumption DEF OnSuccess, BoundsInv
<1>5. UNCHANGED claims =>
        Cardinality(ClaimsMade') <= MaxQpm /\ \A a \in Ages : claims'[a] <= MaxQpm
  BY DEF BoundsInv, ClaimsMade
<1>6. CASE Tick
  <2>1. Cardinality(ClaimsMade') <= MaxQpm
    <3>1. Cardinality(ClaimsMade') \in Nat
      BY <1>6, ClaimsAge, FS_CardinalityType
    <3> QED
      BY <1>6, <3>1, ClaimsAge, ClaimsFinite, LimiterAssumption DEF BoundsInv
  <2>2. \A c \in Calls : waited'[c] <= AcquireTimeout
    BY <1>6, LimiterAssumption DEF Tick, BoundsInv
  <2>3. pauseLeft' <= MaxPause /\ free' = free /\ doomed' = doomed
    BY <1>6, LimiterAssumption DEF Tick, BoundsInv
  <2> QED
    BY <1>6, <2>1, <2>2, <2>3, ClaimsAge DEF BoundsInv
<1>7. ASSUME NEW c \in Calls, Claim(c) PROVE BoundsInv'
  BY <1>7, ClaimFits DEF Claim, BoundsInv
<1>8. ASSUME NEW c \in Calls, Begin(c) \/ Retry(c) PROVE BoundsInv'
  <2>1. free' >= 0
    BY <1>1, <1>8 DEF Begin, Retry, BoundsInv
  <2> QED
    BY <1>2, <1>5, <1>8, <2>1 DEF Begin, Retry, BeginAttempt, BoundsInv
<1>9. ASSUME NEW c \in Calls, Cooled(c) \/ StreamOpened(c) \/ Patched(c) PROVE BoundsInv'
  BY <1>5, <1>9 DEF Cooled, StreamOpened, Patched, BoundsInv
<1>10. ASSUME NEW c \in Calls, Acquire(c) PROVE BoundsInv'
  BY <1>2, <1>5, <1>10 DEF Acquire, BoundsInv
<1>11. ASSUME NEW c \in Calls, AcquireTimesOut(c) PROVE BoundsInv'
  BY <1>2, <1>5, <1>11 DEF AcquireTimesOut, BoundsInv
<1>12. ASSUME NEW c \in Calls, Cancel(c) PROVE BoundsInv'
  BY <1>1, <1>2, <1>5, <1>12 DEF Cancel, BoundsInv
<1>13. ASSUME NEW c \in Calls, Answered(c) \/ StreamEnds(c) PROVE BoundsInv'
  <2>1. free' >= 0
    BY <1>1, <1>13 DEF Answered, StreamEnds
  <2>2. pauseLeft' <= MaxPause
    BY <1>4, <1>13 DEF Answered, StreamEnds, BoundsInv
  <2> QED
    BY <1>5, <1>13, <2>1, <2>2 DEF Answered, StreamEnds, BoundsInv
<1>14. ASSUME NEW c \in Calls, FirstChunk(c) PROVE BoundsInv'
  <2>1. free' >= 0
    BY <1>14 DEF FirstChunk, Release, BoundsInv
  <2>2. pauseLeft' <= MaxPause
    BY <1>4, <1>14 DEF FirstChunk
  <2> QED
    BY <1>5, <1>14, <2>1, <2>2 DEF FirstChunk, BoundsInv
<1>15. ASSUME NEW c \in Calls, RequestFails(c) \/ StreamFails(c) \/ Raises(c)
       PROVE  BoundsInv'
  <2>1. free' >= 0
    BY <1>1, <1>15 DEF RequestFails, StreamFails, Raises, BoundsInv
  <2>2. pauseLeft' <= MaxPause
    BY <1>3, <1>15 DEF RequestFails, StreamFails, Raises
  <2> QED
    BY <1>5, <1>15, <2>1, <2>2 DEF RequestFails, StreamFails, Raises, BoundsInv
<1>16. ASSUME NEW c \in Calls, TooLong(c) PROVE BoundsInv'
  <2>1. free' >= 0
    BY <1>1, <1>16 DEF TooLong, KeepPermits, BoundsInv
  <2>2. pauseLeft' <= MaxPause
    BY <1>3, <1>16 DEF TooLong, NoReport, BoundsInv
  <2> QED
    BY <1>5, <1>16, <2>1, <2>2 DEF TooLong, BoundsInv
<1>17. CASE UNCHANGED limiterVars
  BY <1>5, <1>17 DEF limiterVars, BoundsInv
<1> QED
  BY <1>6, <1>7, <1>8, <1>9, <1>10, <1>11, <1>12, <1>13, <1>14, <1>15, <1>16, <1>17
     DEF LimiterNext, Proceeds, Responds

LEMMA InitBounds == LimiterInit => BoundsInv
<1> SUFFICES ASSUME LimiterInit PROVE BoundsInv
  OBVIOUS
<1>1. ClaimsMade = {}
  BY LimiterAssumption DEF LimiterInit, ClaimsMade
<1> QED
  BY <1>1, FS_EmptySet, LimiterAssumption DEF LimiterInit, BoundsInv
-----------------------------------------------------------------------------
LEMMA LimiterInvariantHolds == LimiterSpec => []LimiterIInv
<1>1. LimiterInit => LimiterIInv
  <2>1. LimiterInit => StaleInv
    BY DEF LimiterInit, StaleInv
  <2> QED
    BY <2>1, LimiterInitType, InitPermits, InitSends, InitBounds DEF LimiterIInv
<1>2. LimiterIInv /\ [LimiterNext]_limiterVars => LimiterIInv'
  BY LimiterTypeStep, PermitsStep, SendsStep, StaleStep, BoundsStep DEF LimiterIInv
<1> QED
  BY <1>1, <1>2, PTL DEF LimiterSpec

(* However a call ends, it has given back the permit it took, once: the    *)
(* limiter neither loses nor makes permits.                                *)
THEOREM NoPermitLost == LimiterSpec => []PermitsConserved
<1>1. LimiterIInv => PermitsConserved
  BY DEF LimiterIInv
<1> QED
  BY <1>1, LimiterInvariantHolds, PTL

(* A call sends one request per attempt and at most one more, in and       *)
(* before a stream together.                                               *)
THEOREM RequestsBounded == LimiterSpec => []SendsBounded
<1>1. LimiterIInv => SendsBounded
  BY DEF LimiterIInv, SendsInv, Counted, Extra, SendsBounded
<1> QED
  BY <1>1, LimiterInvariantHolds, PTL

(* No success cuts a pause that was set after its call began: a pause ends *)
(* by time alone.                                                          *)
THEOREM PauseLasts == LimiterSpec => PauseKept
<1>1. LimiterIInv /\ [LimiterNext]_limiterVars =>
        [pauseLeft' < pauseLeft => pauseLeft' = pauseLeft - 1 /\ UNCHANGED pc]_limiterVars
  BY PauseStep DEF LimiterIInv
<1> QED
  BY <1>1, LimiterInvariantHolds, PTL DEF LimiterSpec, PauseKept

(* The variables of the limiter keep their types, and no count of them     *)
(* leaves its range.                                                       *)
THEOREM LimiterTypeCorrect == LimiterSpec => []LimiterTypeOK
<1>1. ASSUME LimiterIInv PROVE LimiterTypeOK
  <2> USE <1>1, LimiterAssumption DEF LimiterIInv, TypeInv, BoundsInv
  <2>1. free \in 0..MaxConcurrent
    BY HoldersFinite
  <2>2. claims \in [Ages -> 0..MaxQpm] /\ pauseLeft \in 0..MaxPause
    OBVIOUS
  <2>3. waited \in [Calls -> 0..AcquireTimeout]
    OBVIOUS
  <2>4. attempt \in [Calls -> 0..Attempts]
    BY DEF SendsInv, Counted
  <2>5. sends \in [Calls -> 0..(Attempts + 1)]
    <3>1. \A c \in Calls : sends[c] <= Attempts + 1
      BY DEF SendsInv, Counted, Extra
    <3> QED
      BY <3>1
  <2> QED
    BY <2>1, <2>2, <2>3, <2>4, <2>5 DEF LimiterTypeOK, Places
<1> QED
  BY <1>1, LimiterInvariantHolds, PTL

(* No more than max_concurrent calls ask the model, wait for the first     *)
(* chunk of its stream or sleep with a permit at a time.                   *)
THEOREM ConcurrencyBounded ==
  LimiterSpec => [](Cardinality({c \in Calls : pc[c] \in Holding}) <= MaxConcurrent)
<1>1. LimiterIInv => Cardinality({c \in Calls : pc[c] \in Holding}) <= MaxConcurrent
  <2>1. Holders = {c \in Calls : pc[c] \in Holding}
    BY DEF Holders
  <2> QED
    BY <2>1, HoldersFinite, BoundsType DEF LimiterIInv, TypeInv, BoundsInv
<1> QED
  BY <1>1, LimiterInvariantHolds, PTL

(* No more than max_qpm slots are claimed in any window, however many      *)
(* calls wait for one.                                                     *)
THEOREM ClaimsBounded == LimiterSpec => [](Cardinality(ClaimsMade) <= MaxQpm)
<1>1. LimiterIInv => Cardinality(ClaimsMade) <= MaxQpm
  BY DEF LimiterIInv, BoundsInv
<1> QED
  BY <1>1, LimiterInvariantHolds, PTL
=============================================================================
