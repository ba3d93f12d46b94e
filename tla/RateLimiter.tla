---------------------------- MODULE RateLimiter ----------------------------
(***************************************************************************)
(* Calls of one language model through RetryChatModel and the LLMRateLimiter*)
(* that they share (providers/retry_chat_model.py, rate_limiter.py).       *)
(*                                                                         *)
(* A call waits for the end of a pause, for room in the sliding window and *)
(* for a permit, asks the model, and asks again after a transient failure; *)
(* the answer may be a stream, which hands its permit back at the first    *)
(* chunk and is asked for again when it breaks.                            *)
(*                                                                         *)
(* Time is relative: what is left of the pause, the ages of the claims in  *)
(* the window, how long a call has waited.  Tick is one unit of time; an   *)
(* answer or a backoff may take any number of them.                        *)
(***************************************************************************)
EXTENDS Naturals, FiniteSets

CONSTANTS Calls,          \* the calls, each made once
          MaxConcurrent,  \* permits of the limiter
          MaxQpm,         \* requests per window, 0 for no limit
          Window,         \* length of the sliding window
          Attempts,       \* 1 + max_retries
          AcquireTimeout, \* how long a call may wait to be let through
          MaxPause        \* cap of a pause

ASSUME LimiterAssumption ==
    /\ IsFiniteSet(Calls)
    /\ MaxConcurrent \in Nat \ {0}
    /\ MaxQpm \in Nat
    /\ Window \in Nat
    /\ Attempts \in Nat \ {0}
    /\ AcquireTimeout \in Nat
    /\ MaxPause \in Nat

VARIABLES
    free,      \* permits of the semaphore that nobody holds
    pauseLeft, \* _pause_until, as the time left
    claims,    \* _request_times: how many claims have each age
    pc,        \* where each call is
    streamed,  \* the call is in _wrap_stream: its answer was a stream
    attempt,   \* the attempt it is in
    waited,    \* how long acquire() has taken so far
    stale,     \* _pause_until <= acquired_at of the call
    patched,   \* reasoning content was injected for this call
    sends,     \* observation: requests sent for the call
    doomed     \* observation: calls told to wait for longer than MaxPause

limiterVars == <<free, pauseLeft, claims, pc, streamed, attempt, waited, stale, patched,
          sends, doomed>>

Ages == 0..Window

\* The steps of acquire().
Acquiring == {"cooldown", "window", "permit"}
\* Where a call owns a permit: while the model is asked, until the first
\* chunk of a stream, and in the backoff that follows a failed request.
Holding == {"asking", "opening", "holdingBackoff"}

LimiterTypeOK ==
    /\ free \in 0..MaxConcurrent
    /\ pauseLeft \in 0..MaxPause
    /\ claims \in [Ages -> 0..MaxQpm]
    /\ pc \in [Calls -> {"idle"} \cup Acquiring \cup Holding
                          \cup {"streaming", "backoff", "done"}]
    /\ streamed \in [Calls -> BOOLEAN]
    /\ attempt \in [Calls -> 0..Attempts]
    /\ waited \in [Calls -> 0..AcquireTimeout]
    /\ stale \in [Calls -> BOOLEAN]
    /\ patched \in [Calls -> BOOLEAN]
    /\ sends \in [Calls -> 0..(Attempts + 1)]
    /\ doomed \in SUBSET Calls

LimiterInit ==
    /\ free = MaxConcurrent /\ pauseLeft = 0 /\ claims = [a \in Ages |-> 0]
    /\ pc = [c \in Calls |-> "idle"]
    /\ streamed = [c \in Calls |-> FALSE]
    /\ attempt = [c \in Calls |-> 0]
    /\ waited = [c \in Calls |-> 0]
    /\ stale = [c \in Calls |-> FALSE]
    /\ patched = [c \in Calls |-> FALSE]
    /\ sends = [c \in Calls |-> 0]
    /\ doomed = {}

-----------------------------------------------------------------------------
Goto(c, place) == pc' = [pc EXCEPT ![c] = place]

\* acquire() is over, or begins anew: its time is not counted any more.
Uncounted(c) == waited' = [waited EXCEPT ![c] = 0]

\* release(): the permit goes back.
Release == free' = free + 1
KeepPermits == UNCHANGED free
\* Mutant: only a call that asks gives its permit back.
FinallyAsked(c) == IF pc[c] = "asking" THEN Release ELSE KeepPermits

\* The finally block: a call that owns a permit gives it back.
Finally(c) == IF pc[c] \in Holding THEN Release ELSE KeepPermits

\* One unit of time passes; claims older than the window are forgotten.
Tick ==
    /\ pauseLeft' = IF pauseLeft = 0 THEN 0 ELSE pauseLeft - 1
    /\ claims' = [a \in Ages |-> IF a = 0 THEN 0 ELSE claims[a - 1]]
    /\ waited' = [c \in Calls |->
                    IF pc[c] \in Acquiring /\ waited[c] < AcquireTimeout
                    THEN waited[c] + 1 ELSE waited[c]]
    /\ UNCHANGED <<free, pc, streamed, attempt, stale, patched, sends, doomed>>

(***************************************************************************)
(* acquire()                                                               *)
(***************************************************************************)

\* The next attempt begins, and with it acquire(), which takes the time.
BeginAttempt(c) ==
    /\ Goto(c, "cooldown")
    /\ attempt' = [attempt EXCEPT ![c] = @ + 1]
    /\ Uncounted(c)
    /\ stale' = [stale EXCEPT ![c] = pauseLeft = 0]

Begin(c) ==
    /\ pc[c] = "idle"
    /\ BeginAttempt(c)
    /\ UNCHANGED <<free, pauseLeft, claims, streamed, patched, sends, doomed>>

\* Step 1: no pause is left; it is looked at again after each sleep.
Cooled(c) ==
    /\ pc[c] = "cooldown" /\ pauseLeft = 0
    /\ Goto(c, IF MaxQpm > 0 THEN "window" ELSE "permit")
    /\ UNCHANGED <<free, pauseLeft, claims, streamed, attempt, waited, stale,
                   patched, sends, doomed>>

\* The claims in the window, as pairs of their age and a number.
ClaimsMade == {k \in Ages \X (1..MaxQpm) : k[2] <= claims[k[1]]}

\* Step 2, _acquire_qpm_slot: there is room in the window, and it is claimed.
Claim(c) ==
    /\ pc[c] = "window"
    /\ Cardinality(ClaimsMade) < MaxQpm
    /\ claims' = [claims EXCEPT ![0] = @ + 1]
    /\ Goto(c, "permit")
    /\ UNCHANGED <<free, pauseLeft, streamed, attempt, waited, stale, patched,
                   sends, doomed>>

\* Step 3: a permit is free, and the request is sent.
Acquire(c) ==
    /\ pc[c] = "permit" /\ free > 0
    /\ free' = free - 1
    /\ Goto(c, "asking")
    /\ Uncounted(c)
    /\ sends' = [sends EXCEPT ![c] = @ + 1]
    /\ UNCHANGED <<pauseLeft, claims, streamed, attempt, stale, patched, doomed>>

\* Mutant: the timeout is retried like the failure of a request.
AcquireTimesOutRetried(c) ==
    /\ pc[c] \in Acquiring /\ waited[c] = AcquireTimeout
    /\ Goto(c, "cooldown") /\ Uncounted(c)
    /\ UNCHANGED <<free, pauseLeft, claims, streamed, attempt, stale, patched,
                   sends, doomed>>

\* wait_for gives up: _AcquireTimeoutError, which nobody retries.
AcquireTimesOut(c) ==
    /\ pc[c] \in Acquiring /\ waited[c] = AcquireTimeout
    /\ Goto(c, "done") /\ Uncounted(c)
    /\ UNCHANGED <<free, pauseLeft, claims, streamed, attempt, stale, patched,
                   sends, doomed>>

(***************************************************************************)
(* The answer                                                              *)
(***************************************************************************)

\* Mutant: every success ends the pause.
OnSuccessAlways(c) == pauseLeft' = 0

\* on_success(): a pause that ended before the call began is forgotten.
OnSuccess(c) == pauseLeft' = IF stale[c] THEN 0 ELSE pauseLeft

\* A complete answer.
Answered(c) ==
    /\ pc[c] = "asking" /\ ~streamed[c]
    /\ OnSuccess(c) /\ Finally(c)
    /\ Goto(c, "done")
    /\ UNCHANGED <<claims, streamed, attempt, waited, stale, patched, sends, doomed>>

\* The model wants reasoning content: it is injected, learned, and the request
\* is sent again at once under the same permit.  Not in a stream's retries.
Patched(c) ==
    /\ pc[c] = "asking" /\ ~streamed[c] /\ ~patched[c]
    /\ patched' = [patched EXCEPT ![c] = TRUE]
    /\ sends' = [sends EXCEPT ![c] = @ + 1]
    /\ UNCHANGED <<free, pauseLeft, claims, pc, streamed, attempt, waited, stale, doomed>>

\* The answer is a stream, which owns the permit from now on.
StreamOpened(c) ==
    /\ pc[c] = "asking"
    /\ Goto(c, "opening")
    /\ streamed' = [streamed EXCEPT ![c] = TRUE]
    /\ UNCHANGED <<free, pauseLeft, claims, attempt, waited, stale, patched, sends, doomed>>

\* _consume_stream_with_slot: the permit is returned with the first chunk.
FirstChunk(c) ==
    /\ pc[c] = "opening"
    /\ Release /\ OnSuccess(c)
    /\ Goto(c, "streaming")
    /\ UNCHANGED <<claims, streamed, attempt, waited, stale, patched, sends, doomed>>

\* The stream ends, with or without a chunk.
StreamEnds(c) ==
    /\ pc[c] \in {"opening", "streaming"}
    /\ Finally(c)
    /\ Goto(c, "done")
    /\ UNCHANGED <<pauseLeft, claims, streamed, attempt, waited, stale, patched,
                   sends, doomed>>

(***************************************************************************)
(* Failures                                                                *)
(***************************************************************************)

\* report_rate_limit: the pause is extended, never cut.
Report(pause) ==
    IF pause > pauseLeft
    THEN pauseLeft' = pause /\ stale' = [c \in Calls |-> FALSE]
    ELSE UNCHANGED <<pauseLeft, stale>>

NoReport == UNCHANGED <<pauseLeft, stale>>

\* What a failure does to the pause: a 429 sets it, other failures do not.
Noted == NoReport \/ \E pause \in 0..MaxPause : Report(pause)

\* The request fails in a way that is retried.  The backoff is slept inside
\* the try block, whose finally block returns the permit: it is kept meanwhile.
RequestFails(c) ==
    /\ pc[c] = "asking" /\ attempt[c] < Attempts
    /\ Noted
    /\ Goto(c, "holdingBackoff")
    /\ UNCHANGED <<free, claims, streamed, attempt, waited, patched, sends, doomed>>

\* A stream breaks in a way that is retried: the permit, if it is still owned,
\* is returned before the backoff.
StreamFails(c) ==
    /\ pc[c] \in {"opening", "streaming"} /\ attempt[c] < Attempts
    /\ Noted /\ Finally(c)
    /\ Goto(c, "backoff")
    /\ UNCHANGED <<claims, streamed, attempt, waited, patched, sends, doomed>>

\* A failure that is not retried, or of the last attempt: it is raised.
Raises(c) ==
    /\ pc[c] \in {"asking", "opening", "streaming"}
    /\ Noted /\ Finally(c)
    /\ Goto(c, "done")
    /\ UNCHANGED <<claims, streamed, attempt, waited, patched, sends, doomed>>

\* A 429 whose Retry-After is above the cap.  __call__ raises it
\* (_handle_rate_limit_exc); in a stream it counts as a pause of MaxPause, and
\* the request is sent again like after any other failure.
TooLong(c) ==
    /\ pc[c] \in {"asking", "opening", "streaming"}
    /\ doomed' = doomed \cup {c}
    /\ \/ /\ ~streamed[c]
          /\ NoReport /\ Finally(c) /\ Goto(c, "done")
       \/ /\ streamed[c] /\ attempt[c] = Attempts
          /\ Report(MaxPause) /\ Finally(c) /\ Goto(c, "done")
       \/ /\ streamed[c] /\ attempt[c] < Attempts /\ pc[c] = "asking"
          /\ Report(MaxPause) /\ KeepPermits /\ Goto(c, "holdingBackoff")
       \/ /\ streamed[c] /\ attempt[c] < Attempts /\ pc[c] # "asking"
          /\ Report(MaxPause) /\ Finally(c) /\ Goto(c, "backoff")
    /\ UNCHANGED <<claims, streamed, attempt, waited, patched, sends>>

\* The backoff is over: the next attempt.
Retry(c) ==
    /\ pc[c] \in {"holdingBackoff", "backoff"}
    /\ Finally(c)
    /\ BeginAttempt(c)
    /\ UNCHANGED <<pauseLeft, claims, streamed, patched, sends, doomed>>

\* The caller is cancelled, or abandons the stream.
Cancel(c) ==
    /\ pc[c] \notin {"idle", "done"}
    /\ Finally(c)
    /\ Goto(c, "done") /\ Uncounted(c)
    /\ UNCHANGED <<pauseLeft, claims, streamed, attempt, stale, patched, sends,
                   doomed>>

\* What the call itself does once it can, and what becomes of its request.
Proceeds(c) == Cooled(c) \/ Claim(c) \/ Acquire(c) \/ AcquireTimesOut(c) \/ Retry(c)
Responds(c) ==
    \/ Answered(c) \/ StreamOpened(c) \/ FirstChunk(c) \/ StreamEnds(c)
    \/ RequestFails(c) \/ StreamFails(c) \/ Raises(c) \/ TooLong(c)

LimiterNext ==
    \/ Tick
    \/ \E c \in Calls : Begin(c) \/ Proceeds(c) \/ Responds(c) \/ Patched(c) \/ Cancel(c)

LimiterSpec == LimiterInit /\ [][LimiterNext]_limiterVars

\* Time passes, the event loop runs what can run, and every request and every
\* stream comes to an end: the model clients have timeouts of their own.
LimiterFairness ==
    /\ WF_limiterVars(Tick)
    /\ \A c \in Calls : WF_limiterVars(Proceeds(c)) /\ WF_limiterVars(Responds(c))

LimiterFairSpec == LimiterSpec /\ LimiterFairness

-----------------------------------------------------------------------------
(***************************************************************************)
(* Properties                                                              *)
(***************************************************************************)

\* Permits are neither lost nor made: however a call ends -- answered, broken
\* before or after the first chunk, raised, cancelled in any wait -- it has
\* returned its permit once, and only after it got one.
PermitsConserved ==
    free + Cardinality({c \in Calls : pc[c] \in Holding}) = MaxConcurrent

\* A call sends one request per attempt, and one more when reasoning content
\* had to be injected: the retries of a stream go on counting where those
\* before the stream stopped.
SendsBounded ==
    \A c \in Calls :
        /\ sends[c] <= attempt[c] + (IF patched[c] THEN 1 ELSE 0)
        /\ attempt[c] <= Attempts

\* The pause grows when a 429 is reported and shrinks with time; no success,
\* however late, cuts the pause that another call was told to make.
PauseKept ==
    [][pauseLeft' < pauseLeft => pauseLeft' = pauseLeft - 1 /\ UNCHANGED pc]_limiterVars

\* Every call comes to an end, whatever fails: nobody waits for ever for a
\* permit, for room in the window or for the end of a pause.
CallsEnd == \A c \in Calls : (pc[c] # "idle") ~> (pc[c] = "done")

\* What the limiter's description says: "a Retry-After that exceeds the cap
\* causes an immediate raise instead of a doomed retry".
NoDoomedRetry == [][\A c \in doomed : sends'[c] = sends[c]]_limiterVars
=============================================================================
