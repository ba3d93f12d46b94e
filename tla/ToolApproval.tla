----------------------------- MODULE ToolApproval -----------------------------
(***************************************************************************)
(* The blocking approval of a guarded tool call: the process-wide store    *)
(* ApprovalService (app/approvals/service.py), the agent coroutine that    *)
(* waits on it (agents/tool_guard_mixin.py), the chat command and the HTTP *)
(* route that decide a request (approval_handler.py, routers/approval.py)  *)
(* and the stop of a run (runner.py).                                      *)
(*                                                                         *)
(* All of it runs on one asyncio event loop.  The store's lock is never    *)
(* held across an await, so taking it never suspends: everything between   *)
(* two real suspension points is ONE action.  A coroutine is suspended     *)
(* only while it prints the prompt ("emitting"), while it waits for the    *)
(* decision ("waiting") and while the tool runs ("executing").             *)
(***************************************************************************)
EXTENDS Naturals, FiniteSets

CONSTANTS
  Sessions,       \* conversation sessions, those of sub-agents included
  Root,           \* Root[s]: the root session of s
  AgentOf,        \* AgentOf[s]: the agent that serves session s
  Calls,          \* guarded tool calls, named by their tool_call id
  SessionOf,      \* SessionOf[c]: the session whose agent issues call c
  MaxPending,     \* _GC_MAX_PENDING
  MaxRequests,    \* bound: approval requests created in a behaviour
  SwallowsCancel  \* asyncio.wait_for of Python 3.10 and 3.11: see CancelLost

ASSUME ConstantsAssumption ==
  /\ Root \in [Sessions -> Sessions]
  /\ SessionOf \in [Calls -> Sessions]
  /\ Calls # {}
  /\ MaxPending \in Nat \ {0}
  /\ MaxRequests \in Nat
  /\ SwallowsCancel \in BOOLEAN

VARIABLES
  created,  \* number of requests created; the uuid of a request is its rank
  callOf,   \* callOf[r]: the tool call request r is about
  pending,  \* keys of ApprovalService._pending; insertion order is the rank
  status,   \* PendingApproval.status
  future,   \* the record's asyncio.Future
  phase,    \* where the coroutine _acting_with_approval of r stands
  aged,     \* requests up to this rank are older than 1800 s
  run       \* run[s]: the task that runs the agent of session s

vars == <<created, callOf, pending, status, future, phase, aged, run>>

RequestIds == 1..MaxRequests

Decision == {"approved", "denied", "timeout"}
Status   == {"none", "pending", "superseded", "cancelled"} \cup Decision
Future   == {"open", "aborted"} \cup Decision
Active   == {"emitting", "waiting", "executing"}
Started  == {"executing", "executed", "interrupted"}
Ended    == {"executed", "interrupted", "denied", "timedout", "stopped"}
Phase    == {"none"} \cup Active \cup Ended

SessionOfRequest(r) == SessionOf[callOf[r]]
RootOfRequest(r)    == Root[SessionOfRequest(r)]
-----------------------------------------------------------------------------
Init ==
  /\ created = 0
  /\ callOf = [r \in RequestIds |-> CHOOSE c \in Calls : TRUE]
  /\ pending = {}
  /\ status = [r \in RequestIds |-> "none"]
  /\ future = [r \in RequestIds |-> "open"]
  /\ phase  = [r \in RequestIds |-> "none"]
  /\ aged = 0
  /\ run = [s \in Sessions |-> "running"]

(***************************************************************************)
(* Closing the requests of S: they leave the store with status st, and a   *)
(* future that is not done gets the result d.                              *)
(***************************************************************************)
StatusAfter(S, st) == [r \in RequestIds |-> IF r \in S THEN st ELSE status[r]]

(* Variants: the future overwritten without asking done(); never set.      *)
FutureOverwritten(S, d) == [r \in RequestIds |-> IF r \in S THEN d ELSE future[r]]
FutureForgotten(S, d)   == future

FutureAfter(S, d) ==
  [r \in RequestIds |->
     IF r \in S /\ future[r] = "open" THEN d ELSE future[r]]

(* Variant: the record is read but not popped.                             *)
CloseKeepingRecord(S, st, d) ==
  /\ status' = StatusAfter(S, st)
  /\ future' = FutureAfter(S, d)
  /\ UNCHANGED pending

Close(S, st, d) ==
  /\ pending' = pending \ S
  /\ status'  = StatusAfter(S, st)
  /\ future'  = FutureAfter(S, d)

(* The MaxPending youngest members of S; the rest is the overflow.         *)
Youngest(S) == {p \in S : Cardinality({q \in S : q >= p}) =< MaxPending}
-----------------------------------------------------------------------------
(* The agent's coroutine.                                                  *)

(* The pending records cancel_stale_pending_for_tool_call replaces.        *)
Stale(c) == {p \in pending : callOf[p] = c}

(***************************************************************************)
(* _acting_with_approval up to its first suspension: supersede the pending *)
(* records of the same tool call, insert the new record, and collect       *)
(* garbage: records older than 1800 s, then the oldest above MaxPending.   *)
(***************************************************************************)
RequestApproval(c) ==
  LET r       == created + 1
      stale   == Stale(c)
      stored  == (pending \ stale) \cup {r}
      fresh   == {p \in stored : p > aged}
      kept    == Youngest(fresh)
      evicted == stored \ kept
  IN /\ created < MaxRequests
     /\ run[SessionOf[c]] \in {"running", "deaf"}
     /\ created' = r
     /\ callOf'  = [callOf EXCEPT ![r] = c]
     /\ pending' = kept
     /\ status'  = [p \in RequestIds |->
                      IF p \in stale THEN "superseded"
                      ELSE IF p \in evicted THEN "timeout"
                      ELSE IF p = r THEN "pending" ELSE status[p]]
     /\ future'  = FutureAfter(stale \cup evicted, "timeout")
     /\ phase'   = [phase EXCEPT ![r] = "emitting"]
     /\ UNCHANGED <<aged, run>>

(* The prompt is printed and the coroutine starts to wait.                 *)
Emit(r) ==
  /\ phase[r] = "emitting"
  /\ phase' = [phase EXCEPT ![r] = "waiting"]
  /\ UNCHANGED <<created, callOf, pending, status, future, aged, run>>

(* What _acting_with_approval does with a decision; in the variant,        *)
(* everything that is not a denial executes.                               *)
PhaseUnlessDenied(d) == IF d = "denied" THEN "denied" ELSE "executing"

PhaseFor(d) == IF d = "approved" THEN "executing"
               ELSE IF d = "denied" THEN "denied" ELSE "timedout"

(* The future is done: the waiting coroutine is resumed with its result.   *)
Resume(r) ==
  /\ phase[r] = "waiting"
  /\ future[r] \in Decision
  /\ phase' = [phase EXCEPT ![r] = PhaseFor(future[r])]
  /\ UNCHANGED <<created, callOf, pending, status, future, aged, run>>

(***************************************************************************)
(* The 300 s of asyncio.wait_for run out.  Cancelling the wait task aborts *)
(* the future unless it already has a result, which is then lost.  The     *)
(* handler returns TIMEOUT and leaves the record in the store.  In the     *)
(* variant there is no timeout while the request can be answered.          *)
(***************************************************************************)
TimerDueIfGone(r) == phase[r] = "waiting" /\ r \notin pending

TimerDue(r) == phase[r] = "waiting"

TimerFires(r) ==
  /\ TimerDue(r)
  /\ future' = FutureAfter({r}, "aborted")
  /\ phase' = [phase EXCEPT ![r] = "timedout"]
  /\ UNCHANGED <<created, callOf, pending, status, aged, run>>

(* The tool returns or raises.                                             *)
ToolEnds(r) ==
  /\ phase[r] = "executing"
  /\ phase' = [phase EXCEPT ![r] = "executed"]
  /\ UNCHANGED <<created, callOf, pending, status, future, aged, run>>
-----------------------------------------------------------------------------
(* The user.                                                               *)

(* resolve_request; the caller has just found r in the store.              *)
Resolve(r, d) ==
  /\ Close({r}, d, d)
  /\ UNCHANGED <<created, callOf, phase, aged, run>>

(* get_pending_by_session: the oldest pending record of session s.         *)
IsHead(s, r) ==
  /\ r \in pending
  /\ SessionOfRequest(r) = s
  /\ status[r] = "pending"
  /\ \A q \in pending : SessionOfRequest(q) = s => q >= r

(* /approval approve | deny without an id, from session s.                 *)
DecideHead(s, d) ==
  \E r \in pending :
    /\ IsHead(s, r)
    /\ Resolve(r, d)

(***************************************************************************)
(* A decision that names the request, from session s: the chat command     *)
(* insists on the same agent, the HTTP route on the same root session, and *)
(* "/approval cancel" denies without a check.                              *)
(***************************************************************************)
MayDecide(s, r, d) ==
  \/ AgentOf[s] = AgentOf[SessionOfRequest(r)]
  \/ s = RootOfRequest(r)
  \/ d = "denied"

DecideById(s, r, d) ==
  /\ r \in pending
  /\ MayDecide(s, r, d)
  /\ Resolve(r, d)
-----------------------------------------------------------------------------
(* Stopping a run.                                                         *)

ActiveIn(s) ==
  {r \in RequestIds : phase[r] \in Active /\ SessionOfRequest(r) = s}

(* TaskTracker.request_stop cancels the task that runs the session's agent.*)
RequestStop(s) ==
  /\ run[s] \in {"running", "deaf"}
  /\ run' = [run EXCEPT ![s] = "stopping"]
  /\ UNCHANGED <<created, callOf, pending, status, future, phase, aged>>

(***************************************************************************)
(* The cancellation reaches call r.  While it waits, its handler denies    *)
(* the request if it is still in the store and raises again; while it      *)
(* prints the prompt, the record stays; while the tool runs, the tool is   *)
(* interrupted.                                                            *)
(***************************************************************************)
CancelCall(r) ==
  /\ phase[r] \in Active
  /\ run[SessionOfRequest(r)] = "stopping"
  /\ phase' = [phase EXCEPT
        ![r] = IF @ = "executing" THEN "interrupted" ELSE "stopped"]
  /\ IF phase[r] = "waiting"
     THEN /\ pending' = pending \ {r}
          /\ status'  = StatusAfter({r} \cap pending, "denied")
          /\ future'  = FutureAfter({r}, "aborted")
     ELSE UNCHANGED <<pending, status, future>>
  /\ UNCHANGED <<created, callOf, aged, run>>

(***************************************************************************)
(* Up to Python 3.11, asyncio.wait_for returns the result of an awaited    *)
(* task that is done instead of raising CancelledError: the decision wins, *)
(* the stop is lost, and the agent goes on ("deaf").                       *)
(***************************************************************************)
CancelLost(r) ==
  /\ SwallowsCancel
  /\ phase[r] = "waiting"
  /\ future[r] \in Decision
  /\ run[SessionOfRequest(r)] = "stopping"
  /\ ActiveIn(SessionOfRequest(r)) = {r}
  /\ phase' = [phase EXCEPT ![r] = PhaseFor(future[r])]
  /\ run' = [run EXCEPT ![SessionOfRequest(r)] = "deaf"]
  /\ UNCHANGED <<created, callOf, pending, status, future, aged>>

(***************************************************************************)
(* query_handler catches CancelledError after the agent task has ended:    *)
(* cancel_all_pending_by_root_session denies what is pending anywhere in   *)
(* the session tree.  The session can run again.                           *)
(***************************************************************************)
InSession(s) == {r \in pending : SessionOfRequest(r) = s}

InTree(s) == {r \in pending : RootOfRequest(r) = Root[s]}

FinishStop(s) ==
  /\ run[s] \in {"stopping", "deaf"}
  /\ ActiveIn(s) = {}
  /\ Close(InTree(s), "cancelled", "denied")
  /\ run' = [run EXCEPT ![s] = "running"]
  /\ UNCHANGED <<created, callOf, phase, aged>>

(* Time: the oldest request not yet old passes 1800 s.  The approval       *)
(* timeout is configurable without an upper bound, so it may still wait.   *)
GrowOld ==
  /\ aged < created
  /\ aged' = aged + 1
  /\ UNCHANGED <<created, callOf, pending, status, future, phase, run>>
-----------------------------------------------------------------------------
AgentStep(r) == Emit(r) \/ Resume(r) \/ TimerFires(r) \/ ToolEnds(r)

UserStep(s) ==
  \/ \E d \in {"approved", "denied"} : DecideHead(s, d)
  \/ \E r \in RequestIds, d \in {"approved", "denied"} : DecideById(s, r, d)
  \/ RequestStop(s)

StopStep == \/ \E r \in RequestIds : CancelCall(r) \/ CancelLost(r)
            \/ \E s \in Sessions : FinishStop(s)

Next ==
  \/ \E c \in Calls : RequestApproval(c)
  \/ \E r \in RequestIds : AgentStep(r)
  \/ \E s \in Sessions : UserStep(s)
  \/ StopStep
  \/ GrowOld

Spec == Init /\ [][Next]_vars

(***************************************************************************)
(* The event loop runs every callback that is ready, and a timer that is   *)
(* due.  Nothing makes the user decide or a tool return, so those steps    *)
(* have no fairness.                                                       *)
(***************************************************************************)
Fairness ==
  /\ \A r \in RequestIds : /\ WF_vars(Emit(r))
                           /\ WF_vars(Resume(r) \/ TimerFires(r))
                           /\ WF_vars(CancelCall(r))
  /\ \A s \in Sessions : WF_vars(FinishStop(s))

FairSpec == Spec /\ Fairness
-----------------------------------------------------------------------------
TypeOK ==
  /\ created \in 0..MaxRequests
  /\ callOf \in [RequestIds -> Calls]
  /\ pending \subseteq 1..created
  /\ status \in [RequestIds -> Status]
  /\ future \in [RequestIds -> Future]
  /\ phase \in [RequestIds -> Phase]
  /\ aged \in 0..created
  /\ run \in [Sessions -> {"running", "stopping", "deaf"}]

(***************************************************************************)
(* A guarded tool runs only on an approval of that very request: never     *)
(* because another request of the same call was approved, a record was     *)
(* evicted, superseded or cancelled, or a timer fired.                     *)
(***************************************************************************)
RunsOnlyApproved == \A r \in RequestIds : phase[r] \in Started => status[r] = "approved"

(***************************************************************************)
(* A coroutine whose future is still open can be answered: its record is   *)
(* in the store, whatever was superseded, collected or cancelled meanwhile.*)
(***************************************************************************)
WaiterCanBeAnswered ==
  \A r \in RequestIds :
    phase[r] \in {"emitting", "waiting"} /\ future[r] = "open" => r \in pending

(* The store never holds two open requests for the same tool call: a       *)
(* repeated call supersedes its earlier request.                           *)
OneRequestPerCall ==
  \A p, q \in pending : callOf[p] = callOf[q] => p = q

(* _GC_MAX_PENDING bounds the store after every operation, although timed  *)
(* out requests stay in it.                                                *)
StoreBounded == Cardinality(pending) =< MaxPending

(* A request is decided once: its status, once not "pending", and the      *)
(* result of its future never change, whoever comes second.                *)
DecidedOnce ==
  [][\A r \in RequestIds :
       /\ status[r] \notin {"none", "pending"} => status'[r] = status[r]
       /\ future[r] # "open" => future'[r] = future[r]]_<<status, future>>

(* When the stop of a run is over, no request of its session tree is left  *)
(* in the store and no coroutine of the tree waits on an open future.      *)
StopLeavesNothing ==
  [][\A s \in Sessions : run[s] # "running" /\ run'[s] = "running" =>
       \A r \in 1..created : RootOfRequest(r) = Root[s] =>
         /\ r \notin pending'
         /\ phase[r] = "waiting" => future'[r] # "open"]_run

(* A tool call never waits for its approval forever.                       *)
CallsAreUnblocked ==
  \A r \in RequestIds :
    phase[r] = "emitting" ~> phase[r] \in Started \cup Ended

(***************************************************************************)
(* The abstract gate every guarded call goes through.                      *)
(***************************************************************************)
Verdict ==
  [r \in RequestIds |->
     IF status[r] = "none" THEN "none"
     ELSE IF status[r] = "pending" THEN "open"
     ELSE IF status[r] = "approved" THEN "granted" ELSE "refused"]

Ran == {r \in RequestIds : phase[r] \in Started}

Gate == INSTANCE ApprovalGate
          WITH Requests <- RequestIds, verdict <- Verdict, ran <- Ran

ImplementsGate == Gate!Spec

(***************************************************************************)
(* What the code says and does not do.                                     *)
(***************************************************************************)

(* "Resolves the Future associated with the approval request, allowing the *)
(* agent to continue executing the tool" (routers/approval.py): a request  *)
(* the user was told is approved and executing has not timed out.          *)
ApprovedIsNotTimedOut ==
  \A r \in RequestIds : status[r] = "approved" => phase[r] # "timedout"

(***************************************************************************)
(* "If the outer task is cancelled (e.g., user /stop), immediately         *)
(* auto-denies the approval and re-raises CancelledError" (docstring of    *)
(* _wait_for_approval_with_heartbeat): a stop ends the run of the agent,   *)
(* whatever the call was waiting for, and query_handler cleans up.  Under  *)
(* SwallowsCancel a decision may win against the stop.                     *)
(***************************************************************************)
StopsComplete ==
  \A s \in Sessions : run[s] = "stopping" ~> run[s] = "running"
=============================================================================
