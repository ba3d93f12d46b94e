# Nexora AI platform: TLA+ models, checks and proofs

TLA+ models of the concurrent core of the Nexora AI platform (a Python
application, `src/src/qwenpaw`, with its Nexora extension
`src/src/qwenpaw_ext/nexora`), the TLC configurations that check them, and
TLAPS proofs about them. Paths below are relative to `src/src/qwenpaw` unless
they start with `src/`.

The platform runs AI agents for many users. Messages come in from chat channels
and from the web console, queue up per conversation, start an agent run in the
workspace of an agent, and the run's events stream back. Dangerous tool calls
wait for the user's approval; changes to the platform's capabilities wait for an
administrator's. Behind the runs, model calls share rate limits and are counted,
tools come from MCP servers that are connected and replaced at run time, and
cron jobs start runs by themselves.

Nearly everything runs on one asyncio event loop. So the question for each
component is not which instructions interleave but which *suspension points*
do: the code between two awaits that really suspend is one step. The models
take their actions from that rule. Where a lock of the code is never held
across a real suspension, taking it is part of a step and the lock is not
modelled; where one is (`MultiAgentManager` stopping a workspace under its
lock, `ChannelManager` replacing a channel, `_start_capacity_lock`), it is.

## 1. Inventory

### Modelled

| Part (code) | State | Operations | Interacts with | What is hard |
|---|---|---|---|---|
| **Tool approval** (`app/approvals/service.py`, `agents/tool_guard_mixin.py`, `app/routers/approval.py`, the `/approval` command) | pending requests, a future per request, waiting coroutines | request, emit, approve, deny, time out, supersede, evict, stop | the agent loop, the run of the session, sub-agent sessions | a decision races a timer, a stop, an eviction or a repeated call; `asyncio.wait_for` may swallow a cancellation |
| **Task tracker** (`app/runner/task_tracker.py`, `app/routers/console.py`, `app/_app.py`) | current run per chat, event buffers, subscriber queues | start, attach, publish, detach, stop, register a foreign run | channels and console routes | replay against live events; everything is looked up by key while runs come and go; stop before the first step |
| **Channel queues** (`app/channels/unified_queue_manager.py`, `app/channels/manager.py`, `app/channels/base.py`) | a queue and a consumer task per session, an idle sweep, shutdown | enqueue, batch, hand over to the tracker, sweep, `/stop`, stop all | the task tracker, channel adapters | sweeping what is just being used; cancellation swallowed by a stream; lookups held across awaits |
| **Agent pool** (`app/multi_agent_manager.py`, `app/workspace/`) | loaded workspaces, pending starts, delayed cleanups, services handed over in a reload | get, evict, sweep, unload, reload, stop all | callers that run agents, the configuration routes | two starts, a start and a sweep, a reload and an unloading overlap; failures with waiters |
| **Capability approval** (`src/src/qwenpaw_ext/nexora/approval_requests.py`, `app/routers/nexora.py`, `_capability_approval.py`, `mcp.py`, `plugins.py`, `plugins/loader.py`) | stored requests, configuration, loaded plugins, plugin directories | submit, approve, reject, apply, direct change, restart | the plugin loader, the agent configuration | check, await, then write; failure or death half way |
| **Token usage** (`token_usage/buffer.py`, `storage.py`, `model_wrapper.py`) | a queue of events, a cache, the file and its temporary file | record, consume, seed, merged read, flush, stop, crash, restart | model calls, usage routes, the start and stop of the application | two loads, a flush and an event, two writers of one temporary file overlap; a stop before the load |
| **Model calls** (`providers/rate_limiter.py`, `retry_chat_model.py`) | permits, a pause, a sliding window; per call its attempt and the ownership of its permit | acquire, ask, stream, succeed, report a 429, retry, time out, cancel | all agents and background tasks that use one model | a permit changes hands with a stream and must come back once; late successes; retries inside and outside a stream |
| **MCP clients** (`app/mcp/manager.py`, `watcher.py`, `stateful_client.py`, `agents/react_agent.py`) | a client per key, a lifecycle task per client, the watcher's snapshot, a reload task | connect, close, replace, remove, poll, break, recover, shut down | agents that use the clients, whoever writes the configuration | a client is replaced while it connects, is used or is recovered; awaiting a task and being cancelled cancels the task |
| **Cron jobs** (`app/crons/manager.py`, `repo/`) | the stored job and history; per manager a scheduler entry, a semaphore, a state, a cached history | store, delete, pause, resume, fire, run, record, start, stop | the agent pool (a reload starts a second manager on the same files), the API | a job is changed or deleted while it runs; state objects and semaphores are replaced under an execution |

What makes each correct:

- *Tool approval*: a guarded tool runs only on an approval of that very
  request; whoever waits can be answered; decisions are final; a stop leaves
  nothing behind and ends the run (it may not: `approval_stop`); nobody waits
  forever.
- *Task tracker*: every stream sees its whole run, in order, then the end; a
  chat has one producer; closed streams are forgotten; streams are released.
- *Channel queues*: a registered queue has a live consumer; one consumer per
  session; a queue that was looked up, or that holds messages, is still the one
  that is served; messages are handled.
- *Agent pool*: the limit holds; no started workspace is forgotten; no loaded
  workspace uses services that were stopped; waiters are always woken. A
  cancellation at the wrong place breaks the second and the fourth.
- *Capability approval*: the stored status says what was done; the four-eyes
  rule holds; a loaded plugin has its files. An exception at the wrong place
  breaks the first, an installation that meets a removal the third.
- *Token usage*: no call is counted twice; a reader sees every recorded call;
  recorded calls reach the file, in time or at the stop.
- *Model calls*: permits are conserved; a pause is not cut by a success; every
  call ends, after a bounded number of requests.
- *MCP clients*: no connection outlives its client; the manager has the clients
  the file asks for; a lost connection is restored.
- *Cron jobs*: the history is that of the last executions; a deleted job does not run; "running"
  is shown only of what runs.

### Not modelled

Each has an entry with its reason in `PROJECT.json`.

- Tables and pure functions of one request: role-based access, grants, audit,
  authentication, access control of channels, commands.
- Content or I/O: the agent loop, prompts, memory and context, skills and
  scanners, providers, local models, backup, settings, secrets, ACP, command
  line, and the console, which is TypeScript.

The map covers a small share of the repository's lines. The rest is what
these three points name: adapters of a dozen messaging services, a browser
driver, tools, provider clients, configuration schemas, the command line and a
large user interface. It is long because its content is, not its control; a
model of it would restate it. What is left with control worth checking is in
section 7.

## 2. Modules

| Module | What it is |
|---|---|
| `ApprovalGate` | abstract: a request is opened once, decided once, its tool runs at most once and only when granted |
| `ToolApproval` | the approval service with its callers and deciders; implements `ApprovalGate` |
| `MCToolApproval` | its instance: a root session and the session of a sub-agent, with a call each |
| `ToolApprovalProofs` | invariants and the refinement, proved |
| `RunLog` | abstract: a run is a log that grows and is closed, and a stream reads it from the beginning to the end |
| `TaskTracker`, `TaskTrackerProofs` | the tracker and its streams; implements `RunLog`; invariants and the refinement proved |
| `SessionMailbox` | abstract: a session has one mailbox, a message is delivered once, one batch is gathered or served at a time |
| `SessionQueue`, `SessionQueueProofs` | queues, consumers, sweep and shutdown; implements `SessionMailbox` for the sessions in use; invariants and the refinement proved |
| `AgentPool`, `MCAgentPool`, `AgentPoolProofs` | the workspace pool; the MC module adds symmetry; invariants proved |
| `CapabilityApproval`, `MCCapabilityApproval`, `CapabilityApprovalProofs` | requests, their application, restarts; invariants proved |
| `TokenUsage` | the usage buffer, its file, its process |
| `RateLimiter` | calls that share one limiter, with retries and streams |
| `ModelCallProofs` | invariants of these two, proved; the names of `RateLimiter` that the two would share begin with "Limiter" |
| `McpClients`, `MCMcpClients`, `McpClientsProofs` | manager, watcher, lifecycles and the agents' recovery; the MC module fixes which of two versions comes first; invariants proved |
| `CronJobs`, `CronJobsProofs` | one job, its managers and executions; invariants proved |

The components meet at their callers, and each model contains what it needs of
the other side as actions of its own: a task tracker's run in `SessionQueue`, a
workspace's requests in `AgentPool`, the second manager of a reload in
`CronJobs`, the agents in `McpClients`.

Operators with a variant next to them (such as `Fits` and `FitsOneMore`) state
in the variant a bug that the properties are meant to exclude; `PROJECT.json`
lists for each property the variant that violates it.

### How the state corresponds to the code

- **ToolApproval.** A request is named by its rank of creation, so the
  insertion order of `_pending` is the order of numbers. `status` and `future`
  are the fields of `PendingApproval`; `phase` is where
  `_acting_with_approval` stands: *emitting* (printing the prompt), *waiting*
  (in `wait_for`), *executing*. `aged` says how many of the oldest requests
  are older than the 1800 s of the garbage collection. `run[s]` is the task of
  the session's agent. `RequestApproval` is all of `create_pending`: it
  supersedes, inserts, ages out and evicts in one step. `CancelLost` is
  `asyncio.wait_for` of Python 3.10 and 3.11, which returns a result that is
  there when the cancellation arrives; the constant `SwallowsCancel` turns it
  off for 3.12 and later. A run that missed its stop so is "deaf".
- **TaskTracker.** Runs and events are named by their ranks; a buffer is then
  the number of its events. `task = "doomed"` is a producer cancelled before
  its first step, whose `finally` never runs. A stream remembers in `followed`
  the run it was attached to (a history variable); the code only has its key.
- **SessionQueue.** `place[m]` is where a message is and `target[m]` the queue
  its enqueue task looked up, perhaps long ago; "routed" is an enqueue that has
  looked a queue up and has not put yet, because the queue is full. `cancelled` holds the
  cancellations not yet delivered. A consumer is suspended while it waits for
  a message, for the channel (`get_channel`), while it prepares a batch and
  while it follows a run. `Quiet` are the keys whose queues may go idle: an
  assumption about the traffic, which the properties of "busy" keys make
  explicit.
- **AgentPool.** Workspaces are numbers in order of creation. `task[t].at` is
  where the coroutine of a call stands; `older` is the order of last access
  of the loaded agents, `expired` those past the idle time. `services[w]` is
  the workspace that made the reusable services `w` runs on and `closed` says
  whose services were stopped. `crossed` marks workspaces made by a reload
  during which the agent was unloaded, a history variable. `Cancelled` is a
  cancellation at each await of a call: while it waits for a start or for room
  and the lock is free (`MayCut` bounds those that leave something behind), for
  the lock to register the workspace it started (`CancelsEntry`), in the
  `finally` block of `get_agent`, for the lock again (`CancelsFinish`; the place
  is "finishing"), and while it stops a workspace that it has taken out of the
  pool (`CancelsStop`, `CancelsSweep`). `torn` are the workspaces that so have
  nobody to stop them, `stuck` the agents whose pending start is never removed:
  history variables, and the exceptions of `NoOrphans` and `OneStarter`.
  `locked` holds while the manager stops a workspace under its lock; at other
  times taking the lock is part of a step. A start that is cancelled before the
  workspace is up is a start that fails.
- **CapabilityApproval.** `present` is the MCP configuration and the loaded
  plugins, `files` the plugin directories. `job[t].at` is where a call that
  (un)installs a plugin stands: *fetching* it, *preparing* it (pip), awaiting its
  `register` (*registering*), its hooks (*setup*), or its shutdown hooks
  (*unloading*). `CutOff` is what an exception that is no `HTTPException` leaves
  in `approve_platform_approval_request`: a change made and a request still
  pending, because the files could not be deleted (`UnloadRaises`) or the
  database would not take the policy or the update (`SetupRaises`,
  `ApproveMcpRaises`). `effects` (requests whose change was made), `lost`
  (requests whose application was cut off, by an exception or by the end of the
  process) and `crossed` (plugins whose files went while a job registered them)
  are history variables.
- **TokenUsage.** An event is one model call; a table says how often each call
  is counted, so "once" and "not at all" are values. `load` and `write` are the
  loads and the worker threads under way with what they carry; a thread's write
  is two steps, the temporary file and its renaming, and both writers share the
  temporary file. `dirty` is the code's flag. `recorded` and `mishaps` are
  history variables: what the buffer has taken over, and which of the known
  exceptions happened in the life of this process.
- **RateLimiter.** Time is relative: `pauseLeft` is `_pause_until` minus now,
  `claims` says how many entries of `_request_times` have each age. `stale[c]`
  is the comparison `_pause_until <= acquired_at` that `on_success` makes; it
  is true when the attempt begins without a pause and becomes false when a
  later 429 extends it. `holdingBackoff` and `backoff` are the sleeps of
  `__call__`, inside its `try`, and of `_wrap_stream`, after the permit is back.
- **McpClients.** Client objects and lifecycle tasks are pools of model values;
  an object nobody can reach is used again. `obj[x].ev` says whose events `x`
  uses: its own, or those of the rebuilt client whose state it took over.
  `proc` is where the worker (`init_from_config`, then the reload task),
  `close_all` and the agents stand, what they await, and whether they were
  cancelled meanwhile. `shut` is how far the shutdown is; "cut" is a
  `close_all` that was cut short, because somebody else cancelled the lifecycle
  it awaited. `missed`, `astray` and `touched` are history variables
  that name the exceptions of the properties.
- **CronJobs.** Semaphores and state objects are numbers in the order in which
  they were made, so that an execution can hold an old one while its manager
  has a new one. The repository never suspends, so an operation of a manager
  is one step. `records` are the executions in the order in which they were
  recorded and `file` those of them that the history file still has: `Recorded`
  adds one and deletes those past `HistoryLimit` (50 in the code). `lost`,
  `outlived`, `unwritten` and `behind` are history variables: records deleted with the job,
  executions that had the job when it was deleted, executions whose record could
  not be written, managers that another one has overtaken.

## 3. Runs

Runs that pass:

| Run | Question | Bounds and why they suffice |
|---|---|---|
| `tool_approval` | Does any order of supersession, ageing, eviction, decisions, timers and stops let a tool run unapproved, break the abstract gate, leave a request of a stopped tree behind or somebody waiting? | a root and a sub-session with a call each and two requests in a store for **one**: every new request evicts or supersedes the other; cancellation as in Python 3.10, the hardest case |
| `task_tracker` | Does every stream read its whole run like a log, whatever attaches, stops, detaches and restarts meanwhile? | three run objects of one chat and one external key, two streams, two events: a stream can outlive its run and meet the next one under its key |
| `session_queue` | Are queues, consumers and messages consistent while one session is swept, and does the busy session have one mailbox, even if the sweep hangs? | three messages, three queues, capacity one: a full queue blocks, and a swept key can be made anew |
| `agent_pool` | Do the limit, the hand-over of services and the wake-up of waiters survive overlapping calls? | three agents, of which **two** may be loaded, two concurrent calls, three workspaces: a third agent forces an eviction, a reload can cross one, and a workspace can be replaced, its agent unloaded and loaded again. `MaxCuts` is more than three workspaces and three agents allow, so cancellations are not bounded. The instance with four workspaces and one cancellation that leaves something behind (3.7 million states) passes too, but takes longer |
| `token_usage` | Is every call counted exactly once, across loads, flushes, failures, a stop, crashes and restarts? | two calls, a reader beside the consumer: an event can come before, during and after a load or a write |
| `rate_limiter` | Do permits balance, does a pause last, does every call end? | two calls with **one** permit, a window for **one** request, two attempts, a pause of up to two units: each limit makes the other call wait |
| `mcp_clients` | Does a replaced, removed, refused or cancelled client leave its connection behind? Does the manager follow the file? Does a registered client that lost its connection get another? | one key, two configurations (interchangeable, so the file begins with the first or with none) and "off", **two** changes, two client objects, two lifecycles, one agent, one broken call: a client can be replaced while its predecessor is closed or recovered, an agent that rebuilds one waits for the other |
| `cron_jobs` | Do history, deletion and state hold while executions and managers overlap? | two managers, two executions, two changes, concurrency **one**, a history of **one** record: an execution can hold the semaphore and state of a job that was deleted and made again, and the second record drives the first out |
| `capability_approval` | Does the record agree with what was done, across overlapping decisions, failures and restarts? | two requests, an MCP client and a plugin, two jobs at a time, one approver and one who is not: one job can install and another remove the plugin that a third party, or the first again, registers |

Runs that end in a counterexample: what a comment of the code says and the
program does not do. Each is listed with the quoted line under "findings".

| Run | What happens |
|---|---|
| `approval_stop` | a stop arrives between the decision of a request and the resumption of its call; `asyncio.wait_for` of Python 3.10 and 3.11 returns the decision and swallows the cancellation, which the docstring says is re-raised; the approved tool runs, and the run goes on. With `SwallowsCancel = FALSE` (3.12) `StopsComplete` holds of the same instance |
| `pool_cleanup` | a caller of `get_agent` that started an agent is cancelled while its `finally` block waits for the manager's lock, which a reload holds while it stops a workspace; the pending start stays, and its event is never set |
| `token_usage_stop` | `stop()` comes before the consumer has read the file; the consumer is cancelled, and the forced final flush writes the empty cache over all usage recorded so far. In the code the consumer is then inside its load, where the model has it not begun: both lose the same |

Behaviours the models have, and no run is spent on. The first group has its
property stated in the module: a configuration that lists it shows the
counterexample.

- `ApprovedIsNotTimedOut` (`ToolApproval`): the caller times out and its record
  stays; the user approves it and is told that the tool executes, but it was
  refused.
- `CleanupWhenTaskCompletes` (`TaskTracker`): a stop between `create_task` and
  the producer's first step; no `finally` runs, the run is kept and its stream
  gets no end.
- `StrictSerialization`, `NeverIgnored` (`SessionQueue`): a swept consumer ends
  after its key was given a new queue, pops that one, and two consumers serve
  one key; the sweep cancels a consumer that follows a long run, the run goes
  on, and the next message is dropped as "already running". Both concern keys
  that go idle; for the others the opposite is proved.
- `SweepsOnlyExpired` (`AgentPool`): the sweep unloads an agent that was used
  after it began, judged by the access time of its snapshot.
- `RejectionBlocks` (`CapabilityApproval`): a rejection is confirmed while an
  earlier approval is being applied; the change is made and the record becomes
  "applied".
- `NoDoomedRetry` (`RateLimiter`): a stream that is told to wait longer than the
  cap is retried after the cap, where `rate_limiter.py` (lines 17-18) speaks of
  "an immediate raise instead of a doomed retry"; only `__call__` raises.
- `AllClosed` (`McpClients`): an agent that is cancelled while it closes a
  client cancels the client's lifecycle, and with it a `close_all` that awaits
  the same one; the clients after it stay open.

The others:

- The sweep pops a queue that is no longer empty, if two keys are idle at once
  and a message arrives for the second while the first is awaited.
- The cleanup loop awaits a cancelled consumer without limit, and a consumer
  that follows a run swallows the cancellation: the loop may hang for good.
- A queue made while `stop_all` waits for the consumers is forgotten with its
  consumer running.
- `stop_all` of the pool cancels the delayed cleanups and stops the loaded
  workspaces; the replaced ones that waited for their cleanup keep running.
- An agent is unloaded during its reload and loaded again before the reload
  ends: the reloaded workspace then runs on services that the unloading
  stopped. `ServicesOpen` excludes these workspaces (`crossed`).
- A call that is cancelled while it stops a workspace it has taken out of the
  pool (an eviction, an unloading, a sweep), or while the workspace it started
  waits to be registered behind a reload, leaves that workspace started with
  nobody to stop it. `NoOrphans` excludes these (`torn`).
- An installation that fails after its files were copied leaves them, and the
  plugin is loaded at the next start.
- A process that dies between a change and the update of its request leaves a
  pending request, whose second approval fails with 409 or 404. So does an
  exception that the routes of the approvals do not catch: `shutil.rmtree` after
  the plugin has gone from the loaded plugins (`plugins/loader.py:593`, `602`), a
  database that is away. `MadeIsSettled` excludes these (`lost`).
- A plugin whose `register` is awaited can be installed by another job and
  removed again meanwhile; it is then recorded as loaded without its files, and
  not found at the next start. `LoadedHasFiles` excludes these (`crossed`).
- Token usage: a reader and the consumer both load the file, and the second
  load replaces a cache to which events were applied; an unreadable file counts
  as empty and is overwritten; the final flush runs beside a periodic one and
  they share the temporary file. `CountedOnce` holds through all of this, the
  other properties name these lives as exceptions (`mishaps`).
- Rate limits: a slot of the window is claimed before the wait for a permit, so
  requests may be sent later than their claims and more than `max_qpm` of them
  within a window; the second request with reasoning content claims none. A
  call that waits for a permit sends its request although a pause has begun
  meanwhile. A failed request keeps its permit through its backoff. Since a
  stale pause is one that has passed, `on_success` never changes what anybody
  waits for.
- MCP: a failed replacement is counted and swallowed, so that the snapshot is
  updated all the same and the change is not tried again (the counter never
  passes 1; the docstring at `watcher.py:196` speaks of a retry). The mtime is
  consumed while a reload runs, so that a change made meanwhile waits for the
  next edit. A change made between `init_from_config` and the watcher's first
  snapshot is never applied. A cancelled reload leaves clients that no snapshot
  describes. An agent cancelled while it connects a rebuilt client leaks its
  lifecycle, and the lifecycle of a rebuilt client that was taken over goes on
  updating the rebuilt object. The `finally` of `close()` drops a reference to
  a lifecycle that somebody else has started since. A recovery that fails
  leaves the shared client closed for everybody. A 401 that ends an established
  session leaves a client that still says it is connected.
- Cron: the history keeps 50 executions, and an execution whose record could not
  be written is in no history. A replaced job gets a new semaphore and runs beside the execution that
  holds the old one; executions that wait run the job as it was when they were
  called; an invalid schedule is stored and then refused, and the old trigger
  runs the new job; a pause is not stored; during a reload two schedulers fire
  the same job.

## 4. Fairness

Safety properties need none. The liveness properties assume of the event loop
what asyncio gives: a callback that is ready is run, and a timer that is due
fires (weak fairness of `Emit`, of `Resume` or `TimerFires`, of `CancelCall`
and `FinishStop`; of the producer's first step; of a consumer's next step, of
`Put` or its timeout, and of the cleanup loop's continuation). Not assumed:
that a user decides, that a tool returns, that an agent run yields or ends,
that a client connects. In `TokenUsage` the tasks, the flush timer and the worker
threads go on, and file reads end; failures and crashes are not fair. In
`RateLimiter` time passes, a call that can proceed does, and every request and
stream ends in some way, as the model clients have timeouts of their own; which
way is not assumed, and the semaphore need not be fair, since a call that waits
too long is timed out. In `McpClients` lifecycles and the reload task go on, an
attempt to connect ends, and a server that is asked again and again answers at
last (strong fairness of `LifeConnects`): without it no recovery could be
claimed. `MessagesAreHandled` has the end of runs as its
hypothesis (`RunsEnd`), and `StreamsAreReleased` is about connected clients
that read.

## 5. Proofs

The proofs hold for every value of the constants under the named assumptions
(`ConstantsAssumption` in each module, `LimiterAssumption` in `RateLimiter`):
any number of sessions, calls, chats, streams, requests, users, clients and
jobs, and any limit. TLC checks the same definitions first. Every safety
property that a run checks, its action properties and its refinements included,
is the statement of a theorem.

Three modules are shown to implement an abstract one, which says what the
component promises without saying how: `ApprovalGate`, `RunLog` and
`SessionMailbox`. Each of these proofs has a lemma per action, which says to
which abstract action it maps, and rests on the inductive invariant of the
detailed module.

**ToolApprovalProofs.** The inductive invariant is `TypeOK`,
`RunsOnlyApproved`, `WaiterCanBeAnswered`, `OneRequestPerCall` and three links
without which they are not inductive: a record is in the store exactly while
its status is "pending"; only an approval sets a future to "approved", which
is what the resumed coroutine looks at; requests not yet created are
untouched. `OneRequestPerCall`, at most one open request for a call, is a
theorem only. From the invariant follow `DecidedOnce` as an action property, and the
refinement of `ApprovalGate`, step by step: a creation maps to `Open` with the
superseded and evicted requests refused at once, a decision to `Grant` or
`Refuse`, the start of a tool to `Run`, all else to a stutter. `StoreBounded`
is separate: it needs that the youngest `MaxPending` of a finite set are at
most that many. `StopLeavesNothing` is an action property: only `FinishStop`
makes a stopped run "running" again, it denies what the store has of the whole
session tree, and, by `WaiterCanBeAnswered`, a coroutine that waits on an open
future has its record there, so that nobody is left whom it did not find.

**TaskTrackerProofs.** `NothingMissed` says that a queue equals the rest of its
run; `StreamsFollow` ties the subscriber lists, which the code indexes by run,
to the keys by which streams are detached: an unfinished run that a stream
follows is the current run of the stream's key. `KeysHoldOwnRuns` gives that
the producer, which pops *its key*, pops itself. Sequence facts are stated for
`Holds`, a recursion-free description of a queue's contents. With them the
tracker implements `RunLog`: queues, replay and subscriber lists vanish, the
buffer is the log, and a stream is a place in it. `Attach` is `Join`, `Start` is
`BeginWith`, `Publish` is `Publish`, the end of a producer or of a registered
run is `Finish`, and what a stream takes from its queue is by `Holds` the next
event (`Read`) or, after the last one, the end (`Complete`). A producer that was
cancelled before its first step is `Vanish`, which `RunLog` allows only a run
without events; `SilentBefore` adds that to the invariant. A stream that was
attached and is never read is a reader that leaves; all else is a stutter.

**CapabilityApprovalProofs.** The invariant adds `JobsKnown` to the properties:
a job that applies a request refers to a stored one, its user may decide it,
and in the phase in which the hooks of a plugin run the change has been made.
It is what carries the check made before an await to the write after it: the
status may have changed in between, but not to "none", and the approver that
the job will write was checked against the requester, who never changes.
`FilesKnown` adds to `LoadedHasFiles` that a job which awaits the `register` of a
plugin has its files, or its removal crossed that job (`crossed`): the check of
the files comes before the await and the write after it.

**AgentPoolProofs.** Every safety property that `agent_pool` checks. The
inductive invariant has six parts. `CutOK` types the two history variables.
`Types` adds to `TypeOK` that a call knows
its agent and its workspace where it needs them. `Starters`: at most one call
holds the capacity lock; an agent is pending exactly while one call starts it;
such an agent is not loaded. An agent whose starter was cancelled in its
`finally` block is `stuck`: pending, and started by nobody. `Room`: while a call starts a workspace there is
room for it. Only the holder of the lock loads an agent that was not loaded (a
reload replaces one that is), so the room found before the await is still
there after it, and `PoolBounded` follows. `NoOrphans` is inductive with
`Starters`, as a start then overwrites nothing; what a cancelled call leaves
goes to `torn`. `Lineages` carries
`ServicesOpen`: services that are shared belong to one agent, which is loaded;
so whoever stops a workspace, having unloaded its agent, stops services that
only crossed reloads still use. `OneStarter` is the part of `Starters` that
callers rely on: nobody waits for the start of an agent that no call is
starting any more, in whatever way that call ended, unless it was cancelled in
its `finally` block.

**SessionQueueProofs.** All the safety that `session_queue` checks. `TypeInv`
adds to `TypeOK` that consumers, cancellations and idle marks are those of
queues that were made. `QueuesInv` ties the queues to the places of the
messages in both directions, so that a message which one `Put` or `Drain` moves
is known to stand nowhere else. `OwnersInv`: a
registered queue belongs to the key it is registered for, and a message to the
key of its queue. `AliveInv` gives `RegisteredIsAlive`: until `stop_all`
cancels the consumers, a registered one is alive, nobody has cancelled it, and
the sweep does not await it, as the sweep unregisters before it cancels.
`BusyInv` is about keys that are never idle for long, while the manager is up:
sweep, cancellations and idle marks concern other keys, so the one queue of a
busy key stays registered, and while the key has a run its consumer follows it;
no message then meets a run. On this stands the refinement of `SessionMailbox`:
the mailbox of a busy session is the queue registered for it. Two more parts of
the invariant carry it. `BatchesInv`: taken messages belong to a consumer that
gathers, a consumer that gathers has taken some, and messages with a run have
one. `TargetsInv`: the queue that an enqueue task of a busy session looked up,
however long ago, is the one still registered, so that `Put` adds to the
mailbox; with `BusyInv` it gives `BusyLookupsHold`. A consumer's take maps to `Pick`, the drain after the channel was
awaited to `Gather`, the hand-over to the tracker to `Serve`, a batch that the
channel absorbs to `Drop`, the end of a run to `Finish`, `Put` to `Deliver`,
`/stop` to `Clear` and the shutdown, after which nothing is promised, to
`Close`; the sweep, whatever it does to other sessions, is a stutter.

**ModelCallProofs, the usage buffer.** The invariant is `TypeOK` and three parts. `OnceInv`: every
table on its way from the file to the cache and back (file, cache, loads under
way, snapshots, the temporary file that a thread has filled) counts a call at
most once, and then the call is recorded and no longer queued. `SeedInv`: if
nothing was misread, cut off or loaded twice, the cache and the queue together
lack no recorded call, and before the first load ends nothing is written and the
file is complete in the same sense; this carries `ViewComplete`. `StopInv`: once
the consumer has ended the cache is full, and the final flush carries it to the
file alone, as a periodic one beside it is a mishap.

**ModelCallProofs, the rate limiter.** `PermitsConserved` is inductive with the types; each step
adds one call to those that hold a permit, removes one, or leaves them, so the
proof is about cardinalities of sets that differ by one element. `StaleInv` (a
call that has seen the end of a pause has seen the end of this one) gives
`PauseKept`. `SendsInv` gives `SendsBounded`: while a call is let through for an
attempt it has sent less than its attempts allow, and the attempts of a stream
go on where those before the stream stopped. `BoundsInv` says that the
claims in the window are at most `max_qpm` (`ClaimsBounded`): a claim is made only where there is room, and time
makes claims older and lets them leave the window. What is
bounded is the number of claims and not of requests, as section 3 says.
`ConcurrencyBounded`, at most `max_concurrent` calls that hold a permit, follows
from the conservation. These two and `SendsBounded` are theorems only;
no run lists them.

**McpClientsProofs.** Both safety properties of `mcp_clients`, for any number of
keys, clients, lifecycles and agents. `PlacesInv`: whoever stands in a connect,
a close or a recovery has a client in hand, and a lifecycle that goes on has
one. `TouchedInv`: agents connect, close and overwrite only clients that some
agent has tried to recover, and only those share events; this is what confines
the unsafe recovery to `touched`. `StopInv` is why `NoLeakedClient` is inductive:
the lifecycle of an untouched client is the one the client refers to, so that
`close()` sets the event of the right lifecycle, or it has been told to stop
before; and whoever has come past the point where `close()` sets the event
holds a client that has been told. `ReloadInv` and `ConfigInv` give
`FollowsConfig`: while a reload is under way, a key has what the watcher's old
snapshot asks for, until its turn comes, and what the target asks for
afterwards. That nothing is leaked could not be proved of a `close_all` that is
cut short: an agent that is cancelled in `close()` cancels the lifecycle that
`close_all` awaits, and the clients after it are forgotten. This needs two keys,
which the run does not have; the properties name the case (`shut = "cut"`), and
`ShutdownTells` says what holds otherwise: once `close_all` has run to its end,
every connection of an untouched client has been told to stop.


**CronJobsProofs.** All three properties of `cron_jobs`. `RefersToMade` adds to
the types that semaphores, state objects and executions are referred to only
when they have been made. `StatesInv` gives `RunningIsTrue`: a state object is
used by one manager and its executions, so that a deletion, which makes the next
execution use a new one, leaves the old one to the executions that began with
it; and while one says "running", some execution of it runs. `JobsInv` gives
`DeletedIsNotRun`: while nothing is stored, only executions that had the job at
its deletion have it, and the history has only their records. `HistoryKept`, for
any limit, is inductive with `NewIsIdle`: a manager that has not started shows
nothing.

The type invariants are theorems (`TypeCorrect`, `LimiterTypeCorrect`), and so
are not listed in the runs as well.

Only model-checked is all liveness, which is out of the prover's reach, as is
`ENABLED`: `CallsAreUnblocked`, `StreamsAreReleased`,
`MessagesAreHandled`, `EventuallySaved`, `CallsEnd` and `RegisteredRecovers`.

## 6. Abstractions

- Messages, prompts, events and capabilities are model values or ranks; their
  content matters to no property.
- Time is not a number. A timer may fire when its coroutine waits; an age
  limit may pass when the code allows something to be that old. Where two
  limits are ordered by the code (an idle time longer than an enqueue's
  30 s), the order is a guard (`Rests`).
- `MaxRequests`, `MaxRuns`, `MaxEvents`, `MaxMessages`, `MaxQueues` and
  `MaxWorkspaces` bound counters that the program does not bound; at a bound
  nothing new is created and everything else goes on. For this reason, and
  since the program may be idle or shut down, most runs do not check deadlock;
  `token_usage` and `rate_limiter`, where a process can restart and time can
  pass, do. `MaxCuts` bounds the cancellations that leave something behind in
  `AgentPool`. `MaxEdits` and `MaxBreaks` bound the environment of `McpClients`,
  `MaxRequests` that of `CronJobs`.
- A pool of `McpClients` that is exhausted delays who needs an object of it:
  two clients and two lifecycles are enough for a registered client and one that
  replaces it, or one that an agent rebuilds. A third at the same time, and a
  second key, are left to the theorems.
- The rate limiter's jitter and backoff times are any times. Its registry of
  limiters, where the first caller decides the limits, is left out.
- Command queues (priorities 0 and 10) are the same code as the queues of
  messages, without the tracker. Skill changes follow the pattern of MCP or of
  plugin changes. The services of a workspace are one unit, "reusable or not".
- A failed start leaves nothing behind in `AgentPool`, although
  `Workspace.start` calls a `stop` that returns at once: the services it
  started one by one are not modelled.

## 7. What is left

With control worth checking, and not modelled: the tool guard's decision (a
function of rules and findings); session files, read and written around a run;
missions; the heartbeat and dream jobs; the registry of rate limiters; forced
reinstallation of plugins. A composition of `SessionQueue` and `TaskTracker`
under an abstract session would show in one model what now meets at the actions
they share; `SessionMailbox` and `RunLog` are the two specifications that it
would compose.

## Running

    tlc -workers 2 -config SessionQueue.cfg SessionQueue
    tlapm TaskTrackerProofs.tla

Every run finishes within four minutes on two cores.
