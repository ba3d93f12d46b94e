------------------------------ MODULE AgentPool ------------------------------
(***************************************************************************)
(* The pool of agent workspaces: MultiAgentManager                         *)
(* (app/multi_agent_manager.py) over Workspace.start and stop and the      *)
(* services that a reload hands over (app/workspace/workspace.py,          *)
(* service_manager.py).                                                    *)
(*                                                                         *)
(* Workspaces are named by the order of their creation.  The manager's     *)
(* lock is held across an await in one place only, where a reload finds    *)
(* its agent gone; apart from that each action is the code between two     *)
(* suspensions.  Agents are configured: get_agent raises without effect    *)
(* for the others.                                                         *)
(***************************************************************************)
EXTENDS Naturals, FiniteSets

CONSTANTS
  Agents,        \* agent ids
  Tasks,         \* asyncio tasks that call the manager
  MaxActive,     \* max_active_agents; 0 is no limit
  MaxWorkspaces, \* bound: workspaces created
  MaxCuts        \* bound: calls that leave something behind when cancelled

ASSUME ConstantsAssumption ==
  /\ MaxActive \in Nat
  /\ MaxWorkspaces \in Nat
  /\ MaxCuts \in Nat
  /\ "none" \notin Agents \cup Tasks

None == 0
Nobody == "none"
Workspaces == 1..MaxWorkspaces

VARIABLES
  agents,    \* agents[a]: the loaded workspace of agent a, or None
  older,     \* <<a, b>>: loaded agent a was accessed before loaded agent b
  expired,   \* agents whose last access is older than idle_ttl_seconds
  pending,   \* _pending_starts
  locked,    \* is the manager's lock held across an await?
  task,      \* what each task does
  made,      \* workspaces created
  services,  \* services[w]: the workspace that made the reusable services of w
  started,   \* workspaces with _started
  closed,    \* workspaces whose reusable services have been stopped
  drain,     \* drain[w]: the delayed cleanup of w
  crossed,   \* history: made by a reload during which the agent was unloaded
  manager,   \* stop_all: its phase, agents still to stop, the one it awaits
  torn,      \* history: workspaces left by a call that was cancelled while it
             \* stopped them, or before it could register them
  stuck      \* history: agents whose starter was cancelled in its finally block

poolVars == <<agents, older, expired>>
lockVars == <<pending, locked>>
workspaceVars == <<made, services, crossed>>
cutVars == <<torn, stuck>>
vars == <<agents, older, expired, pending, locked, task, made,
          services, started, closed, drain, crossed, manager, torn, stuck>>

Idle == [at |-> "idle", agent |-> Nobody, ws |-> None, todo |-> {}]
At(place, a, w, S) == [at |-> place, agent |-> a, ws |-> w, todo |-> S]
Goes(t, record) == task' = [task EXCEPT ![t] = record]

Loaded == {a \in Agents : agents[a] # None}
Active(w) == \E t \in Tasks : task[t].at = "running" /\ task[t].ws = w

(* The task holds _start_capacity_lock: it starts an agent, or unloads     *)
(* others to make room for it.                                             *)
HoldsCapacity(t) ==
  \/ task[t].at = "starting"
  \/ task[t].at = "evicting" /\ task[t].agent # Nobody
-----------------------------------------------------------------------------
Init ==
  /\ agents = [a \in Agents |-> None]
  /\ older = {}
  /\ expired = {}
  /\ pending = {}
  /\ locked = FALSE
  /\ task = [t \in Tasks |-> Idle]
  /\ made = 0
  /\ services = [w \in Workspaces |-> w]
  /\ started = {}
  /\ closed = {}
  /\ drain = [w \in Workspaces |-> "no"]
  /\ crossed = {}
  /\ manager = [phase |-> "up", todo |-> {}, ws |-> None]
  /\ torn = {}
  /\ stuck = {}

(* The manager's dictionaries: an access, an unloading, a (re)loading.     *)
Forget(a) == {p \in older : a \notin {p[1], p[2]}}

Unexpired(a) == expired \ {a}

Touch(a) ==
  /\ older' = Forget(a) \cup ((Loaded \ {a}) \X {a})
  /\ expired' = Unexpired(a)

(* Unloading an agent crosses the reloads of it that are under way.        *)
Crossing(a) ==
  {task[t].ws : t \in {u \in Tasks : task[u].at = "restarting" /\ task[u].agent = a}}

Pop(a) ==
  /\ agents' = [agents EXCEPT ![a] = None]
  /\ older' = Forget(a)
  /\ expired' = Unexpired(a)
  /\ crossed' = crossed \cup Crossing(a)

(* A new workspace, with reusable services made by workspace s.            *)
Create(s) ==
  /\ made < MaxWorkspaces
  /\ made' = made + 1
  /\ services' = [services EXCEPT ![made + 1] = s]
-----------------------------------------------------------------------------
(* get_agent                                                               *)

GetLoaded(t, a) ==
  /\ task[t] = Idle /\ manager.phase = "up" /\ agents[a] # None
  /\ Touch(a)
  /\ Goes(t, At("using", a, agents[a], {}))
  /\ UNCHANGED <<agents, lockVars, workspaceVars, started, closed, drain, manager, cutVars>>

GetPending(t, a) ==
  /\ task[t] = Idle /\ manager.phase = "up" /\ ~locked
  /\ agents[a] = None /\ a \in pending
  /\ Goes(t, At("awaiting", a, None, {}))
  /\ UNCHANGED <<poolVars, lockVars, workspaceVars, started, closed, drain, manager, cutVars>>

GetFirst(t, a) ==
  /\ task[t] = Idle /\ manager.phase = "up" /\ ~locked
  /\ agents[a] = None /\ a \notin pending
  /\ pending' = pending \cup {a}
  /\ Goes(t, At("capacity", a, None, {}))
  /\ UNCHANGED <<poolVars, locked, workspaceVars, started, closed, drain, manager, cutVars>>

(* The event of the start is set.                                          *)
Woken(t) ==
  /\ task[t].at = "woken"
  /\ Goes(t, IF agents[task[t].agent] = None THEN Idle
             ELSE At("using", task[t].agent, agents[task[t].agent], {}))
  /\ UNCHANGED <<poolVars, lockVars, workspaceVars, started, closed, drain, manager, cutVars>>

(* The finally block of get_agent: the waiters are woken, and the caller   *)
(* goes on as given.  Variants: they are woken only if the agent is        *)
(* loaded; the start stays pending.                                        *)
WaitersIfLoaded(a) ==
  {u \in Tasks : task[u].at = "awaiting" /\ task[u].agent = a /\ agents[a] # None}

Waiters(a) == {u \in Tasks : task[u].at = "awaiting" /\ task[u].agent = a}

StillPending(a) == pending

NoLongerPending(a) == pending \ {a}

FinishGet(t, record) ==
  LET a == task[t].agent IN
  /\ pending' = NoLongerPending(a)
  /\ task' = [u \in Tasks |-> IF u = t THEN record
                              ELSE IF u \in Waiters(a) THEN [task[u] EXCEPT !.at = "woken"]
                              ELSE task[u]]

(* That block waits for the lock while a reload holds it.                  *)
EndsGet(t) ==
  IF locked THEN Goes(t, At("finishing", task[t].agent, None, {})) /\ UNCHANGED pending
  ELSE FinishGet(t, Idle)

Finish(t) ==
  /\ task[t].at = "finishing" /\ ~locked
  /\ FinishGet(t, Idle)
  /\ UNCHANGED <<poolVars, locked, workspaceVars, started, closed, drain, manager, cutVars>>
-----------------------------------------------------------------------------
(***************************************************************************)
(* _ensure_capacity_for, once the sweep of expired agents is over: create  *)
(* the workspace, unload the least recently used idle agent, or raise.     *)
(* The variant counts one agent too few.                                   *)
(***************************************************************************)
FitsOneMore == MaxActive = 0 \/ Cardinality(Loaded) <= MaxActive

Fits == MaxActive = 0 \/ Cardinality(Loaded) < MaxActive

Candidates(a) == {b \in Loaded \ {a} : ~Active(agents[b])}

EnsureCapacity(t) ==
  LET a == task[t].agent IN
  \/ /\ Fits
     /\ Create(made + 1)
     /\ Goes(t, At("starting", a, made + 1, {}))
     /\ UNCHANGED <<poolVars, crossed, pending>>
  \/ /\ ~Fits
     /\ \E victim \in Candidates(a) :
          /\ \A b \in Candidates(a) \ {victim} : <<victim, b>> \in older
          /\ Goes(t, At("evicting", a, agents[victim], {}))
          /\ Pop(victim)
     /\ UNCHANGED <<made, services, pending>>
  \/ /\ ~Fits /\ Candidates(a) = {}
     /\ FinishGet(t, Idle)
     /\ UNCHANGED <<poolVars, workspaceVars>>

(***************************************************************************)
(* cleanup_idle_agents, on its own or for a start.  The expired agents S   *)
(* and their workspaces are those of a snapshot; each is judged by the     *)
(* workspace of the snapshot, and unloaded by its id, when its turn comes. *)
(* That judgement is part of the step that gets the lock.                  *)
(***************************************************************************)
Snapshot == {[agent |-> a, ws |-> agents[a]] : a \in expired \cap Loaded}

Unloadable(p) == ~Active(p.ws) /\ agents[p.agent] # None

Sweep(t, S) ==
  \/ \E p \in S, rest \in SUBSET S :
       /\ Unloadable(p)
       /\ p \notin rest /\ \A q \in S \ rest : q = p \/ ~Unloadable(q)
       /\ Goes(t, At("evicting", task[t].agent, agents[p.agent], rest))
       /\ Pop(p.agent)
       /\ UNCHANGED <<made, services, pending>>
  \/ /\ \A p \in S : ~Unloadable(p)
     /\ IF task[t].agent # Nobody THEN EnsureCapacity(t)
        ELSE Goes(t, Idle) /\ UNCHANGED <<poolVars, workspaceVars, pending>>

CleanupIdle(t) ==
  /\ task[t] = Idle /\ manager.phase = "up" /\ ~locked
  /\ \E p \in Snapshot : Unloadable(p)
  /\ Sweep(t, Snapshot)
  /\ UNCHANGED <<locked, started, closed, drain, manager, cutVars>>

(* The workspace that the task unloads has stopped; the task goes on.      *)
Evicted(t) ==
  /\ task[t].at = "evicting" /\ ~locked
  /\ started' = started \ {task[t].ws}
  /\ closed' = closed \cup {services[task[t].ws]}
  /\ Sweep(t, task[t].todo)
  /\ UNCHANGED <<locked, drain, manager, cutVars>>

(* The task gets _start_capacity_lock.  The variant does not wait for it.  *)
LockFreeOrNot == TRUE

LockFree == \A u \in Tasks : ~HoldsCapacity(u)

AcquireCapacity(t) ==
  /\ task[t].at = "capacity" /\ ~locked /\ LockFree
  /\ Sweep(t, IF MaxActive = 0 THEN {} ELSE Snapshot)
  /\ UNCHANGED <<locked, started, closed, drain, manager, cutVars>>

StartSucceeds(t) ==
  LET a == task[t].agent
      w == task[t].ws
  IN /\ task[t].at = "starting" /\ ~locked
     /\ started' = started \cup {w}
     /\ agents' = [agents EXCEPT ![a] = w]
     /\ Touch(a)
     /\ FinishGet(t, At("using", a, w, {}))
     /\ UNCHANGED <<locked, workspaceVars, closed, drain, manager, cutVars>>

(* Workspace.start fails and stops itself without effect, or is cancelled: *)
(* _started is not yet set.                                                *)
StartFails(t) ==
  /\ task[t].at = "starting"
  /\ EndsGet(t)
  /\ UNCHANGED <<poolVars, locked, workspaceVars, started, closed, drain, manager, cutVars>>

(* The caller starts an agent run on the workspace it was given, which     *)
(* ends some time later, or makes no run.                                  *)
Leave(t) ==
  /\ task[t].at \in {"using", "running"}
  /\ Goes(t, Idle)
  /\ UNCHANGED <<poolVars, lockVars, workspaceVars, started, closed, drain, manager, cutVars>>

RunStarts(t) ==
  /\ task[t].at = "using"
  /\ Goes(t, [task[t] EXCEPT !.at = "running"])
  /\ UNCHANGED <<poolVars, lockVars, workspaceVars, started, closed, drain, manager, cutVars>>
-----------------------------------------------------------------------------
(* stop_agent (an agent is disabled or deleted, a backup restored), or     *)
(* unload_agent, which does the same if the agent has no active run.       *)
Unload(t, a) ==
  /\ task[t] = Idle /\ manager.phase = "up" /\ ~locked
  /\ agents[a] # None
  /\ Goes(t, At("evicting", Nobody, agents[a], {}))
  /\ Pop(a)
  /\ UNCHANGED <<made, services, lockVars, started, closed, drain, manager, cutVars>>

(* reload_agent: the old configuration watcher is being stopped.           *)
ReloadBegins(t, a) ==
  /\ task[t] = Idle /\ manager.phase = "up" /\ ~locked
  /\ agents[a] # None
  /\ Goes(t, At("reloading", a, None, {}))
  /\ UNCHANGED <<poolVars, lockVars, workspaceVars, started, closed, drain, manager, cutVars>>

(* The new workspace takes the reusable services of the one loaded now, if *)
(* any, and starts.                                                        *)
ReloadCreates(t) ==
  LET a == task[t].agent
      old == agents[a]
  IN /\ task[t].at = "reloading" /\ ~locked
     /\ Create(IF old = None THEN made + 1 ELSE services[old])
     /\ crossed' = IF old \in crossed THEN crossed \cup {made + 1} ELSE crossed
     /\ Goes(t, At("restarting", a, made + 1, {}))
     /\ UNCHANGED <<poolVars, lockVars, started, closed, drain, manager, cutVars>>

(* Likewise.                                                               *)
ReloadFails(t) ==
  /\ task[t].at = "restarting"
  /\ Goes(t, Idle)
  /\ UNCHANGED <<poolVars, lockVars, workspaceVars, started, closed, drain, manager, cutVars>>

(* The new workspace replaces the one loaded now.  That one is stopped at  *)
(* once if it is idle, else by a delayed cleanup; the variant forgets it   *)
(* then.                                                                   *)
DrainedNot(w) == drain

Drained(w) == [drain EXCEPT ![w] = "waiting"]

Swap(t) ==
  LET a == task[t].agent
      w == task[t].ws
      old == agents[a]
  IN /\ task[t].at = "restarting" /\ ~locked
     /\ old # None
     /\ started' = started \cup {w}
     /\ agents' = [agents EXCEPT ![a] = w]
     /\ Touch(a)
     /\ IF Active(old)
        THEN drain' = Drained(old) /\ Goes(t, Idle)
        ELSE drain' = drain /\ Goes(t, At("retiring", a, old, {}))
     /\ UNCHANGED <<lockVars, workspaceVars, closed, manager, cutVars>>

(* The agent was unloaded meanwhile: the new workspace is stopped under    *)
(* the manager's lock.                                                     *)
Discard(t) ==
  /\ task[t].at = "restarting" /\ ~locked
  /\ agents[task[t].agent] = None
  /\ started' = started \cup {task[t].ws}
  /\ locked' = TRUE
  /\ Goes(t, [task[t] EXCEPT !.at = "discarding"])
  /\ UNCHANGED <<poolVars, pending, workspaceVars, closed, drain, manager, cutVars>>

Discarded(t) ==
  /\ task[t].at = "discarding"
  /\ started' = started \ {task[t].ws}
  /\ closed' = closed \cup {services[task[t].ws]}
  /\ locked' = FALSE
  /\ Goes(t, Idle)
  /\ UNCHANGED <<poolVars, pending, workspaceVars, drain, manager, cutVars>>

(* A replaced workspace leaves its reusable services alone; in the variant *)
(* it stops them.                                                          *)
ClosedWith(w) == closed \cup {services[w]}

ClosedBy(w) == closed

Retired(t) ==
  /\ task[t].at = "retiring"
  /\ started' = started \ {task[t].ws}
  /\ closed' = ClosedBy(task[t].ws)
  /\ Goes(t, Idle)
  /\ UNCHANGED <<poolVars, lockVars, workspaceVars, drain, manager, cutVars>>

(* The delayed cleanup of w: its runs have ended, or 60 s have passed.     *)
DrainStops(w) ==
  /\ drain[w] = "waiting"
  /\ drain' = [drain EXCEPT ![w] = "stopping"]
  /\ UNCHANGED <<poolVars, lockVars, workspaceVars, task, started, closed, manager, cutVars>>

DrainEnds(w) ==
  /\ drain[w] = "stopping"
  /\ drain' = [drain EXCEPT ![w] = "no"]
  /\ started' = started \ {w}
  /\ closed' = ClosedBy(w)
  /\ UNCHANGED <<poolVars, lockVars, workspaceVars, task, manager, cutVars>>
-----------------------------------------------------------------------------
(***************************************************************************)
(* A call is cancelled where it waits.  A get that has become pending      *)
(* still runs its finally block, which can be cancelled in turn.           *)
(***************************************************************************)
CancelsWait(t) ==
  /\ \/ task[t].at \in {"awaiting", "woken", "reloading"} /\ Goes(t, Idle) /\ UNCHANGED pending
     \/ task[t].at = "capacity" /\ EndsGet(t)
  /\ UNCHANGED <<poolVars, locked, workspaceVars, started, closed, drain, manager, cutVars>>

MayCut == Cardinality(torn) + Cardinality(stuck) < MaxCuts

CancelsFinish(t) ==
  /\ task[t].at = "finishing" /\ locked /\ MayCut
  /\ stuck' = stuck \cup {task[t].agent}
  /\ Goes(t, Idle)
  /\ UNCHANGED <<poolVars, lockVars, workspaceVars, started, closed, drain, manager, torn>>

(* The workspace has started and waits for the lock to be registered.      *)
CancelsEntry(t) ==
  /\ task[t].at \in {"starting", "restarting"} /\ locked /\ MayCut
  /\ torn' = torn \cup {task[t].ws}
  /\ started' = started \cup {task[t].ws}
  /\ IF task[t].at = "starting" THEN EndsGet(t) ELSE Goes(t, Idle) /\ UNCHANGED pending
  /\ UNCHANGED <<poolVars, locked, workspaceVars, closed, drain, manager, stuck>>

(* Workspace.stop is cut short, before or after it has come to the         *)
(* reusable services.                                                      *)
LeavesStop(t) ==
  IF task[t].at = "evicting" /\ task[t].agent # Nobody THEN EndsGet(t)
  ELSE Goes(t, Idle) /\ UNCHANGED pending

CancelsStop(t) ==
  /\ task[t].at \in {"evicting", "discarding", "retiring"} /\ MayCut
  /\ torn' = torn \cup {task[t].ws}
  /\ \/ closed' = closed
     \/ task[t].at # "retiring" /\ closed' = closed \cup {services[task[t].ws]}
  /\ locked' = (locked /\ task[t].at # "discarding")
  /\ LeavesStop(t)
  /\ UNCHANGED <<poolVars, workspaceVars, started, drain, manager, stuck>>

(* The stop is over, but the task waits for the lock to go on.             *)
CancelsSweep(t) ==
  /\ task[t].at = "evicting" /\ locked
  /\ started' = started \ {task[t].ws}
  /\ closed' = closed \cup {services[task[t].ws]}
  /\ LeavesStop(t)
  /\ UNCHANGED <<poolVars, locked, workspaceVars, drain, manager, cutVars>>

Cancelled(t) ==
  CancelsWait(t) \/ CancelsFinish(t) \/ CancelsEntry(t) \/ CancelsStop(t) \/ CancelsSweep(t)
-----------------------------------------------------------------------------
(* Time passes: the last access of a loaded agent is too long ago.         *)
Expire(a) ==
  /\ agents[a] # None /\ a \notin expired
  /\ expired' = expired \cup {a}
  /\ UNCHANGED <<agents, older, lockVars, task, workspaceVars, started, closed,
                 drain, manager, cutVars>>

(***************************************************************************)
(* stop_all at shutdown: cancel the delayed cleanups, stop the loaded      *)
(* agents one by one, forget all.  No new call is made then, but those     *)
(* under way go on.                                                        *)
(***************************************************************************)
StopAllBegins ==
  /\ manager.phase = "up"
  /\ drain' = [w \in Workspaces |-> "no"]
  /\ manager' = [manager EXCEPT !.phase = "cancelling"]
  /\ UNCHANGED <<poolVars, lockVars, task, workspaceVars, started, closed, cutVars>>

StopNext(S) ==
  \/ /\ \A a \in S : agents[a] = None
     /\ manager' = [phase |-> "down", todo |-> {}, ws |-> None]
     /\ agents' = [a \in Agents |-> None]
     /\ older' = {}
     /\ expired' = {}
  \/ \E a \in S, rest \in SUBSET S :
       /\ agents[a] # None
       /\ a \notin rest /\ \A b \in S \ rest : b = a \/ agents[b] = None
       /\ manager' = [phase |-> "stopping", todo |-> rest, ws |-> agents[a]]
       /\ UNCHANGED poolVars

StopAllCancelled ==
  /\ manager.phase = "cancelling"
  /\ StopNext(Loaded)
  /\ UNCHANGED <<lockVars, task, workspaceVars, started, closed, drain, cutVars>>

StopAllStopped ==
  /\ manager.phase = "stopping"
  /\ started' = started \ {manager.ws}
  /\ closed' = closed \cup {services[manager.ws]}
  /\ StopNext(manager.todo)
  /\ UNCHANGED <<lockVars, task, workspaceVars, drain, cutVars>>
-----------------------------------------------------------------------------
Get(t, a) == GetLoaded(t, a) \/ GetPending(t, a) \/ GetFirst(t, a)

Begin(t) ==
  \/ CleanupIdle(t)
  \/ \E a \in Agents : Get(t, a) \/ Unload(t, a) \/ ReloadBegins(t, a)

StartEnds(t) == StartSucceeds(t) \/ StartFails(t)

(* Steps of a call that come by themselves once services start and stop.   *)
Proceed(t) ==
  \/ Woken(t) \/ Evicted(t) \/ StartEnds(t) \/ Finish(t)
  \/ ReloadCreates(t) \/ ReloadFails(t) \/ Swap(t) \/ Discard(t)
  \/ Discarded(t) \/ Retired(t)

Next ==
  \/ \E t \in Tasks :
       Begin(t) \/ AcquireCapacity(t) \/ Cancelled(t) \/ Proceed(t) \/ Leave(t) \/ RunStarts(t)
  \/ \E w \in Workspaces : DrainStops(w) \/ DrainEnds(w)
  \/ \E a \in Agents : Expire(a)
  \/ StopAllBegins \/ StopAllCancelled \/ StopAllStopped

Spec == Init /\ [][Next]_vars
-----------------------------------------------------------------------------
Places == {"idle", "using", "running", "awaiting", "woken", "capacity", "starting",
           "finishing", "evicting", "reloading", "restarting", "discarding", "retiring"}

TypeOK ==
  /\ agents \in [Agents -> 0..made]
  /\ older \subseteq Loaded \X Loaded
  /\ expired \subseteq Loaded
  /\ pending \subseteq Agents
  /\ locked \in BOOLEAN
  /\ task \in [Tasks -> [at : Places, agent : Agents \cup {Nobody}, ws : 0..made,
                        todo : SUBSET [agent : Agents, ws : 1..made]]]
  /\ made \in 0..MaxWorkspaces
  /\ services \in [Workspaces -> Workspaces]
  /\ started \subseteq 1..made
  /\ closed \subseteq 1..made
  /\ drain \in [Workspaces -> {"no", "waiting", "stopping"}]
  /\ crossed \subseteq 1..made
  /\ manager \in [phase : {"up", "cancelling", "stopping", "down"},
                  todo : SUBSET Agents, ws : 0..made]
  /\ torn \subseteq Workspaces
  /\ stuck \subseteq Agents

(* However starts, reloads and unloadings overlap, no more than            *)
(* max_active_agents agents are loaded.                                    *)
PoolBounded == MaxActive # 0 => Cardinality(Loaded) <= MaxActive

(* A started workspace is loaded, or somebody is about to stop it: none is *)
(* overwritten and left running with its channels and jobs, unless a call  *)
(* was cancelled in between.                                               *)
HeldBy(t) ==
  IF task[t].at \in {"evicting", "discarding", "retiring"} THEN {task[t].ws} ELSE {}

Accounted(w) ==
  \/ \E a \in Agents : agents[a] = w
  \/ drain[w] # "no"
  \/ \E t \in Tasks : w \in HeldBy(t)

NoOrphans == manager.phase = "up" => \A w \in started \ torn : Accounted(w)

(* The memory, context and chat services that a loaded workspace took over *)
(* in reloads are running, unless the agent was unloaded during one.       *)
ServicesOpen ==
  manager.phase = "up" =>
    \A a \in Agents : agents[a] # None /\ agents[a] \notin crossed
                      => services[agents[a]] \notin closed

(* "Unload loaded agents that exceeded the configured idle TTL"            *)
(* (cleanup_idle_agents): a sweep unloads no agent used since.             *)
SweepsOnlyExpired ==
  [][\A t \in Tasks, a \in Agents :
       /\ task[t].at = "evicting" /\ task[t].agent = Nobody
       /\ task'[t].at = "evicting" /\ task'[t] # task[t]
       /\ agents[a] # None /\ agents'[a] = None
       => a \in expired]_vars

(* An agent is pending exactly while one call starts it, and a call that   *)
(* waits for an agent to start waits for such a call: a failed or a        *)
(* finished start leaves nobody waiting and does not block the next one,   *)
(* unless its caller was cancelled in the finally block.                   *)
Starts(u, a) ==
  task[u].agent = a /\ (task[u].at \in {"capacity", "finishing"} \/ HoldsCapacity(u))

Started(a) == \E u \in Tasks : Starts(u, a)

WaitersHaveStarter ==
  \A t \in Tasks :
    task[t].at = "awaiting" => task[t].agent \in stuck \/ Started(task[t].agent)

PendingHasOneStarter ==
  \A a \in Agents :
    /\ a \in pending <=> a \in stuck \/ Started(a)
    /\ \A t, u \in Tasks : Starts(t, a) /\ Starts(u, a) => t = u /\ a \notin stuck

OneStarter == PendingHasOneStarter /\ WaitersHaveStarter

(* "Always clean up pending state and signal waiters. This handles         *)
(* cancellation (CancelledError) and all other cases." (the finally block  *)
(* of get_agent): an agent is pending only while a call starts it.         *)
CleansUp == \A a \in pending : Started(a)
=============================================================================
