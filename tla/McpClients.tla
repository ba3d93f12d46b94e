---------------------------- MODULE McpClients ----------------------------
(***************************************************************************)
(* The MCP clients of one workspace (app/mcp/manager.py, watcher.py,       *)
(* stateful_client.py, and the recovery in agents/react_agent.py).         *)
(*                                                                         *)
(* A manager holds one client per key of the configuration.  A watcher     *)
(* polls the configuration file and replaces, adds and removes clients in  *)
(* a reload task.  Every client has a lifecycle task that connects, waits  *)
(* to be told to reload or to stop, and tries again after errors.  Agents  *)
(* use the clients, and close and connect them again, or build their       *)
(* likeness, when a call breaks.  Shutdown stops the watcher and closes    *)
(* all clients.                                                            *)
(*                                                                         *)
(* A step is what runs between two awaits.  Client objects and lifecycles  *)
(* are pools: an object nobody can reach is used again.  Awaiting a        *)
(* lifecycle and being cancelled cancels the lifecycle, and everyone else  *)
(* who awaits it is told that he was cancelled.                            *)
(***************************************************************************)
EXTENDS Naturals, FiniteSets

CONSTANTS Keys,       \* keys of the MCP configuration
          Versions,   \* what an enabled client's configuration may be
          Off,        \* disabled, or not in the configuration
          Clients,    \* client objects
          Lives,      \* lifecycle tasks
          Agents,     \* agents that use the clients
          Worker,     \* init_from_config, then the watcher's reload task
          Closer,     \* close_all
          None,
          MaxEdits,   \* bound: how often the file is changed
          MaxBreaks   \* bound: how many calls break

ASSUME ConstantsAssumption ==
    /\ Off \notin Versions
    /\ None \notin Clients \cup Lives \cup Keys
    /\ Worker # Closer /\ {Worker, Closer} \cap Agents = {}
    /\ MaxEdits \in Nat /\ MaxBreaks \in Nat

VARIABLES
    \* the file
    config, edits,
    written,     \* its mtime is not the one the watcher saw last
    \* the watcher
    polling, seen,
    \* the manager
    clients, shut,
    remaining,   \* what close_all has still to close
    job,         \* what the worker does: kind, target, keys to do, key in hand
    \* client objects, their events, their lifecycles
    obj, events, life,
    proc,        \* where the worker, the closer and the agents are
    orig,        \* the shared client that an agent recovers
    breaks,      \* calls that have broken
    \* observation
    missed,      \* the last change was seen and will not be taken up
    astray,      \* keys whose last replacement failed or was cut off
    touched      \* clients that an agent has built or tried to recover

watcher == <<config, edits, written, polling, seen, missed>>
manager == <<clients, shut, remaining, job, astray>>
vars == <<watcher, manager, obj, events, life, proc, orig, breaks, touched>>

Procs == Agents \cup {Worker, Closer}
Configs == [Keys -> Versions \cup {Off}]

Idle == [at |-> "idle", x |-> None, wait |-> None, fate |-> "none"]
NoJob == [kind |-> "none", target |-> [k \in Keys |-> Off], todo |-> {}, key |-> None]
NoLife == [phase |-> "over", self |-> None]
Fresh(x, v) == [built |-> v, ev |-> x, task |-> None, connected |-> FALSE,
                oauth |-> FALSE]
Unset == [stop |-> FALSE, reload |-> FALSE]

TypeOK ==
    /\ config \in Configs /\ seen \in Configs
    /\ edits \in 0..MaxEdits
    /\ {written, polling, missed} \subseteq BOOLEAN
    /\ clients \in [Keys -> Clients \cup {None}]
    /\ shut \in {"no", "stopping", "closing", "over", "cut"}
    /\ remaining \in SUBSET Clients
    /\ job \in [kind : {"none", "init", "reload"}, target : Configs,
                todo : SUBSET Keys, key : Keys \cup {None}]
    /\ obj \in [Clients -> [built : Versions \cup {Off}, ev : Clients,
                            task : Lives \cup {None}, connected : BOOLEAN,
                            oauth : BOOLEAN]]
    /\ events \in [Clients -> [stop : BOOLEAN, reload : BOOLEAN]]
    /\ life \in [Lives -> [phase : {"over", "connecting", "up", "down", "dying"},
                           self : Clients \cup {None}]]
    /\ proc \in [Procs -> [at : {"idle", "next", "closing", "closed", "connecting",
                                 "givingUp", "using", "calling", "reconnect",
                                 "rebuild"},
                           x : Clients \cup {None},
                           wait : Lives \cup Clients
                                    \cup {None, "ready", "ended", "cancelled"},
                           fate : {"none", "late", "cancelled"}]]
    /\ orig \in [Agents -> Clients \cup {None}]
    /\ breaks \in 0..MaxBreaks
    /\ astray \in SUBSET Keys
    /\ touched \in SUBSET Clients

Init ==
    /\ config \in Configs /\ seen = [k \in Keys |-> Off]
    /\ edits = 0 /\ written = FALSE /\ polling = FALSE /\ missed = FALSE
    /\ clients = [k \in Keys |-> None]
    /\ shut = "no" /\ remaining = {}
    /\ job = [kind |-> "init", target |-> config, todo |-> Keys, key |-> None]
    /\ obj = [x \in Clients |-> Fresh(x, Off)]
    /\ events = [x \in Clients |-> Unset]
    /\ life = [l \in Lives |-> NoLife]
    /\ proc = [p \in Procs |-> IF p = Worker THEN [Idle EXCEPT !.at = "next"] ELSE Idle]
    /\ orig = [a \in Agents |-> None]
    /\ breaks = 0 /\ astray = {} /\ touched = {}

-----------------------------------------------------------------------------
(***************************************************************************)
(* The lifecycle task: _run_lifecycle                                      *)
(***************************************************************************)

Alive(l) == life[l].phase # "over"
Events(x) == events[obj[x].ev]

Phase(l, ph) == life' = [life EXCEPT ![l].phase = ph]

\* Who waits for the connection of x, on the event it had then.
ReadyProcs(x) ==
    [p \in Procs |-> IF proc[p].at = "connecting" /\ proc[p].wait = obj[x].ev
                     THEN [proc[p] EXCEPT !.wait = "ready"] ELSE proc[p]]

\* A lifecycle is over: whoever awaits it goes on, and a reference to it is
\* as good as none.
Ends(l) == life' = [life EXCEPT ![l] = NoLife]

Unreferenced(l, o) ==
    [x \in Clients |-> IF o[x].task = l THEN [o[x] EXCEPT !.task = None] ELSE o[x]]

Told(l, how, ps) ==
    [p \in Procs |-> IF ps[p].wait = l THEN [ps[p] EXCEPT !.wait = how] ELSE ps[p]]

\* The head of the outer loop, reached when the connection has been taken down,
\* or after the second of sleep that follows an error.
LifeGoesOn(l) ==
    /\ life[l].phase = "down"
    /\ IF Events(life[l].self).stop
       THEN /\ Ends(l)
            /\ obj' = Unreferenced(l, obj)
            /\ proc' = Told(l, "ended", proc)
       ELSE Phase(l, "connecting") /\ UNCHANGED <<obj, proc>>
    /\ UNCHANGED <<watcher, manager, events, orig, breaks, touched>>

\* The connection stands; it is taken down at once when the client has been
\* told to stop or to reload meanwhile.
LifeConnects(l) ==
    LET x == life[l].self
        told == Events(x).stop \/ Events(x).reload
    IN  /\ life[l].phase = "connecting"
        /\ proc' = ReadyProcs(x)
        /\ Phase(l, IF told THEN "down" ELSE "up")
        /\ obj' = [obj EXCEPT ![x].connected = ~told]
        /\ events' = [events EXCEPT ![obj[x].ev].reload = FALSE]
        /\ UNCHANGED <<watcher, manager, orig, breaks, touched>>

LifeLeaves(l) ==
    LET x == life[l].self
    IN  /\ life[l].phase = "up"
        /\ Events(x).stop \/ Events(x).reload
        /\ Phase(l, "down")
        /\ obj' = [obj EXCEPT ![x].connected = FALSE]
        /\ events' = [events EXCEPT ![obj[x].ev].reload = FALSE]
        /\ UNCHANGED <<watcher, manager, proc, orig, breaks, touched>>

\* Any error but a 401.
LifeFails(l) ==
    /\ life[l].phase \in {"connecting", "up"}
    /\ Phase(l, "down")
    /\ obj' = [obj EXCEPT ![life[l].self].connected = FALSE]
    /\ UNCHANGED <<watcher, manager, events, proc, orig, breaks, touched>>

\* A 401: the client asks for authorization and stops.  A connection that stood
\* is gone, and the client still says that it has it.
LifeUnauthorized(l) ==
    LET x == life[l].self
    IN  /\ life[l].phase \in {"connecting", "up"}
        /\ Ends(l)
        /\ obj' = [Unreferenced(l, obj) EXCEPT ![x].oauth = TRUE]
        /\ events' = [events EXCEPT ![obj[x].ev].stop = TRUE]
        /\ proc' = Told(l, "ended", ReadyProcs(x))
        /\ UNCHANGED <<watcher, manager, orig, breaks, touched>>

\* A cancelled lifecycle has taken its connection down.
LifeDies(l) ==
    /\ life[l].phase = "dying"
    /\ Ends(l)
    /\ obj' = Unreferenced(l, obj)
    /\ proc' = Told(l, "cancelled", proc)
    /\ UNCHANGED <<watcher, manager, events, orig, breaks, touched>>

(***************************************************************************)
(* connect() and close()                                                   *)
(***************************************************************************)

Goto(p, rec) == proc' = [proc EXCEPT ![p] = rec]
At(place, x, wait) == [at |-> place, x |-> x, wait |-> wait, fate |-> "none"]

Awaits(p) == proc[p].wait \in Lives
Over(p) == proc[p].wait \in {"ended", "cancelled"}

FreeClients ==
    {y \in Clients :
        /\ \A k \in Keys : clients[k] # y
        /\ \A l \in Lives : life[l].self # y
        /\ \A p \in Procs : proc[p].x # y
        /\ \A a \in Agents : orig[a] # y
        /\ y \notin remaining
        /\ \A z \in Clients \ {y} : obj[z].ev # y}
FreeLives == {l \in Lives : ~Alive(l)}

\* connect() up to its await, for a client that has no connection and no task:
\* c is the client as it was.
Connects(p, x, c) ==
    /\ FreeLives # {}
    /\ LET l == CHOOSE l \in FreeLives : TRUE
       IN  /\ life' = [life EXCEPT ![l] = [phase |-> "connecting", self |-> x]]
           /\ obj' = [obj EXCEPT ![x] = [c EXCEPT !.task = l, !.oauth = FALSE]]
    /\ Goto(p, At("connecting", x, c.ev))

\* A client built from a configuration, and its connection.
ConnectsNew(p, v) ==
    /\ FreeClients # {}
    /\ LET y == CHOOSE y \in FreeClients : TRUE
       IN  /\ Connects(p, y, Fresh(y, v))
           /\ events' = [events EXCEPT ![y] = Unset]
           /\ touched' = IF p = Worker THEN touched \ {y} ELSE touched \cup {y}

\* 30 seconds have passed: the lifecycle is told to stop, and awaited.
TimesOut(p) ==
    LET x == proc[p].x
    IN  /\ proc[p].at = "connecting" /\ proc[p].wait # "ready"
        /\ events' = [events EXCEPT ![obj[x].ev].stop = TRUE]
        /\ Goto(p, At("givingUp", x, IF obj[x].task = None THEN "ended" ELSE obj[x].task))
        /\ UNCHANGED <<watcher, manager, obj, life, orig, breaks, touched>>

\* Another 30 seconds: the lifecycle is cancelled.
WaitsTooLong(p) ==
    /\ proc[p].at = "givingUp" /\ Awaits(p) /\ proc[p].fate = "none"
    /\ Goto(p, [proc[p] EXCEPT !.fate = "late"])
    /\ Phase(proc[p].wait, "dying")
    /\ UNCHANGED <<watcher, manager, obj, events, orig, breaks, touched>>

\* Connected, or not; a wait that somebody else's cancellation ended is neither.
Connected(p) == proc[p].wait = "ready" /\ ~obj[proc[p].x].oauth
Refused(p) ==
    \/ proc[p].wait = "ready" /\ obj[proc[p].x].oauth
    \/ proc[p].at = "givingUp" /\ (proc[p].wait = "ended" \/ proc[p].fate = "late") /\ Over(p)
       /\ proc[p].fate # "cancelled"

\* Mutant: a client that is still connecting is left alone.
NeedsCloseConnected(c) == c.connected

\* close(): a client that is connected or has a task is stopped.
NeedsClose(c) == c.connected \/ c.task # None

Closing(x, c) ==
    IF NeedsClose(c)
    THEN At("closing", x, IF c.task = None THEN "ended" ELSE c.task)
    ELSE At("closed", x, "ended")
Stopped(x, c, ev) ==
    IF NeedsClose(c) THEN [ev EXCEPT ![c.ev].stop = TRUE] ELSE ev

Closes(p, x) ==
    /\ Goto(p, Closing(x, obj[x]))
    /\ events' = Stopped(x, obj[x], events)

\* The end of close(): the reference to the task is dropped, whatever it
\* refers to by now.
Closed(p) ==
    /\ proc[p].at \in {"closing", "closed"} /\ proc[p].wait = "ended"
    /\ proc[p].fate = "none"
Dropped(p) ==
    obj' = IF proc[p].at = "closing" THEN [obj EXCEPT ![proc[p].x].task = None] ELSE obj

\* The process was cancelled, or what it awaited was.
CancelledIn(p) ==
    /\ proc[p].at \in {"closing", "givingUp"} /\ Over(p)
    /\ \/ proc[p].fate = "cancelled"
       \/ proc[p].wait = "cancelled" /\ proc[p].fate = "none"

(***************************************************************************)
(* The worker: init_from_config and the reload task                        *)
(***************************************************************************)

\* replace_client, or _add_client.
WorkerConnects(k) ==
    /\ proc[Worker].at = "next" /\ k \in job.todo /\ job.target[k] # Off
    /\ ConnectsNew(Worker, job.target[k])
    /\ job' = [job EXCEPT !.todo = @ \ {k}, !.key = k]
    /\ UNCHANGED <<watcher, clients, shut, remaining, astray, orig, breaks>>

WorkerConnected ==
    LET k == job.key
        old == clients[k]
    IN  /\ proc[Worker].at = "connecting" /\ Connected(Worker)
        /\ clients' = [clients EXCEPT ![k] = proc[Worker].x]
        /\ astray' = astray \ {k}
        /\ IF old = None THEN Goto(Worker, At("next", None, None)) /\ UNCHANGED events
                         ELSE Closes(Worker, old)
        /\ UNCHANGED <<watcher, shut, remaining, job, obj, life, orig, breaks, touched>>

\* The failure is counted and swallowed.
WorkerFails ==
    /\ proc[Worker].at \in {"connecting", "givingUp"} /\ Refused(Worker)
    /\ astray' = astray \cup {job.key}
    /\ Goto(Worker, At("next", None, None))
    /\ UNCHANGED <<watcher, clients, shut, remaining, job, obj, events, life,
                   orig, breaks, touched>>

\* remove_client.
WorkerRemoves(k) ==
    /\ proc[Worker].at = "next" /\ k \in job.todo /\ job.target[k] = Off
    /\ job' = [job EXCEPT !.todo = @ \ {k}, !.key = k]
    /\ clients' = [clients EXCEPT ![k] = None]
    /\ astray' = astray \ {k}
    /\ IF clients[k] = None THEN UNCHANGED <<proc, events>> ELSE Closes(Worker, clients[k])
    /\ UNCHANGED <<watcher, shut, remaining, obj, life, orig, breaks, touched>>

WorkerClosed ==
    /\ Closed(Worker) /\ Dropped(Worker)
    /\ Goto(Worker, At("next", None, None))
    /\ UNCHANGED <<watcher, manager, events, life, orig, breaks, touched>>

\* Mutant: the snapshot is what the file says when the reload ends.
WorkerEndsLate ==
    /\ proc[Worker].at = "next" /\ job.todo = {}
    /\ job' = NoJob
    /\ Goto(Worker, Idle)
    /\ seen' = config
    /\ IF job.kind = "init"
       THEN /\ polling' = TRUE /\ written' = FALSE
            /\ astray' = astray \cup {k \in Keys : config[k] # job.target[k]}
       ELSE UNCHANGED <<polling, written, astray>>
    /\ UNCHANGED <<config, edits, missed, clients, shut, remaining, obj, events,
                   life, orig, breaks, touched>>

\* Everything is done: the snapshot is taken; after init_from_config it is the
\* watcher that starts, with what the file says by now.
WorkerEnds ==
    /\ proc[Worker].at = "next" /\ job.todo = {}
    /\ job' = NoJob
    /\ Goto(Worker, Idle)
    /\ IF job.kind = "init"
       THEN /\ polling' = TRUE /\ written' = FALSE /\ seen' = config
            /\ astray' = astray \cup {k \in Keys : config[k] # job.target[k]}
       ELSE seen' = job.target /\ UNCHANGED <<polling, written, astray>>
    /\ UNCHANGED <<config, edits, missed, clients, shut, remaining, obj, events,
                   life, orig, breaks, touched>>

\* A reload that is cancelled: no snapshot, and the rest is not done.
WorkerDies ==
    /\ CancelledIn(Worker)
    /\ IF proc[Worker].at = "closing" THEN Dropped(Worker) ELSE UNCHANGED obj
    /\ job' = NoJob
    /\ Goto(Worker, Idle)
    /\ missed' = TRUE
    /\ astray' = astray \cup {k \in Keys : job.target[k] # seen[k]}
    /\ UNCHANGED <<config, edits, written, polling, seen, clients, shut, remaining,
                   events, life, orig, breaks, touched>>

(***************************************************************************)
(* The watcher                                                             *)
(***************************************************************************)

Edit ==
    /\ edits < MaxEdits
    /\ edits' = edits + 1
    /\ \E c \in Configs \ {config} : config' = c
    /\ written' = TRUE
    /\ UNCHANGED <<polling, seen, missed, manager, obj, events, life, proc, orig,
                   breaks, touched>>

\* _check, when the file has another mtime: what it says is compared with the
\* snapshot, and a reload begins unless one is running.
Check ==
    /\ polling /\ written
    /\ written' = FALSE
    /\ IF config # seen /\ proc[Worker].at = "idle"
       THEN /\ job' = [kind |-> "reload", target |-> config, key |-> None,
                       todo |-> {k \in Keys : config[k] # seen[k]}]
            /\ Goto(Worker, At("next", None, None))
       ELSE UNCHANGED <<job, proc>>
    /\ missed' = (proc[Worker].at # "idle" /\ config # job.target)
    /\ UNCHANGED <<config, edits, polling, seen, clients, shut, remaining, astray,
                   obj, events, life, orig, breaks, touched>>

\* The file cannot be read.
CheckFails ==
    /\ polling /\ written
    /\ written' = FALSE /\ missed' = TRUE
    /\ UNCHANGED <<config, edits, polling, seen, manager, obj, events, life, proc,
                   orig, breaks, touched>>

(***************************************************************************)
(* Shutdown: the watcher's stop(), then close_all()                        *)
(***************************************************************************)

Stop ==
    /\ shut = "no" /\ polling
    /\ polling' = FALSE /\ shut' = "stopping"
    /\ UNCHANGED <<config, edits, written, seen, missed, clients, remaining, job,
                   astray, obj, events, life, proc, orig, breaks, touched>>

\* 5 seconds later the reload task is cancelled, and awaited.  In connect() it
\* closes the new client first; else the lifecycle it awaits is cancelled too.
StopCancelsWorker ==
    LET w == proc[Worker]
    IN  /\ shut = "stopping" /\ w.fate # "cancelled"
        /\ \/ /\ w.at = "connecting" /\ w.wait # "ready"
              /\ Goto(Worker, [Closing(w.x, obj[w.x]) EXCEPT !.fate = "cancelled"])
              /\ events' = Stopped(w.x, obj[w.x], events)
              /\ UNCHANGED life
           \/ /\ w.at \in {"givingUp", "closing"} /\ Awaits(Worker)
              /\ Goto(Worker, [w EXCEPT !.fate = "cancelled"])
              /\ Phase(w.wait, "dying")
              /\ UNCHANGED events
        /\ UNCHANGED <<watcher, manager, obj, orig, breaks, touched>>

CloseAll ==
    /\ shut = "stopping" /\ proc[Worker].at = "idle"
    /\ shut' = "closing"
    /\ remaining' = {clients[k] : k \in Keys} \ {None}
    /\ clients' = [k \in Keys |-> None]
    /\ UNCHANGED <<watcher, job, astray, obj, events, life, proc, orig, breaks, touched>>

CloserCloses(x) ==
    /\ proc[Closer].at = "idle" /\ x \in remaining
    /\ remaining' = remaining \ {x}
    /\ Closes(Closer, x)
    /\ UNCHANGED <<watcher, clients, shut, job, astray, obj, life, orig, breaks, touched>>

CloserClosed ==
    /\ Closed(Closer) /\ Dropped(Closer)
    /\ Goto(Closer, Idle)
    /\ UNCHANGED <<watcher, manager, events, life, orig, breaks, touched>>

\* Somebody else cancelled the lifecycle that close_all awaits: it is cut short
\* there, and the rest of the clients is forgotten.
CloserDies ==
    /\ CancelledIn(Closer) /\ Dropped(Closer)
    /\ Goto(Closer, Idle)
    /\ shut' = "cut" /\ remaining' = {}
    /\ UNCHANGED <<watcher, clients, job, astray, events, life, orig, breaks, touched>>

CloseAllEnds ==
    /\ shut = "closing" /\ remaining = {} /\ proc[Closer].at = "idle"
    /\ shut' = "over"
    /\ UNCHANGED <<watcher, clients, remaining, job, astray, obj, events, life, proc,
                   orig, breaks, touched>>

(***************************************************************************)
(* Agents                                                                  *)
(***************************************************************************)

\* A call of a registered client, which passes _validate_connection.
Use(a, k) ==
    /\ proc[a].at = "idle" /\ clients[k] # None /\ obj[clients[k]].connected
    /\ Goto(a, At("using", clients[k], None))
    /\ UNCHANGED <<watcher, manager, obj, events, life, orig, breaks, touched>>

UseEnds(a) ==
    /\ proc[a].at \in {"using", "calling"}
    /\ Goto(a, Idle)
    /\ UNCHANGED <<watcher, manager, obj, events, life, orig, breaks, touched>>

\* Mutant: the lifecycle is not told.
NotReloading(c, ev) == ev

\* _handle_transport_error, on a client and on its events.
Broken(c) == [c EXCEPT !.connected = FALSE]
Reloading(c, ev) == IF ev[c.ev].stop THEN ev ELSE [ev EXCEPT ![c.ev].reload = TRUE]

CallBreaks(a) ==
    LET x == proc[a].x
    IN  /\ proc[a].at \in {"using", "calling"}
        /\ obj' = [obj EXCEPT ![x] = Broken(@)]
        /\ events' = Reloading(obj[x], events)
        /\ Goto(a, Idle)
        /\ breaks < MaxBreaks /\ breaks' = breaks + 1
        /\ UNCHANGED <<watcher, manager, life, orig, touched>>

\* list_tools breaks while the agent registers the client: with a transport
\* error, or with a cancellation that is not the agent's own.  The agent
\* recovers the client, and closes it first.
ListBreaks(a) ==
    LET x == proc[a].x
    IN  /\ proc[a].at = "using"
        /\ orig' = [orig EXCEPT ![a] = x]
        /\ touched' = touched \cup {x}
        /\ \/ /\ obj' = [obj EXCEPT ![x] = Broken(@)]
              /\ Goto(a, Closing(x, Broken(obj[x])))
              /\ events' = Stopped(x, Broken(obj[x]), Reloading(obj[x], events))
           \/ Closes(a, x) /\ UNCHANGED obj
        /\ breaks < MaxBreaks /\ breaks' = breaks + 1
        /\ UNCHANGED <<watcher, manager, life>>

AgentClosed(a) ==
    /\ Closed(a) /\ Dropped(a)
    /\ Goto(a, At("reconnect", orig[a], None))
    /\ UNCHANGED <<watcher, manager, events, life, orig, breaks, touched>>

\* connect() of the client itself, refused when it is connected or has a task.
AgentReconnects(a) ==
    LET x == orig[a]
    IN  /\ proc[a].at = "reconnect"
        /\ IF NeedsClose(obj[x])
           THEN /\ Goto(a, At("rebuild", None, None))
                /\ UNCHANGED <<obj, events, life>>
           ELSE /\ Connects(a, x, obj[x])
                /\ events' = [events EXCEPT ![obj[x].ev].stop = FALSE]
        /\ UNCHANGED <<watcher, manager, orig, breaks, touched>>

\* _rebuild_mcp_client and its connection.
AgentRebuilds(a) ==
    /\ proc[a].at = "rebuild"
    /\ ConnectsNew(a, obj[orig[a]].built)
    /\ UNCHANGED <<watcher, manager, orig, breaks>>

\* The client is connected; the state of a rebuilt one becomes that of the
\* client everyone shares (_reuse_shared_client_reference), events and task
\* included.  The rebuilt client's lifecycle goes on with the rebuilt client.
AgentConnected(a) ==
    LET x == proc[a].x
    IN  /\ proc[a].at = "connecting" /\ Connected(a)
        /\ obj' = [obj EXCEPT ![orig[a]] = obj[x]]
        /\ Goto(a, At("calling", orig[a], None))
        /\ orig' = [orig EXCEPT ![a] = None]
        /\ UNCHANGED <<watcher, manager, events, life, breaks, touched>>

AgentRefused(a) ==
    /\ proc[a].at \in {"connecting", "givingUp"} /\ Refused(a)
    /\ IF proc[a].x = orig[a]
       THEN Goto(a, At("rebuild", None, None)) /\ UNCHANGED orig
       ELSE Goto(a, Idle) /\ orig' = [orig EXCEPT ![a] = None]
    /\ UNCHANGED <<watcher, manager, obj, events, life, breaks, touched>>

\* The agent's run is cancelled.  In connect() nothing is cleaned up; elsewhere
\* the lifecycle it awaits is cancelled with it.
CancelAgent(a) ==
    /\ \/ /\ proc[a].at = "connecting" /\ proc[a].wait # "ready"
          /\ Goto(a, Idle) /\ orig' = [orig EXCEPT ![a] = None]
          /\ UNCHANGED life
       \/ /\ Awaits(a) /\ proc[a].fate # "cancelled"
          /\ Goto(a, [proc[a] EXCEPT !.fate = "cancelled"])
          /\ Phase(proc[a].wait, "dying")
          /\ UNCHANGED orig
    /\ UNCHANGED <<watcher, manager, obj, events, breaks, touched>>

AgentDies(a) ==
    /\ CancelledIn(a)
    /\ IF proc[a].at = "closing" THEN Dropped(a) ELSE UNCHANGED obj
    /\ Goto(a, Idle) /\ orig' = [orig EXCEPT ![a] = None]
    /\ UNCHANGED <<watcher, manager, events, life, breaks, touched>>

Next ==
    \/ \E l \in Lives :
          \/ LifeGoesOn(l) \/ LifeConnects(l) \/ LifeLeaves(l) \/ LifeFails(l)
          \/ LifeUnauthorized(l) \/ LifeDies(l)
    \/ \E p \in Procs : TimesOut(p) \/ WaitsTooLong(p)
    \/ \E k \in Keys : WorkerConnects(k) \/ WorkerRemoves(k)
    \/ WorkerConnected \/ WorkerFails \/ WorkerClosed \/ WorkerEnds \/ WorkerDies
    \/ Edit \/ Check \/ CheckFails
    \/ Stop \/ StopCancelsWorker \/ CloseAll
    \/ \E x \in Clients : CloserCloses(x)
    \/ CloserClosed \/ CloserDies \/ CloseAllEnds
    \/ \E a \in Agents :
          \/ \E k \in Keys : Use(a, k)
          \/ UseEnds(a) \/ CallBreaks(a) \/ ListBreaks(a) \/ AgentClosed(a)
          \/ AgentReconnects(a) \/ AgentRebuilds(a) \/ AgentConnected(a)
          \/ AgentRefused(a) \/ CancelAgent(a) \/ AgentDies(a)

Spec == Init /\ [][Next]_vars

\* The event loop runs what can run; an attempt to connect ends, and a server
\* that is asked again and again answers at last.
Fairness ==
    /\ \A l \in Lives :
          /\ WF_vars(LifeGoesOn(l)) /\ WF_vars(LifeLeaves(l)) /\ WF_vars(LifeDies(l))
          /\ WF_vars(life[l].phase = "connecting"
                      /\ (LifeConnects(l) \/ LifeFails(l) \/ LifeUnauthorized(l)))
          /\ SF_vars(LifeConnects(l))
    /\ WF_vars(\E k \in Keys : WorkerConnects(k) \/ WorkerRemoves(k))
    /\ WF_vars(WorkerConnected) /\ WF_vars(WorkerFails) /\ WF_vars(WorkerClosed)
    /\ WF_vars(WorkerEnds) /\ WF_vars(WorkerDies) /\ WF_vars(TimesOut(Worker))

FairSpec == Spec /\ Fairness

-----------------------------------------------------------------------------
(***************************************************************************)
(* Properties                                                              *)
(***************************************************************************)

Going(l) == life[l].phase \in {"connecting", "up", "down"}

Handled(x) ==
    \/ x \in {clients[k] : k \in Keys} \cup remaining
    \/ x \in {proc[Worker].x, proc[Closer].x}

\* A connection that lives is that of a registered client, or of one that the
\* reload or close_all has in hand, or it has been told to stop: failed and
\* cancelled replacements, removals and a shutdown beside them leave no
\* subprocess behind.  Clients that agents recover are another matter, and so
\* is a close_all that was cut short.
NoLeakedClient ==
    \A l \in Lives :
        Going(l) /\ life[l].self \notin touched /\ shut # "cut"
            => Handled(life[l].self) \/ Events(life[l].self).stop

\* When nothing is under way, the manager has for every key the client that
\* the file asks for.  It need not where the last change was not taken up: it
\* came during a reload, the file could not be read, or the reload was cut off;
\* nor for a key that changed between init_from_config and the watcher's start,
\* or whose client could not connect.
FollowsConfig ==
    polling /\ ~written /\ ~missed /\ job.kind = "none"
        => /\ seen = config
           /\ \A k \in Keys \ astray :
                 IF config[k] = Off THEN clients[k] = None
                 ELSE clients[k] # None /\ obj[clients[k]].built = config[k]

\* A registered client without a connection that neither needs authorization
\* nor was touched by the recovery of an agent, which may leave it closed.
Lost(k) ==
    LET x == clients[k]
    IN  x # None /\ ~obj[x].connected /\ ~obj[x].oauth /\ x \notin touched

\* A registered client whose connection is lost gets another one, whenever the
\* loss is noticed and by whomever, or it is replaced or removed.
RegisteredRecovers == \A k \in Keys : Lost(k) ~> ~Lost(k)

\* What the docstring of close_all says ("Close all MCP clients."): after it no
\* client has a connection that nobody has told to stop.
AllClosed ==
    shut \in {"over", "cut"} =>
        \A l \in Lives : Going(l) => Events(life[l].self).stop
=============================================================================
