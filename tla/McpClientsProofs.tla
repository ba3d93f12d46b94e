-------------------------- MODULE McpClientsProofs --------------------------
(***************************************************************************)
(* Proofs about McpClients, for any set of keys, configurations, client    *)
(* objects, lifecycles and agents, and any number of changes and breaks.   *)
(***************************************************************************)
EXTENDS McpClients, TLAPS

(* Whoever stands there has a client in hand, or has one to recover.       *)
Connecting == {"connecting", "givingUp"}
InClose    == {"closing", "closed"}
Recovering == Connecting \cup InClose \cup {"reconnect", "rebuild"}

PlacesInv ==
  /\ \A l \in Lives : Going(l) => life[l].self \in Clients
  /\ \A p \in Procs :
        proc[p].at \in Connecting \cup InClose \cup {"using", "calling"} => proc[p].x \in Clients
  /\ proc[Worker].at \in {"idle", "next"} \cup Connecting \cup InClose
  /\ proc[Closer].at \in {"idle"} \cup InClose
  /\ proc[Worker].at \in {"idle", "next"} => proc[Worker].x = None
  /\ proc[Closer].at = "idle" => proc[Closer].x = None
  /\ \A a \in Agents : proc[a].at # "next"
  /\ \A a \in Agents : proc[a].at \in Recovering => orig[a] \in Clients

(* Only clients that agents have touched share their events; agents close, *)
(* connect and overwrite no others.                                        *)
TouchedInv ==
  /\ \A x \in Clients : IF x \in touched THEN obj[x].ev \in touched ELSE obj[x].ev = x
  /\ \A a \in Agents : orig[a] \in Clients => orig[a] \in touched
  /\ \A a \in Agents : proc[a].at \in Connecting \cup InClose => proc[a].x \in touched

(* The lifecycle of an untouched client is the one that the client refers  *)
(* to, or has been told to stop; also when the client is being closed.     *)
HasBeenTold(l) == events[life[l].self].stop
OwnLife(l) == Going(l) /\ life[l].self \notin touched

StopInv ==
  /\ \A l \in Lives : OwnLife(l) => obj[life[l].self].task = l \/ HasBeenTold(l)
  /\ \A x \in Clients \ touched : obj[x].oauth => events[x].stop
  /\ \A p \in {Worker, Closer}, l \in Lives :
        proc[p].at \in InClose \cup {"givingUp"} /\ OwnLife(l) /\ life[l].self = proc[p].x => HasBeenTold(l)
  /\ shut \in {"no", "stopping"} => remaining = {}

(* What the manager has for a key while a reload is under way.             *)
Has(k, v) == IF v = Off THEN clients[k] = None
             ELSE clients[k] # None /\ obj[clients[k]].built = v

Pending(k) == \/ job.kind = "none" \/ k \in job.todo
              \/ k = job.key /\ proc[Worker].at \in Connecting

ReloadInv ==
  /\ proc[Worker].at = "idle" <=> job.kind = "none"
  /\ job.key \notin job.todo
  /\ proc[Worker].at \in Connecting =>
        /\ job.key \in Keys /\ job.target[job.key] # Off
        /\ obj[proc[Worker].x].built = job.target[job.key]
  /\ \A a \in Agents : proc[a].at \in Connecting => obj[proc[a].x].built = obj[orig[a]].built
  /\ polling => shut = "no"
  /\ job.kind = "init" => ~polling
  /\ job.kind = "init" => shut = "no"
  /\ proc[Closer].at # "idle" => shut # "no"

ConfigInv ==
  /\ polling /\ ~written /\ ~missed => IF job.kind = "none" THEN seen = config
                                                            ELSE job.target = config
  /\ polling \/ job.kind = "init" =>
        \A k \in Keys \ astray : Has(k, IF Pending(k) THEN seen[k] ELSE job.target[k])

IInv == TypeOK /\ PlacesInv /\ TouchedInv /\ StopInv /\ NoLeakedClient /\ ReloadInv /\ ConfigInv
-----------------------------------------------------------------------------
(***************************************************************************)
(* How a step changes the lifecycles, the objects and the places           *)
(***************************************************************************)

Phases    == {"over", "connecting", "up", "down", "dying"}
Ats       == {"idle", "next", "closing", "closed", "connecting", "givingUp", "using",
              "calling", "reconnect", "rebuild"}
Waits     == Lives \cup Clients \cup {None, "ready", "ended", "cancelled"}
Lifecycle == [phase : Phases, self : Clients \cup {None}]
Object    == [built : Versions \cup {Off}, ev : Clients, task : Lives \cup {None},
              connected : BOOLEAN, oauth : BOOLEAN]
Event     == [stop : BOOLEAN, reload : BOOLEAN]
Place     == [at : Ats, x : Clients \cup {None}, wait : Waits,
              fate : {"none", "late", "cancelled"}]

LEMMA Types ==
  ASSUME TypeOK
  PROVE  /\ life \in [Lives -> Lifecycle]
         /\ obj \in [Clients -> Object]
         /\ events \in [Clients -> Event]
         /\ proc \in [Procs -> Place]
         /\ orig \in [Agents -> Clients \cup {None}]
         /\ clients \in [Keys -> Clients \cup {None}]
         /\ \A p \in Agents \cup {Worker, Closer} : p \in Procs
BY DEF TypeOK, Lifecycle, Phases, Object, Event, Place, Ats, Waits, Procs

LEMMA PhaseChange ==
  ASSUME TypeOK, NEW l \in Lives, NEW ph \in Phases, Phase(l, ph)
  PROVE  /\ life' \in [Lives -> Lifecycle]
         /\ \A m \in Lives : life'[m].self = life[m].self
         /\ \A m \in Lives \ {l} : life'[m].phase = life[m].phase
         /\ life'[l].phase = ph
<1> DEFINE e == [life[l] EXCEPT !.phase = ph]
<1>1. life' = [life EXCEPT ![l] = e]
  BY DEF Phase
<1>2. life \in [Lives -> Lifecycle] /\ e \in Lifecycle /\ e.self = life[l].self /\ e.phase = ph
  BY Types DEF Lifecycle
<1> HIDE DEF e
<1> QED
  BY <1>1, <1>2

LEMMA EndsChange ==
  ASSUME TypeOK, NEW l \in Lives, Ends(l)
  PROVE  /\ life' \in [Lives -> Lifecycle]
         /\ \A m \in Lives \ {l} : life'[m] = life[m]
         /\ life'[l].phase = "over"
BY Types DEF Ends, NoLife, Lifecycle, Phases

LEMMA UnreferencedChange ==
  ASSUME TypeOK, NEW l \in Lives
  PROVE  /\ Unreferenced(l, obj) \in [Clients -> Object]
         /\ \A x \in Clients :
               /\ Unreferenced(l, obj)[x].built = obj[x].built
               /\ Unreferenced(l, obj)[x].ev = obj[x].ev
               /\ Unreferenced(l, obj)[x].oauth = obj[x].oauth
               /\ Unreferenced(l, obj)[x].task = (IF obj[x].task = l THEN None ELSE obj[x].task)
<1> SUFFICES ASSUME NEW x \in Clients
             PROVE  LET c == IF obj[x].task = l THEN [obj[x] EXCEPT !.task = None] ELSE obj[x]
                    IN  /\ c \in Object
                        /\ c.built = obj[x].built /\ c.ev = obj[x].ev /\ c.oauth = obj[x].oauth
                        /\ c.task = (IF obj[x].task = l THEN None ELSE obj[x].task)
  BY Zenon DEF Unreferenced
<1>1. obj[x] \in Object
  BY Types
<1> QED
  BY <1>1 DEF Object

(* Two assignments of places that differ only in what is awaited.          *)
SamePlaces(ps, qs) ==
  \A p \in Procs : ps[p].at = qs[p].at /\ ps[p].x = qs[p].x

LEMMA ToldChange ==
  ASSUME NEW ps \in [Procs -> Place], NEW l \in Lives, NEW how \in {"ended", "cancelled"}
  PROVE  Told(l, how, ps) \in [Procs -> Place] /\ SamePlaces(Told(l, how, ps), ps)
<1>1. ASSUME NEW p \in Procs
      PROVE  /\ [ps[p] EXCEPT !.wait = how] \in Place
             /\ [ps[p] EXCEPT !.wait = how].at = ps[p].at
             /\ [ps[p] EXCEPT !.wait = how].x = ps[p].x
  <2>1. ps[p] \in Place
    OBVIOUS
  <2> QED
    BY <2>1 DEF Place, Waits
<1> QED
  BY <1>1 DEF Told, SamePlaces

LEMMA ReadyChange ==
  ASSUME TypeOK, NEW x \in Clients
  PROVE  ReadyProcs(x) \in [Procs -> Place] /\ SamePlaces(ReadyProcs(x), proc)
<1>1. ASSUME NEW p \in Procs
      PROVE  /\ proc[p] \in Place
             /\ [proc[p] EXCEPT !.wait = "ready"] \in Place
             /\ [proc[p] EXCEPT !.wait = "ready"].at = proc[p].at
             /\ [proc[p] EXCEPT !.wait = "ready"].x = proc[p].x
  <2>1. proc[p] \in Place
    BY Types
  <2> QED
    BY <2>1 DEF Place, Waits
<1> QED
  BY <1>1 DEF ReadyProcs, SamePlaces

LEMMA GotoChange ==
  ASSUME TypeOK, NEW p \in Procs, NEW r \in Place, Goto(p, r)
  PROVE  /\ proc' \in [Procs -> Place]
         /\ proc'[p] = r
         /\ \A q \in Procs \ {p} : proc'[q] = proc[q]
BY Types DEF Goto

LEMMA AtPlace ==
  ASSUME NEW at \in Ats, NEW x \in Clients \cup {None}, NEW wait \in Waits
  PROVE  /\ At(at, x, wait) \in Place
         /\ At(at, x, wait).at = at /\ At(at, x, wait).x = x
BY DEF At, Place

LEMMA StoppedChange ==
  ASSUME NEW ev \in [Clients -> Event], NEW c \in Object, NEW x \in Clients
  PROVE  /\ Stopped(x, c, ev) \in [Clients -> Event]
         /\ \A y \in Clients : ev[y].stop => Stopped(x, c, ev)[y].stop
         /\ NeedsClose(c) => Stopped(x, c, ev)[c.ev].stop
<1>1. c.ev \in Clients
  BY DEF Object
<1>2. [ev[c.ev] EXCEPT !.stop = TRUE] \in Event /\ [ev[c.ev] EXCEPT !.stop = TRUE].stop
  BY <1>1 DEF Event
<1> DEFINE e == [ev[c.ev] EXCEPT !.stop = TRUE]
           es == [ev EXCEPT ![c.ev] = e]
<1>3. Stopped(x, c, ev) = IF NeedsClose(c) THEN es ELSE ev
  BY DEF Stopped
<1>4. e \in Event /\ e.stop
  BY <1>2
<1> HIDE DEF e
<1>5. /\ es \in [Clients -> Event] /\ es[c.ev] = e
      /\ \A y \in Clients : y # c.ev => es[y] = ev[y]
  BY <1>1, <1>4
<1> HIDE DEF es
<1> QED
  BY <1>3, <1>4, <1>5

LEMMA ClosingPlace ==
  ASSUME NEW x \in Clients, NEW c \in Object
  PROVE  /\ Closing(x, c) \in Place
         /\ Closing(x, c).at \in InClose
         /\ Closing(x, c).x = x
<1>1. c.task \in Waits \/ c.task = None
  BY DEF Object, Waits
<1> DEFINE w == IF c.task = None THEN "ended" ELSE c.task
<1>2. w \in Waits /\ "ended" \in Waits /\ "closing" \in Ats /\ "closed" \in Ats
  BY <1>1 DEF Waits, Ats
<1>3. Closing(x, c) = IF NeedsClose(c) THEN At("closing", x, w) ELSE At("closed", x, "ended")
  BY DEF Closing
<1> HIDE DEF w
<1> QED
  BY <1>2, <1>3, AtPlace DEF InClose

LEMMA ClosesChange ==
  ASSUME TypeOK, NEW p \in Procs, NEW x \in Clients, Closes(p, x)
  PROVE  /\ proc' \in [Procs -> Place]
         /\ proc'[p].at \in InClose /\ proc'[p].x = x
         /\ \A q \in Procs \ {p} : proc'[q] = proc[q]
         /\ events' \in [Clients -> Event]
         /\ \A y \in Clients : events[y].stop => events'[y].stop
         /\ NeedsClose(obj[x]) => events'[obj[x].ev].stop
<1>1. obj[x] \in Object /\ events \in [Clients -> Event]
  BY Types
<1>2. Goto(p, Closing(x, obj[x])) /\ events' = Stopped(x, obj[x], events)
  BY DEF Closes
<1> QED
  BY <1>1, <1>2, ClosingPlace, GotoChange, StoppedChange

LEMMA DroppedChange ==
  ASSUME TypeOK, NEW p \in Procs, proc[p].x \in Clients, Dropped(p) \/ UNCHANGED obj
  PROVE  /\ obj' \in [Clients -> Object]
         /\ \A x \in Clients : /\ obj'[x].built = obj[x].built
                               /\ obj'[x].ev = obj[x].ev
                               /\ obj'[x].oauth = obj[x].oauth
         /\ \A x \in Clients \ {proc[p].x} : obj'[x] = obj[x]
<1> DEFINE c == [obj[proc[p].x] EXCEPT !.task = None]
<1>1. obj \in [Clients -> Object] /\ obj[proc[p].x] \in Object
  BY Types
<1>2. /\ c \in Object
      /\ c.built = obj[proc[p].x].built /\ c.ev = obj[proc[p].x].ev
      /\ c.oauth = obj[proc[p].x].oauth
  BY <1>1 DEF Object
<1>3. obj' = obj \/ obj' = [obj EXCEPT ![proc[p].x] = c]
  BY DEF Dropped
<1> HIDE DEF c
<1> QED
  BY <1>1, <1>2, <1>3

LEMMA ConnectsChange ==
  ASSUME TypeOK, NEW p \in Procs, NEW x \in Clients, NEW c \in Object, Connects(p, x, c)
  PROVE  \E l \in Lives :
         /\ ~Alive(l)
         /\ life' \in [Lives -> Lifecycle]
         /\ life'[l].phase = "connecting" /\ life'[l].self = x
         /\ \A m \in Lives \ {l} : life'[m] = life[m]
         /\ obj' \in [Clients -> Object]
         /\ obj'[x].built = c.built /\ obj'[x].ev = c.ev
         /\ obj'[x].task = l /\ ~obj'[x].oauth
         /\ \A y \in Clients \ {x} : obj'[y] = obj[y]
         /\ proc' \in [Procs -> Place]
         /\ proc'[p].at = "connecting" /\ proc'[p].x = x
         /\ \A q \in Procs \ {p} : proc'[q] = proc[q]
<1> DEFINE l == CHOOSE l \in FreeLives : TRUE
           e == [phase |-> "connecting", self |-> x]
           d == [c EXCEPT !.task = l, !.oauth = FALSE]
<1>1. l \in Lives /\ ~Alive(l)
  BY DEF Connects, FreeLives
<1>2. /\ life' = [life EXCEPT ![l] = e]
      /\ obj' = [obj EXCEPT ![x] = d]
      /\ Goto(p, At("connecting", x, c.ev))
  BY DEF Connects
<1> HIDE DEF l
<1>3. e \in Lifecycle /\ e.phase = "connecting" /\ e.self = x
  BY DEF Lifecycle, Phases
<1>4. d \in Object /\ d.built = c.built /\ d.ev = c.ev /\ d.task = l /\ ~d.oauth
  BY <1>1 DEF Object
<1>5. c.ev \in Waits /\ "connecting" \in Ats
  BY DEF Object, Waits, Ats
<1>6. /\ proc' \in [Procs -> Place]
      /\ proc'[p].at = "connecting" /\ proc'[p].x = x
      /\ \A q \in Procs \ {p} : proc'[q] = proc[q]
  BY <1>2, <1>5, AtPlace, GotoChange
<1> HIDE DEF e, d
<1> QED
  BY <1>1, <1>2, <1>3, <1>4, <1>6, Types

LEMMA NewChange ==
  ASSUME TypeOK, NEW p \in Procs, NEW v \in Versions \cup {Off}, ConnectsNew(p, v)
  PROVE  \E y \in FreeClients, l \in Lives :
         /\ ~Alive(l)
         /\ life' \in [Lives -> Lifecycle]
         /\ life'[l].phase = "connecting" /\ life'[l].self = y
         /\ \A m \in Lives \ {l} : life'[m] = life[m]
         /\ obj' \in [Clients -> Object]
         /\ obj'[y].built = v /\ obj'[y].ev = y /\ obj'[y].task = l /\ ~obj'[y].oauth
         /\ \A x \in Clients \ {y} : obj'[x] = obj[x]
         /\ proc' \in [Procs -> Place]
         /\ proc'[p].at = "connecting" /\ proc'[p].x = y
         /\ \A q \in Procs \ {p} : proc'[q] = proc[q]
         /\ events' \in [Clients -> Event]
         /\ \A x \in Clients \ {y} : events'[x] = events[x]
         /\ touched' = IF p = Worker THEN touched \ {y} ELSE touched \cup {y}
<1> DEFINE y == CHOOSE y \in FreeClients : TRUE
<1>1. y \in FreeClients
  BY DEF ConnectsNew
<1>2. /\ Connects(p, y, Fresh(y, v))
      /\ events' = [events EXCEPT ![y] = Unset]
      /\ touched' = IF p = Worker THEN touched \ {y} ELSE touched \cup {y}
  BY DEF ConnectsNew
<1> HIDE DEF y
<1>3. y \in Clients
  BY <1>1 DEF FreeClients
<1>4. Fresh(y, v) \in Object /\ Fresh(y, v).built = v /\ Fresh(y, v).ev = y
  BY <1>3 DEF Fresh, Object
<1>5. events' \in [Clients -> Event] /\ \A x \in Clients \ {y} : events'[x] = events[x]
  BY <1>2, <1>3, Types DEF Unset, Event
<1>6. PICK l \in Lives :
         /\ ~Alive(l)
         /\ life' \in [Lives -> Lifecycle]
         /\ life'[l].phase = "connecting" /\ life'[l].self = y
         /\ \A m \in Lives \ {l} : life'[m] = life[m]
         /\ obj' \in [Clients -> Object]
         /\ obj'[y].built = Fresh(y, v).built /\ obj'[y].ev = Fresh(y, v).ev
         /\ obj'[y].task = l /\ ~obj'[y].oauth
         /\ \A x \in Clients \ {y} : obj'[x] = obj[x]
         /\ proc' \in [Procs -> Place]
         /\ proc'[p].at = "connecting" /\ proc'[p].x = y
         /\ \A q \in Procs \ {p} : proc'[q] = proc[q]
  BY <1>2, <1>3, <1>4, ConnectsChange
<1> HIDE DEF Fresh
<1> QED
  BY <1>1, <1>2, <1>4, <1>5, <1>6
-----------------------------------------------------------------------------
(***************************************************************************)
(* The steps of lifecycles                                                 *)
(***************************************************************************)

(* Lifecycles go on or end; references to those that end are dropped, and  *)
(* a client that is refused is told to stop.                               *)
LifeStep ==
  /\ UNCHANGED <<watcher, manager, orig, breaks, touched>>
  /\ SamePlaces(proc', proc)
  /\ \A x \in Clients : /\ obj'[x].built = obj[x].built /\ obj'[x].ev = obj[x].ev
                        /\ obj'[x].oauth => obj[x].oauth \/ events'[obj[x].ev].stop
                        /\ events[x].stop => events'[x].stop
  /\ \A l \in Lives : Going(l)' =>
        /\ Going(l) /\ life'[l].self = life[l].self
        /\ \A x \in Clients : obj[x].task = l => obj'[x].task = l

Typed ==
  /\ life' \in [Lives -> Lifecycle]
  /\ obj' \in [Clients -> Object]
  /\ events' \in [Clients -> Event]
  /\ proc' \in [Procs -> Place]

LEMMA LifeStepTypes ==
  ASSUME TypeOK, LifeStep, Typed
  PROVE  TypeOK'
BY DEF TypeOK, LifeStep, Typed, watcher, manager, Configs, Lifecycle, Phases, Object, Event,
       Place, Ats, Waits

(* The object of a client and the events it uses, changed in one field.    *)
LEMMA FieldChange ==
  ASSUME TypeOK, NEW x \in Clients, NEW b \in BOOLEAN
  PROVE  /\ [obj EXCEPT ![x].connected = b] \in [Clients -> Object]
         /\ \A y \in Clients :
               /\ [obj EXCEPT ![x].connected = b][y].built = obj[y].built
               /\ [obj EXCEPT ![x].connected = b][y].ev = obj[y].ev
               /\ [obj EXCEPT ![x].connected = b][y].task = obj[y].task
               /\ [obj EXCEPT ![x].connected = b][y].oauth = obj[y].oauth
         /\ [events EXCEPT ![x].reload = b] \in [Clients -> Event]
         /\ \A y \in Clients : [events EXCEPT ![x].reload = b][y].stop = events[y].stop
         /\ [events EXCEPT ![x].stop = TRUE] \in [Clients -> Event]
         /\ \A y \in Clients : events[y].stop => [events EXCEPT ![x].stop = TRUE][y].stop
         /\ [events EXCEPT ![x].stop = TRUE][x].stop
<1>1. obj \in [Clients -> Object] /\ events \in [Clients -> Event]
  BY Types
<1>2. obj[x] \in Object /\ events[x] \in Event
  BY <1>1
<1>3. /\ [obj[x] EXCEPT !.connected = b] \in Object
      /\ [obj[x] EXCEPT !.connected = b].built = obj[x].built
      /\ [obj[x] EXCEPT !.connected = b].ev = obj[x].ev
      /\ [obj[x] EXCEPT !.connected = b].task = obj[x].task
      /\ [obj[x] EXCEPT !.connected = b].oauth = obj[x].oauth
  BY <1>2 DEF Object
<1>4. /\ [events[x] EXCEPT !.reload = b] \in Event
      /\ [events[x] EXCEPT !.reload = b].stop = events[x].stop
  BY <1>2 DEF Event
<1>5. [events[x] EXCEPT !.stop = TRUE] \in Event /\ [events[x] EXCEPT !.stop = TRUE].stop
  BY <1>2 DEF Event
<1> DEFINE c == [obj[x] EXCEPT !.connected = b]
           r == [events[x] EXCEPT !.reload = b]
           s == [events[x] EXCEPT !.stop = TRUE]
<1>6. /\ [obj EXCEPT ![x].connected = b] = [obj EXCEPT ![x] = c]
      /\ [events EXCEPT ![x].reload = b] = [events EXCEPT ![x] = r]
      /\ [events EXCEPT ![x].stop = TRUE] = [events EXCEPT ![x] = s]
  OBVIOUS
<1>7. /\ c \in Object /\ c.built = obj[x].built /\ c.ev = obj[x].ev
      /\ c.task = obj[x].task /\ c.oauth = obj[x].oauth
      /\ r \in Event /\ r.stop = events[x].stop /\ s \in Event /\ s.stop
  BY <1>3, <1>4, <1>5
<1> HIDE DEF c, r, s
<1> QED
  BY <1>1, <1>6, <1>7

(* Changing a phase, with the client of the lifecycle and its events as    *)
(* they are or changed in one field.                                       *)
LEMMA LifeMoves ==
  ASSUME TypeOK, PlacesInv,
         NEW l \in Lives, Going(l),
         NEW ph \in {"connecting", "up", "down"}, Phase(l, ph),
         UNCHANGED <<watcher, manager, orig, breaks, touched>>,
         proc' = proc \/ proc' = ReadyProcs(life[l].self),
         \/ obj' = obj
         \/ obj' = [obj EXCEPT ![life[l].self].connected = TRUE]
         \/ obj' = [obj EXCEPT ![life[l].self].connected = FALSE],
         \/ events' = events
         \/ events' = [events EXCEPT ![obj[life[l].self].ev].reload = FALSE]
  PROVE  TypeOK' /\ LifeStep
<1> DEFINE x == life[l].self
<1>1. x \in Clients
  BY DEF PlacesInv
<1> HIDE DEF x
<1>2. obj[x].ev \in Clients
  BY <1>1, Types DEF Object
<1>3. /\ life' \in [Lives -> Lifecycle]
      /\ \A m \in Lives : life'[m].self = life[m].self /\ (Going(m)' => Going(m))
  <2>1. ph \in Phases
    BY DEF Phases
  <2> QED
    BY <2>1, PhaseChange DEF Going
<1>4. /\ proc' \in [Procs -> Place]
      /\ SamePlaces(proc', proc)
  <2>1. proc \in [Procs -> Place] /\ SamePlaces(proc, proc)
    BY Types DEF SamePlaces
  <2>2. proc' = proc \/ proc' = ReadyProcs(x)
    BY DEF x
  <2> QED
    BY <1>1, <2>1, <2>2, ReadyChange
<1>5. /\ obj' \in [Clients -> Object]
      /\ \A y \in Clients : /\ obj'[y].built = obj[y].built /\ obj'[y].ev = obj[y].ev
                            /\ obj'[y].task = obj[y].task /\ obj'[y].oauth = obj[y].oauth
  <2>1. \/ obj' = obj
        \/ obj' = [obj EXCEPT ![x].connected = TRUE]
        \/ obj' = [obj EXCEPT ![x].connected = FALSE]
    BY DEF x
  <2>2. CASE obj' = obj
    BY <2>2, Types
  <2>3. CASE obj' = [obj EXCEPT ![x].connected = TRUE]
    BY <1>1, <2>3, FieldChange
  <2>4. CASE obj' = [obj EXCEPT ![x].connected = FALSE]
    BY <1>1, <2>4, FieldChange
  <2> QED
    BY <2>1, <2>2, <2>3, <2>4
<1>6. /\ events' \in [Clients -> Event]
      /\ \A y \in Clients : events'[y].stop = events[y].stop
  <2>1. events' = events \/ events' = [events EXCEPT ![obj[x].ev].reload = FALSE]
    BY DEF x
  <2>2. CASE events' = events
    BY <2>2, Types
  <2>3. CASE events' = [events EXCEPT ![obj[x].ev].reload = FALSE]
    BY <1>2, <2>3, FieldChange
  <2> QED
    BY <2>1, <2>2, <2>3
<1>7. LifeStep /\ Typed
  BY <1>3, <1>4, <1>5, <1>6 DEF LifeStep, Typed
<1> QED
  BY <1>7, LifeStepTypes

LEMMA LifeOver ==
  ASSUME TypeOK, NEW l \in Lives, Ends(l),
         UNCHANGED <<watcher, manager, orig, breaks, touched>>,
         NEW ps \in [Procs -> Place], SamePlaces(ps, proc),
         NEW how \in {"ended", "cancelled"}, proc' = Told(l, how, ps),
         obj' = Unreferenced(l, obj), events' = events
  PROVE  TypeOK' /\ LifeStep
<1>1. /\ life' \in [Lives -> Lifecycle]
      /\ \A m \in Lives : Going(m)' => m # l /\ Going(m) /\ life'[m].self = life[m].self
  BY EndsChange DEF Going
<1>2. proc' \in [Procs -> Place] /\ SamePlaces(proc', proc)
  BY ToldChange DEF SamePlaces
<1>3. events' \in [Clients -> Event]
  BY Types
<1>4. Typed
  BY <1>1, <1>2, <1>3, UnreferencedChange DEF Typed
<1>5. LifeStep
  BY <1>1, <1>2, UnreferencedChange DEF LifeStep
<1> QED
  BY <1>4, <1>5, LifeStepTypes

LEMMA LifeActions ==
  ASSUME TypeOK, PlacesInv, NEW l \in Lives,
         \/ LifeGoesOn(l) \/ LifeConnects(l) \/ LifeLeaves(l) \/ LifeFails(l)
         \/ LifeUnauthorized(l) \/ LifeDies(l)
  PROVE  TypeOK' /\ LifeStep
<1>0. proc \in [Procs -> Place] /\ SamePlaces(proc, proc)
  BY Types DEF SamePlaces
<1>1. CASE LifeGoesOn(l)
  <2>1. CASE Events(life[l].self).stop
    BY <1>0, <1>1, <2>1, LifeOver DEF LifeGoesOn
  <2>2. CASE ~Events(life[l].self).stop
    BY <1>1, <2>2, LifeMoves DEF LifeGoesOn, Going
  <2> QED
    BY <2>1, <2>2
<1>2. CASE LifeConnects(l)
  <2> DEFINE told == Events(life[l].self).stop \/ Events(life[l].self).reload
  <2>1. \E ph \in {"up", "down"} : Phase(l, ph)
    BY <1>2 DEF LifeConnects
  <2>2. \/ obj' = [obj EXCEPT ![life[l].self].connected = TRUE]
        \/ obj' = [obj EXCEPT ![life[l].self].connected = FALSE]
    <3>1. obj' = [obj EXCEPT ![life[l].self].connected = ~told]
      BY <1>2 DEF LifeConnects
    <3>2. (~told) = TRUE \/ (~told) = FALSE
      OBVIOUS
    <3> HIDE DEF told
    <3> QED
      BY <3>1, <3>2
  <2>3. /\ UNCHANGED <<watcher, manager, orig, breaks, touched>>
        /\ proc' = ReadyProcs(life[l].self)
        /\ events' = [events EXCEPT ![obj[life[l].self].ev].reload = FALSE]
        /\ Going(l)
    BY <1>2 DEF LifeConnects, Going
  <2> QED
    BY <2>1, <2>2, <2>3, LifeMoves
<1>3. CASE LifeLeaves(l)
  BY <1>3, LifeMoves DEF LifeLeaves, Going
<1>4. CASE LifeFails(l)
  BY <1>4, LifeMoves DEF LifeFails, Going
<1>5. CASE LifeUnauthorized(l)
  <2> DEFINE x == life[l].self
             o == Unreferenced(l, obj)
             c == [o[x] EXCEPT !.oauth = TRUE]
  <2>1. x \in Clients
    BY <1>5 DEF LifeUnauthorized, PlacesInv, Going
  <2>2. /\ life' \in [Lives -> Lifecycle]
        /\ \A m \in Lives : Going(m)' => m # l /\ Going(m) /\ life'[m].self = life[m].self
    BY <1>5, EndsChange DEF LifeUnauthorized, Going
  <2>3. proc' = Told(l, "ended", ReadyProcs(x))
    BY <1>5 DEF LifeUnauthorized
  <2>4. obj' = [o EXCEPT ![x] = c]
    BY <1>5 DEF LifeUnauthorized
  <2>5. events' = [events EXCEPT ![obj[x].ev].stop = TRUE]
    BY <1>5 DEF LifeUnauthorized
  <2>6. UNCHANGED <<watcher, manager, orig, breaks, touched>>
    BY <1>5 DEF LifeUnauthorized
  <2> HIDE DEF x
  <2>7. proc' \in [Procs -> Place] /\ SamePlaces(proc', proc)
    BY <2>1, <2>3, ReadyChange, ToldChange DEF SamePlaces
  <2>8. /\ o \in [Clients -> Object]
        /\ \A y \in Clients : /\ o[y].built = obj[y].built /\ o[y].ev = obj[y].ev
                              /\ o[y].oauth = obj[y].oauth
                              /\ o[y].task = (IF obj[y].task = l THEN None ELSE obj[y].task)
    BY UnreferencedChange
  <2> HIDE DEF o
  <2>9. c \in Object /\ c.built = o[x].built /\ c.ev = o[x].ev /\ c.task = o[x].task
    <3>1. o[x] \in Object
      BY <2>1, <2>8
    <3> QED
      BY <3>1 DEF Object
  <2> HIDE DEF c
  <2>10. /\ obj' \in [Clients -> Object]
         /\ \A y \in Clients : /\ obj'[y].built = obj[y].built /\ obj'[y].ev = obj[y].ev
                               /\ y # x => obj'[y].oauth = obj[y].oauth
                               /\ obj'[y].task = (IF obj[y].task = l THEN None ELSE obj[y].task)
    BY <2>1, <2>4, <2>8, <2>9
  <2>11. /\ events' \in [Clients -> Event] /\ events'[obj[x].ev].stop
         /\ \A y \in Clients : events[y].stop => events'[y].stop
    <3>1. obj[x].ev \in Clients
      BY <2>1, Types DEF Object
    <3> QED
      BY <2>5, <3>1, FieldChange
  <2>12. Typed /\ LifeStep
    BY <2>2, <2>6, <2>7, <2>10, <2>11 DEF Typed, LifeStep
  <2> QED
    BY <2>12, LifeStepTypes
<1>6. CASE LifeDies(l)
  BY <1>0, <1>6, LifeOver DEF LifeDies
<1> QED
  BY <1>1, <1>2, <1>3, <1>4, <1>5, <1>6
-----------------------------------------------------------------------------
(***************************************************************************)
(* The types                                                               *)
(***************************************************************************)

Jobs == [kind : {"none", "init", "reload"}, target : Configs, todo : SUBSET Keys,
         key : Keys \cup {None}]

WatcherTyped ==
  /\ config' \in Configs /\ seen' \in Configs /\ edits' \in 0..MaxEdits
  /\ written' \in BOOLEAN /\ polling' \in BOOLEAN /\ missed' \in BOOLEAN

ManagerTyped ==
  /\ clients' \in [Keys -> Clients \cup {None}]
  /\ shut' \in {"no", "stopping", "closing", "over", "cut"}
  /\ remaining' \in SUBSET Clients /\ job' \in Jobs /\ astray' \in SUBSET Keys

AgentsTyped ==
  /\ orig' \in [Agents -> Clients \cup {None}]
  /\ breaks' \in 0..MaxBreaks /\ touched' \in SUBSET Clients

LEMMA TypesBack ==
  ASSUME WatcherTyped, ManagerTyped, AgentsTyped, Typed
  PROVE  TypeOK'
BY DEF WatcherTyped, ManagerTyped, AgentsTyped, Typed, TypeOK, Jobs, Configs, Lifecycle,
       Phases, Object, Event, Place, Ats, Waits

LEMMA TypesUnchanged ==
  ASSUME TypeOK
  PROVE  /\ UNCHANGED watcher => WatcherTyped
         /\ UNCHANGED manager => ManagerTyped
         /\ UNCHANGED <<orig, breaks, touched>> => AgentsTyped
         /\ UNCHANGED obj => obj' \in [Clients -> Object]
         /\ UNCHANGED life => life' \in [Lives -> Lifecycle]
         /\ UNCHANGED events => events' \in [Clients -> Event]
         /\ UNCHANGED proc => proc' \in [Procs -> Place]
         /\ job \in Jobs
<1>1. /\ UNCHANGED watcher => WatcherTyped
      /\ UNCHANGED manager => ManagerTyped
      /\ UNCHANGED <<orig, breaks, touched>> => AgentsTyped
      /\ job \in Jobs
  BY DEF TypeOK, watcher, manager, WatcherTyped, ManagerTyped, AgentsTyped, Jobs
<1> QED
  BY <1>1, Types

LEMMA FateChange ==
  ASSUME TypeOK, NEW p \in Procs, NEW f \in {"late", "cancelled"},
         Goto(p, [proc[p] EXCEPT !.fate = f])
  PROVE  proc' \in [Procs -> Place] /\ SamePlaces(proc', proc)
<1> DEFINE r == [proc[p] EXCEPT !.fate = f]
<1>1. proc[p] \in Place
  BY Types
<1>2. r \in Place /\ r.at = proc[p].at /\ r.x = proc[p].x
  BY <1>1 DEF Place
<1>3. Goto(p, r)
  OBVIOUS
<1> HIDE DEF r
<1> QED
  BY <1>2, <1>3, GotoChange DEF SamePlaces

LEMMA TimesOutChange ==
  ASSUME TypeOK, PlacesInv, NEW p \in Procs, TimesOut(p)
  PROVE  /\ proc[p].at = "connecting" /\ proc[p].x \in Clients
         /\ proc' \in [Procs -> Place]
         /\ proc'[p].at = "givingUp" /\ proc'[p].x = proc[p].x
         /\ \A q \in Procs \ {p} : proc'[q] = proc[q]
         /\ events' \in [Clients -> Event]
         /\ events'[obj[proc[p].x].ev].stop
         /\ \A y \in Clients : events[y].stop => events'[y].stop
<1> DEFINE x == proc[p].x
           w == IF obj[x].task = None THEN "ended" ELSE obj[x].task
<1>1. proc[p].at = "connecting" /\ x \in Clients
  BY DEF TimesOut, PlacesInv, Connecting
<1>2. obj[x] \in Object
  BY <1>1, Types
<1>3. w \in Waits /\ obj[x].ev \in Clients /\ "givingUp" \in Ats
  BY <1>2 DEF Object, Waits, Ats
<1>4. Goto(p, At("givingUp", x, w)) /\ events' = [events EXCEPT ![obj[x].ev].stop = TRUE]
  BY DEF TimesOut
<1> HIDE DEF w
<1>5. /\ At("givingUp", x, w) \in Place
      /\ At("givingUp", x, w).at = "givingUp" /\ At("givingUp", x, w).x = x
  BY <1>1, <1>3, AtPlace
<1>6. /\ proc' \in [Procs -> Place]
      /\ proc'[p].at = "givingUp" /\ proc'[p].x = x
      /\ \A q \in Procs \ {p} : proc'[q] = proc[q]
  BY <1>4, <1>5, GotoChange
<1> HIDE DEF x
<1>7. /\ events' \in [Clients -> Event] /\ events'[obj[x].ev].stop
      /\ \A y \in Clients : events[y].stop => events'[y].stop
  BY <1>3, <1>4, FieldChange
<1> QED
  BY <1>1, <1>6, <1>7 DEF x

(* Leaving for a place without a client.                                   *)
LEMMA LeavesChange ==
  ASSUME TypeOK, NEW p \in Procs,
         \/ Goto(p, Idle)
         \/ \E at \in {"next", "rebuild"} : Goto(p, At(at, None, None))
  PROVE  /\ proc' \in [Procs -> Place]
         /\ proc'[p].at \in {"idle", "next", "rebuild"} /\ proc'[p].x = None
         /\ \A q \in Procs \ {p} : proc'[q] = proc[q]
         /\ Goto(p, Idle) => proc'[p].at = "idle"
         /\ \A at \in {"next", "rebuild"} : Goto(p, At(at, None, None)) => proc'[p].at = at
<1>1. Idle \in Place /\ Idle.at = "idle" /\ Idle.x = None
  BY DEF Idle, Place, Ats, Waits
<1>2. ASSUME NEW at \in {"next", "rebuild"}
      PROVE  /\ At(at, None, None) \in Place
             /\ At(at, None, None).at = at /\ At(at, None, None).x = None
  BY DEF At, Place, Ats, Waits
<1>3. CASE Goto(p, Idle)
  <2>1. proc' \in [Procs -> Place] /\ proc'[p] = Idle /\ \A q \in Procs \ {p} : proc'[q] = proc[q]
    BY <1>1, <1>3, GotoChange
  <2>2. \A at \in {"next", "rebuild"} : Goto(p, At(at, None, None)) => proc'[p].at = at
    BY <1>2, GotoChange
  <2> QED
    BY <1>1, <2>1, <2>2
<1>4. ASSUME NEW at \in {"next", "rebuild"}, Goto(p, At(at, None, None))
      PROVE  /\ proc' \in [Procs -> Place] /\ proc'[p] = At(at, None, None)
             /\ \A q \in Procs \ {p} : proc'[q] = proc[q]
  BY <1>2, <1>4, GotoChange
<1>5. CASE \E at \in {"next", "rebuild"} : Goto(p, At(at, None, None))
  <2>1. Goto(p, Idle) => proc'[p].at = "idle"
    BY <1>1, GotoChange
  <2> QED
    BY <1>2, <1>4, <1>5, <2>1
<1> QED
  BY <1>3, <1>5
-----------------------------------------------------------------------------
(***************************************************************************)
(* What the steps do to untouched clients, and to what clients are         *)
(***************************************************************************)

(* No step but the worker's, when it builds a client, starts a lifecycle   *)
(* of an untouched client, takes one from a client without telling it to   *)
(* stop, or takes back that it was told.                                   *)
OwnKept ==
  /\ touched \subseteq touched'
  /\ \A x \in Clients \ touched' : /\ events[x].stop => events'[x].stop
                                   /\ obj'[x].oauth => obj[x].oauth \/ events'[x].stop
  /\ \A l \in Lives : OwnLife(l)' =>
        /\ OwnLife(l) /\ life'[l].self = life[l].self
        /\ obj[life[l].self].task = l => obj'[life[l].self].task = l \/ HasBeenTold(l)'

(* A client that somebody can reach remains what it is.                    *)
BuiltKept == \A x \in Clients \ FreeClients : obj'[x].built = obj[x].built

(* Process p is at one of the places A with client x; the others stay.     *)
Moves(p, A, x) ==
  /\ proc'[p].at \in A /\ proc'[p].x = x
  /\ \A q \in Procs \ {p} : proc'[q].at = proc[q].at /\ proc'[q].x = proc[q].x

LEMMA OwnLivesIn ==
  ASSUME PlacesInv, NEW l \in Lives, OwnLife(l)
  PROVE  life[l].self \in Clients \ touched
BY DEF OwnLife, PlacesInv

LEMMA OwnKeptWhen ==
  ASSUME PlacesInv, touched \subseteq touched',
         \A x \in Clients \ touched' :
            /\ events[x].stop => events'[x].stop
            /\ obj'[x].oauth => obj[x].oauth \/ events'[x].stop
         ,
         \A l \in Lives : OwnLife(l)' => Going(l) /\ life'[l].self = life[l].self,
         \A x \in Clients \ touched', l \in Lives :
            OwnLife(l)' /\ life[l].self = x /\ obj[x].task = l => obj'[x].task = l \/ events'[x].stop
  PROVE  OwnKept
<1>1. \A l \in Lives : OwnLife(l)' => OwnLife(l) /\ life[l].self \in Clients \ touched'
  BY OwnLivesIn DEF OwnLife
<1>2. \A l \in Lives : OwnLife(l)' /\ events'[life[l].self].stop => HasBeenTold(l)'
  BY DEF HasBeenTold
<1> QED
  BY <1>1, <1>2 DEF OwnKept

LEMMA LifeStepKeeps ==
  ASSUME TypeOK, PlacesInv, TouchedInv, LifeStep
  PROVE  OwnKept /\ BuiltKept
<1>1. touched' = touched
  BY DEF LifeStep
<1>2. \A x \in Clients \ touched' : obj[x].ev = x
  BY <1>1 DEF TouchedInv
<1>3. \A x \in Clients \ touched' : /\ events[x].stop => events'[x].stop
                                    /\ obj'[x].oauth => obj[x].oauth \/ events'[x].stop
  BY <1>2 DEF LifeStep
<1>4. \A l \in Lives : OwnLife(l)' => /\ Going(l) /\ life'[l].self = life[l].self
                                      /\ \A x \in Clients : obj[x].task = l => obj'[x].task = l
  BY DEF LifeStep, OwnLife
<1>5. OwnKept
  BY <1>1, <1>3, <1>4, OwnKeptWhen
<1> QED
  BY <1>5 DEF LifeStep, BuiltKept

(* Steps that leave objects and lifecycles alone.                          *)
LEMMA SameObjectsKeep ==
  ASSUME PlacesInv, UNCHANGED <<obj, life>>, touched \subseteq touched',
         \A x \in Clients : events[x].stop => events'[x].stop
  PROVE  OwnKept /\ BuiltKept
<1>1. \A l \in Lives : OwnLife(l)' => Going(l) /\ life'[l].self = life[l].self
  BY DEF OwnLife, Going
<1>2. OwnKept
  BY <1>1, OwnKeptWhen
<1> QED
  BY <1>2 DEF BuiltKept

(* A process that lets go of a client when it has closed it.               *)
LEMMA DropKeeps ==
  ASSUME TypeOK, PlacesInv, TouchedInv, StopInv, NEW p \in Procs,
         proc[p].at \in InClose \cup {"givingUp"},
         proc[p].at = "givingUp" => UNCHANGED obj,
         Dropped(p) \/ UNCHANGED obj, UNCHANGED <<life, events, touched>>
  PROVE  OwnKept /\ BuiltKept /\ obj' \in [Clients -> Object]
<1>1. proc[p].x \in Clients
  BY DEF PlacesInv, Connecting
<1>2. /\ obj' \in [Clients -> Object]
      /\ \A x \in Clients : obj'[x].built = obj[x].built /\ obj'[x].oauth = obj[x].oauth
      /\ \A x \in Clients \ {proc[p].x} : obj'[x] = obj[x]
  BY <1>1, DroppedChange
<1>3. \A l \in Lives : OwnLife(l)' => /\ Going(l) /\ life'[l].self = life[l].self
                                      /\ OwnLife(l)
  BY DEF OwnLife, Going
<1>4. ASSUME NEW l \in Lives, OwnLife(l), life[l].self = proc[p].x
      PROVE  obj' = obj \/ events'[life[l].self].stop
  <2>1. CASE p \in {Worker, Closer}
    BY <1>4, <2>1 DEF StopInv, HasBeenTold
  <2>2. CASE p \in Agents
    BY <1>4, <2>2 DEF TouchedInv, OwnLife, Connecting
  <2> QED
    BY <2>1, <2>2 DEF Procs
<1>5. OwnKept
  BY <1>2, <1>3, <1>4, OwnKeptWhen
<1> QED
  BY <1>2, <1>5 DEF BuiltKept

LEMMA CancelStep ==
  ASSUME TypeOK, NEW p \in Procs, NEW f \in {"late", "cancelled"},
         Awaits(p), Goto(p, [proc[p] EXCEPT !.fate = f]), Phase(proc[p].wait, "dying"),
         UNCHANGED <<watcher, manager, obj, events, orig, breaks, touched>>
  PROVE  TypeOK' /\ LifeStep
<1>1. proc' \in [Procs -> Place] /\ SamePlaces(proc', proc)
  BY FateChange
<1>2. /\ life' \in [Lives -> Lifecycle]
      /\ \A l \in Lives : life'[l].self = life[l].self /\ (Going(l)' => Going(l))
  <2>1. proc[p].wait \in Lives /\ "dying" \in Phases
    BY DEF Awaits, Phases
  <2> QED
    BY <2>1, PhaseChange DEF Going
<1>3. Typed /\ LifeStep
  BY <1>1, <1>2, Types DEF Typed, LifeStep
<1> QED
  BY <1>3, LifeStepTypes

LEMMA TimesOutStep ==
  ASSUME TypeOK, PlacesInv, NEW p \in Procs, TimesOut(p)
  PROVE  /\ TypeOK' /\ OwnKept /\ BuiltKept
         /\ proc[p].at = "connecting" /\ Moves(p, {"givingUp"}, proc[p].x)
         /\ events'[obj[proc[p].x].ev].stop
<1>1. UNCHANGED <<watcher, manager, obj, life, orig, breaks, touched>>
  BY DEF TimesOut
<1>2. TypeOK'
  BY <1>1, TimesOutChange, TypesUnchanged, TypesBack DEF Typed
<1>3. OwnKept /\ BuiltKept
  BY <1>1, TimesOutChange, SameObjectsKeep
<1> QED
  BY <1>2, <1>3, TimesOutChange DEF Moves

(* Nothing happens to objects, lifecycles, events and agents.              *)
LEMMA QuietStep ==
  ASSUME TypeOK, PlacesInv, WatcherTyped, ManagerTyped, proc' \in [Procs -> Place],
         UNCHANGED <<obj, events, life, orig, breaks, touched>>
  PROVE  TypeOK' /\ OwnKept /\ BuiltKept
<1>1. TypeOK'
  BY TypesUnchanged, TypesBack DEF Typed
<1>2. \A x \in Clients : events[x].stop => events'[x].stop
  OBVIOUS
<1> QED
  BY <1>1, <1>2, SameObjectsKeep

LEMMA WatcherStep ==
  ASSUME TypeOK, PlacesInv,
         \/ Edit \/ CheckFails \/ Stop \/ CloseAllEnds \/ CloseAll
  PROVE  TypeOK' /\ OwnKept /\ BuiltKept
<1>1. CASE Edit
  <2>1. edits \in Nat /\ edits + 1 \in 0..MaxEdits
    BY <1>1, ConstantsAssumption DEF Edit, TypeOK
  <2>2. WatcherTyped
    BY <1>1, <2>1 DEF Edit, TypeOK, WatcherTyped
  <2> QED
    BY <1>1, <2>2, TypesUnchanged, QuietStep DEF Edit
<1>2. CASE CheckFails
  <2>1. WatcherTyped
    BY <1>2 DEF CheckFails, TypeOK, WatcherTyped
  <2> QED
    BY <1>2, <2>1, TypesUnchanged, QuietStep DEF CheckFails
<1>3. CASE Stop
  <2>1. WatcherTyped
    BY <1>3 DEF Stop, TypeOK, WatcherTyped
  <2>2. ManagerTyped
    BY <1>3, TypesUnchanged DEF Stop, TypeOK, ManagerTyped
  <2> QED
    BY <1>3, <2>1, <2>2, TypesUnchanged, QuietStep DEF Stop
<1>4. CASE CloseAllEnds
  <2>1. ManagerTyped
    BY <1>4, TypesUnchanged DEF CloseAllEnds, TypeOK, ManagerTyped
  <2> QED
    BY <1>4, <2>1, TypesUnchanged, QuietStep DEF CloseAllEnds
<1>5. CASE CloseAll
  <2>1. ManagerTyped
    BY <1>5, TypesUnchanged DEF CloseAll, TypeOK, ManagerTyped
  <2> QED
    BY <1>5, <2>1, TypesUnchanged, QuietStep DEF CloseAll
<1> QED
  BY <1>1, <1>2, <1>3, <1>4, <1>5

LEMMA CheckStep ==
  ASSUME TypeOK, PlacesInv, Check
  PROVE  /\ TypeOK' /\ OwnKept /\ BuiltKept
         /\ IF config # seen /\ proc[Worker].at = "idle" THEN Moves(Worker, {"next"}, None)
                                                         ELSE proc' = proc
<1>1. Worker \in Procs
  BY DEF Procs
<1>2. CASE config # seen /\ proc[Worker].at = "idle"
  <2> DEFINE j == [kind |-> "reload", target |-> config, key |-> None,
                   todo |-> {k \in Keys : config[k] # seen[k]}]
  <2>1. job' = j
    BY <1>2 DEF Check
  <2>2. j \in Jobs
    BY DEF Jobs, TypeOK
  <2> HIDE DEF j
  <2>3. Goto(Worker, At("next", None, None))
    BY <1>2 DEF Check
  <2>4. proc' \in [Procs -> Place] /\ Moves(Worker, {"next"}, None)
    BY <1>1, <2>3, LeavesChange DEF Moves
  <2>5. WatcherTyped
    BY DEF Check, TypeOK, WatcherTyped
  <2>6. ManagerTyped
    BY <2>1, <2>2 DEF Check, TypeOK, ManagerTyped
  <2> QED
    BY <1>2, <2>4, <2>5, <2>6, QuietStep DEF Check
<1>3. CASE ~(config # seen /\ proc[Worker].at = "idle")
  <2>1. job' = job /\ proc' = proc
    BY <1>3 DEF Check
  <2>2. WatcherTyped
    BY DEF Check, TypeOK, WatcherTyped
  <2>3. ManagerTyped
    BY <2>1, TypesUnchanged DEF Check, TypeOK, ManagerTyped
  <2> QED
    BY <1>3, <2>1, <2>2, <2>3, TypesUnchanged, QuietStep DEF Check
<1> QED
  BY <1>2, <1>3

LEMMA WorkerConnectsStep ==
  ASSUME TypeOK, PlacesInv, NEW k \in Keys, WorkerConnects(k)
  PROVE  /\ TypeOK' /\ BuiltKept
         /\ \E y \in FreeClients, l \in Lives :
               /\ Moves(Worker, {"connecting"}, y)
               /\ ~Alive(l) /\ life'[l].self = y
               /\ \A m \in Lives \ {l} : life'[m] = life[m]
               /\ obj'[y].built = job.target[k] /\ obj'[y].ev = y /\ obj'[y].task = l
               /\ ~obj'[y].oauth
               /\ \A x \in Clients \ {y} : obj'[x] = obj[x] /\ events'[x] = events[x]
               /\ touched' = touched \ {y}
<1>1. Worker \in Procs /\ job \in Jobs
  BY TypesUnchanged DEF Procs
<1>2. job.target[k] \in Versions \cup {Off}
  BY <1>1 DEF Jobs, Configs
<1>3. ConnectsNew(Worker, job.target[k])
  BY DEF WorkerConnects
<1>4. PICK y \in FreeClients, l \in Lives :
         /\ ~Alive(l)
         /\ life' \in [Lives -> Lifecycle]
         /\ life'[l].phase = "connecting" /\ life'[l].self = y
         /\ \A m \in Lives \ {l} : life'[m] = life[m]
         /\ obj' \in [Clients -> Object]
         /\ obj'[y].built = job.target[k] /\ obj'[y].ev = y /\ obj'[y].task = l /\ ~obj'[y].oauth
         /\ \A x \in Clients \ {y} : obj'[x] = obj[x]
         /\ proc' \in [Procs -> Place]
         /\ proc'[Worker].at = "connecting" /\ proc'[Worker].x = y
         /\ \A q \in Procs \ {Worker} : proc'[q] = proc[q]
         /\ events' \in [Clients -> Event]
         /\ \A x \in Clients \ {y} : events'[x] = events[x]
         /\ touched' = touched \ {y}
  BY <1>1, <1>2, <1>3, NewChange
<1>5. job' \in Jobs
  <2> DEFINE j == [job EXCEPT !.todo = @ \ {k}, !.key = k]
  <2>1. j \in Jobs
    BY <1>1 DEF Jobs
  <2> QED
    BY <2>1 DEF WorkerConnects
<1>6. UNCHANGED <<watcher, clients, shut, remaining, astray, orig, breaks>>
  BY DEF WorkerConnects
<1>7. ManagerTyped /\ WatcherTyped /\ Typed
  BY <1>4, <1>5, <1>6, TypesUnchanged DEF TypeOK, ManagerTyped, Typed
<1>8. AgentsTyped
  BY <1>4, <1>6 DEF TypeOK, AgentsTyped
<1>9. TypeOK'
  BY <1>7, <1>8, TypesBack
<1> QED
  BY <1>4, <1>9 DEF Moves, BuiltKept

(* A process begins to close a client.                                     *)
LEMMA CloseStep ==
  ASSUME TypeOK, PlacesInv, NEW p \in Procs, NEW x \in Clients, Closes(p, x),
         WatcherTyped, ManagerTyped, UNCHANGED <<obj, life, orig, breaks, touched>>
  PROVE  /\ TypeOK' /\ OwnKept /\ BuiltKept
         /\ Moves(p, InClose, x)
         /\ NeedsClose(obj[x]) => events'[obj[x].ev].stop
<1>1. TypeOK'
  BY ClosesChange, TypesUnchanged, TypesBack DEF Typed
<1>2. OwnKept /\ BuiltKept
  BY ClosesChange, SameObjectsKeep
<1> QED
  BY <1>1, <1>2, ClosesChange DEF Moves

LEMMA WorkerConnectedStep ==
  ASSUME TypeOK, PlacesInv, ReloadInv, WorkerConnected
  PROVE  /\ TypeOK' /\ OwnKept /\ BuiltKept
         /\ job.key \in Keys /\ proc[Worker].x \in Clients
         /\ clients' = [clients EXCEPT ![job.key] = proc[Worker].x]
         /\ \/ clients[job.key] = None /\ Moves(Worker, {"next"}, None) /\ UNCHANGED events
            \/ /\ clients[job.key] \in Clients /\ Moves(Worker, InClose, clients[job.key])
               /\ NeedsClose(obj[clients[job.key]]) =>
                     events'[obj[clients[job.key]].ev].stop
<1>1. proc[Worker].at = "connecting" /\ Worker \in Procs
  BY DEF WorkerConnected, Procs
<1>2. job.key \in Keys /\ proc[Worker].x \in Clients
  BY <1>1 DEF ReloadInv, PlacesInv, Connecting
<1>3. /\ clients' = [clients EXCEPT ![job.key] = proc[Worker].x]
      /\ astray' = astray \ {job.key}
      /\ UNCHANGED <<watcher, shut, remaining, job, obj, life, orig, breaks, touched>>
  BY DEF WorkerConnected
<1>4. ManagerTyped /\ WatcherTyped
  BY <1>2, <1>3, TypesUnchanged DEF ManagerTyped, TypeOK
<1>5. CASE clients[job.key] = None
  <2>1. Goto(Worker, At("next", None, None)) /\ UNCHANGED events
    BY <1>5 DEF WorkerConnected
  <2>2. proc' \in [Procs -> Place] /\ Moves(Worker, {"next"}, None)
    BY <1>1, <2>1, LeavesChange DEF Moves
  <2> QED
    BY <1>2, <1>3, <1>4, <1>5, <2>1, <2>2, QuietStep
<1>6. CASE clients[job.key] # None
  <2>1. Closes(Worker, clients[job.key])
    BY <1>6 DEF WorkerConnected
  <2>2. clients[job.key] \in Clients
    BY <1>2, <1>6, Types
  <2> QED
    BY <1>1, <1>2, <1>3, <1>4, <2>1, <2>2, CloseStep
<1> QED
  BY <1>5, <1>6

LEMMA WorkerFailsStep ==
  ASSUME TypeOK, PlacesInv, ReloadInv, WorkerFails
  PROVE  /\ TypeOK' /\ OwnKept /\ BuiltKept
         /\ job.key \in Keys /\ Moves(Worker, {"next"}, None)
<1>1. proc[Worker].at \in Connecting /\ Worker \in Procs
  BY DEF WorkerFails, Procs, Connecting
<1>2. job.key \in Keys
  BY <1>1 DEF ReloadInv
<1>3. proc' \in [Procs -> Place] /\ Moves(Worker, {"next"}, None)
  BY <1>1, LeavesChange DEF WorkerFails, Moves
<1>4. ManagerTyped /\ WatcherTyped
  BY <1>2, TypesUnchanged DEF WorkerFails, ManagerTyped, TypeOK
<1> QED
  BY <1>2, <1>3, <1>4, QuietStep DEF WorkerFails

LEMMA WorkerRemovesStep ==
  ASSUME TypeOK, PlacesInv, NEW k \in Keys, WorkerRemoves(k)
  PROVE  /\ TypeOK' /\ OwnKept /\ BuiltKept
         /\ clients' = [clients EXCEPT ![k] = None]
         /\ \/ clients[k] = None /\ UNCHANGED <<proc, events>>
            \/ /\ clients[k] \in Clients /\ Moves(Worker, InClose, clients[k])
               /\ NeedsClose(obj[clients[k]]) => events'[obj[clients[k]].ev].stop
<1>1. Worker \in Procs /\ job \in Jobs
  BY TypesUnchanged DEF Procs
<1>2. job' \in Jobs
  <2> DEFINE j == [job EXCEPT !.todo = @ \ {k}, !.key = k]
  <2>1. j \in Jobs
    BY <1>1 DEF Jobs
  <2> QED
    BY <2>1 DEF WorkerRemoves
<1>3. /\ clients' = [clients EXCEPT ![k] = None]
      /\ astray' = astray \ {k}
      /\ UNCHANGED <<watcher, shut, remaining, obj, life, orig, breaks, touched>>
  BY DEF WorkerRemoves
<1>4. ManagerTyped /\ WatcherTyped
  BY <1>2, <1>3, TypesUnchanged DEF ManagerTyped, TypeOK
<1>5. CASE clients[k] = None
  <2>1. UNCHANGED <<proc, events>>
    BY <1>5 DEF WorkerRemoves
  <2> QED
    BY <1>3, <1>4, <1>5, <2>1, TypesUnchanged, QuietStep
<1>6. CASE clients[k] # None
  <2>1. Closes(Worker, clients[k])
    BY <1>6 DEF WorkerRemoves
  <2>2. clients[k] \in Clients
    BY <1>6, Types
  <2> QED
    BY <1>1, <1>3, <1>4, <2>1, <2>2, CloseStep
<1> QED
  BY <1>5, <1>6

(* A process lets go of what it has closed, or of what it gave up.         *)
LEMMA DropStep ==
  ASSUME TypeOK, PlacesInv, TouchedInv, StopInv, NEW p \in Procs,
         proc[p].at \in InClose \cup {"givingUp"},
         proc[p].at = "givingUp" => UNCHANGED obj,
         Dropped(p) \/ UNCHANGED obj, UNCHANGED <<life, events, touched>>,
         WatcherTyped, ManagerTyped, AgentsTyped, proc' \in [Procs -> Place]
  PROVE  TypeOK' /\ OwnKept /\ BuiltKept
<1>1. OwnKept /\ BuiltKept /\ obj' \in [Clients -> Object]
  BY DropKeeps
<1>2. Typed
  BY <1>1, TypesUnchanged DEF Typed
<1> QED
  BY <1>1, <1>2, TypesBack

LEMMA WorkerClosedStep ==
  ASSUME TypeOK, PlacesInv, TouchedInv, StopInv, WorkerClosed
  PROVE  /\ TypeOK' /\ OwnKept /\ BuiltKept
         /\ proc[Worker].at \in InClose /\ Moves(Worker, {"next"}, None)
<1>1. proc[Worker].at \in InClose /\ Worker \in Procs /\ proc[Worker].at # "givingUp"
  BY DEF WorkerClosed, Closed, Procs, InClose
<1>2. proc' \in [Procs -> Place] /\ Moves(Worker, {"next"}, None)
  BY <1>1, LeavesChange DEF WorkerClosed, Moves
<1>3. ManagerTyped /\ WatcherTyped /\ AgentsTyped
  BY TypesUnchanged DEF WorkerClosed
<1> QED
  BY <1>1, <1>2, <1>3, DropStep DEF WorkerClosed

LEMMA WorkerEndsStep ==
  ASSUME TypeOK, PlacesInv, WorkerEnds
  PROVE  /\ TypeOK' /\ OwnKept /\ BuiltKept
         /\ Moves(Worker, {"idle"}, None)
<1>1. Worker \in Procs /\ job \in Jobs
  BY TypesUnchanged DEF Procs
<1>2. proc' \in [Procs -> Place] /\ Moves(Worker, {"idle"}, None)
  BY <1>1, LeavesChange DEF WorkerEnds, Moves
<1>3. NoJob \in Jobs
  BY DEF NoJob, Jobs, Configs
<1>4. WatcherTyped
  BY <1>1 DEF WorkerEnds, WatcherTyped, TypeOK, Jobs
<1>5. ManagerTyped
  BY <1>3 DEF WorkerEnds, ManagerTyped, TypeOK
<1> QED
  BY <1>2, <1>4, <1>5, QuietStep DEF WorkerEnds

LEMMA WorkerDiesStep ==
  ASSUME TypeOK, PlacesInv, TouchedInv, StopInv, WorkerDies
  PROVE  /\ TypeOK' /\ OwnKept /\ BuiltKept
         /\ proc[Worker].at \in InClose \cup {"givingUp"} /\ Moves(Worker, {"idle"}, None)
<1>1. proc[Worker].at \in InClose \cup {"givingUp"} /\ Worker \in Procs
  BY DEF WorkerDies, CancelledIn, Procs, InClose
<1>2. proc' \in [Procs -> Place] /\ Moves(Worker, {"idle"}, None)
  BY <1>1, LeavesChange DEF WorkerDies, Moves
<1>3. NoJob \in Jobs
  BY DEF NoJob, Jobs, Configs
<1>4. WatcherTyped
  BY DEF WorkerDies, WatcherTyped, TypeOK
<1>5. ManagerTyped
  BY <1>3 DEF WorkerDies, ManagerTyped, TypeOK
<1>6. AgentsTyped
  BY TypesUnchanged DEF WorkerDies
<1> QED
  BY <1>1, <1>2, <1>4, <1>5, <1>6, DropStep DEF WorkerDies

(* The reload task is cancelled in connect(): it begins to close the new   *)
(* client, and remembers.                                                  *)
LEMMA StopCancelsWorkerStep ==
  ASSUME TypeOK, PlacesInv, TouchedInv, StopCancelsWorker
  PROVE  /\ TypeOK' /\ OwnKept /\ BuiltKept
         /\ \/ LifeStep
            \/ /\ proc[Worker].at = "connecting" /\ proc[Worker].x \in Clients
               /\ Moves(Worker, InClose, proc[Worker].x)
               /\ NeedsClose(obj[proc[Worker].x]) => events'[obj[proc[Worker].x].ev].stop
<1>1. Worker \in Procs /\ UNCHANGED <<watcher, manager, obj, orig, breaks, touched>>
  BY DEF StopCancelsWorker, Procs
<1>2. CASE proc[Worker].at \in {"givingUp", "closing"}
  <2>1. /\ Awaits(Worker) /\ Goto(Worker, [proc[Worker] EXCEPT !.fate = "cancelled"])
        /\ Phase(proc[Worker].wait, "dying") /\ UNCHANGED events
    BY <1>2 DEF StopCancelsWorker
  <2> QED
    BY <1>1, <2>1, CancelStep, LifeStepKeeps
<1>3. CASE proc[Worker].at = "connecting"
  <2> DEFINE x == proc[Worker].x
             c == Closing(x, obj[x])
             r == [c EXCEPT !.fate = "cancelled"]
  <2>1. /\ Goto(Worker, r) /\ events' = Stopped(x, obj[x], events) /\ UNCHANGED life
    BY <1>3 DEF StopCancelsWorker
  <2>2. x \in Clients
    BY <1>1, <1>3 DEF PlacesInv, Connecting
  <2>3. obj[x] \in Object /\ events \in [Clients -> Event]
    BY <2>2, Types
  <2>4. c \in Place /\ c.at \in InClose /\ c.x = x
    BY <2>2, <2>3, ClosingPlace
  <2> HIDE DEF c
  <2>5. r \in Place /\ r.at \in InClose /\ r.x = x
    BY <2>4 DEF Place
  <2> HIDE DEF r
  <2>6. proc' \in [Procs -> Place] /\ Moves(Worker, InClose, x)
    BY <1>1, <2>1, <2>5, GotoChange DEF Moves
  <2>7. /\ events' \in [Clients -> Event]
        /\ \A y \in Clients : events[y].stop => events'[y].stop
        /\ NeedsClose(obj[x]) => events'[obj[x].ev].stop
    BY <2>1, <2>2, <2>3, StoppedChange
  <2>8. TypeOK'
    BY <1>1, <2>1, <2>6, <2>7, TypesUnchanged, TypesBack DEF Typed
  <2>9. OwnKept /\ BuiltKept
    BY <1>1, <2>1, <2>7, SameObjectsKeep
  <2> QED
    BY <1>3, <2>2, <2>6, <2>7, <2>8, <2>9
<1> QED
  BY <1>2, <1>3 DEF StopCancelsWorker

LEMMA CloserClosesStep ==
  ASSUME TypeOK, PlacesInv, NEW x \in Clients, CloserCloses(x)
  PROVE  /\ TypeOK' /\ OwnKept /\ BuiltKept
         /\ Moves(Closer, InClose, x)
         /\ NeedsClose(obj[x]) => events'[obj[x].ev].stop
<1>1. Closer \in Procs
  BY DEF Procs
<1>2. ManagerTyped /\ WatcherTyped
  BY TypesUnchanged DEF CloserCloses, ManagerTyped, TypeOK
<1> QED
  BY <1>1, <1>2, CloseStep DEF CloserCloses

LEMMA CloserDoneStep ==
  ASSUME TypeOK, PlacesInv, TouchedInv, StopInv, CloserClosed \/ CloserDies
  PROVE  /\ TypeOK' /\ OwnKept /\ BuiltKept
         /\ proc[Closer].at \in InClose /\ Moves(Closer, {"idle"}, None)
<1>1. proc[Closer].at \in InClose /\ Closer \in Procs /\ proc[Closer].at # "givingUp"
  BY DEF CloserClosed, Closed, CloserDies, CancelledIn, PlacesInv, Procs, InClose
<1>2. proc' \in [Procs -> Place] /\ Moves(Closer, {"idle"}, None)
  BY <1>1, LeavesChange DEF CloserClosed, CloserDies, Moves
<1>3. ManagerTyped
  BY TypesUnchanged DEF CloserClosed, CloserDies, ManagerTyped, TypeOK
<1>4. WatcherTyped /\ AgentsTyped
  BY TypesUnchanged DEF CloserClosed, CloserDies
<1> QED
  BY <1>1, <1>2, <1>3, <1>4, DropStep DEF CloserClosed, CloserDies

LEMMA UseStep ==
  ASSUME TypeOK, PlacesInv, NEW a \in Agents, NEW k \in Keys, Use(a, k)
  PROVE  /\ TypeOK' /\ OwnKept /\ BuiltKept
         /\ clients[k] \in Clients /\ Moves(a, {"using"}, clients[k])
<1>1. a \in Procs /\ clients[k] \in Clients
  BY Types DEF Use
<1>2. "using" \in Ats /\ None \in Waits
  BY DEF Ats, Waits
<1>3. proc' \in [Procs -> Place] /\ Moves(a, {"using"}, clients[k])
  BY <1>1, <1>2, AtPlace, GotoChange DEF Use, Moves
<1> QED
  BY <1>1, <1>3, TypesUnchanged, QuietStep DEF Use

LEMMA UseEndsStep ==
  ASSUME TypeOK, PlacesInv, NEW a \in Agents, UseEnds(a)
  PROVE  TypeOK' /\ OwnKept /\ BuiltKept /\ Moves(a, {"idle"}, None)
<1>1. proc' \in [Procs -> Place] /\ Moves(a, {"idle"}, None)
  BY Types, LeavesChange DEF UseEnds, Moves
<1> QED
  BY <1>1, TypesUnchanged, QuietStep DEF UseEnds

LEMMA BrokenChange ==
  ASSUME TypeOK, NEW x \in Clients
  PROVE  /\ Broken(obj[x]) \in Object
         /\ [obj EXCEPT ![x] = Broken(@)] \in [Clients -> Object]
         /\ \A y \in Clients :
               /\ [obj EXCEPT ![x] = Broken(@)][y].built = obj[y].built
               /\ [obj EXCEPT ![x] = Broken(@)][y].ev = obj[y].ev
               /\ [obj EXCEPT ![x] = Broken(@)][y].task = obj[y].task
               /\ [obj EXCEPT ![x] = Broken(@)][y].oauth = obj[y].oauth
<1> DEFINE c == Broken(obj[x])
<1>1. obj[x] \in Object
  BY Types
<1>2. /\ c \in Object /\ c.built = obj[x].built /\ c.ev = obj[x].ev
      /\ c.task = obj[x].task /\ c.oauth = obj[x].oauth
  BY <1>1 DEF Broken, Object
<1>3. [obj EXCEPT ![x] = Broken(@)] = [obj EXCEPT ![x] = c]
  OBVIOUS
<1> HIDE DEF c
<1>4. \A y \in Clients : y # x => [obj EXCEPT ![x] = Broken(@)][y] = obj[y]
  BY <1>3, Types
<1>5. [obj EXCEPT ![x] = Broken(@)][x] = c
  BY <1>3, Types
<1> QED
  BY <1>2, <1>3, <1>4, <1>5, Types DEF c

LEMMA ReloadingChange ==
  ASSUME TypeOK, NEW x \in Clients
  PROVE  /\ Reloading(obj[x], events) \in [Clients -> Event]
         /\ \A y \in Clients : Reloading(obj[x], events)[y].stop = events[y].stop
<1>1. obj[x].ev \in Clients
  BY Types DEF Object
<1>2. /\ [events EXCEPT ![obj[x].ev].reload = TRUE] \in [Clients -> Event]
      /\ \A y \in Clients : [events EXCEPT ![obj[x].ev].reload = TRUE][y].stop = events[y].stop
  BY <1>1, FieldChange
<1> QED
  BY <1>2, Types DEF Reloading

LEMMA OneMoreBreak ==
  ASSUME TypeOK, breaks < MaxBreaks, breaks' = breaks + 1
  PROVE  breaks' \in 0..MaxBreaks
BY ConstantsAssumption DEF TypeOK

LEMMA CallBreaksStep ==
  ASSUME TypeOK, PlacesInv, NEW a \in Agents, CallBreaks(a)
  PROVE  TypeOK' /\ OwnKept /\ BuiltKept /\ Moves(a, {"idle"}, None)
         /\ \A x \in Clients : obj'[x].ev = obj[x].ev
<1> DEFINE x == proc[a].x
<1>1. a \in Procs /\ x \in Clients
  BY Types DEF CallBreaks, PlacesInv
<1>2. /\ obj' = [obj EXCEPT ![x] = Broken(@)]
      /\ events' = Reloading(obj[x], events)
      /\ Goto(a, Idle)
      /\ breaks < MaxBreaks /\ breaks' = breaks + 1
      /\ UNCHANGED <<watcher, manager, life, orig, touched>>
  BY DEF CallBreaks
<1> HIDE DEF x
<1>3. proc' \in [Procs -> Place] /\ Moves(a, {"idle"}, None)
  BY <1>1, <1>2, LeavesChange DEF Moves
<1>4. /\ obj' \in [Clients -> Object]
      /\ \A y \in Clients : /\ obj'[y].built = obj[y].built
                            /\ obj'[y].ev = obj[y].ev
                            /\ obj'[y].task = obj[y].task
                            /\ obj'[y].oauth = obj[y].oauth
  BY <1>1, <1>2, BrokenChange
<1>5. /\ events' \in [Clients -> Event]
      /\ \A y \in Clients : events'[y].stop = events[y].stop
  BY <1>1, <1>2, ReloadingChange
<1>6. AgentsTyped
  BY <1>2, OneMoreBreak DEF TypeOK, AgentsTyped
<1>7. TypeOK'
  BY <1>2, <1>3, <1>4, <1>5, <1>6, TypesUnchanged, TypesBack DEF Typed
<1>8. \A l \in Lives : OwnLife(l)' => Going(l) /\ life'[l].self = life[l].self
  BY <1>2 DEF OwnLife, Going
<1>9. OwnKept
  BY <1>2, <1>4, <1>5, <1>8, OwnKeptWhen
<1> QED
  BY <1>3, <1>4, <1>7, <1>9 DEF BuiltKept

LEMMA ListBreaksStep ==
  ASSUME TypeOK, PlacesInv, NEW a \in Agents, ListBreaks(a)
  PROVE  /\ TypeOK' /\ OwnKept /\ BuiltKept
         /\ proc[a].x \in Clients /\ Moves(a, InClose, proc[a].x)
         /\ \A x \in Clients : obj'[x].ev = obj[x].ev
<1> DEFINE x == proc[a].x
           b == Broken(obj[x])
<1>1. a \in Procs /\ x \in Clients
  BY Types DEF ListBreaks, PlacesInv
<1>2. /\ orig' = [orig EXCEPT ![a] = x] /\ touched' = touched \cup {x}
      /\ breaks < MaxBreaks /\ breaks' = breaks + 1
      /\ UNCHANGED <<watcher, manager, life>>
  BY DEF ListBreaks
<1>3. \/ /\ obj' = [obj EXCEPT ![x] = Broken(@)]
         /\ Goto(a, Closing(x, b))
         /\ events' = Stopped(x, b, Reloading(obj[x], events))
      \/ Closes(a, x) /\ UNCHANGED obj
  BY DEF ListBreaks
<1> HIDE DEF x
<1>4. /\ proc' \in [Procs -> Place] /\ Moves(a, InClose, x)
      /\ obj' \in [Clients -> Object]
      /\ \A y \in Clients : /\ obj'[y].built = obj[y].built
                            /\ obj'[y].ev = obj[y].ev
                            /\ obj'[y].task = obj[y].task
                            /\ obj'[y].oauth = obj[y].oauth
      /\ events' \in [Clients -> Event]
      /\ \A y \in Clients : events[y].stop => events'[y].stop
  <2>1. CASE Closes(a, x) /\ UNCHANGED obj
    BY <1>1, <2>1, ClosesChange, TypesUnchanged DEF Moves
  <2>2. CASE /\ obj' = [obj EXCEPT ![x] = Broken(@)]
             /\ Goto(a, Closing(x, b))
             /\ events' = Stopped(x, b, Reloading(obj[x], events))
    <3>1. b \in Object
      BY <1>1, BrokenChange
    <3>2. /\ Closing(x, b) \in Place /\ Closing(x, b).at \in InClose /\ Closing(x, b).x = x
      BY <1>1, <3>1, ClosingPlace
    <3>3. proc' \in [Procs -> Place] /\ Moves(a, InClose, x)
      BY <1>1, <2>2, <3>2, GotoChange DEF Moves
    <3>4. /\ obj' \in [Clients -> Object]
          /\ \A y \in Clients : /\ obj'[y].built = obj[y].built
                                /\ obj'[y].ev = obj[y].ev
                                /\ obj'[y].task = obj[y].task
                                /\ obj'[y].oauth = obj[y].oauth
      BY <1>1, <2>2, BrokenChange
    <3> DEFINE ev == Reloading(obj[x], events)
    <3>5. ev \in [Clients -> Event] /\ \A y \in Clients : ev[y].stop = events[y].stop
      BY <1>1, ReloadingChange
    <3>6. events' = Stopped(x, b, ev)
      BY <2>2
    <3> HIDE DEF ev, b
    <3>7. /\ events' \in [Clients -> Event]
          /\ \A y \in Clients : events[y].stop => events'[y].stop
      BY <1>1, <3>1, <3>5, <3>6, StoppedChange
    <3> QED
      BY <3>3, <3>4, <3>7
  <2> QED
    BY <1>3, <2>1, <2>2
<1>5. AgentsTyped
  BY <1>1, <1>2, OneMoreBreak DEF TypeOK, AgentsTyped
<1>6. TypeOK'
  BY <1>2, <1>4, <1>5, TypesUnchanged, TypesBack DEF Typed
<1>7. \A l \in Lives : OwnLife(l)' => Going(l) /\ life'[l].self = life[l].self
  BY <1>2 DEF OwnLife, Going
<1>8. OwnKept
  BY <1>2, <1>4, <1>7, OwnKeptWhen
<1> QED
  BY <1>1, <1>4, <1>6, <1>8 DEF BuiltKept, x

LEMMA AgentClosedStep ==
  ASSUME TypeOK, PlacesInv, TouchedInv, StopInv, NEW a \in Agents, AgentClosed(a)
  PROVE  /\ TypeOK' /\ OwnKept /\ BuiltKept
         /\ proc[a].at \in InClose /\ Moves(a, {"reconnect"}, orig[a])
         /\ \A x \in Clients : obj'[x].ev = obj[x].ev
<1>1. a \in Procs /\ proc[a].at \in InClose /\ proc[a].at # "givingUp" /\ orig[a] \in Clients \cup {None}
  BY Types DEF AgentClosed, Closed, InClose
<1>2. "reconnect" \in Ats /\ None \in Waits
  BY DEF Ats, Waits
<1>3. proc' \in [Procs -> Place] /\ Moves(a, {"reconnect"}, orig[a])
  BY <1>1, <1>2, AtPlace, GotoChange DEF AgentClosed, Moves
<1>4. ManagerTyped /\ WatcherTyped /\ AgentsTyped
  BY TypesUnchanged DEF AgentClosed
<1>5. proc[a].x \in Clients
  BY <1>1 DEF PlacesInv
<1>6. \A x \in Clients : obj'[x].ev = obj[x].ev
  BY <1>1, <1>5, DroppedChange DEF AgentClosed
<1> QED
  BY <1>1, <1>3, <1>4, <1>6, DropStep DEF AgentClosed

LEMMA AgentReconnectsStep ==
  ASSUME TypeOK, PlacesInv, TouchedInv, NEW a \in Agents, AgentReconnects(a)
  PROVE  /\ TypeOK' /\ OwnKept /\ BuiltKept
         /\ orig[a] \in Clients
         /\ Moves(a, {"rebuild"}, None) \/ Moves(a, {"connecting"}, orig[a])
         /\ \A x \in Clients : obj'[x].ev = obj[x].ev
         /\ \A l \in Lives : Going(l)' =>
                                  \/ Going(l) /\ life'[l].self = life[l].self
                                  \/ life'[l].self \in Clients
<1> DEFINE x == orig[a]
<1>1. a \in Procs /\ x \in Clients /\ x \in touched
  BY Types DEF AgentReconnects, PlacesInv, TouchedInv, Recovering
<1>2. UNCHANGED <<watcher, manager, orig, breaks, touched>>
  BY DEF AgentReconnects
<1>3. CASE NeedsClose(obj[x])
  <2>1. Goto(a, At("rebuild", None, None)) /\ UNCHANGED <<obj, events, life>>
    BY <1>3 DEF AgentReconnects
  <2>2. proc' \in [Procs -> Place] /\ Moves(a, {"rebuild"}, None)
    BY <1>1, <2>1, LeavesChange DEF Moves
  <2>3. \A l \in Lives : Going(l)' => Going(l) /\ life'[l].self = life[l].self
    BY <2>1 DEF Going
  <2>4. TypeOK' /\ OwnKept /\ BuiltKept
    BY <1>2, <2>1, <2>2, TypesUnchanged, QuietStep
  <2> QED
    BY <1>1, <2>1, <2>2, <2>3, <2>4
<1>4. CASE ~NeedsClose(obj[x])
  <2>1. Connects(a, x, obj[x]) /\ events' = [events EXCEPT ![obj[x].ev].stop = FALSE]
    BY <1>4 DEF AgentReconnects
  <2> HIDE DEF x
  <2>2. obj[x] \in Object
    BY <1>1, Types
  <2>3. PICK l \in Lives :
         /\ ~Alive(l)
         /\ life' \in [Lives -> Lifecycle]
         /\ life'[l].phase = "connecting" /\ life'[l].self = x
         /\ \A m \in Lives \ {l} : life'[m] = life[m]
         /\ obj' \in [Clients -> Object]
         /\ obj'[x].built = obj[x].built /\ obj'[x].ev = obj[x].ev
         /\ obj'[x].task = l /\ ~obj'[x].oauth
         /\ \A y \in Clients \ {x} : obj'[y] = obj[y]
         /\ proc' \in [Procs -> Place]
         /\ proc'[a].at = "connecting" /\ proc'[a].x = x
         /\ \A q \in Procs \ {a} : proc'[q] = proc[q]
    BY <1>1, <2>1, <2>2, ConnectsChange
  <2>4. obj[x].ev \in Clients /\ obj[x].ev \in touched
    BY <1>1, <2>2 DEF Object, TouchedInv
  <2> DEFINE e == [events[obj[x].ev] EXCEPT !.stop = FALSE]
  <2>5. events' = [events EXCEPT ![obj[x].ev] = e]
    BY <2>1
  <2>6. e \in Event
    BY <2>4, Types DEF Event
  <2> HIDE DEF e
  <2>7. events' \in [Clients -> Event] /\ \A y \in Clients \ touched : events'[y] = events[y]
    BY <2>4, <2>5, <2>6, Types
  <2>8. TypeOK'
    BY <1>2, <2>3, <2>7, TypesUnchanged, TypesBack DEF Typed
  <2>9. \A m \in Lives : OwnLife(m)' => Going(m) /\ life'[m].self = life[m].self
    BY <1>1, <1>2, <2>3 DEF OwnLife, Going
  <2>10. OwnKept
    BY <1>1, <1>2, <2>3, <2>7, <2>9, OwnKeptWhen
  <2>11. BuiltKept
    BY <2>3 DEF BuiltKept
  <2>12. Moves(a, {"connecting"}, x)
    BY <2>3 DEF Moves
  <2>13. \A m \in Lives : Going(m)' =>
                               \/ Going(m) /\ life'[m].self = life[m].self
                               \/ life'[m].self \in Clients
    BY <1>1, <2>3 DEF Going
  <2>14. \A y \in Clients : obj'[y].ev = obj[y].ev
    BY <2>3
  <2> QED
    BY <1>1, <2>8, <2>10, <2>11, <2>12, <2>13, <2>14 DEF x
<1> QED
  BY <1>3, <1>4

LEMMA AgentRebuildsStep ==
  ASSUME TypeOK, PlacesInv, NEW a \in Agents, AgentRebuilds(a)
  PROVE  /\ TypeOK' /\ OwnKept /\ BuiltKept
         /\ orig[a] \in Clients
         /\ \E y \in FreeClients :
               /\ Moves(a, {"connecting"}, y)
               /\ obj'[y].built = obj[orig[a]].built /\ obj'[y].ev = y
               /\ \A x \in Clients \ {y} : obj'[x] = obj[x]
               /\ touched' = touched \cup {y}
               /\ \A l \in Lives : Going(l)' =>
                                        \/ Going(l) /\ life'[l].self = life[l].self
                                        \/ life'[l].self = y
<1>1. a \in Procs /\ a # Worker /\ orig[a] \in Clients
  BY Types, ConstantsAssumption DEF AgentRebuilds, PlacesInv, Recovering
<1>2. obj[orig[a]].built \in Versions \cup {Off}
  BY <1>1, Types DEF Object
<1>3. /\ ConnectsNew(a, obj[orig[a]].built)
      /\ UNCHANGED <<watcher, manager, orig, breaks>>
  BY DEF AgentRebuilds
<1>4. PICK y \in FreeClients, l \in Lives :
         /\ ~Alive(l)
         /\ life' \in [Lives -> Lifecycle]
         /\ life'[l].phase = "connecting" /\ life'[l].self = y
         /\ \A m \in Lives \ {l} : life'[m] = life[m]
         /\ obj' \in [Clients -> Object]
         /\ obj'[y].built = obj[orig[a]].built /\ obj'[y].ev = y
         /\ obj'[y].task = l /\ ~obj'[y].oauth
         /\ \A x \in Clients \ {y} : obj'[x] = obj[x]
         /\ proc' \in [Procs -> Place]
         /\ proc'[a].at = "connecting" /\ proc'[a].x = y
         /\ \A q \in Procs \ {a} : proc'[q] = proc[q]
         /\ events' \in [Clients -> Event]
         /\ \A x \in Clients \ {y} : events'[x] = events[x]
         /\ touched' = IF a = Worker THEN touched \ {y} ELSE touched \cup {y}
  BY <1>1, <1>2, <1>3, NewChange
<1>5. touched' = touched \cup {y} /\ y \in Clients
  BY <1>1, <1>4 DEF FreeClients
<1>6. AgentsTyped
  BY <1>3, <1>5 DEF TypeOK, AgentsTyped
<1>7. TypeOK'
  BY <1>3, <1>4, <1>6, TypesUnchanged, TypesBack DEF Typed
<1>8. \A m \in Lives : OwnLife(m)' => Going(m) /\ life'[m].self = life[m].self
  BY <1>4, <1>5 DEF OwnLife, Going
<1>9. OwnKept
  BY <1>4, <1>5, <1>8, OwnKeptWhen
<1>10. \A m \in Lives : Going(m)' =>
                             \/ Going(m) /\ life'[m].self = life[m].self
                             \/ life'[m].self = y
  BY <1>4 DEF Going
<1>11. Moves(a, {"connecting"}, y) /\ BuiltKept
  BY <1>4 DEF Moves, BuiltKept
<1> QED
  BY <1>1, <1>4, <1>5, <1>7, <1>9, <1>10, <1>11

LEMMA AgentConnectedStep ==
  ASSUME TypeOK, PlacesInv, TouchedInv, ReloadInv, NEW a \in Agents, AgentConnected(a)
  PROVE  /\ TypeOK' /\ OwnKept /\ BuiltKept
         /\ orig[a] \in Clients /\ proc[a].x \in Clients /\ proc[a].x \in touched
         /\ Moves(a, {"calling"}, orig[a])
         /\ obj' = [obj EXCEPT ![orig[a]] = obj[proc[a].x]]
         /\ \A x \in Clients : obj'[x].built = obj[x].built
<1>1. proc[a].at = "connecting" /\ a \in Procs
  BY Types DEF AgentConnected
<1>2. /\ orig[a] \in Clients /\ orig[a] \in touched
      /\ proc[a].x \in Clients /\ proc[a].x \in touched
      /\ obj[proc[a].x].built = obj[orig[a]].built
  BY <1>1 DEF PlacesInv, TouchedInv, ReloadInv, Recovering, Connecting
<1>3. /\ obj' = [obj EXCEPT ![orig[a]] = obj[proc[a].x]]
      /\ Goto(a, At("calling", orig[a], None))
      /\ orig' = [orig EXCEPT ![a] = None]
      /\ UNCHANGED <<watcher, manager, events, life, breaks, touched>>
  BY DEF AgentConnected
<1>4. "calling" \in Ats /\ None \in Waits
  BY DEF Ats, Waits
<1>5. proc' \in [Procs -> Place] /\ Moves(a, {"calling"}, orig[a])
  BY <1>1, <1>2, <1>3, <1>4, AtPlace, GotoChange DEF Moves
<1>6. /\ obj' \in [Clients -> Object]
      /\ \A x \in Clients : obj'[x].built = obj[x].built
      /\ \A x \in Clients \ touched : obj'[x] = obj[x]
  BY <1>2, <1>3, Types
<1>7. AgentsTyped
  BY <1>3 DEF TypeOK, AgentsTyped
<1>8. TypeOK'
  BY <1>3, <1>5, <1>6, <1>7, TypesUnchanged, TypesBack DEF Typed
<1>9. \A l \in Lives : OwnLife(l)' => Going(l) /\ life'[l].self = life[l].self
  BY <1>3 DEF OwnLife, Going
<1>10. OwnKept
  BY <1>3, <1>6, <1>9, OwnKeptWhen
<1> QED
  BY <1>2, <1>3, <1>5, <1>6, <1>8, <1>10 DEF BuiltKept

(* An agent that goes idle or on to rebuild, and perhaps forgets.          *)
LEMMA AgentRefusedStep ==
  ASSUME TypeOK, PlacesInv, NEW a \in Agents, AgentRefused(a)
  PROVE  /\ TypeOK' /\ OwnKept /\ BuiltKept
         /\ proc[a].at \in Connecting
         /\ \/ Moves(a, {"rebuild"}, None) /\ UNCHANGED orig
            \/ Moves(a, {"idle"}, None) /\ orig' = [orig EXCEPT ![a] = None]
<1>1. a \in Procs /\ UNCHANGED <<watcher, manager, obj, events, life, breaks, touched>>
  BY Types DEF AgentRefused
<1>2. /\ proc' \in [Procs -> Place]
      /\ \/ Moves(a, {"rebuild"}, None) /\ UNCHANGED orig
         \/ Moves(a, {"idle"}, None) /\ orig' = [orig EXCEPT ![a] = None]
  BY <1>1, LeavesChange DEF AgentRefused, Moves
<1>3. AgentsTyped
  BY <1>1, <1>2 DEF TypeOK, AgentsTyped
<1>4. TypeOK'
  BY <1>1, <1>2, <1>3, TypesUnchanged, TypesBack DEF Typed
<1>5. OwnKept /\ BuiltKept
  BY <1>1, SameObjectsKeep
<1> QED
  BY <1>2, <1>4, <1>5 DEF AgentRefused, Connecting

LEMMA CancelAgentStep ==
  ASSUME TypeOK, PlacesInv, TouchedInv, NEW a \in Agents, CancelAgent(a)
  PROVE  /\ TypeOK' /\ OwnKept /\ BuiltKept
         /\ \/ LifeStep
            \/ /\ Moves(a, {"idle"}, None) /\ orig' = [orig EXCEPT ![a] = None]
               /\ UNCHANGED <<obj, life, touched>>
<1>1. a \in Procs /\ UNCHANGED <<watcher, manager, obj, events, breaks, touched>>
  BY Types DEF CancelAgent
<1>2. CASE Goto(a, Idle) /\ orig' = [orig EXCEPT ![a] = None] /\ UNCHANGED life
  <2>1. proc' \in [Procs -> Place] /\ Moves(a, {"idle"}, None)
    BY <1>1, <1>2, LeavesChange DEF Moves
  <2>2. AgentsTyped
    BY <1>1, <1>2 DEF TypeOK, AgentsTyped
  <2>3. TypeOK'
    BY <1>1, <1>2, <2>1, <2>2, TypesUnchanged, TypesBack DEF Typed
  <2>4. OwnKept /\ BuiltKept
    BY <1>1, <1>2, SameObjectsKeep
  <2> QED
    BY <1>1, <1>2, <2>1, <2>3, <2>4
<1>3. CASE /\ Awaits(a) /\ Goto(a, [proc[a] EXCEPT !.fate = "cancelled"])
           /\ Phase(proc[a].wait, "dying") /\ UNCHANGED orig
  BY <1>1, <1>3, CancelStep, LifeStepKeeps
<1> QED
  BY <1>2, <1>3 DEF CancelAgent

LEMMA AgentDiesStep ==
  ASSUME TypeOK, PlacesInv, TouchedInv, StopInv, NEW a \in Agents, AgentDies(a)
  PROVE  /\ TypeOK' /\ OwnKept /\ BuiltKept
         /\ Moves(a, {"idle"}, None) /\ orig' = [orig EXCEPT ![a] = None]
         /\ \A x \in Clients : obj'[x].ev = obj[x].ev
<1>1. a \in Procs /\ proc[a].at \in InClose \cup {"givingUp"}
  BY Types DEF AgentDies, CancelledIn, InClose
<1>2. proc' \in [Procs -> Place] /\ Moves(a, {"idle"}, None)
  BY <1>1, LeavesChange DEF AgentDies, Moves
<1>3. ManagerTyped /\ WatcherTyped
  BY TypesUnchanged DEF AgentDies
<1>4. AgentsTyped
  BY DEF AgentDies, TypeOK, AgentsTyped
<1>5. proc[a].x \in Clients
  BY <1>1 DEF PlacesInv, Connecting
<1>6. \A x \in Clients : obj'[x].ev = obj[x].ev
  BY <1>1, <1>5, DroppedChange DEF AgentDies
<1> QED
  BY <1>1, <1>2, <1>3, <1>4, <1>6, DropStep DEF AgentDies
-----------------------------------------------------------------------------
(***************************************************************************)
(* The kinds of steps                                                      *)
(***************************************************************************)

WatcherOrEnd == Edit \/ CheckFails \/ Stop \/ CloseAllEnds \/ CloseAll

CancelsNew == StopCancelsWorker /\ ~LifeStep

WorkerStep ==
  \/ WorkerConnected \/ WorkerFails \/ WorkerClosed \/ WorkerEnds \/ WorkerDies
  \/ \E k \in Keys : WorkerRemoves(k)
  \/ Check \/ CancelsNew

CloserStep == CloserClosed \/ CloserDies \/ \E x \in Clients : CloserCloses(x)

AgentStep(a) ==
  \/ \E k \in Keys : Use(a, k)
  \/ UseEnds(a) \/ CallBreaks(a) \/ ListBreaks(a) \/ AgentClosed(a)
  \/ AgentReconnects(a) \/ AgentRebuilds(a) \/ AgentConnected(a)
  \/ AgentRefused(a) \/ (CancelAgent(a) /\ ~LifeStep) \/ AgentDies(a)

LEMMA WaitsTooLongStep ==
  ASSUME TypeOK, NEW p \in Procs, WaitsTooLong(p)
  PROVE  TypeOK' /\ LifeStep
BY CancelStep DEF WaitsTooLong

LEMMA Steps ==
  ASSUME TypeOK, PlacesInv, TouchedInv, Next
  PROVE  \/ TypeOK' /\ LifeStep
         \/ \E p \in Procs : TimesOut(p)
         \/ \E k \in Keys : WorkerConnects(k)
         \/ WatcherOrEnd \/ WorkerStep \/ CloserStep
         \/ \E a \in Agents : AgentStep(a)
BY LifeActions, WaitsTooLongStep, CancelAgentStep, StopCancelsWorkerStep
   DEF Next, WatcherOrEnd, WorkerStep, CloserStep, AgentStep, CancelsNew

LEMMA AgentStepKeeps ==
  ASSUME TypeOK, PlacesInv, TouchedInv, StopInv, ReloadInv, NEW a \in Agents, AgentStep(a)
  PROVE  /\ TypeOK' /\ OwnKept /\ BuiltKept
         /\ UNCHANGED <<watcher, manager>>
         /\ \A q \in Procs \ {a} : proc'[q].at = proc[q].at /\ proc'[q].x = proc[q].x
<1>1. CASE \E k \in Keys : Use(a, k)
  BY <1>1, UseStep DEF Use, Moves
<1>2. CASE UseEnds(a)
  BY <1>2, UseEndsStep DEF UseEnds, Moves
<1>3. CASE CallBreaks(a)
  BY <1>3, CallBreaksStep DEF CallBreaks, Moves
<1>4. CASE ListBreaks(a)
  BY <1>4, ListBreaksStep DEF ListBreaks, Moves
<1>5. CASE AgentClosed(a)
  BY <1>5, AgentClosedStep DEF AgentClosed, Moves
<1>6. CASE AgentReconnects(a)
  BY <1>6, AgentReconnectsStep DEF AgentReconnects, Moves
<1>7. CASE AgentRebuilds(a)
  BY <1>7, AgentRebuildsStep DEF AgentRebuilds, Moves
<1>8. CASE AgentConnected(a)
  BY <1>8, AgentConnectedStep DEF AgentConnected, Moves
<1>9. CASE AgentRefused(a)
  BY <1>9, AgentRefusedStep DEF AgentRefused, Moves
<1>10. CASE CancelAgent(a) /\ ~LifeStep
  BY <1>10, CancelAgentStep DEF CancelAgent, Moves
<1>11. CASE AgentDies(a)
  BY <1>11, AgentDiesStep DEF AgentDies, Moves
<1> QED
  BY <1>1, <1>2, <1>3, <1>4, <1>5, <1>6, <1>7, <1>8, <1>9, <1>10, <1>11 DEF AgentStep

LEMMA WorkerStepKeeps ==
  ASSUME TypeOK, PlacesInv, TouchedInv, StopInv, ReloadInv, WorkerStep
  PROVE  /\ TypeOK' /\ OwnKept /\ BuiltKept
         /\ UNCHANGED <<life, remaining, shut, orig, touched>>
         /\ \A x \in Clients : obj'[x].ev = obj[x].ev /\ obj'[x].built = obj[x].built
         /\ \A q \in Procs \ {Worker} : proc'[q].at = proc[q].at /\ proc'[q].x = proc[q].x
         /\ \/ proc'[Worker].at = proc[Worker].at /\ proc'[Worker].x = proc[Worker].x
            \/ proc'[Worker].at \in {"idle", "next"} /\ proc'[Worker].x = None
            \/ proc'[Worker].at \in InClose /\ proc'[Worker].x \in Clients
<1>0. Worker \in Procs
  BY DEF Procs
<1>1. CASE WorkerConnected
  BY <1>1, WorkerConnectedStep DEF WorkerConnected, Moves
<1>2. CASE WorkerFails
  BY <1>2, WorkerFailsStep DEF WorkerFails, Moves
<1>3. CASE WorkerClosed
  <2>1. proc[Worker].x \in Clients
    BY <1>0, <1>3, WorkerClosedStep DEF PlacesInv
  <2>2. \A x \in Clients : obj'[x].ev = obj[x].ev /\ obj'[x].built = obj[x].built
    BY <1>0, <1>3, <2>1, DroppedChange DEF WorkerClosed
  <2> QED
    BY <1>3, <2>2, WorkerClosedStep DEF WorkerClosed, manager, Moves
<1>4. CASE WorkerEnds
  BY <1>4, WorkerEndsStep DEF WorkerEnds, Moves
<1>5. CASE WorkerDies
  <2>1. proc[Worker].x \in Clients
    BY <1>0, <1>5, WorkerDiesStep DEF PlacesInv, Connecting
  <2>2. \A x \in Clients : obj'[x].ev = obj[x].ev /\ obj'[x].built = obj[x].built
    BY <1>0, <1>5, <2>1, DroppedChange DEF WorkerDies
  <2> QED
    BY <1>5, <2>2, WorkerDiesStep DEF WorkerDies, Moves
<1>6. CASE \E k \in Keys : WorkerRemoves(k)
  BY <1>6, WorkerRemovesStep DEF WorkerRemoves, Moves
<1>7. CASE Check
  BY <1>7, CheckStep DEF Check, Moves
<1>8. CASE CancelsNew
  <2>1. proc[Worker].at \notin {"givingUp", "closing"}
    BY <1>8, StopCancelsWorkerStep DEF CancelsNew, InClose
  <2>2. UNCHANGED <<watcher, manager, obj, orig, breaks, touched, life>>
    BY <1>8, <2>1 DEF CancelsNew, StopCancelsWorker
  <2> QED
    BY <1>8, <2>2, StopCancelsWorkerStep DEF CancelsNew, manager, Moves
<1> QED
  BY <1>1, <1>2, <1>3, <1>4, <1>5, <1>6, <1>7, <1>8 DEF WorkerStep

LEMMA CloserStepKeeps ==
  ASSUME TypeOK, PlacesInv, TouchedInv, StopInv, CloserStep
  PROVE  /\ TypeOK' /\ OwnKept /\ BuiltKept
         /\ UNCHANGED <<watcher, clients, job, astray, life, orig, touched>>
         /\ \A x \in Clients : obj'[x].ev = obj[x].ev /\ obj'[x].built = obj[x].built
         /\ \A q \in Procs \ {Closer} : proc'[q].at = proc[q].at /\ proc'[q].x = proc[q].x
         /\ \/ proc'[Closer].at = "idle" /\ proc'[Closer].x = None
            \/ proc'[Closer].at \in InClose /\ proc'[Closer].x \in Clients
<1>0. Closer \in Procs
  BY DEF Procs
<1>1. CASE CloserClosed \/ CloserDies
  <2>1. proc[Closer].x \in Clients
    BY <1>0, <1>1, CloserDoneStep DEF PlacesInv
  <2>2. \A x \in Clients : obj'[x].ev = obj[x].ev /\ obj'[x].built = obj[x].built
    BY <1>0, <1>1, <2>1, DroppedChange DEF CloserClosed, CloserDies
  <2> QED
    BY <1>1, <2>2, CloserDoneStep DEF CloserClosed, CloserDies, manager, Moves
<1>2. CASE \E x \in Clients : CloserCloses(x)
  BY <1>2, CloserClosesStep DEF CloserCloses, Moves
<1> QED
  BY <1>1, <1>2 DEF CloserStep

LEMMA StepKeeps ==
  ASSUME TypeOK, PlacesInv, TouchedInv, StopInv, ReloadInv, Next
  PROVE  TypeOK' /\ BuiltKept /\ (OwnKept \/ \E k \in Keys : WorkerConnects(k))
BY Steps, LifeStepKeeps, TimesOutStep, WorkerConnectsStep, WatcherStep, WorkerStepKeeps,
   CloserStepKeeps, AgentStepKeeps DEF WatcherOrEnd

-----------------------------------------------------------------------------
(***************************************************************************)
(* Where everybody is                                                      *)
(***************************************************************************)

LEMMA AgentPlaces ==
  ASSUME TypeOK, PlacesInv, TouchedInv, StopInv, ReloadInv, NEW a \in Agents, AgentStep(a)
  PROVE  /\ \A l \in Lives : Going(l)' => life'[l].self \in Clients
         /\ proc'[a].at \in Connecting \cup InClose \cup {"using", "calling"} =>
               proc'[a].x \in Clients
         /\ proc'[a].at \in Recovering => orig'[a] \in Clients
         /\ proc'[a].at # "next"
         /\ \A b \in Agents \ {a} : orig'[b] = orig[b]
<1>0. a \in Procs
  BY Types
<1>1. CASE \/ \E k \in Keys : Use(a, k)
           \/ UseEnds(a) \/ CallBreaks(a) \/ AgentRefused(a) \/ AgentDies(a)
           \/ AgentConnected(a) \/ (CancelAgent(a) /\ ~LifeStep)
  <2>1. UNCHANGED life
    BY <1>1, CancelAgentStep
       DEF Use, UseEnds, CallBreaks, AgentRefused, AgentDies, AgentConnected
  <2>2. \A l \in Lives : Going(l)' => life'[l].self \in Clients
    BY <2>1 DEF PlacesInv, Going
  <2>3. /\ proc'[a].at \in {"using", "idle", "rebuild", "calling"}
        /\ proc'[a].at \in {"using", "calling"} => proc'[a].x \in Clients
        /\ proc'[a].at = "rebuild" => UNCHANGED orig /\ proc[a].at \in Connecting
    BY <1>1, UseStep, UseEndsStep, CallBreaksStep, AgentRefusedStep, AgentDiesStep,
       AgentConnectedStep, CancelAgentStep DEF Moves
  <2>4. \A b \in Agents \ {a} : orig'[b] = orig[b]
    BY <1>1, Types, CancelAgentStep
       DEF Use, UseEnds, CallBreaks, AgentRefused, AgentDies, AgentConnected
  <2>5. proc'[a].at = "rebuild" => orig'[a] \in Clients
    BY <2>3 DEF PlacesInv, Recovering
  <2> QED
    BY <2>2, <2>3, <2>4, <2>5 DEF Recovering, Connecting, InClose
<1>2. CASE ListBreaks(a) \/ AgentClosed(a)
  <2>1. UNCHANGED life
    BY <1>2 DEF ListBreaks, AgentClosed
  <2>2. \A l \in Lives : Going(l)' => life'[l].self \in Clients
    BY <2>1 DEF PlacesInv, Going
  <2>3. CASE ListBreaks(a)
    BY <1>0, <2>2, <2>3, ListBreaksStep, Types DEF ListBreaks, Moves, InClose
  <2>4. CASE AgentClosed(a)
    <3>1. orig[a] \in Clients /\ UNCHANGED orig
      BY <2>4, AgentClosedStep DEF AgentClosed, PlacesInv, Recovering
    <3> QED
      BY <2>2, <2>4, <3>1, AgentClosedStep DEF Moves, Connecting, InClose
  <2> QED
    BY <1>2, <2>3, <2>4
<1>3. CASE AgentReconnects(a)
  BY <1>3, AgentReconnectsStep DEF AgentReconnects, PlacesInv, Moves, Connecting, InClose
<1>4. CASE AgentRebuilds(a)
  BY <1>4, AgentRebuildsStep DEF AgentRebuilds, PlacesInv, Moves, FreeClients
<1> QED
  BY <1>1, <1>2, <1>3, <1>4 DEF AgentStep

LEMMA PlacesStep ==
  ASSUME TypeOK, PlacesInv, TouchedInv, StopInv, ReloadInv, Next
  PROVE  PlacesInv'
<1>0. /\ Worker \in Procs /\ Closer \in Procs /\ Worker # Closer
      /\ \A a \in Agents : a \in Procs /\ a # Worker /\ a # Closer
      /\ \A p \in Procs : p = Worker \/ p = Closer \/ p \in Agents
  BY ConstantsAssumption DEF Procs
<1>1. CASE TypeOK' /\ LifeStep
  BY <1>0, <1>1 DEF LifeStep, SamePlaces, PlacesInv
<1>2. CASE \E p \in Procs : TimesOut(p)
  <2>1. PICK p \in Procs : TimesOut(p)
    BY <1>2
  <2>2. /\ proc[p].at = "connecting" /\ proc'[p].at = "givingUp" /\ proc'[p].x = proc[p].x
        /\ \A q \in Procs \ {p} : proc'[q].at = proc[q].at /\ proc'[q].x = proc[q].x
    BY <2>1, TimesOutStep DEF Moves
  <2>3. UNCHANGED <<life, orig>>
    BY <2>1 DEF TimesOut
  <2>4. p # Closer
    BY <2>2 DEF PlacesInv, InClose
  <2> QED
    BY <1>0, <2>2, <2>3, <2>4 DEF PlacesInv, Connecting, InClose, Recovering, Going
<1>3. CASE \E k \in Keys : WorkerConnects(k)
  <2>1. PICK k \in Keys : WorkerConnects(k)
    BY <1>3
  <2>2. PICK y \in FreeClients, l \in Lives :
           /\ Moves(Worker, {"connecting"}, y)
           /\ life'[l].self = y
           /\ \A m \in Lives \ {l} : life'[m] = life[m]
    BY <2>1, WorkerConnectsStep
  <2>3. y \in Clients /\ UNCHANGED orig
    BY <2>1 DEF FreeClients, WorkerConnects
  <2>4. \A m \in Lives : Going(m)' => life'[m].self \in Clients
    BY <2>2, <2>3 DEF PlacesInv, Going
  <2> QED
    BY <1>0, <2>2, <2>3, <2>4 DEF PlacesInv, Moves, Connecting, InClose
<1>4. CASE WatcherOrEnd
  BY <1>4 DEF WatcherOrEnd, Edit, CheckFails, Stop, CloseAllEnds, CloseAll, PlacesInv, Going
<1>5. CASE WorkerStep
  <2>1. /\ UNCHANGED <<life, orig>>
        /\ \A q \in Procs \ {Worker} : proc'[q].at = proc[q].at /\ proc'[q].x = proc[q].x
        /\ \/ proc'[Worker].at = proc[Worker].at /\ proc'[Worker].x = proc[Worker].x
           \/ proc'[Worker].at \in {"idle", "next"} /\ proc'[Worker].x = None
           \/ proc'[Worker].at \in InClose /\ proc'[Worker].x \in Clients
    BY <1>5, WorkerStepKeeps
  <2> QED
    BY <1>0, <2>1 DEF PlacesInv, Connecting, InClose, Going
<1>6. CASE CloserStep
  <2>1. /\ UNCHANGED <<life, orig>>
        /\ \A q \in Procs \ {Closer} : proc'[q].at = proc[q].at /\ proc'[q].x = proc[q].x
        /\ \/ proc'[Closer].at = "idle" /\ proc'[Closer].x = None
           \/ proc'[Closer].at \in InClose /\ proc'[Closer].x \in Clients
    BY <1>6, CloserStepKeeps
  <2> QED
    BY <1>0, <2>1 DEF PlacesInv, Connecting, InClose, Going
<1>7. CASE \E a \in Agents : AgentStep(a)
  <2>1. PICK a \in Agents : AgentStep(a)
    BY <1>7
  <2>2. \A q \in Procs \ {a} : proc'[q].at = proc[q].at /\ proc'[q].x = proc[q].x
    BY <2>1, AgentStepKeeps
  <2> QED
    BY <1>0, <2>1, <2>2, AgentPlaces DEF PlacesInv
<1> QED
  BY <1>1, <1>2, <1>3, <1>4, <1>5, <1>6, <1>7, Steps
-----------------------------------------------------------------------------
(***************************************************************************)
(* What agents have touched                                                *)
(***************************************************************************)

(* The events stay those of the same clients, and what agents touch grows. *)
LEMMA EventsTouched ==
  ASSUME TypeOK, TouchedInv, \A x \in Clients : obj'[x].ev = obj[x].ev,
         \/ touched' = touched
         \/ \E x \in Clients : touched' = touched \cup {x}
  PROVE  \A x \in Clients : IF x \in touched' THEN obj'[x].ev \in touched' ELSE obj'[x].ev = x
BY DEF TouchedInv

LEMMA AgentTouches ==
  ASSUME TypeOK, PlacesInv, TouchedInv, StopInv, ReloadInv, NEW a \in Agents, AgentStep(a)
  PROVE  /\ \A x \in Clients : IF x \in touched' THEN obj'[x].ev \in touched' ELSE obj'[x].ev = x
         /\ orig'[a] \in Clients => orig'[a] \in touched'
         /\ proc'[a].at \in Connecting \cup InClose => proc'[a].x \in touched'
<1>0. a \in Procs /\ a # Worker
  BY Types, ConstantsAssumption
<1>1. CASE \/ \E k \in Keys : Use(a, k)
           \/ UseEnds(a) \/ CallBreaks(a) \/ AgentRefused(a) \/ AgentDies(a)
           \/ (CancelAgent(a) /\ ~LifeStep)
  <2>1. touched' = touched /\ \A x \in Clients : obj'[x].ev = obj[x].ev
    BY <1>1, CallBreaksStep, AgentDiesStep, CancelAgentStep
       DEF Use, UseEnds, CallBreaks, AgentRefused, AgentDies
  <2>2. proc'[a].at \in {"using", "idle", "rebuild"}
    BY <1>1, UseStep, UseEndsStep, CallBreaksStep, AgentRefusedStep, AgentDiesStep,
       CancelAgentStep DEF Moves
  <2>3. orig'[a] = orig[a] \/ orig'[a] = None
    BY <1>1, Types, CancelAgentStep DEF Use, UseEnds, CallBreaks, AgentRefused, AgentDies
  <2>4. None \notin Clients
    BY ConstantsAssumption
  <2>5. \A x \in Clients : IF x \in touched' THEN obj'[x].ev \in touched' ELSE obj'[x].ev = x
    BY <2>1, EventsTouched
  <2> QED
    BY <2>1, <2>2, <2>3, <2>4, <2>5 DEF TouchedInv, Connecting, InClose
<1>2. CASE ListBreaks(a)
  <2>1. /\ touched' = touched \cup {proc[a].x} /\ orig'[a] = proc[a].x
    BY <1>0, <1>2, Types DEF ListBreaks
  <2>2. \A x \in Clients : IF x \in touched' THEN obj'[x].ev \in touched' ELSE obj'[x].ev = x
    BY <1>2, <2>1, EventsTouched, ListBreaksStep
  <2> QED
    BY <1>2, <2>1, <2>2, ListBreaksStep DEF Moves
<1>3. CASE AgentClosed(a)
  <2>1. touched' = touched /\ orig' = orig
    BY <1>3 DEF AgentClosed
  <2>2. \A x \in Clients : IF x \in touched' THEN obj'[x].ev \in touched' ELSE obj'[x].ev = x
    BY <1>3, <2>1, EventsTouched, AgentClosedStep
  <2> QED
    BY <1>3, <2>1, <2>2, AgentClosedStep DEF Moves, TouchedInv, Connecting, InClose
<1>4. CASE AgentReconnects(a)
  <2>1. touched' = touched /\ orig' = orig /\ orig[a] \in Clients
    BY <1>4, AgentReconnectsStep DEF AgentReconnects
  <2>2. \A x \in Clients : IF x \in touched' THEN obj'[x].ev \in touched' ELSE obj'[x].ev = x
    BY <1>4, <2>1, EventsTouched, AgentReconnectsStep
  <2>3. orig[a] \in touched
    BY <2>1 DEF TouchedInv
  <2>4. proc'[a].at = "rebuild" \/ proc'[a].x = orig[a]
    BY <1>4, AgentReconnectsStep DEF Moves
  <2> QED
    BY <2>1, <2>2, <2>3, <2>4 DEF Connecting, InClose
<1>5. CASE AgentRebuilds(a)
  <2>1. PICK y \in FreeClients :
           /\ Moves(a, {"connecting"}, y)
           /\ obj'[y].ev = y
           /\ \A x \in Clients \ {y} : obj'[x] = obj[x]
           /\ touched' = touched \cup {y}
    BY <1>5, AgentRebuildsStep
  <2>2. orig' = orig /\ y \in Clients
    BY <1>5, <2>1 DEF AgentRebuilds, FreeClients
  <2>3. \A x \in Clients : IF x \in touched' THEN obj'[x].ev \in touched' ELSE obj'[x].ev = x
    BY <2>1 DEF TouchedInv
  <2> QED
    BY <2>1, <2>2, <2>3 DEF TouchedInv, Moves
<1>6. CASE AgentConnected(a)
  <2>1. touched' = touched /\ orig' = [orig EXCEPT ![a] = None]
    BY <1>6 DEF AgentConnected
  <2>2. /\ orig[a] \in Clients /\ proc[a].x \in Clients /\ proc[a].x \in touched
        /\ proc'[a].at = "calling"
        /\ obj' = [obj EXCEPT ![orig[a]] = obj[proc[a].x]]
    BY <1>6, AgentConnectedStep DEF Moves
  <2>3. orig[a] \in touched /\ obj[proc[a].x].ev \in touched
    BY <2>2 DEF TouchedInv
  <2>4. \A x \in Clients : obj'[x] = IF x = orig[a] THEN obj[proc[a].x] ELSE obj[x]
    BY <2>2, Types
  <2>5. \A x \in Clients : IF x \in touched' THEN obj'[x].ev \in touched' ELSE obj'[x].ev = x
    BY <2>1, <2>3, <2>4 DEF TouchedInv
  <2>6. orig'[a] \notin Clients
    BY <2>1, Types, ConstantsAssumption
  <2> QED
    BY <2>2, <2>5, <2>6 DEF Connecting, InClose
<1> QED
  BY <1>1, <1>2, <1>3, <1>4, <1>5, <1>6 DEF AgentStep

LEMMA TouchedStep ==
  ASSUME TypeOK, PlacesInv, TouchedInv, StopInv, ReloadInv, Next
  PROVE  TouchedInv'
<1>0. \A a \in Agents : a \in Procs /\ a # Worker /\ a # Closer
  BY ConstantsAssumption DEF Procs
<1>1. CASE TypeOK' /\ LifeStep
  <2>1. \A x \in Clients : IF x \in touched' THEN obj'[x].ev \in touched' ELSE obj'[x].ev = x
    BY <1>1, EventsTouched DEF LifeStep
  <2> QED
    BY <1>0, <1>1, <2>1 DEF LifeStep, SamePlaces, TouchedInv
<1>2. CASE \E p \in Procs : TimesOut(p)
  <2>1. PICK p \in Procs : TimesOut(p)
    BY <1>2
  <2>2. /\ proc[p].at = "connecting" /\ proc'[p].at = "givingUp" /\ proc'[p].x = proc[p].x
        /\ \A q \in Procs \ {p} : proc'[q].at = proc[q].at /\ proc'[q].x = proc[q].x
    BY <2>1, TimesOutStep DEF Moves
  <2>3. UNCHANGED <<obj, orig, touched>>
    BY <2>1 DEF TimesOut
  <2> QED
    BY <1>0, <2>2, <2>3 DEF TouchedInv, Connecting, InClose
<1>3. CASE \E k \in Keys : WorkerConnects(k)
  <2>1. PICK k \in Keys : WorkerConnects(k)
    BY <1>3
  <2>2. PICK y \in FreeClients :
           /\ Moves(Worker, {"connecting"}, y)
           /\ obj'[y].ev = y
           /\ \A x \in Clients \ {y} : obj'[x] = obj[x]
           /\ touched' = touched \ {y}
    BY <2>1, WorkerConnectsStep
  <2>3. orig' = orig
    BY <2>1 DEF WorkerConnects
  <2>4. /\ \A p \in Procs : proc[p].x # y
        /\ \A a \in Agents : orig[a] # y
        /\ \A z \in Clients \ {y} : obj[z].ev # y
    BY <2>2 DEF FreeClients
  <2>5. \A x \in Clients : IF x \in touched' THEN obj'[x].ev \in touched' ELSE obj'[x].ev = x
    BY <2>2, <2>4 DEF TouchedInv
  <2>6. \A a \in Agents : proc'[a].at = proc[a].at /\ proc'[a].x = proc[a].x
    BY <1>0, <2>2 DEF Moves
  <2> QED
    BY <1>0, <2>2, <2>3, <2>4, <2>5, <2>6 DEF TouchedInv
<1>4. CASE WatcherOrEnd
  BY <1>4 DEF WatcherOrEnd, Edit, CheckFails, Stop, CloseAllEnds, CloseAll, TouchedInv
<1>5. CASE WorkerStep
  <2>1. /\ UNCHANGED <<orig, touched>>
        /\ \A x \in Clients : obj'[x].ev = obj[x].ev
        /\ \A q \in Procs \ {Worker} : proc'[q].at = proc[q].at /\ proc'[q].x = proc[q].x
    BY <1>5, WorkerStepKeeps
  <2> QED
    BY <1>0, <2>1 DEF TouchedInv
<1>6. CASE CloserStep
  <2>1. /\ UNCHANGED <<orig, touched>>
        /\ \A x \in Clients : obj'[x].ev = obj[x].ev
        /\ \A q \in Procs \ {Closer} : proc'[q].at = proc[q].at /\ proc'[q].x = proc[q].x
    BY <1>6, CloserStepKeeps
  <2> QED
    BY <1>0, <2>1 DEF TouchedInv
<1>7. CASE \E a \in Agents : AgentStep(a)
  <2>1. PICK a \in Agents : AgentStep(a)
    BY <1>7
  <2>2. /\ touched \subseteq touched'
        /\ \A q \in Procs \ {a} : proc'[q].at = proc[q].at /\ proc'[q].x = proc[q].x
    BY <2>1, AgentStepKeeps DEF OwnKept
  <2>3. \A b \in Agents \ {a} : orig'[b] = orig[b]
    BY <2>1, AgentPlaces
  <2> QED
    BY <1>0, <2>1, <2>2, <2>3, AgentTouches DEF TouchedInv
<1> QED
  BY <1>1, <1>2, <1>3, <1>4, <1>5, <1>6, <1>7, Steps
-----------------------------------------------------------------------------
(***************************************************************************)
(* No untouched client is let go without being told to stop                *)
(***************************************************************************)

LEMMA ToldStays ==
  ASSUME PlacesInv, OwnKept, NEW l \in Lives, OwnLife(l)'
  PROVE  /\ OwnLife(l) /\ life'[l].self = life[l].self
         /\ life[l].self \in Clients \ touched' /\ life[l].self \in Clients \ touched
         /\ HasBeenTold(l) => HasBeenTold(l)'
<1>1. OwnLife(l) /\ life'[l].self = life[l].self /\ life'[l].self \notin touched'
  BY DEF OwnKept, OwnLife
<1>2. life[l].self \in Clients \ touched
  BY <1>1, OwnLivesIn
<1> QED
  BY <1>1, <1>2 DEF OwnKept, HasBeenTold

LEMMA OwnStays ==
  ASSUME PlacesInv, TouchedInv, StopInv, OwnKept
  PROVE  /\ \A l \in Lives : OwnLife(l)' => obj'[life'[l].self].task = l \/ HasBeenTold(l)'
         /\ \A x \in Clients \ touched' : obj'[x].oauth => events'[x].stop
<1>1. ASSUME NEW l \in Lives, OwnLife(l)'
      PROVE  obj'[life'[l].self].task = l \/ HasBeenTold(l)'
  <2>1. /\ OwnLife(l) /\ life'[l].self = life[l].self
        /\ HasBeenTold(l) => HasBeenTold(l)'
    BY <1>1, ToldStays
  <2>2. obj[life[l].self].task = l \/ HasBeenTold(l)
    BY <2>1 DEF StopInv
  <2>3. obj[life[l].self].task = l => obj'[life[l].self].task = l \/ HasBeenTold(l)'
    BY <1>1 DEF OwnKept
  <2> QED
    BY <2>1, <2>2, <2>3
<1>2. ASSUME NEW x \in Clients \ touched', obj'[x].oauth
      PROVE  events'[x].stop
  BY <1>2 DEF OwnKept, StopInv
<1> QED
  BY <1>1, <1>2

(* Who begins to close a client has told all its lifecycles.               *)
LEMMA CloseTells ==
  ASSUME PlacesInv, TouchedInv, StopInv, OwnKept, NEW x \in Clients,
         NeedsClose(obj[x]) => events'[obj[x].ev].stop,
         NEW l \in Lives, OwnLife(l)', life'[l].self = x
  PROVE  HasBeenTold(l)'
<1>1. /\ OwnLife(l) /\ life[l].self = x /\ x \in Clients \ touched
      /\ HasBeenTold(l) => HasBeenTold(l)'
  BY ToldStays
<1>2. obj[x].task = l \/ HasBeenTold(l)
  BY <1>1 DEF StopInv
<1>3. obj[x].ev = x
  BY <1>1 DEF TouchedInv
<1>4. obj[x].task = l => NeedsClose(obj[x])
  BY ConstantsAssumption DEF NeedsClose
<1> QED
  BY <1>1, <1>2, <1>3, <1>4 DEF HasBeenTold

LEMMA WorkerCloses ==
  ASSUME TypeOK, PlacesInv, TouchedInv, StopInv, ReloadInv, WorkerStep,
         proc'[Worker].at \in InClose
  PROVE  \/ proc'[Worker].at = proc[Worker].at /\ proc'[Worker].x = proc[Worker].x
         \/ /\ proc'[Worker].x \in Clients
            /\ NeedsClose(obj[proc'[Worker].x]) => events'[obj[proc'[Worker].x].ev].stop
<1>1. CASE WorkerConnected
  BY <1>1, WorkerConnectedStep DEF Moves, InClose
<1>2. CASE WorkerFails \/ WorkerClosed \/ WorkerEnds \/ WorkerDies \/ Check
  BY <1>2, WorkerFailsStep, WorkerClosedStep, WorkerEndsStep, WorkerDiesStep, CheckStep
     DEF Moves, InClose
<1>3. CASE \E k \in Keys : WorkerRemoves(k)
  <2>1. PICK k \in Keys : WorkerRemoves(k)
    BY <1>3
  <2> QED
    BY <2>1, WorkerRemovesStep DEF Moves
<1>4. CASE CancelsNew
  BY <1>4, StopCancelsWorkerStep DEF CancelsNew, Moves
<1> QED
  BY <1>1, <1>2, <1>3, <1>4 DEF WorkerStep

LEMMA StopStep ==
  ASSUME TypeOK, PlacesInv, TouchedInv, StopInv, ReloadInv, Next
  PROVE  StopInv'
<1>0. /\ Worker \in Procs /\ Closer \in Procs /\ Worker # Closer
      /\ \A a \in Agents : a \in Procs /\ a # Worker /\ a # Closer
  BY ConstantsAssumption DEF Procs
<1> DEFINE Tells(p) == \A l \in Lives : OwnLife(l)' /\ life'[l].self = proc'[p].x => HasBeenTold(l)'
           Placed(p) == proc'[p].at \in InClose \cup {"givingUp"} => Tells(p)
<1>1. ASSUME OwnKept, NEW p \in {Worker, Closer},
             proc'[p].at = proc[p].at /\ proc'[p].x = proc[p].x
      PROVE  Placed(p)
  BY <1>1, ToldStays DEF StopInv
<1>2. ASSUME OwnKept, NEW p \in {Worker, Closer}, NEW x \in Clients, proc'[p].x = x,
             NeedsClose(obj[x]) => events'[obj[x].ev].stop
      PROVE  Placed(p)
  BY <1>2, CloseTells
<1>3. ASSUME OwnKept, Placed(Worker), Placed(Closer),
             shut' \in {"no", "stopping"} => remaining' = {}
      PROVE  StopInv'
  BY <1>3, OwnStays DEF StopInv
<1> HIDE DEF Placed
<1>4. CASE TypeOK' /\ LifeStep
  <2>1. OwnKept
    BY <1>4, LifeStepKeeps
  <2>2. Placed(Worker) /\ Placed(Closer)
    BY <1>0, <1>1, <1>4, <2>1 DEF LifeStep, SamePlaces
  <2>3. shut' \in {"no", "stopping"} => remaining' = {}
    BY <1>4 DEF LifeStep, manager, StopInv
  <2> QED
    BY <1>3, <2>1, <2>2, <2>3
<1>5. CASE \E p \in Procs : TimesOut(p)
  <2>1. PICK p \in Procs : TimesOut(p)
    BY <1>5
  <2>2. /\ OwnKept /\ proc[p].at = "connecting" /\ proc'[p].x = proc[p].x
        /\ events'[obj[proc[p].x].ev].stop
        /\ \A q \in Procs \ {p} : proc'[q].at = proc[q].at /\ proc'[q].x = proc[q].x
    BY <2>1, TimesOutStep DEF Moves
  <2>3. p # Closer /\ proc[p].x \in Clients
    BY <2>2 DEF PlacesInv, InClose, Connecting
  <2>4. Placed(Closer)
    BY <1>0, <1>1, <2>2, <2>3
  <2>5. Placed(Worker)
    BY <1>0, <1>1, <1>2, <2>2, <2>3
  <2>6. shut' \in {"no", "stopping"} => remaining' = {}
    BY <2>1 DEF TimesOut, manager, StopInv
  <2> QED
    BY <1>3, <2>2, <2>4, <2>5, <2>6
<1>6. CASE \E k \in Keys : WorkerConnects(k)
  <2>1. PICK k \in Keys : WorkerConnects(k)
    BY <1>6
  <2>2. PICK y \in FreeClients, l \in Lives :
           /\ Moves(Worker, {"connecting"}, y)
           /\ ~Alive(l) /\ life'[l].self = y
           /\ \A m \in Lives \ {l} : life'[m] = life[m]
           /\ obj'[y].task = l /\ ~obj'[y].oauth
           /\ \A x \in Clients \ {y} : obj'[x] = obj[x] /\ events'[x] = events[x]
           /\ touched' = touched \ {y}
    BY <2>1, WorkerConnectsStep
  <2>3. /\ y \in Clients
        /\ \A m \in Lives : life[m].self # y
        /\ \A p \in Procs : proc[p].x # y
    BY <2>2 DEF FreeClients
  <2>4. ASSUME NEW m \in Lives, OwnLife(m)', m # l
        PROVE  /\ OwnLife(m) /\ life'[m] = life[m]
               /\ obj'[life'[m].self].task = obj[life[m].self].task
               /\ HasBeenTold(m) => HasBeenTold(m)'
    <3>1. life'[m] = life[m] /\ life[m].self # y
      BY <2>2, <2>3, <2>4
    <3>2. OwnLife(m)
      BY <2>2, <2>4, <3>1 DEF OwnLife, Going
    <3> QED
      BY <2>2, <3>1, <3>2, OwnLivesIn DEF HasBeenTold
  <2>5. \A m \in Lives : OwnLife(m)' => obj'[life'[m].self].task = m \/ HasBeenTold(m)'
    BY <2>2, <2>4 DEF StopInv
  <2>6. \A x \in Clients \ touched' : obj'[x].oauth => events'[x].stop
    BY <2>2, <2>3 DEF StopInv
  <2>7. proc'[Worker].at = "connecting" /\ proc'[Closer].at = proc[Closer].at
        /\ proc'[Closer].x = proc[Closer].x
    BY <1>0, <2>2 DEF Moves
  <2>8. Placed(Worker)
    BY <2>7 DEF Placed, InClose
  <2>9. Placed(Closer)
    BY <1>0, <2>2, <2>3, <2>4, <2>7 DEF Placed, StopInv
  <2>10. shut' \in {"no", "stopping"} => remaining' = {}
    BY <2>1 DEF WorkerConnects, StopInv
  <2> QED
    BY <2>5, <2>6, <2>8, <2>9, <2>10 DEF StopInv, Placed
<1>7. CASE WatcherOrEnd
  <2>1. OwnKept /\ proc' = proc
    BY <1>7, WatcherStep DEF WatcherOrEnd, Edit, CheckFails, Stop, CloseAllEnds, CloseAll
  <2>2. Placed(Worker) /\ Placed(Closer)
    BY <1>0, <1>1, <2>1
  <2>3. shut' \in {"no", "stopping"} => remaining' = {}
    BY <1>7 DEF WatcherOrEnd, Edit, CheckFails, Stop, CloseAllEnds, CloseAll, manager, StopInv
  <2> QED
    BY <1>3, <2>1, <2>2, <2>3
<1>8. CASE WorkerStep
  <2>1. /\ OwnKept /\ UNCHANGED <<shut, remaining>>
        /\ proc'[Closer].at = proc[Closer].at /\ proc'[Closer].x = proc[Closer].x
        /\ \/ proc'[Worker].at = proc[Worker].at /\ proc'[Worker].x = proc[Worker].x
           \/ proc'[Worker].at \in {"idle", "next"}
           \/ proc'[Worker].at \in InClose
    BY <1>0, <1>8, WorkerStepKeeps
  <2>2. Placed(Closer)
    BY <1>1, <2>1
  <2>3. Placed(Worker)
    <3>1. CASE proc'[Worker].at = proc[Worker].at /\ proc'[Worker].x = proc[Worker].x
      BY <1>1, <2>1, <3>1
    <3>2. CASE proc'[Worker].at \in {"idle", "next"}
      BY <3>2 DEF Placed, InClose
    <3>3. CASE proc'[Worker].at \in InClose
      BY <1>1, <1>2, <1>8, <2>1, <3>3, WorkerCloses
    <3> QED
      BY <2>1, <3>1, <3>2, <3>3
  <2>4. shut' \in {"no", "stopping"} => remaining' = {}
    BY <2>1 DEF StopInv
  <2> QED
    BY <1>3, <2>1, <2>2, <2>3, <2>4
<1>9. CASE CloserStep
  <2>1. /\ OwnKept
        /\ proc'[Worker].at = proc[Worker].at /\ proc'[Worker].x = proc[Worker].x
    BY <1>0, <1>9, CloserStepKeeps
  <2>2. Placed(Worker)
    BY <1>1, <2>1
  <2>3. Placed(Closer)
    <3>1. CASE CloserClosed \/ CloserDies
      BY <3>1, CloserDoneStep DEF Moves, Placed, InClose
    <3>2. CASE \E x \in Clients : CloserCloses(x)
      BY <1>2, <2>1, <3>2, CloserClosesStep DEF Moves
    <3> QED
      BY <1>9, <3>1, <3>2 DEF CloserStep
  <2>4. shut' \in {"no", "stopping"} => remaining' = {}
    BY <1>9 DEF CloserStep, CloserClosed, CloserDies, CloserCloses, manager, StopInv
  <2> QED
    BY <1>3, <2>1, <2>2, <2>3, <2>4
<1>10. CASE \E a \in Agents : AgentStep(a)
  <2>1. /\ OwnKept /\ UNCHANGED manager
        /\ \A p \in {Worker, Closer} : proc'[p].at = proc[p].at /\ proc'[p].x = proc[p].x
    BY <1>0, <1>10, AgentStepKeeps
  <2>2. Placed(Worker) /\ Placed(Closer)
    BY <1>1, <2>1
  <2>3. shut' \in {"no", "stopping"} => remaining' = {}
    BY <2>1 DEF manager, StopInv
  <2> QED
    BY <1>3, <2>1, <2>2, <2>3
<1> QED
  BY <1>4, <1>5, <1>6, <1>7, <1>8, <1>9, <1>10, Steps

LEMMA NoLeakWhen ==
  ASSUME TypeOK, PlacesInv, TouchedInv, OwnKept, PlacesInv', TouchedInv', NoLeakedClient,
         shut = "cut" => shut' = "cut",
         \A l \in Lives, x \in Clients :
            OwnLife(l)' /\ life'[l].self = x /\ shut' # "cut" /\ Handled(x) =>
                Handled(x)' \/ HasBeenTold(l)'
  PROVE  NoLeakedClient'
<1> SUFFICES ASSUME NEW l \in Lives, OwnLife(l)', shut' # "cut",
                    NEW x, x = life'[l].self
             PROVE  Handled(x)' \/ events'[obj'[x].ev].stop
  BY DEF NoLeakedClient, OwnLife, Events, Handled
<1>1. /\ OwnLife(l) /\ life[l].self = x
      /\ x \in Clients \ touched' /\ x \in Clients \ touched
      /\ HasBeenTold(l) => HasBeenTold(l)'
  BY ToldStays
<1>2. obj[x].ev = x /\ obj'[x].ev = x
  BY <1>1 DEF TouchedInv
<1>3. Handled(life[l].self) \/ Events(life[l].self).stop
  BY <1>1 DEF NoLeakedClient, OwnLife
<1>4. Handled(x) \/ events[x].stop
  BY <1>1, <1>2, <1>3 DEF Events
<1>5. Handled(x)' \/ HasBeenTold(l)'
  BY <1>1, <1>4 DEF HasBeenTold
<1> QED
  BY <1>2, <1>5 DEF HasBeenTold

LEMMA SameHandled ==
  ASSUME UNCHANGED <<clients, remaining>>,
         proc'[Worker].x = proc[Worker].x, proc'[Closer].x = proc[Closer].x, NEW x
  PROVE  Handled(x)' = Handled(x)
BY DEF Handled

(* The clients that are handled.                                           *)
Hands == {clients[k] : k \in Keys} \cup remaining \cup {proc[Worker].x, proc[Closer].x}

LEMMA NoLeakStep ==
  ASSUME TypeOK, PlacesInv, TouchedInv, StopInv, ReloadInv, NoLeakedClient, Next
  PROVE  NoLeakedClient'
<1>0. /\ Worker \in Procs /\ Closer \in Procs /\ Worker # Closer
      /\ \A a \in Agents : a \in Procs /\ a # Worker /\ a # Closer
  BY ConstantsAssumption DEF Procs
<1>1. PlacesInv' /\ TouchedInv' /\ TypeOK'
  BY PlacesStep, TouchedStep, StepKeeps
<1> DEFINE LetsGo(x) == \A l \in Lives : OwnLife(l)' /\ life'[l].self = x => HasBeenTold(l)'
<1>2. ASSUME NEW p \in {Worker, Closer}, OwnKept, proc[p].at \in InClose \cup {"givingUp"}
      PROVE  LetsGo(proc[p].x)
  BY <1>2, ToldStays DEF StopInv
<1>3. ASSUME OwnKept, shut = "cut" => shut' = "cut",
             shut' # "cut" => \A x \in Clients : Handled(x) => Handled(x)' \/ LetsGo(x)
      PROVE  NoLeakedClient'
  BY <1>1, <1>3, NoLeakWhen
<1> HIDE DEF LetsGo
<1>4. CASE TypeOK' /\ LifeStep
  <2>1. OwnKept
    BY <1>4, LifeStepKeeps
  <2>2. \A x \in Clients : Handled(x)' = Handled(x)
    BY <1>0, <1>4, SameHandled DEF LifeStep, SamePlaces, manager
  <2> QED
    BY <1>3, <1>4, <2>1, <2>2 DEF LifeStep, manager
<1>5. CASE \E p \in Procs : TimesOut(p)
  <2>1. PICK p \in Procs : TimesOut(p)
    BY <1>5
  <2>2. OwnKept /\ UNCHANGED manager /\ \A q \in Procs : proc'[q].x = proc[q].x
    BY <2>1, TimesOutStep DEF Moves, TimesOut
  <2>3. \A x \in Clients : Handled(x)' = Handled(x)
    BY <1>0, <2>2, SameHandled DEF manager
  <2> QED
    BY <1>3, <2>2, <2>3 DEF manager
<1>6. CASE \E k \in Keys : WorkerConnects(k)
  <2>1. PICK k \in Keys : WorkerConnects(k)
    BY <1>6
  <2>2. PICK y \in FreeClients, l \in Lives :
           /\ Moves(Worker, {"connecting"}, y)
           /\ ~Alive(l) /\ life'[l].self = y
           /\ \A m \in Lives \ {l} : life'[m] = life[m]
           /\ \A x \in Clients \ {y} : obj'[x] = obj[x] /\ events'[x] = events[x]
           /\ touched' = touched \ {y}
    BY <2>1, WorkerConnectsStep
  <2>3. y \in Clients /\ \A m \in Lives : life[m].self # y
    BY <2>2 DEF FreeClients
  <2>4. UNCHANGED <<clients, remaining, shut>> /\ proc[Worker].at = "next"
    BY <2>1 DEF WorkerConnects
  <2>5. proc[Worker].x = None /\ proc'[Worker].x = y /\ proc'[Closer].x = proc[Closer].x
    BY <1>0, <2>2, <2>4 DEF PlacesInv, Moves
  <2>6. \A x \in Clients : x \in Hands => x \in Hands'
    BY <2>4, <2>5, ConstantsAssumption DEF Hands
  <2>7. y \in Hands'
    BY <2>5 DEF Hands
  <2>8. ASSUME NEW m \in Lives, m # l, OwnLife(m)', shut' # "cut"
        PROVE  life'[m].self \in Hands' \/ events'[obj'[life'[m].self].ev].stop
    <3> DEFINE x == life[m].self
    <3>1. life'[m] = life[m] /\ x # y /\ Going(m)
      BY <2>2, <2>3, <2>8 DEF OwnLife, Going
    <3>2. OwnLife(m)
      BY <2>2, <2>8, <3>1 DEF OwnLife
    <3>3. x \in Clients /\ x \notin touched
      BY <3>2, OwnLivesIn
    <3>4. obj[x].ev = x /\ obj'[x] = obj[x] /\ events'[x] = events[x]
      BY <2>2, <3>1, <3>3 DEF TouchedInv
    <3>5. x \in Hands \/ events[x].stop
      BY <2>4, <2>8, <3>2, <3>4 DEF NoLeakedClient, OwnLife, Events, Handled, Hands
    <3>6. x \in Hands => x \in Hands'
      BY <2>6, <3>3
    <3> QED
      BY <3>1, <3>4, <3>5, <3>6
  <2>9. life'[l].self \in Hands'
    BY <2>2, <2>7
  <2> QED
    BY <2>8, <2>9 DEF NoLeakedClient, OwnLife, Events, Handled, Hands
<1>7. CASE WatcherOrEnd
  <2>1. OwnKept /\ UNCHANGED proc
    BY <1>7, WatcherStep DEF WatcherOrEnd, Edit, CheckFails, Stop, CloseAllEnds, CloseAll
  <2>2. CASE Edit \/ CheckFails \/ Stop \/ CloseAllEnds
    <3>1. \A x \in Clients : Handled(x)' = Handled(x)
      BY <2>1, <2>2, SameHandled DEF Edit, CheckFails, Stop, CloseAllEnds, manager
    <3> QED
      BY <1>3, <2>1, <2>2, <3>1 DEF Edit, CheckFails, Stop, CloseAllEnds, manager
  <2>3. CASE CloseAll
    <3>1. /\ remaining = {} /\ shut # "cut" /\ remaining' = {clients[k] : k \in Keys} \ {None}
          /\ UNCHANGED proc
      BY <2>3 DEF CloseAll, StopInv
    <3>2. \A x \in Clients : Handled(x) => Handled(x)'
      BY <3>1, ConstantsAssumption DEF Handled
    <3> QED
      BY <1>3, <2>1, <3>1, <3>2
  <2> QED
    BY <1>7, <2>2, <2>3 DEF WatcherOrEnd
<1>8. CASE WorkerStep
  <2>2. OwnKept /\ UNCHANGED <<shut, remaining>> /\ proc'[Closer].x = proc[Closer].x
    BY <1>0, <1>8, WorkerStepKeeps
  <2>3. ASSUME \A x \in Clients : Handled(x) => Handled(x)' \/ LetsGo(x)
        PROVE  NoLeakedClient'
    BY <1>3, <2>2, <2>3
  <2>4. CASE WorkerConnected
    <3>1. /\ job.key \in Keys /\ clients' = [clients EXCEPT ![job.key] = proc[Worker].x]
          /\ \/ clients[job.key] = None
             \/ proc'[Worker].x = clients[job.key]
      BY <2>4, WorkerConnectedStep DEF Moves
    <3>2. /\ clients'[job.key] = proc[Worker].x
          /\ \A k \in Keys \ {job.key} : clients'[k] = clients[k]
      BY <3>1, Types
    <3>3. \A x \in Clients : Handled(x) => Handled(x)'
      BY <2>2, <3>1, <3>2, ConstantsAssumption DEF Handled
    <3> QED
      BY <2>3, <3>3
  <2>5. CASE WorkerFails
    <3>1. /\ UNCHANGED clients /\ proc[Worker].at \in {"connecting", "givingUp"} /\ Refused(Worker)
          /\ UNCHANGED <<life, obj, events, touched>>
      BY <2>5 DEF WorkerFails
    <3>2. proc[Worker].x \in Clients
      BY <1>0, <3>1 DEF PlacesInv, Connecting
    <3>3. LetsGo(proc[Worker].x)
      <4>1. CASE proc[Worker].at = "givingUp"
        BY <1>2, <2>2, <4>1
      <4>2. CASE proc[Worker].at = "connecting"
        <5>1. obj[proc[Worker].x].oauth
          BY <3>1, <4>2 DEF Refused
        <5>2. proc[Worker].x \notin touched => events'[proc[Worker].x].stop
          BY <3>1, <3>2, <5>1 DEF StopInv
        <5> QED
          BY <3>1, <5>2 DEF LetsGo, OwnLife, HasBeenTold
      <4> QED
        BY <3>1, <4>1, <4>2
    <3>4. \A x \in Clients : Handled(x) => Handled(x)' \/ x = proc[Worker].x
      BY <2>2, <3>1 DEF Handled
    <3> QED
      BY <2>3, <3>3, <3>4
  <2>6. CASE WorkerClosed \/ WorkerDies
    <3>1. UNCHANGED clients /\ proc[Worker].at \in InClose \cup {"givingUp"}
      BY <2>6, WorkerClosedStep, WorkerDiesStep DEF WorkerClosed, WorkerDies, manager
    <3>2. LetsGo(proc[Worker].x)
      BY <1>2, <2>2, <3>1
    <3>3. \A x \in Clients : Handled(x) => Handled(x)' \/ x = proc[Worker].x
      BY <2>2, <3>1 DEF Handled
    <3> QED
      BY <2>3, <3>2, <3>3
  <2>7. CASE WorkerEnds \/ Check
    <3>1. UNCHANGED clients /\ (proc' = proc \/ proc[Worker].at \in {"idle", "next"})
      BY <2>7, CheckStep DEF WorkerEnds, Check
    <3>2. proc' = proc \/ proc[Worker].x = None
      BY <3>1 DEF PlacesInv
    <3>3. \A x \in Clients : Handled(x) => Handled(x)'
      BY <2>2, <3>1, <3>2, ConstantsAssumption DEF Handled
    <3> QED
      BY <2>3, <3>3
  <2>8. CASE \E k \in Keys : WorkerRemoves(k)
    <3>1. PICK k \in Keys : WorkerRemoves(k)
      BY <2>8
    <3>2. /\ clients' = [clients EXCEPT ![k] = None] /\ proc[Worker].at = "next"
          /\ clients[k] = None \/ proc'[Worker].x = clients[k]
      BY <3>1, WorkerRemovesStep DEF Moves, WorkerRemoves
    <3>3. proc[Worker].x = None
      BY <3>2 DEF PlacesInv
    <3>4. \A j \in Keys \ {k} : clients'[j] = clients[j]
      BY <3>2, Types
    <3>5. \A x \in Clients : Handled(x) => Handled(x)'
      BY <2>2, <3>2, <3>3, <3>4, ConstantsAssumption DEF Handled
    <3> QED
      BY <2>3, <3>5
  <2>9. CASE CancelsNew
    <3>1. UNCHANGED clients /\ proc'[Worker].x = proc[Worker].x
      BY <2>9, StopCancelsWorkerStep DEF CancelsNew, Moves, StopCancelsWorker, manager
    <3>2. \A x \in Clients : Handled(x)' = Handled(x)
      BY <2>2, <3>1, SameHandled
    <3> QED
      BY <2>3, <3>2
  <2> QED
    BY <1>8, <2>4, <2>5, <2>6, <2>7, <2>8, <2>9 DEF WorkerStep
<1>9. CASE CloserStep
  <2>1. /\ OwnKept /\ UNCHANGED clients /\ proc'[Worker].x = proc[Worker].x
    BY <1>0, <1>9, CloserStepKeeps
  <2>2. CASE CloserClosed
    <3>1. LetsGo(proc[Closer].x)
      BY <1>2, <2>1, <2>2, CloserDoneStep
    <3>2. UNCHANGED <<shut, remaining>>
      BY <2>2 DEF CloserClosed, manager
    <3>3. \A x \in Clients : Handled(x) => Handled(x)' \/ x = proc[Closer].x
      BY <2>1, <3>2 DEF Handled
    <3> QED
      BY <1>3, <2>1, <3>1, <3>2, <3>3
  <2>3. CASE CloserDies
    BY <1>3, <2>1, <2>3 DEF CloserDies
  <2>4. CASE \E x \in Clients : CloserCloses(x)
    <3>1. PICK x \in Clients : CloserCloses(x)
      BY <2>4
    <3>2. /\ proc[Closer].at = "idle" /\ remaining' = remaining \ {x} /\ UNCHANGED shut
          /\ proc'[Closer].x = x
      BY <3>1, CloserClosesStep DEF CloserCloses, Moves
    <3>3. proc[Closer].x = None
      BY <3>2 DEF PlacesInv
    <3>4. \A z \in Clients : Handled(z) => Handled(z)'
      BY <2>1, <3>2, <3>3, ConstantsAssumption DEF Handled
    <3> QED
      BY <1>3, <2>1, <3>2, <3>4
  <2> QED
    BY <1>9, <2>2, <2>3, <2>4 DEF CloserStep
<1>10. CASE \E a \in Agents : AgentStep(a)
  <2>1. /\ OwnKept /\ UNCHANGED manager
        /\ proc'[Worker].x = proc[Worker].x /\ proc'[Closer].x = proc[Closer].x
    BY <1>0, <1>10, AgentStepKeeps
  <2>2. \A x \in Clients : Handled(x)' = Handled(x)
    BY <2>1, SameHandled DEF manager
  <2> QED
    BY <1>3, <2>1, <2>2 DEF manager
<1> QED
  BY <1>4, <1>5, <1>6, <1>7, <1>8, <1>9, <1>10, Steps
-----------------------------------------------------------------------------
(***************************************************************************)
(* The configuration                                                       *)
(***************************************************************************)

(* Clients that the manager, a process or an agent refers to are reached.  *)
LEMMA Reached ==
  ASSUME TypeOK, BuiltKept
  PROVE  /\ \A k \in Keys : clients[k] # None => obj'[clients[k]].built = obj[clients[k]].built
         /\ \A p \in Procs : proc[p].x \in Clients => obj'[proc[p].x].built = obj[proc[p].x].built
         /\ \A a \in Agents : orig[a] \in Clients => obj'[orig[a]].built = obj[orig[a]].built
BY Types DEF BuiltKept, FreeClients

LEMMA AgentBuilds ==
  ASSUME TypeOK, PlacesInv, TouchedInv, StopInv, ReloadInv, NEW a \in Agents, AgentStep(a),
         proc'[a].at \in Connecting
  PROVE  obj'[proc'[a].x].built = obj'[orig'[a]].built
<1>1. AgentReconnects(a) \/ AgentRebuilds(a)
  BY UseStep, UseEndsStep, CallBreaksStep, ListBreaksStep, AgentClosedStep, AgentConnectedStep,
     AgentRefusedStep, CancelAgentStep, AgentDiesStep
     DEF AgentStep, Moves, Connecting, InClose
<1>2. CASE AgentReconnects(a)
  BY <1>2, AgentReconnectsStep DEF AgentReconnects, Moves, Connecting
<1>3. CASE AgentRebuilds(a)
  <2>1. PICK y \in FreeClients :
           Moves(a, {"connecting"}, y) /\ obj'[y].built = obj[orig[a]].built
    BY <1>3, AgentRebuildsStep
  <2>2. obj'[orig[a]].built = obj[orig[a]].built /\ orig' = orig
    BY <1>3, AgentRebuildsStep, Reached DEF AgentRebuilds
  <2> QED
    BY <2>1, <2>2 DEF Moves
<1> QED
  BY <1>1, <1>2, <1>3

(* Connecting processes build what they were told to.                      *)
AgentsBuild == \A a \in Agents : proc[a].at \in Connecting => obj[proc[a].x].built = obj[orig[a]].built
WorkerBuilds ==
  proc[Worker].at \in Connecting =>
     /\ job.key \in Keys /\ job.target[job.key] # Off
     /\ obj[proc[Worker].x].built = job.target[job.key]

LEMMA StayBuilding ==
  ASSUME TypeOK, PlacesInv, BuiltKept
  PROVE  /\ AgentsBuild /\ orig' = orig
            /\ (\A a \in Agents : proc'[a].x = proc[a].x
                                  /\ (proc'[a].at \in Connecting => proc[a].at \in Connecting))
            => AgentsBuild'
         /\ WorkerBuilds /\ UNCHANGED job /\ proc'[Worker].x = proc[Worker].x
            /\ (proc'[Worker].at \in Connecting => proc[Worker].at \in Connecting)
            => WorkerBuilds'
<1>0. Worker \in Procs /\ \A a \in Agents : a \in Procs
  BY DEF Procs
<1>1. \A a \in Agents : proc[a].at \in Connecting => proc[a].x \in Clients /\ orig[a] \in Clients
  BY <1>0 DEF PlacesInv, Recovering
<1>2. proc[Worker].at \in Connecting => proc[Worker].x \in Clients
  BY <1>0 DEF PlacesInv
<1> QED
  BY <1>0, <1>1, <1>2, Reached DEF AgentsBuild, WorkerBuilds

LEMMA ReloadStep ==
  ASSUME TypeOK, PlacesInv, TouchedInv, StopInv, ReloadInv, Next
  PROVE  ReloadInv'
<1>0. /\ Worker \in Procs /\ Closer \in Procs /\ Worker # Closer
      /\ \A a \in Agents : a \in Procs /\ a # Worker /\ a # Closer
      /\ AgentsBuild /\ WorkerBuilds
  BY ConstantsAssumption DEF Procs, ReloadInv, AgentsBuild, WorkerBuilds
<1> DEFINE Rest ==
             /\ proc[Worker].at = "idle" <=> job.kind = "none"
             /\ job.key \notin job.todo
             /\ polling => shut = "no"
             /\ job.kind = "init" => ~polling
             /\ job.kind = "init" => shut = "no"
             /\ proc[Closer].at # "idle" => shut # "no"
<1>1. Rest
  BY DEF ReloadInv
<1>2. ASSUME Rest', AgentsBuild', WorkerBuilds'
      PROVE  ReloadInv'
  BY <1>2 DEF ReloadInv, AgentsBuild, WorkerBuilds
<1>3. BuiltKept
  BY StepKeeps
<1>4. ASSUME orig' = orig,
             \A a \in Agents : proc'[a].at = proc[a].at /\ proc'[a].x = proc[a].x
      PROVE  AgentsBuild'
  BY <1>0, <1>3, <1>4, StayBuilding
<1>5. ASSUME UNCHANGED job, proc'[Worker].at = proc[Worker].at, proc'[Worker].x = proc[Worker].x
      PROVE  WorkerBuilds'
  BY <1>0, <1>3, <1>5, StayBuilding
<1>6. CASE TypeOK' /\ LifeStep
  <2>1. /\ UNCHANGED <<polling, shut, job, orig>>
        /\ \A p \in Procs : proc'[p].at = proc[p].at /\ proc'[p].x = proc[p].x
    BY <1>6 DEF LifeStep, SamePlaces, watcher, manager
  <2>2. Rest'
    BY <1>0, <1>1, <2>1
  <2> QED
    BY <1>0, <1>2, <1>4, <1>5, <2>1, <2>2
<1>7. CASE \E p \in Procs : TimesOut(p)
  <2>1. PICK p \in Procs : TimesOut(p)
    BY <1>7
  <2>2. /\ proc[p].at = "connecting" /\ proc'[p].at = "givingUp" /\ proc'[p].x = proc[p].x
        /\ \A q \in Procs \ {p} : proc'[q].at = proc[q].at /\ proc'[q].x = proc[q].x
        /\ UNCHANGED <<watcher, manager, orig>>
    BY <2>1, TimesOutStep DEF Moves, TimesOut
  <2>3. AgentsBuild' /\ WorkerBuilds'
    BY <1>0, <1>3, <2>2, StayBuilding DEF Connecting, manager
  <2>4. p # Closer
    BY <2>2 DEF PlacesInv, InClose
  <2>5. Rest'
    BY <1>0, <1>1, <2>2, <2>4 DEF watcher, manager
  <2> QED
    BY <1>2, <2>3, <2>5
<1>8. CASE \E k \in Keys : WorkerConnects(k)
  <2>1. PICK k \in Keys : WorkerConnects(k)
    BY <1>8
  <2>2. PICK y \in FreeClients :
           /\ Moves(Worker, {"connecting"}, y)
           /\ obj'[y].built = job.target[k]
    BY <2>1, WorkerConnectsStep
  <2>3. /\ proc[Worker].at = "next" /\ job.target[k] # Off
        /\ job' = [job EXCEPT !.todo = @ \ {k}, !.key = k]
        /\ UNCHANGED <<polling, shut, orig>>
    BY <2>1 DEF WorkerConnects, watcher
  <2>4. /\ job'.kind = job.kind /\ job'.target = job.target /\ job'.key = k
        /\ job'.todo = job.todo \ {k}
    BY <2>3, TypesUnchanged DEF Jobs
  <2>5. Rest'
    BY <1>0, <1>1, <2>2, <2>3, <2>4 DEF Moves
  <2>6. WorkerBuilds'
    BY <2>2, <2>3, <2>4 DEF WorkerBuilds, Moves
  <2>7. AgentsBuild'
    BY <1>0, <1>4, <2>2, <2>3 DEF Moves
  <2> QED
    BY <1>2, <2>5, <2>6, <2>7
<1>9. CASE WatcherOrEnd
  <2>1. UNCHANGED <<proc, orig, job>>
    BY <1>9 DEF WatcherOrEnd, Edit, CheckFails, Stop, CloseAllEnds, CloseAll, manager
  <2>2. Rest'
    BY <1>1, <1>9 DEF WatcherOrEnd, Edit, CheckFails, Stop, CloseAllEnds, CloseAll, manager, watcher
  <2> QED
    BY <1>2, <1>4, <1>5, <2>1, <2>2
<1>10. CASE WorkerStep
  <2>1. /\ UNCHANGED <<shut, orig>>
        /\ \A q \in Procs \ {Worker} : proc'[q].at = proc[q].at /\ proc'[q].x = proc[q].x
        /\ \/ proc'[Worker].at = proc[Worker].at /\ proc'[Worker].x = proc[Worker].x
           \/ proc'[Worker].at \in {"idle", "next"} \cup InClose
    BY <1>10, WorkerStepKeeps
  <2>2. AgentsBuild'
    BY <1>0, <1>4, <2>1
  <2>3. CASE \/ WorkerConnected \/ WorkerFails \/ WorkerClosed \/ CancelsNew
    <3>1. UNCHANGED <<job, polling>>
      BY <2>3 DEF WorkerConnected, WorkerFails, WorkerClosed, CancelsNew, StopCancelsWorker,
                  manager, watcher
    <3>2. proc[Worker].at \notin {"idle"} /\ proc'[Worker].at # "idle"
      BY <2>3, WorkerConnectedStep, WorkerFailsStep, WorkerClosedStep, StopCancelsWorkerStep
         DEF Moves, InClose, WorkerConnected, WorkerFails, CancelsNew
    <3>3. Rest'
      BY <1>0, <1>1, <2>1, <3>1, <3>2
    <3>4. WorkerBuilds'
      <4>1. CASE proc'[Worker].at = proc[Worker].at /\ proc'[Worker].x = proc[Worker].x
        BY <1>5, <3>1, <4>1
      <4>2. CASE proc'[Worker].at \in {"idle", "next"} \cup InClose
        BY <4>2 DEF WorkerBuilds, Connecting, InClose
      <4> QED
        BY <2>1, <4>1, <4>2
    <3> QED
      BY <1>2, <2>2, <3>3, <3>4
  <2>4. CASE WorkerEnds \/ WorkerDies
    <3>1. proc'[Worker].at = "idle" /\ job' = NoJob
      BY <2>4, WorkerEndsStep, WorkerDiesStep DEF Moves, WorkerEnds, WorkerDies
    <3>2. polling' = polling \/ job.kind = "init"
      BY <2>4 DEF WorkerEnds, WorkerDies
    <3>3. None \notin {} /\ NoJob.kind = "none" /\ NoJob.key \notin NoJob.todo
      BY DEF NoJob
    <3>4. Rest'
      BY <1>0, <1>1, <2>1, <3>1, <3>2, <3>3
    <3>5. WorkerBuilds'
      BY <3>1 DEF WorkerBuilds, Connecting
    <3> QED
      BY <1>2, <2>2, <3>4, <3>5
  <2>5. CASE \E k \in Keys : WorkerRemoves(k)
    <3>1. PICK k \in Keys : WorkerRemoves(k)
      BY <2>5
    <3>2. /\ job' = [job EXCEPT !.todo = @ \ {k}, !.key = k]
          /\ proc[Worker].at = "next" /\ UNCHANGED polling
      BY <3>1 DEF WorkerRemoves, watcher
    <3>3. /\ job'.kind = job.kind /\ job'.key = k /\ job'.todo = job.todo \ {k}
      BY <3>2, TypesUnchanged DEF Jobs
    <3>4. proc'[Worker].at \in {"next"} \cup InClose
      BY <3>1, <3>2, WorkerRemovesStep DEF Moves
    <3>5. Rest'
      BY <1>0, <1>1, <2>1, <3>2, <3>3, <3>4 DEF InClose
    <3>6. WorkerBuilds'
      BY <3>4 DEF WorkerBuilds, Connecting, InClose
    <3> QED
      BY <1>2, <2>2, <3>5, <3>6
  <2>6. CASE Check
    <3>1. UNCHANGED polling /\ polling
      BY <2>6 DEF Check
    <3>2. CASE config # seen /\ proc[Worker].at = "idle"
      <4>1. proc'[Worker].at = "next"
        BY <2>6, <3>2, CheckStep DEF Moves
      <4>2. job'.kind = "reload" /\ job'.key = None /\ job'.todo \subseteq Keys
        BY <2>6, <3>2 DEF Check
      <4>3. Rest'
        BY <1>0, <1>1, <2>1, <3>1, <4>1, <4>2, ConstantsAssumption
      <4>4. WorkerBuilds'
        BY <4>1 DEF WorkerBuilds, Connecting
      <4> QED
        BY <1>2, <2>2, <4>3, <4>4
    <3>3. CASE ~(config # seen /\ proc[Worker].at = "idle")
      <4>1. UNCHANGED <<job, proc>>
        BY <2>6, <3>3 DEF Check
      <4>2. Rest'
        BY <1>1, <2>1, <3>1, <4>1
      <4> QED
        BY <1>2, <1>5, <2>2, <4>1, <4>2
    <3> QED
      BY <3>2, <3>3
  <2> QED
    BY <1>10, <2>3, <2>4, <2>5, <2>6 DEF WorkerStep
<1>11. CASE CloserStep
  <2>1. /\ UNCHANGED <<watcher, job, orig>>
        /\ \A q \in Procs \ {Closer} : proc'[q].at = proc[q].at /\ proc'[q].x = proc[q].x
    BY <1>11, CloserStepKeeps
  <2>2. shut # "no" /\ shut' # "no"
    BY <1>1, <1>11, CloserDoneStep
       DEF CloserStep, CloserClosed, CloserDies, CloserCloses, manager, StopInv, InClose
  <2>3. Rest'
    BY <1>0, <1>1, <2>1, <2>2 DEF watcher
  <2> QED
    BY <1>0, <1>2, <1>4, <1>5, <2>1, <2>3
<1>12. CASE \E a \in Agents : AgentStep(a)
  <2>1. PICK a \in Agents : AgentStep(a)
    BY <1>12
  <2>2. /\ UNCHANGED <<watcher, manager>>
        /\ \A q \in Procs \ {a} : proc'[q].at = proc[q].at /\ proc'[q].x = proc[q].x
    BY <2>1, AgentStepKeeps
  <2>3. Rest'
    BY <1>0, <1>1, <2>2 DEF watcher, manager
  <2>4. WorkerBuilds'
    BY <1>0, <1>5, <2>2 DEF manager
  <2>5. AgentsBuild'
    <3>1. ASSUME NEW b \in Agents \ {a}, proc'[b].at \in Connecting
          PROVE  obj'[proc'[b].x].built = obj'[orig'[b]].built
      <4>1. /\ proc[b].at \in Connecting /\ proc'[b].x = proc[b].x /\ orig'[b] = orig[b]
        BY <1>0, <2>1, <2>2, <3>1, AgentPlaces
      <4>2. proc[b].x \in Clients /\ orig[b] \in Clients
        BY <1>0, <4>1 DEF PlacesInv, Recovering
      <4> QED
        BY <1>0, <1>3, <4>1, <4>2, Reached DEF AgentsBuild
    <3> QED
      BY <2>1, <3>1, AgentBuilds DEF AgentsBuild
  <2> QED
    BY <1>2, <2>3, <2>4, <2>5
<1> QED
  BY <1>6, <1>7, <1>8, <1>9, <1>10, <1>11, <1>12, Steps

(* What the manager has changes with its table of clients only.            *)
LEMMA HasStays ==
  ASSUME TypeOK, BuiltKept, NEW k \in Keys, clients'[k] = clients[k], NEW v
  PROVE  Has(k, v)' = Has(k, v)
BY Reached DEF Has

(* What k should be while the worker is where it is.                       *)
Wanted(k) == IF Pending(k) THEN seen[k] ELSE job.target[k]

LEMMA ConfigStays ==
  ASSUME TypeOK, BuiltKept, ConfigInv, UNCHANGED <<clients, job, seen>>,
         proc'[Worker].at \in Connecting <=> proc[Worker].at \in Connecting,
         astray \subseteq astray',
         polling' \/ job'.kind = "init" => polling \/ job.kind = "init",
         polling' /\ ~written' /\ ~missed' => polling /\ ~written /\ ~missed /\ config' = config
  PROVE  ConfigInv'
<1>1. \A k \in Keys : Pending(k)' = Pending(k)
  BY DEF Pending
<1>2. \A k \in Keys : Has(k, seen[k])' = Has(k, seen[k]) /\ Has(k, job.target[k])' = Has(k, job.target[k])
  BY Reached DEF Has
<1>3. ASSUME polling' \/ job'.kind = "init", NEW k \in Keys, k \notin astray'
      PROVE  Has(k, IF Pending(k) THEN seen[k] ELSE job.target[k])'
  <2>1. Has(k, IF Pending(k) THEN seen[k] ELSE job.target[k])
    BY <1>3 DEF ConfigInv
  <2> QED
    BY <1>1, <1>2, <2>1 DEF Has
<1>4. polling' /\ ~written' /\ ~missed' => IF job'.kind = "none" THEN seen' = config'
                                                                ELSE job'.target = config'
  BY DEF ConfigInv
<1> QED
  BY <1>3, <1>4 DEF ConfigInv

(* Nothing is claimed once the watcher has been stopped.                   *)
LEMMA ConfigStopped ==
  ASSUME ~polling', job'.kind # "init"
  PROVE  ConfigInv'
BY DEF ConfigInv

LEMMA ConfigOf ==
  ASSUME \A k \in Keys : k \notin astray' /\ (polling' \/ job'.kind = "init") =>
            \E v : Has(k, v)' /\ v = IF Pending(k)' THEN seen'[k] ELSE job'.target[k],
         polling' /\ ~written' /\ ~missed' => IF job'.kind = "none" THEN seen' = config'
                                                                   ELSE job'.target = config'
  PROVE  ConfigInv'
<1>1. \A k \in Keys : k \notin astray' /\ (polling' \/ job'.kind = "init") =>
         Has(k, IF Pending(k) THEN seen[k] ELSE job.target[k])'
  BY DEF Has
<1> QED
  BY <1>1 DEF ConfigInv

LEMMA ConfigStep ==
  ASSUME TypeOK, PlacesInv, TouchedInv, StopInv, ReloadInv, ConfigInv, Next
  PROVE  ConfigInv'
<1>0. /\ Worker \in Procs /\ Closer \in Procs /\ Worker # Closer
      /\ \A a \in Agents : a \in Procs /\ a # Worker /\ a # Closer
  BY ConstantsAssumption DEF Procs
<1>1. BuiltKept
  BY StepKeeps
<1>2. CASE TypeOK' /\ LifeStep
  <2>1. UNCHANGED <<watcher, manager>> /\ proc'[Worker].at = proc[Worker].at
    BY <1>0, <1>2 DEF LifeStep, SamePlaces
  <2> QED
    BY <1>1, <2>1, ConfigStays DEF watcher, manager
<1>3. CASE \E p \in Procs : TimesOut(p)
  <2>1. UNCHANGED <<watcher, manager>>
    BY <1>3 DEF TimesOut
  <2>2. proc'[Worker].at \in Connecting <=> proc[Worker].at \in Connecting
    BY <1>0, <1>3, TimesOutStep DEF Moves, Connecting
  <2> QED
    BY <1>1, <2>1, <2>2, ConfigStays DEF watcher, manager
<1>4. CASE \E k \in Keys : WorkerConnects(k)
  <2>1. PICK k \in Keys : WorkerConnects(k)
    BY <1>4
  <2>2. /\ proc[Worker].at = "next" /\ k \in job.todo
        /\ job' = [job EXCEPT !.todo = @ \ {k}, !.key = k]
        /\ UNCHANGED <<watcher, clients, astray>>
    BY <2>1 DEF WorkerConnects
  <2>3. /\ job'.kind = job.kind /\ job'.target = job.target /\ job'.key = k
        /\ job'.todo = job.todo \ {k}
    BY <2>2, TypesUnchanged DEF Jobs
  <2>4. proc'[Worker].at = "connecting"
    BY <2>1, WorkerConnectsStep DEF Moves
  <2>5. \A j \in Keys : Pending(j)' = Pending(j)
    BY <2>2, <2>3, <2>4 DEF Pending, Connecting
  <2>6. ASSUME NEW j \in Keys, j \notin astray', polling' \/ job'.kind = "init"
        PROVE  \E v : Has(j, v)' /\ v = IF Pending(j)' THEN seen'[j] ELSE job'.target[j]
    <3>1. Has(j, Wanted(j))
      BY <2>2, <2>3, <2>6 DEF ConfigInv, watcher, Wanted
    <3>2. Wanted(j) = IF Pending(j)' THEN seen'[j] ELSE job'.target[j]
      BY <2>2, <2>3, <2>5 DEF Wanted, watcher
    <3>3. \A v : Has(j, v)' = Has(j, v)
      BY <1>1, <2>2, HasStays
    <3> QED
      BY <3>1, <3>2, <3>3
  <2>7. polling' /\ ~written' /\ ~missed' => IF job'.kind = "none" THEN seen' = config'
                                                                  ELSE job'.target = config'
    BY <2>2, <2>3 DEF ConfigInv, watcher
  <2> QED
    BY <2>6, <2>7, ConfigOf
<1>5. CASE WatcherOrEnd
  <2>1. CASE Edit \/ CheckFails
    BY <1>1, <2>1, ConfigStays DEF Edit, CheckFails, manager
  <2>2. CASE Stop
    BY <2>2, ConfigStopped DEF Stop, ReloadInv
  <2>3. CASE CloseAll \/ CloseAllEnds
    BY <2>3, ConfigStopped DEF CloseAll, CloseAllEnds, ReloadInv, watcher
  <2> QED
    BY <1>5, <2>1, <2>2, <2>3 DEF WatcherOrEnd
<1>6. CASE WorkerStep
  <2>1. CASE WorkerConnected
    <3> DEFINE k == job.key
    <3>1. /\ k \in Keys /\ proc[Worker].x \in Clients
          /\ clients' = [clients EXCEPT ![k] = proc[Worker].x]
          /\ proc'[Worker].at \in {"next"} \cup InClose
      BY <2>1, WorkerConnectedStep DEF Moves
    <3>2. /\ proc[Worker].at = "connecting" /\ astray' = astray \ {k}
          /\ UNCHANGED <<watcher, job>>
      BY <2>1 DEF WorkerConnected
    <3>3. k \notin job.todo /\ job.kind # "none"
          /\ job.target[k] # Off /\ obj[proc[Worker].x].built = job.target[k]
      BY <3>2 DEF ReloadInv, Connecting
    <3>4. clients'[k] = proc[Worker].x /\ \A j \in Keys \ {k} : clients'[j] = clients[j]
      BY <3>1, Types
    <3>5. \A j \in Keys : Pending(j)' <=> j \in job.todo
      BY <3>1, <3>2, <3>3 DEF Pending, Connecting, InClose
    <3>6. \A j \in Keys \ {k} : Pending(j) <=> j \in job.todo
      BY <3>3 DEF Pending
    <3>7. Has(k, job.target[k])'
      <4>1. obj'[proc[Worker].x].built = obj[proc[Worker].x].built
        BY <1>0, <1>1, <3>1, Reached
      <4>2. proc[Worker].x # None
        BY <3>1, ConstantsAssumption
      <4> QED
        BY <3>2, <3>3, <3>4, <4>1, <4>2 DEF Has
    <3>8. ASSUME NEW j \in Keys \ {k}, j \notin astray', polling' \/ job'.kind = "init"
          PROVE  \E v : Has(j, v)' /\ v = IF Pending(j)' THEN seen'[j] ELSE job'.target[j]
      <4>1. Has(j, Wanted(j))
        BY <3>2, <3>8 DEF ConfigInv, watcher, Wanted
      <4>2. Wanted(j) = IF Pending(j)' THEN seen'[j] ELSE job'.target[j]
        BY <3>2, <3>5, <3>6 DEF Wanted, watcher
      <4>3. \A v : Has(j, v)' = Has(j, v)
        BY <1>1, <3>4, HasStays
      <4> QED
        BY <4>1, <4>2, <4>3
    <3>9. ASSUME NEW i \in Keys, i = k
          PROVE  \E v : Has(i, v)' /\ v = IF Pending(i)' THEN seen'[i] ELSE job'.target[i]
      <4>1. ~Pending(i)' /\ job'.target[i] = job.target[k] /\ k' = k
        BY <3>2, <3>3, <3>5, <3>9
      <4> QED
        BY <3>7, <3>9, <4>1 DEF Has
    <3>10. polling' /\ ~written' /\ ~missed' => IF job'.kind = "none" THEN seen' = config'
                                                                     ELSE job'.target = config'
      BY <3>2 DEF ConfigInv, watcher
    <3> HIDE DEF k
    <3> QED
      BY <3>8, <3>9, <3>10, ConfigOf
  <2>2. CASE WorkerFails
    <3>1. /\ proc[Worker].at \in Connecting /\ astray' = astray \cup {job.key}
          /\ UNCHANGED <<watcher, clients, job>>
      BY <2>2 DEF WorkerFails, Connecting
    <3>2. proc'[Worker].at = "next"
      BY <2>2, WorkerFailsStep DEF Moves
    <3>3. ASSUME NEW j \in Keys, j \notin astray', polling' \/ job'.kind = "init"
          PROVE  \E v : Has(j, v)' /\ v = IF Pending(j)' THEN seen'[j] ELSE job'.target[j]
      <4>1. j # job.key /\ j \notin astray
        BY <3>1, <3>3
      <4>2. Pending(j)' = Pending(j)
        BY <3>1, <4>1 DEF Pending
      <4>3. Has(j, Wanted(j))
        BY <3>1, <3>3, <4>1 DEF ConfigInv, watcher, Wanted
      <4>4. Wanted(j) = IF Pending(j)' THEN seen'[j] ELSE job'.target[j]
        BY <3>1, <4>2 DEF Wanted, watcher
      <4>5. \A v : Has(j, v)' = Has(j, v)
        BY <1>1, <3>1, HasStays
      <4> QED
        BY <4>3, <4>4, <4>5
    <3>4. polling' /\ ~written' /\ ~missed' => IF job'.kind = "none" THEN seen' = config'
                                                                    ELSE job'.target = config'
      BY <3>1 DEF ConfigInv, watcher
    <3> QED
      BY <3>3, <3>4, ConfigOf
  <2>3. CASE WorkerClosed
    <3>1. /\ proc[Worker].at \in InClose /\ proc'[Worker].at = "next"
          /\ UNCHANGED <<watcher, manager>>
      BY <2>3, WorkerClosedStep DEF Moves, WorkerClosed
    <3> QED
      BY <1>1, <3>1, ConfigStays DEF watcher, manager, Connecting, InClose
  <2>4. CASE WorkerEnds
    <3>1. /\ proc[Worker].at = "next" /\ job.todo = {} /\ job' = NoJob
          /\ UNCHANGED <<config, missed, clients>>
          /\ IF job.kind = "init"
             THEN /\ polling' = TRUE /\ written' = FALSE /\ seen' = config
                  /\ astray' = astray \cup {k \in Keys : config[k] # job.target[k]}
             ELSE seen' = job.target /\ UNCHANGED <<polling, written, astray>>
      BY <2>4 DEF WorkerEnds
    <3>2. job.kind # "none" /\ job'.kind = "none"
      BY <3>1 DEF ReloadInv, NoJob
    <3>3. \A j \in Keys : ~Pending(j) /\ Pending(j)'
      BY <3>1, <3>2 DEF Pending, Connecting
    <3>4. ASSUME NEW j \in Keys, j \notin astray', polling' \/ job'.kind = "init"
          PROVE  \E v : Has(j, v)' /\ v = IF Pending(j)' THEN seen'[j] ELSE job'.target[j]
      <4>1. j \notin astray /\ seen'[j] = job.target[j] /\ (polling \/ job.kind = "init")
        BY <3>1, <3>2, <3>4
      <4>2. Has(j, Wanted(j)) /\ Wanted(j) = job.target[j]
        BY <3>3, <3>4, <4>1 DEF ConfigInv, Wanted
      <4>3. \A v : Has(j, v)' = Has(j, v)
        BY <1>1, <3>1, HasStays
      <4> QED
        BY <3>3, <4>1, <4>2, <4>3
    <3>5. polling' /\ ~written' /\ ~missed' => IF job'.kind = "none" THEN seen' = config'
                                                                    ELSE job'.target = config'
      BY <3>1, <3>2 DEF ConfigInv
    <3> QED
      BY <3>4, <3>5, ConfigOf
  <2>5. CASE WorkerDies
    <3>1. /\ job' = NoJob /\ missed' = TRUE
          /\ astray' = astray \cup {k \in Keys : job.target[k] # seen[k]}
          /\ UNCHANGED <<polling, seen, clients>>
      BY <2>5 DEF WorkerDies
    <3>2. job'.kind = "none"
      BY <3>1 DEF NoJob
    <3>3. ASSUME NEW j \in Keys, j \notin astray', polling' \/ job'.kind = "init"
          PROVE  \E v : Has(j, v)' /\ v = IF Pending(j)' THEN seen'[j] ELSE job'.target[j]
      <4>1. Pending(j)' /\ j \notin astray /\ job.target[j] = seen[j] /\ polling
        BY <3>1, <3>2, <3>3 DEF Pending
      <4>2. Has(j, Wanted(j)) /\ Wanted(j) = seen[j]
        BY <3>3, <4>1 DEF ConfigInv, Wanted
      <4>3. \A v : Has(j, v)' = Has(j, v)
        BY <1>1, <3>1, HasStays
      <4> QED
        BY <3>1, <4>1, <4>2, <4>3
    <3> QED
      BY <3>1, <3>3, ConfigOf
  <2>6. CASE \E k \in Keys : WorkerRemoves(k)
    <3>1. PICK k \in Keys : WorkerRemoves(k)
      BY <2>6
    <3>2. /\ proc[Worker].at = "next" /\ k \in job.todo /\ job.target[k] = Off
          /\ job' = [job EXCEPT !.todo = @ \ {k}, !.key = k]
          /\ clients' = [clients EXCEPT ![k] = None]
          /\ astray' = astray \ {k} /\ UNCHANGED watcher
      BY <3>1 DEF WorkerRemoves
    <3>3. /\ job'.kind = job.kind /\ job'.target = job.target /\ job'.key = k
          /\ job'.todo = job.todo \ {k} /\ job.kind # "none"
      BY <3>2, TypesUnchanged DEF Jobs, ReloadInv
    <3>4. proc'[Worker].at \in {"next"} \cup InClose
      BY <3>1, <3>2, WorkerRemovesStep DEF Moves
    <3>5. clients'[k] = None /\ \A j \in Keys \ {k} : clients'[j] = clients[j]
      BY <3>2, Types
    <3>6. /\ \A j \in Keys \ {k} : Pending(j)' = Pending(j)
          /\ ~Pending(k)'
      BY <3>2, <3>3, <3>4 DEF Pending, Connecting, InClose
    <3>7. ASSUME NEW j \in Keys \ {k}, j \notin astray', polling' \/ job'.kind = "init"
          PROVE  \E v : Has(j, v)' /\ v = IF Pending(j)' THEN seen'[j] ELSE job'.target[j]
      <4>1. Has(j, Wanted(j))
        BY <3>2, <3>3, <3>7 DEF ConfigInv, watcher, Wanted
      <4>2. Wanted(j) = IF Pending(j)' THEN seen'[j] ELSE job'.target[j]
        BY <3>2, <3>3, <3>6 DEF Wanted, watcher
      <4>3. \A v : Has(j, v)' = Has(j, v)
        BY <1>1, <3>5, HasStays
      <4> QED
        BY <4>1, <4>2, <4>3
    <3>8. \E v : Has(k, v)' /\ v = IF Pending(k)' THEN seen'[k] ELSE job'.target[k]
      BY <3>2, <3>3, <3>5, <3>6 DEF Has
    <3>9. polling' /\ ~written' /\ ~missed' => IF job'.kind = "none" THEN seen' = config'
                                                                    ELSE job'.target = config'
      BY <3>2, <3>3 DEF ConfigInv, watcher
    <3> QED
      BY <3>7, <3>8, <3>9, ConfigOf
  <2>7. CASE Check
    <3>1. polling /\ ~written' /\ UNCHANGED <<config, polling, seen, clients, astray>>
      BY <2>7 DEF Check
    <3>2. CASE config # seen /\ proc[Worker].at = "idle"
      <4>1. proc'[Worker].at = "next"
        BY <2>7, <3>2, CheckStep DEF Moves
      <4>2. /\ job'.kind = "reload" /\ job'.target = config
            /\ job'.todo = {k \in Keys : config[k] # seen[k]}
        BY <2>7, <3>2 DEF Check
      <4>3. job.kind = "none"
        BY <3>2 DEF ReloadInv
      <4>4. \A j \in Keys : Pending(j) /\ (Pending(j)' <=> config[j] # seen[j])
        BY <4>1, <4>2, <4>3 DEF Pending, Connecting
      <4>5. ASSUME NEW j \in Keys, j \notin astray', polling' \/ job'.kind = "init"
            PROVE  \E v : Has(j, v)' /\ v = IF Pending(j)' THEN seen'[j] ELSE job'.target[j]
        <5>1. Has(j, Wanted(j)) /\ Wanted(j) = seen[j]
          BY <3>1, <4>4, <4>5 DEF ConfigInv, Wanted
        <5>2. \A v : Has(j, v)' = Has(j, v)
          BY <1>1, <3>1, HasStays
        <5> QED
          BY <3>1, <4>2, <4>4, <5>1, <5>2
      <4> QED
        BY <3>1, <4>2, <4>5, ConfigOf
    <3>3. CASE ~(config # seen /\ proc[Worker].at = "idle")
      <4>1. UNCHANGED <<job, proc>> /\ missed' = (proc[Worker].at # "idle" /\ config # job.target)
        BY <2>7, <3>3 DEF Check
      <4>2. proc[Worker].at = "idle" <=> job.kind = "none"
        BY DEF ReloadInv
      <4>3. ASSUME NEW j \in Keys, j \notin astray', polling' \/ job'.kind = "init"
            PROVE  \E v : Has(j, v)' /\ v = IF Pending(j)' THEN seen'[j] ELSE job'.target[j]
        <5>1. Has(j, Wanted(j))
          BY <3>1, <4>3 DEF ConfigInv, Wanted
        <5>2. Wanted(j) = IF Pending(j)' THEN seen'[j] ELSE job'.target[j]
          BY <3>1, <4>1 DEF Wanted, Pending
        <5>3. \A v : Has(j, v)' = Has(j, v)
          BY <1>1, <3>1, HasStays
        <5> QED
          BY <5>1, <5>2, <5>3
      <4>4. polling' /\ ~written' /\ ~missed' => IF job'.kind = "none" THEN seen' = config'
                                                                      ELSE job'.target = config'
        BY <3>1, <3>3, <4>1, <4>2
      <4> QED
        BY <4>3, <4>4, ConfigOf
    <3> QED
      BY <3>2, <3>3
  <2>8. CASE CancelsNew
    BY <2>8, ConfigStopped DEF CancelsNew, StopCancelsWorker, ReloadInv, watcher, manager
  <2> QED
    BY <1>6, <2>1, <2>2, <2>3, <2>4, <2>5, <2>6, <2>7, <2>8 DEF WorkerStep
<1>7. CASE CloserStep
  <2>1. UNCHANGED <<watcher, clients, job, astray>> /\ proc'[Worker].at = proc[Worker].at
    BY <1>0, <1>7, CloserStepKeeps
  <2> QED
    BY <1>1, <2>1, ConfigStays DEF watcher
<1>8. CASE \E a \in Agents : AgentStep(a)
  <2>1. UNCHANGED <<watcher, manager>> /\ proc'[Worker].at = proc[Worker].at
    BY <1>0, <1>8, AgentStepKeeps
  <2> QED
    BY <1>1, <2>1, ConfigStays DEF watcher, manager
<1> QED
  BY <1>2, <1>3, <1>4, <1>5, <1>6, <1>7, <1>8, Steps
-----------------------------------------------------------------------------
(***************************************************************************)
(* The theorems                                                            *)
(***************************************************************************)

LEMMA InitType ==
  ASSUME Init
  PROVE  TypeOK
<1>1. /\ Idle \in Place /\ [Idle EXCEPT !.at = "next"] \in Place
      /\ NoLife \in Lifecycle /\ Unset \in Event /\ \A x \in Clients : Fresh(x, Off) \in Object
  BY DEF Idle, Place, Ats, Waits, NoLife, Lifecycle, Phases, Unset, Event, Fresh, Object
<1>2. /\ life \in [Lives -> Lifecycle] /\ obj \in [Clients -> Object]
      /\ events \in [Clients -> Event]
  BY <1>1 DEF Init
<1>3. proc \in [Procs -> Place]
  BY <1>1, Zenon DEF Init
<1>4. job \in Jobs
  BY DEF Init, Jobs
<1>5. 0 \in 0..MaxEdits /\ 0 \in 0..MaxBreaks
  BY ConstantsAssumption
<1> QED
  BY <1>2, <1>3, <1>4, <1>5
     DEF Init, TypeOK, Jobs, Configs, Lifecycle, Phases, Object, Event, Place, Ats, Waits

LEMMA InitHolds ==
  ASSUME Init
  PROVE  IInv
<1>1. TypeOK
  BY InitType
<1>2. /\ \A l \in Lives : ~Going(l)
      /\ \A x \in Clients : obj[x].ev = x /\ ~obj[x].oauth
      /\ \A a \in Agents : orig[a] = None
  BY DEF Init, NoLife, Going, Fresh
<1>3. /\ Worker \in Procs /\ Closer \in Procs /\ Worker # Closer
      /\ \A a \in Agents : a \in Procs /\ a # Worker
  BY ConstantsAssumption DEF Procs
<1>4. /\ Idle.at = "idle" /\ Idle.x = None
      /\ [Idle EXCEPT !.at = "next"].at = "next" /\ [Idle EXCEPT !.at = "next"].x = None
  BY DEF Idle
<1>5. /\ proc[Worker].at = "next" /\ proc[Worker].x = None
      /\ proc[Closer].at = "idle" /\ proc[Closer].x = None
      /\ \A a \in Agents : proc[a].at = "idle"
      /\ \A p \in Procs : proc[p].at \in {"idle", "next"}
  <2>1. proc = [p \in Procs |-> IF p = Worker THEN [Idle EXCEPT !.at = "next"] ELSE Idle]
    BY DEF Init
  <2> HIDE DEF Idle
  <2> QED
    BY <1>3, <1>4, <2>1
<1>6. PlacesInv
  BY <1>2, <1>3, <1>5, ConstantsAssumption DEF PlacesInv, Connecting, InClose, Recovering
<1>7. TouchedInv
  BY <1>2, <1>5, ConstantsAssumption DEF Init, TouchedInv, Connecting, InClose
<1>8. StopInv
  BY <1>2 DEF Init, StopInv, OwnLife
<1>9. NoLeakedClient
  BY <1>2 DEF NoLeakedClient
<1>10. ReloadInv
  BY <1>5, ConstantsAssumption DEF Init, ReloadInv, Connecting
<1>11. ConfigInv
  <2>1. \A k \in Keys : Pending(k) /\ seen[k] = Off /\ clients[k] = None
    BY DEF Init, Pending
  <2> QED
    BY <2>1 DEF Init, ConfigInv, Has
<1> QED
  BY <1>1, <1>6, <1>7, <1>8, <1>9, <1>10, <1>11 DEF IInv

LEMMA StutterHolds ==
  ASSUME IInv, UNCHANGED vars
  PROVE  IInv'
<1>1. UNCHANGED <<config, edits, written, polling, seen, missed, clients, shut, remaining, job,
                  astray, obj, events, life, proc, orig, breaks, touched>>
  BY DEF vars, watcher, manager
<1>2. TypeOK'
  BY <1>1 DEF IInv, TypeOK
<1>3. PlacesInv' /\ TouchedInv'
  BY <1>1 DEF IInv, PlacesInv, TouchedInv, Going
<1>4. StopInv'
  BY <1>1 DEF IInv, StopInv, OwnLife, Going, HasBeenTold
<1>5. NoLeakedClient'
  BY <1>1 DEF IInv, NoLeakedClient, Going, Handled, Events
<1>6. ReloadInv'
  BY <1>1 DEF IInv, ReloadInv
<1>7. ConfigInv'
  BY <1>1 DEF IInv, ConfigInv, Has, Pending
<1> QED
  BY <1>2, <1>3, <1>4, <1>5, <1>6, <1>7 DEF IInv

(* Everything above holds in every state that can be reached.              *)
THEOREM InvariantHolds == Spec => []IInv
<1>1. Init => IInv
  BY InitHolds
<1>2. IInv /\ [Next]_vars => IInv'
  <2>1. ASSUME IInv, Next
        PROVE  IInv'
    BY <2>1, StepKeeps, PlacesStep, TouchedStep, StopStep, NoLeakStep, ReloadStep, ConfigStep
       DEF IInv
  <2> QED
    BY <2>1, StutterHolds
<1> QED
  BY <1>1, <1>2, PTL DEF Spec

(* Every variable has its type: clients, lifecycles and those who wait for *)
(* them are always what the steps take them for.                           *)
THEOREM TypeCorrect == Spec => []TypeOK
<1>1. IInv => TypeOK
  BY DEF IInv
<1> QED
  BY <1>1, InvariantHolds, PTL

(* However replacements, removals, recoveries and a shutdown interleave, a *)
(* connection that lives is in somebody's hands or has been told to stop.  *)
THEOREM NothingLeaks == Spec => []NoLeakedClient
<1>1. IInv => NoLeakedClient
  BY DEF IInv
<1> QED
  BY <1>1, InvariantHolds, PTL

(* When nothing is under way the manager has what the file asks for, but   *)
(* for the changes and the keys that are known to have gone wrong.         *)
THEOREM ConfigIsFollowed == Spec => []FollowsConfig
<1>1. IInv => FollowsConfig
  <2> SUFFICES ASSUME IInv, polling, ~written, ~missed, job.kind = "none"
               PROVE  /\ seen = config
                      /\ \A k \in Keys \ astray :
                            IF config[k] = Off THEN clients[k] = None
                            ELSE clients[k] # None /\ obj[clients[k]].built = config[k]
    BY DEF FollowsConfig
  <2>1. seen = config
    BY DEF IInv, ConfigInv
  <2>2. \A k \in Keys \ astray : Has(k, seen[k])
    BY DEF IInv, ConfigInv, Pending
  <2> QED
    BY <2>1, <2>2 DEF Has
<1> QED
  BY <1>1, InvariantHolds, PTL
-----------------------------------------------------------------------------
(***************************************************************************)
(* The shutdown                                                            *)
(***************************************************************************)

ShutInv ==
  /\ shut \notin {"no", "stopping"} =>
        proc[Worker].at = "idle" /\ \A k \in Keys : clients[k] = None
  /\ shut = "over" => remaining = {} /\ proc[Closer].at = "idle"
  /\ proc[Closer].at # "idle" => shut \notin {"no", "stopping"}

LEMMA ShutStep ==
  ASSUME TypeOK, PlacesInv, TouchedInv, StopInv, ReloadInv, ShutInv, Next
  PROVE  ShutInv'
<1>0. /\ Worker \in Procs /\ Closer \in Procs /\ Worker # Closer
      /\ \A a \in Agents : a \in Procs /\ a # Worker /\ a # Closer
  BY ConstantsAssumption DEF Procs
<1>1. ASSUME UNCHANGED <<clients, shut, remaining>>,
             proc'[Worker].at = proc[Worker].at, proc'[Closer].at = proc[Closer].at
      PROVE  ShutInv'
  BY <1>1 DEF ShutInv
<1>2. CASE TypeOK' /\ LifeStep
  BY <1>0, <1>1, <1>2 DEF LifeStep, SamePlaces, manager
<1>3. CASE \E p \in Procs : TimesOut(p)
  <2>1. PICK p \in Procs : TimesOut(p)
    BY <1>3
  <2>2. /\ proc[p].at = "connecting" /\ UNCHANGED <<clients, shut, remaining>>
        /\ \A q \in Procs \ {p} : proc'[q].at = proc[q].at
    BY <2>1, TimesOutStep DEF Moves, TimesOut, manager
  <2>3. p # Closer
    BY <2>2 DEF PlacesInv, InClose
  <2>4. CASE p = Worker
    BY <1>0, <2>2, <2>4 DEF ShutInv
  <2> QED
    BY <1>0, <1>1, <2>2, <2>3, <2>4
<1>4. CASE \E k \in Keys : WorkerConnects(k)
  <2>1. /\ proc[Worker].at = "next" /\ UNCHANGED shut
        /\ proc'[Closer].at = proc[Closer].at
    BY <1>0, <1>4, WorkerConnectsStep DEF WorkerConnects, Moves
  <2> QED
    BY <2>1 DEF ShutInv
<1>5. CASE WatcherOrEnd
  BY <1>5 DEF WatcherOrEnd, Edit, CheckFails, Stop, CloseAllEnds, CloseAll, manager, ShutInv
<1>6. CASE WorkerStep
  <2>1. proc[Worker].at # "idle" \/ shut \in {"no", "stopping"}
    BY <1>6, WorkerClosedStep, WorkerDiesStep
       DEF WorkerStep, WorkerConnected, WorkerFails, WorkerEnds, WorkerRemoves, Check, CancelsNew,
           StopCancelsWorker, ReloadInv, InClose
  <2>2. UNCHANGED shut /\ proc'[Closer].at = proc[Closer].at
    BY <1>0, <1>6, WorkerStepKeeps
  <2> QED
    BY <2>1, <2>2 DEF ShutInv
<1>7. CASE CloserStep
  <2>1. UNCHANGED clients /\ proc'[Worker].at = proc[Worker].at
    BY <1>0, <1>7, CloserStepKeeps
  <2>2. shut \notin {"no", "stopping", "over"} /\ shut' \notin {"no", "stopping", "over"}
    <3>1. CASE CloserClosed \/ CloserDies
      BY <3>1, CloserDoneStep DEF CloserClosed, CloserDies, manager, ShutInv, InClose
    <3>2. CASE \E x \in Clients : CloserCloses(x)
      BY <3>2 DEF CloserCloses, StopInv, ShutInv
    <3> QED
      BY <1>7, <3>1, <3>2 DEF CloserStep
  <2> QED
    BY <2>1, <2>2 DEF ShutInv
<1>8. CASE \E a \in Agents : AgentStep(a)
  BY <1>0, <1>1, <1>8, AgentStepKeeps DEF manager
<1> QED
  BY <1>2, <1>3, <1>4, <1>5, <1>6, <1>7, <1>8, Steps

(* When close_all has run to its end, every connection of a client that    *)
(* agents have left alone has been told to stop.                           *)
THEOREM ShutdownTells ==
  Spec => [](shut = "over" =>
                \A l \in Lives : Going(l) /\ life[l].self \notin touched =>
                    Events(life[l].self).stop)
<1>1. Init => ShutInv
  BY InitHolds DEF Init, IInv, ReloadInv, ShutInv
<1>2. IInv /\ ShutInv /\ [Next]_vars => ShutInv'
  <2>1. ASSUME IInv, ShutInv, Next
        PROVE  ShutInv'
    BY <2>1, ShutStep DEF IInv
  <2>2. ASSUME ShutInv, UNCHANGED vars
        PROVE  ShutInv'
    BY <2>2 DEF ShutInv, vars, manager
  <2> QED
    BY <2>1, <2>2
<1>3. IInv /\ ShutInv =>
        (shut = "over" => \A l \in Lives : Going(l) /\ life[l].self \notin touched =>
                              Events(life[l].self).stop)
  <2> SUFFICES ASSUME IInv, ShutInv, shut = "over",
                      NEW l \in Lives, Going(l), life[l].self \notin touched
               PROVE  Events(life[l].self).stop
    OBVIOUS
  <2>1. life[l].self \in Clients
    BY DEF IInv, PlacesInv
  <2>2. /\ proc[Worker].x = None /\ proc[Closer].x = None
        /\ remaining = {} /\ \A k \in Keys : clients[k] = None
    BY DEF ShutInv, IInv, PlacesInv
  <2>3. ~Handled(life[l].self)
    BY <2>1, <2>2, ConstantsAssumption DEF Handled
  <2> QED
    BY <2>3 DEF IInv, NoLeakedClient
<1> QED
  BY <1>1, <1>2, <1>3, InvariantHolds, PTL DEF Spec
=============================================================================
