--------------------------- MODULE AgentPoolProofs ---------------------------
(***************************************************************************)
(* Proofs about AgentPool, for every set of agents and tasks and every     *)
(* limit: the parts of the inductive invariant IInv and the safety         *)
(* properties it implies.                                                  *)
(***************************************************************************)
EXTENDS AgentPool, FiniteSetTheorems, TLAPS

(* Types, variable by variable, and with what TypeOK leaves open: a call   *)
(* knows its agent and its workspace wherever it needs them.               *)
PoolOK ==
  /\ agents \in [Agents -> 0..made]
  /\ older \subseteq Loaded \X Loaded
  /\ expired \subseteq Loaded

LockOK == pending \subseteq Agents /\ locked \in BOOLEAN

Pairs(n) == [agent : Agents, ws : 1..n]

TaskRecord(n) ==
  [at : Places, agent : Agents \cup {Nobody}, ws : 0..n, todo : SUBSET Pairs(n)]

NeedAgent == {"awaiting", "woken", "capacity", "starting", "finishing",
              "reloading", "restarting", "discarding"}
NeedWorkspace == {"starting", "evicting", "restarting", "discarding", "retiring"}

Known(k) == /\ k.at \in NeedAgent => k.agent \in Agents
            /\ k.at \in NeedWorkspace => k.ws # None

TasksOK == task \in [Tasks -> TaskRecord(made)] /\ \A t \in Tasks : Known(task[t])

MadeOK ==
  /\ made \in 0..MaxWorkspaces
  /\ services \in [Workspaces -> Workspaces]
  /\ \A w \in 1..made : services[w] \in 1..made
  /\ crossed \subseteq 1..made

LifeOK ==
  /\ started \subseteq 1..made
  /\ closed \subseteq 1..made
  /\ drain \in [Workspaces -> {"no", "waiting", "stopping"}]

ManagerOK ==
  /\ manager \in [phase : {"up", "cancelling", "stopping", "down"},
                  todo : SUBSET Agents, ws : 0..made]
  /\ manager.phase = "stopping" => manager.ws # None

Types == PoolOK /\ LockOK /\ TasksOK /\ MadeOK /\ LifeOK /\ ManagerOK

(* The history of cancelled calls.                                         *)
CutOK == torn \subseteq Workspaces /\ stuck \subseteq Agents

LEMMA TypesImplyTypeOK == Types /\ CutOK => TypeOK
BY DEF CutOK, Types, PoolOK, LockOK, TasksOK, MadeOK, LifeOK, ManagerOK, TypeOK, TaskRecord, Pairs
-----------------------------------------------------------------------------
LEMMA InitTypes == Init => Types
<1> SUFFICES ASSUME Init PROVE Types
  OBVIOUS
<1> USE ConstantsAssumption DEF Init
<1>1. PoolOK
  <2>1. agents \in [Agents -> 0..0] /\ made = 0
    BY DEF None
  <2> QED
    BY <2>1 DEF PoolOK
<1>6. LockOK
  BY DEF LockOK
<1>2. Idle \in TaskRecord(0) /\ Known(Idle)
  BY DEF TaskRecord, Idle, Known, Places, NeedAgent, NeedWorkspace, None
<1>3. TasksOK
  BY <1>2 DEF TasksOK
<1>4. MadeOK /\ LifeOK
  BY DEF MadeOK, LifeOK, Workspaces
<1>5. ManagerOK
  BY DEF ManagerOK, None
<1> QED
  BY <1>1, <1>6, <1>3, <1>4, <1>5 DEF Types

(* The pieces of a step keep the pieces of Types.                          *)

LEMMA PoolSame ==
  ASSUME PoolOK, NEW n \in Nat, made = n, NEW m \in Nat, made' = m, n <= m,
         UNCHANGED poolVars
  PROVE  PoolOK'
BY DEF PoolOK, poolVars, Loaded

LEMMA TouchOK ==
  ASSUME PoolOK, made \in Nat, made' = made, NEW a \in Agents, NEW w \in 1..made,
         agents' = [agents EXCEPT ![a] = w], Touch(a)
  PROVE  PoolOK'
<1>1. agents' \in [Agents -> 0..made']
  BY DEF PoolOK
<1>2. Loaded' = Loaded \cup {a}
  BY DEF PoolOK, Loaded, None
<1>3. older' \subseteq Loaded' \X Loaded' /\ expired' \subseteq Loaded'
  BY <1>2 DEF PoolOK, Touch, Forget, Unexpired
<1> QED
  BY <1>1, <1>3 DEF PoolOK

LEMMA PopOK ==
  ASSUME PoolOK, made \in Nat, made' = made, NEW a \in Agents, Pop(a)
  PROVE  PoolOK'
<1>1. agents' \in [Agents -> 0..made']
  BY DEF PoolOK, Pop, None
<1>2. Loaded' = Loaded \ {a}
  BY DEF PoolOK, Loaded, Pop
<1>3. expired' \subseteq Loaded'
  BY <1>2 DEF PoolOK, Pop, Unexpired
<1>4. older' \subseteq Loaded' \X Loaded'
  <2> SUFFICES ASSUME NEW p \in older, a \notin {p[1], p[2]}
               PROVE  p \in Loaded' \X Loaded'
    BY DEF Pop, Forget
  <2>1. p \in Loaded \X Loaded
    BY DEF PoolOK
  <2> QED
    BY <2>1, <1>2
<1> QED
  BY <1>1, <1>3, <1>4 DEF PoolOK

LEMMA PairsGrow ==
  ASSUME NEW n \in Nat, NEW m \in Nat, n <= m, NEW k \in TaskRecord(n)
  PROVE  k \in TaskRecord(m)
<1>1. Pairs(n) \subseteq Pairs(m)
  BY DEF Pairs
<1>2. SUBSET Pairs(n) \subseteq SUBSET Pairs(m)
  BY <1>1
<1> QED
  BY <1>2 DEF TaskRecord

LEMMA AtOK ==
  ASSUME NEW n \in Nat, NEW place \in Places, NEW a \in Agents \cup {Nobody}, NEW w \in 0..n,
         NEW S \in SUBSET Pairs(n)
  PROVE  /\ At(place, a, w, S) \in TaskRecord(n)
         /\ At(place, a, w, S).at = place /\ At(place, a, w, S).agent = a
         /\ At(place, a, w, S).ws = w /\ At(place, a, w, S).todo = S
BY DEF At, TaskRecord

LEMMA IdleOK ==
  ASSUME NEW n \in Nat
  PROVE  /\ Idle \in TaskRecord(n) /\ Known(Idle)
         /\ Idle.at = "idle" /\ Idle.agent = Nobody
BY DEF Idle, TaskRecord, Known, Places, NeedAgent, NeedWorkspace, None

LEMMA TasksSame ==
  ASSUME TasksOK, made \in Nat, made' \in Nat, made <= made', UNCHANGED task
  PROVE  TasksOK'
<1>1. \A t \in Tasks : task'[t] \in TaskRecord(made')
  BY PairsGrow DEF TasksOK
<1> QED
  BY <1>1 DEF TasksOK, Known

LEMMA GoesOK ==
  ASSUME TasksOK, made \in Nat, made' \in Nat, made <= made', NEW t \in Tasks,
         NEW k \in TaskRecord(made'), Known(k), Goes(t, k)
  PROVE  TasksOK'
<1>1. \A u \in Tasks : task[u] \in TaskRecord(made')
  BY PairsGrow DEF TasksOK
<1>2. \A u \in Tasks : task'[u] = IF u = t THEN k ELSE task[u]
  BY DEF Goes, TasksOK
<1>3. task' \in [Tasks -> TaskRecord(made')]
  BY <1>1, <1>2 DEF Goes, TasksOK
<1> QED
  BY <1>2, <1>3 DEF TasksOK, Known

LEMMA FinishOK ==
  ASSUME TasksOK, LockOK, made \in Nat, made' = made, NEW t \in Tasks,
         NEW k \in TaskRecord(made), Known(k), FinishGet(t, k), UNCHANGED locked
  PROVE  TasksOK' /\ LockOK'
<1>1. \A u \in Tasks : task'[u] = IF u = t THEN k
                                  ELSE IF u \in Waiters(task[t].agent)
                                  THEN [task[u] EXCEPT !.at = "woken"] ELSE task[u]
  BY DEF FinishGet
<1>2. \A u \in Waiters(task[t].agent) :
        /\ u \in Tasks
        /\ [task[u] EXCEPT !.at = "woken"] \in TaskRecord(made)
        /\ [task[u] EXCEPT !.at = "woken"].at = "woken"
        /\ [task[u] EXCEPT !.at = "woken"].agent = task[u].agent
        /\ task[u].agent \in Agents
  BY DEF Waiters, TasksOK, TaskRecord, Places, Known, NeedAgent
<1>3. \A u \in Tasks : task'[u] \in TaskRecord(made) /\ Known(task'[u])
  BY <1>1, <1>2 DEF TasksOK, Known, NeedWorkspace
<1>4. task' \in [Tasks -> TaskRecord(made)]
  BY <1>3 DEF FinishGet
<1> QED
  BY <1>3, <1>4 DEF TasksOK, LockOK, FinishGet, NoLongerPending
-----------------------------------------------------------------------------
(* A sweep unloads an agent, starts one, gives up, or is over; each is a   *)
(* step of the task t alone, but for the waiters woken by giving up.       *)
Evicts(t, a, rest) ==
  /\ Goes(t, At("evicting", task[t].agent, agents[a], rest))
  /\ Pop(a)
  /\ UNCHANGED <<made, services, pending>>

Starting(t) ==
  /\ Fits
  /\ Create(made + 1)
  /\ Goes(t, At("starting", task[t].agent, made + 1, {}))
  /\ UNCHANGED <<poolVars, crossed, pending>>

GivesUp(t) == FinishGet(t, Idle) /\ UNCHANGED <<poolVars, workspaceVars>>

Over(t) == Goes(t, Idle) /\ UNCHANGED <<poolVars, workspaceVars, pending>>

LEMMA SweepCases ==
  ASSUME NEW t \in Tasks, NEW S, S \subseteq Pairs(made), Sweep(t, S)
  PROVE  \/ \E a \in Loaded, rest \in SUBSET Pairs(made) : Evicts(t, a, rest)
         \/ task[t].agent # Nobody /\ (Starting(t) \/ GivesUp(t))
         \/ task[t].agent = Nobody /\ Over(t)
<1>1. CASE \E p \in S, rest \in SUBSET S :
             /\ Unloadable(p)
             /\ Goes(t, At("evicting", task[t].agent, agents[p.agent], rest))
             /\ Pop(p.agent)
             /\ UNCHANGED <<made, services, pending>>
  <2> PICK p \in S, rest \in SUBSET S :
        /\ Unloadable(p)
        /\ Goes(t, At("evicting", task[t].agent, agents[p.agent], rest))
        /\ Pop(p.agent)
        /\ UNCHANGED <<made, services, pending>>
    BY <1>1
  <2>1. p.agent \in Loaded /\ rest \in SUBSET Pairs(made)
    BY DEF Unloadable, Pairs, Loaded
  <2>2. Evicts(t, p.agent, rest)
    BY DEF Evicts
  <2> QED
    BY <2>1, <2>2
<1>2. CASE task[t].agent # Nobody /\ EnsureCapacity(t)
  <2>1. CASE GivesUp(t) \/ Starting(t)
    BY <2>1, <1>2
  <2>2. CASE \E victim \in Candidates(task[t].agent) :
               /\ Goes(t, At("evicting", task[t].agent, agents[victim], {}))
               /\ Pop(victim)
               /\ UNCHANGED <<made, services, pending>>
    BY <2>2 DEF Candidates, Evicts
  <2> QED
    BY <1>2, <2>1, <2>2 DEF EnsureCapacity, GivesUp, Starting
<1>3. CASE task[t].agent = Nobody /\ Over(t)
  BY <1>3
<1> QED
  BY <1>1, <1>2, <1>3 DEF Sweep, Over

(* A step that makes no workspace leaves these alone.                      *)
LEMMA MadeSame ==
  ASSUME MadeOK, UNCHANGED workspaceVars
  PROVE  MadeOK' /\ made \in Nat /\ made' = made
BY ConstantsAssumption DEF MadeOK, workspaceVars

LEMMA CreateOK ==
  ASSUME MadeOK, NEW s \in 1..(made + 1), Create(s), crossed' \subseteq 1..(made + 1)
  PROVE  MadeOK' /\ made \in Nat /\ made' = made + 1 /\ services'[made'] = s
            /\ \A w \in 1..made : services'[w] = services[w]
<1>1. /\ made' = made + 1 /\ made' \in 1..MaxWorkspaces /\ made \in Nat
      /\ services' = [services EXCEPT ![made + 1] = s]
  BY ConstantsAssumption DEF MadeOK, Create
<1>2. /\ \A w \in 1..made : services'[w] = services[w]
      /\ services'[made'] = s
  BY <1>1 DEF MadeOK, Workspaces
<1>3. services' \in [Workspaces -> Workspaces]
  <2>1. made + 1 \in Workspaces /\ s \in Workspaces
    BY <1>1, ConstantsAssumption DEF Workspaces
  <2> QED
    BY <1>1, <2>1 DEF MadeOK
<1> QED
  BY <1>1, <1>2, <1>3 DEF MadeOK

LEMMA CrossingOK ==
  ASSUME Types, NEW a \in Agents
  PROVE  Crossing(a) \subseteq 1..made
BY DEF Types, TasksOK, Known, NeedWorkspace, TaskRecord, Crossing, None, MadeOK

LEMMA LifeSame ==
  ASSUME MadeOK, MadeOK', made <= made', LifeOK, UNCHANGED <<started, closed, drain>>
  PROVE  LifeOK'
BY DEF MadeOK, LifeOK

LEMMA ManagerSame ==
  ASSUME MadeOK, MadeOK', made <= made', ManagerOK, UNCHANGED manager
  PROVE  ManagerOK'
<1>1. /\ manager.ws \in 0..made' /\ manager.todo \in SUBSET Agents
      /\ manager.phase \in {"up", "cancelling", "stopping", "down"}
      /\ manager = [phase |-> manager.phase, todo |-> manager.todo, ws |-> manager.ws]
  BY DEF MadeOK, ManagerOK
<1> QED
  BY <1>1 DEF ManagerOK

LEMMA SweepTypes ==
  ASSUME Types, NEW t \in Tasks, NEW S, S \subseteq Pairs(made), Sweep(t, S), UNCHANGED locked,
         task[t].agent # Nobody => task[t].agent \in Agents
  PROVE  PoolOK' /\ LockOK' /\ TasksOK' /\ MadeOK' /\ made <= made'
<1>0. made \in Nat
  BY ConstantsAssumption DEF Types, MadeOK
<1>1. ASSUME NEW a \in Loaded, NEW rest \in SUBSET Pairs(made), Evicts(t, a, rest)
      PROVE  PoolOK' /\ LockOK' /\ TasksOK' /\ MadeOK' /\ made <= made'
  <2>1. made' = made /\ a \in Agents /\ agents[a] \in 1..made
    BY <1>1, <1>0 DEF Evicts, Loaded, Types, PoolOK, None
  <2> DEFINE k == At("evicting", task[t].agent, agents[a], rest)
  <2>2. k \in TaskRecord(made) /\ k.at = "evicting" /\ k.ws = agents[a]
    <3>1. task[t].agent \in Agents \cup {Nobody} /\ "evicting" \in Places /\ agents[a] \in 0..made
      BY <2>1, <1>0 DEF Places
    <3> QED
      BY <3>1 DEF At, TaskRecord
  <2>3. Known(k)
    BY <2>1, <2>2 DEF Known, NeedAgent, None
  <2>4. Goes(t, k) /\ Pop(a)
    BY <1>1 DEF Evicts
  <2> HIDE DEF k
  <2>5. TasksOK'
    BY <2>1, <2>2, <2>3, <2>4, <1>0, GoesOK DEF Types
  <2>6. PoolOK'
    BY <2>1, <2>4, <1>0, PopOK DEF Types
  <2>7. MadeOK'
    BY <1>1, <2>1, <2>4, CrossingOK DEF Types, MadeOK, Evicts, Pop
  <2>8. LockOK'
    BY <1>1 DEF Types, LockOK, Evicts
  <2> QED
    BY <2>1, <2>5, <2>6, <2>7, <2>8, <1>0
<1>2. ASSUME task[t].agent # Nobody, Starting(t)
      PROVE  PoolOK' /\ LockOK' /\ TasksOK' /\ MadeOK' /\ made <= made'
  <2>1. MadeOK' /\ made' = made + 1
    <3>1. made + 1 \in 1..(made + 1) /\ crossed' \subseteq 1..(made + 1)
      BY <1>0, <1>2 DEF Types, MadeOK, Starting
    <3> QED
      BY <3>1, <1>2, CreateOK DEF Types, Starting
  <2> DEFINE k == At("starting", task[t].agent, made + 1, {})
  <2>2. k \in TaskRecord(made') /\ k.at = "starting" /\ k.ws = made + 1 /\ k.agent \in Agents
    BY <2>1, <1>0, <1>2, AtOK DEF Places
  <2>3. Known(k)
    BY <2>2, <1>0 DEF Known, None
  <2>4. Goes(t, k)
    BY <1>2 DEF Starting
  <2> HIDE DEF k
  <2>5. TasksOK'
    BY <2>1, <2>2, <2>3, <2>4, <1>0, GoesOK DEF Types
  <2>6. PoolOK'
    BY <2>1, <1>0, <1>2, PoolSame DEF Types, Starting
  <2>7. LockOK'
    BY <1>2 DEF Types, LockOK, Starting
  <2> QED
    BY <2>1, <2>5, <2>6, <2>7, <1>0
<1>3. ASSUME GivesUp(t)
      PROVE  PoolOK' /\ LockOK' /\ TasksOK' /\ MadeOK' /\ made <= made'
  <2>1. MadeOK' /\ made' = made
    BY <1>3, MadeSame DEF Types, GivesUp
  <2>2. TasksOK' /\ LockOK'
    BY <2>1, <1>0, <1>3, IdleOK, FinishOK DEF Types, GivesUp
  <2>3. PoolOK'
    BY <2>1, <1>0, <1>3, PoolSame DEF Types, GivesUp
  <2> QED
    BY <2>1, <2>2, <2>3, <1>0
<1>4. ASSUME Over(t)
      PROVE  PoolOK' /\ LockOK' /\ TasksOK' /\ MadeOK' /\ made <= made'
  <2>1. MadeOK' /\ made' = made
    BY <1>4, MadeSame DEF Types, Over
  <2>2. TasksOK'
    BY <2>1, <1>0, <1>4, IdleOK, GoesOK DEF Types, Over
  <2>3. PoolOK' /\ LockOK'
    BY <2>1, <1>0, <1>4, PoolSame DEF Types, Over, LockOK
  <2> QED
    BY <2>1, <2>2, <2>3, <1>0
<1> QED
  BY <1>1, <1>2, <1>3, <1>4, SweepCases

(* A step of one call that touches neither the dictionaries nor the made   *)
(* workspaces.                                                             *)
LEMMA QuietTypes ==
  ASSUME Types, NEW t \in Tasks, NEW k \in TaskRecord(made), Known(k), Goes(t, k),
         UNCHANGED <<poolVars, workspaceVars, manager>>, LockOK', 
         started' \subseteq 1..made, closed' \subseteq 1..made, UNCHANGED drain
  PROVE  Types'
<1>1. MadeOK' /\ made \in Nat /\ made' = made
  BY MadeSame DEF Types
<1>2. PoolOK' /\ TasksOK' /\ ManagerOK'
  BY <1>1, PoolSame, GoesOK, ManagerSame DEF Types
<1>3. LifeOK'
  BY <1>1 DEF Types, LifeOK
<1> QED
  BY <1>1, <1>2, <1>3 DEF Types

(* A start ends without a workspace to load.                               *)
LEMMA EndsTypes ==
  ASSUME Types, NEW t \in Tasks, task[t].agent \in Agents, EndsGet(t),
         UNCHANGED <<poolVars, workspaceVars, manager, locked, drain>>,
         started' \subseteq 1..made, closed' \subseteq 1..made
  PROVE  Types'
<1>0. MadeOK' /\ made \in Nat /\ made' = made
  BY MadeSame DEF Types
<1>1. CASE FinishGet(t, Idle)
  <2>1. TasksOK' /\ LockOK'
    BY <1>0, <1>1, IdleOK, FinishOK DEF Types
  <2>2. PoolOK' /\ ManagerOK'
    BY <1>0, PoolSame, ManagerSame DEF Types
  <2>3. LifeOK'
    BY <1>0 DEF Types, LifeOK
  <2> QED
    BY <1>0, <2>1, <2>2, <2>3 DEF Types
<1>2. CASE Goes(t, At("finishing", task[t].agent, None, {})) /\ UNCHANGED pending
  <2> DEFINE k == At("finishing", task[t].agent, None, {})
  <2>1. k \in TaskRecord(made) /\ k.at = "finishing" /\ k.agent \in Agents
    BY <1>0, AtOK DEF Places, None
  <2>2. Known(k) /\ Goes(t, k)
    BY <1>2, <2>1 DEF Known, NeedWorkspace
  <2> HIDE DEF k
  <2>3. LockOK'
    BY <1>2 DEF Types, LockOK
  <2> QED
    BY <2>1, <2>2, <2>3, QuietTypes
<1> QED
  BY <1>1, <1>2 DEF EndsGet

LEMMA NextTypes == Types /\ [Next]_vars => Types'
<1> SUFFICES ASSUME Types, [Next]_vars PROVE Types'
  OBVIOUS
<1>0. made \in Nat
  BY ConstantsAssumption DEF Types, MadeOK
<1>k. \A t \in Tasks :
        /\ task[t] \in TaskRecord(made) /\ Known(task[t])
        /\ task[t].agent \in Agents \cup {Nobody} /\ task[t].ws \in 0..made
        /\ task[t].todo \subseteq Pairs(made)
  BY DEF Types, TasksOK, TaskRecord
<1>l. /\ \A t \in Tasks : task[t].at \in NeedAgent => task[t].agent \in Agents
      /\ \A t \in Tasks : task[t].at \in NeedWorkspace =>
           task[t].ws \in 1..made /\ services[task[t].ws] \in 1..made
  BY <1>0, <1>k DEF Types, MadeOK, Known, None
<1>s. Snapshot \subseteq Pairs(made)
  BY <1>0 DEF Snapshot, Pairs, Types, PoolOK, Loaded, None
<1>m. \A a \in Agents : agents[a] \in 0..made /\ (agents[a] # None => agents[a] \in 1..made)
  BY <1>0 DEF Types, PoolOK, None
<1>r. LockOK /\ LifeOK /\ MadeOK /\ started \subseteq 1..made /\ closed \subseteq 1..made
  BY DEF Types, LifeOK
<1>1. ASSUME NEW t \in Tasks, NEW a \in Agents, GetLoaded(t, a) PROVE Types'
  <2> DEFINE k == At("using", a, agents[a], {})
  <2>1. k \in TaskRecord(made) /\ k.at = "using"
    BY <1>0, <1>m, AtOK DEF Places
  <2>2. Known(k)
    BY <2>1 DEF Known, NeedAgent, NeedWorkspace
  <2>3. Goes(t, k)
    BY <1>1 DEF GetLoaded
  <2> HIDE DEF k
  <2>4. MadeOK' /\ made' = made
    BY <1>1, MadeSame DEF Types, GetLoaded
  <2>5. agents' = [agents EXCEPT ![a] = agents[a]] /\ agents[a] \in 1..made /\ Touch(a)
    BY <1>1, <1>m DEF GetLoaded, Types, PoolOK
  <2>6. PoolOK'
    BY <2>4, <2>5, <1>0, TouchOK DEF Types
  <2>7. TasksOK'
    BY <2>1, <2>2, <2>3, <2>4, <1>0, GoesOK DEF Types
  <2>8. LockOK' /\ LifeOK' /\ ManagerOK'
    BY <2>4, <1>0, <1>1, LifeSame, ManagerSame DEF Types, GetLoaded, LockOK, lockVars
  <2> QED
    BY <2>4, <2>6, <2>7, <2>8 DEF Types
<1>2. ASSUME NEW t \in Tasks, NEW a \in Agents, GetPending(t, a) PROVE Types'
  <2> DEFINE k == At("awaiting", a, None, {})
  <2>1. k \in TaskRecord(made) /\ k.at = "awaiting" /\ k.agent = a
    BY <1>0, AtOK DEF Places, None
  <2>2. Known(k)
    BY <2>1 DEF Known, NeedWorkspace
  <2>3. Goes(t, k)
    BY <1>2 DEF GetPending
  <2> HIDE DEF k
  <2> QED
    BY <2>1, <2>2, <2>3, <1>2, <1>r, QuietTypes DEF GetPending, LockOK, lockVars
<1>3. ASSUME NEW t \in Tasks, NEW a \in Agents, GetFirst(t, a) PROVE Types'
  <2> DEFINE k == At("capacity", a, None, {})
  <2>1. k \in TaskRecord(made) /\ k.at = "capacity" /\ k.agent = a
    BY <1>0, AtOK DEF Places, None
  <2>2. Known(k)
    BY <2>1 DEF Known, NeedWorkspace
  <2>3. Goes(t, k)
    BY <1>3 DEF GetFirst
  <2> HIDE DEF k
  <2> QED
    BY <2>1, <2>2, <2>3, <1>3, <1>r, QuietTypes DEF GetFirst, LockOK
<1>4. ASSUME NEW t \in Tasks, Woken(t) PROVE Types'
  <2> DEFINE a == task[t].agent
             k == IF agents[a] = None THEN Idle ELSE At("using", a, agents[a], {})
  <2>0. a \in Agents
    BY <1>4, <1>l DEF Woken, NeedAgent
  <2>1. k \in TaskRecord(made) /\ k.at \in {"idle", "using"}
    BY <2>0, <1>0, <1>m, AtOK, IdleOK DEF Places
  <2>2. Known(k)
    BY <2>1 DEF Known, NeedWorkspace, NeedAgent
  <2>3. Goes(t, k)
    BY <1>4 DEF Woken
  <2> HIDE DEF k
  <2> QED
    BY <2>1, <2>2, <2>3, <1>4, <1>r, QuietTypes DEF Woken, LockOK, lockVars
<1>5. ASSUME NEW t \in Tasks, CleanupIdle(t) PROVE Types'
  <2>1. PoolOK' /\ LockOK' /\ TasksOK' /\ MadeOK' /\ made <= made'
    BY <1>5, <1>s, <1>k, SweepTypes DEF CleanupIdle
  <2> QED
    BY <2>1, <1>5, LifeSame, ManagerSame DEF Types, CleanupIdle
<1>6. ASSUME NEW t \in Tasks, Evicted(t) PROVE Types'
  <2>1. PoolOK' /\ LockOK' /\ TasksOK' /\ MadeOK' /\ made <= made'
    BY <1>6, <1>k, SweepTypes DEF Evicted
  <2>2. started' \subseteq 1..made /\ closed' \subseteq 1..made /\ drain' = drain
    BY <1>6, <1>l, <1>r DEF Evicted, NeedWorkspace
  <2>3. LifeOK' /\ ManagerOK'
    BY <2>1, <2>2, <1>0, <1>6, ManagerSame DEF Types, Evicted, LifeOK, MadeOK
  <2> QED
    BY <2>1, <2>3 DEF Types
<1>7. ASSUME NEW t \in Tasks, AcquireCapacity(t) PROVE Types'
  <2>1. PoolOK' /\ LockOK' /\ TasksOK' /\ MadeOK' /\ made <= made'
    BY <1>7, <1>k, <1>s, SweepTypes DEF AcquireCapacity
  <2> QED
    BY <2>1, <1>7, LifeSame, ManagerSame DEF Types, AcquireCapacity
<1>e. ASSUME NEW t \in Tasks, Goes(t, Idle), UNCHANGED <<poolVars, pending, workspaceVars, manager, drain>>,
             locked' \in BOOLEAN, started' \subseteq 1..made, closed' \subseteq 1..made
      PROVE  Types'
  <2>1. LockOK'
    BY <1>e, <1>r DEF LockOK
  <2> QED
    BY <2>1, <1>e, <1>0, IdleOK, QuietTypes
<1>8. ASSUME NEW t \in Tasks, Cancelled(t) PROVE Types'
  <2>w. task[t].at \in NeedWorkspace => task[t].ws \in 1..made /\ services[task[t].ws] \in 1..made
    BY <1>l
  <2>a. task[t].at \in {"starting", "capacity"} => task[t].agent \in Agents
    BY <1>l DEF NeedAgent
  <2>l. locked \in BOOLEAN
    BY <1>r DEF LockOK
  <2>1. CASE CancelsWait(t)
    BY <2>1, <2>a, <2>l, <1>e, <1>r, EndsTypes DEF CancelsWait
  <2>2. CASE CancelsFinish(t)
    BY <2>2, <2>l, <1>e, <1>r DEF CancelsFinish, lockVars
  <2>3. CASE CancelsEntry(t)
    <3>1. task[t].ws \in 1..made /\ started' \subseteq 1..made
      BY <2>3, <2>w, <1>r DEF CancelsEntry, NeedWorkspace
    <3> QED
      BY <3>1, <2>3, <2>a, <2>l, <1>e, <1>r, EndsTypes DEF CancelsEntry
  <2>4. CASE CancelsStop(t)
    <3>1. closed' \subseteq 1..made /\ started' \subseteq 1..made /\ locked' \in BOOLEAN
      BY <2>4, <2>w, <2>l, <1>r DEF CancelsStop, NeedWorkspace
    <3>2. UNCHANGED <<poolVars, workspaceVars, manager, drain>>
      BY <2>4 DEF CancelsStop
    <3>3. CASE task[t].at = "evicting" /\ task[t].agent # Nobody
      <4>1. EndsGet(t) /\ locked' = locked /\ task[t].agent \in Agents
        BY <3>3, <2>4, <2>l, <1>k DEF CancelsStop, LeavesStop
      <4> QED
        BY <3>1, <3>2, <4>1, EndsTypes
    <3>4. CASE ~(task[t].at = "evicting" /\ task[t].agent # Nobody)
      BY <3>1, <3>2, <3>4, <2>4, <1>e DEF CancelsStop, LeavesStop
    <3> QED
      BY <3>3, <3>4
  <2>5. CASE CancelsSweep(t)
    <3>1. closed' \subseteq 1..made /\ started' \subseteq 1..made
      BY <2>5, <2>w, <1>r DEF CancelsSweep, NeedWorkspace
    <3>2. UNCHANGED <<poolVars, workspaceVars, manager, drain, locked>>
      BY <2>5 DEF CancelsSweep
    <3>3. CASE task[t].at = "evicting" /\ task[t].agent # Nobody
      <4>1. EndsGet(t) /\ task[t].agent \in Agents
        BY <3>3, <2>5, <1>k DEF CancelsSweep, LeavesStop
      <4> QED
        BY <3>1, <3>2, <4>1, EndsTypes
    <3>4. CASE ~(task[t].at = "evicting" /\ task[t].agent # Nobody)
      BY <3>1, <3>2, <3>4, <2>5, <2>l, <1>e DEF CancelsSweep, LeavesStop
    <3> QED
      BY <3>3, <3>4
  <2> QED
    BY <1>8, <2>1, <2>2, <2>3, <2>4, <2>5 DEF Cancelled
<1>9. ASSUME NEW t \in Tasks, StartSucceeds(t) PROVE Types'
  <2> DEFINE a == task[t].agent
             w == task[t].ws
             k == At("using", a, w, {})
  <2>0. a \in Agents /\ w \in 1..made
    BY <1>9, <1>l DEF StartSucceeds, NeedAgent, NeedWorkspace
  <2>1. k \in TaskRecord(made) /\ k.at = "using"
    BY <2>0, <1>0, AtOK DEF Places
  <2>2. Known(k)
    BY <2>1 DEF Known, NeedWorkspace, NeedAgent
  <2>3. FinishGet(t, k) /\ Touch(a) /\ agents' = [agents EXCEPT ![a] = w]
    BY <1>9 DEF StartSucceeds
  <2> HIDE DEF k
  <2>4. MadeOK' /\ made' = made
    BY <1>9, MadeSame DEF Types, StartSucceeds
  <2>5. PoolOK'
    BY <2>0, <2>3, <2>4, <1>0, TouchOK DEF Types
  <2>6. TasksOK' /\ LockOK'
    BY <2>1, <2>2, <2>3, <2>4, <1>0, <1>9, FinishOK DEF Types, StartSucceeds
  <2>7. LifeOK' /\ ManagerOK'
    <3>1. LifeOK'
      BY <2>0, <2>4, <1>9, <1>r DEF StartSucceeds, LifeOK
    <3>2. UNCHANGED manager
      BY <1>9 DEF StartSucceeds
    <3> QED
      BY <3>1, <3>2, <2>4, <1>0, ManagerSame DEF Types
  <2> QED
    BY <2>4, <2>5, <2>6, <2>7 DEF Types
<1>10. ASSUME NEW t \in Tasks, StartFails(t) \/ Finish(t) PROVE Types'
  <2>1. task[t].agent \in Agents
    BY <1>10, <1>l DEF StartFails, Finish, NeedAgent
  <2>2. EndsGet(t)
    BY <1>10 DEF StartFails, Finish, EndsGet
  <2>3. UNCHANGED <<poolVars, workspaceVars, manager, locked, drain, started, closed>>
    BY <1>10 DEF StartFails, Finish
  <2> QED
    BY <2>1, <2>2, <2>3, <1>r, EndsTypes
<1>11. ASSUME NEW t \in Tasks, Leave(t) PROVE Types'
  BY <1>11, <1>0, <1>r, IdleOK, QuietTypes DEF Leave, LockOK, lockVars
<1>12. ASSUME NEW t \in Tasks, RunStarts(t) PROVE Types'
  <2> DEFINE k == [task[t] EXCEPT !.at = "running"]
  <2>1. k \in TaskRecord(made) /\ k.at = "running"
    BY <1>k DEF TaskRecord, Places
  <2>2. Known(k) /\ Goes(t, k)
    BY <2>1, <1>12 DEF Known, NeedWorkspace, NeedAgent, RunStarts
  <2> HIDE DEF k
  <2> QED
    BY <2>1, <2>2, <1>12, <1>r, QuietTypes DEF RunStarts, LockOK, lockVars
<1>13. ASSUME NEW t \in Tasks, NEW a \in Agents, Unload(t, a) PROVE Types'
  <2> DEFINE k == At("evicting", Nobody, agents[a], {})
  <2>1. k \in TaskRecord(made) /\ k.at = "evicting" /\ k.ws = agents[a] /\ agents[a] # None
    <3>1. agents[a] \in 0..made /\ agents[a] # None /\ "evicting" \in Places
             /\ Nobody \in Agents \cup {Nobody} /\ {} \in SUBSET Pairs(made)
      BY <1>13, <1>m DEF Places, Unload
    <3> QED
      BY <3>1 DEF At, TaskRecord
  <2>2. Known(k) /\ Goes(t, k) /\ Pop(a)
    BY <2>1, <1>13 DEF Known, NeedAgent, Unload
  <2> HIDE DEF k
  <2>3. MadeOK' /\ made' = made
    BY <1>13, <2>2, CrossingOK DEF Types, MadeOK, Unload, Pop
  <2>4. TasksOK' /\ PoolOK'
    BY <2>1, <2>2, <2>3, <1>0, GoesOK, PopOK DEF Types
  <2>5. LockOK'
    BY <1>13 DEF Types, Unload, LockOK, lockVars
  <2> QED
    BY <2>3, <2>4, <2>5, <1>0, <1>13, LifeSame, ManagerSame DEF Types, Unload
<1>14. ASSUME NEW t \in Tasks, NEW a \in Agents, ReloadBegins(t, a) PROVE Types'
  <2> DEFINE k == At("reloading", a, None, {})
  <2>1. k \in TaskRecord(made) /\ k.at = "reloading" /\ k.agent = a
    BY <1>0, AtOK DEF Places, None
  <2>2. Known(k) /\ Goes(t, k)
    BY <2>1, <1>14 DEF Known, NeedWorkspace, ReloadBegins
  <2> HIDE DEF k
  <2> QED
    BY <2>1, <2>2, <1>14, <1>r, QuietTypes DEF ReloadBegins, LockOK, lockVars
<1>15. ASSUME NEW t \in Tasks, ReloadCreates(t) PROVE Types'
  <2> DEFINE a == task[t].agent
             s == IF agents[a] = None THEN made + 1 ELSE services[agents[a]]
             k == At("restarting", a, made + 1, {})
  <2>0. a \in Agents
    BY <1>15, <1>l DEF ReloadCreates, NeedAgent
  <2>1. s \in 1..(made + 1) /\ crossed' \subseteq 1..(made + 1)
    BY <2>0, <1>0, <1>m, <1>15 DEF Types, MadeOK, ReloadCreates
  <2>2. MadeOK' /\ made' = made + 1
    BY <2>1, <1>15, CreateOK DEF Types, ReloadCreates
  <2>3. k \in TaskRecord(made') /\ k.at = "restarting" /\ k.ws = made + 1 /\ k.agent = a
    BY <2>0, <2>2, <1>0, AtOK DEF Places
  <2>4. Known(k) /\ Goes(t, k)
    BY <2>0, <2>3, <1>0, <1>15 DEF Known, None, ReloadCreates
  <2> HIDE DEF k
  <2>5. TasksOK' /\ PoolOK'
    BY <2>2, <2>3, <2>4, <1>0, <1>15, GoesOK, PoolSame DEF Types, ReloadCreates
  <2>6. LockOK'
    BY <1>15 DEF Types, ReloadCreates, LockOK, lockVars
  <2> QED
    BY <2>2, <2>5, <2>6, <1>0, <1>15, LifeSame, ManagerSame DEF Types, ReloadCreates
<1>16. ASSUME NEW t \in Tasks, ReloadFails(t) PROVE Types'
  BY <1>16, <1>0, <1>r, IdleOK, QuietTypes DEF ReloadFails, LockOK, lockVars
<1>17. ASSUME NEW t \in Tasks, Swap(t) PROVE Types'
  <2> DEFINE a == task[t].agent
             w == task[t].ws
             retired == At("retiring", a, agents[a], {})
  <2>0. a \in Agents /\ w \in 1..made /\ agents[a] \in 1..made
    BY <1>17, <1>l, <1>m DEF Swap, NeedAgent, NeedWorkspace
  <2>1. MadeOK' /\ made' = made
    BY <1>17, MadeSame DEF Types, Swap
  <2>2. PoolOK'
    BY <2>0, <2>1, <1>0, <1>17, TouchOK DEF Types, Swap
  <2>3. retired \in TaskRecord(made) /\ Known(retired)
    <3>1. retired \in TaskRecord(made) /\ retired.at = "retiring" /\ retired.ws = agents[a]
      BY <2>0, <1>0, AtOK DEF Places
    <3> QED
      BY <3>1, <2>0 DEF Known, NeedAgent, None
  <2>4. Goes(t, Idle) \/ Goes(t, retired)
    BY <1>17 DEF Swap
  <2> HIDE DEF retired
  <2>5. TasksOK'
    BY <2>1, <2>3, <2>4, <1>0, IdleOK, GoesOK DEF Types
  <2>6. LockOK'
    BY <1>17 DEF Types, Swap, LockOK, lockVars
  <2>7. drain' \in [Workspaces -> {"no", "waiting", "stopping"}]
    BY <1>17 DEF Types, Swap, LifeOK, Drained
  <2>8. LifeOK'
    BY <2>0, <2>1, <2>7, <1>r, <1>17 DEF Swap, LifeOK
  <2> QED
    BY <2>1, <2>2, <2>5, <2>6, <2>8, <1>0, <1>17, ManagerSame DEF Types, Swap
<1>18. ASSUME NEW t \in Tasks, Discard(t) PROVE Types'
  <2> DEFINE k == [task[t] EXCEPT !.at = "discarding"]
  <2>0. task[t].agent \in Agents /\ task[t].ws \in 1..made
    BY <1>18, <1>l DEF Discard, NeedAgent, NeedWorkspace
  <2>1. k \in TaskRecord(made) /\ k.agent = task[t].agent /\ k.ws = task[t].ws
    BY <1>k DEF TaskRecord, Places
  <2>2. Known(k) /\ Goes(t, k)
    BY <2>0, <2>1, <1>18 DEF Known, Discard, None
  <2> HIDE DEF k
  <2> QED
    BY <2>0, <2>1, <2>2, <1>18, <1>r, QuietTypes DEF Discard, LockOK
<1>19. ASSUME NEW t \in Tasks, Discarded(t) PROVE Types'
  <2>1. services[task[t].ws] \in 1..made
    BY <1>19, <1>l DEF Discarded, NeedWorkspace
  <2> QED
    BY <2>1, <1>19, <1>0, <1>r, IdleOK, QuietTypes DEF Discarded, LockOK
<1>20. ASSUME NEW t \in Tasks, Retired(t) PROVE Types'
  BY <1>20, <1>0, <1>r, IdleOK, QuietTypes DEF Retired, LockOK, lockVars, ClosedBy
<1>21. ASSUME NEW w \in Workspaces, DrainStops(w) \/ DrainEnds(w) PROVE Types'
  <2>1. UNCHANGED <<poolVars, lockVars, workspaceVars, task, manager>>
    BY <1>21 DEF DrainStops, DrainEnds
  <2>2. MadeOK' /\ made' = made
    BY <2>1, MadeSame DEF Types
  <2>3. LifeOK'
    BY <2>2, <1>r, <1>21 DEF LifeOK, DrainStops, DrainEnds, ClosedBy
  <2>4. LockOK'
    BY <2>1 DEF Types, LockOK, lockVars
  <2> QED
    BY <2>1, <2>2, <2>3, <2>4, <1>0, PoolSame, TasksSame, ManagerSame DEF Types
<1>22. ASSUME NEW a \in Agents, Expire(a) PROVE Types'
  <2>1. MadeOK' /\ made' = made
    BY <1>22, MadeSame DEF Types, Expire
  <2>2. PoolOK'
    BY <2>1, <1>22 DEF Types, PoolOK, Expire, Loaded
  <2>3. LockOK'
    BY <1>22 DEF Types, LockOK, Expire, lockVars
  <2> QED
    BY <2>1, <2>2, <2>3, <1>0, <1>22, TasksSame, LifeSame, ManagerSame DEF Types, Expire
<1>23. ASSUME StopAllBegins PROVE Types'
  <2>1. MadeOK' /\ made' = made
    BY <1>23, MadeSame DEF Types, StopAllBegins
  <2>2. LockOK' /\ LifeOK'
    BY <2>1, <1>23, <1>r DEF LockOK, LifeOK, StopAllBegins, lockVars
  <2>3. ManagerOK'
    BY <2>1, <1>23 DEF Types, ManagerOK, StopAllBegins
  <2> QED
    BY <2>1, <2>2, <2>3, <1>0, <1>23, PoolSame, TasksSame DEF Types, StopAllBegins
<1>24. ASSUME NEW S \in SUBSET Agents, StopNext(S), UNCHANGED <<lockVars, workspaceVars, task, drain>>,
              started' \subseteq 1..made, closed' \subseteq 1..made
       PROVE  Types'
  <2>1. MadeOK' /\ made' = made
    BY <1>24, MadeSame DEF Types
  <2>2. LockOK' /\ LifeOK'
    BY <2>1, <1>24, <1>r DEF LockOK, LifeOK, lockVars
  <2>3. ManagerOK'
    BY <2>1, <1>0, <1>24, <1>m DEF Types, ManagerOK, StopNext, None
  <2>4. PoolOK'
    <3>1. CASE UNCHANGED poolVars
      BY <3>1, <2>1, <1>0, PoolSame DEF Types
    <3>2. CASE agents' = [a \in Agents |-> None] /\ older' = {} /\ expired' = {}
      BY <3>2, <2>1, <1>0 DEF PoolOK, None
    <3> QED
      BY <3>1, <3>2, <1>24 DEF StopNext
  <2> QED
    BY <2>1, <2>2, <2>3, <2>4, <1>0, <1>24, TasksSame DEF Types
<1>25. ASSUME StopAllCancelled PROVE Types'
  BY <1>25, <1>24, <1>r DEF StopAllCancelled, Loaded
<1>26. ASSUME StopAllStopped PROVE Types'
  <2>1. manager.todo \in SUBSET Agents /\ services[manager.ws] \in 1..made
    BY <1>26, <1>0 DEF Types, ManagerOK, MadeOK, StopAllStopped, None
  <2> QED
    BY <2>1, <1>26, <1>24, <1>r DEF StopAllStopped
<1>27. ASSUME UNCHANGED vars PROVE Types'
  BY <1>27 DEF vars, Types, PoolOK, LockOK, TasksOK, MadeOK, LifeOK, ManagerOK, Loaded, Known
<1> QED
  BY <1>1, <1>2, <1>3, <1>4, <1>5, <1>6, <1>7, <1>8, <1>9, <1>10, <1>11, <1>12, <1>13, <1>14,
     <1>15, <1>16, <1>17, <1>18, <1>19, <1>20, <1>21, <1>22, <1>23, <1>25, <1>26, <1>27
     DEF Next, Begin, Get, Proceed, StartEnds

LEMMA NextCut == Types /\ CutOK /\ [Next]_vars => CutOK'
<1> SUFFICES ASSUME Types, CutOK, [Next]_vars PROVE CutOK'
  OBVIOUS
<1>1. ASSUME NEW t \in Tasks, Cancelled(t) PROVE CutOK'
  <2>1. task[t].at = "finishing" => task[t].agent \in Agents
    BY DEF Types, TasksOK, Known, NeedAgent
  <2>2. task[t].at \in NeedWorkspace => task[t].ws \in Workspaces
    <3>1. made \in Nat /\ made <= MaxWorkspaces /\ task[t].ws \in 0..made
      BY ConstantsAssumption DEF Types, MadeOK, TasksOK, TaskRecord
    <3> QED
      BY <3>1, ConstantsAssumption DEF Types, TasksOK, Known, None, Workspaces
  <2>3. CASE CancelsWait(t) \/ CancelsSweep(t)
    BY <2>3 DEF CancelsWait, CancelsSweep, CutOK, cutVars
  <2>4. CASE CancelsFinish(t)
    BY <2>1, <2>4 DEF CancelsFinish, CutOK
  <2>5. CASE CancelsEntry(t)
    BY <2>2, <2>5 DEF CancelsEntry, CutOK, NeedWorkspace
  <2>6. CASE CancelsStop(t)
    BY <2>2, <2>6 DEF CancelsStop, CutOK, NeedWorkspace
  <2> QED
    BY <1>1, <2>3, <2>4, <2>5, <2>6 DEF Cancelled
<1>2. ASSUME UNCHANGED cutVars PROVE CutOK'
  BY <1>2 DEF CutOK, cutVars
<1>3. ASSUME NEW t \in Tasks, Begin(t) \/ AcquireCapacity(t) PROVE CutOK'
  BY <1>2, <1>3 DEF Begin, Get, CleanupIdle, GetLoaded, GetPending, GetFirst, Unload, ReloadBegins,
     AcquireCapacity
<1>4. ASSUME NEW t \in Tasks, Proceed(t) \/ Leave(t) \/ RunStarts(t) PROVE CutOK'
  BY <1>2, <1>4 DEF Proceed, StartEnds, Woken, Evicted, StartSucceeds, StartFails, Finish,
     ReloadCreates, ReloadFails, Swap, Discard, Discarded, Retired, Leave, RunStarts
<1>5. ASSUME NEW w \in Workspaces, DrainStops(w) \/ DrainEnds(w) PROVE CutOK'
  BY <1>2, <1>5 DEF DrainStops, DrainEnds
<1>6. ASSUME \/ \E a \in Agents : Expire(a)
             \/ StopAllBegins \/ StopAllCancelled \/ StopAllStopped \/ UNCHANGED vars
      PROVE  CutOK'
  BY <1>2, <1>6 DEF Expire, StopAllBegins, StopAllCancelled, StopAllStopped, vars, cutVars
<1> QED
  BY <1>1, <1>3, <1>4, <1>5, <1>6 DEF Next
-----------------------------------------------------------------------------
(* Who starts what.  Only one call holds the capacity lock, and an agent   *)
(* that is being started is not loaded.                                    *)
OneHolder == \A t, u \in Tasks : HoldsCapacity(t) /\ HoldsCapacity(u) => t = u

StartsUnloaded == \A t \in Tasks, a \in Agents : Starts(t, a) => agents[a] = None

Starters == OneHolder /\ PendingHasOneStarter /\ WaitersHaveStarter /\ StartsUnloaded

Unloads == \A a \in Agents : agents[a] = None => agents'[a] = None

LEMMA NobodyIsNoAgent == \A a \in Agents : a # Nobody
BY ConstantsAssumption DEF Nobody

LEMMA InitStarters == Init => Starters
BY DEF Init, Starters, OneHolder, PendingHasOneStarter, WaitersHaveStarter, StartsUnloaded,
   Started, Starts, HoldsCapacity, Idle

LEMMA GoesOnly ==
  ASSUME Types, NEW t \in Tasks, NEW k, Goes(t, k)
  PROVE  \A u \in Tasks : task'[u] = IF u = t THEN k ELSE task[u]
BY DEF Types, TasksOK, Goes

(* Who waits, waits for a starter as before.                               *)
LEMMA WaitersStep ==
  ASSUME Types, Starters, stuck \subseteq stuck',
         \A u \in Tasks : task'[u].at = "awaiting" =>
           /\ task[u].at = "awaiting" /\ task'[u].agent = task[u].agent
           /\ Started(task[u].agent) => task[u].agent \in stuck' \/ Started(task[u].agent)'
  PROVE  WaitersHaveStarter'
<1> SUFFICES ASSUME NEW t \in Tasks, task'[t].at = "awaiting"
             PROVE  task'[t].agent \in stuck' \/ Started(task[t].agent)'
  BY DEF WaitersHaveStarter
<1>1. task[t].agent \in stuck \/ Started(task[t].agent)
  BY DEF Starters, WaitersHaveStarter
<1> QED
  BY <1>1

LEMMA StartedStep ==
  ASSUME NEW t \in Tasks, task'[t].agent = task[t].agent,
         NEW u \in Tasks, Starts(u, task[t].agent),
         \A a \in Agents : Starts(u, a) => Starts(u, a)', task[t].agent \in Agents
  PROVE  Started(task[t].agent)'
<1>1. PICK b \in Agents : b = task[t].agent
  OBVIOUS
<1>2. task'[u].agent = b /\ (task'[u].at \in {"capacity", "finishing"} \/ HoldsCapacity(u)')
  BY <1>1 DEF Starts
<1> QED
  BY <1>1, <1>2 DEF Started, Starts

(* No call changes its part in a start.                                    *)
LEMMA StartersSame ==
  ASSUME Types, Starters, Unloads, UNCHANGED <<pending, stuck>>,
         \A u \in Tasks, a \in Agents : Starts(u, a)' <=> Starts(u, a),
         OneHolder',
         \A u \in Tasks : task'[u].at = "awaiting" =>
           task[u].at = "awaiting" /\ task'[u].agent = task[u].agent
  PROVE  Starters'
<1>1. PendingHasOneStarter'
  BY DEF Starters, PendingHasOneStarter, Started
<1>2. WaitersHaveStarter'
  <2> SUFFICES ASSUME NEW u \in Tasks, task'[u].at = "awaiting", Started(task[u].agent)
               PROVE  Started(task[u].agent)'
    BY WaitersStep
  <2>1. task[u].agent \in Agents
    BY DEF Types, TasksOK, Known, NeedAgent
  <2>2. PICK v \in Tasks : Starts(v, task[u].agent)
    BY DEF Started
  <2> QED
    BY <2>1, <2>2, StartedStep
<1>3. StartsUnloaded'
  BY DEF Starters, StartsUnloaded, Unloads
<1> QED
  BY <1>1, <1>2, <1>3 DEF Starters

(* The call t has no part in a start, before or after.                     *)
LEMMA StartersOthers ==
  ASSUME Types, Starters, Unloads, UNCHANGED <<pending, stuck>>, NEW t \in Tasks, NEW k, Goes(t, k),
         task[t].at \notin {"capacity", "starting", "finishing"},
         k.at \notin {"capacity", "starting", "finishing", "awaiting"},
         task[t].at = "evicting" => task[t].agent = Nobody,
         k.at = "evicting" => k.agent = Nobody
  PROVE  Starters'
<1>1. \A u \in Tasks : task'[u] = IF u = t THEN k ELSE task[u]
  BY GoesOnly
<1>2. \A u \in Tasks, a \in Agents : Starts(u, a)' <=> Starts(u, a)
  BY <1>1, NobodyIsNoAgent DEF Starts, HoldsCapacity
<1>3. OneHolder'
  BY <1>1 DEF Starters, OneHolder, HoldsCapacity
<1> QED
  BY <1>1, <1>2, <1>3, StartersSame

(* The call t goes on with its start.                                      *)
LEMMA StarterGoesOn ==
  ASSUME Types, Starters, Unloads, UNCHANGED <<pending, stuck>>, NEW t \in Tasks, NEW k, Goes(t, k),
         Starts(t, task[t].agent), task[t].agent \in Agents, k.agent = task[t].agent,
         k.at \in {"starting", "evicting", "finishing"},
         k.at = "finishing" \/ HoldsCapacity(t) \/ LockFree
  PROVE  Starters'
<1>1. \A u \in Tasks : task'[u] = IF u = t THEN k ELSE task[u]
  BY GoesOnly
<1>2. \A u \in Tasks, a \in Agents : Starts(u, a)' <=> Starts(u, a)
  BY <1>1, NobodyIsNoAgent DEF Starts, HoldsCapacity
<1>3. OneHolder'
  BY <1>1 DEF Starters, OneHolder, HoldsCapacity, LockFree
<1> QED
  BY <1>1, <1>2, <1>3, StartersSame

(* The start of call t is over.                                            *)
LEMMA StarterEnds ==
  ASSUME Types, Starters, NEW t \in Tasks, NEW k, FinishGet(t, k), UNCHANGED stuck,
         Starts(t, task[t].agent), task[t].agent \in Agents,
         k.at \in {"idle", "using"},
         \A a \in Agents \ {task[t].agent} : agents[a] = None => agents'[a] = None
  PROVE  Starters'
<1> DEFINE a == task[t].agent
<1>1. /\ \A u \in Tasks : task'[u] = IF u = t THEN k
                                  ELSE IF u \in Waiters(a)
                                  THEN [task[u] EXCEPT !.at = "woken"] ELSE task[u]
      /\ pending' = pending \ {a}
  BY DEF FinishGet, NoLongerPending
<1>2. \A u \in Tasks : /\ u \in Waiters(a) <=> task[u].at = "awaiting" /\ task[u].agent = a
                      /\ [task[u] EXCEPT !.at = "woken"].at = "woken"
  BY DEF Waiters, Types, TasksOK, TaskRecord
<1>3. \A u \in Tasks : HoldsCapacity(u)' <=> HoldsCapacity(u) /\ u # t
  BY <1>1, <1>2 DEF HoldsCapacity
<1>4. \A u \in Tasks, b \in Agents : Starts(u, b)' <=> Starts(u, b) /\ u # t
  <2> TAKE u \in Tasks, b \in Agents
  <2>1. CASE u = t
    BY <2>1, <1>1 DEF Starts, HoldsCapacity
  <2>2. CASE u # t /\ u \in Waiters(a)
    BY <2>2, <1>1, <1>2 DEF Starts, HoldsCapacity
  <2>3. CASE u # t /\ u \notin Waiters(a)
    BY <2>3, <1>1 DEF Starts, HoldsCapacity
  <2> QED
    BY <2>1, <2>2, <2>3
<1>5. a \notin stuck /\ \A u \in Tasks : Starts(u, a) => u = t
  BY DEF Starters, PendingHasOneStarter
<1>6. \A b \in Agents : Starts(t, b) => b = a
  BY DEF Starts
<1>7. OneHolder'
  <2> SUFFICES ASSUME NEW u \in Tasks, NEW w \in Tasks, HoldsCapacity(u)', HoldsCapacity(w)'
               PROVE  u = w
    BY DEF OneHolder
  <2> QED
    BY <1>3 DEF Starters, OneHolder
<1>8. PendingHasOneStarter'
  <2> SUFFICES ASSUME NEW b \in Agents
               PROVE  /\ b \in pending' <=> b \in stuck \/ Started(b)'
                      /\ \A v, u \in Tasks : Starts(v, b)' /\ Starts(u, b)' => v = u /\ b \notin stuck
    BY DEF PendingHasOneStarter
  <2>1. Started(b)' <=> \E u \in Tasks : Starts(u, b) /\ u # t
    BY <1>4 DEF Started
  <2>2. b \in pending <=> b \in stuck \/ \E u \in Tasks : Starts(u, b)
    BY DEF Starters, PendingHasOneStarter, Started
  <2>3. b \in pending' <=> b \in stuck \/ Started(b)'
    BY <2>1, <2>2, <1>1, <1>5, <1>6
  <2> QED
    BY <2>3, <1>4 DEF Starters, PendingHasOneStarter
<1>9. WaitersHaveStarter'
  <2>1. \A w \in Tasks : task'[w].at = "awaiting" =>
          task'[w] = task[w] /\ task[w].at = "awaiting" /\ task[w].agent # a
    BY <1>1, <1>2
  <2> SUFFICES ASSUME NEW w \in Tasks, task'[w].at = "awaiting", Started(task[w].agent)
               PROVE  Started(task[w].agent)'
    BY <2>1, WaitersStep
  <2>2. task[w].agent \in Agents
    BY <2>1 DEF Types, TasksOK, Known, NeedAgent
  <2>3. PICK u \in Tasks : Starts(u, task[w].agent)
    BY DEF Started
  <2>4. u # t
    BY <2>1, <2>3 DEF Starts
  <2>5. \A b \in Agents : Starts(u, b) => Starts(u, b)'
    BY <1>4, <2>4
  <2> QED
    BY <2>1, <2>2, <2>3, <2>5, StartedStep
<1>10. StartsUnloaded'
  BY <1>4, <1>5 DEF Starters, StartsUnloaded
<1> QED
  BY <1>7, <1>8, <1>9, <1>10 DEF Starters

(* The start of call t ends without a workspace to load.                   *)
LEMMA StarterEndsGet ==
  ASSUME Types, Starters, NEW t \in Tasks, EndsGet(t), UNCHANGED <<agents, stuck>>,
         Starts(t, task[t].agent), task[t].agent \in Agents
  PROVE  Starters'
<1>1. CASE FinishGet(t, Idle)
  <2>1. Idle.at = "idle"
    BY DEF Idle
  <2> QED
    BY <1>1, <2>1, StarterEnds
<1>2. CASE Goes(t, At("finishing", task[t].agent, None, {})) /\ UNCHANGED pending
  <2>1. PICK k : Goes(t, k) /\ k.at = "finishing" /\ k.agent = task[t].agent
    BY <1>2 DEF At
  <2>2. Unloads
    BY DEF Unloads
  <2> QED
    BY <1>2, <2>1, <2>2, StarterGoesOn
<1> QED
  BY <1>1, <1>2 DEF EndsGet

(* The call t is cancelled in its finally block: its agent stays pending.  *)
LEMMA StarterStuck ==
  ASSUME Types, Starters, NEW t \in Tasks, task[t].at = "finishing", task[t].agent \in Agents,
         Goes(t, Idle), UNCHANGED <<agents, pending>>, stuck' = stuck \cup {task[t].agent}
  PROVE  Starters'
<1> DEFINE a == task[t].agent
<1>0. Idle.at = "idle" /\ Idle.agent = Nobody
  BY DEF Idle
<1>1. \A u \in Tasks : task'[u] = IF u = t THEN Idle ELSE task[u]
  BY GoesOnly
<1>2. \A u \in Tasks, b \in Agents : Starts(u, b)' <=> Starts(u, b) /\ u # t
  BY <1>0, <1>1 DEF Starts, HoldsCapacity
<1>3. Starts(t, a) /\ \A b \in Agents : Starts(t, b) => b = a
  BY DEF Starts
<1>4. \A u \in Tasks : Starts(u, a) => u = t
  BY <1>3 DEF Starters, PendingHasOneStarter
<1>5. OneHolder'
  BY <1>0, <1>1 DEF Starters, OneHolder, HoldsCapacity
<1>6. PendingHasOneStarter'
  <2> SUFFICES ASSUME NEW b \in Agents
               PROVE  /\ b \in pending <=> b \in stuck' \/ Started(b)'
                      /\ \A v, u \in Tasks : Starts(v, b)' /\ Starts(u, b)' => v = u /\ b \notin stuck'
    BY DEF PendingHasOneStarter
  <2>1. Started(b)' <=> \E u \in Tasks : Starts(u, b) /\ u # t
    BY <1>2 DEF Started
  <2>2. b \in pending <=> b \in stuck \/ \E u \in Tasks : Starts(u, b)
    BY DEF Starters, PendingHasOneStarter, Started
  <2>3. b \in pending <=> b \in stuck' \/ Started(b)'
    BY <2>1, <2>2, <1>3, <1>4
  <2> QED
    BY <2>3, <1>2, <1>4 DEF Starters, PendingHasOneStarter
<1>7. WaitersHaveStarter'
  <2>1. \A w \in Tasks : task'[w].at = "awaiting" => task'[w] = task[w]
    BY <1>0, <1>1
  <2> SUFFICES ASSUME NEW w \in Tasks, task'[w].at = "awaiting", Started(task[w].agent),
                      task[w].agent # a
               PROVE  Started(task[w].agent)'
    BY <2>1, WaitersStep
  <2>2. task[w].agent \in Agents
    BY <2>1 DEF Types, TasksOK, Known, NeedAgent
  <2>3. PICK u \in Tasks : Starts(u, task[w].agent)
    BY DEF Started
  <2>4. \A b \in Agents : Starts(u, b) => Starts(u, b)'
    BY <1>2, <2>2, <2>3 DEF Starts
  <2> QED
    BY <2>1, <2>2, <2>3, <2>4, StartedStep
<1>8. StartsUnloaded'
  BY <1>2 DEF Starters, StartsUnloaded
<1> QED
  BY <1>5, <1>6, <1>7, <1>8 DEF Starters

LEMMA SweepStarters ==
  ASSUME Types, Starters, NEW t \in Tasks, NEW S, S \subseteq Pairs(made), Sweep(t, S),
         \/ task[t] = Idle
         \/ task[t].at = "evicting"
         \/ task[t].at = "capacity" /\ LockFree,
         UNCHANGED stuck
  PROVE  Starters'
<1>1. task[t].agent # Nobody => /\ task[t].agent \in Agents /\ Starts(t, task[t].agent)
                                /\ HoldsCapacity(t) \/ LockFree
  BY DEF Types, TasksOK, TaskRecord, Starts, HoldsCapacity, Idle
<1>2. task[t].agent = Nobody => task[t].at \notin {"capacity", "starting", "finishing"}
  BY NobodyIsNoAgent DEF Types, TasksOK, Known, NeedAgent, Idle
<1>3. ASSUME NEW a \in Loaded, NEW rest \in SUBSET Pairs(made), Evicts(t, a, rest)
      PROVE  Starters'
  <2> DEFINE k == At("evicting", task[t].agent, agents[a], rest)
  <2>1. Goes(t, k) /\ k.at = "evicting" /\ k.agent = task[t].agent /\ UNCHANGED pending
    BY <1>3 DEF Evicts, At
  <2>2. Unloads
    BY <1>3 DEF Evicts, Pop, Unloads, Types, PoolOK, Loaded
  <2> HIDE DEF k
  <2> QED
    BY <1>1, <1>2, <2>1, <2>2, StarterGoesOn, StartersOthers
<1>4. ASSUME task[t].agent # Nobody, Starting(t)
      PROVE  Starters'
  <2> DEFINE k == At("starting", task[t].agent, made + 1, {})
  <2>1. Goes(t, k) /\ k.at = "starting" /\ k.agent = task[t].agent /\ UNCHANGED pending
    BY <1>4 DEF Starting, At
  <2>2. Unloads
    BY <1>4 DEF Starting, poolVars, Unloads
  <2> HIDE DEF k
  <2> QED
    BY <1>1, <1>4, <2>1, <2>2, StarterGoesOn
<1>5. ASSUME task[t].agent # Nobody, GivesUp(t)
      PROVE  Starters'
  BY <1>1, <1>5, IdleOK, StarterEnds DEF GivesUp, Idle, poolVars
<1>6. ASSUME task[t].agent = Nobody, Over(t)
      PROVE  Starters'
  <2>1. Unloads /\ UNCHANGED pending /\ Goes(t, Idle)
    BY <1>6 DEF Over, poolVars, Unloads
  <2> QED
    BY <1>2, <1>6, <2>1, StartersOthers DEF Idle
<1> QED
  BY <1>3, <1>4, <1>5, <1>6, SweepCases

LEMMA PairsOK ==
  ASSUME Types
  PROVE  /\ Snapshot \subseteq Pairs(made)
         /\ \A t \in Tasks : task[t].todo \subseteq Pairs(made)
<1>1. made \in Nat
  BY ConstantsAssumption DEF Types, MadeOK
<1> QED
  BY <1>1 DEF Types, TasksOK, TaskRecord, Snapshot, Pairs, PoolOK, Loaded, None

LEMMA NextStarters == Types /\ Starters /\ [Next]_vars => Starters'
<1> SUFFICES ASSUME Types, Starters, [Next]_vars PROVE Starters'
  OBVIOUS
<1>i. Idle.at = "idle" /\ Idle.agent = Nobody
  BY DEF Idle
<1>1. ASSUME NEW t \in Tasks, NEW a \in Agents, GetLoaded(t, a) PROVE Starters'
  <2> DEFINE k == At("using", a, agents[a], {})
  <2>1. k.at = "using" /\ Goes(t, k) /\ Unloads /\ UNCHANGED <<pending, stuck>> /\ task[t] = Idle
    BY <1>1 DEF At, GetLoaded, cutVars, Unloads, lockVars
  <2> HIDE DEF k
  <2> QED
    BY <2>1, <1>i, StartersOthers
<1>2. ASSUME NEW t \in Tasks, NEW a \in Agents, GetPending(t, a) PROVE Starters'
  <2>1. \A u \in Tasks : task'[u] = IF u = t THEN At("awaiting", a, None, {}) ELSE task[u]
    BY <1>2, GoesOnly DEF GetPending
  <2>2. /\ At("awaiting", a, None, {}).at = "awaiting" /\ At("awaiting", a, None, {}).agent = a
        /\ task[t] = Idle /\ a \in pending /\ UNCHANGED <<pending, agents, stuck>>
    BY <1>2 DEF At, GetPending, lockVars, poolVars, cutVars
  <2>3. \A u \in Tasks, b \in Agents : Starts(u, b)' <=> Starts(u, b)
    BY <2>1, <2>2, <1>i DEF Starts, HoldsCapacity
  <2>4. OneHolder'
    BY <2>1, <2>2, <1>i DEF Starters, OneHolder, HoldsCapacity
  <2>5. PendingHasOneStarter' /\ StartsUnloaded'
    BY <2>2, <2>3 DEF Starters, PendingHasOneStarter, StartsUnloaded, Started
  <2>6. WaitersHaveStarter'
    <3> SUFFICES ASSUME NEW w \in Tasks, task'[w].at = "awaiting", task'[w].agent \notin stuck
                 PROVE  Started(task[w].agent)'
      BY <2>2 DEF WaitersHaveStarter
    <3>1. PICK b \in Agents : b = task'[w].agent
      BY <2>1, <2>2 DEF Types, TasksOK, Known, NeedAgent
    <3>2. \E u \in Tasks : Starts(u, b)
      BY <2>1, <2>2, <3>1 DEF Starters, PendingHasOneStarter, WaitersHaveStarter, Started
    <3>3. PICK u \in Tasks : Starts(u, b)'
      BY <2>3, <3>2
    <3>4. task'[u].agent = b /\ (task'[u].at \in {"capacity", "finishing"} \/ HoldsCapacity(u)')
      BY <3>3 DEF Starts
    <3> QED
      BY <3>1, <3>4 DEF Started, Starts
  <2> QED
    BY <2>4, <2>5, <2>6 DEF Starters
<1>3. ASSUME NEW t \in Tasks, NEW a \in Agents, GetFirst(t, a) PROVE Starters'
  <2>1. \A u \in Tasks : task'[u] = IF u = t THEN At("capacity", a, None, {}) ELSE task[u]
    BY <1>3, GoesOnly DEF GetFirst
  <2>2. /\ At("capacity", a, None, {}).at = "capacity" /\ At("capacity", a, None, {}).agent = a
        /\ task[t] = Idle /\ a \notin pending /\ pending' = pending \cup {a}
        /\ UNCHANGED <<agents, stuck>> /\ agents[a] = None
    BY <1>3 DEF At, GetFirst, poolVars, cutVars
  <2>3. \A u \in Tasks, b \in Agents : Starts(u, b)' <=> Starts(u, b) \/ (u = t /\ b = a)
    BY <2>1, <2>2, <1>i DEF Starts, HoldsCapacity
  <2>4. OneHolder'
    BY <2>1, <2>2, <1>i DEF Starters, OneHolder, HoldsCapacity
  <2>5. a \notin stuck /\ \A u \in Tasks : ~Starts(u, a)
    BY <2>2 DEF Starters, PendingHasOneStarter, Started
  <2>6. PendingHasOneStarter'
    BY <2>2, <2>3, <2>5 DEF Starters, PendingHasOneStarter, Started
  <2>7. StartsUnloaded'
    BY <2>2, <2>3 DEF Starters, StartsUnloaded
  <2>8. WaitersHaveStarter'
    <3>1. \A w \in Tasks : task'[w].at = "awaiting" => task'[w] = task[w]
      BY <2>1, <2>2
    <3> SUFFICES ASSUME NEW w \in Tasks, task'[w].at = "awaiting", Started(task[w].agent)
                 PROVE  Started(task[w].agent)'
      BY <2>2, <3>1, WaitersStep
    <3>2. task[w].agent \in Agents
      BY <3>1 DEF Types, TasksOK, Known, NeedAgent
    <3>3. PICK u \in Tasks : Starts(u, task[w].agent)
      BY DEF Started
    <3>4. \A b \in Agents : Starts(u, b) => Starts(u, b)'
      BY <2>3
    <3> QED
      BY <3>1, <3>2, <3>3, <3>4, StartedStep
  <2> QED
    BY <2>4, <2>6, <2>7, <2>8 DEF Starters
<1>4. ASSUME NEW t \in Tasks, Woken(t) PROVE Starters'
  <2> DEFINE k == IF agents[task[t].agent] = None THEN Idle
                  ELSE At("using", task[t].agent, agents[task[t].agent], {})
  <2>1. k.at \in {"idle", "using"} /\ Goes(t, k) /\ Unloads /\ UNCHANGED <<pending, stuck>>
           /\ task[t].at = "woken"
    BY <1>4, <1>i DEF At, Woken, cutVars, Unloads, lockVars, poolVars
  <2> HIDE DEF k
  <2> QED
    BY <2>1, StartersOthers
<1>5. ASSUME NEW t \in Tasks, CleanupIdle(t) PROVE Starters'
  BY <1>5, PairsOK, SweepStarters DEF cutVars, CleanupIdle
<1>6. ASSUME NEW t \in Tasks, Evicted(t) PROVE Starters'
  BY <1>6, PairsOK, SweepStarters DEF cutVars, Evicted
<1>7. ASSUME NEW t \in Tasks, AcquireCapacity(t) PROVE Starters'
  BY <1>7, PairsOK, SweepStarters DEF cutVars, AcquireCapacity
<1>8. ASSUME NEW t \in Tasks, Cancelled(t) PROVE Starters'
  <2>1. UNCHANGED agents /\ Unloads
    BY <1>8 DEF Cancelled, CancelsWait, CancelsFinish, CancelsEntry, CancelsStop, CancelsSweep,
       poolVars, Unloads
  <2>2. task[t].at \in {"capacity", "starting", "finishing"} =>
          task[t].agent \in Agents /\ Starts(t, task[t].agent)
    BY DEF Types, TasksOK, Known, NeedAgent, Starts, HoldsCapacity
  <2>3. task[t].at = "evicting" /\ task[t].agent # Nobody =>
          task[t].agent \in Agents /\ Starts(t, task[t].agent)
    BY DEF Types, TasksOK, TaskRecord, Starts, HoldsCapacity
  <2>4. CASE CancelsWait(t)
    <3>1. UNCHANGED stuck
      BY <2>4 DEF CancelsWait, cutVars
    <3>2. CASE task[t].at \in {"awaiting", "woken", "reloading"} /\ Goes(t, Idle) /\ UNCHANGED pending
      BY <2>1, <3>1, <3>2, <1>i, StartersOthers
    <3>3. CASE task[t].at = "capacity" /\ EndsGet(t)
      BY <2>1, <2>2, <3>1, <3>3, StarterEndsGet
    <3> QED
      BY <2>4, <3>2, <3>3 DEF CancelsWait
  <2>5. CASE CancelsFinish(t)
    BY <2>1, <2>2, <2>5, StarterStuck DEF CancelsFinish, lockVars
  <2>6. CASE CancelsEntry(t)
    <3>1. CASE task[t].at = "starting"
      BY <2>1, <2>2, <2>6, <3>1, StarterEndsGet DEF CancelsEntry
    <3>2. CASE task[t].at = "restarting"
      BY <2>1, <2>6, <3>2, <1>i, StartersOthers DEF CancelsEntry
    <3> QED
      BY <2>6, <3>1, <3>2 DEF CancelsEntry
  <2>7. CASE LeavesStop(t) /\ UNCHANGED stuck /\ task[t].at \in {"evicting", "discarding", "retiring"}
    <3>1. CASE task[t].at = "evicting" /\ task[t].agent # Nobody
      BY <2>1, <2>3, <2>7, <3>1, StarterEndsGet DEF LeavesStop
    <3>2. CASE ~(task[t].at = "evicting" /\ task[t].agent # Nobody)
      BY <2>1, <2>7, <3>2, <1>i, StartersOthers DEF LeavesStop
    <3> QED
      BY <3>1, <3>2
  <2>8. CASE CancelsStop(t) \/ CancelsSweep(t)
    BY <2>7, <2>8 DEF CancelsStop, CancelsSweep, cutVars
  <2> QED
    BY <1>8, <2>4, <2>5, <2>6, <2>8 DEF Cancelled
<1>9. ASSUME NEW t \in Tasks, StartSucceeds(t) PROVE Starters'
  <2> DEFINE k == At("using", task[t].agent, task[t].ws, {})
  <2>1. k.at = "using" /\ FinishGet(t, k) /\ UNCHANGED stuck
    BY <1>9 DEF At, StartSucceeds, cutVars
  <2> HIDE DEF k
  <2>2. task[t].agent \in Agents /\ Starts(t, task[t].agent)
    BY <1>9 DEF Types, TasksOK, Known, NeedAgent, Starts, HoldsCapacity, StartSucceeds
  <2>3. \A a \in Agents \ {task[t].agent} : agents[a] = None => agents'[a] = None
    BY <1>9 DEF StartSucceeds, Types, PoolOK
  <2> QED
    BY <2>1, <2>2, <2>3, StarterEnds
<1>10. ASSUME NEW t \in Tasks, StartFails(t) \/ Finish(t) PROVE Starters'
  <2>1. task[t].agent \in Agents /\ Starts(t, task[t].agent)
    BY <1>10 DEF Types, TasksOK, Known, NeedAgent, Starts, HoldsCapacity, StartFails, Finish
  <2>2. EndsGet(t)
    BY <1>10 DEF StartFails, Finish, EndsGet
  <2>3. UNCHANGED <<agents, stuck>>
    BY <1>10 DEF StartFails, Finish, poolVars, cutVars
  <2> QED
    BY <2>1, <2>2, <2>3, StarterEndsGet
<1>11. ASSUME NEW t \in Tasks, Leave(t) PROVE Starters'
  <2>1. Unloads /\ UNCHANGED <<pending, stuck>>
    BY <1>11 DEF Leave, cutVars, poolVars, lockVars, Unloads
  <2> QED
    BY <1>11, <2>1, <1>i, StartersOthers DEF Leave, cutVars
<1>12. ASSUME NEW t \in Tasks, RunStarts(t) PROVE Starters'
  <2> DEFINE k == [task[t] EXCEPT !.at = "running"]
  <2>1. k.at = "running"
    BY DEF Types, TasksOK, TaskRecord
  <2>2. Goes(t, k) /\ Unloads /\ UNCHANGED <<pending, stuck>> /\ task[t].at = "using"
    BY <1>12 DEF RunStarts, cutVars, poolVars, lockVars, Unloads
  <2> HIDE DEF k
  <2> QED
    BY <2>1, <2>2, StartersOthers
<1>13. ASSUME NEW t \in Tasks, NEW a \in Agents, Unload(t, a) PROVE Starters'
  <2> DEFINE k == At("evicting", Nobody, agents[a], {})
  <2>1. k.at = "evicting" /\ k.agent = Nobody /\ Goes(t, k) /\ UNCHANGED <<pending, stuck>>
           /\ task[t] = Idle
    BY <1>13 DEF At, Unload, cutVars, lockVars
  <2> HIDE DEF k
  <2>2. Unloads
    BY <1>13 DEF Unload, cutVars, Pop, Unloads, Types, PoolOK
  <2> QED
    BY <2>1, <2>2, <1>i, StartersOthers
<1>14. ASSUME NEW t \in Tasks, NEW a \in Agents, ReloadBegins(t, a) PROVE Starters'
  <2> DEFINE k == At("reloading", a, None, {})
  <2>1. k.at = "reloading" /\ Goes(t, k) /\ UNCHANGED <<pending, stuck>> /\ Unloads /\ task[t] = Idle
    BY <1>14 DEF At, ReloadBegins, cutVars, lockVars, poolVars, Unloads
  <2> HIDE DEF k
  <2> QED
    BY <2>1, <1>i, StartersOthers
<1>15. ASSUME NEW t \in Tasks, ReloadCreates(t) PROVE Starters'
  <2> DEFINE k == At("restarting", task[t].agent, made + 1, {})
  <2>1. k.at = "restarting" /\ Goes(t, k) /\ UNCHANGED <<pending, stuck>> /\ Unloads
           /\ task[t].at = "reloading"
    BY <1>15 DEF At, ReloadCreates, cutVars, lockVars, poolVars, Unloads
  <2> HIDE DEF k
  <2> QED
    BY <2>1, StartersOthers
<1>16. ASSUME NEW t \in Tasks, ReloadFails(t) PROVE Starters'
  <2>1. Unloads /\ UNCHANGED <<pending, stuck>>
    BY <1>16 DEF ReloadFails, cutVars, poolVars, lockVars, Unloads
  <2> QED
    BY <1>16, <2>1, <1>i, StartersOthers DEF ReloadFails, cutVars
<1>17. ASSUME NEW t \in Tasks, Swap(t) PROVE Starters'
  <2> DEFINE k == At("retiring", task[t].agent, agents[task[t].agent], {})
  <2>1. k.at = "retiring" /\ (Goes(t, Idle) \/ Goes(t, k)) /\ UNCHANGED <<pending, stuck>>
           /\ task[t].at = "restarting"
    BY <1>17 DEF At, Swap, cutVars, lockVars
  <2> HIDE DEF k
  <2>2. Unloads
    BY <1>17 DEF Swap, cutVars, Unloads, Types, PoolOK
  <2> QED
    BY <2>1, <2>2, <1>i, StartersOthers
<1>18. ASSUME NEW t \in Tasks, Discard(t) PROVE Starters'
  <2> DEFINE k == [task[t] EXCEPT !.at = "discarding"]
  <2>1. k.at = "discarding"
    BY DEF Types, TasksOK, TaskRecord
  <2>2. Goes(t, k) /\ Unloads /\ UNCHANGED <<pending, stuck>> /\ task[t].at = "restarting"
    BY <1>18 DEF Discard, cutVars, poolVars, Unloads
  <2> HIDE DEF k
  <2> QED
    BY <2>1, <2>2, StartersOthers
<1>19. ASSUME NEW t \in Tasks, Discarded(t) \/ Retired(t) PROVE Starters'
  <2>1. Unloads /\ UNCHANGED <<pending, stuck>> /\ Goes(t, Idle) /\ task[t].at \in {"discarding", "retiring"}
    BY <1>19 DEF Discarded, Retired, cutVars, poolVars, lockVars, Unloads
  <2> QED
    BY <2>1, <1>i, StartersOthers
<1>20. ASSUME UNCHANGED <<task, pending, stuck>>, Unloads PROVE Starters'
  <2>1. OneHolder' /\ \A u \in Tasks, a \in Agents : Starts(u, a)' <=> Starts(u, a)
    BY <1>20 DEF Starters, OneHolder, HoldsCapacity, Starts
  <2> QED
    BY <1>20, <2>1, StartersSame
<1>21. ASSUME NEW w \in Workspaces, DrainStops(w) \/ DrainEnds(w) PROVE Starters'
  BY <1>20, <1>21 DEF DrainStops, DrainEnds, cutVars, poolVars, lockVars, Unloads
<1>22. ASSUME NEW a \in Agents, Expire(a) PROVE Starters'
  BY <1>20, <1>22 DEF Expire, cutVars, lockVars, Unloads
<1>23. ASSUME StopAllBegins \/ StopAllCancelled \/ StopAllStopped PROVE Starters'
  <2>1. UNCHANGED <<task, pending, stuck>>
    BY <1>23 DEF StopAllBegins, StopAllCancelled, StopAllStopped, lockVars, cutVars
  <2>2. Unloads
    BY <1>23 DEF StopAllBegins, StopAllCancelled, StopAllStopped, StopNext, poolVars, Unloads
  <2> QED
    BY <1>20, <2>1, <2>2
<1>24. ASSUME UNCHANGED vars PROVE Starters'
  BY <1>20, <1>24 DEF vars, Unloads
<1> QED
  BY <1>1, <1>2, <1>3, <1>4, <1>5, <1>6, <1>7, <1>8, <1>9, <1>10, <1>11, <1>12, <1>13, <1>14,
     <1>15, <1>16, <1>17, <1>18, <1>19, <1>21, <1>22, <1>23, <1>24
     DEF Next, Begin, Get, Proceed, StartEnds
-----------------------------------------------------------------------------
(* What a cancelled call, and a start that ends without a workspace, leave *)
(* alone, and where the call comes to.                                     *)
Ends(t) == Cancelled(t) \/ StartFails(t) \/ Finish(t)

LEMMA EndsCases ==
  ASSUME NEW t \in Tasks, Ends(t)
  PROVE  /\ UNCHANGED <<agents, services, crossed, drain, manager>>
         /\ \E k : (Goes(t, k) \/ FinishGet(t, k)) /\ k.at \in {"idle", "finishing"}
<1>1. UNCHANGED <<agents, services, crossed, drain, manager>>
  BY DEF Ends, Cancelled, StartFails, Finish, CancelsWait, CancelsFinish, CancelsEntry, CancelsStop,
     CancelsSweep, poolVars, workspaceVars
<1>2. Idle.at = "idle" /\ At("finishing", task[t].agent, None, {}).at = "finishing"
  BY DEF Idle, At
<1>3. EndsGet(t) \/ Goes(t, Idle) \/ FinishGet(t, Idle)
  BY DEF Ends, Cancelled, StartFails, Finish, CancelsWait, CancelsFinish, CancelsEntry, CancelsStop,
     CancelsSweep, LeavesStop
<1> QED
  BY <1>1, <1>2, <1>3 DEF EndsGet
-----------------------------------------------------------------------------
(* Whoever starts an agent has room for it: nobody else loads one.         *)
HasRoom == MaxActive # 0 => Cardinality(Loaded) < MaxActive

Room == /\ IsFiniteSet(Loaded)
        /\ PoolBounded
        /\ \A t \in Tasks : task[t].at = "starting" => HasRoom

LEMMA InitRoom == Init => Room
<1> SUFFICES ASSUME Init PROVE Room
  OBVIOUS
<1>1. Loaded = {}
  BY DEF Init, Loaded
<1>2. IsFiniteSet(Loaded) /\ Cardinality(Loaded) = 0
  BY <1>1, FS_EmptySet
<1>3. \A t \in Tasks : task[t].at # "starting"
  BY DEF Init, Idle
<1> QED
  BY <1>2, <1>3, ConstantsAssumption DEF Room, PoolBounded

(* Nobody begins to start an agent, and none is loaded.                    *)
LEMMA RoomKept ==
  ASSUME Room, Unloads, \A t \in Tasks : task'[t].at = "starting" => task[t].at = "starting"
  PROVE  Room'
<1>1. Loaded' \subseteq Loaded
  BY DEF Unloads, Loaded
<1>2. /\ IsFiniteSet(Loaded') /\ Cardinality(Loaded') <= Cardinality(Loaded)
      /\ Cardinality(Loaded') \in Nat /\ Cardinality(Loaded) \in Nat
  BY <1>1, FS_Subset, FS_CardinalityType DEF Room
<1>3. HasRoom => HasRoom'
  BY <1>2, ConstantsAssumption DEF HasRoom
<1>4. PoolBounded'
  BY <1>2, ConstantsAssumption DEF Room, PoolBounded
<1> QED
  BY <1>2, <1>3, <1>4 DEF Room

LEMMA RoomOthers ==
  ASSUME Types, Room, Unloads, NEW t \in Tasks, NEW k, Goes(t, k), k.at # "starting"
  PROVE  Room'
<1>1. \A u \in Tasks : task'[u] = IF u = t THEN k ELSE task[u]
  BY GoesOnly
<1> QED
  BY <1>1, RoomKept

LEMMA RoomFinish ==
  ASSUME Types, Room, Unloads, NEW t \in Tasks, NEW k, FinishGet(t, k), k.at # "starting"
  PROVE  Room'
<1>1. \A u \in Tasks : task'[u] = IF u = t THEN k
                                  ELSE IF u \in Waiters(task[t].agent)
                                  THEN [task[u] EXCEPT !.at = "woken"] ELSE task[u]
  BY DEF FinishGet
<1>2. \A u \in Tasks : [task[u] EXCEPT !.at = "woken"].at = "woken"
  BY DEF Types, TasksOK, TaskRecord
<1> QED
  BY <1>1, <1>2, RoomKept

LEMMA SweepRoom ==
  ASSUME Types, Room, NEW t \in Tasks, NEW S, S \subseteq Pairs(made), Sweep(t, S)
  PROVE  Room'
<1>1. ASSUME NEW a \in Loaded, NEW rest \in SUBSET Pairs(made), Evicts(t, a, rest)
      PROVE  Room'
  <2> DEFINE k == At("evicting", task[t].agent, agents[a], rest)
  <2>1. Goes(t, k) /\ k.at = "evicting" /\ Unloads
    BY <1>1 DEF Evicts, At, Pop, Unloads, Types, PoolOK, Loaded
  <2> HIDE DEF k
  <2> QED
    BY <2>1, RoomOthers
<1>2. ASSUME Starting(t) PROVE Room'
  <2>1. Loaded' = Loaded /\ HasRoom
    BY <1>2 DEF Starting, poolVars, Fits, HasRoom, Loaded
  <2>2. HasRoom'
    BY <2>1 DEF HasRoom
  <2> QED
    BY <2>1, <2>2 DEF Room, PoolBounded
<1>3. ASSUME GivesUp(t) \/ Over(t) PROVE Room'
  <2>1. Unloads /\ (FinishGet(t, Idle) \/ Goes(t, Idle)) /\ Idle.at = "idle"
    BY <1>3 DEF GivesUp, Over, poolVars, Unloads, Idle
  <2> QED
    BY <2>1, RoomFinish, RoomOthers
<1> QED
  BY <1>1, <1>2, <1>3, SweepCases

LEMMA NextRoom == Types /\ Starters /\ Room /\ [Next]_vars => Room'
<1> SUFFICES ASSUME Types, Starters, Room, [Next]_vars PROVE Room'
  OBVIOUS
<1>1. ASSUME NEW t \in Tasks, NEW S, S \subseteq Pairs(made), Sweep(t, S) PROVE Room'
  BY <1>1, SweepRoom
<1>2. ASSUME NEW t \in Tasks, CleanupIdle(t) \/ Evicted(t) \/ AcquireCapacity(t) PROVE Room'
  BY <1>1, <1>2, PairsOK DEF CleanupIdle, Evicted, AcquireCapacity
<1>3. ASSUME NEW t \in Tasks, StartSucceeds(t) PROVE Room'
  <2> DEFINE a == task[t].agent
             k == At("using", a, task[t].ws, {})
  <2>1. FinishGet(t, k) /\ k.at = "using" /\ agents' = [agents EXCEPT ![a] = task[t].ws]
           /\ task[t].at = "starting"
    BY <1>3 DEF StartSucceeds, At
  <2> HIDE DEF k
  <2>2. \A u \in Tasks : task'[u].at # "starting"
    <3>1. \A u \in Tasks : task[u].at = "starting" => u = t
      BY <2>1 DEF Starters, OneHolder, HoldsCapacity
    <3>2. \A u \in Tasks : [task[u] EXCEPT !.at = "woken"].at = "woken"
      BY DEF Types, TasksOK, TaskRecord
    <3> QED
      BY <2>1, <3>1, <3>2 DEF FinishGet
  <2>3. a \in Agents /\ task[t].ws # None
    BY <2>1 DEF Types, TasksOK, Known, NeedAgent, NeedWorkspace
  <2>4. Loaded' = Loaded \cup {a}
    BY <2>1, <2>3 DEF Loaded, Types, PoolOK
  <2>5. HasRoom
    BY <2>1 DEF Room
  <2>6. /\ IsFiniteSet(Loaded') /\ Cardinality(Loaded') <= Cardinality(Loaded) + 1
        /\ Cardinality(Loaded') \in Nat /\ Cardinality(Loaded) \in Nat
    <3> DEFINE L == Loaded
    <3>1. IsFiniteSet(L) /\ Loaded' = L \cup {a}
      BY <2>4 DEF Room
    <3> HIDE DEF L
    <3>2. /\ IsFiniteSet(L \cup {a}) /\ Cardinality(L) \in Nat
          /\ Cardinality(L \cup {a}) = IF a \in L THEN Cardinality(L) ELSE Cardinality(L) + 1
      BY <3>1, FS_AddElement, FS_CardinalityType
    <3> QED
      BY <3>1, <3>2 DEF L
  <2>7. PoolBounded'
    BY <2>5, <2>6, ConstantsAssumption DEF PoolBounded, HasRoom
  <2> QED
    BY <2>2, <2>6, <2>7 DEF Room
<1>4. ASSUME NEW t \in Tasks, Ends(t) PROVE Room'
  <2>1. Unloads /\ \E k : (Goes(t, k) \/ FinishGet(t, k)) /\ k.at # "starting"
    BY <1>4, EndsCases DEF Unloads
  <2> QED
    BY <2>1, RoomOthers, RoomFinish
<1>5. ASSUME NEW t \in Tasks, NEW k, Goes(t, k), k.at # "starting", Unloads PROVE Room'
  BY <1>5, RoomOthers
<1>6. ASSUME NEW t \in Tasks,
             \/ Woken(t) \/ ReloadCreates(t) \/ ReloadFails(t) \/ Discarded(t) \/ Retired(t)
             \/ Leave(t)
      PROVE  Room'
  <2>1. Unloads
    BY <1>6 DEF Woken, ReloadCreates, ReloadFails, Discarded, Retired, Leave, poolVars, Unloads
  <2>2. \E k : Goes(t, k) /\ k.at # "starting"
    BY <1>6 DEF Woken, ReloadCreates, ReloadFails, Discarded, Retired, Leave, At, Idle
  <2> QED
    BY <1>5, <2>1, <2>2
<1>7. ASSUME NEW t \in Tasks, RunStarts(t) \/ Discard(t) PROVE Room'
  <2>1. Unloads
    BY <1>7 DEF RunStarts, Discard, poolVars, Unloads
  <2>2. \E place \in {"running", "discarding"} : Goes(t, [task[t] EXCEPT !.at = place])
    BY <1>7 DEF RunStarts, Discard
  <2>3. PICK place \in {"running", "discarding"} : Goes(t, [task[t] EXCEPT !.at = place])
    BY <2>2
  <2>4. [task[t] EXCEPT !.at = place].at # "starting"
    BY DEF Types, TasksOK, TaskRecord
  <2> QED
    BY <1>5, <2>1, <2>3, <2>4
<1>8. ASSUME NEW t \in Tasks, NEW a \in Agents,
             GetLoaded(t, a) \/ GetPending(t, a) \/ GetFirst(t, a) \/ ReloadBegins(t, a)
      PROVE  Room'
  <2>1. Unloads
    BY <1>8 DEF GetLoaded, GetPending, GetFirst, ReloadBegins, poolVars, Unloads
  <2>2. \E k : Goes(t, k) /\ k.at # "starting"
    BY <1>8 DEF GetLoaded, GetPending, GetFirst, ReloadBegins, At
  <2> QED
    BY <1>5, <2>1, <2>2
<1>9. ASSUME NEW t \in Tasks, NEW a \in Agents, Unload(t, a) PROVE Room'
  <2>1. Unloads
    BY <1>9 DEF Unload, Pop, Unloads, Types, PoolOK
  <2>2. \E k : Goes(t, k) /\ k.at # "starting"
    BY <1>9 DEF Unload, At
  <2> QED
    BY <1>5, <2>1, <2>2
<1>10. ASSUME NEW t \in Tasks, Swap(t) PROVE Room'
  <2>1. Unloads
    BY <1>10 DEF Swap, Unloads, Types, PoolOK
  <2>2. \E k : Goes(t, k) /\ k.at # "starting"
    BY <1>10 DEF Swap, At, Idle
  <2> QED
    BY <1>5, <2>1, <2>2
<1>11. ASSUME UNCHANGED task, Unloads PROVE Room'
  BY <1>11, RoomKept
<1>12. ASSUME \/ \E w \in Workspaces : DrainStops(w) \/ DrainEnds(w)
              \/ \E a \in Agents : Expire(a)
              \/ StopAllBegins \/ UNCHANGED vars
       PROVE  Room'
  BY <1>11, <1>12 DEF DrainStops, DrainEnds, Expire, StopAllBegins, vars, poolVars, Unloads
<1>13. ASSUME StopAllCancelled \/ StopAllStopped PROVE Room'
  <2>1. UNCHANGED task /\ Unloads
    BY <1>13 DEF StopAllCancelled, StopAllStopped, StopNext, poolVars, Unloads
  <2> QED
    BY <2>1, <1>11
<1> QED
  BY <1>2, <1>3, <1>4, <1>6, <1>7, <1>8, <1>9, <1>10, <1>12, <1>13
     DEF Next, Begin, Get, Proceed, StartEnds, Ends
-----------------------------------------------------------------------------
(* No orphans: whatever t does, a started workspace stays accounted for if *)
(* those that t held, that were loaded or that were drained are.           *)
LEMMA OrphansStep ==
  ASSUME NoOrphans, UNCHANGED manager, NEW t \in Tasks, torn \subseteq torn',
         \A u \in Tasks \ {t} : HeldBy(u) \subseteq HeldBy(u)',
         \A w \in started' : w \in started \ HeldBy(t) \/ w \in torn' \/ Accounted(w)',
         \A w \in started', a \in Agents : agents[a] = w => Accounted(w)',
         \A w \in started' : drain[w] # "no" => Accounted(w)'
  PROVE  NoOrphans'
<1> SUFFICES ASSUME manager.phase = "up", NEW w \in started' \ torn' PROVE Accounted(w)'
  BY DEF NoOrphans
<1>1. CASE w \in started \ HeldBy(t)
  <2>1. CASE \E u \in Tasks \ {t} : w \in HeldBy(u)
    BY <2>1 DEF Accounted
  <2> QED
    BY <1>1, <2>1 DEF NoOrphans, Accounted
<1> QED
  BY <1>1

LEMMA HeldByOthers ==
  ASSUME Types, NEW t \in Tasks, NEW k, Goes(t, k) \/ FinishGet(t, k)
  PROVE  \A u \in Tasks \ {t} : HeldBy(u) \subseteq HeldBy(u)'
<1>1. CASE Goes(t, k)
  BY <1>1, GoesOnly DEF HeldBy
<1>2. CASE FinishGet(t, k)
  BY <1>2 DEF FinishGet, Waiters, HeldBy
<1> QED
  BY <1>1, <1>2

(* The dictionaries are left alone.                                        *)
LEMMA OrphansSame ==
  ASSUME Types, NoOrphans, NEW t \in Tasks, NEW k, Goes(t, k) \/ FinishGet(t, k),
         UNCHANGED <<agents, drain, manager>>, torn \subseteq torn',
         \A w \in started' : w \in started \ HeldBy(t) \/ w \in torn' \/ Accounted(w)'
  PROVE  NoOrphans'
<1>1. \A w \in started' : (\E a \in Agents : agents[a] = w) \/ drain[w] # "no" => Accounted(w)'
  BY DEF Accounted
<1> QED
  BY <1>1, OrphansStep, HeldByOthers

(* An agent is unloaded, and the task that unloads it stops its workspace. *)
LEMMA OrphansPop ==
  ASSUME Types, NoOrphans, NEW t \in Tasks, NEW a \in Agents, NEW k, Goes(t, k), Pop(a),
         k.at = "evicting", k.ws = agents[a],
         UNCHANGED <<drain, manager, torn>>, started' \subseteq started \ HeldBy(t)
  PROVE  NoOrphans'
<1>1. HeldBy(t)' = {agents[a]}
  BY GoesOnly DEF HeldBy
<1>2. \A b \in Agents : b = a \/ agents'[b] = agents[b]
  BY DEF Pop, Types, PoolOK
<1>3. \A w \in started' : (\E b \in Agents : agents[b] = w) \/ drain[w] # "no" => Accounted(w)'
  <2> SUFFICES ASSUME NEW w \in started', (\E b \in Agents : agents[b] = w) \/ drain[w] # "no"
               PROVE  Accounted(w)'
    OBVIOUS
  <2>1. CASE drain[w] # "no"
    BY <2>1 DEF Accounted
  <2>2. ASSUME NEW b \in Agents, agents[b] = w PROVE Accounted(w)'
    <3>1. CASE b = a
      BY <1>1, <2>2, <3>1 DEF Accounted
    <3>2. CASE b # a
      BY <1>2, <2>2, <3>2 DEF Accounted
    <3> QED
      BY <3>1, <3>2
  <2> QED
    BY <2>1, <2>2
<1>4. \A u \in Tasks \ {t} : HeldBy(u) \subseteq HeldBy(u)'
  BY HeldByOthers
<1> QED
  BY <1>3, <1>4, OrphansStep

LEMMA SweepOrphans ==
  ASSUME Types, NoOrphans, NEW t \in Tasks, NEW S, S \subseteq Pairs(made), Sweep(t, S),
         UNCHANGED <<drain, manager, torn>>, started' \subseteq started \ HeldBy(t)
  PROVE  NoOrphans'
<1>1. ASSUME NEW a \in Loaded, NEW rest \in SUBSET Pairs(made), Evicts(t, a, rest)
      PROVE  NoOrphans'
  <2> DEFINE k == At("evicting", task[t].agent, agents[a], rest)
  <2>1. Goes(t, k) /\ k.at = "evicting" /\ k.ws = agents[a] /\ Pop(a) /\ a \in Agents
    BY <1>1 DEF Evicts, At, Loaded
  <2> HIDE DEF k
  <2> QED
    BY <2>1, OrphansPop
<1>2. ASSUME Starting(t) \/ GivesUp(t) \/ Over(t) PROVE NoOrphans'
  <2>1. UNCHANGED agents /\ \E k : Goes(t, k) \/ FinishGet(t, k)
    BY <1>2 DEF Starting, GivesUp, Over, poolVars
  <2> QED
    BY <2>1, OrphansSame
<1> QED
  BY <1>1, <1>2, SweepCases

LEMMA NextOrphans == Types /\ Starters /\ NoOrphans /\ [Next]_vars => NoOrphans'
<1> SUFFICES ASSUME Types, Starters, NoOrphans, [Next]_vars PROVE NoOrphans'
  OBVIOUS
<1>1. ASSUME NEW t \in Tasks, CleanupIdle(t) \/ AcquireCapacity(t) PROVE NoOrphans'
  <2>1. HeldBy(t) = {} /\ UNCHANGED <<started, drain, manager, torn>>
    BY <1>1 DEF cutVars, CleanupIdle, AcquireCapacity, HeldBy, Idle
  <2> QED
    BY <1>1, <2>1, PairsOK, SweepOrphans DEF CleanupIdle, AcquireCapacity
<1>2. ASSUME NEW t \in Tasks, Evicted(t) PROVE NoOrphans'
  <2>1. HeldBy(t) = {task[t].ws} /\ UNCHANGED <<drain, manager, torn>> /\ started' = started \ {task[t].ws}
    BY <1>2 DEF cutVars, Evicted, HeldBy
  <2> QED
    BY <1>2, <2>1, PairsOK, SweepOrphans DEF Evicted
<1>3. ASSUME NEW t \in Tasks, NEW k, Goes(t, k) \/ FinishGet(t, k), HeldBy(t) = {},
             UNCHANGED <<agents, drain, manager, started, torn>>
      PROVE  NoOrphans'
  BY <1>3, OrphansSame
<1>4. ASSUME NEW t \in Tasks, NEW a \in Agents,
             GetLoaded(t, a) \/ GetPending(t, a) \/ GetFirst(t, a) \/ ReloadBegins(t, a)
      PROVE  NoOrphans'
  <2>1. HeldBy(t) = {} /\ UNCHANGED <<agents, drain, manager, started, torn>>
    BY <1>4 DEF cutVars, GetLoaded, GetPending, GetFirst, ReloadBegins, poolVars, HeldBy, Idle
  <2>2. \E k : Goes(t, k)
    BY <1>4 DEF GetLoaded, GetPending, GetFirst, ReloadBegins
  <2> QED
    BY <2>1, <2>2, <1>3
<1>5. ASSUME NEW t \in Tasks,
             Woken(t) \/ ReloadCreates(t) \/ ReloadFails(t) \/ Leave(t) \/ RunStarts(t)
      PROVE  NoOrphans'
  <2>1. HeldBy(t) = {}
    BY <1>5 DEF Woken, ReloadCreates, ReloadFails, Leave, RunStarts, HeldBy
  <2>2. UNCHANGED <<agents, drain, manager, started, torn>>
    BY <1>5 DEF Woken, ReloadCreates, ReloadFails, Leave, RunStarts, poolVars, cutVars
  <2>3. \E k : Goes(t, k)
    BY <1>5 DEF Woken, ReloadCreates, ReloadFails, Leave, RunStarts
  <2> QED
    BY <2>1, <2>2, <2>3, <1>3
<1>c. ASSUME NEW t \in Tasks, Ends(t) PROVE NoOrphans'
  <2>1. UNCHANGED <<agents, drain, manager>> /\ \E k : Goes(t, k) \/ FinishGet(t, k)
    BY <1>c, EndsCases
  <2>2. torn \subseteq torn' /\ \A w \in started' : w \in started \ HeldBy(t) \/ w \in torn'
    <3>1. CASE StartFails(t) \/ Finish(t) \/ CancelsWait(t) \/ CancelsFinish(t)
      BY <3>1 DEF StartFails, Finish, CancelsWait, CancelsFinish, cutVars, HeldBy
    <3>2. CASE CancelsEntry(t)
      BY <3>2 DEF CancelsEntry, HeldBy
    <3>3. CASE CancelsStop(t)
      BY <3>3 DEF CancelsStop, HeldBy
    <3>4. CASE CancelsSweep(t)
      BY <3>4 DEF CancelsSweep, cutVars, HeldBy
    <3> QED
      BY <1>c, <3>1, <3>2, <3>3, <3>4 DEF Ends, Cancelled
  <2> QED
    BY <2>1, <2>2, OrphansSame
<1>6. ASSUME NEW t \in Tasks, StartSucceeds(t) PROVE NoOrphans'
  <2>1. PICK a, w, k :
          /\ a = task[t].agent /\ w = task[t].ws
          /\ FinishGet(t, k) /\ agents' = [agents EXCEPT ![a] = w]
          /\ task[t].at = "starting" /\ started' = started \cup {w}
    BY <1>6 DEF StartSucceeds
  <2>2. UNCHANGED <<drain, manager, torn>> /\ HeldBy(t) = {}
    BY <1>6 DEF cutVars, StartSucceeds, HeldBy
  <2>3. a \in Agents /\ agents[a] = None
    BY <2>1 DEF Types, TasksOK, Known, NeedAgent, Starters, StartsUnloaded, Starts, HoldsCapacity
  <2>4. \A b \in Agents : agents'[b] = IF b = a THEN w ELSE agents[b]
    BY <2>1 DEF Types, PoolOK
  <2>5. Accounted(w)'
    BY <2>3, <2>4 DEF Accounted
  <2>6. \A x \in started' : x \in started \ HeldBy(t) \/ Accounted(x)'
    BY <2>1, <2>2, <2>5
  <2>7. \A x \in started', b \in Agents : agents[b] = x => Accounted(x)'
    <3> SUFFICES ASSUME NEW x \in started', NEW b \in Agents, agents[b] = x PROVE Accounted(x)'
      OBVIOUS
    <3>1. x # None
      BY <2>1 DEF Types, LifeOK, TasksOK, Known, NeedWorkspace, None
    <3> QED
      BY <3>1, <2>3, <2>4 DEF Accounted
  <2>8. \A x \in started' : drain[x] # "no" => Accounted(x)'
    BY <2>2 DEF Accounted
  <2>9. \A u \in Tasks \ {t} : HeldBy(u) \subseteq HeldBy(u)'
    BY <2>1, HeldByOthers
  <2> QED
    BY <2>2, <2>6, <2>7, <2>8, <2>9, OrphansStep
<1>7. ASSUME NEW t \in Tasks, NEW a \in Agents, Unload(t, a) PROVE NoOrphans'
  <2>1. PICK k : Goes(t, k) /\ k.at = "evicting" /\ k.ws = agents[a]
    BY <1>7 DEF Unload, At
  <2>2. Pop(a) /\ UNCHANGED <<drain, manager, torn>> /\ started' \subseteq started \ HeldBy(t)
    BY <1>7 DEF cutVars, Unload, HeldBy, Idle
  <2> QED
    BY <2>1, <2>2, OrphansPop
<1>8. ASSUME NEW t \in Tasks, Swap(t) PROVE NoOrphans'
  <2>1. PICK a, w, old :
          /\ a = task[t].agent /\ w = task[t].ws /\ old = agents[a] /\ old # None
          /\ task[t].at = "restarting"
          /\ agents' = [agents EXCEPT ![a] = w] /\ started' = started \cup {w}
          /\ \/ drain' = [drain EXCEPT ![old] = "waiting"] /\ Goes(t, Idle)
             \/ drain' = drain /\ Goes(t, At("retiring", a, old, {}))
    BY <1>8 DEF Swap, Drained
  <2>2. UNCHANGED <<manager, torn>> /\ HeldBy(t) = {}
    BY <1>8 DEF cutVars, Swap, HeldBy
  <2>3. a \in Agents /\ old \in Workspaces
    <3>1. a \in Agents
      BY <2>1 DEF Types, TasksOK, Known, NeedAgent
    <3>2. made \in Nat /\ made <= MaxWorkspaces /\ old \in 0..made
      BY <2>1, <3>1, ConstantsAssumption DEF Types, PoolOK, MadeOK
    <3> QED
      BY <2>1, <3>1, <3>2, ConstantsAssumption DEF Workspaces, None
  <2>4. \A b \in Agents : agents'[b] = IF b = a THEN w ELSE agents[b]
    BY <2>1 DEF Types, PoolOK
  <2>5. Accounted(w)'
    BY <2>3, <2>4 DEF Accounted
  <2>6. Accounted(old)'
    <3>1. CASE drain' = [drain EXCEPT ![old] = "waiting"]
      BY <3>1, <2>3 DEF Accounted, Types, LifeOK
    <3>2. CASE Goes(t, At("retiring", a, old, {}))
      <4>1. HeldBy(t)' = {old}
        BY <3>2, GoesOnly DEF HeldBy, At
      <4> QED
        BY <4>1 DEF Accounted
    <3> QED
      BY <2>1, <3>1, <3>2
  <2>7. \A x : drain[x] # "no" /\ x \in Workspaces => Accounted(x)'
    BY <2>1 DEF Accounted, Types, LifeOK
  <2>8. \A x \in started' : x \in Workspaces
    <3>1. w \in 0..made /\ w # None /\ made \in Nat
      BY <2>1, ConstantsAssumption
         DEF Types, MadeOK, TasksOK, TaskRecord, Known, NeedWorkspace
    <3>2. started' \subseteq 1..made
      <4>1. w \in 1..made /\ started \subseteq 1..made
        BY <3>1 DEF None, Types, LifeOK
      <4>2. started' = started \cup {w}
        BY <2>1
      <4> QED
        BY <4>1, <4>2
    <3> QED
      BY <3>2, ConstantsAssumption DEF Types, MadeOK, Workspaces
  <2>9. \A x \in started', b \in Agents : agents[b] = x => Accounted(x)'
    BY <2>1, <2>4, <2>6 DEF Accounted
  <2>10. \A u \in Tasks \ {t} : HeldBy(u) \subseteq HeldBy(u)'
    BY <2>1, HeldByOthers
  <2> QED
    BY <2>1, <2>2, <2>5, <2>7, <2>8, <2>9, <2>10, OrphansStep
<1>9. ASSUME NEW t \in Tasks, Discard(t) PROVE NoOrphans'
  <2>1. PICK w, k : /\ w = task[t].ws /\ started' = started \cup {w}
                    /\ k = [task[t] EXCEPT !.at = "discarding"] /\ Goes(t, k)
    BY <1>9 DEF Discard
  <2>2. k.at = "discarding" /\ k.ws = w
    BY <2>1 DEF Types, TasksOK, TaskRecord
  <2>3. HeldBy(t)' = {w}
    BY <2>1, <2>2, GoesOnly DEF HeldBy
  <2>4. Accounted(w)'
    BY <2>3 DEF Accounted
  <2>5. UNCHANGED <<agents, drain, manager, torn>> /\ HeldBy(t) = {}
    BY <1>9 DEF cutVars, Discard, poolVars, HeldBy
  <2> QED
    BY <2>1, <2>4, <2>5, OrphansSame
<1>10. ASSUME NEW t \in Tasks, Discarded(t) \/ Retired(t) PROVE NoOrphans'
  <2>1. UNCHANGED <<agents, drain, manager, torn>> /\ Goes(t, Idle) /\ started' = started \ HeldBy(t)
    BY <1>10 DEF cutVars, Discarded, Retired, poolVars, HeldBy
  <2> QED
    BY <2>1, OrphansSame
<1>11. ASSUME NEW w \in Workspaces, DrainStops(w) PROVE NoOrphans'
  <2>1. /\ UNCHANGED <<agents, task, started, manager, torn>>
        /\ \A x : drain[x] # "no" => drain'[x] # "no"
    BY <1>11 DEF cutVars, DrainStops, poolVars, Types, LifeOK
  <2> QED
    BY <2>1 DEF NoOrphans, Accounted, HeldBy
<1>12. ASSUME NEW w \in Workspaces, DrainEnds(w) PROVE NoOrphans'
  <2>1. /\ UNCHANGED <<agents, task, manager, torn>> /\ started' = started \ {w}
        /\ \A x : x # w /\ drain[x] # "no" => drain'[x] # "no"
    BY <1>12 DEF cutVars, DrainEnds, poolVars, Types, LifeOK
  <2> QED
    BY <2>1 DEF NoOrphans, Accounted, HeldBy
<1>13. ASSUME (\E a \in Agents : Expire(a)) \/ UNCHANGED vars PROVE NoOrphans'
  BY <1>13 DEF cutVars, Expire, vars, NoOrphans, Accounted, HeldBy
<1>14. ASSUME StopAllBegins \/ StopAllCancelled \/ StopAllStopped PROVE NoOrphans'
  <2>1. manager'.phase # "up"
    BY <1>14 DEF StopAllBegins, StopAllCancelled, StopAllStopped, StopNext, Types, ManagerOK
  <2> QED
    BY <2>1 DEF NoOrphans
<1> QED
  BY <1>1, <1>2, <1>4, <1>5, <1>c, <1>6, <1>7, <1>8, <1>9, <1>10, <1>11, <1>12, <1>13,
     <1>14
     DEF Next, Begin, Get, Proceed, StartEnds, Ends
-----------------------------------------------------------------------------
(***************************************************************************)
(* Who uses the services made by workspace s: a call that starts or        *)
(* restarts a workspace, and an agent that has it loaded, unless the agent *)
(* was unloaded during the reload.  Services are spent when they have been *)
(* or are being stopped, or a workspace of such a reload has them.         *)
(***************************************************************************)
Uses(t, s) ==
  /\ task[t].at \in {"starting", "restarting"}
  /\ task[t].ws \notin crossed /\ services[task[t].ws] = s

Has(a, s) == agents[a] # None /\ agents[a] \notin crossed /\ services[agents[a]] = s

Stops(t, s) ==
  task[t].at \in {"evicting", "discarding"} /\ services[task[t].ws] = s

Spent(s) ==
  \/ s \in closed
  \/ \E w \in crossed : services[w] = s
  \/ \E t \in Tasks : Stops(t, s)

(* Two calls use the same services only for one agent, which is loaded;    *)
(* and nobody uses services of another agent, or spent ones.               *)
Shared(t, u) == task[t].agent = task[u].agent /\ agents[task[t].agent] # None

Lineage ==
  /\ \A t, u \in Tasks, s \in Workspaces : Uses(t, s) /\ Uses(u, s) /\ t # u => Shared(t, u)
  /\ \A t \in Tasks, a \in Agents, s \in Workspaces : Uses(t, s) /\ Has(a, s) => task[t].agent = a
  /\ \A a, b \in Agents, s \in Workspaces : Has(a, s) /\ Has(b, s) => a = b
  /\ \A t \in Tasks, s \in Workspaces : Uses(t, s) => ~Spent(s)
  /\ \A a \in Agents, s \in Workspaces : Has(a, s) => ~Spent(s)

Lineages == manager.phase = "up" => Lineage

LEMMA InitLineages == Init => Lineages
<1> SUFFICES ASSUME Init PROVE Lineage
  BY DEF Lineages
<1>1. /\ \A t \in Tasks, s \in Workspaces : ~Uses(t, s)
      /\ \A a \in Agents, s \in Workspaces : ~Has(a, s)
  BY DEF Init, Idle, Uses, Has
<1> QED
  BY <1>1 DEF Lineage

LEMMA LineagesImplyServicesOpen == Types /\ Lineages => ServicesOpen
<1> SUFFICES ASSUME Types, Lineages, manager.phase = "up", NEW a \in Agents,
                    agents[a] # None, agents[a] \notin crossed
             PROVE  services[agents[a]] \notin closed
  BY DEF ServicesOpen
<1>1. services[agents[a]] \in Workspaces
  <2>1. made \in Nat /\ agents[a] \in 1..made
    BY ConstantsAssumption DEF Types, PoolOK, MadeOK, None
  <2> QED
    BY <2>1, ConstantsAssumption DEF Types, MadeOK, Workspaces
<1>2. Has(a, services[agents[a]])
  BY DEF Has
<1> QED
  BY <1>1, <1>2 DEF Lineages, Lineage, Spent

(* Nothing new is used or spent, and the loaded agents stay loaded.        *)
LEMMA LineagesSame ==
  ASSUME Lineages, manager' = manager,
         \A t \in Tasks, s \in Workspaces : Uses(t, s)' => Uses(t, s) /\ task'[t] = task[t],
         \A a \in Agents, s \in Workspaces : Has(a, s)' => Has(a, s),
         \A s \in Workspaces : Spent(s)' => Spent(s),
         \A t, u \in Tasks : Shared(t, u) /\ task'[t] = task[t] /\ task'[u] = task[u] => Shared(t, u)'
  PROVE  Lineages'
<1> SUFFICES ASSUME manager.phase = "up" PROVE Lineage'
  BY DEF Lineages
<1>1. Lineage
  BY DEF Lineages
<1>2. ASSUME NEW t \in Tasks, NEW u \in Tasks, NEW s \in Workspaces, Uses(t, s)', Uses(u, s)', t # u
      PROVE  Shared(t, u)'
  BY <1>1, <1>2 DEF Lineage
<1>3. ASSUME NEW t \in Tasks, NEW a \in Agents, NEW s \in Workspaces, Uses(t, s)', Has(a, s)'
      PROVE  task'[t].agent = a
  BY <1>1, <1>3 DEF Lineage
<1>4. ASSUME NEW a \in Agents, NEW b \in Agents, NEW s \in Workspaces, Has(a, s)', Has(b, s)'
      PROVE  a = b
  BY <1>1, <1>4 DEF Lineage
<1>5. ASSUME NEW t \in Tasks, NEW s \in Workspaces, Uses(t, s)' PROVE ~Spent(s)'
  BY <1>1, <1>5 DEF Lineage
<1>6. ASSUME NEW a \in Agents, NEW s \in Workspaces, Has(a, s)' PROVE ~Spent(s)'
  BY <1>1, <1>6 DEF Lineage
<1> QED
  BY <1>2, <1>3, <1>4, <1>5, <1>6 DEF Lineage

(* Where a step of call t leaves the others, and which workspaces exist.   *)
LEMMA CallsStep ==
  ASSUME Types, NEW t \in Tasks, NEW k, Goes(t, k) \/ FinishGet(t, k)
  PROVE  /\ task'[t] = k
         /\ \A u \in Tasks \ {t} :
              \/ task'[u] = task[u]
              \/ task[u].at = "awaiting" /\ task'[u].at = "woken"
<1>1. CASE Goes(t, k)
  BY <1>1, GoesOnly
<1>2. CASE FinishGet(t, k)
  <2>1. \A u \in Tasks : [task[u] EXCEPT !.at = "woken"].at = "woken"
    BY DEF Types, TasksOK, TaskRecord
  <2> QED
    BY <1>2, <2>1 DEF FinishGet, Waiters
<1> QED
  BY <1>1, <1>2

LEMMA Existing ==
  ASSUME Types
  PROVE  /\ made \in Nat /\ 1..made \subseteq Workspaces
         /\ closed \subseteq 1..made /\ crossed \subseteq 1..made
         /\ \A w \in 1..made : services[w] \in 1..made
         /\ \A a \in Agents : agents[a] # None => agents[a] \in 1..made
         /\ \A u \in Tasks : task[u].at \in NeedWorkspace => task[u].ws \in 1..made
         /\ \A u \in Tasks : task[u].at \in NeedAgent => task[u].agent \in Agents
<1>1. made \in Nat /\ made <= MaxWorkspaces
  BY ConstantsAssumption DEF Types, MadeOK
<1>2. 1..made \subseteq Workspaces
  BY <1>1, ConstantsAssumption DEF Workspaces
<1>3. /\ closed \subseteq 1..made /\ crossed \subseteq 1..made
      /\ \A w \in 1..made : services[w] \in 1..made
  BY DEF Types, MadeOK, LifeOK
<1>4. \A a \in Agents : agents[a] # None => agents[a] \in 1..made
  BY <1>1 DEF Types, PoolOK, None
<1>5. \A u \in Tasks : task[u].at \in NeedWorkspace => task[u].ws \in 1..made
  BY <1>1 DEF Types, TasksOK, TaskRecord, Known, None
<1>6. \A u \in Tasks : task[u].at \in NeedAgent => task[u].agent \in Agents
  BY DEF Types, TasksOK, Known
<1> QED
  BY <1>1, <1>2, <1>3, <1>4, <1>5, <1>6

(* A call comes to a place where it neither uses services nor stops them.  *)
LEMMA LineagesQuiet ==
  ASSUME Types, Lineages, NEW t \in Tasks, NEW k, Goes(t, k) \/ FinishGet(t, k),
         k.at \notin {"starting", "restarting", "evicting", "discarding"},
         UNCHANGED <<agents, services, crossed, manager>>,
         \A s \in closed' : s \in closed \/ Stops(t, s)
  PROVE  Lineages'
<1>1. /\ task'[t] = k
      /\ \A u \in Tasks \ {t} :
           \/ task'[u] = task[u]
           \/ task[u].at = "awaiting" /\ task'[u].at = "woken"
  BY CallsStep
<1>2. \A u \in Tasks, s \in Workspaces : Uses(u, s)' => Uses(u, s) /\ task'[u] = task[u]
  BY <1>1 DEF Uses
<1>3. \A a \in Agents, s \in Workspaces : Has(a, s)' => Has(a, s)
  BY DEF Has
<1>4. \A u \in Tasks, s \in Workspaces : Stops(u, s)' => Stops(u, s)
  BY <1>1 DEF Stops
<1>5. \A s \in Workspaces : Spent(s)' => Spent(s)
  BY <1>4 DEF Spent
<1>6. \A u, v \in Tasks : Shared(u, v) /\ task'[u] = task[u] /\ task'[v] = task[v] => Shared(u, v)'
  BY DEF Shared
<1> QED
  BY <1>2, <1>3, <1>5, <1>6, LineagesSame

(* Agent a is unloaded by call t: what its workspace and its reloads used  *)
(* is spent, and nobody else uses that.                                    *)
LEMMA LineagesPop ==
  ASSUME Types, Starters, Lineages, NEW t \in Tasks, NEW k, Goes(t, k), NEW a \in Agents,
         k.at = "evicting", k.ws = agents[a], agents[a] # None, Pop(a),
         UNCHANGED <<services, manager>>, \A s \in closed' : s \in closed \/ Stops(t, s)
  PROVE  Lineages'
<1> SUFFICES ASSUME manager.phase = "up" PROVE Lineage'
  BY DEF Lineages
<1>0. Lineage
  BY DEF Lineages
<1>1. \A u \in Tasks : task'[u] = IF u = t THEN k ELSE task[u]
  BY GoesOnly
<1>2. \A b \in Agents : agents'[b] = IF b = a THEN None ELSE agents[b]
  BY DEF Pop, Types, PoolOK
<1>3. crossed' = crossed \cup Crossing(a)
  BY DEF Pop
<1>4. ASSUME NEW u \in Tasks, NEW s \in Workspaces, Uses(u, s)'
      PROVE  Uses(u, s) /\ task'[u] = task[u] /\ task[u].agent # a
  <2>1. task'[u] = task[u] /\ Uses(u, s) /\ task[u].ws \notin Crossing(a)
    BY <1>1, <1>3, <1>4 DEF Uses
  <2>2. CASE task[u].at = "starting"
    BY <2>1, <2>2, Existing DEF Starters, StartsUnloaded, Starts, HoldsCapacity, NeedAgent
  <2>3. CASE task[u].at = "restarting"
    BY <2>1, <2>3 DEF Crossing
  <2> QED
    BY <2>1, <2>2, <2>3 DEF Uses
<1>5. \A b \in Agents, s \in Workspaces : Has(b, s)' => Has(b, s) /\ b # a
  BY <1>2, <1>3 DEF Has
<1>6. ASSUME NEW s \in Workspaces, Spent(s)', ~Spent(s), ~Has(a, s)
      PROVE  \E v \in Tasks : task[v].agent = a /\ Uses(v, s)
  <2>1. CASE s \in closed'
    BY <1>6, <2>1 DEF Spent
  <2>2. ASSUME NEW w \in crossed', services'[w] = s
        PROVE  \E v \in Tasks : task[v].agent = a /\ Uses(v, s)
    <3>1. w \notin crossed /\ w \in Crossing(a)
      BY <1>3, <1>6, <2>2 DEF Spent
    <3> QED
      BY <2>2, <3>1 DEF Crossing, Uses
  <2>3. ASSUME NEW u \in Tasks, Stops(u, s)' PROVE FALSE
    <3>1. CASE u = t
      BY <1>1, <1>6, <2>3, <3>1 DEF Stops, Has, Spent
    <3>2. CASE u # t
      BY <1>1, <1>6, <2>3, <3>2 DEF Stops, Spent
    <3> QED
      BY <3>1, <3>2
  <2> QED
    BY <1>6, <2>1, <2>2, <2>3 DEF Spent
<1>7. ASSUME NEW u \in Tasks, NEW v \in Tasks, NEW s \in Workspaces, Uses(u, s)', Uses(v, s)', u # v
      PROVE  Shared(u, v)'
  <2>1. Shared(u, v) /\ task'[u] = task[u] /\ task'[v] = task[v] /\ task[u].agent # a
    BY <1>0, <1>4, <1>7 DEF Lineage
  <2>2. task[u].agent \in Agents
    BY <1>4, <1>7, Existing DEF Uses, NeedAgent
  <2> QED
    BY <1>2, <2>1, <2>2 DEF Shared
<1>8. ASSUME NEW u \in Tasks, NEW b \in Agents, NEW s \in Workspaces, Uses(u, s)', Has(b, s)'
      PROVE  task'[u].agent = b
  BY <1>0, <1>4, <1>5, <1>8 DEF Lineage
<1>9. ASSUME NEW b \in Agents, NEW c \in Agents, NEW s \in Workspaces, Has(b, s)', Has(c, s)'
      PROVE  b = c
  BY <1>0, <1>5, <1>9 DEF Lineage
<1>10. ASSUME NEW u \in Tasks, NEW s \in Workspaces, Uses(u, s)' PROVE ~Spent(s)'
  <2>1. Uses(u, s) /\ task[u].agent # a
    BY <1>4, <1>10
  <2>2. ~Spent(s) /\ ~Has(a, s)
    BY <1>0, <2>1 DEF Lineage
  <2>3. \A v \in Tasks : Uses(v, s) => task[v].agent # a
    BY <1>0, <2>1 DEF Lineage, Shared
  <2> QED
    BY <1>6, <2>2, <2>3
<1>11. ASSUME NEW b \in Agents, NEW s \in Workspaces, Has(b, s)' PROVE ~Spent(s)'
  <2>1. Has(b, s) /\ b # a
    BY <1>5, <1>11
  <2>2. ~Spent(s) /\ ~Has(a, s)
    BY <1>0, <2>1 DEF Lineage
  <2>3. \A v \in Tasks : Uses(v, s) => task[v].agent # a
    BY <1>0, <2>1 DEF Lineage
  <2> QED
    BY <1>6, <2>2, <2>3
<1> QED
  BY <1>7, <1>8, <1>9, <1>10, <1>11 DEF Lineage

(* A call makes a workspace with services of its own, or with those of the *)
(* workspace loaded for the agent it reloads.                              *)
LEMMA LineagesFresh ==
  ASSUME Types, Lineages, NEW t \in Tasks, NEW k, Goes(t, k), Create(made + 1),
         k.at \in {"starting", "restarting"}, k.ws = made + 1,
         UNCHANGED <<agents, crossed, manager>>,
         \A s \in closed' : s \in closed \/ Stops(t, s)
  PROVE  Lineages'
<1> SUFFICES ASSUME manager.phase = "up" PROVE Lineage'
  BY DEF Lineages
<1>0. Lineage
  BY DEF Lineages
<1>1. \A u \in Tasks : task'[u] = IF u = t THEN k ELSE task[u]
  BY GoesOnly
<1>2. /\ made \in Nat /\ made + 1 \in Workspaces
      /\ services'[made + 1] = made + 1 /\ \A w \in 1..made : services'[w] = services[w]
  BY Existing, ConstantsAssumption DEF Create, Workspaces, Types, MadeOK
<1>3. \A s \in 1..made : s # made + 1
  BY <1>2
<1>4. ASSUME NEW u \in Tasks \ {t}, NEW s \in Workspaces, Uses(u, s)'
      PROVE  Uses(u, s) /\ task'[u] = task[u] /\ s # made + 1
  <2>1. task[u].ws \in 1..made
    BY <1>1, <1>4, Existing DEF Uses, NeedWorkspace
  <2> QED
    BY <1>1, <1>2, <1>3, <1>4, <2>1, Existing DEF Uses
<1>5. \A s \in Workspaces : Uses(t, s)' => s = made + 1
  BY <1>1, <1>2 DEF Uses
<1>6. \A b \in Agents, s \in Workspaces : Has(b, s)' => Has(b, s) /\ s # made + 1
  BY <1>2, <1>3, Existing DEF Has
<1>7. ASSUME NEW s \in Workspaces, Spent(s)' PROVE Spent(s) /\ s # made + 1
  <2>1. \A v \in Tasks, r \in Workspaces : Stops(v, r) => r # made + 1
    BY <1>3, Existing DEF Stops, NeedWorkspace
  <2>2. CASE s \in closed'
    BY <1>3, <2>1, <2>2, Existing DEF Spent
  <2>3. ASSUME NEW w \in crossed', services'[w] = s PROVE Spent(s) /\ s # made + 1
    BY <1>2, <1>3, <2>3, Existing DEF Spent
  <2>4. ASSUME NEW v \in Tasks, Stops(v, s)' PROVE Spent(s) /\ s # made + 1
    <3>1. task'[v] = task[v] /\ task[v].ws \in 1..made
      BY <1>1, <2>4, Existing DEF Stops, NeedWorkspace
    <3>2. Stops(v, s)
      BY <1>2, <2>4, <3>1 DEF Stops
    <3> QED
      BY <2>1, <3>2 DEF Spent
  <2> QED
    BY <1>7, <2>2, <2>3, <2>4 DEF Spent
<1>8. ASSUME NEW u \in Tasks, NEW v \in Tasks, NEW s \in Workspaces, Uses(u, s)', Uses(v, s)', u # v
      PROVE  Shared(u, v)'
  <2>1. u # t /\ v # t
    BY <1>4, <1>5, <1>8
  <2> QED
    BY <1>0, <1>4, <1>8, <2>1 DEF Lineage, Shared
<1>9. ASSUME NEW u \in Tasks, NEW b \in Agents, NEW s \in Workspaces, Uses(u, s)', Has(b, s)'
      PROVE  task'[u].agent = b
  BY <1>0, <1>4, <1>5, <1>6, <1>9 DEF Lineage
<1>10. ASSUME NEW b \in Agents, NEW c \in Agents, NEW s \in Workspaces, Has(b, s)', Has(c, s)'
       PROVE  b = c
  BY <1>0, <1>6, <1>10 DEF Lineage
<1>11. ASSUME NEW u \in Tasks, NEW s \in Workspaces, Uses(u, s)' PROVE ~Spent(s)'
  BY <1>0, <1>4, <1>5, <1>7, <1>11 DEF Lineage
<1>12. ASSUME NEW b \in Agents, NEW s \in Workspaces, Has(b, s)' PROVE ~Spent(s)'
  BY <1>0, <1>6, <1>7, <1>12 DEF Lineage
<1> QED
  BY <1>8, <1>9, <1>10, <1>11, <1>12 DEF Lineage

LEMMA LineagesTaken ==
  ASSUME Types, Lineages, NEW t \in Tasks, NEW k, Goes(t, k), NEW a \in Agents,
         agents[a] # None, Create(services[agents[a]]),
         k.at = "restarting", k.agent = a, k.ws = made + 1,
         crossed' = IF agents[a] \in crossed THEN crossed \cup {made + 1} ELSE crossed,
         UNCHANGED <<agents, closed, manager>>
  PROVE  Lineages'
<1> SUFFICES ASSUME manager.phase = "up" PROVE Lineage'
  BY DEF Lineages
<1>0. Lineage
  BY DEF Lineages
<1>1. \A u \in Tasks : task'[u] = IF u = t THEN k ELSE task[u]
  BY GoesOnly
<1>2. /\ made \in Nat /\ made + 1 \in Workspaces /\ agents[a] \in 1..made
      /\ services'[made + 1] = services[agents[a]]
      /\ \A w \in 1..made : services'[w] = services[w] /\ w # made + 1
  <2>1. made \in Nat /\ agents[a] \in 1..made /\ 1..made \subseteq Workspaces
    BY Existing
  <2>2. made + 1 \in Workspaces
    BY <2>1, ConstantsAssumption DEF Create, Workspaces
  <2>3. \A w \in 1..made : w # made + 1
    BY <2>1
  <2>4. services' = [services EXCEPT ![made + 1] = services[agents[a]]]
    BY DEF Create
  <2>5. services \in [Workspaces -> Workspaces]
    BY DEF Types, MadeOK
  <2> QED
    BY <2>1, <2>2, <2>3, <2>4, <2>5
<1>4. ASSUME NEW u \in Tasks \ {t}, NEW s \in Workspaces, Uses(u, s)'
      PROVE  Uses(u, s) /\ task'[u] = task[u]
  <2>1. task[u].ws \in 1..made /\ task'[u] = task[u]
    BY <1>1, <1>4, Existing DEF Uses, NeedWorkspace
  <2> QED
    BY <1>2, <1>4, <2>1 DEF Uses
<1>5. \A s \in Workspaces : Uses(t, s)' => Has(a, s)
  BY <1>1, <1>2 DEF Uses, Has
<1>6. \A b \in Agents, s \in Workspaces : Has(b, s)' => Has(b, s)
  BY <1>2, Existing DEF Has
<1>7. ASSUME NEW s \in Workspaces, Spent(s)' PROVE Spent(s)
  <2>1. ASSUME NEW w \in crossed', services'[w] = s PROVE Spent(s)
    <3>1. CASE w \in crossed
      BY <1>2, <2>1, <3>1, Existing DEF Spent
    <3>2. CASE w \notin crossed
      BY <1>2, <2>1, <3>2 DEF Spent
    <3> QED
      BY <3>1, <3>2
  <2>2. ASSUME NEW v \in Tasks, Stops(v, s)' PROVE Spent(s)
    <3>1. task'[v] = task[v] /\ task[v].ws \in 1..made
      BY <1>1, <2>2, Existing DEF Stops, NeedWorkspace
    <3>2. Stops(v, s)
      BY <1>2, <2>2, <3>1 DEF Stops
    <3> QED
      BY <3>2 DEF Spent
  <2> QED
    BY <1>7, <2>1, <2>2 DEF Spent
<1>8. ASSUME NEW u \in Tasks, NEW v \in Tasks, NEW s \in Workspaces, Uses(u, s)', Uses(v, s)', u # v
      PROVE  Shared(u, v)'
  <2>1. CASE u # t /\ v # t
    BY <1>0, <1>4, <1>8, <2>1 DEF Lineage, Shared
  <2>2. CASE u = t
    <3>1. Uses(v, s) /\ Has(a, s) /\ task'[v] = task[v]
      BY <1>4, <1>5, <1>8, <2>2
    <3> QED
      BY <1>0, <1>1, <2>2, <3>1 DEF Lineage, Shared
  <2>3. CASE v = t
    <3>1. Uses(u, s) /\ Has(a, s) /\ task'[u] = task[u]
      BY <1>4, <1>5, <1>8, <2>3
    <3> QED
      BY <1>0, <1>1, <2>3, <3>1 DEF Lineage, Shared
  <2> QED
    BY <2>1, <2>2, <2>3
<1>9. ASSUME NEW u \in Tasks, NEW b \in Agents, NEW s \in Workspaces, Uses(u, s)', Has(b, s)'
      PROVE  task'[u].agent = b
  BY <1>0, <1>1, <1>4, <1>5, <1>6, <1>9 DEF Lineage
<1>10. ASSUME NEW b \in Agents, NEW c \in Agents, NEW s \in Workspaces, Has(b, s)', Has(c, s)'
       PROVE  b = c
  BY <1>0, <1>6, <1>10 DEF Lineage
<1>11. ASSUME NEW u \in Tasks, NEW s \in Workspaces, Uses(u, s)' PROVE ~Spent(s)'
  BY <1>0, <1>4, <1>5, <1>7, <1>11 DEF Lineage
<1>12. ASSUME NEW b \in Agents, NEW s \in Workspaces, Has(b, s)' PROVE ~Spent(s)'
  BY <1>0, <1>6, <1>7, <1>12 DEF Lineage
<1> QED
  BY <1>8, <1>9, <1>10, <1>11, <1>12 DEF Lineage

(* The workspace that a call made is loaded: its agent uses its services   *)
(* now, and the call no longer does.                                       *)
LEMMA LineagesLoads ==
  ASSUME Types, Lineages, NEW t \in Tasks, NEW k, Goes(t, k) \/ FinishGet(t, k),
         task[t].at \in {"starting", "restarting"},
         k.at \notin {"starting", "restarting", "evicting", "discarding"},
         NEW a \in Agents, a = task[t].agent, agents' = [agents EXCEPT ![a] = task[t].ws],
         UNCHANGED <<services, crossed, closed, manager>>
  PROVE  Lineages'
<1> SUFFICES ASSUME manager.phase = "up" PROVE Lineage'
  BY DEF Lineages
<1>0. Lineage
  BY DEF Lineages
<1>1. /\ task'[t] = k
      /\ \A u \in Tasks \ {t} :
           \/ task'[u] = task[u]
           \/ task[u].at = "awaiting" /\ task'[u].at = "woken"
  BY CallsStep
<1>2. task[t].ws # None
  BY Existing DEF NeedWorkspace, None
<1>3. \A b \in Agents : agents'[b] = IF b = a THEN task[t].ws ELSE agents[b]
  BY DEF Types, PoolOK
<1>4. \A u \in Tasks, s \in Workspaces :
        Uses(u, s)' => Uses(u, s) /\ u # t /\ task'[u] = task[u]
  BY <1>1 DEF Uses
<1>5. \A b \in Agents, s \in Workspaces :
        Has(b, s)' => IF b = a THEN Uses(t, s) ELSE Has(b, s)
  BY <1>3 DEF Has, Uses
<1>6. \A u \in Tasks, s \in Workspaces : Stops(u, s)' => Stops(u, s)
  BY <1>1 DEF Stops
<1>7. \A s \in Workspaces : Spent(s)' => Spent(s)
  BY <1>6 DEF Spent
<1>8. ASSUME NEW u \in Tasks, NEW v \in Tasks, NEW s \in Workspaces, Uses(u, s)', Uses(v, s)', u # v
      PROVE  Shared(u, v)'
  <2>1. Shared(u, v) /\ task'[u] = task[u] /\ task'[v] = task[v]
    BY <1>0, <1>4, <1>8 DEF Lineage
  <2>2. task[u].agent \in Agents
    BY <1>4, <1>8, Existing DEF Uses, NeedAgent
  <2> QED
    BY <1>2, <1>3, <2>1, <2>2 DEF Shared
<1>9. ASSUME NEW u \in Tasks, NEW b \in Agents, NEW s \in Workspaces, Uses(u, s)', Has(b, s)'
      PROVE  task'[u].agent = b
  <2>1. CASE b = a
    <3>1. Uses(u, s) /\ Uses(t, s) /\ u # t /\ task'[u] = task[u]
      BY <1>4, <1>5, <1>9, <2>1
    <3> QED
      BY <1>0, <2>1, <3>1 DEF Lineage, Shared
  <2>2. CASE b # a
    BY <1>0, <1>4, <1>5, <1>9, <2>2 DEF Lineage
  <2> QED
    BY <2>1, <2>2
<1>10. ASSUME NEW b \in Agents, NEW c \in Agents, NEW s \in Workspaces, Has(b, s)', Has(c, s)'
       PROVE  b = c
  <2>1. \A d \in Agents : Has(d, s) /\ Uses(t, s) => d = a
    BY <1>0 DEF Lineage
  <2> QED
    BY <1>0, <1>5, <1>10, <2>1 DEF Lineage
<1>11. ASSUME NEW u \in Tasks, NEW s \in Workspaces, Uses(u, s)' PROVE ~Spent(s)'
  BY <1>0, <1>4, <1>7, <1>11 DEF Lineage
<1>12. ASSUME NEW b \in Agents, NEW s \in Workspaces, Has(b, s)' PROVE ~Spent(s)'
  BY <1>0, <1>5, <1>7, <1>12 DEF Lineage
<1> QED
  BY <1>8, <1>9, <1>10, <1>11, <1>12 DEF Lineage

(* The workspace that a reload made is stopped, as the agent is unloaded:  *)
(* nobody else uses its services.                                          *)
LEMMA LineagesDiscard ==
  ASSUME Types, Lineages, NEW t \in Tasks, NEW k, Goes(t, k),
         task[t].at = "restarting", k.at = "discarding", k.ws = task[t].ws,
         agents[task[t].agent] = None,
         UNCHANGED <<agents, services, crossed, closed, manager>>
  PROVE  Lineages'
<1> SUFFICES ASSUME manager.phase = "up" PROVE Lineage'
  BY DEF Lineages
<1>0. Lineage
  BY DEF Lineages
<1>1. \A u \in Tasks : task'[u] = IF u = t THEN k ELSE task[u]
  BY GoesOnly
<1>2. \A u \in Tasks, s \in Workspaces :
        Uses(u, s)' => Uses(u, s) /\ u # t /\ task'[u] = task[u]
  BY <1>1 DEF Uses
<1>3. \A b \in Agents, s \in Workspaces : Has(b, s)' => Has(b, s)
  BY DEF Has
<1>4. ASSUME NEW s \in Workspaces, Spent(s)' PROVE Spent(s) \/ Uses(t, s)
  <2>1. CASE \E v \in Tasks : Stops(v, s)'
    BY <1>1, <2>1 DEF Stops, Spent, Uses
  <2>2. CASE s \in closed' \/ \E w \in crossed' : services'[w] = s
    BY <2>2 DEF Spent
  <2> QED
    BY <1>4, <2>1, <2>2 DEF Spent
<1>5. \A u, v \in Tasks, s \in Workspaces :
        Uses(u, s)' /\ Uses(v, s)' /\ u # v => Shared(u, v)'
  BY <1>0, <1>2 DEF Lineage, Shared
<1>6. \A u \in Tasks, b \in Agents, s \in Workspaces : Uses(u, s)' /\ Has(b, s)' => task'[u].agent = b
  BY <1>0, <1>2, <1>3 DEF Lineage
<1>7. \A b, c \in Agents, s \in Workspaces : Has(b, s)' /\ Has(c, s)' => b = c
  BY <1>0, <1>3 DEF Lineage
<1>8. ASSUME NEW u \in Tasks, NEW s \in Workspaces, Uses(u, s)' PROVE ~Spent(s)'
  <2>1. ~Spent(s) /\ (Uses(t, s) => Shared(t, u))
    BY <1>0, <1>2, <1>8 DEF Lineage
  <2> QED
    BY <1>4, <2>1 DEF Shared
<1>9. ASSUME NEW b \in Agents, NEW s \in Workspaces, Has(b, s)' PROVE ~Spent(s)'
  <2>1. ~Spent(s) /\ agents[b] # None /\ (Uses(t, s) => task[t].agent = b)
    BY <1>0, <1>3, <1>9 DEF Lineage, Has
  <2> QED
    BY <1>4, <2>1
<1> QED
  BY <1>5, <1>6, <1>7, <1>8, <1>9 DEF Lineage

LEMMA SweepLineages ==
  ASSUME Types, Starters, Lineages, NEW t \in Tasks, NEW S, S \subseteq Pairs(made), Sweep(t, S),
         UNCHANGED manager, \A s \in closed' : s \in closed \/ Stops(t, s)
  PROVE  Lineages'
<1>1. ASSUME NEW a \in Loaded, NEW rest \in SUBSET Pairs(made), Evicts(t, a, rest)
      PROVE  Lineages'
  <2>1. PICK k : Goes(t, k) /\ k.at = "evicting" /\ k.ws = agents[a]
    BY <1>1 DEF Evicts, At
  <2>2. a \in Agents /\ agents[a] # None /\ Pop(a) /\ UNCHANGED services
    BY <1>1 DEF Evicts, Loaded
  <2> QED
    BY <2>1, <2>2, LineagesPop
<1>2. ASSUME Starting(t) PROVE Lineages'
  <2>1. PICK k : Goes(t, k) /\ k.at = "starting" /\ k.ws = made + 1
    BY <1>2 DEF Starting, At
  <2>2. Create(made + 1) /\ UNCHANGED <<agents, crossed>>
    BY <1>2 DEF Starting, poolVars
  <2> QED
    BY <2>1, <2>2, LineagesFresh
<1>3. ASSUME GivesUp(t) \/ Over(t) PROVE Lineages'
  <2>1. (Goes(t, Idle) \/ FinishGet(t, Idle)) /\ UNCHANGED <<agents, services, crossed>>
    BY <1>3 DEF GivesUp, Over, poolVars, workspaceVars
  <2>2. Idle.at = "idle"
    BY DEF Idle
  <2> QED
    BY <2>1, <2>2, LineagesQuiet
<1> QED
  BY <1>1, <1>2, <1>3, SweepCases

LEMMA NextLineages == Types /\ Starters /\ Lineages /\ [Next]_vars => Lineages'
<1> SUFFICES ASSUME Types, Starters, Lineages, [Next]_vars PROVE Lineages'
  OBVIOUS
<1>1. ASSUME NEW t \in Tasks, CleanupIdle(t) \/ AcquireCapacity(t) PROVE Lineages'
  <2>1. UNCHANGED <<closed, manager>>
    BY <1>1 DEF CleanupIdle, AcquireCapacity
  <2> QED
    BY <1>1, <2>1, PairsOK, SweepLineages DEF CleanupIdle, AcquireCapacity
<1>2. ASSUME NEW t \in Tasks, Evicted(t) PROVE Lineages'
  <2>1. UNCHANGED manager /\ \A s \in closed' : s \in closed \/ Stops(t, s)
    BY <1>2 DEF Evicted, Stops
  <2> QED
    BY <1>2, <2>1, PairsOK, SweepLineages DEF Evicted
<1>3. ASSUME NEW t \in Tasks, NEW k, Goes(t, k) \/ FinishGet(t, k),
             k.at \notin {"starting", "restarting", "evicting", "discarding"},
             UNCHANGED <<agents, services, crossed, closed, manager>>
      PROVE  Lineages'
  BY <1>3, LineagesQuiet
<1>4. ASSUME NEW t \in Tasks, NEW a \in Agents,
             GetLoaded(t, a) \/ GetPending(t, a) \/ GetFirst(t, a) \/ ReloadBegins(t, a)
      PROVE  Lineages'
  <2>1. UNCHANGED <<agents, services, crossed, closed, manager>>
    BY <1>4 DEF GetLoaded, GetPending, GetFirst, ReloadBegins, poolVars, workspaceVars
  <2>2. \E k : Goes(t, k) /\ k.at \notin {"starting", "restarting", "evicting", "discarding"}
    BY <1>4 DEF GetLoaded, GetPending, GetFirst, ReloadBegins, At
  <2> QED
    BY <2>1, <2>2, <1>3
<1>5. ASSUME NEW t \in Tasks,
             Woken(t) \/ ReloadFails(t) \/ Leave(t) \/ RunStarts(t)
      PROVE  Lineages'
  <2>1. UNCHANGED <<agents, services, crossed, closed, manager>>
    BY <1>5 DEF Woken, ReloadFails, Leave, RunStarts, poolVars, workspaceVars
  <2>2. Idle.at = "idle" /\ [task[t] EXCEPT !.at = "running"].at = "running"
    BY DEF Idle, Types, TasksOK, TaskRecord
  <2>3. \E k : /\ Goes(t, k) \/ FinishGet(t, k)
               /\ k.at \notin {"starting", "restarting", "evicting", "discarding"}
    <3>1. CASE Woken(t)
      <4>1. Goes(t, Idle) \/ \E a, w : Goes(t, At("using", a, w, {}))
        BY <3>1 DEF Woken
      <4>2. \A a, w : At("using", a, w, {}).at = "using"
        BY DEF At
      <4> QED
        BY <2>2, <4>1, <4>2
    <3>2. CASE RunStarts(t)
      BY <2>2, <3>2 DEF RunStarts
    <3>3. CASE ReloadFails(t) \/ Leave(t)
      BY <2>2, <3>3 DEF ReloadFails, Leave
    <3> QED
      BY <1>5, <3>1, <3>2, <3>3
  <2> QED
    BY <2>1, <2>3, <1>3
<1>c. ASSUME NEW t \in Tasks, Ends(t) PROVE Lineages'
  <2>1. /\ UNCHANGED <<agents, services, crossed, manager>>
        /\ \E k : (Goes(t, k) \/ FinishGet(t, k)) /\ k.at \in {"idle", "finishing"}
    BY <1>c, EndsCases
  <2>2. \A s \in closed' : s \in closed \/ Stops(t, s)
    BY <1>c DEF Ends, Cancelled, StartFails, Finish, CancelsWait, CancelsFinish, CancelsEntry,
       CancelsStop, CancelsSweep, Stops
  <2> QED
    BY <2>1, <2>2, LineagesQuiet
<1>6. ASSUME NEW t \in Tasks, StartSucceeds(t) \/ Swap(t) PROVE Lineages'
  <2>1. PICK a : /\ a = task[t].agent /\ task[t].at \in {"starting", "restarting"}
                 /\ agents' = [agents EXCEPT ![a] = task[t].ws]
    BY <1>6 DEF StartSucceeds, Swap
  <2>2. a \in Agents
    BY <2>1, Existing DEF NeedAgent
  <2>3. UNCHANGED <<services, crossed, closed, manager>>
    BY <1>6 DEF StartSucceeds, Swap, workspaceVars
  <2>4. \E k : /\ Goes(t, k) \/ FinishGet(t, k)
               /\ k.at \notin {"starting", "restarting", "evicting", "discarding"}
    BY <1>6 DEF StartSucceeds, Swap, At, Idle
  <2> QED
    BY <2>1, <2>2, <2>3, <2>4, LineagesLoads
<1>7. ASSUME NEW t \in Tasks, NEW a \in Agents, Unload(t, a) PROVE Lineages'
  <2>1. PICK k : Goes(t, k) /\ k.at = "evicting" /\ k.ws = agents[a]
    BY <1>7 DEF Unload, At
  <2>2. agents[a] # None /\ Pop(a) /\ UNCHANGED <<services, closed, manager>>
    BY <1>7 DEF Unload
  <2> QED
    BY <2>1, <2>2, LineagesPop
<1>8. ASSUME NEW t \in Tasks, ReloadCreates(t) PROVE Lineages'
  <2>1. PICK a : /\ a = task[t].agent /\ task[t].at = "reloading"
                 /\ Create(IF agents[a] = None THEN made + 1 ELSE services[agents[a]])
                 /\ crossed' = IF agents[a] \in crossed THEN crossed \cup {made + 1} ELSE crossed
                 /\ Goes(t, At("restarting", a, made + 1, {}))
    BY <1>8 DEF ReloadCreates
  <2>2. a \in Agents
    BY <2>1, Existing DEF NeedAgent
  <2>3. UNCHANGED <<agents, closed, manager>>
    BY <1>8 DEF ReloadCreates, poolVars
  <2>4. PICK k : Goes(t, k) /\ k.at = "restarting" /\ k.agent = a /\ k.ws = made + 1
    BY <2>1 DEF At
  <2>5. CASE agents[a] = None
    <3>1. agents[a] \notin crossed
      BY <2>5, Existing DEF None
    <3> QED
      BY <2>1, <2>3, <2>4, <2>5, <3>1, LineagesFresh
  <2>6. CASE agents[a] # None
    BY <2>1, <2>2, <2>3, <2>4, <2>6, LineagesTaken
  <2> QED
    BY <2>5, <2>6
<1>9. ASSUME NEW t \in Tasks, Discard(t) PROVE Lineages'
  <2>1. PICK k : k = [task[t] EXCEPT !.at = "discarding"] /\ Goes(t, k)
    BY <1>9 DEF Discard
  <2>2. k.at = "discarding" /\ k.ws = task[t].ws
    BY <2>1 DEF Types, TasksOK, TaskRecord
  <2>3. /\ task[t].at = "restarting" /\ agents[task[t].agent] = None
        /\ UNCHANGED <<agents, services, crossed, closed, manager>>
    BY <1>9 DEF Discard, poolVars, workspaceVars
  <2> QED
    BY <2>1, <2>2, <2>3, LineagesDiscard
<1>10. ASSUME NEW t \in Tasks, Discarded(t) \/ Retired(t) PROVE Lineages'
  <2>1. Goes(t, Idle) /\ UNCHANGED <<agents, services, crossed, manager>> /\ Idle.at = "idle"
    BY <1>10 DEF Discarded, Retired, poolVars, workspaceVars, Idle
  <2>2. \A s \in closed' : s \in closed \/ Stops(t, s)
    BY <1>10 DEF Discarded, Retired, ClosedBy, Stops
  <2> QED
    BY <2>1, <2>2, LineagesQuiet
<1>11. ASSUME \/ \E w \in Workspaces : DrainStops(w) \/ DrainEnds(w)
              \/ \E a \in Agents : Expire(a)
              \/ UNCHANGED vars
       PROVE  Lineages'
  <2>1. UNCHANGED <<agents, task, services, crossed, closed, manager>>
    BY <1>11 DEF DrainStops, DrainEnds, Expire, vars, poolVars, workspaceVars, ClosedBy
  <2> QED
    BY <2>1 DEF Lineages, Lineage, Uses, Has, Spent, Stops, Shared
<1>12. ASSUME StopAllBegins \/ StopAllCancelled \/ StopAllStopped PROVE Lineages'
  <2>1. manager'.phase # "up"
    BY <1>12 DEF StopAllBegins, StopAllCancelled, StopAllStopped, StopNext, Types, ManagerOK
  <2> QED
    BY <2>1 DEF Lineages
<1> QED
  BY <1>1, <1>2, <1>4, <1>5, <1>c, <1>6, <1>7, <1>8, <1>9, <1>10, <1>11, <1>12
     DEF Next, Begin, Get, Proceed, StartEnds, Ends
-----------------------------------------------------------------------------
LEMMA InitOrphans == Init => NoOrphans /\ CutOK
BY DEF Init, NoOrphans, CutOK

IInv == Types /\ CutOK /\ Starters /\ Room /\ NoOrphans /\ Lineages

(* The inductive invariant.                                                *)
THEOREM Invariance == Spec => []IInv
<1>1. Init => IInv
  BY InitTypes, InitStarters, InitRoom, InitOrphans, InitLineages DEF IInv
<1>2. IInv /\ [Next]_vars => IInv'
  BY NextTypes, NextCut, NextStarters, NextRoom, NextOrphans, NextLineages DEF IInv
<1> QED
  BY <1>1, <1>2, PTL DEF Spec

(* Type correctness of the pool.                                           *)
THEOREM TypeCorrect == Spec => []TypeOK
<1>1. IInv => TypeOK
  BY TypesImplyTypeOK DEF IInv
<1> QED
  BY <1>1, Invariance, PTL

(* However starts, reloads and unloadings overlap, no more agents than     *)
(* max_active_agents are loaded.                                           *)
THEOREM LimitHolds == Spec => []PoolBounded
<1>1. IInv => PoolBounded
  BY DEF IInv, Room
<1> QED
  BY <1>1, Invariance, PTL

(* An agent is pending exactly while one call starts it, and nobody waits  *)
(* for a start that no call is making: a failed or a finished start        *)
(* strands no waiter and never blocks the next one, unless its caller is   *)
(* cancelled in its finally block.                                         *)
THEOREM OneStarterPerAgent == Spec => []OneStarter
<1>1. IInv => OneStarter
  BY DEF IInv, Starters, OneStarter
<1> QED
  BY <1>1, Invariance, PTL

(* A started workspace is loaded, or somebody is about to stop it, until   *)
(* the manager shuts down: all but those that a call left behind when it   *)
(* was cancelled while it stopped them, or before it had registered them.  *)
THEOREM NoWorkspaceIsOrphaned == Spec => []NoOrphans
<1>1. IInv => NoOrphans
  BY DEF IInv
<1> QED
  BY <1>1, Invariance, PTL

(* The services that a loaded workspace took over in reloads are running,  *)
(* unless the agent was unloaded during one.                               *)
THEOREM LoadedServicesAreOpen == Spec => []ServicesOpen
<1>1. IInv => ServicesOpen
  BY LineagesImplyServicesOpen DEF IInv
<1> QED
  BY <1>1, Invariance, PTL
=============================================================================
