---------------------- MODULE CapabilityApprovalProofs ----------------------
(***************************************************************************)
(* Proofs about CapabilityApproval, for every set of users, capabilities,  *)
(* requests and concurrent jobs and every approval policy.                 *)
(***************************************************************************)
EXTENDS CapabilityApproval, TLAPS

(* A job of a user concerns a plugin.  If it applies a request, that is    *)
(* stored, the user may decide it, and once the plugin's hooks run, the    *)
(* change has been made.                                                   *)
JobKnown(t) ==
  LET id == job[t].id IN
  /\ job[t].at # "idle" => job[t].cap \in Plugins /\ job[t].user \in Users
  /\ id # NoRequest =>
       /\ id \in Ids
       /\ requests[id].status # "none"
       /\ job[t].at = "setup" => id \in effects
       /\ job[t].user \in Users
       /\ Enabled /\ ~SelfApproval => job[t].user # requests[id].requester

JobsKnown == \A t \in Tasks : JobKnown(t)

(* A job that awaits the plugin's register has found its files, and has    *)
(* them still, unless their removal crossed it.                            *)
RegistersFiles ==
  \A t \in Tasks : job[t].at = "registering" => job[t].cap \in files \cup crossed

FilesKnown == LoadedHasFiles /\ RegistersFiles

IInv == TypeOK /\ MadeIsSettled /\ AppliedWasMade /\ TwoPeople /\ FilesKnown
          /\ JobsKnown

Decisions == {"pending", "applied", "failed", "rejected"}
-----------------------------------------------------------------------------
(* What the two writes to the store do.                                    *)

LEMMA CreateStores ==
  ASSUME TypeOK, NEW id \in Ids, NEW status \in Decisions, NEW op \in Ops,
         NEW c \in Capabilities, NEW u \in Users, NEW by \in Users \cup {Nobody, AutoApprover},
         Create(id, status, op, c, u, by)
  PROVE  /\ requests[id].status = "none"
         /\ requests' \in [Ids -> Request]
         /\ \A i \in Ids : i # id => requests'[i] = requests[i]
         /\ requests'[id].status = status
         /\ requests'[id].requester = u
         /\ requests'[id].approver = by
<1> DEFINE new == [status |-> status, op |-> op, cap |-> c, requester |-> u, approver |-> by]
<1>1. requests[id].status = "none" /\ requests' = [requests EXCEPT ![id] = new]
  BY DEF Create
<1>2. /\ new.status = status /\ new.requester = u /\ new.approver = by
  OBVIOUS
<1>3. new \in Request
  BY DEF Request, Decisions
<1> HIDE DEF new
<1> QED
  BY <1>1, <1>2, <1>3 DEF TypeOK

LEMMA UpdateStores ==
  ASSUME TypeOK, NEW id \in Ids, NEW status \in Decisions, NEW u \in Users,
         Update(id, status, u)
  PROVE  /\ requests' \in [Ids -> Request]
         /\ \A i \in Ids : i # id => requests'[i] = requests[i]
         /\ requests'[id].status = status
         /\ requests'[id].requester = requests[id].requester
         /\ requests'[id].approver = u
<1>1. requests[id] \in Request
  BY DEF TypeOK
<1> DEFINE new == [requests[id] EXCEPT !.status = status, !.approver = u]
<1>2. requests' = [requests EXCEPT ![id] = new]
  BY <1>1 DEF Update, TypeOK, Request
<1>3. /\ new \in Request /\ new.status = status /\ new.approver = u
      /\ new.requester = requests[id].requester
  BY <1>1 DEF Request, Decisions
<1> HIDE DEF new
<1> QED
  BY <1>2, <1>3 DEF TypeOK

(* What the end of a job does to the store.                                *)
LEMMA VerdictStores ==
  ASSUME TypeOK, JobsKnown, NEW t \in Tasks, NEW status \in Decisions, Verdict(t, status)
  PROVE  /\ requests' \in [Ids -> Request]
         /\ \A i \in Ids : i # job[t].id => requests'[i] = requests[i]
         /\ job[t].id # NoRequest =>
              /\ requests'[job[t].id].status = status
              /\ requests'[job[t].id].requester = requests[job[t].id].requester
              /\ requests'[job[t].id].approver = job[t].user
<1>1. CASE job[t].id = NoRequest
  BY <1>1, ConstantsAssumption DEF Verdict, TypeOK
<1>2. CASE job[t].id # NoRequest
  <2>1. /\ job[t].id \in Ids /\ job[t].user \in Users
        /\ Update(job[t].id, status, job[t].user)
    BY <1>2 DEF JobsKnown, JobKnown, Verdict
  <2> QED
    BY <2>1, <1>2, UpdateStores
<1> QED
  BY <1>1, <1>2
-----------------------------------------------------------------------------
LEMMA InitIInv == Init => IInv
<1> SUFFICES ASSUME Init PROVE IInv
  OBVIOUS
<1> USE DEF Init
<1>1. TypeOK
  BY DEF TypeOK, Request, Job, Blank, Idle, Ops, Capabilities
<1>2. MadeIsSettled /\ FilesKnown
  BY DEF MadeIsSettled, FilesKnown, LoadedHasFiles, RegistersFiles, Idle
<1>3. AppliedWasMade /\ TwoPeople
  BY DEF AppliedWasMade, TwoPeople, Blank
<1>4. JobsKnown
  BY DEF JobsKnown, JobKnown, Idle
<1> QED
  BY <1>1, <1>2, <1>3, <1>4 DEF IInv

(* A new request or a change of one; a job may end with it.                *)
LEMMA StoreIInv ==
  ASSUME IInv, NEW id \in Ids, requests' \in [Ids -> Request],
         \A i \in Ids : i # id => requests'[i] = requests[i],
         requests'[id].status \in Decisions,
         requests[id].status # "none" => requests'[id].requester = requests[id].requester,
         requests'[id].status = "applied" =>
           /\ id \in effects'
           /\ Enabled /\ ~SelfApproval
                => requests'[id].approver # requests'[id].requester,
         requests'[id].status \in {"pending", "rejected"}
           => requests[id].status \in {"none", "pending"} /\ effects' = effects,
         effects' \in {effects, effects \cup {id}},
         \A t \in Tasks :
           \/ job'[t] = job[t]
           \/ job'[t] = Idle /\ job[t].id = NoRequest
           \/ job'[t] = Idle /\ job[t].id = id /\ requests'[id].status \in {"applied", "failed"},
         UNCHANGED lost
  PROVE  MadeIsSettled' /\ AppliedWasMade' /\ TwoPeople' /\ JobsKnown'
<1> USE DEF IInv
<1>1. MadeIsSettled'
  <2> SUFFICES ASSUME NEW i \in (effects \ lost)'
               PROVE  requests'[i].status \in {"applied", "failed"} \/ Applying(i)'
    BY DEF MadeIsSettled
  <2>1. i \in Ids
    BY DEF TypeOK
  <2>2. CASE i # id
    <3>1. requests[i].status \in {"applied", "failed"} \/ Applying(i)
      BY <2>1, <2>2 DEF MadeIsSettled
    <3>2. Applying(i) => Applying(i)'
      BY <2>1, <2>2, ConstantsAssumption DEF Applying
    <3> QED
      BY <2>1, <2>2, <3>1, <3>2
  <2>3. CASE i = id /\ requests'[id].status \in {"pending", "rejected"}
    <3>1. Applying(i)
      BY <2>1, <2>3 DEF MadeIsSettled
    <3> QED
      BY <2>3, <3>1, ConstantsAssumption DEF Applying
  <2> QED
    BY <2>2, <2>3 DEF Decisions
<1>2. AppliedWasMade'
  BY DEF AppliedWasMade
<1>3. TwoPeople'
  BY DEF TwoPeople
<1>4. JobsKnown'
  <2> SUFFICES ASSUME NEW t \in Tasks PROVE JobKnown(t)'
    BY DEF JobsKnown
  <2>1. JobKnown(t)
    BY DEF JobsKnown
  <2>2. CASE job'[t] = job[t]
    BY <2>1, <2>2 DEF JobKnown, Decisions
  <2>3. CASE job'[t] = Idle
    BY <2>3 DEF JobKnown, Idle
  <2> QED
    BY <2>2, <2>3
<1> QED
  BY <1>1, <1>2, <1>3, <1>4

(* A step of a job that leaves the stored requests alone.                  *)
LEMMA JobIInv ==
  ASSUME IInv, NEW t \in Tasks, NEW j, job' = [job EXCEPT ![t] = j],
         job[t].at # "setup" \/ job[t].id = NoRequest,
         j.at # "idle" => j.cap \in Plugins /\ j.user \in Users,
         j.id # NoRequest =>
           /\ j.id \in Ids
           /\ requests[j.id].status # "none"
           /\ j.at = "setup" => j.id \in effects'
           /\ j.user \in Users
           /\ Enabled /\ ~SelfApproval => j.user # requests[j.id].requester,
         \/ effects' = effects
         \/ effects' = effects \cup {j.id} /\ j.at = "setup",
         UNCHANGED <<requests, lost>>
  PROVE  MadeIsSettled' /\ AppliedWasMade' /\ TwoPeople' /\ JobsKnown'
<1> USE DEF IInv
<1>1. \A s \in Tasks : job'[s] = IF s = t THEN j ELSE job[s]
  BY DEF TypeOK
<1>2. MadeIsSettled'
  <2> SUFFICES ASSUME NEW i \in (effects \ lost)',
                      requests[i].status \notin {"applied", "failed"}
               PROVE  Applying(i)'
    BY DEF MadeIsSettled
  <2>1. CASE i \in effects
    <3>1. Applying(i) /\ i \in Ids
      BY <2>1 DEF MadeIsSettled, TypeOK
    <3> QED
      BY <1>1, <3>1, ConstantsAssumption DEF Applying
  <2>2. CASE i \notin effects
    BY <1>1, <2>2 DEF Applying
  <2> QED
    BY <2>1, <2>2
<1>3. AppliedWasMade' /\ TwoPeople'
  BY DEF AppliedWasMade, TwoPeople
<1>4. JobsKnown'
  <2> SUFFICES ASSUME NEW s \in Tasks PROVE JobKnown(s)'
    BY DEF JobsKnown
  <2>1. CASE s = t
    BY <1>1, <2>1 DEF JobKnown
  <2>2. CASE s # t
    BY <1>1, <2>2 DEF JobKnown, JobsKnown
  <2> QED
    BY <2>1, <2>2
<1> QED
  BY <1>2, <1>3, <1>4

(* The end of a job with its verdict.                                      *)
LEMMA EndIInv ==
  ASSUME IInv, NEW t \in Tasks, NEW status \in {"applied", "failed"},
         Verdict(t, status), Ends(t),
         effects' = effects \/ effects' = effects \cup {job[t].id},
         job[t].id # NoRequest /\ status = "applied" => job[t].id \in effects',
         job[t].id = NoRequest => effects' = effects,
         UNCHANGED lost
  PROVE  /\ requests' \in [Ids -> Request] /\ job' \in [Tasks -> Job]
         /\ effects' \subseteq Ids
         /\ MadeIsSettled' /\ AppliedWasMade' /\ TwoPeople' /\ JobsKnown'
<1> USE DEF IInv
<1>1. job' = [job EXCEPT ![t] = Idle]
  BY DEF Ends
<1>2. Idle \in Job /\ Idle.id = NoRequest /\ Idle.at = "idle"
  BY DEF Idle, Job, Ops
<1>3. job' \in [Tasks -> Job] /\ \A s \in Tasks : job'[s] = IF s = t THEN Idle ELSE job[s]
  BY <1>1, <1>2 DEF TypeOK
<1>4. CASE job[t].id = NoRequest
  <2>1. UNCHANGED requests
    BY <1>4 DEF Verdict
  <2> QED
    BY <1>1, <1>2, <1>3, <1>4, <2>1, JobIInv DEF TypeOK
<1>5. CASE job[t].id # NoRequest
  <2>1. JobKnown(t)
    BY DEF JobsKnown
  <2>2. /\ requests' \in [Ids -> Request]
        /\ \A i \in Ids : i # job[t].id => requests'[i] = requests[i]
        /\ requests'[job[t].id].status = status
        /\ requests'[job[t].id].requester = requests[job[t].id].requester
        /\ requests'[job[t].id].approver = job[t].user
    BY <1>5, VerdictStores DEF Decisions
  <2>3. effects' \subseteq Ids
    BY <1>5, <2>1 DEF TypeOK, JobKnown
  <2>4. MadeIsSettled' /\ AppliedWasMade' /\ TwoPeople' /\ JobsKnown'
    BY <1>3, <1>5, <2>1, <2>2, StoreIInv DEF JobKnown, Decisions
  <2> QED
    BY <1>3, <2>2, <2>3, <2>4
<1> QED
  BY <1>4, <1>5
(* An application that is cut off leaves its request alone.                *)
LEMMA CutIInv ==
  ASSUME IInv, NEW t \in Tasks, CutOff(t),
         effects' \in {effects, effects \cup ({job[t].id} \ {NoRequest})}
  PROVE  /\ job' \in [Tasks -> Job] /\ lost' \subseteq Ids /\ effects' \subseteq Ids
         /\ \A s \in Tasks : job'[s] = IF s = t THEN Idle ELSE job[s]
         /\ MadeIsSettled' /\ AppliedWasMade' /\ TwoPeople' /\ JobsKnown'
<1> USE DEF IInv
<1>1. Idle \in Job /\ Idle.id = NoRequest /\ Idle.at = "idle"
  BY DEF Idle, Job, Ops
<1>2. job' = [job EXCEPT ![t] = Idle]
  BY DEF CutOff, Ends
<1>3. job' \in [Tasks -> Job] /\ \A s \in Tasks : job'[s] = IF s = t THEN Idle ELSE job[s]
  BY <1>1, <1>2 DEF TypeOK
<1>4. {job[t].id} \ {NoRequest} \subseteq Ids
  BY DEF JobsKnown, JobKnown
<1>5. /\ lost' = lost \cup ({job[t].id} \ {NoRequest}) /\ UNCHANGED requests
      /\ lost' \subseteq Ids /\ effects' \subseteq Ids
  BY <1>4 DEF CutOff, TypeOK
<1>6. MadeIsSettled'
  <2> SUFFICES ASSUME NEW i \in (effects \ lost)'
               PROVE  requests[i].status \in {"applied", "failed"} \/ Applying(i)'
    BY <1>5 DEF MadeIsSettled
  <2>1. i \in effects \ lost /\ i # job[t].id
    BY <1>5, ConstantsAssumption
  <2>2. Applying(i) => Applying(i)'
    BY <1>3, <2>1 DEF Applying
  <2> QED
    BY <2>1, <2>2 DEF MadeIsSettled
<1>7. AppliedWasMade' /\ TwoPeople'
  BY <1>5 DEF AppliedWasMade, TwoPeople
<1>8. JobsKnown'
  <2> SUFFICES ASSUME NEW s \in Tasks PROVE JobKnown(s)'
    BY DEF JobsKnown
  <2>1. CASE s = t
    BY <1>1, <1>3, <2>1 DEF JobKnown
  <2>2. CASE s # t
    BY <1>3, <1>5, <2>2 DEF JobKnown, JobsKnown
  <2> QED
    BY <2>1, <2>2
<1> QED
  BY <1>3, <1>5, <1>6, <1>7, <1>8

(* Steps that delete no files: a plugin that becomes loaded has them, or   *)
(* they went while it was registered, and so has one to be registered.     *)
LEMMA FilesKept ==
  ASSUME IInv, UNCHANGED <<files, crossed>>,
         present' \cap Plugins \subseteq present \cup files \cup crossed,
         \A t \in Tasks : \/ job'[t] = job[t]
                          \/ job'[t].at # "registering"
                          \/ job'[t].cap \in files
  PROVE  FilesKnown'
<1>1. LoadedHasFiles'
  BY DEF IInv, FilesKnown, LoadedHasFiles
<1>2. RegistersFiles'
  BY DEF IInv, FilesKnown, RegistersFiles
<1> QED
  BY <1>1, <1>2 DEF FilesKnown

(* The end of a job deletes none.                                          *)
LEMMA FilesKeptAtEnd ==
  ASSUME IInv, NEW t \in Tasks, Ends(t), UNCHANGED <<files, crossed>>,
         present' \subseteq present
  PROVE  FilesKnown'
<1>1. \A s \in Tasks : job'[s] = IF s = t THEN Idle ELSE job[s]
  BY DEF Ends, IInv, TypeOK
<1>2. Idle.at = "idle"
  BY DEF Idle
<1> QED
  BY <1>1, <1>2, FilesKept

(* The files of a plugin that is not loaded (any more) go.                 *)
LEMMA FilesGone ==
  ASSUME IInv, NEW t \in Tasks, NEW c \in Plugins, Ends(t), FilesGo(c),
         present' \subseteq present, c \notin present'
  PROVE  FilesKnown' /\ files' \subseteq Plugins /\ crossed' \subseteq Plugins
<1>1. \A s \in Tasks : job'[s] = IF s = t THEN Idle ELSE job[s]
  BY DEF Ends, IInv, TypeOK
<1>2. Idle.at = "idle"
  BY DEF Idle
<1>3. /\ files' = files \ {c} /\ crossed \ {c} \subseteq crossed'
      /\ crossed' \subseteq crossed \cup {c}
  BY DEF FilesGo
<1>4. ASSUME NEW s \in Tasks, job[s].at = "registering", job[s].cap = c
      PROVE  c \in crossed'
  BY <1>4 DEF FilesGo
<1>5. LoadedHasFiles'
  BY <1>3 DEF IInv, FilesKnown, LoadedHasFiles
<1>6. RegistersFiles'
  BY <1>1, <1>2, <1>3, <1>4 DEF IInv, FilesKnown, RegistersFiles
<1> QED
  BY <1>3, <1>5, <1>6 DEF FilesKnown, IInv, TypeOK
-----------------------------------------------------------------------------
(* One lemma per action, or for those of one kind.                         *)

LEMMA RecordedStores ==
  ASSUME IInv, NEW op \in Ops, NEW c \in Capabilities, NEW u \in Users, NEW log,
         Recorded(op, c, u, log), UNCHANGED lost,
         \A t \in Tasks : job'[t] = job[t] \/ (job'[t] = Idle /\ job[t].id = NoRequest)
  PROVE  /\ requests' \in [Ids -> Request] /\ effects' \subseteq Ids
         /\ MadeIsSettled' /\ AppliedWasMade' /\ TwoPeople' /\ JobsKnown'
<1> USE DEF IInv
<1>1. CASE log
  <2>1. PICK id \in Ids : /\ Create(id, "applied", op, c, u, AutoApprover)
                          /\ effects' = effects \cup {id}
    BY <1>1 DEF Recorded
  <2>2. /\ requests[id].status = "none"
        /\ requests' \in [Ids -> Request]
        /\ \A i \in Ids : i # id => requests'[i] = requests[i]
        /\ requests'[id].status = "applied"
        /\ requests'[id].requester = u
        /\ requests'[id].approver = AutoApprover
    BY <2>1, CreateStores DEF Decisions
  <2>3. AutoApprover # u
    BY ConstantsAssumption
  <2>4. effects' \subseteq Ids
    BY <2>1 DEF TypeOK
  <2>5. MadeIsSettled' /\ AppliedWasMade' /\ TwoPeople' /\ JobsKnown'
    BY <2>1, <2>2, <2>3, StoreIInv DEF Decisions
  <2> QED
    BY <2>2, <2>4, <2>5
<1>2. CASE ~log
  <2>1. UNCHANGED <<requests, effects>>
    BY <1>2 DEF Recorded
  <2>2. MadeIsSettled'
    <3> SUFFICES ASSUME NEW i \in effects \ lost
                 PROVE  requests[i].status \in {"applied", "failed"} \/ Applying(i)'
      BY <2>1 DEF MadeIsSettled
    <3>1. Applying(i) => Applying(i)'
      BY ConstantsAssumption DEF Applying, TypeOK
    <3> QED
      BY <3>1 DEF MadeIsSettled
  <2>3. AppliedWasMade' /\ TwoPeople'
    BY <2>1 DEF AppliedWasMade, TwoPeople
  <2>4. JobsKnown'
    <3> SUFFICES ASSUME NEW t \in Tasks PROVE JobKnown(t)'
      BY DEF JobsKnown
    <3>1. JobKnown(t)
      BY DEF JobsKnown
    <3> QED
      BY <2>1, <3>1 DEF JobKnown, Idle
  <2> QED
    BY <2>1, <2>2, <2>3, <2>4 DEF TypeOK
<1> QED
  BY <1>1, <1>2

LEMMA SubmitIInv ==
  ASSUME IInv, NEW u \in Users, NEW op \in Ops, NEW c \in Capabilities, Submit(u, op, c)
  PROVE  IInv'
<1> USE DEF IInv
<1>1. PICK id \in Ids : Create(id, "pending", op, c, u, Nobody)
  BY DEF Submit
<1>2. /\ requests[id].status = "none"
      /\ requests' \in [Ids -> Request]
      /\ \A i \in Ids : i # id => requests'[i] = requests[i]
      /\ requests'[id].status = "pending"
  BY <1>1, CreateStores DEF Decisions
<1>3. MadeIsSettled' /\ AppliedWasMade' /\ TwoPeople' /\ JobsKnown'
  BY <1>2, StoreIInv DEF Submit, Decisions
<1>4. TypeOK'
  BY <1>2 DEF TypeOK, Submit
<1>5. FilesKnown'
  BY FilesKept DEF Submit
<1> QED
  BY <1>3, <1>4, <1>5

(* A change of an MCP client concerns no plugin.                           *)
LEMMA ChangedKeeps ==
  ASSUME IInv, NEW op \in Ops, NEW c \in Mcp
  PROVE  Changed(op, c) \subseteq Capabilities /\ Changed(op, c) \cap Plugins \subseteq present
BY ConstantsAssumption DEF IInv, TypeOK, Changed, Capabilities

LEMMA DirectMcpIInv ==
  ASSUME IInv, NEW u \in Users, NEW op \in Ops, NEW c \in Capabilities, DirectMcp(u, op, c)
  PROVE  IInv'
<1> USE DEF IInv
<1>1. PICK log \in BOOLEAN : Recorded(op, c, u, log)
  BY DEF DirectMcp
<1>2. /\ requests' \in [Ids -> Request] /\ effects' \subseteq Ids
      /\ MadeIsSettled' /\ AppliedWasMade' /\ TwoPeople' /\ JobsKnown'
  BY <1>1, RecordedStores DEF DirectMcp
<1>3. present' \subseteq Capabilities /\ FilesKnown'
  BY ChangedKeeps, FilesKept DEF DirectMcp
<1>4. TypeOK'
  BY <1>2, <1>3 DEF TypeOK, DirectMcp
<1> QED
  BY <1>2, <1>3, <1>4

LEMMA DirectPluginIInv ==
  ASSUME IInv, NEW t \in Tasks, NEW u \in Users, NEW op \in Ops, NEW c \in Capabilities,
         DirectPlugin(t, u, op, c)
  PROVE  IInv'
<1> USE DEF IInv
<1>1. PICK at \in {"fetching", "unloading"}, log \in BOOLEAN :
        Works(t, NoRequest, at, op, c, u, log)
  BY DEF DirectPlugin
<1> DEFINE j == [at |-> at, id |-> NoRequest, op |-> op, cap |-> c, user |-> u, log |-> log]
<1>2. job' = [job EXCEPT ![t] = j]
  BY <1>1 DEF Works
<1>3. /\ j \in Job /\ j.id = NoRequest /\ j.cap \in Plugins /\ j.user \in Users
      /\ j.at # "registering"
  BY DEF Job, DirectPlugin
<1>4. job[t].id = NoRequest /\ UNCHANGED <<requests, present, files, effects, lost, crossed>>
  BY DEF DirectPlugin, Idle
<1> HIDE DEF j
<1>5. MadeIsSettled' /\ AppliedWasMade' /\ TwoPeople' /\ JobsKnown'
  BY <1>2, <1>3, <1>4, JobIInv
<1>6. TypeOK'
  BY <1>2, <1>3, <1>4 DEF TypeOK
<1>7. FilesKnown'
  BY <1>2, <1>3, <1>4, FilesKept DEF TypeOK
<1> QED
  BY <1>5, <1>6, <1>7

LEMMA ApproveMcpIInv ==
  ASSUME IInv, NEW u \in Users, NEW id \in Ids, ApproveMcp(u, id)
  PROVE  IInv'
<1> USE DEF IInv
<1>1. /\ requests[id].op \in Ops /\ requests[id].cap \in Mcp
      /\ requests[id].status = "pending"
      /\ Enabled /\ ~SelfApproval => u # requests[id].requester
  BY DEF ApproveMcp, Approvable, Pending, CanApprove, TypeOK, Request
<1>2. PICK status \in {"applied", "failed"} :
        /\ Update(id, status, u)
        /\ effects' \in {effects, effects \cup {id}}
        /\ status = "applied" => id \in effects'
        /\ present' \in {present, Changed(requests[id].op, requests[id].cap)}
  BY DEF ApproveMcp
<1>3. /\ requests' \in [Ids -> Request]
      /\ \A i \in Ids : i # id => requests'[i] = requests[i]
      /\ requests'[id].status = status
      /\ requests'[id].requester = requests[id].requester
      /\ requests'[id].approver = u
  BY <1>2, UpdateStores DEF Decisions
<1>4. UNCHANGED <<files, job, lost, crossed>>
  BY DEF ApproveMcp
<1>5. MadeIsSettled' /\ AppliedWasMade' /\ TwoPeople' /\ JobsKnown'
  BY <1>1, <1>2, <1>3, <1>4, StoreIInv DEF Decisions
<1>6. present' \subseteq Capabilities /\ FilesKnown'
  BY <1>1, <1>2, <1>4, ChangedKeeps, FilesKept DEF TypeOK
<1>7. TypeOK'
  BY <1>2, <1>3, <1>4, <1>6 DEF TypeOK
<1> QED
  BY <1>5, <1>6, <1>7

LEMMA ApproveMcpRaisesIInv ==
  ASSUME IInv, NEW u \in Users, NEW id \in Ids, ApproveMcpRaises(u, id)
  PROVE  IInv'
<1> USE DEF IInv
<1>1. /\ requests[id].op \in Ops /\ requests[id].cap \in Mcp
      /\ present' = Changed(requests[id].op, requests[id].cap)
      /\ effects' = effects \cup {id} /\ lost' = lost \cup {id}
      /\ UNCHANGED <<requests, files, job, crossed>>
  BY DEF ApproveMcpRaises, TypeOK, Request
<1>2. present' \subseteq Capabilities /\ FilesKnown'
  BY <1>1, ChangedKeeps, FilesKept
<1>3. TypeOK'
  BY <1>1, <1>2 DEF TypeOK
<1>4. MadeIsSettled' /\ AppliedWasMade' /\ TwoPeople'
  BY <1>1 DEF MadeIsSettled, AppliedWasMade, TwoPeople, Applying
<1>5. JobsKnown'
  BY <1>1 DEF JobsKnown, JobKnown
<1> QED
  BY <1>2, <1>3, <1>4, <1>5

LEMMA ApprovePluginIInv ==
  ASSUME IInv, NEW t \in Tasks, NEW u \in Users, NEW id \in Ids, ApprovePlugin(t, u, id)
  PROVE  IInv'
<1> USE DEF IInv
<1> DEFINE op == requests[id].op
           c == requests[id].cap
<1>1. /\ op \in Ops /\ c \in Capabilities
      /\ requests[id].status = "pending"
      /\ Enabled /\ ~SelfApproval => u # requests[id].requester
  BY DEF ApprovePlugin, Approvable, Pending, CanApprove, TypeOK, Request, Capabilities
<1>2. job[t].id = NoRequest /\ UNCHANGED <<present, files, effects, lost, crossed>>
  BY DEF ApprovePlugin, Idle
<1>4. ASSUME NEW at \in {"fetching", "unloading"},
             Works(t, id, at, op, c, u, FALSE), UNCHANGED requests
      PROVE  IInv'
  <2> DEFINE j == [at |-> at, id |-> id, op |-> op, cap |-> c, user |-> u, log |-> FALSE]
  <2>1. job' = [job EXCEPT ![t] = j]
    BY <1>4 DEF Works
  <2>2. j.id = id /\ j.at = at /\ j.user = u /\ j.cap \in Plugins
    BY DEF ApprovePlugin
  <2>3. j \in Job
    BY <1>1 DEF Job
  <2> HIDE DEF j
  <2>4. MadeIsSettled' /\ AppliedWasMade' /\ TwoPeople' /\ JobsKnown'
    BY <1>1, <1>2, <1>4, <2>1, <2>2, JobIInv
  <2>5. TypeOK'
    BY <1>2, <1>4, <2>1, <2>3 DEF TypeOK
  <2>6. FilesKnown'
    BY <1>2, <2>1, <2>2, FilesKept DEF TypeOK
  <2> QED
    BY <2>4, <2>5, <2>6
<1>5. ASSUME Update(id, "failed", u), UNCHANGED job
      PROVE  IInv'
  <2>1. /\ requests' \in [Ids -> Request]
        /\ \A i \in Ids : i # id => requests'[i] = requests[i]
        /\ requests'[id].status = "failed"
        /\ requests'[id].requester = requests[id].requester
    BY <1>5, UpdateStores DEF Decisions
  <2>2. MadeIsSettled' /\ AppliedWasMade' /\ TwoPeople' /\ JobsKnown'
    BY <1>2, <1>5, <2>1, StoreIInv DEF Decisions
  <2>3. TypeOK'
    BY <1>2, <1>5, <2>1 DEF TypeOK
  <2>4. FilesKnown'
    BY <1>2, <1>5, FilesKept
  <2> QED
    BY <2>2, <2>3, <2>4
<1> QED
  BY <1>4, <1>5 DEF ApprovePlugin

LEMMA RejectIInv ==
  ASSUME IInv, NEW u \in Users, NEW id \in Ids, Reject(u, id)
  PROVE  IInv'
<1> USE DEF IInv
<1>1. requests[id].status = "pending" /\ Update(id, "rejected", u)
  BY DEF Reject, Pending
<1>2. /\ requests' \in [Ids -> Request]
      /\ \A i \in Ids : i # id => requests'[i] = requests[i]
      /\ requests'[id].status = "rejected"
      /\ requests'[id].requester = requests[id].requester
  BY <1>1, UpdateStores DEF Decisions
<1>3. UNCHANGED <<present, files, job, effects, lost, crossed>>
  BY DEF Reject
<1>4. MadeIsSettled' /\ AppliedWasMade' /\ TwoPeople' /\ JobsKnown'
  BY <1>1, <1>2, <1>3, StoreIInv DEF Decisions
<1>5. TypeOK'
  BY <1>2, <1>3 DEF TypeOK
<1>6. FilesKnown'
  BY <1>3, FilesKept
<1> QED
  BY <1>4, <1>5, <1>6

(* A job that goes on to another place.                                    *)
LEMMA GoesStores ==
  ASSUME IInv, NEW t \in Tasks, NEW at \in {"preparing", "registering", "setup"}, Goes(t, at)
  PROVE  \E j \in Job : /\ job' = [job EXCEPT ![t] = j]
                        /\ j.at = at /\ j.id = job[t].id /\ j.user = job[t].user
                        /\ j.cap = job[t].cap
<1> DEFINE j == [job[t] EXCEPT !.at = at]
<1>1. job[t] \in Job
  BY DEF IInv, TypeOK
<1>2. job' = [job EXCEPT ![t] = j]
  BY DEF Goes
<1>3. /\ j \in Job /\ j.at = at /\ j.id = job[t].id
      /\ j.user = job[t].user /\ j.cap = job[t].cap
  BY <1>1 DEF Job
<1> QED
  BY <1>2, <1>3

LEMMA FailureIInv ==
  ASSUME IInv, NEW t \in Tasks, Verdict(t, Refused), Ends(t), UNCHANGED <<effects, lost>>,
         FilesKnown', present' \subseteq Capabilities, files' \subseteq Plugins,
         crossed' \subseteq Plugins
  PROVE  IInv'
<1>1. /\ requests' \in [Ids -> Request] /\ job' \in [Tasks -> Job]
      /\ MadeIsSettled' /\ AppliedWasMade' /\ TwoPeople' /\ JobsKnown'
  BY EndIInv DEF Refused
<1>2. TypeOK'
  BY <1>1 DEF IInv, TypeOK
<1> QED
  BY <1>1, <1>2 DEF IInv

LEMMA InstallFailsIInv ==
  ASSUME IInv, NEW t \in Tasks, InstallFails(t)
  PROVE  IInv'
<1>1. Verdict(t, Refused) /\ Ends(t) /\ UNCHANGED <<present, files, effects, lost, crossed>>
  BY DEF InstallFails
<1>2. FilesKnown'
  BY <1>1, FilesKeptAtEnd
<1> QED
  BY <1>1, <1>2, FailureIInv DEF IInv, TypeOK

LEMMA CopyFailsIInv ==
  ASSUME IInv, NEW t \in Tasks, CopyFails(t)
  PROVE  IInv'
<1>1. /\ job[t].at = "fetching" /\ job[t].cap \notin present /\ FilesGo(job[t].cap)
      /\ Verdict(t, Refused) /\ Ends(t) /\ UNCHANGED <<present, effects, lost>>
  BY DEF CopyFails
<1>2. job[t].cap \in Plugins
  BY <1>1 DEF IInv, JobsKnown, JobKnown
<1>3. FilesKnown' /\ files' \subseteq Plugins /\ crossed' \subseteq Plugins
  BY <1>1, <1>2, FilesGone
<1> QED
  BY <1>1, <1>3, FailureIInv DEF IInv, TypeOK

LEMMA FetchedIInv ==
  ASSUME IInv, NEW t \in Tasks, Fetched(t)
  PROVE  IInv'
<1>1. job[t].at = "fetching" /\ UNCHANGED <<present, effects, lost>>
  BY DEF Fetched
<1>2. ASSUME Verdict(t, Refused), Ends(t), UNCHANGED <<files, crossed>>
      PROVE  IInv'
  <2>1. FilesKnown'
    BY <1>1, <1>2, FilesKeptAtEnd
  <2> QED
    BY <1>1, <1>2, <2>1, FailureIInv DEF IInv, TypeOK
<1>3. ASSUME files' = files \cup {job[t].cap}, crossed' = crossed \ {job[t].cap},
             Goes(t, "preparing"), UNCHANGED requests
      PROVE  IInv'
  <2>1. PICK j \in Job : /\ job' = [job EXCEPT ![t] = j] /\ j.at = "preparing"
                         /\ j.id = job[t].id /\ j.user = job[t].user
                         /\ j.cap = job[t].cap
    BY <1>3, GoesStores
  <2>2. JobKnown(t) /\ job[t].cap \in Plugins
    BY <1>1 DEF IInv, JobsKnown, JobKnown
  <2>3. MadeIsSettled' /\ AppliedWasMade' /\ TwoPeople' /\ JobsKnown'
    BY <1>1, <1>3, <2>1, <2>2, JobIInv DEF JobKnown
  <2>4. TypeOK'
    BY <1>1, <1>3, <2>1, <2>2 DEF IInv, TypeOK
  <2>5. LoadedHasFiles'
    BY <1>1, <1>3 DEF IInv, FilesKnown, LoadedHasFiles
  <2>6. RegistersFiles'
    BY <1>3, <2>1 DEF IInv, FilesKnown, RegistersFiles, TypeOK
  <2> QED
    BY <2>3, <2>4, <2>5, <2>6 DEF IInv, FilesKnown
<1> QED
  BY <1>2, <1>3 DEF Fetched

LEMMA FetchRaisesIInv ==
  ASSUME IInv, NEW t \in Tasks, FetchRaises(t)
  PROVE  IInv'
<1>1. Idle \in Job /\ Idle.id = NoRequest /\ Idle.at = "idle"
  BY DEF Idle, Job, Ops
<1>2. /\ job' = [job EXCEPT ![t] = Idle] /\ job[t].at = "fetching"
      /\ UNCHANGED <<requests, present, files, effects, lost, crossed>>
  BY DEF FetchRaises, Ends
<1>3. MadeIsSettled' /\ AppliedWasMade' /\ TwoPeople' /\ JobsKnown'
  BY <1>1, <1>2, JobIInv
<1>4. TypeOK'
  BY <1>1, <1>2 DEF IInv, TypeOK
<1>5. FilesKnown'
  BY <1>2, FilesKeptAtEnd DEF Ends
<1> QED
  BY <1>3, <1>4, <1>5 DEF IInv

(* The plugin of the job is, or is to be, loaded from its files.           *)
LEMMA GoesIInv ==
  ASSUME IInv, NEW t \in Tasks, NEW at \in {"registering", "setup"}, Goes(t, at),
         job[t].at \in {"preparing", "registering"},
         at = "registering" => job[t].cap \in files,
         effects' = IF at = "setup" THEN effects \cup ({job[t].id} \ {NoRequest})
                    ELSE effects,
         present' \in {present, present \cup {job[t].cap}},
         present' # present => job[t].cap \in files \cup crossed,
         UNCHANGED <<requests, files, lost, crossed>>
  PROVE  IInv'
<1>1. PICK j \in Job : /\ job' = [job EXCEPT ![t] = j] /\ j.at = at
                       /\ j.id = job[t].id /\ j.user = job[t].user
                       /\ j.cap = job[t].cap
  BY GoesStores
<1>2. JobKnown(t) /\ job[t].cap \in Plugins
  BY DEF IInv, JobsKnown, JobKnown
<1>3. /\ effects' \subseteq Ids
      /\ effects' = effects \/ (effects' = effects \cup {j.id} /\ j.at = "setup")
      /\ j.at = "setup" /\ j.id # NoRequest => j.id \in effects'
  BY <1>1, <1>2 DEF JobKnown, IInv, TypeOK
<1>4. MadeIsSettled' /\ AppliedWasMade' /\ TwoPeople' /\ JobsKnown'
  BY <1>1, <1>2, <1>3, JobIInv DEF JobKnown
<1>5. TypeOK'
  BY <1>1, <1>2, <1>3 DEF IInv, TypeOK, Capabilities
<1>6. \A s \in Tasks : job'[s] = IF s = t THEN j ELSE job[s]
  BY <1>1 DEF IInv, TypeOK
<1>7. FilesKnown'
  BY <1>1, <1>6, FilesKept
<1> QED
  BY <1>4, <1>5, <1>7 DEF IInv

LEMMA PreparedIInv ==
  ASSUME IInv, NEW t \in Tasks, Prepared(t)
  PROVE  IInv'
<1>1. /\ job[t].at = "preparing" /\ job[t].cap \in files
      /\ UNCHANGED <<requests, present, files, lost, crossed>>
  BY DEF Prepared, Loadable
<1>2. CASE Makes(t)
  BY <1>1, <1>2, GoesIInv DEF Makes
<1>3. CASE Goes(t, "registering") /\ UNCHANGED effects
  BY <1>1, <1>3, GoesIInv
<1> QED
  BY <1>2, <1>3 DEF Prepared

LEMMA RegisteredIInv ==
  ASSUME IInv, NEW t \in Tasks, Registered(t)
  PROVE  IInv'
<1>1. /\ job[t].at = "registering" /\ present' = present \cup {job[t].cap}
      /\ UNCHANGED <<requests, files, lost, crossed>>
      /\ Goes(t, "setup") /\ effects' = effects \cup ({job[t].id} \ {NoRequest})
  BY DEF Registered, Makes
<1>2. job[t].cap \in files \cup crossed
  BY <1>1 DEF IInv, FilesKnown, RegistersFiles
<1> QED
  BY <1>1, <1>2, GoesIInv

LEMMA InstalledIInv ==
  ASSUME IInv, NEW t \in Tasks, Installed(t)
  PROVE  IInv'
<1>1. /\ job[t].at = "setup" /\ Verdict(t, "applied") /\ Ends(t)
      /\ UNCHANGED <<present, files, effects, lost, crossed>>
  BY DEF Installed, Applied
<1>2. job[t].id # NoRequest => job[t].id \in effects
  BY <1>1 DEF IInv, JobsKnown, JobKnown
<1>3. /\ requests' \in [Ids -> Request] /\ job' \in [Tasks -> Job]
      /\ MadeIsSettled' /\ AppliedWasMade' /\ TwoPeople' /\ JobsKnown'
  BY <1>1, <1>2, EndIInv
<1>4. TypeOK'
  BY <1>1, <1>3 DEF IInv, TypeOK
<1>5. FilesKnown'
  BY <1>1, FilesKeptAtEnd
<1> QED
  BY <1>3, <1>4, <1>5 DEF IInv

LEMMA SetupRaisesIInv ==
  ASSUME IInv, NEW t \in Tasks, SetupRaises(t)
  PROVE  IInv'
<1>1. CutOff(t) /\ UNCHANGED <<present, files, effects, crossed>>
  BY DEF SetupRaises
<1>2. /\ job' \in [Tasks -> Job] /\ lost' \subseteq Ids
      /\ MadeIsSettled' /\ AppliedWasMade' /\ TwoPeople' /\ JobsKnown'
  BY <1>1, CutIInv
<1>3. FilesKnown'
  BY <1>1, FilesKeptAtEnd DEF CutOff
<1>4. TypeOK'
  BY <1>1, <1>2 DEF IInv, TypeOK, CutOff
<1> QED
  BY <1>2, <1>3, <1>4 DEF IInv

LEMMA UnloadedIInv ==
  ASSUME IInv, NEW t \in Tasks, Unloaded(t)
  PROVE  IInv'
<1> DEFINE c == job[t].cap
           id == job[t].id
<1>1. /\ job[t].at = "unloading" /\ c \in Plugins /\ c \in Capabilities /\ UNCHANGED lost
      /\ job' = [job EXCEPT ![t] = Idle]
  BY DEF Unloaded, Ends, IInv, JobsKnown, JobKnown, Capabilities
<1>2. Idle \in Job /\ Idle.id = NoRequest /\ Idle.at = "idle"
  BY DEF Idle, Job, Ops
<1>3. /\ job' \in [Tasks -> Job]
      /\ \A s \in Tasks : job'[s] = IF s = t THEN Idle ELSE job[s]
  BY <1>1, <1>2 DEF IInv, TypeOK
<1>4. job[t].user \in Users \cup {Nobody}
  BY DEF IInv, TypeOK, Job
<1>5. ASSUME c \in present, present' = present \ {c}, FilesGo(c)
      PROVE  IInv'
  <2>1. /\ FilesKnown' /\ present' \subseteq Capabilities /\ files' \subseteq Plugins
        /\ crossed' \subseteq Plugins
    BY <1>1, <1>5, FilesGone DEF IInv, TypeOK, Ends
  <2>2. CASE id = NoRequest
    <3>1. Recorded("remove", c, job[t].user, job[t].log)
      BY <1>5, <2>2 DEF Unloaded
    <3>2. job[t].user \in Users
      BY <1>1 DEF IInv, JobsKnown, JobKnown
    <3>3. /\ requests' \in [Ids -> Request] /\ effects' \subseteq Ids
          /\ MadeIsSettled' /\ AppliedWasMade' /\ TwoPeople' /\ JobsKnown'
      BY <1>1, <1>3, <2>2, <3>1, <3>2, RecordedStores DEF Ops
    <3> QED
      BY <1>1, <1>3, <2>1, <3>3 DEF IInv, TypeOK
  <2>3. CASE id # NoRequest
    <3>1. Verdict(t, "applied") /\ Ends(t) /\ effects' = effects \cup {id}
      BY <1>5, <2>3 DEF Unloaded, Applied
    <3>2. /\ requests' \in [Ids -> Request] /\ effects' \subseteq Ids
          /\ MadeIsSettled' /\ AppliedWasMade' /\ TwoPeople' /\ JobsKnown'
      BY <1>1, <2>3, <3>1, EndIInv
    <3> QED
      BY <1>1, <1>3, <2>1, <3>2 DEF IInv, TypeOK
  <2> QED
    BY <2>2, <2>3
<1>6. ASSUME UNCHANGED <<requests, present, files, effects, crossed>>
      PROVE  IInv'
  <2>1. MadeIsSettled' /\ AppliedWasMade' /\ TwoPeople' /\ JobsKnown'
    BY <1>1, <1>2, <1>6, JobIInv
  <2>2. TypeOK'
    BY <1>1, <1>3, <1>6 DEF IInv, TypeOK
  <2>3. FilesKnown'
    BY <1>1, <1>6, FilesKeptAtEnd DEF Ends
  <2> QED
    BY <2>1, <2>2, <2>3 DEF IInv
<1> QED
  BY <1>5, <1>6 DEF Unloaded

LEMMA UnloadRaisesIInv ==
  ASSUME IInv, NEW t \in Tasks, UnloadRaises(t)
  PROVE  IInv'
<1> DEFINE c == job[t].cap
<1>1. /\ job[t].at = "unloading" /\ c \in Plugins /\ present' = present \ {c}
      /\ CutOff(t) /\ effects' = effects \cup ({job[t].id} \ {NoRequest})
  BY DEF UnloadRaises, IInv, JobsKnown, JobKnown
<1>2. /\ job' \in [Tasks -> Job] /\ lost' \subseteq Ids /\ effects' \subseteq Ids
      /\ MadeIsSettled' /\ AppliedWasMade' /\ TwoPeople' /\ JobsKnown'
  BY <1>1, CutIInv
<1>3. Ends(t) /\ UNCHANGED requests
  BY <1>1 DEF CutOff
<1>4. FilesKnown' /\ files' \subseteq Plugins /\ crossed' \subseteq Plugins
  <2>1. CASE FilesGo(c)
    BY <1>1, <1>3, <2>1, FilesGone
  <2>2. CASE UNCHANGED <<files, crossed>>
    BY <1>1, <1>3, <2>2, FilesKeptAtEnd DEF IInv, TypeOK
  <2> QED
    BY <2>1, <2>2 DEF UnloadRaises
<1>5. TypeOK'
  BY <1>1, <1>2, <1>3, <1>4 DEF IInv, TypeOK
<1> QED
  BY <1>2, <1>4, <1>5 DEF IInv

(* A restart makes the requests that were being applied lost.              *)
LEMMA RestartIInv ==
  ASSUME IInv, NEW clients \in SUBSET Mcp, NEW installed \in SUBSET Plugins,
         NEW applying \in SUBSET Ids,
         Restarted(clients, installed, applying),
         effects \subseteq effects', effects' \subseteq Ids,
         effects' \subseteq effects \cup lost'
  PROVE  IInv'
<1> USE DEF IInv
<1>1. /\ files' = installed /\ UNCHANGED requests /\ crossed' = {}
      /\ job' = [t \in Tasks |-> Idle]
      /\ lost' = lost \cup applying \cup ({job[t].id : t \in Tasks} \ {NoRequest})
  BY DEF Restarted
<1>2. PICK S \in SUBSET installed : present' = clients \cup S
  BY DEF Restarted
<1>3. Idle \in Job /\ Idle.id = NoRequest /\ Idle.at = "idle"
  BY DEF Idle, Job, Ops
<1>4. \A t \in Tasks : job[t].id \in Ids \cup {NoRequest}
  BY DEF JobsKnown, JobKnown
<1>5. TypeOK'
  BY <1>1, <1>2, <1>3, <1>4 DEF TypeOK, Capabilities
<1>6. MadeIsSettled'
  <2> SUFFICES ASSUME NEW i \in effects, i \notin lost'
               PROVE  requests[i].status \in {"applied", "failed"}
    BY <1>1 DEF MadeIsSettled
  <2>1. i \in Ids /\ i \notin lost
    BY <1>1 DEF TypeOK
  <2>2. ~Applying(i)
    BY <1>1, <2>1, ConstantsAssumption DEF Applying
  <2> QED
    BY <2>1, <2>2 DEF MadeIsSettled
<1>7. AppliedWasMade' /\ TwoPeople'
  BY <1>1 DEF AppliedWasMade, TwoPeople
<1>8. FilesKnown'
  BY <1>1, <1>2, <1>3, ConstantsAssumption DEF FilesKnown, LoadedHasFiles, RegistersFiles
<1>9. JobsKnown'
  BY <1>1, <1>3 DEF JobsKnown, JobKnown
<1> QED
  BY <1>5, <1>6, <1>7, <1>8, <1>9

LEMMA CrashIInv == IInv /\ Crash => IInv'
<1> SUFFICES ASSUME IInv, Crash PROVE IInv'
  OBVIOUS
<1>1. /\ Restarted(present \cap Mcp, files, {}) /\ effects' = effects
      /\ files \subseteq Plugins /\ effects \subseteq Ids
  BY DEF Crash, IInv, TypeOK
<1> QED
  BY <1>1, RestartIInv

LEMMA CrashInApprovalIInv ==
  ASSUME IInv, NEW u \in Users, NEW id \in Ids, CrashInApproval(u, id)
  PROVE  IInv'
<1> DEFINE clients == Changed(requests[id].op, requests[id].cap) \cap Mcp
<1>1. /\ Restarted(clients, files, {id}) /\ effects' = effects \cup {id}
      /\ files \subseteq Plugins /\ effects \subseteq Ids
  BY DEF CrashInApproval, IInv, TypeOK
<1>2. clients \in SUBSET Mcp
  OBVIOUS
<1> HIDE DEF clients
<1>3. id \in lost'
  BY <1>1 DEF Restarted
<1> QED
  BY <1>1, <1>2, <1>3, RestartIInv

LEMMA CrashInRemovalIInv ==
  ASSUME IInv, NEW t \in Tasks, CrashInRemoval(t)
  PROVE  IInv'
<1>1. /\ Restarted(present \cap Mcp, files \ {job[t].cap}, {})
      /\ effects' = effects \cup ({job[t].id} \ {NoRequest})
      /\ files \subseteq Plugins /\ effects \subseteq Ids
  BY DEF CrashInRemoval, IInv, TypeOK
<1>2. {job[t].id} \ {NoRequest} \subseteq lost' /\ effects' \subseteq Ids
  BY <1>1 DEF Restarted, IInv, JobsKnown, JobKnown
<1> QED
  BY <1>1, <1>2, RestartIInv
-----------------------------------------------------------------------------
LEMMA NextIInv == IInv /\ [Next]_vars => IInv'
<1> SUFFICES ASSUME IInv, [Next]_vars PROVE IInv'
  OBVIOUS
<1>1. CASE UNCHANGED vars
  BY <1>1 DEF vars, IInv, TypeOK, MadeIsSettled, AppliedWasMade, TwoPeople,
              FilesKnown, LoadedHasFiles, RegistersFiles, JobsKnown, JobKnown, Applying
<1>2. ASSUME NEW t \in Tasks, Progress(t) PROVE IInv'
  BY <1>2, FetchedIInv, InstallFailsIInv, CopyFailsIInv, FetchRaisesIInv, PreparedIInv,
     RegisteredIInv, InstalledIInv, SetupRaisesIInv, UnloadedIInv, UnloadRaisesIInv
     DEF Progress
<1> QED
  BY <1>1, <1>2, SubmitIInv, DirectMcpIInv, DirectPluginIInv, ApproveMcpIInv,
     ApproveMcpRaisesIInv, ApprovePluginIInv, RejectIInv, CrashIInv, CrashInApprovalIInv, CrashInRemovalIInv
     DEF Next

THEOREM Invariance == Spec => []IInv
<1> QED
  BY InitIInv, NextIInv, PTL DEF Spec

(* The type invariant.                                                     *)
THEOREM TypeCorrect == Spec => []TypeOK
<1>1. IInv => TypeOK
  BY DEF IInv
<1> QED
  BY <1>1, Invariance, PTL

(* Overlapping decisions leave no made change pending or rejected, unless  *)
(* its application was cut off.                                            *)
THEOREM MadeChangesAreSettled == Spec => []MadeIsSettled
<1>1. IInv => MadeIsSettled
  BY DEF IInv
<1> QED
  BY <1>1, Invariance, PTL

(* What is recorded as applied was applied.                                *)
THEOREM AppliedChangesWereMade == Spec => []AppliedWasMade
<1>1. IInv => AppliedWasMade
  BY DEF IInv
<1> QED
  BY <1>1, Invariance, PTL

(* An applied change has been approved by another than its requester.      *)
THEOREM SeparationOfDuties == Spec => []TwoPeople
<1>1. IInv => TwoPeople
  BY DEF IInv
<1> QED
  BY <1>1, Invariance, PTL

(* Loaded plugins keep their files, but for those whose files went while   *)
(* they were registered.                                                   *)
THEOREM LoadedPluginsHaveFiles == Spec => []LoadedHasFiles
<1>1. IInv => LoadedHasFiles
  BY DEF IInv, FilesKnown
<1> QED
  BY <1>1, Invariance, PTL
=============================================================================
