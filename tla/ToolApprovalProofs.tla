-------------------------- MODULE ToolApprovalProofs --------------------------
(***************************************************************************)
(* Proofs about ToolApproval, for every value of its constants: the        *)
(* inductive invariant IInv, the safety properties it implies, the bound   *)
(* of the store, and that the approval store implements ApprovalGate.      *)
(***************************************************************************)
EXTENDS ToolApproval, FiniteSetTheorems, WellFoundedInduction, TLAPS

(* The record of r is in the store exactly while its status is "pending".  *)
StatusFollowsStore == \A r \in RequestIds : status[r] = "pending" <=> r \in pending

(* Only an approval sets a future to "approved".                           *)
FutureFollowsStatus == \A r \in RequestIds : future[r] = "approved" => status[r] = "approved"

(* A request that was not created yet is untouched.                        *)
NotYetCreated ==
  \A r \in RequestIds : r > created =>
    status[r] = "none" /\ future[r] = "open" /\ phase[r] = "none"

IInv == /\ TypeOK
        /\ RunsOnlyApproved
        /\ WaiterCanBeAnswered
        /\ OneRequestPerCall
        /\ StatusFollowsStore
        /\ FutureFollowsStatus
        /\ NotYetCreated
-----------------------------------------------------------------------------
LEMMA InitIInv == Init => IInv
<1> SUFFICES ASSUME Init PROVE IInv
  OBVIOUS
<1>1. (CHOOSE c \in Calls : TRUE) \in Calls
  BY ConstantsAssumption
<1>2. TypeOK
  BY <1>1, ConstantsAssumption
     DEF Init, TypeOK, RequestIds, Status, Future, Phase
<1>3. QED
  BY <1>2 DEF Init, IInv, RunsOnlyApproved, WaiterCanBeAnswered, Started,
     OneRequestPerCall, StatusFollowsStore, FutureFollowsStatus, NotYetCreated

(* Closing pending requests with a status and a result that fit.           *)
LEMMA CloseIInv ==
  ASSUME IInv, NEW S \in SUBSET pending, NEW st \in Status, NEW d \in Future,
         st # "pending", st # "none", d # "open",
         d = "approved" => st = "approved",
         Close(S, st, d), UNCHANGED <<created, callOf, phase, aged>>,
         run' \in [Sessions -> {"running", "stopping", "deaf"}]
  PROVE  IInv'
<1>1. S \subseteq RequestIds
  BY ConstantsAssumption DEF IInv, TypeOK, RequestIds
<1>2. TypeOK'
  BY <1>1 DEF IInv, TypeOK, Close, StatusAfter, FutureAfter
<1>3. \A r \in RequestIds : r \in S => status[r] = "pending" /\ status'[r] = st
  BY <1>1 DEF IInv, StatusFollowsStore, Close, StatusAfter
<1>4. \A r \in RequestIds : r \notin S => status'[r] = status[r] /\ future'[r] = future[r]
  BY DEF Close, StatusAfter, FutureAfter
<1>5. \A r \in RequestIds : r \in S => future'[r] = IF future[r] = "open" THEN d ELSE future[r]
  BY DEF Close, FutureAfter
<1>6. RunsOnlyApproved'
  BY <1>3, <1>4 DEF IInv, RunsOnlyApproved
<1>7. WaiterCanBeAnswered'
  BY <1>4, <1>5 DEF IInv, WaiterCanBeAnswered, Close
<1>8. OneRequestPerCall'
  BY DEF IInv, OneRequestPerCall, Close
<1>9. StatusFollowsStore'
  BY <1>3, <1>4 DEF IInv, StatusFollowsStore, Close
<1>10. FutureFollowsStatus'
  BY <1>3, <1>4, <1>5 DEF IInv, FutureFollowsStatus
<1>11. NotYetCreated'
  <2> SUFFICES ASSUME NEW r \in RequestIds, r > created
               PROVE  status'[r] = "none" /\ future'[r] = "open" /\ phase'[r] = "none"
    BY DEF NotYetCreated
  <2>1. r \notin S
    BY <1>3 DEF IInv, NotYetCreated
  <2>2. QED
    BY <2>1, <1>4 DEF IInv, NotYetCreated
<1>12. QED
  BY <1>2, <1>6, <1>7, <1>8, <1>9, <1>10, <1>11 DEF IInv

LEMMA RequestApprovalIInv ==
  ASSUME IInv, NEW c \in Calls, RequestApproval(c)
  PROVE  IInv'
<1> DEFINE r       == created + 1
           stale   == Stale(c)
           stored  == (pending \ stale) \cup {r}
           fresh   == {p \in stored : p > aged}
           kept    == Youngest(fresh)
           evicted == stored \ kept
<1>1. /\ created \in Nat /\ MaxRequests \in Nat /\ r \in RequestIds
      /\ created' = r
      /\ callOf' = [callOf EXCEPT ![r] = c]
      /\ pending' = kept
      /\ status' = [p \in RequestIds |->
                      IF p \in stale THEN "superseded"
                      ELSE IF p \in evicted THEN "timeout"
                      ELSE IF p = r THEN "pending" ELSE status[p]]
      /\ future' = FutureAfter(stale \cup evicted, "timeout")
      /\ phase' = [phase EXCEPT ![r] = "emitting"]
      /\ aged' = aged /\ run' = run
  BY ConstantsAssumption DEF RequestApproval, IInv, TypeOK, RequestIds
<1>2. kept \subseteq stored /\ stale \subseteq pending /\ stale \cap stored = {}
      /\ r \notin pending /\ pending \subseteq RequestIds
  BY <1>1 DEF Youngest, Stale, IInv, TypeOK, RequestIds
<1>3. \A p \in RequestIds :
        /\ p \in stale   => status'[p] = "superseded"
        /\ p \in evicted => status'[p] = "timeout"
        /\ p \in kept    => status'[p] = IF p = r THEN "pending" ELSE status[p]
        /\ p \notin stale \cup stored => status'[p] = status[p]
  <2> HIDE DEF r, stale, kept, fresh
  <2> QED
    BY <1>1, <1>2
<1>4. \A p \in RequestIds :
        future'[p] = IF p \in stale \cup evicted /\ future[p] = "open"
                     THEN "timeout" ELSE future[p]
  BY <1>1 DEF FutureAfter
<1>5. stale \cup stored = pending \cup {r}
  BY <1>2
<1> HIDE DEF r, stale, stored, fresh, kept
<1>6. TypeOK'
  <2>1. status' \in [RequestIds -> Status] /\ future' \in [RequestIds -> Future]
    BY <1>1, <1>4 DEF IInv, TypeOK, Status, Future, Decision, FutureAfter
  <2>2. pending' \subseteq 1..created' /\ created' \in 0..MaxRequests /\ aged' \in 0..created'
    BY <1>1, <1>2 DEF IInv, TypeOK, RequestIds, r, stored
  <2>3. callOf' \in [RequestIds -> Calls] /\ phase' \in [RequestIds -> Phase]
    BY <1>1 DEF IInv, TypeOK, Phase, Active
  <2>4. QED
    BY <2>1, <2>2, <2>3, <1>1 DEF IInv, TypeOK
<1>7. status[r] = "none" /\ future[r] = "open" /\ phase[r] = "none"
  BY <1>1 DEF IInv, NotYetCreated, r
<1>8. \A p \in RequestIds : p \in pending => status[p] = "pending"
  BY DEF IInv, StatusFollowsStore
<1>9. RunsOnlyApproved'
  BY <1>1, <1>3, <1>5, <1>8, Zenon DEF IInv, RunsOnlyApproved, Started, TypeOK
<1>10. WaiterCanBeAnswered'
  BY <1>1, <1>2, <1>4, <1>5, <1>7 DEF IInv, WaiterCanBeAnswered, TypeOK, stored
<1>11. OneRequestPerCall'
  BY <1>1, <1>2 DEF IInv, OneRequestPerCall, TypeOK, stored, stale, Stale
<1>12. StatusFollowsStore'
  BY <1>1, <1>2, <1>3, <1>5, <1>8 DEF IInv, StatusFollowsStore, stored
<1>13. FutureFollowsStatus'
  BY <1>1, <1>2, <1>3, <1>4, <1>5, <1>7, <1>8 DEF IInv, FutureFollowsStatus, stored
<1>14. NotYetCreated'
  <2> SUFFICES ASSUME NEW p \in RequestIds, p > created'
               PROVE  status'[p] = "none" /\ future'[p] = "open" /\ phase'[p] = "none"
    BY DEF NotYetCreated
  <2>1. p > created /\ p # r /\ p \notin pending
    BY <1>1 DEF IInv, TypeOK, RequestIds, r
  <2>2. p \notin stale \cup stored /\ p \notin stale \cup evicted
    BY <2>1, <1>5
  <2>3. status[p] = "none" /\ future[p] = "open" /\ phase[p] = "none"
    BY <2>1 DEF IInv, NotYetCreated
  <2>4. QED
    BY <2>1, <2>2, <2>3, <1>1, <1>3, <1>4 DEF IInv, TypeOK
<1>15. QED
  BY <1>6, <1>9, <1>10, <1>11, <1>12, <1>13, <1>14 DEF IInv

(* The coroutine's steps change only where it stands and its own future.   *)
LEMMA AgentStepIInv ==
  ASSUME IInv, NEW r \in RequestIds, AgentStep(r)
  PROVE  IInv'
<1> USE DEF IInv, TypeOK, RunsOnlyApproved, WaiterCanBeAnswered, OneRequestPerCall,
            StatusFollowsStore, FutureFollowsStatus, NotYetCreated, Started
<1>1. CASE Emit(r)
  BY <1>1 DEF Emit, Phase, Active
<1>2. CASE Resume(r)
  BY <1>2 DEF Resume, PhaseFor, Phase, Active, Ended, Decision
<1>3. CASE TimerFires(r)
  BY <1>3 DEF TimerFires, TimerDue, FutureAfter, Phase, Ended, Future
<1>4. CASE ToolEnds(r)
  BY <1>4 DEF ToolEnds, Phase, Ended
<1>5. QED
  BY <1>1, <1>2, <1>3, <1>4 DEF AgentStep

LEMMA ResolveIInv ==
  ASSUME IInv, NEW r \in pending, NEW d \in {"approved", "denied"}, Resolve(r, d)
  PROVE  IInv'
<1>1. {r} \in SUBSET pending /\ d \in Status /\ d \in Future
  BY DEF Status, Future, Decision
<1>2. run' \in [Sessions -> {"running", "stopping", "deaf"}]
  BY DEF Resolve, IInv, TypeOK
<1>3. Close({r}, d, d) /\ UNCHANGED <<created, callOf, phase, aged>>
  BY DEF Resolve
<1>4. QED
  BY <1>1, <1>2, <1>3, CloseIInv

LEMMA UserStepIInv ==
  ASSUME IInv, NEW s \in Sessions, UserStep(s)
  PROVE  IInv'
<1>1. CASE \E d \in {"approved", "denied"} : DecideHead(s, d)
  BY <1>1, ResolveIInv DEF DecideHead
<1>2. CASE \E r \in RequestIds, d \in {"approved", "denied"} : DecideById(s, r, d)
  BY <1>2, ResolveIInv DEF DecideById
<1>3. CASE RequestStop(s)
  BY <1>3 DEF RequestStop, IInv, TypeOK, RunsOnlyApproved, WaiterCanBeAnswered,
     OneRequestPerCall, StatusFollowsStore, FutureFollowsStatus, NotYetCreated
<1>4. QED
  BY <1>1, <1>2, <1>3 DEF UserStep

LEMMA StopStepIInv ==
  ASSUME IInv, StopStep
  PROVE  IInv'
<1>1. ASSUME NEW r \in RequestIds, CancelCall(r)
      PROVE  IInv'
  <2> USE DEF IInv, TypeOK, RunsOnlyApproved, WaiterCanBeAnswered, OneRequestPerCall,
              StatusFollowsStore, FutureFollowsStatus, NotYetCreated
  <2>1. phase[r] \in Active
        /\ phase' = [phase EXCEPT ![r] = IF @ = "executing" THEN "interrupted" ELSE "stopped"]
        /\ UNCHANGED <<created, callOf, aged, run>>
    BY <1>1 DEF CancelCall
  <2>2. CASE phase[r] = "waiting"
    <3>1. /\ pending' = pending \ {r}
          /\ status' = StatusAfter({r} \cap pending, "denied")
          /\ future' = FutureAfter({r}, "aborted")
      BY <1>1, <2>2 DEF CancelCall
    <3>2. /\ status' \in [RequestIds -> Status] /\ future' \in [RequestIds -> Future]
          /\ \A p \in RequestIds : p # r => status'[p] = status[p] /\ future'[p] = future[p]
          /\ status'[r] = IF r \in pending THEN "denied" ELSE status[r]
          /\ future'[r] = IF future[r] = "open" THEN "aborted" ELSE future[r]
      BY <3>1 DEF StatusAfter, FutureAfter, Status, Decision, Future
    <3>3. /\ phase' \in [RequestIds -> Phase] /\ phase'[r] = "stopped"
          /\ \A p \in RequestIds : p # r => phase'[p] = phase[p]
      BY <2>1, <2>2 DEF Phase, Ended
    <3>4. TypeOK'
      BY <2>1, <3>1, <3>2, <3>3
    <3>5. \A p \in RequestIds : p \in pending' <=> p \in pending /\ p # r
      BY <3>1
    <3>6. RunsOnlyApproved'
      <4> SUFFICES ASSUME NEW p \in RequestIds, phase'[p] \in Started
                   PROVE  status'[p] = "approved"
        BY DEF RunsOnlyApproved
      <4>1. p # r
        BY <3>3 DEF Started
      <4>2. QED
        BY <4>1, <3>2, <3>3
    <3>7. WaiterCanBeAnswered'
      BY <3>2, <3>3, <3>5
    <3>8. OneRequestPerCall'
      BY <2>1, <3>1
    <3>9. StatusFollowsStore'
      <4> SUFFICES ASSUME NEW p \in RequestIds
                   PROVE  status'[p] = "pending" <=> p \in pending'
        BY DEF StatusFollowsStore
      <4>1. CASE p = r
        BY <4>1, <3>2, <3>5
      <4>2. CASE p # r
        BY <4>2, <3>2, <3>5
      <4>3. QED
        BY <4>1, <4>2
    <3>10. FutureFollowsStatus'
      <4> SUFFICES ASSUME NEW p \in RequestIds, future'[p] = "approved"
                   PROVE  status'[p] = "approved"
        BY DEF FutureFollowsStatus
      <4>1. CASE p = r
        BY <4>1, <3>2
      <4>2. CASE p # r
        BY <4>2, <3>2
      <4>3. QED
        BY <4>1, <4>2
    <3>11. NotYetCreated'
      BY <2>1, <2>2, <3>2, <3>3
    <3>12. QED
      BY <3>4, <3>6, <3>7, <3>8, <3>9, <3>10, <3>11
  <2>3. CASE phase[r] # "waiting"
    <3>1. UNCHANGED <<pending, status, future>>
      BY <1>1, <2>3 DEF CancelCall
    <3>2. QED
      BY <2>1, <2>3, <3>1 DEF Phase, Ended, Active, Started
  <2>4. QED
    BY <2>2, <2>3
<1>2. ASSUME NEW r \in RequestIds, CancelLost(r)
      PROVE  IInv'
  <2>1. /\ phase[r] = "waiting" /\ future[r] \in Decision
        /\ phase' = [phase EXCEPT ![r] = PhaseFor(future[r])]
        /\ run' = [run EXCEPT ![SessionOfRequest(r)] = "deaf"]
        /\ UNCHANGED <<created, callOf, pending, status, future, aged>>
    BY <1>2 DEF CancelLost
  <2>2. TypeOK'
    BY <2>1 DEF IInv, TypeOK, PhaseFor, Phase, Active, Ended
  <2>3. QED
    BY <2>1, <2>2 DEF PhaseFor, Started, Decision, IInv, TypeOK, RunsOnlyApproved,
       WaiterCanBeAnswered, OneRequestPerCall, StatusFollowsStore, FutureFollowsStatus,
       NotYetCreated
<1>3. ASSUME NEW s \in Sessions, FinishStop(s)
      PROVE  IInv'
  <2>1. InTree(s) \in SUBSET pending /\ "cancelled" \in Status /\ "denied" \in Future
    BY DEF InTree, Status, Future, Decision
  <2>2. /\ Close(InTree(s), "cancelled", "denied")
        /\ UNCHANGED <<created, callOf, phase, aged>>
        /\ run' \in [Sessions -> {"running", "stopping", "deaf"}]
    BY <1>3 DEF FinishStop, IInv, TypeOK
  <2>3. QED
    BY <2>1, <2>2, CloseIInv
<1>4. QED
  BY <1>1, <1>2, <1>3 DEF StopStep

LEMMA GrowOldIInv ==
  ASSUME IInv, GrowOld
  PROVE  IInv'
BY DEF GrowOld, IInv, TypeOK, RunsOnlyApproved, WaiterCanBeAnswered, OneRequestPerCall,
   StatusFollowsStore, FutureFollowsStatus, NotYetCreated

LEMMA NextIInv == IInv /\ [Next]_vars => IInv'
<1> SUFFICES ASSUME IInv, [Next]_vars PROVE IInv'
  OBVIOUS
<1>1. CASE Next
  BY <1>1, RequestApprovalIInv, AgentStepIInv, UserStepIInv, StopStepIInv, GrowOldIInv
     DEF Next
<1>2. CASE UNCHANGED vars
  BY <1>2 DEF vars, IInv, TypeOK, RunsOnlyApproved, WaiterCanBeAnswered,
     OneRequestPerCall, StatusFollowsStore, FutureFollowsStatus, NotYetCreated
<1>3. QED
  BY <1>1, <1>2

LEMMA Invariance == Spec => []IInv
BY InitIInv, NextIInv, PTL DEF Spec

(* Every variable keeps its type.                                          *)
THEOREM TypeCorrect == Spec => []TypeOK
<1>1. IInv => TypeOK
  BY DEF IInv
<1>2. QED
  BY <1>1, Invariance, PTL

(* A guarded tool runs only on an approval of its own request.             *)
THEOREM ToolsRunOnlyApproved == Spec => []RunsOnlyApproved
<1>1. IInv => RunsOnlyApproved
  BY DEF IInv
<1>2. QED
  BY <1>1, Invariance, PTL

(* A coroutine that waits on an open future has its record in the store.   *)
THEOREM WaitersCanBeAnswered == Spec => []WaiterCanBeAnswered
<1>1. IInv => WaiterCanBeAnswered
  BY DEF IInv
<1>2. QED
  BY <1>1, Invariance, PTL

(* The store holds at most one open request per tool call.                 *)
THEOREM AtMostOneRequestPerCall == Spec => []OneRequestPerCall
<1>1. IInv => OneRequestPerCall
  BY DEF IInv
<1>2. QED
  BY <1>1, Invariance, PTL
-----------------------------------------------------------------------------
(* A nonempty set of naturals has a least element.                         *)
LEMMA LeastElement ==
  ASSUME NEW S \in SUBSET Nat, S # {}
  PROVE  \E m \in S : \A q \in S : m =< q
<1>1. PICK m \in S : \A q \in S : ~ (<<q, m>> \in OpToRel(<, Nat))
  BY NatLessThanWellFounded, WFMin
<1>2. \A q, n \in Nat : q < n => <<q, n>> \in OpToRel(<, Nat)
  BY DEF OpToRel
<1>3. ASSUME NEW q \in S PROVE m =< q
  <2>1. ~ (q < m)
    BY <1>1, <1>2
  <2>2. QED
    BY <2>1
<1>4. QED
  BY <1>3

(* The overflow eviction leaves at most MaxPending records.                *)
LEMMA YoungestBounded ==
  ASSUME NEW S \in SUBSET Nat, IsFiniteSet(S)
  PROVE  Cardinality(Youngest(S)) =< MaxPending
<1>1. CASE Youngest(S) = {}
  BY <1>1, FS_EmptySet, ConstantsAssumption
<1>2. CASE Youngest(S) # {}
  <2>1. PICK m \in Youngest(S) : \A q \in Youngest(S) : m =< q
    BY <1>2, LeastElement DEF Youngest
  <2> DEFINE T == {q \in S : q >= m}
  <2>2. Cardinality(T) =< MaxPending /\ IsFiniteSet(T)
    BY FS_Subset DEF Youngest
  <2>3. Youngest(S) \subseteq T
    BY <2>1 DEF Youngest
  <2>4. Cardinality(Youngest(S)) =< Cardinality(T)
    BY <2>2, <2>3, FS_Subset
  <2>5. Cardinality(T) \in Nat /\ Cardinality(Youngest(S)) \in Nat
    BY <2>2, <2>3, FS_Subset, FS_CardinalityType
  <2>6. QED
    BY <2>2, <2>4, <2>5, ConstantsAssumption
<1>3. QED
  BY <1>1, <1>2

(* Every step but a new request only removes records from the store.       *)
LEMMA OnlyRequestsInsert ==
  ASSUME IInv, [Next]_vars, \A c \in Calls : ~ RequestApproval(c)
  PROVE  pending' \subseteq pending
BY DEF Next, vars, AgentStep, Emit, Resume, TimerFires, ToolEnds, UserStep, DecideHead,
   DecideById, Resolve, Close, RequestStop, StopStep, CancelCall, CancelLost, FinishStop,
   GrowOld

(* The store never exceeds _GC_MAX_PENDING.                                *)
THEOREM StoreIsBounded == Spec => []StoreBounded
<1>1. Init => StoreBounded
  BY FS_EmptySet, ConstantsAssumption DEF Init, StoreBounded
<1>2. IInv /\ IInv' /\ StoreBounded /\ [Next]_vars => StoreBounded'
  <2> SUFFICES ASSUME IInv, IInv', StoreBounded, [Next]_vars
               PROVE  StoreBounded'
    OBVIOUS
  <2>1. IsFiniteSet(pending) /\ IsFiniteSet(pending') /\ pending \subseteq Nat /\ pending' \subseteq Nat
    <3>1. created \in Nat /\ created' \in Nat /\ pending \subseteq 1..created /\ pending' \subseteq 1..created'
      BY ConstantsAssumption DEF IInv, TypeOK
    <3>2. IsFiniteSet(1..created) /\ IsFiniteSet(1..created')
      BY <3>1, FS_Interval
    <3>3. IsFiniteSet(pending) /\ IsFiniteSet(pending')
      BY <3>1, <3>2, FS_Subset
    <3>4. QED
      BY <3>1, <3>3
  <2>2. CASE \E c \in Calls : RequestApproval(c)
    <3>1. PICK c \in Calls : RequestApproval(c)
      BY <2>2
    <3> DEFINE fresh == {p \in (pending \ Stale(c)) \cup {created + 1} : p > aged}
    <3>2. pending' = Youngest(fresh)
      BY <3>1 DEF RequestApproval
    <3>3. fresh \in SUBSET Nat /\ IsFiniteSet(fresh)
      <4>1. created + 1 \in Nat
        BY ConstantsAssumption DEF IInv, TypeOK
      <4>2. IsFiniteSet(pending \cup {created + 1})
        BY <2>1, FS_AddElement
      <4>3. fresh \in SUBSET (pending \cup {created + 1})
        BY DEF Stale
      <4>4. QED
        BY <2>1, <4>1, <4>2, <4>3, FS_Subset
    <3>4. QED
      BY <3>2, <3>3, YoungestBounded DEF StoreBounded
  <2>3. CASE \A c \in Calls : ~ RequestApproval(c)
    <3>1. pending' \subseteq pending
      BY <2>3, OnlyRequestsInsert
    <3>2. Cardinality(pending') =< Cardinality(pending)
      BY <2>1, <3>1, FS_Subset
    <3>3. Cardinality(pending) \in Nat /\ Cardinality(pending') \in Nat
      BY <2>1, FS_CardinalityType
    <3>4. QED
      BY <3>2, <3>3, ConstantsAssumption DEF StoreBounded
  <2>4. QED
    BY <2>2, <2>3
<1>3. QED
  BY <1>1, <1>2, Invariance, PTL DEF Spec
-----------------------------------------------------------------------------
(* A request and its future are decided once.                              *)
THEOREM RequestsDecidedOnce == Spec => DecidedOnce
<1> DEFINE Once == \A r \in RequestIds :
                     /\ status[r] \notin {"none", "pending"} => status'[r] = status[r]
                     /\ future[r] # "open" => future'[r] = future[r]
<1>1. IInv /\ [Next]_vars => [Once]_<<status, future>>
  <2> SUFFICES ASSUME IInv, [Next]_vars PROVE Once \/ UNCHANGED <<status, future>>
    OBVIOUS
  <2>1. ASSUME NEW S \in SUBSET pending, NEW st, NEW d, Close(S, st, d)
        PROVE  Once
    BY <2>1 DEF Close, StatusAfter, FutureAfter, IInv, StatusFollowsStore
  <2>2. ASSUME NEW c \in Calls, RequestApproval(c)
        PROVE  Once
    <3> DEFINE stored  == (pending \ Stale(c)) \cup {created + 1}
               evicted == stored \ Youngest({p \in stored : p > aged})
    <3>1. /\ status' = [p \in RequestIds |->
                         IF p \in Stale(c) THEN "superseded"
                         ELSE IF p \in evicted THEN "timeout"
                         ELSE IF p = created + 1 THEN "pending" ELSE status[p]]
          /\ future' = FutureAfter(Stale(c) \cup evicted, "timeout")
      BY <2>2 DEF RequestApproval
    <3>2. \A p \in RequestIds : status[p] \notin {"none", "pending"} =>
             p \notin Stale(c) /\ p \notin evicted /\ p # created + 1
      <4>1. \A p \in RequestIds : p \in pending => status[p] = "pending"
        BY DEF IInv, StatusFollowsStore
      <4>2. created + 1 \in RequestIds => status[created + 1] = "none"
        BY ConstantsAssumption DEF IInv, NotYetCreated, TypeOK
      <4>3. QED
        BY <4>1, <4>2 DEF Stale
    <3> HIDE DEF evicted
    <3>3. QED
      BY <3>1, <3>2 DEF FutureAfter
  <2>3. ASSUME NEW r \in RequestIds, AgentStep(r)
        PROVE  Once
    BY <2>3 DEF AgentStep, Emit, Resume, TimerFires, ToolEnds, FutureAfter
  <2>4. ASSUME NEW s \in Sessions, UserStep(s)
        PROVE  Once
    <3>1. CASE \E d \in {"approved", "denied"} : DecideHead(s, d)
      BY <2>1, <3>1 DEF DecideHead, Resolve
    <3>2. CASE \E r \in RequestIds, d \in {"approved", "denied"} : DecideById(s, r, d)
      BY <2>1, <3>2 DEF DecideById, Resolve
    <3>3. CASE RequestStop(s)
      BY <3>3 DEF RequestStop
    <3>4. QED
      BY <2>4, <3>1, <3>2, <3>3 DEF UserStep
  <2>5. ASSUME StopStep
        PROVE  Once
    <3>1. ASSUME NEW r \in RequestIds, CancelCall(r) PROVE Once
      BY <3>1 DEF CancelCall, StatusAfter, FutureAfter, IInv, StatusFollowsStore
    <3>2. ASSUME NEW r \in RequestIds, CancelLost(r) PROVE Once
      BY <3>2 DEF CancelLost
    <3>3. ASSUME NEW s \in Sessions, FinishStop(s) PROVE Once
      BY <2>1, <3>3 DEF FinishStop, InTree
    <3>4. QED
      BY <2>5, <3>1, <3>2, <3>3 DEF StopStep
  <2>6. CASE GrowOld
    BY <2>6 DEF GrowOld
  <2>7. CASE UNCHANGED vars
    BY <2>7 DEF vars
  <2>8. QED
    BY <2>2, <2>3, <2>4, <2>5, <2>6, <2>7 DEF Next
<1>2. QED
  BY <1>1, Invariance, PTL DEF Spec, DecidedOnce
-----------------------------------------------------------------------------
(* Only the end of a stop makes a session run again.                       *)
LEMMA OnlyFinishStopRuns ==
  ASSUME IInv, [Next]_vars, NEW s \in Sessions, run[s] # "running", run'[s] = "running"
  PROVE  FinishStop(s)
<1>1. run \in [Sessions -> {"running", "stopping", "deaf"}]
  BY DEF IInv, TypeOK
<1>2. run' # run
  OBVIOUS
<1>3. ASSUME NEW t \in Sessions, FinishStop(t)
      PROVE  FinishStop(s)
  <2>1. run' = [run EXCEPT ![t] = "running"]
    BY <1>3 DEF FinishStop
  <2>2. t = s
    BY <1>1, <2>1
  <2> QED
    BY <1>3, <2>2
<1>4. ASSUME NEW t \in Sessions, RequestStop(t)
      PROVE  FALSE
  <2>1. run' = [run EXCEPT ![t] = "stopping"]
    BY <1>4 DEF RequestStop
  <2> QED
    BY <1>1, <2>1
<1>5. ASSUME NEW r \in RequestIds, CancelLost(r)
      PROVE  FALSE
  <2>1. run' = [run EXCEPT ![SessionOfRequest(r)] = "deaf"]
    BY <1>5 DEF CancelLost
  <2> QED
    BY <1>1, <2>1
<1>6. ASSUME NEW c \in Calls, RequestApproval(c)
      PROVE  run' = run
  BY <1>6 DEF RequestApproval
<1>7. ASSUME NEW r \in RequestIds, AgentStep(r)
      PROVE  run' = run
  BY <1>7 DEF AgentStep, Emit, Resume, TimerFires, ToolEnds
<1>8. ASSUME NEW r \in RequestIds, CancelCall(r)
      PROVE  run' = run
  BY <1>8 DEF CancelCall
<1>9. ASSUME NEW t \in Sessions, UserStep(t)
      PROVE  run' = run \/ RequestStop(t)
  BY <1>9 DEF UserStep, DecideHead, DecideById, Resolve
<1>10. CASE GrowOld \/ UNCHANGED vars
  BY <1>2, <1>10 DEF GrowOld, vars
<1> QED
  BY <1>2, <1>3, <1>4, <1>5, <1>6, <1>7, <1>8, <1>9, <1>10 DEF Next, StopStep

(* When a stop is over, the requests of its whole session tree have left   *)
(* the store, and no coroutine of the tree waits on an open future: a      *)
(* waiter whose future was open had its record in the store, where the     *)
(* stop found it.                                                          *)
THEOREM StopsClearTheTree == Spec => StopLeavesNothing
<1> DEFINE Cleared ==
             \A s \in Sessions : run[s] # "running" /\ run'[s] = "running" =>
               \A r \in 1..created : RootOfRequest(r) = Root[s] =>
                 /\ r \notin pending'
                 /\ phase[r] = "waiting" => future'[r] # "open"
<1>1. IInv /\ [Next]_vars => Cleared
  <2> SUFFICES ASSUME IInv, [Next]_vars, NEW s \in Sessions,
                      run[s] # "running", run'[s] = "running",
                      NEW r \in 1..created, RootOfRequest(r) = Root[s]
               PROVE  /\ r \notin pending'
                      /\ phase[r] = "waiting" => future'[r] # "open"
    OBVIOUS
  <2>1. Close(InTree(s), "cancelled", "denied")
    BY OnlyFinishStopRuns DEF FinishStop
  <2>2. r \in RequestIds
    BY ConstantsAssumption DEF IInv, TypeOK, RequestIds
  <2>3. r \in pending => r \in InTree(s)
    BY DEF InTree
  <2>4. r \notin pending'
    BY <2>1, <2>3 DEF Close
  <2>5. future'[r] = IF r \in InTree(s) /\ future[r] = "open" THEN "denied" ELSE future[r]
    BY <2>1, <2>2 DEF Close, FutureAfter
  <2>6. phase[r] = "waiting" /\ future[r] = "open" => r \in InTree(s)
    BY <2>2, <2>3 DEF IInv, WaiterCanBeAnswered
  <2> QED
    BY <2>4, <2>5, <2>6
<1>2. IInv /\ [Next]_vars => [Cleared]_run
  BY <1>1
<1> QED
  BY <1>2, Invariance, PTL DEF Spec, StopLeavesNothing
-----------------------------------------------------------------------------
(* A new request survives the collection that follows its insertion.       *)
LEMMA NewRequestKept ==
  ASSUME IInv, NEW S \in SUBSET (pending \cup {created + 1}), created + 1 \in S
  PROVE  created + 1 \in Youngest(S)
<1>1. {q \in S : q >= created + 1} = {created + 1}
  <2>1. created \in Nat /\ \A q \in pending : q \in Nat /\ q =< created
    BY ConstantsAssumption DEF IInv, TypeOK
  <2>2. \A q \in S : q >= created + 1 => q = created + 1
    BY <2>1
  <2>3. QED
    BY <2>1, <2>2
<1>2. Cardinality({created + 1}) = 1
  BY FS_Singleton
<1>3. QED
  BY <1>1, <1>2, ConstantsAssumption DEF Youngest

(* Closing pending requests refuses them at the gate.                      *)
LEMMA CloseRefuses ==
  ASSUME IInv, NEW S \in SUBSET pending, NEW st \in Status,
         st \notin {"none", "pending", "approved"},
         status' = StatusAfter(S, st), Ran' = Ran
  PROVE  Gate!Refuse(S) /\ S \in SUBSET RequestIds
<1>1. S \subseteq RequestIds
  BY ConstantsAssumption DEF IInv, TypeOK, RequestIds
<1>2. \A p \in S : Verdict[p] = "open"
  BY <1>1 DEF IInv, StatusFollowsStore, Verdict
<1>3. Verdict' = [p \in RequestIds |-> IF p \in S THEN "refused" ELSE Verdict[p]]
  BY DEF StatusAfter, Verdict
<1>4. QED
  BY <1>1, <1>2, <1>3 DEF Gate!Refuse

(* A resumed coroutine either starts its granted tool, once, or not.       *)
LEMMA ResumeRuns ==
  ASSUME IInv, NEW r \in RequestIds, phase[r] = "waiting",
         phase' = [phase EXCEPT ![r] = PhaseFor(future[r])], status' = status
  PROVE  Gate!Run(r) \/ UNCHANGED <<Verdict, Ran>>
<1>1. Verdict' = Verdict
  BY DEF Verdict
<1>2. phase \in [RequestIds -> Phase]
  BY DEF IInv, TypeOK
<1>3. CASE future[r] = "approved"
  <2>1. Verdict[r] = "granted"
    BY <1>3 DEF IInv, FutureFollowsStatus, Verdict
  <2>2. r \notin Ran /\ Ran' = Ran \cup {r}
    BY <1>2, <1>3 DEF Ran, Started, PhaseFor
  <2>3. QED
    BY <1>1, <2>1, <2>2 DEF Gate!Run
<1>4. CASE future[r] # "approved"
  <2>1. Ran' = Ran
    BY <1>2, <1>4 DEF Ran, Started, PhaseFor
  <2>2. QED
    BY <1>1, <2>1
<1>5. QED
  BY <1>3, <1>4

(* Every step of the store is a step of the gate or leaves it unchanged.   *)
LEMMA GateStep ==
  ASSUME IInv, [Next]_vars
  PROVE  Gate!Next \/ UNCHANGED <<Verdict, Ran>>
<1> DEFINE GateStepOrStutter == Gate!Next \/ UNCHANGED <<Verdict, Ran>>
<1>1. ASSUME NEW c \in Calls, RequestApproval(c)
      PROVE  GateStepOrStutter
  <2> DEFINE r       == created + 1
             stored  == (pending \ Stale(c)) \cup {r}
             fresh   == {p \in stored : p > aged}
             evicted == stored \ Youngest(fresh)
             S       == Stale(c) \cup evicted
  <2>1. /\ r \in RequestIds
        /\ phase' = [phase EXCEPT ![r] = "emitting"]
        /\ status' = [p \in RequestIds |->
                       IF p \in Stale(c) THEN "superseded"
                       ELSE IF p \in evicted THEN "timeout"
                       ELSE IF p = r THEN "pending" ELSE status[p]]
    BY <1>1, ConstantsAssumption DEF RequestApproval, IInv, TypeOK, RequestIds
  <2>2. r \notin pending /\ status[r] = "none" /\ phase[r] = "none"
    BY <2>1, ConstantsAssumption DEF IInv, TypeOK, NotYetCreated
  <2>3. r \in Youngest(fresh)
    <3>1. fresh \in SUBSET (pending \cup {created + 1})
      BY DEF Stale
    <3>2. created + 1 \in fresh
      BY ConstantsAssumption DEF IInv, TypeOK
    <3>3. QED
      BY <3>1, <3>2, NewRequestKept
  <2>4. S \subseteq pending /\ r \notin S
    BY <2>2, <2>3 DEF Stale
  <2>5. pending \subseteq RequestIds
    BY ConstantsAssumption DEF IInv, TypeOK, RequestIds
  <2> HIDE DEF r, evicted
  <2>6. Ran' = Ran
    BY <2>1, <2>2 DEF Ran, Started, IInv, TypeOK
  <2>7. \A p \in S : Verdict[p] = "open"
    BY <2>4, <2>5 DEF IInv, StatusFollowsStore, Verdict
  <2>8. Verdict[r] = "none"
    BY <2>1, <2>2 DEF Verdict
  <2>9. Verdict' = [p \in RequestIds |-> IF p = r THEN "open"
                                         ELSE IF p \in S THEN "refused" ELSE Verdict[p]]
    BY <2>1, <2>4 DEF Verdict
  <2>10. Gate!Open(r, S)
    BY <2>6, <2>7, <2>8, <2>9 DEF Gate!Open
  <2>11. QED
    BY <2>1, <2>4, <2>5, <2>10 DEF Gate!Next
<1>2. ASSUME NEW r \in RequestIds, AgentStep(r)
      PROVE  GateStepOrStutter
  <2>1. CASE Resume(r)
    BY <2>1, ResumeRuns DEF Resume, Gate!Next
  <2>2. CASE Emit(r) \/ TimerFires(r) \/ ToolEnds(r)
    BY <2>2 DEF Emit, TimerFires, TimerDue, ToolEnds, Verdict, Ran, Started, IInv, TypeOK
  <2>3. QED
    BY <1>2, <2>1, <2>2 DEF AgentStep
<1>3. ASSUME NEW r \in pending, NEW d \in {"approved", "denied"}, Resolve(r, d)
      PROVE  GateStepOrStutter
  <2>1. status' = StatusAfter({r}, d) /\ phase' = phase /\ r \in RequestIds
    BY <1>3, ConstantsAssumption DEF Resolve, Close, IInv, TypeOK, RequestIds
  <2>2. Ran' = Ran
    BY <2>1 DEF Ran
  <2>3. CASE d = "denied"
    <3>1. Gate!Refuse({r}) /\ {r} \in SUBSET RequestIds
      BY <2>1, <2>2, <2>3, CloseRefuses DEF Status, Decision
    <3>2. QED
      BY <3>1 DEF Gate!Next
  <2>4. CASE d = "approved"
    <3>1. Verdict[r] = "open"
      BY <2>1 DEF Verdict, IInv, StatusFollowsStore
    <3>2. Verdict' = [Verdict EXCEPT ![r] = "granted"]
      BY <2>1, <2>4 DEF Verdict, StatusAfter
    <3>3. QED
      BY <2>1, <2>2, <3>1, <3>2 DEF Gate!Grant, Gate!Next
  <2>5. QED
    BY <2>3, <2>4
<1>4. ASSUME NEW s \in Sessions, UserStep(s)
      PROVE  GateStepOrStutter
  <2>1. CASE RequestStop(s)
    BY <2>1 DEF RequestStop, Verdict, Ran
  <2>2. QED
    BY <1>3, <1>4, <2>1 DEF UserStep, DecideHead, DecideById
<1>5. ASSUME NEW r \in RequestIds, CancelCall(r)
      PROVE  GateStepOrStutter
  <2>1. Ran' = Ran
    BY <1>5 DEF CancelCall, Ran, Started, Active, IInv, TypeOK
  <2>2. CASE phase[r] = "waiting"
    <3>1. status' = StatusAfter({r} \cap pending, "denied")
      BY <1>5, <2>2 DEF CancelCall
    <3>2. "denied" \in Status
      BY DEF Status, Decision
    <3>3. Gate!Refuse({r} \cap pending) /\ {r} \cap pending \in SUBSET RequestIds
      BY <2>1, <3>1, <3>2, CloseRefuses
    <3>4. QED
      BY <3>3 DEF Gate!Next
  <2>3. CASE phase[r] # "waiting"
    BY <1>5, <2>1, <2>3 DEF CancelCall, Verdict
  <2>4. QED
    BY <2>2, <2>3
<1>6. ASSUME NEW s \in Sessions, FinishStop(s)
      PROVE  GateStepOrStutter
  <2>1. Ran' = Ran /\ status' = StatusAfter(InTree(s), "cancelled")
    BY <1>6 DEF FinishStop, Close, Ran
  <2>2. InTree(s) \in SUBSET pending /\ "cancelled" \in Status
    BY DEF InTree, Status
  <2>3. Gate!Refuse(InTree(s)) /\ InTree(s) \in SUBSET RequestIds
    BY <2>1, <2>2, CloseRefuses
  <2>4. QED
    BY <2>3 DEF Gate!Next
<1>7. ASSUME StopStep
      PROVE  GateStepOrStutter
  <2>1. ASSUME NEW r \in RequestIds, CancelLost(r)
        PROVE  GateStepOrStutter
    BY <2>1, ResumeRuns DEF CancelLost, Gate!Next
  <2>2. QED
    BY <1>5, <1>6, <1>7, <2>1 DEF StopStep
<1>8. CASE GrowOld \/ UNCHANGED vars
  BY <1>8 DEF GrowOld, vars, Verdict, Ran
<1>9. QED
  BY <1>1, <1>2, <1>4, <1>7, <1>8 DEF Next

(* The approval store implements the gate.                                 *)
THEOREM StoreImplementsGate == Spec => ImplementsGate
<1>1. Init => Gate!Init
  BY DEF Init, Gate!Init, Verdict, Ran, Started
<1>2. IInv /\ [Next]_vars => [Gate!Next]_(Gate!vars)
  BY GateStep DEF Gate!vars
<1>3. QED
  BY <1>1, <1>2, Invariance, PTL DEF Spec, ImplementsGate, Gate!Spec
=============================================================================
