---------------------------- MODULE ApprovalGate ----------------------------
(***************************************************************************)
(* What the approval of tool calls promises, whatever the store, the       *)
(* timers and the stops do: a request is opened at most once, is decided   *)
(* at most once, and its tool runs at most once and only when granted.     *)
(***************************************************************************)
CONSTANT Requests

VARIABLES
  verdict,  \* verdict[r] \in {"none", "open", "granted", "refused"}
  ran       \* requests whose tool was started

vars == <<verdict, ran>>

Init == /\ verdict = [r \in Requests |-> "none"]
        /\ ran = {}

(* A request is opened; older ones may be refused to make room for it.     *)
Open(r, S) ==
  /\ verdict[r] = "none"
  /\ \A p \in S : verdict[p] = "open"
  /\ verdict' = [p \in Requests |-> IF p = r THEN "open"
                                  ELSE IF p \in S THEN "refused" ELSE verdict[p]]
  /\ UNCHANGED ran

(* One request is granted ...                                              *)
Grant(r) ==
  /\ verdict[r] = "open"
  /\ verdict' = [verdict EXCEPT ![r] = "granted"]
  /\ UNCHANGED ran

(* ... or any number of them is refused at once.                           *)
Refuse(S) ==
  /\ \A p \in S : verdict[p] = "open"
  /\ verdict' = [p \in Requests |-> IF p \in S THEN "refused" ELSE verdict[p]]
  /\ UNCHANGED ran

(* The tool of a granted request is started, once.                         *)
Run(r) ==
  /\ verdict[r] = "granted"
  /\ r \notin ran
  /\ ran' = ran \cup {r}
  /\ UNCHANGED verdict

Next ==
  \/ \E r \in Requests : \/ Grant(r)
                         \/ Run(r)
                         \/ \E S \in SUBSET Requests : Open(r, S)
  \/ \E S \in SUBSET Requests : Refuse(S)

Spec == Init /\ [][Next]_vars
=============================================================================
