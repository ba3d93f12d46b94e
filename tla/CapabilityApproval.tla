------------------------- MODULE CapabilityApproval -------------------------
(***************************************************************************)
(* Changes to the platform's capabilities that need an administrator's     *)
(* approval: the requests (qwenpaw_ext/nexora/approval_requests.py), their *)
(* approval and rejection (app/routers/nexora.py), the routes that make    *)
(* them or change a capability directly (_capability_approval.py, mcp.py,  *)
(* plugins.py) and the loading of plugins (plugins/loader.py).             *)
(*                                                                         *)
(* A change of an MCP client is applied at once; so is one of a skill that *)
(* awaits nothing.  The (un)installation of a plugin awaits downloads,     *)
(* pip and hooks.  Approval rules, which decide whether a change needs a   *)
(* request, may be edited at any time: whoever asks meets either outcome.  *)
(***************************************************************************)
CONSTANTS
  Mcp,           \* MCP clients
  Plugins,       \* plugins
  Users,         \* users with the permission approval.manage
  Approvers,     \* those whose roles are among approver_roles
  Enabled,       \* the approval policy's `enabled`
  SelfApproval,  \* the approval policy's `allow_self_approval`
  Ids,           \* bound: the ids of requests
  Tasks          \* requests handled at a time that await something

Nobody == "nobody"
AutoApprover == "[auto]"
NoRequest == "direct"

ASSUME ConstantsAssumption ==
  /\ Mcp \cap Plugins = {}
  /\ Enabled \in BOOLEAN /\ SelfApproval \in BOOLEAN
  /\ Nobody \notin Users /\ AutoApprover \notin Users /\ NoRequest \notin Ids

Capabilities == Mcp \cup Plugins
Ops == {"add", "remove"}

VARIABLES
  requests,  \* the stored requests, "none" where there is none yet
  present,   \* MCP clients in the agent's configuration, plugins loaded
  files,     \* plugins with a directory among the installed plugins
  job,       \* what each task that awaits something is doing
  effects,   \* history: requests whose change was made
  lost,      \* history: requests whose application was cut off in the middle
  crossed    \* history: plugins whose files last went while a job registered them

vars == <<requests, present, files, job, effects, lost, crossed>>

Blank == [status |-> "none", op |-> "add", cap |-> Nobody,
          requester |-> Nobody, approver |-> Nobody]
Idle == [at |-> "idle", id |-> NoRequest, op |-> "add", cap |-> Nobody,
         user |-> Nobody, log |-> FALSE]

Works(t, id, at, op, c, u, log) ==
  job' = [job EXCEPT ![t] = [at |-> at, id |-> id, op |-> op, cap |-> c,
                             user |-> u, log |-> log]]
Goes(t, at) == job' = [job EXCEPT ![t].at = at]
Ends(t) == job' = [job EXCEPT ![t] = Idle]
-----------------------------------------------------------------------------
Init ==
  /\ requests = [id \in Ids |-> Blank]
  /\ present \in SUBSET Capabilities
  /\ files = present \cap Plugins
  /\ job = [t \in Tasks |-> Idle]
  /\ effects = {}
  /\ lost = {}
  /\ crossed = {}

(* create_approval_request, then what update_approval_request made of it.  *)
Create(id, status, op, c, u, by) ==
  /\ requests[id].status = "none"
  /\ requests' = [requests EXCEPT ![id] =
       [status |-> status, op |-> op, cap |-> c, requester |-> u, approver |-> by]]

(* update_approval_request asks nothing about the present status.          *)
Update(id, status, by) ==
  requests' = [requests EXCEPT ![id].status = status, ![id].approver = by]

Pending(id) == requests[id].status = "pending"

(* A change of the agent's configuration that can still be made.           *)
Possible(op, c) == c \in present <=> op = "remove"

Changed(op, c) == IF op = "add" THEN present \cup {c} ELSE present \ {c}

(* role_ids_can_approve_action; the variant lets requesters decide.        *)
CanApproveOwn(u, requester) == ~Enabled \/ u \in Approvers

CanApprove(u, requester) ==
  ~Enabled \/ (u \in Approvers /\ (u # requester \/ SelfApproval))
-----------------------------------------------------------------------------
(* A route refuses a change of an MCP client that cannot be made, and      *)
(* makes a request for one that needs an approval.                         *)
Submit(u, op, c) ==
  /\ c \in Mcp => Possible(op, c)
  /\ \E id \in Ids : Create(id, "pending", op, c, u, Nobody)
  /\ UNCHANGED <<present, files, job, effects, lost, crossed>>

(* Removals that need no approval may be recorded as approved.             *)
Recorded(op, c, u, log) ==
  IF log THEN \E id \in Ids : /\ Create(id, "applied", op, c, u, AutoApprover)
                              /\ effects' = effects \cup {id}
  ELSE UNCHANGED <<requests, effects>>

DirectMcp(u, op, c) ==
  /\ c \in Mcp /\ Possible(op, c)
  /\ present' = Changed(op, c)
  /\ \E log \in BOOLEAN : (log => op = "remove") /\ Recorded(op, c, u, log)
  /\ UNCHANGED <<files, job, lost, crossed>>

DirectPlugin(t, u, op, c) ==
  /\ job[t] = Idle /\ c \in Plugins
  /\ \/ op = "add" /\ Works(t, NoRequest, "fetching", op, c, u, FALSE)
     \/ /\ op = "remove" /\ c \in present
        /\ \E log \in BOOLEAN : Works(t, NoRequest, "unloading", op, c, u, log)
  /\ UNCHANGED <<requests, present, files, effects, lost, crossed>>
-----------------------------------------------------------------------------
(* approve_platform_approval_request                                       *)

Approvable(u, id) == Pending(id) /\ CanApprove(u, requests[id].requester)

ApproveMcp(u, id) ==
  LET op == requests[id].op
      c == requests[id].cap
  IN /\ Approvable(u, id) /\ c \in Mcp
     /\ IF Possible(op, c)
        THEN /\ present' = Changed(op, c)
             /\ effects' = effects \cup {id}
             /\ Update(id, "applied", u)
        ELSE Update(id, "failed", u) /\ UNCHANGED <<present, effects>>
     /\ UNCHANGED <<files, job, lost, crossed>>

(* The configuration is saved when the database raises on the resource     *)
(* policy or on the request's update: no HTTPException, the request is     *)
(* still pending.                                                          *)
ApproveMcpRaises(u, id) ==
  LET op == requests[id].op
      c == requests[id].cap
  IN /\ Approvable(u, id) /\ c \in Mcp /\ Possible(op, c)
     /\ present' = Changed(op, c)
     /\ effects' = effects \cup {id}
     /\ lost' = lost \cup {id}
     /\ UNCHANGED <<requests, files, job, crossed>>

ApprovePlugin(t, u, id) ==
  LET op == requests[id].op
      c == requests[id].cap
  IN /\ Approvable(u, id) /\ c \in Plugins
     /\ job[t] = Idle
     /\ \/ /\ op = "add"
           /\ Works(t, id, "fetching", op, c, u, FALSE)
           /\ UNCHANGED requests
        \/ /\ op = "remove" /\ c \in present
           /\ Works(t, id, "unloading", op, c, u, FALSE)
           /\ UNCHANGED requests
        \/ /\ op = "remove" /\ c \notin present
           /\ Update(id, "failed", u)
           /\ UNCHANGED job
     /\ UNCHANGED <<present, files, effects, lost, crossed>>

(* Requesters may reject, that is withdraw, their own requests.            *)
Reject(u, id) ==
  /\ Pending(id)
  /\ u = requests[id].requester \/ CanApprove(u, Nobody)
  /\ Update(id, "rejected", u)
  /\ UNCHANGED <<present, files, job, effects, lost, crossed>>
-----------------------------------------------------------------------------
(* The end of a job: the request it applies, if any, is updated.  The      *)
(* variant reports success where the change was not made.                  *)
Verdict(t, status) ==
  IF job[t].id = NoRequest THEN UNCHANGED requests
  ELSE Update(job[t].id, status, job[t].user)

RefusedAsApplied == "applied"

Refused == "failed"

(* load_plugin_from_path, once the source is there: refuse a plugin that   *)
(* is loaded, else copy it and await pip.                                  *)
Fetched(t) ==
  LET c == job[t].cap IN
  /\ job[t].at = "fetching"
  /\ \/ /\ c \in present
        /\ Verdict(t, Refused) /\ Ends(t)
        /\ UNCHANGED <<files, crossed>>
     \/ /\ c \notin present
        /\ files' = files \cup {c} /\ crossed' = crossed \ {c}
        /\ Goes(t, "preparing")
        /\ UNCHANGED requests
  /\ UNCHANGED <<present, effects, lost>>

(* The source is missing or its manifest is, pip fails, or the plugin's    *)
(* register does: an HTTPException.  What was copied stays.                *)
InstallFails(t) ==
  /\ job[t].at \in {"fetching", "preparing", "registering"}
  /\ Verdict(t, Refused) /\ Ends(t)
  /\ UNCHANGED <<present, files, effects, lost, crossed>>

(* The directory of a plugin goes, perhaps while a job registers it.       *)
FilesGo(c) ==
  /\ files' = files \ {c}
  /\ crossed' = IF \E t \in Tasks : job[t].at = "registering" /\ job[t].cap = c
                THEN crossed \cup {c} ELSE crossed \ {c}

(* The copy fails once an earlier directory is out of the way.             *)
CopyFails(t) ==
  /\ job[t].at = "fetching" /\ job[t].cap \notin present
  /\ FilesGo(job[t].cap)
  /\ Verdict(t, Refused) /\ Ends(t)
  /\ UNCHANGED <<present, effects, lost>>

(* The download or the archive fails with another exception, which leaves  *)
(* the request as it is.                                                   *)
FetchRaises(t) ==
  /\ job[t].at = "fetching"
  /\ Ends(t)
  /\ UNCHANGED <<requests, present, files, effects, lost, crossed>>

(* The manifest is read again from the plugin's files.  The variant does   *)
(* not need them.                                                          *)
LoadableAnyhow(c) == TRUE

Loadable(c) == c \in files

(* The plugin is in place, its hooks follow.                               *)
Makes(t) ==
  /\ effects' = effects \cup ({job[t].id} \ {NoRequest})
  /\ Goes(t, "setup")

(* load_plugin, once pip is over: the record of a plugin that is loaded by *)
(* now is returned; of another the files are found, and its register is    *)
(* awaited.                                                                *)
Prepared(t) ==
  LET c == job[t].cap IN
  /\ job[t].at = "preparing" /\ Loadable(c)
  /\ \/ c \in present /\ Makes(t)
     \/ c \notin present /\ Goes(t, "registering") /\ UNCHANGED effects
  /\ UNCHANGED <<requests, present, files, lost, crossed>>

(* The plugin is recorded as loaded, whatever has become of its files and  *)
(* of the record by now.                                                   *)
Registered(t) ==
  /\ job[t].at = "registering"
  /\ present' = present \cup {job[t].cap}
  /\ Makes(t)
  /\ UNCHANGED <<requests, files, lost, crossed>>

(* The change is made.  Variant: the request is left alone.                *)
VerdictNot(t) == UNCHANGED requests

Applied(t) == Verdict(t, "applied")

Installed(t) ==
  /\ job[t].at = "setup"
  /\ Applied(t) /\ Ends(t)
  /\ UNCHANGED <<present, files, effects, lost, crossed>>

(* What is left of an application that raises anything but HTTPException:  *)
(* the change is made, and its request, if any, is still pending.          *)
CutOff(t) ==
  /\ Ends(t)
  /\ lost' = lost \cup ({job[t].id} \ {NoRequest})
  /\ UNCHANGED requests

(* The database raises on the resource policy of the installed plugin, or  *)
(* on the request.                                                         *)
SetupRaises(t) ==
  /\ job[t].at = "setup"
  /\ CutOff(t)
  /\ UNCHANGED <<present, files, effects, crossed>>

(* The shutdown hooks of the plugin are over: it goes with its files,      *)
(* unless another job removed it meanwhile, which raises KeyError.         *)
Unloaded(t) ==
  LET c == job[t].cap
      id == job[t].id
  IN
  /\ job[t].at = "unloading"
  /\ \/ /\ c \in present
        /\ present' = present \ {c}
        /\ FilesGo(c)
        /\ IF id = NoRequest THEN Recorded("remove", c, job[t].user, job[t].log)
           ELSE Applied(t) /\ effects' = effects \cup {id}
     \/ /\ c \notin present
        /\ UNCHANGED <<requests, present, files, effects, crossed>>
  /\ Ends(t)
  /\ UNCHANGED lost

(* It has gone from the loaded plugins when the deletion of its files      *)
(* raises, which leaves them, or some of them, where they are; or all have *)
(* gone and the request's update raises.                                   *)
UnloadRaises(t) ==
  LET c == job[t].cap IN
  /\ job[t].at = "unloading" /\ c \in present
  /\ present' = present \ {c}
  /\ FilesGo(c) \/ UNCHANGED <<files, crossed>>
  /\ effects' = effects \cup ({job[t].id} \ {NoRequest})
  /\ CutOff(t)
-----------------------------------------------------------------------------
(***************************************************************************)
(* The process dies and starts again: calls are forgotten, requests and    *)
(* configuration are kept, and the installed plugins that load are loaded. *)
(***************************************************************************)
Restarted(clients, installed, applying) ==
  /\ files' = installed
  /\ \E S \in SUBSET installed : present' = clients \cup S
  /\ job' = [t \in Tasks |-> Idle]
  /\ crossed' = {}
  /\ lost' = lost \cup applying \cup ({job[t].id : t \in Tasks} \ {NoRequest})
  /\ UNCHANGED requests

Crash ==
  /\ Restarted(present \cap Mcp, files, {})
  /\ UNCHANGED effects

(* It dies between the change of the configuration, or of the plugin       *)
(* directory, and the update.                                              *)
CrashInApproval(u, id) ==
  LET op == requests[id].op
      c == requests[id].cap
  IN /\ Approvable(u, id) /\ c \in Mcp /\ Possible(op, c)
     /\ Restarted(Changed(op, c) \cap Mcp, files, {id})
     /\ effects' = effects \cup {id}

CrashInRemoval(t) ==
  /\ job[t].at = "unloading" /\ job[t].cap \in present
  /\ Restarted(present \cap Mcp, files \ {job[t].cap}, {})
  /\ effects' = effects \cup ({job[t].id} \ {NoRequest})
-----------------------------------------------------------------------------
Progress(t) ==
  Fetched(t) \/ InstallFails(t) \/ CopyFails(t) \/ FetchRaises(t) \/ Prepared(t)
    \/ Registered(t) \/ Installed(t) \/ SetupRaises(t) \/ Unloaded(t) \/ UnloadRaises(t)

Next ==
  \/ \E u \in Users, op \in Ops, c \in Capabilities :
       \/ Submit(u, op, c) \/ DirectMcp(u, op, c)
       \/ \E t \in Tasks : DirectPlugin(t, u, op, c)
  \/ \E u \in Users, id \in Ids :
       \/ ApproveMcp(u, id) \/ ApproveMcpRaises(u, id) \/ CrashInApproval(u, id)
       \/ Reject(u, id)
       \/ \E t \in Tasks : ApprovePlugin(t, u, id)
  \/ \E t \in Tasks : Progress(t) \/ CrashInRemoval(t)
  \/ Crash

Spec == Init /\ [][Next]_vars
-----------------------------------------------------------------------------
Request ==
  [status : {"none", "pending", "applied", "failed", "rejected"}, op : Ops,
   cap : Capabilities \cup {Nobody}, requester : Users \cup {Nobody},
   approver : Users \cup {Nobody, AutoApprover}]

Job ==
  [at : {"idle", "fetching", "preparing", "registering", "setup", "unloading"},
   id : Ids \cup {NoRequest}, op : Ops, cap : Capabilities \cup {Nobody},
   user : Users \cup {Nobody}, log : BOOLEAN]

TypeOK ==
  /\ requests \in [Ids -> Request]
  /\ present \subseteq Capabilities
  /\ files \subseteq Plugins
  /\ job \in [Tasks -> Job]
  /\ effects \subseteq Ids
  /\ lost \subseteq Ids
  /\ crossed \subseteq Plugins

Applying(id) == \E t \in Tasks : job[t].id = id /\ job[t].at = "setup"

(* However decisions overlap, the change of a request that is rejected in  *)
(* the end was not made, and a change that was made is not left pending,   *)
(* to be approved and made once more.  It may be so while the hooks of an  *)
(* installed plugin run, and where an application was cut off: by the end  *)
(* of the process, by files that would not be deleted (loader.py:602), or  *)
(* by a database that would not take the policy or the update.             *)
MadeIsSettled ==
  \A id \in effects \ lost :
    requests[id].status \in {"applied", "failed"} \/ Applying(id)

(* A request that is recorded as applied was: neither a decision that      *)
(* overlaps its application nor a restart turns it into a false record.    *)
AppliedWasMade ==
  \A id \in Ids : requests[id].status = "applied" => id \in effects

(* Where the policy excludes self-approval, the record of an applied       *)
(* change names an approver other than the requester.                      *)
TwoPeople ==
  Enabled /\ ~SelfApproval =>
    \A id \in Ids : requests[id].status = "applied"
                      => requests[id].approver # requests[id].requester

(* A loaded plugin has its files, however installations and removals       *)
(* overlap: the next start of the process finds it again.  The exception   *)
(* is a plugin whose files went while a job awaited its register           *)
(* (loader.py:215): the job records it as loaded without them.             *)
LoadedHasFiles == (present \cap Plugins) \ crossed \subseteq files

(* "Rejected -> Change blocked" (README.md): the change of a request that  *)
(* has been rejected is not made any more.                                 *)
RejectionBlocks ==
  [][\A id \in Ids : requests[id].status = "rejected" /\ id \in effects'
                       => id \in effects]_vars
=============================================================================
