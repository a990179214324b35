-------------------------- MODULE AgentController --------------------------
(***************************************************************************)
(* The Agent controller, for one Agent name: the finalizer, the            *)
(* ServiceAccount, the Role and the RoleBinding it makes sure of, the      *)
(* status it writes, and the cleanup.  It reads all of them from informer  *)
(* caches that follow the API server each in its own time; a write with an *)
(* old version of the Agent is refused.  The workflow reconciler adds the  *)
(* cost of each step to the same status, users create, edit and delete the *)
(* Agent, the garbage collector removes what a deleted Agent owned.        *)
(***************************************************************************)
EXTENDS Integers, Sequences

CONSTANTS
  NoAgent,      \* there is no Agent of this name
  Webhook,      \* the validating webhook is installed
  MaxUid,       \* bound on the Agents created under this name
  Specs,        \* what users create: a model or none, and a cost limit (0 for none)
  Changes,      \* what they change it to
  MaxCost,      \* bound on the cost
  Resources,    \* what an Agent needs, in the order it is created
  MaxFaults,    \* bound on calls that fail
  MaxEdits      \* bound on edits of users

Resource == {Resources[i] : i \in DOMAIN Resources}

AgentSpec == [valid : BOOLEAN, limit : Nat]

Agent == [uid : 1 .. MaxUid, spec : AgentSpec,
          finalizer : BOOLEAN, deleting : BOOLEAN,
          phase : {"", "Error", "Ready", "Terminated"},
          cost : 0 .. MaxCost, over : BOOLEAN]   \* over: not QuotaAvailable

ASSUME AgentAssumption ==
  /\ Webhook \in BOOLEAN
  /\ MaxUid \in Nat /\ MaxCost \in Nat /\ MaxFaults \in Nat /\ MaxEdits \in Nat
  /\ Specs \subseteq AgentSpec /\ Changes \subseteq AgentSpec
  /\ Resources \in Seq({"sa", "role", "binding"}) /\ "sa" \in Resource
  /\ NoAgent \notin Agent

VARIABLES
  agent,     \* the Agent at the API server
  seen,      \* the Agent in the cache
  synced,    \* the cache has the last version
  uids,      \* Agents created so far
  res,       \* by resource: the uid of its owner, 0 if there is none
  view,      \* the resources in the caches
  events,    \* the resources with events the caches have not seen
  queued,    \* the Agent is in the controller's work queue
  pc,        \* where the controller's pass is
  todo,      \* the resources it has left
  mine,      \* its copy of the Agent
  current,   \* its copy is the last version
  dropped,   \* the last status of a pass got lost in a failure (history)
  secret,    \* the Secret that the Agent names exists
  faults,    \* failures so far
  edits      \* edits so far

resources == <<res, view, events>>
cluster == <<agent, seen, synced, uids, resources>>
pass == <<queued, pc, todo, mine, current, dropped>>
vars == <<cluster, pass, secret, faults, edits>>

Fault == faults < MaxFaults /\ faults' = faults + 1
NoFault == faults' = faults
Edit == edits < MaxEdits /\ edits' = edits + 1

Live == agent # NoAgent /\ ~agent.deleting

Init ==
  /\ agent = NoAgent /\ seen = NoAgent /\ synced = TRUE /\ uids = 0
  /\ res = [r \in Resource |-> 0] /\ view = {} /\ events = {}
  /\ queued = FALSE /\ pc = "idle" /\ todo = <<>>
  /\ mine = NoAgent /\ current = FALSE /\ dropped = FALSE
  /\ secret = TRUE /\ faults = 0 /\ edits = 0

\* AgentValidator: the model's provider and name, and AG-003, the Secret.
Admitted(a) == Webhook => a.spec.valid /\ secret

OverLimit(a) == a.spec.limit > 0 /\ a.cost > a.spec.limit

\* A resource is created for an Agent, or deleted (0).
Own(r, uid) == res' = [res EXCEPT ![r] = uid] /\ events' = events \cup {r}

\* A write by anyone else: the cache and a pass under way have an old version.
Written(a) == agent' = a /\ synced' = FALSE /\ current' = FALSE

-----------------------------------------------------------------------------
(* The pass.                                                               *)

Done(again) ==
  /\ pc' = "idle" /\ queued' = (queued \/ again) /\ todo' = <<>>
  /\ mine' = NoAgent /\ current' = FALSE

Goto(label) == pc' = label /\ UNCHANGED <<queued, todo>>

Reverse(s) == [i \in 1 .. Len(s) |-> s[Len(s) + 1 - i]]

\* Mutant: the pass goes on without the finalizer.
ReconcileUnfinalized ==
  /\ pc = "idle" /\ queued
  /\ queued' = FALSE
  /\ IF seen = NoAgent
     THEN UNCHANGED <<pc, todo, mine, current>>
     ELSE /\ mine' = seen /\ current' = synced
          /\ \/ seen.deleting /\ pc' = "cleanup" /\ todo' = Reverse(Resources)
             \/ /\ ~seen.deleting
                /\ pc' = (IF seen.spec.valid THEN "ensure" ELSE "error")
                /\ todo' = (IF seen.spec.valid THEN Resources ELSE <<>>)
  /\ UNCHANGED <<cluster, dropped, secret, faults, edits>>

Reconcile ==
  /\ pc = "idle" /\ queued
  /\ queued' = FALSE
  /\ IF seen = NoAgent
     THEN UNCHANGED <<pc, todo, mine, current>>
     ELSE /\ mine' = seen /\ current' = synced
          /\ \/ seen.deleting /\ pc' = "cleanup" /\ todo' = Reverse(Resources)
             \/ ~seen.deleting /\ ~seen.finalizer /\ pc' = "finalizer" /\ todo' = <<>>
             \/ /\ ~seen.deleting /\ seen.finalizer
                /\ pc' = (IF seen.spec.valid THEN "ensure" ELSE "error")
                /\ todo' = (IF seen.spec.valid THEN Resources ELSE <<>>)
  /\ UNCHANGED <<cluster, dropped, secret, faults, edits>>

AddFinalizer ==
  /\ pc = "finalizer"
  /\ IF current /\ Admitted(mine)
     THEN \/ /\ NoFault
             /\ agent' = [mine EXCEPT !.finalizer = TRUE] /\ synced' = FALSE
          \/ Fault /\ UNCHANGED <<agent, synced>>
     ELSE NoFault /\ UNCHANGED <<agent, synced>>
  /\ Done(TRUE)
  /\ UNCHANGED <<seen, uids, resources, dropped, secret, edits>>

\* Mutant: a refused Create is not an error.
EnsureQuietly ==
  /\ pc = "ensure" /\ todo # <<>>
  /\ LET r == Head(todo) IN
       \/ /\ r \in view /\ NoFault
          /\ todo' = Tail(todo) /\ UNCHANGED <<res, events, pc>>
       \/ /\ r \notin view /\ res[r] = 0 /\ NoFault
          /\ Own(r, mine.uid) /\ todo' = Tail(todo) /\ UNCHANGED pc
       \/ /\ r \notin view /\ (Fault \/ (res[r] # 0 /\ NoFault))
          /\ todo' = Tail(todo) /\ UNCHANGED <<res, events, pc>>
  /\ UNCHANGED <<agent, seen, synced, uids, view, queued, mine, current, dropped,
                 secret, edits>>

\* ensureServiceAccount, then the Role and the RoleBinding of ensureRBAC: each is
\* created if the cache has none, and never updated.
Ensure ==
  /\ pc = "ensure" /\ todo # <<>>
  /\ LET r == Head(todo) IN
       \/ /\ r \in view /\ NoFault
          /\ todo' = Tail(todo) /\ UNCHANGED <<res, events, pc>>
       \/ /\ r \notin view /\ res[r] = 0 /\ NoFault
          /\ Own(r, mine.uid) /\ todo' = Tail(todo) /\ UNCHANGED pc
       \/ /\ r \notin view /\ (Fault \/ (res[r] # 0 /\ NoFault))   \* AlreadyExists
          /\ pc' = "error" /\ todo' = <<>> /\ UNCHANGED <<res, events>>
  /\ UNCHANGED <<agent, seen, synced, uids, view, queued, mine, current, dropped,
                 secret, edits>>

\* Mutant: the status is patched, whatever version it is from.
SetPhaseForced(a) ==
  \/ /\ agent # NoAgent /\ NoFault
     /\ agent' = a /\ dropped' = FALSE /\ synced' = FALSE
  \/ agent = NoAgent /\ NoFault /\ UNCHANGED <<agent, synced, dropped>>
  \/ Fault /\ dropped' = TRUE /\ UNCHANGED <<agent, synced>>

\* setPhase: the whole status of the pass's copy; an error is only logged.  A
\* write that changes nothing, the timestamps being of the same second, is no event.
SetPhase(a) ==
  \/ /\ current /\ NoFault
     /\ agent' = a /\ dropped' = FALSE
     /\ IF a = agent THEN synced' \in {synced, FALSE} ELSE synced' = FALSE
  \/ ~current /\ NoFault /\ UNCHANGED <<agent, synced, dropped>>
  \/ Fault /\ dropped' = TRUE /\ UNCHANGED <<agent, synced>>

SetError ==
  /\ pc = "error"
  /\ SetPhase([mine EXCEPT !.phase = "Error"])
  /\ Done(TRUE)
  /\ UNCHANGED <<seen, uids, resources, secret, edits>>

SetReady ==
  /\ pc = "ensure" /\ todo = <<>>
  /\ SetPhase([mine EXCEPT !.phase = "Ready",
                           !.over = OverLimit(mine)])
  /\ Done(FALSE)
  /\ UNCHANGED <<seen, uids, resources, secret, edits>>

\* cleanupAgentResources: what the caches have of this name, whoever owns it.
Cleanup ==
  /\ pc = "cleanup" /\ todo # <<>>
  /\ todo' = Tail(todo)
  /\ LET r == Head(todo) IN
       \/ /\ r \in view /\ NoFault /\ Own(r, 0)
       \/ /\ r \notin view /\ NoFault /\ UNCHANGED <<res, events>>
       \/ /\ r \in view /\ Fault /\ UNCHANGED <<res, events>>
  /\ UNCHANGED <<agent, seen, synced, uids, view, queued, pc, mine, current, dropped,
                 secret, edits>>

SetTerminated ==
  /\ pc = "cleanup" /\ todo = <<>>
  /\ SetPhase([mine EXCEPT !.phase = "Terminated"])
  /\ mine' = [mine EXCEPT !.phase = "Terminated"] /\ UNCHANGED current
  /\ Goto("release")
  /\ UNCHANGED <<seen, uids, resources, secret, edits>>

RemoveFinalizer ==
  /\ pc = "release"
  /\ IF current /\ Admitted(mine)
     THEN \/ NoFault /\ agent' = NoAgent /\ synced' = FALSE /\ Done(FALSE)
          \/ Fault /\ Done(TRUE) /\ UNCHANGED <<agent, synced>>
     ELSE NoFault /\ Done(TRUE) /\ UNCHANGED <<agent, synced>>
  /\ UNCHANGED <<seen, uids, resources, dropped, secret, edits>>

Pass ==
  \/ Reconcile \/ AddFinalizer \/ Ensure \/ SetError \/ SetReady
  \/ Cleanup \/ SetTerminated \/ RemoveFinalizer

-----------------------------------------------------------------------------
(* The caches and the garbage collector.                                   *)

\* Mutant: only a new generation queues the Agent.
SyncGeneration ==
  /\ ~synced
  /\ seen' = agent /\ synced' = TRUE
  /\ queued' = (queued \/ seen = NoAgent \/ agent = NoAgent
                 \/ (agent # NoAgent /\ seen # NoAgent
                       /\ <<agent.uid, agent.spec, agent.deleting>> #
                          <<seen.uid, seen.spec, seen.deleting>>))
  /\ UNCHANGED <<secret, faults, edits, agent, uids, resources, pc, todo, mine, current, dropped>>

SyncAgent ==
  /\ ~synced
  /\ seen' = agent /\ synced' = TRUE /\ queued' = TRUE
  /\ UNCHANGED <<secret, faults, edits, agent, uids, resources, pc, todo, mine, current, dropped>>

\* Mutant: the controller does not own the ServiceAccounts.
SyncResourceQuietly(r) ==
  /\ r \in events /\ events' = events \ {r}
  /\ view' = IF res[r] = 0 THEN view \ {r} ELSE view \cup {r}
  /\ UNCHANGED <<secret, faults, edits, agent, seen, synced, uids, res, queued, pc, todo, mine,
                 current, dropped>>

\* Owns(ServiceAccount): its events queue the Agent its owner reference names.
SyncResource(r) ==
  /\ r \in events /\ events' = events \ {r}
  /\ view' = IF res[r] = 0 THEN view \ {r} ELSE view \cup {r}
  /\ queued' = (queued \/ r = "sa")
  /\ UNCHANGED <<secret, faults, edits, agent, seen, synced, uids, res, pc, todo, mine, current,
                 dropped>>

Collect(r) ==
  /\ res[r] # 0 /\ (agent # NoAgent => agent.uid # res[r])
  /\ Own(r, 0)
  /\ UNCHANGED <<secret, faults, edits, agent, seen, synced, uids, view, pass>>

-----------------------------------------------------------------------------
(* Users, and the workflow reconciler.                                     *)

Create(spec) ==
  /\ agent = NoAgent /\ uids < MaxUid
  /\ LET a == [uid |-> uids + 1, spec |-> spec, finalizer |-> FALSE, deleting |-> FALSE,
               phase |-> "", cost |-> 0, over |-> FALSE]
     IN Admitted(a) /\ Written(a)
  /\ uids' = uids + 1
  /\ UNCHANGED <<secret, faults, edits, seen, resources, queued, pc, todo, mine, dropped>>

\* handleUpdateAgent: reads the cache, so it is refused if that is behind; a limit
\* of 0 leaves the old one.
Update(spec) ==
  /\ agent # NoAgent /\ synced /\ Edit
  /\ LET a == [agent EXCEPT !.spec.valid = spec.valid,
                             !.spec.limit = IF spec.limit > 0 THEN spec.limit ELSE @]
     IN a # agent /\ Admitted(a) /\ Written(a)
  /\ UNCHANGED <<secret, faults, seen, uids, resources, queued, pc,
                 todo, mine, dropped>>

Delete ==
  /\ Live
  /\ Written(IF agent.finalizer THEN [agent EXCEPT !.deleting = TRUE] ELSE NoAgent)
  /\ UNCHANGED <<secret, faults, edits, seen, uids, resources, queued, pc, todo, mine, dropped>>

DeleteServiceAccount ==
  /\ Edit /\ res["sa"] # 0 /\ Own("sa", 0)
  /\ UNCHANGED <<secret, faults, agent, seen, synced, uids, view, pass>>

SecretChanges ==
  /\ Edit /\ secret' = ~secret
  /\ UNCHANGED <<cluster, pass, faults>>

\* updateAgentMetrics: reads the cache, adds the cost, writes the status; the cost
\* of a step is lost when the cache was behind.
UpdateMetrics ==
  /\ agent # NoAgent /\ synced /\ agent.cost < MaxCost
  /\ Written([agent EXCEPT !.cost = @ + 1])
  /\ UNCHANGED <<secret, faults, edits, seen, uids, resources, queued, pc, todo, mine, dropped>>

Others ==
  \/ \E spec \in Specs : Create(spec)
  \/ \E spec \in Changes : Update(spec)
  \/ Delete \/ DeleteServiceAccount \/ SecretChanges \/ UpdateMetrics

Next ==
  \/ Pass
  \/ SyncAgent
  \/ \E r \in Resource : SyncResource(r) \/ Collect(r)
  \/ Others

Spec == Init /\ [][Next]_vars

\* The controllers, the caches and the garbage collector keep going; nobody has to
\* create, edit or delete anything, and no workflow has to run.
FairSpec ==
  /\ Spec
  /\ WF_vars(Pass) /\ WF_vars(SyncAgent)
  /\ \A r \in Resource : WF_vars(SyncResource(r)) /\ WF_vars(Collect(r))

-----------------------------------------------------------------------------
(* Properties.                                                             *)

\* The controller works on an Agent, and a deleted Agent waits, only with the finalizer.
Consistent(a) ==
  a # NoAgent => /\ a.phase # "" \/ a.deleting => a.finalizer
                 /\ a.phase = "Terminated" => a.deleting

\* The variables have their types.
TypeOK ==
  /\ agent \in Agent \cup {NoAgent} /\ seen \in Agent \cup {NoAgent}
  /\ mine \in Agent \cup {NoAgent}
  /\ Consistent(agent) /\ Consistent(seen) /\ Consistent(mine)
  /\ synced \in BOOLEAN /\ current \in BOOLEAN /\ queued \in BOOLEAN /\ dropped \in BOOLEAN
  /\ uids \in 0 .. MaxUid
  /\ res \in [Resource -> 0 .. MaxUid] /\ view \subseteq Resource
  /\ pc \in {"idle", "finalizer", "ensure", "error", "cleanup", "release"}
  /\ todo \in Seq(Resource)
  /\ secret \in BOOLEAN /\ faults \in 0 .. MaxFaults /\ edits \in 0 .. MaxEdits

\* Two controllers write the status of an Agent, each from a cache, and neither
\* undoes what the other wrote: the cost of an Agent never goes down.
CostNeverLost ==
  [][agent # NoAgent /\ agent' # NoAgent /\ agent'.uid = agent.uid
       => agent'.cost >= agent.cost]_vars

\* The first Agent of its name that is Ready has its Role and its RoleBinding.  (An
\* Agent created again under the name may be Ready without them: the caches may
\* still show what the cleanup removed, or the collector removes it later.)
ReadyHasAccess ==
  Live /\ agent.uid = 1 /\ agent.phase = "Ready" =>
    \A r \in Resource \ {"sa"} : res[r] # 0

\* The controller gets past the configuration and the finalizer.
Valid == Live /\ agent.spec.valid /\ (agent.finalizer \/ Admitted(agent))

\* A ServiceAccount that is lost comes back: deleted, taken by the cleanup or the
\* collector of an earlier Agent, or hidden by a cache that is behind.
ServiceAccountHeals == Valid ~> ~Valid \/ res["sa"] # 0

\* A cost above the limit is reported, unless the report got lost in a failure.
OverLimitReported ==
  Valid /\ OverLimit(agent) ~> ~(Valid /\ OverLimit(agent)) \/ agent.over \/ dropped
=============================================================================
