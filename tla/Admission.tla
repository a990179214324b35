----------------------------- MODULE Admission -----------------------------
(***************************************************************************)
(* The validating webhook for Workflows.  The API server calls it for each *)
(* creation and each update, so also for the updates by which the          *)
(* reconciler adds its finalizer, assigns the run id and, once the         *)
(* Workflow is deleted, takes the finalizer away.  A call checks the shape *)
(* of the steps, sorts them topologically (detectCycles), then looks at    *)
(* the Agents they name, which come and go, and at the remaining rules.    *)
(* The API server stores what the webhook allows.                          *)
(***************************************************************************)
EXTENDS Integers, Sequences, FiniteSets

CONSTANTS
  Requests,    \* the Workflows that may be submitted
  Name,        \* names a step can have or refer to
  NoName,      \* the empty name
  Agents,      \* Agents that may exist
  NoAgent,     \* no agentRef
  MaxSteps,    \* the code's limit, 50
  MaxFaults,   \* bound on Agents that cannot be read, or are deleted
  MaxEdits     \* bound on Agents created again

Step == [name : Name \cup {NoName},
         dependsOn : Seq(Name),
         agent : Agents \cup {NoAgent},
         typed : BOOLEAN,            \* the step has a type
         timeout : Int,              \* seconds; 0 when not set
         condition : {"none", "constant", "other", "steps"},
         refs : SUBSET Name]         \* the steps its variables refer to

Workflow == [steps : Seq(Step),
             edges : SUBSET (Name \X Name),
             timeout : Nat,          \* seconds; 0 when not set or not a duration
             failureStrategy : STRING]

ASSUME AdmissionAssumption ==
  /\ Requests \subseteq Workflow
  /\ NoName \notin Name
  /\ NoAgent \notin Agents
  /\ MaxSteps \in Nat /\ MaxFaults \in Nat /\ MaxEdits \in Nat

VARIABLES
  wf,         \* the Workflow submitted
  object,     \* its life at the API server
  agents,     \* the Agents that exist
  request,    \* the write the webhook is asked about
  pc,         \* where its call is
  inDegree,   \* detectCycles: dependencies not yet visited
  queue,      \* detectCycles: steps to visit
  visited,    \* detectCycles: how many were visited
  done,       \* the steps visited (history)
  verdict,    \* the last answer
  faults,     \* lost Agents and failed reads so far
  edits       \* Agents created again so far

sorting == <<inDegree, queue, visited, done>>
vars == <<wf, object, agents, request, pc, sorting, verdict, faults, edits>>

Fault == faults < MaxFaults /\ faults' = faults + 1
NoFault == faults' = faults

-----------------------------------------------------------------------------
(* The rules.                                                              *)

Index(w) == 1 .. Len(w.steps)
StepNames(w) == {w.steps[i].name : i \in Index(w)}

\* WF-001, WF-008.
Sized(w) == Len(w.steps) \in 1 .. MaxSteps

\* WF-002, and an agentRef or a type.
Named(w) ==
  /\ \A i \in Index(w) : /\ w.steps[i].name # NoName
                         /\ w.steps[i].agent # NoAgent \/ w.steps[i].typed
  /\ \A i, j \in Index(w) : w.steps[i].name = w.steps[j].name => i = j

DependsOn(w, i) == {w.steps[i].dependsOn[k] : k \in DOMAIN w.steps[i].dependsOn}

\* WF-003, and the edges.
Referring(w) ==
  /\ \A i \in Index(w) : DependsOn(w, i) \subseteq StepNames(w) \ {w.steps[i].name}
  /\ \A e \in w.edges : {e[1], e[2]} \subseteq StepNames(w)

\* WF-006: the first step that outlasts the workflow ends the validation.
Outlasts(w) ==
  w.timeout > 0 /\ \E i \in Index(w) : w.steps[i].timeout > w.timeout

\* WF-007, WF-009, the step timeouts and the strategy.
Configured(w) ==
  /\ \A i \in Index(w) : /\ w.steps[i].condition # "other"
                         /\ w.steps[i].refs \subseteq StepNames(w)
                         /\ w.steps[i].timeout >= 0
  /\ w.failureStrategy \in {"", "failFast", "continueOnError", "rollback", "stop", "continue"}

WellFormed(w) == Sized(w) /\ Named(w) /\ Referring(w)

\* WF-005.
AgentsOf(w) == {w.steps[i].agent : i \in Index(w)} \ {NoAgent}

-----------------------------------------------------------------------------
(* What "no cycle" means: in every set of steps one depends on none of it. *)

StepOf(w, n) == CHOOSE i \in Index(w) : w.steps[i].name = n
Dependencies(w, n) == DependsOn(w, StepOf(w, n))

\* Steps that wait for each other.
Knot(w, C) ==
  /\ C # {} /\ C \subseteq StepNames(w)
  /\ \A n \in C : Dependencies(w, n) \cap C # {}

Acyclic(w) == \A C \in SUBSET StepNames(w) : ~Knot(w, C)

-----------------------------------------------------------------------------
(* The life of the object, and the writes that move it.                    *)

Life == {"absent", "stored", "held", "started", "deleting", "gone"}

From == [create |-> "absent", addFinalizer |-> "stored",
         assignRunID |-> "held", removeFinalizer |-> "deleting"]
To == [create |-> "stored", addFinalizer |-> "held",
       assignRunID |-> "started", removeFinalizer |-> "gone"]
Writes == {"create", "addFinalizer", "assignRunID", "removeFinalizer"}

Init ==
  /\ wf \in Requests
  /\ object = "absent" /\ agents = Agents
  /\ request = "none" /\ pc = "idle" /\ verdict = "none"
  /\ inDegree = [n \in StepNames(wf) |-> 0] /\ queue = {} /\ visited = 0 /\ done = {}
  /\ faults = 0 /\ edits = 0

\* The API server carries out what is allowed, on the version it was asked about.
Answer(v) ==
  /\ verdict' = v /\ pc' = "idle" /\ request' = "none"
  /\ object' = IF v # "denied" /\ object = From[request] THEN To[request] ELSE object

-----------------------------------------------------------------------------
(* One call of the webhook.                                                *)

\* The positions of n's dependency list that name a step of S.
Mentions(w, n, S) ==
  LET list == w.steps[StepOf(w, n)].dependsOn IN {k \in DOMAIN list : list[k] \in S}

Handle(kind) ==
  /\ pc = "idle" /\ object = From[kind]
  /\ request' = kind
  /\ pc' = "shape"
  /\ UNCHANGED <<wf, object, agents, sorting, verdict, faults, edits>>

\* Mutant: a dependency listed twice is counted up once.
CheckShapeOnce ==
  /\ pc = "shape"
  /\ IF WellFormed(wf)
     THEN /\ pc' = "sorting"
          /\ inDegree' = [n \in StepNames(wf) |-> Cardinality(Dependencies(wf, n))]
          /\ queue' = {n \in StepNames(wf) : inDegree'[n] = 0}
          /\ visited' = 0 /\ done' = {}
          /\ UNCHANGED <<object, request, verdict>>
     ELSE Answer("denied") /\ UNCHANGED sorting
  /\ UNCHANGED <<wf, agents, faults, edits>>

CheckShape ==
  /\ pc = "shape"
  /\ IF WellFormed(wf)
     THEN /\ pc' = "sorting"
          /\ inDegree' = [n \in StepNames(wf) |-> Len(wf.steps[StepOf(wf, n)].dependsOn)]
          /\ queue' = {n \in StepNames(wf) : inDegree'[n] = 0}
          /\ visited' = 0 /\ done' = {}
          /\ UNCHANGED <<object, request, verdict>>
     ELSE Answer("denied") /\ UNCHANGED sorting
  /\ UNCHANGED <<wf, agents, faults, edits>>

\* The queue starts in map order, so any step of it may be the next one.
\* Mutant: a dependency listed twice is counted down once.
VisitOnce(n) ==
  /\ pc = "sorting" /\ n \in queue
  /\ inDegree' = [m \in StepNames(wf) |->
                    inDegree[m] - (IF Mentions(wf, m, {n}) # {} THEN 1 ELSE 0)]
  /\ queue' = (queue \ {n}) \cup {m \in StepNames(wf) : inDegree[m] > 0 /\ inDegree'[m] = 0}
  /\ visited' = visited + 1 /\ done' = done \cup {n}
  /\ UNCHANGED <<wf, object, agents, request, pc, verdict, faults, edits>>

Visit(n) ==
  /\ pc = "sorting" /\ n \in queue
  /\ inDegree' = [m \in StepNames(wf) |-> inDegree[m] - Cardinality(Mentions(wf, m, {n}))]
  /\ queue' = (queue \ {n}) \cup {m \in StepNames(wf) : inDegree[m] > 0 /\ inDegree'[m] = 0}
  /\ visited' = visited + 1 /\ done' = done \cup {n}
  /\ UNCHANGED <<wf, object, agents, request, pc, verdict, faults, edits>>

\* Mutant: the count is not compared.
EndSortUnchecked ==
  /\ pc = "sorting" /\ queue = {}
  /\ pc' = "agents"
  /\ UNCHANGED <<wf, object, agents, request, sorting, verdict, faults, edits>>

EndSort ==
  /\ pc = "sorting" /\ queue = {}
  /\ IF visited # Len(wf.steps)
     THEN Answer("denied")
     ELSE pc' = "agents" /\ UNCHANGED <<object, request, verdict>>
  /\ UNCHANGED <<wf, agents, sorting, faults, edits>>

\* Mutant: an Agent that cannot be read is taken for a missing one.
CheckAgentsStrict ==
  /\ pc = "agents"
  /\ \/ NoFault /\ IF AgentsOf(wf) \subseteq agents
                   THEN pc' = "rules" /\ UNCHANGED <<object, request, verdict>>
                   ELSE Answer("denied")
     \/ Fault /\ Answer("denied")
  /\ UNCHANGED <<wf, agents, sorting, edits>>

\* Mutant: the Agents of other Workflows are asked for as well.
CheckAgentsAll ==
  /\ pc = "agents"
  /\ \/ NoFault /\ IF agents = Agents
                   THEN pc' = "rules" /\ UNCHANGED <<object, request, verdict>>
                   ELSE Answer("denied")
     \/ Fault /\ pc' = "rules" /\ UNCHANGED <<object, request, verdict>>
  /\ UNCHANGED <<wf, agents, sorting, edits>>

\* An Agent that cannot be read for another reason than being absent passes.
CheckAgents ==
  /\ pc = "agents"
  /\ \/ NoFault /\ IF AgentsOf(wf) \subseteq agents
                   THEN pc' = "rules" /\ UNCHANGED <<object, request, verdict>>
                   ELSE Answer("denied")
     \/ Fault /\ pc' = "rules" /\ UNCHANGED <<object, request, verdict>>
  /\ UNCHANGED <<wf, agents, sorting, edits>>

CheckRules ==
  /\ pc = "rules"
  /\ Answer(IF Outlasts(wf) THEN "warned" ELSE IF Configured(wf) THEN "allowed" ELSE "denied")
  /\ UNCHANGED <<wf, agents, sorting, faults, edits>>

-----------------------------------------------------------------------------
(* Users.                                                                  *)

Delete ==
  /\ object \in {"stored", "held", "started"}
  /\ object' = IF object = "stored" THEN "gone" ELSE "deleting"
  /\ UNCHANGED <<wf, agents, request, pc, sorting, verdict, faults, edits>>

AgentDeleted(a) ==
  /\ Fault /\ a \in agents
  /\ agents' = agents \ {a}
  /\ UNCHANGED <<wf, object, request, pc, sorting, verdict, edits>>

AgentCreated(a) ==
  /\ edits < MaxEdits /\ edits' = edits + 1
  /\ a \in Agents \ agents
  /\ agents' = agents \cup {a}
  /\ UNCHANGED <<wf, object, request, pc, sorting, verdict, faults>>

Call == CheckShape \/ (\E n \in StepNames(wf) : Visit(n)) \/ EndSort \/ CheckAgents \/ CheckRules

Next ==
  \/ \E kind \in Writes : Handle(kind)
  \/ Call
  \/ Delete
  \/ \E a \in Agents : AgentDeleted(a) \/ AgentCreated(a)

Spec == Init /\ [][Next]_vars

\* The reconciler repeats a write that was refused; a call of the webhook ends.
\* Nobody has to create, delete or restore anything.
FairSpec ==
  /\ Spec
  /\ WF_vars(Call)
  /\ \A kind \in Writes \ {"create"} : WF_vars(Handle(kind))

-----------------------------------------------------------------------------
(* Properties.                                                             *)

\* The variables have their types; detectCycles never counts below zero.
TypeOK ==
  /\ wf \in Requests /\ object \in Life /\ agents \subseteq Agents
  /\ request \in Writes \cup {"none"}
  /\ pc \in {"idle", "shape", "sorting", "agents", "rules"}
  /\ inDegree \in [StepNames(wf) -> Nat]
  /\ queue \subseteq StepNames(wf) /\ visited \in Nat /\ done \subseteq StepNames(wf)
  /\ verdict \in {"none", "denied", "warned", "allowed"}
  /\ faults \in 0 .. MaxFaults /\ edits \in 0 .. MaxEdits

\* detectCycles is exact: when its queue is empty it has visited every step
\* if and only if no steps wait for each other, in whatever order it went.
DetectCyclesExact ==
  pc = "sorting" /\ queue = {} => (visited = Len(wf.steps) <=> Acyclic(wf))

\* What is stored has distinct, resolved steps that can all be executed in
\* some order, and obeys the other rules unless WF-006 cut the validation short.
StoredIsSound ==
  object # "absent" => /\ WellFormed(wf) /\ Acyclic(wf)
                       /\ Outlasts(wf) \/ Configured(wf)

\* The updates of the reconciler are refused for nothing but a missing Agent.
OnlyMissingAgentsBlock ==
  [][object # "absent" /\ pc # "idle" /\ pc' = "idle" /\ verdict' = "denied"
       => ~(AgentsOf(wf) \subseteq agents)]_vars

\* A deleted Workflow goes away, if the Agents it names are there for good: while
\* one is missing the webhook denies the removal of the finalizer.
DeletedGoesAway ==
  <>[](AgentsOf(wf) \subseteq agents) => (object = "deleting" ~> object = "gone")
=============================================================================
