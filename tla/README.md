# Purko: a verification companion

TLA+ modules that model the core of Purko (the operator that runs AI-agent
workflows on Kubernetes), TLC configurations that check them on small
instances, and TLAPS proofs that hold for every instance.  The reference is the
code; every definition in these modules names in `PROJECT.json` the lines it
models.

## The system

Purko is a set of Kubernetes controllers, two front ends, two embedded stores,
and the executor that runs in the pod of every step.  Controllers and front ends
do not call one another: they meet in objects at the API server, which they read
through informer caches and write with optimistic concurrency (a write computed
from an old version is refused).  The stores, the registry and the cron table live
in the operator's process.

| component | state it keeps | operations | hard behaviour |
|---|---|---|---|
| workflow reconciler (`controllers/workflow_controller.go`, `condition.go`, `job_builder.go`) | `Workflow.status`, one Job per step, the `<workflow>-outputs` ConfigMap | one pass of `Reconcile`: cancellation, timeout, concurrency policy, run-id, synchronising Jobs, retry, failFast, rollback, completion, starting steps | stale caches, refused status writes after Jobs were changed, retries under the same Job name, a rollback in several passes |
| executor (`executor/executor.py`) | the conversation with the model, counters of tool calls and cost | connect to MCP servers, call the model, check and execute the tools it requests, exit | a model that requests anything, tool calls that fail after they took effect, limits inside a response |
| agent controller | Agent status, a ServiceAccount, a Role and a RoleBinding | reconcile, finalizer, clean-up | a second writer of the status, a name used again while the caches still show what the first owned |
| MCP server controller and registry (`mcpserver_controller.go`, `pkg/registry`) | Deployment, Service, the shared `mcp-servers` ConfigMap; an in-memory table of servers and tools | reconcile, delete, periodic `Sync` | several writers of one ConfigMap; a sync that replaces the table under its readers |
| LLM and memory provider controllers | a phase, a condition | one probe, one write, again after an interval | nothing tells them of a change |
| memory store (`pkg/memory`) | SQLite rows, recall log | learn, recall, retain, forget, legacy import | cap and age eviction by text timestamps |
| run history (`pkg/history`, `workflow_history.go`) | SQLite rows per run, step, tool call | upsert, retention | repeats after a refused status write |
| dashboard (`dashboard/server.go`) | none of its own | approve, deny, rerun, create, delete | a denial writes the status the reconciler writes, in any phase of the run; a rerun is delete, sleep, create |
| scheduler (`dashboard/scheduler.go`) | cron table | sync with the templates, trigger | a table entry older than its template |
| purkoctl (`cmd/purkoctl`) | none | cancel, approve, deny, rerun, trigger | a rerun is two writes |
| webhook (`webhooks/`) | none | validate, `detectCycles` | it is asked about the reconciler's own updates, long after the creation |
| licensing, metrics, `cmd/operator` | constants, gauges | wiring | a gauge incremented again after a refused write |

What makes each correct:

* workflow reconciler: order of dependencies, retries counted up to the budget, finality
  of an ended run, honest counters and final phase, every run ends, a rollback
  that begins ends;
* executor: the guardrails hold whatever the model requests, every request is
  answered, the cost limit stops it, it ends;
* run control (purkoctl, dashboard): a decision applies to the step and the run
  it was made for; a rerun starts from nothing;
* concurrency policy: the runs of a template are active together only as far as
  its policy allows, and none waits for ever;
* agents: Ready means the roles are there, a cost is never undone;
* registry: the ConfigMap holds exactly the live servers, the table follows it;
* stores: caps hold, a repeat changes nothing;
* scheduler: the table settles on the templates that keep a schedule it understands;
* webhook: accepts exactly the acyclic step graphs, and does not stand in the
  way of the reconciler.

`PROJECT.json` lists every component with its status, and under `hazards` what
in this code is hard to test, at the line where it bites.

## Plan

The modules, in the order in which they build on each other:

1. `StepScheduling`, `WorkflowController`, `WorkflowLifecycle` – a run: what a
   pass computes, the reconciler in its world, the abstract life it refines.
2. `RunArchive` – 1 composed with the execution history that each pass writes.
3. `WorkflowRuns` – several runs of one template: the life of the Workflow object,
   concurrency policy, purkoctl and dashboard.
4. `Admission`, `AgentController`, `McpRegistry`, `MemoryStore`, `Executor` – the
   other parts that keep state.
5. `Scheduler`, `ProviderControllers`, composed in `Operator` – what is driven
   by time alone.
6. Proofs, a module for each component: `WorkflowController_proofs`,
   `RunArchive_proofs`, `WorkflowRuns_proofs`, `Admission_proofs`,
   `AgentController_proofs`, `McpRegistry_proofs`, `MemoryStore_proofs`,
   `Executor_proofs`.

Every safety property of the passing runs is a theorem.  What could come next, in
this order: an abstract set of live servers that `McpRegistry` implements, step by
step; the same for the table of `Scheduler`; the safety part of `Offered`, that
what is offered was listed when it was asked.

## What is modelled

### StepScheduling: the computations of a pass

Steps are positions in `spec.steps`; the step statuses, and the map from steps
to Jobs, are functions over them.  `JobMaps` are the maps that
`getWorkflowJobs` may build (a step's run Job and rollback Job carry the same
label, and the later one in the list wins).  `Adopted`, `Completing`,
`Retrying`, `GivingUp` and `SyncedStatus` are the loop over the Jobs;
`LostWrites` is its one undefined outcome: `ensureStepStatus` appends to a slice
that the deep copy made exactly full, so it moves, and updates through pointers
taken before are lost – which of them depends on the random order in which the
map is visited.  `FindExecutableSteps`, `Outcome`, `Visited`, `StartedStatus`
are the start loop; `CompletionPhase`, `Skipping`, `RollingBackSteps`,
`RollbackProgress` and `ForcedSteps` the ends.

### WorkflowController: the reconciler in its world

| variable | in the code |
|---|---|
| `wf`, `jobs`, `outputs` | the Workflow, its Jobs by step and kind, the keys of the outputs ConfigMap, as the API server has them |
| `wfView`, `jobView`, `outputsView` | the same in the reconciler's informer caches |
| `expired`, `agents` | the run is older than its timeout; all referenced Agents exist |
| `faults` | requests refused or lost so far |
| `ranOK`, `ranBad`, `overruled`, `skewed` | history, which no pass reads: the steps that really ran well, how often each failed, the steps the dashboard has failed by hand, whether a step and the count it belongs to have ever parted (by an update lost to the moved slice, or by the dashboard) |

One pass of `Reconcile` is one action per exit: `AssignRunID`, `CancelRun`,
`TimeoutRun`, `MissAgent`, `StopOnFailure`, `EnterRollback`, `Finish`,
`StartSteps`, `WatchRollback`.  A pass reads only the caches, changes Jobs and
outputs at the server, and ends with one status write, which `WriteStatus`
refuses when `wfView` is not the latest Workflow, when the CRD does not admit
the phase, or when it suffers a `Mishap` (a lost write is also a crash before
it).  Taking a pass as one step loses nothing for the status: a change made by
others during the pass makes the write fail exactly as if the cache had been
stale.  The caches catch up by actions of their own, in any order.  The rest of
the world starts, ends and reaps Jobs, lets time pass, deletes Agents, cancels,
approves and denies.

purkoctl and the dashboard approve alike, by an annotation, but do not deny
alike.  `RunWorkflowDeny` writes the annotation `denied`, which the reconciler
reads.  `handleDenyStep` writes the status itself: the step becomes `Failed` and
the count of failures goes up, from the latest copy and whatever the phase of
the run and of the step.  It is a second writer of the status, whom the
reconciler learns about through its cache.  `Overrulable` bounds the steps it
may deny, each once.

### WorkflowLifecycle: what a reader of the status may rely on

Two variables, the phase of the run and of each step.  A step moves among its
open phases or becomes done; a done step stays as it is unless a rollback takes
a success back, and once a rollback has begun nothing moves forward.  `FailByHand` is
the one step outside this order: the dashboard fails any step at any time.
`WorkflowController!Lifecycle` substitutes the status for them.

### RunArchive: what each pass leaves in the history

| variable | in the code |
|---|---|
| `run` | the row of the run in `workflow_runs`: its phase |
| `executions` | the rows of `step_executions`, by step and retry |
| `audited` | the executions with rows in `tool_calls` |

Each exit of a pass is the reconciler's action together with the history writes
of that exit (`ArchivedStop`, `ArchivedSync`), so no pass can leave its writes
out.  `SavePending` comes before anything is done, `SaveExecutions` while Jobs
are synchronised, `Mirror` only after the status write was accepted; `kept` are
those that the database took.  `DeleteOlderThan` may come at any time: it looks
at the age of a row, not at the phase of the run.  The archive adds steps and
never changes the reconciler's, which is the theorem `ArchiveImplements`.

### WorkflowRuns: several runs of one template

| variable | in the code |
|---|---|
| `run`, `view`, `fresh` | the Workflows at the API server and in the cache; `fresh`: whose resource version is the latest |
| `policy` | `spec.concurrency.policy` |
| `jobs`, `jobView` | Jobs by the *name* of their run, and the uid of their owner |
| `midway`, `redo` | a rerun of purkoctl between its two writes; of the dashboard between deletion and creation |
| `blind`, `ran` | history |

A run has one step: what happens inside a larger one is `WorkflowController`'s.
`Replaced` shows the "replace" policy writing other runs from the copies of the
list, with the same optimistic concurrency as its own.  Names are used at most
twice, and a Job is listed by name only, so the Job of a deleted run may be
adopted by its successor.  purkoctl repeats a run in two writes, `ResetStatus` and
`ClearAnnotations`; `runWorkflowRerun` does so only for a run that has ended,
`triggerRerun` without a look at the phase, and `Commands` says which of the two
an instance has.  `Restart` is a crash of the operator, which hosts the
dashboard: a rerun of the dashboard that sleeps is forgotten.

### Admission: the webhook among the reconciler's writes

`Handle(kind)` starts a call for one of four writes of a Workflow (its creation,
the finalizer, the run-id, the removal of the finalizer); `CheckShape`, then
`Visit` (one pop of the queue of `detectCycles`, whose order is the random order
of a Go map), `EndSort`, `CheckAgents` and `CheckRules` follow the code, and
`Answer` stores what is allowed.  `Acyclic` is the definition it is checked
against: no set of steps in which each depends on one of the set.  `Outlasts` is
WF-006, whose first warning ends the validation and skips the rules after it.

### AgentController: one Agent name

| variable | in the code |
|---|---|
| `agent`, `seen`, `synced` | the Agent at the server and in the cache; whether they are the same version |
| `res`, `view`, `events` | the ServiceAccount, Role and RoleBinding by owner; in the caches; with events not yet seen |
| `queued`, `pc`, `todo`, `mine`, `current` | the work queue, and the pass under way with its copy |
| `secret` | the Secret that AG-003 asks for |

A pass is several steps, because its writes are: each resource, the status, the
finalizer.  The other writers are the dashboard, purkoctl, the garbage collector
and `UpdateMetrics`, by which the workflow reconciler adds a step's cost.

### MemoryStore: what agents remember

`StartStep` is the import of a legacy memory, the recall and its log;
`CompleteStep` is Learn then Retain.  Both run with one `Mishap`, a call that
fails and is only logged.  Times are compared as the store compares them, as
RFC3339Nano texts: `TextPrecedes` places `:05.1` before `:05`, because the text
drops trailing zeros and `Z` comes after the digits, so within a second the
newest may be evicted.  `resolveMemoryRetention` is the cap of the agent's provider,
or `DefaultEntries` when the list of providers fails (one of the mishaps) or
names none; `allowed` remembers per scope the cap last applied and what was
stored since.  The ranking of a recall is any order.

### Scheduler, ProviderControllers, Operator: what only time drives

`SyncTable` is a pass over the templates in the cache; an entry that is there
stays, whatever its cron expression was, and an expression that does not parse
(outside `Parses`) gets none: the error of `AddFunc` skips the template.  A pass whose
list fails is no pass.  An entry that fires while the cached
template has lost its trigger dereferences nil and takes the process down:
`Operator!Restart` is that crash, after which the table is empty and every
provider is due.  `Report` sets the `CredentialsValid` condition and never unsets
it.

### McpRegistry: a list with two writers

| variable | in the code |
|---|---|
| `cr`, `crView` | the MCPServers (finalizer, deletion, phase) at the API server and in the cache |
| `cm`, `cmView` | the `mcp-servers` ConfigMap: whether its list is YAML, and the names in it |
| `table` | the registry's servers, and those of them that answered with tools |
| `syncing` | for each goroutine in `Sync`, the list it has read and is asking about |

`Reconcile(s)` is one pass of `MCPServerReconciler`, by its exits:
`AddFinalizer`, `CleanUp` (the error of the list's write is dropped, and the
finalizer with it), `DeployFails`, `Register` (Ready whether or not the write
was accepted).  `Connect`, `Disconnect`, `CreateServer` and `DeleteServer` are
the dashboard's handlers.  Both writers parse the list with `json.Unmarshal` and
drop its error: `Parsed` is empty when the list is YAML.  A `Sync` is two steps,
`ReadList` and `Publish`, because it asks the servers over the network between
them and takes the lock only to publish; a list that cannot be read empties the
table at once (`ReadFails`).  A name may be both deployed and connected by URL.

A write is refused when the cached list is not equal to the server's.  The code
compares versions, so it also refuses where the list has changed and changed
back; what such a write would store is what it stores in the model, so nothing
is hidden by it.

### Executor: one step's program

| variable | in the code |
|---|---|
| `env` | `AUTONOMY_LEVEL` and `MODEL_API_FORMAT`, of any value |
| `phase` | where the thread is: `connecting`, `calling` the model, `dispatching` its requests, `routing` one, `held` by an answer that does not end, `done` |
| `clients` | `all_mcp_clients`, with the tools each listed – none when `list_tools` failed after `initialize`; `Owner` reads `tool_to_client` off it (the last server that lists a tool) |
| `iteration`, `count`, `spent` | the loop's variable, `tool_call_count`, `total_cost_usd` |
| `batch`, `position`, `answered` | the requests of the last response, the one at hand, those with a result in the messages |
| `trying` | the servers `execute_tool` has still to ask |
| `ran`, `calls`, `outcome` | history: the requests executed, and how often the one at hand was sent out; how the loop ended, `killed` by the deadline included |

The actions follow the code's blocks: `ConnectServer`, `CallModel` (which
charges the cost before it looks at the response), `CallFails`, `RefuseRequest`
(over the limit or blocked), `RunInProcess`, `RouteTool` and `CallTool` (the
owner, then every client), `NoServerLeft`, `NextIteration`.  A request has a timeout,
but it bounds only the gap between bytes of an answer that is streamed:
`AnswerNeverEnds` holds the thread in any request, and `DeadlineExceeded` is the
`activeDeadlineSeconds` of the Job, which may also end a program that makes
progress.  The model is
unconstrained: it requests any tool, offered or not, so that filtering its
definitions has no effect here and only the check at run time counts.

## What is checked

| run | instance | shows |
|---|---|---|
| `archive` | two chained steps under failFast, one retry, a deleted Agent, one lost status write, any one history write of a pass lost | `ArchiveTypeOK`; `ArchiveIsTrue`; `NoOrphans`; `RetryBudget` |
| `wf_continue` | two roots, one with an approval, and a join without an agent that has a condition on both; parallelism 1; continueOnError; approve, deny, the dashboard's denial of a root, timeout, reaped Jobs, one fault, updates lost to the moved slice; fair | `CountersTrue`; `CompletedOnce`; `Termination` |
| `wf_rollback` | a chain of two under the rollback strategy, a CRD that admits RollingBack, cancel, a deleted Agent, the dashboard's denial of the first step, one fault; fair | `DependencyOrder`; `OnlyDoneIsUndone`; `RollbackEnds`; `LifecycleSpec` (refinement); `TerminalIsFinal` |
| `runs` | two runs under forbid or replace, one user action, names used twice, restarts; fair | `PolicyKept`; `EndedStaysEnded`; `BlockedRunStarts`; `NothingLeftBehind` |
| `admission` | 343 graphs of three steps and 16 odd Workflows, two Agents, one fault, one Agent created again; fair | `TypeOK`; `DetectCyclesExact`; `StoredIsSound`; `OnlyMissingAgentsBlock`; `DeletedGoesAway` |
| `agents` | an Agent name used twice, with the webhook, a ServiceAccount and a Role, cost up to 2 against a limit of 1 that an edit may raise, one fault, one edit; fair | `TypeOK`; `ReadyHasAccess`; `CostNeverLost`; `ServiceAccountHeals`; `OverLimitReported` |
| `memory` | four agents in two kinds of pool, one legacy memory, caps of 1 and 3 and none given, a default of 2, three memories, fractions of a second, one failure | `CapKept`; `PoolsKeptApart`; `BudgetKept`; `ImportedOnce`; `OldestGo` |
| `operator` | three cron expressions, one of which does not parse, two edits; an LLM and a memory provider, two changes, one fault; fair | `ScheduleFollows`; `ProvidersFollow` |
| `mcp_registry` | two MCPServers, one remote server, two goroutines that Sync, three user actions, one fault, the list in JSON; fair | `OnlyOwnEntry`; `NoneListedGone`; `Offered` |
| `exec_guardrails` | four tools (one writes, one is in the process, one nobody lists), two servers, limit 2, two requests per response, every autonomy and format, an answer that never ends; fair | `WithinGuardrails`; `AllAnswered`; `StopsAtCost`; `Ends` |

Two runs find what a document or comment of the repository denies:

| run | the repository says | the code does |
|---|---|---|
| `wf_bad_rollback` | a rejected status write must requeue, not strand the workflow | the shipped CRD does not admit `RollingBack`, and the error of that write is dropped: rollback Jobs run while the status stays `Running` |
| `runs_bad_rerun` | `purkoctl workflow rerun`: "Re-run a completed or failed workflow" | on a run that has ended the run-id and the Jobs are kept, so the finished Job of the old run is adopted and the run succeeds without running |

Some of the properties are conditional, and the condition is the point:
`PolicyKept` allows one run more for each active run that began while the cache
hid another (`blind`), `CapKept` what was stored since the last successful
`Retain`, whose cap may be the default, `OldestGo` what a trimmed fraction of a
second takes for newer, `RetryBudget` bounds the counter and not the Jobs,
`CountersTrue` lets plain `Succeeded` hide a step only after a lost update or a
denial at the dashboard, `TerminalIsFinal` and `DependencyOrder` leave what the
dashboard failed by hand aside, `WithinGuardrails` speaks of the list `WRITE_TOOLS`
and not of what writes, `ScheduleFollows` of a schedule that parses and of the
entry's presence, `ProvidersFollow` of the Secret and not of the provider,
`ImportedOnce` a mark that was lost or not yet seen, `ReadyHasAccess`
speaks of the first Agent of a name, `ArchiveIsTrue` speaks of executions outside
the rollback strategy, where a lost status write lets a rollback Job end in place
of its step, and `DeletedGoesAway` needs the Agents to be there for good.

**Other divergences read while modelling.**  The models have these behaviours; no
property asserts the opposite.

* `parallelism` is compared with the Jobs whose pod is active in the cache, so a
  pass before the last Jobs are active starts as many again
  (`workflow_controller.go:539`; `concepts/workflows.md:48` says "at most two steps
  run at any given time").
* A step denied by purkoctl is `Failed` but not counted, so failFast does not see it, other
  steps start, and the run waits for its timeout (`workflow_controller.go:605`;
  `concepts/workflows.md:123`).
* A skipped dependency counts as a completed one, so its dependents run
  (`workflow_controller.go:718`; `concepts/workflows.md:95` says "downstream steps
  that depend only on it are also skipped").
* An output is read back through the cache by the pass that stored it, and one
  that is not there yet is taken for a condition that is not met: the step is
  skipped (`workflow_controller.go:531`, 1104; `condition.go:18`).
* The removal of an entry may be refused for an old copy of the list, its error is
  dropped, and the finalizer goes all the same: the entry of a server that is gone
  stays (`mcpserver_controller.go:361`; `architecture/controllers.md:249` "remove
  all three resources atomically").
* A tool whose owner returned an error, a timeout or nothing is asked of its
  owner again and then of the others (`executor.py:1215`; `tool-types.md:162`
  "try all clients on cache miss").
* An update lost to a moved slice is counted again by the next pass, so a run can
  succeed before its last step ran (`workflow_controller.go:270`;
  `concepts/workflows.md:189` "All steps completed successfully").  `skewed` marks
  such runs; without it `SuccessIsWhole` is violated in `wf_continue`.
* The dashboard's denial writes the status of any run, even one that has ended:
  a run shown as `Succeeded` then has a failed step (`dashboard/server.go:1495`;
  `workflow_controller.go:1386` "A run with failed steps never presents as plain
  'Succeeded'").  A step that ran on may be counted twice.
* `maxRetries` bounds the counter in the status.  A pass that replaces a failed Job
  and whose status write is refused has run the step once more than the counter
  says (`workflow_controller.go:322`; `concepts/workflows.md:165` "How many times to
  retry a failed step").
* The backoff before a retry is never applied: the code compares a completion
  time that a running step does not have (`workflow_controller.go:325`).
* A retry may be given up because the cache still shows the failed Job of the
  attempt before (`StepScheduling!Retrying` over a stale `jobView`).
* A list of MCP servers edited by hand in YAML, as it is shipped, is parsed as
  JSON, taken as empty and erased (`mcpserver_controller.go:301`).
* A changed cron expression is ignored while the entry exists
  (`scheduler.go:100`; the comment at 46 says "new/changed workflow triggers").
* A cron expression that does not parse never gets an entry, no webhook looks at
  it, and nobody is told (`scheduler.go:110`).
* The policies are documented as `Forbid` and `Replace` (`crd-workflow.md:166`; in lower
  case in `concepts/workflows.md:205`), and matched in lower case only
  (`workflow_controller.go:1322`).
* The LLM provider controller looks at the Secret and never asks the provider's
  API, so a provider whose key is refused stays Ready
  (`llmprovider_controller.go:36`; `concepts/llm-providers.md:86` "sends a lightweight
  probe to the provider API", `architecture/controllers.md:263`,
  `crd-llmprovider.md:129`).
* Restricted autonomy blocks the names on a fixed list: a tool that triggers a
  workflow, an API tool that posts, and a write tool of an MCP server that is not
  on the list run (`executor.py:913`, 670-681; `concepts/shu-ha-ri.md:22` "It can only
  call read-only tools", `concepts/tool-types.md:176`).
* A loop that uses up its iterations while the model still requests tools ends as
  completed, with exit code 0 (`executor.py:939`, 1388-1397).
* A cap above 500 is not kept when the list of memory providers fails: the
  scope is cut to the default (`controllers/memory.go:91`).
* Within one second the newest memory may be evicted, because its text drops
  trailing zeros (`pkg/memory/store.go:455`; the comment at 446 says "keeps the
  newest maxEntries rows", and `store_test.go:383` asks for them).
* WF-006 returns at its first warning and skips the rules after it
  (`validating_webhook.go:311`); WF-010 is documented and not implemented.
* A recall that finds nothing leaves the log row of an earlier attempt
  (`controllers/memory.go:137`).
* The clean-up of the history removes the rows of a run that still runs once they
  are old enough (`pkg/history/store.go:534`).

**Bounds.**  `NumSteps` ≤ 3: two steps are enough for a dependency, an
adoption next to an update and a rollback of one step while another fails; the
third joins two roots.  `Parallelism` = 1 in `wf_continue` makes a pass adopt one
Job beside the update of another, which is where an update is lost: a run then
succeeds with its third step never run, as TLC shows when `skewed` is ignored.
`Overrulable` is one step, a root or the first of a chain: the dashboard fails it
before, while and after its Job runs, and after the run has ended.
`MaxRetries` ≤ 1 reaches both sides of the limit.  `MaxFaults` = 1: a second
lost request finds the system in the state one stale cache already produces.
`ranBad` stops counting above `MaxRetries[s]`.  The rollback runs use two steps
because a third takes the graph to 740 000 states, too many for liveness.

`WorkflowRuns`: two runs are one that holds back and one that is held back;
`MaxActs` = 1 puts each way of ending or repeating a run against the policy;
a uid of 2 lets a name come back once, which is how a Job meets a successor.
`forbid` is `allow` with a limit of one, so only forbid and replace are run.

`Admission`: three steps hold every kind of cycle (a pair, a triangle, a step
behind a cycle), and lists of up to two entries repeat a dependency; the
theorems cover every size.  `AgentController`: two uids are an Agent and its
successor; the Role stands for the RoleBinding, which is created, read and
removed by the same code.  `MemoryStore`: three memories against a cap of one
evict twice, and once within a second; the caps lie below and above the
default of two, so a failed list of providers shows in both directions.  `Operator`: two edits take a schedule
away and bring it, or another, back, with an expression that parses and one that
does not.

`McpRegistry`: two servers and a remote one let each writer displace an entry
of the other kind and of its own; the ConfigMap exists at first or does not; two
goroutines let an old list be published after a new one; three edits allow
deploy, delete and connect in one behaviour; one fault is a write lost at the
worst moment.

`Executor`: two requests per response and a limit of two put the limit inside
a response, at its end, and between responses; costs of 0 and 1 against a limit
of 2 reach it exactly and exceed it; two servers that list the same tool make
ownership, fallback and exhaustion differ.

**Fairness.**  A pass is requeued every 5 s, the caches are fed by watches, a
created pod starts, a pod ends (`activeDeadlineSeconds`), and time passes: weak
fairness of each.  `JobStarts` and `JobEnds` are fair per Job, with either
outcome.  No user is fair: nobody has to approve, deny, cancel, create, edit or
delete.  Termination therefore rests on the timeout whenever a step waits for
approval, its Job has vanished, or a dependency was denied.  One exit asks for no
requeue: a missing Agent ends the pass at once, and when its status write is
refused only the informer's periodic resync brings the next pass; the fairness of
`Reconcile` counts on it.

In `WorkflowRuns` the caches, each run's passes, its timeout and the garbage
collector are fair; no Job has to end.  In `Admission` a call of the webhook ends
and a refused write is repeated (the work queue's backoff).  In
`AgentController` the passes, the caches and the garbage collector are fair, and
nothing brings back a pass that ended without error, unless an event does: that
is what `ServiceAccountHeals` and `OverLimitReported` test.  In `Operator` the
table is looked at every 30 seconds and a due provider is reconciled.  In
`McpRegistry` a pass is requeued (5 minutes, 30 seconds after a failure), the
ticker starts a Sync every minute – by whichever goroutine, so only
`\E r : ReadList(r)` is fair – and a Sync that has started publishes, because
its requests time out.  `Executor` is one thread: weak fairness of its step, and of
`DeadlineExceeded` while an answer holds it, because the kubelet ends the pod of
a Job that has exceeded `activeDeadlineSeconds` (`job_builder.go:325`).  Nothing is
assumed of answers that are streamed.  `archive` and `memory` check safety only.

Deadlock is checked in the workflow runs, where a run that has ended takes the
step `Ended`, in `mcp_registry`, `exec_guardrails` and `memory`.  The others say
`CHECK_DEADLOCK FALSE`: a denied Workflow, an Agent that is gone, runs that have
ended and a table nobody edits really stop.

## What is proved

For the workflow modules, for every number of steps, graph, retry policy, CRD,
set of events and bound on faults that satisfies the two named assumptions
(`SchedulingAssumption`, `ControllerAssumption`: the constants have their types
and the strategy is one that the CRD admits):

* `TypeCorrect` – `TypeOK`.  One step per action; the lemmas about `SyncedSteps`,
  `StartLoop` and `OutputWrites` give the types of what a pass computes.
* `TerminalStays` – `TerminalIsFinal`: a pass never changes an ended run's status, and a
  user only by the dashboard's denial.  A pass writes only if the status it
  was computed from is the latest (`WriteStatus`), and no exit of a pass is
  enabled on a terminal one (`OnlyLiveIsWritten`); the other actions touch only
  annotations, or are that denial.  No invariant is needed, which is the point: the resource
  version alone protects an ended run.
* `RetriesWithinBudget` – `RetryBudget`, of the counter in the status.  The invariant adds that the cached
  Workflow satisfies the same bound step by step (`Within`), because a pass
  computes from the cache.
* `RefinesLifecycle` – `Spec => LifecycleSpec`, for both writers of the status.  The invariant `Forward` says of
  both copies that the phase is never `Pending` (it is set in memory and never
  persisted) and that `RollingBack` and `RolledBack` steps occur only in a run
  that is rolling back or has ended.  `NextWrites` reduces a step to "the
  status is unchanged, or is what one exit computes from the latest status";
  each exit then maps to `Advance`, `BeginRollback`, `UndoSteps` or a stutter, and the dashboard's
  denial maps to `FailByHand`.
* `DependenciesEnd` – under every strategy, a step has a Job only when each of
  its dependencies has completed, was skipped, needs no Job, was failed at the
  dashboard, or has failed where failures are passed over (`OrderKept`).  A pass decides from two caches, so
  the invariant `Sound` ties both to the history: a Job that has ended, at the
  server or in the cache, is in `ranOK` or `ranBad` (`Traced`); a success in
  either copy of the status was earned by a Job that completed (`Earned`); and
  what the cached status takes for settled, the latest one has not left again
  (`ViewSettled`).  `ReadyIsSettled` then says that what a pass takes for ready is
  settled, however old its caches are, and `SettledStays` that it remains so.
* `DependenciesFirst` – `DependencyOrder`, which also asks that a failed
  dependency has used up its retries, if failures are not passed over or nothing
  is retried.  Without the hypothesis it is false: a pass that retries a step
  deletes and creates the Job in one go, a cache that still shows the failed one
  lets the next pass count the failure again, and a dependent is started on it
  although the status write of that pass is refused.
* `UndoneWereDone` – `OnlyDoneIsUndone`.  A pass that enters a rollback chooses the
  steps by statuses it has just synchronised from cached Jobs, where a rollback
  Job carries the label of its step's run Job; what it takes for a success is
  still one, by the same `Traced` and `Earned`, which need no hypothesis here.
* `CountersStayTrue` – `CountersTrue`: its three parts `NeverUndercounted`,
  `SuccessIsWhole` and `FailureNeverHidden`.  The invariant `Counted` says of the latest
  status that `completed` is no less than the steps that succeeded or were
  skipped, and `failed` no less than those that failed undenied; a lost update
  leaves a step behind its counter and never the counter behind a step
  (`SyncedCounts`), and each step the start loop passes adds one (`StartCounts`).
  As long as they have not parted (`~skewed`) the counters are exact
  (`CountsOnce`), so a run that finishes has every step behind it
  (`FinishIsWhole`).
* `CompletesOnce` – `CompletedOnce`, if failures are passed over and nothing is
  retried.  The invariant `Once`: what has completed still has its Job, or has
  begun in the cached status, or the cached Workflow lets no pass get as far as
  the start loop; `Follows` carries all three to later copies.  Both hypotheses
  are needed: a failFast stop deletes Jobs by the cached statuses, and when its
  status write is refused the next pass may not see the failure again; a retry
  deletes by name whatever Job the step has by then.

For `RunArchive`, under the same assumptions, whatever writes of the history are
lost:

* `ArchiveImplements` – `ArchiveSpec => Spec`: every step of the composition is a
  step of the reconciler or none, so the theorems above hold of both.
* `ArchiveTyped`, `RowsHaveARun` – `ArchiveTypeOK` and `NoOrphans`, from the one
  invariant `ArchiveInv`: an execution is only saved beside a row of its run,
  tool calls only beside an execution saved in the same pass, and the clean-up
  takes all of them.
* `ArchiveTrue` – `ArchiveIsTrue`.  The row of an ended run was mirrored from an
  accepted write, and `TerminalStays` keeps that status; an execution is saved
  from what the cache of Jobs shows, and `Traced` says of the server's Jobs and
  of the cached ones that those that ended are in the history of the steps.

For `WorkflowRuns`, for every number of runs, names used twice, policy and number
of user actions (`RunsAssumption`: the constants have their types):

* `RunsTypeCorrect` – `TypeOK`, left to no run, with what a pass relies on: a run is active or has
  succeeded only once its run-id is stored, and a fresh copy is the latest.
* `EndedStays` – `EndedStaysEnded`.  `Moves` lists what a step may do to a run that
  is not its own; only the pass of a run begins it, and only from a fresh copy,
  which has not ended.
* `PolicyIsKept` – `PolicyKept`.  The invariant is `Cardinality(Sighted) <= Limit`: of
  the active runs, those that began in sight of the others are within the limit,
  because a run joins them only when the list it read had room, and that list
  hid no active run.

For `Admission`, for every set of Workflows and Agents (`AdmissionAssumption`: the
constants have their types, and the empty name and the missing agent are none):

* `CyclesExact` – `DetectCyclesExact`.  The invariant counts: a step's in-degree
  is the number of entries of its list that name a step not yet visited
  (`Counted`), the queue holds the unvisited steps at zero, and no step of a knot
  was ever visited.  When the queue is empty the unvisited steps are a knot.
* `TypeCorrect` – `TypeOK`, in-degrees never below zero among them, because an
  entry is counted down once, when the step it names is visited.
* `StoredSound` – `StoredIsSound`; `OnlyAgents` – `OnlyMissingAgentsBlock`, because
  what was stored once passes every rule but the Agents' again.

For `AgentController`, for every set of events, webhook or none, limit on the
cost and number of faults and edits (`AgentAssumption`: the constants have their
types):

* `AgentTypeCorrect` – `TypeOK`.  The invariant adds what the parts of a pass know
  of its copy (`PassSound`), and that a copy still current differs from the
  Agent in its status at most (`CopySound`).
* `CostsKept` – `CostNeverLost`.  `AgentSteps` says of every step that the Agent
  stays, goes, is created, or is written as the Agent it was with no less cost:
  the accepted write of a copy is of the last version, by `CopySound`.
* `ReadyHasRoles` – `ReadyHasAccess`.  The invariant `FirstSound` is about the time
  in which there has been one Agent of the name: neither cache nor pass knows
  of another, what the cache shows is there, and a pass among its resources
  has each of them behind it or still in its list.

For `McpRegistry`, for every set of servers and readers and every bound
(`RegistryAssumption`: the constants have their types, and no name is both an
MCPServer's and a remote server's):

* `RegistryTyped` – `TypeOK`, which is proved and left to no run.
* `NoEntryLost` – `OnlyOwnEntry`, if the installed list is JSON.  The invariant
  is `JSONList`: what is written is JSON, so the list remains JSON, and a write
  that is accepted was computed from the very list it replaces (`UpdateKeeps`,
  `RemoveKeeps`).  Without the hypothesis the theorem is false: a list in YAML is
  erased by the first write.
* `NoneListedWhenGone` – `NoneListedGone`, for a list in YAML too.  A pass works on a
  cached resource, so it might register a server after its deletion; the
  invariant `Held` bounds how old the copy can be: while it shows a finalizer and
  no deletion, the resource still has its finalizer, because that goes only in a
  pass whose copy shows the deletion.

For `Executor`, for every set of tools and servers and every limit
(`ExecutorAssumption`: the constants have their types):

* `ExecutorTyped` – `TypeOK`, with the bound on iterations; left to no run.
* `GuardrailsKept` – `WithinGuardrails`, which is `LimitKept`, `RepeatsBounded` and `Permitted`.
  The invariant adds
  `Len(ran) <= count`: an executed tool was counted, so being below the limit
  leaves room for one more.
* `RequestsAnswered` – `AllAnswered`.  The invariant `AnsweredSoFar` follows the
  dispatch of a response: the requests before the one at hand are answered, and
  no other.  The hypothesis on the format is needed, for the OpenAI path sends
  nothing for a refused request.
* `CostStops` – `StopsAtCost`, which is inductive.

For `MemoryStore`, for every cast of agents, every cap of an agent, default, budget, set of fractions
and number of failures (`MemoryAssumption`: the constants have their types, and
the fractions are in the order of time):

* `CapIsKept` – `CapKept`, and `OldestGoes` – `OldestGo`.  `TextIsLexicographic`
  shows that the text of a time is ordered by its digits with the Z after them,
  so the order is strict and total (`TextOrder`); memories of different instants
  therefore have different ranks (`RanksDiffer`), and keeping the ranks below the
  cap that was resolved keeps exactly that many (`CutToSize`), none older than what
  goes but for a fraction that is the beginning of the other's.  That
  the instants differ is the invariant's `Journal`: time moves on with each
  memory ever stored.
* `PoolsStayApart` – `PoolsKeptApart`.  The invariant says of each logged id that the
  memory of that id was written under the scope key of the step's agent, which
  stays true after the row is gone; `KeysArePools` reads the pool off the key.
* `ImportsOnce` – `ImportedOnce`.  The invariant `Marked`: an agent of which no mark was
  lost or overlooked has at most one import, and none unless it is marked.
* `BudgetIsKept` – `BudgetKept`.  `SizeOf` adds the lengths of memories by counting
  their units, so sums are cardinalities of unions and need no induction.
  `RecallWithinScope` takes what a recall returns as the longest beginning of the
  ranking that fits (`PackFits`), or its first memory alone; and the rows of the
  log keep their lengths, because the journal they are read from only grows.

Only model-checked: liveness (`Termination`, `RollbackEnds`, `Offered`, `Ends`,
`DeletedGoesAway`, `ServiceAccountHeals`, `OverLimitReported`, `BlockedRunStarts`,
`NothingLeftBehind`, `ScheduleFollows`, `ProvidersFollow`), which the prover's
backends do not reach.  Every other property of the passing runs is a theorem,
three of them under a hypothesis without which they are false: `CompletedOnce`
(failures passed over, nothing retried), `DependencyOrder` (not both failures
passed over and a step retried) and `OnlyOwnEntry` (a list in JSON).

## What is left out, and why

Not modelled: licensing (constant limits), the dashboard's pages, the purko skill
and local web client (they render and proxy what the API returns), leader election
and flags, Prometheus gauges and counters (nothing reads them back).

* `failureStrategy: stop` (the CRD does not admit it) and the second rollback
  monitor inside the rollback branch (the phase is handled before it is
  reached).
* The backoff before a retry, whose branch is dead; template workflows, which the
  reconciler skips.
* The legacy summary of an agent's memory in a
  ConfigMap; the failure counters of an Agent.
* In `WorkflowRuns`: runs of more than one step, parameters and inputs of a run,
  the intent routing of a webhook trigger, and `lastTriggerTime`.
* In `Admission`: which of several violated rules is named in the answer, and the
  Agent rules AG-001, 002 and 004 on, whose verdict on a stored Agent never changes.
* In `AgentController`: the credentials' condition and tool count, which are
  reported and read by nobody, and a renamed ServiceAccount, which the clean-up
  does not find.
* In `MemoryStore`: the match of a query and its ranking, and the truncation of a
  content, whose result is one of `Sizes`.
* In `McpRegistry`: the Deployment and Service, other than as success or failure;
  the URL, auth and tools of an entry; a list that is neither JSON nor YAML, and
  a ConfigMap without data; users editing the list by hand while the system runs.
* In `Executor`: demo mode, the memory file, content filters, the fields extracted
  from an answer, and exceptions that end the process (a malformed timeout of an
  API tool), which fail the Job as an error does.  Tools in the process are taken
  to end.  The documentation's autonomy
  controller is not part of this repository.
* Contents of outputs: a condition is true or false on complete outputs
  (`ConditionFails`), and false when an output it reads is missing.
* Jobs are reaped only after their step's status was written: the TTL is an
  hour, a pass comes every five seconds.
* Caches jump to the latest server state instead of replaying each version.
  A cache that lags arbitrarily is one that has not jumped yet.
* A pass of the workflow reconciler has at most one kind of mishap, and its
  output writes all see a cache that keeps up, or all see one that stands still.
