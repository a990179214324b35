--------------------------- MODULE StepScheduling ---------------------------
(***************************************************************************)
(* The pure part of the workflow reconciler: what one pass computes from   *)
(* the status and the Jobs it has read.  A step is its position in         *)
(* spec.steps; a step status, a Job and the step-keyed map of Jobs are     *)
(* functions over the steps.                                               *)
(***************************************************************************)
EXTENDS Naturals, FiniteSets

CONSTANTS
  NumSteps,          \* len(spec.steps)
  DependsOn,         \* DependsOn[s]: the steps named in dependsOn of step s
  MaxRetries,        \* MaxRetries[s]: retryPolicy.maxRetries
  Parallelism,       \* spec.parallelism
  FailureStrategy,   \* spec.failureStrategy
  HasAgent,          \* the steps with an agentRef (the others auto-complete)
  NeedsApproval,     \* the steps whose agent sets humanApprovalRequired
  ConditionReads,    \* ConditionReads[s]: the steps whose output condition s reads
  ConditionFails     \* the steps whose condition is false on complete outputs

Steps == 1 .. NumSteps
JobKind == {"run", "rollback"}
JobState == {"none", "created", "active", "complete", "failed"}
JobRef == JobKind \cup {"none"}

\* "None" is a step without a status entry, "Reset" is the empty phase.
StepPhase == {"None", "Reset", "Pending", "Running", "Succeeded", "Failed",
              "Skipped", "RollingBack", "RolledBack"}
StepStatus == [phase : StepPhase, retry : Nat, job : JobRef]
NoStatus == [phase |-> "None", retry |-> 0, job |-> "none"]

ASSUME SchedulingAssumption ==
  /\ NumSteps \in Nat \ {0}
  /\ DependsOn \in [Steps -> SUBSET Steps]
  /\ MaxRetries \in [Steps -> Nat]
  /\ Parallelism \in Nat
  /\ FailureStrategy \in {"failFast", "continueOnError", "rollback"}
  /\ HasAgent \subseteq Steps
  /\ NeedsApproval \subseteq HasAgent
  /\ ConditionReads \in [Steps -> SUBSET Steps]
  /\ ConditionFails \subseteq Steps

-----------------------------------------------------------------------------
(* Jobs as listed: the run Job and the rollback Job of a step carry the    *)
(* same step label, so the map keeps either one when both exist.           *)

JobMaps(view) ==
  {jm \in [Steps -> JobRef] :
     \A s \in Steps :
       IF jm[s] = "none" THEN \A k \in JobKind : view[s][k] = "none"
                         ELSE view[s][jm[s]] # "none"}

StateOf(view, s, ref) == IF ref = "none" THEN "none" ELSE view[s][ref]

Listed(view) == {job \in Steps \X JobKind : view[job[1]][job[2]] # "none"}

-----------------------------------------------------------------------------
(* Synchronising the step statuses with the Jobs.                          *)

Adopted(st, jm) == {s \in Steps : jm[s] # "none" /\ st[s].phase = "None"}

Tracked(st, jm) == {s \in Steps : jm[s] # "none" /\ st[s].phase \in {"None", "Running"}}

\* Mutant: a Job that has ended has completed.
CompletingOnceEnded(st, view, jm) ==
  {s \in Tracked(st, jm) : StateOf(view, s, jm[s]) \in {"complete", "failed"}}

Completing(st, view, jm) ==
  {s \in Tracked(st, jm) : StateOf(view, s, jm[s]) = "complete"}

Failing(st, view, jm) == {s \in Tracked(st, jm) : StateOf(view, s, jm[s]) = "failed"}

\* Mutant: one retry too many.
RetryingOnceMore(st, view, jm) ==
  {s \in Failing(st, view, jm) : st[s].retry <= MaxRetries[s]}

Retrying(st, view, jm) ==
  {s \in Failing(st, view, jm) : st[s].retry < MaxRetries[s]}

GivingUp(st, view, jm) == Failing(st, view, jm) \ Retrying(st, view, jm)

Touched(st, view, jm) ==
  Adopted(st, jm) \cup Completing(st, view, jm) \cup Failing(st, view, jm)

\* Adopting a step appends to the status slice, which is exactly full after a
\* read and moves: the pointers taken before then lead to the old array.  The
\* map of Jobs is visited in a random order, so any tracked step with a status
\* of its own may be updated after the move, and that update is lost.
LostWrites(st, view, jm) ==
  IF Adopted(st, jm) = {} THEN {{}}
  ELSE SUBSET (Touched(st, view, jm) \ Adopted(st, jm))

SyncedStatus(st, view, jm, lost, s) ==
  LET found == IF s \in Adopted(st, jm)
               THEN [st[s] EXCEPT !.phase = "Running", !.job = jm[s]] ELSE st[s]
  IN CASE s \in lost -> found
       [] s \in Completing(st, view, jm) \ lost -> [found EXCEPT !.phase = "Succeeded"]
       [] s \in Retrying(st, view, jm) \ lost ->
            [found EXCEPT !.phase = "Reset", !.retry = @ + 1]
       [] s \in GivingUp(st, view, jm) \ lost -> [found EXCEPT !.phase = "Failed"]
       [] OTHER -> found

SyncedSteps(st, view, jm, lost) ==
  [s \in Steps |-> SyncedStatus(st, view, jm, lost, s)]

\* The Jobs of the retried steps leave the map: their steps may start again.
AfterRetries(st, view, jm) ==
  [s \in Steps |-> IF s \in Retrying(st, view, jm) THEN "none" ELSE jm[s]]

-----------------------------------------------------------------------------
(* Stopping.                                                               *)

Unfinished == {"Reset", "Pending", "Running"}

JobsToStopOnFailure(st) ==
  {<<s, st[s].job>> : s \in {t \in Steps : st[t].phase \in Unfinished /\ st[t].job # "none"}}

Skipping(st, phases) ==
  [s \in Steps |-> IF st[s].phase \in phases THEN [st[s] EXCEPT !.phase = "Skipped"] ELSE st[s]]

\* Mutant: what still runs is left as it is.
RollingBackKeepingRest(st) ==
  [s \in Steps |-> IF st[s].phase = "Succeeded"
                   THEN [st[s] EXCEPT !.phase = "RollingBack", !.job = "rollback"] ELSE st[s]]

\* Entering the rollback: every succeeded step gets a rollback Job.
RollingBackSteps(st) ==
  [s \in Steps |->
     CASE st[s].phase = "Succeeded" /\ s \in HasAgent ->
            [st[s] EXCEPT !.phase = "RollingBack", !.job = "rollback"]
       [] st[s].phase = "Succeeded" /\ s \notin HasAgent -> [st[s] EXCEPT !.phase = "RolledBack"]
       [] st[s].phase \in Unfinished -> [st[s] EXCEPT !.phase = "Skipped"]
       [] OTHER -> st[s]]

\* Mutant: only a rollback Job that completed is done.
RollbackMustComplete(st, view) ==
  [s \in Steps |-> IF st[s].phase = "RollingBack" /\ StateOf(view, s, st[s].job) = "complete"
                   THEN [st[s] EXCEPT !.phase = "RolledBack"] ELSE st[s]]

\* Watching it: a rollback Job that ended, or that cannot be read, is done.
RollbackProgress(st, view) ==
  [s \in Steps |->
     IF /\ st[s].phase = "RollingBack"
        /\ StateOf(view, s, st[s].job) \in {"none", "complete", "failed"}
     THEN [st[s] EXCEPT !.phase = "RolledBack"] ELSE st[s]]

\* The counters reached the total: what still runs is declared succeeded.
ForcedSteps(st) ==
  [s \in Steps |-> IF st[s].phase \in {"Running", "Reset"}
                   THEN [st[s] EXCEPT !.phase = "Succeeded"] ELSE st[s]]

CompletionPhase(completed, failed) ==
  CASE failed = 0 -> [phase |-> "Succeeded", reason |-> "AllStepsCompleted"]
    [] failed # 0 /\ completed = 0 -> [phase |-> "Failed", reason |-> "AllStepsFailed"]
    [] failed # 0 /\ completed # 0 /\ FailureStrategy = "continueOnError" ->
         [phase |-> "CompletedWithErrors", reason |-> "CompletedWithErrors"]
    [] OTHER -> [phase |-> "Failed", reason |-> "StepsFailed"]

-----------------------------------------------------------------------------
(* Starting steps.                                                         *)

\* Mutant: a dependency that has started is enough.
ReadyOnceStarted(st, d) == st[d].phase \in {"Succeeded", "Skipped", "Running"}

Ready(st, d) ==
  st[d].phase \in {"Succeeded", "Skipped"}
                    \cup (IF FailureStrategy = "continueOnError" THEN {"Failed"} ELSE {})

\* Mutant: only the Job tells that a step has run.
ExecutableWithoutJob(st, jm) ==
  {s \in Steps : /\ st[s].phase \notin {"Skipped", "Failed", "Running"}
                 /\ jm[s] = "none"
                 /\ \A d \in DependsOn[s] : Ready(st, d)}

FindExecutableSteps(st, jm) ==
  {s \in Steps : /\ st[s].phase \notin {"Succeeded", "Skipped", "Failed", "Running"}
                 /\ jm[s] = "none"
                 /\ \A d \in DependsOn[s] : Ready(st, d)}

\* A condition over an output that is not there is not met.
EvaluateCondition(s, outputs) ==
  ConditionReads[s] \subseteq outputs /\ s \notin ConditionFails

\* What the start loop does with step s when it reaches it.
Outcome(s, outputs, approved, denied, refused) ==
  CASE ~EvaluateCondition(s, outputs) -> "skip"
    [] EvaluateCondition(s, outputs) /\ s \notin HasAgent -> "complete"
    [] EvaluateCondition(s, outputs) /\ s \in NeedsApproval /\ s \in denied -> "deny"
    [] EvaluateCondition(s, outputs) /\ s \in NeedsApproval \ (approved \cup denied) -> "wait"
    [] OTHER -> IF refused THEN "refused" ELSE "launch"

\* The loop visits the executable steps in spec order and breaks at the limit.
Visited(executable, running, launching) ==
  {s \in executable : running + Cardinality({t \in launching : t < s}) < Parallelism}

\* Mutant: a phase the step status does not have.
StartedWithoutPhase(status, outcome, approval) ==
  [status EXCEPT !.phase = "Started", !.job = "run"]

StartedStatus(status, outcome, approval) ==
  CASE outcome = "skip" -> [status EXCEPT !.phase = "Skipped"]
    [] outcome = "complete" -> [status EXCEPT !.phase = "Succeeded"]
    [] outcome = "deny" -> [status EXCEPT !.phase = "Failed"]
    [] outcome = "wait" -> [status EXCEPT !.phase = "Pending"]
    [] outcome = "launch" -> [status EXCEPT !.phase = "Running", !.job = "run"]
    [] OTHER -> IF approval /\ status.phase = "None"
                THEN [status EXCEPT !.phase = "Reset"] ELSE status
=============================================================================
