------------------------- MODULE WorkflowController -------------------------
(***************************************************************************)
(* The reconciler of one Workflow.  The API server holds the Workflow, its *)
(* Jobs and the ConfigMap of step outputs; the reconciler reads all three  *)
(* through informer caches that lag, changes Jobs and outputs directly,    *)
(* and ends a pass with one status write, which the server refuses when    *)
(* the Workflow it was computed from is not the latest, or when the CRD    *)
(* does not admit the phase.                                               *)
(***************************************************************************)
EXTENDS StepScheduling

CONSTANTS
  AdmittedPhases,   \* the enum of status.phase in the installed CRD
  Events,           \* what may happen to the run from outside
  Overrulable,      \* the steps that somebody denies at the dashboard, once each
  MaxFaults         \* bound on refused or lost requests of the reconciler

Terminal == {"Succeeded", "CompletedWithErrors", "Failed", "Cancelled"}
Phase == {"", "Pending", "Running", "RollingBack"} \cup Terminal
Reason == {"", "StepsInProgress", "RollbackInProgress", "UserCancelled", "WorkflowTimeout",
           "AgentNotFound", "StepFailed", "RolledBack", "AllStepsCompleted",
           "AllStepsFailed", "CompletedWithErrors", "StepsFailed"}
Event == {"cancel", "approve", "deny", "timeout", "agentDeleted", "reap"}

ASSUME ControllerAssumption ==
  /\ AdmittedPhases \subseteq Phase
  /\ Events \subseteq Event
  /\ Overrulable \subseteq Steps
  /\ MaxFaults \in Nat

Workflow == [phase : Phase, reason : Reason, steps : [Steps -> StepStatus],
             completed : Nat, failed : Nat, runID : BOOLEAN,
             cancel : BOOLEAN, approved : SUBSET Steps, denied : SUBSET Steps]

VARIABLES
  wf,            \* the Workflow at the API server
  wfView,        \* the reconciler's cached Workflow
  jobs,          \* the Jobs at the API server, by step and kind
  jobView,       \* the reconciler's cached Jobs
  outputs,       \* the steps with an entry in the outputs ConfigMap
  outputsView,   \* the reconciler's cached ConfigMap
  expired,       \* the run is older than its timeout
  agents,        \* every referenced Agent exists
  faults,        \* requests refused or lost so far
  ranOK,         \* history: the steps with a run Job that completed
  ranBad,        \* history: failed run Jobs per step, counted to MaxRetries[s] + 1
  overruled,     \* history: the steps denied at the dashboard, each once at most
  skewed         \* history: some step and the count it belongs to have parted

server == <<wf, jobs, outputs>>
caches == <<wfView, jobView, outputsView>>
history == <<ranOK, ranBad, overruled, skewed>>
world == <<expired, agents>>
vars == <<server, caches, world, faults, history>>

Init ==
  /\ wf = [phase |-> "", reason |-> "", steps |-> [s \in Steps |-> NoStatus],
           completed |-> 0, failed |-> 0, runID |-> FALSE,
           cancel |-> FALSE, approved |-> {}, denied |-> {}]
  /\ wfView = wf
  /\ jobs = [s \in Steps |-> [k \in JobKind |-> "none"]]
  /\ jobView = jobs
  /\ outputs = {} /\ outputsView = {}
  /\ expired = FALSE /\ agents = TRUE
  /\ faults = 0
  /\ ranOK = {} /\ ranBad = [s \in Steps |-> 0]
  /\ overruled = {} /\ skewed = FALSE

-----------------------------------------------------------------------------
(* The requests a pass makes.  At most one kind of request is lost per     *)
(* pass: its status write (a conflict, a rejected request, a crash before  *)
(* it), its deletions, or its creations.                                   *)

Mishap == {"none", "write", "delete", "create"}

Suffer(mishap) ==
  /\ mishap # "none" => faults < MaxFaults
  /\ faults' = IF mishap = "none" THEN faults ELSE faults + 1

\* Mutant: the last writer wins.
WriteStatusUnversioned(new, mishap) ==
  wf' = IF mishap # "write" /\ new.phase \in AdmittedPhases THEN new ELSE wf

WriteStatus(new, mishap) ==
  wf' = IF mishap # "write" /\ wfView = wf /\ new.phase \in AdmittedPhases THEN new ELSE wf

Delete(js, gone, mishap) ==
  [s \in Steps |-> [k \in JobKind |->
     IF <<s, k>> \in gone /\ mishap # "delete" THEN "none" ELSE js[s][k]]]

Create(js, new) ==
  [s \in Steps |-> [k \in JobKind |->
     IF <<s, k>> \in new /\ js[s][k] = "none" THEN "created" ELSE js[s][k]]]

\* Each output is a read of the cached ConfigMap and a create or update that
\* the server refuses if the cache is behind.  Either the cache keeps up with
\* this pass's own writes, or it stands still and only the first can succeed.
OutputWrites(done) ==
  {[kept |-> done, seen |-> outputs \cup done]}
    \cup IF done = {} THEN {[kept |-> {}, seen |-> outputsView]}
         ELSE IF outputsView # outputs THEN {[kept |-> {}, seen |-> outputsView]}
         ELSE {[kept |-> {s}, seen |-> outputsView] : s \in done}

StoreOutputs(write) ==
  /\ outputs' = outputs \cup write.kept
  /\ outputsView' = write.seen

-----------------------------------------------------------------------------
(* The exits of a pass before it looks at the Jobs.                        *)

Loaded == IF wfView.phase = ""
          THEN [wfView EXCEPT !.phase = "Pending", !.completed = 0, !.failed = 0] ELSE wfView

\* Mutant: the timeout is never looked at.
NeverTimedOut == FALSE

TimedOut == wfView.phase = "Running" /\ expired

Live == wfView.phase \notin Terminal \cup {"RollingBack"}

AssignRunID(mishap) ==
  /\ Live /\ ~wfView.cancel /\ ~TimedOut /\ ~wfView.runID
  /\ Suffer(mishap) /\ mishap \in {"none", "write"}
  /\ wf' = IF mishap # "write" /\ wfView = wf THEN [wf EXCEPT !.runID = TRUE] ELSE wf
  /\ UNCHANGED <<jobs, outputs, caches, world, history>>

CancelRun(mishap) ==
  /\ Live /\ wfView.cancel
  /\ Suffer(mishap)
  /\ jobs' = Delete(jobs, Listed(jobView), mishap)
  /\ WriteStatus([wfView EXCEPT !.phase = "Cancelled", !.reason = "UserCancelled",
                                !.steps = Skipping(@, {"Running", "Reset"})], mishap)
  /\ UNCHANGED <<outputs, caches, world, history>>

TimeoutRun(mishap) ==
  /\ Live /\ ~wfView.cancel /\ TimedOut
  /\ Suffer(mishap)
  /\ jobs' = Delete(jobs, Listed(jobView), mishap)
  /\ WriteStatus([wfView EXCEPT !.phase = "Failed", !.reason = "WorkflowTimeout"], mishap)
  /\ UNCHANGED <<outputs, caches, world, history>>

Proceeding == Live /\ ~wfView.cancel /\ ~TimedOut /\ wfView.runID

MissAgent(mishap) ==
  /\ Proceeding /\ ~agents /\ HasAgent # {}
  /\ Suffer(mishap)
  /\ WriteStatus([Loaded EXCEPT !.phase = "Failed", !.reason = "AgentNotFound"], mishap)
  /\ UNCHANGED <<jobs, outputs, caches, world, history>>

-----------------------------------------------------------------------------
(* A pass that synchronises: jm is the map of Jobs, lost the steps whose   *)
(* update goes to the old slice; "synced" is the status in memory.         *)

Syncing == Proceeding /\ (agents \/ HasAgent = {})

\* Mutant: one completion counted per pass.
SyncedCountingOnce(jm, lost) ==
  [Loaded EXCEPT
     !.steps = SyncedSteps(@, jobView, jm, lost),
     !.completed = IF Completing(wfView.steps, jobView, jm) = {} THEN @ ELSE @ + 1,
     !.failed = @ + Cardinality(GivingUp(wfView.steps, jobView, jm))]

Synced(jm, lost) ==
  [Loaded EXCEPT
     !.steps = SyncedSteps(@, jobView, jm, lost),
     !.completed = @ + Cardinality(Completing(wfView.steps, jobView, jm)),
     !.failed = @ + Cardinality(GivingUp(wfView.steps, jobView, jm))]

Readings == UNION {{[jm |-> jm, lost |-> lost, synced |-> Synced(jm, lost)] :
                      lost \in LostWrites(wfView.steps, jobView, jm)} : jm \in JobMaps(jobView)}

\* A step whose update was lost stays as it was, though it has been counted.
Remember(r) ==
  /\ skewed' = (skewed \/ (r.lost # {} /\ wf' # wf))
  /\ UNCHANGED <<ranOK, ranBad, overruled>>

Finished(jm) == Completing(wfView.steps, jobView, jm)

\* Steps about to be declared succeeded whose Job did complete.
Late(r) == {s \in Steps : /\ r.synced.steps[s].phase \in {"Running", "Reset"}
                          /\ StateOf(jobView, s, AfterRetries(wfView.steps, jobView, r.jm)[s]) = "complete"}

Retried(jm) == {<<s, jm[s]>> : s \in Retrying(wfView.steps, jobView, jm)}

StepsDone(m) == m.completed + m.failed >= NumSteps

\* failFast stops what runs or waits, by Job name, and keeps the other Jobs.
StopOnFailure(r, mishap) ==
  /\ Syncing /\ r.synced.failed > 0 /\ FailureStrategy = "failFast"
  /\ Suffer(mishap)
  /\ jobs' = Delete(jobs, Retried(r.jm) \cup JobsToStopOnFailure(r.synced.steps), mishap)
  /\ \E w \in OutputWrites(Finished(r.jm)) : StoreOutputs(w)
  /\ WriteStatus([r.synced EXCEPT !.phase = "Failed", !.reason = "StepFailed",
                                  !.steps = Skipping(@, Unfinished)], mishap)
  /\ Remember(r)
  /\ UNCHANGED <<wfView, jobView, world>>

\* The error of the status write is dropped here, unlike in the other exits.
EnterRollback(r, mishap) ==
  LET st == r.synced.steps
      undone == {s \in HasAgent : st[s].phase = "Succeeded"}
  IN
  /\ Syncing /\ r.synced.failed > 0 /\ FailureStrategy = "rollback"
  /\ Suffer(mishap)
  /\ jobs' = Create(Delete(jobs, Retried(r.jm) \cup Listed(jobView), mishap),
                    IF mishap = "create" THEN {} ELSE undone \X {"rollback"})
  /\ \E w \in OutputWrites(Finished(r.jm)) : StoreOutputs(w)
  /\ WriteStatus([r.synced EXCEPT !.phase = "RollingBack", !.reason = "RollbackInProgress",
                                  !.steps = RollingBackSteps(@)], mishap)
  /\ Remember(r)
  /\ UNCHANGED <<wfView, jobView, world>>

Stops(m) == m.failed > 0 /\ FailureStrategy # "continueOnError"

Finish(r, mishap) ==
  LET end == CompletionPhase(r.synced.completed, r.synced.failed)
  IN
  /\ Syncing /\ ~Stops(r.synced) /\ StepsDone(r.synced)
  /\ Suffer(mishap)
  /\ jobs' = Delete(jobs, Retried(r.jm), mishap)
  /\ \E w \in OutputWrites(Finished(r.jm) \cup Late(r)) : StoreOutputs(w)
  /\ WriteStatus([r.synced EXCEPT !.phase = end.phase, !.reason = end.reason,
                                  !.steps = ForcedSteps(@)], mishap)
  /\ Remember(r)
  /\ UNCHANGED <<wfView, jobView, world>>

\* The start loop: conditions and approvals first, Jobs up to the limit.
\* "acted" are the steps whose visit leaves a trace in the status or the Jobs.
StartLoop(r, seen, refused) ==
  LET st == r.synced.steps
      free == AfterRetries(wfView.steps, jobView, r.jm)
      running == Cardinality({s \in Steps : StateOf(jobView, s, free[s]) = "active"})
      executable == FindExecutableSteps(st, free)
      outcome == [s \in Steps |-> Outcome(s, seen, wfView.approved, wfView.denied, refused)]
      launching == {s \in executable : outcome[s] = "launch"}
      visited == Visited(executable, running, launching)
  IN [steps |-> [s \in Steps |->
                   IF s \in visited
                   THEN StartedStatus(st[s], outcome[s], s \in NeedsApproval) ELSE st[s]],
      launched |-> visited \cap launching,
      passed |-> {s \in visited : outcome[s] \in {"skip", "complete"}},
      acted |-> {s \in visited : outcome[s] # "refused"}]

StartSteps(r, mishap) ==
  \E w \in OutputWrites(Finished(r.jm)) :
    LET loop == StartLoop(r, w.seen, mishap = "create")
    IN
    /\ Syncing /\ ~Stops(r.synced) /\ ~StepsDone(r.synced)
    /\ \/ Touched(wfView.steps, jobView, r.jm) \cup loop.acted # {}
       \/ r.synced.phase = "Pending"
    /\ Suffer(mishap)
    /\ jobs' = Create(Delete(jobs, Retried(r.jm), mishap), loop.launched \X {"run"})
    /\ StoreOutputs(w)
    /\ WriteStatus([r.synced EXCEPT !.phase = "Running", !.reason = "StepsInProgress",
                                    !.steps = loop.steps,
                                    !.completed = @ + Cardinality(loop.passed)], mishap)
    /\ Remember(r)
    /\ UNCHANGED <<wfView, jobView, world>>

-----------------------------------------------------------------------------
(* Watching the rollback Jobs; neither cancellation nor the timeout is     *)
(* looked at in this phase.                                                *)

WatchRollback(mishap) ==
  LET st == RollbackProgress(wfView.steps, jobView)
      over == \A s \in Steps : st[s].phase # "RollingBack"
  IN
  /\ wfView.phase = "RollingBack"
  /\ Suffer(mishap)
  /\ WriteStatus(IF over THEN [wfView EXCEPT !.phase = "Failed", !.reason = "RolledBack", !.steps = st]
                         ELSE [wfView EXCEPT !.steps = st], mishap)
  /\ UNCHANGED <<jobs, outputs, caches, world, history>>

Reconcile ==
  \/ \E mishap \in Mishap :
       \/ AssignRunID(mishap)
       \/ CancelRun(mishap)
       \/ TimeoutRun(mishap)
       \/ MissAgent(mishap)
       \/ WatchRollback(mishap)
  \/ \E r \in Readings, mishap \in Mishap :
       \/ StopOnFailure(r, mishap)
       \/ EnterRollback(r, mishap)
       \/ Finish(r, mishap)
       \/ StartSteps(r, mishap)

-----------------------------------------------------------------------------
(* The caches catch up with the server.                                    *)

SyncWorkflow ==
  /\ wfView' = wf
  /\ UNCHANGED <<server, jobView, outputsView, world, faults, history>>

SyncJobs ==
  /\ jobView' = jobs
  /\ UNCHANGED <<server, wfView, outputsView, world, faults, history>>

SyncOutputs ==
  /\ outputsView' = outputs
  /\ UNCHANGED <<server, wfView, jobView, world, faults, history>>

-----------------------------------------------------------------------------
(* The cluster runs the Jobs.                                              *)

JobStarts(s, k) ==
  /\ jobs[s][k] = "created"
  /\ jobs' = [jobs EXCEPT ![s][k] = "active"]
  /\ UNCHANGED <<wf, outputs, caches, world, faults, history>>

JobEnds(s, k, end) ==
  /\ jobs[s][k] = "active"
  /\ jobs' = [jobs EXCEPT ![s][k] = end]
  /\ ranOK' = IF k = "run" /\ end = "complete" THEN ranOK \cup {s} ELSE ranOK
  /\ ranBad' = IF k = "run" /\ end = "failed" /\ ranBad[s] <= MaxRetries[s]
               THEN [ranBad EXCEPT ![s] = @ + 1] ELSE ranBad
  /\ UNCHANGED <<wf, outputs, caches, world, faults, overruled, skewed>>

\* ttlSecondsAfterFinished: an hour, so the step has long been synchronised.
JobReaped(s, k) ==
  /\ "reap" \in Events
  /\ jobs[s][k] \in {"complete", "failed"}
  /\ jobView = jobs /\ wfView = wf
  /\ wf.steps[s].phase \in {"Succeeded", "Failed", "Skipped", "RolledBack"}
  /\ jobs' = [jobs EXCEPT ![s][k] = "none"]
  /\ UNCHANGED <<wf, outputs, caches, world, faults, history>>

-----------------------------------------------------------------------------
(* What users and time do to the run.                                      *)

TimePasses ==
  /\ "timeout" \in Events
  /\ wf.phase = "Running" /\ ~expired
  /\ expired' = TRUE
  /\ UNCHANGED <<server, caches, agents, faults, history>>

AgentDeleted ==
  /\ "agentDeleted" \in Events
  /\ agents /\ agents' = FALSE
  /\ UNCHANGED <<server, caches, expired, faults, history>>

RunWorkflowCancel ==
  /\ "cancel" \in Events
  /\ wf.phase \in {"Running", "Pending"} /\ ~wf.cancel
  /\ wf' = [wf EXCEPT !.cancel = TRUE]
  /\ UNCHANGED <<jobs, outputs, caches, world, faults, history>>

RunWorkflowApprove(s) ==
  /\ "approve" \in Events
  /\ wf.steps[s].phase = "Pending" /\ s \notin wf.approved
  /\ wf' = [wf EXCEPT !.approved = @ \cup {s}]
  /\ UNCHANGED <<jobs, outputs, caches, world, faults, history>>

RunWorkflowDeny(s) ==
  /\ "deny" \in Events
  /\ wf.steps[s].phase = "Pending" /\ s \notin wf.denied
  /\ wf' = [wf EXCEPT !.denied = @ \cup {s}]
  /\ UNCHANGED <<jobs, outputs, caches, world, faults, history>>

\* The dashboard reads the Workflow through the same cache, and does not look
\* at the phase of the run or of the step.  An approval of a step that needs
\* none is read by nobody.
handleApproveStep(s) ==
  /\ "approve" \in Events
  /\ wfView = wf /\ s \in NeedsApproval \ wf.approved
  /\ wf' = [wf EXCEPT !.approved = @ \cup {s}]
  /\ UNCHANGED <<jobs, outputs, caches, world, faults, history>>

FailedByHand(w, s) == [w EXCEPT !.steps[s].phase = "Failed", !.failed = @ + 1]

handleDenyStep(s) ==
  /\ wfView = wf /\ wf.steps[s].phase # "None" /\ s \in Overrulable \ overruled
  /\ wf' = FailedByHand(wf, s)
  /\ overruled' = overruled \cup {s} /\ skewed' = TRUE
  /\ UNCHANGED <<jobs, outputs, caches, world, faults, ranOK, ranBad>>

\* A run that has ended, with nothing left in flight, stays as it is.
Ended ==
  /\ wf.phase \in Terminal /\ wfView = wf
  /\ UNCHANGED vars

Next ==
  \/ Reconcile
  \/ SyncWorkflow \/ SyncJobs \/ SyncOutputs
  \/ \E s \in Steps, k \in JobKind : JobStarts(s, k)
  \/ \E s \in Steps, k \in JobKind, end \in {"complete", "failed"} : JobEnds(s, k, end)
  \/ \E s \in Steps, k \in JobKind : JobReaped(s, k)
  \/ TimePasses
  \/ AgentDeleted
  \/ RunWorkflowCancel
  \/ \E s \in Steps : RunWorkflowApprove(s)
  \/ \E s \in Steps : RunWorkflowDeny(s)
  \/ \E s \in Steps : handleApproveStep(s)
  \/ \E s \in Steps : handleDenyStep(s)
  \/ Ended

Spec == Init /\ [][Next]_vars

\* Every pass is requeued after 5s, every cache is fed by a watch, a pod that
\* runs ends (activeDeadlineSeconds), and time passes.  No user is fair.
Fairness ==
  /\ WF_vars(Reconcile)
  /\ WF_vars(SyncWorkflow) /\ WF_vars(SyncJobs) /\ WF_vars(SyncOutputs)
  /\ \A s \in Steps, k \in JobKind :
       /\ WF_vars(JobStarts(s, k))
       /\ WF_vars(\E end \in {"complete", "failed"} : JobEnds(s, k, end))
  /\ WF_vars(TimePasses)

FairSpec == Spec /\ Fairness

-----------------------------------------------------------------------------
(* Properties.                                                             *)

\* The variables have their types.
TypeOK ==
  /\ wf \in Workflow /\ wfView \in Workflow
  /\ jobs \in [Steps -> [JobKind -> JobState]] /\ jobView \in [Steps -> [JobKind -> JobState]]
  /\ outputs \subseteq Steps /\ outputsView \subseteq Steps
  /\ expired \in BOOLEAN /\ agents \in BOOLEAN
  /\ faults \in 0 .. MaxFaults
  /\ ranOK \subseteq Steps /\ ranBad \in [Steps -> Nat]
  /\ overruled \subseteq Steps /\ skewed \in BOOLEAN

\* No Job of a step is created before each of its dependencies has really run
\* to its end: completed, or skipped, or (continueOnError) out of retries.  (The
\* dashboard may fail it by hand, before that or after.)
DependencyOrder ==
  \A s \in Steps : jobs[s]["run"] # "none" =>
    \A d \in DependsOn[s] :
      \/ d \in ranOK \cup overruled
      \/ wf.steps[d].phase = "Skipped"
      \/ d \notin HasAgent /\ wf.steps[d].phase \in {"Succeeded", "RolledBack"}
      \/ FailureStrategy = "continueOnError" /\ wf.steps[d].phase = "Failed"
      \/ FailureStrategy = "continueOnError" /\ ranBad[d] > MaxRetries[d]

\* Only what has really run to its end is undone, and only under the rollback
\* strategy, whatever the pass that enters the rollback believes it has seen.
OnlyDoneIsUndone ==
  \A s \in Steps : jobs[s]["rollback"] # "none" => FailureStrategy = "rollback" /\ s \in ranOK

\* The status moves as WorkflowLifecycle lets it: the reconciler refines it.
Lifecycle == INSTANCE WorkflowLifecycle
               WITH phase <- wf.phase, step <- [s \in Steps |-> wf.steps[s].phase]
LifecycleSpec == Lifecycle!Spec

\* A status that has ended is never rewritten by the reconciler, whatever a stale
\* pass computes.  Users still annotate the run, and the dashboard, which does not
\* look at the phase, still fails a step and counts it; no one changes the end.
TerminalIsFinal ==
  [][wf.phase \in Terminal =>
       \/ [wf' EXCEPT !.cancel = wf.cancel, !.approved = wf.approved, !.denied = wf.denied] = wf
       \/ \E s \in overruled' \ overruled : wf' = FailedByHand(wf, s)]_vars

\* A step that has run to completion is not run again while the run goes on:
\* not after its Job was reaped, nor from a cache that has not seen it finish.
CompletedOnce ==
  [][\A s \in ranOK : jobs[s]["run"] = "none" /\ jobs'[s]["run"] = "created"
                         => wf.phase \in Terminal]_vars

\* The retry counter in the status never passes MaxRetries, and a step that no
\* user has denied fails only when the counter has got there.  (It counts the
\* retries that were recorded, not the Jobs: a pass whose status write is refused
\* has replaced the Job all the same, and a failed Job that the cache still shows
\* is counted again.)
RetryBudget ==
  \A s \in Steps :
    /\ wf.steps[s].retry <= MaxRetries[s]
    /\ wf.steps[s].phase = "Failed" /\ s \notin wf.denied \cup overruled
         => wf.steps[s].retry = MaxRetries[s]

\* The counters never fall behind the statuses: a run whose steps have all
\* finished is seen to have finished.  A step denied through purkoctl is failed
\* and not counted.  (They may run ahead: a step whose status update is lost to
\* the moved slice is counted again.)
NeverUndercounted ==
  wf.phase = "Running" =>
    /\ wf.completed >= Cardinality({s \in Steps : wf.steps[s].phase \in {"Succeeded", "Skipped"}})
    /\ wf.failed >= Cardinality({s \in Steps \ wf.denied : wf.steps[s].phase = "Failed"})

\* Unless an update was lost or the dashboard failed a step by hand, a run ends
\* as plain Succeeded only when every step has succeeded or was skipped: no
\* failed step, denied or not, and none that was never run.
SuccessIsWhole ==
  wf.phase = "Succeeded" /\ ~skewed =>
    \A s \in Steps : wf.steps[s].phase \in {"Succeeded", "Skipped"}

\* And even then it shows no failed step but those that a user has denied: at the
\* dashboard, or through purkoctl.
FailureNeverHidden ==
  wf.phase = "Succeeded" =>
    \A s \in Steps : wf.steps[s].phase = "Failed" => s \in wf.denied \cup overruled

\* What the counters say of a run, while it goes on and when it has ended.
CountersTrue == NeverUndercounted /\ SuccessIsWhole /\ FailureNeverHidden

\* A rollback that has begun ends the run, with no step left as succeeded.
RollbackEnds ==
  wf.phase = "RollingBack" ~> /\ wf.reason = "RolledBack"
                              /\ \A s \in Steps : wf.steps[s].phase # "Succeeded"

\* Every run ends.
Termination == <>(wf.phase \in Terminal)

-----------------------------------------------------------------------------
(* What the repository says of the reconciler, and the code does not do.   *)

\* A failed step under the rollback strategy leads to the phase RollingBack.
RollbackEntered ==
  (\E s \in Steps : jobs[s]["rollback"] # "none") ~> (wf.phase = "RollingBack")
=============================================================================
