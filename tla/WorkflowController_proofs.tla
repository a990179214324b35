---------------------- MODULE WorkflowController_proofs ----------------------
(***************************************************************************)
(* Theorems about the workflow reconciler, for every workflow, every       *)
(* admitted set of phases and every number of faults.                      *)
(***************************************************************************)
EXTENDS WorkflowController, FiniteSetTheorems, TLAPS

JobsType == [Steps -> [JobKind -> JobState]]

StatusesType == [Steps -> StepStatus]

-----------------------------------------------------------------------------
(* What the pure operators return.                                         *)

\* A set of steps has a natural number of elements.
LEMMA StepsCount ==
  ASSUME NEW S \in SUBSET Steps
  PROVE  Cardinality(S) \in Nat
<1>1. IsFiniteSet(Steps)
  BY FS_Interval, SchedulingAssumption DEF Steps
<1> QED
  BY <1>1, FS_Subset, FS_CardinalityType

\* The status of no step has its type.
LEMMA NoStatusType == NoStatus \in StepStatus
  BY DEF NoStatus, StepStatus, StepPhase, JobRef, JobKind

\* The maps of Jobs a pass may read have their type.
LEMMA JobMapsType ==
  ASSUME NEW view, NEW jm \in JobMaps(view)
  PROVE  jm \in [Steps -> JobRef]
  BY DEF JobMaps

\* Synchronising keeps the type of the step statuses.
LEMMA SyncedStepsType ==
  ASSUME NEW st \in StatusesType, NEW view, NEW jm \in [Steps -> JobRef], NEW lost
  PROVE  SyncedSteps(st, view, jm, lost) \in StatusesType
<1>1. ASSUME NEW s \in Steps
      PROVE  SyncedStatus(st, view, jm, lost, s) \in StepStatus
  <2> DEFINE found == IF s \in Adopted(st, jm)
                      THEN [st[s] EXCEPT !.phase = "Running", !.job = jm[s]] ELSE st[s]
  <2>1. found \in StepStatus
    BY DEF StatusesType, StepStatus, StepPhase
  <2>2. SyncedStatus(st, view, jm, lost, s) \in
          {found, [found EXCEPT !.phase = "Succeeded"], [found EXCEPT !.phase = "Failed"],
           [found EXCEPT !.phase = "Reset", !.retry = @ + 1]}
    BY Zenon DEF SyncedStatus
  <2> HIDE DEF found
  <2>3. \A p \in StepPhase : [found EXCEPT !.phase = p] \in StepStatus
    BY <2>1 DEF StepStatus
  <2>4. [found EXCEPT !.phase = "Reset", !.retry = @ + 1] \in StepStatus
    <3>1. found.retry + 1 \in Nat
      BY <2>1 DEF StepStatus
    <3> DEFINE next == found.retry + 1
    <3> HIDE DEF next
    <3>2. [found EXCEPT !.phase = "Reset", !.retry = next] \in StepStatus
      BY <2>1, <3>1 DEF StepStatus, StepPhase, next
    <3> QED
      BY <3>2 DEF next
  <2>5. {"Succeeded", "Failed"} \subseteq StepPhase
    BY DEF StepPhase
  <2> QED
    BY <2>1, <2>2, <2>3, <2>4, <2>5
<1> QED
  BY <1>1 DEF SyncedSteps, StatusesType

\* So does stopping.
LEMMA SkippingType ==
  ASSUME NEW st \in StatusesType, NEW phases
  PROVE  Skipping(st, phases) \in StatusesType
  BY DEF Skipping, StatusesType, StepStatus, StepPhase

LEMMA RollingBackStepsType ==
  ASSUME NEW st \in StatusesType
  PROVE  RollingBackSteps(st) \in StatusesType
  BY DEF RollingBackSteps, StatusesType, StepStatus, StepPhase, JobRef, JobKind

LEMMA RollbackProgressType ==
  ASSUME NEW st \in StatusesType, NEW view
  PROVE  RollbackProgress(st, view) \in StatusesType
  BY DEF RollbackProgress, StatusesType, StepStatus, StepPhase

LEMMA ForcedStepsType ==
  ASSUME NEW st \in StatusesType
  PROVE  ForcedSteps(st) \in StatusesType
  BY DEF ForcedSteps, StatusesType, StepStatus, StepPhase

LEMMA StartedStatusType ==
  ASSUME NEW status \in StepStatus, NEW outcome, NEW approval
  PROVE  StartedStatus(status, outcome, approval) \in StepStatus
  BY DEF StartedStatus, StepStatus, StepPhase, JobRef, JobKind

\* Requests leave Jobs that are Jobs.
LEMMA DeleteType ==
  ASSUME NEW js \in JobsType, NEW gone, NEW mishap
  PROVE  Delete(js, gone, mishap) \in JobsType
  BY DEF Delete, JobsType, JobState

LEMMA CreateType ==
  ASSUME NEW js \in JobsType, NEW new
  PROVE  Create(js, new) \in JobsType
  BY DEF Create, JobsType, JobState

-----------------------------------------------------------------------------
(* Type correctness.                                                       *)

\* A workflow with a new phase, reason, steps or counters is a workflow.
LEMMA WorkflowUpdate ==
  ASSUME NEW w \in Workflow, NEW p \in Phase, NEW q \in Reason, NEW st \in StatusesType,
         NEW c \in Nat, NEW f \in Nat
  PROVE  /\ [w EXCEPT !.phase = p, !.reason = q] \in Workflow
         /\ [w EXCEPT !.phase = p, !.completed = c, !.failed = f] \in Workflow
         /\ [w EXCEPT !.phase = p, !.reason = q, !.steps = st] \in Workflow
         /\ [w EXCEPT !.phase = p, !.reason = q, !.steps = st, !.completed = c] \in Workflow
  BY DEF Workflow, StatusesType

LEMMA StepsUpdate ==
  ASSUME NEW w \in Workflow, NEW st \in StatusesType, NEW c \in Nat, NEW f \in Nat
  PROVE  /\ [w EXCEPT !.steps = st] \in Workflow
         /\ [w EXCEPT !.steps = st, !.completed = c, !.failed = f] \in Workflow
  BY DEF Workflow, StatusesType

\* What a pass reads, and what it computes from it, have their types.
LEMMA LoadedType ==
  ASSUME TypeOK
  PROVE  Loaded \in Workflow
<1>1. {"Pending"} \subseteq Phase /\ 0 \in Nat
  BY DEF Phase
<1> QED
  BY <1>1, WorkflowUpdate DEF Loaded, TypeOK, Workflow, StatusesType

LEMMA ReadingsType ==
  ASSUME TypeOK, NEW r \in Readings
  PROVE  /\ r.jm \in [Steps -> JobRef]
         /\ r.synced \in Workflow
         /\ Finished(r.jm) \in SUBSET Steps
<1>1. PICK jm \in JobMaps(jobView) :
        \E lost : r = [jm |-> jm, lost |-> lost, synced |-> Synced(jm, lost)]
  BY DEF Readings
<1>2. PICK lost : r = [jm |-> jm, lost |-> lost, synced |-> Synced(jm, lost)]
  BY <1>1
<1>3. jm \in [Steps -> JobRef]
  BY JobMapsType
<1>4. Loaded \in Workflow
  BY LoadedType
<1>5. Synced(jm, lost) \in Workflow
  <2> DEFINE st == SyncedSteps(Loaded.steps, jobView, jm, lost)
             c == Loaded.completed + Cardinality(Completing(wfView.steps, jobView, jm))
             f == Loaded.failed + Cardinality(GivingUp(wfView.steps, jobView, jm))
  <2>1. st \in StatusesType
    BY <1>3, <1>4, SyncedStepsType DEF Workflow, StatusesType
  <2>2. c \in Nat /\ f \in Nat
    <3>1. /\ Cardinality(Completing(wfView.steps, jobView, jm)) \in Nat
          /\ Cardinality(GivingUp(wfView.steps, jobView, jm)) \in Nat
      BY StepsCount DEF Completing, GivingUp, Failing, Tracked
    <3> QED
      BY <1>4, <3>1 DEF Workflow
  <2>3. Synced(jm, lost) = [Loaded EXCEPT !.steps = st, !.completed = c, !.failed = f]
    BY Zenon DEF Synced
  <2> HIDE DEF st, c, f
  <2>4. [Loaded EXCEPT !.steps = st, !.completed = c, !.failed = f] \in Workflow
    BY <1>4, <2>1, <2>2, StepsUpdate
  <2> QED
    BY <2>3, <2>4
<1> QED
  BY <1>2, <1>3, <1>5 DEF Finished, Completing, Tracked

\* The outputs written are outputs of steps.
LEMMA OutputsType ==
  ASSUME TypeOK, NEW done \in SUBSET Steps, NEW w \in OutputWrites(done)
  PROVE  w.kept \in SUBSET Steps /\ w.seen \in SUBSET Steps
  BY DEF TypeOK, OutputWrites

\* A refused write leaves the workflow, an accepted one replaces it.
LEMMA StatusWritten ==
  ASSUME NEW new, NEW mishap, WriteStatus(new, mishap)
  PROVE  wf' = wf \/ (wf' = new /\ wf = wfView)
  BY DEF WriteStatus

LEMMA FaultsType ==
  ASSUME TypeOK, NEW mishap, Suffer(mishap)
  PROVE  faults' \in 0 .. MaxFaults
  BY ControllerAssumption DEF TypeOK, Suffer

\* What a pass adds to the history.
LEMMA MemoryType ==
  ASSUME TypeOK, NEW r, Remember(r)
  PROVE  /\ ranOK' \subseteq Steps /\ ranBad' \in [Steps -> Nat]
         /\ overruled' \subseteq Steps /\ skewed' \in BOOLEAN
  BY DEF TypeOK, Remember

\* The constants that actions write.
LEMMA NamesOfPhases ==
  /\ Terminal \subseteq Phase /\ {"Pending", "Running", "RollingBack"} \subseteq Phase
  /\ \A completed, failed : /\ CompletionPhase(completed, failed).phase \in Terminal
                            /\ CompletionPhase(completed, failed).reason \in Reason
  BY DEF Terminal, Phase, Reason, CompletionPhase

\* Every pass of the reconciler keeps the types.
LEMMA ReconcileType ==
  ASSUME TypeOK, NEW mishap \in Mishap
  PROVE  /\ AssignRunID(mishap) => TypeOK'
         /\ CancelRun(mishap) => TypeOK'
         /\ TimeoutRun(mishap) => TypeOK'
         /\ MissAgent(mishap) => TypeOK'
         /\ WatchRollback(mishap) => TypeOK'
<1> USE DEF JobsType
<1>1. ASSUME AssignRunID(mishap) PROVE TypeOK'
  <2>1. wf' \in Workflow
    BY <1>1 DEF AssignRunID, TypeOK, Workflow
  <2> QED
    BY <1>1, <2>1, FaultsType DEF AssignRunID, TypeOK, caches, world, history
<1>2. ASSUME CancelRun(mishap) PROVE TypeOK'
  <2> DEFINE st == Skipping(wfView.steps, {"Running", "Reset"})
             new == [wfView EXCEPT !.phase = "Cancelled", !.reason = "UserCancelled", !.steps = st]
  <2>1. st \in StatusesType
    BY SkippingType DEF TypeOK, Workflow, StatusesType
  <2>2. new \in Workflow
    <3>1. wfView \in Workflow /\ "Cancelled" \in Phase /\ "UserCancelled" \in Reason
      BY DEF TypeOK, Phase, Reason, Terminal
    <3> HIDE DEF st
    <3> QED BY <2>1, <3>1, WorkflowUpdate, ZenonT(20)
  <2>3. WriteStatus(new, mishap)
    BY <1>2 DEF CancelRun
  <2> HIDE DEF new
  <2>4. wf' \in Workflow
    BY <2>2, <2>3, StatusWritten DEF TypeOK
  <2>5. jobs' \in JobsType
    BY <1>2, DeleteType DEF CancelRun, TypeOK
  <2> QED
    BY <1>2, <2>4, <2>5, FaultsType DEF CancelRun, TypeOK, caches, world, history
<1>3. ASSUME TimeoutRun(mishap) PROVE TypeOK'
  <2> DEFINE new == [wfView EXCEPT !.phase = "Failed", !.reason = "WorkflowTimeout"]
  <2>1. new \in Workflow
    BY DEF TypeOK, Workflow, Phase, Reason, Terminal
  <2>2. WriteStatus(new, mishap)
    BY <1>3 DEF TimeoutRun
  <2> HIDE DEF new
  <2>3. wf' \in Workflow
    BY <2>1, <2>2, StatusWritten DEF TypeOK
  <2>4. jobs' \in JobsType
    BY <1>3, DeleteType DEF TimeoutRun, TypeOK
  <2> QED
    BY <1>3, <2>3, <2>4, FaultsType DEF TimeoutRun, TypeOK, caches, world, history
<1>4. ASSUME MissAgent(mishap) PROVE TypeOK'
  <2> DEFINE new == [Loaded EXCEPT !.phase = "Failed", !.reason = "AgentNotFound"]
  <2>1. new \in Workflow
    BY LoadedType DEF Workflow, Phase, Reason, Terminal
  <2>2. WriteStatus(new, mishap)
    BY <1>4 DEF MissAgent
  <2> HIDE DEF new
  <2>3. wf' \in Workflow
    BY <2>1, <2>2, StatusWritten DEF TypeOK
  <2> QED
    BY <1>4, <2>3, FaultsType DEF MissAgent, TypeOK, caches, world, history
<1>5. ASSUME WatchRollback(mishap) PROVE TypeOK'
  <2> DEFINE st == RollbackProgress(wfView.steps, jobView)
             ended == [wfView EXCEPT !.phase = "Failed", !.reason = "RolledBack", !.steps = st]
             going == [wfView EXCEPT !.steps = st]
  <2>1. st \in StatusesType
    BY RollbackProgressType DEF TypeOK, Workflow, StatusesType
  <2>2. ended \in Workflow /\ going \in Workflow
    <3> HIDE DEF st
    <3>1. wfView \in Workflow /\ "Failed" \in Phase /\ "RolledBack" \in Reason /\ 0 \in Nat
      BY DEF TypeOK, Phase, Reason, Terminal
    <3> QED BY <2>1, <3>1, WorkflowUpdate, StepsUpdate
  <2>3. PICK new \in {ended, going} : WriteStatus(new, mishap)
    BY <1>5, Zenon DEF WatchRollback
  <2> HIDE DEF ended, going
  <2>4. wf' \in Workflow
    BY <2>2, <2>3, StatusWritten DEF TypeOK
  <2> QED
    BY <1>5, <2>4, FaultsType DEF WatchRollback, TypeOK, caches, world, history
<1> QED
  BY <1>1, <1>2, <1>3, <1>4, <1>5

\* The start loop leaves statuses, and counts and starts steps.
LEMMA StartLoopType ==
  ASSUME NEW r, r.synced.steps \in StatusesType, NEW seen, NEW refused
  PROVE  /\ StartLoop(r, seen, refused).steps \in StatusesType
         /\ StartLoop(r, seen, refused).passed \in SUBSET Steps
  BY StartedStatusType DEF StartLoop, StatusesType, Visited, FindExecutableSteps

\* So does every pass that synchronises.
LEMMA SyncingType ==
  ASSUME TypeOK, NEW mishap \in Mishap, NEW r \in Readings
  PROVE  /\ StopOnFailure(r, mishap) => TypeOK'
         /\ EnterRollback(r, mishap) => TypeOK'
         /\ Finish(r, mishap) => TypeOK'
         /\ StartSteps(r, mishap) => TypeOK'
<1> USE DEF JobsType
<1>1. r.synced \in Workflow /\ r.synced.steps \in StatusesType /\ Finished(r.jm) \in SUBSET Steps
  BY ReadingsType DEF Workflow, StatusesType
<1>2. ASSUME NEW w \in OutputWrites(Finished(r.jm)), StoreOutputs(w)
      PROVE  outputs' \subseteq Steps /\ outputsView' \subseteq Steps
  BY <1>1, <1>2, OutputsType DEF StoreOutputs, TypeOK
<1>3. ASSUME StopOnFailure(r, mishap) PROVE TypeOK'
  <2> DEFINE st == Skipping(r.synced.steps, Unfinished)
             new == [r.synced EXCEPT !.phase = "Failed", !.reason = "StepFailed", !.steps = st]
  <2>1. new \in Workflow
    <3>1. "Failed" \in Phase /\ "StepFailed" \in Reason /\ st \in StatusesType
      BY <1>1, SkippingType DEF Phase, Reason, Terminal
    <3> HIDE DEF st
    <3> QED BY <1>1, <3>1, WorkflowUpdate
  <2>2. WriteStatus(new, mishap)
    BY <1>3 DEF StopOnFailure
  <2> HIDE DEF new
  <2>3. wf' \in Workflow
    BY <2>1, <2>2, StatusWritten DEF TypeOK
  <2>4. jobs' \in JobsType
    BY <1>3, DeleteType DEF StopOnFailure, TypeOK
  <2>5. outputs' \subseteq Steps /\ outputsView' \subseteq Steps
    BY <1>2, <1>3 DEF StopOnFailure
  <2> QED
    BY <1>3, <2>3, <2>4, <2>5, FaultsType, MemoryType DEF StopOnFailure, TypeOK, world
<1>4. ASSUME EnterRollback(r, mishap) PROVE TypeOK'
  <2> DEFINE st == RollingBackSteps(r.synced.steps)
             new == [r.synced EXCEPT !.phase = "RollingBack", !.reason = "RollbackInProgress",
                                     !.steps = st]
             gone == Retried(r.jm) \cup Listed(jobView)
  <2>1. new \in Workflow
    <3>1. "RollingBack" \in Phase /\ "RollbackInProgress" \in Reason /\ st \in StatusesType
      BY <1>1, RollingBackStepsType DEF Phase, Reason
    <3> HIDE DEF st
    <3> QED BY <1>1, <3>1, WorkflowUpdate, ZenonT(60)
  <2>2. WriteStatus(new, mishap)
    BY <1>4 DEF EnterRollback
  <2> HIDE DEF new
  <2>3. wf' \in Workflow
    BY <2>1, <2>2, StatusWritten DEF TypeOK
  <2>4. jobs' \in JobsType
    <3>1. Delete(jobs, gone, mishap) \in JobsType
      BY DeleteType DEF TypeOK
    <3>2. \E new2 : jobs' = Create(Delete(jobs, gone, mishap), new2)
      BY <1>4 DEF EnterRollback
    <3> QED BY <3>1, <3>2, CreateType, ZenonT(60)
  <2>5. outputs' \subseteq Steps /\ outputsView' \subseteq Steps
    BY <1>2, <1>4 DEF EnterRollback
  <2> QED
    BY <1>4, <2>3, <2>4, <2>5, FaultsType, MemoryType DEF EnterRollback, TypeOK, world
<1>5. ASSUME Finish(r, mishap) PROVE TypeOK'
  <2> DEFINE end == CompletionPhase(r.synced.completed, r.synced.failed)
             st == ForcedSteps(r.synced.steps)
             new == [r.synced EXCEPT !.phase = end.phase, !.reason = end.reason, !.steps = st]
  <2>1. new \in Workflow
    <3>1. end.phase \in Phase /\ end.reason \in Reason /\ st \in StatusesType
      BY <1>1, NamesOfPhases, ForcedStepsType
    <3> HIDE DEF st, end
    <3> QED BY <1>1, <3>1, WorkflowUpdate
  <2>2. WriteStatus(new, mishap)
    BY <1>5 DEF Finish
  <2> HIDE DEF new
  <2>3. wf' \in Workflow
    BY <2>1, <2>2, StatusWritten DEF TypeOK
  <2>4. jobs' \in JobsType
    BY <1>5, DeleteType DEF Finish, TypeOK
  <2>5. outputs' \subseteq Steps /\ outputsView' \subseteq Steps
    BY <1>5, OutputsType DEF Finish, StoreOutputs, TypeOK, Late, Finished, Completing, Tracked
  <2> QED
    BY <1>5, <2>3, <2>4, <2>5, FaultsType, MemoryType DEF Finish, TypeOK, world
<1>6. ASSUME StartSteps(r, mishap) PROVE TypeOK'
  <2>1. PICK w \in OutputWrites(Finished(r.jm)) :
          LET loop == StartLoop(r, w.seen, mishap = "create")
          IN /\ jobs' = Create(Delete(jobs, Retried(r.jm), mishap), loop.launched \X {"run"})
             /\ StoreOutputs(w)
             /\ WriteStatus([r.synced EXCEPT !.phase = "Running", !.reason = "StepsInProgress",
                                             !.steps = loop.steps,
                                             !.completed = @ + Cardinality(loop.passed)], mishap)
    BY <1>6 DEF StartSteps
  <2> DEFINE loop == StartLoop(r, w.seen, mishap = "create")
             st == loop.steps
             c == r.synced.completed + Cardinality(loop.passed)
             new == [r.synced EXCEPT !.phase = "Running", !.reason = "StepsInProgress",
                                     !.steps = st, !.completed = c]
  <2>2. new \in Workflow
    <3>1. "Running" \in Phase /\ "StepsInProgress" \in Reason /\ 0 \in Nat
      BY DEF Phase, Reason
    <3>2. st \in StatusesType /\ loop.passed \in SUBSET Steps
      BY <1>1, StartLoopType
    <3>3. c \in Nat
      BY <1>1, <3>2, StepsCount DEF Workflow
    <3> HIDE DEF st, c
    <3> QED BY <1>1, <3>1, <3>2, <3>3, WorkflowUpdate
  <2>3. WriteStatus(new, mishap)
    BY <2>1
  <2> HIDE DEF new
  <2>4. wf' \in Workflow
    BY <2>2, <2>3, StatusWritten DEF TypeOK
  <2>5. jobs' \in JobsType
    BY <2>1, DeleteType, CreateType DEF TypeOK
  <2>6. outputs' \subseteq Steps /\ outputsView' \subseteq Steps
    BY <1>2, <2>1
  <2> QED
    BY <1>6, <2>4, <2>5, <2>6, FaultsType, MemoryType DEF StartSteps, TypeOK, world
<1> QED
  BY <1>3, <1>4, <1>5, <1>6

\* A denial at the dashboard writes one step and one counter.
LEMMA FailedByHandType ==
  ASSUME NEW w \in Workflow, NEW s \in Steps
  PROVE  LET x == FailedByHand(w, s)
         IN /\ x \in Workflow
            /\ x.phase = w.phase /\ x.denied = w.denied /\ x.cancel = w.cancel
            /\ x.completed = w.completed /\ x.failed = w.failed + 1
            /\ x.steps = [w.steps EXCEPT ![s] = [@ EXCEPT !.phase = "Failed"]]
<1> DEFINE status == [w.steps[s] EXCEPT !.phase = "Failed"]
           st == [w.steps EXCEPT ![s] = status]
           f == w.failed + 1
<1>1. w.steps \in [Steps -> StepStatus] /\ w.failed \in Nat
  BY DEF Workflow
<1>2. status \in StepStatus
  BY <1>1 DEF StepStatus, StepPhase
<1>3. st \in [Steps -> StepStatus] /\ f \in Nat
  <2> HIDE DEF status
  <2> QED BY <1>1, <1>2
<1>4. FailedByHand(w, s) = [w EXCEPT !.steps = st, !.failed = f]
  BY Zenon DEF FailedByHand
<1>5. st = [w.steps EXCEPT ![s] = [@ EXCEPT !.phase = "Failed"]]
  OBVIOUS
<1> HIDE DEF st, f, status
<1>6. LET x == [w EXCEPT !.steps = st, !.failed = f]
      IN /\ x \in Workflow
         /\ x.phase = w.phase /\ x.denied = w.denied /\ x.cancel = w.cancel
         /\ x.completed = w.completed /\ x.failed = f /\ x.steps = st
  BY <1>3 DEF Workflow
<1> QED
  BY <1>4, <1>5, <1>6 DEF f

\* And everything else that happens to the run.
LEMMA WorldType ==
  ASSUME TypeOK, [Next]_vars, ~Reconcile
  PROVE  TypeOK'
<1> USE DEF TypeOK, server, caches, world, history
<1>1. CASE SyncWorkflow \/ SyncJobs \/ SyncOutputs
  BY <1>1 DEF SyncWorkflow, SyncJobs, SyncOutputs
<1>2. ASSUME NEW s \in Steps, NEW k \in JobKind, JobStarts(s, k)
      PROVE  TypeOK'
  BY <1>2 DEF JobStarts, JobState
<1>3. ASSUME NEW s \in Steps, NEW k \in JobKind, NEW end \in {"complete", "failed"}, JobEnds(s, k, end)
      PROVE  TypeOK'
  BY <1>3 DEF JobEnds, JobState
<1>4. ASSUME NEW s \in Steps, NEW k \in JobKind, JobReaped(s, k)
      PROVE  TypeOK'
  BY <1>4 DEF JobReaped, JobState
<1>5. CASE TimePasses \/ AgentDeleted
  BY <1>5 DEF TimePasses, AgentDeleted
<1>6. CASE RunWorkflowCancel
  BY <1>6 DEF RunWorkflowCancel, Workflow
<1>7. ASSUME NEW s \in Steps,
             RunWorkflowApprove(s) \/ RunWorkflowDeny(s) \/ handleApproveStep(s)
      PROVE  TypeOK'
  <2>1. \A set \in SUBSET Steps : /\ [wf EXCEPT !.approved = set] \in Workflow
                                /\ [wf EXCEPT !.denied = set] \in Workflow
    BY DEF Workflow
  <2>2. wf.approved \cup {s} \in SUBSET Steps /\ wf.denied \cup {s} \in SUBSET Steps
    BY DEF Workflow
  <2>3. wf' \in Workflow
    BY <1>7, <2>1, <2>2, Zenon DEF RunWorkflowApprove, RunWorkflowDeny, handleApproveStep
  <2> QED
    BY <1>7, <2>3 DEF RunWorkflowApprove, RunWorkflowDeny, handleApproveStep
<1>8. CASE Ended \/ UNCHANGED vars
  BY <1>8 DEF Ended, vars
<1>9. ASSUME NEW s \in Steps, handleDenyStep(s)
      PROVE  TypeOK'
  <2>1. wf' \in Workflow
    BY <1>9, FailedByHandType DEF handleDenyStep
  <2> QED
    BY <1>9, <2>1 DEF handleDenyStep
<1> HIDE DEF TypeOK, server, caches, world, history
<1> QED
  BY <1>1, <1>2, <1>3, <1>4, <1>5, <1>6, <1>7, <1>8, <1>9 DEF Next

\* The reconciler, its caches, the cluster and the users keep every variable
\* in its type, counters and retries included.
THEOREM TypeCorrect == Spec => []TypeOK
<1>1. Init => TypeOK
  <2> SUFFICES ASSUME Init PROVE TypeOK
    OBVIOUS
  <2>1. wf \in Workflow
    BY NoStatusType DEF Init, Workflow, Phase, Reason
  <2>2. jobs \in JobsType
    BY DEF Init, JobsType, JobState
  <2>3. 0 \in 0 .. MaxFaults
    BY ControllerAssumption
  <2> QED
    BY <2>1, <2>2, <2>3 DEF Init, TypeOK, JobsType
<1>2. TypeOK /\ [Next]_vars => TypeOK'
  <2> SUFFICES ASSUME TypeOK, [Next]_vars PROVE TypeOK'
    OBVIOUS
  <2>1. CASE Reconcile
    BY <2>1, ReconcileType, SyncingType DEF Reconcile
  <2> QED
    BY <2>1, WorldType
<1> QED
  BY <1>1, <1>2, PTL DEF Spec

-----------------------------------------------------------------------------
(* A terminal status is final.                                             *)

\* A pass changes the workflow only if it has read the latest one, and that
\* one has not ended.
LEMMA OnlyLiveIsWritten ==
  ASSUME Reconcile
  PROVE  wf' = wf \/ wf.phase \notin Terminal
<1>1. wfView.phase \notin Terminal
  <2>1. ASSUME NEW mishap \in Mishap,
               AssignRunID(mishap) \/ CancelRun(mishap) \/ TimeoutRun(mishap) \/ MissAgent(mishap)
        PROVE  Live
    BY <2>1 DEF AssignRunID, CancelRun, TimeoutRun, MissAgent, Proceeding
  <2>2. ASSUME NEW mishap \in Mishap, NEW r \in Readings,
               \/ StopOnFailure(r, mishap) \/ EnterRollback(r, mishap)
               \/ Finish(r, mishap) \/ StartSteps(r, mishap)
        PROVE  Live
    <3>1. Syncing
      BY <2>2 DEF StopOnFailure, EnterRollback, Finish, StartSteps
    <3> QED
      BY <3>1 DEF Syncing, Proceeding
  <2>3. ASSUME NEW mishap \in Mishap, WatchRollback(mishap)
        PROVE  wfView.phase \notin Terminal
    BY <2>3 DEF WatchRollback, Terminal
  <2>4. Live => wfView.phase \notin Terminal
    BY DEF Live
  <2> QED
    BY <2>1, <2>2, <2>3, <2>4 DEF Reconcile
<1>2. wf' = wf \/ wf = wfView
  <2>1. ASSUME NEW mishap \in Mishap,
               CancelRun(mishap) \/ TimeoutRun(mishap) \/ MissAgent(mishap) \/ WatchRollback(mishap)
        PROVE  wf' = wf \/ wf = wfView
    BY <2>1, StatusWritten DEF CancelRun, TimeoutRun, MissAgent, WatchRollback
  <2>2. ASSUME NEW mishap \in Mishap, NEW r \in Readings,
               StopOnFailure(r, mishap) \/ EnterRollback(r, mishap) \/ Finish(r, mishap)
        PROVE  wf' = wf \/ wf = wfView
    BY <2>2, StatusWritten DEF StopOnFailure, EnterRollback, Finish
  <2>3. ASSUME NEW mishap \in Mishap, NEW r \in Readings, StartSteps(r, mishap)
        PROVE  wf' = wf \/ wf = wfView
    BY <2>3, StatusWritten DEF StartSteps
  <2> QED
    BY <2>1, <2>2, <2>3 DEF Reconcile, AssignRunID
<1> QED
  BY <1>1, <1>2

\* Users change annotations, and a denial at the dashboard fails one step.
LEMMA OnlyAnnotations ==
  ASSUME TypeOK, [Next]_vars, ~Reconcile
  PROVE  \/ [wf' EXCEPT !.cancel = wf.cancel, !.approved = wf.approved, !.denied = wf.denied] = wf
         \/ \E s \in overruled' \ overruled : wf' = FailedByHand(wf, s)
<1> USE DEF TypeOK, Workflow
<1>1. CASE wf' = wf
  BY <1>1
<1>2. CASE RunWorkflowCancel
  BY <1>2 DEF RunWorkflowCancel
<1>3. ASSUME NEW s \in Steps,
             RunWorkflowApprove(s) \/ RunWorkflowDeny(s) \/ handleApproveStep(s)
      PROVE  [wf' EXCEPT !.cancel = wf.cancel, !.approved = wf.approved, !.denied = wf.denied] = wf
  <2>1. \A x : /\ [[wf EXCEPT !.approved = x] EXCEPT !.cancel = wf.cancel, !.approved = wf.approved,
                                                     !.denied = wf.denied] = wf
               /\ [[wf EXCEPT !.denied = x] EXCEPT !.cancel = wf.cancel, !.approved = wf.approved,
                                                   !.denied = wf.denied] = wf
    OBVIOUS
  <2> QED
    BY <1>3, <2>1, Zenon DEF RunWorkflowApprove, RunWorkflowDeny, handleApproveStep
<1> HIDE DEF TypeOK, Workflow
<1>4. ASSUME NEW s \in Steps, handleDenyStep(s)
      PROVE  \E d \in overruled' \ overruled : wf' = FailedByHand(wf, d)
  <2>1. s \in overruled' \ overruled /\ wf' = FailedByHand(wf, s)
    BY <1>4 DEF handleDenyStep
  <2> QED BY <2>1
<1>5. \/ wf' = wf \/ RunWorkflowCancel
      \/ \E s \in Steps : \/ RunWorkflowApprove(s) \/ RunWorkflowDeny(s) \/ handleApproveStep(s)
                         \/ handleDenyStep(s)
  BY DEF Next, SyncWorkflow, SyncJobs, SyncOutputs, JobStarts, JobEnds, JobReaped,
         TimePasses, AgentDeleted, Ended, vars, server
<1> QED
  BY <1>1, <1>2, <1>3, <1>4, <1>5

\* Whatever a pass computes from stale caches, a run that has ended keeps its
\* phase; its statuses and counters change only when the dashboard fails a step.
THEOREM TerminalStays == Spec => TerminalIsFinal
<1>1. TypeOK /\ [Next]_vars => [wf.phase \in Terminal =>
        \/ [wf' EXCEPT !.cancel = wf.cancel, !.approved = wf.approved, !.denied = wf.denied] = wf
        \/ \E s \in overruled' \ overruled : wf' = FailedByHand(wf, s)]_vars
  <2> SUFFICES ASSUME TypeOK, [Next]_vars, wf.phase \in Terminal
               PROVE  \/ [wf' EXCEPT !.cancel = wf.cancel, !.approved = wf.approved,
                                     !.denied = wf.denied] = wf
                      \/ \E s \in overruled' \ overruled : wf' = FailedByHand(wf, s)
    OBVIOUS
  <2>1. CASE Reconcile
    <3>1. wf' = wf
      BY <2>1, OnlyLiveIsWritten
    <3> QED BY <3>1 DEF TypeOK, Workflow
  <2> QED
    BY <2>1, OnlyAnnotations
<1> QED
  BY <1>1, TypeCorrect, PTL DEF Spec, TerminalIsFinal

-----------------------------------------------------------------------------
(* What a status write may do to the step statuses: the reconciler refines  *)
(* WorkflowLifecycle, and keeps the retry budget.                           *)

\* The statuses a pass may compute from the latest ones and the Jobs it sees.
SyncedFrom(st) ==
  UNION {{SyncedSteps(st, jobView, jm, lost) : lost \in SUBSET Steps} : jm \in JobMaps(jobView)}

\* A step the start loop visits: it was not settled, is denied only if the user
\* said so, and is complete at once only if it has no agent.
StartedFrom(status, s, new) ==
  /\ status.phase \notin {"Succeeded", "Skipped", "Failed", "Running"}
  /\ \E outcome, approval : /\ new = StartedStatus(status, outcome, approval)
                            /\ outcome = "deny" => s \in wf.denied
                            /\ outcome = "complete" => s \notin HasAgent

Stopped ==
  /\ wf'.phase \in Terminal
  /\ \/ wf'.steps = wf.steps
     \/ wf'.steps = Skipping(wf.steps, {"Running", "Reset"})
     \/ \E st \in SyncedFrom(wf.steps) : wf'.steps = Skipping(st, Unfinished)
     \/ \E st \in SyncedFrom(wf.steps) : wf'.steps = ForcedSteps(st)

RolledBack ==
  /\ wf'.phase = "RollingBack"
  /\ \E st \in SyncedFrom(wf.steps) : wf'.steps = RollingBackSteps(st)

Started ==
  /\ wf'.phase = "Running"
  /\ DOMAIN wf'.steps = Steps
  /\ \E st \in SyncedFrom(wf.steps) : \A s \in Steps :
       wf'.steps[s] = st[s] \/ StartedFrom(st[s], s, wf'.steps[s])

Watched ==
  /\ wf.phase = "RollingBack"
  /\ wf'.steps = RollbackProgress(wf.steps, jobView)
  /\ \/ wf'.phase = "RollingBack"
     \/ wf'.phase = "Failed" /\ \A s \in Steps : wf'.steps[s].phase # "RollingBack"

Kept == wf'.phase = wf.phase /\ wf'.steps = wf.steps /\ wf.denied \subseteq wf'.denied

\* Whatever happens, the status is left alone or is written in one of these ways.
StatusWrite ==
  /\ wf'.denied = wf.denied
  /\ \/ wf.phase \notin Terminal \cup {"RollingBack"} /\ (Stopped \/ RolledBack \/ Started)
     \/ Watched

\* A denial at the dashboard: one step fails and is counted.
Overrules ==
  /\ \E s \in Steps : /\ wf.steps[s].phase # "None" /\ s \in overruled'
                     /\ wf'.steps = [wf.steps EXCEPT ![s] = [@ EXCEPT !.phase = "Failed"]]
  /\ wf'.phase = wf.phase /\ wf'.denied = wf.denied /\ wf'.cancel = wf.cancel
  /\ wf'.completed = wf.completed /\ wf'.failed = wf.failed + 1
  /\ overruled \subseteq overruled' /\ skewed'

LEMMA DenialOverrules ==
  ASSUME TypeOK, NEW s \in Steps, handleDenyStep(s)
  PROVE  Overrules
<1>1. /\ wf' = FailedByHand(wf, s) /\ wf.steps[s].phase # "None"
      /\ overruled' = overruled \cup {s} /\ skewed'
  BY DEF handleDenyStep
<1>2. wf \in Workflow
  BY DEF TypeOK
<1> QED
  BY <1>1, <1>2, FailedByHandType DEF Overrules

\* The readings of a pass are synchronised statuses.
LEMMA ReadingsSynced ==
  ASSUME TypeOK, NEW r \in Readings
  PROVE  /\ r.synced.steps \in SyncedFrom(wfView.steps)
         /\ r.synced.denied = wfView.denied
<1>0. PICK jm \in JobMaps(jobView) : \E lost \in LostWrites(wfView.steps, jobView, jm) :
        r.synced = Synced(jm, lost)
  BY DEF Readings
<1>1. PICK lost \in LostWrites(wfView.steps, jobView, jm) : r.synced = Synced(jm, lost)
  BY <1>0
<1>2. lost \in SUBSET Steps
  <2>1. jm \in [Steps -> JobRef]
    BY JobMapsType
  <2> QED
    BY DEF LostWrites, Touched, Adopted, Completing, Failing, Tracked
<1>3. Loaded \in Workflow /\ Loaded.steps = wfView.steps /\ Loaded.denied = wfView.denied
  BY LoadedType DEF Loaded, TypeOK, Workflow
<1>4. r.synced.steps = SyncedSteps(wfView.steps, jobView, jm, lost) /\ r.synced.denied = wfView.denied
  BY <1>1, <1>3, Zenon DEF Synced, Workflow
<1> QED
  BY <1>2, <1>4 DEF SyncedFrom

\* The fields of an updated workflow.
LEMMA UpdatedFields ==
  ASSUME NEW w \in Workflow, NEW p, NEW q, NEW st, NEW c
  PROVE  /\ LET x == [w EXCEPT !.phase = p, !.reason = q]
            IN x.phase = p /\ x.steps = w.steps /\ x.denied = w.denied
         /\ LET x == [w EXCEPT !.phase = p, !.reason = q, !.steps = st]
            IN x.phase = p /\ x.steps = st /\ x.denied = w.denied
         /\ LET x == [w EXCEPT !.phase = p, !.reason = q, !.steps = st, !.completed = c]
            IN x.phase = p /\ x.steps = st /\ x.denied = w.denied
         /\ LET x == [w EXCEPT !.steps = st]
            IN x.phase = w.phase /\ x.steps = st /\ x.denied = w.denied
  BY DEF Workflow

\* A pass that looks at no Job.
LEMMA ExitWrites ==
  ASSUME TypeOK, NEW mishap \in Mishap,
         \/ AssignRunID(mishap) \/ CancelRun(mishap) \/ TimeoutRun(mishap)
         \/ MissAgent(mishap) \/ WatchRollback(mishap)
  PROVE  Kept \/ StatusWrite
<1>1. CASE AssignRunID(mishap)
  BY <1>1 DEF AssignRunID, Kept, TypeOK, Workflow
<1>2. CASE CancelRun(mishap)
  <2> DEFINE st == Skipping(wfView.steps, {"Running", "Reset"})
             new == [wfView EXCEPT !.phase = "Cancelled", !.reason = "UserCancelled", !.steps = st]
  <2>1. WriteStatus(new, mishap) /\ Live
    BY <1>2 DEF CancelRun
  <2>2. new.phase = "Cancelled" /\ new.steps = st /\ new.denied = wfView.denied
    <3> HIDE DEF st
    <3> QED BY UpdatedFields DEF TypeOK
  <2> HIDE DEF new
  <2> QED
    BY <2>1, <2>2, StatusWritten DEF Kept, StatusWrite, Stopped, Live, Terminal
<1>3. CASE TimeoutRun(mishap)
  <2> DEFINE new == [wfView EXCEPT !.phase = "Failed", !.reason = "WorkflowTimeout"]
  <2>1. WriteStatus(new, mishap) /\ Live
    BY <1>3 DEF TimeoutRun
  <2>2. new.phase = "Failed" /\ new.steps = wfView.steps /\ new.denied = wfView.denied
    BY DEF TypeOK, Workflow
  <2> HIDE DEF new
  <2> QED
    BY <2>1, <2>2, StatusWritten DEF Kept, StatusWrite, Stopped, Live, Terminal
<1>4. CASE MissAgent(mishap)
  <2> DEFINE new == [Loaded EXCEPT !.phase = "Failed", !.reason = "AgentNotFound"]
  <2>1. WriteStatus(new, mishap) /\ Live
    BY <1>4 DEF MissAgent, Proceeding
  <2>2. Loaded \in Workflow /\ Loaded.steps = wfView.steps /\ Loaded.denied = wfView.denied
    BY LoadedType DEF Loaded, TypeOK, Workflow
  <2>3. new.phase = "Failed" /\ new.steps = wfView.steps /\ new.denied = wfView.denied
    BY <2>2 DEF Workflow
  <2> HIDE DEF new
  <2> QED
    BY <2>1, <2>3, StatusWritten DEF Kept, StatusWrite, Stopped, Live, Terminal
<1>5. CASE WatchRollback(mishap)
  <2> DEFINE st == RollbackProgress(wfView.steps, jobView)
             over == \A s \in Steps : st[s].phase # "RollingBack"
             ended == [wfView EXCEPT !.phase = "Failed", !.reason = "RolledBack", !.steps = st]
             going == [wfView EXCEPT !.steps = st]
  <2>1. WriteStatus(IF over THEN ended ELSE going, mishap) /\ wfView.phase = "RollingBack"
    BY <1>5, Zenon DEF WatchRollback
  <2>2. /\ ended.phase = "Failed" /\ ended.steps = st /\ ended.denied = wfView.denied
        /\ going.phase = wfView.phase /\ going.steps = st /\ going.denied = wfView.denied
    <3> HIDE DEF st
    <3> QED BY UpdatedFields DEF TypeOK
  <2> HIDE DEF ended, going
  <2>3. CASE over
    BY <2>1, <2>2, <2>3, StatusWritten DEF Kept, StatusWrite, Watched
  <2>4. CASE ~over
    BY <2>1, <2>2, <2>4, StatusWritten DEF Kept, StatusWrite, Watched
  <2> QED
    BY <2>3, <2>4
<1> QED
  BY <1>1, <1>2, <1>3, <1>4, <1>5

\* A step is denied only if the user said so, and completed at once only without an agent.
LEMMA OutcomeReasons ==
  ASSUME NEW s, NEW seen, NEW approved, NEW denied, NEW refused,
         NEW o, o = Outcome(s, seen, approved, denied, refused)
  PROVE  /\ o = "deny" => s \in denied
         /\ o = "complete" => s \notin HasAgent
<1>1. \/ o = "skip"
      \/ o = "complete" /\ s \notin HasAgent
      \/ o = "deny" /\ s \in denied
      \/ o = "wait"
      \/ o = "refused"
      \/ o = "launch"
  BY DEF Outcome
<1> QED
  BY <1>1

\* What the start loop does to the statuses.
LEMMA StartLoopWrites ==
  ASSUME NEW r, NEW seen, NEW refused
  PROVE  LET st == StartLoop(r, seen, refused).steps
         IN /\ DOMAIN st = Steps
            /\ wf = wfView => \A s \in Steps :
                 st[s] = r.synced.steps[s] \/ StartedFrom(r.synced.steps[s], s, st[s])
<1> DEFINE free == AfterRetries(wfView.steps, jobView, r.jm)
           executable == FindExecutableSteps(r.synced.steps, free)
           outcome(s) == Outcome(s, seen, wfView.approved, wfView.denied, refused)
           st == StartLoop(r, seen, refused).steps
<1>1. \A s \in executable : r.synced.steps[s].phase \notin {"Succeeded", "Skipped", "Failed", "Running"}
  BY DEF FindExecutableSteps
<1>2. PICK visited \in SUBSET executable :
        st = [s \in Steps |-> IF s \in visited
                              THEN StartedStatus(r.synced.steps[s], outcome(s), s \in NeedsApproval)
                              ELSE r.synced.steps[s]]
  BY DEF StartLoop, Visited
<1> HIDE DEF executable, st
<1>3. DOMAIN st = Steps
  BY <1>2
<1>4. ASSUME wf = wfView, NEW s \in Steps
      PROVE  st[s] = r.synced.steps[s] \/ StartedFrom(r.synced.steps[s], s, st[s])
  <2>1. CASE s \in visited
    <3> DEFINE o == outcome(s)
               approval == s \in NeedsApproval
    <3>1. st[s] = StartedStatus(r.synced.steps[s], o, approval)
      BY <1>2, <2>1
    <3>2. r.synced.steps[s].phase \notin {"Succeeded", "Skipped", "Failed", "Running"}
      BY <1>1, <2>1
    <3>3. (o = "deny" => s \in wf.denied) /\ (o = "complete" => s \notin HasAgent)
      BY <1>4, OutcomeReasons
    <3> HIDE DEF o, approval
    <3> QED
      BY <3>1, <3>2, <3>3, Zenon DEF StartedFrom
  <2> QED
    BY <1>2, <2>1
<1> QED
  BY <1>3, <1>4 DEF st

\* A pass that synchronises.
LEMMA SyncingWrites ==
  ASSUME TypeOK, NEW mishap \in Mishap, NEW r \in Readings,
         \/ StopOnFailure(r, mishap) \/ EnterRollback(r, mishap)
         \/ Finish(r, mishap) \/ StartSteps(r, mishap)
  PROVE  Kept \/ StatusWrite
<1>1. /\ r.synced \in Workflow
      /\ r.synced.steps \in SyncedFrom(wfView.steps) /\ r.synced.denied = wfView.denied
      /\ r.synced.steps \in StatusesType
  BY ReadingsType, ReadingsSynced DEF Workflow, StatusesType
<1>2. Live
  BY DEF StopOnFailure, EnterRollback, Finish, StartSteps, Syncing, Proceeding
<1>3. CASE StopOnFailure(r, mishap)
  <2> DEFINE st == Skipping(r.synced.steps, Unfinished)
             new == [r.synced EXCEPT !.phase = "Failed", !.reason = "StepFailed", !.steps = st]
  <2>1. WriteStatus(new, mishap)
    BY <1>3 DEF StopOnFailure
  <2>2. new.phase = "Failed" /\ new.steps = st /\ new.denied = r.synced.denied
    <3> HIDE DEF st
    <3> QED BY <1>1, UpdatedFields
  <2> HIDE DEF new
  <2> QED
    BY <1>1, <1>2, <2>1, <2>2, StatusWritten DEF Kept, StatusWrite, Stopped, Live, Terminal
<1>4. CASE EnterRollback(r, mishap)
  <2> DEFINE st == RollingBackSteps(r.synced.steps)
             new == [r.synced EXCEPT !.phase = "RollingBack", !.reason = "RollbackInProgress",
                                     !.steps = st]
  <2>1. WriteStatus(new, mishap)
    BY <1>4 DEF EnterRollback
  <2>2. new.phase = "RollingBack" /\ new.steps = st /\ new.denied = r.synced.denied
    <3> HIDE DEF st
    <3> QED BY <1>1, UpdatedFields
  <2> HIDE DEF new
  <2> QED
    BY <1>1, <1>2, <2>1, <2>2, StatusWritten DEF Kept, StatusWrite, RolledBack, Live, Terminal
<1>5. CASE Finish(r, mishap)
  <2> DEFINE end == CompletionPhase(r.synced.completed, r.synced.failed)
             st == ForcedSteps(r.synced.steps)
             new == [r.synced EXCEPT !.phase = end.phase, !.reason = end.reason, !.steps = st]
  <2>1. WriteStatus(new, mishap)
    BY <1>5 DEF Finish
  <2>2. new.phase = end.phase /\ new.steps = st /\ new.denied = r.synced.denied
    <3> HIDE DEF st, end
    <3> QED BY <1>1, UpdatedFields
  <2>3. end.phase \in Terminal
    BY NamesOfPhases
  <2> HIDE DEF new, end
  <2> QED
    BY <1>1, <1>2, <2>1, <2>2, <2>3, StatusWritten DEF Kept, StatusWrite, Stopped, Live
<1>6. CASE StartSteps(r, mishap)
  <2>1. PICK w \in OutputWrites(Finished(r.jm)) :
          LET loop == StartLoop(r, w.seen, mishap = "create")
          IN WriteStatus([r.synced EXCEPT !.phase = "Running", !.reason = "StepsInProgress",
                                          !.steps = loop.steps,
                                          !.completed = @ + Cardinality(loop.passed)], mishap)
    BY <1>6 DEF StartSteps
  <2> DEFINE loop == StartLoop(r, w.seen, mishap = "create")
             st == loop.steps
             c == r.synced.completed + Cardinality(loop.passed)
             new == [r.synced EXCEPT !.phase = "Running", !.reason = "StepsInProgress",
                                     !.steps = st, !.completed = c]
  <2>2. WriteStatus(new, mishap)
    BY <2>1
  <2>3. new.phase = "Running" /\ new.steps = st /\ new.denied = r.synced.denied
    <3> HIDE DEF st, c
    <3> QED BY <1>1, UpdatedFields
  <2>4. /\ DOMAIN st = Steps
        /\ wf = wfView => \A s \in Steps :
             st[s] = r.synced.steps[s] \/ StartedFrom(r.synced.steps[s], s, st[s])
    BY StartLoopWrites
  <2> HIDE DEF new, st
  <2> QED
    BY <1>1, <1>2, <2>2, <2>3, <2>4, StatusWritten DEF Kept, StatusWrite, Started, Live
<1> QED
  BY <1>3, <1>4, <1>5, <1>6

LEMMA NextWrites ==
  ASSUME TypeOK, [Next]_vars
  PROVE  Kept \/ StatusWrite \/ Overrules
<1>1. CASE Reconcile
  BY <1>1, ExitWrites, SyncingWrites DEF Reconcile
<1>2. CASE ~Reconcile
  <2>1. \/ wf' = wf \/ RunWorkflowCancel
        \/ \E s \in Steps : \/ RunWorkflowApprove(s) \/ RunWorkflowDeny(s) \/ handleApproveStep(s)
                           \/ handleDenyStep(s)
    BY <1>2 DEF Next, SyncWorkflow, SyncJobs, SyncOutputs, JobStarts, JobEnds, JobReaped,
           TimePasses, AgentDeleted, Ended, vars, server
  <2>2. \A x : /\ [wf EXCEPT !.cancel = x].phase = wf.phase
               /\ [wf EXCEPT !.cancel = x].steps = wf.steps
               /\ [wf EXCEPT !.cancel = x].denied = wf.denied
               /\ [wf EXCEPT !.approved = x].phase = wf.phase
               /\ [wf EXCEPT !.approved = x].steps = wf.steps
               /\ [wf EXCEPT !.approved = x].denied = wf.denied
               /\ [wf EXCEPT !.denied = x].phase = wf.phase
               /\ [wf EXCEPT !.denied = x].steps = wf.steps
               /\ [wf EXCEPT !.denied = x].denied = x
    BY DEF TypeOK, Workflow
  <2>3. CASE wf' = wf
    BY <2>3 DEF Kept
  <2>4. CASE RunWorkflowCancel
    BY <2>2, <2>4 DEF RunWorkflowCancel, Kept
  <2>5. ASSUME NEW s \in Steps,
               RunWorkflowApprove(s) \/ RunWorkflowDeny(s) \/ handleApproveStep(s)
        PROVE  Kept
    <3>1. CASE RunWorkflowApprove(s) \/ handleApproveStep(s)
      <4>1. wf' = [wf EXCEPT !.approved = wf.approved \cup {s}]
        BY <3>1, Zenon DEF RunWorkflowApprove, handleApproveStep
      <4> QED
        BY <2>2, <4>1 DEF Kept
    <3>2. CASE RunWorkflowDeny(s)
      <4>1. wf' = [wf EXCEPT !.denied = wf.denied \cup {s}]
        BY <3>2 DEF RunWorkflowDeny
      <4> DEFINE more == wf.denied \cup {s}
      <4>2. wf.denied \subseteq more
        OBVIOUS
      <4> HIDE DEF more
      <4> QED
        BY <2>2, <4>1, <4>2 DEF Kept, more
    <3> QED
      BY <2>5, <3>1, <3>2
  <2> QED
    BY <2>1, <2>3, <2>4, <2>5, DenialOverrules
<1> QED
  BY <1>1, <1>2

-----------------------------------------------------------------------------
(* What a step leaves alone.                                               *)

\* A pass leaves the caches of the Workflow and the Jobs and the history of
\* the steps alone.
LEMMA PassKeeps ==
  ASSUME Reconcile
  PROVE  /\ wfView' = wfView /\ jobView' = jobView /\ ranOK' = ranOK /\ ranBad' = ranBad
         /\ overruled' = overruled /\ (skewed => skewed')
<1> USE DEF caches, history
<1>1. ASSUME NEW mishap \in Mishap,
             \/ AssignRunID(mishap) \/ CancelRun(mishap) \/ TimeoutRun(mishap)
             \/ MissAgent(mishap) \/ WatchRollback(mishap)
      PROVE  /\ wfView' = wfView /\ jobView' = jobView /\ ranOK' = ranOK /\ ranBad' = ranBad
             /\ overruled' = overruled /\ (skewed => skewed')
  BY <1>1 DEF AssignRunID, CancelRun, TimeoutRun, MissAgent, WatchRollback
<1>2. ASSUME NEW mishap \in Mishap, NEW r \in Readings,
             \/ StopOnFailure(r, mishap) \/ EnterRollback(r, mishap)
             \/ Finish(r, mishap) \/ StartSteps(r, mishap)
      PROVE  /\ wfView' = wfView /\ jobView' = jobView /\ ranOK' = ranOK /\ ranBad' = ranBad
             /\ overruled' = overruled /\ (skewed => skewed')
  BY <1>2 DEF StopOnFailure, EnterRollback, Finish, StartSteps, Remember
<1> QED
  BY <1>1, <1>2 DEF Reconcile

\* The cached Workflow is an earlier or the latest one.
LEMMA ViewMoves ==
  ASSUME [Next]_vars
  PROVE  wfView' = wfView \/ wfView' = wf
<1>1. CASE Reconcile
  BY <1>1, PassKeeps
<1> QED
  BY <1>1 DEF Next, SyncWorkflow, SyncJobs, SyncOutputs, JobStarts, JobEnds, JobReaped, TimePasses,
              AgentDeleted, RunWorkflowCancel, RunWorkflowApprove, RunWorkflowDeny,
         handleApproveStep, handleDenyStep, Ended,
              vars, caches

\* A denial at the dashboard is not forgotten, nor that a count has parted.
LEMMA OverruledGrows ==
  ASSUME [Next]_vars
  PROVE  overruled \subseteq overruled' /\ (skewed => skewed')
<1>1. CASE Reconcile
  BY <1>1, PassKeeps
<1>2. ASSUME NEW s \in Steps, NEW k \in JobKind, NEW end \in {"complete", "failed"}, JobEnds(s, k, end)
      PROVE  overruled \subseteq overruled' /\ (skewed => skewed')
  BY <1>2 DEF JobEnds
<1>3. ASSUME NEW s \in Steps, handleDenyStep(s)
      PROVE  overruled \subseteq overruled' /\ (skewed => skewed')
  BY <1>3 DEF handleDenyStep
<1>4. \/ Reconcile \/ UNCHANGED history
      \/ \E s \in Steps, k \in JobKind, end \in {"complete", "failed"} : JobEnds(s, k, end)
      \/ \E s \in Steps : handleDenyStep(s)
  BY DEF Next, SyncWorkflow, SyncJobs, SyncOutputs, JobStarts, JobReaped, TimePasses,
         AgentDeleted, RunWorkflowCancel, RunWorkflowApprove, RunWorkflowDeny,
         handleApproveStep, Ended, vars
<1> QED
  BY <1>1, <1>2, <1>3, <1>4 DEF history

\* The history of the Jobs only grows.
LEMMA HistoryGrows ==
  ASSUME TypeOK, [Next]_vars
  PROVE  ranOK \subseteq ranOK' /\ \A s \in Steps : ranBad[s] > 0 => ranBad'[s] > 0
<1>1. CASE Reconcile
  BY <1>1, PassKeeps
<1>2. ASSUME NEW s \in Steps, NEW k \in JobKind, NEW end \in {"complete", "failed"}, JobEnds(s, k, end)
      PROVE  ranOK \subseteq ranOK' /\ \A t \in Steps : ranBad[t] > 0 => ranBad'[t] > 0
  <2>1. ranOK \subseteq ranOK'
    BY <1>2 DEF JobEnds
  <2>2. ranBad' = ranBad \/ ranBad' = [ranBad EXCEPT ![s] = @ + 1]
    BY <1>2, Zenon DEF JobEnds
  <2>3. ranBad \in [Steps -> Nat]
    BY DEF TypeOK
  <2> QED
    BY <2>1, <2>2, <2>3
<1>3. ASSUME UNCHANGED <<ranOK, ranBad>> PROVE ranOK \subseteq ranOK' /\ \A s \in Steps : ranBad[s] > 0 => ranBad'[s] > 0
  BY <1>3
<1>4. \/ Reconcile \/ UNCHANGED <<ranOK, ranBad>>
      \/ \E s \in Steps, k \in JobKind, end \in {"complete", "failed"} : JobEnds(s, k, end)
  BY DEF Next, SyncWorkflow, SyncJobs, SyncOutputs, JobStarts, JobReaped, TimePasses,
         AgentDeleted, RunWorkflowCancel, RunWorkflowApprove, RunWorkflowDeny,
         handleApproveStep, handleDenyStep, Ended, vars, history
<1> QED
  BY <1>1, <1>2, <1>3, <1>4

-----------------------------------------------------------------------------
(* The retry budget, step by step.                                         *)

Within(status, s, denied) ==
  /\ status.retry <= MaxRetries[s]
  /\ status.phase = "Failed" /\ s \notin denied => status.retry = MaxRetries[s]

\* Synchronising retries below the limit and gives up at it.
LEMMA SyncedWithin ==
  ASSUME NEW st \in StatusesType, NEW new \in SyncedFrom(st), NEW s \in Steps, NEW denied,
         Within(st[s], s, denied)
  PROVE  Within(new[s], s, denied)
<1>1. PICK jm \in JobMaps(jobView) : \E lost \in SUBSET Steps : new = SyncedSteps(st, jobView, jm, lost)
  BY DEF SyncedFrom
<1>2. PICK lost \in SUBSET Steps : new = SyncedSteps(st, jobView, jm, lost)
  BY <1>1
<1> DEFINE found == IF s \in Adopted(st, jm)
                    THEN [st[s] EXCEPT !.phase = "Running", !.job = jm[s]] ELSE st[s]
<1>3. new[s] = SyncedStatus(st, jobView, jm, lost, s)
  BY <1>2 DEF SyncedSteps
<1>4. /\ found \in StepStatus
      /\ found.retry = st[s].retry
      /\ found.phase = st[s].phase \/ found.phase = "Running"
  <2>1. jm[s] \in JobRef /\ st[s] \in StepStatus
    BY JobMapsType DEF StatusesType
  <2> DEFINE job == jm[s]
  <2>2. "Running" \in StepPhase /\ job \in JobRef
    BY <2>1 DEF StepPhase
  <2> HIDE DEF job
  <2>3. LET x == [st[s] EXCEPT !.phase = "Running", !.job = job]
        IN x \in StepStatus /\ x.retry = st[s].retry /\ x.phase = "Running"
    BY <2>1, <2>2 DEF StepStatus
  <2> QED
    BY <2>1, <2>3 DEF job
<1>5. MaxRetries[s] \in Nat
  BY SchedulingAssumption
<1>6. \/ new[s] = found
      \/ new[s] = [found EXCEPT !.phase = "Succeeded"]
      \/ s \in Retrying(st, jobView, jm) /\ new[s] = [found EXCEPT !.phase = "Reset", !.retry = @ + 1]
      \/ s \in GivingUp(st, jobView, jm) /\ new[s] = [found EXCEPT !.phase = "Failed"]
  BY <1>3, Zenon DEF SyncedStatus
<1> HIDE DEF found
<1>7. CASE new[s] = found \/ new[s] = [found EXCEPT !.phase = "Succeeded"]
  BY <1>4, <1>7 DEF Within, StepStatus
<1>8. CASE s \in Retrying(st, jobView, jm) /\ new[s] = [found EXCEPT !.phase = "Reset", !.retry = @ + 1]
  <2>1. st[s].retry < MaxRetries[s]
    BY <1>8 DEF Retrying
  <2>2. new[s].phase = "Reset" /\ new[s].retry = st[s].retry + 1
    BY <1>4, <1>8 DEF StepStatus
  <2>3. st[s].retry \in Nat
    BY DEF StatusesType, StepStatus
  <2> QED
    BY <1>5, <2>1, <2>2, <2>3 DEF Within
<1>9. CASE s \in GivingUp(st, jobView, jm) /\ new[s] = [found EXCEPT !.phase = "Failed"]
  <2>1. ~(st[s].retry < MaxRetries[s])
    BY <1>9 DEF GivingUp, Retrying
  <2>2. new[s].retry = st[s].retry /\ st[s].retry \in Nat
    BY <1>4, <1>9 DEF StatusesType, StepStatus
  <2> QED
    BY <1>5, <2>1, <2>2 DEF Within
<1> QED
  BY <1>6, <1>7, <1>8, <1>9

\* Synchronised statuses have their type.
LEMMA SyncedFromType ==
  ASSUME NEW st \in StatusesType, NEW new \in SyncedFrom(st)
  PROVE  new \in StatusesType
  BY JobMapsType, SyncedStepsType DEF SyncedFrom

\* Stopping, finishing and rolling back retry and fail no step.
LEMMA StoppingWithin ==
  ASSUME NEW st \in StatusesType, NEW s \in Steps, NEW denied, Within(st[s], s, denied),
         NEW phases, NEW view
  PROVE  /\ Within(Skipping(st, phases)[s], s, denied)
         /\ Within(ForcedSteps(st)[s], s, denied)
         /\ Within(RollingBackSteps(st)[s], s, denied)
         /\ Within(RollbackProgress(st, view)[s], s, denied)
<1> USE DEF StatusesType, StepStatus, Within
<1>1. Within(Skipping(st, phases)[s], s, denied)
  BY DEF Skipping
<1>2. Within(ForcedSteps(st)[s], s, denied)
  BY DEF ForcedSteps
<1>3. Within(RollingBackSteps(st)[s], s, denied)
  BY DEF RollingBackSteps
<1>4. Within(RollbackProgress(st, view)[s], s, denied)
  BY DEF RollbackProgress
<1> QED
  BY <1>1, <1>2, <1>3, <1>4

\* Starting fails a step only when it was denied.
LEMMA StartingWithin ==
  ASSUME NEW status \in StepStatus, NEW s \in Steps, NEW denied, wf.denied \subseteq denied,
         Within(status, s, denied), NEW new, StartedFrom(status, s, new)
  PROVE  Within(new, s, denied)
  BY DEF StartedFrom, StartedStatus, StepStatus, Within

\* The retry counter never passes the policy, and no step that nobody denied is
\* given up before it gets there, over stale caches, lost updates and refused
\* writes.  (The counter: the Jobs are not counted.)
THEOREM RetriesWithinBudget == Spec => []RetryBudget
<1> DEFINE Denied == wf.denied \cup overruled
<1> DEFINE Budget == \A s \in Steps : Within(wf.steps[s], s, Denied)
<1>1. Init => Budget
  <2> SUFFICES ASSUME Init, NEW s \in Steps PROVE Within(wf.steps[s], s, Denied)
    OBVIOUS
  <2>1. wf.steps[s] = NoStatus /\ MaxRetries[s] \in Nat
    BY SchedulingAssumption DEF Init
  <2> QED
    BY <2>1 DEF NoStatus, Within
<1>2. TypeOK /\ TypeOK' /\ Budget /\ [Next]_vars => Budget'
  <2> SUFFICES ASSUME TypeOK, TypeOK', Budget, [Next]_vars, NEW s \in Steps
               PROVE  Within(wf'.steps[s], s, Denied')
    OBVIOUS
  <2>1. wf.steps \in StatusesType /\ wf'.steps \in StatusesType
    BY DEF TypeOK, Workflow, StatusesType
  <2>0. overruled \subseteq overruled'
    BY OverruledGrows
  <2>2. CASE Kept
    BY <2>0, <2>2 DEF Kept, Within
  <2>3. ASSUME NEW st \in SyncedFrom(wf.steps)
        PROVE  st \in StatusesType /\ Within(st[s], s, Denied)
    BY <2>1, SyncedFromType, SyncedWithin
  <2>8. ASSUME wf'.denied = wf.denied, Within(wf'.steps[s], s, Denied)
        PROVE  Within(wf'.steps[s], s, Denied')
    BY <2>0, <2>8 DEF Within
  <2>4. CASE wf'.denied = wf.denied /\ Stopped
    BY <2>1, <2>3, <2>4, <2>8, StoppingWithin DEF Stopped
  <2>5. CASE wf'.denied = wf.denied /\ RolledBack
    BY <2>3, <2>5, <2>8, StoppingWithin DEF RolledBack
  <2>6. CASE wf'.denied = wf.denied /\ Started
    <3>1. PICK st \in SyncedFrom(wf.steps) :
            wf'.steps[s] = st[s] \/ StartedFrom(st[s], s, wf'.steps[s])
      BY <2>6 DEF Started
    <3>2. st[s] \in StepStatus
      BY <2>3 DEF StatusesType
    <3> QED
      BY <2>3, <2>6, <2>8, <3>1, <3>2, StartingWithin
  <2>7. CASE wf'.denied = wf.denied /\ Watched
    BY <2>1, <2>7, <2>8, StoppingWithin DEF Watched
  <2>9. CASE Overrules
    <3>1. PICK d \in Steps : /\ d \in overruled'
                             /\ wf'.steps = [wf.steps EXCEPT ![d] = [@ EXCEPT !.phase = "Failed"]]
      BY <2>9 DEF Overrules
    <3>2. wf'.steps[s].retry = wf.steps[s].retry /\ (s # d => wf'.steps[s] = wf.steps[s])
      BY <2>1, <3>1 DEF StatusesType, StepStatus
    <3> QED BY <2>0, <2>9, <3>1, <3>2 DEF Overrules, Within
  <2> QED
    BY <2>2, <2>4, <2>5, <2>6, <2>7, <2>9, NextWrites DEF StatusWrite
<1>3. Budget => RetryBudget
  BY DEF RetryBudget, Within
<1> QED
  BY <1>1, <1>2, <1>3, TypeCorrect, PTL DEF Spec

-----------------------------------------------------------------------------
(* The reconciler refines the lifecycle.                                   *)

Moves(p) == Lifecycle!MayBecome(p)

\* Two moves forward are one.
LEMMA MovesCompose ==
  ASSUME NEW p, NEW q \in Moves(p), NEW r \in Moves(q)
  PROVE  r \in Moves(p)
  BY DEF Moves, Lifecycle!MayBecome, Lifecycle!Open, Lifecycle!Done

\* Synchronising moves forward only steps that have not started or that run.
LEMMA SyncedMoves ==
  ASSUME NEW st \in StatusesType, NEW new \in SyncedFrom(st), NEW s \in Steps
  PROVE  new[s].phase \in Moves(st[s].phase)
<1>1. PICK jm \in JobMaps(jobView) : \E lost \in SUBSET Steps : new = SyncedSteps(st, jobView, jm, lost)
  BY DEF SyncedFrom
<1>2. PICK lost \in SUBSET Steps : new = SyncedSteps(st, jobView, jm, lost)
  BY <1>1
<1> DEFINE found == IF s \in Adopted(st, jm)
                    THEN [st[s] EXCEPT !.phase = "Running", !.job = jm[s]] ELSE st[s]
<1>3. new[s] = SyncedStatus(st, jobView, jm, lost, s)
  BY <1>2 DEF SyncedSteps
<1>4. DOMAIN found = {"phase", "retry", "job"} /\ found = [x \in {"phase", "retry", "job"} |-> found[x]]
  BY DEF StatusesType, StepStatus
<1>5. \/ found.phase = st[s].phase
      \/ found.phase = "Running" /\ st[s].phase = "None"
  BY DEF StatusesType, StepStatus, Adopted
<1>6. \/ new[s] = found
      \/ s \in Tracked(st, jm) /\ \/ new[s] = [found EXCEPT !.phase = "Succeeded"]
                                  \/ new[s] = [found EXCEPT !.phase = "Reset", !.retry = @ + 1]
                                  \/ new[s] = [found EXCEPT !.phase = "Failed"]
  BY <1>3, Zenon DEF SyncedStatus, Completing, Retrying, GivingUp, Failing
<1> HIDE DEF found
<1>7. \/ new[s].phase = found.phase
      \/ s \in Tracked(st, jm) /\ new[s].phase \in {"Succeeded", "Reset", "Failed"}
  BY <1>4, <1>6
<1>8. s \in Tracked(st, jm) => st[s].phase \in {"None", "Running"}
  BY DEF Tracked
<1> QED
  BY <1>5, <1>7, <1>8 DEF Moves, Lifecycle!MayBecome, Lifecycle!Open, Lifecycle!Done

\* Skipping and forcing end steps that are open, and touch no other.
LEMMA StoppingMoves ==
  ASSUME NEW st \in StatusesType, NEW s \in Steps
  PROVE  /\ Skipping(st, {"Running", "Reset"})[s].phase \in Moves(st[s].phase)
         /\ Skipping(st, Unfinished)[s].phase \in Moves(st[s].phase)
         /\ ForcedSteps(st)[s].phase \in Moves(st[s].phase)
<1>1. Skipping(st, {"Running", "Reset"})[s].phase =
        IF st[s].phase \in {"Running", "Reset"} THEN "Skipped" ELSE st[s].phase
  BY DEF Skipping, StatusesType, StepStatus
<1>2. Skipping(st, Unfinished)[s].phase =
        IF st[s].phase \in Unfinished THEN "Skipped" ELSE st[s].phase
  BY DEF Skipping, StatusesType, StepStatus
<1>3. ForcedSteps(st)[s].phase =
        IF st[s].phase \in {"Running", "Reset"} THEN "Succeeded" ELSE st[s].phase
  BY DEF ForcedSteps, StatusesType, StepStatus
<1> QED
  BY <1>1, <1>2, <1>3 DEF Unfinished, Moves, Lifecycle!MayBecome, Lifecycle!Open, Lifecycle!Done

\* The start loop moves forward steps that are not settled.
LEMMA StartingMoves ==
  ASSUME NEW status \in StepStatus, NEW s, NEW new, StartedFrom(status, s, new),
         status.phase \notin {"RollingBack", "RolledBack"}
  PROVE  new.phase \in Moves(status.phase)
<1>1. status.phase \in {"None", "Reset", "Pending"}
  BY DEF StartedFrom, StepStatus, StepPhase
<1>2. \/ new.phase \in {"Skipped", "Succeeded", "Failed", "Pending", "Running"}
      \/ new.phase = "Reset"
      \/ new.phase = status.phase
  BY DEF StartedFrom, StartedStatus, StepStatus
<1> QED
  BY <1>1, <1>2 DEF Moves, Lifecycle!MayBecome, Lifecycle!Open, Lifecycle!Done

\* Entering the rollback leaves no success and nothing open.
LEMMA RollbackMoves ==
  ASSUME NEW st \in StatusesType, NEW s \in Steps,
         st[s].phase \notin {"RollingBack", "RolledBack"}
  PROVE  /\ RollingBackSteps(st)[s].phase \in {"None", "Failed", "Skipped", "RollingBack", "RolledBack"}
         /\ st[s].phase \in {"Failed", "Skipped"} => RollingBackSteps(st)[s].phase = st[s].phase
  BY DEF RollingBackSteps, StatusesType, StepStatus, StepPhase, Unfinished

\* While the run goes forward, no step is being undone; "Pending" is never
\* written: the pass that sets it writes "Running" or an end over it.
Forward ==
  wf.phase \notin Terminal \cup {"RollingBack"} =>
    /\ wf.phase \in {"", "Running"}
    /\ \A s \in Steps : wf.steps[s].phase \notin {"RollingBack", "RolledBack"}

StepPhases == [s \in Steps |-> wf.steps[s].phase]

\* A step that moves forward from a phase that is not undone gets to none.
LEMMA MovesForward ==
  ASSUME NEW p, p \notin {"RollingBack", "RolledBack"}, NEW q \in Moves(p)
  PROVE  q \notin {"RollingBack", "RolledBack"}
  BY DEF Moves, Lifecycle!MayBecome, Lifecycle!Open, Lifecycle!Done

\* Each kind of status write is a step of the lifecycle, and keeps Forward.
LEMMA WriteRefines ==
  ASSUME TypeOK, TypeOK', Forward, StatusWrite
  PROVE  /\ Lifecycle!Advance \/ Lifecycle!BeginRollback \/ Lifecycle!UndoSteps
         /\ Forward'
<1>1. wf.steps \in StatusesType /\ wf'.steps \in StatusesType
  BY DEF TypeOK, Workflow, StatusesType
<1>2. /\ \A s \in Steps : StepPhases[s] = wf.steps[s].phase
      /\ \A s \in Steps : StepPhases'[s] = wf'.steps[s].phase
      /\ DOMAIN StepPhases' = Steps
  BY DEF StepPhases
<1>3. ASSUME NEW st \in SyncedFrom(wf.steps), NEW s \in Steps
      PROVE  /\ st \in StatusesType /\ st[s] \in StepStatus
             /\ st[s].phase \in Moves(wf.steps[s].phase)
  BY <1>1, SyncedFromType, SyncedMoves DEF StatusesType
<1>4. CASE wf.phase \in {"", "Running"} /\ Stopped
  <2>1. ASSUME NEW s \in Steps PROVE wf'.steps[s].phase \in Moves(wf.steps[s].phase)
    <3>1. CASE wf'.steps = wf.steps
      BY <3>1 DEF Moves, Lifecycle!MayBecome, Lifecycle!Open
    <3>2. CASE wf'.steps = Skipping(wf.steps, {"Running", "Reset"})
      BY <1>1, <3>2, StoppingMoves
    <3>3. ASSUME NEW st \in SyncedFrom(wf.steps),
                 wf'.steps = Skipping(st, Unfinished) \/ wf'.steps = ForcedSteps(st)
          PROVE  wf'.steps[s].phase \in Moves(wf.steps[s].phase)
      <4>1. wf'.steps[s].phase \in Moves(st[s].phase)
        BY <1>3, <3>3, StoppingMoves
      <4> QED
        BY <1>3, <4>1, MovesCompose
    <3> QED
      BY <1>4, <3>1, <3>2, <3>3 DEF Stopped
  <2>2. Lifecycle!Advance
    BY <1>2, <1>4, <2>1 DEF Lifecycle!Advance, Lifecycle!End, Stopped, Terminal, Moves, StepPhases
  <2> QED
    BY <1>4, <2>2 DEF Forward, Stopped
<1>5. CASE wf.phase \in {"", "Running"} /\ Started
  <2>1. PICK st \in SyncedFrom(wf.steps) : \A s \in Steps :
          wf'.steps[s] = st[s] \/ StartedFrom(st[s], s, wf'.steps[s])
    BY <1>5 DEF Started
  <2>2. ASSUME NEW s \in Steps
        PROVE  /\ wf'.steps[s].phase \in Moves(wf.steps[s].phase)
               /\ wf'.steps[s].phase \notin {"RollingBack", "RolledBack"}
    <3>1. wf.steps[s].phase \notin {"RollingBack", "RolledBack"}
      BY <1>5 DEF Forward, Terminal
    <3>2. st[s].phase \notin {"RollingBack", "RolledBack"}
      BY <1>3, <3>1, MovesForward
    <3>3. CASE wf'.steps[s] = st[s]
      BY <1>3, <3>2, <3>3
    <3>4. CASE StartedFrom(st[s], s, wf'.steps[s])
      <4>1. wf'.steps[s].phase \in Moves(st[s].phase)
        BY <1>3, <3>2, <3>4, StartingMoves
      <4> QED
        BY <1>3, <3>1, <4>1, MovesCompose, MovesForward
    <3> QED
      BY <2>1, <3>3, <3>4
  <2>3. Lifecycle!Advance
    BY <1>2, <1>5, <2>2 DEF Lifecycle!Advance, Started, Moves, StepPhases
  <2> QED
    BY <1>5, <2>2, <2>3 DEF Forward, Started, Terminal
<1>6. CASE wf.phase \in {"", "Running"} /\ RolledBack
  <2>1. PICK st \in SyncedFrom(wf.steps) : wf'.steps = RollingBackSteps(st)
    BY <1>6 DEF RolledBack
  <2>2. ASSUME NEW s \in Steps
        PROVE  /\ wf'.steps[s].phase \in {"None", "Failed", "Skipped", "RollingBack", "RolledBack"}
               /\ wf.steps[s].phase \in {"Failed", "Skipped"} => wf'.steps[s].phase = wf.steps[s].phase
    <3>1. wf.steps[s].phase \notin {"RollingBack", "RolledBack"}
      BY <1>6 DEF Forward, Terminal
    <3>2. st[s].phase \notin {"RollingBack", "RolledBack"}
      BY <1>3, <3>1, MovesForward
    <3>3. wf.steps[s].phase \in {"Failed", "Skipped"} => st[s].phase = wf.steps[s].phase
      BY <1>3 DEF Moves, Lifecycle!MayBecome, Lifecycle!Open
    <3> QED
      BY <1>3, <2>1, <3>2, <3>3, RollbackMoves
  <2>3. Lifecycle!BeginRollback
    BY <1>2, <1>6, <2>2 DEF Lifecycle!BeginRollback, RolledBack, StepPhases
  <2> QED
    BY <1>6, <2>3 DEF Forward, RolledBack
<1>7. CASE Watched
  <2>1. ASSUME NEW s \in Steps
        PROVE  \/ wf'.steps[s].phase = wf.steps[s].phase
               \/ wf.steps[s].phase = "RollingBack" /\ wf'.steps[s].phase = "RolledBack"
    BY <1>1, <1>7 DEF Watched, RollbackProgress, StatusesType, StepStatus
  <2>2. Lifecycle!UndoSteps
    BY <1>2, <1>7, <2>1 DEF Lifecycle!UndoSteps, Watched, StepPhases
  <2> QED
    BY <1>7, <2>2 DEF Forward, Watched, Terminal
<1> QED
  BY <1>4, <1>5, <1>6, <1>7 DEF StatusWrite, Forward

\* So is a denial at the dashboard.
LEMMA DenialRefines ==
  ASSUME TypeOK, TypeOK', Forward, Overrules
  PROVE  Lifecycle!Next /\ Forward'
<1>1. PICK d \in Steps : /\ wf.steps[d].phase # "None"
                         /\ wf'.steps = [wf.steps EXCEPT ![d] = [@ EXCEPT !.phase = "Failed"]]
  BY DEF Overrules
<1>2. wf.steps \in [Steps -> StepStatus]
  BY DEF TypeOK, Workflow
<1>3. \A s \in Steps : wf'.steps[s].phase = IF s = d THEN "Failed" ELSE wf.steps[s].phase
  BY <1>1, <1>2 DEF StepStatus
<1>4. StepPhases' = [StepPhases EXCEPT ![d] = "Failed"]
  BY <1>3 DEF StepPhases
<1>5. StepPhases[d] # "None"
  BY <1>1 DEF StepPhases
<1>6. Lifecycle!FailByHand
  BY <1>4, <1>5 DEF Lifecycle!FailByHand, Overrules, StepPhases
<1>7. Forward'
  BY <1>3 DEF Forward, Overrules
<1> QED
  BY <1>6, <1>7 DEF Lifecycle!Next

\* The reconciler and the dashboard implement the lifecycle: a step that is done
\* stays done, unless it is failed by hand; only a rollback takes a success back,
\* and it moves nothing forward.
THEOREM RefinesLifecycle == Spec => LifecycleSpec
<1>1. Init => Lifecycle!Init /\ Forward
  <2> SUFFICES ASSUME Init PROVE Lifecycle!Init /\ Forward
    OBVIOUS
  <2>1. wf.phase = "" /\ wf.steps = [s \in Steps |-> NoStatus] /\ NoStatus.phase = "None"
    BY DEF Init, NoStatus
  <2>2. \A s \in Steps : wf.steps[s].phase = "None"
    BY <2>1
  <2> QED
    BY <2>1, <2>2 DEF Lifecycle!Init, Forward
<1>2. TypeOK /\ TypeOK' /\ Forward /\ [Next]_vars => [Lifecycle!Next]_<<wf.phase, StepPhases>> /\ Forward'
  <2> SUFFICES ASSUME TypeOK, TypeOK', Forward, [Next]_vars
               PROVE  [Lifecycle!Next]_<<wf.phase, StepPhases>> /\ Forward'
    OBVIOUS
  <2>1. CASE Kept
    BY <2>1 DEF Kept, Forward, StepPhases
  <2>2. CASE StatusWrite
    BY <2>2, WriteRefines DEF Lifecycle!Next
  <2>3. CASE Overrules
    BY <2>3, DenialRefines
  <2> QED
    BY <2>1, <2>2, <2>3, NextWrites
<1> QED
  BY <1>1, <1>2, TypeCorrect, PTL DEF Spec, LifecycleSpec, Lifecycle!Spec, StepPhases

-----------------------------------------------------------------------------
(* The Jobs and the statuses are accounted for by what has really run.     *)

Going(w) == w.phase \notin Terminal \cup {"RollingBack"}

\* Jobs that have ended have left their trace in the history of the steps, and
\* only what has run to completion is ever rolled back.
Traced(js) ==
  \A s \in Steps :
    /\ js[s]["rollback"] # "none" => FailureStrategy = "rollback" /\ s \in ranOK
    /\ js[s]["run"] = "complete" => s \in ranOK
    /\ js[s]["run"] = "failed" => ranBad[s] > 0

\* A step with an agent is seen as succeeded only if it has run to completion.
Earned(w) ==
  Going(w) => \A s \in HasAgent : w.steps[s].phase = "Succeeded" => s \in ranOK

Accounted == Traced(jobs) /\ Traced(jobView) /\ Earned(wf) /\ Earned(wfView)

\* A synchronised step is as it was, is adopted, or has an ended Job.
LEMMA SyncedCases ==
  ASSUME NEW st \in StatusesType, NEW new \in SyncedFrom(st), NEW s \in Steps
  PROVE  \/ new[s].phase = st[s].phase
         \/ st[s].phase = "None" /\ new[s].phase = "Running"
         \/ /\ st[s].phase \in {"None", "Running"} /\ new[s].phase = "Succeeded"
            /\ \E k \in JobKind : jobView[s][k] = "complete"
         \/ /\ st[s].phase \in {"None", "Running"} /\ new[s].phase \in {"Reset", "Failed"}
            /\ \E k \in JobKind : jobView[s][k] = "failed"
            /\ new[s].phase = "Reset" => st[s].retry < MaxRetries[s]
<1>1. PICK jm \in JobMaps(jobView) : \E lost \in SUBSET Steps : new = SyncedSteps(st, jobView, jm, lost)
  BY DEF SyncedFrom
<1>2. PICK lost \in SUBSET Steps : new = SyncedSteps(st, jobView, jm, lost)
  BY <1>1
<1> DEFINE found == IF s \in Adopted(st, jm)
                    THEN [st[s] EXCEPT !.phase = "Running", !.job = jm[s]] ELSE st[s]
<1>3. new[s] = SyncedStatus(st, jobView, jm, lost, s)
  BY <1>2 DEF SyncedSteps
<1>4. DOMAIN found = {"phase", "retry", "job"} /\ found = [x \in {"phase", "retry", "job"} |-> found[x]]
  BY DEF StatusesType, StepStatus
<1>5. \/ found.phase = st[s].phase
      \/ found.phase = "Running" /\ st[s].phase = "None"
  BY DEF StatusesType, StepStatus, Adopted
<1>6. \/ new[s] = found
      \/ s \in Completing(st, jobView, jm) /\ new[s] = [found EXCEPT !.phase = "Succeeded"]
      \/ s \in Retrying(st, jobView, jm) /\ new[s] = [found EXCEPT !.phase = "Reset", !.retry = @ + 1]
      \/ s \in Failing(st, jobView, jm) /\ new[s] = [found EXCEPT !.phase = "Failed"]
  BY <1>3, Zenon DEF SyncedStatus, Retrying, GivingUp
<1> HIDE DEF found
<1>7. \/ new[s].phase = found.phase
      \/ s \in Completing(st, jobView, jm) /\ new[s].phase = "Succeeded"
      \/ s \in Retrying(st, jobView, jm) /\ new[s].phase = "Reset"
      \/ s \in Failing(st, jobView, jm) /\ new[s].phase = "Failed"
  BY <1>4, <1>6
<1>8. jm[s] \in JobRef
  BY JobMapsType
<1>9. /\ s \in Completing(st, jobView, jm) => /\ st[s].phase \in {"None", "Running"}
                                              /\ \E k \in JobKind : jobView[s][k] = "complete"
      /\ s \in Failing(st, jobView, jm) => /\ st[s].phase \in {"None", "Running"}
                                           /\ \E k \in JobKind : jobView[s][k] = "failed"
      /\ s \in Retrying(st, jobView, jm) => s \in Failing(st, jobView, jm) /\ st[s].retry < MaxRetries[s]
  BY <1>8 DEF Completing, Failing, Retrying, Tracked, StateOf, JobRef
<1> QED
  BY <1>5, <1>7, <1>9

\* So a synchronised success has been earned.
LEMMA SyncedEarned ==
  ASSUME NEW st \in StatusesType, NEW new \in SyncedFrom(st), Traced(jobView),
         NEW s \in Steps, st[s].phase = "Succeeded" => s \in ranOK, new[s].phase = "Succeeded"
  PROVE  s \in ranOK
  BY SyncedCases DEF Traced, JobKind

\* Jobs that are deleted, created or started have not ended.
LEMMA RequestsTraced ==
  ASSUME TypeOK, Traced(jobs), NEW gone, NEW new, NEW mishap
  PROVE  /\ Traced(Delete(jobs, gone, mishap))
         /\ Traced(Create(Delete(jobs, gone, mishap), new \X {"run"}))
         /\ new \subseteq ranOK /\ FailureStrategy = "rollback"
              => Traced(Create(Delete(jobs, gone, mishap), new \X {"rollback"}))
  BY DEF TypeOK, Traced, Delete, Create, JobKind

\* A pass creates rollback Jobs only for what has run to completion.
LEMMA PassTraced ==
  ASSUME TypeOK, Accounted, Reconcile
  PROVE  Traced(jobs')
<1> USE DEF Accounted
<1>1. ASSUME NEW mishap \in Mishap,
             \/ AssignRunID(mishap) \/ CancelRun(mishap) \/ TimeoutRun(mishap)
             \/ MissAgent(mishap) \/ WatchRollback(mishap)
      PROVE  Traced(jobs')
  BY <1>1, RequestsTraced DEF AssignRunID, CancelRun, TimeoutRun, MissAgent, WatchRollback
<1>2. ASSUME NEW mishap \in Mishap, NEW r \in Readings,
             StopOnFailure(r, mishap) \/ Finish(r, mishap)
      PROVE  Traced(jobs')
  BY <1>2, RequestsTraced DEF StopOnFailure, Finish
<1>3. ASSUME NEW mishap \in Mishap, NEW r \in Readings, StartSteps(r, mishap)
      PROVE  Traced(jobs')
  <2>1. PICK new : jobs' = Create(Delete(jobs, Retried(r.jm), mishap), new \X {"run"})
    BY <1>3 DEF StartSteps
  <2> QED
    BY <2>1, RequestsTraced
<1>4. ASSUME NEW mishap \in Mishap, NEW r \in Readings, EnterRollback(r, mishap)
      PROVE  Traced(jobs')
  <2> DEFINE undone == {s \in HasAgent : r.synced.steps[s].phase = "Succeeded"}
             gone == Retried(r.jm) \cup Listed(jobView)
  <2>1. Going(wfView) /\ FailureStrategy = "rollback"
    BY <1>4 DEF EnterRollback, Syncing, Proceeding, Live, Going
  <2>2. wfView.steps \in StatusesType /\ r.synced.steps \in SyncedFrom(wfView.steps)
    BY <1>4, ReadingsSynced DEF TypeOK, Workflow, StatusesType
  <2>3. undone \subseteq ranOK
    BY <2>1, <2>2, SyncedEarned, SchedulingAssumption DEF Earned
  <2>4. PICK new \in {{}, undone} : jobs' = Create(Delete(jobs, gone, mishap), new \X {"rollback"})
    <3>1. {} = {} \X {"rollback"}
      OBVIOUS
    <3> QED
      BY <1>4, <3>1 DEF EnterRollback
  <2> HIDE DEF undone, gone
  <2> QED
    BY <2>1, <2>3, <2>4, RequestsTraced
<1> QED
  BY <1>1, <1>2, <1>3, <1>4 DEF Reconcile

\* So does the cluster, which records what has run.
LEMMA JobsStayTraced ==
  ASSUME TypeOK, Accounted, [Next]_vars
  PROVE  Traced(jobs)' /\ Traced(jobView)'
<1> USE DEF Accounted
<1>1. \A js \in {jobs, jobView}, s \in Steps :
        /\ js[s]["rollback"] # "none" => FailureStrategy = "rollback" /\ s \in ranOK'
        /\ js[s]["run"] = "complete" => s \in ranOK'
        /\ js[s]["run"] = "failed" => ranBad'[s] > 0
  BY HistoryGrows DEF Traced
<1>2. CASE Reconcile
  <2>1. Traced(jobs')
    BY <1>2, PassTraced
  <2> QED
    BY <1>2, <2>1, PassKeeps DEF Traced
<1>3. CASE jobs' = jobs /\ (jobView' = jobView \/ jobView' = jobs)
  BY <1>1, <1>3 DEF Traced
<1>4. ASSUME NEW s \in Steps, NEW k \in JobKind, JobStarts(s, k) \/ JobReaped(s, k)
      PROVE  Traced(jobs)' /\ Traced(jobView)'
  <2>1. /\ \/ jobs' = [jobs EXCEPT ![s][k] = "active"] /\ jobs[s][k] # "none"
           \/ jobs' = [jobs EXCEPT ![s][k] = "none"]
        /\ jobView' = jobView
    BY <1>4 DEF JobStarts, JobReaped, caches
  <2>2. jobs \in [Steps -> [JobKind -> JobState]]
    BY DEF TypeOK
  <2>3. \A t \in Steps, l \in JobKind :
          \/ jobs'[t][l] = jobs[t][l]
          \/ jobs'[t][l] = "none"
          \/ jobs'[t][l] = "active" /\ jobs[t][l] # "none"
    BY <2>1, <2>2
  <2> QED
    BY <1>1, <2>1, <2>3 DEF Traced, JobKind
<1>5. ASSUME NEW s \in Steps, NEW k \in JobKind, NEW end \in {"complete", "failed"}, JobEnds(s, k, end)
      PROVE  Traced(jobs)' /\ Traced(jobView)'
  <2>1. jobs' = [jobs EXCEPT ![s][k] = end] /\ jobView' = jobView /\ jobs[s][k] # "none"
    BY <1>5 DEF JobEnds, caches
  <2>2. k = "run" /\ end = "complete" => s \in ranOK'
    BY <1>5 DEF JobEnds
  <2>3. k = "run" /\ end = "failed" => ranBad'[s] > 0
    <3>1. ranBad \in [Steps -> Nat] /\ MaxRetries[s] \in Nat
      BY SchedulingAssumption DEF TypeOK
    <3>2. k = "run" /\ end = "failed" =>
            /\ ranBad[s] <= MaxRetries[s] => ranBad' = [ranBad EXCEPT ![s] = @ + 1]
            /\ ~(ranBad[s] <= MaxRetries[s]) => ranBad' = ranBad
      BY <1>5, Zenon DEF JobEnds
    <3> QED
      BY <3>1, <3>2
  <2>4. jobs \in [Steps -> [JobKind -> JobState]]
    BY DEF TypeOK
  <2>5. jobs'[s][k] = end /\ \A t \in Steps, l \in JobKind : t # s \/ l # k => jobs'[t][l] = jobs[t][l]
    BY <2>1, <2>4
  <2> QED
    BY <1>1, <2>1, <2>2, <2>3, <2>5 DEF Traced, JobKind
<1> QED
  BY <1>2, <1>3, <1>4, <1>5
     DEF Next, SyncWorkflow, SyncJobs, SyncOutputs, TimePasses, AgentDeleted, RunWorkflowCancel,
         RunWorkflowApprove, RunWorkflowDeny, handleApproveStep, handleDenyStep,
         Ended, vars, server, caches

\* A run that goes on earns its successes: from a Job that completed.
LEMMA StatusEarned ==
  ASSUME TypeOK, Accounted, [Next]_vars
  PROVE  Earned(wf)' /\ Earned(wfView)'
<1> USE DEF Accounted
<1>1. ranOK \subseteq ranOK'
  BY HistoryGrows
<1>2. Earned(wf)'
  <2>1. CASE Kept
    BY <1>1, <2>1 DEF Kept, Earned, Going
  <2>2. CASE Stopped \/ RolledBack \/ Watched
    BY <2>2 DEF Stopped, RolledBack, Watched, Earned, Going, Terminal
  <2>3. CASE Going(wf) /\ Started
    <3>1. PICK st \in SyncedFrom(wf.steps) : \A s \in Steps :
            wf'.steps[s] = st[s] \/ StartedFrom(st[s], s, wf'.steps[s])
      BY <2>3 DEF Started
    <3>2. wf.steps \in StatusesType /\ st \in StatusesType
      BY SyncedFromType DEF TypeOK, Workflow, StatusesType
    <3>3. ASSUME NEW s \in HasAgent, wf'.steps[s].phase = "Succeeded"
          PROVE  s \in ranOK
      <4>1. s \in Steps
        BY <3>3, SchedulingAssumption
      <4>2. StartedFrom(st[s], s, wf'.steps[s]) => wf'.steps[s].phase # "Succeeded"
        BY <3>2, <3>3, <4>1 DEF StartedFrom, StartedStatus, StatusesType, StepStatus
      <4> QED
        BY <2>3, <3>1, <3>2, <3>3, <4>1, <4>2, SyncedEarned DEF Earned
    <3> QED
      BY <1>1, <3>3 DEF Earned
  <2>4. CASE Overrules
    <3>1. \A s \in Steps : wf'.steps[s].phase = "Succeeded" => wf.steps[s].phase = "Succeeded"
      BY <2>4 DEF Overrules, TypeOK, Workflow, StepStatus
    <3> QED
      BY <1>1, <2>4, <3>1, SchedulingAssumption DEF Overrules, Earned, Going
  <2> QED
    BY <2>1, <2>2, <2>3, <2>4, NextWrites DEF StatusWrite, Going
<1>3. Earned(wfView)'
  BY <1>1, ViewMoves DEF Earned, Going
<1> QED
  BY <1>2, <1>3

\* Whatever the reconciler reads, Jobs that ended and steps that succeeded are
\* in the history of what has run.
LEMMA AccountedHolds == Spec => []Accounted
<1>1. Init => Accounted
  <2> SUFFICES ASSUME Init PROVE Accounted
    OBVIOUS
  <2>1. \A s \in Steps, k \in JobKind : jobs[s][k] = "none" /\ jobView[s][k] = "none"
    BY DEF Init
  <2>2. "run" \in JobKind /\ "rollback" \in JobKind
    BY DEF JobKind
  <2>3. \A s \in Steps : wf.steps[s].phase = "None" /\ wfView.steps[s].phase = "None"
    BY DEF Init, NoStatus
  <2> QED
    BY <2>1, <2>2, <2>3, SchedulingAssumption DEF Traced, Earned, Accounted
<1>2. TypeOK /\ Accounted /\ [Next]_vars => Accounted'
  BY JobsStayTraced, StatusEarned DEF Accounted
<1> QED
  BY <1>1, <1>2, TypeCorrect, PTL DEF Spec

\* A rollback undoes only what was done: a rollback Job exists only under the
\* rollback strategy, for a step that has really run to completion, however old
\* the statuses and Jobs that its pass has read.
THEOREM UndoneWereDone == Spec => []OnlyDoneIsUndone
<1>1. Accounted => OnlyDoneIsUndone
  BY DEF Accounted, Traced, OnlyDoneIsUndone
<1> QED
  BY <1>1, AccountedHolds, PTL

-----------------------------------------------------------------------------
(* The order of dependencies.                                              *)

\* The phases a dependent step may have been started on are not left again, but
\* by a step that the dashboard fails.
Keeps(d, p, q) ==
  /\ p \in {"Skipped", "Failed"} => q = p
  /\ d \notin HasAgent /\ p \in {"Succeeded", "RolledBack"} => q \in {"Succeeded", "RolledBack"}

ViewSettled ==
  \A d \in Steps : d \in overruled \/ Keeps(d, wfView.steps[d].phase, wf.steps[d].phase)

\* What is known of the reconciler's state when it starts a step.
Sound == TypeOK /\ Forward /\ Accounted /\ ViewSettled

\* No step of the system leaves them.
LEMMA PhasesKept ==
  ASSUME TypeOK, TypeOK', Forward, [Next]_vars, NEW d \in Steps
  PROVE  d \in overruled' \/ Keeps(d, wf.steps[d].phase, wf'.steps[d].phase)
<1>1. CASE Kept
  BY <1>1 DEF Kept, Keeps
<1>2. CASE StatusWrite /\ (Stopped \/ Started \/ Watched)
  <2>1. StepPhases[d] = wf.steps[d].phase /\ StepPhases'[d] = wf'.steps[d].phase
    BY DEF StepPhases
  <2>2. Lifecycle!Advance \/ Lifecycle!BeginRollback \/ Lifecycle!UndoSteps
    BY <1>2, WriteRefines
  <2>3. ~Lifecycle!BeginRollback
    BY <1>2 DEF Lifecycle!BeginRollback, StatusWrite, Stopped, Started, Watched, Terminal
  <2>4. CASE Lifecycle!Advance
    BY <2>1, <2>4 DEF Lifecycle!Advance, Lifecycle!MayBecome, Lifecycle!Open, StepPhases, Keeps
  <2>5. CASE Lifecycle!UndoSteps
    BY <2>1, <2>5 DEF Lifecycle!UndoSteps, StepPhases, Keeps
  <2> QED
    BY <2>2, <2>3, <2>4, <2>5
<1>3. CASE wf.phase \notin Terminal \cup {"RollingBack"} /\ RolledBack
  <2>1. PICK st \in SyncedFrom(wf.steps) : wf'.steps = RollingBackSteps(st)
    BY <1>3 DEF RolledBack
  <2>2. wf.steps \in StatusesType /\ st \in StatusesType
    BY SyncedFromType DEF TypeOK, Workflow, StatusesType
  <2>3. wf.steps[d].phase \in {"Skipped", "Failed", "Succeeded"} => st[d].phase = wf.steps[d].phase
    BY <2>2, SyncedMoves DEF Moves, Lifecycle!MayBecome, Lifecycle!Open
  <2>4. wf.steps[d].phase # "RolledBack"
    BY <1>3 DEF Forward
  <2>5. /\ st[d].phase \in {"Skipped", "Failed"} => wf'.steps[d].phase = st[d].phase
        /\ st[d].phase = "Succeeded" /\ d \notin HasAgent => wf'.steps[d].phase = "RolledBack"
    BY <2>1, <2>2 DEF RollingBackSteps, StatusesType, StepStatus, Unfinished
  <2> QED
    BY <2>3, <2>4, <2>5 DEF Keeps
<1>4. CASE Overrules
  <2>1. d \in overruled' \/ wf'.steps[d].phase = wf.steps[d].phase
    BY <1>4 DEF Overrules, TypeOK, Workflow, StepStatus
  <2> QED BY <2>1 DEF Keeps
<1> QED
  BY <1>1, <1>2, <1>3, <1>4, NextWrites DEF StatusWrite, Watched, RolledBack

\* While the run goes forward no step is being undone.
LEMMA ForwardHolds == Spec => []Forward
<1>1. Init => Forward
  <2> SUFFICES ASSUME Init PROVE Forward
    OBVIOUS
  <2>1. wf.steps = [s \in Steps |-> NoStatus] /\ wf.phase = "" /\ NoStatus.phase = "None"
    BY DEF Init, NoStatus
  <2>2. \A s \in Steps : wf.steps[s].phase = "None"
    BY <2>1
  <2> QED
    BY <2>1, <2>2 DEF Forward
<1>2. TypeOK /\ TypeOK' /\ Forward /\ [Next]_vars => Forward'
  BY NextWrites, WriteRefines, DenialRefines DEF Kept, Forward
<1> QED
  BY <1>1, <1>2, TypeCorrect, PTL DEF Spec

LEMMA SoundHolds == Spec => []Sound
<1>1. Init => ViewSettled
  BY DEF Init, ViewSettled, Keeps, NoStatus
<1>2. TypeOK /\ TypeOK' /\ Forward /\ ViewSettled /\ [Next]_vars => ViewSettled'
  <2> SUFFICES ASSUME TypeOK, TypeOK', Forward, ViewSettled, [Next]_vars, NEW d \in Steps
               PROVE  d \in overruled' \/ Keeps(d, wfView'.steps[d].phase, wf'.steps[d].phase)
    BY DEF ViewSettled
  <2>0. overruled \subseteq overruled'
    BY OverruledGrows
  <2>1. d \in overruled' \/ Keeps(d, wf.steps[d].phase, wf'.steps[d].phase)
    BY PhasesKept
  <2>2. d \in overruled \/ Keeps(d, wfView.steps[d].phase, wf.steps[d].phase)
    BY DEF ViewSettled
  <2> QED
    BY <2>0, <2>1, <2>2, ViewMoves DEF Keeps
<1> QED
  BY <1>1, <1>2, TypeCorrect, ForwardHolds, AccountedHolds, PTL DEF Spec, Sound

\* A dependency has run to its end, or needs none, or has failed and may, or was
\* failed at the dashboard.
Settled(d) ==
  \/ d \in ranOK \cup overruled
  \/ wf.steps[d].phase = "Skipped"
  \/ d \notin HasAgent /\ wf.steps[d].phase \in {"Succeeded", "RolledBack"}
  \/ FailureStrategy = "continueOnError" /\ (wf.steps[d].phase = "Failed" \/ ranBad[d] > 0)

\* A step has a Job only when all it depends on is settled.
OrderKept == \A s \in Steps : jobs[s]["run"] # "none" => \A d \in DependsOn[s] : Settled(d)

\* What is settled stays settled.
LEMMA SettledStays ==
  ASSUME TypeOK, TypeOK', Forward, [Next]_vars, NEW d \in Steps, Settled(d)
  PROVE  Settled(d)'
<1>1. d \in overruled' \/ Keeps(d, wf.steps[d].phase, wf'.steps[d].phase)
  BY PhasesKept
<1>2. /\ ranOK \subseteq ranOK' /\ (ranBad[d] > 0 => ranBad'[d] > 0)
      /\ overruled \subseteq overruled'
  BY HistoryGrows, OverruledGrows
<1> QED
  BY <1>1, <1>2 DEF Settled, Keeps

\* What a pass takes for ready is settled, however old its caches are.
LEMMA ReadyIsSettled ==
  ASSUME Sound, Going(wfView), NEW st \in SyncedFrom(wfView.steps), NEW d \in Steps, Ready(st, d)
  PROVE  Settled(d)
<1>1. wfView.steps \in StatusesType
  BY DEF Sound, TypeOK, Workflow, StatusesType
<1>2. \/ st[d].phase \in {"Succeeded", "Skipped"}
      \/ FailureStrategy = "continueOnError" /\ st[d].phase = "Failed"
  BY DEF Ready
<1>3. d \in overruled \/ Keeps(d, wfView.steps[d].phase, wf.steps[d].phase)
  BY DEF Sound, ViewSettled
<1>4. CASE st[d].phase = wfView.steps[d].phase
  <2>1. d \in HasAgent /\ st[d].phase = "Succeeded" => d \in ranOK
    BY <1>4 DEF Sound, Accounted, Earned
  <2> QED
    BY <1>2, <1>3, <1>4, <2>1 DEF Keeps, Settled
<1>5. CASE \E k \in JobKind : jobView[d][k] = "complete"
  BY <1>5 DEF Sound, Accounted, Traced, JobKind, Settled
<1>6. CASE st[d].phase = "Failed" /\ \E k \in JobKind : jobView[d][k] = "failed"
  BY <1>2, <1>6 DEF Sound, Accounted, Traced, JobKind, Settled
<1> QED
  BY <1>1, <1>2, <1>4, <1>5, <1>6, SyncedCases

\* Only the start loop gives a step a Job, and only when it is executable.
LEMMA OnlyReadyStart ==
  ASSUME Sound, [Next]_vars, NEW s \in Steps, jobs[s]["run"] = "none", jobs'[s]["run"] # "none"
  PROVE  /\ Going(wfView) /\ ~wfView.cancel /\ ~TimedOut
         /\ \E st \in SyncedFrom(wfView.steps) :
              /\ \A d \in DependsOn[s] : Ready(st, d)
              /\ st[s].phase \notin {"Succeeded", "Skipped", "Failed", "Running"}
<1>1. jobs \in [Steps -> [JobKind -> JobState]] /\ "run" \in JobKind
  BY DEF Sound, TypeOK, JobKind
<1>2. ASSUME NEW gone, NEW mishap, jobs' = Delete(jobs, gone, mishap) PROVE FALSE
  BY <1>1, <1>2 DEF Delete
<1>3. ASSUME NEW mishap \in Mishap, NEW r \in Readings, EnterRollback(r, mishap)
      PROVE  FALSE
  <2>1. PICK gone, new : jobs' = Create(Delete(jobs, gone, mishap), new) /\ <<s, "run">> \notin new
    <3>1. \A S : <<s, "run">> \notin S \X {"rollback"}
      OBVIOUS
    <3>2. \E gone, S, new : /\ jobs' = Create(Delete(jobs, gone, mishap), new)
                            /\ new = {} \/ new = S \X {"rollback"}
      BY <1>3, Zenon DEF EnterRollback
    <3> QED
      BY <3>1, <3>2
  <2> QED
    BY <1>1, <2>1 DEF Create, Delete
<1>4. ASSUME NEW mishap \in Mishap, NEW r \in Readings, StartSteps(r, mishap)
      PROVE  /\ Going(wfView) /\ ~wfView.cancel /\ ~TimedOut
             /\ \E st \in SyncedFrom(wfView.steps) :
                  /\ \A d \in DependsOn[s] : Ready(st, d)
                  /\ st[s].phase \notin {"Succeeded", "Skipped", "Failed", "Running"}
  <2>1. PICK w \in OutputWrites(Finished(r.jm)) :
          jobs' = Create(Delete(jobs, Retried(r.jm), mishap),
                         StartLoop(r, w.seen, mishap = "create").launched \X {"run"})
    BY <1>4 DEF StartSteps
  <2> DEFINE launched == StartLoop(r, w.seen, mishap = "create").launched
  <2>2. s \in launched
    <3> HIDE DEF launched
    <3> QED
      BY <1>1, <2>1 DEF Create, Delete, launched
  <2>3. s \in FindExecutableSteps(r.synced.steps, AfterRetries(wfView.steps, jobView, r.jm))
    BY <2>2 DEF StartLoop, Visited
  <2>4. /\ \A d \in DependsOn[s] : Ready(r.synced.steps, d)
        /\ r.synced.steps[s].phase \notin {"Succeeded", "Skipped", "Failed", "Running"}
    BY <2>3 DEF FindExecutableSteps
  <2>5. r.synced.steps \in SyncedFrom(wfView.steps)
    BY <1>4, ReadingsSynced DEF Sound
  <2>6. Going(wfView) /\ ~wfView.cancel /\ ~TimedOut
    BY <1>4 DEF StartSteps, Syncing, Proceeding, Live, Going
  <2> QED
    BY <2>4, <2>5, <2>6
<1>5. ASSUME NEW t \in Steps, NEW k \in JobKind, NEW e \in {"active", "complete", "failed", "none"},
             jobs' = [jobs EXCEPT ![t][k] = e], jobs[t][k] # "none"
      PROVE  FALSE
  BY <1>1, <1>5
<1>6. CASE Reconcile
  <2>1. ASSUME NEW mishap \in Mishap,
               AssignRunID(mishap) \/ MissAgent(mishap) \/ WatchRollback(mishap)
        PROVE  FALSE
    <3>1. jobs' = jobs
      BY <2>1 DEF AssignRunID, MissAgent, WatchRollback
    <3> QED
      BY <3>1
  <2>2. ASSUME NEW mishap \in Mishap, CancelRun(mishap) \/ TimeoutRun(mishap)
        PROVE  FALSE
    BY <1>2, <2>2 DEF CancelRun, TimeoutRun
  <2>3. ASSUME NEW mishap \in Mishap, NEW r \in Readings, StopOnFailure(r, mishap) \/ Finish(r, mishap)
        PROVE  FALSE
    BY <1>2, <2>3 DEF StopOnFailure, Finish
  <2> QED
    BY <1>3, <1>4, <1>6, <2>1, <2>2, <2>3 DEF Reconcile
<1>7. ASSUME NEW t \in Steps, NEW k \in JobKind, JobStarts(t, k) \/ JobReaped(t, k) PROVE FALSE
  BY <1>5, <1>7 DEF JobStarts, JobReaped
<1>8. ASSUME NEW t \in Steps, NEW k \in JobKind, NEW end \in {"complete", "failed"}, JobEnds(t, k, end)
      PROVE  FALSE
  BY <1>5, <1>8 DEF JobEnds
<1> QED
  BY <1>6, <1>7, <1>8
     DEF Next, SyncWorkflow, SyncJobs, SyncOutputs, TimePasses, AgentDeleted, RunWorkflowCancel,
         RunWorkflowApprove, RunWorkflowDeny, handleApproveStep, handleDenyStep,
         Ended, vars, server

\* However stale the caches of a pass, a step is given a Job only after each of
\* its dependencies has completed, was skipped, or (continueOnError) has failed,
\* those aside that the dashboard has failed.
THEOREM DependenciesEnd == Spec => []OrderKept
<1>1. Init => OrderKept
  <2>1. Init => jobs = [s \in Steps |-> [k \in JobKind |-> "none"]]
    BY DEF Init
  <2> QED
    BY <2>1 DEF OrderKept, JobKind
<1>2. Sound /\ TypeOK' /\ OrderKept /\ [Next]_vars => OrderKept'
  <2> SUFFICES ASSUME Sound, TypeOK', OrderKept, [Next]_vars,
                      NEW s \in Steps, jobs'[s]["run"] # "none", NEW d \in DependsOn[s]
               PROVE  Settled(d)'
    BY DEF OrderKept
  <2>1. d \in Steps
    BY SchedulingAssumption
  <2>2. CASE jobs[s]["run"] # "none"
    BY <2>1, <2>2, SettledStays DEF Sound, OrderKept
  <2>3. CASE jobs[s]["run"] = "none"
    <3>1. Settled(d)
      BY <2>1, <2>3, OnlyReadyStart, ReadyIsSettled
    <3> QED
      BY <2>1, <3>1, SettledStays DEF Sound
  <2> QED
    BY <2>2, <2>3
<1> QED
  BY <1>1, <1>2, SoundHolds, TypeCorrect, PTL DEF Spec

\* A dependency that failed without its retries being used up lets a dependent
\* start only if failures are passed over and there are retries at all.
THEOREM DependenciesFirst ==
  ASSUME FailureStrategy = "continueOnError" => \A s \in Steps : MaxRetries[s] = 0
  PROVE  Spec => []DependencyOrder
<1>1. OrderKept => DependencyOrder
  <2> SUFFICES ASSUME OrderKept, NEW s \in Steps, jobs[s]["run"] # "none", NEW d \in DependsOn[s],
                      FailureStrategy = "continueOnError", ranBad[d] > 0
               PROVE  ranBad[d] > MaxRetries[d]
    BY DEF OrderKept, Settled, DependencyOrder
  <2> QED
    BY SchedulingAssumption
<1> QED
  BY <1>1, DependenciesEnd, PTL

-----------------------------------------------------------------------------
(* The counters.                                                           *)

DoneSteps(w) == {s \in Steps : w.steps[s].phase \in {"Succeeded", "Skipped"}}

FailedSteps(w) == {s \in Steps \ w.denied : w.steps[s].phase = "Failed"}

Counts(w) ==
  /\ w.completed >= Cardinality(DoneSteps(w))
  /\ w.failed >= Cardinality(FailedSteps(w))

\* What has been completed has not been counted twice.
CountsOnce(w) == w.completed <= Cardinality(DoneSteps(w))

\* While the run goes on nothing is undercounted, nor overcounted while no count
\* has parted from its steps; before its first pass nothing has happened or is
\* counted (that pass resets the counters); and its end is what it says.
Counted ==
  /\ Going(wf) => Counts(wf)
  /\ Going(wf) /\ ~skewed => CountsOnce(wf)
  /\ wf.phase = "" => /\ wf.completed = 0 /\ wf.failed = 0
                      /\ \A s \in Steps : wf.steps[s].phase = "None"
  /\ SuccessIsWhole
  /\ FailureNeverHidden

\* A set of steps covered by two others is no larger than both together.
LEMMA StepsCover ==
  ASSUME NEW A \in SUBSET Steps, NEW B \in SUBSET Steps, NEW S, S \subseteq A \cup B
  PROVE  Cardinality(S) <= Cardinality(A) + Cardinality(B)
<1>1. IsFiniteSet(Steps)
  BY FS_Interval, SchedulingAssumption DEF Steps
<1>2. IsFiniteSet(A) /\ IsFiniteSet(B)
  BY <1>1, FS_Subset
<1>3. /\ IsFiniteSet(A \cup B)
      /\ Cardinality(A \cup B) = Cardinality(A) + Cardinality(B) - Cardinality(A \cap B)
  BY <1>2, FS_Union
<1>4. Cardinality(S) <= Cardinality(A \cup B)
  BY <1>3, FS_Subset
<1>5. /\ Cardinality(A) \in Nat /\ Cardinality(B) \in Nat /\ Cardinality(A \cap B) \in Nat
      /\ Cardinality(A \cup B) \in Nat /\ Cardinality(S) \in Nat
  BY StepsCount
<1> QED
  BY <1>3, <1>4, <1>5

\* And two apart from each other are together no larger than what holds both.
LEMMA StepsApart ==
  ASSUME NEW A \in SUBSET Steps, NEW B \in SUBSET Steps, A \cap B = {},
         NEW S \in SUBSET Steps, A \cup B \subseteq S
  PROVE  Cardinality(A) + Cardinality(B) <= Cardinality(S)
<1>1. IsFiniteSet(Steps)
  BY FS_Interval, SchedulingAssumption DEF Steps
<1>2. IsFiniteSet(A) /\ IsFiniteSet(B) /\ IsFiniteSet(S)
  BY <1>1, FS_Subset
<1>3. Cardinality(A \cup B) = Cardinality(A) + Cardinality(B) - Cardinality(A \cap B)
  BY <1>2, FS_Union
<1>4. Cardinality(A \cup B) <= Cardinality(S)
  BY <1>2, FS_Subset
<1>5. Cardinality(A \cap B) = 0
  BY FS_EmptySet
<1>6. Cardinality(A) \in Nat /\ Cardinality(B) \in Nat /\ Cardinality(S) \in Nat
  BY StepsCount
<1> QED
  BY <1>3, <1>4, <1>5, <1>6

\* As many steps as there are, are all of them.
LEMMA AllSteps ==
  ASSUME NEW S \in SUBSET Steps, Cardinality(S) >= NumSteps
  PROVE  S = Steps
<1>1. IsFiniteSet(Steps) /\ Cardinality(Steps) = NumSteps
  BY FS_Interval, SchedulingAssumption DEF Steps
<1>2. IsFiniteSet(S) /\ Cardinality(S) <= Cardinality(Steps)
      /\ (Cardinality(S) = Cardinality(Steps) => S = Steps)
  BY <1>1, FS_Subset
<1>3. Cardinality(S) \in Nat /\ NumSteps \in Nat
  BY StepsCount, SchedulingAssumption
<1> QED
  BY <1>1, <1>2, <1>3

\* Synchronising ends the steps it counts, when none of its updates is lost.
LEMMA SyncedDone ==
  ASSUME NEW st \in StatusesType, NEW jm, NEW s \in Steps,
         NEW new, new = SyncedSteps(st, jobView, jm, {})
  PROVE  /\ st[s].phase \in {"Succeeded", "Skipped"} => new[s].phase \in {"Succeeded", "Skipped"}
         /\ s \in Completing(st, jobView, jm) =>
              /\ new[s].phase \in {"Succeeded", "Skipped"}
              /\ st[s].phase \notin {"Succeeded", "Skipped"}
<1> DEFINE found == IF s \in Adopted(st, jm)
                    THEN [st[s] EXCEPT !.phase = "Running", !.job = jm[s]] ELSE st[s]
<1>1. new[s] = SyncedStatus(st, jobView, jm, {}, s)
  BY DEF SyncedSteps
<1>2. DOMAIN found = {"phase", "retry", "job"} /\ found = [x \in {"phase", "retry", "job"} |-> found[x]]
  BY DEF StatusesType, StepStatus
<1>3. CASE st[s].phase \in {"Succeeded", "Skipped"}
  <2>1. /\ s \notin Adopted(st, jm) /\ s \notin Completing(st, jobView, jm)
        /\ s \notin Retrying(st, jobView, jm) /\ s \notin GivingUp(st, jobView, jm)
    BY <1>3 DEF Adopted, Completing, Retrying, GivingUp, Failing, Tracked
  <2>2. new[s] = st[s]
    BY <1>1, <2>1 DEF SyncedStatus
  <2> QED
    BY <1>3, <2>1, <2>2
<1>4. CASE s \in Completing(st, jobView, jm)
  <2>1. st[s].phase \in {"None", "Running"}
    BY <1>4 DEF Completing, Tracked
  <2>2. s \notin Retrying(st, jobView, jm) /\ s \notin GivingUp(st, jobView, jm)
    BY <1>4 DEF Completing, Retrying, GivingUp, Failing
  <2>3. new[s] = [found EXCEPT !.phase = "Succeeded"]
    BY <1>1, <1>4, <2>2 DEF SyncedStatus
  <2> HIDE DEF found
  <2>4. new[s].phase = "Succeeded"
    BY <1>2, <2>3
  <2> QED
    BY <2>1, <2>4
<1> QED
  BY <1>3, <1>4

\* Synchronising ends only the steps it counts.
LEMMA SyncedEnds ==
  ASSUME NEW st \in StatusesType, NEW jm, NEW lost, NEW s \in Steps,
         NEW new, new = SyncedSteps(st, jobView, jm, lost)
  PROVE  /\ new[s].phase \in {"Succeeded", "Skipped"} =>
              st[s].phase \in {"Succeeded", "Skipped"} \/ s \in Completing(st, jobView, jm)
         /\ new[s].phase = "Failed" =>
              st[s].phase = "Failed" \/ s \in GivingUp(st, jobView, jm)
<1> DEFINE found == IF s \in Adopted(st, jm)
                    THEN [st[s] EXCEPT !.phase = "Running", !.job = jm[s]] ELSE st[s]
<1>1. new[s] = SyncedStatus(st, jobView, jm, lost, s)
  BY DEF SyncedSteps
<1>2. DOMAIN found = {"phase", "retry", "job"} /\ found = [x \in {"phase", "retry", "job"} |-> found[x]]
  BY DEF StatusesType, StepStatus
<1>3. found.phase = st[s].phase \/ found.phase = "Running"
  BY DEF StatusesType, StepStatus
<1>4. \/ new[s] = found
      \/ s \in Completing(st, jobView, jm) /\ new[s] = [found EXCEPT !.phase = "Succeeded"]
      \/ new[s] = [found EXCEPT !.phase = "Reset", !.retry = @ + 1]
      \/ s \in GivingUp(st, jobView, jm) /\ new[s] = [found EXCEPT !.phase = "Failed"]
  BY <1>1, Zenon DEF SyncedStatus
<1> HIDE DEF found
<1>5. \/ new[s].phase = found.phase
      \/ s \in Completing(st, jobView, jm) /\ new[s].phase = "Succeeded"
      \/ new[s].phase = "Reset"
      \/ s \in GivingUp(st, jobView, jm) /\ new[s].phase = "Failed"
  BY <1>2, <1>4
<1> QED
  BY <1>3, <1>5

\* The counters of an updated workflow.
LEMMA UpdatedCounters ==
  ASSUME NEW w \in Workflow, NEW p, NEW q, NEW st, NEW c, NEW f
  PROVE  /\ LET x == [w EXCEPT !.phase = p, !.reason = q, !.steps = st, !.completed = c]
            IN x.completed = c /\ x.failed = w.failed
         /\ LET x == [w EXCEPT !.steps = st, !.completed = c, !.failed = f]
            IN x.completed = c /\ x.failed = f /\ x.steps = st /\ x.denied = w.denied
  BY DEF Workflow

\* A pass that reads the latest status counts what it finds ended.
LEMMA SyncedCounts ==
  ASSUME TypeOK, Counted, Going(wf), wf = wfView, NEW r \in Readings
  PROVE  /\ Counts(r.synced)
         /\ ~skewed /\ r.lost = {} => CountsOnce(r.synced)
<1>1. PICK jm \in JobMaps(jobView) : \E lost : r.synced = Synced(jm, lost) /\ r.lost = lost
  BY DEF Readings
<1>2. PICK lost : r.synced = Synced(jm, lost) /\ r.lost = lost
  BY <1>1
<1> DEFINE st == SyncedSteps(Loaded.steps, jobView, jm, lost)
           ok == Completing(wfView.steps, jobView, jm)
           bad == GivingUp(wfView.steps, jobView, jm)
           c == Loaded.completed + Cardinality(ok)
           f == Loaded.failed + Cardinality(bad)
<1>3. /\ Loaded \in Workflow /\ Loaded.steps = wf.steps /\ Loaded.denied = wf.denied
      /\ Loaded.completed = wf.completed /\ Loaded.failed = wf.failed
  BY LoadedType DEF Loaded, Counted, TypeOK, Workflow
<1>4. /\ r.synced.completed = c /\ r.synced.failed = f
      /\ r.synced.steps = st /\ r.synced.denied = wf.denied
  <2>1. r.synced = [Loaded EXCEPT !.steps = st, !.completed = c, !.failed = f]
    BY <1>2, Zenon DEF Synced
  <2> HIDE DEF st, c, f
  <2> QED
    BY <1>3, <2>1, UpdatedCounters
<1>5. ok \in SUBSET Steps /\ bad \in SUBSET Steps
  BY DEF Completing, GivingUp, Failing, Tracked
<1>6. \A s \in Steps :
        /\ st[s].phase \in {"Succeeded", "Skipped"} =>
             wf.steps[s].phase \in {"Succeeded", "Skipped"} \/ s \in ok
        /\ st[s].phase = "Failed" => wf.steps[s].phase = "Failed" \/ s \in bad
  <2>1. wf.steps \in StatusesType
    BY DEF TypeOK, Workflow, StatusesType
  <2> QED
    BY <1>3, <2>1, SyncedEnds
<1> HIDE DEF st, ok, bad
<1>7. /\ DoneSteps(r.synced) \subseteq DoneSteps(wf) \cup ok
      /\ FailedSteps(r.synced) \subseteq FailedSteps(wf) \cup bad
  BY <1>4, <1>6 DEF DoneSteps, FailedSteps
<1>8. DoneSteps(wf) \in SUBSET Steps /\ FailedSteps(wf) \in SUBSET Steps
  BY DEF DoneSteps, FailedSteps
<1>9. /\ Cardinality(DoneSteps(r.synced)) <= Cardinality(DoneSteps(wf)) + Cardinality(ok)
      /\ Cardinality(FailedSteps(r.synced)) <= Cardinality(FailedSteps(wf)) + Cardinality(bad)
  BY <1>5, <1>7, <1>8, StepsCover
<1>10. /\ Cardinality(DoneSteps(wf)) \in Nat /\ Cardinality(FailedSteps(wf)) \in Nat
       /\ Cardinality(DoneSteps(r.synced)) \in Nat /\ Cardinality(FailedSteps(r.synced)) \in Nat
       /\ Cardinality(ok) \in Nat /\ Cardinality(bad) \in Nat
       /\ wf.completed \in Nat /\ wf.failed \in Nat
  <2>1. DoneSteps(r.synced) \in SUBSET Steps /\ FailedSteps(r.synced) \in SUBSET Steps
    BY DEF DoneSteps, FailedSteps
  <2>2. wf.completed \in Nat /\ wf.failed \in Nat
    BY DEF TypeOK, Workflow
  <2> QED
    BY <1>5, <1>8, <2>1, <2>2, StepsCount
<1>11. /\ r.synced.completed = wf.completed + Cardinality(ok)
       /\ r.synced.failed = wf.failed + Cardinality(bad)
  BY <1>3, <1>4
<1>12. /\ wf.completed >= Cardinality(DoneSteps(wf))
       /\ wf.failed >= Cardinality(FailedSteps(wf))
  BY DEF Counted, Counts
<1>13. /\ r.synced.completed >= Cardinality(DoneSteps(r.synced))
       /\ r.synced.failed >= Cardinality(FailedSteps(r.synced))
  <2> HIDE DEF c, f
  <2> QED
    BY <1>9, <1>10, <1>11, <1>12
<1>14. lost = {} => /\ DoneSteps(wf) \cup ok \subseteq DoneSteps(r.synced)
                    /\ DoneSteps(wf) \cap ok = {}
  <2> SUFFICES ASSUME lost = {}
               PROVE  /\ DoneSteps(wf) \cup ok \subseteq DoneSteps(r.synced)
                      /\ DoneSteps(wf) \cap ok = {}
    OBVIOUS
  <2>1. wf.steps \in StatusesType
    BY DEF TypeOK, Workflow, StatusesType
  <2>2. \A s \in Steps :
          /\ wf.steps[s].phase \in {"Succeeded", "Skipped"} => st[s].phase \in {"Succeeded", "Skipped"}
          /\ s \in ok => /\ st[s].phase \in {"Succeeded", "Skipped"}
                        /\ wf.steps[s].phase \notin {"Succeeded", "Skipped"}
    BY <1>3, <2>1, SyncedDone DEF st, ok
  <2> QED
    BY <1>4, <1>5, <2>2 DEF DoneSteps
<1>15. ~skewed /\ lost = {} => CountsOnce(r.synced)
  <2> SUFFICES ASSUME ~skewed, lost = {} PROVE CountsOnce(r.synced)
    OBVIOUS
  <2>1. Cardinality(DoneSteps(wf)) + Cardinality(ok) <= Cardinality(DoneSteps(r.synced))
    <3>1. DoneSteps(r.synced) \in SUBSET Steps
      BY DEF DoneSteps
    <3> QED BY <1>5, <1>8, <1>14, <3>1, StepsApart
  <2>2. wf.completed <= Cardinality(DoneSteps(wf))
    BY DEF Counted, CountsOnce
  <2>3. r.synced.completed <= Cardinality(DoneSteps(r.synced))
    <3> HIDE DEF c, f
    <3> QED BY <1>10, <1>11, <2>1, <2>2
  <2> QED BY <2>3 DEF CountsOnce
<1> QED
  BY <1>2, <1>13, <1>15 DEF Counts

\* The end a pass may write, and the start of steps with what it passes over.
FinishWritten(r) ==
  /\ StepsDone(r.synced)
  /\ wf'.phase = CompletionPhase(r.synced.completed, r.synced.failed).phase
  /\ wf'.steps = ForcedSteps(r.synced.steps)

\* What the start loop does to the phase of a step: it leaves what is done.
Passes(old, new, passed, denied) ==
  /\ \/ new = old
     \/ new \in {"Succeeded", "Skipped"} /\ passed
     \/ new = "Failed" /\ denied
     \/ new \in {"Reset", "Pending", "Running"}
  /\ old \in {"Succeeded", "Skipped"} => new = old /\ ~passed
  /\ passed => new \in {"Succeeded", "Skipped"}

StartWritten(r) ==
  /\ wf'.phase = "Running"
  /\ \E passed \in SUBSET Steps :
       /\ \A s \in Steps : Passes(r.synced.steps[s].phase, wf'.steps[s].phase, s \in passed,
                                   s \in wf.denied)
       /\ wf'.completed = r.synced.completed + Cardinality(passed)
       /\ wf'.failed = r.synced.failed

\* What the steps of the system do to the counters.
CountingWrite ==
  \/ Kept /\ wf'.completed = wf.completed /\ wf'.failed = wf.failed
  \/ wf'.phase \in {"Cancelled", "Failed", "RollingBack"}
  \/ /\ Going(wf) /\ wf = wfView /\ wf'.denied = wf.denied
     /\ \E r \in Readings : /\ FinishWritten(r) \/ StartWritten(r)
                            /\ r.lost = {} \/ skewed'
  \/ Overrules

\* The start loop counts the steps it skips and those it completes at once.
LEMMA StartLoopCounts ==
  ASSUME NEW r, r.synced.steps \in StatusesType, NEW seen, NEW refused, NEW s \in Steps
  PROVE  LET loop == StartLoop(r, seen, refused)
         IN Passes(r.synced.steps[s].phase, loop.steps[s].phase, s \in loop.passed,
                   s \in wfView.denied)
<1> DEFINE loop == StartLoop(r, seen, refused)
           o == Outcome(s, seen, wfView.approved, wfView.denied, refused)
           approval == s \in NeedsApproval
           old == r.synced.steps[s]
<1>1. old \in StepStatus
  BY DEF StatusesType
<1>2. \/ loop.steps[s] = old /\ s \notin loop.passed
      \/ /\ loop.steps[s] = StartedStatus(old, o, approval)
         /\ o \in {"skip", "complete"} <=> s \in loop.passed
         /\ old.phase \notin {"Succeeded", "Skipped"}
  BY DEF StartLoop, Visited, FindExecutableSteps
<1>3. o = "deny" => s \in wfView.denied
  BY OutcomeReasons
<1> HIDE DEF loop, o, approval, old
<1>4. \/ StartedStatus(old, o, approval).phase = old.phase
      \/ StartedStatus(old, o, approval).phase \in {"Succeeded", "Skipped"} /\ o \in {"skip", "complete"}
      \/ StartedStatus(old, o, approval).phase = "Failed" /\ o = "deny"
      \/ StartedStatus(old, o, approval).phase \in {"Reset", "Pending", "Running"}
  BY <1>1 DEF StartedStatus, StepStatus
<1>5. o \in {"skip", "complete"} => StartedStatus(old, o, approval).phase \in {"Succeeded", "Skipped"}
  BY <1>1 DEF StartedStatus, StepStatus
<1> QED
  BY <1>2, <1>3, <1>4, <1>5 DEF Passes, loop, old

\* Every step of the system counts in one of these ways.
LEMMA NextCounts ==
  ASSUME TypeOK, [Next]_vars
  PROVE  CountingWrite
<1>1. ASSUME NEW new, NEW mishap, WriteStatus(new, mishap),
             new.phase \in {"Cancelled", "Failed", "RollingBack"}
      PROVE  CountingWrite
  BY <1>1, StatusWritten DEF CountingWrite, Kept
<1>2. wf \in Workflow /\ wfView \in Workflow /\ Loaded \in Workflow
  BY LoadedType DEF TypeOK
<1>3. ASSUME NEW mishap \in Mishap, AssignRunID(mishap) PROVE CountingWrite
  <2>1. wf' = wf \/ wf' = [wf EXCEPT !.runID = TRUE]
    BY <1>3 DEF AssignRunID
  <2>2. LET x == [wf EXCEPT !.runID = TRUE]
        IN /\ x.phase = wf.phase /\ x.steps = wf.steps /\ x.denied = wf.denied
           /\ x.completed = wf.completed /\ x.failed = wf.failed
    BY <1>2 DEF Workflow
  <2> QED
    BY <2>1, <2>2 DEF CountingWrite, Kept
<1>4. ASSUME NEW mishap \in Mishap, CancelRun(mishap) PROVE CountingWrite
  <2> DEFINE st == Skipping(wfView.steps, {"Running", "Reset"})
             new == [wfView EXCEPT !.phase = "Cancelled", !.reason = "UserCancelled", !.steps = st]
  <2>1. WriteStatus(new, mishap)
    BY <1>4 DEF CancelRun
  <2>2. new.phase = "Cancelled"
    <3> HIDE DEF st
    <3> QED BY <1>2, UpdatedFields
  <2> HIDE DEF new
  <2> QED
    BY <1>1, <2>1, <2>2
<1>5. ASSUME NEW mishap \in Mishap, TimeoutRun(mishap) PROVE CountingWrite
  <2> DEFINE new == [wfView EXCEPT !.phase = "Failed", !.reason = "WorkflowTimeout"]
  <2>1. WriteStatus(new, mishap) /\ new.phase = "Failed"
    BY <1>2, <1>5, UpdatedFields DEF TimeoutRun
  <2> HIDE DEF new
  <2> QED
    BY <1>1, <2>1
<1>6. ASSUME NEW mishap \in Mishap, MissAgent(mishap) PROVE CountingWrite
  <2> DEFINE new == [Loaded EXCEPT !.phase = "Failed", !.reason = "AgentNotFound"]
  <2>1. WriteStatus(new, mishap) /\ new.phase = "Failed"
    BY <1>2, <1>6, UpdatedFields DEF MissAgent
  <2> HIDE DEF new
  <2> QED
    BY <1>1, <2>1
<1>7. ASSUME NEW mishap \in Mishap, WatchRollback(mishap) PROVE CountingWrite
  <2> DEFINE st == RollbackProgress(wfView.steps, jobView)
             ended == [wfView EXCEPT !.phase = "Failed", !.reason = "RolledBack", !.steps = st]
             going == [wfView EXCEPT !.steps = st]
  <2>1. WriteStatus(ended, mishap) \/ WriteStatus(going, mishap)
    BY <1>7, Zenon DEF WatchRollback
  <2>2. ended.phase = "Failed" /\ going.phase = "RollingBack"
    <3>1. wfView.phase = "RollingBack"
      BY <1>7 DEF WatchRollback
    <3> HIDE DEF st
    <3> QED BY <1>2, <3>1, UpdatedFields
  <2> HIDE DEF ended, going
  <2> QED
    BY <1>1, <2>1, <2>2
<1>8. ASSUME NEW r \in Readings
      PROVE  r.synced \in Workflow /\ r.synced.denied = wfView.denied /\ r.synced.steps \in StatusesType
  BY <1>8, ReadingsType, ReadingsSynced DEF Workflow, StatusesType
<1>9. ASSUME NEW mishap \in Mishap, NEW r \in Readings, StopOnFailure(r, mishap) PROVE CountingWrite
  <2> DEFINE st == Skipping(r.synced.steps, Unfinished)
             new == [r.synced EXCEPT !.phase = "Failed", !.reason = "StepFailed", !.steps = st]
  <2>1. WriteStatus(new, mishap)
    BY <1>9 DEF StopOnFailure
  <2>2. new.phase = "Failed"
    <3> HIDE DEF st
    <3> QED BY <1>8, UpdatedFields
  <2> HIDE DEF new
  <2> QED
    BY <1>1, <2>1, <2>2
<1>10. ASSUME NEW mishap \in Mishap, NEW r \in Readings, EnterRollback(r, mishap) PROVE CountingWrite
  <2> DEFINE st == RollingBackSteps(r.synced.steps)
             new == [r.synced EXCEPT !.phase = "RollingBack", !.reason = "RollbackInProgress",
                                     !.steps = st]
  <2>1. WriteStatus(new, mishap)
    BY <1>10 DEF EnterRollback
  <2>2. new.phase = "RollingBack"
    <3> HIDE DEF st
    <3> QED BY <1>8, UpdatedFields
  <2> HIDE DEF new
  <2> QED
    BY <1>1, <2>1, <2>2
<1>11. ASSUME NEW mishap \in Mishap, NEW r \in Readings, Finish(r, mishap) PROVE CountingWrite
  <2> DEFINE end == CompletionPhase(r.synced.completed, r.synced.failed)
             st == ForcedSteps(r.synced.steps)
             new == [r.synced EXCEPT !.phase = end.phase, !.reason = end.reason, !.steps = st]
  <2>1. WriteStatus(new, mishap) /\ Going(wfView)
    BY <1>11 DEF Finish, Syncing, Proceeding, Live, Going
  <2>2. new.phase = end.phase /\ new.steps = st /\ new.denied = wfView.denied
    <3> HIDE DEF st, end
    <3> QED BY <1>8, UpdatedFields
  <2>3. (new.phase = end.phase /\ new.steps = st /\ wf' = new) => FinishWritten(r)
    BY <1>11 DEF FinishWritten, Finish
  <2>4. wf' = wf \/ r.lost = {} \/ skewed'
    BY <1>11 DEF Finish, Remember
  <2> HIDE DEF new, st, end
  <2> QED
    BY <2>1, <2>2, <2>3, <2>4, StatusWritten DEF CountingWrite, Kept
<1>12. ASSUME NEW mishap \in Mishap, NEW r \in Readings, StartSteps(r, mishap) PROVE CountingWrite
  <2>1. PICK w \in OutputWrites(Finished(r.jm)) :
          LET loop == StartLoop(r, w.seen, mishap = "create")
          IN WriteStatus([r.synced EXCEPT !.phase = "Running", !.reason = "StepsInProgress",
                                          !.steps = loop.steps,
                                          !.completed = @ + Cardinality(loop.passed)], mishap)
    BY <1>12 DEF StartSteps
  <2> DEFINE loop == StartLoop(r, w.seen, mishap = "create")
             st == loop.steps
             passed == loop.passed
             c == r.synced.completed + Cardinality(passed)
             new == [r.synced EXCEPT !.phase = "Running", !.reason = "StepsInProgress",
                                     !.steps = st, !.completed = c]
  <2>2. WriteStatus(new, mishap) /\ Going(wfView)
    BY <1>12, <2>1 DEF StartSteps, Syncing, Proceeding, Live, Going
  <2>3. /\ new.phase = "Running" /\ new.steps = st /\ new.denied = wfView.denied
        /\ new.completed = c /\ new.failed = r.synced.failed
    <3> HIDE DEF st, c
    <3> QED BY <1>8, UpdatedFields, UpdatedCounters
  <2>4. passed \in SUBSET Steps
    BY <1>8, StartLoopType
  <2>5. \A s \in Steps : Passes(r.synced.steps[s].phase, st[s].phase, s \in passed,
                                s \in wfView.denied)
    BY <1>8, StartLoopCounts
  <2> HIDE DEF new, st, passed
  <2>6. wf' = new /\ wf = wfView => StartWritten(r)
    BY <2>3, <2>4, <2>5 DEF StartWritten
  <2>7. wf' = wf \/ r.lost = {} \/ skewed'
    BY <1>12 DEF StartSteps, Remember
  <2> HIDE DEF c
  <2> QED
    BY <2>2, <2>3, <2>6, <2>7, StatusWritten DEF CountingWrite, Kept
<1>13. CASE ~Reconcile /\ ~\E s \in Steps : handleDenyStep(s)
  <2>1. \/ wf' = wf \/ RunWorkflowCancel
        \/ \E s \in Steps : RunWorkflowApprove(s) \/ RunWorkflowDeny(s) \/ handleApproveStep(s)
    BY <1>13 DEF Next, SyncWorkflow, SyncJobs, SyncOutputs, JobStarts, JobEnds, JobReaped,
           TimePasses, AgentDeleted, Ended, vars, server
  <2>2. wf'.completed = wf.completed /\ wf'.failed = wf.failed /\ wf'.phase = wf.phase
        /\ wf'.steps = wf.steps /\ wf.denied \subseteq wf'.denied
    <3>1. CASE wf' = wf
      BY <3>1
    <3>2. CASE RunWorkflowCancel
      BY <1>2, <3>2 DEF RunWorkflowCancel, Workflow
    <3>3. ASSUME NEW s \in Steps, RunWorkflowApprove(s) \/ handleApproveStep(s)
          PROVE  /\ wf'.completed = wf.completed /\ wf'.failed = wf.failed /\ wf'.phase = wf.phase
                 /\ wf'.steps = wf.steps /\ wf.denied \subseteq wf'.denied
      BY <1>2, <3>3 DEF RunWorkflowApprove, handleApproveStep, Workflow
    <3>4. ASSUME NEW s \in Steps, RunWorkflowDeny(s)
          PROVE  /\ wf'.completed = wf.completed /\ wf'.failed = wf.failed /\ wf'.phase = wf.phase
                 /\ wf'.steps = wf.steps /\ wf.denied \subseteq wf'.denied
      BY <1>2, <3>4 DEF RunWorkflowDeny, Workflow
    <3> QED
      BY <2>1, <3>1, <3>2, <3>3, <3>4
  <2> QED
    BY <2>2 DEF CountingWrite, Kept
<1>14. ASSUME NEW s \in Steps, handleDenyStep(s) PROVE CountingWrite
  BY <1>14, DenialOverrules DEF CountingWrite
<1> QED
  BY <1>3, <1>4, <1>5, <1>6, <1>7, <1>9, <1>10, <1>11, <1>12, <1>13, <1>14 DEF Reconcile

\* A run that is started on counts what it passes over.
LEMMA StartCounts ==
  ASSUME TypeOK, TypeOK', NEW r \in Readings, Counts(r.synced), wf = wfView, wf'.denied = wf.denied,
         StartWritten(r)
  PROVE  Counts(wf') /\ (CountsOnce(r.synced) => CountsOnce(wf'))
<1>1. PICK passed \in SUBSET Steps :
        /\ \A s \in Steps : Passes(r.synced.steps[s].phase, wf'.steps[s].phase, s \in passed,
                                    s \in wf.denied)
        /\ wf'.completed = r.synced.completed + Cardinality(passed)
        /\ wf'.failed = r.synced.failed
  BY DEF StartWritten
<1>2. r.synced \in Workflow /\ r.synced.denied = wf.denied
  BY ReadingsType, ReadingsSynced
<1>3. DoneSteps(wf') \subseteq DoneSteps(r.synced) \cup passed
  BY <1>1 DEF DoneSteps, Passes
<1>4. FailedSteps(wf') \subseteq FailedSteps(r.synced) \cup {}
  BY <1>1, <1>2 DEF FailedSteps, Passes
<1>10. DoneSteps(r.synced) \cup passed \subseteq DoneSteps(wf') /\ DoneSteps(r.synced) \cap passed = {}
  BY <1>1 DEF DoneSteps, Passes
<1>5. /\ DoneSteps(r.synced) \in SUBSET Steps /\ FailedSteps(r.synced) \in SUBSET Steps
      /\ DoneSteps(wf') \in SUBSET Steps /\ FailedSteps(wf') \in SUBSET Steps
      /\ {} \in SUBSET Steps /\ Cardinality({}) = 0
  BY FS_EmptySet DEF DoneSteps, FailedSteps
<1>6. /\ Cardinality(DoneSteps(wf')) <= Cardinality(DoneSteps(r.synced)) + Cardinality(passed)
      /\ Cardinality(FailedSteps(wf')) <= Cardinality(FailedSteps(r.synced)) + 0
  BY <1>3, <1>4, <1>5, StepsCover
<1>7. /\ Cardinality(DoneSteps(r.synced)) \in Nat /\ Cardinality(FailedSteps(r.synced)) \in Nat
      /\ Cardinality(DoneSteps(wf')) \in Nat /\ Cardinality(FailedSteps(wf')) \in Nat
      /\ Cardinality(passed) \in Nat
      /\ r.synced.completed \in Nat /\ r.synced.failed \in Nat
  BY <1>2, <1>5, StepsCount DEF Workflow
<1>8. /\ r.synced.completed >= Cardinality(DoneSteps(r.synced))
      /\ r.synced.failed >= Cardinality(FailedSteps(r.synced))
  BY DEF Counts
<1>9. /\ wf'.completed >= Cardinality(DoneSteps(wf'))
      /\ wf'.failed >= Cardinality(FailedSteps(wf'))
  BY <1>1, <1>6, <1>7, <1>8
<1>11. Cardinality(DoneSteps(r.synced)) + Cardinality(passed) <= Cardinality(DoneSteps(wf'))
  BY <1>5, <1>10, StepsApart
<1>12. CountsOnce(r.synced) => CountsOnce(wf')
  BY <1>1, <1>7, <1>11 DEF CountsOnce
<1> QED
  BY <1>9, <1>12 DEF Counts

\* A run that finishes as succeeded has counted no failure, and has none.
LEMMA FinishHidesNothing ==
  ASSUME TypeOK, NEW r \in Readings, Counts(r.synced), wf = wfView, wf'.denied = wf.denied,
         FinishWritten(r)
  PROVE  FailureNeverHidden'
<1> SUFFICES ASSUME wf'.phase = "Succeeded", NEW s \in Steps \ wf'.denied
             PROVE  wf'.steps[s].phase # "Failed"
  BY DEF FailureNeverHidden
<1>1. r.synced \in Workflow /\ r.synced.denied = wf.denied
  BY ReadingsType, ReadingsSynced
<1>2. r.synced.failed = 0
  BY DEF FinishWritten, CompletionPhase
<1>3. FailedSteps(r.synced) \in SUBSET Steps
  BY DEF FailedSteps
<1>4. FailedSteps(r.synced) = {}
  <2>1. IsFiniteSet(FailedSteps(r.synced))
    <3>1. IsFiniteSet(Steps)
      BY FS_Interval, SchedulingAssumption DEF Steps
    <3> QED
      BY <1>3, <3>1, FS_Subset
  <2>2. Cardinality(FailedSteps(r.synced)) = 0
    BY <1>2, <1>3, StepsCount DEF Counts
  <2> QED
    BY <2>1, <2>2, FS_EmptySet
<1>5. r.synced.steps[s].phase # "Failed"
  BY <1>1, <1>4 DEF FailedSteps
<1> QED
  BY <1>1, <1>5 DEF FinishWritten, ForcedSteps, Workflow, StepStatus

\* And when no count has parted from its steps, all of them have been completed.
LEMMA FinishIsWhole ==
  ASSUME TypeOK, NEW r \in Readings, CountsOnce(r.synced), FinishWritten(r),
         wf'.phase = "Succeeded", NEW s \in Steps
  PROVE  wf'.steps[s].phase \in {"Succeeded", "Skipped"}
<1>1. r.synced \in Workflow
  BY ReadingsType
<1>2. r.synced.failed = 0
  BY DEF FinishWritten, CompletionPhase
<1>3. DoneSteps(r.synced) \in SUBSET Steps
  BY DEF DoneSteps
<1>4. DoneSteps(r.synced) = Steps
  <2>1. Cardinality(DoneSteps(r.synced)) \in Nat /\ NumSteps \in Nat /\ r.synced.completed \in Nat
    BY <1>1, <1>3, StepsCount, SchedulingAssumption DEF Workflow
  <2>2. Cardinality(DoneSteps(r.synced)) >= NumSteps
    BY <1>2, <2>1 DEF FinishWritten, StepsDone, CountsOnce
  <2> QED
    BY <1>3, <2>2, AllSteps
<1>5. r.synced.steps[s].phase \in {"Succeeded", "Skipped"}
  BY <1>4 DEF DoneSteps
<1> QED
  BY <1>5 DEF FinishWritten, ForcedSteps

\* A denial at the dashboard counts the failure it makes.
LEMMA DenialCounts ==
  ASSUME TypeOK, TypeOK', Counted, Overrules
  PROVE  Counted'
<1>1. PICK d \in Steps : /\ wf.steps[d].phase # "None" /\ d \in overruled'
                         /\ wf'.steps = [wf.steps EXCEPT ![d] = [@ EXCEPT !.phase = "Failed"]]
  BY DEF Overrules
<1>2. wf.steps \in [Steps -> StepStatus] /\ wf.completed \in Nat /\ wf.failed \in Nat
  BY DEF TypeOK, Workflow
<1>3. \A s \in Steps : wf'.steps[s].phase = IF s = d THEN "Failed" ELSE wf.steps[s].phase
  BY <1>1, <1>2 DEF StepStatus
<1>4. /\ wf'.phase = wf.phase /\ wf'.denied = wf.denied /\ wf'.completed = wf.completed
      /\ wf'.failed = wf.failed + 1 /\ skewed' /\ overruled \subseteq overruled'
  BY DEF Overrules
<1>5. /\ DoneSteps(wf') \subseteq DoneSteps(wf) \cup {}
      /\ FailedSteps(wf') \subseteq FailedSteps(wf) \cup {d}
  BY <1>3, <1>4 DEF DoneSteps, FailedSteps
<1>6. /\ DoneSteps(wf) \in SUBSET Steps /\ FailedSteps(wf) \in SUBSET Steps
      /\ DoneSteps(wf') \in SUBSET Steps /\ FailedSteps(wf') \in SUBSET Steps
      /\ {} \in SUBSET Steps /\ Cardinality({}) = 0
      /\ {d} \in SUBSET Steps /\ Cardinality({d}) = 1
  BY FS_EmptySet, FS_Singleton DEF DoneSteps, FailedSteps
<1>7. /\ Cardinality(DoneSteps(wf')) <= Cardinality(DoneSteps(wf)) + 0
      /\ Cardinality(FailedSteps(wf')) <= Cardinality(FailedSteps(wf)) + 1
  BY <1>5, <1>6, StepsCover
<1>8. /\ Cardinality(DoneSteps(wf)) \in Nat /\ Cardinality(FailedSteps(wf)) \in Nat
      /\ Cardinality(DoneSteps(wf')) \in Nat /\ Cardinality(FailedSteps(wf')) \in Nat
  BY <1>6, StepsCount
<1>9. Counts(wf) => Counts(wf')
  BY <1>2, <1>4, <1>7, <1>8 DEF Counts
<1>10. wf.phase # ""
  BY <1>1 DEF Counted
<1>11. FailureNeverHidden'
  BY <1>1, <1>3, <1>4 DEF Counted, FailureNeverHidden
<1> QED
  BY <1>4, <1>9, <1>10, <1>11 DEF Counted, Going, SuccessIsWhole

\* The counters of a run never fall behind its statuses, so that a run whose
\* steps have all ended is seen to have ended.  A plain success shows no failed
\* step but those that a user has denied; and unless an update was lost or the
\* dashboard has failed a step, every one of its steps succeeded or was skipped.
THEOREM CountersStayTrue == Spec => []CountersTrue
<1>1. Init => Counted
  <2> SUFFICES ASSUME Init PROVE Counted
    OBVIOUS
  <2>1. /\ wf.steps = [s \in Steps |-> NoStatus] /\ NoStatus.phase = "None"
        /\ wf.phase = "" /\ wf.completed = 0 /\ wf.failed = 0
    BY DEF Init, NoStatus
  <2>2. DoneSteps(wf) = {} /\ FailedSteps(wf) = {}
    BY <2>1 DEF DoneSteps, FailedSteps
  <2>3. Cardinality(DoneSteps(wf)) = 0 /\ Cardinality(FailedSteps(wf)) = 0
    BY <2>2, FS_EmptySet
  <2>4. Counts(wf)
    <3>1. 0 >= 0
      OBVIOUS
    <3> QED
      BY <2>1, <2>3, <3>1, Zenon DEF Counts
  <2>5. CountsOnce(wf)
    <3>1. 0 <= 0
      OBVIOUS
    <3> QED
      BY <2>1, <2>3, <3>1, Zenon DEF CountsOnce
  <2>6. \A s \in Steps : wf.steps[s].phase = "None"
    BY <2>1
  <2> QED
    BY <2>1, <2>4, <2>5, <2>6 DEF Counted, FailureNeverHidden, SuccessIsWhole
<1>2. TypeOK /\ TypeOK' /\ Counted /\ [Next]_vars => Counted'
  <2> SUFFICES ASSUME TypeOK, TypeOK', Counted, [Next]_vars PROVE Counted'
    OBVIOUS
  <2>0. overruled \subseteq overruled' /\ (skewed => skewed')
    BY OverruledGrows
  <2>1. CASE Kept /\ wf'.completed = wf.completed /\ wf'.failed = wf.failed
    <3>1. /\ wf'.phase = wf.phase /\ wf'.steps = wf.steps /\ wf.denied \subseteq wf'.denied
          /\ wf'.completed = wf.completed /\ wf'.failed = wf.failed
      BY <2>1 DEF Kept
    <3>2. DoneSteps(wf') = DoneSteps(wf) /\ FailedSteps(wf') \subseteq FailedSteps(wf) \cup {}
      BY <3>1 DEF DoneSteps, FailedSteps
    <3>3. /\ FailedSteps(wf) \in SUBSET Steps /\ FailedSteps(wf') \in SUBSET Steps
          /\ {} \in SUBSET Steps /\ Cardinality({}) = 0
      BY FS_EmptySet DEF FailedSteps
    <3>4. Cardinality(FailedSteps(wf')) <= Cardinality(FailedSteps(wf)) + 0
      BY <3>2, <3>3, StepsCover
    <3>5. /\ Cardinality(FailedSteps(wf)) \in Nat /\ Cardinality(FailedSteps(wf')) \in Nat
          /\ wf.failed \in Nat
      BY <3>3, StepsCount DEF TypeOK, Workflow
    <3>6. Counts(wf) => Counts(wf')
      BY <3>1, <3>2, <3>4, <3>5 DEF Counts
    <3>7. FailureNeverHidden'
      BY <2>0, <3>1 DEF Counted, FailureNeverHidden
    <3>8. SuccessIsWhole'
      BY <2>0, <3>1 DEF Counted, SuccessIsWhole
    <3>9. CountsOnce(wf) => CountsOnce(wf')
      BY <3>1, <3>2 DEF CountsOnce
    <3> QED
      BY <2>0, <3>1, <3>6, <3>7, <3>8, <3>9 DEF Counted, Going
  <2>2. CASE wf'.phase \in {"Cancelled", "Failed", "RollingBack"}
    <3>1. ~Going(wf') /\ wf'.phase # "" /\ wf'.phase # "Succeeded"
      BY <2>2 DEF Going, Terminal
    <3> QED
      BY <3>1 DEF Counted, FailureNeverHidden, SuccessIsWhole, Going
  <2>3. ASSUME Going(wf), wf = wfView, wf'.denied = wf.denied,
               NEW r \in Readings, FinishWritten(r) \/ StartWritten(r), r.lost = {} \/ skewed'
        PROVE  Counted'
    <3>1. Counts(r.synced) /\ (skewed' \/ CountsOnce(r.synced))
      BY <2>0, <2>3, SyncedCounts
    <3>2. CASE FinishWritten(r)
      <4>1. wf'.phase \in Terminal
        BY <3>2, NamesOfPhases DEF FinishWritten
      <4>2. FailureNeverHidden'
        BY <2>3, <3>1, <3>2, FinishHidesNothing
      <4>3. SuccessIsWhole'
        BY <3>1, <3>2, FinishIsWhole DEF SuccessIsWhole
      <4> QED
        BY <4>1, <4>2, <4>3 DEF Counted, Going, Terminal
    <3>3. CASE StartWritten(r)
      <4>1. wf'.phase = "Running"
        BY <3>3 DEF StartWritten
      <4>2. Counts(wf') /\ (skewed' \/ CountsOnce(wf'))
        BY <2>3, <3>1, <3>3, StartCounts
      <4> QED
        BY <4>1, <4>2 DEF Counted, FailureNeverHidden, SuccessIsWhole
    <3> QED
      BY <2>3, <3>2, <3>3
  <2> QED
    BY <2>1, <2>2, <2>3, NextCounts, DenialCounts DEF CountingWrite
<1>3. Counted => CountersTrue
  BY DEF Counted, Counts, DoneSteps, FailedSteps, Going, Terminal, CountersTrue, NeverUndercounted
<1> QED
  BY <1>1, <1>2, <1>3, TypeCorrect, PTL DEF Spec

-----------------------------------------------------------------------------
(* Nothing is run twice.                                                    *)

HasBegun(w, s) == w.steps[s].phase \in {"Running", "Succeeded", "Skipped", "Failed"}

\* No pass over this copy of the Workflow gets as far as to start a step.
StartsNothing(w) == w.cancel \/ (w.phase = "Running" /\ expired) \/ ~Going(w)

\* A later copy of the Workflow starts nothing where an earlier one did not, and
\* has begun what the earlier one had begun, or has ended.
Follows(w, x) ==
  /\ w.cancel => x.cancel
  /\ w.phase = "Running" => x.phase = "Running" \/ ~Going(x)
  /\ ~Going(w) => ~Going(x)
  /\ Going(x) => \A s \in Steps : HasBegun(w, s) => HasBegun(x, s)

\* What has completed still has its Job, or is known to have begun, or comes too
\* late to be started.
Spent(s) == jobs[s]["run"] # "none" \/ HasBegun(wfView, s) \/ StartsNothing(wfView)

Once == Sound /\ Follows(wfView, wf) /\ \A s \in ranOK : Spent(s)

NoRetries == \A s \in Steps : MaxRetries[s] = 0

\* Without retries, what has begun is not begun again.
LEMMA BegunStays ==
  ASSUME NoRetries, NEW st \in StatusesType, NEW new \in SyncedFrom(st), NEW s \in Steps,
         st[s].phase \in {"Running", "Succeeded", "Skipped", "Failed"}
  PROVE  new[s].phase \in {"Running", "Succeeded", "Skipped", "Failed"}
<1>1. st[s].retry \in Nat /\ MaxRetries[s] = 0
  BY DEF NoRetries, StatusesType, StepStatus
<1>2. ~(st[s].retry < MaxRetries[s])
  BY <1>1
<1> QED
  BY <1>2, SyncedCases

LEMMA CancelStays ==
  ASSUME TypeOK, [Next]_vars, wf.cancel
  PROVE  wf'.cancel
<1>1. CASE Reconcile
  <2>1. ASSUME NEW mishap \in Mishap, CancelRun(mishap)
        PROVE  wf'.cancel
    <3> DEFINE st == Skipping(wfView.steps, {"Running", "Reset"})
    <3>1. \/ wf' = wf
          \/ wf' = [wfView EXCEPT !.phase = "Cancelled", !.reason = "UserCancelled", !.steps = st]
      BY <2>1 DEF CancelRun, WriteStatus
    <3>2. wfView.cancel /\ wfView \in Workflow
      BY <2>1 DEF CancelRun, TypeOK
    <3> HIDE DEF st
    <3> QED
      BY <3>1, <3>2 DEF Workflow
  <2>2. ASSUME NEW mishap \in Mishap, WatchRollback(mishap)
        PROVE  wf'.cancel
    <3> DEFINE st == RollbackProgress(wfView.steps, jobView)
    <3>1. \/ wf' = wf
          \/ wf = wfView /\ \/ wf' = [wfView EXCEPT !.phase = "Failed", !.reason = "RolledBack", !.steps = st]
                            \/ wf' = [wfView EXCEPT !.steps = st]
      BY <2>2, Zenon DEF WatchRollback, WriteStatus
    <3>2. wfView \in Workflow
      BY DEF TypeOK
    <3> HIDE DEF st
    <3> QED
      BY <3>1, <3>2 DEF Workflow
  <2>3. ASSUME NEW mishap \in Mishap, AssignRunID(mishap) \/ TimeoutRun(mishap) \/ MissAgent(mishap)
        PROVE  wf'.cancel
    <3>1. ~wfView.cancel
      BY <2>3 DEF AssignRunID, TimeoutRun, MissAgent, Proceeding
    <3>2. wf' = wf \/ wf = wfView
      BY <2>3 DEF AssignRunID, TimeoutRun, MissAgent, WriteStatus
    <3> QED BY <3>1, <3>2
  <2>4. ASSUME NEW mishap \in Mishap, NEW r \in Readings,
               \/ StopOnFailure(r, mishap) \/ EnterRollback(r, mishap)
               \/ Finish(r, mishap) \/ StartSteps(r, mishap)
        PROVE  wf'.cancel
    <3>1. ~wfView.cancel
      BY <2>4 DEF StopOnFailure, EnterRollback, Finish, StartSteps, Syncing, Proceeding
    <3>2. wf' = wf \/ wf = wfView
      BY <2>4, Zenon DEF StopOnFailure, EnterRollback, Finish, StartSteps, WriteStatus
    <3> QED BY <3>1, <3>2
  <2> QED
    BY <1>1, <2>1, <2>2, <2>3, <2>4 DEF Reconcile
<1>2. CASE wf' = wf \/ RunWorkflowCancel
  BY <1>2 DEF RunWorkflowCancel, TypeOK, Workflow
<1>3. ASSUME NEW s \in Steps,
             RunWorkflowApprove(s) \/ RunWorkflowDeny(s) \/ handleApproveStep(s)
      PROVE  wf'.cancel
  <2>1. \A x : /\ [wf EXCEPT !.approved = x].cancel = wf.cancel
               /\ [wf EXCEPT !.denied = x].cancel = wf.cancel
    BY DEF TypeOK, Workflow
  <2> QED
    BY <1>3, <2>1, Zenon DEF RunWorkflowApprove, RunWorkflowDeny, handleApproveStep
<1>4. ASSUME NEW s \in Steps, handleDenyStep(s)
      PROVE  wf'.cancel
  BY <1>4, DenialOverrules DEF Overrules
<1> QED
  BY <1>1, <1>2, <1>3, <1>4
     DEF Next, SyncWorkflow, SyncJobs, SyncOutputs, JobStarts, JobEnds, JobReaped, TimePasses,
         AgentDeleted, Ended, vars, server

LEMMA StepFollows ==
  ASSUME NoRetries, TypeOK, [Next]_vars
  PROVE  Follows(wf, wf')
<1>1. wf.cancel => wf'.cancel
  BY CancelStays
<1>2. CASE Kept
  BY <1>1, <1>2 DEF Kept, Follows, Going, HasBegun
<1>3. CASE StatusWrite /\ ~Going(wf')
  BY <1>1, <1>3 DEF Follows
<1>4. CASE StatusWrite /\ Going(wf')
  <2>1. Started /\ Going(wf)
    BY <1>4 DEF StatusWrite, Stopped, RolledBack, Watched, Going, Terminal
  <2>2. PICK st \in SyncedFrom(wf.steps) : \A s \in Steps :
          wf'.steps[s] = st[s] \/ StartedFrom(st[s], s, wf'.steps[s])
    BY <2>1 DEF Started
  <2>3. wf.steps \in StatusesType
    BY DEF TypeOK, Workflow, StatusesType
  <2>4. ASSUME NEW s \in Steps, HasBegun(wf, s)
        PROVE  HasBegun(wf', s)
    <3>1. st[s].phase \in {"Running", "Succeeded", "Skipped", "Failed"}
      BY <2>3, <2>4, BegunStays DEF HasBegun
    <3> QED
      BY <2>2, <3>1 DEF HasBegun, StartedFrom
  <2>5. wf'.phase = "Running"
    BY <2>1 DEF Started
  <2> QED
    BY <1>1, <2>1, <2>4, <2>5 DEF Follows
<1>5. CASE Overrules
  <2>1. \A s \in Steps : wf'.steps[s].phase \in {wf.steps[s].phase, "Failed"}
    BY <1>5 DEF Overrules, TypeOK, Workflow, StepStatus
  <2> QED
    BY <1>1, <1>5, <2>1 DEF Overrules, Follows, Going, HasBegun
<1> QED
  BY <1>2, <1>3, <1>4, <1>5, NextWrites

\* A pass that takes a Job away starts no step afterwards.
LEMMA OnlyLastPassDeletes ==
  ASSUME NoRetries, FailureStrategy = "continueOnError", TypeOK, Reconcile, NEW s \in Steps,
         jobs[s]["run"] # "none", jobs'[s]["run"] = "none"
  PROVE  StartsNothing(wfView)
<1> USE DEF JobKind
<1>1. ASSUME NEW mishap \in Mishap,
             AssignRunID(mishap) \/ MissAgent(mishap) \/ WatchRollback(mishap)
      PROVE  FALSE
  BY <1>1 DEF AssignRunID, MissAgent, WatchRollback
<1>2. ASSUME NEW mishap \in Mishap, CancelRun(mishap) \/ TimeoutRun(mishap)
      PROVE  StartsNothing(wfView)
  BY <1>2 DEF CancelRun, TimeoutRun, TimedOut, StartsNothing
<1>3. ASSUME NEW mishap \in Mishap, NEW r \in Readings, Finish(r, mishap) \/ StartSteps(r, mishap)
      PROVE  FALSE
  <2>1. Retried(r.jm) = {}
    <3>1. \A t \in Steps : wfView.steps[t].retry \in Nat /\ MaxRetries[t] = 0
      BY DEF NoRetries, TypeOK, Workflow, StepStatus
    <3>2. Retrying(wfView.steps, jobView, r.jm) = {}
      BY <3>1 DEF Retrying, Failing, Tracked
    <3> QED BY <3>2 DEF Retried
  <2>2. Delete(jobs, {}, mishap)[s]["run"] # "none"
    BY DEF Delete
  <2>3. CASE Finish(r, mishap)
    BY <2>1, <2>2, <2>3 DEF Finish
  <2>4. CASE StartSteps(r, mishap)
    <3>1. PICK new : jobs' = Create(Delete(jobs, {}, mishap), new \X {"run"})
      BY <2>1, <2>4 DEF StartSteps
    <3> QED
      BY <2>2, <3>1 DEF Create
  <2> QED
    BY <1>3, <2>3, <2>4
<1>4. ASSUME NEW mishap \in Mishap, NEW r \in Readings,
             StopOnFailure(r, mishap) \/ EnterRollback(r, mishap)
      PROVE  FALSE
  BY <1>4 DEF StopOnFailure, EnterRollback
<1> QED
  BY <1>1, <1>2, <1>3, <1>4 DEF Reconcile

\* What has completed is never forgotten by a pass that might run it again.
LEMMA SpentStays ==
  ASSUME NoRetries, FailureStrategy = "continueOnError", Sound, Follows(wfView, wf), [Next]_vars,
         NEW s \in Steps, Spent(s)
  PROVE  Spent(s)'
<1> USE DEF JobKind
<1>1. TypeOK /\ jobs \in [Steps -> [JobKind -> JobState]]
  BY DEF Sound, TypeOK
<1>2. expired => expired'
  <2>1. Reconcile => expired' = expired
    <3>1. ASSUME NEW mishap \in Mishap,
                 \/ AssignRunID(mishap) \/ CancelRun(mishap) \/ TimeoutRun(mishap)
                 \/ MissAgent(mishap) \/ WatchRollback(mishap)
          PROVE  expired' = expired
      BY <3>1 DEF AssignRunID, CancelRun, TimeoutRun, MissAgent, WatchRollback, world
    <3>2. ASSUME NEW mishap \in Mishap, NEW r \in Readings,
                 StopOnFailure(r, mishap) \/ EnterRollback(r, mishap) \/ Finish(r, mishap)
          PROVE  expired' = expired
      BY <3>2 DEF StopOnFailure, EnterRollback, Finish, world
    <3>3. ASSUME NEW mishap \in Mishap, NEW r \in Readings, StartSteps(r, mishap)
          PROVE  expired' = expired
      BY <3>3 DEF StartSteps, world
    <3> QED
      BY <3>1, <3>2, <3>3 DEF Reconcile
  <2> QED
    BY <2>1 DEF Next, SyncWorkflow, SyncJobs, SyncOutputs, JobStarts, JobEnds, JobReaped, TimePasses,
           AgentDeleted, RunWorkflowCancel, RunWorkflowApprove, RunWorkflowDeny,
           handleApproveStep, handleDenyStep, Ended, vars, world
<1>3. StartsNothing(wfView) => StartsNothing(wfView)'
  <2>1. CASE wfView' = wfView
    BY <1>2, <2>1 DEF StartsNothing
  <2>2. CASE wfView' = wf
    BY <1>2, <2>2 DEF StartsNothing, Follows
  <2> QED
    BY <2>1, <2>2, ViewMoves
<1>4. HasBegun(wfView, s) => HasBegun(wfView', s) \/ StartsNothing(wfView)'
  BY ViewMoves DEF Follows, StartsNothing, HasBegun
<1>5. CASE jobs[s]["run"] # "none" /\ jobs'[s]["run"] = "none"
  <2>1. CASE Reconcile
    BY <1>1, <1>3, <1>5, <2>1, OnlyLastPassDeletes DEF Spent
  <2>2. ASSUME NEW t \in Steps, NEW k \in JobKind, JobReaped(t, k)
        PROVE  Spent(s)'
    <3>1. /\ jobs' = [jobs EXCEPT ![t][k] = "none"] /\ wfView = wf
          /\ wf.steps[t].phase \in {"Succeeded", "Failed", "Skipped", "RolledBack"}
      BY <2>2 DEF JobReaped
    <3>2. t = s
      BY <1>1, <1>5, <3>1
    <3>3. HasBegun(wfView, s) \/ StartsNothing(wfView)
      BY <3>1, <3>2 DEF Sound, Forward, HasBegun, StartsNothing, Going
    <3> QED
      BY <1>3, <1>4, <3>3 DEF Spent
  <2>3. ASSUME NEW t \in Steps, NEW k \in JobKind, NEW e \in {"active", "complete", "failed"},
               jobs' = [jobs EXCEPT ![t][k] = e]
        PROVE  FALSE
    BY <1>1, <1>5, <2>3
  <2>4. jobs' # jobs
    BY <1>5
  <2> QED
    BY <2>1, <2>2, <2>3, <2>4
       DEF Next, SyncWorkflow, SyncJobs, SyncOutputs, JobStarts, JobEnds, TimePasses,
           AgentDeleted, RunWorkflowCancel, RunWorkflowApprove, RunWorkflowDeny,
           handleApproveStep, handleDenyStep, Ended, vars, server
<1> QED
  BY <1>3, <1>4, <1>5 DEF Spent

\* What joins the history has its Job.
LEMMA NewlySpent ==
  ASSUME TypeOK, [Next]_vars, NEW s \in ranOK', s \notin ranOK
  PROVE  s \in Steps /\ jobs'[s]["run"] = "complete"
<1>1. ASSUME NEW t \in Steps, NEW k \in JobKind, NEW end \in {"complete", "failed"}, JobEnds(t, k, end)
      PROVE  s \in Steps /\ jobs'[s]["run"] = "complete"
  <2>1. t = s /\ k = "run" /\ end = "complete"
    BY <1>1 DEF JobEnds
  <2> QED
    BY <1>1, <2>1 DEF JobEnds, TypeOK
<1> QED
  BY <1>1, PassKeeps
     DEF Next, SyncWorkflow, SyncJobs, SyncOutputs, JobStarts, JobReaped, TimePasses,
         AgentDeleted, RunWorkflowCancel, RunWorkflowApprove, RunWorkflowDeny,
           handleApproveStep, handleDenyStep, Ended, vars, history

\* Where failures are passed over and nothing is retried, a step that has run to
\* completion is never run again: not after its Job was reaped or its run was
\* cancelled, and not by a pass whose caches have not seen it end.
THEOREM CompletesOnce ==
  ASSUME FailureStrategy = "continueOnError", NoRetries
  PROVE  Spec => CompletedOnce
<1>1. Init /\ Sound => Once
  <2> SUFFICES ASSUME Init, Sound PROVE Once
    OBVIOUS
  <2>1. wfView = wf /\ ranOK = {}
    BY DEF Init
  <2> QED
    BY <2>1 DEF Once, Follows
<1>2. Sound /\ Once /\ [Next]_vars /\ Sound' => Once'
  <2> SUFFICES ASSUME Sound, Once, [Next]_vars, Sound' PROVE Once'
    OBVIOUS
  <2>1. Follows(wf, wf')
    BY StepFollows DEF Sound
  <2>2. Follows(wfView', wf')
    <3>1. CASE wfView' = wf
      BY <2>1, <3>1
    <3>2. CASE wfView' = wfView
      BY <2>1, <3>2 DEF Once, Follows
    <3> QED
      BY <3>1, <3>2, ViewMoves
  <2>3. ASSUME NEW s \in ranOK'
        PROVE  Spent(s)'
    <3>1. CASE s \in ranOK
      <4>1. s \in Steps
        BY <3>1 DEF Sound, TypeOK
      <4> QED
        BY <3>1, <4>1, SpentStays DEF Once
    <3>2. CASE s \notin ranOK
      BY <3>2, NewlySpent DEF Sound, Spent
    <3> QED
      BY <3>1, <3>2
  <2> QED
    BY <2>2, <2>3 DEF Once
<1>3. Once /\ [Next]_vars =>
        [\A s \in ranOK : jobs[s]["run"] = "none" /\ jobs'[s]["run"] = "created"
                            => wf.phase \in Terminal]_vars
  <2> SUFFICES ASSUME Once, [Next]_vars, NEW s \in ranOK, jobs[s]["run"] = "none",
                      jobs'[s]["run"] = "created"
               PROVE  FALSE
    OBVIOUS
  <2>1. s \in Steps
    BY DEF Once, Sound, TypeOK
  <2>2. PICK st \in SyncedFrom(wfView.steps) :
          st[s].phase \notin {"Running", "Succeeded", "Skipped", "Failed"}
    BY <2>1, OnlyReadyStart DEF Once
  <2>3. ~StartsNothing(wfView)
    BY <2>1, OnlyReadyStart DEF Once, StartsNothing, TimedOut
  <2>4. wfView.steps \in StatusesType
    BY DEF Once, Sound, TypeOK, Workflow, StatusesType
  <2>5. ~HasBegun(wfView, s)
    BY <2>1, <2>2, <2>4, BegunStays DEF HasBegun
  <2> QED
    BY <2>3, <2>5 DEF Once, Spent
<1> QED
  BY <1>1, <1>2, <1>3, SoundHolds, PTL DEF Spec, CompletedOnce
=============================================================================
