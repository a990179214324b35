-------------------------- MODULE RunArchive_proofs --------------------------
(***************************************************************************)
(* Theorems about the execution history, for every workflow: what it shows *)
(* has happened, and it shows nothing that has lost its run.               *)
(***************************************************************************)
EXTENDS RunArchive, WorkflowController_proofs

-----------------------------------------------------------------------------
(* The archive adds to the steps of the reconciler, it changes none.       *)

\* A step of the archive is a step of the reconciler, or none.
LEMMA ArchiveSteps ==
  ASSUME [ArchiveNext]_archiveVars
  PROVE  [Next]_vars
<1>1. ASSUME NEW mishap \in Mishap, ArchivedAssignRunID(mishap) PROVE Next
  BY <1>1 DEF ArchivedAssignRunID, Next, Reconcile
<1>2. ASSUME NEW mishap \in Mishap, NEW kept, ArchivedStop(mishap, kept) PROVE Next
  BY <1>2 DEF ArchivedStop, Next, Reconcile
<1>3. ASSUME NEW mishap \in Mishap, NEW kept, NEW r \in Readings, ArchivedSync(r, mishap, kept)
      PROVE Next
  BY <1>3 DEF ArchivedSync, Next, Reconcile
<1>4. ASSUME DeleteOlderThan \/ UNCHANGED archiveVars PROVE UNCHANGED vars
  BY <1>4 DEF DeleteOlderThan, archiveVars
<1>5. ASSUME Elsewhere PROVE Next
  BY <1>5 DEF Elsewhere, Next
<1> QED
  BY <1>1, <1>2, <1>3, <1>4, <1>5 DEF ArchiveNext

\* So the archive's specification implements the reconciler's.
THEOREM ArchiveImplements == ArchiveSpec => Spec
  BY ArchiveSteps, PTL DEF ArchiveSpec, Spec, ArchiveInit

-----------------------------------------------------------------------------
(* The Jobs and the retries a pass sees.                                   *)

ViewWithin == \A s \in Steps : wfView.steps[s].retry <= MaxRetries[s]

\* The retries a pass counts are within the budget, however old its cache.
LEMMA ViewBudget == Spec => []ViewWithin
<1>1. Init => ViewWithin
  <2> SUFFICES ASSUME Init, NEW s \in Steps PROVE wfView.steps[s].retry <= MaxRetries[s]
    BY DEF ViewWithin
  <2>1. wfView.steps[s] = NoStatus /\ MaxRetries[s] \in Nat
    BY SchedulingAssumption DEF Init
  <2> QED
    BY <2>1 DEF NoStatus
<1>2. RetryBudget /\ ViewWithin /\ [Next]_vars => ViewWithin'
  <2> SUFFICES ASSUME RetryBudget, ViewWithin, [Next]_vars, NEW s \in Steps
               PROVE  wfView'.steps[s].retry <= MaxRetries[s]
    BY DEF ViewWithin
  <2> QED
    BY ViewMoves DEF RetryBudget, ViewWithin
<1> QED
  BY <1>1, <1>2, RetriesWithinBudget, PTL DEF Spec

-----------------------------------------------------------------------------
(* The archive.                                                            *)

\* What is known of the reconciler's state in a step of the archive.
Known == TypeOK /\ ViewWithin /\ Accounted

LEMMA KnownHolds == ArchiveSpec => []Known
  BY ArchiveImplements, TypeCorrect, ViewBudget, AccountedHolds, PTL DEF Known

ArchiveInv ==
  /\ run \in RunRow
  /\ executions \in [ExecutionID -> ExecutionRow]
  /\ audited \subseteq ExecutionID
  /\ NoOrphans

\* An execution of a step has a row of its own.
LEMMA ExecutionIDs ==
  ASSUME Known, NEW s \in Steps
  PROVE  ExecutionOf(s) \in ExecutionID /\ ExecutionOf(s)[1] = s
<1>1. /\ wfView.steps[s].retry \in Nat /\ MaxRetries[s] \in Nat
      /\ wfView.steps[s].retry <= MaxRetries[s]
  BY SchedulingAssumption DEF Known, TypeOK, Workflow, StepStatus, ViewWithin
<1> QED
  BY <1>1 DEF ExecutionOf, ExecutionID

\* Saving executions keeps the rows typed and with their run, and changes only
\* the rows of the steps that are saved.
LEMMA SavingKeeps ==
  ASSUME Known, ArchiveInv, NEW row, row # "none" \/ run = "none",
         NEW succeeded \in SUBSET Steps, NEW failed, NEW kept,
         SaveExecutions(row, succeeded, failed, kept)
  PROVE  /\ executions' \in [ExecutionID -> ExecutionRow]
         /\ audited' \subseteq ExecutionID
         /\ row = "none" => \A e \in ExecutionID : executions'[e] = "none"
         /\ \A e \in audited' : executions'[e] # "none"
         /\ \A e \in ExecutionID :
              \/ executions'[e] = executions[e]
              \/ executions'[e] = "Succeeded" /\ e \in {ExecutionOf(s) : s \in succeeded}
              \/ executions'[e] = "Failed" /\ e \in {ExecutionOf(s) : s \in failed}
<1> DEFINE saved == "executions" \in kept /\ row # "none"
           done == {ExecutionOf(s) : s \in succeeded}
           bad == {ExecutionOf(s) : s \in failed}
<1>1. done \subseteq ExecutionID
  BY ExecutionIDs
<1>2. /\ executions' = [e \in ExecutionID |->
                          IF saved /\ e \in done THEN "Succeeded"
                          ELSE IF saved /\ e \in bad THEN "Failed" ELSE executions[e]]
      /\ audited' = IF saved /\ "calls" \in kept THEN audited \cup done ELSE audited
  BY DEF SaveExecutions
<1>3. saved => row # "none"
  OBVIOUS
<1> HIDE DEF saved, done, bad
<1>4. CASE ~saved
  <2>1. executions' = executions /\ audited' = audited
    BY <1>2, <1>4 DEF ArchiveInv
  <2> QED
    BY <2>1 DEF ArchiveInv, NoOrphans
<1>5. CASE saved
  <2>1. \A e \in ExecutionID :
          \/ e \in done /\ executions'[e] = "Succeeded"
          \/ e \notin done /\ e \in bad /\ executions'[e] = "Failed"
          \/ e \notin done /\ e \notin bad /\ executions'[e] = executions[e]
    BY <1>2, <1>5
  <2>2. executions' \in [ExecutionID -> ExecutionRow]
    <3>1. DOMAIN executions' = ExecutionID /\ executions' = [e \in ExecutionID |-> executions'[e]]
      BY <1>2
    <3>2. \A e \in ExecutionID : executions'[e] \in ExecutionRow
      BY <2>1 DEF ArchiveInv, ExecutionRow
    <3> QED
      BY <3>1, <3>2
  <2>3. audited' \subseteq audited \cup done
    BY <1>2
  <2>4. \A e \in audited : e \in ExecutionID /\ executions[e] # "none"
    BY DEF ArchiveInv, NoOrphans
  <2>5. \A e \in audited' : executions'[e] # "none"
    BY <1>1, <2>1, <2>3, <2>4
  <2> QED
    BY <1>1, <1>3, <1>5, <2>1, <2>2, <2>3, <2>4, <2>5 DEF done, bad
<1> QED
  BY <1>4, <1>5

\* The rows of the run a pass may write are rows, and stay when they are there.
LEMMA RowsMirrored ==
  ASSUME run \in RunRow, NEW phase \in Phase, NEW mishap, NEW kept, NEW row \in {run, SavePending(kept)}
  PROVE  /\ row \in RunRow /\ (row # "none" \/ run = "none")
         /\ Mirror(row, phase, mishap, kept) \in {row, phase}
         /\ Mirror(row, phase, mishap, kept) \in RunRow
         /\ Mirror(row, phase, mishap, kept) = "none" => row = "none"
<1>1. "Pending" \in Phase /\ "none" \notin Phase /\ "Pending" # "none"
  BY DEF Phase, Terminal
<1> QED
  BY <1>1 DEF SavePending, Mirror, RunRow

\* Passes that archive no execution.
LEMMA StopKeeps ==
  ASSUME ArchiveInv, NEW mishap, NEW kept, ArchivedStop(mishap, kept)
  PROVE  ArchiveInv'
<1>1. {"Cancelled", "Failed"} \subseteq Phase
  BY DEF Phase, Terminal
<1>2. executions' = executions /\ audited' = audited
  BY DEF ArchivedStop, NoExecutions
<1>3. run' \in RunRow /\ (run' = "none" => run = "none")
  <2>1. \/ run' = run
        \/ \E row \in {run, SavePending(kept)}, phase \in {"Cancelled", "Failed"} :
             run' = Mirror(row, phase, mishap, kept)
    BY DEF ArchivedStop
  <2> QED
    BY <1>1, <2>1, RowsMirrored DEF ArchiveInv
<1> QED
  BY <1>2, <1>3 DEF ArchiveInv, NoOrphans

\* What a synchronising pass does to the archive.
LEMMA SyncSaves ==
  ASSUME NEW mishap, NEW kept, NEW r, ArchivedSync(r, mishap, kept)
  PROVE  /\ \E phase \in Phase : run' = Mirror(SavePending(kept), phase, mishap, kept)
         /\ \E done \in {Finished(r.jm), Finished(r.jm) \cup Late(r)} :
              SaveExecutions(SavePending(kept), done, GivingUp(wfView.steps, jobView, r.jm), kept)
<1>1. /\ {"Failed", "RollingBack", "Running"} \subseteq Phase
      /\ CompletionPhase(r.synced.completed, r.synced.failed).phase \in Phase
  BY NamesOfPhases DEF Phase, Terminal
<1> QED
  BY <1>1, Zenon DEF ArchivedSync

\* Steps that completed, late or not, and steps that are given up, did so.
LEMMA EndsTraced ==
  ASSUME Known, NEW r \in Readings
  PROVE  /\ Finished(r.jm) \cup Late(r) \subseteq Steps
         /\ GivingUp(wfView.steps, jobView, r.jm) \subseteq Steps
         /\ FailureStrategy # "rollback" =>
              /\ Finished(r.jm) \cup Late(r) \subseteq ranOK
              /\ \A s \in GivingUp(wfView.steps, jobView, r.jm) : ranBad[s] > 0
<1>1. r.jm \in [Steps -> JobRef]
  BY ReadingsType DEF Known
<1>2. \A s \in Steps, ref \in JobRef : FailureStrategy # "rollback" =>
        /\ StateOf(jobView, s, ref) = "complete" => s \in ranOK
        /\ StateOf(jobView, s, ref) = "failed" => ranBad[s] > 0
  BY DEF Known, Accounted, Traced, StateOf, JobRef, JobKind
<1>3. AfterRetries(wfView.steps, jobView, r.jm) \in [Steps -> JobRef]
  BY <1>1 DEF AfterRetries, JobRef
<1> QED
  BY <1>1, <1>2, <1>3 DEF Finished, Late, Completing, GivingUp, Failing, Tracked

LEMMA SyncKeeps ==
  ASSUME Known, ArchiveInv, NEW mishap, NEW kept, NEW r \in Readings, ArchivedSync(r, mishap, kept)
  PROVE  ArchiveInv'
<1> DEFINE row == SavePending(kept)
<1>1. PICK phase \in Phase : run' = Mirror(row, phase, mishap, kept)
  BY SyncSaves
<1>2. PICK done \in {Finished(r.jm), Finished(r.jm) \cup Late(r)} :
        SaveExecutions(row, done, GivingUp(wfView.steps, jobView, r.jm), kept)
  BY SyncSaves
<1>3. done \in SUBSET Steps
  BY <1>2, EndsTraced
<1>4. /\ row # "none" \/ run = "none"
      /\ run' \in RunRow /\ (run' = "none" => row = "none")
  BY <1>1, RowsMirrored DEF ArchiveInv
<1> HIDE DEF row
<1> QED
  BY <1>2, <1>3, <1>4, SavingKeeps DEF ArchiveInv, NoOrphans

\* The rows of the archive are typed, every execution belongs to a run, and
\* every tool call to an execution.
THEOREM ArchiveHolds == ArchiveSpec => []ArchiveInv
<1>1. ArchiveInit => ArchiveInv
  BY DEF ArchiveInit, ArchiveInv, NoOrphans, RunRow, ExecutionRow
<1>2. Known /\ ArchiveInv /\ [ArchiveNext]_archiveVars => ArchiveInv'
  <2> SUFFICES ASSUME Known, ArchiveInv, [ArchiveNext]_archiveVars PROVE ArchiveInv'
    OBVIOUS
  <2>1. CASE UNCHANGED archive
    BY <2>1 DEF archive, ArchiveInv, NoOrphans
  <2>2. CASE DeleteOlderThan
    BY <2>2 DEF DeleteOlderThan, ArchiveInv, NoOrphans, RunRow, ExecutionRow
  <2> QED
    BY <2>1, <2>2, StopKeeps, SyncKeeps DEF ArchiveNext, ArchivedAssignRunID, archiveVars
<1> QED
  BY <1>1, <1>2, KnownHolds, PTL DEF ArchiveSpec

THEOREM ArchiveTyped == ArchiveSpec => []ArchiveTypeOK
<1>1. Known /\ ArchiveInv => ArchiveTypeOK
  BY DEF Known, ArchiveInv, ArchiveTypeOK
<1> QED
  BY <1>1, KnownHolds, ArchiveHolds, PTL

THEOREM RowsHaveARun == ArchiveSpec => []NoOrphans
<1>1. ArchiveInv => NoOrphans
  BY DEF ArchiveInv
<1> QED
  BY <1>1, ArchiveHolds, PTL

-----------------------------------------------------------------------------
(* What the archive shows has happened.                                    *)

\* A workflow with a new phase has that phase.
LEMMA PhaseWritten ==
  ASSUME NEW w \in Workflow, NEW p, NEW q, NEW st, NEW c
  PROVE  /\ [w EXCEPT !.phase = p, !.reason = q].phase = p
         /\ [w EXCEPT !.phase = p, !.reason = q, !.steps = st].phase = p
         /\ [w EXCEPT !.phase = p, !.reason = q, !.steps = st, !.completed = c].phase = p
  BY DEF Workflow

\* A phase that is mirrored is the one the server has taken.
LEMMA MirrorHeld ==
  ASSUME NEW new, NEW row, NEW mishap, NEW kept, WriteStatus(new, mishap)
  PROVE  Mirror(row, new.phase, mishap, kept) \in {row, wf'.phase}
  BY DEF WriteStatus, Mirror, Accepted

\* A pass leaves the row as it was, as pending, or with the phase of the run.
LEMMA StopHeld ==
  ASSUME Known, NEW mishap, NEW kept, ArchivedStop(mishap, kept)
  PROVE  run' \in {run, "Pending", wf'.phase}
<1>1. wfView \in Workflow /\ Loaded \in Workflow
  BY LoadedType DEF Known, TypeOK
<1>2. CASE CancelRun(mishap) /\ run' = Mirror(run, "Cancelled", mishap, kept)
  <2> DEFINE new == [wfView EXCEPT !.phase = "Cancelled", !.reason = "UserCancelled",
                                   !.steps = Skipping(@, {"Running", "Reset"})]
  <2>1. WriteStatus(new, mishap) /\ new.phase = "Cancelled"
    BY <1>1, <1>2, PhaseWritten DEF CancelRun
  <2> HIDE DEF new
  <2>2. Mirror(run, new.phase, mishap, kept) \in {run, wf'.phase}
    BY <2>1, MirrorHeld
  <2> QED
    BY <1>2, <2>1, <2>2
<1>3. CASE TimeoutRun(mishap) /\ run' = Mirror(run, "Failed", mishap, kept)
  <2> DEFINE new == [wfView EXCEPT !.phase = "Failed", !.reason = "WorkflowTimeout"]
  <2>1. WriteStatus(new, mishap) /\ new.phase = "Failed"
    BY <1>1, <1>3, PhaseWritten DEF TimeoutRun
  <2> HIDE DEF new
  <2> QED
    BY <1>3, <2>1, MirrorHeld
<1>4. CASE MissAgent(mishap) /\ run' = Mirror(SavePending(kept), "Failed", mishap, kept)
  <2> DEFINE new == [Loaded EXCEPT !.phase = "Failed", !.reason = "AgentNotFound"]
  <2>1. WriteStatus(new, mishap) /\ new.phase = "Failed"
    BY <1>1, <1>4, PhaseWritten DEF MissAgent
  <2> HIDE DEF new
  <2>2. SavePending(kept) \in {run, "Pending"}
    BY DEF SavePending
  <2> QED
    BY <1>4, <2>1, <2>2, MirrorHeld
<1>5. CASE /\ WatchRollback(mishap)
           /\ run' = IF wf'.phase = "RollingBack" THEN run ELSE Mirror(run, "Failed", mishap, kept)
  <2> DEFINE st == RollbackProgress(wfView.steps, jobView)
             ended == [wfView EXCEPT !.phase = "Failed", !.reason = "RolledBack", !.steps = st]
             going == [wfView EXCEPT !.steps = st]
  <2>1. ended.phase = "Failed" /\ going.phase = "RollingBack"
    <3>1. wfView.phase = "RollingBack"
      BY <1>5 DEF WatchRollback
    <3> HIDE DEF st
    <3>2. ended.phase = "Failed"
      BY <1>1, PhaseWritten
    <3>3. going.phase = wfView.phase
      BY <1>1 DEF Workflow
    <3> QED
      BY <3>1, <3>2, <3>3
  <2>2. WriteStatus(ended, mishap) \/ WriteStatus(going, mishap)
    BY <1>5, Zenon DEF WatchRollback
  <2> HIDE DEF ended, going
  <2>3. CASE WriteStatus(ended, mishap)
    BY <1>5, <2>1, <2>3, MirrorHeld
  <2>4. CASE WriteStatus(going, mishap)
    <3>1. wf' = wf \/ wf' = going
      BY <2>4 DEF WriteStatus
    <3>2. wf = wfView => wf.phase = "RollingBack"
      BY <1>5 DEF WatchRollback
    <3> QED
      BY <1>5, <2>1, <3>1, <3>2 DEF Mirror, Accepted
  <2> QED
    BY <2>2, <2>3, <2>4
<1> QED
  BY <1>2, <1>3, <1>4, <1>5 DEF ArchivedStop

LEMMA SyncHeld ==
  ASSUME Known, NEW mishap, NEW kept, NEW r \in Readings, ArchivedSync(r, mishap, kept)
  PROVE  run' \in {run, "Pending", wf'.phase}
<1> DEFINE row == SavePending(kept)
<1>1. r.synced \in Workflow /\ row \in {run, "Pending"}
  BY ReadingsType DEF Known, SavePending
<1> HIDE DEF row
<1>2. CASE StopOnFailure(r, mishap) /\ run' = Mirror(row, "Failed", mishap, kept)
  <2> DEFINE new == [r.synced EXCEPT !.phase = "Failed", !.reason = "StepFailed",
                                     !.steps = Skipping(@, Unfinished)]
  <2>1. WriteStatus(new, mishap) /\ new.phase = "Failed"
    BY <1>1, <1>2, PhaseWritten DEF StopOnFailure
  <2> HIDE DEF new
  <2> QED
    BY <1>1, <1>2, <2>1, MirrorHeld
<1>3. CASE EnterRollback(r, mishap) /\ run' = Mirror(row, "RollingBack", mishap, kept)
  <2> DEFINE new == [r.synced EXCEPT !.phase = "RollingBack", !.reason = "RollbackInProgress",
                                     !.steps = RollingBackSteps(@)]
  <2>1. WriteStatus(new, mishap) /\ new.phase = "RollingBack"
    BY <1>1, <1>3, PhaseWritten DEF EnterRollback
  <2> HIDE DEF new
  <2> QED
    BY <1>1, <1>3, <2>1, MirrorHeld
<1>4. CASE StartSteps(r, mishap) /\ run' = Mirror(row, "Running", mishap, kept)
  <2>1. PICK w \in OutputWrites(Finished(r.jm)) :
          WriteStatus([r.synced EXCEPT
            !.phase = "Running", !.reason = "StepsInProgress",
            !.steps = StartLoop(r, w.seen, mishap = "create").steps,
            !.completed = @ + Cardinality(StartLoop(r, w.seen, mishap = "create").passed)], mishap)
    BY <1>4 DEF StartSteps
  <2> DEFINE new == [r.synced EXCEPT
            !.phase = "Running", !.reason = "StepsInProgress",
            !.steps = StartLoop(r, w.seen, mishap = "create").steps,
            !.completed = @ + Cardinality(StartLoop(r, w.seen, mishap = "create").passed)]
  <2>2. WriteStatus(new, mishap) /\ new.phase = "Running"
    BY <1>1, <2>1, PhaseWritten
  <2> HIDE DEF new
  <2> QED
    BY <1>1, <1>4, <2>2, MirrorHeld
<1>5. ASSUME Finish(r, mishap),
             run' = Mirror(row, CompletionPhase(r.synced.completed, r.synced.failed).phase, mishap, kept)
      PROVE  run' \in {run, "Pending", wf'.phase}
  <2> DEFINE end == CompletionPhase(r.synced.completed, r.synced.failed)
             new == [r.synced EXCEPT !.phase = end.phase, !.reason = end.reason, !.steps = ForcedSteps(@)]
  <2>1. WriteStatus(new, mishap)
    BY <1>5 DEF Finish
  <2>2. new.phase = end.phase
    BY <1>1, PhaseWritten
  <2> HIDE DEF new
  <2>3. Mirror(row, new.phase, mishap, kept) \in {row, wf'.phase}
    BY <2>1, MirrorHeld
  <2>4. run' \in {row, wf'.phase}
    BY <1>5, <2>2, <2>3
  <2> QED
    BY <1>1, <2>4
<1> QED
  BY <1>2, <1>3, <1>4, <1>5, Zenon DEF ArchivedSync, row

\* A run that has ended keeps its phase in every step.
LEMMA EndStays ==
  ASSUME TypeOK, [Next]_vars, wf.phase \in Terminal
  PROVE  wf'.phase = wf.phase
<1>1. CASE Reconcile
  BY <1>1, OnlyLiveIsWritten
<1>2. ASSUME [wf' EXCEPT !.cancel = wf.cancel, !.approved = wf.approved, !.denied = wf.denied] = wf,
             ~Reconcile
      PROVE  wf'.phase = wf.phase
  <2>1. wf' \in Workflow
    BY <1>2, WorldType DEF TypeOK
  <2>2. [wf' EXCEPT !.cancel = wf.cancel, !.approved = wf.approved, !.denied = wf.denied].phase = wf'.phase
    BY <2>1 DEF Workflow
  <2> QED
    BY <1>2, <2>2
<1>3. ASSUME NEW s \in overruled' \ overruled, wf' = FailedByHand(wf, s), ~Reconcile
      PROVE  wf'.phase = wf.phase
  <2>1. s \in Steps /\ wf \in Workflow
    BY <1>3, WorldType DEF TypeOK
  <2> QED
    BY <1>3, <2>1, FailedByHandType
<1> QED
  BY <1>1, <1>2, <1>3, OnlyAnnotations

\* Executions that are saved have ended as the row says.
LEMMA SavedTrue ==
  ASSUME Known, ArchiveInv, ExecutionsAreTrue, NEW mishap, NEW kept, NEW r \in Readings,
         ArchivedSync(r, mishap, kept)
  PROVE  FailureStrategy # "rollback" => \A e \in ExecutionID :
           /\ executions'[e] = "Succeeded" => e[1] \in ranOK
           /\ executions'[e] = "Failed" => ranBad[e[1]] > 0
<1> SUFFICES ASSUME FailureStrategy # "rollback", NEW e \in ExecutionID
             PROVE  /\ executions'[e] = "Succeeded" => e[1] \in ranOK
                    /\ executions'[e] = "Failed" => ranBad[e[1]] > 0
  OBVIOUS
<1> DEFINE row == SavePending(kept)
           failed == GivingUp(wfView.steps, jobView, r.jm)
<1>1. PICK done \in {Finished(r.jm), Finished(r.jm) \cup Late(r)} : SaveExecutions(row, done, failed, kept)
  BY SyncSaves
<1>2. /\ done \in SUBSET Steps /\ done \subseteq ranOK
      /\ failed \subseteq Steps /\ \A s \in failed : ranBad[s] > 0
  BY <1>1, EndsTraced
<1>3. row # "none" \/ run = "none"
  BY DEF SavePending
<1> HIDE DEF row, failed
<1>4. \/ executions'[e] = executions[e]
      \/ executions'[e] = "Succeeded" /\ e \in {ExecutionOf(s) : s \in done}
      \/ executions'[e] = "Failed" /\ e \in {ExecutionOf(s) : s \in failed}
  BY <1>1, <1>2, <1>3, SavingKeeps
<1>5. \A s \in Steps : ExecutionOf(s)[1] = s
  BY ExecutionIDs
<1> QED
  BY <1>2, <1>4, <1>5 DEF ExecutionsAreTrue

\* The archive never shows an end that the run has not come to, nor an
\* execution that succeeded or failed without a Job of the step that did.
THEOREM ArchiveTrue == ArchiveSpec => []ArchiveIsTrue
<1>1. ArchiveInit => ArchiveIsTrue
  BY DEF ArchiveInit, ArchiveIsTrue, EndIsTrue, ExecutionsAreTrue, Terminal
<1>2. Known /\ ArchiveInv /\ ArchiveIsTrue /\ [ArchiveNext]_archiveVars => ArchiveIsTrue'
  <2> SUFFICES ASSUME Known, ArchiveInv, EndIsTrue, ExecutionsAreTrue, [ArchiveNext]_archiveVars
               PROVE  EndIsTrue' /\ ExecutionsAreTrue'
    BY DEF ArchiveIsTrue
  <2>1. [Next]_vars /\ TypeOK
    BY ArchiveSteps DEF Known
  <2>2. run' = run \/ run' \in {"none", "Pending", wf'.phase}
    BY StopHeld, SyncHeld DEF ArchiveNext, ArchivedAssignRunID, DeleteOlderThan, archive, archiveVars
  <2>3. EndIsTrue'
    BY <2>1, <2>2, EndStays DEF EndIsTrue, Terminal
  <2>4. ranOK \subseteq ranOK' /\ \A s \in Steps : ranBad[s] > 0 => ranBad'[s] > 0
    BY <2>1, HistoryGrows
  <2>5. \A e \in ExecutionID : e[1] \in Steps
    BY DEF ExecutionID
  <2>6. FailureStrategy # "rollback" => \A e \in ExecutionID :
           /\ executions'[e] = "Succeeded" => e[1] \in ranOK
           /\ executions'[e] = "Failed" => ranBad[e[1]] > 0
    <3>1. CASE executions' = executions
      BY <3>1 DEF ExecutionsAreTrue
    <3>2. CASE DeleteOlderThan
      BY <3>2 DEF DeleteOlderThan
    <3>3. \/ executions' = executions \/ DeleteOlderThan
          \/ \E mishap, kept : \E r \in Readings : ArchivedSync(r, mishap, kept)
      BY DEF ArchiveNext, ArchivedAssignRunID, ArchivedStop, NoExecutions, archive, archiveVars
    <3> QED
      BY <3>1, <3>2, <3>3, SavedTrue
  <2>7. ExecutionsAreTrue'
    BY <2>4, <2>5, <2>6 DEF ExecutionsAreTrue
  <2> QED
    BY <2>3, <2>7
<1> QED
  BY <1>1, <1>2, KnownHolds, ArchiveHolds, PTL DEF ArchiveSpec
=============================================================================
