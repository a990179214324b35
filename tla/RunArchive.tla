----------------------------- MODULE RunArchive -----------------------------
(***************************************************************************)
(* The execution history beside the reconciler.  Every pass of             *)
(* WorkflowController also writes to a SQLite database: the row of the     *)
(* run, upserted while the run is pending and after each accepted phase    *)
(* change, and one row per step execution that ended, with its tool calls. *)
(* A write that fails is logged and forgotten; the daily clean-up removes  *)
(* the runs that are too old, and their executions with them.              *)
(***************************************************************************)
EXTENDS WorkflowController

VARIABLES
  run,           \* the row of the run, "none" or its phase
  executions,    \* the rows of the step executions, keyed by step and retry
  audited        \* the executions with recorded tool calls

archive == <<run, executions, audited>>
archiveVars == <<vars, archive>>

RunRow == {"none"} \cup Phase
ExecutionID == UNION {{s} \X (0 .. MaxRetries[s]) : s \in Steps}
ExecutionRow == {"none", "Succeeded", "Failed"}

ArchiveInit ==
  /\ Init
  /\ run = "none"
  /\ executions = [e \in ExecutionID |-> "none"]
  /\ audited = {}

-----------------------------------------------------------------------------
(* What a pass writes.  "kept" are the writes that succeed: the row saved  *)
(* while pending, the executions, their tool calls, and the row that       *)
(* mirrors the new phase.                                                  *)

Record == {"pending", "executions", "calls", "phase"}

\* At most one write of a pass fails (a busy or full database, a crash), or all do.
Recorded == {Record, {}} \cup {Record \ {lost} : lost \in Record}

\* Archived from the status in memory, before the pass has written anything.
SavePending(kept) ==
  IF "pending" \in kept /\ Loaded.phase = "Pending" THEN "Pending" ELSE run

Accepted(phase, mishap) == mishap # "write" /\ wfView = wf /\ phase \in AdmittedPhases

\* Mutant: the new phase is recorded whatever becomes of the status write.
MirrorAnyway(row, phase, mishap, kept) ==
  IF "phase" \in kept /\ wfView.runID THEN phase ELSE row

\* setPhase mirrors a phase that the server accepted; a run without a run-id has no row.
Mirror(row, phase, mishap, kept) ==
  IF "phase" \in kept /\ wfView.runID /\ Accepted(phase, mishap) THEN phase ELSE row

ExecutionOf(s) == <<s, wfView.steps[s].retry>>

\* The rows refer to their run: without it they are refused.
SaveExecutions(row, succeeded, failed, kept) ==
  LET saved == "executions" \in kept /\ row # "none"
      done == {ExecutionOf(s) : s \in succeeded}
      bad == {ExecutionOf(s) : s \in failed}
  IN
  /\ executions' = [e \in ExecutionID |->
                      IF saved /\ e \in done THEN "Succeeded"
                      ELSE IF saved /\ e \in bad THEN "Failed" ELSE executions[e]]
  /\ audited' = IF saved /\ "calls" \in kept THEN audited \cup done ELSE audited

NoExecutions == executions' = executions /\ audited' = audited

ArchivedAssignRunID(mishap) ==
  /\ AssignRunID(mishap)
  /\ UNCHANGED archive

\* A run that is cancelled or too old is never archived as pending; while
\* rollback Jobs are running the status is written without setPhase.
ArchivedStop(mishap, kept) ==
  /\ \/ CancelRun(mishap) /\ run' = Mirror(run, "Cancelled", mishap, kept)
     \/ TimeoutRun(mishap) /\ run' = Mirror(run, "Failed", mishap, kept)
     \/ MissAgent(mishap) /\ run' = Mirror(SavePending(kept), "Failed", mishap, kept)
     \/ /\ WatchRollback(mishap)
        /\ run' = IF wf'.phase = "RollingBack" THEN run ELSE Mirror(run, "Failed", mishap, kept)
  /\ NoExecutions

\* A synchronising pass archives what completed and what is given up; the
\* last one also the outputs it captures late.
ArchivedSync(r, mishap, kept) ==
  LET row == SavePending(kept)
      failed == GivingUp(wfView.steps, jobView, r.jm)
      end == CompletionPhase(r.synced.completed, r.synced.failed).phase
  IN
  \/ /\ \/ StopOnFailure(r, mishap) /\ run' = Mirror(row, "Failed", mishap, kept)
        \/ EnterRollback(r, mishap) /\ run' = Mirror(row, "RollingBack", mishap, kept)
        \/ StartSteps(r, mishap) /\ run' = Mirror(row, "Running", mishap, kept)
     /\ SaveExecutions(row, Finished(r.jm), failed, kept)
  \/ /\ Finish(r, mishap) /\ run' = Mirror(row, end, mishap, kept)
     /\ SaveExecutions(row, Finished(r.jm) \cup Late(r), failed, kept)

\* Mutant: the foreign keys are not enforced on this connection.
DeleteOlderThanAlone ==
  /\ run # "none"
  /\ run' = "none"
  /\ UNCHANGED <<vars, executions, audited>>

\* The clean-up looks at the age of the row, not at the phase of the run.
DeleteOlderThan ==
  /\ run # "none"
  /\ run' = "none"
  /\ executions' = [e \in ExecutionID |-> "none"]
  /\ audited' = {}
  /\ UNCHANGED vars

Elsewhere ==
  \/ SyncWorkflow \/ SyncJobs \/ SyncOutputs
  \/ \E s \in Steps, k \in JobKind : JobStarts(s, k)
  \/ \E s \in Steps, k \in JobKind, end \in {"complete", "failed"} : JobEnds(s, k, end)
  \/ \E s \in Steps, k \in JobKind : JobReaped(s, k)
  \/ TimePasses
  \/ AgentDeleted
  \/ RunWorkflowCancel
  \/ \E s \in Steps : RunWorkflowApprove(s)
  \/ \E s \in Steps : RunWorkflowDeny(s)
  \/ \E s \in Steps : handleApproveStep(s)
  \/ \E s \in Steps : handleDenyStep(s)
  \/ Ended

ArchiveNext ==
  \/ \E mishap \in Mishap :
       \/ ArchivedAssignRunID(mishap)
       \/ \E kept \in Recorded :
            \/ ArchivedStop(mishap, kept)
            \/ \E r \in Readings : ArchivedSync(r, mishap, kept)
  \/ DeleteOlderThan
  \/ Elsewhere /\ UNCHANGED archive

ArchiveSpec == ArchiveInit /\ [][ArchiveNext]_archiveVars

-----------------------------------------------------------------------------
(* Properties.                                                             *)

\* The variables of the reconciler and the rows have their types.
ArchiveTypeOK ==
  /\ TypeOK
  /\ run \in RunRow
  /\ executions \in [ExecutionID -> ExecutionRow]
  /\ audited \subseteq ExecutionID

\* A run the archive shows as ended has ended, in that phase, whatever status
\* write was refused: setPhase records only what the server holds.
EndIsTrue == run \in Terminal => wf.phase = run

\* An execution is recorded as succeeded only if a Job of the step completed,
\* and as failed only if one failed, whatever the caches and the order of the
\* map of Jobs made the pass believe.  (With rollback Jobs it is not so: when
\* the write of RollingBack is lost, they end in place of their steps.)
ExecutionsAreTrue ==
  FailureStrategy # "rollback" => \A e \in ExecutionID :
    /\ executions[e] = "Succeeded" => e[1] \in ranOK
    /\ executions[e] = "Failed" => ranBad[e[1]] > 0

\* What the archive says of a run and of its steps has happened.
ArchiveIsTrue == EndIsTrue /\ ExecutionsAreTrue

\* Nothing outlives its run in the archive, nothing is recorded for a run that
\* was cleaned up while it was going on, and tool calls belong to an execution.
NoOrphans ==
  /\ run = "none" => \A e \in ExecutionID : executions[e] = "none"
  /\ \A e \in audited : executions[e] # "none"
=============================================================================
