---------------------------- MODULE WorkflowRuns ----------------------------
(***************************************************************************)
(* The runs of one workflow template: what creates, cancels, repeats and   *)
(* deletes them, the concurrency policy that holds them back, and the one  *)
(* reconcile worker they share.  A run is a Workflow of one step; what the *)
(* passes do inside a larger run is the business of WorkflowController.    *)
(***************************************************************************)
EXTENDS Integers, FiniteSets

CONSTANTS
  Runs,          \* how many runs there may be
  Policies,      \* the policies the template may have
  Commands,      \* the purkoctl commands that repeat a run
  MaxParallel,   \* spec.concurrency.maxParallel, at least 1 once defaulted
  MaxActs        \* bound on what users do to runs once they are there

Policy == {"forbid", "replace", "allow"}
Run == 1 .. Runs
NoRun == 0

ASSUME RunsAssumption ==
  /\ Policies \subseteq Policy /\ Policies # {}
  /\ Commands \subseteq {"rerun", "trigger"}
  /\ MaxParallel \in Nat \ {0}
  /\ Runs \in Nat /\ MaxActs \in Nat

Life == {"none", "live", "deleting"}
Terminal == {"Succeeded", "Failed", "Cancelled"}   \* Succeeded stands for every end of the steps
Phase == {"", "Running"} \cup Terminal
JobState == {"none", "active", "done"}
Uid == 0 .. 2      \* a name is used at most twice; 0: not yet

\* counted: the run carries the workflow-template annotation the policy counts by;
\* stage: 0 created, 1 with the finalizer, 2 with the run-id.
Workflow == [life : Life, uid : Uid, counted : BOOLEAN, stage : 0 .. 2,
             phase : Phase, cancel : BOOLEAN]

VARIABLES
  policy,    \* spec.concurrency.policy of the template and its runs
  run,       \* the runs at the API server
  view,      \* the reconciler's cached runs
  fresh,     \* the runs whose cached copy is the latest
  jobs,      \* the Jobs at the API server, by run name and uid of their owner
  jobView,   \* the reconciler's cached Jobs
  midway,    \* the run purkoctl is half way through resetting
  redo,      \* the run the dashboard has deleted and is about to create again
  blind,     \* history: runs started from a cache that missed an active run
  ran,       \* history: runs a Job was created for since they last began
  acts       \* what users did so far

vars == <<policy, run, view, fresh, jobs, jobView, midway, redo, blind, ran, acts>>

Absent == [life |-> "none", uid |-> 0, counted |-> FALSE, stage |-> 0, phase |-> "", cancel |-> FALSE]

Init ==
  /\ policy \in Policies
  /\ run = [r \in Run |-> Absent] /\ view = run /\ fresh = Run
  /\ jobs = [r \in Run |-> [u \in 1 .. 2 |-> "none"]] /\ jobView = jobs
  /\ midway = NoRun /\ redo = NoRun
  /\ blind = {} /\ ran = {} /\ acts = 0

Act == acts < MaxActs /\ acts' = acts + 1


\* A write to a run: its cached copy falls behind, and whoever read it before
\* will be refused.
Wrote(rs) ==
  /\ fresh' = fresh \ rs
  /\ midway' = IF midway \in rs THEN NoRun ELSE midway

-----------------------------------------------------------------------------
(* What creates runs.                                                      *)

\* Names are made up from the time, so they are new: they are taken in order.
Appear(r, counted) ==
  /\ run[r].uid = 0 /\ \A s \in 1 .. r - 1 : run[s].uid # 0
  /\ run' = [run EXCEPT ![r] = [Absent EXCEPT !.life = "live", !.uid = 1, !.counted = counted]]
  /\ Wrote({r})
  /\ UNCHANGED <<policy, view, jobs, jobView, redo, blind, ran, acts>>

\* A cron entry fires, or a webhook does, and the run names its template.
triggerRun == \E r \in Run : Appear(r, TRUE)

\* purkoctl's run does not.
triggerTemplate == \E r \in Run : Appear(r, FALSE)

-----------------------------------------------------------------------------
(* What users do to a run.                                                 *)

Change(r, new) == run' = [run EXCEPT ![r] = new] /\ Wrote({r})

runWorkflowCancel(r) ==
  /\ Act /\ run[r].life = "live" /\ run[r].phase = "Running"
  /\ Change(r, [run[r] EXCEPT !.cancel = TRUE])
  /\ UNCHANGED <<policy, view, jobs, jobView, redo, blind, ran>>

\* Without its finalizer the object goes at once.
Deleted(w) == IF w.stage = 0 THEN [Absent EXCEPT !.uid = w.uid] ELSE [w EXCEPT !.life = "deleting"]

handleDeleteWorkflow(r) ==
  /\ Act /\ run[r].life = "live"
  /\ Change(r, Deleted(run[r]))
  /\ UNCHANGED <<policy, view, jobs, jobView, redo, blind, ran>>

\* purkoctl repeats a run in two writes: first its status is reset, then the
\* annotations are cleared.
ResetStatus(r) ==
  /\ Act /\ run[r].life = "live" /\ midway = NoRun
  /\ run' = [run EXCEPT ![r].phase = ""]
  /\ fresh' = fresh \ {r} /\ midway' = r /\ ran' = ran \ {r}
  /\ UNCHANGED <<policy, view, jobs, jobView, redo, blind>>

\* workflow rerun refuses a run that has not ended.
runWorkflowRerun(r) == "rerun" \in Commands /\ run[r].phase \in Terminal /\ ResetStatus(r)

\* workflow trigger does not look at the phase.
triggerRerun(r) == "trigger" \in Commands /\ ResetStatus(r)

ClearAnnotations ==
  /\ midway # NoRun
  /\ Change(midway, [run[midway] EXCEPT !.cancel = FALSE])
  /\ UNCHANGED <<policy, view, jobs, jobView, redo, blind, ran, acts>>

\* The dashboard's rerun: delete, wait two seconds, create under the same name,
\* without the annotations.
handleRerunWorkflow(r) ==
  /\ Act /\ redo = NoRun /\ run[r].life = "live" /\ run[r].uid = 1
  /\ Change(r, Deleted(run[r])) /\ redo' = r
  /\ UNCHANGED <<policy, view, jobs, jobView, blind, ran>>

\* The creation is refused while the old object is still there.
CreateAgain ==
  /\ redo # NoRun /\ redo' = NoRun
  /\ IF run[redo].life = "none"
     THEN /\ Change(redo, [Absent EXCEPT !.life = "live", !.uid = 2])
          /\ ran' = ran \ {redo} /\ blind' = blind \ {redo}
     ELSE UNCHANGED <<run, fresh, midway, ran, blind>>
  /\ UNCHANGED <<policy, view, jobs, jobView, acts>>

-----------------------------------------------------------------------------
(* The reconciler.                                                         *)

\* A write of the reconciler goes through only from the latest copy.
\* Mutant: the last writer wins.
UpdateUnversioned(r, new) == Change(r, new)

Update(r, new) ==
  IF r \in fresh THEN Change(r, new) ELSE UNCHANGED <<run, fresh, midway>>

\* The Jobs a list by workflow name shows are deleted; each deletion may be lost.
JobsWithout(rs) ==
  [s \in Run |-> [u \in 1 .. 2 |->
     IF s \in rs /\ jobView[s][u] # "none" THEN "none" ELSE jobs[s][u]]]

DeleteJobs(rs) == jobs' = JobsWithout(rs)

Idle == UNCHANGED <<policy, view, jobView, redo, acts>>

CleanUp(r) ==
  /\ view[r].life = "deleting"
  /\ DeleteJobs({r})
  /\ Update(r, [Absent EXCEPT !.uid = view[r].uid])
  /\ Idle /\ UNCHANGED <<blind, ran>>

AddFinalizer(r) ==
  /\ view[r].life = "live" /\ view[r].stage = 0
  /\ Update(r, [view[r] EXCEPT !.stage = 1])
  /\ Idle /\ UNCHANGED <<jobs, blind, ran>>

Working(r) == view[r].life = "live" /\ view[r].stage > 0 /\ view[r].phase \notin Terminal

Cancel(r) ==
  /\ Working(r) /\ view[r].cancel
  /\ DeleteJobs({r})
  /\ Update(r, [view[r] EXCEPT !.phase = "Cancelled"])
  /\ Idle /\ UNCHANGED <<blind, ran>>

\* 30 minutes, or spec.timeout, after the run began.
TimeOut(r) ==
  /\ Working(r) /\ ~view[r].cancel /\ view[r].phase = "Running"
  /\ DeleteJobs({r})
  /\ Update(r, [view[r] EXCEPT !.phase = "Failed"])
  /\ Idle /\ UNCHANGED <<blind, ran>>

\* Active runs other than r that name the same template, in what ws shows of
\* the runs; a run without the annotation counts none and is counted by none.
\* Mutant: a run that has not begun counts too.
ActiveRunsWaiting(r, ws) ==
  {s \in Run \ {r} : ws[r].counted /\ ws[s].counted /\ ws[s].life # "none" /\ ws[s].phase \notin Terminal}

ActiveRuns(r, ws) ==
  {s \in Run \ {r} : ws[r].counted /\ ws[s].counted /\ ws[s].life # "none" /\ ws[s].phase = "Running"}

\* How many runs may be active: "forbid" is "allow" with one.
Limit == CASE policy = "forbid" -> 1 [] policy = "allow" -> MaxParallel [] OTHER -> Runs

\* The policy is looked at by every pass until the phase is written.
\* Mutant: only by the pass that assigns the run-id.
HeldBackOnce(r) ==
  /\ policy # "replace" /\ view[r].phase = "" /\ view[r].stage = 1
  /\ Cardinality(ActiveRuns(r, view)) >= Limit

HeldBack(r) ==
  /\ policy # "replace" /\ view[r].phase = ""
  /\ Cardinality(ActiveRuns(r, view)) >= Limit

\* "replace" cancels them and goes on, whatever became of the writes.
Replaced(r) ==
  IF view[r].phase = "" /\ policy = "replace" THEN ActiveRuns(r, view) ELSE {}

\* A pass that is not held back writes r and the runs it replaces, each from
\* its cached copy.
Writes(r, new) ==
  LET accepted == Replaced(r) \cap fresh
      own == IF r \in fresh /\ new # view[r] THEN {r} ELSE {} IN
  /\ run' = [s \in Run |-> IF s \in own THEN new
                           ELSE IF s \in accepted THEN [view[s] EXCEPT !.phase = "Cancelled"]
                           ELSE run[s]]
  /\ Wrote(own \cup accepted)

Proceeding(r) == Working(r) /\ ~view[r].cancel /\ ~HeldBack(r)

AssignRunID(r) ==
  /\ Proceeding(r) /\ view[r].stage = 1
  /\ Writes(r, [view[r] EXCEPT !.stage = 2])
  /\ DeleteJobs(Replaced(r))
  /\ Idle /\ UNCHANGED <<blind, ran>>

\* Jobs carry the run's name, not its run-id: whichever is listed is taken for
\* the step's.
Listed(r) == {u \in 1 .. 2 : jobView[r][u] # "none"}

\* Nothing begins before the run-id is stored: the pass that assigns it ends there.
HasRunID(r) == view[r].stage = 2

\* A run that begins, or goes on, with the Job the cache lists under its name.
Adopt(r) ==
  /\ Proceeding(r) /\ HasRunID(r)
  /\ \E u \in Listed(r) :
        LET phase == IF jobView[r][u] = "done" THEN "Succeeded" ELSE "Running" IN
        /\ Writes(r, [view[r] EXCEPT !.phase = phase])
        /\ blind' = IF /\ r \in fresh /\ view[r].phase = "" /\ phase = "Running"
                       /\ ActiveRuns(r, run) \ ActiveRuns(r, view) # {}
                    THEN blind \cup {r} ELSE blind
  /\ DeleteJobs(Replaced(r))
  /\ Idle /\ ran' = ran

\* A run that begins with no Job listed: one is created, unless it is there.
Begin(r) ==
  /\ Proceeding(r) /\ HasRunID(r) /\ Listed(r) = {} /\ view[r].phase = ""
  /\ Writes(r, [view[r] EXCEPT !.phase = "Running"])
  /\ LET u == view[r].uid
         js == JobsWithout(Replaced(r)) IN
     IF js[r][u] = "none"
     THEN /\ jobs' = [js EXCEPT ![r][u] = "active"]
          /\ ran' = ran \cup {r}
     ELSE jobs' = js /\ ran' = ran
  /\ blind' = IF r \in fresh /\ ActiveRuns(r, run) \ ActiveRuns(r, view) # {}
              THEN blind \cup {r} ELSE blind
  /\ Idle

Reconcile(r) ==
  CleanUp(r) \/ AddFinalizer(r) \/ Cancel(r) \/ AssignRunID(r) \/ Adopt(r) \/ Begin(r)

-----------------------------------------------------------------------------
(* The cluster.                                                            *)

JobEnds(r, u) ==
  /\ jobs[r][u] = "active" /\ jobs' = [jobs EXCEPT ![r][u] = "done"]
  /\ UNCHANGED <<policy, run, view, fresh, jobView, midway, redo, blind, ran, acts>>

Ownerless(r, u) == run[r].life = "none" \/ run[r].uid # u

\* A Job has its run for owner, and goes when its owner has gone.
\* Mutant: it has none.
CollectedNever(r, u) == FALSE

Collected(r, u) == Ownerless(r, u)

JobGoes(r, u) ==
  /\ jobs[r][u] # "none" /\ jobs' = [jobs EXCEPT ![r][u] = "none"]
  /\ UNCHANGED <<policy, run, view, fresh, jobView, midway, redo, blind, ran, acts>>

GarbageCollect(r, u) == Collected(r, u) /\ JobGoes(r, u)

\* An hour after its end (ttlSecondsAfterFinished).
Expire(r, u) == jobs[r][u] = "done" /\ ~Ownerless(r, u) /\ JobGoes(r, u)

SyncRun(r) ==
  /\ r \notin fresh /\ fresh' = fresh \cup {r} /\ view' = [view EXCEPT ![r] = run[r]]
  /\ UNCHANGED <<policy, run, jobs, jobView, midway, redo, blind, ran, acts>>

SyncJobs ==
  /\ jobView' = jobs
  /\ UNCHANGED <<policy, run, view, fresh, jobs, midway, redo, blind, ran, acts>>

\* The operator, and the dashboard with it, restarts with full caches.
Restart ==
  /\ view' = run /\ fresh' = Run /\ jobView' = jobs /\ redo' = NoRun
  /\ UNCHANGED <<policy, run, jobs, midway, blind, ran, acts>>

Next ==
  \/ triggerRun \/ triggerTemplate \/ ClearAnnotations \/ CreateAgain \/ Restart
  \/ \E r \in Run : \/ runWorkflowCancel(r) \/ handleDeleteWorkflow(r)
                    \/ runWorkflowRerun(r) \/ triggerRerun(r) \/ handleRerunWorkflow(r)
  \/ \E r \in Run : Reconcile(r) \/ TimeOut(r) \/ SyncRun(r)
  \/ SyncJobs
  \/ \E r \in Run, u \in 1 .. 2 : JobEnds(r, u) \/ GarbageCollect(r, u) \/ Expire(r, u)

Spec == Init /\ [][Next]_vars

\* The caches catch up, a run is reconciled every few seconds while it is not
\* over and times out in the end, and the garbage collector runs.  No user, no
\* cron entry and no Job has to do anything.
Fairness ==
  /\ WF_vars(SyncJobs)
  /\ \A r \in Run : /\ WF_vars(Reconcile(r)) /\ WF_vars(TimeOut(r))
                    /\ WF_vars(SyncRun(r))
                    /\ \A u \in 1 .. 2 : WF_vars(GarbageCollect(r, u))

FairSpec == Spec /\ Fairness

-----------------------------------------------------------------------------
(* Properties                                                              *)

TypeOK ==
  /\ policy \in Policies
  /\ run \in [Run -> Workflow] /\ view \in [Run -> Workflow] /\ fresh \subseteq Run
  /\ jobs \in [Run -> [1 .. 2 -> JobState]] /\ jobView \in [Run -> [1 .. 2 -> JobState]]
  /\ midway \in Run \cup {NoRun} /\ redo \in Run \cup {NoRun}
  /\ blind \subseteq Run /\ ran \subseteq Run /\ acts \in 0 .. MaxActs
  /\ \A r \in fresh : view[r] = run[r]
  /\ \A r \in Run : run[r].phase \in {"Running", "Succeeded"} => run[r].stage = 2

Active == {r \in Run : run[r].counted /\ run[r].life # "none" /\ run[r].phase = "Running"}

\* Runs of a template are active together beyond what its policy allows only if
\* one of them began from a cache that did not show the others.
PolicyKept == Cardinality(Active) <= Limit + Cardinality(Active \cap blind)

\* A run that ended stays as it ended until it is repeated or deleted: no pass
\* of the reconciler, for this run or for one that replaces it, revives it.
EndedStaysEnded ==
  [][\A r \in Run :
       run[r].phase \in Terminal /\ run'[r].life = "live" /\ run'[r].uid = run[r].uid
         => run'[r].phase \in {run[r].phase, ""}]_vars

\* Runs that are held back do not wait for one another: once users let things
\* be, every run begins, and so ends.
Waiting == {r \in Run : run[r].life = "live" /\ run[r].phase \notin Terminal}
BlockedRunStarts == <>[](Waiting = {})

\* A run that is deleted goes, and so does each Job of a run that has gone,
\* the Jobs its last pass did not see among them.
LeftBehind == {r \in Run : \/ run[r].life = "deleting"
                           \/ \E u \in 1 .. 2 : Ownerless(r, u) /\ jobs[r][u] # "none"}
NothingLeftBehind == <>[](LeftBehind = {})

\* A run that succeeds has run since it began or was last repeated
\* (purkoctl workflow.go:81: "Re-run a completed or failed workflow").
RerunRuns == \A r \in Run : run[r].phase = "Succeeded" => r \in ran
=============================================================================
