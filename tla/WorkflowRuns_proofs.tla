------------------------- MODULE WorkflowRuns_proofs -------------------------
(***************************************************************************)
(* Theorems about the runs of one template, for every number of runs,      *)
(* every policy and every number of things users do: the policy is kept    *)
(* but for runs that began from a cache that hid another, and no pass      *)
(* revives a run that has ended.                                           *)
(***************************************************************************)
EXTENDS WorkflowRuns, FiniteSetTheorems, TLAPS

-----------------------------------------------------------------------------
(* Type correctness.                                                       *)

\* A run may be Running or Succeeded only once its run-id is stored.
Sound(w) == w \in Workflow /\ (w.phase \in {"Running", "Succeeded"} => w.stage = 2)

RunsTyped ==
  /\ run \in [Run -> Workflow] /\ \A r \in Run : Sound(run[r])
  /\ view \in [Run -> Workflow] /\ fresh \subseteq Run
  /\ midway \in Run \cup {NoRun}
  /\ \A r \in fresh : view[r] = run[r]

JobsTyped ==
  /\ jobs \in [Run -> [1 .. 2 -> JobState]] /\ jobView \in [Run -> [1 .. 2 -> JobState]]

OthersTyped ==
  /\ policy \in Policies /\ redo \in Run \cup {NoRun}
  /\ blind \subseteq Run /\ ran \subseteq Run /\ acts \in 0 .. MaxActs

LEMMA Typed ==
  /\ TypeOK <=> RunsTyped /\ JobsTyped /\ OthersTyped
  /\ TypeOK' <=> RunsTyped' /\ JobsTyped' /\ OthersTyped'
  BY DEF TypeOK, RunsTyped, JobsTyped, OthersTyped, Sound

\* An object that is not there, and one that has just been created.
LEMMA AbsentSound ==
  ASSUME NEW u \in Uid, NEW c \in BOOLEAN
  PROVE  /\ Sound([Absent EXCEPT !.uid = u])
         /\ Sound([Absent EXCEPT !.life = "live", !.uid = u])
         /\ Sound([Absent EXCEPT !.life = "live", !.uid = u, !.counted = c])
<1>1. Absent \in Workflow /\ Absent.phase = ""
  BY DEF Absent, Workflow, Life, Uid, Phase
<1>2. "live" \in Life
  BY DEF Life
<1> QED
  BY <1>1, <1>2 DEF Sound, Workflow

LEMMA DeletedSound ==
  ASSUME NEW w, Sound(w)
  PROVE  Sound(Deleted(w))
<1>1. w.uid \in Uid
  BY DEF Sound, Workflow
<1> QED
  BY <1>1, AbsentSound DEF Deleted, Sound, Workflow, Life

\* The updates of the reconciler and of users.
LEMMA UpdatesSound ==
  ASSUME NEW w, Sound(w)
  PROVE  /\ \A c \in BOOLEAN : Sound([w EXCEPT !.cancel = c])
         /\ \A p \in {"", "Failed", "Cancelled"} : Sound([w EXCEPT !.phase = p])
         /\ w.stage = 2 => \A p \in Phase : Sound([w EXCEPT !.phase = p])
         /\ w.stage = 0 => Sound([w EXCEPT !.stage = 1])
         /\ Sound([w EXCEPT !.stage = 2])
<1>1. {"", "Failed", "Cancelled"} \subseteq Phase
  BY DEF Phase, Terminal
<1>2. \A c \in BOOLEAN : Sound([w EXCEPT !.cancel = c])
  BY DEF Sound, Workflow
<1>3. \A p \in Phase : p \notin {"Running", "Succeeded"} \/ w.stage = 2 => Sound([w EXCEPT !.phase = p])
  BY DEF Sound, Workflow
<1>4. /\ w.stage = 0 => Sound([w EXCEPT !.stage = 1])
      /\ Sound([w EXCEPT !.stage = 2])
  BY DEF Sound, Workflow
<1> QED
  BY <1>1, <1>2, <1>3, <1>4

\* A write of a sound run keeps the types, and takes the run from the fresh ones.
LEMMA ChangeTyped ==
  ASSUME RunsTyped, NEW r \in Run, NEW new, Sound(new), Change(r, new), view' = view
  PROVE  RunsTyped'
  BY DEF RunsTyped, Change, Wrote, Sound

LEMMA UpdateTyped ==
  ASSUME RunsTyped, NEW r \in Run, NEW new, Sound(view[r]) => Sound(new),
         Update(r, new), view' = view
  PROVE  RunsTyped'
<1>1. CASE r \in fresh
  BY <1>1, ChangeTyped DEF Update, RunsTyped
<1>2. CASE r \notin fresh
  BY <1>2 DEF Update, RunsTyped
<1> QED
  BY <1>1, <1>2

\* So does a pass that is not held back.
LEMMA WritesTyped ==
  ASSUME RunsTyped, NEW r \in Run, NEW new, Sound(view[r]) => Sound(new),
         Writes(r, new), view' = view
  PROVE  RunsTyped'
<1> DEFINE accepted == Replaced(r) \cap fresh
           own == IF r \in fresh /\ new # view[r] THEN {r} ELSE {}
<1>1. /\ run' = [s \in Run |-> IF s \in own THEN new
                               ELSE IF s \in accepted THEN [view[s] EXCEPT !.phase = "Cancelled"]
                               ELSE run[s]]
      /\ fresh' = fresh \ (own \cup accepted)
      /\ midway' \in {midway, NoRun}
  BY DEF Writes, Wrote
<1>2. ASSUME NEW s \in Run PROVE Sound(run'[s])
  <2>1. CASE s \in own
    BY <1>1, <2>1 DEF RunsTyped
  <2>2. CASE s \notin own /\ s \in accepted
    BY <1>1, <2>2, UpdatesSound DEF RunsTyped
  <2>3. CASE s \notin own /\ s \notin accepted
    BY <1>1, <2>3 DEF RunsTyped
  <2> QED
    BY <2>1, <2>2, <2>3
<1>3. \A s \in fresh' : view[s] = run'[s]
  BY <1>1 DEF RunsTyped
<1>4. run' \in [Run -> Workflow]
  BY <1>1, <1>2 DEF Sound
<1> HIDE DEF accepted, own
<1> QED
  BY <1>1, <1>2, <1>3, <1>4 DEF RunsTyped

\* Deleting Jobs leaves Jobs.
LEMMA JobsWithoutType ==
  ASSUME JobsTyped, NEW rs
  PROVE  JobsWithout(rs) \in [Run -> [1 .. 2 -> JobState]]
  BY DEF JobsWithout, JobsTyped, JobState

\* What users do to runs keeps the types.
LEMMA UsersTyped ==
  ASSUME TypeOK, NEW r \in Run
  PROVE  /\ \A counted \in BOOLEAN : Appear(r, counted) => TypeOK'
         /\ runWorkflowCancel(r) => TypeOK'
         /\ handleDeleteWorkflow(r) => TypeOK'
         /\ ResetStatus(r) => TypeOK'
         /\ handleRerunWorkflow(r) => TypeOK'
<1> USE DEF Change
<1>0. RunsTyped /\ JobsTyped /\ OthersTyped /\ Sound(run[r]) /\ {0, 1, 2} \subseteq Uid
  BY Typed DEF RunsTyped, Uid
<1>1. ASSUME NEW counted \in BOOLEAN, Appear(r, counted) PROVE TypeOK'
  <2>1. RunsTyped'
    BY <1>0, <1>1, AbsentSound, ChangeTyped DEF Appear
  <2> QED
    BY <1>0, <1>1, <2>1, Typed DEF Appear, JobsTyped, OthersTyped
<1>2. ASSUME runWorkflowCancel(r) PROVE TypeOK'
  <2>1. RunsTyped'
    BY <1>0, <1>2, UpdatesSound, ChangeTyped DEF runWorkflowCancel
  <2> QED
    BY <1>0, <1>2, <2>1, Typed, RunsAssumption DEF runWorkflowCancel, JobsTyped, OthersTyped, Act
<1>3. ASSUME handleDeleteWorkflow(r) PROVE TypeOK'
  <2>1. RunsTyped'
    BY <1>0, <1>3, DeletedSound, ChangeTyped DEF handleDeleteWorkflow
  <2> QED
    BY <1>0, <1>3, <2>1, Typed, RunsAssumption DEF handleDeleteWorkflow, JobsTyped, OthersTyped, Act
<1>4. ASSUME ResetStatus(r) PROVE TypeOK'
  <2>1. Sound([run[r] EXCEPT !.phase = ""])
    BY <1>0, UpdatesSound
  <2>2. RunsTyped'
    BY <1>0, <1>4, <2>1 DEF ResetStatus, RunsTyped, Sound
  <2>3. Act /\ ran' = ran \ {r} /\ UNCHANGED <<policy, jobs, jobView, redo, blind>>
    BY <1>4, Zenon DEF ResetStatus
  <2>4. JobsTyped' /\ OthersTyped'
    BY <1>0, <2>3, RunsAssumption DEF JobsTyped, OthersTyped, Act
  <2> QED
    BY <2>2, <2>4, Typed
<1>5. ASSUME handleRerunWorkflow(r) PROVE TypeOK'
  <2>1. RunsTyped'
    BY <1>0, <1>5, DeletedSound, ChangeTyped DEF handleRerunWorkflow
  <2> QED
    BY <1>0, <1>5, <2>1, Typed, RunsAssumption DEF handleRerunWorkflow, JobsTyped, OthersTyped, Act
<1> QED
  BY <1>1, <1>2, <1>3, <1>4, <1>5

\* The second halves of the two reruns do, too.
LEMMA RerunsTyped ==
  ASSUME TypeOK, ClearAnnotations \/ CreateAgain
  PROVE  TypeOK'
<1> USE DEF Change
<1>0. RunsTyped /\ JobsTyped /\ OthersTyped /\ {0, 1, 2} \subseteq Uid
  BY Typed DEF Uid
<1>1. CASE ClearAnnotations
  <2>1. midway \in Run /\ Sound(run[midway])
    BY <1>0, <1>1 DEF ClearAnnotations, RunsTyped
  <2>2. RunsTyped'
    BY <1>0, <1>1, <2>1, UpdatesSound, ChangeTyped DEF ClearAnnotations
  <2> QED
    BY <1>0, <1>1, <2>2, Typed DEF ClearAnnotations, JobsTyped, OthersTyped
<1>2. CASE CreateAgain
  <2>1. redo \in Run
    BY <1>0, <1>2 DEF CreateAgain, OthersTyped
  <2>2. RunsTyped'
    <3>1. CASE run[redo].life = "none"
      BY <1>0, <1>2, <2>1, <3>1, AbsentSound, ChangeTyped DEF CreateAgain
    <3>2. CASE run[redo].life # "none"
      BY <1>0, <1>2, <3>2 DEF CreateAgain, RunsTyped
    <3> QED
      BY <3>1, <3>2
  <2> QED
    BY <1>0, <1>2, <2>2, Typed DEF CreateAgain, JobsTyped, OthersTyped, NoRun
<1> QED
  BY <1>1, <1>2

\* So does a pass, from whatever the caches show.
LEMMA ReconcileTyped ==
  ASSUME TypeOK, NEW r \in Run, Reconcile(r) \/ TimeOut(r)
  PROVE  TypeOK'
<1>0. RunsTyped /\ JobsTyped /\ OthersTyped /\ view[r] \in Workflow
  BY Typed DEF RunsTyped
<1>1. CASE CleanUp(r)
  <2>1. Sound([Absent EXCEPT !.uid = view[r].uid])
    BY <1>0, AbsentSound DEF Workflow
  <2>2. RunsTyped'
    BY <1>0, <1>1, <2>1, UpdateTyped DEF CleanUp, Idle
  <2> QED
    BY <1>0, <1>1, <2>2, Typed, JobsWithoutType DEF CleanUp, Idle, DeleteJobs, JobsTyped, OthersTyped
<1>2. CASE AddFinalizer(r)
  <2>1. RunsTyped'
    BY <1>0, <1>2, UpdatesSound, UpdateTyped DEF AddFinalizer, Idle
  <2> QED
    BY <1>0, <1>2, <2>1, Typed DEF AddFinalizer, Idle, JobsTyped, OthersTyped
<1>3. CASE Cancel(r)
  <2>1. RunsTyped'
    BY <1>0, <1>3, UpdatesSound, UpdateTyped DEF Cancel, Idle
  <2> QED
    BY <1>0, <1>3, <2>1, Typed, JobsWithoutType DEF Cancel, Idle, DeleteJobs, JobsTyped, OthersTyped
<1>4. CASE TimeOut(r)
  <2>1. RunsTyped'
    BY <1>0, <1>4, UpdatesSound, UpdateTyped DEF TimeOut, Idle
  <2> QED
    BY <1>0, <1>4, <2>1, Typed, JobsWithoutType DEF TimeOut, Idle, DeleteJobs, JobsTyped, OthersTyped
<1>5. CASE AssignRunID(r)
  <2>1. RunsTyped'
    BY <1>0, <1>5, UpdatesSound, WritesTyped DEF AssignRunID, Idle
  <2> QED
    BY <1>0, <1>5, <2>1, Typed, JobsWithoutType DEF AssignRunID, Idle, DeleteJobs, JobsTyped, OthersTyped
<1>6. CASE Adopt(r)
  <2>1. PICK phase \in {"Succeeded", "Running"} : Writes(r, [view[r] EXCEPT !.phase = phase])
    BY <1>6 DEF Adopt
  <2>2. view[r].stage = 2 /\ view' = view /\ blind' \subseteq blind \cup {r}
    BY <1>6 DEF Adopt, HasRunID, Idle
  <2>3. phase \in Phase
    BY DEF Phase, Terminal
  <2>4. RunsTyped'
    BY <1>0, <2>1, <2>2, <2>3, UpdatesSound, WritesTyped
  <2> QED
    BY <1>0, <1>6, <2>2, <2>4, Typed, JobsWithoutType DEF Adopt, Idle, DeleteJobs, JobsTyped, OthersTyped
<1>7. CASE Begin(r)
  <2>1. Writes(r, [view[r] EXCEPT !.phase = "Running"]) /\ view[r].stage = 2 /\ view' = view
    BY <1>7 DEF Begin, HasRunID, Idle
  <2>2. "Running" \in Phase
    BY DEF Phase
  <2>3. RunsTyped'
    BY <1>0, <2>1, <2>2, UpdatesSound, WritesTyped
  <2>4. JobsTyped'
    <3> DEFINE js == JobsWithout(Replaced(r))
    <3>1. js \in [Run -> [1 .. 2 -> JobState]]
      BY <1>0, JobsWithoutType
    <3>2. \/ jobs' = js
          \/ jobs' = [js EXCEPT ![r][view[r].uid] = "active"]
      BY <1>7 DEF Begin
    <3>3. "active" \in JobState /\ jobView' = jobView
      BY <1>7 DEF JobState, Begin, Idle
    <3> HIDE DEF js
    <3> DEFINE ran1 == [js[r] EXCEPT ![view[r].uid] = "active"]
    <3>4. ran1 \in [1 .. 2 -> JobState]
      BY <3>1, <3>3
    <3>5. [js EXCEPT ![r][view[r].uid] = "active"] = [js EXCEPT ![r] = ran1]
      BY Zenon
    <3> HIDE DEF ran1
    <3>6. jobs' \in [Run -> [1 .. 2 -> JobState]]
      BY <3>1, <3>2, <3>4, <3>5
    <3> QED
      BY <1>0, <3>3, <3>6 DEF JobsTyped
  <2>5. OthersTyped'
    BY <1>0, <1>7 DEF Begin, Idle, OthersTyped
  <2> QED
    BY <2>3, <2>4, <2>5, Typed
<1> QED
  BY <1>1, <1>2, <1>3, <1>4, <1>5, <1>6, <1>7 DEF Reconcile

\* And so do the cluster and the caches.
LEMMA ClusterTyped ==
  ASSUME TypeOK
  PROVE  /\ \A r \in Run, u \in 1 .. 2 : JobEnds(r, u) \/ GarbageCollect(r, u) \/ Expire(r, u) => TypeOK'
         /\ \A r \in Run : SyncRun(r) => TypeOK'
         /\ SyncJobs => TypeOK'
         /\ Restart => TypeOK'
         /\ UNCHANGED vars => TypeOK'
<1> USE Typed
<1>1. ASSUME NEW r \in Run, NEW u \in 1 .. 2, JobEnds(r, u) \/ GarbageCollect(r, u) \/ Expire(r, u)
      PROVE  TypeOK'
  <2>1. \E j \in {"none", "done"} : jobs' = [jobs EXCEPT ![r][u] = j]
    BY <1>1 DEF JobEnds, GarbageCollect, Expire, JobGoes
  <2>2. JobsTyped'
    BY <1>1, <2>1 DEF JobsTyped, JobState, JobEnds, GarbageCollect, Expire, JobGoes
  <2>3. RunsTyped' /\ OthersTyped'
    BY <1>1 DEF RunsTyped, OthersTyped, JobEnds, GarbageCollect, Expire, JobGoes
  <2> QED
    BY <2>2, <2>3
<1>2. ASSUME NEW r \in Run, SyncRun(r) PROVE TypeOK'
  BY <1>2 DEF SyncRun, RunsTyped, JobsTyped, OthersTyped
<1>3. ASSUME SyncJobs PROVE TypeOK'
  BY <1>3 DEF SyncJobs, RunsTyped, JobsTyped, OthersTyped
<1>4. ASSUME Restart PROVE TypeOK'
  BY <1>4 DEF Restart, RunsTyped, JobsTyped, OthersTyped
<1>5. ASSUME UNCHANGED vars PROVE TypeOK'
  BY <1>5 DEF vars, RunsTyped, JobsTyped, OthersTyped
<1> QED
  BY <1>1, <1>2, <1>3, <1>4, <1>5

\* Users, the reconciler, the cluster and a restart keep every variable in its
\* type: a fresh cached copy is the latest, and no run is active or has
\* succeeded before its run-id was stored.
THEOREM RunsTypeCorrect == Spec => []TypeOK
<1>1. Init => TypeOK
  <2> SUFFICES ASSUME Init PROVE TypeOK
    OBVIOUS
  <2>1. Sound(Absent)
    BY DEF Sound, Absent, Workflow, Life, Uid, Phase
  <2>2. RunsTyped
    BY <2>1 DEF Init, RunsTyped, Sound
  <2>3. JobsTyped /\ OthersTyped
    BY RunsAssumption DEF Init, JobsTyped, OthersTyped, JobState
  <2> QED
    BY <2>2, <2>3, Typed
<1>2. TypeOK /\ [Next]_vars => TypeOK'
  BY UsersTyped, RerunsTyped, ReconcileTyped, ClusterTyped
     DEF Next, triggerRun, triggerTemplate, runWorkflowRerun, triggerRerun
<1> QED
  BY <1>1, <1>2, PTL DEF Spec

-----------------------------------------------------------------------------
(* What a step may do to each run.                                         *)

SameRun(w, new) ==
  /\ new.uid = w.uid /\ new.counted = w.counted
  /\ new.life # "none" => w.life # "none"

\* It goes, it is new or repeated, it is left in its phase, or it ends.
Moves(w, new) ==
  \/ new.life = "none"
  \/ new.phase = ""
  \/ SameRun(w, new) /\ new.phase = w.phase
  \/ SameRun(w, new) /\ w.phase \notin Terminal /\ new.phase \in Terminal

\* Or it begins: only the pass of this run does that, from the latest copy.
Begins(r) ==
  /\ Proceeding(r) /\ view[r].phase = ""
  /\ r \in fresh /\ blind' = IF ActiveRuns(r, run) \ ActiveRuns(r, view) # {} THEN blind \cup {r} ELSE blind
  /\ SameRun(run[r], run'[r]) /\ run'[r].phase = "Running"

Others(r) == \A s \in Run \ {r} : Moves(run[s], run'[s])

\* Staying is a move.
LEMMA StayMoves == ASSUME NEW w PROVE Moves(w, w)
  BY DEF Moves, SameRun

\* A change of one run is a move if it is one of that run.
LEMMA ChangeMoves ==
  ASSUME TypeOK, NEW r \in Run, NEW new, Change(r, new), Moves(run[r], new)
  PROVE  \A s \in Run : Moves(run[s], run'[s])
<1>1. run' = [run EXCEPT ![r] = new] /\ run \in [Run -> Workflow]
  BY DEF Change, TypeOK
<1> QED
  BY <1>1, StayMoves

LEMMA UpdateMoves ==
  ASSUME TypeOK, NEW r \in Run, NEW new, Update(r, new),
         view[r] = run[r] => Moves(view[r], new)
  PROVE  \A s \in Run : Moves(run[s], run'[s])
<1>1. CASE r \in fresh
  BY <1>1, ChangeMoves DEF Update, TypeOK
<1>2. CASE r \notin fresh
  BY <1>2, StayMoves DEF Update
<1> QED
  BY <1>1, <1>2

\* A pass that is not held back ends the runs it replaces, and touches no other.
LEMMA WritesMove ==
  ASSUME TypeOK, NEW r \in Run, NEW new, Writes(r, new)
  PROVE  /\ Others(r)
         /\ run'[r] = run[r] \/ (r \in fresh /\ run'[r] = new)
<1> DEFINE accepted == Replaced(r) \cap fresh
           own == IF r \in fresh /\ new # view[r] THEN {r} ELSE {}
<1>1. run' = [s \in Run |-> IF s \in own THEN new
                            ELSE IF s \in accepted THEN [view[s] EXCEPT !.phase = "Cancelled"]
                            ELSE run[s]]
  BY DEF Writes
<1>2. r \notin accepted
  BY DEF Replaced, ActiveRuns
<1>3. ASSUME NEW s \in accepted
      PROVE  Moves(run[s], [view[s] EXCEPT !.phase = "Cancelled"])
  <2>1. view[s].phase = "Running" /\ view[s] = run[s] /\ run[s] \in Workflow
    BY DEF Replaced, ActiveRuns, TypeOK
  <2> QED
    BY <2>1 DEF Moves, SameRun, Terminal, Workflow
<1> HIDE DEF accepted
<1>4. ASSUME NEW s \in Run \ {r} PROVE Moves(run[s], run'[s])
  BY <1>1, <1>3, <1>4, StayMoves
<1> QED
  BY <1>1, <1>2, <1>4 DEF Others

\* Users and the dashboard move runs.
LEMMA UsersMove ==
  ASSUME TypeOK, NEW r \in Run
  PROVE  /\ \/ \E counted \in BOOLEAN : Appear(r, counted)
            \/ runWorkflowCancel(r) \/ handleDeleteWorkflow(r) \/ ResetStatus(r)
            \/ handleRerunWorkflow(r)
         => \A s \in Run : Moves(run[s], run'[s])
<1> USE DEF Change
<1>0. run \in [Run -> Workflow]
  BY DEF TypeOK
<1>1. ASSUME NEW counted \in BOOLEAN, Appear(r, counted) PROVE \A s \in Run : Moves(run[s], run'[s])
  <2>1. Moves(run[r], [Absent EXCEPT !.life = "live", !.uid = 1, !.counted = counted])
    BY <1>1 DEF Appear, Moves, Absent
  <2> QED
    BY <1>1, <2>1, ChangeMoves DEF Appear
<1>2. ASSUME runWorkflowCancel(r) PROVE \A s \in Run : Moves(run[s], run'[s])
  <2>1. Moves(run[r], [run[r] EXCEPT !.cancel = TRUE])
    BY <1>0 DEF Moves, SameRun, Workflow
  <2> QED
    BY <1>2, <2>1, ChangeMoves DEF runWorkflowCancel
<1>3. ASSUME NEW w \in Workflow, w.life = "live" PROVE Moves(w, Deleted(w))
  BY <1>3 DEF Deleted, Moves, SameRun, Absent, Workflow
<1>4. ASSUME handleDeleteWorkflow(r) PROVE \A s \in Run : Moves(run[s], run'[s])
  BY <1>0, <1>3, <1>4, ChangeMoves DEF handleDeleteWorkflow
<1>5. ASSUME handleRerunWorkflow(r) PROVE \A s \in Run : Moves(run[s], run'[s])
  BY <1>0, <1>3, <1>5, ChangeMoves DEF handleRerunWorkflow
<1>6. ASSUME ResetStatus(r) PROVE \A s \in Run : Moves(run[s], run'[s])
  <2>1. run' = [run EXCEPT ![r] = [run[r] EXCEPT !.phase = ""]]
    BY <1>6, Zenon DEF ResetStatus
  <2>2. Moves(run[r], [run[r] EXCEPT !.phase = ""])
    BY <1>0 DEF Moves, SameRun, Workflow
  <2> QED
    BY <1>0, <2>1, <2>2, StayMoves
<1> QED
  BY <1>1, <1>2, <1>4, <1>5, <1>6

LEMMA RerunsMove ==
  ASSUME TypeOK, ClearAnnotations \/ CreateAgain
  PROVE  \A s \in Run : Moves(run[s], run'[s])
<1> USE DEF Change
<1>0. run \in [Run -> Workflow]
  BY DEF TypeOK
<1>1. CASE ClearAnnotations
  <2>1. midway \in Run
    BY <1>1 DEF ClearAnnotations, TypeOK
  <2>2. Moves(run[midway], [run[midway] EXCEPT !.cancel = FALSE])
    BY <1>0, <2>1 DEF Moves, SameRun, Workflow
  <2> QED
    BY <1>1, <2>1, <2>2, ChangeMoves DEF ClearAnnotations
<1>2. CASE CreateAgain /\ run[redo].life = "none"
  <2>1. redo \in Run
    BY <1>2 DEF CreateAgain, TypeOK
  <2>2. Moves(run[redo], [Absent EXCEPT !.life = "live", !.uid = 2])
    BY <1>0, <1>2, <2>1 DEF Moves, SameRun, Absent, Workflow
  <2> QED
    BY <1>2, <2>1, <2>2, ChangeMoves DEF CreateAgain
<1>3. CASE CreateAgain /\ run[redo].life # "none"
  BY <1>3, StayMoves DEF CreateAgain
<1> QED
  BY <1>1, <1>2, <1>3

\* A pass moves every run but its own, and its own unless that begins.
LEMMA PassMoves ==
  ASSUME TypeOK, NEW r \in Run, Reconcile(r) \/ TimeOut(r)
  PROVE  Others(r) /\ (Moves(run[r], run'[r]) \/ Begins(r))
<1>0. run[r] \in Workflow /\ view[r] \in Workflow /\ (r \in fresh => view[r] = run[r])
  BY DEF TypeOK
<1>1. ASSUME NEW new, Update(r, new), Moves(view[r], new)
      PROVE  Others(r) /\ Moves(run[r], run'[r])
  BY <1>1, UpdateMoves DEF Others
<1>2. CASE CleanUp(r)
  <2>1. Moves(view[r], [Absent EXCEPT !.uid = view[r].uid])
    BY DEF Moves, Absent
  <2> QED
    BY <1>1, <1>2, <2>1 DEF CleanUp
<1>3. CASE AddFinalizer(r)
  <2>1. Moves(view[r], [view[r] EXCEPT !.stage = 1])
    BY <1>0 DEF Moves, SameRun, Workflow
  <2> QED
    BY <1>1, <1>3, <2>1 DEF AddFinalizer
<1>4. CASE Cancel(r) \/ TimeOut(r)
  <2>1. \A p \in {"Failed", "Cancelled"} :
          Working(r) => Moves(view[r], [view[r] EXCEPT !.phase = p])
    BY <1>0 DEF Moves, SameRun, Workflow, Working, Terminal
  <2> QED
    BY <1>1, <1>4, <2>1 DEF Cancel, TimeOut
<1>5. CASE AssignRunID(r)
  <2>1. Moves(view[r], [view[r] EXCEPT !.stage = 2])
    BY <1>0 DEF Moves, SameRun, Workflow
  <2> QED
    BY <1>0, <1>5, <2>1, WritesMove, StayMoves DEF AssignRunID
<1>6. CASE Adopt(r)
  <2>1. PICK u \in Listed(r) :
          LET phase == IF jobView[r][u] = "done" THEN "Succeeded" ELSE "Running" IN
          /\ Writes(r, [view[r] EXCEPT !.phase = phase])
          /\ blind' = IF /\ r \in fresh /\ view[r].phase = "" /\ phase = "Running"
                         /\ ActiveRuns(r, run) \ ActiveRuns(r, view) # {}
                      THEN blind \cup {r} ELSE blind
    BY <1>6 DEF Adopt
  <2> DEFINE phase == IF jobView[r][u] = "done" THEN "Succeeded" ELSE "Running"
  <2>2. Others(r) /\ (run'[r] = run[r] \/ (r \in fresh /\ run'[r] = [view[r] EXCEPT !.phase = phase]))
    BY <2>1, WritesMove
  <2>3. phase \in {"Succeeded", "Running"} /\ view[r].phase \in {"", "Running"} /\ Proceeding(r)
    BY <1>0, <1>6 DEF Adopt, Proceeding, Working, Terminal, Workflow, Phase
  <2>4. SameRun(view[r], [view[r] EXCEPT !.phase = phase]) /\ [view[r] EXCEPT !.phase = phase].phase = phase
    BY <1>0 DEF SameRun, Workflow
  <2> HIDE DEF phase
  <2>5. CASE run'[r] = run[r]
    BY <2>2, <2>5, StayMoves
  <2>6. CASE r \in fresh /\ run'[r] = [view[r] EXCEPT !.phase = phase] /\ phase = "Succeeded"
    BY <1>0, <2>2, <2>3, <2>4, <2>6 DEF Moves, Terminal
  <2>7. CASE r \in fresh /\ run'[r] = [view[r] EXCEPT !.phase = phase] /\ phase = "Running" /\ view[r].phase = "Running"
    BY <1>0, <2>2, <2>4, <2>7 DEF Moves
  <2>8. CASE r \in fresh /\ run'[r] = [view[r] EXCEPT !.phase = phase] /\ phase = "Running" /\ view[r].phase = ""
    <3>1. blind' = IF ActiveRuns(r, run) \ ActiveRuns(r, view) # {} THEN blind \cup {r} ELSE blind
      BY <2>1, <2>8 DEF phase
    <3> QED
      BY <1>0, <2>2, <2>3, <2>4, <2>8, <3>1 DEF Begins
  <2> QED
    BY <2>2, <2>3, <2>5, <2>6, <2>7, <2>8
<1>7. CASE Begin(r)
  <2>1. /\ Others(r)
        /\ run'[r] = run[r] \/ (r \in fresh /\ run'[r] = [view[r] EXCEPT !.phase = "Running"])
    BY <1>7, WritesMove DEF Begin
  <2>2. SameRun(view[r], [view[r] EXCEPT !.phase = "Running"]) /\ [view[r] EXCEPT !.phase = "Running"].phase = "Running"
    BY <1>0 DEF SameRun, Workflow
  <2>3. CASE run'[r] = run[r]
    BY <2>1, <2>3, StayMoves
  <2>4. CASE r \in fresh /\ run'[r] = [view[r] EXCEPT !.phase = "Running"]
    BY <1>0, <1>7, <2>1, <2>2, <2>4 DEF Begin, Begins
  <2> QED
    BY <2>1, <2>3, <2>4
<1> QED
  BY <1>2, <1>3, <1>4, <1>5, <1>6, <1>7 DEF Reconcile

\* In every step all runs move, or one begins and the others move; a run is taken
\* for sighted again only when a new one has its name.
LEMMA StepMoves ==
  ASSUME TypeOK, [Next]_vars
  PROVE  /\ \/ \A s \in Run : Moves(run[s], run'[s])
            \/ \E r \in Run : Begins(r) /\ Others(r)
         /\ \A s \in blind : s \in blind' \/ run'[s].phase = ""
         /\ policy' = policy
<1>1. ASSUME NEW r \in Run, Reconcile(r) \/ TimeOut(r)
      PROVE  /\ \/ \A s \in Run : Moves(run[s], run'[s])
                \/ \E x \in Run : Begins(x) /\ Others(x)
             /\ blind \subseteq blind' /\ policy' = policy
  <2>1. blind \subseteq blind' /\ policy' = policy
    BY <1>1 DEF Reconcile, CleanUp, AddFinalizer, Cancel, AssignRunID, Adopt, Begin, TimeOut, Idle
  <2> QED
    BY <1>1, <2>1, PassMoves DEF Others
<1>2. ASSUME NEW r \in Run, \/ \E counted \in BOOLEAN : Appear(r, counted)
                            \/ runWorkflowCancel(r) \/ handleDeleteWorkflow(r) \/ ResetStatus(r)
                            \/ handleRerunWorkflow(r)
      PROVE  (\A s \in Run : Moves(run[s], run'[s])) /\ blind' = blind /\ policy' = policy
  <2>1. blind' = blind /\ policy' = policy
    BY <1>2, Zenon DEF Appear, runWorkflowCancel, handleDeleteWorkflow, ResetStatus, handleRerunWorkflow
  <2> QED
    BY <1>2, <2>1, UsersMove
<1>3. CASE ClearAnnotations \/ CreateAgain
  <2>1. \A s \in Run : Moves(run[s], run'[s])
    BY <1>3, RerunsMove
  <2>2. \A s \in blind : s \in blind' \/ run'[s].phase = ""
    <3>1. CASE ClearAnnotations
      BY <3>1 DEF ClearAnnotations
    <3>2. CASE CreateAgain /\ blind' # blind
      <4>1. /\ redo \in Run /\ blind' = blind \ {redo}
            /\ run' = [run EXCEPT ![redo] = [Absent EXCEPT !.life = "live", !.uid = 2]]
        BY <3>2 DEF CreateAgain, Change, TypeOK
      <4>2. [Absent EXCEPT !.life = "live", !.uid = 2].phase = ""
        BY DEF Absent
      <4> QED
        BY <4>1, <4>2 DEF TypeOK
    <3> QED
      BY <1>3, <3>1, <3>2
  <2>3. policy' = policy
    BY <1>3 DEF ClearAnnotations, CreateAgain
  <2> QED
    BY <2>1, <2>2, <2>3
<1>4. CASE UNCHANGED <<run, blind, policy>>
  BY <1>4, StayMoves
<1>5. CASE SyncJobs \/ Restart \/ (\E r \in Run : SyncRun(r)) \/ UNCHANGED vars
           \/ \E r \in Run, u \in 1 .. 2 : JobEnds(r, u) \/ GarbageCollect(r, u) \/ Expire(r, u)
  BY <1>4, <1>5 DEF SyncJobs, Restart, SyncRun, vars, JobEnds, GarbageCollect, Expire, JobGoes
<1> QED
  BY <1>1, <1>2, <1>3, <1>5
     DEF Next, triggerRun, triggerTemplate, runWorkflowRerun, triggerRerun

\* A run that ended stays as it ended until it is repeated or deleted: a pass
\* writes only from the latest copy, and that one has not ended.
THEOREM EndedStays == Spec => EndedStaysEnded
<1>1. TypeOK /\ [Next]_vars =>
        [\A r \in Run :
           run[r].phase \in Terminal /\ run'[r].life = "live" /\ run'[r].uid = run[r].uid
             => run'[r].phase \in {run[r].phase, ""}]_vars
  <2> SUFFICES ASSUME TypeOK, [Next]_vars, NEW r \in Run, run[r].phase \in Terminal,
                      run'[r].life = "live"
               PROVE  run'[r].phase \in {run[r].phase, ""}
    OBVIOUS
  <2>1. Moves(run[r], run'[r]) \/ Begins(r)
    BY StepMoves DEF Others
  <2>2. ~Begins(r)
    BY DEF Begins, Terminal, TypeOK
  <2> QED
    BY <2>1, <2>2 DEF Moves
<1> QED
  BY <1>1, RunsTypeCorrect, PTL DEF Spec, EndedStaysEnded

-----------------------------------------------------------------------------
(* The concurrency policy.                                                 *)

\* The active runs that began in sight of the others.
Sighted == Active \ blind

LEMMA RunsFinite ==
  ASSUME NEW S, S \subseteq Run
  PROVE  IsFiniteSet(S) /\ Cardinality(S) \in Nat /\ Cardinality(S) <= Runs
<1>1. IsFiniteSet(Run) /\ Cardinality(Run) = Runs
  BY FS_Interval, RunsAssumption DEF Run
<1> QED
  BY <1>1, FS_Subset, FS_CardinalityType

\* The policy is kept when those in sight of one another are within the limit.
LEMMA SightedEnough ==
  ASSUME TypeOK
  PROVE  PolicyKept <=> Cardinality(Sighted) <= Limit
<1>1. Active \subseteq Run
  BY DEF Active
<1>2. /\ IsFiniteSet(Active) /\ Cardinality(Active) \in Nat
      /\ Cardinality(Active \cap blind) \in Nat
  BY <1>1, RunsFinite
<1>3. Cardinality(Sighted) = Cardinality(Active) - Cardinality(Active \cap blind)
  BY <1>2, FS_Difference DEF Sighted
<1>4. Limit \in Nat
  BY RunsAssumption DEF Limit
<1> QED
  BY <1>2, <1>3, <1>4 DEF PolicyKept

\* A run that moves is active only if it was.
LEMMA MovesActive ==
  ASSUME TypeOK, NEW s \in Run, Moves(run[s], run'[s])
  PROVE  s \in Active' => s \in Active
  BY DEF Moves, SameRun, Active, Terminal

\* A run that begins in sight of the others finds room among them.
LEMMA BeginsInSight ==
  ASSUME TypeOK, policy # "replace", NEW r \in Run, Begins(r), r \in Active', r \notin blind'
  PROVE  Cardinality(Active) < Limit
<1>1. run[r] = view[r] /\ run[r].counted /\ run[r].phase = ""
  BY DEF Begins, TypeOK, SameRun, Active
<1>2. Active = ActiveRuns(r, run)
  BY <1>1 DEF Active, ActiveRuns
<1>3. Active \subseteq ActiveRuns(r, view)
  BY <1>2 DEF Begins
<1>4. ActiveRuns(r, view) \subseteq Run
  BY DEF ActiveRuns
<1>5. /\ IsFiniteSet(ActiveRuns(r, view)) /\ Cardinality(ActiveRuns(r, view)) \in Nat
      /\ Cardinality(Active) \in Nat
      /\ Cardinality(Active) <= Cardinality(ActiveRuns(r, view))
  BY <1>3, <1>4, RunsFinite, FS_Subset
<1>6. ~(Cardinality(ActiveRuns(r, view)) >= Limit)
  BY DEF Begins, Proceeding, HeldBack
<1>7. Limit \in Nat
  BY RunsAssumption DEF Limit
<1> QED
  BY <1>5, <1>6, <1>7

\* Runs of a template are active together beyond its policy only if one of them
\* began from a cache that hid another: neither cancelling, repeating, deleting
\* nor creating runs, nor a restart, makes room for one too many.
THEOREM PolicyIsKept == Spec => []PolicyKept
<1> DEFINE Within == Cardinality(Sighted) <= Limit
<1>1. Init => Within
  <2> SUFFICES ASSUME Init PROVE Within
    OBVIOUS
  <2>1. Sighted = {}
    BY DEF Init, Sighted, Active, Absent
  <2>2. Limit \in Nat
    BY RunsAssumption DEF Limit
  <2> QED
    BY <2>1, <2>2, FS_EmptySet
<1>2. TypeOK /\ TypeOK' /\ Within /\ [Next]_vars => Within'
  <2> SUFFICES ASSUME TypeOK, TypeOK', Within, [Next]_vars PROVE Within'
    OBVIOUS
  <2>0. policy' = policy /\ Limit' = Limit /\ Limit \in Nat
    BY StepMoves, RunsAssumption DEF Limit
  <2>1. CASE policy = "replace"
    <3>1. Limit = Runs
      BY <2>1 DEF Limit
    <3>2. Sighted' \subseteq Run
      BY DEF Sighted, Active
    <3> QED
      BY <2>0, <3>1, <3>2, RunsFinite
  <2>2. CASE \A s \in Run : Moves(run[s], run'[s])
    <3>1. Sighted' \subseteq Sighted
      BY <2>2, StepMoves, MovesActive DEF Sighted, Active
    <3>2. Sighted \subseteq Run
      BY DEF Sighted, Active
    <3>3. Cardinality(Sighted') <= Cardinality(Sighted) /\ Cardinality(Sighted) \in Nat /\ Cardinality(Sighted') \in Nat
      BY <3>1, <3>2, RunsFinite, FS_Subset
    <3> QED
      BY <2>0, <3>3
  <2>3. ASSUME NEW r \in Run, Begins(r), Others(r), policy # "replace"
        PROVE  Within'
    <3>1. Active' \subseteq Active \cup {r} /\ Active' \ {r} \subseteq Active
      BY <2>3, MovesActive DEF Others, Active
    <3>2. CASE r \in Sighted'
      <4>1. Cardinality(Active) < Limit
        BY <2>3, <3>2, BeginsInSight DEF Sighted
      <4>2. Sighted' \subseteq Active \cup {r} /\ Active \subseteq Run
        BY <3>1 DEF Sighted, Active
      <4>3. /\ IsFiniteSet(Active) /\ Cardinality(Active) \in Nat /\ Cardinality(Sighted') \in Nat
            /\ IsFiniteSet(Active \cup {r})
            /\ Cardinality(Sighted') <= Cardinality(Active \cup {r})
        BY <4>2, RunsFinite, FS_Subset
      <4>4. Cardinality(Active \cup {r}) \in {Cardinality(Active), Cardinality(Active) + 1}
        BY <4>3, FS_AddElement
      <4> QED
        BY <2>0, <4>1, <4>3, <4>4
    <3>3. CASE r \notin Sighted'
      <4>1. Sighted' \subseteq Sighted
        BY <3>1, <3>3, StepMoves DEF Sighted, Active
      <4>2. Sighted \subseteq Run
        BY DEF Sighted, Active
      <4>3. Cardinality(Sighted') <= Cardinality(Sighted) /\ Cardinality(Sighted) \in Nat /\ Cardinality(Sighted') \in Nat
        BY <4>1, <4>2, RunsFinite, FS_Subset
      <4> QED
        BY <2>0, <4>3
    <3> QED
      BY <3>2, <3>3
  <2> QED
    BY <2>1, <2>2, <2>3, StepMoves
<1>3. TypeOK /\ Within => PolicyKept
  BY SightedEnough
<1> QED
  BY <1>1, <1>2, <1>3, RunsTypeCorrect, PTL DEF Spec
=============================================================================
