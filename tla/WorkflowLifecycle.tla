-------------------------- MODULE WorkflowLifecycle --------------------------
(***************************************************************************)
(* What the status of a run promises to those who read it (the dashboard,  *)
(* purkoctl, the archive): the order in which phases succeed each other.   *)
(* A step that is done stays done; only a rollback takes a success back,   *)
(* and once it has begun nothing moves forward.  A human may fail any step *)
(* that has a status, at any time, which changes nothing else.             *)
(***************************************************************************)

CONSTANT Steps

VARIABLES phase, step   \* of the run, of each of its steps

Open == {"Reset", "Pending", "Running"}

Done == {"Succeeded", "Failed", "Skipped"}

End == {"Succeeded", "CompletedWithErrors", "Failed", "Cancelled"}

MayBecome(p) ==
  CASE p = "None" -> {"None"} \cup Open \cup Done
    [] p \in Open -> Open \cup Done
    [] OTHER -> {p}

Init ==
  /\ phase = ""
  /\ step = [s \in Steps |-> "None"]

Advance ==
  /\ phase \in {"", "Running"}
  /\ phase' \in {"Running"} \cup End
  /\ DOMAIN step' = Steps
  /\ \A s \in Steps : step'[s] \in MayBecome(step[s])

BeginRollback ==
  /\ phase \in {"", "Running"}
  /\ phase' = "RollingBack"
  /\ DOMAIN step' = Steps
  /\ \A s \in Steps :
       /\ step'[s] \in {"None", "Failed", "Skipped", "RollingBack", "RolledBack"}
       /\ step[s] \in {"Failed", "Skipped"} => step'[s] = step[s]

UndoSteps ==
  /\ phase = "RollingBack"
  /\ phase' \in {"RollingBack", "Failed"}
  /\ DOMAIN step' = Steps
  /\ \A s \in Steps :
       /\ \/ step'[s] = step[s]
          \/ step[s] = "RollingBack" /\ step'[s] = "RolledBack"
       /\ step'[s] = "RollingBack" => phase' = "RollingBack"

FailByHand ==
  \E s \in Steps :
    /\ step[s] # "None"
    /\ step' = [step EXCEPT ![s] = "Failed"]
    /\ phase' = phase

Next == FailByHand \/ Advance \/ BeginRollback \/ UndoSteps

Spec == Init /\ [][Next]_<<phase, step>>
=============================================================================
