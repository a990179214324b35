------------------------------ MODULE Operator ------------------------------
(***************************************************************************)
(* The parts of the operator that no event drives: the cron table, in the  *)
(* process's memory, and the two provider controllers, which look again    *)
(* when their interval has passed.  A cron entry that fires for a template *)
(* without its trigger takes the whole process down.                       *)
(***************************************************************************)
EXTENDS Scheduler, ProviderControllers

vars == <<schedulerVars, providerVars>>

Init == SchedulerInit /\ ProviderInit

\* The process comes back with an empty table, full caches, and every object
\* to reconcile once more.
Restart ==
  /\ FiresOnNil /\ Rebuild
  /\ due' = {"llm", "memory"}
  /\ UNCHANGED <<credentials, builtin, secret, storeUp, llm, valid, memory, faults, changes>>

Next ==
  \/ (SyncTable \/ SyncTemplate \/ EditTemplate) /\ UNCHANGED providerVars
  \/ (ProviderStep \/ SecretChanges \/ StoreChanges) /\ UNCHANGED schedulerVars
  \/ Restart

Spec == Init /\ [][Next]_vars

\* The table is looked at every 30 seconds, the cache catches up, and a provider
\* whose interval has passed is reconciled.
Fairness ==
  /\ WF_vars(SyncTable /\ UNCHANGED providerVars)
  /\ WF_vars(SyncTemplate /\ UNCHANGED providerVars)
  /\ WF_vars(LLMReconcile /\ UNCHANGED schedulerVars)
  /\ WF_vars(MemoryReconcile /\ UNCHANGED schedulerVars)

FairSpec == Spec /\ Fairness
=============================================================================
