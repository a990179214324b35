----------------------------- MODULE Scheduler -----------------------------
(***************************************************************************)
(* The cron table of the dashboard, for one workflow template.  Every 30   *)
(* seconds the table is brought in line with the templates the operator's  *)
(* cache shows; a cron entry that fires reads the template again.          *)
(***************************************************************************)
EXTENDS Integers

CONSTANTS
  Cron,        \* the cron expressions a template may carry
  Parses,      \* those the cron library accepts; no webhook looks at them
  MaxEdits     \* bound on what users change

ASSUME SchedulerAssumption == Parses \subseteq Cron /\ MaxEdits \in Nat

\* A template is its schedule: no template, one without a schedule, one whose
\* schedule is suspended, or the cron expression of one that is in force.
Template == {"absent", "plain", "suspended"} \cup Cron
NoEntry == "none"

VARIABLES
  template,       \* the template at the API server
  templateView,   \* the operator's cached copy
  entry,          \* the cron expression the table holds for it
  edits           \* changes by users so far

schedulerVars == <<template, templateView, entry, edits>>

SchedulerInit ==
  /\ template \in Cron /\ templateView = template
  /\ entry = NoEntry
  /\ edits = 0

Act == edits < MaxEdits /\ edits' = edits + 1

Scheduled(t) == t \in Cron

\* The entry of a template is added once: one that is there is left alone,
\* whatever cron expression it was added with.  One that cannot be parsed is
\* not added, and nobody is told.
Entered ==
  CASE entry # NoEntry -> entry
    [] entry = NoEntry /\ templateView \in Parses -> templateView
    [] entry = NoEntry /\ templateView \notin Parses -> NoEntry

\* Mutant: a suspended template keeps its entry.
SyncTableKeeping ==
  /\ entry' = IF Scheduled(templateView) THEN Entered
              ELSE IF templateView = "suspended" THEN entry ELSE NoEntry
  /\ UNCHANGED <<template, templateView, edits>>

\* A pass that cannot list the templates leaves everything alone: a stutter.
SyncTable ==
  /\ entry' = IF Scheduled(templateView) THEN Entered ELSE NoEntry
  /\ UNCHANGED <<template, templateView, edits>>

\* Firing the entry clones the template, whose schedule the code dereferences
\* even when it has lost it.
FiresOnNil == entry # NoEntry /\ templateView = "plain"

\* The process comes back with an empty table and a cache it has just filled.
Rebuild ==
  /\ entry' = NoEntry /\ templateView' = template
  /\ UNCHANGED <<template, edits>>

EditTemplate ==
  /\ Act
  /\ template' \in Template \ {template}
  /\ UNCHANGED <<templateView, entry>>

SyncTemplate ==
  /\ templateView' = template
  /\ UNCHANGED <<template, entry, edits>>

-----------------------------------------------------------------------------
(* Properties                                                              *)

\* A template that keeps a schedule the cron library accepts ends up in the table
\* with an entry, be it one of an earlier schedule, and one that is suspended,
\* unscheduled or deleted leaves it: through stale caches, late passes over the
\* table and restarts of the operator.  Nothing is said of a schedule that does
\* not parse, which is never entered.
ScheduleFollows ==
  /\ <>[](template \in Parses) => <>[](entry # NoEntry)
  /\ <>[]~Scheduled(template) => <>[](entry = NoEntry)
=============================================================================
