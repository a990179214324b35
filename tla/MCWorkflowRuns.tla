--------------------------- MODULE MCWorkflowRuns ---------------------------
EXTENDS WorkflowRuns
TwoPolicies == {"forbid", "replace"}
BothCommands == {"rerun", "trigger"}
RerunAlone == {"rerun"}
=============================================================================
