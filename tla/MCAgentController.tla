-------------------------- MODULE MCAgentController --------------------------
(* Constant values for the configurations of AgentController. *)
EXTENDS AgentController

\* The RoleBinding is created, read and removed like the Role.
TwoResources == <<"sa", "role">>
LimitOne == {[valid |-> TRUE, limit |-> 1]}
LimitTwo == {[valid |-> TRUE, limit |-> 2]}
=============================================================================
