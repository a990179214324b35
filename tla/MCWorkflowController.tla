------------------------ MODULE MCWorkflowController ------------------------
(***************************************************************************)
(* Workflows small enough to check: constant values for the configurations *)
(* of WorkflowController.                                                  *)
(***************************************************************************)
EXTENDS WorkflowController

\* The enum of crds/workflow.crd.yaml, and the one the reconciler's code needs.
ShippedPhases == {"Pending", "Running"} \cup Terminal
AllPhases == ShippedPhases \cup {"RollingBack"}

AllSteps == Steps
NoSteps == {}
NoReads == [s \in Steps |-> {}]
NoRetries == [s \in Steps |-> 0]
OneRetry == [s \in Steps |-> IF s = 1 THEN 1 ELSE 0]

Chain == [s \in Steps |-> {t \in Steps : t = s - 1}]
\* Every step but the last runs at once, the last one joins them.
Join == [s \in Steps |-> IF s = NumSteps THEN 1 .. (NumSteps - 1) ELSE {}]

\* The condition of the last step reads the outputs of the agents it depends on.
LastReads == [s \in Steps |-> IF s = NumSteps THEN DependsOn[s] \cap HasAgent ELSE {}]
MiddleStep == {2}
=============================================================================
