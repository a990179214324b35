---------------------------- MODULE MCMemoryStore ----------------------------
EXTENDS MemoryStore

\* Two agents of one component, and two that ask for a group without naming one.
Agents == {"planner", "coder", "scout", "guide"}
Specs == [a \in Agents |->
            [ns |-> "team", scope |-> "group",
             label |-> IF a \in {"planner", "coder"} THEN "core" ELSE NoLabel]]
StepAgents == [plan |-> "planner", code |-> "coder", look |-> "scout", show |-> "guide"]

Steps == DOMAIN StepAgents

\* The provider of the core caps it at one; the scout's allows more than the
\* default, which is all that is known of the guide's.
Caps == [a \in Agents |-> CASE a = "scout" -> 3 [] a = "guide" -> 0 [] OTHER -> 1]

\* The clock shows :05 or :05.1.
Fractions == <<<<>>, <<1>>>>
=============================================================================
