--------------------------- MODULE MCAdmission ---------------------------
(***************************************************************************)
(* Constant values for the configurations of Admission: every graph over   *)
(* three steps, with dependencies on each other, on themselves and listed  *)
(* twice, and Workflows that break each of the other rules.                *)
(***************************************************************************)
EXTENDS Admission, TLC

CONSTANTS a, b, c, d, none, agent1, agent2, noAgent

Names == {a, b, c, d}
TwoAgents == {agent1, agent2}

Plain(n, deps) ==
  [name |-> n, dependsOn |-> deps, agent |-> IF n = b THEN agent2 ELSE agent1,
   typed |-> n = c, timeout |-> 0, condition |-> "none", refs |-> {}]

Flow(steps) == [steps |-> steps, edges |-> {}, timeout |-> 0, failureStrategy |-> ""]

Lists(S) == {<<>>} \cup {<<x>> : x \in S} \cup {<<x, y>> : x, y \in S}

Graphs ==
  {Flow(<<Plain(a, p), Plain(b, q), Plain(c, r)>>) :
     p \in Lists({b, c}), q \in Lists({a, c}), r \in Lists({a, b})}

Pair == Flow(<<Plain(a, <<>>), [Plain(b, <<a>>) EXCEPT !.agent = noAgent, !.typed = TRUE]>>)

\* Each breaks one rule, or several of those after WF-006.
Odd ==
  {Flow(<<>>),
   Flow(<<Plain(a, <<>>), Plain(a, <<>>)>>),
   Flow(<<Plain(a, <<d>>)>>),
   Flow(<<Plain(a, <<a>>)>>),
   Flow(<<Plain(none, <<>>)>>),
   Flow(<<[Plain(a, <<>>) EXCEPT !.agent = noAgent]>>),
   Flow([i \in 1 .. 4 |-> Plain(<<a, b, c, d>>[i], <<>>)]),
   [Pair EXCEPT !.edges = {<<a, d>>}],
   [Pair EXCEPT !.edges = {<<a, b>>}, !.failureStrategy = "stop"],
   [Pair EXCEPT !.failureStrategy = "retry"],
   [Pair EXCEPT !.steps[1].condition = "other"],
   [Pair EXCEPT !.steps[2].condition = "steps", !.steps[2].refs = {a}],
   [Pair EXCEPT !.steps[2].condition = "steps", !.steps[2].refs = {d}],
   [Pair EXCEPT !.steps[1].timeout = 0 - 1],
   [Pair EXCEPT !.timeout = 1, !.steps[1].timeout = 1, !.failureStrategy = "rollback"],
   [Pair EXCEPT !.timeout = 1, !.steps[1].timeout = 2, !.steps[2].timeout = 0 - 1,
                !.steps[2].condition = "steps", !.steps[2].refs = {d},
                !.failureStrategy = "retry"]}

AllRequests == Graphs \cup Odd
=============================================================================
