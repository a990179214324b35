------------------------------ MODULE Executor ------------------------------
(***************************************************************************)
(* The program in the pod of a step: it connects to the MCP servers it was *)
(* given, then alternates calls of the model with the tools the model      *)
(* requests, under the guardrails of its agent (autonomy, tool calls, and  *)
(* cost), until the model answers in text.  The model is free to request   *)
(* any tool, offered or not; calls of tools and of the model may fail.     *)
(***************************************************************************)
EXTENDS Naturals, Sequences

CONSTANTS
  Tools,         \* names the model may request
  WriteTools,    \* the names on the fixed list WRITE_TOOLS
  InProcess,     \* function and builtin tools
  Servers,       \* MCP servers
  Registered,    \* the sequence of them in MCP_SERVERS
  Offers,        \* the tools each lists
  MaxToolCalls,  \* MAX_TOOL_CALLS
  CostLimit,     \* COST_LIMIT_USD; 0 is none
  Costs,         \* bound: what a call of the model may cost
  MaxRequests    \* bound: tools requested in one response

ASSUME ExecutorAssumption ==
  /\ WriteTools \subseteq Tools /\ InProcess \subseteq Tools
  /\ Registered \in Seq(Servers)
  /\ Offers \in [Servers -> SUBSET Tools]
  /\ MaxToolCalls \in Nat /\ CostLimit \in Nat
  /\ Costs \subseteq Nat /\ MaxRequests \in Nat

VARIABLES
  env,        \* AUTONOMY_LEVEL and MODEL_API_FORMAT
  phase,      \* what the program is doing
  clients,    \* all_mcp_clients, with the tools each listed
  iteration,  \* of the loop
  count,      \* tool_call_count
  spent,      \* total_cost_usd
  batch,      \* the requests of the last response
  position,   \* the one at hand
  answered,   \* those with a result in the messages
  trying,     \* the servers that are still to be asked
  ran,        \* history: the tools that were executed
  calls,      \* history: the calls of the tool that was last routed
  outcome     \* of the loop

turn == <<batch, position, answered>>
history == <<ran, calls>>
vars == <<env, phase, clients, iteration, count, spent, turn, trying, history, outcome>>

Environment == [autonomy : {"manual", "restricted", "supervised"}, format : {"anthropic", "openai"}]
Phase == {"connecting", "calling", "dispatching", "routing", "held", "done"}
Client == [server : Servers, tools : SUBSET Tools]

\* The server that owns a tool is the last that listed it.
Owning(t) == {i \in DOMAIN clients : t \in clients[i].tools}
Owner(t, i) == i \in Owning(t) /\ \A j \in Owning(t) : j <= i

Init ==
  /\ env \in Environment /\ phase = "connecting"
  /\ clients = <<>> /\ trying = Registered
  /\ iteration = 0 /\ count = 0 /\ spent = 0
  /\ batch = <<>> /\ position = 1 /\ answered = {}
  /\ ran = <<>> /\ calls = 0 /\ outcome = "none"

-----------------------------------------------------------------------------
(* Connecting, one server after the other; one that does not initialize is *)
(* left out, and one that does not list its tools is kept without any.     *)

ConnectServer ==
  /\ phase = "connecting" /\ trying # <<>>
  /\ \/ UNCHANGED clients
     \/ \E tools \in {{}, Offers[Head(trying)]} :
          clients' = Append(clients, [server |-> Head(trying), tools |-> tools])
  /\ trying' = Tail(trying)
  /\ UNCHANGED <<env, phase, iteration, count, spent, turn, history, outcome>>

RunReactLoop ==
  /\ phase = "connecting" /\ trying = <<>>
  /\ phase' = "calling"
  /\ UNCHANGED <<env, clients, iteration, count, spent, turn, trying, history, outcome>>

-----------------------------------------------------------------------------
(* A call of the model.                                                    *)

Stop(how) == phase' = "done" /\ outcome' = how

\* Mutant: the limit is looked at before the cost of this call is added.
LimitBefore(cost) == CostLimit > 0 /\ spent > CostLimit

OverLimit(cost) == CostLimit > 0 /\ spent + cost > CostLimit

\* Text that is an object is the output itself, with its error if it has one.
Answers(cost) ==
  /\ ~OverLimit(cost)
  /\ \E how \in {"answer", "error", "nothing"} : Stop(how)
  /\ batch' = <<>> /\ position' = 1 /\ answered' = {}

Requests(cost, tools) ==
  /\ ~OverLimit(cost)
  /\ batch' = tools /\ position' = 1 /\ answered' = {}
  /\ phase' = "dispatching" /\ UNCHANGED outcome

\* A response that is paid for and dropped.
Overspends(cost) == OverLimit(cost) /\ Stop("error") /\ UNCHANGED turn

CallModel ==
  /\ phase = "calling"
  /\ \E cost \in Costs :
       /\ spent' = spent + cost
       /\ \/ Answers(cost)
          \/ \E n \in 1 .. MaxRequests : \E tools \in [1 .. n -> Tools] : Requests(cost, tools)
          \/ Overspends(cost)
  /\ UNCHANGED <<env, clients, iteration, count, trying, history>>

\* Unreachable, refused, timed out, or not understood.
CallFails ==
  /\ phase = "calling"
  /\ Stop("error")
  /\ UNCHANGED <<env, clients, iteration, count, spent, turn, trying, history>>

-----------------------------------------------------------------------------
(* The requests of a response, in their order.                             *)

Blocked(t) ==
  \/ env.autonomy = "manual"
  \/ env.autonomy = "restricted" /\ t \in WriteTools

\* Mutant: one call too many.
WithinLimitInclusive == count <= MaxToolCalls

WithinLimit == count < MaxToolCalls

AtHand(t) == phase = "dispatching" /\ position <= Len(batch) /\ t = batch[position]

\* Mutant: a refused request is dropped.
RefuseSilently == answered' = answered

\* The OpenAI format gets no message for a request that is not executed.
Refuse == answered' = IF env.format = "anthropic" THEN answered \cup {position} ELSE answered

RefuseRequest(t) ==
  /\ AtHand(t) /\ (~WithinLimit \/ Blocked(t))
  /\ count' = count + 1
  /\ Refuse /\ position' = position + 1
  /\ UNCHANGED <<env, phase, clients, iteration, spent, batch, trying, history, outcome>>

Executes(t) ==
  /\ AtHand(t) /\ WithinLimit /\ ~Blocked(t)
  /\ count' = count + 1 /\ ran' = Append(ran, t)

RunInProcess(t) ==
  /\ Executes(t) /\ t \in InProcess
  /\ answered' = answered \cup {position} /\ position' = position + 1
  /\ UNCHANGED <<env, phase, clients, iteration, spent, batch, trying, calls, outcome>>

\* The owner first, then every server, the owner once more.
RouteTool(t) ==
  /\ Executes(t) /\ t \notin InProcess
  /\ calls' = 0
  /\ LET everyone == [i \in DOMAIN clients |-> clients[i].server] IN
       \/ Owning(t) = {} /\ trying' = everyone
       \/ \E i \in DOMAIN clients : Owner(t, i) /\ trying' = <<everyone[i]>> \o everyone
  /\ phase' = "routing"
  /\ UNCHANGED <<env, clients, iteration, spent, turn, outcome>>

Result ==
  /\ answered' = answered \cup {position} /\ position' = position + 1
  /\ phase' = "dispatching"
  /\ UNCHANGED batch

NextServer == trying' = Tail(trying) /\ UNCHANGED <<phase, turn>>

\* An error, a timeout and an empty result are the same.
CallTool ==
  /\ phase = "routing" /\ trying # <<>>
  /\ calls' = calls + 1
  /\ \/ Result /\ trying' = <<>>
     \/ NextServer
  /\ UNCHANGED <<env, clients, iteration, count, spent, ran, outcome>>

\* An endpoint of the agent's own is called, or the text says there is none.
NoServerLeft ==
  /\ phase = "routing" /\ trying = <<>>
  /\ calls' \in {calls, calls + 1}
  /\ Result
  /\ UNCHANGED <<env, clients, iteration, count, spent, trying, ran, outcome>>

\* The loop ends without an answer after MaxToolCalls + 1 iterations.
NextIteration ==
  /\ phase = "dispatching" /\ position > Len(batch)
  /\ \/ /\ iteration < MaxToolCalls
        /\ iteration' = iteration + 1 /\ phase' = "calling" /\ UNCHANGED outcome
     \/ iteration = MaxToolCalls /\ Stop("nothing") /\ UNCHANGED iteration
  /\ UNCHANGED <<env, clients, count, spent, turn, trying, history>>

\* An answer that never ends: a timeout bounds the gap between its bytes only.
AnswerNeverEnds ==
  /\ \/ phase \in {"calling", "routing"}
     \/ phase = "connecting" /\ trying # <<>>
  /\ phase' = "held"
  /\ UNCHANGED <<env, clients, iteration, count, spent, turn, trying, history, outcome>>

\* Mutant: the Job has no deadline, and the program looks at the time itself,
\* between its requests.
DeadlineBetweenRequests ==
  /\ phase \in {"calling", "dispatching"}
  /\ Stop("killed")
  /\ UNCHANGED <<env, clients, iteration, count, spent, turn, trying, history>>

\* The deadline of the Job stops the pod, whatever the program is doing.
DeadlineExceeded ==
  /\ phase # "done"
  /\ Stop("killed")
  /\ UNCHANGED <<env, clients, iteration, count, spent, turn, trying, history>>

Exited == phase = "done" /\ UNCHANGED vars

Step ==
  \/ ConnectServer \/ RunReactLoop
  \/ CallModel \/ CallFails
  \/ \E t \in Tools : RefuseRequest(t) \/ RunInProcess(t) \/ RouteTool(t)
  \/ CallTool \/ NoServerLeft
  \/ NextIteration

Next == Step \/ AnswerNeverEnds \/ DeadlineExceeded \/ Exited

Spec == Init /\ [][Next]_vars

\* One thread, which nothing but an answer that never ends holds up.  The
\* deadline is counted on in that case only.
FairSpec == Spec /\ WF_vars(Step) /\ WF_vars(phase = "held" /\ DeadlineExceeded)

-----------------------------------------------------------------------------
(* Properties.                                                             *)

\* The variables have their types.
TypeOK ==
  /\ env \in Environment /\ phase \in Phase
  /\ clients \in Seq(Client) /\ trying \in Seq(Servers)
  /\ iteration \in 0 .. MaxToolCalls /\ count \in Nat /\ spent \in Nat
  /\ batch \in Seq(Tools) /\ position \in Nat \ {0} /\ answered \subseteq Nat
  /\ ran \in Seq(Tools) /\ calls \in Nat
  /\ outcome \in {"none", "answer", "error", "nothing", "killed"}

\* run_react_loop executes at most MAX_TOOL_CALLS requests, however many the
\* model makes in a response, and however often it makes them again.
LimitKept == Len(ran) <= MaxToolCalls

\* execute_tool may carry out one request several times over, but not without
\* end: at its owner, once more at every server, and at an endpoint.
RepeatsBounded == calls <= Len(clients) + 2

\* check_autonomy_for_tool stops what filter_tools_by_autonomy withheld and
\* the model requested all the same: nothing is executed under manual
\* autonomy, and nothing on the list WRITE_TOOLS under restricted autonomy.
Permitted ==
  \A i \in DOMAIN ran :
    /\ env.autonomy # "manual"
    /\ env.autonomy = "restricted" => ran[i] \notin WriteTools

\* The three hold at once for everything that is executed, requested by the
\* model within one response or over many, with servers that fail.
WithinGuardrails == LimitKept /\ RepeatsBounded /\ Permitted

\* The Anthropic API refuses a conversation in which a tool_use has no
\* tool_result: when the loop calls the model again, every request of its
\* last response has one, executed, blocked or over the limit.
AllAnswered ==
  env.format = "anthropic" /\ phase = "calling" => answered = DOMAIN batch

\* Once the limit is exceeded track_cost ends the loop with an error: no tool
\* of that response is executed and the step cannot succeed.
StopsAtCost ==
  CostLimit > 0 /\ spent > CostLimit => phase = "done" /\ outcome = "error"

\* The executor ends by itself, whatever the model requests and whichever
\* servers fail, unless an answer holds it; then the deadline of its Job ends it.
Ends == <>(phase = "done")
=============================================================================
