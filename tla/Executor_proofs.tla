-------------------------- MODULE Executor_proofs --------------------------
(***************************************************************************)
(* Proofs about Executor, for any tools, servers, limits and costs: its    *)
(* type invariant, and the guardrails that no request of the model passes. *)
(***************************************************************************)
EXTENDS Executor, SequenceTheorems, TLAPS

USE DEF turn, history

\* Recording the result of a request keeps the types.
LEMMA ResultTyped ==
  ASSUME TypeOK, answered' \in {answered, answered \cup {position}}, position' = position + 1
  PROVE  answered' \subseteq Nat /\ position' \in Nat \ {0}
BY DEF TypeOK

\* Setting out to execute a tool keeps the types.
LEMMA ExecutesTyped ==
  ASSUME TypeOK, NEW t \in Tools, Executes(t)
  PROVE  count' \in Nat /\ ran' \in Seq(Tools)
BY AppendProperties DEF TypeOK, Executes

\* A call of the model keeps the types.
LEMMA ModelTyped ==
  ASSUME TypeOK, CallModel
  PROVE  TypeOK'
<1>1. PICK cost \in Costs :
        /\ spent' = spent + cost
        /\ \/ Answers(cost)
           \/ \E n \in 1 .. MaxRequests : \E tools \in [1 .. n -> Tools] : Requests(cost, tools)
           \/ Overspends(cost)
  BY DEF CallModel
<1>2. spent' \in Nat
  BY <1>1, ExecutorAssumption DEF TypeOK
<1>3. CASE Answers(cost)
  <2>1. batch' \in Seq(Tools) /\ position' \in Nat \ {0} /\ answered' \subseteq Nat
    BY <1>3 DEF Answers
  <2>2. phase' \in Phase /\ outcome' \in {"none", "answer", "error", "nothing", "killed"}
    BY <1>3 DEF Answers, Stop, Phase
  <2>3. QED
    BY <1>2, <2>1, <2>2 DEF CallModel, TypeOK
<1>4. ASSUME NEW n \in 1 .. MaxRequests, NEW tools \in [1 .. n -> Tools], Requests(cost, tools)
      PROVE  TypeOK'
  <2>1. n \in Nat
    BY ExecutorAssumption
  <2>2. tools \in Seq(Tools)
    BY <2>1
  <2>3. batch' \in Seq(Tools) /\ position' \in Nat \ {0} /\ answered' \subseteq Nat
    BY <1>4, <2>2 DEF Requests
  <2>4. phase' \in Phase /\ outcome' = outcome
    BY <1>4 DEF Requests, Phase
  <2>5. QED
    BY <1>2, <2>3, <2>4 DEF CallModel, TypeOK
<1>5. CASE Overspends(cost)
  BY <1>2, <1>5 DEF CallModel, Overspends, Stop, Phase, TypeOK
<1>6. QED
  BY <1>1, <1>3, <1>4, <1>5

\* The servers that are asked: all of them, or the owner and then all.
Everyone == [i \in DOMAIN clients |-> clients[i].server]

LEMMA EveryoneTyped ==
  ASSUME TypeOK
  PROVE  Everyone \in Seq(Servers) /\ Len(Everyone) = Len(clients) /\ DOMAIN Everyone = DOMAIN clients
<1>1. clients \in Seq(Client) /\ Len(clients) \in Nat /\ DOMAIN clients = 1 .. Len(clients)
  BY LenProperties DEF TypeOK
<1>2. ASSUME NEW i \in 1 .. Len(clients) PROVE clients[i].server \in Servers
  <2>1. clients[i] \in Client
    BY <1>1, ElementOfSeq
  <2>2. QED
    BY <2>1 DEF Client
<1>3. QED
  BY <1>1, <1>2 DEF Everyone

\* A request goes to one server more than there are clients, at most.
LEMMA RouteTyped ==
  ASSUME TypeOK, NEW t \in Tools, RouteTool(t)
  PROVE  trying' \in Seq(Servers) /\ Len(trying') <= Len(clients) + 1
<1>1. Len(clients) \in Nat
  BY LenProperties DEF TypeOK
<1>2. CASE trying' = Everyone
  BY <1>1, <1>2, EveryoneTyped
<1>3. CASE \E i \in DOMAIN clients : trying' = <<Everyone[i]>> \o Everyone
  <2>1. PICK i \in DOMAIN clients : trying' = <<Everyone[i]>> \o Everyone
    BY <1>3
  <2>2. Everyone[i] \in Servers
    BY <2>1, EveryoneTyped, LenProperties, ElementOfSeq
  <2>3. <<Everyone[i]>> \in Seq(Servers) /\ Len(<<Everyone[i]>>) = 1
    BY <2>2
  <2>4. QED
    BY <1>1, <2>1, <2>3, EveryoneTyped, ConcatProperties
<1>4. QED
  BY <1>2, <1>3 DEF RouteTool, Everyone

\* Refusing or executing a request keeps the types.
LEMMA RequestTyped ==
  ASSUME TypeOK, NEW t \in Tools, RefuseRequest(t) \/ RunInProcess(t) \/ RouteTool(t)
  PROVE  TypeOK'
<1>1. CASE RefuseRequest(t)
  <2>1. answered' \subseteq Nat /\ position' \in Nat \ {0}
    BY <1>1, ResultTyped DEF RefuseRequest, Refuse
  <2>2. count' \in Nat
    BY <1>1 DEF RefuseRequest, TypeOK
  <2>3. QED
    BY <1>1, <2>1, <2>2 DEF RefuseRequest, TypeOK
<1>2. CASE RunInProcess(t)
  <2>1. answered' \subseteq Nat /\ position' \in Nat \ {0}
    BY <1>2, ResultTyped DEF RunInProcess
  <2>2. count' \in Nat /\ ran' \in Seq(Tools)
    BY <1>2, ExecutesTyped DEF RunInProcess
  <2>3. QED
    BY <1>2, <2>1, <2>2 DEF RunInProcess, TypeOK
<1>3. CASE RouteTool(t)
  <2>1. count' \in Nat /\ ran' \in Seq(Tools)
    BY <1>3, ExecutesTyped DEF RouteTool
  <2>2. trying' \in Seq(Servers)
    BY <1>3, RouteTyped DEF RouteTool
  <2>3. calls' = 0
    BY <1>3 DEF RouteTool
  <2>4. phase' \in Phase
    BY <1>3 DEF RouteTool, Phase
  <2>5. QED
    BY <1>3, <2>1, <2>2, <2>3, <2>4 DEF RouteTool, TypeOK
<1>4. QED
  BY <1>1, <1>2, <1>3

\* Asking the servers keeps the types.
LEMMA RoutingTyped ==
  ASSUME TypeOK, CallTool \/ NoServerLeft
  PROVE  TypeOK'
<1>1. CASE CallTool
  <2>1. trying \in Seq(Servers) /\ trying # <<>>
    BY <1>1 DEF CallTool, TypeOK
  <2>2. Tail(trying) \in Seq(Servers) /\ Head(trying) \in Servers /\ calls' \in Nat
    BY <1>1, <2>1, HeadTailProperties DEF CallTool, TypeOK
  <2>3. CASE Result /\ trying' = <<>>
    <3>1. answered' \subseteq Nat /\ position' \in Nat \ {0}
      BY <2>3, ResultTyped DEF Result
    <3>2. trying' \in Seq(Servers) /\ phase' \in Phase /\ batch' = batch
      BY <2>3 DEF Result, Phase
    <3>3. QED
      BY <1>1, <2>2, <3>1, <3>2 DEF CallTool, TypeOK
  <2>4. CASE NextServer
    BY <1>1, <2>2, <2>4 DEF CallTool, NextServer, TypeOK
  <2>5. QED
    BY <1>1, <2>3, <2>4 DEF CallTool
<1>2. CASE NoServerLeft
  <2>1. answered' \subseteq Nat /\ position' \in Nat \ {0}
    BY <1>2, ResultTyped DEF NoServerLeft, Result
  <2>2. calls' \in Nat
    BY <1>2 DEF NoServerLeft, TypeOK
  <2>3. QED
    BY <1>2, <2>1, <2>2 DEF NoServerLeft, Result, Phase, TypeOK
<1>3. QED
  BY <1>1, <1>2

\* Every step keeps the types.
LEMMA NextTyped ==
  ASSUME TypeOK, [Next]_vars
  PROVE  TypeOK'
<1>1. CASE ConnectServer
  <2>1. trying \in Seq(Servers) /\ trying # <<>> /\ clients \in Seq(Client)
    BY <1>1 DEF ConnectServer, TypeOK
  <2>2. Tail(trying) \in Seq(Servers) /\ Head(trying) \in Servers
    BY <2>1, HeadTailProperties
  <2>3. clients' \in Seq(Client)
    <3>1. CASE UNCHANGED clients
      BY <2>1, <3>1
    <3>2. CASE ~UNCHANGED clients
      <4>1. PICK tools \in {{}, Offers[Head(trying)]} :
              clients' = Append(clients, [server |-> Head(trying), tools |-> tools])
        BY <1>1, <3>2 DEF ConnectServer
      <4>2. [server |-> Head(trying), tools |-> tools] \in Client
        BY <2>2, <4>1, ExecutorAssumption DEF Client
      <4>3. QED
        BY <2>1, <4>1, <4>2, AppendProperties
    <3>3. QED
      BY <3>1, <3>2
  <2>4. QED
    BY <1>1, <2>1, <2>2, <2>3 DEF ConnectServer, TypeOK
<1>2. CASE RunReactLoop
  BY <1>2 DEF RunReactLoop, Phase, TypeOK
<1>3. CASE CallFails
  BY <1>3 DEF CallFails, Stop, Phase, TypeOK
<1>4. CASE NextIteration
  <2>1. iteration' \in 0 .. MaxToolCalls
    BY <1>4, ExecutorAssumption DEF NextIteration, TypeOK
  <2>2. QED
    BY <1>4, <2>1 DEF NextIteration, Stop, Phase, TypeOK
<1>5. CASE UNCHANGED vars
  BY <1>5 DEF vars, TypeOK
<1>6. CASE AnswerNeverEnds \/ DeadlineExceeded
  BY <1>6 DEF AnswerNeverEnds, DeadlineExceeded, Stop, Phase, TypeOK
<1>7. QED
  BY <1>1, <1>2, <1>3, <1>4, <1>5, <1>6, ModelTyped, RequestTyped, RoutingTyped
     DEF Next, Step, Exited

\* The variables of the executor always have their types.
THEOREM ExecutorTyped == Spec => []TypeOK
<1>1. Init => TypeOK
  BY ExecutorAssumption DEF Init, Phase, TypeOK
<1>2. TypeOK /\ [Next]_vars => TypeOK'
  BY NextTyped
<1>3. QED
  BY <1>1, <1>2, PTL DEF Spec

-----------------------------------------------------------------------------
(* The tools that are executed.  The strengthening: each was counted, so   *)
(* that the count of an executed tool bounds all of those before it; and   *)
(* the calls of one request, with the servers still to be asked, are one   *)
(* more than the clients.                                                  *)

CallsLeft ==
  /\ RepeatsBounded
  /\ phase = "connecting" => calls = 0
  /\ phase = "routing" => calls + Len(trying) <= Len(clients) + 1

Guarded ==
  /\ Len(ran) <= count
  /\ LimitKept
  /\ CallsLeft
  /\ Permitted

\* Only a tool that is allowed, below the limit, is executed.
LEMMA ExecutesGuarded ==
  ASSUME TypeOK, Guarded, NEW t \in Tools, Executes(t), env' = env, CallsLeft'
  PROVE  Guarded'
<1>1. /\ ran' \in Seq(Tools) /\ Len(ran') = Len(ran) + 1
      /\ \A i \in 1 .. Len(ran) : ran'[i] = ran[i]
      /\ ran'[Len(ran) + 1] = t
  BY AppendProperties DEF TypeOK, Executes
<1>2. Len(ran) \in Nat /\ DOMAIN ran = 1 .. Len(ran) /\ DOMAIN ran' = 1 .. Len(ran')
  BY <1>1, LenProperties DEF TypeOK
<1>3. Len(ran') <= count'
  BY <1>1, <1>2 DEF Guarded, Executes, TypeOK
<1>4. LimitKept'
  BY <1>1, <1>2, ExecutorAssumption DEF Guarded, LimitKept, Executes, WithinLimit, TypeOK
<1>5. Permitted'
  <2> SUFFICES ASSUME NEW i \in DOMAIN ran'
               PROVE  /\ env.autonomy # "manual"
                      /\ env.autonomy = "restricted" => ran'[i] \notin WriteTools
    BY DEF Permitted
  <2>1. CASE i \in 1 .. Len(ran)
    BY <1>1, <1>2, <2>1 DEF Guarded, Permitted
  <2>2. CASE i = Len(ran) + 1
    BY <1>1, <2>2 DEF Executes, Blocked
  <2>3. QED
    BY <1>1, <1>2, <2>1, <2>2
<1>6. QED
  BY <1>3, <1>4, <1>5 DEF Guarded

\* The calls of a request stay bounded.
LEMMA NextCallsLeft ==
  ASSUME TypeOK, CallsLeft, [Next]_vars
  PROVE  CallsLeft'
<1>1. Len(clients) \in Nat /\ Len(trying) \in Nat /\ calls \in Nat
  BY LenProperties DEF TypeOK
<1>2. CASE ConnectServer
  <2>1. calls' = 0 /\ phase' = "connecting"
    BY <1>2 DEF ConnectServer, CallsLeft
  <2>2. Len(clients') \in Nat
    BY <1>2, NextTyped, LenProperties DEF TypeOK
  <2>3. QED
    BY <2>1, <2>2 DEF CallsLeft, RepeatsBounded
<1>3. ASSUME NEW t \in Tools, RouteTool(t) PROVE CallsLeft'
  <2>1. calls' = 0 /\ phase' = "routing" /\ clients' = clients
    BY <1>3 DEF RouteTool
  <2>2. Len(trying') <= Len(clients) + 1 /\ Len(trying') \in Nat
    BY <1>3, RouteTyped, LenProperties
  <2>3. QED
    BY <1>1, <2>1, <2>2 DEF CallsLeft, RepeatsBounded
<1>4. CASE CallTool
  <2>1. trying \in Seq(Servers) /\ trying # <<>>
    BY <1>4 DEF CallTool, TypeOK
  <2>2. Len(Tail(trying)) = Len(trying) - 1
    BY <2>1, HeadTailProperties
  <2>3. Len(trying) >= 1
    BY <2>1, EmptySeq, <1>1
  <2>4. calls + Len(trying) <= Len(clients) + 1 /\ calls' = calls + 1 /\ clients' = clients
    BY <1>4 DEF CallTool, CallsLeft
  <2>5. RepeatsBounded'
    BY <1>1, <2>3, <2>4 DEF RepeatsBounded
  <2>6. CASE Result
    BY <2>5, <2>6 DEF CallsLeft, Result
  <2>7. CASE NextServer
    BY <1>1, <1>4, <2>2, <2>4, <2>5, <2>7 DEF CallsLeft, CallTool, NextServer
  <2>8. QED
    BY <1>4, <2>6, <2>7 DEF CallTool
<1>5. CASE NoServerLeft
  <2>1. Len(trying) = 0
    BY <1>5 DEF NoServerLeft
  <2>2. calls <= Len(clients) + 1
    BY <1>1, <1>5, <2>1 DEF NoServerLeft, CallsLeft
  <2>3. QED
    BY <1>1, <1>5, <2>2 DEF NoServerLeft, Result, CallsLeft, RepeatsBounded
<1>6. CASE UNCHANGED <<calls, clients>> /\ (phase' \notin {"connecting", "routing"} \/ UNCHANGED <<phase, trying>>)
  BY <1>6 DEF CallsLeft, RepeatsBounded
<1>7. QED
  BY <1>2, <1>3, <1>4, <1>5, <1>6
     DEF Next, Step, Exited, vars, RunReactLoop, CallModel, Answers, Requests, Overspends, Stop,
         CallFails, RefuseRequest, RunInProcess, Executes, AtHand, NextIteration,
         AnswerNeverEnds, DeadlineExceeded

\* Every step keeps the guardrails.
LEMMA NextGuarded ==
  ASSUME TypeOK, Guarded, [Next]_vars
  PROVE  Guarded'
<1>1. CallsLeft'
  BY NextCallsLeft DEF Guarded
<1>2. ASSUME NEW t \in Tools, RunInProcess(t) \/ RouteTool(t) PROVE Guarded'
  BY <1>1, <1>2, ExecutesGuarded DEF RunInProcess, RouteTool
<1>3. ASSUME NEW t \in Tools, RefuseRequest(t) PROVE Guarded'
  <2>1. Len(ran) \in Nat
    BY LenProperties DEF TypeOK
  <2>2. QED
    BY <1>1, <1>3, <2>1 DEF RefuseRequest, Guarded, LimitKept, Permitted, TypeOK
<1>4. CASE UNCHANGED <<env, count, ran>>
  BY <1>1, <1>4 DEF Guarded, LimitKept, Permitted
<1>5. QED
  BY <1>2, <1>3, <1>4
     DEF Next, Step, Exited, vars, ConnectServer, RunReactLoop, CallModel, CallFails,
         CallTool, NoServerLeft, NextIteration, AnswerNeverEnds, DeadlineExceeded

\* At most MAX_TOOL_CALLS requests are executed, each at most once per server,
\* once more at its owner and once at an endpoint, nothing under manual autonomy,
\* and nothing on the list WRITE_TOOLS under restricted autonomy.
THEOREM GuardrailsKept == Spec => []WithinGuardrails
<1>1. Init => Guarded
  <2> SUFFICES ASSUME Init PROVE Guarded
    OBVIOUS
  <2>1. Len(ran) = 0 /\ DOMAIN ran = {} /\ count = 0 /\ calls = 0 /\ Len(clients) = 0
    BY DEF Init
  <2>2. CallsLeft
    BY <2>1 DEF Init, CallsLeft, RepeatsBounded
  <2>3. QED
    BY <2>1, <2>2, ExecutorAssumption DEF Guarded, LimitKept, Permitted
<1>2. TypeOK /\ Guarded /\ [Next]_vars => Guarded'
  BY NextGuarded
<1>3. Guarded => WithinGuardrails
  BY DEF Guarded, CallsLeft, WithinGuardrails
<1>4. QED
  BY <1>1, <1>2, <1>3, ExecutorTyped, PTL DEF Spec

-----------------------------------------------------------------------------
(* The conversation.  The strengthening: within a response, the requests   *)
(* before the one at hand are answered, and no other; before the first one *)
(* there are none.                                                         *)

AnsweredSoFar ==
  /\ phase = "connecting" => batch = <<>> /\ answered = {}
  /\ phase \in {"dispatching", "routing"} =>
       /\ position <= Len(batch) + 1
       /\ env.format = "anthropic" => answered = 1 .. (position - 1)
  /\ phase = "routing" => position <= Len(batch)
  /\ AllAnswered

\* A result is that of the request at hand.
LEMMA ResultAnswers ==
  ASSUME TypeOK, AnsweredSoFar, phase \in {"dispatching", "routing"}, position <= Len(batch),
         env' = env, phase' = "dispatching", batch' = batch, position' = position + 1,
         env.format = "anthropic" => answered' = answered \cup {position}
  PROVE  AnsweredSoFar'
<1>1. position \in Nat \ {0} /\ Len(batch) \in Nat
  BY LenProperties DEF TypeOK
<1>2. env.format = "anthropic" => answered' = 1 .. position
  <2> SUFFICES ASSUME env.format = "anthropic" PROVE answered' = 1 .. position
    OBVIOUS
  <2>1. answered' = 1 .. (position - 1) \cup {position}
    BY DEF AnsweredSoFar
  <2>2. QED
    BY <1>1, <2>1
<1>3. position' - 1 = position
  BY <1>1
<1>4. QED
  BY <1>1, <1>2, <1>3 DEF AnsweredSoFar, AllAnswered

\* Every step keeps the conversation complete.
LEMMA NextAnswers ==
  ASSUME TypeOK, AnsweredSoFar, [Next]_vars
  PROVE  AnsweredSoFar'
<1>1. Len(batch) \in Nat /\ DOMAIN batch = 1 .. Len(batch) /\ position \in Nat \ {0}
  BY LenProperties DEF TypeOK
<1>2. ASSUME NEW t \in Tools, RefuseRequest(t) PROVE AnsweredSoFar'
  BY <1>2, ResultAnswers DEF RefuseRequest, Refuse, AtHand
<1>3. ASSUME NEW t \in Tools, RunInProcess(t) PROVE AnsweredSoFar'
  BY <1>3, ResultAnswers DEF RunInProcess, Executes, AtHand
<1>4. ASSUME NEW t \in Tools, RouteTool(t) PROVE AnsweredSoFar'
  BY <1>4 DEF RouteTool, Executes, AtHand, AnsweredSoFar, AllAnswered
<1>5. CASE CallTool
  <2>1. CASE Result
    BY <1>5, <2>1, ResultAnswers DEF CallTool, Result, AnsweredSoFar
  <2>2. CASE NextServer
    BY <1>5, <2>2 DEF CallTool, NextServer, AnsweredSoFar, AllAnswered
  <2>3. QED
    BY <1>5, <2>1, <2>2 DEF CallTool
<1>6. CASE NoServerLeft
  BY <1>6, ResultAnswers DEF NoServerLeft, Result, AnsweredSoFar
<1>7. CASE CallModel
  <2>1. CASE phase' = "done"
    BY <2>1 DEF AnsweredSoFar, AllAnswered
  <2>2. CASE phase' = "dispatching" /\ position' = 1 /\ answered' = {} /\ Len(batch') \in Nat
    <3>1. 1 .. (position' - 1) = {}
      BY <2>2
    <3>2. QED
      BY <2>2, <3>1 DEF AnsweredSoFar, AllAnswered
  <2>3. ASSUME NEW cost \in Costs, NEW n \in 1 .. MaxRequests, NEW tools \in [1 .. n -> Tools],
               Requests(cost, tools)
        PROVE  phase' = "dispatching" /\ position' = 1 /\ answered' = {} /\ Len(batch') \in Nat
    <3>1. n \in Nat
      BY ExecutorAssumption
    <3>2. Len(tools) = n
      BY <3>1
    <3>3. QED
      BY <2>3, <3>1, <3>2 DEF Requests
  <2>4. QED
    BY <1>7, <2>1, <2>2, <2>3 DEF CallModel, Answers, Overspends, Stop
<1>8. CASE NextIteration
  <2>1. CASE phase' = "done"
    BY <2>1 DEF AnsweredSoFar, AllAnswered
  <2>2. CASE phase' = "calling"
    <3>1. position = Len(batch) + 1
      BY <1>1, <1>8 DEF NextIteration, AnsweredSoFar
    <3>2. position - 1 = Len(batch)
      BY <1>1, <3>1
    <3>3. env.format = "anthropic" => answered = DOMAIN batch
      BY <1>1, <1>8, <3>2 DEF NextIteration, AnsweredSoFar
    <3>4. QED
      BY <1>8, <2>2, <3>3 DEF NextIteration, AnsweredSoFar, AllAnswered
  <2>3. QED
    BY <1>8, <2>1, <2>2 DEF NextIteration, Stop
<1>9. CASE CallFails
  BY <1>9 DEF CallFails, Stop, AnsweredSoFar, AllAnswered
<1>10. CASE UNCHANGED vars \/ AnswerNeverEnds \/ DeadlineExceeded
  BY <1>10 DEF vars, AnswerNeverEnds, DeadlineExceeded, Stop, AnsweredSoFar, AllAnswered
<1>11. QED
  <2>1. CASE ConnectServer
    BY <2>1 DEF ConnectServer, AnsweredSoFar, AllAnswered
  <2>2. CASE RunReactLoop
    BY <2>2 DEF RunReactLoop, AnsweredSoFar, AllAnswered
  <2>3. QED
    BY <1>2, <1>3, <1>4, <1>5, <1>6, <1>7, <1>8, <1>9, <1>10, <2>1, <2>2 DEF Next, Step, Exited

\* In the Anthropic format, the model is called only with a result for every
\* request it has made.
THEOREM RequestsAnswered == Spec => []AllAnswered
<1>1. Init => AnsweredSoFar
  BY DEF Init, AnsweredSoFar, AllAnswered
<1>2. TypeOK /\ AnsweredSoFar /\ [Next]_vars => AnsweredSoFar'
  BY NextAnswers
<1>3. AnsweredSoFar => AllAnswered
  BY DEF AnsweredSoFar
<1>4. QED
  BY <1>1, <1>2, <1>3, ExecutorTyped, PTL DEF Spec

-----------------------------------------------------------------------------
(* The cost.                                                               *)

\* A step that leaves the cost alone and does not restart an ended run keeps
\* the circuit breaker.
LEMMA SpentNothing ==
  ASSUME StopsAtCost, spent' = spent, phase # "done" \/ UNCHANGED <<phase, outcome>>
  PROVE  StopsAtCost'
BY DEF StopsAtCost

\* Nothing follows a response that exceeds the limit of the cost, and the
\* executor reports an error.
THEOREM CostStops == Spec => []StopsAtCost
<1>1. Init => StopsAtCost
  BY ExecutorAssumption DEF Init, StopsAtCost
<1>2. StopsAtCost /\ [Next]_vars => StopsAtCost'
  <2> SUFFICES ASSUME StopsAtCost, [Next]_vars PROVE StopsAtCost'
    OBVIOUS
  <2>1. CASE CallModel
    <3>1. PICK cost \in Costs :
            /\ spent' = spent + cost
            /\ ~OverLimit(cost) \/ Overspends(cost)
      BY <2>1 DEF CallModel, Answers, Requests
    <3>2. QED
      BY <3>1 DEF OverLimit, Overspends, Stop, StopsAtCost
  <2>2. CASE UNCHANGED vars
    BY <2>2, SpentNothing DEF vars
  <2>3. CASE Step /\ ~CallModel
    BY <2>3, SpentNothing
       DEF Step, ConnectServer, RunReactLoop, CallFails, RefuseRequest, RunInProcess,
           RouteTool, Executes, AtHand, CallTool, NoServerLeft, NextIteration
  <2>4. CASE AnswerNeverEnds \/ DeadlineExceeded
    BY <2>4, SpentNothing DEF AnswerNeverEnds, DeadlineExceeded
  <2>5. QED
    BY <2>1, <2>2, <2>3, <2>4 DEF Next, Exited
<1>3. QED
  BY <1>1, <1>2, PTL DEF Spec
=============================================================================
