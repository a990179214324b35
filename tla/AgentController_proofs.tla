------------------------ MODULE AgentController_proofs ------------------------
(***************************************************************************)
(* Theorems about the Agent controller, for every set of specs, every      *)
(* number of Agents of one name, of failures and of edits: two writers of  *)
(* one status do not undo each other's cost, and the first Agent of a name *)
(* that is Ready has its Role and its RoleBinding.                         *)
(***************************************************************************)
EXTENDS AgentController, TLAPS

-----------------------------------------------------------------------------
(* Type correctness.                                                       *)

AgentTyped(a) == a \in Agent \cup {NoAgent} /\ Consistent(a)

\* The controller's status leaves the rest of an Agent as it was.
Alike(b, a) ==
  /\ b.uid = a.uid /\ b.cost = a.cost /\ b.deleting = a.deleting
  /\ b.finalizer = a.finalizer

\* The pass has a copy of an Agent, and each part of it works on its own kind.
PassSound ==
  /\ mine = NoAgent <=> pc = "idle"
  /\ pc = "finalizer" => ~mine.finalizer /\ ~mine.deleting
  /\ pc \in {"ensure", "error"} => mine.finalizer /\ ~mine.deleting
  /\ pc \in {"cleanup", "release"} => mine.deleting

\* A copy that is the last version differs from it in the status at most.
CopySound ==
  /\ synced => seen = agent
  /\ current => mine # NoAgent /\ agent # NoAgent /\ Alike(mine, agent)

AgentsTyped ==
  /\ AgentTyped(agent) /\ AgentTyped(seen) /\ AgentTyped(mine)
  /\ synced \in BOOLEAN /\ current \in BOOLEAN
  /\ pc \in {"idle", "finalizer", "ensure", "error", "cleanup", "release"}
  /\ PassSound /\ CopySound

RestTyped ==
  /\ queued \in BOOLEAN /\ dropped \in BOOLEAN
  /\ uids \in 0 .. MaxUid
  /\ res \in [Resource -> 0 .. MaxUid] /\ view \subseteq Resource
  /\ todo \in Seq(Resource)
  /\ secret \in BOOLEAN /\ faults \in 0 .. MaxFaults /\ edits \in 0 .. MaxEdits

IInv == AgentsTyped /\ RestTyped

\* The updates of an Agent.
LEMMA AgentUpdates ==
  ASSUME NEW a \in Agent
  PROVE  /\ a # NoAgent
         /\ \A p \in {"", "Error", "Ready", "Terminated"} :
              /\ [a EXCEPT !.phase = p] \in Agent
              /\ \A b \in BOOLEAN : [a EXCEPT !.phase = p, !.over = b] \in Agent
         /\ [a EXCEPT !.finalizer = TRUE] \in Agent
         /\ [a EXCEPT !.deleting = TRUE] \in Agent
         /\ \A c \in 0 .. MaxCost : [a EXCEPT !.cost = c] \in Agent
  BY AgentAssumption DEF Agent

\* The status of a pass that is through: a phase, and the mark of the limit.
LEMMA MarkedKeeps ==
  ASSUME NEW a \in Agent, NEW p, NEW o
  PROVE  /\ Alike([a EXCEPT !.phase = p, !.over = o], a)
         /\ [a EXCEPT !.phase = p, !.over = o].phase = p
BY DEF Agent, Alike

\* What of an updated Agent is as it was.
LEMMA UpdatesKeep ==
  ASSUME NEW a \in Agent
  PROVE  /\ \A p : Alike([a EXCEPT !.phase = p], a) /\ [a EXCEPT !.phase = p].phase = p
         /\ \A p, o : /\ Alike([a EXCEPT !.phase = p, !.over = o], a)
                      /\ [a EXCEPT !.phase = p, !.over = o].phase = p
         /\ LET b == [a EXCEPT !.finalizer = TRUE] IN
              b.uid = a.uid /\ b.cost = a.cost /\ b.deleting = a.deleting
                /\ b.finalizer /\ b.phase = a.phase
         /\ LET b == [a EXCEPT !.deleting = TRUE] IN
              b.uid = a.uid /\ b.cost = a.cost /\ b.deleting
                /\ b.finalizer = a.finalizer /\ b.phase = a.phase
         /\ \A c : /\ [a EXCEPT !.cost = c].uid = a.uid /\ [a EXCEPT !.cost = c].cost = c
                   /\ [a EXCEPT !.cost = c].deleting = a.deleting
                   /\ [a EXCEPT !.cost = c].finalizer = a.finalizer
                   /\ [a EXCEPT !.cost = c].phase = a.phase
<1>1. ASSUME NEW p
      PROVE  Alike([a EXCEPT !.phase = p], a) /\ [a EXCEPT !.phase = p].phase = p
  BY DEF Agent, Alike
<1>2. ASSUME NEW p, NEW o
      PROVE  /\ Alike([a EXCEPT !.phase = p, !.over = o], a)
             /\ [a EXCEPT !.phase = p, !.over = o].phase = p
  BY MarkedKeeps
<1>3. LET b == [a EXCEPT !.finalizer = TRUE] IN
        b.uid = a.uid /\ b.cost = a.cost /\ b.deleting = a.deleting
          /\ b.finalizer /\ b.phase = a.phase
  BY DEF Agent
<1>4. LET b == [a EXCEPT !.deleting = TRUE] IN
        b.uid = a.uid /\ b.cost = a.cost /\ b.deleting
          /\ b.finalizer = a.finalizer /\ b.phase = a.phase
  BY DEF Agent
<1>5. ASSUME NEW c
      PROVE  /\ [a EXCEPT !.cost = c].uid = a.uid /\ [a EXCEPT !.cost = c].cost = c
             /\ [a EXCEPT !.cost = c].deleting = a.deleting
             /\ [a EXCEPT !.cost = c].finalizer = a.finalizer
             /\ [a EXCEPT !.cost = c].phase = a.phase
  BY DEF Agent
<1> QED
  BY <1>1, <1>2, <1>3, <1>4, <1>5

LEMMA FaultTyped ==
  ASSUME faults \in 0 .. MaxFaults, Fault \/ NoFault
  PROVE  faults' \in 0 .. MaxFaults
  BY AgentAssumption DEF Fault, NoFault

LEMMA EditTyped ==
  ASSUME edits \in 0 .. MaxEdits, Edit
  PROVE  edits' \in 0 .. MaxEdits
  BY AgentAssumption DEF Edit

\* The Agent is replaced, which the cache has not seen, or stays.
LEMMA AgentMoves ==
  ASSUME AgentsTyped, NEW a, AgentTyped(a),
         \/ agent' = a /\ synced' = FALSE
         \/ UNCHANGED <<agent, synced>>
  PROVE  AgentTyped(agent') /\ (synced' => synced /\ agent' = agent) /\ synced' \in BOOLEAN
<1>1. CASE agent' = a /\ synced' = FALSE
  <2>1. AgentTyped(agent')
    BY <1>1, Zenon
  <2> QED
    BY <1>1, <2>1
<1>2. CASE agent' = agent /\ synced' = synced
  <2>1. AgentTyped(agent')
    BY <1>2, Zenon DEF AgentsTyped
  <2>2. synced' \in BOOLEAN
    BY <1>2, Zenon DEF AgentsTyped
  <2> QED
    BY <1>2, <2>1, <2>2, Zenon
<1> QED
  BY <1>1, <1>2

\* A status is written as a whole or not at all; the cache is behind unless the
\* write changed nothing.
LEMMA SetPhaseTyped ==
  ASSUME IInv, NEW a, AgentTyped(a), SetPhase(a)
  PROVE  /\ AgentTyped(agent') /\ (synced' => agent' = agent /\ synced) /\ synced' \in BOOLEAN
         /\ agent' = agent \/ (current /\ agent' = a)
         /\ dropped' \in BOOLEAN /\ faults' \in 0 .. MaxFaults
<1>1. faults' \in 0 .. MaxFaults
  BY FaultTyped DEF SetPhase, IInv, RestTyped
<1>2. AgentTyped(agent) /\ synced \in BOOLEAN /\ dropped \in BOOLEAN
  BY DEF IInv, AgentsTyped, RestTyped
<1>3. CASE current /\ agent' = a /\ dropped' = FALSE /\ (synced' = FALSE \/ (a = agent /\ synced' = synced))
  <2>1. (agent' = a /\ synced' = FALSE) \/ UNCHANGED <<agent, synced>>
    BY <1>3
  <2>2. dropped' \in BOOLEAN
    BY <1>3
  <2> QED
    BY <1>1, <1>3, <2>1, <2>2, AgentMoves DEF IInv
<1>4. CASE UNCHANGED <<agent, synced>> /\ dropped' \in {dropped, TRUE}
  <2>1. dropped' \in BOOLEAN /\ agent' = agent
    BY <1>2, <1>4
  <2> QED
    BY <1>1, <1>4, <2>1, AgentMoves DEF IInv
<1> QED
  BY <1>3, <1>4 DEF SetPhase

\* The resources change one at a time.
LEMMA OwnTyped ==
  ASSUME RestTyped, NEW r \in Resource, NEW u \in 0 .. MaxUid, Own(r, u)
  PROVE  res' \in [Resource -> 0 .. MaxUid]
  BY DEF RestTyped, Own

\* What is left to do is a part of what there was.
LEMMA TailTyped ==
  ASSUME todo \in Seq(Resource), todo # <<>>
  PROVE  /\ Head(todo) \in Resource /\ Tail(todo) \in Seq(Resource)
         /\ \A r : (\E i \in DOMAIN todo : todo[i] = r)
                     => r = Head(todo) \/ \E i \in DOMAIN Tail(todo) : Tail(todo)[i] = r
<1>1. Head(todo) \in Resource /\ Tail(todo) \in Seq(Resource) /\ Head(todo) = todo[1]
  OBVIOUS
<1>2. ASSUME NEW i \in DOMAIN todo, i # 1
      PROVE  i - 1 \in DOMAIN Tail(todo) /\ Tail(todo)[i - 1] = todo[i]
  BY <1>2
<1> QED
  BY <1>1, <1>2

LEMMA ResourcesTyped ==
  /\ Resources \in Seq(Resource) /\ Reverse(Resources) \in Seq(Resource)
  /\ <<>> \in Seq(Resource) /\ "sa" \in Resource
<1>1. Resources \in Seq(Resource)
  BY AgentAssumption DEF Resource
<1>2. Reverse(Resources) \in Seq(Resource)
  BY <1>1 DEF Reverse
<1> QED
  BY <1>1, <1>2, AgentAssumption

\* Each step of a pass keeps the invariant.
LEMMA PassTyped ==
  ASSUME IInv, Pass
  PROVE  IInv'
<1> USE DEF IInv
<1>0. NoAgent \notin Agent
  BY AgentAssumption
<1>1. CASE Reconcile
  <2>1. AgentsTyped'
    <3>1. UNCHANGED <<agent, seen, synced>>
      BY <1>1 DEF Reconcile, cluster
    <3>2. CASE seen = NoAgent
      <4>1. UNCHANGED <<pc, mine, current>>
        BY <1>1, <3>2 DEF Reconcile
      <4> QED
        BY <3>1, <4>1 DEF AgentsTyped, AgentTyped, PassSound, CopySound
    <3>3. CASE seen # NoAgent
      <4>1. /\ mine' = seen /\ current' = synced
            /\ \/ seen.deleting /\ pc' = "cleanup"
               \/ ~seen.deleting /\ ~seen.finalizer /\ pc' = "finalizer"
               \/ ~seen.deleting /\ seen.finalizer /\ pc' \in {"ensure", "error"}
        BY <1>1, <3>3 DEF Reconcile
      <4>2. PassSound'
        BY <3>1, <3>3, <4>1 DEF PassSound
      <4>3. CopySound'
        BY <3>1, <3>3, <4>1 DEF CopySound, AgentsTyped, Alike
      <4>4. pc' \in {"idle", "finalizer", "ensure", "error", "cleanup", "release"}
        BY <4>1
      <4> QED
        BY <3>1, <4>1, <4>2, <4>3, <4>4 DEF AgentsTyped, AgentTyped
    <3> QED
      BY <3>2, <3>3
  <2>2. RestTyped'
    BY <1>1, ResourcesTyped DEF Reconcile, RestTyped, cluster, resources
  <2> QED
    BY <2>1, <2>2
<1>2. CASE AddFinalizer
  <2>1. /\ pc = "finalizer" /\ mine \in Agent /\ ~mine.deleting /\ Consistent(mine)
        /\ pc' = "idle" /\ queued' = TRUE /\ todo' = <<>> /\ mine' = NoAgent /\ current' = FALSE
    BY <1>2 DEF AddFinalizer, Done, AgentsTyped, AgentTyped, PassSound, RestTyped
  <2>2. \/ agent' = [mine EXCEPT !.finalizer = TRUE] /\ synced' = FALSE
        \/ UNCHANGED <<agent, synced>>
    BY <1>2 DEF AddFinalizer
  <2>3. AgentTyped([mine EXCEPT !.finalizer = TRUE])
    BY <1>0, <2>1, AgentUpdates, UpdatesKeep DEF AgentTyped, Consistent
  <2>4. AgentsTyped'
    <3>1. AgentTyped(agent') /\ (synced' => synced /\ agent' = agent) /\ synced' \in BOOLEAN
      BY <2>2, <2>3, AgentMoves
    <3>2. UNCHANGED seen
      BY <1>2 DEF AddFinalizer
    <3>3. AgentTyped(NoAgent)
      BY DEF AgentTyped, Consistent
    <3> QED
      BY <2>1, <3>1, <3>2, <3>3 DEF AgentsTyped, PassSound, CopySound, AgentTyped
  <2>5. RestTyped'
    BY <1>2, <2>1, ResourcesTyped, FaultTyped DEF AddFinalizer, RestTyped, resources
  <2> QED
    BY <2>4, <2>5
<1>3. CASE Ensure
  <2>1. todo # <<>> /\ todo \in Seq(Resource) /\ mine \in Agent /\ pc = "ensure"
    BY <1>3 DEF Ensure, AgentsTyped, AgentTyped, PassSound, RestTyped
  <2>2. Head(todo) \in Resource /\ todo' \in Seq(Resource) /\ pc' \in {"ensure", "error"}
    BY <1>3, <2>1, TailTyped, ResourcesTyped DEF Ensure
  <2>3. res' \in [Resource -> 0 .. MaxUid]
    <3>1. mine.uid \in 0 .. MaxUid
      <4>1. mine.uid \in 1 .. MaxUid
        BY <2>1, ZenonT(60) DEF Agent
      <4> QED
        BY <4>1, AgentAssumption
    <3>2. Own(Head(todo), mine.uid) \/ res' = res
      BY <1>3 DEF Ensure
    <3> QED
      BY <2>2, <3>1, <3>2, OwnTyped DEF RestTyped
  <2>4. faults' \in 0 .. MaxFaults
    BY <1>3, FaultTyped DEF Ensure, RestTyped
  <2>5. UNCHANGED <<agent, seen, synced, uids, view, queued, mine, current, dropped, secret, edits>>
    BY <1>3 DEF Ensure
  <2>6. AgentsTyped'
    BY <2>1, <2>2, <2>5 DEF AgentsTyped, AgentTyped, PassSound, CopySound, Consistent
  <2>7. RestTyped'
    BY <2>2, <2>3, <2>4, <2>5 DEF RestTyped
  <2> QED
    BY <2>6, <2>7
<1>4. CASE SetError \/ SetReady
  <2> DEFINE bad == [mine EXCEPT !.phase = "Error"]
             good == [mine EXCEPT !.phase = "Ready", !.over = OverLimit(mine)]
  <2>1. mine \in Agent /\ mine.finalizer /\ ~mine.deleting
    BY <1>4 DEF SetError, SetReady, AgentsTyped, AgentTyped, PassSound
  <2>2. OverLimit(mine) \in BOOLEAN
    BY DEF OverLimit
  <2>3. AgentTyped(bad) /\ AgentTyped(good)
    <3>1. bad \in Agent /\ good \in Agent
      <4>1. "Error" \in {"", "Error", "Ready", "Terminated"}
             /\ "Ready" \in {"", "Error", "Ready", "Terminated"}
        OBVIOUS
      <4> QED
        BY <2>1, <2>2, <4>1, AgentUpdates, Zenon
    <3>2. Alike(bad, mine) /\ Alike(good, mine) /\ bad.phase = "Error" /\ good.phase = "Ready"
      <4>1. Alike(bad, mine)
        BY <2>1, UpdatesKeep, Zenon
      <4>2. Alike(good, mine) /\ good.phase = "Ready"
        <5>1. mine \in Agent
          BY <2>1
        <5> HIDE <1>4, <2>1, <2>2
        <5> QED
          BY <5>1, MarkedKeeps, ZenonT(60)
      <4>3. bad.phase = "Error"
        BY <2>1, UpdatesKeep, ZenonT(60)
      <4> QED
        BY <4>1, <4>2, <4>3
    <3> HIDE DEF bad, good
    <3> QED
      BY <2>1, <3>1, <3>2 DEF AgentTyped, Consistent, Alike
  <2>4. SetPhase(bad) \/ SetPhase(good)
    BY <1>4 DEF SetError, SetReady
  <2> HIDE DEF bad, good
  <2>5. /\ AgentTyped(agent') /\ (synced' => agent' = agent /\ synced) /\ synced' \in BOOLEAN
        /\ dropped' \in BOOLEAN /\ faults' \in 0 .. MaxFaults
    BY <2>3, <2>4, SetPhaseTyped
  <2>6. /\ pc' = "idle" /\ queued' \in BOOLEAN /\ todo' = <<>> /\ mine' = NoAgent /\ current' = FALSE
        /\ UNCHANGED <<seen, uids, resources, secret, edits>>
    BY <1>4 DEF SetError, SetReady, Done, RestTyped
  <2>7. AgentsTyped'
    BY <2>5, <2>6 DEF AgentsTyped, AgentTyped, PassSound, CopySound, Consistent
  <2>8. RestTyped'
    BY <2>5, <2>6, ResourcesTyped DEF RestTyped, resources
  <2> QED
    BY <2>7, <2>8
<1>5. CASE Cleanup
  <2>1. todo # <<>> /\ todo \in Seq(Resource) /\ UNCHANGED <<agent, seen, synced, uids, view, queued, pc, mine, current, dropped, secret, edits>>
    BY <1>5 DEF Cleanup, RestTyped
  <2>2. Head(todo) \in Resource /\ todo' \in Seq(Resource)
    BY <1>5, <2>1, TailTyped DEF Cleanup
  <2>3. res' \in [Resource -> 0 .. MaxUid]
    <3>1. 0 \in 0 .. MaxUid
      BY AgentAssumption
    <3>2. Own(Head(todo), 0) \/ res' = res
      BY <1>5 DEF Cleanup
    <3> QED
      BY <2>2, <3>1, <3>2, OwnTyped DEF RestTyped
  <2>4. faults' \in 0 .. MaxFaults
    BY <1>5, FaultTyped DEF Cleanup, RestTyped
  <2>5. AgentsTyped'
    BY <2>1 DEF AgentsTyped, AgentTyped, PassSound, CopySound, Consistent
  <2>6. RestTyped'
    BY <2>1, <2>2, <2>3, <2>4 DEF RestTyped
  <2> QED
    BY <2>5, <2>6
<1>6. CASE SetTerminated
  <2> DEFINE ended == [mine EXCEPT !.phase = "Terminated"]
  <2>1. mine \in Agent /\ mine.deleting /\ Consistent(mine)
    BY <1>6 DEF SetTerminated, AgentsTyped, AgentTyped, PassSound
  <2>2. ended \in Agent /\ Alike(ended, mine) /\ ended.phase = "Terminated"
    <3>1. "Terminated" \in {"", "Error", "Ready", "Terminated"}
      OBVIOUS
    <3>2. ended \in Agent
      BY <2>1, <3>1, AgentUpdates, Zenon
    <3> QED
      BY <2>1, <3>2, UpdatesKeep, ZenonT(60)
  <2>3. /\ SetPhase(ended) /\ mine' = ended /\ current' = current /\ pc' = "release"
        /\ UNCHANGED <<queued, todo, seen, uids, resources, secret, edits>>
    BY <1>6 DEF SetTerminated, Goto
  <2> HIDE DEF ended
  <2>4. AgentTyped(ended) /\ ended.deleting /\ ended # NoAgent
    BY <1>0, <2>1, <2>2 DEF AgentTyped, Consistent, Alike
  <2>5. /\ AgentTyped(agent') /\ (synced' => agent' = agent /\ synced) /\ synced' \in BOOLEAN
        /\ dropped' \in BOOLEAN /\ faults' \in 0 .. MaxFaults
        /\ agent' = agent \/ (current /\ agent' = ended)
    BY <2>3, <2>4, SetPhaseTyped
  <2>6. CopySound' /\ PassSound'
    BY <2>2, <2>3, <2>4, <2>5 DEF AgentsTyped, PassSound, CopySound, Alike
  <2>7. AgentsTyped'
    BY <2>3, <2>4, <2>5, <2>6 DEF AgentsTyped, AgentTyped
  <2>8. RestTyped'
    BY <2>3, <2>5 DEF RestTyped, resources
  <2> QED
    BY <2>7, <2>8
<1>7. CASE RemoveFinalizer
  <2>1. /\ pc' = "idle" /\ queued' \in BOOLEAN /\ todo' = <<>> /\ mine' = NoAgent /\ current' = FALSE
        /\ UNCHANGED <<seen, uids, resources, dropped, secret, edits>>
    BY <1>7 DEF RemoveFinalizer, Done, RestTyped
  <2>2. (agent' = NoAgent /\ synced' = FALSE) \/ UNCHANGED <<agent, synced>>
    BY <1>7, Zenon DEF RemoveFinalizer
  <2>3. faults' \in 0 .. MaxFaults
    BY <1>7, FaultTyped DEF RemoveFinalizer, RestTyped
  <2>4. AgentsTyped'
    <3>1. AgentTyped(agent') /\ (synced' => synced /\ agent' = agent) /\ synced' \in BOOLEAN
      <4>1. AgentTyped(NoAgent)
        BY DEF AgentTyped, Consistent
      <4> QED
        BY <2>2, <4>1, AgentMoves
    <3> QED
      BY <2>1, <3>1 DEF AgentsTyped, AgentTyped, PassSound, CopySound, Consistent
  <2>5. RestTyped'
    BY <2>1, <2>3, ResourcesTyped DEF RestTyped, resources
  <2> QED
    BY <2>4, <2>5
<1> QED
  BY <1>1, <1>2, <1>3, <1>4, <1>5, <1>6, <1>7 DEF Pass
-----------------------------------------------------------------------------
(* Steps of everyone else.                                                 *)

\* A write by someone else leaves the copies as they are, of an old version.
LEMMA WrittenTyped ==
  ASSUME AgentsTyped, NEW a, AgentTyped(a), Written(a), UNCHANGED <<seen, pc, mine>>
  PROVE  AgentsTyped'
<1>1. AgentTyped(agent') /\ synced' = FALSE /\ current' = FALSE
  BY Zenon DEF Written
<1> QED
  BY <1>1 DEF AgentsTyped, PassSound, CopySound

\* Where only the resources, the queue or the counters change.
LEMMA AgentsStay ==
  ASSUME AgentsTyped, UNCHANGED <<agent, seen, synced, pc, mine, current>>
  PROVE  AgentsTyped'
BY DEF AgentsTyped, PassSound, CopySound

\* A new Agent.
LEMMA CreateTyped ==
  ASSUME uids \in 0 .. MaxUid, uids < MaxUid, NEW spec \in Specs
  PROVE  LET a == [uid |-> uids + 1, spec |-> spec, finalizer |-> FALSE, deleting |-> FALSE,
                   phase |-> "", cost |-> 0, over |-> FALSE]
         IN AgentTyped(a) /\ a \in Agent
<1> DEFINE a == [uid |-> uids + 1, spec |-> spec, finalizer |-> FALSE, deleting |-> FALSE,
                 phase |-> "", cost |-> 0, over |-> FALSE]
<1>1. uids + 1 \in 1 .. MaxUid /\ 0 \in 0 .. MaxCost /\ spec \in AgentSpec
  BY AgentAssumption
<1>2. a \in Agent
  BY <1>1 DEF Agent
<1>3. a.phase = "" /\ ~a.deleting
  OBVIOUS
<1> QED
  BY <1>2, <1>3 DEF AgentTyped, Consistent

\* An edit changes the spec of an Agent and nothing else.
LEMMA UpdateTyped ==
  ASSUME NEW a \in Agent, NEW spec \in Changes
  PROVE  LET b == [a EXCEPT !.spec.valid = spec.valid,
                            !.spec.limit = IF spec.limit > 0 THEN spec.limit ELSE @]
         IN b \in Agent /\ Alike(b, a) /\ b.phase = a.phase
<1> DEFINE s == [a.spec EXCEPT !.valid = spec.valid,
                               !.limit = IF spec.limit > 0 THEN spec.limit ELSE @]
           b == [a EXCEPT !.spec = s]
<1>1. spec \in AgentSpec /\ a.spec \in AgentSpec
  BY AgentAssumption DEF Agent
<1>2. s \in AgentSpec
  BY <1>1 DEF AgentSpec
<1>3. b = [a EXCEPT !.spec.valid = spec.valid,
                    !.spec.limit = IF spec.limit > 0 THEN spec.limit ELSE @]
  BY <1>1 DEF Agent, AgentSpec
<1> HIDE DEF s
<1>4. b \in Agent /\ Alike(b, a) /\ b.phase = a.phase
  BY <1>2 DEF Agent, Alike
<1> QED
  BY <1>3, <1>4

\* Each step of the caches, the collector, users and the workflow reconciler keeps it.
LEMMA WorldTyped ==
  ASSUME IInv, SyncAgent \/ (\E r \in Resource : SyncResource(r) \/ Collect(r)) \/ Others
  PROVE  IInv'
<1> USE DEF IInv
<1>0. NoAgent \notin Agent
  BY AgentAssumption
<1>1. CASE SyncAgent
  <2>1. seen' = agent /\ UNCHANGED <<agent, pc, mine, current>> /\ synced' = TRUE
    BY <1>1 DEF SyncAgent
  <2>2. AgentsTyped'
    BY <2>1 DEF AgentsTyped, PassSound, CopySound
  <2>3. RestTyped'
    BY <1>1 DEF SyncAgent, RestTyped, resources
  <2> QED
    BY <2>2, <2>3
<1>2. ASSUME NEW r \in Resource, SyncResource(r)
      PROVE  IInv'
  <2>1. AgentsTyped'
    BY <1>2, AgentsStay DEF SyncResource
  <2>2. queued' \in BOOLEAN /\ view' \subseteq Resource
    BY <1>2 DEF SyncResource, RestTyped
  <2>3. UNCHANGED <<secret, faults, edits, uids, res, todo, dropped>>
    BY <1>2 DEF SyncResource
  <2>4. RestTyped'
    BY <2>2, <2>3 DEF RestTyped
  <2> QED
    BY <2>1, <2>4
<1>3. ASSUME NEW r \in Resource, Collect(r)
      PROVE  IInv'
  <2>1. AgentsTyped'
    BY <1>3, AgentsStay DEF Collect, pass
  <2>2. res' \in [Resource -> 0 .. MaxUid]
    <3>1. 0 \in 0 .. MaxUid
      BY AgentAssumption
    <3> QED
      BY <1>3, <3>1, OwnTyped DEF Collect
  <2>3. RestTyped'
    BY <1>3, <2>2 DEF Collect, RestTyped, pass
  <2> QED
    BY <2>1, <2>3
<1>4. ASSUME NEW spec \in Specs, Create(spec)
      PROVE  IInv'
  <2>1. uids \in 0 .. MaxUid /\ uids < MaxUid /\ uids' = uids + 1
    BY <1>4 DEF Create, RestTyped
  <2>2. AgentsTyped'
    BY <1>4, <2>1, CreateTyped, WrittenTyped DEF Create
  <2>3. uids' \in 0 .. MaxUid
    BY <2>1, AgentAssumption
  <2>4. RestTyped'
    BY <1>4, <2>3 DEF Create, RestTyped, resources
  <2> QED
    BY <2>2, <2>4
<1>5. ASSUME NEW spec \in Changes, Update(spec)
      PROVE  IInv'
  <2> DEFINE b == [agent EXCEPT !.spec.valid = spec.valid,
                                !.spec.limit = IF spec.limit > 0 THEN spec.limit ELSE @]
  <2>1. agent \in Agent /\ Consistent(agent) /\ agent # NoAgent
    BY <1>5 DEF Update, AgentsTyped, AgentTyped
  <2>2. b \in Agent /\ Alike(b, agent) /\ b.phase = agent.phase
    BY <2>1, UpdateTyped
  <2>3. Written(b) /\ UNCHANGED <<seen, pc, mine>>
    BY <1>5 DEF Update
  <2> HIDE DEF b
  <2>4. AgentTyped(b)
    BY <2>1, <2>2 DEF AgentTyped, Consistent, Alike
  <2>5. AgentsTyped'
    BY <2>3, <2>4, WrittenTyped
  <2>6. RestTyped'
    BY <1>5, EditTyped DEF Update, RestTyped, resources
  <2> QED
    BY <2>5, <2>6
<1>6. CASE Delete
  <2>1. agent \in Agent /\ agent # NoAgent
    BY <1>6 DEF Delete, Live, AgentsTyped, AgentTyped
  <2>2. AgentTyped(NoAgent)
    BY DEF AgentTyped, Consistent
  <2>3. agent.finalizer => AgentTyped([agent EXCEPT !.deleting = TRUE])
    <3> DEFINE b == [agent EXCEPT !.deleting = TRUE]
    <3>1. Consistent(agent)
      BY DEF AgentsTyped, AgentTyped
    <3>2. b \in Agent /\ b # NoAgent
      BY <2>1, AgentUpdates
    <3>3. b.finalizer = agent.finalizer /\ b.phase = agent.phase /\ b.deleting
      BY <2>1, UpdatesKeep
    <3> HIDE DEF b
    <3>4. agent.finalizer => AgentTyped(b)
      BY <2>1, <3>1, <3>2, <3>3 DEF AgentTyped, Consistent
    <3> QED
      BY <3>4 DEF b
  <2>4. AgentsTyped'
    <3>1. UNCHANGED <<seen, pc, mine>>
      BY <1>6 DEF Delete
    <3>2. \/ agent.finalizer /\ Written([agent EXCEPT !.deleting = TRUE])
          \/ Written(NoAgent)
      BY <1>6 DEF Delete
    <3> QED
      BY <2>2, <2>3, <3>1, <3>2, WrittenTyped
  <2>5. RestTyped'
    BY <1>6 DEF Delete, RestTyped, resources
  <2> QED
    BY <2>4, <2>5
<1>7. CASE DeleteServiceAccount
  <2>1. AgentsTyped'
    BY <1>7, AgentsStay DEF DeleteServiceAccount, pass
  <2>2. res' \in [Resource -> 0 .. MaxUid]
    <3>1. 0 \in 0 .. MaxUid /\ "sa" \in Resource
      BY AgentAssumption
    <3> QED
      BY <1>7, <3>1, OwnTyped DEF DeleteServiceAccount
  <2>3. RestTyped'
    BY <1>7, <2>2, EditTyped DEF DeleteServiceAccount, RestTyped, pass
  <2> QED
    BY <2>1, <2>3
<1>8. CASE SecretChanges
  <2>1. AgentsTyped'
    BY <1>8, AgentsStay DEF SecretChanges, pass, cluster
  <2>2. secret' \in BOOLEAN
    BY <1>8 DEF SecretChanges, RestTyped
  <2>3. RestTyped'
    BY <1>8, <2>2, EditTyped DEF SecretChanges, RestTyped, pass, cluster, resources
  <2> QED
    BY <2>1, <2>3
<1>9. CASE UpdateMetrics
  <2> DEFINE b == [agent EXCEPT !.cost = @ + 1]
  <2>1. agent \in Agent /\ agent # NoAgent /\ agent.cost < MaxCost /\ Consistent(agent)
    BY <1>9 DEF UpdateMetrics, AgentsTyped, AgentTyped
  <2>2. agent.cost + 1 \in 0 .. MaxCost
    <3>1. agent.cost \in 0 .. MaxCost
      BY <2>1 DEF Agent
    <3> QED
      BY <2>1, <3>1, AgentAssumption
  <2>3. AgentTyped(b)
    <3>1. [agent EXCEPT !.cost = agent.cost + 1] \in Agent
      BY <2>1, <2>2, AgentUpdates
    <3>2. /\ [agent EXCEPT !.cost = agent.cost + 1].deleting = agent.deleting
          /\ [agent EXCEPT !.cost = agent.cost + 1].finalizer = agent.finalizer
          /\ [agent EXCEPT !.cost = agent.cost + 1].phase = agent.phase
      BY <2>1, UpdatesKeep, ZenonT(60)
    <3> QED
      BY <2>1, <3>1, <3>2, ZenonT(60) DEF AgentTyped, Consistent
  <2>4. Written(b) /\ UNCHANGED <<seen, pc, mine>>
    BY <1>9 DEF UpdateMetrics
  <2> HIDE DEF b
  <2>5. AgentsTyped'
    BY <2>3, <2>4, WrittenTyped
  <2>6. RestTyped'
    BY <1>9 DEF UpdateMetrics, RestTyped, resources
  <2> QED
    BY <2>5, <2>6
<1> QED
  BY <1>1, <1>2, <1>3, <1>4, <1>5, <1>6, <1>7, <1>8, <1>9 DEF Others

LEMMA InvariantKept == IInv /\ [Next]_vars => IInv'
<1> SUFFICES ASSUME IInv, [Next]_vars
             PROVE  IInv'
  OBVIOUS
<1>1. CASE UNCHANGED vars
  <2>1. UNCHANGED <<agent, seen, synced, pc, mine, current>>
    BY <1>1 DEF vars, cluster, pass
  <2> QED
    BY <1>1, <2>1, AgentsStay DEF IInv, RestTyped, vars, cluster, pass, resources
<1>2. CASE Next
  BY <1>2, PassTyped, WorldTyped DEF Next
<1> QED
  BY <1>1, <1>2

LEMMA InitTyped == Init => IInv
<1> SUFFICES ASSUME Init
             PROVE  IInv
  OBVIOUS
<1>1. AgentTyped(NoAgent)
  BY DEF AgentTyped, Consistent
<1>2. AgentsTyped
  BY <1>1 DEF Init, AgentsTyped, PassSound, CopySound
<1>3. res \in [Resource -> 0 .. MaxUid] /\ 0 \in 0 .. MaxUid
  BY AgentAssumption DEF Init
<1>4. RestTyped
  <2>1. 0 \in 0 .. MaxFaults /\ 0 \in 0 .. MaxEdits
    BY AgentAssumption
  <2>2. view \subseteq Resource /\ todo \in Seq(Resource)
    BY ResourcesTyped DEF Init
  <2> QED
    BY <1>3, <2>1, <2>2 DEF Init, RestTyped
<1> QED
  BY <1>2, <1>4 DEF IInv

\* The variables have their types: an Agent that has a phase or waits to be deleted
\* has the finalizer, and only a deleted one is Terminated, at the API server and in
\* each copy of the controller.
THEOREM AgentTypeCorrect == Spec => []TypeOK
<1>1. IInv => TypeOK
  BY DEF IInv, AgentsTyped, AgentTyped, RestTyped, TypeOK
<1> QED
  BY <1>1, InitTyped, InvariantKept, PTL DEF Spec
-----------------------------------------------------------------------------
(* What a step makes of the Agent.                                         *)

\* It stays, goes, is created afresh, or is written as the Agent it was: then the
\* cost is no less, nobody takes the deletion back, and only the end of a pass that
\* made sure of every resource finds it Ready.
Stays == agent' = agent /\ uids' = uids
Goes == agent # NoAgent /\ agent' = NoAgent /\ uids' = uids
Fresh == /\ agent = NoAgent /\ agent' # NoAgent /\ uids' = uids + 1
         /\ agent'.uid = uids + 1 /\ ~agent'.deleting /\ agent'.phase = ""
Rewritten ==
  /\ agent # NoAgent /\ agent' # NoAgent /\ uids' = uids
  /\ agent'.uid = agent.uid /\ agent'.cost >= agent.cost
  /\ agent.deleting => agent'.deleting
  /\ agent'.phase = "Ready" => agent.phase = "Ready" \/ (pc = "ensure" /\ todo = <<>>)

LEMMA CostTyped ==
  ASSUME NEW a \in Agent
  PROVE  a.cost \in Nat
<1>1. a.cost \in 0 .. MaxCost
  BY DEF Agent
<1> QED
  BY <1>1, AgentAssumption

\* A status of the last version, written back.
LEMMA StatusRewrites ==
  ASSUME IInv, NEW a, SetPhase(a), UNCHANGED uids, a # NoAgent, Alike(a, mine),
         a.phase = "Ready" => pc = "ensure" /\ todo = <<>>
  PROVE  Stays \/ Rewritten
<1>1. CASE agent' = agent
  BY <1>1 DEF Stays
<1>2. CASE current /\ agent' = a
  <2>1. agent # NoAgent /\ Alike(mine, agent) /\ agent \in Agent
    BY <1>2 DEF IInv, AgentsTyped, AgentTyped, CopySound
  <2>2. agent.cost \in Nat
    BY <2>1, CostTyped
  <2> QED
    BY <1>2, <2>1, <2>2 DEF Alike, Rewritten
<1> QED
  BY <1>1, <1>2 DEF SetPhase

\* The controller's writes.
LEMMA PassSteps ==
  ASSUME IInv, Pass
  PROVE  Stays \/ Goes \/ Rewritten
<1>0. NoAgent \notin Agent /\ AgentTyped(agent) /\ AgentTyped(mine)
  BY AgentAssumption DEF IInv, AgentsTyped
<1>1. CASE AddFinalizer
  <2>1. UNCHANGED uids
    BY <1>1 DEF AddFinalizer
  <2>2. CASE UNCHANGED agent
    BY <2>1, <2>2 DEF Stays
  <2>3. CASE current /\ agent' = [mine EXCEPT !.finalizer = TRUE]
    <3> DEFINE a == [mine EXCEPT !.finalizer = TRUE]
    <3>1. /\ mine \in Agent /\ Alike(mine, agent) /\ agent \in Agent /\ agent # NoAgent
          /\ ~mine.finalizer
      BY <1>0, <1>1, <2>3 DEF AddFinalizer, IInv, AgentsTyped, AgentTyped, CopySound, PassSound
    <3>2. mine.phase = ""
      BY <1>0, <3>1 DEF AgentTyped, Consistent
    <3>3. a \in Agent /\ a.uid = mine.uid /\ a.cost = mine.cost /\ a.deleting = mine.deleting /\ a.phase = mine.phase
      BY <3>1, AgentUpdates, UpdatesKeep
    <3>4. agent' = a
      BY <2>3
    <3>5. agent.cost \in Nat
      BY <3>1, CostTyped
    <3> HIDE DEF a
    <3>6. a.uid = agent.uid /\ a.cost = agent.cost /\ a.deleting = agent.deleting /\ a.phase = ""
      BY <3>1, <3>2, <3>3 DEF Alike
    <3>7. a.cost >= agent.cost
      <4>1. a.cost = agent.cost
        BY <3>6
      <4>2. agent.cost >= agent.cost
        BY <3>5
      <4> QED
        BY <4>1, <4>2, Zenon
    <3>8. a # NoAgent /\ a.phase # "Ready"
      BY <1>0, <3>3, <3>6
    <3> QED
      BY <2>1, <3>1, <3>4, <3>6, <3>7, <3>8, Zenon DEF Rewritten
  <2> QED
    BY <1>1, <2>2, <2>3 DEF AddFinalizer
<1>2. CASE SetError \/ SetReady \/ SetTerminated
  <2> DEFINE bad == [mine EXCEPT !.phase = "Error"]
             good == [mine EXCEPT !.phase = "Ready", !.over = OverLimit(mine)]
             ended == [mine EXCEPT !.phase = "Terminated"]
  <2>1. mine \in Agent /\ UNCHANGED uids
    BY <1>0, <1>2 DEF SetError, SetReady, SetTerminated, IInv, AgentsTyped, AgentTyped, PassSound
  <2>2. /\ Alike(bad, mine) /\ bad.phase = "Error" /\ bad \in Agent
        /\ Alike(ended, mine) /\ ended.phase = "Terminated" /\ ended \in Agent
    <3>1. "Error" \in {"", "Error", "Ready", "Terminated"}
           /\ "Terminated" \in {"", "Error", "Ready", "Terminated"}
      OBVIOUS
    <3>2. bad \in Agent /\ ended \in Agent
      BY <2>1, <3>1, AgentUpdates, Zenon
    <3>3. Alike(bad, mine) /\ bad.phase = "Error"
      BY <2>1, UpdatesKeep, Zenon
    <3>4. Alike(ended, mine) /\ ended.phase = "Terminated"
      BY <2>1, UpdatesKeep, Zenon
    <3> QED
      BY <3>2, <3>3, <3>4
  <2>3. Alike(good, mine) /\ good \in Agent
    BY <2>1 DEF Agent, Alike, OverLimit
  <2>4. \/ SetPhase(bad)
        \/ pc = "ensure" /\ todo = <<>> /\ SetPhase(good)
        \/ SetPhase(ended)
    BY <1>2 DEF SetError, SetReady, SetTerminated
  <2> HIDE DEF bad, good, ended
  <2> QED
    BY <1>0, <2>1, <2>2, <2>3, <2>4, StatusRewrites
<1>3. CASE RemoveFinalizer
  <2>1. agent' \in {agent, NoAgent} /\ UNCHANGED uids
    BY <1>3 DEF RemoveFinalizer
  <2> QED
    BY <2>1 DEF Stays, Goes
<1>4. CASE Reconcile \/ Ensure \/ Cleanup
  BY <1>4 DEF Reconcile, Ensure, Cleanup, cluster, Stays
<1> QED
  BY <1>1, <1>2, <1>3, <1>4 DEF Pass

LEMMA AgentSteps ==
  ASSUME IInv, Next
  PROVE  Stays \/ Goes \/ Fresh \/ Rewritten
<1>0. NoAgent \notin Agent /\ AgentTyped(agent) /\ uids \in 0 .. MaxUid
  BY AgentAssumption DEF IInv, AgentsTyped, RestTyped
<1>1. CASE Pass
  BY <1>1, PassSteps
<1>2. CASE SyncAgent \/ (\E r \in Resource : SyncResource(r) \/ Collect(r))
            \/ DeleteServiceAccount \/ SecretChanges
  BY <1>2 DEF SyncAgent, SyncResource, Collect, DeleteServiceAccount, SecretChanges, cluster, Stays
<1>3. ASSUME NEW spec \in Specs, Create(spec)
      PROVE  Fresh
  <2> DEFINE a == [uid |-> uids + 1, spec |-> spec, finalizer |-> FALSE, deleting |-> FALSE,
                   phase |-> "", cost |-> 0, over |-> FALSE]
  <2>1. agent = NoAgent /\ uids < MaxUid /\ agent' = a /\ uids' = uids + 1
    BY <1>3 DEF Create, Written
  <2>2. a \in Agent
    BY <1>0, <2>1, CreateTyped
  <2>3. a.uid = uids + 1 /\ ~a.deleting /\ a.phase = ""
    OBVIOUS
  <2> HIDE DEF a
  <2> QED
    BY <1>0, <2>1, <2>2, <2>3 DEF Fresh
<1>4. ASSUME NEW spec \in Changes, Update(spec)
      PROVE  Rewritten
  <2> DEFINE b == [agent EXCEPT !.spec.valid = spec.valid,
                                !.spec.limit = IF spec.limit > 0 THEN spec.limit ELSE @]
  <2>1. agent \in Agent /\ agent # NoAgent
    BY <1>0, <1>4 DEF Update, AgentTyped
  <2>2. b \in Agent /\ Alike(b, agent) /\ b.phase = agent.phase
    BY <2>1, UpdateTyped
  <2>3. agent' = b /\ uids' = uids
    BY <1>4 DEF Update, Written
  <2>4. agent.cost \in Nat
    BY <2>1, CostTyped
  <2> HIDE DEF b
  <2> QED
    BY <1>0, <2>1, <2>2, <2>3, <2>4 DEF Rewritten, Alike
<1>5. CASE Delete
  <2>1. agent \in Agent /\ agent # NoAgent /\ uids' = uids
    BY <1>0, <1>5 DEF Delete, Live, AgentTyped
  <2>2. CASE agent' = NoAgent
    BY <2>1, <2>2 DEF Goes
  <2>3. CASE agent' = [agent EXCEPT !.deleting = TRUE]
    <3> DEFINE b == [agent EXCEPT !.deleting = TRUE]
    <3>1. b \in Agent /\ b.uid = agent.uid /\ b.cost = agent.cost /\ b.deleting /\ b.phase = agent.phase
      BY <2>1, AgentUpdates, UpdatesKeep
    <3>2. agent.cost \in Nat
      BY <2>1, CostTyped
    <3> HIDE DEF b
    <3>3. agent' = b
      BY <2>3 DEF b
    <3> QED
      BY <1>0, <2>1, <3>1, <3>2, <3>3 DEF Rewritten
  <2> QED
    BY <1>5, <2>2, <2>3 DEF Delete, Written
<1>6. CASE UpdateMetrics
  <2> DEFINE b == [agent EXCEPT !.cost = agent.cost + 1]
  <2>1. agent \in Agent /\ agent # NoAgent /\ agent.cost < MaxCost /\ uids' = uids
    BY <1>0, <1>6 DEF UpdateMetrics, AgentTyped
  <2>2. agent.cost \in Nat
    BY <2>1, CostTyped
  <2>3. agent.cost + 1 \in 0 .. MaxCost
    BY <2>1, <2>2, AgentAssumption
  <2>4. b \in Agent
    BY <2>1, <2>3, AgentUpdates
  <2>5. b.uid = agent.uid /\ b.cost = agent.cost + 1 /\ b.deleting = agent.deleting /\ b.phase = agent.phase
    <3>1. agent \in Agent
      BY <2>1
    <3> QED
      BY <3>1, UpdatesKeep, ZenonT(60)
  <2>6. agent' = b
    BY <1>6 DEF UpdateMetrics, Written
  <2> HIDE DEF b
  <2> QED
    BY <1>0, <2>1, <2>2, <2>4, <2>5, <2>6 DEF Rewritten
<1> QED
  BY <1>1, <1>2, <1>3, <1>4, <1>5, <1>6 DEF Next, Others

\* The reconciler of the workflows and the controller each write the status whole,
\* from a cache, and the cost of an Agent never goes down: a write of either is of
\* the last version, or it is refused.
THEOREM CostsKept == Spec => CostNeverLost
<1>1. ASSUME IInv, Next, agent # NoAgent, agent' # NoAgent
      PROVE  agent'.cost >= agent.cost
  <2>1. CASE Stays
    <3>1. agent \in Agent
      BY <1>1 DEF IInv, AgentsTyped, AgentTyped
    <3> QED
      BY <2>1, <3>1, CostTyped DEF Stays
  <2>2. CASE Rewritten
    BY <2>2 DEF Rewritten
  <2> QED
    BY <1>1, <2>1, <2>2, AgentSteps DEF Goes, Fresh
<1>2. IInv /\ [Next]_vars => [agent # NoAgent /\ agent' # NoAgent /\ agent'.uid = agent.uid
                                => agent'.cost >= agent.cost]_vars
  BY <1>1
<1> QED
  BY <1>2, InitTyped, InvariantKept, PTL DEF Spec, CostNeverLost

-----------------------------------------------------------------------------
(* The first Agent of its name.                                            *)

\* There has been no other, and it is not being deleted.
First == IF agent = NoAgent THEN uids = 0 ELSE agent.uid = 1 /\ ~agent.deleting

Access == Resource \ {"sa"}

\* Neither the caches nor the pass know of an earlier one, so what the caches
\* show is there, and what the pass has left behind it is there.
FirstSound ==
  /\ agent # NoAgent => agent.uid = uids
  /\ First =>
       /\ \A a \in {seen, mine} : a # NoAgent => a.uid = 1 /\ ~a.deleting
       /\ agent = NoAgent => seen = NoAgent /\ mine = NoAgent
       /\ \A r \in Resource : res[r] \in {0, 1} /\ (agent = NoAgent => res[r] = 0)
       /\ \A r \in Access : r \in view => res[r] # 0
       /\ pc = "ensure" => \A r \in Access : res[r] # 0 \/ \E i \in DOMAIN todo : todo[i] = r
       /\ agent # NoAgent /\ agent.phase = "Ready" => \A r \in Access : res[r] # 0

\* What is the first Agent after a step was it before.
LEMMA FirstBefore ==
  ASSUME IInv, FirstSound, Next, First'
  PROVE  First /\ ~Goes
<1>1. uids \in Nat /\ AgentTyped(agent)
  BY AgentAssumption DEF IInv, AgentsTyped, RestTyped
<1>2. agent # NoAgent => agent.uid \in 1 .. MaxUid /\ agent.uid = uids
  BY <1>1 DEF AgentTyped, Agent, FirstSound
<1>3. CASE Goes
  <2>1. uids = 0 /\ agent # NoAgent
    BY <1>3 DEF Goes, First
  <2> QED
    BY <1>2, <2>1
<1>4. CASE Stays
  BY <1>4 DEF Stays, First, Goes
<1>5. CASE Fresh
  <2>1. uids + 1 = 1 /\ agent = NoAgent
    BY <1>5 DEF Fresh, First
  <2> QED
    BY <1>1, <2>1 DEF First, Goes
<1>6. CASE Rewritten
  BY <1>6 DEF Rewritten, First, Goes
<1> QED
  BY <1>3, <1>4, <1>5, <1>6, AgentSteps

\* There is nothing to clean up and nothing to collect.
LEMMA FirstGoesOn ==
  ASSUME IInv, FirstSound, First
  PROVE  /\ pc \notin {"cleanup", "release"}
         /\ agent = NoAgent => seen = NoAgent /\ mine = NoAgent /\ pc = "idle"
         /\ pc = "ensure" => mine.uid = 1
         /\ \A r \in Resource : ~Collect(r)
<1>1. agent = NoAgent => seen = NoAgent /\ mine = NoAgent
  BY DEF FirstSound
<1>2. mine # NoAgent => mine.uid = 1 /\ ~mine.deleting
  BY DEF FirstSound
<1>3. ASSUME NEW r \in Resource, Collect(r)
      PROVE  FALSE
  <2>1. res[r] # 0 /\ (agent # NoAgent => agent.uid # res[r])
    BY <1>3 DEF Collect
  <2>2. res[r] \in {0, 1} /\ (agent = NoAgent => res[r] = 0) /\ (agent # NoAgent => agent.uid = 1)
    BY DEF FirstSound, First
  <2> QED
    BY <2>1, <2>2
<1> QED
  BY <1>1, <1>2, <1>3 DEF IInv, AgentsTyped, PassSound

\* What the controller knows of comes from the Agent there is, and a pass leaves
\* behind it only what is there.
LEMMA CopiesMove ==
  ASSUME IInv, FirstSound, Next, First
  PROVE  /\ seen' \in {seen, agent} /\ mine' \in {mine, seen, NoAgent}
         /\ pc' = "ensure" => \/ todo' = Resources
                              \/ pc = "ensure" /\ todo' = todo
                              \/ /\ pc = "ensure" /\ todo # <<>> /\ todo' = Tail(todo)
                                 /\ Head(todo) \in Access => res'[Head(todo)] # 0
<1>1. CASE Reconcile
  <2>1. UNCHANGED seen
    BY <1>1 DEF Reconcile, cluster
  <2>2. IF seen = NoAgent THEN UNCHANGED <<pc, todo, mine>>
        ELSE mine' = seen /\ (pc' = "ensure" => todo' = Resources)
    BY <1>1 DEF Reconcile
  <2> QED
    BY <2>1, <2>2
<1>2. CASE Ensure
  <2>1. UNCHANGED <<seen, mine>> /\ pc = "ensure" /\ todo # <<>>
    BY <1>2 DEF Ensure
  <2>2. mine.uid = 1
    BY <2>1, FirstGoesOn
  <2>3. Head(todo) \in Resource /\ res \in [Resource -> 0 .. MaxUid]
    BY <2>1, TailTyped DEF IInv, RestTyped
  <2>4. pc' = "ensure" => todo' = Tail(todo) /\ (Head(todo) \in Access => res'[Head(todo)] # 0)
    <3>1. CASE Head(todo) \in view /\ UNCHANGED res /\ todo' = Tail(todo)
      BY <3>1 DEF FirstSound
    <3>2. CASE Own(Head(todo), mine.uid) /\ todo' = Tail(todo)
      BY <2>2, <2>3, <3>2 DEF Own
    <3>3. CASE pc' = "error"
      BY <3>3
    <3> QED
      BY <1>2, <3>1, <3>2, <3>3 DEF Ensure
  <2> QED
    BY <2>1, <2>4
<1>3. CASE AddFinalizer \/ SetError \/ SetReady
  BY <1>3 DEF AddFinalizer, SetError, SetReady, Done
<1>4. CASE Cleanup \/ SetTerminated \/ RemoveFinalizer
  BY <1>4, FirstGoesOn DEF Cleanup, SetTerminated, RemoveFinalizer
<1>5. CASE SyncAgent
  BY <1>5 DEF SyncAgent
<1>6. CASE (\E r \in Resource : SyncResource(r) \/ Collect(r))
  BY <1>6 DEF SyncResource, Collect, pass
<1>7. CASE Others
  BY <1>7 DEF Others, Create, Update, Delete, DeleteServiceAccount, SecretChanges, UpdateMetrics,
              Written, cluster, pass
<1> QED
  BY <1>1, <1>2, <1>3, <1>4, <1>5, <1>6, <1>7 DEF Next, Pass

\* The Role and the RoleBinding only come, and only what is there is seen.
LEMMA ResourcesMove ==
  ASSUME IInv, FirstSound, Next, First
  PROVE  /\ \A r \in Resource : res'[r] \in {0, 1} /\ (agent = NoAgent => res'[r] = res[r])
         /\ \A r \in Access : /\ res[r] # 0 => res'[r] # 0
                              /\ r \in view' => r \in view \/ res[r] # 0
<1>0. /\ res \in [Resource -> 0 .. MaxUid] /\ \A r \in Resource : res[r] \in {0, 1}
      /\ Access \subseteq Resource /\ "sa" \notin Access
  BY DEF IInv, RestTyped, FirstSound, Access
<1>1. CASE UNCHANGED <<res, view>>
  BY <1>0, <1>1
<1>2. ASSUME NEW u \in {0, 1}, NEW r \in Resource, Own(r, u), UNCHANGED view, agent # NoAgent,
             r \in Access => u # 0
      PROVE  /\ \A s \in Resource : res'[s] \in {0, 1}
             /\ \A s \in Access : res[s] # 0 => res'[s] # 0
  BY <1>0, <1>2 DEF Own
<1>3. CASE Ensure
  <2>1. pc = "ensure" /\ todo # <<>> /\ UNCHANGED view
    BY <1>3 DEF Ensure
  <2>2. Head(todo) \in Resource /\ mine.uid = 1 /\ agent # NoAgent
    BY <2>1, TailTyped, FirstGoesOn DEF IInv, RestTyped
  <2>3. UNCHANGED res \/ Own(Head(todo), mine.uid)
    BY <1>3 DEF Ensure
  <2>4. CASE Own(Head(todo), 1)
    BY <1>2, <2>1, <2>2, <2>4
  <2> QED
    BY <1>1, <2>1, <2>2, <2>3, <2>4
<1>4. CASE Cleanup \/ SetTerminated \/ RemoveFinalizer
  BY <1>4, FirstGoesOn DEF Cleanup, SetTerminated, RemoveFinalizer
<1>5. CASE Reconcile \/ AddFinalizer \/ SetError \/ SetReady \/ SyncAgent
  BY <1>1, <1>5 DEF Reconcile, AddFinalizer, SetError, SetReady, SyncAgent, cluster, resources
<1>6. ASSUME NEW r \in Resource, SyncResource(r)
      PROVE  /\ UNCHANGED res
             /\ \A s \in Resource : s \in view' => s \in view \/ res[s] # 0
  BY <1>6 DEF SyncResource
<1>7. ASSUME NEW r \in Resource, Collect(r)
      PROVE  FALSE
  BY <1>7, FirstGoesOn
<1>8. CASE DeleteServiceAccount
  <2>1. res["sa"] # 0 /\ Own("sa", 0) /\ UNCHANGED view /\ "sa" \in Resource
    BY <1>8, AgentAssumption DEF DeleteServiceAccount
  <2>2. agent # NoAgent
    BY <2>1 DEF FirstSound
  <2> QED
    BY <1>0, <1>2, <2>1, <2>2
<1>9. CASE Others /\ ~DeleteServiceAccount
  BY <1>1, <1>9 DEF Others, Create, Update, Delete, SecretChanges, UpdateMetrics, cluster, resources
<1> QED
  BY <1>0, <1>3, <1>4, <1>5, <1>6, <1>7, <1>8, <1>9 DEF Next, Pass

LEMMA FirstKept ==
  ASSUME IInv, FirstSound, Next
  PROVE  FirstSound'
<1>1. agent' # NoAgent => agent'.uid = uids'
  <2>1. agent # NoAgent => agent.uid = uids
    BY DEF FirstSound
  <2>2. CASE Stays
    BY <2>1, <2>2, Zenon DEF Stays
  <2>3. CASE Fresh
    BY <2>3, Zenon DEF Fresh
  <2>4. CASE Rewritten
    BY <2>1, <2>4, Zenon DEF Rewritten
  <2> QED
    BY <2>2, <2>3, <2>4, AgentSteps DEF Goes
<1> SUFFICES ASSUME First'
             PROVE  (/\ \A a \in {seen, mine} : a # NoAgent => a.uid = 1 /\ ~a.deleting
                     /\ agent = NoAgent => seen = NoAgent /\ mine = NoAgent
                     /\ \A r \in Resource : res[r] \in {0, 1} /\ (agent = NoAgent => res[r] = 0)
                     /\ \A r \in Access : r \in view => res[r] # 0
                     /\ pc = "ensure" => \A r \in Access :
                                           res[r] # 0 \/ \E i \in DOMAIN todo : todo[i] = r
                     /\ agent # NoAgent /\ agent.phase = "Ready"
                          => \A r \in Access : res[r] # 0)'
  BY <1>1 DEF FirstSound
<1>2. First /\ ~Goes
  BY FirstBefore
<1>3. agent' = NoAgent => agent = NoAgent
  BY <1>2, AgentSteps DEF Stays, Fresh, Rewritten
<1>4. \A a \in {seen', mine'} : a # NoAgent => a.uid = 1 /\ ~a.deleting
  BY <1>2, CopiesMove DEF First, FirstSound
<1>5. agent' = NoAgent => seen' = NoAgent /\ mine' = NoAgent
  BY <1>2, <1>3, CopiesMove DEF FirstSound
<1>6. \A r \in Resource : res'[r] \in {0, 1} /\ (agent' = NoAgent => res'[r] = 0)
  BY <1>2, <1>3, ResourcesMove DEF FirstSound
<1>7. \A r \in Access : r \in view' => res'[r] # 0
  BY <1>2, ResourcesMove DEF FirstSound
<1>8. ASSUME pc' = "ensure", NEW r \in Access
      PROVE  res'[r] # 0 \/ \E i \in DOMAIN todo' : todo'[i] = r
  <2>1. CASE todo' = Resources
    BY <2>1 DEF Access, Resource
  <2>2. CASE pc = "ensure" /\ todo' = todo
    BY <1>2, <2>2, ResourcesMove DEF FirstSound
  <2>3. CASE /\ pc = "ensure" /\ todo # <<>> /\ todo' = Tail(todo)
             /\ Head(todo) \in Access => res'[Head(todo)] # 0
    <3>1. CASE res[r] # 0
      BY <1>2, <3>1, ResourcesMove
    <3>2. CASE \E i \in DOMAIN todo : todo[i] = r
      <4>1. r = Head(todo) \/ \E i \in DOMAIN Tail(todo) : Tail(todo)[i] = r
        BY <2>3, <3>2, TailTyped DEF IInv, RestTyped
      <4> QED
        BY <1>8, <2>3, <4>1
    <3> QED
      BY <1>2, <2>3, <3>1, <3>2 DEF FirstSound
  <2> QED
    BY <1>2, <1>8, <2>1, <2>2, <2>3, CopiesMove
<1>9. ASSUME agent' # NoAgent, agent'.phase = "Ready", NEW r \in Access
      PROVE  res'[r] # 0
  <2>1. CASE agent # NoAgent /\ agent.phase = "Ready"
    BY <1>2, <2>1, ResourcesMove DEF FirstSound
  <2>2. CASE pc = "ensure" /\ todo = <<>>
    <3>1. res[r] # 0
      BY <1>2, <2>2 DEF FirstSound
    <3> QED
      BY <1>2, <3>1, ResourcesMove
  <2> QED
    BY <1>2, <1>9, <2>1, <2>2, AgentSteps DEF Stays, Fresh, Rewritten
<1> QED
  BY <1>4, <1>5, <1>6, <1>7, <1>8, <1>9

\* The first Agent of its name that is Ready has its Role and its RoleBinding,
\* whatever fails and however far the caches are behind.
THEOREM ReadyHasRoles == Spec => []ReadyHasAccess
<1>1. Init => FirstSound
  BY DEF Init, FirstSound, First, Access
<1>2. IInv /\ FirstSound /\ [Next]_vars => FirstSound'
  <2> SUFFICES ASSUME IInv, FirstSound, [Next]_vars
               PROVE  FirstSound'
    OBVIOUS
  <2>1. CASE UNCHANGED vars
    BY <2>1 DEF FirstSound, First, vars, cluster, pass, resources
  <2> QED
    BY <2>1, FirstKept
<1>3. IInv /\ FirstSound => ReadyHasAccess
  BY DEF FirstSound, First, Access, ReadyHasAccess, Live
<1> QED
  BY <1>1, <1>2, <1>3, InitTyped, InvariantKept, PTL DEF Spec
=============================================================================
