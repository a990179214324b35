------------------------- MODULE Admission_proofs -------------------------
(***************************************************************************)
(* Proofs about Admission, for any Workflows, however many steps they      *)
(* have: detectCycles is exact, what is stored is sound, and nothing but a *)
(* missing Agent makes the webhook refuse an update of the reconciler.     *)
(* The invariant says that the in-degrees count the dependencies not yet   *)
(* visited, and that no step of a knot is ever visited.                    *)
(***************************************************************************)
EXTENDS Admission, TLAPS, FiniteSetTheorems, FunctionTheorems

\* The names of a well-formed Workflow stand for its steps, one for one.
LEMMA NamesAreSteps ==
  ASSUME NEW w \in Workflow, WellFormed(w)
  PROVE  /\ IsFiniteSet(StepNames(w))
         /\ Cardinality(StepNames(w)) = Len(w.steps)
         /\ \A n \in StepNames(w) : StepOf(w, n) \in Index(w) /\ w.steps[StepOf(w, n)].name = n
<1> DEFINE f == [i \in Index(w) |-> w.steps[i].name]
<1>1. Len(w.steps) \in Nat /\ Index(w) = 1 .. Len(w.steps)
  BY DEF Workflow, Index
<1>2. f \in Bijection(Index(w), StepNames(w))
  <2>1. f \in [Index(w) -> StepNames(w)]
    BY DEF StepNames
  <2>2. \A i, j \in Index(w) : f[i] = f[j] => i = j
    BY DEF WellFormed, Named
  <2>3. \A n \in StepNames(w) : \E i \in Index(w) : f[i] = n
    BY DEF StepNames
  <2> QED BY <2>1, <2>2, <2>3 DEF Bijection, Injection, Surjection, IsInjective
<1>3. IsFiniteSet(Index(w)) /\ Cardinality(Index(w)) = Len(w.steps)
  BY <1>1, FS_Interval, SMT
<1>4. ExistsBijection(Index(w), StepNames(w))
  BY <1>2 DEF ExistsBijection
<1>5. IsFiniteSet(StepNames(w)) /\ Cardinality(StepNames(w)) = Len(w.steps)
  BY <1>3, <1>4, FS_Bijection
<1>6. ASSUME NEW n \in StepNames(w)
      PROVE  StepOf(w, n) \in Index(w) /\ w.steps[StepOf(w, n)].name = n
  <2>1. \E i \in Index(w) : w.steps[i].name = n
    BY <1>6 DEF StepNames
  <2> QED BY <2>1 DEF StepOf
<1> QED BY <1>5, <1>6

\* The dependencies of a step are steps, listed at finitely many positions.
LEMMA MentionsFinite ==
  ASSUME NEW w \in Workflow, WellFormed(w), NEW n \in StepNames(w), NEW S
  PROVE  /\ w.steps[StepOf(w, n)].dependsOn \in Seq(Name)
         /\ Dependencies(w, n) \subseteq StepNames(w)
         /\ IsFiniteSet(Mentions(w, n, S)) /\ Cardinality(Mentions(w, n, S)) \in Nat
<1> DEFINE s == StepOf(w, n)
           d == w.steps[s].dependsOn
<1>1. s \in Index(w)
  BY NamesAreSteps
<1>2. d \in Seq(Name)
  <2>1. w.steps \in Seq(Step)
    BY DEF Workflow
  <2>2. w.steps[s] \in Step
    BY <1>1, <2>1 DEF Index
  <2> QED BY <2>2 DEF Step
<1>3. Dependencies(w, n) \subseteq StepNames(w)
  BY <1>1 DEF Dependencies, WellFormed, Referring
<1>4. IsFiniteSet(DOMAIN d)
  <2>1. DOMAIN d = 1 .. Len(d) /\ Len(d) \in Nat
    BY <1>2
  <2> QED BY <2>1, FS_Interval, SMT
<1>5. Mentions(w, n, S) \in SUBSET DOMAIN d
  BY DEF Mentions
<1>6. IsFiniteSet(Mentions(w, n, S))
  BY <1>4, <1>5, FS_Subset
<1> QED BY <1>2, <1>3, <1>6, FS_CardinalityType

\* At the start every position is counted.
LEMMA MentionsAll ==
  ASSUME NEW w \in Workflow, WellFormed(w), NEW n \in StepNames(w)
  PROVE  Cardinality(Mentions(w, n, StepNames(w))) = Len(w.steps[StepOf(w, n)].dependsOn)
<1> DEFINE d == w.steps[StepOf(w, n)].dependsOn
<1>1. d \in Seq(Name) /\ Dependencies(w, n) \subseteq StepNames(w)
  BY MentionsFinite
<1>2. DOMAIN d = 1 .. Len(d) /\ Len(d) \in Nat
  BY <1>1
<1>3. \A k \in DOMAIN d : d[k] \in StepNames(w)
  BY <1>1 DEF Dependencies, DependsOn
<1>4. Mentions(w, n, StepNames(w)) = 1 .. Len(d)
  BY <1>2, <1>3 DEF Mentions
<1>5. Cardinality(1 .. Len(d)) = Len(d)
  BY <1>2, FS_Interval, SMT
<1> QED BY <1>4, <1>5

\* A visit takes the positions that name the visited step off the count.
LEMMA MentionsLess ==
  ASSUME NEW w \in Workflow, WellFormed(w), NEW n \in StepNames(w),
         NEW S, NEW v \in S
  PROVE  Cardinality(Mentions(w, n, S \ {v}))
           = Cardinality(Mentions(w, n, S)) - Cardinality(Mentions(w, n, {v}))
<1>1. IsFiniteSet(Mentions(w, n, S))
  BY MentionsFinite
<1>2. Mentions(w, n, S \ {v}) = Mentions(w, n, S) \ Mentions(w, n, {v})
  BY DEF Mentions
<1>3. Mentions(w, n, S) \cap Mentions(w, n, {v}) = Mentions(w, n, {v})
  BY DEF Mentions
<1> QED BY <1>1, <1>2, <1>3, FS_Difference, SMTT(20)

\* Nothing is counted exactly when no dependency is in the set.
LEMMA MentionsNone ==
  ASSUME NEW w \in Workflow, WellFormed(w), NEW n \in StepNames(w), NEW S
  PROVE  Cardinality(Mentions(w, n, S)) = 0 <=> Dependencies(w, n) \cap S = {}
<1>1. Cardinality(Mentions(w, n, S)) = 0 <=> Mentions(w, n, S) = {}
  BY MentionsFinite, FS_EmptySet
<1>2. Mentions(w, n, S) = {} <=> Dependencies(w, n) \cap S = {}
  BY DEF Mentions, Dependencies, DependsOn
<1> QED BY <1>1, <1>2

-----------------------------------------------------------------------------
(* The inductive invariant.                                                *)

Counted ==
  \A n \in StepNames(wf) : inDegree[n] = Cardinality(Mentions(wf, n, StepNames(wf) \ done))

NoKnotVisited == \A C \in SUBSET StepNames(wf) : Knot(wf, C) => C \cap done = {}

Sorting ==
  pc = "sorting" =>
    /\ WellFormed(wf)
    /\ Counted
    /\ queue = {n \in StepNames(wf) \ done : inDegree[n] = 0}
    /\ \A n \in done : inDegree[n] = 0
    /\ visited = Cardinality(done)
    /\ NoKnotVisited

Sound(w) == WellFormed(w) /\ Acyclic(w) /\ (Outlasts(w) \/ Configured(w))

AdmissionInv ==
  /\ TypeOK
  /\ pc # "idle" => request \in Writes
  /\ Sorting
  /\ pc \in {"agents", "rules"} => WellFormed(wf) /\ Acyclic(wf)
  /\ object # "absent" => Sound(wf)

\* detectCycles has visited every step if and only if there is no knot: the
\* steps it left are one, and none of a knot is visited.
LEMMA SortExact ==
  ASSUME AdmissionInv, pc = "sorting", queue = {}
  PROVE  visited = Len(wf.steps) <=> Acyclic(wf)
<1> DEFINE S == StepNames(wf)
<1>1. wf \in Workflow /\ WellFormed(wf) /\ Sorting
  BY AdmissionAssumption DEF AdmissionInv, TypeOK, Sorting
<1>2. IsFiniteSet(S) /\ Cardinality(S) = Len(wf.steps) /\ done \in SUBSET S
  BY <1>1, NamesAreSteps DEF AdmissionInv, TypeOK
<1>3. ASSUME visited = Len(wf.steps) PROVE Acyclic(wf)
  <2>1. Cardinality(done) = Cardinality(S)
    BY <1>1, <1>2, <1>3 DEF Sorting
  <2>2. done = S
    BY <1>2, <2>1, FS_Subset
  <2> QED BY <1>1, <2>2 DEF Sorting, NoKnotVisited, Acyclic, Knot
<1>4. ASSUME visited # Len(wf.steps) PROVE ~Acyclic(wf)
  <2>1. done # S
    BY <1>1, <1>2, <1>4 DEF Sorting
  <2>2. S \ done # {}
    BY <1>2, <2>1
  <2>3. ASSUME NEW n \in S \ done
        PROVE  Dependencies(wf, n) \cap (S \ done) # {}
    <3>1. inDegree[n] # 0
      BY <1>1 DEF Sorting
    <3>2. Cardinality(Mentions(wf, n, S \ done)) # 0
      BY <1>1, <3>1 DEF Sorting, Counted
    <3> QED BY <1>1, <3>2, MentionsNone
  <2>4. Knot(wf, S \ done)
    BY <2>2, <2>3 DEF Knot
  <2> QED BY <2>4 DEF Acyclic
<1> QED BY <1>3, <1>4

\* The Workflow a call is about does not change, nor what is said of it.
LEMMA SameNames ==
  ASSUME wf' = wf
  PROVE  StepNames(wf)' = StepNames(wf) /\ Index(wf)' = Index(wf)
BY DEF StepNames, Index

LEMMA SameShape ==
  ASSUME wf' = wf
  PROVE  WellFormed(wf)' <=> WellFormed(wf)
<1>1. Sized(wf)' <=> Sized(wf)
  BY DEF Sized
<1>2. Named(wf)' <=> Named(wf)
  BY DEF Named, Index
<1>3. Referring(wf)' <=> Referring(wf)
  <2>1. ASSUME NEW i PROVE DependsOn(wf, i)' = DependsOn(wf, i)
    BY DEF DependsOn
  <2> QED BY <2>1, SameNames DEF Referring
<1> QED BY <1>1, <1>2, <1>3 DEF WellFormed

LEMMA SameCount ==
  ASSUME wf' = wf, NEW n
  PROVE  Cardinality(Mentions(wf, n, StepNames(wf) \ done))'
           = Cardinality(Mentions(wf, n, StepNames(wf) \ done'))
BY DEF Mentions, StepOf, StepNames, Index

LEMMA SameKnots ==
  ASSUME wf' = wf, NEW C
  PROVE  Knot(wf, C)' <=> Knot(wf, C)
BY DEF Knot, Dependencies, DependsOn, StepNames, StepOf, Index

LEMMA SameSound ==
  ASSUME wf' = wf
  PROVE  /\ Sound(wf)' <=> Sound(wf)
         /\ Acyclic(wf)' <=> Acyclic(wf)
<1>1. Acyclic(wf)' <=> Acyclic(wf)
  BY SameNames, SameKnots DEF Acyclic
<1>2. Outlasts(wf)' <=> Outlasts(wf)
  BY DEF Outlasts, Index
<1>3. Configured(wf)' <=> Configured(wf)
  BY SameNames DEF Configured
<1> QED BY <1>1, <1>2, <1>3, SameShape DEF Sound

\* A visit keeps the counts, and visits no step of a knot: all the dependencies
\* of the visited step were visited before it.
LEMMA VisitSorts ==
  ASSUME AdmissionInv, NEW v \in StepNames(wf), Visit(v)
  PROVE  Sorting' /\ TypeOK'
<1> DEFINE S == StepNames(wf)
           Left(n) == Cardinality(Mentions(wf, n, S \ done))
           Off(n) == Cardinality(Mentions(wf, n, {v}))
<1>1. wf \in Workflow /\ WellFormed(wf) /\ Sorting /\ pc = "sorting" /\ v \in queue
  BY AdmissionAssumption DEF AdmissionInv, TypeOK, Sorting, Visit
<1>2. v \in S \ done /\ inDegree[v] = 0
  BY <1>1 DEF Sorting
<1>3. IsFiniteSet(S) /\ done \in SUBSET S
  BY <1>1, NamesAreSteps DEF AdmissionInv, TypeOK
<1>4. ASSUME NEW n \in S
      PROVE  /\ inDegree[n] = Left(n)
             /\ Left(n) \in Nat /\ Off(n) \in Nat
             /\ Cardinality(Mentions(wf, n, (S \ done) \ {v})) = Left(n) - Off(n)
             /\ Cardinality(Mentions(wf, n, (S \ done) \ {v})) \in Nat
  <2>1. inDegree[n] = Left(n)
    BY <1>1 DEF Sorting, Counted
  <2>2. Left(n) \in Nat /\ Off(n) \in Nat
    BY <1>1, MentionsFinite
  <2>3. Cardinality(Mentions(wf, n, (S \ done) \ {v})) = Left(n) - Off(n)
    BY <1>1, <1>2, MentionsLess
  <2>4. Cardinality(Mentions(wf, n, (S \ done) \ {v})) \in Nat
    BY <1>1, MentionsFinite
  <2> QED BY <2>1, <2>2, <2>3, <2>4
<1>5. S' = S /\ done' = done \cup {v} /\ (S \ done) \ {v} = S \ done'
  BY DEF Visit, StepNames, Index
<1>6. /\ inDegree' = [m \in S |-> inDegree[m] - Off(m)]
      /\ queue' = (queue \ {v}) \cup {m \in S : inDegree[m] > 0 /\ inDegree'[m] = 0}
      /\ visited' = visited + 1 /\ wf' = wf /\ pc' = "sorting"
  BY DEF Visit
<1>7. \A n \in S : inDegree'[n] = Left(n) - Off(n) /\ inDegree'[n] \in Nat
  BY <1>4, <1>6
<1>8. Counted'
  <2>1. \A n \in S : inDegree'[n] = Cardinality(Mentions(wf, n, S \ done'))
    BY <1>4, <1>5, <1>7
  <2>2. ASSUME NEW n \in S
        PROVE  inDegree'[n] = Cardinality(Mentions(wf, n, StepNames(wf) \ done))'
    <3>1. Cardinality(Mentions(wf, n, StepNames(wf) \ done))' = Cardinality(Mentions(wf, n, S \ done'))
      BY <1>6, SameCount
    <3> QED BY <2>1, <3>1
  <2> QED BY <1>6, <2>2, SameNames DEF Counted
<1>9. \A n \in done' : inDegree'[n] = 0
  <2>1. \A n \in done \cup {v} : n \in S /\ inDegree[n] = 0
    BY <1>1, <1>2, <1>3 DEF Sorting
  <2>2. ASSUME NEW n \in done \cup {v} PROVE inDegree'[n] = 0
    <3>1. n \in S /\ Left(n) = 0 /\ Off(n) \in Nat /\ Left(n) - Off(n) \in Nat
      BY <1>4, <2>1
    <3>2. Left(n) - Off(n) = 0
      BY <3>1
    <3> QED BY <1>7, <3>1, <3>2
  <2> QED BY <1>5, <2>2
<1>10. queue' = {n \in S \ done' : inDegree'[n] = 0}
  <2>1. ASSUME NEW n \in queue \ {v} PROVE n \in S \ done' /\ inDegree'[n] = 0
    <3>1. n \in S \ done /\ inDegree[n] = 0 /\ n # v
      BY <1>1 DEF Sorting
    <3>2. Left(n) = 0 /\ Off(n) \in Nat /\ Left(n) - Off(n) \in Nat
      BY <1>4, <3>1
    <3> QED BY <1>5, <1>7, <3>1, <3>2
  <2>2. ASSUME NEW n \in S, inDegree[n] > 0, inDegree'[n] = 0 PROVE n \in S \ done'
    BY <1>1, <1>2, <1>5, <2>2 DEF Sorting
  <2>3. ASSUME NEW n \in S \ done', inDegree'[n] = 0 PROVE n \in queue'
    <3>1. n \in S \ done /\ n # v /\ inDegree[n] \in Nat
      BY <1>4, <1>5
    <3>2. CASE inDegree[n] = 0
      BY <1>1, <1>6, <3>1, <3>2 DEF Sorting
    <3>3. CASE inDegree[n] > 0
      BY <1>6, <2>3, <3>1, <3>3
    <3> QED BY <3>1, <3>2, <3>3
  <2> QED BY <1>6, <2>1, <2>2, <2>3
<1>11. visited' = Cardinality(done')
  <2>1. IsFiniteSet(done)
    BY <1>3, FS_Subset
  <2>2. Cardinality(done \cup {v}) = Cardinality(done) + 1
    BY <1>2, <2>1, FS_AddElement
  <2> QED BY <1>1, <1>5, <1>6, <2>2 DEF Sorting
<1>12. NoKnotVisited'
  <2>1. ASSUME NEW C \in SUBSET S, Knot(wf, C) PROVE C \cap done' = {}
    <3>1. C \cap done = {}
      BY <1>1, <2>1 DEF Sorting, NoKnotVisited
    <3>2. Dependencies(wf, v) \cap (S \ done) = {}
      BY <1>1, <1>2, <1>4, MentionsNone
    <3>3. v \notin C
      BY <2>1, <3>1, <3>2 DEF Knot
    <3> QED BY <1>5, <3>1, <3>3
  <2> QED BY <1>6, <2>1, SameNames, SameKnots DEF NoKnotVisited
<1>13. TypeOK'
  <2>1. inDegree' \in [S -> Nat]
    <3>1. ASSUME NEW m \in S PROVE inDegree[m] - Off(m) \in Nat
      <4>1. inDegree[m] - Off(m) = Cardinality(Mentions(wf, m, (S \ done) \ {v}))
        BY <1>4
      <4> QED BY <1>4, <4>1
    <3> QED BY <1>6, <3>1
  <2>2. queue' \subseteq S /\ done' \subseteq S /\ visited' \in Nat
    BY <1>2, <1>3, <1>6, <1>5, <1>10 DEF AdmissionInv, TypeOK
  <2> QED BY <1>5, <2>1, <2>2 DEF AdmissionInv, TypeOK, Visit
<1> QED BY <1>1, <1>6, <1>8, <1>9, <1>10, <1>11, <1>12, <1>13, SameNames, SameShape DEF Sorting

-----------------------------------------------------------------------------
(* Every step keeps the invariant.                                         *)

\* The type of what neither the sort nor an answer touches.
LEMMA SameType ==
  ASSUME AdmissionInv, UNCHANGED <<wf, sorting>>
  PROVE  /\ inDegree' \in [StepNames(wf) -> Nat]'
         /\ (queue \subseteq StepNames(wf) /\ done \subseteq StepNames(wf))'
         /\ visited' \in Nat
BY SameNames DEF AdmissionInv, TypeOK, sorting

\* An answer that denies changes nothing that is stored; one that allows may
\* store a sound Workflow.
LEMMA AnswerKeeps ==
  ASSUME AdmissionInv, NEW v \in {"denied", "warned", "allowed"}, Answer(v),
         pc # "idle", v # "denied" => Sound(wf),
         UNCHANGED <<wf, agents, sorting>>,
         faults' \in 0 .. MaxFaults, edits' \in 0 .. MaxEdits
  PROVE  AdmissionInv'
<1>1. request \in Writes /\ request' = "none" /\ pc' = "idle" /\ verdict' = v /\ wf' = wf
  BY DEF AdmissionInv, Answer
<1>2. object' \in Life
  BY <1>1 DEF AdmissionInv, TypeOK, Answer, Life, Writes, To
<1>3. TypeOK'
  BY <1>1, <1>2, SameType DEF AdmissionInv, TypeOK
<1>4. object' # "absent" => Sound(wf)'
  <2>1. object' # "absent" => object # "absent" \/ v # "denied"
    BY DEF Answer
  <2> QED BY <1>1, <2>1, SameSound DEF AdmissionInv
<1> QED BY <1>1, <1>3, <1>4 DEF AdmissionInv, Sorting

\* The sort starts with all dependencies counted and no step visited.
LEMMA ShapeSorts ==
  ASSUME AdmissionInv, CheckShape
  PROVE  AdmissionInv'
<1> DEFINE S == StepNames(wf)
<1>1. wf \in Workflow /\ wf' = wf /\ pc = "shape" /\ request \in Writes
  BY AdmissionAssumption DEF AdmissionInv, TypeOK, CheckShape
<1>2. S' = S
  BY <1>1, SameNames
<1>3. CASE WellFormed(wf)
  <2>1. /\ inDegree' = [n \in S |-> Len(wf.steps[StepOf(wf, n)].dependsOn)]
        /\ queue' = {n \in S : inDegree'[n] = 0}
        /\ visited' = 0 /\ done' = {} /\ pc' = "sorting"
        /\ UNCHANGED <<object, request, verdict, agents, faults, edits>>
    BY <1>3 DEF CheckShape
  <2>2. ASSUME NEW n \in S
        PROVE  inDegree'[n] = Cardinality(Mentions(wf, n, S \ done')) /\ inDegree'[n] \in Nat
    <3>1. inDegree'[n] = Cardinality(Mentions(wf, n, S))
      BY <1>1, <1>3, <2>1, MentionsAll
    <3>2. S \ done' = S
      BY <2>1
    <3>3. Cardinality(Mentions(wf, n, S)) \in Nat
      BY <1>1, <1>3, MentionsFinite
    <3> QED BY <3>1, <3>2, <3>3
  <2>3. Counted'
    <3>1. ASSUME NEW n \in S
          PROVE  inDegree'[n] = Cardinality(Mentions(wf, n, StepNames(wf) \ done))'
      <4>1. Cardinality(Mentions(wf, n, StepNames(wf) \ done))' = Cardinality(Mentions(wf, n, S \ done'))
        BY <1>1, SameCount
      <4> QED BY <2>2, <4>1
    <3> QED BY <1>2, <3>1 DEF Counted
  <2>4. NoKnotVisited'
    BY <2>1 DEF NoKnotVisited
  <2>5. Sorting'
    <3>1. queue' = {n \in S \ done' : inDegree'[n] = 0}
      BY <2>1
    <3>2. visited' = Cardinality(done')
      BY <2>1, FS_EmptySet
    <3> QED BY <1>1, <1>2, <1>3, <2>1, <2>3, <2>4, <3>1, <3>2, SameShape DEF Sorting
  <2>6. TypeOK'
    <3>1. inDegree' \in [S -> Nat]
      BY <2>1, <2>2
    <3> QED BY <1>1, <1>2, <2>1, <3>1 DEF AdmissionInv, TypeOK
  <2> QED BY <1>1, <2>1, <2>5, <2>6, SameSound DEF AdmissionInv
<1>4. CASE ~WellFormed(wf)
  <2>1. Answer("denied") /\ UNCHANGED <<sorting, wf, agents, faults, edits>>
    BY <1>4 DEF CheckShape
  <2> QED BY <1>1, <2>1, AnswerKeeps DEF AdmissionInv, TypeOK
<1> QED BY <1>3, <1>4

\* What leaves the call, the Workflow and the object alone.
LEMMA OthersKeep ==
  ASSUME AdmissionInv, UNCHANGED <<wf, object, request, pc, sorting, verdict>>,
         agents' \subseteq Agents, faults' \in 0 .. MaxFaults, edits' \in 0 .. MaxEdits
  PROVE  AdmissionInv'
<1>1. TypeOK'
  BY SameType DEF AdmissionInv, TypeOK
<1>2. Counted' <=> Counted
  <2>1. done' = done /\ inDegree' = inDegree
    BY DEF sorting
  <2>2. ASSUME NEW n
        PROVE  Cardinality(Mentions(wf, n, StepNames(wf) \ done))'
                 = Cardinality(Mentions(wf, n, StepNames(wf) \ done))
    BY <2>1, SameCount
  <2> QED BY <2>1, <2>2, SameNames DEF Counted
<1>3. NoKnotVisited' <=> NoKnotVisited
  BY SameNames, SameKnots DEF NoKnotVisited, sorting
<1>4. Sorting'
  BY <1>2, <1>3, SameNames, SameShape DEF AdmissionInv, Sorting, sorting
<1> QED BY <1>1, <1>4, SameShape, SameSound DEF AdmissionInv

\* The steps of the call after the sort.
LEMMA CallKeeps ==
  ASSUME AdmissionInv, EndSort \/ CheckAgents \/ CheckRules
  PROVE  AdmissionInv'
<1>1. /\ wf' = wf /\ agents' = agents /\ UNCHANGED sorting /\ edits' \in 0 .. MaxEdits
      /\ agents' \subseteq Agents /\ wf \in Requests
  BY DEF AdmissionInv, TypeOK, EndSort, CheckAgents, CheckRules
<1>2. faults' \in 0 .. MaxFaults
  BY AdmissionAssumption DEF AdmissionInv, TypeOK, EndSort, CheckAgents, CheckRules, Fault, NoFault
<1>3. CASE pc \in {"sorting", "agents"} /\ Answer("denied")
  BY <1>1, <1>2, <1>3, AnswerKeeps
<1>4. CASE /\ pc = "sorting" /\ queue = {} /\ visited = Len(wf.steps)
           /\ pc' = "agents" /\ UNCHANGED <<object, request, verdict>>
  <2>1. WellFormed(wf) /\ Acyclic(wf)
    BY <1>4, SortExact DEF AdmissionInv, Sorting
  <2>2. TypeOK'
    BY <1>1, <1>2, <1>4, SameType DEF AdmissionInv, TypeOK
  <2> QED BY <1>1, <1>4, <2>1, <2>2, SameShape, SameSound DEF AdmissionInv, Sorting
<1>5. CASE pc = "agents" /\ pc' = "rules" /\ UNCHANGED <<object, request, verdict>>
  <2>1. TypeOK'
    BY <1>1, <1>2, <1>5, SameType DEF AdmissionInv, TypeOK
  <2> QED BY <1>1, <1>5, <2>1, SameShape, SameSound DEF AdmissionInv, Sorting
<1>6. CASE CheckRules
  <2>1. PICK v \in {"denied", "warned", "allowed"} :
          Answer(v) /\ (v # "denied" => Outlasts(wf) \/ Configured(wf))
    BY <1>6 DEF CheckRules
  <2>2. pc = "rules" /\ WellFormed(wf) /\ Acyclic(wf)
    BY <1>6 DEF CheckRules, AdmissionInv
  <2> QED BY <1>1, <1>2, <2>1, <2>2, AnswerKeeps DEF Sound
<1> QED BY <1>3, <1>4, <1>5, <1>6 DEF EndSort, CheckAgents

LEMMA InitInv ==
  ASSUME Init PROVE AdmissionInv
<1>1. inDegree \in [StepNames(wf) -> Nat]
  BY DEF Init
<1> QED BY <1>1, AdmissionAssumption DEF Init, AdmissionInv, TypeOK, Sorting, Life

LEMMA StepInv ==
  ASSUME AdmissionInv, [Next]_vars PROVE AdmissionInv'
<1>1. CASE \E kind \in Writes : Handle(kind)
  <2>1. PICK kind \in Writes : Handle(kind)
    BY <1>1
  <2>2. /\ UNCHANGED <<wf, object, agents, sorting, verdict, faults, edits>>
        /\ pc' = "shape" /\ request' \in Writes /\ wf' = wf
    BY <2>1 DEF Handle
  <2>3. TypeOK'
    BY <2>2, SameType DEF AdmissionInv, TypeOK
  <2> QED BY <2>2, <2>3, SameSound DEF AdmissionInv, Sorting
<1>2. CASE CheckShape
  BY <1>2, ShapeSorts
<1>3. CASE \E n \in StepNames(wf) : Visit(n)
  <2>1. PICK n \in StepNames(wf) : Visit(n)
    BY <1>3
  <2>2. Sorting' /\ TypeOK'
    BY <2>1, VisitSorts
  <2>3. UNCHANGED <<wf, object, pc, request>> /\ wf' = wf /\ pc = "sorting"
    BY <2>1 DEF Visit
  <2> QED BY <2>2, <2>3, SameSound DEF AdmissionInv
<1>4. CASE EndSort \/ CheckAgents \/ CheckRules
  BY <1>4, CallKeeps
<1>5. CASE Delete
  <2>1. object # "absent" /\ object' \in Life /\ wf' = wf
        /\ UNCHANGED <<wf, agents, request, pc, sorting, verdict, faults, edits>>
    BY <1>5 DEF Delete, Life
  <2>2. TypeOK'
    BY <2>1, SameType DEF AdmissionInv, TypeOK
  <2>3. Counted' <=> Counted
    <3>1. done' = done /\ inDegree' = inDegree
      BY <2>1 DEF sorting
    <3>2. ASSUME NEW n
          PROVE  Cardinality(Mentions(wf, n, StepNames(wf) \ done))'
                   = Cardinality(Mentions(wf, n, StepNames(wf) \ done))
      BY <2>1, <3>1, SameCount
    <3> QED BY <2>1, <3>1, <3>2, SameNames DEF Counted
  <2>4. Sorting'
    BY <2>1, <2>3, SameNames, SameKnots, SameShape
       DEF AdmissionInv, Sorting, NoKnotVisited, sorting
  <2> QED BY <2>1, <2>2, <2>4, SameShape, SameSound DEF AdmissionInv
<1>6. CASE \E a \in Agents : AgentDeleted(a) \/ AgentCreated(a)
  BY <1>6, OthersKeep, AdmissionAssumption
     DEF AgentDeleted, AgentCreated, Fault, AdmissionInv, TypeOK
<1>7. CASE UNCHANGED vars
  BY <1>7, OthersKeep DEF vars, AdmissionInv, TypeOK
<1> QED BY <1>1, <1>2, <1>3, <1>4, <1>5, <1>6, <1>7 DEF Next, Call

THEOREM InvHolds == Spec => []AdmissionInv
BY InitInv, StepInv, PTL DEF Spec

\* The variables keep their types.
THEOREM TypeCorrect == Spec => []TypeOK
<1>1. AdmissionInv => TypeOK
  BY DEF AdmissionInv
<1> QED BY <1>1, InvHolds, PTL

\* detectCycles finds a cycle exactly when there is one, for every graph of steps.
THEOREM CyclesExact == Spec => []DetectCyclesExact
<1>1. AdmissionInv => DetectCyclesExact
  BY SortExact DEF DetectCyclesExact
<1> QED BY <1>1, InvHolds, PTL

\* What is stored passed the rules: it can all be executed in some order.
THEOREM StoredSound == Spec => []StoredIsSound
<1>1. AdmissionInv => StoredIsSound
  BY DEF AdmissionInv, Sound, StoredIsSound
<1> QED BY <1>1, InvHolds, PTL

\* Nothing but a missing Agent makes the webhook refuse an update of the
\* reconciler: what it once stored passes all the other rules again.
THEOREM OnlyAgents == Spec => OnlyMissingAgentsBlock
<1>1. ASSUME AdmissionInv, [Next]_vars, object # "absent", pc # "idle", pc' = "idle",
             verdict' = "denied", AgentsOf(wf) \subseteq agents
      PROVE  FALSE
  <2>1. Sound(wf)
    BY <1>1 DEF AdmissionInv
  <2>2. CASE CheckShape
    BY <1>1, <2>1, <2>2 DEF CheckShape, Sound
  <2>3. CASE EndSort
    BY <1>1, <2>1, <2>3, SortExact DEF EndSort, Sound
  <2>4. CASE CheckAgents
    BY <1>1, <2>4 DEF CheckAgents
  <2>5. CASE CheckRules
    BY <1>1, <2>1, <2>5 DEF CheckRules, Answer, Sound
  <2>6. CASE \E n \in StepNames(wf) : Visit(n)
    BY <1>1, <2>6 DEF Visit
  <2>7. CASE \E kind \in Writes : Handle(kind)
    BY <1>1, <2>7 DEF Handle
  <2>8. CASE Delete \/ (\E a \in Agents : AgentDeleted(a) \/ AgentCreated(a)) \/ UNCHANGED vars
    BY <1>1, <2>8 DEF Delete, AgentDeleted, AgentCreated, vars
  <2> QED BY <1>1, <2>2, <2>3, <2>4, <2>5, <2>6, <2>7, <2>8 DEF Next, Call
<1>2. AdmissionInv /\ [Next]_vars =>
        [object # "absent" /\ pc # "idle" /\ pc' = "idle" /\ verdict' = "denied"
           => ~(AgentsOf(wf) \subseteq agents)]_vars
  BY <1>1
<1> QED BY <1>2, InvHolds, PTL DEF Spec, OnlyMissingAgentsBlock
=============================================================================
