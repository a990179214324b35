---------------------------- MODULE MemoryStore ----------------------------
(***************************************************************************)
(* What agents remember: the operator's built-in store, and the reconciler *)
(* as its client.  A step of a persistent agent imports the agent's legacy *)
(* memory once, recalls what its scope holds and logs what it was given; a *)
(* step that completes leaves one memory, and the oldest of its scope go.  *)
(* All of it is advisory: no failure of the store stops a step.            *)
(***************************************************************************)
EXTENDS Integers, Sequences, FiniteSets, FiniteSetsExt, SequencesExt

CONSTANTS
  Agent,        \* the persistent agents
  AgentSpec,    \* their namespace, memory scope and component label
  Legacy,       \* the agents with a legacy memory to import
  Seen,         \* the agents that have been through their import
  Step,         \* the steps that use them, each of some run
  AgentOf,      \* the agent of a step
  Fraction,     \* the fractions of a second a clock may show, as digits, in order of time
  MaxEntries,   \* retention.maxEntriesPerScope of an agent's provider; 0 if it sets none
  DefaultEntries,   \* what is used when none is known (500)
  Budget,       \* what a step may be given, in the units of Sizes
  Sizes,        \* lengths of memories
  MaxIds,       \* bound on memories ever stored
  MaxSeconds,   \* bound on time
  MaxFaults     \* bound on failures of the store and of the API server

NoLabel == ""
Scope == {"agent", "group", "namespace"}

\* At the first digit in which they differ, that of f is the smaller.
Below(f, g) ==
  \E i \in DOMAIN f \cap DOMAIN g : f[i] < g[i] /\ \A j \in 1 .. i - 1 : f[j] = g[j]

Prolongs(f, g) == f # g /\ IsPrefix(g, f)

\* Fractions of a second, as digits after the dot, in order of time.
Sooner(f, g) == Prolongs(g, f) \/ Below(f, g)

ASSUME MemoryAssumption ==
  /\ \A a \in Agent : AgentSpec[a].scope \in Scope
  /\ Legacy \subseteq Agent /\ Seen \subseteq Agent /\ AgentOf \in [Step -> Agent]
  /\ Fraction \in Seq(Seq(0 .. 9))
  /\ \A i, j \in DOMAIN Fraction : i < j => Sooner(Fraction[i], Fraction[j])
  /\ MaxEntries \in [Agent -> Nat] /\ DefaultEntries \in Nat \ {0}
  /\ Budget \in Nat \ {0} /\ Sizes \subseteq Nat \ {0}
  /\ MaxIds \in Nat /\ MaxSeconds \in Nat /\ MaxFaults \in Nat

-----------------------------------------------------------------------------
(* Time, as the store compares it: created_at is text in RFC3339Nano, which *)
(* drops the trailing zeros of the fraction and ends in Z, a character      *)
(* after every digit and after the dot.                                     *)

Instant == (0 .. MaxSeconds) \X DOMAIN Fraction

Precedes(t, u) == t[1] < u[1] \/ (t[1] = u[1] /\ t[2] < u[2])

\* Within a second: no fraction comes last, and a fraction comes after the
\* longer ones that begin with it.
TextPrecedes(f, g) ==
  \/ f # <<>> /\ g = <<>>
  \/ g # <<>> /\ Prolongs(f, g)
  \/ Below(f, g)

Older(d, e) ==
  \/ d.at[1] < e.at[1]
  \/ d.at[1] = e.at[1] /\ TextPrecedes(Fraction[d.at[2]], Fraction[e.at[2]])

-----------------------------------------------------------------------------
(* Scopes.                                                                 *)

\* Mutant: the group of an agent without the label is the empty group.
memoryScopeKeyUnguarded(a) ==
  LET spec == AgentSpec[a] IN
  CASE spec.scope = "group" -> <<spec.ns, "group", spec.label>>
    [] spec.scope = "namespace" -> <<spec.ns>>
    [] OTHER -> <<spec.ns, "agent", a>>

memoryScopeKey(a) ==
  LET spec == AgentSpec[a] IN
  CASE spec.scope = "group" /\ spec.label # NoLabel -> <<spec.ns, "group", spec.label>>
    [] spec.scope = "namespace" -> <<spec.ns>>
    [] OTHER -> <<spec.ns, "agent", a>>

Namespaces == {AgentSpec[a].ns : a \in Agent}
Key == {memoryScopeKey(a) : a \in Agent}

VARIABLES
  memories,       \* the rows of the memories table
  recallLog,      \* per step, the ids in its row of recall_log
  marked,         \* the agents annotated as imported, at the API server
  markedView,     \* the same in the reconciler's cache
  clock,          \* the time of the last memory
  faults,         \* failures so far
  written,        \* history: every memory ever stored, by id
  allowed,        \* history: the cap a scope was last cut to, and one per memory since
  unseen          \* history: the agents whose mark was lost, or once not seen

store == <<memories, recallLog>>
marks == <<marked, markedView>>
vars == <<store, marks, clock, faults, written, allowed, unseen>>

NoLog == {}

Init ==
  /\ memories = {} /\ recallLog = [s \in Step |-> NoLog]
  /\ marked = Seen /\ markedView = Seen
  /\ clock = <<0, 0>> /\ faults = 0
  /\ written = <<>> /\ allowed = [k \in Key |-> 0] /\ unseen = {}

\* What goes wrong in a step, if anything: a memory that is not stored, a mark
\* that is not written, a recall or its log that fails, a scope that is not cut,
\* a provider that cannot be listed, or is not there.
Mishap == {"none", "learn", "mark", "recall", "log", "retain", "provider"}

Suffer(mishap) ==
  /\ mishap # "none" => faults < MaxFaults
  /\ faults' = IF mishap = "none" THEN faults ELSE faults + 1

-----------------------------------------------------------------------------
(* The store.                                                              *)

OfScope(k, ms) == {m \in ms : m.key = k}

\* A new row, of a new id, at a later time than the last.
Learned(a, imported) ==
  {[id |-> Len(written) + 1, agent |-> a, key |-> memoryScopeKey(a),
    size |-> n, at |-> t, imported |-> imported] :
      n \in Sizes, t \in {u \in Instant : Precedes(clock, u)}}

Stored(m) ==
  /\ m.id <= MaxIds
  /\ clock' = m.at /\ written' = Append(written, m)

Grown(k) == allowed' = [allowed EXCEPT ![k] = @ + 1]
Cut(k, cap) == allowed' = [allowed EXCEPT ![k] = cap]

\* The cap of the agent's provider, as far as it can be told.
resolveMemoryRetention(a, mishap) ==
  IF mishap = "provider" \/ MaxEntries[a] = 0 THEN DefaultEntries ELSE MaxEntries[a]

\* So many rows of a scope stay, the newest as the text goes.
\* Mutant: the oldest stay.
RetainOldest(k, cap, ms) ==
  {m \in ms : m.key # k \/ Cardinality({n \in OfScope(k, ms) : Older(n, m)}) < cap}

Retain(k, cap, ms) ==
  {m \in ms : m.key # k \/ Cardinality({n \in OfScope(k, ms) : Older(m, n)}) < cap}

\* Lengths are added up by counting: so many units of each memory.
SizeOf(ms) == Cardinality(UNION {{m.id} \X (1 .. m.size) : m \in ms})

\* From the best, while the budget holds; the best one whatever its size.
\* Mutant: the budget is looked at before the next one is counted.
PackBeforeCounting(ranked) ==
  LET fits == {n \in 0 .. Len(ranked) :
                 \A i \in 2 .. n : SizeOf(Range(SubSeq(ranked, 1, i - 1))) <= Budget} IN
  SubSeq(ranked, 1, Max(fits))

Pack(ranked) ==
  LET fits == {n \in 0 .. Len(ranked) :
                 \A i \in 2 .. n : SizeOf(Range(SubSeq(ranked, 1, i))) <= Budget} IN
  SubSeq(ranked, 1, Max(fits))

\* What matches the step's input, best first; which matches, and how well, is the
\* text's business.
Recall(k, ms) == {Pack(ranked) : ranked \in SetToAllKPermutations(OfScope(k, ms))}

Ids(recalled) == {m.id : m \in Range(recalled)}

-----------------------------------------------------------------------------
(* A step starts.                                                          *)

\* Mutant: an agent whose memory was stored is not marked.
markMemoryImportedUnstored(a, mishap) ==
  /\ marked' = IF mishap = "mark" \/ a \in Legacy THEN marked ELSE marked \cup {a}
  /\ unseen' = IF mishap = "mark" \/ a \in marked THEN unseen \cup {a} ELSE unseen

\* The mark is a patch of one annotation, which needs no current copy.
markMemoryImported(a, mishap) ==
  /\ marked' = IF mishap = "mark" THEN marked ELSE marked \cup {a}
  /\ unseen' = IF mishap = "mark" \/ a \in marked THEN unseen \cup {a} ELSE unseen

\* Once per agent, as far as the cached agent tells: each step has a copy of
\* its own, so two steps of one pass import twice.  A memory that cannot be
\* stored is tried again by the next step.
importLegacyMemory(a, mishap) ==
  IF a \in markedView \/ (mishap = "learn" /\ a \in Legacy)
  THEN UNCHANGED <<memories, clock, written, allowed, marked, unseen>>
  ELSE /\ markMemoryImported(a, mishap)
       /\ IF a \in Legacy
          THEN \E m \in Learned(a, TRUE) :
                 /\ Stored(m) /\ memories' = memories \cup {m} /\ Grown(m.key)
          ELSE UNCHANGED <<memories, clock, written, allowed>>

\* A recall that finds nothing leaves the row of an earlier try.
recallMemory(s, mishap) ==
  \E recalled \in Recall(memoryScopeKey(AgentOf[s]), memories') :
    recallLog' = IF mishap \in {"recall", "log"} \/ recalled = <<>> THEN recallLog
                 ELSE [recallLog EXCEPT ![s] = Ids(recalled)]

StartStep(s, mishap) ==
  /\ mishap \in {"none", "learn", "mark", "recall", "log"}
  /\ Suffer(mishap)
  /\ importLegacyMemory(AgentOf[s], mishap)
  /\ recallMemory(s, mishap)
  /\ UNCHANGED markedView

-----------------------------------------------------------------------------
(* A step completes.                                                       *)

\* Its memory is stored, then its scope is cut to size; a pass that is repeated
\* because its status was not written does both again.
\* Mutant: the scope is cut first.
persistMemoryAfter(a, mishap) ==
  LET cap == resolveMemoryRetention(a, mishap) IN
  \E m \in Learned(a, FALSE) :
    /\ Stored(m)
    /\ IF mishap = "retain"
       THEN memories' = memories \cup {m} /\ Grown(m.key)
       ELSE memories' = Retain(m.key, cap, memories) \cup {m} /\ Cut(m.key, cap)

persistMemory(a, mishap) ==
  LET cap == resolveMemoryRetention(a, mishap) IN
  \E m \in Learned(a, FALSE) :
    /\ Stored(m)
    /\ IF mishap = "retain"
       THEN memories' = memories \cup {m} /\ Grown(m.key)
       ELSE memories' = Retain(m.key, cap, memories \cup {m}) /\ Cut(m.key, cap)

CompleteStep(s, mishap) ==
  /\ mishap \in {"none", "retain", "provider"}
  /\ Suffer(mishap)
  /\ persistMemory(AgentOf[s], mishap)
  /\ UNCHANGED <<recallLog, marks, unseen>>

-----------------------------------------------------------------------------
(* The dashboard, the daily clean-up and the cache.                        *)

Forget(ns, id) == memories' = {m \in memories : m.id # id \/ AgentSpec[m.agent].ns # ns}

handleMemoryDelete(ns, id) ==
  /\ Forget(ns, id)
  /\ UNCHANGED <<recallLog, marks, clock, faults, written, allowed, unseen>>

\* A row of the log that is 90 days old.
PruneRecallLog(s) ==
  /\ recallLog' = [recallLog EXCEPT ![s] = NoLog]
  /\ UNCHANGED <<memories, marks, clock, faults, written, allowed, unseen>>

SyncAgents ==
  /\ markedView' = marked
  /\ UNCHANGED <<store, marked, clock, faults, written, allowed, unseen>>

Next ==
  \/ \E s \in Step, mishap \in Mishap : StartStep(s, mishap) \/ CompleteStep(s, mishap)
  \/ \E ns \in Namespaces, id \in 1 .. Len(written) : handleMemoryDelete(ns, id)
  \/ \E s \in Step : PruneRecallLog(s)
  \/ SyncAgents

Spec == Init /\ [][Next]_vars

-----------------------------------------------------------------------------
(* Properties                                                              *)

\* A scope never holds more than the cap it was last cut to, but for what was
\* stored since: imports, and memories whose clean-up failed.  The cap is that of
\* whichever agent of the scope completed a step, or the default.
CapKept == \A k \in Key : Cardinality(OfScope(k, memories)) <= allowed[k]

\* Of two memories of one second, text takes the older one for the newer when its
\* fraction is the beginning of the other's: zeros at the end are not written.
TakenForNewer(n, m) ==
  n.at[1] = m.at[1] /\ Prolongs(Fraction[m.at[2]], Fraction[n.at[2]])

\* What goes when a step completes is of the scope that just grew, which is left
\* as full as the cap that was resolved allows, and is older than what stays: in
\* time, except within one second, where a trimmed fraction is taken for newer.
OldestGo ==
  [][Len(written') > Len(written) =>
       LET new == Last(written')
           gone == (memories \cup {new}) \ memories'
           left == OfScope(new.key, memories') IN
       gone # {} =>
         /\ \A m \in gone : m.key = new.key
         /\ Cardinality(left) >= allowed'[new.key]
         /\ \A m \in gone, n \in left : Precedes(m.at, n.at) \/ TakenForNewer(n, m)]_vars

\* A step is given what agents of its own pool have written: its agent, the
\* agents that carry its component label, or all of its namespace.
Pool(a) ==
  LET mine == AgentSpec[a]
      Same(b) == AgentSpec[b].ns = mine.ns /\ AgentSpec[b].scope = mine.scope IN
  {b \in Agent : \/ b = a
                 \/ mine.scope = "group" /\ mine.label # NoLabel /\ Same(b) /\ AgentSpec[b].label = mine.label
                 \/ mine.scope = "namespace" /\ Same(b)}

\* A memory is never handed to an agent of another pool, whatever was stored,
\* imported or evicted since the row was written.
PoolsKeptApart ==
  \A s \in Step : \A id \in recallLog[s] : written[id].agent \in Pool(AgentOf[s])

\* What a step is given fits its budget, or is one memory: also when a recall
\* that found nothing left the row of an earlier try.
BudgetKept ==
  \A s \in Step :
    \/ Cardinality(recallLog[s]) <= 1
    \/ SizeOf({written[id] : id \in recallLog[s]}) <= Budget

\* A legacy memory is stored twice only if its mark was lost, or was not yet seen.
ImportedOnce ==
  \A a \in Agent : a \notin unseen =>
    Cardinality({i \in DOMAIN written : written[i].agent = a /\ written[i].imported}) <= 1
=============================================================================
