-------------------------- MODULE MemoryStore_proofs --------------------------
(***************************************************************************)
(* Theorems about the memory store, for every cast of agents and scopes,   *)
(* every cap and every number of failures: a scope is cut to its cap, what *)
(* goes is the oldest, recall stays within the pool of its agent and the   *)
(* budget of its step, and a legacy memory is imported once.               *)
(***************************************************************************)
EXTENDS MemoryStore, FiniteSetTheorems, NaturalsInduction, TLAPS

\* A nonempty set of naturals has a least element.
LEMMA Least ==
  ASSUME NEW S \in SUBSET Nat, S # {}
  PROVE  \E x \in S : \A y \in S : x <= y
<1>1. \E x \in S : \A y \in S : ~(<<y, x>> \in OpToRel(<, Nat))
  BY WFMin, NatLessThanWellFounded
<1>2. \A y, x \in S : ~(<<y, x>> \in OpToRel(<, Nat)) => x <= y
  BY DEF OpToRel
<1> QED
  BY <1>1, <1>2

-----------------------------------------------------------------------------
(* Time as text.  With 10 for the Z that ends a fraction, the order of the  *)
(* text is the lexicographic order of the digits.                           *)

Pad(f, i) == IF i \in DOMAIN f THEN f[i] ELSE 10

First(f, g, i) == Pad(f, i) < Pad(g, i) /\ \A j \in 1 .. i - 1 : Pad(f, j) = Pad(g, j)

LEMMA Digits ==
  ASSUME NEW f \in Seq(0 .. 9), NEW i \in Nat \ {0}
  PROVE  /\ Pad(f, i) \in 0 .. 10
         /\ i \in DOMAIN f <=> Pad(f, i) # 10
  BY DEF Pad

LEMMA TextIsLexicographic ==
  ASSUME NEW f \in Seq(0 .. 9), NEW g \in Seq(0 .. 9)
  PROVE  TextPrecedes(f, g) <=> \E i \in Nat \ {0} : First(f, g, i)
<1>1. ASSUME f # <<>>, g = <<>>
      PROVE  First(f, g, 1)
  BY <1>1 DEF First, Pad
<1>2. ASSUME g # <<>>, Prolongs(f, g)
      PROVE  First(f, g, Len(g) + 1)
  <2>1. Len(g) <= Len(f) /\ \A j \in 1 .. Len(g) : f[j] = g[j]
    BY <1>2 DEF Prolongs, IsPrefix
  <2>2. Len(f) # Len(g)
    BY <1>2, <2>1 DEF Prolongs
  <2> QED
    BY <2>1, <2>2, SMTT(20) DEF First, Pad
<1>3. ASSUME NEW i \in DOMAIN f \cap DOMAIN g, f[i] < g[i], \A j \in 1 .. i - 1 : f[j] = g[j]
      PROVE  First(f, g, i)
  BY <1>3 DEF First, Pad
<1>4. ASSUME NEW i \in Nat \ {0}, First(f, g, i)
      PROVE  TextPrecedes(f, g)
  <2>1. CASE i \in DOMAIN g
    <3>1. i \in DOMAIN f
      BY <1>4, <2>1, SMTT(20) DEF First, Pad
    <3>2. f[i] < g[i]
      BY <1>4, <2>1, <3>1 DEF First, Pad
    <3>3. \A j \in 1 .. i - 1 : f[j] = g[j]
      BY <1>4, <2>1, <3>1 DEF First, Pad
    <3> QED
      BY <2>1, <3>1, <3>2, <3>3 DEF TextPrecedes, Below
  <2>2. CASE i \notin DOMAIN g
    <3>1. i \in DOMAIN f
      BY <1>4, <2>2 DEF First, Pad
    <3>2. ASSUME NEW j \in 1 .. i - 1
          PROVE  j \in DOMAIN g /\ f[j] = g[j]
      <4>1. j \in DOMAIN f
        BY <3>1
      <4>2. Pad(f, j) = Pad(g, j) /\ Pad(f, j) = f[j] /\ f[j] \in 0 .. 9
        BY <1>4, <4>1 DEF First, Pad
      <4>3. Pad(g, j) \in 0 .. 9
        BY <4>2
      <4>4. j \in DOMAIN g
        BY <4>3 DEF Pad
      <4>5. Pad(g, j) = g[j]
        BY <4>4 DEF Pad
      <4> QED
        BY <4>2, <4>4, <4>5
    <3>3. Len(g) = i - 1
      <4>1. i - 1 \in 1 .. i - 1 \/ i = 1
        OBVIOUS
      <4> QED BY <2>2, <3>2, <4>1
    <3>4. f # <<>> /\ f # g /\ Len(g) <= Len(f)
      BY <2>2, <3>1, <3>3
    <3>5. SubSeq(g, 1, Len(g)) = SubSeq(f, 1, Len(g))
      BY <3>2, <3>3, <3>4
    <3> QED
      BY <3>4, <3>5 DEF TextPrecedes, Prolongs, IsPrefix
  <2> QED
    BY <2>1, <2>2
<1>5. ASSUME NEW i \in Nat, i \in DOMAIN f
      PROVE  i \in Nat \ {0}
  BY <1>5
<1> QED
  BY <1>1, <1>2, <1>3, <1>4, <1>5 DEF TextPrecedes, Below

\* The order of the text is strict, and total on what differs.
LEMMA TextOrder ==
  /\ \A f \in Seq(0 .. 9) : ~TextPrecedes(f, f)
  /\ \A f, g, h \in Seq(0 .. 9) : TextPrecedes(f, g) /\ TextPrecedes(g, h) => TextPrecedes(f, h)
  /\ \A f, g \in Seq(0 .. 9) : f # g => TextPrecedes(f, g) \/ TextPrecedes(g, f)
<1>1. ASSUME NEW f \in Seq(0 .. 9), TextPrecedes(f, f)
      PROVE  FALSE
  BY <1>1, TextIsLexicographic, Digits DEF First
<1>2. ASSUME NEW f \in Seq(0 .. 9), NEW g \in Seq(0 .. 9), NEW h \in Seq(0 .. 9),
             TextPrecedes(f, g), TextPrecedes(g, h)
      PROVE  TextPrecedes(f, h)
  <2>1. PICK i \in Nat \ {0} : First(f, g, i)
    BY <1>2, TextIsLexicographic
  <2>2. PICK j \in Nat \ {0} : First(g, h, j)
    BY <1>2, TextIsLexicographic
  <2>3. CASE i <= j
    <3>0. Pad(f, i) \in 0 .. 10 /\ Pad(g, i) \in 0 .. 10 /\ Pad(h, i) \in 0 .. 10
      BY Digits
    <3>1. Pad(f, i) < Pad(h, i)
      <4>1. i = j \/ i \in 1 .. j - 1
        BY <2>3
      <4>2. Pad(g, i) <= Pad(h, i)
        BY <2>2, <3>0, <4>1, SMTT(20) DEF First
      <4> QED BY <2>1, <3>0, <4>2, SMTT(20) DEF First
    <3>2. \A n \in 1 .. i - 1 : Pad(f, n) = Pad(h, n)
      BY <2>1, <2>2, <2>3, Digits, SMTT(20) DEF First
    <3> QED BY <3>1, <3>2, TextIsLexicographic DEF First
  <2>4. CASE j < i
    <3>1. Pad(f, j) < Pad(h, j)
      BY <2>1, <2>2, <2>4, Digits DEF First
    <3>2. \A n \in 1 .. j - 1 : Pad(f, n) = Pad(h, n)
      BY <2>1, <2>2, <2>4, Digits DEF First
    <3> QED BY <3>1, <3>2, TextIsLexicographic DEF First
  <2> QED BY <2>3, <2>4
<1>3. ASSUME NEW f \in Seq(0 .. 9), NEW g \in Seq(0 .. 9), f # g
      PROVE  TextPrecedes(f, g) \/ TextPrecedes(g, f)
  <2> DEFINE D == {i \in Nat \ {0} : Pad(f, i) # Pad(g, i)}
  <2>1. D # {}
    <3> SUFFICES ASSUME D = {} PROVE f = g
      BY <1>3
    <3>1. \A i \in Nat \ {0} : Pad(f, i) = Pad(g, i)
      OBVIOUS
    <3>2. \A i \in Nat \ {0} : i \in DOMAIN f <=> i \in DOMAIN g
      BY <3>1, Digits
    <3>3. Len(f) = Len(g)
      <4>1. Len(f) = 0 \/ Len(f) \in DOMAIN g
        BY <3>2
      <4>2. Len(g) = 0 \/ Len(g) \in DOMAIN f
        BY <3>2
      <4> QED BY <4>1, <4>2
    <3>4. \A i \in DOMAIN f : f[i] = g[i]
      BY <3>1, <3>2 DEF Pad
    <3> QED BY <3>3, <3>4
  <2>2. PICK i \in D : \A j \in D : i <= j
    BY <2>1, Least
  <2>3. \A j \in 1 .. i - 1 : Pad(f, j) = Pad(g, j)
    BY <2>2
  <2>4. Pad(f, i) < Pad(g, i) \/ Pad(g, i) < Pad(f, i)
    <3>1. Pad(f, i) \in 0 .. 10 /\ Pad(g, i) \in 0 .. 10 /\ Pad(f, i) # Pad(g, i)
      BY <2>2, Digits, SMTT(20)
    <3>2. \A x, y \in 0 .. 10 : x # y => x < y \/ y < x
      OBVIOUS
    <3> QED
      BY <3>1, <3>2, Zenon
  <2>5. i \in Nat \ {0} /\ (First(f, g, i) \/ First(g, f, i))
    <3>1. i \in Nat \ {0}
      OBVIOUS
    <3> HIDE DEF Pad
    <3> QED
      BY <2>3, <2>4, <3>1, Zenon DEF First
  <2> QED
    BY <2>5, TextIsLexicographic
<1> QED
  BY <1>1, <1>2, <1>3

\* Different fractions are of different digits.
LEMMA FractionsDiffer ==
  ASSUME NEW i \in DOMAIN Fraction, NEW j \in DOMAIN Fraction, i # j
  PROVE  Fraction[i] # Fraction[j]
<1>1. ASSUME NEW f \in Seq(0 .. 9)
      PROVE  ~Sooner(f, f)
  BY DEF Sooner, Prolongs, Below
<1>2. i < j \/ j < i
  BY MemoryAssumption
<1>3. Fraction[i] \in Seq(0 .. 9) /\ Fraction[j] \in Seq(0 .. 9)
  BY MemoryAssumption
<1>4. Sooner(Fraction[i], Fraction[j]) \/ Sooner(Fraction[j], Fraction[i])
  BY <1>2, MemoryAssumption
<1> QED
  BY <1>1, <1>3, <1>4

\* Where the text does not take f for the older, f is the later, or begins g.
LEMMA TextErrsByTrimming ==
  ASSUME NEW i \in DOMAIN Fraction, NEW j \in DOMAIN Fraction, i < j,
         ~TextPrecedes(Fraction[i], Fraction[j])
  PROVE  Prolongs(Fraction[j], Fraction[i])
<1>1. Sooner(Fraction[i], Fraction[j])
  BY MemoryAssumption
<1> QED
  BY <1>1 DEF Sooner, TextPrecedes

-----------------------------------------------------------------------------
(* Memories of different instants are of different ranks, so keeping the    *)
(* first ranks keeps as many memories, and the newest.                      *)

Dated(S) ==
  /\ \A m \in S : m.at \in Instant
  /\ \A m, n \in S : m # n => m.at # n.at

Newer(m, S) == {n \in S : Older(m, n)}

Rank(m, S) == Cardinality(Newer(m, S))

LEMMA OlderOrder ==
  ASSUME NEW S, Dated(S)
  PROVE  /\ \A m \in S : ~Older(m, m)
         /\ \A l, m, n \in S : Older(l, m) /\ Older(m, n) => Older(l, n)
         /\ \A m, n \in S : m # n => Older(m, n) \/ Older(n, m)
<1>1. \A m \in S : /\ m.at[1] \in Nat /\ m.at[2] \in DOMAIN Fraction
                   /\ m.at = <<m.at[1], m.at[2]>>
                   /\ Fraction[m.at[2]] \in Seq(0 .. 9)
  BY MemoryAssumption DEF Dated, Instant
<1>2. \A m \in S : ~Older(m, m)
  BY <1>1, TextOrder DEF Older
<1>3. ASSUME NEW l \in S, NEW m \in S, NEW n \in S, Older(l, m), Older(m, n)
      PROVE  Older(l, n)
  <2>1. CASE l.at[1] = m.at[1] /\ m.at[1] = n.at[1]
    <3>1. /\ TextPrecedes(Fraction[l.at[2]], Fraction[m.at[2]])
          /\ TextPrecedes(Fraction[m.at[2]], Fraction[n.at[2]])
      BY <1>1, <1>3, <2>1 DEF Older
    <3>2. TextPrecedes(Fraction[l.at[2]], Fraction[n.at[2]])
      BY <1>1, <3>1, TextOrder
    <3> QED BY <2>1, <3>2 DEF Older
  <2>2. CASE ~(l.at[1] = m.at[1] /\ m.at[1] = n.at[1])
    BY <1>1, <1>3, <2>2 DEF Older
  <2> QED BY <2>1, <2>2
<1>4. ASSUME NEW m \in S, NEW n \in S, m # n
      PROVE  Older(m, n) \/ Older(n, m)
  <2>1. m.at # n.at
    BY <1>4 DEF Dated
  <2>2. CASE m.at[1] = n.at[1]
    <3>1. m.at[2] # n.at[2]
      BY <1>1, <2>1, <2>2
    <3>2. Fraction[m.at[2]] # Fraction[n.at[2]]
      BY <1>1, <3>1, FractionsDiffer
    <3> QED
      BY <1>1, <2>2, <3>2, TextOrder DEF Older
  <2>3. CASE m.at[1] # n.at[1]
    BY <1>1, <2>3 DEF Older
  <2> QED BY <2>2, <2>3
<1> QED
  BY <1>2, <1>3, <1>4

\* What the text does not take for the newer is the older, but for trimmed zeros.
LEMMA YoungerOrTrimmed ==
  ASSUME NEW S, Dated(S), NEW n \in S, NEW l \in S, n # l, ~Older(l, n)
  PROVE  Precedes(n.at, l.at) \/ TakenForNewer(l, n)
<1>1. /\ n.at[1] \in Nat /\ l.at[1] \in Nat /\ n.at # l.at
      /\ n.at[2] \in DOMAIN Fraction /\ l.at[2] \in DOMAIN Fraction
      /\ n.at = <<n.at[1], n.at[2]>> /\ l.at = <<l.at[1], l.at[2]>>
  <2>1. n.at \in Instant /\ l.at \in Instant /\ n.at # l.at
    BY DEF Dated
  <2>2. \A i \in Instant : /\ i[1] \in 0 .. MaxSeconds /\ i[2] \in DOMAIN Fraction
                           /\ i = <<i[1], i[2]>>
    BY DEF Instant
  <2>3. 0 .. MaxSeconds \subseteq Nat
    OBVIOUS
  <2> QED
    BY <2>1, <2>2, <2>3
<1>2. CASE n.at[1] # l.at[1]
  BY <1>1, <1>2 DEF Older, Precedes
<1>3. CASE n.at[1] = l.at[1]
  <2>0. n.at[2] \in Nat /\ l.at[2] \in Nat
    <3>1. DOMAIN Fraction \subseteq Nat
      BY MemoryAssumption
    <3> QED BY <1>1, <3>1
  <2>1. n.at[2] # l.at[2]
    BY <1>1, <1>3
  <2>2. CASE n.at[2] < l.at[2]
    BY <1>3, <2>2 DEF Precedes
  <2>3. CASE l.at[2] < n.at[2]
    <3>1. ~TextPrecedes(Fraction[l.at[2]], Fraction[n.at[2]])
      BY <1>3 DEF Older
    <3>2. Prolongs(Fraction[n.at[2]], Fraction[l.at[2]])
      BY <1>1, <2>3, <3>1, TextErrsByTrimming
    <3> QED BY <1>3, <3>2 DEF TakenForNewer
  <2> QED BY <2>0, <2>1, <2>2, <2>3
<1> QED
  BY <1>2, <1>3

LEMMA RanksDiffer ==
  ASSUME NEW S, IsFiniteSet(S), Dated(S)
  PROVE  /\ \A m \in S : Rank(m, S) \in 0 .. Cardinality(S) - 1
         /\ \A m, n \in S : Older(m, n) => Rank(n, S) < Rank(m, S)
         /\ \A m, n \in S : m # n => Rank(m, S) # Rank(n, S)
<1>1. \A m \in S : m \notin Newer(m, S) /\ Newer(m, S) \in SUBSET S /\ IsFiniteSet(Newer(m, S))
  BY OlderOrder, FS_Subset DEF Newer
<1>2. \A m \in S : Rank(m, S) \in Nat
  BY <1>1, FS_CardinalityType DEF Rank
<1>3. ASSUME NEW m \in S
      PROVE  Rank(m, S) < Cardinality(S)
  <2>1. Rank(m, S) <= Cardinality(S) /\ Rank(m, S) # Cardinality(S)
    BY <1>1, FS_Subset DEF Rank
  <2> QED BY <1>2, <2>1, FS_CardinalityType
<1>4. ASSUME NEW m \in S, NEW n \in S, Older(m, n)
      PROVE  Rank(n, S) < Rank(m, S)
  <2>1. Newer(n, S) \in SUBSET Newer(m, S)
    BY <1>4, OlderOrder DEF Newer
  <2>2. n \in Newer(m, S) /\ n \notin Newer(n, S)
    BY <1>1, <1>4 DEF Newer
  <2>3. Rank(n, S) <= Rank(m, S) /\ Rank(n, S) # Rank(m, S)
    BY <1>1, <2>1, <2>2, FS_Subset DEF Rank
  <2> QED BY <1>2, <2>3
<1>5. ASSUME NEW m \in S, NEW n \in S, m # n
      PROVE  Rank(m, S) # Rank(n, S)
  <2>1. Older(m, n) \/ Older(n, m)
    BY <1>5, OlderOrder
  <2> QED BY <1>2, <1>4, <2>1
<1> QED
  <2>1. Cardinality(S) \in Nat
    BY FS_CardinalityType
  <2> QED BY <1>2, <1>3, <1>4, <1>5, <2>1

LEMMA CutToSize ==
  ASSUME NEW S, IsFiniteSet(S), Dated(S), NEW N \in Nat,
         NEW K, K = {m \in S : Rank(m, S) < N}
  PROVE  /\ Cardinality(K) <= N
         /\ K # S => Cardinality(K) >= N
         /\ \A m \in S \ K, n \in K : ~Older(n, m)
<1> DEFINE rank == [m \in S |-> Rank(m, S)]
           kept == [m \in K |-> Rank(m, S)]
           size == Cardinality(S)
<1>1. size \in Nat
  BY FS_CardinalityType
<1>2. /\ IsFiniteSet(0 .. N - 1) /\ Cardinality(0 .. N - 1) = N
      /\ IsFiniteSet(0 .. size - 1) /\ Cardinality(0 .. size - 1) = size
  <2>1. \A n \in Nat : IsFiniteSet(0 .. n - 1) /\ Cardinality(0 .. n - 1) = n
    <3> TAKE n \in Nat
    <3>1. n - 1 \in Int /\ (IF 0 > n - 1 THEN 0 ELSE n - 1 - 0 + 1) = n
      OBVIOUS
    <3> QED BY <3>1, FS_Interval
  <2> HIDE DEF size
  <2> QED BY <1>1, <2>1
<1>3. IsFiniteSet(K)
  BY FS_Subset
<1>4. kept \in Injection(K, 0 .. N - 1)
  <2>1. \A m \in K : Rank(m, S) \in 0 .. N - 1
    BY <1>1, RanksDiffer
  <2>2. \A m, n \in K : kept[m] = kept[n] => m = n
    BY RanksDiffer
  <2>3. kept \in [K -> 0 .. N - 1]
    BY <2>1
  <2> QED BY <2>2, <2>3 DEF Injection, IsInjective
<1>5. Cardinality(K) <= N
  BY <1>2, <1>4, FS_Injection
<1>6. ASSUME K # S
      PROVE  Cardinality(K) >= N
  <2>1. rank \in Injection(S, 0 .. size - 1)
    BY <1>1, RanksDiffer DEF Injection, IsInjective
  <2>2. rank \in Surjection(S, 0 .. size - 1)
    BY <1>2, <2>1, FS_Injection
  <2>3. N < size
    <3>1. PICK m \in S : ~(Rank(m, S) < N)
      BY <1>6
    <3>2. Rank(m, S) \in 0 .. size - 1
      BY RanksDiffer
    <3> QED BY <1>1, <3>1, <3>2
  <2>4. ASSUME NEW r \in 0 .. N - 1
        PROVE  \E m \in K : kept[m] = r
    <3>1. r \in 0 .. size - 1
      <4> HIDE DEF size
      <4> QED BY <1>1, <2>3
    <3>2. PICK m \in S : rank[m] = r
      BY <2>2, <3>1 DEF Surjection
    <3> QED BY <2>4, <3>2
  <2>5. kept \in Surjection(K, 0 .. N - 1)
    BY <1>4, <2>4 DEF Surjection, Injection
  <2>6. Cardinality(K) \in Nat
    BY <1>3, FS_CardinalityType
  <2> QED
    BY <1>2, <1>3, <2>5, <2>6, FS_Surjection
<1>7. ASSUME NEW m \in S \ K, NEW n \in K
      PROVE  ~Older(n, m)
  BY <1>1, RanksDiffer
<1> QED
  BY <1>5, <1>6, <1>7

-----------------------------------------------------------------------------
(* Scopes and recall.                                                       *)

\* Agents of one scope key are of one pool.
LEMMA KeysArePools ==
  ASSUME NEW a \in Agent, NEW b \in Agent, memoryScopeKey(a) = memoryScopeKey(b)
  PROVE  b \in Pool(a)
<1> DEFINE Grouped(c) == AgentSpec[c].scope = "group" /\ AgentSpec[c].label # NoLabel
           Shared(c) == AgentSpec[c].scope = "namespace"
<1>1. ASSUME NEW c \in Agent
      PROVE  /\ Grouped(c) => memoryScopeKey(c) = <<AgentSpec[c].ns, "group", AgentSpec[c].label>>
             /\ Shared(c) => memoryScopeKey(c) = <<AgentSpec[c].ns>>
             /\ ~Grouped(c) /\ ~Shared(c) => memoryScopeKey(c) = <<AgentSpec[c].ns, "agent", c>>
  BY DEF memoryScopeKey
<1>2. CASE Grouped(a)
  BY <1>1, <1>2 DEF Pool
<1>3. CASE Shared(a)
  BY <1>1, <1>3 DEF Pool
<1>4. CASE ~Grouped(a) /\ ~Shared(a)
  BY <1>1, <1>4 DEF Pool
<1> QED
  BY <1>2, <1>3, <1>4

LEMMA Greatest ==
  ASSUME NEW N \in Nat, NEW S \in SUBSET (0 .. N), S # {}
  PROVE  Max(S) \in S
<1> DEFINE D == {d \in Nat : N - d \in S}
<1>1. D # {}
  <2>1. PICK n \in S : TRUE
    OBVIOUS
  <2>2. N - n \in Nat /\ N - (N - n) = n
    OBVIOUS
  <2> QED BY <2>1, <2>2
<1>2. PICK d \in D : \A e \in D : d <= e
  BY <1>1, Least
<1>3. \A n \in S : N - d >= n
  <2> TAKE n \in S
  <2>1. N - n \in Nat /\ N - (N - n) = n
    OBVIOUS
  <2>2. d <= N - n
    BY <1>2, <2>1
  <2> QED BY <2>2
<1>4. N - d \in S
  OBVIOUS
<1> QED
  BY <1>3, <1>4 DEF Max

\* What is packed is the best so many, and they fit unless there is one at most.
LEMMA PackFits ==
  ASSUME NEW S, NEW ranked \in Seq(S)
  PROVE  \E n \in Nat : /\ Pack(ranked) \in [1 .. n -> S]
                        /\ n <= 1 \/ SizeOf(Range(Pack(ranked))) <= Budget
<1> DEFINE Fit(i) == SizeOf(Range(SubSeq(ranked, 1, i))) <= Budget
           fits == {n \in 0 .. Len(ranked) : \A i \in 2 .. n : Fit(i)}
<1>1. Pack(ranked) = SubSeq(ranked, 1, Max(fits))
  BY DEF Pack
<1> HIDE DEF Fit
<1>2. 0 \in fits
  <2>1. 2 .. 0 = {}
    OBVIOUS
  <2> QED BY <2>1
<1>3. fits \in SUBSET (0 .. Len(ranked)) /\ Len(ranked) \in Nat
  OBVIOUS
<1> HIDE DEF fits
<1>4. Max(fits) \in fits
  BY <1>2, <1>3, Greatest
<1>5. ASSUME NEW n \in fits
      PROVE  n \in 0 .. Len(ranked) /\ (n <= 1 \/ Fit(n))
  <2>1. n \in 0 .. Len(ranked) /\ \A i \in 2 .. n : Fit(i)
    BY DEF fits
  <2>2. n <= 1 \/ n \in 2 .. n
    BY <2>1
  <2> QED BY <2>1, <2>2
<1>6. ASSUME NEW n \in 0 .. Len(ranked)
      PROVE  n \in Nat /\ SubSeq(ranked, 1, n) \in [1 .. n -> S]
  <2> DEFINE best == SubSeq(ranked, 1, n)
  <2>1. n \in Nat /\ n <= Len(ranked)
    OBVIOUS
  <2>2. Len(best) = n /\ best \in Seq(S)
    BY <2>1
  <2> HIDE DEF best
  <2>3. best \in [1 .. n -> S]
    BY <2>1, <2>2
  <2> QED BY <2>1, <2>3 DEF best
<1>7. \A n \in fits : Fit(n) <=> SizeOf(Range(SubSeq(ranked, 1, n))) <= Budget
  BY DEF Fit
<1> QED
  BY <1>1, <1>4, <1>5, <1>6, <1>7, Zenon

\* What a recall hands over is in the store, and of the scope asked for; it is one
\* memory at most, or fits the budget.
LEMMA RecallWithinScope ==
  ASSUME NEW ms, IsFiniteSet(ms), NEW k, NEW recalled \in Recall(k, ms)
  PROVE  /\ Range(recalled) \subseteq OfScope(k, ms)
         /\ Cardinality(Range(recalled)) <= 1 \/ SizeOf(Range(recalled)) <= Budget
<1>1. PICK S \in SUBSET OfScope(k, ms) : \E ranked \in SetToSeqs(S) : recalled = Pack(ranked)
  BY DEF Recall, SetToAllKPermutations
<1>2. PICK ranked \in SetToSeqs(S) : recalled = Pack(ranked)
  BY <1>1
<1>3. Cardinality(S) \in Nat
  <2>1. S \in SUBSET ms
    BY DEF OfScope
  <2> QED BY <2>1, FS_Subset, FS_CardinalityType
<1>4. ranked \in Seq(S)
  <2>1. ranked \in [1 .. Cardinality(S) -> S]
    BY DEF SetToSeqs
  <2> QED BY <1>3, <2>1
<1>5. PICK n \in Nat : /\ recalled \in [1 .. n -> S]
                       /\ n <= 1 \/ SizeOf(Range(recalled)) <= Budget
  BY <1>2, <1>4, PackFits, Zenon
<1>6. DOMAIN recalled = 1 .. n /\ \A i \in 1 .. n : recalled[i] \in S
  BY <1>5, Zenon
<1>7. CASE n = 0
  <2>1. Range(recalled) = {}
    <3>1. DOMAIN recalled = {}
      BY <1>6, <1>7
    <3> QED BY <3>1, Zenon DEF Range
  <2>2. Range(recalled) \subseteq OfScope(k, ms) /\ Cardinality(Range(recalled)) = 0
    BY <2>1, FS_EmptySet
  <2> QED BY <2>2
<1>8. CASE n = 1
  <2>1. Range(recalled) = {recalled[1]}
    <3>1. DOMAIN recalled = {1}
      BY <1>6, <1>8
    <3> QED BY <3>1, Zenon DEF Range
  <2>2. recalled[1] \in S
    BY <1>6, <1>8
  <2>3. Cardinality(Range(recalled)) = 1
    BY <2>1, FS_Singleton
  <2> QED BY <2>1, <2>2, <2>3
<1>9. n <= 1 => n = 0 \/ n = 1
  OBVIOUS
<1> QED
  BY <1>5, <1>6, <1>7, <1>8, <1>9 DEF Range

-----------------------------------------------------------------------------
(* What is always so: the journal of what was stored has an id, a scope and *)
(* a later time for each memory, and rows and logs are of the journal.      *)

Memory ==
  [id : Nat, agent : Agent, key : Key, size : Sizes, at : Instant, imported : BOOLEAN]

Journal ==
  /\ written \in Seq(Memory)
  /\ clock \in Nat \X Nat
  /\ \A i \in DOMAIN written : /\ written[i].id = i
                               /\ written[i].key = memoryScopeKey(written[i].agent)
                               /\ ~Precedes(clock, written[i].at)
  /\ \A i, j \in DOMAIN written : i < j => Precedes(written[i].at, written[j].at)

Rows ==
  /\ IsFiniteSet(memories)
  /\ \A m \in memories : m.id \in DOMAIN written /\ m = written[m.id]

Logged ==
  /\ recallLog \in [Step -> SUBSET (DOMAIN written)]
  /\ \A s \in Step : \A id \in recallLog[s] : written[id].key = memoryScopeKey(AgentOf[s])

Imports(a) == {i \in DOMAIN written : written[i].agent = a /\ written[i].imported}

Marked ==
  \A a \in Agent \ unseen :
    /\ \A i, j \in Imports(a) : i = j
    /\ Imports(a) # {} => a \in marked

MemoryInv ==
  /\ Journal /\ Rows /\ Logged /\ Marked
  /\ allowed \in [Key -> Nat] /\ CapKept

\* A new memory takes the next id and a later time; nothing written changes.
LEMMA JournalGrows ==
  ASSUME Journal, NEW a \in Agent, NEW b \in BOOLEAN, NEW m \in Learned(a, b), Stored(m)
  PROVE  /\ Journal'
         /\ m \in Memory /\ m.id = Len(written) + 1 /\ m.agent = a
         /\ m.key = memoryScopeKey(a) /\ m.key \in Key /\ m.imported = b
         /\ Len(written') = Len(written) + 1 /\ m.id \in DOMAIN written'
         /\ written'[m.id] = m /\ Last(written') = m
         /\ \A i \in DOMAIN written : i \in DOMAIN written' /\ written'[i] = written[i]
<1>1. PICK n \in Sizes, t \in Instant :
        /\ m = [id |-> Len(written) + 1, agent |-> a, key |-> memoryScopeKey(a),
                size |-> n, at |-> t, imported |-> b]
        /\ Precedes(clock, t)
  BY DEF Learned
<1>2. written \in Seq(Memory) /\ Len(written) \in Nat
  BY DEF Journal
<1>3. m \in Memory
  BY <1>1, <1>2 DEF Memory, Key
<1>4. written' = Append(written, m) /\ clock' = m.at
  BY DEF Stored
<1>5. /\ m.id = Len(written) + 1 /\ m.agent = a /\ m.key = memoryScopeKey(a)
      /\ m.imported = b /\ m.at = t
  BY <1>1
<1>6. /\ Len(written') = Len(written) + 1 /\ m.id \in DOMAIN written'
      /\ written'[m.id] = m /\ Last(written') = m
      /\ \A i \in DOMAIN written : i \in DOMAIN written' /\ written'[i] = written[i]
      /\ \A i \in DOMAIN written' : i \in DOMAIN written \/ i = Len(written) + 1
      /\ written' \in Seq(Memory)
  <2> HIDE DEF Memory
  <2> QED BY <1>2, <1>3, <1>4, <1>5 DEF Last
<1>7. t[1] \in Nat /\ t[2] \in Nat /\ t \in Nat \X Nat
  <2>1. DOMAIN Fraction \subseteq Nat
    BY MemoryAssumption
  <2> QED BY <2>1, MemoryAssumption DEF Instant
<1>8. \A i \in DOMAIN written : written[i].at \in Nat \X Nat
  <2>1. DOMAIN Fraction \subseteq Nat /\ (0 .. MaxSeconds) \subseteq Nat
    BY MemoryAssumption
  <2>2. \A w \in Memory : w.at \in Nat \X Nat
    BY <2>1 DEF Memory, Instant
  <2> QED BY <1>2, <2>2
<1>9. \A i \in DOMAIN written : Precedes(written[i].at, t)
  <2> TAKE i \in DOMAIN written
  <2>1. ~Precedes(clock, written[i].at) /\ clock \in Nat \X Nat
    BY DEF Journal
  <2>2. /\ clock[1] \in Nat /\ clock[2] \in Nat
        /\ written[i].at[1] \in Nat /\ written[i].at[2] \in Nat
    BY <1>8, <2>1
  <2> QED BY <1>1, <1>7, <2>1, <2>2 DEF Precedes
<1>10. ASSUME NEW i \in DOMAIN written'
       PROVE  /\ written'[i].id = i
              /\ written'[i].key = memoryScopeKey(written'[i].agent)
              /\ ~Precedes(clock', written'[i].at)
  <2>1. CASE i \in DOMAIN written
    <3>1. written'[i] = written[i] /\ written[i].id = i
          /\ written[i].key = memoryScopeKey(written[i].agent)
      BY <1>6, <2>1 DEF Journal
    <3>2. written[i].at[1] \in Nat /\ written[i].at[2] \in Nat
      BY <1>8, <2>1
    <3>3. ~Precedes(t, written[i].at)
      BY <1>7, <1>9, <2>1, <3>2 DEF Precedes
    <3> QED BY <1>4, <1>5, <3>1, <3>3
  <2>2. CASE i = m.id
    BY <1>4, <1>5, <1>6, <1>7, <2>2 DEF Precedes
  <2> QED BY <1>5, <1>6, <2>1, <2>2
<1>11. ASSUME NEW i \in DOMAIN written', NEW j \in DOMAIN written', i < j
       PROVE  Precedes(written'[i].at, written'[j].at)
  <2>1. i \in DOMAIN written
    BY <1>2, <1>6, <1>11
  <2>2. CASE j \in DOMAIN written
    BY <1>6, <1>11, <2>1, <2>2 DEF Journal
  <2>3. CASE j = Len(written) + 1
    BY <1>5, <1>6, <1>9, <2>1, <2>3
  <2> QED BY <1>6, <2>2, <2>3
<1>12. Journal'
  BY <1>4, <1>5, <1>6, <1>7, <1>10, <1>11 DEF Journal
<1> QED
  BY <1>3, <1>5, <1>6, <1>12 DEF Key

\* Rows of a journal in which time moves on are of different instants.
LEMMA RowsAreDated ==
  ASSUME NEW w \in Seq(Memory),
         \A i, j \in DOMAIN w : i < j => Precedes(w[i].at, w[j].at),
         NEW ms, \A m \in ms : m.id \in DOMAIN w /\ m = w[m.id]
  PROVE  Dated(ms)
<1>1. \A i \in DOMAIN w : w[i].at \in Instant
  <2>1. \A i \in DOMAIN w : w[i] \in Memory
    OBVIOUS
  <2> QED BY <2>1 DEF Memory
<1>2. \A i \in DOMAIN w : w[i].at[1] \in Nat /\ w[i].at[2] \in Nat
  <2>1. DOMAIN Fraction \subseteq Nat /\ (0 .. MaxSeconds) \subseteq Nat
    BY MemoryAssumption
  <2> QED BY <1>1, <2>1 DEF Instant
<1>3. ASSUME NEW i \in DOMAIN w, NEW j \in DOMAIN w, i # j
      PROVE  w[i].at # w[j].at
  <2>1. i < j \/ j < i
    BY <1>3
  <2>2. Precedes(w[i].at, w[j].at) \/ Precedes(w[j].at, w[i].at)
    BY <2>1
  <2> QED BY <1>2, <2>2 DEF Precedes
<1> QED
  BY <1>1, <1>3 DEF Dated

\* A memory joins a scope: no other scope changes.
LEMMA ScopeGrows ==
  ASSUME NEW ms, IsFiniteSet(ms), NEW m, NEW k
  PROVE  /\ IsFiniteSet(OfScope(k, ms)) /\ IsFiniteSet(OfScope(k, ms \cup {m}))
         /\ Cardinality(OfScope(k, ms)) \in Nat
         /\ Cardinality(OfScope(k, ms \cup {m})) \in Nat
         /\ Cardinality(OfScope(k, ms \cup {m})) <= Cardinality(OfScope(k, ms)) + 1
         /\ k # m.key => OfScope(k, ms \cup {m}) = OfScope(k, ms)
<1>1. IsFiniteSet(OfScope(k, ms))
  BY FS_Subset DEF OfScope
<1>2. CASE k = m.key
  <2>1. OfScope(k, ms \cup {m}) = OfScope(k, ms) \cup {m}
    BY <1>2 DEF OfScope
  <2>2. Cardinality(OfScope(k, ms)) \in Nat
    BY <1>1, FS_CardinalityType
  <2> DEFINE S == OfScope(k, ms)
  <2>3. /\ IsFiniteSet(S \cup {m})
        /\ \/ Cardinality(S \cup {m}) = Cardinality(S)
           \/ Cardinality(S \cup {m}) = Cardinality(S) + 1
    <3> HIDE DEF S
    <3> QED BY <1>1, FS_AddElement DEF S
  <2>4. /\ Cardinality(S \cup {m}) \in Nat
        /\ Cardinality(S \cup {m}) <= Cardinality(S) + 1
    BY <2>2, <2>3
  <2> QED
    BY <1>1, <1>2, <2>1, <2>2, <2>3, <2>4, Zenon
<1>3. CASE k # m.key
  <2>1. OfScope(k, ms \cup {m}) = OfScope(k, ms)
    BY <1>3 DEF OfScope
  <2> QED
    BY <1>1, <1>3, <2>1, FS_CardinalityType
<1> QED
  BY <1>2, <1>3

\* A scope that is cut keeps at most its cap; if anything goes it is full, and
\* nothing that stays is older than what goes.
LEMMA RetainCuts ==
  ASSUME NEW ms, IsFiniteSet(ms), Dated(ms), NEW k, NEW cap \in Nat
  PROVE  /\ Retain(k, cap, ms) \subseteq ms
         /\ \A l : l # k => OfScope(l, Retain(k, cap, ms)) = OfScope(l, ms)
         /\ \A m \in ms \ Retain(k, cap, ms) : m.key = k
         /\ Cardinality(OfScope(k, Retain(k, cap, ms))) <= cap
         /\ Retain(k, cap, ms) # ms => Cardinality(OfScope(k, Retain(k, cap, ms))) >= cap
         /\ \A m \in ms \ Retain(k, cap, ms), n \in OfScope(k, Retain(k, cap, ms)) : ~Older(n, m)
<1> DEFINE S == OfScope(k, ms)
           K == {m \in S : Rank(m, S) < cap}
<1>1. IsFiniteSet(S) /\ Dated(S)
  BY FS_Subset DEF OfScope, Dated
<1>2. Retain(k, cap, ms) = {m \in ms : m.key # k \/ Rank(m, S) < cap}
  BY DEF Retain, Rank, Newer
<1>3. OfScope(k, Retain(k, cap, ms)) = K
  BY <1>2 DEF OfScope
<1>4. ms \ Retain(k, cap, ms) = S \ K
  BY <1>2 DEF OfScope
<1>5. \A l : l # k => OfScope(l, Retain(k, cap, ms)) = OfScope(l, ms)
  BY <1>2 DEF OfScope
<1>6. Retain(k, cap, ms) \subseteq ms
  BY <1>2
<1>7. /\ Cardinality(K) <= cap
      /\ K # S => Cardinality(K) >= cap
      /\ \A m \in S \ K, n \in K : ~Older(n, m)
  <2> HIDE DEF S
  <2> QED BY <1>1, CutToSize
<1>8. \A m \in S \ K : m.key = k
  BY DEF OfScope
<1> HIDE DEF S, K
<1>9. K # S <=> Retain(k, cap, ms) # ms
  <2>1. K \subseteq S
    BY DEF K
  <2> QED BY <1>4, <1>6, <2>1
<1> QED
  BY <1>3, <1>4, <1>5, <1>6, <1>7, <1>8, <1>9

LEMMA InitRemembers == Init => MemoryInv
<1> SUFFICES ASSUME Init PROVE MemoryInv
  OBVIOUS
<1>1. Journal
  BY DEF Init, Journal
<1>2. Rows
  BY FS_EmptySet DEF Init, Rows
<1>3. Logged
  BY DEF Init, Logged, NoLog
<1>4. Marked
  BY DEF Init, Marked, Imports
<1>5. allowed \in [Key -> Nat]
  BY DEF Init
<1>6. CapKept
  <2>1. \A k \in Key : OfScope(k, memories) = {} /\ allowed[k] = 0
    BY DEF Init, OfScope
  <2> QED BY <2>1, FS_EmptySet DEF CapKept
<1> QED
  BY <1>1, <1>2, <1>3, <1>4, <1>5, <1>6 DEF MemoryInv

-----------------------------------------------------------------------------
(* The steps.                                                               *)

\* A new memory in the table, uncut: the rows and the caps stay sound.
LEMMA MemoryAdded ==
  ASSUME MemoryInv, NEW a \in Agent, NEW b \in BOOLEAN, NEW m \in Learned(a, b), Stored(m),
         memories' = memories \cup {m},
         Grown(m.key)
  PROVE  Journal' /\ Rows' /\ CapKept' /\ allowed' \in [Key -> Nat]
<1>1. /\ Journal' /\ m.key \in Key /\ m.id \in DOMAIN written' /\ written'[m.id] = m
      /\ \A i \in DOMAIN written : i \in DOMAIN written' /\ written'[i] = written[i]
  BY JournalGrows DEF MemoryInv
<1>2. IsFiniteSet(memories) /\ \A n \in memories : n.id \in DOMAIN written /\ n = written[n.id]
  BY DEF MemoryInv, Rows
<1>3. Rows'
  BY <1>1, <1>2, FS_AddElement DEF Rows
<1>4. allowed' \in [Key -> Nat]
  BY <1>1 DEF MemoryInv, Grown
<1>5. ASSUME NEW k \in Key
      PROVE  Cardinality(OfScope(k, memories')) <= allowed'[k]
  <2>1. Cardinality(OfScope(k, memories)) <= allowed[k]
        /\ allowed[k] \in Nat
    BY DEF MemoryInv, CapKept
  <2>2. CASE k = m.key
    <3>1. allowed'[k] = allowed[k] + 1
      BY <2>2 DEF MemoryInv, Grown
    <3>2. /\ Cardinality(OfScope(k, memories)) \in Nat
          /\ Cardinality(OfScope(k, memories')) \in Nat
          /\ Cardinality(OfScope(k, memories')) <= Cardinality(OfScope(k, memories)) + 1
      BY <1>2, ScopeGrows
    <3> QED BY <2>1, <3>1, <3>2
  <2>3. CASE k # m.key
    <3>1. allowed'[k] = allowed[k]
      BY <2>3 DEF MemoryInv, Grown, Cut
    <3>2. OfScope(k, memories') = OfScope(k, memories)
      BY <1>2, <2>3, ScopeGrows
    <3> QED BY <2>1, <3>1, <3>2
  <2> QED BY <2>2, <2>3
<1> QED
  BY <1>1, <1>3, <1>4, <1>5 DEF CapKept

\* A new memory, and its scope cut to size.
LEMMA MemoryCut ==
  ASSUME MemoryInv, NEW a \in Agent, NEW b \in BOOLEAN, NEW m \in Learned(a, b), Stored(m),
         NEW cap \in Nat, memories' = Retain(m.key, cap, memories \cup {m}),
         Cut(m.key, cap)
  PROVE  /\ Journal' /\ Rows' /\ CapKept' /\ allowed' \in [Key -> Nat]
         /\ IsFiniteSet(memories \cup {m}) /\ Dated(memories \cup {m})
<1>1. /\ Journal' /\ m.key \in Key /\ m.id \in DOMAIN written' /\ written'[m.id] = m
      /\ \A i \in DOMAIN written : i \in DOMAIN written' /\ written'[i] = written[i]
  BY JournalGrows DEF MemoryInv
<1>2. IsFiniteSet(memories) /\ \A n \in memories : n.id \in DOMAIN written /\ n = written[n.id]
  BY DEF MemoryInv, Rows
<1> DEFINE ms == memories \cup {m}
<1>3. IsFiniteSet(ms)
  BY <1>2, FS_AddElement
<1>4. \A n \in ms : n.id \in DOMAIN written' /\ n = written'[n.id]
  BY <1>1, <1>2
<1>5. Dated(ms)
  <2> HIDE DEF ms, Memory
  <2> QED BY <1>1, <1>4, RowsAreDated DEF Journal
<1> HIDE DEF ms
<1>6. memories' = Retain(m.key, cap, ms)
  BY DEF ms
<1>7. Rows'
  BY <1>3, <1>4, <1>5, <1>6, RetainCuts, FS_Subset DEF Rows
<1>8. allowed' \in [Key -> Nat]
  BY <1>1 DEF MemoryInv, Cut
<1>9. ASSUME NEW k \in Key
      PROVE  Cardinality(OfScope(k, memories')) <= allowed'[k]
  <2>1. Cardinality(OfScope(k, memories)) <= allowed[k]
        /\ allowed[k] \in Nat
    BY DEF MemoryInv, CapKept
  <2>2. CASE k = m.key
    <3>1. allowed'[k] = cap
      BY <2>2 DEF MemoryInv, Cut
    <3>2. Cardinality(OfScope(k, memories')) <= cap
      BY <1>3, <1>5, <1>6, <2>2, RetainCuts
    <3> QED BY <3>1, <3>2
  <2>3. CASE k # m.key
    <3>1. allowed'[k] = allowed[k]
      BY <2>3 DEF MemoryInv, Grown, Cut
    <3>2. OfScope(k, memories') = OfScope(k, ms)
      BY <1>3, <1>5, <1>6, <2>3, RetainCuts
    <3>3. OfScope(k, ms) = OfScope(k, memories)
      BY <1>2, <2>3, ScopeGrows DEF ms
    <3> QED BY <2>1, <3>1, <3>2, <3>3
  <2> QED BY <2>2, <2>3
<1> QED
  BY <1>1, <1>3, <1>5, <1>7, <1>8, <1>9 DEF CapKept, ms

\* An import adds one memory, and marks its agent unless the mark is lost.
LEMMA ImportKeeps ==
  ASSUME MemoryInv, NEW a \in Agent, NEW mishap, importLegacyMemory(a, mishap)
  PROVE  /\ Journal' /\ Rows' /\ CapKept' /\ Marked' /\ allowed' \in [Key -> Nat]
         /\ \A i \in DOMAIN written : i \in DOMAIN written' /\ written'[i] = written[i]
         /\ memories \subseteq memories'
<1>1. CASE UNCHANGED <<memories, clock, written, allowed, marked, unseen>>
  BY <1>1 DEF MemoryInv, Journal, Rows, CapKept, Marked, Imports
<1>2. CASE markMemoryImported(a, mishap) /\ UNCHANGED <<memories, clock, written, allowed>>
  <2>1. Journal' /\ Rows' /\ CapKept' /\ allowed' \in [Key -> Nat]
    BY <1>2 DEF MemoryInv, Journal, Rows, CapKept
  <2>2. \A b : Imports(b)' = Imports(b)
    BY <1>2 DEF Imports
  <2>3. marked \subseteq marked' /\ unseen \subseteq unseen'
    BY <1>2 DEF markMemoryImported
  <2>4. Marked'
    BY <2>2, <2>3 DEF MemoryInv, Marked
  <2> QED
    BY <1>2, <2>1, <2>4
<1>3. ASSUME markMemoryImported(a, mishap), NEW m \in Learned(a, TRUE), Stored(m),
             memories' = memories \cup {m},
             Grown(m.key)
      PROVE  /\ Journal' /\ Rows' /\ CapKept' /\ Marked' /\ allowed' \in [Key -> Nat]
             /\ \A i \in DOMAIN written : i \in DOMAIN written' /\ written'[i] = written[i]
             /\ memories \subseteq memories'
  <2>1. Journal' /\ Rows' /\ CapKept' /\ allowed' \in [Key -> Nat]
    BY <1>3, MemoryAdded
  <2>2. /\ m.id = Len(written) + 1 /\ m.agent = a /\ m.imported = TRUE
        /\ Len(written') = Len(written) + 1 /\ written'[m.id] = m
        /\ \A i \in DOMAIN written : i \in DOMAIN written' /\ written'[i] = written[i]
    BY <1>3, JournalGrows DEF MemoryInv
  <2>3. \A i \in DOMAIN written' : i \in DOMAIN written \/ i = m.id
    BY <2>1, <2>2 DEF MemoryInv, Journal
  <2>4. marked \subseteq marked' /\ unseen \subseteq unseen'
        /\ (a \notin unseen' => a \in marked' /\ a \notin marked)
    BY <1>3 DEF markMemoryImported
  <2>5. ASSUME NEW b \in Agent, b # a
        PROVE  Imports(b)' = Imports(b)
    BY <2>2, <2>3, <2>5 DEF Imports
  <2>6. Imports(a)' \subseteq Imports(a) \cup {m.id}
    BY <2>2, <2>3 DEF Imports
  <2>7. ASSUME NEW b \in Agent, b \notin unseen'
        PROVE  /\ \A i, j \in Imports(b)' : i = j
               /\ Imports(b)' # {} => b \in marked'
    <3>1. CASE b = a
      <4>1. Imports(a) = {}
        BY <2>4, <2>7, <3>1 DEF MemoryInv, Marked
      <4> QED BY <2>4, <2>6, <2>7, <3>1, <4>1
    <3>2. CASE b # a
      <4>1. Imports(b)' = Imports(b) /\ b \notin unseen
        BY <2>4, <2>5, <2>7, <3>2
      <4> QED BY <2>4, <4>1 DEF MemoryInv, Marked
    <3> QED BY <3>1, <3>2
  <2> QED
    BY <1>3, <2>1, <2>2, <2>7 DEF Marked
<1> QED
  BY <1>1, <1>2, <1>3 DEF importLegacyMemory

LEMMA StartRemembers ==
  ASSUME MemoryInv, NEW s \in Step, NEW mishap, StartStep(s, mishap)
  PROVE  MemoryInv' /\ memories \subseteq memories'
<1> DEFINE a == AgentOf[s]
           k == memoryScopeKey(a)
<1>1. a \in Agent
  BY MemoryAssumption
<1>2. importLegacyMemory(a, mishap)
  BY DEF StartStep
<1>3. /\ Journal' /\ Rows' /\ CapKept' /\ Marked' /\ allowed' \in [Key -> Nat]
      /\ \A i \in DOMAIN written : i \in DOMAIN written' /\ written'[i] = written[i]
      /\ memories \subseteq memories'
  <2> HIDE DEF a
  <2> QED BY <1>1, <1>2, ImportKeeps
<1>4. PICK recalled \in Recall(k, memories') :
        recallLog' = IF mishap \in {"recall", "log"} \/ recalled = <<>> THEN recallLog
                     ELSE [recallLog EXCEPT ![s] = Ids(recalled)]
  BY DEF StartStep, recallMemory
<1>5. /\ recallLog \in [Step -> SUBSET (DOMAIN written)]
      /\ \A t \in Step : \A id \in recallLog[t] : written[id].key = memoryScopeKey(AgentOf[t])
  BY DEF MemoryInv, Logged
<1>6. /\ Ids(recalled) \subseteq DOMAIN written'
      /\ \A id \in Ids(recalled) : written'[id].key = k
  <2>1. Range(recalled) \subseteq OfScope(k, memories')
    <3>1. IsFiniteSet(memories')
      BY <1>3 DEF Rows
    <3> HIDE DEF k
    <3> QED BY <3>1, RecallWithinScope
  <2>2. \A m \in Range(recalled) : m.id \in DOMAIN written' /\ written'[m.id].key = k
    BY <1>3, <2>1 DEF OfScope, Rows
  <2> QED BY <2>2 DEF Ids
<1>7. \A t \in Step : recallLog'[t] = recallLog[t] \/ (t = s /\ recallLog'[t] = Ids(recalled))
  BY <1>4, <1>5
<1>8. recallLog' \in [Step -> SUBSET (DOMAIN written')]
  <2>1. recallLog \in [Step -> SUBSET (DOMAIN written')]
    BY <1>3, <1>5
  <2> QED BY <1>4, <1>6, <2>1
<1>9. \A t \in Step : \A id \in recallLog'[t] : written'[id].key = memoryScopeKey(AgentOf[t])
  <2> TAKE t \in Step
  <2>1. CASE recallLog'[t] = recallLog[t]
    BY <1>3, <1>5, <2>1
  <2>2. CASE t = s /\ recallLog'[t] = Ids(recalled)
    BY <1>6, <2>2
  <2> QED BY <1>7, <2>1, <2>2
<1> QED
  BY <1>3, <1>8, <1>9 DEF MemoryInv, Logged

\* A step that completes imports nothing, and is given nothing.
LEMMA CompleteRemembers ==
  ASSUME MemoryInv, NEW s \in Step, NEW mishap, CompleteStep(s, mishap)
  PROVE  MemoryInv'
<1> DEFINE a == AgentOf[s]
           cap == resolveMemoryRetention(a, mishap)
<1>1. a \in Agent /\ cap \in Nat
  BY MemoryAssumption DEF resolveMemoryRetention
<1>2. PICK m \in Learned(a, FALSE) :
        /\ Stored(m)
        /\ \/ memories' = memories \cup {m} /\ Grown(m.key)
           \/ memories' = Retain(m.key, cap, memories \cup {m}) /\ Cut(m.key, cap)
  BY DEF CompleteStep, persistMemory
<1> HIDE DEF a, cap
<1>3. Journal' /\ Rows' /\ CapKept' /\ allowed' \in [Key -> Nat]
  BY <1>1, <1>2, MemoryAdded, MemoryCut
<1>4. /\ m.id = Len(written) + 1 /\ m.imported = FALSE
      /\ Len(written') = Len(written) + 1 /\ written'[m.id] = m
      /\ \A i \in DOMAIN written : i \in DOMAIN written' /\ written'[i] = written[i]
  BY <1>1, <1>2, JournalGrows DEF MemoryInv
<1>5. \A i \in DOMAIN written' : i \in DOMAIN written \/ i = m.id
  BY <1>3, <1>4 DEF MemoryInv, Journal
<1>6. recallLog' = recallLog /\ marked' = marked /\ unseen' = unseen
  BY DEF CompleteStep, marks
<1>7. Logged'
  BY <1>4, <1>6 DEF MemoryInv, Logged
<1>8. \A b : Imports(b)' = Imports(b)
  BY <1>4, <1>5 DEF Imports
<1>9. Marked'
  BY <1>6, <1>8 DEF MemoryInv, Marked
<1> QED
  BY <1>3, <1>7, <1>9 DEF MemoryInv

\* A deleted memory leaves its scope smaller, its row in the log and its id behind.
LEMMA DeleteRemembers ==
  ASSUME MemoryInv, NEW ns, NEW id, handleMemoryDelete(ns, id)
  PROVE  MemoryInv'
<1>1. memories' \subseteq memories
  BY DEF handleMemoryDelete, Forget
<1>2. UNCHANGED <<recallLog, marked, clock, written, allowed, unseen>>
  BY DEF handleMemoryDelete, marks
<1>3. Rows'
  BY <1>1, <1>2, FS_Subset DEF MemoryInv, Rows
<1>4. CapKept'
  <2> SUFFICES ASSUME NEW k \in Key
               PROVE  Cardinality(OfScope(k, memories')) <= allowed[k]
    BY <1>2 DEF CapKept
  <2>1. OfScope(k, memories') \in SUBSET OfScope(k, memories)
    BY <1>1 DEF OfScope
  <2>2. IsFiniteSet(OfScope(k, memories))
    BY ScopeGrows DEF MemoryInv, Rows
  <2>3. /\ Cardinality(OfScope(k, memories')) <= Cardinality(OfScope(k, memories))
        /\ Cardinality(OfScope(k, memories')) \in Nat
        /\ Cardinality(OfScope(k, memories)) \in Nat
    BY <2>1, <2>2, FS_Subset, FS_CardinalityType
  <2>4. /\ Cardinality(OfScope(k, memories)) <= allowed[k]
        /\ allowed[k] \in Nat
    BY DEF MemoryInv, CapKept
  <2> QED BY <2>3, <2>4
<1>5. Journal' /\ Logged' /\ Marked' /\ allowed' \in [Key -> Nat]
  BY <1>2 DEF MemoryInv, Journal, Logged, Marked, Imports
<1> QED
  BY <1>3, <1>4, <1>5 DEF MemoryInv

LEMMA NextRemembers == MemoryInv /\ [Next]_vars => MemoryInv'
<1> SUFFICES ASSUME MemoryInv, [Next]_vars PROVE MemoryInv'
  OBVIOUS
<1>1. ASSUME NEW s \in Step, PruneRecallLog(s)
      PROVE  MemoryInv'
  <2>1. UNCHANGED <<memories, marked, clock, written, allowed, unseen>>
    BY <1>1 DEF PruneRecallLog, marks
  <2>2. recallLog' = [recallLog EXCEPT ![s] = {}]
    BY <1>1 DEF PruneRecallLog, NoLog
  <2>3. Logged'
    BY <2>1, <2>2 DEF MemoryInv, Logged
  <2>4. Journal' /\ Rows' /\ CapKept' /\ Marked' /\ allowed' \in [Key -> Nat]
    BY <2>1 DEF MemoryInv, Journal, Rows, CapKept, Marked, Imports
  <2> QED BY <2>3, <2>4 DEF MemoryInv
<1>2. CASE SyncAgents \/ UNCHANGED vars
  BY <1>2 DEF SyncAgents, vars, store, marks, MemoryInv, Journal, Rows, Logged, CapKept, Marked, Imports
<1> QED
  BY <1>1, <1>2, StartRemembers, CompleteRemembers, DeleteRemembers DEF Next

LEMMA AlwaysRemembers == Spec => []MemoryInv
  BY InitRemembers, NextRemembers, PTL DEF Spec

-----------------------------------------------------------------------------
(* What is handed over.                                                     *)

Within(G, w) == Cardinality(G) <= 1 \/ SizeOf({w[id] : id \in G}) <= Budget

\* What a step is given are the rows its log names: at most one, or they fit.
LEMMA StartKeepsBudget ==
  ASSUME MemoryInv, NEW s \in Step, NEW mishap, StartStep(s, mishap), NEW t \in Step
  PROVE  recallLog'[t] = recallLog[t] \/ Within(recallLog'[t], written')
<1> DEFINE a == AgentOf[s]
           k == memoryScopeKey(a)
<1>1. Rows'
  <2>1. a \in Agent /\ importLegacyMemory(a, mishap)
    BY MemoryAssumption DEF StartStep
  <2> HIDE DEF a
  <2> QED BY <2>1, ImportKeeps
<1>2. PICK recalled \in Recall(k, memories') :
        recallLog' = IF mishap \in {"recall", "log"} \/ recalled = <<>> THEN recallLog
                     ELSE [recallLog EXCEPT ![s] = Ids(recalled)]
  BY DEF StartStep, recallMemory
<1>3. recallLog'[t] = recallLog[t] \/ recallLog'[t] = Ids(recalled)
  BY <1>2 DEF MemoryInv, Logged
<1>4. /\ Range(recalled) \subseteq memories'
      /\ Cardinality(Range(recalled)) <= 1 \/ SizeOf(Range(recalled)) <= Budget
  <2>1. IsFiniteSet(memories')
    BY <1>1 DEF Rows
  <2>2. OfScope(k, memories') \subseteq memories'
    BY DEF OfScope
  <2> HIDE DEF k
  <2> QED BY <2>1, <2>2, RecallWithinScope
<1>5. {written'[id] : id \in Ids(recalled)} = Range(recalled)
  <2>1. \A m \in Range(recalled) : m = written'[m.id]
    BY <1>1, <1>4 DEF Rows
  <2> QED BY <2>1 DEF Ids
<1>6. Cardinality(Range(recalled)) <= 1 => Cardinality(Ids(recalled)) <= 1
  <2> SUFFICES ASSUME Cardinality(Range(recalled)) <= 1
               PROVE  Cardinality(Ids(recalled)) <= 1
    OBVIOUS
  <2>1. IsFiniteSet(Range(recalled))
    BY <1>1, <1>4, FS_Subset DEF Rows
  <2>2. Cardinality(Range(recalled)) = 0 \/ Cardinality(Range(recalled)) = 1
    BY <2>1, FS_CardinalityType
  <2>3. ASSUME Range(recalled) = {}
        PROVE  Cardinality(Ids(recalled)) <= 1
    <3>1. Ids(recalled) = {}
      BY <2>3 DEF Ids
    <3>2. Cardinality(Ids(recalled)) = 0
      BY <3>1, FS_EmptySet
    <3> QED BY <3>2
  <2>4. ASSUME NEW m, Range(recalled) = {m}
        PROVE  Cardinality(Ids(recalled)) <= 1
    <3>1. Ids(recalled) = {m.id}
      BY <2>4 DEF Ids
    <3>2. Cardinality(Ids(recalled)) = 1
      BY <3>1, FS_Singleton
    <3> QED BY <3>2
  <2>5. Range(recalled) = {} \/ \E m : Range(recalled) = {m}
    BY <2>1, <2>2, FS_EmptySet, FS_Singleton
  <2> QED BY <2>3, <2>4, <2>5
<1>7. Within(Ids(recalled), written')
  BY <1>4, <1>5, <1>6 DEF Within
<1> QED
  BY <1>3, <1>7

\* The journal only grows, so what a step was given keeps its length.
LEMMA GivenKeepsLength ==
  ASSUME MemoryInv, [Next]_vars, NEW G \in SUBSET (DOMAIN written), Within(G, written)
  PROVE  Within(G, written')
<1>1. \A i \in DOMAIN written : written'[i] = written[i]
  <2>1. ASSUME NEW s \in Step, NEW mishap, StartStep(s, mishap)
        PROVE  \A i \in DOMAIN written : written'[i] = written[i]
    BY <2>1, MemoryAssumption, ImportKeeps DEF StartStep
  <2>2. ASSUME NEW s \in Step, NEW mishap, CompleteStep(s, mishap)
        PROVE  \A i \in DOMAIN written : written'[i] = written[i]
    <3>1. AgentOf[s] \in Agent
      BY MemoryAssumption
    <3>2. PICK m \in Learned(AgentOf[s], FALSE) : Stored(m)
      BY <2>2 DEF CompleteStep, persistMemory
    <3> QED BY <3>1, <3>2, JournalGrows DEF MemoryInv
  <2>3. ASSUME \/ \E ns \in Namespaces, id \in 1 .. Len(written) : handleMemoryDelete(ns, id)
               \/ \E s \in Step : PruneRecallLog(s)
               \/ SyncAgents
               \/ UNCHANGED vars
        PROVE  written' = written
    BY <2>3 DEF handleMemoryDelete, PruneRecallLog, SyncAgents, vars
  <2> QED BY <2>1, <2>2, <2>3 DEF Next
<1>2. {written'[id] : id \in G} = {written[id] : id \in G}
  BY <1>1
<1> QED
  BY <1>2 DEF Within

-----------------------------------------------------------------------------
(* The theorems.                                                            *)

\* However imports, completions, failed clean-ups and deletions interleave, a
\* scope holds its cap at most, and what came since it was last cut.
THEOREM CapIsKept == Spec => []CapKept
<1>1. MemoryInv => CapKept
  BY DEF MemoryInv
<1> QED
  BY <1>1, AlwaysRemembers, PTL

\* What a step was given was written by an agent of its own pool: also once the
\* memory is evicted, and whichever of the scope's memories the text matched.
THEOREM PoolsStayApart == Spec => []PoolsKeptApart
<1>1. MemoryInv => PoolsKeptApart
  <2> SUFFICES ASSUME MemoryInv, NEW s \in Step, NEW id \in recallLog[s]
               PROVE  written[id].agent \in Pool(AgentOf[s])
    BY DEF PoolsKeptApart
  <2>1. id \in DOMAIN written /\ written[id].key = memoryScopeKey(AgentOf[s])
    BY DEF MemoryInv, Logged
  <2>2. written[id].key = memoryScopeKey(written[id].agent)
    BY <2>1 DEF MemoryInv, Journal
  <2>3. written[id].agent \in Agent /\ AgentOf[s] \in Agent
    <3>1. written[id] \in Memory
      BY <2>1 DEF MemoryInv, Journal
    <3> QED BY <3>1, MemoryAssumption DEF Memory
  <2> QED BY <2>1, <2>2, <2>3, KeysArePools
<1> QED
  BY <1>1, AlwaysRemembers, PTL

\* While no mark of an agent was lost or overlooked, its legacy memory was stored
\* at most once.
THEOREM ImportsOnce == Spec => []ImportedOnce
<1>1. MemoryInv => ImportedOnce
  <2> SUFFICES ASSUME MemoryInv, NEW a \in Agent, a \notin unseen
               PROVE  Cardinality(Imports(a)) <= 1
    BY DEF ImportedOnce, Imports
  <2>1. \A i, j \in Imports(a) : i = j
    BY DEF MemoryInv, Marked
  <2>2. Imports(a) = {} \/ \E i \in Imports(a) : Imports(a) = {i}
    BY <2>1
  <2>3. Cardinality(Imports(a)) = 0 \/ Cardinality(Imports(a)) = 1
    BY <2>2, FS_EmptySet, FS_Singleton
  <2> QED BY <2>3
<1> QED
  BY <1>1, AlwaysRemembers, PTL

\* Eviction takes the oldest of the scope that just grew, in time but for the
\* fractions of a second whose zeros are trimmed, and leaves it as full as the cap
\* that was resolved allows, the default where the provider could not be read.
THEOREM OldestGoes == Spec => OldestGo
<1>1. MemoryInv /\ [Next]_vars =>
        [Len(written') > Len(written) =>
           LET new == Last(written')
               gone == (memories \cup {new}) \ memories'
               left == OfScope(new.key, memories') IN
           gone # {} =>
             /\ \A m \in gone : m.key = new.key
             /\ Cardinality(left) >= allowed'[new.key]
             /\ \A m \in gone, n \in left : Precedes(m.at, n.at) \/ TakenForNewer(n, m)]_vars
  <2> SUFFICES ASSUME MemoryInv, [Next]_vars, Len(written') > Len(written),
                      NEW new, new = Last(written'),
                      NEW gone, gone = (memories \cup {new}) \ memories', gone # {},
                      NEW left, left = OfScope(new.key, memories')
               PROVE  /\ \A m \in gone : m.key = new.key
                      /\ Cardinality(left) >= allowed'[new.key]
                      /\ \A m \in gone, n \in left :
                           Precedes(m.at, n.at) \/ TakenForNewer(n, m)
    OBVIOUS
  <2>1. written' # written
    BY DEF MemoryInv, Journal
  <2>2. PICK s \in Step, mishap \in Mishap : StartStep(s, mishap) \/ CompleteStep(s, mishap)
    BY <2>1 DEF Next, handleMemoryDelete, PruneRecallLog, SyncAgents, vars
  <2>3. AgentOf[s] \in Agent
    BY MemoryAssumption
  <2>4. CASE StartStep(s, mishap)
    <3>1. PICK m \in Learned(AgentOf[s], TRUE) : Stored(m) /\ memories' = memories \cup {m}
      BY <2>1, <2>4 DEF StartStep, importLegacyMemory
    <3>2. new = m
      BY <2>3, <3>1, JournalGrows DEF MemoryInv
    <3> QED BY <3>1, <3>2
  <2>5. CASE CompleteStep(s, mishap)
    <3> DEFINE cap == resolveMemoryRetention(AgentOf[s], mishap)
    <3>1. PICK m \in Learned(AgentOf[s], FALSE) :
            /\ Stored(m)
            /\ \/ memories' = memories \cup {m}
               \/ memories' = Retain(m.key, cap, memories \cup {m}) /\ Cut(m.key, cap)
      BY <2>5 DEF CompleteStep, persistMemory
    <3>2. new = m /\ m.key \in Key
      BY <2>3, <3>1, JournalGrows DEF MemoryInv
    <3>3. cap \in Nat
      BY <2>3, MemoryAssumption DEF resolveMemoryRetention
    <3> HIDE DEF cap
    <3> DEFINE ms == memories \cup {m}
    <3>4. memories' = Retain(m.key, cap, ms) /\ Cut(m.key, cap)
      BY <3>1, <3>2
    <3>5. IsFiniteSet(ms) /\ Dated(ms)
      BY <2>3, <3>1, <3>3, <3>4, MemoryCut
    <3>6. gone = ms \ memories' /\ allowed'[m.key] = cap
      BY <3>2, <3>4 DEF MemoryInv, Cut
    <3> HIDE DEF ms
    <3>7. /\ \A n \in gone : n.key = m.key
          /\ Cardinality(OfScope(m.key, memories')) >= cap
          /\ \A n \in gone, l \in OfScope(m.key, memories') : ~Older(l, n)
      BY <3>3, <3>4, <3>5, <3>6, RetainCuts
    <3>8. ASSUME NEW n \in gone, NEW l \in OfScope(m.key, memories')
          PROVE  Precedes(n.at, l.at) \/ TakenForNewer(l, n)
      <4>1. n \in ms /\ l \in ms /\ n # l
        BY <3>3, <3>4, <3>5, <3>6, RetainCuts DEF OfScope
      <4>2. ~Older(l, n)
        BY <3>7
      <4> QED BY <3>5, <4>1, <4>2, YoungerOrTrimmed
    <3> QED
      BY <3>2, <3>6, <3>7, <3>8
  <2> QED
    BY <2>2, <2>4, <2>5
<1> QED
  BY <1>1, AlwaysRemembers, PTL DEF Spec, OldestGo

\* What a step is given is one memory, or fits its budget: whatever the text
\* matched, and for as long as the row of its log stands.
THEOREM BudgetIsKept == Spec => []BudgetKept
<1>1. Init => BudgetKept
  <2>1. Cardinality({}) <= 1
    BY FS_EmptySet
  <2> QED BY <2>1 DEF Init, NoLog, BudgetKept
<1>2. MemoryInv /\ BudgetKept /\ [Next]_vars => BudgetKept'
  <2> SUFFICES ASSUME MemoryInv, BudgetKept, [Next]_vars, NEW t \in Step
               PROVE  Within(recallLog'[t], written')
    BY DEF BudgetKept, Within
  <2>1. recallLog \in [Step -> SUBSET (DOMAIN written)] /\ Within(recallLog[t], written)
    BY DEF MemoryInv, Logged, BudgetKept, Within
  <2>2. Within(recallLog[t], written')
    BY <2>1, GivenKeepsLength
  <2>3. CASE recallLog'[t] = recallLog[t]
    BY <2>2, <2>3 DEF Within
  <2>4. ASSUME NEW s \in Step, NEW mishap, StartStep(s, mishap)
        PROVE  Within(recallLog'[t], written')
    BY <2>3, <2>4, StartKeepsBudget
  <2>5. ASSUME NEW s \in Step, PruneRecallLog(s)
        PROVE  Within(recallLog'[t], written')
    <3>1. recallLog'[t] = recallLog[t] \/ recallLog'[t] = {}
      BY <2>1, <2>5 DEF PruneRecallLog, NoLog
    <3>2. Within({}, written')
      BY FS_EmptySet DEF Within
    <3> QED BY <2>3, <3>1, <3>2 DEF Within
  <2>6. ASSUME \/ \E s \in Step, mishap \in Mishap : CompleteStep(s, mishap)
               \/ \E ns \in Namespaces, id \in 1 .. Len(written) : handleMemoryDelete(ns, id)
               \/ SyncAgents
               \/ UNCHANGED vars
        PROVE  recallLog' = recallLog
    BY <2>6 DEF CompleteStep, handleMemoryDelete, SyncAgents, store, vars
  <2> QED
    BY <2>3, <2>4, <2>5, <2>6 DEF Next
<1> QED
  BY <1>1, <1>2, AlwaysRemembers, PTL DEF Spec
=============================================================================
