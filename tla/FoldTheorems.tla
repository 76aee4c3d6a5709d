---------------------------- MODULE FoldTheorems ----------------------------
(***************************************************************************)
(* Loops over a sequence.  The code walks through payments, pools, splits  *)
(* and hops, and the modules write such a loop as FoldLeft.  No prover can *)
(* instantiate a fact about every operator; this module is about one, its  *)
(* constant Op, and an INSTANCE of it gives the facts for the body of a    *)
(* particular loop.                                                        *)
(***************************************************************************)
EXTENDS SumTheorems, Sequences

CONSTANT Op(_, _)   \* the body of the loop: the state so far, the next element

-----------------------------------------------------------------------------
(* FoldLeft of the community modules is a recursion over sets of positions *)
(* that takes the highest one first.                                       *)

Highest(d) == CHOOSE i \in d : \A j \in d : i >= j

LoopEntry(base, s, g, d) ==
    IF d = {} THEN base ELSE LET i == Highest(d) IN Op(g[d \ {i}], s[i])

IsLoopTable(base, s, g, D) == g = [d \in SUBSET D |-> LoopEntry(base, s, g, d)]

\* The value of FoldLeft(Op, base, s).
Looped(base, s) == (CHOOSE g : IsLoopTable(base, s, g, DOMAIN s))[DOMAIN s]

LEMMA HighestIsThere ==
    ASSUME NEW n \in Nat, NEW d \in SUBSET (1..n), d # {}
    PROVE  Highest(d) \in d /\ \A j \in d : Highest(d) >= j
  <1> DEFINE gaps == {k \in Nat : n - k \in d}
  <1>1. gaps \subseteq Nat /\ gaps # {}
    <2>1. PICK i \in d : TRUE
      OBVIOUS
    <2>2. i \in 1..n /\ n - i \in Nat /\ n - (n - i) = i
      OBVIOUS
    <2> QED BY <2>2
  <1>2. PICK k \in gaps : \A l \in gaps : k <= l
    <2> HIDE DEF gaps
    <2> QED BY <1>1, LeastOfNaturals
  <1>3. ASSUME NEW j \in d PROVE n - k >= j
    <2>1. j \in 1..n /\ n - j \in Nat /\ n - (n - j) = j
      OBVIOUS
    <2>2. k <= n - j
      BY <1>2, <2>1
    <2> QED BY <2>1, <2>2
  <1>4. \E i \in d : \A j \in d : i >= j
    BY <1>2, <1>3
  <1> QED BY <1>4 DEF Highest

LEMMA HighestIsTaken ==
    ASSUME NEW n \in Nat, NEW d \in SUBSET (1..n), d # {}
    PROVE  /\ d \ {Highest(d)} \in SUBSET (1..n)
           /\ Cardinality(d) \in Nat
           /\ Cardinality(d \ {Highest(d)}) = Cardinality(d) - 1
  <1>1. IsFiniteSet(1..n)
    BY FS_Interval
  <1>2. IsFiniteSet(d) /\ Cardinality(d) \in Nat
    BY <1>1, FS_Subset, FS_CardinalityType
  <1> QED BY <1>2, HighestIsThere, FS_RemoveElement

LEMMA PartialLoops ==
    ASSUME NEW base, NEW s, NEW n \in Nat
    PROVE  \A k \in Nat : \E g : g = [d \in Small(1..n, k) |-> LoopEntry(base, s, g, d)]
  <1> DEFINE D == 1..n
             IsPart(g, k) == g = [d \in Small(D, k) |-> LoopEntry(base, s, g, d)]
             W == {k \in Nat : \E g : IsPart(g, k)}
  <1>0. IsFiniteSet(D)
    BY FS_Interval
  <1> HIDE DEF D
  <1>1. 0 \in W
    <2> DEFINE g == [d \in Small(D, 0) |-> base]
    <2>1. ASSUME NEW d \in Small(D, 0) PROVE d = {}
      <3>1. d \in SUBSET D /\ Cardinality(d) <= 0
        BY DEF Small
      <3>2. IsFiniteSet(d) /\ Cardinality(d) \in Nat
        BY <1>0, <3>1, FS_Subset, FS_CardinalityType
      <3> QED BY <3>1, <3>2, FS_EmptySet
    <2>2. \A d \in Small(D, 0) : LoopEntry(base, s, g, d) = base
      BY <2>1 DEF LoopEntry
    <2>3. IsPart(g, 0)
      BY <2>2
    <2> QED BY <2>3
  <1>2. ASSUME NEW k \in Nat, k \in W PROVE k + 1 \in W
    <2>1. PICK g : IsPart(g, k)
      BY <1>2
    <2> DEFINE h == [d \in Small(D, k + 1) |->
                       IF d \in Small(D, k) THEN g[d] ELSE LoopEntry(base, s, g, d)]
    <2>2. ASSUME NEW d \in Small(D, k + 1) PROVE h[d] = LoopEntry(base, s, g, d)
      BY <2>1
    <2>3. ASSUME NEW d \in Small(D, k + 1)
          PROVE  LoopEntry(base, s, h, d) = LoopEntry(base, s, g, d)
      <3>1. CASE d = {}
        BY <3>1 DEF LoopEntry
      <3>2. CASE d # {}
        <4> DEFINE i == Highest(d)
        <4>1. d \in SUBSET D /\ Cardinality(d) <= k + 1
          BY DEF Small
        <4>2. /\ d \ {i} \in SUBSET D
              /\ Cardinality(d) \in Nat
              /\ Cardinality(d \ {i}) = Cardinality(d) - 1
          BY <3>2, <4>1, HighestIsTaken DEF D
        <4>3. d \ {i} \in Small(D, k) /\ d \ {i} \in Small(D, k + 1)
          BY <4>1, <4>2 DEF Small
        <4>4. h[d \ {i}] = g[d \ {i}]
          BY <4>3
        <4> HIDE DEF h
        <4> QED BY <3>2, <4>4 DEF LoopEntry
      <3> QED BY <3>1, <3>2
    <2>4. IsPart(h, k + 1)
      BY <2>2, <2>3
    <2> HIDE DEF h, IsPart
    <2> QED BY <2>4
  <1> HIDE DEF W
  <1>3. \A k \in Nat : k \in W
    BY <1>1, <1>2, NatSetInduction
  <1> QED BY <1>3 DEF W, D

LEMMA LoopTableExists ==
    ASSUME NEW base, NEW s, NEW n \in Nat
    PROVE  \E g : IsLoopTable(base, s, g, 1..n)
  <1>1. IsFiniteSet(1..n) /\ Cardinality(1..n) = n
    BY FS_Interval
  <1>2. \A d \in SUBSET (1..n) : Cardinality(d) <= n
    BY <1>1, FS_Subset
  <1>3. Small(1..n, n) = SUBSET (1..n)
    BY <1>2 DEF Small
  <1>4. \E g : g = [d \in Small(1..n, n) |-> LoopEntry(base, s, g, d)]
    BY PartialLoops, ZenonT(30)
  <1> QED BY <1>3, <1>4 DEF IsLoopTable

-----------------------------------------------------------------------------
(* The states a loop runs through.                                         *)

IsTrace(t, base, s, n) ==
    /\ t[0] = base
    /\ \A i \in 1..n : t[i] = Op(t[i - 1], s[i])

\* A loop has a trace, and ends in its last state.
LEMMA LoopHasTrace ==
    ASSUME NEW base, NEW s, NEW n \in Nat, DOMAIN s = 1..n
    PROVE  \E t : IsTrace(t, base, s, n) /\ Looped(base, s) = t[n]
  <1> DEFINE g == CHOOSE g : IsLoopTable(base, s, g, 1..n)
             t == [i \in 0..n |-> g[1..i]]
  <1>1. IsLoopTable(base, s, g, 1..n)
    BY LoopTableExists
  <1>2. Looped(base, s) = g[1..n]
    BY DEF Looped
  <1> HIDE DEF g
  <1>3. ASSUME NEW i \in 0..n PROVE g[1..i] = LoopEntry(base, s, g, 1..i)
    <2>1. 1..i \in SUBSET (1..n)
      OBVIOUS
    <2> QED BY <1>1, <2>1 DEF IsLoopTable
  <1>4. t[0] = base
    <2>1. 0 \in 0..n /\ 1..0 = {}
      OBVIOUS
    <2> QED BY <1>3, <2>1 DEF LoopEntry
  <1>5. ASSUME NEW i \in 1..n PROVE t[i] = Op(t[i - 1], s[i])
    <2>1. i \in 0..n /\ i - 1 \in 0..n /\ i \in 1..i /\ \A j \in 1..i : j \in 1..n /\ j <= i
      OBVIOUS
    <2>2. Highest(1..i) = i
      <3>1. 1..i \in SUBSET (1..n) /\ 1..i # {}
        BY <2>1
      <3>2. Highest(1..i) \in 1..i /\ \A j \in 1..i : Highest(1..i) >= j
        BY <3>1, HighestIsThere
      <3> QED BY <2>1, <3>2
    <2>3. (1..i) \ {i} = 1..(i - 1)
      OBVIOUS
    <2>4. g[1..i] = Op(g[1..(i - 1)], s[i])
      BY <1>3, <2>1, <2>2, <2>3 DEF LoopEntry
    <2> QED BY <2>1, <2>4
  <1>6. t[n] = g[1..n]
    OBVIOUS
  <1> HIDE DEF t
  <1>7. IsTrace(t, base, s, n) /\ Looped(base, s) = t[n]
    BY <1>2, <1>4, <1>5, <1>6 DEF IsTrace
  <1> QED BY <1>7

\* What holds at first, and after each round if it held before, holds at the
\* end; W gives for each round the set of the states in which it holds.
LEMMA LoopInvariant ==
    ASSUME NEW base, NEW s, NEW n \in Nat, DOMAIN s = 1..n, NEW W,
           base \in W[0],
           \A i \in 1..n : \A a \in W[i - 1] : Op(a, s[i]) \in W[i]
    PROVE  Looped(base, s) \in W[n]
  <1>1. PICK t : IsTrace(t, base, s, n) /\ Looped(base, s) = t[n]
    BY LoopHasTrace
  <1> DEFINE V == {i \in Nat : i <= n => t[i] \in W[i]}
  <1>2. 0 \in V
    BY <1>1 DEF IsTrace
  <1>3. ASSUME NEW i \in Nat, i \in V PROVE i + 1 \in V
    <2> SUFFICES ASSUME i + 1 <= n PROVE t[i + 1] \in W[i + 1]
      OBVIOUS
    <2>1. i + 1 \in 1..n /\ (i + 1) - 1 = i /\ t[i] \in W[i]
      BY <1>3
    <2>2. t[i + 1] = Op(t[i], s[i + 1])
      BY <1>1, <2>1 DEF IsTrace
    <2> QED BY <2>1, <2>2
  <1> HIDE DEF V
  <1>4. n \in V
    BY <1>2, <1>3, NatSetInduction
  <1> QED BY <1>1, <1>4 DEF V

\* The same for a property that does not depend on the round.
LEMMA LoopKeeps ==
    ASSUME NEW base, NEW s, NEW n \in Nat, DOMAIN s = 1..n, NEW W,
           base \in W,
           \A i \in 1..n : \A a \in W : Op(a, s[i]) \in W
    PROVE  Looped(base, s) \in W
  <1> DEFINE Ws == [i \in 0..n |-> W]
  <1>1. base \in Ws[0]
    OBVIOUS
  <1>2. ASSUME NEW i \in 1..n, NEW a \in Ws[i - 1] PROVE Op(a, s[i]) \in Ws[i]
    OBVIOUS
  <1>3. Ws[n] = W
    OBVIOUS
  <1> HIDE DEF Ws
  <1> QED BY <1>1, <1>2, <1>3, LoopInvariant
=============================================================================
