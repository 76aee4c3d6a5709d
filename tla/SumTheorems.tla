---------------------------- MODULE SumTheorems ----------------------------
(***************************************************************************)
(* Sums over finite sets, for the books of the contracts: the supply of a  *)
(* token, the principal that is owed, the refunds that are held.  The      *)
(* community modules define SumFunctionOnSet(f, S) by a recursion over the *)
(* subsets of S that takes one chosen element after the other; what the    *)
(* proofs need of it is that the order makes no difference.                *)
(*                                                                         *)
(* The induction principles are stated with a set in place of a predicate, *)
(* so that they can be cited with a set that a proof defines.              *)
(***************************************************************************)
EXTENDS FiniteSetTheorems, TLAPS

-----------------------------------------------------------------------------
(* Induction.                                                              *)

\* Every non-empty set of natural numbers has a least element.
LEMMA LeastOfNaturals ==
    ASSUME NEW T, T \subseteq Nat, T # {}
    PROVE  \E x \in T : \A y \in T : x <= y
  <1> DEFINE below == {ss \in Nat \X Nat : ss[1] < ss[2]}
  <1>1. IsWellFoundedOn(below, Nat)
    BY NatLessThanWellFounded DEF OpToRel
  <1>2. \A y, x \in Nat : y < x => <<y, x>> \in below
    OBVIOUS
  <1> HIDE DEF below
  <1>3. PICK x \in T : \A y \in T : <<y, x>> \notin below
    BY <1>1, WFMin
  <1>4. ASSUME NEW y \in T PROVE x <= y
    <2>1. x \in Nat /\ y \in Nat /\ <<y, x>> \notin below
      BY <1>3
    <2> QED BY <1>2, <2>1
  <1> QED BY <1>4

LEMMA NatSetInduction ==
    ASSUME NEW W, 0 \in W, \A n \in Nat : n \in W => n + 1 \in W
    PROVE  \A n \in Nat : n \in W
  <1> DEFINE bad == {n \in Nat : n \notin W}
  <1> SUFFICES ASSUME bad # {} PROVE FALSE
    OBVIOUS
  <1>1. bad \subseteq Nat
    OBVIOUS
  <1>2. PICK n \in bad : \A k \in bad : n <= k
    <2> HIDE DEF bad
    <2> QED BY <1>1, LeastOfNaturals
  <1>3. n \in Nat /\ n \notin W
    OBVIOUS
  <1>4. n # 0
    BY <1>3
  <1>5. n - 1 \in Nat /\ (n - 1) + 1 = n
    BY <1>3, <1>4
  <1>6. n - 1 \notin W
    BY <1>3, <1>5
  <1>7. n - 1 \in bad
    BY <1>5, <1>6
  <1>8. n <= n - 1
    BY <1>2, <1>7
  <1> QED BY <1>3, <1>8

\* A set W holds of all subsets of S if it holds of each of which it holds of
\* all the smaller ones.
LEMMA SubsetInduction ==
    ASSUME NEW S, IsFiniteSet(S), NEW W,
           \A T \in SUBSET S : (\A U \in SUBSET T : U # T => U \in W) => T \in W
    PROVE  \A T \in SUBSET S : T \in W
  <1> DEFINE bad == {T \in SUBSET S : T \notin W}
             order == StrictSubsetOrdering(S)
  <1> SUFFICES ASSUME bad # {} PROVE FALSE
    OBVIOUS
  <1>1. IsWellFoundedOn(order, SUBSET S)
    <2>1. FiniteSubsetsOf(S) = SUBSET S
      BY FS_FiniteSubsetsOfFinite
    <2>2. IsWellFoundedOn(order, FiniteSubsetsOf(S))
      BY FS_StrictSubsetOrderingWellFounded
    <2> HIDE DEF order
    <2> QED BY <2>1, <2>2
  <1>2. PICK T \in bad : \A U \in bad : <<U, T>> \notin order
    <2>1. bad \subseteq SUBSET S
      OBVIOUS
    <2> HIDE DEF order, bad
    <2> QED BY <1>1, <2>1, WFMin
  <1>3. T \in SUBSET S /\ T \notin W
    OBVIOUS
  <1>4. PICK U \in SUBSET T : U # T /\ U \notin W
    BY <1>3
  <1>5. U \in SUBSET S
    BY <1>3, <1>4
  <1>6. U \in bad
    BY <1>4, <1>5
  <1>7. <<U, T>> \in (SUBSET S) \X (SUBSET S)
    BY <1>3, <1>5
  <1>8. <<U, T>> \in order
    BY <1>4, <1>7 DEF StrictSubsetOrdering
  <1> QED BY <1>2, <1>6, <1>8

-----------------------------------------------------------------------------
(* The recursion of the sum is well-founded: its table exists.             *)

\* The entry of s in a table g of sums.
Entry(f, g, s) == IF s = {} THEN 0 ELSE LET x == CHOOSE x \in s : TRUE IN f[x] + g[s \ {x}]

IsTable(f, g, S) == g = [s \in SUBSET S |-> Entry(f, g, s)]

Small(S, n) == {s \in SUBSET S : Cardinality(s) <= n}

LEMMA SumIsInTable ==
    ASSUME NEW f, NEW S
    PROVE  SumFunctionOnSet(f, S) = (CHOOSE g : IsTable(f, g, S))[S]
  BY DEF SumFunctionOnSet, FoldFunctionOnSet, MapThenFoldSet, IsTable, Entry

LEMMA ChosenElement ==
    ASSUME NEW S, IsFiniteSet(S), NEW s \in SUBSET S, s # {}
    PROVE  LET x == CHOOSE x \in s : TRUE
           IN  /\ x \in s
               /\ s \ {x} \in SUBSET S
               /\ s \ {x} # s
               /\ IsFiniteSet(s)
               /\ Cardinality(s) \in Nat
               /\ Cardinality(s \ {x}) = Cardinality(s) - 1
  <1>1. IsFiniteSet(s) /\ Cardinality(s) \in Nat
    BY FS_Subset, FS_CardinalityType
  <1>2. (CHOOSE x \in s : TRUE) \in s
    OBVIOUS
  <1> QED BY <1>1, <1>2, FS_RemoveElement

LEMMA PartialTables ==
    ASSUME NEW f, NEW S, IsFiniteSet(S)
    PROVE  \A n \in Nat : \E g : g = [s \in Small(S, n) |-> Entry(f, g, s)]
  <1> DEFINE IsPart(g, n) == g = [s \in Small(S, n) |-> Entry(f, g, s)]
             W == {n \in Nat : \E g : IsPart(g, n)}
  <1>1. 0 \in W
    <2> DEFINE g == [s \in Small(S, 0) |-> 0]
    <2>1. ASSUME NEW s \in Small(S, 0) PROVE s = {}
      <3>1. s \in SUBSET S /\ Cardinality(s) <= 0
        BY DEF Small
      <3>2. IsFiniteSet(s) /\ Cardinality(s) \in Nat
        BY <3>1, FS_Subset, FS_CardinalityType
      <3> QED BY <3>1, <3>2, FS_EmptySet
    <2>2. \A s \in Small(S, 0) : Entry(f, g, s) = 0
      BY <2>1 DEF Entry
    <2>3. IsPart(g, 0)
      BY <2>2
    <2> QED BY <2>3
  <1>2. ASSUME NEW n \in Nat, n \in W PROVE n + 1 \in W
    <2>1. PICK g : IsPart(g, n)
      BY <1>2
    <2> DEFINE h == [s \in Small(S, n + 1) |-> IF s \in Small(S, n) THEN g[s] ELSE Entry(f, g, s)]
    <2>2. ASSUME NEW s \in Small(S, n + 1) PROVE h[s] = Entry(f, g, s)
      BY <2>1
    <2>3. ASSUME NEW s \in Small(S, n + 1) PROVE Entry(f, h, s) = Entry(f, g, s)
      <3>1. CASE s = {}
        BY <3>1 DEF Entry
      <3>2. CASE s # {}
        <4> DEFINE x == CHOOSE x \in s : TRUE
        <4>1. s \in SUBSET S /\ Cardinality(s) <= n + 1
          BY DEF Small
        <4>2. /\ s \ {x} \in SUBSET S
              /\ Cardinality(s) \in Nat
              /\ Cardinality(s \ {x}) = Cardinality(s) - 1
          BY <3>2, <4>1, ChosenElement
        <4>3. s \ {x} \in Small(S, n) /\ s \ {x} \in Small(S, n + 1)
          BY <4>1, <4>2 DEF Small
        <4>4. h[s \ {x}] = g[s \ {x}]
          BY <4>3
        <4> HIDE DEF h
        <4> QED BY <3>2, <4>4 DEF Entry
      <3> QED BY <3>1, <3>2
    <2>4. IsPart(h, n + 1)
      BY <2>2, <2>3
    <2> HIDE DEF h, IsPart
    <2> QED BY <2>4
  <1> HIDE DEF W
  <1>3. \A n \in Nat : n \in W
    BY <1>1, <1>2, NatSetInduction
  <1> QED BY <1>3 DEF W

LEMMA TableExists ==
    ASSUME NEW f, NEW S, IsFiniteSet(S)
    PROVE  \E g : IsTable(f, g, S)
  <1> DEFINE n == Cardinality(S)
  <1>1. n \in Nat /\ \A s \in SUBSET S : Cardinality(s) <= n
    BY FS_CardinalityType, FS_Subset
  <1>2. Small(S, n) = SUBSET S
    BY <1>1 DEF Small
  <1>3. \E g : g = [s \in Small(S, n) |-> Entry(f, g, s)]
    BY <1>1, PartialTables
  <1> QED BY <1>2, <1>3 DEF IsTable

\* Two tables agree on the sets that both cover.
LEMMA TablesAgree ==
    ASSUME NEW f, NEW g, NEW h, NEW S, IsFiniteSet(S), NEW T \in SUBSET S,
           IsTable(f, g, S), IsTable(f, h, T)
    PROVE  g[T] = h[T]
  <1> DEFINE W == {s \in SUBSET T : g[s] = h[s]}
  <1>1. IsFiniteSet(T)
    BY FS_Subset
  <1>2. ASSUME NEW s \in SUBSET T, \A u \in SUBSET s : u # s => u \in W
        PROVE  s \in W
    <2>1. g[s] = Entry(f, g, s) /\ h[s] = Entry(f, h, s)
      BY DEF IsTable
    <2>2. CASE s = {}
      BY <2>1, <2>2 DEF Entry
    <2>3. CASE s # {}
      <3> DEFINE x == CHOOSE x \in s : TRUE
      <3>1. s \ {x} \in SUBSET s /\ s \ {x} # s
        BY <2>3
      <3>2. g[s \ {x}] = h[s \ {x}]
        BY <1>2, <3>1
      <3> QED BY <2>1, <2>3, <3>2 DEF Entry
    <2> QED BY <2>2, <2>3
  <1> HIDE DEF W
  <1>3. T \in W
    BY <1>1, <1>2, SubsetInduction
  <1> QED BY <1>3 DEF W

-----------------------------------------------------------------------------
(* What a sum is, whatever the order of its elements.                      *)

LEMMA SumEmpty ==
    ASSUME NEW f
    PROVE  SumFunctionOnSet(f, {}) = 0
  <1> DEFINE g == CHOOSE g : IsTable(f, g, {})
  <1>1. IsTable(f, g, {})
    BY FS_EmptySet, TableExists
  <1>2. g[{}] = Entry(f, g, {})
    BY <1>1 DEF IsTable
  <1> QED BY <1>2, SumIsInTable DEF Entry

LEMMA SumOfChosen ==
    ASSUME NEW f, NEW S, IsFiniteSet(S), S # {}
    PROVE  LET x == CHOOSE x \in S : TRUE
           IN  SumFunctionOnSet(f, S) = f[x] + SumFunctionOnSet(f, S \ {x})
  <1> DEFINE x == CHOOSE x \in S : TRUE
             T == S \ {x}
             g == CHOOSE g : IsTable(f, g, S)
             h == CHOOSE h : IsTable(f, h, T)
  <1>1. T \in SUBSET S /\ IsFiniteSet(T)
    BY FS_Subset
  <1>2. IsTable(f, g, S) /\ IsTable(f, h, T)
    BY <1>1, TableExists
  <1>3. SumFunctionOnSet(f, S) = g[S] /\ SumFunctionOnSet(f, T) = h[T]
    BY SumIsInTable
  <1>4. g[S] = Entry(f, g, S)
    BY <1>2 DEF IsTable
  <1>5. g[S] = f[x] + g[T]
    BY <1>4 DEF Entry
  <1> HIDE DEF g, h, T
  <1>6. g[T] = h[T]
    BY <1>1, <1>2, TablesAgree
  <1> QED BY <1>3, <1>5, <1>6 DEF T

LEMMA SumIsInteger ==
    ASSUME NEW f, NEW S, IsFiniteSet(S), \A x \in S : f[x] \in Int
    PROVE  SumFunctionOnSet(f, S) \in Int
  <1> DEFINE W == {T \in SUBSET S : SumFunctionOnSet(f, T) \in Int}
  <1>1. ASSUME NEW T \in SUBSET S, \A U \in SUBSET T : U # T => U \in W
        PROVE  T \in W
    <2>1. CASE T = {}
      BY <2>1, SumEmpty
    <2>2. CASE T # {}
      <3> DEFINE x == CHOOSE x \in T : TRUE
      <3>1. x \in T /\ T \ {x} \in SUBSET T /\ T \ {x} # T /\ IsFiniteSet(T)
        BY <2>2, FS_Subset
      <3>2. SumFunctionOnSet(f, T \ {x}) \in Int
        BY <1>1, <3>1
      <3>3. SumFunctionOnSet(f, T) = f[x] + SumFunctionOnSet(f, T \ {x})
        BY <2>2, <3>1, SumOfChosen
      <3> QED BY <3>1, <3>2, <3>3
    <2> QED BY <2>1, <2>2
  <1> HIDE DEF W
  <1>2. S \in W
    BY <1>1, SubsetInduction
  <1> QED BY <1>2 DEF W

\* Any element may be taken out first.
LEMMA SumRemove ==
    ASSUME NEW f, NEW S, IsFiniteSet(S), \A x \in S : f[x] \in Int, NEW y \in S
    PROVE  SumFunctionOnSet(f, S) = f[y] + SumFunctionOnSet(f, S \ {y})
  <1> DEFINE W == {T \in SUBSET S :
                     \A z \in T : SumFunctionOnSet(f, T) = f[z] + SumFunctionOnSet(f, T \ {z})}
  <1>1. ASSUME NEW T \in SUBSET S, \A U \in SUBSET T : U # T => U \in W,
               NEW z \in T
        PROVE  SumFunctionOnSet(f, T) = f[z] + SumFunctionOnSet(f, T \ {z})
    <2> DEFINE x == CHOOSE x \in T : TRUE
               V == (T \ {x}) \ {z}
    <2>1. x \in T /\ IsFiniteSet(T)
      BY FS_Subset
    <2>2. SumFunctionOnSet(f, T) = f[x] + SumFunctionOnSet(f, T \ {x})
      BY <2>1, SumOfChosen
    <2> HIDE DEF x
    <2>3. CASE x = z
      BY <2>2, <2>3
    <2>4. CASE x # z
      <3>1. T \ {x} \in W /\ T \ {z} \in W
        BY <1>1, <2>1
      <3>2. SumFunctionOnSet(f, T \ {x}) = f[z] + SumFunctionOnSet(f, V)
        BY <2>4, <3>1
      <3>3. V = (T \ {z}) \ {x}
        OBVIOUS
      <3>4. SumFunctionOnSet(f, T \ {z}) = f[x] + SumFunctionOnSet(f, V)
        BY <2>1, <2>4, <3>1, <3>3
      <3>5. V \in SUBSET S /\ IsFiniteSet(V) /\ \A v \in V : f[v] \in Int
        BY FS_Subset
      <3>6. SumFunctionOnSet(f, V) \in Int
        BY <3>5, SumIsInteger
      <3>7. f[x] \in Int /\ f[z] \in Int
        BY <2>1
      <3> QED BY <2>2, <3>2, <3>4, <3>6, <3>7
    <2> QED BY <2>3, <2>4
  <1>2. \A T \in SUBSET S : (\A U \in SUBSET T : U # T => U \in W) => T \in W
    BY <1>1
  <1> HIDE DEF W
  <1>3. S \in W
    BY <1>2, SubsetInduction
  <1> QED BY <1>3 DEF W

LEMMA SumAdd ==
    ASSUME NEW f, NEW S, IsFiniteSet(S), NEW y, y \notin S,
           \A x \in S \cup {y} : f[x] \in Int
    PROVE  SumFunctionOnSet(f, S \cup {y}) = f[y] + SumFunctionOnSet(f, S)
  <1>1. IsFiniteSet(S \cup {y}) /\ (S \cup {y}) \ {y} = S
    BY FS_AddElement
  <1> QED BY <1>1, SumRemove

LEMMA SumIsNatural ==
    ASSUME NEW f, NEW S, IsFiniteSet(S), \A x \in S : f[x] \in Nat
    PROVE  SumFunctionOnSet(f, S) \in Nat
  <1> DEFINE W == {T \in SUBSET S : SumFunctionOnSet(f, T) \in Nat}
  <1>1. ASSUME NEW T \in SUBSET S, \A U \in SUBSET T : U # T => U \in W
        PROVE  T \in W
    <2>1. CASE T = {}
      BY <2>1, SumEmpty
    <2>2. CASE T # {}
      <3>1. PICK x \in T : TRUE
        BY <2>2
      <3>2. IsFiniteSet(T) /\ T \ {x} \in W
        BY <1>1, <3>1, FS_Subset
      <3>3. SumFunctionOnSet(f, T) = f[x] + SumFunctionOnSet(f, T \ {x})
        BY <3>1, <3>2, SumRemove
      <3> QED BY <3>1, <3>2, <3>3
    <2> QED BY <2>1, <2>2
  <1> HIDE DEF W
  <1>2. S \in W
    BY <1>1, SubsetInduction
  <1> QED BY <1>2 DEF W

\* A sum depends on what it adds up only.
LEMMA SumCongruence ==
    ASSUME NEW f, NEW g, NEW S, IsFiniteSet(S),
           \A x \in S : f[x] \in Int /\ g[x] = f[x]
    PROVE  SumFunctionOnSet(g, S) = SumFunctionOnSet(f, S)
  <1> DEFINE W == {T \in SUBSET S : SumFunctionOnSet(g, T) = SumFunctionOnSet(f, T)}
  <1>1. ASSUME NEW T \in SUBSET S, \A U \in SUBSET T : U # T => U \in W
        PROVE  T \in W
    <2>1. CASE T = {}
      BY <2>1, SumEmpty
    <2>2. CASE T # {}
      <3>1. PICK x \in T : TRUE
        BY <2>2
      <3>2. IsFiniteSet(T) /\ T \ {x} \in W
        BY <1>1, <3>1, FS_Subset
      <3>3. /\ SumFunctionOnSet(f, T) = f[x] + SumFunctionOnSet(f, T \ {x})
            /\ SumFunctionOnSet(g, T) = g[x] + SumFunctionOnSet(g, T \ {x})
        BY <3>1, <3>2, SumRemove
      <3> QED BY <3>1, <3>2, <3>3
    <2> QED BY <2>1, <2>2
  <1> HIDE DEF W
  <1>2. S \in W
    BY <1>1, SubsetInduction
  <1> QED BY <1>2 DEF W

\* What an update of one element does to the sum.
LEMMA SumUpdate ==
    ASSUME NEW f, NEW g, NEW S, IsFiniteSet(S), NEW y \in S,
           \A x \in S : f[x] \in Int, g[y] \in Int,
           \A x \in S : x # y => g[x] = f[x]
    PROVE  /\ SumFunctionOnSet(g, S) = SumFunctionOnSet(f, S) - f[y] + g[y]
           /\ SumFunctionOnSet(f, S) \in Int
  <1> DEFINE T == S \ {y}
  <1>1. IsFiniteSet(T) /\ \A x \in T : f[x] \in Int /\ g[x] = f[x]
    BY FS_Subset
  <1>2. SumFunctionOnSet(g, T) = SumFunctionOnSet(f, T) /\ SumFunctionOnSet(f, T) \in Int
    BY <1>1, SumCongruence, SumIsInteger
  <1>3. \A x \in S : g[x] \in Int
    OBVIOUS
  <1>4. /\ SumFunctionOnSet(f, S) = f[y] + SumFunctionOnSet(f, T)
        /\ SumFunctionOnSet(g, S) = g[y] + SumFunctionOnSet(g, T)
    BY <1>3, SumRemove
  <1> HIDE DEF T
  <1> QED BY <1>2, <1>4

LEMMA SumMonotone ==
    ASSUME NEW f, NEW g, NEW S, IsFiniteSet(S),
           \A x \in S : f[x] \in Int /\ g[x] \in Int /\ f[x] <= g[x]
    PROVE  SumFunctionOnSet(f, S) <= SumFunctionOnSet(g, S)
  <1> DEFINE W == {T \in SUBSET S : SumFunctionOnSet(f, T) <= SumFunctionOnSet(g, T)}
  <1>1. ASSUME NEW T \in SUBSET S, \A U \in SUBSET T : U # T => U \in W
        PROVE  T \in W
    <2>1. CASE T = {}
      BY <2>1, SumEmpty
    <2>2. CASE T # {}
      <3>1. PICK x \in T : TRUE
        BY <2>2
      <3>2. IsFiniteSet(T) /\ IsFiniteSet(T \ {x}) /\ T \ {x} \in W
        BY <1>1, <3>1, FS_Subset
      <3>3. /\ SumFunctionOnSet(f, T) = f[x] + SumFunctionOnSet(f, T \ {x})
            /\ SumFunctionOnSet(g, T) = g[x] + SumFunctionOnSet(g, T \ {x})
        BY <3>1, <3>2, SumRemove
      <3>4. SumFunctionOnSet(f, T \ {x}) \in Int /\ SumFunctionOnSet(g, T \ {x}) \in Int
        BY <3>2, SumIsInteger
      <3>5. SumFunctionOnSet(f, T \ {x}) <= SumFunctionOnSet(g, T \ {x})
        BY <3>2
      <3>6. f[x] \in Int /\ g[x] \in Int /\ f[x] <= g[x]
        BY <3>1
      <3> HIDE DEF W
      <3>7. SumFunctionOnSet(f, T) <= SumFunctionOnSet(g, T)
        BY <3>3, <3>4, <3>5, <3>6
      <3> QED BY <3>7 DEF W
    <2> QED BY <2>1, <2>2
  <1> HIDE DEF W
  <1>2. S \in W
    BY <1>1, SubsetInduction
  <1> QED BY <1>2 DEF W

LEMMA SumOfZeros ==
    ASSUME NEW f, NEW S, IsFiniteSet(S), \A x \in S : f[x] = 0
    PROVE  SumFunctionOnSet(f, S) = 0
  <1> DEFINE W == {T \in SUBSET S : SumFunctionOnSet(f, T) = 0}
  <1>1. ASSUME NEW T \in SUBSET S, \A U \in SUBSET T : U # T => U \in W
        PROVE  T \in W
    <2>1. CASE T = {}
      BY <2>1, SumEmpty
    <2>2. CASE T # {}
      <3>1. PICK x \in T : TRUE
        BY <2>2
      <3>2. IsFiniteSet(T) /\ T \ {x} \in W
        BY <1>1, <3>1, FS_Subset
      <3>3. SumFunctionOnSet(f, T) = f[x] + SumFunctionOnSet(f, T \ {x})
        BY <3>1, <3>2, SumRemove
      <3> QED BY <3>1, <3>2, <3>3
    <2> QED BY <2>1, <2>2
  <1> HIDE DEF W
  <1>2. S \in W
    BY <1>1, SubsetInduction
  <1> QED BY <1>2 DEF W

\* The sum over a set and over the rest of it.
LEMMA SumSplit ==
    ASSUME NEW f, NEW S, IsFiniteSet(S), \A x \in S : f[x] \in Int, NEW R \in SUBSET S
    PROVE  SumFunctionOnSet(f, S) = SumFunctionOnSet(f, R) + SumFunctionOnSet(f, S \ R)
  <1> DEFINE W == {T \in SUBSET R : SumFunctionOnSet(f, (S \ R) \cup T)
                                       = SumFunctionOnSet(f, T) + SumFunctionOnSet(f, S \ R)}
  <1>0. IsFiniteSet(R) /\ IsFiniteSet(S \ R)
    BY FS_Subset
  <1>1. ASSUME NEW T \in SUBSET R, \A U \in SUBSET T : U # T => U \in W
        PROVE  T \in W
    <2> DEFINE a == SumFunctionOnSet(f, S \ R)
    <2>0. a \in Int
      BY <1>0, SumIsInteger
    <2>1. CASE T = {}
      <3>1. (S \ R) \cup T = S \ R /\ SumFunctionOnSet(f, T) = 0
        BY <2>1, SumEmpty
      <3> QED BY <2>0, <3>1
    <2>2. CASE T # {}
      <3>1. PICK x \in T : TRUE
        BY <2>2
      <3> DEFINE U == T \ {x}
      <3>2. IsFiniteSet(T) /\ IsFiniteSet(U) /\ U \in W
        BY <1>0, <1>1, <3>1, FS_Subset
      <3>3. /\ IsFiniteSet((S \ R) \cup T) /\ x \in (S \ R) \cup T
            /\ ((S \ R) \cup T) \ {x} = (S \ R) \cup U
            /\ \A y \in (S \ R) \cup T : f[y] \in Int
        BY <3>1, FS_Subset
      <3>4. /\ SumFunctionOnSet(f, T) = f[x] + SumFunctionOnSet(f, U)
            /\ SumFunctionOnSet(f, (S \ R) \cup T) = f[x] + SumFunctionOnSet(f, (S \ R) \cup U)
        BY <3>1, <3>2, <3>3, SumRemove
      <3>5. SumFunctionOnSet(f, U) \in Int /\ f[x] \in Int
        BY <3>1, <3>2, SumIsInteger
      <3>6. SumFunctionOnSet(f, (S \ R) \cup U) = SumFunctionOnSet(f, U) + a
        BY <3>2
      <3> HIDE DEF U, a
      <3>7. SumFunctionOnSet(f, (S \ R) \cup T) = SumFunctionOnSet(f, T) + a
        BY <2>0, <3>4, <3>5, <3>6
      <3> QED BY <3>7 DEF a
    <2> QED BY <2>1, <2>2
  <1> HIDE DEF W
  <1>2. R \in W
    BY <1>0, <1>1, SubsetInduction
  <1>3. (S \ R) \cup R = S
    OBVIOUS
  <1> QED BY <1>2, <1>3 DEF W
============================================================================
