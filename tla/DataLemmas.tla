----------------------------- MODULE DataLemmas -----------------------------
(***************************************************************************)
(* Lemmas about numbers, finite sets and sequences that the proofs of      *)
(* several components need.  Induction is done by the least                *)
(* counterexample: the library's induction theorems take a predicate as a  *)
(* parameter, WFMin takes a set.                                           *)
(***************************************************************************)
EXTENDS Integers, FiniteSetsExt, FiniteSetTheorems, WellFoundedInduction, TLAPS

\* Every set of natural numbers but the empty one has a least element.
LEMMA LeastNatural ==
    ASSUME NEW T, T \subseteq Nat, T # {}
    PROVE  \E x \in T : \A y \in T : x <= y
<1> DEFINE R == {ss \in Nat \X Nat : ss[1] < ss[2]}
<1>1. IsWellFoundedOn(R, Nat)
  BY NatLessThanWellFounded DEF OpToRel
<1> HIDE DEF R
<1>2. PICK x \in T : \A y \in T : ~ (<<y, x>> \in R)
  BY <1>1, WFMin
<1>3. \A m, n \in Nat : m < n => <<m, n>> \in R
  BY DEF R
<1>4. ASSUME NEW y \in T
      PROVE  x <= y
  <2>1. x \in Nat /\ y \in Nat
    OBVIOUS
  <2>2. ~ (y < x)
    BY <1>2, <1>3, <2>1
  <2> QED BY <2>1, <2>2
<1> QED BY <1>2, <1>4

\* A set of numbers up to n that is not empty has a maximum and a minimum.
LEMMA MaxOfBounded ==
    ASSUME NEW n \in Nat, NEW I, I \subseteq 1 .. n, I # {}
    PROVE  Max(I) \in I /\ \A i \in I : Max(I) >= i
<1> DEFINE T == {n - i : i \in I}
<1>1. T \subseteq Nat /\ T # {}
  <2>1. \A i \in 1 .. n : n - i \in Nat
    OBVIOUS
  <2>2. \A i \in I : n - i \in Nat
    BY <2>1
  <2> QED BY <2>2
<1>2. PICK x \in T : \A y \in T : x <= y
  BY <1>1, LeastNatural
<1>3. PICK m \in I : x = n - m
  OBVIOUS
<1>4. ASSUME NEW i \in I
      PROVE  m >= i
  <2>1. n - m <= n - i
    BY <1>2, <1>3
  <2>2. m \in Int /\ i \in Int
    OBVIOUS
  <2> QED BY <2>1, <2>2
<1> QED BY <1>4 DEF Max

LEMMA MinOfBounded ==
    ASSUME NEW n \in Nat, NEW I, I \subseteq 1 .. n, I # {}
    PROVE  Min(I) \in I /\ \A i \in I : Min(I) <= i
<1>1. I \subseteq Nat
  OBVIOUS
<1>2. \E m \in I : \A i \in I : m <= i
  BY <1>1, LeastNatural
<1> QED BY <1>2 DEF Min

-----------------------------------------------------------------------------
(* Sums.                                                                   *)

\* Of the subsets of a finite set that are in Bad, one has no smaller one.
LEMMA SmallestSubset ==
    ASSUME NEW S, IsFiniteSet(S), NEW Bad, Bad \subseteq SUBSET S, Bad # {}
    PROVE  \E V \in Bad : IsFiniteSet(V) /\ \A x \in V : V \ {x} \notin Bad
<1> DEFINE T == {Cardinality(V) : V \in Bad}
<1>1. \A V \in Bad : IsFiniteSet(V) /\ Cardinality(V) \in Nat
  BY FS_Subset, FS_CardinalityType
<1>2. PICK n \in T : \A m \in T : n <= m
  <2>1. T \subseteq Nat /\ T # {}
    BY <1>1
  <2> HIDE DEF T
  <2>2. QED
    BY <2>1, LeastNatural
<1>3. PICK V \in Bad : Cardinality(V) = n
  OBVIOUS
<1>4. ASSUME NEW x \in V, V \ {x} \in Bad
      PROVE  FALSE
  <2>1. Cardinality(V \ {x}) = Cardinality(V) - 1
    BY <1>1, FS_RemoveElement
  <2>2. n <= Cardinality(V \ {x})
    BY <1>2, <1>4
  <2>3. QED
    BY <1>1, <1>3, <2>1, <2>2
<1>5. QED
  BY <1>1, <1>4

\* The recursion behind SumFunctionOnSet, as an equation for the table g of the
\* sums over all subsets of S.
Chosen(s) == CHOOSE x \in s : TRUE
SumTable(f, S, g) == g = [s \in SUBSET S |-> IF s = {} THEN 0 ELSE f[Chosen(s)] + g[s \ {Chosen(s)}]]
Summed(f, S) == CHOOSE g : SumTable(f, S, g)

LEMMA SumIsTable ==
    ASSUME NEW f, NEW S
    PROVE  SumFunctionOnSet(f, S) = Summed(f, S)[S]
  BY DEF SumFunctionOnSet, FoldFunctionOnSet, MapThenFoldSet, Summed, SumTable, Chosen

LEMMA SumTableRow ==
    ASSUME NEW f, NEW S, NEW g, SumTable(f, S, g), NEW V \in SUBSET S
    PROVE  /\ V = {} => g[V] = 0
           /\ V # {} => Chosen(V) \in V /\ g[V] = f[Chosen(V)] + g[V \ {Chosen(V)}]
<1>1. V # {} => Chosen(V) \in V
  BY DEF Chosen
<1>2. g[V] = IF V = {} THEN 0 ELSE f[Chosen(V)] + g[V \ {Chosen(V)}]
  BY DEF SumTable
<1>3. QED
  BY <1>1, <1>2

\* Two tables agree wherever their functions do.
LEMMA SumTablesAgree ==
    ASSUME NEW f, NEW S, NEW g, SumTable(f, S, g),
           NEW f2, NEW S2, NEW g2, SumTable(f2, S2, g2),
           NEW U, IsFiniteSet(U), U \subseteq S, U \subseteq S2, \A x \in U : f[x] = f2[x]
    PROVE  g[U] = g2[U]
<1> DEFINE Bad == {V \in SUBSET U : g[V] # g2[V]}
<1>1. SUFFICES ASSUME Bad # {} PROVE FALSE
  OBVIOUS
<1>2. PICK V \in Bad : \A x \in V : V \ {x} \notin Bad
  <2>1. Bad \subseteq SUBSET U
    OBVIOUS
  <2> HIDE DEF Bad
  <2>2. QED
    BY <1>1, <2>1, SmallestSubset
<1>3. V \in SUBSET S /\ V \in SUBSET S2
  OBVIOUS
<1>4. V # {}
  BY <1>3, SumTableRow
<1>5. /\ Chosen(V) \in V
      /\ g[V] = f[Chosen(V)] + g[V \ {Chosen(V)}]
      /\ g2[V] = f2[Chosen(V)] + g2[V \ {Chosen(V)}]
  BY <1>3, <1>4, SumTableRow
<1>6. g[V \ {Chosen(V)}] = g2[V \ {Chosen(V)}]
  BY <1>2, <1>5
<1>7. QED
  BY <1>5, <1>6

\* Every finite set has a table.
LEMMA SumTableExists ==
    ASSUME NEW f, NEW S, IsFiniteSet(S)
    PROVE  SumTable(f, S, Summed(f, S))
<1> DEFINE Bad == {V \in SUBSET S : ~ \E g : SumTable(f, V, g)}
<1>1. ASSUME Bad # {}
      PROVE  FALSE
  <2>1. PICK V \in Bad : IsFiniteSet(V) /\ \A x \in V : V \ {x} \notin Bad
    <3>1. Bad \subseteq SUBSET S
      OBVIOUS
    <3> HIDE DEF Bad
    <3>2. QED
      BY <1>1, <3>1, SmallestSubset
  <2>2. \A x \in V : SumTable(f, V \ {x}, Summed(f, V \ {x}))
    BY <2>1 DEF Summed
  <2> DEFINE below(s) == CHOOSE x \in V : x \notin s
             row(s) == IF s = {} THEN 0
                       ELSE f[Chosen(s)] + Summed(f, V \ {Chosen(s)})[s \ {Chosen(s)}]
             g == [s \in SUBSET V |-> row(s)]
  <2>3. ASSUME NEW s \in SUBSET V, NEW x \in V, NEW y \in V, s \subseteq V \ {x}, s \subseteq V \ {y}
        PROVE  Summed(f, V \ {x})[s] = Summed(f, V \ {y})[s]
    <3>1. IsFiniteSet(s)
      BY <2>1, FS_Subset
    <3>2. SumTable(f, V \ {x}, Summed(f, V \ {x})) /\ SumTable(f, V \ {y}, Summed(f, V \ {y}))
      BY <2>2
    <3>3. QED
      BY <2>3, <3>1, <3>2, SumTablesAgree
  <2>4. ASSUME NEW s \in SUBSET V, NEW x \in V, s \subseteq V \ {x}
        PROVE  row(s) = Summed(f, V \ {x})[s]
    <3>1. SumTable(f, V \ {x}, Summed(f, V \ {x})) /\ s \in SUBSET (V \ {x})
      BY <2>2, <2>4
    <3>2. CASE s = {}
      BY <3>1, <3>2, SumTableRow
    <3>3. CASE s # {}
      <4> DEFINE c == Chosen(s)
      <4>1. c \in s /\ Summed(f, V \ {x})[s] = f[c] + Summed(f, V \ {x})[s \ {c}]
        BY <3>1, <3>3, SumTableRow
      <4> HIDE DEF c
      <4>2. Summed(f, V \ {x})[s \ {c}] = Summed(f, V \ {c})[s \ {c}]
        <5>1. s \ {c} \in SUBSET V /\ c \in V /\ s \ {c} \subseteq V \ {x} /\ s \ {c} \subseteq V \ {c}
          BY <2>4, <4>1
        <5>2. QED
          BY <2>3, <5>1
      <4>3. row(s) = f[c] + Summed(f, V \ {c})[s \ {c}]
        BY <3>3 DEF c
      <4>4. QED
        BY <4>1, <4>2, <4>3
    <3>4. QED
      BY <3>2, <3>3
  <2>5. ASSUME NEW s \in SUBSET V
        PROVE  row(s) = IF s = {} THEN 0 ELSE f[Chosen(s)] + g[s \ {Chosen(s)}]
    <3>1. CASE s = {}
      BY <3>1
    <3>2. CASE s # {}
      <4> DEFINE c == Chosen(s)
      <4>1. c \in s
        BY <3>2 DEF Chosen
      <4>2. row(s) = f[c] + Summed(f, V \ {c})[s \ {c}]
        BY <3>2
      <4> HIDE DEF c, row
      <4>3. s \ {c} \in SUBSET V /\ s \ {c} \subseteq V \ {c} /\ c \in V
        BY <4>1
      <4>4. row(s \ {c}) = Summed(f, V \ {c})[s \ {c}]
        BY <2>4, <4>3
      <4>5. g[s \ {c}] = row(s \ {c})
        BY <4>3
      <4> HIDE DEF g
      <4>6. row(s) = f[c] + g[s \ {c}]
        BY <4>2, <4>4, <4>5
      <4>7. QED
        BY <3>2, <4>6 DEF c
    <3>3. QED
      BY <3>1, <3>2
  <2>6. SumTable(f, V, g)
    <3> HIDE DEF row
    <3>1. g = [s \in SUBSET V |-> IF s = {} THEN 0 ELSE f[Chosen(s)] + g[s \ {Chosen(s)}]]
      BY <2>5
    <3>2. QED
      BY <3>1 DEF SumTable
  <2>7. QED
    BY <2>1, <2>6
<1>2. \E g : SumTable(f, S, g)
  BY <1>1
<1>3. QED
  BY <1>2 DEF Summed

\* The recursion of a sum: no element, or the chosen one and the rest.
LEMMA SumRecursion ==
    ASSUME NEW f, NEW S, IsFiniteSet(S)
    PROVE  /\ S = {} => SumFunctionOnSet(f, S) = 0
           /\ S # {} => /\ Chosen(S) \in S
                        /\ SumFunctionOnSet(f, S) = f[Chosen(S)] + SumFunctionOnSet(f, S \ {Chosen(S)})
<1> DEFINE c == Chosen(S)
<1>1. SumTable(f, S, Summed(f, S)) /\ SumFunctionOnSet(f, S) = Summed(f, S)[S]
  BY SumTableExists, SumIsTable
<1>2. CASE S = {}
  BY <1>1, <1>2, SumTableRow
<1>3. CASE S # {}
  <2>1. c \in S /\ Summed(f, S)[S] = f[c] + Summed(f, S)[S \ {c}]
    BY <1>1, <1>3, SumTableRow
  <2> HIDE DEF c
  <2>2. IsFiniteSet(S \ {c})
    BY FS_RemoveElement
  <2>3. SumTable(f, S \ {c}, Summed(f, S \ {c})) /\ SumFunctionOnSet(f, S \ {c}) = Summed(f, S \ {c})[S \ {c}]
    BY <2>2, SumTableExists, SumIsTable
  <2>4. Summed(f, S)[S \ {c}] = Summed(f, S \ {c})[S \ {c}]
    <3>1. S \ {c} \subseteq S
      OBVIOUS
    <3>2. QED
      BY <1>1, <2>2, <2>3, <3>1, SumTablesAgree
  <2>5. QED
    BY <1>1, <1>3, <2>1, <2>3, <2>4 DEF c
<1>4. QED
  BY <1>2, <1>3

LEMMA SumEqual ==
    ASSUME NEW f, NEW f2, NEW S, IsFiniteSet(S), \A x \in S : f[x] = f2[x]
    PROVE  SumFunctionOnSet(f, S) = SumFunctionOnSet(f2, S)
<1>1. SumTable(f, S, Summed(f, S)) /\ SumTable(f2, S, Summed(f2, S))
  BY SumTableExists
<1>2. Summed(f, S)[S] = Summed(f2, S)[S]
  BY <1>1, SumTablesAgree
<1>3. QED
  BY <1>2, SumIsTable

\* A sum of integers is one.
LEMMA SumIsInt ==
    ASSUME NEW f, NEW S, IsFiniteSet(S), \A x \in S : f[x] \in Int
    PROVE  SumFunctionOnSet(f, S) \in Int
<1> DEFINE Bad == {V \in SUBSET S : SumFunctionOnSet(f, V) \notin Int}
<1>1. SUFFICES ASSUME Bad # {} PROVE FALSE
  OBVIOUS
<1>2. PICK V \in Bad : IsFiniteSet(V) /\ \A x \in V : V \ {x} \notin Bad
  <2>1. Bad \subseteq SUBSET S
    OBVIOUS
  <2> HIDE DEF Bad
  <2>2. QED
    BY <1>1, <2>1, SmallestSubset
<1>3. V # {}
  <2>1. 0 \in Int /\ SumFunctionOnSet(f, V) \notin Int
    BY <1>2
  <2>2. QED
    BY <1>2, <2>1, SumRecursion
<1>4. /\ Chosen(V) \in V
      /\ SumFunctionOnSet(f, V) = f[Chosen(V)] + SumFunctionOnSet(f, V \ {Chosen(V)})
  BY <1>2, <1>3, SumRecursion
<1>5. f[Chosen(V)] \in Int /\ SumFunctionOnSet(f, V \ {Chosen(V)}) \in Int
  BY <1>2, <1>4
<1>6. SumFunctionOnSet(f, V) \in Int
  BY <1>4, <1>5
<1>7. QED
  BY <1>6

\* The order of the summands does not matter: any of them can be split off.
LEMMA SumSplit ==
    ASSUME NEW f, NEW S, IsFiniteSet(S), \A x \in S : f[x] \in Int, NEW x \in S
    PROVE  SumFunctionOnSet(f, S) = f[x] + SumFunctionOnSet(f, S \ {x})
<1> DEFINE sum(V) == SumFunctionOnSet(f, V)
           Bad == {V \in SUBSET S : \E y \in V : sum(V) # f[y] + sum(V \ {y})}
<1>1. SUFFICES ASSUME Bad # {} PROVE FALSE
  OBVIOUS
<1>2. PICK V \in Bad : IsFiniteSet(V) /\ \A y \in V : V \ {y} \notin Bad
  <2>1. Bad \subseteq SUBSET S
    OBVIOUS
  <2> HIDE DEF Bad
  <2>2. QED
    BY <1>1, <2>1, SmallestSubset
<1>3. PICK y \in V : sum(V) # f[y] + sum(V \ {y})
  OBVIOUS
<1> DEFINE c == Chosen(V)
<1>4. c \in V /\ sum(V) = f[c] + sum(V \ {c})
  BY <1>2, <1>3, SumRecursion
<1> HIDE DEF c
<1>5. y # c
  BY <1>3, <1>4
<1>6. V \ {c} \notin Bad /\ V \ {y} \notin Bad /\ V \subseteq S
  BY <1>2, <1>4
<1>7. sum(V \ {c}) = f[y] + sum((V \ {c}) \ {y})
  BY <1>5, <1>6
<1>8. sum(V \ {y}) = f[c] + sum((V \ {y}) \ {c})
  BY <1>4, <1>5, <1>6
<1>9. (V \ {c}) \ {y} = (V \ {y}) \ {c}
  OBVIOUS
<1>10. f[y] \in Int /\ f[c] \in Int /\ sum((V \ {y}) \ {c}) \in Int
  <2>1. IsFiniteSet((V \ {y}) \ {c})
    BY <1>2, FS_RemoveElement
  <2>2. \A z \in (V \ {y}) \ {c} : f[z] \in Int
    BY <1>6
  <2>3. QED
    BY <1>4, <1>6, <2>1, <2>2, SumIsInt
<1>11. sum(V \ {c}) = f[y] + sum((V \ {y}) \ {c})
  BY <1>7, <1>9
<1>12. sum(V) # f[y] + sum(V \ {y})
  BY <1>3
<1> DEFINE w == sum((V \ {y}) \ {c})
<1>13. w \in Int /\ sum(V) = f[c] + (f[y] + w) /\ sum(V \ {y}) = f[c] + w
  BY <1>4, <1>8, <1>10, <1>11
<1> HIDE DEF sum, w
<1>14. QED
  BY <1>10, <1>12, <1>13

\* A sum of natural numbers is one, and no summand is larger.
LEMMA SumIsNat ==
    ASSUME NEW f, NEW S, IsFiniteSet(S), \A x \in S : f[x] \in Nat
    PROVE  /\ SumFunctionOnSet(f, S) \in Nat
           /\ \A x \in S : f[x] <= SumFunctionOnSet(f, S)
<1> DEFINE Bad == {V \in SUBSET S : SumFunctionOnSet(f, V) \notin Nat}
<1>1. ASSUME Bad # {}
      PROVE  FALSE
  <2>1. PICK V \in Bad : IsFiniteSet(V) /\ \A x \in V : V \ {x} \notin Bad
    <3>1. Bad \subseteq SUBSET S
      OBVIOUS
    <3> HIDE DEF Bad
    <3>2. QED
      BY <1>1, <3>1, SmallestSubset
  <2>2. V # {}
    <3>1. 0 \in Nat /\ SumFunctionOnSet(f, V) \notin Nat
      BY <2>1
    <3>2. QED
      BY <2>1, <3>1, SumRecursion
  <2>3. /\ Chosen(V) \in V
        /\ SumFunctionOnSet(f, V) = f[Chosen(V)] + SumFunctionOnSet(f, V \ {Chosen(V)})
    BY <2>1, <2>2, SumRecursion
  <2>4. f[Chosen(V)] \in Nat /\ SumFunctionOnSet(f, V \ {Chosen(V)}) \in Nat
    BY <2>1, <2>3
  <2>5. SumFunctionOnSet(f, V) \in Nat
    BY <2>3, <2>4
  <2>6. QED
    BY <2>5
<1>2. \A V \in SUBSET S : SumFunctionOnSet(f, V) \in Nat
  BY <1>1
<1>3. ASSUME NEW x \in S
      PROVE  f[x] <= SumFunctionOnSet(f, S)
  <2>1. SumFunctionOnSet(f, S) = f[x] + SumFunctionOnSet(f, S \ {x})
    BY SumSplit
  <2>2. SumFunctionOnSet(f, S \ {x}) \in Nat /\ f[x] \in Nat
    BY <1>2
  <2>3. QED
    BY <2>1, <2>2
<1>4. QED
  BY <1>2, <1>3

\* A summand changes, and the sum with it.
LEMMA SumChange ==
    ASSUME NEW S, IsFiniteSet(S), NEW f, NEW f2, NEW x \in S,
           \A y \in S : f[y] \in Int /\ f2[y] \in Int,
           \A y \in S \ {x} : f2[y] = f[y]
    PROVE  SumFunctionOnSet(f2, S) = SumFunctionOnSet(f, S) - f[x] + f2[x]
<1>1. /\ SumFunctionOnSet(f, S) = f[x] + SumFunctionOnSet(f, S \ {x})
      /\ SumFunctionOnSet(f2, S) = f2[x] + SumFunctionOnSet(f2, S \ {x})
  BY SumSplit
<1>2. IsFiniteSet(S \ {x})
  BY FS_RemoveElement
<1>3. SumFunctionOnSet(f2, S \ {x}) = SumFunctionOnSet(f, S \ {x})
  BY <1>2, SumEqual
<1>4. SumFunctionOnSet(f, S \ {x}) \in Int
  BY <1>2, SumIsInt
<1>5. f[x] \in Int /\ f2[x] \in Int
  OBVIOUS
<1>6. QED
  BY <1>1, <1>3, <1>4, <1>5

\* A sum of zeros is zero.
LEMMA SumOfZeros ==
    ASSUME NEW f, NEW S, IsFiniteSet(S), \A x \in S : f[x] = 0
    PROVE  SumFunctionOnSet(f, S) = 0
<1> DEFINE Bad == {V \in SUBSET S : SumFunctionOnSet(f, V) # 0}
<1>1. SUFFICES ASSUME Bad # {} PROVE FALSE
  OBVIOUS
<1>2. PICK V \in Bad : IsFiniteSet(V) /\ \A x \in V : V \ {x} \notin Bad
  <2>1. Bad \subseteq SUBSET S
    OBVIOUS
  <2> HIDE DEF Bad
  <2>2. QED
    BY <1>1, <2>1, SmallestSubset
<1>3. V # {}
  BY <1>2, SumRecursion
<1>4. /\ Chosen(V) \in V
      /\ SumFunctionOnSet(f, V) = f[Chosen(V)] + SumFunctionOnSet(f, V \ {Chosen(V)})
  BY <1>2, <1>3, SumRecursion
<1>5. f[Chosen(V)] = 0 /\ SumFunctionOnSet(f, V \ {Chosen(V)}) = 0
  BY <1>2, <1>4
<1>6. QED
  BY <1>4, <1>5

-----------------------------------------------------------------------------
(* Recursion along the numbers up to N.                                    *)

\* A recursion that takes one step per number has a table.
StepsTo(N, base, step, g) == g[0] = base /\ \A n \in 1 .. N : g[n] = step[n][g[n - 1]]

LEMMA StepTable ==
    ASSUME NEW N \in Nat, NEW S, NEW base \in S, NEW step \in [1 .. N -> [S -> S]]
    PROVE  \E g \in [0 .. N -> S] : StepsTo(N, base, step, g)
<1> DEFINE Table(m, g) == g[0] = base /\ \A n \in 1 .. m : g[n] = step[n][g[n - 1]]
           Bad == {m \in 0 .. N : ~ \E g \in [0 .. m -> S] : Table(m, g)}
<1>1. ASSUME Bad # {}
      PROVE  FALSE
  <2>1. Bad \subseteq Nat
    OBVIOUS
  <2>2. PICK m \in Bad : \A y \in Bad : m <= y
    BY <1>1, <2>1, LeastNatural
  <2>3. m \in 0 .. N /\ ~ \E g \in [0 .. m -> S] : Table(m, g)
    BY <2>2
  <2>4. CASE m = 0
    <3> DEFINE g == [n \in 0 .. 0 |-> base]
    <3>1. g \in [0 .. m -> S] /\ Table(m, g)
      BY <2>4
    <3>2. QED
      BY <2>3, <3>1
  <2>5. CASE m # 0
    <3>1. m - 1 \in 0 .. N /\ ~ (m <= m - 1)
      BY <2>3, <2>5
    <3>2. m - 1 \notin Bad
      BY <2>2, <3>1
    <3>3. PICK g \in [0 .. m - 1 -> S] : Table(m - 1, g)
      BY <3>1, <3>2
    <3> DEFINE last == step[m][g[m - 1]]
               g2 == [n \in 0 .. m |-> IF n < m THEN g[n] ELSE last]
    <3>4. last \in S
      <4>1. m - 1 \in 0 .. m - 1 /\ m \in 1 .. N
        BY <2>3, <2>5
      <4>2. QED
        BY <4>1
    <3>5. g2 \in [0 .. m -> S]
      <4>1. ASSUME NEW n \in 0 .. m
            PROVE  (IF n < m THEN g[n] ELSE last) \in S
        <5>1. n < m => n \in 0 .. m - 1
          BY <2>3
        <5>2. QED
          BY <3>4, <5>1
      <4>2. QED
        BY <4>1
    <3>6. g2[0] = base
      BY <2>3, <2>5, <3>3
    <3>7. ASSUME NEW n \in 1 .. m
          PROVE  g2[n] = step[n][g2[n - 1]]
      <4>1. n - 1 \in 0 .. m /\ n - 1 < m /\ g2[n - 1] = g[n - 1]
        BY <2>3
      <4>2. CASE n < m
        <5>1. n \in 1 .. m - 1 /\ g2[n] = g[n]
          BY <2>3, <4>2
        <5>2. g[n] = step[n][g[n - 1]]
          BY <3>3, <5>1
        <5>3. QED
          BY <4>1, <5>1, <5>2
      <4>3. CASE ~ (n < m)
        <5>1. n = m /\ g2[n] = last
          BY <2>3, <4>3
        <5>2. QED
          BY <4>1, <5>1
      <4>4. QED
        BY <4>2, <4>3
    <3>8. Table(m, g2)
      BY <3>6, <3>7
    <3>9. QED
      BY <2>3, <3>5, <3>8
  <2>6. QED
    BY <2>4, <2>5
<1> HIDE DEF Bad
<1>2. N \notin Bad
  BY <1>1
<1>3. \E g \in [0 .. N -> S] : Table(N, g)
  BY <1>2 DEF Bad
<1>4. QED
  BY <1>3 DEF StepsTo

=============================================================================
