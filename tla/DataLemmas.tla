----------------------------- MODULE DataLemmas -----------------------------
(***************************************************************************)
(* Lemmas about the data of several components.  Sums over finite sets:    *)
(* what a MapThenSumSet or SumFunction is when a summand changes, and how  *)
(* large it is; the greatest element of a set; and queues of requests that *)
(* are cleaned.  Induction is used in the form of least elements: a SET of *)
(* naturals, or of subsets, that is closed holds them all.                 *)
(***************************************************************************)
EXTENDS RequestQueue, FiniteSets, FiniteSetsExt, Functions, FiniteSetTheorems,
        WellFoundedInduction, TLAPS

\* Induction for a set: one that holds 0, and n + 1 with each n, holds every
\* natural.  The least number it lacks would be the successor of one it has.
LEMMA ClosedSetHoldsNat ==
  ASSUME NEW B, 0 \in B, \A n \in Nat : n \in B => n + 1 \in B
  PROVE  Nat \subseteq B
<1> DEFINE T == Nat \ B
<1> SUFFICES ASSUME T # {} PROVE FALSE
  OBVIOUS
<1>1. IsWellFoundedOn(OpToRel(<, Nat), Nat)
  BY NatLessThanWellFounded
<1>2. PICK n \in T : \A m \in T : <<m, n>> \notin OpToRel(<, Nat)
  <2> HIDE DEF T
  <2>1. T \subseteq Nat
    BY DEF T
  <2> QED BY <1>1, <2>1, WFMin
<1>3. \A m \in T : ~(m < n)
  BY <1>2 DEF OpToRel
<1>4. n \in Nat /\ n # 0 /\ n - 1 \in Nat /\ n - 1 < n
  OBVIOUS
<1>5. n - 1 \in B
  BY <1>3, <1>4
<1>6. (n - 1) + 1 \in B
  BY <1>4, <1>5
<1> QED BY <1>4, <1>6

\* Induction up to a bound.
LEMMA ClosedSetHoldsTo ==
  ASSUME NEW N \in Nat, NEW B, 0 \in B, \A i \in 1 .. N : i - 1 \in B => i \in B
  PROVE  0 .. N \subseteq B
<1> DEFINE C == {n \in Nat : n <= N => n \in B}
<1>1. 0 \in C
  OBVIOUS
<1>2. ASSUME NEW n \in Nat, n \in C PROVE n + 1 \in C
  <2>1. ASSUME n + 1 <= N PROVE n + 1 \in B
    <3>1. n + 1 \in 1 .. N /\ (n + 1) - 1 = n /\ n <= N
      BY <2>1
    <3> QED BY <1>2, <3>1
  <2> QED BY <2>1
<1>3. Nat \subseteq C
  <2> HIDE DEF C
  <2> QED BY <1>1, <1>2, ClosedSetHoldsNat
<1> QED BY <1>3

\* A table filled from its first entry on: each entry is found from the one before it.
TableBy(f, n, a, g) == f[0] = a /\ \A i \in 1 .. n : f[i] = g[<<i, f[i - 1]>>]

\* There is such a table: what a recursive function needs to equal its own definition.
LEMMA TableExists ==
  ASSUME NEW N \in Nat, NEW S, NEW a \in S, NEW g \in [(1 .. N) \X S -> S]
  PROVE  \E f \in [0 .. N -> S] : TableBy(f, N, a, g)
<1> DEFINE Right(f, m) == f[0] = a /\ \A i \in 1 .. m : f[i] = g[<<i, f[i - 1]>>]
           B == {m \in 0 .. N : \E f \in [0 .. m -> S] : Right(f, m)}
<1>1. 0 \in B
  <2>1. Right([i \in 0 .. 0 |-> a], 0)
    OBVIOUS
  <2> HIDE DEF Right
  <2> QED BY <2>1
<1>2. ASSUME NEW m \in 1 .. N, m - 1 \in B PROVE m \in B
  <2>1. PICK f \in [0 .. m - 1 -> S] : Right(f, m - 1)
    BY <1>2
  <2> DEFINE h == [i \in 0 .. m |-> IF i = m THEN g[<<m, f[m - 1]>>] ELSE f[i]]
  <2>2. f[m - 1] \in S /\ g[<<m, f[m - 1]>>] \in S
    OBVIOUS
  <2>3. h \in [0 .. m -> S]
    BY <2>2
  <2>4. h[0] = a /\ h[m] = g[<<m, h[m - 1]>>]
    <3>1. m # 0 /\ 0 \in 0 .. m /\ m - 1 \in 0 .. m /\ m - 1 # m
      OBVIOUS
    <3>2. h[0] = f[0] /\ h[m - 1] = f[m - 1] /\ h[m] = g[<<m, f[m - 1]>>]
      BY <3>1
    <3> QED BY <2>1, <3>2
  <2>5. ASSUME NEW i \in 1 .. m - 1 PROVE h[i] = g[<<i, h[i - 1]>>]
    <3>1. f[i] = g[<<i, f[i - 1]>>]
      BY <2>1
    <3>2. h[i] = f[i] /\ h[i - 1] = f[i - 1]
      OBVIOUS
    <3> QED BY <3>1, <3>2
  <2> HIDE DEF h
  <2>6. Right(h, m)
    BY <2>4, <2>5
  <2> QED BY <2>3, <2>6
<1>3. N \in B
  <2> HIDE DEF B
  <2> QED BY <1>1, <1>2, ClosedSetHoldsTo
<1> QED BY <1>3 DEF TableBy

-----------------------------------------------------------------------------
(* Powers of two, as numbers of subsets. *)
LEMMA PowerOfNext ==
  /\ 2 ^ 0 = 1
  /\ \A n \in Nat : 2 ^ n \in Nat \ {0} /\ 2 ^ (n + 1) = 2 * 2 ^ n
<1>1. ASSUME NEW n \in Nat
      PROVE  /\ IsFiniteSet(1 .. n) /\ IsFiniteSet(SUBSET (1 .. n))
             /\ Cardinality(SUBSET (1 .. n)) = 2 ^ n
             /\ 2 ^ n \in Nat \ {0}
  <2>1. IsFiniteSet(1 .. n) /\ Cardinality(1 .. n) = n
    BY FS_Interval
  <2>2. IsFiniteSet(SUBSET (1 .. n)) /\ Cardinality(SUBSET (1 .. n)) = 2 ^ n
    BY <2>1, FS_SUBSET
  <2>3. SUBSET (1 .. n) # {}
    OBVIOUS
  <2> QED BY <2>1, <2>2, <2>3, FS_CardinalityType, FS_EmptySet
<1>2. 2 ^ 0 = 1
  <2>1. SUBSET (1 .. 0) = {{}}
    OBVIOUS
  <2>2. Cardinality({{}}) = 1
    BY FS_Singleton
  <2> QED BY <1>1, <2>1, <2>2
<1>3. ASSUME NEW n \in Nat PROVE 2 ^ (n + 1) = 2 * 2 ^ n
  <2> DEFINE A == SUBSET (1 .. n)
             g == [s \in A |-> s \cup {n + 1}]
             B == {s \cup {n + 1} : s \in A}
  <2>1. SUBSET (1 .. n + 1) = A \cup B
    <3>1. ASSUME NEW s \in SUBSET (1 .. n + 1), n + 1 \in s PROVE s \in B
      <4>1. s \ {n + 1} \in A /\ s = (s \ {n + 1}) \cup {n + 1}
        BY <3>1
      <4> QED BY <4>1
    <3>2. ASSUME NEW s \in SUBSET (1 .. n + 1), n + 1 \notin s PROVE s \in A
      BY <3>2
    <3>3. A \subseteq SUBSET (1 .. n + 1) /\ B \subseteq SUBSET (1 .. n + 1)
      <4>1. 1 .. n \subseteq 1 .. n + 1 /\ n + 1 \in 1 .. n + 1
        OBVIOUS
      <4> QED BY <4>1
    <3> QED BY <3>1, <3>2, <3>3
  <2>2. A \cap B = {}
    OBVIOUS
  <2>3. g \in Bijection(A, B)
    <3>1. g \in [A -> B]
      OBVIOUS
    <3>2. ASSUME NEW s \in A, NEW t \in A, g[s] = g[t] PROVE s = t
      <4>1. s \cup {n + 1} = t \cup {n + 1} /\ n + 1 \notin s /\ n + 1 \notin t
        BY <3>2
      <4> QED BY <4>1
    <3>3. ASSUME NEW t \in B PROVE \E s \in A : g[s] = t
      OBVIOUS
    <3> HIDE DEF g, A, B
    <3>4. IsInjective(g)
      BY <3>1, <3>2 DEF IsInjective
    <3> QED BY <3>1, <3>3, <3>4 DEF Bijection, Injection, Surjection
  <2>4. IsFiniteSet(A) /\ Cardinality(A) = 2 ^ n /\ 2 ^ n \in Nat
    BY <1>1
  <2>7. Cardinality(SUBSET (1 .. n + 1)) = 2 ^ (n + 1)
    <3>1. n + 1 \in Nat
      OBVIOUS
    <3> QED BY <1>1, <3>1
  <2> HIDE DEF A, B, g
  <2>5. IsFiniteSet(B) /\ Cardinality(B) = Cardinality(A)
    BY <2>3, <2>4, FS_Bijection DEF ExistsBijection
  <2>6. Cardinality(A \cup B) = Cardinality(A) + Cardinality(B)
    BY <2>2, <2>4, <2>5, FS_Union, FS_EmptySet
  <2>8. 2 ^ (n + 1) = Cardinality(A \cup B)
    BY <2>1, <2>7
  <2>9. Cardinality(A) + Cardinality(B) = 2 * 2 ^ n
    BY <2>4, <2>5
  <2> QED BY <2>6, <2>8, <2>9
<1> QED BY <1>1, <1>2, <1>3

\* The power of a sum is the product of the powers.
LEMMA PowerAdds ==
  ASSUME NEW a \in Nat, NEW b \in Nat
  PROVE  2 ^ (a + b) = 2 ^ a * 2 ^ b
<1> DEFINE B == {n \in Nat : 2 ^ (a + n) = 2 ^ a * 2 ^ n}
<1>1. 0 \in B
  <2>1. 2 ^ 0 = 1 /\ 2 ^ a \in Nat /\ a + 0 = a
    BY PowerOfNext
  <2> QED BY <2>1
<1>2. ASSUME NEW n \in Nat, n \in B PROVE n + 1 \in B
  <2>1. 2 ^ (n + 1) = 2 * 2 ^ n /\ 2 ^ ((a + n) + 1) = 2 * 2 ^ (a + n) /\ a + (n + 1) = (a + n) + 1
    BY PowerOfNext
  <2>2. 2 ^ a \in Nat /\ 2 ^ n \in Nat /\ 2 ^ (a + n) \in Nat
    BY PowerOfNext
  <2>3. ASSUME NEW x \in Nat, NEW y \in Nat PROVE 2 * (x * y) = x * (2 * y)
    OBVIOUS
  <2> QED BY <1>2, <2>1, <2>2, <2>3
<1> HIDE DEF B
<1>3. b \in B
  BY <1>1, <1>2, ClosedSetHoldsNat
<1> QED BY <1>3 DEF B

-----------------------------------------------------------------------------
(* The element a sum takes first, and the table MapThenSumSet is defined by. *)
Pick(s) == CHOOSE x \in s : TRUE

SumTable(f, S) ==
  CHOOSE table : table = [s \in SUBSET S |-> IF s = {} THEN 0
                                             ELSE f[Pick(s)] + table[s \ {Pick(s)}]]

\* A sum is an entry of the table MapThenSumSet chooses.
LEMMA SumIsInTable ==
  ASSUME NEW f, NEW S
  PROVE  MapThenSumSet(LAMBDA x : f[x], S) = SumTable(f, S)[S]
BY DEF MapThenSumSet, MapThenFoldSet, SumTable, Pick

\* So is the sum of a function over its domain.
LEMMA SumFunctionIsInTable ==
  ASSUME NEW f
  PROVE  SumFunction(f) = SumTable(f, DOMAIN f)[DOMAIN f]
BY DEF SumFunction, SumFunctionOnSet, FoldFunctionOnSet, MapThenFoldSet, SumTable, Pick

\* The table exists: it is built up by the number of elements.
LEMMA SumTableRecursion ==
  ASSUME NEW S, IsFiniteSet(S), NEW f \in [S -> Int]
  PROVE  /\ SumTable(f, S) \in [SUBSET S -> Int]
         /\ SumTable(f, S)[{}] = 0
         /\ \A s \in SUBSET S : s # {} =>
              /\ Pick(s) \in s
              /\ SumTable(f, S)[s] = f[Pick(s)] + SumTable(f, S)[s \ {Pick(s)}]
<1> DEFINE Upto(n) == {s \in SUBSET S : Cardinality(s) <= n}
           Entry(table, s) == IF s = {} THEN 0 ELSE f[Pick(s)] + table[s \ {Pick(s)}]
           Table(n) == {g \in [Upto(n) -> Int] : \A s \in Upto(n) : g[s] = Entry(g, s)}
           B == {n \in Nat : Table(n) # {}}
<1>1. \A s \in SUBSET S : IsFiniteSet(s) /\ Cardinality(s) \in Nat
  BY FS_Subset, FS_CardinalityType
<1>2. \A s \in SUBSET S : s # {} => Pick(s) \in s
  BY DEF Pick
<1>3. \A s \in SUBSET S : s # {} =>
        s \ {Pick(s)} \in SUBSET S /\ Cardinality(s \ {Pick(s)}) = Cardinality(s) - 1
  BY <1>1, <1>2, FS_RemoveElement
<1>4. \A s \in SUBSET S : Cardinality(s) = 0 <=> s = {}
  BY <1>1, FS_EmptySet
<1>5. 0 \in B
  <2> DEFINE g == [s \in Upto(0) |-> 0]
  <2>1. \A s \in Upto(0) : s = {}
    BY <1>1, <1>4
  <2>2. g \in Table(0)
    BY <2>1
  <2> QED BY <2>2
<1>6. ASSUME NEW n \in Nat, n \in B
      PROVE  n + 1 \in B
  <2>1. PICK g : g \in Table(n)
    BY <1>6
  <2> DEFINE h == [s \in Upto(n + 1) |-> Entry(g, s)]
  <2>2. \A s \in Upto(n + 1) : s # {} => s \ {Pick(s)} \in Upto(n)
    BY <1>1, <1>3
  <2>3. \A s \in Upto(n) : h[s] = g[s]
    <3> SUFFICES ASSUME NEW s \in Upto(n) PROVE h[s] = g[s]
      OBVIOUS
    <3>1. s \in Upto(n + 1)
      BY <1>1
    <3> QED BY <2>1, <3>1
  <2>4. \A s \in Upto(n + 1) : Entry(h, s) = Entry(g, s)
    <3> HIDE DEF h
    <3> QED BY <2>2, <2>3
  <2>5. \A s \in Upto(n + 1) : Entry(g, s) \in Int
    <3> SUFFICES ASSUME NEW s \in Upto(n + 1), s # {} PROVE f[Pick(s)] + g[s \ {Pick(s)}] \in Int
      BY SMT
    <3>1. g[s \ {Pick(s)}] \in Int
      BY <2>1, <2>2
    <3>2. f[Pick(s)] \in Int
      BY <1>2
    <3> QED BY <3>1, <3>2
  <2>6. h \in Table(n + 1)
    BY <2>4, <2>5
  <2>7. Table(n + 1) # {}
    BY <2>6
  <2> HIDE DEF Table
  <2> QED BY <2>7
<1>7. Cardinality(S) \in B
  <2> HIDE DEF B
  <2>1. Nat \subseteq B
    BY <1>5, <1>6, ClosedSetHoldsNat
  <2> QED BY <2>1, <1>1
<1>8. Upto(Cardinality(S)) = SUBSET S
  BY <1>1, FS_Subset
<1>9. PICK g : g \in Table(Cardinality(S))
  BY <1>7
<1>10. g = [s \in SUBSET S |-> Entry(g, s)]
  BY <1>8, <1>9
<1>11. SumTable(f, S) = [s \in SUBSET S |-> Entry(SumTable(f, S), s)]
  BY <1>10 DEF SumTable
<1> HIDE DEF B
<1>12. \A s \in SUBSET S : SumTable(f, S)[s] = Entry(SumTable(f, S), s)
  BY <1>11
<1> DEFINE C == {n \in Nat : \A s \in SUBSET S : Cardinality(s) = n => SumTable(f, S)[s] \in Int}
<1>13. 0 \in C
  <2>1. SumTable(f, S)[{}] = 0
    BY <1>12
  <2>2. \A s \in SUBSET S : Cardinality(s) = 0 => SumTable(f, S)[s] \in Int
    BY <1>4, <2>1
  <2> QED BY <2>2
<1>14. ASSUME NEW n \in Nat, n \in C
       PROVE  n + 1 \in C
  <2> SUFFICES ASSUME NEW s \in SUBSET S, Cardinality(s) = n + 1
               PROVE  SumTable(f, S)[s] \in Int
    OBVIOUS
  <2>1. s # {}
    BY <1>4
  <2>2. SumTable(f, S)[s \ {Pick(s)}] \in Int
    BY <1>3, <1>14, <2>1
  <2>3. f[Pick(s)] \in Int
    BY <1>2, <2>1
  <2> QED BY <1>12, <2>1, <2>2, <2>3
<1>15. Nat \subseteq C
  <2> HIDE DEF C
  <2> QED BY <1>13, <1>14, ClosedSetHoldsNat
<1>16. \A s \in SUBSET S : SumTable(f, S)[s] \in Int
  BY <1>1, <1>15
<1>17. SumTable(f, S) \in [SUBSET S -> Int]
  <2> DEFINE t == SumTable(f, S)
  <2> HIDE DEF t
  <2>1. t = [s \in SUBSET S |-> Entry(t, s)]
    BY <1>11 DEF t
  <2>2. \A s \in SUBSET S : t[s] \in Int
    BY <1>16 DEF t
  <2>3. t \in [SUBSET S -> Int]
    BY <2>1, <2>2
  <2> QED BY <2>3 DEF t
<1> QED BY <1>2, <1>12, <1>17

-----------------------------------------------------------------------------
\* The sum of f over S, as SumOf of TraceRun and OccupancyAddsUp of MCache have it.
SumOver(f, S) == MapThenSumSet(LAMBDA x : f[x], S)

\* A sum over the domain of a function is one.
LEMMA SumOverDomain ==
  ASSUME NEW S, NEW f, DOMAIN f = S
  PROVE  SumFunction(f) = SumOver(f, S)
BY SumFunctionIsInTable, SumIsInTable DEF SumOver

\* A set of subsets holds them all if it goes on from s without its pick to s.
LEMMA ClosedSetHoldsSubsets ==
  ASSUME NEW S, IsFiniteSet(S), NEW B, {} \in B,
         \A s \in SUBSET S : s # {} /\ s \ {Pick(s)} \in B => s \in B
  PROVE  SUBSET S \subseteq B
<1> DEFINE C == {n \in Nat : \A s \in SUBSET S : Cardinality(s) = n => s \in B}
<1>1. \A s \in SUBSET S : IsFiniteSet(s) /\ Cardinality(s) \in Nat
  BY FS_Subset, FS_CardinalityType
<1>2. 0 \in C
  <2>1. \A s \in SUBSET S : Cardinality(s) = 0 => s = {}
    BY <1>1, FS_EmptySet
  <2> QED BY <2>1
<1>3. ASSUME NEW n \in Nat, n \in C
      PROVE  n + 1 \in C
  <2> SUFFICES ASSUME NEW s \in SUBSET S, Cardinality(s) = n + 1
               PROVE  s \in B
    OBVIOUS
  <2>1. s # {}
    BY FS_EmptySet
  <2>2. Pick(s) \in s
    BY <2>1 DEF Pick
  <2>3. Cardinality(s \ {Pick(s)}) = n
    BY <1>1, <2>2, FS_RemoveElement
  <2>4. s \ {Pick(s)} \in B
    BY <1>3, <2>3
  <2> QED BY <2>1, <2>4
<1>4. Nat \subseteq C
  <2> HIDE DEF C
  <2> QED BY <1>2, <1>3, ClosedSetHoldsNat
<1> QED BY <1>1, <1>4

\* A sum of numbers is a number.
LEMMA SumIsNumber ==
  ASSUME NEW S, IsFiniteSet(S), NEW f \in [S -> Int]
  PROVE  SumOver(f, S) \in Int
<1>1. SumOver(f, S) = SumTable(f, S)[S]
  BY SumIsInTable DEF SumOver
<1>2. SumTable(f, S) \in [SUBSET S -> Int]
  BY SumTableRecursion
<1> QED BY <1>1, <1>2

\* Summands that are added one by one add up.
LEMMA SumAdds ==
  ASSUME NEW S, IsFiniteSet(S), NEW f \in [S -> Int], NEW g \in [S -> Int],
         NEW h \in [S -> Int], \A x \in S : h[x] = f[x] + g[x]
  PROVE  SumOver(h, S) = SumOver(f, S) + SumOver(g, S)
<1> DEFINE F == SumTable(f, S)
           G == SumTable(g, S)
           H == SumTable(h, S)
           B == {s \in SUBSET S : H[s] = F[s] + G[s]}
<1>1. /\ F \in [SUBSET S -> Int] /\ F[{}] = 0
      /\ \A s \in SUBSET S : s # {} => Pick(s) \in s /\ F[s] = f[Pick(s)] + F[s \ {Pick(s)}]
  BY SumTableRecursion
<1>2. /\ G \in [SUBSET S -> Int] /\ G[{}] = 0
      /\ \A s \in SUBSET S : s # {} => Pick(s) \in s /\ G[s] = g[Pick(s)] + G[s \ {Pick(s)}]
  BY SumTableRecursion
<1>3. /\ H \in [SUBSET S -> Int] /\ H[{}] = 0
      /\ \A s \in SUBSET S : s # {} => Pick(s) \in s /\ H[s] = h[Pick(s)] + H[s \ {Pick(s)}]
  BY SumTableRecursion
<1> HIDE DEF F, G, H
<1>4. {} \in B
  BY <1>1, <1>2, <1>3
<1>5. ASSUME NEW s \in SUBSET S, s # {}, s \ {Pick(s)} \in B
      PROVE  s \in B
  <2> DEFINE r == s \ {Pick(s)}
  <2>1. H[s] = h[Pick(s)] + H[r] /\ F[s] = f[Pick(s)] + F[r] /\ G[s] = g[Pick(s)] + G[r]
    BY <1>1, <1>2, <1>3, <1>5
  <2>2. h[Pick(s)] = f[Pick(s)] + g[Pick(s)] /\ f[Pick(s)] \in Int /\ g[Pick(s)] \in Int
    BY <1>1, <1>5
  <2>3. F[r] \in Int /\ G[r] \in Int /\ H[r] = F[r] + G[r]
    BY <1>1, <1>2, <1>5
  <2> QED BY <2>1, <2>2, <2>3
<1>6. S \in B
  <2> HIDE DEF B
  <2>1. SUBSET S \subseteq B
    BY <1>4, <1>5, ClosedSetHoldsSubsets
  <2> QED BY <2>1
<1> QED BY <1>6, SumIsInTable DEF SumOver, F, G, H

\* A sum without any summand but that of c.
LEMMA SumOfOne ==
  ASSUME NEW S, IsFiniteSet(S), NEW c, NEW f \in [S -> Int],
         \A x \in S : x # c => f[x] = 0
  PROVE  SumOver(f, S) = IF c \in S THEN f[c] ELSE 0
<1> DEFINE F == SumTable(f, S)
           B == {s \in SUBSET S : F[s] = IF c \in s THEN f[c] ELSE 0}
<1>1. /\ F \in [SUBSET S -> Int] /\ F[{}] = 0
      /\ \A s \in SUBSET S : s # {} => Pick(s) \in s /\ F[s] = f[Pick(s)] + F[s \ {Pick(s)}]
  BY SumTableRecursion
<1> HIDE DEF F
<1>2. {} \in B
  BY <1>1
<1>3. ASSUME NEW s \in SUBSET S, s # {}, s \ {Pick(s)} \in B
      PROVE  s \in B
  <2>1. F[s] = f[Pick(s)] + F[s \ {Pick(s)}] /\ Pick(s) \in s
    BY <1>1, <1>3
  <2>2. CASE Pick(s) = c
    BY <2>1, <2>2, <1>3
  <2>3. CASE Pick(s) # c
    BY <2>1, <2>3, <1>3
  <2> QED BY <2>2, <2>3
<1>4. S \in B
  <2> HIDE DEF B
  <2>1. SUBSET S \subseteq B
    BY <1>2, <1>3, ClosedSetHoldsSubsets
  <2> QED BY <2>1
<1> QED BY <1>4, SumIsInTable DEF SumOver, F

\* A sum of zeros is zero.
LEMMA SumOfZeros ==
  ASSUME NEW S, IsFiniteSet(S), NEW f \in [S -> Int], \A x \in S : f[x] = 0
  PROVE  SumOver(f, S) = 0
<1>1. SumOver(f, S) = IF S \in S THEN f[S] ELSE 0
  BY SumOfOne
<1> QED BY <1>1

\* Functions that differ in one place.
LEMMA SumDiffers ==
  ASSUME NEW S, IsFiniteSet(S), NEW f \in [S -> Int], NEW g \in [S -> Int],
         NEW c \in S, \A x \in S : x # c => g[x] = f[x]
  PROVE  SumOver(g, S) = SumOver(f, S) + g[c] - f[c]
<1> DEFINE d == [x \in S |-> IF x = c THEN g[c] - f[c] ELSE 0]
<1>1. d \in [S -> Int] /\ d[c] = g[c] - f[c] /\ \A x \in S : x # c => d[x] = 0
  OBVIOUS
<1>2. \A x \in S : g[x] = f[x] + d[x]
  OBVIOUS
<1> HIDE DEF d
<1>3. SumOver(g, S) = SumOver(f, S) + SumOver(d, S)
  BY <1>1, <1>2, SumAdds
<1>4. SumOver(d, S) = g[c] - f[c]
  BY <1>1, SumOfOne
<1>5. SumOver(f, S) \in Int /\ f[c] \in Int /\ g[c] \in Int
  BY SumIsNumber
<1> QED BY <1>3, <1>4, <1>5

\* One summand changes.
LEMMA SumChanges ==
  ASSUME NEW S, IsFiniteSet(S), NEW f \in [S -> Int], NEW c \in S, NEW v \in Int
  PROVE  SumOver([f EXCEPT ![c] = v], S) = SumOver(f, S) + v - f[c]
<1> DEFINE g == [f EXCEPT ![c] = v]
<1>1. g \in [S -> Int] /\ g[c] = v /\ \A x \in S : x # c => g[x] = f[x]
  OBVIOUS
<1> HIDE DEF g
<1>2. SumOver(g, S) = SumOver(f, S) + g[c] - f[c]
  BY <1>1, SumDiffers
<1> QED BY <1>1, <1>2 DEF g

\* One more summand.
LEMMA SumOfMore ==
  ASSUME NEW S, IsFiniteSet(S), NEW c, c \notin S, NEW f \in [S \cup {c} -> Int],
         NEW g \in [S -> Int], \A x \in S : g[x] = f[x]
  PROVE  SumOver(f, S \cup {c}) = SumOver(g, S) + f[c]
<1> DEFINE T == S \cup {c}
           F == SumTable(f, T)
           G == SumTable(g, S)
           h(s) == [x \in T |-> IF x \in s THEN f[x] ELSE 0]
           B == {s \in SUBSET T : F[s] = SumOver(h(s), T)}
           C == {s \in SUBSET S : F[s] = G[s]}
<1>0. IsFiniteSet(T) /\ c \in T /\ f \in [T -> Int]
  BY FS_AddElement
<1>1. /\ F \in [SUBSET T -> Int] /\ F[{}] = 0
      /\ \A s \in SUBSET T : s # {} => Pick(s) \in s /\ F[s] = f[Pick(s)] + F[s \ {Pick(s)}]
  <2> HIDE DEF T
  <2> QED BY <1>0, SumTableRecursion
<1>2. /\ G \in [SUBSET S -> Int] /\ G[{}] = 0
      /\ \A s \in SUBSET S : s # {} => Pick(s) \in s /\ G[s] = g[Pick(s)] + G[s \ {Pick(s)}]
  BY SumTableRecursion
<1>3. \A s : h(s) \in [T -> Int]
  BY <1>0
<1>4. ASSUME NEW s, NEW p \in T, p \notin s
      PROVE  SumOver(h(s \cup {p}), T) = SumOver(h(s), T) + f[p]
  <2>1. h(s)[p] = 0 /\ f[p] \in Int
    BY <1>0, <1>4
  <2>2. h(s \cup {p}) = [h(s) EXCEPT ![p] = f[p]]
    BY <1>4
  <2> HIDE DEF h, T
  <2>3. SumOver([h(s) EXCEPT ![p] = f[p]], T) = SumOver(h(s), T) + f[p] - h(s)[p]
    BY <1>0, <1>3, <1>4, <2>1, SumChanges
  <2>4. SumOver(h(s), T) \in Int
    BY <1>0, <1>3, SumIsNumber
  <2> QED BY <2>1, <2>2, <2>3, <2>4
<1>5. {} \in B
  <2>1. \A x \in T : h({})[x] = 0
    OBVIOUS
  <2> HIDE DEF h, T
  <2>2. SumOver(h({}), T) = 0
    BY <1>0, <1>3, <2>1, SumOfZeros
  <2> QED BY <1>1, <2>2
<1>6. ASSUME NEW s \in SUBSET T, s # {}, s \ {Pick(s)} \in B
      PROVE  s \in B
  <2> DEFINE r == s \ {Pick(s)}
  <2>1. /\ Pick(s) \in s /\ F[s] = f[Pick(s)] + F[r] /\ Pick(s) \in T
        /\ F[r] \in Int /\ f[Pick(s)] \in Int
    <3>1. Pick(s) \in s /\ F[s] = f[Pick(s)] + F[r]
      BY <1>1, <1>6
    <3> QED BY <1>0, <1>1, <3>1
  <2>2. Pick(s) \notin r /\ s = r \cup {Pick(s)}
    BY <2>1
  <2>3. F[r] = SumOver(h(r), T)
    BY <1>6
  <2> HIDE DEF r, h, F, T
  <2>4. SumOver(h(s), T) = SumOver(h(r), T) + f[Pick(s)]
    BY <1>4, <2>1, <2>2
  <2>5. F[s] = SumOver(h(s), T)
    BY <2>1, <2>3, <2>4
  <2> QED BY <2>5
<1>7. SUBSET T \subseteq B
  <2> HIDE DEF B, T
  <2> QED BY <1>0, <1>5, <1>6, ClosedSetHoldsSubsets
<1>8. {} \in C
  BY <1>1, <1>2
<1>9. ASSUME NEW s \in SUBSET S, s # {}, s \ {Pick(s)} \in C
      PROVE  s \in C
  <2>1. s \in SUBSET T
    OBVIOUS
  <2>2. Pick(s) \in s /\ F[s] = f[Pick(s)] + F[s \ {Pick(s)}]
    BY <1>1, <1>9, <2>1
  <2>3. G[s] = g[Pick(s)] + G[s \ {Pick(s)}]
    BY <1>2, <1>9
  <2>4. F[s \ {Pick(s)}] = G[s \ {Pick(s)}] /\ g[Pick(s)] = f[Pick(s)]
    BY <1>9, <2>2
  <2> HIDE DEF F, G
  <2> QED BY <2>2, <2>3, <2>4
<1>10. F[S] = G[S]
  <2>1. SUBSET S \subseteq C
    <3> HIDE DEF C
    <3> QED BY <1>8, <1>9, ClosedSetHoldsSubsets
  <2> QED BY <2>1
<1>11. F[S] = SumOver(h(S), T)
  BY <1>7
<1>12. h(S \cup {c}) = f
  OBVIOUS
<1>13. SumOver(h(S \cup {c}), T) = SumOver(h(S), T) + f[c]
  BY <1>0, <1>4
<1>14. SumOver(f, T) = SumOver(h(S), T) + f[c]
  BY <1>12, <1>13
<1>15. SumOver(g, S) = G[S]
  BY SumIsInTable DEF SumOver
<1> QED
  <2> HIDE DEF F, G, h
  <2> QED BY <1>10, <1>11, <1>14, <1>15

\* As many ones as elements.
LEMMA SumOfOnes ==
  ASSUME NEW S, IsFiniteSet(S), NEW f \in [S -> Int], \A x \in S : f[x] = 1
  PROVE  SumOver(f, S) = Cardinality(S)
<1> DEFINE F == SumTable(f, S)
           B == {s \in SUBSET S : F[s] = Cardinality(s)}
<1>1. /\ F \in [SUBSET S -> Int] /\ F[{}] = 0
      /\ \A s \in SUBSET S : s # {} => Pick(s) \in s /\ F[s] = f[Pick(s)] + F[s \ {Pick(s)}]
  BY SumTableRecursion
<1> HIDE DEF F
<1>2. {} \in B
  BY <1>1, FS_EmptySet
<1>3. ASSUME NEW s \in SUBSET S, s # {}, s \ {Pick(s)} \in B
      PROVE  s \in B
  <2>1. F[s] = 1 + F[s \ {Pick(s)}] /\ Pick(s) \in s
    BY <1>1, <1>3
  <2>2. Cardinality(s \ {Pick(s)}) = Cardinality(s) - 1 /\ Cardinality(s) \in Nat
    BY <2>1, FS_Subset, FS_CardinalityType, FS_RemoveElement
  <2> QED BY <2>1, <2>2, <1>3
<1>4. S \in B
  <2> HIDE DEF B
  <2>1. SUBSET S \subseteq B
    BY <1>2, <1>3, ClosedSetHoldsSubsets
  <2> QED BY <2>1
<1> QED BY <1>4, SumIsInTable DEF SumOver, F

\* A sum of naturals is one, and none of its summands exceeds it.
LEMMA SumOfNats ==
  ASSUME NEW S, IsFiniteSet(S), NEW f \in [S -> Nat]
  PROVE  SumOver(f, S) \in Nat /\ \A c \in S : f[c] <= SumOver(f, S)
<1> DEFINE F == SumTable(f, S)
           B == {s \in SUBSET S : F[s] \in Nat /\ \A c \in s : f[c] <= F[s]}
<1>0. f \in [S -> Int]
  OBVIOUS
<1>1. /\ F \in [SUBSET S -> Int] /\ F[{}] = 0
      /\ \A s \in SUBSET S : s # {} => Pick(s) \in s /\ F[s] = f[Pick(s)] + F[s \ {Pick(s)}]
  BY <1>0, SumTableRecursion
<1> HIDE DEF F
<1>2. {} \in B
  BY <1>1
<1>3. ASSUME NEW s \in SUBSET S, s # {}, s \ {Pick(s)} \in B
      PROVE  s \in B
  <2>1. F[s] = f[Pick(s)] + F[s \ {Pick(s)}] /\ Pick(s) \in s
    BY <1>1, <1>3
  <2>2. F[s \ {Pick(s)}] \in Nat /\ \A c \in s \ {Pick(s)} : f[c] <= F[s \ {Pick(s)}]
    BY <1>3
  <2>3. \A c \in s : f[c] \in Nat
    OBVIOUS
  <2> QED BY <2>1, <2>2, <2>3
<1>4. S \in B
  <2> HIDE DEF B
  <2>1. SUBSET S \subseteq B
    BY <1>2, <1>3, ClosedSetHoldsSubsets
  <2> QED BY <2>1
<1> QED BY <1>4, SumIsInTable DEF SumOver, F

-----------------------------------------------------------------------------
\* A finite set of numbers has a greatest one.
LEMMA MaxIsGreatest ==
  ASSUME NEW S, S \subseteq Int, IsFiniteSet(S), S # {}
  PROVE  Max(S) \in S /\ \A y \in S : y <= Max(S)
<1> DEFINE B == {s \in SUBSET S : s = {} \/ \E m \in s : \A y \in s : m >= y}
<1>1. {} \in B
  OBVIOUS
<1>2. ASSUME NEW s \in SUBSET S, s # {}, s \ {Pick(s)} \in B
      PROVE  s \in B
  <2>1. Pick(s) \in s
    BY <1>2 DEF Pick
  <2>2. CASE s \ {Pick(s)} = {}
    BY <2>1, <2>2
  <2>3. CASE s \ {Pick(s)} # {}
    <3>1. PICK m \in s \ {Pick(s)} : \A y \in s \ {Pick(s)} : m >= y
      BY <1>2, <2>3
    <3>2. CASE m >= Pick(s)
      BY <2>1, <3>1, <3>2
    <3>3. CASE ~(m >= Pick(s))
      <4>1. m \in Int /\ Pick(s) \in Int /\ \A y \in s : y \in Int
        BY <2>1
      <4>2. ASSUME NEW y \in s \ {Pick(s)} PROVE Pick(s) >= y
        BY <3>1, <3>3, <4>1
      <4>3. Pick(s) >= Pick(s)
        BY <4>1
      <4>4. \A y \in s : Pick(s) >= y
        BY <4>2, <4>3
      <4> QED BY <2>1, <4>4
    <3> QED BY <3>2, <3>3
  <2> QED BY <2>2, <2>3
<1>3. S \in B
  <2> HIDE DEF B
  <2>1. SUBSET S \subseteq B
    BY <1>1, <1>2, ClosedSetHoldsSubsets
  <2> QED BY <2>1
<1>4. \E m \in S : \A y \in S : m >= y
  BY <1>3
<1>5. Max(S) \in S /\ \A y \in S : Max(S) >= y
  BY <1>4 DEF Max
<1> QED BY <1>5

\* The values of a function on a finite set are finitely many.
LEMMA FiniteRange ==
  ASSUME NEW D, IsFiniteSet(D), NEW f, DOMAIN f = D
  PROVE  IsFiniteSet({f[x] : x \in D})
<1> DEFINE T == {f[x] : x \in D}
           g == [x \in D |-> f[x]]
<1>1. g \in Surjection(D, T)
  BY DEF Surjection
<1> HIDE DEF g, T
<1>2. IsFiniteSet(T)
  BY <1>1, FS_Surjection
<1> QED BY <1>2 DEF T

-----------------------------------------------------------------------------
(* Cleaning a queue.                                                       *)

\* The table of prefixes by which Clean is defined.
KeptOf(q) ==
  CHOOSE kept : kept = [n \in 0..Len(q) |->
                          IF n = 0 THEN <<>>
                          ELSE IF q[n].served THEN kept[n - 1]
                          ELSE Append(kept[n - 1], q[n])]

\* The table exists: it is built up by the length of the prefix.
LEMMA KeptRecursion ==
  ASSUME NEW R, NEW q \in Seq(R)
  PROVE  /\ KeptOf(q) \in [0..Len(q) -> Seq(R)] /\ KeptOf(q)[0] = <<>>
         /\ \A n \in 1..Len(q) :
              KeptOf(q)[n] = IF q[n].served THEN KeptOf(q)[n - 1]
                             ELSE Append(KeptOf(q)[n - 1], q[n])
<1> DEFINE L == Len(q)
           Entry(k, n) == IF n = 0 THEN <<>>
                          ELSE IF q[n].served THEN k[n - 1]
                          ELSE Append(k[n - 1], q[n])
           Table(m) == {k \in [0..m -> Seq(R)] : \A n \in 0..m : k[n] = Entry(k, n)}
           B == {m \in Nat : m <= L => Table(m) # {}}
<1>1. L \in Nat
  OBVIOUS
<1>2. 0 \in B
  <2>1. [n \in 0..0 |-> <<>>] \in Table(0)
    OBVIOUS
  <2> QED BY <2>1
<1>3. ASSUME NEW m \in Nat, m \in B PROVE m + 1 \in B
  <2>1. ASSUME m + 1 <= L PROVE Table(m + 1) # {}
    <3>1. Table(m) # {}
      <4> HIDE DEF Table
      <4> QED BY <1>1, <1>3, <2>1
    <3>2. PICK k \in [0..m -> Seq(R)] : \A n \in 0..m : k[n] = Entry(k, n)
      <4> HIDE DEF Entry
      <4> QED BY <3>1
    <3> DEFINE h == [n \in 0..(m + 1) |-> IF n = m + 1 THEN Entry(k, m + 1) ELSE k[n]]
    <3>3. Entry(k, m + 1) \in Seq(R)
      <4>1. m + 1 \in 1..L /\ q[m + 1] \in R /\ k[(m + 1) - 1] \in Seq(R) /\ m + 1 # 0
        BY <1>1, <2>1
      <4> QED BY <4>1
    <3>4. h \in [0..(m + 1) -> Seq(R)]
      <4> HIDE DEF Entry
      <4> QED BY <3>3
    <3>5. ASSUME NEW n \in 0..(m + 1) PROVE h[n] = Entry(h, n)
      <4>1. h[n] = Entry(k, n)
        <5> HIDE DEF Entry
        <5> QED BY <3>2
      <4>2. n # 0 => h[n - 1] = k[n - 1]
        <5> HIDE DEF Entry
        <5> QED OBVIOUS
      <4> HIDE DEF h
      <4> QED BY <4>1, <4>2
    <3> HIDE DEF h, Entry
    <3> QED BY <3>4, <3>5
  <2> HIDE DEF Table
  <2> QED BY <2>1
<1>4. L \in B
  <2> HIDE DEF B
  <2>1. Nat \subseteq B
    BY <1>2, <1>3, ClosedSetHoldsNat
  <2> QED BY <1>1, <2>1
<1>5. PICK k \in [0..L -> Seq(R)] : \A n \in 0..L : k[n] = Entry(k, n)
  BY <1>1, <1>4
<1>6. k = [n \in 0..L |-> Entry(k, n)]
  <2> HIDE DEF Entry
  <2> QED BY <1>5
<1>7. KeptOf(q) = [n \in 0..L |-> Entry(KeptOf(q), n)]
  BY <1>6 DEF KeptOf
<1> DEFINE f == KeptOf(q)
           C == {m \in Nat : m <= L => f[m] \in Seq(R)}
<1>8. \A n \in 0..L : f[n] = Entry(f, n)
  <2> HIDE DEF Entry, L
  <2> QED BY <1>7
<1>9. 0 \in C
  <2> HIDE DEF f
  <2>1. f[0] = Entry(f, 0)
    BY <1>1, <1>8
  <2>2. f[0] = <<>> /\ <<>> \in Seq(R)
    BY <2>1
  <2> HIDE DEF L
  <2> QED BY <2>2
<1>10. ASSUME NEW m \in Nat, m \in C PROVE m + 1 \in C
  <2> SUFFICES ASSUME m + 1 <= L PROVE f[m + 1] \in Seq(R)
    OBVIOUS
  <2> HIDE DEF f
  <2>1. f[m + 1] = Entry(f, m + 1) /\ f[m] \in Seq(R) /\ m + 1 \in 1..L
        /\ q[m + 1] \in R
    BY <1>1, <1>8, <1>10
  <2> QED BY <2>1
<1>11. Nat \subseteq C
  <2> HIDE DEF C
  <2> QED BY <1>9, <1>10, ClosedSetHoldsNat
<1>12. \A n \in 0..L : f[n] \in Seq(R)
  BY <1>1, <1>11
<1>13. f \in [0..L -> Seq(R)]
  <2> HIDE DEF Entry, L, f
  <2>1. f = [n \in 0..L |-> Entry(f, n)]
    BY <1>7 DEF f
  <2> QED BY <1>12, <2>1
<1>14. f[0] = <<>> /\ \A n \in 1..L : f[n] = IF q[n].served THEN f[n - 1] ELSE Append(f[n - 1], q[n])
  <2> HIDE DEF f
  <2>1. f[0] = Entry(f, 0) /\ \A n \in 1..L : f[n] = Entry(f, n) /\ n # 0
    <3> HIDE DEF Entry
    <3> QED BY <1>1, <1>8
  <2> HIDE DEF L
  <2> QED BY <2>1
<1> QED BY <1>13, <1>14

\* Cleaning a queue throws its served requests out and adds none.
LEMMA CleanRight ==
  ASSUME NEW R, NEW q \in Seq(R)
  PROVE  /\ Clean(q) \in Seq(R) /\ Len(Clean(q)) <= Len(q)
         /\ \A j \in DOMAIN Clean(q) : ~Clean(q)[j].served
<1> DEFINE L == Len(q)
           K == KeptOf(q)
           Good(m) == Len(K[m]) <= m /\ \A j \in DOMAIN K[m] : ~K[m][j].served
           B == {m \in Nat : m <= L => Good(m)}
<1>1. /\ K \in [0..L -> Seq(R)] /\ K[0] = <<>>
      /\ \A n \in 1..L : K[n] = IF q[n].served THEN K[n - 1] ELSE Append(K[n - 1], q[n])
  BY KeptRecursion
<1>2. L \in Nat /\ \A i \in 1..L : q[i] \in R
  OBVIOUS
<1> HIDE DEF K, L
<1>3. 0 \in B
  <2>1. Len(K[0]) = 0 /\ DOMAIN K[0] = {}
    BY <1>1
  <2> QED BY <2>1
<1>4. ASSUME NEW m \in Nat, m \in B PROVE m + 1 \in B
  <2>1. ASSUME m + 1 <= L PROVE Good(m + 1)
    <3>1. Good(m)
      <4> HIDE DEF Good
      <4> QED BY <1>2, <1>4, <2>1
    <3>2. m + 1 \in 1..L /\ m \in 0..L /\ (m + 1) - 1 = m
      BY <1>2, <2>1
    <3>3. /\ K[m] \in Seq(R) /\ q[m + 1] \in R
          /\ K[m + 1] = IF q[m + 1].served THEN K[m] ELSE Append(K[m], q[m + 1])
      BY <1>1, <1>2, <3>2
    <3>4. CASE q[m + 1].served
      <4>1. K[m + 1] = K[m] /\ Len(K[m]) \in Nat
        BY <3>3, <3>4
      <4> QED BY <3>1, <4>1
    <3>5. CASE ~q[m + 1].served
      <4> DEFINE k == K[m]
                 e == q[m + 1]
      <4>1. K[m + 1] = Append(k, e) /\ k \in Seq(R) /\ e \in R
        BY <3>3, <3>5
      <4> HIDE DEF k, e
      <4>2. /\ Len(K[m + 1]) = Len(k) + 1 /\ DOMAIN K[m + 1] = 1..(Len(k) + 1)
            /\ DOMAIN k = 1..Len(k) /\ Len(k) \in Nat
            /\ K[m + 1][Len(k) + 1] = e /\ \A j \in 1..Len(k) : K[m + 1][j] = k[j]
        BY <4>1
      <4>3. Len(k) <= m /\ (\A j \in DOMAIN k : ~k[j].served) /\ ~e.served
        BY <3>1, <3>5 DEF k, e
      <4> QED BY <4>2, <4>3
    <3> QED BY <3>4, <3>5
  <2> HIDE DEF Good
  <2> QED BY <2>1
<1>5. Good(L)
  <2> HIDE DEF B
  <2>1. Nat \subseteq B
    BY <1>3, <1>4, ClosedSetHoldsNat
  <2>2. L \in B
    BY <1>2, <2>1
  <2> HIDE DEF Good
  <2> QED BY <1>2, <2>2 DEF B
<1>6. Clean(q) = K[L] /\ K[L] \in Seq(R)
  <2>1. Clean(q) = K[L]
    BY DEF Clean, KeptOf, K, L
  <2> QED BY <1>1, <1>2, <2>1
<1> QED BY <1>5, <1>6 DEF L
=============================================================================
