------------------------- MODULE CounterLineProofs -------------------------
(***************************************************************************)
(* Proofs about CounterLine, for every size of the line.                   *)
(***************************************************************************)
EXTENDS CounterLine, DataLemmas

(***************************************************************************)
(* Highest and Lowest pick what their names say.                           *)
(***************************************************************************)

\* A non-empty set of naturals has a least element.
LEMMA LeastNatural ==
  ASSUME NEW T \in SUBSET Nat, T # {}
  PROVE  \E x \in T : \A y \in T : x <= y
<1>1. \E x \in T : \A y \in T : ~(<<y, x>> \in OpToRel(<, Nat))
  BY WFMin, NatLessThanWellFounded
<1>2. ASSUME NEW x \in T, NEW y \in T, ~(<<y, x>> \in OpToRel(<, Nat))
      PROVE  x <= y
  BY <1>2 DEF OpToRel
<1> QED
  BY <1>1, <1>2

LEMMA MinorsExist == 0 \in Minors /\ 0 \in Majors
  BY SizesAssumption DEF Minors, Majors

\* The lowest minor is one of the minors, and none is below it.
LEMMA LowestMinor ==
  ASSUME NEW v \in [Minors -> Nat]
  PROVE  /\ Lowest(v) \in Nat
         /\ \E k \in Minors : v[k] = Lowest(v)
         /\ \A j \in Minors : Lowest(v) <= v[j]
<1> DEFINE T == {v[i] : i \in Minors}
<1>1. T \in SUBSET Nat /\ T # {}
  BY MinorsExist
<1>2. \E x \in T : \A y \in T : x <= y
  BY <1>1, LeastNatural
<1>3. \E x \in T : \A j \in Minors : x <= v[j]
  BY <1>2
<1>4. Lowest(v) \in T /\ \A j \in Minors : Lowest(v) <= v[j]
  BY <1>3 DEF Lowest
<1> QED
  BY <1>1, <1>4

\* The highest minor is one of the minors, and none is above it.
LEMMA HighestMinor ==
  ASSUME NEW B \in Nat, NEW v \in [Minors -> 0..B]
  PROVE  /\ Highest(v) \in 0..B
         /\ \E k \in Minors : v[k] = Highest(v)
         /\ \A j \in Minors : v[j] <= Highest(v)
<1> DEFINE U == {n \in Nat : \A j \in Minors : v[j] <= n}
<1>1. U \in SUBSET Nat /\ B \in U
  OBVIOUS
<1>2. PICK h \in U : \A n \in U : h <= n
  BY <1>1, LeastNatural
<1>3. \E k \in Minors : v[k] = h
  <2>1. SUFFICES ASSUME \A k \in Minors : v[k] # h
                 PROVE  FALSE
    OBVIOUS
  <2>2. \A k \in Minors : v[k] <= h - 1 /\ h - 1 \in Nat
    BY <1>2, <2>1
  <2>3. h - 1 \in U
    BY <2>2, MinorsExist
  <2> QED
    BY <1>2, <2>3
<1>4. \E x \in {v[i] : i \in Minors} : \A j \in Minors : v[j] <= x
  BY <1>2, <1>3
<1>5. /\ Highest(v) \in {v[i] : i \in Minors}
      /\ \A j \in Minors : v[j] <= Highest(v)
  BY <1>4 DEF Highest
<1> QED
  BY <1>5

(***************************************************************************)
(* What the parts of an update do to the minors of a well-typed line.      *)
(***************************************************************************)

\* The written minor grows, by more than one only up to the highest minor.
LEMMA IncrementGrows ==
  ASSUME NEW v \in [Minors -> 0..MinorMax], NEW i \in Minors
  PROVE  /\ Increment(v, i) \in Nat \ {0}
         /\ Increment(v, i) # 1 => v[i] + Increment(v, i) <= Highest(v)
         /\ Written(v, i) \in [Minors -> Nat]
         /\ Written(v, i)[i] = v[i] + Increment(v, i)
         /\ \A j \in Minors \ {i} : Written(v, i)[j] = v[j]
<1>1. MinorMax \in Nat /\ SmoothStep \in Nat \ {0}
  BY SizesAssumption
<1>2. Highest(v) \in 0..MinorMax /\ v[i] <= Highest(v)
  BY <1>1, HighestMinor
<1>3. /\ Increment(v, i) \in Nat \ {0}
      /\ Increment(v, i) # 1 => v[i] + Increment(v, i) <= Highest(v)
  BY <1>1, <1>2 DEF Increment, Lesser
<1> QED
  BY <1>1, <1>3 DEF Written

LEMMA UpdatedMinors ==
  ASSUME TypeOK, NEW m \in Majors, NEW i \in Minors
  PROVE  /\ Updated(m, i) \in [Majors -> [Minors -> Nat]]
         /\ Updated(m, i)[m][i] \in minor[m][i] + 1 .. minor[m][i] + MinorMax
         /\ Updated(m, i)[m][i] # minor[m][i] + 1 =>
              Updated(m, i)[m][i] <= Highest(minor[m])
         /\ \A j \in Minors \ {i} : Updated(m, i)[m][j] = minor[m][j]
         /\ \A n \in Majors \ {m} : Updated(m, i)[n] = minor[n]
<1>1. minor[m] \in [Minors -> 0..MinorMax] /\ MinorMax \in Nat \ {0}
  BY SizesAssumption DEF TypeOK
<1>2. Updated(m, i)[m] = Written(minor[m], i)
  BY DEF TypeOK, Updated
<1>3. \A n \in Majors \ {m} : Updated(m, i)[n] = minor[n]
  BY DEF TypeOK, Updated
<1>4. Updated(m, i) \in [Majors -> [Minors -> Nat]]
  BY <1>1, IncrementGrows DEF TypeOK, Updated
<1>5. Highest(minor[m]) \in 0..MinorMax
  BY <1>1, HighestMinor
<1> QED
  BY <1>1, <1>2, <1>3, <1>4, <1>5, IncrementGrows

\* A rebase subtracts at most what every minor has.
LEMMA RebasedMinors ==
  ASSUME TypeOK, NEW m \in Majors, NEW i \in Minors
  PROVE  /\ RebaseBy(m, i) \in Nat
         /\ \A j \in Minors : RebaseBy(m, i) <= Updated(m, i)[m][j]
         /\ Rebased(m, i) \in [Majors -> [Minors -> Nat]]
         /\ \A j \in Minors :
              Rebased(m, i)[m][j] = Updated(m, i)[m][j] - RebaseBy(m, i)
         /\ \A n \in Majors \ {m} : Rebased(m, i)[n] = minor[n]
<1>1. Updated(m, i)[m] \in [Minors -> Nat]
  BY UpdatedMinors
<1>2. /\ RebaseBy(m, i) \in Nat
      /\ \A j \in Minors : RebaseBy(m, i) <= Updated(m, i)[m][j]
  BY <1>1, LowestMinor DEF RebaseBy
<1> QED
  BY <1>1, <1>2 DEF Rebased, TypeOK

\* The bounds of what an overflow works on, the wrapping of a zero included.
LEMMA OverflowArithmetic ==
  ASSUME TypeOK, NEW m \in Majors, NEW i \in Minors
  PROVE  /\ TakenBack(m, i) \in [Minors -> 0..WordSize]
         /\ Highest(TakenBack(m, i)) \in Nat
         /\ NextMajor(m, i) \in Nat
<1>1. /\ MinorMax \in Nat /\ MajorMax \in Nat /\ WordSize \in Nat \ {0}
      /\ MinorMax < WordSize
  BY SizesAssumption
<1>2. \A j \in Minors \ {i} : Rebased(m, i)[m][j] \in 0..WordSize
  BY <1>1, UpdatedMinors, RebasedMinors DEF TypeOK
<1>3. (Rebased(m, i)[m][i] - 1) % WordSize \in 0..WordSize
  BY <1>1, RebasedMinors
<1>4. TakenBack(m, i) \in [Minors -> 0..WordSize]
  BY <1>2, <1>3, RebasedMinors DEF TakenBack
<1>5. Highest(TakenBack(m, i)) \in Nat
  BY <1>1, <1>4, HighestMinor
<1>6. major[m] \in Nat
  BY <1>1 DEF TypeOK
<1> QED
  BY <1>1, <1>4, <1>5, <1>6, RebasedMinors DEF NextMajor

(***************************************************************************)
(* Type correctness.                                                       *)
(***************************************************************************)

LEMMA FirstModeType ==
  ASSUME NEW mi, NEW m, NEW from
  PROVE  FirstMode(mi, m, from) \in {0, 2}
BY DEF FirstMode

LEMMA TypeInit == Init => TypeOK
BY SizesAssumption DEF Init, TypeOK, ZeroMinors

\* Minors that are not too big stay within their width, rebased or not.
LEMMA MinorBounds ==
  ASSUME TypeOK, NEW m \in Majors, NEW i \in Minors, ~TooBig(m, i)
  PROVE  /\ Updated(m, i) \in [Majors -> [Minors -> 0..MinorMax]]
         /\ Rebased(m, i) \in [Majors -> [Minors -> 0..MinorMax]]
<1>1. MinorMax \in Nat
  BY SizesAssumption
<1>2. \A n \in Majors : minor[n] \in [Minors -> 0..MinorMax]
  BY DEF TypeOK
<1>3. Updated(m, i)[m][i] \in 0..MinorMax
  BY <1>1, UpdatedMinors DEF TooBig
<1>4. \A j \in Minors : Updated(m, i)[m][j] \in 0..MinorMax
  BY <1>2, <1>3, UpdatedMinors
<1>5. ASSUME NEW j \in Minors PROVE Rebased(m, i)[m][j] \in 0..MinorMax
  <2>1. /\ RebaseBy(m, i) \in Nat
        /\ RebaseBy(m, i) <= Updated(m, i)[m][j]
        /\ Rebased(m, i)[m][j] = Updated(m, i)[m][j] - RebaseBy(m, i)
    BY RebasedMinors
  <2> QED
    BY <1>1, <1>4, <2>1
<1>6. ASSUME NEW u \in [Majors -> [Minors -> Nat]],
             \A j \in Minors : u[m][j] \in 0..MinorMax,
             \A n \in Majors \ {m} : u[n] = minor[n]
      PROVE  u \in [Majors -> [Minors -> 0..MinorMax]]
  BY <1>2, <1>6
<1>7. Updated(m, i) \in [Majors -> [Minors -> 0..MinorMax]]
  BY <1>4, <1>6, UpdatedMinors
<1>8. Rebased(m, i) \in [Majors -> [Minors -> 0..MinorMax]]
  BY <1>5, <1>6, RebasedMinors
<1> QED
  BY <1>7, <1>8

LEMMA TypeUpdate ==
  ASSUME TypeOK, NEW m \in Majors, NEW i \in Minors, Update(m, i)
  PROVE  TypeOK'
<1>1. CASE UpdateInPlace(m, i)
  <2>2. minor' \in [Majors -> [Minors -> 0..MinorMax]]
    BY <1>1, MinorBounds DEF UpdateInPlace
  <2>3. compMode' \in [Majors -> {0, 2}]
    BY <1>1, FirstModeType DEF UpdateInPlace, TypeOK
  <2> QED
    BY <1>1, <2>2, <2>3 DEF UpdateInPlace, TypeOK, stats
<1>2. CASE UpdateRebased(m, i)
  <2>1. ~TooBig(m, i)
    BY <1>2 DEF UpdateRebased, Rebases, Unfit
  <2>3. minor' \in [Majors -> [Minors -> 0..MinorMax]]
    BY <1>2, <2>1, MinorBounds DEF UpdateRebased
  <2>4. major[m] + RebaseBy(m, i) \in 0..MajorMax
    BY <1>2, SizesAssumption, RebasedMinors
       DEF UpdateRebased, Rebases, RebaseBy, TypeOK
  <2>5. compMode' \in [Majors -> {0, 2}]
    BY <1>2, FirstModeType DEF UpdateRebased, TypeOK
  <2> QED
    BY <1>2, <2>3, <2>4, <2>5 DEF UpdateRebased, TypeOK, stats
<1>3. CASE UpdateOverflow(m, i)
  <2>1. NextMajor(m, i) \in 0..MajorMax
    BY <1>3, SizesAssumption, OverflowArithmetic DEF UpdateOverflow
  <2>2. {m} \X Minors \subseteq Children
    BY DEF Children
  <2> QED
    BY <1>3, <2>1, <2>2, SizesAssumption
       DEF UpdateOverflow, TypeOK, ZeroMinors
<1>4. CASE UpdateSuper(m, i)
  BY <1>4, SizesAssumption DEF UpdateSuper, TypeOK, ZeroMinors
<1> QED
  BY <1>1, <1>2, <1>3, <1>4 DEF Update

\* Every variable of the line keeps its type: minors and majors stay within
\* their widths whatever sequence of in-place updates, rebases and overflows
\* of the majors and of the super counter update_ctr_cls goes through.
THEOREM TypeCorrect == Spec => []TypeOK
<1>1. TypeOK /\ [Next]_vars => TypeOK'
  <2>1. ASSUME TypeOK, StartTimed PROVE TypeOK'
    BY <2>1 DEF TypeOK, StartTimed, counters
  <2>2. ASSUME TypeOK, UNCHANGED vars PROVE TypeOK'
    BY <2>2 DEF TypeOK, vars
  <2> QED
    BY <2>1, <2>2, TypeUpdate DEF Next
<1> QED
  BY <1>1, TypeInit, PTL DEF Spec

(***************************************************************************)
(* The recorded encoding takes the minors it is recorded for.              *)
(***************************************************************************)

\* When ZCC packs one major at a time, what it makes of a major depends on
\* the minors of that major only.
LEMMA EncodingIsLocal ==
  ASSUME ~JointZcc, NEW m \in Majors, NEW p, NEW q, p[m] = q[m]
  PROVE  /\ NonZero(p, m) = NonZero(q, m)
         /\ ZccFits(p, m) <=> ZccFits(q, m)
         /\ UncompFits(p, m) <=> UncompFits(q, m)
<1>1. NonZero(p, m) = NonZero(q, m)
  BY DEF NonZero, Scope
<1>2. ZccWidth(p, m) = ZccWidth(q, m)
  BY <1>1 DEF ZccWidth
<1> QED
  BY <1>1, <1>2 DEF ZccFits, UncompFits, Scope

\* Major m is encodable in its recorded mode (a conjunct of Encodable).
EncodableMajor(m) ==
  /\ compMode[m] = 0 => NonZero(minor, m) = {} \/ ZccFits(minor, m)
  /\ compMode[m] = 2 => UncompFits(minor, m)

LEMMA FirstModeFits ==
  ASSUME NEW mi, NEW m, NEW from, FittingModes(mi, m, from) # {}
  PROVE  /\ FirstMode(mi, m, from) = 0 => ZccFits(mi, m)
         /\ FirstMode(mi, m, from) = 2 => UncompFits(mi, m)
BY DEF FirstMode, FittingModes

LEMMA ZeroMinorsNonZero ==
  ASSUME ~JointZcc, NEW mi, NEW m \in Majors, mi[m] = ZeroMinors
  PROVE  NonZero(mi, m) = {}
BY DEF NonZero, Scope, ZeroMinors

\* A major the step leaves alone stays encodable.
LEMMA EncodableKept ==
  ASSUME ~JointZcc, NEW n \in Majors, EncodableMajor(n),
         minor'[n] = minor[n], compMode'[n] = compMode[n]
  PROVE  EncodableMajor(n)'
<1>1. /\ NonZero(minor, n)' = NonZero(minor, n)
      /\ ZccFits(minor, n)' <=> ZccFits(minor, n)
      /\ UncompFits(minor, n)' <=> UncompFits(minor, n)
  BY EncodingIsLocal
<1> QED
  BY <1>1 DEF EncodableMajor

LEMMA EncodableStep ==
  ASSUME ~JointZcc, Compression # 0, TypeOK, [Next]_vars,
         NEW n \in Majors, EncodableMajor(n)
  PROVE  EncodableMajor(n)'
<1>1. CASE UNCHANGED vars \/ StartTimed
  BY <1>1, EncodableKept DEF vars, StartTimed, counters
<1>2. ASSUME NEW m \in Majors, NEW i \in Minors, Update(m, i)
      PROVE  EncodableMajor(n)'
  <2>1. CASE UpdateSuper(m, i)
    <3>1. minor'[n] = ZeroMinors /\ compMode'[n] = 0
      BY <2>1 DEF UpdateSuper
    <3> QED
      BY <3>1, ZeroMinorsNonZero DEF EncodableMajor
  <2>2. CASE n # m /\ ~UpdateSuper(m, i)
    <3>1. minor'[n] = minor[n] /\ compMode'[n] = compMode[n]
      BY <1>2, <2>2, UpdatedMinors, RebasedMinors
         DEF Update, UpdateInPlace, UpdateRebased, UpdateOverflow, TypeOK
    <3> QED
      BY <3>1, EncodableKept
  <2>3. CASE n = m /\ UpdateInPlace(m, i)
    <3>1. FittingModes(Updated(m, i), m, compMode[m]) # {}
      BY <2>3 DEF UpdateInPlace, Unfit
    <3>2. /\ minor' = Updated(m, i)
          /\ compMode'[m] = FirstMode(Updated(m, i), m, compMode[m])
      BY <2>3 DEF UpdateInPlace, TypeOK
    <3> QED
      BY <2>3, <3>1, <3>2, FirstModeFits DEF EncodableMajor
  <2>4. CASE n = m /\ UpdateRebased(m, i)
    <3>1. FittingModes(Rebased(m, i), m, 0) # {}
      BY <2>4 DEF UpdateRebased, Overflows, Rebases
    <3>2. /\ minor' = Rebased(m, i)
          /\ compMode'[m] = FirstMode(Rebased(m, i), m, 0)
      BY <2>4 DEF UpdateRebased, TypeOK
    <3> QED
      BY <2>4, <3>1, <3>2, FirstModeFits DEF EncodableMajor
  <2>5. CASE n = m /\ UpdateOverflow(m, i)
    <3>1. minor'[m] = ZeroMinors /\ compMode'[m] = 0
      BY <2>5 DEF UpdateOverflow, TypeOK
    <3> QED
      BY <2>5, <3>1, ZeroMinorsNonZero DEF EncodableMajor
  <2> QED
    BY <1>2, <2>1, <2>2, <2>3, <2>4, <2>5 DEF Update
<1> QED
  BY <1>1, <1>2 DEF Next

\* When ZCC packs one major at a time, comp_mode always names an encoding the
\* stored minors have: what update_ctr_cls decides from the mode of the last
\* update is never decided from a stale one.
THEOREM EncodableAlways == ~JointZcc => (Spec => []Encodable)
<1> SUFFICES ASSUME ~JointZcc PROVE Spec => []Encodable
  OBVIOUS
<1> DEFINE Inv == Compression # 0 => \A n \in Majors : EncodableMajor(n)
<1>1. Inv <=> Encodable
  BY DEF EncodableMajor, Encodable
<1>2. Init => Inv
  BY ZeroMinorsNonZero DEF Init, EncodableMajor
<1>3. TypeOK /\ Inv /\ [Next]_vars => Inv'
  BY EncodableStep
<1> QED
  BY <1>1, <1>2, <1>3, TypeCorrect, PTL DEF Spec

(***************************************************************************)
(* The arithmetic of the encodings.                                        *)
(***************************************************************************)

LEMMA PowerMonotone ==
  ASSUME NEW a \in Nat, NEW b \in Nat, a <= b
  PROVE  /\ 2 ^ a \in Nat \ {0}
         /\ 2 ^ b \in Nat \ {0}
         /\ 2 ^ a <= 2 ^ b
<1>1. ASSUME NEW n \in Nat
      PROVE  /\ IsFiniteSet(SUBSET (1..n))
             /\ Cardinality(SUBSET (1..n)) = 2 ^ n
             /\ 2 ^ n \in Nat \ {0}
  <2>1. IsFiniteSet(1..n) /\ Cardinality(1..n) = n
    BY FS_Interval
  <2>2. /\ IsFiniteSet(SUBSET (1..n))
        /\ Cardinality(SUBSET (1..n)) = 2 ^ n
    BY <2>1, FS_SUBSET
  <2>3. SUBSET (1..n) # {}
    OBVIOUS
  <2> QED
    BY <2>2, <2>3, FS_CardinalityType, FS_EmptySet
<1>2. SUBSET (1..a) \in SUBSET (SUBSET (1..b))
  OBVIOUS
<1>3. Cardinality(SUBSET (1..a)) <= Cardinality(SUBSET (1..b))
  BY <1>1, <1>2, FS_Subset
<1> QED
  BY <1>1, <1>3

LEMMA QuotientAntitone ==
  ASSUME NEW z \in Nat, NEW b \in Nat \ {0}, NEW c \in Nat \ {0}, b <= c
  PROVE  /\ z \div b \in Nat
         /\ z \div c \in Nat
         /\ z \div c <= z \div b
OBVIOUS

LEMMA NonZeroFinite ==
  ASSUME NEW mi, NEW m \in Majors
  PROVE  IsFiniteSet(NonZero(mi, m)) /\ Cardinality(NonZero(mi, m)) \in Nat
<1>1. IsFiniteSet(Majors) /\ IsFiniteSet(Minors)
  BY SizesAssumption, FS_Interval DEF Majors, Minors
<1>2. IsFiniteSet(Scope(m))
  BY <1>1, FS_Singleton DEF Scope
<1>3. IsFiniteSet(Scope(m) \X Minors)
  BY <1>1, <1>2, FS_Product
<1>4. NonZero(mi, m) \in SUBSET (Scope(m) \X Minors)
  BY DEF NonZero
<1> QED
  BY <1>3, <1>4, FS_Subset, FS_CardinalityType

\* Minors none of which is larger, with fewer or as many of them non-zero,
\* fit ZCC when the larger ones do.
LEMMA ZccFitsSmaller ==
  ASSUME Compression # 0, NEW m \in Majors,
         NEW p \in [Majors -> [Minors -> Nat]],
         NEW q \in [Majors -> [Minors -> Nat]],
         \A c \in Scope(m) \X Minors : q[c[1]][c[2]] <= p[c[1]][c[2]],
         NonZero(q, m) # {},
         ZccFits(p, m)
  PROVE  ZccFits(q, m)
<1> DEFINE P == Cardinality(NonZero(p, m))
           Q == Cardinality(NonZero(q, m))
<1>1. Scope(m) \subseteq Majors
  BY DEF Scope
<1>2. NonZero(q, m) \in SUBSET NonZero(p, m)
  BY <1>1 DEF NonZero
<1>3. Q \in Nat \ {0} /\ P \in Nat \ {0} /\ Q <= P
  BY <1>2, NonZeroFinite, FS_Subset, FS_EmptySet
<1>4. ZccBits \in Nat
  <2>1. ZccBits \in Int
    BY SizesAssumption, DesignAssumption DEF ZccBits, ZccLines, Shares
  <2> QED
    BY <2>1, RoomAssumption
<1>5. /\ ZccWidth(p, m) \in Nat /\ ZccWidth(q, m) \in Nat
      /\ ZccWidth(p, m) <= ZccWidth(q, m)
  <2>1. /\ ZccBits \div P \in Nat /\ ZccBits \div Q \in Nat
        /\ ZccBits \div P <= ZccBits \div Q
    BY <1>3, <1>4, QuotientAntitone
  <2>2. /\ ZccWidth(p, m) = Lesser(ZccBits \div P, 63)
        /\ ZccWidth(q, m) = Lesser(ZccBits \div Q, 63)
    BY DEF ZccWidth
  <2> HIDE DEF P, Q
  <2> QED
    BY <2>1, <2>2 DEF Lesser
<1>6. /\ 2 ^ ZccWidth(p, m) \in Nat /\ 2 ^ ZccWidth(q, m) \in Nat
      /\ 2 ^ ZccWidth(p, m) <= 2 ^ ZccWidth(q, m)
  BY <1>5, PowerMonotone
<1>7. ASSUME NEW c \in Scope(m) \X Minors
      PROVE  q[c[1]][c[2]] <= 2 ^ ZccWidth(q, m)
  <2>1. q[c[1]][c[2]] \in Nat /\ p[c[1]][c[2]] \in Nat
    BY <1>1
  <2>2. p[c[1]][c[2]] <= 2 ^ ZccWidth(p, m)
    BY DEF ZccFits
  <2> QED
    BY <1>6, <2>1, <2>2
<1> QED
  BY <1>7 DEF ZccFits

(***************************************************************************)
(* The overflow of a major counter.                                        *)
(***************************************************************************)

\* A rebase that does not help: had it taken the written minor down to zero,
\* every other minor would be smaller than before the write, and the line
\* would fit the encoding it had then.  So the minor that the overflow takes
\* back is not zero, and as an uns64 does not wrap to the largest word.
LEMMA TakenBackInRange ==
  ASSUME ~JointZcc, TypeOK, Encodable,
         NEW m \in Majors, NEW i \in Minors, Overflows(m, i)
  PROVE  Rebased(m, i)[m][i] > 0
<1>1. CASE ~Rebases(m, i)
  BY <1>1, UpdatedMinors, RebasedMinors DEF RebaseBy, TypeOK
<1>2. CASE Rebases(m, i)
  <2> SUFFICES ASSUME Rebased(m, i)[m][i] = 0 PROVE FALSE
    BY RebasedMinors
  <2> DEFINE q == Rebased(m, i)
  <2>1. Compression # 0 /\ EncodableMajor(m)
    BY <1>2 DEF Rebases, Unfit, Encodable, EncodableMajor
  <2>2. FittingModes(q, m, 0) = {}
    BY <1>2 DEF Overflows, Rebases, Unfit
  <2>3. /\ q \in [Majors -> [Minors -> Nat]]
        /\ minor \in [Majors -> [Minors -> Nat]]
    BY RebasedMinors DEF TypeOK
  <2>4. \A j \in Minors : q[m][j] <= minor[m][j]
    <3>1. ASSUME NEW j \in Minors \ {i} PROVE q[m][j] <= minor[m][j]
      <4>1. /\ q[m][j] = minor[m][j] - RebaseBy(m, i)
            /\ RebaseBy(m, i) \in Nat
            /\ minor[m][j] \in Nat
        BY <2>3, UpdatedMinors, RebasedMinors
      <4> QED
        BY <4>1
    <3> QED
      BY <2>3, <3>1
  <2>5. PICK j \in Minors : ~(q[m][j] < 2 ^ UncompBits)
    BY <2>1, <2>2, RoomAssumption DEF FittingModes, UncompFits
  <2>6. 2 ^ UncompBits \in Nat \ {0}
    BY SizesAssumption, PowerMonotone
  <2>7. q[m][j] > 0 /\ ~(minor[m][j] < 2 ^ UncompBits) /\ minor[m][j] > 0
    BY <2>3, <2>4, <2>5, <2>6
  <2>8. <<m, j>> \in NonZero(q, m) /\ <<m, j>> \in NonZero(minor, m)
    BY <2>7 DEF NonZero, Scope
  <2>9. ZccFits(minor, m)
    BY <2>1, <2>7, <2>8 DEF EncodableMajor, UncompFits, TypeOK
  <2>10. \A c \in Scope(m) \X Minors : q[c[1]][c[2]] <= minor[c[1]][c[2]]
    BY <2>4 DEF Scope
  <2>11. ZccFits(q, m)
    BY <2>1, <2>3, <2>8, <2>9, <2>10, ZccFitsSmaller
  <2> QED
    BY <2>2, <2>11 DEF FittingModes
<1> QED
  BY <1>1, <1>2

\* What the overflow takes as the largest minor is the largest minor before
\* the update, less what a rebase has moved into the major counter already.
LEMMA HighestTakenBack ==
  ASSUME ~JointZcc, TypeOK, Encodable,
         NEW m \in Majors, NEW i \in Minors, Overflows(m, i)
  PROVE  Highest(TakenBack(m, i)) + RebaseBy(m, i) = Highest(minor[m])
<1> DEFINE t == TakenBack(m, i)
           r == RebaseBy(m, i)
           H == Highest(minor[m])
<1>1. /\ MinorMax \in Nat /\ WordSize \in Nat \ {0} /\ WordSize > MinorMax
      /\ minor[m] \in [Minors -> 0..MinorMax]
  BY SizesAssumption DEF TypeOK
<1>2. /\ H \in 0..MinorMax
      /\ \E k \in Minors : minor[m][k] = H
      /\ \A j \in Minors : minor[m][j] <= H
  BY <1>1, HighestMinor
<1>3. r \in Nat
  BY RebasedMinors
<1>4. t[i] = Updated(m, i)[m][i] - 1 - r /\ t[i] + r \in minor[m][i] .. H
  <2> DEFINE u == Updated(m, i)[m][i]
  <2>1. u \in Nat /\ u >= minor[m][i] + 1 /\ minor[m][i] \in Nat
    BY <1>1, UpdatedMinors
  <2>2. u = minor[m][i] + 1 \/ u <= H
    BY UpdatedMinors
  <2>3. Rebased(m, i)[m][i] = u - r /\ u - r > 0
    BY RebasedMinors, TakenBackInRange
  <2>4. t[i] = (u - r - 1) % WordSize
    BY <2>3, RebasedMinors DEF TakenBack
  <2>5. u - 1 <= H
    BY <1>2, <2>1, <2>2
  <2> HIDE DEF u, H, r
  <2>6. u - r - 1 \in 0..(WordSize - 1)
    BY <1>1, <1>2, <1>3, <2>1, <2>3, <2>5
  <2>7. t[i] = u - r - 1
    BY <1>1, <2>4, <2>6
  <2> QED
    BY <1>2, <1>3, <2>1, <2>5, <2>7 DEF u, H, r
<1>5. ASSUME NEW j \in Minors \ {i} PROVE t[j] + r = minor[m][j]
  <2>1. t[j] = Rebased(m, i)[m][j]
    BY RebasedMinors DEF TakenBack
  <2>2. t[j] = minor[m][j] - r /\ minor[m][j] \in Nat
    BY <1>1, <2>1, RebasedMinors, UpdatedMinors
  <2> QED
    BY <1>3, <2>2
<1>6. /\ Highest(t) \in Nat
      /\ \E k \in Minors : t[k] = Highest(t)
      /\ \A j \in Minors : t[j] <= Highest(t)
      /\ t \in [Minors -> Nat]
  BY <1>1, OverflowArithmetic, HighestMinor
<1>7. Highest(t) + r <= H
  BY <1>2, <1>4, <1>5, <1>6
<1>8. Highest(t) + r >= H
  <2>1. PICK k \in Minors : minor[m][k] = H
    BY <1>2
  <2>2. t[k] + r >= H /\ t[k] \in Nat
    BY <1>1, <1>2, <1>3, <1>4, <1>5, <1>6, <2>1
  <2> QED
    BY <1>2, <1>3, <1>6, <2>2
<1> QED
  BY <1>2, <1>3, <1>6, <1>7, <1>8

LEMMA SmallWord ==
  ASSUME NEW x \in 0..(WordSize - 1) PROVE x % WordSize = x
BY SizesAssumption

LEMMA NextMajorPasses ==
  ASSUME ~JointZcc, TypeOK, Encodable, NEW m \in Majors, NEW i \in Minors,
         Overflows(m, i)
  PROVE  NextMajor(m, i) = IF Compression = 0 THEN major[m] + 1
                           ELSE major[m] + Highest(minor[m]) + 1
<1>1. /\ MinorMax \in Nat /\ MajorMax \in Nat /\ WordSize \in Nat
      /\ WordSize > MajorMax + MinorMax + 1
      /\ major[m] \in 0..MajorMax
      /\ Highest(minor[m]) \in 0..MinorMax
  BY SizesAssumption, HighestMinor DEF TypeOK
<1>2. CASE Compression = 0
  <2>1. RebaseBy(m, i) = 0
    BY <1>2 DEF RebaseBy, Rebases
  <2>2. NextMajor(m, i) = (major[m] + 1) % WordSize
    BY <1>1, <1>2, <2>1 DEF NextMajor
  <2>3. major[m] + 1 \in 0..(WordSize - 1)
    BY <1>1
  <2>4. NextMajor(m, i) = major[m] + 1
    BY <2>2, <2>3, SmallWord
  <2> QED
    BY <1>2, <2>4
<1>3. CASE Compression # 0
  <2> DEFINE h == Highest(TakenBack(m, i))
             r == RebaseBy(m, i)
             H == Highest(minor[m])
  <2>1. h \in Nat /\ r \in Nat /\ h + r = H
    BY RebasedMinors, OverflowArithmetic, HighestTakenBack
  <2>2. NextMajor(m, i) = (major[m] + r + (h + 1)) % WordSize
    BY <1>3 DEF NextMajor
  <2>3. major[m] \in Nat /\ H \in Nat /\ major[m] + H + 1 \in 0..(WordSize - 1)
    BY <1>1
  <2> HIDE DEF h, r, H
  <2>4. major[m] + r + (h + 1) = major[m] + H + 1
    BY <2>1, <2>3
  <2>5. NextMajor(m, i) = major[m] + H + 1
    BY <2>2, <2>3, <2>4, SmallWord
  <2> QED
    BY <1>3, <2>5 DEF H
<1> QED
  BY <1>2, <1>3

LEMMA OverflowStep ==
  ASSUME ~JointZcc, TypeOK, Encodable, [Next]_vars
  PROVE  PassesMinors
<1> SUFFICES ASSUME NEW n \in Majors, numOverflows'[n] > numOverflows[n],
                    super' = super
             PROVE  major'[n] = IF Compression = 0 THEN major[n] + 1
                                ELSE major[n] + Highest(minor[n]) + 1
  BY DEF PassesMinors
<1>1. numOverflows[n] \in Nat /\ super \in Nat
  BY SizesAssumption DEF TypeOK
<1>2. ~UNCHANGED vars /\ ~StartTimed
  BY <1>1 DEF vars, StartTimed
<1>3. PICK m \in Majors, i \in Minors : Update(m, i)
  BY <1>2 DEF Next
<1>4. ~UpdateInPlace(m, i) /\ ~UpdateRebased(m, i) /\ ~UpdateSuper(m, i)
  BY <1>1 DEF UpdateInPlace, UpdateRebased, UpdateSuper, stats
<1>5. UpdateOverflow(m, i)
  BY <1>3, <1>4 DEF Update
<1>6. n = m /\ major'[m] = NextMajor(m, i) /\ Overflows(m, i)
  BY <1>1, <1>5 DEF UpdateOverflow, TypeOK
<1> QED
  BY <1>6, NextMajorPasses

\* When ZCC packs one major at a time, an overflow of any line moves the major
\* counter past every effective counter used under it and no further, also
\* after a rebase that did not help: the minor-- of update_ctr_cls never wraps.
THEOREM OverflowPasses == ~JointZcc => (Spec => OverflowPassesMinors)
<1> SUFFICES ASSUME ~JointZcc PROVE Spec => OverflowPassesMinors
  OBVIOUS
<1>1. TypeOK /\ Encodable /\ [Next]_vars => [PassesMinors]_vars
  BY OverflowStep
<1> QED
  BY <1>1, TypeCorrect, EncodableAlways, PTL DEF Spec, OverflowPassesMinors

(***************************************************************************)
(* The line implements FreshCounters.                                      *)
(***************************************************************************)

value == [c \in Children |-> Effective(c)]

LEMMA EffectiveType ==
  ASSUME TypeOK, NEW c \in Children
  PROVE  /\ Effective(c) \in Nat
         /\ c[1] \in Majors /\ c[2] \in Minors /\ c = <<c[1], c[2]>>
         /\ major[c[1]] \in Nat /\ minor[c[1]][c[2]] \in 0..MinorMax
<1>1. c[1] \in Majors /\ c[2] \in Minors /\ c = <<c[1], c[2]>>
  BY DEF Children
<1>2. major[c[1]] \in Nat /\ minor[c[1]][c[2]] \in 0..MinorMax
  BY <1>1, SizesAssumption DEF TypeOK
<1>3. MinorMax \in Nat
  BY SizesAssumption
<1>4. major[c[1]] * (MinorMax + 1) \in Nat
  BY <1>2, <1>3
<1> QED
  BY <1>1, <1>2, <1>3, <1>4 DEF Effective

\* What an action must do to be a write of FreshCounters, said of Effective.
LEMMA FreshWrite ==
  ASSUME NEW c \in Children, reencrypted' \subseteq Children, super \in Nat,
         \/ super' > super /\ Children \subseteq {c} \cup reencrypted'
         \/ /\ super' = super
            /\ \A d \in {c} \cup reencrypted' : Effective(d)' > Effective(d)
            /\ \A d \in Children \ ({c} \cup reencrypted') :
                  Effective(d)' = Effective(d)
  PROVE  Fresh!Next
<1>1. \A d \in Children : /\ value[d] = Effective(d)
                          /\ value'[d] = Effective(d)'
  BY DEF value
<1>2. Fresh!Write(c)
  BY <1>1 DEF Fresh!Write, Fresh!Advances, Fresh!Keeps, value
<1> QED
  BY <1>2 DEF Fresh!Next

LEMMA FreshInPlace ==
  ASSUME TypeOK, NEW m \in Majors, NEW i \in Minors, UpdateInPlace(m, i)
  PROVE  Fresh!Next
<1> DEFINE c == <<m, i>>
<1>1. /\ c \in Children /\ super \in Nat /\ super' = super
      /\ reencrypted' = {}
      /\ major' = major /\ minor' = Updated(m, i)
  BY SizesAssumption DEF UpdateInPlace, Children, TypeOK
<1>2. Effective(c)' > Effective(c)
  <2>1. minor'[m][i] \in Nat /\ minor'[m][i] > minor[m][i]
    BY <1>1, SizesAssumption, UpdatedMinors DEF TypeOK
  <2>2. minor[m][i] \in Nat /\ major[m] \in Nat /\ MinorMax \in Nat
    BY SizesAssumption DEF TypeOK
  <2>3. PICK b \in Nat : /\ Effective(c) = b + minor[m][i]
                         /\ Effective(c)' = b + minor'[m][i]
    <3>1. major[m] * (MinorMax + 1) \in Nat
      BY <2>2
    <3> QED
      BY <1>1, <2>2, <3>1 DEF Effective
  <2> QED
    BY <2>1, <2>2, <2>3
<1>3. \A d \in Children \ {c} : Effective(d)' = Effective(d)
  BY <1>1, UpdatedMinors DEF Effective, Children
<1> QED
  BY <1>1, <1>2, <1>3, FreshWrite

LEMMA FreshRebased ==
  ASSUME TypeOK, NEW m \in Majors, NEW i \in Minors, UpdateRebased(m, i)
  PROVE  Fresh!Next
<1> DEFINE c == <<m, i>>
           r == RebaseBy(m, i)
<1>1. /\ c \in Children /\ super \in Nat /\ super' = super
      /\ reencrypted' = {} /\ Compression # 0
      /\ major' = [major EXCEPT ![m] = @ + r] /\ minor' = Rebased(m, i)
  BY SizesAssumption DEF UpdateRebased, Rebases, Children, TypeOK
<1>2. ASSUME NEW j \in Minors
      PROVE  Effective(<<m, j>>)' = major[m] + Updated(m, i)[m][j]
  <2>1. /\ minor'[m][j] = Updated(m, i)[m][j] - r
        /\ Updated(m, i)[m][j] \in Nat /\ r \in Nat
    BY <1>1, UpdatedMinors, RebasedMinors
  <2>2. major'[m] = major[m] + r /\ major[m] \in Nat
    BY <1>1, SizesAssumption DEF TypeOK
  <2>3. Effective(<<m, j>>)' = major'[m] + minor'[m][j]
    BY <1>1 DEF Effective
  <2> QED
    BY <2>1, <2>2, <2>3
<1>3. ASSUME NEW d \in Children, d[1] # m PROVE Effective(d)' = Effective(d)
  BY <1>1, <1>3, RebasedMinors DEF Effective, Children, TypeOK
<1>4. Effective(c)' > Effective(c)
  <2>1. /\ Updated(m, i)[m][i] \in Nat /\ minor[m][i] \in Nat
        /\ Updated(m, i)[m][i] > minor[m][i] /\ major[m] \in Nat
    BY SizesAssumption, UpdatedMinors DEF TypeOK
  <2>2. Effective(c) = major[m] + minor[m][i]
    BY <1>1 DEF Effective
  <2> QED
    BY <1>2, <2>1, <2>2
<1>5. \A d \in Children \ {c} : Effective(d)' = Effective(d)
  <2>1. ASSUME NEW j \in Minors \ {i}
        PROVE  Effective(<<m, j>>)' = Effective(<<m, j>>)
    BY <1>1, <1>2, UpdatedMinors DEF Effective
  <2> QED
    BY <1>3, <2>1 DEF Children
<1> QED
  BY <1>1, <1>4, <1>5, FreshWrite

LEMMA FreshOverflow ==
  ASSUME ~JointZcc, TypeOK, Encodable,
         NEW m \in Majors, NEW i \in Minors, UpdateOverflow(m, i)
  PROVE  Fresh!Next
<1> DEFINE c == <<m, i>>
<1>1. /\ c \in Children /\ super \in Nat /\ super' = super
      /\ reencrypted' = {m} \X Minors /\ c \in reencrypted'
      /\ major' = [major EXCEPT ![m] = NextMajor(m, i)]
      /\ minor' = [minor EXCEPT ![m] = ZeroMinors]
  BY SizesAssumption DEF UpdateOverflow, Children, TypeOK
<1>2. NextMajor(m, i) = IF Compression = 0 THEN major[m] + 1
                        ELSE major[m] + Highest(minor[m]) + 1
  BY NextMajorPasses DEF UpdateOverflow
<1>3. /\ MinorMax \in Nat /\ major[m] \in Nat
      /\ minor[m] \in [Minors -> 0..MinorMax]
  BY SizesAssumption DEF TypeOK
<1>4. ASSUME NEW j \in Minors
      PROVE  Effective(<<m, j>>)' > Effective(<<m, j>>)
  <2>1. minor'[m][j] = 0 /\ major'[m] = NextMajor(m, i)
    BY <1>1 DEF ZeroMinors, TypeOK
  <2>2. minor[m][j] \in 0..MinorMax
    BY <1>3
  <2>3. CASE Compression = 0
    <3>1. /\ Effective(<<m, j>>) = major[m] * (MinorMax + 1) + minor[m][j]
          /\ Effective(<<m, j>>)' = (major[m] + 1) * (MinorMax + 1)
      BY <1>2, <1>3, <2>1, <2>3 DEF Effective
    <3> QED
      BY <1>3, <2>2, <3>1
  <2>4. CASE Compression # 0
    <3>1. Highest(minor[m]) \in Nat /\ minor[m][j] <= Highest(minor[m])
      BY <1>3, HighestMinor
    <3>2. /\ Effective(<<m, j>>) = major[m] + minor[m][j]
          /\ Effective(<<m, j>>)' = major[m] + Highest(minor[m]) + 1
      BY <1>2, <1>3, <2>1, <2>4, <3>1 DEF Effective
    <3> QED
      BY <1>3, <2>2, <3>1, <3>2
  <2> QED
    BY <2>3, <2>4
<1>5. ASSUME NEW d \in Children, d[1] # m PROVE Effective(d)' = Effective(d)
  BY <1>1, <1>5 DEF Effective, Children, TypeOK
<1>6. \A d \in {c} \cup reencrypted' : Effective(d)' > Effective(d)
  BY <1>1, <1>4
<1>7. \A d \in Children \ ({c} \cup reencrypted') : Effective(d)' = Effective(d)
  BY <1>1, <1>5 DEF Children
<1>8. reencrypted' \subseteq Children
  BY <1>1 DEF Children
<1> QED
  BY <1>1, <1>6, <1>7, <1>8, FreshWrite

LEMMA FreshSuper ==
  ASSUME TypeOK, NEW m \in Majors, NEW i \in Minors, UpdateSuper(m, i)
  PROVE  Fresh!Next
<1>1. /\ <<m, i>> \in Children /\ super \in Nat /\ super' > super
      /\ reencrypted' = Children
  BY SizesAssumption DEF UpdateSuper, Children, TypeOK
<1> QED
  BY <1>1, FreshWrite

LEMMA FreshStutter ==
  ASSUME StartTimed \/ UNCHANGED vars
  PROVE  UNCHANGED Fresh!vars
<1>1. /\ super' = super /\ major' = major /\ minor' = minor
      /\ reencrypted' = reencrypted
  BY DEF StartTimed, vars, counters
<1>2. \A c \in Children : Effective(c)' = Effective(c)
  BY <1>1 DEF Effective
<1> QED
  BY <1>1, <1>2 DEF Fresh!vars

\* When ZCC packs one major at a time, no sequence of writes to the children
\* of a line, of whatever size, uses an effective counter of a child twice:
\* the line implements FreshCounters, through rebases, overflows of the majors
\* and of the super counter, and the switch to the timed part.
THEOREM Implements == ~JointZcc => (Spec => NeverReused)
<1> SUFFICES ASSUME ~JointZcc PROVE Spec => NeverReused
  OBVIOUS
<1>1. Init => Fresh!Init
  <2>1. Init => \A c \in Children : Effective(c) = 0
    BY SizesAssumption DEF Init, Effective, Children, ZeroMinors
  <2> QED
    BY <2>1 DEF Init, Fresh!Init
<1>2. TypeOK /\ Encodable /\ [Next]_vars => [Fresh!Next]_(Fresh!vars)
  BY FreshInPlace, FreshRebased, FreshOverflow, FreshSuper, FreshStutter
     DEF Next, Update
<1> QED
  BY <1>1, <1>2, TypeCorrect, EncodableAlways, PTL
     DEF Spec, NeverReused, Fresh!Spec

(***************************************************************************)
(* How fast counters are used up.                                          *)
(***************************************************************************)

\* Bounds on all minors are bounds on the highest.
LEMMA HighestBelow ==
  ASSUME NEW B \in Nat, NEW v \in [Minors -> 0..B], NEW b \in Int,
         \A j \in Minors : v[j] <= b
  PROVE  Highest(v) <= b
BY HighestMinor

LEMMA OneCounterUpdate ==
  ASSUME ~JointZcc, TypeOK, Encodable, super' = super, TypeOK',
         NEW m \in Majors, NEW i \in Minors, Update(m, i), NEW n \in Majors
  PROVE  major'[n] + Highest(minor'[n]) <= major[n] + Highest(minor[n]) + 1
<1>1. MinorMax \in Nat /\ super \in Nat
  BY SizesAssumption DEF TypeOK
<1>2. /\ minor[n] \in [Minors -> 0..MinorMax] /\ major[n] \in Nat
      /\ minor'[n] \in [Minors -> 0..MinorMax] /\ major'[n] \in Nat
  BY SizesAssumption DEF TypeOK
<1>3. /\ Highest(minor[n]) \in 0..MinorMax
      /\ \A j \in Minors : minor[n][j] <= Highest(minor[n])
  BY <1>1, <1>2, HighestMinor
<1>4. ~UpdateSuper(m, i)
  BY <1>1 DEF UpdateSuper
<1>5. CASE n # m
  <2>1. minor'[n] = minor[n] /\ major'[n] = major[n]
    <3>1. Updated(m, i)[n] = minor[n] /\ Rebased(m, i)[n] = minor[n]
      BY <1>5, UpdatedMinors, RebasedMinors
    <3>2. minor \in [Majors -> [Minors -> 0..MinorMax]] /\ major \in [Majors -> 0..MajorMax]
      BY DEF TypeOK
    <3>3. CASE UpdateInPlace(m, i)
      BY <3>1, <3>3 DEF UpdateInPlace
    <3>4. CASE UpdateRebased(m, i)
      BY <1>5, <3>1, <3>2, <3>4 DEF UpdateRebased
    <3>5. CASE UpdateOverflow(m, i)
      BY <1>5, <3>2, <3>5 DEF UpdateOverflow
    <3> QED BY <1>4, <3>3, <3>4, <3>5 DEF Update
  <2> QED
    BY <1>2, <1>3, <2>1
<1>6. CASE n = m /\ UpdateOverflow(m, i)
  <2>1. /\ major'[m] = NextMajor(m, i) /\ Overflows(m, i)
        /\ \A j \in Minors : minor'[m][j] <= 0
    BY <1>6 DEF UpdateOverflow, TypeOK, ZeroMinors
  <2>2. Highest(minor'[m]) <= 0
    BY <1>1, <1>2, <1>6, <2>1, HighestBelow
  <2>3. Highest(minor'[m]) \in Int
    <3>1. minor'[m] \in [Minors -> 0..MinorMax]
      BY <1>2, <1>6
    <3> QED
      BY <1>1, <3>1, HighestMinor
  <2>4. major'[m] <= major[m] + Highest(minor[m]) + 1
    BY <1>2, <1>3, <1>6, <2>1, NextMajorPasses
  <2> QED
    BY <1>2, <1>3, <1>6, <2>2, <2>3, <2>4
<1>7. CASE n = m /\ (UpdateInPlace(m, i) \/ UpdateRebased(m, i))
  <2> DEFINE u == Updated(m, i)[m]
             r == major'[m] - major[m]
             H == Highest(minor[m])
  <2>1. \A j \in Minors : minor'[m][j] = u[j] - r
    <3>1. CASE UpdateInPlace(m, i)
      BY <1>2, <1>7, <3>1, UpdatedMinors DEF UpdateInPlace
    <3>2. CASE UpdateRebased(m, i)
      <4>1. r = RebaseBy(m, i)
        BY <1>2, <1>7, <3>2, RebasedMinors DEF UpdateRebased, TypeOK
      <4> QED
        BY <3>2, <4>1, RebasedMinors DEF UpdateRebased
    <3> QED
      BY <1>7, <3>1, <3>2
  <2>2. \A j \in Minors : u[j] \in Nat /\ u[j] <= H + 1
    <3>1. /\ u \in [Minors -> Nat] /\ H \in Nat
          /\ \A j \in Minors : minor[m][j] \in Nat /\ minor[m][j] <= H
      BY <1>2, <1>3, <1>7, UpdatedMinors
    <3>2. /\ u[i] = minor[m][i] + 1 \/ u[i] <= H
          /\ \A j \in Minors \ {i} : u[j] = minor[m][j]
      BY UpdatedMinors
    <3> QED
      BY <3>1, <3>2
  <2>3. r \in Int /\ H \in Int
    BY <1>2, <1>3, <1>7
  <2>4. \A j \in Minors : minor'[m][j] <= H + 1 - r
    BY <2>1, <2>2, <2>3
  <2>5. Highest(minor'[m]) <= H + 1 - r /\ Highest(minor'[m]) \in Int
    <3>1. minor'[m] \in [Minors -> 0..MinorMax] /\ H + 1 - r \in Int
      BY <1>2, <1>7, <2>3
    <3> QED
      BY <1>1, <2>4, <3>1, HighestBelow, HighestMinor
  <2> DEFINE h == Highest(minor'[m])
  <2> HIDE DEF h, H
  <2> QED
    BY <1>2, <1>7, <2>3, <2>5 DEF h, H
<1> QED
  BY <1>4, <1>5, <1>6, <1>7 DEF Update

\* When ZCC packs one major at a time, an update uses up at most one effective
\* counter of a major, rebases and overflows included: a major counter of
\* MajorMax lasts at least MajorMax updates before the line is out of counters.
THEOREM OneCounter == ~JointZcc => (Spec => OneNewCounterPerUpdate)
<1> SUFFICES ASSUME ~JointZcc PROVE Spec => OneNewCounterPerUpdate
  OBVIOUS
<1>1. TypeOK /\ TypeOK' /\ Encodable /\ [Next]_vars => [UsesOneCounter]_vars
  <2>1. ASSUME TypeOK, StartTimed PROVE UsesOneCounter
    <3>1. ASSUME NEW n \in Majors
          PROVE  /\ major'[n] = major[n] /\ minor'[n] = minor[n]
                 /\ major[n] \in Nat /\ Highest(minor[n]) \in Nat
      BY <2>1, SizesAssumption, HighestMinor DEF StartTimed, counters, TypeOK
    <3> QED
      BY <3>1 DEF UsesOneCounter
  <2> QED
    BY <2>1, OneCounterUpdate DEF Next, UsesOneCounter
<1> QED
  BY <1>1, TypeCorrect, EncodableAlways, PTL DEF Spec, OneNewCounterPerUpdate

(***************************************************************************)
(* Rebasing and the division of ada_dyn0_comp.                             *)
(***************************************************************************)

\* A plain minor is wider than what ZCC gives a minor when at most one of the
\* major is zero.  The designs have it: 3 bits against 277 / 127 = 2 for a
\* whole line of 128 minors, and against 139 / 63 = 2 for half a line of 64.
PlainIsWider == NumMinors > 1 /\ UncompBits > ZccBits \div (NumMinors - 1)

LEMMA PowerStrict ==
  ASSUME NEW a \in Nat, NEW b \in Nat, a < b
  PROVE  2 ^ a \in Nat /\ 2 ^ b \in Nat /\ 2 ^ a < 2 ^ b
<1>1. ASSUME NEW n \in Nat
      PROVE  /\ IsFiniteSet(SUBSET (1..n))
             /\ Cardinality(SUBSET (1..n)) = 2 ^ n
  <2>1. IsFiniteSet(1..n) /\ Cardinality(1..n) = n
    BY FS_Interval
  <2> QED
    BY <2>1, FS_SUBSET
<1>2. /\ SUBSET (1..a) \in SUBSET (SUBSET (1..b))
      /\ (1..b) \in SUBSET (1..b) /\ (1..b) \notin SUBSET (1..a)
  OBVIOUS
<1>3. SUBSET (1..a) # SUBSET (1..b)
  BY <1>2
<1>4. Cardinality(SUBSET (1..a)) # Cardinality(SUBSET (1..b))
  BY <1>1, <1>2, <1>3, FS_Subset
<1>5. 2 ^ a # 2 ^ b
  BY <1>1, <1>4
<1>6. 2 ^ a \in Nat /\ 2 ^ b \in Nat /\ 2 ^ a <= 2 ^ b
  BY PowerMonotone
<1> QED
  BY <1>5, <1>6

\* All minors of a major but one being non-zero, they are short enough to be
\* stored plainly if ZCC can store them.
LEMMA ZccIsPlain ==
  ASSUME ~JointZcc, PlainIsWider, Compression # 0,
         NEW p \in [Majors -> [Minors -> Nat]],
         NEW m \in Majors, NEW i \in Minors,
         \A j \in Minors \ {i} : p[m][j] # 0,
         ZccFits(p, m)
  PROVE  \A j \in Minors : p[m][j] < 2 ^ UncompBits
<1> DEFINE P == Cardinality(NonZero(p, m))
           R == {m} \X (Minors \ {i})
<1>1. IsFiniteSet(Minors) /\ Cardinality(Minors) = NumMinors
  BY SizesAssumption, FS_Interval DEF Minors
<1>2. IsFiniteSet(R) /\ Cardinality(R) = NumMinors - 1
  <2>1. IsFiniteSet(Minors \ {i}) /\ Cardinality(Minors \ {i}) = NumMinors - 1
    BY <1>1, FS_RemoveElement
  <2>2. IsFiniteSet({m}) /\ Cardinality({m}) = 1
    BY FS_Singleton
  <2>3. IsFiniteSet(R) /\ Cardinality(R) = 1 * (NumMinors - 1)
    BY <2>1, <2>2, FS_Product
  <2> QED
    BY <2>3, SizesAssumption
<1>3. R \in SUBSET NonZero(p, m)
  BY DEF NonZero, Scope
<1>4. P \in Nat /\ NumMinors - 1 \in Nat \ {0} /\ NumMinors - 1 <= P
  BY <1>2, <1>3, NonZeroFinite, FS_Subset, SizesAssumption DEF PlainIsWider
<1>5. ZccBits \in Nat
  <2>1. ZccBits \in Int
    BY SizesAssumption, DesignAssumption DEF ZccBits, ZccLines, Shares
  <2> QED
    BY <2>1, RoomAssumption
<1>6. /\ ZccBits \div P \in Nat
      /\ ZccBits \div P <= ZccBits \div (NumMinors - 1)
      /\ ZccBits \div (NumMinors - 1) \in Nat
  <2> DEFINE b == NumMinors - 1
  <2>1. P \in Nat /\ b \in Nat \ {0} /\ b <= P
    BY <1>4
  <2> HIDE DEF P, b
  <2>2. /\ ZccBits \div b \in Nat /\ ZccBits \div P \in Nat
        /\ ZccBits \div P <= ZccBits \div b
    <3>1. P \in Nat \ {0}
      BY <2>1
    <3> QED
      BY <1>5, <2>1, <3>1, QuotientAntitone
  <2> QED
    BY <2>2 DEF P, b
<1>7. ZccWidth(p, m) \in Nat /\ ZccWidth(p, m) < UncompBits
  <2>1. ZccWidth(p, m) = Lesser(ZccBits \div P, 63)
    BY DEF ZccWidth
  <2>2. UncompBits \in Nat /\ UncompBits > ZccBits \div (NumMinors - 1)
    BY SizesAssumption DEF PlainIsWider
  <2> HIDE DEF P
  <2> QED
    BY <1>6, <2>1, <2>2 DEF Lesser
<1>8. /\ 2 ^ ZccWidth(p, m) \in Nat /\ 2 ^ UncompBits \in Nat
      /\ 2 ^ ZccWidth(p, m) < 2 ^ UncompBits
  BY <1>7, SizesAssumption, PowerStrict
<1>9. ASSUME NEW j \in Minors PROVE p[m][j] < 2 ^ UncompBits
  <2>1. \A c \in Scope(m) \X Minors : p[c[1]][c[2]] <= 2 ^ ZccWidth(p, m)
    BY DEF ZccFits
  <2>2. <<m, j>> \in Scope(m) \X Minors
    BY DEF Scope
  <2>3. p[m][j] \in Nat /\ p[m][j] <= 2 ^ ZccWidth(p, m)
    BY <2>1, <2>2
  <2> QED
    BY <1>8, <2>3
<1> QED
  BY <1>9

LEMMA RebaseDivides ==
  ASSUME ~JointZcc, PlainIsWider, TypeOK, Encodable,
         NEW m \in Majors, NEW i \in Minors, Rebases(m, i)
  PROVE  NonZero(Rebased(m, i), m) # {}
<1> SUFFICES ASSUME NonZero(Rebased(m, i), m) = {} PROVE FALSE
  OBVIOUS
<1> DEFINE u == Updated(m, i)
           r == RebaseBy(m, i)
<1>1. /\ Compression # 0 /\ EncodableMajor(m)
      /\ FittingModes(u, m, compMode[m]) = {}
      /\ r > 0
  BY DEF Rebases, Unfit, Encodable, EncodableMajor, RebaseBy
<1>2. \A j \in Minors : u[m][j] = r
  <2> SUFFICES ASSUME NEW j \in Minors PROVE u[m][j] = r
    OBVIOUS
  <2>1. Rebased(m, i)[m][j] = 0
    <3>1. <<m, j>> \in Scope(m) \X Minors /\ <<m, j>> \notin NonZero(Rebased(m, i), m)
      BY DEF Scope
    <3> QED
      BY <3>1 DEF NonZero
  <2>2. /\ u[m][j] \in Nat /\ r \in Nat
        /\ Rebased(m, i)[m][j] = u[m][j] - r
    BY UpdatedMinors, RebasedMinors
  <2> QED
    BY <2>1, <2>2
<1>3. \A j \in Minors \ {i} : minor[m][j] = r
  BY <1>2, UpdatedMinors
<1>4. minor \in [Majors -> [Minors -> Nat]] /\ compMode[m] \in {0, 2}
  BY DEF TypeOK
<1>5. PICK j \in Minors : j # i
  BY SizesAssumption DEF PlainIsWider, Minors
<1>6. minor[m][j] = r /\ r # 0
  BY <1>1, <1>3, <1>5, RebasedMinors
<1>7. r < 2 ^ UncompBits
  <2>1. CASE compMode[m] = 2
    BY <1>1, <1>6, <2>1 DEF EncodableMajor, UncompFits
  <2>2. CASE compMode[m] = 0
    <3>1. <<m, j>> \in NonZero(minor, m)
      BY <1>6 DEF NonZero, Scope
    <3>2. ZccFits(minor, m)
      BY <1>1, <2>2, <3>1 DEF EncodableMajor
    <3>3. \A k \in Minors \ {i} : minor[m][k] # 0
      BY <1>3, <1>6
    <3> HIDE DEF r
    <3> QED
      BY <1>1, <1>4, <1>6, <3>2, <3>3, ZccIsPlain
  <2> QED
    BY <1>4, <2>1, <2>2
<1>8. UncompFits(u, m)
  BY <1>1, <1>2, <1>7, RoomAssumption DEF UncompFits
<1> QED
  BY <1>1, <1>4, <1>8 DEF FittingModes

\* In the designs whose ZCC packs one major at a time and whose plain minors
\* are wider than ZCC's in a nearly full line, ada_dyn0_comp never divides by
\* zero: it is never tried on a line that a rebase made all zero.
THEOREM NoDivisionByZero ==
  ~JointZcc /\ PlainIsWider => (Spec => []RebaseLeavesNonZero)
<1> SUFFICES ASSUME ~JointZcc, PlainIsWider
             PROVE  Spec => []RebaseLeavesNonZero
  OBVIOUS
<1>1. TypeOK /\ Encodable => RebaseLeavesNonZero
  BY RebaseDivides DEF RebaseLeavesNonZero
<1> QED
  BY <1>1, TypeCorrect, EncodableAlways, PTL
(***************************************************************************)
(* Statistics.                                                             *)
(***************************************************************************)

LEMMA MajorsFinite == IsFiniteSet(Majors) /\ Cardinality(Majors) = NumMajors
<1>1. 0 \in Int /\ NumMajors - 1 \in Int /\ NumMajors \in Nat
  BY SizesAssumption
<1> QED BY <1>1, FS_Interval DEF Majors

\* The overflows recorded in a line, as a sum over its majors.
LEMMA RecordedSum ==
  ASSUME NEW f \in [Majors -> Nat]
  PROVE  SumFunction(f) = SumOver(f, Majors) /\ SumFunction(f) \in Int
<1>1. DOMAIN f = Majors /\ f \in [Majors -> Int]
  OBVIOUS
<1>2. SumOver(f, Majors) = SumTable(f, Majors)[Majors]
  BY SumIsInTable DEF SumOver
<1>3. SumFunction(f) = SumTable(f, Majors)[Majors]
  BY <1>1, SumFunctionIsInTable
<1>4. SumOver(f, Majors) \in Int
  BY <1>1, MajorsFinite, SumIsNumber
<1> QED BY <1>2, <1>3, <1>4

\* One major overflows.
LEMMA RecordedOnce ==
  ASSUME NEW f \in [Majors -> Nat], NEW m \in Majors
  PROVE  SumFunction([f EXCEPT ![m] = @ + 1]) = SumFunction(f) + 1
<1> DEFINE v == f[m] + 1
           g == [f EXCEPT ![m] = v]
<1>1. g \in [Majors -> Nat] /\ f \in [Majors -> Int] /\ v \in Int /\ f[m] \in Int
      /\ v - f[m] = 1
  OBVIOUS
<1> HIDE DEF v
<1>2. SumOver(g, Majors) = SumOver(f, Majors) + v - f[m]
  <2>1. IsFiniteSet(Majors) /\ f \in [Majors -> Int] /\ v \in Int
    BY <1>1, MajorsFinite
  <2>2. SumOver([f EXCEPT ![m] = v], Majors) = SumOver(f, Majors) + v - f[m]
    BY <2>1, SumChanges
  <2> QED BY <2>2
<1> HIDE DEF g
<1>3. SumFunction(g) = SumOver(g, Majors) /\ SumFunction(f) = SumOver(f, Majors)
      /\ SumFunction(f) \in Int
  BY <1>1, RecordedSum
<1>4. SumFunction(g) = SumFunction(f) + 1
  BY <1>1, <1>2, <1>3
<1> QED BY <1>4 DEF g, v

\* All majors overflow with the super counter.
LEMMA RecordedByAll ==
  ASSUME NEW f \in [Majors -> Nat]
  PROVE  SumFunction([n \in Majors |-> f[n] + 1]) = SumFunction(f) + NumMajors
<1> DEFINE g == [n \in Majors |-> f[n] + 1]
           one == [n \in Majors |-> 1]
<1>1. /\ g \in [Majors -> Nat] /\ g \in [Majors -> Int] /\ f \in [Majors -> Int]
      /\ one \in [Majors -> Int] /\ \A n \in Majors : one[n] = 1 /\ g[n] = f[n] + one[n]
  OBVIOUS
<1> HIDE DEF g, one
<1>2. SumOver(g, Majors) = SumOver(f, Majors) + SumOver(one, Majors)
  BY <1>1, MajorsFinite, SumAdds
<1>3. SumOver(one, Majors) = NumMajors
  BY <1>1, MajorsFinite, SumOfOnes
<1>4. SumFunction(g) = SumOver(g, Majors) /\ SumFunction(f) = SumOver(f, Majors)
  BY <1>1, RecordedSum
<1>5. SumFunction(g) = SumFunction(f) + NumMajors
  BY <1>2, <1>3, <1>4
<1> QED BY <1>5 DEF g

\* The timed part starts without overflows.
LEMMA RecordedNone == SumFunction([m \in Majors |-> 0]) = 0
<1> DEFINE z == [m \in Majors |-> 0]
<1>1. z \in [Majors -> Nat] /\ z \in [Majors -> Int] /\ \A m \in Majors : z[m] = 0
  OBVIOUS
<1> HIDE DEF z
<1>2. SumFunction(z) = 0
  BY <1>1, MajorsFinite, RecordedSum, SumOfZeros
<1> QED BY <1>2 DEF z

LEMMA StatsStep ==
  ASSUME HasSuper => NumMajors = 2, TypeOK, StatsAgree, [Next]_vars
  PROVE  StatsAgree'
<1> DEFINE sum == SumFunction(numOverflows)
<1>1. /\ numOverflows \in [Majors -> Nat] /\ levelOverflows \in Nat /\ warmupOverflows \in Nat
      /\ sum \in Int /\ levelOverflows - warmupOverflows = sum
  BY RecordedSum DEF TypeOK, StatsAgree
<1>2. ASSUME UNCHANGED stats PROVE StatsAgree'
  BY <1>2 DEF stats, StatsAgree
<1>3. ASSUME NEW m \in Majors, NEW i \in Minors, Update(m, i) PROVE StatsAgree'
  <2>1. CASE UpdateInPlace(m, i) \/ UpdateRebased(m, i)
    BY <1>2, <2>1 DEF UpdateInPlace, UpdateRebased
  <2>2. CASE UpdateOverflow(m, i)
    <3>1. /\ numOverflows' = [numOverflows EXCEPT ![m] = @ + 1]
          /\ levelOverflows' = levelOverflows + 1 /\ warmupOverflows' = warmupOverflows
      BY <2>2 DEF UpdateOverflow
    <3>2. SumFunction(numOverflows') = sum + 1
      BY <1>1, <3>1, RecordedOnce
    <3> HIDE DEF sum
    <3>3. levelOverflows' - warmupOverflows' = SumFunction(numOverflows')
      BY <1>1, <3>1, <3>2
    <3> QED BY <3>3 DEF StatsAgree
  <2>3. CASE UpdateSuper(m, i)
    <3>1. /\ numOverflows' = [n \in Majors |-> numOverflows[n] + 1] /\ NumMajors = 2
          /\ levelOverflows' = levelOverflows + 2 /\ warmupOverflows' = warmupOverflows
      BY <2>3 DEF UpdateSuper
    <3>2. SumFunction(numOverflows') = sum + 2
      BY <1>1, <3>1, RecordedByAll
    <3> HIDE DEF sum
    <3>3. levelOverflows' - warmupOverflows' = SumFunction(numOverflows')
      BY <1>1, <3>1, <3>2
    <3> QED BY <3>3 DEF StatsAgree
  <2> QED BY <1>3, <2>1, <2>2, <2>3 DEF Update
<1>4. CASE StartTimed
  <2>1. /\ numOverflows' = [m \in Majors |-> 0] /\ warmupOverflows' = levelOverflows
        /\ levelOverflows' = levelOverflows
    BY <1>4 DEF StartTimed
  <2>2. SumFunction(numOverflows') = 0
    BY <2>1, RecordedNone
  <2>3. levelOverflows' - warmupOverflows' = 0
    BY <1>1, <2>1
  <2> QED BY <2>2, <2>3 DEF StatsAgree
<1>5. CASE UNCHANGED vars
  BY <1>2, <1>5 DEF vars, stats
<1> QED BY <1>3, <1>4, <1>5 DEF Next

\* The overflows reported for a level, less those of the warm-up, are those
\* recorded in its lines, in the designs of one major and in those of two under
\* a super counter, whose overflow is counted as two.
THEOREM StatsAlwaysAgree == (HasSuper => NumMajors = 2) => (Spec => []StatsAgree)
<1> SUFFICES ASSUME HasSuper => NumMajors = 2 PROVE Spec => []StatsAgree
  OBVIOUS
<1>1. Init => StatsAgree
  <2> SUFFICES ASSUME Init PROVE StatsAgree
    OBVIOUS
  <2>1. SumFunction(numOverflows) = 0 /\ levelOverflows - warmupOverflows = 0
    BY RecordedNone DEF Init
  <2> QED BY <2>1 DEF StatsAgree
<1>2. TypeOK /\ StatsAgree /\ [Next]_vars => StatsAgree'
  BY StatsStep
<1> QED BY <1>1, <1>2, TypeCorrect, PTL DEF Spec
=============================================================================
