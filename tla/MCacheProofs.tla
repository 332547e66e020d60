---------------------------- MODULE MCacheProofs ----------------------------
(***************************************************************************)
(* Proofs about MCache, for sets of any number of ways under every         *)
(* replacement policy.                                                     *)
(***************************************************************************)
EXTENDS MCache, DataLemmas, SequenceTheorems

-----------------------------------------------------------------------------
(* The inductive invariant.                                                *)

Roles == {"p0", "p1", "follower", "none"}

\* The ways are filled one after the other, and order lists their lines.
Filled ==
  /\ order \in Seq(Tag) /\ Len(order) <= assocs
  /\ Valid = 0..(Len(order) - 1)
  /\ \A i, j \in DOMAIN order : order[i] = order[j] => i = j

\* Where LRU keeps the line that is used i-th last: the stamps of the lines are
\* the highest there are, without gaps.
StampsInOrder ==
  repl_policy = "LRU" =>
    \A i \in DOMAIN order, w \in Valid :
      entries[w].tag = order[i] => last[w] = assocs - Len(order) + i

\* The i-th way from the pointer of FIFO on, round the set.
FromPtr(i) == IF fifo_ptr + i <= assocs THEN fifo_ptr + i - 1
              ELSE fifo_ptr + i - 1 - assocs

\* The pointer is behind the last line as long as a way is free, and at the
\* first line after that.
PointerInOrder ==
  repl_policy = "FIFO" =>
    IF Len(order) < assocs
    THEN fifo_ptr = Len(order) /\ \A i \in DOMAIN order : entries[i - 1].tag = order[i]
    ELSE \A i \in DOMAIN order : entries[FromPtr(i)].tag = order[i]

\* Only DIP leaves a line unstamped; a free way has never been stamped.
ColdRight ==
  /\ cold \subseteq Cached
  /\ cold # {} => repl_policy = "DIP"
  /\ \A w \in Way \ Valid : last[w] = 0
  /\ ColdStaysLast

Fixed ==
  /\ assocs \in Assocs /\ repl_policy \in Policy /\ role \in Roles
  /\ met_install_prio \in {NotAware} \cup (0..MCACHE_SRRIP_MAX)

IInv == /\ TypeOK /\ OccupancyAddsUp /\ Fixed
        /\ Filled /\ StampsInOrder /\ PointerInOrder /\ ColdRight

-----------------------------------------------------------------------------
(* Least elements.                                                         *)

\* A set of naturals has a least element.
LEMMA LeastOf ==
  ASSUME NEW S, S \subseteq Nat, S # {}
  PROVE  Least(S) \in S /\ \A v \in S : Least(S) <= v
<1>1. \E w \in S : \A v \in S : w <= v
  <2> SUFFICES ASSUME \A w \in S : \E v \in S : v < w PROVE FALSE
    OBVIOUS
  <2> DEFINE B == {n \in Nat : \A v \in S : n < v}
  <2>1. 0 \in B
    <3>1. ASSUME NEW v \in S PROVE 0 < v
      <4>1. PICK u \in S : u < v
        OBVIOUS
      <4> QED BY <4>1
    <3> QED BY <3>1
  <2>2. ASSUME NEW n \in Nat, n \in B PROVE n + 1 \in B
    <3>1. ASSUME NEW v \in S PROVE n + 1 < v
      <4>1. PICK u \in S : u < v
        OBVIOUS
      <4>2. n < u /\ n < v /\ u \in Nat /\ v \in Nat
        BY <2>2
      <4> QED BY <4>1, <4>2
    <3> QED BY <3>1
  <2>3. Nat \subseteq B
    <3> HIDE DEF B
    <3> QED BY <2>1, <2>2, ClosedSetHoldsNat
  <2>4. PICK v \in S : TRUE
    OBVIOUS
  <2> QED BY <2>3, <2>4
<1> QED BY <1>1 DEF Least

\* Of the ways of a set one has the lowest value.
LEMMA LowestOf ==
  ASSUME assocs \in Nat \ {0}, NEW f \in [Way -> Nat]
  PROVE  Least(Lowest(f)) \in Way /\ \A v \in Way : f[Least(Lowest(f))] <= f[v]
<1> DEFINE S == {f[v] : v \in Way}
<1>1. S \subseteq Nat /\ S # {}
  <2>1. 0 \in Way
    BY DEF Way
  <2> QED BY <2>1
<1>2. PICK w \in Way : f[w] = Least(S)
  BY <1>1, LeastOf
<1>3. \A v \in Way : f[w] <= f[v]
  <2> HIDE DEF S
  <2>1. \A v \in Way : f[v] \in S
    BY DEF S
  <2>2. \A y \in S : Least(S) <= y
    BY <1>1, LeastOf
  <2> QED BY <1>2, <2>1, <2>2
<1>4. w \in Lowest(f) /\ Lowest(f) \subseteq Nat
  BY <1>2, <1>3 DEF Lowest, Way
<1>5. Least(Lowest(f)) \in Lowest(f)
  BY <1>4, LeastOf
<1> QED BY <1>5 DEF Lowest

-----------------------------------------------------------------------------
(* The order of the lines.                                                 *)

\* A sequence with one element less.
LEMMA Removed ==
  ASSUME NEW R, NEW s \in Seq(R), NEW p \in 1..Len(s)
  PROVE  /\ RemoveAt(s, p) \in Seq(R) /\ Len(RemoveAt(s, p)) = Len(s) - 1
         /\ \A j \in 1..(Len(s) - 1) :
              RemoveAt(s, p)[j] = s[IF j < p THEN j ELSE j + 1]
<1> DEFINE L == Len(s)
           a == SubSeq(s, 1, p - 1)
           b == SubSeq(s, p + 1, L)
<1>1. L \in Nat /\ \A i \in 1..L : s[i] \in R
  BY LenProperties
<1> HIDE DEF L
<1>2. /\ a \in Seq(R) /\ Len(a) = p - 1
      /\ \A i \in 1..(p - 1) : a[i] = s[i]
  <2>1. p - 1 \in Int /\ 1 \in Int /\ \A i \in 1..(p - 1) : s[i] \in R
    BY <1>1 DEF L
  <2>2. /\ a \in Seq(R) /\ Len(a) = (IF 1 <= p - 1 THEN (p - 1) - 1 + 1 ELSE 0)
        /\ \A i \in 1..((p - 1) - 1 + 1) : a[i] = s[1 + i - 1]
    BY <2>1, SubSeqProperties
  <2> HIDE DEF a
  <2>3. \A i \in 1..(p - 1) : i \in 1..((p - 1) - 1 + 1) /\ 1 + i - 1 = i
    BY <1>1 DEF L
  <2> QED BY <1>1, <2>2, <2>3 DEF L
<1>3. /\ b \in Seq(R) /\ Len(b) = L - p
      /\ \A i \in 1..(L - p) : b[i] = s[p + i]
  <2>1. p + 1 \in Int /\ L \in Int /\ \A i \in (p + 1)..L : s[i] \in R
    BY <1>1 DEF L
  <2>2. /\ b \in Seq(R) /\ Len(b) = (IF p + 1 <= L THEN L - (p + 1) + 1 ELSE 0)
        /\ \A i \in 1..(L - (p + 1) + 1) : b[i] = s[(p + 1) + i - 1]
    BY <2>1, SubSeqProperties
  <2> HIDE DEF b
  <2>3. \A i \in 1..(L - p) : i \in 1..(L - (p + 1) + 1) /\ (p + 1) + i - 1 = p + i
    BY <1>1 DEF L
  <2> QED BY <1>1, <2>2, <2>3 DEF L
<1> HIDE DEF a, b
<1>4. /\ a \o b \in Seq(R) /\ Len(a \o b) = Len(a) + Len(b)
      /\ \A i \in 1..(Len(a) + Len(b)) :
           (a \o b)[i] = IF i <= Len(a) THEN a[i] ELSE b[i - Len(a)]
  BY <1>2, <1>3, ConcatProperties
<1>5. p \in 1..L /\ Len(a) + Len(b) = L - 1
  BY <1>1, <1>2, <1>3 DEF L
<1> DEFINE r == a \o b
<1> HIDE DEF r
<1>6. ASSUME NEW j \in 1..(L - 1) PROVE r[j] = s[IF j < p THEN j ELSE j + 1]
  <2>1. r[j] = IF j <= Len(a) THEN a[j] ELSE b[j - Len(a)]
    BY <1>4, <1>5 DEF r
  <2>2. CASE j < p
    <3>1. j \in 1..(p - 1) /\ j <= Len(a)
      BY <1>1, <1>2, <1>5, <2>2
    <3> QED BY <1>2, <2>1, <2>2, <3>1
  <2>3. CASE ~(j < p)
    <3>1. j - (p - 1) \in 1..(L - p) /\ p + (j - (p - 1)) = j + 1 /\ ~(j <= Len(a))
      BY <1>1, <1>2, <1>5, <2>3
    <3> QED BY <1>2, <1>3, <2>1, <2>3, <3>1
  <2> QED BY <2>2, <2>3
<1>7. RemoveAt(s, p) = r
  BY DEF RemoveAt, r, a, b, L
<1> QED BY <1>4, <1>5, <1>6, <1>7 DEF r, L

\* A sequence where only the p-th element may be t.
Holding(s, p, t) ==
  /\ s \in Seq(Tag) /\ p \in 1..Len(s) /\ t \in Tag
  /\ \A i, j \in 1..Len(s) : s[i] = s[j] => i = j
  /\ \A i \in 1..Len(s) : s[i] = t => i = p

\* The same with t at the end in place of that element.
Renewed(s, p, t, r) ==
  /\ r \in Seq(Tag) /\ Len(r) = Len(s) /\ r[Len(s)] = t
  /\ \A j \in 1..(Len(s) - 1) : r[j] = s[IF j < p THEN j ELSE j + 1]
  /\ \A i, j \in 1..Len(s) : r[i] = r[j] => i = j
  /\ ToSet(r) = (ToSet(s) \ {s[p]}) \cup {t}

\* A line that takes the newest place in the order, and its old one or that of
\* another line away.
LEMMA Replaced ==
  ASSUME NEW s, NEW p, NEW t, Holding(s, p, t)
  PROVE  Renewed(s, p, t, Append(RemoveAt(s, p), t))
<1>0. /\ s \in Seq(Tag) /\ p \in 1..Len(s) /\ t \in Tag
      /\ \A i, j \in 1..Len(s) : s[i] = s[j] => i = j
      /\ \A i \in 1..Len(s) : s[i] = t => i = p
  BY DEF Holding
<1> DEFINE L == Len(s)
           q == RemoveAt(s, p)
           r == Append(q, t)
           At(j) == IF j < p THEN j ELSE j + 1
<1>1. L \in Nat /\ p \in 1..L /\ DOMAIN s = 1..L
  BY <1>0, LenProperties
<1>2. q \in Seq(Tag) /\ Len(q) = L - 1 /\ \A j \in 1..(L - 1) : q[j] = s[At(j)]
  BY <1>0, Removed
<1> HIDE DEF q, L
<1>3. /\ r \in Seq(Tag) /\ Len(r) = L /\ r[L] = t /\ DOMAIN r = 1..L
      /\ \A j \in 1..(L - 1) : r[j] = q[j]
  <2>1. r \in Seq(Tag) /\ Len(r) = Len(q) + 1 /\ r[Len(q) + 1] = t
        /\ \A j \in 1..Len(q) : r[j] = q[j]
    BY <1>0, <1>2, AppendProperties
  <2>2. DOMAIN r = 1..Len(r)
    BY <2>1, LenProperties
  <2> QED BY <1>1, <1>2, <2>1, <2>2
<1> HIDE DEF r
<1>4. \A j \in 1..(L - 1) : r[j] = s[At(j)] /\ At(j) \in 1..L /\ At(j) # p
  BY <1>1, <1>2, <1>3
<1>5. \A i, j \in 1..(L - 1) : At(i) = At(j) => i = j
  BY <1>1
<1>6. \A j \in 1..(L - 1) : s[At(j)] # t
  <2> HIDE DEF At
  <2> QED BY <1>0, <1>4 DEF L
<1>7. ASSUME NEW i \in 1..L, NEW j \in 1..L, r[i] = r[j] PROVE i = j
  <2>1. CASE i = L \/ j = L
    <3>1. (i # L => i \in 1..(L - 1)) /\ (j # L => j \in 1..(L - 1))
      BY <1>1
    <3> HIDE DEF At
    <3> QED BY <1>3, <1>4, <1>6, <1>7, <2>1, <3>1
  <2>2. CASE i # L /\ j # L
    <3>1. i \in 1..(L - 1) /\ j \in 1..(L - 1)
      BY <1>1, <2>2
    <3>2. At(i) \in 1..L /\ At(j) \in 1..L /\ s[At(i)] = s[At(j)]
      <4> HIDE DEF At
      <4> QED BY <1>4, <1>7, <3>1
    <3>3. At(i) = At(j)
      <4> HIDE DEF At
      <4> QED BY <1>0, <3>2 DEF L
    <3> QED BY <1>5, <3>1, <3>3
  <2> QED BY <2>1, <2>2
<1>8. ToSet(r) = (ToSet(s) \ {s[p]}) \cup {t}
  <2>1. ASSUME NEW x \in ToSet(r) PROVE x \in (ToSet(s) \ {s[p]}) \cup {t}
    <3>1. PICK j \in 1..L : x = r[j]
      BY <1>3, <2>1 DEF ToSet
    <3>2. CASE j = L
      BY <1>3, <3>1, <3>2
    <3>3. CASE j # L
      <4>1. j \in 1..(L - 1)
        BY <1>1, <3>3
      <4>2. x = s[At(j)] /\ At(j) \in 1..L /\ At(j) # p
        <5> HIDE DEF At
        <5> QED BY <1>4, <3>1, <4>1
      <4>3. x # s[p]
        <5> HIDE DEF At
        <5> QED BY <1>0, <1>1, <4>2 DEF L
      <4> HIDE DEF At
      <4> QED BY <1>1, <4>2, <4>3 DEF ToSet
    <3> QED BY <3>2, <3>3
  <2>2. t \in ToSet(r)
    <3>1. L \in 1..L
      BY <1>1
    <3> QED BY <1>3, <3>1 DEF ToSet
  <2>3. ASSUME NEW x \in ToSet(s) \ {s[p]} PROVE x \in ToSet(r)
    <3>1. PICK i \in 1..L : x = s[i] /\ i # p
      BY <1>1 DEF ToSet
    <3> DEFINE j == IF i < p THEN i ELSE i - 1
    <3>2. j \in 1..(L - 1) /\ At(j) = i /\ j \in 1..L
      BY <1>1, <3>1
    <3>3. x = r[j]
      <4> HIDE DEF At, j
      <4> QED BY <1>4, <3>1, <3>2
    <3> HIDE DEF j, At
    <3> QED BY <1>3, <3>2, <3>3 DEF ToSet
  <2> QED BY <2>1, <2>2, <2>3
<1> HIDE DEF At
<1>9. /\ r \in Seq(Tag) /\ Len(r) = Len(s) /\ r[Len(s)] = t
      /\ \A i, j \in 1..Len(s) : r[i] = r[j] => i = j
  BY <1>3, <1>7 DEF L
<1>10. \A j \in 1..(Len(s) - 1) : r[j] = s[IF j < p THEN j ELSE j + 1]
  BY <1>4 DEF L, At
<1> QED BY <1>8, <1>9, <1>10 DEF Renewed, r, q

\* A new line takes the newest place.
LEMMA Added ==
  ASSUME NEW s \in Seq(Tag), NEW t \in Tag, t \notin ToSet(s),
         \A i, j \in 1..Len(s) : s[i] = s[j] => i = j
  PROVE  LET r == Append(s, t)
         IN  /\ r \in Seq(Tag) /\ Len(r) = Len(s) + 1 /\ r[Len(s) + 1] = t
             /\ \A j \in 1..Len(s) : r[j] = s[j]
             /\ \A i, j \in 1..(Len(s) + 1) : r[i] = r[j] => i = j
             /\ ToSet(r) = ToSet(s) \cup {t}
<1> DEFINE L == Len(s)
           r == Append(s, t)
<1>1. L \in Nat /\ DOMAIN s = 1..L /\ \A i \in 1..L : s[i] # t
  BY LenProperties DEF ToSet
<1>2. /\ r \in Seq(Tag) /\ Len(r) = L + 1 /\ r[L + 1] = t
      /\ \A j \in 1..L : r[j] = s[j]
  BY AppendProperties
<1>3. DOMAIN r = 1..(L + 1)
  BY <1>2, LenProperties
<1> HIDE DEF r, L
<1>4. ASSUME NEW i \in 1..(L + 1), NEW j \in 1..(L + 1), r[i] = r[j] PROVE i = j
  <2>1. (i # L + 1 => i \in 1..L) /\ (j # L + 1 => j \in 1..L)
    BY <1>1
  <2>2. CASE i = L + 1 \/ j = L + 1
    BY <1>1, <1>2, <1>4, <2>1, <2>2
  <2>3. CASE i # L + 1 /\ j # L + 1
    BY <1>1, <1>2, <1>4, <2>1, <2>3 DEF L
  <2> QED BY <2>2, <2>3
<1>5. ToSet(r) = ToSet(s) \cup {t}
  <2>1. \A i \in 1..(L + 1) : i = L + 1 \/ i \in 1..L
    BY <1>1
  <2>2. L + 1 \in 1..(L + 1) /\ \A i \in 1..L : i \in 1..(L + 1)
    BY <1>1
  <2> QED BY <1>1, <1>2, <1>3, <2>1, <2>2 DEF ToSet
<1> QED BY <1>2, <1>4, <1>5 DEF r, L

-----------------------------------------------------------------------------
(* The set in its steps.                                                   *)

\* What the invariant says of ranges.
LEMMA Basics ==
  ASSUME IInv
  PROVE  /\ assocs \in Nat \ {0} /\ assocs < Wrap /\ Wrap \in Nat \ {0}
         /\ Way = 0..(assocs - 1) /\ Valid \subseteq Way
         /\ entries \in [Way -> Entry] /\ last \in [Way -> 0..assocs] /\ last \in [Way -> Nat]
         /\ order \in Seq(Tag) /\ Len(order) \in Nat /\ Len(order) <= assocs
         /\ DOMAIN order = 1..Len(order) /\ Valid = 0..(Len(order) - 1)
         /\ \A i, j \in 1..Len(order) : order[i] = order[j] => i = j
         /\ ToSet(order) = Cached
<1>1. TypeOK /\ Filled /\ Fixed
  BY DEF IInv
<1>2. assocs \in Nat \ {0} /\ assocs < Wrap /\ Wrap \in Nat \ {0}
  BY <1>1, CacheAssumption DEF Fixed
<1>3. order \in Seq(Tag) /\ Len(order) \in Nat /\ DOMAIN order = 1..Len(order)
  BY <1>1, LenProperties DEF Filled
<1>4. last \in [Way -> Nat]
  <2>1. last \in [Way -> 0..assocs] /\ \A n \in 0..assocs : n \in Nat
    BY <1>1, <1>2 DEF TypeOK
  <2> QED BY <2>1
<1>5. Way = 0..(assocs - 1) /\ Valid \subseteq Way
  BY DEF Way, Valid
<1>6. /\ entries \in [Way -> Entry] /\ last \in [Way -> 0..assocs]
      /\ ToSet(order) = Cached
  BY <1>1 DEF TypeOK
<1> QED BY <1>1, <1>2, <1>3, <1>4, <1>5, <1>6 DEF Filled

\* The tags of the valid ways are the lines, each of one way and one place.
LEMMA Tags ==
  ASSUME IInv
  PROVE  /\ \A w \in Valid : entries[w].tag \in Tag /\ entries[w].tag \in Cached
         /\ \A v, w \in Valid : entries[v].tag = entries[w].tag => v = w
         /\ \A t \in Cached : /\ Place(t) \in 1..Len(order) /\ order[Place(t)] = t
                              /\ \A i \in 1..Len(order) : order[i] = t => i = Place(t)
                              /\ Without(t) = RemoveAt(order, Place(t))
<1>1. \A w \in Valid : entries[w] \in Entry
  BY Basics
<1>2. \A w \in Valid : entries[w].tag \in Tag /\ entries[w].tag \in Cached
  BY <1>1 DEF Entry, Cached
<1>3. \A v, w \in Valid : entries[v].tag = entries[w].tag => v = w
  BY DEF IInv, TypeOK
<1>4. ASSUME NEW t \in Cached
      PROVE  /\ Place(t) \in 1..Len(order) /\ order[Place(t)] = t
             /\ \A i \in 1..Len(order) : order[i] = t => i = Place(t)
  <2>1. \E i \in DOMAIN order : order[i] = t
    BY <1>4, Basics DEF ToSet
  <2>2. Place(t) \in DOMAIN order /\ order[Place(t)] = t
    BY <2>1 DEF Place
  <2> QED BY <2>2, Basics
<1> QED BY <1>2, <1>3, <1>4 DEF Without

\* Of the policies that go by an order, the victim of a full set is the oldest
\* line; DIP takes one with the lowest stamp.
LEMMA VictimWay ==
  ASSUME IInv, NEW w \in Victims
  PROVE  /\ w \in Way
         /\ ~entries[w].valid => w = Len(order) /\ w < assocs /\ last[w] = 0
         /\ entries[w].valid => /\ Len(order) = assocs /\ w \in Valid
                                /\ repl_policy \in {"LRU", "FIFO"} => entries[w].tag = order[1]
                                /\ repl_policy = "DIP" => w \in Lowest(last)
<1>1. CASE Valid # Way
  <2> DEFINE S == Way \ Valid
  <2>1. S \subseteq Nat /\ S # {} /\ w = Least(S)
    BY <1>1, Basics DEF Victims
  <2>2. w \in S /\ \A v \in S : w <= v
    <3> HIDE DEF S
    <3> QED BY <2>1, LeastOf
  <2>3. w \in Way /\ ~entries[w].valid /\ w \notin Valid
    BY <2>2 DEF Valid
  <2>4. Len(order) < assocs
    BY <2>3, Basics
  <2>5. Len(order) \in S
    BY <2>4, Basics
  <2>6. w = Len(order)
    BY <2>2, <2>3, <2>5, Basics
  <2>7. last[w] = 0
    BY <2>3 DEF IInv, ColdRight
  <2> QED BY <2>3, <2>4, <2>6, <2>7
<1>2. CASE Valid = Way
  <2>1. Len(order) = assocs /\ 0 \in Way
    BY <1>2, Basics
  <2>2. w \in Way
    <3>1. LruVictim \in Way
      BY Basics, LowestOf DEF LruVictim
    <3>2. fifo_ptr \in Way
      BY DEF IInv, TypeOK
    <3>3. SrripVictim \in Way
      <4>1. ripctr \in [Way -> Nat]
        <5>1. \A v \in Way : entries[v].ripctr \in Nat
          <6>1. \A v \in Way : entries[v] \in Entry
            BY Basics
          <6> QED BY <6>1, CacheAssumption DEF Entry
        <5> QED BY <5>1 DEF ripctr
      <4> QED BY <4>1, Basics, LowestOf DEF SrripVictim
    <3>4. \/ w = LruVictim \/ w \in Way \/ w = fifo_ptr \/ w = SrripVictim
      BY <1>2 DEF Victims
    <3> QED BY <3>1, <3>2, <3>3, <3>4
  <2>3. w \in Valid /\ entries[w].valid
    BY <1>2, <2>2 DEF Valid
  <2>4. ASSUME repl_policy \in {"LRU", "DIP"}
        PROVE  \A v \in Way : last[w] <= last[v]
    <3>1. w = LruVictim
      BY <1>2, <2>4 DEF Victims
    <3> QED BY <3>1, Basics, LowestOf DEF LruVictim
  <2>5. ASSUME repl_policy = "LRU" PROVE entries[w].tag = order[1]
    <3>1. PICK i \in 1..Len(order) : entries[w].tag = order[i]
      <4>1. entries[w].tag \in ToSet(order)
        BY <2>3, Basics, Tags
      <4> QED BY <4>1, Basics DEF ToSet
    <3>2. PICK v \in Valid : entries[v].tag = order[1]
      <4>1. 1 \in 1..Len(order)
        BY <2>1, Basics
      <4>2. order[1] \in Cached
        BY <4>1, Basics DEF ToSet
      <4> QED BY <4>2 DEF Cached
    <3>3. last[w] = assocs - Len(order) + i /\ last[v] = assocs - Len(order) + 1
      <4>1. \A j \in DOMAIN order, u \in Valid :
              entries[u].tag = order[j] => last[u] = assocs - Len(order) + j
        BY <2>5 DEF IInv, StampsInOrder
      <4>2. DOMAIN order = 1..Len(order) /\ 1 \in 1..Len(order)
        BY <2>1, Basics
      <4> QED BY <2>3, <3>1, <3>2, <4>1, <4>2
    <3>4. last[w] <= last[v]
      BY <2>4, <2>5, <3>2, Basics
    <3>5. i = 1
      BY <2>1, <3>3, <3>4, Basics
    <3> QED BY <3>1, <3>5
  <2>6. ASSUME repl_policy = "FIFO" PROVE entries[w].tag = order[1]
    <3>1. w = fifo_ptr
      BY <1>2, <2>6 DEF Victims
    <3>2. fifo_ptr \in 0..(assocs - 1) /\ 1 \in 1..Len(order)
      BY <2>1, Basics DEF IInv, TypeOK
    <3>3. FromPtr(1) = fifo_ptr
      BY <3>2, Basics DEF FromPtr
    <3>4. entries[FromPtr(1)].tag = order[1]
      BY <2>1, <2>6, <3>2, Basics DEF IInv, PointerInOrder
    <3> QED BY <3>1, <3>3, <3>4
  <2> QED BY <2>1, <2>2, <2>3, <2>4, <2>5, <2>6 DEF Lowest
<1> QED BY <1>1, <1>2

\* The search for a victim takes no counter below zero.
LEMMA AgedRight ==
  ASSUME IInv
  PROVE  Aged \in Nat /\ \A v \in Way : entries[v].ripctr - Aged \in 0..MCACHE_SRRIP_MAX
<1>1. \A v \in Way : entries[v].ripctr \in 0..MCACHE_SRRIP_MAX
  BY Basics DEF Entry
<1>2. MCACHE_SRRIP_MAX \in Nat
  BY CacheAssumption
<1>3. ripctr \in [Way -> Nat] /\ \A v \in Way : ripctr[v] = entries[v].ripctr
  BY <1>1, <1>2 DEF ripctr
<1>4. SrripVictim \in Way /\ \A v \in Way : ripctr[SrripVictim] <= ripctr[v]
  BY <1>3, Basics, LowestOf DEF SrripVictim
<1>5. Aged = 0 \/ Aged = ripctr[SrripVictim]
  BY DEF Aged
<1>6. Aged \in Nat /\ \A v \in Way : Aged <= entries[v].ripctr
  BY <1>1, <1>2, <1>3, <1>4, <1>5
<1> QED BY <1>1, <1>2, <1>6

\* A stamp is the highest of the set, and those that were above the old one
\* come down by one.
LEMMA StampRight ==
  ASSUME IInv, NEW w \in Way
  PROVE  /\ Stamped(w) \in [Way -> 0..assocs] /\ Stamped(w)[w] = assocs
         /\ \A v \in Way : v # w => Stamped(w)[v] = IF last[v] > last[w] THEN last[v] - 1
                                                    ELSE last[v]
<1>1. last \in [Way -> 0..assocs] /\ assocs \in Nat
  BY Basics
<1>2. ASSUME NEW v \in Way
      PROVE  (IF v = w THEN assocs
              ELSE IF last[v] > last[w] THEN last[v] - 1 ELSE last[v]) \in 0..assocs
  <2>1. last[v] \in 0..assocs /\ last[w] \in 0..assocs
    BY <1>1
  <2> QED BY <1>1, <2>1
<1> QED BY <1>2 DEF Stamped

\* A stamp does not lift another way from the bottom.
LEMMA LowKept ==
  ASSUME IInv, NEW w \in Way, NEW v \in Lowest(last), v # w
  PROVE  v \in Lowest(Stamped(w))
<1>1. v \in Way /\ \A u \in Way : last[v] <= last[u]
  BY DEF Lowest
<1>2. \A u \in Way : last[u] \in 0..assocs
  BY Basics
<1>3. Stamped(w)[v] = last[v]
  BY <1>1, <1>2, StampRight, Basics
<1>4. ASSUME NEW u \in Way PROVE last[v] <= Stamped(w)[u]
  <2>1. last[v] \in 0..assocs /\ last[u] \in 0..assocs /\ last[w] \in 0..assocs
        /\ last[v] <= last[u] /\ last[v] <= last[w] /\ assocs \in Nat
    BY <1>1, <1>2, Basics
  <2>2. CASE u = w
    BY <2>1, <2>2, StampRight
  <2>3. CASE u # w
    BY <2>1, <2>3, StampRight
  <2> QED BY <2>2, <2>3
<1> QED BY <1>1, <1>3, <1>4 DEF Lowest

\* What LRU counts for a line is kept when another one, the p-th, is stamped and
\* goes to the end of the order.
LEMMA StampMoves ==
  ASSUME IInv, repl_policy = "LRU", NEW w \in Way, NEW p \in 1..Len(order),
         last[w] = assocs - Len(order) + p, NEW v \in Valid, v # w,
         NEW j \in 1..(Len(order) - 1),
         entries[v].tag = order[IF j < p THEN j ELSE j + 1]
  PROVE  Stamped(w)[v] = assocs - Len(order) + j
<1> DEFINE L == Len(order)
           i == IF j < p THEN j ELSE j + 1
<1>1. L \in Nat /\ assocs \in Nat /\ L <= assocs /\ v \in Way /\ DOMAIN order = 1..L
  BY Basics
<1>2. i \in 1..L /\ i # p
  BY <1>1
<1>3. last[v] = assocs - L + i
  <2>1. \A k \in DOMAIN order, u \in Valid :
          entries[u].tag = order[k] => last[u] = assocs - Len(order) + k
    BY DEF IInv, StampsInOrder
  <2> QED BY <1>1, <1>2, <2>1
<1>4. Stamped(w)[v] = IF last[v] > last[w] THEN last[v] - 1 ELSE last[v]
  BY <1>1, StampRight
<1> DEFINE n == last[v]
           m == last[w]
           k == Stamped(w)[v]
<1>5. n = assocs - L + i /\ m = assocs - L + p /\ k = IF n > m THEN n - 1 ELSE n
  BY <1>3, <1>4
<1> HIDE DEF n, m, k, L
<1>6. k = assocs - L + j
  BY <1>1, <1>2, <1>5 DEF L
<1> QED BY <1>6 DEF k, L

\* A hit changes the stamp and the place of its line.
LEMMA HitFacts ==
  ASSUME IInv, NEW t \in Tag, NEW dirty \in BOOLEAN, NEW tid \in Tid, Hit(t, dirty, tid)
  PROVE  \E w \in Valid :
           /\ entries[w].tag = t /\ t \in Cached
           /\ entries' \in [Way -> Entry]
           /\ \A v \in Way : /\ entries'[v].valid = entries[v].valid
                             /\ entries'[v].tag = entries[v].tag
                             /\ entries[v].dirty => entries'[v].dirty
           /\ last' = Stamped(w)
           /\ order' = IF repl_policy = "FIFO" THEN order ELSE Append(Without(t), t)
           /\ cold' = cold \ {t} /\ evicted' = Nothing
           /\ UNCHANGED <<assocs, repl_policy, met_install_prio, role, fifo_ptr, psel,
                          total_lines_thread>>
<1>1. PICK w \in Holds(t) :
        /\ entries' = [entries EXCEPT ![w] = Marked(entries[w], dirty, tid)]
        /\ last' = Stamped(w)
        /\ order' = IF repl_policy = "FIFO" THEN order ELSE Append(Without(t), t)
        /\ cold' = cold \ {t} /\ evicted' = Nothing
        /\ UNCHANGED <<fixed, fifo_ptr, psel, total_lines_thread>>
  BY DEF Hit
<1>2. w \in Valid /\ entries[w].tag = t /\ w \in Way /\ t \in Cached
  BY Basics DEF Holds, Cached
<1> DEFINE e == entries[w]
           m == Marked(e, dirty, tid)
<1>3. e \in Entry /\ MCACHE_SRRIP_MAX \in 0..MCACHE_SRRIP_MAX
  BY <1>2, Basics, CacheAssumption
<1>4. m \in Entry /\ m.valid = e.valid /\ m.tag = e.tag /\ (e.dirty => m.dirty)
  <2> HIDE DEF e
  <2> QED BY <1>3 DEF Marked, Entry
<1>5. entries \in [Way -> Entry]
  BY Basics
<1> HIDE DEF m
<1>6. /\ entries' \in [Way -> Entry] /\ entries'[w] = m
      /\ \A v \in Way : v # w => entries'[v] = entries[v]
  BY <1>1, <1>2, <1>4, <1>5 DEF m
<1>7. \A v \in Way : /\ entries'[v].valid = entries[v].valid
                     /\ entries'[v].tag = entries[v].tag
                     /\ entries[v].dirty => entries'[v].dirty
  BY <1>4, <1>6
<1> QED BY <1>1, <1>2, <1>6, <1>7 DEF fixed

\* The count of lines is a sum that the lemmas are about.
LEMMA TotalIsSum ==
  ASSUME NEW f PROVE Total(f) = SumOver(f, Tid)
BY DEF Total, SumOver

\* A hit keeps the invariant.
LEMMA HitKeeps ==
  ASSUME IInv, NEW t \in Tag, NEW dirty \in BOOLEAN, NEW tid \in Tid, Hit(t, dirty, tid)
  PROVE  IInv'
<1>1. PICK w \in Valid :
           /\ entries[w].tag = t /\ t \in Cached
           /\ entries' \in [Way -> Entry]
           /\ \A v \in Way : /\ entries'[v].valid = entries[v].valid
                             /\ entries'[v].tag = entries[v].tag
                             /\ entries[v].dirty => entries'[v].dirty
           /\ last' = Stamped(w)
           /\ order' = IF repl_policy = "FIFO" THEN order ELSE Append(Without(t), t)
           /\ cold' = cold \ {t} /\ evicted' = Nothing
           /\ UNCHANGED <<assocs, repl_policy, met_install_prio, role, fifo_ptr, psel,
                          total_lines_thread>>
  BY HitFacts
<1>2. w \in Way /\ Way' = Way
  BY <1>1, Basics DEF Way
<1>3. Valid' = Valid /\ Cached' = Cached
  BY <1>1, <1>2 DEF Valid, Cached
<1> DEFINE L == Len(order)
           p == Place(t)
<1>4. /\ L \in Nat /\ L <= assocs /\ DOMAIN order = 1..L /\ order \in Seq(Tag)
      /\ p \in 1..L /\ order[p] = t /\ \A i \in 1..L : order[i] = t => i = p
      /\ \A i, j \in 1..L : order[i] = order[j] => i = j
  BY <1>1, Basics, Tags
<1>5. /\ order' \in Seq(Tag) /\ Len(order') = L /\ DOMAIN order' = 1..L
      /\ \A i, j \in 1..L : order'[i] = order'[j] => i = j
      /\ ToSet(order') = Cached
      /\ repl_policy # "FIFO" =>
           /\ order'[L] = t
           /\ \A j \in 1..(L - 1) : order'[j] = order[IF j < p THEN j ELSE j + 1]
  <2>1. CASE repl_policy = "FIFO"
    <3>1. order' = order
      BY <1>1, <2>1
    <3> QED BY <1>4, <2>1, <3>1, Basics
  <2>2. CASE repl_policy # "FIFO"
    <3> DEFINE r == Append(RemoveAt(order, p), t)
    <3>1. order' = r
      BY <1>1, <2>2, Tags
    <3>2. /\ r \in Seq(Tag) /\ Len(r) = L /\ r[L] = t
          /\ \A j \in 1..(L - 1) : r[j] = order[IF j < p THEN j ELSE j + 1]
          /\ \A i, j \in 1..L : r[i] = r[j] => i = j
          /\ ToSet(r) = (ToSet(order) \ {order[p]}) \cup {t}
      <4> HIDE DEF p
      <4>1. Holding(order, p, t)
        BY <1>4 DEF Holding
      <4>2. Renewed(order, p, t, r)
        BY <4>1, Replaced
      <4> HIDE DEF r
      <4> QED BY <4>2 DEF Renewed
    <3> HIDE DEF r
    <3>3. DOMAIN r = 1..L
      BY <3>2, LenProperties
    <3>4. ToSet(r) = Cached
      BY <1>1, <1>4, <3>2, Basics
    <3> HIDE DEF p
    <3> QED BY <3>1, <3>2, <3>3, <3>4
  <2> QED BY <2>1, <2>2
<1> HIDE DEF p, L
<1>6. TypeOK'
  <2>1. \A u, v \in Valid' : entries'[u].tag = entries'[v].tag => u = v
    <3>1. Valid \subseteq Way
      BY Basics
    <3> QED BY <1>1, <1>3, <3>1, Tags
  <2>2. last' \in [Way -> 0..assocs]
    BY <1>1, <1>2, StampRight
  <2>3. fifo_ptr \in Way /\ psel \in 0..MCACHE_PSEL_MAX
        /\ total_lines_thread \in [Tid -> 0..(Wrap - 1)]
    BY DEF IInv, TypeOK
  <2>4. ToSet(order') = Cached'
    BY <1>3, <1>5
  <2> QED BY <1>1, <1>2, <2>1, <2>2, <2>3, <2>4 DEF TypeOK
<1>7. OccupancyAddsUp'
  BY <1>1, <1>3 DEF IInv, OccupancyAddsUp
<1>8. Fixed'
  BY <1>1 DEF IInv, Fixed
<1>9. Filled'
  <2>1. Valid = 0..(L - 1)
    BY Basics DEF L
  <2> QED BY <1>1, <1>3, <1>4, <1>5, <2>1 DEF Filled
<1>10. StampsInOrder'
  <2> SUFFICES ASSUME repl_policy = "LRU", NEW i \in 1..L, NEW v \in Valid,
                      entries'[v].tag = order'[i]
               PROVE  last'[v] = assocs - L + i
    BY <1>1, <1>3, <1>5 DEF StampsInOrder
  <2>1. entries[v].tag = order'[i] /\ v \in Way
    BY <1>1, Basics
  <2>2. last[w] = assocs - L + p
    <3>1. \A k \in DOMAIN order, u \in Valid :
            entries[u].tag = order[k] => last[u] = assocs - Len(order) + k
      BY DEF IInv, StampsInOrder
    <3> QED BY <1>1, <1>4, <3>1 DEF L
  <2>3. CASE i = L
    <3>1. entries[v].tag = t
      BY <1>5, <2>1, <2>3
    <3>2. v = w
      BY <1>1, <3>1, Tags
    <3>3. last'[v] = assocs
      BY <1>1, <1>2, <3>2, StampRight
    <3> QED BY <1>4, <2>3, <3>3, Basics
  <2>4. CASE i # L
    <3>1. i \in 1..(L - 1)
      BY <1>4, <2>4
    <3>2. entries[v].tag = order[IF i < p THEN i ELSE i + 1]
      BY <1>5, <2>1, <3>1
    <3>3. v # w
      <4> DEFINE k == IF i < p THEN i ELSE i + 1
      <4>1. k \in 1..L /\ k # p
        BY <1>4, <3>1
      <4> HIDE DEF k
      <4>2. order[k] # t
        BY <1>4, <4>1
      <4> QED BY <1>1, <3>2, <4>2 DEF k
    <3>4. Stamped(w)[v] = assocs - L + i
      BY <1>2, <1>4, <2>2, <3>1, <3>2, <3>3, StampMoves DEF L
    <3> QED BY <1>1, <3>4
  <2> QED BY <2>3, <2>4
<1>11. PointerInOrder'
  <2> SUFFICES ASSUME repl_policy = "FIFO" PROVE PointerInOrder'
    BY <1>1 DEF PointerInOrder
  <2>1. order' = order /\ PointerInOrder
    BY <1>1 DEF IInv
  <2>2. CASE Len(order) < assocs
    <3>1. \A i \in DOMAIN order : i - 1 \in Way
      BY <1>4, Basics DEF L
    <3> QED BY <1>1, <2>1, <2>2, <3>1 DEF PointerInOrder
  <2>3. CASE ~(Len(order) < assocs)
    <3>1. \A i \in DOMAIN order : FromPtr(i) \in Way
      <4>1. fifo_ptr \in Way
        BY DEF IInv, TypeOK
      <4>2. fifo_ptr \in 0..(assocs - 1) /\ assocs \in Nat /\ DOMAIN order = 1..L
            /\ L \in Nat /\ L <= assocs /\ Way = 0..(assocs - 1)
        BY <1>4, <4>1, Basics
      <4> QED BY <4>2 DEF FromPtr
    <3>2. \A i : FromPtr(i)' = FromPtr(i)
      BY <1>1 DEF FromPtr
    <3> QED BY <1>1, <2>1, <2>3, <3>1, <3>2 DEF PointerInOrder
  <2> QED BY <2>2, <2>3
<1>12. ColdRight'
  <2>1. ColdRight
    BY DEF IInv
  <2>2. cold' \subseteq Cached' /\ (cold' # {} => repl_policy' = "DIP")
    BY <1>1, <1>3, <2>1 DEF ColdRight
  <2>3. ASSUME NEW v \in Way' \ Valid' PROVE last'[v] = 0
    <3>1. v \in Way /\ v \notin Valid /\ v # w /\ last[v] = 0 /\ last[w] \in 0..assocs
      BY <1>1, <1>2, <1>3, <2>1, Basics DEF ColdRight
    <3>2. Stamped(w)[v] = IF last[v] > last[w] THEN last[v] - 1 ELSE last[v]
      BY <1>2, <3>1, StampRight
    <3>3. ~(last[v] > last[w])
      BY <3>1, Basics
    <3> QED BY <1>1, <3>1, <3>2, <3>3
  <2>4. ColdStaysLast'
    <3> SUFFICES ASSUME NEW x \in cold, x # t
                 PROVE  \E v \in Holds(x)' : v \in Lowest(last)'
      BY <1>1 DEF ColdStaysLast
    <3>1. PICK v \in Holds(x) : v \in Lowest(last)
      BY <2>1 DEF ColdRight, ColdStaysLast
    <3>2. v \in Valid /\ entries[v].tag = x /\ v \in Way /\ v # w
      BY <1>1, <3>1, Basics DEF Holds
    <3>3. v \in Lowest(Stamped(w))
      BY <1>2, <3>1, <3>2, LowKept
    <3>4. v \in Lowest(last)'
      BY <1>1, <1>2, <3>3 DEF Lowest
    <3>5. v \in Holds(x)'
      BY <1>1, <1>3, <3>2 DEF Holds
    <3> QED BY <3>4, <3>5
  <2> QED BY <2>2, <2>3, <2>4 DEF ColdRight
<1> QED BY <1>6, <1>7, <1>8, <1>9, <1>10, <1>11, <1>12 DEF IInv

-----------------------------------------------------------------------------
(* Occupancy.                                                              *)

\* A number with remainder m.
LEMMA Remainder ==
  ASSUME NEW n \in Nat \ {0}, NEW q \in Int, NEW m \in 0..(n - 1)
  PROVE  (n * q + m) % n = m
BY Z3

\* Every number has a remainder.
LEMMA Divides ==
  ASSUME NEW n \in Nat \ {0}, NEW k \in Int
  PROVE  \E q \in Int : k % n \in 0..(n - 1) /\ n * q \in Int /\ k = n * q + (k % n)
<1>1. k % n = k - n * (k \div n)
  BY SMT
<1>2. k \div n \in Int /\ k % n \in 0..(n - 1) /\ n * (k \div n) \in Int
  BY Z3
<1> DEFINE x == n * (k \div n)
           m == k % n
<1>3. k = x + m
  <2>1. m = k - x /\ x \in Int /\ m \in Int
    BY <1>1, <1>2
  <2> HIDE DEF x, m
  <2> QED BY <2>1
<1> QED BY <1>2, <1>3

\* One more or less, modulo the width of a count.
LEMMA Wraps ==
  ASSUME NEW n \in Nat \ {0}, NEW k \in Int
  PROVE  /\ k % n \in 0..(n - 1)
         /\ (k + n) % n = k % n /\ (k - n) % n = k % n
         /\ (k + 1) % n = IF (k % n) + 1 = n THEN 0 ELSE (k % n) + 1
         /\ (k - 1) % n = IF k % n = 0 THEN n - 1 ELSE (k % n) - 1
<1> DEFINE m == k % n
<1>1. PICK q \in Int : m \in 0..(n - 1) /\ n * q \in Int /\ k = n * q + m
  BY Divides
<1>2. n * (q + 1) = n * q + n /\ n * (q - 1) = n * q - n
  BY Z3
<1> DEFINE x == n * q
           up == n * (q + 1)
           down == n * (q - 1)
<1>3. /\ q + 1 \in Int /\ q - 1 \in Int /\ x \in Int /\ k = x + m /\ m \in 0..(n - 1)
      /\ up = x + n /\ down = x - n
  BY <1>1, <1>2
<1>4. \A r \in 0..(n - 1) : (x + r) % n = r /\ (up + r) % n = r /\ (down + r) % n = r
  BY <1>1, <1>3, Remainder
<1> HIDE DEF m, x, up, down
<1>5. (k + n) % n = m
  <2>1. k + n = up + m
    BY <1>3
  <2> QED BY <1>3, <1>4, <2>1
<1>6. (k - n) % n = m
  <2>1. k - n = down + m
    BY <1>3
  <2> QED BY <1>3, <1>4, <2>1
<1>7. (k + 1) % n = IF m + 1 = n THEN 0 ELSE m + 1
  <2>1. CASE m + 1 = n
    <3>1. k + 1 = up + 0 /\ 0 \in 0..(n - 1)
      BY <1>3, <2>1
    <3> QED BY <1>4, <2>1, <3>1
  <2>2. CASE m + 1 # n
    <3>1. k + 1 = x + (m + 1) /\ m + 1 \in 0..(n - 1)
      BY <1>3, <2>2
    <3> QED BY <1>4, <2>2, <3>1
  <2> QED BY <2>1, <2>2
<1>8. (k - 1) % n = IF m = 0 THEN n - 1 ELSE m - 1
  <2>1. CASE m = 0
    <3>1. k - 1 = down + (n - 1) /\ n - 1 \in 0..(n - 1)
      BY <1>3, <2>1
    <3> QED BY <1>4, <2>1, <3>1
  <2>2. CASE m # 0
    <3>1. k - 1 = x + (m - 1) /\ m - 1 \in 0..(n - 1)
      BY <1>3, <2>2
    <3> QED BY <1>4, <2>2, <3>1
  <2> QED BY <2>1, <2>2
<1> QED BY <1>3, <1>5, <1>6, <1>7, <1>8 DEF m

\* A count that goes up or down takes the total along, modulo the width.
LEMMA CountMoves ==
  ASSUME NEW f \in [Tid -> 0..(Wrap - 1)], NEW c \in Tid, NEW d \in {1, -1}
  PROVE  LET g == [f EXCEPT ![c] = (f[c] + d) % Wrap]
         IN  /\ g \in [Tid -> 0..(Wrap - 1)] /\ Total(f) \in Int
             /\ Total(g) % Wrap = (Total(f) + d) % Wrap
<1> DEFINE v == (f[c] + d) % Wrap
           g == [f EXCEPT ![c] = v]
<1>1. Wrap \in Nat \ {0}
  <2>1. PICK tid \in Tid : TRUE
    BY CacheAssumption
  <2>2. f[tid] \in 0..(Wrap - 1) /\ Wrap \in Nat
    BY CacheAssumption
  <2> QED BY <2>2
<1>2. f[c] \in 0..(Wrap - 1) /\ f[c] \in Int /\ f \in [Tid -> Int]
  BY <1>1
<1>3. v \in 0..(Wrap - 1) /\ v \in Int
  <2>1. f[c] + d \in Int
    BY <1>2
  <2> HIDE DEF v
  <2>2. v \in 0..(Wrap - 1)
    BY <1>1, <2>1, Wraps DEF v
  <2> QED BY <1>1, <2>2
<1>4. v = f[c] + d \/ v = f[c] + d - Wrap \/ v = f[c] + d + Wrap
  <2>1. f[c] % Wrap = f[c]
    BY <1>1, <1>2, Z3
  <2>2. CASE d = 1
    <3>1. v = (f[c] + 1) % Wrap
      BY <2>2
    <3>2. (f[c] + 1) % Wrap = IF (f[c] % Wrap) + 1 = Wrap THEN 0 ELSE (f[c] % Wrap) + 1
      BY <1>1, <1>2, Wraps
    <3>3. v = IF f[c] + 1 = Wrap THEN 0 ELSE f[c] + 1
      BY <2>1, <3>1, <3>2
    <3> HIDE DEF v
    <3> QED BY <1>1, <1>2, <2>2, <3>3
  <2>3. CASE d = -1
    <3>1. v = (f[c] - 1) % Wrap
      BY <1>2, <2>3
    <3>2. v = IF f[c] = 0 THEN Wrap - 1 ELSE f[c] - 1
      <4>1. (f[c] - 1) % Wrap = IF f[c] % Wrap = 0 THEN Wrap - 1 ELSE (f[c] % Wrap) - 1
        BY <1>1, <1>2, Wraps
      <4> QED BY <2>1, <3>1, <4>1
    <3> HIDE DEF v
    <3> QED BY <1>1, <1>2, <2>3, <3>2
  <2> QED BY <2>2, <2>3
<1> HIDE DEF v
<1>5. SumOver(g, Tid) = SumOver(f, Tid) + v - f[c] /\ SumOver(f, Tid) \in Int
  <2>1. IsFiniteSet(Tid)
    BY CacheAssumption
  <2>2. f \in [Tid -> Int] /\ v \in Int
    BY <1>2, <1>3
  <2>3. SumOver([f EXCEPT ![c] = v], Tid) = SumOver(f, Tid) + v - f[c]
    BY <2>1, <2>2, SumChanges
  <2>4. SumOver(f, Tid) \in Int
    BY <2>1, <2>2, SumIsNumber
  <2> QED BY <2>3, <2>4
<1> DEFINE s == SumOver(f, Tid)
           r == SumOver(g, Tid)
<1> HIDE DEF s, r
<1>6. s \in Int /\ (r = s + d \/ r = (s + d) - Wrap \/ r = (s + d) + Wrap)
  <2>1. r = s + v - f[c] /\ s \in Int
    BY <1>5 DEF r, s
  <2> QED BY <1>1, <1>2, <1>3, <1>4, <2>1
<1>7. r % Wrap = (s + d) % Wrap
  <2>1. s + d \in Int
    BY <1>6
  <2> QED BY <1>1, <1>6, <2>1, Wraps
<1>8. g \in [Tid -> 0..(Wrap - 1)]
  BY <1>3
<1> QED BY <1>6, <1>7, <1>8, TotalIsSum DEF v, s, r

\* The install counts one line more, and one less if a line goes.
LEMMA CountedRight ==
  ASSUME IInv, NEW tid \in Tid, NEW w \in Way, entries[w].valid => w \in Valid,
         Len(order) < assocs \/ entries[w].valid
  PROVE  /\ Counted(tid, w) \in [Tid -> 0..(Wrap - 1)]
         /\ Total(Counted(tid, w)) % Wrap =
              IF entries[w].valid THEN Len(order) ELSE Len(order) + 1
<1> DEFINE f == total_lines_thread
           up == [f EXCEPT ![tid] = (f[tid] + 1) % Wrap]
           e == entries[w].tid
           down == [up EXCEPT ![e] = (up[e] + -1) % Wrap]
           L == Len(order)
<1>1. f \in [Tid -> 0..(Wrap - 1)] /\ e \in Tid
  <2>1. entries[w] \in Entry
    BY Basics
  <2> QED BY <2>1 DEF IInv, TypeOK, Entry
<1>2. L \in Nat /\ L < Wrap /\ Wrap \in Nat \ {0} /\ (~entries[w].valid => L + 1 < Wrap)
      /\ L <= assocs /\ assocs < Wrap
  BY Basics
<1>3. Total(f) % Wrap = L
  <2>1. Cardinality(Valid) = L
    <3>1. Valid = 0..(L - 1)
      BY Basics
    <3>2. 0 \in Int /\ L - 1 \in Int
      BY <1>2
    <3> HIDE DEF L
    <3>3. Cardinality(0..(L - 1)) = IF 0 <= L - 1 THEN (L - 1) - 0 + 1 ELSE 0
      BY <3>2, FS_Interval
    <3> QED BY <1>2, <3>1, <3>3
  <2> QED BY <2>1 DEF IInv, OccupancyAddsUp
<1> HIDE DEF f, e, L
<1>4. /\ up \in [Tid -> 0..(Wrap - 1)] /\ Total(f) \in Int
      /\ Total(up) % Wrap = (Total(f) + 1) % Wrap
  BY <1>1, CountMoves
<1>5. L + 1 < Wrap => Total(up) % Wrap = L + 1
  <2>1. (Total(f) + 1) % Wrap = IF (Total(f) % Wrap) + 1 = Wrap THEN 0 ELSE (Total(f) % Wrap) + 1
    BY <1>2, <1>4, Wraps
  <2> QED BY <1>2, <1>3, <1>4, <2>1
<1>6. CASE ~entries[w].valid
  <2>1. Counted(tid, w) = up
    BY <1>6 DEF Counted, f
  <2> HIDE DEF up
  <2> QED BY <1>2, <1>4, <1>5, <1>6, <2>1 DEF L
<1>7. CASE entries[w].valid
  <2>1. Counted(tid, w) = [up EXCEPT ![e] = (up[e] - 1) % Wrap]
    BY <1>7 DEF Counted, f, e
  <2> HIDE DEF up
  <2>2. up[e] - 1 = up[e] + -1
    <3>1. up[e] \in 0..(Wrap - 1)
      BY <1>1, <1>4
    <3> QED BY <3>1
  <2>3. Counted(tid, w) = down
    BY <2>1, <2>2
  <2>4. /\ down \in [Tid -> 0..(Wrap - 1)] /\ Total(up) \in Int
        /\ Total(down) % Wrap = (Total(up) + -1) % Wrap
    BY <1>1, <1>4, CountMoves
  <2>5. (Total(f) + 1) % Wrap = IF L + 1 = Wrap THEN 0 ELSE L + 1
    BY <1>2, <1>3, <1>4, Wraps
  <2>6. (Total(up) - 1) % Wrap = IF Total(up) % Wrap = 0 THEN Wrap - 1 ELSE (Total(up) % Wrap) - 1
    BY <1>2, <2>4, Wraps
  <2>7. Total(up) + -1 = Total(up) - 1
    BY <2>4
  <2>8. Total(down) % Wrap = L
    <3> DEFINE x == Total(up) % Wrap
               y == Total(down) % Wrap
    <3>1. /\ x = IF L + 1 = Wrap THEN 0 ELSE L + 1
          /\ y = IF x = 0 THEN Wrap - 1 ELSE x - 1
      <4>1. y = (Total(up) - 1) % Wrap
        BY <2>4, <2>7
      <4> QED BY <1>4, <2>5, <2>6, <4>1
    <3> HIDE DEF x, y
    <3>2. y = L
      BY <1>2, <3>1
    <3> QED BY <3>2 DEF y
  <2> HIDE DEF down
  <2> QED BY <1>7, <2>3, <2>4, <2>8 DEF L
<1> QED BY <1>6, <1>7

-----------------------------------------------------------------------------
(* Installs.                                                               *)

\* An install into way w.
Placed(t, dirty, tid, w, rip, stamp) ==
  /\ evicted' = [valid |-> entries[w].valid, dirty |-> entries[w].dirty, tag |-> entries[w].tag]
  /\ entries' = [v \in Way |->
       IF v = w THEN [valid |-> TRUE, dirty |-> dirty, tag |-> t, ripctr |-> rip, tid |-> tid]
       ELSE [entries[v] EXCEPT !.ripctr = entries[v].ripctr - Aged]]
  /\ last' = (IF stamp THEN Stamped(w) ELSE last)
  /\ total_lines_thread' = Counted(tid, w)
  /\ psel' = (IF repl_policy \in Dueling THEN NextPsel(role) ELSE psel)
  /\ fifo_ptr' = FifoNext
  /\ order' = Append(IF entries[w].valid THEN Without(entries[w].tag) ELSE order, t)
  /\ cold' = (cold \ (IF entries[w].valid THEN {entries[w].tag} ELSE {}))
             \cup (IF stamp THEN {} ELSE {t})
  /\ UNCHANGED fixed

LEMMA InstallPlaces ==
  ASSUME NEW t, NEW dirty, NEW tid, Install(t, dirty, tid)
  PROVE  \E w \in Victims, rip \in RipctrVals(t), stamp \in StampChoices :
           Placed(t, dirty, tid, w, rip, stamp)
BY DEF Install, Placed

\* The line is in its way, and the others are where they were.
LEMMA PlacedEntries ==
  ASSUME IInv, NEW t \in Tag \ Cached, NEW dirty \in BOOLEAN, NEW tid \in Tid,
         NEW w \in Victims, NEW rip \in RipctrVals(t), NEW stamp \in StampChoices,
         Placed(t, dirty, tid, w, rip, stamp)
  PROVE  /\ Way' = Way /\ w \in Way /\ entries' \in [Way -> Entry]
         /\ entries'[w].valid /\ entries'[w].tag = t
         /\ \A v \in Way : v # w => /\ entries'[v].valid = entries[v].valid
                                    /\ entries'[v].tag = entries[v].tag
                                    /\ entries'[v].dirty = entries[v].dirty
         /\ Valid' = Valid \cup {w}
         /\ Cached' = (Cached \ (IF entries[w].valid THEN {entries[w].tag} ELSE {})) \cup {t}
         /\ \A u, v \in Valid' : entries'[u].tag = entries'[v].tag => u = v
<1>1. Way' = Way /\ w \in Way
  BY VictimWay DEF Placed, fixed, Way
<1> DEFINE new == [valid |-> TRUE, dirty |-> dirty, tag |-> t, ripctr |-> rip, tid |-> tid]
           Old(v) == [entries[v] EXCEPT !.ripctr = entries[v].ripctr - Aged]
<1>2. new \in Entry /\ new.valid /\ new.tag = t
  <2>1. rip \in 0..MCACHE_SRRIP_MAX
    <3>1. 0 \in 0..MCACHE_SRRIP_MAX /\ 1 \in 0..MCACHE_SRRIP_MAX
      BY CacheAssumption
    <3>2. met_install_prio # NotAware => met_install_prio \in 0..MCACHE_SRRIP_MAX
      BY DEF IInv, Fixed
    <3> QED BY <3>1, <3>2 DEF RipctrVals, MCACHE_BRRIP_INSTALL, MCACHE_SRRIP_INSTALL
  <2> QED BY <2>1 DEF Entry
<1>3. ASSUME NEW v \in Way
      PROVE  /\ Old(v) \in Entry /\ Old(v).valid = entries[v].valid
             /\ Old(v).tag = entries[v].tag /\ Old(v).dirty = entries[v].dirty
  <2>1. entries[v] \in Entry /\ entries[v].ripctr - Aged \in 0..MCACHE_SRRIP_MAX
    BY Basics, AgedRight
  <2> DEFINE e == entries[v]
             n == entries[v].ripctr - Aged
  <2> HIDE DEF e, n
  <2>2. e \in Entry /\ n \in 0..MCACHE_SRRIP_MAX /\ Old(v) = [e EXCEPT !.ripctr = n]
    BY <2>1 DEF e, n
  <2>3. /\ [e EXCEPT !.ripctr = n] \in Entry /\ [e EXCEPT !.ripctr = n].valid = e.valid
        /\ [e EXCEPT !.ripctr = n].tag = e.tag /\ [e EXCEPT !.ripctr = n].dirty = e.dirty
    BY <2>2 DEF Entry
  <2> QED BY <2>2, <2>3 DEF e
<1>4. entries' = [v \in Way |-> IF v = w THEN new ELSE Old(v)]
  BY DEF Placed
<1> HIDE DEF new, Old
<1>5. /\ entries' \in [Way -> Entry] /\ entries'[w] = new
      /\ \A v \in Way : v # w => entries'[v] = Old(v)
  BY <1>1, <1>2, <1>3, <1>4
<1>6. \A v \in Way : v # w => /\ entries'[v].valid = entries[v].valid
                              /\ entries'[v].tag = entries[v].tag
                              /\ entries'[v].dirty = entries[v].dirty
  BY <1>3, <1>5
<1>7. Valid' = Valid \cup {w}
  BY <1>1, <1>2, <1>5, <1>6 DEF Valid
<1>8. \A v \in Valid : v \in Way /\ entries[v].tag \in Cached
  BY Basics, Tags
<1>9. Cached' = (Cached \ (IF entries[w].valid THEN {entries[w].tag} ELSE {})) \cup {t}
  <2>1. ASSUME NEW x \in Cached'
        PROVE  x \in (Cached \ (IF entries[w].valid THEN {entries[w].tag} ELSE {})) \cup {t}
    <3>1. PICK v \in Valid' : x = entries'[v].tag
      BY DEF Cached
    <3>2. CASE v = w
      BY <1>2, <1>5, <3>1, <3>2
    <3>3. CASE v # w
      <4>1. v \in Valid /\ x = entries[v].tag /\ x \in Cached
        BY <1>6, <1>7, <1>8, <3>1, <3>3
      <4>2. ASSUME entries[w].valid PROVE x # entries[w].tag
        <5>1. w \in Valid
          BY <1>1, <4>2 DEF Valid
        <5> QED BY <3>3, <4>1, <5>1, Tags
      <4> QED BY <4>1, <4>2
    <3> QED BY <3>2, <3>3
  <2>2. t \in Cached'
    BY <1>2, <1>5, <1>7 DEF Cached
  <2>3. ASSUME NEW x \in Cached, entries[w].valid => x # entries[w].tag
        PROVE  x \in Cached'
    <3>1. PICK v \in Valid : x = entries[v].tag
      BY DEF Cached
    <3>2. v # w
      BY <2>3, <3>1 DEF Valid
    <3> QED BY <1>6, <1>7, <1>8, <3>1, <3>2 DEF Cached
  <2> QED BY <2>1, <2>2, <2>3
<1>10. ASSUME NEW u \in Valid', NEW v \in Valid', entries'[u].tag = entries'[v].tag
       PROVE  u = v
  <2>1. CASE u = w \/ v = w
    BY <1>2, <1>5, <1>6, <1>7, <1>8, <1>10, <2>1
  <2>2. CASE u # w /\ v # w
    BY <1>6, <1>7, <1>8, <1>10, <2>2, Tags
  <2> QED BY <2>1, <2>2
<1> QED BY <1>1, <1>2, <1>5, <1>6, <1>7, <1>9, <1>10

\* The line is the newest; if the set is full, another has left the order.
LEMMA PlacedOrder ==
  ASSUME IInv, NEW t \in Tag \ Cached, NEW dirty \in BOOLEAN, NEW tid \in Tid,
         NEW w \in Victims, NEW rip \in RipctrVals(t), NEW stamp \in StampChoices,
         Placed(t, dirty, tid, w, rip, stamp)
  PROVE  /\ order' \in Seq(Tag) /\ DOMAIN order' = 1..Len(order') /\ Len(order') \in Nat
         /\ \A i, j \in 1..Len(order') : order'[i] = order'[j] => i = j
         /\ ToSet(order') = Cached' /\ order'[Len(order')] = t
         /\ ~entries[w].valid => /\ Len(order') = Len(order) + 1
                                 /\ \A j \in 1..Len(order) : order'[j] = order[j]
         /\ entries[w].valid =>
              /\ Len(order') = Len(order)
              /\ \A j \in 1..(Len(order) - 1) :
                   order'[j] = order[IF j < Place(entries[w].tag) THEN j ELSE j + 1]
<1> DEFINE L == Len(order)
           x == entries[w].tag
           p == Place(x)
<1>1. /\ order \in Seq(Tag) /\ L \in Nat /\ ToSet(order) = Cached
      /\ \A i, j \in 1..L : order[i] = order[j] => i = j
      /\ DOMAIN order = 1..L
  BY Basics
<1>2. t \in Tag /\ t \notin ToSet(order) /\ \A i \in 1..L : order[i] # t
  BY <1>1 DEF ToSet
<1>3. Cached' = (Cached \ (IF entries[w].valid THEN {x} ELSE {})) \cup {t}
  BY PlacedEntries
<1>4. CASE ~entries[w].valid
  <2> DEFINE r == Append(order, t)
  <2>1. /\ r \in Seq(Tag) /\ Len(r) = L + 1 /\ r[L + 1] = t
        /\ \A j \in 1..L : r[j] = order[j]
        /\ \A i, j \in 1..(L + 1) : r[i] = r[j] => i = j
        /\ ToSet(r) = ToSet(order) \cup {t}
    BY <1>1, <1>2, Added
  <2>2. order' = r
    BY <1>4 DEF Placed
  <2> HIDE DEF r
  <2>3. DOMAIN r = 1..Len(r)
    BY <2>1, LenProperties
  <2> HIDE DEF L
  <2>4. Len(r) = L + 1 /\ Len(r) \in Nat /\ ToSet(r) = Cached'
    BY <1>1, <1>3, <1>4, <2>1
  <2> QED BY <1>4, <2>1, <2>2, <2>3, <2>4 DEF L
<1>5. CASE entries[w].valid
  <2>1. p \in 1..L /\ order[p] = x /\ Without(x) = RemoveAt(order, p)
    <3>1. w \in Valid
      BY <1>5, VictimWay
    <3> QED BY <3>1, Tags
  <2> DEFINE r == Append(RemoveAt(order, p), t)
  <2>2. order' = r
    BY <1>5, <2>1 DEF Placed
  <2> HIDE DEF p
  <2>3. /\ r \in Seq(Tag) /\ Len(r) = L /\ r[L] = t
        /\ \A j \in 1..(L - 1) : r[j] = order[IF j < p THEN j ELSE j + 1]
        /\ \A i, j \in 1..L : r[i] = r[j] => i = j
        /\ ToSet(r) = (ToSet(order) \ {order[p]}) \cup {t}
    <3>1. Holding(order, p, t)
      BY <1>1, <1>2, <2>1 DEF Holding
    <3>2. Renewed(order, p, t, r)
      BY <3>1, Replaced
    <3> HIDE DEF r
    <3> QED BY <3>2 DEF Renewed
  <2> HIDE DEF r
  <2>4. DOMAIN r = 1..Len(r) /\ Len(r) \in Nat
    BY <2>3, LenProperties
  <2> HIDE DEF L
  <2>5. ToSet(r) = Cached'
    BY <1>1, <1>3, <1>5, <2>1, <2>3
  <2> QED BY <1>5, <2>2, <2>3, <2>4, <2>5 DEF L, p
<1> QED BY <1>4, <1>5

\* The ways stay filled in their order and counted, and the counters in range.
LEMMA PlacedTypes ==
  ASSUME IInv, NEW t \in Tag \ Cached, NEW dirty \in BOOLEAN, NEW tid \in Tid,
         NEW w \in Victims, NEW rip \in RipctrVals(t), NEW stamp \in StampChoices,
         Placed(t, dirty, tid, w, rip, stamp)
  PROVE  TypeOK' /\ OccupancyAddsUp' /\ Fixed' /\ Filled'
<1> DEFINE L == Len(order)
<1>1. assocs' = assocs /\ repl_policy' = repl_policy /\ role' = role
      /\ met_install_prio' = met_install_prio
  BY DEF Placed, fixed
<1>2. L \in Nat /\ L <= assocs /\ assocs \in Nat \ {0} /\ Valid = 0..(L - 1)
  BY Basics
<1>3. /\ ~entries[w].valid => w = L /\ w < assocs
      /\ entries[w].valid => L = assocs /\ w \in Valid
  BY VictimWay
<1>4. Len(order') = IF entries[w].valid THEN L ELSE L + 1
  BY PlacedOrder
<1>5. Valid' = Valid \cup {w}
  BY PlacedEntries
<1> HIDE DEF L
<1>6. Len(order') \in Nat /\ Len(order') <= assocs /\ Valid' = 0..(Len(order') - 1)
  BY <1>2, <1>3, <1>4, <1>5
<1>7. Filled'
  BY <1>1, <1>6, PlacedOrder DEF Filled
<1>8. /\ Counted(tid, w) \in [Tid -> 0..(Wrap - 1)]
      /\ Total(Counted(tid, w)) % Wrap = Len(order')
  <2>1. w \in Way /\ (Len(order) < assocs \/ entries[w].valid)
    BY <1>3, VictimWay DEF L
  <2> QED BY <1>3, <1>4, <2>1, CountedRight DEF L
<1>9. Cardinality(Valid') = Len(order')
  <2> DEFINE n == Len(order')
  <2> HIDE DEF n
  <2>1. n \in Nat /\ Valid' = 0..(n - 1) /\ 0 \in Int /\ n - 1 \in Int
    BY <1>6 DEF n
  <2>2. Cardinality(0..(n - 1)) = IF 0 <= n - 1 THEN (n - 1) - 0 + 1 ELSE 0
    BY <2>1, FS_Interval
  <2> QED BY <2>1, <2>2 DEF n
<1>10. OccupancyAddsUp'
  <2>1. total_lines_thread' = Counted(tid, w)
    BY DEF Placed
  <2>2. Total(total_lines_thread') % Wrap = Len(order')
    BY <1>8, <2>1
  <2> QED BY <1>9, <2>2 DEF OccupancyAddsUp
<1>11. Fixed'
  BY <1>1 DEF IInv, Fixed
<1>12. TypeOK'
  <2>1. last' \in [Way -> 0..assocs]
    <3>1. last' = Stamped(w) \/ last' = last
      BY DEF Placed
    <3>2. w \in Way
      BY VictimWay
    <3> QED BY <3>1, <3>2, StampRight, Basics
  <2>2. fifo_ptr' \in Way
    <3>1. fifo_ptr' = (fifo_ptr + 1) % assocs /\ fifo_ptr \in Nat
      BY Basics DEF Placed, FifoNext, IInv, TypeOK
    <3>2. fifo_ptr + 1 \in Int
      BY <3>1
    <3>3. (fifo_ptr + 1) % assocs \in 0..(assocs - 1)
      BY <1>2, <3>2, Wraps
    <3> QED BY <3>1, <3>3 DEF Way
  <2>3. psel' \in 0..MCACHE_PSEL_MAX
    <3>1. psel \in 0..MCACHE_PSEL_MAX /\ MCACHE_PSEL_MAX \in Nat
      BY CacheAssumption DEF IInv, TypeOK
    <3>2. NextPsel(role) \in {psel, psel + 1, psel - 1}
          /\ (NextPsel(role) = psel + 1 => psel < MCACHE_PSEL_MAX)
          /\ (NextPsel(role) = psel - 1 => psel > 0)
      BY <3>1 DEF NextPsel
    <3>3. psel' = psel \/ psel' = NextPsel(role)
      BY DEF Placed
    <3> QED BY <3>1, <3>2, <3>3
  <2>4. total_lines_thread' \in [Tid -> 0..(Wrap - 1)]
    BY <1>8 DEF Placed
  <2> QED BY <2>1, <2>2, <2>3, <2>4, <1>1, PlacedEntries, PlacedOrder DEF TypeOK
<1> QED BY <1>7, <1>10, <1>11, <1>12

\* Under LRU the way of the new line is stamped, and the others keep the stamps
\* of their places.
LEMMA PlacedStamps ==
  ASSUME IInv, NEW t \in Tag \ Cached, NEW dirty \in BOOLEAN, NEW tid \in Tid,
         NEW w \in Victims, NEW rip \in RipctrVals(t), NEW stamp \in StampChoices,
         Placed(t, dirty, tid, w, rip, stamp)
  PROVE  StampsInOrder'
<1> DEFINE L == Len(order)
           M == Len(order')
<1>1. assocs' = assocs /\ repl_policy' = repl_policy /\ Way' = Way
  BY DEF Placed, fixed, Way
<1>2. L \in Nat /\ L <= assocs /\ assocs \in Nat \ {0} /\ M \in Nat /\ DOMAIN order' = 1..M
      /\ DOMAIN order = 1..L
  BY Basics, PlacedOrder
<1> HIDE DEF L, M
<1> SUFFICES ASSUME repl_policy = "LRU", NEW i \in 1..M, NEW v \in Valid',
                    entries'[v].tag = order'[i]
             PROVE  last'[v] = assocs - M + i
  BY <1>1, <1>2 DEF StampsInOrder, M
<1>3. last' = Stamped(w) /\ w \in Way
  <2>1. stamp = TRUE
    BY DEF StampChoices
  <2> QED BY <2>1, VictimWay DEF Placed
<1>4. \A k \in DOMAIN order, u \in Valid :
        entries[u].tag = order[k] => last[u] = assocs - Len(order) + k
  BY DEF IInv, StampsInOrder
<1>5. CASE i = M
  <2>1. entries'[v].tag = t
    BY <1>5, PlacedOrder DEF M
  <2>2. v = w
    BY <2>1, PlacedEntries
  <2>3. last'[v] = assocs
    BY <1>3, <2>2, StampRight
  <2> QED BY <1>2, <1>5, <2>3
<1>6. CASE i # M
  <2>1. i \in 1..(M - 1)
    BY <1>2, <1>6
  <2>2. v # w
    <3>1. \A j, k \in 1..M : order'[j] = order'[k] => j = k
      BY PlacedOrder DEF M
    <3>2. order'[M] = t /\ M \in 1..M
      <4>1. order'[M] = t
        BY PlacedOrder DEF M
      <4> QED BY <1>2, <2>1, <4>1
    <3>3. order'[i] # t
      BY <1>6, <3>1, <3>2
    <3> QED BY <3>3, PlacedEntries
  <2>3. v \in Valid /\ v \in Way /\ entries[v].tag = order'[i]
    <3>1. v \in Valid
      BY <2>2, PlacedEntries
    <3> QED BY <2>2, <3>1, Basics, PlacedEntries
  <2>4. CASE ~entries[w].valid
    <3>1. M = L + 1 /\ \A j \in 1..L : order'[j] = order[j]
      BY <2>4, PlacedOrder DEF L, M
    <3>2. i \in 1..L /\ entries[v].tag = order[i]
      BY <1>2, <2>1, <2>3, <3>1
    <3>3. last[v] = assocs - L + i /\ last[w] = 0 /\ L < assocs
      <4>1. last[w] = 0 /\ L < assocs
        BY <2>4, VictimWay DEF L
      <4> QED BY <1>2, <1>4, <2>3, <3>2, <4>1 DEF L
    <3>4. Stamped(w)[v] = IF last[v] > last[w] THEN last[v] - 1 ELSE last[v]
      BY <1>3, <2>2, <2>3, StampRight
    <3>5. last[v] > last[w]
      BY <1>2, <3>2, <3>3
    <3> QED BY <1>2, <1>3, <3>1, <3>2, <3>3, <3>4, <3>5
  <2>5. CASE entries[w].valid
    <3> DEFINE p == Place(entries[w].tag)
    <3>1. /\ M = L
          /\ \A j \in 1..(L - 1) : order'[j] = order[IF j < p THEN j ELSE j + 1]
      BY <2>5, PlacedOrder DEF L, M
    <3>2. w \in Valid /\ p \in 1..L /\ order[p] = entries[w].tag
      <4>1. w \in Valid
        BY <2>5, VictimWay
      <4> QED BY <4>1, Tags DEF L
    <3> HIDE DEF p
    <3>3. last[w] = assocs - L + p
      BY <1>2, <1>4, <3>2 DEF L
    <3>4. i \in 1..(L - 1) /\ entries[v].tag = order[IF i < p THEN i ELSE i + 1]
      BY <2>1, <2>3, <3>1
    <3>5. Stamped(w)[v] = assocs - L + i
      BY <1>3, <2>2, <2>3, <3>2, <3>3, <3>4, StampMoves DEF L
    <3> QED BY <1>3, <3>1, <3>5
  <2> QED BY <2>4, <2>5
<1> QED BY <1>5, <1>6

\* Under FIFO the pointer moves on with the line that comes.
LEMMA PlacedPointer ==
  ASSUME IInv, NEW t \in Tag \ Cached, NEW dirty \in BOOLEAN, NEW tid \in Tid,
         NEW w \in Victims, NEW rip \in RipctrVals(t), NEW stamp \in StampChoices,
         Placed(t, dirty, tid, w, rip, stamp)
  PROVE  PointerInOrder'
<1> DEFINE L == Len(order)
           M == Len(order')
           N == fifo_ptr'
<1>1. assocs' = assocs /\ repl_policy' = repl_policy /\ Way' = Way
  BY DEF Placed, fixed, Way
<1>2. L \in Nat /\ L <= assocs /\ assocs \in Nat \ {0} /\ M \in Nat /\ DOMAIN order' = 1..M
      /\ DOMAIN order = 1..L /\ Valid = 0..(L - 1) /\ Way = 0..(assocs - 1)
  BY Basics, PlacedOrder
<1>3. fifo_ptr \in 0..(assocs - 1)
  BY <1>2 DEF IInv, TypeOK
<1> SUFFICES ASSUME repl_policy = "FIFO"
             PROVE  IF M < assocs
                    THEN N = M /\ \A i \in 1..M : entries'[i - 1].tag = order'[i]
                    ELSE \A i \in 1..M : entries'[FromPtr(i)'].tag = order'[i]
  BY <1>1, <1>2 DEF PointerInOrder
<1>4. N = IF fifo_ptr + 1 = assocs THEN 0 ELSE fifo_ptr + 1
  <2>1. N = (fifo_ptr + 1) % assocs
    BY DEF Placed, FifoNext
  <2>2. (fifo_ptr + 1) % assocs = IF (fifo_ptr % assocs) + 1 = assocs THEN 0 ELSE (fifo_ptr % assocs) + 1
    <3>1. assocs \in Nat \ {0} /\ fifo_ptr \in Int
      BY <1>2, <1>3
    <3> QED BY ONLY <3>1, Wraps
  <2>3. fifo_ptr % assocs = fifo_ptr
    BY <1>2, <1>3, Z3
  <2> QED BY <2>1, <2>2, <2>3
<1>5. PointerInOrder
  BY DEF IInv
<1>6. \A i : FromPtr(i)' = IF N + i <= assocs THEN N + i - 1 ELSE N + i - 1 - assocs
  BY <1>1 DEF FromPtr
<1>7. order'[M] = t /\ entries'[w].tag = t /\ w \in Way
      /\ \A v \in Way : v # w => entries'[v].tag = entries[v].tag
  BY PlacedEntries, PlacedOrder
<1> HIDE DEF M, N
<1>8. CASE ~entries[w].valid
  <2>1. M = L + 1 /\ \A j \in 1..L : order'[j] = order[j]
    BY <1>8, PlacedOrder DEF M
  <2>2. w = L /\ L < assocs
    BY <1>8, VictimWay
  <2>3. fifo_ptr = L /\ \A i \in 1..L : entries[i - 1].tag = order[i]
    BY <1>2, <1>5, <2>2 DEF PointerInOrder
  <2> HIDE DEF L
  <2>4. ASSUME NEW i \in 1..M PROVE entries'[i - 1].tag = order'[i]
    <3>1. CASE i = M
      <4>1. i - 1 = w
        BY <1>2, <2>1, <2>2, <3>1
      <4> QED BY <1>7, <3>1, <4>1
    <3>2. CASE i # M
      <4>1. i \in 1..L /\ i - 1 \in Way /\ i - 1 # w
        BY <1>2, <2>1, <2>2, <3>2
      <4> QED BY <1>7, <2>1, <2>3, <4>1
    <3> QED BY <3>1, <3>2
  <2>5. CASE M < assocs
    <3>1. N = M
      BY <1>2, <1>4, <2>1, <2>3, <2>5
    <3> QED BY <2>4, <2>5, <3>1
  <2>6. CASE ~(M < assocs)
    <3>1. N = 0
      BY <1>2, <1>4, <2>1, <2>2, <2>3, <2>6
    <3>2. ASSUME NEW i \in 1..M PROVE FromPtr(i)' = i - 1
      <4>1. M = assocs
        BY <1>2, <2>1, <2>2, <2>6
      <4>2. N + i <= assocs /\ N + i - 1 = i - 1
        BY <1>2, <3>1, <4>1
      <4> QED BY <1>6, <4>2
    <3> QED BY <2>4, <2>6, <3>2
  <2> QED BY <2>5, <2>6
<1>9. CASE entries[w].valid
  <2> DEFINE p == Place(entries[w].tag)
  <2>1. M = L /\ L = assocs
        /\ \A j \in 1..(L - 1) : order'[j] = order[IF j < p THEN j ELSE j + 1]
    BY <1>9, VictimWay, PlacedOrder DEF M
  <2>2. w = fifo_ptr
    <3>1. Valid = Way
      BY <1>2, <2>1
    <3> QED BY <3>1 DEF Victims
  <2>3. p = 1
    <3>1. w \in Valid /\ entries[w].tag = order[1] /\ 1 \in 1..L
      BY <1>2, <1>9, <2>1, VictimWay
    <3> QED BY <3>1, Tags
  <2>4. \A i \in 1..L : entries[FromPtr(i)].tag = order[i]
    <3>1. ~(L < assocs)
      BY <2>1, <1>2
    <3> QED BY <1>2, <1>5, <3>1 DEF PointerInOrder
  <2> HIDE DEF p, L
  <2>5. ASSUME NEW i \in 1..M PROVE entries'[FromPtr(i)'].tag = order'[i]
    <3>1. CASE i = M
      <4>1. FromPtr(i)' = w
        BY <1>2, <1>3, <1>4, <1>6, <2>1, <2>2, <3>1
      <4> QED BY <1>7, <3>1, <4>1
    <3>2. CASE i # M
      <4>1. i \in 1..(L - 1) /\ i + 1 \in 1..L
        BY <1>2, <2>1, <3>2
      <4>2. order'[i] = order[i + 1]
        BY <2>1, <2>3, <4>1
      <4>3. FromPtr(i)' = FromPtr(i + 1) /\ FromPtr(i + 1) \in Way /\ FromPtr(i + 1) # w
        BY <1>2, <1>3, <1>4, <1>6, <2>1, <2>2, <4>1 DEF FromPtr
      <4> QED BY <1>7, <2>4, <4>1, <4>2, <4>3
    <3> QED BY <3>1, <3>2
  <2>6. ~(M < assocs)
    BY <1>2, <2>1
  <2> QED BY <2>5, <2>6
<1> QED BY <1>8, <1>9

\* A line left without a stamp is at the bottom, and those that were there stay.
LEMMA PlacedCold ==
  ASSUME IInv, NEW t \in Tag \ Cached, NEW dirty \in BOOLEAN, NEW tid \in Tid,
         NEW w \in Victims, NEW rip \in RipctrVals(t), NEW stamp \in StampChoices,
         Placed(t, dirty, tid, w, rip, stamp)
  PROVE  ColdRight'
<1>0. w \in Way
  BY VictimWay
<1>1. repl_policy' = repl_policy /\ Way' = Way /\ w \in Way
      /\ last' = (IF stamp THEN Stamped(w) ELSE last)
      /\ cold' = (cold \ (IF entries[w].valid THEN {entries[w].tag} ELSE {}))
                 \cup (IF stamp THEN {} ELSE {t})
  BY <1>0 DEF Placed, fixed, Way
<1>2. ColdRight
  BY DEF IInv
<1>3. stamp \in BOOLEAN /\ (~stamp => repl_policy = "DIP")
  BY DEF StampChoices
<1>4. cold' \subseteq Cached'
  <2>1. Cached' = (Cached \ (IF entries[w].valid THEN {entries[w].tag} ELSE {})) \cup {t}
    BY PlacedEntries
  <2>2. cold \subseteq Cached
    BY <1>2 DEF ColdRight
  <2> QED BY <1>1, <2>1, <2>2
<1>5. cold' # {} => repl_policy' = "DIP"
  BY <1>1, <1>2, <1>3 DEF ColdRight
<1>6. \A v \in Way : last[v] \in 0..assocs /\ assocs \in Nat
  BY Basics
<1>7. ASSUME NEW v \in Way' \ Valid' PROVE last'[v] = 0
  <2>1. v \in Way /\ v \notin Valid /\ v # w
    BY <1>1, <1>7, PlacedEntries
  <2>2. last[v] = 0 /\ last[w] \in 0..assocs
    BY <1>1, <1>2, <1>6, <2>1 DEF ColdRight
  <2>3. Stamped(w)[v] = IF last[v] > last[w] THEN last[v] - 1 ELSE last[v]
    BY <1>1, <2>1, StampRight
  <2>4. ~(last[v] > last[w])
    BY <1>6, <2>2
  <2> QED BY <1>1, <2>2, <2>3, <2>4
<1>8. ASSUME NEW x \in cold' PROVE \E v \in Holds(x)' : v \in Lowest(last)'
  <2>1. CASE x = t /\ ~stamp
    <3>1. w \in Lowest(last)
      <4>1. CASE entries[w].valid
        BY <1>3, <2>1, <4>1, VictimWay
      <4>2. CASE ~entries[w].valid
        <5>1. last[w] = 0
          BY <4>2, VictimWay
        <5>2. \A v \in Way : last[w] <= last[v]
          BY <1>6, <5>1
        <5> QED BY <1>1, <5>2 DEF Lowest
      <4> QED BY <4>1, <4>2
    <3>2. w \in Lowest(last)'
      BY <1>1, <2>1, <3>1 DEF Lowest
    <3>3. w \in Holds(x)'
      BY <2>1, PlacedEntries DEF Holds
    <3> QED BY <3>2, <3>3
  <2>2. CASE ~(x = t /\ ~stamp)
    <3>1. x \in cold /\ (entries[w].valid => x # entries[w].tag)
      BY <1>1, <2>2
    <3>2. PICK v \in Holds(x) : v \in Lowest(last)
      BY <1>2, <3>1 DEF ColdRight, ColdStaysLast
    <3>3. v \in Valid /\ entries[v].tag = x /\ v \in Way /\ v # w
      <4>1. v \in Valid /\ entries[v].tag = x /\ v \in Way /\ entries[v].valid
        BY <3>2, Basics DEF Holds, Valid
      <4> QED BY <3>1, <4>1
    <3>4. v \in Holds(x)'
      BY <3>3, PlacedEntries DEF Holds
    <3>5. v \in Lowest(last)'
      <4>1. CASE stamp
        <5>1. v \in Lowest(Stamped(w))
          BY <1>1, <3>2, <3>3, LowKept
        <5> QED BY <1>1, <4>1, <5>1 DEF Lowest
      <4>2. CASE ~stamp
        BY <1>1, <3>2, <4>2 DEF Lowest
      <4> QED BY <4>1, <4>2
    <3> QED BY <3>4, <3>5
  <2> QED BY <2>1, <2>2
<1>9. ColdStaysLast'
  BY <1>8 DEF ColdStaysLast
<1> QED BY <1>4, <1>5, <1>7, <1>9 DEF ColdRight

-----------------------------------------------------------------------------
(* The invariant.                                                          *)

\* An install in another leader set moves psel alone.
LEMMA OtherLeaderKeeps ==
  ASSUME IInv, NEW r \in {"p0", "p1"}, OtherLeader(r)
  PROVE  IInv'
<1>1. /\ UNCHANGED <<assocs, repl_policy, met_install_prio, role, entries, last, fifo_ptr,
                     total_lines_thread, order, cold>>
      /\ psel' = NextPsel(r)
  BY DEF OtherLeader, fixed
<1>2. Way' = Way /\ Valid' = Valid /\ Cached' = Cached
  BY <1>1 DEF Way, Valid, Cached
<1>3. psel' \in 0..MCACHE_PSEL_MAX
  <2>1. psel \in 0..MCACHE_PSEL_MAX /\ MCACHE_PSEL_MAX \in Nat
    BY CacheAssumption DEF IInv, TypeOK
  <2>2. \/ NextPsel(r) = psel
        \/ NextPsel(r) = psel + 1 /\ psel < MCACHE_PSEL_MAX
        \/ NextPsel(r) = psel - 1 /\ psel > 0
    BY DEF NextPsel
  <2> QED BY <1>1, <2>1, <2>2
<1>4. TypeOK'
  BY <1>1, <1>2, <1>3 DEF IInv, TypeOK
<1>5. OccupancyAddsUp' /\ Fixed' /\ Filled'
  BY <1>1, <1>2 DEF IInv, OccupancyAddsUp, Fixed, Filled
<1>6. StampsInOrder' /\ PointerInOrder'
  BY <1>1, <1>2 DEF IInv, StampsInOrder, PointerInOrder, FromPtr
<1>7. ColdRight'
  <2>1. \A t : Holds(t)' = Holds(t)
    BY <1>1, <1>2 DEF Holds
  <2>2. Lowest(last)' = Lowest(last)
    BY <1>1, <1>2 DEF Lowest
  <2> QED BY <1>1, <1>2, <2>1, <2>2 DEF IInv, ColdRight, ColdStaysLast
<1> QED BY <1>4, <1>5, <1>6, <1>7 DEF IInv

\* The invariant holds of an empty set.
LEMMA InitHolds == Init => IInv
<1> SUFFICES ASSUME Init PROVE IInv
  OBVIOUS
<1>1. assocs \in Nat \ {0} /\ assocs < Wrap
  BY CacheAssumption DEF Init
<1>2. Valid = {} /\ Cached = {}
  BY DEF Init, Valid, Cached
<1>3. order = <<>> /\ Len(order) = 0 /\ DOMAIN order = {} /\ ToSet(order) = {}
      /\ order \in Seq(Tag)
  BY EmptySeq DEF Init, ToSet
<1>4. TypeOK
  <2>1. entries \in [Way -> Entry]
    <3>1. (CHOOSE t \in Tag : TRUE) \in Tag /\ (CHOOSE tid \in Tid : TRUE) \in Tid
          /\ 0 \in 0..MCACHE_SRRIP_MAX
      BY CacheAssumption
    <3> QED BY <3>1 DEF Init, Entry
  <2>2. last \in [Way -> 0..assocs] /\ fifo_ptr \in Way
    BY <1>1 DEF Init, Way
  <2>3. psel \in 0..MCACHE_PSEL_MAX
    <3>1. MCACHE_PSEL_MAX \in Nat \ {0} /\ psel = (MCACHE_PSEL_MAX + 1) \div 2
      BY CacheAssumption DEF Init, HalfPsel
    <3> QED BY <3>1, SMT
  <2>4. total_lines_thread \in [Tid -> 0..(Wrap - 1)]
    <3>1. 0 \in 0..(Wrap - 1)
      BY <1>1, CacheAssumption
    <3> QED BY <3>1 DEF Init
  <2> QED BY <1>2, <1>3, <2>1, <2>2, <2>3, <2>4 DEF TypeOK
<1>5. OccupancyAddsUp
  <2>1. total_lines_thread \in [Tid -> Int] /\ \A c \in Tid : total_lines_thread[c] = 0
    BY DEF Init
  <2>2. Total(total_lines_thread) = 0
    BY <2>1, CacheAssumption, SumOfZeros, TotalIsSum
  <2>3. 0 % Wrap = 0
    <3>1. Wrap \in Nat \ {0}
      BY <1>1, CacheAssumption
    <3> QED BY <3>1, Z3
  <2> QED BY <1>2, <2>2, <2>3, FS_EmptySet DEF OccupancyAddsUp
<1>6. Fixed
  BY CacheAssumption DEF Init, Fixed, Roles
<1>7. Filled
  BY <1>1, <1>2, <1>3 DEF Filled
<1>8. StampsInOrder /\ PointerInOrder
  BY <1>1, <1>3 DEF Init, StampsInOrder, PointerInOrder
<1>9. ColdRight
  BY DEF Init, ColdRight, ColdStaysLast
<1> QED BY <1>4, <1>5, <1>6, <1>7, <1>8, <1>9 DEF IInv

\* Every step keeps it.
LEMMA NextKeeps == IInv /\ [Next]_vars => IInv'
<1> SUFFICES ASSUME IInv, [Next]_vars PROVE IInv'
  OBVIOUS
<1>1. ASSUME NEW t \in Tag, NEW dirty \in BOOLEAN, NEW tid \in Tid, Access(t, dirty, tid)
      PROVE  IInv'
  <2>1. CASE Hit(t, dirty, tid)
    BY <2>1, HitKeeps
  <2>2. CASE t \notin Cached /\ Install(t, dirty, tid)
    <3>1. PICK w \in Victims, rip \in RipctrVals(t), stamp \in StampChoices :
            Placed(t, dirty, tid, w, rip, stamp)
      BY <2>2, InstallPlaces
    <3>2. t \in Tag \ Cached
      BY <2>2
    <3> QED BY <3>1, <3>2, PlacedTypes, PlacedStamps, PlacedPointer, PlacedCold DEF IInv
  <2> QED BY <1>1, <2>1, <2>2 DEF Access
<1>2. ASSUME NEW r \in {"p0", "p1"}, OtherLeader(r) PROVE IInv'
  BY <1>2, OtherLeaderKeeps
<1>3. CASE UNCHANGED vars
  <2>1. UNCHANGED <<assocs, repl_policy, met_install_prio, role, entries, last, fifo_ptr,
                    psel, total_lines_thread, order, cold>>
    BY <1>3 DEF vars, fixed
  <2>2. Way' = Way /\ Valid' = Valid /\ Cached' = Cached
    BY <2>1 DEF Way, Valid, Cached
  <2>3. TypeOK' /\ OccupancyAddsUp' /\ Fixed' /\ Filled'
    BY <2>1, <2>2 DEF IInv, TypeOK, OccupancyAddsUp, Fixed, Filled
  <2>4. StampsInOrder' /\ PointerInOrder'
    BY <2>1, <2>2 DEF IInv, StampsInOrder, PointerInOrder, FromPtr
  <2>5. ColdRight'
    <3>1. \A t : Holds(t)' = Holds(t)
      BY <2>1, <2>2 DEF Holds
    <3>2. Lowest(last)' = Lowest(last)
      BY <2>1, <2>2 DEF Lowest
    <3> QED BY <2>1, <2>2, <3>1, <3>2 DEF IInv, ColdRight, ColdStaysLast
  <2> QED BY <2>3, <2>4, <2>5 DEF IInv
<1> QED BY <1>1, <1>2, <1>3 DEF Next

-----------------------------------------------------------------------------
(* The theorems.                                                           *)

\* The strengthened invariant holds of every reachable state.
THEOREM IInvHolds == Spec => []IInv
BY InitHolds, NextKeeps, PTL DEF Spec

\* A line is in one way only, and stamps, pointer, psel, occupancy counts and
\* replacement counters stay in their ranges: no unsigned ripctr wraps in
\* mcache_find_victim_srrip.
THEOREM CacheTypeCorrect == Spec => []TypeOK
<1>1. IInv => TypeOK
  BY DEF IInv
<1> QED BY <1>1, IInvHolds, PTL

\* The occupancy counts of the threads add up to the lines of the set, also
\* when the count of a thread wraps because a write-back took its line over.
THEOREM OccupancyRight == Spec => []OccupancyAddsUp
<1>1. IInv => OccupancyAddsUp
  BY DEF IInv
<1> QED BY <1>1, IInvHolds, PTL

\* One step of LRU or FIFO throws out the oldest line.
LEMMA OldestStep ==
  IInv /\ [Next]_vars =>
    [evicted'.valid /\ repl_policy \in {"LRU", "FIFO"} => evicted'.tag = Head(order)]_vars
<1> SUFFICES ASSUME IInv, Next, evicted'.valid, repl_policy \in {"LRU", "FIFO"}
             PROVE  evicted'.tag = Head(order)
  OBVIOUS
<1>1. PICK t \in Tag, dirty \in BOOLEAN, tid \in Tid : Access(t, dirty, tid)
  <2>1. \A r : ~OtherLeader(r)
    BY DEF OtherLeader, Dueling
  <2> QED BY <2>1 DEF Next
<1>2. ~Hit(t, dirty, tid)
  BY DEF Hit, Nothing
<1>3. t \in Tag \ Cached /\ Install(t, dirty, tid)
  BY <1>1, <1>2 DEF Access
<1>4. PICK w \in Victims, rip \in RipctrVals(t), stamp \in StampChoices :
        Placed(t, dirty, tid, w, rip, stamp)
  BY <1>3, InstallPlaces
<1>5. evicted'.valid = entries[w].valid /\ evicted'.tag = entries[w].tag
  BY <1>4 DEF Placed
<1>6. entries[w].tag = order[1]
  BY <1>5, VictimWay
<1> QED BY <1>5, <1>6

\* One step cleans a way only by handing its line out to be written back.
LEMMA DirtyStep ==
  IInv /\ [Next]_vars =>
    [DirtyWays \ DirtyWays' \subseteq
       (IF evicted'.valid /\ evicted'.dirty THEN {evicted'.tag} ELSE {})]_vars
<1> SUFFICES ASSUME IInv, Next, NEW x \in DirtyWays, x \notin DirtyWays'
             PROVE  evicted'.valid /\ evicted'.dirty /\ x = evicted'.tag
  OBVIOUS
<1>1. PICK v \in Valid : entries[v].dirty /\ entries[v].tag = x /\ v \in Way /\ entries[v].valid
  BY DEF DirtyWays, Valid
<1>2. ~(v \in Way' /\ entries'[v].valid /\ entries'[v].dirty /\ entries'[v].tag = x)
  BY DEF DirtyWays, Valid
<1>3. PICK t \in Tag, dirty \in BOOLEAN, tid \in Tid : Access(t, dirty, tid)
  <2>1. ASSUME NEW r, OtherLeader(r) PROVE FALSE
    <3>1. entries' = entries /\ Way' = Way
      BY <2>1 DEF OtherLeader, fixed, Way
    <3> QED BY <1>1, <1>2, <3>1
  <2> QED BY <2>1 DEF Next
<1>4. ~Hit(t, dirty, tid)
  <2> SUFFICES ASSUME Hit(t, dirty, tid) PROVE FALSE
    OBVIOUS
  <2>1. /\ assocs' = assocs
        /\ \A u \in Way : /\ entries'[u].valid = entries[u].valid
                          /\ entries'[u].tag = entries[u].tag
                          /\ entries[u].dirty => entries'[u].dirty
    BY HitFacts
  <2>2. Way' = Way
    BY <2>1 DEF Way
  <2> QED BY <1>1, <1>2, <2>1, <2>2
<1>5. t \in Tag \ Cached /\ Install(t, dirty, tid)
  BY <1>3, <1>4 DEF Access
<1>6. PICK w \in Victims, rip \in RipctrVals(t), stamp \in StampChoices :
        Placed(t, dirty, tid, w, rip, stamp)
  BY <1>5, InstallPlaces
<1>7. Way' = Way /\ \A u \in Way : u # w => /\ entries'[u].valid = entries[u].valid
                                            /\ entries'[u].tag = entries[u].tag
                                            /\ entries'[u].dirty = entries[u].dirty
  BY <1>5, <1>6, PlacedEntries
<1>8. v = w
  BY <1>1, <1>2, <1>7
<1>9. evicted' = [valid |-> entries[w].valid, dirty |-> entries[w].dirty,
                  tag |-> entries[w].tag]
  BY <1>6 DEF Placed
<1> QED BY <1>1, <1>8, <1>9

\* The line an install throws out is the one the policy means: under LRU the
\* one used least recently and under FIFO the one installed first; a line that
\* DIP installs at the bottom stays there until it is used; and no dirty line
\* goes but into the hands of the caller that writes it back.
THEOREM VictimsAreRight == Spec => VictimsRight
<1>1. IInv => ColdStaysLast
  BY DEF IInv, ColdRight
<1>2. Spec => OldestLeaves
  BY IInvHolds, OldestStep, PTL DEF Spec, OldestLeaves
<1>3. Spec => []ColdStaysLast
  BY <1>1, IInvHolds, PTL
<1>4. Spec => DirtyWrittenBack
  BY IInvHolds, DirtyStep, PTL DEF Spec, DirtyWrittenBack
<1> QED BY <1>2, <1>3, <1>4 DEF VictimsRight
=============================================================================
