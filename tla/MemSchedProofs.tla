--------------------------- MODULE MemSchedProofs ---------------------------
(***************************************************************************)
(* Proofs about MemSched, for any number of cores, any sizes of their      *)
(* reorder buffers and any walks: critical_mem_ops counts the reads an     *)
(* instruction waits for, no slot is given away before they are served,    *)
(* and the write queue outgrows its capacity by the walks of one turn at   *)
(* the most.                                                               *)
(***************************************************************************)
EXTENDS MemSched, DataLemmas, SequenceTheorems

-----------------------------------------------------------------------------
(* Cleaning a queue.                                                       *)

\* The requests of an owner that are not served, as indices of a queue.
Owned(q, o) == {i \in DOMAIN q : q[i].owner = o /\ ~q[i].served}

\* They are finitely many.
LEMMA OwnedFinite ==
  ASSUME NEW R, NEW q \in Seq(R), NEW o
  PROVE  IsFiniteSet(Owned(q, o)) /\ Cardinality(Owned(q, o)) \in Nat
<1>1. IsFiniteSet(1..Len(q)) /\ Owned(q, o) \subseteq 1..Len(q)
  BY FS_Interval DEF Owned
<1> QED BY <1>1, FS_Subset, FS_CardinalityType

\* Cleaning throws out the served requests, and only them.
LEMMA CleanKeeps ==
  ASSUME NEW R, NEW q \in Seq(R), NEW o
  PROVE  /\ Clean(q) \in Seq(R) /\ Len(Clean(q)) <= Len(q)
         /\ \A j \in DOMAIN Clean(q) : ~Clean(q)[j].served
         /\ Cardinality(Owned(Clean(q), o)) = Cardinality(Owned(q, o))
<1> DEFINE L == Len(q)
           K == KeptOf(q)
           Upto(m) == {i \in 1..m : q[i].owner = o /\ ~q[i].served}
           Good(m) == /\ Len(K[m]) <= m
                      /\ \A j \in DOMAIN K[m] : ~K[m][j].served
                      /\ Cardinality(Owned(K[m], o)) = Cardinality(Upto(m))
           B == {m \in Nat : m <= L => Good(m)}
<1>1. /\ K \in [0..L -> Seq(R)] /\ K[0] = <<>>
      /\ \A n \in 1..L : K[n] = IF q[n].served THEN K[n - 1] ELSE Append(K[n - 1], q[n])
  BY KeptRecursion
<1>2. L \in Nat /\ \A i \in 1..L : q[i] \in R
  OBVIOUS
<1> HIDE DEF K, L
<1>3. 0 \in B
  <2>1. Owned(<<>>, o) = {} /\ Upto(0) = {}
    BY DEF Owned
  <2>2. Len(K[0]) = 0 /\ DOMAIN K[0] = {}
    BY <1>1
  <2>3. Good(0)
    <3>1. Owned(K[0], o) = Upto(0)
      BY <1>1, <2>1
    <3> HIDE DEF Upto
    <3> QED BY <2>2, <3>1
  <2> HIDE DEF Good
  <2> QED BY <2>3
<1>4. ASSUME NEW m \in Nat, m \in B PROVE m + 1 \in B
  <2>1. ASSUME m + 1 <= L PROVE Good(m + 1)
    <3>1. Good(m)
      <4> HIDE DEF Good
      <4> QED BY <1>2, <1>4, <2>1
    <3>2. m + 1 \in 1..L /\ m \in 0..L
      BY <1>2, <2>1
    <3>3. /\ K[m] \in Seq(R) /\ q[m + 1] \in R
          /\ K[m + 1] = IF q[m + 1].served THEN K[m] ELSE Append(K[m], q[m + 1])
      <4>1. (m + 1) - 1 = m
        OBVIOUS
      <4> QED BY <1>1, <1>2, <3>2, <4>1
    <3>4. /\ IsFiniteSet(Owned(K[m], o)) /\ IsFiniteSet(Upto(m))
      <4>1. Upto(m) \subseteq 1..m /\ IsFiniteSet(1..m)
        BY FS_Interval
      <4> QED BY <3>3, <4>1, OwnedFinite, FS_Subset
    <3> DEFINE k == K[m]
               e == q[m + 1]
               n == Len(k)
    <3>5. Upto(m + 1) = IF e.owner = o /\ ~e.served THEN Upto(m) \cup {m + 1} ELSE Upto(m)
      BY <3>2
    <3>6. CASE e.served
      <4>1. K[m + 1] = K[m] /\ Upto(m + 1) = Upto(m)
        BY <3>3, <3>5, <3>6
      <4>2. Len(K[m]) \in Nat
        BY <3>3
      <4> HIDE DEF Upto, k, e, n
      <4> QED BY <3>1, <4>1, <4>2
    <3>7. CASE ~e.served
      <4>1. K[m + 1] = Append(k, e) /\ n \in Nat /\ k \in Seq(R) /\ e \in R
        BY <3>3, <3>7
      <4>2. /\ Len(K[m + 1]) = n + 1 /\ DOMAIN K[m + 1] = 1..(n + 1) /\ DOMAIN k = 1..n
            /\ K[m + 1][n + 1] = e /\ \A j \in 1..n : K[m + 1][j] = k[j]
        <5> HIDE DEF k, e
        <5> QED BY <4>1
      <4>3. Owned(K[m + 1], o) = IF e.owner = o THEN Owned(k, o) \cup {n + 1} ELSE Owned(k, o)
        <5> HIDE DEF k, e, n
        <5> QED BY <3>7, <4>1, <4>2 DEF Owned
      <4>4. n + 1 \notin Owned(k, o) /\ m + 1 \notin Upto(m)
        BY <4>1, <4>2 DEF Owned
      <4>5. Cardinality(Owned(K[m + 1], o)) = Cardinality(Upto(m + 1))
        <5>1. CASE e.owner = o
          <6>1. /\ Cardinality(Owned(k, o) \cup {n + 1}) = Cardinality(Owned(k, o)) + 1
                /\ Cardinality(Upto(m) \cup {m + 1}) = Cardinality(Upto(m)) + 1
            <7> HIDE DEF Upto, n
            <7> QED BY <3>4, <4>4, FS_AddElement
          <6> HIDE DEF Upto, e, k, n
          <6> QED BY <3>1, <3>5, <3>7, <4>3, <5>1, <6>1 DEF k
        <5>2. CASE e.owner # o
          <6> HIDE DEF Upto, e, k, n
          <6> QED BY <3>1, <3>5, <4>3, <5>2 DEF k
        <5> QED BY <5>1, <5>2
      <4>6. Len(K[m + 1]) <= m + 1 /\ \A j \in DOMAIN K[m + 1] : ~K[m + 1][j].served
        BY <3>1, <3>7, <4>1, <4>2
      <4> QED BY <4>5, <4>6
    <3> QED BY <3>6, <3>7
  <2> HIDE DEF Good
  <2> QED BY <2>1
<1>5. L \in B
  <2> HIDE DEF B
  <2>1. Nat \subseteq B
    BY <1>3, <1>4, ClosedSetHoldsNat
  <2> QED BY <1>2, <2>1
<1>6. Good(L)
  <2> HIDE DEF Good
  <2> QED BY <1>2, <1>5
<1>7. Upto(L) = Owned(q, o)
  BY DEF Owned, L
<1>8. Clean(q) = K[L] /\ K[L] \in Seq(R)
  <2>1. Clean(q) = K[L]
    BY DEF Clean, KeptOf, K, L
  <2> QED BY <1>1, <1>2, <2>1
<1> QED BY <1>6, <1>7, <1>8 DEF L

\* The requests of an owner in two queues put together.
LEMMA OwnedConcat ==
  ASSUME NEW R, NEW q \in Seq(R), NEW r \in Seq(R), NEW o
  PROVE  Owned(q \o r, o) = Owned(q, o) \cup {i + Len(q) : i \in Owned(r, o)}
<1> DEFINE n == Len(q)
           k == Len(r)
           t == q \o r
<1>1. n \in Nat /\ k \in Nat /\ DOMAIN q = 1..n /\ DOMAIN r = 1..k
  OBVIOUS
<1>2. /\ DOMAIN t = 1..(n + k)
      /\ \A i \in 1..n : t[i] = q[i]
      /\ \A i \in 1..k : t[i + n] = r[i]
  OBVIOUS
<1>3. \A i \in 1..(n + k) : i \in 1..n \/ (i - n \in 1..k /\ (i - n) + n = i)
  BY <1>1
<1>4. \A i \in 1..k : i + n \in 1..(n + k)
  BY <1>1
<1>5. \A i \in 1..n : i \in 1..(n + k)
  BY <1>1
<1> HIDE DEF n, k, t
<1>6. ASSUME NEW i \in Owned(t, o)
      PROVE  i \in Owned(q, o) \cup {j + n : j \in Owned(r, o)}
  <2>1. i \in 1..(n + k) /\ t[i].owner = o /\ ~t[i].served
    BY <1>2, <1>6 DEF Owned
  <2>2. CASE i \in 1..n
    BY <1>1, <1>2, <2>1, <2>2 DEF Owned
  <2>3. CASE i \notin 1..n
    <3>1. i - n \in 1..k /\ (i - n) + n = i
      BY <1>3, <2>1, <2>3
    <3>2. i - n \in Owned(r, o)
      BY <1>1, <1>2, <2>1, <3>1 DEF Owned
    <3> QED BY <3>1, <3>2
  <2> QED BY <2>2, <2>3
<1>7. ASSUME NEW i \in Owned(q, o) \cup {j + n : j \in Owned(r, o)}
      PROVE  i \in Owned(t, o)
  BY <1>1, <1>2, <1>4, <1>5 DEF Owned
<1> QED BY <1>6, <1>7 DEF n, t

\* Requests of nobody add nothing to what an instruction waits for.
LEMMA NobodyOwned ==
  ASSUME NEW R, NEW q \in Seq(R), NEW r \in Seq(R), NEW o,
         \A i \in DOMAIN r : r[i].owner # o
  PROVE  Owned(q \o r, o) = Owned(q, o)
<1>1. Owned(r, o) = {}
  BY DEF Owned
<1>2. {i + Len(q) : i \in Owned(r, o)} = {}
  BY <1>1
<1>3. Owned(q \o r, o) = Owned(q, o) \cup {i + Len(q) : i \in Owned(r, o)}
  BY OwnedConcat
<1> QED BY <1>2, <1>3

-----------------------------------------------------------------------------
(* Arithmetic.                                                             *)

\* The difference of two slots of a reorder buffer, and the sum of a slot and a
\* number of instructions.
LEMMA Slots ==
  ASSUME NEW s \in Slot, NEW h \in Slot
  PROVE  /\ (s - h) % RobSize = IF s >= h THEN s - h ELSE s - h + RobSize
         /\ \A n \in 0..(RobSize - 1) :
              (h + n) % RobSize = IF h + n < RobSize THEN h + n ELSE h + n - RobSize
         /\ (h + 1) % RobSize = IF h + 1 = RobSize THEN 0 ELSE h + 1
<1>1. ASSUME NEW n \in Nat \ {0}, NEW k \in 0..(n - 1) PROVE k % n = k
  BY Z3
<1>2. ASSUME NEW n \in Nat \ {0}, NEW k \in 0..(n - 1) PROVE (k + n) % n = k
  BY Z3
<1>3. ASSUME NEW n \in Nat \ {0}, NEW k \in 0..(n - 1) PROVE (k - n) % n = k
  BY Z3
<1>4. RobSize \in Nat \ {0} /\ s \in 0..(RobSize - 1) /\ h \in 0..(RobSize - 1)
  BY MemAssumption DEF Slot
<1>5. (s - h) % RobSize = IF s >= h THEN s - h ELSE s - h + RobSize
  <2>1. CASE s >= h
    BY <1>1, <1>4, <2>1
  <2>2. CASE ~(s >= h)
    <3>1. s - h + RobSize \in 0..(RobSize - 1) /\ (s - h + RobSize) - RobSize = s - h
      BY <1>4, <2>2
    <3> QED BY <1>3, <1>4, <2>2, <3>1
  <2> QED BY <2>1, <2>2
<1>6. ASSUME NEW n \in 0..RobSize, h + n < 2 * RobSize
      PROVE  (h + n) % RobSize = IF h + n < RobSize THEN h + n ELSE h + n - RobSize
  <2>1. CASE h + n < RobSize
    BY <1>1, <1>4, <2>1
  <2>2. CASE ~(h + n < RobSize)
    <3>1. h + n - RobSize \in 0..(RobSize - 1) /\ (h + n - RobSize) + RobSize = h + n
      BY <1>4, <1>6, <2>2
    <3> QED BY <1>2, <1>4, <2>2, <3>1
  <2> QED BY <2>1, <2>2
<1>7. (h + 1) % RobSize = IF h + 1 = RobSize THEN 0 ELSE h + 1
  <2>1. 1 \in 0..RobSize /\ h + 1 < 2 * RobSize
    BY <1>4
  <2>2. (h + 1) % RobSize = IF h + 1 < RobSize THEN h + 1 ELSE h + 1 - RobSize
    BY <1>6, <2>1
  <2> QED BY <1>4, <2>2
<1>8. ASSUME NEW n \in 0..(RobSize - 1)
      PROVE  (h + n) % RobSize = IF h + n < RobSize THEN h + n ELSE h + n - RobSize
  <2>1. n \in 0..RobSize /\ h + n < 2 * RobSize
    BY <1>4
  <2> QED BY <1>6, <2>1
<1> QED BY <1>5, <1>7, <1>8

\* More walks insert more.
LEMMA Scale ==
  ASSUME NEW a \in Nat, NEW b \in Nat, NEW k \in Nat, a <= b
  PROVE  a * k <= b * k /\ (a + 1) * k = a * k + k /\ a * k \in Nat
<1>1. (a + 1) * k = a * k + k
  BY Z3
<1>2. PICK d \in Nat : b = a + d
  <2>1. b - a \in Nat /\ b = a + (b - a)
    OBVIOUS
  <2> QED BY <2>1
<1>3. (a + d) * k = a * k + d * k
  BY Z3
<1>4. d * k \in Nat /\ a * k \in Nat
  BY Z3
<1> QED BY <1>1, <1>2, <1>3, <1>4

\* No walk writes more than the longest.
LEMMA Longest ==
  /\ LongestWalk \in Nat
  /\ \A w \in Walk : /\ w.critical \in Nat
                     /\ w.reads \in Seq(Line \cup {Meta}) /\ w.writes \in Seq(Line \cup {Meta})
                     /\ Len(w.writes) \in Nat /\ Len(w.writes) <= LongestWalk
<1> DEFINE f == [w \in Walk |-> Len(w.writes)]
           T == {f[w] : w \in Walk}
           S == T \cup {0}
<1>1. \A w \in Walk : /\ w.critical \in Nat /\ w.reads \in Seq(Line \cup {Meta})
                      /\ w.writes \in Seq(Line \cup {Meta}) /\ Len(w.writes) \in Nat
  BY MemAssumption
<1>2. {Len(w.writes) : w \in Walk} = T
  OBVIOUS
<1>3. S \subseteq Int /\ S # {} /\ 0 \in S /\ \A w \in Walk : Len(w.writes) \in S
  BY <1>1
<1>4. IsFiniteSet(S)
  <2>1. IsFiniteSet(Walk) /\ DOMAIN f = Walk
    BY MemAssumption
  <2> HIDE DEF f
  <2>2. IsFiniteSet(T)
    BY <2>1, FiniteRange
  <2> HIDE DEF T
  <2> QED BY <2>2, FS_AddElement
<1>5. LongestWalk = Max(S)
  BY <1>2 DEF LongestWalk
<1>6. Max(S) \in S /\ \A y \in S : y <= Max(S)
  <2> HIDE DEF S
  <2> QED BY <1>3, <1>4, MaxIsGreatest
<1> HIDE DEF S
<1>7. Max(S) \in Int /\ 0 <= Max(S)
  BY <1>3, <1>6
<1> QED BY <1>1, <1>3, <1>5, <1>6, <1>7

-----------------------------------------------------------------------------
(* What the operators do to a queue.                                       *)

\* New requests are requests, all of the owner, none of them served.
LEMMA NewRequests ==
  ASSUME NEW lines \in Seq(Line \cup {Meta}), NEW o \in (Core \X Slot) \cup {NoOwner}
  PROVE  /\ Requests(lines, o) \in Seq(RequestType)
         /\ Len(Requests(lines, o)) = Len(lines)
         /\ \A i \in DOMAIN Requests(lines, o) :
              Requests(lines, o)[i].owner = o /\ ~Requests(lines, o)[i].served
<1>1. Len(lines) \in Nat /\ DOMAIN lines = 1..Len(lines)
      /\ \A i \in 1..Len(lines) : lines[i] \in Line \cup {Meta}
  OBVIOUS
<1>2. \A l \in Line \cup {Meta} : Request(l, o) \in RequestType
                                  /\ Request(l, o).owner = o /\ ~Request(l, o).served
  BY DEF Request, RequestType
<1>3. \A i \in 1..Len(lines) : /\ Requests(lines, o)[i] \in RequestType
                               /\ Requests(lines, o)[i].owner = o
                               /\ ~Requests(lines, o)[i].served
  BY <1>1, <1>2 DEF Requests
<1>4. Requests(lines, o) \in [1..Len(lines) -> RequestType]
  <2>1. Requests(lines, o) = [i \in 1..Len(lines) |-> Request(lines[i], o)]
    BY <1>1 DEF Requests
  <2> QED BY <1>1, <1>2, <2>1
<1>5. Requests(lines, o) \in Seq(RequestType) /\ Len(Requests(lines, o)) = Len(lines)
      /\ DOMAIN Requests(lines, o) = 1..Len(lines)
  BY <1>1, <1>4
<1> QED BY <1>3, <1>5

\* A pass of the scheduler over a cleaned queue serves the reads that are
\* counted in ServedFor and no others.
LEMMA Passes ==
  ASSUME NEW q \in Seq(RequestType), NEW ready
  PROVE  /\ Pass(q, ready) \in Seq(RequestType) /\ Len(Pass(q, ready)) = Len(q)
         /\ (\A i \in DOMAIN q : ~q[i].served) =>
              \A c \in Core, s \in Slot :
                /\ Owned(Pass(q, ready), <<c, s>>) =
                     Owned(q, <<c, s>>) \ ServedFor(q, ready, c, s)
                /\ ServedFor(q, ready, c, s) \subseteq Owned(q, <<c, s>>)
<1> DEFINE p == Pass(q, ready)
<1>1. Len(q) \in Nat /\ DOMAIN q = 1..Len(q) /\ \A i \in 1..Len(q) : q[i] \in RequestType
  OBVIOUS
<1>2. DOMAIN p = 1..Len(q)
  BY <1>1 DEF Pass
<1>3. ASSUME NEW i \in 1..Len(q)
      PROVE  /\ p[i] \in RequestType /\ p[i].owner = q[i].owner
             /\ p[i].served <=> (q[i].served \/ (i \in ready /\ q[i].phase = 3))
  <2>1. q[i] \in RequestType /\ q[i].phase \in 1..3
    BY <1>1 DEF RequestType
  <2>2. p[i] = IF q[i].phase = 1 THEN [q[i] EXCEPT !.phase = 2]
               ELSE IF i \notin ready THEN q[i]
               ELSE IF q[i].phase = 2 THEN [q[i] EXCEPT !.phase = 3]
               ELSE [q[i] EXCEPT !.served = TRUE]
    BY <1>1 DEF Pass
  <2> HIDE DEF p
  <2>3. CASE q[i].phase = 1
    <3>1. p[i] = [q[i] EXCEPT !.phase = 2]
      BY <2>2, <2>3
    <3>2. p[i] \in RequestType /\ p[i].owner = q[i].owner /\ p[i].served = q[i].served
      BY <2>1, <3>1 DEF RequestType
    <3> QED BY <2>3, <3>2
  <2>4. CASE q[i].phase # 1 /\ i \notin ready
    BY <2>1, <2>2, <2>4 DEF RequestType
  <2>5. CASE i \in ready /\ q[i].phase = 2
    BY <2>1, <2>2, <2>5 DEF RequestType
  <2>6. CASE i \in ready /\ q[i].phase = 3
    <3>1. p[i] = [q[i] EXCEPT !.served = TRUE]
      BY <2>2, <2>6
    <3>2. p[i] \in RequestType /\ p[i].owner = q[i].owner
      BY <2>1, <3>1 DEF RequestType
    <3>3. p[i].served = TRUE
      BY <2>1, <3>1 DEF RequestType
    <3> QED BY <2>6, <3>2, <3>3, Zenon
  <2> QED BY <2>1, <2>3, <2>4, <2>5, <2>6
<1>4. p \in Seq(RequestType) /\ Len(p) = Len(q)
  <2>1. p = [i \in 1..Len(q) |-> p[i]]
    BY <1>1 DEF Pass
  <2> HIDE DEF p
  <2>2. p \in [1..Len(q) -> RequestType]
    BY <1>3, <2>1
  <2> QED BY <1>1, <2>2
<1>5. ASSUME \A i \in DOMAIN q : ~q[i].served, NEW c \in Core, NEW s \in Slot
      PROVE  /\ Owned(p, <<c, s>>) = Owned(q, <<c, s>>) \ ServedFor(q, ready, c, s)
             /\ ServedFor(q, ready, c, s) \subseteq Owned(q, <<c, s>>)
  <2> HIDE DEF p
  <2> QED BY <1>1, <1>2, <1>3, <1>5 DEF Owned, ServedFor
<1> QED BY <1>4, <1>5

-----------------------------------------------------------------------------
(* The invariant.                                                          *)

\* While cores may fetch, the write queue exceeds its capacity by no more than
\* the walks of the instructions fetched so far in this turn.
TurnBounded ==
  stage \in Core /\ ~writeqfull =>
    Len(writes) < WqCapacity + (stage * MaxFetch + numFetch) * LongestWalk

IInv == TypeOK /\ ReadsAwaited /\ QueueBounded /\ TurnBounded

\* The turn belongs to the memory or to retirement.
LEMMA Stages == Retiring \notin Core /\ AtMemory \notin Core /\ 0 \in Core
BY MemAssumption DEF Core, Retiring, AtMemory

\* Pending is what Owned says of the read queue.
LEMMA PendingOwned ==
  ASSUME NEW c, NEW s PROVE Pending(c, s) = Owned(reads, <<c, s>>)
BY DEF Pending, Owned

\* Cores may fetch again: the bound of the turn begins anew.
LEMMA OpenBounded ==
  ASSUME TypeOK, OpenFetch, writes' \in Seq(RequestType), Len(writes') <= Len(writes),
         QueueBounded
  PROVE  QueueBounded' /\ TurnBounded'
<1>1. Len(writes') \in Nat /\ Len(writes) \in Nat /\ LongestWalk \in Nat
      /\ WqCapacity \in Nat /\ NumCores \in Nat /\ MaxFetch \in Nat
  BY Longest, MemAssumption DEF TypeOK
<1>2. /\ stage' = 0 /\ numFetch' = 0 /\ writeqfull' = (Len(writes') >= WqCapacity)
  BY DEF OpenFetch, WqFull
<1>3. (0 * MaxFetch + 0) * LongestWalk = 0
  BY <1>1
<1>4. TurnBounded'
  <2>1. (stage' * MaxFetch + numFetch') * LongestWalk = 0
    BY <1>2, <1>3
  <2>2. ~writeqfull' => ~(Len(writes') >= WqCapacity)
    BY <1>2, Zenon
  <2> QED BY <1>1, <2>1, <2>2 DEF TurnBounded
<1>5. QueueBounded'
  <2> DEFINE b == WqCapacity + NumCores * MaxFetch * LongestWalk
  <2>1. b \in Int
    BY <1>1
  <2>2. Len(writes) <= b
    BY DEF QueueBounded
  <2> HIDE DEF b
  <2>3. Len(writes') <= b
    BY <1>1, <2>1, <2>2
  <2> QED BY <2>3 DEF QueueBounded, b
<1> QED BY <1>4, <1>5

\* A fetch inserts what one walk writes, and a write-back.
LEMMA FetchBounded ==
  ASSUME TypeOK, TurnBounded, NEW c \in Core, CanFetch(c), stage' = stage,
         numFetch' = numFetch + 1, writes' \in Seq(RequestType),
         \/ Len(writes') <= Len(writes) + LongestWalk /\ writeqfull' = writeqfull
         \/ /\ Len(writes') <= Len(writes) + 1 + LongestWalk
            /\ writeqfull' = (Len(writes') >= WqCapacity)
  PROVE  QueueBounded' /\ TurnBounded'
<1> DEFINE a == c * MaxFetch + numFetch
           k == LongestWalk
           m == NumCores * MaxFetch
<1>1. /\ Len(writes') \in Nat /\ Len(writes) \in Nat /\ k \in Nat /\ WqCapacity \in Nat
      /\ NumCores \in Nat /\ MaxFetch \in Nat /\ c \in Nat /\ c + 1 <= NumCores
      /\ numFetch \in Nat /\ numFetch + 1 <= MaxFetch /\ stage = c /\ ~writeqfull
  <2>1. stage = c /\ ~writeqfull /\ numFetch < MaxFetch /\ numFetch \in 0..MaxFetch
    BY DEF CanFetch, TypeOK
  <2>2. NumCores \in Nat /\ MaxFetch \in Nat /\ WqCapacity \in Nat /\ k \in Nat
    BY Longest, MemAssumption
  <2>3. c \in Nat /\ c + 1 <= NumCores
    BY <2>2 DEF Core
  <2>4. numFetch \in Nat /\ numFetch + 1 <= MaxFetch
    BY <2>1, <2>2
  <2>5. Len(writes') \in Nat /\ Len(writes) \in Nat
    BY DEF TypeOK
  <2> QED BY <2>1, <2>2, <2>3, <2>4, <2>5
<1>2. Len(writes) < WqCapacity + a * k
  BY <1>1 DEF TurnBounded
<1>3. a \in Nat /\ m \in Nat /\ a + 1 <= m
  <2>1. (c + 1) * MaxFetch = c * MaxFetch + MaxFetch /\ c * MaxFetch \in Nat
    BY <1>1, Scale
  <2>2. (c + 1) * MaxFetch <= m /\ m \in Nat
    <3>1. c + 1 \in Nat
      BY <1>1
    <3>2. (c + 1) * MaxFetch <= NumCores * MaxFetch
      BY <1>1, <3>1, Scale
    <3>3. NumCores * MaxFetch \in Nat
      BY <1>1, Scale
    <3> QED BY <3>2, <3>3
  <2> DEFINE x == c * MaxFetch
             y == (c + 1) * MaxFetch
  <2>3. x + numFetch \in Nat /\ x + numFetch + 1 <= m
    <3>1. x \in Nat /\ y = x + MaxFetch /\ y <= m /\ m \in Nat
      BY <2>1, <2>2
    <3> HIDE DEF x, y, m
    <3> QED BY <1>1, <3>1
  <2> QED BY <2>2, <2>3
<1> HIDE DEF a, m
<1>4. (a + 1) * k = a * k + k /\ a * k \in Nat
  <2> HIDE DEF k
  <2> QED BY <1>1, <1>3, Scale
<1>5. (a + 1) * k <= m * k /\ m * k \in Nat
  <2>1. a + 1 \in Nat
    BY <1>3
  <2> HIDE DEF k
  <2> QED BY <1>1, <1>3, <2>1, Scale
<1>6. a + 1 = c * MaxFetch + numFetch'
  <2>1. c * MaxFetch \in Int
    BY <1>1
  <2> QED BY <1>1, <2>1 DEF a
<1> DEFINE x == (a + 1) * k
           y == a * k
           z == m * k
<1>7. /\ Len(writes') <= WqCapacity + z
      /\ ~writeqfull' => Len(writes') < WqCapacity + x
  <2>1. x = y + k /\ y \in Nat /\ x <= z /\ z \in Nat /\ Len(writes) < WqCapacity + y
    BY <1>2, <1>4, <1>5
  <2> HIDE DEF x, y, z, k
  <2>2. CASE Len(writes') <= Len(writes) + k /\ writeqfull' = writeqfull
    BY <1>1, <2>1, <2>2
  <2>3. CASE Len(writes') <= Len(writes) + 1 + k /\ writeqfull' = (Len(writes') >= WqCapacity)
    <3>1. Len(writes') <= WqCapacity + z
      BY <1>1, <2>1, <2>3
    <3>2. ASSUME ~writeqfull' PROVE Len(writes') < WqCapacity + x
      <4>1. ~(Len(writes') >= WqCapacity)
        BY <2>3, <3>2, Zenon
      <4> QED BY <1>1, <2>1, <4>1
    <3> QED BY <3>1, <3>2
  <2> QED BY <2>2, <2>3 DEF k
<1>8. QueueBounded'
  BY <1>7 DEF QueueBounded, m
<1>9. TurnBounded'
  BY <1>1, <1>6, <1>7 DEF TurnBounded
<1> QED BY <1>8, <1>9

-----------------------------------------------------------------------------
(* The steps.                                                              *)

\* The slot at the tail is of no instruction in flight, so nothing is waited
\* for there.
LEMMA TailFree ==
  ASSUME IInv, NEW c \in Core, CanFetch(c)
  PROVE  /\ TailOf(c) \in Slot /\ ~InFlight(c, TailOf(c))
         /\ (TailOf(c) - head[c]) % RobSize = inflight[c]
         /\ inflight[c] \in 0..(RobSize - 1)
         /\ Owned(reads, <<c, TailOf(c)>>) = {} /\ critical[c][TailOf(c)] = 0
<1> DEFINE t == TailOf(c)
           h == head[c]
           n == inflight[c]
<1>1. /\ h \in Slot /\ n \in 0..(RobSize - 1) /\ RobSize \in Nat \ {0}
  BY MemAssumption DEF IInv, TypeOK, CanFetch
<1>2. t = IF h + n < RobSize THEN h + n ELSE h + n - RobSize
  BY <1>1, Slots DEF TailOf
<1>3. t \in Slot
  BY <1>1, <1>2 DEF Slot
<1>4. (t - h) % RobSize = IF t >= h THEN t - h ELSE t - h + RobSize
  BY <1>1, <1>3, Slots
<1>5. (t - h) % RobSize = n
  <2> DEFINE m == (t - h) % RobSize
  <2>1. m = (IF t >= h THEN t - h ELSE t - h + RobSize) /\ h \in 0..(RobSize - 1)
    BY <1>1, <1>4 DEF Slot
  <2> HIDE DEF m, t, h, n
  <2>2. m = n
    BY <1>1, <1>2, <2>1
  <2> QED BY <2>2 DEF m
<1>6. ~InFlight(c, t)
  BY <1>1, <1>5 DEF InFlight
<1>7. Owned(reads, <<c, t>>) = {} /\ critical[c][t] = 0
  <2>1. Pending(c, t) = {} /\ critical[c][t] = Cardinality(Pending(c, t))
    BY <1>3, <1>6 DEF IInv, ReadsAwaited, WaitsForReads, CriticalCounted
  <2> QED BY <2>1, FS_EmptySet, PendingOwned
<1> QED BY <1>1, <1>3, <1>5, <1>6, <1>7

\* An instruction that enters waits for the reads it puts into the queue.
LEMMA EnterKeeps ==
  ASSUME IInv, NEW c \in Core, CanFetch(c), NEW n \in Nat, Enter(c, n),
         reads' \in Seq(RequestType), writes' \in Seq(RequestType), writeqfull' \in BOOLEAN,
         \A d \in Core, s \in Slot :
           <<d, s>> # <<c, TailOf(c)>> => Owned(reads', <<d, s>>) = Owned(reads, <<d, s>>),
         Cardinality(Owned(reads', <<c, TailOf(c)>>)) = n,
         QueueBounded' /\ TurnBounded'
  PROVE  IInv'
<1> DEFINE t == TailOf(c)
<1>1. TypeOK /\ CriticalCounted /\ WaitsForReads
  BY DEF IInv, ReadsAwaited
<1>2. /\ t \in Slot /\ (t - head[c]) % RobSize = inflight[c]
      /\ inflight[c] \in 0..(RobSize - 1) /\ critical[c][t] = 0
  BY TailFree
<1>3. /\ inflight' = [inflight EXCEPT ![c] = inflight[c] + 1]
      /\ waiting' = [waiting EXCEPT ![c] = [waiting[c] EXCEPT ![t] = n > 0]]
      /\ critical' = [critical EXCEPT ![c] = [critical[c] EXCEPT ![t] = critical[c][t] + n]]
      /\ numFetch' = numFetch + 1 /\ finished' \in {finished, finished \cup {c}}
      /\ UNCHANGED <<head, drain, stage, exptDone>>
  BY DEF Enter
<1> HIDE DEF t
<1>4. /\ inflight \in [Core -> 0..RobSize] /\ waiting \in [Core -> [Slot -> BOOLEAN]]
      /\ critical \in [Core -> [Slot -> Nat]] /\ numFetch < MaxFetch
      /\ numFetch \in 0..MaxFetch
  BY <1>1 DEF TypeOK, CanFetch
<1>5. /\ inflight' \in [Core -> 0..RobSize] /\ inflight'[c] = inflight[c] + 1
      /\ \A d \in Core : d # c => inflight'[d] = inflight[d]
  <2>1. inflight[c] + 1 \in 0..RobSize
    BY <1>2, MemAssumption
  <2> QED BY <1>3, <1>4, <2>1
<1>6. /\ waiting' \in [Core -> [Slot -> BOOLEAN]] /\ waiting'[c][t] = (n > 0)
      /\ \A d \in Core, s \in Slot : <<d, s>> # <<c, t>> => waiting'[d][s] = waiting[d][s]
  <2>1. (n > 0) \in BOOLEAN
    OBVIOUS
  <2> DEFINE w == [waiting[c] EXCEPT ![t] = n > 0]
  <2>2. w \in [Slot -> BOOLEAN] /\ w[t] = (n > 0) /\ \A s \in Slot : s # t => w[s] = waiting[c][s]
    BY <1>2, <1>4, <2>1
  <2>3. waiting' = [waiting EXCEPT ![c] = w]
    BY <1>3
  <2> HIDE DEF w
  <2>4. /\ waiting' \in [Core -> [Slot -> BOOLEAN]] /\ waiting'[c] = w
        /\ \A d \in Core : d # c => waiting'[d] = waiting[d]
    BY <1>4, <2>2, <2>3
  <2> QED BY <2>2, <2>4
<1>7. /\ critical' \in [Core -> [Slot -> Nat]] /\ critical'[c][t] = n
      /\ \A d \in Core, s \in Slot : <<d, s>> # <<c, t>> => critical'[d][s] = critical[d][s]
  <2> DEFINE w == [critical[c] EXCEPT ![t] = n]
  <2>1. w \in [Slot -> Nat] /\ w[t] = n /\ \A s \in Slot : s # t => w[s] = critical[c][s]
    BY <1>2, <1>4
  <2>2. critical[c][t] + n = n
    BY <1>2
  <2>3. critical' = [critical EXCEPT ![c] = w]
    BY <1>3, <2>2
  <2> HIDE DEF w
  <2>4. /\ critical' \in [Core -> [Slot -> Nat]] /\ critical'[c] = w
        /\ \A d \in Core : d # c => critical'[d] = critical[d]
    BY <1>4, <2>1, <2>3
  <2> QED BY <2>1, <2>4
<1>8. TypeOK'
  <2>1. numFetch' \in 0..MaxFetch /\ finished' \in SUBSET Core
    BY <1>1, <1>3, <1>4, MemAssumption DEF TypeOK
  <2> QED BY <1>1, <1>3, <1>5, <1>6, <1>7, <2>1 DEF TypeOK
<1>9. ASSUME NEW d \in Core, NEW s \in Slot
      PROVE  /\ critical'[d][s] = Cardinality(Pending(d, s)')
             /\ waiting'[d][s] <=> Pending(d, s)' # {}
             /\ waiting'[d][s] => InFlight(d, s)'
  <2>1. Pending(d, s)' = Owned(reads', <<d, s>>) /\ Pending(d, s) = Owned(reads, <<d, s>>)
    BY DEF Pending, Owned
  <2>2. /\ critical[d][s] = Cardinality(Pending(d, s))
        /\ waiting[d][s] <=> Pending(d, s) # {}
        /\ waiting[d][s] => InFlight(d, s)
    BY <1>1 DEF CriticalCounted, WaitsForReads
  <2>3. InFlight(d, s) => InFlight(d, s)'
    <3>1. (s - head[d]) % RobSize \in Int
      <4>1. head[d] \in Slot
        BY <1>1 DEF TypeOK
      <4>2. (s - head[d]) % RobSize = IF s >= head[d] THEN s - head[d] ELSE s - head[d] + RobSize
        BY <4>1, Slots
      <4> QED BY <4>1, <4>2, MemAssumption DEF Slot
    <3>2. inflight[d] \in Int /\ (inflight'[d] = inflight[d] \/ inflight'[d] = inflight[d] + 1)
      BY <1>4, <1>5
    <3> QED BY <1>3, <3>1, <3>2 DEF InFlight
  <2>4. CASE <<d, s>> = <<c, t>>
    <3>1. Cardinality(Pending(d, s)') = n
      BY <2>1, <2>4 DEF t
    <3>2. n > 0 <=> Pending(d, s)' # {}
      <4>1. IsFiniteSet(Pending(d, s)')
        BY <2>1, OwnedFinite
      <4> QED BY <3>1, <4>1, FS_EmptySet
    <3>3. InFlight(d, s)'
      BY <1>2, <1>3, <1>5, <2>4 DEF InFlight
    <3>4. waiting'[d][s] <=> n > 0
      BY <1>6, <2>4, Zenon
    <3> QED BY <1>7, <2>4, <3>1, <3>2, <3>3, <3>4
  <2>5. CASE <<d, s>> # <<c, t>>
    <3>1. Pending(d, s)' = Pending(d, s)
      BY <2>1, <2>5 DEF t
    <3>2. critical'[d][s] = critical[d][s] /\ waiting'[d][s] = waiting[d][s]
      BY <1>6, <1>7, <2>5
    <3> QED BY <2>2, <2>3, <3>1, <3>2
  <2> QED BY <2>4, <2>5
<1>10. ReadsAwaited'
  BY <1>9 DEF ReadsAwaited, CriticalCounted, WaitsForReads
<1> QED BY <1>8, <1>10 DEF IInv

\* An instruction that retires waits for nothing, and the others stay.
LEMMA RetireKeeps ==
  ASSUME IInv, NEW c \in Core, Retire(c)
  PROVE  IInv'
<1>1. TypeOK /\ CriticalCounted /\ WaitsForReads
  BY DEF IInv, ReadsAwaited
<1>2. /\ head' = [head EXCEPT ![c] = (head[c] + 1) % RobSize]
      /\ inflight' = [inflight EXCEPT ![c] = inflight[c] - 1]
      /\ inflight[c] > 0 /\ ~waiting[c][head[c]]
      /\ UNCHANGED <<reads, writes, drain, waiting, critical, stage, numFetch>>
      /\ UNCHANGED <<writeqfull, finished, exptDone>>
  BY DEF Retire, MayRetire, queues, loop
<1>3. head[c] \in Slot /\ inflight[c] \in 0..RobSize /\ RobSize \in Nat \ {0}
  BY <1>1, MemAssumption DEF TypeOK
<1>4. (head[c] + 1) % RobSize = IF head[c] + 1 = RobSize THEN 0 ELSE head[c] + 1
  BY <1>3, Slots
<1>5. (head[c] + 1) % RobSize \in Slot /\ inflight[c] - 1 \in 0..RobSize
  BY <1>2, <1>3, <1>4 DEF Slot
<1>6. /\ head' \in [Core -> Slot] /\ inflight' \in [Core -> 0..RobSize]
      /\ head'[c] = (head[c] + 1) % RobSize /\ inflight'[c] = inflight[c] - 1
      /\ \A d \in Core : d # c => head'[d] = head[d] /\ inflight'[d] = inflight[d]
  BY <1>1, <1>2, <1>5 DEF TypeOK
<1>7. TypeOK'
  BY <1>1, <1>2, <1>6 DEF TypeOK
<1>8. ASSUME NEW d \in Core, NEW s \in Slot, waiting[d][s]
      PROVE  InFlight(d, s)'
  <2>1. InFlight(d, s)
    BY <1>1, <1>8 DEF WaitsForReads
  <2>2. CASE d # c
    BY <1>6, <2>1, <2>2 DEF InFlight
  <2>3. CASE d = c
    <3>1. s # head[c] /\ head'[c] \in Slot
      BY <1>2, <1>5, <1>6, <1>8, <2>3
    <3>2. (s - head[c]) % RobSize = IF s >= head[c] THEN s - head[c] ELSE s - head[c] + RobSize
      BY <1>3, Slots
    <3>3. (s - head'[c]) % RobSize =
            IF s >= head'[c] THEN s - head'[c] ELSE s - head'[c] + RobSize
      BY <3>1, Slots
    <3>4. (s - head'[c]) % RobSize = ((s - head[c]) % RobSize) - 1
      <4> DEFINE x == (s - head[c]) % RobSize
                 y == (s - head'[c]) % RobSize
                 g == head'[c]
                 h == head[c]
      <4>1. /\ x = (IF s >= h THEN s - h ELSE s - h + RobSize)
            /\ y = (IF s >= g THEN s - g ELSE s - g + RobSize)
            /\ g = (IF h + 1 = RobSize THEN 0 ELSE h + 1) /\ s # h
            /\ s \in 0..(RobSize - 1) /\ h \in 0..(RobSize - 1)
        BY <1>3, <1>4, <1>6, <3>1, <3>2, <3>3 DEF Slot
      <4> HIDE DEF x, y, g, h
      <4>2. y = x - 1
        BY <1>3, <4>1
      <4> QED BY <4>2 DEF x, y
    <3>5. (s - head[c]) % RobSize \in Int
      BY <1>3, <3>2 DEF Slot
    <3> QED BY <1>3, <1>6, <2>1, <2>3, <3>4, <3>5 DEF InFlight
  <2> QED BY <2>2, <2>3
<1>9. ReadsAwaited'
  <2>1. \A d \in Core, s \in Slot : Pending(d, s)' = Pending(d, s)
    BY <1>2 DEF Pending
  <2> QED BY <1>1, <1>2, <1>8, <2>1 DEF ReadsAwaited, CriticalCounted, WaitsForReads
<1>10. QueueBounded' /\ TurnBounded'
  BY <1>2 DEF IInv, QueueBounded, TurnBounded
<1> QED BY <1>7, <1>9, <1>10 DEF IInv

\* Draining writes leaves the reads where they are.
LEMMA DrainKeeps ==
  ASSUME IInv, NEW ready, DrainWrites(ready)
  PROVE  IInv'
<1>1. TypeOK /\ CriticalCounted /\ WaitsForReads /\ QueueBounded
  BY DEF IInv, ReadsAwaited
<1>2. /\ drain' = TRUE /\ reads' = Clean(reads) /\ writes' = Pass(Clean(writes), ready)
      /\ OpenFetch /\ UNCHANGED <<head, inflight, waiting, critical>>
  BY DEF DrainWrites, rob
<1>3. reads \in Seq(RequestType) /\ writes \in Seq(RequestType)
  BY <1>1 DEF TypeOK
<1>4. /\ reads' \in Seq(RequestType)
      /\ \A o : Cardinality(Owned(reads', o)) = Cardinality(Owned(reads, o))
  BY <1>2, <1>3, CleanKeeps
<1>5. writes' \in Seq(RequestType) /\ Len(writes') <= Len(writes)
  <2>1. Clean(writes) \in Seq(RequestType) /\ Len(Clean(writes)) <= Len(writes)
    BY <1>3, CleanKeeps
  <2> QED BY <1>2, <2>1, Passes
<1>6. TypeOK'
  <2>1. /\ stage' \in Core /\ numFetch' \in 0..MaxFetch /\ writeqfull' \in BOOLEAN
        /\ finished' = finished /\ exptDone' = exptDone
    BY <1>2, Stages, MemAssumption DEF OpenFetch, WqFull
  <2> QED BY <1>1, <1>2, <1>4, <1>5, <2>1 DEF TypeOK
<1>7. ASSUME NEW c \in Core, NEW s \in Slot
      PROVE  /\ Cardinality(Pending(c, s)') = Cardinality(Pending(c, s))
             /\ Pending(c, s)' = {} <=> Pending(c, s) = {}
  <2>1. Pending(c, s)' = Owned(reads', <<c, s>>) /\ Pending(c, s) = Owned(reads, <<c, s>>)
    BY DEF Pending, Owned
  <2>2. IsFiniteSet(Pending(c, s)') /\ IsFiniteSet(Pending(c, s))
    BY <1>3, <1>4, <2>1, OwnedFinite
  <2> QED BY <1>4, <2>1, <2>2, FS_EmptySet
<1>8. ReadsAwaited'
  <2>1. \A c \in Core, s \in Slot : InFlight(c, s)' = InFlight(c, s)
    BY <1>2 DEF InFlight
  <2> QED BY <1>1, <1>2, <1>7, <2>1 DEF ReadsAwaited, CriticalCounted, WaitsForReads
<1> QED BY <1>1, <1>2, <1>5, <1>6, <1>8, OpenBounded DEF IInv

\* Serving reads takes each from what its instruction waits for, and wakes the
\* instruction with the last.
LEMMA ServeKeeps ==
  ASSUME IInv, NEW ready, ServeReads(ready)
  PROVE  IInv'
<1> DEFINE q == Clean(reads)
           S(c, s) == ServedFor(q, ready, c, s)
<1>1. TypeOK /\ CriticalCounted /\ WaitsForReads /\ QueueBounded
  BY DEF IInv, ReadsAwaited
<1>2. /\ drain' = FALSE /\ reads' = Pass(q, ready) /\ writes' = Clean(writes)
      /\ OpenFetch /\ UNCHANGED <<head, inflight>>
      /\ critical' = [c \in Core |-> [s \in Slot |-> critical[c][s] - Cardinality(S(c, s))]]
      /\ waiting' = [c \in Core |-> [s \in Slot |-> waiting[c][s] /\ ~Wakes(q, ready, c, s)]]
  BY DEF ServeReads
<1>3. reads \in Seq(RequestType) /\ writes \in Seq(RequestType)
  BY <1>1 DEF TypeOK
<1>4. /\ q \in Seq(RequestType) /\ \A j \in DOMAIN q : ~q[j].served
      /\ \A o : Cardinality(Owned(q, o)) = Cardinality(Owned(reads, o))
  BY <1>3, CleanKeeps
<1>5. writes' \in Seq(RequestType) /\ Len(writes') <= Len(writes)
  BY <1>2, <1>3, CleanKeeps
<1>6. /\ reads' \in Seq(RequestType)
      /\ \A c \in Core, s \in Slot :
           /\ Owned(reads', <<c, s>>) = Owned(q, <<c, s>>) \ S(c, s)
           /\ S(c, s) \subseteq Owned(q, <<c, s>>)
  <2> HIDE DEF q
  <2> QED BY <1>2, <1>4, Passes
<1> HIDE DEF q, S
<1>7. ASSUME NEW c \in Core, NEW s \in Slot
      PROVE  /\ critical'[c][s] \in Nat /\ critical'[c][s] = Cardinality(Pending(c, s)')
             /\ waiting'[c][s] \in BOOLEAN
             /\ waiting'[c][s] <=> Pending(c, s)' # {}
             /\ waiting'[c][s] => InFlight(c, s)'
  <2> DEFINE P == Owned(q, <<c, s>>)
             k == Cardinality(P)
             m == Cardinality(S(c, s))
  <2>1. Pending(c, s)' = P \ S(c, s) /\ S(c, s) \subseteq P /\ IsFiniteSet(P)
        /\ IsFiniteSet(S(c, s))
    <3>1. Pending(c, s)' = Owned(reads', <<c, s>>)
      BY DEF Pending, Owned
    <3> QED BY <1>4, <1>6, <3>1, OwnedFinite, FS_Subset
  <2>2. /\ critical[c][s] = k /\ (waiting[c][s] <=> P # {})
        /\ waiting[c][s] => InFlight(c, s)
        /\ waiting[c][s] \in BOOLEAN
    <3>1. Pending(c, s) = Owned(reads, <<c, s>>) /\ IsFiniteSet(Owned(reads, <<c, s>>))
      BY <1>3, PendingOwned, OwnedFinite
    <3>2. Cardinality(Pending(c, s)) = k /\ (Pending(c, s) = {} <=> P = {})
      BY <1>4, <2>1, <3>1, FS_EmptySet
    <3>3. /\ critical[c][s] = Cardinality(Pending(c, s))
          /\ (waiting[c][s] <=> Pending(c, s) # {}) /\ (waiting[c][s] => InFlight(c, s))
      BY <1>1 DEF CriticalCounted, WaitsForReads
    <3>4. waiting[c][s] \in BOOLEAN
      BY <1>1 DEF TypeOK
    <3> HIDE DEF P, k
    <3> QED BY <3>2, <3>3, <3>4
  <2>3. /\ k \in Nat /\ m \in Nat /\ m <= k /\ Cardinality(P \ S(c, s)) = k - m
        /\ IsFiniteSet(P \ S(c, s))
    <3> HIDE DEF P
    <3>1. Cardinality(P \ S(c, s)) = k - Cardinality(P \cap S(c, s)) /\ P \cap S(c, s) = S(c, s)
      BY <2>1, FS_Difference
    <3>2. k \in Nat /\ m \in Nat /\ m <= k
      BY <2>1, FS_CardinalityType, FS_Subset
    <3> QED BY <2>1, <3>1, <3>2, FS_Difference
  <2>4. critical'[c][s] = k - m
    BY <1>2, <2>2
  <2>5. waiting'[c][s] = (waiting[c][s] /\ ~(S(c, s) # {} /\ k = m))
    <3>1. waiting'[c][s] = (waiting[c][s] /\ ~Wakes(q, ready, c, s))
      BY <1>2
    <3>2. Wakes(q, ready, c, s) <=> (S(c, s) # {} /\ critical[c][s] = m)
      BY DEF Wakes, S
    <3> QED BY <2>2, <3>1, <3>2
  <2>6. /\ P \ S(c, s) = {} <=> k = m
        /\ P = {} <=> k = 0
        /\ S(c, s) = {} <=> m = 0
    <3> HIDE DEF P
    <3> QED BY <2>1, <2>3, FS_EmptySet
  <2>7. (waiting[c][s] /\ ~(S(c, s) # {} /\ k = m)) <=> P \ S(c, s) # {}
    <3> HIDE DEF P, k, m
    <3> QED BY <2>2, <2>3, <2>6
  <2>8. waiting'[c][s] => InFlight(c, s)'
    BY <1>2, <2>2, <2>5 DEF InFlight
  <2>9. waiting'[c][s] <=> Pending(c, s)' # {}
    BY <2>1, <2>5, <2>7
  <2>10. waiting'[c][s] \in BOOLEAN
    BY <2>5
  <2> QED BY <2>1, <2>3, <2>4, <2>8, <2>9, <2>10
<1>8. TypeOK'
  <2>1. /\ stage' \in Core /\ numFetch' \in 0..MaxFetch /\ writeqfull' \in BOOLEAN
        /\ finished' = finished /\ exptDone' = exptDone
    BY <1>2, Stages, MemAssumption DEF OpenFetch, WqFull
  <2>2. critical' \in [Core -> [Slot -> Nat]]
    BY <1>2, <1>7
  <2>3. waiting' \in [Core -> [Slot -> BOOLEAN]]
    BY <1>2, <1>7
  <2> QED BY <1>1, <1>2, <1>5, <1>6, <2>1, <2>2, <2>3 DEF TypeOK
<1>9. ReadsAwaited'
  BY <1>7 DEF ReadsAwaited, CriticalCounted, WaitsForReads
<1> QED BY <1>1, <1>2, <1>5, <1>8, <1>9, OpenBounded DEF IInv

\* No memory access, or one that hits in the cache.
LEMMA DoneKeeps ==
  ASSUME IInv, NEW c \in Core, FetchDone(c)
  PROVE  IInv'
<1>1. CanFetch(c) /\ Enter(c, 0) /\ UNCHANGED <<reads, writes, writeqfull>>
  BY DEF FetchDone
<1>2. TypeOK /\ TurnBounded /\ stage' = stage /\ numFetch' = numFetch + 1
  BY <1>1 DEF IInv, Enter
<1>3. reads' \in Seq(RequestType) /\ writes' \in Seq(RequestType) /\ writeqfull' \in BOOLEAN
  BY <1>1, <1>2 DEF TypeOK
<1>4. QueueBounded' /\ TurnBounded'
  <2>1. Len(writes') <= Len(writes) + LongestWalk
    BY <1>1, <1>3, Longest
  <2> QED BY <1>1, <1>2, <1>3, <2>1, FetchBounded
<1>5. Cardinality(Owned(reads', <<c, TailOf(c)>>)) = 0
  BY <1>1, TailFree, FS_EmptySet
<1> QED BY <1>1, <1>3, <1>4, <1>5, EnterKeeps

\* What a walk inserts besides is nobody's.
LEMMA Inserted ==
  ASSUME IInv, NEW c \in Core, NEW w \in Walk, NEW r \in Seq(RequestType),
         NEW v \in Seq(RequestType), Insert(r, v, w)
  PROVE  /\ reads' \in Seq(RequestType) /\ writes' \in Seq(RequestType)
         /\ Len(writes') <= Len(v) + LongestWalk
         /\ \A d \in Core, s \in Slot : Owned(reads', <<d, s>>) = Owned(r, <<d, s>>)
<1> DEFINE x == Requests(w.reads, NoOwner)
           y == Requests(w.writes, NoOwner)
<1>1. reads' = r \o x /\ writes' = v \o y
  BY DEF Insert
<1>2. w.reads \in Seq(Line \cup {Meta}) /\ w.writes \in Seq(Line \cup {Meta})
      /\ Len(w.writes) <= LongestWalk
  BY Longest
<1>3. /\ x \in Seq(RequestType) /\ \A i \in DOMAIN x : x[i].owner = NoOwner
      /\ y \in Seq(RequestType) /\ Len(y) = Len(w.writes)
  <2>1. NoOwner \in (Core \X Slot) \cup {NoOwner}
    OBVIOUS
  <2>2. /\ x \in Seq(RequestType) /\ \A i \in DOMAIN x : x[i].owner = NoOwner
    BY <1>2, <2>1, NewRequests
  <2>3. y \in Seq(RequestType) /\ Len(y) = Len(w.writes)
    BY <1>2, <2>1, NewRequests
  <2> QED BY <2>2, <2>3
<1> HIDE DEF x, y
<1>4. ASSUME NEW d \in Core, NEW s \in Slot
      PROVE  Owned(reads', <<d, s>>) = Owned(r, <<d, s>>)
  <2>1. NoOwner # <<d, s>>
    BY DEF NoOwner
  <2>2. \A i \in DOMAIN x : x[i].owner # <<d, s>>
    BY <1>3, <2>1
  <2>3. Owned(r \o x, <<d, s>>) = Owned(r, <<d, s>>)
    BY <1>3, <2>2, NobodyOwned
  <2> QED BY <1>1, <2>3
<1>5. Len(writes') <= Len(v) + LongestWalk
  <2>1. Len(writes') = Len(v) + Len(y) /\ Len(v) \in Nat /\ Len(y) \in Nat /\ LongestWalk \in Nat
    <3>1. Len(v \o y) = Len(v) + Len(y)
      BY <1>3, ConcatProperties
    <3>2. Len(v) \in Nat /\ Len(y) \in Nat
      BY <1>3, LenProperties
    <3> QED BY <1>1, <3>1, <3>2, Longest
  <2> QED BY <1>2, <1>3, <2>1
<1>6. reads' \in Seq(RequestType) /\ writes' \in Seq(RequestType)
  BY <1>1, <1>3, ConcatProperties
<1> QED BY <1>4, <1>5, <1>6

\* A read that is merged with one under way waits for nothing.
LEMMA MergedKeeps ==
  ASSUME IInv, NEW c \in Core, NEW line \in Line, NEW w \in Walk, FetchMerged(c, line, w)
  PROVE  IInv'
<1> DEFINE r == Joined(line, <<c, TailOf(c)>>)
<1>1. CanFetch(c) /\ Enter(c, 0) /\ Insert(r, writes, w) /\ writeqfull' = writeqfull
  BY DEF FetchMerged
<1>2. TypeOK /\ TurnBounded /\ stage' = stage /\ numFetch' = numFetch + 1
  BY <1>1 DEF IInv, Enter
<1>3. /\ reads \in Seq(RequestType) /\ writes \in Seq(RequestType)
      /\ writeqfull' \in BOOLEAN /\ TailOf(c) \in Slot
  BY <1>1, <1>2, TailFree DEF TypeOK
<1>4. /\ r \in Seq(RequestType) /\ \A o : Owned(r, o) = Owned(reads, o)
  <2>1. CASE r = reads
    BY <1>3, <2>1
  <2>2. CASE r # reads
    <3> DEFINE k == FirstQueued(reads, line)
               e == [reads[k] EXCEPT !.joined = reads[k].joined \cup {<<c, TailOf(c)>>}]
    <3>1. r = [reads EXCEPT ![k] = e]
      BY <2>2 DEF Joined
    <3>2. k \in DOMAIN reads
      <4> HIDE DEF k, e
      <4> QED BY <1>3, <2>2, <3>1
    <3>3. /\ reads[k] \in RequestType /\ e \in RequestType
          /\ e.owner = reads[k].owner /\ e.served = reads[k].served
      <4>1. reads[k] \in RequestType
        BY <1>3, <3>2
      <4>2. <<c, TailOf(c)>> \in Core \X Slot
        BY <1>3
      <4> DEFINE p == <<c, TailOf(c)>>
                 a == reads[k]
      <4> HIDE DEF k, p, a
      <4>3. a.joined \cup {p} \in SUBSET (Core \X Slot) /\ a \in RequestType
        BY <4>1, <4>2 DEF RequestType, p, a
      <4> DEFINE j == a.joined \cup {p}
      <4> HIDE DEF j
      <4>4. /\ [a EXCEPT !.joined = j] \in RequestType
            /\ [a EXCEPT !.joined = j].owner = a.owner
            /\ [a EXCEPT !.joined = j].served = a.served
        BY <4>3 DEF RequestType, j
      <4> QED BY <4>1, <4>4 DEF a, p, j
    <3> HIDE DEF k, e, r
    <3>4. /\ r \in Seq(RequestType) /\ DOMAIN r = DOMAIN reads
          /\ \A i \in DOMAIN reads : r[i].owner = reads[i].owner /\ r[i].served = reads[i].served
      BY <1>3, <3>1, <3>2, <3>3
    <3> QED BY <3>4 DEF Owned
  <2> QED BY <2>1, <2>2
<1> HIDE DEF r
<1>5. /\ reads' \in Seq(RequestType) /\ writes' \in Seq(RequestType)
      /\ Len(writes') <= Len(writes) + LongestWalk
      /\ \A d \in Core, s \in Slot : Owned(reads', <<d, s>>) = Owned(reads, <<d, s>>)
  BY <1>1, <1>3, <1>4, Inserted
<1>6. QueueBounded' /\ TurnBounded'
  BY <1>1, <1>2, <1>5, FetchBounded
<1>7. Cardinality(Owned(reads', <<c, TailOf(c)>>)) = 0
  BY <1>1, <1>3, <1>5, TailFree, FS_EmptySet
<1> QED BY <1>1, <1>3, <1>5, <1>6, <1>7, EnterKeeps

\* A read waits for its data and for the lines of its walk that it needs.
LEMMA ReadKeeps ==
  ASSUME IInv, NEW c \in Core, NEW line \in Line, NEW w \in Walk, FetchRead(c, line, w)
  PROVE  IInv'
<1> DEFINE o == <<c, TailOf(c)>>
           lines == <<line>> \o [i \in 1..w.critical |-> Meta]
           x == Requests(lines, o)
           n == Critical(w)
<1>1. /\ CanFetch(c) /\ Enter(c, n) /\ writeqfull' = writeqfull
      /\ Insert(reads \o <<Request(line, o)>> \o [i \in 1..w.critical |-> Request(Meta, o)],
                writes, w)
  BY DEF FetchRead
<1>2. TypeOK /\ TurnBounded /\ stage' = stage /\ numFetch' = numFetch + 1
  BY <1>1 DEF IInv, Enter
<1>3. /\ reads \in Seq(RequestType) /\ writes \in Seq(RequestType)
      /\ writeqfull' \in BOOLEAN /\ o \in (Core \X Slot) \cup {NoOwner}
      /\ Owned(reads, o) = {}
  BY <1>1, <1>2, TailFree DEF TypeOK
<1>4. w.critical \in Nat /\ n = w.critical + 1 /\ n \in Nat
  BY Longest DEF Critical
<1> HIDE DEF n, o
<1>5. /\ lines \in Seq(Line \cup {Meta}) /\ Len(lines) = n
      /\ lines[1] = line /\ \A i \in 2..n : lines[i] = Meta
  <2> DEFINE m == [i \in 1..w.critical |-> Meta]
  <2>1. m \in Seq(Line \cup {Meta}) /\ Len(m) = w.critical /\ \A i \in 1..w.critical : m[i] = Meta
    BY <1>4
  <2>2. <<line>> \in Seq(Line \cup {Meta}) /\ Len(<<line>>) = 1 /\ <<line>>[1] = line
    OBVIOUS
  <2> HIDE DEF m
  <2>3. <<line>> \o m \in Seq(Line \cup {Meta}) /\ Len(<<line>> \o m) = n
        /\ (<<line>> \o m)[1] = line
    BY <1>4, <2>1, <2>2
  <2>4. ASSUME NEW i \in 2..n PROVE (<<line>> \o m)[i] = Meta
    <3>1. i - 1 \in 1..w.critical /\ i \in 1..n /\ i > 1
      BY <1>4
    <3>2. (<<line>> \o m)[i] = m[i - 1]
      BY <1>4, <2>1, <2>2, <3>1
    <3> QED BY <2>1, <3>1, <3>2
  <2> QED BY <2>3, <2>4 DEF m
<1>6. /\ x \in Seq(RequestType) /\ Len(x) = n
      /\ \A i \in DOMAIN x : x[i].owner = o /\ ~x[i].served
  <2> HIDE DEF lines
  <2> QED BY <1>3, <1>5, NewRequests
<1>7. reads \o <<Request(line, o)>> \o [i \in 1..w.critical |-> Request(Meta, o)] = reads \o x
  <2> DEFINE m == [i \in 1..w.critical |-> Request(Meta, o)]
             y == <<Request(line, o)>>
  <2>1. Request(line, o) \in RequestType /\ Request(Meta, o) \in RequestType
    BY <1>3 DEF Request, RequestType
  <2>2. m \in Seq(RequestType) /\ Len(m) = w.critical
        /\ \A i \in 1..w.critical : m[i] = Request(Meta, o)
    BY <1>4, <2>1
  <2>3. y \in Seq(RequestType) /\ Len(y) = 1 /\ y[1] = Request(line, o)
    BY <2>1
  <2>4. x = [i \in 1..n |-> Request(lines[i], o)]
    <3> HIDE DEF lines
    <3>1. DOMAIN lines = 1..n
      BY <1>5
    <3> QED BY <3>1 DEF Requests
  <2> HIDE DEF m, y, x, lines
  <2>5. y \o m = x
    <3>1. /\ Len(y \o m) = n /\ y \o m \in Seq(RequestType)
          /\ \A i \in 1..n : (y \o m)[i] = IF i <= 1 THEN y[i] ELSE m[i - 1]
      <4>1. /\ Len(y \o m) = Len(y) + Len(m) /\ y \o m \in Seq(RequestType)
            /\ \A i \in 1..(Len(y) + Len(m)) :
                 (y \o m)[i] = IF i <= Len(y) THEN y[i] ELSE m[i - Len(y)]
        BY <2>2, <2>3, ConcatProperties
      <4>2. Len(y) = 1 /\ Len(m) = w.critical /\ Len(y) + Len(m) = n
        BY <1>4, <2>2, <2>3
      <4> QED BY <4>1, <4>2
    <3>2. ASSUME NEW i \in 1..n PROVE (y \o m)[i] = x[i]
      <4>1. CASE i = 1
        <5>1. (y \o m)[i] = y[1] /\ x[i] = Request(lines[1], o)
          BY <2>4, <3>1, <4>1
        <5> QED BY <1>5, <2>3, <5>1
      <4>2. CASE i # 1
        <5>1. i - 1 \in 1..w.critical /\ i \in 2..n
          BY <1>4, <4>2
        <5>2. (y \o m)[i] = m[i - 1]
          BY <1>4, <3>1, <5>1
        <5> QED BY <1>5, <2>2, <2>4, <5>1, <5>2
      <4> QED BY <4>1, <4>2
    <3>3. x \in Seq(RequestType) /\ Len(x) = n
      BY <1>6
    <3> DEFINE z == y \o m
    <3> HIDE DEF z
    <3>4. z \in Seq(RequestType) /\ Len(z) = n /\ \A i \in 1..n : z[i] = x[i]
      BY <3>1, <3>2 DEF z
    <3>5. z = x
      BY <3>3, <3>4, SeqEqual
    <3> QED BY <3>5 DEF z
  <2>6. (reads \o y) \o m = reads \o (y \o m)
    <3>1. reads \in Seq(RequestType) /\ y \in Seq(RequestType) /\ m \in Seq(RequestType)
      BY <1>3, <2>2, <2>3
    <3> QED BY <3>1, ConcatAssociative
  <2> QED BY <2>5, <2>6 DEF y, m
<1> DEFINE r == reads \o x
           k == Len(reads)
<1>8. Insert(r, writes, w) /\ r \in Seq(RequestType)
  <2>1. Insert(r, writes, w)
    BY <1>1, <1>7
  <2> HIDE DEF x
  <2>2. r \in Seq(RequestType)
    BY <1>3, <1>6, ConcatProperties
  <2> QED BY <2>1, <2>2
<1>9. /\ \A p : Owned(r, p) = Owned(reads, p) \cup {i + k : i \in Owned(x, p)}
  <2> HIDE DEF x
  <2> QED BY <1>3, <1>6, OwnedConcat
<1>10. Owned(x, o) = 1..n /\ \A p : p # o => Owned(x, p) = {}
  <2> HIDE DEF x
  <2> QED BY <1>4, <1>6 DEF Owned
<1> HIDE DEF x, r
<1>11. Owned(r, o) = (k + 1)..(k + n)
  <2>1. {i + k : i \in 1..n} = (k + 1)..(k + n)
    <3>1. k \in Nat
      BY <1>3
    <3> HIDE DEF k
    <3>2. \A j \in (k + 1)..(k + n) : j - k \in 1..n /\ (j - k) + k = j
      BY <1>4, <3>1
    <3> QED BY <1>4, <3>1, <3>2
  <2> QED BY <1>3, <1>9, <1>10, <2>1
<1>12. \A p : p # o => Owned(r, p) = Owned(reads, p)
  BY <1>9, <1>10
<1>13. Cardinality((k + 1)..(k + n)) = n
  <2>1. k \in Nat
    BY <1>3
  <2> HIDE DEF k
  <2> QED BY <1>4, <2>1, FS_Interval
<1>14. /\ reads' \in Seq(RequestType) /\ writes' \in Seq(RequestType)
       /\ Len(writes') <= Len(writes) + LongestWalk
       /\ \A d \in Core, s \in Slot : Owned(reads', <<d, s>>) = Owned(r, <<d, s>>)
  BY <1>3, <1>8, Inserted
<1>15. QueueBounded' /\ TurnBounded'
  BY <1>1, <1>2, <1>14, FetchBounded
<1>16. Cardinality(Owned(reads', <<c, TailOf(c)>>)) = n
  BY <1>1, <1>11, <1>13, <1>14, TailFree DEF o
<1>17. \A d \in Core, s \in Slot :
         <<d, s>> # <<c, TailOf(c)>> => Owned(reads', <<d, s>>) = Owned(reads, <<d, s>>)
  BY <1>12, <1>14 DEF o
<1> QED BY <1>1, <1>3, <1>4, <1>14, <1>15, <1>16, <1>17, EnterKeeps

\* A write waits for nothing, but may fill the queue.
LEMMA WriteKeeps ==
  ASSUME IInv, NEW c \in Core, NEW line \in Line, NEW w \in Walk, FetchWrite(c, line, w)
  PROVE  IInv'
<1>1. CanFetch(c) /\ Enter(c, 0) /\ writeqfull' = (Len(writes') >= WqCapacity)
  BY DEF FetchWrite
<1>2. TypeOK /\ TurnBounded /\ stage' = stage /\ numFetch' = numFetch + 1
  BY <1>1 DEF IInv, Enter
<1>3. reads \in Seq(RequestType) /\ writes \in Seq(RequestType) /\ writeqfull' \in BOOLEAN
  BY <1>1, <1>2 DEF TypeOK
<1>4. /\ reads' \in Seq(RequestType) /\ writes' \in Seq(RequestType)
      /\ Len(writes') <= Len(writes) + 1 + LongestWalk
      /\ \A d \in Core, s \in Slot : Owned(reads', <<d, s>>) = Owned(reads, <<d, s>>)
  <2>1. CASE WriteBack(line, w)
    <3> DEFINE v == writes \o <<Request(line, NoOwner)>>
    <3>1. Insert(reads, v, w)
      BY <2>1 DEF WriteBack
    <3>2. Request(line, NoOwner) \in RequestType
      BY DEF Request, RequestType
    <3>3. v \in Seq(RequestType) /\ Len(v) = Len(writes) + 1
      <4> HIDE DEF RequestType
      <4> QED BY <1>3, <3>2
    <3> HIDE DEF v
    <3> QED BY <1>3, <3>1, <3>3, Inserted
  <2>2. CASE NoWriteBack(line)
    <3>1. reads' = reads /\ writes' = writes
      BY <2>2 DEF NoWriteBack
    <3>2. Len(writes) \in Nat
      BY <1>3
    <3> QED BY <1>3, <3>1, <3>2, Longest
  <2> QED BY <2>1, <2>2 DEF FetchWrite
<1>5. QueueBounded' /\ TurnBounded'
  BY <1>1, <1>2, <1>4, FetchBounded
<1>6. Cardinality(Owned(reads', <<c, TailOf(c)>>)) = 0
  BY <1>1, <1>4, TailFree, FS_EmptySet
<1> QED BY <1>1, <1>3, <1>4, <1>5, <1>6, EnterKeeps

\* The turn goes on to the next core, or to the memory.
LEMMA TurnKeeps ==
  ASSUME IInv, UNCHANGED <<reads, writes, drain, rob, finished>>, TypeOK',
         QueueBounded' /\ TurnBounded'
  PROVE  IInv'
<1>1. head' = head /\ inflight' = inflight /\ waiting' = waiting /\ critical' = critical
  BY DEF rob
<1>2. ReadsAwaited'
  <2>1. \A c \in Core, s \in Slot : /\ Pending(c, s)' = Pending(c, s)
                                    /\ InFlight(c, s)' = InFlight(c, s)
    BY <1>1 DEF Pending, InFlight
  <2>2. ReadsAwaited
    BY DEF IInv
  <2> QED BY <1>1, <2>1, <2>2 DEF ReadsAwaited, CriticalCounted, WaitsForReads
<1> QED BY <1>2 DEF IInv

\* The next core begins with a bound that the one before has not used up.
LEMMA EndFetchKeeps ==
  ASSUME IInv, NEW c \in Core, EndFetch(c)
  PROVE  IInv'
<1>1. /\ stage = c /\ numFetch' = 0
      /\ UNCHANGED <<reads, writes, drain, rob, writeqfull, finished>>
      /\ \/ c + 1 \in Core /\ stage' = c + 1 /\ exptDone' = exptDone
         \/ stage' = Retiring /\ exptDone' = (finished = Core)
  BY DEF EndFetch, queues
<1>2. TypeOK /\ QueueBounded /\ TurnBounded
  BY DEF IInv
<1>3. TypeOK'
  <2>1. stage' \in Core \cup {Retiring, AtMemory}
    BY <1>1
  <2>2. numFetch' \in 0..MaxFetch
    BY <1>1, MemAssumption
  <2>3. exptDone' \in BOOLEAN
    <3>1. exptDone \in BOOLEAN
      BY <1>2 DEF TypeOK
    <3> QED BY <1>1, <3>1, Zenon
  <2> QED BY <1>1, <1>2, <2>1, <2>2, <2>3 DEF TypeOK, rob
<1>4. QueueBounded'
  BY <1>1, <1>2 DEF QueueBounded
<1>5. TurnBounded'
  <2>1. CASE stage' = Retiring
    BY <2>1, Stages DEF TurnBounded
  <2>2. CASE stage' = c + 1 /\ c + 1 \in Core
    <3> DEFINE a == c * MaxFetch + numFetch
               b == (c + 1) * MaxFetch + 0
               k == LongestWalk
    <3>1. /\ c \in Nat /\ MaxFetch \in Nat /\ numFetch \in Nat /\ numFetch <= MaxFetch
          /\ k \in Nat /\ Len(writes) \in Nat /\ WqCapacity \in Nat
      BY <1>2, Longest, MemAssumption DEF TypeOK, Core
    <3>2. a \in Nat /\ b \in Nat /\ a <= b
      <4> DEFINE x == c * MaxFetch
                 y == (c + 1) * MaxFetch
      <4>1. x \in Nat /\ y = x + MaxFetch
        BY <3>1, Scale
      <4> HIDE DEF x, y
      <4>2. x + numFetch \in Nat /\ y + 0 \in Nat /\ x + numFetch <= y + 0
        BY <3>1, <4>1
      <4> QED BY <4>2 DEF x, y
    <3> HIDE DEF a, b
    <3>3. a * k <= b * k /\ a * k \in Nat /\ b * k \in Nat
      <4> HIDE DEF k
      <4> QED BY <3>1, <3>2, Scale
    <3>4. ASSUME ~writeqfull PROVE Len(writes) < WqCapacity + b * k
      <4>1. Len(writes) < WqCapacity + a * k
        BY <1>1, <1>2, <3>4 DEF TurnBounded, a
      <4> DEFINE x == a * k
                 y == b * k
      <4>2. x <= y /\ x \in Nat /\ y \in Nat /\ Len(writes) < WqCapacity + x
        BY <3>3, <4>1
      <4> HIDE DEF x, y
      <4>3. Len(writes) < WqCapacity + y
        BY <3>1, <4>2
      <4> QED BY <4>3 DEF y
    <3>5. b = stage' * MaxFetch + numFetch'
      BY <1>1, <2>2 DEF b
    <3> QED BY <1>1, <3>4, <3>5 DEF TurnBounded
  <2> QED BY <1>1, <2>1, <2>2
<1> QED BY <1>1, <1>3, <1>4, <1>5, TurnKeeps

-----------------------------------------------------------------------------
(* The theorems.                                                           *)

\* The queues are empty and nothing is in flight.
LEMMA InitHolds == Init => IInv
<1> SUFFICES ASSUME Init PROVE IInv
  OBVIOUS
<1>1. TypeOK
  <2>1. 0 \in Slot /\ 0 \in 0..RobSize /\ 0 \in Nat /\ 0 \in 0..MaxFetch
    BY MemAssumption DEF Slot
  <2>2. reads \in Seq(RequestType) /\ writes \in Seq(RequestType)
    <3> HIDE DEF RequestType
    <3> QED BY DEF Init
  <2>3. /\ head \in [Core -> Slot] /\ inflight \in [Core -> 0..RobSize]
        /\ waiting \in [Core -> [Slot -> BOOLEAN]] /\ critical \in [Core -> [Slot -> Nat]]
    BY <2>1 DEF Init
  <2>4. drain \in BOOLEAN /\ writeqfull \in BOOLEAN /\ exptDone \in BOOLEAN
    BY DEF Init
  <2>5. /\ stage \in Core \cup {Retiring, AtMemory} /\ numFetch \in 0..MaxFetch
        /\ finished \in SUBSET Core
    BY <2>1 DEF Init
  <2> QED BY <2>2, <2>3, <2>4, <2>5 DEF TypeOK
<1>2. \A c \in Core, s \in Slot : Pending(c, s) = {} /\ critical[c][s] = 0 /\ ~waiting[c][s]
  BY DEF Init, Pending
<1>3. ReadsAwaited
  BY <1>2, FS_EmptySet DEF ReadsAwaited, CriticalCounted, WaitsForReads
<1>4. QueueBounded /\ TurnBounded
  <2>1. Len(writes) = 0 /\ stage \notin Core
    BY Stages DEF Init
  <2>2. NumCores * MaxFetch * LongestWalk \in Nat
    <3>1. NumCores * MaxFetch \in Nat
      BY MemAssumption, Scale
    <3> DEFINE m == NumCores * MaxFetch
    <3> HIDE DEF m
    <3>2. m * LongestWalk \in Nat
      BY <3>1, Longest, Scale DEF m
    <3> QED BY <3>2 DEF m
  <2> QED BY <2>1, <2>2, MemAssumption DEF QueueBounded, TurnBounded
<1> QED BY <1>1, <1>3, <1>4 DEF IInv

\* Every step keeps the invariant.
LEMMA NextKeeps == IInv /\ [Next]_vars => IInv'
<1> SUFFICES ASSUME IInv, [Next]_vars PROVE IInv'
  OBVIOUS
<1>1. ASSUME EndRetire PROVE IInv'
  <2>1. stage' = AtMemory /\ UNCHANGED <<reads, writes, drain, rob, numFetch, writeqfull>>
        /\ UNCHANGED <<finished, exptDone>>
    BY <1>1 DEF EndRetire, queues
  <2>2. TypeOK' /\ QueueBounded' /\ TurnBounded'
    BY <2>1, Stages DEF IInv, TypeOK, QueueBounded, TurnBounded, rob
  <2> QED BY <2>1, <2>2, TurnKeeps
<1>2. ASSUME SkipMemory PROVE IInv'
  <2>1. UNCHANGED <<reads, writes, drain, rob>> /\ OpenFetch
    BY <1>2 DEF SkipMemory, queues
  <2>2. writes' \in Seq(RequestType) /\ Len(writes') <= Len(writes)
    BY <2>1 DEF IInv, TypeOK
  <2>3. TypeOK'
    <3>1. stage' \in Core /\ numFetch' \in 0..MaxFetch /\ writeqfull' \in BOOLEAN
          /\ UNCHANGED <<finished, exptDone>>
      BY <2>1, Stages, MemAssumption DEF OpenFetch, WqFull
    <3> QED BY <2>1, <3>1 DEF IInv, TypeOK, rob
  <2>4. QueueBounded' /\ TurnBounded'
    BY <2>1, <2>2, OpenBounded DEF IInv
  <2>5. finished' = finished
    BY <2>1 DEF OpenFetch
  <2> QED BY <2>1, <2>3, <2>4, <2>5, TurnKeeps
<1>3. ASSUME Memory PROVE IInv'
  BY <1>3, DrainKeeps, ServeKeeps DEF Memory
<1>4. ASSUME NEW c \in Core, Retire(c) PROVE IInv'
  BY <1>4, RetireKeeps
<1>5. ASSUME NEW c \in Core, Fetch(c) PROVE IInv'
  BY <1>5, DoneKeeps, MergedKeeps, ReadKeeps, WriteKeeps DEF Fetch
<1>6. ASSUME NEW c \in Core, EndFetch(c) PROVE IInv'
  BY <1>6, EndFetchKeeps
<1>7. ASSUME UNCHANGED vars PROVE IInv'
  <2>1. /\ UNCHANGED <<reads, writes, drain, rob, finished>>
        /\ UNCHANGED <<stage, numFetch, writeqfull, exptDone>>
    BY <1>7 DEF vars, rob
  <2>2. TypeOK' /\ QueueBounded' /\ TurnBounded'
    BY <2>1 DEF IInv, TypeOK, QueueBounded, TurnBounded, rob
  <2> QED BY <2>1, <2>2, TurnKeeps
<1> QED BY <1>1, <1>2, <1>3, <1>4, <1>5, <1>6, <1>7 DEF Next

\* The write queue, which is looked at only at the start of a turn and when a
\* write is queued, outgrows WQ_CAPACITY by the walks of one turn at the most
\* (main's writeqfull and the inserts of memory_controller.c).
THEOREM QueuesStayBounded == Spec => []QueuesBounded
<1>1. IInv => QueuesBounded
  BY DEF IInv, QueuesBounded
<1> QED BY InitHolds, NextKeeps, <1>1, PTL DEF Spec

\* critical_mem_ops is the number of reads an instruction waits for, it waits as
\* long as there are any, and keeps its slot as long as it waits (schedule,
\* main's retirement).
THEOREM ReadsAreAwaited == Spec => []ReadsAwaited
<1>1. IInv => ReadsAwaited
  BY DEF IInv
<1> QED BY InitHolds, NextKeeps, <1>1, PTL DEF Spec
=============================================================================
