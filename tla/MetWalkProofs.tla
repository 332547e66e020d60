--------------------------- MODULE MetWalkProofs ---------------------------
(***************************************************************************)
(* Proofs about MetWalk, for every tree and every cache: whatever is       *)
(* evicted while a walk is under way, write-backs are accounted for and no *)
(* counter of a data line is lost.                                         *)
(***************************************************************************)
EXTENDS MetWalk, SequenceTheorems, DataLemmas

(***************************************************************************)
(* How often a call occurs in a stack.                                     *)
(***************************************************************************)

Count(s, c) == Cardinality({k \in 1..Len(s) : s[k] = c})

\* A stack with a call on top, and the stack without it.
LEMMA FrontLast ==
  ASSUME NEW S, NEW s \in Seq(S), s # <<>>
  PROVE  /\ Len(s) \in Nat /\ 1 <= Len(s)
         /\ Last(s) \in S /\ Last(s) = s[Len(s)]
         /\ Front(s) \in Seq(S)
         /\ Len(Front(s)) = Len(s) - 1
         /\ \A k \in 1..Len(Front(s)) : Front(s)[k] = s[k]
<1>1. Len(s) \in Nat /\ 1 <= Len(s)
  BY EmptySeq, LenProperties
<1>2. \A k \in 1..Len(s) : s[k] \in S
  BY ElementOfSeq
<1>3. Len(s) \in 1..Len(s) /\ Len(s) - 1 \in Int
  BY <1>1
<1>4. /\ SubSeq(s, 1, Len(s) - 1) \in Seq(S)
      /\ Len(SubSeq(s, 1, Len(s) - 1)) =
           IF 1 <= Len(s) - 1 THEN Len(s) - 1 - 1 + 1 ELSE 0
      /\ \A k \in 1..(Len(s) - 1 - 1 + 1) :
           SubSeq(s, 1, Len(s) - 1)[k] = s[1 + k - 1]
  <2>1. \A k \in 1..(Len(s) - 1) : s[k] \in S
    BY <1>1, <1>2
  <2> QED
    BY <2>1, <1>3, SubSeqProperties
<1>5. Front(s) \in Seq(S) /\ Len(Front(s)) = Len(s) - 1
  <2>1. Front(s) = SubSeq(s, 1, Len(s) - 1)
    BY DEF Front
  <2>2. \A n \in Nat : 1 <= n =>
                (IF 1 <= n - 1 THEN n - 1 - 1 + 1 ELSE 0) = n - 1
    OBVIOUS
  <2>3. (IF 1 <= Len(s) - 1 THEN Len(s) - 1 - 1 + 1 ELSE 0) = Len(s) - 1
    BY <1>1, <2>2
  <2>4. Len(SubSeq(s, 1, Len(s) - 1)) = Len(s) - 1
    BY <1>4, <2>3
  <2> QED
    BY <1>4, <2>1, <2>4
<1>6. \A k \in 1..Len(Front(s)) : Front(s)[k] = s[k]
  BY <1>1, <1>4, <1>5 DEF Front
<1>7. Last(s) \in S /\ Last(s) = s[Len(s)]
  BY <1>2, <1>3 DEF Last
<1> QED
  BY <1>1, <1>5, <1>6, <1>7

LEMMA CountNat ==
  ASSUME NEW S, NEW s \in Seq(S), NEW c
  PROVE  /\ IsFiniteSet({k \in 1..Len(s) : s[k] = c})
         /\ Count(s, c) \in Nat
<1>1. IsFiniteSet(1..Len(s))
  BY LenProperties, FS_Interval
<1>2. IsFiniteSet({k \in 1..Len(s) : s[k] = c})
  BY <1>1, FS_Subset
<1> QED
  BY <1>2, FS_CardinalityType DEF Count

\* Calling d adds one to the occurrences of d.
LEMMA CountAppend ==
  ASSUME NEW S, NEW s \in Seq(S), NEW d \in S, NEW c
  PROVE  /\ d = c => Count(Append(s, d), c) = Count(s, c) + 1
         /\ d # c => Count(Append(s, d), c) = Count(s, c)
<1> DEFINE K == {k \in 1..Len(s) : s[k] = c}
           L == {k \in 1..Len(Append(s, d)) : Append(s, d)[k] = c}
<1>1. /\ Len(s) \in Nat
      /\ Len(Append(s, d)) = Len(s) + 1
      /\ \A k \in 1..Len(s) : Append(s, d)[k] = s[k]
      /\ Append(s, d)[Len(s) + 1] = d
  BY LenProperties
<1>2. IsFiniteSet(K) /\ Count(s, c) = Cardinality(K) /\ Cardinality(K) \in Nat
  BY CountNat DEF Count
<1>2a. Count(Append(s, d), c) = Cardinality(L)
  BY DEF Count
<1>3. CASE d = c
  <2>1. L = K \cup {Len(s) + 1} /\ Len(s) + 1 \notin K
    BY <1>1, <1>3
  <2>2. Cardinality(L) = Cardinality(K) + 1
    BY <2>1, <1>2, FS_AddElement
  <2> QED
    BY <2>2, <1>2, <1>2a, <1>3
<1>4. CASE d # c
  <2>1. L = K
    BY <1>1, <1>4
  <2> QED
    BY <2>1, <1>2, <1>2a, <1>4
<1> QED
  BY <1>3, <1>4

\* A stack is the one its running call returns to, and that call.
LEMMA FrontAndLast ==
  ASSUME NEW S, NEW s \in Seq(S), s # <<>>
  PROVE  s = Append(Front(s), Last(s))
<1>1. Front(s) \in Seq(S) /\ Last(s) \in S
  BY FrontLast
<1>2. Append(Front(s), Last(s)) \in Seq(S)
  BY <1>1
<1>3. Len(Append(Front(s), Last(s))) = Len(s)
  BY <1>1, FrontLast
<1>4. \A k \in 1..Len(s) : s[k] = Append(Front(s), Last(s))[k]
  BY <1>1, FrontLast
<1> QED
  BY <1>2, <1>3, <1>4, SeqEqual

\* Returning from the running call takes one occurrence of it away.
LEMMA CountFront ==
  ASSUME NEW S, NEW s \in Seq(S), s # <<>>, NEW c
  PROVE  /\ Last(s) = c => Count(s, c) = Count(Front(s), c) + 1
         /\ Last(s) # c => Count(s, c) = Count(Front(s), c)
<1>1. Front(s) \in Seq(S) /\ Last(s) \in S
  BY FrontLast
<1>2. s = Append(Front(s), Last(s))
  BY FrontAndLast
<1>3. LET t == Append(Front(s), Last(s))
      IN  /\ Last(s) = c => Count(t, c) = Count(Front(s), c) + 1
          /\ Last(s) # c => Count(t, c) = Count(Front(s), c)
  BY <1>1, CountAppend
<1> QED
  BY <1>2, <1>3

(***************************************************************************)
(* The shape of the state: dirty lines are metadata lines, the stack holds *)
(* calls, and counters are kept for the lines that have one.               *)
(***************************************************************************)

Shape ==
  /\ dirty \subseteq Node
  /\ stack \in Seq(Calls)
  /\ reread \in Seq(Node)
  /\ owed \in [Counted -> Int]
  /\ stale \subseteq Counted

LEMMA CallTypes ==
  /\ \A n \in Node : Call("read", n) \in Calls /\ Call("write", n) \in Calls
  /\ \A x \in Counted : Call("update", x) \in Calls
  BY DEF Call, Calls

\* The line an evicted line's counter is in, if it is counted.
LEMMA ParentOf ==
  /\ \A x \in Line : Parent[x] = Root <=> x \notin Counted
  /\ \A x \in Counted : x \in Line /\ Parent[x] \in Node
  /\ Data \subseteq Counted
  /\ Node \subseteq Line
  BY TreeAssumption DEF Counted, Line

LEMMA CallsPushed ==
  ASSUME NEW S, NEW s \in Seq(S), NEW a \in S, NEW b \in S, NEW c \in S
  PROVE  s \o <<a, b, c>> = Append(Append(Append(s, a), b), c)
<1>1. s \o <<a, b, c>> \in Seq(S)
  BY ConcatProperties
<1>2. Append(Append(Append(s, a), b), c) \in Seq(S)
  OBVIOUS
<1>3. /\ Len(s) \in Nat
      /\ Len(s \o <<a, b, c>>) = Len(s) + 3
      /\ Len(Append(Append(Append(s, a), b), c)) = Len(s) + 3
  BY LenProperties
<1>4. \A k \in 1..(Len(s) + 3) :
        (s \o <<a, b, c>>)[k] = Append(Append(Append(s, a), b), c)[k]
  BY <1>3
<1> QED
  BY <1>1, <1>2, <1>3, <1>4, SeqEqual

\* What installing a line does to the stack: nothing is written, or a line
\* whose counter is in the root, or one whose counter is in a node.
LEMMA InstallCases ==
  ASSUME Shape,
         NEW n \in Node, NEW asDirty, NEW rest \in Seq(Calls),
         Install(n, asDirty, rest)
  PROVE  \/ /\ Victims(n) \cap dirty = {}
            /\ stack' = rest
         \/ \E v \in Node \ Counted :
              /\ Victims(n) \cap dirty = {v}
              /\ stack' = rest
         \/ \E v \in Node \cap Counted :
              /\ Victims(n) \cap dirty = {v}
              /\ stack' = Append(Append(Append(rest, Call("update", v)),
                                        Call("write", Parent[v])),
                                 Call("read", Parent[v]))
<1> DEFINE written == Victims(n) \cap dirty
<1>1. CASE written = {}
  BY <1>1 DEF Install
<1>2. CASE written # {}
  <2>1. PICK v : written = {v} /\ v \in dirty
    BY <1>2 DEF Victims
  <2>2. v \in Node
    BY <2>1 DEF Shape
  <2>3. (CHOOSE u \in written : TRUE) = v
    BY <2>1
  <2>4. stack' = rest \o WritebackCalls(v)
    BY <1>2, <2>3 DEF Install
  <2>5. CASE Parent[v] = Root
    <3>1. v \notin Counted
      BY <2>2, <2>5, ParentOf
    <3>2. WritebackCalls(v) = <<>>
      BY <2>5 DEF WritebackCalls
    <3>3. stack' = rest
      BY <2>4, <3>2, ConcatEmptySeq
    <3> QED
      BY <2>1, <2>2, <3>1, <3>3
  <2>6. CASE Parent[v] # Root
    <3>1. v \in Counted /\ Parent[v] \in Node
      BY <2>2, <2>6, ParentOf
    <3>2. WritebackCalls(v) = <<Call("update", v), Call("write", Parent[v]),
                                Call("read", Parent[v])>>
      BY <2>6 DEF WritebackCalls
    <3>3. stack' = Append(Append(Append(rest, Call("update", v)),
                                 Call("write", Parent[v])),
                          Call("read", Parent[v]))
      BY <2>4, <3>1, <3>2, CallTypes, CallsPushed
    <3> QED
      BY <2>1, <2>2, <3>1, <3>3
  <2> QED
    BY <2>5, <2>6
<1> QED
  BY <1>1, <1>2

\* Installing a line keeps the shape.
LEMMA InstallShape ==
  ASSUME Shape,
         NEW n \in Node, NEW asDirty \in BOOLEAN, NEW rest \in Seq(Calls),
         Install(n, asDirty, rest)
  PROVE  Shape'
<1>1. dirty' \subseteq Node
  BY DEF Install, Shape
<1>2. stack' \in Seq(Calls)
  <2>1. CASE stack' = rest
    BY <2>1
  <2>2. CASE \E v \in Node \cap Counted :
               stack' = Append(Append(Append(rest, Call("update", v)),
                                      Call("write", Parent[v])),
                               Call("read", Parent[v]))
    BY <2>2, CallTypes, ParentOf
  <2> QED
    BY <2>1, <2>2, InstallCases
<1>3. owed' \in [Counted -> Int]
  <2>1. \A x \in Counted : owed[x] \in Int
    BY DEF Shape
  <2> QED
    BY <2>1 DEF Install
<1>4. stale' \subseteq Counted /\ reread' \in Seq(Node)
  BY DEF Install, Shape
<1> QED
  BY <1>1, <1>2, <1>3, <1>4 DEF Shape

\* The calls left when the running one returns or goes on with the parent.
LEMMA Returning ==
  ASSUME Shape, NEW op, NEW x, Runs(op, x)
  PROVE  /\ stack # <<>> /\ Last(stack) = Call(op, x)
         /\ Front(stack) \in Seq(Calls)
  BY FrontLast DEF Runs, Running, Shape

LEMMA ReadingOn ==
  ASSUME Shape, NEW n \in Node, Runs("read", n)
  PROVE  (IF Parent[n] = Root THEN Front(stack)
          ELSE Append(Front(stack), Call("read", Parent[n]))) \in Seq(Calls)
<1>1. Front(stack) \in Seq(Calls)
  BY Returning
<1>2. Parent[n] # Root => Parent[n] \in Node
  BY ParentOf
<1> QED
  BY <1>1, <1>2, CallTypes

LEMMA ShapeInit == Init => Shape
  BY DEF Init, Shape

LEMMA ShapeStep == Shape /\ [Next]_vars => Shape'
<1> SUFFICES ASSUME Shape, [Next]_vars PROVE Shape'
  OBVIOUS
<1>1. ASSUME NEW n \in Node, ReadHit(n) PROVE Shape'
  BY <1>1, Returning DEF ReadHit, Shape
<1>2. ASSUME NEW n \in Node, ReadMiss(n) PROVE Shape'
  <2>1. Runs("read", n)
    BY <1>2 DEF ReadMiss
  <2> QED
    BY <1>2, <2>1, ReadingOn, InstallShape DEF ReadMiss
<1>3. ASSUME NEW n \in Node, WriteHit(n) PROVE Shape'
  BY <1>3, Returning DEF WriteHit, Dirtied, Shape
<1>4. ASSUME NEW n \in Node, WriteMiss(n) PROVE Shape'
  BY <1>4, Returning, InstallShape DEF WriteMiss
<1>5. ASSUME NEW x \in Counted, Update(x) PROVE Shape'
  <2>1. Front(stack) \in Seq(Calls)
    BY <1>5, Returning DEF Update
  <2>2. owed[x] - 1 \in Int
    BY DEF Shape
  <2>3. reread' \in Seq(Node)
    BY <1>5, SiblingAssumption DEF Update
  <2> QED
    BY <1>5, <2>1, <2>2, <2>3 DEF Update, Shape
<1>9. ASSUME Reread PROVE Shape'
  <2>1. Tail(reread) \in Seq(Node)
    BY <1>9, HeadTailProperties DEF Reread, Shape
  <2> QED
    BY <1>9, <2>1 DEF Reread, Shape
<1>6. ASSUME NEW d \in Data, DataRead(d) PROVE Shape'
  <2>1. Call("read", Parent[d]) \in Calls
    BY CallTypes, ParentOf
  <2> QED
    BY <1>6, <2>1 DEF DataRead, Shape
<1>7. ASSUME NEW d \in Data, DataWriteback(d) PROVE Shape'
  <2>1. HandleCalls(d) \in Seq(Calls)
    BY CallTypes, ParentOf DEF HandleCalls
  <2>2. owed[d] + 1 \in Int
    BY ParentOf DEF Shape
  <2> QED
    BY <1>7, <2>1, <2>2 DEF DataWriteback, Shape
<1>8. CASE UNCHANGED vars
  BY <1>8 DEF vars, Shape
<1> QED
  BY <1>1, <1>2, <1>3, <1>4, <1>5, <1>6, <1>7, <1>8, <1>9 DEF Next, Walk

\* The state keeps its shape: in particular the walk only calls itself on
\* metadata lines, and only counters of counted lines are incremented.
THEOREM ShapeKept == Spec => []Shape
<1>1. Init => Shape
  BY ShapeInit
<1>2. Shape /\ [Next]_vars => Shape'
  BY ShapeStep
<1> QED
  BY <1>1, <1>2, PTL DEF Spec

(***************************************************************************)
(* Every write of a line to memory goes with one increment of its counter. *)
(***************************************************************************)

LEMMA CallsDiffer ==
  /\ \A x, y : Call("update", x) = Call("update", y) <=> x = y
  /\ \A x, y : Call("update", x) # Call("read", y)
  /\ \A x, y : Call("update", x) # Call("write", y)
  BY DEF Call

LEMMA PendingCounts == \A x : Pending(x) = Count(stack, Call("update", x))
  BY DEF Pending, Count

\* Returning from a read or a write leaves the increments under way alone.
LEMMA ReturningPending ==
  ASSUME Shape, NEW op \in {"read", "write"}, NEW n, Runs(op, n), NEW x
  PROVE  Count(Front(stack), Call("update", x)) = Pending(x)
<1>1. /\ stack # <<>> /\ Last(stack) = Call(op, n)
      /\ Front(stack) \in Seq(Calls) /\ stack \in Seq(Calls)
  BY Returning DEF Shape
<1>2. Last(stack) # Call("update", x)
  BY <1>1 DEF Call
<1>3. Count(stack, Call("update", x)) = Count(Front(stack), Call("update", x))
  BY <1>1, <1>2, CountFront
<1> QED
  BY <1>3, PendingCounts

\* The increments of an evicted line's counter are added to those under way.
LEMMA PushedPending ==
  ASSUME NEW rest \in Seq(Calls), NEW v \in Node \cap Counted, NEW x
  PROVE  LET pushed == Append(Append(Append(rest, Call("update", v)),
                                     Call("write", Parent[v])),
                              Call("read", Parent[v]))
             c == Call("update", x)
         IN  /\ v = x => Count(pushed, c) = Count(rest, c) + 1
             /\ v # x => Count(pushed, c) = Count(rest, c)
<1> DEFINE one == Append(rest, Call("update", v))
           two == Append(one, Call("write", Parent[v]))
           three == Append(two, Call("read", Parent[v]))
           c == Call("update", x)
<1>1. /\ Call("update", v) \in Calls /\ Call("write", Parent[v]) \in Calls
      /\ Call("read", Parent[v]) \in Calls
  BY CallTypes, ParentOf
<1>2. /\ Call("write", Parent[v]) # c /\ Call("read", Parent[v]) # c
      /\ Call("update", v) = c <=> v = x
  BY CallsDiffer
<1>3. one \in Seq(Calls) /\ two \in Seq(Calls)
  BY <1>1
<1> HIDE DEF c
<1>4. Count(two, c) = Count(one, c)
  BY <1>1, <1>2, <1>3, CountAppend
<1>5. Count(three, c) = Count(two, c)
  BY <1>1, <1>2, <1>3, CountAppend
<1>6. /\ v = x => Count(one, c) = Count(rest, c) + 1
      /\ v # x => Count(one, c) = Count(rest, c)
  BY <1>1, <1>2, CountAppend
<1> QED
  BY <1>4, <1>5, <1>6 DEF c

LEMMA InstallAccounts ==
  ASSUME Shape, Accounted,
         NEW n \in Node, NEW asDirty \in BOOLEAN, NEW rest \in Seq(Calls),
         \A x : Count(rest, Call("update", x)) = Pending(x),
         Install(n, asDirty, rest)
  PROVE  Accounted'
<1> SUFFICES ASSUME NEW x \in Counted PROVE owed'[x] = Pending(x)'
  BY DEF Accounted
<1> DEFINE written == Victims(n) \cap dirty
<1>1. owed'[x] = owed[x] + (IF x \in written THEN 1 ELSE 0)
  BY DEF Install
<1>2. owed[x] = Pending(x) /\ owed[x] \in Int
  BY DEF Accounted, Shape
<1>3. Pending(x)' = Count(stack', Call("update", x))
  BY DEF Pending, Count
<1>4. Count(rest, Call("update", x)) = Pending(x)
  OBVIOUS
<1>5. CASE stack' = rest /\ x \notin written
  <2>1. owed'[x] = owed[x]
    BY <1>1, <1>2, <1>5
  <2> QED
    BY <2>1, <1>2, <1>3, <1>4, <1>5
<1>6. ASSUME NEW v \in Node \cap Counted, written = {v},
             stack' = Append(Append(Append(rest, Call("update", v)),
                                    Call("write", Parent[v])),
                             Call("read", Parent[v]))
      PROVE  owed'[x] = Pending(x)'
  <2>1. /\ v = x => Pending(x)' = Pending(x) + 1
        /\ v # x => Pending(x)' = Pending(x)
    BY <1>3, <1>4, <1>6, PushedPending
  <2>2. x \in written <=> v = x
    BY <1>6
  <2> HIDE DEF written
  <2>3. CASE v = x
    BY <2>1, <2>2, <2>3, <1>1, <1>2
  <2>4. CASE v # x
    BY <2>1, <2>2, <2>4, <1>1, <1>2
  <2> QED
    BY <2>3, <2>4
<1>7. \/ stack' = rest /\ x \notin written
      \/ \E v \in Node \cap Counted :
           /\ written = {v}
           /\ stack' = Append(Append(Append(rest, Call("update", v)),
                                     Call("write", Parent[v])),
                              Call("read", Parent[v]))
  BY InstallCases
<1> QED
  BY <1>5, <1>6, <1>7

LEMMA AccountedInit == Init => Accounted
<1> SUFFICES ASSUME Init, NEW x \in Counted PROVE owed[x] = Pending(x)
  BY DEF Accounted
<1>1. stack = <<>> /\ owed[x] = 0
  BY DEF Init
<1>2. {k \in 1..Len(stack) : stack[k] = Call("update", x)} = {}
  BY <1>1
<1> QED
  BY <1>1, <1>2, FS_EmptySet DEF Pending

LEMMA AccountedStep == Shape /\ Accounted /\ [Next]_vars => Accounted'
<1> SUFFICES ASSUME Shape, Accounted, [Next]_vars PROVE Accounted'
  OBVIOUS
<1>0. /\ \A x \in Counted : owed[x] = Pending(x) /\ owed[x] \in Int
      /\ \A x : Pending(x)' = Count(stack', Call("update", x))
  BY DEF Accounted, Shape, Pending, Count
<1>1. ASSUME NEW n \in Node, ReadHit(n) PROVE Accounted'
  <2>1. owed' = owed /\ stack' = Front(stack) /\ Runs("read", n)
    BY <1>1 DEF ReadHit
  <2>2. \A x : Pending(x)' = Pending(x)
    BY <1>0, <2>1, ReturningPending
  <2> QED
    BY <1>0, <2>1, <2>2 DEF Accounted
<1>2. ASSUME NEW n \in Node, ReadMiss(n) PROVE Accounted'
  <2> DEFINE up == Call("read", Parent[n])
             rest == IF Parent[n] = Root THEN Front(stack)
                     ELSE Append(Front(stack), up)
  <2>1. Runs("read", n) /\ Install(n, FALSE, rest)
    BY <1>2 DEF ReadMiss
  <2>2. rest \in Seq(Calls)
    BY <2>1, ReadingOn
  <2>3. ASSUME NEW x PROVE Count(rest, Call("update", x)) = Pending(x)
    <3>1. Count(Front(stack), Call("update", x)) = Pending(x)
      BY <2>1, ReturningPending
    <3>2. CASE Parent[n] = Root
      BY <3>1, <3>2
    <3>3. CASE Parent[n] # Root
      <4>1. Front(stack) \in Seq(Calls) /\ up \in Calls /\ up # Call("update", x)
        BY <2>1, <3>3, Returning, ParentOf, CallTypes, CallsDiffer
      <4>2. Count(Append(Front(stack), up), Call("update", x))
              = Count(Front(stack), Call("update", x))
        BY <4>1, CountAppend
      <4> QED
        BY <3>1, <3>3, <4>2
    <3> QED
      BY <3>2, <3>3
  <2> HIDE DEF rest
  <2> QED
    BY <2>1, <2>2, <2>3, InstallAccounts
<1>3. ASSUME NEW n \in Node, WriteHit(n) PROVE Accounted'
  <2>1. owed' = owed /\ stack' = Front(stack) /\ Runs("write", n)
    BY <1>3 DEF WriteHit
  <2>2. \A x : Pending(x)' = Pending(x)
    BY <1>0, <2>1, ReturningPending
  <2> QED
    BY <1>0, <2>1, <2>2 DEF Accounted
<1>4. ASSUME NEW n \in Node, WriteMiss(n) PROVE Accounted'
  <2>1. Runs("write", n) /\ Install(n, TRUE, Front(stack))
    BY <1>4 DEF WriteMiss
  <2>2. Front(stack) \in Seq(Calls)
    BY <2>1, Returning
  <2>3. \A x : Count(Front(stack), Call("update", x)) = Pending(x)
    BY <2>1, ReturningPending
  <2> QED
    BY <2>1, <2>2, <2>3, InstallAccounts
<1>5. ASSUME NEW x \in Counted, Update(x) PROVE Accounted'
  <2>1. /\ stack # <<>> /\ Last(stack) = Call("update", x)
        /\ stack' = Front(stack) /\ Front(stack) \in Seq(Calls)
        /\ owed' = [owed EXCEPT ![x] = @ - 1]
    BY <1>5, Returning DEF Update
  <2> SUFFICES ASSUME NEW y \in Counted PROVE owed'[y] = Pending(y)'
    BY DEF Accounted
  <2>2. stack \in Seq(Calls) /\ Count(stack, Call("update", y)) = Pending(y)
    BY PendingCounts DEF Shape
  <2>3. Count(Front(stack), Call("update", y)) \in Nat
    BY <2>1, CountNat
  <2>4. CASE y = x
    <3>1. Pending(y) = Count(Front(stack), Call("update", y)) + 1
      BY <2>1, <2>2, <2>4, CountFront
    <3>2. owed'[y] = owed[y] - 1
      BY <2>1, <2>4 DEF Shape
    <3> QED
      BY <3>1, <3>2, <2>1, <2>3, <1>0
  <2>5. CASE y # x
    <3>1. Pending(y) = Count(Front(stack), Call("update", y))
      BY <2>1, <2>2, <2>5, CountFront, CallsDiffer
    <3>2. owed'[y] = owed[y]
      BY <2>1, <2>5 DEF Shape
    <3> QED
      BY <3>1, <3>2, <2>1, <1>0
  <2> QED
    BY <2>4, <2>5
<1>9. ASSUME Reread PROVE Accounted'
  <2>1. owed' = owed /\ stack' = stack
    BY <1>9 DEF Reread
  <2> QED
    BY <1>0, <2>1, PendingCounts DEF Accounted
<1>6. ASSUME NEW d \in Data, DataRead(d) PROVE Accounted'
  <2>1. stack = <<>> /\ stack' = Append(<<>>, Call("read", Parent[d]))
        /\ owed' = owed
    BY <1>6 DEF DataRead, Idle
  <2>2. Call("read", Parent[d]) \in Calls
    BY CallTypes, ParentOf
  <2>3. ASSUME NEW x PROVE Pending(x)' = Pending(x)
    <3>1. stack \in Seq(Calls) /\ Call("update", x) # Call("read", Parent[d])
      BY CallsDiffer DEF Shape
    <3>2. Count(Append(stack, Call("read", Parent[d])), Call("update", x))
            = Count(stack, Call("update", x))
      BY <2>2, <3>1, CountAppend
    <3> QED
      BY <2>1, <3>2, <1>0, PendingCounts
  <2> QED
    BY <2>1, <2>3, <1>0 DEF Accounted
<1>7. ASSUME NEW d \in Data, DataWriteback(d) PROVE Accounted'
  <2> DEFINE w == Call("write", Parent[d])
             u == Call("update", d)
             r == Call("read", Parent[d])
  <2>1. /\ stack = <<>> /\ stack' = Append(Append(Append(stack, w), u), r)
        /\ owed' = [owed EXCEPT ![d] = @ + 1]
    BY <1>7 DEF DataWriteback, HandleCalls, Idle
  <2>2. w \in Calls /\ u \in Calls /\ r \in Calls
    BY CallTypes, ParentOf
  <2> SUFFICES ASSUME NEW x \in Counted PROVE owed'[x] = Pending(x)'
    BY DEF Accounted
  <2> DEFINE c == Call("update", x)
             one == Append(stack, w)
             two == Append(one, u)
  <2>3. w # c /\ r # c /\ (u = c <=> d = x)
    BY CallsDiffer
  <2>4. stack \in Seq(Calls) /\ one \in Seq(Calls) /\ two \in Seq(Calls)
    BY <2>2 DEF Shape
  <2>5. /\ Count(stack, c) = Pending(x)
        /\ Pending(x)' = Count(Append(two, r), c)
    BY <2>1, <1>0, PendingCounts
  <2> HIDE DEF w, u, r, c
  <2>6. /\ Count(one, c) = Count(stack, c)
        /\ Count(Append(two, r), c) = Count(two, c)
    BY <2>2, <2>3, <2>4, CountAppend
  <2>7. CASE x = d
    <3>1. Count(two, c) = Count(one, c) + 1
      BY <2>2, <2>3, <2>4, <2>7, CountAppend
    <3>2. owed'[x] = owed[x] + 1
      BY <2>1, <2>7 DEF Shape
    <3> QED
      BY <3>1, <3>2, <2>5, <2>6, <1>0
  <2>8. CASE x # d
    <3>1. Count(two, c) = Count(one, c)
      BY <2>2, <2>3, <2>4, <2>8, CountAppend
    <3>2. owed'[x] = owed[x]
      BY <2>1, <2>8 DEF Shape
    <3> QED
      BY <3>1, <3>2, <2>5, <2>6, <1>0
  <2> QED
    BY <2>7, <2>8
<1>8. CASE UNCHANGED vars
  BY <1>8, <1>0, PendingCounts DEF vars, Accounted
<1> QED
  BY <1>1, <1>2, <1>3, <1>4, <1>5, <1>6, <1>7, <1>8, <1>9 DEF Next, Walk

\* Every write of a line to memory, by the program or by an eviction at any
\* depth of read_ctr_mtree and write_ctr_mtree, is matched by exactly one
\* increment of its counter, done or still to be done by a call under way.
THEOREM WritesAccounted == Spec => []Accounted
<1>1. Init => Shape /\ Accounted
  BY ShapeInit, AccountedInit
<1>2. Shape /\ Accounted /\ [Next]_vars => (Shape /\ Accounted)'
  BY ShapeStep, AccountedStep
<1> QED
  BY <1>1, <1>2, PTL DEF Spec

(***************************************************************************)
(* No counter of a data line is lost.  The reason is the order in          *)
(* handle_dirty_wb_LLC: the increment comes just before the write_ctr_mtree *)
(* of the line that holds the counter.                                     *)
(***************************************************************************)

\* An increment for a data line stands just above the write of its parent.
Handling(s) ==
  \A k \in 1..Len(s) : \A d \in Data :
    s[k] = Call("update", d) => k = 2 /\ s[1] = Call("write", Parent[d])

LEMMA HandlingFront ==
  ASSUME NEW s \in Seq(Calls), s # <<>>, Handling(s)
  PROVE  Handling(Front(s))
<1>1. /\ Len(s) \in Nat /\ 1 <= Len(s) /\ Len(Front(s)) = Len(s) - 1
      /\ \A k \in 1..Len(Front(s)) : Front(s)[k] = s[k]
  BY FrontLast
<1> SUFFICES ASSUME NEW k \in 1..Len(Front(s)), NEW d \in Data,
                    Front(s)[k] = Call("update", d)
             PROVE  k = 2 /\ Front(s)[1] = Call("write", Parent[d])
  BY DEF Handling
<1>2. k \in 1..Len(s) /\ s[k] = Call("update", d)
  BY <1>1
<1>3. k = 2 /\ s[1] = Call("write", Parent[d])
  BY <1>2 DEF Handling
<1>4. 1 \in 1..Len(Front(s))
  BY <1>1, <1>3
<1> QED
  BY <1>1, <1>3, <1>4

LEMMA HandlingAppend ==
  ASSUME NEW s \in Seq(Calls), Handling(s), NEW c \in Calls,
         \A d \in Data : c # Call("update", d)
  PROVE  Handling(Append(s, c))
<1>1. /\ Len(s) \in Nat /\ Len(Append(s, c)) = Len(s) + 1
      /\ \A k \in 1..Len(s) : Append(s, c)[k] = s[k]
      /\ Append(s, c)[Len(s) + 1] = c
  BY LenProperties
<1> SUFFICES ASSUME NEW k \in 1..(Len(s) + 1), NEW d \in Data,
                    Append(s, c)[k] = Call("update", d)
             PROVE  k = 2 /\ Append(s, c)[1] = Call("write", Parent[d])
  BY <1>1 DEF Handling
<1>2. k \in 1..Len(s) /\ s[k] = Call("update", d)
  <2>1. k # Len(s) + 1
    BY <1>1
  <2>2. k \in 1..Len(s)
    BY <1>1, <2>1
  <2> QED
    BY <1>1, <2>2
<1>3. k = 2 /\ s[1] = Call("write", Parent[d])
  BY <1>2 DEF Handling
<1>4. 1 \in 1..Len(s)
  BY <1>1, <1>2, <1>3
<1> QED
  BY <1>1, <1>3, <1>4

DataInv == Shape /\ Handling(stack) /\ DataCountersSurvive

\* Installing a line: a dirty line thrown out takes its counters to memory.
LEMMA InstallSurvives ==
  ASSUME Shape,
         NEW n \in Node, NEW asDirty \in BOOLEAN, NEW rest \in Seq(Calls),
         Handling(rest), Install(n, asDirty, rest),
         \A d \in Data : d \notin stale \/ Parent[d] \in dirty
                                        \/ (asDirty /\ Parent[d] = n)
  PROVE  Handling(stack') /\ DataCountersSurvive'
<1>1. Handling(stack')
  <2>1. CASE stack' = rest
    BY <2>1
  <2>2. ASSUME NEW v \in Node \cap Counted,
               stack' = Append(Append(Append(rest, Call("update", v)),
                                      Call("write", Parent[v])),
                               Call("read", Parent[v]))
        PROVE  Handling(stack')
    <3> DEFINE one == Append(rest, Call("update", v))
               two == Append(one, Call("write", Parent[v]))
    <3>1. /\ Call("update", v) \in Calls /\ Call("write", Parent[v]) \in Calls
          /\ Call("read", Parent[v]) \in Calls
      BY CallTypes, ParentOf
    <3>2. \A d \in Data : /\ Call("update", v) # Call("update", d)
                          /\ Call("write", Parent[v]) # Call("update", d)
                          /\ Call("read", Parent[v]) # Call("update", d)
      BY CallsDiffer, TreeAssumption
    <3>3. Handling(one) /\ one \in Seq(Calls)
      BY <3>1, <3>2, HandlingAppend
    <3> HIDE DEF one
    <3>4. Handling(two)
      BY <3>1, <3>2, <3>3, HandlingAppend
    <3>5. two \in Seq(Calls) /\ stack' = Append(two, Call("read", Parent[v]))
      BY <2>2, <3>1, <3>3 DEF one
    <3> HIDE DEF two
    <3> QED
      BY <3>1, <3>2, <3>4, <3>5, HandlingAppend
  <2> QED
    BY <2>1, <2>2, InstallCases
<1>2. DataCountersSurvive'
  <2> SUFFICES ASSUME NEW d \in Data, d \in stale', Parent[d] \notin dirty'
               PROVE  FALSE
    BY DEF DataCountersSurvive
  <2>1. d \in stale /\ Parent[d] \notin Victims(n) \cap dirty
    BY DEF Install
  <2>2. CASE Parent[d] \in dirty
    BY <2>1, <2>2 DEF Install
  <2>3. CASE asDirty /\ Parent[d] = n
    BY <2>3 DEF Install
  <2> QED
    BY <2>1, <2>2, <2>3
<1> QED
  BY <1>1, <1>2

\* With a read or an increment under way every counter is safe already.
LEMMA SafeWithoutWrite ==
  ASSUME DataCountersSurvive, NEW op \in {"read", "update"}, NEW x, Runs(op, x)
  PROVE  \A d \in Data : d \notin stale \/ Parent[d] \in dirty
  BY DEF DataCountersSurvive, Runs, Call

LEMMA DataInvInit == Init => DataInv
<1> SUFFICES ASSUME Init PROVE DataInv
  OBVIOUS
<1>1. Handling(stack)
  BY DEF Init, Handling
<1> QED
  BY <1>1, ShapeInit DEF Init, DataInv, DataCountersSurvive

LEMMA DataInvStep == DataInv /\ [Next]_vars => DataInv'
<1> SUFFICES ASSUME DataInv, [Next]_vars
             PROVE  Handling(stack') /\ DataCountersSurvive'
  BY ShapeStep DEF DataInv
<1>0. Shape /\ Handling(stack) /\ DataCountersSurvive /\ stack \in Seq(Calls)
  BY DEF DataInv, Shape
<1>1. ASSUME NEW n \in Node, ReadHit(n)
      PROVE  Handling(stack') /\ DataCountersSurvive'
  <2>1. /\ Runs("read", n) /\ stack' = Front(stack) /\ stack # <<>>
        /\ dirty' = dirty /\ stale' = stale
    BY <1>1 DEF ReadHit, Runs
  <2>2. \A d \in Data : d \notin stale \/ Parent[d] \in dirty
    BY <1>0, <2>1, SafeWithoutWrite
  <2> QED
    BY <1>0, <2>1, <2>2, HandlingFront DEF DataCountersSurvive
<1>2. ASSUME NEW n \in Node, ReadMiss(n)
      PROVE  Handling(stack') /\ DataCountersSurvive'
  <2> DEFINE up == Call("read", Parent[n])
             rest == IF Parent[n] = Root THEN Front(stack)
                     ELSE Append(Front(stack), up)
  <2>1. Runs("read", n) /\ Install(n, FALSE, rest)
    BY <1>2 DEF ReadMiss
  <2>2. rest \in Seq(Calls)
    BY <1>0, <2>1, ReadingOn
  <2>3. Front(stack) \in Seq(Calls) /\ Handling(Front(stack))
    BY <1>0, <2>1, Returning, HandlingFront
  <2>4. Handling(rest)
    <3>1. CASE Parent[n] = Root
      BY <2>3, <3>1
    <3>2. CASE Parent[n] # Root
      <4>1. up \in Calls /\ \A d \in Data : up # Call("update", d)
        BY <3>2, ParentOf, CallTypes, CallsDiffer
      <4>2. Handling(Append(Front(stack), up))
        BY <2>3, <4>1, HandlingAppend
      <4> QED
        BY <3>2, <4>2
    <3> QED
      BY <3>1, <3>2
  <2>5. \A d \in Data : d \notin stale \/ Parent[d] \in dirty
    BY <1>0, <2>1, SafeWithoutWrite
  <2> HIDE DEF rest
  <2> QED
    BY <1>0, <2>1, <2>2, <2>4, <2>5, InstallSurvives
<1>3. ASSUME NEW n \in Node, WriteHit(n)
      PROVE  Handling(stack') /\ DataCountersSurvive'
  <2>1. /\ Runs("write", n) /\ stack' = Front(stack) /\ stack # <<>>
        /\ dirty' = dirty \cup {n} /\ stale' = stale
    BY <1>3 DEF WriteHit, Dirtied, Runs
  <2>2. \A d \in Data : d \notin stale \/ Parent[d] \in dirty \/ Parent[d] = n
    BY <1>0, <2>1 DEF DataCountersSurvive, Runs, Call
  <2>3. DataCountersSurvive'
    BY <2>1, <2>2 DEF DataCountersSurvive
  <2> QED
    BY <1>0, <2>1, <2>3, HandlingFront
<1>4. ASSUME NEW n \in Node, WriteMiss(n)
      PROVE  Handling(stack') /\ DataCountersSurvive'
  <2>1. Runs("write", n) /\ Install(n, TRUE, Front(stack))
    BY <1>4 DEF WriteMiss
  <2>2. Front(stack) \in Seq(Calls) /\ Handling(Front(stack))
    BY <1>0, <2>1, Returning, HandlingFront
  <2>3. \A d \in Data : d \notin stale \/ Parent[d] \in dirty
                                       \/ (TRUE /\ Parent[d] = n)
    BY <1>0, <2>1 DEF DataCountersSurvive, Runs, Call
  <2> QED
    BY <1>0, <2>1, <2>2, <2>3, InstallSurvives
<1>5. ASSUME NEW x \in Counted, Update(x)
      PROVE  Handling(stack') /\ DataCountersSurvive'
  <2>1. /\ Runs("update", x) /\ stack' = Front(stack) /\ stack # <<>>
        /\ dirty' = dirty /\ stale' = stale \cup {x}
    BY <1>5 DEF Update, Runs
  <2>2. \A d \in Data : d \notin stale \/ Parent[d] \in dirty
    BY <1>0, <2>1, SafeWithoutWrite
  <2>3. CASE x \in Data
    <3>0. reread' = <<>>
      BY <1>5, <2>3, SiblingAssumption DEF Update
    <3>1. /\ Len(stack) \in Nat /\ 1 <= Len(stack)
          /\ stack[Len(stack)] = Call("update", x)
          /\ Len(Front(stack)) = Len(stack) - 1
          /\ \A k \in 1..Len(Front(stack)) : Front(stack)[k] = stack[k]
          /\ Front(stack) \in Seq(Calls)
      BY <1>0, <2>1, FrontLast DEF Runs, Running
    <3>2. Len(stack) = 2 /\ stack[1] = Call("write", Parent[x])
      <4>1. Len(stack) \in 1..Len(stack)
        BY <3>1
      <4> QED
        BY <1>0, <2>3, <3>1, <4>1 DEF Handling
    <3>3. Len(Front(stack)) = 1 /\ Front(stack)[1] = Call("write", Parent[x])
      BY <3>1, <3>2
    <3>4. Front(stack) # <<>> /\ Last(Front(stack)) = Call("write", Parent[x])
      <4>1. Front(stack) # <<>>
        BY <3>3
      <4> QED
        BY <3>3, <4>1 DEF Last
    <3>5. DataCountersSurvive'
      BY <2>1, <2>2, <3>0, <3>4 DEF DataCountersSurvive, Runs, Running
    <3> QED
      BY <1>0, <2>1, <3>5, HandlingFront
  <2>4. CASE x \notin Data
    <3>1. DataCountersSurvive'
      BY <2>1, <2>2, <2>4 DEF DataCountersSurvive
    <3> QED
      BY <1>0, <2>1, <3>1, HandlingFront
  <2> QED
    BY <2>3, <2>4
<1>9. ASSUME Reread
      PROVE  Handling(stack') /\ DataCountersSurvive'
  <2>1. /\ reread # <<>> /\ stack' = stack
        /\ dirty' = dirty /\ stale' = stale
    BY <1>9 DEF Reread
  <2>2. \A d \in Data : d \notin stale \/ Parent[d] \in dirty
    BY <1>0, <2>1 DEF DataCountersSurvive, Runs
  <2> QED
    BY <1>0, <2>1, <2>2 DEF DataCountersSurvive
<1>6. ASSUME NEW d \in Data, DataRead(d)
      PROVE  Handling(stack') /\ DataCountersSurvive'
  <2>1. /\ stack = <<>> /\ stack' = Append(stack, Call("read", Parent[d]))
        /\ dirty' = dirty /\ stale' = stale
    BY <1>6 DEF DataRead, Idle
  <2>2. Call("read", Parent[d]) \in Calls
    BY CallTypes, ParentOf
  <2>3. Handling(stack')
    BY <1>0, <2>1, <2>2, CallsDiffer, HandlingAppend
  <2> QED
    BY <1>0, <2>1, <2>3 DEF DataCountersSurvive, Runs
<1>7. ASSUME NEW d \in Data, DataWriteback(d)
      PROVE  Handling(stack') /\ DataCountersSurvive'
  <2>1. /\ stack = <<>> /\ dirty' = dirty /\ stale' = stale
        /\ stack' = <<Call("write", Parent[d]), Call("update", d),
                      Call("read", Parent[d])>>
    BY <1>7 DEF DataWriteback, HandleCalls, Idle
  <2>2. Handling(stack')
    <3> SUFFICES ASSUME NEW k \in 1..3, NEW e \in Data,
                        stack'[k] = Call("update", e)
                 PROVE  k = 2 /\ stack'[1] = Call("write", Parent[e])
      BY <2>1 DEF Handling
    <3>1. /\ stack'[1] = Call("write", Parent[d])
          /\ stack'[2] = Call("update", d)
          /\ stack'[3] = Call("read", Parent[d])
      BY <2>1
    <3>2. k = 2
      BY <3>1, CallsDiffer
    <3> QED
      BY <3>1, <3>2, CallsDiffer
  <2> QED
    BY <1>0, <2>1, <2>2 DEF DataCountersSurvive, Runs
<1>8. CASE UNCHANGED vars
  BY <1>8, <1>0 DEF vars, DataCountersSurvive, Runs, Running
<1> QED
  BY <1>1, <1>2, <1>3, <1>4, <1>5, <1>6, <1>7, <1>8, <1>9 DEF Next, Walk

\* Whatever is evicted while the walk goes up and down the tree, the latest
\* counter of a data line is in memory, in a dirty line of the cache, or
\* write_ctr_mtree is just about to make its line dirty.
THEOREM DataCountersKept == Spec => []DataCountersSurvive
<1>1. Init => DataInv
  BY DataInvInit
<1>2. DataInv /\ [Next]_vars => DataInv'
  BY DataInvStep
<1>3. DataInv => DataCountersSurvive
  BY DEF DataInv
<1> QED
  BY <1>1, <1>2, <1>3, PTL DEF Spec

(***************************************************************************)
(* The cache stays a cache: a set holds a line once, no more lines than it *)
(* has ways, and no line is dirty that is not cached.                      *)
(***************************************************************************)

Distinct(s) == \A i, j \in 1..Len(s) : s[i] = s[j] => i = j

\* Taking a line out of a set moves those after it down by one.
LEMMA WithoutElements ==
  ASSUME NEW S, NEW s \in Seq(S), NEW n \in Range(s)
  PROVE  /\ Len(s) \in Nat /\ Without(s, n) \in Seq(S)
         /\ Len(Without(s, n)) = Len(s) - 1
         /\ \E i \in 1..Len(s) :
              /\ s[i] = n
              /\ \A k \in 1..(Len(s) - 1) :
                   Without(s, n)[k] = IF k < i THEN s[k] ELSE s[k + 1]
<1> DEFINE i == CHOOSE i \in 1..Len(s) : s[i] = n
           left == SubSeq(s, 1, i - 1)
           right == SubSeq(s, i + 1, Len(s))
<1>1. i \in 1..Len(s) /\ s[i] = n
  BY DEF Range
<1>2. Len(s) \in Nat /\ \A k \in 1..Len(s) : s[k] \in S
  BY LenProperties, ElementOfSeq
<1>3. Without(s, n) = left \o right
  BY DEF Without, RemoveAt
<1> HIDE DEF i
<1>4. /\ left \in Seq(S) /\ Len(left) = i - 1
      /\ \A k \in 1..(i - 1) : left[k] = s[k]
  <2>1. 1 \in Int /\ i - 1 \in Int /\ \A k \in 1..(i - 1) : s[k] \in S
    BY <1>1, <1>2
  <2>2. /\ SubSeq(s, 1, i - 1) \in Seq(S)
        /\ Len(SubSeq(s, 1, i - 1)) = IF 1 <= i - 1 THEN (i - 1) - 1 + 1 ELSE 0
        /\ \A k \in 1..((i - 1) - 1 + 1) : SubSeq(s, 1, i - 1)[k] = s[1 + k - 1]
    BY <2>1, SubSeqProperties
  <2>3. i \in Nat /\ 1 <= i
    BY <1>1, <1>2
  <2>4. (IF 1 <= i - 1 THEN (i - 1) - 1 + 1 ELSE 0) = i - 1
    BY <2>3
  <2>5. \A k \in 1..(i - 1) : k \in 1..((i - 1) - 1 + 1) /\ 1 + k - 1 = k
    BY <2>3
  <2> QED
    BY <2>2, <2>4, <2>5
<1>5. /\ right \in Seq(S) /\ Len(right) = Len(s) - i
      /\ \A k \in 1..(Len(s) - i) : right[k] = s[i + k]
  <2> DEFINE m == Len(s)
  <2>1. /\ i \in Nat /\ m \in Nat /\ i <= m
        /\ \A k \in (i + 1)..m : s[k] \in S
    BY <1>1, <1>2
  <2>2. /\ SubSeq(s, i + 1, m) \in Seq(S)
        /\ Len(SubSeq(s, i + 1, m)) =
             IF i + 1 <= m THEN m - (i + 1) + 1 ELSE 0
        /\ \A k \in 1..(m - (i + 1) + 1) :
             SubSeq(s, i + 1, m)[k] = s[i + 1 + k - 1]
    BY <2>1, SubSeqProperties
  <2> HIDE DEF m
  <2>3. (IF i + 1 <= m THEN m - (i + 1) + 1 ELSE 0) = m - i
    BY <2>1
  <2>4. \A k \in 1..(m - i) : k \in 1..(m - (i + 1) + 1) /\ i + 1 + k - 1 = i + k
    BY <2>1
  <2> QED
    BY <2>2, <2>3, <2>4 DEF m
<1> HIDE DEF left, right
<1>6. /\ left \o right \in Seq(S)
      /\ Len(left \o right) = Len(left) + Len(right)
      /\ \A k \in 1..(Len(left) + Len(right)) :
           (left \o right)[k] = IF k <= Len(left) THEN left[k]
                                                  ELSE right[k - Len(left)]
  BY <1>4, <1>5, ConcatProperties
<1>7. i \in Nat /\ 1 <= i /\ i <= Len(s)
  BY <1>1, <1>2
<1>8. Len(left) + Len(right) = Len(s) - 1
  BY <1>2, <1>4, <1>5, <1>7
<1>9. ASSUME NEW k \in 1..(Len(s) - 1)
      PROVE  (left \o right)[k] = IF k < i THEN s[k] ELSE s[k + 1]
  <2>1. (left \o right)[k] = IF k <= i - 1 THEN left[k] ELSE right[k - (i - 1)]
    BY <1>4, <1>6, <1>8
  <2>2. CASE k < i
    <3>1. k \in 1..(i - 1) /\ k <= i - 1
      BY <1>7, <2>2
    <3> QED
      BY <2>1, <2>2, <3>1, <1>4
  <2>3. CASE ~(k < i)
    <3>1. /\ ~(k <= i - 1) /\ k - (i - 1) \in 1..(Len(s) - i)
          /\ i + (k - (i - 1)) = k + 1
      BY <1>2, <1>7, <2>3
    <3> QED
      BY <2>1, <2>3, <3>1, <1>5
  <2> QED
    BY <2>2, <2>3
<1> QED
  BY <1>1, <1>2, <1>3, <1>6, <1>8, <1>9

LEMMA RangeIn ==
  ASSUME NEW S, NEW s \in Seq(S), NEW m
  PROVE  m \in Range(s) <=> \E k \in 1..Len(s) : s[k] = m
  BY DEF Range

\* The set without n: the same lines but n, still each of them once.
LEMMA WithoutSet ==
  ASSUME NEW S, NEW s \in Seq(S), Distinct(s), NEW n \in Range(s)
  PROVE  /\ Without(s, n) \in Seq(S) /\ Distinct(Without(s, n))
         /\ Range(Without(s, n)) = Range(s) \ {n}
         /\ Len(Without(s, n)) = Len(s) - 1
<1> DEFINE t == Without(s, n)
<1>1. /\ Len(s) \in Nat /\ t \in Seq(S) /\ Len(t) = Len(s) - 1
  BY WithoutElements
<1>2. PICK i \in 1..Len(s) :
        /\ s[i] = n
        /\ \A k \in 1..(Len(s) - 1) : t[k] = IF k < i THEN s[k] ELSE s[k + 1]
  BY WithoutElements
<1> HIDE DEF t
<1>3. Distinct(t)
  <2> SUFFICES ASSUME NEW j \in 1..(Len(s) - 1), NEW k \in 1..(Len(s) - 1),
                      t[j] = t[k]
               PROVE  j = k
    BY <1>1 DEF Distinct
  <2> DEFINE from(l) == IF l < i THEN l ELSE l + 1
  <2>1. /\ from(j) \in 1..Len(s) /\ from(k) \in 1..Len(s)
        /\ t[j] = s[from(j)] /\ t[k] = s[from(k)]
    BY <1>1, <1>2
  <2>2. from(j) = from(k)
    BY <2>1 DEF Distinct
  <2> QED
    BY <1>1, <2>2
<1>4. Range(t) \subseteq Range(s) \ {n}
  <2> SUFFICES ASSUME NEW k \in 1..(Len(s) - 1)
               PROVE  t[k] \in Range(s) /\ t[k] # n
    BY <1>1, RangeIn
  <2> DEFINE from == IF k < i THEN k ELSE k + 1
  <2>1. from \in 1..Len(s) /\ t[k] = s[from] /\ from # i
    BY <1>1, <1>2
  <2> HIDE DEF from
  <2> QED
    BY <2>1, <1>2, RangeIn DEF Distinct
<1>5. Range(s) \ {n} \subseteq Range(t)
  <2> SUFFICES ASSUME NEW j \in 1..Len(s), s[j] # n
               PROVE  \E k \in 1..(Len(s) - 1) : t[k] = s[j]
    BY <1>1, RangeIn
  <2>1. CASE j < i
    BY <1>1, <1>2, <2>1
  <2>2. CASE j > i
    <3>1. /\ j - 1 \in 1..(Len(s) - 1) /\ ~(j - 1 < i)
          /\ (j - 1) + 1 = j
      BY <1>1, <2>2
    <3>2. t[j - 1] = s[j]
      BY <1>2, <3>1
    <3> QED
      BY <3>1, <3>2
  <2> QED
    BY <1>1, <1>2, <2>1, <2>2
<1> QED
  BY <1>1, <1>3, <1>4, <1>5 DEF t

\* The set without its least recently used line.
LEMMA TailSet ==
  ASSUME NEW S, NEW s \in Seq(S), Distinct(s), s # <<>>
  PROVE  /\ Tail(s) \in Seq(S) /\ Distinct(Tail(s))
         /\ Range(Tail(s)) = Range(s) \ {Head(s)}
         /\ Len(Tail(s)) = Len(s) - 1
<1>1. /\ Len(s) \in Nat /\ 1 <= Len(s) /\ Head(s) = s[1]
      /\ Tail(s) \in Seq(S) /\ Len(Tail(s)) = Len(s) - 1
      /\ \A k \in 1..Len(Tail(s)) : Tail(s)[k] = s[k + 1]
  BY HeadTailProperties, LenProperties, EmptySeq
<1> DEFINE t == Tail(s)
<1> HIDE DEF t
<1>2. /\ Len(t) = Len(s) - 1 /\ t \in Seq(S)
      /\ \A k \in 1..(Len(s) - 1) : t[k] = s[k + 1] /\ k + 1 \in 1..Len(s)
                                                  /\ k + 1 # 1
  BY <1>1 DEF t
<1>3. Distinct(t)
  <2> SUFFICES ASSUME NEW j \in 1..(Len(s) - 1), NEW k \in 1..(Len(s) - 1),
                      t[j] = t[k]
               PROVE  j = k
    BY <1>2 DEF Distinct
  <2>1. j + 1 = k + 1
    BY <1>2 DEF Distinct
  <2> QED
    BY <2>1, <1>1
<1>4. Range(t) \subseteq Range(s) \ {Head(s)}
  <2> SUFFICES ASSUME NEW k \in 1..(Len(s) - 1)
               PROVE  t[k] \in Range(s) /\ t[k] # s[1]
    BY <1>1, <1>2, RangeIn
  <2>1. 1 \in 1..Len(s)
    BY <1>1
  <2> QED
    BY <1>2, <2>1, RangeIn DEF Distinct
<1>5. Range(s) \ {Head(s)} \subseteq Range(t)
  <2> SUFFICES ASSUME NEW j \in 1..Len(s), s[j] # s[1]
               PROVE  \E k \in 1..(Len(s) - 1) : t[k] = s[j]
    BY <1>1, <1>2, RangeIn
  <2>1. j - 1 \in 1..(Len(s) - 1) /\ (j - 1) + 1 = j
    BY <1>1
  <2> QED
    BY <1>2, <2>1
<1> QED
  BY <1>2, <1>3, <1>4, <1>5 DEF t

\* A set with one more line.
LEMMA AppendSet ==
  ASSUME NEW S, NEW s \in Seq(S), Distinct(s), NEW n \in S, n \notin Range(s)
  PROVE  /\ Append(s, n) \in Seq(S) /\ Distinct(Append(s, n))
         /\ Range(Append(s, n)) = Range(s) \cup {n}
         /\ Len(Append(s, n)) = Len(s) + 1
<1> DEFINE t == Append(s, n)
<1>1. /\ t \in Seq(S) /\ Len(s) \in Nat /\ Len(t) = Len(s) + 1
      /\ \A k \in 1..Len(s) : t[k] = s[k] /\ t[k] # n
      /\ t[Len(s) + 1] = n
  BY LenProperties, RangeIn
<1> HIDE DEF t
<1>2. Distinct(t)
  <2> SUFFICES ASSUME NEW j \in 1..(Len(s) + 1), NEW k \in 1..(Len(s) + 1),
                      t[j] = t[k]
               PROVE  j = k
    BY <1>1 DEF Distinct
  <2>1. /\ j \in 1..Len(s) \/ j = Len(s) + 1
        /\ k \in 1..Len(s) \/ k = Len(s) + 1
    BY <1>1
  <2> QED
    BY <1>1, <2>1 DEF Distinct
<1>3. Range(t) = Range(s) \cup {n}
  <2>1. \A m : m \in Range(t) <=> \E k \in 1..(Len(s) + 1) : t[k] = m
    BY <1>1, RangeIn
  <2>2. \A k \in 1..(Len(s) + 1) : k \in 1..Len(s) \/ k = Len(s) + 1
    BY <1>1
  <2>3. \A k \in 1..Len(s) : k \in 1..(Len(s) + 1)
    BY <1>1
  <2>4. Len(s) + 1 \in 1..(Len(s) + 1)
    BY <1>1
  <2> QED
    BY <1>1, <2>1, <2>2, <2>3, <2>4, RangeIn
<1> QED
  BY <1>1, <1>2, <1>3 DEF t

CacheInv ==
  /\ Shape
  /\ ways \in [Sets -> Seq(Node)]
  /\ \A t \in Sets : Len(ways[t]) <= Assoc /\ Distinct(ways[t])
  /\ dirty \subseteq Cached

LEMMA SetOfNode ==
  /\ \A n \in Node : SetOf[n] \in Sets
  /\ Assoc \in Nat /\ 1 <= Assoc
  BY CacheAssumption DEF Sets

\* A set that is changed into another: what has to be shown.
LEMMA CacheInvFrom ==
  ASSUME CacheInv, Shape', NEW t \in Sets, NEW s \in Seq(Node),
         ways' = [ways EXCEPT ![t] = s],
         Len(s) <= Assoc, Distinct(s),
         \A n \in dirty' : IF SetOf[n] = t THEN n \in Range(s) ELSE n \in dirty
  PROVE  CacheInv'
<1>1. /\ ways' \in [Sets -> Seq(Node)]
      /\ \A u \in Sets : ways'[u] = IF u = t THEN s ELSE ways[u]
  BY DEF CacheInv
<1>2. \A u \in Sets : Len(ways'[u]) <= Assoc /\ Distinct(ways'[u])
  BY <1>1 DEF CacheInv
<1>3. ASSUME NEW n \in dirty' PROVE n \in Node /\ n \in Range(ways'[SetOf[n]])
  <2>1. n \in Node
    BY <1>3 DEF Shape
  <2>2. SetOf[n] \in Sets
    BY <2>1, SetOfNode
  <2>3. CASE SetOf[n] = t
    BY <1>1, <1>3, <2>1, <2>2, <2>3
  <2>4. CASE SetOf[n] # t
    <3>1. n \in dirty
      BY <1>3, <2>4
    <3>2. n \in Range(ways[SetOf[n]])
      BY <3>1 DEF CacheInv, Cached
    <3> QED
      BY <1>1, <2>1, <2>2, <2>4, <3>2
  <2> QED
    BY <2>3, <2>4
<1>4. dirty' \subseteq Cached'
  BY <1>3 DEF Cached
<1> QED
  BY <1>1, <1>2, <1>4 DEF CacheInv

\* A hit reorders the set of the line.
LEMMA TouchedCacheInv ==
  ASSUME CacheInv, Shape', NEW n \in Cached, ways' = Touched(n),
         dirty' \subseteq dirty \cup {n}
  PROVE  CacheInv'
<1> DEFINE s == ways[SetOf[n]]
           t == Append(Without(s, n), n)
<1>1. n \in Node /\ n \in Range(s) /\ SetOf[n] \in Sets
  BY SetOfNode DEF Cached
<1>2. s \in Seq(Node) /\ Len(s) <= Assoc /\ Distinct(s)
  BY <1>1 DEF CacheInv
<1>3. /\ Without(s, n) \in Seq(Node) /\ Distinct(Without(s, n))
      /\ Range(Without(s, n)) = Range(s) \ {n}
      /\ Len(Without(s, n)) = Len(s) - 1
  BY <1>1, <1>2, WithoutSet
<1>4. /\ t \in Seq(Node) /\ Distinct(t) /\ Range(t) = Range(s)
      /\ Len(t) = Len(s) - 1 + 1
  <2> DEFINE w == Without(s, n)
  <2> HIDE DEF s, w
  <2>1. w \in Seq(Node) /\ Distinct(w) /\ n \notin Range(w)
    BY <1>3 DEF w
  <2>2. /\ Append(w, n) \in Seq(Node) /\ Distinct(Append(w, n))
        /\ Range(Append(w, n)) = Range(w) \cup {n}
        /\ Len(Append(w, n)) = Len(w) + 1
    BY <1>1, <2>1, AppendSet
  <2>3. Range(w) \cup {n} = Range(s)
    BY <1>1, <1>3 DEF w
  <2> QED
    BY <1>3, <2>2, <2>3 DEF w
<1>5. ways' = [ways EXCEPT ![SetOf[n]] = t]
  BY DEF Touched
<1>6. Len(t) <= Assoc
  BY <1>2, <1>4, LenProperties, SetOfNode
<1>7. ASSUME NEW m \in dirty'
      PROVE  IF SetOf[m] = SetOf[n] THEN m \in Range(t) ELSE m \in dirty
  BY <1>1, <1>4 DEF CacheInv, Cached
<1> HIDE DEF t
<1> QED
  BY <1>1, <1>4, <1>5, <1>6, <1>7, CacheInvFrom

\* A miss adds the line, in place of the least recently used one if the set
\* is full; a dirty line that is thrown out is dirty no more.
LEMMA InstallCacheInv ==
  ASSUME CacheInv, Shape', NEW n \in Node \ Cached, NEW asDirty, NEW rest,
         Install(n, asDirty, rest)
  PROVE  CacheInv'
<1> DEFINE s == ways[SetOf[n]]
           kept == IF Full(n) THEN Tail(s) ELSE s
           t == Append(kept, n)
<1>1. n \in Node /\ n \notin Range(s) /\ SetOf[n] \in Sets
  BY SetOfNode DEF Cached
<1>2. s \in Seq(Node) /\ Len(s) <= Assoc /\ Distinct(s) /\ Len(s) \in Nat
  BY <1>1, LenProperties DEF CacheInv
<1>3. /\ kept \in Seq(Node) /\ Distinct(kept) /\ Len(kept) + 1 <= Assoc
      /\ Range(kept) = Range(s) \ Victims(n)
  <2>1. CASE Full(n)
    <3>1. s # <<>>
      BY <2>1, SetOfNode DEF Full
    <3>2. Victims(n) = {Head(s)} /\ kept = Tail(s)
      BY <2>1 DEF Victims
    <3> HIDE DEF s, kept
    <3>3. /\ Tail(s) \in Seq(Node) /\ Distinct(Tail(s))
          /\ Range(Tail(s)) = Range(s) \ {Head(s)}
          /\ Len(Tail(s)) = Len(s) - 1
      BY <1>2, <3>1, TailSet
    <3> QED
      BY <1>2, <3>2, <3>3, SetOfNode
  <2>2. CASE ~Full(n)
    <3>1. Victims(n) = {} /\ kept = s
      BY <2>2 DEF Victims
    <3>2. Len(s) + 1 <= Assoc
      BY <1>2, <2>2, SetOfNode DEF Full
    <3> HIDE DEF s, kept
    <3> QED
      BY <1>2, <3>1, <3>2
  <2> QED
    BY <2>1, <2>2
<1> HIDE DEF kept
<1>4. /\ t \in Seq(Node) /\ Distinct(t) /\ Range(t) = Range(kept) \cup {n}
      /\ Len(t) = Len(kept) + 1
  BY <1>1, <1>3, AppendSet
<1>5. ways' = [ways EXCEPT ![SetOf[n]] = t]
  BY DEF Install, Installed, kept
<1>6. ASSUME NEW m \in dirty'
      PROVE  IF SetOf[m] = SetOf[n] THEN m \in Range(t) ELSE m \in dirty
  <2>1. m = n \/ (m \in dirty /\ m \notin Victims(n))
    BY <1>6 DEF Install
  <2>2. m \in dirty /\ SetOf[m] = SetOf[n] => m \in Range(s)
    BY DEF CacheInv, Cached
  <2> HIDE DEF s, t
  <2> QED
    BY <2>1, <2>2, <1>3, <1>4
<1> HIDE DEF t
<1> QED
  BY <1>1, <1>3, <1>4, <1>5, <1>6, CacheInvFrom

LEMMA CacheInvInit == Init => CacheInv
<1> SUFFICES ASSUME Init PROVE CacheInv
  OBVIOUS
<1>1. ways = [t \in Sets |-> <<>>] /\ dirty = {}
  BY DEF Init
<1>2. \A t \in Sets : Len(ways[t]) = 0 /\ ways[t] \in Seq(Node)
  BY <1>1
<1>3. \A t \in Sets : Len(ways[t]) <= Assoc /\ Distinct(ways[t])
  BY <1>2, SetOfNode DEF Distinct
<1> QED
  BY <1>1, <1>2, <1>3, ShapeInit DEF CacheInv

LEMMA CacheInvStep == CacheInv /\ [Next]_vars => CacheInv'
<1> SUFFICES ASSUME CacheInv, [Next]_vars PROVE CacheInv'
  OBVIOUS
<1>0. Shape /\ Shape'
  BY ShapeStep DEF CacheInv
<1>1. ASSUME NEW n \in Node, ReadHit(n) PROVE CacheInv'
  BY <1>0, <1>1, TouchedCacheInv DEF ReadHit
<1>2. ASSUME NEW n \in Node, ReadMiss(n) PROVE CacheInv'
  BY <1>0, <1>2, InstallCacheInv DEF ReadMiss
<1>3. ASSUME NEW n \in Node, WriteHit(n) PROVE CacheInv'
  BY <1>0, <1>3, TouchedCacheInv DEF WriteHit, Dirtied
<1>4. ASSUME NEW n \in Node, WriteMiss(n) PROVE CacheInv'
  BY <1>0, <1>4, InstallCacheInv DEF WriteMiss
<1>5. ASSUME UNCHANGED <<ways, dirty>> PROVE CacheInv'
  BY <1>0, <1>5 DEF CacheInv, Cached
<1>6. ASSUME NEW x \in Counted, Update(x) PROVE CacheInv'
  BY <1>5, <1>6 DEF Update
<1>9. ASSUME Reread PROVE CacheInv'
  <2>1. dirty' = dirty /\ Head(reread) \in Node
    BY <1>0, <1>9, HeadTailProperties DEF Reread, Shape
  <2>2. CASE Head(reread) \in Cached
    BY <1>0, <1>9, <2>1, <2>2, TouchedCacheInv DEF Reread
  <2>3. CASE Head(reread) \notin Cached
    BY <1>5, <1>9, <2>1, <2>3 DEF Reread
  <2> QED
    BY <2>2, <2>3
<1>7. ASSUME NEW d \in Data, DataRead(d) \/ DataWriteback(d) PROVE CacheInv'
  BY <1>5, <1>7 DEF DataRead, DataWriteback
<1>8. CASE UNCHANGED vars
  BY <1>5, <1>8 DEF vars
<1> QED
  BY <1>1, <1>2, <1>3, <1>4, <1>6, <1>7, <1>8, <1>9 DEF Next, Walk

\* Nested installs and hits never put a line twice into a set, overfill it,
\* or leave a line dirty that has been thrown out of the cache.
THEOREM CacheTypeCorrect == Spec => []TypeOK
<1>1. Init => CacheInv
  BY CacheInvInit
<1>2. CacheInv /\ [Next]_vars => CacheInv'
  BY CacheInvStep
<1>3. CacheInv => TypeOK
  BY DEF CacheInv, Shape, TypeOK, Distinct
<1> QED
  BY <1>1, <1>2, <1>3, PTL DEF Spec
(***************************************************************************)
(* How deeply calls nest.                                                  *)
(***************************************************************************)

\* What the dirty lines, and the calls of a stack, weigh.
Carried(lines) == SumFunction([n \in Node |-> IF n \in lines THEN level[n] ELSE 0])
Loads(s) == SumFunction([k \in 1..Len(s) |-> Load(s[k])])

LEMMA WeightSplit ==
  /\ Weight = Carried(dirty) + Loads(stack)
  /\ Weight' = Carried(dirty') + Loads(stack')
BY DEF Weight, Carried, Loads

\* A line is one level below the one that holds its counter.
LEMMA Levels ==
  /\ \A x \in Line : level[x] \in Nat /\ 1 <= level[x]
  /\ \A x \in Counted : level[x] = level[Parent[x]] + 1
<1>1. ASSUME NEW x \in Counted
      PROVE  level[x] = level[Parent[x]] + 1 /\ level[Parent[x]] \in Nat
  <2>1. x \in Line /\ Parent[x] # Root /\ Parent[x] \in Line
    BY ParentOf DEF Counted
  <2> QED BY <2>1, LevelAssumption
<1>2. ASSUME NEW x \in Line PROVE level[x] \in Nat /\ 1 <= level[x]
  <2>1. CASE x \in Counted
    BY <1>1, <2>1
  <2>2. CASE x \notin Counted
    BY <2>2, ParentOf, LevelAssumption
  <2> QED BY <2>1, <2>2
<1> QED BY <1>1, <1>2

LEMMA LoadOfCall ==
  /\ \A n \in Node : Load(Call("read", n)) = 0 /\ Load(Call("write", n)) = level[n]
  /\ \A x \in Counted : Load(Call("update", x)) = 1
  /\ \A c \in Calls : Load(c) \in Int
<1>1. \A n \in Node : Load(Call("read", n)) = 0 /\ Load(Call("write", n)) = level[n]
  BY DEF Load, Call
<1>2. \A x \in Counted : Load(Call("update", x)) = 1
  BY DEF Load, Call
<1>3. ASSUME NEW c \in Calls PROVE Load(c) \in Int
  <2>1. CASE c.op = "write" /\ c.line \in Node
    <3>1. level[c.line] \in Int
      BY <2>1, Levels, ParentOf
    <3> QED BY <2>1, <3>1 DEF Load
  <2>2. CASE c.op = "read" \/ c.op = "update"
    BY <2>2 DEF Load
  <2> QED BY <2>1, <2>2 DEF Calls
<1> QED BY <1>1, <1>2, <1>3

\* A call adds its load to those of the stack.
LEMMA LoadsAppend ==
  ASSUME NEW s \in Seq(Calls), NEW c \in Calls
  PROVE  /\ Loads(s) \in Int
         /\ Loads(Append(s, c)) = Loads(s) + Load(c)
<1> DEFINE t == Append(s, c)
           L == Len(s)
           f == [k \in 1..Len(t) |-> Load(t[k])]
           g == [k \in 1..L |-> Load(s[k])]
<1>1. /\ L \in Nat /\ Len(t) = L + 1 /\ t[L + 1] = c
      /\ \A k \in 1..L : t[k] = s[k] /\ s[k] \in Calls
  BY LenProperties, ElementOfSeq
<1>2. 1..Len(t) = 1..L \cup {L + 1} /\ L + 1 \notin 1..L /\ IsFiniteSet(1..L)
  <2> HIDE DEF t, L
  <2>1. 1..(L + 1) = 1..L \cup {L + 1} /\ L + 1 \notin 1..L
    BY <1>1
  <2>2. IsFiniteSet(1..L)
    <3>1. 1 \in Int /\ L \in Int
      BY <1>1
    <3> QED BY <3>1, FS_Interval
  <2> QED BY <1>1, <2>1, <2>2
<1>3. \A k \in 1..L : g[k] = f[k] /\ g[k] \in Int
  BY <1>1, <1>2, LoadOfCall
<1>4. f[L + 1] = Load(c) /\ Load(c) \in Int
  BY <1>1, <1>2, LoadOfCall
<1>5. g \in [1..L -> Int] /\ f \in [1..L \cup {L + 1} -> Int]
  <2>1. \A k \in 1..L \cup {L + 1} : f[k] \in Int
    BY <1>3, <1>4
  <2>2. f \in [1..L \cup {L + 1} -> Int]
    <3>1. f = [k \in 1..L \cup {L + 1} |-> f[k]]
      BY <1>2
    <3> HIDE DEF f
    <3> QED BY <2>1, <3>1
  <2> QED BY <1>3, <2>2
<1>6. Loads(s) = SumOver(g, 1..L) /\ Loads(t) = SumOver(f, 1..L \cup {L + 1})
  BY <1>2, SumOverDomain DEF Loads
<1> HIDE DEF f, g, t, L
<1>7. SumOver(f, 1..L \cup {L + 1}) = SumOver(g, 1..L) + f[L + 1]
  <2> DEFINE D == 1..L
             c1 == L + 1
  <2>1. /\ IsFiniteSet(D) /\ c1 \notin D /\ f \in [D \cup {c1} -> Int] /\ g \in [D -> Int]
        /\ \A x \in D : g[x] = f[x]
    BY <1>2, <1>3, <1>5
  <2> HIDE DEF D, c1
  <2>2. SumOver(f, D \cup {c1}) = SumOver(g, D) + f[c1]
    BY <2>1, SumOfMore
  <2> QED BY <2>2 DEF D, c1
<1>8. SumOver(g, 1..L) \in Int
  BY <1>2, <1>5, SumIsNumber
<1> QED BY <1>4, <1>6, <1>7, <1>8 DEF t

\* The running call takes its load with it.
LEMMA LoadsFront ==
  ASSUME NEW s \in Seq(Calls), s # <<>>
  PROVE  /\ Loads(Front(s)) \in Int /\ Load(Last(s)) \in Int
         /\ Loads(s) = Loads(Front(s)) + Load(Last(s))
<1>1. Front(s) \in Seq(Calls) /\ Last(s) \in Calls
  BY FrontLast
<1>2. s = Append(Front(s), Last(s))
  BY FrontAndLast
<1>3. Loads(Append(Front(s), Last(s))) = Loads(Front(s)) + Load(Last(s))
  BY <1>1, LoadsAppend
<1> QED BY <1>1, <1>2, <1>3, LoadsAppend, LoadOfCall

\* What the dirty lines weigh is a number.
LEMMA CarriedNumber ==
  ASSUME NEW lines \in SUBSET Node
  PROVE  Carried(lines) \in Int
<1> DEFINE f == [m \in Node |-> IF m \in lines THEN level[m] ELSE 0]
<1>1. \A m \in Node : level[m] \in Int
  BY Levels, ParentOf
<1>2. f \in [Node -> Int] /\ IsFiniteSet(Node)
  BY <1>1, LevelAssumption
<1>3. Carried(lines) = SumOver(f, Node)
  BY SumOverDomain DEF Carried
<1> HIDE DEF f
<1> QED BY <1>2, <1>3, SumIsNumber

\* A line that becomes dirty weighs as much as its level.
LEMMA CarriedMore ==
  ASSUME NEW lines \in SUBSET Node, NEW n \in Node \ lines
  PROVE  /\ Carried(lines) \in Int /\ level[n] \in Nat
         /\ Carried(lines \cup {n}) = Carried(lines) + level[n]
<1> DEFINE f == [m \in Node |-> IF m \in lines THEN level[m] ELSE 0]
           g == [m \in Node |-> IF m \in lines \cup {n} THEN level[m] ELSE 0]
<1>1. \A m \in Node : level[m] \in Int /\ level[m] \in Nat
  BY Levels, ParentOf
<1>2. /\ f \in [Node -> Int] /\ f[n] = 0 /\ IsFiniteSet(Node)
      /\ g \in [Node -> Int] /\ g[n] = level[n] /\ level[n] \in Nat
      /\ \A m \in Node : m # n => g[m] = f[m]
  BY <1>1, LevelAssumption
<1>3. Carried(lines) = SumOver(f, Node) /\ Carried(lines \cup {n}) = SumOver(g, Node)
  BY SumOverDomain DEF Carried
<1> HIDE DEF f, g
<1>4. SumOver(g, Node) = SumOver(f, Node) + g[n] - f[n]
  BY <1>2, SumDiffers
<1>5. SumOver(f, Node) \in Int
  BY <1>2, SumIsNumber
<1> QED BY <1>2, <1>3, <1>4, <1>5

\* Installing a line adds at most its level: the line it throws out pays for
\* the calls that write it back.
LEMMA InstallWeighs ==
  ASSUME CacheInv, NEW n \in Node \ Cached, NEW asDirty \in BOOLEAN,
         NEW rest \in Seq(Calls), Install(n, asDirty, rest)
  PROVE  /\ Loads(rest) \in Int /\ Carried(dirty) \in Int /\ level[n] \in Nat
         /\ Carried(dirty') \in Int /\ Loads(stack') \in Int
         /\ Carried(dirty') + Loads(stack')
              <= Carried(dirty) + Loads(rest) + (IF asDirty THEN level[n] ELSE 0)
<1> DEFINE kept == dirty \ Victims(n)
           more == IF asDirty THEN level[n] ELSE 0
<1>1. Shape /\ dirty \in SUBSET Node /\ n \notin dirty
  BY DEF CacheInv, Shape
<1>2. kept \in SUBSET Node /\ n \in Node \ kept /\ n \in Node \ dirty
  BY <1>1
<1>3. /\ Carried(dirty) \in Int /\ Carried(kept) \in Int /\ level[n] \in Nat
      /\ Carried(kept \cup {n}) = Carried(kept) + level[n]
  <2> HIDE DEF kept
  <2> QED BY <1>1, <1>2, CarriedMore
<1>4. Carried(dirty') = Carried(kept) + more
  <2>1. dirty' = kept \cup (IF asDirty THEN {n} ELSE {})
    BY DEF Install
  <2>2. CASE asDirty
    BY <1>3, <2>1, <2>2
  <2>3. CASE ~asDirty
    <3>1. dirty' = kept
      BY <2>1, <2>3
    <3> HIDE DEF kept
    <3> QED BY <1>3, <2>3, <3>1
  <2> QED BY <2>2, <2>3
<1>5. Loads(rest) \in Int
  <2>1. Call("read", n) \in Calls
    BY CallTypes
  <2> QED BY <2>1, LoadsAppend
<1>6. Loads(stack') \in Int /\ Carried(kept) + Loads(stack') <= Carried(dirty) + Loads(rest)
  <2>1. CASE Victims(n) \cap dirty = {} /\ stack' = rest
    <3>1. kept = dirty
      BY <2>1
    <3> HIDE DEF kept
    <3> QED BY <1>3, <1>5, <2>1, <3>1
  <2>2. ASSUME NEW v \in Node, Victims(n) \cap dirty = {v}
        PROVE  Carried(dirty) = Carried(kept) + level[v] /\ level[v] \in Nat
    <3>1. v \in Node \ kept /\ dirty = kept \cup {v}
      BY <2>2
    <3> HIDE DEF kept
    <3> QED BY <1>2, <3>1, CarriedMore
  <2>3. ASSUME NEW v \in Node \ Counted, Victims(n) \cap dirty = {v}, stack' = rest
        PROVE  Loads(stack') \in Int
               /\ Carried(kept) + Loads(stack') <= Carried(dirty) + Loads(rest)
    <3> HIDE DEF kept
    <3>1. Carried(dirty) = Carried(kept) + level[v] /\ level[v] \in Nat
      BY <2>2, <2>3
    <3> QED BY <1>3, <1>5, <2>3, <3>1
  <2>4. ASSUME NEW v \in Node \cap Counted, Victims(n) \cap dirty = {v},
               stack' = Append(Append(Append(rest, Call("update", v)),
                                      Call("write", Parent[v])),
                               Call("read", Parent[v]))
        PROVE  Loads(stack') \in Int
               /\ Carried(kept) + Loads(stack') <= Carried(dirty) + Loads(rest)
    <3> DEFINE one == Append(rest, Call("update", v))
               two == Append(one, Call("write", Parent[v]))
    <3> HIDE DEF kept
    <3>1. /\ Call("update", v) \in Calls /\ Call("write", Parent[v]) \in Calls
          /\ Call("read", Parent[v]) \in Calls
      BY CallTypes, ParentOf
    <3>2. /\ Load(Call("update", v)) = 1 /\ Load(Call("write", Parent[v])) = level[Parent[v]]
          /\ Load(Call("read", Parent[v])) = 0
      BY LoadOfCall, ParentOf
    <3>3. one \in Seq(Calls) /\ two \in Seq(Calls)
      BY <3>1
    <3>4. Loads(one) = Loads(rest) + 1
      BY <3>1, <3>2, LoadsAppend
    <3>5. Loads(two) = Loads(one) + level[Parent[v]]
      <4> HIDE DEF one
      <4> QED BY <3>1, <3>2, <3>3, LoadsAppend
    <3>6. Loads(stack') = Loads(two) + 0
      <4> HIDE DEF two
      <4> QED BY <2>4, <3>1, <3>2, <3>3, LoadsAppend DEF two
    <3>7. level[v] = level[Parent[v]] + 1 /\ level[Parent[v]] \in Nat
      BY Levels, ParentOf
    <3>8. Carried(dirty) = Carried(kept) + level[v]
      BY <2>2, <2>4
    <3> HIDE DEF one, two
    <3> QED BY <1>3, <1>5, <3>4, <3>5, <3>6, <3>7, <3>8
  <2>5. \/ Victims(n) \cap dirty = {} /\ stack' = rest
        \/ \E v \in Node \ Counted : Victims(n) \cap dirty = {v} /\ stack' = rest
        \/ \E v \in Node \cap Counted :
             /\ Victims(n) \cap dirty = {v}
             /\ stack' = Append(Append(Append(rest, Call("update", v)),
                                       Call("write", Parent[v])),
                                Call("read", Parent[v]))
    BY <1>1, InstallCases
  <2> QED BY <2>1, <2>3, <2>4, <2>5
<1> HIDE DEF kept
<1> QED BY <1>3, <1>4, <1>5, <1>6

\* No call of a walk adds to the weight.
LEMMA WeightStep ==
  ASSUME CacheInv, Next, stack # <<>>
  PROVE  Weight' <= Weight
<1>1. Shape /\ stack \in Seq(Calls) /\ dirty \in SUBSET Node
  BY DEF CacheInv, Shape
<1> DEFINE rest == Front(stack)
<1>2. /\ rest \in Seq(Calls) /\ Loads(rest) \in Int /\ Load(Last(stack)) \in Int
      /\ Loads(stack) = Loads(rest) + Load(Last(stack))
  BY <1>1, FrontLast, LoadsFront
<1> HIDE DEF rest
<1>3. ASSUME NEW n \in Node, ReadHit(n) PROVE Weight' <= Weight
  <2>1. dirty' = dirty /\ stack' = rest /\ Load(Last(stack)) = 0
    BY <1>1, <1>3, Returning, LoadOfCall DEF ReadHit, rest
  <2>2. Loads(stack') = Loads(stack)
    BY <1>2, <2>1
  <2>3. Carried(dirty) \in Int
    BY <1>3, <1>1, CarriedNumber
  <2> QED BY <1>2, <2>1, <2>2, <2>3, WeightSplit
<1>4. ASSUME NEW n \in Node, ReadMiss(n) PROVE Weight' <= Weight
  <2> DEFINE next == IF Parent[n] = Root THEN Front(stack)
                     ELSE Append(Front(stack), Call("read", Parent[n]))
  <2>1. Runs("read", n) /\ n \in Node \ Cached /\ Install(n, FALSE, next)
    BY <1>4 DEF ReadMiss
  <2>2. next \in Seq(Calls)
    BY <1>1, <2>1, ReadingOn
  <2>3. Loads(next) = Loads(rest)
    <3>1. CASE Parent[n] = Root
      BY <3>1 DEF rest
    <3>2. CASE Parent[n] # Root
      <4>1. Parent[n] \in Node
        BY <3>2, ParentOf
      <4>2. Call("read", Parent[n]) \in Calls /\ Load(Call("read", Parent[n])) = 0
        BY <4>1, CallTypes, LoadOfCall
      <4>3. next = Append(rest, Call("read", Parent[n]))
        BY <3>2 DEF rest
      <4>4. Loads(Append(rest, Call("read", Parent[n])))
              = Loads(rest) + Load(Call("read", Parent[n]))
        BY <1>2, <4>2, LoadsAppend
      <4>5. Loads(next) = Loads(rest) + 0
        BY <4>2, <4>3, <4>4
      <4> HIDE DEF next
      <4> QED BY <1>2, <4>5
    <3> QED BY <3>1, <3>2
  <2>4. Load(Last(stack)) = 0
    BY <1>1, <2>1, Returning, LoadOfCall
  <2> HIDE DEF next
  <2>5. /\ Carried(dirty) \in Int /\ Carried(dirty') \in Int /\ Loads(stack') \in Int
        /\ Carried(dirty') + Loads(stack') <= Carried(dirty) + Loads(next) + 0
    BY <2>1, <2>2, InstallWeighs
  <2> QED BY <1>2, <2>3, <2>4, <2>5, WeightSplit
<1>5. ASSUME NEW n \in Node, WriteHit(n) PROVE Weight' <= Weight
  <2>1. dirty' = dirty \cup {n} /\ stack' = rest /\ Load(Last(stack)) = level[n]
    BY <1>1, <1>5, Returning, LoadOfCall DEF WriteHit, Dirtied, rest
  <2>2. Carried(dirty) \in Int /\ level[n] \in Nat
    BY <1>1, CarriedNumber, Levels, ParentOf
  <2>3. CASE n \in dirty
    <3>1. dirty' = dirty
      BY <2>1, <2>3
    <3> QED BY <1>2, <2>1, <2>2, <3>1, WeightSplit
  <2>4. CASE n \notin dirty
    <3>1. Carried(dirty') = Carried(dirty) + level[n]
      BY <1>1, <2>1, <2>4, CarriedMore
    <3> QED BY <1>2, <2>1, <2>2, <3>1, WeightSplit
  <2> QED BY <2>3, <2>4
<1>6. ASSUME NEW n \in Node, WriteMiss(n) PROVE Weight' <= Weight
  <2>1. Runs("write", n) /\ n \in Node \ Cached /\ Install(n, TRUE, rest)
    BY <1>6 DEF WriteMiss, rest
  <2>2. Load(Last(stack)) = level[n]
    BY <1>1, <2>1, Returning, LoadOfCall
  <2>3. /\ Carried(dirty) \in Int /\ Carried(dirty') \in Int /\ Loads(stack') \in Int
        /\ level[n] \in Nat
        /\ Carried(dirty') + Loads(stack') <= Carried(dirty) + Loads(rest) + level[n]
    BY <1>2, <2>1, InstallWeighs
  <2> QED BY <1>2, <2>2, <2>3, WeightSplit
<1>7. ASSUME NEW x \in Counted, Update(x) PROVE Weight' <= Weight
  <2>1. dirty' = dirty /\ stack' = rest /\ Load(Last(stack)) = 1
    BY <1>1, <1>7, Returning, LoadOfCall DEF Update, rest
  <2>2. Carried(dirty) \in Int
    BY <1>1, CarriedNumber
  <2> QED BY <1>2, <2>1, <2>2, WeightSplit
<1>8. ASSUME NEW d \in Data PROVE ~DataRead(d) /\ ~DataWriteback(d)
  BY DEF DataRead, DataWriteback, Idle
<1>9. ASSUME Reread PROVE Weight' <= Weight
  <2>1. dirty' = dirty /\ stack' = stack
    BY <1>9 DEF Reread
  <2>2. Carried(dirty) \in Int /\ Loads(stack) \in Int
    BY <1>1, <1>2, CarriedNumber
  <2> QED BY <2>1, <2>2, WeightSplit
<1> QED BY <1>3, <1>4, <1>5, <1>6, <1>7, <1>8, <1>9 DEF Next, Walk

\* Recursion is paid for: whatever read_ctr_mtree and write_ctr_mtree evict for
\* each other, each call moves dirtiness up the tree or ends, so calls never
\* nest deeper than the dirty lines weigh when a walk begins.
THEOREM NestingIsPaidFor == Spec => NestingPaidFor
<1>1. Init => CacheInv
  BY CacheInvInit
<1>2. CacheInv /\ [Next]_vars => CacheInv'
  BY CacheInvStep
<1>3. CacheInv /\ [Next]_vars => [stack # <<>> => Weight' <= Weight]_vars
  BY WeightStep
<1> QED
  BY <1>1, <1>2, <1>3, PTL DEF Spec, NestingPaidFor
=============================================================================
