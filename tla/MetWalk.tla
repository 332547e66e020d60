------------------------------ MODULE MetWalk ------------------------------
(***************************************************************************)
(* How the counters and the integrity tree move between memory and the     *)
(* metadata cache: read_ctr_mtree and write_ctr_mtree, which call each     *)
(* other recursively when installing a line evicts a dirty one, and        *)
(* handle_dirty_wb_LLC, which starts them for a data line.                 *)
(*                                                                         *)
(* Metadata are cachelines (nodes) in a tree.  The counter of a node, or   *)
(* of a data line, is held by its parent, and is incremented whenever the  *)
(* node is written to memory.  The root stays on chip: it is neither       *)
(* cached nor counted.  The recursion is made explicit by a stack of       *)
(* calls, the one running last.                                            *)
(***************************************************************************)
EXTENDS Integers, SequencesExt

CONSTANTS
  Data,      \* data cachelines
  Node,      \* metadata cachelines below the root
  Root,      \* the root of the tree, level 0
  Parent,    \* getCounterAddr, getMtreeEntry and getMtreeEvictParent
  Siblings,  \* getCtrChild: the nodes that share x's major counter, by address
  SetOf,     \* mcache_get_index: the set a node is cached in
  Assoc      \* assocs: the lines of a set

Line == Data \cup Node
Counted == {x \in Line : Parent[x] # Root}

ASSUME TreeAssumption ==
  /\ Root \notin Line
  /\ Data \cap Node = {}
  /\ Parent \in [Line -> Node \cup {Root}]
  /\ \A d \in Data : Parent[d] \in Node

\* The children of a line of data counters are data, which this cache never
\* holds: insert_overflow_mem_accesses looks in it for partitions 1 and 2 only.
ASSUME SiblingAssumption ==
  /\ Siblings \in [Counted -> Seq(Node)]
  /\ \A d \in Data : Siblings[d] = <<>>

ASSUME CacheAssumption ==
  /\ DOMAIN SetOf = Node
  /\ Assoc \in Nat \ {0}

VARIABLES
  ways,      \* ways[s]: the valid lines of set s, least recently used first
  dirty,     \* the cached lines whose dirty flag is set
  stack,     \* calls under way, the running one last
  reread,    \* nodes insert_overflow_mem_accesses has still to access
  owed,      \* owed[x]: writes of x to memory less increments of its counter
  stale      \* lines whose counter in memory is not the latest

vars == <<ways, dirty, stack, reread, owed, stale>>

Sets     == {SetOf[n] : n \in Node}
Cached   == {n \in Node : n \in Range(ways[SetOf[n]])}
Call(op, x) == [op |-> op, line |-> x]
Calls       == [op : {"read", "write"}, line : Node]
                 \cup [op : {"update"}, line : Counted]

-----------------------------------------------------------------------------
(* The metadata cache.                                                     *)

Without(s, n) == RemoveAt(s, CHOOSE i \in 1..Len(s) : s[i] = n)

\* Mutant: a hit leaves the old position in place.
TouchedTwice(n) == [ways EXCEPT ![SetOf[n]] = Append(@, n)]

\* mcache_access_markdirty: a hit makes n the most recently used line.
Touched(n) == [ways EXCEPT ![SetOf[n]] = Append(Without(@, n), n)]

Dirtied(n) == dirty \cup {n}

Full(n) == Len(ways[SetOf[n]]) >= Assoc

\* The victim of installing n: an invalid way first, else the LRU line.
Victims(n) == IF Full(n) THEN {Head(ways[SetOf[n]])} ELSE {}

Installed(n) ==
  [ways EXCEPT ![SetOf[n]] = Append(IF Full(n) THEN Tail(@) ELSE @, n)]

-----------------------------------------------------------------------------
(* The calls.                                                              *)

Running == Last(stack)
Runs(op, x) == reread = <<>> /\ stack # <<>> /\ Running = Call(op, x)

\* Mutants: the counter of an evicted line is not incremented; it is before
\* its parent is read; the line is made dirty again instead of its parent; a
\* line whose parent is the root is made dirty itself.
WritebackCallsUncounted(v) ==
  IF Parent[v] = Root THEN <<>>
  ELSE <<Call("write", Parent[v]), Call("read", Parent[v])>>
WritebackCallsEarly(v) ==
  IF Parent[v] = Root THEN <<>>
  ELSE <<Call("write", Parent[v]), Call("read", Parent[v]), Call("update", v)>>
WritebackCallsSelf(v) ==
  IF Parent[v] = Root THEN <<>>
  ELSE <<Call("update", v), Call("write", v), Call("read", Parent[v])>>
WritebackCallsTop(v) ==
  IF Parent[v] = Root THEN <<Call("write", v)>>
  ELSE <<Call("update", v), Call("write", Parent[v]), Call("read", Parent[v])>>

\* What follows the write of an evicted dirty line v, last call first.
WritebackCalls(v) ==
  IF Parent[v] = Root THEN <<>>
  ELSE <<Call("update", v), Call("write", Parent[v]), Call("read", Parent[v])>>

\* Install n; a dirty victim is written to memory before the calls in rest
\* go on, its counter being incremented on the way.
Install(n, asDirty, rest) ==
  LET written == Victims(n) \cap dirty
  IN  /\ ways' = Installed(n)
      /\ dirty' = (dirty \ Victims(n)) \cup (IF asDirty THEN {n} ELSE {})
      /\ stack' = IF written = {} THEN rest
                  ELSE rest \o WritebackCalls(CHOOSE v \in written : TRUE)
      /\ owed' = [x \in Counted |->
                    owed[x] + (IF x \in written THEN 1 ELSE 0)]
      /\ stale' = {x \in stale : Parent[x] \notin written}
      /\ UNCHANGED reread

\* read_ctr_mtree finds n in the cache: the walk up the tree ends.
ReadHit(n) ==
  /\ Runs("read", n)
  /\ n \in Cached
  /\ ways' = Touched(n)
  /\ stack' = Front(stack)
  /\ UNCHANGED <<dirty, reread, owed, stale>>

\* It does not: n is read from memory, and the walk goes on with its parent.
ReadMiss(n) ==
  /\ Runs("read", n)
  /\ n \notin Cached
  /\ Install(n, FALSE,
             IF Parent[n] = Root THEN Front(stack)
             ELSE Append(Front(stack), Call("read", Parent[n])))

\* write_ctr_mtree finds n in the cache and marks it dirty.
WriteHit(n) ==
  /\ Runs("write", n)
  /\ n \in Cached
  /\ ways' = Touched(n)
  /\ dirty' = Dirtied(n)
  /\ stack' = Front(stack)
  /\ UNCHANGED <<reread, owed, stale>>

\* It does not: n is installed dirty.
WriteMiss(n) ==
  /\ Runs("write", n)
  /\ n \notin Cached
  /\ Install(n, TRUE, Front(stack))

\* update_ctr_cls_wrapper: the counter of x is incremented.  If its minor
\* overflows, the lines that share its major are read and encrypted anew:
\* insert_overflow_mem_accesses goes through them before the call returns.
Update(x) ==
  /\ Runs("update", x)
  /\ owed' = [owed EXCEPT ![x] = @ - 1]
  /\ stale' = stale \cup {x}
  /\ stack' = Front(stack)
  /\ \E overflow \in BOOLEAN : reread' = IF overflow THEN Siblings[x] ELSE <<>>
  /\ UNCHANGED <<ways, dirty>>

\* Those of them that are cached become the most recently used.
Reread ==
  /\ reread # <<>>
  /\ ways' = IF Head(reread) \in Cached THEN Touched(Head(reread)) ELSE ways
  /\ reread' = Tail(reread)
  /\ UNCHANGED <<dirty, stack, owed, stale>>

Idle == stack = <<>> /\ reread = <<>>

Walk == \/ \E n \in Node : ReadHit(n) \/ ReadMiss(n) \/ WriteHit(n) \/ WriteMiss(n)
        \/ \E x \in Counted : Update(x)
        \/ Reread

\* A data line is read from memory, and its counter with it.
DataRead(d) ==
  /\ Idle
  /\ stack' = <<Call("read", Parent[d])>>
  /\ UNCHANGED <<ways, dirty, reread, owed, stale>>

\* Mutant: the counter of a data line is incremented before it is read.
HandleCallsEarly(d) ==
  <<Call("write", Parent[d]), Call("read", Parent[d]), Call("update", d)>>

HandleCalls(d) ==
  <<Call("write", Parent[d]), Call("update", d), Call("read", Parent[d])>>

\* handle_dirty_wb_LLC: a dirty data line is written to memory.
DataWriteback(d) ==
  /\ Idle
  /\ stack' = HandleCalls(d)
  /\ owed' = [owed EXCEPT ![d] = @ + 1]
  /\ UNCHANGED <<ways, dirty, reread, stale>>

Init ==
  /\ ways = [s \in Sets |-> <<>>]
  /\ dirty = {}
  /\ stack = <<>>
  /\ reread = <<>>
  /\ owed = [x \in Counted |-> 0]
  /\ stale = {}

Next == Walk \/ \E d \in Data : DataRead(d) \/ DataWriteback(d)

Spec == Init /\ [][Next]_vars /\ WF_vars(Walk)

-----------------------------------------------------------------------------
(* Properties.                                                             *)

\* Sets hold each line once and no more lines than they have ways; only
\* cached lines are dirty.
TypeOK ==
  /\ ways \in [Sets -> Seq(Node)]
  /\ \A s \in Sets :
       /\ Len(ways[s]) <= Assoc
       /\ \A i, j \in 1..Len(ways[s]) : ways[s][i] = ways[s][j] => i = j
  /\ dirty \in SUBSET Cached
  /\ stack \in Seq(Calls)
  /\ reread \in Seq(Node)
  /\ owed \in [Counted -> Int]
  /\ stale \in SUBSET Counted

Pending(x) ==
  Cardinality({k \in 1..Len(stack) : stack[k] = Call("update", x)})

\* Every write of a line to memory goes with one increment of its counter:
\* what is still owed is exactly what calls under way will do, however
\* deeply evictions nest.  (What an overflow encrypts anew is written under the
\* major counter that was incremented for it, and owes nothing.)
Accounted == \A x \in Counted : owed[x] = Pending(x)

\* The latest counter of a data line is never lost: it is in memory, or in a
\* dirty line of the cache, or write_ctr_mtree is about to make it so.
DataCountersSurvive ==
  \A d \in Data : \/ d \notin stale
                  \/ Parent[d] \in dirty
                  \/ Runs("write", Parent[d])

\* The same for the counters of the tree.  They are incremented only after
\* write_ctr_mtree, whose own evictions must not have thrown out the line.
\* That is not so for every tree and every cache: nested evictions throw it
\* out of direct-mapped sets, and of larger ones when enough levels share them.
TreeCountersSurvive ==
  \A x \in Node \cap Counted : \/ x \notin stale
                               \/ Parent[x] \in dirty

level[x \in Line] == IF Parent[x] = Root THEN 1 ELSE level[Parent[x]] + 1

\* Going up from a line ends at the root (mtree_level falls to 0), and memory
\* holds finitely many lines.
ASSUME LevelAssumption ==
  /\ IsFiniteSet(Node)
  /\ \A x \in Line : /\ level[x] \in Nat
                     /\ level[x] = IF Parent[x] = Root THEN 1 ELSE level[Parent[x]] + 1

Load(call) == CASE call.op = "write"  -> level[call.line]
                [] call.op = "update" -> 1
                [] call.op = "read"   -> 0

Weight ==
  SumFunction([n \in Node |-> IF n \in dirty THEN level[n] ELSE 0])
    + SumFunction([k \in 1..Len(stack) |-> Load(stack[k])])

\* Recursion is paid for by dirty lines moving up the tree: no step of a
\* walk adds to the levels of the dirty lines and of those about to become
\* dirty, with one for each increment under way.  So calls nest at most as
\* deep as the dirty lines weigh when the walk starts.
NestingPaidFor == [][stack # <<>> => Weight' <= Weight]_vars

\* Every walk ends: the recursion does not go on evicting for ever.
WalksEnd == []<>Idle
=============================================================================
