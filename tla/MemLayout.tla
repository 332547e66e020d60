----------------------------- MODULE MemLayout -----------------------------
(***************************************************************************)
(* Where the counters, the levels of the integrity tree and the MACs lie   *)
(* in memory, and the ways from one to the next (memOrg.c).                *)
(*                                                                         *)
(* Memory is laid out, from address 0, as data, tree (root first),         *)
(* counters, MACs.  Level o.levels are the counters, level 0 is the root   *)
(* line.  A walk goes up by the NUMBERS of the entries (getMtreeEntry); a  *)
(* line thrown out of the metadata cache is only known by its ADDRESS, and *)
(* its parent is found from that (getMtreeEvictParent); the overflow of a  *)
(* counter goes down again (getCtrChild).  The three must agree.           *)
(***************************************************************************)
EXTENDS Naturals, Sequences

CONSTANTS
  Memories,   \* the configurations: address bits, counter design, designs of the tree from the leaves up
  IntMax,     \* the greatest int: entry numbers of evicted lines are kept in one
  NoEntry     \* no walk is under way

VARIABLES
  org,        \* memOrg_t with the tables that init_memOrg fills
  met         \* the entry a walk is at, or NoEntry

layoutVars == <<org, met>>

CacheLine == 64
MacSize   == 8

\* Counters in a line by the size of a counter: CACHE_LINE / CTR_SIZE, and likewise for the tree.
InLine == [MONO8 |-> 8,        SPLIT16 |-> 16,     SPLIT16_v1 |-> 16,   SPLIT32 |-> 32,
           SPLIT32_v1 |-> 32,  SPLIT64 |-> 64,     SPLIT64_v1 |-> 64,   SPLIT128 |-> 128,
           SPLIT128_v1 |-> 128, SPLIT256 |-> 256,  SPLIT512 |-> 512]

\* CTRS_PER_MTREE, a table of its own, in which two designs fall short of their lines.
CtrsPerMtree == [InLine EXCEPT !.SPLIT16 = 8, !.SPLIT32 = 16]

\* 16 bits of address, so that the counters fill more than one line in every design
\* and there is a tree; entry numbers that fit an int; and, for the two designs that
\* the assertion of init_memOrg is to refuse, lines enough for a tree of two levels:
\* over one level it lets them pass.
ASSUME MemoryAssumption ==
  /\ IntMax \in Nat
  /\ \A m \in Memories :
       /\ m.bits \in Nat /\ m.bits >= 16
       /\ m.ctr \in DOMAIN InLine /\ m.tree \in [1 .. 5 -> DOMAIN InLine]
       /\ (2 ^ m.bits) \div CacheLine <= IntMax + 1
       /\ CtrsPerMtree[m.ctr] # InLine[m.ctr] =>
            2 ^ m.bits >= 2 * CacheLine * InLine[m.ctr] * InLine[m.tree[1]]

\* The design of the level i above the leaves: the fifth one serves all further levels.
DesignAt(tree, i) == InLine[tree[(IF i > 4 THEN 4 ELSE i) + 1]]

\* Entries of size CACHE_LINE / per fill this many bytes.
BytesOf(n, per) == (n * CacheLine) \div per

\* Sizes of what lies i levels above the counters, for i to n: one entry for each line below.
Shrunk(tree, store, n) ==
  LET size[i \in 0 .. n] ==
        IF i = 0 THEN store ELSE BytesOf(size[i - 1] \div CacheLine, DesignAt(tree, i - 1))
  IN size

\* num_mtree_levels: the level that fits into a line is the last one.
LevelsOf(size, n) ==
  CHOOSE l \in 1 .. n : size[l] <= CacheLine /\ \A i \in 0 .. l - 1 : size[i] > CacheLine

\* mtree_total_size.
Total(size, n) ==
  LET sum[i \in 0 .. n] == IF i = 0 THEN 0 ELSE sum[i - 1] + size[i]
  IN sum[n]

\* mtree_level_size: the tree grown again, from the root down.
Grown(tree, root, levels) ==
  LET bytes[i \in 0 .. levels - 1] ==
        IF i = 0 THEN CacheLine
        ELSE IF i = 1 THEN bytes[0] * root ELSE bytes[i - 1] * DesignAt(tree, levels - i)
  IN bytes

\* mtree_levels_start_addr: each level after the one above, the counters after the store of the tree.
Starts(first, store, bytes, levels) ==
  LET start[i \in 0 .. levels] ==
        IF i = 0 THEN first ELSE IF i = levels THEN first + store ELSE start[i - 1] + bytes[i - 1]
  IN start

InitMemOrg(m) ==
  LET lines  == (2 ^ m.bits) \div CacheLine
      mac    == lines * MacSize
      ctr    == BytesOf(lines, InLine[m.ctr])
      size   == Shrunk(m.tree, ctr, m.bits)
      levels == LevelsOf(size, m.bits)
      total  == Total(size, levels)
      store  == IF size[1] * 2 > total THEN size[1] * 2 ELSE total
      root   == (size[levels] * DesignAt(m.tree, levels - 1)) \div CacheLine
      bytes  == Grown(m.tree, root, levels)
      top    == levels - 1
      arity(i) == DesignAt(m.tree, top - i)
  IN [config |-> m, mem_size |-> 2 ^ m.bits, MAC_store_size |-> mac, ctr_store_size |-> ctr,
      mtree_store_size |-> store, num_Mtree_root |-> root, num_Mtree_levels |-> levels,
      mtree_level_size |-> bytes,
      mtree_levels_start_addr |-> Starts(2 ^ m.bits - mac - ctr - store, store, bytes, levels),
      inLine |-> [i \in 0 .. levels |-> IF i = levels THEN InLine[m.ctr] ELSE arity(i)],
      arity  |-> [i \in 0 .. levels |-> IF i = levels THEN CtrsPerMtree[m.ctr] ELSE arity(i)],
      \* the assertion that ends init_memOrg for a design whose lines are not full
      tallies |-> ((bytes[top] * arity(top)) \div CacheLine)
                    * BytesOf(CtrsPerMtree[m.ctr], InLine[m.ctr]) = ctr]

-----------------------------------------------------------------------------
LineAddr(a) == a - (a % CacheLine)

getMACAddr(o, a) == o.mem_size - o.MAC_store_size + (a \div CacheLine) * MacSize

\* getOSVisibleMem: the bytes below the metadata.
Visible(o) == o.mem_size - o.MAC_store_size - o.ctr_store_size - o.mtree_store_size

get_partition(o, a) ==
  IF a < Visible(o) THEN 0
  ELSE IF a < Visible(o) + o.mtree_store_size THEN 1
  ELSE IF a < Visible(o) + o.mtree_store_size + o.ctr_store_size THEN 2 ELSE 3

Entry(o, l, n) ==
  [mtree_level |-> l, entry_num |-> n,
   paddr |-> o.mtree_levels_start_addr[l] + BytesOf(n, o.inLine[l])]

getCounterAddr(o, a) == Entry(o, o.num_Mtree_levels, a \div CacheLine)

getMtreeEntry(o, s) ==
  IF s.mtree_level = 0 THEN s
  ELSE Entry(o, s.mtree_level - 1, s.entry_num \div o.arity[s.mtree_level])

\* Mutant: the first address of a level is taken for the level above.
LevelOfStrict(o, a) ==
  CHOOSE l \in 0 .. o.num_Mtree_levels :
    /\ o.mtree_levels_start_addr[l] < a \/ l = 0
    /\ \A k \in l + 1 .. o.num_Mtree_levels : a <= o.mtree_levels_start_addr[k]

\* The level an address lies in: the last one that starts at or below it.
LevelOf(o, a) ==
  CHOOSE l \in 0 .. o.num_Mtree_levels :
    /\ o.mtree_levels_start_addr[l] <= a
    /\ \A k \in l + 1 .. o.num_Mtree_levels : a < o.mtree_levels_start_addr[k]

\* The first entry that lies at the address a of level l.
NumberAt(o, l, a) == ((a - o.mtree_levels_start_addr[l]) * o.inLine[l]) \div CacheLine

\* An int keeps the low bits of a number; a negative one is not an entry of any level.
AsInt(n) == IF n <= IntMax THEN n ELSE n % (IntMax + 1)

\* Mutant: the size of the entries of the level above is used for those of the evicted line.
getMtreeEvictParentSize(o, a) ==
  LET l == LevelOf(o, a)
      n == ((a - o.mtree_levels_start_addr[l]) * o.inLine[IF l = 0 THEN 0 ELSE l - 1]) \div CacheLine
  IN getMtreeEntry(o, [mtree_level |-> l, entry_num |-> AsInt(n), paddr |-> a])

getMtreeEvictParent(o, a) ==
  LET l == LevelOf(o, a)
  IN getMtreeEntry(o, [mtree_level |-> l, entry_num |-> AsInt(NumberAt(o, l, a)), paddr |-> a])

\* Mutant: the children are numbered by bytes of the line instead of by its entries.
getCtrChildBytes(o, a) ==
  LET l == LevelOf(o, LineAddr(a))
      n == LineAddr(a) - o.mtree_levels_start_addr[l]
      base == IF l = o.num_Mtree_levels THEN 0 ELSE o.mtree_levels_start_addr[l + 1]
  IN [child_paddr |-> base + n * CacheLine, num_children |-> o.inLine[l]]

getCtrChild(o, a) ==
  LET l == LevelOf(o, LineAddr(a))
      n == NumberAt(o, l, LineAddr(a))
      base == IF l = o.num_Mtree_levels THEN 0 ELSE o.mtree_levels_start_addr[l + 1]
  IN [child_paddr |-> base + n * CacheLine, num_children |-> o.inLine[l]]

\* The counts of MET_Cache_Stats that cache_access charges an access of entry e
\* to: all metadata, counters or tree, and the level of the tree.
Slots(o, e) ==
  IF e.mtree_level = o.num_Mtree_levels THEN {1, 2} ELSE {1, 3, 4 + e.mtree_level}

\* What it asserts before.
Accepted(o, e) ==
  IF e.mtree_level = o.num_Mtree_levels
  THEN get_partition(o, e.paddr) = 2
  ELSE /\ get_partition(o, e.paddr) = 1
       /\ getMtreeEvictParent(o, e.paddr).mtree_level + 1 = e.mtree_level
       /\ 4 + e.mtree_level < 4 + o.num_Mtree_levels

-----------------------------------------------------------------------------
LayoutInit ==
  /\ \E m \in Memories : org = InitMemOrg(m)
  /\ met = NoEntry

DataLines(o) == { n * CacheLine : n \in 0 .. (Visible(o) \div CacheLine) - 1 }

\* A data line misses: its counter is looked up.
LookUp ==
  /\ org.tallies
  /\ met = NoEntry
  /\ \E a \in DataLines(org) : met' = getCounterAddr(org, a)
  /\ UNCHANGED org

\* The counter, or the entry of the tree, is not in the metadata cache either.
Climb ==
  /\ met # NoEntry
  /\ met.mtree_level > 0
  /\ met' = getMtreeEntry(org, met)
  /\ UNCHANGED org

\* The line of met is thrown out dirty and its parent is to be updated.
Evicted ==
  /\ met # NoEntry
  /\ met.mtree_level > 0
  /\ met' = getMtreeEvictParent(org, LineAddr(met.paddr))
  /\ UNCHANGED org

\* The root line is on the chip: the walk ends.
Rooted ==
  /\ met # NoEntry
  /\ met.mtree_level = 0
  /\ met' = NoEntry
  /\ UNCHANGED org

LayoutNext == LookUp \/ Climb \/ Evicted \/ Rooted

LayoutSpec == LayoutInit /\ [][LayoutNext]_layoutVars

-----------------------------------------------------------------------------
(***************************************************************************)
(* Type correctness: an entry has a number that its level has, and lies in *)
(* the bytes of its level (the assertions of getCounterAddr and            *)
(* getMtreeEntry).                                                         *)
(***************************************************************************)
SizeOf(l) == IF l = org.num_Mtree_levels THEN org.ctr_store_size ELSE org.mtree_level_size[l]

EntryTypeOK ==
  met # NoEntry =>
    /\ met.mtree_level \in 0 .. org.num_Mtree_levels
    /\ met.paddr >= org.mtree_levels_start_addr[met.mtree_level]
    /\ met.paddr < org.mtree_levels_start_addr[met.mtree_level] + SizeOf(met.mtree_level)
    /\ (met.mtree_level < org.num_Mtree_levels) =>
         (met.paddr < org.mtree_levels_start_addr[met.mtree_level + 1])

(***************************************************************************)
(* Every access on a walk passes the assertions of cache_access: the level *)
(* that was handed along with the address is the level of the address,     *)
(* counted again from the start addresses, so that an access is charged to *)
(* the statistics of its own level.                                        *)
(***************************************************************************)
LevelsAgree ==
  (met # NoEntry /\ met.mtree_level > 0) =>
    /\ Accepted(org, met)
    /\ get_partition(org, met.paddr) = 2 <=> Slots(org, met) = {1, 2}

(***************************************************************************)
(* The parent found from the address of an evicted line is the entry that  *)
(* a walk from any counter of that line goes to (test_mtree.c:7-21 means   *)
(* to check it, line by line of a memory of 2^34 bytes, in a loop that is  *)
(* commented out), so the counter of a line that is written back is the    *)
(* one that is checked when it is read again.                              *)
(***************************************************************************)
SameParent ==
  (met # NoEntry /\ met.mtree_level > 0) =>
    /\ getMtreeEvictParent(org, met.paddr) = getMtreeEntry(org, met)
    /\ getMtreeEvictParent(org, LineAddr(met.paddr)) = getMtreeEntry(org, met)

(***************************************************************************)
(* The way up by address is the way up by number: an entry lies in its     *)
(* level, and its level and its parent are found again from its address.   *)
(***************************************************************************)
WaysUpAgree == EntryTypeOK /\ LevelsAgree /\ SameParent

(***************************************************************************)
(* Downwards is the way back: the line of an entry is one of the children  *)
(* that getCtrChild finds for its parent, so the overflow of the parent    *)
(* re-encrypts it, and the children of a parent's line are those alone     *)
(* whose parent lies in that line.                                         *)
(***************************************************************************)
ChildrenOf(o, a) ==
  LET c == getCtrChild(o, a) IN { c.child_paddr + i * CacheLine : i \in 0 .. c.num_children - 1 }

\* The lines that getCtrChild finds for the line of e are its own.
OwnChildren(o, e) ==
  \A c \in ChildrenOf(o, e.paddr) :
    IF e.mtree_level = o.num_Mtree_levels
    THEN LineAddr(getCounterAddr(o, c).paddr) = LineAddr(e.paddr)
    ELSE LineAddr(getMtreeEvictParent(o, c).paddr) = LineAddr(e.paddr)

ReencryptsItsOwn ==
  (met # NoEntry /\ met.mtree_level > 0) =>
    /\ LineAddr(met.paddr) \in ChildrenOf(org, getMtreeEntry(org, met).paddr)
    /\ met.paddr = LineAddr(met.paddr) => OwnChildren(org, met)
=============================================================================
