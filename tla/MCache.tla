------------------------------- MODULE MCache -------------------------------
(***************************************************************************)
(* One set of a set-associative cache (mcache.c) under every replacement   *)
(* policy.  As its callers do, an access that misses is followed by the    *)
(* install of the line (cache_access, then cache_install).  What the       *)
(* other leader sets of a set-dueling policy do is seen through psel only. *)
(***************************************************************************)
EXTENDS Integers, FiniteSetsExt, SequencesExt

CONSTANTS
  Tag,              \* lines that map to the set
  TreeTag,          \* those of the integrity tree: partition 1
  Tid,              \* threads
  Assocs,           \* bound: the numbers of ways looked at
  MCACHE_SRRIP_MAX, \* 7: the ripctr of a line that was hit
  MCACHE_PSEL_MAX,  \* 1023
  MetPrios,         \* bound: the priorities for tree lines looked at
  Wrap              \* the occupancy counts are unsigned: they wrap here

ASSUME CacheAssumption ==
  /\ TreeTag \subseteq Tag /\ Tag # {}
  /\ Tid # {} /\ IsFiniteSet(Tid)
  /\ Assocs \subseteq Nat \ {0}
  /\ MCACHE_SRRIP_MAX \in Nat \ {0} /\ MCACHE_PSEL_MAX \in Nat \ {0}
  /\ MetPrios \subseteq 0..MCACHE_SRRIP_MAX
  /\ Wrap \in Nat /\ \A n \in Assocs : Wrap > n

VARIABLES
  assocs, repl_policy, met_install_prio,  \* fixed when the cache is made
  role,              \* whether the set leads for a policy: is_leader_p0, _p1
  entries,           \* entries[w]: valid, dirty, tag, ripctr, tid of a way
  last,              \* order of the last_access stamps, 0 if never stamped
  fifo_ptr, psel,
  total_lines_thread,
  evicted,           \* the entry this call returned
  order,             \* history: lines in the order LRU or FIFO goes by
  cold               \* history: lines installed without a stamp, not hit since

fixed == <<assocs, repl_policy, met_install_prio, role>>
vars  == <<fixed, entries, last, fifo_ptr, psel, total_lines_thread, evicted,
           order, cold>>

Nothing == [valid |-> FALSE, dirty |-> FALSE, tag |-> CHOOSE t \in Tag : TRUE]

MCACHE_BRRIP_INSTALL == {0, 1}   \* the regular and the rare one
MCACHE_SRRIP_INSTALL == 1
NotAware == -1

Rrip    == {"SRRIP", "BRRIP", "DRRIP"}
Dueling == {"DRRIP", "DIP"}
Policy  == Rrip \cup {"LRU", "RND", "FIFO", "DIP"}

\* init_met_rrip: the priorities of the policies that are aware of metadata.
MetPrio(p) ==
  CASE p \in {"SRRIP", "BRRIP"} -> 0..3
    [] p = "DRRIP" -> 0..7
    [] OTHER -> {}

Way       == 0..(assocs - 1)
Valid     == {w \in Way : entries[w].valid}
Least(S)  == CHOOSE w \in S : \A v \in S : w <= v
Holds(t)  == {w \in Valid : entries[w].tag = t}
Cached    == {entries[w].tag : w \in Valid}

-----------------------------------------------------------------------------
(* The victim.                                                             *)

\* mcache_find_victim_lru
Lowest(f) == {w \in Way : \A v \in Way : f[w] <= f[v]}
LruVictim == Least(Lowest(last))

ripctr == [w \in Way |-> entries[w].ripctr]

\* mcache_find_victim_srrip: all counters go down until one is zero.
SrripVictim == Least(Lowest(ripctr))

Victims ==
  IF Valid # Way THEN {Least(Way \ Valid)}
  ELSE CASE repl_policy \in {"LRU", "DIP"} -> {LruVictim}
         [] repl_policy = "RND"  -> Way
         [] repl_policy = "FIFO" -> {fifo_ptr}
         [] OTHER -> {SrripVictim}

\* Mutant: the counters go down before the search for a zero.
AgedByOne == IF Valid = Way /\ repl_policy \in Rrip THEN 1 ELSE 0

\* By how much the counters went down in the search.
Aged ==
  IF Valid = Way /\ repl_policy \in Rrip THEN ripctr[SrripVictim] ELSE 0

-----------------------------------------------------------------------------
(* How lines are installed.                                                *)

HalfPsel == (MCACHE_PSEL_MAX + 1) \div 2

\* Policy 1 (SRRIP, or LRU) rather than policy 0 (BRRIP, or BIP).
PolicyOne == IF role = "follower" THEN psel >= HalfPsel ELSE role = "p1"

\* A miss in a leader set counts against its policy.
NextPsel(r) ==
  CASE r = "p0" /\ psel < MCACHE_PSEL_MAX -> psel + 1
    [] r = "p1" /\ psel > 0 -> psel - 1
    [] OTHER -> psel

\* mcache_brrip_get_ripctrval, mcache_drrip_get_ripctrval, and the priority of
\* tree lines, which goes before them.
RipctrVals(t) ==
  IF met_install_prio # NotAware /\ t \in TreeTag THEN {met_install_prio}
  ELSE IF repl_policy = "BRRIP" \/ (repl_policy = "DRRIP" /\ ~PolicyOne)
       THEN MCACHE_BRRIP_INSTALL
       ELSE {MCACHE_SRRIP_INSTALL}

\* mcache_dip_check_lru_update
StampChoices == IF repl_policy = "DIP" /\ ~PolicyOne THEN BOOLEAN ELSE {TRUE}

\* Mutant: a way that has a stamp keeps it.
StampedOnce(w) ==
  [v \in Way |-> IF last[w] > 0 THEN last[v]
                 ELSE IF v = w THEN assocs ELSE last[v] - (IF last[v] > 0 THEN 1 ELSE 0)]

\* The way is stamped with the count of accesses, the newest of all stamps.
Stamped(w) ==
  [v \in Way |-> IF v = w THEN assocs
                 ELSE IF last[v] > last[w] THEN last[v] - 1 ELSE last[v]]

Place(t)   == CHOOSE i \in DOMAIN order : order[i] = t
Without(t) == RemoveAt(order, Place(t))

\* Mutant: the line that goes is not taken off the count of its thread.
CountedUp(tid, w) ==
  [total_lines_thread EXCEPT ![tid] = (@ + 1) % Wrap]

\* The occupancy of the thread that installs, and of the one that owns the
\* line that goes.
Counted(tid, w) ==
  LET up == [total_lines_thread EXCEPT ![tid] = (@ + 1) % Wrap]
  IN  IF entries[w].valid
      THEN [up EXCEPT ![entries[w].tid] = (@ - 1) % Wrap] ELSE up

-----------------------------------------------------------------------------
\* A hit raises the counter; a write-back also takes the line over.
Marked(e, dirty, tid) ==
  IF dirty
  THEN [e EXCEPT !.ripctr = MCACHE_SRRIP_MAX, !.dirty = TRUE, !.tid = tid]
  ELSE [e EXCEPT !.ripctr = MCACHE_SRRIP_MAX]

\* mcache_access_markdirty, and mcache_mark_dirty on a write.
Hit(t, dirty, tid) ==
  \E w \in Holds(t) :
    /\ entries' = [entries EXCEPT ![w] = Marked(@, dirty, tid)]
    /\ last' = Stamped(w)
    /\ order' = IF repl_policy = "FIFO" THEN order ELSE Append(Without(t), t)
    /\ cold' = cold \ {t}
    /\ UNCHANGED <<fixed, fifo_ptr, psel, total_lines_thread>>
    /\ evicted' = Nothing

FifoNext == (fifo_ptr + 1) % assocs

\* mcache_install_withevicts
Install(t, dirty, tid) ==
  \E w \in Victims, rip \in RipctrVals(t), stamp \in StampChoices :
    LET old == entries[w]
        new == [valid |-> TRUE, dirty |-> dirty, tag |-> t, ripctr |-> rip,
                tid |-> tid]
    IN  /\ evicted' = [valid |-> old.valid, dirty |-> old.dirty, tag |-> old.tag]
        /\ entries' = [v \in Way |-> IF v = w THEN new
                                     ELSE [entries[v] EXCEPT !.ripctr = @ - Aged]]
        /\ last' = IF stamp THEN Stamped(w) ELSE last
        /\ total_lines_thread' = Counted(tid, w)
        /\ psel' = IF repl_policy \in Dueling THEN NextPsel(role) ELSE psel
        /\ fifo_ptr' = FifoNext
        /\ order' = Append(IF old.valid THEN Without(old.tag) ELSE order, t)
        /\ cold' = (cold \ (IF old.valid THEN {old.tag} ELSE {})) \cup (IF stamp THEN {} ELSE {t})
        /\ UNCHANGED fixed

Access(t, dirty, tid) == Hit(t, dirty, tid) \/ (t \notin Cached /\ Install(t, dirty, tid))

\* An install in another leader set.
OtherLeader(r) ==
  /\ repl_policy \in Dueling
  /\ psel' = NextPsel(r)
  /\ evicted' = Nothing
  /\ UNCHANGED <<fixed, entries, last, fifo_ptr, total_lines_thread, order, cold>>

-----------------------------------------------------------------------------
\* mcache_new, init_met_rrip and mcache_select_leader_sets.
Init ==
  /\ assocs \in Assocs
  /\ repl_policy \in Policy
  /\ met_install_prio \in {NotAware} \cup (MetPrio(repl_policy) \cap MetPrios)
  /\ role \in IF repl_policy \in Dueling THEN {"p0", "p1", "follower"} ELSE {"none"}
  /\ entries = [w \in Way |->
       [valid |-> FALSE, dirty |-> FALSE, tag |-> CHOOSE t \in Tag : TRUE,
        ripctr |-> 0, tid |-> CHOOSE tid \in Tid : TRUE]]
  /\ last = [w \in Way |-> 0]
  /\ fifo_ptr = 0
  /\ psel = HalfPsel
  /\ total_lines_thread = [tid \in Tid |-> 0]
  /\ evicted = Nothing
  /\ order = <<>>
  /\ cold = {}

Next ==
  \/ \E t \in Tag, dirty \in BOOLEAN, tid \in Tid : Access(t, dirty, tid)
  \/ \E r \in {"p0", "p1"} : OtherLeader(r)

Spec == Init /\ [][Next]_vars

-----------------------------------------------------------------------------
(* Properties.                                                             *)

\* A line is in one way only, and the counters stay in their ranges: the
\* loop of mcache_find_victim_srrip stops before an unsigned ripctr wraps.
Entry == [valid : BOOLEAN, dirty : BOOLEAN, tag : Tag,
          ripctr : 0..MCACHE_SRRIP_MAX, tid : Tid]
TypeOK ==
  /\ entries \in [Way -> Entry]
  /\ \A v, w \in Valid : entries[v].tag = entries[w].tag => v = w
  /\ last \in [Way -> 0..assocs]
  /\ fifo_ptr \in Way
  /\ psel \in 0..MCACHE_PSEL_MAX
  /\ total_lines_thread \in [Tid -> 0..(Wrap - 1)]
  /\ ToSet(order) = Cached

\* LRU throws out the line used least recently, and FIFO the one installed
\* first: stamps and pointer, kept on different paths, agree with the order.
OldestLeaves ==
  [][evicted'.valid /\ repl_policy \in {"LRU", "FIFO"}
       => evicted'.tag = Head(order)]_vars

\* A line DIP installs at the bottom of the set, leaving it the stamp of its
\* victim, stays there until it is used.
ColdStaysLast ==
  \A t \in cold : \E w \in Holds(t) : w \in Lowest(last)

\* A dirty line stays dirty until an install returns it to be written back.
DirtyWays == {entries[w].tag : w \in {v \in Valid : entries[v].dirty}}
DirtyWrittenBack ==
  [][DirtyWays \ DirtyWays' \subseteq
       (IF evicted'.valid /\ evicted'.dirty THEN {evicted'.tag} ELSE {})]_vars

Total(counts) == MapThenSumSet(LAMBDA tid : counts[tid], Tid)

\* The counts of all threads add up to the lines of the set.
OccupancyAddsUp == Total(total_lines_thread) % Wrap = Cardinality(Valid)

\* The line that leaves is the one its policy means, and is not lost if it is
\* dirty.
VictimsRight == OldestLeaves /\ []ColdStaysLast /\ DirtyWrittenBack
=============================================================================
