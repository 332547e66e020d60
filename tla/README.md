# TLA+ models of the Morphable Counters simulator

`src/src_turbo` is a trace-driven memory-system simulator (a fork of USIMM)
for secure memory with counter-mode encryption and an integrity tree.  Its
subject is *Morphable Counters*: cachelines that pack many small write
counters, change their encoding as the values grow, and rebase or overflow
when no encoding fits.  This directory holds TLA+ modules of it, the TLC
configurations that check them, and proofs checked by TLAPS.

## 1. The system and its parts

| part | source | state | operations |
|---|---|---|---|
| counter cachelines | `ctr_sim.c`, `compression.c` | per tree level an array of `ctr_cl`: super, major and minor counters, `comp_mode`, overflow counts | `update_ctr_cls`, `check_overflow`, `try_rebase`, `reset_tot_overflows` |
| layout of the tree | `memOrg.c` | start address and size of each partition and tree level | `getMACAddr`, `getCounterAddr`, `getMtreeEntry`, `getMtreeEvictParent`, `getCtrChild` |
| caches | `mcache.c` | sets of tagged entries, replacement state; a compressed variant with variable-size entries | access, mark dirty, install, find victim |
| metadata walk | `memsys_control_flow.c` | none of its own | `handle_dirty_wb_LLC`, `read_ctr_mtree`, `write_ctr_mtree`, `read_mac`, `write_mac` |
| memory controller | `memory_controller.c` | read and write queue of each channel | insert, forward, `update_memory` (clean-up) |
| scheduler | `scheduler.c` | `drain_writes`, bank and channel scoreboards | `schedule(channel)` |
| virtual memory | `os.c`, `hash_lib.c` | page table, inverted page table, clock pointer, last translation of each thread | `os_vpn_to_pfn`, victim selection |
| cores, main loop | `main.c` | a reorder buffer per core, cycle counters, phase | fetch, retire, end of the fast-forward part |
| trace reading | `filereader.c` | the block read last and where in it the reader stands | `get_line_from_file`, `read_trace_line_1rec` |
| older controller | `sim_slow_files/memory_controller_slow.c`, `scheduler_slow.c`, `scheduler-fcfs.c` | state and timers of each DRAM bank, refresh deadlines of each rank | commands and their guards, `update_memory`, `schedule` |
| the rest | `bpc.c`, `stats.c`, `configfile.h`, ... | | bit-level compression, reporting, parsing |

How they interact.  All is one thread; the parts call each other.  A core
fetches an instruction; its address is translated by the OS and looked up in
the last-level cache.  A miss inserts a read into the memory queues and walks
the integrity tree upwards (`read_ctr_mtree`) until a node is found in the
metadata cache.  The write-back of a dirty line increments its counter
(`update_ctr_cls`), and installing a tree node may evict a dirty one, whose
write-back increments *its* counter one level up, recursively.  A counter
overflow inserts a read and a write for every child of the counter
(`insert_overflow_mem_accesses`).  `schedule` serves the queues and completes
instructions in the reorder buffer, which lets cores retire.  Before
all this, the same traces are run through the caches without timing (the fast
part), and most counts are set back when the timed part starts.  The older
controller has the interface of the newer one and times each DRAM command;
the Makefile builds the newer one.

What is hard here is not concurrency but long legal sequences of calls:
hundreds of writes lead a line through encodings, rebases and overflows;
cached decisions (`comp_mode`, `last_xlation`, the list of evicted lines) are
used after what they were derived from has changed; unsigned arithmetic meets
its edges; nested walks share one cache.  `PROJECT.json` lists each such
hazard at its line.

Two things the source holds but the program never runs: `main.c` sets
`COMP_CTR_MODE` to 0 or 1 only, so the branches for a compressed metadata
cache (modes 2 and 3) are dead, and `IS_MET_WRITEBACK` is a constant 1, so the
write-through branch is.  Neither is modelled.  Nor are functions nothing
calls: `fin_stat_overflows`, `mcache_install`, `mcache_invalidate`,
`mcache_probe`, `mcache_swap`; `best_comp` and `bpc_comp_new` are reached only
with `COMPRESSED_MTREE` 1 to 6 or `COMP_CTR_MODE` 2 and 3, and `best_comp`
stops at an assertion (`compression.c:820`).

What would make each part correct:

* *counter cachelines*: an encryption counter is never used twice for the same
  child, unless the child's whole epoch changed; counters are not wasted; the
  recorded encoding takes the stored values.  **Modelled here.**
* *layout*: child and parent are inverse, whichever of the three ways between
  them is taken; two lines never share a place in DRAM.  **Modelled here.**
* *caches*: a tag occurs once in its set; the victim is the one the policy
  names; an install never loses a dirty line silently.  **Modelled here.**
* *metadata walk*: every write-back of a node increments its parent exactly
  once; no eviction loses a counter; the recursion ends.  **Modelled here.**
* *queues and scheduler*: every request is served once and, under the calls
  of the main loop, eventually; draining ends.  **Modelled here**, with
  abstract times.
* *virtual memory*: page table and inverted table stay inverse of each
  other; no two live pages share a frame; no page leaves while a frame is
  free; the search for a frame ends.  **Modelled here.**
* *cores*: instructions retire in order and only when complete; what is
  counted is what was executed in that part; each core executes its share, and
  the experiment ends.  **Modelled here**, the first with the queues.
* *trace reading*: every line is given once, in order.  **Modelled here.**
* *older controller*: the timing rules of DRAM are kept, refreshes are never
  missed, no cycle sends two commands, and the oldest request gets its turn
  (a read as long as no drain begins, a write in a drain).  **Modelled here.**

## 2. What is modelled now

### `FreshCounters` - what counters promise

The abstract specification.  Each child of a counter line has a `value` within
the line's `epoch`.  A write of child `c` moves `c` and every re-encrypted
child to a later `(epoch, value)` and leaves the others alone.  This is the
guarantee encryption rests on: one counter, one pad.

### `CounterLine` - a counter cacheline in detail

One `ctr_cl` and everything that changes it.

| model | code |
|---|---|
| `super`, `major`, `minor`, `compMode`, `numOverflows` | the fields of `ctr_cl` |
| `levelOverflows`, `warmupOverflows` | `ctr_overflows_levelwise`, `..._warmup` of the line's level |
| `reencrypted` | the children for which `insert_overflow_mem_accesses` inserted a read and a write in the last update |
| `Increment`, `Updated` | the increment of `update_ctr_cls`, both `COUNTER_UPDATE_POLICY` values |
| `ZccFits`, `UncompFits`, `FirstMode` | `ada_dyn0_comp`, `uncomp`, the loop of `check_overflow` over `comp_mode` |
| `Rebases`, `Rebased` | `try_rebase` |
| `TakenBack`, `NextMajor` | `minor--`, the maximum of the minors, and the step of the major counter, in `uns64` arithmetic (`% WordSize`) |
| `UpdateInPlace`, `UpdateRebased`, `UpdateOverflow`, `UpdateSuper` | the four ways `update_ctr_cls` can end |
| `StartTimed` | `reset_tot_overflows` and `timestamp_cumuoverflows_warmup` at the end of the fast-forward part |

The whole of `update_ctr_cls` is one action, since nothing runs in between;
the four actions are its outcomes, and their guards exclude one another.  The
constants are what `init_ctr_types` chooses for a design: the number of
majors and minors, field widths, limits, `COMPRESSED_MTREE` (0, 7 or 8).

One more bound is the model's own: `MaxSuper` caps the super counter.  An
update whose major counter overflows in a design without a super counter is
disabled: the program stops there with an assertion.  `super` moves by two per
overflow because the code counts it so.

Left out: the encodings of `COMPRESSED_MTREE` 1 to 6 and the bit-plane
compressor; histograms and logs of values; `bitlen`, which matters to the
compressed metadata cache only; the addresses of the children (a child is
`<<major, minor>>`).

The operators commented "Mutant" are not part of the model: each is the
definition after it with a plausible bug, and `PROJECT.json` says which
property notices.

### `MCCounterLine`, `MCLineDesigns` and the runs

The designs are scaled down so that a line goes through all its encodings
within few writes.  What is kept of the real sizes: there are more minors than
a ZCC line can give wide fields to, and plain minors are wider than the fields
of a nearly full ZCC line (the real 128-minor line has 277 bits for 127
values: 2 bits each, against 3 for a plain one).

`MCLineDesigns` runs five designs side by side: the line of the constants, and
a second line that is an instance of `CounterLine` in one of four others.
The variable `design` picks one at first; the other line rests.

| `design` | the line | claimed |
|---|---|---|
| `smooth` | one major, ZCC and rebasing, smooth update policy with `SmoothStep` 3 for 16 | all properties below |
| `split` | uncompressed split counter | no counter used twice or skipped |
| `zcc` | one major, ZCC without rebasing | the same, and encodings stay valid |
| `dual` | FULL_DUAL, two majors, super counter | the same, and the statistics, through the overflow of the super counter |
| `joint` | UNC_DUAL | the statistics only, see 4 |

| run | shows |
|---|---|
| `line` | the five designs; `StatsAgree` for the line of the constants |
| `line_uncdual_overflow` | UNC_DUAL: *violated*, see 4 |
| `line_representable` | one major, ZCC and rebasing: *violated*, see 4 |

Bounds and why they are enough.  Minors have two to four children per major,
`MinorMax` and `MajorMax` are small numbers.  All decisions of the code
compare a value with a threshold (field width, limit, zero, the maximum of the
line), so what matters is that all orders of these thresholds occur: overflow
before and after a change of encoding, rebases by one and by more, a rebase
the major counter has no room for, a rebase that helps and one that does not.
The coverage of the run shows every action fired; `UpdateSuper` fires in the
dual designs.  `MajorMax` and `MaxSuper` also bound the runs.

Deadlock is not checked in these runs (`CHECK_DEADLOCK FALSE`): when neither
a major nor the super counter can grow further the program aborts, and the
bound on `super` stops the dual designs.

No fairness is assumed for the counter line: its properties are all about
safety, and writes need not come.

### `MetWalk` - the walk through the integrity tree

`read_ctr_mtree`, `write_ctr_mtree` and `handle_dirty_wb_LLC` over the
metadata cache.  `Parent` is the tree: the line that holds a line's counter
(`getCounterAddr` for data, `getMtreeEntry` and `getMtreeEvictParent` for the
rest).  The root is neither cached nor counted.

| model | code |
|---|---|
| `ways[s]`, least recently used first | the valid entries of a set, ordered by `last_access` (unique: `s_count` grows at every access, and an install directly follows the access that missed) |
| `dirty` | the `dirty` flags |
| `stack`, the running call last | the C stack: calls of `read_ctr_mtree` (one per turn of its loop), `write_ctr_mtree` and `update_ctr_cls_wrapper` still to do |
| `Touched`, `Dirtied` | `mcache_access_markdirty`, `mcache_mark_dirty` |
| `Victims`, `Installed` | `mcache_find_victim`, `mcache_find_victim_lru`, `mcache_install_withevicts` |
| `Install`, `WritebackCalls` | `cache_install` and what follows it: the write of the evicted line, then read, write and update of its parent |
| `ReadHit`, `ReadMiss` | a turn of the loop of `read_ctr_mtree`: stop at a hit; install and go up at a miss |
| `WriteHit`, `WriteMiss` | `write_ctr_mtree` |
| `Update` | `update_ctr_cls_wrapper`; that the minor overflows is a choice |
| `reread`, `Reread` | the loop of `insert_overflow_mem_accesses` over the lines that share the major (`Siblings`): those that are cached become the most recently used |
| `DataRead`, `DataWriteback` | a miss of the main loop; `handle_dirty_wb_LLC` |

A step of the model is what the code does between two calls, so that a nested
call starts in exactly the cache the outer one has left it.  Two variables
are history, kept to state the properties: `owed[x]` is the number of writes
of `x` to memory less the increments of its counter, and `stale` the lines
whose counter in memory is not the latest one.  `owed` is a difference, so
reads and writes need no bound: the state space is finite as it is.

The counters themselves are those of `CounterLine`: `Update` stands for one
`Update` there.  What an overflow writes again is encrypted under the major
counter that was incremented for it, so it is not counted in `owed`; what matters
here is that `insert_overflow_mem_accesses` looks up each child in the metadata cache
(1336) and so changes which line of a set goes next.  Children of a line of data
counters are data and are not looked up.  Left out: the MAC cache (`read_mac`, `write_mac`), which
shares no state with the tree; the requests put into the memory queues; the
modes of `SGX_MODE` without counters.

The run `walk` has two caches; the variable `cache` of `MCMetWalk` picks one.

| `cache` | sets | shows |
|---|---|---|
| `lru` | two LRU sets of two ways | write-backs accounted for, no counter lost, nesting paid for, every walk ends |
| `direct` | the same sets with one way each | the same, but for `TreeCountersSurvive`, where nearly every install throws out what an outer call has just brought in |

The tree of `MCMetWalk` has three levels below the root.  Two lines of counters,
and the two lines above them, share a major and are reread together; a branch
of its own competes with them.  Siblings lie in different sets, as neighbours do.
That gives every case
the code tells apart: a victim whose parent is the root, is cached, is not
cached, or was thrown out by the nested call; a victim on the path of the
outer walk and one off it; a hit at each level; a reread that saves a line from
being the next victim, and one that makes another line it.  `LevelAssumption` says that
going up ends at the root (`mtree_level` falls to 0).

Deadlock is checked: a walk can always go on, and at rest a read or a write
may come.  Fairness: `WF_vars(Walk)`.  A C call under way runs on until it returns;
nothing is assumed about further reads and writes.

### `PageMap` and `OsPaging` - virtual memory

`PageMap` says what the page table promises: a page in memory is found where
it was put, no two share a frame, none leaves while a frame is free.  It does
not promise that a thread notices that its page has left (`Overdue`), since
the code does not.  `OsPaging` is the code.

| model | code |
|---|---|
| `pt` | the entries of `pt->entries` (the hash table as a function) |
| `holder`, `ref`, `Valid` | `vpn`, `ref` and `valid` of the entries of the inverted page table |
| `refptr`, `nextTouch` | `ipt->refptr`; `last_allotted_pagenum + 1` modulo the table |
| `last` | `pt->last_xlation`, zeroed at first |
| `seeking` | the page `os_get_victim_from_ipt` is looking for a frame for |
| `answer` | what `os_vpn_to_pfn` returned last |
| `Shortcut`, `TableHit`, `MissFree` | `os_vpn_to_pfn` that returns at once: by `last_xlation`, by the page table, with a frame free at the first tries |
| `MissSearch`, `ClockPass`, `ClockTake` | the loop of `os_get_victim_from_ipt`: its start, a turn that passes a frame over, the turn that takes one |

A page is a pair of thread and page number, as the code puts `tid` into the
four top bits it asserts to be free (the program asserts four cores).  The
twenty random tries are a choice: any free frame, or none once some frame is
in use.  Left out: the counts of misses and evictions, and the dirty flag of a
page, which is never set.

The run `pages` has three frames for two threads of two pages each; the
variable `placement` of `MCOsPaging` picks how they are placed.

| `placement` | shows |
|---|---|
| `random` | tables inverse, shortcut right, no early eviction, refinement of `PageMap`, the search ends |
| `touch` | the same with first touch |

One page more than there are frames is enough for evictions of one thread's
page by another, and three frames for a clock with frames before, at and
behind its hand.  Deadlock is checked.  Fairness: `WF_vars(Clock)`, a loop
under way runs on; nothing is assumed about further translations.

### `MemSched` - the main loop, the queues and the scheduler

The timed loop of `main.c` over one channel.  A turn of the loop goes through
three stages: cores retire, the memory is served, cores fetch one after the
other.

| model | code |
|---|---|
| `reads`, `writes` | `read_queue_head`, `write_queue_head`; `phase` of a request is `command_issuable`, `served` is `request_served`, `owner` the instruction of a critical read |
| `drain` | `drain_writes` |
| `head`, `inflight`, `waiting`, `critical` | the reorder buffer: `waiting` says that `comptime` is `BIGNUM` away, `critical` is `critical_mem_ops` |
| `stage`, `numFetch`, `writeqfull` | where the loop is, and its local variables |
| `finished`, `exptDone` | the cores counted in `num_done`; `expt_done` |
| `Retire`, `EndRetire` | lines 1473 to 1489 |
| `Clean`, `Drains`, `DrainWrites`, `ServeReads` | `clean_queues` and `schedule`; `ready` is the set of requests whose `bank_time` or `channel_time` has come |
| `SkipMemory` | a turn in which the memory has no cycle |
| `FetchDone`, `FetchMerged`, `FetchRead`, `FetchWrite` | a turn of the fetch loop: no access or a hit in the last-level cache; a read answered by `read_matches_write_or_read_queue`; a read with its walk; a write that throws out a line, whose write-back is dropped if the queue holds it |
| `EndFetch` | the end of a core's fetching, and the test of `num_done` |

`Walk` stands for `MetWalk` and the overflows of `CounterLine`: a walk is what
it puts into the queues, `critical` reads that the instruction waits for, other
reads, and writes.  `joined` in a request is history, kept for one property.
The twin accesses of `SGX_MODE` 2 are further reads and writes of a walk.

Time is abstract.  A command may be done in any pass after its phase began,
and an instruction may retire in any turn after its reads have been served.
That gives more orders than the scoreboards do, and the safety properties hold
of all of them.  One thing it leaves out: an instruction whose reads starve
for `BIGNUM` cycles would retire without them.

`Clean` is in the module `RequestQueue`, which `DramFcfs` uses as well: the two
controllers have the same `clean_queues`.

The run `sched` has two instances; the variable `mode` of `MCMemModes` picks the
one that runs, the other rests.

| `mode` | instance | shows |
|---|---|---|
| `merge` | that of the constants: one core of two slots, two fetches a turn, last-level cache, overflows | reads counted and served once, no instruction leaves early, with merged reads, reuse of slots and instructions that wait side by side; the write queue is bounded, and the bound is reached |
| `cores` | two cores of one slot each, in variables of their own | the same; the loop never blocks itself, and reads are served unless the channel drains for ever (`TwoCoresGoOn`) |

The run `sched_merged_read` is `merge` alone; its property is *violated*, see 4.

Bounds.  The write queue has capacity 2 and watermarks 1 and 0 (for 96,
40 and 20): it runs empty, rises above the high mark, falls to the low one,
fills up and overflows, which are all the comparisons there are.
`MaxReads`, the length of the read queue, is the model's bound: the code has
none.  The walks of `cores` are one that hits, one that reads a tree line for
the instruction, and one that reads and writes for an evicted line; those of
`merge` one that hits and one that re-encrypts a data line.  Two cores with
two slots each have fifteen million states and showed nothing else.

Fairness.  `WF_vars(Next)`: the loop runs on.  Strong fairness of passes in
which the front request is ready: its time is fixed when its phase begins
and `CYCLE_VAL` grows, so it is ready in the end, if passes of its mode
recur.  Strong fairness of `Retire(c)`: each core runs in a fraction of the
turns (`rand() % MAXMOD < core_mod`).  No fairness makes a channel leave the
drain mode, and the code does not promise it: with several cores there may
always be enough writes.  Hence the premise of `ReadsServed`.

Deadlock is checked; a loop that has ended stutters.

### `TraceRun` - the course of an experiment

Where `MemSched` follows one turn of the timed loop, `TraceRun` follows the
program from the first line of each trace to its end: the first lines, the
fast part, the reset, and the timed part.  What the memory and retirement do
in the meantime stops a core from fetching at any time (`Pass`).

| model | code |
|---|---|
| `arg` | the arguments that matter: `sim_mode`, `SGX_MODE`, `sim_useL3`, and what reads a trace |
| `part`, `turn`, `numFetch`, `coreRun` | where `main` is; `numc`, `num_fetch`, `core_run` |
| `line`, `nonmemops`, `pos` | the line each core works on, what is left of it, and the place in the file |
| `committed`, `fetched`, `instExec`, `instDone`, `flag`, `numDone`, `countTotal` | the counters of those names |
| `asked` | what the last memory operation asked the memory for |
| `ReadFirst`, `BeginLoop` | the first line of each trace (1043-1167) |
| `FastLine`, `FastTurn`, `EndFast`, `Forget` | the fast part, its end, and the reset between the parts (1433-1468) |
| `FetchNonMem`, `FetchMem`, `NextLine`, `NoLine` | a turn of the fetch loop |
| `Rewind` | the end of a text trace (1811-1818) |
| `Pass`, `TimedTurn` | the next core; the test of `num_done` and the draw of `core_run` |

`issued`, `carried` and `replayed` are history.  `asked` is a set, so that
the two copies of the access path (`WarmAccess`, `TimedAccess`) can be
compared; which of its outcomes a cache gives is a choice.  The copies are
written twice here too: `WarmFetches`, `WarmRead` and `WarmWrite` are main.c
1173-1286 with the tests of `SGX_MODE` found there, `TimedFetches`, `TimedRead`
and `TimedWrite` are 1554-1694 with theirs, and `WriteBack` has those of
`handle_dirty_wb_LLC`.  Cycle counts, and so the reports divided by them, are
left out.

The run `trace` has two cores with traces of three and two lines, at most two
fetches a turn, and shares of four and six instructions, so that each part goes
through each trace more than once; eight sets of arguments give each mode, each
reader and, over an L3, each kind of design (`SGX_MODE` 2 makes no difference to 1
here).  `MaxInst` bounds the instructions a core
executes beyond its share, as a load for the other.  Deadlock is checked.
Fairness: `WF_vars(Next)`, the loop runs on, and no more.  That a core goes on
fetching is not assumed, because the code does not see to it: cores are visited
in a fixed order, all of them behind one write queue, and a core whose writes
fill it again in each turn (`writeqfull`, 1679-1684) keeps those behind it from
fetching for ever.  `LoopGoesOn` of `MemSched` says that some core fetches
again, not each.  So that every core short of its share goes on fetching is a premise
of `RunEnds` (`FetchesOn`), to which a core that has its share need not conform.

### `TraceLines` and `TraceReader` - reading a text trace

`TraceLines` is the promise: the lines of a file in order, none lost, split or
joined, the first again after the last.  `TraceReader` is
`get_line_from_file`, character by character of its buffer, because where a
line is cut is what the property is about.

| model | code |
|---|---|
| `text`, `offset` | the file and the position of `gzread` in it |
| `buf`, `index` | `read_buffer` with the ends of strings written into it; `read_buf_index` |
| `FromBlock` | the next string of the block |
| `FromNextBlock` | what is left of the block is saved, the next block read, and the line joined |

`MCTrace` runs it beside `TraceRun` (`what` picks which of the two moves), over
all files of up to seven characters with blocks of four and `MaxLine` 3.
`MaxLine` stands for MAXTRACELINESIZE, 256, the size of `saved_string` and of
`scratch_buffer`; a block, BUFFSIZE - 1, is no smaller (2^21 characters).  A file ends
with a newline and each of its lines is shorter than `MaxLine` (`WellFormed`).
Nothing in the code tests either.  `strcpy` and `strcat` (55, 92-93) copy
whatever length there is, so what happens with longer lines is undefined and
outside the model; for the newline at the end see 4.

### `MCache` - a set under every replacement policy

One set of `mcache.c`.  An access that misses is followed by an install, as
in `cache_access` and `cache_install`.

| model | code |
|---|---|
| `entries[w]` | `valid`, `dirty`, `tag`, `ripctr`, `tid` of a way |
| `last` | the order of the `last_access` stamps (0: none yet), not their values |
| `fifo_ptr`, `psel`, `total_lines_thread` | the fields of those names |
| `role` | `is_leader_p0`, `is_leader_p1` of the set |
| `Hit`, `Marked`, `Stamped` | `mcache_access_markdirty`, `mcache_mark_dirty` |
| `Victims`, `LruVictim`, `SrripVictim`, `Aged` | `mcache_find_victim` and the searches it calls |
| `RipctrVals`, `StampChoices`, `NextPsel` | how a line is installed: BRRIP and DRRIP, DIP, the duel |
| `Install` | `mcache_install_withevicts` |
| `OtherLeader` | an install in another leader set of the duel |

`order` and `cold` are history.  The run `mcache` has sets of two and three
ways, always with a line more than ways, all seven policies and both leaders.
`MCACHE_SRRIP_MAX` is 3 and `MCACHE_PSEL_MAX` is 1 (for 7 and 1023): counters
reach both ends.  Sets of three ways are only tried under the policies that go
by an order of the lines.  Deadlock is checked; no fairness is needed.

### `MemLayout` and `DramMap` - where things lie

`MemLayout` is `memOrg.c`: `InitMemOrg` computes all tables of `init_memOrg`,
with its loops over levels as recursive functions (`Shrunk`, `Total`, `Grown`,
`Starts`); a walk goes up
(`getMtreeEntry`), a line is thrown out and its parent found from its address
(`getMtreeEvictParent`), an overflow goes down (`getCtrChild`).  `org` is
`memOrg_t`, `met` the entry a walk is at.  Addresses are numbers and the
arithmetic is that of the code: truncating divisions, and an entry number kept
in an `int` (`AsInt`).  `DramMap` adds `calc_dram_addr` of both controllers, as
operators on bits.  `MemoryAssumption` says which memories are meant: 16 address
bits or more, so that there is a tree, entry numbers that fit an `int` (up to
2^37 bytes with 64-byte lines; the default is 2^34), and, for the two designs
the program means to refuse, a tree of two levels or more (see 4).

The run `layout` builds five memories: SGX with eight counters a line, split
counters under a tree whose arity falls towards the root, two counters a byte,
a tree of uniform lines, and a design that `init_memOrg` refuses.  For each
it walks from every data line, and computes the place of every line in DRAM
under each mapping and each geometry that can serve the memory (`Serves`): one
with enough rows, with enough column bits for the split, and whose regions
start at a multiple of a row across all banks.  The last the code does not
test; without it mapping 1 gives two lines one place.  `CHECK_DEADLOCK FALSE`:
nothing is looked up in the memory that is refused.

### `DramBanks` and `DramFcfs` - the command-level controller

`DramBanks` is one channel of `memory_controller_slow.c` under any scheduler:
in each cycle a command that is allowed is issued, or none.

| model | code |
|---|---|
| `state`, `activeRow` | `dram_state[..].state`, `.active_row` |
| `next[b]` | `next_pre`, `next_act`, ... as cycles from now |
| `activates` | `activation_record`, as the ages of the activates |
| `window`, `deadline`, `issued`, `forced` | the refresh bookkeeping |
| `commanded`, `cas` | `command_issued_current_cycle`, `cas_issued_current_cycle` |
| `MayActivate`, `MayPrecharge`, ... | the `is_..._allowed` functions |
| `NextCommand`, `ReadIssuable`, `WriteIssuable` | `update_read_queue_commands`, `update_write_queue_commands` |
| `IssueRequest` | `issue_request_command` |
| `Activate`, `Precharge`, `PrechargeAll`, `PowerDown`, `PowerUp`, `Refresh`, `AutoPrecharge` | the other commands |
| `Tick` | `update_memory`, forced refreshes included |

`bursts`, the uses of the data bus, is history; a burst carries the kind of its
command, so that no two are one element of the set.  The run `dram_banks` has two
ranks of two banks and one row; delays are one to three cycles with the
inequalities of the real ones (a slower exit from the deeper sleep, a row cycle
that is activate plus precharge), a window of eight cycles with two
refreshes for 8 * `T_REFI` with eight, and two activates for four in
`T_FAW`.  Deadlock is checked: time goes on.

`DramFcfs` adds the queues and both schedulers (`closePage` tells
`scheduler_slow.c` from `scheduler-fcfs.c`): `Update`, then `Schedule`, then, in
`scheduler_slow.c`, one `CloseNext` for each bank, then `Arrive`.  `CloseNext` is a
turn of the loop that closes rows (149-163): it has no break, so the model goes
through the banks that are left when it has closed one.  `sent` counts the
commands of a cycle and is history.

The run `dram_fcfs` has one rank of two banks with two rows, marks 1 and 0 and a
window of nine cycles.  `mode` of `MCDramFcfs` picks which requests come: for both
banks, up to two of a kind and three in all, for one row of the second bank; or
for one bank, up to three reads and three writes.  In the second a younger row hit overtakes the oldest
request, is served and replaced by another while the oldest still waits for its
precharge: at least four times in a row between two refreshes, in a drain
mode that does not change.  Fairness: `WF` of `Update`, `Schedule` and `CloseNext` together,
since the loop of `main` calls them in each turn.  With two ranks the oldest
request can be held up for ever by the others, so liveness is claimed for one.

### Properties

For the counter line:

* `TypeOK` - every value within the limit of its field.
* `Encodable` - the recorded `comp_mode` takes the stored minors, although
  other minors of the line have changed since it was chosen.
* `RebaseLeavesNonZero` - the encodings tried after a rebase do not divide by
  the number of non-zero values when it is zero.
* `NeverReused` - refinement of `FreshCounters`: the effective counter (major
  plus minor if compressed, major and minor side by side if not) only grows
  within an epoch, and an epoch ends only when every child is re-encrypted.
* `OverflowPassesMinors` - an overflow moves the major just past its largest
  effective counter: reusing none and skipping none.
* `OneNewCounterPerUpdate` - an update uses at most one new value of a major.
* `StatsAgree` - reported overflows, less those of the warm-up, are those
  recorded in the lines.
* `DesignsFollow` - `OneNewCounterPerUpdate` for the line of the constants, and
  what of all these is claimed for the second line, in each of its designs.

For the walk:

* `TypeOK` - a set holds a line once (the program exits if not) and is not
  overfull; only cached lines are dirty.
* `Accounted` - writes of a line less increments of its counter are exactly
  the increments that calls under way will still do.
* `DataCountersSurvive` - the latest counter of a data line is in memory, or
  in a dirty line, or `write_ctr_mtree` is about to make its line dirty.
* `TreeCountersSurvive` - the same for tree nodes.  The code is less careful
  with these: line 916 increments after `write_ctr_mtree`, whose evictions
  may throw out the line.  With direct-mapped sets they do (when one set is
  shared by all levels of a branch and a node of the other), so the run claims
  it for the LRU cache only (`TreeCountersSurviveLru`).  Ways alone do not help:
  in a tree of four levels over two sets of two ways, with all lines on the
  path of an evicted line dirty and in its set, the nested walks fill the set and
  throw the line out before line 916 is reached; with seven levels in one set
  this happens in eight ways (`MET_ASSOC`).  Trees of up to three levels lost
  nothing with two ways or more in any shape tried.
* `NestingPaidFor` - no step of a walk adds to the level-weighted number of
  dirty lines and of increments under way: the recursion nests no deeper than
  that weight when the walk starts.
* `WalksEnd` - the stack is empty again and again.

For virtual memory:

* `TypeOK` - the hand of the clock and all frames stay on the table.
* `TablesInverse` - page table and inverted table are inverse functions, so
  the assertion that a victim is found in the page table holds.
* `ShortcutAgrees` - `last_xlation` is right while its page is in the table,
  although evictions never look at it.
* `EvictOnlyWhenFull` - no page leaves while a frame is free, although the
  random tries may miss the free frames.
* `KeepsPages` - refinement of `PageMap`.  Page 0 of thread 0 is excepted: the
  zeroed `last_xlation` names it, and frame 0 may belong to another page.
* `SearchEnds` - the clock finds a frame even if all are referenced at first.
  The run checks it with `EvictOnlyWhenFull` (`SearchRight`).

For the main loop and the memory:

* `TypeOK` - reorder buffers, queues and counters stay within their ranges;
  checked with `QueueBounded` as `QueuesBounded`.
* `CriticalCounted` - `critical_mem_ops` is the number of reads of the
  instruction still to be served, although served ones stay in the queue until
  the next clean-up and slots of the buffer are reused.
* `WaitsForReads` - an instruction waits exactly as long as such reads exist,
  and its slot is its own until then; checked with the last as `ReadsAwaited`.
* `QueueBounded` - how far the write queue outgrows `WQ_CAPACITY`.
* `Progress` - fetch waits for the write queue, retirement for reads, reads
  for the drain mode, drain mode for writes: some core can fetch again.
* `ReadsServed` - every waiting instruction is woken, if the channel leaves
  the drain mode again and again; the last two are
  `LoopGoesOn`, which `TwoCoresGoOn` says of the two cores with the safety above.

For the course of an experiment and the traces:

* `InstructionsAddUp` - what a core fetched in the timed part is what was
  counted as executed, but for the line at hand, the line held at the
  reset, and the operation each rewind issues again.
* `TotalAddsUp` - `count_i_total` belongs to the part it is reported for.
  `CountsAgree` is these two and the types.
* `DoneOnce` - `num_done` is the number of cores that executed enough; what a
  core reports stays what it was when it had.
* `SharesExecuted` - no part ends before every core has executed its share.
  `SharesDone` is these two.
* `PathsAgree` - the two copies of the access path ask the memory for the same,
  but for what the queues answer, so the fast part warms up what the timed part
  uses; and what a read checks its data with is what write-backs renew.
* `InOrder` - operations are issued in the order of the trace, from one part
  to the next and over the end of the file, none left out.
* `RunEnds` - the fast part ends, and so does the experiment if no core is kept
  from fetching for good before it has executed its share.
* `LinesInOrder` - refinement of `TraceLines`; `InsideBlock`: the reader stays in
  its block; `CopiesFit`: both halves of a cut line fit where they are copied.

For the caches:

* `TypeOK` - a line is in one way; no counter wraps.
* `OccupancyAddsUp` - the counts of all threads add up to the lines of the
  set, although those of each thread can be wrong (see 4).
* `VictimsRight` - LRU and FIFO throw out the oldest line, though stamps and
  pointer are kept on different paths (`OldestLeaves`); a line DIP installs
  cold stays the next to go (`ColdStaysLast`); a dirty line is dirty until it
  is returned (`DirtyWrittenBack`).

For the layout:

* `WaysUpAgree` - an entry lies in its level (`EntryTypeOK`), the level counted from
  its address is the one handed along (`LevelsAgree`), and the parent found from
  an address is the one found from the number (`SameParent`): the counter that
  is written back is the one that is checked.
* `ReencryptsItsOwn` - the children of a line are exactly those whose
  parents lie in it.
* `PlacesDiffer` - two lines never have the same place in DRAM.

For the command-level controller:

* `TypeOK` - states and timers stay within their ranges.
* `BusNotShared` - transfers do not collide on the data bus and leave it quiet
  between ranks, though delays are kept per bank.
* `RanksWhole` - the banks of a rank sleep together (`RankSleepsTogether`), and
  a row is recorded exactly where one is open (`OpenRowKnown`).
* `RowsClosedInTime` - a row is closed only when its bank may be precharged,
  also by forced refreshes, which test nothing.
* `WindowRefreshed` - a window ends with its refreshes issued or forced.
* `OneCommandACycle` - no second command is sent in a cycle, although the loop
  that closes rows goes on after the first row it closes; and a request marked
  as served is one of this cycle's command, gone before the next is chosen.
* `OldestServed` - the oldest request is served although younger row hits
  overtake it, as long as the drain mode stays as it is.

## 3. What is proved

`CounterLineProofs` proves, for every number of minors and majors and every
width and limit allowed by the assumptions of `CounterLine`:

| theorem | states |
|---|---|
| `TypeCorrect` | `Spec => []TypeOK`, in every design |
| `EncodableAlways` | `~JointZcc => (Spec => []Encodable)` |
| `OverflowPasses` | `~JointZcc => (Spec => OverflowPassesMinors)` |
| `Implements` | `~JointZcc => (Spec => NeverReused)` |
| `OneCounter` | `~JointZcc => (Spec => OneNewCounterPerUpdate)` |
| `NoDivisionByZero` | `Spec => []RebaseLeavesNonZero`, if plain minors are wider than those of a nearly full ZCC line and `~JointZcc` |
| `StatsAlwaysAgree` | `(HasSuper => NumMajors = 2) => (Spec => []StatsAgree)`, in every design |

The assumptions on the constants are named in `CounterLine`:
`SizesAssumption` (they are numbers of the right kind and the word is large
enough), `DesignAssumption` (what `init_ctr_cls` asserts) and `RoomAssumption`
(what `ada_dyn0_comp` asserts, and that plain minors fit the line).
`~JointZcc` means that each major has its own encoding: all designs but
UNC_DUAL, for which the statements are false (section 4).

The argument.  The inductive invariant is `TypeOK /\ Encodable`.  `TypeOK`
alone does not say why the `minor--` of an overflow cannot wrap: that needs
`Encodable`.  Suppose the written minor was rebased to zero.  Then it was the
smallest, so every other minor of the rebased line is at most what it was
before the update; the encoding the line had before took those larger values
(`Encodable`), and ZCC gives no fewer bits to each when fewer are non-zero
(`ZccFitsSmaller`, by monotonicity of the power).  So the rebased line fits
and no overflow happens: whenever one does, the minor taken back is positive
(`TakenBackInRange`), the arithmetic modulo the word is ordinary arithmetic
(`OverflowArithmetic`), and the major lands just past the largest effective
counter (`NextMajorPasses`).  `Encodable` is preserved because a successful
search re-establishes it for the written major and the other majors' encodings
do not depend on it (`EncodingIsLocal`; this is where `~JointZcc` is used).
`Implements` maps each of the four outcomes to a write of the abstract
specification (`FreshInPlace`, `FreshRebased`, `FreshOverflow`, `FreshSuper`)
and the change of phase to a stuttering step.  `StatsAlwaysAgree` needs no
encoding at all: an overflow adds one to the count of its major and to that of
the level, an overflow of the super counter one to both majors and two to the
level, which agree because designs with a super counter have two majors; and
`StartTimed` clears the one count in the same step in which it stamps the other.

`MetWalkProofs` proves, for every tree (`TreeAssumption`) and every assignment
of lines to sets of any associativity (`CacheAssumption`):

| theorem | states |
|---|---|
| `CacheTypeCorrect` | `Spec => []TypeOK` |
| `WritesAccounted` | `Spec => []Accounted` |
| `DataCountersKept` | `Spec => []DataCountersSurvive` |
| `NestingIsPaidFor` | `Spec => NestingPaidFor` |

The argument.  `Accounted` is inductive together with the shape of the state:
installing a line adds as many increments to the stack (`PushedPending`) as
lines whose counter is not in the root are written (`InstallCases`), and a
call that returns takes away its own (`CountFront`).  `DataCountersSurvive`
is not inductive: the increment of a data line's counter makes memory stale
while nothing says that its line becomes dirty next.  The strengthening is
`Handling`: an increment for a data line is only ever at the second place of
the stack, just above the `write_ctr_mtree` of its parent, because nested
calls only concern tree nodes.  Then whatever a nested walk throws out, a
dirty line takes its counters to memory, and the write that follows the
increment makes the line dirty whether it hits or misses.  `TypeOK` follows
from what taking out (`WithoutSet`, `TailSet`) and adding a line
(`AppendSet`) do to a set of distinct lines.

`NestingPaidFor` is about two sums, over the dirty lines and over the stack.
The step that matters is an install that throws out a dirty line
(`InstallWeighs`): the line is at level `n`, so cleaning it takes `n` away, while
the calls made for it add `n - 1` for the write of its parent, which is one
level nearer to the root (`LevelAssumption`), and one for the increment.  A
`write_ctr_mtree` that hits only turns its own load into the weight of a dirty
line, or of one that was dirty already.

`AddressProofs` follows an address: a virtual page to its frame, a line to its
counters and the tree above, and to its place in DRAM.  For `OsPaging`, with any
threads, pages and number of frames and both placements (`PagingAssumption`):

| theorem | states |
|---|---|
| `TypeCorrect` | `Spec => []TypeOK` |
| `InverseAlways` | `Spec => []TablesInverse` |
| `ShortcutAlways` | `Spec => []ShortcutAgrees` |
| `NoEarlyEviction` | `Spec => EvictOnlyWhenFull` |
| `Implements` | `ZeroKey \notin Key => (Spec => KeepsPages)` |

The argument.  A page that gets a frame enters both tables and the page that
was there leaves both (`PlaceInverse`).  Why the clock never evicts early is
not in the properties: `FirstRound` says that while a frame is free, all
frames behind the hand are in use, and only behind the hand has a page lost
its reference flag.  So the hand meets every free frame before it meets an
unreferenced page (`TakenWhenFree`); in particular it cannot have wrapped.
From this, a thread can remember a page that has left only if memory is full
(`OverdueWhenFull`, which needs that no copy is right by accident:
`ZeroKey \notin Key`), which is what `PageMap` allows.

For `MemLayout` and `DramMap`, with any set of memories that `MemoryAssumption`
allows and any geometries (`GeometryAssumption`: widths are numbers):

| theorem | states |
|---|---|
| `LayoutInductive` | `LayoutSpec => []LayoutInv`: the tables are right and the walk is at an entry that there is |
| `WaysUpHold` | `LayoutSpec => []WaysUpAgree` |
| `ReencryptionHolds` | `LayoutSpec => []ReencryptsItsOwn` |
| `PlacesHold` | `LayoutSpec => []PlacesDiffer` |

The argument has two halves.  First the tables: `OrgRight` says what they ought
to be, levels of whole lines that lie one behind another, each with one entry
for every line of the level below.  They are computed by recursive functions, so
each is first shown to have the values its definition describes (`ShrunkTable`,
`TotalTable`, `GrownTable`, `StartsTable`, from `TableExists`: a table can be filled
from its first entry on).  `init_memOrg` sizes the levels twice, once from the
counters up with truncating divisions to see how many there are and once from
the root down by multiplying, and only its final assertion compares the two.
`InitMemOrgRight` shows that a memory that passes the assertion is right: only
designs with full lines pass (`TalliesMean`), the levels seen from the root are
nowhere larger than seen from the counters (`GrownBelow`), and equal leaves force
all levels to be equal (`GrownFull`).  That the levels above the leaves are
smaller together than the leaves (`TotalSmall`) keeps them off the counters.

Then the walks: with `OrgRight` the level of an address is found (`LevelFound`),
and the number that is computed back from the address of a line is that of its
first entry, which has the parent of all entries of the line, since no arity
divides them differently (`LineOfEntry`, `FirstOfLine`).  Going down is the
same arithmetic backwards.

`PlacesDiffer` is about digits.  A field of an address is a remainder of a
quotient; a number is determined by one field and what lies above it
(`DigitDetermines`), so each of the three orders of fields loses nothing
(`RowHighInjective`, `ColumnHighInjective`, `ColumnSplitInjective`), and turning
banks by a function of the other fields can be undone (`TurnInjective`).  Mapping 1 uses two
orders, by region, but the row is the same in both (`RowsOfMaps`), and regions
that begin at a multiple of a row across all banks have no row in common
(`RowsApart`).

`DramBanksProofs` proves, for any number of ranks, banks and rows and any
timing allowed by `ShapeAssumption` and `TimingAssumption` (times are positive,
and the refreshes of a window fit into it):

| theorem | states |
|---|---|
| `TypeCorrect` | `Spec => []TypeOK` |
| `RanksAreWhole` | `Spec => []RanksWhole` |
| `EveryWindowRefreshed` | `Spec => WindowRefreshed` |
| `BusIsNotShared` | `Spec => []BusNotShared` |
| `RowsAreClosedInTime` | `RoomInWindow => (Spec => RowsClosedInTime)` |
| `QueuesAreRight` | `FcfsSpec => []FcfsTypeOK` |
| `OneCommandPerCycle` | `FcfsSpec => []OneCommandACycle` |
| `SchedulersAreSafe` | `FcfsSpec => []TypeOK /\ []RanksWhole /\ []BusNotShared /\ WindowRefreshed` |

The argument.  `IInv` adds to `TypeOK` and `RanksWhole` that a column command
of this cycle went to a bank that is still awake (`CasAwake`): otherwise the
precharge that goes with it would take one bank of a sleeping rank out of its
sleep.  With it each command keeps a rank whole, because `PowerUp` that looks at
bank 0 then speaks for all of them.

`WindowRefreshed` needs the deadline to mean something (`Payable`): a rank that
is not forced and has refreshes due has a deadline still to come, and no later
than the last moment at which the refreshes due fit in before the end of the
window.  A refresh only moves that moment away, a cycle brings both nearer by
one, and in the last cycle the last moment has passed (`PaidAtEnd`).

`BusNotShared` compares all uses of the bus, while the code keeps only a time
per bank and direction.  The strengthening `Waited` says that these times cover
every use of the bus that is known, also those of other ranks, with `T_RTRS`
between ranks.  Commands only put times off (`NotEarlier`), a cycle brings uses
and times nearer alike (`BusTicks`), and a column command puts off all banks by
its own use (`BusUsed`).  No relation between `T_CAS` and `T_CWD` is needed.

`RowsClosedInTime` rests on `InTime`: the refresh timer never falls below the
precharge timer, a closed bank has no precharge to wait for that its activate
does not wait for, and an open one may be precharged before its rank is forced
to refresh.  The last fails at the turn of a window if what keeps a row open is
longer than the time to the first possible forced refresh, because extra
refreshes can leave the old deadline later than the new one; `RoomInWindow`
states what it takes, and the parameters of the simulator satisfy it by far.

`OneCommandPerCycle` follows `command_issued_current_cycle` through the cycle.
`CountedInCycle` says that `sent` is one when it is set and zero when it is not, and
that it is clear when the scheduler begins.  Every command tests and sets it
(`CommandsCounted`), also those of the loop that closes rows, whose later turns
find it set (`CountKept`).  `FcfsTypeOK` adds that no more requests are marked as
served than commands were sent, for each is served by one; `update_memory` clears
both.  `SchedulersAreSafe` then takes over what is proved of `DramBanks`: `Schedule`
and `CloseNext` issue what `Update` found issuable, or what tests itself
whether the bank allows it (`FcfsImplements`), and queue steps stutter.

`TraceRunProofs` proves, for any number of cores and any traces
(`RunAssumption`):

| theorem | states |
|---|---|
| `TraceInOrder` | `Spec => InOrder` |
| `FetchedIsCounted` | `Spec => []InstructionsAddUp` |
| `CountsAreRight` | `Spec => []CountsAgree`: instructions, in each part |
| `SharesAreDone` | `Spec => []SharesDone` |
| `ReaderImplements` | `ReaderSpec => ImplementsLines`, of `TraceReader`, for any texts whose lines are shorter than `MaxLine`, and any block that is no smaller (`ReaderAssumption`, `WellFormed`) |
| `LinesAlwaysInOrder` | `ReaderSpec => LinesInOrder`, with `InsideBlock` and `CopiesFit` |

The argument.  A core is in one of three situations: it works on the line after
the one it issued last (`AtNext`); it has issued the last line, found no other
or rewound the file, and still holds it (`AtLast`); or it has read nothing
(`AtStart`).  From `AtLast` it issues the same operation again, which is no
step of `InOrder`, and reads the first line, so it is `AtNext` again
(`IssueNext`).  The instructions add up because each line enters `instExec`
when it is read and what is `Due` at the same time, a rewind makes one
operation due again, and `EndFast` forgets the line that is at hand
(`Untimed`, `Counted`).

`CountsAreRight` and `SharesAreDone` add `Tally` to that invariant.  `num_done` is
the number of raised flags, a flag is up exactly when its core has executed its
share, and a part that has ended has all flags up because a set of cores with
`NumCores` elements is the set of all cores (`AllDone`).  `count_i_total` is a sum
over the cores that grows with one summand at a time; the proof follows it
through the reset, after which it counts the new part only.

For the reader, `ReaderInv` says what the buffer is: the part of the text that
ends at `offset`, unchanged behind the string given last, which a Nul ends at
the place of a newline of the text.  So the characters behind it are the text
(`Standing`), and the next newline found in them is the next one of the text
(`BlockGivesNext`); if there is none, what is left is saved, the next block
starts where it ends, and the newline found there is the next one
(`NextBlockGivesNext`), since a line is shorter than a block.  What is copied has no
newline in it, so it is shorter than `MaxLine` (`ShortWithout`).  That the line so cut out
is the line with the next number is counting: no newline lies between its ends,
so `LinesUpTo` grows by one (`EndsNext`, `NextOfLines`), and the end of a line is the only
newline with that count (`LineEndIs`).  After the last line nothing is left of
the block, so the first is not joined to it.

`MemSchedProofs` proves, for any number of cores, any reorder buffers, water
marks and walks (`MemAssumption`):

| theorem | states |
|---|---|
| `QueuesStayBounded` | `Spec => []QueuesBounded` |
| `ReadsAreAwaited` | `Spec => []ReadsAwaited` |

The argument.  `QueueBounded` is not inductive: within a turn, reads insert
writes without looking at the queue.  `TurnBounded` strengthens it: while cores
may fetch, the queue exceeds its capacity by at most the walks of the
instructions fetched so far in this turn; a write that fills the queue sets
`writeqfull`, after which no core fetches (`FetchBounded`).  `ReadsAwaited` is
inductive with the types.  What it needs is how the reads owned by a slot change
when a queue is cleaned (`CleanKeeps`: none that is pending goes), extended
(`OwnedConcat`) or served at one place (`ServeKeeps`), and that a slot that is
given away owned none: the slot at the tail is free as long as fewer
instructions are in flight than there are slots (`TailFree`).

`MCacheProofs` proves, for any number of ways and threads, all policies and both
leaders (`CacheAssumption`):

| theorem | states |
|---|---|
| `CacheTypeCorrect` | `Spec => []TypeOK` |
| `OccupancyRight` | `Spec => []OccupancyAddsUp` |
| `VictimsAreRight` | `Spec => VictimsRight` |

The argument.  The code keeps stamps for LRU and a pointer for FIFO; the property
speaks of the order of use or of installation.  `StampsInOrder` ties the two
together for LRU: the `i`-th line of the order has the `i`-th of the highest
stamps, so the least stamp is that of the first line.  `PointerInOrder` does it
for FIFO: while a way is free the pointer is behind the last line, since free
ways are filled one after the other (`Filled`), and in a full set the ways from
the pointer on, round the set, hold the lines in order.  `ColdRight` says why a
line DIP installs at the bottom stays there: its stamp is zero and every other is
not.  `OccupancyAddsUp` is a sum of counts that wrap: a count taken below zero and
another above its maximum cancel modulo the width (`Wraps`, `CountMoves`).

`DataLemmas` holds what these proofs share: sums over finite sets when one
summand changes or is added (`SumChanges`, `SumDiffers`, `SumOfMore`), the
greatest element of a set, and what cleaning leaves of a queue (`CleanRight`).
Induction over numbers and finite sets is used in the form of least elements
(`ClosedSetHoldsNat`, `ClosedSetHoldsSubsets`): a set that holds 0 and the
successor of each of its members holds all naturals, since the least one missing
would be the successor of a member.  `Clean` is defined by a function over
prefixes for that reason.

Only model-checked:

* liveness, which is out of the prover's reach, as is ENABLED: `WalksEnd`,
  `SearchEnds`, `TwoCoresGoOn`, `OldestServed`, `RunEnds`;
* `PathsAgree`: both copies of the access path are finite tables, and the run
  compares them for each kind of design;
* `DesignsFollow`: it speaks of five designs with their constants; the theorems
  on `CounterLine` cover each of them but UNC_DUAL, for which `TypeCorrect` and
  `StatsAlwaysAgree` alone hold;
* `TreeCountersSurviveLru`: true of the tree and the sets of the run and false of
  others (section 2), so no theorem states it;

## 4. Where the code and its comments disagree

* `ctr_sim.c:486` says "Increment by max counter val."  In UNC_DUAL this can
  fail: one major fills the line, the other had minors in a mode that no
  longer fits; its zero minor is written, `try_rebase` takes the written
  minor back to zero without helping, `minor--` wraps to 2^64 - 1, the
  "maximum" plus one is zero, and the major counter stays below counters its
  children have used.  Run `line_uncdual_overflow` finds it in six updates.
* `compression.c:907` says "Check if there are any lines higher than the
  possible non_zero_line_bits"; the comparison with `1 << w` is `>` where
  `uncomp` has `>=`, so the value 2^w is accepted in w bits.  Run
  `line_representable`.
* `memory_controller.c:510-511` says of a read merged with a pending one that
  it "is assumed to be serviced when the original request completes"; the code
  answers with a latency of 1.  In run `sched_merged_read` an overflow puts a
  read and a write of a line into the queues, a drain serves the write, a read
  joins the read that was held back, and its instruction retires first.

The comments of `main.c:2160-2161` say that the write queues are drained at the
end.  The test before them, `num_done == NUMCORES`, does not look at the
queues; `MemSched` follows the test.

Noticed while modelling, without a run of its own because no document says
otherwise or because the built configuration does not come there:

* `main.c`: the line a core holds when the fast part ends is executed in the
  timed part but not counted in it (1438-1454).  Lines count as executed when
  they are read, so `inst_done` may exceed what was fetched by the line at hand.
  A text trace that is rewound (1811-1818) reads no line, so its last operation
  is issued twice; the record reader, which is built, starts again by itself.
  `committed` and the hits are not reset between the parts.
* `main.c:1717` with `optimized_gzread` but not `struct_traces` stores the line
  in `return_fgets` and tests `return_fgets1`, which stays NULL: every line is
  dropped and the timed part never ends.  Line 233 sets `struct_traces`.
* `filereader.c:71-93` joins a last line without a newline with the first; lines of
  MAXTRACELINESIZE characters and more run over `saved_string` and `scratch_buffer`.
* `main.c:1519-1529`, `1679-1684`: a core whose writes fill the write queue again in
  each turn keeps those behind it from fetching; nothing shares the queue out.
* `main.c:1548` lets an instruction that waits retire after `BIGNUM` (10^7)
  cycles; its late answers are then taken off the count of another.
* `scheduler.c:97`: the times of the scoreboards are never brought up to the
  present, so after an idle period commands are charged to the past.
* `ctr_sim.c:61` shifts a 64-bit one by 64, which C leaves undefined; line
  291 allocates `temp_minor_ctr_val` anew for each level.
* `os.c:102`: `last_xlation` starts zeroed, so page 0 of thread 0 is answered
  with frame 0 before any frame is given out.
* `mcache.c:164-168`: a write hit takes a line over without moving it between
  the occupancy counts, which are wrong per thread from then on.  The loops
  over leader sets (82, 91) choose 33 sets, not `MCACHE_LEADER_SETS`.  The FIFO
  pointer moves on when a free way is taken.  The priority of tree lines looks
  at partition 1, so counters do not have it.
* `memOrg.c`: SPLIT16 and SPLIT32 as counters fail the assertion at 256, which
  compares the entries of the leaves times `CTRS_PER_MTREE` with the counters: that table gives
  half of what their lines hold.  Over a tree of one level they pass: the only
  level is the root line, always as large as a line, however little of it is
  used.  With SPLIT16 counters in 2^18 bytes under SPLIT512 the design is let
  through, and a walk by number then meets other parents than one by address.
  The proof of `InitMemOrgRight` came upon this and TLC confirms it; hence the
  last part of `MemoryAssumption`.  A memory so small is never
  simulated; the default is 2^34 bytes.
  `src_entry_num` is an `int`: wrong from 2^31 entries on.  `getCtrChild` of the
  root would return children for a full line; it is not called for it.
  `test_mtree.c:7-21` means to check `SameParent` in a loop commented out.
  With ADDRESS_MAPPING 1 and lines of more counters than a row has columns, the
  shift in `calc_dram_addr` is negative.
* `memory_controller_slow.c`: power-up tests the deadline of rank 0 (1314,
  1316), so another rank can be forced to refresh up to `T_XP` early; it sets
  banks to IDLE before testing for the slow mode, so `T_XP_DLL` is never waited
  for (1197-1207, 1463-1473); `issue_refresh_command` tests no deadline; forced
  refreshes overwrite the timers (1741-1744).

## 5. Plan

Modules in the order they were written:

1. `FreshCounters`, `CounterLine`, `MCCounterLine`, `MCLineDesigns`,
   `CounterLineProofs`: done.
2. `MetWalk`, `MCMetWalk`, `MetWalkProofs`: done.
3. `RequestQueue`, `MemSched`, `MCMemSched`, `MCMemModes`, `MemSchedProofs`: done
   with abstract times.
4. `PageMap`, `OsPaging`, `MCOsPaging`, `AddressProofs`: done.
5. `DramBanks`, `DramFcfs` with their MC modules, `DramBanksProofs`: done.
6. `MCache`, `MCMCache`, `MCacheProofs`: done.
7. `MemLayout`, `DramMap`, `MCMemLayout`, in `AddressProofs` as well: done.
8. `TraceLines`, `TraceReader`, `TraceRun`, `MCTrace`, `TraceRunProofs`: done.
9. `DataLemmas`, for the proofs of all of them: done.

What is left to model: the MAC cache (`read_mac`, `write_mac`), the times of
the scoreboards of `scheduler.c`, several channels, and the composition of
`MetWalk` with `MemSched`, in which a dropped write-back also drops an
increment (`main.c:1674`).

Left to prove: for which trees and sets `TreeCountersSurvive` holds.

Not modelled, and why: statistics and power, since they only report; parsing of
the configuration; the bit-plane compressors, whose encodings the evaluated
designs do not use; allocation; test programs, which no longer compile;
vendored lists; scripts and data.  `PROJECT.json` lists them.

## 6. How to run

    tlc -workers 2 -config MC_Line.cfg MCLineDesigns
    tlc -workers 2 -config MC_LineUncDualOverflow.cfg MCCounterLine
    tlc -workers 2 -config MC_LineRepresentable.cfg MCCounterLine
    tlc -workers 2 -config MC_Walk.cfg MCMetWalk
    tlc -workers 2 -config MC_Pages.cfg MCOsPaging
    tlc -workers 2 -config MC_Sched.cfg MCMemModes
    tlc -workers 2 -config MC_SchedMergedRead.cfg MCMemSched
    tlc -workers 2 -config MC_DramBanks.cfg MCDramBanks
    tlc -workers 2 -config MC_DramFcfs.cfg MCDramFcfs
    tlc -workers 2 -config MC_MCache.cfg MCMCache
    tlc -workers 2 -config MC_Layout.cfg MCMemLayout
    tlc -workers 2 -config MC_Trace.cfg MCTrace
    tlapm CounterLineProofs.tla
    tlapm MetWalkProofs.tla
    tlapm AddressProofs.tla
    tlapm DramBanksProofs.tla
    tlapm TraceRunProofs.tla
    tlapm MemSchedProofs.tla
    tlapm MCacheProofs.tla
    tlapm DataLemmas.tla

`sched` and `mcache` take under two minutes; the other runs take about one or less.
