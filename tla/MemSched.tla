------------------------------ MODULE MemSched ------------------------------
(***************************************************************************)
(* The main loop with the memory of one channel: cores that fetch and      *)
(* retire instructions, the read and the write queue, and the scheduler    *)
(* with its write-drain mode.                                              *)
(*                                                                         *)
(* One turn of the loop retires, serves the memory and fetches, in this    *)
(* order.  Time is abstract: when a command or an instruction is done is a *)
(* choice, and fairness says that it is done at last.                      *)
(***************************************************************************)
EXTENDS RequestQueue, FiniteSets, FiniteSetsExt

CONSTANTS
  NumCores,      \* NUMCORES
  RobSize,       \* ROBSIZE
  MaxFetch,      \* MAX_FETCH: instructions a core may fetch in a turn
  WqCapacity,    \* WQ_CAPACITY
  HiWm, LoWm,    \* HI_WM, LO_WM: watermarks of the write queue
  UseL3,         \* sim_useL3: accesses go through a last-level cache
  Line,          \* data lines
  Meta,          \* stands for the address of any line of metadata
  Walk,          \* what the walks of one instruction put into the queues
  MaxReads       \* model bound: length of the read queue

Core == 0..(NumCores - 1)
Slot == 0..(RobSize - 1)

ASSUME MemAssumption ==
  /\ NumCores \in Nat \ {0} /\ RobSize \in Nat \ {0} /\ MaxFetch \in Nat \ {0}
  /\ LoWm \in Nat /\ HiWm \in Nat /\ WqCapacity \in Nat /\ MaxReads \in Nat
  /\ LoWm < HiWm /\ HiWm < WqCapacity
  /\ UseL3 \in BOOLEAN /\ Meta \notin Line
  /\ IsFiniteSet(Walk)
  /\ Walk \subseteq [critical : Nat, reads : Seq(Line \cup {Meta}),
                     writes : Seq(Line \cup {Meta})]

VARIABLES
  reads, writes,   \* the queues, in order of arrival
  drain,           \* drain_writes
  head, inflight,  \* of each core's reorder buffer
  waiting,         \* waiting[c][s]: comptime is BIGNUM away
  critical,        \* critical_mem_ops[c][s]
  stage,           \* Retiring, AtMemory or the core that fetches
  numFetch,        \* num_fetch of that core
  writeqfull,
  finished,        \* the cores that have executed enough
  exptDone         \* expt_done

vars == <<reads, writes, drain, head, inflight, waiting, critical,
          stage, numFetch, writeqfull, finished, exptDone>>

queues == <<reads, writes, drain>>
rob    == <<head, inflight, waiting, critical>>
loop   == <<stage, numFetch, writeqfull, finished, exptDone>>

Retiring == -2
AtMemory == -1

NoOwner == <<>>

\* A new request.  The owner is the instruction that waits for it, if any;
\* joined is history: the instructions whose reads were merged with it.
Request(line, owner) ==
  [line |-> line, owner |-> owner, phase |-> 1, served |-> FALSE, joined |-> {}]

Requests(lines, owner) == [i \in DOMAIN lines |-> Request(lines[i], owner)]

-----------------------------------------------------------------------------
(* Retirement.                                                             *)

MayRetire(c) == inflight[c] > 0 /\ ~waiting[c][head[c]]

Retire(c) ==
  /\ stage = Retiring
  /\ ~exptDone
  /\ MayRetire(c)
  /\ head' = [head EXCEPT ![c] = (@ + 1) % RobSize]
  /\ inflight' = [inflight EXCEPT ![c] = @ - 1]
  /\ UNCHANGED <<queues, waiting, critical, loop>>

\* Each core retires as many as are done and MAX_RETIRE allows, or none if it
\* does not run in this turn.
EndRetire ==
  /\ stage = Retiring
  /\ ~exptDone
  /\ stage' = AtMemory
  /\ UNCHANGED <<queues, rob, numFetch, writeqfull, finished, exptDone>>

-----------------------------------------------------------------------------
(* The memory: update_memory and schedule.                                 *)

Drains == \/ Len(Clean(writes)) > HiWm
          \/ drain /\ Len(Clean(writes)) > LoWm
          \/ Clean(reads) = <<>>

\* A pass over a queue: command_issuable goes from 1 to 2 at once, and on
\* when the command before has taken its time.
Pass(queue, ready) ==
  [i \in DOMAIN queue |->
     IF queue[i].phase = 1 THEN [queue[i] EXCEPT !.phase = 2]
     ELSE IF i \notin ready THEN queue[i]
     ELSE IF queue[i].phase = 2 THEN [queue[i] EXCEPT !.phase = 3]
     ELSE [queue[i] EXCEPT !.served = TRUE]]

\* Critical reads of slot s of core c that are served in this pass.
ServedFor(queue, ready, c, s) ==
  {i \in DOMAIN queue \cap ready : queue[i].phase = 3 /\ queue[i].owner = <<c, s>>}

\* Mutant: writeqfull is not reset.
WqFullKept == writeqfull \/ Len(writes') >= WqCapacity

WqFull == Len(writes') >= WqCapacity

OpenFetch ==
  /\ stage' = 0
  /\ numFetch' = 0
  /\ writeqfull' = WqFull
  /\ UNCHANGED <<finished, exptDone>>

DrainWrites(ready) ==
  /\ stage = AtMemory
  /\ Drains
  /\ drain' = TRUE
  /\ reads' = Clean(reads)
  /\ writes' = Pass(Clean(writes), ready)
  /\ OpenFetch
  /\ UNCHANGED rob

\* The last critical read of an instruction sets its completion time.
Wakes(queue, ready, c, s) ==
  /\ ServedFor(queue, ready, c, s) # {}
  /\ critical[c][s] = Cardinality(ServedFor(queue, ready, c, s))

ServeReads(ready) ==
  /\ stage = AtMemory
  /\ ~Drains
  /\ drain' = FALSE
  /\ reads' = Pass(Clean(reads), ready)
  /\ writes' = Clean(writes)
  /\ critical' = [c \in Core |-> [s \in Slot |->
                    critical[c][s] - Cardinality(ServedFor(Clean(reads), ready, c, s))]]
  /\ waiting' = [c \in Core |-> [s \in Slot |->
                   waiting[c][s] /\ ~Wakes(Clean(reads), ready, c, s)]]
  /\ OpenFetch
  /\ UNCHANGED <<head, inflight>>

\* CYCLE_VAL is no multiple of PROCESSOR_CLK_MULTIPLIER, or has not moved.
SkipMemory ==
  /\ stage = AtMemory
  /\ UNCHANGED <<queues, rob>>
  /\ OpenFetch

Ready == SUBSET (DOMAIN reads \cup DOMAIN writes)

Memory == \E ready \in Ready : DrainWrites(ready) \/ ServeReads(ready)

-----------------------------------------------------------------------------
(* Fetch.                                                                  *)

TailOf(c) == (head[c] + inflight[c]) % RobSize

\* Mutant: the write queue is not looked at.
CanFetchFull(c) ==
  /\ stage = c
  /\ numFetch < MaxFetch
  /\ inflight[c] # RobSize

CanFetch(c) ==
  /\ stage = c
  /\ numFetch < MaxFetch
  /\ inflight[c] # RobSize
  /\ ~writeqfull

\* The instruction takes the slot at the tail and waits for n reads.
Enter(c, n) ==
  /\ inflight' = [inflight EXCEPT ![c] = @ + 1]
  /\ waiting' = [waiting EXCEPT ![c][TailOf(c)] = n > 0]
  /\ critical' = [critical EXCEPT ![c][TailOf(c)] = @ + n]
  /\ numFetch' = numFetch + 1
  /\ finished' \in {finished, finished \cup {c}}
  /\ UNCHANGED <<head, drain, stage, exptDone>>

\* No memory access, or one that hits in the last-level cache.
FetchDone(c) ==
  /\ CanFetch(c)
  /\ Enter(c, 0)
  /\ UNCHANGED <<reads, writes, writeqfull>>

Queued(queue, line) == \E i \in DOMAIN queue : queue[i].line = line

FirstQueued(queue, line) ==
  CHOOSE i \in DOMAIN queue :
    /\ queue[i].line = line
    /\ \A j \in 1..(i - 1) : queue[j].line # line

Matches(line) == UseL3 /\ (Queued(writes, line) \/ Queued(reads, line))

\* What a walk puts into the queues besides the reads that are waited for.
Insert(readsNow, writesNow, w) ==
  /\ reads' = readsNow \o Requests(w.reads, NoOwner)
  /\ writes' = writesNow \o Requests(w.writes, NoOwner)
  /\ Len(reads') <= MaxReads

\* The pending read of a line with one more instruction merged into it.
Joined(line, owner) ==
  IF Queued(writes, line)
  THEN reads
  ELSE [reads EXCEPT ![FirstQueued(reads, line)].joined = @ \cup {owner}]

\* A read that is answered from the queues completes after a fixed latency;
\* its line may throw a dirty one out of the last-level cache all the same.
FetchMerged(c, line, w) ==
  /\ CanFetch(c)
  /\ Matches(line)
  /\ w.critical = 0
  /\ Insert(Joined(line, <<c, TailOf(c)>>), writes, w)
  /\ Enter(c, 0)
  /\ UNCHANGED writeqfull

\* The reads an instruction waits for: the data and, for its counter, the
\* lines of the tree that are not cached.
Critical(w) == 1 + w.critical

FetchRead(c, line, w) ==
  /\ CanFetch(c)
  /\ ~Matches(line)
  /\ Insert(reads \o <<Request(line, <<c, TailOf(c)>>)>>
                   \o [i \in 1..w.critical |-> Request(Meta, <<c, TailOf(c)>>)],
            writes, w)
  /\ Enter(c, Critical(w))
  /\ UNCHANGED writeqfull

\* A write whose line is not in the last-level cache throws another out.  It
\* is written back if it is dirty, unless the queue holds a write of it.
WriteBack(line, w) ==
  /\ ~Queued(writes, line)
  /\ w.critical = 0
  /\ Insert(reads, writes \o <<Request(line, NoOwner)>>, w)

NoWriteBack(line) ==
  /\ UseL3 \/ Queued(writes, line)
  /\ UNCHANGED <<reads, writes>>

FetchWrite(c, line, w) ==
  /\ CanFetch(c)
  /\ WriteBack(line, w) \/ NoWriteBack(line)
  /\ Enter(c, 0)
  /\ writeqfull' = (Len(writes') >= WqCapacity)

Fetch(c) ==
  \/ FetchDone(c)
  \/ \E line \in Line, w \in Walk :
       FetchMerged(c, line, w) \/ FetchRead(c, line, w) \/ FetchWrite(c, line, w)

\* The core cannot or need not fetch more.
EndFetch(c) ==
  /\ stage = c
  /\ numFetch' = 0
  /\ IF c + 1 \in Core
     THEN stage' = c + 1 /\ UNCHANGED exptDone
     ELSE stage' = Retiring /\ exptDone' = (finished = Core)
  /\ UNCHANGED <<queues, rob, writeqfull, finished>>

-----------------------------------------------------------------------------
Init ==
  /\ reads = <<>> /\ writes = <<>> /\ drain = FALSE
  /\ head = [c \in Core |-> 0] /\ inflight = [c \in Core |-> 0]
  /\ waiting = [c \in Core |-> [s \in Slot |-> FALSE]]
  /\ critical = [c \in Core |-> [s \in Slot |-> 0]]
  /\ stage = Retiring /\ numFetch = 0 /\ writeqfull = FALSE
  /\ finished = {} /\ exptDone = FALSE

Next ==
  \/ EndRetire \/ SkipMemory \/ Memory
  \/ \E c \in Core : Retire(c) \/ Fetch(c) \/ EndFetch(c)
  \/ exptDone /\ UNCHANGED vars

\* The request at the front of a queue is not held up forever.
FrontReady(ready) == 1 \in ready

Fairness ==
  /\ WF_vars(Next)
  /\ SF_vars(\E ready \in Ready : DrainWrites(ready) /\ FrontReady(ready))
  /\ SF_vars(\E ready \in Ready : ServeReads(ready) /\ FrontReady(ready))
  /\ \A c \in Core : SF_vars(Retire(c))

Spec == Init /\ [][Next]_vars /\ Fairness

-----------------------------------------------------------------------------
(* Properties.                                                             *)

RequestType == [line : Line \cup {Meta}, owner : (Core \X Slot) \cup {NoOwner},
                phase : 1..3, served : BOOLEAN, joined : SUBSET (Core \X Slot)]

\* Queues, reorder buffers and counters stay within their ranges.
TypeOK ==
  /\ reads \in Seq(RequestType) /\ writes \in Seq(RequestType)
  /\ drain \in BOOLEAN /\ writeqfull \in BOOLEAN /\ exptDone \in BOOLEAN
  /\ head \in [Core -> Slot] /\ inflight \in [Core -> 0..RobSize]
  /\ waiting \in [Core -> [Slot -> BOOLEAN]]
  /\ critical \in [Core -> [Slot -> Nat]]
  /\ stage \in Core \cup {Retiring, AtMemory}
  /\ numFetch \in 0..MaxFetch
  /\ finished \in SUBSET Core

Pending(c, s) == {i \in DOMAIN reads : reads[i].owner = <<c, s>> /\ ~reads[i].served}

\* critical_mem_ops is the number of reads an instruction still waits for:
\* no read is counted or served twice, although served requests stay in the
\* queue until the next update_memory.
CriticalCounted ==
  \A c \in Core, s \in Slot : critical[c][s] = Cardinality(Pending(c, s))

InFlight(c, s) == (s - head[c]) % RobSize < inflight[c]

\* An instruction waits as long as reads it needs are in the queue, and no
\* longer; in particular its slot is not given to another one before.
WaitsForReads ==
  \A c \in Core, s \in Slot :
    /\ waiting[c][s] <=> Pending(c, s) # {}
    /\ waiting[c][s] => InFlight(c, s)

LongestWalk == Max({Len(w.writes) : w \in Walk} \cup {0})

\* The write queue outgrows its capacity by no more than what the walks of
\* one turn insert: a read does not look at the queue again, and the write
\* that fills it is the last instruction of the turn.
QueueBounded ==
  Len(writes) <= WqCapacity + NumCores * MaxFetch * LongestWalk

\* The queues stay within their ranges, the write queue within its bound.
QueuesBounded == TypeOK /\ QueueBounded

\* critical_mem_ops counts the reads an instruction needs, and it waits exactly
\* as long as there are any.
ReadsAwaited == CriticalCounted /\ WaitsForReads

\* The system as a whole goes on: not all cores wait for each other, for
\* the reads the drain mode holds up, or for a full write queue.
Progress ==
  <>exptDone \/ []<>(\E c \in Core : CanFetch(c))

\* If the channel leaves the drain mode again and again, every instruction
\* that waits for reads is woken.
ReadsServed ==
  <>exptDone \/
    ([]<>(~drain) => \A c \in Core, s \in Slot : waiting[c][s] ~> ~waiting[c][s])

\* Some core can always fetch again, and reads are served unless the channel
\* drains its writes for ever.
LoopGoesOn == Progress /\ ReadsServed

\* The comment on read_matches_write_or_read_queue: the second of two reads
\* of a line is serviced when the first one completes.
MergedReadWaits ==
  [][\A c \in Core :
       head'[c] # head[c] =>
         \A i \in DOMAIN reads :
           <<c, head[c]>> \in reads[i].joined => reads[i].served]_vars
=============================================================================
