------------------------------ MODULE TraceRun ------------------------------
(***************************************************************************)
(* The course of an experiment: main reads a first line of each trace,     *)
(* runs the caches over the traces without timing (the fast part), resets  *)
(* what was counted, and then runs the timed loop, until all cores have    *)
(* executed enough.  A core that has goes on as a load for the others.     *)
(*                                                                         *)
(* What the memory does meanwhile, and retirement, is MemSched: here it    *)
(* stops a core from fetching at any time.                                 *)
(***************************************************************************)
EXTENDS Integers, Sequences, FiniteSets, FiniteSetsExt

CONSTANTS
  NumCores,     \* NUMCORES
  MaxFetch,     \* MAX_FETCH
  Trace,        \* Trace[c]: the lines of the trace of core c
  MaxExec,      \* max_inst_exec: instructions of the first part
  MaxExec2nd,   \* maxexecute_2nd: instructions after the fast part
  Args,         \* what the program may be started with
  MaxInst       \* model bound: instructions of a core that has executed enough

Core == 0..(NumCores - 1)

\* A line of a trace: nonmemops instructions, then a memory operation.
TraceLine == [nonmemops : Nat, opertype : {"R", "W"}]

\* sim_mode (0: timed only, 1: fast only, 2: fast, then timed), SGX_MODE,
\* sim_useL3, and what reads a trace: "records" is read_trace_line_1rec,
\* "lines" is gzgets or fgets.
Argument == [mode : 0..2, sgx : 0..5, useL3 : BOOLEAN, reader : {"records", "lines"}]

ASSUME RunAssumption ==
  /\ NumCores \in Nat \ {0} /\ MaxFetch \in Nat \ {0}
  /\ MaxExec \in Nat /\ MaxExec2nd \in Nat /\ MaxInst \in Nat
  /\ Args \subseteq Argument
  /\ DOMAIN Trace = Core
  /\ \A c \in Core : Trace[c] \in Seq(TraceLine) /\ Trace[c] # <<>>

VARIABLES
  arg,          \* one of Args
  part,         \* "first" lines, "fast", "timed" or "ended"
  turn,         \* numc: the core whose turn it is
  numFetch,     \* num_fetch
  coreRun,      \* core_run: the cores that run in this turn of the loop
  exptDone,     \* expt_done
  maxexecute,   \* the same for all cores
  line,         \* line[c]: number of the line core c works on
  nonmemops,    \* what is left of its instructions
  pos,          \* lines read since the file was rewound
  tracedone,    \* ROB[c].tracedone
  committed,    \* in the fast part; retirement goes on counting in the timed
  fetched, instExec, instDone,   \* fetched, inst_exec, inst_done
  flag, numDone,                 \* flag, num_done
  countTotal,   \* count_i_total
  asked,        \* what the last memory operation asked the memory for
  issued,       \* history: the line of core c whose operation was issued last
  carried,      \* history: instructions read, not counted in the timed part
  replayed      \* history: rewinds, each of which issues an operation again

file    == <<line, nonmemops, pos>>
counts  == <<instExec, instDone, flag, numDone>>
history == <<carried, replayed>>
loop    == <<arg, part, coreRun, exptDone, maxexecute>>
vars == <<loop, turn, numFetch, file, tracedone, committed, fetched, counts,
          countTotal, asked, issued, history>>

Size(c, l) == Trace[c][l].nonmemops + 1

\* sim_fast
Fast == arg.mode # 0 /\ part \in {"first", "fast"}

SumOf(f) == MapThenSumSet(LAMBDA c : f[c], Core)

-----------------------------------------------------------------------------
(* Reading and counting a line.                                            *)

AtEnd(c) == pos[c] = Len(Trace[c])

\* Mutant: the line that shows that the file was at its end is lost.
ReadOnLate(c) ==
  LET l == IF AtEnd(c) THEN 2 ELSE pos[c] + 1
  IN  /\ line' = [line EXCEPT ![c] = l]
      /\ pos' = [pos EXCEPT ![c] = l]
      /\ nonmemops' = [nonmemops EXCEPT ![c] = Trace[c][l].nonmemops]

\* The next line, from the start again after the last.
ReadOn(c) ==
  LET l == IF AtEnd(c) THEN 1 ELSE pos[c] + 1
  IN  /\ line' = [line EXCEPT ![c] = l]
      /\ pos' = [pos EXCEPT ![c] = l]
      /\ nonmemops' = [nonmemops EXCEPT ![c] = Trace[c][l].nonmemops]

\* Core c has executed exec instructions; the first time that they are more
\* than maxexecute they are what it has done.
Finish(c, exec) ==
  /\ instDone' = IF flag[c] THEN instDone ELSE [instDone EXCEPT ![c] = exec]
  /\ flag' = [flag EXCEPT ![c] = @ \/ exec > maxexecute]
  /\ numDone' = IF ~flag[c] /\ exec > maxexecute THEN numDone + 1 ELSE numDone

\* A line counts as executed when it is read.
Count(c) ==
  /\ instExec' = [instExec EXCEPT ![c] = @ + Size(c, line'[c])]
  /\ countTotal' = IF Fast THEN countTotal ELSE countTotal + Size(c, line'[c])
  /\ Finish(c, instExec'[c])

ReadFirst(c) ==
  /\ part = "first" /\ turn = c
  /\ ReadOn(c)
  /\ Count(c)
  /\ turn' = turn + 1
  /\ UNCHANGED <<loop, numFetch, tracedone, committed, fetched, asked, issued,
                 history>>

BeginLoop ==
  /\ part = "first" /\ turn = NumCores
  /\ part' = IF Fast THEN "fast" ELSE "timed"
  /\ turn' = 0
  /\ UNCHANGED <<arg, coreRun, exptDone, maxexecute, numFetch, file, tracedone,
                 committed, fetched, counts, countTotal, asked, issued, history>>

-----------------------------------------------------------------------------
(* What a memory operation asks for.                                       *)

Op(c) == Trace[c][line[c]].opertype

Nothing == [op |-> "none", hit |-> FALSE, queued |-> FALSE, dirty |-> FALSE, for |-> {}]

\* A trace of misses of the last-level cache finds nothing in one, and what
\* it writes is what was thrown out.
CacheAnswers(op) ==
  IF arg.useL3 THEN [hit : BOOLEAN, dirty : BOOLEAN]
  ELSE {[hit |-> FALSE, dirty |-> op = "W"]}

Asked(op, answer, queued, for) ==
  [op |-> op, hit |-> answer.hit, queued |-> queued,
   dirty |-> answer.dirty /\ ~answer.hit, for |-> for]

\* handle_dirty_wb_LLC, for both parts.
WriteBack ==
  {"new data"}
    \cup {x \in {"new mac"} : arg.sgx >= 1 /\ arg.sgx # 4}
    \cup {x \in {"counter", "new counter"} : arg.sgx >= 1 /\ arg.sgx # 5}

(* The access path of the fast part. *)

\* Mutant: designs with the MAC in the data are taken for ones without counters.
WarmFetchesBare ==
  {"data"} \cup {x \in {"mac", "counter"} : arg.sgx >= 1 /\ arg.sgx \notin {3, 4}}

\* Modes 3 and 4 have the MAC with the data, mode 5 has no counters.
WarmFetches ==
  {"data"}
    \cup {x \in {"mac"} : arg.sgx >= 1 /\ ~(arg.sgx = 3 \/ arg.sgx = 4)}
    \cup {x \in {"counter"} : arg.sgx >= 1 /\ ~(arg.sgx = 5)}

WarmRead(answer) ==
  WarmFetches \cup (IF arg.useL3 /\ answer.dirty THEN WriteBack ELSE {})

WarmWrite(answer) == IF answer.dirty THEN WriteBack ELSE {}

\* In the fast part nothing is ever queued.
WarmAccess(op) ==
  {Asked(op, a, FALSE,
         IF a.hit THEN {} ELSE IF op = "R" THEN WarmRead(a) ELSE WarmWrite(a)) :
     a \in CacheAnswers(op)}

(* The access path of the timed part, written a second time in the code. *)

TimedFetches ==
  {"data"}
    \cup {x \in {"mac"} : arg.sgx >= 1 /\ ~(arg.sgx = 3 \/ arg.sgx = 4)}
    \cup {x \in {"counter"} : arg.sgx >= 1 /\ ~(arg.sgx = 5)}

\* Only a run with an L3 looks for what it reads in the queues; what is
\* written back is always looked for.
QueueAnswers(op) == IF op = "W" \/ arg.useL3 THEN BOOLEAN ELSE {FALSE}

\* A read that is in the queues throws another line out all the same.
TimedRead(answer, queued) ==
  (IF queued THEN {} ELSE TimedFetches)
    \cup (IF arg.useL3 /\ answer.dirty THEN WriteBack ELSE {})

\* A write is dropped if the queue holds one of the line thrown out.
TimedWrite(answer, queued) == IF answer.dirty /\ ~queued THEN WriteBack ELSE {}

TimedAccess(op) ==
  {Asked(op, a, q,
         IF a.hit THEN {} ELSE IF op = "R" THEN TimedRead(a, q) ELSE TimedWrite(a, q)) :
     a \in CacheAnswers(op), q \in QueueAnswers(op)}

-----------------------------------------------------------------------------
(* The fast part.                                                          *)

\* Mutant: one core that has executed enough ends the part.
EndsFastEarly(c) == exptDone' = (exptDone \/ committed'[c] >= maxexecute)

EndsFast(c) == exptDone' = (exptDone \/ (committed'[c] >= maxexecute /\ numDone' = NumCores))

FinishFast(c) ==
  /\ flag' = [flag EXCEPT ![c] = @ \/ committed'[c] >= maxexecute]
  /\ numDone' = IF ~flag[c] /\ committed'[c] >= maxexecute THEN numDone + 1 ELSE numDone
  /\ EndsFast(c)

\* A core executes a line and reads the next.
FastLine(c) ==
  /\ part = "fast" /\ turn = c
  /\ asked' \in WarmAccess(Op(c))
  /\ issued' = [issued EXCEPT ![c] = line[c]]
  /\ committed' = [committed EXCEPT ![c] = @ + nonmemops[c] + 1]
  /\ countTotal' = countTotal + nonmemops[c] + 1
  /\ FinishFast(c)
  /\ ReadOn(c)
  /\ turn' = turn + 1
  /\ UNCHANGED <<arg, part, coreRun, maxexecute, numFetch, tracedone, fetched,
                 instExec, instDone, history>>

FastTurn ==
  /\ part = "fast" /\ turn = NumCores /\ ~exptDone
  /\ turn' = 0
  /\ UNCHANGED <<loop, numFetch, file, tracedone, committed, fetched, counts,
                 countTotal, asked, issued, history>>

\* Mutant: what the first lines count is not forgotten.
ForgetLess ==
  /\ instDone' = [c \in Core |-> 0] /\ UNCHANGED instExec
  /\ flag' = [c \in Core |-> FALSE] /\ numDone' = 0
  /\ countTotal' = 0

\* Mutant: the cores that have executed enough are not asked for more.
ForgetFlags ==
  /\ instDone' = [c \in Core |-> 0] /\ instExec' = [c \in Core |-> 0]
  /\ numDone' = 0 /\ countTotal' = 0
  /\ UNCHANGED flag

\* Everything counted so far is forgotten, the lines read are not.
Forget ==
  /\ instDone' = [c \in Core |-> 0] /\ instExec' = [c \in Core |-> 0]
  /\ flag' = [c \in Core |-> FALSE] /\ numDone' = 0
  /\ countTotal' = 0

EndFast ==
  /\ part = "fast" /\ turn = NumCores /\ exptDone
  /\ IF arg.mode = 2
     THEN /\ Forget
          /\ part' = "timed" /\ exptDone' = FALSE /\ maxexecute' = MaxExec2nd
          /\ carried' = [c \in Core |-> nonmemops[c] + 1]
          /\ turn' = 0
     ELSE /\ part' = "ended"
          /\ UNCHANGED <<counts, countTotal, exptDone, maxexecute, carried, turn>>
  /\ UNCHANGED <<arg, coreRun, numFetch, file, tracedone, committed, fetched,
                 asked, issued, replayed>>

-----------------------------------------------------------------------------
(* The timed part.                                                         *)

EndTurn ==
  /\ turn' = turn + 1
  /\ numFetch' = 0

CanFetch(c) ==
  /\ part = "timed" /\ turn = c /\ c \in coreRun
  /\ ~tracedone[c]
  /\ numFetch < MaxFetch

FetchNonMem(c) ==
  /\ CanFetch(c)
  /\ nonmemops[c] > 0
  /\ nonmemops' = [nonmemops EXCEPT ![c] = @ - 1]
  /\ fetched' = [fetched EXCEPT ![c] = @ + 1]
  /\ numFetch' = numFetch + 1
  /\ UNCHANGED <<loop, turn, line, pos, tracedone, committed, counts, countTotal,
                 asked, issued, history>>

\* Only the reader of records goes on at the end of the file by itself.
LineComes(c) == arg.reader = "records" \/ ~AtEnd(c)

NextLine(c) ==
  /\ LineComes(c)
  /\ flag[c] => instExec[c] <= MaxInst
  /\ ReadOn(c)
  /\ Count(c)
  /\ numFetch' = numFetch + 1
  /\ UNCHANGED <<turn, tracedone>>

NoLine(c) ==
  /\ ~LineComes(c)
  /\ tracedone' = [tracedone EXCEPT ![c] = TRUE]
  /\ EndTurn
  /\ UNCHANGED <<file, counts, countTotal>>

FetchMem(c) ==
  /\ CanFetch(c)
  /\ nonmemops[c] = 0
  /\ asked' \in TimedAccess(Op(c))
  /\ issued' = [issued EXCEPT ![c] = line[c]]
  /\ fetched' = [fetched EXCEPT ![c] = @ + 1]
  /\ NextLine(c) \/ NoLine(c)
  /\ UNCHANGED <<loop, committed, history>>

\* The file is rewound, but no line is read: the core still holds the last
\* one, whose memory operation is issued once more.
Rewind(c) ==
  /\ part = "timed" /\ turn = c /\ c \in coreRun
  /\ tracedone[c]
  /\ pos' = [pos EXCEPT ![c] = 0]
  /\ tracedone' = [tracedone EXCEPT ![c] = FALSE]
  /\ replayed' = [replayed EXCEPT ![c] = @ + 1]
  /\ EndTurn
  /\ UNCHANGED <<loop, line, nonmemops, committed, fetched, counts, countTotal,
                 asked, issued, carried>>

\* The core does not run, has fetched all it may, or has no room.
Pass(c) ==
  /\ part = "timed" /\ turn = c
  /\ ~(c \in coreRun /\ tracedone[c])
  /\ EndTurn
  /\ UNCHANGED <<loop, file, tracedone, committed, fetched, counts, countTotal,
                 asked, issued, history>>

\* A core runs in the next turn with a chance of core_mod out of MAXMOD.
TimedTurn ==
  /\ part = "timed" /\ turn = NumCores
  /\ exptDone' = (numDone = NumCores)
  /\ part' = IF exptDone' THEN "ended" ELSE "timed"
  /\ coreRun' \in SUBSET Core
  /\ turn' = 0
  /\ UNCHANGED <<arg, maxexecute, numFetch, file, tracedone, committed, fetched,
                 counts, countTotal, asked, issued, history>>

-----------------------------------------------------------------------------
Init ==
  /\ arg \in Args
  /\ part = "first" /\ turn = 0 /\ numFetch = 0
  /\ coreRun = {} /\ exptDone = FALSE /\ maxexecute = MaxExec
  /\ line = [c \in Core |-> 0] /\ nonmemops = [c \in Core |-> 0]
  /\ pos = [c \in Core |-> 0] /\ tracedone = [c \in Core |-> FALSE]
  /\ committed = [c \in Core |-> 0] /\ fetched = [c \in Core |-> 0]
  /\ instExec = [c \in Core |-> 0] /\ instDone = [c \in Core |-> 0]
  /\ flag = [c \in Core |-> FALSE] /\ numDone = 0 /\ countTotal = 0
  /\ asked = Nothing
  /\ issued = [c \in Core |-> Len(Trace[c])]
  /\ carried = [c \in Core |-> 0] /\ replayed = [c \in Core |-> 0]

Ended == part = "ended" /\ UNCHANGED vars

Next ==
  \/ BeginLoop \/ FastTurn \/ EndFast \/ TimedTurn \/ Ended
  \/ \E c \in Core :
       \/ ReadFirst(c) \/ FastLine(c)
       \/ FetchNonMem(c) \/ FetchMem(c) \/ Rewind(c) \/ Pass(c)

\* The loop goes on.  That is all: which cores fetch in it is up to chance,
\* and to the queues.
Spec == Init /\ [][Next]_vars /\ WF_vars(Next)

-----------------------------------------------------------------------------
(* Properties.                                                             *)

\* Counters, flags and positions stay within their ranges.
TypeOK ==
  /\ arg \in Args /\ part \in {"first", "fast", "timed", "ended"}
  /\ turn \in 0..NumCores /\ numFetch \in 0..MaxFetch
  /\ coreRun \subseteq Core /\ exptDone \in BOOLEAN /\ maxexecute \in Nat
  /\ \A c \in Core : line[c] \in 0..Len(Trace[c]) /\ pos[c] \in 0..Len(Trace[c])
  /\ nonmemops \in [Core -> Nat] /\ tracedone \in [Core -> BOOLEAN]
  /\ committed \in [Core -> Nat] /\ fetched \in [Core -> Nat]
  /\ instExec \in [Core -> Nat] /\ instDone \in [Core -> Nat]
  /\ flag \in [Core -> BOOLEAN] /\ numDone \in 0..NumCores /\ countTotal \in Nat
  /\ carried \in [Core -> Nat] /\ replayed \in [Core -> Nat]

\* sim_mode 1 has no timed part.
Timed == part \in {"timed", "ended"} /\ arg.mode # 1

\* What core c has still to fetch of its line.
Due(c) == IF tracedone[c] THEN 0 ELSE nonmemops[c] + 1

\* The instructions a core has fetched are those counted as executed, but for
\* three things: the line it works on is counted in advance, the line it
\* held when the fast part ended is not counted at all, and nor is the
\* operation that each rewind of a text trace lets it issue again.
InstructionsAddUp ==
  Timed => \A c \in Core :
             fetched[c] + Due(c) = instExec[c] + carried[c] + replayed[c]

\* count_i_total, by which the traffic of the memory is divided, belongs to
\* the same part of the experiment as what it is the sum of: the instructions
\* executed in the fast part, those read in the timed part.
TotalAddsUp ==
  /\ Timed => countTotal = SumOf(instExec)
  /\ part = "fast" => countTotal = SumOf(committed)

LongestLine(c) == Max({Size(c, l) : l \in DOMAIN Trace[c]})

\* num_done is the number of cores that have executed enough in this part, and
\* what a core reports is what it had executed when it first had: it does not
\* grow while the core goes on, and exceeds maxexecute by less than a line.
DoneOnce ==
  /\ numDone = Cardinality({c \in Core : flag[c]})
  /\ Timed => \A c \in Core :
                /\ flag[c] <=> instDone[c] > maxexecute
                /\ ~flag[c] => instDone[c] = instExec[c]
                /\ instDone[c] <= maxexecute + LongestLine(c)

\* No part ends before every core has executed its share of it; in the timed
\* part what is reported has then been fetched, but for the line at hand.
SharesExecuted ==
  /\ arg.mode # 0 /\ part \in {"timed", "ended"} =>
       \A c \in Core : committed[c] >= MaxExec
  /\ part = "ended" /\ arg.mode # 1 =>
       \A c \in Core : /\ instDone[c] > maxexecute
                       /\ fetched[c] + Due(c) >= instDone[c]

\* What is counted is what was executed, part by part.
CountsAgree == TypeOK /\ InstructionsAddUp /\ TotalAddsUp

\* A core is done once, and no part ends before all cores are.
SharesDone == DoneOnce /\ SharesExecuted

\* The access path is written twice, for the fast part and for the timed part,
\* and the write-back once more tests the design.  Whatever an operation asks
\* for in one part it might have asked for in the other, but for what the queues
\* answer; so the fast part warms up what the timed part uses.  And what a read
\* checks or deciphers its data with is what write-backs renew.
PathsAgree ==
  /\ asked # Nothing /\ ~asked.queued =>
       asked \in WarmAccess(asked.op) /\ asked \in TimedAccess(asked.op)
  /\ "mac" \in asked.for => "new mac" \in WriteBack
  /\ "data" \in asked.for => ("counter" \in asked.for <=> "new counter" \in WriteBack)

\* A core issues the operations of its trace in their order, from the fast
\* part through the timed part and over the end of the file, without leaving
\* one out.
InOrder ==
  [][\A c \in Core :
       issued'[c] # issued[c] => issued'[c] = (issued[c] % Len(Trace[c])) + 1]_vars

\* A core that has not yet executed enough goes on fetching.
FetchesOn(c) == <>[]flag[c] \/ []<><<FetchNonMem(c) \/ FetchMem(c)>>_vars

\* The fast part ends, and so does the experiment if no core is kept from
\* fetching for good before it has executed enough -- however the turns are
\* shared otherwise, and however often the traces start again.
Ends ==
  /\ <>(part \in {"timed", "ended"})
  /\ (\A c \in Core : FetchesOn(c)) => <>(part = "ended")
=============================================================================
