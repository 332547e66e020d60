--------------------------- MODULE TraceRunProofs ---------------------------
(***************************************************************************)
(* Proofs about TraceRun, for any number of cores and any traces: a core   *)
(* issues the operations of its trace in their order, and the instructions *)
(* it has fetched are those counted as executed, but for what the fast     *)
(* part leaves behind and what a rewind repeats.  And about TraceReader,   *)
(* for any texts and any size of the block: it gives their lines in order. *)
(***************************************************************************)
EXTENDS TraceRun, TraceReader, DataLemmas, SequenceTheorems

\* Positions and counts are what the properties take them for.
Shape ==
  /\ part \in {"first", "fast", "timed", "ended"}
  /\ turn \in 0..NumCores
  /\ arg.mode \in 0..2 /\ (part = "fast" => arg.mode # 0)
  /\ line \in [Core -> Nat] /\ pos \in [Core -> Nat] /\ issued \in [Core -> Nat]
  /\ nonmemops \in [Core -> Nat] /\ tracedone \in [Core -> BOOLEAN]
  /\ fetched \in [Core -> Nat] /\ instExec \in [Core -> Nat]
  /\ carried \in [Core -> Nat] /\ replayed \in [Core -> Nat]

\* The line after line l of the trace of core c.
After(c, l) == IF l = Len(Trace[c]) THEN 1 ELSE l + 1

\* Core c works on a line, the last one read, that comes after the one whose
\* operation it issued.
AtNext(c) ==
  /\ line[c] \in 1..Len(Trace[c]) /\ pos[c] = line[c]
  /\ issued[c] \in 1..Len(Trace[c]) /\ line[c] = After(c, issued[c])
  /\ ~tracedone[c]

\* It has issued the last operation and found no line after it, or has rewound
\* the file since, and still holds that line.
AtLast(c) ==
  /\ line[c] = Len(Trace[c]) /\ issued[c] = Len(Trace[c]) /\ nonmemops[c] = 0
  /\ IF tracedone[c] THEN pos[c] = Len(Trace[c]) ELSE pos[c] = 0

\* It has read no line yet.
AtStart(c) ==
  /\ line[c] = 0 /\ pos[c] = 0 /\ issued[c] = Len(Trace[c])
  /\ instExec[c] = 0 /\ ~tracedone[c]

\* Until the timed part begins nothing is fetched, rewound or left behind.
Untimed(c) == fetched[c] = 0 /\ carried[c] = 0 /\ replayed[c] = 0

Counted(c) == fetched[c] + Due(c) = instExec[c] + carried[c] + replayed[c]

Course(c) ==
  /\ part = "first" => /\ Untimed(c)
                       /\ IF c < turn THEN AtNext(c) /\ instExec[c] = nonmemops[c] + 1
                          ELSE AtStart(c)
  /\ part = "fast" => Untimed(c) /\ AtNext(c)
  /\ part \in {"timed", "ended"} => AtNext(c) \/ AtLast(c)
  /\ Timed => Counted(c)

IInv == Shape /\ \A c \in Core : Course(c)

-----------------------------------------------------------------------------
(* Traces.                                                                 *)

\* A trace has lines, and each has a number of instructions.
LEMMA Traces ==
  ASSUME NEW c \in Core
  PROVE  /\ Len(Trace[c]) \in Nat /\ Len(Trace[c]) >= 1
         /\ \A l \in 1..Len(Trace[c]) : Trace[c][l].nonmemops \in Nat
<1>1. Trace[c] \in Seq(TraceLine) /\ Trace[c] # <<>>
  BY RunAssumption
<1>2. \A l \in 1..Len(Trace[c]) : Trace[c][l] \in TraceLine
  BY <1>1
<1>3. QED
  BY <1>1, <1>2 DEF TraceLine

\* The line after l is the one that InOrder names.
LEMMA AfterMod ==
  ASSUME NEW c \in Core, NEW l \in 1..Len(Trace[c])
  PROVE  /\ After(c, l) = (l % Len(Trace[c])) + 1
         /\ After(c, l) \in 1..Len(Trace[c])
<1>1. ASSUME NEW n \in Nat \ {0}, NEW k \in 1..n
      PROVE  k % n = IF k = n THEN 0 ELSE k
  <2>1. n % n = 0
    BY Z3
  <2>2. k < n => k % n = k
    BY Z3
  <2>3. QED
    BY <2>1, <2>2
<1>2. Len(Trace[c]) \in Nat \ {0}
  BY Traces
<1>3. l % Len(Trace[c]) = IF l = Len(Trace[c]) THEN 0 ELSE l
  BY <1>1, <1>2
<1> DEFINE n == Len(Trace[c])
           m == l % Len(Trace[c])
<1>4. n \in Nat \ {0} /\ l \in 1..n /\ m = (IF l = n THEN 0 ELSE l)
  BY <1>2, <1>3
<1> HIDE DEF n, m
<1>5. (IF l = n THEN 1 ELSE l + 1) = m + 1 /\ (IF l = n THEN 1 ELSE l + 1) \in 1..n
  BY <1>4
<1>6. QED
  BY <1>5 DEF After, n, m

\* What reading a line does to the core that reads it and to the others.
LEMMA Reading ==
  ASSUME Shape, NEW c \in Core, ReadOn(c), pos[c] \in 0..Len(Trace[c])
  PROVE  /\ line' \in [Core -> Nat] /\ pos' \in [Core -> Nat]
         /\ nonmemops' \in [Core -> Nat]
         /\ line'[c] = After(c, pos[c]) /\ pos'[c] = line'[c]
         /\ line'[c] \in 1..Len(Trace[c])
         /\ nonmemops'[c] + 1 = Size(c, line'[c])
         /\ \A d \in Core : d # c => /\ line'[d] = line[d] /\ pos'[d] = pos[d]
                                     /\ nonmemops'[d] = nonmemops[d]
<1> DEFINE l == After(c, pos[c])
<1>1. l \in 1..Len(Trace[c])
  BY Traces DEF After
<1>2. /\ line' = [line EXCEPT ![c] = l] /\ pos' = [pos EXCEPT ![c] = l]
      /\ nonmemops' = [nonmemops EXCEPT ![c] = Trace[c][l].nonmemops]
  BY DEF ReadOn, After, AtEnd
<1> HIDE DEF l
<1>3. Trace[c][l].nonmemops \in Nat
  BY <1>1, Traces
<1>4. l \in Nat
  BY <1>1
<1>5. /\ line' \in [Core -> Nat] /\ pos' \in [Core -> Nat]
      /\ nonmemops' \in [Core -> Nat]
      /\ line'[c] = l /\ pos'[c] = l /\ nonmemops'[c] = Trace[c][l].nonmemops
      /\ \A d \in Core : d # c => /\ line'[d] = line[d] /\ pos'[d] = pos[d]
                                  /\ nonmemops'[d] = nonmemops[d]
  BY <1>2, <1>3, <1>4 DEF Shape
<1>6. QED
  BY <1>1, <1>3, <1>5 DEF Size, l

-----------------------------------------------------------------------------
(* The steps.                                                              *)

\* A core that issues the operation of the line at hand and reads on issues
\* the operation that comes next, or the last one once more, and then works on
\* the line after it.
LEMMA IssueNext ==
  ASSUME Shape, NEW c \in Core, AtNext(c) \/ AtLast(c), ~tracedone[c],
         issued' = [issued EXCEPT ![c] = line[c]], ReadOn(c), UNCHANGED tracedone
  PROVE  AtNext(c)'
<1>1. pos[c] \in 0..Len(Trace[c]) /\ line[c] \in 1..Len(Trace[c])
  BY Traces DEF AtNext, AtLast
<1>2. /\ line'[c] = After(c, pos[c]) /\ pos'[c] = line'[c]
      /\ line'[c] \in 1..Len(Trace[c])
  BY <1>1, Reading
<1>3. issued'[c] = line[c]
  BY DEF Shape
<1>4. After(c, pos[c]) = After(c, line[c])
  BY <1>1, Traces DEF AtNext, AtLast, After
<1>5. QED
  BY <1>1, <1>2, <1>3, <1>4 DEF AtNext, After

\* The first lines are counted.
LEMMA FirstKeeps ==
  ASSUME IInv, NEW c \in Core, ReadFirst(c)
  PROVE  IInv'
<1>1. Shape /\ part = "first" /\ turn = c /\ AtStart(c) /\ Untimed(c)
  BY DEF IInv, ReadFirst, Course, Core
<1>2. /\ pos[c] \in 0..Len(Trace[c]) /\ ReadOn(c)
  BY <1>1, Traces DEF AtStart, ReadFirst
<1>3. /\ line' \in [Core -> Nat] /\ pos' \in [Core -> Nat]
      /\ nonmemops' \in [Core -> Nat]
      /\ line'[c] = After(c, pos[c]) /\ pos'[c] = line'[c]
      /\ line'[c] \in 1..Len(Trace[c])
      /\ nonmemops'[c] + 1 = Size(c, line'[c])
      /\ \A d \in Core : d # c => /\ line'[d] = line[d] /\ pos'[d] = pos[d]
                                  /\ nonmemops'[d] = nonmemops[d]
  BY <1>1, <1>2, Reading
<1>4. instExec' = [instExec EXCEPT ![c] = instExec[c] + Size(c, line'[c])]
  BY DEF ReadFirst, Count
<1>5. /\ turn' = turn + 1 /\ part' = part /\ tracedone' = tracedone
      /\ fetched' = fetched /\ issued' = issued
      /\ carried' = carried /\ replayed' = replayed /\ arg' = arg
  BY DEF ReadFirst, loop, history
<1>6. Shape'
  <2>1. instExec' \in [Core -> Nat]
    BY <1>1, <1>3, <1>4 DEF Shape
  <2>2. turn' \in 0..NumCores
    BY <1>1, <1>5, RunAssumption DEF Core, Shape
  <2>3. QED
    BY <1>1, <1>3, <1>5, <2>1, <2>2 DEF Shape
<1>7. AtNext(c)' /\ instExec'[c] = nonmemops'[c] + 1
  <2>1. instExec'[c] = nonmemops'[c] + 1
    BY <1>1, <1>3, <1>4 DEF AtStart, Shape
  <2>2. line'[c] = 1 /\ After(c, issued[c]) = 1 /\ issued[c] \in 1..Len(Trace[c])
    BY <1>1, <1>3, Traces DEF AtStart, After
  <2>3. QED
    BY <1>1, <1>3, <1>5, <2>1, <2>2 DEF AtNext, AtStart, After
<1>8. ASSUME NEW d \in Core PROVE Course(d)'
  <2>1. Untimed(d)'
    BY <1>1, <1>5 DEF IInv, Course, Untimed
  <2>2. CASE d = c
    BY <1>1, <1>5, <1>7, <2>1, <2>2 DEF Course, Timed, Core
  <2>3. CASE d # c
    <3>1. d < turn' <=> d < turn
      BY <1>1, <1>5, <2>3 DEF Core
    <3>2. instExec'[d] = instExec[d]
      BY <1>1, <1>4, <2>3 DEF Shape
    <3>3. CASE d < turn
      <4>1. AtNext(d) /\ instExec[d] = nonmemops[d] + 1
        BY <1>1, <3>3 DEF IInv, Course
      <4>2. AtNext(d)' /\ instExec'[d] = nonmemops'[d] + 1
        BY <1>3, <1>5, <2>3, <3>2, <4>1 DEF AtNext, After
      <4>3. QED
        BY <1>1, <1>5, <2>1, <3>1, <3>3, <4>2 DEF Course, Timed
    <3>4. CASE ~(d < turn)
      <4>1. AtStart(d)
        BY <1>1, <3>4 DEF IInv, Course
      <4>2. AtStart(d)'
        BY <1>3, <1>5, <2>3, <3>2, <4>1 DEF AtStart
      <4>3. QED
        BY <1>1, <1>5, <2>1, <3>1, <3>4, <4>2 DEF Course, Timed
    <3>5. QED
      BY <3>3, <3>4
  <2>4. QED
    BY <2>2, <2>3
<1>9. QED
  BY <1>6, <1>8 DEF IInv

\* When the loop begins every core holds its first line, which is counted.
LEMMA BeginKeeps ==
  ASSUME IInv, BeginLoop
  PROVE  IInv'
<1>1. /\ turn' = 0 /\ part' \in {"fast", "timed"} /\ arg' = arg
      /\ (part' = "fast" => arg.mode # 0)
      /\ UNCHANGED <<file, tracedone, fetched, issued>>
      /\ UNCHANGED <<carried, replayed, instExec>> /\ part = "first" /\ turn = NumCores
  BY DEF BeginLoop, history, counts, Fast
<1>2. Shape'
  BY <1>1, RunAssumption DEF IInv, Shape, file
<1>3. ASSUME NEW c \in Core PROVE Course(c)'
  <2>1. Untimed(c) /\ AtNext(c) /\ instExec[c] = nonmemops[c] + 1
    BY <1>1, RunAssumption DEF IInv, Course, Core
  <2>2. Untimed(c)' /\ AtNext(c)' /\ instExec'[c] = nonmemops'[c] + 1
    BY <1>1, <2>1 DEF Untimed, AtNext, After, file
  <2>3. Counted(c)'
    BY <1>1, <2>2 DEF Untimed, AtNext, Counted, Due, IInv, Shape, file
  <2>4. QED
    BY <1>1, <2>2, <2>3 DEF Course
<1>4. QED
  BY <1>2, <1>3 DEF IInv

\* A line of the fast part.
LEMMA FastKeeps ==
  ASSUME IInv, NEW c \in Core, FastLine(c)
  PROVE  IInv'
<1>1. Shape /\ part = "fast" /\ turn = c /\ AtNext(c)
  BY DEF IInv, FastLine, Course
<1>2. /\ issued' = [issued EXCEPT ![c] = line[c]] /\ ReadOn(c) /\ turn' = turn + 1
      /\ part' = part /\ tracedone' = tracedone /\ fetched' = fetched
      /\ instExec' = instExec /\ carried' = carried /\ replayed' = replayed
      /\ arg' = arg
  BY DEF FastLine, history
<1>3. pos[c] \in 0..Len(Trace[c])
  BY <1>1, Traces DEF AtNext
<1>4. /\ line' \in [Core -> Nat] /\ pos' \in [Core -> Nat]
      /\ nonmemops' \in [Core -> Nat]
      /\ \A d \in Core : d # c => /\ line'[d] = line[d] /\ pos'[d] = pos[d]
                                  /\ nonmemops'[d] = nonmemops[d]
  BY <1>1, <1>2, <1>3, Reading
<1>5. Shape'
  <2>1. turn' \in 0..NumCores
    BY <1>1, <1>2, RunAssumption DEF Shape, Core
  <2>2. issued' \in [Core -> Nat]
    BY <1>1, <1>2 DEF Shape
  <2>3. QED
    BY <1>1, <1>2, <1>4, <2>1, <2>2 DEF Shape
<1>6. AtNext(c)'
  BY <1>1, <1>2, IssueNext DEF AtNext
<1>7. ASSUME NEW d \in Core PROVE Course(d)'
  <2>1. Untimed(d) /\ AtNext(d)
    BY <1>1 DEF IInv, Course
  <2>2. Untimed(d)'
    BY <1>2, <2>1 DEF Untimed
  <2>3. d # c => AtNext(d)'
    BY <1>1, <1>2, <1>4, <2>1 DEF AtNext, After, Shape
  <2>4. QED
    BY <1>1, <1>2, <1>6, <2>2, <2>3 DEF Course, Timed
<1>8. QED
  BY <1>5, <1>7 DEF IInv

\* After the fast part nothing is counted but the lines at hand.
LEMMA EndFastKeeps ==
  ASSUME IInv, EndFast
  PROVE  IInv'
<1>1. /\ Shape /\ part = "fast" /\ arg' = arg
      /\ UNCHANGED <<file, tracedone, fetched, issued, replayed>>
  BY DEF EndFast, IInv
<1>2. CASE arg.mode = 2
  <2>1. /\ instExec' = [c \in Core |-> 0] /\ carried' = [c \in Core |-> nonmemops[c] + 1]
        /\ part' = "timed" /\ turn' = 0
    BY <1>2 DEF EndFast, Forget
  <2>2. Shape'
    BY <1>1, <2>1, RunAssumption DEF Shape, file
  <2>3. ASSUME NEW c \in Core PROVE Course(c)'
    <3>1. Untimed(c) /\ AtNext(c)
      BY <1>1 DEF IInv, Course
    <3>2. AtNext(c)'
      BY <1>1, <3>1 DEF AtNext, After, file
    <3>3. Counted(c)'
      BY <1>1, <2>1, <3>1 DEF Untimed, AtNext, Counted, Due, Shape, file
    <3>4. QED
      BY <2>1, <3>2, <3>3 DEF Course
  <2>4. QED
    BY <2>2, <2>3 DEF IInv
<1>3. CASE arg.mode # 2
  <2>1. part' = "ended" /\ UNCHANGED <<turn, instExec, carried>>
    BY <1>3 DEF EndFast, counts
  <2>2. Shape'
    BY <1>1, <2>1 DEF Shape, file
  <2>3. arg.mode = 1
    BY <1>1, <1>3 DEF Shape
  <2>4. ASSUME NEW c \in Core PROVE Course(c)'
    <3>1. AtNext(c)
      BY <1>1 DEF IInv, Course
    <3>2. AtNext(c)'
      BY <1>1, <3>1 DEF AtNext, After, file
    <3>3. QED
      BY <1>1, <2>1, <2>3, <3>2 DEF Course, Timed
  <2>5. QED
    BY <2>2, <2>4 DEF IInv
<1>4. QED
  BY <1>2, <1>3

\* In the timed part the other cores are as they were.
LEMMA OthersKeep ==
  ASSUME IInv, NEW c \in Core, part = "timed", part' = part, arg' = arg,
         Course(c)', Shape',
         \A d \in Core : d # c =>
           /\ line'[d] = line[d] /\ pos'[d] = pos[d] /\ issued'[d] = issued[d]
           /\ nonmemops'[d] = nonmemops[d] /\ tracedone'[d] = tracedone[d]
           /\ fetched'[d] = fetched[d] /\ instExec'[d] = instExec[d]
           /\ carried'[d] = carried[d] /\ replayed'[d] = replayed[d]
  PROVE  IInv'
<1>1. ASSUME NEW d \in Core, d # c PROVE Course(d)'
  <2>1. (AtNext(d) \/ AtLast(d)) /\ (Timed => Counted(d))
    BY DEF IInv, Course
  <2>2. AtNext(d)' \/ AtLast(d)'
    BY <1>1, <2>1 DEF AtNext, AtLast, After
  <2>3. Timed' => Counted(d)'
    BY <1>1, <2>1 DEF Timed, Counted, Due
  <2>4. QED
    BY <2>2, <2>3 DEF Course
<1>2. QED
  BY <1>1 DEF IInv

\* Fetching an instruction that is no memory operation.
LEMMA NonMemKeeps ==
  ASSUME IInv, NEW c \in Core, FetchNonMem(c)
  PROVE  IInv'
<1>1. /\ Shape /\ part = "timed" /\ (AtNext(c) \/ AtLast(c)) /\ (Timed => Counted(c))
      /\ ~tracedone[c] /\ nonmemops[c] > 0
  BY DEF IInv, FetchNonMem, CanFetch, Course
<1>2. /\ nonmemops' = [nonmemops EXCEPT ![c] = nonmemops[c] - 1]
      /\ fetched' = [fetched EXCEPT ![c] = fetched[c] + 1]
      /\ part' = part /\ arg' = arg /\ turn' = turn
      /\ UNCHANGED <<line, pos, tracedone, issued, instExec, carried, replayed>>
  BY DEF FetchNonMem, loop, counts, history
<1>3. nonmemops[c] \in Nat /\ fetched[c] \in Nat /\ instExec[c] \in Nat
      /\ carried[c] \in Nat /\ replayed[c] \in Nat
  BY <1>1 DEF Shape
<1>4. nonmemops'[c] = nonmemops[c] - 1 /\ fetched'[c] = fetched[c] + 1
  BY <1>1, <1>2 DEF Shape
<1>5. Shape'
  <2>1. nonmemops' \in [Core -> Nat] /\ fetched' \in [Core -> Nat]
    BY <1>1, <1>2, <1>3 DEF Shape
  <2>2. QED
    BY <1>1, <1>2, <2>1 DEF Shape
<1>6. AtNext(c)'
  BY <1>1, <1>2 DEF AtNext, AtLast, After
<1>7. Timed' => Counted(c)'
  BY <1>1, <1>2, <1>3, <1>4 DEF Timed, Counted, Due
<1>8. Course(c)'
  BY <1>1, <1>2, <1>6, <1>7 DEF Course
<1>9. \A d \in Core : d # c =>
        nonmemops'[d] = nonmemops[d] /\ fetched'[d] = fetched[d]
  BY <1>1, <1>2 DEF Shape
<1>10. QED
  BY <1>1, <1>2, <1>5, <1>8, <1>9, OthersKeep

\* Fetching a memory operation, with the next line or without one.
LEMMA MemKeeps ==
  ASSUME IInv, NEW c \in Core, FetchMem(c)
  PROVE  IInv'
<1>1. /\ Shape /\ part = "timed" /\ (AtNext(c) \/ AtLast(c)) /\ (Timed => Counted(c))
      /\ ~tracedone[c] /\ nonmemops[c] = 0
  BY DEF IInv, FetchMem, CanFetch, Course
<1>2. /\ issued' = [issued EXCEPT ![c] = line[c]]
      /\ fetched' = [fetched EXCEPT ![c] = fetched[c] + 1]
      /\ part' = part /\ arg' = arg /\ carried' = carried /\ replayed' = replayed
  BY DEF FetchMem, loop, history
<1>3. /\ fetched[c] \in Nat /\ instExec[c] \in Nat /\ carried[c] \in Nat
      /\ replayed[c] \in Nat /\ line[c] \in Nat
      /\ line[c] \in 1..Len(Trace[c]) /\ pos[c] \in 0..Len(Trace[c])
  BY <1>1, Traces DEF Shape, AtNext, AtLast
<1>4. /\ issued' \in [Core -> Nat] /\ fetched' \in [Core -> Nat]
      /\ issued'[c] = line[c] /\ fetched'[c] = fetched[c] + 1
      /\ \A d \in Core : d # c => issued'[d] = issued[d] /\ fetched'[d] = fetched[d]
  BY <1>1, <1>2, <1>3 DEF Shape
<1>5. Timed => fetched[c] + 1 = instExec[c] + carried[c] + replayed[c]
  BY <1>1, <1>3 DEF Counted, Due
<1>6. CASE NextLine(c)
  <2>1. ReadOn(c) /\ turn' = turn /\ tracedone' = tracedone
        /\ instExec' = [instExec EXCEPT ![c] = instExec[c] + Size(c, line'[c])]
    BY <1>6 DEF NextLine, Count
  <2>2. /\ line' \in [Core -> Nat] /\ pos' \in [Core -> Nat]
        /\ nonmemops' \in [Core -> Nat]
        /\ nonmemops'[c] + 1 = Size(c, line'[c])
        /\ \A d \in Core : d # c => /\ line'[d] = line[d] /\ pos'[d] = pos[d]
                                    /\ nonmemops'[d] = nonmemops[d]
    BY <1>1, <1>3, <2>1, Reading
  <2>3. nonmemops'[c] \in Nat
    BY <2>2
  <2>4. /\ instExec' \in [Core -> Nat]
        /\ instExec'[c] = instExec[c] + (nonmemops'[c] + 1)
        /\ \A d \in Core : d # c => instExec'[d] = instExec[d]
    <3> DEFINE v == instExec[c] + (nonmemops'[c] + 1)
    <3>1. v \in Nat
      BY <1>3, <2>3
    <3>2. instExec' = [instExec EXCEPT ![c] = v]
      BY <2>1, <2>2
    <3> HIDE DEF v
    <3>3. instExec \in [Core -> Nat]
      BY <1>1 DEF Shape
    <3>4. /\ instExec' \in [Core -> Nat] /\ instExec'[c] = v
          /\ \A d \in Core : d # c => instExec'[d] = instExec[d]
      BY <3>1, <3>2, <3>3
    <3>5. QED
      BY <3>4 DEF v
  <2>5. Shape'
    BY <1>1, <1>2, <1>4, <2>1, <2>2, <2>4 DEF Shape
  <2>6. AtNext(c)'
    BY <1>1, <1>2, <2>1, IssueNext
  <2>7. Timed' => Counted(c)'
    <3>1. Due(c)' = nonmemops'[c] + 1
      BY <1>1, <2>1 DEF Due
    <3>2. carried'[c] = carried[c] /\ replayed'[c] = replayed[c] /\ (Timed' => Timed)
      BY <1>1, <1>2 DEF Timed
    <3>3. ASSUME Timed'
          PROVE  fetched'[c] + (nonmemops'[c] + 1) = instExec'[c] + carried'[c] + replayed'[c]
      <4>1. fetched[c] + 1 = instExec[c] + carried[c] + replayed[c]
        BY <1>5, <3>2, <3>3
      <4> DEFINE f == fetched[c]
                 i == instExec[c]
                 k == carried[c]
                 r == replayed[c]
                 n == nonmemops'[c]
      <4>2. f \in Nat /\ i \in Nat /\ k \in Nat /\ r \in Nat /\ n \in Nat
        BY <1>3, <2>3
      <4>3. (f + 1) + (n + 1) = (i + (n + 1)) + k + r
        <5> HIDE DEF f, i, k, r, n
        <5>1. f + 1 = i + k + r
          BY <4>1 DEF f, i, k, r
        <5>2. QED
          BY <4>2, <5>1
      <4>4. /\ fetched'[c] = fetched[c] + 1
            /\ instExec'[c] = instExec[c] + (nonmemops'[c] + 1)
        BY <1>4, <2>4
      <4>5. QED
        BY <3>2, <4>3, <4>4
    <3>4. QED
      BY <3>1, <3>3 DEF Counted
  <2>8. Course(c)'
    BY <1>1, <1>2, <2>6, <2>7 DEF Course
  <2>9. QED
    BY <1>1, <1>2, <1>4, <2>1, <2>2, <2>4, <2>5, <2>8, OthersKeep
<1>7. CASE NoLine(c)
  <2>1. /\ AtEnd(c) /\ tracedone' = [tracedone EXCEPT ![c] = TRUE]
        /\ UNCHANGED <<line, pos, nonmemops, instExec>> /\ turn' = turn + 1
    BY <1>7 DEF NoLine, LineComes, EndTurn, file, counts
  <2>2. turn' \in 0..NumCores
    BY <1>1, <2>1, RunAssumption DEF Shape, FetchMem, CanFetch, Core
  <2>3. /\ tracedone' \in [Core -> BOOLEAN] /\ tracedone'[c]
        /\ \A d \in Core : d # c => tracedone'[d] = tracedone[d]
    BY <1>1, <2>1 DEF Shape
  <2>4. Shape'
    BY <1>1, <1>2, <1>4, <2>1, <2>2, <2>3 DEF Shape
  <2>5. AtNext(c)
    BY <1>1, <2>1, Traces DEF AtLast, AtEnd
  <2>6. AtLast(c)'
    BY <1>1, <1>4, <2>1, <2>3, <2>5 DEF AtNext, AtLast, AtEnd
  <2>7. Timed' => Counted(c)'
    BY <1>1, <1>2, <1>3, <1>4, <1>5, <2>1, <2>3 DEF Timed, Counted, Due
  <2>8. Course(c)'
    BY <1>1, <1>2, <2>6, <2>7 DEF Course
  <2>9. QED
    BY <1>1, <1>2, <1>4, <2>1, <2>3, <2>4, <2>8, OthersKeep
<1>8. QED
  BY <1>6, <1>7 DEF FetchMem

\* A rewind lets the core issue the operation of the line it holds again.
LEMMA RewindKeeps ==
  ASSUME IInv, NEW c \in Core, Rewind(c)
  PROVE  IInv'
<1>1. /\ Shape /\ part = "timed" /\ tracedone[c] /\ AtLast(c) /\ (Timed => Counted(c))
  BY DEF IInv, Rewind, Course, AtNext
<1>2. /\ pos' = [pos EXCEPT ![c] = 0] /\ tracedone' = [tracedone EXCEPT ![c] = FALSE]
      /\ replayed' = [replayed EXCEPT ![c] = replayed[c] + 1]
      /\ part' = part /\ arg' = arg /\ turn' = turn + 1
      /\ UNCHANGED <<line, nonmemops, issued, fetched, instExec, carried>>
  BY DEF Rewind, loop, counts, EndTurn
<1>3. /\ pos' \in [Core -> Nat] /\ tracedone' \in [Core -> BOOLEAN]
      /\ replayed' \in [Core -> Nat]
      /\ pos'[c] = 0 /\ ~tracedone'[c] /\ replayed'[c] = replayed[c] + 1
      /\ \A d \in Core : d # c => /\ pos'[d] = pos[d] /\ tracedone'[d] = tracedone[d]
                                  /\ replayed'[d] = replayed[d]
  BY <1>1, <1>2 DEF Shape
<1>4. turn' \in 0..NumCores
  BY <1>1, <1>2, RunAssumption DEF Shape, Rewind, Core
<1>5. Shape'
  BY <1>1, <1>2, <1>3, <1>4 DEF Shape
<1>6. AtLast(c)'
  BY <1>1, <1>2, <1>3 DEF AtLast
<1>7. Timed' => Counted(c)'
  BY <1>1, <1>2, <1>3 DEF Timed, Counted, Due, AtLast, Shape
<1>8. Course(c)'
  BY <1>1, <1>2, <1>6, <1>7 DEF Course
<1>9. QED
  BY <1>1, <1>2, <1>3, <1>5, <1>8, OthersKeep

\* Steps that move the loop only.
LEMMA LoopKeeps ==
  ASSUME IInv, turn' \in 0..NumCores, arg' = arg,
         part' = part \/ (part = "timed" /\ part' = "ended"),
         part # "first" \/ turn' = turn,
         UNCHANGED <<file, tracedone, fetched, instExec, issued, history>>
  PROVE  IInv'
<1>1. /\ line' = line /\ pos' = pos /\ nonmemops' = nonmemops
      /\ carried' = carried /\ replayed' = replayed
  BY DEF file, history
<1>2. Shape'
  BY <1>1 DEF IInv, Shape
<1>3. ASSUME NEW c \in Core PROVE Course(c)'
  <2>1. Course(c)
    BY DEF IInv
  <2>2. /\ Untimed(c) => Untimed(c)'
        /\ AtNext(c) => AtNext(c)'
        /\ AtLast(c) => AtLast(c)'
        /\ AtStart(c) => AtStart(c)'
        /\ Counted(c) => Counted(c)'
        /\ Timed' => Timed
    BY <1>1 DEF Untimed, AtNext, AtLast, AtStart, Counted, Due, After, Timed
  <2>3. instExec'[c] = instExec[c] /\ nonmemops'[c] = nonmemops[c]
    BY <1>1
  <2>4. CASE part = "first"
    BY <2>1, <2>2, <2>3, <2>4 DEF Course
  <2>5. CASE part # "first"
    BY <2>1, <2>2, <2>5 DEF Course
  <2>6. QED
    BY <2>4, <2>5
<1>4. QED
  BY <1>2, <1>3 DEF IInv

-----------------------------------------------------------------------------
(* The theorems.                                                           *)

\* Before the first line is read.
LEMMA InitHolds == Init => IInv
<1> SUFFICES ASSUME Init PROVE IInv
  OBVIOUS
<1>1. Shape
  <2>1. arg.mode \in 0..2
    BY RunAssumption DEF Init, Argument
  <2>2. issued \in [Core -> Nat]
    BY Traces DEF Init
  <2>3. QED
    BY <2>1, <2>2, RunAssumption DEF Init, Shape
<1>2. ASSUME NEW c \in Core PROVE Course(c)
  BY DEF Init, Course, Timed, Untimed, AtStart, Core
<1>3. QED
  BY <1>1, <1>2 DEF IInv

\* Every step keeps the invariant.
LEMMA NextKeeps == IInv /\ [Next]_vars => IInv'
<1> SUFFICES ASSUME IInv, [Next]_vars PROVE IInv'
  OBVIOUS
<1>1. ASSUME NEW c \in Core, ReadFirst(c) PROVE IInv'
  BY <1>1, FirstKeeps
<1>2. CASE BeginLoop
  BY <1>2, BeginKeeps
<1>3. ASSUME NEW c \in Core, FastLine(c) PROVE IInv'
  BY <1>3, FastKeeps
<1>4. CASE EndFast
  BY <1>4, EndFastKeeps
<1>5. ASSUME NEW c \in Core, FetchNonMem(c) PROVE IInv'
  BY <1>5, NonMemKeeps
<1>6. ASSUME NEW c \in Core, FetchMem(c) PROVE IInv'
  BY <1>6, MemKeeps
<1>7. ASSUME NEW c \in Core, Rewind(c) PROVE IInv'
  BY <1>7, RewindKeeps
<1>8. ASSUME NEW c \in Core, Pass(c) PROVE IInv'
  <2>1. turn' \in 0..NumCores /\ part = "timed"
    BY <1>8, RunAssumption DEF Pass, EndTurn, Core
  <2>2. UNCHANGED <<arg, part, file, tracedone, fetched, instExec, issued, history>>
    BY <1>8 DEF Pass, loop, counts
  <2>3. QED
    BY <2>1, <2>2, LoopKeeps
<1>9. CASE FastTurn
  <2>1. turn' \in 0..NumCores /\ part = "fast"
    BY <1>9, RunAssumption DEF FastTurn
  <2>2. UNCHANGED <<arg, part, file, tracedone, fetched, instExec, issued, history>>
    BY <1>9 DEF FastTurn, loop, counts
  <2>3. QED
    BY <2>1, <2>2, LoopKeeps
<1>10. CASE TimedTurn
  <2>1. turn' \in 0..NumCores /\ part = "timed" /\ part' \in {"timed", "ended"}
    BY <1>10, RunAssumption DEF TimedTurn
  <2>2. UNCHANGED <<arg, file, tracedone, fetched, instExec, issued, history>>
    BY <1>10 DEF TimedTurn, counts
  <2>3. QED
    BY <2>1, <2>2, LoopKeeps
<1>11. CASE UNCHANGED vars
  <2>1. UNCHANGED <<arg, part, turn, file, tracedone, fetched, instExec, issued, history>>
    BY <1>11 DEF vars, loop, counts
  <2>2. QED
    BY <2>1, LoopKeeps DEF IInv, Shape
<1>12. QED
  BY <1>1, <1>2, <1>3, <1>4, <1>5, <1>6, <1>7, <1>8, <1>9, <1>10, <1>11 DEF Next, Ended

\* A core that issues an operation issues the one after its last, or its last
\* one again.
LEMMA StepInOrder ==
  IInv /\ [Next]_vars =>
    [\A c \in Core :
       issued'[c] # issued[c] => issued'[c] = (issued[c] % Len(Trace[c])) + 1]_vars
<1> SUFFICES ASSUME IInv, Next, NEW c \in Core, issued'[c] # issued[c]
             PROVE  issued'[c] = (issued[c] % Len(Trace[c])) + 1
  OBVIOUS
<1>1. PICK d \in Core : FastLine(d) \/ FetchMem(d)
  <2>1. ASSUME NEW d \in Core, ReadFirst(d) \/ FetchNonMem(d) \/ Rewind(d) \/ Pass(d)
        PROVE  issued' = issued
    BY <2>1 DEF ReadFirst, FetchNonMem, Rewind, Pass
  <2>2. BeginLoop \/ FastTurn \/ EndFast \/ TimedTurn \/ Ended => issued' = issued
    BY DEF BeginLoop, FastTurn, EndFast, TimedTurn, Ended, vars
  <2>3. QED
    BY <2>1, <2>2 DEF Next
<1>2. issued' = [issued EXCEPT ![d] = line[d]]
  BY <1>1 DEF FastLine, FetchMem
<1>3. c = d /\ issued'[c] = line[c]
  BY <1>2 DEF IInv, Shape
<1>4. AtNext(c) \/ AtLast(c)
  BY <1>1, <1>3 DEF IInv, Course, FastLine, FetchMem, CanFetch
<1>5. AtNext(c)
  BY <1>3, <1>4 DEF AtLast
<1>6. QED
  BY <1>3, <1>5, AfterMod DEF AtNext

\* From the fast part through the timed part and over the end of the file, with
\* either reader, a core issues the operations of its trace in their order and
\* leaves none out: what a rewind lets it issue again is the last one (main).
THEOREM TraceInOrder == Spec => InOrder
BY InitHolds, NextKeeps, StepInOrder, PTL DEF Spec, InOrder

\* The instructions a core has fetched are those counted as executed in the
\* timed part, but for the line at hand, the line carried over from the fast
\* part, and the operations repeated by rewinds (inst_exec, fetched).
THEOREM FetchedIsCounted == Spec => []InstructionsAddUp
<1>1. IInv => InstructionsAddUp
  BY DEF IInv, Course, Counted, InstructionsAddUp, Timed
<1>2. QED
  BY InitHolds, NextKeeps, <1>1, PTL DEF Spec

-----------------------------------------------------------------------------
(* What is counted.                                                        *)

\* The cores that have executed enough.
Done == {c \in Core : flag[c]}

\* What Shape does not say of the variables.
Typed ==
  /\ arg \in Args /\ numFetch \in 0..MaxFetch /\ coreRun \subseteq Core
  /\ exptDone \in BOOLEAN /\ maxexecute \in Nat
  /\ committed \in [Core -> Nat] /\ instDone \in [Core -> Nat]
  /\ flag \in [Core -> BOOLEAN] /\ countTotal \in Nat

\* What core c reports is what it had executed when it first had enough.
DoneRight(c) ==
  /\ flag[c] <=> instDone[c] > maxexecute
  /\ ~flag[c] => instDone[c] = instExec[c]
  /\ instDone[c] <= instExec[c]
  /\ instDone[c] <= maxexecute + LongestLine(c)

\* In the fast part a core may have its flag from its first line alone: it has
\* then still to execute that line, in its turn.
Share(c) ==
  /\ part = "first" \/ Timed => DoneRight(c)
  /\ part = "fast" /\ flag[c] =>
       committed[c] >= maxexecute \/ (c >= turn /\ nonmemops[c] + 1 > maxexecute)
  /\ arg.mode # 0 /\ part \in {"timed", "ended"} => committed[c] >= MaxExec

\* No part is over unless all cores are done, and there is no timed part in
\* mode 1.
Ending ==
  /\ part \in {"first", "fast"} => maxexecute = MaxExec
  /\ part = "first" => ~exptDone
  /\ part = "timed" => arg.mode # 1
  /\ (part = "fast" /\ exptDone) \/ (part = "ended" /\ arg.mode # 1) => numDone = NumCores

\* The total of each part, and of the first lines, which belong to the timed
\* part if there is no fast one.
Totals ==
  /\ part = "first" => IF arg.mode = 0 THEN countTotal = SumOf(instExec)
                       ELSE countTotal = 0 /\ \A c \in Core : committed[c] = 0
  /\ TotalAddsUp

Tally ==
  /\ Typed /\ numDone = Cardinality(Done)
  /\ \A c \in Core : Share(c)
  /\ Ending /\ Totals

JInv == IInv /\ Tally

\* There are NumCores cores.
LEMMA Cores == IsFiniteSet(Core) /\ Cardinality(Core) = NumCores
<1>1. NumCores \in Nat \ {0}
  BY RunAssumption
<1>2. 0 \in Int /\ NumCores - 1 \in Int /\ ~(0 > NumCores - 1) /\ (NumCores - 1) - 0 + 1 = NumCores
  BY <1>1
<1>3. /\ IsFiniteSet(0 .. NumCores - 1)
      /\ Cardinality(0 .. NumCores - 1) = IF 0 > NumCores - 1 THEN 0 ELSE (NumCores - 1) - 0 + 1
  BY <1>2, FS_Interval
<1> QED BY <1>2, <1>3 DEF Core

\* Cores that are done are cores, and when their number is that of the cores
\* they are all.
LEMMA AllDone ==
  /\ IsFiniteSet(Done) /\ Cardinality(Done) \in 0..NumCores
  /\ Cardinality(Done) = NumCores => \A c \in Core : flag[c]
<1>1. Done \subseteq Core
  BY DEF Done
<1>2. IsFiniteSet(Done) /\ Cardinality(Done) <= NumCores
      /\ (Cardinality(Done) = NumCores => Done = Core)
  BY <1>1, Cores, FS_Subset
<1>3. Cardinality(Done) \in Nat
  BY <1>2, FS_CardinalityType
<1>4. QED
  BY <1>2, <1>3, RunAssumption DEF Done

\* Finish and FinishFast count a core once, when it gets its flag.
LEMMA FlagCounted ==
  ASSUME flag \in [Core -> BOOLEAN], numDone = Cardinality(Done),
         NEW c \in Core, NEW enough \in BOOLEAN,
         flag' = [flag EXCEPT ![c] = flag[c] \/ enough],
         numDone' = IF ~flag[c] /\ enough THEN numDone + 1 ELSE numDone
  PROVE  /\ flag' \in [Core -> BOOLEAN] /\ numDone' = Cardinality(Done')
         /\ flag'[c] = (flag[c] \/ enough)
         /\ \A d \in Core : d # c => flag'[d] = flag[d]
<1>1. /\ flag' \in [Core -> BOOLEAN] /\ flag'[c] = (flag[c] \/ enough)
      /\ \A d \in Core : d # c => flag'[d] = flag[d]
  OBVIOUS
<1>2. CASE ~flag[c] /\ enough
  <2>1. Done' = Done \cup {c} /\ c \notin Done
    BY <1>1, <1>2 DEF Done
  <2>2. Cardinality(Done') = Cardinality(Done) + 1
    BY <2>1, AllDone, FS_AddElement
  <2>3. QED
    BY <1>1, <1>2, <2>2
<1>3. CASE ~(~flag[c] /\ enough)
  <2>1. Done' = Done
    BY <1>1, <1>3 DEF Done
  <2>2. QED
    BY <1>1, <1>3, <2>1
<1>4. QED
  BY <1>2, <1>3

\* No line of a trace is longer than its longest.
LEMMA Longest ==
  ASSUME NEW c \in Core
  PROVE  /\ LongestLine(c) \in Nat
         /\ \A l \in 1..Len(Trace[c]) : Size(c, l) \in Nat /\ Size(c, l) <= LongestLine(c)
<1> DEFINE D == 1..Len(Trace[c])
           f == [l \in D |-> Size(c, l)]
           S == {f[l] : l \in D}
<1>1. /\ DOMAIN Trace[c] = D /\ IsFiniteSet(D) /\ 1 \in D
      /\ \A l \in D : Size(c, l) \in Nat
  <2>1. Trace[c] \in Seq(TraceLine)
    BY RunAssumption
  <2>2. Len(Trace[c]) \in Nat /\ 1 \in D
    BY Traces
  <2>3. DOMAIN Trace[c] = D /\ IsFiniteSet(D)
    BY <2>1, <2>2, FS_Interval
  <2>4. QED
    BY <2>2, <2>3, Traces DEF Size
<1>2. IsFiniteSet(S)
  <2>1. DOMAIN f = D
    OBVIOUS
  <2> HIDE DEF f, D
  <2>2. QED
    BY <1>1, <2>1, FiniteRange
<1>3. S = {Size(c, l) : l \in DOMAIN Trace[c]} /\ S \subseteq Nat /\ S # {}
  BY <1>1
<1>4. LongestLine(c) = Max(S)
  BY <1>3 DEF LongestLine
<1>5. Max(S) \in S /\ \A y \in S : y <= Max(S)
  <2>1. S \subseteq Int /\ S # {}
    <3> HIDE DEF S
    <3>1. QED
      BY <1>3
  <2> HIDE DEF S, D, f
  <2>2. QED
    BY <1>2, <2>1, MaxIsGreatest
<1>6. \A l \in D : Size(c, l) \in S
  OBVIOUS
<1>7. QED
  BY <1>1, <1>3, <1>4, <1>5, <1>6

\* The sum over the cores grows by what one of them gets.
LEMMA SumGrows ==
  ASSUME NEW f \in [Core -> Nat], NEW c \in Core, NEW n \in Nat
  PROVE  SumOf([f EXCEPT ![c] = f[c] + n]) = SumOf(f) + n
<1> DEFINE v == f[c] + n
<1>1. f \in [Core -> Int] /\ v \in Int
  OBVIOUS
<1>2. SumOver(f, Core) \in Int
  BY <1>1, Cores, SumIsNumber
<1>3. SumOver([f EXCEPT ![c] = v], Core) = SumOver(f, Core) + v - f[c]
  <2> HIDE DEF v
  <2>1. QED
    BY <1>1, Cores, SumChanges
<1>4. SumOver([f EXCEPT ![c] = v], Core) = SumOver(f, Core) + n
  BY <1>2, <1>3
<1>5. QED
  BY <1>4 DEF SumOver, SumOf

\* A sum of counts is a count.
LEMMA SumCounts ==
  ASSUME NEW f \in [Core -> Nat]
  PROVE  SumOf(f) \in Nat
BY Cores, SumOfNats DEF SumOver, SumOf

\* When nothing is counted the sum is zero.
LEMMA SumStarts ==
  ASSUME NEW f \in [Core -> Nat], \A c \in Core : f[c] = 0
  PROVE  SumOf(f) = 0
<1>1. f \in [Core -> Int]
  OBVIOUS
<1>2. SumOver(f, Core) = 0
  BY <1>1, Cores, SumOfZeros
<1>3. QED
  BY <1>2 DEF SumOver, SumOf

-----------------------------------------------------------------------------
(* The steps, once more.                                                   *)

\* Counting a line that is read.
LEMMA Counting ==
  ASSUME Shape, Typed, numDone = Cardinality(Done), NEW c \in Core, Count(c),
         line'[c] \in 1..Len(Trace[c]), maxexecute' = maxexecute,
         \A d \in Core : DoneRight(d)
  PROVE  /\ instExec' \in [Core -> Nat] /\ instDone' \in [Core -> Nat]
         /\ flag' \in [Core -> BOOLEAN] /\ countTotal' \in Nat
         /\ numDone' = Cardinality(Done') /\ \A d \in Core : DoneRight(d)'
         /\ SumOf(instExec') = SumOf(instExec) + Size(c, line'[c])
<1> DEFINE n == Size(c, line'[c])
           v == instExec[c] + n
<1>1. n \in Nat /\ n <= LongestLine(c) /\ LongestLine(c) \in Nat
  BY Longest
<1>2. /\ instExec \in [Core -> Nat] /\ instDone \in [Core -> Nat]
      /\ flag \in [Core -> BOOLEAN] /\ maxexecute \in Nat /\ countTotal \in Nat
  BY DEF Shape, Typed
<1>3. /\ instExec' = [instExec EXCEPT ![c] = v]
      /\ countTotal' = IF Fast THEN countTotal ELSE countTotal + n
  BY DEF Count
<1> HIDE DEF n
<1>4. v \in Nat
  BY <1>1, <1>2
<1>5. /\ instExec' \in [Core -> Nat] /\ instExec'[c] = v
      /\ \A d \in Core : d # c => instExec'[d] = instExec[d]
  <2> HIDE DEF v
  <2>1. QED
    BY <1>2, <1>3, <1>4
<1>6. /\ instDone' = IF flag[c] THEN instDone ELSE [instDone EXCEPT ![c] = v]
      /\ flag' = [flag EXCEPT ![c] = flag[c] \/ v > maxexecute]
      /\ numDone' = IF ~flag[c] /\ v > maxexecute THEN numDone + 1 ELSE numDone
  BY <1>5 DEF Count, Finish
<1>7. /\ instDone' \in [Core -> Nat]
      /\ instDone'[c] = IF flag[c] THEN instDone[c] ELSE v
      /\ \A d \in Core : d # c => instDone'[d] = instDone[d]
  <2> HIDE DEF v
  <2>1. QED
    BY <1>2, <1>4, <1>6
<1>8. /\ flag' \in [Core -> BOOLEAN] /\ numDone' = Cardinality(Done')
      /\ flag'[c] = (flag[c] \/ v > maxexecute)
      /\ \A d \in Core : d # c => flag'[d] = flag[d]
  <2>1. (v > maxexecute) \in BOOLEAN
    OBVIOUS
  <2> HIDE DEF v
  <2>2. QED
    BY <1>2, <1>6, <2>1, FlagCounted
<1>9. ASSUME NEW d \in Core PROVE DoneRight(d)'
  <2>1. CASE d = c
    <3>1. DoneRight(c) /\ instExec[c] \in Nat /\ instDone[c] \in Nat
      BY <1>2
    <3>2. CASE flag[c]
      BY <1>1, <1>2, <1>5, <1>7, <1>8, <2>1, <3>1, <3>2 DEF DoneRight, LongestLine
    <3>3. CASE ~flag[c]
      <4>1. instExec[c] <= maxexecute
        BY <1>2, <3>1, <3>3 DEF DoneRight
      <4>2. v <= maxexecute + LongestLine(c)
        BY <1>1, <1>2, <3>1, <4>1
      <4>3. QED
        BY <1>2, <1>4, <1>5, <1>7, <1>8, <2>1, <3>3, <4>2 DEF DoneRight, LongestLine
    <3>4. QED
      BY <3>2, <3>3
  <2>2. CASE d # c
    BY <1>5, <1>7, <1>8, <2>2 DEF DoneRight, LongestLine
  <2>3. QED
    BY <2>1, <2>2
<1>10. SumOf(instExec') = SumOf(instExec) + n
  BY <1>1, <1>2, <1>3, SumGrows
<1>11. countTotal' \in Nat
  BY <1>1, <1>2, <1>3
<1>12. QED
  BY <1>5, <1>7, <1>8, <1>9, <1>10, <1>11 DEF n

\* Steps that count nothing and leave a core in the fast part its line.
LEMMA QuietTally ==
  ASSUME JInv, Shape',
         UNCHANGED <<arg, part, exptDone, maxexecute, committed, counts, countTotal>>,
         coreRun' \subseteq Core, numFetch' \in 0..MaxFetch,
         part = "fast" => nonmemops' = nonmemops /\ (turn' = turn \/ turn = NumCores)
  PROVE  Tally'
<1>1. /\ Shape /\ Typed /\ numDone = Cardinality(Done) /\ Ending /\ Totals
      /\ \A c \in Core : Share(c)
  BY DEF JInv, IInv, Tally
<1>2. UNCHANGED <<instExec, instDone, flag, numDone>>
  BY DEF counts
<1>3. Typed' /\ Done' = Done /\ Ending' /\ Totals'
  BY <1>1, <1>2 DEF Typed, Done, Ending, Totals, TotalAddsUp, Timed
<1>4. ASSUME NEW c \in Core PROVE Share(c)'
  <2>1. Share(c)
    BY <1>1
  <2>2. DoneRight(c) => DoneRight(c)'
    BY <1>2 DEF DoneRight, LongestLine, Size
  <2>3. part = "fast" /\ flag[c] =>
          committed[c] >= maxexecute \/ (c >= turn' /\ nonmemops'[c] + 1 > maxexecute)
    BY <2>1, RunAssumption DEF Share, Core
  <2>4. QED
    BY <1>2, <2>1, <2>2, <2>3 DEF Share, Timed
<1>5. QED
  BY <1>1, <1>2, <1>3, <1>4 DEF Tally

\* Reading the first line of a trace.
LEMMA FirstTally ==
  ASSUME JInv, NEW c \in Core, ReadFirst(c)
  PROVE  Tally'
<1>1. /\ Shape /\ Typed /\ numDone = Cardinality(Done) /\ Ending /\ Totals
      /\ \A d \in Core : DoneRight(d) /\ Share(d)
      /\ part = "first" /\ turn = c /\ AtStart(c)
  BY DEF JInv, IInv, Tally, Share, ReadFirst, Course, Core
<1>2. /\ Count(c) /\ ReadOn(c) /\ UNCHANGED <<arg, part, coreRun, exptDone, maxexecute>>
      /\ UNCHANGED <<numFetch, committed>>
  BY DEF ReadFirst, loop
<1>3. line'[c] \in 1..Len(Trace[c])
  BY <1>1, <1>2, Traces, Reading DEF AtStart
<1>4. /\ instExec' \in [Core -> Nat] /\ instDone' \in [Core -> Nat]
      /\ flag' \in [Core -> BOOLEAN] /\ countTotal' \in Nat
      /\ numDone' = Cardinality(Done') /\ \A d \in Core : DoneRight(d)'
      /\ SumOf(instExec') = SumOf(instExec) + Size(c, line'[c])
  BY <1>1, <1>2, <1>3, Counting
<1>5. Typed'
  BY <1>1, <1>2, <1>4 DEF Typed
<1>6. \A d \in Core : Share(d)'
  BY <1>1, <1>2, <1>4 DEF Share, Timed
<1>7. Ending'
  BY <1>1, <1>2 DEF Ending
<1>8. Totals'
  <2>1. countTotal' = IF Fast THEN countTotal ELSE countTotal + Size(c, line'[c])
    BY <1>2 DEF Count
  <2>2. Fast <=> arg.mode # 0
    BY <1>1 DEF Fast
  <2>3. CASE arg.mode = 0
    BY <1>1, <1>2, <1>4, <2>1, <2>2, <2>3 DEF Totals, TotalAddsUp, Timed
  <2>4. CASE arg.mode # 0
    BY <1>1, <1>2, <2>1, <2>2, <2>4 DEF Totals, TotalAddsUp, Timed
  <2>5. QED
    BY <2>3, <2>4
<1>9. QED
  BY <1>4, <1>5, <1>6, <1>7, <1>8 DEF Tally

\* The first part begins: a core may be done with the line it has just read.
LEMMA BeginTally ==
  ASSUME JInv, BeginLoop
  PROVE  Tally'
<1>1. /\ Shape /\ Typed /\ numDone = Cardinality(Done) /\ Ending /\ Totals
      /\ part = "first" /\ turn = NumCores
      /\ \A c \in Core : DoneRight(c) /\ Share(c) /\ instExec[c] = nonmemops[c] + 1
  <2>1. \A c \in Core : c < NumCores
    BY RunAssumption DEF Core
  <2>2. QED
    BY <2>1 DEF JInv, IInv, Tally, Share, BeginLoop, Course
<1>2. /\ UNCHANGED <<arg, coreRun, exptDone, maxexecute, numFetch, line, nonmemops>>
      /\ UNCHANGED <<committed, instExec, instDone, flag, numDone, countTotal>>
      /\ turn' = 0
      /\ part' = IF arg.mode # 0 THEN "fast" ELSE "timed"
  BY <1>1 DEF BeginLoop, file, counts, Fast
<1>3. Typed' /\ Done' = Done /\ Ending'
  BY <1>1, <1>2 DEF Typed, Done, Ending
<1>4. ASSUME NEW c \in Core PROVE Share(c)'
  <2>1. DoneRight(c)'
    BY <1>1, <1>2 DEF DoneRight, LongestLine, Size
  <2>2. flag[c] => nonmemops[c] + 1 > maxexecute
    <3>1. /\ instExec[c] \in Nat /\ instDone[c] \in Nat /\ maxexecute \in Nat
          /\ DoneRight(c) /\ instExec[c] = nonmemops[c] + 1
      BY <1>1 DEF Shape, Typed
    <3>2. QED
      BY <3>1 DEF DoneRight
  <2>3. c >= turn'
    BY <1>2, RunAssumption DEF Core
  <2>4. QED
    BY <1>2, <2>1, <2>2, <2>3 DEF Share, Timed
<1>5. Totals'
  <2>1. CASE arg.mode = 0
    BY <1>1, <1>2, <2>1 DEF Totals, TotalAddsUp, Timed
  <2>2. CASE arg.mode # 0
    <3>1. SumOf(committed) = 0
      BY <1>1, <2>2, SumStarts DEF Typed, Totals
    <3>2. QED
      BY <1>1, <1>2, <2>2, <3>1 DEF Totals, TotalAddsUp, Timed
  <2>3. QED
    BY <2>1, <2>2
<1>6. QED
  BY <1>1, <1>2, <1>3, <1>4, <1>5 DEF Tally

\* A core executes a line of the fast part.
LEMMA FastTally ==
  ASSUME JInv, NEW c \in Core, FastLine(c)
  PROVE  Tally'
<1> DEFINE n == nonmemops[c] + 1
           enough == committed'[c] >= maxexecute
<1>1. /\ Shape /\ Typed /\ numDone = Cardinality(Done) /\ Ending /\ Totals
      /\ part = "fast" /\ turn = c /\ arg.mode # 0 /\ AtNext(c)
      /\ \A d \in Core : Share(d)
  BY DEF JInv, IInv, Tally, FastLine, Course, Shape
<1>2. /\ committed' = [committed EXCEPT ![c] = committed[c] + n]
      /\ countTotal' = countTotal + n
      /\ flag' = [flag EXCEPT ![c] = flag[c] \/ enough]
      /\ numDone' = IF ~flag[c] /\ enough THEN numDone + 1 ELSE numDone
      /\ exptDone' = (exptDone \/ (enough /\ numDone' = NumCores))
      /\ turn' = turn + 1
      /\ UNCHANGED <<arg, part, coreRun, maxexecute, numFetch, instExec, instDone>>
  <2>1. countTotal' = countTotal + nonmemops[c] + 1
    BY DEF FastLine
  <2>2. countTotal' = countTotal + n
    BY <1>1, <2>1 DEF Typed, Shape
  <2>3. committed' = [committed EXCEPT ![c] = committed[c] + n]
    <3>1. committed[c] + n = committed[c] + nonmemops[c] + 1
      BY <1>1 DEF Typed, Shape
    <3>2. QED
      BY <3>1 DEF FastLine
  <2>4. QED
    BY <2>2, <2>3 DEF FastLine, FinishFast, EndsFast
<1>3. n \in Nat /\ committed \in [Core -> Nat] /\ countTotal \in Nat /\ maxexecute \in Nat
  BY <1>1 DEF Typed, Shape
<1>4. /\ committed' \in [Core -> Nat] /\ committed'[c] = committed[c] + n
      /\ \A d \in Core : d # c => committed'[d] = committed[d]
  <2> HIDE DEF n
  <2>1. QED
    BY <1>2, <1>3
<1>5. SumOf(committed') = SumOf(committed) + n
  BY <1>2, <1>3, SumGrows
<1>6. /\ flag' \in [Core -> BOOLEAN] /\ numDone' = Cardinality(Done')
      /\ flag'[c] = (flag[c] \/ enough)
      /\ \A d \in Core : d # c => flag'[d] = flag[d]
  <2>1. enough \in BOOLEAN /\ flag \in [Core -> BOOLEAN]
    BY <1>1 DEF Typed
  <2> HIDE DEF enough
  <2>2. QED
    BY <1>1, <1>2, <2>1, FlagCounted
<1>7. ASSUME NEW d \in Core
      PROVE  /\ d # c => nonmemops'[d] = nonmemops[d]
             /\ d # c => (d >= turn' <=> d >= turn)
  <2>1. d # c => nonmemops'[d] = nonmemops[d]
    BY <1>1 DEF FastLine, ReadOn, Shape
  <2>2. QED
    BY <1>1, <1>2, <2>1 DEF Core
<1>8. Typed'
  BY <1>1, <1>2, <1>3, <1>4, <1>6 DEF Typed
<1>9. ASSUME NEW d \in Core PROVE Share(d)'
  <2>1. part' = "fast" /\ maxexecute' = maxexecute
    BY <1>1, <1>2
  <2>2. flag'[d] => \/ committed'[d] >= maxexecute
                    \/ d >= turn' /\ nonmemops'[d] + 1 > maxexecute
    <3>1. flag[d] => \/ committed[d] >= maxexecute
                     \/ d >= turn /\ nonmemops[d] + 1 > maxexecute
      BY <1>1 DEF Share
    <3>2. CASE d = c
      <4>1. flag[c] => committed'[c] >= maxexecute
        <5>1. committed[c] \in Nat
          BY <1>3
        <5>2. QED
          BY <1>3, <1>4, <3>1, <3>2, <5>1
      <4>2. QED
        BY <1>6, <3>2, <4>1
    <3>3. CASE d # c
      BY <1>4, <1>6, <1>7, <3>1, <3>3
    <3>4. QED
      BY <3>2, <3>3
  <2>3. QED
    BY <2>1, <2>2 DEF Share, Timed
<1>10. Ending'
  <2>1. maxexecute' = MaxExec /\ part' = "fast"
    BY <1>1, <1>2 DEF Ending
  <2>2. exptDone => numDone' = NumCores
    <3>1. exptDone => flag[c]
      BY <1>1, AllDone DEF Ending
    <3>2. QED
      BY <1>1, <1>2, <3>1 DEF Ending
  <2>3. QED
    BY <1>2, <2>1, <2>2 DEF Ending
<1>11. Totals'
  <2>1. part' = "fast" /\ countTotal = SumOf(committed)
    BY <1>1, <1>2 DEF Totals, TotalAddsUp
  <2>2. QED
    BY <1>2, <1>5, <2>1 DEF Totals, TotalAddsUp, Timed
<1>12. QED
  BY <1>6, <1>8, <1>9, <1>10, <1>11 DEF Tally

\* The fast part ends when every core has executed its share, and everything
\* is counted anew if a timed part follows.
LEMMA EndFastTally ==
  ASSUME JInv, EndFast
  PROVE  Tally'
<1>1. /\ Shape /\ Typed /\ numDone = Cardinality(Done) /\ Ending /\ Totals
      /\ part = "fast" /\ turn = NumCores /\ arg.mode # 0 /\ exptDone
      /\ \A c \in Core : Share(c)
  BY DEF JInv, IInv, Tally, EndFast, Shape
<1>2. \A c \in Core : committed[c] >= MaxExec
  <2>1. \A c \in Core : flag[c]
    BY <1>1, AllDone DEF Ending
  <2>2. \A c \in Core : ~(c >= turn)
    BY <1>1, RunAssumption DEF Core
  <2>3. QED
    BY <1>1, <2>1, <2>2 DEF Share, Ending
<1>3. UNCHANGED <<arg, coreRun, numFetch, committed>>
  BY DEF EndFast
<1>4. CASE arg.mode = 2
  <2>1. /\ instDone' = [c \in Core |-> 0] /\ instExec' = [c \in Core |-> 0]
        /\ flag' = [c \in Core |-> FALSE] /\ numDone' = 0 /\ countTotal' = 0
        /\ part' = "timed" /\ exptDone' = FALSE /\ maxexecute' = MaxExec2nd
    BY <1>4 DEF EndFast, Forget
  <2>2. Typed'
    BY <1>1, <1>3, <2>1, RunAssumption DEF Typed
  <2>3. numDone' = Cardinality(Done')
    BY <2>1, FS_EmptySet DEF Done
  <2>4. ASSUME NEW c \in Core PROVE Share(c)'
    <3>1. LongestLine(c) \in Nat /\ LongestLine(c)' = LongestLine(c)
      BY Longest DEF LongestLine, Size
    <3>2. DoneRight(c)'
      BY <2>1, <3>1, RunAssumption DEF DoneRight
    <3>3. QED
      BY <1>2, <1>3, <2>1, <3>2 DEF Share
  <2>5. SumOf(instExec') = 0
    BY <2>1, SumStarts
  <2>6. Ending' /\ Totals'
    BY <1>3, <1>4, <2>1, <2>5 DEF Ending, Totals, TotalAddsUp
  <2>7. QED
    BY <2>2, <2>3, <2>4, <2>6 DEF Tally
<1>5. CASE arg.mode # 2
  <2>1. /\ UNCHANGED <<instDone, instExec, flag, numDone, countTotal, exptDone, maxexecute>>
        /\ part' = "ended" /\ arg.mode = 1
    BY <1>1, <1>5 DEF EndFast, counts, Shape
  <2>2. Typed' /\ Done' = Done
    BY <1>1, <1>3, <2>1 DEF Typed, Done
  <2>3. \A c \in Core : Share(c)'
    BY <1>2, <1>3, <2>1 DEF Share, Timed
  <2>4. Ending' /\ Totals'
    BY <1>3, <2>1 DEF Ending, Totals, TotalAddsUp, Timed
  <2>5. QED
    BY <1>1, <2>1, <2>2, <2>3, <2>4 DEF Tally
<1>6. QED
  BY <1>4, <1>5

\* A core that fetches the operation of its line counts the next, if it comes.
LEMMA MemTally ==
  ASSUME JInv, Shape', NEW c \in Core, FetchMem(c)
  PROVE  Tally'
<1>1. /\ Shape /\ Typed /\ numDone = Cardinality(Done) /\ Ending /\ Totals
      /\ part = "timed" /\ (AtNext(c) \/ AtLast(c)) /\ \A d \in Core : Share(d)
      /\ numFetch < MaxFetch
  BY DEF JInv, IInv, Tally, FetchMem, CanFetch, Course
<1>2. UNCHANGED <<arg, part, coreRun, exptDone, maxexecute, committed>>
  BY DEF FetchMem, loop
<1>3. CASE NoLine(c)
  <2>1. UNCHANGED <<counts, countTotal>> /\ numFetch' \in 0..MaxFetch
    BY <1>3, RunAssumption DEF NoLine, EndTurn
  <2>2. QED
    BY <1>1, <1>2, <2>1, QuietTally DEF Typed
<1>4. CASE NextLine(c)
  <2>1. /\ Count(c) /\ ReadOn(c) /\ numFetch' \in 0..MaxFetch
    BY <1>1, <1>4, RunAssumption DEF NextLine, Typed
  <2>2. line'[c] \in 1..Len(Trace[c])
    BY <1>1, <2>1, Traces, Reading DEF AtNext, AtLast
  <2>3. Timed /\ ~Fast
    BY <1>1 DEF Timed, Fast, Ending
  <2>4. \A d \in Core : DoneRight(d)
    BY <1>1, <2>3 DEF Share
  <2>5. /\ instExec' \in [Core -> Nat] /\ instDone' \in [Core -> Nat]
        /\ flag' \in [Core -> BOOLEAN] /\ countTotal' \in Nat
        /\ numDone' = Cardinality(Done') /\ \A d \in Core : DoneRight(d)'
        /\ SumOf(instExec') = SumOf(instExec) + Size(c, line'[c])
    BY <1>1, <1>2, <2>1, <2>2, <2>4, Counting
  <2>6. Typed'
    BY <1>1, <1>2, <2>1, <2>5 DEF Typed
  <2>7. \A d \in Core : Share(d)'
    BY <1>1, <1>2, <2>5 DEF Share
  <2>8. Ending'
    BY <1>1, <1>2 DEF Ending
  <2>9. Totals'
    <3>1. countTotal' = countTotal + Size(c, line'[c])
      BY <2>1, <2>3 DEF Count
    <3>2. countTotal = SumOf(instExec)
      BY <1>1, <2>3 DEF Totals, TotalAddsUp
    <3>3. QED
      BY <1>1, <1>2, <2>3, <2>5, <3>1, <3>2 DEF Totals, TotalAddsUp, Timed
  <2>10. QED
    BY <2>5, <2>6, <2>7, <2>8, <2>9 DEF Tally
<1>5. QED
  BY <1>3, <1>4 DEF FetchMem

\* The timed part ends when all cores are done.
LEMMA TurnTally ==
  ASSUME JInv, TimedTurn
  PROVE  Tally'
<1>1. /\ Shape /\ Typed /\ numDone = Cardinality(Done) /\ Ending /\ Totals
      /\ part = "timed" /\ \A c \in Core : Share(c)
  BY DEF JInv, IInv, Tally, TimedTurn
<1>2. /\ exptDone' = (numDone = NumCores) /\ coreRun' \subseteq Core
      /\ part' = IF exptDone' THEN "ended" ELSE "timed"
      /\ UNCHANGED <<arg, maxexecute, numFetch, committed, instExec, instDone>>
      /\ UNCHANGED <<flag, numDone, countTotal>>
  BY DEF TimedTurn, counts
<1>3. Typed' /\ Done' = Done
  BY <1>1, <1>2 DEF Typed, Done
<1>4. ASSUME NEW c \in Core PROVE Share(c)'
  <2>1. DoneRight(c) => DoneRight(c)'
    BY <1>2 DEF DoneRight, LongestLine, Size
  <2>2. QED
    BY <1>1, <1>2, <2>1 DEF Share, Timed
<1>5. Ending' /\ Totals'
  BY <1>1, <1>2 DEF Ending, Totals, TotalAddsUp, Timed
<1>6. QED
  BY <1>1, <1>2, <1>3, <1>4, <1>5 DEF Tally

\* Before the first line is read nothing is counted.
LEMMA InitTally == Init => Tally
<1> SUFFICES ASSUME Init PROVE Tally
  OBVIOUS
<1>1. Typed
  <2>1. /\ committed \in [Core -> Nat] /\ instDone \in [Core -> Nat]
        /\ flag \in [Core -> BOOLEAN]
    BY DEF Init
  <2>2. numFetch \in 0..MaxFetch /\ maxexecute \in Nat /\ countTotal \in Nat
    BY RunAssumption DEF Init
  <2>3. QED
    BY <2>1, <2>2 DEF Init, Typed
<1>2. numDone = Cardinality(Done)
  BY FS_EmptySet DEF Init, Done
<1>3. ASSUME NEW c \in Core PROVE Share(c)
  BY Longest, RunAssumption DEF Init, Share, Timed, DoneRight
<1>4. SumOf(instExec) = 0
  <2>1. instExec \in [Core -> Nat] /\ \A c \in Core : instExec[c] = 0
    BY DEF Init
  <2>2. QED
    BY <2>1, SumStarts
<1>5. Ending /\ Totals
  BY <1>4 DEF Init, Ending, Totals, TotalAddsUp, Timed
<1>6. QED
  BY <1>1, <1>2, <1>3, <1>5 DEF Tally

\* Every step keeps what is counted right.
LEMMA NextTally == JInv /\ [Next]_vars => JInv'
<1> SUFFICES ASSUME JInv, [Next]_vars PROVE JInv'
  OBVIOUS
<1>1. IInv' /\ Shape' /\ Typed
  BY NextKeeps DEF JInv, IInv, Tally
<1>2. ASSUME NEW c \in Core, ReadFirst(c) PROVE Tally'
  BY <1>2, FirstTally
<1>3. ASSUME BeginLoop PROVE Tally'
  BY <1>3, BeginTally
<1>4. ASSUME NEW c \in Core, FastLine(c) PROVE Tally'
  BY <1>4, FastTally
<1>5. ASSUME EndFast PROVE Tally'
  BY <1>5, EndFastTally
<1>6. ASSUME NEW c \in Core, FetchMem(c) PROVE Tally'
  BY <1>1, <1>6, MemTally
<1>7. ASSUME TimedTurn PROVE Tally'
  BY <1>7, TurnTally
<1>8. ASSUME NEW c \in Core, FetchNonMem(c) \/ Rewind(c) \/ Pass(c) PROVE Tally'
  <2>1. /\ UNCHANGED <<arg, part, exptDone, maxexecute, committed, counts, countTotal>>
        /\ coreRun' = coreRun /\ part = "timed"
    BY <1>8 DEF FetchNonMem, CanFetch, Rewind, Pass, loop
  <2>2. numFetch' \in 0..MaxFetch
    BY <1>1, <1>8, RunAssumption DEF FetchNonMem, CanFetch, Rewind, Pass, EndTurn, Typed
  <2>3. QED
    BY <1>1, <2>1, <2>2, QuietTally DEF Typed
<1>9. ASSUME FastTurn \/ UNCHANGED vars PROVE Tally'
  <2>1. /\ UNCHANGED <<arg, part, exptDone, maxexecute, committed, counts, countTotal>>
        /\ UNCHANGED <<coreRun, numFetch, nonmemops>>
        /\ turn' = turn \/ turn = NumCores
    BY <1>9 DEF FastTurn, vars, loop, file
  <2>2. QED
    BY <1>1, <2>1, QuietTally DEF Typed
<1>10. Tally'
  BY <1>2, <1>3, <1>4, <1>5, <1>6, <1>7, <1>8, <1>9 DEF Next, Ended
<1>11. QED
  BY <1>1, <1>10 DEF JInv

\* What is counted in a part is what was executed in it: a core's instructions
\* add up, with the line carried over and what rewinds repeat, and the total is
\* the sum over the cores of the same part (count_i_total, inst_exec).
THEOREM CountsAreRight == Spec => []CountsAgree
<1>1. JInv => CountsAgree
  <2> SUFFICES ASSUME JInv PROVE CountsAgree
    OBVIOUS
  <2>1. /\ Shape /\ Typed /\ numDone = Cardinality(Done) /\ Totals
        /\ \A c \in Core : Course(c)
    BY DEF JInv, IInv, Tally
  <2>2. ASSUME NEW c \in Core
        PROVE  line[c] \in 0..Len(Trace[c]) /\ pos[c] \in 0..Len(Trace[c])
    BY <2>1, Traces DEF Shape, Course, AtNext, AtLast, AtStart
  <2>3. numDone \in 0..NumCores
    BY <2>1, AllDone
  <2>4. TypeOK
    BY <2>1, <2>2, <2>3 DEF Shape, Typed, TypeOK
  <2>5. InstructionsAddUp /\ TotalAddsUp
    BY <2>1 DEF Course, Counted, InstructionsAddUp, Timed, Totals
  <2>6. QED
    BY <2>4, <2>5 DEF CountsAgree
<1>2. QED
  BY InitHolds, InitTally, NextTally, <1>1, PTL DEF Spec, JInv

\* What a core reports does not grow after it has executed enough, and exceeds
\* it by less than a line; no part ends before each core has executed its
\* share, and, in the timed part, has fetched what it reports (inst_done,
\* num_done, the loop of main).
THEOREM SharesAreDone == Spec => []SharesDone
<1>1. JInv => SharesDone
  <2> SUFFICES ASSUME JInv PROVE SharesDone
    OBVIOUS
  <2>1. /\ Shape /\ Typed /\ numDone = Cardinality(Done) /\ Ending
        /\ \A c \in Core : Course(c) /\ Share(c)
    BY DEF JInv, IInv, Tally
  <2>2. DoneOnce
    BY <2>1 DEF DoneOnce, Done, Share, DoneRight
  <2>3. ASSUME NEW c \in Core, part = "ended", arg.mode # 1
        PROVE  instDone[c] > maxexecute /\ fetched[c] + Due(c) >= instDone[c]
    <3>1. DoneRight(c) /\ flag[c] /\ Counted(c)
      BY <2>1, <2>3, AllDone DEF Share, Course, Timed, Ending
    <3>2. /\ instExec[c] \in Nat /\ carried[c] \in Nat /\ replayed[c] \in Nat
          /\ instDone[c] \in Nat
      BY <2>1 DEF Shape, Typed
    <3>3. instExec[c] + carried[c] + replayed[c] >= instDone[c]
      BY <3>1, <3>2 DEF DoneRight
    <3>4. QED
      BY <3>1, <3>3 DEF DoneRight, Counted
  <2>4. SharesExecuted
    BY <2>1, <2>3 DEF SharesExecuted, Share
  <2>5. QED
    BY <2>2, <2>4 DEF SharesDone
<1>2. QED
  BY InitHolds, InitTally, NextTally, <1>1, PTL DEF Spec, JInv

-----------------------------------------------------------------------------
(***************************************************************************)
(* The reader of text traces.  A line is found by its end in the text: the *)
(* number of newlines up to there is its number in LinesOf.                *)
(***************************************************************************)
\* Where the line begins that comes after the one that ends at c.
From(t, c) == IF c = Len(t) THEN 0 ELSE c

\* Nothing has been given of t, or c is the end of a line of it.
EndsLine(t, c) == c \in 0 .. Len(t) /\ (c # 0 => t[c] = Newline)

\* The line after the one that ends at c ends at e.
EndsNext(t, c, e) ==
  /\ e \in From(t, c) + 1 .. Len(t) /\ t[e] = Newline
  /\ \A j \in From(t, c) + 1 .. e - 1 : t[j] # Newline

\* How EndsNext is shown.
LEMMA EndsNextIs ==
  ASSUME NEW t, NEW c, NEW f, From(t, c) = f, NEW e \in f + 1 .. Len(t), t[e] = Newline,
         \A j \in f + 1 .. e - 1 : t[j] # Newline
  PROVE  EndsNext(t, c, e)
  BY DEF EndsNext

\* A text is a sequence, and its last character ends a line.
IsText(t) == t \in Seq(Range(t)) /\ Len(t) \in Nat \ {0} /\ t[Len(t)] = Newline

\* The lines up to a character can be counted.
LEMMA LinesUpToType ==
  ASSUME NEW t, NEW i \in Nat
  PROVE  /\ IsFiniteSet({j \in 1 .. i : t[j] = Newline}) /\ LinesUpTo(t, i) \in Nat
         /\ LinesUpTo(t, 0) = 0
<1>1. IsFiniteSet(1 .. i) /\ {j \in 1 .. i : t[j] = Newline} \in SUBSET (1 .. i)
  BY FS_Interval
<1>2. IsFiniteSet({j \in 1 .. i : t[j] = Newline})
  BY <1>1, FS_Subset
<1>3. LinesUpTo(t, i) \in Nat
  BY <1>2, FS_CardinalityType DEF LinesUpTo
<1>4. {j \in 1 .. 0 : t[j] = Newline} = {}
  OBVIOUS
<1>5. LinesUpTo(t, 0) = 0
  BY <1>4, FS_EmptySet DEF LinesUpTo
<1> QED BY <1>2, <1>3, <1>5

\* Up to its end a line adds one.
LEMMA LineCounts ==
  ASSUME NEW t, NEW i \in Nat, NEW e \in Nat, i < e, t[e] = Newline, \A j \in i + 1 .. e - 1 : t[j] # Newline
  PROVE  LinesUpTo(t, e) = LinesUpTo(t, i) + 1
<1> DEFINE S == {j \in 1 .. i : t[j] = Newline}
           T == {j \in 1 .. e : t[j] = Newline}
<1>1. T = S \cup {e} /\ e \notin S
  OBVIOUS
<1>2. IsFiniteSet(S)
  BY LinesUpToType
<1> HIDE DEF S, T
<1>3. Cardinality(T) = Cardinality(S) + 1
  BY <1>1, <1>2, FS_AddElement
<1> QED BY <1>3 DEF S, T, LinesUpTo

\* The later of two lines has the greater number.
LEMMA LinesGrow ==
  ASSUME NEW t, NEW i \in Nat, NEW j \in Nat, i < j, t[j] = Newline
  PROVE  LinesUpTo(t, i) < LinesUpTo(t, j)
<1> DEFINE S == {x \in 1 .. i : t[x] = Newline}
           T == {x \in 1 .. j : t[x] = Newline}
<1>1. S \in SUBSET T /\ j \in T /\ j \notin S
  OBVIOUS
<1>2. IsFiniteSet(T)
  BY LinesUpToType
<1>3. LinesUpTo(t, i) \in Nat /\ LinesUpTo(t, j) \in Nat
  BY LinesUpToType
<1> HIDE DEF S, T
<1>4. Cardinality(S) <= Cardinality(T) /\ (Cardinality(T) = Cardinality(S) => T = S)
  BY <1>1, <1>2, FS_Subset
<1>5. Cardinality(S) # Cardinality(T)
  BY <1>1, <1>4
<1>6. Cardinality(S) \in Nat /\ Cardinality(T) \in Nat
  BY <1>3 DEF S, T, LinesUpTo
<1>7. Cardinality(S) < Cardinality(T)
  BY <1>4, <1>5, <1>6
<1> QED BY <1>7 DEF S, T, LinesUpTo

\* The end of line k, as LinesOf finds it.
LineEnd(t, k) == CHOOSE i \in DOMAIN t : t[i] = Newline /\ LinesUpTo(t, i) = k

\* The end of a line is found from the number of the line.
LEMMA LineEndIs ==
  ASSUME NEW t, IsText(t), NEW e \in 1 .. Len(t), t[e] = Newline
  PROVE  LineEnd(t, LinesUpTo(t, e)) = e /\ LinesUpTo(t, e) \in 1 .. LinesUpTo(t, Len(t))
<1> DEFINE x == LineEnd(t, LinesUpTo(t, e))
<1>1. DOMAIN t = 1 .. Len(t) /\ Len(t) \in Nat
  BY LenProperties DEF IsText
<1>2. x \in 1 .. Len(t) /\ t[x] = Newline /\ LinesUpTo(t, x) = LinesUpTo(t, e)
  BY <1>1 DEF LineEnd
<1>3. LinesUpTo(t, e) \in Nat /\ LinesUpTo(t, Len(t)) \in Nat /\ e \in Nat
  <2>1. e \in Nat /\ Len(t) \in Nat
    BY <1>1
  <2> QED BY <2>1, LinesUpToType
<1> HIDE DEF x
<1>4. ~(x < e) /\ ~(e < x)
  BY <1>1, <1>2, <1>3, LinesGrow
<1>5. x = e
  BY <1>1, <1>2, <1>4
<1>6. LinesUpTo(t, e) >= 1
  <2>1. LinesUpTo(t, 0) < LinesUpTo(t, e) /\ LinesUpTo(t, 0) = 0
    BY <1>1, <1>3, LinesGrow, LinesUpToType
  <2> QED BY <1>3, <2>1
<1>7. LinesUpTo(t, e) <= LinesUpTo(t, Len(t))
  <2>1. CASE e = Len(t)
    BY <1>3, <2>1
  <2>2. CASE e < Len(t)
    <3>1. LinesUpTo(t, e) < LinesUpTo(t, Len(t))
      BY <1>1, <1>3, <2>2, LinesGrow DEF IsText
    <3> QED BY <1>3, <3>1
  <2>3. e = Len(t) \/ e < Len(t)
    BY DEF IsText
  <2> QED BY <2>1, <2>2, <2>3
<1> QED BY <1>3, <1>5, <1>6, <1>7 DEF x

\* The line after the one that ends at c is the next one of LinesOf, or the first after the last.
LEMMA NextOfLines ==
  ASSUME NEW t, IsText(t), NEW c, EndsLine(t, c), NEW e, EndsNext(t, c, e)
  PROVE  /\ LinesUpTo(t, e) = (LinesUpTo(t, c) % Len(LinesOf(t))) + 1
         /\ LinesOf(t)[LinesUpTo(t, e)] = SubSeq(t, From(t, c) + 1, e - 1)
<1> DEFINE n == LinesUpTo(t, Len(t))
           f == From(t, c)
           k == LinesUpTo(t, e)
<1>1. /\ Len(t) \in Nat \ {0} /\ t[Len(t)] = Newline /\ c \in 0 .. Len(t) /\ (c # 0 => t[c] = Newline)
      /\ f = IF c = Len(t) THEN 0 ELSE c
  BY DEF IsText, EndsLine, From
<1>2. f \in 0 .. Len(t) - 1 /\ (f # 0 => t[f] = Newline) /\ e \in f + 1 .. Len(t) /\ t[e] = Newline
  BY <1>1 DEF EndsNext
<1>3. k = LinesUpTo(t, f) + 1
  <2>1. f \in Nat /\ e \in Nat /\ f < e
    BY <1>1, <1>2
  <2>2. \A j \in f + 1 .. e - 1 : t[j] # Newline
    BY DEF EndsNext
  <2> HIDE DEF f
  <2> QED BY <1>2, <2>1, <2>2, LineCounts
<1>4. /\ n \in Nat \ {0} /\ k \in 1 .. n /\ LineEnd(t, k) = e
  <2>1. LineEnd(t, k) = e /\ k \in 1 .. n /\ e \in 1 .. Len(t)
    BY <1>1, <1>2, LineEndIs
  <2>2. n \in Nat
    BY <1>1, LinesUpToType
  <2> HIDE DEF k, n
  <2> QED BY <2>1, <2>2
<1>5. LinesUpTo(t, c) % n = LinesUpTo(t, f)
  <2>1. CASE c = Len(t)
    <3>1. f = 0 /\ LinesUpTo(t, f) = 0
      BY <1>1, <2>1, LinesUpToType
    <3>2. n % n = 0
      BY <1>4
    <3> QED BY <2>1, <3>1, <3>2
  <2>2. CASE c # Len(t)
    <3>1. f = c /\ c \in Nat /\ c < Len(t) /\ Len(t) \in Nat
      BY <1>1, <2>2
    <3>2. LinesUpTo(t, c) < n /\ LinesUpTo(t, c) \in Nat
      BY <1>1, <3>1, LinesGrow, LinesUpToType
    <3>3. \A x \in Nat : x < n => x % n = x
      BY <1>4
    <3> QED BY <3>1, <3>2, <3>3
  <2> QED BY <2>1, <2>2
<1>6. f = IF k - 1 = 0 THEN 0 ELSE LineEnd(t, k - 1)
  <2>1. CASE f = 0
    <3>1. k - 1 = 0
      <4>1. LinesUpTo(t, f) = 0
        BY <2>1, LinesUpToType
      <4> HIDE DEF f, k
      <4> QED BY <1>3, <4>1
    <3> QED BY <2>1, <3>1
  <2>2. CASE f # 0
    <3>1. LineEnd(t, LinesUpTo(t, f)) = f /\ LinesUpTo(t, f) \in 1 .. n
      BY <1>1, <1>2, <2>2, LineEndIs
    <3>2. k - 1 = LinesUpTo(t, f) /\ k - 1 # 0
      BY <1>3, <1>4, <3>1
    <3> QED BY <3>1, <3>2
  <2> QED BY <2>1, <2>2
<1>7. LinesOf(t) = [i \in 1 .. n |->
        SubSeq(t, (IF i - 1 = 0 THEN 0 ELSE LineEnd(t, i - 1)) + 1, (IF i = 0 THEN 0 ELSE LineEnd(t, i)) - 1)]
  BY DEF LinesOf, LineEnd
<1> HIDE DEF n, f, k
<1>8. Len(LinesOf(t)) = n
  BY <1>4, <1>7
<1>9. LinesOf(t)[k] = SubSeq(t, f + 1, e - 1)
  <2>1. k # 0
    BY <1>4
  <2> QED BY <1>4, <1>6, <1>7, <2>1
<1> QED BY <1>3, <1>5, <1>8, <1>9 DEF n, f, k

\* What Min finds.
LEMMA MinIs ==
  ASSUME NEW S \in SUBSET Int, NEW m \in S, \A x \in S : m <= x
  PROVE  Min(S) = m
<1>1. Min(S) \in S /\ \A x \in S : Min(S) <= x
  BY DEF Min
<1>2. Min(S) <= m /\ m <= Min(S)
  BY <1>1
<1>3. Min(S) \in Int /\ m \in Int
  BY <1>1
<1>4. \A x, y \in Int : x <= y /\ y <= x => x = y
  OBVIOUS
<1> QED BY <1>2, <1>3, <1>4

\* Min is what its name says.
LEMMA LeastExists ==
  ASSUME NEW S \in SUBSET Nat, S # {}
  PROVE  Min(S) \in S /\ \A x \in S : Min(S) <= x
<1> DEFINE B == {n \in Nat : \A i \in 0 .. n : i \notin S}
<1>1. SUFFICES ASSUME ~\E m \in S : \A x \in S : m <= x PROVE FALSE
  BY DEF Min
<1>2. 0 \in B
  <2>1. 0 \notin S
    BY <1>1
  <2> QED BY <2>1
<1>3. ASSUME NEW n \in Nat, n \in B PROVE n + 1 \in B
  <2>1. ASSUME n + 1 \in S PROVE FALSE
    <3>1. \A x \in S : n + 1 <= x
      BY <1>3
    <3> QED BY <1>1, <2>1, <3>1
  <2>2. \A i \in 0 .. n + 1 : i \in 0 .. n \/ i = n + 1
    OBVIOUS
  <2> QED BY <1>3, <2>1, <2>2
<1>4. Nat \subseteq B
  <2> HIDE DEF B
  <2> QED BY <1>2, <1>3, ClosedSetHoldsNat
<1>5. PICK x \in S : TRUE
  OBVIOUS
<1> QED BY <1>4, <1>5

\* EndOf and Consumed of a block b of which o characters of the file are read.
EndIn(b, i) == Min({j \in i .. Len(b) : b[j] = Nul} \cup {Len(b) + 1})

ConsumedOf(o, b, i) == o - Len(b) + (IF b = <<>> THEN 0 ELSE EndIn(b, i))

\* The string at i of block b ends at e, and behind it the block is as it was read.
StandsAt(t, o, b, i, e) ==
  /\ o \in 0 .. Len(t) /\ b \in Seq(Range(t) \cup {Nul}) /\ Len(b) \in 0 .. o
  /\ e \in 1 .. Len(b) /\ i \in 1 .. e
  /\ b[e] = Nul /\ \A j \in i .. e - 1 : b[j] # Nul
  /\ t[o - Len(b) + e] = Newline
  /\ \A j \in e + 1 .. Len(b) : b[j] = t[o - Len(b) + j]

ReaderInv ==
  /\ text \in Texts /\ WellFormed(text)
  /\ \/ buf = <<>> /\ offset = 0 /\ given = <<>>
     \/ buf # <<>> /\ \E e \in 1 .. Len(buf) : StandsAt(text, offset, buf, index, e)

\* What every text that is read is.
Plain(t) == IsText(t) /\ Nul \notin Range(t)

\* A well-formed text has a character, ends with a newline, and has no Nul.
LEMMA TextIsPlain ==
  ASSUME NEW t \in Texts, WellFormed(t)
  PROVE  Plain(t)
<1>1. t \in Seq(Range(t)) /\ Nul \notin Range(t) /\ t # <<>>
  BY ReaderAssumption DEF WellFormed
<1>2. Len(t) \in Nat \ {0}
  BY <1>1, EmptySeq
<1> QED BY <1>1, <1>2 DEF WellFormed, Plain, IsText, Last

\* What the characters of a text are.
LEMMA Characters ==
  ASSUME NEW t, Plain(t)
  PROVE  Len(t) \in Nat \ {0} /\ \A i \in 1 .. Len(t) : t[i] \in Range(t) /\ t[i] # Nul
<1>1. t \in Seq(Range(t)) /\ Len(t) \in Nat \ {0} /\ Nul \notin Range(t)
  BY DEF Plain, IsText
<1> QED BY <1>1, ElementOfSeq

\* strlen stops at the first Nul, or behind the block.
LEMMA EndInIs ==
  ASSUME NEW b, Len(b) \in Nat, NEW i \in Nat, NEW e \in i .. Len(b) + 1,
         e = Len(b) + 1 \/ b[e] = Nul, \A j \in i .. e - 1 : b[j] # Nul
  PROVE  EndIn(b, i) = e
<1> DEFINE S == {j \in i .. Len(b) : b[j] = Nul} \cup {Len(b) + 1}
<1>1. S \in SUBSET Int /\ e \in S
  OBVIOUS
<1>2. \A x \in S : e <= x
  OBVIOUS
<1> HIDE DEF S
<1>3. Min(S) = e
  BY <1>1, <1>2, MinIs
<1> QED BY <1>3 DEF S, EndIn

\* Where the reader stands.
LEMMA StandsMeans ==
  ASSUME NEW t, Plain(t), NEW o, NEW b, NEW i, NEW e, StandsAt(t, o, b, i, e)
  PROVE  /\ EndIn(b, i) = e /\ ConsumedOf(o, b, i) = o - Len(b) + e
         /\ EndsLine(t, o - Len(b) + e)
         /\ EndIn(b, e + 1) = Len(b) + 1
<1>1. /\ o \in 0 .. Len(t) /\ Len(b) \in 0 .. o /\ e \in 1 .. Len(b) /\ i \in 1 .. e
      /\ b[e] = Nul /\ \A j \in i .. e - 1 : b[j] # Nul
      /\ t[o - Len(b) + e] = Newline
      /\ \A j \in e + 1 .. Len(b) : b[j] = t[o - Len(b) + j]
  BY DEF StandsAt
<1>2. Len(t) \in Nat \ {0} /\ \A x \in 1 .. Len(t) : t[x] # Nul
  BY Characters
<1>3. /\ Len(b) \in Nat /\ i \in Nat /\ e \in i .. Len(b) + 1 /\ e + 1 \in Nat
      /\ Len(b) + 1 \in e + 1 .. Len(b) + 1
  BY <1>1, <1>2
<1>4. EndIn(b, i) = e
  BY <1>1, <1>3, EndInIs
<1>5. \A j \in e + 1 .. Len(b) : b[j] # Nul
  <2> SUFFICES ASSUME NEW j \in e + 1 .. Len(b) PROVE b[j] # Nul
    OBVIOUS
  <2>1. o - Len(b) + j \in 1 .. Len(t)
    BY <1>1, <1>2
  <2> QED BY <1>1, <1>2, <2>1
<1>6. EndIn(b, e + 1) = Len(b) + 1
  <2>1. \A j \in e + 1 .. (Len(b) + 1) - 1 : b[j] # Nul
    BY <1>3, <1>5
  <2> QED BY <1>3, <2>1, EndInIs
<1>7. b # <<>>
  <2>1. Len(<<>>) = 0
    OBVIOUS
  <2> QED BY <1>1, <2>1
<1>8. EndsLine(t, o - Len(b) + e)
  BY <1>1, <1>2 DEF EndsLine
<1> QED BY <1>4, <1>6, <1>7, <1>8 DEF ConsumedOf

\* Parts of a text.
LEMMA PartIs ==
  ASSUME NEW S, NEW t \in Seq(S), NEW m \in 1 .. Len(t) + 1, NEW n \in m - 1 .. Len(t)
  PROVE  /\ SubSeq(t, m, n) \in Seq(S) /\ Len(SubSeq(t, m, n)) = n - m + 1
         /\ \A j \in 1 .. n - m + 1 : SubSeq(t, m, n)[j] = t[m + j - 1]
<1>1. Len(t) \in Nat /\ \A j \in 1 .. Len(t) : t[j] \in S
  BY LenProperties, ElementOfSeq
<1>2. m \in Int /\ n \in Int /\ \A j \in m .. n : t[j] \in S
  BY <1>1
<1>3. /\ SubSeq(t, m, n) \in Seq(S)
      /\ Len(SubSeq(t, m, n)) = IF m <= n THEN n - m + 1 ELSE 0
      /\ \A j \in 1 .. n - m + 1 : SubSeq(t, m, n)[j] = t[m + j - 1]
  BY <1>2, SubSeqProperties
<1>4. (IF m <= n THEN n - m + 1 ELSE 0) = n - m + 1
  BY <1>1
<1> QED BY <1>3, <1>4

\* A part of a block is the part of the text it was read from.
LEMMA SamePart ==
  ASSUME NEW S, NEW t \in Seq(S), NEW b, NEW R, b \in Seq(R), NEW s \in Nat,
         NEW m \in 1 .. Len(b) + 1, NEW n \in m - 1 .. Len(b), s + n <= Len(t),
         \A j \in m .. n : b[j] = t[s + j]
  PROVE  SubSeq(b, m, n) = SubSeq(t, s + m, s + n)
<1>1. Len(b) \in Nat /\ Len(t) \in Nat
  BY LenProperties
<1>2. /\ SubSeq(b, m, n) \in Seq(R) /\ Len(SubSeq(b, m, n)) = n - m + 1
      /\ \A j \in 1 .. n - m + 1 : SubSeq(b, m, n)[j] = b[m + j - 1]
  BY PartIs
<1>3. s + m \in 1 .. Len(t) + 1 /\ s + n \in (s + m) - 1 .. Len(t) /\ (s + n) - (s + m) + 1 = n - m + 1
  BY <1>1
<1>4. /\ SubSeq(t, s + m, s + n) \in Seq(S) /\ Len(SubSeq(t, s + m, s + n)) = n - m + 1
      /\ \A j \in 1 .. n - m + 1 : SubSeq(t, s + m, s + n)[j] = t[s + m + j - 1]
  BY <1>3, PartIs
<1>5. \A j \in 1 .. n - m + 1 : SubSeq(b, m, n)[j] = SubSeq(t, s + m, s + n)[j]
  <2> SUFFICES ASSUME NEW j \in 1 .. n - m + 1
               PROVE SubSeq(b, m, n)[j] = SubSeq(t, s + m, s + n)[j]
    OBVIOUS
  <2>1. m + j - 1 \in m .. n /\ s + (m + j - 1) = s + m + j - 1
    BY <1>1
  <2> QED BY <1>2, <1>4, <2>1
<1>6. SubSeq(b, m, n) \in Seq(R \cup S) /\ SubSeq(t, s + m, s + n) \in Seq(R \cup S)
  <2>1. /\ SubSeq(b, m, n) \in [1 .. n - m + 1 -> R] /\ SubSeq(t, s + m, s + n) \in [1 .. n - m + 1 -> S]
        /\ n - m + 1 \in Nat
    BY <1>1, <1>2, <1>4, LenProperties
  <2>2. SubSeq(b, m, n) \in [1 .. n - m + 1 -> R \cup S] /\ SubSeq(t, s + m, s + n) \in [1 .. n - m + 1 -> R \cup S]
    BY <2>1
  <2> QED BY <2>1, <2>2, SeqDef
<1>7. /\ Len(SubSeq(b, m, n)) = Len(SubSeq(t, s + m, s + n))
      /\ \A j \in 1 .. Len(SubSeq(b, m, n)) : SubSeq(b, m, n)[j] = SubSeq(t, s + m, s + n)[j]
  BY <1>2, <1>4, <1>5
<1> QED BY <1>6, <1>7, SeqEqual

\* Two parts of a text, one behind the other.
LEMMA PartsJoin ==
  ASSUME NEW S, NEW t \in Seq(S), NEW m \in 1 .. Len(t) + 1, NEW n \in m - 1 .. Len(t), NEW k \in n .. Len(t)
  PROVE  SubSeq(t, m, n) \o SubSeq(t, n + 1, k) = SubSeq(t, m, k)
<1>1. Len(t) \in Nat /\ m \in Nat /\ n \in Nat /\ k \in Nat
  BY LenProperties
<1>2. n + 1 \in 1 .. Len(t) + 1 /\ k \in (n + 1) - 1 .. Len(t) /\ k \in m - 1 .. Len(t)
  BY <1>1
<1> DEFINE a == SubSeq(t, m, n)
           b == SubSeq(t, n + 1, k)
           c == SubSeq(t, m, k)
<1>3. /\ a \in Seq(S) /\ Len(a) = n - m + 1 /\ \A j \in 1 .. n - m + 1 : a[j] = t[m + j - 1]
      /\ b \in Seq(S) /\ Len(b) = k - (n + 1) + 1 /\ \A j \in 1 .. k - (n + 1) + 1 : b[j] = t[n + 1 + j - 1]
      /\ c \in Seq(S) /\ Len(c) = k - m + 1 /\ \A j \in 1 .. k - m + 1 : c[j] = t[m + j - 1]
  BY <1>2, PartIs
<1> HIDE DEF a, b, c
<1>4. /\ a \o b \in Seq(S) /\ Len(a \o b) = Len(a) + Len(b)
      /\ \A j \in 1 .. Len(a) + Len(b) : (a \o b)[j] = IF j <= Len(a) THEN a[j] ELSE b[j - Len(a)]
  BY <1>3, ConcatProperties
<1>5. Len(a \o b) = Len(c)
  BY <1>1, <1>3, <1>4
<1>6. \A j \in 1 .. Len(a \o b) : (a \o b)[j] = c[j]
  <2> SUFFICES ASSUME NEW j \in 1 .. Len(a \o b) PROVE (a \o b)[j] = c[j]
    OBVIOUS
  <2>1. j \in 1 .. k - m + 1 /\ j \in 1 .. Len(a) + Len(b) /\ c[j] = t[m + j - 1]
    BY <1>1, <1>3, <1>4, <1>5
  <2>2. CASE j <= Len(a)
    <3>1. j \in 1 .. n - m + 1
      BY <1>1, <1>3, <2>1, <2>2
    <3> QED BY <1>3, <1>4, <2>1, <2>2, <3>1
  <2>3. CASE ~(j <= Len(a))
    <3>1. /\ j - Len(a) \in 1 .. k - (n + 1) + 1
          /\ n + 1 + (j - Len(a)) - 1 = m + j - 1
      BY <1>1, <1>3, <2>1, <2>3
    <3>2. (a \o b)[j] = b[j - Len(a)] /\ b[j - Len(a)] = t[n + 1 + (j - Len(a)) - 1]
      BY <1>3, <1>4, <2>1, <2>3, <3>1
    <3> QED BY <2>1, <3>1, <3>2
  <2> QED BY <2>2, <2>3
<1>7. a \o b = c
  BY <1>3, <1>4, <1>5, <1>6, SeqEqual
<1> QED BY <1>7 DEF a, b, c

\* From i on block b is as it was read behind s characters of t, and it holds the end of a line there.
ReadBehind(t, s, b, i) ==
  /\ s \in Nat /\ b \in Seq(Range(t) \cup {Nul}) /\ s + Len(b) <= Len(t) /\ i \in 1 .. Len(b)
  /\ \A j \in i .. Len(b) : b[j] = t[s + j]
  /\ \E x \in i .. Len(b) : t[s + x] = Newline

\* What is cut off from it up to e is the line that begins there.
CutAt(t, s, b, i, e) ==
  /\ StandsAt(t, s + Len(b), [b EXCEPT ![e] = Nul], i, e)
  /\ Len([b EXCEPT ![e] = Nul]) = Len(b) /\ e \in i .. Len(b)
  /\ t[s + e] = Newline /\ \A j \in s + i .. s + e - 1 : t[j] # Newline
  /\ SubSeq(b, i, e - 1) = SubSeq(t, s + i, s + e - 1)

\* Cutting the next line off leaves the reader behind it.
LEMMA CutStands ==
  ASSUME NEW t, Plain(t), NEW s, NEW b, NEW i, ReadBehind(t, s, b, i)
  PROVE  CutAt(t, s, b, i, Min(Newlines(b, i, Len(b) + 1)))
<1> DEFINE S == Newlines(b, i, Len(b) + 1)
           e == Min(S)
           c == [b EXCEPT ![e] = Nul]
<1>0. /\ s \in Nat /\ b \in Seq(Range(t) \cup {Nul}) /\ s + Len(b) <= Len(t) /\ i \in 1 .. Len(b)
      /\ \A j \in i .. Len(b) : b[j] = t[s + j]
      /\ \E x \in i .. Len(b) : t[s + x] = Newline
  BY DEF ReadBehind
<1>1. Len(b) \in Nat /\ Len(t) \in Nat /\ t \in Seq(Range(t)) /\ \A j \in 1 .. Len(t) : t[j] # Nul
  <2>1. Len(b) \in Nat
    BY <1>0, LenProperties
  <2> QED BY <2>1, Characters DEF Plain, IsText
<1>2. S \in SUBSET Nat /\ S # {}
  <2>1. (\E x \in i .. Len(b) : x \in S) /\ i \in Nat
    BY <1>0, <1>1 DEF Newlines
  <2> QED BY <1>1, <2>1 DEF Newlines
<1>3. e \in S /\ \A y \in S : e <= y
  <2> HIDE DEF S
  <2> QED BY <1>2, LeastExists
<1>4. e \in i .. Len(b) /\ b[e] = Newline /\ \A j \in i .. e - 1 : b[j] # Newline
  <2>1. \A y : y \in S <=> y \in i .. Len(b) /\ b[y] = Newline
    BY <1>0, <1>1 DEF Newlines
  <2> HIDE DEF e, S
  <2>2. e \in i .. Len(b) /\ b[e] = Newline
    BY <1>3, <2>1
  <2>3. ASSUME NEW j \in i .. e - 1, b[j] = Newline PROVE FALSE
    <3>1. j \in i .. Len(b) /\ j < e
      BY <1>0, <1>1, <2>2
    <3>2. e <= j
      BY <1>3, <2>1, <2>3, <3>1
    <3> QED BY <1>0, <1>1, <2>2, <3>1, <3>2
  <2> QED BY <2>2, <2>3
<1> HIDE DEF e, S
<1>5. /\ c \in Seq(Range(t) \cup {Nul}) /\ Len(c) = Len(b)
      /\ \A j \in 1 .. Len(b) : c[j] = IF j = e THEN Nul ELSE b[j]
  <2>1. e \in 1 .. Len(b) /\ Nul \in Range(t) \cup {Nul}
    BY <1>0, <1>1, <1>4
  <2> QED BY <1>0, <2>1, ExceptSeq
<1> HIDE DEF c
<1>6. t[s + e] = Newline
  BY <1>0, <1>4
<1>7. \A j \in s + i .. s + e - 1 : t[j] # Newline
  <2> SUFFICES ASSUME NEW j \in s + i .. s + e - 1 PROVE t[j] # Newline
    OBVIOUS
  <2>1. j - s \in i .. e - 1 /\ j - s \in i .. Len(b) /\ s + (j - s) = j
    BY <1>0, <1>1, <1>4
  <2> QED BY <1>0, <1>4, <2>1
<1>8. StandsAt(t, s + Len(b), c, i, e)
  <2>1. /\ s + Len(b) \in 0 .. Len(t) /\ Len(c) \in 0 .. s + Len(b)
        /\ e \in 1 .. Len(c) /\ i \in 1 .. e /\ (s + Len(b)) - Len(c) + e = s + e
    BY <1>0, <1>1, <1>4, <1>5
  <2>2. c[e] = Nul
    BY <1>5, <2>1
  <2>3. \A j \in i .. e - 1 : c[j] # Nul
    <3> SUFFICES ASSUME NEW j \in i .. e - 1 PROVE c[j] # Nul
      OBVIOUS
    <3>1. j \in i .. Len(b) /\ j \in 1 .. Len(b) /\ j # e /\ s + j \in 1 .. Len(t)
      BY <1>0, <1>1, <1>4
    <3> QED BY <1>0, <1>1, <1>5, <3>1
  <2>4. \A j \in e + 1 .. Len(c) : c[j] = t[(s + Len(b)) - Len(c) + j]
    <3> SUFFICES ASSUME NEW j \in e + 1 .. Len(c) PROVE c[j] = t[(s + Len(b)) - Len(c) + j]
      OBVIOUS
    <3>1. j \in i .. Len(b) /\ j \in 1 .. Len(b) /\ j # e /\ (s + Len(b)) - Len(c) + j = s + j
      BY <1>0, <1>1, <1>4, <1>5
    <3> QED BY <1>0, <1>5, <3>1
  <2>5. t[(s + Len(b)) - Len(c) + e] = Newline
    BY <1>6, <2>1
  <2> QED BY <1>5, <2>1, <2>2, <2>3, <2>4, <2>5 DEF StandsAt
<1>9. SubSeq(b, i, e - 1) = SubSeq(t, s + i, s + e - 1)
  <2>1. /\ i \in 1 .. Len(b) + 1 /\ e - 1 \in i - 1 .. Len(b) /\ s + (e - 1) <= Len(t)
        /\ s + (e - 1) = s + e - 1
    BY <1>0, <1>1, <1>4
  <2>2. \A j \in i .. e - 1 : b[j] = t[s + j]
    BY <1>0, <1>1, <1>4
  <2>3. SubSeq(b, i, e - 1) = SubSeq(t, s + i, s + (e - 1))
    <3>1. t \in Seq(Range(t)) /\ b \in Seq(Range(t) \cup {Nul}) /\ s \in Nat
      BY <1>0, <1>1
    <3> QED BY <2>1, <2>2, <3>1, SamePart
  <2> QED BY <2>1, <2>3
<1> QED BY <1>4, <1>5, <1>6, <1>7, <1>8, <1>9 DEF c, e, S, CutAt

\* EndOf and Consumed as operators of the block, before and after a step.
LEMMA EndOfAs ==
  /\ \A i : EndOf(i) = EndIn(buf, i)
  /\ Consumed = ConsumedOf(offset, buf, index) /\ Consumed' = ConsumedOf(offset', buf', index')
  BY DEF EndOf, EndIn, Consumed, ConsumedOf

\* Before the first line, or behind one.
LEMMA Standing ==
  ASSUME ReaderInv
  PROVE  /\ Plain(text) /\ offset \in 0 .. Len(text) /\ Len(text) \in Nat \ {0}
         /\ EndsLine(text, Consumed)
         /\ buf = <<>> => offset = 0 /\ Consumed = 0
         /\ buf # <<>> => \E e \in 1 .. Len(buf) :
              /\ StandsAt(text, offset, buf, index, e) /\ Consumed = offset - Len(buf) + e
              /\ EndOf(index) = e /\ Rest = e + 1 /\ EndOf(Rest) = Len(buf) + 1
<1>1. Plain(text) /\ Len(text) \in Nat \ {0}
  BY TextIsPlain, Characters DEF ReaderInv
<1>2. CASE buf = <<>>
  <2>1. offset = 0 /\ Len(buf) = 0
    BY <1>2 DEF ReaderInv
  <2>2. Consumed = 0
    <3>1. Consumed = offset - Len(buf) + 0
      BY <1>2 DEF Consumed
    <3> QED BY <2>1, <3>1
  <2> QED BY <1>1, <1>2, <2>1, <2>2 DEF EndsLine
<1>3. CASE buf # <<>>
  <2>1. PICK e \in 1 .. Len(buf) : StandsAt(text, offset, buf, index, e)
    BY <1>3 DEF ReaderInv
  <2>2. /\ EndIn(buf, index) = e /\ ConsumedOf(offset, buf, index) = offset - Len(buf) + e
        /\ EndsLine(text, offset - Len(buf) + e)
        /\ EndIn(buf, e + 1) = Len(buf) + 1
    BY <1>1, <2>1, StandsMeans
  <2>3. EndOf(index) = e /\ Rest = e + 1 /\ EndOf(Rest) = Len(buf) + 1 /\ Consumed = offset - Len(buf) + e
    BY <2>2, EndOfAs DEF Rest
  <2>4. offset \in 0 .. Len(text)
    BY <2>1 DEF StandsAt
  <2> QED BY <1>1, <1>3, <2>1, <2>2, <2>3, <2>4
<1> QED BY <1>2, <1>3

\* Among MaxLine characters one ends a line.
LEMMA HasNewline ==
  ASSUME NEW t, Plain(t), WellFormed(t), NEW a \in 0 .. Len(t) - MaxLine
  PROVE  \E j \in a + 1 .. a + MaxLine : t[j] = Newline
<1>1. /\ t \in Seq(Range(t)) /\ Len(t) \in Nat \ {0} /\ MaxLine \in Nat \ {0}
  BY ReaderAssumption DEF Plain, IsText
<1>2. Newline \in Range(SubSeq(t, a + 1, a + MaxLine))
  BY DEF WellFormed
<1>3. /\ a + 1 \in 1 .. Len(t) + 1 /\ a + MaxLine \in (a + 1) - 1 .. Len(t)
      /\ (a + MaxLine) - (a + 1) + 1 = MaxLine
  BY <1>1
<1>4. /\ SubSeq(t, a + 1, a + MaxLine) \in Seq(Range(t))
      /\ Len(SubSeq(t, a + 1, a + MaxLine)) = MaxLine
      /\ \A j \in 1 .. MaxLine : SubSeq(t, a + 1, a + MaxLine)[j] = t[a + 1 + j - 1]
  BY <1>1, <1>3, PartIs
<1>5. DOMAIN SubSeq(t, a + 1, a + MaxLine) = 1 .. MaxLine
  BY <1>4, LenProperties
<1>6. PICK j \in 1 .. MaxLine : t[a + 1 + j - 1] = Newline
  BY <1>2, <1>4, <1>5 DEF Range
<1>7. a + 1 + j - 1 \in a + 1 .. a + MaxLine
  BY <1>1
<1> QED BY <1>6, <1>7

\* So what holds no newline is short.
LEMMA ShortWithout ==
  ASSUME NEW t, Plain(t), WellFormed(t), NEW m \in 1 .. Len(t) + 1, NEW n \in m - 1 .. Len(t),
         \A j \in m .. n : t[j] # Newline
  PROVE  Len(SubSeq(t, m, n)) < MaxLine
<1>1. /\ t \in Seq(Range(t)) /\ Len(t) \in Nat \ {0} /\ MaxLine \in Nat \ {0}
  BY ReaderAssumption DEF Plain, IsText
<1>2. Len(SubSeq(t, m, n)) = n - m + 1
  BY <1>1, PartIs
<1>3. ASSUME n - m + 1 >= MaxLine PROVE FALSE
  <2> DEFINE a == m - 1
  <2>1. a \in 0 .. Len(t) - MaxLine
    BY <1>1, <1>3
  <2> HIDE DEF a
  <2>2. PICK j \in a + 1 .. a + MaxLine : t[j] = Newline
    BY <2>1, HasNewline
  <2>3. j \in m .. n
    BY <1>1, <1>3 DEF a
  <2> QED BY <2>2, <2>3
<1> QED BY <1>1, <1>2, <1>3

\* A block that is read holds the end of a line.
LEMMA BlockHasEnd ==
  ASSUME ReaderInv
  PROVE  /\ NextBlock[1] = From(text, offset) /\ NextBlock[1] \in 0 .. Len(text) - 1
         /\ NextBlock[2] \in NextBlock[1] + 1 .. Len(text)
         /\ \E j \in NextBlock[1] + 1 .. NextBlock[2] : text[j] = Newline
<1>1. /\ Plain(text) /\ offset \in 0 .. Len(text) /\ Len(text) \in Nat \ {0} /\ Block \in Nat \ {0}
      /\ text[Len(text)] = Newline /\ text \in Seq(Range(text)) /\ WellFormed(text)
  BY Standing, ReaderAssumption DEF Plain, IsText, ReaderInv
<1> DEFINE a == From(text, offset)
           b == Min({a + Block, Len(text)})
<1>2. NextBlock = <<a, b>>
  <2>1. CASE offset < Len(text)
    <3>1. a = offset
      BY <1>1, <2>1 DEF From
    <3> QED BY <2>1, <3>1 DEF NextBlock
  <2>2. CASE ~(offset < Len(text))
    <3>1. a = 0 /\ a + Block = Block
      BY <1>1, <2>2 DEF From
    <3> QED BY <2>2, <3>1 DEF NextBlock
  <2> QED BY <2>1, <2>2
<1>3. a \in 0 .. Len(text) - 1
  BY <1>1 DEF From
<1> HIDE DEF a
<1>4. b = IF a + Block <= Len(text) THEN a + Block ELSE Len(text)
  <2>1. CASE a + Block <= Len(text)
    <3>1. {a + Block, Len(text)} \in SUBSET Int /\ \A x \in {a + Block, Len(text)} : a + Block <= x
      BY <1>1, <1>3, <2>1
    <3>2. Min({a + Block, Len(text)}) = a + Block
      BY <3>1, MinIs
    <3> QED BY <2>1, <3>2
  <2>2. CASE ~(a + Block <= Len(text))
    <3>1. {a + Block, Len(text)} \in SUBSET Int /\ \A x \in {a + Block, Len(text)} : Len(text) <= x
      BY <1>1, <1>3, <2>2
    <3>2. Min({a + Block, Len(text)}) = Len(text)
      BY <3>1, MinIs
    <3> QED BY <2>2, <3>2
  <2> QED BY <2>1, <2>2
<1> HIDE DEF b
<1>5. b \in a + 1 .. Len(text)
  BY <1>1, <1>3, <1>4
<1>6. \E j \in a + 1 .. b : text[j] = Newline
  <2>1. CASE a + Block <= Len(text)
    <3>1. MaxLine \in 1 .. Block /\ a \in 0 .. Len(text) - MaxLine
      BY <1>1, <1>3, <2>1, ReaderAssumption
    <3>2. PICK j \in a + 1 .. a + MaxLine : text[j] = Newline
      BY <1>1, <3>1, HasNewline
    <3>3. j \in a + 1 .. b
      BY <1>1, <1>3, <1>4, <2>1, <3>1
    <3> QED BY <3>2, <3>3
  <2>2. CASE ~(a + Block <= Len(text))
    <3>1. b = Len(text) /\ Len(text) \in a + 1 .. Len(text)
      BY <1>1, <1>3, <1>4, <2>2
    <3> QED BY <1>1, <3>1
  <2> QED BY <2>1, <2>2
<1> QED BY <1>2, <1>3, <1>5, <1>6 DEF a

\* What a step of get_line_from_file does to the text: it gives the next line.
GivesNext ==
  /\ ReaderInv' /\ text' = text
  /\ EndsNext(text, Consumed, Consumed')
  /\ given' = SubSeq(text, From(text, Consumed) + 1, Consumed' - 1)

\* A line that ends in the block is the next one of the text.
LEMMA BlockGivesNext ==
  ASSUME ReaderInv, FromBlock
  PROVE  GivesNext
<1>1. /\ buf # <<>> /\ Rest <= Len(buf) /\ Newlines(buf, Rest, EndOf(Rest)) # {}
      /\ text' = text /\ offset' = offset
      /\ Cut(buf, Rest, <<>>)
  BY DEF FromBlock, HasLine, MoreInBlock
<1>2. /\ Plain(text) /\ offset \in 0 .. Len(text) /\ Len(text) \in Nat \ {0}
  BY Standing
<1>3. PICK e \in 1 .. Len(buf) :
         /\ StandsAt(text, offset, buf, index, e) /\ Consumed = offset - Len(buf) + e
         /\ Rest = e + 1 /\ EndOf(Rest) = Len(buf) + 1
  BY <1>1, Standing
<1> DEFINE s == offset - Len(buf)
           m == Min(Newlines(buf, e + 1, Len(buf) + 1))
           c == [buf EXCEPT ![m] = Nul]
<1>4. /\ buf \in Seq(Range(text) \cup {Nul}) /\ Len(buf) \in 0 .. offset
      /\ \A j \in e + 1 .. Len(buf) : buf[j] = text[s + j]
  BY <1>3 DEF StandsAt
<1>5. /\ s \in Nat /\ s + Len(buf) = offset /\ s + Len(buf) <= Len(text) /\ e + 1 \in 1 .. Len(buf)
      /\ Len(buf) \in Nat
  BY <1>1, <1>2, <1>3, <1>4
<1>6. PICK x \in e + 1 .. Len(buf) : text[s + x] = Newline
  <2>1. PICK x \in Newlines(buf, e + 1, Len(buf) + 1) : TRUE
    BY <1>1, <1>3
  <2>2. x \in e + 1 .. Len(buf) /\ buf[x] = Newline
    BY <1>5, <2>1 DEF Newlines
  <2> QED BY <1>4, <2>2
<1>7. /\ StandsAt(text, s + Len(buf), c, e + 1, m)
      /\ Len(c) = Len(buf) /\ m \in e + 1 .. Len(buf)
      /\ text[s + m] = Newline /\ \A j \in s + (e + 1) .. s + m - 1 : text[j] # Newline
      /\ SubSeq(buf, e + 1, m - 1) = SubSeq(text, s + (e + 1), s + m - 1)
  <2>1. ReadBehind(text, s, buf, e + 1)
    BY <1>4, <1>5, <1>6 DEF ReadBehind
  <2> HIDE DEF s
  <2>2. CutAt(text, s, buf, e + 1, Min(Newlines(buf, e + 1, Len(buf) + 1)))
    BY <1>2, <2>1, CutStands
  <2> QED BY <2>2 DEF CutAt
<1>8. buf' = c /\ index' = e + 1 /\ given' = <<>> \o SubSeq(buf, e + 1, m - 1)
  BY <1>1, <1>3 DEF Cut
<1> HIDE DEF c, m
<1>9. /\ Consumed' = s + m /\ Consumed = s + e /\ From(text, Consumed) = s + e
      /\ s + m \in s + e + 1 .. Len(text)
  <2>1. ConsumedOf(s + Len(buf), c, e + 1) = s + Len(buf) - Len(c) + m
    BY <1>2, <1>7, StandsMeans
  <2>2. Consumed' = ConsumedOf(s + Len(buf), c, e + 1)
    BY <1>1, <1>5, <1>8, EndOfAs
  <2>3. s + e < Len(text) /\ s + Len(buf) - Len(c) + m = s + m
    BY <1>2, <1>5, <1>7
  <2>4. s + m \in s + e + 1 .. Len(text)
    BY <1>2, <1>5, <1>7
  <2>5. s + e # Len(text)
    BY <1>2, <1>3, <1>5, <2>3
  <2> QED BY <1>3, <2>1, <2>2, <2>3, <2>4, <2>5 DEF From
<1> HIDE DEF s
<1>10. EndsNext(text, Consumed, Consumed')
  <2>1. \A j \in s + e + 1 .. (s + m) - 1 : text[j] # Newline
    BY <1>5, <1>7
  <2>2. From(text, s + e) = s + e
    BY <1>9
  <2>3. EndsNext(text, s + e, s + m)
    <3>1. text[s + m] = Newline /\ s + m \in s + e + 1 .. Len(text)
      BY <1>7, <1>9
    <3> QED BY <2>1, <2>2, <3>1, EndsNextIs
  <2> QED BY <1>9, <2>3
<1>11. given' = SubSeq(text, From(text, Consumed) + 1, Consumed' - 1)
  <2>1. SubSeq(text, s + e + 1, s + m - 1) \in Seq(Range(text))
    <3>1. text \in Seq(Range(text)) /\ s + e + 1 \in 1 .. Len(text) + 1 /\ s + m - 1 \in (s + e + 1) - 1 .. Len(text)
      BY <1>2, <1>5, <1>7, <1>9 DEF Plain, IsText
    <3> QED BY <3>1, PartIs
  <2>2. <<>> \o SubSeq(text, s + e + 1, s + m - 1) = SubSeq(text, s + e + 1, s + m - 1)
    BY <2>1, ConcatEmptySeq
  <2>3. s + (e + 1) = s + e + 1
    BY <1>5
  <2>4. given' = SubSeq(text, s + e + 1, (s + m) - 1)
    <3>1. (s + m) - 1 = s + m - 1
      BY <1>5, <1>7
    <3> QED BY <1>7, <1>8, <2>2, <2>3, <3>1
  <2>5. From(text, Consumed) + 1 = s + e + 1 /\ Consumed' - 1 = (s + m) - 1
    BY <1>9, Zenon
  <2> QED BY <2>4, <2>5, Zenon
<1>12. ReaderInv'
  <2>1. m \in 1 .. Len(c) /\ c # <<>>
    <3>1. Len(<<>>) = 0
      OBVIOUS
    <3> QED BY <1>5, <1>7, <3>1
  <2>2. buf' # <<>> /\ \E y \in 1 .. Len(buf') : StandsAt(text', offset', buf', index', y)
    BY <1>1, <1>5, <1>7, <1>8, <2>1
  <2>3. text' \in Texts /\ WellFormed(text')
    BY <1>1 DEF ReaderInv
  <2> QED BY <2>2, <2>3 DEF ReaderInv
<1> QED BY <1>1, <1>10, <1>11, <1>12 DEF GivesNext

\* What is saved of the block is what the text holds of the line before the next block.
LEMMA SavedIs ==
  ASSUME ReaderInv, ~HasLine
  PROVE  LET f == From(text, offset)
         IN /\ Consumed <= offset
            /\ \/ From(text, Consumed) = f /\ Saved = SubSeq(text, f + 1, f)
               \/ /\ From(text, Consumed) = Consumed /\ f = offset /\ Consumed < offset
                  /\ Saved = SubSeq(text, Consumed + 1, offset)
                  /\ \A j \in Consumed + 1 .. offset : text[j] # Newline
<1> DEFINE f == From(text, offset)
<1>1. /\ Plain(text) /\ offset \in 0 .. Len(text) /\ Len(text) \in Nat \ {0} /\ text[Len(text)] = Newline
      /\ f \in 0 .. Len(text)
  BY Standing, BlockHasEnd DEF Plain, IsText
<1>2. SubSeq(text, f + 1, f) = <<>>
  BY <1>1, SubSeqEmpty
<1>3. CASE buf = <<>>
  <2>1. Consumed = offset /\ Saved = <<>>
    BY <1>3, Standing DEF Saved, MoreInBlock
  <2> QED BY <1>1, <1>2, <2>1
<1>4. CASE buf # <<>>
  <2>1. PICK e \in 1 .. Len(buf) :
           /\ StandsAt(text, offset, buf, index, e) /\ Consumed = offset - Len(buf) + e
           /\ Rest = e + 1 /\ EndOf(Rest) = Len(buf) + 1
    BY <1>4, Standing
  <2>2. /\ buf \in Seq(Range(text) \cup {Nul}) /\ Len(buf) \in 0 .. offset
        /\ \A j \in e + 1 .. Len(buf) : buf[j] = text[offset - Len(buf) + j]
    BY <2>1 DEF StandsAt
  <2>3. CASE e = Len(buf)
    <3>1. Consumed = offset
      BY <1>1, <2>1, <2>2, <2>3
    <3>2. ~MoreInBlock
      BY <1>1, <2>1, <2>2, <2>3 DEF MoreInBlock
    <3> QED BY <1>1, <1>2, <3>1, <3>2 DEF Saved
  <2>4. CASE e # Len(buf)
    <3> DEFINE s == offset - Len(buf)
    <3>1. /\ s \in Nat /\ Len(buf) \in Nat /\ s + Len(buf) = offset /\ e < Len(buf)
          /\ Consumed = s + e /\ s + e < offset
      BY <1>1, <2>1, <2>2, <2>4
    <3>2. MoreInBlock
      BY <1>4, <2>1, <3>1 DEF MoreInBlock
    <3>3. Newlines(buf, e + 1, Len(buf) + 1) = {}
      BY <2>1, <3>2 DEF HasLine
    <3>4. \A j \in s + e + 1 .. offset : text[j] # Newline
      <4> SUFFICES ASSUME NEW j \in s + e + 1 .. offset, text[j] = Newline PROVE FALSE
        OBVIOUS
      <4>1. j - s \in e + 1 .. Len(buf) /\ s + (j - s) = j
        BY <1>1, <3>1
      <4>2. buf[j - s] = Newline
        BY <2>2, <4>1
      <4>3. j - s \in Newlines(buf, e + 1, Len(buf) + 1)
        BY <3>1, <4>1, <4>2 DEF Newlines
      <4> QED BY <3>3, <4>3
    <3>5. offset # Len(text) /\ f = offset
      <4>1. offset \in s + e + 1 .. offset
        BY <1>1, <3>1
      <4>2. text[offset] # Newline
        BY <3>4, <4>1
      <4>3. offset # Len(text)
        BY <1>1, <4>2
      <4> QED BY <4>3 DEF From
    <3>6. From(text, Consumed) = Consumed
      BY <1>1, <3>1 DEF From
    <3>7. Saved = SubSeq(text, Consumed + 1, offset)
      <4>1. Saved = SubSeq(buf, e + 1, (Len(buf) + 1) - 1)
        BY <2>1, <3>2 DEF Saved
      <4>2. (Len(buf) + 1) - 1 = Len(buf)
        BY <3>1
      <4>3. /\ e + 1 \in 1 .. Len(buf) + 1 /\ Len(buf) \in (e + 1) - 1 .. Len(buf)
            /\ s + Len(buf) <= Len(text) /\ s + (e + 1) = s + e + 1
        BY <1>1, <3>1
      <4>4. /\ text \in Seq(Range(text)) /\ \A j \in e + 1 .. Len(buf) : buf[j] = text[s + j]
        BY <1>1, <2>2 DEF Plain, IsText
      <4> HIDE DEF s
      <4>5. SubSeq(buf, e + 1, Len(buf)) = SubSeq(text, s + (e + 1), s + Len(buf))
        BY <2>2, <3>1, <4>3, <4>4, SamePart
      <4> QED BY <3>1, <4>1, <4>2, <4>3, <4>5
    <3> HIDE DEF s
    <3>8. \A j \in Consumed + 1 .. offset : text[j] # Newline
      BY <3>1, <3>4
    <3>9. Consumed <= offset /\ Consumed < offset
      BY <1>1, <3>1
    <3> QED BY <3>5, <3>6, <3>7, <3>8, <3>9
  <2> QED BY <2>3, <2>4
<1> QED BY <1>3, <1>4

\* So is a line put together from the rest of a block and the next block.
LEMMA NextBlockGivesNext ==
  ASSUME ReaderInv, FromNextBlock
  PROVE  GivesNext
<1> DEFINE f == From(text, offset)
           o == NextBlock[2]
           b == SubSeq(text, f + 1, o)
           m == Min(Newlines(b, 1, Len(b) + 1))
           c == [b EXCEPT ![m] = Nul]
<1>1. /\ Plain(text) /\ text \in Seq(Range(text)) /\ Len(text) \in Nat \ {0}
      /\ offset \in 0 .. Len(text) /\ EndsLine(text, Consumed)
  BY Standing DEF Plain, IsText
<1>2. /\ f = NextBlock[1] /\ f \in 0 .. Len(text) - 1 /\ o \in f + 1 .. Len(text)
      /\ \E j \in f + 1 .. o : text[j] = Newline
  BY BlockHasEnd
<1>3. /\ text' = text /\ offset' = o /\ buf' = c /\ index' = 1
      /\ given' = Saved \o SubSeq(b, 1, m - 1)
  BY <1>2 DEF FromNextBlock, Cut
<1> HIDE DEF f, o
<1>4. b \in Seq(Range(text)) /\ Len(b) = o - f /\ \A j \in 1 .. Len(b) : b[j] = text[f + j]
  <2>1. f + 1 \in 1 .. Len(text) + 1 /\ o \in (f + 1) - 1 .. Len(text) /\ o - (f + 1) + 1 = o - f
    BY <1>1, <1>2
  <2>2. b \in Seq(Range(text)) /\ Len(b) = o - f /\ \A j \in 1 .. o - f : b[j] = text[f + 1 + j - 1]
    BY <1>1, <2>1, PartIs
  <2>3. \A j \in 1 .. o - f : f + 1 + j - 1 = f + j
    BY <1>1, <1>2
  <2> QED BY <2>2, <2>3
<1> HIDE DEF b
<1>5. f \in Nat /\ o \in Nat /\ Len(b) \in Nat \ {0} /\ f + Len(b) = o
  BY <1>1, <1>2, <1>4
<1>6. ReadBehind(text, f, b, 1)
  <2>1. b \in Seq(Range(text) \cup {Nul})
    <3>1. b \in [1 .. Len(b) -> Range(text)] /\ Len(b) \in Nat
      BY <1>4, LenProperties
    <3> QED BY <3>1, SeqDef
  <2>2. f + Len(b) <= Len(text) /\ 1 \in 1 .. Len(b)
    BY <1>1, <1>2, <1>5
  <2>3. \E x \in 1 .. Len(b) : text[f + x] = Newline
    <3>1. PICK j \in f + 1 .. o : text[j] = Newline
      BY <1>2
    <3>2. j - f \in 1 .. Len(b) /\ f + (j - f) = j
      BY <1>5
    <3> QED BY <3>1, <3>2
  <2> QED BY <1>4, <1>5, <2>1, <2>2, <2>3 DEF ReadBehind
<1>7. CutAt(text, f, b, 1, m)
  BY <1>1, <1>6, CutStands
<1> HIDE DEF m
<1>8. /\ StandsAt(text, f + Len(b), c, 1, m) /\ Len(c) = Len(b) /\ m \in 1 .. Len(b)
      /\ text[f + m] = Newline /\ \A j \in f + 1 .. f + m - 1 : text[j] # Newline
      /\ SubSeq(b, 1, m - 1) = SubSeq(text, f + 1, f + m - 1)
  BY <1>7 DEF CutAt
<1> HIDE DEF c
<1>9. f + m \in f + 1 .. Len(text) /\ f + m - 1 = (f + m) - 1 /\ m \in Nat /\ m <= o - f
  <2>1. m \in Nat /\ 1 <= m /\ m <= Len(b)
    BY <1>5, <1>8
  <2>2. o <= Len(text) /\ Len(text) \in Nat
    BY <1>1, <1>2
  <2> QED BY <1>5, <2>1, <2>2
<1>10. Consumed' = f + m
  <2>1. ConsumedOf(f + Len(b), c, 1) = (f + Len(b)) - Len(c) + m
    BY <1>1, <1>8, StandsMeans
  <2>2. Consumed' = ConsumedOf(f + Len(b), c, 1)
    BY <1>3, <1>5, EndOfAs
  <2>3. (f + Len(b)) - Len(c) + m = f + m
    BY <1>5, <1>8, <1>9
  <2> QED BY <2>1, <2>2, <2>3
<1>11. /\ EndsNext(text, Consumed, f + m)
       /\ given' = SubSeq(text, From(text, Consumed) + 1, (f + m) - 1)
  <2>1. given' = Saved \o SubSeq(text, f + 1, (f + m) - 1)
    BY <1>3, <1>8, <1>9
  <2>2. \A j \in f + 1 .. (f + m) - 1 : text[j] # Newline
    BY <1>8, <1>9
  <2>3. \/ From(text, Consumed) = f /\ Saved = SubSeq(text, f + 1, f)
        \/ /\ From(text, Consumed) = Consumed /\ f = offset /\ Consumed < offset
           /\ Saved = SubSeq(text, Consumed + 1, offset)
           /\ \A j \in Consumed + 1 .. offset : text[j] # Newline
    BY SavedIs DEF FromNextBlock, f
  <2>4. CASE From(text, Consumed) = f /\ Saved = SubSeq(text, f + 1, f)
    <3>1. EndsNext(text, Consumed, f + m)
      BY <1>8, <1>9, <2>2, <2>4, EndsNextIs
    <3>2. /\ f + 1 \in 1 .. Len(text) + 1 /\ f \in (f + 1) - 1 .. Len(text) /\ (f + m) - 1 \in f .. Len(text)
      BY <1>1, <1>5, <1>9
    <3>3. SubSeq(text, f + 1, f) \o SubSeq(text, f + 1, (f + m) - 1) = SubSeq(text, f + 1, (f + m) - 1)
      BY <1>1, <3>2, PartsJoin
    <3> QED BY <2>1, <2>4, <3>1, <3>3
  <2>5. CASE /\ From(text, Consumed) = Consumed /\ f = offset /\ Consumed < offset
             /\ Saved = SubSeq(text, Consumed + 1, offset)
             /\ \A j \in Consumed + 1 .. offset : text[j] # Newline
    <3>1. Consumed \in Nat /\ Consumed < offset /\ f = offset /\ f \in Nat
      BY <1>1, <1>5, <2>5 DEF EndsLine
    <3>2. \A j \in Consumed + 1 .. (f + m) - 1 : text[j] # Newline
      <4> SUFFICES ASSUME NEW j \in Consumed + 1 .. (f + m) - 1 PROVE text[j] # Newline
        OBVIOUS
      <4>1. j \in Consumed + 1 .. offset \/ j \in f + 1 .. (f + m) - 1
        BY <1>9, <3>1
      <4> QED BY <2>2, <2>5, <4>1
    <3>3. f + m \in Consumed + 1 .. Len(text)
      BY <1>1, <1>9, <3>1
    <3>4. EndsNext(text, Consumed, f + m)
      BY <1>8, <2>5, <3>2, <3>3, EndsNextIs
    <3>5. /\ Consumed + 1 \in 1 .. Len(text) + 1 /\ f \in (Consumed + 1) - 1 .. Len(text)
          /\ (f + m) - 1 \in f .. Len(text)
      BY <1>1, <1>9, <3>1, <3>3
    <3>6. SubSeq(text, Consumed + 1, f) \o SubSeq(text, f + 1, (f + m) - 1)
            = SubSeq(text, Consumed + 1, (f + m) - 1)
      BY <1>1, <3>5, PartsJoin
    <3> QED BY <2>1, <2>5, <3>4, <3>6
  <2> QED BY <2>3, <2>4, <2>5
<1>12. ReaderInv'
  <2>1. m \in 1 .. Len(c) /\ c # <<>>
    <3>1. Len(<<>>) = 0
      OBVIOUS
    <3> QED BY <1>5, <1>8, <3>1
  <2>2. buf' # <<>> /\ \E y \in 1 .. Len(buf') : StandsAt(text', offset', buf', index', y)
    BY <1>3, <1>5, <1>8, <2>1
  <2>3. text' \in Texts /\ WellFormed(text')
    BY <1>3 DEF ReaderInv
  <2> QED BY <2>2, <2>3 DEF ReaderInv
<1> QED BY <1>3, <1>10, <1>11, <1>12 DEF GivesNext

\* Every call keeps the invariant of the reader.
LEMMA ReaderStep ==
  ASSUME ReaderInv, [get_line_from_file]_readerVars
  PROVE  ReaderInv'
<1>1. CASE get_line_from_file
  BY <1>1, BlockGivesNext, NextBlockGivesNext DEF get_line_from_file, GivesNext
<1>2. CASE UNCHANGED readerVars
  BY <1>2 DEF readerVars, ReaderInv
<1> QED BY <1>1, <1>2

LEMMA ReaderAlways == ReaderSpec => []ReaderInv
<1>1. ReaderInit => ReaderInv
  BY DEF ReaderInit, ReaderInv
<1> QED BY <1>1, ReaderStep, PTL DEF ReaderSpec

\* A step of the reader is a step of the promise.
LEMMA GivesPromised ==
  ASSUME ReaderInv, GivesNext
  PROVE  Promised!Give
<1>1. Plain(text) /\ IsText(text) /\ EndsLine(text, Consumed)
  BY Standing DEF Plain
<1>2. /\ LinesUpTo(text, Consumed') = (LinesUpTo(text, Consumed) % Len(LinesOf(text))) + 1
      /\ LinesOf(text)[LinesUpTo(text, Consumed')] = SubSeq(text, From(text, Consumed) + 1, Consumed' - 1)
  BY <1>1, NextOfLines DEF GivesNext
<1>3. LinesUpTo(text, Consumed)' = LinesUpTo(text, Consumed') /\ LinesOf(text)' = LinesOf(text)
  BY DEF GivesNext, LinesUpTo, LinesOf
<1> QED BY <1>2, <1>3 DEF GivesNext, Promised!Give

(***************************************************************************)
(* get_line_from_file gives the lines of a text in their order, the first  *)
(* again after the last, wherever the ends of its blocks cut them: it      *)
(* implements TraceLines, for every text whose lines are shorter than      *)
(* MaxLine (MAXTRACELINESIZE), and every size of the block from MaxLine on. *)
(***************************************************************************)
THEOREM ReaderImplements == ReaderSpec => ImplementsLines
<1>1. ReaderInit => Promised!Init
  <2> SUFFICES ASSUME ReaderInit PROVE Promised!Init
    OBVIOUS
  <2>1. Consumed = 0
    <3>1. ReaderInv /\ buf = <<>>
      BY DEF ReaderInit, ReaderInv
    <3> QED BY <3>1, Standing
  <2>2. LinesUpTo(text, Consumed) = 0
    BY <2>1, LinesUpToType
  <2> QED BY <2>2 DEF ReaderInit, Promised!Init
<1>2. ASSUME ReaderInv, [get_line_from_file]_readerVars
      PROVE  \/ Promised!Give
             \/ /\ LinesOf(text)' = LinesOf(text) /\ LinesUpTo(text, Consumed)' = LinesUpTo(text, Consumed)
                /\ given' = given
  <2>1. CASE get_line_from_file
    BY <1>2, <2>1, BlockGivesNext, NextBlockGivesNext, GivesPromised DEF get_line_from_file
  <2>2. CASE UNCHANGED readerVars
    <3>1. text' = text /\ offset' = offset /\ buf' = buf /\ index' = index /\ given' = given
      BY <2>2 DEF readerVars
    <3>2. Consumed' = Consumed
      BY <3>1, EndOfAs
    <3> QED BY <3>1, <3>2 DEF LinesOf, LinesUpTo
  <2> QED BY <1>2, <2>1, <2>2
<1>3. ReaderInv /\ [get_line_from_file]_readerVars
        => [Promised!Give]_<<LinesOf(text), LinesUpTo(text, Consumed), given>>
  BY <1>2
<1> QED BY <1>1, <1>3, ReaderAlways, PTL DEF ReaderSpec, ImplementsLines, Promised!Spec

\* The assertions of get_line_from_file hold at every call: see InsideBlock.
LEMMA InsideAlways == ReaderSpec => []InsideBlock
<1>1. ReaderInv => InsideBlock
  <2> SUFFICES ASSUME ReaderInv PROVE InsideBlock
    OBVIOUS
  <2>1. ASSUME buf # <<>> PROVE index \in DOMAIN buf /\ EndOf(index) \in DOMAIN buf
    <3>1. PICK e \in 1 .. Len(buf) : StandsAt(text, offset, buf, index, e) /\ EndOf(index) = e
      BY <2>1, Standing
    <3>2. buf \in Seq(Range(text) \cup {Nul}) /\ index \in 1 .. e
      BY <3>1 DEF StandsAt
    <3>3. DOMAIN buf = 1 .. Len(buf) /\ Len(buf) \in Nat
      BY <3>2, LenProperties
    <3> QED BY <3>1, <3>2, <3>3
  <2>2. Newlines(text, NextBlock[1] + 1, NextBlock[2] + 1) # {}
    <3>1. PICK j \in NextBlock[1] + 1 .. NextBlock[2] : text[j] = Newline
      BY BlockHasEnd
    <3>2. NextBlock[1] \in Nat /\ NextBlock[2] \in Nat
      BY Standing, BlockHasEnd
    <3>3. j \in NextBlock[1] + 1 .. (NextBlock[2] + 1) - 1
      BY <3>2
    <3>4. j \in Newlines(text, NextBlock[1] + 1, NextBlock[2] + 1)
      BY <3>1, <3>3 DEF Newlines
    <3> QED BY <3>4
  <2> QED BY <2>1, <2>2 DEF InsideBlock
<1> QED BY <1>1, ReaderAlways, PTL

GivenFits == Len(given) < MaxLine

\* What a step gives is a line, and fits the buffer.
LEMMA NextGivenFits ==
  ASSUME ReaderInv, GivenFits, [get_line_from_file]_readerVars
  PROVE  GivenFits'
<1>1. CASE get_line_from_file
  <2>1. GivesNext
    BY <1>1, BlockGivesNext, NextBlockGivesNext DEF get_line_from_file
  <2> DEFINE f == From(text, Consumed)
             e == Consumed'
  <2>2. /\ e \in f + 1 .. Len(text) /\ \A j \in f + 1 .. e - 1 : text[j] # Newline
        /\ given' = SubSeq(text, f + 1, e - 1)
    BY <2>1 DEF GivesNext, EndsNext
  <2>3. Plain(text) /\ WellFormed(text) /\ Len(text) \in Nat /\ f \in Nat
    BY Standing DEF ReaderInv, From, EndsLine
  <2> HIDE DEF f, e
  <2>4. f + 1 \in 1 .. Len(text) + 1 /\ e - 1 \in (f + 1) - 1 .. Len(text)
    BY <2>2, <2>3
  <2> QED BY <2>2, <2>3, <2>4, ShortWithout DEF GivenFits
<1>2. CASE UNCHANGED readerVars
  BY <1>2 DEF readerVars, GivenFits
<1> QED BY <1>1, <1>2

\* Nothing is copied that does not fit: see CopiesFit.
LEMMA CopiesAlwaysFit == ReaderSpec => []CopiesFit
<1>1. ReaderInit => GivenFits
  BY ReaderAssumption DEF ReaderInit, GivenFits
<1>2. ReaderInv /\ ~HasLine => Len(Saved) < MaxLine
  <2> SUFFICES ASSUME ReaderInv, ~HasLine PROVE Len(Saved) < MaxLine
    OBVIOUS
  <2> DEFINE f == From(text, offset)
  <2>1. /\ Plain(text) /\ WellFormed(text) /\ Len(text) \in Nat /\ offset \in 0 .. Len(text)
        /\ Consumed \in Nat
    BY Standing DEF ReaderInv, EndsLine
  <2>2. f \in 0 .. Len(text)
    BY <2>1 DEF From
  <2>3. \/ Saved = SubSeq(text, f + 1, f)
        \/ /\ Consumed < offset /\ Saved = SubSeq(text, Consumed + 1, offset)
           /\ \A j \in Consumed + 1 .. offset : text[j] # Newline
    BY SavedIs
  <2> HIDE DEF f
  <2>4. CASE Saved = SubSeq(text, f + 1, f)
    <3>1. f + 1 \in 1 .. Len(text) + 1 /\ f \in (f + 1) - 1 .. Len(text)
      BY <2>1, <2>2
    <3>2. \A j \in f + 1 .. f : text[j] # Newline
      BY <2>2
    <3> QED BY <2>1, <2>4, <3>1, <3>2, ShortWithout
  <2>5. CASE /\ Consumed < offset /\ Saved = SubSeq(text, Consumed + 1, offset)
             /\ \A j \in Consumed + 1 .. offset : text[j] # Newline
    <3>1. Consumed + 1 \in 1 .. Len(text) + 1 /\ offset \in (Consumed + 1) - 1 .. Len(text)
      BY <2>1, <2>5
    <3> QED BY <2>1, <2>5, <3>1, ShortWithout
  <2> QED BY <2>3, <2>4, <2>5
<1>3. ReaderInv /\ GivenFits => CopiesFit
  BY <1>2 DEF GivenFits, CopiesFit
<1> QED BY <1>1, <1>3, NextGivenFits, ReaderAlways, PTL DEF ReaderSpec

(***************************************************************************)
(* All together, as the run checks them: for every such text the lines come *)
(* in order, the reader never looks for them outside the block it has read, *)
(* and what it copies fits saved_string and scratch_buffer.                *)
(***************************************************************************)
THEOREM LinesAlwaysInOrder == ReaderSpec => LinesInOrder
BY ReaderImplements, InsideAlways, CopiesAlwaysFit, PTL DEF LinesInOrder
=============================================================================
