------------------------------ MODULE MCTrace ------------------------------
(* Model checking of TraceRun, and of the reader of text traces beside it: *)
(* `what` picks at first which of the two moves.                           *)
EXTENDS TraceRun, TraceReader

CONSTANT TextLength    \* model bound: characters of a file

VARIABLE what

MCTexts == UNION {[1..n -> {"a", "b", "newline"}] : n \in 1..TextLength}

MCvars == <<vars, readerVars, what>>

R(n) == [nonmemops |-> n, opertype |-> "R"]
W(n) == [nonmemops |-> n, opertype |-> "W"]

\* Lines of one to three instructions.
MCLines == [c \in {0, 1} |-> IF c = 0 THEN <<R(1), W(0), R(0)>> ELSE <<W(2), R(0)>>]

\* Each mode and each reader at least once, and, over an L3, each kind of design.
MCArgs ==
  {[mode |-> 0, sgx |-> s, useL3 |-> TRUE, reader |-> "records"] : s \in {0, 3, 4, 5}} \cup
  {[mode |-> 0, sgx |-> 1, useL3 |-> TRUE,  reader |-> "lines"],
   [mode |-> 1, sgx |-> 4, useL3 |-> TRUE,  reader |-> "records"],
   [mode |-> 2, sgx |-> 5, useL3 |-> FALSE, reader |-> "lines"],
   [mode |-> 2, sgx |-> 3, useL3 |-> FALSE, reader |-> "records"]}

MCInit ==
  /\ Init
  /\ ReaderInit
  /\ \/ what = "run" /\ text = <<"newline">>
     \/ what = "reader" /\ arg.mode = 1

MCNext ==
  /\ UNCHANGED what
  /\ \/ what = "run" /\ Next /\ UNCHANGED readerVars
     \/ what = "reader" /\ get_line_from_file /\ UNCHANGED vars

Run(A) == what = "run" /\ UNCHANGED <<readerVars, what>> /\ A

\* The fairness of TraceRun.
MCSpec == MCInit /\ [][MCNext]_MCvars /\ WF_MCvars(Run(Next))

\* The experiment ends, when it is the run that moves: see TraceRun.
RunEnds == what = "run" => Ends
=============================================================================
