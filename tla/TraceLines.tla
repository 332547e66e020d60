----------------------------- MODULE TraceLines -----------------------------
(***************************************************************************)
(* What a reader of trace files promises to the cores: the lines of the    *)
(* file in their order, none lost, split or joined, and the first again    *)
(* after the last.                                                         *)
(***************************************************************************)
EXTENDS Integers, Sequences

CONSTANT Files      \* the files to read, each the sequence of its lines

VARIABLES lines,    \* the file that is read
          given,    \* number of the line given last, 0 at first
          line      \* that line

Init == lines \in Files /\ given = 0 /\ line = <<>>

Give ==
  /\ given' = (given % Len(lines)) + 1
  /\ line' = lines[given']
  /\ UNCHANGED lines

Spec == Init /\ [][Give]_<<lines, given, line>>
=============================================================================
