---------------------------- MODULE TraceReader ----------------------------
(***************************************************************************)
(* The reader of text traces: get_line_from_file takes a line from the     *)
(* block it has read before, and reads the next block of the file when the *)
(* rest of this one is no whole line.  It cuts the block into strings in   *)
(* place, so where it stands is known only from the ends of the strings.   *)
(***************************************************************************)
EXTENDS Integers, Sequences, FiniteSets, FiniteSetsExt, SequencesExt

CONSTANTS
  Texts,       \* the trace files to read: sequences of characters
  Block,       \* BUFFSIZE - 1: characters read at a time
  MaxLine      \* MAXTRACELINESIZE: the size of saved_string and scratch_buffer

Newline == "newline"
Nul     == "nul"      \* the end of a string

\* Traces are text: what ends a string is none of their characters.
ASSUME ReaderAssumption ==
  /\ Block \in Nat \ {0} /\ MaxLine \in 1..Block
  /\ \A t \in Texts : t \in Seq(Range(t)) /\ Nul \notin Range(t)

\* A file ends with a newline, and each of its lines is shorter than MaxLine:
\* strcpy and strcat do not look at the size of what they copy into.
WellFormed(t) ==
  /\ t # <<>> /\ Last(t) = Newline
  /\ \A i \in 0..(Len(t) - MaxLine) : Newline \in Range(SubSeq(t, i + 1, i + MaxLine))

VARIABLES
  text,      \* the file that is read
  offset,    \* how much of it has been read
  buf,       \* read_buffer: the block, strings in it ended by Nul
  index,     \* read_buf_index: where the string given last begins
  given      \* the string returned last

readerVars == <<text, offset, buf, index, given>>

\* strlen and strchr: a string ends at the first Nul, at the latest behind
\* the block.
EndOf(i) == Min({j \in i..Len(buf) : buf[j] = Nul} \cup {Len(buf) + 1})

Newlines(b, i, end) == {j \in i..(end - 1) : b[j] = Newline}

\* The string behind the one given last.
Rest == EndOf(index) + 1

MoreInBlock == buf # <<>> /\ Rest <= Len(buf) /\ EndOf(Rest) > Rest

HasLine == MoreInBlock /\ Newlines(buf, Rest, EndOf(Rest)) # {}

\* Mutant: the beginning of a line cut by the end of the block is forgotten.
NoSaved == <<>>

\* saved_string: what is left of the block, if no newline ends it.
Saved == IF MoreInBlock THEN SubSeq(buf, Rest, EndOf(Rest) - 1) ELSE <<>>

\* gzread, again from the start after the end of the file.
NextBlock ==
  IF offset < Len(text) THEN <<offset, Min({offset + Block, Len(text)})>>
  ELSE <<0, Min({Block, Len(text)})>>

\* The line that begins at i of block b is cut off and given, behind what was
\* saved of the block before.
Cut(b, i, saved) ==
  LET end == Min(Newlines(b, i, Len(b) + 1))
  IN  /\ buf' = [b EXCEPT ![end] = Nul]
      /\ index' = i
      /\ given' = saved \o SubSeq(b, i, end - 1)

FromBlock ==
  /\ HasLine
  /\ Cut(buf, Rest, <<>>)
  /\ UNCHANGED <<text, offset>>

FromNextBlock ==
  /\ ~HasLine
  /\ offset' = NextBlock[2]
  /\ Cut(SubSeq(text, NextBlock[1] + 1, NextBlock[2]), 1, Saved)
  /\ UNCHANGED text

get_line_from_file == FromBlock \/ FromNextBlock

ReaderInit ==
  /\ text \in {t \in Texts : WellFormed(t)}
  /\ offset = 0 /\ buf = <<>> /\ index = 0 /\ given = <<>>

ReaderSpec == ReaderInit /\ [][get_line_from_file]_readerVars

-----------------------------------------------------------------------------
(* Properties.                                                             *)

\* The characters of the file that belong to lines given so far.
Consumed == offset - Len(buf) + (IF buf = <<>> THEN 0 ELSE EndOf(index))

LinesUpTo(t, i) == Cardinality({j \in 1..i : t[j] = Newline})

\* The lines of a text, without their newlines.
LinesOf(t) ==
  LET End(k) == IF k = 0 THEN 0
                ELSE CHOOSE i \in DOMAIN t : t[i] = Newline /\ LinesUpTo(t, i) = k
  IN  [k \in 1..LinesUpTo(t, Len(t)) |-> SubSeq(t, End(k - 1) + 1, End(k) - 1)]

\* get_line_from_file implements TraceLines: it gives the lines in order
\* wherever the blocks cut them, in the first pass and in later ones.
Promised == INSTANCE TraceLines WITH
  Files <- {LinesOf(t) : t \in {x \in Texts : WellFormed(x)}}, lines <- LinesOf(text),
  given <- LinesUpTo(text, Consumed), line <- given

ImplementsLines == Promised!Spec

\* The assertions of get_line_from_file: it never looks outside the block,
\* and a block always holds the end of a line.
InsideBlock ==
  /\ buf # <<>> => index \in DOMAIN buf /\ EndOf(index) \in DOMAIN buf
  /\ Newlines(text, NextBlock[1] + 1, NextBlock[2] + 1) # {}

\* What is copied fits, with the Nul behind it, into saved_string and into
\* scratch_buffer.
CopiesFit == Len(given) < MaxLine /\ (~HasLine => Len(Saved) < MaxLine)

\* The reader of text traces gives the lines in order, looks for them inside its
\* block only, and puts cut lines together inside its buffers.
LinesInOrder == ImplementsLines /\ []InsideBlock /\ []CopiesFit
=============================================================================
