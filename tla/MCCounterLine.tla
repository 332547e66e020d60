--------------------------- MODULE MCCounterLine ---------------------------
(* Model checking of CounterLine: the runs differ in their constants only. *)
EXTENDS CounterLine
=============================================================================
