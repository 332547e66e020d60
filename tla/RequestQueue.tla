---------------------------- MODULE RequestQueue ----------------------------
(***************************************************************************)
(* What both memory controllers do to their queues of requests in each     *)
(* turn, before they choose the next command.                              *)
(***************************************************************************)
EXTENDS Integers, Sequences

\* Mutant: served requests stay in the queues.
CleanNot(queue) == queue

\* clean_queues: the requests of a queue that are not served, in their order.
Clean(queue) ==
  LET kept[n \in 0..Len(queue)] ==
        IF n = 0 THEN <<>>
        ELSE IF queue[n].served THEN kept[n - 1]
        ELSE Append(kept[n - 1], queue[n])
  IN  kept[Len(queue)]
=============================================================================
