----------------------------- MODULE MCOsPaging -----------------------------
(* Model checking of OsPaging: two threads share a memory.  `placement`    *)
(* picks at first how pages are placed: at random, or first touch.         *)
EXTENDS OsPaging

VARIABLE placement

MCThread == {0, 1}
MCPage   == {1, 2}

Touch == INSTANCE OsPaging WITH RandomAlloc <- FALSE

MCInit == Init /\ placement \in {"random", "touch"}

MCNext == /\ UNCHANGED placement
          /\ \/ placement = "random" /\ Next
             \/ placement = "touch" /\ Touch!Next

MCSpec == /\ MCInit
          /\ [][MCNext]_<<vars, placement>>
          /\ WF_<<vars, placement>>(UNCHANGED placement /\ Clock)

\* The search for a frame ends, and does not evict a page too early: see
\* OsPaging.
SearchRight == EvictOnlyWhenFull /\ SearchEnds
=============================================================================
