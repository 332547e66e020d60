----------------------------- MODULE MCMemModes -----------------------------
(* Model checking of MemSched in two instances: `mode` picks at first the  *)
(* one that runs.  It is that of the constants, one core with two slots    *)
(* behind a last-level cache, or one of two cores with a slot each, whose  *)
(* variables are those with a 2; the other rests.                          *)
EXTENDS MCMemSched

VARIABLES mode, reads2, writes2, drain2, head2, inflight2, waiting2, critical2,
          stage2, numFetch2, writeqfull2, finished2, exptDone2

vars2 == <<reads2, writes2, drain2, head2, inflight2, waiting2, critical2,
           stage2, numFetch2, writeqfull2, finished2, exptDone2>>

Cores == INSTANCE MemSched WITH
  NumCores <- 2, RobSize <- 1, MaxFetch <- 1, UseL3 <- FALSE,
  Walk <- MCWalk, MaxReads <- 2,
  reads <- reads2, writes <- writes2, drain <- drain2, head <- head2,
  inflight <- inflight2, waiting <- waiting2, critical <- critical2,
  stage <- stage2, numFetch <- numFetch2, writeqfull <- writeqfull2,
  finished <- finished2, exptDone <- exptDone2

MCInit == Init /\ Cores!Init /\ mode \in {"merge", "cores"}

MCNext == /\ UNCHANGED mode
          /\ \/ mode = "merge" /\ Next /\ UNCHANGED vars2
             \/ mode = "cores" /\ Cores!Next /\ UNCHANGED vars

\* The fairness of MemSched, for the two cores.
MCFairness ==
  /\ WF_vars2(mode = "cores" /\ Cores!Next)
  /\ SF_vars2(\E ready \in Cores!Ready :
                Cores!DrainWrites(ready) /\ Cores!FrontReady(ready))
  /\ SF_vars2(\E ready \in Cores!Ready :
                Cores!ServeReads(ready) /\ Cores!FrontReady(ready))
  /\ \A c \in Cores!Core : SF_vars2(Cores!Retire(c))

MCSpec == MCInit /\ [][MCNext]_<<mode, vars, vars2>> /\ MCFairness

\* Two cores of one slot each: the properties of MemSched, and no circle of
\* waiting between fetch, retirement, reads and drain mode.
TwoCoresGoOn ==
  /\ [](Cores!QueuesBounded /\ Cores!ReadsAwaited)
  /\ mode = "cores" => Cores!LoopGoesOn
=============================================================================
