----------------------------- MODULE MCDramFcfs -----------------------------
(* Model checking of DramFcfs, with the constants of MC_DramFcfs.cfg.      *)
(* `mode` picks at first which requests come: up to two reads, two writes  *)
(* and three requests in all for both banks, for one row of the second; or *)
(* up to three reads and three writes for one bank, so that younger        *)
(* requests that hit the open row go on overtaking the oldest.             *)
EXTENDS DramFcfs

VARIABLE mode

MCInit == FcfsInit /\ mode \in {"banks", "rows"}

Comes(b, row) ==
  IF mode = "rows" THEN b = BankAt(0)
  ELSE /\ b = BankAt(0) \/ row = 1
       /\ Len(reads') <= 2 /\ Len(writes') <= 2
       /\ Len(reads') + Len(writes') <= 3

MCNext == /\ UNCHANGED mode
          /\ \/ Cycle
             \/ \E b \in Bank, row \in Row : Arrive(b, row) /\ Comes(b, row)

MCSpec == /\ MCInit
          /\ [][MCNext]_<<mode, fcfsVars>>
          /\ WF_<<mode, fcfsVars>>(UNCHANGED mode /\ Cycle)

\* The oldest request of the queue that is served gets its turn.
OldestServed == FrontReadServed /\ FrontWriteServed
=============================================================================
