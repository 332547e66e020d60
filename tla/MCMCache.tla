------------------------------ MODULE MCMCache ------------------------------
(***************************************************************************)
(* Model checking of MCache.  Sets of three ways are for the policies that *)
(* go by an order of the lines, and for reads of one thread; there is      *)
(* always one line more than ways.                                         *)
(***************************************************************************)
EXTENDS MCache

CONSTANT Spare  \* the line that only sets of three ways need

MCInit ==
  /\ Init
  /\ assocs > 2 => repl_policy \in {"LRU", "FIFO", "DIP"} /\ role # "p1"

MCNext ==
  \/ \E t \in Tag, dirty \in BOOLEAN, tid \in Tid :
       /\ assocs > 2 \/ t # Spare
       /\ assocs > 2 => ~dirty /\ tid = CHOOSE x \in Tid : TRUE
       /\ Access(t, dirty, tid)
  \/ \E r \in {"p0", "p1"} : OtherLeader(r)

MCSpec == MCInit /\ [][MCNext]_vars
=============================================================================
