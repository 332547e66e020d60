----------------------------- MODULE MCMetWalk -----------------------------
(* Model checking of MetWalk: a tree of three levels below the root, in    *)
(* which two lines of counters, and the two lines above them, share a      *)
(* major and so are reread together; a branch of its own competes with     *)
(* them.  `cache` picks at first the LRU cache of the constants, or a      *)
(* direct-mapped one in which nearly every install throws out what an      *)
(* outer call has just brought in.                                         *)
EXTENDS MetWalk

VARIABLE cache

MCData == {"d1", "d2", "d3", "d4"}
MCNode == {"c1", "c2", "c3", "c4", "m1", "m2", "m3", "t1", "t2"}
MCParent ==
  [x \in MCData \cup MCNode |->
     CASE x = "d1" -> "c1" [] x = "d2" -> "c2" [] x = "d3" -> "c3" [] x = "d4" -> "c4"
       [] x \in {"c1", "c2"} -> "m1" [] x = "c3" -> "m2" [] x = "c4" -> "m3"
       [] x \in {"m1", "m2"} -> "t1" [] x = "m3" -> "t2" [] x \in {"t1", "t2"} -> "root"]

MCSiblings ==
  [x \in MCData \cup (MCNode \ {"t1", "t2"}) |->
     CASE x \in MCData -> <<>>
       [] x \in {"c1", "c2"} -> <<"c1", "c2">>
       [] x \in {"m1", "m2"} -> <<"m1", "m2">>
       [] OTHER -> <<x>>]

\* Lines of all levels compete for a set, and siblings are in different sets.
MCTwoSets ==
  [n \in MCNode |-> IF n \in {"c2", "c4", "m2"} THEN 1 ELSE 0]

Direct == INSTANCE MetWalk WITH Assoc <- 1

MCInit == Init /\ cache \in {"lru", "direct"}

MCWalk == \/ cache = "lru" /\ Walk
          \/ cache = "direct" /\ Direct!Walk

MCNext == /\ UNCHANGED cache
          /\ \/ cache = "lru" /\ Next
             \/ cache = "direct" /\ Direct!Next

MCSpec == /\ MCInit
          /\ [][MCNext]_<<vars, cache>>
          /\ WF_<<vars, cache>>(UNCHANGED cache /\ MCWalk)

\* TreeCountersSurvive in the larger sets: see MetWalk.
TreeCountersSurviveLru == cache = "lru" => TreeCountersSurvive
=============================================================================
