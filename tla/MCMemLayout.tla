---------------------------- MODULE MCMemLayout ----------------------------
(* Model checking of MemLayout and DramMap: five small memories.            *)
EXTENDS DramMap

Same(d) == <<d, d, d, d, d>>

\* Commercial SGX with eight counters a line; split counters over a tree whose
\* arity falls towards the root; two counters a byte; a design that is refused.
MCMemories ==
  { [bits |-> 20, ctr |-> "MONO8",    tree |-> Same("MONO8")],
    [bits |-> 18, ctr |-> "SPLIT32_v1", tree |-> <<"SPLIT32_v1", "SPLIT16_v1", "MONO8", "MONO8", "MONO8">>],
    [bits |-> 20, ctr |-> "SPLIT64",  tree |-> <<"SPLIT32", "SPLIT16", "MONO8", "MONO8", "MONO8">>],
    [bits |-> 21, ctr |-> "SPLIT128", tree |-> Same("SPLIT64_v1")],
    [bits |-> 18, ctr |-> "SPLIT16",  tree |-> Same("SPLIT16_v1")] }

MCGeometries ==
  { [column |-> 3, channel |-> 1, bank |-> 1, rank |-> 1, row |-> 8],
    [column |-> 5, channel |-> 1, bank |-> 1, rank |-> 0, row |-> 7],
    [column |-> 6, channel |-> 1, bank |-> 1, rank |-> 0, row |-> 8],
    [column |-> 7, channel |-> 1, bank |-> 0, rank |-> 0, row |-> 8] }

\* Every design and every mapping is tried with a geometry that serves it.
ASSUME \A m \in MCMemories : LET o == InitMemOrg(m) IN o.tallies => \E g \in MCGeometries : Serves(g, o)
=============================================================================
