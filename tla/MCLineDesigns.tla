--------------------------- MODULE MCLineDesigns ---------------------------
(* Model checking of CounterLine in the designs of init_ctr_types that     *)
(* differ in their structure: `design` picks at first the line that is     *)
(* written.  It is the line of the constants (smooth updates, ZCC with     *)
(* rebasing), or a second line in one of four designs, whose variables     *)
(* are those with a 2; the other line rests.                               *)
EXTENDS CounterLine

VARIABLES design, super2, major2, minor2, compMode2, reencrypted2, phase2,
          numOverflows2, levelOverflows2, warmupOverflows2

line2 == <<super2, major2, minor2, compMode2, reencrypted2, phase2,
           numOverflows2, levelOverflows2, warmupOverflows2>>

\* Plain split counters, one major and no compression.
Split == INSTANCE CounterLine WITH
  NumMajors <- 1, NumMinors <- 3, LineBits <- 16, AddBits <- 7,
  UncompBits <- 2, MinorMax <- 3, MajorMax <- 3, WordSize <- 32,
  Compression <- 0, JointZcc <- FALSE, HasSuper <- FALSE,
  Policy <- 0, SmoothStep <- 2, MaxSuper <- 0,
  super <- super2, major <- major2, minor <- minor2, compMode <- compMode2,
  reencrypted <- reencrypted2, phase <- phase2, numOverflows <- numOverflows2,
  levelOverflows <- levelOverflows2, warmupOverflows <- warmupOverflows2

\* ZCC without rebasing.
Zcc == INSTANCE CounterLine WITH
  NumMajors <- 1, NumMinors <- 3, LineBits <- 16, AddBits <- 7,
  UncompBits <- 2, MinorMax <- 6, MajorMax <- 9, WordSize <- 32,
  Compression <- 7, JointZcc <- FALSE, HasSuper <- FALSE,
  Policy <- 0, SmoothStep <- 2, MaxSuper <- 0,
  super <- super2, major <- major2, minor <- minor2, compMode <- compMode2,
  reencrypted <- reencrypted2, phase <- phase2, numOverflows <- numOverflows2,
  levelOverflows <- levelOverflows2, warmupOverflows <- warmupOverflows2

\* Two majors under a super counter, each with its own encoding.
Dual == INSTANCE CounterLine WITH
  NumMajors <- 2, NumMinors <- 2, LineBits <- 10, AddBits <- 2,
  UncompBits <- 2, MinorMax <- 4, MajorMax <- 4, WordSize <- 32,
  Compression <- 8, JointZcc <- FALSE, HasSuper <- TRUE,
  Policy <- 0, SmoothStep <- 2, MaxSuper <- 2,
  super <- super2, major <- major2, minor <- minor2, compMode <- compMode2,
  reencrypted <- reencrypted2, phase <- phase2, numOverflows <- numOverflows2,
  levelOverflows <- levelOverflows2, warmupOverflows <- warmupOverflows2

\* UNC_DUAL: two majors whose minors ZCC packs together.
Joint == INSTANCE CounterLine WITH
  NumMajors <- 2, NumMinors <- 2, LineBits <- 8, AddBits <- 2,
  UncompBits <- 1, MinorMax <- 4, MajorMax <- 2, WordSize <- 32,
  Compression <- 8, JointZcc <- TRUE, HasSuper <- TRUE,
  Policy <- 0, SmoothStep <- 2, MaxSuper <- 0,
  super <- super2, major <- major2, minor <- minor2, compMode <- compMode2,
  reencrypted <- reencrypted2, phase <- phase2, numOverflows <- numOverflows2,
  levelOverflows <- levelOverflows2, warmupOverflows <- warmupOverflows2

MCInit ==
  /\ Init
  /\ \/ design \in {"smooth", "split"} /\ Split!Init
     \/ design = "zcc"   /\ Zcc!Init
     \/ design = "dual"  /\ Dual!Init
     \/ design = "joint" /\ Joint!Init

MCNext ==
  /\ UNCHANGED design
  /\ \/ design = "smooth" /\ Next /\ UNCHANGED line2
     \/ design = "split" /\ Split!Next /\ UNCHANGED vars
     \/ design = "zcc"   /\ Zcc!Next   /\ UNCHANGED vars
     \/ design = "dual"  /\ Dual!Next  /\ UNCHANGED vars
     \/ design = "joint" /\ Joint!Next /\ UNCHANGED vars

MCSpec == MCInit /\ [][MCNext]_<<design, vars, line2>>

\* The properties of CounterLine, in the designs each is claimed for: see
\* there.  An update of one major of UNC_DUAL can make the encoding of the
\* other outdated, and an overflow there need not pass all minors.
DesignsEncodable == /\ design = "zcc"  => Zcc!Encodable
                    /\ design = "dual" => Dual!Encodable

DesignsStatsAgree == /\ design = "dual"  => Dual!StatsAgree
                     /\ design = "joint" => Joint!StatsAgree

\* The line starts as its abstract specification does, and follows it.
DesignsNeverReuse ==
  /\ design = "split" => Split!Fresh!Init
  /\ design = "zcc"   => Zcc!Fresh!Init
  /\ design = "dual"  => Dual!Fresh!Init
  /\ [][/\ design = "split" => [Split!Fresh!Next]_(Split!Fresh!vars)
        /\ design = "zcc"   => [Zcc!Fresh!Next]_(Zcc!Fresh!vars)
        /\ design = "dual"  => [Dual!Fresh!Next]_(Dual!Fresh!vars)]_line2

\* The major counter moves past all minors, but no further.
DesignsPassMinors ==
  [][/\ design = "split" => Split!PassesMinors
     /\ design = "zcc"   => Zcc!PassesMinors
     /\ design = "dual"  => Dual!PassesMinors]_line2

\* In every design it is claimed for, a line can be encoded as it is recorded
\* to be, and the overflows of the level are those of the line.
DesignsSound == DesignsEncodable /\ DesignsStatsAgree

\* And counters are neither used twice nor skipped, in every such design.
DesignsFollow ==
  []DesignsSound /\ DesignsNeverReuse /\ DesignsPassMinors /\ OneNewCounterPerUpdate
=============================================================================
