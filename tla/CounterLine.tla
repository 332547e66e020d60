---------------------------- MODULE CounterLine ----------------------------
(***************************************************************************)
(* One cacheline of counters (ctr_cl of ctr_sim.h) and everything that     *)
(* changes it: update_ctr_cls with the check_overflow, try_comp_wrapper,   *)
(* try_rebase and insert_overflow_mem_accesses it calls, and the reset of  *)
(* the overflow statistics between the two phases of a simulation.         *)
(*                                                                         *)
(* The line holds NumMajors major counters, each with NumMinors minor      *)
(* counters.  A child of the line is named <<m, i>>: minor i of major m,   *)
(* the (m * NumMinors + i)-th counter of the line.                         *)
(***************************************************************************)
EXTENDS Integers, FiniteSets, Functions

CONSTANTS
  NumMajors,     \* num_major_ctr_per_cl: 2 in the DUAL designs, else 1
  NumMinors,     \* num_minor_ctr_per_major_ctr
  LineBits,      \* CACHE_LINE * 8
  AddBits,       \* add_bits: the major counter, the MAC and the mode flag
  UncompBits,    \* minor_ctr_bitslen_arr[2], the width of a plain minor
  MinorMax,      \* minor_ctr_maxval
  MajorMax,      \* major_ctr_maxval: 2^50-1, 2^10-1 or 2^7-1 when compressed;
                 \* the 2^64-1 of the other designs is out of any run's reach
  WordSize,      \* 2^64: the counters are uns64
  Compression,   \* COMPRESSED_MTREE: 0 none, 7 ZCC, 8 ZCC and rebasing
  JointZcc,      \* the UNC_DUAL designs, whose ZCC spans all the majors
  HasSuper,      \* the DUAL designs, which have a super counter
  Policy,        \* COUNTER_UPDATE_POLICY: 0 normal, 1 smooth
  SmoothStep,    \* 16: the largest catch-up of the smooth policy
  MaxSuper       \* bound of the model on super_ctr_val

ASSUME SizesAssumption ==
  /\ NumMajors \in Nat \ {0}
  /\ NumMinors \in Nat \ {0}
  /\ LineBits \in Nat
  /\ AddBits \in Nat
  /\ UncompBits \in Nat \ {0}
  /\ MinorMax \in Nat \ {0}
  /\ MajorMax \in Nat \ {0}
  /\ SmoothStep \in Nat \ {0}
  /\ MaxSuper \in Nat
  /\ WordSize \in Nat /\ WordSize > MajorMax + MinorMax + 1

ASSUME DesignAssumption ==
  /\ Compression \in {0, 7, 8}
  /\ JointZcc \in BOOLEAN
  /\ HasSuper \in BOOLEAN
  /\ Policy \in {0, 1}
  /\ NumMajors > 1 => Compression # 0       \* asserted by init_ctr_cls

VARIABLES
  super,              \* super_ctr_val
  major,              \* major_ctr_val[m]
  minor,              \* minor_ctr_val[m][i]
  compMode,           \* comp_mode[m]: 0 ZCC, 2 uncompressed
  reencrypted,        \* children the last update read and wrote back
  phase,              \* fast-forward or timed part of the simulation
  numOverflows,       \* num_overflows[m]
  levelOverflows,     \* ctr_overflows_levelwise[level].overflows
  warmupOverflows     \* ctr_overflows_levelwise_warmup[level].overflows

counters == <<super, major, minor, compMode>>
stats    == <<numOverflows, levelOverflows, warmupOverflows>>
vars     == <<super, major, minor, compMode, reencrypted, phase,
              numOverflows, levelOverflows, warmupOverflows>>

Majors   == 0..(NumMajors - 1)
Minors   == 0..(NumMinors - 1)
Children == Majors \X Minors

-----------------------------------------------------------------------------
(* The minors v of one major.                                              *)

Highest(v) == CHOOSE x \in {v[i] : i \in Minors} : \A j \in Minors : v[j] <= x
Lowest(v)  == CHOOSE x \in {v[i] : i \in Minors} : \A j \in Minors : x <= v[j]
Lesser(a, b) == IF a < b THEN a ELSE b

\* Mutant: the catch-up of the smooth policy overshoots the highest minor.
IncrementFlat(v, i) ==
  IF Policy = 0 \/ v[i] = Highest(v) THEN 1 ELSE SmoothStep

\* What an update adds to minor i: the smooth policy lets a minor that lags
\* behind the highest one catch up.
Increment(v, i) ==
  IF Policy = 0 \/ v[i] = Highest(v)
  THEN 1 ELSE Lesser(Highest(v) - v[i], SmoothStep)

Written(v, i) == [v EXCEPT ![i] = @ + Increment(v, i)]

-----------------------------------------------------------------------------
(* The two encodings of the minors mi of the line, as tried for major m.   *)

Scope(m) == IF JointZcc THEN Majors ELSE {m}   \* majors ZCC packs together
Shares   == IF JointZcc THEN 1 ELSE NumMajors  \* encodings per line
ZccLines == (NumMajors \div Shares) * NumMinors

\* Bits left for non-zero values once every minor has its presence bit.
ZccBits == (LineBits \div Shares) - (AddBits \div Shares) - ZccLines

NonZero(mi, m) == {c \in Scope(m) \X Minors : mi[c[1]][c[2]] # 0}

ZccWidth(mi, m) == Lesser(ZccBits \div Cardinality(NonZero(mi, m)), 63)

\* ada_dyn0_comp: non-zero values share the remaining bits evenly.  The size
\* it returns always fits the line, so only the values can be refused.
ZccFits(mi, m) ==
  \A c \in Scope(m) \X Minors : mi[c[1]][c[2]] <= 2 ^ ZccWidth(mi, m)

\* uncomp, and the test of its size in try_comp_wrapper.
UncompSize == NumMinors * UncompBits + (AddBits \div NumMajors)
UncompFits(mi, m) ==
  /\ \A i \in Minors : mi[m][i] < 2 ^ UncompBits
  /\ UncompSize <= LineBits \div NumMajors

\* The first is asserted by ada_dyn0_comp; the second is why mode 2 exists.
ASSUME RoomAssumption ==
  Compression # 0 => ZccBits > 0 /\ UncompSize <= LineBits \div NumMajors

\* The modes check_overflow can settle on when it starts from mode `from`.
FittingModes(mi, m, from) ==
  {x \in {0, 2} : /\ x >= from
                  /\ x = 0 => ZccFits(mi, m)
                  /\ x = 2 => UncompFits(mi, m)}

\* Mutant: the mode a line ends in is not recorded.
FirstModeKept(mi, m, from) == from

FirstMode(mi, m, from) == IF 0 \in FittingModes(mi, m, from) THEN 0 ELSE 2

-----------------------------------------------------------------------------
(* What check_overflow leaves behind when minor i of major m is written.   *)

Updated(m, i) == [minor EXCEPT ![m] = Written(@, i)]

\* Mutant: the overflow of a minor is noticed one increment late.
TooBigLate(m, i) == Updated(m, i)[m][i] > MinorMax + 1

TooBig(m, i) == Updated(m, i)[m][i] > MinorMax

\* No encoding from the current mode on takes the updated minors.
Unfit(m, i) ==
  /\ Compression # 0
  /\ ~TooBig(m, i)
  /\ FittingModes(Updated(m, i), m, compMode[m]) = {}

\* Mutant: the smooth policy rebases a line although an encoding fits.
RebasesEagerly(m, i) ==
  /\ Compression = 8
  /\ Policy = 0 => Unfit(m, i)
  /\ Lowest(Updated(m, i)[m]) > 0
  /\ major[m] + Lowest(Updated(m, i)[m]) <= MajorMax

\* try_rebase: the smallest minor moves into the major counter, if there is
\* something to move and the major counter has room for it.
Rebases(m, i) ==
  /\ Compression = 8
  /\ Unfit(m, i)
  /\ Lowest(Updated(m, i)[m]) > 0
  /\ major[m] + Lowest(Updated(m, i)[m]) <= MajorMax

RebaseBy(m, i) == IF Rebases(m, i) THEN Lowest(Updated(m, i)[m]) ELSE 0

Rebased(m, i) ==
  [minor EXCEPT ![m] = [j \in Minors |-> Updated(m, i)[m][j] - RebaseBy(m, i)]]

\* check_overflow returns 1.
Overflows(m, i) ==
  \/ TooBig(m, i)
  \/ /\ Unfit(m, i)
     /\ Rebases(m, i) => FittingModes(Rebased(m, i), m, 0) = {}

\* Mutant: the increment that overflowed is not taken back.
TakenBackNot(m, i) == Rebased(m, i)[m]

\* The minors of m when the overflow is handled: minor i is taken back first.
TakenBack(m, i) == [Rebased(m, i)[m] EXCEPT ![i] = (@ - 1) % WordSize]

\* Mutant: the major counter moves up to its largest minor only.
NextMajorUpTo(m, i) ==
  (major[m] + RebaseBy(m, i) + Highest(TakenBack(m, i))) % WordSize

\* The major counter after the overflow, before it is tested for its own.
NextMajor(m, i) ==
  LET step == IF Compression = 0 THEN 1 ELSE Highest(TakenBack(m, i)) + 1
  IN  (major[m] + RebaseBy(m, i) + step) % WordSize

-----------------------------------------------------------------------------
(* update_ctr_cls for minor i of major m, by its outcome.                  *)

ZeroMinors == [i \in Minors |-> 0]

Init ==
  /\ super = 0
  /\ major = [m \in Majors |-> 0]
  /\ minor = [m \in Majors |-> ZeroMinors]
  /\ compMode = [m \in Majors |-> 0]
  /\ reencrypted = {}
  /\ phase = "fast"
  /\ numOverflows = [m \in Majors |-> 0]
  /\ levelOverflows = 0
  /\ warmupOverflows = 0

\* The minor is incremented and the line keeps an encoding that fits.
UpdateInPlace(m, i) ==
  /\ ~TooBig(m, i)
  /\ ~Unfit(m, i)
  /\ minor' = Updated(m, i)
  /\ compMode' = IF Compression = 0 THEN compMode
                 ELSE [compMode EXCEPT ![m] = FirstMode(Updated(m, i), m, @)]
  /\ reencrypted' = {}
  /\ UNCHANGED <<super, major, phase, stats>>

\* No encoding fits until the minors of m are rebased.
UpdateRebased(m, i) ==
  /\ Rebases(m, i)
  /\ ~Overflows(m, i)
  /\ major' = [major EXCEPT ![m] = @ + RebaseBy(m, i)]
  /\ minor' = Rebased(m, i)
  /\ compMode' = [compMode EXCEPT ![m] = FirstMode(Rebased(m, i), m, 0)]
  /\ reencrypted' = {}
  /\ UNCHANGED <<super, phase, stats>>

\* Major m absorbs its minors, and its children are re-encrypted.
UpdateOverflow(m, i) ==
  /\ Overflows(m, i)
  /\ NextMajor(m, i) <= MajorMax
  /\ major' = [major EXCEPT ![m] = NextMajor(m, i)]
  /\ minor' = [minor EXCEPT ![m] = ZeroMinors]
  /\ compMode' = [compMode EXCEPT ![m] = 0]
  /\ reencrypted' = {m} \X Minors
  /\ numOverflows' = [numOverflows EXCEPT ![m] = @ + 1]
  /\ levelOverflows' = levelOverflows + 1
  /\ UNCHANGED <<super, phase, warmupOverflows>>

\* The major counter overflows too: the line starts over under the next
\* super counter.  Without a super counter the program aborts instead.
UpdateSuper(m, i) ==
  /\ Overflows(m, i)
  /\ NextMajor(m, i) > MajorMax
  /\ HasSuper
  /\ super + 2 <= MaxSuper
  /\ super' = super + 2
  /\ major' = [n \in Majors |-> 0]
  /\ minor' = [n \in Majors |-> ZeroMinors]
  /\ compMode' = [n \in Majors |-> 0]
  /\ reencrypted' = Children
  /\ numOverflows' = [n \in Majors |-> numOverflows[n] + 1]
  /\ levelOverflows' = levelOverflows + 2
  /\ UNCHANGED <<phase, warmupOverflows>>

Update(m, i) == \/ UpdateInPlace(m, i)
                \/ UpdateRebased(m, i)
                \/ UpdateOverflow(m, i)
                \/ UpdateSuper(m, i)

\* Mutant: the overflows recorded in the lines outlive the warm-up.
StartTimedKeepsLine ==
  /\ phase = "fast"
  /\ phase' = "timed"
  /\ warmupOverflows' = levelOverflows
  /\ UNCHANGED <<counters, reencrypted, numOverflows, levelOverflows>>

\* The fast-forward part ends: reset_tot_overflows and
\* timestamp_cumuoverflows_warmup.  The counters themselves are kept.
StartTimed ==
  /\ phase = "fast"
  /\ phase' = "timed"
  /\ numOverflows' = [m \in Majors |-> 0]
  /\ warmupOverflows' = levelOverflows
  /\ UNCHANGED <<counters, reencrypted, levelOverflows>>

Next == \/ \E m \in Majors, i \in Minors : Update(m, i)
        \/ StartTimed

Spec == Init /\ [][Next]_vars

-----------------------------------------------------------------------------
(* Properties.                                                             *)

TypeOK ==
  /\ super \in 0..MaxSuper
  /\ major \in [Majors -> 0..MajorMax]
  /\ minor \in [Majors -> [Minors -> 0..MinorMax]]
  /\ compMode \in [Majors -> {0, 2}]
  /\ reencrypted \in SUBSET Children
  /\ phase \in {"fast", "timed"}
  /\ numOverflows \in [Majors -> Nat]
  /\ levelOverflows \in Nat
  /\ warmupOverflows \in Nat

\* The encoding a major is recorded in still takes its minors, also after
\* its other minors changed how many bits each non-zero value gets: the next
\* update starts from comp_mode and never looks back at what is stored.
Encodable ==
  Compression # 0 =>
    \A m \in Majors :
      /\ compMode[m] = 0 => NonZero(minor, m) = {} \/ ZccFits(minor, m)
      /\ compMode[m] = 2 => UncompFits(minor, m)

\* After a rebase some minor that ZCC packs is still non-zero: ada_dyn0_comp
\* divides by their number when the encodings are tried again.
RebaseLeavesNonZero ==
  \A m \in Majors, i \in Minors :
    Rebases(m, i) => NonZero(Rebased(m, i), m) # {}

\* The effective counter of child c within the epoch of the line: rebasing
\* and the jump of the major counter treat it as a sum when the line is
\* compressed, and as major and minor side by side otherwise.
Effective(c) ==
  IF Compression = 0
  THEN major[c[1]] * (MinorMax + 1) + minor[c[1]][c[2]]
  ELSE major[c[1]] + minor[c[1]][c[2]]

\* No effective counter is used twice: whatever the update did to the major,
\* the written child and all children that insert_overflow_mem_accesses
\* re-encrypts move to a later counter, and every other child keeps its own.
Fresh == INSTANCE FreshCounters WITH
           Child <- Children, epoch <- super,
           value <- [c \in Children |-> Effective(c)]
NeverReused == Fresh!Spec

\* An overflow that is not one of the super counter moves the major counter
\* just past the largest effective counter of its children, also when a
\* rebase already moved it halfway.
PassesMinors ==
  \A m \in Majors :
    numOverflows'[m] > numOverflows[m] /\ super' = super =>
      major'[m] = IF Compression = 0 THEN major[m] + 1
                  ELSE major[m] + Highest(minor[m]) + 1
OverflowPassesMinors == [][PassesMinors]_vars

\* An update uses up at most one new effective counter of a major, so the
\* counters of a major last at least as many updates as they have values.
UsesOneCounter ==
  super' = super =>
    \A m \in Majors :
      major'[m] + Highest(minor'[m]) <= major[m] + Highest(minor[m]) + 1
OneNewCounterPerUpdate == [][UsesOneCounter]_vars

\* Every value ZCC packs has a bit pattern of the width it is given, which
\* is what the test in ada_dyn0_comp for values above the width is for.
ZccRepresentable ==
  Compression # 0 =>
    \A m \in Majors :
      compMode[m] = 0 /\ NonZero(minor, m) # {} =>
        \A i \in Minors : minor[m][i] < 2 ^ ZccWidth(minor, m)

\* The overflows reported for the level, less those of the warm-up, are the
\* overflows recorded in the line: it has one major, or two under a super counter, which
\* counts as two overflows.
StatsAgree ==
  levelOverflows - warmupOverflows =
    SumFunction(numOverflows)
=============================================================================
