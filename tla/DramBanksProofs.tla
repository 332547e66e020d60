--------------------------- MODULE DramBanksProofs ---------------------------
(***************************************************************************)
(* Proofs about DramBanks, for any number of ranks and banks and for any   *)
(* timing: states and timers stay within their ranges, the banks of a rank *)
(* sleep as one and remember their open rows, every window ends with its   *)
(* refreshes, and the data bus is never used twice at a time.              *)
(***************************************************************************)
EXTENDS DramFcfs, DataLemmas, SequenceTheorems

\* A column command was issued this cycle only to a bank that is awake, so the
\* precharge that goes with it wakes no bank out of turn.
CasAwake == \A b \in Bank : cas[b] # "none" => commanded /\ state[b] \notin Asleep

IInv == TypeOK /\ RanksWhole /\ CasAwake

-----------------------------------------------------------------------------
(* Times and timers.                                                       *)

\* The timing parameters are positive numbers.
LEMMA Times ==
  /\ T_RCD \in Nat /\ T_RP \in Nat /\ T_CAS \in Nat /\ T_RAS \in Nat
  /\ T_RC \in Nat /\ T_CWD \in Nat /\ T_WR \in Nat /\ T_WTR \in Nat
  /\ T_RTRS \in Nat /\ T_DATA_TRANS \in Nat /\ T_RTP \in Nat /\ T_CCD \in Nat
  /\ T_XP \in Nat /\ T_XP_DLL \in Nat /\ T_PD_MIN \in Nat /\ T_RRD \in Nat
  /\ T_FAW \in Nat /\ T_REFI \in Nat \ {0} /\ T_RFC \in Nat
  /\ Batch \in Nat \ {0}
BY TimingAssumption, ShapeAssumption

\* A window for refreshes is not empty.
LEMMA Windows == WindowLength \in Nat \ {0}
<1>1. \A x, y \in Nat \ {0} : x * y \in Nat \ {0}
  OBVIOUS
<1>2. QED
  BY <1>1, Times DEF WindowLength

\* Putting off a timer leaves it a number.
LEMMA LaterNat == \A x \in Nat, y \in Int : Later(x, y) \in Nat
BY DEF Later

\* So do the delays of a command, for a bank
LEMMA DelayedType ==
  ASSUME NEW n \in [Timers -> Nat], NEW d, \A t \in DOMAIN d : d[t] \in Int
  PROVE  Delayed(n, d) \in [Timers -> Nat]
BY LaterNat DEF Delayed

\* and for a set of banks.
LEMMA DelayAllType ==
  ASSUME next \in [Bank -> [Timers -> Nat]], NEW banks,
         NEW d, \A t \in DOMAIN d : d[t] \in Int
  PROVE  DelayAll(banks, d) \in [Bank -> [Timers -> Nat]]
<1>1. \A b \in Bank : Delayed(next[b], d) \in [Timers -> Nat]
  BY DelayedType
<1>2. QED
  BY <1>1 DEF DelayAll

\* The delays of a precharge or refresh are numbers, as are
LEMMA ClosingDelays ==
  ASSUME NEW t \in Int
  PROVE  \A x \in DOMAIN Closing(t) : Closing(t)[x] \in Int
BY DEF Closing

\* those of waking up.
LEMMA WakingDelays ==
  ASSUME NEW t \in Int
  PROVE  \A x \in DOMAIN Waking(t) : Waking(t)[x] \in Int
BY DEF Waking

\* Every rank has a first bank.
LEMMA FirstBank == \A r \in Rank : FirstOf(r) \in BanksOf(r)
BY ShapeAssumption DEF FirstOf, BanksOf, Bank, RankOf

\* The rank of a bank is a rank.
LEMMA BankRank == \A b \in Bank : RankOf(b) \in Rank
BY DEF Bank, RankOf

-----------------------------------------------------------------------------
(* What each command leaves as it was.                                     *)

\* An activate opens a closed bank.
LEMMA OpenKeeps ==
  ASSUME IInv, NEW b \in Bank, NEW row \in Row, state[b] \in Closed,
         ~commanded, Open(b, row)
  PROVE  IInv'
<1> USE DEF IInv
<1>1. row \in Nat /\ row # NoRow
  BY ShapeAssumption DEF NoRow
<1>2. TypeOK'
  <2>1. next' \in [Bank -> [Timers -> Nat]]
    <3> DEFINE own == [pre |-> T_RAS, refresh |-> T_RAS, read |-> T_RCD,
                       write |-> T_RCD, act |-> T_RC, powerdown |-> T_RCD]
               others == [act |-> T_RRD]
    <3>1. /\ \A t \in DOMAIN own : own[t] \in Int
          /\ \A t \in DOMAIN others : others[t] \in Int
      BY Times
    <3>2. next' = [c \in Bank |-> IF c = b THEN Delayed(next[c], own)
                                  ELSE IF RankOf(c) = RankOf(b)
                                  THEN Delayed(next[c], others) ELSE next[c]]
      BY DEF Open
    <3> HIDE DEF own, others
    <3>3. \A c \in Bank : /\ Delayed(next[c], own) \in [Timers -> Nat]
                          /\ Delayed(next[c], others) \in [Timers -> Nat]
      BY <3>1, DelayedType DEF TypeOK
    <3>4. QED
      BY <3>2, <3>3 DEF TypeOK
  <2>2. activates' \in [Rank -> SUBSET (0..T_FAW)]
    BY BankRank, Times DEF Open, TypeOK
  <2>3. state' \in [Bank -> Powered \cup Asleep] /\ activeRow' \in [Bank -> Row \cup {NoRow}]
    BY DEF Open, TypeOK, Powered
  <2>4. QED
    BY <2>1, <2>2, <2>3 DEF Open, TypeOK, refresh
<1>3. RankSleepsTogether'
  BY DEF Open, TypeOK, RanksWhole, RankSleepsTogether, Closed, Asleep
<1>4. OpenRowKnown'
  BY <1>1 DEF Open, TypeOK, RanksWhole, OpenRowKnown, Closed
<1>5. CasAwake'
  BY DEF Open, CasAwake
<1>6. QED
  BY <1>2, <1>3, <1>4, <1>5 DEF RanksWhole

\* A precharge closes banks that are awake.
LEMMA CloseKeeps ==
  ASSUME IInv, NEW banks \in SUBSET Bank, \A b \in banks : state[b] \notin Asleep,
         ~commanded, Close(banks)
  PROVE  IInv'
<1> USE DEF IInv
<1>1. TypeOK'
  <2>1. next' \in [Bank -> [Timers -> Nat]]
    BY DelayAllType, ClosingDelays, Times DEF Close, TypeOK
  <2>2. state' \in [Bank -> Powered \cup Asleep] /\ activeRow' \in [Bank -> Row \cup {NoRow}]
    BY DEF Close, TypeOK, Powered
  <2>3. QED
    BY <2>1, <2>2 DEF Close, TypeOK, refresh
<1>2. RankSleepsTogether'
  <2>1. \A b \in Bank : state'[b] = state[b] \/ (state[b] \notin Asleep /\ state'[b] \notin Asleep)
    BY DEF Close, Asleep
  <2>2. QED
    BY <2>1 DEF RanksWhole, RankSleepsTogether, Asleep
<1>3. OpenRowKnown'
  BY DEF Close, TypeOK, RanksWhole, OpenRowKnown
<1>4. CasAwake'
  BY DEF Close, CasAwake
<1>5. QED
  BY <1>1, <1>2, <1>3, <1>4 DEF RanksWhole

\* A rank that sleeps wakes up with the rows it had open.
LEMMA WakeKeeps ==
  ASSUME IInv, NEW r \in Rank, \A b \in BanksOf(r) : state[b] \in Asleep,
         ~commanded, Wake(r)
  PROVE  IInv'
<1> USE DEF IInv
<1>1. TypeOK'
  <2>1. next' \in [Bank -> [Timers -> Nat]]
    BY DelayAllType, WakingDelays, Times DEF Wake, TypeOK
  <2>2. state' \in [Bank -> Powered \cup Asleep] /\ activeRow' \in [Bank -> Row \cup {NoRow}]
    BY DEF Wake, TypeOK, Powered
  <2>3. QED
    BY <2>1, <2>2 DEF Wake, TypeOK, refresh
<1>2. RankSleepsTogether'
  <2>1. \A b \in BanksOf(r) : state'[b] \notin Asleep
    BY DEF Wake, Asleep, BanksOf
  <2>2. \A b \in Bank : b \notin BanksOf(r) => state'[b] = state[b]
    BY DEF Wake
  <2>3. \A b, c \in Bank : RankOf(b) = RankOf(c) => (b \in BanksOf(r) <=> c \in BanksOf(r))
    BY DEF BanksOf
  <2>4. QED
    BY <2>1, <2>2, <2>3 DEF RanksWhole, RankSleepsTogether, Asleep
<1>3. OpenRowKnown'
  BY DEF Wake, TypeOK, RanksWhole, OpenRowKnown, Asleep
<1>4. CasAwake'
  BY DEF Wake, CasAwake
<1>5. QED
  BY <1>1, <1>2, <1>3, <1>4 DEF RanksWhole

\* A rank falls asleep as a whole, in the slow mode only with all rows closed.
LEMMA SleepKeeps ==
  ASSUME IInv, NEW r \in Rank, NEW slow \in BOOLEAN, PowerDown(r, slow)
  PROVE  IInv'
<1> USE DEF IInv
<1>1. /\ \A b \in BanksOf(r) : state[b] \in Powered
      /\ slow => \A b \in BanksOf(r) : state[b] # "ROW_ACTIVE"
  BY DEF PowerDown, MaySleepSlow, MaySleepFast, Powered, Closed
<1>2. TypeOK'
  <2>1. next' \in [Bank -> [Timers -> Nat]]
    <3> DEFINE d == [refresh |-> T_PD_MIN]
    <3>1. \A t \in DOMAIN d : d[t] \in Int
      BY Times
    <3>2. next' = [b \in Bank |->
            IF b \in BanksOf(r)
            THEN [Delayed(next[b], d)
                    EXCEPT !["powerup"] = Later(T_PD_MIN, next[b]["powerdown"])]
            ELSE next[b]]
      BY DEF PowerDown
    <3> HIDE DEF d
    <3>3. \A b \in Bank : /\ Delayed(next[b], d) \in [Timers -> Nat]
                          /\ next[b] \in [Timers -> Nat]
      BY <3>1, DelayedType DEF TypeOK
    <3>4. \A b \in Bank : Later(T_PD_MIN, next[b]["powerdown"]) \in Nat
      <4>1. \A b \in Bank : next[b]["powerdown"] \in Nat
        BY <3>3 DEF Timers
      <4>2. \A x, y \in Nat : Later(x, y) \in Nat
        BY LaterNat
      <4>3. QED
        BY <4>1, <4>2, Times
    <3>5. QED
      BY <3>2, <3>3, <3>4
  <2>2. state' \in [Bank -> Powered \cup Asleep] /\ activeRow' \in [Bank -> Row \cup {NoRow}]
    BY DEF PowerDown, TypeOK, Asleep
  <2>3. QED
    BY <2>1, <2>2 DEF PowerDown, TypeOK, refresh
<1>3. RankSleepsTogether'
  <2>1. \A b \in BanksOf(r) : /\ state'[b] \in Asleep
                              /\ slow <=> state'[b] = "PRECHARGE_POWER_DOWN_SLOW"
    BY <1>1 DEF PowerDown, Asleep, BanksOf
  <2>2. \A b \in Bank : b \notin BanksOf(r) => state'[b] = state[b]
    BY DEF PowerDown
  <2>3. \A b, c \in Bank : RankOf(b) = RankOf(c) => (b \in BanksOf(r) <=> c \in BanksOf(r))
    BY DEF BanksOf
  <2>4. QED
    BY <2>1, <2>2, <2>3 DEF RanksWhole, RankSleepsTogether
<1>4. OpenRowKnown'
  BY <1>1 DEF PowerDown, TypeOK, RanksWhole, OpenRowKnown, Powered
<1>5. CasAwake'
  BY DEF PowerDown, CasAwake
<1>6. QED
  BY <1>2, <1>3, <1>4, <1>5 DEF RanksWhole

\* A refresh, awake or not, leaves all banks of the rank refreshing.
LEMMA RefreshKeeps ==
  ASSUME IInv, NEW r \in Rank, Refresh(r)
  PROVE  IInv'
<1> USE DEF IInv
<1>1. TypeOK'
  <2>1. BeforeRefresh(r) + T_RFC \in Int
    BY Times DEF BeforeRefresh
  <2>2. next' \in [Bank -> [Timers -> Nat]]
    BY <2>1, DelayAllType, ClosingDelays DEF Refresh, TypeOK
  <2>3. state' \in [Bank -> Powered \cup Asleep] /\ activeRow' \in [Bank -> Row \cup {NoRow}]
    BY DEF Refresh, TypeOK, Powered
  <2>4. issued' \in [Rank -> Nat]
    BY DEF Refresh, TypeOK
  <2>5. QED
    BY <2>2, <2>3, <2>4 DEF Refresh, TypeOK
<1>2. RankSleepsTogether'
  <2>1. \A b \in Bank : state'[b] = IF b \in BanksOf(r) THEN "REFRESHING" ELSE state[b]
    BY DEF Refresh
  <2>2. \A b, c \in Bank : RankOf(b) = RankOf(c) => (b \in BanksOf(r) <=> c \in BanksOf(r))
    BY DEF BanksOf
  <2>3. QED
    BY <2>1, <2>2 DEF RanksWhole, RankSleepsTogether, Asleep
<1>3. OpenRowKnown'
  BY DEF Refresh, TypeOK, RanksWhole, OpenRowKnown
<1>4. CasAwake'
  BY DEF Refresh, CasAwake
<1>5. QED
  BY <1>1, <1>2, <1>3, <1>4 DEF RanksWhole

\* The precharge that goes with a column command.
LEMMA AutoKeeps ==
  ASSUME IInv, NEW b \in Bank, AutoPrecharge(b)
  PROVE  IInv'
<1> USE DEF IInv
<1>1. state[b] \notin Asleep
  BY DEF AutoPrecharge, CasAwake
<1>2. TypeOK'
  <2>1. AutoStart(b) + T_RP \in Int
    <3>1. next[b]["pre"] \in Nat
      BY DEF TypeOK, Timers
    <3>2. WriteRecovery \in Nat
      BY Times DEF WriteRecovery
    <3>3. QED
      BY <3>1, <3>2, Times DEF AutoStart, Later
  <2>2. next' \in [Bank -> [Timers -> Nat]]
    BY <2>1, DelayAllType, ClosingDelays DEF AutoPrecharge, TypeOK
  <2>3. state' \in [Bank -> Powered \cup Asleep] /\ activeRow' \in [Bank -> Row \cup {NoRow}]
    BY DEF AutoPrecharge, TypeOK, Powered
  <2>4. QED
    BY <2>2, <2>3 DEF AutoPrecharge, TypeOK, refresh
<1>3. RankSleepsTogether'
  <2>1. \A c \in Bank : state'[c] = state[c] \/ (state[c] \notin Asleep /\ state'[c] \notin Asleep)
    BY <1>1 DEF AutoPrecharge, Asleep, TypeOK
  <2>2. QED
    BY <2>1 DEF RanksWhole, RankSleepsTogether, Asleep
<1>4. OpenRowKnown'
  BY DEF AutoPrecharge, TypeOK, RanksWhole, OpenRowKnown
<1>5. CasAwake'
  BY DEF AutoPrecharge, CasAwake
<1>6. QED
  BY <1>2, <1>3, <1>4, <1>5 DEF RanksWhole

\* A column command, whatever delays it gives to the other banks.
LEMMA ColumnKeeps ==
  ASSUME IInv, NEW b \in Bank, state[b] \notin Asleep, NEW t \in Nat, NEW bus,
         \A c \in Bank : \A x \in DOMAIN bus[c] : bus[c][x] \in Int,
         NEW start \in Int, NEW kind \in {"read", "write"},
         ~commanded, Column(b, t, bus, start, kind)
  PROVE  IInv'
<1> USE DEF IInv
<1>1. TypeOK'
  <2>1. next' \in [Bank -> [Timers -> Nat]]
    <3> DEFINE own(c) == [pre       |-> IF c = b THEN t ELSE 0,
                          refresh   |-> IF c = b THEN t ELSE 0,
                          powerdown |-> IF c = b THEN t ELSE 0]
    <3>1. \A c \in Bank : \A x \in DOMAIN own(c) : own(c)[x] \in Int
      OBVIOUS
    <3>2. next' = [c \in Bank |-> Delayed(Delayed(next[c], bus[c]), own(c))]
      BY DEF Column
    <3> HIDE DEF own
    <3>3. \A c \in Bank : Delayed(next[c], bus[c]) \in [Timers -> Nat]
      BY DelayedType DEF TypeOK
    <3>4. \A c \in Bank : Delayed(Delayed(next[c], bus[c]), own(c)) \in [Timers -> Nat]
      BY <3>1, <3>3, DelayedType
    <3>5. QED
      BY <3>2, <3>4
  <2>2. cas' \in [Bank -> Kind \cup {"none"}]
    BY DEF Column, TypeOK, Kind
  <2>3. bursts' \subseteq [rank : Rank, from : Int, to : Int, kind : Kind]
    BY BankRank, Times DEF Column, TypeOK, Burst, Kind
  <2>4. QED
    BY <2>1, <2>2, <2>3 DEF Column, TypeOK, refresh
<1>2. RanksWhole'
  BY DEF Column, RanksWhole, RankSleepsTogether, OpenRowKnown
<1>3. CasAwake'
  BY DEF Column, CasAwake, TypeOK
<1>4. QED
  BY <1>1, <1>2, <1>3

-----------------------------------------------------------------------------
(* The steps.                                                              *)

\* The command of a request is for a bank in the state that calls for it.
LEMMA RequestKeeps ==
  ASSUME IInv, NEW q \in Request, IssueRequest(q)
  PROVE  IInv'
<1> DEFINE b == q.bank
<1>1. b \in Bank /\ q.row \in Row
  BY DEF Request
<1>2. ~commanded
  BY DEF IssueRequest
<1>3. CASE IssueActivate(q)
  <2>1. state[b] \in Closed
    BY <1>3 DEF IssueActivate, NextCommand
  <2>2. QED
    BY <1>1, <1>2, <1>3, <2>1, OpenKeeps DEF IssueActivate
<1>4. CASE IssuePrecharge(q)
  <2>1. state[b] \notin Asleep
    BY <1>4 DEF IssuePrecharge, NextCommand, Closed, Asleep
  <2>2. QED
    BY <1>1, <1>2, <1>4, <2>1, CloseKeeps DEF IssuePrecharge
<1>5. CASE IssuePowerUp(q)
  <2>1. state[b] \in Asleep
    BY <1>5 DEF IssuePowerUp, NextCommand, Closed
  <2>2. \A c \in BanksOf(RankOf(b)) : state[c] \in Asleep
    BY <1>1, <2>1, BankRank DEF IInv, RanksWhole, RankSleepsTogether, BanksOf
  <2>3. QED
    BY <1>1, <1>2, <1>5, <2>2, BankRank, WakeKeeps DEF IssuePowerUp
<1>6. CASE IssueRead(q)
  <2>1. state[b] \notin Asleep
    BY <1>6 DEF IssueRead, NextCommand, Closed, Asleep
  <2>2. \A c \in Bank : \A x \in DOMAIN AfterRead(b)[c] : AfterRead(b)[c][x] \in Int
    BY Times DEF AfterRead, ReadToRead, ReadToWrite, Later
  <2>3. Column(b, T_RTP, AfterRead(b), T_CAS, "read")
    BY <1>6 DEF IssueRead
  <2>4. T_RTP \in Nat /\ T_CAS \in Int /\ "read" \in {"read", "write"}
    BY Times
  <2> HIDE DEF b
  <2>5. QED
    BY <1>1, <1>2, <2>1, <2>2, <2>3, <2>4, ColumnKeeps
<1>7. CASE IssueWrite(q)
  <2>1. state[b] \notin Asleep
    BY <1>7 DEF IssueWrite, NextCommand, Closed, Asleep
  <2>2. \A c \in Bank : \A x \in DOMAIN AfterWrite(b)[c] : AfterWrite(b)[c][x] \in Int
    BY Times DEF AfterWrite, WriteToRead, WriteToWrite, ReadToRead, Later
  <2>3. WriteRecovery \in Nat
    BY Times DEF WriteRecovery
  <2>4. Column(b, WriteRecovery, AfterWrite(b), T_CWD, "write")
    BY <1>7 DEF IssueWrite
  <2>5. T_CWD \in Int /\ "write" \in {"read", "write"}
    BY Times
  <2> HIDE DEF b
  <2>6. QED
    BY <1>1, <1>2, <2>1, <2>2, <2>3, <2>4, <2>5, ColumnKeeps
<1>8. QED
  BY <1>3, <1>4, <1>5, <1>6, <1>7 DEF IssueRequest

\* A cycle passes; a forced refresh takes all banks of its rank.
LEMMA TickKeeps ==
  ASSUME IInv, Tick
  PROVE  IInv'
<1> USE DEF IInv
<1>1. window \in Nat /\ window >= 1 /\ window - 1 \in Nat
  BY Windows DEF TypeOK
<1>2. next' \in [Bank -> [Timers -> Nat]]
  <2>1. \A b \in Bank : [x \in Timers |-> Down(next[b][x])] \in [Timers -> Nat]
    BY DEF TypeOK, Down, Later
  <2>2. \A b \in Bank : Ticked(b) \in [Timers -> Nat]
    BY <1>1, <2>1 DEF Ticked
  <2>3. QED
    BY <2>2 DEF Tick
<1>3. activates' \in [Rank -> SUBSET (0..T_FAW)]
  <2>1. \A r \in Rank : {a + 1 : a \in {x \in activates[r] : x < T_FAW}} \subseteq 0..T_FAW
    BY Times DEF TypeOK
  <2>2. QED
    BY <2>1 DEF Tick
<1>4. window' \in 1..WindowLength
  <2>1. window' = IF window = 1 THEN WindowLength ELSE window - 1
    BY DEF Tick, WindowEnds
  <2>2. window \in 1..WindowLength
    BY DEF TypeOK
  <2>3. \A l \in Nat \ {0} : \A w \in 1..l : w # 1 => w - 1 \in 1..l
    OBVIOUS
  <2>4. WindowLength \in 1..WindowLength
    BY Windows
  <2>5. QED
    BY <2>1, <2>2, <2>3, <2>4, Windows
<1>5. deadline' \in [Rank -> Int]
  <2>1. \A n \in Nat, l \in Int : LastMoment(l, n) \in Int
    BY Times DEF LastMoment
  <2>2. \A r \in Rank : NextDeadline(r) \in Int
    BY <2>1, <1>1, Windows DEF NextDeadline, TypeOK, Later
  <2>3. QED
    BY <2>2 DEF Tick
<1>6. state' \in [Bank -> Powered \cup Asleep] /\ activeRow' \in [Bank -> Row \cup {NoRow}]
  BY DEF Tick, TypeOK, Powered
<1>7. bursts' \subseteq [rank : Rank, from : Int, to : Int, kind : Kind]
  <2>1. \A x \in bursts : x \in [rank : Rank, from : Int, to : Int, kind : Kind]
    BY DEF TypeOK
  <2>2. \A x \in bursts : Burst(x.rank, x.from - 1, x.kind) \in [rank : Rank, from : Int, to : Int, kind : Kind]
    BY <2>1, Times DEF Burst
  <2>3. \A y \in bursts' : \E x \in bursts : y = Burst(x.rank, x.from - 1, x.kind)
    BY DEF Tick
  <2>4. QED
    BY <2>2, <2>3
<1>8. TypeOK'
  BY <1>2, <1>3, <1>4, <1>5, <1>6, <1>7 DEF Tick, TypeOK
<1>9. RankSleepsTogether'
  <2>1. \A b \in Bank :
          state'[b] = IF MustRefresh(RankOf(b)) THEN "REFRESHING" ELSE state[b]
    BY DEF Tick
  <2>2. QED
    BY <2>1 DEF RanksWhole, RankSleepsTogether, Asleep
<1>10. OpenRowKnown'
  BY DEF Tick, TypeOK, RanksWhole, OpenRowKnown
<1>11. CasAwake'
  BY DEF Tick, CasAwake
<1>12. QED
  BY <1>8, <1>9, <1>10, <1>11 DEF RanksWhole

-----------------------------------------------------------------------------
(* The theorems.                                                           *)

\* All banks start idle, with no row open.
LEMMA InitHolds == Init => IInv
<1> SUFFICES ASSUME Init PROVE IInv
  OBVIOUS
<1>1. LastMoment(WindowLength, 0) \in Int
  BY Times, Windows DEF LastMoment
<1>2. TypeOK
  <2>1. /\ state \in [Bank -> Powered \cup Asleep]
        /\ activeRow \in [Bank -> Row \cup {NoRow}]
        /\ cas \in [Bank -> Kind \cup {"none"}]
    BY DEF Init, Powered
  <2>2. next \in [Bank -> [Timers -> Nat]] /\ activates \in [Rank -> SUBSET (0..T_FAW)]
    BY DEF Init
  <2>3. window \in 1..WindowLength
    BY Windows DEF Init
  <2>4. /\ deadline \in [Rank -> Int]
        /\ issued \in [Rank -> Nat]
        /\ forced \in [Rank -> BOOLEAN]
    BY <1>1 DEF Init
  <2>5. commanded \in BOOLEAN /\ bursts \subseteq [rank : Rank, from : Int, to : Int, kind : Kind]
    BY DEF Init
  <2>6. QED
    BY <2>1, <2>2, <2>3, <2>4, <2>5 DEF TypeOK
<1>3. RanksWhole /\ CasAwake
  BY DEF Init, RanksWhole, RankSleepsTogether, OpenRowKnown, CasAwake, Asleep, NoRow
<1>4. QED
  BY <1>2, <1>3 DEF IInv

\* Every step keeps the invariant.
LEMMA NextKeeps == IInv /\ [Next]_vars => IInv'
<1> SUFFICES ASSUME IInv, [Next]_vars PROVE IInv'
  OBVIOUS
<1>1. CASE Tick
  BY <1>1, TickKeeps
<1>2. ASSUME NEW q \in Request, IssueRequest(q) PROVE IInv'
  BY <1>2, RequestKeeps
<1>3. ASSUME NEW b \in Bank, Precharge(b) PROVE IInv'
  <2>1. state[b] \notin Asleep
    BY <1>3 DEF Precharge, MayPrecharge, Powered, Asleep
  <2>2. QED
    BY <1>3, <2>1, CloseKeeps DEF Precharge
<1>4. ASSUME NEW b \in Bank, AutoPrecharge(b) PROVE IInv'
  BY <1>4, AutoKeeps
<1>5. ASSUME NEW b \in Bank, NEW row \in Row, Activate(b, row) PROVE IInv'
  BY <1>5, OpenKeeps DEF Activate, MayActivate
<1>6. ASSUME NEW r \in Rank, PrechargeAll(r) PROVE IInv'
  <2>1. BanksOf(r) \in SUBSET Bank
    BY DEF BanksOf
  <2>2. \A b \in BanksOf(r) : state[b] \notin Asleep
    BY <1>6 DEF PrechargeAll, MayPrechargeAll, MayPrecharge, Powered, Asleep
  <2>3. QED
    BY <1>6, <2>1, <2>2, CloseKeeps DEF PrechargeAll
<1>7. ASSUME NEW r \in Rank, PowerUp(r) PROVE IInv'
  <2>1. state[FirstOf(r)] \in Asleep
    BY <1>7 DEF PowerUp, MayWake
  <2>2. \A b \in BanksOf(r) : state[b] \in Asleep
    BY <2>1, FirstBank DEF IInv, RanksWhole, RankSleepsTogether, BanksOf
  <2>3. QED
    BY <1>7, <2>2, WakeKeeps DEF PowerUp
<1>8. ASSUME NEW r \in Rank, Refresh(r) PROVE IInv'
  BY <1>8, RefreshKeeps
<1>9. ASSUME NEW r \in Rank, NEW slow \in BOOLEAN, PowerDown(r, slow) PROVE IInv'
  BY <1>9, SleepKeeps
<1>10. CASE UNCHANGED vars
  <2>1. TypeOK'
    BY <1>10 DEF vars, timing, refresh, IInv, TypeOK
  <2>2. RanksWhole' /\ CasAwake'
    BY <1>10 DEF vars, IInv, RanksWhole, RankSleepsTogether, OpenRowKnown, CasAwake
  <2>3. QED
    BY <2>1, <2>2 DEF IInv
<1>11. QED
  BY <1>1, <1>2, <1>3, <1>4, <1>5, <1>6, <1>7, <1>8, <1>9, <1>10 DEF Next, Command

\* The states and timers of the banks stay within their ranges, whatever the
\* scheduler issues and whatever the timing (memory_controller.c:issue_*).
THEOREM TypeCorrect == Spec => []TypeOK
<1>1. IInv => TypeOK
  BY DEF IInv
<1>2. QED
  BY InitHolds, NextKeeps, <1>1, PTL DEF Spec

\* The banks of a rank sleep and wake together and a row is recorded exactly
\* for the banks that have one open: is_powerup_allowed may look at bank 0
\* alone, and issue_powerup_command may take a bank it finds in neither of the
\* precharged sleeping states for one with an open row.
THEOREM RanksAreWhole == Spec => []RanksWhole
<1>1. IInv => RanksWhole
  BY DEF IInv
<1>2. QED
  BY InitHolds, NextKeeps, <1>1, PTL DEF Spec

-----------------------------------------------------------------------------
(* Every window gets its refreshes.                                        *)

\* What a rank still owes can be paid: it is being refreshed by force, has
\* issued its refreshes, or has at most until their last moment, still to come.
Payable(r) ==
  \/ forced[r]
  \/ issued[r] >= Batch
  \/ 1 <= deadline[r] /\ deadline[r] <= LastMoment(window, issued[r])

RInv == TypeOK /\ \A r \in Rank : Payable(r)

\* The last moment comes one cycle nearer with each cycle, moves away with
\* each refresh, and lies before the end of the window while some are due.
LEMMA LastMoments ==
  ASSUME NEW l \in Int, NEW n \in Nat
  PROVE  /\ LastMoment(l, n) \in Int
         /\ LastMoment(l - 1, n) = LastMoment(l, n) - 1
         /\ LastMoment(l, n) <= LastMoment(l, n + 1)
         /\ n < Batch => LastMoment(l, n) < l
<1> DEFINE due == (Batch - n) * T_RFC
<1>1. due \in Int /\ T_RFC \in Nat /\ T_RP \in Nat \ {0}
  BY Times, TimingAssumption
<1>2. (Batch - (n + 1)) * T_RFC = due - T_RFC
  BY Times
<1>3. n < Batch => due >= 0
  <2>1. \A x, y \in Nat : x * y \in Nat
    OBVIOUS
  <2>2. n < Batch => Batch - n \in Nat
    BY Times
  <2>3. QED
    BY <2>1, <2>2, <1>1
<1>4. /\ LastMoment(l, n) = l - T_RP - due
      /\ LastMoment(l - 1, n) = l - 1 - T_RP - due
      /\ LastMoment(l, n + 1) = l - T_RP - (due - T_RFC)
  BY <1>2 DEF LastMoment
<1> HIDE DEF due
<1>5. QED
  BY <1>1, <1>3, <1>4

\* A refresh must be begun before the window is over.
LEMMA PaidAtEnd ==
  ASSUME RInv, NEW r \in Rank, WindowEnds
  PROVE  issued[r] >= Batch \/ forced[r]
<1>1. CASE issued[r] < Batch /\ 1 <= deadline[r] /\ deadline[r] <= LastMoment(1, issued[r])
  <2>1. issued[r] \in Nat /\ deadline[r] \in Int
    BY DEF RInv, TypeOK
  <2>2. LastMoment(1, issued[r]) < 1 /\ LastMoment(1, issued[r]) \in Int
    <3> DEFINE n == issued[r]
    <3>1. n \in Nat /\ n < Batch /\ 1 \in Int
      BY <1>1, <2>1
    <3> HIDE DEF n
    <3>2. LastMoment(1, n) < 1 /\ LastMoment(1, n) \in Int
      BY <3>1, LastMoments
    <3>3. QED
      BY <3>2 DEF n
  <2>3. QED
    BY <1>1, <2>1, <2>2
<1>2. QED
  BY <1>1, Times DEF RInv, Payable, TypeOK, WindowEnds

\* Only a cycle or a refresh changes what a window owes.
LEMMA RefreshOrNot ==
  [Next]_vars => Tick \/ (\E x \in Rank : Refresh(x)) \/ UNCHANGED refresh
<1>1. ASSUME NEW q \in Request, IssueRequest(q) PROVE UNCHANGED refresh
  BY <1>1 DEF IssueRequest, IssueActivate, IssuePrecharge, IssuePowerUp, IssueRead,
     IssueWrite, Open, Close, Wake, Column, refresh
<1>2. ASSUME NEW b \in Bank, Precharge(b) \/ AutoPrecharge(b) PROVE UNCHANGED refresh
  BY <1>2 DEF Precharge, AutoPrecharge, Close, refresh
<1>3. ASSUME NEW b \in Bank, NEW row \in Row, Activate(b, row) PROVE UNCHANGED refresh
  BY <1>3 DEF Activate, Open, refresh
<1>4. ASSUME NEW x \in Rank, PrechargeAll(x) \/ PowerUp(x) PROVE UNCHANGED refresh
  BY <1>4 DEF PrechargeAll, PowerUp, Close, Wake, refresh
<1>5. ASSUME NEW x \in Rank, NEW slow \in BOOLEAN, PowerDown(x, slow)
      PROVE  UNCHANGED refresh
  BY <1>5 DEF PowerDown, refresh
<1>6. UNCHANGED vars => UNCHANGED refresh
  BY DEF vars, refresh
<1>7. QED
  BY <1>1, <1>2, <1>3, <1>4, <1>5, <1>6 DEF Next, Command

\* The debt of a rank stays payable.
LEMMA StaysPayable == IInv /\ RInv /\ [Next]_vars => (\A r \in Rank : Payable(r))'
<1> SUFFICES ASSUME IInv, RInv, [Next]_vars, NEW r \in Rank
             PROVE  Payable(r)'
  BY DEF Payable
<1>1. /\ issued[r] \in Nat /\ deadline[r] \in Int /\ window \in Int
      /\ issued \in [Rank -> Nat]
  BY DEF RInv, TypeOK
<1>2. Payable(r)
  BY DEF RInv
<1>3. CASE Tick
  <2>1. /\ issued'[r] = IF WindowEnds THEN 0 ELSE issued[r]
        /\ window' = IF WindowEnds THEN WindowLength ELSE window - 1
        /\ deadline'[r] = NextDeadline(r)
        /\ forced'[r] = (~WindowEnds /\ (forced[r] \/ MustRefresh(r)))
    BY <1>3 DEF Tick
  <2>2. CASE WindowEnds
    <3>1. LastMoment(WindowLength, 0) \in Int /\ 1 <= LastMoment(WindowLength, 0)
      <4>1. Batch * T_REFI \in Int /\ Batch * T_RFC \in Int
        BY Times
      <4>2. LastMoment(WindowLength, 0) = Batch * T_REFI - T_RP - Batch * T_RFC
        BY Times DEF LastMoment, WindowLength
      <4>3. QED
        BY <4>1, <4>2, Times, TimingAssumption
    <3>2. QED
      BY <2>1, <2>2, <3>1 DEF Payable, NextDeadline
  <2>3. CASE ~WindowEnds /\ (forced[r] \/ issued[r] >= Batch)
    BY <2>1, <2>3 DEF Payable
  <2>4. CASE ~WindowEnds /\ ~forced[r] /\ issued[r] < Batch
    <3>1. 1 <= deadline[r] /\ deadline[r] <= LastMoment(window, issued[r])
      BY <1>1, <1>2, <2>4, Times DEF Payable
    <3>2. CASE deadline[r] = 1
      BY <2>1, <2>4, <3>2 DEF Payable, MustRefresh
    <3>3. CASE deadline[r] > 1
      <4>1. deadline'[r] = LastMoment(window - 1, issued[r])
        BY <2>1, <2>4, <3>3 DEF NextDeadline
      <4>2. /\ LastMoment(window - 1, issued[r]) = LastMoment(window, issued[r]) - 1
            /\ LastMoment(window, issued[r]) \in Int
        BY <1>1, LastMoments
      <4>3. 1 <= LastMoment(window - 1, issued[r])
        BY <1>1, <3>1, <3>3, <4>2
      <4>4. issued'[r] = issued[r] /\ window' = window - 1
        BY <2>1, <2>4
      <4>5. LastMoment(window', issued'[r]) = LastMoment(window - 1, issued[r])
        BY <4>4
      <4>6. QED
        BY <4>1, <4>2, <4>3, <4>5 DEF Payable
    <3>4. QED
      BY <1>1, <3>1, <3>2, <3>3
  <2>5. QED
    BY <1>1, <2>2, <2>3, <2>4, Times
<1>4. ASSUME NEW x \in Rank, Refresh(x) PROVE Payable(r)'
  <2>1. /\ deadline' = deadline /\ window' = window /\ forced' = forced
        /\ issued'[r] = issued[r] \/ issued'[r] = issued[r] + 1
    BY <1>1, <1>4 DEF Refresh
  <2>2. /\ LastMoment(window, issued[r]) <= LastMoment(window, issued[r] + 1)
        /\ LastMoment(window, issued[r]) \in Int
        /\ LastMoment(window, issued[r] + 1) \in Int
    <3> DEFINE n == issued[r]
    <3>1. n \in Nat /\ n + 1 \in Nat
      BY <1>1
    <3> HIDE DEF n
    <3>2. LastMoment(window, n) <= LastMoment(window, n + 1) /\ LastMoment(window, n) \in Int
      BY <1>1, <3>1, LastMoments
    <3>3. LastMoment(window, n + 1) \in Int
      BY <1>1, <3>1, LastMoments
    <3>4. QED
      BY <3>2, <3>3 DEF n
  <2>3. \/ LastMoment(window', issued'[r]) = LastMoment(window, issued[r])
        \/ LastMoment(window', issued'[r]) = LastMoment(window, issued[r] + 1)
    BY <2>1
  <2>4. 1 <= deadline[r] /\ deadline[r] <= LastMoment(window, issued[r])
          => 1 <= deadline'[r] /\ deadline'[r] <= LastMoment(window', issued'[r])
    BY <1>1, <2>1, <2>2, <2>3
  <2>5. issued[r] >= Batch => issued'[r] >= Batch
    BY <1>1, <2>1, Times
  <2>6. QED
    BY <1>2, <2>1, <2>4, <2>5 DEF Payable
<1>5. CASE UNCHANGED refresh
  BY <1>2, <1>5 DEF Payable, refresh
<1>6. QED
  BY <1>3, <1>4, <1>5, RefreshOrNot

\* At the start all refreshes of the window are still to come.
LEMMA InitPayable == Init => RInv
<1> SUFFICES ASSUME Init PROVE RInv
  OBVIOUS
<1>1. TypeOK
  BY InitHolds DEF IInv
<1>2. LastMoment(WindowLength, 0) \in Int /\ 1 <= LastMoment(WindowLength, 0)
  <2>1. Batch * T_REFI \in Int /\ Batch * T_RFC \in Int
    BY Times
  <2>2. LastMoment(WindowLength, 0) = Batch * T_REFI - T_RP - Batch * T_RFC
    BY Times DEF LastMoment, WindowLength
  <2>3. QED
    BY <2>1, <2>2, Times, TimingAssumption
<1>3. \A r \in Rank : /\ deadline[r] = LastMoment(WindowLength, 0)
                      /\ issued[r] = 0 /\ window = WindowLength
  BY DEF Init
<1>4. QED
  BY <1>1, <1>2, <1>3 DEF RInv, Payable

\* No window of 8 * T_REFI ends with a rank short of its refreshes and not
\* forced into them, for any timing in which they fit into a window: neither
\* the refreshes a scheduler issues late nor the deadline, which is set anew
\* only once a cycle, let one pass (update_memory).
THEOREM EveryWindowRefreshed == Spec => WindowRefreshed
<1>1. IInv /\ RInv /\ [Next]_vars => (IInv /\ RInv)'
  BY NextKeeps, StaysPayable DEF IInv, RInv
<1>2. RInv /\ IInv /\ [Next]_vars
        => [window' > window => \A r \in Rank : issued[r] >= Batch \/ forced[r]]_vars
  <2> SUFFICES ASSUME RInv, IInv, [Next]_vars, window' > window, NEW r \in Rank
               PROVE  issued[r] >= Batch \/ forced[r]
    OBVIOUS
  <2>1. window \in Int
    BY DEF RInv, TypeOK
  <2>2. CASE Tick
    BY <2>1, <2>2, PaidAtEnd DEF Tick
  <2>3. CASE ~Tick
    <3>1. window' = window
      <4>1. Command => window' = window
        BY DEF Command, IssueRequest, IssueActivate, IssuePrecharge, IssuePowerUp,
           IssueRead, IssueWrite, Open, Close, Wake, Column, refresh, Precharge,
           AutoPrecharge, Activate, PrechargeAll, PowerUp, Refresh, PowerDown
      <4>2. QED
        BY <2>3, <4>1 DEF Next, vars, refresh
    <3>2. QED
      BY <2>1, <3>1
  <2>4. QED
    BY <2>2, <2>3
<1>3. QED
  BY InitHolds, InitPayable, <1>1, <1>2, PTL DEF Spec, WindowRefreshed

-----------------------------------------------------------------------------
(* The data bus.                                                           *)

\* When the bus is free again for bank c after the burst x.
FreeFor(x, c) == x.to + (IF x.rank = RankOf(c) THEN 0 ELSE T_RTRS)

\* The bus is held for T_DATA_TRANS cycles, and no bank may read or write so
\* early that its own use of it begins before it is free.
Waited(x, c) ==
  /\ FreeFor(x, c) <= next[c]["read"] + T_CAS
  /\ FreeFor(x, c) <= next[c]["write"] + T_CWD
BInv ==
  /\ \A x \in bursts : x.to = x.from + T_DATA_TRANS
  /\ \A x \in bursts, c \in Bank : Waited(x, c)
  /\ BusNotShared

\* The reads and writes of a bank are not let in earlier than before.
NotEarlier(c) ==
  /\ next[c]["read"] <= next'[c]["read"]
  /\ next[c]["write"] <= next'[c]["write"]

\* A delay only ever puts a timer off, and at least to its own time.
LEMMA DelayedLater ==
  ASSUME NEW n \in [Timers -> Nat], NEW d, \A t \in DOMAIN d : d[t] \in Int,
         NEW t \in Timers
  PROVE  /\ n[t] <= Delayed(n, d)[t]
         /\ t \in DOMAIN d => d[t] <= Delayed(n, d)[t]
<1>1. n[t] \in Nat
  OBVIOUS
<1>2. Delayed(n, d)[t] = IF t \in DOMAIN d THEN Later(n[t], d[t]) ELSE n[t]
  BY DEF Delayed
<1>3. QED
  BY <1>1, <1>2 DEF Later

\* So do the delays of a set of banks
LEMMA DelayAllLater ==
  ASSUME IInv, NEW banks, NEW d, \A t \in DOMAIN d : d[t] \in Int,
         next' = DelayAll(banks, d)
  PROVE  \A c \in Bank : NotEarlier(c)
<1> TAKE c \in Bank
<1>1. next[c] \in [Timers -> Nat] /\ "read" \in Timers /\ "write" \in Timers
  BY DEF IInv, TypeOK, Timers
<1>2. next'[c] = IF c \in banks THEN Delayed(next[c], d) ELSE next[c]
  BY DEF DelayAll
<1>3. /\ next[c]["read"] <= Delayed(next[c], d)["read"]
      /\ next[c]["write"] <= Delayed(next[c], d)["write"]
  BY <1>1, DelayedLater
<1>4. next[c]["read"] \in Nat /\ next[c]["write"] \in Nat
  BY <1>1
<1>5. QED
  BY <1>2, <1>3, <1>4 DEF NotEarlier

\* and those of an activate.
LEMMA OpenLater ==
  ASSUME IInv, NEW b \in Bank, NEW row \in Row, Open(b, row)
  PROVE  \A c \in Bank : NotEarlier(c)
<1> TAKE c \in Bank
<1> DEFINE own == [pre |-> T_RAS, refresh |-> T_RAS, read |-> T_RCD,
                   write |-> T_RCD, act |-> T_RC, powerdown |-> T_RCD]
           others == [act |-> T_RRD]
<1>1. next[c] \in [Timers -> Nat] /\ "read" \in Timers /\ "write" \in Timers
  BY DEF IInv, TypeOK, Timers
<1>2. /\ \A t \in DOMAIN own : own[t] \in Int
      /\ \A t \in DOMAIN others : others[t] \in Int
  BY Times
<1>3. next'[c] \in {Delayed(next[c], own), Delayed(next[c], others), next[c]}
  BY DEF Open
<1> HIDE DEF own, others
<1>4. /\ next[c]["read"] <= Delayed(next[c], own)["read"]
      /\ next[c]["write"] <= Delayed(next[c], own)["write"]
  BY <1>1, <1>2, DelayedLater
<1>5. /\ next[c]["read"] <= Delayed(next[c], others)["read"]
      /\ next[c]["write"] <= Delayed(next[c], others)["write"]
  BY <1>1, <1>2, DelayedLater
<1>6. next[c]["read"] \in Nat /\ next[c]["write"] \in Nat
  BY <1>1
<1>7. QED
  BY <1>3, <1>4, <1>5, <1>6 DEF NotEarlier

\* A rank that falls asleep puts off its refreshes only.
LEMMA SleepLater ==
  ASSUME IInv, NEW r \in Rank, NEW slow \in BOOLEAN, PowerDown(r, slow)
  PROVE  \A c \in Bank : NotEarlier(c)
<1> TAKE c \in Bank
<1> DEFINE d == [refresh |-> T_PD_MIN]
<1>1. next[c] \in [Timers -> Nat] /\ "read" \in Timers /\ "write" \in Timers
  BY DEF IInv, TypeOK, Timers
<1>2. \A t \in DOMAIN d : d[t] \in Int
  BY Times
<1>3. \/ next'[c] = [Delayed(next[c], d) EXCEPT !["powerup"] =
                       Later(T_PD_MIN, next[c]["powerdown"])]
      \/ next'[c] = next[c]
  BY DEF PowerDown
<1> HIDE DEF d
<1>4. Delayed(next[c], d) \in [Timers -> Nat]
  BY <1>1, <1>2, DelayedType
<1>5. \/ /\ next'[c]["read"] = Delayed(next[c], d)["read"]
         /\ next'[c]["write"] = Delayed(next[c], d)["write"]
      \/ next'[c] = next[c]
  BY <1>1, <1>3, <1>4
<1>6. /\ next[c]["read"] <= Delayed(next[c], d)["read"]
      /\ next[c]["write"] <= Delayed(next[c], d)["write"]
  BY <1>1, <1>2, DelayedLater
<1>7. next[c]["read"] \in Nat /\ next[c]["write"] \in Nat
  BY <1>1
<1>8. QED
  BY <1>5, <1>6, <1>7 DEF NotEarlier

\* A column command, too, puts timers off only, and the reads and writes of
\* each bank at least by the delays it gives to that bank.
LEMMA ColumnLater ==
  ASSUME IInv, NEW b \in Bank, NEW t \in Nat, NEW bus,
         \A c \in Bank : bus[c] \in [{"read", "write"} -> Int],
         NEW start, NEW kind, Column(b, t, bus, start, kind), NEW c \in Bank
  PROVE  /\ NotEarlier(c)
         /\ bus[c]["read"] <= next'[c]["read"]
         /\ bus[c]["write"] <= next'[c]["write"]
         /\ next'[c]["read"] \in Nat /\ next'[c]["write"] \in Nat
<1> DEFINE own == [pre       |-> IF c = b THEN t ELSE 0,
                   refresh   |-> IF c = b THEN t ELSE 0,
                   powerdown |-> IF c = b THEN t ELSE 0]
           first == Delayed(next[c], bus[c])
<1>1. next[c] \in [Timers -> Nat] /\ "read" \in Timers /\ "write" \in Timers
  BY DEF IInv, TypeOK, Timers
<1>2. \A x \in DOMAIN bus[c] : bus[c][x] \in Int
  OBVIOUS
<1>3. \A x \in DOMAIN own : own[x] \in Int
  OBVIOUS
<1>4. next'[c] = Delayed(first, own)
  BY DEF Column
<1>5. first \in [Timers -> Nat]
  BY <1>1, <1>2, DelayedType
<1>6. /\ next[c]["read"] <= first["read"] /\ bus[c]["read"] <= first["read"]
      /\ next[c]["write"] <= first["write"] /\ bus[c]["write"] <= first["write"]
  BY <1>1, <1>2, DelayedLater
<1> HIDE DEF own, first
<1>7. first["read"] <= next'[c]["read"] /\ first["write"] <= next'[c]["write"]
  BY <1>1, <1>3, <1>4, <1>5, DelayedLater
<1>8. next'[c] \in [Timers -> Nat]
  BY <1>3, <1>4, <1>5, DelayedType
<1>9. /\ next[c]["read"] \in Nat /\ next[c]["write"] \in Nat
      /\ first["read"] \in Nat /\ first["write"] \in Nat
      /\ next'[c]["read"] \in Nat /\ next'[c]["write"] \in Nat
      /\ bus[c]["read"] \in Int /\ bus[c]["write"] \in Int
  BY <1>1, <1>5, <1>8
<1>10. QED
  BY <1>6, <1>7, <1>9 DEF NotEarlier

\* Nothing changes for the bus when it is not used and nothing is let in
\* earlier.
LEMMA BusKept ==
  ASSUME IInv, IInv', BInv, bursts' = bursts, \A c \in Bank : NotEarlier(c)
  PROVE  BInv'
<1>1. BusNotShared' /\ \A x \in bursts' : x.to = x.from + T_DATA_TRANS
  BY DEF BInv, BusNotShared, Apart
<1>2. ASSUME NEW x \in bursts', NEW c \in Bank PROVE Waited(x, c)'
  <2>1. x \in bursts /\ Waited(x, c)
    BY <1>2 DEF BInv
  <2>2. FreeFor(x, c) \in Int
    BY <2>1, Times DEF IInv, TypeOK, FreeFor
  <2>3. /\ next[c]["read"] \in Nat /\ next'[c]["read"] \in Nat
        /\ next[c]["write"] \in Nat /\ next'[c]["write"] \in Nat
    BY DEF IInv, TypeOK, Timers
  <2>4. QED
    BY <2>1, <2>2, <2>3, Times DEF Waited, NotEarlier, FreeFor
<1>3. QED
  BY <1>1, <1>2 DEF BInv

\* A column command uses the bus once all uses before it are over.
LEMMA BusUsed ==
  ASSUME IInv, IInv', BInv, NEW b \in Bank, NEW t \in Nat, NEW bus,
         NEW start \in Nat, NEW kind, Column(b, t, bus, start, kind),
         \A c \in Bank : bus[c] \in [{"read", "write"} -> Int],
         \A x \in bursts : FreeFor(x, b) <= start,
         \A c \in Bank : /\ FreeFor(Burst(RankOf(b), start, kind), c) <= bus[c]["read"] + T_CAS
                         /\ FreeFor(Burst(RankOf(b), start, kind), c) <= bus[c]["write"] + T_CWD
  PROVE  BInv'
<1> DEFINE y == Burst(RankOf(b), start, kind)
<1>1. bursts' = bursts \cup {y}
  BY DEF Column
<1>2. y.rank = RankOf(b) /\ y.from = start /\ y.to = start + T_DATA_TRANS
  BY DEF Burst
<1>3. \A x \in bursts : Apart(x, y)
  BY <1>2 DEF Apart, FreeFor
<1> HIDE DEF y
<1>4. BusNotShared'
  BY <1>1, <1>3 DEF BInv, BusNotShared, Apart
<1>5. \A x \in bursts' : x.to = x.from + T_DATA_TRANS
  BY <1>1, <1>2 DEF BInv
<1>6. ASSUME NEW x \in bursts', NEW c \in Bank PROVE Waited(x, c)'
  <2>1. /\ NotEarlier(c)
        /\ bus[c]["read"] <= next'[c]["read"] /\ bus[c]["write"] <= next'[c]["write"]
        /\ next'[c]["read"] \in Nat /\ next'[c]["write"] \in Nat
        /\ bus[c]["read"] \in Int /\ bus[c]["write"] \in Int
    BY ColumnLater
  <2>2. next[c]["read"] \in Nat /\ next[c]["write"] \in Nat
    BY DEF IInv, TypeOK, Timers
  <2>3. FreeFor(x, c) \in Int
    BY <1>1, <1>2, Times DEF IInv, TypeOK, FreeFor
  <2>4. CASE x = y
    <3>1. /\ FreeFor(x, c) <= bus[c]["read"] + T_CAS
          /\ FreeFor(x, c) <= bus[c]["write"] + T_CWD
      BY <2>4 DEF y
    <3>2. QED
      BY <2>1, <2>3, <3>1, Times DEF Waited, FreeFor
  <2>5. CASE x \in bursts
    <3>1. Waited(x, c)
      BY <2>5 DEF BInv
    <3>2. QED
      BY <2>1, <2>2, <2>3, <3>1, Times DEF Waited, NotEarlier, FreeFor
  <2>6. QED
    BY <1>1, <2>4, <2>5
<1>7. QED
  BY <1>4, <1>5, <1>6 DEF BInv

\* With each cycle the uses of the bus and the times left to wait come nearer
\* alike.
LEMMA BusTicks ==
  ASSUME IInv, IInv', BInv, Tick
  PROVE  BInv'
<1>1. \A y \in bursts' : \E x \in bursts : y = Burst(x.rank, x.from - 1, x.kind)
  BY DEF Tick
<1>2. \A x \in bursts :
        /\ x.rank \in Rank /\ x.from \in Int /\ x.to = x.from + T_DATA_TRANS
        /\ Burst(x.rank, x.from - 1, x.kind).rank = x.rank
        /\ Burst(x.rank, x.from - 1, x.kind).from = x.from - 1
        /\ Burst(x.rank, x.from - 1, x.kind).to = x.to - 1
  BY Times DEF Burst, BInv, IInv, TypeOK
<1>3. \A y \in bursts' : y.to = y.from + T_DATA_TRANS
  BY <1>1, <1>2, Times
<1>4. ASSUME NEW y \in bursts', NEW z \in bursts', y # z
      PROVE  Apart(y, z) \/ Apart(z, y)
  <2>1. PICK x \in bursts : y = Burst(x.rank, x.from - 1, x.kind)
    BY <1>1
  <2>2. PICK w \in bursts : z = Burst(w.rank, w.from - 1, w.kind)
    BY <1>1
  <2>3. x # w
    BY <1>4, <2>1, <2>2
  <2>4. Apart(x, w) \/ Apart(w, x)
    BY <2>3 DEF BInv, BusNotShared
  <2>5. /\ y.rank = x.rank /\ y.from = x.from - 1 /\ y.to = x.to - 1
        /\ z.rank = w.rank /\ z.from = w.from - 1 /\ z.to = w.to - 1
        /\ x.from \in Int /\ x.to \in Int /\ w.from \in Int /\ w.to \in Int
    BY <1>2, <2>1, <2>2, Times
  <2>6. QED
    BY <2>4, <2>5, Times DEF Apart
<1>5. ASSUME NEW y \in bursts', NEW c \in Bank PROVE Waited(y, c)'
  <2>1. PICK x \in bursts : y = Burst(x.rank, x.from - 1, x.kind)
    BY <1>1
  <2>2. y.rank = x.rank /\ y.to = x.to - 1 /\ x.to \in Int
    BY <1>2, <2>1, Times
  <2>3. Waited(x, c)
    BY DEF BInv
  <2>4. FreeFor(y, c) = FreeFor(x, c) - 1 /\ FreeFor(x, c) \in Int
    BY <2>2, Times DEF FreeFor
  <2>5. next[c]["read"] \in Nat /\ next[c]["write"] \in Nat
    BY DEF IInv, TypeOK, Timers
  <2>6. /\ next'[c]["read"] = Down(next[c]["read"])
        /\ next'[c]["write"] = Down(next[c]["write"])
    BY DEF Tick, Ticked, Timers
  <2>7. /\ next[c]["read"] - 1 <= next'[c]["read"] /\ next'[c]["read"] \in Nat
        /\ next[c]["write"] - 1 <= next'[c]["write"] /\ next'[c]["write"] \in Nat
    BY <2>5, <2>6 DEF Down, Later
  <2> DEFINE free == FreeFor(y, c)
  <2>8. free <= next'[c]["read"] + T_CAS /\ free <= next'[c]["write"] + T_CWD
    BY <2>3, <2>4, <2>5, <2>7, Times DEF Waited
  <2>9. QED
    BY <2>8 DEF Waited, FreeFor
<1>6. QED
  BY <1>3, <1>4, <1>5 DEF BInv, BusNotShared, Apart

\* Every step leaves the bus free for the next one in time.
LEMMA BusNext == IInv /\ BInv /\ [Next]_vars => BInv'
<1> SUFFICES ASSUME IInv, BInv, [Next]_vars PROVE BInv'
  OBVIOUS
<1>1. IInv'
  BY NextKeeps
<1>2. CASE Tick
  BY <1>1, <1>2, BusTicks
<1>3. ASSUME NEW q \in Request, IssueRequest(q) PROVE BInv'
  <2> DEFINE b == q.bank
  <2>1. b \in Bank /\ q.row \in Row /\ RankOf(b) \in Rank
    BY BankRank DEF Request
  <2>2. CASE IssueActivate(q)
    <3>1. Open(b, q.row) /\ bursts' = bursts
      BY <2>2 DEF IssueActivate, Open
    <3>2. \A c \in Bank : NotEarlier(c)
      BY <2>1, <3>1, OpenLater
    <3>3. QED
      BY <1>1, <3>1, <3>2, BusKept
  <2>3. CASE IssuePrecharge(q)
    <3>1. next' = DelayAll({b}, Closing(T_RP)) /\ bursts' = bursts
      BY <2>3 DEF IssuePrecharge, Close
    <3>2. \A c \in Bank : NotEarlier(c)
      BY <3>1, DelayAllLater, ClosingDelays, Times
    <3>3. QED
      BY <1>1, <3>1, <3>2, BusKept
  <2>4. CASE IssuePowerUp(q)
    <3>1. next' = DelayAll(BanksOf(RankOf(b)), Waking(T_XP)) /\ bursts' = bursts
      BY <2>4 DEF IssuePowerUp, Wake
    <3>2. \A c \in Bank : NotEarlier(c)
      BY <3>1, DelayAllLater, WakingDelays, Times
    <3>3. QED
      BY <1>1, <3>1, <3>2, BusKept
  <2>5. CASE IssueRead(q)
    <3>1. next[b]["read"] = 0
      BY <1>3, <2>5 DEF IssueRequest, Issuable, IssueRead, ReadIssuable
    <3>2. Column(b, T_RTP, AfterRead(b), T_CAS, "read")
      BY <2>5 DEF IssueRead
    <3> HIDE DEF b
    <3>3. \A c \in Bank : AfterRead(b)[c] \in [{"read", "write"} -> Int]
      BY Times DEF AfterRead, ReadToRead, ReadToWrite, Later
    <3>4. \A x \in bursts : FreeFor(x, b) <= T_CAS
      BY <2>1, <3>1, Times DEF BInv, Waited
    <3>5. \A c \in Bank :
            /\ FreeFor(Burst(RankOf(b), T_CAS, "read"), c) <= AfterRead(b)[c]["read"] + T_CAS
            /\ FreeFor(Burst(RankOf(b), T_CAS, "read"), c) <= AfterRead(b)[c]["write"] + T_CWD
      BY Times DEF AfterRead, ReadToRead, ReadToWrite, Later, FreeFor, Burst
    <3>6. T_RTP \in Nat /\ T_CAS \in Nat
      BY Times
    <3>7. QED
      BY <1>1, <2>1, <3>2, <3>3, <3>4, <3>5, <3>6, BusUsed
  <2>6. CASE IssueWrite(q)
    <3>1. next[b]["write"] = 0
      BY <1>3, <2>6 DEF IssueRequest, Issuable, IssueWrite, WriteIssuable
    <3>2. Column(b, WriteRecovery, AfterWrite(b), T_CWD, "write")
      BY <2>6 DEF IssueWrite
    <3> HIDE DEF b
    <3>3. \A c \in Bank : AfterWrite(b)[c] \in [{"read", "write"} -> Int]
      BY Times DEF AfterWrite, WriteToRead, WriteToWrite, ReadToRead, Later
    <3>4. \A x \in bursts : FreeFor(x, b) <= T_CWD
      BY <2>1, <3>1, Times DEF BInv, Waited
    <3>5. \A c \in Bank :
            /\ FreeFor(Burst(RankOf(b), T_CWD, "write"), c) <= AfterWrite(b)[c]["read"] + T_CAS
            /\ FreeFor(Burst(RankOf(b), T_CWD, "write"), c) <= AfterWrite(b)[c]["write"] + T_CWD
      BY Times DEF AfterWrite, WriteToRead, WriteToWrite, ReadToRead, Later, FreeFor, Burst
    <3>6. WriteRecovery \in Nat /\ T_CWD \in Nat
      BY Times DEF WriteRecovery
    <3>7. QED
      BY <1>1, <2>1, <3>2, <3>3, <3>4, <3>5, <3>6, BusUsed
  <2>7. QED
    BY <1>3, <2>2, <2>3, <2>4, <2>5, <2>6 DEF IssueRequest
<1>4. ASSUME NEW banks, NEW t \in Int, next' = DelayAll(banks, Closing(t)),
             bursts' = bursts
      PROVE  BInv'
  BY <1>1, <1>4, DelayAllLater, ClosingDelays, BusKept
<1>5. ASSUME NEW b \in Bank, Precharge(b) PROVE BInv'
  BY <1>4, <1>5, Times DEF Precharge, Close
<1>6. ASSUME NEW b \in Bank, AutoPrecharge(b) PROVE BInv'
  <2>1. next[b]["pre"] \in Nat
    BY DEF IInv, TypeOK, Timers
  <2>2. AutoStart(b) + T_RP \in Int
    BY <2>1, Times DEF AutoStart, Later, WriteRecovery
  <2>3. QED
    BY <1>4, <1>6, <2>2 DEF AutoPrecharge
<1>7. ASSUME NEW b \in Bank, NEW row \in Row, Activate(b, row) PROVE BInv'
  <2>1. Open(b, row) /\ bursts' = bursts
    BY <1>7 DEF Activate, Open
  <2>2. QED
    BY <1>1, <2>1, OpenLater, BusKept
<1>8. ASSUME NEW r \in Rank, PrechargeAll(r) PROVE BInv'
  BY <1>4, <1>8, Times DEF PrechargeAll, Close
<1>9. ASSUME NEW r \in Rank, PowerUp(r) PROVE BInv'
  <2>1. next' = DelayAll(BanksOf(r), Waking(T_XP)) /\ bursts' = bursts
    BY <1>9 DEF PowerUp, Wake
  <2>2. QED
    BY <1>1, <2>1, DelayAllLater, WakingDelays, Times, BusKept
<1>10. ASSUME NEW r \in Rank, Refresh(r) PROVE BInv'
  <2>1. BeforeRefresh(r) + T_RFC \in Int
    BY Times DEF BeforeRefresh
  <2>2. QED
    BY <1>4, <1>10, <2>1 DEF Refresh
<1>11. ASSUME NEW r \in Rank, NEW slow \in BOOLEAN, PowerDown(r, slow) PROVE BInv'
  <2>1. bursts' = bursts
    BY <1>11 DEF PowerDown
  <2>2. QED
    BY <1>1, <1>11, <2>1, SleepLater, BusKept
<1>12. CASE UNCHANGED vars
  BY <1>12 DEF vars, timing, BInv, Waited, FreeFor, BusNotShared, Apart
<1>13. QED
  BY <1>2, <1>3, <1>5, <1>6, <1>7, <1>8, <1>9, <1>10, <1>11, <1>12 DEF Next, Command

\* Reads and writes of all banks and ranks share the data bus without ever
\* colliding, whatever the scheduler issues and whatever the timing, even where
\* T_CAS + T_DATA_TRANS + T_RTRS - T_CWD is negative (issue_request_command).
THEOREM BusIsNotShared == Spec => []BusNotShared
<1>1. Init => BInv
  BY DEF Init, BInv, BusNotShared
<1>2. BInv => BusNotShared
  BY DEF BInv
<1>3. QED
  BY InitHolds, NextKeeps, BusNext, <1>1, <1>2, PTL DEF Spec

-----------------------------------------------------------------------------
(* Rows are closed in time.                                                *)

\* How long a bank with an open row of rank r may still have to wait for its
\* precharge: until the refreshes must begin, or for the wake-up that has not
\* looked at the deadline of the rank.
LongestWait(r) == Later(deadline[r], IF r = 0 THEN 0 ELSE T_XP)

\* The deadline at the start of a window.  It can be nearer than the one at the
\* end of a window with more refreshes than were due, so what a bank may still
\* have to wait for must have room before it.
FirstMoment  == LastMoment(WindowLength, 0)
RoomInWindow == \A t \in {T_RAS, T_RTP, WriteRecovery, T_XP} : t <= FirstMoment

\* A bank may be refreshed only when it may be precharged; a bank whose row is
\* closed may be activated only then; and one whose row is open may be
\* precharged before the rank must be refreshed.
InTime(b) ==
  /\ next[b]["pre"] <= next[b]["refresh"]
  /\ activeRow[b] = NoRow => next[b]["pre"] <= next[b]["act"]
  /\ activeRow[b] # NoRow => /\ next[b]["pre"] <= LongestWait(RankOf(b))
                             /\ next[b]["pre"] <= FirstMoment

\* A deadline that still moves is no later than the last moment it stands for.
Current(r) == deadline[r] > 1 => deadline[r] <= LastMoment(window, issued[r])

CInv == (\A b \in Bank : InTime(b)) /\ (\A r \in Rank : Current(r))

\* The precharge and the refresh of bank c are put off to time t.
PutOff(c, t) ==
  /\ next'[c]["pre"] = Later(next[c]["pre"], t)
  /\ Later(next[c]["refresh"], t) <= next'[c]["refresh"]

\* The timers of a bank are numbers.
LEMMA BankTimers ==
  ASSUME IInv, NEW c \in Bank
  PROVE  /\ next[c] \in [Timers -> Nat]
         /\ next[c]["pre"] \in Nat /\ next[c]["act"] \in Nat
         /\ next[c]["refresh"] \in Nat
         /\ "pre" \in Timers /\ "act" \in Timers /\ "refresh" \in Timers
         /\ LongestWait(RankOf(c)) \in Nat /\ deadline[RankOf(c)] \in Int
         /\ deadline[RankOf(c)] <= LongestWait(RankOf(c))
<1>1. next[c] \in [Timers -> Nat] /\ deadline[RankOf(c)] \in Int
  BY BankRank DEF IInv, TypeOK
<1>2. "pre" \in Timers /\ "act" \in Timers /\ "refresh" \in Timers
  BY DEF Timers
<1>3. /\ LongestWait(RankOf(c)) \in Nat
      /\ deadline[RankOf(c)] <= LongestWait(RankOf(c))
  BY <1>1, Times DEF LongestWait, Later
<1>4. QED
  BY <1>1, <1>2, <1>3

\* The timers of a delayed bank, one by one.
LEMMA DelayedAt ==
  ASSUME NEW n, NEW d, NEW t \in Timers
  PROVE  Delayed(n, d)[t] = IF t \in DOMAIN d THEN Later(n[t], d[t]) ELSE n[t]
BY DEF Delayed

\* The first moment of a window is yet to come.
LEMMA FirstMoments == FirstMoment \in Nat /\ 1 <= FirstMoment
<1>1. Batch * T_REFI \in Int /\ Batch * T_RFC \in Int
  BY Times
<1>2. FirstMoment = Batch * T_REFI - T_RP - Batch * T_RFC
  BY Times DEF FirstMoment, LastMoment, WindowLength
<1>3. QED
  BY <1>1, <1>2, Times, TimingAssumption

\* A bank stays in time when its precharge is put off with its refresh, and
\* with an open row no longer than it may wait.
LEMMA StaysInTime ==
  ASSUME IInv, IInv', CInv, NEW c \in Bank, deadline' = deadline,
         NEW t \in Int, PutOff(c, t),
         activeRow'[c] = NoRow => next'[c]["pre"] <= next'[c]["act"],
         activeRow'[c] # NoRow => /\ next[c]["pre"] <= LongestWait(RankOf(c))
                                  /\ next[c]["pre"] <= FirstMoment
                                  /\ t <= LongestWait(RankOf(c)) /\ t <= FirstMoment
  PROVE  InTime(c)'
<1>1. /\ next[c]["pre"] \in Nat /\ next[c]["refresh"] \in Nat
      /\ next'[c]["refresh"] \in Nat
      /\ LongestWait(RankOf(c)) \in Nat
  BY BankTimers DEF IInv, TypeOK, Timers
<1>2. next[c]["pre"] <= next[c]["refresh"]
  BY DEF CInv, InTime
<1>3. next'[c]["pre"] <= next'[c]["refresh"]
  BY <1>1, <1>2 DEF PutOff, Later
<1>4. LongestWait(RankOf(c))' = LongestWait(RankOf(c))
  BY DEF LongestWait
<1>5. activeRow'[c] # NoRow => /\ next'[c]["pre"] <= LongestWait(RankOf(c))
                               /\ next'[c]["pre"] <= FirstMoment
  BY <1>1, FirstMoments DEF PutOff, Later
<1>6. QED
  BY <1>3, <1>4, <1>5 DEF InTime

\* A bank whose row and timers stay stays in time.
LEMMA SameInTime ==
  ASSUME IInv, IInv', CInv, NEW c \in Bank, deadline' = deadline,
         activeRow'[c] = activeRow[c], next'[c]["pre"] = next[c]["pre"],
         next[c]["act"] <= next'[c]["act"],
         next[c]["refresh"] <= next'[c]["refresh"]
  PROVE  InTime(c)'
<1>1. /\ next[c]["pre"] \in Nat /\ next[c]["refresh"] \in Nat /\ next[c]["act"] \in Nat
      /\ next'[c]["refresh"] \in Nat /\ next'[c]["act"] \in Nat
      /\ LongestWait(RankOf(c)) \in Nat
  BY BankTimers DEF IInv, TypeOK, Timers
<1>2. InTime(c)
  BY DEF CInv
<1>3. LongestWait(RankOf(c))' = LongestWait(RankOf(c))
  BY DEF LongestWait
<1>4. QED
  BY <1>1, <1>2, <1>3 DEF InTime

\* Banks that are closed by time t, and could be by then.
LEMMA ClosingInTime ==
  ASSUME IInv, IInv', CInv, NEW banks, NEW t \in Int,
         next' = DelayAll(banks, Closing(t)), deadline' = deadline,
         \A c \in Bank : activeRow'[c] = IF c \in banks THEN NoRow ELSE activeRow[c],
         \A c \in Bank : c \in banks => next[c]["pre"] <= Later(t, 0)
  PROVE  \A c \in Bank : InTime(c)'
<1> TAKE c \in Bank
<1>1. next'[c] = IF c \in banks THEN Delayed(next[c], Closing(t)) ELSE next[c]
  BY DEF DelayAll
<1>2. /\ next[c]["pre"] \in Nat /\ next[c]["refresh"] \in Nat /\ next[c]["act"] \in Nat
      /\ "pre" \in Timers /\ "act" \in Timers /\ "refresh" \in Timers
  BY BankTimers
<1>3. CASE c \notin banks
  BY <1>1, <1>2, <1>3, SameInTime
<1>4. CASE c \in banks
  <2>1. /\ Delayed(next[c], Closing(t))["pre"] = Later(next[c]["pre"], t)
        /\ Delayed(next[c], Closing(t))["act"] = Later(next[c]["act"], t)
        /\ Delayed(next[c], Closing(t))["refresh"] = Later(next[c]["refresh"], t)
    BY <1>2, DelayedAt DEF Closing
  <2>2. PutOff(c, t)
    BY <1>1, <1>2, <1>4, <2>1 DEF PutOff, Later
  <2>3. Later(next[c]["pre"], t) <= Later(next[c]["act"], t)
    BY <1>2, <1>4 DEF Later
  <2>4. activeRow'[c] = NoRow /\ next'[c]["pre"] <= next'[c]["act"]
    BY <1>1, <1>4, <2>1, <2>3
  <2>5. QED
    BY <2>2, <2>4, StaysInTime
<1>5. QED
  BY <1>3, <1>4

\* An activate that fits in before the refreshes.
LEMMA OpenInTime ==
  ASSUME IInv, IInv', CInv, NEW b \in Bank, NEW row \in Row, MayActivate(b),
         Open(b, row), RoomInWindow
  PROVE  \A c \in Bank : InTime(c)'
<1> TAKE c \in Bank
<1> DEFINE own == [pre |-> T_RAS, refresh |-> T_RAS, read |-> T_RCD,
                   write |-> T_RCD, act |-> T_RC, powerdown |-> T_RCD]
           others == [act |-> T_RRD]
<1>1. /\ next[c]["pre"] \in Nat /\ next[c]["refresh"] \in Nat /\ next[c]["act"] \in Nat
      /\ "pre" \in Timers /\ "act" \in Timers /\ "refresh" \in Timers
      /\ LongestWait(RankOf(c)) \in Nat /\ deadline[RankOf(c)] \in Int
      /\ deadline[RankOf(c)] <= LongestWait(RankOf(c))
  BY BankTimers
<1>2. next'[c] = IF c = b THEN Delayed(next[c], own)
                 ELSE IF RankOf(c) = RankOf(b) THEN Delayed(next[c], others)
                 ELSE next[c]
  BY DEF Open
<1>3. deadline' = deadline /\ activeRow'[c] = IF c = b THEN row ELSE activeRow[c]
  BY DEF Open, refresh, IInv, TypeOK
<1>4. CASE c = b
  <2>1. /\ Delayed(next[c], own)["pre"] = Later(next[c]["pre"], T_RAS)
        /\ Delayed(next[c], own)["refresh"] = Later(next[c]["refresh"], T_RAS)
    BY <1>1, DelayedAt
  <2> HIDE DEF own
  <2>2. PutOff(c, T_RAS)
    BY <1>1, <1>2, <1>4, <2>1, Times DEF PutOff, Later
  <2>3. activeRow[c] = NoRow /\ next[c]["act"] = 0 /\ T_RAS <= deadline[RankOf(c)]
    BY <1>4 DEF MayActivate, Fits, Closed, IInv, RanksWhole, OpenRowKnown
  <2>4. /\ next[c]["pre"] <= LongestWait(RankOf(c)) /\ T_RAS <= LongestWait(RankOf(c))
        /\ next[c]["pre"] <= FirstMoment /\ T_RAS <= FirstMoment
    BY <1>1, <2>3, Times, FirstMoments DEF CInv, InTime, RoomInWindow
  <2>5. activeRow'[c] # NoRow
    BY <1>3, <1>4, ShapeAssumption DEF NoRow
  <2>6. T_RAS \in Int
    BY Times
  <2>7. QED
    BY <1>3, <2>2, <2>4, <2>5, <2>6, StaysInTime
<1>5. CASE c # b
  <2>1. /\ Delayed(next[c], others)["pre"] = next[c]["pre"]
        /\ Delayed(next[c], others)["refresh"] = next[c]["refresh"]
        /\ Delayed(next[c], others)["act"] = Later(next[c]["act"], T_RRD)
    BY <1>1, DelayedAt
  <2> HIDE DEF own, others
  <2>2. /\ next'[c]["pre"] = next[c]["pre"]
        /\ next[c]["refresh"] <= next'[c]["refresh"]
        /\ next[c]["act"] <= next'[c]["act"]
    BY <1>1, <1>2, <1>5, <2>1, Times DEF Later
  <2>3. QED
    BY <1>3, <1>5, <2>2, SameInTime
<1>6. QED
  BY <1>4, <1>5

\* A column command that fits in before the refreshes.
LEMMA ColumnInTime ==
  ASSUME IInv, IInv', CInv, NEW b \in Bank, NEW t \in Nat, NEW bus, NEW start,
         NEW kind, Column(b, t, bus, start, kind), activeRow[b] # NoRow,
         t <= deadline[RankOf(b)], t <= FirstMoment,
         \A c \in Bank : DOMAIN bus[c] = {"read", "write"}
  PROVE  \A c \in Bank : InTime(c)'
<1> TAKE c \in Bank
<1> DEFINE own == [pre       |-> IF c = b THEN t ELSE 0,
                   refresh   |-> IF c = b THEN t ELSE 0,
                   powerdown |-> IF c = b THEN t ELSE 0]
           first == Delayed(next[c], bus[c])
           time == IF c = b THEN t ELSE 0
<1>1. /\ next[c]["pre"] \in Nat /\ next[c]["refresh"] \in Nat /\ next[c]["act"] \in Nat
      /\ "pre" \in Timers /\ "act" \in Timers /\ "refresh" \in Timers
      /\ LongestWait(RankOf(c)) \in Nat /\ deadline[RankOf(c)] \in Int
      /\ deadline[RankOf(c)] <= LongestWait(RankOf(c))
  BY BankTimers
<1>2. next'[c] = Delayed(first, own)
  BY DEF Column
<1>3. /\ first["pre"] = next[c]["pre"] /\ first["act"] = next[c]["act"]
      /\ first["refresh"] = next[c]["refresh"]
  BY <1>1, DelayedAt
<1> HIDE DEF first
<1>4. /\ Delayed(first, own)["pre"] = Later(first["pre"], time)
      /\ Delayed(first, own)["act"] = first["act"]
      /\ Delayed(first, own)["refresh"] = Later(first["refresh"], time)
  BY <1>1, DelayedAt
<1> HIDE DEF own
<1>5. deadline' = deadline /\ activeRow'[c] = activeRow[c]
  BY DEF Column, refresh
<1>6. time \in Nat /\ time <= LongestWait(RankOf(c)) /\ time <= FirstMoment
  BY <1>1, FirstMoments
<1> HIDE DEF time
<1>7. PutOff(c, time)
  BY <1>1, <1>2, <1>3, <1>4, <1>6 DEF PutOff, Later
<1>8. activeRow'[c] # NoRow => /\ next[c]["pre"] <= LongestWait(RankOf(c))
                               /\ next[c]["pre"] <= FirstMoment
  BY <1>5 DEF CInv, InTime
<1>9. CASE activeRow'[c] = NoRow
  <2>1. time = 0
    BY <1>5, <1>9 DEF time
  <2>2. /\ next'[c]["pre"] = next[c]["pre"] /\ next[c]["act"] <= next'[c]["act"]
        /\ next[c]["refresh"] <= next'[c]["refresh"]
    BY <1>1, <1>2, <1>3, <1>4, <2>1 DEF Later
  <2>3. QED
    BY <1>5, <2>2, SameInTime
<1>10. CASE activeRow'[c] # NoRow
  BY <1>5, <1>6, <1>7, <1>8, <1>10, StaysInTime
<1>11. QED
  BY <1>9, <1>10

\* A rank that wakes up before the refreshes, or is not the first.
LEMMA WakeInTime ==
  ASSUME IInv, IInv', CInv, NEW r \in Rank, Wake(r), RoomInWindow,
         \A c \in BanksOf(r) : activeRow[c] # NoRow => T_XP <= LongestWait(r)
  PROVE  \A c \in Bank : InTime(c)' /\ activeRow'[c] = activeRow[c]
<1> TAKE c \in Bank
<1>1. /\ next[c]["pre"] \in Nat /\ next[c]["refresh"] \in Nat /\ next[c]["act"] \in Nat
      /\ "pre" \in Timers /\ "act" \in Timers /\ "refresh" \in Timers
      /\ LongestWait(RankOf(c)) \in Nat
  BY BankTimers
<1>2. activeRow'[c] = activeRow[c]
  BY DEF Wake, IInv, RanksWhole, OpenRowKnown, Asleep
<1>3. next'[c] = IF c \in BanksOf(r) THEN Delayed(next[c], Waking(T_XP)) ELSE next[c]
  BY DEF Wake, DelayAll
<1>4. deadline' = deadline
  BY DEF Wake, refresh
<1>5. CASE c \notin BanksOf(r)
  BY <1>1, <1>2, <1>3, <1>4, <1>5, SameInTime
<1>6. CASE c \in BanksOf(r)
  <2>1. /\ Delayed(next[c], Waking(T_XP))["pre"] = Later(next[c]["pre"], T_XP)
        /\ Delayed(next[c], Waking(T_XP))["act"] = Later(next[c]["act"], T_XP)
        /\ Delayed(next[c], Waking(T_XP))["refresh"] = Later(next[c]["refresh"], T_XP)
    BY <1>1, DelayedAt DEF Waking
  <2>2. PutOff(c, T_XP)
    BY <1>1, <1>3, <1>6, <2>1, Times DEF PutOff, Later
  <2>3. activeRow[c] = NoRow => next[c]["pre"] <= next[c]["act"]
    BY DEF CInv, InTime
  <2>4. activeRow'[c] = NoRow => next'[c]["pre"] <= next'[c]["act"]
    BY <1>1, <1>2, <1>3, <1>6, <2>1, <2>3, Times DEF Later
  <2>5. activeRow'[c] # NoRow => /\ next[c]["pre"] <= LongestWait(RankOf(c))
                                 /\ next[c]["pre"] <= FirstMoment
                                 /\ T_XP <= LongestWait(RankOf(c)) /\ T_XP <= FirstMoment
    BY <1>2, <1>6 DEF CInv, InTime, BanksOf, RoomInWindow
  <2>6. T_XP \in Int
    BY Times
  <2>7. QED
    BY <1>2, <1>4, <2>2, <2>4, <2>5, <2>6, StaysInTime
<1>7. QED
  BY <1>5, <1>6

\* A rank that falls asleep.
LEMMA SleepInTime ==
  ASSUME IInv, IInv', CInv, NEW r \in Rank, NEW slow \in BOOLEAN, PowerDown(r, slow)
  PROVE  \A c \in Bank : InTime(c)' /\ activeRow'[c] = activeRow[c]
<1> TAKE c \in Bank
<1> DEFINE d == [refresh |-> T_PD_MIN]
<1>1. /\ next[c] \in [Timers -> Nat]
      /\ next[c]["pre"] \in Nat /\ next[c]["refresh"] \in Nat /\ next[c]["act"] \in Nat
      /\ "pre" \in Timers /\ "act" \in Timers /\ "refresh" \in Timers
  BY BankTimers
<1>2. activeRow'[c] = activeRow[c]
  <2>1. c \in BanksOf(r) => state[c] \in Powered
    BY DEF PowerDown, MaySleepSlow, MaySleepFast, Powered, Closed
  <2>2. activeRow'[c] = IF c \in BanksOf(r) /\ state[c] # "ROW_ACTIVE" THEN NoRow
                        ELSE activeRow[c]
    BY DEF PowerDown
  <2>3. QED
    BY <2>1, <2>2 DEF IInv, RanksWhole, OpenRowKnown, Powered
<1>3. deadline' = deadline
  BY DEF PowerDown, refresh
<1>4. \/ next'[c] = [Delayed(next[c], d) EXCEPT !["powerup"] =
                       Later(T_PD_MIN, next[c]["powerdown"])]
      \/ next'[c] = next[c]
  BY DEF PowerDown
<1>5. /\ Delayed(next[c], d)["pre"] = next[c]["pre"]
      /\ Delayed(next[c], d)["act"] = next[c]["act"]
      /\ Delayed(next[c], d)["refresh"] = Later(next[c]["refresh"], T_PD_MIN)
  BY <1>1, DelayedAt
<1>6. Delayed(next[c], d) \in [Timers -> Nat]
  BY <1>1, Times, DelayedType
<1> HIDE DEF d
<1>7. \/ /\ next'[c]["pre"] = Delayed(next[c], d)["pre"]
         /\ next'[c]["act"] = Delayed(next[c], d)["act"]
         /\ next'[c]["refresh"] = Delayed(next[c], d)["refresh"]
      \/ next'[c] = next[c]
  BY <1>1, <1>4, <1>6
<1>8. /\ next'[c]["pre"] = next[c]["pre"] /\ next[c]["act"] <= next'[c]["act"]
      /\ next[c]["refresh"] <= next'[c]["refresh"]
  BY <1>1, <1>5, <1>7, Times DEF Later
<1>9. InTime(c)'
  BY <1>2, <1>3, <1>8, SameInTime
<1>10. QED
  BY <1>2, <1>9

\* A cycle brings the end of the wait nearer as it does the deadline; a rank
\* forced to refresh closes its rows.
LEMMA TickInTime ==
  ASSUME IInv, IInv', CInv, Tick, NEW c \in Bank
  PROVE  InTime(c)'
<1> DEFINE r == RankOf(c)
<1>1. /\ next[c] \in [Timers -> Nat]
      /\ next[c]["pre"] \in Nat /\ next[c]["refresh"] \in Nat /\ next[c]["act"] \in Nat
      /\ "pre" \in Timers /\ "act" \in Timers /\ "refresh" \in Timers
      /\ deadline[r] \in Int /\ r \in Rank /\ window \in Nat /\ issued[r] \in Nat
  BY BankTimers, BankRank, Windows DEF IInv, TypeOK
<1>2. /\ next'[c] = Ticked(c)
      /\ activeRow'[c] = IF MustRefresh(r) THEN NoRow ELSE activeRow[c]
      /\ deadline'[r] = NextDeadline(r)
  BY <1>1 DEF Tick
<1>3. InTime(c) /\ Current(r)
  BY <1>1 DEF CInv
<1>4. CASE MustRefresh(r)
  <2>1. next'[c]["pre"] = window - 1 /\ next'[c]["refresh"] = window - 1
        /\ next'[c]["act"] = window - 1
    BY <1>1, <1>2, <1>4 DEF Ticked
  <2>2. QED
    BY <1>1, <1>2, <1>4, <2>1 DEF InTime
<1>5. CASE ~MustRefresh(r)
  <2>1. /\ next'[c]["pre"] = Down(next[c]["pre"])
        /\ next'[c]["act"] = Down(next[c]["act"])
        /\ next'[c]["refresh"] = Down(next[c]["refresh"])
    BY <1>1, <1>2, <1>5 DEF Ticked
  <2>2. activeRow'[c] = activeRow[c]
    BY <1>2, <1>5
  <2>3. /\ next'[c]["pre"] <= next'[c]["refresh"]
        /\ activeRow'[c] = NoRow => next'[c]["pre"] <= next'[c]["act"]
    BY <1>1, <1>3, <2>1, <2>2 DEF InTime, Down, Later
  <2>4. /\ deadline'[r] \in Int
        /\ FirstMoment <= deadline'[r] \/ (deadline[r] > 1 => deadline[r] - 1 <= deadline'[r])
    <3>1. CASE WindowEnds
      BY <1>2, <3>1, FirstMoments DEF NextDeadline, FirstMoment
    <3>2. CASE ~WindowEnds /\ deadline[r] > 1
      <4>1. deadline'[r] = LastMoment(window - 1, issued[r])
        BY <1>2, <3>2 DEF NextDeadline
      <4>2. /\ LastMoment(window - 1, issued[r]) = LastMoment(window, issued[r]) - 1
            /\ LastMoment(window, issued[r]) \in Int
        <5> DEFINE n == issued[r]
        <5>1. n \in Nat /\ window \in Int
          BY <1>1
        <5> HIDE DEF n
        <5>2. LastMoment(window - 1, n) = LastMoment(window, n) - 1
              /\ LastMoment(window, n) \in Int
          BY <5>1, LastMoments
        <5>3. QED
          BY <5>2 DEF n
      <4>3. deadline[r] <= LastMoment(window, issued[r])
        BY <1>3, <3>2 DEF Current
      <4>4. QED
        BY <1>1, <4>1, <4>2, <4>3
    <3>3. CASE ~WindowEnds /\ ~(deadline[r] > 1)
      BY <1>1, <1>2, <3>3 DEF NextDeadline, Later
    <3>4. QED
      BY <3>1, <3>2, <3>3
  <2>5. activeRow'[c] # NoRow => /\ next'[c]["pre"] <= LongestWait(r)'
                                 /\ next'[c]["pre"] <= FirstMoment
    <3>1. activeRow'[c] # NoRow => /\ next[c]["pre"] <= LongestWait(r)
                                   /\ next[c]["pre"] <= FirstMoment
      BY <1>3, <2>2 DEF InTime
    <3>2. LongestWait(r)' = Later(deadline'[r], IF r = 0 THEN 0 ELSE T_XP)
      BY DEF LongestWait
    <3>3. QED
      BY <1>1, <2>1, <2>4, <3>1, <3>2, Times, FirstMoments DEF LongestWait, Down, Later
  <2>6. QED
    BY <2>3, <2>5 DEF InTime
<1>6. QED
  BY <1>4, <1>5

\* Deadlines stay current: they are set anew each cycle, and each refresh only
\* moves the last moment away.
LEMMA StaysCurrent ==
  IInv /\ CInv /\ [Next]_vars => (\A r \in Rank : Current(r))'
<1> SUFFICES ASSUME IInv, CInv, [Next]_vars, NEW r \in Rank
             PROVE  Current(r)'
  BY DEF Current
<1>1. /\ issued[r] \in Nat /\ deadline[r] \in Int /\ window \in Int
      /\ issued \in [Rank -> Nat]
  BY DEF IInv, TypeOK
<1>2. Current(r)
  BY DEF CInv
<1>3. CASE Tick
  <2>1. /\ issued'[r] = IF WindowEnds THEN 0 ELSE issued[r]
        /\ window' = IF WindowEnds THEN WindowLength ELSE window - 1
        /\ deadline'[r] = NextDeadline(r)
    BY <1>3 DEF Tick
  <2>2. LastMoment(WindowLength, 0) \in Int /\ LastMoment(window - 1, issued[r]) \in Int
    <3> DEFINE n == issued[r]
               l == window - 1
    <3>1. n \in Nat /\ l \in Int /\ WindowLength \in Int
      BY <1>1, Windows
    <3> HIDE DEF n, l
    <3>2. LastMoment(l, n) \in Int /\ LastMoment(WindowLength, 0) \in Int
      BY <3>1, LastMoments
    <3>3. QED
      BY <3>2 DEF n, l
  <2>3. CASE WindowEnds
    BY <2>1, <2>2, <2>3 DEF Current, NextDeadline
  <2>4. CASE ~WindowEnds /\ deadline[r] > 1
    BY <2>1, <2>2, <2>4 DEF Current, NextDeadline
  <2>5. CASE ~WindowEnds /\ ~(deadline[r] > 1)
    BY <1>1, <2>1, <2>5 DEF Current, NextDeadline, Later
  <2>6. QED
    BY <2>3, <2>4, <2>5
<1>4. ASSUME NEW x \in Rank, Refresh(x) PROVE Current(r)'
  <2>1. /\ deadline' = deadline /\ window' = window
        /\ issued'[r] = issued[r] \/ issued'[r] = issued[r] + 1
    BY <1>1, <1>4 DEF Refresh
  <2> DEFINE n == issued[r]
  <2>2. n \in Nat /\ n + 1 \in Nat
    BY <1>1
  <2> HIDE DEF n
  <2>3. /\ LastMoment(window, n) <= LastMoment(window, n + 1)
        /\ LastMoment(window, n) \in Int
    BY <1>1, <2>2, LastMoments
  <2>4. LastMoment(window, n + 1) \in Int
    BY <1>1, <2>2, LastMoments
  <2>5. deadline[r] > 1 => deadline[r] <= LastMoment(window, n + 1)
                           /\ deadline[r] <= LastMoment(window, n)
    BY <1>1, <1>2, <2>3, <2>4 DEF Current, n
  <2>6. issued'[r] = n \/ issued'[r] = n + 1
    BY <2>1 DEF n
  <2>7. QED
    BY <2>1, <2>5, <2>6 DEF Current
<1>5. CASE UNCHANGED refresh
  BY <1>2, <1>5 DEF Current, refresh
<1>6. QED
  BY <1>3, <1>4, <1>5, RefreshOrNot

\* What a command does to the rows: it keeps a row open that may not be
\* precharged yet, and leaves every bank in time.
Orderly ==
  \A c \in Bank : InTime(c)' /\ (Closes(c) => ByAuto(c) \/ (commanded' /\ next[c]["pre"] <= 0))

\* An allowed precharge of some banks
LEMMA CloseOrderly ==
  ASSUME IInv, IInv', CInv, NEW banks, Close(banks),
         \A c \in Bank : c \in banks => next[c]["pre"] = 0
  PROVE  Orderly
<1>1. /\ next' = DelayAll(banks, Closing(T_RP)) /\ deadline' = deadline /\ commanded'
      /\ \A c \in Bank : activeRow'[c] = IF c \in banks THEN NoRow ELSE activeRow[c]
  BY DEF Close, refresh
<1>2. \A c \in Bank : c \in banks => next[c]["pre"] <= Later(T_RP, 0)
  BY Times DEF Later
<1>3. \A c \in Bank : InTime(c)'
  BY <1>1, <1>2, Times, ClosingInTime
<1>4. \A c \in Bank : Closes(c) => commanded' /\ next[c]["pre"] <= 0
  BY <1>1 DEF Closes
<1>5. QED
  BY <1>3, <1>4 DEF Orderly

\* and a wake-up that fits.
LEMMA WakeOrderly ==
  ASSUME IInv, IInv', CInv, NEW r \in Rank, Wake(r), RoomInWindow,
         \A c \in BanksOf(r) : activeRow[c] # NoRow => T_XP <= LongestWait(r)
  PROVE  Orderly
<1>1. \A c \in Bank : InTime(c)' /\ activeRow'[c] = activeRow[c]
  BY WakeInTime
<1>2. QED
  BY <1>1 DEF Orderly, Closes

\* The command of a request
LEMMA RequestOrderly ==
  ASSUME IInv, IInv', CInv, RoomInWindow, NEW q \in Request, IssueRequest(q)
  PROVE  Orderly
<1> DEFINE b == q.bank
<1>1. b \in Bank /\ q.row \in Row /\ RankOf(b) \in Rank
  BY BankRank DEF Request
<1>2. Issuable(q)
  BY DEF IssueRequest
<1>3. CASE IssueActivate(q)
  <2>1. MayActivate(b) /\ Open(b, q.row)
    BY <1>2, <1>3 DEF IssueActivate, Issuable, ReadIssuable, WriteIssuable
  <2>2. \A c \in Bank : InTime(c)'
    BY <1>1, <2>1, OpenInTime
  <2>3. \A c \in Bank : ~Closes(c)
    BY <1>1, <2>1, ShapeAssumption DEF Open, Closes, NoRow, IInv, TypeOK
  <2>4. QED
    BY <2>2, <2>3 DEF Orderly
<1>4. CASE IssuePrecharge(q)
  <2>1. MayPrecharge(b) /\ Close({b})
    BY <1>2, <1>4 DEF IssuePrecharge, Issuable, ReadIssuable, WriteIssuable
  <2>2. QED
    BY <2>1, CloseOrderly DEF MayPrecharge
<1>5. CASE IssuePowerUp(q)
  <2>1. WakeTime(b) <= deadline[RankOf(b)] /\ Wake(RankOf(b))
    BY <1>2, <1>5 DEF IssuePowerUp, Issuable, ReadIssuable, WriteIssuable, Fits
  <2>2. ASSUME NEW c \in BanksOf(RankOf(b)), activeRow[c] # NoRow
        PROVE  T_XP <= LongestWait(RankOf(b))
    <3>1. c \in Bank /\ RankOf(c) = RankOf(b)
      BY DEF BanksOf
    <3>2. state[c] # "PRECHARGE_POWER_DOWN_SLOW"
      BY <2>2, <3>1 DEF IInv, RanksWhole, OpenRowKnown
    <3>3. state[b] # "PRECHARGE_POWER_DOWN_SLOW"
      BY <1>1, <3>1, <3>2 DEF IInv, RanksWhole, RankSleepsTogether
    <3>4. T_XP <= deadline[RankOf(b)]
      BY <2>1, <3>3 DEF WakeTime
    <3>5. QED
      BY <1>1, <3>4, Times, BankTimers
  <2>3. QED
    BY <1>1, <2>1, <2>2, WakeOrderly
<1>6. CASE IssueRead(q)
  <2>1. Column(b, T_RTP, AfterRead(b), T_CAS, "read") /\ T_RTP <= deadline[RankOf(b)]
    BY <1>2, <1>6 DEF IssueRead, Issuable, ReadIssuable, Fits
  <2>2. state[b] \notin Closed /\ state[b] \notin Asleep
    BY <1>6 DEF IssueRead, NextCommand
  <2>3. activeRow[b] # NoRow
    BY <1>1, <2>2 DEF IInv, TypeOK, RanksWhole, OpenRowKnown, Closed, Asleep, Powered
  <2>4. T_RTP \in Nat /\ T_RTP <= FirstMoment
    BY Times DEF RoomInWindow
  <2>5. \A c \in Bank : DOMAIN AfterRead(b)[c] = {"read", "write"}
    BY DEF AfterRead
  <2> HIDE DEF b
  <2>6. \A c \in Bank : InTime(c)'
    BY <1>1, <2>1, <2>3, <2>4, <2>5, ColumnInTime
  <2>7. QED
    BY <2>1, <2>6 DEF Orderly, Column, Closes
<1>7. CASE IssueWrite(q)
  <2>1. /\ Column(b, WriteRecovery, AfterWrite(b), T_CWD, "write")
        /\ WriteRecovery <= deadline[RankOf(b)]
    BY <1>2, <1>7 DEF IssueWrite, Issuable, WriteIssuable, Fits
  <2>2. state[b] \notin Closed /\ state[b] \notin Asleep
    BY <1>7 DEF IssueWrite, NextCommand
  <2>3. activeRow[b] # NoRow
    BY <1>1, <2>2 DEF IInv, TypeOK, RanksWhole, OpenRowKnown, Closed, Asleep, Powered
  <2>4. WriteRecovery \in Nat /\ WriteRecovery <= FirstMoment
    BY Times DEF RoomInWindow, WriteRecovery
  <2>5. \A c \in Bank : DOMAIN AfterWrite(b)[c] = {"read", "write"}
    BY DEF AfterWrite
  <2> HIDE DEF b
  <2>6. \A c \in Bank : InTime(c)'
    BY <1>1, <2>1, <2>3, <2>4, <2>5, ColumnInTime
  <2>7. QED
    BY <2>1, <2>6 DEF Orderly, Column, Closes
<1>8. QED
  BY <1>3, <1>4, <1>5, <1>6, <1>7 DEF IssueRequest

\* and any command a scheduler issues of its own.
LEMMA CommandOrderly ==
  ASSUME IInv, IInv', CInv, RoomInWindow, Command
  PROVE  Orderly
<1>1. ASSUME NEW q \in Request, IssueRequest(q) PROVE Orderly
  BY <1>1, RequestOrderly
<1>2. ASSUME NEW b \in Bank, Precharge(b) PROVE Orderly
  BY <1>2, CloseOrderly DEF Precharge, MayPrecharge
<1>3. ASSUME NEW b \in Bank, AutoPrecharge(b) PROVE Orderly
  <2> DEFINE t == AutoStart(b) + T_RP
  <2>1. next[b]["pre"] \in Nat
    BY BankTimers
  <2>2. WriteRecovery \in Nat
    BY Times DEF WriteRecovery
  <2>3. t \in Int /\ next[b]["pre"] <= Later(t, 0)
    BY <2>1, <2>2, Times DEF AutoStart, Later
  <2>4. /\ next' = DelayAll({b}, Closing(t)) /\ deadline' = deadline
        /\ cas[b] # "none" /\ commanded' = commanded
        /\ \A c \in Bank : activeRow'[c] = IF c \in {b} THEN NoRow ELSE activeRow[c]
    BY <1>3 DEF AutoPrecharge, refresh, IInv, TypeOK
  <2>5. commanded'
    BY <2>4 DEF IInv, CasAwake
  <2> HIDE DEF t
  <2>6. \A c \in Bank : InTime(c)'
    BY <2>3, <2>4, ClosingInTime
  <2>7. \A c \in Bank : Closes(c) => ByAuto(c)
    BY <2>4, <2>5 DEF Closes, ByAuto
  <2>8. QED
    BY <2>6, <2>7 DEF Orderly
<1>4. ASSUME NEW b \in Bank, NEW row \in Row, Activate(b, row) PROVE Orderly
  <2>1. MayActivate(b) /\ Open(b, row)
    BY <1>4 DEF Activate
  <2>2. \A c \in Bank : InTime(c)'
    BY <2>1, OpenInTime
  <2>3. \A c \in Bank : ~Closes(c)
    BY <2>1, ShapeAssumption DEF Open, Closes, NoRow, IInv, TypeOK
  <2>4. QED
    BY <2>2, <2>3 DEF Orderly
<1>5. ASSUME NEW r \in Rank, PrechargeAll(r) PROVE Orderly
  BY <1>5, CloseOrderly DEF PrechargeAll, MayPrechargeAll, MayPrecharge
<1>6. ASSUME NEW r \in Rank, PowerUp(r) PROVE Orderly
  <2>1. Wake(r) /\ WakeTime(FirstOf(r)) <= deadline[0]
    BY <1>6 DEF PowerUp, MayWake
  <2>2. ASSUME NEW c \in BanksOf(r), activeRow[c] # NoRow PROVE T_XP <= LongestWait(r)
    <3>1. c \in Bank /\ RankOf(c) = r /\ FirstOf(r) \in Bank /\ RankOf(FirstOf(r)) = r
      BY FirstBank DEF BanksOf
    <3>2. state[c] # "PRECHARGE_POWER_DOWN_SLOW"
      BY <2>2, <3>1 DEF IInv, RanksWhole, OpenRowKnown
    <3>3. state[FirstOf(r)] # "PRECHARGE_POWER_DOWN_SLOW"
      BY <3>1, <3>2 DEF IInv, RanksWhole, RankSleepsTogether
    <3>4. T_XP <= deadline[0]
      BY <2>1, <3>3 DEF WakeTime
    <3>5. deadline[r] \in Int
      BY DEF IInv, TypeOK
    <3>6. QED
      BY <3>4, <3>5, Times DEF LongestWait, Later
  <2>3. QED
    BY <2>1, <2>2, WakeOrderly
<1>7. ASSUME NEW r \in Rank, Refresh(r) PROVE Orderly
  <2> DEFINE t == BeforeRefresh(r) + T_RFC
  <2>1. t \in Int
    BY Times DEF BeforeRefresh
  <2>2. \A c \in Bank : c \in BanksOf(r) => next[c]["pre"] = 0
    BY <1>7, BankTimers DEF Refresh, MayRefresh, CInv, InTime
  <2>3. /\ next' = DelayAll(BanksOf(r), Closing(t)) /\ deadline' = deadline /\ commanded'
        /\ \A c \in Bank : activeRow'[c] = IF c \in BanksOf(r) THEN NoRow ELSE activeRow[c]
    BY <1>7 DEF Refresh
  <2> HIDE DEF t
  <2>4. \A c \in Bank : c \in BanksOf(r) => next[c]["pre"] <= Later(t, 0)
    BY <2>1, <2>2 DEF Later
  <2>5. \A c \in Bank : InTime(c)'
    BY <2>1, <2>3, <2>4, ClosingInTime
  <2>6. \A c \in Bank : Closes(c) => commanded' /\ next[c]["pre"] <= 0
    BY <2>2, <2>3 DEF Closes
  <2>7. QED
    BY <2>5, <2>6 DEF Orderly
<1>8. ASSUME NEW r \in Rank, NEW slow \in BOOLEAN, PowerDown(r, slow) PROVE Orderly
  <2>1. \A c \in Bank : InTime(c)' /\ activeRow'[c] = activeRow[c]
    BY <1>8, SleepInTime
  <2>2. QED
    BY <2>1 DEF Orderly, Closes
<1>9. QED
  BY <1>1, <1>2, <1>3, <1>4, <1>5, <1>6, <1>7, <1>8 DEF Command

\* Every step leaves every bank in time
LEMMA CNext == RoomInWindow /\ IInv /\ CInv /\ [Next]_vars => CInv'
<1> SUFFICES ASSUME RoomInWindow, IInv, CInv, [Next]_vars PROVE CInv'
  OBVIOUS
<1>1. IInv'
  BY NextKeeps
<1>2. (\A r \in Rank : Current(r))'
  BY StaysCurrent
<1>3. CASE Tick
  BY <1>1, <1>2, <1>3, TickInTime DEF CInv
<1>4. CASE Command
  BY <1>1, <1>2, <1>4, CommandOrderly DEF CInv, Orderly
<1>5. CASE UNCHANGED vars
  BY <1>2, <1>5 DEF vars, timing, refresh, CInv, InTime, LongestWait
<1>6. QED
  BY <1>3, <1>4, <1>5 DEF Next

\* and closes rows in time.
LEMMA StepInTime ==
  RoomInWindow /\ IInv /\ CInv /\ [Next]_vars => [\A b \in Bank : RowClosedInTime(b)]_vars
<1> SUFFICES ASSUME RoomInWindow, IInv, CInv, Next, NEW b \in Bank,
                    Closes(b), ~ByAuto(b)
             PROVE  next[b]["pre"] <= IF commanded' THEN 0
                                      ELSE IF RankOf(b) = 0 THEN 1 ELSE T_XP
  BY DEF RowClosedInTime
<1>1. IInv'
  BY NextKeeps
<1>2. CASE Command
  BY <1>1, <1>2, CommandOrderly DEF Orderly
<1>3. CASE Tick
  <2>1. ~commanded' /\ MustRefresh(RankOf(b))
    BY <1>3 DEF Tick, Closes
  <2>2. deadline[RankOf(b)] = 1
    BY <2>1 DEF MustRefresh
  <2>3. next[b]["pre"] <= LongestWait(RankOf(b))
    BY DEF CInv, InTime, Closes
  <2>4. T_XP \in Nat \ {0} /\ next[b]["pre"] \in Nat
    BY TimingAssumption, BankTimers
  <2>5. QED
    BY <2>1, <2>2, <2>3, <2>4 DEF LongestWait, Later
<1>4. QED
  BY <1>2, <1>3 DEF Next

\* A row is closed only when its bank may be precharged, by every command and,
\* but for the wake-ups of ranks other than the first, by the forced refreshes,
\* which test no timer; if what keeps a row open has room before the first
\* moment at which refreshes may be forced (issue_refresh_command,
\* update_memory).
THEOREM RowsAreClosedInTime == RoomInWindow => (Spec => RowsClosedInTime)
<1>1. Init => CInv
  <2>1. ASSUME Init, NEW b \in Bank PROVE InTime(b)
    <3>1. next[b] = [t \in Timers |-> 0] /\ activeRow[b] = NoRow
      BY <2>1 DEF Init
    <3>2. QED
      BY <3>1 DEF InTime, Timers
  <2>2. ASSUME Init, NEW r \in Rank PROVE Current(r)
    BY <2>2, FirstMoments DEF Init, Current, FirstMoment
  <2>3. QED
    BY <2>1, <2>2 DEF CInv
<1> SUFFICES ASSUME RoomInWindow PROVE Spec => RowsClosedInTime
  OBVIOUS
<1>2. IInv /\ CInv /\ [Next]_vars => CInv'
  BY CNext
<1>3. IInv /\ CInv /\ [Next]_vars => [\A b \in Bank : RowClosedInTime(b)]_vars
  BY StepInTime
<1>4. QED
  BY InitHolds, NextKeeps, <1>1, <1>2, <1>3, PTL DEF Spec, RowsClosedInTime

-----------------------------------------------------------------------------
(* The schedulers of DramFcfs.                                             *)

\* A queue and the requests of it that are served.
Kept(queue, write, n) ==
  /\ queue \in Seq(Queued(write)) /\ IsFiniteSet(ServedIn(queue))
  /\ Cardinality(ServedIn(queue)) \in Nat /\ Cardinality(ServedIn(queue)) <= n

\* The requests of a queue that are served are finitely many.
LEMMA ServedFinite ==
  ASSUME NEW write, NEW queue \in Seq(Queued(write))
  PROVE  IsFiniteSet(ServedIn(queue)) /\ Cardinality(ServedIn(queue)) \in Nat
<1>1. IsFiniteSet(1..Len(queue)) /\ ServedIn(queue) \subseteq 1..Len(queue)
  BY FS_Interval DEF ServedIn
<1> QED BY <1>1, FS_Subset, FS_CardinalityType

\* A request that arrives is of the kind of its queue, and not served.
LEMMA Arrives ==
  ASSUME NEW write \in BOOLEAN, NEW queue \in Seq(Queued(write)), NEW b \in Bank,
         NEW row \in Row
  PROVE  /\ Append(queue, NewRequest(write, b, row)) \in Seq(Queued(write))
         /\ Len(Append(queue, NewRequest(write, b, row))) = Len(queue) + 1
         /\ ServedIn(Append(queue, NewRequest(write, b, row))) = ServedIn(queue)
<1> DEFINE e == NewRequest(write, b, row)
           q == Append(queue, e)
           L == Len(queue)
<1>1. e \in Queued(write) /\ ~e.served
  BY DEF NewRequest, Queued
<1> HIDE DEF e
<1>2. /\ q \in Seq(Queued(write)) /\ L \in Nat /\ Len(q) = L + 1 /\ DOMAIN q = 1..(L + 1)
      /\ DOMAIN queue = 1..L /\ q[L + 1] = e /\ \A i \in 1..L : q[i] = queue[i]
  BY <1>1
<1> HIDE DEF q, L
<1>3. \A i \in 1..(L + 1) : i = L + 1 \/ i \in 1..L
  BY <1>2
<1>4. ServedIn(q) = ServedIn(queue)
  BY <1>1, <1>2, <1>3 DEF ServedIn
<1> QED BY <1>2, <1>4 DEF q, L, e

\* A request that is served stays in its queue for the rest of the cycle.
LEMMA ServedRight ==
  ASSUME NEW write, NEW queue \in Seq(Queued(write)), NEW i \in DOMAIN queue
  PROVE  /\ Served(queue, i) \in Seq(Queued(write)) /\ Len(Served(queue, i)) = Len(queue)
         /\ ServedIn(Served(queue, i)) \subseteq ServedIn(queue) \cup {i}
<1> DEFINE q == [queue EXCEPT ![i].served = TRUE]
           e == [queue[i] EXCEPT !.served = TRUE]
<1>1. e \in Queued(write)
  <2>1. queue[i] \in Queued(write)
    OBVIOUS
  <2> QED BY <2>1 DEF Queued
<1>2. q = [queue EXCEPT ![i] = e]
  OBVIOUS
<1> HIDE DEF e, q
<1>3. /\ q \in Seq(Queued(write)) /\ Len(q) = Len(queue) /\ DOMAIN q = DOMAIN queue
      /\ \A j \in DOMAIN queue : j # i => q[j] = queue[j]
  <2>1. i \in 1..Len(queue) /\ DOMAIN queue = 1..Len(queue)
    BY LenProperties
  <2>2. /\ q \in Seq(Queued(write)) /\ Len(q) = Len(queue)
        /\ \A j \in 1..Len(queue) : q[j] = IF j = i THEN e ELSE queue[j]
    BY <1>1, <1>2, <2>1, ExceptSeq
  <2>3. DOMAIN q = 1..Len(queue)
    BY <2>2, LenProperties
  <2> QED BY <2>1, <2>2, <2>3
<1>4. ServedIn(q) \subseteq ServedIn(queue) \cup {i}
  BY <1>3 DEF ServedIn
<1>5. Served(queue, i) = queue \/ Served(queue, i) = q
  BY DEF Served, q
<1> QED BY <1>3, <1>4, <1>5

\* What issue_request_command does for a request does not depend on what else
\* the queue keeps with it.
LEMMA IssuesRequest ==
  ASSUME NEW write \in BOOLEAN, NEW q \in Queued(write), IssueRequest(q)
  PROVE  \E r \in Request : IssueRequest(r)
<1> DEFINE r == [write |-> q.write, bank |-> q.bank, row |-> q.row]
<1>1. /\ r \in Request /\ r.write = q.write /\ r.bank = q.bank /\ r.row = q.row
  BY DEF Queued, Request
<1> HIDE DEF r
<1>2. NextCommand(r) = NextCommand(q)
  BY <1>1 DEF NextCommand
<1>3. Issuable(r) <=> Issuable(q)
  BY <1>1, <1>2 DEF Issuable, ReadIssuable, WriteIssuable
<1>4. IssueRequest(r)
  BY <1>1, <1>2, <1>3 DEF IssueRequest, IssueActivate, IssuePrecharge, IssuePowerUp,
                          IssueRead, IssueWrite
<1> QED BY <1>1, <1>4

\* The request the scheduler takes is one of the queue it looks at.
LEMMA CandidateRight ==
  ASSUME FcfsTypeOK, NEW i \in First(Candidates)
  PROVE  \E write \in BOOLEAN :
           Candidates[i] \in Queued(write) /\ i \in DOMAIN Candidates
<1>1. i \in DOMAIN Candidates
  BY DEF First
<1>2. CASE Draining
  <2>1. writes \in Seq(Queued(TRUE)) /\ Candidates = writes
    BY <1>2 DEF FcfsTypeOK, Candidates
  <2>2. \A k \in DOMAIN writes : writes[k] \in Queued(TRUE)
    BY <2>1, ElementOfSeq, LenProperties
  <2>3. Candidates[i] \in Queued(TRUE)
    BY <1>1, <2>1, <2>2
  <2> QED BY <1>1, <2>3
<1>3. CASE ~Draining
  <2>1. reads \in Seq(Queued(FALSE)) /\ Candidates = reads
    BY <1>3 DEF FcfsTypeOK, Candidates
  <2>2. \A k \in DOMAIN reads : reads[k] \in Queued(FALSE)
    BY <2>1, ElementOfSeq, LenProperties
  <2>3. Candidates[i] \in Queued(FALSE)
    BY <1>1, <2>1, <2>2
  <2> QED BY <1>1, <2>3
<1> QED BY <1>2, <1>3

\* One element is at most one served request in both queues together.
LEMMA OneIsServed ==
  ASSUME NEW i, NEW S, NEW T,
         \/ S = {} /\ T \subseteq {i}
         \/ T = {} /\ S \subseteq {i}
  PROVE  Cardinality(S) + Cardinality(T) <= 1
<1>1. Cardinality({}) = 0 /\ Cardinality({i}) = 1
  BY FS_EmptySet, FS_Singleton
<1>2. \/ S = {} /\ T = {}
      \/ S = {} /\ T = {i}
      \/ S = {i} /\ T = {}
  OBVIOUS
<1>3. \/ Cardinality(S) = 0 /\ Cardinality(T) = 0
      \/ Cardinality(S) = 0 /\ Cardinality(T) = 1
      \/ Cardinality(S) = 1 /\ Cardinality(T) = 0
  BY <1>1, <1>2
<1> QED BY <1>3

\* The loop over the banks visits banks, and begins again after the last.
LEMMA QuotientBelow ==
  ASSUME NEW m \in Nat \ {0}, NEW n \in Nat \ {0}, NEW k \in 0..((m * n) - 1)
  PROVE  k \div n \in 0..(m - 1) /\ k % n \in 0..(n - 1)
<1> DEFINE q == k \div n
           r == k % n
<1>1. q \in Nat /\ r \in 0..(n - 1) /\ k = (n * q) + r
  OBVIOUS
<1> HIDE DEF q, r
<1>2. ASSUME q >= m PROVE FALSE
  <2>1. n * q >= n * m
    BY <1>1, <1>2
  <2> QED BY <1>1, <2>1
<1>3. q < m
  BY <1>1, <1>2
<1>4. q \in 0..(m - 1) /\ r \in 0..(n - 1)
  BY <1>1, <1>3
<1> QED BY <1>4 DEF q, r

LEMMA BanksVisited ==
  ASSUME NEW k \in 0..(Banks - 1)
  PROVE  BankAt(k) \in Bank /\ (k + 1) % Banks \in 0..(Banks - 1)
<1>1. Banks \in Nat \ {0}
  BY ShapeAssumption DEF Banks
<1>2. BankAt(k) \in Bank
  BY ShapeAssumption, QuotientBelow DEF Banks, BankAt, Bank, Rank
<1>3. (k + 1) % Banks \in 0..(Banks - 1)
  BY <1>1
<1> QED BY <1>2, <1>3

\* The queues after a cycle of the scheduler.
LEMMA ScheduleKeeps ==
  ASSUME FcfsTypeOK, Schedule
  PROVE  FcfsTypeOK'
<1>1. /\ turn = "schedule" /\ turn' \in {"close", "arrive"} /\ drain' = Draining
      /\ Draining \in BOOLEAN /\ visited' = visited
  BY DEF Schedule, Draining
<1>2. /\ reads \in Seq(Queued(FALSE)) /\ writes \in Seq(Queued(TRUE))
      /\ Len(reads) <= MaxReads /\ Len(writes) <= MaxWrites
      /\ recent \in [Bank -> BOOLEAN] /\ visited \in 0..(Banks - 1) /\ sent \in Nat
  BY DEF FcfsTypeOK
<1>3. ServedIn(reads) = {} /\ ServedIn(writes) = {}
  <2> DEFINE m == Cardinality(ServedIn(reads))
             n == Cardinality(ServedIn(writes))
  <2>1. m \in Nat /\ n \in Nat /\ m + n <= 0
    BY <1>1, <1>2, ServedFinite DEF FcfsTypeOK, ServedNow
  <2> HIDE DEF m, n
  <2>2. m = 0 /\ n = 0
    BY <2>1
  <2> QED BY <1>2, <2>2, ServedFinite, FS_EmptySet DEF m, n
<1>4. ASSUME NEW r, NEW w, reads' = r, writes' = w,
             r \in Seq(Queued(FALSE)), w \in Seq(Queued(TRUE)),
             Len(r) = Len(reads), Len(w) = Len(writes),
             recent' \in [Bank -> BOOLEAN], sent' = 1,
             NEW i, \/ ServedIn(r) = {} /\ ServedIn(w) \subseteq {i}
                    \/ ServedIn(w) = {} /\ ServedIn(r) \subseteq {i}
      PROVE  FcfsTypeOK'
  <2>1. Cardinality(ServedIn(r)) + Cardinality(ServedIn(w)) <= 1
    BY <1>4, OneIsServed
  <2>2. ServedIn(reads)' = ServedIn(r) /\ ServedIn(writes)' = ServedIn(w)
    BY <1>4 DEF ServedIn
  <2>3. (Cardinality(ServedIn(reads)) + Cardinality(ServedIn(writes)) <= sent)'
    BY <1>4, <2>1, <2>2
  <2>4. Len(reads') <= MaxReads /\ Len(writes') <= MaxWrites
    BY <1>2, <1>4
  <2> QED BY <1>1, <1>2, <1>4, <2>3, <2>4 DEF FcfsTypeOK, ServedNow, Turn
<1>5. CASE IssueFirst /\ sent' = sent + 1
  <2>1. PICK i \in First(Candidates) :
          /\ recent' = IF closePage THEN Recent(Candidates[i]) ELSE recent
          /\ reads'  = IF Draining THEN reads ELSE Served(reads, i)
          /\ writes' = IF Draining THEN Served(writes, i) ELSE writes
    BY <1>5 DEF IssueFirst
  <2>2. recent' \in [Bank -> BOOLEAN]
    <3>1. Recent(Candidates[i]) \in [Bank -> BOOLEAN]
      BY <1>2 DEF Recent
    <3> QED BY <1>2, <2>1, <3>1
  <2>3. i \in DOMAIN Candidates /\ sent' = 1
    BY <1>1, <1>5 DEF First, FcfsTypeOK
  <2>4. CASE Draining
    <3>1. i \in DOMAIN writes /\ reads' = reads /\ writes' = Served(writes, i)
      BY <2>1, <2>3, <2>4 DEF Candidates
    <3>2. /\ Served(writes, i) \in Seq(Queued(TRUE)) /\ Len(Served(writes, i)) = Len(writes)
          /\ ServedIn(Served(writes, i)) \subseteq {i}
      BY <1>2, <1>3, <3>1, ServedRight
    <3> QED BY <1>2, <1>3, <1>4, <2>2, <2>3, <3>1, <3>2
  <2>5. CASE ~Draining
    <3>1. i \in DOMAIN reads /\ writes' = writes /\ reads' = Served(reads, i)
      BY <2>1, <2>3, <2>5 DEF Candidates
    <3>2. /\ Served(reads, i) \in Seq(Queued(FALSE)) /\ Len(Served(reads, i)) = Len(reads)
          /\ ServedIn(Served(reads, i)) \subseteq {i}
      BY <1>2, <1>3, <3>1, ServedRight
    <3> QED BY <1>2, <1>3, <1>4, <2>2, <2>3, <3>1, <3>2
  <2> QED BY <2>4, <2>5
<1>6. CASE UNCHANGED <<vars, queues, recent, sent>>
  <2>1. reads' = reads /\ writes' = writes /\ recent' = recent /\ sent' = sent
    BY <1>6 DEF queues
  <2>2. (Cardinality(ServedIn(reads)) + Cardinality(ServedIn(writes)) <= sent)'
    BY <2>1 DEF FcfsTypeOK, ServedNow, ServedIn
  <2> QED BY <1>1, <1>2, <2>1, <2>2 DEF FcfsTypeOK, ServedNow, Turn
<1> QED BY <1>5, <1>6 DEF Schedule

\* The queues and the loop after one of its turns.
LEMMA LoopKeeps ==
  ASSUME FcfsTypeOK, CloseNext
  PROVE  FcfsTypeOK'
<1>1. /\ turn = "close" /\ turn' \in {"close", "arrive"} /\ drain' = drain
      /\ reads' = reads /\ writes' = writes /\ visited' = (visited + 1) % Banks
      /\ \/ recent' = recent
         \/ recent' = [recent EXCEPT ![BankAt(visited)] = FALSE]
      /\ sent' \in {sent, sent + 1}
  BY DEF CloseNext, queues
<1>2. visited \in 0..(Banks - 1) /\ sent \in Nat /\ recent \in [Bank -> BOOLEAN]
  BY DEF FcfsTypeOK
<1>3. visited' \in 0..(Banks - 1)
  BY <1>1, <1>2, BanksVisited
<1>4. sent' \in Nat
  BY <1>1, <1>2
<1>5. recent' \in [Bank -> BOOLEAN]
  BY <1>1, <1>2
<1>6. ServedIn(reads)' = ServedIn(reads) /\ ServedIn(writes)' = ServedIn(writes)
  BY <1>1 DEF ServedIn
<1>7. ServedNow'
  <2> DEFINE m == Cardinality(ServedIn(reads)) + Cardinality(ServedIn(writes))
  <2>1. m \in Nat
    <3>1. /\ Cardinality(ServedIn(reads)) \in Nat
          /\ Cardinality(ServedIn(writes)) \in Nat
      BY ServedFinite DEF FcfsTypeOK
    <3> QED BY <3>1
  <2>2. m <= sent /\ m' = m
    BY <1>6 DEF FcfsTypeOK, ServedNow
  <2>3. m' <= sent'
    <3> HIDE DEF m
    <3> QED BY <1>1, <1>2, <2>1, <2>2
  <2> QED BY <2>3 DEF ServedNow
<1> QED BY <1>1, <1>3, <1>4, <1>5, <1>7 DEF FcfsTypeOK, Turn

\* The queues stay within their types in every step.
LEMMA FcfsKeeps == FcfsTypeOK /\ [FcfsNext]_fcfsVars => FcfsTypeOK'
<1> SUFFICES ASSUME FcfsTypeOK, [FcfsNext]_fcfsVars PROVE FcfsTypeOK'
  OBVIOUS
<1>1. CASE Update
  <2>1. /\ reads' = Clean(reads) /\ writes' = Clean(writes) /\ turn' = "schedule"
        /\ drain' = drain /\ recent' = recent /\ visited' = visited /\ sent' = 0
    BY <1>1 DEF Update
  <2>2. reads \in Seq(Queued(FALSE)) /\ writes \in Seq(Queued(TRUE))
    BY DEF FcfsTypeOK
  <2>3. /\ Clean(reads) \in Seq(Queued(FALSE)) /\ Len(Clean(reads)) <= Len(reads)
        /\ \A j \in DOMAIN Clean(reads) : ~Clean(reads)[j].served
    BY <2>2, CleanRight
  <2>4. /\ Clean(writes) \in Seq(Queued(TRUE)) /\ Len(Clean(writes)) <= Len(writes)
        /\ \A j \in DOMAIN Clean(writes) : ~Clean(writes)[j].served
    BY <2>2, CleanRight
  <2>5. ServedIn(Clean(reads)) = {} /\ ServedIn(Clean(writes)) = {} /\ Cardinality({}) = 0
    BY <2>3, <2>4, FS_EmptySet DEF ServedIn
  <2>6. Len(Clean(reads)) <= MaxReads /\ Len(Clean(writes)) <= MaxWrites
    <3>1. Len(Clean(reads)) \in Nat /\ Len(reads) \in Nat /\ Len(reads) <= MaxReads
      BY <2>2, <2>3 DEF FcfsTypeOK
    <3>2. Len(Clean(writes)) \in Nat /\ Len(writes) \in Nat /\ Len(writes) <= MaxWrites
      BY <2>2, <2>4 DEF FcfsTypeOK
    <3> QED BY <2>3, <2>4, <3>1, <3>2, QueueAssumption
  <2> DEFINE r == Clean(reads)
             w == Clean(writes)
  <2> HIDE DEF r, w
  <2>7. /\ reads' = r /\ writes' = w /\ r \in Seq(Queued(FALSE)) /\ w \in Seq(Queued(TRUE))
        /\ Len(r) <= MaxReads /\ Len(w) <= MaxWrites
        /\ Cardinality(ServedIn(r)) + Cardinality(ServedIn(w)) <= 0
    <3>1. Cardinality(ServedIn(r)) = 0 /\ Cardinality(ServedIn(w)) = 0
      BY <2>5 DEF r, w
    <3>2. Cardinality(ServedIn(r)) + Cardinality(ServedIn(w)) <= 0
      BY <3>1
    <3>3. Len(r) <= MaxReads /\ Len(w) <= MaxWrites
      BY <2>6 DEF r, w
    <3>4. /\ reads' = r /\ writes' = w /\ r \in Seq(Queued(FALSE)) /\ w \in Seq(Queued(TRUE))
      BY <2>1, <2>3, <2>4 DEF r, w
    <3> QED BY <3>2, <3>3, <3>4
  <2> QED BY <2>1, <2>7 DEF FcfsTypeOK, ServedNow, Turn, ServedIn
<1>2. CASE Schedule
  BY <1>2, ScheduleKeeps
<1>3. ASSUME NEW b \in Bank, NEW row \in Row, Arrive(b, row) PROVE FcfsTypeOK'
  <2>1. /\ turn = "arrive" /\ turn' = turn /\ drain' = drain /\ recent' = recent
        /\ visited' = visited /\ sent' = sent
    BY <1>3 DEF Arrive
  <2>2. /\ reads \in Seq(Queued(FALSE)) /\ writes \in Seq(Queued(TRUE))
        /\ Len(reads) \in Nat /\ Len(writes) \in Nat
        /\ Len(reads) <= MaxReads /\ Len(writes) <= MaxWrites
    <3>1. /\ reads \in Seq(Queued(FALSE)) /\ writes \in Seq(Queued(TRUE))
          /\ Len(reads) <= MaxReads /\ Len(writes) <= MaxWrites
      BY DEF FcfsTypeOK
    <3>2. Len(reads) \in Nat /\ Len(writes) \in Nat
      BY <3>1, LenProperties
    <3> QED BY <3>1, <3>2
  <2>3. /\ reads' \in Seq(Queued(FALSE)) /\ Len(reads') <= MaxReads
        /\ writes' \in Seq(Queued(TRUE)) /\ Len(writes') <= MaxWrites
        /\ ServedIn(reads') = ServedIn(reads) /\ ServedIn(writes') = ServedIn(writes)
    <3>1. CASE InsertRead(b, row)
      <4>1. reads' = Append(reads, NewRequest(FALSE, b, row)) /\ writes' = writes
            /\ Len(reads) < MaxReads
        BY <3>1 DEF InsertRead
      <4>2. /\ reads' \in Seq(Queued(FALSE)) /\ Len(reads') = Len(reads) + 1
            /\ ServedIn(reads') = ServedIn(reads)
        BY <2>2, <4>1, Arrives
      <4>3. Len(reads') <= MaxReads
        BY <2>2, <4>1, <4>2, QueueAssumption
      <4> QED BY <2>2, <4>1, <4>2, <4>3
    <3>2. CASE InsertWrite(b, row)
      <4>1. writes' = Append(writes, NewRequest(TRUE, b, row)) /\ reads' = reads
            /\ Len(writes) < MaxWrites
        BY <3>2 DEF InsertWrite
      <4>2. /\ writes' \in Seq(Queued(TRUE)) /\ Len(writes') = Len(writes) + 1
            /\ ServedIn(writes') = ServedIn(writes)
        BY <2>2, <4>1, Arrives
      <4>3. Len(writes') <= MaxWrites
        BY <2>2, <4>1, <4>2, QueueAssumption
      <4> QED BY <2>2, <4>1, <4>2, <4>3
    <3> QED BY <1>3, <3>1, <3>2 DEF Arrive
  <2>4. ServedIn(reads)' = ServedIn(reads) /\ ServedIn(writes)' = ServedIn(writes)
    BY <2>3 DEF ServedIn
  <2> QED BY <2>1, <2>3, <2>4 DEF FcfsTypeOK, ServedNow
<1>4. CASE CloseNext
  BY <1>4, LoopKeeps
<1>5. CASE UNCHANGED fcfsVars
  BY <1>5 DEF fcfsVars, queues, FcfsTypeOK, ServedNow, ServedIn
<1> QED BY <1>1, <1>2, <1>3, <1>4, <1>5 DEF FcfsNext, Cycle

\* A cycle of the scheduler is a command of DramBanks, or none.
LEMMA FcfsImplements == FcfsTypeOK /\ [FcfsNext]_fcfsVars => [Next]_vars
<1> SUFFICES ASSUME FcfsTypeOK, [FcfsNext]_fcfsVars PROVE Next \/ UNCHANGED vars
  OBVIOUS
<1>1. CASE Update
  BY <1>1 DEF Update, Next
<1>2. CASE Schedule
  <2>1. CASE IssueFirst
    <3>1. PICK i \in First(Candidates) : IssueRequest(Candidates[i])
      BY <2>1 DEF IssueFirst
    <3>2. \E r \in Request : IssueRequest(r)
      BY <3>1, CandidateRight, IssuesRequest
    <3> QED BY <3>2 DEF Next, Command
  <2> QED BY <1>2, <2>1 DEF Schedule
<1>3. CASE CloseNext
  <2>1. BankAt(visited) \in Bank
    BY BanksVisited DEF FcfsTypeOK
  <2> QED BY <1>3, <2>1 DEF CloseNext, Next, Command
<1>4. ASSUME NEW b \in Bank, NEW row \in Row, Arrive(b, row) PROVE UNCHANGED vars
  BY <1>4 DEF Arrive
<1>5. CASE UNCHANGED fcfsVars
  BY <1>5 DEF fcfsVars
<1> QED BY <1>1, <1>2, <1>3, <1>4, <1>5 DEF FcfsNext, Cycle

\* What is sent in a cycle is in command_issued_current_cycle, which is clear
\* when the scheduler begins.
CountedInCycle ==
  /\ commanded \in BOOLEAN
  /\ sent = IF commanded THEN 1 ELSE 0
  /\ turn = "schedule" => ~commanded

\* A command goes to the banks only when command_issued_current_cycle is clear,
\* and sets it.
LEMMA CommandsCounted ==
  ASSUME NEW q, IssueRequest(q) \/ Precharge(q)
  PROVE  ~commanded /\ commanded'
<1>1. CASE IssueRequest(q)
  BY <1>1 DEF IssueRequest, IssueActivate, IssuePrecharge, IssuePowerUp, IssueRead,
              IssueWrite, Open, Close, Wake, Column
<1>2. CASE Precharge(q)
  BY <1>2 DEF Precharge, Close
<1> QED BY <1>1, <1>2

LEMMA CountKept == CountedInCycle /\ [FcfsNext]_fcfsVars => CountedInCycle'
<1> SUFFICES ASSUME CountedInCycle, [FcfsNext]_fcfsVars PROVE CountedInCycle'
  OBVIOUS
<1>1. CASE Update
  BY <1>1 DEF Update, Tick, CountedInCycle
<1>2. CASE Schedule
  <2>1. turn' # "schedule"
    BY <1>2 DEF Schedule
  <2>2. CASE IssueFirst /\ sent' = sent + 1
    <3>1. PICK i \in First(Candidates) : IssueRequest(Candidates[i])
      BY <2>2 DEF IssueFirst
    <3>2. ~commanded /\ commanded'
      BY <3>1, CommandsCounted
    <3>3. commanded' \in BOOLEAN
      BY <3>1 DEF IssueRequest, IssueActivate, IssuePrecharge, IssuePowerUp, IssueRead,
                  IssueWrite, Open, Close, Wake, Column
    <3> QED BY <2>1, <2>2, <3>2, <3>3 DEF CountedInCycle
  <2>3. CASE UNCHANGED <<vars, queues, recent, sent>>
    BY <2>1, <2>3 DEF vars, CountedInCycle
  <2> QED BY <1>2, <2>2, <2>3 DEF Schedule
<1>3. CASE CloseNext
  <2>1. turn' # "schedule"
    BY <1>3 DEF CloseNext
  <2>2. CASE Precharge(BankAt(visited)) /\ sent' = sent + 1
    <3>1. ~commanded /\ commanded' /\ commanded' \in BOOLEAN
      BY <2>2 DEF Precharge, Close
    <3> QED BY <2>1, <2>2, <3>1 DEF CountedInCycle
  <2>3. CASE UNCHANGED <<vars, recent, sent>>
    BY <2>1, <2>3 DEF vars, CountedInCycle
  <2> QED BY <1>3, <2>2, <2>3 DEF CloseNext
<1>4. ASSUME NEW b \in Bank, NEW row \in Row, Arrive(b, row) PROVE CountedInCycle'
  BY <1>4 DEF Arrive, vars, CountedInCycle
<1>5. CASE UNCHANGED fcfsVars
  BY <1>5 DEF fcfsVars, vars, CountedInCycle
<1> QED BY <1>1, <1>2, <1>3, <1>4, <1>5 DEF FcfsNext, Cycle

\* The schedulers start with empty queues.
LEMMA FcfsStarts == FcfsInit => Init /\ FcfsTypeOK /\ CountedInCycle
<1> SUFFICES ASSUME FcfsInit PROVE FcfsTypeOK /\ CountedInCycle
  BY DEF FcfsInit
<1>1. /\ <<>> \in Seq(Queued(FALSE)) /\ <<>> \in Seq(Queued(TRUE))
      /\ Len(<<>>) = 0 /\ 0 <= MaxReads /\ 0 <= MaxWrites
  BY QueueAssumption
<1>2. ServedIn(<<>>) = {} /\ Cardinality({}) = 0
  BY FS_EmptySet DEF ServedIn
<1>3. reads = <<>> /\ writes = <<>>
  BY DEF FcfsInit
<1>4. Cardinality(ServedIn(reads)) = 0 /\ Cardinality(ServedIn(writes)) = 0
  BY <1>2, <1>3
<1>5. ServedNow /\ sent = 0
  BY <1>4 DEF FcfsInit, ServedNow
<1>6. /\ reads \in Seq(Queued(FALSE)) /\ Len(reads) <= MaxReads
      /\ writes \in Seq(Queued(TRUE)) /\ Len(writes) <= MaxWrites
  BY <1>1, <1>3
<1>7. Banks \in Nat \ {0}
  BY ShapeAssumption DEF Banks
<1>8. visited \in 0..(Banks - 1) /\ sent \in Nat
  BY <1>7 DEF FcfsInit
<1>9. CountedInCycle
  BY DEF FcfsInit, Init, CountedInCycle
<1> QED BY <1>5, <1>6, <1>8, <1>9 DEF FcfsInit, FcfsTypeOK, Turn

\* Whatever the queues and the water marks, the queues of the schedulers keep
\* requests of their kind, and a request that is served is gone before the
\* next command is chosen.
THEOREM QueuesAreRight == FcfsSpec => []FcfsTypeOK
BY FcfsStarts, FcfsKeeps, PTL DEF FcfsSpec

\* For any number of ranks and banks: no more than one command goes to the
\* banks in a cycle, also when scheduler_slow.c goes through the banks to close
\* rows and does not stop at the first it has closed, and no request stays
\* marked as served beyond the cycle of its command.
THEOREM OneCommandPerCycle == FcfsSpec => []OneCommandACycle
<1>1. FcfsTypeOK /\ CountedInCycle => OneCommandACycle
  BY DEF FcfsTypeOK, CountedInCycle, OneCommandACycle
<1> QED BY <1>1, FcfsStarts, FcfsKeeps, CountKept, PTL DEF FcfsSpec

\* All that is proved of the banks holds under these schedulers: the data bus
\* is never used twice at a time, ranks sleep as one, and every window ends with
\* its refreshes.
THEOREM SchedulersAreSafe ==
  FcfsSpec => []TypeOK /\ []RanksWhole /\ []BusNotShared /\ WindowRefreshed
<1>1. FcfsSpec => Spec
  BY FcfsStarts, FcfsKeeps, FcfsImplements, PTL DEF FcfsSpec, Spec
<1> QED BY <1>1, TypeCorrect, RanksAreWhole, BusIsNotShared, EveryWindowRefreshed, PTL
=============================================================================
