------------------------------ MODULE DramBanks ------------------------------
(***************************************************************************)
(* One channel of the command-level memory controller: the state machines  *)
(* of its DRAM banks, the commands a scheduler may issue to them, and the  *)
(* refresh bookkeeping of update_memory.  The scheduler is any scheduler:  *)
(* each cycle it issues a command that is allowed, or none, and the queues *)
(* may hold any request.                                                   *)
(*                                                                         *)
(* Times are kept relative to CYCLE_VAL: next[b].act is the number of      *)
(* cycles until CYCLE_VAL reaches next_act, 0 from then on.                *)
(***************************************************************************)
EXTENDS Integers, FiniteSets

CONSTANTS
  NumRanks, NumBanks,  \* NUM_RANKS of the channel, NUM_BANKS of a rank
  Row,                 \* rows of a bank
  T_RCD, T_RP, T_CAS, T_RAS, T_RC, T_CWD, T_WR, T_WTR, T_RTRS, T_DATA_TRANS,
  T_RTP, T_CCD, T_XP, T_XP_DLL, T_PD_MIN, T_RRD, T_FAW, T_REFI, T_RFC,
                       \* the timing parameters, in DRAM cycles
  MaxActs,             \* 4: activates in a T_FAW window
  Batch                \* 8: refreshes due in a window of 8 * T_REFI

Rank  == 0..(NumRanks - 1)
Bank  == Rank \X (0..(NumBanks - 1))
NoRow == -1

ASSUME ShapeAssumption ==
  /\ NumRanks \in Nat \ {0} /\ NumBanks \in Nat \ {0}
  /\ Row \subseteq Nat
  /\ MaxActs \in Nat /\ Batch \in Nat \ {0}

ASSUME TimingAssumption ==
  /\ \A t \in {T_RCD, T_RP, T_CAS, T_RAS, T_RC, T_CWD, T_WR, T_WTR, T_RTRS,
               T_DATA_TRANS, T_RTP, T_CCD, T_XP, T_XP_DLL, T_PD_MIN, T_RRD,
               T_FAW, T_REFI, T_RFC} : t \in Nat \ {0}
  /\ Batch * T_REFI > T_RP + Batch * T_RFC

VARIABLES
  state, activeRow,    \* of each bank: dram_state[..].state and .active_row
  next,                \* of each bank: when each kind of command may come
  activates,           \* activation_record: cycles since recent activates
  window,              \* next_refresh_completion_deadline
  deadline,            \* refresh_issue_deadline of each rank, -1 once past
  issued,              \* num_issued_refreshes of each rank
  forced,              \* forced_refresh_mode_on of each rank
  commanded,           \* command_issued_current_cycle
  cas,                 \* cas_issued_current_cycle of each bank
  bursts               \* history: recent and coming uses of the data bus

timing  == <<next, activates>>
refresh == <<window, deadline, issued, forced>>
vars    == <<state, activeRow, timing, refresh, commanded, cas, bursts>>

RankOf(b)  == b[1]
BanksOf(r) == {b \in Bank : RankOf(b) = r}
FirstOf(r) == <<r, 0>>
Later(x, y) == IF x < y THEN y ELSE x

Timers  == {"pre", "act", "read", "write", "powerdown", "powerup", "refresh"}
Powered == {"IDLE", "PRECHARGING", "REFRESHING", "ROW_ACTIVE"}
Closed  == {"IDLE", "PRECHARGING", "REFRESHING"}
Asleep  == {"PRECHARGE_POWER_DOWN_FAST", "PRECHARGE_POWER_DOWN_SLOW",
            "ACTIVE_POWER_DOWN"}

-----------------------------------------------------------------------------
(* When a command is allowed.                                              *)

\* The rank takes commands, and one that takes t cycles still fits in before
\* the refreshes that are due must begin.
Fits(r, t) == ~forced[r] /\ t <= deadline[r]

\* is_T_FAW_met
FawMet(r) == Cardinality(activates[r]) < MaxActs

\* Mutant: the deadline of the refreshes is not looked at.
MayActivateLate(b) ==
  /\ ~forced[RankOf(b)]
  /\ state[b] \in Closed
  /\ next[b].act = 0
  /\ FawMet(RankOf(b))

MayActivate(b) ==
  /\ Fits(RankOf(b), T_RAS)
  /\ state[b] \in Closed
  /\ next[b].act = 0
  /\ FawMet(RankOf(b))

MayPrecharge(b) ==
  /\ Fits(RankOf(b), T_RP)
  /\ state[b] \in Powered
  /\ next[b].pre = 0

MayPrechargeAll(r) == \A b \in BanksOf(r) : MayPrecharge(b)

MaySleepFast(r) ==
  /\ Fits(r, T_PD_MIN + T_XP)
  /\ \A b \in BanksOf(r) : state[b] \in Powered /\ next[b].powerdown = 0

MaySleepSlow(r) ==
  /\ Fits(r, T_PD_MIN + T_XP_DLL)
  /\ \A b \in BanksOf(r) : state[b] \in Closed /\ next[b].powerdown = 0

\* How long a bank takes to wake up, as the deadline is tested for it.
WakeTime(b) ==
  IF state[b] = "PRECHARGE_POWER_DOWN_SLOW" THEN T_XP_DLL ELSE T_XP

\* is_powerup_allowed looks at bank 0 of the rank, and for the deadline at
\* rank 0 of the channel.
MayWake(r) ==
  /\ ~forced[r]
  /\ state[FirstOf(r)] \in Asleep
  /\ next[FirstOf(r)].powerup = 0
  /\ WakeTime(FirstOf(r)) <= deadline[0]

\* Refreshes are not tested for the deadline.
MayRefresh(r) == ~forced[r] /\ \A b \in BanksOf(r) : next[b].refresh = 0

-----------------------------------------------------------------------------
(* What the commands do to the banks.                                      *)

\* Timers n, each put off to the time d gives for it, if it gives one.
Delayed(n, d) ==
  [t \in Timers |-> IF t \in DOMAIN d THEN Later(n[t], d[t]) ELSE n[t]]

DelayAll(banks, d) ==
  [b \in Bank |-> IF b \in banks THEN Delayed(next[b], d) ELSE next[b]]

Closing(t) == [pre |-> t, act |-> t, powerdown |-> t, refresh |-> t]

Waking(t) == [pre |-> t, act |-> t, powerdown |-> t, refresh |-> t,
              read |-> t, write |-> t]

Open(b, row) ==
  /\ state' = [state EXCEPT ![b] = "ROW_ACTIVE"]
  /\ activeRow' = [activeRow EXCEPT ![b] = row]
  /\ next' = [c \in Bank |->
       IF c = b
       THEN Delayed(next[c], [pre |-> T_RAS, refresh |-> T_RAS, read |-> T_RCD,
                              write |-> T_RCD, act |-> T_RC, powerdown |-> T_RCD])
       ELSE IF RankOf(c) = RankOf(b) THEN Delayed(next[c], [act |-> T_RRD])
       ELSE next[c]]
  /\ activates' = [activates EXCEPT ![RankOf(b)] = @ \cup {0}]
  /\ commanded' = TRUE
  /\ UNCHANGED <<refresh, cas, bursts>>

\* Mutant: command_issued_current_cycle is not set.
CloseUnnoticed(banks) ==
  /\ state' = [b \in Bank |-> IF b \in banks THEN "PRECHARGING" ELSE state[b]]
  /\ activeRow' = [b \in Bank |-> IF b \in banks THEN NoRow ELSE activeRow[b]]
  /\ next' = DelayAll(banks, Closing(T_RP))
  /\ UNCHANGED <<activates, refresh, commanded, cas, bursts>>

Close(banks) ==
  /\ state' = [b \in Bank |-> IF b \in banks THEN "PRECHARGING" ELSE state[b]]
  /\ activeRow' = [b \in Bank |-> IF b \in banks THEN NoRow ELSE activeRow[b]]
  /\ next' = DelayAll(banks, Closing(T_RP))
  /\ commanded' = TRUE
  /\ UNCHANGED <<activates, refresh, cas, bursts>>

\* Mutant: all banks of the rank wake up as its first one does.
WakeAsFirst(r) ==
  /\ state' = [b \in Bank |->
       IF b \notin BanksOf(r) THEN state[b]
       ELSE IF state[FirstOf(r)] = "ACTIVE_POWER_DOWN" THEN "ROW_ACTIVE" ELSE "IDLE"]
  /\ activeRow' = [b \in Bank |->
       IF b \in BanksOf(r) /\ state[FirstOf(r)] # "ACTIVE_POWER_DOWN" THEN NoRow
       ELSE activeRow[b]]
  /\ next' = DelayAll(BanksOf(r), Waking(T_XP))
  /\ commanded' = TRUE
  /\ UNCHANGED <<activates, refresh, cas, bursts>>

\* The rank wakes up.  Banks that slept with a closed row are idle before
\* their state is tested for the slow mode, so all are given the fast delay.
Wake(r) ==
  /\ state' = [b \in Bank |->
       IF b \notin BanksOf(r) THEN state[b]
       ELSE IF state[b] \in {"PRECHARGE_POWER_DOWN_SLOW", "PRECHARGE_POWER_DOWN_FAST"}
       THEN "IDLE" ELSE "ROW_ACTIVE"]
  /\ activeRow' = [b \in Bank |->
       IF b \in BanksOf(r) /\ state[b] # "ACTIVE_POWER_DOWN" /\ state[b] \in Asleep
       THEN NoRow ELSE activeRow[b]]
  /\ next' = DelayAll(BanksOf(r), Waking(T_XP))
  /\ commanded' = TRUE
  /\ UNCHANGED <<activates, refresh, cas, bursts>>

\* The use of the data bus that starts t cycles from now.  No two are alike:
\* commands of a kind start theirs as many cycles later.
Kind == {"read", "write"}
Burst(r, t, kind) == [rank |-> r, from |-> t, to |-> t + T_DATA_TRANS, kind |-> kind]

\* Cycles from a column command of b to the next read or write of bank c.
ReadToRead(b, c) ==
  IF RankOf(c) = RankOf(b) THEN Later(T_CCD, T_DATA_TRANS)
  ELSE T_DATA_TRANS + T_RTRS
ReadToWrite(b, c) == T_CAS + T_DATA_TRANS + T_RTRS - T_CWD
WriteToWrite(b, c) == ReadToRead(b, c)
\* Mutant: the bus needs no time to pass from one rank to another.
WriteToReadAtOnce(b, c) ==
  IF RankOf(c) = RankOf(b) THEN T_CWD + T_DATA_TRANS + T_WTR
  ELSE T_CWD + T_DATA_TRANS - T_CAS
WriteToRead(b, c) ==
  IF RankOf(c) = RankOf(b) THEN T_CWD + T_DATA_TRANS + T_WTR
  ELSE T_CWD + T_DATA_TRANS + T_RTRS - T_CAS

AfterRead(b) ==
  [c \in Bank |-> [read |-> ReadToRead(b, c), write |-> ReadToWrite(b, c)]]
AfterWrite(b) ==
  [c \in Bank |-> [read |-> WriteToRead(b, c), write |-> WriteToWrite(b, c)]]

\* A column command holds up its bank for t cycles, and the others by the
\* use of the data bus.
Column(b, t, bus, start, kind) ==
  /\ next' = [c \in Bank |->
       Delayed(Delayed(next[c], bus[c]),
               [pre       |-> IF c = b THEN t ELSE 0,
                refresh   |-> IF c = b THEN t ELSE 0,
                powerdown |-> IF c = b THEN t ELSE 0])]
  /\ cas' = [cas EXCEPT ![b] = kind]
  /\ bursts' = bursts \cup {Burst(RankOf(b), start, kind)}
  /\ commanded' = TRUE
  /\ UNCHANGED <<state, activeRow, activates, refresh>>

WriteRecovery == T_CWD + T_DATA_TRANS + T_WR

-----------------------------------------------------------------------------
(* The requests of the queues.                                             *)

\* update_read_queue_commands and update_write_queue_commands: the command
\* request q needs next.
NextCommand(q) ==
  CASE state[q.bank] \in Closed -> "ACT"
    [] state[q.bank] \in Asleep -> "PWR_UP"
    [] OTHER -> IF q.row = activeRow[q.bank] THEN "COL" ELSE "PRE"

\* command_issuable.
ReadIssuable(q) ==
  CASE NextCommand(q) = "ACT" -> MayActivate(q.bank)
    [] NextCommand(q) = "COL" -> Fits(RankOf(q.bank), T_RTP) /\ next[q.bank].read = 0
    [] NextCommand(q) = "PRE" -> MayPrecharge(q.bank)
    [] NextCommand(q) = "PWR_UP" -> /\ WakeTime(q.bank) <= deadline[RankOf(q.bank)]
                                    /\ next[q.bank].powerup = 0

WriteIssuable(q) ==
  CASE NextCommand(q) = "ACT" -> MayActivate(q.bank)
    [] NextCommand(q) = "COL" -> Fits(RankOf(q.bank), WriteRecovery) /\ next[q.bank].write = 0
    [] NextCommand(q) = "PRE" -> MayPrecharge(q.bank)
    [] NextCommand(q) = "PWR_UP" -> /\ Fits(RankOf(q.bank), WakeTime(q.bank))
                                    /\ next[q.bank].powerup = 0

Request == [write : BOOLEAN, bank : Bank, row : Row]
Issuable(q) == IF q.write THEN WriteIssuable(q) ELSE ReadIssuable(q)

\* issue_request_command, by the command.
IssueActivate(q) == NextCommand(q) = "ACT" /\ Open(q.bank, q.row)
IssuePrecharge(q) == NextCommand(q) = "PRE" /\ Close({q.bank})
IssuePowerUp(q) == NextCommand(q) = "PWR_UP" /\ Wake(RankOf(q.bank))
IssueRead(q) ==
  /\ ~q.write
  /\ NextCommand(q) = "COL"
  /\ Column(q.bank, T_RTP, AfterRead(q.bank), T_CAS, "read")
IssueWrite(q) ==
  /\ q.write
  /\ NextCommand(q) = "COL"
  /\ Column(q.bank, WriteRecovery, AfterWrite(q.bank), T_CWD, "write")

IssueRequest(q) ==
  /\ ~commanded
  /\ Issuable(q)
  /\ \/ IssueActivate(q) \/ IssuePrecharge(q) \/ IssuePowerUp(q)
     \/ IssueRead(q) \/ IssueWrite(q)

-----------------------------------------------------------------------------
(* The commands a scheduler may issue of its own.                          *)

Activate(b, row) == ~commanded /\ MayActivate(b) /\ Open(b, row)
Precharge(b)     == ~commanded /\ MayPrecharge(b) /\ Close({b})
PrechargeAll(r)  == ~commanded /\ MayPrechargeAll(r) /\ Close(BanksOf(r))
PowerUp(r)       == ~commanded /\ MayWake(r) /\ Wake(r)

\* When the precharge that goes with the column command of this cycle starts.
AutoStart(b) ==
  Later(next[b].pre, IF cas[b] = "read" THEN T_RTP ELSE WriteRecovery)

AutoPrecharge(b) ==
  /\ cas[b] # "none"
  /\ AutoStart(b) + T_RP <= deadline[RankOf(b)]
  /\ state' = [state EXCEPT ![b] = "PRECHARGING"]
  /\ activeRow' = [activeRow EXCEPT ![b] = NoRow]
  /\ next' = DelayAll({b}, Closing(AutoStart(b) + T_RP))
  /\ cas' = [c \in Bank |-> "none"]
  /\ UNCHANGED <<activates, refresh, commanded, bursts>>

\* The rank falls asleep: next_powerup is set, and not put off.
PowerDown(r, slow) ==
  /\ ~commanded
  /\ IF slow THEN MaySleepSlow(r) ELSE MaySleepFast(r)
  /\ next' = [b \in Bank |->
       IF b \in BanksOf(r)
       THEN [Delayed(next[b], [refresh |-> T_PD_MIN])
               EXCEPT !.powerup = Later(T_PD_MIN, next[b].powerdown)]
       ELSE next[b]]
  /\ state' = [b \in Bank |->
       IF b \notin BanksOf(r) THEN state[b]
       ELSE IF state[b] = "ROW_ACTIVE" THEN "ACTIVE_POWER_DOWN"
       ELSE IF slow THEN "PRECHARGE_POWER_DOWN_SLOW"
       ELSE "PRECHARGE_POWER_DOWN_FAST"]
  /\ activeRow' = [b \in Bank |->
       IF b \in BanksOf(r) /\ state[b] # "ROW_ACTIVE" THEN NoRow ELSE activeRow[b]]
  /\ commanded' = TRUE
  /\ UNCHANGED <<activates, refresh, cas, bursts>>

\* What comes before a refresh: waking up, and closing open rows.
BeforeRefresh(r) ==
  CASE state[FirstOf(r)] = "PRECHARGE_POWER_DOWN_SLOW" -> T_XP_DLL
    [] state[FirstOf(r)] = "PRECHARGE_POWER_DOWN_FAST" -> T_XP
    [] state[FirstOf(r)] = "ACTIVE_POWER_DOWN" -> T_XP + T_RP
    [] OTHER -> IF \E b \in BanksOf(r) : state[b] = "ROW_ACTIVE" THEN T_RP ELSE 0

Refresh(r) ==
  /\ ~commanded
  /\ MayRefresh(r)
  /\ issued' = [issued EXCEPT ![r] = @ + 1]
  /\ next' = DelayAll(BanksOf(r), Closing(BeforeRefresh(r) + T_RFC))
  /\ state' = [b \in Bank |-> IF b \in BanksOf(r) THEN "REFRESHING" ELSE state[b]]
  /\ activeRow' = [b \in Bank |-> IF b \in BanksOf(r) THEN NoRow ELSE activeRow[b]]
  /\ commanded' = TRUE
  /\ UNCHANGED <<activates, window, deadline, forced, cas, bursts>>

-----------------------------------------------------------------------------
(* update_memory, in the next cycle.                                       *)

\* Mutant: times past are not taken for zero.
DownBelow(t) == t - 1
Down(t) == Later(t - 1, 0)

WindowLength == Batch * T_REFI

\* The last moment for the refreshes still due, l cycles before the window
\* ends, when n have been issued.
LastMoment(l, n) == l - T_RP - (Batch - n) * T_RFC

WindowEnds == window = 1

\* Mutant: the last refresh that is due is not counted.
MustRefreshButOne(r) == ~WindowEnds /\ deadline[r] = 1 /\ issued[r] < Batch - 1

\* The moment has come, and refreshes are still due.
MustRefresh(r) == ~WindowEnds /\ deadline[r] = 1 /\ issued[r] < Batch

Ticked(b) ==
  LET t == [x \in Timers |-> Down(next[b][x])]
  IN  IF ~MustRefresh(RankOf(b)) THEN t
      ELSE [t EXCEPT !.act = window - 1, !.pre = window - 1,
                     !.refresh = window - 1, !.powerdown = window - 1]

NextDeadline(r) ==
  IF WindowEnds THEN LastMoment(WindowLength, 0)
  ELSE IF deadline[r] > 1 THEN LastMoment(window - 1, issued[r])
  ELSE Later(deadline[r] - 1, -1)

Tick ==
  /\ next' = [b \in Bank |-> Ticked(b)]
  /\ activates' = [r \in Rank |-> {a + 1 : a \in {x \in activates[r] : x < T_FAW}}]
  /\ window' = IF WindowEnds THEN WindowLength ELSE window - 1
  /\ deadline' = [r \in Rank |-> NextDeadline(r)]
  /\ issued' = [r \in Rank |-> IF WindowEnds THEN 0 ELSE issued[r]]
  /\ forced' = [r \in Rank |-> ~WindowEnds /\ (forced[r] \/ MustRefresh(r))]
  /\ state' = [b \in Bank |->
       IF MustRefresh(RankOf(b)) THEN "REFRESHING" ELSE state[b]]
  /\ activeRow' = [b \in Bank |->
       IF MustRefresh(RankOf(b)) THEN NoRow ELSE activeRow[b]]
  /\ commanded' = FALSE
  /\ cas' = [b \in Bank |-> "none"]
  /\ bursts' = {Burst(x.rank, x.from - 1, x.kind) :
                   x \in {y \in bursts : y.to + T_RTRS > 1}}

-----------------------------------------------------------------------------
Init ==
  /\ state = [b \in Bank |-> "IDLE"]
  /\ activeRow = [b \in Bank |-> NoRow]
  /\ next = [b \in Bank |-> [t \in Timers |-> 0]]
  /\ activates = [r \in Rank |-> {}]
  /\ window = WindowLength
  /\ deadline = [r \in Rank |-> LastMoment(WindowLength, 0)]
  /\ issued = [r \in Rank |-> 0]
  /\ forced = [r \in Rank |-> FALSE]
  /\ commanded = FALSE
  /\ cas = [b \in Bank |-> "none"]
  /\ bursts = {}

Command ==
  \/ \E q \in Request : IssueRequest(q)
  \/ \E b \in Bank : Precharge(b) \/ AutoPrecharge(b)
  \/ \E b \in Bank, row \in Row : Activate(b, row)
  \/ \E r \in Rank : PrechargeAll(r) \/ PowerUp(r) \/ Refresh(r)
  \/ \E r \in Rank, slow \in BOOLEAN : PowerDown(r, slow)

Next == Tick \/ Command

Spec == Init /\ [][Next]_vars

-----------------------------------------------------------------------------
(* Properties.                                                             *)

\* States, timers and counters stay within their ranges.
TypeOK ==
  /\ state \in [Bank -> Powered \cup Asleep]
  /\ activeRow \in [Bank -> Row \cup {NoRow}]
  /\ next \in [Bank -> [Timers -> Nat]]
  /\ activates \in [Rank -> SUBSET (0..T_FAW)]
  /\ window \in 1..WindowLength
  /\ deadline \in [Rank -> Int]
  /\ issued \in [Rank -> Nat]
  /\ forced \in [Rank -> BOOLEAN]
  /\ commanded \in BOOLEAN
  /\ cas \in [Bank -> Kind \cup {"none"}]
  /\ bursts \subseteq [rank : Rank, from : Int, to : Int, kind : Kind]

\* Reads and writes share the data bus without colliding, and it is quiet for
\* T_RTRS when its use passes from one rank to another, although the delays
\* are kept per bank and each command only looks back at the ones before it.
Apart(x, y) ==
  x.to + (IF x.rank = y.rank THEN 0 ELSE T_RTRS) <= y.from
BusNotShared ==
  \A x, y \in bursts : x = y \/ Apart(x, y) \/ Apart(y, x)

\* The banks of a rank sleep and wake together and in the same mode, and a
\* row is recorded exactly for the banks that have one open: powering up
\* only looks at bank 0, and takes every other bank as open.
RankSleepsTogether ==
  \A r \in Rank, b, c \in Bank :
    /\ RankOf(b) = r /\ RankOf(c) = r /\ state[b] \in Asleep => state[c] \in Asleep
    /\ RankOf(b) = r /\ RankOf(c) = r /\ state[b] = "PRECHARGE_POWER_DOWN_SLOW"
         => state[c] = "PRECHARGE_POWER_DOWN_SLOW"
OpenRowKnown ==
  \A b \in Bank : state[b] \in {"ROW_ACTIVE", "ACTIVE_POWER_DOWN"} <=> activeRow[b] # NoRow

\* A rank is one for sleeping and for its rows.
RanksWhole == RankSleepsTogether /\ OpenRowKnown

\* A row is closed only when its bank may be precharged, also by a refresh
\* the scheduler issues and by the forced ones, which test no timer.  Only
\* ranks but the first may be forced while they wake up, less than T_XP too
\* early: MayWake does not look at their deadline.
Closes(b) == activeRow[b] # NoRow /\ activeRow'[b] = NoRow
ByAuto(b) == cas[b] # "none" /\ commanded'
RowClosedInTime(b) ==
  Closes(b) /\ ~ByAuto(b) =>
    next[b].pre <= IF commanded' THEN 0 ELSE IF RankOf(b) = 0 THEN 1 ELSE T_XP
RowsClosedInTime == [][\A b \in Bank : RowClosedInTime(b)]_vars

\* Every window ends with its refreshes issued or forced.
WindowRefreshed ==
  [][window' > window => \A r \in Rank : issued[r] >= Batch \/ forced[r]]_vars
=============================================================================
