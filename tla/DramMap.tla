------------------------------ MODULE DramMap ------------------------------
(***************************************************************************)
(* The place of a line in DRAM: channel, rank, bank, row and column, cut   *)
(* out of its address by calc_dram_addr, in the order that ADDRESS_MAPPING *)
(* asks for.  Mapping 1 lays out the regions of MemLayout differently, in  *)
(* memory_controller.c and in sim_slow_files/memory_controller_slow.c each *)
(* in its own way.                                                         *)
(***************************************************************************)
EXTENDS MemLayout, FiniteSets

CONSTANTS
  Geometries,   \* the widths of columns, channels, banks, ranks and rows in bits
  Controllers   \* "fast" for memory_controller.c, "slow" for memory_controller_slow.c

\* Widths are logarithms of the numbers of channels, ranks, banks, rows and columns.
ASSUME GeometryAssumption ==
  \A g \in Geometries : g.column \in Nat /\ g.channel \in Nat /\ g.bank \in Nat /\ g.rank \in Nat /\ g.row \in Nat

\* width bits of the line number n, from bit lo on.
Bits(n, lo, width) == (n \div (2 ^ lo)) % (2 ^ width)

\* log_base2 of a size: the position of its highest bit.
Log2(n) == CHOOSE b \in 0 .. 31 : 2 ^ b <= n /\ n < 2 ^ (b + 1)

\* < Row | Rank | Bank | Channel | Column >: mapping 2, data and tree of mapping 1.
RowHigh(g, n) ==
  [column  |-> Bits(n, 0, g.column),
   channel |-> Bits(n, g.column, g.channel),
   bank    |-> Bits(n, g.column + g.channel, g.bank),
   rank    |-> Bits(n, g.column + g.channel + g.bank, g.rank),
   row     |-> Bits(n, g.column + g.channel + g.bank + g.rank, g.row)]

\* Mutant: the column bits above the rank are not taken out of the row.
ColumnSplitKept(g, n, k) ==
  LET low == g.column - k
  IN [column  |-> Bits(n, 0, low) + Bits(n, low + g.channel + g.bank + g.rank, k) * 2 ^ low,
      channel |-> Bits(n, low, g.channel),
      bank    |-> Bits(n, low + g.channel, g.bank),
      rank    |-> Bits(n, low + g.channel + g.bank, g.rank),
      row     |-> Bits(n, low + g.channel + g.bank + g.rank, g.row)]

\* The high k bits of the column lie above the rank: counters and MACs of mapping 1.
ColumnSplit(g, n, k) ==
  LET low == g.column - k
  IN [column  |-> Bits(n, 0, low) + Bits(n, low + g.channel + g.bank + g.rank, k) * 2 ^ low,
      channel |-> Bits(n, low, g.channel),
      bank    |-> Bits(n, low + g.channel, g.bank),
      rank    |-> Bits(n, low + g.channel + g.bank, g.rank),
      row     |-> Bits(n, g.column + g.channel + g.bank + g.rank, g.row)]

\* Counters are moved three channels and banks on, MACs one.
Turned(g, p, by) == [p EXCEPT !.channel = (@ + by) % 2 ^ g.channel, !.bank = (@ + by) % 2 ^ g.bank]

\* < Row | Column | Rank | Bank | Channel >: any other mapping.
ColumnHigh(g, n) ==
  [channel |-> Bits(n, 0, g.channel),
   bank    |-> Bits(n, g.channel, g.bank),
   rank    |-> Bits(n, g.channel + g.bank, g.rank),
   column  |-> Bits(n, g.channel + g.bank + g.rank, g.column),
   row     |-> Bits(n, g.channel + g.bank + g.rank + g.column, g.row)]

\* Column bits above the rank for the counters: by their size, or as for MACs in the older controller.
CounterBits(o, controller) ==
  Log2(IF controller = "slow" THEN CacheLine \div MacSize ELSE o.inLine[o.num_Mtree_levels])

ByRegion(o, controller, g, a) ==
  LET n == a \div CacheLine
      p == get_partition(o, a)
  IN CASE p \in {0, 1} -> RowHigh(g, n)
       [] p = 2 -> Turned(g, ColumnSplit(g, n, CounterBits(o, controller)), 3)
       [] p = 3 -> Turned(g, ColumnSplit(g, n, Log2(CacheLine \div MacSize)), 1)

calc_dram_addr(o, controller, mapping, g, a) ==
  IF mapping = 1 THEN ByRegion(o, controller, g, a)
  ELSE IF mapping = 2 /\ controller = "fast" THEN RowHigh(g, a \div CacheLine)
  ELSE ColumnHigh(g, a \div CacheLine)

-----------------------------------------------------------------------------
\* The geometries that the program can serve the memory with: every line has
\* a row, the split columns have bits enough, and, since each region spreads
\* over the rows on its own, no two regions with different maps share a row.
RowGroup(g) == CacheLine * 2 ^ (g.column + g.channel + g.bank + g.rank)

Serves(g, o) ==
  /\ RowGroup(g) * 2 ^ g.row >= o.mem_size
  /\ g.column >= Log2(o.inLine[o.num_Mtree_levels])
  /\ (Visible(o) + o.mtree_store_size) % RowGroup(g) = 0
  /\ (o.mem_size - o.MAC_store_size) % RowGroup(g) = 0

(***************************************************************************)
(* No two lines of memory have one place in DRAM, whichever region they    *)
(* are in: what the queues hold apart by address the banks hold apart too. *)
(* Said once for each memory, before the walks.                            *)
(***************************************************************************)
PlacesDiffer ==
  (met = NoEntry /\ org.tallies) =>
    \A g \in Geometries : Serves(g, org) =>
      \A controller \in Controllers, mapping \in 0 .. 2 :
        LET lines == { n * CacheLine : n \in 0 .. (org.mem_size \div CacheLine) - 1 }
        IN Cardinality({ calc_dram_addr(org, controller, mapping, g, a) : a \in lines }) = Cardinality(lines)
=============================================================================
