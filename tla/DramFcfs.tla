------------------------------ MODULE DramFcfs ------------------------------
(***************************************************************************)
(* The schedulers written for the command-level memory controller, on top  *)
(* of DramBanks: in each cycle update_memory comes first, then schedule    *)
(* looks for a request to issue a command for, then the cores put requests *)
(* into the queues.  closePage tells scheduler_slow.c from scheduler-fcfs.c: *)
(* when it has issued nothing it goes through the banks, to close the rows *)
(* that have just been used.                                               *)
(***************************************************************************)
EXTENDS DramBanks, RequestQueue

CONSTANTS
  HI_WM, LO_WM,          \* water marks of the write queue
  MaxReads, MaxWrites    \* bounds: the requests queued at a time

ASSUME QueueAssumption ==
  /\ HI_WM \in Nat /\ LO_WM \in Nat
  /\ MaxReads \in Nat /\ MaxWrites \in Nat

VARIABLES
  reads, writes,         \* read_queue_head, write_queue_head
  drain,                 \* drain_writes
  recent,                \* recent_colacc of each bank
  turn,                  \* what comes next in this cycle
  visited,               \* banks the loop that closes rows has gone through
  closePage,
  sent                   \* history: commands issued in this cycle

queues   == <<reads, writes>>
fcfsVars == <<vars, queues, drain, recent, turn, visited, closePage, sent>>

Turn == {"schedule", "close", "arrive"}

\* The banks in the order of the loop: by rank, then within the rank.
Banks == NumRanks * NumBanks
BankAt(k) == <<k \div NumBanks, k % NumBanks>>

\* init_new_node.
NewRequest(write, b, row) == [write |-> write, bank |-> b, row |-> row, served |-> FALSE]

Queued(write) == [write : {write}, bank : Bank, row : Row, served : BOOLEAN]

-----------------------------------------------------------------------------
\* insert_read and insert_write: requests are kept in the order of arrival.
InsertRead(b, row) ==
  /\ Len(reads) < MaxReads
  /\ reads' = Append(reads, NewRequest(FALSE, b, row))
  /\ UNCHANGED writes

InsertWrite(b, row) ==
  /\ Len(writes) < MaxWrites
  /\ writes' = Append(writes, NewRequest(TRUE, b, row))
  /\ UNCHANGED reads

Arrive(b, row) ==
  /\ turn = "arrive"
  /\ InsertRead(b, row) \/ InsertWrite(b, row)
  /\ UNCHANGED <<vars, drain, recent, turn, visited, closePage, sent>>

\* update_memory, which cleans the queues first.
Update ==
  /\ turn = "arrive"
  /\ Tick
  /\ reads' = Clean(reads)
  /\ writes' = Clean(writes)
  /\ turn' = "schedule"
  /\ sent' = 0
  /\ UNCHANGED <<drain, recent, visited, closePage>>

-----------------------------------------------------------------------------
\* A drain goes on until few writes are left; one starts when there are many,
\* or no reads.
Draining ==
  \/ drain /\ Len(writes) > LO_WM
  \/ Len(writes) > HI_WM
  \/ reads = <<>>

Candidates == IF Draining THEN writes ELSE reads

\* Mutant: the youngest request that can be served goes first.
FirstLast(queue) ==
  {i \in DOMAIN queue : Issuable(queue[i]) /\ \A j \in DOMAIN queue : j > i => ~Issuable(queue[j])}

\* The first request whose command can be issued.
First(queue) ==
  {i \in DOMAIN queue : Issuable(queue[i]) /\ \A j \in 1..(i - 1) : ~Issuable(queue[j])}

\* A column command makes its bank a candidate for being closed; an activate
\* or a precharge makes it none.
Recent(q) ==
  [recent EXCEPT ![q.bank] =
     CASE NextCommand(q) = "COL" -> TRUE
       [] NextCommand(q) \in {"ACT", "PRE"} -> FALSE
       [] OTHER -> @]

Served(queue, i) ==
  IF NextCommand(queue[i]) = "COL" THEN [queue EXCEPT ![i].served = TRUE] ELSE queue

IssueFirst ==
  \E i \in First(Candidates) :
    /\ IssueRequest(Candidates[i])
    /\ recent' = IF closePage THEN Recent(Candidates[i]) ELSE recent
    /\ reads'  = IF Draining THEN reads ELSE Served(reads, i)
    /\ writes' = IF Draining THEN Served(writes, i) ELSE writes

\* schedule looks through the queue for the first request it can serve.
Schedule ==
  /\ turn = "schedule"
  /\ drain' = Draining
  /\ \/ IssueFirst /\ sent' = sent + 1
     \/ First(Candidates) = {} /\ UNCHANGED <<vars, queues, recent, sent>>
  /\ turn' = IF closePage /\ ~commanded' /\ ~drain' THEN "close" ELSE "arrive"
  /\ UNCHANGED <<visited, closePage>>

\* A turn of the loop over the banks.  The loop has no break: it comes to the
\* other banks as well when it has closed a row.
CloseNext ==
  LET b == BankAt(visited)
  IN  /\ turn = "close"
      /\ \/ /\ recent[b] /\ Precharge(b)
            /\ recent' = [recent EXCEPT ![b] = FALSE]
            /\ sent' = sent + 1
         \/ /\ ~recent[b] \/ commanded \/ ~MayPrecharge(b)
            /\ UNCHANGED <<vars, recent, sent>>
      /\ visited' = (visited + 1) % Banks
      /\ turn' = IF visited' = 0 THEN "arrive" ELSE "close"
      /\ UNCHANGED <<queues, drain, closePage>>

-----------------------------------------------------------------------------
FcfsInit ==
  /\ Init
  /\ reads = <<>> /\ writes = <<>>
  /\ drain = FALSE
  /\ recent = [b \in Bank |-> FALSE]
  /\ turn = "schedule"
  /\ visited = 0
  /\ closePage \in BOOLEAN
  /\ sent = 0

Cycle == Update \/ Schedule \/ CloseNext

FcfsNext ==
  \/ Cycle
  \/ \E b \in Bank, row \in Row : Arrive(b, row)

\* Cycles go on: the loop of main calls update_memory and schedule in each.
FcfsSpec == FcfsInit /\ [][FcfsNext]_fcfsVars /\ WF_fcfsVars(Cycle)

-----------------------------------------------------------------------------
(* Properties.                                                             *)

ServedIn(queue) == {i \in DOMAIN queue : queue[i].served}

\* The requests marked as served are those a command of this cycle was for.
ServedNow == Cardinality(ServedIn(reads)) + Cardinality(ServedIn(writes)) <= sent

\* The queues hold requests of their kind, and none of them is served when the
\* next command is chosen.
FcfsTypeOK ==
  /\ reads \in Seq(Queued(FALSE)) /\ Len(reads) <= MaxReads
  /\ writes \in Seq(Queued(TRUE)) /\ Len(writes) <= MaxWrites
  /\ drain \in BOOLEAN
  /\ recent \in [Bank -> BOOLEAN]
  /\ turn \in Turn
  /\ visited \in 0..(Banks - 1) /\ sent \in Nat
  /\ turn = "schedule" => sent = 0
  /\ ServedNow

\* No more than one command goes to the banks in a cycle, although the loop
\* that closes rows goes on after it has closed one: what stops it is that
\* issue_precharge_command sets command_issued_current_cycle, which
\* is_precharge_allowed looks at.  Nor does a request stay marked as served
\* beyond the cycle of its command: clean_queues has taken it out of its queue.
OneCommandACycle == sent <= 1 /\ ServedNow

\* The oldest read gets its turn, although younger ones that hit open rows
\* overtake it and each puts off the precharge it may be waiting for -- as
\* long as no write drain begins.  The oldest write gets its turn in a drain.
FrontServed(queue) == queue # <<>> /\ queue[1].served
FrontReadServed == <>[]~drain => []<>FrontServed(reads)
FrontWriteServed == <>[]drain => []<>(writes = <<>> \/ FrontServed(writes))
=============================================================================
