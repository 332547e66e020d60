------------------------------ MODULE OsPaging ------------------------------
(***************************************************************************)
(* Virtual memory: os_vpn_to_pfn with its page table, the inverted page    *)
(* table, the clock that picks a page to evict, and the copy each thread   *)
(* keeps of its last translation.                                          *)
(*                                                                         *)
(* A page is a thread and a page number: os_vpn_to_pfn puts the thread     *)
(* into the four bits it asserts to be free.  A translation is one action  *)
(* unless it must search for a frame; then each turn of the loop of        *)
(* os_get_victim_from_ipt is one.                                          *)
(***************************************************************************)
EXTENDS Integers

CONSTANTS
  Thread,        \* cores, numbered from 0
  Page,          \* page numbers of a thread
  NumFrames,     \* num_pages: page frames of the memory
  RandomAlloc    \* page_alloc_isrand: pages placed at random or first touch

ASSUME PagingAssumption ==
  /\ Thread \subseteq Nat /\ Page \subseteq Nat
  /\ NumFrames \in Nat \ {0}
  /\ RandomAlloc \in BOOLEAN

Key    == Thread \X Page
Frame  == 0..(NumFrames - 1)
ZeroKey == <<0, 0>>
NoPage == <<>>

VARIABLES
  pt,        \* pt[k]: the frame of page k, for the pages in the page table
  holder,    \* holder[f]: the page in frame f, NoPage if the entry is invalid
  ref,       \* the frames whose ref flag is set
  refptr,    \* the frame the clock hand points to
  nextTouch, \* (last_allotted_pagenum + 1) modulo NumFrames
  last,      \* last_xlation of each thread
  seeking,   \* the page a frame is sought for, NoPage if none
  answer     \* the last translation returned, <<>> at first

vars == <<pt, holder, ref, refptr, nextTouch, last, seeking, answer>>

Valid == {f \in Frame : holder[f] # NoPage}

Pair(k, f) == [vpn |-> k, pfn |-> f]

\* The thread's last translation was of this page.
Remembers(k) == last[k[1]].vpn = k

-----------------------------------------------------------------------------
(* os_vpn_to_pfn.                                                          *)

\* Mutant: the frame of the last translation is not kept.
AnswerHalf(k, f) ==
  /\ answer' = <<k, f>>
  /\ last' = [last EXCEPT ![k[1]].vpn = k]

Answer(k, f) ==
  /\ answer' = <<k, f>>
  /\ last' = [last EXCEPT ![k[1]] = Pair(k, f)]

Shortcut(k) ==
  /\ seeking = NoPage
  /\ Remembers(k)
  /\ answer' = <<k, last[k[1]].pfn>>
  /\ UNCHANGED <<pt, holder, ref, refptr, nextTouch, last, seeking>>

TableHit(k) ==
  /\ seeking = NoPage
  /\ ~Remembers(k)
  /\ k \in DOMAIN pt
  /\ ref' = ref \cup {pt[k]}
  /\ Answer(k, pt[k])
  /\ UNCHANGED <<pt, holder, refptr, nextTouch, seeking>>

\* Mutant: the page that leaves the frame stays in the page table.
PtWithStays(k, f) ==
  [x \in DOMAIN pt \cup {k} |-> IF x = k THEN f ELSE pt[x]]

\* The page table after page k has got frame f.
PtWith(k, f) ==
  [x \in (DOMAIN pt \ {holder[f]}) \cup {k} |-> IF x = k THEN f ELSE pt[x]]

\* Page k gets frame f; the page that was there leaves both tables.
Place(k, f) ==
  /\ pt' = PtWith(k, f)
  /\ holder' = [holder EXCEPT ![f] = k]
  /\ Answer(k, f)

Misses(k) == seeking = NoPage /\ ~Remembers(k) /\ k \notin DOMAIN pt

\* The frames the allocation may try first.
Touchable(f) == /\ RandomAlloc \/ f = nextTouch
                /\ f \notin Valid

NextTouch == IF RandomAlloc THEN nextTouch ELSE (nextTouch + 1) % NumFrames

\* A frame is found free at once.
MissFree(k, f) ==
  /\ Misses(k)
  /\ Touchable(f)
  /\ Place(k, f)
  /\ ref' = ref \cup {f}
  /\ nextTouch' = NextTouch
  /\ UNCHANGED <<refptr, seeking>>

\* No try finds a free frame: the clock starts.  Twenty random tries can
\* miss all free frames as soon as one frame is not free.
MissSearch(k) ==
  /\ Misses(k)
  /\ IF RandomAlloc THEN Valid # {} ELSE ~Touchable(nextTouch)
  /\ seeking' = k
  /\ nextTouch' = NextTouch
  /\ UNCHANGED <<pt, holder, ref, refptr, last, answer>>

-----------------------------------------------------------------------------
(* The loop of os_get_victim_from_ipt.                                     *)

\* Mutant: the clock takes the first frame it sees.
PassedOverNever == FALSE

\* A frame is passed over if it is in use and has been referenced.
PassedOver == refptr \in Valid /\ refptr \in ref

RefPassed == ref \ {refptr}

\* Mutant: the hand leaves the table at its end.
AdvanceBeyond == refptr' = refptr + 1

Advance == refptr' = (refptr + 1) % NumFrames

ClockPass ==
  /\ seeking # NoPage
  /\ PassedOver
  /\ ref' = RefPassed
  /\ Advance
  /\ UNCHANGED <<pt, holder, nextTouch, last, seeking, answer>>

ClockTake ==
  /\ seeking # NoPage
  /\ ~PassedOver
  /\ Place(seeking, refptr)
  /\ ref' = ref \cup {refptr}
  /\ Advance
  /\ seeking' = NoPage
  /\ UNCHANGED nextTouch

Clock == ClockPass \/ ClockTake

Init ==
  /\ pt = [k \in {} |-> 0]
  /\ holder = [f \in Frame |-> NoPage]
  /\ ref = {}
  /\ refptr = 0
  /\ nextTouch = 0
  /\ last = [t \in Thread |-> Pair(ZeroKey, 0)]
  /\ seeking = NoPage
  /\ answer = <<>>

Next ==
  \/ Clock
  \/ \E k \in Key :
       \/ Shortcut(k) \/ TableHit(k) \/ MissSearch(k)
       \/ \E f \in Frame : MissFree(k, f)

Spec == Init /\ [][Next]_vars /\ WF_vars(Clock)

-----------------------------------------------------------------------------
(* Properties.                                                             *)

\* Both tables hold pages and frames only.
TypeOK ==
  /\ DOMAIN pt \subseteq Key
  /\ \A k \in DOMAIN pt : pt[k] \in Frame
  /\ holder \in [Frame -> Key \cup {NoPage}]
  /\ ref \in SUBSET Frame
  /\ refptr \in Frame /\ nextTouch \in Frame
  /\ last \in [Thread -> [vpn : Key \cup {ZeroKey}, pfn : Frame]]
  /\ seeking \in (Key \cup {NoPage}) \ DOMAIN pt
  /\ answer \in (Key \X Frame) \cup {<<>>}

\* The page table and the inverted table are inverse to each other, whatever
\* is evicted: the victim is found in the page table (the assertion of
\* os_get_victim_from_ipt), and no frame holds two pages.
TablesInverse ==
  /\ \A k \in DOMAIN pt : holder[pt[k]] = k
  /\ \A f \in Valid : holder[f] \in DOMAIN pt /\ pt[holder[f]] = f

\* While a page is in the table, the copy its thread may have of its
\* translation is right, although evictions never look at these copies.
ShortcutAgrees ==
  \A t \in Thread :
    last[t].vpn \in DOMAIN pt /\ last[t].vpn[1] = t
      => pt[last[t].vpn] = last[t].pfn

\* No page is evicted while a frame is free, although the search starts
\* after twenty random tries and takes an unreferenced page it meets first.
EvictOnlyWhenFull ==
  [][DOMAIN pt \subseteq DOMAIN pt' \/ Valid = Frame]_vars

\* The tables implement the abstract page map.
Abstract == INSTANCE PageMap WITH map <- pt
KeepsPages == Abstract!Spec

\* The clock finds a frame, even if every frame is referenced at first.
SearchEnds == (seeking # NoPage) ~> (seeking = NoPage)
=============================================================================
