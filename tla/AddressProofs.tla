---------------------------- MODULE AddressProofs ----------------------------
(***************************************************************************)
(* Proofs about the ways of an address: a virtual page to its frame        *)
(* (OsPaging), a line to its counters and the tree above them (MemLayout), *)
(* and to its place in DRAM (DramMap); for any number of threads, pages    *)
(* and frames, and for every memory that MemoryAssumption allows.          *)
(***************************************************************************)
EXTENDS OsPaging, DramMap, DataLemmas


\* While frames are free, those behind the clock hand are in use, and only
\* behind the hand has a page in use lost its reference flag.
FirstRound ==
  \/ Valid = Frame
  \/ /\ \A f \in Frame : f < refptr => f \in Valid
     /\ \A f \in Valid : f \notin ref => f < refptr

\* A thread remembers a page that has left only if memory has been full.
OverdueWhenFull ==
  ZeroKey \notin Key =>
    \/ Valid = Frame
    \/ \A t \in Thread : last[t].vpn \in Key => last[t].vpn \in DOMAIN pt

IInv == TypeOK /\ TablesInverse /\ ShortcutAgrees /\ FirstRound /\ OverdueWhenFull

\* The mark of an empty frame is no page.
LEMMA NoPageNotKey == NoPage \notin Key
  BY DEF NoPage, Key

\* The hand of the clock stays on the table, and comes to frame 0 after the last.
LEMMA HandMoves ==
  \A f \in Frame : /\ (f + 1) % NumFrames \in Frame
                   /\ \/ f + 1 = NumFrames /\ (f + 1) % NumFrames = 0
                      \/ f + 1 < NumFrames /\ (f + 1) % NumFrames = f + 1
  BY PagingAssumption DEF Frame

\* A page that is found a frame is put into both tables, and the page that
\* held the frame leaves both.
LEMMA PlaceInverse ==
  ASSUME TypeOK, TablesInverse, NEW k \in Key \ DOMAIN pt, NEW f \in Frame,
         Place(k, f)
  PROVE  /\ TablesInverse'
         /\ Valid' = Valid \cup {f}
         /\ DOMAIN pt' = (DOMAIN pt \ {holder[f]}) \cup {k}
         /\ pt'[k] = f /\ \A x \in DOMAIN pt' \ {k} : pt'[x] = pt[x]
<1>1. /\ DOMAIN pt' = (DOMAIN pt \ {holder[f]}) \cup {k}
      /\ pt'[k] = f
      /\ \A x \in DOMAIN pt' \ {k} : pt'[x] = pt[x]
  BY DEF Place, PtWith
<1>2. /\ \A g \in Frame : holder'[g] = IF g = f THEN k ELSE holder[g]
  BY DEF Place, TypeOK
<1>3. Valid' = Valid \cup {f}
  BY <1>2, NoPageNotKey DEF Valid
<1>4. ASSUME NEW x \in DOMAIN pt' PROVE holder'[pt'[x]] = x
  <2>1. CASE x = k
    BY <1>1, <1>2, <2>1
  <2>2. CASE x # k
    <3>1. x \in DOMAIN pt /\ x # holder[f] /\ pt'[x] = pt[x] /\ pt[x] \in Frame
      BY <1>1, <2>2 DEF TypeOK
    <3>2. holder[pt[x]] = x
      BY <3>1 DEF TablesInverse
    <3>3. pt[x] # f
      BY <3>1, <3>2
    <3> QED
      BY <1>2, <3>1, <3>2, <3>3
  <2> QED
    BY <2>1, <2>2
<1>5. ASSUME NEW g \in Valid' PROVE holder'[g] \in DOMAIN pt' /\ pt'[holder'[g]] = g
  <2>1. CASE g = f
    BY <1>1, <1>2, <2>1
  <2>2. CASE g # f
    <3>1. g \in Valid /\ g \in Frame /\ holder'[g] = holder[g]
      BY <1>2, <1>3, <2>2 DEF Valid
    <3>2. holder[g] \in DOMAIN pt /\ pt[holder[g]] = g
      BY <3>1 DEF TablesInverse
    <3>3. holder[g] # holder[f]
      <4>1. CASE f \in Valid
        BY <2>2, <3>2, <4>1 DEF TablesInverse
      <4>2. CASE f \notin Valid
        BY <3>1, <4>2 DEF Valid
      <4> QED
        BY <4>1, <4>2
    <3>4. holder[g] # k
      BY <3>2
    <3> QED
      BY <1>1, <3>1, <3>2, <3>3, <3>4
  <2> QED
    BY <2>1, <2>2
<1> QED
  BY <1>1, <1>3, <1>4, <1>5 DEF TablesInverse

\* A page that is put into a frame leaves the tables typed.
LEMMA PlaceTypes ==
  ASSUME TypeOK, TablesInverse, NEW k \in Key \ DOMAIN pt, NEW f \in Frame,
         Place(k, f)
  PROVE  /\ DOMAIN pt' \subseteq Key /\ \A x \in DOMAIN pt' : pt'[x] \in Frame
         /\ holder' \in [Frame -> Key \cup {NoPage}]
         /\ last' \in [Thread -> [vpn : Key \cup {ZeroKey}, pfn : Frame]]
         /\ answer' \in Key \X Frame
         /\ last'[k[1]] = Pair(k, f)
         /\ \A t \in Thread \ {k[1]} : last'[t] = last[t]
<1>1. k[1] \in Thread
  BY DEF Key
<1>2. /\ DOMAIN pt' \subseteq Key /\ \A x \in DOMAIN pt' : pt'[x] \in Frame
  <2>1. /\ DOMAIN pt' = (DOMAIN pt \ {holder[f]}) \cup {k}
        /\ pt'[k] = f /\ \A x \in DOMAIN pt' \ {k} : pt'[x] = pt[x]
    BY PlaceInverse
  <2>2. DOMAIN pt' \subseteq Key
    BY <2>1 DEF TypeOK
  <2>3. ASSUME NEW x \in DOMAIN pt' PROVE pt'[x] \in Frame
    BY <2>1 DEF TypeOK
  <2> QED
    BY <2>2, <2>3
<1>3. holder' \in [Frame -> Key \cup {NoPage}]
  BY DEF Place, TypeOK
<1>4. last' = [last EXCEPT ![k[1]] = Pair(k, f)] /\ answer' = <<k, f>>
  BY DEF Place, Answer
<1>5. Pair(k, f) \in [vpn : Key \cup {ZeroKey}, pfn : Frame]
  BY DEF Pair
<1> QED
  BY <1>1, <1>2, <1>3, <1>4, <1>5 DEF TypeOK

\* The copies of translations after a page has got a frame.
LEMMA PlaceShortcuts ==
  ASSUME TypeOK, TablesInverse, ShortcutAgrees,
         NEW k \in Key \ DOMAIN pt, NEW f \in Frame, Place(k, f)
  PROVE  ShortcutAgrees'
<1> SUFFICES ASSUME NEW t \in Thread, last'[t].vpn \in DOMAIN pt',
                    last'[t].vpn[1] = t
             PROVE  pt'[last'[t].vpn] = last'[t].pfn
  BY DEF ShortcutAgrees
<1>a. /\ DOMAIN pt' = (DOMAIN pt \ {holder[f]}) \cup {k}
      /\ pt'[k] = f /\ \A x \in DOMAIN pt' \ {k} : pt'[x] = pt[x]
  BY PlaceInverse
<1>b. /\ last'[k[1]] = Pair(k, f)
      /\ \A u \in Thread \ {k[1]} : last'[u] = last[u]
  BY PlaceTypes
<1>1. CASE t = k[1]
  <2>1. last'[t].vpn = k /\ last'[t].pfn = f
    BY <1>1, <1>b DEF Pair
  <2> QED
    BY <2>1, <1>a
<1>2. CASE t # k[1]
  <2>1. last'[t] = last[t]
    BY <1>2, <1>b
  <2>2. last[t].vpn # k
    BY <1>2, <2>1
  <2>3. last[t].vpn \in DOMAIN pt /\ pt'[last[t].vpn] = pt[last[t].vpn]
    BY <2>1, <2>2, <1>a
  <2> QED
    BY <2>1, <2>3 DEF ShortcutAgrees
<1> QED
  BY <1>1, <1>2

\* A page leaves only when every frame is used, for the clock is then past
\* its first round.
LEMMA TakenWhenFree ==
  ASSUME TypeOK, FirstRound, refptr \in Valid, refptr \notin ref
  PROVE  Valid = Frame
<1>1. ~(refptr < refptr)
  BY DEF TypeOK, Frame
<1> QED
  BY <1>1 DEF FirstRound

\* The copies of pages that have left, after a page has got a frame that was
\* free, or any frame when all are used.
LEMMA PlaceOverdue ==
  ASSUME TypeOK, TablesInverse, OverdueWhenFull,
         NEW k \in Key \ DOMAIN pt, NEW f \in Frame, Place(k, f),
         f \notin Valid \/ Valid = Frame
  PROVE  OverdueWhenFull'
<1>1. CASE Valid = Frame
  <2>1. Valid' = Valid \cup {f}
    BY PlaceInverse
  <2>2. Valid' = Frame
    BY <1>1, <2>1
  <2> QED
    BY <2>2 DEF OverdueWhenFull
<1>2. CASE f \notin Valid
  <2> SUFFICES ASSUME ZeroKey \notin Key, Valid' # Frame, NEW t \in Thread,
                      last'[t].vpn \in Key
               PROVE  last'[t].vpn \in DOMAIN pt'
    BY DEF OverdueWhenFull
  <2>1. /\ Valid' = Valid \cup {f}
        /\ DOMAIN pt' = (DOMAIN pt \ {holder[f]}) \cup {k}
    BY PlaceInverse
  <2>2. holder[f] = NoPage /\ Valid # Frame
    <3>1. Valid' \subseteq Frame /\ f \in Frame
      BY <2>1 DEF Valid
    <3> QED
      BY <1>2, <2>1, <3>1 DEF Valid
  <2>3. /\ last'[k[1]] = Pair(k, f)
        /\ \A u \in Thread \ {k[1]} : last'[u] = last[u]
    BY PlaceTypes
  <2>4. CASE t = k[1]
    <3>1. last'[t].vpn = k
      BY <2>3, <2>4 DEF Pair
    <3> QED
      BY <2>1, <3>1
  <2>5. CASE t # k[1]
    <3>1. last'[t] = last[t]
      BY <2>3, <2>5
    <3>2. last[t].vpn \in DOMAIN pt
      BY <2>2, <3>1 DEF OverdueWhenFull
    <3>3. last[t].vpn # NoPage
      BY <3>1, NoPageNotKey
    <3> QED
      BY <2>1, <2>2, <3>1, <3>2, <3>3
  <2> QED
    BY <2>4, <2>5
<1> QED
  BY <1>1, <1>2

LEMMA IInvInit == Init => IInv
<1> SUFFICES ASSUME Init PROVE IInv
  OBVIOUS
<1>1. /\ DOMAIN pt = {} /\ Valid = {}
      /\ 0 \in Frame
  BY PagingAssumption DEF Init, Valid, Frame
<1>2. TypeOK
  <2>1. Pair(ZeroKey, 0) \in [vpn : Key \cup {ZeroKey}, pfn : Frame]
    BY <1>1 DEF Pair
  <2> QED
    BY <1>1, <2>1 DEF Init, TypeOK
<1>3. TablesInverse
  BY <1>1 DEF TablesInverse
<1>4. ShortcutAgrees
  BY <1>1 DEF ShortcutAgrees
<1>5. FirstRound
  BY <1>1 DEF FirstRound, Init, Frame
<1>6. OverdueWhenFull
  <2>1. \A t \in Thread : last[t].vpn = ZeroKey
    BY DEF Init, Pair
  <2> QED
    BY <2>1 DEF OverdueWhenFull
<1> QED
  BY <1>2, <1>3, <1>4, <1>5, <1>6 DEF IInv

LEMMA TableHitKeeps ==
  ASSUME IInv, NEW k \in Key, TableHit(k)
  PROVE  IInv'
<1>1. /\ pt' = pt /\ holder' = holder /\ Valid' = Valid
      /\ refptr' = refptr /\ nextTouch' = nextTouch /\ seeking' = seeking
      /\ ref' = ref \cup {pt[k]} /\ answer' = <<k, pt[k]>>
      /\ k \in DOMAIN pt /\ k[1] \in Thread
      /\ last' = [last EXCEPT ![k[1]] = Pair(k, pt[k])]
  BY DEF TableHit, Answer, Valid, Key
<1>2. pt[k] \in Frame
  BY <1>1 DEF IInv, TypeOK
<1>3. /\ last'[k[1]].vpn = k /\ last'[k[1]].pfn = pt[k]
      /\ \A t \in Thread \ {k[1]} : last'[t] = last[t]
  BY <1>1 DEF IInv, TypeOK, Pair
<1>4. TypeOK'
  <2>1. Pair(k, pt[k]) \in [vpn : Key \cup {ZeroKey}, pfn : Frame]
    BY <1>2 DEF Pair
  <2> QED
    BY <1>1, <1>2, <2>1 DEF IInv, TypeOK
<1>5. TablesInverse'
  BY <1>1 DEF IInv, TablesInverse
<1>6. ShortcutAgrees'
  BY <1>1, <1>3 DEF IInv, ShortcutAgrees
<1>7. FirstRound'
  BY <1>1 DEF IInv, FirstRound
<1>8. OverdueWhenFull'
  BY <1>1, <1>3 DEF IInv, OverdueWhenFull
<1> QED
  BY <1>4, <1>5, <1>6, <1>7, <1>8 DEF IInv

\* First touch takes a frame of the table.
LEMMA NextTouchFrame == TypeOK => NextTouch \in Frame
  BY HandMoves DEF TypeOK, NextTouch

LEMMA MissFreeKeeps ==
  ASSUME IInv, NEW k \in Key, NEW f \in Frame, MissFree(k, f)
  PROVE  IInv'
<1>1. /\ Place(k, f) /\ f \notin Valid /\ k \notin DOMAIN pt
      /\ ref' = ref \cup {f} /\ nextTouch' \in Frame
      /\ refptr' = refptr /\ seeking' = seeking /\ seeking = NoPage
  BY NextTouchFrame DEF IInv, MissFree, Misses, Touchable
<1>2. Valid' = Valid \cup {f}
  BY <1>1, PlaceInverse DEF IInv
<1>3. TypeOK'
  <2>1. NoPage \notin DOMAIN pt'
    BY <1>1, NoPageNotKey, PlaceTypes DEF IInv
  <2> QED
    BY <1>1, <2>1, PlaceTypes DEF IInv, TypeOK
<1>4. TablesInverse' /\ ShortcutAgrees' /\ OverdueWhenFull'
  BY <1>1, PlaceInverse, PlaceShortcuts, PlaceOverdue DEF IInv
<1>5. FirstRound'
  BY <1>1, <1>2 DEF IInv, FirstRound, Valid
<1> QED
  BY <1>3, <1>4, <1>5 DEF IInv

LEMMA ClockPassKeeps == ASSUME IInv, ClockPass PROVE IInv'
<1>1. /\ refptr \in Valid /\ ref' = ref \ {refptr}
      /\ refptr' = (refptr + 1) % NumFrames
      /\ pt' = pt /\ holder' = holder /\ nextTouch' = nextTouch
      /\ last' = last /\ seeking' = seeking /\ answer' = answer
      /\ Valid' = Valid
  BY DEF ClockPass, PassedOver, RefPassed, Advance, Valid
<1>2. TypeOK'
  BY <1>1, HandMoves DEF IInv, TypeOK
<1>3. TablesInverse' /\ ShortcutAgrees' /\ OverdueWhenFull'
  BY <1>1 DEF IInv, TablesInverse, ShortcutAgrees, OverdueWhenFull
<1>4. FirstRound'
  <2>1. refptr \in Frame /\ \A f \in Frame : f \in Nat
    BY DEF IInv, TypeOK, Frame
  <2> SUFFICES ASSUME Valid # Frame
               PROVE  /\ \A f \in Frame : f < refptr' => f \in Valid
                      /\ \A f \in Valid : f \notin ref' => f < refptr'
    BY <1>1 DEF FirstRound
  <2>2. /\ \A f \in Frame : f < refptr => f \in Valid
        /\ \A f \in Valid : f \notin ref => f < refptr
    BY DEF IInv, FirstRound
  <2>3. refptr' = refptr + 1
    <3> SUFFICES ASSUME refptr + 1 = NumFrames PROVE FALSE
      BY <1>1, <2>1, HandMoves
    <3>1. \A f \in Frame : f < refptr \/ f = refptr
      BY <2>1, PagingAssumption DEF Frame
    <3> QED
      BY <1>1, <2>2, <3>1 DEF Valid
  <2>4. \A f \in Frame : f < refptr + 1 <=> f < refptr \/ f = refptr
    BY <2>1
  <2>5. Valid \subseteq Frame
    BY DEF Valid
  <2> QED
    BY <1>1, <2>2, <2>3, <2>4, <2>5
<1> QED
  BY <1>2, <1>3, <1>4 DEF IInv

LEMMA ClockTakeKeeps == ASSUME IInv, ClockTake PROVE IInv'
<1>1. /\ seeking \in Key \ DOMAIN pt /\ refptr \in Frame
      /\ Place(seeking, refptr) /\ ref' = ref \cup {refptr}
      /\ refptr' = (refptr + 1) % NumFrames
      /\ seeking' = NoPage /\ nextTouch' = nextTouch
      /\ refptr \notin Valid \/ refptr \notin ref
  BY DEF ClockTake, PassedOver, Advance, IInv, TypeOK
<1>2. Valid' = Valid \cup {refptr}
  BY <1>1, PlaceInverse DEF IInv
<1>3. refptr \notin Valid \/ Valid = Frame
  BY <1>1, TakenWhenFree DEF IInv
<1>4. TypeOK'
  <2>1. NoPage \notin DOMAIN pt'
    BY <1>1, NoPageNotKey, PlaceTypes DEF IInv
  <2> QED
    BY <1>1, <2>1, HandMoves, PlaceTypes DEF IInv, TypeOK
<1>5. TablesInverse' /\ ShortcutAgrees' /\ OverdueWhenFull'
  BY <1>1, <1>3, PlaceInverse, PlaceShortcuts, PlaceOverdue DEF IInv
<1>6. FirstRound'
  <2>1. \A f \in Frame : f \in Nat
    BY DEF Frame
  <2>2. Valid \subseteq Frame /\ Valid' \subseteq Frame
    BY <1>1, <1>2 DEF Valid
  <2> SUFFICES ASSUME Valid' # Frame
               PROVE  /\ \A f \in Frame : f < refptr' => f \in Valid'
                      /\ \A f \in Valid' : f \notin ref' => f < refptr'
    BY DEF FirstRound
  <2>3. /\ \A f \in Frame : f < refptr => f \in Valid
        /\ \A f \in Valid : f \notin ref => f < refptr
    BY <1>2, <2>2 DEF IInv, FirstRound
  <2>4. refptr' = refptr + 1
    <3> SUFFICES ASSUME refptr + 1 = NumFrames PROVE FALSE
      BY <1>1, <2>1, HandMoves
    <3>1. \A f \in Frame : f < refptr \/ f = refptr
      BY <1>1, <2>1, PagingAssumption DEF Frame
    <3> QED
      BY <1>2, <2>2, <2>3, <3>1
  <2>5. \A f \in Frame : f < refptr + 1 <=> f < refptr \/ f = refptr
    BY <1>1, <2>1
  <2> QED
    BY <1>1, <1>2, <2>2, <2>3, <2>4, <2>5
<1> QED
  BY <1>4, <1>5, <1>6 DEF IInv

\* Every step keeps the inductive invariant.
LEMMA IInvStep == IInv /\ [Next]_vars => IInv'
<1> SUFFICES ASSUME IInv, [Next]_vars PROVE IInv'
  OBVIOUS
<1>1. ASSUME NEW k \in Key, Shortcut(k) PROVE IInv'
  <2>1. k[1] \in Thread /\ last[k[1]].pfn \in Frame
    BY DEF Key, IInv, TypeOK
  <2>2. TypeOK'
    BY <1>1, <2>1 DEF Shortcut, IInv, TypeOK
  <2>3. Valid' = Valid
    BY <1>1 DEF Shortcut, Valid
  <2> QED
    BY <1>1, <2>2, <2>3
    DEF Shortcut, IInv, TablesInverse, ShortcutAgrees, FirstRound,
        OverdueWhenFull
<1>2. ASSUME NEW k \in Key, MissSearch(k) PROVE IInv'
  <2>1. TypeOK'
    BY <1>2, NextTouchFrame DEF MissSearch, Misses, IInv, TypeOK
  <2>2. Valid' = Valid
    BY <1>2 DEF MissSearch, Valid
  <2> QED
    BY <1>2, <2>1, <2>2
    DEF MissSearch, IInv, TablesInverse, ShortcutAgrees, FirstRound,
        OverdueWhenFull
<1>3. CASE UNCHANGED vars
  <2>1. Valid' = Valid
    BY <1>3 DEF vars, Valid
  <2> QED
    BY <1>3, <2>1
    DEF vars, IInv, TypeOK, TablesInverse, ShortcutAgrees, FirstRound,
        OverdueWhenFull
<1> QED
  BY <1>1, <1>2, <1>3, TableHitKeeps, MissFreeKeeps, ClockPassKeeps,
     ClockTakeKeeps
  DEF Next, Clock

LEMMA IInvAlways == Spec => []IInv
<1>1. Init => IInv
  BY IInvInit
<1>2. IInv /\ [Next]_vars => IInv'
  BY IInvStep
<1> QED
  BY <1>1, <1>2, PTL DEF Spec

\* Every page, frame and flag stays in its range: in particular the hand of
\* the clock stays on the table.
THEOREM TypeCorrect == Spec => []TypeOK
<1>1. IInv => TypeOK
  BY DEF IInv
<1> QED
  BY <1>1, IInvAlways, PTL

\* The page table and the inverted table are inverse to each other after any
\* number of evictions, so the assertion that the victim is found holds.
THEOREM InverseAlways == Spec => []TablesInverse
<1>1. IInv => TablesInverse
  BY DEF IInv
<1> QED
  BY <1>1, IInvAlways, PTL

\* The copy a thread has of its last translation is right as long as the
\* page is in the table.
THEOREM ShortcutAlways == Spec => []ShortcutAgrees
<1>1. IInv => ShortcutAgrees
  BY DEF IInv
<1> QED
  BY <1>1, IInvAlways, PTL

\* The pages in the table and the frames in use are as many.
LEMMA UsedIsValid ==
  ASSUME TypeOK, TablesInverse PROVE Abstract!Used = Valid
<1>1. ASSUME NEW k \in DOMAIN pt PROVE pt[k] \in Valid
  BY NoPageNotKey DEF TypeOK, TablesInverse, Valid
<1>2. ASSUME NEW f \in Valid PROVE \E k \in DOMAIN pt : pt[k] = f
  BY DEF TablesInverse
<1> QED
  BY <1>1, <1>2 DEF Abstract!Used

\* The steps that change the page table: a page gets a free frame, or the
\* clock takes one.
LEMMA TableSteps ==
  ASSUME IInv, [Next]_vars, pt' # pt
  PROVE  \E k \in Key \ DOMAIN pt, f \in Frame :
           /\ Place(k, f)
           /\ f \notin Valid \/ Valid = Frame
<1>1. ASSUME NEW k \in Key, NEW f \in Frame, MissFree(k, f)
      PROVE  k \notin DOMAIN pt /\ Place(k, f) /\ f \notin Valid
  BY <1>1 DEF MissFree, Misses, Touchable
<1>2. ASSUME ClockTake
      PROVE  /\ seeking \in Key \ DOMAIN pt /\ refptr \in Frame
             /\ Place(seeking, refptr)
             /\ refptr \notin Valid \/ Valid = Frame
  <2>1. refptr \notin Valid \/ refptr \notin ref
    BY <1>2 DEF ClockTake, PassedOver
  <2>2. refptr \notin Valid \/ Valid = Frame
    BY <2>1, TakenWhenFree DEF IInv
  <2> QED
    BY <1>2, <2>2 DEF ClockTake, IInv, TypeOK
<1>3. \/ ClockTake
      \/ \E k \in Key, f \in Frame : MissFree(k, f)
  BY DEF Next, Clock, ClockPass, Shortcut, TableHit, MissSearch, vars
<1> QED
  BY <1>1, <1>2, <1>3

\* No page is evicted while a frame is free, with random allocation and with
\* first touch: the clock meets an unreferenced page only after a full round,
\* in which it has taken every free frame.
THEOREM NoEarlyEviction == Spec => EvictOnlyWhenFull
<1>1. ASSUME IInv, [Next]_vars
      PROVE  DOMAIN pt \subseteq DOMAIN pt' \/ Valid = Frame
  <2>1. CASE pt' = pt
    BY <2>1
  <2>2. CASE pt' # pt
    <3>1. PICK k \in Key \ DOMAIN pt, f \in Frame :
            Place(k, f) /\ (f \notin Valid \/ Valid = Frame)
      BY <1>1, <2>2, TableSteps
    <3>2. DOMAIN pt' = (DOMAIN pt \ {holder[f]}) \cup {k}
      BY <1>1, <3>1, PlaceInverse DEF IInv
    <3>3. CASE f \notin Valid
      <4>1. holder[f] = NoPage
        BY <3>3 DEF Valid
      <4>2. NoPage \notin DOMAIN pt
        BY <1>1, NoPageNotKey DEF IInv, TypeOK
      <4> QED
        BY <3>2, <4>1, <4>2
    <3> QED
      BY <3>1, <3>3
  <2> QED
    BY <2>1, <2>2
<1>2. IInv /\ [Next]_vars => [DOMAIN pt \subseteq DOMAIN pt' \/ Valid = Frame]_vars
  BY <1>1
<1> QED
  BY <1>2, IInvAlways, PTL DEF Spec, EvictOnlyWhenFull

\* A page that gets a frame does so as the abstract page map allows.
LEMMA PlaceAbstract ==
  ASSUME IInv, NEW k \in Key \ DOMAIN pt, NEW f \in Frame, Place(k, f),
         f \notin Valid \/ Valid = Frame
  PROVE  Abstract!Next
<1>1. pt' = PtWith(k, f) /\ answer' = <<k, f>> /\ Abstract!Used = Valid
  BY UsedIsValid DEF Place, Answer, IInv
<1>2. CASE f \notin Valid
  <2>1. holder[f] \notin DOMAIN pt
    BY <1>2, NoPageNotKey DEF Valid, IInv, TypeOK
  <2>2. pt' = [x \in DOMAIN pt \cup {k} |-> IF x = k THEN f ELSE pt[x]]
    BY <1>1, <2>1 DEF PtWith
  <2>3. Abstract!Allocate(k, f)
    BY <1>1, <1>2, <2>2 DEF Abstract!Allocate, Abstract!Put
  <2> QED
    BY <2>3 DEF Abstract!Next
<1>3. CASE f \in Valid /\ Valid = Frame
  <2>1. holder[f] \in DOMAIN pt /\ pt[holder[f]] = f
    BY <1>3 DEF IInv, TablesInverse
  <2>2. Abstract!Replace(k, holder[f])
    BY <1>1, <1>3, <2>1 DEF Abstract!Replace, Abstract!Put, PtWith
  <2> QED
    BY <2>1, <2>2 DEF Abstract!Next
<1> QED
  BY <1>2, <1>3

\* If thread 0 never uses its page 0, which is what the copies of last
\* translations hold at first, the tables implement the abstract page map:
\* a page in memory is always found where it is, and a thread gets an old
\* frame only for a page that has left a full memory.
THEOREM Implements == ZeroKey \notin Key => (Spec => KeepsPages)
<1> SUFFICES ASSUME ZeroKey \notin Key PROVE Spec => KeepsPages
  OBVIOUS
<1>1. Init => Abstract!Init
  BY DEF Init, Abstract!Init
<1>2. ASSUME IInv, [Next]_vars
      PROVE  Abstract!Next \/ (pt' = pt /\ answer' = answer)
  <2>0. Abstract!Used = Valid
    BY <1>2, UsedIsValid DEF IInv
  <2>2. ASSUME NEW k \in Key, Shortcut(k) PROVE Abstract!Next
    <3>1. /\ last[k[1]].vpn = k /\ k[1] \in Thread
          /\ answer' = <<k, last[k[1]].pfn>> /\ pt' = pt
      BY <2>2 DEF Shortcut, Remembers, Key
    <3>2. CASE k \in DOMAIN pt
      <4>1. pt[k] = last[k[1]].pfn
        BY <1>2, <3>1, <3>2 DEF IInv, ShortcutAgrees
      <4>2. Abstract!Found(k)
        BY <3>1, <3>2, <4>1 DEF Abstract!Found
      <4> QED
        BY <4>2 DEF Abstract!Next
    <3>3. CASE k \notin DOMAIN pt
      <4>1. Valid = Frame
        BY <1>2, <3>1, <3>3 DEF IInv, OverdueWhenFull
      <4>2. last[k[1]].pfn \in Frame
        BY <1>2, <3>1 DEF IInv, TypeOK
      <4>3. Abstract!Overdue(k, last[k[1]].pfn)
        BY <2>0, <3>1, <3>3, <4>1 DEF Abstract!Overdue
      <4> QED
        BY <4>2, <4>3 DEF Abstract!Next
    <3> QED
      BY <3>2, <3>3
  <2>3. ASSUME NEW k \in Key, TableHit(k) PROVE Abstract!Next
    <3>1. Abstract!Found(k)
      BY <2>3 DEF TableHit, Answer, Abstract!Found
    <3> QED
      BY <3>1 DEF Abstract!Next
  <2>4. ASSUME NEW k \in Key, MissSearch(k) PROVE pt' = pt /\ answer' = answer
    BY <2>4 DEF MissSearch
  <2>5. ASSUME ClockPass PROVE pt' = pt /\ answer' = answer
    BY <2>5 DEF ClockPass
  <2>6. ASSUME NEW k \in Key, NEW f \in Frame, MissFree(k, f)
        PROVE  Abstract!Next
    <3>1. k \notin DOMAIN pt /\ Place(k, f) /\ f \notin Valid
      BY <2>6 DEF MissFree, Misses, Touchable
    <3> QED
      BY <1>2, <3>1, PlaceAbstract
  <2>7. ASSUME ClockTake PROVE Abstract!Next
    <3>1. /\ seeking \in Key \ DOMAIN pt /\ refptr \in Frame
          /\ Place(seeking, refptr)
          /\ refptr \notin Valid \/ refptr \notin ref
      BY <1>2, <2>7 DEF ClockTake, PassedOver, IInv, TypeOK
    <3>2. refptr \notin Valid \/ Valid = Frame
      BY <1>2, <3>1, TakenWhenFree DEF IInv
    <3> QED
      BY <1>2, <3>1, <3>2, PlaceAbstract
  <2>8. CASE UNCHANGED vars
    BY <2>8 DEF vars
  <2> QED
    BY <1>2, <2>2, <2>3, <2>4, <2>5, <2>6, <2>7, <2>8 DEF Next, Clock
<1>3. IInv /\ [Next]_vars => [Abstract!Next]_<<pt, answer>>
  BY <1>2
<1> QED
  BY <1>1, <1>3, IInvAlways, PTL DEF Spec, KeepsPages, Abstract!Spec

-----------------------------------------------------------------------------
(***************************************************************************)
(* The layout of the metadata: lines and entries of a level.               *)
(***************************************************************************)

\* Entries that a line of counters, or of a level of the tree, may hold.
Arities == {8, 16, 32, 64, 128, 256, 512}

\* The line an entry lies in, by its number and by its address; a line back to a number.
LEMMA LineOfEntry ==
  ASSUME NEW p \in Arities, NEW n \in Nat
  PROVE  /\ BytesOf(n, p) \in Nat
         /\ BytesOf(n, p) \div CacheLine = n \div p
         /\ n \div p \in Nat /\ n % p \in 0 .. p - 1
         /\ BytesOf(n, p) - (BytesOf(n, p) % CacheLine) = CacheLine * (n \div p)
         /\ ((BytesOf(n, p) * p) \div CacheLine) \in 0 .. n
         /\ ((BytesOf(n, p) * p) \div CacheLine) \div p = n \div p
  BY DEF Arities, BytesOf, CacheLine

\* The first entry of a line, by the address of the line, and the others of it.
LEMMA FirstOfLine ==
  ASSUME NEW p \in Arities, NEW k \in Nat, NEW i \in 0 .. p - 1
  PROVE  /\ ((CacheLine * k) * p) \div CacheLine = k * p
         /\ k * p \in Nat
         /\ (k * p + i) \div p = k
         /\ (k * p) \div p = k
  BY DEF Arities, CacheLine

\* The entries of k lines lie in k lines.
LEMMA LinesHold ==
  ASSUME NEW p \in Arities, NEW k \in Nat, NEW n \in Nat, n < k * p
  PROVE  n \div p < k /\ BytesOf(n, p) < CacheLine * k
  BY DEF Arities, BytesOf, CacheLine

\* The line of an address behind the start of a level.
LEMMA LineAddrs ==
  ASSUME NEW s \in Nat, s % CacheLine = 0, NEW b \in Nat
  PROVE  LineAddr(s + b) = s + (b - (b % CacheLine)) /\ b % CacheLine \in 0 .. CacheLine - 1
  BY DEF CacheLine, LineAddr

\* Lines of level l; level 0 is the root line.
LinesAt(o, l) ==
  IF l = o.num_Mtree_levels THEN o.ctr_store_size \div CacheLine ELSE o.mtree_level_size[l] \div CacheLine

\* Entries of level l: one for each line of the level below, or of all memory.
EntriesAt(o, l) == IF l = o.num_Mtree_levels THEN o.mem_size \div CacheLine ELSE LinesAt(o, l + 1)

\* What the tables of init_memOrg are to be: levels of whole lines, one behind another, each with one
\* entry for every line of the level below, and numbers that fit an int.
OrgRight(o) ==
  LET L     == o.num_Mtree_levels
      start == o.mtree_levels_start_addr
  IN /\ L \in Nat \ {0} /\ o.mem_size \in Nat
     /\ start \in [0 .. L -> Nat] /\ o.inLine \in [0 .. L -> Arities] /\ o.arity = o.inLine
     /\ \A l \in 0 .. L : LinesAt(o, l) \in Nat \ {0} /\ start[l] % CacheLine = 0
     /\ o.ctr_store_size = CacheLine * LinesAt(o, L)
     /\ \A l \in 0 .. L - 1 : /\ o.mtree_level_size[l] = CacheLine * LinesAt(o, l)
                              /\ start[l + 1] >= start[l] + CacheLine * LinesAt(o, l)
     /\ LinesAt(o, 0) = 1
     /\ LinesAt(o, 1) <= o.inLine[0]
     /\ \A l \in 1 .. L - 1 : LinesAt(o, l + 1) = LinesAt(o, l) * o.inLine[l]
     /\ o.mem_size = CacheLine * (LinesAt(o, L) * o.inLine[L])
     /\ LinesAt(o, L) * o.inLine[L] <= IntMax + 1
     /\ o.MAC_store_size \in Nat /\ o.mtree_store_size \in Nat
     /\ start[0] = Visible(o) /\ start[L] = Visible(o) + o.mtree_store_size
     /\ start[L] + o.ctr_store_size <= o.mem_size

\* Sizes of a level: its entries fill its lines, but for those of the root.
LEMMA LinesOfLevel ==
  ASSUME NEW o, OrgRight(o), NEW l \in 0 .. o.num_Mtree_levels
  PROVE  /\ LinesAt(o, l) \in Nat \ {0} /\ o.inLine[l] \in Arities
         /\ EntriesAt(o, l) \in Nat
         /\ EntriesAt(o, l) <= LinesAt(o, l) * o.inLine[l]
         /\ l > 0 => EntriesAt(o, l) = LinesAt(o, l) * o.inLine[l]
         /\ l > 0 => EntriesAt(o, l - 1) = LinesAt(o, l)
<1>1. LinesAt(o, l) \in Nat \ {0} /\ o.inLine[l] \in Arities
  BY DEF OrgRight
<1>2. LinesAt(o, l) * o.inLine[l] \in Nat
  BY <1>1 DEF Arities
<1>3. l > 0 => EntriesAt(o, l - 1) = LinesAt(o, l)
  BY DEF OrgRight, EntriesAt
<1>4. CASE l = o.num_Mtree_levels
  <2>1. EntriesAt(o, l) = LinesAt(o, l) * o.inLine[l]
    <3>1. o.mem_size = CacheLine * (LinesAt(o, l) * o.inLine[l])
      BY <1>4 DEF OrgRight
    <3>2. o.mem_size \div CacheLine = LinesAt(o, l) * o.inLine[l]
      BY <1>2, <3>1 DEF CacheLine
    <3> QED BY <1>4, <3>2 DEF EntriesAt
  <2> QED BY <1>1, <1>2, <1>3, <2>1
<1>5. CASE l # o.num_Mtree_levels /\ l > 0
  <2>1. l \in 1 .. o.num_Mtree_levels - 1
    BY <1>5 DEF OrgRight
  <2>2. EntriesAt(o, l) = LinesAt(o, l) * o.inLine[l]
    BY <1>5, <2>1 DEF EntriesAt, OrgRight
  <2> QED BY <1>1, <1>2, <1>3, <2>2
<1>6. CASE l = 0
  <2>1. EntriesAt(o, l) = LinesAt(o, 1)
    BY <1>6 DEF OrgRight, EntriesAt
  <2>2. LinesAt(o, 0) = 1 /\ LinesAt(o, 1) <= o.inLine[0] /\ LinesAt(o, 1) \in Nat
    BY DEF OrgRight
  <2> QED BY <1>1, <1>6, <2>1, <2>2 DEF Arities
<1> QED BY <1>4, <1>5, <1>6

\* Levels lie one behind the other.
LEMMA LevelsInOrder ==
  ASSUME NEW o, OrgRight(o), NEW k \in 0 .. o.num_Mtree_levels, NEW l \in 0 .. o.num_Mtree_levels, k < l
  PROVE  o.mtree_levels_start_addr[k] + CacheLine * LinesAt(o, k) <= o.mtree_levels_start_addr[l]
<1> DEFINE L     == o.num_Mtree_levels
           start == o.mtree_levels_start_addr
           B     == {n \in Nat : k + 1 + n <= L => start[k] + CacheLine * LinesAt(o, k) <= start[k + 1 + n]}
<1>1. /\ L \in Nat /\ \A i \in 0 .. L : start[i] \in Nat /\ LinesAt(o, i) \in Nat
      /\ \A i \in 0 .. L - 1 : start[i + 1] >= start[i] + CacheLine * LinesAt(o, i)
  BY DEF OrgRight
<1> HIDE DEF L, start
<1>2. k \in 0 .. L /\ l \in 0 .. L
  BY DEF L
<1>3. 0 \in B
  BY <1>1, <1>2
<1>4. ASSUME NEW n \in Nat, n \in B PROVE n + 1 \in B
  <2>1. ASSUME k + 1 + (n + 1) <= L
        PROVE  start[k] + CacheLine * LinesAt(o, k) <= start[k + 1 + (n + 1)]
    <3>1. k + 1 + n \in 0 .. L - 1 /\ k + 1 + n \in 0 .. L /\ k + 1 + (n + 1) \in 0 .. L
          /\ k + 1 + (n + 1) = (k + 1 + n) + 1
      BY <1>1, <1>2, <2>1
    <3>2. start[(k + 1 + n) + 1] >= start[k + 1 + n] + CacheLine * LinesAt(o, k + 1 + n)
      BY <1>1, <3>1
    <3>3. start[k] + CacheLine * LinesAt(o, k) <= start[k + 1 + n]
      BY <1>4, <2>1, <3>1, <1>1, <1>2
    <3>4. start[k] \in Nat /\ LinesAt(o, k) \in Nat /\ start[k + 1 + n] \in Nat /\ LinesAt(o, k + 1 + n) \in Nat
          /\ start[(k + 1 + n) + 1] \in Nat
      BY <1>1, <1>2, <3>1
    <3> QED BY <3>1, <3>2, <3>3, <3>4 DEF CacheLine
  <2> QED BY <2>1
<1>5. l - k - 1 \in Nat /\ k + 1 + (l - k - 1) = l /\ l <= L
  BY <1>1, <1>2
<1>6. l - k - 1 \in B
  <2> HIDE DEF B
  <2> QED BY <1>3, <1>4, <1>5, ClosedSetHoldsNat
<1> QED BY <1>5, <1>6 DEF L, start

\* getMtreeEvictParent finds the level of any byte of a level.
LEMMA LevelFound ==
  ASSUME NEW o, OrgRight(o), NEW l \in 0 .. o.num_Mtree_levels, NEW b \in Nat, b < CacheLine * LinesAt(o, l)
  PROVE  LevelOf(o, o.mtree_levels_start_addr[l] + b) = l
<1> DEFINE L     == o.num_Mtree_levels
           start == o.mtree_levels_start_addr
           a     == start[l] + b
           P(i)  == start[i] <= a /\ \A k \in i + 1 .. L : a < start[k]
<1>1. L \in Nat /\ \A i \in 0 .. L : start[i] \in Nat /\ LinesAt(o, i) \in Nat
  BY DEF OrgRight
<1>2. ASSUME NEW k \in l + 1 .. L PROVE a < start[k]
  <2>1. k \in 0 .. L /\ l < k
    BY <1>1
  <2>2. start[l] + CacheLine * LinesAt(o, l) <= start[k]
    BY <2>1, LevelsInOrder
  <2> QED BY <1>1, <2>1, <2>2 DEF CacheLine
<1>3. P(l)
  BY <1>1, <1>2
<1>4. ASSUME NEW i \in 0 .. L, P(i) PROVE i = l
  <2>1. ~(i > l)
    <3>1. i > l => a < start[i]
      BY <1>1, <1>2
    <3> QED BY <1>1, <1>4, <3>1
  <2>2. ~(i < l)
    <3>1. i < l => a < start[l]
      BY <1>1, <1>4
    <3> QED BY <1>1, <3>1
  <2> QED BY <1>1, <2>1, <2>2
<1>5. LevelOf(o, a) = CHOOSE i \in 0 .. L : P(i)
  BY DEF LevelOf
<1> HIDE DEF P, a
<1> QED BY <1>3, <1>4, <1>5 DEF a

\* An entry lies inside its level.
LEMMA EntryPlace ==
  ASSUME NEW o, OrgRight(o), NEW l \in 0 .. o.num_Mtree_levels, NEW n \in 0 .. EntriesAt(o, l) - 1
  PROVE  LET p == o.inLine[l]
             s == o.mtree_levels_start_addr[l]
             a == Entry(o, l, n).paddr
         IN /\ p \in Arities /\ n \in Nat /\ s \in Nat
            /\ a = s + BytesOf(n, p) /\ BytesOf(n, p) \in Nat
            /\ BytesOf(n, p) < CacheLine * LinesAt(o, l)
            /\ n \div p \in 0 .. LinesAt(o, l) - 1
            /\ LineAddr(a) = s + CacheLine * (n \div p)
            /\ LevelOf(o, a) = l /\ LevelOf(o, LineAddr(a)) = l
<1> DEFINE p == o.inLine[l]
           s == o.mtree_levels_start_addr[l]
           a == Entry(o, l, n).paddr
<1>1. /\ p \in Arities /\ n \in Nat /\ LinesAt(o, l) \in Nat /\ n < LinesAt(o, l) * p
  <2>1. /\ LinesAt(o, l) \in Nat \ {0} /\ p \in Arities /\ EntriesAt(o, l) \in Nat
        /\ EntriesAt(o, l) <= LinesAt(o, l) * p
    BY LinesOfLevel
  <2>2. LinesAt(o, l) * p \in Nat
    BY <2>1 DEF Arities
  <2> HIDE DEF p
  <2> QED BY <2>1, <2>2
<1>2. s \in Nat /\ s % CacheLine = 0
  BY DEF OrgRight
<1>3. a = s + BytesOf(n, p)
  BY DEF Entry
<1> HIDE DEF p, s, a
<1>4. BytesOf(n, p) \in Nat /\ BytesOf(n, p) < CacheLine * LinesAt(o, l) /\ n \div p < LinesAt(o, l)
      /\ n \div p \in Nat
  BY <1>1, LineOfEntry, LinesHold
<1>5. LineAddr(a) = s + CacheLine * (n \div p)
  BY <1>1, <1>2, <1>3, <1>4, LineOfEntry, LineAddrs
<1>6. LevelOf(o, a) = l
  BY <1>3, <1>4, LevelFound DEF s
<1>7. LevelOf(o, LineAddr(a)) = l
  <2>1. CacheLine * (n \div p) \in Nat /\ CacheLine * (n \div p) < CacheLine * LinesAt(o, l)
    BY <1>1, <1>4 DEF CacheLine
  <2> QED BY <1>5, <2>1, LevelFound DEF s
<1> QED BY <1>1, <1>2, <1>3, <1>4, <1>5, <1>6, <1>7 DEF p, s, a

IsEntry(o, e) ==
  /\ e.mtree_level \in 0 .. o.num_Mtree_levels
  /\ e.entry_num \in 0 .. EntriesAt(o, e.mtree_level) - 1
  /\ e = Entry(o, e.mtree_level, e.entry_num)

\* Every number of an entry is an int.
LEMMA EntryFits ==
  ASSUME NEW o, OrgRight(o), IntMax \in Nat, NEW l \in 1 .. o.num_Mtree_levels
  PROVE  EntriesAt(o, l) <= IntMax + 1
<1> DEFINE L == o.num_Mtree_levels
<1>1. L \in Nat \ {0}
  BY DEF OrgRight
<1>2. CASE l = L
  <2>1. EntriesAt(o, l) = LinesAt(o, l) * o.inLine[l]
    BY LinesOfLevel
  <2>2. LinesAt(o, L) * o.inLine[L] <= IntMax + 1
    BY DEF OrgRight
  <2> QED BY <1>2, <2>1, <2>2
<1>3. CASE l # L
  <2>1. EntriesAt(o, l) = LinesAt(o, l + 1) /\ l + 1 \in 0 .. L
    BY <1>1, <1>3 DEF EntriesAt
  <2>2. /\ LinesAt(o, L) \in Nat /\ o.inLine[L] \in Arities /\ LinesAt(o, l + 1) \in Nat
        /\ o.mtree_levels_start_addr[L] \in Nat /\ o.mtree_levels_start_addr[l + 1] \in Nat
        /\ o.mtree_levels_start_addr[L] + o.ctr_store_size <= o.mem_size
        /\ o.ctr_store_size = CacheLine * LinesAt(o, L)
        /\ o.mem_size = CacheLine * (LinesAt(o, L) * o.inLine[L])
        /\ LinesAt(o, L) * o.inLine[L] <= IntMax + 1
    <3>1. L \in 0 .. L /\ l + 1 \in 0 .. L
      BY <1>1, <2>1
    <3>2. /\ LinesAt(o, L) \in Nat /\ o.inLine[L] \in Arities /\ LinesAt(o, l + 1) \in Nat
      BY <3>1 DEF OrgRight
    <3>3. o.mtree_levels_start_addr[L] \in Nat /\ o.mtree_levels_start_addr[l + 1] \in Nat
      BY <3>1 DEF OrgRight
    <3> QED BY <3>2, <3>3 DEF OrgRight
  <2>3. LinesAt(o, L) * o.inLine[L] \in Nat
    BY <2>2 DEF Arities
  <2>4. CacheLine * LinesAt(o, l + 1) <= o.mem_size
    <3>1. CASE l + 1 = L
      BY <2>2, <2>3, <3>1 DEF CacheLine
    <3>2. CASE l + 1 # L
      <4>1. o.mtree_levels_start_addr[l + 1] + CacheLine * LinesAt(o, l + 1) <= o.mtree_levels_start_addr[L]
        BY <1>1, <2>1, <3>2, LevelsInOrder
      <4> QED BY <2>2, <2>3, <4>1 DEF CacheLine
    <3> QED BY <3>1, <3>2
  <2> QED BY <2>1, <2>2, <2>3, <2>4 DEF CacheLine
<1> QED BY <1>2, <1>3

\* Up by the number: the parent is an entry of the level above.
LEMMA ParentIsEntry ==
  ASSUME NEW o, OrgRight(o), NEW l \in 1 .. o.num_Mtree_levels, NEW n \in 0 .. EntriesAt(o, l) - 1, NEW a
  PROVE  LET e == [mtree_level |-> l, entry_num |-> n, paddr |-> a]
         IN /\ getMtreeEntry(o, e) = Entry(o, l - 1, n \div o.inLine[l])
            /\ n \div o.inLine[l] \in 0 .. EntriesAt(o, l - 1) - 1
            /\ IsEntry(o, getMtreeEntry(o, e))
<1>1. l \in 0 .. o.num_Mtree_levels /\ l > 0 /\ l - 1 \in 0 .. o.num_Mtree_levels /\ o.arity = o.inLine
  BY DEF OrgRight
<1>2. n \div o.inLine[l] \in 0 .. LinesAt(o, l) - 1
  BY <1>1, EntryPlace
<1>3. EntriesAt(o, l - 1) = LinesAt(o, l)
  BY <1>1, LinesOfLevel
<1> QED BY <1>1, <1>2, <1>3 DEF getMtreeEntry, IsEntry, Entry

\* Up by the address, of the entry or of its line, is up by the number.
LEMMA ParentByAddress ==
  ASSUME NEW o, OrgRight(o), IntMax \in Nat, NEW l \in 1 .. o.num_Mtree_levels,
         NEW n \in 0 .. EntriesAt(o, l) - 1
  PROVE  LET a == Entry(o, l, n).paddr
         IN /\ getMtreeEvictParent(o, a) = Entry(o, l - 1, n \div o.inLine[l])
            /\ getMtreeEvictParent(o, LineAddr(a)) = Entry(o, l - 1, n \div o.inLine[l])
<1> DEFINE p == o.inLine[l]
           s == o.mtree_levels_start_addr[l]
           a == Entry(o, l, n).paddr
<1>1. /\ p \in Arities /\ n \in Nat /\ s \in Nat
      /\ a = s + BytesOf(n, p) /\ BytesOf(n, p) \in Nat
      /\ n \div p \in 0 .. LinesAt(o, l) - 1
      /\ LineAddr(a) = s + CacheLine * (n \div p)
      /\ LevelOf(o, a) = l /\ LevelOf(o, LineAddr(a)) = l
  BY EntryPlace
<1>2. EntriesAt(o, l) \in Nat /\ EntriesAt(o, l) <= IntMax + 1
  BY EntryFits, LinesOfLevel
<1>3. ASSUME NEW b, LevelOf(o, b) = l, NEW j \in 0 .. n, NumberAt(o, l, b) = j, j \div p = n \div p
      PROVE  getMtreeEvictParent(o, b) = Entry(o, l - 1, n \div p)
  <2>1. AsInt(j) = j
    BY <1>2 DEF AsInt
  <2>2. j \in 0 .. EntriesAt(o, l) - 1
    BY <1>2
  <2>3. getMtreeEntry(o, [mtree_level |-> l, entry_num |-> j, paddr |-> b]) = Entry(o, l - 1, j \div p)
    BY <2>2, ParentIsEntry
  <2> QED BY <1>3, <2>1, <2>3 DEF getMtreeEvictParent
<1>4. getMtreeEvictParent(o, a) = Entry(o, l - 1, n \div p)
  <2>1. NumberAt(o, l, a) = (BytesOf(n, p) * p) \div CacheLine
    <3>1. a - s = BytesOf(n, p)
      BY <1>1
    <3> QED BY <3>1 DEF NumberAt
  <2>2. NumberAt(o, l, a) \in 0 .. n /\ NumberAt(o, l, a) \div p = n \div p
    BY <1>1, <2>1, LineOfEntry
  <2> QED BY <1>1, <1>3, <2>2
<1>5. getMtreeEvictParent(o, LineAddr(a)) = Entry(o, l - 1, n \div p)
  <2>1. NumberAt(o, l, LineAddr(a)) = ((CacheLine * (n \div p)) * p) \div CacheLine
    <3>1. LineAddr(a) - s = CacheLine * (n \div p)
      BY <1>1, LineOfEntry DEF CacheLine
    <3> QED BY <3>1 DEF NumberAt
  <2>2. NumberAt(o, l, LineAddr(a)) = (n \div p) * p
    <3>1. 0 \in 0 .. p - 1
      BY <1>1 DEF Arities
    <3> QED BY <1>1, <2>1, <3>1, FirstOfLine
  <2>3. (n \div p) * p \in 0 .. n /\ ((n \div p) * p) \div p = n \div p
    BY <1>1 DEF Arities
  <2> QED BY <1>1, <1>3, <2>2, <2>3
<1> QED BY <1>4, <1>5

-----------------------------------------------------------------------------
\* get_partition tells the counters from the tree.
LEMMA PartitionFound ==
  ASSUME NEW o, OrgRight(o), NEW l \in 0 .. o.num_Mtree_levels, NEW n \in 0 .. EntriesAt(o, l) - 1
  PROVE  get_partition(o, Entry(o, l, n).paddr) = IF l = o.num_Mtree_levels THEN 2 ELSE 1
<1> DEFINE L     == o.num_Mtree_levels
           start == o.mtree_levels_start_addr
           a     == Entry(o, l, n).paddr
           b     == BytesOf(n, o.inLine[l])
<1>1. /\ a = start[l] + b /\ b \in Nat /\ b < CacheLine * LinesAt(o, l) /\ start[l] \in Nat
      /\ LinesAt(o, l) \in Nat
  BY EntryPlace, LinesOfLevel
<1>2. /\ L \in Nat \ {0} /\ start[0] = Visible(o) /\ start[L] = Visible(o) + o.mtree_store_size
      /\ start[0] \in Nat /\ start[L] \in Nat /\ o.ctr_store_size = CacheLine * LinesAt(o, L)
  <2>1. L \in Nat \ {0} /\ start \in [0 .. L -> Nat] /\ o.ctr_store_size = CacheLine * LinesAt(o, L)
    BY DEF OrgRight
  <2>2. start[0] = Visible(o) /\ start[L] = Visible(o) + o.mtree_store_size
    BY DEF OrgRight
  <2>3. start[0] \in Nat /\ start[L] \in Nat
    BY <2>1
  <2> HIDE DEF L, start
  <2> QED BY <2>1, <2>2, <2>3
<1>3. start[0] <= start[l] /\ (l # L => start[l] + CacheLine * LinesAt(o, l) <= start[L])
  <2>1. 0 < l => start[0] + CacheLine * LinesAt(o, 0) <= start[l]
    BY <1>2, LevelsInOrder
  <2>2. l # L => start[l] + CacheLine * LinesAt(o, l) <= start[L]
    BY <1>2, LevelsInOrder
  <2>3. LinesAt(o, 0) \in Nat
    BY <1>2 DEF OrgRight
  <2> HIDE DEF start, L
  <2> QED BY <1>1, <1>2, <2>1, <2>2, <2>3 DEF CacheLine
<1> HIDE DEF a, b, start, L
<1>4. get_partition(o, a) = IF l = L THEN 2 ELSE 1
  BY <1>1, <1>2, <1>3, LinesOfLevel DEF get_partition, CacheLine
<1> QED BY <1>4 DEF a, L

\* The children of a line of a level: as many lines as it has entries, one behind the other.
LEMMA ChildrenFound ==
  ASSUME NEW o, OrgRight(o), NEW l \in 0 .. o.num_Mtree_levels, NEW k \in 0 .. LinesAt(o, l) - 1,
         NEW a, LineAddr(a) = o.mtree_levels_start_addr[l] + CacheLine * k
  PROVE  LET p    == o.inLine[l]
             base == IF l = o.num_Mtree_levels THEN 0 ELSE o.mtree_levels_start_addr[l + 1]
         IN ChildrenOf(o, a) = { (base + (k * p) * CacheLine) + i * CacheLine : i \in 0 .. p - 1 }
<1> DEFINE p == o.inLine[l]
           s == o.mtree_levels_start_addr[l]
<1>1. p \in Arities /\ k \in Nat /\ s \in Nat /\ LinesAt(o, l) \in Nat
  BY LinesOfLevel DEF OrgRight
<1>2. LevelOf(o, LineAddr(a)) = l
  <2>1. CacheLine * k \in Nat /\ CacheLine * k < CacheLine * LinesAt(o, l)
    BY <1>1 DEF CacheLine
  <2> QED BY <2>1, LevelFound
<1>3. NumberAt(o, l, LineAddr(a)) = k * p
  <2>1. LineAddr(a) - s = CacheLine * k
    BY <1>1 DEF CacheLine
  <2>2. 0 \in 0 .. p - 1
    BY <1>1 DEF Arities
  <2> QED BY <1>1, <2>1, <2>2, FirstOfLine DEF NumberAt
<1> QED BY <1>2, <1>3 DEF ChildrenOf, getCtrChild

\* The line of an entry is among the children of the line of its parent.
LEMMA LineIsChild ==
  ASSUME NEW o, OrgRight(o), NEW l \in 1 .. o.num_Mtree_levels, NEW n \in 0 .. EntriesAt(o, l) - 1
  PROVE  LineAddr(Entry(o, l, n).paddr)
           \in ChildrenOf(o, Entry(o, l - 1, n \div o.inLine[l]).paddr)
<1> DEFINE L  == o.num_Mtree_levels
           n1 == n \div o.inLine[l]
           q  == o.inLine[l - 1]
           s  == o.mtree_levels_start_addr[l]
           k  == n1 \div q
<1>1. L \in Nat /\ l \in 0 .. L /\ l - 1 \in 0 .. L /\ l - 1 # L /\ (l - 1) + 1 = l
  BY DEF OrgRight
<1>2. LineAddr(Entry(o, l, n).paddr) = s + CacheLine * n1 /\ s \in Nat
  BY <1>1, EntryPlace
<1>3. n1 \in 0 .. EntriesAt(o, l - 1) - 1
  BY ParentIsEntry
<1>4. /\ q \in Arities /\ n1 \in Nat
      /\ k \in 0 .. LinesAt(o, l - 1) - 1
      /\ LineAddr(Entry(o, l - 1, n1).paddr) = o.mtree_levels_start_addr[l - 1] + CacheLine * k
  BY <1>1, <1>3, EntryPlace
<1>5. ChildrenOf(o, Entry(o, l - 1, n1).paddr) = { (s + (k * q) * CacheLine) + i * CacheLine : i \in 0 .. q - 1 }
  BY <1>1, <1>4, ChildrenFound
<1>6. n1 % q \in 0 .. q - 1
  BY <1>4, LineOfEntry
<1>7. s + CacheLine * n1 = (s + (k * q) * CacheLine) + (n1 % q) * CacheLine
  <2> HIDE DEF n1, q, s
  <2>1. n1 = k * q + (n1 % q)
    BY <1>4 DEF Arities
  <2>2. k * q \in Nat
    BY <1>4 DEF Arities
  <2> HIDE DEF k
  <2> QED BY <1>2, <1>4, <1>6, <2>1, <2>2 DEF CacheLine
<1> QED BY <1>2, <1>5, <1>6, <1>7

\* The parents of the children of a line lie in that line.
LEMMA ChildrenAreOwn ==
  ASSUME NEW o, OrgRight(o), IntMax \in Nat, NEW l \in 1 .. o.num_Mtree_levels,
         NEW n \in 0 .. EntriesAt(o, l) - 1
  PROVE  OwnChildren(o, Entry(o, l, n))
<1> DEFINE L == o.num_Mtree_levels
           e == Entry(o, l, n)
           p == o.inLine[l]
           s == o.mtree_levels_start_addr[l]
           k == n \div p
           base == IF l = L THEN 0 ELSE o.mtree_levels_start_addr[l + 1]
<1>1. L \in Nat /\ l \in 0 .. L /\ l > 0
  BY DEF OrgRight
<1>2. /\ p \in Arities /\ n \in Nat /\ k \in 0 .. LinesAt(o, l) - 1 /\ LineAddr(e.paddr) = s + CacheLine * k
      /\ s \in Nat
  BY <1>1, EntryPlace
<1>3. ChildrenOf(o, e.paddr) = { (base + (k * p) * CacheLine) + i * CacheLine : i \in 0 .. p - 1 }
  BY <1>1, <1>2, ChildrenFound
<1>4. e.mtree_level = l
  BY DEF Entry
<1>5. LinesAt(o, l) \in Nat /\ EntriesAt(o, l) \in Nat /\ EntriesAt(o, l) = LinesAt(o, l) * p
  BY <1>1, LinesOfLevel
<1> SUFFICES ASSUME NEW i \in 0 .. p - 1
             PROVE  LET c == (base + (k * p) * CacheLine) + i * CacheLine
                    IN IF l = L THEN LineAddr(getCounterAddr(o, c).paddr) = LineAddr(e.paddr)
                       ELSE LineAddr(getMtreeEvictParent(o, c).paddr) = LineAddr(e.paddr)
  BY <1>3, <1>4 DEF OwnChildren
<1> DEFINE m == k * p + i
           c == (base + (k * p) * CacheLine) + i * CacheLine
<1>6. m \in 0 .. EntriesAt(o, l) - 1 /\ m \div p = k
  <2>1. m \in Nat /\ m < LinesAt(o, l) * p
    <3> HIDE DEF p, k
    <3> QED BY <1>2, <1>5 DEF Arities
  <2>2. m \div p = k
    BY <1>2, FirstOfLine
  <2> HIDE DEF m
  <2> QED BY <1>5, <2>1, <2>2
<1>7. LineAddr(Entry(o, l, m).paddr) = LineAddr(e.paddr)
  <2> HIDE DEF m
  <2> QED BY <1>1, <1>2, <1>6, EntryPlace
<1>8. base \in Nat /\ k * p \in Nat
  <2>1. l # L => l + 1 \in 0 .. L
    BY <1>1
  <2>2. l # L => o.mtree_levels_start_addr[l + 1] \in Nat
    BY <2>1 DEF OrgRight
  <2> QED BY <1>2, <2>2, FirstOfLine
<1>9. c = base + CacheLine * m
  <2> HIDE DEF base, k, p
  <2> QED BY <1>2, <1>8 DEF CacheLine, Arities
<1>10. CASE l = L
  <2>1. c \div CacheLine = m
    <3> HIDE DEF m, c
    <3> QED BY <1>5, <1>6, <1>9, <1>10 DEF CacheLine
  <2> QED BY <1>7, <1>10, <2>1 DEF getCounterAddr
<1>11. CASE l # L
  <2> DEFINE q == o.inLine[l + 1]
  <2>1. l + 1 \in 1 .. L /\ (l + 1) - 1 = l /\ l + 1 \in 0 .. L /\ l + 1 > 0
    BY <1>1, <1>11
  <2>2. q \in Arities /\ EntriesAt(o, l) = LinesAt(o, l + 1) /\ LinesAt(o, l + 1) \in Nat
        /\ EntriesAt(o, l + 1) = LinesAt(o, l + 1) * q
    BY <2>1, LinesOfLevel
  <2>3. m * q \in 0 .. EntriesAt(o, l + 1) - 1 /\ (m * q) \div q = m
    <3> HIDE DEF m, q
    <3> QED BY <1>5, <1>6, <2>2 DEF Arities
  <2>4. Entry(o, l + 1, m * q).paddr = c
    <3>1. BytesOf(m * q, q) = CacheLine * m
      <4> HIDE DEF m, q
      <4> QED BY <1>5, <1>6, <2>2 DEF Arities, BytesOf, CacheLine
    <3> QED BY <1>9, <1>11, <3>1 DEF Entry
  <2>5. getMtreeEvictParent(o, c) = Entry(o, l, m)
    <3> HIDE DEF m, c
    <3> QED BY <2>1, <2>3, <2>4, ParentByAddress
  <2> QED BY <1>7, <1>11, <2>5
<1> QED BY <1>10, <1>11

-----------------------------------------------------------------------------
(***************************************************************************)
(* init_memOrg: the tables it fills make such a layout.                    *)
(***************************************************************************)

\* The counters of a line are one of the arities, whatever the design.
LEMMA InLineArity ==
  ASSUME NEW d \in DOMAIN InLine
  PROVE  InLine[d] \in Arities
  BY DEF InLine, Arities

\* So are the entries of a line of the tree, on every level.
LEMMA DesignArity ==
  ASSUME NEW tree \in [1 .. 5 -> DOMAIN InLine], NEW i \in Nat
  PROVE  DesignAt(tree, i) \in Arities
<1>1. (IF i > 4 THEN 4 ELSE i) + 1 \in 1 .. 5
  OBVIOUS
<1> QED BY <1>1, InLineArity DEF DesignAt

\* Designs that fall short are half of their lines.
LEMMA CtrsOfDesign ==
  ASSUME NEW d \in DOMAIN InLine
  PROVE  \/ CtrsPerMtree[d] = InLine[d] /\ BytesOf(CtrsPerMtree[d], InLine[d]) = CacheLine
         \/ CtrsPerMtree[d] # InLine[d] /\ BytesOf(CtrsPerMtree[d], InLine[d]) = 32
<1>1. CASE d \in {"SPLIT16", "SPLIT32"}
  <2>1. CASE d = "SPLIT16"
    <3>1. InLine[d] = 16 /\ CtrsPerMtree[d] = 8
      BY <2>1 DEF InLine, CtrsPerMtree
    <3> QED BY <3>1 DEF BytesOf, CacheLine
  <2>2. CASE d = "SPLIT32"
    <3>1. InLine[d] = 32
      BY <2>2 DEF InLine
    <3>2. CtrsPerMtree[d] = 16
      BY <2>2 DEF InLine, CtrsPerMtree
    <3> QED BY <3>1, <3>2 DEF BytesOf, CacheLine
  <2> QED BY <1>1, <2>1, <2>2
<1>2. CASE d \notin {"SPLIT16", "SPLIT32"}
  <2>1. CtrsPerMtree[d] = InLine[d]
    BY <1>2 DEF InLine, CtrsPerMtree
  <2>2. InLine[d] \in Arities
    BY InLineArity
  <2> QED BY <2>1, <2>2 DEF BytesOf, CacheLine, Arities
<1> QED BY <1>1, <1>2

\* What an entry of size x becomes one level up.
LEMMA OneLevelUp ==
  ASSUME NEW x \in Nat, NEW q \in Arities
  PROVE  /\ BytesOf(x \div CacheLine, q) \in Nat
         /\ BytesOf(x \div CacheLine, q) * q <= x
         /\ 8 * BytesOf(x \div CacheLine, q) <= x
  BY DEF BytesOf, CacheLine, Arities

\* What Shrunk computes: sizes of the levels, seen from the counters up.
Shrinks(tree, store, n, size) ==
  /\ size \in [0 .. n -> Nat] /\ size[0] = store
  /\ \A i \in 1 .. n : size[i] = BytesOf(size[i - 1] \div CacheLine, DesignAt(tree, i - 1))

\* The recursive definition of the sizes has the table it describes.
LEMMA ShrunkTable ==
  ASSUME NEW tree \in [1 .. 5 -> DOMAIN InLine], NEW store \in Nat, NEW n \in Nat
  PROVE  Shrinks(tree, store, n, Shrunk(tree, store, n))
<1> DEFINE g == [x \in (1 .. n) \X Nat |-> BytesOf(x[2] \div CacheLine, DesignAt(tree, x[1] - 1))]
           Fill(f, i) == IF i = 0 THEN store ELSE BytesOf(f[i - 1] \div CacheLine, DesignAt(tree, i - 1))
           Right(f) == f = [i \in 0 .. n |-> Fill(f, i)]
<1>1. g \in [(1 .. n) \X Nat -> Nat]
  <2>1. ASSUME NEW x \in (1 .. n) \X Nat PROVE BytesOf(x[2] \div CacheLine, DesignAt(tree, x[1] - 1)) \in Nat
    <3>1. x[2] \in Nat /\ x[1] - 1 \in Nat
      OBVIOUS
    <3> QED BY <3>1, DesignArity, OneLevelUp
  <2> QED BY <2>1
<1>2. PICK f \in [0 .. n -> Nat] : TableBy(f, n, store, g)
  <2>1. store \in Nat
    OBVIOUS
  <2> HIDE DEF g
  <2> QED BY <1>1, <2>1, TableExists
<1>3. Right(f)
  <2>1. ASSUME NEW i \in 1 .. n PROVE f[i] = Fill(f, i)
    <3>1. <<i, f[i - 1]>> \in (1 .. n) \X Nat
      OBVIOUS
    <3>2. f[i] = g[<<i, f[i - 1]>>]
      BY <1>2 DEF TableBy
    <3> QED BY <3>1, <3>2
  <2>2. ASSUME NEW i \in 0 .. n PROVE f[i] = Fill(f, i)
    <3>1. i = 0 \/ i \in 1 .. n
      OBVIOUS
    <3> QED BY <1>2, <2>1, <3>1 DEF TableBy
  <2> HIDE DEF Fill
  <2> QED BY <2>2
<1> DEFINE size == Shrunk(tree, store, n)
<1>4. Right(size)
  BY <1>3 DEF Shrunk
<1>5. size[0] = store /\ \A i \in 1 .. n : size[i] = BytesOf(size[i - 1] \div CacheLine, DesignAt(tree, i - 1))
  <2> HIDE DEF size
  <2> QED BY <1>4
<1>6. size \in [0 .. n -> Nat]
  <2> DEFINE B == {i \in 0 .. n : size[i] \in Nat}
  <2> HIDE DEF size
  <2>1. 0 \in B
    BY <1>5
  <2>2. ASSUME NEW i \in 1 .. n, i - 1 \in B PROVE i \in B
    <3>1. size[i - 1] \in Nat /\ i - 1 \in Nat
      BY <2>2
    <3>2. DesignAt(tree, i - 1) \in Arities
      BY <3>1, DesignArity
    <3>3. BytesOf(size[i - 1] \div CacheLine, DesignAt(tree, i - 1)) \in Nat
      BY <3>1, <3>2, OneLevelUp
    <3> QED BY <1>5, <3>3
  <2>3. 0 .. n \subseteq B
    <3> HIDE DEF B
    <3> QED BY <2>1, <2>2, ClosedSetHoldsTo
  <2> HIDE DEF Fill
  <2> QED BY <1>4, <2>3
<1> QED BY <1>5, <1>6 DEF Shrinks

\* What Total computes.
Summed(sum, size, n) == sum[0] = 0 /\ \A i \in 1 .. n : sum[i] = sum[i - 1] + size[i]

\* The recursive definition of the sum has the table it describes.
LEMMA TotalTable ==
  ASSUME NEW n \in Nat, NEW size, \A i \in 1 .. n : size[i] \in Nat
  PROVE  \E sum \in [0 .. n -> Nat] : Total(size, n) = sum[n] /\ Summed(sum, size, n)
<1> DEFINE g == [x \in (1 .. n) \X Nat |-> x[2] + size[x[1]]]
           Fill(f, i) == IF i = 0 THEN 0 ELSE f[i - 1] + size[i]
           Right(f) == f = [i \in 0 .. n |-> Fill(f, i)]
<1>1. g \in [(1 .. n) \X Nat -> Nat]
  OBVIOUS
<1>2. PICK f \in [0 .. n -> Nat] : TableBy(f, n, 0, g)
  <2>1. 0 \in Nat
    OBVIOUS
  <2> HIDE DEF g
  <2> QED BY <1>1, <2>1, TableExists
<1>3. Right(f)
  <2>1. ASSUME NEW i \in 1 .. n PROVE f[i] = Fill(f, i)
    <3>1. <<i, f[i - 1]>> \in (1 .. n) \X Nat
      OBVIOUS
    <3>2. f[i] = g[<<i, f[i - 1]>>]
      BY <1>2 DEF TableBy
    <3> QED BY <3>1, <3>2
  <2>2. ASSUME NEW i \in 0 .. n PROVE f[i] = Fill(f, i)
    <3>1. i = 0 \/ i \in 1 .. n
      OBVIOUS
    <3> QED BY <1>2, <2>1, <3>1 DEF TableBy
  <2> HIDE DEF Fill
  <2> QED BY <2>2
<1> DEFINE sum == CHOOSE s : Right(s)
<1>4. Right(sum) /\ Total(size, n) = sum[n]
  BY <1>3 DEF Total
<1>5. sum[0] = 0 /\ \A i \in 1 .. n : sum[i] = sum[i - 1] + size[i]
  <2> HIDE DEF sum
  <2> QED BY <1>4
<1>6. sum \in [0 .. n -> Nat]
  <2> DEFINE B == {i \in 0 .. n : sum[i] \in Nat}
  <2> HIDE DEF sum
  <2>1. 0 \in B
    BY <1>5
  <2>2. ASSUME NEW i \in 1 .. n, i - 1 \in B PROVE i \in B
    BY <1>5, <2>2
  <2>3. 0 .. n \subseteq B
    <3> HIDE DEF B
    <3> QED BY <2>1, <2>2, ClosedSetHoldsTo
  <2> HIDE DEF Fill
  <2> QED BY <1>4, <2>3
<1> QED BY <1>4, <1>5, <1>6 DEF Summed

\* What Grown computes: sizes of the levels, seen from the root down.
Grows(tree, root, levels, bytes) ==
  /\ bytes \in [0 .. levels - 1 -> Nat] /\ bytes[0] = CacheLine
  /\ levels > 1 => bytes[1] = CacheLine * root
  /\ \A i \in 2 .. levels - 1 : bytes[i] = bytes[i - 1] * DesignAt(tree, levels - i)

\* The recursive definition of the levels has the table it describes.
LEMMA GrownTable ==
  ASSUME NEW tree \in [1 .. 5 -> DOMAIN InLine], NEW root \in Nat, NEW levels \in Nat \ {0}
  PROVE  Grows(tree, root, levels, Grown(tree, root, levels))
<1> DEFINE per(i) == IF i = 1 THEN root ELSE DesignAt(tree, levels - i)
           g == [x \in (1 .. levels - 1) \X Nat |-> x[2] * per(x[1])]
           Fill(f, i) == IF i = 0 THEN CacheLine
                         ELSE IF i = 1 THEN f[0] * root ELSE f[i - 1] * DesignAt(tree, levels - i)
           Right(f) == f = [i \in 0 .. levels - 1 |-> Fill(f, i)]
<1>0. ASSUME NEW i \in 1 .. levels - 1, NEW x \in Nat PROVE x * per(i) \in Nat
  <2>1. per(i) \in Nat
    <3>1. levels - i \in Nat
      OBVIOUS
    <3> QED BY <3>1, DesignArity DEF Arities
  <2> HIDE DEF per
  <2> QED BY <2>1
<1>1. g \in [(1 .. levels - 1) \X Nat -> Nat]
  <2>1. ASSUME NEW x \in (1 .. levels - 1) \X Nat PROVE x[2] * per(x[1]) \in Nat
    <3>1. x[1] \in 1 .. levels - 1 /\ x[2] \in Nat
      OBVIOUS
    <3> HIDE DEF per
    <3> QED BY <1>0, <3>1
  <2> HIDE DEF per
  <2> QED BY <2>1
<1>2. PICK f \in [0 .. levels - 1 -> Nat] : TableBy(f, levels - 1, CacheLine, g)
  <2>1. CacheLine \in Nat /\ levels - 1 \in Nat
    BY DEF CacheLine
  <2> HIDE DEF g
  <2> QED BY <1>1, <2>1, TableExists
<1>3. Right(f)
  <2>1. ASSUME NEW i \in 1 .. levels - 1 PROVE f[i] = Fill(f, i)
    <3>1. <<i, f[i - 1]>> \in (1 .. levels - 1) \X Nat /\ i # 0
      OBVIOUS
    <3>2. f[i] = g[<<i, f[i - 1]>>]
      BY <1>2 DEF TableBy
    <3> QED BY <3>1, <3>2
  <2>2. ASSUME NEW i \in 0 .. levels - 1 PROVE f[i] = Fill(f, i)
    <3>1. i = 0 \/ i \in 1 .. levels - 1
      OBVIOUS
    <3> QED BY <1>2, <2>1, <3>1 DEF TableBy
  <2> HIDE DEF Fill
  <2> QED BY <2>2
<1> DEFINE bytes == Grown(tree, root, levels)
<1>4. Right(bytes)
  BY <1>3 DEF Grown
<1>5. /\ bytes[0] = CacheLine
      /\ levels > 1 => bytes[1] = CacheLine * root
      /\ \A i \in 2 .. levels - 1 : bytes[i] = bytes[i - 1] * DesignAt(tree, levels - i)
  <2> HIDE DEF bytes
  <2>1. bytes[0] = CacheLine
    BY <1>4
  <2>2. levels > 1 => bytes[1] = bytes[0] * root
    BY <1>4
  <2>3. ASSUME NEW i \in 2 .. levels - 1 PROVE bytes[i] = bytes[i - 1] * DesignAt(tree, levels - i)
    BY <1>4
  <2> QED BY <2>1, <2>2, <2>3
<1>6. bytes \in [0 .. levels - 1 -> Nat]
  <2> DEFINE B == {i \in 0 .. levels - 1 : bytes[i] \in Nat}
  <2> HIDE DEF bytes
  <2>1. 0 \in B
    BY <1>5 DEF CacheLine
  <2>2. ASSUME NEW i \in 1 .. levels - 1, i - 1 \in B PROVE i \in B
    <3>1. bytes[i - 1] * per(i) \in Nat
      BY <1>0, <2>2
    <3>2. bytes[i] = bytes[i - 1] * per(i)
      BY <1>5
    <3> QED BY <3>1, <3>2
  <2>3. 0 .. levels - 1 \subseteq B
    <3> HIDE DEF B
    <3>1. levels - 1 \in Nat
      OBVIOUS
    <3> QED BY <2>1, <2>2, <3>1, ClosedSetHoldsTo
  <2> HIDE DEF Fill
  <2> QED BY <1>4, <2>3
<1> QED BY <1>5, <1>6 DEF Grows

\* What Starts computes.
Begins(first, store, bytes, levels, start) ==
  /\ start \in [0 .. levels -> Nat] /\ start[0] = first /\ start[levels] = first + store
  /\ \A i \in 1 .. levels - 1 : start[i] = start[i - 1] + bytes[i - 1]

\* The recursive definition of the starts has the table it describes.
LEMMA StartsTable ==
  ASSUME NEW first \in Nat, NEW store \in Nat, NEW levels \in Nat \ {0}, NEW bytes \in [0 .. levels - 1 -> Nat]
  PROVE  Begins(first, store, bytes, levels, Starts(first, store, bytes, levels))
<1> DEFINE g == [x \in (1 .. levels) \X Nat |-> IF x[1] = levels THEN first + store ELSE x[2] + bytes[x[1] - 1]]
           Fill(f, i) == IF i = 0 THEN first
                         ELSE IF i = levels THEN first + store ELSE f[i - 1] + bytes[i - 1]
           Right(f) == f = [i \in 0 .. levels |-> Fill(f, i)]
<1>1. g \in [(1 .. levels) \X Nat -> Nat]
  <2>1. ASSUME NEW x \in (1 .. levels) \X Nat, x[1] # levels PROVE x[2] + bytes[x[1] - 1] \in Nat
    <3>1. x[1] - 1 \in 0 .. levels - 1 /\ x[2] \in Nat
      BY <2>1
    <3>2. bytes[x[1] - 1] \in Nat
      BY <3>1
    <3> QED BY <3>1, <3>2
  <2> QED BY <2>1
<1>2. PICK f \in [0 .. levels -> Nat] : TableBy(f, levels, first, g)
  <2>1. first \in Nat /\ levels \in Nat
    BY DEF CacheLine
  <2> HIDE DEF g
  <2> QED BY <1>1, <2>1, TableExists
<1>3. Right(f)
  <2>1. ASSUME NEW i \in 1 .. levels PROVE f[i] = Fill(f, i)
    <3>1. <<i, f[i - 1]>> \in (1 .. levels) \X Nat /\ i # 0
      OBVIOUS
    <3>2. f[i] = g[<<i, f[i - 1]>>]
      BY <1>2 DEF TableBy
    <3> QED BY <3>1, <3>2
  <2>2. ASSUME NEW i \in 0 .. levels PROVE f[i] = Fill(f, i)
    <3>1. i = 0 \/ i \in 1 .. levels
      OBVIOUS
    <3> QED BY <1>2, <2>1, <3>1 DEF TableBy
  <2> HIDE DEF Fill
  <2> QED BY <2>2
<1> DEFINE start == Starts(first, store, bytes, levels)
<1>4. Right(start)
  BY <1>3 DEF Starts
<1>5. /\ start[0] = first /\ start[levels] = first + store
      /\ \A i \in 1 .. levels - 1 : start[i] = start[i - 1] + bytes[i - 1]
  <2> HIDE DEF start
  <2> QED BY <1>4
<1>6. start \in [0 .. levels -> Nat]
  <2> DEFINE B == {i \in 0 .. levels : start[i] \in Nat}
  <2> HIDE DEF start
  <2>1. 0 \in B
    BY <1>5
  <2>2. ASSUME NEW i \in 1 .. levels, i - 1 \in B PROVE i \in B
    <3>1. CASE i = levels
      BY <1>5, <3>1
    <3>2. CASE i # levels
      <4>1. i \in 1 .. levels - 1 /\ i \in 0 .. levels /\ i - 1 \in 0 .. levels - 1
        BY <3>2
      <4>2. bytes[i - 1] \in Nat /\ start[i - 1] \in Nat /\ start[i] = start[i - 1] + bytes[i - 1]
        BY <1>5, <2>2, <4>1
      <4> QED BY <4>1, <4>2
    <3> QED BY <3>1, <3>2
  <2>3. 0 .. levels \subseteq B
    <3> HIDE DEF B
    <3> QED BY <2>1, <2>2, ClosedSetHoldsTo
  <2> HIDE DEF Fill
  <2> QED BY <1>4, <2>3
<1> QED BY <1>5, <1>6 DEF Begins

\* A memory of 16 address bits or more is a number of blocks of 64KB.
LEMMA Power16 ==
  ASSUME NEW b \in Nat, b >= 16
  PROVE  \E k \in Nat \ {0} : 2 ^ b = 65536 * k
<1>1. ASSUME NEW n \in Nat PROVE 2 ^ (n + 1) = 2 * 2 ^ n /\ 2 ^ n \in Nat \ {0}
  BY PowerOfNext
<1>2. ASSUME NEW n \in Nat PROVE 2 ^ (n + 4) = 16 * 2 ^ n
  <2>1. n + 1 \in Nat /\ n + 2 \in Nat /\ n + 3 \in Nat
    OBVIOUS
  <2>2. /\ 2 ^ (n + 1) = 2 * 2 ^ n /\ 2 ^ ((n + 1) + 1) = 2 * 2 ^ (n + 1)
        /\ 2 ^ ((n + 2) + 1) = 2 * 2 ^ (n + 2) /\ 2 ^ ((n + 3) + 1) = 2 * 2 ^ (n + 3)
        /\ 2 ^ n \in Nat
    BY <1>1, <2>1
  <2>3. (n + 1) + 1 = n + 2 /\ (n + 2) + 1 = n + 3 /\ (n + 3) + 1 = n + 4
    OBVIOUS
  <2> QED BY <2>2, <2>3
<1> DEFINE c == b - 16
<1>3. c \in Nat /\ b = ((((c + 4) + 4) + 4) + 4)
  OBVIOUS
<1> HIDE DEF c
<1>4. c + 4 \in Nat /\ (c + 4) + 4 \in Nat /\ ((c + 4) + 4) + 4 \in Nat
  BY <1>3
<1>5. /\ 2 ^ (c + 4) = 16 * 2 ^ c /\ 2 ^ ((c + 4) + 4) = 16 * 2 ^ (c + 4)
      /\ 2 ^ (((c + 4) + 4) + 4) = 16 * 2 ^ ((c + 4) + 4)
      /\ 2 ^ ((((c + 4) + 4) + 4) + 4) = 16 * 2 ^ (((c + 4) + 4) + 4)
  BY <1>2, <1>3, <1>4
<1>6. 2 ^ c \in Nat \ {0}
  BY <1>1, <1>3
<1>7. 2 ^ b = 65536 * 2 ^ c
  <2>1. 2 ^ b = 2 ^ ((((c + 4) + 4) + 4) + 4)
    BY <1>3
  <2> QED BY <1>5, <1>6, <2>1
<1> QED BY <1>6, <1>7

\* The counters of a memory fill whole lines, more than one.
LEMMA CounterStore ==
  ASSUME NEW m \in Memories
  PROVE  LET mem == 2 ^ m.bits
             p   == InLine[m.ctr]
             ctr == BytesOf(mem \div CacheLine, p)
         IN /\ m.bits \in Nat /\ p \in Arities /\ mem \in Nat /\ ctr \in Nat
            /\ ctr * p = mem /\ ctr % CacheLine = 0 /\ ctr >= 2 * CacheLine
            /\ ((mem \div CacheLine) * MacSize) * 8 = mem
            /\ ((mem \div CacheLine) * MacSize) % CacheLine = 0
<1>1. m.bits \in Nat /\ m.bits >= 16 /\ InLine[m.ctr] \in Arities
  BY MemoryAssumption, InLineArity
<1>2. PICK k \in Nat \ {0} : 2 ^ m.bits = 65536 * k
  BY <1>1, Power16
<1> QED BY <1>1, <1>2 DEF Arities, BytesOf, CacheLine, MacSize

\* The levels of the tree end before the address bits do, each an eighth of the one below at most.
LEMMA LevelsExist ==
  ASSUME NEW n \in Nat, NEW size \in [0 .. n -> Nat], size[0] > CacheLine, size[0] <= 2 ^ n,
         \A i \in 1 .. n : 8 * size[i] <= size[i - 1]
  PROVE  LET l == LevelsOf(size, n)
         IN l \in 1 .. n /\ size[l] <= CacheLine /\ \A i \in 0 .. l - 1 : size[i] > CacheLine
<1>1. 2 ^ 0 = 1 /\ \A i \in Nat : 2 ^ i \in Nat \ {0} /\ 2 ^ (i + 1) = 2 * 2 ^ i
  BY PowerOfNext
<1>2. size[n] <= 1
  <2> DEFINE B == {i \in 0 .. n : size[i] <= 2 ^ (n - i)}
  <2>1. 0 \in B
    OBVIOUS
  <2>2. ASSUME NEW i \in 1 .. n, i - 1 \in B PROVE i \in B
    <3>1. n - i \in Nat /\ n - (i - 1) = (n - i) + 1
      OBVIOUS
    <3>2. size[i - 1] <= 2 * 2 ^ (n - i) /\ 2 ^ (n - i) \in Nat
      BY <1>1, <2>2, <3>1
    <3>3. size[i] \in Nat /\ size[i - 1] \in Nat /\ 8 * size[i] <= size[i - 1]
      OBVIOUS
    <3> QED BY <3>2, <3>3
  <2>3. n \in B
    <3> HIDE DEF B
    <3>1. 0 .. n \subseteq B
      BY <2>1, <2>2, ClosedSetHoldsTo
    <3> QED BY <3>1
  <2>4. n - n = 0
    OBVIOUS
  <2> QED BY <1>1, <2>3, <2>4
<1> DEFINE P(l) == size[l] <= CacheLine /\ \A i \in 0 .. l - 1 : size[i] > CacheLine
<1>3. \E l \in 1 .. n : P(l)
  <2> SUFFICES ASSUME \A l \in 1 .. n : ~P(l) PROVE FALSE
    OBVIOUS
  <2> DEFINE B == {l \in 0 .. n : \A i \in 0 .. l : size[i] > CacheLine}
  <2>1. 0 \in B
    OBVIOUS
  <2>2. ASSUME NEW l \in 1 .. n, l - 1 \in B PROVE l \in B
    <3>1. ~P(l) /\ \A i \in 0 .. l - 1 : size[i] > CacheLine
      BY <2>2
    <3>2. size[l] > CacheLine
      BY <3>1 DEF CacheLine
    <3>3. \A i \in 0 .. l : i = l \/ i \in 0 .. l - 1
      OBVIOUS
    <3> HIDE DEF P
    <3> QED BY <3>1, <3>2, <3>3
  <2>3. n \in B
    <3> HIDE DEF B
    <3>1. 0 .. n \subseteq B
      BY <2>1, <2>2, ClosedSetHoldsTo
    <3> QED BY <3>1
  <2> QED BY <1>2, <2>3 DEF CacheLine
<1>4. LevelsOf(size, n) = CHOOSE l \in 1 .. n : P(l)
  BY DEF LevelsOf
<1>5. LevelsOf(size, n) \in 1 .. n /\ P(LevelsOf(size, n))
  <2> HIDE DEF P
  <2> QED BY <1>3, <1>4
<1> QED BY <1>5

\* Each level takes at most an eighth of the one below it: a step of TotalSmall.
LEMMA TwiceAnEighth ==
  \A s, x, y, z \in Nat : 8 * x <= y /\ s + y <= z => (s + x) + x <= z
  OBVIOUS

\* The leaves of the tree are half of its store: all other levels are smaller together.
LEMMA TotalSmall ==
  ASSUME NEW n \in Nat \ {0}, NEW size, \A i \in 1 .. n : size[i] \in Nat,
         \A i \in 2 .. n : 8 * size[i] <= size[i - 1]
  PROVE  Total(size, n) \in Nat /\ Total(size, n) <= size[1] * 2
<1>1. PICK sum \in [0 .. n -> Nat] : Total(size, n) = sum[n] /\ Summed(sum, size, n)
  BY TotalTable
<1> DEFINE B == {i \in 0 .. n : i >= 1 => sum[i] + size[i] <= size[1] * 2}
<1>2. 0 \in B
  OBVIOUS
<1>3. ASSUME NEW i \in 1 .. n, i - 1 \in B PROVE i \in B
  <2>1. sum[i] = sum[i - 1] + size[i] /\ size[i] \in Nat /\ sum[i - 1] \in Nat
    BY <1>1 DEF Summed
  <2>2. CASE i = 1
    BY <1>1, <2>1, <2>2 DEF Summed
  <2>3. CASE i # 1
    <3>1. i \in 2 .. n /\ i - 1 \in 1 .. n /\ i - 1 >= 1
      BY <2>3
    <3>2. sum[i - 1] + size[i - 1] <= size[1] * 2 /\ size[i - 1] \in Nat /\ 8 * size[i] <= size[i - 1]
          /\ size[1] \in Nat
      BY <1>3, <3>1
    <3>3. size[1] * 2 \in Nat
      BY <3>2
    <3>4. (sum[i - 1] + size[i]) + size[i] <= size[1] * 2
      BY <2>1, <3>2, <3>3, TwiceAnEighth
    <3> QED BY <2>1, <3>4
  <2> QED BY <2>2, <2>3
<1>4. n \in B
  <2> HIDE DEF B
  <2>1. n \in Nat
    OBVIOUS
  <2>2. 0 .. n \subseteq B
    BY <1>2, <1>3, <2>1, ClosedSetHoldsTo
  <2> QED BY <2>2
<1> QED BY <1>1, <1>4 DEF Summed

\* The levels fall in size by the entries of their lines.
LEMMA SizesFall ==
  ASSUME NEW tree \in [1 .. 5 -> DOMAIN InLine], NEW store, NEW n \in Nat, NEW size,
         Shrinks(tree, store, n, size), NEW i \in 1 .. n
  PROVE  /\ size[i] \in Nat /\ size[i - 1] \in Nat /\ DesignAt(tree, i - 1) \in Arities
         /\ size[i] * DesignAt(tree, i - 1) <= size[i - 1] /\ 8 * size[i] <= size[i - 1]
<1>1. i - 1 \in Nat /\ i - 1 \in 0 .. n /\ i \in 0 .. n
  OBVIOUS
<1>2. /\ size[i] \in Nat /\ size[i - 1] \in Nat
      /\ size[i] = BytesOf(size[i - 1] \div CacheLine, DesignAt(tree, i - 1))
  BY <1>1 DEF Shrinks
<1>3. DesignAt(tree, i - 1) \in Arities
  BY <1>1, DesignArity
<1> QED BY <1>2, <1>3, OneLevelUp

\* Multiples of the arities: their order, and lines that stay whole.
LEMMA ArityTimes ==
  ASSUME NEW d \in Arities, NEW x \in Nat, NEW y \in Nat
  PROVE  /\ x * d \in Nat
         /\ x <= y <=> x * d <= y * d
         /\ x % CacheLine = 0 => (x * d) % CacheLine = 0 /\ (x * d) \div CacheLine = (x \div CacheLine) * d
         /\ x * d >= 8 * x
  BY DEF Arities, CacheLine

\* Whole lines are a multiple of the line.
LEMMA WholeLines ==
  ASSUME NEW x \in Nat
  PROVE  x % CacheLine = 0 => x = CacheLine * (x \div CacheLine) /\ x \div CacheLine \in Nat
  BY DEF CacheLine

\* A multiple of the line is whole lines.
LEMMA LinesTimes ==
  ASSUME NEW x \in Nat
  PROVE  (CacheLine * x) % CacheLine = 0 /\ (CacheLine * x) \div CacheLine = x /\ CacheLine * x \in Nat
  BY DEF CacheLine

\* Every level of the tree is a number of whole lines.
LEMMA GrownLines ==
  ASSUME NEW tree \in [1 .. 5 -> DOMAIN InLine], NEW root \in Nat, NEW levels \in Nat \ {0}, NEW bytes,
         Grows(tree, root, levels, bytes)
  PROVE  \A i \in 0 .. levels - 1 : bytes[i] \in Nat /\ bytes[i] % CacheLine = 0
<1> DEFINE B == {i \in 0 .. levels - 1 : bytes[i] \in Nat /\ bytes[i] % CacheLine = 0}
<1>1. 0 \in B
  BY DEF Grows, CacheLine
<1>2. ASSUME NEW i \in 1 .. levels - 1, i - 1 \in B PROVE i \in B
  <2>1. CASE i = 1
    <3>1. bytes[1] = CacheLine * root
      BY <2>1 DEF Grows
    <3> QED BY <2>1, <3>1, LinesTimes
  <2>2. CASE i # 1
    <3>1. i \in 2 .. levels - 1 /\ levels - i \in Nat
      BY <2>2
    <3>2. bytes[i] = bytes[i - 1] * DesignAt(tree, levels - i) /\ DesignAt(tree, levels - i) \in Arities
      BY <3>1, DesignArity DEF Grows
    <3> QED BY <1>2, <3>2, ArityTimes
  <2> QED BY <2>1, <2>2
<1>3. levels - 1 \in Nat
  OBVIOUS
<1>4. 0 .. levels - 1 \subseteq B
  <2> HIDE DEF B
  <2> QED BY <1>1, <1>2, <1>3, ClosedSetHoldsTo
<1> QED BY <1>4

\* The tree that is grown from the root down is nowhere larger than the one that was
\* counted from the leaves up.
LEMMA GrownBelow ==
  ASSUME NEW tree \in [1 .. 5 -> DOMAIN InLine], NEW store, NEW n \in Nat, NEW size,
         Shrinks(tree, store, n, size), NEW levels \in 1 .. n, NEW root \in Nat,
         root = (size[levels] * DesignAt(tree, levels - 1)) \div CacheLine, NEW bytes,
         Grows(tree, root, levels, bytes)
  PROVE  \A i \in 1 .. levels - 1 : bytes[i] <= size[levels - i]
<1> DEFINE B == {i \in 0 .. levels - 1 : i >= 1 => bytes[i] <= size[levels - i]}
<1>1. 0 \in B
  OBVIOUS
<1>2. ASSUME NEW i \in 1 .. levels - 1, i - 1 \in B PROVE i \in B
  <2>1. CASE i = 1
    <3>1. levels \in 1 .. n /\ bytes[1] = CacheLine * root
      BY <2>1 DEF Grows
    <3>2. /\ size[levels] * DesignAt(tree, levels - 1) <= size[levels - 1]
          /\ size[levels] \in Nat /\ size[levels - 1] \in Nat /\ DesignAt(tree, levels - 1) \in Arities
      BY SizesFall
    <3>3. size[levels] * DesignAt(tree, levels - 1) \in Nat
      BY <3>2, ArityTimes
    <3>4. ASSUME NEW x \in Nat PROVE CacheLine * (x \div CacheLine) <= x
      BY DEF CacheLine
    <3>5. CacheLine * root \in Nat
      BY LinesTimes
    <3> QED BY <2>1, <3>1, <3>2, <3>3, <3>4, <3>5
  <2>2. CASE i # 1
    <3> DEFINE j == levels - i + 1
               d == DesignAt(tree, levels - i)
    <3>1. i \in 2 .. levels - 1 /\ i - 1 >= 1 /\ j \in 1 .. n /\ j - 1 = levels - i /\ levels - (i - 1) = j
          /\ i - 1 \in 0 .. levels - 1
      BY <2>2
    <3>2. bytes[i] = bytes[i - 1] * d /\ bytes[i - 1] \in Nat
      BY <3>1, GrownLines DEF Grows
    <3>3. size[j] * d <= size[levels - i] /\ size[j] \in Nat /\ d \in Arities /\ size[levels - i] \in Nat
      BY <3>1, SizesFall
    <3>4. bytes[i - 1] <= size[j]
      BY <1>2, <3>1
    <3> HIDE DEF j, d
    <3>5. bytes[i - 1] * d <= size[j] * d /\ bytes[i - 1] * d \in Nat /\ size[j] * d \in Nat
      BY <3>2, <3>3, <3>4, ArityTimes
    <3> QED BY <3>2, <3>3, <3>5
  <2> QED BY <2>1, <2>2
<1>3. levels - 1 \in Nat
  OBVIOUS
<1>4. 0 .. levels - 1 \subseteq B
  <2> HIDE DEF B
  <2> QED BY <1>1, <1>2, <1>3, ClosedSetHoldsTo
<1> QED BY <1>4

\* Where the sizes tally at the leaves, they do at every level.
LEMMA GrownFull ==
  ASSUME NEW tree \in [1 .. 5 -> DOMAIN InLine], NEW store \in Nat, NEW n \in Nat, NEW size,
         Shrinks(tree, store, n, size), NEW levels \in 1 .. n, NEW root \in Nat,
         root = (size[levels] * DesignAt(tree, levels - 1)) \div CacheLine, NEW bytes,
         Grows(tree, root, levels, bytes),
         bytes[levels - 1] * DesignAt(tree, 0) = store
  PROVE  \A i \in 1 .. levels - 1 : bytes[i] = size[levels - i]
<1> DEFINE B == {k \in 0 .. levels - 1 : k < levels - 1 => bytes[levels - 1 - k] >= size[1 + k]}
<1>1. ASSUME NEW k \in 0 .. levels - 1, k < levels - 1
      PROVE  /\ bytes[levels - 1 - k] \in Nat /\ size[1 + k] \in Nat /\ size[k] \in Nat
             /\ DesignAt(tree, k) \in Arities /\ size[1 + k] * DesignAt(tree, k) <= size[k]
             /\ size[1 + k] * DesignAt(tree, k) \in Nat
             /\ bytes[levels - 1 - k] * DesignAt(tree, k) \in Nat
  <2>1. 1 + k \in 1 .. n /\ (1 + k) - 1 = k /\ levels - 1 - k \in 0 .. levels - 1
    BY <1>1
  <2>2. /\ size[1 + k] \in Nat /\ size[k] \in Nat
        /\ DesignAt(tree, k) \in Arities /\ size[1 + k] * DesignAt(tree, k) <= size[k]
    BY <2>1, SizesFall
  <2>3. bytes[levels - 1 - k] \in Nat
    BY <2>1, GrownLines
  <2> QED BY <2>2, <2>3, ArityTimes
<1>2. 0 \in B
  <2>1. ASSUME 0 < levels - 1 PROVE bytes[levels - 1] >= size[1]
    <3>1. /\ bytes[levels - 1] \in Nat /\ size[1] \in Nat /\ size[0] \in Nat
          /\ DesignAt(tree, 0) \in Arities /\ size[1] * DesignAt(tree, 0) <= size[0]
          /\ size[1] * DesignAt(tree, 0) \in Nat
      <4>1. 0 \in 0 .. levels - 1 /\ levels - 1 - 0 = levels - 1 /\ 1 + 0 = 1
        BY <2>1
      <4> QED BY <1>1, <2>1, <4>1
    <3>2. size[1] * DesignAt(tree, 0) <= bytes[levels - 1] * DesignAt(tree, 0)
      BY <3>1 DEF Shrinks
    <3> QED BY <3>1, <3>2, ArityTimes
  <2>2. levels - 1 - 0 = levels - 1 /\ 1 + 0 = 1 /\ 0 \in 0 .. levels - 1
    OBVIOUS
  <2> QED BY <2>1, <2>2
<1>3. ASSUME NEW k \in 1 .. levels - 1, k - 1 \in B PROVE k \in B
  <2>1. ASSUME k < levels - 1 PROVE bytes[levels - 1 - k] >= size[1 + k]
    <3> DEFINE i == levels - 1 - (k - 1)
               d == DesignAt(tree, k)
    <3>1. /\ i \in 2 .. levels - 1 /\ i - 1 = levels - 1 - k /\ levels - i = k /\ 1 + (k - 1) = k
          /\ k \in 0 .. levels - 1 /\ k - 1 < levels - 1
      BY <2>1
    <3>2. bytes[i] = bytes[i - 1] * DesignAt(tree, levels - i)
      BY <3>1 DEF Grows
    <3>3. bytes[i] >= size[1 + (k - 1)]
      BY <1>3, <3>1
    <3>4. bytes[i] = bytes[levels - 1 - k] * d /\ bytes[i] >= size[k]
      <4> HIDE DEF i
      <4> QED BY <3>1, <3>2, <3>3
    <3>5. /\ bytes[levels - 1 - k] \in Nat /\ size[1 + k] \in Nat /\ size[k] \in Nat
          /\ d \in Arities /\ size[1 + k] * d <= size[k]
          /\ size[1 + k] * d \in Nat /\ bytes[levels - 1 - k] * d \in Nat
      BY <1>1, <2>1, <3>1
    <3> HIDE DEF i, d
    <3>6. size[1 + k] * d <= bytes[levels - 1 - k] * d
      BY <3>4, <3>5
    <3> QED BY <3>5, <3>6, ArityTimes
  <2> QED BY <2>1
<1>4. levels - 1 \in Nat
  OBVIOUS
<1>5. 0 .. levels - 1 \subseteq B
  <2> HIDE DEF B
  <2> QED BY <1>2, <1>3, <1>4, ClosedSetHoldsTo
<1>6. ASSUME NEW i \in 1 .. levels - 1 PROVE bytes[i] = size[levels - i]
  <2> DEFINE k == levels - 1 - i
  <2>1. k \in 0 .. levels - 1 /\ k < levels - 1 /\ levels - 1 - k = i /\ 1 + k = levels - i
    OBVIOUS
  <2>2. bytes[levels - 1 - k] >= size[1 + k]
    BY <1>5, <2>1
  <2>3. bytes[levels - 1 - k] \in Nat /\ size[1 + k] \in Nat
    BY <1>1, <2>1
  <2>4. bytes[i] <= size[levels - i]
    BY GrownBelow
  <2> HIDE DEF k
  <2> QED BY <2>1, <2>2, <2>3, <2>4
<1> QED BY <1>6

\* What the assertion of init_memOrg comes to.
LEMMA TalliesMean ==
  ASSUME NEW tree \in [1 .. 5 -> DOMAIN InLine], NEW d \in DOMAIN InLine, NEW store \in Nat,
         store % CacheLine = 0, store >= 2 * CacheLine,
         NEW n \in Nat, NEW size, Shrinks(tree, store, n, size), NEW levels \in 1 .. n,
         size[levels] <= CacheLine,
         CtrsPerMtree[d] # InLine[d] => store >= 2 * CacheLine * DesignAt(tree, 0),
         NEW root \in Nat, root = (size[levels] * DesignAt(tree, levels - 1)) \div CacheLine, NEW bytes,
         Grows(tree, root, levels, bytes),
         ((bytes[levels - 1] * DesignAt(tree, 0)) \div CacheLine) * BytesOf(CtrsPerMtree[d], InLine[d]) = store
  PROVE  CtrsPerMtree[d] = InLine[d] /\ bytes[levels - 1] * DesignAt(tree, 0) = store
<1> DEFINE q == DesignAt(tree, 0)
           b == bytes[levels - 1]
<1>1. q \in Arities /\ b \in Nat /\ b % CacheLine = 0
  <2>1. 0 \in Nat /\ levels - 1 \in 0 .. levels - 1
    OBVIOUS
  <2> QED BY <2>1, DesignArity, GrownLines
<1>2. b * q \in Nat /\ b * q = CacheLine * ((b * q) \div CacheLine) /\ (b * q) \div CacheLine \in Nat
  BY <1>1, ArityTimes, WholeLines
<1>3. CASE CtrsPerMtree[d] = InLine[d]
  <2>1. BytesOf(CtrsPerMtree[d], InLine[d]) = CacheLine
    BY <1>3, CtrsOfDesign
  <2>2. ((b * q) \div CacheLine) * CacheLine = store
    BY <2>1
  <2> HIDE DEF q, b
  <2>3. b * q = store
    BY <1>2, <2>2 DEF CacheLine
  <2> QED BY <1>3, <2>3 DEF q, b
<1>4. CASE CtrsPerMtree[d] # InLine[d]
  <2>1. BytesOf(CtrsPerMtree[d], InLine[d]) = 32
    BY <1>4, CtrsOfDesign
  <2>2. ((b * q) \div CacheLine) * 32 = store
    BY <2>1
  <2>3. b * q = 2 * store
    <3> HIDE DEF q, b
    <3> QED BY <1>2, <2>2 DEF CacheLine
  <2>4. size[0] = store /\ size[1] \in Nat /\ size[1] * q <= store
    <3>1. 1 \in 1 .. n /\ 1 - 1 = 0
      OBVIOUS
    <3>2. size[1] \in Nat /\ size[1] * DesignAt(tree, 0) <= size[0]
      BY <3>1, SizesFall
    <3> QED BY <3>2 DEF Shrinks
  <2>5. levels # 1
    <3>1. size[1] = BytesOf(store \div CacheLine, q)
      <4>1. 1 \in 1 .. n /\ 1 - 1 = 0
        OBVIOUS
      <4> QED BY <2>4, <4>1 DEF Shrinks
    <3>2. store >= 2 * CacheLine * q
      BY <1>4
    <3> HIDE DEF q
    <3>3. size[1] > CacheLine
      BY <1>1, <3>1, <3>2 DEF BytesOf, CacheLine, Arities
    <3> QED BY <2>4, <3>3 DEF CacheLine
  <2>6. b <= size[1]
    <3>1. levels - 1 \in 1 .. levels - 1 /\ levels - (levels - 1) = 1
      BY <2>5
    <3> QED BY <3>1, GrownBelow
  <2>7. b * q <= size[1] * q /\ size[1] * q \in Nat
    <3> HIDE DEF q, b
    <3> QED BY <1>1, <2>4, <2>6, ArityTimes
  <2> HIDE DEF q, b
  <2> QED BY <1>2, <2>3, <2>4, <2>7 DEF CacheLine
<1> QED BY <1>3, <1>4

\* The layout that init_memOrg has found for m, when it tallies.
Laid(tree, store, n, size, levels, root, bytes) ==
  /\ tree \in [1 .. 5 -> DOMAIN InLine] /\ store \in Nat /\ store % CacheLine = 0
  /\ n \in Nat /\ Shrinks(tree, store, n, size)
  /\ levels \in 1 .. n /\ size[levels] <= CacheLine /\ \A i \in 0 .. levels - 1 : size[i] > CacheLine
  /\ root \in Nat /\ root = (size[levels] * DesignAt(tree, levels - 1)) \div CacheLine
  /\ Grows(tree, root, levels, bytes)
  /\ bytes[levels - 1] * DesignAt(tree, 0) = store

\* The leaves of the tree, and the levels above them, are whole lines, each level
\* at least twice as large as the one above it.
LEMMA LaidLines ==
  ASSUME NEW tree, NEW store, NEW n, NEW size, NEW levels, NEW root, NEW bytes,
         Laid(tree, store, n, size, levels, root, bytes)
  PROVE  /\ bytes[levels - 1] = size[1] /\ size[1] \in Nat /\ size[1] % CacheLine = 0
         /\ 8 * size[1] <= store
         /\ \A i \in 0 .. levels - 1 : bytes[i] \in Nat /\ bytes[i] % CacheLine = 0 /\ bytes[i] >= CacheLine
         /\ \A i \in 1 .. levels - 1 : bytes[i] >= 2 * bytes[i - 1]
<1> DEFINE q == DesignAt(tree, 0)
<1>1. /\ tree \in [1 .. 5 -> DOMAIN InLine] /\ store \in Nat /\ store % CacheLine = 0
      /\ n \in Nat /\ Shrinks(tree, store, n, size) /\ levels \in 1 .. n /\ levels \in Nat \ {0}
      /\ root \in Nat /\ root = (size[levels] * DesignAt(tree, levels - 1)) \div CacheLine
      /\ Grows(tree, root, levels, bytes) /\ bytes[levels - 1] * q = store
  BY DEF Laid
<1>2. \A i \in 0 .. levels - 1 : bytes[i] \in Nat /\ bytes[i] % CacheLine = 0
  BY <1>1, GrownLines
<1>3. \A i \in 1 .. levels - 1 : bytes[i] = size[levels - i]
  BY <1>1, GrownFull
<1>4. \A i \in 0 .. levels - 1 : bytes[i] >= CacheLine
  <2>1. ASSUME NEW i \in 0 .. levels - 1 PROVE bytes[i] >= CacheLine
    <3>1. CASE i = 0
      BY <1>1, <3>1 DEF Grows, CacheLine
    <3>2. CASE i # 0
      <4>1. i \in 1 .. levels - 1 /\ levels - i \in 0 .. levels - 1
        BY <1>1, <3>2
      <4>2. bytes[i] = size[levels - i] /\ size[levels - i] > CacheLine /\ bytes[i] \in Nat
        BY <1>2, <1>3, <4>1 DEF Laid
      <4> QED BY <4>2 DEF CacheLine
    <3> QED BY <3>1, <3>2
  <2> QED BY <2>1
<1>5. q \in Arities /\ size[1] \in Nat /\ 8 * size[1] <= store /\ size[0] = store
      /\ size[1] = BytesOf(store \div CacheLine, q)
  <2>1. 1 \in 1 .. n /\ 1 - 1 = 0
    BY <1>1
  <2>2. size[0] = store /\ size[1] = BytesOf(size[1 - 1] \div CacheLine, DesignAt(tree, 1 - 1))
    BY <1>1, <2>1 DEF Shrinks
  <2>3. q \in Arities /\ size[1] \in Nat /\ 8 * size[1] <= size[0]
    BY <1>1, <2>1, SizesFall
  <2> QED BY <2>1, <2>2, <2>3
<1>6. bytes[levels - 1] = size[1]
  <2>1. CASE levels = 1
    <3>1. bytes[0] = CacheLine /\ store = CacheLine * q
      BY <1>1, <2>1 DEF Grows
    <3> HIDE DEF q
    <3>2. size[1] = CacheLine
      BY <1>5, <3>1 DEF BytesOf, CacheLine, Arities
    <3> QED BY <2>1, <3>1, <3>2
  <2>2. CASE levels # 1
    <3>1. levels - 1 \in 1 .. levels - 1 /\ levels - (levels - 1) = 1
      BY <1>1, <2>2
    <3> QED BY <1>3, <3>1
  <2> QED BY <2>1, <2>2
<1>7. levels - 1 \in 0 .. levels - 1
  BY <1>1
<1>8. ASSUME NEW i \in 1 .. levels - 1 PROVE bytes[i] >= 2 * bytes[i - 1]
  <2>1. bytes[i - 1] \in Nat /\ bytes[i] \in Nat /\ bytes[i] % CacheLine = 0
    BY <1>1, <1>2
  <2>2. CASE i = 1
    <3>1. bytes[0] = CacheLine /\ bytes[1] = size[levels - 1]
      BY <1>1, <1>3, <2>2 DEF Grows
    <3>2. size[levels - 1] > CacheLine
      <4>1. levels - 1 \in 0 .. levels - 1
        BY <1>1
      <4> QED BY <4>1 DEF Laid
    <3> QED BY <2>1, <2>2, <3>1, <3>2 DEF CacheLine
  <2>3. CASE i # 1
    <3>1. i \in 2 .. levels - 1 /\ levels - i \in Nat
      BY <1>1, <2>3
    <3>2. bytes[i] = bytes[i - 1] * DesignAt(tree, levels - i) /\ DesignAt(tree, levels - i) \in Arities
      BY <1>1, <3>1, DesignArity DEF Grows
    <3>3. bytes[i] >= 8 * bytes[i - 1]
      BY <2>1, <3>2, ArityTimes
    <3> QED BY <2>1, <3>3
  <2> QED BY <2>2, <2>3
<1> QED BY <1>2, <1>4, <1>5, <1>6, <1>7, <1>8

\* Sums and differences of whole lines are whole lines.
LEMMA LineSums ==
  \A x, y \in Nat : x % CacheLine = 0 /\ y % CacheLine = 0 =>
    /\ (x + y) % CacheLine = 0 /\ (x + y * 2) % CacheLine = 0
    /\ (x - y) % CacheLine = 0 /\ (x - y * 2) % CacheLine = 0
  BY DEF CacheLine

\* Each level ends where the next one starts, the leaves at the latest where the counters do.
LEMMA LaidStarts ==
  ASSUME NEW tree, NEW store, NEW n, NEW size, NEW levels, NEW root, NEW bytes,
         Laid(tree, store, n, size, levels, root, bytes),
         NEW first \in Nat, first % CacheLine = 0, NEW start,
         Begins(first, size[1] * 2, bytes, levels, start)
  PROVE  /\ \A i \in 0 .. levels - 1 : start[i] + bytes[i] <= start[i + 1]
         /\ \A i \in 0 .. levels : start[i] \in Nat /\ start[i] % CacheLine = 0
<1>1. /\ bytes[levels - 1] = size[1] /\ size[1] \in Nat /\ size[1] % CacheLine = 0
      /\ \A i \in 0 .. levels - 1 : bytes[i] \in Nat /\ bytes[i] % CacheLine = 0
      /\ \A i \in 1 .. levels - 1 : bytes[i] >= 2 * bytes[i - 1]
  BY LaidLines
<1>2. /\ levels \in Nat \ {0} /\ levels - 1 \in Nat /\ levels - 1 \in 0 .. levels - 1
  BY DEF Laid
<1>3. /\ start[0] = first /\ start[levels] = first + size[1] * 2
      /\ \A i \in 1 .. levels - 1 : start[i] = start[i - 1] + bytes[i - 1]
      /\ \A i \in 0 .. levels : start[i] \in Nat
  BY DEF Begins
<1> DEFINE B == {i \in 0 .. levels - 1 : start[i] % CacheLine = 0 /\ start[i] + bytes[i] <= first + 2 * bytes[i]}
<1>4. 0 \in B
  <2>1. bytes[0] \in Nat /\ 0 \in 0 .. levels - 1
    BY <1>1, <1>2
  <2> QED BY <1>3, <2>1
<1>5. ASSUME NEW i \in 1 .. levels - 1, i - 1 \in B PROVE i \in B
  <2>1. i - 1 \in 0 .. levels - 1 /\ i \in 0 .. levels - 1 /\ i - 1 \in 0 .. levels
    BY <1>2
  <2>2. /\ bytes[i] \in Nat /\ bytes[i - 1] \in Nat /\ bytes[i - 1] % CacheLine = 0 /\ bytes[i] >= 2 * bytes[i - 1]
        /\ start[i - 1] \in Nat /\ start[i] = start[i - 1] + bytes[i - 1]
        /\ start[i - 1] % CacheLine = 0 /\ start[i - 1] + bytes[i - 1] <= first + 2 * bytes[i - 1]
    BY <1>1, <1>3, <1>5, <2>1
  <2>4. start[i] % CacheLine = 0
    <3>1. (start[i - 1] + bytes[i - 1]) % CacheLine = 0
      BY <2>2, LineSums, Zenon
    <3> QED BY <2>2, <3>1
  <2>5. start[i] + bytes[i] <= first + 2 * bytes[i]
    BY <2>2
  <2> QED BY <2>1, <2>4, <2>5
<1>6. 0 .. levels - 1 \subseteq B
  <2> HIDE DEF B
  <2> QED BY <1>2, <1>4, <1>5, ClosedSetHoldsTo
<1>7. ASSUME NEW i \in 0 .. levels - 1 PROVE start[i] + bytes[i] <= start[i + 1]
  <2>1. CASE i = levels - 1
    <3>1. start[levels - 1] + bytes[levels - 1] <= first + 2 * bytes[levels - 1]
      BY <1>2, <1>6
    <3> QED BY <1>1, <1>2, <1>3, <2>1, <3>1
  <2>2. CASE i # levels - 1
    <3>1. i + 1 \in 1 .. levels - 1 /\ (i + 1) - 1 = i /\ i \in 0 .. levels /\ i + 1 \in 0 .. levels
      BY <1>2, <2>2
    <3>2. start[i + 1] = start[i] + bytes[i] /\ start[i + 1] \in Nat
      BY <1>3, <3>1
    <3> QED BY <3>2
  <2> QED BY <2>1, <2>2
<1>8. ASSUME NEW i \in 0 .. levels PROVE start[i] \in Nat /\ start[i] % CacheLine = 0
  <2>1. CASE i = levels
    <3>1. (first + size[1] * 2) % CacheLine = 0
      BY <1>1, LineSums, Zenon
    <3> QED BY <1>3, <2>1, <3>1
  <2>2. CASE i # levels
    <3>1. i \in 0 .. levels - 1
      BY <1>2, <2>2
    <3> QED BY <1>3, <1>6, <3>1
  <2> QED BY <2>1, <2>2
<1> QED BY <1>7, <1>8

\* o is what init_memOrg makes of a memory of mem bytes, with p counters a line.
Built(o, tree, ctr, n, size, levels, root, bytes, p, mem, mac, first, start) ==
  /\ Laid(tree, ctr, n, size, levels, root, bytes)
  /\ p \in Arities /\ mem \in Nat /\ mac \in Nat /\ first \in Nat
  /\ ctr * p = mem /\ first = mem - mac - ctr - size[1] * 2 /\ mac + ctr + size[1] * 2 <= mem
  /\ first % CacheLine = 0 /\ mem \div CacheLine <= IntMax + 1
  /\ Begins(first, size[1] * 2, bytes, levels, start)
  /\ o.mem_size = mem /\ o.MAC_store_size = mac /\ o.ctr_store_size = ctr
  /\ o.mtree_store_size = size[1] * 2 /\ o.num_Mtree_levels = levels
  /\ o.mtree_level_size = bytes /\ o.mtree_levels_start_addr = start
  /\ o.inLine = [i \in 0 .. levels |-> IF i = levels THEN p ELSE DesignAt(tree, levels - 1 - i)]
  /\ o.arity = o.inLine

\* What the tables make of the memory is the layout that the walks rely on.
LEMMA BuiltOrgRight ==
  ASSUME NEW tree, NEW ctr, NEW n, NEW size, NEW levels, NEW root, NEW bytes,
         NEW p, NEW mem, NEW mac, NEW first, NEW start, NEW o,
         Built(o, tree, ctr, n, size, levels, root, bytes, p, mem, mac, first, start)
  PROVE  OrgRight(o)
<1>0. /\ Laid(tree, ctr, n, size, levels, root, bytes) /\ p \in Arities
      /\ o.num_Mtree_levels = levels /\ o.mtree_level_size = bytes /\ o.mtree_levels_start_addr = start
      /\ o.ctr_store_size = ctr /\ o.mem_size = mem /\ o.arity = o.inLine
  BY DEF Built
<1>1. /\ tree \in [1 .. 5 -> DOMAIN InLine] /\ ctr \in Nat /\ ctr % CacheLine = 0
      /\ levels \in Nat \ {0} /\ levels - 1 \in Nat /\ root \in Nat
      /\ bytes[levels - 1] * DesignAt(tree, 0) = ctr
  BY <1>0 DEF Laid
<1>2. /\ bytes[levels - 1] = size[1] /\ size[1] \in Nat
      /\ 8 * size[1] <= ctr
      /\ \A i \in 0 .. levels - 1 : bytes[i] \in Nat /\ bytes[i] % CacheLine = 0 /\ bytes[i] >= CacheLine
  BY <1>0, LaidLines
<1>3. /\ \A i \in 0 .. levels - 1 : start[i] + bytes[i] <= start[i + 1]
      /\ \A i \in 0 .. levels : start[i] \in Nat /\ start[i] % CacheLine = 0
  <2>1. Begins(first, size[1] * 2, bytes, levels, start) /\ first \in Nat /\ first % CacheLine = 0
    BY DEF Built
  <2> QED BY <1>0, <2>1, LaidStarts
<1>4. /\ \A i \in 0 .. levels - 1 : LinesAt(o, i) = bytes[i] \div CacheLine
      /\ LinesAt(o, levels) = ctr \div CacheLine
  BY <1>0, <1>1 DEF LinesAt
<1>5. /\ \A i \in 0 .. levels - 1 : LinesAt(o, i) \in Nat \ {0} /\ bytes[i] = CacheLine * LinesAt(o, i)
      /\ LinesAt(o, levels) \in Nat \ {0} /\ ctr = CacheLine * LinesAt(o, levels)
  <2>1. \A x \in Nat : x % CacheLine = 0 /\ x >= CacheLine =>
           x \div CacheLine \in Nat \ {0} /\ x = CacheLine * (x \div CacheLine)
    <3>1. ASSUME NEW x \in Nat, x % CacheLine = 0, x >= CacheLine
          PROVE  x \div CacheLine \in Nat \ {0} /\ x = CacheLine * (x \div CacheLine)
      <4>1. x = CacheLine * (x \div CacheLine) /\ x \div CacheLine \in Nat
        BY <3>1, WholeLines
      <4> QED BY <3>1, <4>1 DEF CacheLine
    <3> QED BY <3>1
  <2>2. ctr >= CacheLine
    <3>1. size[1] >= CacheLine
      <4>1. levels - 1 \in 0 .. levels - 1
        BY <1>1
      <4> QED BY <1>2, <4>1
    <3> QED BY <1>1, <1>2, <3>1 DEF CacheLine
  <2> QED BY <1>1, <1>2, <1>4, <2>1, <2>2
<1>6. /\ o.inLine \in [0 .. levels -> Arities] /\ o.inLine[levels] = p
      /\ \A i \in 0 .. levels - 1 : o.inLine[i] = DesignAt(tree, levels - 1 - i)
  <2>1. ASSUME NEW i \in 0 .. levels, i # levels PROVE DesignAt(tree, levels - 1 - i) \in Arities
    <3>1. levels - 1 - i \in Nat
      BY <1>1, <2>1
    <3> QED BY <1>1, <3>1, DesignArity
  <2>2. \A i \in 0 .. levels - 1 : i \in 0 .. levels /\ i # levels
    BY <1>1
  <2>3. levels \in 0 .. levels
    BY <1>1
  <2>4. o.inLine = [i \in 0 .. levels |-> IF i = levels THEN p ELSE DesignAt(tree, levels - 1 - i)]
    BY DEF Built
  <2> QED BY <1>0, <2>1, <2>2, <2>3, <2>4
<1>7. ASSUME NEW i \in 1 .. levels - 1
      PROVE  LinesAt(o, i + 1) = LinesAt(o, i) * o.inLine[i]
  <2> DEFINE d == DesignAt(tree, levels - 1 - i)
  <2>1. i \in 0 .. levels - 1 /\ levels - 1 - i \in Nat /\ levels - (i + 1) = levels - 1 - i
    BY <1>1
  <2>2. d \in Arities /\ o.inLine[i] = d
    BY <1>1, <1>6, <2>1, DesignArity
  <2>3. (bytes[i] * d) \div CacheLine = LinesAt(o, i) * d
    <3>1. bytes[i] \in Nat /\ bytes[i] % CacheLine = 0 /\ LinesAt(o, i) = bytes[i] \div CacheLine
      BY <1>2, <1>4, <2>1
    <3> HIDE DEF d
    <3> QED BY <2>2, <3>1, ArityTimes
  <2>4. CASE i = levels - 1
    <3>1. LinesAt(o, i + 1) = (bytes[i] * d) \div CacheLine
      <4>1. levels - 1 - i = 0 /\ i + 1 = levels
        BY <1>1, <2>4
      <4>2. d = DesignAt(tree, 0)
        BY <4>1
      <4>3. bytes[i] * d = ctr
        BY <1>1, <2>4, <4>2
      <4> QED BY <1>4, <4>1, <4>3
    <3> QED BY <2>2, <2>3, <3>1
  <2>5. CASE i # levels - 1
    <3>1. i + 1 \in 2 .. levels - 1 /\ i + 1 \in 0 .. levels - 1 /\ (i + 1) - 1 = i
      BY <1>1, <2>5
    <3>2. bytes[i + 1] = bytes[(i + 1) - 1] * DesignAt(tree, levels - (i + 1))
      BY <1>0, <3>1 DEF Laid, Grows
    <3>3. bytes[i + 1] = bytes[i] * d
      BY <2>1, <3>1, <3>2
    <3> QED BY <1>4, <2>2, <2>3, <3>1, <3>3
  <2> QED BY <2>4, <2>5
<1>8. LinesAt(o, 0) = 1
  <2>1. 0 \in 0 .. levels - 1 /\ bytes[0] = CacheLine
    BY <1>0, <1>1 DEF Laid, Grows
  <2> QED BY <1>4, <2>1 DEF CacheLine
<1>9. LinesAt(o, 1) <= o.inLine[0]
  <2>1. 0 \in 0 .. levels - 1 /\ levels - 1 - 0 = levels - 1
    BY <1>1
  <2>2. o.inLine[0] = DesignAt(tree, levels - 1) /\ DesignAt(tree, levels - 1) \in Arities
    BY <1>1, <1>6, <2>1, DesignArity
  <2>3. CASE levels = 1
    <3>1. bytes[0] = CacheLine /\ ctr = CacheLine * DesignAt(tree, 0)
      BY <1>0, <1>1, <2>3 DEF Laid, Grows
    <3>2. DesignAt(tree, 0) \in Nat
      BY <2>2, <2>3 DEF Arities
    <3>3. LinesAt(o, 1) = DesignAt(tree, 0)
      BY <1>4, <2>3, <3>1, <3>2, LinesTimes
    <3> QED BY <2>2, <2>3, <3>2, <3>3
  <2>4. CASE levels # 1
    <3>1. bytes[1] = CacheLine * root /\ 1 \in 0 .. levels - 1
      BY <1>0, <1>1, <2>4 DEF Laid, Grows
    <3>2. LinesAt(o, 1) = root
      BY <1>1, <1>4, <3>1, LinesTimes
    <3>3. size[levels] \in Nat /\ size[levels] <= CacheLine
          /\ root = (size[levels] * DesignAt(tree, levels - 1)) \div CacheLine
      BY <1>0 DEF Laid, Shrinks
    <3>4. root <= DesignAt(tree, levels - 1)
      <4>1. \A x \in Nat : \A d \in Arities : x <= CacheLine => (x * d) \div CacheLine <= d
        BY DEF CacheLine, Arities
      <4> QED BY <2>2, <3>3, <4>1
    <3> QED BY <2>2, <3>2, <3>4
  <2> QED BY <2>3, <2>4
<1>10. /\ o.mem_size = CacheLine * (LinesAt(o, levels) * o.inLine[levels])
       /\ LinesAt(o, levels) * o.inLine[levels] <= IntMax + 1
  <2>0. ctr * p = mem /\ mem \div CacheLine <= IntMax + 1
    BY DEF Built
  <2>1. mem = CacheLine * (LinesAt(o, levels) * p)
    BY <1>0, <1>5, <2>0 DEF Arities, CacheLine
  <2>2. LinesAt(o, levels) * p \in Nat
    BY <1>0, <1>5 DEF Arities
  <2>3. mem \div CacheLine = LinesAt(o, levels) * p
    BY <2>1, <2>2, LinesTimes
  <2> QED BY <1>0, <1>6, <2>0, <2>1, <2>3
<1>11. /\ start[0] = Visible(o) /\ start[levels] = Visible(o) + o.mtree_store_size
       /\ start[levels] + o.ctr_store_size <= o.mem_size /\ o.mtree_store_size \in Nat
  <2>1. start[0] = first /\ start[levels] = first + size[1] * 2
    BY DEF Built, Begins
  <2>2. /\ first \in Nat /\ first = mem - mac - ctr - size[1] * 2 /\ mac \in Nat /\ mem \in Nat
        /\ o.MAC_store_size = mac /\ o.mtree_store_size = size[1] * 2
    BY DEF Built
  <2>3. Visible(o) = first
    BY <1>0, <2>2 DEF Visible
  <2>4. size[1] * 2 \in Nat /\ (first + size[1] * 2) + ctr <= mem
    BY <1>1, <1>2, <2>2
  <2> QED BY <1>0, <2>1, <2>2, <2>3, <2>4
<1>12. ASSUME NEW i \in 0 .. levels - 1 PROVE start[i + 1] >= start[i] + CacheLine * LinesAt(o, i)
  <2>1. i \in 0 .. levels /\ i + 1 \in 0 .. levels
    BY <1>1
  <2> QED BY <1>2, <1>3, <1>5, <2>1
<1>13. start \in [0 .. levels -> Nat]
  BY DEF Built, Begins
<1>14. ASSUME NEW i \in 0 .. levels PROVE LinesAt(o, i) \in Nat \ {0} /\ start[i] % CacheLine = 0
  <2>1. i = levels \/ i \in 0 .. levels - 1
    BY <1>1
  <2> QED BY <1>3, <1>5, <2>1
<1>15. \A i \in 0 .. levels - 1 : o.mtree_level_size[i] = CacheLine * LinesAt(o, i)
  BY <1>0, <1>5
<1>16. o.ctr_store_size = CacheLine * LinesAt(o, levels)
  BY <1>0, <1>5
<1>17. o.mem_size \in Nat /\ o.MAC_store_size \in Nat
  BY DEF Built
<1> QED
  BY <1>0, <1>1, <1>6, <1>7, <1>8, <1>9, <1>10, <1>11, <1>12, <1>13, <1>14, <1>15, <1>16, <1>17
  DEF OrgRight

\* A design that passes the final assertion of init_memOrg has the tables it should have.
LEMMA InitMemOrgRight ==
  ASSUME NEW m \in Memories, InitMemOrg(m).tallies
  PROVE  OrgRight(InitMemOrg(m))
<1> DEFINE o      == InitMemOrg(m)
           mem    == 2 ^ m.bits
           p      == InLine[m.ctr]
           mac    == (mem \div CacheLine) * MacSize
           ctr    == BytesOf(mem \div CacheLine, p)
           size   == Shrunk(m.tree, ctr, m.bits)
           levels == LevelsOf(size, m.bits)
           total  == Total(size, levels)
           store  == IF size[1] * 2 > total THEN size[1] * 2 ELSE total
           root   == (size[levels] * DesignAt(m.tree, levels - 1)) \div CacheLine
           bytes  == Grown(m.tree, root, levels)
           first  == mem - mac - ctr - store
           start  == Starts(first, store, bytes, levels)
<1>1. /\ o.mem_size = mem /\ o.MAC_store_size = mac /\ o.ctr_store_size = ctr
      /\ o.mtree_store_size = store /\ o.num_Mtree_levels = levels
      /\ o.mtree_level_size = bytes /\ o.mtree_levels_start_addr = start
      /\ o.inLine = [i \in 0 .. levels |-> IF i = levels THEN p ELSE DesignAt(m.tree, levels - 1 - i)]
      /\ o.arity = [i \in 0 .. levels |-> IF i = levels THEN CtrsPerMtree[m.ctr] ELSE DesignAt(m.tree, levels - 1 - i)]
      /\ o.tallies = (((bytes[levels - 1] * DesignAt(m.tree, levels - 1 - (levels - 1))) \div CacheLine)
                        * BytesOf(CtrsPerMtree[m.ctr], p) = ctr)
  BY DEF InitMemOrg
<1>2. o.tallies
  OBVIOUS
<1> HIDE DEF o
<1>3. /\ m.bits \in Nat /\ p \in Arities /\ mem \in Nat /\ ctr \in Nat
      /\ ctr * p = mem /\ ctr % CacheLine = 0 /\ ctr >= 2 * CacheLine
      /\ mac * 8 = mem /\ mac % CacheLine = 0
  BY CounterStore
<1>4. /\ m.tree \in [1 .. 5 -> DOMAIN InLine] /\ m.ctr \in DOMAIN InLine /\ mem \div CacheLine <= IntMax + 1
      /\ IntMax \in Nat
      /\ CtrsPerMtree[m.ctr] # p => mem >= 2 * CacheLine * p * InLine[m.tree[1]]
  BY MemoryAssumption
<1>5. Shrinks(m.tree, ctr, m.bits, size)
  <2> HIDE DEF ctr
  <2> QED BY <1>3, <1>4, ShrunkTable
<1> HIDE DEF mem, p, ctr, size, mac
<1>6. \A i \in 1 .. m.bits : size[i] \in Nat /\ 8 * size[i] <= size[i - 1]
  BY <1>3, <1>4, <1>5, SizesFall
<1>7. size \in [0 .. m.bits -> Nat] /\ size[0] = ctr
  BY <1>5 DEF Shrinks
<1>8. levels \in 1 .. m.bits /\ size[levels] <= CacheLine /\ \A i \in 0 .. levels - 1 : size[i] > CacheLine
  <2>1. size[0] > CacheLine /\ size[0] <= 2 ^ m.bits
    <3>1. ctr <= mem
      BY <1>3 DEF Arities
    <3>2. size[0] <= 2 ^ m.bits
      BY <1>7, <3>1 DEF mem
    <3> QED BY <1>3, <1>7, <3>2 DEF CacheLine
  <2> HIDE DEF levels
  <2>2. \A i \in 1 .. m.bits : 8 * size[i] <= size[i - 1]
    BY <1>6
  <2> QED BY <1>3, <1>7, <2>1, <2>2, LevelsExist DEF levels
<1> HIDE DEF levels
<1>9. total \in Nat /\ total <= size[1] * 2
  <2>1. \A i \in 1 .. levels : size[i] \in Nat
    BY <1>3, <1>6, <1>8
  <2>2. \A i \in 2 .. levels : 8 * size[i] <= size[i - 1]
    BY <1>3, <1>6, <1>8
  <2>3. levels \in Nat \ {0}
    BY <1>8
  <2> QED BY <2>1, <2>2, <2>3, TotalSmall
<1> HIDE DEF total
<1>10. size[1] \in Nat /\ 8 * size[1] <= ctr
  <2>1. 1 \in 1 .. m.bits /\ 1 - 1 = 0
    BY <1>3, <1>8
  <2>2. 8 * size[1] <= size[1 - 1] /\ size[1] \in Nat
    BY <1>6, <2>1
  <2> QED BY <1>7, <2>1, <2>2
<1>11. store = size[1] * 2
  BY <1>9, <1>10
<1> HIDE DEF store
<1>12. root \in Nat
  <2>1. size[levels] \in Nat /\ levels - 1 \in Nat
    BY <1>3, <1>6, <1>8
  <2>2. DesignAt(m.tree, levels - 1) \in Arities
    BY <1>4, <2>1, DesignArity
  <2> QED BY <2>1, <2>2 DEF Arities, CacheLine
<1>13. Grows(m.tree, root, levels, bytes)
  <2>1. levels \in Nat \ {0}
    BY <1>8
  <2> HIDE DEF root
  <2> QED BY <1>4, <1>12, <2>1, GrownTable
<1> HIDE DEF bytes
<1>14. CtrsPerMtree[m.ctr] = InLine[m.ctr] /\ bytes[levels - 1] * DesignAt(m.tree, 0) = ctr
  <2>1. levels - 1 - (levels - 1) = 0
    BY <1>8
  <2>2. ((bytes[levels - 1] * DesignAt(m.tree, 0)) \div CacheLine) * BytesOf(CtrsPerMtree[m.ctr], InLine[m.ctr]) = ctr
    BY <1>1, <1>2, <2>1 DEF p
  <2>3. CtrsPerMtree[m.ctr] # InLine[m.ctr] => ctr >= 2 * CacheLine * DesignAt(m.tree, 0)
    <3>1. DesignAt(m.tree, 0) = InLine[m.tree[1]]
      BY DEF DesignAt
    <3>2. DesignAt(m.tree, 0) \in Arities
      BY <1>4, DesignArity
    <3>3. ASSUME NEW q \in Arities, ctr * p >= 2 * CacheLine * p * q PROVE ctr >= 2 * CacheLine * q
      BY <1>3, <3>3 DEF Arities, CacheLine
    <3> QED BY <1>3, <1>4, <3>1, <3>2, <3>3 DEF p
  <2> HIDE DEF root
  <2>4. root = (size[levels] * DesignAt(m.tree, levels - 1)) \div CacheLine
    BY DEF root
  <2> QED BY <1>3, <1>4, <1>5, <1>8, <1>12, <1>13, <2>2, <2>3, <2>4, TalliesMean
<1>15. Laid(m.tree, ctr, m.bits, size, levels, root, bytes)
  BY <1>3, <1>4, <1>5, <1>8, <1>12, <1>13, <1>14 DEF Laid
<1>16. size[1] % CacheLine = 0
  BY <1>15, LaidLines
<1>17. /\ first = mem - mac - ctr - size[1] * 2 /\ mac \in Nat /\ mac + ctr + size[1] * 2 <= mem /\ first \in Nat
  <2>1. mac \in Nat /\ 8 * ctr <= mem
    <3>1. mac \in Nat
      BY <1>3 DEF mac, CacheLine, MacSize
    <3> QED BY <1>3, <3>1 DEF Arities
  <2> QED BY <1>3, <1>10, <1>11, <2>1
<1>18. first % CacheLine = 0
  <2>1. mem % CacheLine = 0
    BY <1>3, <1>17 DEF CacheLine
  <2> HIDE DEF first
  <2> QED BY <1>3, <1>10, <1>16, <1>17, <2>1 DEF CacheLine
<1> HIDE DEF first
<1>19. Begins(first, size[1] * 2, bytes, levels, start)
  <2>1. bytes \in [0 .. levels - 1 -> Nat] /\ levels \in Nat \ {0} /\ size[1] * 2 \in Nat
    BY <1>8, <1>10, <1>13 DEF Grows
  <2>2. start = Starts(first, size[1] * 2, bytes, levels)
    BY <1>11
  <2> HIDE DEF start
  <2> QED BY <1>17, <2>1, <2>2, StartsTable
<1>20. o.arity = o.inLine
  BY <1>1, <1>14 DEF p
<1> HIDE DEF start, root
<1>21. Built(o, m.tree, ctr, m.bits, size, levels, root, bytes, p, mem, mac, first, start)
  BY <1>1, <1>3, <1>4, <1>11, <1>15, <1>17, <1>18, <1>19, <1>20 DEF Built
<1>22. OrgRight(o)
  BY <1>21, BuiltOrgRight
<1> QED BY <1>22 DEF o

-----------------------------------------------------------------------------
(***************************************************************************)
(* The walks.                                                              *)
(***************************************************************************)

\* The inductive invariant of the walks: the tables are those of a memory, and the walk is at an entry of
\* a level that there is.
LayoutInv ==
  /\ \E m \in Memories : org = InitMemOrg(m)
  /\ met # NoEntry => org.tallies /\ IsEntry(org, met)

\* getCounterAddr gives every line of data an entry that there is.
LEMMA DataEntry ==
  ASSUME NEW o, OrgRight(o), NEW a \in DataLines(o)
  PROVE  IsEntry(o, getCounterAddr(o, a))
<1> DEFINE L == o.num_Mtree_levels
<1>1. PICK n \in 0 .. (Visible(o) \div CacheLine) - 1 : a = n * CacheLine
  BY DEF DataLines
<1>2. L \in 0 .. L /\ o.mem_size \in Nat /\ Visible(o) \in Nat /\ Visible(o) <= o.mem_size
  <2>1. /\ L \in Nat /\ o.mem_size \in Nat /\ o.mtree_levels_start_addr \in [0 .. L -> Nat]
        /\ o.mtree_levels_start_addr[0] = Visible(o)
        /\ o.mtree_levels_start_addr[L] = Visible(o) + o.mtree_store_size /\ o.mtree_store_size \in Nat
        /\ o.mtree_levels_start_addr[L] + o.ctr_store_size <= o.mem_size
    BY DEF OrgRight
  <2>2. o.ctr_store_size \in Nat
    <3>1. LinesAt(o, L) \in Nat /\ o.ctr_store_size = CacheLine * LinesAt(o, L)
      BY <2>1 DEF OrgRight
    <3> QED BY <3>1 DEF CacheLine
  <2>3. Visible(o) \in Nat
    BY <2>1
  <2> HIDE DEF L
  <2> QED BY <2>1, <2>2, <2>3
<1>3. a \div CacheLine = n /\ n \in 0 .. EntriesAt(o, L) - 1
  <2>1. n \in Nat /\ n < Visible(o) \div CacheLine
    BY <1>1, <1>2 DEF CacheLine
  <2>2. a \div CacheLine = n /\ n < o.mem_size \div CacheLine
    BY <1>1, <1>2, <2>1 DEF CacheLine
  <2>3. EntriesAt(o, L) = o.mem_size \div CacheLine /\ o.mem_size \div CacheLine \in Nat
    BY <1>2 DEF EntriesAt, CacheLine
  <2> QED BY <2>1, <2>2, <2>3
<1> QED BY <1>2, <1>3 DEF getCounterAddr, IsEntry, Entry

\* What an entry is when a walk is under way.
LEMMA MetEntry ==
  ASSUME LayoutInv, met # NoEntry
  PROVE  /\ OrgRight(org) /\ IntMax \in Nat
         /\ met.mtree_level \in 0 .. org.num_Mtree_levels
         /\ met.entry_num \in 0 .. EntriesAt(org, met.mtree_level) - 1
         /\ met = Entry(org, met.mtree_level, met.entry_num)
         /\ met.mtree_level > 0 =>
              /\ met.mtree_level \in 1 .. org.num_Mtree_levels
              /\ getMtreeEntry(org, met) =
                   Entry(org, met.mtree_level - 1, met.entry_num \div org.inLine[met.mtree_level])
              /\ IsEntry(org, getMtreeEntry(org, met))
              /\ getMtreeEvictParent(org, met.paddr) = getMtreeEntry(org, met)
              /\ getMtreeEvictParent(org, LineAddr(met.paddr)) = getMtreeEntry(org, met)
<1> DEFINE l == met.mtree_level
           n == met.entry_num
<1>1. /\ OrgRight(org) /\ IntMax \in Nat
      /\ l \in 0 .. org.num_Mtree_levels /\ n \in 0 .. EntriesAt(org, l) - 1 /\ met = Entry(org, l, n)
  BY InitMemOrgRight, MemoryAssumption DEF LayoutInv, IsEntry
<1>2. ASSUME l > 0
      PROVE  /\ l \in 1 .. org.num_Mtree_levels
             /\ getMtreeEntry(org, met) = Entry(org, l - 1, n \div org.inLine[l])
             /\ IsEntry(org, getMtreeEntry(org, met))
             /\ getMtreeEvictParent(org, met.paddr) = getMtreeEntry(org, met)
             /\ getMtreeEvictParent(org, LineAddr(met.paddr)) = getMtreeEntry(org, met)
  <2>1. l \in 1 .. org.num_Mtree_levels
    BY <1>1, <1>2
  <2>2. met = [mtree_level |-> l, entry_num |-> n, paddr |-> met.paddr]
    BY <1>1 DEF Entry
  <2>3. /\ getMtreeEntry(org, met) = Entry(org, l - 1, n \div org.inLine[l])
        /\ IsEntry(org, getMtreeEntry(org, met))
    <3> HIDE DEF l, n
    <3> QED BY <1>1, <2>1, <2>2, ParentIsEntry
  <2>4. /\ getMtreeEvictParent(org, met.paddr) = Entry(org, l - 1, n \div org.inLine[l])
        /\ getMtreeEvictParent(org, LineAddr(met.paddr)) = Entry(org, l - 1, n \div org.inLine[l])
    <3> HIDE DEF l, n
    <3> QED BY <1>1, <2>1, ParentByAddress
  <2> QED BY <2>1, <2>3, <2>4
<1> QED BY <1>1, <1>2

\* A walk is always at an entry that there is, and the tables of the memory are right: levels of whole lines,
\* each with an entry for every line below, none over another.  The base is InitMemOrgRight, so that the
\* final assertion of init_memOrg does what it is for, under MemoryAssumption.
THEOREM LayoutInductive == LayoutSpec => []LayoutInv
<1>1. LayoutInit => LayoutInv
  BY DEF LayoutInit, LayoutInv
<1>2. ASSUME LayoutInv, [LayoutNext]_layoutVars PROVE LayoutInv'
  <2>1. CASE LookUp
    <3>1. PICK a \in DataLines(org) : met' = getCounterAddr(org, a)
      BY <2>1 DEF LookUp
    <3>2. OrgRight(org)
      BY <1>2, <2>1, InitMemOrgRight DEF LayoutInv, LookUp
    <3>3. IsEntry(org, met')
      BY <3>1, <3>2, DataEntry
    <3> QED BY <1>2, <2>1, <3>3 DEF LayoutInv, LookUp
  <2>2. CASE Climb
    BY <1>2, <2>2, MetEntry DEF LayoutInv, Climb
  <2>3. CASE Evicted
    <3>1. met' = getMtreeEntry(org, met)
      BY <1>2, <2>3, MetEntry DEF Evicted
    <3> QED BY <1>2, <2>3, <3>1, MetEntry DEF LayoutInv, Evicted
  <2>4. CASE Rooted
    BY <1>2, <2>4 DEF LayoutInv, Rooted
  <2>5. CASE UNCHANGED layoutVars
    BY <1>2, <2>5 DEF LayoutInv, layoutVars
  <2> QED BY <1>2, <2>1, <2>2, <2>3, <2>4, <2>5 DEF LayoutNext
<1> QED BY <1>1, <1>2, PTL DEF LayoutSpec

\* An entry that there is lies in its level, as EntryTypeOK says.
LEMMA EntryTyped == LayoutInv => EntryTypeOK
<1> SUFFICES ASSUME LayoutInv, met # NoEntry
             PROVE  /\ met.mtree_level \in 0 .. org.num_Mtree_levels
                    /\ met.paddr >= org.mtree_levels_start_addr[met.mtree_level]
                    /\ met.paddr < org.mtree_levels_start_addr[met.mtree_level] + SizeOf(met.mtree_level)
                    /\ (met.mtree_level < org.num_Mtree_levels) =>
                         (met.paddr < org.mtree_levels_start_addr[met.mtree_level + 1])
  BY DEF EntryTypeOK
<1> DEFINE l == met.mtree_level
           L == org.num_Mtree_levels
           start == org.mtree_levels_start_addr
           b == BytesOf(met.entry_num, org.inLine[l])
<1>1. /\ OrgRight(org) /\ l \in 0 .. L /\ met.entry_num \in 0 .. EntriesAt(org, l) - 1
      /\ met = Entry(org, l, met.entry_num)
  BY MetEntry
<1>2. /\ met.paddr = start[l] + b /\ b \in Nat /\ b < CacheLine * LinesAt(org, l)
      /\ start[l] \in Nat /\ LinesAt(org, l) \in Nat
  BY <1>1, EntryPlace, LinesOfLevel
<1>3. SizeOf(l) = CacheLine * LinesAt(org, l)
  <2>1. L \in Nat
    BY <1>1 DEF OrgRight
  <2>2. l # L => l \in 0 .. L - 1
    <3> HIDE DEF l, L
    <3> QED BY <1>1, <2>1
  <2> QED BY <1>1, <2>2 DEF SizeOf, OrgRight
<1>4. ASSUME l < L PROVE met.paddr < start[l + 1]
  <2>1. l + 1 \in 0 .. L /\ l < l + 1 /\ start[l + 1] \in Nat
    BY <1>1, <1>4 DEF OrgRight
  <2>2. start[l] + CacheLine * LinesAt(org, l) <= start[l + 1]
    BY <1>1, <2>1, LevelsInOrder
  <2> HIDE DEF l, L, start, b
  <2> QED BY <1>2, <2>1, <2>2 DEF CacheLine
<1>5. met.paddr >= start[l] /\ met.paddr < start[l] + SizeOf(l)
  <2> HIDE DEF l, L, start, b
  <2> QED BY <1>2, <1>3 DEF CacheLine
<1> QED BY <1>1, <1>4, <1>5

\* The way up by numbers (getMtreeEntry, read_ctr_mtree) and the one by addresses (getMtreeEvictParent, for
\* lines thrown out) lead to the same parent at every level of every memory, and the level that is handed
\* along with an address is the one that cache_access counts again from it.
THEOREM WaysUpHold == LayoutSpec => []WaysUpAgree
<1>1. LayoutInv => SameParent
  BY MetEntry DEF SameParent
<1>2. LayoutInv => LevelsAgree
  <2> SUFFICES ASSUME LayoutInv, met # NoEntry, met.mtree_level > 0
               PROVE  /\ Accepted(org, met)
                      /\ get_partition(org, met.paddr) = 2 <=> Slots(org, met) = {1, 2}
    BY DEF LevelsAgree
  <2> DEFINE l == met.mtree_level
             L == org.num_Mtree_levels
  <2>1. /\ OrgRight(org) /\ l \in 0 .. L /\ l \in 1 .. L
        /\ met.entry_num \in 0 .. EntriesAt(org, l) - 1
        /\ met = Entry(org, l, met.entry_num)
        /\ getMtreeEvictParent(org, met.paddr) = Entry(org, l - 1, met.entry_num \div org.inLine[l])
    BY MetEntry
  <2>2. get_partition(org, met.paddr) = IF l = L THEN 2 ELSE 1
    BY <2>1, PartitionFound
  <2>3. getMtreeEvictParent(org, met.paddr).mtree_level + 1 = l
    BY <2>1 DEF Entry
  <2>4. Accepted(org, met)
    <3>1. CASE l = L
      BY <2>2, <3>1 DEF Accepted
    <3>2. CASE l # L
      <4>1. L \in Nat
        BY <2>1 DEF OrgRight
      <4>2. 4 + l < 4 + L
        <5> HIDE DEF l, L
        <5> QED BY <2>1, <3>2, <4>1
      <4> QED BY <2>2, <2>3, <3>2, <4>2 DEF Accepted
    <3> QED BY <3>1, <3>2
  <2>5. Slots(org, met) = {1, 2} <=> l = L
    BY <2>1 DEF Slots
  <2> QED BY <2>2, <2>4, <2>5
<1>3. LayoutInv => WaysUpAgree
  BY <1>1, <1>2, EntryTyped DEF WaysUpAgree
<1> QED BY <1>3, LayoutInductive, PTL

\* The overflow of an entry re-encrypts what it covers, in every memory: getCtrChild finds the line of each
\* entry among the children of its parent, and for a line only the lines whose parent lies in it.
THEOREM ReencryptionHolds == LayoutSpec => []ReencryptsItsOwn
<1>1. ASSUME LayoutInv, met # NoEntry, met.mtree_level > 0
      PROVE  /\ LineAddr(met.paddr) \in ChildrenOf(org, getMtreeEntry(org, met).paddr)
             /\ OwnChildren(org, met)
  <2> DEFINE l == met.mtree_level
             n == met.entry_num
  <2>1. /\ OrgRight(org) /\ IntMax \in Nat /\ l \in 1 .. org.num_Mtree_levels
        /\ n \in 0 .. EntriesAt(org, l) - 1 /\ met = Entry(org, l, n)
        /\ getMtreeEntry(org, met) = Entry(org, l - 1, n \div org.inLine[l])
    BY <1>1, MetEntry
  <2>2. LineAddr(Entry(org, l, n).paddr) \in ChildrenOf(org, Entry(org, l - 1, n \div org.inLine[l]).paddr)
    <3> HIDE DEF l, n
    <3> QED BY <2>1, LineIsChild
  <2>3. OwnChildren(org, Entry(org, l, n))
    <3> HIDE DEF l, n
    <3> QED BY <2>1, ChildrenAreOwn
  <2> QED BY <2>1, <2>2, <2>3
<1>2. LayoutInv => ReencryptsItsOwn
  BY <1>1 DEF ReencryptsItsOwn
<1> QED BY <1>2, LayoutInductive, PTL

-----------------------------------------------------------------------------
\* Quotient and remainder, for the provers.
LEMMA DivideMod ==
  ASSUME NEW n \in Nat, NEW b \in Nat \ {0}
  PROVE  n \div b \in Nat /\ n % b \in 0 .. b - 1 /\ n = b * (n \div b) + (n % b)
  OBVIOUS

\* A quotient and a remainder determine the number they are of.
LEMMA QuotientUnique ==
  ASSUME NEW b \in Nat \ {0}, NEW q \in Nat, NEW r \in 0 .. b - 1
  PROVE  (b * q + r) \div b = q /\ (b * q + r) % b = r
  OBVIOUS

\* Two divisions are one, as fields of an address are cut off one after another.
LEMMA DivideTwice ==
  ASSUME NEW n \in Nat, NEW a \in Nat \ {0}, NEW b \in Nat \ {0}
  PROVE  n \div (a * b) = (n \div a) \div b
  OBVIOUS

\* More bits, more numbers.
LEMMA PowerMonotone ==
  ASSUME NEW a \in Nat, NEW b \in Nat, a <= b
  PROVE  2 ^ a <= 2 ^ b
<1>1. b - a \in Nat /\ a + (b - a) = b
  OBVIOUS
<1>2. 2 ^ b = 2 ^ a * 2 ^ (b - a)
  BY <1>1, PowerAdds
<1>3. 2 ^ a \in Nat \ {0} /\ 2 ^ (b - a) \in Nat \ {0}
  BY <1>1, PowerOfNext
<1>4. \A x, y \in Nat \ {0} : x <= x * y
  OBVIOUS
<1> QED BY <1>2, <1>3, <1>4

\* Two numbers are the same from a bit on, or in a field.
SameAbove(n, k, lo) == n \div (2 ^ lo) = k \div (2 ^ lo)
SameBits(n, k, lo, w) == Bits(n, lo, w) = Bits(k, lo, w)

\* The digits of a number: a field and what lies above it determine what lies from the field on.
LEMMA DigitDetermines ==
  ASSUME NEW lo \in Nat, NEW w \in Nat, NEW n \in Nat, NEW k \in Nat,
         SameBits(n, k, lo, w), SameAbove(n, k, lo + w)
  PROVE  SameAbove(n, k, lo)
<1>1. 2 ^ lo \in Nat \ {0} /\ 2 ^ w \in Nat \ {0} /\ 2 ^ (lo + w) = 2 ^ lo * 2 ^ w
  BY PowerOfNext, PowerAdds
<1> DEFINE x == n \div (2 ^ lo)
           y == k \div (2 ^ lo)
<1>2. x \in Nat /\ y \in Nat /\ x \div (2 ^ w) = y \div (2 ^ w) /\ x % (2 ^ w) = y % (2 ^ w)
  <2>1. x \in Nat /\ y \in Nat
    BY <1>1, DivideMod
  <2>2. n \div (2 ^ lo * 2 ^ w) = x \div (2 ^ w) /\ k \div (2 ^ lo * 2 ^ w) = y \div (2 ^ w)
    BY <1>1, DivideTwice
  <2> QED BY <1>1, <2>1, <2>2 DEF Bits, SameAbove, SameBits
<1> HIDE DEF x, y
<1>3. x = 2 ^ w * (x \div (2 ^ w)) + (x % (2 ^ w)) /\ y = 2 ^ w * (y \div (2 ^ w)) + (y % (2 ^ w))
  BY <1>1, <1>2, DivideMod, Zenon
<1>4. x = y
  BY <1>2, <1>3
<1> QED BY <1>4 DEF x, y, SameAbove

\* The highest field of a number that has no more bits is all that lies above the others.
LEMMA TopDigit ==
  ASSUME NEW lo \in Nat, NEW w \in Nat, NEW n \in Nat, n < 2 ^ lo * 2 ^ w
  PROVE  Bits(n, lo, w) = n \div (2 ^ lo) /\ n \div (2 ^ lo) \in Nat
<1>1. 2 ^ lo \in Nat \ {0} /\ 2 ^ w \in Nat \ {0}
  BY PowerOfNext
<1>2. ASSUME NEW a \in Nat \ {0}, NEW b \in Nat \ {0}, n < a * b PROVE n \div a \in Nat /\ n \div a < b
  <2>1. n \div a \in Nat /\ n = a * (n \div a) + (n % a) /\ n % a \in Nat
    BY DivideMod
  <2>2. ASSUME n \div a >= b PROVE FALSE
    <3>1. \A q \in Nat : q >= b => a * q >= a * b
      OBVIOUS
    <3>2. a * (n \div a) >= a * b
      BY <2>1, <2>2, <3>1
    <3>3. a * (n \div a) \in Nat /\ a * b \in Nat
      BY <2>1
    <3> QED BY <1>2, <2>1, <3>2, <3>3
  <2> QED BY <2>1, <2>2
<1>3. n \div (2 ^ lo) \in Nat /\ n \div (2 ^ lo) < 2 ^ w
  BY <1>1, <1>2
<1>4. \A x \in Nat : \A b \in Nat \ {0} : x < b => x % b = x
  OBVIOUS
<1> QED BY <1>1, <1>3, <1>4 DEF Bits

\* Turning a field by a fixed number loses nothing.
LEMMA TurnInjective ==
  ASSUME NEW b \in Nat \ {0}, NEW t \in Nat, NEW x \in 0 .. b - 1, NEW y \in 0 .. b - 1,
         (x + t) % b = (y + t) % b
  PROVE  x = y
<1> DEFINE q == (x + t) \div b
           r == (y + t) \div b
<1>1. /\ q \in Nat /\ r \in Nat /\ x + t = b * q + ((x + t) % b) /\ y + t = b * r + ((y + t) % b)
      /\ (x + t) % b \in Nat
  <2>1. x + t \in Nat /\ y + t \in Nat
    OBVIOUS
  <2>2. /\ q \in Nat /\ x + t = b * q + ((x + t) % b) /\ (x + t) % b \in 0 .. b - 1
    BY <2>1, DivideMod, Zenon
  <2>3. /\ r \in Nat /\ y + t = b * r + ((y + t) % b)
    BY <2>1, DivideMod, Zenon
  <2> HIDE DEF q, r
  <2>4. (x + t) % b \in Nat
    BY <2>2
  <2> QED BY <2>2, <2>3, <2>4
<1> HIDE DEF q, r
<1>2. b * q \in Nat /\ b * r \in Nat /\ x - y = b * q - b * r
  BY <1>1
<1>3. \A i, j \in Nat : i < j => b * i + b <= b * j
  <2>1. ASSUME NEW i \in Nat, NEW j \in Nat, i < j PROVE b * i + b <= b * j
    <3>1. i + 1 <= j
      BY <2>1
    <3>2. b * (i + 1) <= b * j
      BY <3>1
    <3> QED BY <3>2
  <2> QED BY <2>1
<1>4. ~(q < r) /\ ~(r < q)
  BY <1>1, <1>2, <1>3
<1> QED BY <1>1, <1>2, <1>4

\* Widths of the fields are numbers.
Widths(g) == g.column \in Nat /\ g.channel \in Nat /\ g.bank \in Nat /\ g.rank \in Nat /\ g.row \in Nat

\* Bits of a line number below the row.
RowBits(g) == g.column + g.channel + g.bank + g.rank

\* A field of w bits is below 2^w.
LEMMA BitsBelow ==
  ASSUME NEW n \in Nat, NEW lo \in Nat, NEW w \in Nat
  PROVE  Bits(n, lo, w) \in 0 .. 2 ^ w - 1
<1>1. 2 ^ lo \in Nat \ {0} /\ 2 ^ w \in Nat \ {0}
  BY PowerOfNext
<1>2. n \div (2 ^ lo) \in Nat
  BY <1>1, DivideMod
<1>3. (n \div (2 ^ lo)) % (2 ^ w) \in 0 .. 2 ^ w - 1
  BY <1>1, <1>2, DivideMod, Zenon
<1> QED BY <1>3 DEF Bits

\* All of a number lies above bit 0.
LEMMA ByOne ==
  ASSUME NEW n \in Nat
  PROVE  n \div (2 ^ 0) = n
  BY PowerOfNext

\* Where the row is the highest field, lines of one row have the same number above its other fields.
LEMMA SameRow ==
  ASSUME NEW lo \in Nat, NEW w \in Nat, NEW n \in Nat, NEW k \in Nat,
         n < 2 ^ lo * 2 ^ w, k < 2 ^ lo * 2 ^ w, SameBits(n, k, lo, w)
  PROVE  SameAbove(n, k, lo)
  BY TopDigit DEF SameAbove, SameBits

\* The map with the row highest gives two lines two places.
LEMMA RowHighInjective ==
  ASSUME NEW g, Widths(g), NEW n \in Nat, NEW k \in Nat,
         n < 2 ^ RowBits(g) * 2 ^ g.row, k < 2 ^ RowBits(g) * 2 ^ g.row,
         RowHigh(g, n) = RowHigh(g, k)
  PROVE  n = k
<1>1. /\ g.column \in Nat /\ g.channel \in Nat /\ g.bank \in Nat /\ g.rank \in Nat /\ g.row \in Nat
  BY DEF Widths
<1>2. /\ SameBits(n, k, 0, g.column)
      /\ SameBits(n, k, g.column, g.channel)
      /\ SameBits(n, k, g.column + g.channel, g.bank)
      /\ SameBits(n, k, g.column + g.channel + g.bank, g.rank)
      /\ SameBits(n, k, g.column + g.channel + g.bank + g.rank, g.row)
  BY DEF RowHigh, SameBits
<1>3. /\ g.column + g.channel \in Nat /\ g.column + g.channel + g.bank \in Nat
      /\ g.column + g.channel + g.bank + g.rank \in Nat /\ 0 \in Nat /\ 0 + g.column = g.column
  BY <1>1
<1>4. SameAbove(n, k, g.column + g.channel + g.bank + g.rank)
  BY <1>1, <1>2, <1>3, SameRow DEF RowBits
<1>5. SameAbove(n, k, g.column + g.channel + g.bank)
  BY <1>1, <1>2, <1>3, <1>4, DigitDetermines, Zenon
<1>6. SameAbove(n, k, g.column + g.channel)
  BY <1>1, <1>2, <1>3, <1>5, DigitDetermines, Zenon
<1>7. SameAbove(n, k, g.column)
  BY <1>1, <1>2, <1>3, <1>6, DigitDetermines, Zenon
<1>8. SameAbove(n, k, 0 + g.column)
  BY <1>3, <1>7
<1>9. SameAbove(n, k, 0)
  BY <1>1, <1>2, <1>3, <1>8, DigitDetermines, Zenon
<1> QED BY <1>9, ByOne DEF SameAbove

\* So does the map with the column highest,
LEMMA ColumnHighInjective ==
  ASSUME NEW g, Widths(g), NEW n \in Nat, NEW k \in Nat,
         n < 2 ^ RowBits(g) * 2 ^ g.row, k < 2 ^ RowBits(g) * 2 ^ g.row,
         ColumnHigh(g, n) = ColumnHigh(g, k)
  PROVE  n = k
<1>1. /\ g.column \in Nat /\ g.channel \in Nat /\ g.bank \in Nat /\ g.rank \in Nat /\ g.row \in Nat
  BY DEF Widths
<1>2. /\ SameBits(n, k, 0, g.channel)
      /\ SameBits(n, k, g.channel, g.bank)
      /\ SameBits(n, k, g.channel + g.bank, g.rank)
      /\ SameBits(n, k, g.channel + g.bank + g.rank, g.column)
      /\ SameBits(n, k, g.channel + g.bank + g.rank + g.column, g.row)
  BY DEF ColumnHigh, SameBits
<1>3. /\ g.channel + g.bank \in Nat /\ g.channel + g.bank + g.rank \in Nat
      /\ g.channel + g.bank + g.rank + g.column \in Nat /\ 0 \in Nat /\ 0 + g.channel = g.channel
      /\ RowBits(g) = g.channel + g.bank + g.rank + g.column
  BY <1>1 DEF RowBits
<1>4. SameAbove(n, k, g.channel + g.bank + g.rank + g.column)
  BY <1>1, <1>2, <1>3, SameRow
<1>5. SameAbove(n, k, g.channel + g.bank + g.rank)
  BY <1>1, <1>2, <1>3, <1>4, DigitDetermines, Zenon
<1>6. SameAbove(n, k, g.channel + g.bank)
  BY <1>1, <1>2, <1>3, <1>5, DigitDetermines, Zenon
<1>7. SameAbove(n, k, g.channel)
  BY <1>1, <1>2, <1>3, <1>6, DigitDetermines, Zenon
<1>8. SameAbove(n, k, 0 + g.channel)
  BY <1>3, <1>7
<1>9. SameAbove(n, k, 0)
  BY <1>1, <1>2, <1>3, <1>8, DigitDetermines, Zenon
<1> QED BY <1>9, ByOne DEF SameAbove

\* and the one that takes the low columns from above the banks.
LEMMA ColumnSplitInjective ==
  ASSUME NEW g, Widths(g), NEW n \in Nat, NEW k \in Nat, NEW s \in 0 .. g.column,
         n < 2 ^ RowBits(g) * 2 ^ g.row, k < 2 ^ RowBits(g) * 2 ^ g.row,
         ColumnSplit(g, n, s) = ColumnSplit(g, k, s)
  PROVE  n = k
<1> DEFINE low == g.column - s
<1>1. /\ g.column \in Nat /\ g.channel \in Nat /\ g.bank \in Nat /\ g.rank \in Nat /\ g.row \in Nat
      /\ low \in Nat /\ s \in Nat
  BY DEF Widths
<1>2. /\ Bits(n, 0, low) + Bits(n, low + g.channel + g.bank + g.rank, s) * 2 ^ low =
           Bits(k, 0, low) + Bits(k, low + g.channel + g.bank + g.rank, s) * 2 ^ low
      /\ SameBits(n, k, low, g.channel)
      /\ SameBits(n, k, low + g.channel, g.bank)
      /\ SameBits(n, k, low + g.channel + g.bank, g.rank)
      /\ SameBits(n, k, g.column + g.channel + g.bank + g.rank, g.row)
  BY DEF ColumnSplit, SameBits
<1> HIDE DEF low
<1>3. /\ low + g.channel \in Nat /\ low + g.channel + g.bank \in Nat
      /\ low + g.channel + g.bank + g.rank \in Nat /\ 0 \in Nat /\ 0 + low = low
      /\ RowBits(g) = g.column + g.channel + g.bank + g.rank
      /\ RowBits(g) \in Nat
      /\ RowBits(g) = (low + g.channel + g.bank + g.rank) + s
  BY <1>1 DEF RowBits, low
<1>4. SameAbove(n, k, RowBits(g))
  BY <1>1, <1>2, <1>3, SameRow
<1>5. /\ SameBits(n, k, 0, low)
      /\ SameBits(n, k, low + g.channel + g.bank + g.rank, s)
  <2> DEFINE a == Bits(n, 0, low)
             b == Bits(k, 0, low)
             x == Bits(n, low + g.channel + g.bank + g.rank, s)
             y == Bits(k, low + g.channel + g.bank + g.rank, s)
  <2>1. 2 ^ low \in Nat \ {0} /\ a \in 0 .. 2 ^ low - 1 /\ b \in 0 .. 2 ^ low - 1
    BY <1>1, BitsBelow, PowerOfNext
  <2>2. x \in Nat /\ y \in Nat
    <3>1. 2 ^ s \in Nat /\ x \in 0 .. 2 ^ s - 1 /\ y \in 0 .. 2 ^ s - 1
      BY <1>1, <1>3, BitsBelow, PowerOfNext
    <3> QED BY <3>1
  <2>3. a + x * 2 ^ low = b + y * 2 ^ low
    BY <1>2
  <2> HIDE DEF a, b, x, y
  <2>4. ASSUME NEW c \in Nat \ {0}, NEW i \in 0 .. c - 1, NEW j \in 0 .. c - 1, i + x * c = j + y * c
        PROVE  i = j /\ x = y
    <3>1. /\ (c * x + i) \div c = x /\ (c * x + i) % c = i
          /\ (c * y + j) \div c = y /\ (c * y + j) % c = j
      BY <2>2, QuotientUnique
    <3>2. c * x + i = c * y + j
      BY <2>2, <2>4
    <3> QED BY <3>1, <3>2
  <2>5. a = b /\ x = y
    BY <2>1, <2>3, <2>4
  <2> QED BY <2>5 DEF a, b, x, y, SameBits
<1>6. SameAbove(n, k, low + g.channel + g.bank + g.rank)
  <2>1. SameAbove(n, k, (low + g.channel + g.bank + g.rank) + s)
    BY <1>3, <1>4
  <2> QED BY <1>1, <1>3, <1>5, <2>1, DigitDetermines, Zenon
<1>7. SameAbove(n, k, low + g.channel + g.bank)
  BY <1>1, <1>2, <1>3, <1>6, DigitDetermines, Zenon
<1>8. SameAbove(n, k, low + g.channel)
  BY <1>1, <1>2, <1>3, <1>7, DigitDetermines, Zenon
<1>9. SameAbove(n, k, low)
  BY <1>1, <1>2, <1>3, <1>8, DigitDetermines, Zenon
<1>10. SameAbove(n, k, 0 + low)
  BY <1>3, <1>9
<1>11. SameAbove(n, k, 0)
  BY <1>1, <1>3, <1>5, <1>10, DigitDetermines, Zenon
<1> QED BY <1>11, ByOne DEF SameAbove

\* Field by field, what Turned turns is the same when the result is.
LEMMA TurnedSplit ==
  ASSUME NEW g, Widths(g), NEW n \in Nat, NEW k \in Nat, NEW s \in 0 .. g.column, NEW t \in Nat,
         Turned(g, ColumnSplit(g, n, s), t) = Turned(g, ColumnSplit(g, k, s), t)
  PROVE  ColumnSplit(g, n, s) = ColumnSplit(g, k, s)
<1> DEFINE p == ColumnSplit(g, n, s)
           q == ColumnSplit(g, k, s)
<1>1. /\ 2 ^ g.channel \in Nat \ {0} /\ 2 ^ g.bank \in Nat \ {0} /\ g.column - s \in Nat
      /\ g.column - s + g.channel \in Nat
  <2>1. g.channel \in Nat /\ g.bank \in Nat /\ g.column \in Nat
    BY DEF Widths
  <2> QED BY <2>1, PowerOfNext
<1>2. /\ p.channel \in 0 .. 2 ^ g.channel - 1 /\ q.channel \in 0 .. 2 ^ g.channel - 1
      /\ p.bank \in 0 .. 2 ^ g.bank - 1 /\ q.bank \in 0 .. 2 ^ g.bank - 1
  <2>1. g.channel \in Nat /\ g.bank \in Nat
    BY DEF Widths
  <2>2. /\ Bits(n, g.column - s, g.channel) \in 0 .. 2 ^ g.channel - 1
        /\ Bits(k, g.column - s, g.channel) \in 0 .. 2 ^ g.channel - 1
        /\ Bits(n, g.column - s + g.channel, g.bank) \in 0 .. 2 ^ g.bank - 1
        /\ Bits(k, g.column - s + g.channel, g.bank) \in 0 .. 2 ^ g.bank - 1
    BY <1>1, <2>1, BitsBelow
  <2> QED BY <2>2 DEF ColumnSplit
<1>3. /\ (p.channel + t) % 2 ^ g.channel = (q.channel + t) % 2 ^ g.channel
      /\ (p.bank + t) % 2 ^ g.bank = (q.bank + t) % 2 ^ g.bank
      /\ p.column = q.column /\ p.rank = q.rank /\ p.row = q.row
  BY DEF Turned, ColumnSplit
<1>4. p.channel = q.channel /\ p.bank = q.bank
  <2> HIDE DEF p, q
  <2> QED BY <1>1, <1>2, <1>3, TurnInjective
<1> QED BY <1>3, <1>4 DEF ColumnSplit

\* The powers of two that counters in a line are.
LEMMA ArityPowers ==
  ASSUME NEW p \in Arities
  PROVE  \E b \in 3 .. 9 : 2 ^ b <= p /\ p < 2 ^ (b + 1)
<1>1. /\ 2 ^ 3 = 8 /\ 2 ^ 4 = 16 /\ 2 ^ 5 = 32 /\ 2 ^ 6 = 64 /\ 2 ^ 7 = 128
      /\ 2 ^ 8 = 256 /\ 2 ^ 9 = 512 /\ 2 ^ 10 = 1024
  <2>1. 2 ^ 1 = 2 /\ 2 ^ 2 = 4 /\ 2 ^ 3 = 8
    <3>1. 2 ^ (0 + 1) = 2 * 2 ^ 0 /\ 2 ^ (1 + 1) = 2 * 2 ^ 1 /\ 2 ^ (2 + 1) = 2 * 2 ^ 2 /\ 2 ^ 0 = 1
      BY PowerOfNext
    <3> QED BY <3>1
  <2>2. 2 ^ (3 + 1) = 2 * 2 ^ 3 /\ 2 ^ (4 + 1) = 2 * 2 ^ 4 /\ 2 ^ (5 + 1) = 2 * 2 ^ 5 /\ 2 ^ (6 + 1) = 2 * 2 ^ 6
    BY PowerOfNext
  <2>3. 2 ^ (7 + 1) = 2 * 2 ^ 7 /\ 2 ^ (8 + 1) = 2 * 2 ^ 8 /\ 2 ^ (9 + 1) = 2 * 2 ^ 9
    BY PowerOfNext
  <2> QED BY <2>1, <2>2, <2>3
<1> QED BY <1>1 DEF Arities

\* log_base2 rounds down.
LEMMA LogIs ==
  ASSUME NEW p \in Arities
  PROVE  Log2(p) \in Nat /\ 2 ^ Log2(p) <= p /\ p < 2 ^ (Log2(p) + 1)
<1>1. \E b \in 0 .. 31 : 2 ^ b <= p /\ p < 2 ^ (b + 1)
  BY ArityPowers
<1> QED BY <1>1 DEF Log2

\* No arity has a smaller logarithm than 8 has.
LEMMA LeastLog ==
  ASSUME NEW p \in Arities
  PROVE  Log2(8) <= Log2(p)
<1>1. /\ Log2(8) \in Nat /\ 2 ^ Log2(8) <= 8
      /\ Log2(p) \in Nat /\ p < 2 ^ (Log2(p) + 1)
  <2>1. 8 \in Arities
    BY DEF Arities
  <2> QED BY <2>1, LogIs
<1>2. p \in Nat /\ p >= 8
  BY DEF Arities
<1>3. 2 ^ Log2(8) \in Nat /\ 2 ^ (Log2(p) + 1) \in Nat
  BY <1>1, PowerOfNext
<1>4. ASSUME Log2(p) + 1 <= Log2(8) PROVE FALSE
  <2>1. 2 ^ (Log2(p) + 1) <= 2 ^ Log2(8)
    BY <1>1, <1>4, PowerMonotone
  <2> QED BY <1>1, <1>2, <1>3, <2>1
<1> QED BY <1>1, <1>4

\* A line of a memory that the geometry serves has a row.
LEMMA LineHasRow ==
  ASSUME NEW g, Widths(g), NEW mem \in Nat, RowGroup(g) * 2 ^ g.row >= mem, NEW n \in 0 .. (mem \div CacheLine) - 1
  PROVE  n \in Nat /\ n < 2 ^ RowBits(g) * 2 ^ g.row
<1>1. 2 ^ RowBits(g) \in Nat \ {0} /\ 2 ^ g.row \in Nat \ {0}
  <2>1. RowBits(g) \in Nat /\ g.row \in Nat
    BY DEF Widths, RowBits
  <2> QED BY <2>1, PowerOfNext
<1>2. RowGroup(g) = CacheLine * 2 ^ RowBits(g)
  BY DEF RowGroup, RowBits
<1>3. \A a, b \in Nat : (64 * a) * b = 64 * (a * b) /\ a * b \in Nat
  OBVIOUS
<1>4. 64 * (2 ^ RowBits(g) * 2 ^ g.row) >= mem /\ 2 ^ RowBits(g) * 2 ^ g.row \in Nat
  BY <1>1, <1>2, <1>3 DEF CacheLine
<1>5. \A c \in Nat : 64 * c >= mem => (mem \div 64) <= c
  OBVIOUS
<1> QED BY <1>4, <1>5 DEF CacheLine

\* Lines on either side of a bound that is a multiple of RowGroup have rows of their own.
LEMMA RowsApart ==
  ASSUME NEW g, Widths(g), NEW bound \in Nat, bound % RowGroup(g) = 0,
         NEW n \in Nat, NEW k \in Nat, n * CacheLine < bound, bound <= k * CacheLine
  PROVE  ~SameAbove(n, k, RowBits(g))
<1> DEFINE P == 2 ^ RowBits(g)
           q == bound \div RowGroup(g)
<1>1. P \in Nat \ {0} /\ RowGroup(g) = 64 * P
  <2>1. RowBits(g) \in Nat
    BY DEF Widths, RowBits
  <2> QED BY <2>1, PowerOfNext DEF RowGroup, RowBits, CacheLine
<1> HIDE DEF P
<1>2. q \in Nat /\ bound = 64 * P * q
  <2>1. RowGroup(g) \in Nat \ {0}
    BY <1>1
  <2>2. q \in Nat /\ bound = RowGroup(g) * q + (bound % RowGroup(g))
    BY <2>1, DivideMod, Zenon
  <2> HIDE DEF q
  <2> QED BY <1>1, <2>1, <2>2
<1> HIDE DEF q
<1>3. P * q \in Nat /\ n < P * q /\ P * q <= k
  <2>1. P * q \in Nat /\ 64 * P * q = 64 * (P * q)
    BY <1>1, <1>2
  <2> QED BY <1>2, <2>1 DEF CacheLine
<1>4. /\ n \div P \in Nat /\ n = P * (n \div P) + (n % P) /\ n % P \in 0 .. P - 1
      /\ k \div P \in Nat /\ k = P * (k \div P) + (k % P) /\ k % P \in 0 .. P - 1
  BY <1>1, DivideMod
<1>5. ASSUME NEW d \in Nat, n = P * d + (n % P), k = P * d + (k % P), n % P \in 0 .. P - 1, k % P \in 0 .. P - 1
      PROVE FALSE
  <2>1. \A i, j \in Nat : i <= j => P * i <= P * j
    BY <1>1
  <2>2. \A i, j \in Nat : i + 1 <= j => P * i + P <= P * j
    <3>1. ASSUME NEW i \in Nat, NEW j \in Nat, i + 1 <= j PROVE P * i + P <= P * j
      <4>1. P * (i + 1) <= P * j /\ P * (i + 1) = P * i + P
        BY <1>1, <3>1, <2>1
      <4> QED BY <4>1
    <3> QED BY <3>1
  <2>3. d + 1 <= q \/ q <= d
    BY <1>2
  <2>4. CASE d + 1 <= q
    <3>1. P * d + P <= P * q /\ P * d \in Nat
      BY <1>1, <1>2, <2>2, <2>4
    <3> QED BY <1>1, <1>3, <1>5, <3>1
  <2>5. CASE q <= d
    <3>1. P * q <= P * d /\ P * d \in Nat
      BY <1>1, <1>2, <2>1, <2>5
    <3> QED BY <1>1, <1>3, <1>5, <3>1
  <2> QED BY <2>3, <2>4, <2>5
<1> QED BY <1>4, <1>5 DEF SameAbove, P

\* Where the regions of MemLayout end, and that each spreads over rows of its own.
Regions(o, g) ==
  LET tree == Visible(o) + o.mtree_store_size
      ctrs == tree + o.ctr_store_size
  IN /\ Visible(o) \in Nat /\ o.mtree_store_size \in Nat /\ o.ctr_store_size \in Nat
     /\ tree % RowGroup(g) = 0 /\ ctrs % RowGroup(g) = 0

\* They do in every memory that a geometry serves.
LEMMA RegionsOf ==
  ASSUME NEW o, OrgRight(o), NEW g, Serves(g, o)
  PROVE  Regions(o, g)
<1>1. /\ o.mem_size \in Nat /\ o.MAC_store_size \in Nat /\ o.mtree_store_size \in Nat
      /\ o.ctr_store_size \in Nat /\ Visible(o) \in Nat
  <2>1. /\ o.num_Mtree_levels \in Nat /\ o.mtree_levels_start_addr \in [0 .. o.num_Mtree_levels -> Nat]
        /\ o.mtree_levels_start_addr[0] = Visible(o)
        /\ o.ctr_store_size = CacheLine * LinesAt(o, o.num_Mtree_levels)
        /\ LinesAt(o, o.num_Mtree_levels) \in Nat
        /\ o.mem_size \in Nat /\ o.MAC_store_size \in Nat /\ o.mtree_store_size \in Nat
    BY DEF OrgRight
  <2>2. Visible(o) \in Nat
    BY <2>1
  <2>3. CacheLine * LinesAt(o, o.num_Mtree_levels) \in Nat
    BY <2>1 DEF CacheLine
  <2> QED BY <2>1, <2>2, <2>3
<1>2. Visible(o) + o.mtree_store_size + o.ctr_store_size = o.mem_size - o.MAC_store_size
  BY <1>1 DEF Visible
<1> QED BY <1>1, <1>2 DEF Regions, Serves

\* What ByRegion makes of a line of each region.
LEMMA ByRegionIs ==
  ASSUME NEW o, NEW g, Regions(o, g), NEW controller, NEW n \in Nat
  PROVE  LET a    == n * CacheLine
             tree == Visible(o) + o.mtree_store_size
             ctrs == tree + o.ctr_store_size
         IN /\ a < tree => ByRegion(o, controller, g, a) = RowHigh(g, n)
            /\ (tree <= a /\ a < ctrs) =>
                 ByRegion(o, controller, g, a) = Turned(g, ColumnSplit(g, n, CounterBits(o, controller)), 3)
            /\ ctrs <= a =>
                 ByRegion(o, controller, g, a) = Turned(g, ColumnSplit(g, n, Log2(CacheLine \div MacSize)), 1)
<1> DEFINE a    == n * CacheLine
           tree == Visible(o) + o.mtree_store_size
           ctrs == tree + o.ctr_store_size
<1>1. a \in Nat /\ a \div CacheLine = n
  BY DEF CacheLine
<1>2. Visible(o) \in Nat /\ o.mtree_store_size \in Nat /\ o.ctr_store_size \in Nat
  BY DEF Regions
<1>3. /\ a < tree => get_partition(o, a) \in {0, 1}
      /\ (tree <= a /\ a < ctrs) => get_partition(o, a) = 2
      /\ ctrs <= a => get_partition(o, a) = 3
  BY <1>1, <1>2 DEF get_partition
<1> HIDE DEF a, tree, ctrs
<1>4. a < tree => ByRegion(o, controller, g, a) = RowHigh(g, n)
  BY <1>1, <1>3 DEF ByRegion
<1>5. (tree <= a /\ a < ctrs) =>
        ByRegion(o, controller, g, a) = Turned(g, ColumnSplit(g, n, CounterBits(o, controller)), 3)
  BY <1>1, <1>3 DEF ByRegion
<1>6. ctrs <= a => ByRegion(o, controller, g, a) = Turned(g, ColumnSplit(g, n, Log2(CacheLine \div MacSize)), 1)
  BY <1>1, <1>3 DEF ByRegion
<1> QED BY <1>4, <1>5, <1>6 DEF a, tree, ctrs

\* The row of a line is the same in both maps that mapping 1 uses.
LEMMA RowsOfMaps ==
  ASSUME NEW g, NEW n, NEW s, NEW t
  PROVE  /\ RowHigh(g, n).row = Bits(n, RowBits(g), g.row)
         /\ Turned(g, ColumnSplit(g, n, s), t).row = Bits(n, RowBits(g), g.row)
  BY DEF RowHigh, ColumnSplit, Turned, RowBits

\* Each region is one map, which loses nothing, and none shares a row with another.
LEMMA ByRegionInjective ==
  ASSUME NEW o, NEW g, Widths(g), Regions(o, g), NEW controller,
         CounterBits(o, controller) \in 0 .. g.column, Log2(CacheLine \div MacSize) \in 0 .. g.column,
         NEW n \in Nat, NEW k \in Nat,
         n < 2 ^ RowBits(g) * 2 ^ g.row, k < 2 ^ RowBits(g) * 2 ^ g.row,
         ByRegion(o, controller, g, n * CacheLine) = ByRegion(o, controller, g, k * CacheLine)
  PROVE  n = k
<1> DEFINE tree == Visible(o) + o.mtree_store_size
           ctrs == tree + o.ctr_store_size
           x    == n * CacheLine
           y    == k * CacheLine
<1>1. tree \in Nat /\ ctrs \in Nat /\ tree <= ctrs /\ tree % RowGroup(g) = 0 /\ ctrs % RowGroup(g) = 0
  BY DEF Regions
<1>2. x \in Nat /\ y \in Nat
  BY DEF CacheLine
<1>3. /\ x < tree => ByRegion(o, controller, g, x) = RowHigh(g, n)
      /\ (tree <= x /\ x < ctrs) =>
           ByRegion(o, controller, g, x) = Turned(g, ColumnSplit(g, n, CounterBits(o, controller)), 3)
      /\ ctrs <= x => ByRegion(o, controller, g, x) = Turned(g, ColumnSplit(g, n, Log2(CacheLine \div MacSize)), 1)
  BY ByRegionIs
<1>4. /\ y < tree => ByRegion(o, controller, g, y) = RowHigh(g, k)
      /\ (tree <= y /\ y < ctrs) =>
           ByRegion(o, controller, g, y) = Turned(g, ColumnSplit(g, k, CounterBits(o, controller)), 3)
      /\ ctrs <= y => ByRegion(o, controller, g, y) = Turned(g, ColumnSplit(g, k, Log2(CacheLine \div MacSize)), 1)
  BY ByRegionIs
<1>5. SameAbove(n, k, RowBits(g))
  <2>1. ByRegion(o, controller, g, x).row = Bits(n, RowBits(g), g.row)
    <3>1. x < tree \/ (tree <= x /\ x < ctrs) \/ ctrs <= x
      BY <1>1, <1>2
    <3> HIDE DEF tree, ctrs, x
    <3> QED BY <1>3, <3>1, RowsOfMaps
  <2>2. ByRegion(o, controller, g, y).row = Bits(k, RowBits(g), g.row)
    <3>1. y < tree \/ (tree <= y /\ y < ctrs) \/ ctrs <= y
      BY <1>1, <1>2
    <3> HIDE DEF tree, ctrs, y
    <3> QED BY <1>4, <3>1, RowsOfMaps
  <2>3. SameBits(n, k, RowBits(g), g.row)
    BY <2>1, <2>2 DEF SameBits
  <2>4. RowBits(g) \in Nat /\ g.row \in Nat
    BY DEF Widths, RowBits
  <2> QED BY <2>3, <2>4, SameRow
<1>6. ~(x < tree /\ tree <= y) /\ ~(y < tree /\ tree <= x)
  <2>1. SameAbove(k, n, RowBits(g))
    BY <1>5 DEF SameAbove
  <2> HIDE DEF tree, ctrs
  <2> QED BY <1>1, <1>5, <2>1, RowsApart
<1>7. ~(x < ctrs /\ ctrs <= y) /\ ~(y < ctrs /\ ctrs <= x)
  <2>1. SameAbove(k, n, RowBits(g))
    BY <1>5 DEF SameAbove
  <2> HIDE DEF tree, ctrs
  <2> QED BY <1>1, <1>5, <2>1, RowsApart
<1>8. ByRegion(o, controller, g, x) = ByRegion(o, controller, g, y)
  OBVIOUS
<1> HIDE DEF x, y, tree, ctrs
<1>9. CASE x < tree
  <2>1. y < tree
    BY <1>1, <1>2, <1>6, <1>9
  <2>2. RowHigh(g, n) = RowHigh(g, k)
    BY <1>3, <1>4, <1>8, <1>9, <2>1
  <2> QED BY <2>2, RowHighInjective
<1>10. CASE tree <= x /\ x < ctrs
  <2>1. tree <= y /\ y < ctrs
    BY <1>1, <1>2, <1>6, <1>7, <1>10
  <2>2. /\ Turned(g, ColumnSplit(g, n, CounterBits(o, controller)), 3) =
             Turned(g, ColumnSplit(g, k, CounterBits(o, controller)), 3)
        /\ 3 \in Nat
    BY <1>3, <1>4, <1>8, <1>10, <2>1
  <2>3. ColumnSplit(g, n, CounterBits(o, controller)) = ColumnSplit(g, k, CounterBits(o, controller))
    BY <2>2, TurnedSplit
  <2> QED BY <2>3, ColumnSplitInjective
<1>11. CASE ctrs <= x
  <2>1. ctrs <= y
    BY <1>1, <1>2, <1>7, <1>11
  <2>2. /\ Turned(g, ColumnSplit(g, n, Log2(CacheLine \div MacSize)), 1) =
             Turned(g, ColumnSplit(g, k, Log2(CacheLine \div MacSize)), 1)
        /\ 1 \in Nat
    BY <1>3, <1>4, <1>8, <1>11, <2>1
  <2>3. ColumnSplit(g, n, Log2(CacheLine \div MacSize)) = ColumnSplit(g, k, Log2(CacheLine \div MacSize))
    BY <2>2, TurnedSplit
  <2> QED BY <2>3, ColumnSplitInjective
<1> QED BY <1>1, <1>2, <1>9, <1>10, <1>11

\* Column bits enough for the counters, and for the MACs.
LEMMA SplitsFit ==
  ASSUME NEW o, OrgRight(o), NEW g, Widths(g), Serves(g, o), NEW controller
  PROVE  CounterBits(o, controller) \in 0 .. g.column /\ Log2(CacheLine \div MacSize) \in 0 .. g.column
<1> DEFINE p == o.inLine[o.num_Mtree_levels]
<1>1. p \in Arities /\ 8 \in Arities /\ CacheLine \div MacSize = 8
  BY DEF OrgRight, Arities, CacheLine, MacSize
<1>2. g.column \in Nat /\ g.column >= Log2(p)
  BY DEF Widths, Serves
<1> HIDE DEF p
<1>3. Log2(p) \in Nat /\ Log2(8) \in Nat /\ Log2(8) <= Log2(p)
  BY <1>1, LogIs, LeastLog
<1>4. CounterBits(o, controller) = Log2(p) \/ CounterBits(o, controller) = Log2(8)
  BY <1>1 DEF CounterBits, p
<1> QED BY <1>1, <1>2, <1>3, <1>4

\* Whichever mapping and controller: the place of a line is that of no other line.
LEMMA PlaceDetermines ==
  ASSUME NEW o, OrgRight(o), NEW g, Widths(g), Serves(g, o), NEW controller, NEW mapping,
         NEW n \in 0 .. (o.mem_size \div CacheLine) - 1, NEW k \in 0 .. (o.mem_size \div CacheLine) - 1,
         calc_dram_addr(o, controller, mapping, g, n * CacheLine) =
           calc_dram_addr(o, controller, mapping, g, k * CacheLine)
  PROVE  n = k
<1>1. /\ n \in Nat /\ n < 2 ^ RowBits(g) * 2 ^ g.row
      /\ k \in Nat /\ k < 2 ^ RowBits(g) * 2 ^ g.row
  <2>1. o.mem_size \in Nat /\ RowGroup(g) * 2 ^ g.row >= o.mem_size
    BY DEF OrgRight, Serves
  <2> QED BY <2>1, LineHasRow
<1>2. (n * CacheLine) \div CacheLine = n /\ (k * CacheLine) \div CacheLine = k
  BY <1>1 DEF CacheLine
<1>3. CASE mapping = 1
  <2>1. ByRegion(o, controller, g, n * CacheLine) = ByRegion(o, controller, g, k * CacheLine)
    BY <1>3 DEF calc_dram_addr
  <2> QED BY <1>1, <2>1, RegionsOf, SplitsFit, ByRegionInjective
<1>4. CASE mapping # 1 /\ mapping = 2 /\ controller = "fast"
  <2>1. RowHigh(g, n) = RowHigh(g, k)
    BY <1>2, <1>4 DEF calc_dram_addr
  <2> QED BY <1>1, <2>1, RowHighInjective
<1>5. CASE mapping # 1 /\ ~(mapping = 2 /\ controller = "fast")
  <2>1. ColumnHigh(g, n) = ColumnHigh(g, k)
    BY <1>2, <1>5 DEF calc_dram_addr
  <2> QED BY <1>1, <2>1, ColumnHighInjective
<1> QED BY <1>3, <1>4, <1>5

\* A map of lines under which no two meet has as many values.
LEMMA AsManyValues ==
  ASSUME NEW S, IsFiniteSet(S), NEW f, f \in [S -> {f[x] : x \in S}],
         \A x, y \in S : f[x] = f[y] => x = y
  PROVE  Cardinality({f[x] : x \in S}) = Cardinality(S)
<1> DEFINE T == {f[x] : x \in S}
<1>1. f \in Bijection(S, T)
  BY DEF Bijection, Injection, Surjection, IsInjective
<1>2. ExistsBijection(S, T)
  BY <1>1 DEF ExistsBijection
<1> QED BY <1>2, FS_Bijection

(***************************************************************************)
(* calc_dram_addr of both controllers gives every line of a memory that a  *)
(* geometry serves a place of its own, under each ADDRESS_MAPPING, however *)
(* large the memory is and however wide the fields: also where mapping 1   *)
(* splits the columns of counters and MACs and turns their banks.          *)
(***************************************************************************)
THEOREM PlacesHold == LayoutSpec => []PlacesDiffer
<1>1. LayoutInv => PlacesDiffer
  <2> SUFFICES ASSUME LayoutInv, met = NoEntry, org.tallies, NEW g \in Geometries, Serves(g, org),
                      NEW controller \in Controllers, NEW mapping \in 0 .. 2
               PROVE  LET lines == { n * CacheLine : n \in 0 .. (org.mem_size \div CacheLine) - 1 }
                      IN Cardinality({ calc_dram_addr(org, controller, mapping, g, a) : a \in lines })
                           = Cardinality(lines)
    BY DEF PlacesDiffer
  <2> DEFINE lines == { n * CacheLine : n \in 0 .. (org.mem_size \div CacheLine) - 1 }
             f     == [a \in lines |-> calc_dram_addr(org, controller, mapping, g, a)]
  <2>1. OrgRight(org)
    BY InitMemOrgRight DEF LayoutInv
  <2>2. Widths(g)
    BY GeometryAssumption DEF Widths
  <2>3. IsFiniteSet(lines)
    <3>1. org.mem_size \in Nat
      BY <2>1 DEF OrgRight
    <3>2. IsFiniteSet(0 .. org.mem_size)
      BY <3>1, FS_Interval
    <3>3. lines \subseteq 0 .. org.mem_size
      BY <3>1 DEF CacheLine
    <3> QED BY <3>2, <3>3, FS_Subset
  <2>4. \A x, y \in lines : f[x] = f[y] => x = y
    <3> SUFFICES ASSUME NEW x \in lines, NEW y \in lines, f[x] = f[y] PROVE x = y
      OBVIOUS
    <3>1. PICK n \in 0 .. (org.mem_size \div CacheLine) - 1 : x = n * CacheLine
      OBVIOUS
    <3>2. PICK k \in 0 .. (org.mem_size \div CacheLine) - 1 : y = k * CacheLine
      OBVIOUS
    <3>3. calc_dram_addr(org, controller, mapping, g, n * CacheLine)
            = calc_dram_addr(org, controller, mapping, g, k * CacheLine)
      BY <3>1, <3>2
    <3>4. n = k
      BY <2>1, <2>2, <3>3, PlaceDetermines
    <3> QED BY <3>1, <3>2, <3>4
  <2>5. f \in [lines -> {f[x] : x \in lines}]
    OBVIOUS
  <2>6. Cardinality({f[x] : x \in lines}) = Cardinality(lines)
    <3> HIDE DEF lines, f
    <3> QED BY <2>3, <2>4, <2>5, AsManyValues
  <2>7. {f[x] : x \in lines} = { calc_dram_addr(org, controller, mapping, g, a) : a \in lines }
    OBVIOUS
  <2> QED BY <2>6, <2>7
<1> QED BY <1>1, LayoutInductive, PTL
=============================================================================
