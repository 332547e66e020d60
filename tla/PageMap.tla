------------------------------ MODULE PageMap ------------------------------
(***************************************************************************)
(* What the page table promises to the programs that run: a page in memory *)
(* is always found where it was put, no two pages in memory share a frame, *)
(* and no page leaves memory while a frame is free.                        *)
(*                                                                         *)
(* It does not promise that a thread notices that its page has left: while *)
(* memory is full the answer for such a page may be any frame.             *)
(***************************************************************************)
EXTENDS Integers

CONSTANTS Key, Frame

VARIABLES
  map,       \* map[k]: the frame of page k, for the pages in memory
  answer     \* the last translation given: a page and a frame, or <<>>

Used == {map[k] : k \in DOMAIN map}

Put(k, f, kept) ==
  map' = [x \in kept \cup {k} |-> IF x = k THEN f ELSE map[x]]

Found(k) ==
  /\ k \in DOMAIN map
  /\ answer' = <<k, map[k]>>
  /\ UNCHANGED map

Allocate(k, f) ==
  /\ k \notin DOMAIN map
  /\ f \notin Used
  /\ Put(k, f, DOMAIN map)
  /\ answer' = <<k, f>>

Replace(k, old) ==
  /\ k \notin DOMAIN map
  /\ Used = Frame
  /\ Put(k, map[old], DOMAIN map \ {old})
  /\ answer' = <<k, map[old]>>

Overdue(k, f) ==
  /\ k \notin DOMAIN map
  /\ Used = Frame
  /\ answer' = <<k, f>>
  /\ UNCHANGED map

Init == map = [k \in {} |-> 0] /\ answer = <<>>

Next == \E k \in Key :
          \/ Found(k)
          \/ \E f \in Frame : Allocate(k, f) \/ Overdue(k, f)
          \/ \E old \in DOMAIN map : Replace(k, old)

Spec == Init /\ [][Next]_<<map, answer>>
=============================================================================
