--------------------------- MODULE FreshCounters ---------------------------
(***************************************************************************)
(* What one line of encryption (or tree) counters owes its children,       *)
(* whatever the layout of the line: a child is encrypted under its         *)
(* effective counter, so a counter value may never be used twice.          *)
(*                                                                         *)
(* A write to a child encrypts that child anew, and may re-encrypt others. *)
(* Each of these moves to a later counter; every other child keeps its     *)
(* own, or what is stored for it could not be decrypted.                   *)
(*                                                                         *)
(* Effective counters are ordered first by the epoch of the line (its      *)
(* super counter), then by the value within the epoch.                     *)
(***************************************************************************)
EXTENDS Naturals

CONSTANT Child          \* what the line has counters for

VARIABLES epoch,        \* epoch of the line
          value,        \* value[c]: counter of child c within the epoch
          reencrypted   \* children re-encrypted by the last write

vars == <<epoch, value, reencrypted>>

Init ==
  /\ epoch = 0
  /\ value = [c \in Child |-> 0]
  /\ reencrypted = {}

\* Child c moves to a later effective counter in this step.
Advances(c) == \/ epoch' > epoch
               \/ epoch' = epoch /\ value'[c] > value[c]

\* Child c keeps its effective counter in this step.
Keeps(c) == epoch' = epoch /\ value'[c] = value[c]

Write(c) ==
  /\ \A d \in {c} \cup reencrypted' : Advances(d)
  /\ \A d \in Child \ ({c} \cup reencrypted') : Keeps(d)

Next == \E c \in Child : Write(c)

Spec == Init /\ [][Next]_vars
=============================================================================
