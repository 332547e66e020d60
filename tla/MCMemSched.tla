----------------------------- MODULE MCMemSched -----------------------------
(* Model checking of MemSched: one or two cores on a channel.              *)
EXTENDS MemSched

CONSTANT l1   \* a data line

Work(n, rs, ws) == [critical |-> n, reads |-> rs, writes |-> ws]

\* A walk that hits at once, one that reads a line of the tree, and one that
\* throws out a dirty line of the tree and reads its parent.
MCWalk == {Work(0, <<>>, <<>>), Work(1, <<>>, <<>>), Work(0, <<Meta>>, <<Meta>>)}

\* A walk in which a counter overflows, so that its line is read and written.
MCOverflow == {Work(0, <<>>, <<>>), Work(0, <<l1>>, <<l1>>)}
=============================================================================
