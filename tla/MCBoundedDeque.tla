--------------------------- MODULE MCBoundedDeque ---------------------------
(***************************************************************************)
(* Small instances of BoundedDeque for TLC.                                *)
(***************************************************************************)
EXTENDS BoundedDeque

Item(c, p) == [cost |-> c, prio |-> p]

\* Two priorities with two sizes each, an item that fills the byte budget alone
\* and one that exceeds it.
SmallItems == {Item(c, p) : c \in {1, 2}, p \in {1, 2}} \cup {Item(5, 3), Item(6, 3)}
=============================================================================
