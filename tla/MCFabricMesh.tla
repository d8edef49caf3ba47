---------------------------- MODULE MCFabricMesh ----------------------------
(***************************************************************************)
(* Three cells.  What the drain cursor and the ring occupancies do from    *)
(* one iteration to the next is looked at, so iterations are taken one at  *)
(* a time.                                                                 *)
(***************************************************************************)
EXTENDS FabricMesh

Busy(c) ==
    \/ loop[c].pc \notin {"top", "parked"}
    \/ \E i \in DOMAIN buf[c] : buf[c][i].store # "head"

\* Bound: a cell begins an iteration when no other is in the middle of one; only the
\* consumer index of a drain may still be on its way.
CellsTakeTurns == Cardinality({c \in Cell : Busy(c)}) <= 1
=============================================================================
