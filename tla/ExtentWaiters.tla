----------------------------- MODULE ExtentWaiters -----------------------------
(***************************************************************************)
(* The queue of blob writers behind the extent-seal window                 *)
(* (crates/inf-server/src/durable/extent_window.rs).  The queue is a       *)
(* record `q`; `len` is the ledger's extent_window_len.  The writers are   *)
(* interchangeable, so the wait list is its length, and a woken writer's   *)
(* turn is a unit of turns_out.                                            *)
(***************************************************************************)
EXTENDS Integers, FiniteSetsExt

CONSTANT ENTRIES    \* EXTENT_SEAL_WINDOW_ENTRIES

Queue == [open : BOOLEAN, parked : Nat, turns_out : Int, refused : BOOLEAN]

new_queue == [open |-> TRUE, parked |-> 0, turns_out |-> 0, refused |-> FALSE]

\* The arrival test of a writer without a turn.
admit(q, len) ==
    /\ q.open
    /\ q.parked = 0
    /\ q.turns_out = 0 \/ len + q.turns_out < ENTRIES

park(q) == [q EXCEPT !.parked = @ + 1]

close(q) == [q EXCEPT !.open = FALSE]

wake(q, n) == [q EXCEPT !.parked = @ - n, !.turns_out = @ + n]

\* Mutant: turns already out are not counted against the room.
hand_out_uncounted(q, len) ==
    wake([q EXCEPT !.open = TRUE], Min({Max({ENTRIES - len, 0}), q.parked}))

\* Mutant: a closed window stays closed.
hand_out_never_reopens(q, len) ==
    IF q.open THEN wake(q, Min({Max({ENTRIES - len - q.turns_out, 0}), q.parked}))
    ELSE q

hand_out(q, len) ==
    wake([q EXCEPT !.open = TRUE],
         Min({Max({ENTRIES - len - q.turns_out, 0}), q.parked}))

spend(q) == [q EXCEPT !.turns_out = @ - 1]

\* A turn that found the window full.
refuse_turn(q) == park([spend(q) EXCEPT !.refused = TRUE])

\* A writer that leaves: parked, or with its turn, which wakes the next one while
\* the window is open.
drop_parked(q) == [q EXCEPT !.parked = @ - 1]

drop_turn(q) ==
    wake(spend(q), IF q.open /\ q.parked > 0 THEN 1 ELSE 0)
================================================================================
