------------------------------ MODULE GroupCommit ------------------------------
(***************************************************************************)
(* The group-commit ledger of one cell (crates/inf-log/src/commit.rs).     *)
(*                                                                         *)
(* The ledger is a value: a record `gc` whose fields carry the names of    *)
(* the struct's.  A method that returns nothing is an operator from ledger *)
(* to ledger, so that a handler that calls several of them in a row is     *)
(* their composition.                                                      *)
(*                                                                         *)
(* Data abstraction.  Frames have one length, so an LSN and its twin in    *)
(* ledger bytes (`covers_up_to`/`covers_bytes`, ...) are one number: how   *)
(* many frames lie below it.  0 stands for `None` and for the boot floor.  *)
(* Frame ids are consecutive ordinals and leave `queued` only at the       *)
(* front, so the frame at index i has id written_up_to + i, and `queued`   *)
(* keeps the written flags alone.  Tickets work the same way in `pending`. *)
(* Statistics, latency clocks and held file handles are left out.          *)
(*                                                                         *)
(* A release assertion of the code is a conjunct collected in `panic`:     *)
(* the model goes on with a panicking ledger and the property NoPanic says *)
(* that none is reachable.                                                 *)
(***************************************************************************)
EXTENDS Integers, Sequences, FiniteSets

CONSTANTS
    MAX_FRAMES_IN_FLIGHT,         \* the staging ring's upper bound
    REORDER_WINDOW_FRAMES,        \* frames behind the written prefix
    WRITE_THROUGH_WINDOW_ENTRIES, \* unfolded write-through tickets
    EXTENT_SEAL_WINDOW_ENTRIES,   \* unfolded extent barriers
    flush_bound                   \* FLUSH-class syncs in flight at once

ASSUME LedgerConstants ==
    /\ MAX_FRAMES_IN_FLIGHT \in Nat \ {0}
    /\ REORDER_WINDOW_FRAMES \in Nat \ {0}
    /\ WRITE_THROUGH_WINDOW_ENTRIES \in Nat \ {0}
    /\ EXTENT_SEAL_WINDOW_ENTRIES \in Nat \ {0}
    /\ flush_bound \in 1..2

FsyncClass == {"Always", "Everysec"}

SyncReason ==
    {"Linked", "Seal", "Standalone", "Completion", "BootBarrier",
     "PreallocBarrier", "ExtentSeal", "WriteThrough", "ZeroFill"}

PendingFsync ==
    [covers_up_to : Nat, reason : SyncReason, done : BOOLEAN, failed : BOOLEAN]

Ledger ==
    [sync_due : BOOLEAN,
     always_pending : BOOLEAN,
     always_unqueued : BOOLEAN,
     everysec_unqueued : BOOLEAN,
     always_queued_up_to : Nat,
     flush_in_flight : Int,
     write_through_pending : Int,
     queued : Seq(BOOLEAN),          \* written flags, from written_up_to + 1
     written_up_to : Nat,
     durable_up_to : Nat,
     pending : Seq(PendingFsync),
     next_ticket : Nat,              \* the last ticket minted
     extent_window : Int,            \* its length
     extent_unsent : Nat,
     panic : BOOLEAN]

new_ledger ==
    [sync_due |-> FALSE, always_pending |-> FALSE, always_unqueued |-> FALSE,
     everysec_unqueued |-> FALSE, always_queued_up_to |-> 0,
     flush_in_flight |-> 0, write_through_pending |-> 0, queued |-> <<>>,
     written_up_to |-> 0, durable_up_to |-> 0, pending |-> <<>>,
     next_ticket |-> 0, extent_window |-> 0, extent_unsent |-> 0,
     panic |-> FALSE]

\* How many leading elements of a sequence of flags are TRUE.
Leading(flags) ==
    CHOOSE n \in 0..Len(flags) :
        /\ \A i \in 1..n : flags[i]
        /\ n < Len(flags) => ~flags[n + 1]

\* A release assertion: a failing one marks the ledger.
Asserting(gc, claim) == [gc EXCEPT !.panic = @ \/ ~claim]

-----------------------------------------------------------------------------
\* What the LOG step asks the ledger.

queued_up_to(gc) == gc.written_up_to + Len(gc.queued)

drained(gc) == gc.queued = <<>>

frames_unwritten(gc) == Cardinality({i \in DOMAIN gc.queued : ~gc.queued[i]})

reorder_window_full(gc) == Len(gc.queued) >= REORDER_WINDOW_FRAMES

write_through_window_full(gc) ==
    gc.write_through_pending >= WRITE_THROUGH_WINDOW_ENTRIES

coverage_tail(gc) ==
    IF gc.pending = <<>> THEN gc.durable_up_to
    ELSE gc.pending[Len(gc.pending)].covers_up_to

write_through_due(gc) == gc.sync_due /\ coverage_tail(gc) = queued_up_to(gc)

\* Mutant: the seal sync of a rotation is not counted against the FLUSH bound.
frame_plan_seal_uncounted(gc, write_through_ok, seal_ahead) ==
    CASE reorder_window_full(gc) -> "Wait"
      [] ~reorder_window_full(gc) /\ ~gc.sync_due -> "Plain"
      [] OTHER ->
           IF /\ write_through_ok
              /\ seal_ahead \/ write_through_due(gc)
              /\ ~write_through_window_full(gc)
           THEN "WriteThrough"
           ELSE IF ~drained(gc) THEN "Wait"
           ELSE IF gc.flush_in_flight < flush_bound THEN "LinkedFsync"
           ELSE "Plain"

\* The barrier the next frame may carry.  seal_ahead: a rotation registers its
\* seal fdatasync, which takes a FLUSH slot, before the frame's own barrier.
frame_plan(gc, write_through_ok, seal_ahead) ==
    CASE reorder_window_full(gc) -> "Wait"
      [] ~reorder_window_full(gc) /\ ~gc.sync_due -> "Plain"
      [] OTHER ->
           IF /\ write_through_ok
              /\ seal_ahead \/ write_through_due(gc)
              /\ ~write_through_window_full(gc)
           THEN "WriteThrough"
           ELSE IF ~drained(gc) THEN "Wait"
           ELSE IF gc.flush_in_flight + (IF seal_ahead THEN 1 ELSE 0) < flush_bound
           THEN "LinkedFsync"
           ELSE "Plain"

\* Written bytes that neither the durable prefix nor a pending sync covers.
written_uncovered(gc) ==
    /\ gc.written_up_to > gc.durable_up_to
    /\ gc.pending # <<>> => coverage_tail(gc) < gc.written_up_to

standalone_fsync_due(gc) ==
    /\ gc.sync_due
    /\ gc.flush_in_flight < flush_bound
    /\ written_uncovered(gc)

\* Every owed `always` record sits in a written frame.
always_discharged_at_written(gc) ==
    gc.always_pending =>
        /\ ~gc.always_unqueued
        /\ gc.always_queued_up_to # 0
        /\ gc.always_queued_up_to <= gc.written_up_to

completion_fsync_due(gc) ==
    /\ gc.sync_due
    /\ flush_bound > 1
    /\ gc.flush_in_flight < flush_bound - 1
    /\ always_discharged_at_written(gc)
    /\ written_uncovered(gc)

\* Mutant: only barriers whose sync is issued hold a frame.
extent_barrier_pending_issued(gc) ==
    \E i \in 1..(Len(gc.pending) - gc.extent_unsent) :
        gc.pending[i].reason = "ExtentSeal" /\ ~gc.pending[i].done

extent_barrier_pending(gc) ==
    \E i \in DOMAIN gc.pending :
        gc.pending[i].reason = "ExtentSeal" /\ ~gc.pending[i].done

pending_fsyncs(gc) == Cardinality({i \in DOMAIN gc.pending : ~gc.pending[i].done})

\* Does an unfolded entry cover up to a point in lo..hi-1?
pending_covers_within(gc, lo, hi) ==
    \E i \in DOMAIN gc.pending : gc.pending[i].covers_up_to \in lo..(hi - 1)

-----------------------------------------------------------------------------
\* Inputs: a staged record, the everysec timer.

note_staged(gc, class) ==
    IF class = "Always"
    THEN [gc EXCEPT !.always_pending = TRUE, !.always_unqueued = TRUE,
                    !.sync_due = TRUE]
    ELSE [gc EXCEPT !.everysec_unqueued = TRUE]

\* Mutant: records in the builder do not count as work.
idle_but_staged(gc) == queued_up_to(gc) = gc.durable_up_to /\ ~gc.always_pending

idle(gc) ==
    /\ queued_up_to(gc) = gc.durable_up_to
    /\ ~gc.always_pending
    /\ ~gc.everysec_unqueued

note_everysec_tick(gc) == [gc EXCEPT !.sync_due = @ \/ ~idle(gc)]

-----------------------------------------------------------------------------
\* LOG-step registrations: submission order is ledger order.

push_pending(gc, covers_up_to, reason) ==
    [Asserting(gc, /\ gc.pending # <<>> => coverage_tail(gc) <= covers_up_to
                   /\ reason \in {"Linked", "Standalone", "Completion"} =>
                          gc.flush_in_flight < flush_bound
                   /\ reason = "WriteThrough" => ~write_through_window_full(gc))
     EXCEPT !.write_through_pending = IF reason = "WriteThrough" THEN @ + 1 ELSE @,
            !.flush_in_flight = IF reason = "WriteThrough" THEN @ ELSE @ + 1,
            !.next_ticket = @ + 1,
            !.pending = Append(@, [covers_up_to |-> covers_up_to, reason |-> reason,
                                   done |-> FALSE, failed |-> FALSE])]

register_boot_barrier(gc) ==
    push_pending(Asserting(gc, queued_up_to(gc) = 0 /\ gc.durable_up_to = 0),
                 0, "BootBarrier")

\* Mutant: the directory barrier registers at the watermark.
register_prealloc_barrier_at_watermark(gc) ==
    push_pending(gc, gc.durable_up_to, "PreallocBarrier")

\* The log-dir and zero-fill barriers promise no log bytes: they register at the
\* coverage tail.
register_prealloc_barrier(gc) ==
    push_pending(gc, coverage_tail(gc), "PreallocBarrier")

register_zero_fill_barrier(gc) ==
    push_pending(gc, coverage_tail(gc), "ZeroFill")

\* A window unit is reserved before the extent is made: the caller's guard is
\* extent_window_has_room.  A refused effect leaves the ledger as it was.
extent_window_has_room(gc) == gc.extent_window < EXTENT_SEAL_WINDOW_ENTRIES

register_extent(gc) ==
    push_pending([gc EXCEPT !.extent_window = @ + 1, !.extent_unsent = @ + 1],
                 coverage_tail(gc), "ExtentSeal")

issue_extent_syncs(gc) == [gc EXCEPT !.extent_unsent = 0]

register_seal_fsync(gc) ==
    push_pending(Asserting(gc, drained(gc)), queued_up_to(gc), "Seal")

note_frame_queued(gc) ==
    [Asserting(gc, /\ frames_unwritten(gc) < MAX_FRAMES_IN_FLIGHT
                   /\ ~reorder_window_full(gc))
     EXCEPT !.queued = Append(@, FALSE),
            !.always_queued_up_to =
                IF gc.always_unqueued THEN queued_up_to(gc) + 1 ELSE @,
            !.always_unqueued = FALSE,
            !.everysec_unqueued = FALSE]

discharge(gc) == [gc EXCEPT !.sync_due = FALSE, !.always_pending = FALSE]

register_linked_fsync(gc) ==
    push_pending(discharge(Asserting(gc, ~gc.always_unqueued /\ gc.queued = <<FALSE>>)),
                 queued_up_to(gc), "Linked")

\* The frame just queued must start where the ledger's coverage ends.
register_write_through(gc) ==
    push_pending(discharge(Asserting(gc, /\ ~gc.always_unqueued
                                         /\ coverage_tail(gc) = queued_up_to(gc) - 1)),
                 queued_up_to(gc), "WriteThrough")

\* A sync of the written prefix keeps the due alive for what lies beyond it: an
\* `always` record outside, a frame in flight, an everysec record in the builder.
settle_due_at_written(gc) ==
    LET always_owed == gc.always_pending /\ ~always_discharged_at_written(gc)
    IN  [gc EXCEPT !.always_pending = always_owed,
                   !.sync_due = \/ always_owed
                                \/ gc.written_up_to < queued_up_to(gc)
                                \/ gc.everysec_unqueued]

\* Mutant: the sync claims the frames still in flight as well.
register_standalone_fsync_at_queued(gc) ==
    push_pending(settle_due_at_written(gc), queued_up_to(gc), "Standalone")

register_standalone_fsync(gc) ==
    push_pending(settle_due_at_written(gc), gc.written_up_to, "Standalone")

register_completion_fsync(gc) ==
    push_pending(settle_due_at_written(gc), gc.written_up_to, "Completion")

-----------------------------------------------------------------------------
\* Completions.

\* Frame id's LogWritten: the written prefix advances over the leading frames.
note_frame_written(gc, id) ==
    LET i == id - gc.written_up_to
        marked == [gc.queued EXCEPT ![i] = TRUE]
        n == Leading(marked)
    IN  IF i \in DOMAIN gc.queued /\ ~gc.queued[i]
        THEN [gc EXCEPT !.queued = SubSeq(marked, n + 1, Len(marked)),
                        !.written_up_to = @ + n]
        ELSE Asserting(gc, FALSE)

\* The index of a ticket's entry: tickets are consecutive ordinals.
pending_index(gc, ticket) == ticket - (gc.next_ticket - Len(gc.pending))

\* The done entries at the head of the ledger, the only ones that become durable.
folded(pending) ==
    Leading([i \in DOMAIN pending |-> pending[i].done /\ ~pending[i].failed])

CountReason(pending, n, reason) ==
    Cardinality({i \in 1..n : pending[i].reason = reason})

\* Mutant: a folded barrier that promises no log bytes resets the watermark.
fold_done_barrier_resets(gc) ==
    LET n == folded(gc.pending)
    IN  [gc EXCEPT
            !.pending = SubSeq(@, n + 1, Len(@)),
            !.durable_up_to = IF n = 0 THEN @
                              ELSE IF gc.pending[n].reason = "PreallocBarrier" THEN 0
                              ELSE gc.pending[n].covers_up_to,
            !.write_through_pending = @ - CountReason(gc.pending, n, "WriteThrough"),
            !.extent_window = @ - CountReason(gc.pending, n, "ExtentSeal")]

\* The done prefix folds into the watermark, entry by entry.
fold_done(gc) ==
    LET n == folded(gc.pending)
    IN  [gc EXCEPT
            !.pending = SubSeq(@, n + 1, Len(@)),
            !.durable_up_to = IF n = 0 THEN @ ELSE gc.pending[n].covers_up_to,
            !.write_through_pending = @ - CountReason(gc.pending, n, "WriteThrough"),
            !.extent_window = @ - CountReason(gc.pending, n, "ExtentSeal")]

pending_live(gc, i) ==
    i \in DOMAIN gc.pending /\ ~gc.pending[i].done /\ ~gc.pending[i].failed

flush_slot_freed(gc, i) ==
    gc.flush_in_flight - (IF gc.pending[i].reason = "WriteThrough" THEN 0 ELSE 1)

on_fsync_complete(gc, ticket) ==
    LET i == pending_index(gc, ticket)
    IN  IF pending_live(gc, i)
        THEN fold_done([gc EXCEPT !.pending[i].done = TRUE,
                                  !.flush_in_flight = flush_slot_freed(gc, i)])
        ELSE Asserting(gc, FALSE)

on_fsync_error(gc, ticket) ==
    LET i == pending_index(gc, ticket)
    IN  IF pending_live(gc, i)
        THEN [gc EXCEPT !.pending[i].failed = TRUE,
                        !.flush_in_flight = flush_slot_freed(gc, i)]
        ELSE Asserting(gc, FALSE)

-----------------------------------------------------------------------------
\* The order of the ledger: what the pending syncs cover grows along the ledger,
\* from the watermark up to the last frame queued, and their tickets are the last
\* ones minted.
CoverageOrdered(gc) ==
    /\ \A i, j \in DOMAIN gc.pending :
           i <= j => gc.pending[i].covers_up_to <= gc.pending[j].covers_up_to
    /\ \A i \in DOMAIN gc.pending :
           /\ gc.durable_up_to <= gc.pending[i].covers_up_to
           /\ gc.pending[i].covers_up_to <= queued_up_to(gc)
    /\ gc.durable_up_to <= queued_up_to(gc)
    /\ Len(gc.pending) <= gc.next_ticket
================================================================================
