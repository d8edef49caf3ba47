----------------------------- MODULE SegmentRotor -----------------------------
(***************************************************************************)
(* The segment rotor of one cell (crates/inf-log/src/segment.rs), reactor  *)
(* tier: the active segment, the preallocated next one on its way to       *)
(* ready, the sealed ones and the recycle pool.  Like the ledger, the      *)
(* rotor is a record value and its methods are operators on it.            *)
(*                                                                         *)
(* Data abstraction.  A frame, a zero slice and the recycle sentinel each  *)
(* take one block, and a segment has SEGMENT_BLOCKS of them.  A frame is   *)
(* "small" or "large": only a small one is within fua_max_frame_bytes.     *)
(* The time seal and the blocking maintain() belong to the synchronous     *)
(* tier, which the server does not run, and are left out with their clock. *)
(***************************************************************************)
EXTENDS Integers, Sequences

CONSTANTS
    SEGMENT_BLOCKS,
    ZERO_FILL_HEAD_START,   \* blocks the fill may run ahead of the appends
    io_mode,                \* the configured mode
    recycle_slots,          \* 0: recycling off
    wait_bound              \* WaitForPool's bound in blocks; 0: policy Immediate

ASSUME RotorConstants ==
    /\ SEGMENT_BLOCKS \in Nat \ {0}
    /\ ZERO_FILL_HEAD_START \in Nat \ {0}
    /\ io_mode \in {"Buffered", "Direct"}
    /\ recycle_slots \in Nat
    /\ wait_bound \in 0..SEGMENT_BLOCKS

NextState == {"None", "Filling", "AwaitBarrier", "BarrierInFlight", "Ready"}

\* fill: -1 for zeros, else the old id the recycle sentinel is stamped for.
NextSegment ==
    [id : Nat, state : NextState, cursor : Nat, in_flight : 0..1,
     prezeroed : BOOLEAN, fill_origin : Nat, fill : Int]

NoNext == [id |-> 0, state |-> "None", cursor |-> 0, in_flight |-> 0,
           prezeroed |-> FALSE, fill_origin |-> 0, fill |-> -1]

Prealloc == [kind : {"Immediate", "WaitingForRecycle", "FreshFallback"},
             fill_origin : Nat]

Immediate == [kind |-> "Immediate", fill_origin |-> 0]

FreshFallback(origin) == [kind |-> "FreshFallback", fill_origin |-> origin]

Rotor ==
    [active : Nat, written : Nat, mode : {"Buffered", "Direct"},
     prezeroed : BOOLEAN, next : NextSegment,
     prealloc : Prealloc, sealed : Seq([id : Nat, prezeroed : BOOLEAN]),
     pool : Seq(Nat), space_exhausted : BOOLEAN, panic : BOOLEAN]

\* A rotor on segment id at cursor `written`: create_fresh_deferred for 0 and 0,
\* open_existing after recovery.  A packed tail reopens Buffered; a Direct file is
\* pre-zeroed only if the file says so.
open_rotor(id, written, mode, prezeroed) ==
    [active |-> id, written |-> written, mode |-> mode,
     prezeroed |-> mode = "Direct" /\ prezeroed,
     next |-> NoNext, prealloc |-> Immediate, sealed |-> <<>>, pool |-> <<>>,
     space_exhausted |-> FALSE, panic |-> FALSE]

recycling == recycle_slots > 0 /\ io_mode = "Direct"

-----------------------------------------------------------------------------
\* Zero fill of the next segment.

fill_allowed(active_written, fill_origin) ==
    2 * (active_written - fill_origin) + ZERO_FILL_HEAD_START

\* A slice can be taken now.  Only zeros for a write-through active segment are
\* paced: the one-block sentinel never is.
zero_fill_pending(r) ==
    /\ r.next.state = "Filling"
    /\ r.next.in_flight = 0
    /\ r.prezeroed /\ r.next.fill = -1 =>
           r.next.cursor < fill_allowed(r.written, r.next.fill_origin)

next_zero_slice(r) == [r EXCEPT !.next.in_flight = 1]

note_zero_slice_written(r) ==
    IF r.next.state = "Filling" /\ r.next.in_flight > 0
    THEN [r EXCEPT !.next.cursor = @ + 1,
                   !.next.in_flight = 0,
                   !.next.state = IF r.next.cursor + 1 = SEGMENT_BLOCKS
                                  THEN "AwaitBarrier" ELSE "Filling"]
    ELSE [r EXCEPT !.panic = TRUE]

take_zero_fill_barrier(r) == [r EXCEPT !.next.state = "BarrierInFlight"]

\* Mutant: the barrier's completion does not end the wait for it.
note_zero_fill_synced_still_waiting(r) == [r EXCEPT !.next.prezeroed = TRUE]

note_zero_fill_synced(r) ==
    IF r.next.state = "BarrierInFlight"
    THEN [r EXCEPT !.next.state = "Ready", !.next.prezeroed = TRUE]
    ELSE [r EXCEPT !.panic = TRUE]

-----------------------------------------------------------------------------
\* Rotation.

ready_prezeroed(r) == r.next.state = "Ready" /\ r.next.prezeroed

\* A pre-zeroed next segment is ready and the active one cannot write through.
upgrade_due(r) == io_mode = "Direct" /\ ~r.prezeroed /\ ready_prezeroed(r)

fits(r) == r.written + 1 <= SEGMENT_BLOCKS

rotation_due(r) == ~fits(r) \/ upgrade_due(r)

\* Asked of the segment the frame will land in.
next_frame_write_through_ok(r, frame_len) ==
    /\ frame_len = "small"
    /\ IF rotation_due(r)
       THEN io_mode = "Direct" /\ ready_prezeroed(r)
       ELSE r.mode = "Direct" /\ r.prezeroed

\* A fresh Direct file is sparse and is to be filled; `allocated` is what the
\* file says of itself.
next_state(id, allocated, fill_origin) ==
    [id |-> id, cursor |-> 0, in_flight |-> 0, fill_origin |-> fill_origin,
     fill |-> -1,
     state |-> IF io_mode = "Buffered" \/ allocated THEN "Ready" ELSE "Filling",
     prezeroed |-> io_mode = "Direct" /\ allocated]

\* Mutant: a slice in flight does not hold the rotation.
next_not_ready_slice_ignored(r) == r.next.state = "BarrierInFlight"

\* A zero-fill operation is in flight on the segment the rotation needs.
next_not_ready(r) ==
    \/ r.next.state = "BarrierInFlight"
    \/ r.next.state = "Filling" /\ r.next.in_flight > 0

\* The swap onto `next`; a segment still filling is taken un-zeroed.
rotate_onto(r, next) ==
    [r EXCEPT !.active = next.id, !.written = 0, !.mode = io_mode,
              !.prezeroed = next.state = "Ready" /\ next.prezeroed,
              !.next = NoNext,
              !.sealed = Append(@, [id |-> r.active, prezeroed |-> r.prezeroed]),
              !.prealloc = Immediate]

\* With no next segment the rotation preallocates inline (a fresh file, its
\* directory entry synced before the call returns).
rotate_deferred(r) ==
    rotate_onto(r, IF r.next = NoNext THEN next_state(r.active + 1, FALSE, 0)
                   ELSE r.next)

commit_frame_queued(r) == [r EXCEPT !.written = @ + 1]

-----------------------------------------------------------------------------
\* MAINTAIN: where the next segment comes from, when there is none.

\* Only a wait that a sealed pre-zeroed segment can satisfy is started.
wait_eligible(r) ==
    /\ recycling
    /\ r.prezeroed
    /\ \E i \in DOMAIN r.sealed : r.sealed[i].prezeroed
    /\ r.pool = <<>>
    /\ r.written < wait_bound

wait_expired(r) == r.written >= wait_bound

waiting(r) == r.prealloc.kind = "WaitingForRecycle"

\* The answer of prealloc_source: the rotor after the decision, and the source,
\* "Wait", "Fresh" or "Recycled" with the pooled file's old id.
Source(r, source, old) == [rotor |-> r, source |-> source, old |-> old]

\* The fresh path owns this generation from where its wait ran to.
fall_back(r) ==
    [r EXCEPT !.prealloc = CASE waiting(r) -> FreshFallback(r.written)
                             [] @.kind = "Immediate" -> FreshFallback(0)
                             [] OTHER -> @]

\* take_ok: the pooled file opened and was renamed.
prealloc_source(r, take_ok) ==
    LET popped == [r EXCEPT !.pool = Tail(@)]
    IN  IF recycling /\ r.pool # <<>>
        THEN IF take_ok
             THEN Source([popped EXCEPT !.prealloc = IF waiting(r) THEN Immediate ELSE @],
                         "Recycled", Head(r.pool))
             ELSE Source(fall_back(popped), "Fresh", -1)
        ELSE IF waiting(r) /\ ~wait_expired(r)
             THEN Source(r, "Wait", -1)
        ELSE IF r.prealloc.kind = "Immediate" /\ wait_eligible(r)
             THEN Source([r EXCEPT !.prealloc.kind = "WaitingForRecycle"], "Wait", -1)
        ELSE Source(fall_back(r), "Fresh", -1)

\* A recycled file that reads fully allocated gets its one-block sentinel as a
\* fill; one that does not is filled like a fresh file.
sourced_next(s, allocated) ==
    LET origin == IF s.rotor.prealloc.kind = "FreshFallback"
                  THEN s.rotor.prealloc.fill_origin ELSE 0
        next == next_state(s.rotor.active + 1, allocated, origin)
    IN  IF s.source = "Recycled" /\ allocated
        THEN [next EXCEPT !.state = "Filling", !.cursor = SEGMENT_BLOCKS - 1,
                          !.fill = s.old]
        ELSE next

maintain_ok(s, allocated) ==
    [s.rotor EXCEPT !.next = sourced_next(s, allocated), !.space_exhausted = FALSE]

maintain_no_space(s) == [s.rotor EXCEPT !.space_exhausted = TRUE]

-----------------------------------------------------------------------------
\* Truncation forgets the oldest sealed segment: pooled for reuse, or the
\* caller's to unlink.

pools(r, meta) == recycling /\ meta.prezeroed /\ Len(r.pool) < recycle_slots

forget_sealed(r) ==
    [r EXCEPT !.sealed = Tail(@),
              !.pool = IF pools(r, Head(r.sealed)) THEN Append(@, Head(r.sealed).id)
                       ELSE @]
===============================================================================
