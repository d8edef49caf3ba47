------------------------------ MODULE DurableCell ------------------------------
(***************************************************************************)
(* One cell's durable plane (crates/inf-server/src/durable.rs) over a      *)
(* device that may complete writes and syncs in any order.                 *)
(*                                                                         *)
(* The cell's handlers are the actions.  The reactor calls them one after  *)
(* another on one thread, REAP before MAINTAIN before LOG; the model lets  *)
(* them run in any order, of which the loop's order is one.  The pacing,   *)
(* fill and group holds of the LOG step are clocks that only postpone it:  *)
(* here SealLog is simply not taken yet.                                   *)
(*                                                                         *)
(* The device.  `stable` holds what survives a power cut now: written      *)
(* frames an fdatasync of their own file covered, write-through frames     *)
(* that completed, directory entries, file allocations, blob extents.  A   *)
(* sync vouches for what was written when it was issued.  Everything else  *)
(* may or may not survive, so a property of `stable` in every state is a   *)
(* property of every crash.                                                *)
(***************************************************************************)
EXTENDS GroupCommit, SegmentRotor, FiniteSetsExt

CONSTANTS
    frames_in_flight,    \* K: frames the staging ring holds in flight
    STAGING_RECORDS,     \* records that fit a builder
    FrameLens,           \* subset of {"small", "large"}
    Classes,             \* classes of the cell's namespaces, subset of FsyncClass
    SpaceOutcomes,       \* subset of BOOLEAN: may creating a segment succeed, fail
    Faults,              \* BOOLEAN: do device errors happen
    BlobWriters,         \* bound: blob writers queued or with a turn
    MaxSeq               \* bound: records staged

ASSUME CellConstants ==
    /\ frames_in_flight \in 1..MAX_FRAMES_IN_FLIGHT
    /\ STAGING_RECORDS \in Nat \ {0}
    /\ FrameLens \subseteq {"small", "large"}
    /\ Classes \subseteq FsyncClass
    /\ SpaceOutcomes \subseteq BOOLEAN
    /\ Faults \in BOOLEAN
    /\ BlobWriters \in Nat
    /\ MaxSeq \in Nat

W == INSTANCE ExtentWaiters WITH ENTRIES <- EXTENT_SEAL_WINDOW_ENTRIES

VARIABLES
    gc,                \* commit: the ledger
    rotor,
    waiters,           \* extent_waiters
    builder,           \* the staging builder: records, extents they reference
    last_seq,          \* last durable seq handed out
    acked_seq,         \* the ack gate's watermark
    frame_seqs,        \* ack map: frame end -> last seq it carries
    in_flight,         \* frames whose LogWritten is awaited
    zero_fill_ticket,  \* 0: none
    failed,            \* fail_stop: the process has exited
    frames,            \* history: every frame queued
    promised,          \* history: last seq an `always` record or a tick covers
    syncs,             \* device: fdatasyncs in flight
    fill_write,        \* device: segment a zero slice is being written to, or -1
    stable             \* device: what survives a power cut

cell == <<gc, rotor, waiters, builder, last_seq, acked_seq, frame_seqs,
          in_flight, zero_fill_ticket, failed>>
device == <<syncs, fill_write, stable>>
vars == <<cell, frames, promised, device>>

Frame == [seg : Nat, seq : Nat, covered : Nat, exts : SUBSET Nat]

\* What a sync or a write-through makes stable: a frame, a write-through frame, a
\* segment's directory entry, a segment's allocation, a blob's extent.
Object == {"frame", "fua", "dir", "alloc", "ext"} \X Nat

\* An fdatasync in flight: what it makes stable, and the frame it is chained to (0: none).
Sync == [ticket : Nat, after : Nat, objs : SUBSET Object]

NoRecords == [records |-> 0, exts |-> {}]

-----------------------------------------------------------------------------
\* The device.

WrittenFrames(g) ==
    1..g.written_up_to \cup
    {g.written_up_to + i : i \in {j \in DOMAIN g.queued : g.queued[j]}}

FramesOf(fs, seg) == {n \in DOMAIN fs : fs[n].seg = seg}

\* An fdatasync of segment seg's file, issued now.
SyncOf(g, fs, ticket, seg) ==
    [ticket |-> ticket, after |-> 0,
     objs |-> {<<"frame", n>> : n \in FramesOf(fs, seg) \cap WrittenFrames(g)}]

SyncOn(ticket, obj) == [ticket |-> ticket, after |-> 0, objs |-> {obj}]

\* The fdatasync chained to frame n's write starts when that write is done.
LinkedSync(g, fs, ticket, n) ==
    [SyncOf(g, fs, ticket, fs[n].seg) EXCEPT !.objs = @ \cup {<<"frame", n>>},
                                             !.after = n]

\* Frame n's segment was truncated: the checkpoint has its records.
Truncated(n) ==
    frames[n].seg \notin {rotor.active} \cup {rotor.sealed[i].id : i \in DOMAIN rotor.sealed}

\* What frame n carries is readable after a power cut now: its file is in the log
\* directory and its bytes are on the medium, by an fdatasync, or by a write-through
\* into blocks whose allocation is committed.
Survives(n) ==
    \/ Truncated(n)
    \/ /\ <<"dir", frames[n].seg>> \in stable
       /\ \/ <<"frame", n>> \in stable
          \/ <<"fua", n>> \in stable /\ <<"alloc", frames[n].seg>> \in stable

-----------------------------------------------------------------------------
\* A fresh cell, or one recovery reopened on an existing segment: the boot
\* barriers are armed, ahead of everything.

BootBarriers(fresh) ==
    IF fresh THEN register_boot_barrier(register_boot_barrier(new_ledger))
    ELSE register_boot_barrier(new_ledger)

Init ==
    /\ \E fresh \in BOOLEAN, mode \in {io_mode, "Buffered"}, zeroed \in BOOLEAN :
        /\ fresh => mode = io_mode /\ ~zeroed
        /\ rotor = open_rotor(0, IF fresh THEN 0 ELSE SEGMENT_BLOCKS - 1, mode, zeroed)
        /\ gc = BootBarriers(fresh)
        /\ stable = IF fresh THEN {}
                    ELSE {<<"dir", 0>>} \cup (IF rotor.prezeroed THEN {<<"alloc", 0>>} ELSE {})
        /\ syncs = IF fresh THEN {SyncOn(1, <<"dir", 0>>), SyncOf(gc, <<>>, 2, 0)}
                   ELSE {SyncOf(gc, <<>>, 1, 0)}
    /\ waiters = W!new_queue
    /\ builder = NoRecords
    /\ last_seq = 0
    /\ acked_seq = 0
    /\ frame_seqs = {}
    /\ in_flight = {}
    /\ zero_fill_ticket = 0
    /\ failed = FALSE
    /\ frames = <<>>
    /\ promised = 0
    /\ fill_write = -1

-----------------------------------------------------------------------------
\* EXECUTE: a write stages one record.

\* Admission: the builder has room and the log device has space.
would_fit == builder.records < STAGING_RECORDS

CanStage == ~failed /\ would_fit /\ ~rotor.space_exhausted /\ last_seq < MaxSeq

StageRecord(g, class, exts) ==
    /\ gc' = note_staged(g, class)
    /\ builder' = [records |-> builder.records + 1, exts |-> builder.exts \cup exts]
    /\ last_seq' = last_seq + 1
    /\ promised' = IF class = "Always" THEN last_seq + 1 ELSE promised
    /\ UNCHANGED <<rotor, acked_seq, frame_seqs, in_flight, zero_fill_ticket,
                   failed, frames, device>>

stage(class) ==
    /\ CanStage
    /\ StageRecord(gc, class, {})
    /\ UNCHANGED waiters

\* The extent of a blob write is named by its barrier's ticket.
RegisterAndStage(class) ==
    /\ StageRecord(register_extent(gc), class, {gc.next_ticket + 1})

\* A writer without a turn passes the arrival test and finds a unit, or parks.
write_blob_arrival(class) ==
    /\ CanStage
    /\ waiters.parked + waiters.turns_out < BlobWriters
    /\ \/ /\ W!admit(waiters, gc.extent_window)
          /\ extent_window_has_room(gc)
          /\ RegisterAndStage(class)
          /\ UNCHANGED waiters
       \/ /\ ~(W!admit(waiters, gc.extent_window) /\ extent_window_has_room(gc))
          /\ waiters' = W!park(waiters)
          /\ UNCHANGED <<gc, rotor, builder, last_seq, acked_seq, frame_seqs,
                         in_flight, zero_fill_ticket, failed, frames, promised, device>>

\* A woken writer spends its turn; a full window would park it again.
write_blob_turn(class) ==
    /\ CanStage
    /\ waiters.turns_out > 0
    /\ \/ /\ extent_window_has_room(gc)
          /\ RegisterAndStage(class)
          /\ waiters' = W!spend(waiters)
       \/ /\ ~extent_window_has_room(gc)
          /\ waiters' = W!refuse_turn(waiters)
          /\ UNCHANGED <<gc, rotor, builder, last_seq, acked_seq, frame_seqs,
                         in_flight, zero_fill_ticket, failed, frames, promised, device>>

\* A writer leaves: its connection closed, or its extent was refused.
drop_turn ==
    /\ ~failed
    /\ \/ waiters.parked > 0 /\ waiters' = W!drop_parked(waiters)
       \/ waiters.turns_out > 0 /\ waiters' = W!drop_turn(waiters)
    /\ UNCHANGED <<gc, rotor, builder, last_seq, acked_seq, frame_seqs, in_flight,
                   zero_fill_ticket, failed, frames, promised, device>>

-----------------------------------------------------------------------------
\* Timers and MAINTAIN.

\* The everysec tick, and the stop drain's request_final_sync.
on_everysec_tick ==
    /\ ~failed
    /\ gc' = note_everysec_tick(gc)
    /\ promised' = last_seq
    /\ UNCHANGED <<rotor, waiters, builder, last_seq, acked_seq, frame_seqs,
                   in_flight, zero_fill_ticket, failed, frames, device>>

\* The tickets of the window's barriers whose fdatasync is not issued yet.
UnsentExtents(g) ==
    LET window == {g.next_ticket - Len(g.pending) + i :
                     i \in {j \in DOMAIN g.pending : g.pending[j].reason = "ExtentSeal"}}
    IN  {t \in window : Cardinality({u \in window : u > t}) < g.extent_unsent}

tier_maintain ==
    /\ ~failed
    /\ gc.extent_unsent > 0
    /\ gc' = issue_extent_syncs(gc)
    /\ syncs' = syncs \cup {SyncOn(t, <<"ext", t>>) : t \in UnsentExtents(gc)}
    /\ UNCHANGED <<rotor, waiters, builder, last_seq, acked_seq, frame_seqs, in_flight,
                   zero_fill_ticket, failed, frames, promised, fill_write, stable>>

\* MAINTAIN keeps a next segment preallocated, its directory entry synced through
\* the ledger, and fills it.  created: a fresh file could be created; taken: what
\* became of a pooled file; issue: the cell wants write-through and the device
\* budget grants a slice.
PoolTake == {"allocated", "sparse", "failed"}

maintain(created, taken, issue) ==
    /\ ~failed
    /\ LET s == prealloc_source(rotor, taken # "failed")
           sourced == rotor.next = NoNext /\ s.source # "Wait"
           named == sourced /\ (created \/ s.source = "Recycled")
           r1 == CASE rotor.next # NoNext -> rotor
                   [] named -> maintain_ok(s, s.source = "Recycled" /\ taken = "allocated")
                   [] sourced /\ ~named -> maintain_no_space(s)
                   [] OTHER -> s.rotor
           g1 == IF named THEN register_prealloc_barrier(gc) ELSE gc
           slice == issue /\ zero_fill_pending(r1)
           r2 == IF slice THEN next_zero_slice(r1) ELSE r1
           barrier == zero_fill_ticket = 0 /\ r2.next.state = "AwaitBarrier"
           g2 == IF barrier THEN register_zero_fill_barrier(g1) ELSE g1
       IN  /\ gc' = g2
           /\ rotor' = IF barrier THEN take_zero_fill_barrier(r2) ELSE r2
           /\ zero_fill_ticket' = IF barrier THEN g2.next_ticket ELSE zero_fill_ticket
           /\ fill_write' = IF slice THEN r2.next.id ELSE fill_write
           /\ syncs' = syncs
                \cup (IF named
                      THEN {SyncOn(g1.next_ticket, <<"dir", r1.next.id>>)} ELSE {})
                \cup (IF barrier
                      THEN {SyncOn(g2.next_ticket, <<"alloc", r2.next.id>>)} ELSE {})
    /\ UNCHANGED <<waiters, builder, last_seq, acked_seq, frame_seqs, in_flight,
                   failed, frames, promised, stable>>

\* MAINTAIN truncates below the floor of the committed MANIFEST.  The floor is the
\* segment of a begin marker the watermark has passed; whether a checkpoint was
\* taken there is open.
truncate ==
    /\ ~failed
    /\ rotor.sealed # <<>>
    /\ gc.durable_up_to > 0
    /\ Head(rotor.sealed).id < frames[gc.durable_up_to].seg
    /\ rotor' = forget_sealed(rotor)
    /\ UNCHANGED <<gc, waiters, builder, last_seq, acked_seq, frame_seqs, in_flight,
                   zero_fill_ticket, failed, frames, promised, device>>

on_zero_fill_written ==
    /\ ~failed
    /\ fill_write # -1
    /\ rotor' = note_zero_slice_written(rotor)
    /\ fill_write' = -1
    /\ UNCHANGED <<gc, waiters, builder, last_seq, acked_seq, frame_seqs, in_flight,
                   zero_fill_ticket, failed, frames, promised, syncs, stable>>

-----------------------------------------------------------------------------
\* LOG: seal one frame with the barrier the plan allows.

can_seal == builder.records > 0 /\ Cardinality(in_flight) < frames_in_flight

\* The barrier of frame n, the one just queued.
register_barrier(g, plan) ==
    CASE plan = "WriteThrough" -> register_write_through(g)
      [] plan = "LinkedFsync" -> register_linked_fsync(g)
      [] plan = "Plain" -> g

\* rotor and ledger after begin_frame_deferred: the old segment's seal fdatasync
\* takes the ledger's next place.  The slot must agree with the plan.
begin_frame(wt_ok, len) ==
    LET rotate == rotation_due(rotor)
        r == IF rotate THEN rotate_deferred(rotor) ELSE rotor
        g == Asserting(gc, wt_ok = (len = "small" /\ r.mode = "Direct" /\ r.prezeroed))
    IN  [rotor |-> r, gc |-> IF rotate THEN register_seal_fsync(g) ELSE g]

\* The frame may be sealed now: no extent barrier holds it, a rotation finds the
\* pipeline drained and its segment free, and the plan is not to wait.
seal_ready(len) ==
    /\ ~extent_barrier_pending(gc)
    /\ rotation_due(rotor) => in_flight = {} /\ ~next_not_ready(rotor)
    /\ frame_plan(gc, next_frame_write_through_ok(rotor, len), rotation_due(rotor)) # "Wait"
    /\ ~fits(rotor) /\ rotor.next = NoNext => TRUE \in SpaceOutcomes

seal_frame(len) ==
    /\ ~failed
    /\ can_seal
    /\ seal_ready(len)
    /\ LET rotate == rotation_due(rotor)
           inline == rotate /\ rotor.next = NoNext
           wt_ok == next_frame_write_through_ok(rotor, len)
           plan == frame_plan(gc, wt_ok, rotate)
           begun == begin_frame(wt_ok, len)
           n == Len(frames) + 1
           fs == Append(frames, [seg |-> begun.rotor.active, seq |-> last_seq,
                                 covered |-> gc.durable_up_to, exts |-> builder.exts])
           queued == note_frame_queued(begun.gc)
           g == register_barrier(queued, plan)
       IN  /\ gc' = g
           /\ rotor' = commit_frame_queued(begun.rotor)
           /\ frames' = fs
           /\ frame_seqs' = frame_seqs \cup {[end |-> n, seq |-> last_seq]}
           /\ in_flight' = in_flight \cup
                {[id |-> n, ticket |-> IF plan = "WriteThrough" THEN g.next_ticket ELSE 0]}
           /\ syncs' = syncs
                \cup (IF rotate
                      THEN {SyncOf(gc, frames, begun.gc.next_ticket, rotor.active)} ELSE {})
                \cup (IF plan = "LinkedFsync"
                      THEN {LinkedSync(gc, fs, g.next_ticket, n)} ELSE {})
           /\ stable' = IF inline THEN stable \cup {<<"dir", begun.rotor.active>>} ELSE stable
           /\ waiters' = W!hand_out(waiters, g.extent_window)
    /\ builder' = NoRecords
    /\ UNCHANGED <<last_seq, acked_seq, zero_fill_ticket, failed, promised, fill_write>>

\* An extent barrier holds the frame and closes the extent-seal window.
extent_hold ==
    /\ ~failed
    /\ can_seal
    /\ extent_barrier_pending(gc)
    /\ waiters' = W!close(waiters)
    /\ UNCHANGED <<gc, rotor, builder, last_seq, acked_seq, frame_seqs, in_flight,
                   zero_fill_ticket, failed, frames, promised, device>>

\* The inline prealloc finds no space.  The frame waits if MAINTAIN saw that first;
\* otherwise the cell fail-stops.
reserve_no_space ==
    /\ ~failed
    /\ can_seal
    /\ ~extent_barrier_pending(gc)
    /\ FALSE \in SpaceOutcomes
    /\ ~fits(rotor) /\ rotor.next = NoNext /\ in_flight = {}
    /\ frame_plan(gc, FALSE, TRUE) # "Wait"
    /\ ~rotor.space_exhausted
    /\ failed' = TRUE
    /\ UNCHANGED <<gc, rotor, waiters, builder, last_seq, acked_seq, frame_seqs, in_flight,
                   zero_fill_ticket, frames, promised, device>>

\* No frame to seal: the window's units are handed out if nothing is staged, and
\* a sync that is due goes out alone, unless the group hold keeps it.
seal_nothing(held) ==
    /\ ~failed
    /\ ~can_seal
    /\ waiters' = IF builder.records = 0 THEN W!hand_out(waiters, gc.extent_window)
                  ELSE waiters
    /\ IF standalone_fsync_due(gc) /\ ~held
       THEN LET g == register_standalone_fsync(gc)
            IN  gc' = g /\ syncs' = syncs \cup
                            {SyncOf(gc, frames, g.next_ticket, rotor.active)}
       ELSE UNCHANGED <<gc, syncs>>
    /\ UNCHANGED <<rotor, builder, last_seq, acked_seq, frame_seqs, in_flight,
                   zero_fill_ticket, failed, frames, promised, fill_write, stable>>

seal_log == (\E len \in FrameLens : seal_frame(len)) \/ extent_hold \/ reserve_no_space
            \/ \E held \in BOOLEAN : seal_nothing(held)

-----------------------------------------------------------------------------
\* REAP: completions.

\* Mutant: coalescing asks only whether the successor is written.
coalesce_ack_map_unpinned(map, g) ==
    {a \in map :
        LET later == {b.end : b \in {c \in map : c.end > a.end}}
        IN  later = {} \/ Min(later) > g.written_up_to}

\* The ack map keeps entry a unless its successor b is written and no unfolded
\* ledger entry covers up to a point between them.
coalesce_ack_map(map, g) ==
    {a \in map :
        LET later == {b.end : b \in {c \in map : c.end > a.end}}
        IN  \/ later = {}
            \/ Min(later) > g.written_up_to
            \/ pending_covers_within(g, a.end, Min(later))}

ack_map_bounded(map, g) == Cardinality(map) <= Len(g.queued) + Len(g.pending) + 1

\* A sync is done: the done prefix moves the watermark, the watermark the acks;
\* a deferred sync may go out at once.  g and map: the ledger and the ack map the
\* completion finds, rest: the syncs still in flight.
on_synced(g, map, ticket, rest) ==
    LET g1 == on_fsync_complete(g, ticket)
        covered == {e \in map : e.end <= g1.durable_up_to}
        advanced == g1.durable_up_to # g.durable_up_to
        g2 == IF completion_fsync_due(g1) THEN register_completion_fsync(g1) ELSE g1
    IN  /\ gc' = g2
        /\ frame_seqs' = IF advanced THEN map \ covered ELSE map
        /\ acked_seq' = IF advanced /\ covered # {}
                        THEN Max({e.seq : e \in covered}) ELSE acked_seq
        /\ syncs' = IF completion_fsync_due(g1)
                    THEN rest \cup {SyncOf(g1, frames, g2.next_ticket, rotor.active)}
                    ELSE rest
        /\ IF zero_fill_ticket = ticket
           THEN zero_fill_ticket' = 0 /\ rotor' = note_zero_fill_synced(rotor)
           ELSE UNCHANGED <<zero_fill_ticket, rotor>>

\* Frame f's write is done; a write-through frame's completion is its barrier's.
on_log_written(f) ==
    LET g == note_frame_written(gc, f.id)
        map == coalesce_ack_map(frame_seqs, g)
        g1 == Asserting(g, ack_map_bounded(map, g))
    IN  /\ ~failed
        /\ in_flight' = in_flight \ {f}
        /\ IF f.ticket # 0
           THEN /\ on_synced(g1, map, f.ticket, syncs)
                /\ stable' = stable \cup {<<"fua", f.id>>}
           ELSE /\ gc' = g1
                /\ frame_seqs' = map
                /\ UNCHANGED <<acked_seq, syncs, zero_fill_ticket, rotor, stable>>
        /\ UNCHANGED <<waiters, builder, last_seq, failed, frames, promised, fill_write>>

\* An fdatasync is done; a chained one only after its write.
on_fdatasync(s) ==
    /\ ~failed
    /\ \A f \in in_flight : f.id # s.after
    /\ on_synced(gc, frame_seqs, s.ticket, syncs \ {s})
    /\ stable' = stable \cup s.objs
    /\ UNCHANGED <<waiters, builder, last_seq, in_flight, failed, frames, promised,
                   fill_write>>

\* A write or a sync fails: the cell fail-stops.
on_log_error ==
    /\ Faults
    /\ ~failed
    /\ \/ in_flight # {} /\ gc' = gc
       \/ \E s \in syncs : gc' = on_fsync_error(gc, s.ticket)
    /\ failed' = TRUE
    /\ UNCHANGED <<rotor, waiters, builder, last_seq, acked_seq, frame_seqs, in_flight,
                   zero_fill_ticket, frames, promised, device>>

-----------------------------------------------------------------------------
Execute ==
    \/ \E class \in Classes :
           \/ stage(class)
           \/ write_blob_arrival(class)
           \/ write_blob_turn(class)
    \/ drop_turn

Reap ==
    \/ \E f \in in_flight : on_log_written(f)
    \/ \E s \in syncs : on_fdatasync(s)
    \/ on_zero_fill_written

Maintain ==
    \/ \E created \in SpaceOutcomes, taken \in PoolTake, issue \in BOOLEAN :
           maintain(created, taken, issue)
    \/ truncate
    \/ tier_maintain

Next == Execute \/ on_everysec_tick \/ Maintain \/ seal_log \/ Reap \/ on_log_error

ReapDue == ~failed /\ (in_flight # {} \/ syncs # {} \/ fill_write # -1)

MaintainDue ==
    /\ ~failed
    /\ \/ rotor.next = NoNext /\ prealloc_source(rotor, TRUE) # Source(rotor, "Wait", -1)
       \/ zero_fill_pending(rotor)
       \/ rotor.next.state = "AwaitBarrier" /\ zero_fill_ticket = 0

SealDue ==
    /\ ~failed
    /\ IF can_seal
       THEN IF extent_barrier_pending(gc) THEN waiters.open
            ELSE \E len \in FrameLens : seal_ready(len)
       ELSE \/ standalone_fsync_due(gc)
            \/ builder.records = 0 /\ W!hand_out(waiters, gc.extent_window) # waiters

\* The loop runs MAINTAIN and LOG in every iteration and the holds of the LOG step
\* are bounded windows; the device answers every operation it was given.
MaintainFully ==
    \E created \in SpaceOutcomes, taken \in PoolTake : maintain(created, taken, TRUE)

SealUnheld == (\E len \in FrameLens : seal_frame(len)) \/ extent_hold \/ seal_nothing(FALSE)

\* Weak fairness, with each enabling condition spelled out.
Fairness ==
    /\ <>[]ReapDue => []<><<Reap>>_vars
    /\ <>[]MaintainDue => []<><<MaintainFully>>_vars
    /\ <>[](~failed /\ gc.extent_unsent > 0) => []<><<tier_maintain>>_vars
    /\ <>[]SealDue => []<><<SealUnheld>>_vars

Spec == Init /\ [][Next]_vars

FairSpec == Spec /\ Fairness

-----------------------------------------------------------------------------
\* Every field of the durable cell and of its device keeps its type.
TypeOK ==
    /\ gc \in Ledger
    /\ rotor \in Rotor
    /\ waiters \in W!Queue
    /\ builder \in [records : 0..STAGING_RECORDS, exts : SUBSET Nat]
    /\ last_seq \in 0..MaxSeq
    /\ acked_seq \in 0..MaxSeq
    /\ frame_seqs \subseteq [end : Nat, seq : 0..MaxSeq]
    /\ in_flight \subseteq [id : Nat, ticket : Nat]
    /\ zero_fill_ticket \in Nat
    /\ failed \in BOOLEAN
    /\ frames \in Seq(Frame)
    /\ promised \in 0..MaxSeq
    /\ syncs \subseteq Sync
    /\ fill_write \in Nat \cup {-1}
    /\ stable \subseteq Object

\* No release assertion of the ledger, the rotor or the LOG step is reachable,
\* whatever the order of completions.
NoPanic == ~gc.panic /\ ~rotor.panic

\* The watermark is honest: every frame below durable_up_to, and every extent it
\* references, survives a power cut now.  Recovery's covered-LSN attestation and
\* every ack are drawn from this watermark.
WatermarkHonest ==
    \A n \in 1..gc.durable_up_to :
        Survives(n) /\ \A e \in frames[n].exts : <<"ext", e>> \in stable

\* The ack gate stands exactly at the watermark: the ack map's coalescing neither
\* acknowledges a record its frame's barrier does not cover, nor holds back one it
\* does.
AckExact ==
    acked_seq = IF gc.durable_up_to = 0 THEN 0 ELSE frames[gc.durable_up_to].seq

\* A frame handed to the device may become durable at once, so every extent it
\* references is durable before.
ExtentBeforeRecord ==
    \A n \in DOMAIN frames : \A e \in frames[n].exts : <<"ext", e>> \in stable

\* The ledger is in order: no pending sync covers less than the one before it, less
\* than the watermark, or frames that are not queued.
CoverageInOrder == CoverageOrdered(gc)

\* A zero slice in flight never targets the segment frames are written to, and
\* goes to the segment the rotor is filling.
NoSliceOverFrames ==
    fill_write # -1 => /\ fill_write # rotor.active
                       /\ fill_write = rotor.next.id /\ rotor.next.in_flight = 1

\* Every turn handed to a blob writer has a unit of the extent-seal window.
EveryTurnHasAUnit ==
    /\ gc.extent_window + waiters.turns_out <= EXTENT_SEAL_WINDOW_ENTRIES
    /\ ~waiters.refused

\* quiescent(), the exit condition of the stop drain.
quiescent ==
    /\ builder.records = 0
    /\ in_flight = {}
    /\ pending_fsyncs(gc) = 0
    /\ ~gc.sync_due

\* When the stop drain may exit, every `always` record and every record staged
\* before a tick or the final sync request is durable and acknowledged.
DrainKeepsPromises == quiescent /\ ~failed => acked_seq >= promised

\* The watermark and the acks only move forward.
WatermarkMonotone ==
    [][gc'.durable_up_to >= gc.durable_up_to /\ acked_seq' >= acked_seq]_vars

\* Every `always` record, and every record staged before an everysec tick, is
\* acknowledged without waiting for another tick.
PromisesKept ==
    \A s \in 1..MaxSeq : (promised = s) ~> (acked_seq >= s \/ failed)

\* A parked blob writer gets its turn or leaves.
WritersServed == (waiters.parked > 0) ~> (waiters.parked = 0 \/ failed \/ waiters.turns_out > 0)

\* The records that a power cut now leaves: those of the surviving frames, up to
\* the first frame that does not survive.
SurvivingSeq ==
    LET n == CHOOSE n \in 0..Len(frames) :
                 /\ \A i \in 1..n : Survives(i)
                 /\ n < Len(frames) => ~Survives(n + 1)
    IN  IF n = 0 THEN 0 ELSE frames[n].seq

DL == INSTANCE DurableLog WITH staged <- last_seq, durable <- SurvivingSeq,
                               acked <- acked_seq

\* The durable plane implements the durable log: acks never overtake what a power
\* cut leaves, and neither ever moves back.
ImplementsDurableLog == DL!Spec
================================================================================
