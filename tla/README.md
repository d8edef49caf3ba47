# A TLA+ model of InfinityDB

InfinityDB is a thread-per-core, Redis-compatible database written in Rust. A node
is a set of *cells*. A cell is one thread that owns a shard of the keys, a log, a
checkpoint and a MANIFEST, and that talks to the other cells only through the
*fabric*, a mesh of single-producer single-consumer rings. One control thread owns the
catalog of namespaces. This project models the parts where concurrency, asynchronous
completions and crashes meet:

1. the **durable plane** of a cell: records staged, framed, written, synced and
   acknowledged while the device completes its operations in any order;
2. the **fabric**: rings, credits, doorbells and the park handshake between cells;
3. **log recovery**: what a power cut or a kill leaves of the log, and the boot that
   reads it back;
4. the **tiered namespace** of a cell: records that move between RAM and tier files while
   clients write, a checkpoint walks and files retire, and the boot over what is left;
5. **namespace DDL**: CREATE, SET and DROP across cells, the catalog and its tombstones,
   and what a crash in the middle leaves.

Every definition is translated from the Rust source; `PROJECT.json` maps each one to
the lines it stands for. Paths below are relative to `src/crates/`.

## Inventory of the system

### Modelled

| part | source | state | operations | hard behaviour |
|---|---|---|---|---|
| group-commit ledger | `inf-log/src/commit.rs` | pending syncs with what they cover, reorder window, written prefix, durable watermark, dues | plan a frame's barrier, register each kind of sync, frame written, sync complete or failed, everysec tick | completions in any order; a due must survive a sync that does not settle it; release assertions |
| segment rotor | `inf-log/src/segment.rs` | active, next, sealed and pooled segments, zero-fill state | rotate, preallocate, wait for a recycled file, recycle, zero slices and their barrier, truncate | a rotation racing zero slices in flight; fall-back when no file is to be had |
| staging ring | `inf-log/src/staging.rs` | the open builder, frames in flight | admit, seal | back-pressure at K frames in flight |
| durable plane | `inf-server/src/durable.rs` | ack map, watermark gate, fail-stop flag | stage, tick, MAINTAIN, LOG step, completions, error, stop drain | what is promised against what a cut leaves |
| extent-seal window | `inf-server/src/durable/extent_window.rs`, `plane/tiered/write.rs` | parked writers, turns out, window units | arrive, take a turn, drop, hand out, close | a counted resource handed to waiters that may vanish |
| fabric ring | `inf-fabric/src/ring.rs` | two indices, slots, cached copies of the other side's index | push, publish a batch, consume a batch, unwind | weak memory, stale caches, wrap-around |
| fabric mesh and loop | `inf-fabric/src/mesh.rs`, `inf-runtime/src/reactor.rs`, `inf-server/src/plane/cell_loop.rs`, `fabric.rs`, `ns_ddl.rs` | packs, credits, rings, doorbells, parked flags, reply and credit waiters | send, wait for credit, reply now or later, flush, ring, drain, park, wake | lost wake-ups, starvation, credit deadlock |
| log recovery | `inf-server/src/recover.rs`, `inf-log/src/scan.rs`, `reader.rs`, `tail.rs` | directory images, blocks, verdicts, resume point | scan, replay, audit, probe, finish, resume, remove | crashes at any step, also during recovery |
| MANIFEST and truncation (log side) | `inf-server/src/ckpt.rs`, `durable/ckpt.rs` | listed segments, begin marker | stage, commit, truncate | the swap against the log's own barriers |
| simulated disk | `inf-log/src/fs/sim.rs` | unsynced versions of a block, pending directory operations | write, sync, cut | torn blocks, a directory that keeps a prefix |
| tiered table | `inf-store/src/tiered.rs`, `tiered/`, `live_set.rs`, `address_space.rs` | index slots, records by address, watermarks, files with their counters, relocation origins, shadow tickets, walk pin, compaction cursor | insert, update, delete, demote, release, compact, promote, shadow write, verify, settle | two slots of one key; moves the log does not record |
| tier flush | `inf-log/src/flush.rs`, `inf-store/src/tiered/flush.rs`, `inf-server/src/tier_cell.rs` | filed and flushed watermarks, open and sealed files | stage a round, complete it, rotate files | effects that are facts only after the last barrier |
| checkpoint walk and swap | `inf-server/src/durable/ckpt.rs`, `ckpt.rs` | pass and slice, references, images, counters | begin, walk, end, abort, stage and rename, fail, land | a fuzzy walk beside writers; retirement by the swap |
| tiered recovery | `inf-store/src/tiered_recover.rs`, `tiered/replay.rs` | the table being rebuilt | references, images, replay, demote, settle twins, rebuild tickets | exactly what an unlogged move or a lost marker resurrects |
| namespaces and catalog | `inf-server/src/control.rs`, `plane/ns_ddl.rs`, `plane/shared.rs`, `recover.rs` | registries, the durable catalog, pending creates, tombstones, teardown holds, checkpoint epochs | CREATE, DROP, SET step by step, control-thread messages, index flip, checkpoints, teardown, boot | stale exports, partial fans, cuts between persist and fan |

### Not modelled, and why

- **Blob extents** (`inf-store/src/extents.rs`, `tiered/extent.rs`): reference counts against
  the checkpoint's blob section and the boot sweep. The log side, extent before record, is
  in `DurableCell`.
- **Cross-cell programs** (`plane/scatter.rs`): MSETNX and the moves are sequences of legs
  and promise no isolation; what a leg does is the sequential store of one cell.
- **Secondary indexes** (`inf-store/src/index_backfill.rs`): no command creates an index
  today. The one effect on another part, the catalog persist of an index flip, is in
  `NamespaceDdl`.
- **Publish and subscribe**: deltas and deliveries ride on the rings that are modelled; the
  subscription tables are not.
- **Cold reads** (`inf-runtime/src/cold.rs`): the queue-depth cap and coalesced windows. A
  verified read is one step of `TieredCell`, and a compaction read is in flight for a while.
- **Expiry schedule, timer wheel, scan cursor, store** (`inf-store`, `inf-runtime`):
  sequential data structures of one cell, driven by unit and property tests.
- The byte formats and codecs, the wire protocol, single-cell Redis command semantics,
  documents and queries, device drivers below the completion interface, allocation and
  vectorised scans, boot configuration, the entry points: sequential code or plain input
  and output. Eviction picks victims by a heuristic, and no victim is wrong. Five crates
  (compute, replica, stream, vector, embedded) are empty stubs.

`PROJECT.json` lists every part with its status, and 40 hazards at the lines where they
bite. The four without a property say why in their note.

## Modules

```
GroupCommit   SegmentRotor   ExtentWaiters        values and operators of one component
      \            |            /
             DurableCell  ----------------->  DurableLog      (refinement)
              /         \
MCDurableCell (bounds)   CellInvariants            the predicates of the proofs
                               |
                       DurableCellProofs           types, order, turns, monotony
                         /           \
                  DeviceProofs    BooksProofs      what was asked of the device; the books
                   /        \         |
            PlaneProofs  SealProofs   |            completions; sealing a frame
                   \        |        /
                     DurabilityProofs              the theorems about the cell

SpscRing ------------------------------->  BoundedChannel     (refinement; SpscRingProofs)
FabricMesh   MCFabricMesh (bounds)        uses the bounded channel as its ring
LogRecovery                               the writer reduced to DurableCell's promises

TieredTable <- TieredReplay <- TieredCell  one namespace: table, boot, cell
CatalogWriter <- NamespaceDdl <- MCNamespaceDdl (founding namespaces)
                              <- NamespaceDdlProofs
```

**GroupCommit, SegmentRotor, ExtentWaiters.** Plain structs that the durable plane
calls are records, and each method is an operator from record to record with the
method's name. A release assertion that fails sets `panic` in the record
(`Asserting`), so "no assertion fires" is an invariant. The ledger's queue of frames
is a sequence of flags over the written prefix, as in the code, and its pending syncs
are a sequence whose index is the ticket.

**DurableCell.** One cell's loop and its device. The actions are the loop's entry
points: `stage`, `write_blob_arrival` and `write_blob_turn`, `drop_turn`,
`on_everysec_tick`, `maintain`, `truncate`, `tier_maintain`, the LOG step (`seal_frame`,
`extent_hold`, `reserve_no_space`, `seal_nothing`), `on_log_written`, `on_fdatasync`,
`on_zero_fill_written` and `on_log_error`. Each contains everything its handler does:
`on_log_written` coalesces the ack map, completes a write-through barrier, advances the
watermark and may register a completion sync. The device is
a set of syncs in flight, each with the objects it will make stable (frames written
when it was issued, a directory entry, a segment's allocation, an extent), and
`stable`, what a power cut leaves. Writes and syncs complete in any order. A
write-through frame is stable when written, but readable after a cut only if its
blocks' allocation is. Truncation may take any segment wholly below the watermark's
segment: where a checkpoint lets it is left open, which allows more than the code does.

**DurableLog.** What clients are promised, with no frame, segment or sync in it:
acknowledged records are a prefix of what survives, and neither moves back.

**SpscRing.** One atomic or slot access per step, over a memory model in which a load
may return any message not older than the last one its thread saw, and a release store
passes on what its thread did. A slot access not ordered after the other side's last
access sets `race`. Indices wrap at `IndexMod`. **BoundedChannel** is its promise.

**FabricMesh.** One step per stretch of a cell's thread between shared accesses.
`run_iteration`, `drain_take`, `drain_consume`, `fabric_in`, the sends, `fabric_out`,
`flush`, `peer_wake`, `before_park`, `Unpark`. Stores to flags sit in a buffer until
`StoreVisible`; the SeqCst fences of the park handshake wait for it to empty.

**LogRecovery.** A block has an OS view and the set of versions a cut may leave, and a
directory is a sequence of images of which a cut keeps one. A boot is the code's own
machine: `step_start`, `step_replay`, `step_audit`, `step_probe`, `step_finish`, the
removals and `open_log`, with a crash possible between any two of them.

**TieredTable, TieredReplay, TieredCell.** `TieredTable` is the store's table of one
namespace as a record, each method an operator on it: the index is a set of addresses
(a slot is its address, and the hash is that of the record there), `recs` what was ever
written at an address, `files` a set of tier files with the counters of `LiveSet`, and
`tickets` the shadow tickets. An address below `head` is cold. `TieredReplay` is the boot:
references, counters and images of the checkpoint, then the log with its displacement
markers, demoting when the window is full and settling twins. `TieredCell` is the cell
around them: the write funnel (`try_shadow_write`, `insert`, `write_value`, `delete_one`),
`maintain_ns` with everything one MAINTAIN visit does, the compaction pump, promotion, the
three ways a ticket settles, the checkpoint passes in slices, the swap with its failures,
and a crash that brings back any MANIFEST that may be on the device with any log cut at or
past the watermark.

**CatalogWriter, NamespaceDdl.** `CatalogWriter` has the pending creates and tombstones of
the control thread and `prepare_persist`, which merges them into an exported catalog.
`NamespaceDdl` runs one DDL program at a time, as the ticket does, each await a step of its
own, with the control thread's queue, index flips outside the ticket, writes, checkpoints
on every cell, held teardowns, and a crash between any two steps followed by a boot that
mounts or refuses.

## What the runs check

Each passing run finishes in a few minutes at most.

| run | instance | shows |
|---|---|---|
| `FlushCell` | buffered segments, two FLUSHes in flight, `always` records, two blob writers on a window of two units | `NoPanic`, `WatermarkHonest`, `AckExact`, `CoverageInOrder`, `ExtentBeforeRecord`, `EveryTurnHasAUnit`; `WritersServed` under fairness |
| `FuaCell` | direct segments, small and large frames, both classes, truncation, a recycle slot, device errors, failed creations | `NoPanic`, `NoSliceOverFrames`, `DrainKeepsPromises`, `WatermarkMonotone`, the refinement of `DurableLog`; `PromisesKept` under fairness |
| `SpscRing` | 2 slots, indices mod 4, batches to 3, 7 items | `NoSlotRace` and the refinement of `BoundedChannel` across several wraps |
| `FabricPair` | 2 cells, every kind of op, 1 credit, 2 tokens | `CreditsConserved`, `WaiterIsOwedOneReply`, `NoStrandedFrames`, `CreditWakesNotLost`, no deadlock |
| `FabricTrio` | 3 cells, two of which send | `ReplyHeadroom`, `DrainIsFair` |
| `FabricLive` | 2 cells, immediate and deferred answers | `SentIsAnswered` under fairness |
| `LogRecovery` | 4 frames, 3 segments, recycling, 2 crashes, 1 checkpoint | `BootKeepsAcked`, `CorruptOnlyAtEmptyTail` |
| `TierCell` | 2 keys of one hash, shadow writes, a checkpoint, a crash | `ServesLastWrite`, `SizeIsExact`, `DelRunFits`, `BootKeepsCovered` |
| `TierMoves` | 1 key, promotion and compaction, a failing swap, a crash | `UnitsAreWhole`, `ColdIsReadable`, `CountersExact`, `BootNeverRefuses` |
| `NsDdl` | 2 cells, 2 founding namespaces, 2 DDL programs, a write, flip or spontaneous checkpoint, a crash | the seven invariants of `NamespaceDdl`; `DdlAnswered` under fairness |
| `KillThenPower`, `StaleTwin` | the smallest instances that show them | the two disagreements below |

The properties in words:

- `WatermarkHonest`: every frame below `durable_up_to`, and each extent it names,
  survives a power cut *now*; `AckExact`: the acknowledged sequence is exactly that of
  the watermark's frame, whatever the ack map coalesced.
- `PromisesKept`: an `always` record, or a record staged before a tick, is acknowledged
  with no help from later traffic. It fails as soon as some path drops a due.
- `DrainKeepsPromises`: when the stop drain may exit, nothing promised is open.
- `NoStrandedFrames`: a cell never sleeps on frames it could see unless the producer is
  still about to look at its parked flag. It fails without the SeqCst fence.
- `ReplyHeadroom`: what is staged always fits the peer's ring, so two cells never wait
  for each other's room.
- `CreditWakesNotLost`: a sender sleeps for credit only while every free credit is
  promised to a sender already awake.
- `BootKeepsAcked`: a boot keeps all that was covered, invents nothing, and within a
  segment keeps a prefix, after any two crashes, one of which may hit a recovery.
- `ServesLastWrite`: a read returns the last staged write although the key may have a RAM
  record, a cold twin nobody has read yet and copies that compaction or promotion made.
- `BootKeepsCovered`: after a crash each key has a value it had at or after the watermark.
- `UnitsAreWhole`: every MANIFEST a crash may bring back names files that are on the device
  and contain each reference of its checkpoint.
- `ColdIsReadable`: a cold slot's bytes are flushed and its file is there, and the winners
  of tickets and what a walk has still to image stay in RAM.
- `CountersExact`: the counters behind retirement do not drift, across boots too, so a file
  called dead holds no live slot.
- `DelRunFits`, `BootNeverRefuses`: the bounded registers that replay uses suffice for all
  the engine writes.
- `ServedIsCatalogued`, `DropIsFinal`: no export of a cell that lags
  undoes a CREATE, a SET or a DROP.
- `ResidueExplained`, `FilesOutliveCatalog`, `IdsNeverReused`: what checkpoints, logs and
  tier files hold is explained by the catalog on disk, at every instant.
- `RefusedOnlyInDropWindow`: the one window in which a cut makes the boot refuse (below).

Each property of a passing run has a mutant in `PROJECT.json`: a plausible slip in a
mapped definition (a dropped guard, a coverage point one frame too far, a missing
wake) under which TLC finds it violated.

### Bounds and why they are enough

- *Durable cell.* `MaxSeq` records are staged over a behaviour. Two frames in flight
  with a reorder window of three reach every completion order of two writes and two
  syncs. Segments of two blocks make the third frame rotate, and an upgrade onto a
  pre-zeroed segment rotates earlier. With one recycle slot and a wait bound of two
  blocks, the wait for a recycled file starts, is met and expires. The real window
  sizes change only when a `Wait` is planned.
- *Ring.* Seven items over two slots with indices mod 4 wrap each index at least once.
- *Fabric.* One credit and two tokens reach the exhausted-credit paths. `spin_iters` 1
  makes parking immediate. In `FabricTrio` the constraint `CellsTakeTurns` takes cell
  iterations one at a time, with the consumer index of a drain still allowed to arrive late:
  its two properties compare iterations, and interleaving inside an iteration is what
  `FabricPair` explores.
- *Recovery.* Two-block segments and four frames give two rotations; two crashes let the
  second one hit the first one's recovery.
- *Tier.* A RAM window of three records and files of two make every write sequence reach
  demotion, rotation of a file and a full window. A record is one unit, so a partial frame
  at the end of a round and the gap at the ring's top do not occur. Two keys of one hash
  give an ambiguous cold candidate; `RELOC_ORIGIN_CAP` 1 and a register of two reach both
  caps. `LogKeepsUp` restricts the passing runs to swaps that land after the log written
  during the walk is covered; without it `BootKeepsCovered` fails (`StaleTwin`).
- *Namespaces.* Starting from two tiered namespaces with a cap of one tombstone, two DDLs
  reach pacing at the cap. `MaxExtras` shares one event among writes, flips and spontaneous
  checkpoints; the instance with one of each (18.8 million states) and one with three cells
  (0.8 million states) hold too and are not kept.
- Deadlock is checked in the ring and fabric runs. It is off where the system may stop:
  a durable cell with its last record acknowledged or failed, a tiered cell or a node at
  its bounds, and a crashed or refusing boot.

### Fairness

- *Durable cell* (`FlushCell`, `FuaCell`). The device answers every
  operation, and the loop runs MAINTAIN and LOG in every iteration. The holds of the LOG
  step are bounded windows, so a seal that stays possible is taken. Nothing is assumed
  of clients or of the everysec timer: `PromisesKept` starts where the promise is made.
- *Fabric* (`FabricLive`). Each cell's thread runs, its stores become visible, and a
  deferred reply comes due. The last is strong fairness because an answer is
  enabled only while the loop is at its EXECUTE step. Nothing says that a parked cell
  wakes by itself: only a doorbell or a completion unparks it.
- *Namespaces* (`NsDdl`). The executor runs a woken program, the control thread takes its
  messages, and MAINTAIN carries a requested checkpoint through. Nothing is assumed of
  clients, index flips or teardown.

## What is proved

TLAPS proves the theorems below for every value of the constants that the named
assumptions allow. For the cell (`LedgerConstants`, `RotorConstants`, `CellConstants`):
every number of frames in flight, reorder, write-through and extent window, flush bound
(1 or 2), segment size, recycle pool, class set, record bound and number of writers, with
or without device faults. For the ring (`RingConstants`): every capacity, batch limit
and number of items, and every index modulus that is a larger multiple of the capacity. For the namespaces
(`NsAssumption`): every number of cells, programs and crashes and every founding set.

### The durable plane of a cell

- `TypesAndOrder`: `Spec => [](TypeOK /\ CoverageInOrder)`. The two together are
  inductive. Types alone are not enough: a ticket's index in the pending sequence is a
  number only because the sequence is no longer than the tickets issued, which is a
  conjunct of the order. The order is kept because each registration covers no less than
  the coverage tail, and a completion folds only the done prefix.
- `TurnsHaveUnits`: `Spec => []EveryTurnHasAUnit`. The strengthening `TurnsCounted` adds
  that turns out are never negative. Only staging a blob record enters the window
  (`WindowStep`), and `hand_out` gives no more turns than it has room for, counting the
  turns already out.
- `WatermarksAdvance`: `Spec => WatermarkMonotone`. The watermark moves only to what a
  folded sync covers, which `CoverageInOrder` puts at or above it. For the ack gate,
  `AckMapOrdered` says that the map's entries lie above the gate and that later frames
  carry later sequence numbers.
- `PlaneIsSound`: `Spec => []Sound`, and from it `WatermarkIsHonest`, `ExtentsComeFirst`
  and `SlicesStayOffFrames`, which are `WatermarkHonest`, `ExtentBeforeRecord` and
  `NoSliceOverFrames`.
- `BooksAreKept`: `Spec => []Kept`, and from it `AcksAreExact`, `NeverPanics` and
  `DrainPays`, which are `AckExact`, `NoPanic` and `DrainKeepsPromises`.
- `CellIsADurableLog`: `Spec => ImplementsDurableLog`.

*Sound.* That the watermark is honest says nothing about what is in flight, so it is far
from inductive. `Alive` (in `CellInvariants`) relates every claim of the ledger to what
the device was asked for, while the process runs:

- `Cover`: a frame that a pending sync with ticket t covers is `Secured` by t. Its
  directory entry and its bytes are stable, or a sync in flight with a ticket up to t
  makes them so, or its own write-through does, into blocks whose allocation is stable
  already. A frame below the watermark is secured by the last folded ticket.
- `Tickets`, `Unsent`: syncs in flight and write-throughs are live entries of the ledger,
  one each, and an extent barrier not yet issued is live too. So no ticket up to the last
  folded one is in flight, and what is secured by it is stable (`AliveHonest`).
- `LogShape`: the unwritten frames of the queue are the writes in flight.
- `Segs`, `Rotors`: the bytes of every frame outside the active segment are coming, and
  the rotor's fill, barrier and pre-zeroed states mean what the device shows.
- `Extents`, `Heads`: an extent the builder references is stable or its barrier is
  pending; the first pending entry is not done, and none has failed.

`Sound` is `TypeOK /\ CoverageInOrder /\ (~failed => Alive) /\ Honest`. After a failure
the process exits and its ledger means nothing, but the medium stays what it was, which
is what `Honest` keeps (`StopKeepsHonest`). A handler is a composition of ledger, rotor
and device operations, so the lemmas are about values (a ledger g, a view d of the device,
a rotor r), one operation each; `AliveStep` has one case per action.

*Kept.* `Booked` adds the ack map and the promises. `Mapped`: the map has the sequence
number of every frame end at which the watermark can still come to stand (`Owed`: at or
beyond the written prefix, or the end of a pending sync's coverage), so coalescing is
harmless and the gate moves exactly to the watermark. `Promises`: without a due sync,
everything promised is covered by the coverage tail; records in the builder leave a flag
that asks for a sync. The release assertions of the LOG step need both, and the shape of
the log from `Sound`. `DrainPays` reads `Promises` in a quiescent state.

*Refinement.* `DL` maps `durable` to the sequence number of the longest prefix of frames
that survive a power cut (`Lead`). It is not a variable of the cell, so a step is followed
through its parts: no step takes back a stable object, a frame or a segment (`Grows`), so
the prefix only grows (`LeadGrows`); a step that stages a record writes no frame and makes
nothing stable (`StepStages`); the prefix lies between the acknowledged and the staged
records (`Between`, from `Kept`). Each step of the cell is then `Append`, `Commit` or a
stutter of `DurableLog` (`RefineStep`).

### The ring and the namespaces

- `SlotsAreHandedOver` and `RingIsAChannel` (`SpscRingProofs`): producer and consumer never
  touch one slot unsynchronised, and the ring implements `BoundedChannel`, under every
  stale read of the other end's index and across wrap-around. The invariant says what each
  end's cached index may lag behind and which slots hold which item.
- `NamespaceIdsAreFresh` (`NamespaceDdlProofs`): no two namespaces ever carry one id,
  wherever a crash falls. The invariant bounds every id in a catalog, message, program or
  tombstone by the allocator of the durable catalog.

### What is only model-checked

- Liveness (`PromisesKept`, `WritersServed`, `SentIsAnswered`, `DdlAnswered`), which the
  prover has no rule for.
- The fabric mesh. A drain handles a batch of frames with a fold, and its invariants
  count tokens in flattened sequences. What these compute for every input needs induction
  over data, which the installed provers cannot apply.
- The tiered namespace. A boot folds the log's tail into the table, and the properties
  compare the result with what the crash left: induction over data again.
- Recovery. It replays one frame per step, so its properties are within reach of an
  invariant that relates every image a crash may leave to the log at the crash. That
  invariant is not written yet.
- The catalog properties of `NamespaceDdl` other than the freshness of ids.

## Where the code and its documentation disagree

Two runs show them; the model's traces are short enough to replay by hand.

1. **The everysec bound** (`KillThenPower`, `inf-server/src/durable.rs:834`). After a kill,
   the boot barriers sync the directories and the active segment. If the boot resumes in
   an empty preallocated tail, the segment with the killed life's unsynced frames is
   never synced, yet the new watermark passes it. A power cut at any later time loses
   these records. `LogRecovery` therefore sets `PowerAfterKill` to FALSE.
2. **Replay is exact** (`StaleTwin`, `inf-server/src/ckpt.rs:931`). The swap waits for the
   begin marker, not for the log written during the walk. A DEL between pass 0 (which
   emitted the reference of a shadowed twin) and pass 1 (which would have emitted the
   winner) leaves a checkpoint with the twin alone. If the crash loses the DEL, the boot
   serves the twin's value, older than the covered winner.

Others are described here and have no run of their own:

- **One suffix point** (`inf-server/src/recover.rs:1644`). Replay accepts a step of the frame
  sequence across segments. When the unsynced tail of a sealed segment vanishes and a
  frame of the next one survives, the later frame is replayed without the earlier;
  `bins/inf-sim/src/durable.rs:9` says recovery replays a log prefix. Nothing acknowledged
  is lost. `RecoveredIsPrefix` of `LogRecovery` states it.
- **Every boot succeeds on honest physics** (`inf-server/src/ckpt.rs:967`). The MANIFEST lists
  segments up to the active one, whose directory entry may still be volatile; a cut then
  leaves a MANIFEST that names a missing segment. `AlwaysRecovers` of `LogRecovery` states
  it. `CorruptOnlyAtEmptyTail` admits by name two more refusals: an attestation of the first
  byte of an empty tail (`recover.rs:2013`) and a crash between two removals of trailing
  segments (`recover.rs:2077`).
- **The compaction cursor** (`inf-server/src/plane/pumps.rs:299`). A compaction read is in
  flight; the file's last record dies; a whole checkpoint walk passes and `retire_scan`
  retires the file with its cursor; the read returns and `compaction_apply` asserts a scan
  in flight. `CursorPersists` of `TieredCell` states that it cannot happen, and fails with
  four writes and six addresses. It needs a read slower than a walk.
- **A cut inside a DROP** (`inf-server/src/plane/ns_ddl.rs:739`). A checkpoint walk has written
  a reference section; the DROP applies on its origin; the swap publishes a MANIFEST
  without the tier section; a cut comes before the catalog swap. The boot refuses ("ref
  section for unmanifested tier ns"), where the comment says the restart restores the
  namespace. `RefusedOnlyInDropWindow` shows that this window is the only one.
- **Epochs of two senders** (`inf-server/src/control.rs:1471`). `send_persist` takes an epoch and
  sends in two steps. If cell 0's index flip and a DDL send in the other order, `persisted`
  is true early or moves back. No command creates an index today, so this is latent; the
  model takes the two as one step.
- **Residues of the catalog.** A memory-mode DROP has no tombstone, so a stale index-flip
  export can put it back into META until the next persist (`DropIsFinal` is about durable
  ones). A CREATE the OS refuses on its origin stays in META until the next persist, as its
  comment records.

## Left out of the modelled parts

Clocks, pacing and group-commit holds appear as the LOG step not being taken. Bytes are
counted in blocks. Statistics and logging are left out, as are format-v1 frames, batches of
the fabric, which no code sends, and the progress budget of a boot. A token of the fabric is
any one not in use: the 48-bit sequence does not come round while an op is in flight.

In the tiered namespace the barriers inside a flush round, the steps of a boot and a swap's
stage, sync and rename are one step each; the lanes shared by namespaces, expiry, blob
extents and the conditional writes, which resolve first and take the same funnel, are left
out. In the namespaces a durable namespace is a tiered one, the pacing of a DROP reads the
published epochs themselves rather than the sweep's copy of them, the rename and directory
sync of a swap are one step (a cut between them leaves the state before or after), and the
reservation of checkpoint credits and the cancellation of a program are left out.

## What comes next

- *Blob extents* in `TieredCell`: counts against the checkpoint's blob section and the sweep.
- *Proofs*: for the namespaces, that tombstones and stamps order the files on the medium
  after the catalog (`FilesOutliveCatalog`, `DropIsFinal`) and that cells agree between two
  DDLs; for the mesh, `NoStrandedFrames` and `DrainIsFair`, which count nothing.
