------------------------------ MODULE LogRecovery ------------------------------
(***************************************************************************)
(* Crash and recovery of one cell's log: what reaches the segment files,   *)
(* what a power cut or a process kill leaves of them, and the boot that    *)
(* reads them back (crates/inf-server/src/recover.rs with inf-log's        *)
(* scan.rs, reader.rs and tail.rs).                                        *)
(*                                                                         *)
(* Data abstraction.  A frame takes one block and carries one record, whose*)
(* identity is id; a block is zero, junk (a torn write: nonzero, no valid  *)
(* frame) or a whole frame with its stamp.  All frames are stamped         *)
(* (format v2 or later).  The writer is the durable cell of DurableCell    *)
(* reduced to its promises: writes land in any order, rotation waits for   *)
(* them, coverage is a synced prefix.  The checkpoint behind a MANIFEST is *)
(* the log prefix below its begin marker.  The device is the one the       *)
(* repository's own simulator defines (inf-log's fs/sim.rs): after a power *)
(* cut each unsynced block holds any version written to it since its last  *)
(* sync, or junk, and a directory keeps a prefix of its pending operations.*)
(***************************************************************************)
EXTENDS Integers, Sequences, SequencesExt, FiniteSetsExt

CONSTANTS
    SEGMENT_BLOCKS,
    frames_in_flight,
    recycling,           \* BOOLEAN: sealed segments of this life are pooled
    CrashKinds,          \* \subseteq {"power", "kill"}
    PowerAfterKill,      \* BOOLEAN: a power cut may follow a process kill
    MaxFrames, MaxSegment, MaxCrashes, MaxCheckpoints    \* bounds

VARIABLES
    file,       \* file -> [mem: the OS view, maybe: what a power cut may leave]
    dirs,       \* log directory images: Head durable, Last current
    manifest,   \* the durable MANIFEST
    staged,     \* a MANIFEST.new on its way (NoManifest: none)
    pc,         \* "up", "power" or "kill" (crashed), "recovering", "refused"
    cell,       \* the running life
    rec,        \* the Recovery struct
    log,        \* the records this life has in its log, in order
    acked,      \* how many of them a watermark has covered: FSYNC always has
                \* acknowledged them, FSYNC everysec no longer risks them
    made,       \* frames sealed so far, all lives
    fate        \* [crashes, killed, ckpts]: counters behind the bounds

vars == <<file, dirs, manifest, staged, pc, cell, rec, log, acked, made, fate>>

Offsets == 0..(SEGMENT_BLOCKS - 1)
Files == 1..(MaxSegment + 3)

Zero == [kind |-> "zero"]
Junk == [kind |-> "junk"]

Lsn(segment, offset) == segment * (SEGMENT_BLOCKS + 1) + offset
LsnSegment(lsn) == lsn \div (SEGMENT_BLOCKS + 1)
LsnOffset(lsn) == lsn % (SEGMENT_BLOCKS + 1)

Blank == [mem |-> [o \in Offsets |-> Zero], maybe |-> [o \in Offsets |-> {Zero}]]

NoManifest == [begin |-> -1, floor |-> 0, last |-> 0, state |-> <<>>]
NoCell == [active |-> 0, unwritten |-> << >>]
NoRec == [phase |-> "none"]
NoStamp == [epoch |-> 0, seq |-> 0, covered |-> 0]

Image == Last(dirs)
Block(s, o) == file[Image[s]].mem[o]
Without(image, s) == [t \in DOMAIN image \ {s} |-> image[t]]
Entry(image, s, f) == [t \in DOMAIN image \union {s} |-> IF t = s THEN f ELSE image[t]]
FreeFiles == Files \ UNION {{dirs[i][s] : s \in DOMAIN dirs[i]} : i \in DOMAIN dirs}

\* The life a boot starts: at the append cursor, its barriers not yet landed.
Life(segment, offset, epoch, ops) ==
    [active |-> segment, off |-> offset, boot |-> Lsn(segment, offset),
     epoch |-> epoch, seq |-> 1, covered |-> 0,
     bootops |-> ops,             \* directory operations the boot barrier waits for
     armed |-> FALSE,             \* the boot barrier has landed
     unwritten |-> << >>,         \* offset -> the frame whose write is in flight
     sealing |-> << >>,           \* sealed segment -> its end, fsync outstanding
     fence |-> 0,                 \* append cursor at the last prealloc barrier
     filling |-> -1,              \* old id of a next segment awaiting its sentinel
     own |-> {}, pool |-> {}]     \* segments sealed by this life; the recycle pool

Init ==
    /\ file = [f \in Files |-> Blank]
    /\ dirs = <<<< >>, (0 :> 1)>>
    /\ manifest = NoManifest /\ staged = NoManifest
    /\ pc = "up"
    /\ cell = Life(0, 0, 1, 1)
    /\ rec = NoRec
    /\ log = <<>> /\ acked = 0 /\ made = 0
    /\ fate = [crashes |-> 0, killed |-> FALSE, ckpts |-> 0]

-----------------------------------------------------------------------------
\* The running cell.

\* fdatasync of file f as far as it concerns the blocks in `blocks`.
synced(f, blocks) ==
    [file EXCEPT ![f].maybe =
        [o \in Offsets |-> IF o \in blocks THEN {file[f].mem[o]} ELSE @[o]]]

append_cursor == Lsn(cell.active, cell.off)

\* A write reaches the page cache: a power cut may now leave it, whole or torn.
written(fs, f, o, block) ==
    [fs EXCEPT ![f].mem[o] = block, ![f].maybe[o] = @ \union {block, Junk}]

\* Mutant: coverage does not wait for the directory.
EntryDurable_unordered(s) == s >= 0

\* Ledger order: coverage waits for the prealloc barriers registered before it, the
\* segment's own and, past the fence, the next one's.
EntryDurable(s) ==
    s \in DOMAIN Image => s \in DOMAIN Head(dirs) /\ Head(dirs)[s] = Image[s]

\* The directory after a pooled file is renamed to the next id.
renamed(image, old, next) == Entry(Without(image, old), next, image[old])

\* Next segment id: a pooled file, its old frames still in it, or a created one;
\* either way a pending directory operation.
prealloc ==
    LET next == cell.active + 1 IN
    /\ pc = "up"
    /\ next <= MaxSegment /\ next \notin DOMAIN Image
    /\ IF cell.pool # {}
       THEN LET old == Min(cell.pool) IN
            /\ dirs' = Append(dirs, renamed(Image, old, next))
            /\ cell' = [cell EXCEPT !.pool = @ \ {old}, !.fence = append_cursor,
                                    !.filling = old]
            /\ UNCHANGED file
       ELSE LET f == Min(FreeFiles) IN
            /\ FreeFiles # {}
            /\ dirs' = Append(dirs, Entry(Image, next, f))
            /\ cell' = [cell EXCEPT !.fence = append_cursor]
            /\ file' = [file EXCEPT ![f] = Blank]
    /\ UNCHANGED <<manifest, staged, pc, rec, log, acked, made, fate>>

\* build_recycle_sentinel: a frame of the file's old id in its last block.
Sentinel(old) ==
    [kind |-> "frame", seg |-> old, epoch |-> 1, seq |-> 1, covered |-> 0, id |-> 0]

on_zero_written ==
    /\ pc = "up" /\ cell.filling # -1
    /\ file' = written(file, Image[cell.active + 1], SEGMENT_BLOCKS - 1, Sentinel(cell.filling))
    /\ cell' = [cell EXCEPT !.filling = -1]
    /\ UNCHANGED <<dirs, manifest, staged, pc, rec, log, acked, made, fate>>

all_synced(s) == \A o \in Offsets : Cardinality(file[Image[s]].maybe[o]) = 1

\* The barrier a recycled next segment waits for before it is Ready.
next_synced ==
    LET next == cell.active + 1 IN
    /\ pc = "up"
    /\ next \in DOMAIN Image /\ ~all_synced(next) /\ EntryDurable(next)
    /\ file' = synced(Image[next], Offsets)
    /\ UNCHANGED <<dirs, manifest, staged, pc, cell, rec, log, acked, made, fate>>

\* The cell after sealing the active segment.  A next segment still to be filled or
\* synced is taken as it is, once no operation on it is in flight.
rotated ==
    [cell EXCEPT !.active = @ + 1, !.off = 0, !.own = @ \union {cell.active},
                 !.sealing = Entry(@, cell.active, cell.off), !.filling = -1]

can_rotate == cell.off > 0 /\ cell.unwritten = << >> /\ cell.active < MaxSegment

\* With no next segment the rotation makes one and syncs the directory before it goes on.
inline_prealloc ==
    /\ FreeFiles # {}
    /\ LET f == Min(FreeFiles) IN
         /\ dirs' = <<Entry(Image, cell.active + 1, f)>>
         /\ file' = [file EXCEPT ![f] = Blank]

\* One frame, stamped with the life and the watermark, handed to the device.  A
\* frame that does not fit (or a class upgrade) rotates first.
queue_frame(rotate) ==
    LET inline == rotate /\ cell.active + 1 \notin DOMAIN Image
        c == IF rotate THEN rotated ELSE cell
        frame == [kind |-> "frame", seg |-> c.active, epoch |-> c.epoch,
                  seq |-> c.seq, covered |-> c.covered, id |-> made + 1] IN
    /\ pc = "up" /\ made < MaxFrames
    /\ rotate => can_rotate
    /\ c.off < SEGMENT_BLOCKS
    /\ Cardinality(DOMAIN c.unwritten) < frames_in_flight
    /\ cell' = [c EXCEPT !.off = @ + 1, !.seq = @ + 1,
                         !.unwritten = Entry(@, c.off, frame),
                         !.bootops = IF inline THEN 0 ELSE @]
    /\ log' = Append(log, [id |-> made + 1, lsn |-> Lsn(c.active, c.off)])
    /\ made' = made + 1
    /\ IF inline THEN inline_prealloc ELSE UNCHANGED <<dirs, file>>
    /\ UNCHANGED <<manifest, staged, pc, rec, acked, fate>>

\* A write completion: the page cache has the frame.
on_frame_written(o) ==
    /\ pc = "up" /\ o \in DOMAIN cell.unwritten
    /\ file' = written(file, Image[cell.active], o, cell.unwritten[o])
    /\ cell' = [cell EXCEPT !.unwritten = Without(@, o)]
    /\ UNCHANGED <<dirs, manifest, staged, pc, rec, log, acked, made, fate>>

\* The directory's journal commits its oldest pending operation.
dir_committed ==
    /\ pc = "up" /\ Len(dirs) > 1
    /\ dirs' = Tail(dirs)
    /\ cell' = [cell EXCEPT !.bootops = IF @ > 0 THEN @ - 1 ELSE 0]
    /\ UNCHANGED <<file, manifest, staged, pc, rec, log, acked, made, fate>>

\* The boot barriers: the directories and the active segment as the boot found it.
boot_barrier_synced ==
    /\ pc = "up" /\ ~cell.armed /\ cell.bootops = 0
    /\ LET s == LsnSegment(cell.boot)
           mine == LsnOffset(cell.boot)..(IF s = cell.active THEN cell.off - 1
                                          ELSE SEGMENT_BLOCKS - 1) IN
       file' = synced(Image[s], Offsets \ mine)
    /\ cell' = [cell EXCEPT !.armed = TRUE, !.covered = cell.boot]
    /\ UNCHANGED <<dirs, manifest, staged, pc, rec, log, acked, made, fate>>

\* The watermark moves to lsn; every record below it counts as acked.
Cover(lsn) ==
    /\ lsn > cell.covered
    /\ acked' = Max({acked, Cardinality({i \in DOMAIN log : log[i].lsn < lsn})})

\* The seal fsync of the oldest sealed segment; then the frames of the active one.
seal_synced ==
    /\ pc = "up" /\ cell.armed /\ cell.sealing # << >>
    /\ LET s == Min(DOMAIN cell.sealing)
           lsn == Max({cell.covered, Lsn(s, cell.sealing[s])}) IN
       /\ EntryDurable(s) /\ EntryDurable(s + 1)
       /\ file' = synced(Image[s], Offsets)
       /\ lsn > cell.covered => Cover(lsn)
       /\ lsn = cell.covered => UNCHANGED acked
       /\ cell' = [cell EXCEPT !.covered = lsn, !.sealing = Without(@, s)]
    /\ UNCHANGED <<dirs, manifest, staged, pc, rec, log, made, fate>>

frames_synced ==
    /\ pc = "up" /\ cell.armed /\ cell.sealing = << >>
    /\ EntryDurable(cell.active)
    /\ LET end == Min(DOMAIN cell.unwritten \union {cell.off})
           lsn == Lsn(cell.active, end) IN
       /\ end > 0 /\ Cover(lsn)
       /\ lsn > cell.fence => EntryDurable(cell.active + 1)
       /\ file' = synced(Image[cell.active], 0..(end - 1))
       /\ cell' = [cell EXCEPT !.covered = lsn]
    /\ UNCHANGED <<dirs, manifest, staged, pc, rec, log, made, fate>>

-----------------------------------------------------------------------------
\* The recovery unit: MANIFEST swap and truncation.

\* WatermarkWait: a checkpoint whose begin marker this life put in log[k]'s frame is
\* staged once the watermark has passed the marker.  It lists every segment to the active.
stage_manifest(k) ==
    LET begin == log[k].lsn IN
    /\ pc = "up" /\ staged = NoManifest /\ fate.ckpts < MaxCheckpoints
    /\ begin > manifest.begin /\ begin >= cell.boot /\ cell.covered > begin
    /\ staged' = [begin |-> begin, floor |-> LsnSegment(begin),
                  last |-> cell.active, state |-> SubSeq(log, 1, k - 1)]
    /\ fate' = [fate EXCEPT !.ckpts = @ + 1]
    /\ UNCHANGED <<file, dirs, manifest, pc, cell, rec, log, acked, made>>

\* Renamed and its directory synced: the commit that advances the floor.
commit_manifest ==
    /\ pc = "up" /\ staged # NoManifest
    /\ manifest' = staged /\ staged' = NoManifest
    /\ UNCHANGED <<file, dirs, pc, cell, rec, log, acked, made, fate>>

\* A sealed segment below the floor goes to the pool or is unlinked.
forget_sealed ==
    LET below == {s \in DOMAIN Image \ cell.pool : s < manifest.floor} IN
    /\ pc = "up" /\ below # {}
    /\ LET s == Min(below) IN
       IF recycling /\ s \in cell.own /\ cell.pool = {}
       THEN cell' = [cell EXCEPT !.pool = {s}] /\ UNCHANGED dirs
       ELSE dirs' = Append(dirs, Without(Image, s)) /\ UNCHANGED cell
    /\ UNCHANGED <<file, manifest, staged, pc, rec, log, acked, made, fate>>

-----------------------------------------------------------------------------
\* Crashes.

\* The <<file, block>> pairs whose content after the crash is still to be drawn:
\* every unsynced block after a power cut, the writes in flight after a kill.
Unsettled ==
    IF pc = "power"
    THEN {p \in {Image[s] : s \in DOMAIN Image} \X Offsets :
              Cardinality(file[p[1]].maybe[p[2]]) > 1}
    ELSE {<<Image[cell.active], o>> : o \in DOMAIN cell.unwritten}

Crash(kind) ==
    /\ pc \in {"up", "recovering"}
    /\ kind \in CrashKinds /\ fate.crashes < MaxCrashes
    /\ pc' = kind /\ rec' = NoRec
    /\ manifest' \in {manifest} \union ({staged} \ {NoManifest})
    /\ staged' = NoManifest
    /\ UNCHANGED <<file, log, acked, made>>

\* Power: the directory keeps a prefix of its pending operations.  A write in flight
\* has reached the device (on_frame_written, then the cut) or has not.
power_cut ==
    /\ Crash("power")
    /\ fate.killed => PowerAfterKill
    /\ \E i \in DOMAIN dirs : dirs' = <<dirs[i]>>
    /\ cell' = NoCell
    /\ fate' = [fate EXCEPT !.crashes = @ + 1]

\* Kill: the OS view survives whole; writes in flight may stop half way.
kill ==
    /\ Crash("kill")
    /\ cell' = [active |-> cell.active, unwritten |-> cell.unwritten]
    /\ fate' = [fate EXCEPT !.crashes = @ + 1, !.killed = TRUE]
    /\ UNCHANGED dirs

settle ==
    /\ pc \in {"power", "kill"} /\ Unsettled # {}
    /\ LET p == CHOOSE p \in Unsettled : TRUE
           was == file[p[1]] IN
       IF pc = "power"
       THEN \E block \in was.maybe[p[2]] :
            /\ file' = [file EXCEPT ![p[1]].mem[p[2]] = block,
                                    ![p[1]].maybe[p[2]] = {block}]
            /\ UNCHANGED cell
       ELSE /\ file' \in {file, written(file, p[1], p[2], Junk)}
            /\ cell' = [cell EXCEPT !.unwritten = Without(@, p[2])]
    /\ UNCHANGED <<dirs, manifest, staged, pc, rec, log, acked, made, fate>>

-----------------------------------------------------------------------------
\* Recovery.  Lists run along rec.segments, 1-based; hole = 0 is no hole.

\* `claim`: the coverage a LogCorruption refusal says was lost; -1 for the others.
Refuse(why, claim) ==
    /\ pc' = "refused" /\ rec' = [phase |-> why, claim |-> claim]
    /\ UNCHANGED <<file, dirs, manifest, staged, cell, log, acked, made, fate>>

Recovering(r) ==
    /\ pc' = "recovering" /\ rec' = r
    /\ UNCHANGED <<file, dirs, manifest, staged, cell, log, acked, made, fate>>

\* scan_log_dir_from, then the MANIFEST's claims about the live segments.
start_error(live) ==
    IF \E s \in live : s - 1 \notin live /\ s # Min(live) THEN "gap"
    ELSE IF manifest = NoManifest THEN "none"
    ELSE IF manifest.floor \notin live THEN "floor missing"
    ELSE IF manifest.last > Max(live) THEN "listed segment missing"
    ELSE "none"

\* A fresh log, or the checkpoint's state and the replay from its floor.
step_start ==
    LET live == {s \in DOMAIN Image : s >= manifest.floor} IN
    /\ pc \in {"power", "kill"} /\ Unsettled = {}
    /\ \/ start_error(live) # "none" /\ Refuse(start_error(live), -1)
       \/ /\ live = {} /\ start_error(live) = "none"
          /\ pc' = "up" /\ log' = <<>>
          /\ cell' = Life(0, 0, 1, 1)
          /\ dirs' = Append(dirs, Entry(Image, 0, 1))
          /\ file' = [file EXCEPT ![1] = Blank]
          /\ UNCHANGED <<manifest, staged, rec, acked, made, fate>>
       \/ /\ live # {} /\ start_error(live) = "none"
          /\ Recovering([phase |-> "replay", idx |-> 1, at |-> 0,
                 segments |-> SetToSortSeq(live, <), applied |-> manifest.state,
                 ends |-> <<>>, residue |-> <<>>, stale_slack |-> <<>>,
                 evidence |-> <<>>, hole |-> 0, prev_stamp |-> NoStamp,
                 max_prefix_epoch |-> 0, residue_stop |-> FALSE])

\* classify_stamp: the verdict on a validating frame f, before it applies.
StampVerdict(f) ==
    LET prev == rec.prev_stamp IN
    IF f.epoch < rec.max_prefix_epoch THEN "ResidueStop"
    ELSE IF \/ \E i \in 1..(rec.idx - 1) : /\ rec.segments[i] = LsnSegment(f.covered)
                                          /\ LsnOffset(f.covered) > rec.ends[i]
            \/ /\ prev # NoStamp /\ f.epoch = prev.epoch
               /\ f.seq # prev.seq + 1 \/ f.covered < prev.covered
            \/ prev # NoStamp /\ f.epoch # prev.epoch /\ f.seq # 1
         THEN "Corrupt"
    ELSE "Replay"

\* This segment's data ends at `end`; its slack is audited next.
EndSegment(end, r) == [r EXCEPT !.ends = Append(@, end), !.phase = "audit"]

\* The reader finds a frame that decodes and locates itself in this segment; zeros,
\* junk, another segment's frame and the end of the file all end the data here.
own_frame(s, o) ==
    o < SEGMENT_BLOCKS /\ Block(s, o).kind = "frame" /\ Block(s, o).seg = s

step_replay ==
    LET s == rec.segments[rec.idx]
        b == Block(s, rec.at) IN
    /\ pc = "recovering" /\ rec.phase = "replay"
    /\ \/ /\ rec.residue_stop \/ ~own_frame(s, rec.at)
          /\ Recovering([EndSegment(rec.at, rec) EXCEPT
                 !.prev_stamp = IF rec.residue_stop THEN @ ELSE NoStamp])
       \/ /\ ~rec.residue_stop /\ own_frame(s, rec.at)
          /\ \/ /\ StampVerdict(b) # "Replay"
                /\ IF StampVerdict(b) = "Corrupt" THEN Refuse("stamp", b.covered)
                   ELSE Recovering([EndSegment(rec.at, rec) EXCEPT !.residue_stop = TRUE])
             \/ /\ StampVerdict(b) = "Replay"
                /\ LET lsn == Lsn(s, rec.at)
                       record == [id |-> b.id, lsn |-> lsn] IN
                   Recovering([rec EXCEPT
                       !.at = @ + 1, !.max_prefix_epoch = Max({@, b.epoch}),
                       !.prev_stamp = [epoch |-> b.epoch, seq |-> b.seq,
                                       covered |-> b.covered],
                       !.applied = IF lsn >= manifest.begin THEN Append(@, record) ELSE @])

\* scan_region_evidence of segment s from block `from`.
EvidenceFrom(s, from) ==
    LET frames == {b \in {Block(s, o) : o \in from..(SEGMENT_BLOCKS - 1)} : b.kind = "frame"}
        own == {b \in frames : b.seg = s} IN
    [valid |-> own # {},
     max_covered |-> Max({b.covered : b \in own} \union {0}),
     max_epoch |-> Max({b.epoch : b \in own} \union {0}),
     foreign |-> own # frames,
     max_foreign_epoch |-> Max({b.epoch : b \in frames \ own} \union {0}),
     nonzero |-> \E o \in from..(SEGMENT_BLOCKS - 1) : Block(s, o) # Zero]

is_recycled_residue(e) == ~e.valid /\ e.foreign

\* A frame-level failure leaves nonzero bytes at the end, so `failed` adds nothing.
step_audit ==
    LET e == EvidenceFrom(rec.segments[rec.idx], rec.ends[rec.idx])
        stale == e.valid /\ e.max_epoch < rec.max_prefix_epoch
        hole == e.valid /\ ~stale
        last == rec.idx = Len(rec.segments) IN
    /\ pc = "recovering" /\ rec.phase = "audit"
    /\ Recovering([rec EXCEPT
           !.residue_stop = @ /\ ~stale,
           !.residue = Append(@, e.nonzero /\ ~is_recycled_residue(e)),
           !.stale_slack = Append(@, stale), !.evidence = Append(@, e),
           !.hole = IF hole THEN rec.idx ELSE @,
           !.phase = IF last THEN "finish" ELSE IF hole THEN "probe" ELSE "replay",
           !.idx = @ + 1, !.at = 0])

step_probe ==
    LET e == EvidenceFrom(rec.segments[rec.idx], 0) IN
    /\ pc = "recovering" /\ rec.phase = "probe"
    /\ Recovering([rec EXCEPT
           !.ends = Append(@, 0), !.residue = Append(@, e.nonzero),
           !.stale_slack = Append(@, FALSE), !.evidence = Append(@, e),
           !.phase = IF rec.idx = Len(rec.segments) THEN "finish" ELSE "probe",
           !.idx = @ + 1])

\* The largest value of a field of the evidence from segment `from` on, some left out.
MaxOver(field, from, but) ==
    Max({rec.evidence[i][field] : i \in (from..Len(rec.evidence)) \ but} \union {0})

\* The hole's frames are all of an older life than one probed beyond it.
hole_is_stale ==
    /\ rec.hole # 0
    /\ rec.evidence[rec.hole].max_epoch
           < MaxOver("max_epoch", rec.hole + 1, {})

step_finish ==
    LET upto(list) == SubSeq(list, 1, rec.hole) IN
    /\ pc = "recovering" /\ rec.phase = "finish"
    /\ IF hole_is_stale
       THEN Recovering([rec EXCEPT
                !.stale_slack = [upto(@) EXCEPT ![rec.hole] = TRUE],
                !.ends = upto(@), !.residue = upto(@), !.evidence = upto(@),
                !.hole = 0, !.residue_stop = FALSE,
                !.phase = "replay", !.idx = rec.hole + 1, !.at = 0])
       ELSE Recovering([rec EXCEPT !.phase = "resume"])

\* resume_point: the last data-bearing segment up to the hole, and what lies behind it.
last_data ==
    LET upto == IF rec.hole = 0 THEN Len(rec.ends) ELSE rec.hole IN
    Max({i \in 1..upto : rec.ends[i] > 0} \union {1})

torn == \E i \in last_data..Len(rec.residue) : rec.residue[i] /\ ~rec.stale_slack[i]

stale_trailing == \E i \in last_data..Len(rec.residue) : rec.residue[i] /\ rec.stale_slack[i]

resume ==
    IF torn \/ stale_trailing THEN Lsn(rec.segments[last_data], rec.ends[last_data])
    ELSE Lsn(Last(rec.segments), Last(rec.ends))

\* The evidence a truncation at the resume point would discard, stale slack excluded.
StaleSlack == {i \in DOMAIN rec.stale_slack : rec.stale_slack[i]}

beyond_covered == MaxOver("max_covered", last_data, StaleSlack)

beyond_max_epoch == MaxOver("max_epoch", last_data, StaleSlack)

\* Mutant: only the replayed prefix counts.
resumed_epoch_of_prefix == 1 + rec.max_prefix_epoch

\* Above every epoch observed this boot, so that what is discarded stays discarded.
resumed_epoch ==
    1 + Max({rec.max_prefix_epoch, beyond_max_epoch,
             MaxOver("max_foreign_epoch", 1, {})})

\* The segments to unlink: the trailing ones ascending, then the ones below the floor.
removals ==
    (IF torn \/ stale_trailing
     THEN SubSeq(rec.segments, last_data + 1, Len(rec.segments)) ELSE <<>>)
    \o SetToSortSeq({s \in DOMAIN Image : s < manifest.floor}, <)

\* resume_log up to its removals.  begin lies inside the marker's frame, so data
\* ending at or below the frame's base ends below begin.
resume_log ==
    /\ pc = "recovering" /\ rec.phase = "resume"
    /\ IF beyond_covered > resume THEN Refuse("attested", beyond_covered)
       ELSE IF resume <= manifest.begin THEN Refuse("below begin", -1)
       ELSE Recovering([phase |-> "remove", resume |-> resume, applied |-> rec.applied,
                        epoch |-> resumed_epoch, remove |-> removals])

\* One remove_file.
remove_segment ==
    /\ pc = "recovering" /\ rec.phase = "remove" /\ rec.remove # <<>>
    /\ dirs' = Append(dirs, Without(Image, Head(rec.remove)))
    /\ rec' = [rec EXCEPT !.remove = Tail(@)]
    /\ UNCHANGED <<file, manifest, staged, pc, cell, log, acked, made, fate>>

\* open_existing at the resume point, under the resumed life's epoch.
open_log ==
    /\ pc = "recovering" /\ rec.phase = "remove" /\ rec.remove = <<>>
    /\ pc' = "up" /\ rec' = NoRec
    /\ cell' = Life(LsnSegment(rec.resume), LsnOffset(rec.resume), rec.epoch, Len(dirs) - 1)
    /\ log' = rec.applied
    /\ UNCHANGED <<file, dirs, manifest, staged, acked, made, fate>>

-----------------------------------------------------------------------------
Next ==
    \/ prealloc \/ on_zero_written \/ next_synced
    \/ \E rotate \in BOOLEAN : queue_frame(rotate)
    \/ \E o \in Offsets : on_frame_written(o)
    \/ dir_committed \/ boot_barrier_synced \/ seal_synced \/ frames_synced
    \/ \E k \in DOMAIN log : stage_manifest(k)
    \/ commit_manifest \/ forget_sealed
    \/ power_cut \/ kill \/ settle
    \/ step_start \/ step_replay \/ step_audit \/ step_probe \/ step_finish
    \/ resume_log \/ remove_segment \/ open_log

Spec == Init /\ [][Next]_vars

-----------------------------------------------------------------------------
Booted == pc # "up" /\ pc' = "up"

Before(i) == {j \in 1..i : LsnSegment(log[j].lsn) = LsnSegment(log[i].lsn)}

\* Nothing the watermark covered is lost, nothing a boot discarded comes back, and
\* inside a segment no record survives its predecessors: a boot keeps the acked
\* prefix and, of each later segment, a prefix (classify_stamp, step_audit,
\* step_finish and resume_point decide it together).
BootKeepsAcked ==
    [][Booted => /\ IsPrefix(SubSeq(log, 1, acked), log')
                 /\ \A i \in DOMAIN log' : \E j \in DOMAIN log :
                        /\ log[j] = log'[i]
                        /\ \A k \in Before(j) : log[k] \in ToSet(log')]_vars

\* The whole recovered log is a prefix of the log at the crash: one suffix point
\* materializes (inf-sim's durability oracle says so of recovery).
RecoveredIsPrefix == [][Booted => IsPrefix(log', log)]_vars

\* An honest device is called corrupt in one case only: no stamp, missing floor or
\* short log ever stops a boot, and an attestation does only when it names the first
\* byte of a segment, so that it attests no byte of it (LogCorruption in
\* classify_stamp and resume_point, the begin guard of resume_log).
CorruptOnlyAtEmptyTail ==
    pc = "refused" => \/ rec.phase \in {"gap", "listed segment missing"}
                      \/ rec.phase = "attested" /\ LsnOffset(rec.claim) = 0

\* Every boot on an honest device succeeds, whatever a power cut or a kill left
\* (the refusals of step_start, classify_stamp, resume_point and resume_log).
AlwaysRecovers == pc # "refused"

\* What a watermark has covered survives every later crash, also a power cut that
\* follows a kill and a reboot (arm_boot_barriers, frames_synced, the replay).
CoveredSurvives == [][Booted => IsPrefix(SubSeq(log, 1, acked), log')]_vars
================================================================================
