----------------------------- MODULE TieredCell -----------------------------
(***************************************************************************)
(* A tiered namespace at work: the write funnel of plane/tiered, the       *)
(* MAINTAIN legs of tier_cell.rs and plane/pumps.rs (demotion, compaction, *)
(* shadow reconciliation), the checkpoint that walks the namespace in      *)
(* slices between them, the MANIFEST swap that retires tier files, and a   *)
(* crash at any point followed by the boot of TieredReplay.                *)
(***************************************************************************)
EXTENDS TieredReplay

CONSTANTS
    Keys,         \* small naturals
    LogKeepsUp,   \* the device covers the walk's records before the swap
    Workloads     \* what bounds a behaviour, one of these:
                  \*   keys      the keys its clients use
                  \*   shadow    tiered shadow writes enabled
                  \*   promote   tiered-promote-on-read enabled
                  \*   writes    logged mutations
                  \*   addr      records placed
                  \*   ckpt      checkpoints begun
                  \*   fail      checkpoint and swap operations that fail
                  \*   crash     crashes

VARIABLES
    t,         \* the table
    log,       \* staged mutations: [op, key, val, marks]
    durable,   \* log records the watermark covers
    base,      \* what the last boot served
    blen,      \* log records the last boot replayed
    ck,        \* checkpoint and swap in progress
    man,       \* the durable MANIFEST with the checkpoint it names
    renamed,   \* MANIFESTs renamed over it whose directory sync is out
    disk,      \* tier files on the device
    chain,     \* a compaction read is in flight
    panic,     \* the assertion that stopped the cell
    writes,    \* mutations ever staged
    fails,     \* failed checkpoint operations
    crashes,
    max        \* the workload

vars == <<t, log, durable, base, blen, ck, man, renamed, disk, chain, panic, writes, fails, crashes, max>>

IdleCkpt(id) == [phase |-> "idle", id |-> id, begin |-> 0, end |-> 0, pass |-> 0, group |-> 0,
                 refs |-> {}, images |-> <<>>, entries |-> {}]

Init ==
    /\ man = [id |-> 0, begin |-> 0, refs |-> {}, images |-> <<>>, entries |-> {},
              flushed |-> 1, files |-> {}]
    /\ t = recover_tiered_ns(man, <<>>)
    /\ log = <<>> /\ durable = 0 /\ blen = 0
    /\ base = [k \in Keys |-> {}]
    /\ ck = IdleCkpt(0)
    /\ renamed = {} /\ disk = {} /\ chain = FALSE /\ panic = "" /\ writes = 0 /\ fails = 0 /\ crashes = 0
    /\ max \in Workloads

up == panic = ""
ids(files) == {f.id : f \in files}

-----------------------------------------------------------------------------
(* The write funnel.                                                       *)

\* The markers a displaced record's origins owe.
displacements(a) == {o.addr : o \in origins_of(t, a)}
stage(op, k, marks) ==
    /\ log' = Append(log, [op |-> op, key |-> k, val |-> writes + 1, marks |-> marks])
    /\ writes' = writes + 1
    /\ UNCHANGED <<durable, base, blen, ck, man, renamed, disk, chain, panic, fails, crashes, max>>
may_write == up /\ writes < max.writes
may_place == room(t) /\ tail(t) <= max.addr

cold_exact(k) == {a \in each_exact(t, hash(k)) : is_cold(t, a)}
readable(a) == \E f \in t.files : a \in span(f)

\* One exact-hash cold candidate, not ticketed, admitted: no read, no marker.
shadow_shape(k) ==
    /\ max.shadow /\ ram_of(t, k) = {} /\ Cardinality(cold_exact(k)) = 1
    /\ \A c \in cold_exact(k) : ~is_shadow_cold(t, c) /\ shadow_admit(t, c)

try_shadow_write(k) ==
    /\ may_write /\ may_place /\ shadow_shape(k)
    /\ \E c \in cold_exact(k) : t' = register_shadow(place(t, k, writes + 1), c, tail(t))
    /\ stage("set", k, {})

\* resolve: the RAM record of k, else the cold one its key verifies.
resolved(k) == IF ram_of(t, k) # {} THEN ram_of(t, k) ELSE cold_of(t, k)

insert(k) ==
    /\ may_write /\ may_place /\ ~shadow_shape(k)
    /\ resolved(k) = {} /\ \A c \in cold_exact(k) : readable(c)
    /\ t' = place(t, k, writes + 1)
    /\ stage("set", k, {})

write_value(k) ==
    /\ may_write /\ ~shadow_shape(k)
    /\ \E old \in resolved(k) :
        LET moved == ~fits_in_place(t, writes + 1, old)
        IN  /\ moved => may_place
            /\ is_cold(t, old) => readable(old)
            /\ t' = take_displacement_origins(update(t, k, writes + 1, old), old)
            /\ stage("set", k, displacements(old) \cup IF moved THEN {old} ELSE {})

\* The marker run of a delete: every verified twin, then the winner.
delete_run(a) ==
    UNION {displacements(b) \cup {b} : b \in {a} \cup {x.cold : x \in shadow_winner_tickets(t, a)}}

\* Mutant: the winner goes, its twins stay.
delete_one_keeps_twins(k) ==
    /\ may_write
    /\ \E a \in resolved(k) :
        /\ is_cold(t, a) => readable(a)
        /\ t' = take_displacement_origins(delete(t, a), a)
        /\ stage("del", k, delete_run(a))

delete_one(k) ==
    /\ may_write
    /\ \E a \in resolved(k) :
        LET twins == {x.cold : x \in shadow_winner_tickets(t, a)}
            drop(u, b) == take_displacement_origins(delete(u, b), b)
        IN  /\ \A x \in shadow_winner_tickets(t, a) : x.verified
            /\ is_cold(t, a) => readable(a)
            /\ Cardinality(delete_run(a)) <= DISPLACE_REGISTER_CAP
            /\ t' = drop(FoldLeft(drop, t, SetToSeq(twins)), a)
            /\ stage("del", k, delete_run(a))

-----------------------------------------------------------------------------
(* MAINTAIN.                                                               *)

Table(u) ==
    /\ t' = u
    /\ UNCHANGED <<log, durable, base, blen, ck, man, renamed, disk, chain, panic, writes, fails, crashes, max>>

\* One MAINTAIN visit of the namespace and the turn after it. due is the
\* demotion threshold, landed the completion of the round's last barrier.
\* With no checkpoint streaming and no swap pending, an aborted walk's pin
\* and marks are cleared first.
maintain_ns(due, landed) ==
    LET idle == IF ck.phase = "idle" THEN abort_retirement(end_ckpt_walk(t)) ELSE t
        sealed == IF due THEN seal_slice(idle) ELSE idle
        released == release_slice(IF landed THEN complete_flush_round(sealed) ELSE sealed)
        offered == IF chain \/ released.walk.on \/ released.compact # NoScan THEN released
                   ELSE pick_candidate(released)
    IN  /\ up /\ (due => t.ro < tail(t))
        /\ landed => t.flushed < t.filed
        /\ t' = IF offered.filed = offered.flushed THEN stage_flush_round(offered) ELSE offered
        /\ chain' = (chain \/ (~offered.walk.on /\ offered.compact # NoScan))
        /\ disk' = disk \cup ids(t'.files)
        /\ UNCHANGED <<log, durable, base, blen, ck, man, renamed, panic, writes, fails, crashes, max>>

\* The read came back. A pinned walk ends the chain; the store panics when
\* its cursor is gone.
CompactApply ==
    /\ up /\ chain /\ chain' = FALSE
    /\ IF t.walk.on THEN UNCHANGED <<t, panic>>
       ELSE IF t.compact = NoScan THEN t' = t /\ panic' = "compaction_apply without a scan in flight"
       ELSE t' = compaction_apply(t) /\ tail(t') <= max.addr + 1 /\ UNCHANGED panic
    /\ UNCHANGED <<log, durable, base, blen, ck, man, renamed, disk, writes, fails, crashes, max>>

try_promote(k) ==
    /\ up /\ max.promote /\ ~t.walk.on /\ may_place
    /\ \E a \in resolved(k) :
        is_cold(t, a) /\ readable(a) /\ movable(t, a) /\ Table(relocate(t, a))

\* A twin's read verified outside the pump (DEL, DBSIZE).
ForcedVerify ==
    \E x \in t.tickets : up /\ ~x.verified /\ readable(x.cold) /\ Table(verify_shadow(t, x))
resolve_shadow ==
    \E x \in t.tickets :
        LET u == verify_shadow(t, x)
            y == [x EXCEPT !.verified = TRUE]
        IN  /\ up /\ ~x.verified /\ readable(x.cold)
            /\ y \in u.tickets /\ ~t.walk.on /\ settle_fits(u, x.cold, x.winner, "exact")
            /\ Table(settle_ticket(u, y))
shadow_settle_verified ==
    LET try(u, x) == IF settle_fits(u, x.cold, x.winner, "exact") THEN settle_ticket(u, x) ELSE u
        u == FoldLeft(try, t, SetToSeq({x \in t.tickets : x.verified}))
    IN  up /\ ~t.walk.on /\ u # t /\ Table(u)

-----------------------------------------------------------------------------
(* The checkpoint and the MANIFEST swap.                                   *)

Ckpt(new) ==
    /\ ck' = new
    /\ UNCHANGED <<log, durable, base, blen, man, renamed, disk, chain, panic, writes, fails, crashes, max>>
Fails(new) ==
    /\ fails < max.fail /\ fails' = fails + 1 /\ ck' = new
    /\ UNCHANGED <<t, log, durable, base, blen, man, renamed, disk, chain, panic, writes, crashes, max>>

\* The begin marker is in the log; the stream opens once its frame is sealed.
Begin ==
    /\ up /\ ck.phase = "idle" /\ ck.id < max.ckpt
    /\ Ckpt([IdleCkpt(ck.id + 1) EXCEPT !.phase = "walk", !.begin = Len(log)])
    /\ UNCHANGED t

NextGroup == IF ck.group + 1 < HASHES THEN [ck EXCEPT !.group = @ + 1]
             ELSE [ck EXCEPT !.group = 0, !.pass = @ + 1]

\* Pass 0. The first slice pins the walk, after releasing a pin that leaked.
WalkRefs ==
    /\ up /\ ck.phase = "walk" /\ ck.pass = 0
    /\ LET clean == IF t.walk.on THEN abort_retirement(end_ckpt_walk(t)) ELSE t
           u == IF ck.group = 0 THEN begin_ckpt_walk(clean, ck.id) ELSE t
       IN  t' = u /\ Ckpt([NextGroup EXCEPT !.refs = @ \cup walk_refs(u, ck.group)])
\* Pass 1: the RAM records, as they are now.
WalkImages ==
    /\ up /\ ck.phase = "walk" /\ ck.pass = 1
    /\ Ckpt([NextGroup EXCEPT !.images = @ \o SetToSeq(walk_images(t, ck.group))])
    /\ UNCHANGED t
\* The last slice: the counters of every file (pass 2), then the pin goes and
\* the files dead since before the walk are marked (pass 4).
WalkEnd ==
    /\ up /\ ck.phase = "walk" /\ ck.pass = 2
    /\ t' = retire_scan(end_ckpt_walk(t), ck.id)
    /\ Ckpt([ck EXCEPT !.phase = "written", !.entries = live_set_entries(t), !.end = Len(log)])

\* A failed write, sync or rename of the stream drops the checkpoint.
Abort ==
    /\ up /\ ck.phase \in {"walk", "written"}
    /\ Fails(IdleCkpt(ck.id))

\* What the staged MANIFEST and the checkpoint it names hold.
Unit == [id |-> ck.id, begin |-> ck.begin, refs |-> ck.refs, images |-> ck.images,
         entries |-> ck.entries, flushed |-> t.flushed, files |-> tier_manifest(t)]

\* The stream is published and its directory entry taken as durable: the retry that
\* goes on after a failed sync of that directory is left out. WatermarkWait: the
\* begin marker is durable, and nothing else is asked of the log. The MANIFEST is
\* staged, synced and renamed; its directory sync is out.
StageAndRename ==
    /\ up /\ ck.phase \in {"written", "swap"} /\ durable >= ck.begin
    /\ LogKeepsUp => durable >= ck.end
    /\ ck' = [ck EXCEPT !.phase = "renamed"] /\ renamed' = renamed \cup {Unit}
    /\ UNCHANGED <<t, log, durable, base, blen, man, disk, chain, panic, writes, fails, crashes, max>>
\* The directory sync failed: the swap backs off and stages anew.
SwapFails ==
    /\ up /\ ck.phase = "renamed" /\ Fails([ck EXCEPT !.phase = "swap"])
\* The swap landed: the retired files leave the table and the device.
Land ==
    /\ up /\ ck.phase = "renamed"
    /\ \E m \in renamed : m.id = ck.id /\ man' = m
    /\ renamed' = {} /\ ck' = IdleCkpt(ck.id)
    /\ t' = commit_retirement(t)
    /\ disk' = disk \cap ids(t'.files)
    /\ UNCHANGED <<log, durable, base, blen, chain, panic, writes, fails, crashes, max>>

Sync ==
    /\ up /\ durable < Len(log) /\ durable' = Len(log)
    /\ UNCHANGED <<t, log, base, blen, ck, man, renamed, disk, chain, panic, writes, fails, crashes, max>>

-----------------------------------------------------------------------------
(* The crash: some MANIFEST of those that may be on the device, some cut of *)
(* the log at or past the watermark, and the boot over them.               *)

Crash(m, cut) ==
    LET r == recover(m, t.recs, SubSeq(log, m.begin + 1, cut))
    IN  /\ crashes < max.crash /\ crashes' = crashes + 1
        /\ t' = r.t /\ panic' = IF r.refused THEN "the boot refuses" ELSE ""
        /\ log' = SubSeq(log, 1, cut) /\ durable' = cut /\ blen' = cut
        /\ base' = [k \in Keys |-> served(r.t, k)]
        /\ man' = m /\ renamed' = {} /\ ck' = IdleCkpt(m.id) /\ chain' = FALSE
        /\ disk' = (disk \cap {f.id : f \in m.files}) \cup {f.id : f \in {g \in r.t.files : ~g.recovered}}
        /\ UNCHANGED <<writes, fails, max>>

Next ==
    \/ \E k \in max.keys : try_shadow_write(k) \/ insert(k) \/ write_value(k) \/ delete_one(k) \/ try_promote(k)
    \/ \E due, landed \in BOOLEAN : maintain_ns(due, landed)
    \/ CompactApply
    \/ ForcedVerify \/ resolve_shadow \/ shadow_settle_verified
    \/ Begin \/ WalkRefs \/ WalkImages \/ WalkEnd \/ Abort
    \/ StageAndRename \/ SwapFails \/ Land \/ Sync
    \/ \E m \in {man} \cup renamed : \E cut \in durable..Len(log) : Crash(m, cut)

Spec == Init /\ [][Next]_vars

-----------------------------------------------------------------------------
(* What key k holds after p log records of this life.                      *)

after(k, p) ==
    LET mine == {i \in blen + 1..p : log[i].key = k}
        last == log[Max(mine)]
    IN  IF mine = {} THEN base[k] ELSE IF last.op = "set" THEN {last.val} ELSE {}

\* Every read returns the last write staged, however compaction, promotion,
\* demotion and shadow settlement have moved the record since: RAM outranks
\* cold, and two live slots of one key never disagree (resolve_inner).
ServesLastWrite == up => \A k \in Keys : served(t, k) = after(k, Len(log))

\* A boot gives every key a value it had at or after the watermark: no covered
\* write is lost and no deleted or overwritten value comes back from a
\* checkpoint reference, or from where an unlogged move of compaction or
\* promotion took it (ckpt_walk_slice: "replay is exact").
BootKeepsCovered ==
    [][crashes' # crashes =>
        \A k \in Keys : base'[k] \in {after(k, p) : p \in durable..Len(log)}]_vars

\* Every unit a crash may bring back is whole: its tier files are on the
\* device, hold no byte past the flushed watermark, and contain each reference
\* of its checkpoint (retire_scan, commit_retirement, tier_manifest).
UnitsAreWhole ==
    \A m \in {man} \cup renamed :
        /\ {f.id : f \in m.files} \subseteq disk
        /\ m.flushed <= t.flushed /\ \A f \in m.files : f.end <= m.flushed
        /\ \A a \in m.refs : \E f \in m.files : a \in span(f)

\* A cold slot can be read: its bytes are flushed, in a file that the table
\* catalogues and the device has; and what must stay in RAM does: the winner of a
\* ticket and what the walk has still to image (release_slice, commit_retirement,
\* sync_shadow_pin, begin_ckpt_walk).
ColdIsReadable ==
    /\ \A a \in t.index : is_cold(t, a) =>
           a < t.flushed /\ \E f \in t.files : a \in span(f) /\ f.id \in disk
    /\ \A x \in t.tickets : is_cold(t, x.cold) /\ ~is_cold(t, x.winner)
    /\ \A a \in t.walk.images : ~is_cold(t, a)

\* The counters that pick compaction victims and retirements do not drift: a
\* file of this life counts its dead records, a recovered one its live slots,
\* through every displacement, settlement and replayed marker.
CountersExact ==
    \A f \in t.files :
        IF f.recovered THEN f.cnt = Cardinality(t.index \cap span(f))
        ELSE f.dead = Cardinality(span(f) \ t.index)

\* DBSIZE, which verifies every ticket first, counts the keys: a shadowed twin
\* is counted once and a hash collision is not taken for one.
SizeIsExact ==
    (up /\ \A x \in t.tickets : x.verified) =>
        Cardinality(t.index) - Cardinality(t.tickets)
            = Cardinality({k \in Keys : after(k, Len(log)) # {}})

\* stage_delete_run: "on engine-written input the run never exceeds" the
\* register that replays it, so a key can always be deleted.
DelRunFits ==
    \A k \in Keys : \A a \in resolved(k) :
        (\A x \in shadow_winner_tickets(t, a) : x.verified)
            => Cardinality(delete_run(a)) <= DISPLACE_REGISTER_CAP

\* No boot refuses over what the engine itself wrote: the twins it settles and
\* the markers it replays fit their registers (settle_twins, settle_rebuilt_slot).
BootNeverRefuses == panic # "the boot refuses"

\* compact_pump: "the cursor persists and the next MAINTAIN resumes it": the
\* cursor of a compaction read outlives the read.
CursorPersists == chain => t.compact # NoScan
=============================================================================
