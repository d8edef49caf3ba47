---------------------------- MODULE TieredTable ----------------------------
(***************************************************************************)
(* One tiered namespace of one cell as a value: the index, the hybrid      *)
(* address space, the per-file live set, relocation origins and shadow     *)
(* tickets (inf-store/src/tiered.rs and its submodules, live_set.rs).      *)
(* Every operator is one store call: it takes the table and returns the    *)
(* table after the call. TieredCell.tla composes them with the write       *)
(* funnel, the checkpoint and the crash.                                   *)
(*                                                                         *)
(* An address is a record number: recs[a] is what was placed at a, in RAM  *)
(* from head on and in a tier file below it. A record is one unit long for *)
(* the file counters; size tells the two encoded lengths that decide       *)
(* whether a rewrite fits in place.                                        *)
(***************************************************************************)
EXTENDS Integers, Sequences, FiniteSets, SequencesExt, FiniteSetsExt

CONSTANTS
    HASHES,              \* distinct 64-bit key hashes; keys with one hash collide
    WINDOW,              \* records the RAM ring holds
    FILE_RECORDS,        \* records a tier file holds before it rotates
    RELOC_ORIGIN_CAP,    \* origins one record may carry
    SHADOW_TICKETS_CAP,  \* open shadow tickets
    PIN_CAP              \* records the shadow tickets may keep in RAM

hash(k) == k % HASHES
size(v) == v % 2

tail(t) == Len(t.recs) + 1
key(t, a) == t.recs[a].key
room(t) == tail(t) - t.head < WINDOW
is_cold(t, a) == a < t.head
each_exact(t, h) == {a \in t.index : hash(key(t, a)) = h}
ram_of(t, k) == {a \in t.index : ~is_cold(t, a) /\ key(t, a) = k}
cold_of(t, k) == {a \in t.index : is_cold(t, a) /\ key(t, a) = k}

\* What a read of k may return: the RAM record outranks every cold one.
served(t, k) ==
    {t.recs[a].val : a \in IF ram_of(t, k) # {} THEN ram_of(t, k) ELSE cold_of(t, k)}

-----------------------------------------------------------------------------
(* The live set: what is dead in which file.                               *)

span(f) == f.base .. (f.end - 1)
is_dead(f) == IF f.exact THEN f.dead = f.end - f.base ELSE f.cnt = 0

others(t, a) == {f \in t.files : a \notin span(f)}
holder(t, a) == t.files \ others(t, a)

\* Mutant: a death above the flushed watermark, not the filed one, is pending.
note_dead_filed_pending(t, a) ==
    IF a >= t.flushed THEN t
    ELSE [t EXCEPT !.files = others(t, a) \cup
            {[f EXCEPT !.dead = @ + 1, !.stamp = t.begun,
                       !.cnt = IF f.recovered /\ @ > 0 THEN @ - 1 ELSE @] : f \in holder(t, a)}]

\* A death at or above the filed range stays pending: append_range finds it
\* as an address that is not slotted.
note_dead(t, a) ==
    IF a >= t.filed THEN t
    ELSE [t EXCEPT !.files = others(t, a) \cup
            {[f EXCEPT !.dead = @ + 1, !.stamp = t.begun,
                       !.cnt = IF f.recovered /\ @ > 0 THEN @ - 1 ELSE @] : f \in holder(t, a)}]

note_displaced(t, a) ==
    [t EXCEPT !.files = others(t, a) \cup
        {[f EXCEPT !.stamp = t.begun, !.cnt = IF @ > 0 THEN @ - 1 ELSE @] : f \in holder(t, a)}]

\* The writer's file is sealed; its seal is a fact when the round completes.
seal_active(t) ==
    [t EXCEPT !.files = {[f EXCEPT !.sealed = IF @ = "open" THEN "staged" ELSE @] : f \in @}]

create_file(t) ==
    [t EXCEPT !.next_id = @ + 1, !.files = @ \cup
        {[id |-> t.next_id, base |-> t.filed, end |-> t.filed, sealed |-> "open",
          dead |-> 0, cnt |-> 0, recovered |-> FALSE, exact |-> TRUE,
          stamp |-> t.begun, retiring |-> FALSE]}]

note_filed(t) ==
    LET lost == IF t.filed \in t.index THEN 0 ELSE 1
    IN  [t EXCEPT !.filed = @ + 1,
                  !.files = {IF f.sealed = "open" THEN [f EXCEPT !.end = @ + 1, !.dead = @ + lost] ELSE f :
                                f \in @}]

\* Appends the record at t.filed to the open file, or, when that is full, to
\* a new one after sealing it.
append_range(t) ==
    note_filed(IF \E f \in t.files : f.sealed = "open" /\ f.end - f.base < FILE_RECORDS THEN t
               ELSE create_file(seal_active(t)))

NoScan == [file |-> 0, next |-> 0, deferred |-> 0]

retire_scan(t, ckpt_id) ==
    LET files == {[f EXCEPT !.retiring = @ \/ (is_dead(f) /\ f.stamp < ckpt_id /\ f.sealed = "sealed")] : f \in t.files}
    IN  [t EXCEPT !.files = files,
                  !.compact = IF \E f \in files : f.retiring /\ f.id = @.file THEN NoScan ELSE @]

\* Mutant: files that died after the scan leave as well.
commit_retirement_all_dead(t) ==
    [t EXCEPT !.files = {f \in @ : ~is_dead(f) \/ f.sealed # "sealed"},
              !.origins = {o \in @ : o.stamp >= t.begun}]

\* The swap landed: retiring files leave, and so does every origin that the
\* landed checkpoint, the last one begun, cannot reference.
commit_retirement(t) ==
    [t EXCEPT !.files = {f \in @ : ~f.retiring},
              !.origins = {o \in @ : o.stamp >= t.begun}]

abort_retirement(t) ==
    [t EXCEPT !.files = {[f EXCEPT !.retiring = FALSE] : f \in @}]

-----------------------------------------------------------------------------
(* Relocation origins and shadow tickets.                                  *)

origins_of(t, a) == {o \in t.origins : o.at = a}
take_displacement_origins(t, a) == [t EXCEPT !.origins = @ \ origins_of(t, a)]
\* The origins of old follow the record to new; old joins them when chained.
chained(t, old, new, self) ==
    (t.origins \ origins_of(t, old))
        \cup {[o EXCEPT !.at = new] : o \in origins_of(t, old)}
        \cup IF self THEN {[at |-> new, addr |-> old, stamp |-> t.begun]} ELSE {}

is_shadow_cold(t, a) == \E x \in t.tickets : x.cold = a
shadow_winner_tickets(t, a) == {x \in t.tickets : x.winner = a}
shadow_note_removed(t, a) == [t EXCEPT !.tickets = {x \in @ : x.cold # a /\ x.winner # a}]
\* Mutant: an overwritten winner drops its tickets.
shadow_note_moved_drops(t, old, new) ==
    [t EXCEPT !.tickets = {x \in @ : x.cold # old /\ x.winner # old}]

shadow_note_moved(t, old, new) ==
    [t EXCEPT !.tickets = {IF x.winner = old THEN [x EXCEPT !.winner = new] ELSE x :
                              x \in {y \in @ : y.cold # old}}]
drop_ticket(t, c) == [t EXCEPT !.tickets = {x \in @ : x.cold # c}]
shadow_pinned(t) ==
    IF t.tickets = {} THEN 0 ELSE tail(t) - Min({x.winner : x \in t.tickets})

\* Mutant: admission forgets the origins the twin carries.
shadow_admit_origins_uncounted(t, cold) ==
    /\ Cardinality(t.tickets) < SHADOW_TICKETS_CAP
    /\ shadow_pinned(t) + 1 <= PIN_CAP

shadow_admit(t, cold) ==
    /\ Cardinality(t.tickets) < SHADOW_TICKETS_CAP
    /\ shadow_pinned(t) + 1 <= PIN_CAP
    /\ Cardinality(origins_of(t, cold)) + 1 <= RELOC_ORIGIN_CAP

register_shadow(t, cold, winner) ==
    [t EXCEPT !.tickets = @ \cup {[cold |-> cold, winner |-> winner, verified |-> FALSE]}]

verify_shadow(t, x) ==
    IF key(t, x.cold) = key(t, x.winner)
    THEN [t EXCEPT !.tickets = (@ \ {x}) \cup {[x EXCEPT !.verified = TRUE]}]
    ELSE drop_ticket(t, x.cold)

\* "exact" and "life" pass the twin's length to the live set, "boot" displaces
\* a reference; a twin of this life is chained by no checkpoint.
settle_fits(t, c, w, case) ==
    Cardinality(origins_of(t, w)) + Cardinality(origins_of(t, c))
        + (IF case = "life" THEN 0 ELSE 1) <= RELOC_ORIGIN_CAP
settle_pair(t, c, w, case) ==
    LET u == [t EXCEPT !.index = @ \ {c}, !.origins = chained(t, c, w, case # "life")]
    IN  IF case = "boot" THEN note_displaced(u, c) ELSE note_dead(u, c)

settle_ticket(t, x) == drop_ticket(settle_pair(t, x.cold, x.winner, "exact"), x.cold)

-----------------------------------------------------------------------------
(* Records: placing, moving, removing.                                     *)

place(t, k, v) ==
    [t EXCEPT !.recs = Append(@, [key |-> k, val |-> v]), !.index = @ \cup {tail(t)}]

overwrite(t, k, v, old) ==
    LET u == [place(t, k, v) EXCEPT !.index = @ \ {old}]
    IN  note_dead(shadow_note_moved(u, old, tail(t)), old)

fits_in_place(t, v, old) == old >= t.ro /\ size(v) = size(t.recs[old].val)
update(t, k, v, old) ==
    IF fits_in_place(t, v, old) THEN [t EXCEPT !.recs[old].val = v] ELSE overwrite(t, k, v, old)

delete(t, a) == note_dead(shadow_note_removed([t EXCEPT !.index = @ \ {a}], a), a)

\* Mutant: the move leaves no origin behind.
relocate_unchained(t, old) ==
    LET u == place(t, key(t, old), t.recs[old].val)
    IN  note_dead([u EXCEPT !.index = @ \ {old}, !.origins = chained(t, old, tail(t), FALSE)], old)

\* The unlogged move of a cold record to the tail (compaction, promotion).
relocate(t, old) ==
    LET u == place(t, key(t, old), t.recs[old].val)
    IN  note_dead([u EXCEPT !.index = @ \ {old}, !.origins = chained(t, old, tail(t), TRUE)], old)

\* Mutant: a record at its origin cap moves once more.
movable_uncapped(t, a) == ~is_shadow_cold(t, a)

movable(t, a) ==
    /\ ~is_shadow_cold(t, a)
    /\ Cardinality(origins_of(t, a)) < RELOC_ORIGIN_CAP

-----------------------------------------------------------------------------
(* The demotion leg: seal, flush rounds, release.                          *)

seal_slice(t) == [t EXCEPT !.ro = tail(t)]

\* Stages the sealed backlog of a round into tier files; nothing is durable.
stage_flush_round(t) == FoldLeft(LAMBDA u, i : append_range(u), t, [i \in 1..(t.ro - t.filed) |-> i])
\* The round's last barrier completed: its effects are facts.
complete_flush_round(t) ==
    [t EXCEPT !.flushed = t.filed,
              !.files = {[f EXCEPT !.sealed = IF @ = "staged" THEN "sealed" ELSE @] : f \in @}]

\* Mutant: records are released once filed, before their round's barrier.
release_ceiling_filed(t) ==
    Min({t.filed} \cup {x.winner : x \in t.tickets}
          \cup IF t.walk.on THEN {t.walk.w} \cup t.walk.images ELSE {})

release_ceiling(t) ==
    Min({t.flushed} \cup {x.winner : x \in t.tickets}
          \cup IF t.walk.on THEN {t.walk.w} \cup t.walk.images ELSE {})
release_slice(t) == [t EXCEPT !.head = release_ceiling(t)]

-----------------------------------------------------------------------------
(* Compaction.                                                             *)

finalize_scanned(t, doomed) ==
    [t EXCEPT !.files = (@ \ doomed) \cup {[f EXCEPT !.exact = TRUE, !.dead = f.end - f.base] : f \in doomed}]

\* Recovered files without a counted slot are dead on sight.
finalize_empty(t) ==
    finalize_scanned(t, {f \in t.files : f.recovered /\ ~f.exact /\ ~f.retiring /\ f.cnt = 0})

eligible(t, f) ==
    /\ ~f.retiring /\ ~is_dead(f) /\ f.end <= t.head /\ f.sealed = "sealed"
    /\ f.dead > 0                        \* either arm: some byte is dead

pick_candidate(t) ==
    LET u == finalize_empty(t)
        some == {f \in u.files : eligible(u, f)}
        first == CHOOSE f \in some : \A g \in some : f.base <= g.base
    IN  IF some = {} THEN u
        ELSE [u EXCEPT !.compact = [file |-> first.id, next |-> first.base, deferred |-> 0]]

\* One record of the chunk at the scan cursor: s is [t, stalled].
scan_record(s, a) ==
    LET t == s.t
        skip == [s EXCEPT !.t.compact.next = a + 1]
    IN  CASE s.stalled -> s
          [] a \notin t.index -> skip
          [] a \in t.index /\ ~movable(t, a) -> [skip EXCEPT !.t.compact.deferred = @ + 1]
          [] a \in t.index /\ movable(t, a) /\ ~room(t) -> [s EXCEPT !.stalled = TRUE]
          [] OTHER -> [s EXCEPT !.t = [relocate(t, a) EXCEPT !.compact.next = a + 1]]

\* The chunk runs from the cursor to the end of the file.
compaction_apply(t) ==
    LET f == CHOOSE g \in t.files : g.id = t.compact.file
        s == FoldLeft(scan_record, [t |-> t, stalled |-> FALSE],
                      [i \in 1..(f.end - t.compact.next) |-> t.compact.next + i - 1])
    IN  IF s.stalled THEN s.t
        ELSE [IF s.t.compact.deferred = 0 THEN finalize_scanned(s.t, {g \in s.t.files : g.id = f.id}) ELSE s.t
                EXCEPT !.compact = NoScan]

-----------------------------------------------------------------------------
(* The checkpoint walk: what an index entry becomes is fixed when it begins. *)

begin_ckpt_walk(t, id) ==
    [t EXCEPT !.begun = id,
              !.walk = [on |-> TRUE, w |-> t.flushed,
                        images |-> {x.winner : x \in t.tickets} \cap 1..(t.flushed - 1)]]
end_ckpt_walk(t) == [t EXCEPT !.walk = [on |-> FALSE, w |-> 0, images |-> {}]]
is_image(t, a) == a >= t.walk.w \/ a \in t.walk.images

walk_refs(t, h) == {a \in each_exact(t, h) : ~is_image(t, a)}
walk_images(t, h) == {t.recs[a] : a \in {b \in each_exact(t, h) : is_image(t, b)}}

\* The files a MANIFEST names, clamped to what is flushed.
tier_manifest(t) ==
    {[id |-> f.id, base |-> f.base, end |-> Min({f.end, t.flushed})] :
        f \in {g \in t.files : ~g.retiring /\ g.base < t.flushed}}
live_set_entries(t) ==
    {[id |-> f.id, len |-> f.end - f.base, dead |-> f.dead, exact |-> f.exact] : f \in t.files}
=============================================================================
