---------------------------- MODULE TieredReplay ----------------------------
(***************************************************************************)
(* A tiered namespace rebuilt at boot from its recovery unit: the tier     *)
(* section of the MANIFEST, the checkpoint it names and the log behind the *)
(* checkpoint's begin marker (inf-store/src/tiered_recover.rs,             *)
(* tiered/replay.rs, keyspace.rs and the shadow rebuild). Nothing the boot *)
(* writes is named by a MANIFEST before the next swap, so the boot is one  *)
(* function of the unit and the log.                                       *)
(*                                                                         *)
(* A replay value is [t, spilling, refused]: the table, whether it has     *)
(* demoted, and whether the boot refuses.                                  *)
(***************************************************************************)
EXTENDS TieredTable

CONSTANT DISPLACE_REGISTER_CAP   \* markers one mutation may carry

\* The recovered table: every manifested file sealed at its manifested
\* length, its counters at zero, the new life starting at flushed.
recover_tiered_ns(m, recs) ==
    [recs |-> SubSeq(recs, 1, m.flushed - 1), index |-> {},
     head |-> m.flushed, flushed |-> m.flushed, ro |-> m.flushed, filed |-> m.flushed,
     origin |-> m.flushed,
     files |-> {[id |-> f.id, base |-> f.base, end |-> f.end, sealed |-> "sealed", dead |-> 0,
                 cnt |-> 0, recovered |-> TRUE, exact |-> FALSE, stamp |-> m.id,
                 retiring |-> FALSE] : f \in m.files},
     next_id |-> Max({0} \cup {f.id : f \in m.files}) + 1,
     begun |-> m.id, origins |-> {}, tickets |-> {}, compact |-> NoScan,
     walk |-> [on |-> FALSE, w |-> 0, images |-> {}]]

replay_refs(t, refs) ==
    [t EXCEPT !.index = refs,
              !.files = {[f EXCEPT !.cnt = Cardinality(refs \cap span(f))] : f \in @}]

restore_entry(t, e) ==
    LET named == {f \in t.files : f.id = e.id /\ f.recovered /\ f.end - f.base = e.len}
    IN  [t EXCEPT !.files = (@ \ named) \cup
            {[f EXCEPT !.dead = e.dead, !.exact = e.exact /\ e.dead = e.len] : f \in named}]

-----------------------------------------------------------------------------
(* Demotion during replay: every sealed record is first told apart from    *)
(* the cold slots of its hash, so that the record going cold is the only   *)
(* one of its key.                                                         *)

at_boot(t, c) == IF c < t.origin THEN "boot" ELSE "life"

settle_twin(r, p) ==
    IF key(r.t, p[1]) # key(r.t, p[2]) THEN r
    ELSE IF settle_fits(r.t, p[1], p[2], at_boot(r.t, p[1]))
         THEN [r EXCEPT !.t = settle_pair(@, p[1], p[2], at_boot(r.t, p[1]))]
         ELSE [r EXCEPT !.refused = TRUE]

\* Every live record from ro on against the cold slots of its hash.
settle_walk(r) ==
    LET t == r.t
        pairs == {<<c, w>> \in t.index \X t.index :
                    is_cold(t, c) /\ w >= t.ro /\ hash(key(t, c)) = hash(key(t, w))}
    IN  FoldLeft(settle_twin, r, SetToSortSeq(pairs, LAMBDA p, q : p[2] < q[2] \/ (p[2] = q[2] /\ p[1] < q[1])))

demote(r) ==
    LET s == settle_walk(r)
        filed == stage_flush_round(seal_slice(s.t))
    IN  [s EXCEPT !.spilling = TRUE, !.t = release_slice(complete_flush_round(filed))]

make_room(r) == IF room(r.t) THEN r ELSE demote(r)

-----------------------------------------------------------------------------
(* Replay of images and log records.                                       *)

replay_displace(t, h, a) ==
    IF a >= t.origin \/ a \notin each_exact(t, h) THEN t
    ELSE note_displaced(shadow_note_removed([t EXCEPT !.index = @ \ {a}], a), a)
drain_markers(t, h, marks) ==
    FoldLeft(LAMBDA u, a : replay_displace(u, h, a), t, SetToSeq(marks))

\* A RAM record of the key is overwritten and hands its origins on; a cold
\* slot of the key is left alone.
apply_image(t, k, v) ==
    IF ram_of(t, k) = {} THEN place(t, k, v)
    ELSE LET old == CHOOSE a \in ram_of(t, k) : TRUE
         IN  [overwrite(t, k, v, old) EXCEPT !.origins = chained(t, old, tail(t), FALSE)]

apply_delete(t, k) ==
    IF ram_of(t, k) = {} THEN t
    ELSE LET old == CHOOSE a \in ram_of(t, k) : TRUE
         IN  take_displacement_origins(delete(t, old), old)

\* Past the first demotion a Delete also removes the cold copies this boot
\* made of the key; the older ones are the markers' business.
doomed(r, k) == IF r.spilling THEN {a \in cold_of(r.t, k) : a >= r.t.origin} ELSE {}
remove_doomed(t, a) == note_dead([t EXCEPT !.index = @ \ {a}, !.origins = @ \ origins_of(t, a)], a)

replay_upsert(r, marks, k, v) ==
    LET s == make_room(r)
    IN  [s EXCEPT !.t = apply_image(drain_markers(@, hash(k), marks), k, v)]
replay_delete(r, marks, k) ==
    LET u == apply_delete(drain_markers(r.t, hash(k), marks), k)
    IN  [r EXCEPT !.t = FoldLeft(remove_doomed, u, SetToSeq(doomed(r, k)))]

apply_record_tiered(r, e) ==
    CASE Cardinality(e.marks) > DISPLACE_REGISTER_CAP -> [r EXCEPT !.refused = TRUE]
      [] e.op = "set" -> replay_upsert(r, e.marks, e.key, e.val)
      [] e.op = "del" -> replay_delete(r, e.marks, e.key)

-----------------------------------------------------------------------------
(* Hand-over: the rest settles, then every cold slot beside one RAM record *)
(* of its hash gets a ticket again; an ambiguous one is read now.          *)

end_of_replay(r) ==
    IF r.spilling THEN [settle_walk(r) EXCEPT !.t = complete_flush_round(seal_active(@))] ELSE r

rebuild_slot(r, c) ==
    LET t == r.t
        siblings == {a \in each_exact(t, hash(key(t, c))) : ~is_cold(t, a)}
        twin == ram_of(t, key(t, c))
        w == CHOOSE a \in twin : TRUE
    IN  CASE siblings = {} -> r
          [] Cardinality(siblings) = 1 /\ Cardinality(t.tickets) < SHADOW_TICKETS_CAP ->
                [r EXCEPT !.t = register_shadow(t, c, CHOOSE a \in siblings : TRUE)]
          [] OTHER ->
                IF twin = {} THEN r
                ELSE IF settle_fits(t, c, w, "exact") THEN [r EXCEPT !.t = settle_pair(t, c, w, "exact")]
                ELSE [r EXCEPT !.refused = TRUE]

rebuild_shadow_tickets(r) ==
    FoldLeft(rebuild_slot, r, SetToSortSeq({a \in r.t.index : is_cold(r.t, a)}, <))

recover(m, recs, tail_log) ==
    LET seeded == [t |-> replay_refs(recover_tiered_ns(m, recs), m.refs),
                   spilling |-> FALSE, refused |-> FALSE]
        imaged == FoldLeft(LAMBDA r, i : replay_upsert(r, {}, i.key, i.val), seeded, m.images)
        counted == [imaged EXCEPT !.t = FoldLeft(restore_entry, @, SetToSeq(m.entries))]
    IN  rebuild_shadow_tickets(end_of_replay(FoldLeft(apply_record_tiered, counted, tail_log)))
=============================================================================
