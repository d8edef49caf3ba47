---------------------------- MODULE CatalogWriter ----------------------------
(***************************************************************************)
(* The single writer of the namespace catalog (inf-server/src/control.rs): *)
(* the pending creates and the drop tombstones it merges into every        *)
(* exported catalog before it swaps META.                                  *)
(*                                                                         *)
(* A namespace spec is a record with an id, a name and a mode.  A catalog  *)
(* is [next_id, entries, dropped], the writer's state w is [pending: set   *)
(* of specs, tombs: set of [id, epoch]]; epoch 0 is an unstamped           *)
(* tombstone.                                                              *)
(***************************************************************************)
EXTENDS Integers, FiniteSets

CONSTANTS
    PENDING_CREATE_MAX,   \* creates between their swap and the end of their fan
    FIRST_NAMED_NS_ID

Unstamped == 0

Ids(specs) == {s.id : s \in specs}

-----------------------------------------------------------------------------
\* PendingCreates.

retire_pending(pending, id) == {s \in pending : s.id # id}

\* Mutant: a payload is taken as the exporting cell knows it.
merge_nothing(pending, entries) == entries

\* Every pending spec the payload lacks joins it.
merge(pending, entries) ==
    entries \cup {s \in pending : s.id \notin Ids(entries)}

\* The verdict on a create, against the merged payload.
admit(pending, entries, spec) ==
    IF \E e \in entries : e.name = spec.name THEN "NameExists"
    ELSE IF Cardinality(pending) >= PENDING_CREATE_MAX THEN "AtCapacity"
    ELSE "Accepted"

-----------------------------------------------------------------------------
\* DropTombstones.

seed(ids) == {[id |-> i, epoch |-> Unstamped] : i \in ids}

add(tombs, id) ==
    IF id \in Ids(tombs) THEN tombs
    ELSE tombs \cup {[id |-> id, epoch |-> Unstamped]}

\* A later stamp never lowers the epoch.
stamp(tombs, id, epoch) ==
    {IF t.id = id /\ t.epoch < epoch THEN [t EXCEPT !.epoch = epoch] ELSE t : t \in tombs}

stamp_unstamped(tombs, epoch) ==
    {IF t.epoch = Unstamped THEN [t EXCEPT !.epoch = epoch] ELSE t : t \in tombs}

\* Mutant: a tombstone nobody stamped yet counts as stamped with epoch 0.
retire_unstamped(tombs, min_published) == {t \in tombs : t.epoch > min_published}

\* A stamped tombstone retires once every cell published a checkpoint of its epoch.
retire(tombs, min_published) ==
    {t \in tombs : t.epoch = Unstamped \/ t.epoch > min_published}

\* Mutant: the payload's entries are not pruned.
reconcile_unpruned(tombs, entries) == entries

\* An entry with a tombstone is the lag of a stale export, never a live namespace.
reconcile(tombs, entries) == {e \in entries : e.id \notin Ids(tombs)}

-----------------------------------------------------------------------------
\* One persist.  req is [entries, next_id, epoch, drop, dropped, create]: drop is the
\* id that gets a tombstone, dropped the id that leaves the pending set (0: none),
\* create the set with the spec of a CREATE.

pending_after(w, req) == retire_pending(w.pending, req.dropped)

tombs_after(w, req, min_published) ==
    retire(IF req.drop = 0 THEN w.tombs ELSE add(w.tombs, req.drop), min_published)

admitted(w, req) ==
    LET pending == pending_after(w, req)
    IN  {s \in req.create : admit(pending, merge(pending, req.entries), s) = "Accepted"}

verdict_of(w, req) ==
    LET pending == pending_after(w, req)
    IN  {admit(pending, merge(pending, req.entries), s) : s \in req.create}

writer_after(w, req, min_published) ==
    [pending |-> pending_after(w, req) \cup admitted(w, req),
     tombs   |-> tombs_after(w, req, min_published)]

\* The payload: the counter covers its allocator, the pending creates join before
\* the tombstones prune.
prepare_persist(w, req, next_ns_id, min_published) ==
    LET tombs == tombs_after(w, req, min_published)
        entries == merge(pending_after(w, req), req.entries) \cup admitted(w, req)
    IN  [next_id |-> IF req.next_id > next_ns_id THEN req.next_id ELSE next_ns_id,
         entries |-> reconcile(tombs, entries),
         dropped |-> Ids(tombs)]
==============================================================================
