----------------------------- MODULE NamespaceDdl -----------------------------
(***************************************************************************)
(* Namespace DDL of a node: the CREATE, SET and DROP programs of           *)
(* inf-server/src/plane/ns_ddl.rs, the fan to the peers, the catalog       *)
(* writer, the index flip that persists a catalog beside them, and the     *)
(* cells' checkpoints, which decide when a tombstone may go and what a     *)
(* boot finds after a crash.                                               *)
(*                                                                         *)
(* One program runs at a time (the DDL ticket).  A cell's tier files of a  *)
(* namespace, its sections in a checkpoint and its log records are one     *)
(* mark each: present or not.                                              *)
(***************************************************************************)
EXTENDS CatalogWriter, Sequences, FiniteSetsExt

CONSTANTS
    N,                \* cells
    Names, Modes,     \* names and modes a client uses; modes "tiered", "memory"
    Founded,          \* namespaces the node starts with: ids from FIRST_NAMED_NS_ID on
    DROPPED_NS_MAX,   \* tombstones at which a DROP waits for a checkpoint first
    Workloads         \* bounds of a behaviour, one of these: the names its DDLs are about,
                      \* in order; how often it crashes; how many writes, index flips and
                      \* checkpoints nobody requested it has, together

ASSUME NsAssumption ==
    /\ N \in Nat \ {0} /\ Modes \subseteq {"tiered", "memory"}
    /\ FIRST_NAMED_NS_ID \in Nat \ {0} /\ IsFiniteSet(Founded)
    /\ Founded \subseteq
           [id : FIRST_NAMED_NS_ID..(FIRST_NAMED_NS_ID + Cardinality(Founded) - 1),
            name : Names, mode : Modes, val : {0, 1}]

Cells == 0..(N - 1)

VARIABLES
    reg,        \* cell -> the specs it serves
    teardown,   \* cell -> tier files of dropped namespaces, held until an epoch
    ck,         \* cell -> the checkpoint in progress
    disk,       \* cell -> the durable checkpoint, the log tail, the tier files
    prog,       \* the DDL program that holds the ticket
    queue,      \* messages to the control thread
    w,          \* the catalog writer
    meta,       \* the durable catalog
    ctl,        \* allocators and epochs: next_ns_id, next_epoch, persisted
    board,      \* checkpoint board: clock, request_all, published per cell
    up,         \* FALSE: the boot refused
    promised,   \* specs whose CREATE or SET was answered OK, no later DDL begun
    gone,       \* specs whose DROP was answered OK or whose CREATE was undone
    cut,        \* the last crash hit between a drop here and its swap
    budget      \* what is left of the workload

vars == <<reg, teardown, ck, disk, prog, queue, w, meta, ctl, board, up,
          promised, gone, cut, budget>>

NoSpec == [id |-> 0, name |-> "", mode |-> "memory", val |-> 0]
Idle == [pc |-> "idle", cell |-> 0, spec |-> NoSpec, epoch |-> 0, left |-> {},
         failed |-> FALSE, verdict |-> {}]
NoCkpt == [phase |-> "idle", epoch |-> 0, refs |-> {}, tail |-> {}]

durable(s) == s.mode = "tiered"
named(c, name) == {s \in reg[c] : s.name = name}
TieredIds(c) == {s.id : s \in {r \in reg[c] : r.mode = "tiered"}}

\* A node that serves the founding namespaces, each with a checkpoint on every cell.
Init ==
    LET tiered == {s.id : s \in {f \in Founded : f.mode = "tiered"}}
        next == FIRST_NAMED_NS_ID + Cardinality(Founded)
    IN  /\ reg = [c \in Cells |-> Founded]
        /\ disk = [c \in Cells |-> [refs |-> tiered, sections |-> tiered, tail |-> {},
                                     cold |-> tiered]]
        /\ meta = [next_id |-> next, entries |-> Founded, dropped |-> {}]
        /\ ctl = [next_ns_id |-> next, next_epoch |-> 0, persisted |-> 0]
        /\ teardown = [c \in Cells |-> {}]
        /\ ck = [c \in Cells |-> NoCkpt]
        /\ prog = Idle /\ queue = <<>> /\ w = [pending |-> {}, tombs |-> {}]
        /\ board = [clock |-> 0, request_all |-> 0, published |-> [c \in Cells |-> 0]]
        /\ up = TRUE /\ promised = Founded /\ gone = {} /\ cut = FALSE
        /\ budget \in Workloads

Asks(name) ==
    /\ budget.ddl # <<>> /\ name = Head(budget.ddl)
    /\ budget' = [budget EXCEPT !.ddl = Tail(@)]

Spends(what) == budget[what] > 0 /\ budget' = [budget EXCEPT ![what] = @ - 1]

min_published == Min({board.published[c] : c \in Cells})

-----------------------------------------------------------------------------
\* ControlHandle: what a program sends the control thread.

\* A catalog as cell c's registry exports it (export_catalog), queued for a swap.
Request(entries, drop, dropped, create, next) ==
    [kind |-> "Persist", entries |-> entries, next_id |-> next,
     epoch |-> ctl.next_epoch + 1, drop |-> drop, dropped |-> dropped,
     create |-> create]

send_persist(entries, drop, dropped, create, next) ==
    /\ queue' = Append(queue, Request(entries, drop, dropped, create, next))
    /\ ctl' = [ctl EXCEPT !.next_epoch = @ + 1, !.next_ns_id = next]

persisted(epoch) == ctl.persisted >= epoch

\* CkptCredit::issue: a fresh epoch, raised on the all-cell word.
issue_all(b) == [b EXCEPT !.clock = @ + 1, !.request_all = b.clock + 1]

\* The reply, and the release of the ticket.
answer == prog' = Idle

fan_targets(c) == Cells \ {c}

-----------------------------------------------------------------------------
\* CREATE: persist the catalog that names it, then apply, then fan.

\* The id is allocated first; a local check (name, pending creates) may still refuse.
CreateBegin(c, name, mode) ==
    /\ prog.pc = "idle" /\ Asks(name)
    /\ IF named(c, name) # {} \/ Cardinality(w.pending) >= PENDING_CREATE_MAX
       THEN ctl' = [ctl EXCEPT !.next_ns_id = @ + 1] /\ UNCHANGED <<prog, queue>>
       ELSE LET spec == [id |-> ctl.next_ns_id, name |-> name, mode |-> mode, val |-> 0]
            IN  /\ send_persist(reg[c], 0, 0, {spec}, ctl.next_ns_id + 1)
                /\ prog' = [Idle EXCEPT !.pc = "create_swap", !.cell = c, !.spec = spec,
                                        !.epoch = ctl.next_epoch + 1]
    /\ UNCHANGED <<reg, teardown, ck, disk, w, meta, board, up, promised, gone, cut>>

\* The verdict is in.  An accepted tiered namespace may still be refused by the OS
\* (its ring reservation); the pending entry then retires and the definition stays
\* in META until the next persist.
CreateApply ==
    /\ prog.pc = "create_swap" /\ persisted(prog.epoch)
    /\ IF prog.verdict # {"Accepted"}
       THEN answer /\ UNCHANGED <<reg, queue>>
       ELSE \/ /\ prog.spec.mode = "tiered"
               /\ queue' = Append(queue, [kind |-> "CreateApplied", id |-> prog.spec.id])
               /\ answer
               /\ UNCHANGED reg
            \/ /\ reg' = [reg EXCEPT ![prog.cell] = @ \cup {prog.spec}]
               /\ prog' = [prog EXCEPT !.pc = "create_fan",
                                       !.left = fan_targets(prog.cell)]
               /\ UNCHANGED queue
    /\ UNCHANGED <<teardown, ck, disk, w, meta, ctl, board, up, promised, gone, budget, cut>>

\* A peer's leg: a name it has, or the OS, refuses it.
CreateLeg ==
    /\ prog.pc = "create_fan" /\ prog.left # {}
    /\ LET p == Min(prog.left)
       IN  \/ /\ named(p, prog.spec.name) = {}
              /\ reg' = [reg EXCEPT ![p] = @ \cup {prog.spec}]
              /\ prog' = [prog EXCEPT !.left = @ \ {p}]
           \/ /\ named(p, prog.spec.name) # {} \/ prog.spec.mode = "tiered"
              /\ prog' = [prog EXCEPT !.left = @ \ {p}, !.failed = TRUE]
              /\ UNCHANGED reg
    /\ UNCHANGED <<teardown, ck, disk, queue, w, meta, ctl, board, up, promised, gone, cut,
                   budget>>

\* The local half of a drop: the registry, the persist that carries it, and the tier
\* files parked on its epoch.  A durable namespace's id gets a tombstone.
drop_here(spec) ==
    /\ reg' = [reg EXCEPT ![prog'.cell] = @ \ {spec}]
    /\ send_persist(reg'[prog'.cell], IF durable(spec) THEN spec.id ELSE 0, spec.id,
                    {}, ctl.next_ns_id)
    /\ teardown' = [teardown EXCEPT ![prog'.cell] =
                        IF spec.mode = "tiered"
                        THEN @ \cup {[id |-> spec.id, epoch |-> ctl.next_epoch + 1]}
                        ELSE @]

\* One refusal undoes the CREATE everywhere; else it is done.
CreateEnd ==
    /\ prog.pc = "create_fan" /\ prog.left = {}
    /\ IF prog.failed
       THEN /\ prog' = [prog EXCEPT !.pc = "undo_swap", !.epoch = ctl.next_epoch + 1]
            /\ drop_here(prog.spec)
            /\ UNCHANGED promised
       ELSE /\ queue' = Append(queue, [kind |-> "CreateApplied", id |-> prog.spec.id])
            /\ promised' = promised \cup {prog.spec}
            /\ answer
            /\ UNCHANGED <<reg, teardown, ctl>>
    /\ UNCHANGED <<ck, disk, w, meta, board, up, gone, budget, cut>>

-----------------------------------------------------------------------------
\* DROP, and the rollback of a CREATE from its swap on.

\* The drop applies here and is on its way to META.
drop_local(c, spec) ==
    /\ prog' = [Idle EXCEPT !.pc = "drop_swap", !.cell = c, !.spec = spec,
                            !.epoch = ctl.next_epoch + 1]
    /\ drop_here(spec)
    /\ promised' = {s \in promised : s.id # spec.id}

DropBegin(c, name) ==
    /\ prog.pc = "idle" /\ Asks(name)
    /\ \/ /\ named(c, name) = {}
          /\ answer
          /\ UNCHANGED <<reg, teardown, queue, ctl, board, promised>>
       \/ \E spec \in named(c, name) :
             /\ IF durable(spec) /\ Cardinality(w.tombs) >= DROPPED_NS_MAX
                THEN /\ board' = issue_all(board)
                     /\ prog' = [Idle EXCEPT !.pc = "drop_pace", !.cell = c,
                                             !.spec = spec, !.epoch = board.clock + 1]
                     /\ UNCHANGED <<reg, teardown, queue, ctl, promised>>
                ELSE drop_local(c, spec) /\ UNCHANGED board
    /\ UNCHANGED <<ck, disk, w, meta, up, gone, cut>>

\* At the cap the drop first waits for a checkpoint of every cell.
DropPaced ==
    /\ prog.pc = "drop_pace" /\ min_published >= prog.epoch
    /\ drop_local(prog.cell, prog.spec)
    /\ UNCHANGED <<ck, disk, w, meta, board, up, gone, cut,
                   budget>>

\* Mutant: a rollback drops here and sends no legs.
DropSwapped_rollback_local ==
    /\ prog.pc \in {"drop_swap", "undo_swap"} /\ persisted(prog.epoch)
    /\ prog' = [prog EXCEPT !.pc = IF @ = "drop_swap" THEN "drop_fan" ELSE "undo_fan",
                            !.left = IF prog.pc = "drop_swap" THEN fan_targets(prog.cell)
                                     ELSE {},
                            !.failed = FALSE]
    /\ UNCHANGED <<reg, teardown, ck, disk, queue, w, meta, ctl, board, up, promised, gone, cut,
                   budget>>

DropSwapped ==
    /\ prog.pc \in {"drop_swap", "undo_swap"} /\ persisted(prog.epoch)
    /\ prog' = [prog EXCEPT !.pc = IF @ = "drop_swap" THEN "drop_fan" ELSE "undo_fan",
                            !.left = fan_targets(prog.cell),
                            !.failed = FALSE]
    /\ UNCHANGED <<reg, teardown, ck, disk, queue, w, meta, ctl, board, up, promised, gone, cut,
                   budget>>

\* A peer drops by name and parks the files it has on the epoch the leg carries.
DropLeg ==
    /\ prog.pc \in {"drop_fan", "undo_fan"} /\ prog.left # {}
    /\ LET p == Min(prog.left)
           found == named(p, prog.spec.name)
       IN  /\ reg' = [reg EXCEPT ![p] = @ \ found]
           /\ teardown' = [teardown EXCEPT ![p] = @ \cup
                  {[id |-> s.id, epoch |-> prog.epoch] : s \in {r \in found : r.mode = "tiered"}}]
           /\ prog' = [prog EXCEPT !.left = @ \ {p}, !.failed = @ \/ found = {}]
    /\ UNCHANGED <<ck, disk, queue, w, meta, ctl, board, up, promised, gone, cut, budget>>

\* Every cell applied the drop: the checkpoint requested now retires the tombstone.
\* A DROP whose fan failed answers the error and leaves its tombstone unstamped.
DropEnd ==
    /\ prog.pc \in {"drop_fan", "undo_fan"} /\ prog.left = {}
    /\ LET stamps == durable(prog.spec) /\ (prog.pc = "undo_fan" \/ ~prog.failed)
           ok == prog.pc = "drop_fan" /\ ~prog.failed
       IN  /\ board' = IF stamps THEN issue_all(board) ELSE board
           /\ queue' = IF stamps
                       THEN Append(queue, [kind |-> "StampDrop", id |-> prog.spec.id,
                                           epoch |-> board.clock + 1])
                       ELSE queue
           /\ gone' = IF ok \/ prog.pc = "undo_fan" THEN gone \cup {prog.spec} ELSE gone
           /\ answer
    /\ UNCHANGED <<reg, teardown, ck, disk, w, meta, ctl, up, promised, budget, cut>>

-----------------------------------------------------------------------------
\* SET: apply here, fan, persist, answer.  A setting is a value of the spec.

set_on(c, name, val) == {IF s.name = name THEN [s EXCEPT !.val = val] ELSE s : s \in reg[c]}

SetBegin(c, name) ==
    /\ prog.pc = "idle" /\ Asks(name)
    /\ \E spec \in named(c, name) :
         /\ reg' = [reg EXCEPT ![c] = set_on(c, name, 1 - spec.val)]
         /\ prog' = [Idle EXCEPT !.pc = "set_fan", !.cell = c, !.left = fan_targets(c),
                                 !.spec = [spec EXCEPT !.val = 1 - @]]
         /\ promised' = {s \in promised : s.id # spec.id}
    /\ UNCHANGED <<teardown, ck, disk, queue, w, meta, ctl, board, up, gone, cut>>

SetLeg ==
    /\ prog.pc = "set_fan" /\ prog.left # {}
    /\ LET p == Min(prog.left)
       IN  /\ reg' = [reg EXCEPT ![p] = set_on(p, prog.spec.name, prog.spec.val)]
           /\ prog' = [prog EXCEPT !.left = @ \ {p},
                                   !.failed = @ \/ named(p, prog.spec.name) = {}]
    /\ UNCHANGED <<teardown, ck, disk, queue, w, meta, ctl, board, up, promised, gone, cut,
                   budget>>

SetPersist ==
    /\ prog.pc = "set_fan" /\ prog.left = {}
    /\ IF prog.failed
       THEN answer /\ UNCHANGED <<queue, ctl>>
       ELSE /\ send_persist(reg[prog.cell], 0, 0, {}, ctl.next_ns_id)
            /\ prog' = [prog EXCEPT !.pc = "set_swap", !.epoch = ctl.next_epoch + 1]
    /\ UNCHANGED <<reg, teardown, ck, disk, w, meta, board, up, promised, gone, budget, cut>>

SetEnd ==
    /\ prog.pc = "set_swap" /\ persisted(prog.epoch)
    /\ promised' = promised \cup {prog.spec}
    /\ answer
    /\ UNCHANGED <<reg, teardown, ck, disk, queue, w, meta, ctl, board, up, gone, budget, cut>>

-----------------------------------------------------------------------------
\* The control thread and the other exporter.

\* One message.  A persist prepares the payload, swaps META and publishes the epoch.
ControlStep ==
    /\ queue # <<>> /\ queue' = Tail(queue)
    /\ LET m == Head(queue)
       IN  CASE m.kind = "Persist" ->
                  /\ w' = writer_after(w, m, min_published)
                  /\ meta' = prepare_persist(w, m, ctl.next_ns_id, min_published)
                  /\ ctl' = [ctl EXCEPT !.persisted = m.epoch]
                  /\ prog' = IF prog.spec \in m.create
                             THEN [prog EXCEPT !.verdict = verdict_of(w, m)] ELSE prog
             [] m.kind = "StampDrop" ->
                  /\ w' = [w EXCEPT !.tombs = stamp(@, m.id, m.epoch)]
                  /\ UNCHANGED <<meta, ctl, prog>>
             [] m.kind = "CreateApplied" ->
                  /\ w' = [w EXCEPT !.pending = retire_pending(@, m.id)]
                  /\ UNCHANGED <<meta, ctl, prog>>
    /\ UNCHANGED <<reg, teardown, ck, disk, board, up, promised, gone, cut, budget>>

\* An index became ready on every cell: cell 0 persists its catalog, outside the
\* ticket and without waiting.
IndexFlip ==
    /\ Spends("extra")
    /\ send_persist(reg[0], 0, 0, {}, ctl.next_ns_id)
    /\ UNCHANGED <<reg, teardown, ck, disk, prog, w, meta, board, up, promised, gone, cut>>

-----------------------------------------------------------------------------
\* A cell between DDLs: writes, checkpoints and the teardown of dropped files.

\* A durable write is logged; its demotion may make a tier file.
Write(c) ==
    /\ Spends("extra")
    /\ \E id \in TieredIds(c), filed \in BOOLEAN :
         /\ disk' = [disk EXCEPT ![c].tail = @ \cup {id},
                                 ![c].cold = IF filed THEN @ \cup {id} ELSE @]
         /\ ck' = [ck EXCEPT ![c].tail = IF ck[c].phase = "idle" THEN @ ELSE @ \cup {id}]
    /\ UNCHANGED <<reg, teardown, prog, queue, w, meta, ctl, board, up, promised, gone, cut>>

\* Mutant: only a request for this cell alone is seen.
requested_own_only(c) == 0

\* The epoch a cell owes.  A checkpoint it began satisfies the epoch of that time.
requested(c) == board.request_all

Begin(c) ==
    /\ ck[c].phase = "idle"
    /\ ck' = [ck EXCEPT ![c] = [NoCkpt EXCEPT !.phase = "begun", !.epoch = requested(c)]]
    /\ UNCHANGED <<reg, teardown, disk, prog, queue, w, meta, ctl, board, up, promised, gone,
                   cut>>

CkptRequested(c) == requested(c) > ck[c].epoch /\ Begin(c) /\ UNCHANGED budget

\* A checkpoint the log's growth begins.
CkptByGrowth(c) == requested(c) <= ck[c].epoch /\ Begin(c) /\ Spends("extra")

\* The walk writes a reference section for each tiered namespace with cold records.
CkptWalk(c) ==
    /\ ck[c].phase = "begun"
    /\ ck' = [ck EXCEPT ![c].phase = "walked", ![c].refs = TieredIds(c) \cap disk[c].cold]
    /\ UNCHANGED <<reg, teardown, disk, prog, queue, w, meta, ctl, board, up, promised, gone, cut,
                   budget>>

\* The swap writes a tier section for each tiered namespace the cell has then, and
\* publishes the epoch.  A cut between the rename and the directory sync leaves the
\* state before this step or the one after it.
Swap(c) ==
    /\ ck[c].phase = "walked"
    /\ disk' = [disk EXCEPT ![c].refs = ck[c].refs, ![c].sections = TieredIds(c),
                            ![c].tail = ck[c].tail]
    /\ board' = [board EXCEPT !.published[c] = Max({@, ck[c].epoch})]
    /\ ck' = [ck EXCEPT ![c] = [NoCkpt EXCEPT !.epoch = ck[c].epoch]]
    /\ UNCHANGED <<reg, teardown, prog, queue, w, meta, ctl, up, promised, gone, cut, budget>>

\* Mutant: dropped files are unlinked without the hold.
teardown_free_unheld(t) == TRUE

\* Dropped files wait for the swap that drops their namespace.
teardown_free(t) == persisted(t.epoch)

maintain_teardown(c) ==
    /\ \E t \in teardown[c] :
         /\ teardown_free(t)
         /\ teardown' = [teardown EXCEPT ![c] = @ \ {t}]
         /\ disk' = [disk EXCEPT ![c].cold = @ \ {t.id}]
    /\ UNCHANGED <<reg, ck, prog, queue, w, meta, ctl, board, up, promised, gone, cut, budget>>

-----------------------------------------------------------------------------
\* A crash and the boot behind it.

\* Mutant: the allocator restarts behind the live namespaces.
next_id_live(cat) == Max({FIRST_NAMED_NS_ID} \cup {s.id + 1 : s \in cat.entries})

next_id_at_boot(cat) == Max({FIRST_NAMED_NS_ID, cat.next_id})

TieredIn(cat) == {s.id : s \in {e \in cat.entries : e.mode = "tiered"}}

\* A tier section of the MANIFEST whose id is neither in the catalog nor tombstoned.
unknown_sections(cat, d) == d.sections \ (TieredIn(cat) \cup cat.dropped)

\* Mutant: a tombstone does not excuse a reference section.
stray_refs_tombstoned(cat, d) == d.refs \ (TieredIn(cat) \cap d.sections)

\* A reference section of the checkpoint, not tombstoned, whose namespace the MANIFEST
\* or the catalog lacks.
stray_refs(cat, d) == (d.refs \ cat.dropped) \ (TieredIn(cat) \cap d.sections)

\* What recovery refuses on a cell.
refuses(cat, d) == unknown_sections(cat, d) \cup stray_refs(cat, d) # {}

\* Tombstoned residue is swept; a namespace no section names starts without files.
recovered(cat, d) ==
    [d EXCEPT !.cold = {i \in @ : /\ i \notin cat.dropped
                                  /\ i \in Ids(cat.entries) => i \in d.sections}]

Crash ==
    /\ Spends("crash")
    /\ up' = ~ \E c \in Cells : refuses(meta, disk[c])
    /\ disk' = IF up' THEN [c \in Cells |-> recovered(meta, disk[c])] ELSE disk
    /\ reg' = [c \in Cells |-> meta.entries]
    /\ teardown' = [c \in Cells |-> {}]
    /\ ck' = [c \in Cells |-> NoCkpt]
    /\ prog' = Idle /\ queue' = <<>>
    /\ cut' = (prog.pc \in {"drop_swap", "undo_swap"})
    /\ LET survivors == seed(meta.dropped)
           fresh == IF survivors = {} THEN 0 ELSE 1
       IN  /\ board' = [clock |-> fresh, request_all |-> fresh,
                        published |-> [c \in Cells |-> 0]]
           /\ w' = [pending |-> {}, tombs |-> stamp_unstamped(survivors, fresh)]
    /\ ctl' = [next_ns_id |-> next_id_at_boot(meta), next_epoch |-> 0, persisted |-> 0]
    /\ UNCHANGED <<meta, promised, gone>>

Program ==
    \/ CreateApply \/ CreateLeg \/ CreateEnd
    \/ DropPaced \/ DropSwapped \/ DropLeg \/ DropEnd
    \/ SetLeg \/ SetPersist \/ SetEnd

CkptStep(c) == CkptRequested(c) \/ CkptWalk(c) \/ Swap(c)

Next ==
    /\ up
    /\ \/ Program \/ ControlStep \/ IndexFlip \/ Crash
       \/ \E c \in Cells, name \in Names :
             \/ \E mode \in Modes : CreateBegin(c, name, mode)
             \/ DropBegin(c, name) \/ SetBegin(c, name)
       \/ \E c \in Cells : Write(c) \/ CkptStep(c) \/ CkptByGrowth(c) \/ maintain_teardown(c)

Spec == Init /\ [][Next]_vars

\* The executor runs every woken task, the control thread every message, and MAINTAIN
\* every checkpoint, a requested one within one round.
FairSpec ==
    /\ Spec
    /\ WF_vars(up /\ Program)
    /\ WF_vars(up /\ ControlStep)
    /\ \A c \in Cells : WF_vars(up /\ CkptStep(c))

-----------------------------------------------------------------------------
(* Properties *)

Serving(c) == Ids(reg[c])
Dropping == IF prog.pc \in {"drop_swap", "drop_fan", "undo_swap", "undo_fan"}
            THEN {prog.spec.id} ELSE {}

\* What a power cut may leave of a namespace on cell c.
Residue(c) == disk[c].refs \cup disk[c].sections \cup disk[c].tail

\* A namespace any cell can name is one the catalog names, or one whose drop the
\* catalog explains or carries at this moment, and a CREATE or SET that was answered is
\* in META with its settings until another DDL of that namespace begins: no export of a
\* cell that has not heard of them takes them out (ns_ddl.rs, "persist before serving").
ServedIsCatalogued ==
    /\ up => \A c \in Cells : Serving(c) \subseteq Ids(meta.entries) \cup meta.dropped \cup Dropping
    /\ promised \subseteq meta.entries

\* Whatever a crash leaves of a durable namespace in a checkpoint or a log, the catalog
\* knows the id or carries its tombstone: a tombstone never goes before the residue.
ResidueExplained ==
    \A c \in Cells : Residue(c) \subseteq Ids(meta.entries) \cup meta.dropped

\* A cut before the swap finds every file: while META names a namespace as live, the files its
\* checkpoint refers to are there, also on a cell that dropped it (tier_cell.rs,
\* maintain_teardown).
FilesOutliveCatalog ==
    \A c \in Cells : (disk[c].refs \cap Ids(meta.entries)) \ meta.dropped \subseteq disk[c].cold

\* A durable namespace whose DROP was answered, or whose CREATE was undone, is served by
\* no cell and named by no later catalog, whatever stale export or crash comes.
DropIsFinal ==
    \A s \in gone : durable(s) =>
        /\ s.id \notin Ids(meta.entries)
        /\ up => \A c \in Cells : s.id \notin Serving(c)

\* The id allocator is ahead of every id a cell serves, a disk still holds, or a client
\* was told is gone, across restarts.
IdsNeverReused ==
    \A c \in Cells : \A i \in Serving(c) \cup Residue(c) \cup Ids(gone) : i < ctl.next_ns_id

\* Between two DDL programs all cells serve the same namespaces with the same settings:
\* a CREATE one peer refused after others applied it exists nowhere, because its rollback
\* fans the drop to all of them (ns_ddl.rs, rollback_create).
CellsAgreeBetweenDdls ==
    up /\ prog.pc = "idle" => \A c \in Cells : reg[c] = reg[0]

\* A boot refuses only after a crash between a drop on its origin and the swap that
\* carries it; any other cut mounts (recover.rs, sweep_dropped and the .ick sections).
RefusedOnlyInDropWindow == up \/ cut

\* Every DDL program ends, also one that waits at the tombstone cap for a checkpoint of
\* every cell.
DdlAnswered == prog.pc # "idle" ~> prog.pc = "idle"
==============================================================================
