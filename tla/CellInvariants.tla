---------------------------- MODULE CellInvariants -----------------------------
(***************************************************************************)
(* The predicates the proofs about a durable cell are made of.             *)
(*                                                                         *)
(* Most are about values, not about the cell's variables: a ledger g and   *)
(* its successor h, a view d of the device (View), a rotor r, the frames   *)
(* fs and the ack map.  A handler is a composition of operations on them,  *)
(* and each lemma is about one operation.  Three are the invariants of a   *)
(* whole cell: Alive (ledger, device, rotor and builder agree), Sound (the *)
(* inductive invariant of the plane) and Kept (with the books).            *)
(***************************************************************************)
EXTENDS DurableCell

\* An ordered ledger of the right type.
Good(g) == g \in Ledger /\ CoverageOrdered(g)

\* The last ticket that is no longer pending: entry i of the ledger is ticket
\* Base(g) + i.
Base(g) == g.next_ticket - Len(g.pending)

\* The ledger h is g with one sync registered at its end.
Pushed(g, h, c, reason) ==
    /\ h.pending = Append(g.pending, [covers_up_to |-> c, reason |-> reason,
                                      done |-> FALSE, failed |-> FALSE])
    /\ h.next_ticket = g.next_ticket + 1
    /\ h.queued = g.queued
    /\ h.written_up_to = g.written_up_to
    /\ h.durable_up_to = g.durable_up_to
    /\ h.extent_unsent = IF reason = "ExtentSeal" THEN g.extent_unsent + 1
                         ELSE g.extent_unsent

\* The ledgers g and h have the same frames, syncs and watermarks.
SameEntries(g, h) ==
    /\ h.pending = g.pending
    /\ h.next_ticket = g.next_ticket
    /\ h.queued = g.queued
    /\ h.written_up_to = g.written_up_to
    /\ h.durable_up_to = g.durable_up_to

\* The ledger h is g with entry i done and its first k entries folded: each of them
\* is done, and the one after them is not.
Completed(g, h, i, k) ==
    /\ Len(h.pending) = Len(g.pending) - k
    /\ DOMAIN h.pending = 1..(Len(g.pending) - k)
    /\ \A j \in 1..(Len(g.pending) - k) :
          /\ h.pending[j].covers_up_to = g.pending[k + j].covers_up_to
          /\ h.pending[j].reason = g.pending[k + j].reason
          /\ h.pending[j].failed <=> g.pending[k + j].failed
          /\ h.pending[j].done <=> (g.pending[k + j].done \/ k + j = i)
    /\ \A j \in 1..k : g.pending[j].done \/ j = i
    /\ h.pending # <<>> => ~h.pending[1].done \/ h.pending[1].failed
    /\ h.durable_up_to = IF k = 0 THEN g.durable_up_to ELSE g.pending[k].covers_up_to
    /\ h.next_ticket = g.next_ticket
    /\ h.queued = g.queued
    /\ h.written_up_to = g.written_up_to
    /\ h.extent_unsent = g.extent_unsent

\* The ledger h is g with the frame at index i written, and the first n frames of the
\* queue, all of them written now, moved into the written prefix.
Written(g, h, i, n) ==
    /\ h.written_up_to = g.written_up_to + n
    /\ Len(h.queued) = Len(g.queued) - n
    /\ DOMAIN h.queued = 1..(Len(g.queued) - n)
    /\ \A j \in 1..(Len(g.queued) - n) : h.queued[j] <=> (g.queued[n + j] \/ n + j = i)
    /\ \A j \in 1..n : g.queued[j] \/ j = i
    /\ h.queued # <<>> => ~h.queued[1]
    /\ h.pending = g.pending
    /\ h.next_ticket = g.next_ticket
    /\ h.durable_up_to = g.durable_up_to
    /\ h.extent_unsent = g.extent_unsent

-----------------------------------------------------------------------------
\* The rotors r and q have the same active and the same next segment.
SameSegments(r, q) ==
    /\ q.active = r.active
    /\ q.mode = r.mode
    /\ q.prezeroed <=> r.prezeroed
    /\ q.next = r.next
    /\ q.panic <=> r.panic

\* MAINTAIN gave the rotor r a next segment: the one after the active one, to be
\* filled or ready as a Buffered file.
NewNext(r, q) ==
    /\ q.active = r.active
    /\ q.mode = r.mode
    /\ q.prezeroed <=> r.prezeroed
    /\ q.panic <=> r.panic
    /\ q.next.id = r.active + 1
    /\ q.next.in_flight = 0
    /\ \/ q.next.state = "Filling"
       \/ q.next.state = "Ready" /\ ~q.next.prezeroed

\* The rotor q is r on its next segment, which no operation of the zero fill touches
\* any more.
Rotated(r, q) ==
    /\ q.active = IF r.next = NoNext THEN r.active + 1 ELSE r.next.id
    /\ q.mode = io_mode
    /\ q.prezeroed <=> ready_prezeroed(r)
    /\ q.next = NoNext
    /\ q.panic <=> r.panic

\* The rotors r and q have the same segments in the log.
SameFiles(r, q) == q.active = r.active /\ q.sealed = r.sealed

\* The segments of the log that are not truncated.
Held(r) == {r.active} \cup {r.sealed[i].id : i \in DOMAIN r.sealed}

-----------------------------------------------------------------------------
\* Nothing that survives a power cut is taken back: the device loses nothing, frames are
\* only appended, and the rotor takes back no segment up to the active one.
Grows ==
    /\ stable \subseteq stable'
    /\ Len(frames) <= Len(frames')
    /\ \A n \in DOMAIN frames : frames'[n] = frames[n]
    /\ \A x \in Held(rotor') : x \in Held(rotor) \/ x > rotor.active

\* The first n frames survive a power cut, and no more.
Lead(n) ==
    /\ n \in 0..Len(frames)
    /\ \A i \in 1..n : Survives(i)
    /\ n < Len(frames) => ~Survives(n + 1)

\* What survives is the sequence number of that frame.
Surviving == \E n : Lead(n) /\ SurvivingSeq = IF n = 0 THEN 0 ELSE frames[n].seq

-----------------------------------------------------------------------------
\* The part of the state the ledger's own steps depend on.
LedgerInv ==
    /\ Good(gc)
    /\ in_flight \subseteq [id : Nat, ticket : Nat]
    /\ syncs \subseteq Sync

\* The units behind the turns, with no turn handed back twice.
TurnsCounted == EveryTurnHasAUnit /\ waiters.turns_out >= 0

\* Later frames carry later seqs, none of them acknowledged yet.
AckMapOrdered ==
    /\ acked_seq <= last_seq
    /\ \A e \in frame_seqs : e.end <= Len(frames) /\ acked_seq <= e.seq /\ e.seq <= last_seq
    /\ \A a, b \in frame_seqs : a.end <= b.end => a.seq <= b.seq

-----------------------------------------------------------------------------
\* The seq the frame ending at n carries last.
SeqAt(fs, n) == IF n = 0 THEN 0 ELSE fs[n].seq

\* Later frames carry later seqs, up to `last`.
Rising(fs, last) ==
    /\ \A m, n \in DOMAIN fs : m <= n => fs[m].seq <= fs[n].seq
    /\ \A n \in DOMAIN fs : fs[n].seq <= last

\* The watermark may still come to stand at p.
Owed(g, p) == p >= g.written_up_to \/ \E i \in DOMAIN g.pending : g.pending[i].covers_up_to = p

\* The ack map knows the seq of every frame end the watermark may come to stand at.
Mapped(g, fs, map) ==
    /\ \A a \in map : a.end \in (g.durable_up_to + 1)..Len(fs) /\ a.seq = fs[a.end].seq
    /\ \A p \in (g.durable_up_to + 1)..Len(fs) : Owed(g, p) => \E a \in map : a.end = p

\* The flags that say which promises are open, and the release assertions.
SameFlags(g, h) ==
    /\ h.sync_due <=> g.sync_due
    /\ h.always_pending <=> g.always_pending
    /\ h.always_unqueued <=> g.always_unqueued
    /\ h.everysec_unqueued <=> g.everysec_unqueued
    /\ h.panic <=> g.panic

\* The promises of the ledger to n records in the builder: with none of them the last
\* seq is in the last frame, and without a due sync every promised seq is covered.
Promises(g, fs, n, last, prom) ==
    /\ n = 0 => last = SeqAt(fs, Len(fs))
    /\ n # 0 => g.always_unqueued \/ g.everysec_unqueued
    /\ g.always_unqueued => g.always_pending
    /\ ~g.sync_due => prom <= SeqAt(fs, coverage_tail(g))
    /\ prom <= last

\* The books are in order.
Books(g, fs, map, n, last, prom) ==
    /\ fs \in Seq(Frame)
    /\ n \in Nat
    /\ last \in Nat
    /\ prom \in Nat
    /\ queued_up_to(g) = Len(fs)
    /\ Mapped(g, fs, map)
    /\ Rising(fs, last)
    /\ Promises(g, fs, n, last, prom)
    /\ ~g.panic

-----------------------------------------------------------------------------
\* The device and the frames handed to it, as one value.
View == [syncs : SUBSET Sync, in_flight : SUBSET [id : Nat, ticket : Nat],
         stable : SUBSET Object, frames : Seq(Frame)]

Seen == [syncs |-> syncs, in_flight |-> in_flight, stable |-> stable, frames |-> frames]

\* Object o is stable, or a sync in flight with a ticket up to t makes it so.
Coming(d, o, t) == o \in d.stable \/ \E s \in d.syncs : s.ticket <= t /\ o \in s.objs

\* Frame n is written through into committed blocks, or will be when the barrier of
\* its own write, a ticket up to t, completes.
Through(d, n, t) ==
    /\ <<"alloc", d.frames[n].seg>> \in d.stable
    /\ \/ <<"fua", n>> \in d.stable
       \/ \E f \in d.in_flight : f.id = n /\ f.ticket # 0 /\ f.ticket <= t

Bytes(d, n, t) == Coming(d, <<"frame", n>>, t) \/ Through(d, n, t)

\* Once every ticket up to t has completed, frame n survives a power cut.
Secured(d, n, t) == Coming(d, <<"dir", d.frames[n].seg>>, t) /\ Bytes(d, n, t)

\* What the ledger claims is secured by the tickets it has claimed it with.
Cover(g, d) ==
    /\ \A n \in 1..g.durable_up_to : Secured(d, n, Base(g))
    /\ \A i \in DOMAIN g.pending : \A n \in 1..g.pending[i].covers_up_to :
           Secured(d, n, Base(g) + i)

\* A later view: nothing the device was asked for is lost.
Keeps(d, e) ==
    /\ d.stable \subseteq e.stable
    /\ \A s \in d.syncs : s \in e.syncs \/ s.objs \subseteq e.stable
    /\ \A f \in d.in_flight : f.ticket # 0 => f \in e.in_flight \/ <<"fua", f.id>> \in e.stable
    /\ \A n \in DOMAIN d.frames : n \in DOMAIN e.frames /\ e.frames[n].seg = d.frames[n].seg

-----------------------------------------------------------------------------
\* Ticket t is pending and not done, and why it was registered.
Live(g, t) == pending_live(g, pending_index(g, t))

Reason(g, t) == g.pending[pending_index(g, t)].reason

\* Every sync in flight, and every write that is its own barrier, is one live entry
\* of the ledger.
Tickets(g, d) ==
    /\ \A s \in d.syncs : Live(g, s.ticket) /\ Reason(g, s.ticket) # "WriteThrough"
    /\ \A s, z \in d.syncs : s.ticket = z.ticket => s = z
    /\ \A f \in d.in_flight : f.ticket # 0 => /\ Live(g, f.ticket)
                                              /\ Reason(g, f.ticket) = "WriteThrough"
    /\ \A f, z \in d.in_flight : f.ticket # 0 /\ f.ticket = z.ticket => f = z

\* An extent barrier that was not issued yet is live and no sync in flight has its
\* ticket.
Unsent(g, d) ==
    \A t \in UnsentExtents(g) : Live(g, t) /\ \A s \in d.syncs : s.ticket # t

\* No entry failed, and the first one is not done: it would have been folded.
Heads(g) ==
    /\ g.pending # <<>> => ~g.pending[1].done
    /\ \A i \in DOMAIN g.pending : ~g.pending[i].failed

\* The tickets of the pending extent barriers.
Window(g) == {g.next_ticket - Len(g.pending) + i :
                i \in {j \in DOMAIN g.pending : g.pending[j].reason = "ExtentSeal"}}

-----------------------------------------------------------------------------
\* Every segment's directory entry is coming, and so are the bytes of every frame
\* outside the active segment.
Segs(g, d, r) ==
    /\ \A n \in DOMAIN d.frames :
          /\ Coming(d, <<"dir", d.frames[n].seg>>, g.next_ticket)
          /\ d.frames[n].seg # r.active => Bytes(d, n, g.next_ticket)
    /\ Coming(d, <<"dir", r.active>>, g.next_ticket)
    /\ r.next # NoNext => Coming(d, <<"dir", r.next.id>>, g.next_ticket)

\* The queue ends with the last frame, starts with one that is not written, and its
\* unwritten frames are the ones in flight.
LogShape(g, d) ==
    /\ queued_up_to(g) = Len(d.frames)
    /\ g.queued # <<>> => ~g.queued[1]
    /\ \A f \in d.in_flight : /\ f.id - g.written_up_to \in DOMAIN g.queued
                              /\ ~g.queued[f.id - g.written_up_to]
    /\ \A j \in DOMAIN g.queued :
           ~g.queued[j] => \E f \in d.in_flight : f.id = g.written_up_to + j
    /\ \A f, z \in d.in_flight : f.id = z.id => f = z

\* The sync of an extent barrier is a sync of its extent; an extent the builder
\* references is stable, or its barrier is live.
Extents(g, d, b) ==
    /\ \A s \in d.syncs : Reason(g, s.ticket) = "ExtentSeal" => <<"ext", s.ticket>> \in s.objs
    /\ \A x \in b.exts : \/ <<"ext", x>> \in d.stable
                         \/ x \in Int /\ Live(g, x) /\ Reason(g, x) = "ExtentSeal"

\* The rotor and the device agree: z is the zero-fill barrier's ticket, w the segment
\* a zero slice is being written to.
Rotors(r, d, z, w) ==
    /\ r.next.state = "None" => r.next = NoNext
    /\ r.next # NoNext => r.next.id = r.active + 1
    /\ \A n \in DOMAIN d.frames : d.frames[n].seg <= r.active
    /\ r.next.in_flight = 0 => w = -1
    /\ r.next.in_flight # 0 => w = r.next.id /\ r.next.state = "Filling"
    /\ r.next.state = "BarrierInFlight" <=> z # 0
    /\ z # 0 => SyncOn(z, <<"alloc", r.next.id>>) \in d.syncs
    /\ r.prezeroed => <<"alloc", r.active>> \in d.stable
    /\ ready_prezeroed(r) => <<"alloc", r.next.id>> \in d.stable
    /\ ~r.panic

\* Every extent a frame references is stable.
Referenced(d) == \A n \in DOMAIN d.frames : \A x \in d.frames[n].exts : <<"ext", x>> \in d.stable

\* What the ledger claims, the device was asked for.
Claims(g, d, b) ==
    /\ Good(g)
    /\ d \in View
    /\ queued_up_to(g) = Len(d.frames)
    /\ Tickets(g, d)
    /\ Unsent(g, d)
    /\ Heads(g)
    /\ Cover(g, d)
    /\ Extents(g, d, b)
    /\ Referenced(d)

\* The ledger, the device and the builder agree.
Agreed(g, d, b) == Claims(g, d, b) /\ LogShape(g, d)

\* And so does the rotor.
Plane(g, d, r, b, z, w) ==
    /\ Agreed(g, d, b)
    /\ r \in Rotor
    /\ Segs(g, d, r)
    /\ Rotors(r, d, z, w)

\* The whole plane agrees, as long as the process has not exited.
Alive == Plane(gc, Seen, rotor, builder, zero_fill_ticket, fill_write)

-----------------------------------------------------------------------------
\* The view d with one more sync in flight.
WithSync(d, s) == [d EXCEPT !.syncs = @ \cup {s}]

\* The view after the sync s.
SyncDone(d, e, s) ==
    /\ e \in View
    /\ s \in d.syncs
    /\ e.syncs = d.syncs \ {s}
    /\ e.stable = d.stable \cup s.objs
    /\ e.in_flight = d.in_flight
    /\ e.frames = d.frames

\* The rotor, and the zero fill's ticket, after the sync with ticket t.
RotorSynced(r, z, t) == IF z = t THEN note_zero_fill_synced(r) ELSE r

FillSynced(z, t) == IF z = t THEN 0 ELSE z

\* The view after the write-through of frame f.
ThroughDone(d, e, f) ==
    /\ e \in View
    /\ f \in d.in_flight
    /\ f.ticket # 0
    /\ e.in_flight = d.in_flight \ {f}
    /\ e.syncs = d.syncs
    /\ e.stable = d.stable \cup {<<"fua", f.id>>}
    /\ e.frames = d.frames

\* The view d with frame x handed to the device, the barrier of its write, if any,
\* under ticket t.
Queued(d, x, t) ==
    [d EXCEPT !.frames = Append(@, x),
              !.in_flight = @ \cup {[id |-> Len(d.frames) + 1, ticket |-> t]}]

\* The view d after a rotation to segment q.active: the seal fdatasync s of the old one
\* in flight and, if the new one was made inline, its directory entry stable.
Turned(d, e, r, q, s) ==
    /\ e \in View
    /\ e.syncs = d.syncs \cup {s}
    /\ e.in_flight = d.in_flight
    /\ e.frames = d.frames
    /\ e.stable = IF r.next = NoNext THEN d.stable \cup {<<"dir", q.active>>} ELSE d.stable

-----------------------------------------------------------------------------
\* What a state in which everything agrees shows of the watermark, of the frames and of
\* the zero fill.
Honest == WatermarkHonest /\ ExtentBeforeRecord /\ NoSliceOverFrames /\ ~rotor.panic

\* The inductive invariant.
Sound == TypeOK /\ CoverageInOrder /\ (~failed => Alive) /\ Honest

\* The books of the cell: its ack map, its ack gate and its promises.
Booked ==
    /\ Books(gc, frames, frame_seqs, builder.records, last_seq, promised)
    /\ acked_seq = SeqAt(frames, gc.durable_up_to)

\* What the books show: the ack gate is exact and no release assertion failed.
Paid == AckExact /\ NoPanic

\* The inductive invariant with the books.
Kept == Sound /\ (~failed => Booked) /\ Paid

\* While the cell runs, what a power cut leaves lies between the acknowledged records and
\* the staged ones.
Between ==
    ~failed => \A n : Lead(n) =>
        /\ frames \in Seq(Frame) /\ last_seq \in Nat /\ Rising(frames, last_seq)
        /\ n \in 0..Len(frames)
        /\ acked_seq \in Nat /\ acked_seq <= SeqAt(frames, n)
        /\ SeqAt(frames, n) \in Nat /\ SeqAt(frames, n) <= last_seq
================================================================================
