----------------------------- MODULE DeviceProofs ------------------------------
(***************************************************************************)
(* The ledger's claims and the device: what each operation of the ledger   *)
(* does to the correspondence between the barriers it counts and the       *)
(* operations that are in flight, and the handlers that only register or   *)
(* issue barriers, or move the rotor's pre-allocation, keep it (Alive).    *)
(***************************************************************************)
EXTENDS DurableCellProofs

-----------------------------------------------------------------------------
\* Looking for a source of the next segment touches the pool only.
LEMMA SourceIs ==
    ASSUME NEW r \in Rotor, NEW take_ok \in BOOLEAN
    PROVE  /\ SameSegments(r, prealloc_source(r, take_ok).rotor)
           /\ prealloc_source(r, take_ok).source = "Recycled" => io_mode = "Direct"
<1> DEFINE popped == [r EXCEPT !.pool = Tail(@)]
           taken == [popped EXCEPT !.prealloc = IF waiting(r) THEN Immediate ELSE @]
           waits == [r EXCEPT !.prealloc.kind = "WaitingForRecycle"]
           none == -1
<1>1. SameSegments(r, r) /\ SameSegments(r, popped) /\ SameSegments(r, taken)
      /\ SameSegments(r, waits)
  BY DEF Rotor, SameSegments
<1>2. \A q \in Rotor : SameSegments(q, fall_back(q))
  BY DEF Rotor, SameSegments, fall_back
<1>3. recycling /\ r.pool # <<>> => popped \in Rotor
  <2> SUFFICES ASSUME r.pool # <<>>
               PROVE  popped \in Rotor
    OBVIOUS
  <2>1. Tail(r.pool) \in Seq(Nat)
    BY RotorFields
  <2> QED BY Zenon, <2>1 DEF Rotor
<1>4. \/ /\ recycling /\ r.pool # <<>>
         /\ \/ prealloc_source(r, take_ok) = Source(taken, "Recycled", Head(r.pool))
            \/ prealloc_source(r, take_ok) = Source(fall_back(popped), "Fresh", none)
      \/ prealloc_source(r, take_ok) = Source(r, "Wait", none)
      \/ prealloc_source(r, take_ok) = Source(waits, "Wait", none)
      \/ prealloc_source(r, take_ok) = Source(fall_back(r), "Fresh", none)
  BY Zenon DEF prealloc_source
<1> HIDE DEF popped, taken, waits, none
<1>5. \A x, y, z : Source(x, y, z).rotor = x /\ Source(x, y, z).source = y
  BY DEF Source
<1>6. SameSegments(r, popped) /\ SameSegments(popped, fall_back(popped))
        => SameSegments(r, fall_back(popped))
  BY DEF SameSegments
<1> QED BY <1>1, <1>2, <1>3, <1>4, <1>5, <1>6 DEF recycling

\* What MAINTAIN makes of the source.
LEMMA MaintainIs ==
    ASSUME NEW r \in Rotor, NEW s, s.rotor \in Rotor, SameSegments(r, s.rotor),
           NEW allocated \in BOOLEAN, allocated => s.source = "Recycled" /\ io_mode = "Direct"
    PROVE  /\ NewNext(r, maintain_ok(s, allocated))
           /\ SameSegments(r, maintain_no_space(s))
<1> DEFINE origin == IF s.rotor.prealloc.kind = "FreshFallback"
                     THEN s.rotor.prealloc.fill_origin ELSE 0
           next == next_state(s.rotor.active + 1, allocated, origin)
           c == SEGMENT_BLOCKS - 1
           stamped == [next EXCEPT !.state = "Filling", !.cursor = c, !.fill = s.old]
           n == sourced_next(s, allocated)
<1> HIDE DEF origin
<1>1. /\ next.id = s.rotor.active + 1 /\ next.in_flight = 0
      /\ next.state = IF io_mode = "Buffered" \/ allocated THEN "Ready" ELSE "Filling"
      /\ next.prezeroed <=> (io_mode = "Direct" /\ allocated)
  BY DEF next_state
<1>2. stamped.id = next.id /\ stamped.in_flight = next.in_flight /\ stamped.state = "Filling"
  BY DEF next_state
<1>3. n = IF s.source = "Recycled" /\ allocated THEN stamped ELSE next
  BY Zenon DEF sourced_next, origin, next, stamped, c
<1> HIDE DEF next, stamped
<1>4. /\ n.id = s.rotor.active + 1 /\ n.in_flight = 0
      /\ n.state = "Filling" \/ (n.state = "Ready" /\ ~n.prezeroed)
  BY <1>1, <1>2, <1>3
<1> HIDE DEF n
<1>5. NewNext(r, maintain_ok(s, allocated))
  <2>1. maintain_ok(s, allocated) = [s.rotor EXCEPT !.next = n, !.space_exhausted = FALSE]
    BY DEF maintain_ok, n
  <2> QED BY <1>4, <2>1 DEF Rotor, NewNext, SameSegments
<1>6. SameSegments(r, maintain_no_space(s))
  BY DEF maintain_no_space, Rotor, SameSegments
<1> QED BY <1>5, <1>6

\* Truncation and a queued frame leave both segments alone.
LEMMA CursorIs ==
    ASSUME NEW r \in Rotor
    PROVE  /\ SameSegments(r, commit_frame_queued(r))
           /\ SameSegments(r, forget_sealed(r))
BY DEF commit_frame_queued, forget_sealed, Rotor, SameSegments

\* The zero fill, step by step.
LEMMA FillIs ==
    ASSUME NEW r \in Rotor
    PROVE  /\ \A q \in {next_zero_slice(r), take_zero_fill_barrier(r)} :
                  /\ q.active = r.active /\ (q.prezeroed <=> r.prezeroed)
                  /\ (q.panic <=> r.panic) /\ q.next.id = r.next.id
                  /\ (q.next.prezeroed <=> r.next.prezeroed) /\ q.mode = r.mode
           /\ next_zero_slice(r).next.in_flight = 1
           /\ next_zero_slice(r).next.state = r.next.state
           /\ take_zero_fill_barrier(r).next.in_flight = r.next.in_flight
           /\ take_zero_fill_barrier(r).next.state = "BarrierInFlight"
<1>1. r.next \in NextSegment
  BY RotorFields
<1> DEFINE one == 1
           slice == [r.next EXCEPT !.in_flight = one]
           barrier == [r.next EXCEPT !.state = "BarrierInFlight"]
<1>2. next_zero_slice(r) = [r EXCEPT !.next = slice]
  BY DEF next_zero_slice
<1>3. take_zero_fill_barrier(r) = [r EXCEPT !.next = barrier]
  BY DEF take_zero_fill_barrier
<1>4. one = 1
  OBVIOUS
<1> HIDE DEF one
<1>5. /\ slice.id = r.next.id /\ slice.prezeroed = r.next.prezeroed
      /\ slice.in_flight = one /\ slice.state = r.next.state
      /\ barrier.id = r.next.id /\ barrier.prezeroed = r.next.prezeroed
      /\ barrier.in_flight = r.next.in_flight /\ barrier.state = "BarrierInFlight"
  BY <1>1 DEF NextSegment
<1> HIDE DEF slice, barrier
<1>6. \A n : LET q == [r EXCEPT !.next = n]
             IN  /\ q.active = r.active /\ (q.prezeroed <=> r.prezeroed)
                 /\ (q.panic <=> r.panic) /\ q.mode = r.mode /\ q.next = n
  BY DEF Rotor
<1> QED BY <1>2, <1>3, <1>4, <1>5, <1>6

\* Its completions, when they are awaited.
LEMMA FillDone ==
    ASSUME NEW r \in Rotor
    PROVE  /\ r.next.state = "Filling" /\ r.next.in_flight # 0 =>
                LET q == note_zero_slice_written(r)
                IN  /\ q.active = r.active /\ (q.prezeroed <=> r.prezeroed)
                    /\ (q.panic <=> r.panic) /\ q.next.id = r.next.id /\ q.mode = r.mode
                    /\ q.next.in_flight = 0 /\ q.next.state \in {"Filling", "AwaitBarrier"}
           /\ r.next.state = "BarrierInFlight" =>
                LET q == note_zero_fill_synced(r)
                IN  /\ q.active = r.active /\ (q.prezeroed <=> r.prezeroed)
                    /\ (q.panic <=> r.panic) /\ q.next.id = r.next.id /\ q.mode = r.mode
                    /\ q.next.in_flight = r.next.in_flight /\ q.next.state = "Ready"
<1>1. r.next \in NextSegment
  BY RotorFields
<1>2. r.next.in_flight \in 0..1
  BY <1>1 DEF NextSegment
<1> DEFINE c == r.next.cursor + 1
           st == IF r.next.cursor + 1 = SEGMENT_BLOCKS THEN "AwaitBarrier" ELSE "Filling"
<1>3. ASSUME r.next.state = "Filling", r.next.in_flight # 0
      PROVE  LET q == note_zero_slice_written(r)
             IN  /\ q.active = r.active /\ (q.prezeroed <=> r.prezeroed)
                 /\ (q.panic <=> r.panic) /\ q.next.id = r.next.id /\ q.mode = r.mode
                 /\ q.next.in_flight = 0 /\ q.next.state \in {"Filling", "AwaitBarrier"}
  <2> DEFINE zero == 0
             n == [r.next EXCEPT !.cursor = c, !.in_flight = zero, !.state = st]
  <2>1. [r EXCEPT !.next.cursor = @ + 1, !.next.in_flight = 0, !.next.state = st]
            = [r EXCEPT !.next = n]
    BY Zenon, <1>1 DEF Rotor, NextSegment
  <2>2. note_zero_slice_written(r) = [r EXCEPT !.next = n]
    BY <1>2, <1>3, <2>1 DEF note_zero_slice_written
  <2>3. st \in {"Filling", "AwaitBarrier"} /\ zero = 0
    OBVIOUS
  <2> HIDE DEF c, st, zero
  <2>4. n.id = r.next.id /\ n.in_flight = zero /\ n.state = st
    BY <1>1 DEF NextSegment
  <2> HIDE DEF n
  <2> QED BY <2>2, <2>3, <2>4 DEF Rotor
<1>4. ASSUME r.next.state = "BarrierInFlight"
      PROVE  LET q == note_zero_fill_synced(r)
             IN  /\ q.active = r.active /\ (q.prezeroed <=> r.prezeroed)
                 /\ (q.panic <=> r.panic) /\ q.next.id = r.next.id /\ q.mode = r.mode
                 /\ q.next.in_flight = r.next.in_flight /\ q.next.state = "Ready"
  BY Zenon, <1>1, <1>4 DEF note_zero_fill_synced, Rotor, NextSegment
<1> QED BY <1>3, <1>4

-----------------------------------------------------------------------------
\* What is coming stays coming.
LEMMA ComingKept ==
    ASSUME NEW d \in View, NEW e \in View, Keeps(d, e), NEW o,
           NEW t \in Int, NEW u \in Int, t <= u, Coming(d, o, t)
    PROVE  Coming(e, o, u)
<1>1. CASE o \in d.stable
  BY <1>1 DEF Coming, Keeps
<1>2. ASSUME NEW s \in d.syncs, s.ticket <= t, o \in s.objs PROVE Coming(e, o, u)
  <2>1. s.ticket \in Nat
    BY DEF View, Sync
  <2>2. s.ticket <= u
    BY <1>2, <2>1
  <2>3. s \in e.syncs \/ s.objs \subseteq e.stable
    BY DEF Keeps
  <2> QED BY <1>2, <2>2, <2>3 DEF Coming
<1> QED BY <1>1, <1>2 DEF Coming

\* What is being written through stays so.
LEMMA ThroughKept ==
    ASSUME NEW d \in View, NEW e \in View, Keeps(d, e), NEW n \in DOMAIN d.frames,
           NEW t \in Int, NEW u \in Int, t <= u, Through(d, n, t)
    PROVE  Through(e, n, u)
<1>1. <<"alloc", e.frames[n].seg>> \in e.stable
  BY DEF Through, Keeps
<1>2. CASE <<"fua", n>> \in d.stable
  BY <1>1, <1>2 DEF Through, Keeps
<1>3. ASSUME NEW f \in d.in_flight, f.id = n, f.ticket # 0, f.ticket <= t
      PROVE  Through(e, n, u)
  <2>1. f.ticket \in Nat
    BY DEF View
  <2>2. f.ticket <= u
    BY <1>3, <2>1
  <2>3. f \in e.in_flight \/ <<"fua", n>> \in e.stable
    BY <1>3 DEF Keeps
  <2> QED BY <1>1, <1>3, <2>2, <2>3 DEF Through
<1> QED BY <1>2, <1>3 DEF Through

\* A secured frame stays secured, by the same ticket or a later one.
LEMMA SecuredKept ==
    ASSUME NEW d \in View, NEW e \in View, Keeps(d, e), NEW n \in DOMAIN d.frames,
           NEW t \in Int, NEW u \in Int, t <= u
    PROVE  /\ Bytes(d, n, t) => Bytes(e, n, u)
           /\ Secured(d, n, t) => Secured(e, n, u)
<1>1. Bytes(d, n, t) => Bytes(e, n, u)
  BY ComingKept, ThroughKept DEF Bytes
<1>2. e.frames[n].seg = d.frames[n].seg
  BY DEF Keeps
<1>3. Coming(d, <<"dir", d.frames[n].seg>>, t) => Coming(e, <<"dir", e.frames[n].seg>>, u)
  BY <1>2, ComingKept
<1> QED BY <1>1, <1>3 DEF Secured

\* The ledger's tail is secured by the last ticket.
LEMMA TailSecured ==
    ASSUME NEW g, Good(g), NEW d, Cover(g, d)
    PROVE  \A n \in 1..coverage_tail(g) : Secured(d, n, g.next_ticket)
<1>1. g.pending \in Seq(PendingFsync) /\ g.next_ticket \in Nat
  BY DEF Good, Ledger
<1>2. CASE g.pending = <<>>
  <2>1. Base(g) = g.next_ticket
    BY <1>1, <1>2 DEF Base
  <2> QED BY <1>2, <2>1 DEF coverage_tail, Cover
<1>3. CASE g.pending # <<>>
  <2>1. Len(g.pending) \in DOMAIN g.pending /\ Len(g.pending) \in Nat
    BY <1>1, <1>3
  <2>2. Base(g) + Len(g.pending) = g.next_ticket
    BY <1>1, <2>1 DEF Base
  <2> QED BY <1>3, <2>1, <2>2 DEF coverage_tail, Cover
<1> QED BY <1>2, <1>3

\* What the ledger covers is queued.
LEMMA CoversQueued ==
    ASSUME NEW g, Good(g), NEW d \in View, queued_up_to(g) = Len(d.frames)
    PROVE  /\ DOMAIN d.frames = 1..Len(d.frames) /\ Len(d.frames) \in Nat
           /\ \A n \in 1..g.durable_up_to : n \in DOMAIN d.frames
           /\ \A i \in DOMAIN g.pending : \A n \in 1..g.pending[i].covers_up_to :
                  n \in DOMAIN d.frames
           /\ \A n \in 1..coverage_tail(g) : n \in DOMAIN d.frames
           /\ Base(g) \in Nat
           /\ \A i \in DOMAIN g.pending : i \in Nat /\ Base(g) + i \in Nat
<1>1. d.frames \in Seq(Frame)
  BY DEF View
<1>2. DOMAIN d.frames = 1..Len(d.frames) /\ Len(d.frames) \in Nat
  BY <1>1
<1>3. g.durable_up_to \in Nat /\ g.durable_up_to <= Len(d.frames)
  BY DEF Good, Ledger, CoverageOrdered
<1>4. \A i \in DOMAIN g.pending : /\ g.pending[i].covers_up_to \in Nat
                                  /\ g.pending[i].covers_up_to <= Len(d.frames)
  BY PendingTyped DEF Good, CoverageOrdered
<1>5. coverage_tail(g) \in Nat /\ coverage_tail(g) <= Len(d.frames)
  BY TailBounds DEF Good
<1>6. g.pending \in Seq(PendingFsync) /\ g.next_ticket \in Nat /\ Len(g.pending) <= g.next_ticket
  BY DEF Good, Ledger, CoverageOrdered
<1>7. Len(g.pending) \in Nat /\ DOMAIN g.pending = 1..Len(g.pending)
  BY <1>6
<1>8. Base(g) \in Nat
  BY <1>6, <1>7 DEF Base
<1>9. \A i \in DOMAIN g.pending : i \in Nat /\ Base(g) + i \in Nat
  BY <1>7, <1>8
<1> QED BY <1>2, <1>3, <1>4, <1>5, <1>8, <1>9

\* Coverage is kept when the ledger claims nothing new.
LEMMA CoverSame ==
    ASSUME NEW g, Good(g), NEW d \in View, NEW e \in View, Keeps(d, e), Cover(g, d),
           queued_up_to(g) = Len(d.frames), NEW h,
           h.pending = g.pending, h.next_ticket = g.next_ticket,
           h.durable_up_to = g.durable_up_to
    PROVE  Cover(h, e)
<1>1. Base(h) = Base(g)
  BY DEF Base
<1>2. \A n \in 1..g.durable_up_to : Secured(e, n, Base(g))
  BY CoversQueued, SecuredKept DEF Cover
<1>3. ASSUME NEW i \in DOMAIN g.pending, NEW n \in 1..g.pending[i].covers_up_to
      PROVE  Secured(e, n, Base(g) + i)
  BY CoversQueued, SecuredKept DEF Cover
<1> QED BY <1>1, <1>2, <1>3 DEF Cover

\* A registered sync must secure what it covers.
LEMMA CoverPush ==
    ASSUME NEW g, Good(g), NEW d \in View, NEW e \in View, Keeps(d, e), Cover(g, d),
           queued_up_to(g) = Len(d.frames), NEW h, NEW c, NEW reason,
           Pushed(g, h, c, reason), \A n \in 1..c : Secured(e, n, h.next_ticket)
    PROVE  Cover(h, e)
<1>1. g \in Ledger
  BY DEF Good
<1>2. /\ Base(h) = Base(g) /\ DOMAIN g.pending = 1..Len(g.pending) /\ Len(g.pending) \in Nat
      /\ DOMAIN h.pending = 1..(Len(g.pending) + 1)
      /\ Base(g) + (Len(g.pending) + 1) = h.next_ticket
      /\ \A i \in 1..Len(g.pending) : h.pending[i] = g.pending[i]
      /\ h.pending[Len(g.pending) + 1].covers_up_to = c
  <2>1. h.next_ticket = g.next_ticket + 1
    BY DEF Pushed
  <2> QED BY <1>1, <2>1, PushedFacts
<1>3. \A n \in 1..h.durable_up_to : Secured(e, n, Base(g))
  BY CoversQueued, SecuredKept DEF Cover, Pushed
<1>4. ASSUME NEW i \in DOMAIN g.pending, NEW n \in 1..g.pending[i].covers_up_to
      PROVE  Secured(e, n, Base(g) + i)
  BY CoversQueued, SecuredKept DEF Cover
<1>5. ASSUME NEW i \in DOMAIN h.pending, NEW n \in 1..h.pending[i].covers_up_to
      PROVE  Secured(e, n, Base(h) + i)
  <2>1. CASE i \in 1..Len(g.pending)
    BY <1>2, <1>4, <2>1
  <2>2. CASE i = Len(g.pending) + 1
    BY <1>2, <2>2
  <2> QED BY <1>2, <2>1, <2>2
<1> QED BY <1>2, <1>3, <1>5 DEF Cover

\* A barrier that promises no log bytes registers at the tail.
LEMMA CoverPushTail ==
    ASSUME NEW g, Good(g), NEW d \in View, NEW e \in View, Keeps(d, e), Cover(g, d),
           queued_up_to(g) = Len(d.frames), NEW h, NEW reason,
           Pushed(g, h, coverage_tail(g), reason)
    PROVE  Cover(h, e)
<1>1. g.next_ticket \in Nat /\ h.next_ticket = g.next_ticket + 1
  BY DEF Good, Ledger, Pushed
<1>2. ASSUME NEW n \in 1..coverage_tail(g) PROVE Secured(e, n, h.next_ticket)
  <2>1. n \in DOMAIN d.frames /\ Secured(d, n, g.next_ticket)
    BY TailSecured, CoversQueued
  <2>2. g.next_ticket \in Int /\ h.next_ticket \in Int /\ g.next_ticket <= h.next_ticket
    BY <1>1
  <2> QED BY <2>1, <2>2, SecuredKept
<1> QED BY <1>2, CoverPush

-----------------------------------------------------------------------------
\* A live ticket has been minted, and is not folded.
LEMMA LiveBounds ==
    ASSUME NEW g \in Ledger, NEW t \in Int, Live(g, t)
    PROVE  t <= g.next_ticket /\ Base(g) < t
<1>1. g.pending \in Seq(PendingFsync) /\ g.next_ticket \in Nat
  BY DEF Ledger
<1>2. pending_index(g, t) \in 1..Len(g.pending) /\ Len(g.pending) \in Nat
  BY <1>1 DEF Live, pending_live
<1> QED BY <1>1, <1>2 DEF pending_index, Base

\* A registration adds one live ticket.
LEMMA LivePush ==
    ASSUME NEW g \in Ledger, NEW h, NEW c, NEW reason, Pushed(g, h, c, reason)
    PROVE  /\ \A t \in Int : Live(g, t) => Live(h, t) /\ Reason(h, t) = Reason(g, t)
           /\ Live(h, h.next_ticket) /\ Reason(h, h.next_ticket) = reason
           /\ \A t \in Int : Live(g, t) => t # h.next_ticket
<1>1. /\ Len(g.pending) \in Nat /\ g.next_ticket \in Nat
      /\ DOMAIN g.pending = 1..Len(g.pending)
      /\ DOMAIN h.pending = 1..(Len(g.pending) + 1)
      /\ Len(h.pending) = Len(g.pending) + 1
      /\ \A i \in 1..Len(g.pending) : h.pending[i] = g.pending[i]
      /\ h.pending[Len(g.pending) + 1].reason = reason
      /\ ~h.pending[Len(g.pending) + 1].done
      /\ ~h.pending[Len(g.pending) + 1].failed
      /\ h.next_ticket = g.next_ticket + 1
  <2>1. h.next_ticket = g.next_ticket + 1
    BY DEF Pushed
  <2> QED BY <2>1, PushedFacts
<1>2. \A t \in Int : pending_index(h, t) = pending_index(g, t)
  <2>1. h.next_ticket - Len(h.pending) = g.next_ticket - Len(g.pending)
    BY <1>1
  <2> QED BY <2>1 DEF pending_index
<1>3. pending_index(h, h.next_ticket) = Len(g.pending) + 1
  BY <1>1 DEF pending_index
<1>4. ASSUME NEW t \in Int, Live(g, t) PROVE Live(h, t) /\ Reason(h, t) = Reason(g, t)
  <2> DEFINE i == pending_index(g, t)
  <2>1. i \in 1..Len(g.pending) /\ ~g.pending[i].done /\ ~g.pending[i].failed
    BY <1>1, <1>4 DEF Live, pending_live
  <2>2. i \in DOMAIN h.pending /\ h.pending[i] = g.pending[i] /\ pending_index(h, t) = i
    BY <1>1, <1>2, <2>1
  <2> HIDE DEF i
  <2> QED BY <2>1, <2>2 DEF Live, pending_live, Reason, i
<1>5. Live(h, h.next_ticket) /\ Reason(h, h.next_ticket) = reason
  BY <1>1, <1>3 DEF Live, pending_live, Reason
<1>6. \A t \in Int : Live(g, t) => t # h.next_ticket
  BY <1>1, LiveBounds
<1> QED BY <1>4, <1>5, <1>6

\* Tickets are kept while the ledger keeps its entries.
LEMMA TicketsSame ==
    ASSUME NEW g, NEW h, NEW d, NEW e, Tickets(g, d),
           h.pending = g.pending, h.next_ticket = g.next_ticket,
           e.syncs = d.syncs, \A f \in e.in_flight : f.ticket # 0 => f \in d.in_flight
    PROVE  Tickets(h, e)
<1>1. \A t : Live(h, t) = Live(g, t) /\ Reason(h, t) = Reason(g, t)
  BY DEF Live, Reason, pending_live, pending_index
<1>2. ASSUME NEW f \in e.in_flight, NEW z \in e.in_flight, f.ticket # 0, f.ticket = z.ticket
      PROVE  f = z
  BY <1>2 DEF Tickets
<1> QED BY <1>1, <1>2 DEF Tickets

\* A sync is issued under the ticket just registered.
LEMMA TicketsPush ==
    ASSUME NEW g \in Ledger, NEW h, NEW d \in View, NEW e, Tickets(g, d), NEW c, NEW reason,
           reason # "WriteThrough", Pushed(g, h, c, reason), NEW s, s.ticket = h.next_ticket,
           e.syncs = d.syncs \cup {s}, \A f \in e.in_flight : f.ticket # 0 => f \in d.in_flight
    PROVE  Tickets(h, e)
<1>1. \A z \in d.syncs : z.ticket \in Int
  BY TicketsTyped
<1>2. \A f \in e.in_flight : f.ticket # 0 => f \in d.in_flight /\ f.ticket \in Int
  BY TicketsTyped
<1>3. \A z \in d.syncs : /\ Live(h, z.ticket) /\ Reason(h, z.ticket) # "WriteThrough"
                         /\ z.ticket # s.ticket
  BY <1>1, LivePush DEF Tickets
<1>4. Live(h, s.ticket) /\ Reason(h, s.ticket) # "WriteThrough"
  BY LivePush
<1>5. \A f \in e.in_flight : f.ticket # 0 => /\ Live(h, f.ticket)
                                             /\ Reason(h, f.ticket) = "WriteThrough"
  BY <1>2, LivePush DEF Tickets
<1>6. \A x, z \in e.syncs : x.ticket = z.ticket => x = z
  BY <1>3 DEF Tickets
<1>7. \A f, z \in e.in_flight : f.ticket # 0 /\ f.ticket = z.ticket => f = z
  BY <1>2 DEF Tickets
<1> QED BY <1>3, <1>4, <1>5, <1>6, <1>7 DEF Tickets

\* An extent barrier is registered before its sync is issued.
LEMMA TicketsPushExtent ==
    ASSUME NEW g \in Ledger, NEW h, NEW d \in View, Tickets(g, d), NEW c, NEW reason,
           Pushed(g, h, c, reason)
    PROVE  Tickets(h, d)
<1>1. \A z \in d.syncs : z.ticket \in Int
  BY TicketsTyped
<1>2. \A f \in d.in_flight : f.ticket \in Int
  BY TicketsTyped
<1> QED BY <1>1, <1>2, LivePush DEF Tickets

-----------------------------------------------------------------------------
\* The window is a finite set of numbers.
LEMMA WindowFinite ==
    ASSUME NEW g \in Ledger
    PROVE  /\ IsFiniteSet(Window(g)) /\ Window(g) \subseteq Int
           /\ UnsentExtents(g) =
                {t \in Window(g) : Cardinality({u \in Window(g) : u > t}) < g.extent_unsent}
           /\ \A t : IsFiniteSet({u \in Window(g) : u > t})
                     /\ Cardinality({u \in Window(g) : u > t}) \in Nat
<1> DEFINE b == g.next_ticket - Len(g.pending)
           S == (b + 1)..(b + Len(g.pending))
<1>1. g.pending \in Seq(PendingFsync) /\ g.next_ticket \in Nat
  BY DEF Ledger
<1>2. DOMAIN g.pending = 1..Len(g.pending) /\ Len(g.pending) \in Nat /\ b \in Int
  BY <1>1
<1>3. Window(g) \subseteq S
  <2>1. \A i \in DOMAIN g.pending : b + i \in S
    BY <1>2
  <2> HIDE DEF S
  <2> QED BY <2>1 DEF Window
<1>4. IsFiniteSet(S) /\ S \subseteq Int
  <2>1. b + 1 \in Int /\ b + Len(g.pending) \in Int
    BY <1>2
  <2> HIDE DEF b
  <2> QED BY <2>1, FS_Interval
<1> HIDE DEF S
<1>6. IsFiniteSet(Window(g))
  BY <1>3, <1>4, FS_Subset
<1>7. Window(g) \subseteq Int
  BY Zenon, <1>3, <1>4
<1>8. \A t : IsFiniteSet({u \in Window(g) : u > t})
             /\ Cardinality({u \in Window(g) : u > t}) \in Nat
  <2> SUFFICES ASSUME NEW t
               PROVE  IsFiniteSet({u \in Window(g) : u > t})
                      /\ Cardinality({u \in Window(g) : u > t}) \in Nat
    OBVIOUS
  <2> DEFINE A == {u \in Window(g) : u > t}
  <2>1. A \subseteq Window(g)
    OBVIOUS
  <2> HIDE DEF A
  <2>2. IsFiniteSet(A)
    BY <1>6, <2>1, FS_Subset
  <2>3. Cardinality(A) \in Nat
    BY <2>2, FS_CardinalityType
  <2> QED BY <2>2, <2>3 DEF A
<1> QED BY Zenon, <1>6, <1>7, <1>8 DEF UnsentExtents, Window

\* The window of a ledger with one more entry.
LEMMA WindowPush ==
    ASSUME NEW g \in Ledger, NEW h \in Ledger, NEW c, NEW reason, Pushed(g, h, c, reason)
    PROVE  /\ reason # "ExtentSeal" => Window(h) = Window(g)
           /\ reason = "ExtentSeal" => Window(h) = Window(g) \cup {h.next_ticket}
           /\ \A t \in Window(g) : t \in Int /\ t < h.next_ticket
<1> DEFINE L == Len(g.pending)
           b == g.next_ticket - L
<1>1. /\ L \in Nat /\ g.next_ticket \in Nat
      /\ DOMAIN g.pending = 1..L
      /\ DOMAIN h.pending = 1..(L + 1)
      /\ Len(h.pending) = L + 1
      /\ \A i \in 1..L : h.pending[i] = g.pending[i]
      /\ h.pending[L + 1].reason = reason
      /\ h.next_ticket = g.next_ticket + 1
  <2>1. h.next_ticket = g.next_ticket + 1
    BY DEF Pushed
  <2> QED BY <2>1, PushedFacts
<1>2. h.next_ticket - Len(h.pending) = b /\ b \in Int /\ b + (L + 1) = h.next_ticket
  <2>1. /\ L \in Nat /\ g.next_ticket \in Nat
        /\ Len(h.pending) = L + 1 /\ h.next_ticket = g.next_ticket + 1
    BY <1>1
  <2> HIDE DEF L
  <2> QED BY <2>1
<1> DEFINE I == {j \in 1..L : g.pending[j].reason = "ExtentSeal"}
           J == {j \in 1..(L + 1) : h.pending[j].reason = "ExtentSeal"}
<1>3. Window(g) = {b + i : i \in I} /\ Window(h) = {b + i : i \in J}
  BY Zenon, <1>1, <1>2 DEF Window
<1>4. /\ reason # "ExtentSeal" => J = I
      /\ reason = "ExtentSeal" => J = I \cup {L + 1}
  <2>1. \A j : j \in 1..(L + 1) <=> j \in 1..L \/ j = L + 1
    BY <1>1
  <2>2. \A j \in 1..L : j # L + 1
    BY <1>1
  <2> HIDE DEF L
  <2>3. \A j : j \in J <=> j \in I \/ (j = L + 1 /\ reason = "ExtentSeal")
    BY <1>1, <2>1, <2>2
  <2> HIDE DEF I, J
  <2> QED BY <2>3
<1>5. \A i \in I : b + i \in Int /\ b + i < h.next_ticket
  BY <1>1, <1>2
<1> HIDE DEF b, I, J, L
<1> QED BY <1>2, <1>3, <1>4, <1>5

\* Registering a barrier leaves the unsent extents as they are, but for the one that
\* register_extent adds.
LEMMA UnsentPush ==
    ASSUME NEW g \in Ledger, NEW h \in Ledger, NEW c, NEW reason, Pushed(g, h, c, reason)
    PROVE  /\ reason # "ExtentSeal" => UnsentExtents(h) = UnsentExtents(g)
           /\ reason = "ExtentSeal" =>
                  UnsentExtents(h) \subseteq UnsentExtents(g) \cup {h.next_ticket}
<1>1. CASE reason # "ExtentSeal"
  <2>1. Window(h) = Window(g) /\ h.extent_unsent = g.extent_unsent
    BY <1>1, WindowPush DEF Pushed
  <2> QED BY Zenon, <1>1, <2>1, WindowFinite
<1>2. CASE reason = "ExtentSeal"
  <2>1. /\ Window(h) = Window(g) \cup {h.next_ticket}
        /\ h.extent_unsent = g.extent_unsent + 1 /\ g.extent_unsent \in Nat
        /\ \A t \in Window(g) : t \in Int /\ t < h.next_ticket
        /\ h.next_ticket \in Int
    <3>1. g.extent_unsent \in Nat /\ h.next_ticket \in Nat
      BY DEF Ledger
    <3> QED BY <1>2, <3>1, WindowPush DEF Pushed
  <2>2. ASSUME NEW t \in UnsentExtents(h), t # h.next_ticket PROVE t \in UnsentExtents(g)
    <3> DEFINE A == {u \in Window(g) : u > t}
               B == {u \in Window(h) : u > t}
    <3>1. t \in Window(g) /\ Cardinality(B) < h.extent_unsent
      BY Zenon, <2>1, <2>2, WindowFinite
    <3>2. B = A \cup {h.next_ticket} /\ h.next_ticket \notin A
      BY <2>1, <3>1
    <3>3. IsFiniteSet(A) /\ Cardinality(A) \in Nat
      BY Zenon, WindowFinite
    <3> HIDE DEF A, B
    <3>4. Cardinality(B) = Cardinality(A) + 1
      BY Zenon, <3>2, <3>3, FS_AddElement
    <3>5. Cardinality(A) < g.extent_unsent
      BY <2>1, <3>1, <3>3, <3>4
    <3> QED BY <3>1, <3>5, WindowFinite DEF A
  <2> QED BY <1>2, <2>2
<1> QED BY <1>1, <1>2

\* Once issued, no extent barrier is unsent.
LEMMA UnsentIssued ==
    ASSUME NEW g \in Ledger, g.extent_unsent = 0
    PROVE  UnsentExtents(g) = {}
<1> SUFFICES ASSUME NEW t \in UnsentExtents(g) PROVE FALSE
  OBVIOUS
<1>1. Cardinality({u \in Window(g) : u > t}) < 0
  BY WindowFinite
<1>2. Cardinality({u \in Window(g) : u > t}) \in Nat
  BY Zenon, WindowFinite
<1> QED BY <1>1, <1>2

-----------------------------------------------------------------------------
\* An unsent extent barrier is an extent barrier.
LEMMA UnsentReason ==
    ASSUME NEW g \in Ledger, NEW t \in UnsentExtents(g)
    PROVE  t \in Int /\ Reason(g, t) = "ExtentSeal"
<1>1. t \in Window(g) /\ t \in Int
  BY Zenon, WindowFinite
<1>2. PICK i \in DOMAIN g.pending : /\ g.pending[i].reason = "ExtentSeal"
                                    /\ t = g.next_ticket - Len(g.pending) + i
  BY <1>1 DEF Window
<1>3. g.pending \in Seq(PendingFsync) /\ g.next_ticket \in Nat
  BY DEF Ledger
<1>4. Len(g.pending) \in Nat /\ i \in Int
  BY <1>3
<1>5. pending_index(g, t) = i
  BY <1>2, <1>3, <1>4 DEF pending_index
<1> QED BY <1>1, <1>2, <1>5 DEF Reason

\* Another barrier is registered and its sync issued.
LEMMA UnsentKeptPush ==
    ASSUME NEW g \in Ledger, NEW h \in Ledger, NEW d \in View, NEW e, Unsent(g, d),
           NEW c, NEW reason, reason # "ExtentSeal", Pushed(g, h, c, reason),
           \A s \in e.syncs : s \in d.syncs \/ s.ticket = h.next_ticket
    PROVE  Unsent(h, e)
<1>1. \A t \in UnsentExtents(h) : t \in UnsentExtents(g) /\ t \in Int
  BY UnsentPush, UnsentReason
<1>2. \A t \in UnsentExtents(h) : Live(h, t) /\ t # h.next_ticket
  BY <1>1, LivePush DEF Unsent
<1> QED BY <1>1, <1>2 DEF Unsent

\* An extent barrier is registered, not issued.
LEMMA UnsentKeptExtent ==
    ASSUME NEW g \in Ledger, NEW h \in Ledger, NEW d \in View, Unsent(g, d), Tickets(g, d),
           NEW c, Pushed(g, h, c, "ExtentSeal")
    PROVE  Unsent(h, d)
<1>1. \A t \in UnsentExtents(h) : t = h.next_ticket \/ (t \in UnsentExtents(g) /\ t \in Int)
  BY Zenon, UnsentPush, UnsentReason
<1>2. \A s \in d.syncs : s.ticket # h.next_ticket
  BY TicketsTyped, LivePush DEF Tickets
<1>3. \A t \in UnsentExtents(h) : Live(h, t)
  BY <1>1, LivePush DEF Unsent
<1> QED BY <1>1, <1>2, <1>3 DEF Unsent

\* The unsent extents depend on the entries alone.
LEMMA UnsentSame ==
    ASSUME NEW g, NEW h, NEW d, NEW e, Unsent(g, d), h.pending = g.pending,
           h.next_ticket = g.next_ticket, h.extent_unsent = g.extent_unsent,
           e.syncs = d.syncs
    PROVE  Unsent(h, e)
<1>1. UnsentExtents(h) = UnsentExtents(g)
  BY DEF UnsentExtents
<1>2. \A t : Live(h, t) = Live(g, t)
  BY DEF Live, pending_live, pending_index
<1> QED BY <1>1, <1>2 DEF Unsent

\* The head of the ledger, and its failures.
LEMMA HeadsPush ==
    ASSUME NEW g \in Ledger, NEW h, NEW c, NEW reason, Pushed(g, h, c, reason), Heads(g)
    PROVE  Heads(h)
<1> DEFINE L == Len(g.pending)
<1>1. /\ L \in Nat /\ DOMAIN g.pending = 1..L /\ DOMAIN h.pending = 1..(L + 1)
      /\ \A i \in 1..L : h.pending[i] = g.pending[i]
      /\ ~h.pending[L + 1].done /\ ~h.pending[L + 1].failed
  BY Zenon, PushedFacts
<1>2. L = 0 \/ (1 \in 1..L /\ g.pending # <<>>)
  <2>1. g.pending = <<>> => L = 0
    OBVIOUS
  <2>2. L \in Nat
    BY Zenon, <1>1
  <2> HIDE DEF L
  <2>3. L = 0 \/ 1 \in 1..L
    BY <2>2
  <2> QED BY Zenon, <2>1, <2>3
<1> HIDE DEF L
<1>3. ~h.pending[1].done
  <2>1. CASE L = 0
    <3>1. L + 1 = 1
      BY <2>1
    <3> QED BY Zenon, <1>1, <3>1
  <2>2. CASE 1 \in 1..L /\ g.pending # <<>>
    BY Zenon, <1>1, <2>2 DEF Heads
  <2> QED BY Zenon, <1>2, <2>1, <2>2
<1>4. \A i \in 1..(L + 1) : i \in 1..L \/ i = L + 1
  BY <1>1
<1> QED BY <1>1, <1>3, <1>4 DEF Heads

-----------------------------------------------------------------------------
\* No segment and no frame is added.
LEMMA SegsKept ==
    ASSUME NEW g \in Ledger, NEW h \in Ledger, NEW d \in View, NEW e \in View, Keeps(d, e),
           NEW r, NEW q, Segs(g, d, r), e.frames = d.frames, g.next_ticket <= h.next_ticket,
           q.active = r.active,
           q.next # NoNext => r.next # NoNext /\ q.next.id = r.next.id
    PROVE  Segs(h, e, q)
<1>1. g.next_ticket \in Int /\ h.next_ticket \in Int
  BY DEF Ledger
<1>2. \A o : Coming(d, o, g.next_ticket) => Coming(e, o, h.next_ticket)
  BY Zenon, <1>1, ComingKept
<1>3. \A n \in DOMAIN d.frames : Bytes(d, n, g.next_ticket) => Bytes(e, n, h.next_ticket)
  BY Zenon, <1>1, SecuredKept
<1> QED BY Zenon, <1>2, <1>3 DEF Segs

\* MAINTAIN names a next segment and syncs the directory.
LEMMA SegsNamed ==
    ASSUME NEW g \in Ledger, NEW h \in Ledger, NEW d \in View, NEW e \in View, Keeps(d, e),
           NEW r, NEW q, Segs(g, d, r), e.frames = d.frames, g.next_ticket <= h.next_ticket,
           q.active = r.active, Coming(e, <<"dir", q.next.id>>, h.next_ticket)
    PROVE  Segs(h, e, q)
<1>1. g.next_ticket \in Int /\ h.next_ticket \in Int
  BY DEF Ledger
<1>2. \A o : Coming(d, o, g.next_ticket) => Coming(e, o, h.next_ticket)
  BY Zenon, <1>1, ComingKept
<1>3. \A n \in DOMAIN d.frames : Bytes(d, n, g.next_ticket) => Bytes(e, n, h.next_ticket)
  BY Zenon, <1>1, SecuredKept
<1> QED BY Zenon, <1>2, <1>3 DEF Segs

\* A sync of the active segment secures the frames that are written.
LEMMA PrefixSecured ==
    ASSUME NEW g \in Ledger, NEW d \in View, NEW e \in View, Keeps(d, e), NEW r,
           Segs(g, d, r), NEW t \in Int, g.next_ticket <= t, NEW n \in DOMAIN d.frames,
           n \in WrittenFrames(g), SyncOf(g, d.frames, t, r.active) \in e.syncs
    PROVE  Secured(e, n, t)
<1>1. g.next_ticket \in Int /\ t <= t
  BY DEF Ledger
<1>2. e.frames[n].seg = d.frames[n].seg
  BY Zenon DEF Keeps
<1>3. Coming(e, <<"dir", e.frames[n].seg>>, t)
  BY Zenon, <1>1, <1>2, ComingKept DEF Segs
<1>4. CASE d.frames[n].seg # r.active
  BY Zenon, <1>1, <1>3, <1>4, SecuredKept DEF Segs, Secured
<1>5. CASE d.frames[n].seg = r.active
  <2> DEFINE s == SyncOf(g, d.frames, t, r.active)
  <2>1. s.ticket = t /\ <<"frame", n>> \in s.objs
    BY <1>5 DEF SyncOf, FramesOf
  <2>2. s.ticket <= t
    BY <1>1, <2>1
  <2> QED BY <1>3, <2>1, <2>2 DEF Bytes, Coming, Secured
<1> QED BY Zenon, <1>4, <1>5

\* Frames in flight.

-----------------------------------------------------------------------------
\* No frame is queued and none completes.
LEMMA ShapeSame ==
    ASSUME NEW g, NEW h, NEW d, NEW e, LogShape(g, d), h.queued = g.queued,
           h.written_up_to = g.written_up_to, Len(e.frames) = Len(d.frames),
           e.in_flight = d.in_flight
    PROVE  LogShape(h, e)
BY DEF LogShape, queued_up_to

-----------------------------------------------------------------------------
\* The entries stay.
LEMMA ExtentsSame ==
    ASSUME NEW g, NEW h, NEW d, NEW e, NEW b, NEW a, Extents(g, d, b),
           h.pending = g.pending, h.next_ticket = g.next_ticket,
           e.syncs = d.syncs, d.stable \subseteq e.stable, a.exts \subseteq b.exts
    PROVE  Extents(h, e, a)
<1>1. \A t : Live(h, t) = Live(g, t) /\ Reason(h, t) = Reason(g, t)
  BY Zenon DEF Live, Reason, pending_live, pending_index
<1> QED BY <1>1 DEF Extents

\* Another barrier is registered, with its sync.
LEMMA ExtentsPush ==
    ASSUME NEW g \in Ledger, NEW h, NEW d \in View, NEW e, NEW b, NEW a, Extents(g, d, b),
           Tickets(g, d), NEW c, NEW reason, reason # "ExtentSeal", Pushed(g, h, c, reason),
           \A s \in e.syncs : s \in d.syncs \/ s.ticket = h.next_ticket,
           d.stable \subseteq e.stable, a.exts \subseteq b.exts
    PROVE  Extents(h, e, a)
<1>1. \A s \in d.syncs : s.ticket \in Int /\ Live(g, s.ticket)
  BY TicketsTyped DEF Tickets
<1>2. ASSUME NEW s \in e.syncs, Reason(h, s.ticket) = "ExtentSeal"
      PROVE  <<"ext", s.ticket>> \in s.objs
  <2>1. s.ticket # h.next_ticket
    BY Zenon, <1>2, LivePush
  <2>2. s \in d.syncs /\ Reason(g, s.ticket) = "ExtentSeal"
    BY Zenon, <1>1, <1>2, <2>1, LivePush
  <2> QED BY Zenon, <2>2 DEF Extents
<1>3. ASSUME NEW x \in a.exts
      PROVE  \/ <<"ext", x>> \in e.stable
             \/ x \in Int /\ Live(h, x) /\ Reason(h, x) = "ExtentSeal"
  <2>1. \/ <<"ext", x>> \in d.stable
        \/ x \in Int /\ Live(g, x) /\ Reason(g, x) = "ExtentSeal"
    BY Zenon DEF Extents
  <2> QED BY Zenon, <2>1, LivePush
<1> QED BY Zenon, <1>2, <1>3 DEF Extents

\* A record that references an extent is staged with the extent's barrier.
LEMMA ExtentsRegister ==
    ASSUME NEW g \in Ledger, NEW h \in Ledger, NEW d \in View, NEW b, NEW a, Extents(g, d, b),
           Tickets(g, d), NEW c, Pushed(g, h, c, "ExtentSeal"),
           a.exts = b.exts \cup {h.next_ticket}
    PROVE  Extents(h, d, a)
<1>1. \A s \in d.syncs : s.ticket \in Int /\ Live(g, s.ticket)
  BY Zenon, TicketsTyped DEF Tickets
<1>2. \A s \in d.syncs : Reason(h, s.ticket) = "ExtentSeal" => <<"ext", s.ticket>> \in s.objs
  BY Zenon, <1>1, LivePush DEF Extents
<1>3. h.next_ticket \in Int
  BY DEF Ledger
<1>4. ASSUME NEW x \in a.exts
      PROVE  \/ <<"ext", x>> \in d.stable
             \/ x \in Int /\ Live(h, x) /\ Reason(h, x) = "ExtentSeal"
  <2>1. CASE x = h.next_ticket
    BY Zenon, <1>3, <2>1, LivePush
  <2>2. CASE x \in b.exts
    <3>1. \/ <<"ext", x>> \in d.stable
          \/ x \in Int /\ Live(g, x) /\ Reason(g, x) = "ExtentSeal"
      BY <2>2 DEF Extents
    <3> QED BY Zenon, <3>1, LivePush
  <2> QED BY Zenon, <2>1, <2>2
<1> QED BY Zenon, <1>2, <1>4 DEF Extents

-----------------------------------------------------------------------------
\* A sync on one object has its ticket.
LEMMA SyncOnFields ==
    ASSUME NEW t, NEW o
    PROVE  SyncOn(t, o).ticket = t /\ SyncOn(t, o).objs = {o} /\ SyncOn(t, o).after = 0
BY DEF SyncOn

\* No next segment is a segment in no state.
LEMMA NoNextFields == NoNext.state = "None" /\ NoNext.in_flight = 0 /\ ~NoNext.prezeroed
BY Zenon DEF NoNext

\* Neither segment changes.
LEMMA RotorsSame ==
    ASSUME NEW r, NEW q, NEW d, NEW e, NEW z, NEW w, Rotors(r, d, z, w),
           SameSegments(r, q), d.stable \subseteq e.stable,
           \A s \in d.syncs : s.ticket = z => s \in e.syncs,
           \A n \in DOMAIN e.frames : e.frames[n].seg <= r.active
    PROVE  Rotors(q, e, z, w)
<1>1. z # 0 => SyncOn(z, <<"alloc", r.next.id>>) \in e.syncs
  BY Zenon, SyncOnFields DEF Rotors
<1>2. ready_prezeroed(q) <=> ready_prezeroed(r)
  BY Zenon DEF ready_prezeroed, SameSegments
<1> QED BY Zenon, <1>1, <1>2 DEF Rotors, SameSegments

\* MAINTAIN names the next segment.
LEMMA RotorsNamed ==
    ASSUME NEW r \in Rotor, NEW q, NEW d, NEW e, NEW z, NEW w, Rotors(r, d, z, w),
           r.next = NoNext, NewNext(r, q), d.stable \subseteq e.stable, e.frames = d.frames
    PROVE  Rotors(q, e, z, w)
<1>1. z = 0 /\ w = -1
  BY Zenon, NoNextFields DEF Rotors
<1>2. ~ready_prezeroed(q) /\ q.next.state \notin {"None", "BarrierInFlight"}
  BY DEF ready_prezeroed, NewNext
<1> QED BY Zenon, <1>1, <1>2 DEF Rotors, NewNext

\* A zero slice is issued.
LEMMA RotorsSlice ==
    ASSUME NEW r \in Rotor, NEW d, NEW z, NEW w, Rotors(r, d, z, w), zero_fill_pending(r)
    PROVE  Rotors(next_zero_slice(r), d, z, r.next.id)
<1> DEFINE q == next_zero_slice(r)
<1>1. /\ q.active = r.active /\ (q.prezeroed <=> r.prezeroed)
      /\ (q.panic <=> r.panic) /\ q.next.id = r.next.id
      /\ q.next.in_flight = 1 /\ q.next.state = "Filling" /\ r.next.state = "Filling"
  BY Zenon, FillIs DEF zero_fill_pending
<1>2. r.next # NoNext /\ ~ready_prezeroed(q)
  BY Zenon, <1>1, NoNextFields DEF ready_prezeroed
<1> HIDE DEF q
<1>3. Rotors(q, d, z, r.next.id)
  BY <1>1, <1>2 DEF Rotors
<1> QED BY Zenon, <1>3 DEF q

\* The zero fill's barrier is issued.
LEMMA RotorsBarrier ==
    ASSUME NEW r \in Rotor, NEW d, NEW e, NEW z, NEW w, NEW t \in Nat \ {0},
           Rotors(r, d, z, w), r.next.state = "AwaitBarrier", d.stable \subseteq e.stable,
           e.frames = d.frames, SyncOn(t, <<"alloc", r.next.id>>) \in e.syncs
    PROVE  Rotors(take_zero_fill_barrier(r), e, t, w)
<1> DEFINE q == take_zero_fill_barrier(r)
<1>1. /\ q.active = r.active /\ (q.prezeroed <=> r.prezeroed)
      /\ (q.panic <=> r.panic) /\ q.next.id = r.next.id
      /\ q.next.in_flight = r.next.in_flight /\ q.next.state = "BarrierInFlight"
  BY Zenon, FillIs
<1>2. r.next # NoNext /\ ~ready_prezeroed(q) /\ r.next.in_flight = 0
  BY Zenon, <1>1, NoNextFields DEF ready_prezeroed, Rotors
<1> HIDE DEF q
<1>3. Rotors(q, e, t, w)
  BY <1>1, <1>2 DEF Rotors
<1> QED BY Zenon, <1>3 DEF q

\* A zero slice is written.
LEMMA RotorsWritten ==
    ASSUME NEW r \in Rotor, NEW d, NEW z, NEW w, Rotors(r, d, z, w), w # -1
    PROVE  Rotors(note_zero_slice_written(r), d, z, -1)
<1> DEFINE q == note_zero_slice_written(r)
<1>1. r.next.in_flight # 0 /\ r.next.state = "Filling"
  BY Zenon DEF Rotors
<1>2. /\ q.active = r.active /\ (q.prezeroed <=> r.prezeroed)
      /\ (q.panic <=> r.panic) /\ q.next.id = r.next.id
      /\ q.next.in_flight = 0 /\ q.next.state \in {"Filling", "AwaitBarrier"}
  BY Zenon, <1>1, FillDone
<1>3. r.next # NoNext /\ ~ready_prezeroed(q)
  BY Zenon, <1>1, <1>2, NoNextFields DEF ready_prezeroed
<1> HIDE DEF q
<1>4. Rotors(q, d, z, -1)
  BY <1>1, <1>2, <1>3 DEF Rotors
<1> QED BY Zenon, <1>4 DEF q

-----------------------------------------------------------------------------
\* A view with more in it.
LEMMA KeepsMore ==
    ASSUME NEW d \in View, NEW e \in View, d.stable \subseteq e.stable,
           d.syncs \subseteq e.syncs, d.in_flight \subseteq e.in_flight,
           e.frames = d.frames \/ \E x : e.frames = Append(d.frames, x)
    PROVE  Keeps(d, e)
<1>1. d.frames \in Seq(Frame)
  BY DEF View
<1>2. \A n \in DOMAIN d.frames : n \in DOMAIN e.frames /\ e.frames[n].seg = d.frames[n].seg
  <2>1. CASE e.frames = d.frames
    BY <2>1
  <2>2. CASE \E x : e.frames = Append(d.frames, x)
    <3>1. PICK x : e.frames = Append(d.frames, x)
      BY <2>2
    <3>2. /\ DOMAIN d.frames = 1..Len(d.frames) /\ Len(d.frames) \in Nat
          /\ DOMAIN Append(d.frames, x) = 1..(Len(d.frames) + 1)
          /\ \A n \in 1..Len(d.frames) : Append(d.frames, x)[n] = d.frames[n]
      BY ZenonT(30), <1>1, AppendFacts
    <3> QED BY <3>1, <3>2
  <2> QED BY <2>1, <2>2
<1> QED BY <1>2 DEF Keeps

\* No claim changes.
LEMMA ClaimsQuiet ==
    ASSUME NEW g, NEW h, NEW d, NEW b, NEW a, Claims(g, d, b), Good(h),
           h.pending = g.pending, h.next_ticket = g.next_ticket,
           h.durable_up_to = g.durable_up_to, h.extent_unsent = g.extent_unsent,
           queued_up_to(h) = Len(d.frames), a.exts \subseteq b.exts
    PROVE  Claims(h, d, a)
<1>1. Good(g) /\ d \in View /\ queued_up_to(g) = Len(d.frames)
  BY Zenon DEF Claims
<1>2. Keeps(d, d)
  BY Zenon DEF Keeps
<1>4. Tickets(h, d)
  BY Zenon, TicketsSame DEF Claims
<1>5. Unsent(h, d)
  BY Zenon, UnsentSame DEF Claims
<1>6. Heads(h)
  BY Zenon DEF Claims, Heads
<1>7. Cover(h, d)
  BY Zenon, <1>1, <1>2, CoverSame DEF Claims
<1>8. Extents(h, d, a)
  BY ExtentsSame DEF Claims
<1> QED BY Zenon, <1>1, <1>4, <1>5, <1>6, <1>7, <1>8 DEF Claims

\* The ledger's flags, and nothing else, change.
LEMMA AgreedQuiet ==
    ASSUME NEW g, NEW h, NEW d, NEW b, NEW a, Agreed(g, d, b), Good(h), SameEntries(g, h),
           h.extent_unsent = g.extent_unsent, a.exts \subseteq b.exts
    PROVE  Agreed(h, d, a)
<1>1. LogShape(h, d)
  BY Zenon, ShapeSame DEF Agreed, SameEntries
<1>2. queued_up_to(h) = Len(d.frames)
  BY Zenon, <1>1 DEF LogShape
<1>3. Claims(h, d, a)
  BY <1>2, ClaimsQuiet DEF Agreed, SameEntries
<1> QED BY Zenon, <1>1, <1>3 DEF Agreed

\* A sync is registered and issued, and secures what it covers.
LEMMA AgreedPush ==
    ASSUME NEW g, NEW h, NEW d, NEW e \in View, NEW b, Agreed(g, d, b), Good(h),
           NEW c, NEW reason, reason \notin {"WriteThrough", "ExtentSeal"},
           Pushed(g, h, c, reason), NEW s, s.ticket = h.next_ticket,
           e.syncs = d.syncs \cup {s}, e.in_flight = d.in_flight, e.frames = d.frames,
           d.stable \subseteq e.stable, \A n \in 1..c : Secured(e, n, h.next_ticket)
    PROVE  Agreed(h, e, b) /\ Keeps(d, e)
<1>1. Good(g) /\ g \in Ledger /\ h \in Ledger /\ d \in View /\ queued_up_to(g) = Len(d.frames)
  BY Zenon DEF Agreed, Claims, Good
<1>2. Keeps(d, e)
  BY Zenon, <1>1, KeepsMore
<1>3. LogShape(h, e)
  BY Zenon, ShapeSame DEF Agreed, Claims, Pushed
<1>4. Tickets(h, e)
  BY Zenon, <1>1, TicketsPush DEF Agreed, Claims
<1>5. Unsent(h, e)
  BY Zenon, <1>1, UnsentKeptPush DEF Agreed, Claims
<1>6. Heads(h)
  BY Zenon, <1>1, HeadsPush DEF Agreed, Claims
<1>7. Cover(h, e)
  BY Zenon, <1>1, <1>2, CoverPush DEF Agreed, Claims
<1>8. Extents(h, e, b)
  BY <1>1, ExtentsPush DEF Agreed, Claims
<1>9. Referenced(e)
  BY Zenon DEF Agreed, Claims, Referenced
<1> QED BY Zenon, <1>2, <1>3, <1>4, <1>5, <1>6, <1>7, <1>8, <1>9 DEF Agreed, Claims, LogShape

\* A sync registered at the tail claims nothing new.
LEMMA AgreedPushTail ==
    ASSUME NEW g, NEW h, NEW d, NEW e \in View, NEW b, Agreed(g, d, b), Good(h),
           NEW reason, reason \notin {"WriteThrough", "ExtentSeal"},
           Pushed(g, h, coverage_tail(g), reason), NEW s, s.ticket = h.next_ticket,
           e.syncs = d.syncs \cup {s}, e.in_flight = d.in_flight, e.frames = d.frames,
           d.stable \subseteq e.stable
    PROVE  Agreed(h, e, b) /\ Keeps(d, e)
<1>1. Good(g) /\ g \in Ledger /\ d \in View /\ queued_up_to(g) = Len(d.frames) /\ Cover(g, d)
  BY Zenon DEF Agreed, Claims, Good
<1>2. Keeps(d, e)
  BY Zenon, <1>1, KeepsMore
<1>3. \A n \in 1..coverage_tail(g) : n \in DOMAIN d.frames /\ Secured(d, n, g.next_ticket)
  BY Zenon, <1>1, TailSecured, CoversQueued
<1>4. g.next_ticket \in Int /\ h.next_ticket \in Int /\ g.next_ticket <= h.next_ticket
  BY Zenon, <1>1, PushedTicket
<1>5. \A n \in 1..coverage_tail(g) : Secured(e, n, h.next_ticket)
  BY <1>1, <1>2, <1>3, <1>4, SecuredKept
<1> QED BY <1>5, AgreedPush

\* A blob write registers its extent's barrier and stages its record.
LEMMA AgreedExtent ==
    ASSUME NEW g, NEW h, NEW d, NEW b, NEW a, Agreed(g, d, b), Good(h),
           Pushed(g, h, coverage_tail(g), "ExtentSeal"), a.exts = b.exts \cup {h.next_ticket}
    PROVE  Agreed(h, d, a)
<1>1. Good(g) /\ g \in Ledger /\ h \in Ledger /\ d \in View /\ queued_up_to(g) = Len(d.frames)
  BY Zenon DEF Agreed, Claims, Good
<1>2. Keeps(d, d)
  BY Zenon DEF Keeps
<1>3. LogShape(h, d)
  BY Zenon, ShapeSame DEF Agreed, Claims, Pushed
<1>4. Tickets(h, d)
  BY Zenon, <1>1, TicketsPushExtent DEF Agreed, Claims
<1>5. Unsent(h, d)
  BY Zenon, <1>1, UnsentKeptExtent DEF Agreed, Claims
<1>6. Heads(h)
  BY Zenon, <1>1, HeadsPush DEF Agreed, Claims
<1>7. Cover(h, d)
  BY Zenon, <1>1, <1>2, CoverPushTail DEF Agreed, Claims
<1>8. Extents(h, d, a)
  BY Zenon, <1>1, ExtentsRegister DEF Agreed, Claims
<1> QED BY Zenon, <1>1, <1>3, <1>4, <1>5, <1>6, <1>7, <1>8 DEF Agreed, Claims, LogShape

-----------------------------------------------------------------------------
\* Neither the device nor a segment is touched.
LEMMA PlaneQuiet ==
    ASSUME NEW g, NEW h, NEW d, NEW r, NEW q \in Rotor, NEW b, NEW a, NEW z, NEW w,
           Plane(g, d, r, b, z, w), Good(h), SameEntries(g, h),
           h.extent_unsent = g.extent_unsent, SameSegments(r, q), a.exts \subseteq b.exts
    PROVE  Plane(h, d, q, a, z, w)
<1>1. Agreed(h, d, a)
  BY Zenon, AgreedQuiet DEF Plane
<1>2. g \in Ledger /\ h \in Ledger /\ d \in View /\ Keeps(d, d)
  BY Zenon DEF Plane, Agreed, Claims, Good, Keeps
<1>3. g.next_ticket <= h.next_ticket
  BY Zenon, <1>2, SameTicket
<1>4. Segs(h, d, q)
  BY Zenon, <1>2, <1>3, SegsKept DEF Plane, SameSegments
<1>5. Rotors(q, d, z, w)
  <2>1. Rotors(r, d, z, w)
    BY Zenon DEF Plane
  <2>2. \A n \in DOMAIN d.frames : d.frames[n].seg <= r.active
    BY Zenon, <2>1 DEF Rotors
  <2>3. \A s \in d.syncs : s.ticket = z => s \in d.syncs
    OBVIOUS
  <2> QED BY Zenon, <2>1, <2>2, <2>3, RotorsSame
<1> QED BY Zenon, <1>1, <1>4, <1>5 DEF Plane

\* A blob write's record is staged.
LEMMA PlaneExtent ==
    ASSUME NEW g, NEW h, NEW d, NEW r, NEW b, NEW a, NEW z, NEW w,
           Plane(g, d, r, b, z, w), Good(h), Pushed(g, h, coverage_tail(g), "ExtentSeal"),
           a.exts = b.exts \cup {h.next_ticket}
    PROVE  Plane(h, d, r, a, z, w)
<1>1. Agreed(h, d, a)
  BY Zenon, AgreedExtent DEF Plane
<1>2. g \in Ledger /\ h \in Ledger /\ d \in View /\ Keeps(d, d)
  BY Zenon DEF Plane, Agreed, Claims, Good, Keeps
<1>3. g.next_ticket <= h.next_ticket
  BY Zenon, <1>2, PushedTicket
<1>4. Segs(h, d, r)
  BY Zenon, <1>2, <1>3, SegsKept DEF Plane
<1> QED BY Zenon, <1>1, <1>4 DEF Plane

\* The syncs of the window's extents are issued.
LEMMA PlaneIssue ==
    ASSUME NEW g, NEW d, NEW e \in View, NEW r, NEW b, NEW z, NEW w,
           Plane(g, d, r, b, z, w),
           e.syncs = d.syncs \cup {SyncOn(t, <<"ext", t>>) : t \in UnsentExtents(g)},
           e.in_flight = d.in_flight, e.stable = d.stable, e.frames = d.frames
    PROVE  Plane(issue_extent_syncs(g), e, r, b, z, w)
<1> DEFINE h == issue_extent_syncs(g)
<1>1. Good(g) /\ g \in Ledger /\ d \in View
  BY DEF Plane, Agreed, Claims, Good
<1>2. Good(h) /\ h \in Ledger /\ SameEntries(g, h) /\ h.extent_unsent = 0
  BY Zenon, <1>1, FlagsKeep, FlagsSame DEF Good
<1> HIDE DEF h
<1>3. Keeps(d, e)
  BY Zenon, <1>1, KeepsMore
<1>4. LogShape(h, e)
  BY Zenon, <1>2, ShapeSame DEF Plane, Agreed, SameEntries
<1>5. \A t : Live(h, t) <=> Live(g, t)
  BY Zenon, <1>2 DEF Live, pending_live, pending_index, SameEntries
<1>6. \A t : Reason(h, t) = Reason(g, t)
  BY Zenon, <1>2 DEF Reason, pending_index, SameEntries
<1>7. ASSUME NEW s \in e.syncs
      PROVE  \/ s \in d.syncs
             \/ \E t \in UnsentExtents(g) :
                   /\ s = SyncOn(t, <<"ext", t>>) /\ s.ticket = t /\ s.objs = {<<"ext", t>>}
                   /\ Live(g, t) /\ Reason(g, t) = "ExtentSeal"
                   /\ \A y \in d.syncs : y.ticket # t
  <2>1. CASE s \in d.syncs
    BY <2>1
  <2>2. CASE s \notin d.syncs
    <3>1. PICK t \in UnsentExtents(g) : s = SyncOn(t, <<"ext", t>>)
      BY <1>7, <2>2
    <3> QED BY ZenonT(30), <1>1, <3>1, SyncOnFields, UnsentReason DEF Plane, Agreed, Claims, Unsent
  <2> QED BY Zenon, <2>1, <2>2
<1>8. Tickets(h, e)
  <2>1. \A s \in e.syncs : Live(h, s.ticket) /\ Reason(h, s.ticket) # "WriteThrough"
    BY Zenon, <1>5, <1>6, <1>7 DEF Plane, Agreed, Claims, Tickets
  <2>2. \A s, y \in e.syncs : s.ticket = y.ticket => s = y
    <3> SUFFICES ASSUME NEW s \in e.syncs, NEW y \in e.syncs, s.ticket = y.ticket
                 PROVE  s = y
      OBVIOUS
    <3>1. s \in d.syncs /\ y \in d.syncs => s = y
      BY Zenon DEF Plane, Agreed, Claims, Tickets
    <3>2. s \in d.syncs /\ y \notin d.syncs => FALSE
      BY Zenon, <1>7
    <3>3. s \notin d.syncs /\ y \in d.syncs => FALSE
      BY Zenon, <1>7
    <3>4. s \notin d.syncs /\ y \notin d.syncs => s = y
      BY Zenon, <1>7
    <3> QED BY Zenon, <3>1, <3>2, <3>3, <3>4
  <2> QED BY Zenon, <1>5, <1>6, <2>1, <2>2 DEF Plane, Agreed, Claims, Tickets
<1>9. Unsent(h, e)
  BY <1>2, UnsentIssued DEF Unsent
<1>10. Heads(h)
  BY Zenon, <1>2 DEF Plane, Agreed, Claims, Heads, SameEntries
<1>11. Cover(h, e)
  BY Zenon, <1>1, <1>2, <1>3, CoverSame DEF Plane, Agreed, Claims, SameEntries
<1>12. Extents(h, e, b)
  BY Zenon, <1>5, <1>6, <1>7 DEF Plane, Agreed, Claims, Extents
<1>13. Referenced(e)
  BY Zenon DEF Plane, Agreed, Claims, Referenced
<1>14. Segs(h, e, r)
  <2>1. g.next_ticket <= h.next_ticket
    BY Zenon, <1>1, <1>2, SameTicket
  <2> QED BY Zenon, <1>1, <1>2, <1>3, <2>1, SegsKept DEF Plane
<1>15. Rotors(r, e, z, w)
  BY Zenon DEF Plane, Rotors
<1>16. queued_up_to(h) = Len(e.frames)
  BY Zenon, <1>4 DEF LogShape
<1>17. Plane(h, e, r, b, z, w)
  BY Zenon, <1>2, <1>4, <1>8, <1>9, <1>10, <1>11, <1>12, <1>13, <1>14, <1>15, <1>16
     DEF Plane, Agreed, Claims
<1> QED BY Zenon, <1>17 DEF h

\* EXECUTE, the tick, truncation, the zero fill's writes, and the steps of the blob
\* writers' queue.
LEMMA SmallSteps ==
    ASSUME TypeOK, TypeOK', Good(gc'), Alive,
           \/ \E class \in Classes :
                  stage(class) \/ write_blob_arrival(class) \/ write_blob_turn(class)
           \/ drop_turn \/ on_everysec_tick \/ truncate \/ tier_maintain
           \/ on_zero_fill_written \/ extent_hold
           \/ UNCHANGED vars
    PROVE  Alive'
<1>1. gc \in Ledger /\ rotor \in Rotor /\ rotor' \in Rotor /\ Good(gc)
  BY Zenon DEF TypeOK, Alive, Plane, Agreed, Claims
<1>2. SameEntries(gc, gc) /\ SameSegments(rotor, rotor)
  BY DEF SameEntries, SameSegments
<1>3. ASSUME UNCHANGED <<gc, rotor, builder, zero_fill_ticket, fill_write,
                         syncs, in_flight, stable, frames>>
      PROVE  Alive'
  BY <1>3 DEF Alive, Seen
<1>4. ASSUME NEW class \in Classes, stage(class)
      PROVE  Alive'
  <2>1. /\ gc' = note_staged(gc, class) /\ builder'.exts \subseteq builder.exts
        /\ Seen' = Seen /\ UNCHANGED <<rotor, zero_fill_ticket, fill_write>>
    BY Zenon, <1>4 DEF stage, StageRecord, Seen, device
  <2>2. SameEntries(gc, gc') /\ gc'.extent_unsent = gc.extent_unsent
    BY Zenon, <1>1, <2>1, FlagsSame
  <2> QED BY Zenon, <1>1, <1>2, <2>1, <2>2, PlaneQuiet DEF Alive
<1>5. ASSUME NEW class \in Classes, RegisterAndStage(class)
      PROVE  Alive'
  <2> DEFINE g == register_extent(gc)
  <2>1. /\ gc' = note_staged(g, class) /\ builder'.exts = builder.exts \cup {gc.next_ticket + 1}
        /\ Seen' = Seen /\ UNCHANGED <<rotor, zero_fill_ticket, fill_write>>
    BY Zenon, <1>5 DEF RegisterAndStage, StageRecord, Seen, device
  <2>2. Good(g) /\ g \in Ledger /\ Pushed(gc, g, coverage_tail(gc), "ExtentSeal")
    BY <1>1, TailBarriersKeep, Registrations DEF Good
  <2> HIDE DEF g
  <2>3. builder'.exts = builder.exts \cup {g.next_ticket}
    BY Zenon, <2>1, <2>2 DEF Pushed
  <2>4. Plane(g, Seen, rotor, builder', zero_fill_ticket, fill_write)
    BY Zenon, <2>2, <2>3, PlaneExtent DEF Alive
  <2>5. SameEntries(g, gc') /\ gc'.extent_unsent = g.extent_unsent
    BY Zenon, <2>1, <2>2, FlagsSame
  <2>6. Plane(gc', Seen, rotor, builder', zero_fill_ticket, fill_write)
    BY Zenon, <1>1, <1>2, <2>4, <2>5, PlaneQuiet
  <2> QED BY Zenon, <2>1, <2>6 DEF Alive
<1>6. ASSUME NEW class \in Classes, write_blob_arrival(class) \/ write_blob_turn(class)
      PROVE  Alive'
  BY Zenon, <1>3, <1>5, <1>6 DEF write_blob_arrival, write_blob_turn, device
<1>7. CASE drop_turn
  BY Zenon, <1>3, <1>7 DEF drop_turn, device
<1>8. CASE extent_hold
  BY Zenon, <1>3, <1>8 DEF extent_hold, device
<1>9. CASE on_everysec_tick
  <2>1. /\ gc' = note_everysec_tick(gc) /\ builder'.exts \subseteq builder.exts
        /\ Seen' = Seen /\ UNCHANGED <<rotor, zero_fill_ticket, fill_write>>
    BY Zenon, <1>9 DEF on_everysec_tick, Seen, device
  <2>2. SameEntries(gc, gc') /\ gc'.extent_unsent = gc.extent_unsent
    BY Zenon, <1>1, <2>1, FlagsSame
  <2> QED BY <1>1, <1>2, <2>1, <2>2, PlaneQuiet DEF Alive
<1>10. CASE truncate
  <2>1. /\ rotor' = forget_sealed(rotor) /\ builder'.exts \subseteq builder.exts
        /\ Seen' = Seen /\ UNCHANGED <<gc, zero_fill_ticket, fill_write>>
    BY Zenon, <1>10 DEF truncate, Seen, device
  <2>2. SameSegments(rotor, rotor')
    BY <1>1, <2>1, CursorIs
  <2> QED BY <1>1, <1>2, <2>1, <2>2, PlaneQuiet DEF Alive
<1>11. CASE tier_maintain
  <2>1. /\ gc' = issue_extent_syncs(gc)
        /\ syncs' = syncs \cup {SyncOn(t, <<"ext", t>>) : t \in UnsentExtents(gc)}
        /\ UNCHANGED <<rotor, builder, in_flight, zero_fill_ticket, frames, fill_write, stable>>
    BY <1>11 DEF tier_maintain
  <2>2. /\ Seen' \in View
        /\ Seen'.syncs = Seen.syncs \cup {SyncOn(t, <<"ext", t>>) : t \in UnsentExtents(gc)}
        /\ Seen'.in_flight = Seen.in_flight /\ Seen'.stable = Seen.stable
        /\ Seen'.frames = Seen.frames
    BY Zenon, <2>1, SeenTyped DEF Seen, View, TypeOK, Sync
  <2>3. Plane(gc', Seen', rotor, builder, zero_fill_ticket, fill_write)
    BY Zenon, <2>1, <2>2, PlaneIssue DEF Alive
  <2> QED BY Zenon, <2>1, <2>3 DEF Alive
<1>12. CASE on_zero_fill_written
  <2>1. /\ fill_write # -1 /\ rotor' = note_zero_slice_written(rotor) /\ fill_write' = -1
        /\ Seen' = Seen /\ UNCHANGED <<gc, builder, zero_fill_ticket>>
    BY Zenon, <1>12 DEF on_zero_fill_written, Seen
  <2>2. Rotors(rotor', Seen, zero_fill_ticket, -1)
    BY Zenon, <1>1, <2>1, RotorsWritten DEF Alive, Plane
  <2>3. Segs(gc, Seen, rotor')
    <3>1. rotor.next.state = "Filling" /\ rotor.next.in_flight # 0
      BY Zenon, <2>1 DEF Alive, Plane, Rotors
    <3>2. rotor'.active = rotor.active /\ rotor'.next.id = rotor.next.id
      BY <1>1, <2>1, <3>1, FillDone
    <3>3. rotor.next # NoNext
      BY Zenon, <3>1, NoNextFields
    <3>4. Seen \in View /\ Keeps(Seen, Seen) /\ gc.next_ticket <= gc.next_ticket
      BY <1>1, SeenTyped DEF Keeps, Ledger
    <3> QED BY Zenon, <1>1, <3>2, <3>3, <3>4, SegsKept DEF Alive, Plane
  <2> QED BY Zenon, <1>1, <2>1, <2>2, <2>3 DEF Alive, Plane
<1>13. CASE UNCHANGED vars
  BY <1>3, <1>13 DEF vars, cell, device
<1> QED BY <1>4, <1>6, <1>7, <1>8, <1>9, <1>10, <1>11, <1>12, <1>13

-----------------------------------------------------------------------------
\* It is a view.
LEMMA WithSyncIs ==
    ASSUME NEW d \in View, NEW s \in Sync
    PROVE  /\ WithSync(d, s) \in View
           /\ WithSync(d, s).syncs = d.syncs \cup {s}
           /\ WithSync(d, s).in_flight = d.in_flight
           /\ WithSync(d, s).stable = d.stable
           /\ WithSync(d, s).frames = d.frames
<1> DEFINE S == d.syncs \cup {s}
<1>1. S \in SUBSET Sync
  BY DEF View
<1>2. WithSync(d, s) = [d EXCEPT !.syncs = S]
  BY DEF WithSync
<1> HIDE DEF S
<1>3. /\ [d EXCEPT !.syncs = S] \in View
      /\ [d EXCEPT !.syncs = S].syncs = S
      /\ [d EXCEPT !.syncs = S].in_flight = d.in_flight
      /\ [d EXCEPT !.syncs = S].stable = d.stable
      /\ [d EXCEPT !.syncs = S].frames = d.frames
  BY <1>1 DEF View
<1> QED BY <1>2, <1>3 DEF S

\* The next segment is named, and the directory synced through the ledger.
LEMMA PlaneNamed ==
    ASSUME NEW g, NEW d, NEW r, NEW q \in Rotor, NEW b, NEW z, NEW w,
           Plane(g, d, r, b, z, w), r.next = NoNext, NewNext(r, q)
    PROVE  LET h == register_prealloc_barrier(g)
           IN  Plane(h, WithSync(d, SyncOn(h.next_ticket, <<"dir", q.next.id>>)), q, b, z, w)
<1> DEFINE h == register_prealloc_barrier(g)
           s == SyncOn(h.next_ticket, <<"dir", q.next.id>>)
           e == WithSync(d, s)
<1>1. Good(g) /\ g \in Ledger /\ d \in View /\ r \in Rotor
  BY Zenon DEF Plane, Agreed, Claims, Good
<1>2. Good(h) /\ h \in Ledger /\ Pushed(g, h, coverage_tail(g), "PreallocBarrier")
  BY <1>1, TailBarriersKeep, Registrations DEF Good
<1> HIDE DEF h
<1>3. h.next_ticket \in Nat /\ g.next_ticket <= h.next_ticket
  BY Zenon, <1>1, <1>2, PushedTicket
<1>4. s \in Sync
  <2>1. <<"dir", q.next.id>> \in Object
    BY Zenon, RotorFields DEF Object
  <2> QED BY <1>3, <2>1, SyncOnTyped
<1>5. s.ticket = h.next_ticket /\ <<"dir", q.next.id>> \in s.objs
  BY SyncOnFields
<1> HIDE DEF s
<1>6. /\ e \in View /\ e.syncs = d.syncs \cup {s} /\ e.in_flight = d.in_flight
      /\ e.stable = d.stable /\ e.frames = d.frames
  BY <1>1, <1>4, WithSyncIs
<1> HIDE DEF e
<1>7. Agreed(h, e, b) /\ Keeps(d, e)
  BY Zenon, <1>2, <1>5, <1>6, AgreedPushTail DEF Plane
<1>8. Coming(e, <<"dir", q.next.id>>, h.next_ticket)
  BY <1>3, <1>5, <1>6 DEF Coming
<1>9. Segs(h, e, q)
  BY Zenon, <1>1, <1>2, <1>3, <1>6, <1>7, <1>8, SegsNamed DEF Plane, NewNext
<1>10. Rotors(q, e, z, w)
  BY Zenon, <1>1, <1>6, RotorsNamed DEF Plane
<1>11. Plane(h, e, q, b, z, w)
  BY <1>7, <1>9, <1>10 DEF Plane
<1> QED BY <1>11 DEF h, s, e

\* A zero slice is issued to the next segment.
LEMMA PlaneSlice ==
    ASSUME NEW g, NEW d, NEW r, NEW b, NEW z, NEW w, Plane(g, d, r, b, z, w),
           zero_fill_pending(r)
    PROVE  Plane(g, d, next_zero_slice(r), b, z, r.next.id)
<1> DEFINE q == next_zero_slice(r)
<1>1. g \in Ledger /\ d \in View /\ r \in Rotor /\ Keeps(d, d)
  BY Zenon DEF Plane, Agreed, Claims, Good, Keeps
<1>2. q \in Rotor /\ q.active = r.active /\ q.next.id = r.next.id
  BY Zenon, <1>1, FillTyped, FillIs
<1>3. r.next # NoNext
  BY Zenon, NoNextFields DEF zero_fill_pending
<1>4. Rotors(q, d, z, r.next.id)
  BY Zenon, <1>1, RotorsSlice DEF Plane
<1> HIDE DEF q
<1>5. Segs(g, d, q)
  <2>1. g.next_ticket <= g.next_ticket
    BY <1>1 DEF Ledger
  <2> QED BY <1>1, <1>2, <1>3, <2>1, SegsKept DEF Plane
<1>6. Plane(g, d, q, b, z, r.next.id)
  BY Zenon, <1>2, <1>4, <1>5 DEF Plane
<1> QED BY <1>6 DEF q

\* The barrier of the zero fill is issued.
LEMMA PlaneBarrier ==
    ASSUME NEW g, NEW d, NEW r, NEW b, NEW z, NEW w, Plane(g, d, r, b, z, w),
           r.next.state = "AwaitBarrier"
    PROVE  LET h == register_zero_fill_barrier(g)
           IN  Plane(h, WithSync(d, SyncOn(h.next_ticket, <<"alloc", r.next.id>>)),
                     take_zero_fill_barrier(r), b, h.next_ticket, w)
<1> DEFINE h == register_zero_fill_barrier(g)
           s == SyncOn(h.next_ticket, <<"alloc", r.next.id>>)
           e == WithSync(d, s)
           q == take_zero_fill_barrier(r)
<1>1. Good(g) /\ g \in Ledger /\ d \in View /\ r \in Rotor
  BY Zenon DEF Plane, Agreed, Claims, Good
<1>2. Good(h) /\ h \in Ledger /\ Pushed(g, h, coverage_tail(g), "ZeroFill")
  BY Zenon, <1>1, TailBarriersKeep, Registrations DEF Good
<1> HIDE DEF h
<1>3. h.next_ticket \in Nat \ {0} /\ g.next_ticket <= h.next_ticket
  BY Zenon, <1>1, <1>2, PushedTicket
<1>4. s \in Sync
  <2>1. <<"alloc", r.next.id>> \in Object
    BY Zenon, <1>1, RotorFields DEF Object
  <2> QED BY Zenon, <1>3, <2>1, SyncOnTyped
<1>5. s.ticket = h.next_ticket
  BY Zenon, SyncOnFields
<1>6. /\ e \in View /\ e.syncs = d.syncs \cup {s} /\ e.in_flight = d.in_flight
      /\ e.stable = d.stable /\ e.frames = d.frames
  <2> HIDE DEF s
  <2> QED BY Zenon, <1>1, <1>4, WithSyncIs
<1> HIDE DEF e
<1>7. Rotors(q, e, h.next_ticket, w)
  BY <1>1, <1>3, <1>6, RotorsBarrier DEF Plane
<1> HIDE DEF s
<1>8. Agreed(h, e, b) /\ Keeps(d, e)
  BY Zenon, <1>2, <1>5, <1>6, AgreedPushTail DEF Plane
<1>9. q \in Rotor /\ q.active = r.active /\ q.next.id = r.next.id
  BY Zenon, <1>1, FillTyped, FillIs
<1>10. r.next # NoNext
  BY NoNextFields
<1> HIDE DEF q
<1>11. Segs(h, e, q)
  BY Zenon, <1>1, <1>2, <1>3, <1>6, <1>8, <1>9, <1>10, SegsKept DEF Plane
<1>12. Plane(h, e, q, b, h.next_ticket, w)
  BY Zenon, <1>7, <1>8, <1>9, <1>11 DEF Plane
<1> QED BY <1>12 DEF h, s, e, q

\* MAINTAIN: at most one segment named, one slice issued, one barrier issued.
LEMMA MaintainAlive ==
    ASSUME TypeOK, Alive, NEW created \in BOOLEAN, NEW taken \in PoolTake,
           NEW issue \in BOOLEAN, maintain(created, taken, issue)
    PROVE  Alive'
<1> DEFINE s == prealloc_source(rotor, taken # "failed")
           sourced == rotor.next = NoNext /\ s.source # "Wait"
           named == sourced /\ (created \/ s.source = "Recycled")
           whole == s.source = "Recycled" /\ taken = "allocated"
           r1 == CASE rotor.next # NoNext -> rotor
                   [] named -> maintain_ok(s, whole)
                   [] sourced /\ ~named -> maintain_no_space(s)
                   [] OTHER -> s.rotor
           g1 == IF named THEN register_prealloc_barrier(gc) ELSE gc
           slice == issue /\ zero_fill_pending(r1)
           r2 == IF slice THEN next_zero_slice(r1) ELSE r1
           barrier == zero_fill_ticket = 0 /\ r2.next.state = "AwaitBarrier"
           g2 == IF barrier THEN register_zero_fill_barrier(g1) ELSE g1
           s1 == SyncOn(g1.next_ticket, <<"dir", r1.next.id>>)
           s2 == SyncOn(g2.next_ticket, <<"alloc", r2.next.id>>)
           d1 == IF named THEN WithSync(Seen, s1) ELSE Seen
           d2 == IF barrier THEN WithSync(d1, s2) ELSE d1
           w2 == IF slice THEN r1.next.id ELSE fill_write
<1>1. gc \in Ledger /\ rotor \in Rotor /\ Good(gc)
  BY DEF TypeOK, Alive, Plane, Agreed, Claims
<1>2. /\ s.rotor \in Rotor /\ s.old \in Int /\ SameSegments(rotor, s.rotor)
      /\ s.source = "Recycled" => io_mode = "Direct"
  BY <1>1, SourceTyped, SourceIs, Zenon
<1>3. /\ maintain_ok(s, whole) \in Rotor /\ maintain_no_space(s) \in Rotor
      /\ NewNext(rotor, maintain_ok(s, whole)) /\ SameSegments(rotor, maintain_no_space(s))
  <2>1. whole \in BOOLEAN /\ (whole => s.source = "Recycled" /\ io_mode = "Direct")
    BY <1>2
  <2> HIDE DEF whole, s
  <2> QED BY <1>1, <1>2, <2>1, MaintainTyped, MaintainIs
<1>4. /\ gc' = g2
      /\ rotor' = IF barrier THEN take_zero_fill_barrier(r2) ELSE r2
      /\ zero_fill_ticket' = IF barrier THEN g2.next_ticket ELSE zero_fill_ticket
      /\ fill_write' = IF slice THEN r2.next.id ELSE fill_write
      /\ syncs' = syncs
           \cup (IF named
                 THEN {SyncOn(g1.next_ticket, <<"dir", r1.next.id>>)} ELSE {})
           \cup (IF barrier
                 THEN {SyncOn(g2.next_ticket, <<"alloc", r2.next.id>>)} ELSE {})
      /\ UNCHANGED <<builder, in_flight, frames, stable>>
  BY ZenonT(30) DEF maintain, s, whole, r1, r2
<1>5. /\ named => rotor.next = NoNext /\ r1 = maintain_ok(s, whole)
      /\ ~named => r1 \in {rotor, maintain_no_space(s), s.rotor}
  <2> HIDE DEF s, whole
  <2> QED OBVIOUS
<1> HIDE DEF s, whole, sourced
<1>6. /\ r1 \in Rotor
      /\ named => rotor.next = NoNext /\ NewNext(rotor, r1)
      /\ ~named => SameSegments(rotor, r1)
  <2>1. SameSegments(rotor, rotor)
    BY Zenon DEF SameSegments
  <2> QED BY <1>1, <1>2, <1>3, <1>5, <2>1
<1> HIDE DEF named, r1
<1>7. Plane(g1, d1, r1, builder, zero_fill_ticket, fill_write)
  <2>1. CASE named
    BY <1>6, <2>1, PlaneNamed DEF Alive
  <2>2. CASE ~named
    <3>1. SameEntries(gc, gc)
      BY DEF SameEntries
    <3> QED BY Zenon, <1>1, <1>6, <2>2, <3>1, PlaneQuiet DEF Alive
  <2> QED BY Zenon, <2>1, <2>2
<1>8. d1 \in View /\ g1 \in Ledger /\ g1.next_ticket \in Nat
  BY Zenon, <1>7 DEF Plane, Agreed, Claims, Good, Ledger
<1>9. d1 = [Seen EXCEPT !.syncs = syncs \cup (IF named THEN {s1} ELSE {})]
  BY DEF Seen, WithSync
<1> HIDE DEF g1, d1, slice
<1>10. /\ Plane(g1, d1, r2, builder, zero_fill_ticket, w2)
       /\ r2 \in Rotor /\ r2.next.id = r1.next.id
  <2>1. CASE slice
    <3>1. zero_fill_pending(r1)
      BY Zenon, <2>1 DEF slice
    <3> QED BY Zenon, <1>6, <1>7, <2>1, <3>1, PlaneSlice, FillTyped, FillIs
  <2>2. CASE ~slice
    BY Zenon, <1>6, <1>7, <2>2
  <2> QED BY <2>1, <2>2
<1> HIDE DEF r2, w2, barrier
<1>11. Plane(g2, d2, rotor', builder, zero_fill_ticket', w2)
  <2>1. CASE barrier
    <3>1. r2.next.state = "AwaitBarrier"
      BY Zenon, <2>1 DEF barrier
    <3> QED BY Zenon, <1>4, <1>10, <2>1, <3>1, PlaneBarrier
  <2>2. CASE ~barrier
    BY Zenon, <1>4, <1>10, <2>2
  <2> QED BY <2>1, <2>2
<1>12. fill_write' = w2
  BY <1>4, <1>10 DEF w2
<1>13. d2 = Seen'
  <2> HIDE DEF g2, s1, s2
  <2>1. syncs' = (syncs \cup (IF named THEN {s1} ELSE {})) \cup (IF barrier THEN {s2} ELSE {})
    BY <1>4 DEF s1, s2
  <2>2. d2 = [Seen EXCEPT !.syncs = (syncs \cup (IF named THEN {s1} ELSE {}))
                                    \cup (IF barrier THEN {s2} ELSE {})]
    BY Zenon, <1>9 DEF WithSync, Seen
  <2> QED BY Zenon, <1>4, <2>1, <2>2 DEF Seen
<1> QED BY Zenon, <1>4, <1>11, <1>12, <1>13 DEF Alive
================================================================================
