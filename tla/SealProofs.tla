------------------------------ MODULE SealProofs -------------------------------
(***************************************************************************)
(* Sealing a frame keeps the ledger, the device, the rotor and the builder *)
(* in agreement (Alive): the frame is queued, its barriers are registered  *)
(* and issued or chained to its write, and the rotor turns when the        *)
(* segment is full.                                                        *)
(***************************************************************************)
EXTENDS DeviceProofs

-----------------------------------------------------------------------------
\* A write-through frame carries the ticket just registered.
LEMMA TicketsPushWrite ==
    ASSUME NEW g \in Ledger, NEW h, NEW d \in View, NEW e, Tickets(g, d), NEW c,
           Pushed(g, h, c, "WriteThrough"), NEW f, f.ticket = h.next_ticket,
           e.syncs = d.syncs, e.in_flight = d.in_flight \cup {f}
    PROVE  Tickets(h, e)
<1>1. \A z \in d.syncs : z.ticket \in Int
  BY TicketsTyped
<1>2. \A z \in d.in_flight : z.ticket \in Int
  BY TicketsTyped
<1>3. \A z \in d.syncs : Live(h, z.ticket) /\ Reason(h, z.ticket) # "WriteThrough"
  BY <1>1, LivePush DEF Tickets
<1>4. \A z \in d.in_flight : z.ticket # 0 =>
            /\ Live(h, z.ticket) /\ Reason(h, z.ticket) = "WriteThrough"
            /\ z.ticket # f.ticket
  BY <1>2, LivePush DEF Tickets
<1>5. Live(h, f.ticket) /\ Reason(h, f.ticket) = "WriteThrough"
  BY LivePush
<1>6. \A x, z \in e.in_flight : x.ticket # 0 /\ x.ticket = z.ticket => x = z
  BY <1>4 DEF Tickets
<1> QED BY <1>3, <1>4, <1>5, <1>6 DEF Tickets

-----------------------------------------------------------------------------
\* A rotation syncs the segment it leaves, all of whose frames are written.
LEMMA SegsRotate ==
    ASSUME NEW g \in Ledger, NEW h \in Ledger, NEW d \in View, NEW e \in View, Keeps(d, e),
           NEW r, NEW q, Segs(g, d, r), e.frames = d.frames, g.next_ticket <= h.next_ticket,
           DOMAIN d.frames \subseteq WrittenFrames(g),
           SyncOf(g, d.frames, h.next_ticket, r.active) \in e.syncs,
           q.next = NoNext, Coming(e, <<"dir", q.active>>, h.next_ticket)
    PROVE  Segs(h, e, q)
<1>1. g.next_ticket \in Int /\ h.next_ticket \in Int /\ h.next_ticket <= h.next_ticket
  BY DEF Ledger
<1>2. \A o : Coming(d, o, g.next_ticket) => Coming(e, o, h.next_ticket)
  BY <1>1, ComingKept
<1>3. \A n \in DOMAIN d.frames : Bytes(d, n, g.next_ticket) => Bytes(e, n, h.next_ticket)
  BY <1>1, SecuredKept
<1>4. ASSUME NEW n \in DOMAIN d.frames, d.frames[n].seg = r.active
      PROVE  Bytes(e, n, h.next_ticket)
  <2> DEFINE s == SyncOf(g, d.frames, h.next_ticket, r.active)
  <2>1. s.ticket = h.next_ticket /\ <<"frame", n>> \in s.objs
    BY <1>4 DEF SyncOf, FramesOf
  <2>2. s.ticket <= h.next_ticket
    BY <1>1, <2>1
  <2> QED BY <2>1, <2>2 DEF Bytes, Coming
<1> QED BY <1>2, <1>3, <1>4 DEF Segs

\* A frame is queued on the active segment.
LEMMA SegsQueue ==
    ASSUME NEW g \in Ledger, NEW h \in Ledger, NEW d \in View, NEW e \in View, Keeps(d, e),
           NEW r, NEW q, Segs(g, d, r), g.next_ticket <= h.next_ticket,
           NEW x, e.frames = Append(d.frames, x), x.seg = r.active,
           q.active = r.active, q.next = r.next
    PROVE  Segs(h, e, q)
<1>1. g.next_ticket \in Int /\ h.next_ticket \in Int /\ d.frames \in Seq(Frame)
  BY DEF Ledger, View
<1>2. \A o : Coming(d, o, g.next_ticket) => Coming(e, o, h.next_ticket)
  BY <1>1, ComingKept
<1>3. \A n \in DOMAIN d.frames : Bytes(d, n, g.next_ticket) => Bytes(e, n, h.next_ticket)
  BY <1>1, SecuredKept
<1>4. /\ \A n \in DOMAIN e.frames : n \in DOMAIN d.frames \/ n = Len(d.frames) + 1
      /\ \A n \in DOMAIN d.frames : e.frames[n] = d.frames[n]
      /\ e.frames[Len(d.frames) + 1] = x
  BY <1>1
<1> QED BY Zenon, <1>2, <1>3, <1>4 DEF Segs

-----------------------------------------------------------------------------
\* A frame is queued.
LEMMA ShapeQueue ==
    ASSUME NEW g \in Ledger, NEW h, NEW d \in View, NEW e, LogShape(g, d),
           h.queued = Append(g.queued, FALSE), h.written_up_to = g.written_up_to,
           NEW x, e.frames = Append(d.frames, x), NEW f, f.id = Len(d.frames) + 1,
           e.in_flight = d.in_flight \cup {f}
    PROVE  LogShape(h, e)
<1> DEFINE L == Len(g.queued)
           w == g.written_up_to
<1>1. g.queued \in Seq(BOOLEAN) /\ w \in Nat /\ d.frames \in Seq(Frame)
  BY DEF Ledger, View
<1>2. /\ L \in Nat /\ DOMAIN g.queued = 1..L /\ DOMAIN h.queued = 1..(L + 1)
      /\ Len(h.queued) = L + 1 /\ ~h.queued[L + 1]
      /\ \A j \in 1..L : h.queued[j] = g.queued[j]
      /\ Len(e.frames) = Len(d.frames) + 1 /\ Len(d.frames) \in Nat
      /\ L # 0 => g.queued # <<>>
  <2>1. Len(e.frames) = Len(d.frames) + 1 /\ Len(d.frames) \in Nat
    BY <1>1, AppendFacts
  <2>2. /\ L \in Nat /\ DOMAIN g.queued = 1..L /\ DOMAIN h.queued = 1..(L + 1)
        /\ Len(h.queued) = L + 1 /\ ~h.queued[L + 1]
        /\ \A j \in 1..L : h.queued[j] = g.queued[j]
    <3>1. \A y : LET q == Append(g.queued, y)
                IN  /\ L \in Nat /\ DOMAIN g.queued = 1..L /\ DOMAIN q = 1..(L + 1)
                    /\ Len(q) = L + 1 /\ q[L + 1] = y
                    /\ \A j \in 1..L : q[j] = g.queued[j]
      BY <1>1, AppendFacts
    <3> HIDE DEF L
    <3> QED BY <3>1, ZenonT(30)
  <2>3. L # 0 => g.queued # <<>>
    OBVIOUS
  <2> QED BY Zenon, <2>1, <2>2, <2>3
<1>3. w + L = Len(d.frames)
  BY DEF LogShape, queued_up_to
<1>4. \A z \in d.in_flight : z.id \in Int
  BY DEF View
<1>5. queued_up_to(h) = Len(e.frames)
  <2> HIDE DEF L, w
  <2>1. w + (L + 1) = Len(d.frames) + 1
    BY <1>1, <1>2, <1>3
  <2> QED BY <1>2, <2>1 DEF queued_up_to, w
<1> HIDE DEF L
<1>6. ~h.queued[1]
  <2>1. CASE L = 0
    BY <1>2, <2>1
  <2>2. CASE L # 0
    <3>1. 1 \in 1..L /\ ~g.queued[1]
      BY <1>2, <2>2 DEF LogShape
    <3> QED BY <1>2, <3>1
  <2> QED BY <2>1, <2>2
<1>7. \A z \in d.in_flight : z.id - w \in 1..L /\ ~g.queued[z.id - w] /\ z.id # f.id
  <2>1. \A z \in d.in_flight : z.id - w \in 1..L /\ ~g.queued[z.id - w]
    BY <1>2 DEF LogShape
  <2>2. \A z \in d.in_flight : z.id # f.id
    BY <1>1, <1>2, <1>3, <1>4, <2>1
  <2> QED BY <2>1, <2>2
<1>8. f.id - w = L + 1
  BY <1>1, <1>2, <1>3
<1>9. ASSUME NEW z \in e.in_flight
      PROVE  z.id - w \in DOMAIN h.queued /\ ~h.queued[z.id - w]
  <2>1. CASE z = f
    BY <1>2, <1>8, <2>1
  <2>2. CASE z \in d.in_flight
    <3>1. z.id - w \in 1..L /\ ~g.queued[z.id - w]
      BY <1>7, <2>2
    <3>2. z.id - w \in 1..(L + 1)
      BY <1>2, <3>1
    <3> QED BY <1>2, <3>1, <3>2
  <2> QED BY <2>1, <2>2
<1>10. ASSUME NEW j \in DOMAIN h.queued, ~h.queued[j]
       PROVE  \E z \in e.in_flight : z.id = w + j
  <2>1. CASE j = L + 1
    <3>1. w \in Nat /\ L \in Nat /\ Len(d.frames) \in Nat
      BY <1>1, <1>2
    <3> HIDE DEF w
    <3>2. f.id = w + j
      <4>1. f.id = (w + L) + 1
        BY <1>3
      <4> QED BY <2>1, <3>1, <4>1
    <3> QED BY <3>2 DEF w
  <2>2. CASE j \in 1..L
    <3>1. ~g.queued[j]
      BY <1>2, <1>10, <2>2
    <3> QED BY <1>2, <2>2, <3>1 DEF LogShape
  <2> QED BY <1>2, <2>1, <2>2
<1>11. \A y, z \in e.in_flight : y.id = z.id => y = z
  BY <1>7 DEF LogShape
<1> QED BY Zenon, <1>5, <1>6, <1>9, <1>10, <1>11 DEF LogShape

\* A drained queue has no frame in flight.
LEMMA DrainedFlight ==
    ASSUME NEW g \in Ledger, NEW d, LogShape(g, d), g.queued = <<>>
    PROVE  d.in_flight = {}
BY DEF LogShape

\* Extents.

-----------------------------------------------------------------------------
\* A rotation: no operation of the zero fill is in flight on the segment it takes.
LEMMA RotorsRotate ==
    ASSUME NEW r \in Rotor, NEW q, NEW d, NEW e, NEW z, NEW w, Rotors(r, d, z, w),
           Rotated(r, q), ~next_not_ready(r), d.stable \subseteq e.stable, e.frames = d.frames,
           d.frames \in Seq(Frame)
    PROVE  Rotors(q, e, z, w) /\ q.active = r.active + 1
<1>1. r.next.in_flight \in 0..1 /\ r.active \in Nat
  BY RotorFields DEF NextSegment
<1>2. z = 0 /\ w = -1
  BY <1>1 DEF Rotors, next_not_ready
<1>3. q.active = r.active + 1
  BY DEF Rotated, Rotors
<1>4. q.prezeroed => <<"alloc", q.active>> \in e.stable
  BY <1>3, NoNextFields DEF Rotated, Rotors, ready_prezeroed
<1>5. \A n \in DOMAIN e.frames : e.frames[n].seg <= q.active
  <2>1. \A n \in DOMAIN d.frames : d.frames[n].seg \in Nat
    <3>1. \A n \in DOMAIN d.frames : d.frames[n] \in Frame
      OBVIOUS
    <3> QED BY <3>1 DEF Frame
  <2> QED BY <1>1, <1>3, <2>1 DEF Rotors
<1>6. ~ready_prezeroed(q) /\ q.next = NoNext /\ (q.panic <=> r.panic)
  BY NoNextFields DEF ready_prezeroed, Rotated
<1> QED BY <1>2, <1>3, <1>4, <1>5, <1>6, NoNextFields DEF Rotors

-----------------------------------------------------------------------------
\* The barrier of an extent that no frame may pass is done.
LEMMA NoBarrierPending ==
    ASSUME NEW g, NEW d, NEW b, Extents(g, d, b), ~extent_barrier_pending(g), NEW x \in b.exts
    PROVE  <<"ext", x>> \in d.stable
BY Zenon DEF Extents, Live, Reason, pending_live, extent_barrier_pending

\* A frame is queued, and its extents are stable.
LEMMA AgreedQueue ==
    ASSUME NEW g, NEW h, NEW d, NEW e \in View, NEW b, NEW a, Agreed(g, d, b), Good(h),
           ~extent_barrier_pending(g), h.queued = Append(g.queued, FALSE),
           h.written_up_to = g.written_up_to, h.pending = g.pending,
           h.next_ticket = g.next_ticket, h.durable_up_to = g.durable_up_to,
           h.extent_unsent = g.extent_unsent,
           NEW x, e.frames = Append(d.frames, x), x.exts = b.exts,
           NEW f, f.id = Len(d.frames) + 1, f.ticket = 0, e.in_flight = d.in_flight \cup {f},
           e.syncs = d.syncs, e.stable = d.stable, a.exts = {}
    PROVE  Agreed(h, e, a) /\ Keeps(d, e)
<1>1. Good(g) /\ g \in Ledger /\ d \in View /\ queued_up_to(g) = Len(d.frames)
  BY DEF Agreed, Claims, Good
<1>2. Keeps(d, e)
  BY Zenon, <1>1, KeepsMore
<1>3. LogShape(h, e)
  BY Zenon, <1>1, ShapeQueue DEF Agreed
<1>4. Tickets(h, e)
  BY TicketsSame DEF Agreed, Claims
<1>5. Unsent(h, e)
  BY Zenon, UnsentSame DEF Agreed, Claims
<1>6. Heads(h)
  BY Zenon DEF Agreed, Claims, Heads
<1>7. Cover(h, e)
  BY Zenon, <1>1, <1>2, CoverSame DEF Agreed, Claims
<1>8. Extents(h, e, a)
  BY ExtentsSame DEF Agreed, Claims
<1>9. Referenced(e)
  <2>1. \A y \in x.exts : <<"ext", y>> \in d.stable
    BY Zenon, NoBarrierPending DEF Agreed, Claims
  <2>2. d.frames \in Seq(Frame)
    BY Zenon, <1>1 DEF View
  <2>3. /\ DOMAIN d.frames = 1..Len(d.frames) /\ Len(d.frames) \in Nat
        /\ DOMAIN Append(d.frames, x) = 1..(Len(d.frames) + 1)
        /\ \A n \in 1..Len(d.frames) : Append(d.frames, x)[n] = d.frames[n]
        /\ Append(d.frames, x)[Len(d.frames) + 1] = x
    BY <2>2, AppendFacts
  <2>4. Referenced(d)
    BY Zenon DEF Agreed, Claims
  <2>5. ASSUME NEW n \in DOMAIN e.frames, NEW y \in e.frames[n].exts
        PROVE  <<"ext", y>> \in e.stable
    <3>1. CASE n \in DOMAIN d.frames
      <4>1. e.frames[n] = d.frames[n]
        BY <2>3, <3>1
      <4> QED BY <2>4, <2>5, <3>1, <4>1 DEF Referenced
    <3>2. CASE n \notin DOMAIN d.frames
      <4>1. n = Len(d.frames) + 1
        BY <2>3, <2>5, <3>2
      <4>2. e.frames[n] = x
        BY Zenon, <2>3, <4>1
      <4> QED BY <2>1, <2>5, <4>2
    <3> QED BY <3>1, <3>2
  <2> QED BY Zenon, <2>5 DEF Referenced
<1> QED BY Zenon, <1>2, <1>3, <1>4, <1>5, <1>6, <1>7, <1>8, <1>9 DEF Agreed, Claims, LogShape

\* A write-through frame is queued with the ticket of its barrier.  o is the view in
\* which it carries none yet.
LEMMA AgreedThrough ==
    ASSUME NEW g, NEW h, NEW d, NEW o, NEW e \in View, NEW b, NEW a, Agreed(g, d, b),
           Agreed(h, o, a), NEW i, Good(i), NEW c, Pushed(h, i, c, "WriteThrough"),
           h.queued = Append(g.queued, FALSE), h.written_up_to = g.written_up_to,
           h.pending = g.pending, h.next_ticket = g.next_ticket,
           NEW x, e.frames = Append(d.frames, x), o.frames = e.frames,
           NEW f, f.id = Len(d.frames) + 1, f.ticket = i.next_ticket,
           e.in_flight = d.in_flight \cup {f},
           \A m \in o.in_flight : m.ticket # 0 => m \in d.in_flight,
           o.syncs = d.syncs, e.syncs = d.syncs, o.stable = d.stable, e.stable = d.stable,
           \A n \in 1..c : Secured(e, n, i.next_ticket)
    PROVE  Agreed(i, e, a)
<1>1. /\ Good(g) /\ g \in Ledger /\ d \in View /\ o \in View /\ h \in Ledger /\ Good(h)
      /\ i \in Ledger /\ queued_up_to(h) = Len(o.frames)
  BY Zenon DEF Agreed, Claims, Good
<1>2. Keeps(o, e)
  BY Zenon DEF Keeps
<1>3. LogShape(i, e)
  <2>1. i.queued = Append(g.queued, FALSE) /\ i.written_up_to = g.written_up_to
    BY DEF Pushed
  <2> QED BY Zenon, <1>1, <2>1, ShapeQueue DEF Agreed
<1>4. Tickets(i, e)
  <2>1. Tickets(h, d)
    BY Zenon, TicketsSame DEF Agreed, Claims
  <2> QED BY <1>1, <2>1, TicketsPushWrite
<1>5. Unsent(i, e)
  BY Zenon, <1>1, UnsentKeptPush DEF Agreed, Claims
<1>6. Heads(i)
  BY Zenon, <1>1, HeadsPush DEF Agreed, Claims
<1>7. Cover(i, e)
  BY Zenon, <1>1, <1>2, CoverPush DEF Agreed, Claims
<1>8. Extents(i, e, a)
  BY Zenon, <1>1, ExtentsPush DEF Agreed, Claims
<1>9. Referenced(e)
  BY Zenon DEF Agreed, Claims, Referenced
<1> QED BY <1>3, <1>4, <1>5, <1>6, <1>7, <1>8, <1>9 DEF Agreed, Claims, LogShape

-----------------------------------------------------------------------------
\* It is a view.
LEMMA QueuedIs ==
    ASSUME NEW d \in View, NEW x \in Frame, NEW t \in Nat
    PROVE  /\ Queued(d, x, t) \in View
           /\ Queued(d, x, t).syncs = d.syncs
           /\ Queued(d, x, t).in_flight =
                d.in_flight \cup {[id |-> Len(d.frames) + 1, ticket |-> t]}
           /\ Queued(d, x, t).stable = d.stable
           /\ Queued(d, x, t).frames = Append(d.frames, x)
<1> DEFINE F == Append(d.frames, x)
           I == d.in_flight \cup {[id |-> Len(d.frames) + 1, ticket |-> t]}
<1>1. d.frames \in Seq(Frame) /\ Len(d.frames) \in Nat
  BY DEF View
<1>2. F \in Seq(Frame)
  BY <1>1
<1>3. I \in SUBSET [id : Nat, ticket : Nat]
  <2> DEFINE n == Len(d.frames) + 1
  <2>1. n \in Nat
    BY <1>1
  <2> HIDE DEF n
  <2>2. [id |-> n, ticket |-> t] \in [id : Nat, ticket : Nat]
    BY <2>1
  <2> QED BY <2>2 DEF View, n
<1>4. Queued(d, x, t) = [d EXCEPT !.frames = F, !.in_flight = I]
  BY DEF Queued
<1> HIDE DEF F, I
<1>5. /\ [d EXCEPT !.frames = F, !.in_flight = I] \in View
      /\ [d EXCEPT !.frames = F, !.in_flight = I].syncs = d.syncs
      /\ [d EXCEPT !.frames = F, !.in_flight = I].in_flight = I
      /\ [d EXCEPT !.frames = F, !.in_flight = I].stable = d.stable
      /\ [d EXCEPT !.frames = F, !.in_flight = I].frames = F
  BY Zenon, <1>2, <1>3 DEF View
<1> QED BY <1>4, <1>5 DEF F, I

\* The ledger with one more frame in its queue.
LEMMA QueueFrameIs ==
    ASSUME NEW g \in Ledger
    PROVE  LET h == note_frame_queued(g)
           IN  /\ h.queued = Append(g.queued, FALSE)
               /\ h.written_up_to = g.written_up_to
               /\ h.pending = g.pending
               /\ h.next_ticket = g.next_ticket
               /\ h.durable_up_to = g.durable_up_to
               /\ h.extent_unsent = g.extent_unsent
BY Zenon DEF note_frame_queued, Asserting, Ledger

\* A frame is queued on the active segment, with no barrier of its own.
LEMMA PlaneQueue ==
    ASSUME NEW g, NEW d, NEW r, NEW b, NEW z, NEW w, Plane(g, d, r, b, z, w),
           ~extent_barrier_pending(g), NEW x \in Frame, x.exts = b.exts, x.seg = r.active
    PROVE  Plane(note_frame_queued(g), Queued(d, x, 0), commit_frame_queued(r), NoRecords, z, w)
<1> DEFINE h == note_frame_queued(g)
           e == Queued(d, x, 0)
           q == commit_frame_queued(r)
           f == [id |-> Len(d.frames) + 1, ticket |-> 0]
<1>1. Good(g) /\ g \in Ledger /\ d \in View /\ r \in Rotor
  BY DEF Plane, Agreed, Claims, Good
<1>2. /\ Good(h) /\ h \in Ledger
      /\ h.queued = Append(g.queued, FALSE) /\ h.written_up_to = g.written_up_to
      /\ h.pending = g.pending /\ h.next_ticket = g.next_ticket
      /\ h.durable_up_to = g.durable_up_to /\ h.extent_unsent = g.extent_unsent
  BY Zenon, <1>1, FrameQueuedKeeps, QueueFrameIs DEF Good
<1> HIDE DEF h
<1>3. f.id = Len(d.frames) + 1 /\ f.ticket = 0 /\ NoRecords.exts = {}
  BY DEF NoRecords
<1>4. /\ e \in View /\ e.syncs = d.syncs /\ e.in_flight = d.in_flight \cup {f}
      /\ e.stable = d.stable /\ e.frames = Append(d.frames, x)
  BY Zenon, <1>1, QueuedIs
<1> HIDE DEF e, f
<1>5. Agreed(h, e, NoRecords) /\ Keeps(d, e)
  BY Zenon, <1>2, <1>3, <1>4, AgreedQueue DEF Plane
<1>6. q \in Rotor /\ SameSegments(r, q)
  BY Zenon, <1>1, CommitTyped, CursorIs
<1> HIDE DEF q
<1>7. Segs(h, e, q)
  <2>1. g.next_ticket <= h.next_ticket
    BY <1>1, <1>2 DEF Ledger
  <2>2. q.active = r.active /\ q.next = r.next
    BY Zenon, <1>6 DEF SameSegments
  <2> QED BY <1>1, <1>2, <1>4, <1>5, <2>1, <2>2, SegsQueue DEF Plane
<1>8. Rotors(q, e, z, w)
  <2>1. Rotors(r, d, z, w)
    BY DEF Plane
  <2>2. ASSUME NEW n \in DOMAIN e.frames
        PROVE  e.frames[n].seg <= r.active
    <3>1. d.frames \in Seq(Frame) /\ r.active \in Nat
      BY Zenon, <1>1, RotorFields DEF View
    <3>2. /\ DOMAIN d.frames = 1..Len(d.frames) /\ Len(d.frames) \in Nat
          /\ DOMAIN Append(d.frames, x) = 1..(Len(d.frames) + 1)
          /\ \A m \in 1..Len(d.frames) : Append(d.frames, x)[m] = d.frames[m]
          /\ Append(d.frames, x)[Len(d.frames) + 1] = x
      BY ZenonT(30), <3>1, AppendFacts
    <3>3. CASE n \in DOMAIN d.frames
      <4>1. e.frames[n] = d.frames[n]
        BY Zenon, <1>4, <3>2, <3>3
      <4> QED BY Zenon, <2>1, <3>3, <4>1 DEF Rotors
    <3>4. CASE n \notin DOMAIN d.frames
      <4>1. n = Len(d.frames) + 1
        BY <1>4, <2>2, <3>2, <3>4
      <4>2. e.frames[n] = x
        BY Zenon, <1>4, <3>2, <4>1
      <4> QED BY <3>1, <4>2
    <3> QED BY <3>3, <3>4
  <2> QED BY Zenon, <1>4, <1>6, <2>1, <2>2, RotorsSame
<1>9. Plane(h, e, q, NoRecords, z, w)
  BY Zenon, <1>5, <1>6, <1>7, <1>8 DEF Plane
<1> QED BY <1>9 DEF h, e, q

\* The fdatasync chained to a frame's write.
LEMMA PlaneLinked ==
    ASSUME NEW g, NEW d, NEW r, NEW b, NEW z, NEW w, Plane(g, d, r, b, z, w),
           NEW s \in Sync, s.ticket = register_linked_fsync(g).next_ticket,
           \A n \in DOMAIN d.frames : d.frames[n].seg = r.active => <<"frame", n>> \in s.objs
    PROVE  Plane(register_linked_fsync(g), WithSync(d, s), r, b, z, w)
<1> DEFINE h == register_linked_fsync(g)
           e == WithSync(d, s)
<1>1. /\ Good(g) /\ g \in Ledger /\ d \in View /\ r \in Rotor /\ Segs(g, d, r)
      /\ queued_up_to(g) = Len(d.frames)
  BY Zenon DEF Plane, Agreed, Claims, Good
<1>2. Good(h) /\ h \in Ledger /\ Pushed(g, h, queued_up_to(g), "Linked")
  BY <1>1, FrameBarriersKeep, Registrations DEF Good
<1>3. s.ticket = h.next_ticket
  OBVIOUS
<1> HIDE DEF h
<1>4. h.next_ticket \in Int /\ g.next_ticket \in Int /\ g.next_ticket <= h.next_ticket
  BY Zenon, <1>1, <1>2, PushedTicket
<1>5. /\ e \in View /\ e.syncs = d.syncs \cup {s} /\ e.in_flight = d.in_flight
      /\ e.stable = d.stable /\ e.frames = d.frames
  BY Zenon, <1>1, WithSyncIs
<1> HIDE DEF e
<1>6. Keeps(d, e)
  BY Zenon, <1>1, <1>5, KeepsMore
<1>7. ASSUME NEW n \in 1..queued_up_to(g)
      PROVE  Secured(e, n, h.next_ticket)
  <2>1. n \in DOMAIN d.frames
    <3>1. DOMAIN d.frames = 1..Len(d.frames)
      BY Zenon, <1>1, CoversQueued
    <3> QED BY Zenon, <1>1, <3>1
  <2>2. Coming(e, <<"dir", e.frames[n].seg>>, h.next_ticket)
    <3>1. Coming(d, <<"dir", d.frames[n].seg>>, g.next_ticket)
      BY Zenon, <1>1, <2>1 DEF Segs
    <3> QED BY <1>1, <1>4, <1>5, <1>6, <3>1, ComingKept
  <2>3. Bytes(e, n, h.next_ticket)
    <3>1. CASE d.frames[n].seg = r.active
      <4>1. <<"frame", n>> \in s.objs
        BY <2>1, <3>1
      <4>2. s.ticket <= h.next_ticket
        BY <1>3, <1>4
      <4> QED BY Zenon, <1>5, <4>1, <4>2 DEF Bytes, Coming
    <3>2. CASE d.frames[n].seg # r.active
      <4>1. Bytes(d, n, g.next_ticket)
        BY Zenon, <1>1, <2>1, <3>2 DEF Segs
      <4> QED BY <1>1, <1>4, <1>5, <1>6, <2>1, <4>1, SecuredKept
    <3> QED BY Zenon, <3>1, <3>2
  <2> QED BY Zenon, <2>2, <2>3 DEF Secured
<1>8. Agreed(h, e, b)
  BY <1>2, <1>3, <1>5, <1>7, AgreedPush DEF Plane
<1>9. Segs(h, e, r)
  BY <1>1, <1>2, <1>4, <1>5, <1>6, SegsKept
<1>10. Rotors(r, e, z, w)
  <2>1. SameSegments(r, r) /\ Rotors(r, d, z, w)
    BY Zenon DEF SameSegments, Plane
  <2>2. \A n \in DOMAIN e.frames : e.frames[n].seg <= r.active
    BY Zenon, <1>5, <2>1 DEF Rotors
  <2> QED BY Zenon, <1>5, <2>1, <2>2, RotorsSame
<1>11. Plane(h, e, r, b, z, w)
  BY Zenon, <1>1, <1>8, <1>9, <1>10 DEF Plane
<1> QED BY Zenon, <1>11 DEF h, e

-----------------------------------------------------------------------------
\* A write-through frame is queued on a pre-zeroed active segment, where the ledger's
\* coverage ends.
LEMMA PlaneQueueThrough ==
    ASSUME NEW g, NEW d, NEW r, NEW b, NEW z, NEW w, Plane(g, d, r, b, z, w),
           ~extent_barrier_pending(g), NEW x \in Frame, x.exts = b.exts, x.seg = r.active,
           r.prezeroed, coverage_tail(g) = Len(d.frames)
    PROVE  LET i == register_write_through(note_frame_queued(g))
           IN  Plane(i, Queued(d, x, i.next_ticket), commit_frame_queued(r), NoRecords, z, w)
<1> DEFINE h == note_frame_queued(g)
           i == register_write_through(h)
           o == Queued(d, x, 0)
           e == Queued(d, x, i.next_ticket)
           q == commit_frame_queued(r)
           f == [id |-> Len(d.frames) + 1, ticket |-> i.next_ticket]
<1>1. /\ Good(g) /\ g \in Ledger /\ d \in View /\ r \in Rotor /\ Cover(g, d)
      /\ queued_up_to(g) = Len(d.frames) /\ Segs(g, d, r) /\ Rotors(r, d, z, w)
      /\ Agreed(g, d, b)
  BY Zenon DEF Plane, Agreed, Claims, Good
<1>2. Plane(h, o, q, NoRecords, z, w)
  BY Zenon, PlaneQueue
<1>3. /\ Good(h) /\ h \in Ledger
      /\ h.queued = Append(g.queued, FALSE) /\ h.written_up_to = g.written_up_to
      /\ h.pending = g.pending /\ h.next_ticket = g.next_ticket
  BY Zenon, <1>1, FrameQueuedKeeps, QueueFrameIs DEF Good
<1> HIDE DEF h
<1>4. Good(i) /\ i \in Ledger /\ Pushed(h, i, queued_up_to(h), "WriteThrough")
  BY <1>3, FrameBarriersKeep, Registrations DEF Good
<1> HIDE DEF i
<1>5. /\ i.next_ticket \in Nat /\ g.next_ticket \in Nat /\ i.next_ticket # 0
      /\ g.next_ticket <= i.next_ticket /\ h.next_ticket <= i.next_ticket
  <2>1. i.next_ticket = g.next_ticket + 1 /\ h.next_ticket = g.next_ticket
    BY Zenon, <1>3, <1>4 DEF Pushed
  <2>2. g.next_ticket \in Nat
    BY Zenon, <1>1 DEF Ledger
  <2> QED BY <2>1, <2>2
<1>6. f.id = Len(d.frames) + 1 /\ f.ticket = i.next_ticket
  OBVIOUS
<1>7. /\ e \in View /\ e.syncs = d.syncs /\ e.in_flight = d.in_flight \cup {f}
      /\ e.stable = d.stable /\ e.frames = Append(d.frames, x)
  BY Zenon, <1>1, <1>5, QueuedIs
<1>8. /\ o \in View /\ o.syncs = d.syncs /\ o.stable = d.stable /\ o.frames = e.frames
      /\ \A m \in o.in_flight : m.ticket # 0 => m \in d.in_flight
  <2> DEFINE m0 == [id |-> Len(d.frames) + 1, ticket |-> 0]
  <2>1. /\ o \in View /\ o.syncs = d.syncs /\ o.stable = d.stable
        /\ o.frames = Append(d.frames, x) /\ o.in_flight = d.in_flight \cup {m0}
    BY Zenon, <1>1, QueuedIs
  <2>2. m0.ticket = 0
    OBVIOUS
  <2> HIDE DEF m0, o, e
  <2> QED BY Zenon, <1>7, <2>1, <2>2
<1> HIDE DEF e, f, o
<1>9. Keeps(d, e)
  BY Zenon, <1>1, <1>7, KeepsMore
<1>10. /\ DOMAIN d.frames = 1..Len(d.frames) /\ Len(d.frames) \in Nat
       /\ e.frames[Len(d.frames) + 1] = x
  <2>1. d.frames \in Seq(Frame)
    BY Zenon, <1>1 DEF View
  <2> QED BY <1>7, <2>1, AppendFacts
<1>11. queued_up_to(h) = Len(d.frames) + 1
  <2>1. queued_up_to(h) = Len(o.frames)
    BY Zenon, <1>2 DEF Plane, Agreed, Claims
  <2>2. d.frames \in Seq(Frame)
    BY <1>1 DEF View
  <2> QED BY <1>7, <1>8, <2>1, <2>2, AppendFacts
<1>12. ASSUME NEW n \in 1..queued_up_to(h)
       PROVE  Secured(e, n, i.next_ticket)
  <2>1. CASE n \in 1..Len(d.frames)
    <3>1. Secured(d, n, g.next_ticket)
      BY Zenon, <1>1, <2>1, TailSecured
    <3>2. i.next_ticket \in Int /\ g.next_ticket \in Int
      BY <1>5
    <3> QED BY Zenon, <1>1, <1>5, <1>7, <1>9, <1>10, <2>1, <3>1, <3>2, SecuredKept
  <2>2. CASE n \notin 1..Len(d.frames)
    <3>1. n = Len(d.frames) + 1
      BY <1>10, <1>11, <2>2
    <3>2. e.frames[n].seg = r.active
      BY Zenon, <1>10, <3>1
    <3>3. Coming(e, <<"dir", r.active>>, i.next_ticket)
      BY <1>1, <1>5, <1>7, <1>9, ComingKept DEF Segs
    <3>4. <<"alloc", r.active>> \in e.stable
      BY <1>1, <1>7 DEF Rotors
    <3>5. f \in e.in_flight /\ f.id = n /\ f.ticket # 0 /\ f.ticket <= i.next_ticket
      <4>1. f \in e.in_flight
        BY Zenon, <1>7
      <4>2. f.id = n /\ f.ticket # 0
        BY Zenon, <1>5, <1>6, <3>1
      <4>3. i.next_ticket <= i.next_ticket
        BY <1>5
      <4> QED BY Zenon, <1>6, <4>1, <4>2, <4>3
    <3>6. Through(e, n, i.next_ticket)
      BY <3>2, <3>4, <3>5 DEF Through
    <3> QED BY Zenon, <3>2, <3>3, <3>6 DEF Secured, Bytes
  <2> QED BY <2>1, <2>2
<1>13. Agreed(i, e, NoRecords)
  <2>1. Agreed(h, o, NoRecords)
    BY Zenon, <1>2 DEF Plane
  <2> QED BY Zenon, <1>1, <1>3, <1>4, <1>6, <1>7, <1>8, <1>12, <2>1, AgreedThrough
<1>14. q \in Rotor /\ SameSegments(r, q)
  BY Zenon, <1>1, CommitTyped, CursorIs
<1>15. q.active = r.active /\ q.next = r.next
  BY <1>14 DEF SameSegments
<1> HIDE DEF q
<1>16. Segs(i, e, q)
  BY Zenon, <1>1, <1>4, <1>5, <1>7, <1>9, <1>15, SegsQueue
<1>17. Rotors(q, e, z, w)
  <2>1. Rotors(q, o, z, w)
    BY Zenon, <1>2 DEF Plane
  <2> QED BY Zenon, <1>7, <1>8, <2>1 DEF Rotors
<1>18. Plane(i, e, q, NoRecords, z, w)
  BY Zenon, <1>13, <1>14, <1>16, <1>17 DEF Plane
<1> QED BY Zenon, <1>18 DEF i, h, e, q

\* The sync of a rotation goes to the segment it leaves.
LEMMA SyncOfSame ==
    ASSUME NEW g, NEW h, SameEntries(g, h), NEW fs, NEW t, NEW seg
    PROVE  SyncOf(h, fs, t, seg) = SyncOf(g, fs, t, seg)
BY Zenon DEF SameEntries, SyncOf, WrittenFrames

\* A rotation finds the pipeline drained, so its seal fdatasync secures every frame.
LEMMA PlaneRotate ==
    ASSUME NEW g, NEW d, NEW e, NEW r, NEW b, NEW z, NEW w, Plane(g, d, r, b, z, w),
           d.in_flight = {}, ~next_not_ready(r),
           Turned(d, e, r, rotate_deferred(r),
                  SyncOf(g, d.frames, register_seal_fsync(g).next_ticket, r.active))
    PROVE  /\ Plane(register_seal_fsync(g), e, rotate_deferred(r), b, z, w)
           /\ coverage_tail(register_seal_fsync(g)) = Len(d.frames)
           /\ ~extent_barrier_pending(g) => ~extent_barrier_pending(register_seal_fsync(g))
<1> DEFINE h == register_seal_fsync(g)
           q == rotate_deferred(r)
           s == SyncOf(g, d.frames, h.next_ticket, r.active)
<1>1. /\ Good(g) /\ g \in Ledger /\ d \in View /\ r \in Rotor /\ Segs(g, d, r)
      /\ Rotors(r, d, z, w) /\ queued_up_to(g) = Len(d.frames) /\ LogShape(g, d)
      /\ Agreed(g, d, b) /\ d.frames \in Seq(Frame)
  BY Zenon DEF Plane, Agreed, Claims, Good, View
<1>2. Good(h) /\ h \in Ledger /\ Pushed(g, h, queued_up_to(g), "Seal")
  BY Zenon, <1>1, SealKeeps, Registrations DEF Good
<1>3. q \in Rotor /\ Rotated(r, q)
  BY Zenon, <1>1, RotateTyped, RotateIs
<1> HIDE DEF h, q
<1>4. Turned(d, e, r, q, s)
  BY Zenon DEF h, q
<1>5. s.ticket = h.next_ticket
  BY Zenon DEF SyncOf
<1> HIDE DEF s
<1>6. /\ e \in View /\ e.syncs = d.syncs \cup {s} /\ e.in_flight = d.in_flight
      /\ e.frames = d.frames /\ d.stable \subseteq e.stable /\ s \in e.syncs
  BY <1>4 DEF Turned
<1>7. h.next_ticket \in Int /\ g.next_ticket \in Int /\ g.next_ticket <= h.next_ticket
  BY Zenon, <1>1, <1>2, PushedTicket
<1>8. Keeps(d, e)
  BY <1>1, <1>6, KeepsMore
<1>9. DOMAIN d.frames \subseteq WrittenFrames(g) /\ DOMAIN d.frames = 1..Len(d.frames)
  BY Zenon, <1>1, DrainedShape, CoversQueued
<1>10. SyncOf(g, d.frames, h.next_ticket, r.active) \in e.syncs
  BY Zenon, <1>6 DEF s
<1>11. ASSUME NEW n \in 1..queued_up_to(g)
       PROVE  Secured(e, n, h.next_ticket)
  <2>1. n \in DOMAIN d.frames /\ n \in WrittenFrames(g)
    BY Zenon, <1>1, <1>9
  <2> QED BY Zenon, <1>1, <1>6, <1>7, <1>8, <1>10, <2>1, PrefixSecured
<1>12. Agreed(h, e, b)
  BY Zenon, <1>1, <1>2, <1>5, <1>6, <1>11, AgreedPush
<1>13. Coming(e, <<"dir", q.active>>, h.next_ticket) /\ q.next = NoNext
  <2>1. CASE r.next = NoNext
    BY <1>3, <1>4, <2>1 DEF Turned, Coming, Rotated
  <2>2. CASE r.next # NoNext
    <3>1. q.active = r.next.id
      BY Zenon, <1>3, <2>2 DEF Rotated
    <3>2. Coming(d, <<"dir", r.next.id>>, g.next_ticket)
      BY Zenon, <1>1, <2>2 DEF Segs
    <3>3. Coming(e, <<"dir", r.next.id>>, h.next_ticket)
      BY Zenon, <1>1, <1>6, <1>7, <1>8, <3>2, ComingKept
    <3> QED BY Zenon, <1>3, <3>1, <3>3 DEF Rotated
  <2> QED BY Zenon, <2>1, <2>2
<1>14. Segs(h, e, q)
  BY Zenon, <1>1, <1>2, <1>6, <1>7, <1>8, <1>9, <1>10, <1>13, SegsRotate
<1>15. Rotors(q, e, z, w)
  BY Zenon, <1>1, <1>3, <1>6, RotorsRotate
<1>16. Plane(h, e, q, b, z, w)
  BY Zenon, <1>3, <1>12, <1>14, <1>15 DEF Plane
<1>17. coverage_tail(h) = Len(d.frames)
       /\ (~extent_barrier_pending(g) => ~extent_barrier_pending(h))
  <2> DEFINE L == Len(g.pending)
  <2>1. /\ L \in Nat /\ Len(h.pending) = L + 1
        /\ DOMAIN g.pending = 1..L
        /\ DOMAIN h.pending = 1..(L + 1)
        /\ \A j \in 1..L : h.pending[j] = g.pending[j]
        /\ h.pending[L + 1].covers_up_to = queued_up_to(g)
        /\ h.pending[L + 1].reason = "Seal"
    BY ZenonT(30), <1>1, <1>2, PushedFacts
  <2> HIDE DEF L
  <2>2. h.pending # <<>>
    BY Zenon, <2>1, LongerNotEmpty
  <2>3. coverage_tail(h) = Len(d.frames)
    BY Zenon, <1>1, <2>1, <2>2 DEF coverage_tail
  <2>4. ASSUME extent_barrier_pending(h) PROVE extent_barrier_pending(g)
    <3>1. PICK j \in 1..(L + 1) : h.pending[j].reason = "ExtentSeal" /\ ~h.pending[j].done
      BY Zenon, <2>1, <2>4 DEF extent_barrier_pending
    <3>2. j # L + 1
      BY Zenon, <2>1, <3>1
    <3>3. j \in 1..L
      BY <2>1, <3>2
    <3>4. h.pending[j] = g.pending[j]
      BY <2>1, <3>3
    <3> QED BY Zenon, <2>1, <3>1, <3>3, <3>4 DEF extent_barrier_pending
  <2> QED BY Zenon, <2>3, <2>4
<1> QED BY <1>16, <1>17 DEF h, q

-----------------------------------------------------------------------------
\* What the plan of a frame's barrier promises: a write-through frame starts where the
\* coverage ends and lands in committed blocks, a linked fdatasync finds every earlier
\* frame written.
LEMMA PlanIs ==
    ASSUME NEW g, NEW r, NEW len, NEW plan,
           plan = frame_plan(g, next_frame_write_through_ok(r, len), rotation_due(r))
    PROVE  /\ plan = "WriteThrough" /\ rotation_due(r) => ready_prezeroed(r)
           /\ plan = "WriteThrough" /\ ~rotation_due(r) =>
                  r.prezeroed /\ coverage_tail(g) = queued_up_to(g)
           /\ plan = "LinkedFsync" => g.queued = <<>>
BY Zenon DEF frame_plan, next_frame_write_through_ok, write_through_due, drained

\* Flags decide nothing about extents or coverage.
LEMMA EntriesDecide ==
    ASSUME NEW g, NEW h, SameEntries(g, h)
    PROVE  /\ extent_barrier_pending(h) <=> extent_barrier_pending(g)
           /\ coverage_tail(h) = coverage_tail(g)
           /\ queued_up_to(h) = queued_up_to(g)
BY Zenon DEF SameEntries, extent_barrier_pending, coverage_tail, queued_up_to

\* The log with no frame in flight but the one just queued: the sync chained to its
\* write vouches for every frame of its segment.
LEMMA LinkedCovers ==
    ASSUME NEW g \in Ledger, NEW d \in View, LogShape(g, d), g.queued = <<>>,
           NEW x \in Frame, NEW t,
           NEW n \in DOMAIN Append(d.frames, x),
           Append(d.frames, x)[n].seg = x.seg
    PROVE  <<"frame", n>> \in LinkedSync(g, Append(d.frames, x), t, Len(d.frames) + 1).objs
<1> DEFINE L == Len(d.frames)
           fs == Append(d.frames, x)
           s == SyncOf(g, fs, t, fs[L + 1].seg)
<1>1. d.frames \in Seq(Frame)
  BY Zenon DEF View
<1>2. /\ DOMAIN d.frames = 1..L /\ L \in Nat /\ DOMAIN fs = 1..(L + 1)
      /\ \A m \in 1..L : fs[m] = d.frames[m]
      /\ fs[L + 1] = x
  BY ZenonT(30), <1>1, AppendFacts
<1>3. DOMAIN d.frames \subseteq WrittenFrames(g)
  BY DrainedFlight, DrainedShape
<1>4. LinkedSync(g, fs, t, L + 1).objs = s.objs \cup {<<"frame", L + 1>>}
  BY Zenon DEF LinkedSync, SyncOf
<1>5. s.objs = {<<"frame", m>> : m \in FramesOf(fs, x.seg) \cap WrittenFrames(g)}
  <2>1. s = SyncOf(g, fs, t, x.seg)
    BY <1>2
  <2> HIDE DEF fs
  <2> QED BY Zenon, <2>1 DEF SyncOf
<1>6. n \in DOMAIN fs /\ fs[n].seg = x.seg
  OBVIOUS
<1> HIDE DEF s, fs, L
<1>7. ASSUME n = L + 1
      PROVE  <<"frame", n>> \in LinkedSync(g, fs, t, L + 1).objs
  BY Zenon, <1>4, <1>7
<1>8. ASSUME n # L + 1
      PROVE  <<"frame", n>> \in LinkedSync(g, fs, t, L + 1).objs
  <2>1. n \in 1..L
    BY <1>2, <1>6, <1>8
  <2>2. n \in FramesOf(fs, x.seg) \cap WrittenFrames(g)
    BY Zenon, <1>2, <1>3, <1>6, <2>1 DEF FramesOf
  <2> QED BY Zenon, <1>4, <1>5, <2>2
<1>9. <<"frame", n>> \in LinkedSync(g, fs, t, L + 1).objs
  BY <1>7, <1>8
<1> QED BY <1>9 DEF fs, L

\* A view is its four fields.
LEMMA ViewIs ==
    ASSUME NEW d \in View
    PROVE  d = [syncs |-> d.syncs, in_flight |-> d.in_flight, stable |-> d.stable,
                frames |-> d.frames]
BY DEF View

\* LOG seals a frame: a rotation perhaps, the frame, the barrier the plan allows.
LEMMA SealFrameAlive ==
    ASSUME TypeOK, Alive, NEW len \in FrameLens, seal_frame(len)
    PROVE  Alive'
<1> DEFINE rotate == rotation_due(rotor)
           inline == rotate /\ rotor.next = NoNext
           wt_ok == next_frame_write_through_ok(rotor, len)
           plan == frame_plan(gc, wt_ok, rotate)
           begun == begin_frame(wt_ok, len)
           n == Len(frames) + 1
           x == [seg |-> begun.rotor.active, seq |-> last_seq,
                 covered |-> gc.durable_up_to, exts |-> builder.exts]
           fs == Append(frames, x)
           queued == note_frame_queued(begun.gc)
           seal == SyncOf(gc, frames, begun.gc.next_ticket, rotor.active)
           sent == IF rotate THEN syncs \cup {seal} ELSE syncs
           kept == IF inline THEN stable \cup {<<"dir", begun.rotor.active>>} ELSE stable
           d == [syncs |-> sent, in_flight |-> in_flight, stable |-> kept, frames |-> frames]
           z == zero_fill_ticket
           w == fill_write
<1>1. /\ gc' = register_barrier(queued, plan)
      /\ rotor' = commit_frame_queued(begun.rotor)
      /\ frames' = fs
      /\ in_flight' = in_flight \cup
           {[id |-> n, ticket |-> IF plan = "WriteThrough" THEN gc'.next_ticket ELSE 0]}
      /\ syncs' = syncs
           \cup (IF rotate THEN {seal} ELSE {})
           \cup (IF plan = "LinkedFsync"
                 THEN {LinkedSync(gc, fs, gc'.next_ticket, n)} ELSE {})
      /\ stable' = IF inline THEN stable \cup {<<"dir", begun.rotor.active>>} ELSE stable
      /\ builder' = NoRecords
      /\ zero_fill_ticket' = z /\ fill_write' = w
  BY Zenon DEF seal_frame
<1>2. /\ ~extent_barrier_pending(gc)
      /\ rotate => in_flight = {} /\ ~next_not_ready(rotor)
      /\ plan # "Wait"
  BY Zenon DEF seal_frame, seal_ready
<1>3. /\ plan = "WriteThrough" /\ rotate => ready_prezeroed(rotor)
      /\ plan = "WriteThrough" /\ ~rotate =>
             rotor.prezeroed /\ coverage_tail(gc) = queued_up_to(gc)
      /\ plan = "LinkedFsync" => gc.queued = <<>>
  BY PlanIs
<1>4. plan \in {"WriteThrough", "LinkedFsync", "Plain", "Wait"}
  BY PlanRange
<1> HIDE DEF plan
<1>5. PICK claim \in BOOLEAN :
        /\ begun.rotor = IF rotate THEN rotate_deferred(rotor) ELSE rotor
        /\ begun.gc = IF rotate THEN register_seal_fsync(Asserting(gc, claim))
                      ELSE Asserting(gc, claim)
  <2> DEFINE r == IF rotate THEN rotate_deferred(rotor) ELSE rotor
             c == wt_ok = (len = "small" /\ r.mode = "Direct" /\ r.prezeroed)
  <2>1. c \in BOOLEAN
    OBVIOUS
  <2>2. /\ begun.rotor = r
        /\ begun.gc = IF rotate THEN register_seal_fsync(Asserting(gc, c))
                      ELSE Asserting(gc, c)
    BY Zenon DEF begin_frame
  <2> HIDE DEF c
  <2> QED BY <2>1, <2>2
<1> HIDE DEF rotate, begun
<1> DEFINE g == Asserting(gc, claim)
<1>6. /\ Good(gc) /\ gc \in Ledger /\ rotor \in Rotor /\ LogShape(gc, Seen)
      /\ queued_up_to(gc) = Len(frames)
  BY Zenon, SeenTyped DEF Alive, Plane, Agreed, Claims, Good
<1>7. Good(g) /\ g \in Ledger /\ SameEntries(gc, g) /\ g.extent_unsent = gc.extent_unsent
  <2>1. Good(g)
    BY Zenon, <1>5, <1>6, AssertingKeeps DEF Good
  <2> QED BY <1>6, <2>1, FlagsSame DEF Good
<1> HIDE DEF g
<1>8. Plane(g, Seen, rotor, builder, z, w)
  <2>1. SameSegments(rotor, rotor) /\ builder.exts \subseteq builder.exts
    BY DEF SameSegments
  <2> QED BY <1>6, <1>7, <2>1, PlaneQuiet DEF Alive
<1>9. ~extent_barrier_pending(g) /\ coverage_tail(g) = coverage_tail(gc)
  BY <1>2, <1>7, EntriesDecide
<1>10. /\ Seen \in View /\ Seen.syncs = syncs /\ Seen.in_flight = in_flight
       /\ Seen.stable = stable /\ Seen.frames = frames
  BY Zenon, SeenTyped
<1>11. d.syncs = (IF rotate THEN syncs \cup {seal} ELSE syncs) /\ d.in_flight = in_flight
       /\ d.frames = frames
       /\ d.stable = IF inline THEN stable \cup {<<"dir", begun.rotor.active>>} ELSE stable
  OBVIOUS
\* The rotation, if one is due.
<1>12. /\ Plane(begun.gc, d, begun.rotor, builder, z, w)
       /\ ~extent_barrier_pending(begun.gc)
       /\ plan = "WriteThrough" =>
            begun.rotor.prezeroed /\ coverage_tail(begun.gc) = Len(d.frames)
  <2>1. CASE ~rotate
    <3>1. d = Seen
      BY <2>1 DEF Seen
    <3>2. begun.gc = g /\ begun.rotor = rotor
      BY Zenon, <1>5, <2>1 DEF g
    <3> HIDE DEF d
    <3> QED BY Zenon, <1>3, <1>6, <1>8, <1>9, <1>10, <2>1, <3>1, <3>2
  <2>2. CASE rotate
    <3>1. begun.gc = register_seal_fsync(g) /\ begun.rotor = rotate_deferred(rotor)
      BY Zenon, <1>5, <2>2 DEF g
    <3>2. seal = SyncOf(g, Seen.frames, register_seal_fsync(g).next_ticket, rotor.active)
      BY <1>7, <1>10, <3>1, SyncOfSame
    <3>3. begun.gc \in Ledger /\ begun.rotor \in Rotor /\ begun.gc.next_ticket \in Nat
      <4>1. begun.gc \in Ledger
        BY Zenon, <1>7, <3>1, SealKeeps DEF Good
      <4> QED BY Zenon, <1>6, <3>1, <4>1, RotateTyped DEF Ledger
    <3>4. d \in View
      <4>1. seal \in Sync
        BY <1>6, <3>3, SyncTyped
      <4>2. <<"dir", begun.rotor.active>> \in Object
        <5>1. begun.rotor.active \in Nat
          BY Zenon, <3>3, RotorFields
        <5> QED BY Zenon, <5>1 DEF Object
      <4> HIDE DEF seal
      <4> QED BY Zenon, <1>10, <4>1, <4>2 DEF View
    <3>5. Turned(Seen, d, rotor, rotate_deferred(rotor), seal)
      BY <1>10, <1>11, <2>2, <3>1, <3>4 DEF Turned
    <3> HIDE DEF seal, d
    <3>6. Turned(Seen, d, rotor, rotate_deferred(rotor),
                 SyncOf(g, Seen.frames, register_seal_fsync(g).next_ticket, rotor.active))
      BY Zenon, <3>2, <3>5
    <3>7. Seen.in_flight = {} /\ ~next_not_ready(rotor)
      BY <1>2, <1>10, <2>2
    <3>8. /\ Plane(register_seal_fsync(g), d, rotate_deferred(rotor), builder, z, w)
          /\ coverage_tail(register_seal_fsync(g)) = Len(Seen.frames)
          /\ ~extent_barrier_pending(register_seal_fsync(g))
      BY Zenon, <1>8, <1>9, <3>6, <3>7, PlaneRotate
    <3>9. rotate_deferred(rotor).prezeroed <=> ready_prezeroed(rotor)
      BY Zenon, <1>6, RotateIs DEF Rotated
    <3> QED BY <1>3, <1>10, <1>11, <2>2, <3>1, <3>8, <3>9
  <2> QED BY <2>1, <2>2
<1>13. x \in Frame /\ x.exts = builder.exts /\ x.seg = begun.rotor.active
  <2>1. begun.rotor \in Rotor
    BY Zenon, <1>12 DEF Plane
  <2>2. begun.rotor.active \in Nat /\ gc.durable_up_to \in Nat
    BY Zenon, <1>6, <2>1, RotorFields DEF Ledger
  <2> QED BY <2>2, SMTT(30) DEF TypeOK, Frame
<1>14. d \in View
  BY Zenon, <1>12 DEF Plane, Agreed, Claims
<1>18. ASSUME NEW t \in Nat, in_flight' = in_flight \cup {[id |-> n, ticket |-> t]}
       PROVE  /\ syncs' = sent => Seen' = Queued(d, x, t)
              /\ \A u \in Sync : syncs' = sent \cup {u} =>
                                  Seen' = WithSync(Queued(d, x, t), u)
  <2>1. stable' = kept /\ frames' = Append(frames, x)
    BY Zenon, <1>1
  <2>2. /\ d \in View /\ d.syncs = sent /\ d.in_flight = in_flight
        /\ d.stable = kept /\ d.frames = frames
    BY Zenon, <1>14
  <2> DEFINE e == Queued(d, x, t)
  <2> HIDE DEF d, sent, kept, x
  <2>3. /\ e \in View /\ e.syncs = sent /\ e.in_flight = in_flight'
        /\ e.stable = stable' /\ e.frames = frames'
    BY Zenon, <1>13, <1>18, <2>1, <2>2, QueuedIs
  <2>4. syncs' = sent => Seen' = e
    <3> HIDE DEF e
    <3>1. e = [syncs |-> sent, in_flight |-> in_flight', stable |-> stable',
               frames |-> frames']
      BY <2>3, ViewIs
    <3> QED BY Zenon, <3>1 DEF Seen
  <2>5. ASSUME NEW u \in Sync, syncs' = sent \cup {u}
        PROVE  Seen' = WithSync(e, u)
    <3> DEFINE f == WithSync(e, u)
    <3> HIDE DEF e
    <3>1. /\ f \in View /\ f.syncs = syncs' /\ f.in_flight = in_flight'
          /\ f.stable = stable' /\ f.frames = frames'
      BY Zenon, <2>3, <2>5, WithSyncIs
    <3> HIDE DEF f
    <3>2. f = [syncs |-> syncs', in_flight |-> in_flight', stable |-> stable',
               frames |-> frames']
      BY Zenon, <3>1, ViewIs
    <3>3. Seen' = f
      BY Zenon, <3>2 DEF Seen
    <3> QED BY Zenon, <3>3 DEF f
  <2> QED BY Zenon, <2>4, <2>5 DEF e
<1>19. /\ plan # "LinkedFsync" => syncs' = sent
       /\ plan = "LinkedFsync" => syncs' = sent \cup {LinkedSync(gc, fs, gc'.next_ticket, n)}
  <2> DEFINE s == LinkedSync(gc, fs, gc'.next_ticket, n)
  <2>1. syncs' = syncs \cup (IF rotate THEN {seal} ELSE {})
                  \cup (IF plan = "LinkedFsync" THEN {s} ELSE {})
    BY <1>1
  <2> HIDE DEF s, seal
  <2>2. syncs' = sent \cup (IF plan = "LinkedFsync" THEN {s} ELSE {})
    BY <2>1
  <2> HIDE DEF sent
  <2>3. /\ plan # "LinkedFsync" => syncs' = sent
        /\ plan = "LinkedFsync" => syncs' = sent \cup {s}
    BY Zenon, <2>2
  <2> QED BY Zenon, <2>3 DEF s
<1> HIDE DEF x, seal, inline, sent, kept
\* The frame, and its barrier.
<1>15. CASE plan = "Plain"
  <2>1. gc' = queued
    BY Zenon, <1>1, <1>15 DEF register_barrier
  <2>2. Seen' = Queued(d, x, 0)
    <3>1. in_flight' = in_flight \cup {[id |-> n, ticket |-> 0]} /\ syncs' = sent
      BY <1>1, <1>15, <1>19
    <3> QED BY Zenon, <1>18, <3>1
  <2> HIDE DEF d
  <2>3. Plane(queued, Queued(d, x, 0), commit_frame_queued(begun.rotor), NoRecords, z, w)
    BY Zenon, <1>12, <1>13, PlaneQueue
  <2> QED BY <1>1, <2>1, <2>2, <2>3 DEF Alive
<1>16. CASE plan = "LinkedFsync"
  <2> DEFINE s == LinkedSync(gc, fs, gc'.next_ticket, n)
             e == Queued(d, x, 0)
             q == commit_frame_queued(begun.rotor)
  <2>1. gc' = register_linked_fsync(queued)
    BY Zenon, <1>1, <1>16 DEF register_barrier
  <2>2. Plane(queued, e, q, NoRecords, z, w)
    <3> HIDE DEF d
    <3> QED BY <1>12, <1>13, PlaneQueue
  <2>3. gc'.next_ticket \in Nat
    <3>1. Good(queued)
      BY Zenon, <2>2 DEF Plane, Agreed, Claims
    <3>2. gc' \in Ledger
      BY <2>1, <3>1, FrameBarriersKeep DEF Good
    <3> QED BY Zenon, <3>2 DEF Ledger
  <2>4. n \in Nat
    BY <1>10 DEF View
  <2>5. s \in Sync /\ s.ticket = gc'.next_ticket
    <3>1. s.ticket = gc'.next_ticket
      BY Zenon DEF LinkedSync, SyncOf
    <3> QED BY <1>6, <2>3, <2>4, <3>1, LinkedTyped
  <2>6. Seen' = WithSync(e, s)
    <3>1. in_flight' = in_flight \cup {[id |-> n, ticket |-> 0]} /\ syncs' = sent \cup {s}
      BY Zenon, <1>1, <1>16, <1>19
    <3> HIDE DEF s
    <3> QED BY Zenon, <1>18, <2>5, <3>1
  <2>7. e.frames = fs
    BY Zenon, <1>11, <1>13, <1>14, QueuedIs
  <2>8. q.active = x.seg
    <3>1. begun.rotor \in Rotor
      BY Zenon, <1>12 DEF Plane
    <3> QED BY <1>13, <3>1, CursorIs DEF SameSegments
  <2>9. ASSUME NEW m \in DOMAIN e.frames, e.frames[m].seg = q.active
        PROVE  <<"frame", m>> \in s.objs
    <3>1. m \in DOMAIN Append(Seen.frames, x) /\ Append(Seen.frames, x)[m].seg = x.seg
      BY <1>10, <2>7, <2>8, <2>9
    <3>2. <<"frame", m>> \in LinkedSync(gc, Append(Seen.frames, x), gc'.next_ticket,
                                        Len(Seen.frames) + 1).objs
      BY Zenon, <1>3, <1>6, <1>10, <1>13, <1>16, <3>1, LinkedCovers
    <3> QED BY Zenon, <1>10, <3>2
  <2> HIDE DEF s, e, q, queued
  <2>10. Plane(register_linked_fsync(queued), WithSync(e, s), q, NoRecords, z, w)
    BY <2>1, <2>2, <2>5, <2>9, PlaneLinked
  <2> QED BY <1>1, <2>1, <2>6, <2>10 DEF Alive, q
<1>17. CASE plan = "WriteThrough"
  <2>1. gc' = register_write_through(queued)
    BY Zenon, <1>1, <1>17 DEF register_barrier
  <2>4. gc'.next_ticket \in Nat
    <3>1. Good(begun.gc)
      BY Zenon, <1>12 DEF Plane, Agreed, Claims
    <3>2. Good(queued)
      BY Zenon, <3>1, FrameQueuedKeeps DEF Good
    <3>3. gc' \in Ledger
      BY Zenon, <2>1, <3>2, FrameBarriersKeep DEF Good
    <3> QED BY <3>3 DEF Ledger
  <2>2. Seen' = Queued(d, x, gc'.next_ticket)
    <3>1. in_flight' = in_flight \cup {[id |-> n, ticket |-> gc'.next_ticket]}
          /\ syncs' = sent
      BY <1>1, <1>17, <1>19
    <3> QED BY Zenon, <1>18, <2>4, <3>1
  <2> HIDE DEF d
  <2>3. LET i == register_write_through(note_frame_queued(begun.gc))
        IN  Plane(i, Queued(d, x, i.next_ticket), commit_frame_queued(begun.rotor),
                  NoRecords, z, w)
    BY Zenon, <1>12, <1>13, <1>17, PlaneQueueThrough
  <2> QED BY <1>1, <2>1, <2>2, <2>3 DEF Alive
<1> QED BY <1>2, <1>4, <1>15, <1>16, <1>17
================================================================================
