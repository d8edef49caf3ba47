------------------------------ MODULE PlaneProofs ------------------------------
(***************************************************************************)
(* A cell starts with its ledger, device, rotor and builder in agreement   *)
(* (Alive), agreement makes the watermark honest (Honest), and the         *)
(* handlers that move the watermark keep it: a sync of the written prefix, *)
(* the completion of an fdatasync, of a plain write and of a               *)
(* write-through.                                                          *)
(***************************************************************************)
EXTENDS DeviceProofs

-----------------------------------------------------------------------------
\* A completion only folds what is covered.
LEMMA CoverComplete ==
    ASSUME NEW g, Good(g), NEW d \in View, NEW e \in View, Keeps(d, e), Cover(g, d),
           queued_up_to(g) = Len(d.frames), NEW h, NEW i, NEW k \in 0..Len(g.pending),
           Completed(g, h, i, k)
    PROVE  Cover(h, e)
<1>1. g.pending \in Seq(PendingFsync) /\ g.next_ticket \in Nat
  BY DEF Good, Ledger
<1>2. Len(g.pending) \in Nat /\ DOMAIN g.pending = 1..Len(g.pending)
  BY <1>1
<1>3. Base(h) = Base(g) + k /\ Base(g) \in Nat
  BY <1>1, <1>2, CoversQueued DEF Base, Completed
<1>4. ASSUME NEW j \in DOMAIN g.pending, NEW n \in 1..g.pending[j].covers_up_to
      PROVE  Secured(e, n, Base(g) + j)
  BY CoversQueued, SecuredKept DEF Cover
<1>5. ASSUME NEW n \in 1..h.durable_up_to PROVE Secured(e, n, Base(h))
  <2>1. CASE k = 0
    BY <1>3, <2>1, CoversQueued, SecuredKept DEF Cover, Completed
  <2>2. CASE k # 0
    <3>1. k \in DOMAIN g.pending /\ n \in 1..g.pending[k].covers_up_to
      BY <1>2, <2>2 DEF Completed
    <3> QED BY <1>3, <1>4, <3>1
  <2> QED BY <2>1, <2>2
<1>6. ASSUME NEW j \in DOMAIN h.pending, NEW n \in 1..h.pending[j].covers_up_to
      PROVE  Secured(e, n, Base(h) + j)
  <2>1. k + j \in DOMAIN g.pending /\ j \in 1..(Len(g.pending) - k)
    BY <1>2 DEF Completed
  <2>2. n \in 1..g.pending[k + j].covers_up_to
    BY <2>1 DEF Completed
  <2>3. Base(h) + j = Base(g) + (k + j)
    BY <1>2, <1>3, <2>1
  <2> QED BY <1>4, <2>1, <2>2, <2>3
<1> QED BY <1>5, <1>6 DEF Cover

\* Tickets.

-----------------------------------------------------------------------------
\* A completion leaves every other ticket live.
LEMMA LiveComplete ==
    ASSUME NEW g \in Ledger, NEW h, NEW ticket \in Int, NEW k \in 0..Len(g.pending),
           Completed(g, h, pending_index(g, ticket), k)
    PROVE  \A t \in Int : Live(g, t) /\ t # ticket
                             => Live(h, t) /\ Reason(h, t) = Reason(g, t)
<1> SUFFICES ASSUME NEW t \in Int, Live(g, t), t # ticket
             PROVE  Live(h, t) /\ Reason(h, t) = Reason(g, t)
  OBVIOUS
<1>1. g.pending \in Seq(PendingFsync) /\ g.next_ticket \in Nat
  BY DEF Ledger
<1>2. Len(g.pending) \in Nat /\ DOMAIN g.pending = 1..Len(g.pending)
  BY <1>1
<1> DEFINE i == pending_index(g, t)
           j == i - k
<1>3. i \in 1..Len(g.pending) /\ ~g.pending[i].done /\ ~g.pending[i].failed
  BY <1>2 DEF Live, pending_live
<1>4. i # pending_index(g, ticket)
  BY <1>1, <1>2 DEF pending_index
<1>5. pending_index(h, t) = j
  <2>1. Len(h.pending) = Len(g.pending) - k /\ h.next_ticket = g.next_ticket
    BY DEF Completed
  <2> QED BY <1>1, <1>2, <2>1 DEF pending_index
<1> HIDE DEF i
<1>6. ~(i \in 1..k)
  BY <1>3, <1>4 DEF Completed
<1>7. j \in 1..(Len(g.pending) - k) /\ k + j = i
  BY <1>2, <1>3, <1>6
<1> HIDE DEF j
<1>8. /\ h.pending[j].reason = g.pending[i].reason
      /\ ~h.pending[j].failed /\ ~h.pending[j].done
      /\ j \in DOMAIN h.pending
  BY Zenon, <1>3, <1>4, <1>7 DEF Completed
<1> QED BY <1>5, <1>8 DEF Live, pending_live, Reason, i

\* A completion ends the one operation that has its ticket.
LEMMA TicketsComplete ==
    ASSUME NEW g \in Ledger, NEW h, NEW d \in View, NEW e, Tickets(g, d),
           NEW ticket \in Int, NEW k \in 0..Len(g.pending),
           Completed(g, h, pending_index(g, ticket), k),
           \A s \in e.syncs : s \in d.syncs /\ s.ticket # ticket,
           \A f \in e.in_flight : f.ticket # 0 => f \in d.in_flight /\ f.ticket # ticket
    PROVE  Tickets(h, e)
<1>1. \A z \in e.syncs : z.ticket \in Int /\ z \in d.syncs /\ z.ticket # ticket
  BY TicketsTyped
<1>2. \A f \in e.in_flight : f.ticket # 0 =>
            f.ticket \in Int /\ f \in d.in_flight /\ f.ticket # ticket
  BY TicketsTyped
<1>3. \A z \in e.syncs : Live(h, z.ticket) /\ Reason(h, z.ticket) # "WriteThrough"
  BY <1>1, LiveComplete DEF Tickets
<1>4. \A f \in e.in_flight : f.ticket # 0 => /\ Live(h, f.ticket)
                                             /\ Reason(h, f.ticket) = "WriteThrough"
  BY <1>2, LiveComplete DEF Tickets
<1>5. \A x, z \in e.syncs : x.ticket = z.ticket => x = z
  BY <1>1 DEF Tickets
<1>6. \A x, z \in e.in_flight : x.ticket # 0 /\ x.ticket = z.ticket => x = z
  BY <1>2 DEF Tickets
<1> QED BY <1>3, <1>4, <1>5, <1>6 DEF Tickets

-----------------------------------------------------------------------------
\* Folding only forgets extent barriers.
LEMMA UnsentComplete ==
    ASSUME NEW g \in Ledger, NEW h \in Ledger, NEW i, NEW k \in 0..Len(g.pending),
           Completed(g, h, i, k)
    PROVE  UnsentExtents(h) \subseteq UnsentExtents(g)
<1> DEFINE L == Len(g.pending)
           b == g.next_ticket - L
           I == {j \in 1..L : g.pending[j].reason = "ExtentSeal"}
           J == {j \in 1..(L - k) : h.pending[j].reason = "ExtentSeal"}
<1>1. g.pending \in Seq(PendingFsync) /\ g.next_ticket \in Nat /\ k \in Int
  BY DEF Ledger
<1>2. L \in Nat /\ DOMAIN g.pending = 1..L /\ b \in Int
  BY <1>1
<1>3. h.next_ticket - Len(h.pending) = b + k /\ DOMAIN h.pending = 1..(L - k)
      /\ h.extent_unsent = g.extent_unsent
      /\ \A j \in 1..(L - k) : h.pending[j].reason = g.pending[k + j].reason
  BY <1>1, <1>2 DEF Completed
<1>4. Window(g) = {b + j : j \in I} /\ Window(h) = {(b + k) + j : j \in J}
  BY Zenon, <1>2, <1>3 DEF Window
<1>5. \A t : t \in Window(h) <=> t \in Window(g) /\ t > b + k
  <2>1. ASSUME NEW t, t \in Window(h) PROVE t \in Window(g) /\ t > b + k
    <3>1. PICK j \in J : t = (b + k) + j
      BY <1>4, <2>1
    <3>2. j \in 1..(L - k) /\ g.pending[k + j].reason = "ExtentSeal"
      BY <1>3, <3>1
    <3>3. k + j \in 1..L /\ t = b + (k + j) /\ t > b + k
      BY <1>1, <1>2, <3>1, <3>2
    <3>4. k + j \in I
      BY <3>2, <3>3
    <3> HIDE DEF I
    <3> QED BY <1>4, <3>3, <3>4
  <2>2. ASSUME NEW t, t \in Window(g), t > b + k PROVE t \in Window(h)
    <3>1. PICK j \in I : t = b + j
      BY <1>4, <2>2
    <3>2. j - k \in 1..(L - k) /\ t = (b + k) + (j - k) /\ k + (j - k) = j
      BY <1>1, <1>2, <2>2, <3>1
    <3>3. j - k \in J
      BY <1>3, <3>1, <3>2
    <3> QED BY <1>4, <3>2, <3>3
  <2> QED BY <2>1, <2>2
<1>6. b + k \in Int
  BY <1>1, <1>2
<1> HIDE DEF b, I, J, L
<1>7. ASSUME NEW t \in UnsentExtents(h) PROVE t \in UnsentExtents(g)
  <2>1. t \in Window(h) /\ Cardinality({u \in Window(h) : u > t}) < h.extent_unsent
        /\ t \in Int /\ Window(g) \subseteq Int
    BY Zenon, WindowFinite
  <2>2. {u \in Window(h) : u > t} = {u \in Window(g) : u > t}
    BY <1>5, <1>6, <2>1
  <2> QED BY <1>3, <1>5, <2>1, <2>2, WindowFinite
<1> QED BY <1>7

-----------------------------------------------------------------------------
\* An operation completes that is not an unsent extent's.
LEMMA UnsentKeptComplete ==
    ASSUME NEW g \in Ledger, NEW h \in Ledger, NEW d \in View, NEW e, Unsent(g, d),
           NEW ticket \in Int, NEW k \in 0..Len(g.pending), ticket \notin UnsentExtents(g),
           Completed(g, h, pending_index(g, ticket), k), e.syncs \subseteq d.syncs
    PROVE  Unsent(h, e)
<1>1. \A t \in UnsentExtents(h) : t \in UnsentExtents(g) /\ t \in Int
  BY UnsentComplete, UnsentReason
<1>2. \A t \in UnsentExtents(h) : Live(h, t)
  BY <1>1, LiveComplete DEF Unsent
<1> QED BY <1>1, <1>2 DEF Unsent

\* After a completion.
LEMMA HeadsComplete ==
    ASSUME NEW g \in Ledger, NEW h, NEW i, NEW k \in 0..Len(g.pending),
           Completed(g, h, i, k), Heads(g)
    PROVE  Heads(h)
<1>1. g.pending \in Seq(PendingFsync)
  BY DEF Ledger
<1>2. Len(g.pending) \in Nat /\ DOMAIN g.pending = 1..Len(g.pending)
  BY <1>1
<1>3. \A j \in 1..(Len(g.pending) - k) : k + j \in DOMAIN g.pending
  BY <1>2
<1>4. \A j \in DOMAIN h.pending : ~h.pending[j].failed
  BY <1>3 DEF Completed, Heads
<1>5. h.pending # <<>> => ~h.pending[1].done
  <2> SUFFICES ASSUME h.pending # <<>>, h.pending[1].done PROVE FALSE
    OBVIOUS
  <2>1. h.pending[1].failed
    BY DEF Completed
  <2>2. Len(g.pending) - k = 0 => DOMAIN h.pending = {}
    BY DEF Completed
  <2>3. Len(h.pending) = Len(g.pending) - k /\ DOMAIN h.pending = 1..(Len(g.pending) - k)
    BY DEF Completed
  <2>4. 1 \notin DOMAIN h.pending
    BY <1>4, <2>1
  <2> QED BY <1>2, <2>3, <2>4
<1> QED BY <1>4, <1>5 DEF Heads

\* Segments.

-----------------------------------------------------------------------------
\* A frame's write completes.
LEMMA ShapeWritten ==
    ASSUME NEW g \in Ledger, NEW h, NEW d \in View, NEW e, LogShape(g, d),
           NEW f \in d.in_flight, NEW n \in 0..Len(g.queued),
           Written(g, h, f.id - g.written_up_to, n),
           e.in_flight = d.in_flight \ {f}, Len(e.frames) = Len(d.frames)
    PROVE  LogShape(h, e)
<1> DEFINE L == Len(g.queued)
           w == g.written_up_to
<1>1. g.queued \in Seq(BOOLEAN) /\ w \in Nat /\ \A z \in d.in_flight : z.id \in Int
  BY DEF Ledger, View
<1>2. L \in Nat /\ DOMAIN g.queued = 1..L
  BY <1>1
<1>3. /\ h.written_up_to = w + n /\ Len(h.queued) = L - n /\ DOMAIN h.queued = 1..(L - n)
      /\ \A j \in 1..(L - n) : h.queued[j] <=> (g.queued[n + j] \/ n + j = f.id - w)
      /\ \A j \in 1..n : g.queued[j] \/ j = f.id - w
      /\ h.queued # <<>> => ~h.queued[1]
  BY DEF Written
<1>4. queued_up_to(h) = Len(e.frames)
  <2>1. w + L = Len(d.frames)
    BY DEF LogShape, queued_up_to
  <2> HIDE DEF w, L
  <2> QED BY <1>1, <1>2, <1>3, <2>1 DEF queued_up_to
<1>5. ASSUME NEW z \in e.in_flight
      PROVE  z.id - (w + n) \in 1..(L - n) /\ ~h.queued[z.id - (w + n)]
  <2>1. z \in d.in_flight /\ z.id # f.id /\ z.id \in Int /\ f.id \in Int
    BY <1>1 DEF LogShape
  <2>2. z.id - w \in 1..L /\ ~g.queued[z.id - w]
    BY <1>2, <2>1 DEF LogShape
  <2>3. ~(z.id - w \in 1..n)
    BY <1>1, <1>3, <2>1, <2>2
  <2>4. z.id - (w + n) \in 1..(L - n) /\ n + (z.id - (w + n)) = z.id - w
    BY <1>1, <1>2, <2>1, <2>2, <2>3
  <2>5. z.id - w # f.id - w
    BY <1>1, <2>1
  <2> QED BY <1>3, <2>2, <2>4, <2>5
<1>6. ASSUME NEW j \in 1..(L - n), ~h.queued[j]
      PROVE  \E z \in e.in_flight : z.id = (w + n) + j
  <2>1. n + j \in 1..L /\ ~g.queued[n + j] /\ n + j # f.id - w
    BY <1>2, <1>3, <1>6
  <2>2. PICK z \in d.in_flight : z.id = w + (n + j)
    BY <1>2, <2>1 DEF LogShape
  <2>3. z # f /\ z.id = (w + n) + j
    BY <1>1, <2>1, <2>2
  <2> QED BY <2>2, <2>3
<1>7. \A y, z \in e.in_flight : y.id = z.id => y = z
  BY DEF LogShape
<1> HIDE DEF w, L
<1> QED BY <1>3, <1>4, <1>5, <1>6, <1>7 DEF LogShape

-----------------------------------------------------------------------------
\* A completion: an extent's barrier leaves its extent stable.
LEMMA ExtentsComplete ==
    ASSUME NEW g \in Ledger, NEW h, NEW d \in View, NEW e, NEW b, NEW a, Extents(g, d, b),
           Tickets(g, d), NEW ticket \in Int, NEW k \in 0..Len(g.pending),
           Completed(g, h, pending_index(g, ticket), k),
           \A s \in e.syncs : s \in d.syncs /\ s.ticket # ticket,
           d.stable \subseteq e.stable, a.exts \subseteq b.exts,
           Reason(g, ticket) = "ExtentSeal" => <<"ext", ticket>> \in e.stable
    PROVE  Extents(h, e, a)
<1>1. \A s \in e.syncs : s \in d.syncs /\ s.ticket \in Int /\ Live(g, s.ticket)
                         /\ s.ticket # ticket
  BY TicketsTyped DEF Tickets
<1>2. \A s \in e.syncs : Reason(h, s.ticket) = "ExtentSeal" => <<"ext", s.ticket>> \in s.objs
  BY ZenonT(30), <1>1, LiveComplete DEF Extents
<1>3. ASSUME NEW x \in a.exts
      PROVE  \/ <<"ext", x>> \in e.stable
             \/ x \in Int /\ Live(h, x) /\ Reason(h, x) = "ExtentSeal"
  <2>1. \/ <<"ext", x>> \in d.stable
        \/ x \in Int /\ Live(g, x) /\ Reason(g, x) = "ExtentSeal"
    BY Zenon DEF Extents
  <2> QED BY ZenonT(30), <2>1, LiveComplete
<1> QED BY <1>2, <1>3 DEF Extents

-----------------------------------------------------------------------------
\* The zero fill's barrier completes: the blocks are allocated for good.
LEMMA RotorsSynced ==
    ASSUME NEW r \in Rotor, NEW d, NEW e, NEW z, NEW w, Rotors(r, d, z, w), z # 0,
           d.stable \subseteq e.stable, e.frames = d.frames,
           <<"alloc", r.next.id>> \in e.stable
    PROVE  Rotors(note_zero_fill_synced(r), e, 0, w)
<1> DEFINE q == note_zero_fill_synced(r)
<1>1. r.next.state = "BarrierInFlight"
  BY Zenon DEF Rotors
<1>2. /\ q.active = r.active /\ (q.prezeroed <=> r.prezeroed)
      /\ (q.panic <=> r.panic) /\ q.next.id = r.next.id
      /\ q.next.in_flight = r.next.in_flight /\ q.next.state = "Ready"
  BY <1>1, FillDone
<1>3. r.next # NoNext /\ r.next.in_flight = 0
  BY <1>1, NoNextFields DEF Rotors
<1> HIDE DEF q
<1>4. Rotors(q, e, 0, w)
  BY Zenon, <1>1, <1>2, <1>3 DEF Rotors
<1> QED BY <1>4 DEF q

-----------------------------------------------------------------------------
\* An operation completes.
LEMMA ClaimsComplete ==
    ASSUME NEW g, NEW h, NEW d, NEW e \in View, NEW b, Claims(g, d, b), Good(h),
           NEW ticket \in Int, NEW k \in 0..Len(g.pending), ticket \notin UnsentExtents(g),
           Completed(g, h, pending_index(g, ticket), k), Keeps(d, e),
           \A s \in e.syncs : s \in d.syncs /\ s.ticket # ticket,
           \A f \in e.in_flight : f.ticket # 0 => f \in d.in_flight /\ f.ticket # ticket,
           e.frames = d.frames, d.stable \subseteq e.stable,
           Reason(g, ticket) = "ExtentSeal" => <<"ext", ticket>> \in e.stable
    PROVE  Claims(h, e, b)
<1>1. Good(g) /\ g \in Ledger /\ d \in View /\ h \in Ledger
  BY Zenon DEF Claims, Good
<1>2. queued_up_to(h) = Len(e.frames)
  BY Zenon DEF Claims, Completed, queued_up_to
<1>4. Tickets(h, e)
  BY Zenon, <1>1, TicketsComplete DEF Claims
<1>5. Unsent(h, e)
  BY Zenon, <1>1, UnsentKeptComplete DEF Claims
<1>6. Heads(h)
  BY Zenon, <1>1, HeadsComplete DEF Claims
<1>7. Cover(h, e)
  BY Zenon, <1>1, CoverComplete DEF Claims
<1>8. Extents(h, e, b)
  BY Zenon, <1>1, ExtentsComplete DEF Claims
<1>9. Referenced(e)
  BY Zenon DEF Claims, Referenced
<1> QED BY <1>2, <1>4, <1>5, <1>6, <1>7, <1>8, <1>9 DEF Claims

-----------------------------------------------------------------------------
\* A sync of the written prefix goes out on the active segment.
LEMMA PlanePrefix ==
    ASSUME NEW g, NEW h, NEW d, NEW r, NEW b, NEW z, NEW w, Plane(g, d, r, b, z, w), Good(h),
           NEW reason, reason \in {"Standalone", "Completion"},
           Pushed(g, h, g.written_up_to, reason)
    PROVE  Plane(h, WithSync(d, SyncOf(g, d.frames, h.next_ticket, r.active)), r, b, z, w)
<1> DEFINE s == SyncOf(g, d.frames, h.next_ticket, r.active)
           e == WithSync(d, s)
<1>1. Good(g) /\ g \in Ledger /\ h \in Ledger /\ d \in View /\ r \in Rotor
  BY Zenon DEF Plane, Agreed, Claims, Good
<1>2. h.next_ticket \in Nat /\ h.next_ticket \in Int /\ g.next_ticket <= h.next_ticket
  BY Zenon, <1>1, PushedTicket
<1>3. s \in Sync
  BY Zenon, <1>1, <1>2, SyncTyped
<1>4. s.ticket = h.next_ticket
  BY Zenon DEF SyncOf
<1>5. /\ e \in View /\ e.syncs = d.syncs \cup {s} /\ e.in_flight = d.in_flight
      /\ e.stable = d.stable /\ e.frames = d.frames
  <2> HIDE DEF s
  <2> QED BY Zenon, <1>1, <1>3, WithSyncIs
<1> HIDE DEF e
<1>6. Keeps(d, e)
  BY <1>1, <1>5, KeepsMore
<1>7. SyncOf(g, d.frames, h.next_ticket, r.active) \in e.syncs
  BY Zenon, <1>5
<1> HIDE DEF s
<1>8. ASSUME NEW n \in 1..g.written_up_to
      PROVE  Secured(e, n, h.next_ticket)
  <2>1. n \in WrittenFrames(g)
    BY Zenon DEF WrittenFrames
  <2>2. n \in DOMAIN d.frames
    <3>1. d.frames \in Seq(Frame) /\ g.queued \in Seq(BOOLEAN) /\ g.written_up_to \in Nat
      BY <1>1 DEF View, Ledger
    <3>2. g.written_up_to + Len(g.queued) = Len(d.frames)
      BY DEF Plane, Agreed, Claims, queued_up_to
    <3>3. Len(g.queued) \in Nat /\ DOMAIN d.frames = 1..Len(d.frames)
      BY <3>1
    <3> DEFINE L == Len(g.queued)
               F == Len(d.frames)
               u == g.written_up_to
    <3>4. u \in Nat /\ L \in Nat /\ u + L = F /\ DOMAIN d.frames = 1..F /\ n \in 1..u
      BY <3>1, <3>2, <3>3
    <3> HIDE DEF L, F, u
    <3>5. n \in 1..F
      BY <3>4
    <3> QED BY Zenon, <3>4, <3>5
  <2>3. Segs(g, d, r)
    BY DEF Plane
  <2>4. h.next_ticket \in Int /\ g.next_ticket <= h.next_ticket
    BY Zenon, <1>2
  <2> QED BY <1>1, <1>5, <1>6, <1>7, <2>1, <2>2, <2>3, <2>4, PrefixSecured
<1>9. Agreed(h, e, b)
  BY Zenon, <1>4, <1>5, <1>8, AgreedPush DEF Plane
<1>10. Segs(h, e, r)
  BY Zenon, <1>1, <1>2, <1>5, <1>6, SegsKept DEF Plane
<1>11. Rotors(r, e, z, w)
  <2>1. SameSegments(r, r) /\ Rotors(r, d, z, w)
    BY Zenon DEF SameSegments, Plane
  <2>2. \A n \in DOMAIN e.frames : e.frames[n].seg <= r.active
    BY <1>5, <2>1 DEF Rotors
  <2> QED BY <1>5, <2>1, <2>2, RotorsSame
<1>12. Plane(h, e, r, b, z, w)
  BY Zenon, <1>1, <1>9, <1>10, <1>11 DEF Plane
<1> QED BY <1>12 DEF e, s

\* An fdatasync completes; that of the zero fill makes its segment ready.
LEMMA PlaneSynced ==
    ASSUME NEW g, NEW d, NEW e, NEW r, NEW b, NEW z, NEW w,
           Plane(g, d, r, b, z, w), NEW s, SyncDone(d, e, s)
    PROVE  /\ Plane(on_fsync_complete(g, s.ticket), e, RotorSynced(r, z, s.ticket), b,
                    FillSynced(z, s.ticket), w)
           /\ RotorSynced(r, z, s.ticket).active = r.active
<1> USE DEF SyncDone
<1> DEFINE t == s.ticket
           q == RotorSynced(r, z, t)
           y == FillSynced(z, t)
           h == on_fsync_complete(g, t)
<1>1. Good(g) /\ g \in Ledger /\ d \in View /\ r \in Rotor
  BY Zenon DEF Plane, Agreed, Claims, Good
<1>2. t \in Nat /\ t \in Int
  BY Zenon, <1>1, TicketsTyped
<1>3. Live(g, t) /\ \A x \in d.syncs : x.ticket = t => x = s
  BY Zenon DEF Plane, Agreed, Claims, Tickets
<1>4. PICK k \in 0..Len(g.pending) : Completed(g, h, pending_index(g, t), k)
  BY Zenon, <1>1, <1>2, <1>3, CompletionIs DEF Live
<1>5. Good(h) /\ h \in Ledger
  BY Zenon, <1>1, <1>2, CompletionsKeep DEF Good
<1> HIDE DEF h
<1>6. Keeps(d, e)
  BY DEF Keeps
<1>7. t \notin UnsentExtents(g)
  BY Zenon DEF Plane, Agreed, Claims, Unsent
<1>8. Reason(g, t) = "ExtentSeal" => <<"ext", t>> \in e.stable
  BY Zenon DEF Plane, Agreed, Claims, Extents
<1>9. \A x \in e.syncs : x \in d.syncs /\ x.ticket # t
  BY Zenon, <1>3
<1>10. \A f \in e.in_flight : f.ticket # 0 => f \in d.in_flight /\ f.ticket # t
  BY ZenonT(30) DEF Plane, Agreed, Claims, Tickets
<1>11. Claims(h, e, b)
  <2> HIDE DEF t
  <2> QED BY <1>2, <1>4, <1>5, <1>6, <1>7, <1>8, <1>9, <1>10, ClaimsComplete DEF Plane, Agreed
<1>12. LogShape(h, e)
  BY Zenon, <1>4, ShapeSame DEF Plane, Agreed, Completed
<1>13. Base(g) \in Int /\ 0 <= Base(g) /\ t # 0
  <2>1. Base(g) < t
    BY Zenon, <1>1, <1>2, <1>3, LiveBounds
  <2>2. Base(g) \in Nat
    BY Zenon, <1>1, CoversQueued DEF Plane, Agreed, Claims
  <2> QED BY <1>2, <2>1, <2>2
<1>14. CASE z = t
  <2>0. q = note_zero_fill_synced(r) /\ y = 0
    BY Zenon, <1>14 DEF RotorSynced, FillSynced
  <2> HIDE DEF q, y
  <2>1. Rotors(r, d, z, w) /\ z # 0
    BY Zenon, <1>13, <1>14 DEF Plane
  <2>2. s = SyncOn(z, <<"alloc", r.next.id>>)
    BY <1>3, <1>14, <2>1, SyncOnFields DEF Rotors
  <2>3. <<"alloc", r.next.id>> \in e.stable
    BY <2>2, SyncOnFields
  <2>4. Rotors(q, e, y, w)
    BY <1>1, <2>0, <2>1, <2>3, RotorsSynced
  <2>5. q \in Rotor /\ q.active = r.active /\ q.next.id = r.next.id /\ r.next # NoNext
    <3>1. r.next.state = "BarrierInFlight"
      BY Zenon, <2>1 DEF Rotors
    <3> QED BY <1>1, <2>0, <3>1, FillTyped, FillDone, NoNextFields
  <2>6. Segs(h, e, q)
    <3>1. g.next_ticket <= h.next_ticket
      BY Zenon, <1>1, <1>4, CompletedTicket
    <3> QED BY <1>1, <1>5, <1>6, <2>5, <3>1, SegsKept DEF Plane
  <2> QED BY <1>11, <1>12, <2>4, <2>5, <2>6 DEF Plane, Agreed, h, q, y
<1>15. CASE z # t
  <2>1. SameSegments(r, r) /\ Rotors(r, d, z, w)
    BY Zenon DEF SameSegments, Plane
  <2>2. \A n \in DOMAIN e.frames : e.frames[n].seg <= r.active
    BY Zenon, <2>1 DEF Rotors
  <2>3. \A x \in d.syncs : x.ticket = z => x \in e.syncs
    BY Zenon, <1>15
  <2>4. Rotors(r, e, z, w)
    BY Zenon, <2>1, <2>2, <2>3, RotorsSame
  <2>5. Segs(h, e, r)
    <3>1. g.next_ticket <= h.next_ticket
      BY Zenon, <1>1, <1>4, CompletedTicket
    <3> QED BY <1>1, <1>5, <1>6, <3>1, SegsKept DEF Plane
  <2>6. q = r /\ y = z
    BY Zenon, <1>15 DEF RotorSynced, FillSynced
  <2> HIDE DEF q, y
  <2>7. Plane(h, e, q, b, y, w) /\ q.active = r.active
    BY <1>1, <1>11, <1>12, <2>4, <2>5, <2>6 DEF Plane, Agreed
  <2> QED BY Zenon, <2>7 DEF h, q, y
<1> QED BY Zenon, <1>14, <1>15

\* A plain write completes.
LEMMA PlaneWritten ==
    ASSUME NEW g, NEW d, NEW e \in View, NEW r, NEW b, NEW z, NEW w, Plane(g, d, r, b, z, w),
           NEW f \in d.in_flight, f.ticket = 0, NEW claim \in BOOLEAN,
           e.in_flight = d.in_flight \ {f}, e.syncs = d.syncs, e.stable = d.stable,
           e.frames = d.frames
    PROVE  Plane(Asserting(note_frame_written(g, f.id), claim), e, r, b, z, w)
<1> DEFINE h == note_frame_written(g, f.id)
           i == Asserting(h, claim)
<1>1. Good(g) /\ g \in Ledger /\ d \in View /\ r \in Rotor /\ Agreed(g, d, b)
  BY Zenon DEF Plane, Agreed, Claims, Good
<1>2. /\ Good(h) /\ h \in Ledger /\ queued_up_to(h) = Len(d.frames)
      /\ \E n \in 0..Len(g.queued) : Written(g, h, f.id - g.written_up_to, n)
  BY Zenon, <1>1, FlightWritten DEF Good
<1> HIDE DEF h
<1>3. PICK n \in 0..Len(g.queued) : Written(g, h, f.id - g.written_up_to, n)
  BY <1>2
<1>4. Keeps(d, e)
  BY Zenon DEF Keeps
<1>5. LogShape(h, e)
  BY Zenon, <1>1, <1>3, ShapeWritten DEF Plane, Agreed
<1>6. Tickets(h, e)
  BY <1>3, TicketsSame DEF Plane, Agreed, Claims, Written
<1>7. Unsent(h, e)
  BY <1>3, UnsentSame DEF Plane, Agreed, Claims, Written
<1>8. Heads(h)
  BY Zenon, <1>3 DEF Plane, Agreed, Claims, Heads, Written
<1>9. Cover(h, e)
  BY Zenon, <1>1, <1>3, <1>4, CoverSame DEF Plane, Agreed, Claims, Written
<1>10. Extents(h, e, b)
  BY <1>3, ExtentsSame DEF Plane, Agreed, Claims, Written
<1>11. Referenced(e)
  BY Zenon DEF Plane, Agreed, Claims, Referenced
<1>12. Agreed(h, e, b)
  BY <1>2, <1>5, <1>6, <1>7, <1>8, <1>9, <1>10, <1>11 DEF Agreed, Claims
<1>13. Segs(h, e, r)
  <2>1. g.next_ticket <= h.next_ticket
    BY <1>1, <1>3 DEF Written, Ledger
  <2> QED BY Zenon, <1>1, <1>2, <1>4, <2>1, SegsKept DEF Plane
<1>14. Rotors(r, e, z, w)
  BY Zenon DEF Plane, Rotors
<1>15. Plane(h, e, r, b, z, w)
  BY Zenon, <1>1, <1>12, <1>13, <1>14 DEF Plane
<1>16. Good(i) /\ SameEntries(h, i) /\ i.extent_unsent = h.extent_unsent
  BY Zenon, <1>2, AssertingKeeps, FlagsSame DEF Good
<1>17. SameSegments(r, r)
  BY Zenon DEF SameSegments
<1> HIDE DEF i
<1>18. Plane(i, e, r, b, z, w)
  BY <1>1, <1>15, <1>16, <1>17, PlaneQuiet
<1> QED BY Zenon, <1>18 DEF i, h

-----------------------------------------------------------------------------
\* A write-through frame's write completes, and with it its own barrier.
LEMMA PlaneThrough ==
    ASSUME NEW g, NEW d, NEW e, NEW r, NEW b, NEW z, NEW w, Plane(g, d, r, b, z, w),
           NEW f, ThroughDone(d, e, f), NEW claim \in BOOLEAN
    PROVE  /\ z # f.ticket
           /\ LET i == Asserting(note_frame_written(g, f.id), claim)
              IN  Plane(on_fsync_complete(i, f.ticket), e, r, b, z, w)
<1> USE DEF ThroughDone
<1> DEFINE t == f.ticket
           h == note_frame_written(g, f.id)
           i == Asserting(h, claim)
           j == on_fsync_complete(i, t)
<1>1. Good(g) /\ g \in Ledger /\ d \in View /\ r \in Rotor /\ Agreed(g, d, b) /\ Claims(g, d, b)
  BY Zenon DEF Plane, Agreed, Claims, Good
<1>2. t \in Nat /\ t \in Int
  BY <1>1, TicketsTyped
<1>3. /\ Good(h) /\ h \in Ledger /\ queued_up_to(h) = Len(d.frames)
      /\ \E n \in 0..Len(g.queued) : Written(g, h, f.id - g.written_up_to, n)
  BY Zenon, <1>1, FlightWritten DEF Good
<1> HIDE DEF h
<1>4. PICK n \in 0..Len(g.queued) : Written(g, h, f.id - g.written_up_to, n)
  BY Zenon, <1>3
<1>5. Good(i) /\ i \in Ledger /\ SameEntries(h, i) /\ i.extent_unsent = h.extent_unsent
  BY Zenon, <1>3, AssertingKeeps, FlagsSame DEF Good
<1> HIDE DEF i
<1>6. /\ i.pending = g.pending /\ i.next_ticket = g.next_ticket
      /\ i.durable_up_to = g.durable_up_to /\ i.extent_unsent = g.extent_unsent
      /\ queued_up_to(i) = Len(d.frames)
  BY Zenon, <1>3, <1>4, <1>5 DEF Written, SameEntries, queued_up_to
<1>7. Claims(i, d, b)
  BY Zenon, <1>1, <1>5, <1>6, ClaimsQuiet
<1>8. LogShape(i, e)
  <2>1. LogShape(h, e)
    BY Zenon, <1>1, <1>4, ShapeWritten DEF Agreed
  <2> QED BY Zenon, <1>5, <2>1, ShapeSame DEF SameEntries
<1>9. /\ Live(i, t) /\ Reason(i, t) = "WriteThrough"
      /\ \A x \in d.in_flight : x.ticket = t => x = f
      /\ \A s \in d.syncs : s.ticket # t
  BY <1>7 DEF Claims, Tickets
<1>10. PICK k \in 0..Len(i.pending) : Completed(i, j, pending_index(i, t), k)
  BY Zenon, <1>2, <1>5, <1>9, CompletionIs DEF Live
<1>11. Good(j) /\ j \in Ledger
  BY Zenon, <1>2, <1>5, CompletionsKeep DEF Good
<1> HIDE DEF j
<1>12. Keeps(d, e)
  BY DEF Keeps
<1>13. t \notin UnsentExtents(i)
  BY <1>5, <1>9, UnsentReason
<1>14. \A x \in e.in_flight : x.ticket # 0 => x \in d.in_flight /\ x.ticket # t
  BY Zenon, <1>9
<1>15. \A s \in e.syncs : s \in d.syncs /\ s.ticket # t
  BY Zenon, <1>9
<1>16. Reason(i, t) = "ExtentSeal" => <<"ext", t>> \in e.stable
  BY Zenon, <1>9
<1>17. Claims(j, e, b)
  <2> HIDE DEF t
  <2> QED BY <1>2, <1>7, <1>10, <1>11, <1>12, <1>13, <1>14, <1>15, <1>16, ClaimsComplete
<1>18. LogShape(j, e)
  BY <1>8, <1>10, ShapeSame DEF Completed
<1>19. Segs(j, e, r)
  <2>1. g.next_ticket <= j.next_ticket
    BY Zenon, <1>5, <1>6, <1>10, CompletedTicket
  <2> QED BY Zenon, <1>1, <1>11, <1>12, <2>1, SegsKept DEF Plane
<1>20. Rotors(r, e, z, w)
  BY Zenon DEF Plane, Rotors
<1>21. z # t
  BY <1>9, SyncOnFields DEF Plane, Rotors
<1>22. Plane(j, e, r, b, z, w)
  BY <1>1, <1>17, <1>18, <1>19, <1>20 DEF Plane, Agreed
<1> QED BY Zenon, <1>21, <1>22 DEF i, j, h

\* After a completion a deferred sync of the written prefix may go out at once.
LEMMA SyncedAlive ==
    ASSUME NEW g, NEW map, NEW ticket, NEW rest, on_synced(g, map, ticket, rest),
           NEW e, e.syncs = rest, Seen' = [e EXCEPT !.syncs = syncs'],
           e.frames = frames, rotor'.active = rotor.active,
           Plane(on_fsync_complete(g, ticket), e, rotor', builder', zero_fill_ticket',
                 fill_write')
    PROVE  Alive'
<1> DEFINE h == on_fsync_complete(g, ticket)
           i == register_completion_fsync(h)
           s == SyncOf(h, frames, i.next_ticket, rotor.active)
<1>1. /\ gc' = IF completion_fsync_due(h) THEN i ELSE h
      /\ syncs' = IF completion_fsync_due(h) THEN rest \cup {s} ELSE rest
  BY DEF on_synced
<1>2. e \in View
  BY DEF Plane, Agreed, Claims
<1>3. CASE completion_fsync_due(h)
  <2>1. Good(h) /\ written_uncovered(h)
    BY <1>3 DEF Plane, Agreed, Claims, completion_fsync_due
  <2>2. Good(i) /\ Pushed(h, i, h.written_up_to, "Completion")
    BY <2>1, PrefixSyncsKeep, Registrations
  <2> HIDE DEF h, i
  <2>3. Plane(i, WithSync(e, SyncOf(h, e.frames, i.next_ticket, rotor'.active)), rotor',
              builder', zero_fill_ticket', fill_write')
    BY <2>2, PlanePrefix DEF h
  <2>4. WithSync(e, s) = Seen'
    <3>1. syncs' = e.syncs \cup {s}
      BY <1>1, <1>3
    <3> QED BY <3>1 DEF WithSync
  <2> QED BY <1>1, <1>3, <2>3, <2>4 DEF Alive
<1>4. CASE ~completion_fsync_due(h)
  <2>1. syncs' = e.syncs /\ gc' = h
    BY <1>1, <1>4
  <2>2. Seen' = e
    BY <1>2, <2>1 DEF View
  <2> QED BY <2>1, <2>2 DEF Alive
<1> QED BY <1>3, <1>4

\* An fdatasync completes.
LEMMA FdatasyncAlive ==
    ASSUME TypeOK, Alive, NEW s \in syncs, on_fdatasync(s)
    PROVE  Alive'
<1> DEFINE e == [syncs |-> syncs \ {s}, in_flight |-> in_flight, stable |-> stable \cup s.objs,
                 frames |-> frames]
           h == on_fsync_complete(gc, s.ticket)
<1>1. /\ on_synced(gc, frame_seqs, s.ticket, syncs \ {s}) /\ stable' = stable \cup s.objs
      /\ UNCHANGED <<builder, in_flight, frames, fill_write>>
  BY Zenon DEF on_fdatasync
<1>2. IF zero_fill_ticket = s.ticket
      THEN zero_fill_ticket' = 0 /\ rotor' = note_zero_fill_synced(rotor)
      ELSE UNCHANGED <<zero_fill_ticket, rotor>>
  BY <1>1 DEF on_synced
<1>3. s.objs \subseteq Object
  BY DEF TypeOK, Sync
<1>4. Seen \in View
  BY Zenon, SeenTyped
<1>5. e \in View
  BY Zenon, <1>3, <1>4 DEF View, Seen
<1>6. /\ e.syncs = Seen.syncs \ {s} /\ e.stable = Seen.stable \cup s.objs
      /\ e.in_flight = Seen.in_flight /\ e.frames = Seen.frames /\ s \in Seen.syncs
      /\ e.syncs = syncs \ {s} /\ e.frames = frames
  BY DEF Seen
<1>7. Seen' = [e EXCEPT !.syncs = syncs']
  BY <1>1 DEF Seen
<1> HIDE DEF e
<1>8. /\ Plane(h, e, rotor', builder, zero_fill_ticket', fill_write)
      /\ rotor'.active = rotor.active
  <2>1. Plane(gc, Seen, rotor, builder, zero_fill_ticket, fill_write)
    BY DEF Alive
  <2>2. /\ rotor' = RotorSynced(rotor, zero_fill_ticket, s.ticket)
        /\ zero_fill_ticket' = FillSynced(zero_fill_ticket, s.ticket)
    BY <1>2 DEF RotorSynced, FillSynced
  <2>3. SyncDone(Seen, e, s)
    BY Zenon, <1>5, <1>6 DEF SyncDone
  <2> QED BY <2>1, <2>2, <2>3, PlaneSynced
<1>9. Plane(h, e, rotor', builder', zero_fill_ticket', fill_write')
  BY Zenon, <1>1, <1>8
<1>10. on_synced(gc, frame_seqs, s.ticket, syncs \ {s}) /\ e.syncs = syncs \ {s}
  BY <1>1, <1>6
<1>11. e.frames = frames
  BY <1>6
<1> QED BY <1>7, <1>8, <1>9, <1>10, <1>11, SyncedAlive, Zenon

\* A frame's write completes.
LEMMA LogWrittenAlive ==
    ASSUME TypeOK, Alive, NEW f \in in_flight, on_log_written(f)
    PROVE  Alive'
<1> DEFINE g == note_frame_written(gc, f.id)
           map == coalesce_ack_map(frame_seqs, g)
           claim == ack_map_bounded(map, g)
           g1 == Asserting(g, claim)
<1>1. /\ in_flight' = in_flight \ {f}
      /\ IF f.ticket # 0
         THEN /\ on_synced(g1, map, f.ticket, syncs)
              /\ stable' = stable \cup {<<"fua", f.id>>}
         ELSE gc' = g1 /\ UNCHANGED <<syncs, zero_fill_ticket, rotor, stable>>
      /\ UNCHANGED <<builder, frames, fill_write>>
  BY DEF on_log_written
<1>2. claim \in BOOLEAN
  BY Zenon, BoundedOrNot
<1> HIDE DEF claim, map
<1>3. Seen \in View /\ f \in Seen.in_flight /\ f.id \in Nat
  BY SeenTyped DEF TypeOK
<1>4. CASE f.ticket # 0
  <2> DEFINE e == [syncs |-> syncs, in_flight |-> in_flight \ {f},
                   stable |-> stable \cup {<<"fua", f.id>>}, frames |-> frames]
  <2>1. <<"fua", f.id>> \in Object
    BY Zenon, <1>3 DEF Object
  <2>2. e \in View
    BY Zenon, <1>3, <2>1 DEF View, Seen
  <2>3. /\ e.in_flight = Seen.in_flight \ {f} /\ e.syncs = Seen.syncs
        /\ e.stable = Seen.stable \cup {<<"fua", f.id>>} /\ e.frames = Seen.frames
        /\ e.syncs = syncs /\ e.frames = frames
    BY DEF Seen
  <2>4. Seen' = [e EXCEPT !.syncs = syncs']
    BY <1>1, <1>4 DEF Seen
  <2> HIDE DEF e
  <2>5. /\ zero_fill_ticket # f.ticket
        /\ Plane(on_fsync_complete(g1, f.ticket), e, rotor, builder, zero_fill_ticket,
                 fill_write)
    <3>1. Plane(gc, Seen, rotor, builder, zero_fill_ticket, fill_write)
      BY DEF Alive
    <3>2. ThroughDone(Seen, e, f)
      BY <1>3, <1>4, <2>2, <2>3 DEF ThroughDone
    <3> QED BY Zenon, <1>2, <3>1, <3>2, PlaneThrough
  <2>6. UNCHANGED <<zero_fill_ticket, rotor>> /\ on_synced(g1, map, f.ticket, syncs)
    <3> HIDE DEF g1
    <3> QED BY Zenon, <1>1, <1>4, <2>5 DEF on_synced
  <2> HIDE DEF g1
  <2>7. /\ Plane(on_fsync_complete(g1, f.ticket), e, rotor', builder', zero_fill_ticket',
                 fill_write')
        /\ rotor'.active = rotor.active
    BY <1>1, <2>5, <2>6
  <2>8. e.syncs = syncs /\ e.frames = frames
    BY Zenon, <2>3
  <2> QED BY <2>4, <2>6, <2>7, <2>8, SyncedAlive, Zenon
<1>5. CASE f.ticket = 0
  <2>1. /\ Seen' \in View /\ Seen'.in_flight = Seen.in_flight \ {f} /\ Seen'.syncs = Seen.syncs
        /\ Seen'.stable = Seen.stable /\ Seen'.frames = Seen.frames
    BY Zenon, <1>1, <1>3, <1>5 DEF Seen, View
  <2>2. Plane(g1, Seen', rotor, builder, zero_fill_ticket, fill_write)
    BY <1>2, <1>3, <1>5, <2>1, PlaneWritten DEF Alive
  <2> QED BY <1>1, <1>5, <2>2 DEF Alive
<1> QED BY Zenon, <1>4, <1>5

\* No frame to seal, and perhaps a sync of its own.
LEMMA SealNothingAlive ==
    ASSUME TypeOK, Alive, NEW held \in BOOLEAN, seal_nothing(held)
    PROVE  Alive'
<1>1. CASE standalone_fsync_due(gc) /\ ~held
  <2> DEFINE g == register_standalone_fsync(gc)
             s == SyncOf(gc, frames, g.next_ticket, rotor.active)
  <2>1. /\ gc' = g /\ syncs' = syncs \cup {s}
        /\ UNCHANGED <<rotor, builder, in_flight, zero_fill_ticket, frames, fill_write, stable>>
    BY Zenon, <1>1 DEF seal_nothing
  <2>2. Good(gc) /\ written_uncovered(gc)
    BY Zenon, <1>1 DEF Alive, Plane, Agreed, Claims, standalone_fsync_due
  <2>3. Good(g) /\ Pushed(gc, g, gc.written_up_to, "Standalone")
    BY <2>2, PrefixSyncsKeep, Registrations
  <2>4. WithSync(Seen, SyncOf(gc, Seen.frames, g.next_ticket, rotor.active)) = Seen'
    BY <2>1 DEF WithSync, Seen
  <2> HIDE DEF g
  <2>5. Plane(g, Seen', rotor, builder, zero_fill_ticket, fill_write)
    BY Zenon, <2>3, <2>4, PlanePrefix DEF Alive
  <2> QED BY Zenon, <2>1, <2>5 DEF Alive
<1>2. CASE ~(standalone_fsync_due(gc) /\ ~held)
  <2>1. UNCHANGED <<gc, syncs, rotor, builder, in_flight, zero_fill_ticket, frames,
                    fill_write, stable>>
    BY Zenon, <1>2 DEF seal_nothing
  <2> QED BY <2>1 DEF Alive, Seen
<1> QED BY <1>1, <1>2

-----------------------------------------------------------------------------
\* The empty ledger agrees with an idle device.
LEMMA EmptyAgreed ==
    ASSUME NEW d \in View, d.syncs = {}, d.in_flight = {}, d.frames = <<>>
    PROVE  Agreed(new_ledger, d, NoRecords)
<1> DEFINE g == new_ledger
<1>1. /\ g.pending = <<>> /\ g.durable_up_to = 0 /\ g.queued = <<>> /\ g.written_up_to = 0
      /\ g.next_ticket = 0 /\ DOMAIN g.pending = {} /\ DOMAIN g.queued = {}
      /\ queued_up_to(g) = 0 /\ NoRecords.exts = {} /\ Len(d.frames) = 0
      /\ DOMAIN d.frames = {}
  BY DEF new_ledger, queued_up_to, NoRecords
<1>2. Good(g)
  BY Zenon, NewGood
<1> HIDE DEF g
<1>3. Tickets(g, d)
  BY DEF Tickets
<1>4. Unsent(g, d)
  <2>1. UnsentExtents(g) = {}
    BY Zenon, <1>1 DEF UnsentExtents
  <2> QED BY Zenon, <2>1 DEF Unsent
<1>5. Heads(g) /\ Cover(g, d)
  BY <1>1 DEF Heads, Cover
<1>6. Extents(g, d, NoRecords) /\ Referenced(d)
  BY Zenon, <1>1 DEF Extents, Referenced
<1>7. LogShape(g, d)
  BY Zenon, <1>1 DEF LogShape
<1>8. queued_up_to(g) = Len(d.frames)
  BY <1>1
<1> QED BY <1>2, <1>3, <1>4, <1>5, <1>6, <1>7, <1>8 DEF Agreed, Claims, g

\* A boot barrier covers no frame.
LEMMA BootIs ==
    ASSUME NEW g, Good(g), queued_up_to(g) = 0, coverage_tail(g) = 0
    PROVE  LET h == register_boot_barrier(g)
           IN  /\ Good(h) /\ h \in Ledger /\ queued_up_to(h) = 0 /\ coverage_tail(h) = 0
               /\ Pushed(g, h, coverage_tail(g), "BootBarrier")
               /\ h.next_ticket = g.next_ticket + 1
<1> DEFINE claim == queued_up_to(g) = 0 /\ g.durable_up_to = 0
           i == Asserting(g, claim)
           h == register_boot_barrier(g)
<1>1. Good(h) /\ h \in Ledger /\ queued_up_to(h) = 0
  BY Zenon, BootGood DEF Good
<1>2. i \in Ledger /\ SameEntries(g, i) /\ i.extent_unsent = g.extent_unsent
  <2>1. claim \in BOOLEAN
    OBVIOUS
  <2> HIDE DEF claim
  <2> QED BY <2>1, AssertingKeeps, FlagsSame DEF Good
<1>3. h = push_pending(i, 0, "BootBarrier")
  BY Zenon DEF register_boot_barrier
<1> HIDE DEF i, h
<1>4. Pushed(i, h, 0, "BootBarrier")
  BY Zenon, <1>2, <1>3, PushIs
<1>5. Pushed(g, h, coverage_tail(g), "BootBarrier")
  BY <1>2, <1>4 DEF Pushed, SameEntries
<1>6. coverage_tail(h) = 0
  <2> DEFINE L == Len(g.pending)
  <2>1. L \in Nat /\ Len(h.pending) = L + 1 /\ DOMAIN h.pending = 1..(L + 1)
        /\ h.pending[L + 1].covers_up_to = 0
    BY <1>5, PushedFacts DEF Good
  <2> HIDE DEF L
  <2>2. h.pending # <<>>
    BY <2>1
  <2> QED BY Zenon, <2>1, <2>2 DEF coverage_tail
<1>7. h.next_ticket = g.next_ticket + 1
  BY Zenon, <1>5 DEF Pushed
<1> QED BY <1>1, <1>5, <1>6, <1>7 DEF h

\* A fresh or reopened cell: the boot barriers are in flight.
LEMMA InitAlive == Init => Alive
<1> SUFFICES ASSUME Init PROVE Alive
  OBVIOUS
<1>1. PICK fresh \in BOOLEAN, mode \in {io_mode, "Buffered"}, zeroed \in BOOLEAN :
        /\ fresh => mode = io_mode /\ ~zeroed
        /\ rotor = open_rotor(0, IF fresh THEN 0 ELSE SEGMENT_BLOCKS - 1, mode, zeroed)
        /\ gc = BootBarriers(fresh)
        /\ stable = IF fresh THEN {}
                    ELSE {<<"dir", 0>>} \cup (IF rotor.prezeroed THEN {<<"alloc", 0>>} ELSE {})
        /\ syncs = IF fresh THEN {SyncOn(1, <<"dir", 0>>), SyncOf(gc, <<>>, 2, 0)}
                   ELSE {SyncOf(gc, <<>>, 1, 0)}
  BY Zenon DEF Init
<1>2. /\ builder = NoRecords /\ in_flight = {} /\ zero_fill_ticket = 0 /\ frames = <<>>
      /\ fill_write = -1
  BY Zenon DEF Init
<1>3. TypeOK /\ gc \in Ledger
  BY InitTyped DEF TypeOK
<1>4. /\ Seen \in View /\ Seen.syncs = syncs /\ Seen.in_flight = in_flight
      /\ Seen.stable = stable /\ Seen.frames = frames
  BY Zenon, <1>3, SeenTyped
<1> DEFINE d == [syncs |-> {}, in_flight |-> {}, stable |-> stable, frames |-> <<>>]
           g1 == register_boot_barrier(new_ledger)
           g2 == register_boot_barrier(g1)
           a == SyncOn(1, <<"dir", 0>>)
           b == SyncOf(gc, <<>>, 2, 0)
           c == SyncOf(gc, <<>>, 1, 0)
<1>5. /\ d \in View /\ d.syncs = {} /\ d.in_flight = {} /\ d.stable = stable
      /\ d.frames = <<>>
  <2>1. /\ d.syncs = {} /\ d.in_flight = {} /\ d.stable = stable /\ d.frames = <<>>
    OBVIOUS
  <2>2. stable \in SUBSET Object /\ <<>> \in Seq(Frame)
    BY <1>3 DEF TypeOK
  <2>3. d \in View
    BY Zenon, <2>2 DEF View
  <2> QED BY Zenon, <2>1, <2>3
<1> HIDE DEF d
<1>6. Agreed(new_ledger, d, NoRecords)
  BY Zenon, <1>5, EmptyAgreed
<1>7. /\ Good(new_ledger) /\ queued_up_to(new_ledger) = 0 /\ coverage_tail(new_ledger) = 0
      /\ new_ledger.next_ticket = 0
  BY NewGood DEF new_ledger, queued_up_to, coverage_tail
<1>8. /\ Good(g1) /\ queued_up_to(g1) = 0 /\ coverage_tail(g1) = 0
      /\ Pushed(new_ledger, g1, coverage_tail(new_ledger), "BootBarrier")
      /\ g1.next_ticket = 1
  BY <1>7, BootIs
<1> HIDE DEF g1
<1>9. /\ Good(g2) /\ Pushed(g1, g2, coverage_tail(g1), "BootBarrier") /\ g2.next_ticket = 2
  BY <1>8, BootIs
<1> HIDE DEF g2
<1>10. a.ticket = 1 /\ b.ticket = 2 /\ c.ticket = 1 /\ <<"dir", 0>> \in a.objs
  BY DEF SyncOn, SyncOf
<1>11. /\ a \in Sync /\ b \in Sync /\ c \in Sync
  <2>1. a \in Sync
    BY SyncOnTyped DEF Object
  <2> QED BY Zenon, <1>3, <2>1, SyncTyped
<1> HIDE DEF a, b, c
<1>12. Agreed(gc, Seen, builder) /\ Coming(Seen, <<"dir", 0>>, gc.next_ticket)
  <2>1. CASE ~fresh
    <3>1. gc = g1 /\ Seen.syncs = d.syncs \cup {c} /\ <<"dir", 0>> \in stable
      BY Zenon, <1>1, <1>4, <1>5, <2>1 DEF BootBarriers, g1, c
    <3>2. c.ticket = g1.next_ticket /\ Seen.in_flight = d.in_flight
          /\ Seen.frames = d.frames /\ d.stable \subseteq Seen.stable
      BY <1>2, <1>4, <1>5, <1>8, <1>10
    <3>3. "BootBarrier" \notin {"WriteThrough", "ExtentSeal"}
      OBVIOUS
    <3>4. Agreed(g1, Seen, NoRecords)
      BY Zenon, <1>4, <1>6, <1>8, <3>1, <3>2, <3>3, AgreedPushTail
    <3> QED BY Zenon, <1>2, <1>4, <3>1, <3>4 DEF Coming
  <2>2. CASE fresh
    <3> DEFINE e == WithSync(d, a)
    <3>1. /\ e \in View /\ e.syncs = d.syncs \cup {a} /\ e.in_flight = d.in_flight
          /\ e.stable = d.stable /\ e.frames = d.frames
      BY <1>5, <1>11, WithSyncIs
    <3> HIDE DEF e
    <3>2. "BootBarrier" \notin {"WriteThrough", "ExtentSeal"}
      OBVIOUS
    <3>3. a.ticket = g1.next_ticket /\ d.stable \subseteq e.stable
      BY Zenon, <1>8, <1>10, <3>1
    <3>4. Agreed(g1, e, NoRecords)
      BY <1>6, <1>8, <3>1, <3>2, <3>3, AgreedPushTail
    <3>5. gc = g2 /\ Seen.syncs = e.syncs \cup {b} /\ a \in Seen.syncs
      BY <1>1, <1>4, <1>5, <2>2, <3>1 DEF BootBarriers, g1, g2, a, b
    <3>6. b.ticket = g2.next_ticket /\ Seen.in_flight = e.in_flight
          /\ Seen.frames = e.frames /\ e.stable \subseteq Seen.stable
      BY <1>2, <1>4, <1>5, <1>9, <1>10, <3>1
    <3>7. Agreed(g2, Seen, NoRecords)
      BY <1>4, <1>9, <3>2, <3>4, <3>5, <3>6, AgreedPushTail
    <3>8. a.ticket <= gc.next_ticket
      BY <1>9, <1>10, <3>5
    <3> QED BY <1>2, <1>10, <3>5, <3>7, <3>8 DEF Coming
  <2> QED BY Zenon, <2>1, <2>2
<1>13. /\ rotor.active = 0 /\ rotor.next = NoNext /\ ~rotor.panic
       /\ rotor.prezeroed => ~fresh
  BY <1>1 DEF open_rotor
<1>14. rotor \in Rotor
  BY Zenon, <1>3 DEF TypeOK
<1>15. Segs(gc, Seen, rotor)
  BY <1>2, <1>4, <1>12, <1>13 DEF Segs
<1>16. Rotors(rotor, Seen, zero_fill_ticket, fill_write)
  <2>1. rotor.prezeroed => <<"alloc", rotor.active>> \in stable
    BY <1>1, <1>13
  <2>2. ~ready_prezeroed(rotor)
    BY Zenon, <1>13, NoNextFields DEF ready_prezeroed
  <2>3. rotor.next.state = "None" /\ rotor.next.in_flight = 0
    BY <1>13, NoNextFields
  <2> QED BY <1>2, <1>4, <1>13, <2>1, <2>2, <2>3 DEF Rotors
<1> QED BY <1>12, <1>14, <1>15, <1>16 DEF Alive, Plane

\* No ticket up to the watermark's is in flight any more, so what is secured by then is
\* on the medium.
LEMMA AliveHonest == TypeOK /\ Alive => Honest
<1> SUFFICES ASSUME TypeOK, Alive PROVE Honest
  OBVIOUS
<1> DEFINE d == Seen
<1>1. /\ Good(gc) /\ gc \in Ledger /\ d \in View /\ Cover(gc, d) /\ Tickets(gc, d)
      /\ Referenced(d) /\ rotor \in Rotor /\ Rotors(rotor, d, zero_fill_ticket, fill_write)
      /\ queued_up_to(gc) = Len(d.frames)
  BY Zenon DEF Alive, Plane, Agreed, Claims, Good
<1>2. d.stable = stable /\ d.frames = frames
  BY Zenon, SeenTyped
<1> HIDE DEF d
<1>3. Base(gc) \in Int
  BY <1>1, CoversQueued
<1>4. ASSUME NEW o, Coming(d, o, Base(gc))
      PROVE  o \in stable
  <2>1. ASSUME NEW s \in d.syncs, s.ticket <= Base(gc)
        PROVE  FALSE
    <3>1. s.ticket \in Int /\ Live(gc, s.ticket)
      BY Zenon, <1>1, TicketsTyped DEF Tickets
    <3>2. Base(gc) < s.ticket
      BY Zenon, <1>1, <3>1, LiveBounds
    <3> QED BY Zenon, <1>3, <2>1, <3>1, <3>2, NotBoth
  <2> QED BY <1>2, <1>4, <2>1 DEF Coming
<1>5. ASSUME NEW n, Through(d, n, Base(gc))
      PROVE  <<"alloc", frames[n].seg>> \in stable /\ <<"fua", n>> \in stable
  <2>1. ASSUME NEW f \in d.in_flight, f.ticket # 0, f.ticket <= Base(gc)
        PROVE  FALSE
    <3>1. f.ticket \in Int /\ Live(gc, f.ticket)
      BY Zenon, <1>1, <2>1, TicketsTyped DEF Tickets
    <3>2. Base(gc) < f.ticket
      BY <1>1, <3>1, LiveBounds
    <3> QED BY Zenon, <1>3, <2>1, <3>1, <3>2, NotBoth
  <2> QED BY Zenon, <1>2, <1>5, <2>1 DEF Through
<1>6. ExtentBeforeRecord
  BY Zenon, <1>1, <1>2 DEF Referenced, ExtentBeforeRecord
<1>7. WatermarkHonest
  <2> SUFFICES ASSUME NEW n \in 1..gc.durable_up_to
               PROVE  Survives(n) /\ \A e \in frames[n].exts : <<"ext", e>> \in stable
    BY DEF WatermarkHonest
  <2>1. n \in DOMAIN frames
    BY Zenon, <1>1, <1>2, CoversQueued
  <2>2. Secured(d, n, Base(gc))
    BY Zenon, <1>1 DEF Cover
  <2>3. <<"dir", frames[n].seg>> \in stable
    BY Zenon, <1>2, <1>4, <2>2 DEF Secured
  <2>4. \/ <<"frame", n>> \in stable
        \/ <<"fua", n>> \in stable /\ <<"alloc", frames[n].seg>> \in stable
    BY <1>4, <1>5, <2>2 DEF Secured, Bytes
  <2> QED BY <1>6, <2>1, <2>3, <2>4 DEF Survives, ExtentBeforeRecord
<1>8. NoSliceOverFrames
  <2> SUFFICES ASSUME fill_write # -1
               PROVE  /\ fill_write # rotor.active
                      /\ fill_write = rotor.next.id /\ rotor.next.in_flight = 1
    BY Zenon DEF NoSliceOverFrames
  <2>1. rotor.next.in_flight # 0 /\ fill_write = rotor.next.id
        /\ rotor.next.state = "Filling"
    BY Zenon, <1>1 DEF Rotors
  <2>2. rotor.next # NoNext
    BY Zenon, <2>1, NoNextFields
  <2>3. rotor.next.id = rotor.active + 1
    BY Zenon, <1>1, <2>2 DEF Rotors
  <2>4. rotor.active \in Nat /\ rotor.next.in_flight \in 0..1
    BY Zenon, <1>1, RotorFields DEF Rotor, NextSegment
  <2> QED BY <2>1, <2>3, <2>4
<1>9. ~rotor.panic
  BY <1>1 DEF Rotors
<1> QED BY <1>6, <1>7, <1>8, <1>9 DEF Honest

\* No other step stops the cell, and a stopped cell takes none.
LEMMA StopSteps ==
    ASSUME [Next]_vars
    PROVE  \/ reserve_no_space \/ on_log_error \/ UNCHANGED vars
           \/ ~failed /\ failed' = failed
<1> DEFINE runs == ~failed /\ failed' = failed
<1>1. ASSUME NEW class, stage(class) PROVE runs
  BY <1>1, ZenonT(30) DEF stage, CanStage, StageRecord
<1>2. ASSUME NEW class, write_blob_arrival(class) PROVE runs
  BY <1>2, ZenonT(30) DEF write_blob_arrival, CanStage, RegisterAndStage, StageRecord
<1>3. ASSUME NEW class, write_blob_turn(class) PROVE runs
  BY <1>3, ZenonT(30) DEF write_blob_turn, CanStage, RegisterAndStage, StageRecord
<1>4. CASE drop_turn
  BY <1>4, ZenonT(30) DEF drop_turn
<1>5. CASE on_everysec_tick
  BY <1>5, ZenonT(30) DEF on_everysec_tick
<1>6. ASSUME NEW created, NEW taken, NEW issue, maintain(created, taken, issue) PROVE runs
  BY <1>6, ZenonT(30) DEF maintain
<1>7. CASE truncate
  BY <1>7, ZenonT(30) DEF truncate
<1>8. CASE tier_maintain
  BY <1>8, ZenonT(30) DEF tier_maintain
<1>9. ASSUME NEW len, seal_frame(len) PROVE runs
  BY <1>9, ZenonT(30) DEF seal_frame
<1>10. CASE extent_hold
  BY <1>10, ZenonT(30) DEF extent_hold
<1>11. ASSUME NEW held, seal_nothing(held) PROVE runs
  BY <1>11, ZenonT(30) DEF seal_nothing
<1>12. ASSUME NEW f, on_log_written(f) PROVE runs
  BY <1>12, ZenonT(30) DEF on_log_written
<1>13. ASSUME NEW s, on_fdatasync(s) PROVE runs
  BY <1>13, ZenonT(30) DEF on_fdatasync
<1>14. CASE on_zero_fill_written
  BY <1>14, Zenon DEF on_zero_fill_written
<1> HIDE DEF runs
<1>15. runs \/ reserve_no_space \/ on_log_error \/ UNCHANGED vars
  BY <1>1, <1>2, <1>3, <1>4, <1>5, <1>6, <1>7, <1>8, <1>9, <1>10, <1>11, <1>12, <1>13, <1>14
     DEF Next, Execute, Maintain, seal_log, Reap, runs
<1> QED BY <1>15 DEF runs

\* A step that stops the cell moves neither the watermark nor what it stands for, and a
\* stopped cell takes no step.
LEMMA StopKeepsHonest ==
    ASSUME TypeOK, Honest, [Next]_vars, failed'
    PROVE  Honest'
<1>1. /\ rotor' = rotor /\ frames' = frames /\ stable' = stable /\ fill_write' = fill_write
      /\ gc'.durable_up_to = gc.durable_up_to
  <2>1. CASE reserve_no_space
    BY Zenon, <2>1 DEF reserve_no_space, device
  <2>2. CASE on_log_error
    <3>1. gc \in Ledger
      BY DEF TypeOK
    <3>2. \A t : on_fsync_error(gc, t).durable_up_to = gc.durable_up_to
      BY Zenon, <3>1 DEF on_fsync_error, Asserting, Ledger
    <3> QED BY <2>2, <3>2 DEF on_log_error, device
  <2>3. CASE UNCHANGED vars
    BY Zenon, <2>3 DEF vars, cell, device
  <2>4. CASE ~failed /\ failed' = failed
    BY <2>4
  <2> QED BY Zenon, <2>1, <2>2, <2>3, <2>4, StopSteps
<1> QED BY Zenon, <1>1 DEF Honest, WatermarkHonest, Survives, Truncated, ExtentBeforeRecord,
                    NoSliceOverFrames
================================================================================
