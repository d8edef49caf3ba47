--------------------------- MODULE DurableCellProofs ---------------------------
(***************************************************************************)
(* What holds of one cell's durable plane for every value of its           *)
(* constants: types, the order of the ledger, the order of the ack map,    *)
(* the units behind the blob writers' turns; and the facts about the       *)
(* ledger and the segment rotor, operator by operator, that these and the  *)
(* later proofs rest on.                                                   *)
(***************************************************************************)
EXTENDS CellInvariants, FiniteSetTheorems, WellFoundedInduction, TLAPS

-----------------------------------------------------------------------------
\* A nonempty set of naturals has a least element.
LEMMA LeastNat ==
    ASSUME NEW S \in SUBSET Nat, S # {}
    PROVE  \E m \in S : \A n \in S : m <= n
<1> DEFINE R == OpToRel(<, Nat)
<1>1. IsWellFoundedOn(R, Nat)
  BY Zenon, NatLessThanWellFounded
<1>2. \A n, m \in Nat : n < m => <<n, m>> \in R
  BY DEF OpToRel
<1> HIDE DEF R
<1>3. PICK m \in S : \A n \in S : ~(<<n, m>> \in R)
  BY Zenon, <1>1, WFMin
<1>4. \A n \in S : ~(n < m)
  BY Zenon, <1>2, <1>3
<1>5. \A n \in S : n \in Nat /\ m \in Nat
  OBVIOUS
<1> QED BY <1>4, <1>5

\* The done prefix of a sequence of flags exists: Leading denotes it.
LEMMA LeadingIsPrefix ==
    ASSUME NEW s \in Seq(BOOLEAN)
    PROVE  /\ Leading(s) \in 0..Len(s)
           /\ \A i \in 1..Leading(s) : s[i]
           /\ Leading(s) < Len(s) => ~s[Leading(s) + 1]
<1> DEFINE Stops == {n \in Nat : n <= Len(s) /\ (n < Len(s) => ~s[n + 1])}
<1>1. Len(s) \in Stops
  OBVIOUS
<1>2. PICK m \in Stops : \A n \in Stops : m <= n
  <2> HIDE DEF Stops
  <2>1. Stops \in SUBSET Nat
    BY DEF Stops
  <2> QED BY <1>1, <2>1, LeastNat
<1>3. \A i \in 1..m : s[i]
  <2> SUFFICES ASSUME NEW i \in 1..m, ~s[i] PROVE FALSE
    OBVIOUS
  <2>1. i - 1 \in Stops /\ i - 1 < m
    OBVIOUS
  <2> QED BY <2>1, <1>2
<1>4. m \in 0..Len(s) /\ (m < Len(s) => ~s[m + 1])
  OBVIOUS
<1> QED BY <1>3, <1>4 DEF Leading

-----------------------------------------------------------------------------
\* Every entry of the ledger is a pending sync.
LEMMA PendingTyped ==
    ASSUME NEW g \in Ledger
    PROVE  /\ g.pending \in Seq(PendingFsync)
           /\ \A i \in DOMAIN g.pending : /\ g.pending[i] \in PendingFsync
                                         /\ g.pending[i].covers_up_to \in Nat
<1>1. g.pending \in Seq(PendingFsync)
  BY DEF Ledger
<1>2. \A i \in DOMAIN g.pending : g.pending[i] \in PendingFsync
  BY <1>1
<1> QED BY <1>1, <1>2 DEF PendingFsync

\* The tail of an ordered ledger lies between the watermark and the last frame.
LEMMA TailBounds ==
    ASSUME NEW g \in Ledger, CoverageOrdered(g)
    PROVE  /\ coverage_tail(g) \in Nat
           /\ g.durable_up_to <= coverage_tail(g)
           /\ coverage_tail(g) <= queued_up_to(g)
           /\ \A i \in DOMAIN g.pending : g.pending[i].covers_up_to <= coverage_tail(g)
<1>1. CASE g.pending = <<>>
  BY <1>1 DEF Ledger, CoverageOrdered, coverage_tail, queued_up_to
<1>2. CASE g.pending # <<>>
  <2>1. g.pending \in Seq(PendingFsync)
    BY DEF Ledger
  <2>2. Len(g.pending) \in DOMAIN g.pending
        /\ \A i \in DOMAIN g.pending : i <= Len(g.pending)
    BY <1>2, <2>1
  <2>3. g.pending[Len(g.pending)] \in PendingFsync
    BY <2>1, <2>2
  <2>4. g.pending[Len(g.pending)].covers_up_to \in Nat
    BY <2>3 DEF PendingFsync
  <2>5. coverage_tail(g) = g.pending[Len(g.pending)].covers_up_to
    BY <1>2 DEF coverage_tail
  <2> QED BY <2>2, <2>4, <2>5 DEF CoverageOrdered
<1> QED BY <1>1, <1>2

\* An assertion marks the ledger and changes nothing else.
LEMMA AssertingKeeps ==
    ASSUME NEW g \in Ledger, NEW claim \in BOOLEAN
    PROVE  /\ Asserting(g, claim) \in Ledger
           /\ CoverageOrdered(g) => CoverageOrdered(Asserting(g, claim))
<1> DEFINE h == Asserting(g, claim)
<1>1. h \in Ledger
  BY Zenon DEF Asserting, Ledger
<1>2. h.pending = g.pending /\ h.durable_up_to = g.durable_up_to
      /\ h.queued = g.queued /\ h.written_up_to = g.written_up_to
      /\ h.next_ticket = g.next_ticket
  BY DEF Asserting, Ledger
<1> QED BY <1>1, <1>2 DEF CoverageOrdered, queued_up_to

\* A registered sync is the last entry of the ledger.
LEMMA PushPendingKeeps ==
    ASSUME NEW g \in Ledger, NEW c \in Nat, NEW reason \in SyncReason
    PROVE  /\ push_pending(g, c, reason) \in Ledger
           /\ push_pending(g, c, reason).durable_up_to = g.durable_up_to
           /\ CoverageOrdered(g) /\ coverage_tail(g) <= c /\ c <= queued_up_to(g)
                  => CoverageOrdered(push_pending(g, c, reason))
<1> DEFINE h == push_pending(g, c, reason)
           e == [covers_up_to |-> c, reason |-> reason, done |-> FALSE, failed |-> FALSE]
<1>1. e \in PendingFsync
  BY DEF PendingFsync
<1>2. Append(g.pending, e) \in Seq(PendingFsync)
  BY <1>1 DEF Ledger
<1>3. h \in Ledger
  <2> DEFINE claim == /\ g.pending # <<>> => coverage_tail(g) <= c
                      /\ reason \in {"Linked", "Standalone", "Completion"} =>
                             g.flush_in_flight < flush_bound
                      /\ reason = "WriteThrough" => ~write_through_window_full(g)
             a == Asserting(g, claim)
  <2>1. claim \in BOOLEAN
    OBVIOUS
  <2>2. a \in Ledger /\ a.pending = g.pending
    <3> HIDE DEF claim
    <3> QED BY <2>1, AssertingKeeps DEF Asserting, Ledger
  <2> DEFINE wt == IF reason = "WriteThrough" THEN a.write_through_pending + 1
                   ELSE a.write_through_pending
             fl == IF reason = "WriteThrough" THEN a.flush_in_flight
                   ELSE a.flush_in_flight + 1
             nt == a.next_ticket + 1
             ps == Append(a.pending, e)
  <2>3. h = [a EXCEPT !.write_through_pending = wt, !.flush_in_flight = fl,
                      !.next_ticket = nt, !.pending = ps]
    BY DEF push_pending
  <2> HIDE DEF a
  <2>4. wt \in Int /\ fl \in Int /\ nt \in Nat
    <3>1. a.write_through_pending \in Int /\ a.flush_in_flight \in Int /\ a.next_ticket \in Nat
      BY <2>2 DEF Ledger
    <3> QED BY <3>1
  <2>5. ps \in Seq(PendingFsync)
    BY <1>2, <2>2
  <2> HIDE DEF e, h, wt, fl, nt, ps
  <2> QED BY Zenon, <2>2, <2>3, <2>4, <2>5 DEF Ledger
<1>4. h.pending = Append(g.pending, e) /\ h.durable_up_to = g.durable_up_to
      /\ h.queued = g.queued /\ h.written_up_to = g.written_up_to
      /\ h.next_ticket = g.next_ticket + 1 /\ g.next_ticket \in Nat
  BY DEF push_pending, Asserting, Ledger
<1>5. ASSUME CoverageOrdered(g), coverage_tail(g) <= c, c <= queued_up_to(g)
      PROVE  CoverageOrdered(h)
  <2> HIDE DEF h
  <2>1. \A i \in DOMAIN g.pending : g.pending[i].covers_up_to <= c
                                    /\ g.pending[i].covers_up_to \in Nat
    BY <1>5, TailBounds, PendingTyped
  <2>2. g.durable_up_to <= c /\ g.durable_up_to \in Nat
    <3>1. g.durable_up_to \in Nat
      BY DEF Ledger
    <3> QED BY <3>1, <1>5, TailBounds
  <2>3. DOMAIN h.pending = 1..(Len(g.pending) + 1) /\ DOMAIN g.pending = 1..Len(g.pending)
        /\ Len(g.pending) \in Nat
    BY <1>4 DEF Ledger
  <2>4. \A i \in DOMAIN g.pending : h.pending[i] = g.pending[i]
    BY <1>4 DEF Ledger
  <2>5. h.pending[Len(g.pending) + 1].covers_up_to = c
    BY <1>4 DEF Ledger
  <2>6. queued_up_to(h) = queued_up_to(g)
    BY <1>4 DEF queued_up_to
  <2>7. \A i, j \in DOMAIN h.pending :
           i <= j => h.pending[i].covers_up_to <= h.pending[j].covers_up_to
    <3>1. \A i, j \in DOMAIN g.pending :
              i <= j => g.pending[i].covers_up_to <= g.pending[j].covers_up_to
      BY <1>5 DEF CoverageOrdered
    <3> SUFFICES ASSUME NEW i \in DOMAIN h.pending, NEW j \in DOMAIN h.pending, i <= j
                 PROVE  h.pending[i].covers_up_to <= h.pending[j].covers_up_to
      OBVIOUS
    <3>2. CASE j \in DOMAIN g.pending
      <4>1. i \in DOMAIN g.pending
        BY <2>3, <3>2
      <4> QED BY <2>4, <3>1, <3>2, <4>1
    <3>3. CASE j = Len(g.pending) + 1 /\ i \in DOMAIN g.pending
      BY <2>1, <2>4, <2>5, <3>3
    <3>4. CASE j = Len(g.pending) + 1 /\ i = Len(g.pending) + 1
      BY <2>5, <3>4
    <3> QED BY <2>3, <3>2, <3>3, <3>4
  <2>8. \A i \in DOMAIN h.pending :
           /\ h.durable_up_to <= h.pending[i].covers_up_to
           /\ h.pending[i].covers_up_to <= queued_up_to(h)
    BY <1>4, <1>5, <2>2, <2>3, <2>4, <2>5, <2>6 DEF CoverageOrdered
  <2>9. Len(h.pending) <= h.next_ticket
    <3>1. Len(h.pending) = Len(g.pending) + 1
      BY <1>4 DEF Ledger
    <3> QED BY <1>4, <1>5, <2>3, <3>1 DEF CoverageOrdered
  <2> QED BY <1>4, <1>5, <2>6, <2>7, <2>8, <2>9 DEF CoverageOrdered
<1> QED BY <1>3, <1>4, <1>5

\* The order only depends on the pending syncs, the watermark and the frames.
LEMMA SameLog ==
    ASSUME NEW g \in Ledger, NEW h, CoverageOrdered(g),
           h.pending = g.pending, h.durable_up_to = g.durable_up_to,
           h.next_ticket = g.next_ticket, queued_up_to(h) = queued_up_to(g)
    PROVE  CoverageOrdered(h)
BY DEF CoverageOrdered

\* The ledger starts empty and ordered.
LEMMA NewGood == Good(new_ledger)
<1>1. new_ledger \in Ledger
  BY DEF new_ledger, Ledger
<1> QED BY <1>1 DEF new_ledger, Good, CoverageOrdered, queued_up_to

\* Staging, the tick and the discharge of a due move no watermark.
LEMMA FlagsKeep ==
    ASSUME NEW g, Good(g), NEW class
    PROVE  /\ Good(note_staged(g, class))
           /\ Good(note_everysec_tick(g))
           /\ Good(issue_extent_syncs(g))
           /\ Good(discharge(g))
           /\ Good(settle_due_at_written(g))
           /\ note_staged(g, class).durable_up_to = g.durable_up_to
           /\ note_everysec_tick(g).durable_up_to = g.durable_up_to
           /\ issue_extent_syncs(g).durable_up_to = g.durable_up_to
<1> USE DEF Good
<1>1. Good(note_staged(g, class)) /\ note_staged(g, class).durable_up_to = g.durable_up_to
  <2>1. note_staged(g, class) \in Ledger
    BY Zenon DEF note_staged, Ledger
  <2> QED BY Zenon, <2>1, SameLog DEF note_staged, Ledger, queued_up_to
<1>2. Good(note_everysec_tick(g)) /\ note_everysec_tick(g).durable_up_to = g.durable_up_to
  <2>1. note_everysec_tick(g) \in Ledger
    BY Zenon DEF note_everysec_tick, Ledger
  <2> QED BY Zenon, <2>1, SameLog DEF note_everysec_tick, Ledger, queued_up_to
<1>3. Good(issue_extent_syncs(g)) /\ issue_extent_syncs(g).durable_up_to = g.durable_up_to
  <2>1. issue_extent_syncs(g) \in Ledger
    BY Zenon DEF issue_extent_syncs, Ledger
  <2> QED BY Zenon, <2>1, SameLog DEF issue_extent_syncs, Ledger, queued_up_to
<1>4. Good(discharge(g))
  <2>1. discharge(g) \in Ledger
    BY Zenon DEF discharge, Ledger
  <2> QED BY Zenon, <2>1, SameLog DEF discharge, Ledger, queued_up_to
<1>5. Good(settle_due_at_written(g))
  <2>1. settle_due_at_written(g) \in Ledger
    BY Zenon DEF settle_due_at_written, Ledger
  <2> QED BY Zenon, <2>1, SameLog DEF settle_due_at_written, Ledger, queued_up_to
<1> QED BY <1>1, <1>2, <1>3, <1>4, <1>5

\* A sync registered at the coverage tail, or anywhere above it, keeps the order.
LEMMA PushGood ==
    ASSUME NEW g, Good(g), NEW c \in Nat, NEW reason \in SyncReason,
           coverage_tail(g) <= c, c <= queued_up_to(g)
    PROVE  /\ Good(push_pending(g, c, reason))
           /\ push_pending(g, c, reason).durable_up_to = g.durable_up_to
BY PushPendingKeeps DEF Good

\* The boot barriers, and those of the log directory and the zero fill, cover what
\* the ledger's tail already covers.
LEMMA TailBarriersKeep ==
    ASSUME NEW g, Good(g)
    PROVE  /\ Good(register_prealloc_barrier(g))
           /\ Good(register_zero_fill_barrier(g))
           /\ Good(register_extent(g))
           /\ register_prealloc_barrier(g).durable_up_to = g.durable_up_to
           /\ register_zero_fill_barrier(g).durable_up_to = g.durable_up_to
           /\ register_extent(g).durable_up_to = g.durable_up_to
<1> DEFINE t == coverage_tail(g)
<1>1. t \in Nat /\ t <= queued_up_to(g) /\ t <= t
  BY TailBounds DEF Good
<1>2. /\ "PreallocBarrier" \in SyncReason
      /\ "ZeroFill" \in SyncReason
      /\ "ExtentSeal" \in SyncReason
  BY DEF SyncReason
<1>3. /\ Good(register_prealloc_barrier(g))
      /\ register_prealloc_barrier(g).durable_up_to = g.durable_up_to
  BY <1>1, <1>2, PushGood DEF register_prealloc_barrier
<1>4. /\ Good(register_zero_fill_barrier(g))
      /\ register_zero_fill_barrier(g).durable_up_to = g.durable_up_to
  BY <1>1, <1>2, PushGood DEF register_zero_fill_barrier
<1>5. /\ Good(register_extent(g))
      /\ register_extent(g).durable_up_to = g.durable_up_to
  <2> DEFINE w == g.extent_window + 1
             u == g.extent_unsent + 1
             h == [g EXCEPT !.extent_window = w, !.extent_unsent = u]
  <2>1. h \in Ledger
    <3>1. g.extent_window \in Int /\ g.extent_unsent \in Nat
      BY DEF Good, Ledger
    <3>2. w \in Int /\ u \in Nat
      BY <3>1
    <3> HIDE DEF w, u
    <3> QED BY Zenon, <3>2 DEF Good, Ledger
  <2>2. /\ h.pending = g.pending /\ h.durable_up_to = g.durable_up_to
        /\ h.queued = g.queued /\ h.written_up_to = g.written_up_to
        /\ h.next_ticket = g.next_ticket
    BY DEF Good, Ledger
  <2> HIDE DEF h
  <2>3. queued_up_to(h) = queued_up_to(g) /\ coverage_tail(h) = t
    BY <2>2 DEF queued_up_to, coverage_tail
  <2>4. Good(h)
    BY <2>1, <2>2, <2>3, SameLog DEF Good
  <2>5. register_extent(g) = push_pending(h, t, "ExtentSeal")
    BY DEF register_extent, h
  <2>6. coverage_tail(h) <= t /\ t <= queued_up_to(h)
    BY <1>1, <2>3
  <2> HIDE DEF t
  <2> QED BY <1>1, <1>2, <2>2, <2>4, <2>5, <2>6, PushGood
<1> QED BY <1>3, <1>4, <1>5

\* A fresh or reopened cell's ledger: one or two boot barriers, which cover nothing.
LEMMA BootGood ==
    ASSUME NEW g, Good(g), queued_up_to(g) = 0
    PROVE  /\ Good(register_boot_barrier(g))
           /\ queued_up_to(register_boot_barrier(g)) = 0
           /\ register_boot_barrier(g).durable_up_to = g.durable_up_to
<1> DEFINE h == Asserting(g, queued_up_to(g) = 0 /\ g.durable_up_to = 0)
<1>1. h \in Ledger /\ CoverageOrdered(h)
  BY Zenon, AssertingKeeps DEF Good
<1>2. /\ h.queued = g.queued /\ h.written_up_to = g.written_up_to
      /\ h.durable_up_to = g.durable_up_to
  BY DEF Asserting, Good, Ledger
<1>3. queued_up_to(h) = 0
  BY <1>2 DEF queued_up_to
<1> HIDE DEF h
<1>4. coverage_tail(h) = 0
  BY <1>1, <1>3, TailBounds
<1>5. "BootBarrier" \in SyncReason
  BY DEF SyncReason
<1>6. register_boot_barrier(g) = push_pending(h, 0, "BootBarrier")
  BY DEF register_boot_barrier, h
<1>7. /\ Good(push_pending(h, 0, "BootBarrier"))
      /\ push_pending(h, 0, "BootBarrier").durable_up_to = h.durable_up_to
  BY <1>1, <1>3, <1>4, <1>5, PushGood DEF Good
<1>8. queued_up_to(push_pending(h, 0, "BootBarrier")) = queued_up_to(h)
  BY <1>1 DEF push_pending, Asserting, queued_up_to, Ledger
<1> QED BY <1>2, <1>3, <1>6, <1>7, <1>8

\* A rotation's seal sync covers every frame queued.
LEMMA SealKeeps ==
    ASSUME NEW g, Good(g)
    PROVE  /\ Good(register_seal_fsync(g))
           /\ register_seal_fsync(g).durable_up_to = g.durable_up_to
           /\ queued_up_to(register_seal_fsync(g)) = queued_up_to(g)
<1> DEFINE h == Asserting(g, drained(g))
<1>1. h \in Ledger /\ CoverageOrdered(h)
  BY Zenon, AssertingKeeps DEF Good, drained
<1>2. /\ h.queued = g.queued /\ h.written_up_to = g.written_up_to
      /\ h.durable_up_to = g.durable_up_to
  BY DEF Asserting, Good, Ledger
<1>3. queued_up_to(h) = queued_up_to(g) /\ queued_up_to(g) \in Nat
  BY <1>2 DEF queued_up_to, Good, Ledger
<1> HIDE DEF h
<1>4. coverage_tail(h) <= queued_up_to(h) /\ queued_up_to(h) <= queued_up_to(h)
  BY <1>1, <1>3, TailBounds
<1>5. "Seal" \in SyncReason
  BY DEF SyncReason
<1>6. register_seal_fsync(g) = push_pending(h, queued_up_to(h), "Seal")
  BY <1>3 DEF register_seal_fsync, h
<1>7. /\ Good(push_pending(h, queued_up_to(h), "Seal"))
      /\ push_pending(h, queued_up_to(h), "Seal").durable_up_to = h.durable_up_to
  BY <1>1, <1>3, <1>4, <1>5, PushGood DEF Good
<1>8. queued_up_to(push_pending(h, queued_up_to(h), "Seal")) = queued_up_to(h)
  BY <1>1 DEF push_pending, Asserting, queued_up_to, Ledger
<1> QED BY <1>2, <1>3, <1>6, <1>7, <1>8

\* Queuing a frame moves the end of the log by one.
LEMMA FrameQueuedKeeps ==
    ASSUME NEW g, Good(g)
    PROVE  /\ Good(note_frame_queued(g))
           /\ note_frame_queued(g).durable_up_to = g.durable_up_to
           /\ queued_up_to(note_frame_queued(g)) = queued_up_to(g) + 1
           /\ coverage_tail(note_frame_queued(g)) = coverage_tail(g)
<1> DEFINE claim == frames_unwritten(g) < MAX_FRAMES_IN_FLIGHT /\ ~reorder_window_full(g)
           a == Asserting(g, claim)
           q == Append(g.queued, FALSE)
           up == IF g.always_unqueued THEN queued_up_to(g) + 1 ELSE g.always_queued_up_to
           h == [a EXCEPT !.queued = q, !.always_queued_up_to = up,
                          !.always_unqueued = FALSE, !.everysec_unqueued = FALSE]
<1>1. /\ g \in Ledger /\ g.queued \in Seq(BOOLEAN) /\ g.written_up_to \in Nat
      /\ g.always_queued_up_to \in Nat /\ g.durable_up_to \in Nat
  BY DEF Good, Ledger
<1>2. a \in Ledger
  <2>1. claim \in BOOLEAN
    OBVIOUS
  <2> HIDE DEF claim
  <2> QED BY <1>1, <2>1, AssertingKeeps
<1>3. /\ a.pending = g.pending /\ a.durable_up_to = g.durable_up_to
      /\ a.queued = g.queued /\ a.written_up_to = g.written_up_to
      /\ a.always_queued_up_to = g.always_queued_up_to
      /\ a.next_ticket = g.next_ticket
  BY <1>1 DEF Asserting, Ledger
<1>4. note_frame_queued(g) = h
  <2>1. note_frame_queued(g) = [a EXCEPT !.queued = Append(a.queued, FALSE),
            !.always_queued_up_to =
                IF g.always_unqueued THEN queued_up_to(g) + 1 ELSE a.always_queued_up_to,
            !.always_unqueued = FALSE, !.everysec_unqueued = FALSE]
    BY Zenon DEF note_frame_queued
  <2> HIDE DEF a
  <2> QED BY <1>3, <2>1
<1>5. q \in Seq(BOOLEAN) /\ Len(q) = Len(g.queued) + 1
  BY <1>1
<1>6. up \in Nat /\ queued_up_to(g) \in Nat
  BY <1>1 DEF queued_up_to
<1> HIDE DEF a, q, up
<1>7. h \in Ledger
  BY Zenon, <1>2, <1>5, <1>6 DEF Ledger
<1>8. /\ h.pending = g.pending /\ h.durable_up_to = g.durable_up_to
      /\ h.queued = q /\ h.written_up_to = g.written_up_to
      /\ h.next_ticket = g.next_ticket
  BY <1>2, <1>3 DEF Ledger
<1> HIDE DEF h
<1>9. queued_up_to(h) = queued_up_to(g) + 1
  BY <1>1, <1>5, <1>8 DEF queued_up_to
<1>10. CoverageOrdered(h)
  <2>1. \A i \in DOMAIN g.pending : g.pending[i].covers_up_to \in Nat
    BY <1>1, PendingTyped
  <2> QED BY <1>1, <1>6, <1>8, <1>9, <2>1 DEF Good, CoverageOrdered
<1>11. coverage_tail(h) = coverage_tail(g)
  BY <1>8 DEF coverage_tail
<1> QED BY <1>4, <1>7, <1>8, <1>9, <1>10, <1>11 DEF Good

\* The barrier of the frame just queued covers the whole log.
LEMMA FrameBarriersKeep ==
    ASSUME NEW g, Good(g)
    PROVE  /\ Good(register_linked_fsync(g))
           /\ Good(register_write_through(g))
           /\ register_linked_fsync(g).durable_up_to = g.durable_up_to
           /\ register_write_through(g).durable_up_to = g.durable_up_to
<1>1. ASSUME NEW claim \in BOOLEAN, NEW reason \in SyncReason
      PROVE  LET h == push_pending(discharge(Asserting(g, claim)), queued_up_to(g), reason)
             IN  Good(h) /\ h.durable_up_to = g.durable_up_to
  <2> DEFINE a == Asserting(g, claim)
             d == discharge(a)
  <2>1. Good(a)
    BY AssertingKeeps DEF Good
  <2>2. /\ a.durable_up_to = g.durable_up_to /\ a.queued = g.queued
        /\ a.written_up_to = g.written_up_to
    BY DEF Asserting, Good, Ledger
  <2> HIDE DEF a
  <2>3. Good(d)
    BY <2>1, FlagsKeep
  <2>4. /\ d.durable_up_to = a.durable_up_to /\ d.queued = a.queued
        /\ d.written_up_to = a.written_up_to
    BY <2>1 DEF discharge, Good, Ledger
  <2> HIDE DEF d
  <2>5. queued_up_to(d) = queued_up_to(g) /\ queued_up_to(g) \in Nat
    BY <2>2, <2>4 DEF queued_up_to, Good, Ledger
  <2>6. coverage_tail(d) <= queued_up_to(g) /\ queued_up_to(g) <= queued_up_to(d)
    BY <2>3, <2>5, TailBounds DEF Good
  <2> QED BY <2>2, <2>3, <2>4, <2>5, <2>6, PushGood DEF a, d
<1>2. "Linked" \in SyncReason /\ "WriteThrough" \in SyncReason
  BY DEF SyncReason
<1>3. /\ (~g.always_unqueued /\ g.queued = <<FALSE>>) \in BOOLEAN
      /\ (~g.always_unqueued /\ coverage_tail(g) = queued_up_to(g) - 1) \in BOOLEAN
  OBVIOUS
<1> QED BY Zenon, <1>1, <1>2, <1>3 DEF register_linked_fsync, register_write_through

\* A sync of the written prefix is only registered when something written lies
\* beyond the ledger's coverage.
LEMMA PrefixSyncsKeep ==
    ASSUME NEW g, Good(g), written_uncovered(g)
    PROVE  /\ Good(register_standalone_fsync(g))
           /\ Good(register_completion_fsync(g))
           /\ register_standalone_fsync(g).durable_up_to = g.durable_up_to
           /\ register_completion_fsync(g).durable_up_to = g.durable_up_to
<1> DEFINE h == settle_due_at_written(g)
<1>1. Good(h)
  BY FlagsKeep
<1>2. /\ h.pending = g.pending /\ h.durable_up_to = g.durable_up_to
      /\ h.queued = g.queued /\ h.written_up_to = g.written_up_to
  BY DEF settle_due_at_written, Good, Ledger
<1> HIDE DEF h
<1>3. coverage_tail(h) = coverage_tail(g) /\ queued_up_to(h) = queued_up_to(g)
  BY <1>2 DEF coverage_tail, queued_up_to
<1>4. g.written_up_to \in Nat /\ g.durable_up_to \in Nat /\ g.written_up_to <= queued_up_to(g)
  BY DEF Good, Ledger, queued_up_to
<1>5. coverage_tail(g) <= g.written_up_to
  <2>1. coverage_tail(g) \in Nat
    BY TailBounds DEF Good
  <2> QED BY <1>4, <2>1 DEF written_uncovered, coverage_tail
<1>6. "Standalone" \in SyncReason /\ "Completion" \in SyncReason
  BY DEF SyncReason
<1>7. coverage_tail(h) <= g.written_up_to /\ g.written_up_to <= queued_up_to(h)
  BY <1>3, <1>4, <1>5
<1> QED BY <1>1, <1>2, <1>4, <1>6, <1>7, PushGood
        DEF register_standalone_fsync, register_completion_fsync, h

-----------------------------------------------------------------------------
\* A suffix of a sequence.
LEMMA SuffixFacts ==
    ASSUME NEW T, NEW s \in Seq(T), NEW n \in 0..Len(s)
    PROVE  /\ SubSeq(s, n + 1, Len(s)) \in Seq(T)
           /\ Len(SubSeq(s, n + 1, Len(s))) = Len(s) - n
           /\ \A i \in 1..(Len(s) - n) : SubSeq(s, n + 1, Len(s))[i] = s[n + i]
<1> DEFINE u == SubSeq(s, n + 1, Len(s))
<1>1. Len(s) \in Nat /\ n \in Nat
  OBVIOUS
<1>2. \A i \in (n + 1)..Len(s) : s[i] \in T
  BY <1>1
<1> QED BY <1>1, <1>2

\* A written frame changes no coverage: the written prefix takes what leaves the
\* queue.
LEMMA FrameWrittenKeeps ==
    ASSUME NEW g, Good(g), NEW id \in Int
    PROVE  /\ Good(note_frame_written(g, id))
           /\ note_frame_written(g, id).durable_up_to = g.durable_up_to
<1> DEFINE i == id - g.written_up_to
           marked == [g.queued EXCEPT ![i] = TRUE]
           n == Leading(marked)
           q == SubSeq(marked, n + 1, Len(marked))
           w == g.written_up_to + n
           h == [g EXCEPT !.queued = q, !.written_up_to = w]
<1>1. CASE i \in DOMAIN g.queued /\ ~g.queued[i]
  <2>1. g.queued \in Seq(BOOLEAN) /\ g.written_up_to \in Nat
    BY DEF Good, Ledger
  <2>2. marked \in Seq(BOOLEAN) /\ Len(marked) = Len(g.queued) /\ Len(g.queued) \in Nat
    <3>1. g.queued \in [1..Len(g.queued) -> BOOLEAN] /\ Len(g.queued) \in Nat
      BY <2>1
    <3>2. marked \in [1..Len(g.queued) -> BOOLEAN]
      BY Zenon, <3>1
    <3> HIDE DEF marked
    <3> QED BY <3>1, <3>2
  <2> HIDE DEF marked
  <2>3. n \in 0..Len(marked)
    BY <2>2, LeadingIsPrefix
  <2> HIDE DEF n
  <2>4. q \in Seq(BOOLEAN) /\ Len(q) = Len(g.queued) - n
    BY <2>2, <2>3, SuffixFacts
  <2> HIDE DEF q
  <2>5. w \in Nat /\ w + Len(q) = g.written_up_to + Len(g.queued)
    <3>1. n \in Nat /\ Len(g.queued) \in Nat /\ g.written_up_to \in Nat
      BY <2>1, <2>2, <2>3
    <3>2. Len(q) = Len(g.queued) - n
      BY <2>4
    <3> QED BY <3>1, <3>2
  <2> HIDE DEF q, w
  <2>6. h \in Ledger
    BY Zenon, <2>4, <2>5 DEF Good, Ledger
  <2>7. /\ h.pending = g.pending /\ h.durable_up_to = g.durable_up_to
        /\ h.queued = q /\ h.written_up_to = w /\ h.next_ticket = g.next_ticket
    BY DEF Good, Ledger
  <2>8. note_frame_written(g, id) = h
    BY <1>1 DEF note_frame_written, marked, n, q, w
  <2> HIDE DEF h
  <2>9. queued_up_to(h) = queued_up_to(g)
    BY <2>5, <2>7 DEF queued_up_to
  <2> QED BY <2>6, <2>7, <2>8, <2>9, SameLog DEF Good
<1>2. CASE ~(i \in DOMAIN g.queued /\ ~g.queued[i])
  <2>1. note_frame_written(g, id) = Asserting(g, FALSE)
    BY Zenon, <1>2 DEF note_frame_written
  <2>2. Asserting(g, FALSE).durable_up_to = g.durable_up_to
    BY DEF Asserting, Good, Ledger
  <2> QED BY Zenon, <2>1, <2>2, AssertingKeeps DEF Good
<1> QED BY <1>1, <1>2

\* The done prefix that folds is a prefix of the ledger.
LEMMA FoldedIsPrefix ==
    ASSUME NEW g \in Ledger
    PROVE  folded(g.pending) \in 0..Len(g.pending)
<1> DEFINE flags == [i \in DOMAIN g.pending |-> g.pending[i].done /\ ~g.pending[i].failed]
<1>1. g.pending \in Seq(PendingFsync)
  BY DEF Ledger
<1>2. DOMAIN g.pending = 1..Len(g.pending) /\ Len(g.pending) \in Nat
  BY <1>1
<1>3. flags \in [1..Len(g.pending) -> BOOLEAN]
  <2>1. \A i \in DOMAIN g.pending : (g.pending[i].done /\ ~g.pending[i].failed) \in BOOLEAN
    OBVIOUS
  <2> QED BY <1>2, <2>1, Zenon
<1> HIDE DEF flags
<1>4. flags \in Seq(BOOLEAN) /\ Len(flags) = Len(g.pending)
  BY <1>2, <1>3
<1> QED BY <1>4, LeadingIsPrefix DEF folded, flags

\* Counting entries of a reason gives a number.
LEMMA CountIsNat ==
    ASSUME NEW p, NEW n \in Nat, NEW reason
    PROVE  CountReason(p, n, reason) \in Nat
<1>1. IsFiniteSet(1..n)
  BY FS_Interval
<1>2. {i \in 1..n : p[i].reason = reason} \subseteq 1..n
  OBVIOUS
<1>3. IsFiniteSet({i \in 1..n : p[i].reason = reason})
  BY <1>1, <1>2, FS_Subset
<1> QED BY <1>3, FS_CardinalityType DEF CountReason

\* Folding moves the watermark forward, to where the last folded sync covers.
LEMMA FoldKeeps ==
    ASSUME NEW g, Good(g)
    PROVE  Good(fold_done(g)) /\ g.durable_up_to <= fold_done(g).durable_up_to
<1> DEFINE n == folded(g.pending)
           ps == SubSeq(g.pending, n + 1, Len(g.pending))
           d == IF n = 0 THEN g.durable_up_to ELSE g.pending[n].covers_up_to
           wt == g.write_through_pending - CountReason(g.pending, n, "WriteThrough")
           ew == g.extent_window - CountReason(g.pending, n, "ExtentSeal")
           h == [g EXCEPT !.pending = ps, !.durable_up_to = d,
                          !.write_through_pending = wt, !.extent_window = ew]
<1>1. fold_done(g) = h
  BY DEF fold_done
<1>2. /\ g.pending \in Seq(PendingFsync) /\ g.durable_up_to \in Nat
      /\ g.write_through_pending \in Int /\ g.extent_window \in Int
      /\ queued_up_to(g) \in Nat
  BY DEF Good, Ledger, queued_up_to
<1>3. n \in 0..Len(g.pending)
  BY FoldedIsPrefix DEF Good
<1> HIDE DEF n
<1>4. /\ ps \in Seq(PendingFsync) /\ Len(ps) = Len(g.pending) - n
      /\ \A i \in 1..(Len(g.pending) - n) : ps[i] = g.pending[n + i]
  BY Zenon, <1>2, <1>3, SuffixFacts
<1>5. wt \in Int /\ ew \in Int
  BY <1>2, <1>3, CountIsNat
<1>6. \A i \in DOMAIN g.pending : g.pending[i].covers_up_to \in Nat
  BY PendingTyped DEF Good
<1>7. d \in Nat /\ g.durable_up_to <= d /\ d <= queued_up_to(g)
  BY <1>2, <1>3, <1>6 DEF Good, CoverageOrdered
<1>8. \A i \in (n + 1)..Len(g.pending) : d <= g.pending[i].covers_up_to
  BY <1>2, <1>3, <1>6 DEF Good, CoverageOrdered
<1> HIDE DEF ps, d, wt, ew
<1>9. h \in Ledger
  BY Zenon, <1>4, <1>5, <1>7 DEF Good, Ledger
<1>10. /\ h.pending = ps /\ h.durable_up_to = d
       /\ h.queued = g.queued /\ h.written_up_to = g.written_up_to
       /\ h.next_ticket = g.next_ticket /\ g.next_ticket \in Nat
  BY DEF Good, Ledger
<1> HIDE DEF h
<1>11. queued_up_to(h) = queued_up_to(g)
  BY <1>10 DEF queued_up_to
<1>12. CoverageOrdered(h)
  <2>1. DOMAIN ps = 1..(Len(g.pending) - n)
    BY <1>4
  <2>2. \A i \in DOMAIN ps : n + i \in DOMAIN g.pending /\ n + i \in (n + 1)..Len(g.pending)
    BY <1>2, <1>3, <2>1
  <2>3. \A i, j \in DOMAIN ps : i <= j => ps[i].covers_up_to <= ps[j].covers_up_to
    BY <1>3, <1>4, <2>1, <2>2, SMTT(60) DEF Good, CoverageOrdered
  <2>4. \A i \in DOMAIN ps : d <= ps[i].covers_up_to /\ ps[i].covers_up_to <= queued_up_to(g)
    BY <1>4, <1>8, <2>1, <2>2 DEF Good, CoverageOrdered
  <2>5. Len(ps) <= g.next_ticket
    <3>1. Len(g.pending) \in Nat /\ Len(g.pending) <= g.next_ticket /\ n \in Nat
      BY <1>2, <1>3 DEF Good, CoverageOrdered
    <3> QED BY <1>4, <1>10, <3>1
  <2> QED BY <1>7, <1>10, <1>11, <2>3, <2>4, <2>5 DEF CoverageOrdered
<1> QED BY <1>1, <1>7, <1>9, <1>10, <1>12 DEF Good

\* The order depends on what the entries cover, not on whether they are done.
LEMMA SameCovers ==
    ASSUME NEW g, Good(g), NEW h \in Ledger,
           DOMAIN h.pending = DOMAIN g.pending, Len(h.pending) = Len(g.pending),
           h.next_ticket = g.next_ticket,
           \A j \in DOMAIN g.pending : h.pending[j].covers_up_to = g.pending[j].covers_up_to,
           h.durable_up_to = g.durable_up_to, queued_up_to(h) = queued_up_to(g)
    PROVE  Good(h)
BY DEF Good, CoverageOrdered

\* A completion folds the done prefix; a failure never folds anything.
LEMMA CompletionsKeep ==
    ASSUME NEW g, Good(g), NEW ticket \in Nat
    PROVE  /\ Good(on_fsync_complete(g, ticket))
           /\ g.durable_up_to <= on_fsync_complete(g, ticket).durable_up_to
           /\ Good(on_fsync_error(g, ticket))
           /\ on_fsync_error(g, ticket).durable_up_to = g.durable_up_to
<1> DEFINE i == pending_index(g, ticket)
           f == flush_slot_freed(g, i)
           Marked(e) == [g EXCEPT !.pending = [@ EXCEPT ![i] = e], !.flush_in_flight = f]
<1>1. CASE pending_live(g, i)
  <2>1. /\ i \in DOMAIN g.pending /\ g.pending[i] \in PendingFsync
        /\ g.pending \in Seq(PendingFsync)
    BY <1>1, PendingTyped DEF pending_live, Good
  <2>2. f \in Int
    <3>1. g.flush_in_flight \in Int
      BY DEF Good, Ledger
    <3> QED BY <3>1 DEF flush_slot_freed
  <2> DEFINE done == [g.pending[i] EXCEPT !.done = TRUE]
             lost == [g.pending[i] EXCEPT !.failed = TRUE]
  <2>3. /\ done \in PendingFsync /\ done.covers_up_to = g.pending[i].covers_up_to
        /\ lost \in PendingFsync /\ lost.covers_up_to = g.pending[i].covers_up_to
    BY Zenon, <2>1 DEF PendingFsync
  <2>4. /\ on_fsync_complete(g, ticket) = fold_done(Marked(done))
        /\ on_fsync_error(g, ticket) = Marked(lost)
    BY <1>1 DEF on_fsync_complete, on_fsync_error
  <2> HIDE DEF i, f, done, lost
  <2>5. ASSUME NEW e \in PendingFsync, e.covers_up_to = g.pending[i].covers_up_to
        PROVE  Good(Marked(e)) /\ Marked(e).durable_up_to = g.durable_up_to
    <3> DEFINE ps == [g.pending EXCEPT ![i] = e]
               h == [g EXCEPT !.pending = ps, !.flush_in_flight = f]
    <3>1. g.pending \in [1..Len(g.pending) -> PendingFsync] /\ Len(g.pending) \in Nat
      BY <2>1
    <3>2. ps \in [1..Len(g.pending) -> PendingFsync]
      BY <2>1, <3>1
    <3>3. \A j \in DOMAIN g.pending : ps[j].covers_up_to = g.pending[j].covers_up_to
      BY <2>1, <2>5
    <3> HIDE DEF ps
    <3>4. ps \in Seq(PendingFsync) /\ DOMAIN ps = DOMAIN g.pending /\ Len(ps) = Len(g.pending)
      BY <3>1, <3>2
    <3>5. h \in Ledger
      BY Zenon, <2>2, <3>4 DEF Good, Ledger
    <3>6. /\ h.pending = ps /\ h.durable_up_to = g.durable_up_to
          /\ h.queued = g.queued /\ h.written_up_to = g.written_up_to
          /\ h.next_ticket = g.next_ticket
      BY DEF Good, Ledger
    <3> HIDE DEF h
    <3>7. queued_up_to(h) = queued_up_to(g)
      BY <3>6 DEF queued_up_to
    <3>8. Good(h)
      BY <3>3, <3>4, <3>5, <3>6, <3>7, SameCovers
    <3> QED BY <3>6, <3>8 DEF h, ps
  <2> HIDE DEF Marked
  <2>6. /\ Good(fold_done(Marked(done)))
        /\ Marked(done).durable_up_to <= fold_done(Marked(done)).durable_up_to
    BY <2>3, <2>5, FoldKeeps
  <2> QED BY <2>3, <2>4, <2>5, <2>6
<1>2. CASE ~pending_live(g, i)
  <2>1. /\ on_fsync_complete(g, ticket) = Asserting(g, FALSE)
        /\ on_fsync_error(g, ticket) = Asserting(g, FALSE)
    BY <1>2 DEF on_fsync_complete, on_fsync_error
  <2>2. Asserting(g, FALSE).durable_up_to = g.durable_up_to /\ g.durable_up_to \in Nat
    BY DEF Asserting, Good, Ledger
  <2>3. Good(Asserting(g, FALSE))
    BY Zenon, AssertingKeeps DEF Good
  <2>4. g.durable_up_to <= g.durable_up_to
    BY <2>2
  <2> QED BY <2>1, <2>2, <2>3, <2>4, Zenon
<1> QED BY <1>1, <1>2

-----------------------------------------------------------------------------
\* The extent-seal window is only entered by register_extent, and only left by
\* folding.
LEMMA WindowKept ==
    ASSUME NEW g \in Ledger
    PROVE  /\ \A claim \in BOOLEAN : Asserting(g, claim).extent_window = g.extent_window
           /\ \A c, reason : push_pending(g, c, reason).extent_window = g.extent_window
           /\ \A class : note_staged(g, class).extent_window = g.extent_window
           /\ note_everysec_tick(g).extent_window = g.extent_window
           /\ issue_extent_syncs(g).extent_window = g.extent_window
           /\ discharge(g).extent_window = g.extent_window
           /\ settle_due_at_written(g).extent_window = g.extent_window
           /\ note_frame_queued(g).extent_window = g.extent_window
           /\ \A id : note_frame_written(g, id).extent_window = g.extent_window
           /\ \A t : on_fsync_error(g, t).extent_window = g.extent_window
<1>1. \A claim \in BOOLEAN : Asserting(g, claim).extent_window = g.extent_window
  BY DEF Asserting, Ledger
<1>2. \A c, reason : push_pending(g, c, reason).extent_window = g.extent_window
  BY DEF push_pending, Asserting, Ledger
<1>3. /\ \A class : note_staged(g, class).extent_window = g.extent_window
      /\ note_everysec_tick(g).extent_window = g.extent_window
      /\ issue_extent_syncs(g).extent_window = g.extent_window
      /\ discharge(g).extent_window = g.extent_window
      /\ settle_due_at_written(g).extent_window = g.extent_window
  BY DEF note_staged, note_everysec_tick, issue_extent_syncs, discharge,
         settle_due_at_written, Ledger
<1>4. note_frame_queued(g).extent_window = g.extent_window
  BY DEF note_frame_queued, Asserting, Ledger
<1>5. \A id : note_frame_written(g, id).extent_window = g.extent_window
  BY DEF note_frame_written, Asserting, Ledger
<1>6. \A t : on_fsync_error(g, t).extent_window = g.extent_window
  BY DEF on_fsync_error, Asserting, Ledger
<1> QED BY <1>1, <1>2, <1>3, <1>4, <1>5, <1>6

\* Registering any barrier leaves the window's count alone.
LEMMA PushKeepsWindow ==
    ASSUME NEW g \in Ledger, NEW c, NEW reason
    PROVE  push_pending(g, c, reason).extent_window = g.extent_window
BY DEF push_pending, Asserting, Ledger

\* A completion frees window units, or none.
LEMMA WindowShrinks ==
    ASSUME NEW g \in Ledger, NEW ticket
    PROVE  on_fsync_complete(g, ticket).extent_window <= g.extent_window
<1> DEFINE i == pending_index(g, ticket)
           h == [g EXCEPT !.pending[i].done = TRUE,
                          !.flush_in_flight = flush_slot_freed(g, i)]
           n == folded(h.pending)
           c == CountReason(h.pending, n, "ExtentSeal")
<1>1. CASE pending_live(g, i)
  <2>1. on_fsync_complete(g, ticket) = fold_done(h)
    BY <1>1 DEF on_fsync_complete
  <2>2. h.extent_window = g.extent_window /\ g.extent_window \in Int
    BY DEF Ledger
  <2>3. fold_done(h).extent_window = h.extent_window - c
    <3>1. DOMAIN h = DOMAIN g
      OBVIOUS
    <3>2. "extent_window" \in DOMAIN h
      BY <3>1 DEF Ledger
    <3> HIDE DEF h
    <3> QED BY <3>2 DEF fold_done
  <2>4. n \in Nat
    <3>1. i \in DOMAIN g.pending /\ g.pending \in Seq(PendingFsync)
      BY <1>1, PendingTyped DEF pending_live
    <3>2. h.pending = [g.pending EXCEPT ![i] = [g.pending[i] EXCEPT !.done = TRUE]]
      BY DEF Ledger
    <3>3. DOMAIN h.pending = 1..Len(g.pending) /\ Len(g.pending) \in Nat
      BY <3>1, <3>2
    <3> DEFINE flags == [j \in DOMAIN h.pending |-> h.pending[j].done /\ ~h.pending[j].failed]
    <3>4. flags \in [1..Len(g.pending) -> BOOLEAN]
      <4>1. \A j \in DOMAIN h.pending : (h.pending[j].done /\ ~h.pending[j].failed) \in BOOLEAN
        OBVIOUS
      <4> HIDE DEF h
      <4> QED BY <3>3, <4>1, Zenon
    <3> HIDE DEF flags
    <3>5. flags \in Seq(BOOLEAN)
      BY <3>3, <3>4
    <3>6. Leading(flags) \in Nat
      BY <3>5, LeadingIsPrefix
    <3> QED BY <3>6 DEF folded, flags
  <2> HIDE DEF n
  <2>5. c \in Nat
    BY <2>4, CountIsNat
  <2> HIDE DEF c, h
  <2> QED BY <2>1, <2>2, <2>3, <2>5
<1>2. CASE ~pending_live(g, i)
  <2>1. on_fsync_complete(g, ticket) = Asserting(g, FALSE)
    BY <1>2 DEF on_fsync_complete
  <2>2. Asserting(g, FALSE).extent_window = g.extent_window
    BY DEF Asserting, Ledger
  <2>3. g.extent_window <= g.extent_window
    BY DEF Ledger
  <2> QED BY <2>1, <2>2, <2>3, Zenon
<1> QED BY <1>1, <1>2

-----------------------------------------------------------------------------
\* A sequence with one more element.
LEMMA AppendFacts ==
    ASSUME NEW T, NEW s \in Seq(T), NEW x
    PROVE  /\ Len(s) \in Nat /\ DOMAIN s = 1..Len(s)
           /\ Len(Append(s, x)) = Len(s) + 1
           /\ DOMAIN Append(s, x) = 1..(Len(s) + 1)
           /\ \A i \in 1..Len(s) : Append(s, x)[i] = s[i]
           /\ Append(s, x)[Len(s) + 1] = x
OBVIOUS

\* A push extends the ledger by its last entry.
LEMMA PushIs ==
    ASSUME NEW g \in Ledger, NEW c, NEW reason, reason # "ExtentSeal"
    PROVE  Pushed(g, push_pending(g, c, reason), c, reason)
BY DEF push_pending, Asserting, Ledger, Pushed

\* A ring with one slot more than before is not empty.
LEMMA LongerNotEmpty ==
    ASSUME NEW q, NEW n \in Nat, Len(q) = n + 1
    PROVE  q # <<>>
OBVIOUS

\* The bound on the ack map holds or it does not.
LEMMA BoundedOrNot ==
    ASSUME NEW map, NEW g
    PROVE  ack_map_bounded(map, g) \in BOOLEAN
BY DEF ack_map_bounded

\* No ticket is both above and at most another.
LEMMA NotBoth ==
    ASSUME NEW m \in Int, NEW n \in Int, m <= n, n < m
    PROVE  FALSE
OBVIOUS

\* A completion hands out no ticket.
LEMMA CompletedTicket ==
    ASSUME NEW g \in Ledger, NEW h, NEW i, NEW k, Completed(g, h, i, k)
    PROVE  g.next_ticket <= h.next_ticket
<1>1. g.next_ticket \in Nat /\ h.next_ticket = g.next_ticket
  BY DEF Ledger, Completed
<1> QED BY <1>1

\* Ledgers with the same entries have the same ticket counter.
LEMMA SameTicket ==
    ASSUME NEW g \in Ledger, NEW h, SameEntries(g, h)
    PROVE  g.next_ticket <= h.next_ticket
<1>1. g.next_ticket \in Nat /\ h.next_ticket = g.next_ticket
  BY DEF Ledger, SameEntries
<1> QED BY <1>1

\* A push moves the ticket counter by one.
LEMMA PushedTicket ==
    ASSUME NEW g \in Ledger, NEW h, NEW c, NEW reason, Pushed(g, h, c, reason)
    PROVE  /\ h.next_ticket \in Nat \ {0} /\ h.next_ticket \in Int /\ g.next_ticket \in Int
           /\ g.next_ticket <= h.next_ticket
<1>1. g.next_ticket \in Nat /\ h.next_ticket = g.next_ticket + 1
  BY DEF Ledger, Pushed
<1> QED BY <1>1

\* The entries of a ledger and of its extension.
LEMMA PushedFacts ==
    ASSUME NEW g \in Ledger, NEW h, NEW c, NEW reason, Pushed(g, h, c, reason)
    PROVE  /\ Len(g.pending) \in Nat /\ g.next_ticket \in Nat
           /\ Len(h.pending) = Len(g.pending) + 1
           /\ DOMAIN g.pending = 1..Len(g.pending)
           /\ DOMAIN h.pending = 1..(Len(g.pending) + 1)
           /\ Base(h) = Base(g) /\ Base(g) \in Int
           /\ Base(g) + Len(g.pending) = g.next_ticket
           /\ \A i \in 1..Len(g.pending) : h.pending[i] = g.pending[i]
           /\ h.pending[Len(g.pending) + 1].covers_up_to = c
           /\ h.pending[Len(g.pending) + 1].reason = reason
           /\ ~h.pending[Len(g.pending) + 1].done
           /\ ~h.pending[Len(g.pending) + 1].failed
<1> DEFINE x == [covers_up_to |-> c, reason |-> reason, done |-> FALSE, failed |-> FALSE]
<1>1. g.pending \in Seq(PendingFsync) /\ g.next_ticket \in Nat
  BY DEF Ledger
<1>2. h.pending = Append(g.pending, x) /\ h.next_ticket = g.next_ticket + 1
  BY DEF Pushed
<1>3. x.covers_up_to = c /\ x.reason = reason /\ ~x.done /\ ~x.failed
  OBVIOUS
<1> HIDE DEF x
<1>4. /\ Len(h.pending) = Len(g.pending) + 1 /\ Len(g.pending) \in Nat
      /\ DOMAIN g.pending = 1..Len(g.pending)
      /\ DOMAIN h.pending = 1..(Len(g.pending) + 1)
      /\ \A i \in 1..Len(g.pending) : h.pending[i] = g.pending[i]
      /\ h.pending[Len(g.pending) + 1] = x
  BY <1>1, <1>2
<1> QED BY <1>1, <1>2, <1>3, <1>4 DEF Base

\* What the registrations of the cell add to the ledger.
LEMMA Registrations ==
    ASSUME NEW g, Good(g)
    PROVE  /\ Pushed(g, register_prealloc_barrier(g), coverage_tail(g), "PreallocBarrier")
           /\ Pushed(g, register_zero_fill_barrier(g), coverage_tail(g), "ZeroFill")
           /\ Pushed(g, register_extent(g), coverage_tail(g), "ExtentSeal")
           /\ Pushed(g, register_seal_fsync(g), queued_up_to(g), "Seal")
           /\ Pushed(g, register_linked_fsync(g), queued_up_to(g), "Linked")
           /\ Pushed(g, register_write_through(g), queued_up_to(g), "WriteThrough")
           /\ Pushed(g, register_standalone_fsync(g), g.written_up_to, "Standalone")
           /\ Pushed(g, register_completion_fsync(g), g.written_up_to, "Completion")
<1>1. g \in Ledger
  BY DEF Good
<1>2. /\ Pushed(g, register_prealloc_barrier(g), coverage_tail(g), "PreallocBarrier")
      /\ Pushed(g, register_zero_fill_barrier(g), coverage_tail(g), "ZeroFill")
  BY Zenon, <1>1, PushIs DEF register_prealloc_barrier, register_zero_fill_barrier
<1>3. Pushed(g, register_extent(g), coverage_tail(g), "ExtentSeal")
  BY <1>1 DEF register_extent, push_pending, Asserting, Ledger, Pushed
<1>4. ASSUME NEW h \in Ledger, SameEntries(g, h), h.extent_unsent = g.extent_unsent,
             NEW c, NEW reason, reason # "ExtentSeal"
      PROVE  Pushed(g, push_pending(h, c, reason), c, reason)
  <2>1. Pushed(h, push_pending(h, c, reason), c, reason)
    BY <1>4, PushIs
  <2> QED BY <1>4, <2>1 DEF Pushed, SameEntries
<1>5. ASSUME NEW claim \in BOOLEAN
      PROVE  /\ Asserting(g, claim) \in Ledger
             /\ SameEntries(g, Asserting(g, claim))
             /\ Asserting(g, claim).extent_unsent = g.extent_unsent
  BY <1>1, <1>5, AssertingKeeps DEF Asserting, Ledger, SameEntries
<1>6. ASSUME NEW h, Good(h)
      PROVE  /\ discharge(h) \in Ledger /\ settle_due_at_written(h) \in Ledger
             /\ SameEntries(h, discharge(h)) /\ SameEntries(h, settle_due_at_written(h))
             /\ discharge(h).extent_unsent = h.extent_unsent
             /\ settle_due_at_written(h).extent_unsent = h.extent_unsent
  <2>1. discharge(h) \in Ledger /\ settle_due_at_written(h) \in Ledger
    BY Zenon, <1>6, FlagsKeep DEF Good
  <2> QED BY <1>6, <2>1 DEF discharge, settle_due_at_written, Good, Ledger, SameEntries
<1>7. Pushed(g, register_seal_fsync(g), queued_up_to(g), "Seal")
  BY Zenon, <1>4, <1>5 DEF register_seal_fsync, drained
<1>8. ASSUME NEW claim \in BOOLEAN, NEW reason, reason # "ExtentSeal"
      PROVE  Pushed(g, push_pending(discharge(Asserting(g, claim)), queued_up_to(g), reason),
                    queued_up_to(g), reason)
  <2> DEFINE a == Asserting(g, claim)
  <2>1. Good(a)
    BY <1>1, AssertingKeeps DEF Good
  <2>2. SameEntries(g, a) /\ a.extent_unsent = g.extent_unsent
    BY <1>5
  <2> HIDE DEF a
  <2>3. /\ discharge(a) \in Ledger /\ SameEntries(g, discharge(a))
        /\ discharge(a).extent_unsent = g.extent_unsent
    BY Zenon, <1>6, <2>1, <2>2 DEF SameEntries
  <2> QED BY Zenon, <1>4, <1>8, <2>3 DEF a
<1>9. /\ Pushed(g, register_linked_fsync(g), queued_up_to(g), "Linked")
      /\ Pushed(g, register_write_through(g), queued_up_to(g), "WriteThrough")
  <2>1. /\ (~g.always_unqueued /\ g.queued = <<FALSE>>) \in BOOLEAN
        /\ (~g.always_unqueued /\ coverage_tail(g) = queued_up_to(g) - 1) \in BOOLEAN
    OBVIOUS
  <2> QED BY Zenon, <1>8, <2>1 DEF register_linked_fsync, register_write_through
<1>10. /\ Pushed(g, register_standalone_fsync(g), g.written_up_to, "Standalone")
       /\ Pushed(g, register_completion_fsync(g), g.written_up_to, "Completion")
  BY Zenon, <1>4, <1>6 DEF register_standalone_fsync, register_completion_fsync
<1> QED BY <1>2, <1>3, <1>7, <1>9, <1>10

\* A completion marks one entry and drops the done prefix.
LEMMA CompletionIs ==
    ASSUME NEW g, Good(g), NEW ticket \in Nat, pending_live(g, pending_index(g, ticket))
    PROVE  \E k \in 0..Len(g.pending) :
               Completed(g, on_fsync_complete(g, ticket), pending_index(g, ticket), k)
<1> DEFINE i == pending_index(g, ticket)
           fl == flush_slot_freed(g, i)
           ps == [g.pending EXCEPT ![i] = [g.pending[i] EXCEPT !.done = TRUE]]
           m == [g EXCEPT !.pending = ps, !.flush_in_flight = fl]
           k == folded(ps)
           flags == [j \in DOMAIN ps |-> ps[j].done /\ ~ps[j].failed]
<1>1. /\ i \in DOMAIN g.pending /\ g.pending \in Seq(PendingFsync)
      /\ ~g.pending[i].done /\ ~g.pending[i].failed
  BY PendingTyped DEF pending_live, Good
<1>2. on_fsync_complete(g, ticket) = fold_done(m)
  BY DEF on_fsync_complete
<1>3. /\ Len(g.pending) \in Nat /\ DOMAIN g.pending = 1..Len(g.pending)
      /\ DOMAIN ps = 1..Len(g.pending)
      /\ \A j \in 1..Len(g.pending) : g.pending[j] \in PendingFsync
  BY <1>1
<1>4. \A j \in 1..Len(g.pending) :
         /\ ps[j] \in PendingFsync
         /\ ps[j].covers_up_to = g.pending[j].covers_up_to
         /\ ps[j].reason = g.pending[j].reason
         /\ ps[j].failed <=> g.pending[j].failed
         /\ ps[j].done <=> (g.pending[j].done \/ j = i)
  BY Zenon, <1>1, <1>3 DEF PendingFsync
<1> HIDE DEF i, fl, ps
<1>5. /\ m.pending = ps /\ m.durable_up_to = g.durable_up_to
      /\ m.next_ticket = g.next_ticket /\ m.queued = g.queued
      /\ m.written_up_to = g.written_up_to /\ m.extent_unsent = g.extent_unsent
      /\ DOMAIN m = DOMAIN g
  BY DEF Good, Ledger
<1> HIDE DEF m
<1>6. ps \in Seq(PendingFsync) /\ Len(ps) = Len(g.pending)
  <2>1. ps \in [1..Len(g.pending) -> PendingFsync]
    BY Zenon, <1>3, <1>4 DEF ps
  <2> QED BY <1>3, <2>1
<1>7. flags \in Seq(BOOLEAN) /\ Len(flags) = Len(g.pending)
  <2>1. \A j \in DOMAIN ps : (ps[j].done /\ ~ps[j].failed) \in BOOLEAN
    OBVIOUS
  <2>2. flags \in [1..Len(g.pending) -> BOOLEAN]
    BY <1>3, <2>1, Zenon
  <2> HIDE DEF flags
  <2> QED BY <1>3, <2>2
<1>8. /\ k \in 0..Len(g.pending)
      /\ \A j \in 1..k : flags[j]
      /\ k < Len(g.pending) => ~flags[k + 1]
  <2> HIDE DEF flags
  <2>1. k = Leading(flags)
    BY DEF folded, flags
  <2> QED BY <1>7, <2>1, LeadingIsPrefix
<1>9. /\ \A j \in 1..k : ps[j].done
      /\ k < Len(g.pending) => ~ps[k + 1].done \/ ps[k + 1].failed
  <2>1. \A j \in DOMAIN ps : flags[j] = (ps[j].done /\ ~ps[j].failed)
    BY Zenon
  <2> HIDE DEF k, flags
  <2>2. /\ \A j \in 1..k : j \in DOMAIN ps
        /\ k < Len(g.pending) => k + 1 \in DOMAIN ps
    BY <1>3, <1>8
  <2> QED BY Zenon, <1>8, <2>1, <2>2
<1> DEFINE h == fold_done(m)
<1>10. /\ h.pending = SubSeq(ps, k + 1, Len(ps))
       /\ h.durable_up_to = IF k = 0 THEN g.durable_up_to ELSE ps[k].covers_up_to
       /\ h.next_ticket = g.next_ticket /\ h.queued = g.queued
       /\ h.written_up_to = g.written_up_to /\ h.extent_unsent = g.extent_unsent
  <2>1. DOMAIN m = DOMAIN g /\ "pending" \in DOMAIN m /\ "durable_up_to" \in DOMAIN m
        /\ "write_through_pending" \in DOMAIN m /\ "extent_window" \in DOMAIN m
    BY <1>5 DEF Good, Ledger
  <2> DEFINE wt == m.write_through_pending - CountReason(m.pending, k, "WriteThrough")
             ew == m.extent_window - CountReason(m.pending, k, "ExtentSeal")
             du == IF k = 0 THEN m.durable_up_to ELSE m.pending[k].covers_up_to
             sq == SubSeq(m.pending, k + 1, Len(m.pending))
  <2>2. h = [m EXCEPT !.pending = sq, !.durable_up_to = du,
                      !.write_through_pending = wt, !.extent_window = ew]
    BY <1>5 DEF fold_done
  <2> HIDE DEF h, wt, ew, k
  <2>3. /\ h.pending = sq /\ h.durable_up_to = du
        /\ h.next_ticket = m.next_ticket /\ h.queued = m.queued
        /\ h.written_up_to = m.written_up_to /\ h.extent_unsent = m.extent_unsent
    <3> HIDE DEF sq, du
    <3> QED BY <2>1, <2>2
  <2> QED BY <1>5, <2>3
<1> HIDE DEF h, k, flags
<1>11. /\ h.pending \in Seq(PendingFsync) /\ Len(h.pending) = Len(g.pending) - k
       /\ \A j \in 1..(Len(g.pending) - k) : h.pending[j] = ps[k + j]
  <2> DEFINE u == SubSeq(ps, k + 1, Len(ps))
  <2>1. k \in 0..Len(ps)
    BY Zenon, <1>6, <1>8
  <2>2. /\ u \in Seq(PendingFsync) /\ Len(u) = Len(ps) - k
        /\ \A j \in 1..(Len(ps) - k) : u[j] = ps[k + j]
    BY Zenon, <1>6, <2>1, SuffixFacts
  <2>3. h.pending = u
    BY Zenon, <1>10
  <2> QED BY Zenon, <1>6, <2>2, <2>3
<1>12. DOMAIN h.pending = 1..(Len(g.pending) - k)
  BY <1>11
<1>13. \A j \in 1..(Len(g.pending) - k) : k + j \in 1..Len(g.pending)
  BY <1>3, <1>8
<1>14. \A j \in 1..k : j \in 1..Len(g.pending)
  BY <1>3, <1>8
<1>15. h.pending # <<>> => ~h.pending[1].done \/ h.pending[1].failed
  <2> SUFFICES ASSUME h.pending # <<>> PROVE ~h.pending[1].done \/ h.pending[1].failed
    OBVIOUS
  <2>1. Len(g.pending) - k > 0
    BY <1>3, <1>8, <1>11
  <2>2. 1 \in 1..(Len(g.pending) - k) /\ k < Len(g.pending)
    BY <1>3, <1>8, <2>1
  <2>3. h.pending[1] = ps[k + 1]
    BY <1>11, <2>2
  <2> QED BY <1>9, <2>2, <2>3
<1>16. h.durable_up_to = IF k = 0 THEN g.durable_up_to ELSE g.pending[k].covers_up_to
  <2>1. k # 0 => k \in 1..Len(g.pending)
    BY <1>8, <1>3
  <2> QED BY <1>4, <1>10, <2>1
<1>17. /\ \A j \in 1..(Len(g.pending) - k) :
             /\ h.pending[j].covers_up_to = g.pending[k + j].covers_up_to
             /\ h.pending[j].reason = g.pending[k + j].reason
             /\ h.pending[j].failed <=> g.pending[k + j].failed
             /\ h.pending[j].done <=> (g.pending[k + j].done \/ k + j = i)
       /\ \A j \in 1..k : g.pending[j].done \/ j = i
  <2>1. ASSUME NEW j \in 1..(Len(g.pending) - k)
        PROVE  /\ h.pending[j].covers_up_to = g.pending[k + j].covers_up_to
               /\ h.pending[j].reason = g.pending[k + j].reason
               /\ h.pending[j].failed <=> g.pending[k + j].failed
               /\ h.pending[j].done <=> (g.pending[k + j].done \/ k + j = i)
    <3>1. h.pending[j] = ps[k + j] /\ k + j \in 1..Len(g.pending)
      BY Zenon, <1>11, <1>13
    <3> QED BY <1>4, <3>1
  <2>2. \A j \in 1..k : g.pending[j].done \/ j = i
    BY Zenon, <1>4, <1>9, <1>14
  <2> QED BY Zenon, <2>1, <2>2
<1>18. Completed(g, h, i, k)
  BY Zenon, <1>10, <1>11, <1>12, <1>15, <1>16, <1>17 DEF Completed
<1> QED BY <1>2, <1>8, <1>18 DEF h, i

-----------------------------------------------------------------------------
\* A written frame lets the prefix advance.
LEMMA WrittenIs ==
    ASSUME NEW g \in Ledger, NEW id \in Int, id - g.written_up_to \in DOMAIN g.queued,
           ~g.queued[id - g.written_up_to]
    PROVE  \E n \in 0..Len(g.queued) :
               Written(g, note_frame_written(g, id), id - g.written_up_to, n)
<1> DEFINE i == id - g.written_up_to
           marked == [g.queued EXCEPT ![i] = TRUE]
           n == Leading(marked)
           q == SubSeq(marked, n + 1, Len(marked))
           w == g.written_up_to + n
           h == [g EXCEPT !.queued = q, !.written_up_to = w]
<1>1. g.queued \in Seq(BOOLEAN) /\ g.written_up_to \in Nat
  BY DEF Ledger
<1>2. DOMAIN g.queued = 1..Len(g.queued) /\ Len(g.queued) \in Nat
  BY <1>1
<1>3. marked \in Seq(BOOLEAN) /\ Len(marked) = Len(g.queued) /\ DOMAIN marked = 1..Len(g.queued)
  <2>1. g.queued \in [1..Len(g.queued) -> BOOLEAN]
    BY <1>1
  <2>2. marked \in [1..Len(g.queued) -> BOOLEAN]
    BY <2>1
  <2> HIDE DEF marked
  <2> QED BY <1>2, <2>2
<1>4. \A j \in 1..Len(g.queued) : marked[j] <=> (g.queued[j] \/ j = i)
  BY <1>2
<1>5. note_frame_written(g, id) = h
  BY Zenon DEF note_frame_written
<1> HIDE DEF marked, i
<1>6. /\ n \in 0..Len(g.queued)
      /\ \A j \in 1..n : marked[j]
      /\ n < Len(g.queued) => ~marked[n + 1]
  BY <1>3, LeadingIsPrefix
<1> HIDE DEF n
<1>7. /\ q \in Seq(BOOLEAN) /\ Len(q) = Len(g.queued) - n
      /\ \A j \in 1..(Len(g.queued) - n) : q[j] = marked[n + j]
  BY <1>3, <1>6, SuffixFacts
<1> HIDE DEF q, w
<1>8. /\ h.queued = q /\ h.written_up_to = w /\ h.pending = g.pending
      /\ h.next_ticket = g.next_ticket /\ h.durable_up_to = g.durable_up_to
      /\ h.extent_unsent = g.extent_unsent
  BY DEF Ledger
<1> HIDE DEF h
<1>9. DOMAIN q = 1..(Len(g.queued) - n)
  BY <1>7
<1>10. \A j \in 1..(Len(g.queued) - n) : n + j \in 1..Len(g.queued)
  BY <1>2, <1>6
<1>11. \A j \in 1..(Len(g.queued) - n) : q[j] <=> (g.queued[n + j] \/ n + j = i)
  BY <1>4, <1>7, <1>10
<1>12. \A j \in 1..n : g.queued[j] \/ j = i
  <2>1. \A j \in 1..n : j \in 1..Len(g.queued)
    BY <1>2, <1>6
  <2> QED BY <1>4, <1>6, <2>1
<1>13. q # <<>> => ~q[1]
  <2> SUFFICES ASSUME q # <<>> PROVE ~q[1]
    OBVIOUS
  <2>1. 1 \in 1..(Len(g.queued) - n) /\ n < Len(g.queued)
    BY <1>2, <1>6, <1>7
  <2> QED BY <1>6, <1>7, <2>1
<1>14. Written(g, h, i, n)
  BY <1>7, <1>8, <1>9, <1>11, <1>12, <1>13 DEF Written, w
<1> QED BY <1>5, <1>6, <1>14 DEF i

-----------------------------------------------------------------------------
\* The fields of a rotor, for the steps that need a few of them.
LEMMA RotorFields ==
    ASSUME NEW r \in Rotor
    PROVE  /\ r.active \in Nat /\ r.written \in Nat /\ r.prezeroed \in BOOLEAN
           /\ r.next \in NextSegment /\ r.prealloc \in Prealloc
           /\ r.sealed \in Seq([id : Nat, prezeroed : BOOLEAN])
           /\ r.pool \in Seq(Nat)
           /\ r.next.cursor \in Nat /\ r.next.id \in Nat
           /\ r.prealloc.fill_origin \in Nat
BY DEF Rotor, NextSegment, Prealloc

\* Replacing the next segment keeps the type.
LEMMA WithNext ==
    ASSUME NEW r \in Rotor, NEW n \in NextSegment
    PROVE  [r EXCEPT !.next = n] \in Rotor
BY Zenon DEF Rotor

\* There is a value for "no next segment".
LEMMA NoNextTyped == NoNext \in NextSegment /\ Immediate \in Prealloc
BY DEF NoNext, NextSegment, NextState, Immediate, Prealloc

\* A rotor opens with its type.
LEMMA OpenTyped ==
    ASSUME NEW id \in Nat, NEW w \in Nat, NEW mode \in {"Buffered", "Direct"},
           NEW z \in BOOLEAN
    PROVE  open_rotor(id, w, mode, z) \in Rotor
<1>1. (mode = "Direct" /\ z) \in BOOLEAN
  OBVIOUS
<1>2. <<>> \in Seq([id : Nat, prezeroed : BOOLEAN]) /\ <<>> \in Seq(Nat)
  OBVIOUS
<1> QED BY Zenon, <1>1, <1>2, NoNextTyped DEF open_rotor, Rotor

\* The zero fill keeps the type.
LEMMA FillTyped ==
    ASSUME NEW r \in Rotor
    PROVE  /\ next_zero_slice(r) \in Rotor
           /\ note_zero_slice_written(r) \in Rotor
           /\ take_zero_fill_barrier(r) \in Rotor
           /\ note_zero_fill_synced(r) \in Rotor
<1>1. [r EXCEPT !.panic = TRUE] \in Rotor
  BY Zenon DEF Rotor
<1>2. next_zero_slice(r) \in Rotor
  <2>1. [r.next EXCEPT !.in_flight = 1] \in NextSegment
    <3> DEFINE one == 1
    <3>1. one \in 0..1
      OBVIOUS
    <3> HIDE DEF one
    <3>2. [r.next EXCEPT !.in_flight = one] \in NextSegment
      BY Zenon, <3>1, RotorFields DEF NextSegment
    <3> QED BY <3>2 DEF one
  <2> QED BY <2>1, WithNext DEF next_zero_slice
<1>3. take_zero_fill_barrier(r) \in Rotor
  <2>1. [r.next EXCEPT !.state = "BarrierInFlight"] \in NextSegment
    BY Zenon, RotorFields DEF NextSegment, NextState
  <2> QED BY <2>1, WithNext DEF take_zero_fill_barrier
<1>4. note_zero_fill_synced(r) \in Rotor
  <2>1. [[r.next EXCEPT !.state = "Ready"] EXCEPT !.prezeroed = TRUE] \in NextSegment
    BY Zenon, RotorFields DEF NextSegment, NextState
  <2>2. [r EXCEPT !.next.state = "Ready", !.next.prezeroed = TRUE] \in Rotor
    BY Zenon, <2>1 DEF Rotor
  <2> QED BY <1>1, <2>2 DEF note_zero_fill_synced
<1>5. note_zero_slice_written(r) \in Rotor
  <2> DEFINE c == r.next.cursor + 1
             s == IF r.next.cursor + 1 = SEGMENT_BLOCKS THEN "AwaitBarrier" ELSE "Filling"
             zero == 0
             n == [r.next EXCEPT !.cursor = c, !.in_flight = zero, !.state = s]
  <2>1. c \in Nat /\ s \in NextState /\ zero \in 0..1
    BY RotorFields DEF NextState
  <2>2. [r EXCEPT !.next.cursor = @ + 1, !.next.in_flight = 0, !.next.state = s]
            = [r EXCEPT !.next = n]
    BY Zenon DEF Rotor, NextSegment
  <2> HIDE DEF c, s, zero
  <2>3. n \in NextSegment
    BY Zenon, <2>1, RotorFields DEF NextSegment
  <2>4. [r EXCEPT !.next = n] \in Rotor
    <3> HIDE DEF n
    <3> QED BY <2>3, WithNext
  <2> QED BY <1>1, <2>2, <2>4 DEF note_zero_slice_written, s
<1> QED BY <1>2, <1>3, <1>4, <1>5

\* A segment MAINTAIN or the inline prealloc makes has the type of a next segment.
LEMMA NextStateTyped ==
    ASSUME NEW id \in Nat, NEW allocated \in BOOLEAN, NEW origin \in Nat
    PROVE  next_state(id, allocated, origin) \in NextSegment
<1> DEFINE zero == 0
           none == -1
           st == IF io_mode = "Buffered" \/ allocated THEN "Ready" ELSE "Filling"
           pz == io_mode = "Direct" /\ allocated
<1>1. zero \in 0..1 /\ zero \in Nat /\ none \in Int
  OBVIOUS
<1>2. st \in NextState
  BY DEF NextState
<1>3. pz \in BOOLEAN
  OBVIOUS
<1>4. next_state(id, allocated, origin) =
        [id |-> id, cursor |-> zero, in_flight |-> zero, fill_origin |-> origin,
         fill |-> none, state |-> st, prezeroed |-> pz]
  BY DEF next_state
<1> HIDE DEF zero, none, st, pz
<1> QED BY <1>1, <1>2, <1>3, <1>4 DEF NextSegment

\* A rotation keeps the type and goes to the next segment.
LEMMA RotateTyped ==
    ASSUME NEW r \in Rotor
    PROVE  rotate_deferred(r) \in Rotor /\ rotate_deferred(r).active \in Nat
<1> DEFINE n == IF r.next = NoNext THEN next_state(r.active + 1, FALSE, 0) ELSE r.next
           e == [id |-> r.active, prezeroed |-> r.prezeroed]
           ss == Append(r.sealed, e)
           zero == 0
           pz == n.state = "Ready" /\ n.prezeroed
<1>1. n \in NextSegment
  <2>1. r.active + 1 \in Nat /\ 0 \in Nat /\ FALSE \in BOOLEAN
    BY RotorFields
  <2>2. next_state(r.active + 1, FALSE, 0) \in NextSegment
    BY Zenon, <2>1, NextStateTyped
  <2> QED BY Zenon, <2>2, RotorFields
<1>2. n.id \in Nat
  <2> HIDE DEF n
  <2> QED BY <1>1 DEF NextSegment
<1>3. ss \in Seq([id : Nat, prezeroed : BOOLEAN])
  <2>1. e \in [id : Nat, prezeroed : BOOLEAN]
    BY RotorFields
  <2> HIDE DEF e
  <2> QED BY <2>1, RotorFields
<1>4. zero \in Nat /\ pz \in BOOLEAN /\ io_mode \in {"Buffered", "Direct"}
  <2> HIDE DEF n
  <2> QED BY RotorConstants
<1>5. rotate_deferred(r) =
        [r EXCEPT !.active = n.id, !.written = zero, !.mode = io_mode,
                  !.prezeroed = pz, !.next = NoNext, !.sealed = ss,
                  !.prealloc = Immediate]
  BY DEF rotate_deferred, rotate_onto
<1> HIDE DEF n, ss, zero, pz
<1>6. rotate_deferred(r) \in Rotor
  BY Zenon, <1>2, <1>3, <1>4, <1>5, NoNextTyped DEF Rotor
<1> QED BY <1>6, RotorFields

\* A queued frame moves the cursor.
LEMMA CommitTyped ==
    ASSUME NEW r \in Rotor
    PROVE  commit_frame_queued(r) \in Rotor
<1> DEFINE w == r.written + 1
<1>1. w \in Nat
  BY RotorFields
<1>2. commit_frame_queued(r) = [r EXCEPT !.written = w]
  BY DEF commit_frame_queued
<1> HIDE DEF w
<1> QED BY Zenon, <1>1, <1>2 DEF Rotor

\* A rotor whose preallocation gives the turn to the fresh path.
LEMMA FallBackTyped ==
    ASSUME NEW r \in Rotor
    PROVE  fall_back(r) \in Rotor
<1> DEFINE p == CASE waiting(r) -> FreshFallback(r.written)
                  [] r.prealloc.kind = "Immediate" -> FreshFallback(0)
                  [] OTHER -> r.prealloc
<1>1. FreshFallback(r.written) \in Prealloc /\ FreshFallback(0) \in Prealloc
  BY RotorFields DEF FreshFallback, Prealloc
<1>2. p \in Prealloc
  BY <1>1, RotorFields
<1>3. fall_back(r) = [r EXCEPT !.prealloc = p]
  BY DEF fall_back
<1> HIDE DEF p
<1> QED BY <1>2, <1>3 DEF Rotor

\* The source of the next segment leaves a rotor, and a recycled file its old id.
LEMMA SourceTyped ==
    ASSUME NEW r \in Rotor, NEW take_ok \in BOOLEAN
    PROVE  /\ prealloc_source(r, take_ok).rotor \in Rotor
           /\ prealloc_source(r, take_ok).source \in {"Wait", "Fresh", "Recycled"}
           /\ prealloc_source(r, take_ok).old \in Int
<1> DEFINE popped == [r EXCEPT !.pool = Tail(@)]
           taken == [popped EXCEPT !.prealloc = IF waiting(r) THEN Immediate ELSE @]
           waits == [r EXCEPT !.prealloc.kind = "WaitingForRecycle"]
           none == -1
<1>1. ASSUME recycling, r.pool # <<>>
      PROVE  popped \in Rotor /\ taken \in Rotor /\ Head(r.pool) \in Int
  <2>1. Tail(r.pool) \in Seq(Nat) /\ Head(r.pool) \in Nat
    BY <1>1, RotorFields
  <2>2. popped \in Rotor
    BY Zenon, <2>1 DEF Rotor
  <2> HIDE DEF popped
  <2>3. taken \in Rotor
    BY Zenon, <2>2, NoNextTyped DEF Rotor
  <2> QED BY <2>1, <2>2, <2>3
<1>2. waits \in Rotor
  <2>1. [r.prealloc EXCEPT !.kind = "WaitingForRecycle"] \in Prealloc
    BY RotorFields DEF Prealloc
  <2> QED BY Zenon, <2>1 DEF Rotor
<1>3. none \in Int
  OBVIOUS
<1>4. \/ /\ recycling /\ r.pool # <<>>
         /\ \/ prealloc_source(r, take_ok) = Source(taken, "Recycled", Head(r.pool))
            \/ prealloc_source(r, take_ok) = Source(fall_back(popped), "Fresh", none)
      \/ prealloc_source(r, take_ok) = Source(r, "Wait", none)
      \/ prealloc_source(r, take_ok) = Source(waits, "Wait", none)
      \/ prealloc_source(r, take_ok) = Source(fall_back(r), "Fresh", none)
  BY Zenon DEF prealloc_source
<1> HIDE DEF popped, taken, waits, none
<1>5. \A x, y, z : /\ Source(x, y, z).rotor = x
                   /\ Source(x, y, z).source = y
                   /\ Source(x, y, z).old = z
  BY DEF Source
<1> QED BY <1>1, <1>2, <1>3, <1>4, <1>5, FallBackTyped

\* What MAINTAIN leaves, whether or not the segment could be created.
LEMMA MaintainTyped ==
    ASSUME NEW s, s.rotor \in Rotor, s.old \in Int, NEW allocated \in BOOLEAN
    PROVE  /\ maintain_ok(s, allocated) \in Rotor
           /\ maintain_no_space(s) \in Rotor
<1> DEFINE origin == IF s.rotor.prealloc.kind = "FreshFallback"
                     THEN s.rotor.prealloc.fill_origin ELSE 0
           next == next_state(s.rotor.active + 1, allocated, origin)
           c == SEGMENT_BLOCKS - 1
           stamped == [next EXCEPT !.state = "Filling", !.cursor = c, !.fill = s.old]
<1>1. origin \in Nat /\ s.rotor.active + 1 \in Nat /\ c \in Nat
  BY RotorFields, RotorConstants
<1> HIDE DEF origin
<1>2. next \in NextSegment
  BY <1>1, NextStateTyped
<1> HIDE DEF next, c
<1>3. stamped \in NextSegment
  BY Zenon, <1>1, <1>2 DEF NextSegment, NextState
<1>4. sourced_next(s, allocated) = stamped \/ sourced_next(s, allocated) = next
  BY DEF sourced_next, origin, next, c
<1>5. sourced_next(s, allocated) \in NextSegment
  <2> HIDE DEF stamped
  <2> QED BY <1>2, <1>3, <1>4
<1>6. maintain_ok(s, allocated) \in Rotor
  BY Zenon, <1>5 DEF maintain_ok, Rotor
<1>7. maintain_no_space(s) \in Rotor
  BY Zenon DEF maintain_no_space, Rotor
<1> QED BY <1>6, <1>7

\* Truncation keeps the type.
LEMMA ForgetTyped ==
    ASSUME NEW r \in Rotor, r.sealed # <<>>
    PROVE  forget_sealed(r) \in Rotor
<1>1. /\ Tail(r.sealed) \in Seq([id : Nat, prezeroed : BOOLEAN])
      /\ Head(r.sealed) \in [id : Nat, prezeroed : BOOLEAN]
  <2> DEFINE Meta == [id : Nat, prezeroed : BOOLEAN]
             q == r.sealed
  <2>1. q \in Seq(Meta) /\ q # <<>>
    BY RotorFields
  <2> HIDE DEF Meta, q
  <2>2. Tail(q) \in Seq(Meta) /\ Head(q) \in Meta
    BY <2>1
  <2> QED BY <2>2 DEF Meta, q
<1>2. Append(r.pool, Head(r.sealed).id) \in Seq(Nat)
  BY <1>1, RotorFields
<1> QED BY Zenon, <1>1, <1>2 DEF forget_sealed, Rotor

-----------------------------------------------------------------------------
\* A rotation goes to the next segment, pre-zeroed if that one was ready.
LEMMA RotateIs ==
    ASSUME NEW r \in Rotor
    PROVE  Rotated(r, rotate_deferred(r))
<1> DEFINE fresh == next_state(r.active + 1, FALSE, 0)
           n == IF r.next = NoNext THEN fresh ELSE r.next
<1>1. fresh.id = r.active + 1 /\ ~(fresh.state = "Ready" /\ fresh.prezeroed)
  BY Zenon DEF next_state
<1>2. NoNext.state = "None"
  BY DEF NoNext
<1>3. rotate_deferred(r) = rotate_onto(r, n)
  BY DEF rotate_deferred
<1> HIDE DEF fresh
<1>4. /\ n.id = IF r.next = NoNext THEN r.active + 1 ELSE r.next.id
      /\ (n.state = "Ready" /\ n.prezeroed) <=> ready_prezeroed(r)
  BY <1>1, <1>2 DEF ready_prezeroed
<1> HIDE DEF n
<1>5. /\ rotate_onto(r, n).active = n.id /\ rotate_onto(r, n).mode = io_mode
      /\ rotate_onto(r, n).prezeroed <=> (n.state = "Ready" /\ n.prezeroed)
      /\ rotate_onto(r, n).next = NoNext
      /\ rotate_onto(r, n).panic <=> r.panic
  BY Zenon DEF rotate_onto, Rotor
<1> QED BY <1>3, <1>4, <1>5 DEF Rotated

-----------------------------------------------------------------------------
\* A barrier that the plan chose for the frame just queued.
LEMMA BarrierKeeps ==
    ASSUME NEW g, Good(g), NEW plan \in {"WriteThrough", "LinkedFsync", "Plain"}
    PROVE  /\ Good(register_barrier(g, plan))
           /\ register_barrier(g, plan).durable_up_to = g.durable_up_to
<1>1. CASE plan = "WriteThrough"
  BY <1>1, FrameBarriersKeep DEF register_barrier
<1>2. CASE plan = "LinkedFsync"
  BY <1>2, FrameBarriersKeep DEF register_barrier
<1>3. CASE plan = "Plain"
  BY <1>3 DEF register_barrier
<1> QED BY <1>1, <1>2, <1>3

\* The plan is one of four.
LEMMA PlanRange ==
    ASSUME NEW g, NEW ok, NEW ahead
    PROVE  frame_plan(g, ok, ahead) \in {"WriteThrough", "LinkedFsync", "Plain", "Wait"}
BY Zenon DEF frame_plan

\* The device's syncs have their type.
LEMMA SyncTyped ==
    ASSUME NEW g \in Ledger, NEW fs, NEW t \in Nat, NEW seg
    PROVE  SyncOf(g, fs, t, seg) \in Sync
<1> DEFINE objs == {<<"frame", n>> : n \in FramesOf(fs, seg) \cap WrittenFrames(g)}
<1>1. WrittenFrames(g) \subseteq Nat
  <2>1. g.written_up_to \in Nat /\ DOMAIN g.queued \subseteq Nat
    BY DEF Ledger
  <2> QED BY <2>1 DEF WrittenFrames
<1>2. objs \in SUBSET Object
  BY <1>1 DEF Object
<1> HIDE DEF objs
<1>3. SyncOf(g, fs, t, seg) = [ticket |-> t, after |-> 0, objs |-> objs]
  BY DEF SyncOf, objs
<1> QED BY <1>2, <1>3 DEF Sync

\* A sync on one object, and one chained to a frame.
LEMMA SyncOnTyped ==
    ASSUME NEW t \in Nat, NEW obj \in Object
    PROVE  SyncOn(t, obj) \in Sync
BY DEF SyncOn, Sync

\* A linked fsync also waits for its frame's write.
LEMMA LinkedTyped ==
    ASSUME NEW g \in Ledger, NEW fs, NEW t \in Nat, NEW n \in Nat
    PROVE  LinkedSync(g, fs, t, n) \in Sync
<1> DEFINE s == SyncOf(g, fs, t, fs[n].seg)
           objs == s.objs \cup {<<"frame", n>>}
<1>1. s \in Sync
  BY SyncTyped
<1>2. LinkedSync(g, fs, t, n) = [s EXCEPT !.objs = objs, !.after = n]
  BY DEF LinkedSync
<1> HIDE DEF s
<1>3. objs \in SUBSET Object
  BY <1>1 DEF Sync, Object
<1> HIDE DEF objs
<1> QED BY <1>1, <1>2, <1>3, ZenonT(30) DEF Sync

-----------------------------------------------------------------------------
\* Reserving the frame's place, with the seal of the old segment on a rotation.
LEMMA BeginFrameKeeps ==
    ASSUME Good(gc), NEW ok \in BOOLEAN, NEW len
    PROVE  /\ Good(begin_frame(ok, len).gc)
           /\ begin_frame(ok, len).gc.durable_up_to = gc.durable_up_to
<1> DEFINE r == IF rotation_due(rotor) THEN rotate_deferred(rotor) ELSE rotor
           claim == ok = (len = "small" /\ r.mode = "Direct" /\ r.prezeroed)
           g == Asserting(gc, claim)
<1>1. claim \in BOOLEAN
  OBVIOUS
<1>2. begin_frame(ok, len).gc = IF rotation_due(rotor) THEN register_seal_fsync(g) ELSE g
  BY DEF begin_frame
<1> HIDE DEF claim
<1>3. Good(g) /\ g.durable_up_to = gc.durable_up_to
  <2>1. Good(g)
    BY <1>1, AssertingKeeps DEF Good
  <2>2. g.durable_up_to = gc.durable_up_to
    BY DEF Asserting, Good, Ledger
  <2> QED BY <2>1, <2>2
<1> HIDE DEF g
<1> QED BY <1>2, <1>3, SealKeeps

\* A completed sync: the fold, and perhaps a deferred sync of the written prefix.
LEMMA SyncedKeeps ==
    ASSUME NEW g, Good(g), NEW map, NEW ticket \in Nat, NEW rest,
           on_synced(g, map, ticket, rest)
    PROVE  Good(gc') /\ g.durable_up_to <= gc'.durable_up_to
<1> DEFINE g1 == on_fsync_complete(g, ticket)
           g2 == IF completion_fsync_due(g1) THEN register_completion_fsync(g1) ELSE g1
<1>1. Good(g1) /\ g.durable_up_to <= g1.durable_up_to
  BY Zenon, CompletionsKeep
<1>2. gc' = g2
  BY DEF on_synced
<1> HIDE DEF g1
<1>3. Good(g2) /\ g2.durable_up_to = g1.durable_up_to
  BY <1>1, PrefixSyncsKeep DEF completion_fsync_due
<1> QED BY <1>1, <1>2, <1>3

-----------------------------------------------------------------------------
\* Every step keeps the ledger's order and never moves the watermark back.
LEMMA LedgerStep ==
    ASSUME LedgerInv, [Next]_vars
    PROVE  Good(gc') /\ gc.durable_up_to <= gc'.durable_up_to
<1> USE DEF LedgerInv, Sync
<1>0. gc.durable_up_to \in Nat /\ gc.durable_up_to <= gc.durable_up_to
  BY DEF Good, Ledger
<1>1. CASE UNCHANGED gc
  BY Zenon, <1>0, <1>1
<1>2. ASSUME NEW class \in Classes, stage(class)
      PROVE  Good(gc') /\ gc.durable_up_to <= gc'.durable_up_to
  BY <1>0, <1>2, FlagsKeep DEF stage, StageRecord
<1>3. ASSUME NEW class \in Classes, RegisterAndStage(class)
      PROVE  Good(gc') /\ gc.durable_up_to <= gc'.durable_up_to
  <2>1. Good(register_extent(gc)) /\ register_extent(gc).durable_up_to = gc.durable_up_to
    BY TailBarriersKeep
  <2>2. gc' = note_staged(register_extent(gc), class)
    BY <1>3 DEF RegisterAndStage, StageRecord
  <2> QED BY <1>0, <2>1, <2>2, FlagsKeep
<1>4. ASSUME NEW class \in Classes, write_blob_arrival(class) \/ write_blob_turn(class)
      PROVE  Good(gc') /\ gc.durable_up_to <= gc'.durable_up_to
  BY Zenon, <1>1, <1>3, <1>4 DEF write_blob_arrival, write_blob_turn
<1>5. CASE drop_turn \/ truncate
  BY <1>1, <1>5 DEF drop_turn, truncate
<1>6. CASE on_everysec_tick
  BY <1>0, <1>6, FlagsKeep DEF on_everysec_tick
<1>7. CASE tier_maintain
  BY <1>0, <1>7, FlagsKeep DEF tier_maintain
<1>8. ASSUME NEW created \in BOOLEAN, NEW taken \in PoolTake,
             NEW issue \in BOOLEAN, maintain(created, taken, issue)
      PROVE  Good(gc') /\ gc.durable_up_to <= gc'.durable_up_to
  <2> DEFINE s == prealloc_source(rotor, taken # "failed")
             named == /\ rotor.next = NoNext /\ s.source # "Wait"
                      /\ created \/ s.source = "Recycled"
             g1 == IF named THEN register_prealloc_barrier(gc) ELSE gc
  <2>1. Good(g1) /\ g1.durable_up_to = gc.durable_up_to
    BY TailBarriersKeep, SMTT(30)
  <2>2. gc' = register_zero_fill_barrier(g1) \/ gc' = g1
    BY <1>8, ZenonT(30) DEF maintain
  <2> HIDE DEF g1
  <2> QED BY <1>0, <2>1, <2>2, TailBarriersKeep
<1>9. ASSUME NEW len \in FrameLens, seal_frame(len)
      PROVE  Good(gc') /\ gc.durable_up_to <= gc'.durable_up_to
  <2> DEFINE rotate == rotation_due(rotor)
             wt_ok == next_frame_write_through_ok(rotor, len)
             plan == frame_plan(gc, wt_ok, rotate)
             begun == begin_frame(wt_ok, len)
             queued == note_frame_queued(begun.gc)
  <2>1. wt_ok \in BOOLEAN
    BY DEF next_frame_write_through_ok
  <2>2. plan \in {"WriteThrough", "LinkedFsync", "Plain"}
    <3>1. plan # "Wait"
      BY Zenon, <1>9 DEF seal_frame, seal_ready
    <3>2. plan \in {"WriteThrough", "LinkedFsync", "Plain", "Wait"}
      BY PlanRange
    <3> QED BY <3>1, <3>2
  <2>3. gc' = register_barrier(queued, plan)
    BY Zenon, <1>9 DEF seal_frame
  <2> HIDE DEF wt_ok, plan
  <2>4. Good(begun.gc) /\ begun.gc.durable_up_to = gc.durable_up_to
    BY <2>1, BeginFrameKeeps
  <2> HIDE DEF begun
  <2>5. Good(queued) /\ queued.durable_up_to = gc.durable_up_to
    BY <2>4, FrameQueuedKeeps
  <2> HIDE DEF queued
  <2> QED BY <1>0, <2>2, <2>3, <2>5, BarrierKeeps
<1>10. CASE extent_hold
  BY <1>1, <1>10 DEF extent_hold
<1>11. CASE reserve_no_space
  BY <1>1, <1>11 DEF reserve_no_space
<1>12. ASSUME NEW held \in BOOLEAN, seal_nothing(held)
       PROVE  Good(gc') /\ gc.durable_up_to <= gc'.durable_up_to
  <2>1. CASE standalone_fsync_due(gc) /\ ~held
    <3>1. gc' = register_standalone_fsync(gc) /\ written_uncovered(gc)
      BY <1>12, <2>1 DEF seal_nothing, standalone_fsync_due
    <3> QED BY <1>0, <3>1, PrefixSyncsKeep
  <2>2. CASE ~(standalone_fsync_due(gc) /\ ~held)
    BY <1>1, <1>12, <2>2 DEF seal_nothing
  <2> QED BY <2>1, <2>2
<1>13. ASSUME NEW f \in in_flight, on_log_written(f)
       PROVE  Good(gc') /\ gc.durable_up_to <= gc'.durable_up_to
  <2> DEFINE g == note_frame_written(gc, f.id)
             map == coalesce_ack_map(frame_seqs, g)
             claim == ack_map_bounded(map, g)
             g1 == Asserting(g, claim)
  <2>1. f.id \in Int /\ f.ticket \in Nat
    OBVIOUS
  <2>2. Good(g) /\ g.durable_up_to = gc.durable_up_to
    BY <2>1, FrameWrittenKeeps
  <2>3. claim \in BOOLEAN
    BY DEF ack_map_bounded
  <2>4. IF f.ticket # 0 THEN on_synced(g1, map, f.ticket, syncs) ELSE gc' = g1
    BY <1>13 DEF on_log_written
  <2> HIDE DEF g, claim
  <2>5. Good(g1) /\ g1.durable_up_to = gc.durable_up_to
    <3>1. g1.durable_up_to = g.durable_up_to
      BY <2>2 DEF Asserting, Good, Ledger
    <3>2. Good(g1)
      BY <2>2, <2>3, AssertingKeeps DEF Good
    <3> QED BY <2>2, <3>1, <3>2
  <2> HIDE DEF g1, map
  <2> QED BY <1>0, <2>1, <2>4, <2>5, SyncedKeeps
<1>14. ASSUME NEW s \in syncs, on_fdatasync(s)
       PROVE  Good(gc') /\ gc.durable_up_to <= gc'.durable_up_to
  <2>1. s.ticket \in Nat /\ on_synced(gc, frame_seqs, s.ticket, syncs \ {s})
    BY <1>14 DEF on_fdatasync
  <2> QED BY <2>1, SyncedKeeps
<1>15. CASE on_zero_fill_written
  BY <1>1, <1>15 DEF on_zero_fill_written
<1>16. CASE on_log_error
  <2>1. gc' = gc \/ \E s \in syncs : gc' = on_fsync_error(gc, s.ticket)
    BY <1>16 DEF on_log_error
  <2>2. \A s \in syncs : s.ticket \in Nat
    OBVIOUS
  <2> QED BY <1>0, <2>1, <2>2, CompletionsKeep, ZenonT(30)
<1>17. CASE UNCHANGED vars
  BY <1>1, <1>17 DEF vars, cell
<1>18. SpaceOutcomes \subseteq BOOLEAN
  BY CellConstants
<1> QED BY SMTT(30), <1>2, <1>4, <1>5, <1>6, <1>7, <1>8, <1>9, <1>10, <1>11, <1>12, <1>13, <1>14,
           <1>15, <1>16, <1>17, <1>18
        DEF Next, Execute, Maintain, seal_log, Reap

-----------------------------------------------------------------------------
\* The empty ledger with its boot barriers.
LEMMA BootBarriersGood ==
    ASSUME NEW fresh \in BOOLEAN
    PROVE  Good(BootBarriers(fresh))
<1>1. Good(new_ledger) /\ queued_up_to(new_ledger) = 0
  BY NewGood DEF new_ledger, queued_up_to
<1>2. /\ Good(register_boot_barrier(new_ledger))
      /\ queued_up_to(register_boot_barrier(new_ledger)) = 0
  BY <1>1, BootGood
<1>3. Good(register_boot_barrier(register_boot_barrier(new_ledger)))
  BY <1>2, BootGood
<1> QED BY Zenon, <1>2, <1>3 DEF BootBarriers

\* A fresh or reopened cell has its type and an ordered ledger.
LEMMA InitTyped == Init => TypeOK /\ CoverageInOrder
<1> SUFFICES ASSUME Init PROVE TypeOK /\ CoverageInOrder
  OBVIOUS
<1>1. PICK fresh \in BOOLEAN, mode \in {io_mode, "Buffered"}, zeroed \in BOOLEAN :
        /\ rotor = open_rotor(0, IF fresh THEN 0 ELSE SEGMENT_BLOCKS - 1, mode, zeroed)
        /\ gc = BootBarriers(fresh)
        /\ stable = IF fresh THEN {}
                    ELSE {<<"dir", 0>>} \cup (IF rotor.prezeroed THEN {<<"alloc", 0>>} ELSE {})
        /\ syncs = IF fresh THEN {SyncOn(1, <<"dir", 0>>), SyncOf(gc, <<>>, 2, 0)}
                   ELSE {SyncOf(gc, <<>>, 1, 0)}
  BY ZenonT(30) DEF Init
<1>2. Good(gc)
  BY <1>1, BootBarriersGood
<1>3. rotor \in Rotor
  <2> DEFINE w == IF fresh THEN 0 ELSE SEGMENT_BLOCKS - 1
  <2>1. w \in Nat /\ mode \in {"Buffered", "Direct"} /\ 0 \in Nat
    BY RotorConstants
  <2> HIDE DEF w
  <2>2. open_rotor(0, w, mode, zeroed) \in Rotor
    BY <2>1, OpenTyped
  <2> QED BY <1>1, <2>2 DEF w
<1>4. stable \subseteq Object
  BY <1>1 DEF Object
<1>5. syncs \subseteq Sync
  <2>1. SyncOn(1, <<"dir", 0>>) \in Sync
    BY SyncOnTyped DEF Object
  <2>2. SyncOf(gc, <<>>, 2, 0) \in Sync /\ SyncOf(gc, <<>>, 1, 0) \in Sync
    BY <1>2, SyncTyped DEF Good
  <2> QED BY <1>1, <2>1, <2>2
<1>6. waiters \in W!Queue
  BY DEF Init, W!new_queue, W!Queue
<1>7. builder \in [records : 0..STAGING_RECORDS, exts : SUBSET Nat]
  <2>1. 0 \in 0..STAGING_RECORDS
    BY CellConstants
  <2> QED BY <2>1 DEF Init, NoRecords
<1>8. /\ last_seq \in 0..MaxSeq /\ acked_seq \in 0..MaxSeq /\ promised \in 0..MaxSeq
      /\ fill_write \in Nat \cup {-1} /\ zero_fill_ticket \in Nat
  BY CellConstants DEF Init
<1>9. /\ frame_seqs = {} /\ in_flight = {} /\ failed = FALSE /\ frames = <<>>
  BY DEF Init
<1>10. frames \in Seq(Frame)
  BY <1>9
<1> QED BY <1>2, <1>3, <1>4, <1>5, <1>6, <1>7, <1>8, <1>9, <1>10, ZenonT(30)
        DEF TypeOK, CoverageInOrder, Good, Sync

-----------------------------------------------------------------------------
\* A nonempty set of sequence numbers has a largest one.
LEMMA MaxOfSeqs ==
    ASSUME NEW S, S \subseteq 0..MaxSeq, S # {}
    PROVE  Max(S) \in S /\ \A x \in S : x <= Max(S)
<1>1. MaxSeq \in Nat
  BY CellConstants
<1> DEFINE T == {MaxSeq - x : x \in S}
<1>2. T \in SUBSET Nat /\ T # {}
  <2>1. \A x \in S : MaxSeq - x \in Nat
    BY <1>1
  <2> QED BY <2>1, ZenonT(30)
<1>3. PICK m \in T : \A n \in T : m <= n
  <2> HIDE DEF T
  <2> QED BY <1>2, LeastNat
<1>4. PICK y \in S : m = MaxSeq - y
  OBVIOUS
<1>5. \A x \in S : y >= x
  <2> SUFFICES ASSUME NEW x \in S PROVE y >= x
    OBVIOUS
  <2>1. MaxSeq - y <= MaxSeq - x
    BY <1>3, <1>4
  <2> QED BY <1>1, <2>1
<1>6. Max(S) \in S /\ \A x \in S : Max(S) >= x
  BY <1>4, <1>5, ZenonT(30) DEF Max
<1>7. \A x \in S : x \in Int
  BY <1>1
<1> QED BY <1>6, <1>7

\* The smaller and the larger of two numbers.
LEMMA MinMaxOfTwo ==
    ASSUME NEW a \in Int, NEW b \in Int
    PROVE  /\ W!Max({a, b}) = IF a >= b THEN a ELSE b
           /\ W!Min({a, b}) = IF a <= b THEN a ELSE b
<1>1. W!Max({a, b}) = IF a >= b THEN a ELSE b
  <2> DEFINE m == IF a >= b THEN a ELSE b
  <2>1. m \in {a, b} /\ \A y \in {a, b} : m >= y
    OBVIOUS
  <2>2. \A x \in {a, b} : (\A y \in {a, b} : x >= y) => x = m
    OBVIOUS
  <2> HIDE DEF m
  <2> QED BY <2>1, <2>2 DEF W!Max
<1>2. W!Min({a, b}) = IF a <= b THEN a ELSE b
  <2> DEFINE m == IF a <= b THEN a ELSE b
  <2>1. m \in {a, b} /\ \A y \in {a, b} : m <= y
    OBVIOUS
  <2>2. \A x \in {a, b} : (\A y \in {a, b} : x <= y) => x = m
    OBVIOUS
  <2> HIDE DEF m
  <2> QED BY <2>1, <2>2 DEF W!Min
<1> QED BY <1>1, <1>2

\* Handing out turns moves writers from the wait list, as many as the window has
\* units for.
LEMMA HandOutFacts ==
    ASSUME NEW q \in W!Queue, NEW len \in Int
    PROVE  LET h == W!hand_out(q, len)
           IN  /\ h \in W!Queue
               /\ h.refused = q.refused
               /\ q.turns_out <= h.turns_out
               /\ \/ h.turns_out = q.turns_out
                  \/ len + h.turns_out <= EXTENT_SEAL_WINDOW_ENTRIES
<1> DEFINE room == EXTENT_SEAL_WINDOW_ENTRIES - len - q.turns_out
           n == W!Min({W!Max({room, 0}), q.parked})
           p == q.parked - n
           t == q.turns_out + n
           o == [q EXCEPT !.open = TRUE]
           h == [o EXCEPT !.parked = p, !.turns_out = t]
<1>1. q.parked \in Nat /\ q.turns_out \in Int
  BY DEF W!Queue
<1>2. room \in Int
  BY <1>1, LedgerConstants
<1>3. n \in Nat /\ n <= q.parked /\ (n # 0 => n <= room)
  <2> HIDE DEF room
  <2>1. W!Max({room, 0}) = IF room >= 0 THEN room ELSE 0
    BY <1>2, MinMaxOfTwo
  <2>2. W!Max({room, 0}) \in Nat
    BY <1>2, <2>1
  <2> DEFINE mx == W!Max({room, 0})
  <2> HIDE DEF mx
  <2>3. W!Min({mx, q.parked}) = IF mx <= q.parked THEN mx ELSE q.parked
    <3>1. mx \in Int /\ q.parked \in Int
      BY <1>1, <2>2 DEF mx
    <3> QED BY <3>1, MinMaxOfTwo, ZenonT(30)
  <2> QED BY <1>1, <1>2, <2>1, <2>2, <2>3 DEF mx
<1>4. o \in W!Queue /\ o.parked = q.parked /\ o.turns_out = q.turns_out /\ o.refused = q.refused
  BY ZenonT(30) DEF W!Queue
<1>5. W!hand_out(q, len) = h
  BY <1>4 DEF W!hand_out, W!wake
<1> HIDE DEF n, o
<1>6. p \in Nat /\ t \in Int /\ q.turns_out <= t
      /\ (t = q.turns_out \/ len + t <= EXTENT_SEAL_WINDOW_ENTRIES)
  BY <1>1, <1>3, LedgerConstants
<1> HIDE DEF p, t
<1>7. h \in W!Queue /\ h.turns_out = t /\ h.refused = q.refused
  BY <1>4, <1>6, Zenon DEF W!Queue
<1> HIDE DEF h
<1> QED BY <1>5, <1>6, <1>7

\* Types are kept by every step.

-----------------------------------------------------------------------------
\* Staging a record, whatever ledger it stages on.
LEMMA StageTyped ==
    ASSUME TypeOK, would_fit, last_seq < MaxSeq, NEW g, NEW class \in Classes,
           NEW exts \in SUBSET Nat, StageRecord(g, class, exts),
           gc' \in Ledger, waiters' \in W!Queue
    PROVE  TypeOK'
<1> DEFINE n == builder.records + 1
           b == [records |-> n, exts |-> builder.exts \cup exts]
<1>1. builder.records \in 0..STAGING_RECORDS /\ builder.exts \in SUBSET Nat
  BY DEF TypeOK
<1>2. n \in 0..STAGING_RECORDS
  BY <1>1, CellConstants DEF would_fit
<1>3. builder' \in [records : 0..STAGING_RECORDS, exts : SUBSET Nat]
  <2>1. builder' = b
    BY DEF StageRecord
  <2> HIDE DEF n
  <2> QED BY <1>1, <1>2, <2>1, Zenon
<1>4. last_seq' \in 0..MaxSeq /\ promised' \in 0..MaxSeq
  BY CellConstants DEF StageRecord, TypeOK
<1> QED BY <1>3, <1>4 DEF TypeOK, StageRecord, device

\* The ack step of a completed sync.
LEMMA SyncedTyped ==
    ASSUME TypeOK, NEW g, NEW map \in SUBSET frame_seqs, NEW ticket, NEW rest,
           rest \subseteq Sync, on_synced(g, map, ticket, rest), gc' \in Ledger,
           on_fsync_complete(g, ticket) \in Ledger
    PROVE  /\ acked_seq' \in 0..MaxSeq
           /\ frame_seqs' \subseteq [end : Nat, seq : 0..MaxSeq]
           /\ syncs' \subseteq Sync
           /\ zero_fill_ticket' \in Nat
           /\ rotor' \in Rotor
<1> DEFINE g1 == on_fsync_complete(g, ticket)
           covered == {e \in map : e.end <= g1.durable_up_to}
<1>1. frame_seqs \subseteq [end : Nat, seq : 0..MaxSeq] /\ acked_seq \in 0..MaxSeq
  BY Zenon DEF TypeOK
<1>2. covered # {} => Max({e.seq : e \in covered}) \in 0..MaxSeq
  <2> SUFFICES ASSUME covered # {} PROVE Max({e.seq : e \in covered}) \in 0..MaxSeq
    OBVIOUS
  <2> DEFINE S == {e.seq : e \in covered}
  <2>1. S \subseteq 0..MaxSeq /\ S # {}
    BY <1>1
  <2> HIDE DEF S
  <2>2. Max(S) \in S
    BY <2>1, MaxOfSeqs, ZenonT(30)
  <2> QED BY Zenon, <2>1, <2>2 DEF S
<1>3. acked_seq' \in 0..MaxSeq
  <2>1. acked_seq' = acked_seq \/ (covered # {} /\ acked_seq' = Max({e.seq : e \in covered}))
    BY Zenon DEF on_synced
  <2> HIDE DEF covered
  <2> QED BY Zenon, <1>1, <1>2, <2>1
<1>4. frame_seqs' \subseteq [end : Nat, seq : 0..MaxSeq]
  BY <1>1 DEF on_synced
<1>5. syncs' \subseteq Sync
  <2>1. gc'.next_ticket \in Nat
    BY DEF Ledger
  <2>2. SyncOf(g1, frames, gc'.next_ticket, rotor.active) \in Sync
    BY <2>1, SyncTyped, Zenon
  <2>3. syncs' = rest \/ syncs' = rest \cup {SyncOf(g1, frames, gc'.next_ticket, rotor.active)}
    BY Zenon DEF on_synced
  <2> QED BY <2>2, <2>3
<1>6. zero_fill_ticket' \in Nat /\ rotor' \in Rotor
  BY FillTyped, SMTT(60) DEF on_synced, TypeOK
<1> QED BY <1>3, <1>4, <1>5, <1>6

\* MAINTAIN.
LEMMA MaintainStepTyped ==
    ASSUME TypeOK, CoverageInOrder, NEW created \in BOOLEAN, NEW taken \in PoolTake,
           NEW issue \in BOOLEAN, maintain(created, taken, issue), gc' \in Ledger
    PROVE  TypeOK'
<1> DEFINE s == prealloc_source(rotor, taken # "failed")
           sourced == rotor.next = NoNext /\ s.source # "Wait"
           named == sourced /\ (created \/ s.source = "Recycled")
           whole == s.source = "Recycled" /\ taken = "allocated"
           r1 == CASE rotor.next # NoNext -> rotor
                   [] named -> maintain_ok(s, whole)
                   [] sourced /\ ~named -> maintain_no_space(s)
                   [] OTHER -> s.rotor
           g1 == IF named THEN register_prealloc_barrier(gc) ELSE gc
           slice == issue /\ zero_fill_pending(r1)
           r2 == IF slice THEN next_zero_slice(r1) ELSE r1
           barrier == zero_fill_ticket = 0 /\ r2.next.state = "AwaitBarrier"
           g2 == IF barrier THEN register_zero_fill_barrier(g1) ELSE g1
<1>1. gc \in Ledger /\ rotor \in Rotor /\ Good(gc)
  BY DEF TypeOK, CoverageInOrder, Good
<1>2. s.rotor \in Rotor /\ s.old \in Int
  BY <1>1, SourceTyped, Zenon
<1>3. maintain_ok(s, whole) \in Rotor /\ maintain_no_space(s) \in Rotor
  <2>1. whole \in BOOLEAN
    OBVIOUS
  <2> HIDE DEF whole, s
  <2> QED BY <1>2, <2>1, MaintainTyped
<1> HIDE DEF s, whole
<1>4. r1 \in Rotor
  BY <1>1, <1>2, <1>3
<1> HIDE DEF r1
<1>5. r2 \in Rotor /\ take_zero_fill_barrier(r2) \in Rotor
  BY Zenon, <1>4, FillTyped
<1>6. /\ r1.next.id \in Nat /\ r2.next.id \in Nat
  BY Zenon, <1>4, <1>5, RotorFields
<1> HIDE DEF r2
<1>7. g1 \in Ledger /\ g1.next_ticket \in Nat
  <2>1. Good(g1)
    BY <1>1, TailBarriersKeep
  <2> HIDE DEF g1
  <2> QED BY <2>1 DEF Good, Ledger
<1>8. gc'.next_ticket \in Nat
  BY SMTT(30) DEF Ledger
<1>9. /\ gc' = g2
      /\ rotor' = IF barrier THEN take_zero_fill_barrier(r2) ELSE r2
      /\ zero_fill_ticket' = IF barrier THEN g2.next_ticket ELSE zero_fill_ticket
      /\ fill_write' = IF slice THEN r2.next.id ELSE fill_write
      /\ syncs' = syncs
           \cup (IF named
                 THEN {SyncOn(g1.next_ticket, <<"dir", r1.next.id>>)} ELSE {})
           \cup (IF barrier
                 THEN {SyncOn(g2.next_ticket, <<"alloc", r2.next.id>>)} ELSE {})
  BY Zenon DEF maintain, s, whole, r1, r2
<1> HIDE DEF g1, g2, slice, barrier, sourced, named
<1>10. rotor' \in Rotor
  BY <1>5, <1>9
<1>11. zero_fill_ticket' \in Nat
  BY Zenon, <1>8, <1>9 DEF TypeOK
<1>12. fill_write' \in Nat \cup {-1}
  BY <1>6, <1>9 DEF TypeOK
<1>13. syncs' \subseteq Sync
  <2>1. /\ SyncOn(g1.next_ticket, <<"dir", r1.next.id>>) \in Sync
        /\ SyncOn(g2.next_ticket, <<"alloc", r2.next.id>>) \in Sync
    <3>1. <<"dir", r1.next.id>> \in Object /\ <<"alloc", r2.next.id>> \in Object
      BY <1>6 DEF Object
    <3> QED BY <1>7, <1>8, <1>9, <3>1, SyncOnTyped
  <2> QED BY <1>9, <2>1, ZenonT(30) DEF TypeOK, Sync
<1> QED BY <1>10, <1>11, <1>12, <1>13, ZenonT(30) DEF TypeOK, maintain, Sync

\* Sealing a frame.
LEMMA SealFrameTyped ==
    ASSUME TypeOK, CoverageInOrder, NEW len \in FrameLens, seal_frame(len), gc' \in Ledger
    PROVE  TypeOK'
<1> DEFINE rotate == rotation_due(rotor)
           inline == rotate /\ rotor.next = NoNext
           wt_ok == next_frame_write_through_ok(rotor, len)
           plan == frame_plan(gc, wt_ok, rotate)
           begun == begin_frame(wt_ok, len)
           n == Len(frames) + 1
           e == [seg |-> begun.rotor.active, seq |-> last_seq,
                 covered |-> gc.durable_up_to, exts |-> builder.exts]
           fs == Append(frames, e)
<1>1. gc \in Ledger /\ rotor \in Rotor /\ Good(gc)
  BY Zenon DEF TypeOK, CoverageInOrder, Good
<1>2. begun.rotor \in Rotor
  <2>1. begun.rotor = IF rotate THEN rotate_deferred(rotor) ELSE rotor
    BY Zenon DEF begin_frame
  <2> QED BY <1>1, <2>1, RotateTyped
<1>3. begun.gc \in Ledger /\ begun.gc.next_ticket \in Nat
  <2>1. wt_ok \in BOOLEAN
    BY DEF next_frame_write_through_ok
  <2> HIDE DEF wt_ok
  <2>2. Good(begun.gc)
    BY <1>1, <2>1, BeginFrameKeeps, Zenon
  <2> HIDE DEF begun
  <2> QED BY <2>2 DEF Good, Ledger
<1>4. /\ rotor' = commit_frame_queued(begun.rotor)
      /\ frames' = fs
      /\ frame_seqs' = frame_seqs \cup {[end |-> n, seq |-> last_seq]}
      /\ in_flight' = in_flight \cup
           {[id |-> n, ticket |-> IF plan = "WriteThrough" THEN gc'.next_ticket ELSE 0]}
      /\ syncs' = syncs
           \cup (IF rotate
                 THEN {SyncOf(gc, frames, begun.gc.next_ticket, rotor.active)} ELSE {})
           \cup (IF plan = "LinkedFsync"
                 THEN {LinkedSync(gc, fs, gc'.next_ticket, n)} ELSE {})
      /\ stable' = IF inline THEN stable \cup {<<"dir", begun.rotor.active>>} ELSE stable
      /\ waiters' = W!hand_out(waiters, gc'.extent_window)
      /\ builder' = NoRecords
      /\ UNCHANGED <<last_seq, acked_seq, zero_fill_ticket, failed, promised, fill_write>>
  BY SMTT(30) DEF seal_frame
<1> HIDE DEF rotate, plan, begun, inline
<1>5. /\ gc'.next_ticket \in Nat /\ gc'.extent_window \in Int
      /\ gc.durable_up_to \in Nat /\ begun.rotor.active \in Nat
  BY <1>1, <1>2, RotorFields, Zenon DEF Ledger
<1>6. rotor' \in Rotor
  BY <1>2, <1>4, CommitTyped
<1>7. n \in Nat /\ frames \in Seq(Frame)
  BY DEF TypeOK
<1>8. frames' \in Seq(Frame)
  <2>1. e \in Frame
    BY <1>5, SMTT(30) DEF TypeOK, Frame
  <2> HIDE DEF e
  <2> QED BY <1>4, <1>7, <2>1
<1> HIDE DEF n, fs
<1>9. frame_seqs' \subseteq [end : Nat, seq : 0..MaxSeq]
  BY <1>4, <1>7, SMTT(60) DEF TypeOK
<1>10. in_flight' \subseteq [id : Nat, ticket : Nat]
  BY <1>4, <1>5, <1>7, SMTT(60) DEF TypeOK
<1>11. syncs' \subseteq Sync
  <2>1. /\ SyncOf(gc, frames, begun.gc.next_ticket, rotor.active) \in Sync
        /\ LinkedSync(gc, fs, gc'.next_ticket, n) \in Sync
    BY <1>1, <1>3, <1>5, <1>7, SyncTyped, LinkedTyped
  <2>2. syncs \subseteq Sync
    BY SMTT(30) DEF TypeOK, Sync
  <2> QED BY <1>4, <2>1, <2>2, Zenon
<1>12. stable' \subseteq Object
  <2>1. <<"dir", begun.rotor.active>> \in Object
    BY <1>5, SMTT(30) DEF Object
  <2> QED BY Zenon, <1>4, <2>1 DEF TypeOK
<1>13. waiters' \in W!Queue
  BY <1>4, <1>5, HandOutFacts, ZenonT(30) DEF TypeOK
<1>14. builder' \in [records : 0..STAGING_RECORDS, exts : SUBSET Nat]
  <2>1. 0 \in 0..STAGING_RECORDS
    BY CellConstants
  <2> QED BY Zenon, <1>4, <2>1 DEF NoRecords
<1> QED BY <1>4, <1>6, <1>8, <1>9, <1>10, <1>11, <1>12, <1>13, <1>14, Zenon DEF TypeOK, Sync

\* A turn taken, refused or given up, and a writer parked.
LEMMA QueueTyped ==
    ASSUME NEW q \in W!Queue
    PROVE  /\ W!park(q) \in W!Queue
           /\ W!close(q) \in W!Queue
           /\ W!spend(q) \in W!Queue
           /\ W!refuse_turn(q) \in W!Queue
           /\ q.parked > 0 => W!drop_parked(q) \in W!Queue
           /\ W!drop_turn(q) \in W!Queue
<1>1. ASSUME NEW x \in W!Queue PROVE W!park(x) \in W!Queue
  <2> DEFINE p == x.parked + 1
  <2>1. p \in Nat
    BY DEF W!Queue
  <2>2. W!park(x) = [x EXCEPT !.parked = p]
    BY DEF W!park
  <2> HIDE DEF p
  <2> QED BY <2>1, <2>2 DEF W!Queue
<1>2. W!spend(q) \in W!Queue
  <2> DEFINE t == q.turns_out - 1
  <2>1. t \in Int
    BY DEF W!Queue
  <2>2. W!spend(q) = [q EXCEPT !.turns_out = t]
    BY DEF W!spend
  <2> HIDE DEF t
  <2> QED BY <2>1, <2>2 DEF W!Queue
<1>3. W!close(q) \in W!Queue
  BY ZenonT(30) DEF W!close, W!Queue
<1>4. W!refuse_turn(q) \in W!Queue
  <2>1. [W!spend(q) EXCEPT !.refused = TRUE] \in W!Queue
    BY <1>2, ZenonT(30) DEF W!Queue
  <2> QED BY <1>1, <2>1 DEF W!refuse_turn
<1>5. q.parked > 0 => W!drop_parked(q) \in W!Queue
  <2> SUFFICES ASSUME q.parked > 0 PROVE W!drop_parked(q) \in W!Queue
    OBVIOUS
  <2> DEFINE p == q.parked - 1
  <2>1. p \in Nat
    BY DEF W!Queue
  <2>2. W!drop_parked(q) = [q EXCEPT !.parked = p]
    BY DEF W!drop_parked
  <2> HIDE DEF p
  <2> QED BY <2>1, <2>2 DEF W!Queue
<1>6. W!drop_turn(q) \in W!Queue
  <2> DEFINE x == W!spend(q)
             n == IF q.open /\ q.parked > 0 THEN 1 ELSE 0
             p == x.parked - n
             t == x.turns_out + n
  <2>1. x \in W!Queue /\ x.parked = q.parked
    BY <1>2 DEF W!spend, W!Queue
  <2>2. W!drop_turn(q) = [x EXCEPT !.parked = p, !.turns_out = t]
    BY DEF W!drop_turn, W!wake
  <2> HIDE DEF x
  <2>3. x.parked \in Nat /\ x.turns_out \in Int
    BY <2>1 DEF W!Queue
  <2>4. n \in 0..1 /\ n <= x.parked
    BY <2>1, <2>3
  <2> HIDE DEF n
  <2>5. p \in Nat /\ t \in Int
    BY <2>3, <2>4
  <2> HIDE DEF p, t
  <2> QED BY <2>1, <2>2, <2>5, ZenonT(30) DEF W!Queue
<1> QED BY <1>1, <1>2, <1>3, <1>4, <1>5, <1>6

\* Every step of the cell keeps its types.
LEMMA TypeStep ==
    ASSUME TypeOK, CoverageInOrder, [Next]_vars
    PROVE  TypeOK'
<1>0. LedgerInv
  BY Zenon DEF TypeOK, CoverageInOrder, LedgerInv, Good
<1>1. gc' \in Ledger /\ gc'.next_ticket \in Nat
  <2>1. Good(gc')
    BY Zenon, <1>0, LedgerStep
  <2> QED BY <2>1 DEF Good, Ledger
<1>2. gc \in Ledger /\ waiters \in W!Queue /\ gc.extent_window \in Int
      /\ syncs \subseteq Sync /\ Good(gc)
  BY DEF TypeOK, Ledger, Sync, CoverageInOrder, Good
<1>3. ASSUME NEW class \in Classes, stage(class) PROVE TypeOK'
  <2>1. StageRecord(gc, class, {}) /\ would_fit /\ last_seq < MaxSeq /\ waiters' = waiters
    BY <1>3 DEF stage, CanStage
  <2>2. {} \in SUBSET Nat
    OBVIOUS
  <2> QED BY <1>1, <1>2, <2>1, <2>2, StageTyped
<1>4. ASSUME NEW class \in Classes, CanStage, RegisterAndStage(class), waiters' \in W!Queue
      PROVE  TypeOK'
  <2>1. StageRecord(register_extent(gc), class, {gc.next_ticket + 1})
    BY <1>4 DEF RegisterAndStage
  <2>2. {gc.next_ticket + 1} \in SUBSET Nat
    BY <1>2 DEF Ledger
  <2> QED BY <1>1, <1>4, <2>1, <2>2, StageTyped DEF CanStage
<1>5. ASSUME NEW class \in Classes, write_blob_arrival(class) PROVE TypeOK'
  <2>1. \/ CanStage /\ RegisterAndStage(class) /\ waiters' = waiters
        \/ /\ waiters' = W!park(waiters)
           /\ UNCHANGED <<gc, rotor, builder, last_seq, acked_seq, frame_seqs,
                         in_flight, zero_fill_ticket, failed, frames, promised, device>>
    BY <1>5 DEF write_blob_arrival
  <2>2. W!park(waiters) \in W!Queue
    BY Zenon, <1>2, QueueTyped
  <2> QED BY <1>2, <1>4, <2>1, <2>2, Zenon DEF TypeOK, device
<1>6. ASSUME NEW class \in Classes, write_blob_turn(class) PROVE TypeOK'
  <2>1. \/ CanStage /\ RegisterAndStage(class) /\ waiters' = W!spend(waiters)
        \/ /\ waiters' = W!refuse_turn(waiters)
           /\ UNCHANGED <<gc, rotor, builder, last_seq, acked_seq, frame_seqs,
                         in_flight, zero_fill_ticket, failed, frames, promised, device>>
    BY <1>6 DEF write_blob_turn
  <2>2. W!spend(waiters) \in W!Queue /\ W!refuse_turn(waiters) \in W!Queue
    BY Zenon, <1>2, QueueTyped
  <2> QED BY <1>4, <2>1, <2>2, Zenon DEF TypeOK, device
<1>7. CASE drop_turn
  BY Zenon, <1>2, <1>7, QueueTyped DEF drop_turn, TypeOK, device
<1>8. CASE on_everysec_tick
  BY Zenon, <1>1, <1>8 DEF on_everysec_tick, TypeOK, device
<1>21. CASE truncate
  <2>1. rotor \in Rotor /\ rotor.sealed # <<>> /\ rotor' = forget_sealed(rotor)
    BY <1>21 DEF truncate, TypeOK
  <2>2. rotor' \in Rotor
    BY <2>1, ForgetTyped
  <2> QED BY Zenon, <1>21, <2>2 DEF truncate, TypeOK, device
<1>9. CASE tier_maintain
  <2>1. /\ gc.next_ticket \in Nat /\ gc.pending \in Seq(PendingFsync)
        /\ Len(gc.pending) <= gc.next_ticket
    BY Zenon, <1>2 DEF Ledger, Good, CoverageOrdered
  <2>2. \A i \in DOMAIN gc.pending : gc.next_ticket - Len(gc.pending) + i \in Nat
    BY <2>1
  <2>3. UnsentExtents(gc) \subseteq Nat
    BY Zenon, <2>2 DEF UnsentExtents
  <2>4. \A t \in UnsentExtents(gc) : SyncOn(t, <<"ext", t>>) \in Sync
    BY <2>3, SyncOnTyped DEF Object
  <2>5. syncs' \subseteq Sync
    BY <1>2, <1>9, <2>4, ZenonT(30) DEF tier_maintain
  <2> QED BY <1>1, <1>9, <2>5, Zenon DEF tier_maintain, TypeOK, Sync
<1>10. ASSUME NEW created \in BOOLEAN, NEW taken \in PoolTake,
             NEW issue \in BOOLEAN, maintain(created, taken, issue)
       PROVE  TypeOK'
  BY <1>1, <1>10, MaintainStepTyped
<1>11. ASSUME NEW len \in FrameLens, seal_frame(len) PROVE TypeOK'
  BY Zenon, <1>1, <1>11, SealFrameTyped
<1>12. CASE extent_hold
  BY Zenon, <1>2, <1>12, QueueTyped DEF extent_hold, TypeOK, device
<1>13. CASE reserve_no_space
  BY Zenon, <1>13 DEF reserve_no_space, TypeOK, device
<1>14. ASSUME NEW held \in BOOLEAN, seal_nothing(held) PROVE TypeOK'
  <2>1. waiters' \in W!Queue
    BY <1>2, <1>14, HandOutFacts DEF seal_nothing
  <2>2. SyncOf(gc, frames, gc'.next_ticket, rotor.active) \in Sync
    BY Zenon, <1>1, <1>2, SyncTyped
  <2>3. syncs' \subseteq Sync
    BY <1>2, <1>14, <2>2 DEF seal_nothing
  <2> QED BY Zenon, <1>1, <1>14, <2>1, <2>3 DEF seal_nothing, TypeOK, Sync
<1>15. ASSUME NEW f \in in_flight, on_log_written(f) PROVE TypeOK'
  <2> DEFINE g == note_frame_written(gc, f.id)
             map == coalesce_ack_map(frame_seqs, g)
             g1 == Asserting(g, ack_map_bounded(map, g))
  <2>1. f \in [id : Nat, ticket : Nat]
    BY Zenon DEF TypeOK
  <2>2. Good(g1)
    <3>1. Good(g)
      BY <1>2, <2>1, FrameWrittenKeeps
    <3>2. ack_map_bounded(map, g) \in BOOLEAN
      BY Zenon, BoundedOrNot
    <3> QED BY <3>1, <3>2, AssertingKeeps DEF Good
  <2>3. map \in SUBSET frame_seqs
    BY Zenon DEF coalesce_ack_map
  <2>4. /\ in_flight' = in_flight \ {f}
        /\ IF f.ticket # 0
           THEN /\ on_synced(g1, map, f.ticket, syncs)
                /\ stable' = stable \cup {<<"fua", f.id>>}
           ELSE /\ frame_seqs' = map
                /\ UNCHANGED <<acked_seq, syncs, zero_fill_ticket, rotor, stable>>
        /\ UNCHANGED <<waiters, builder, last_seq, failed, frames, promised, fill_write>>
    BY Zenon, <1>15 DEF on_log_written
  <2> HIDE DEF g1, map
  <2>5. CASE f.ticket # 0
    <3>1. on_fsync_complete(g1, f.ticket) \in Ledger
      BY Zenon, <2>1, <2>2, CompletionsKeep DEF Good
    <3>2. /\ acked_seq' \in 0..MaxSeq
          /\ frame_seqs' \subseteq [end : Nat, seq : 0..MaxSeq]
          /\ syncs' \subseteq Sync /\ zero_fill_ticket' \in Nat /\ rotor' \in Rotor
      BY <1>1, <1>2, <2>3, <2>4, <2>5, <3>1, SyncedTyped, Zenon
    <3>3. stable' \subseteq Object
      BY <2>1, <2>4, <2>5, SMTT(30) DEF TypeOK, Object
    <3> QED BY <1>1, <2>4, <3>2, <3>3 DEF TypeOK, Sync
  <2>6. CASE f.ticket = 0
    BY <1>1, <2>3, <2>4, <2>6, Zenon DEF TypeOK
  <2> QED BY <2>5, <2>6
<1>16. ASSUME NEW s \in syncs, on_fdatasync(s) PROVE TypeOK'
  <2>1. s \in Sync
    BY Zenon, <1>2
  <2>2. on_synced(gc, frame_seqs, s.ticket, syncs \ {s})
    BY <1>16 DEF on_fdatasync
  <2>3. on_fsync_complete(gc, s.ticket) \in Ledger
    BY <1>2, <2>1, CompletionsKeep DEF Good, Sync
  <2>4. syncs \ {s} \subseteq Sync /\ frame_seqs \in SUBSET frame_seqs
    BY <1>2
  <2>5. /\ acked_seq' \in 0..MaxSeq
        /\ frame_seqs' \subseteq [end : Nat, seq : 0..MaxSeq]
        /\ syncs' \subseteq Sync /\ zero_fill_ticket' \in Nat /\ rotor' \in Rotor
    BY Zenon, <1>1, <2>2, <2>3, <2>4, SyncedTyped
  <2>6. stable' \subseteq Object
    BY Zenon, <1>16, <2>1 DEF on_fdatasync, TypeOK, Sync
  <2> QED BY <1>1, <1>16, <2>5, <2>6 DEF on_fdatasync, TypeOK, Sync
<1>17. CASE on_zero_fill_written
  <2>1. rotor' \in Rotor
    BY Zenon, <1>17, FillTyped DEF on_zero_fill_written, TypeOK
  <2> QED BY Zenon, <1>17, <2>1 DEF on_zero_fill_written, TypeOK
<1>18. CASE on_log_error
  BY Zenon, <1>1, <1>18 DEF on_log_error, TypeOK, device
<1>19. CASE UNCHANGED vars
  BY <1>19 DEF TypeOK, vars, cell, device
<1>20. SpaceOutcomes \subseteq BOOLEAN
  BY CellConstants
<1> QED BY <1>3, <1>5, <1>6, <1>7, <1>8, <1>9, <1>10, <1>11, <1>12, <1>13, <1>14, <1>15,
           <1>16, <1>17, <1>18, <1>19, <1>20, <1>21
        DEF Next, Execute, Maintain, seal_log, Reap

\* The cell keeps its types, and its ledger stays in order: the watermark, what the
\* pending syncs cover one after another, and the last frame queued.
THEOREM TypesAndOrder == Spec => [](TypeOK /\ CoverageInOrder)
<1>1. TypeOK /\ CoverageInOrder /\ [Next]_vars => (TypeOK /\ CoverageInOrder)'
  <2> SUFFICES ASSUME TypeOK, CoverageInOrder, [Next]_vars
               PROVE  TypeOK' /\ CoverageInOrder'
    OBVIOUS
  <2>1. LedgerInv
    BY DEF TypeOK, CoverageInOrder, LedgerInv, Good
  <2> QED BY <2>1, TypeStep, LedgerStep DEF CoverageInOrder, Good
<1> QED BY <1>1, InitTyped, PTL DEF Spec

\* Turns and window units.

-----------------------------------------------------------------------------
\* Barriers that are not extent seals leave the extent window alone.
LEMMA RegisterKeepsWindow ==
    ASSUME NEW g \in Ledger
    PROVE  /\ register_standalone_fsync(g).extent_window = g.extent_window
           /\ register_completion_fsync(g).extent_window = g.extent_window
<1>1. settle_due_at_written(g) \in Ledger
  BY ZenonT(30) DEF settle_due_at_written, Ledger
<1>2. settle_due_at_written(g).extent_window = g.extent_window
  BY WindowKept, Zenon
<1> QED BY <1>1, <1>2, PushKeepsWindow DEF register_standalone_fsync, register_completion_fsync

\* Only a step that stages a record enters the window.
LEMMA WindowStep ==
    ASSUME TypeOK, CoverageInOrder, [Next]_vars, last_seq' = last_seq
    PROVE  gc'.extent_window <= gc.extent_window
<1>0. gc \in Ledger /\ Good(gc) /\ gc.extent_window \in Int
      /\ gc.extent_window <= gc.extent_window
  <2>1. gc \in Ledger
    BY DEF TypeOK
  <2>2. gc.extent_window \in Int
    BY <2>1 DEF Ledger
  <2> QED BY <2>1, <2>2 DEF CoverageInOrder, Good
<1>1. CASE UNCHANGED gc
  BY <1>0, <1>1
<1>2. ASSUME NEW class, NEW g, NEW exts, StageRecord(g, class, exts)
      PROVE  FALSE
  <2>1. last_seq \in Int /\ last_seq' = last_seq + 1
    BY <1>2 DEF StageRecord, TypeOK
  <2> QED BY <2>1
<1>3. ASSUME NEW class \in Classes,
             stage(class) \/ write_blob_arrival(class) \/ write_blob_turn(class)
      PROVE  gc'.extent_window <= gc.extent_window
  BY Zenon, <1>1, <1>2, <1>3 DEF stage, write_blob_arrival, write_blob_turn, RegisterAndStage
<1>4. CASE on_everysec_tick
  BY Zenon, <1>0, <1>4, WindowKept DEF on_everysec_tick
<1>5. CASE tier_maintain
  BY <1>0, <1>5, WindowKept DEF tier_maintain
<1>6. ASSUME NEW created \in BOOLEAN, NEW taken \in PoolTake,
             NEW issue \in BOOLEAN, maintain(created, taken, issue)
      PROVE  gc'.extent_window <= gc.extent_window
  <2> DEFINE s == prealloc_source(rotor, taken # "failed")
             named == /\ rotor.next = NoNext /\ s.source # "Wait"
                      /\ created \/ s.source = "Recycled"
             g1 == IF named THEN register_prealloc_barrier(gc) ELSE gc
  <2>1. g1 \in Ledger
    BY <1>0, TailBarriersKeep DEF Good
  <2>2. g1.extent_window = gc.extent_window
    <3>1. register_prealloc_barrier(gc).extent_window = gc.extent_window
      BY <1>0, PushKeepsWindow, SMTT(30) DEF register_prealloc_barrier
    <3> QED BY <3>1
  <2>3. gc' = register_zero_fill_barrier(g1) \/ gc' = g1
    BY <1>6, Zenon DEF maintain
  <2> HIDE DEF g1
  <2>4. register_zero_fill_barrier(g1).extent_window = g1.extent_window
    BY <2>1, PushKeepsWindow DEF register_zero_fill_barrier
  <2> QED BY Zenon, <1>0, <2>2, <2>3, <2>4
<1>7. ASSUME NEW len \in FrameLens, seal_frame(len)
      PROVE  gc'.extent_window <= gc.extent_window
  <2> DEFINE rotate == rotation_due(rotor)
             wt_ok == next_frame_write_through_ok(rotor, len)
             plan == frame_plan(gc, wt_ok, rotate)
             begun == begin_frame(wt_ok, len)
             queued == note_frame_queued(begun.gc)
  <2>1. gc' = register_barrier(queued, plan) /\ plan # "Wait"
    BY <1>7 DEF seal_frame, seal_ready
  <2>2. wt_ok \in BOOLEAN
    BY DEF next_frame_write_through_ok
  <2>3. plan \in {"WriteThrough", "LinkedFsync", "Plain", "Wait"}
    BY Zenon, PlanRange
  <2> HIDE DEF wt_ok, plan
  <2>4. Good(begun.gc)
    BY Zenon, <1>0, <2>2, BeginFrameKeeps
  <2>5. begun.gc.extent_window = gc.extent_window
    <3> DEFINE r == IF rotation_due(rotor) THEN rotate_deferred(rotor) ELSE rotor
               claim == wt_ok = (len = "small" /\ r.mode = "Direct" /\ r.prezeroed)
               g == Asserting(gc, claim)
    <3>1. claim \in BOOLEAN
      OBVIOUS
    <3>2. begun.gc = IF rotation_due(rotor) THEN register_seal_fsync(g) ELSE g
      BY Zenon DEF begin_frame
    <3> HIDE DEF claim
    <3>3. g \in Ledger /\ g.extent_window = gc.extent_window
      BY <1>0, <3>1, AssertingKeeps, WindowKept, SMTT(30)
    <3> HIDE DEF g
    <3>4. Asserting(g, drained(g)) \in Ledger
          /\ Asserting(g, drained(g)).extent_window = g.extent_window
      <4>1. drained(g) \in BOOLEAN
        BY SMTT(30) DEF drained
      <4> QED BY <3>3, <4>1, AssertingKeeps, WindowKept, ZenonT(30)
    <3>5. register_seal_fsync(g).extent_window = g.extent_window
      BY <3>4, PushKeepsWindow, Zenon DEF register_seal_fsync
    <3> QED BY <3>2, <3>3, <3>5
  <2> HIDE DEF begun
  <2>6. Good(queued) /\ queued.extent_window = gc.extent_window
    BY <2>4, <2>5, FrameQueuedKeeps, WindowKept, Zenon DEF Good
  <2> HIDE DEF queued
  <2>7. ASSUME NEW claim \in BOOLEAN, NEW c, NEW reason
        PROVE  push_pending(discharge(Asserting(queued, claim)), c, reason).extent_window
                   = gc.extent_window
    <3>1. Good(Asserting(queued, claim))
          /\ Asserting(queued, claim).extent_window = gc.extent_window
      BY <2>6, AssertingKeeps, WindowKept, ZenonT(30) DEF Good
    <3>2. Good(discharge(Asserting(queued, claim)))
          /\ discharge(Asserting(queued, claim)).extent_window = gc.extent_window
      BY <3>1, FlagsKeep, WindowKept, Zenon DEF Good
    <3> DEFINE d == discharge(Asserting(queued, claim))
    <3>3. d \in Ledger /\ d.extent_window = gc.extent_window
      BY <3>2, Zenon DEF Good
    <3> HIDE DEF d
    <3>4. push_pending(d, c, reason).extent_window = d.extent_window
      BY <3>3, PushKeepsWindow
    <3> QED BY <3>3, <3>4, SMTT(30) DEF d
  <2>8. /\ (~queued.always_unqueued /\ queued.queued = <<FALSE>>) \in BOOLEAN
        /\ (~queued.always_unqueued
               /\ coverage_tail(queued) = queued_up_to(queued) - 1) \in BOOLEAN
    OBVIOUS
  <2>9. /\ register_linked_fsync(queued).extent_window = gc.extent_window
        /\ register_write_through(queued).extent_window = gc.extent_window
    BY <2>7, <2>8, ZenonT(30) DEF register_linked_fsync, register_write_through
  <2>10. gc'.extent_window = gc.extent_window
    BY <2>1, <2>3, <2>6, <2>9 DEF register_barrier
  <2> QED BY <1>0, <2>10, Zenon
<1>8. ASSUME NEW held \in BOOLEAN, seal_nothing(held)
      PROVE  gc'.extent_window <= gc.extent_window
  <2>1. register_standalone_fsync(gc).extent_window = gc.extent_window
    BY <1>0, RegisterKeepsWindow
  <2>2. gc' = register_standalone_fsync(gc) \/ gc' = gc
    BY <1>8 DEF seal_nothing
  <2> QED BY <1>0, <2>1, <2>2
<1>9. ASSUME NEW g, Good(g), NEW map, NEW ticket \in Nat, NEW rest,
             on_synced(g, map, ticket, rest), g.extent_window = gc.extent_window
      PROVE  gc'.extent_window <= gc.extent_window
  <2> DEFINE g1 == on_fsync_complete(g, ticket)
  <2>1. Good(g1)
    BY <1>9, CompletionsKeep
  <2>2. g1.extent_window <= gc.extent_window
    BY <1>9, WindowShrinks, SMTT(30) DEF Good
  <2>3. gc' = register_completion_fsync(g1) \/ gc' = g1
    BY Zenon, <1>9 DEF on_synced
  <2> HIDE DEF g1
  <2>4. register_completion_fsync(g1).extent_window = g1.extent_window
    BY <2>1, RegisterKeepsWindow DEF Good
  <2> QED BY Zenon, <2>2, <2>3, <2>4
<1>10. ASSUME NEW f \in in_flight, on_log_written(f)
       PROVE  gc'.extent_window <= gc.extent_window
  <2> DEFINE g == note_frame_written(gc, f.id)
             map == coalesce_ack_map(frame_seqs, g)
             claim == ack_map_bounded(map, g)
             g1 == Asserting(g, claim)
  <2>1. Good(g) /\ g.extent_window = gc.extent_window
    <3>1. f.id \in Nat
      BY DEF TypeOK
    <3>2. Good(g)
      BY <1>0, <3>1, FrameWrittenKeeps
    <3>3. g.extent_window = gc.extent_window
      BY <1>0, WindowKept
    <3> QED BY <3>2, <3>3
  <2>2. claim \in BOOLEAN
    BY Zenon, BoundedOrNot
  <2>3. f.ticket \in Nat /\ (f.ticket # 0 => on_synced(g1, map, f.ticket, syncs))
        /\ (f.ticket = 0 => gc' = g1)
    BY <1>10, SMTT(30) DEF on_log_written, TypeOK
  <2> HIDE DEF g, claim
  <2>4. Good(g1) /\ g1.extent_window = gc.extent_window
    BY <2>1, <2>2, AssertingKeeps, WindowKept, ZenonT(30) DEF Good
  <2> HIDE DEF g1, map
  <2> QED BY Zenon, <1>0, <1>9, <2>3, <2>4
<1>11. ASSUME NEW s \in syncs, on_fdatasync(s)
       PROVE  gc'.extent_window <= gc.extent_window
  <2>1. s.ticket \in Nat /\ on_synced(gc, frame_seqs, s.ticket, syncs \ {s})
    BY Zenon, <1>11 DEF on_fdatasync, TypeOK, Sync
  <2> QED BY Zenon, <1>0, <1>9, <2>1
<1>12. CASE on_log_error
  BY <1>0, <1>12, WindowKept, SMTT(30) DEF on_log_error
<1>13. CASE extent_hold \/ reserve_no_space \/ drop_turn \/ truncate \/ on_zero_fill_written
  BY <1>1, <1>13, Zenon DEF extent_hold, reserve_no_space, drop_turn, truncate, on_zero_fill_written
<1> QED
  BY <1>1, <1>3, <1>4, <1>5, <1>6, <1>7, <1>8, <1>10, <1>11, <1>12, <1>13, CellConstants, SMTT(30)
  DEF Next, Execute, Reap, Maintain, seal_log, vars, cell

\* What a step of the queue does to the turns out.
LEMMA QueueTurns ==
    ASSUME NEW q \in W!Queue
    PROVE  /\ W!park(q).turns_out = q.turns_out /\ W!park(q).refused = q.refused
           /\ W!close(q).turns_out = q.turns_out /\ W!close(q).refused = q.refused
           /\ W!spend(q).turns_out = q.turns_out - 1 /\ W!spend(q).refused = q.refused
           /\ W!drop_parked(q).turns_out = q.turns_out
           /\ W!drop_parked(q).refused = q.refused
           /\ W!drop_turn(q).turns_out \in {q.turns_out - 1, q.turns_out}
           /\ W!drop_turn(q).refused = q.refused
<1>1. /\ W!park(q).turns_out = q.turns_out /\ W!park(q).refused = q.refused
      /\ W!close(q).turns_out = q.turns_out /\ W!close(q).refused = q.refused
      /\ W!drop_parked(q).turns_out = q.turns_out
      /\ W!drop_parked(q).refused = q.refused
  BY DEF W!park, W!close, W!drop_parked, W!Queue
<1>2. W!spend(q).turns_out = q.turns_out - 1 /\ W!spend(q).refused = q.refused
  BY Zenon DEF W!spend, W!Queue
<1>3. /\ W!drop_turn(q).turns_out \in {q.turns_out - 1, q.turns_out}
      /\ W!drop_turn(q).refused = q.refused
  <2> DEFINE x == W!spend(q)
             n == IF q.open /\ q.parked > 0 THEN 1 ELSE 0
  <2>1. x \in W!Queue
    BY QueueTyped
  <2>2. W!drop_turn(q) = [x EXCEPT !.parked = x.parked - n, !.turns_out = x.turns_out + n]
    BY DEF W!drop_turn, W!wake
  <2>3. x.turns_out = q.turns_out - 1 /\ x.refused = q.refused /\ q.turns_out \in Int
    BY <1>2 DEF W!Queue
  <2>4. n \in {0, 1}
    OBVIOUS
  <2> HIDE DEF x, n
  <2>5. /\ W!drop_turn(q).turns_out = x.turns_out + n
        /\ W!drop_turn(q).refused = x.refused
    BY <2>1, <2>2 DEF W!Queue
  <2>6. q.turns_out - 1 + n \in {q.turns_out - 1, q.turns_out}
    BY <2>3, <2>4
  <2> QED BY <2>3, <2>5, <2>6
<1> QED BY <1>1, <1>2, <1>3

\* Every step keeps the turns counted: a writer enters the window with room to
\* spare, turns are handed out against the units left, and units only come back.
LEMMA TurnsStep ==
    ASSUME TypeOK, CoverageInOrder, TurnsCounted, [Next]_vars
    PROVE  TurnsCounted'
<1> DEFINE E == EXTENT_SEAL_WINDOW_ENTRIES
           w == gc.extent_window
           t == waiters.turns_out
<1>0. /\ w \in Int /\ t \in Int /\ E \in Nat /\ w + t <= E /\ t >= 0
      /\ ~waiters.refused /\ waiters \in W!Queue /\ gc \in Ledger
  BY LedgerConstants, SMTT(30) DEF TypeOK, Ledger, W!Queue, TurnsCounted, EveryTurnHasAUnit
<1>1. TypeOK' /\ gc'.extent_window \in Int /\ waiters'.turns_out \in Int
  BY TypeStep, Zenon DEF TypeOK, Ledger, W!Queue
<1>2. ASSUME last_seq' = last_seq, waiters'.turns_out \in {t - 1, t}, waiters'.turns_out >= 0,
             waiters'.refused = waiters.refused
      PROVE  TurnsCounted'
  <2>1. gc'.extent_window <= w
    BY Zenon, <1>2, WindowStep
  <2>2. gc'.extent_window + waiters'.turns_out <= E
    BY <1>0, <1>1, <1>2, <2>1
  <2> QED BY <1>0, <1>2, <2>2 DEF TurnsCounted, EveryTurnHasAUnit
<1>3. ASSUME last_seq' = last_seq, NEW len \in Int, len >= gc'.extent_window,
             len <= w, waiters' = W!hand_out(waiters, len)
      PROVE  TurnsCounted'
  <2>1. /\ waiters'.refused = waiters.refused /\ t <= waiters'.turns_out
        /\ waiters'.turns_out = t \/ len + waiters'.turns_out <= E
    BY <1>0, <1>3, HandOutFacts, Zenon
  <2>2. gc'.extent_window + waiters'.turns_out <= E /\ waiters'.turns_out >= 0
    BY <1>0, <1>1, <1>3, <2>1, SMTT(60)
  <2> QED BY <1>0, <2>1, <2>2 DEF TurnsCounted, EveryTurnHasAUnit
<1>4. CASE waiters' = waiters /\ last_seq' = last_seq
  BY <1>0, <1>2, <1>4
<1>5. ASSUME NEW class \in Classes, stage(class)
      PROVE  TurnsCounted'
  <2>1. gc'.extent_window = w /\ waiters' = waiters
    BY <1>0, <1>5, WindowKept, ZenonT(30) DEF stage, StageRecord
  <2> QED BY <1>0, <2>1, SMTT(30) DEF TurnsCounted, EveryTurnHasAUnit
<1>6. ASSUME NEW class \in Classes, RegisterAndStage(class)
      PROVE  gc'.extent_window = w + 1
  <2> DEFINE n == w + 1
             u == gc.extent_unsent + 1
             g == [gc EXCEPT !.extent_window = n, !.extent_unsent = u]
             h == push_pending(g, coverage_tail(gc), "ExtentSeal")
  <2>1. n \in Int /\ u \in Nat
    BY <1>0 DEF Ledger
  <2>2. gc' = note_staged(h, class)
    BY <1>6 DEF RegisterAndStage, StageRecord, register_extent
  <2>3. h \in Ledger
    <3>1. h = register_extent(gc)
      BY DEF register_extent
    <3>2. Good(gc)
      BY DEF TypeOK, CoverageInOrder, Good
    <3> QED BY <3>1, <3>2, TailBarriersKeep DEF Good
  <2> HIDE DEF n, u
  <2>4. g \in Ledger /\ g.extent_window = n
    BY <1>0, <2>1, Zenon DEF Ledger
  <2> HIDE DEF g
  <2>5. h.extent_window = n
    BY <2>4, PushKeepsWindow
  <2> HIDE DEF h
  <2>6. gc'.extent_window = n
    BY <2>2, <2>3, <2>5, WindowKept, Zenon
  <2> QED BY <2>6 DEF n
<1>7. ASSUME NEW class \in Classes, write_blob_arrival(class)
      PROVE  TurnsCounted'
  <2>1. CASE /\ W!admit(waiters, w) /\ extent_window_has_room(gc)
             /\ RegisterAndStage(class) /\ UNCHANGED waiters
    <3>1. w < E /\ (t = 0 \/ w + t < E)
      BY <2>1 DEF W!admit, extent_window_has_room
    <3>2. gc'.extent_window = w + 1 /\ waiters' = waiters
      BY <1>6, <2>1
    <3>3. gc'.extent_window + t <= E
      BY <1>0, <3>1, <3>2
    <3> QED BY <1>0, <3>2, <3>3 DEF TurnsCounted, EveryTurnHasAUnit
  <2>2. CASE waiters' = W!park(waiters) /\ last_seq' = last_seq
    <3>1. W!park(waiters).turns_out = t /\ W!park(waiters).refused = waiters.refused
      BY Zenon, <1>0, QueueTurns
    <3> QED BY <1>0, <1>2, <2>2, <3>1, Zenon
  <2> QED BY <1>7, <2>1, <2>2 DEF write_blob_arrival
<1>8. ASSUME NEW class \in Classes, write_blob_turn(class)
      PROVE  TurnsCounted'
  <2>1. t > 0 /\ w < E
    BY <1>0, <1>8 DEF write_blob_turn
  <2>2. RegisterAndStage(class) /\ waiters' = W!spend(waiters)
    BY <1>8, <2>1, Zenon DEF write_blob_turn, extent_window_has_room
  <2>3. /\ gc'.extent_window = w + 1 /\ waiters'.turns_out = t - 1
        /\ waiters'.refused = waiters.refused
    BY Zenon, <1>0, <1>6, <2>2, QueueTurns
  <2>4. gc'.extent_window + waiters'.turns_out <= E /\ waiters'.turns_out >= 0
    BY <1>0, <2>1, <2>3
  <2> QED BY <1>0, <2>3, <2>4 DEF TurnsCounted, EveryTurnHasAUnit
<1>9. CASE drop_turn
  <2>1. last_seq' = last_seq
    BY <1>9, Zenon DEF drop_turn
  <2>2. CASE waiters.parked > 0 /\ waiters' = W!drop_parked(waiters)
    BY <1>0, <1>2, <2>1, <2>2, QueueTurns, Zenon
  <2>3. CASE t > 0 /\ waiters' = W!drop_turn(waiters)
    <3>1. /\ W!drop_turn(waiters).turns_out \in {t - 1, t}
          /\ W!drop_turn(waiters).refused = waiters.refused
      BY Zenon, <1>0, QueueTurns
    <3>2. waiters'.turns_out >= 0
      BY <1>0, <2>3, <3>1
    <3> QED BY <1>2, <2>1, <2>3, <3>1, <3>2, Zenon
  <2> QED BY <1>9, <2>2, <2>3 DEF drop_turn
<1>10. ASSUME NEW len \in FrameLens, seal_frame(len)
       PROVE  TurnsCounted'
  <2>1. last_seq' = last_seq /\ waiters' = W!hand_out(waiters, gc'.extent_window)
    BY <1>10 DEF seal_frame
  <2>2. gc'.extent_window <= w /\ gc'.extent_window >= gc'.extent_window
    BY <1>1, <2>1, WindowStep
  <2> QED BY <1>1, <1>3, <2>1, <2>2, Zenon
<1>11. ASSUME NEW held \in BOOLEAN, seal_nothing(held)
       PROVE  TurnsCounted'
  <2>1. last_seq' = last_seq
    BY <1>11 DEF seal_nothing
  <2>2. gc'.extent_window <= w /\ w <= w
    BY <1>0, <2>1, WindowStep
  <2>3. waiters' = W!hand_out(waiters, w) \/ waiters' = waiters
    BY <1>11 DEF seal_nothing
  <2>4. w >= gc'.extent_window
    BY Zenon, <1>0, <1>1, <2>2
  <2> QED BY <1>0, <1>3, <1>4, <2>1, <2>2, <2>3, <2>4, SMTT(30)
<1>12. CASE extent_hold
  <2>1. waiters' = W!close(waiters) /\ last_seq' = last_seq
    BY <1>12, Zenon DEF extent_hold
  <2>2. W!close(waiters).turns_out = t /\ W!close(waiters).refused = waiters.refused
    BY <1>0, QueueTurns
  <2> QED BY <1>0, <1>2, <2>1, <2>2
<1>13. CASE UNCHANGED vars
  BY <1>4, <1>13, SMTT(30) DEF vars, cell
<1>14. ASSUME NEW created, NEW taken, NEW issue, maintain(created, taken, issue)
       PROVE  TurnsCounted'
  BY <1>4, <1>14, ZenonT(30) DEF maintain
<1>15. CASE on_everysec_tick \/ tier_maintain \/ truncate \/ reserve_no_space
            \/ on_zero_fill_written \/ on_log_error
  BY <1>4, <1>15, Zenon DEF on_everysec_tick, tier_maintain, truncate, reserve_no_space,
                     on_zero_fill_written, on_log_error
<1>16. ASSUME NEW f \in in_flight, on_log_written(f)
       PROVE  TurnsCounted'
  BY <1>4, <1>16 DEF on_log_written
<1>17. ASSUME NEW s \in syncs, on_fdatasync(s)
       PROVE  TurnsCounted'
  BY <1>4, <1>17, ZenonT(30) DEF on_fdatasync
<1> QED
  BY <1>5, <1>7, <1>8, <1>9, <1>10, <1>11, <1>12, <1>13, <1>14, <1>15, <1>16, <1>17, SMTT(30)
  DEF Next, Execute, Reap, Maintain, seal_log

\* The extent-seal window is never oversubscribed: no blob writer that was handed
\* a turn finds the window full, for any window size and any number of writers.
THEOREM TurnsHaveUnits == Spec => []EveryTurnHasAUnit
<1>1. Init => TurnsCounted
  <2> SUFFICES ASSUME Init PROVE TurnsCounted
    OBVIOUS
  <2>1. waiters = [open |-> TRUE, parked |-> 0, turns_out |-> 0, refused |-> FALSE]
    BY Zenon DEF Init, W!new_queue
  <2>2. PICK fresh \in BOOLEAN : gc = BootBarriers(fresh)
    BY Zenon DEF Init
  <2>3. new_ledger \in Ledger /\ new_ledger.extent_window = 0
    BY Zenon, NewGood DEF Good, new_ledger
  <2>4. ASSUME NEW g \in Ledger, g.extent_window = 0
        PROVE  register_boot_barrier(g).extent_window = 0
    <3> DEFINE claim == queued_up_to(g) = 0 /\ g.durable_up_to = 0
               h == Asserting(g, claim)
    <3>1. claim \in BOOLEAN
      OBVIOUS
    <3>2. register_boot_barrier(g) = push_pending(h, 0, "BootBarrier")
      BY Zenon DEF register_boot_barrier
    <3> HIDE DEF claim
    <3>3. h \in Ledger /\ h.extent_window = 0
      BY <2>4, <3>1, AssertingKeeps, WindowKept
    <3> HIDE DEF h
    <3> QED BY <3>2, <3>3, WindowKept
  <2>5. register_boot_barrier(new_ledger) \in Ledger
    BY BootBarriersGood, ZenonT(30) DEF Good, BootBarriers
  <2>6. gc.extent_window = 0
    BY <2>2, <2>3, <2>4, <2>5 DEF BootBarriers
  <2>7. 0 <= EXTENT_SEAL_WINDOW_ENTRIES
    BY LedgerConstants
  <2> QED BY <2>1, <2>6, <2>7 DEF TurnsCounted, EveryTurnHasAUnit
<1>2. TypeOK /\ CoverageInOrder /\ TurnsCounted /\ [Next]_vars => TurnsCounted'
  BY TurnsStep
<1>3. TurnsCounted => EveryTurnHasAUnit
  BY Zenon DEF TurnsCounted
<1> QED BY <1>1, <1>2, <1>3, TypesAndOrder, PTL DEF Spec

\* The ack map.

-----------------------------------------------------------------------------
\* A completion acknowledges up to the last covered frame and forgets the covered
\* ones; coalescing only drops entries.
LEMMA AckStep ==
    ASSUME TypeOK, AckMapOrdered, UNCHANGED <<last_seq, frames>>,
           NEW g, NEW map \in SUBSET frame_seqs, NEW ticket, NEW rest,
           on_synced(g, map, ticket, rest), on_fsync_complete(g, ticket) \in Ledger
    PROVE  AckMapOrdered' /\ acked_seq <= acked_seq'
<1> DEFINE d == on_fsync_complete(g, ticket).durable_up_to
           covered == {e \in map : e.end <= d}
           S == {e.seq : e \in covered}
<1>1. /\ frame_seqs \subseteq [end : Nat, seq : 0..MaxSeq] /\ acked_seq \in 0..MaxSeq
      /\ last_seq \in 0..MaxSeq /\ MaxSeq \in Nat /\ d \in Nat
  BY CellConstants DEF TypeOK, Ledger
<1>2. CASE acked_seq' = acked_seq /\ frame_seqs' \subseteq frame_seqs
  <2>1. acked_seq <= acked_seq'
    BY <1>1, <1>2
  <2> QED BY <1>2, <2>1 DEF AckMapOrdered
<1>3. CASE covered # {} /\ acked_seq' = Max(S) /\ frame_seqs' = map \ covered
  <2>1. S \subseteq 0..MaxSeq /\ S # {}
    BY <1>1, <1>3
  <2>2. Max(S) \in S /\ \A x \in S : x <= Max(S)
    <3> HIDE DEF S
    <3> QED BY <2>1, MaxOfSeqs, Zenon
  <2>3. PICK m \in covered : Max(S) = m.seq
    BY Zenon, <2>2
  <2>4. m \in frame_seqs /\ m.end <= d /\ m.seq <= last_seq /\ acked_seq <= m.seq
    BY Zenon, <2>3 DEF AckMapOrdered
  <2>5. ASSUME NEW e \in frame_seqs'
        PROVE  e.end <= Len(frames) /\ m.seq <= e.seq /\ e.seq <= last_seq
    <3>1. e \in frame_seqs /\ ~(e.end <= d)
      BY <1>3, <2>5
    <3>2. m.end <= e.end
      BY <1>1, <2>4, <3>1, SMTT(30)
    <3> QED BY <2>4, <3>1, <3>2, Zenon DEF AckMapOrdered
  <2>6. acked_seq' = m.seq
    BY <1>3, <2>3, Zenon
  <2>7. frame_seqs' \subseteq frame_seqs
    BY <1>3, SMTT(30)
  <2> QED BY <2>4, <2>5, <2>6, <2>7, Zenon DEF AckMapOrdered
<1>4. \/ acked_seq' = acked_seq /\ frame_seqs' \subseteq frame_seqs
      \/ covered # {} /\ acked_seq' = Max(S) /\ frame_seqs' = map \ covered
  BY Zenon DEF on_synced
<1> QED BY Zenon, <1>2, <1>3, <1>4

\* Every step keeps the ack map in order and never moves the ack gate back.
LEMMA AckMapStep ==
    ASSUME TypeOK, CoverageInOrder, AckMapOrdered, [Next]_vars
    PROVE  AckMapOrdered' /\ acked_seq <= acked_seq'
<1>0. /\ frame_seqs \subseteq [end : Nat, seq : 0..MaxSeq] /\ acked_seq \in Nat
      /\ last_seq \in Nat /\ acked_seq <= acked_seq /\ last_seq <= last_seq
      /\ Len(frames) \in Nat /\ Good(gc) /\ frames \in Seq(Frame)
  BY CellConstants DEF TypeOK, CoverageInOrder, Good
<1>1. CASE UNCHANGED <<acked_seq, last_seq, frame_seqs, frames>>
  BY <1>0, <1>1 DEF AckMapOrdered
<1>2. ASSUME NEW g, NEW class, NEW exts, StageRecord(g, class, exts)
      PROVE  AckMapOrdered' /\ acked_seq <= acked_seq'
  <2>1. last_seq' = last_seq + 1 /\ UNCHANGED <<acked_seq, frame_seqs, frames>>
    BY <1>2 DEF StageRecord
  <2>2. ASSUME NEW e \in frame_seqs PROVE e.seq <= last_seq + 1
    BY <1>0, CellConstants DEF AckMapOrdered
  <2>3. acked_seq <= last_seq + 1
    BY <1>0 DEF AckMapOrdered
  <2> QED BY <1>0, <2>1, <2>2, <2>3, Zenon DEF AckMapOrdered
<1>3. ASSUME NEW class \in Classes,
             stage(class) \/ write_blob_arrival(class) \/ write_blob_turn(class)
      PROVE  AckMapOrdered' /\ acked_seq <= acked_seq'
  BY Zenon, <1>1, <1>2, <1>3 DEF stage, write_blob_arrival, write_blob_turn, RegisterAndStage
<1>4. ASSUME NEW len \in FrameLens, seal_frame(len)
      PROVE  AckMapOrdered' /\ acked_seq <= acked_seq'
  <2> DEFINE n == Len(frames) + 1
             new == [end |-> n, seq |-> last_seq]
  <2>1. /\ frame_seqs' = frame_seqs \cup {new} /\ Len(frames') = n
        /\ UNCHANGED <<last_seq, acked_seq>>
    BY <1>0, <1>4, SMTT(60) DEF seal_frame
  <2>2. n \in Nat /\ new.end = n /\ new.seq = last_seq /\ n <= n
    BY <1>0
  <2> HIDE DEF n, new
  <2>3. ASSUME NEW e \in frame_seqs
        PROVE  e.end <= n /\ ~(n <= e.end) /\ acked_seq <= e.seq /\ e.seq <= last_seq
    BY <1>0 DEF AckMapOrdered, n
  <2>4. ASSUME NEW a \in frame_seqs', NEW b \in frame_seqs', a.end <= b.end
        PROVE  a.seq <= b.seq
    <3>1. CASE a \in frame_seqs /\ b \in frame_seqs
      BY <2>4, <3>1 DEF AckMapOrdered
    <3>2. CASE b = new
      BY <1>0, <2>1, <2>2, <2>3, <3>2
    <3>3. CASE a = new /\ b \in frame_seqs
      BY <2>2, <2>3, <2>4, <3>3
    <3> QED BY <2>1, <3>1, <3>2, <3>3
  <2> QED BY <1>0, <2>1, <2>2, <2>3, <2>4, Zenon DEF AckMapOrdered
<1>5. ASSUME NEW f \in in_flight, on_log_written(f)
      PROVE  AckMapOrdered' /\ acked_seq <= acked_seq'
  <2> DEFINE g == note_frame_written(gc, f.id)
             map == coalesce_ack_map(frame_seqs, g)
             claim == ack_map_bounded(map, g)
             g1 == Asserting(g, claim)
  <2>1. f.id \in Nat /\ f.ticket \in Nat /\ claim \in BOOLEAN
    BY Zenon, BoundedOrNot DEF TypeOK
  <2>2. map \in SUBSET frame_seqs
    BY Zenon DEF coalesce_ack_map
  <2>3. /\ UNCHANGED <<last_seq, frames>>
        /\ f.ticket # 0 => on_synced(g1, map, f.ticket, syncs)
        /\ f.ticket = 0 => frame_seqs' = map /\ acked_seq' = acked_seq
    BY <1>5 DEF on_log_written
  <2> HIDE DEF claim
  <2>4. Good(g)
    <3>1. f.id \in Nat
      BY <2>1
    <3> QED BY <1>0, <3>1, FrameWrittenKeeps, SMTT(30)
  <2> HIDE DEF g
  <2>5. Good(g1)
    BY <2>1, <2>4, AssertingKeeps DEF Good
  <2> HIDE DEF g1, map
  <2>6. on_fsync_complete(g1, f.ticket) \in Ledger
    BY Zenon, <2>1, <2>5, CompletionsKeep DEF Good
  <2>7. CASE f.ticket = 0
    BY <1>0, <2>2, <2>3, <2>7 DEF AckMapOrdered
  <2> QED BY <2>2, <2>3, <2>6, <2>7, AckStep
<1>6. ASSUME NEW s \in syncs, on_fdatasync(s)
      PROVE  AckMapOrdered' /\ acked_seq <= acked_seq'
  <2>1. /\ UNCHANGED <<last_seq, frames>> /\ s.ticket \in Nat
        /\ on_synced(gc, frame_seqs, s.ticket, syncs \ {s})
    BY <1>6 DEF on_fdatasync, TypeOK, Sync
  <2>2. on_fsync_complete(gc, s.ticket) \in Ledger
    BY <1>0, <2>1, CompletionsKeep, ZenonT(30) DEF Good
  <2> QED BY Zenon, <2>1, <2>2, AckStep
<1>7. ASSUME NEW created, NEW taken, NEW issue, maintain(created, taken, issue)
      PROVE  AckMapOrdered' /\ acked_seq <= acked_seq'
  BY <1>1, <1>7, Zenon DEF maintain
<1>8. ASSUME NEW held, seal_nothing(held)
      PROVE  AckMapOrdered' /\ acked_seq <= acked_seq'
  BY <1>1, <1>8, SMTT(30) DEF seal_nothing
<1>9. CASE drop_turn \/ on_everysec_tick \/ tier_maintain \/ truncate \/ extent_hold
           \/ reserve_no_space \/ on_zero_fill_written \/ on_log_error \/ UNCHANGED vars
  BY <1>1, <1>9, ZenonT(30) DEF drop_turn, on_everysec_tick, tier_maintain, truncate, extent_hold,
                    reserve_no_space, on_zero_fill_written, on_log_error, vars, cell
<1> QED
  BY <1>3, <1>4, <1>5, <1>6, <1>7, <1>8, <1>9, Zenon
  DEF Next, Execute, Reap, Maintain, seal_log

\* Neither the durable watermark nor the ack gate ever moves back, whatever the
\* order in which writes and syncs complete, coalesce or fail.
THEOREM WatermarksAdvance == Spec => WatermarkMonotone
<1>1. Init => AckMapOrdered
  BY DEF Init, AckMapOrdered
<1>2. TypeOK /\ CoverageInOrder /\ AckMapOrdered /\ [Next]_vars => AckMapOrdered'
  BY AckMapStep
<1>3. ASSUME TypeOK, CoverageInOrder, TypeOK', AckMapOrdered, [Next]_vars
      PROVE  [gc'.durable_up_to >= gc.durable_up_to /\ acked_seq' >= acked_seq]_vars
  <2>1. gc.durable_up_to <= gc'.durable_up_to
    <3>1. LedgerInv
      BY <1>3 DEF TypeOK, CoverageInOrder, LedgerInv, Good
    <3> QED BY Zenon, <1>3, <3>1, LedgerStep
  <2>2. acked_seq <= acked_seq'
    BY Zenon, <1>3, AckMapStep
  <2>3. /\ gc.durable_up_to \in Int /\ gc'.durable_up_to \in Int
        /\ acked_seq \in Int /\ acked_seq' \in Int
    BY <1>3 DEF TypeOK, Ledger
  <2> QED BY <2>1, <2>2, <2>3
<1> QED BY Zenon, <1>1, <1>2, <1>3, TypesAndOrder, PTL DEF Spec, WatermarkMonotone

-----------------------------------------------------------------------------
\* Syncs and writes have typed tickets.
LEMMA TicketsTyped ==
    ASSUME NEW d \in View
    PROVE  /\ \A s \in d.syncs : s.ticket \in Int /\ s.ticket \in Nat
           /\ \A f \in d.in_flight : f.ticket \in Int /\ f.ticket \in Nat /\ f.id \in Nat
BY DEF View, Sync

-----------------------------------------------------------------------------
\* With no frame in flight every frame is written.
LEMMA DrainedShape ==
    ASSUME NEW g \in Ledger, NEW d \in View, LogShape(g, d), d.in_flight = {}
    PROVE  /\ g.queued = <<>>
           /\ g.written_up_to = Len(d.frames)
           /\ DOMAIN d.frames \subseteq WrittenFrames(g)
<1>1. g.queued \in Seq(BOOLEAN) /\ g.written_up_to \in Nat /\ d.frames \in Seq(Frame)
  BY Zenon DEF Ledger, View
<1>2. g.queued = <<>>
  <2> SUFFICES ASSUME g.queued # <<>> PROVE FALSE
    OBVIOUS
  <2>1. 1 \in DOMAIN g.queued
    BY <1>1
  <2> QED BY <2>1 DEF LogShape
<1>3. g.written_up_to = Len(d.frames)
  BY <1>1, <1>2 DEF LogShape, queued_up_to
<1> QED BY <1>1, <1>2, <1>3 DEF WrittenFrames

-----------------------------------------------------------------------------
\* The view of a typed state is a view.
LEMMA SeenTyped ==
    /\ TypeOK => Seen \in View
    /\ Seen.syncs = syncs /\ Seen.in_flight = in_flight
    /\ Seen.stable = stable /\ Seen.frames = frames
BY DEF Seen, View, TypeOK, Sync

\* What changes only flags of the ledger.
LEMMA FlagsSame ==
    ASSUME NEW g \in Ledger
    PROVE  /\ \A class : /\ SameEntries(g, note_staged(g, class))
                         /\ note_staged(g, class).extent_unsent = g.extent_unsent
           /\ SameEntries(g, note_everysec_tick(g))
           /\ note_everysec_tick(g).extent_unsent = g.extent_unsent
           /\ \A claim : /\ SameEntries(g, Asserting(g, claim))
                         /\ Asserting(g, claim).extent_unsent = g.extent_unsent
           /\ SameEntries(g, issue_extent_syncs(g))
           /\ issue_extent_syncs(g).extent_unsent = 0
BY Zenon DEF SameEntries, note_staged, note_everysec_tick, Asserting, issue_extent_syncs, Ledger

-----------------------------------------------------------------------------
\* A frame in flight is one the ledger waits for.
LEMMA FlightWritten ==
    ASSUME NEW g, NEW d, NEW b, Agreed(g, d, b), NEW f \in d.in_flight
    PROVE  LET h == note_frame_written(g, f.id)
           IN  /\ Good(h) /\ queued_up_to(h) = Len(d.frames)
               /\ \E n \in 0..Len(g.queued) : Written(g, h, f.id - g.written_up_to, n)
<1> DEFINE h == note_frame_written(g, f.id)
<1>1. Good(g) /\ g \in Ledger /\ d \in View /\ LogShape(g, d)
  BY Zenon DEF Agreed, Claims, Good
<1>2. f.id \in Nat /\ f.id \in Int
  BY <1>1, TicketsTyped
<1>3. PICK n \in 0..Len(g.queued) : Written(g, h, f.id - g.written_up_to, n)
  BY Zenon, <1>1, <1>2, WrittenIs DEF LogShape
<1>4. Good(h)
  BY Zenon, <1>1, <1>2, FrameWrittenKeeps
<1> HIDE DEF h
<1>5. queued_up_to(h) = Len(d.frames)
  <2>1. g.written_up_to \in Nat /\ g.queued \in Seq(BOOLEAN)
    BY Zenon, <1>1 DEF Ledger
  <2>2. g.written_up_to + Len(g.queued) = Len(d.frames)
    BY Zenon, <1>1 DEF LogShape, queued_up_to
  <2>3. Len(g.queued) \in Nat
    BY <2>1
  <2>4. h.written_up_to = g.written_up_to + n /\ Len(h.queued) = Len(g.queued) - n
    BY Zenon, <1>3 DEF Written
  <2> DEFINE L == Len(g.queued)
             F == Len(d.frames)
             u == g.written_up_to
  <2>5. u \in Nat /\ L \in Nat /\ u + L = F /\ n \in 0..L
    BY <2>1, <2>2, <2>3
  <2>6. h.written_up_to = u + n /\ Len(h.queued) = L - n
    BY Zenon, <2>4
  <2> HIDE DEF L, F, u
  <2>7. (u + n) + (L - n) = F
    BY <2>5
  <2>8. queued_up_to(h) = F
    BY <2>6, <2>7 DEF queued_up_to
  <2> QED BY Zenon, <2>8 DEF F
<1> QED BY Zenon, <1>3, <1>4, <1>5 DEF h
================================================================================
