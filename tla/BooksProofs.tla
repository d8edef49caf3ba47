------------------------------ MODULE BooksProofs ------------------------------
(***************************************************************************)
(* The books of a running cell (Booked): what each operation of the ledger *)
(* does to the ack map, to the promises made to `always` and everysec      *)
(* writers, and to the release assertions about both; and that every       *)
(* handler keeps them.                                                     *)
(***************************************************************************)
EXTENDS DurableCellProofs

-----------------------------------------------------------------------------
\* It depends on the entries alone.
LEMMA MappedSame ==
    ASSUME NEW g, NEW h, NEW fs, NEW map, Mapped(g, fs, map), SameEntries(g, h)
    PROVE  Mapped(h, fs, map)
BY DEF Mapped, Owed, SameEntries

\* A barrier registered at the coverage tail, or at or above the written prefix.
LEMMA MappedPush ==
    ASSUME NEW g, Good(g), NEW h, NEW c, NEW reason, Pushed(g, h, c, reason),
           NEW fs, NEW map, Mapped(g, fs, map),
           c = coverage_tail(g) \/ c >= g.written_up_to
    PROVE  Mapped(h, fs, map)
<1> DEFINE L == Len(g.pending)
<1>1. /\ L \in Nat /\ DOMAIN g.pending = 1..L /\ DOMAIN h.pending = 1..(L + 1)
      /\ \A i \in 1..L : h.pending[i] = g.pending[i]
      /\ h.pending[L + 1].covers_up_to = c
  BY PushedFacts DEF Good
<1>2. h.durable_up_to = g.durable_up_to /\ h.written_up_to = g.written_up_to
      /\ g.durable_up_to \in Nat
  BY DEF Pushed, Good, Ledger
<1>3. ASSUME NEW p \in (g.durable_up_to + 1)..Len(fs), Owed(h, p)
      PROVE  Owed(g, p)
  <2>1. CASE p >= h.written_up_to
    BY <1>2, <2>1 DEF Owed
  <2>2. ASSUME NEW i \in DOMAIN h.pending, h.pending[i].covers_up_to = p
        PROVE  Owed(g, p)
    <3> HIDE DEF L
    <3>1. CASE i \in 1..L
      BY <1>1, <2>2, <3>1 DEF Owed
    <3>2. CASE i \notin 1..L
      <4>1. i = L + 1
        BY <1>1, <2>2, <3>2
      <4>2. p = c
        BY <1>1, <2>2, <4>1
      <4>3. CASE c >= g.written_up_to
        BY <4>2, <4>3 DEF Owed
      <4>4. CASE c = coverage_tail(g)
        <5>1. CASE g.pending = <<>>
          <6>1. p = g.durable_up_to
            BY <4>2, <4>4, <5>1 DEF coverage_tail
          <6> QED BY <1>2, <6>1
        <5>2. CASE g.pending # <<>>
          <6>1. g.pending[L].covers_up_to = p
            BY <4>2, <4>4, <5>2 DEF coverage_tail, L
          <6>2. L # 0
            <7>1. g.pending \in Seq(PendingFsync)
              BY DEF Good, Ledger
            <7> QED BY <5>2, <7>1 DEF L
          <6>3. L \in 1..L
            BY <1>1, <6>2
          <6> QED BY <1>1, <6>1, <6>3 DEF Owed
        <5> QED BY <5>1, <5>2
      <4> QED BY <4>3, <4>4
    <3> QED BY <3>1, <3>2
  <2> QED BY <1>3, <2>1, <2>2 DEF Owed
<1> QED BY <1>2, <1>3 DEF Mapped

\* A frame is queued and its end entered.
LEMMA MappedQueue ==
    ASSUME NEW g, Good(g), NEW h, h.pending = g.pending, h.written_up_to = g.written_up_to,
           h.durable_up_to = g.durable_up_to, NEW fs \in Seq(Frame), NEW map,
           Mapped(g, fs, map), queued_up_to(g) = Len(fs), NEW x \in Frame, NEW a,
           a.end = Len(fs) + 1, a.seq = x.seq
    PROVE  Mapped(h, Append(fs, x), map \cup {a})
<1> DEFINE F == Len(fs)
           gs == Append(fs, x)
<1>1. /\ F \in Nat /\ DOMAIN fs = 1..F /\ Len(gs) = F + 1
      /\ \A m \in 1..F : gs[m] = fs[m]
      /\ gs[F + 1] = x
  BY AppendFacts
<1>2. g.durable_up_to \in Nat /\ g.durable_up_to <= F /\ queued_up_to(g) = F
  BY DEF Good, Ledger, CoverageOrdered
<1>3. a.end = F + 1 /\ Mapped(g, fs, map)
  OBVIOUS
<1> DEFINE d == g.durable_up_to
<1>4. d \in Nat /\ d <= F
  BY <1>2
<1> HIDE DEF gs
<1>5. ASSUME NEW b \in map \cup {a}
      PROVE  b.end \in (d + 1)..(F + 1) /\ b.seq = gs[b.end].seq
  <2>1. CASE b = a
    BY <1>1, <1>3, <1>4, <2>1
  <2>2. CASE b \in map
    <3>1. b.end \in (d + 1)..F /\ b.seq = fs[b.end].seq
      BY <1>3, <2>2 DEF Mapped
    <3> HIDE DEF F, d
    <3> QED BY <1>1, <1>4, <3>1
  <2> QED BY <1>5, <2>1, <2>2
<1>6. ASSUME NEW p \in (d + 1)..(F + 1), Owed(h, p)
      PROVE  \E b \in map \cup {a} : b.end = p
  <2>1. CASE p = F + 1
    BY <1>3, <2>1
  <2>2. CASE p # F + 1
    <3>1. p \in (d + 1)..F
      <4> HIDE DEF d, F
      <4> QED BY <1>1, <1>4, <1>6, <2>2
    <3>2. Owed(g, p)
      BY <1>6 DEF Owed
    <3> QED BY <1>3, <3>1, <3>2 DEF Mapped
  <2> QED BY <2>1, <2>2
<1>7. Mapped(h, gs, map \cup {a})
  BY <1>1, <1>5, <1>6 DEF Mapped
<1> QED BY <1>7 DEF gs

\* A nonempty set of naturals has a least one.
LEMMA MinOfNats ==
    ASSUME NEW S \in SUBSET Nat, S # {}
    PROVE  Min(S) \in S /\ \A x \in S : Min(S) <= x
<1>1. PICK m \in S : \A n \in S : m <= n
  BY LeastNat
<1> QED BY <1>1, ZenonT(30) DEF Min

\* What coalescing keeps: an entry at an end the watermark may come to stand at.
LEMMA CoalesceKeeps ==
    ASSUME NEW g, g.written_up_to \in Nat, NEW map, \A b \in map : b.end \in Nat,
           NEW a \in map, Owed(g, a.end)
    PROVE  a \in coalesce_ack_map(map, g)
<1> DEFINE later == {b.end : b \in {c \in map : c.end > a.end}}
<1>1. later \in SUBSET Nat /\ \A n \in later : n > a.end
  OBVIOUS
<1>2. \/ later = {} \/ Min(later) > g.written_up_to
      \/ pending_covers_within(g, a.end, Min(later))
  <2> HIDE DEF later
  <2> SUFFICES ASSUME later # {}
               PROVE  Min(later) > g.written_up_to
                      \/ pending_covers_within(g, a.end, Min(later))
    OBVIOUS
  <2> DEFINE m == Min(later)
  <2>1. m \in later
    BY <1>1, MinOfNats
  <2>2. m \in Nat /\ m > a.end
    BY Zenon, <1>1, <2>1
  <2> HIDE DEF m
  <2>3. a.end \in Nat
    OBVIOUS
  <2>4. CASE a.end >= g.written_up_to
    <3>1. m > g.written_up_to
      BY <2>2, <2>3, <2>4
    <3> QED BY <3>1 DEF m
  <2>5. ASSUME NEW i \in DOMAIN g.pending, g.pending[i].covers_up_to = a.end
        PROVE  pending_covers_within(g, a.end, m)
    <3>1. a.end \in a.end..(m - 1)
      BY <2>2, <2>3
    <3> QED BY <2>5, <3>1 DEF pending_covers_within
  <2> QED BY <2>4, <2>5 DEF Owed, m
<1> QED BY <1>2 DEF coalesce_ack_map

\* A frame's write completes and the map coalesces.
LEMMA MappedWritten ==
    ASSUME NEW g, Good(g), NEW h, h \in Ledger, NEW i, NEW n \in Nat, Written(g, h, i, n),
           NEW fs \in Seq(Frame), NEW map, Mapped(g, fs, map)
    PROVE  Mapped(h, fs, coalesce_ack_map(map, h))
<1>1. /\ h.pending = g.pending /\ h.durable_up_to = g.durable_up_to
      /\ h.written_up_to = g.written_up_to + n
      /\ g.written_up_to \in Nat /\ h.written_up_to \in Nat /\ g.durable_up_to \in Nat
      /\ Len(fs) \in Nat
  BY DEF Written, Good, Ledger
<1>2. coalesce_ack_map(map, h) \subseteq map
  BY DEF coalesce_ack_map
<1>3. \A b \in map : b.end \in Nat
  <2> SUFFICES ASSUME NEW b \in map PROVE b.end \in Nat
    OBVIOUS
  <2>1. b.end \in (g.durable_up_to + 1)..Len(fs)
    BY DEF Mapped
  <2> QED BY <1>1, <2>1
<1>4. ASSUME NEW p \in (h.durable_up_to + 1)..Len(fs), Owed(h, p)
      PROVE  \E a \in coalesce_ack_map(map, h) : a.end = p
  <2>1. Owed(g, p)
    <3>1. p \in Nat
      BY <1>1
    <3> QED BY <1>1, <1>4, <3>1 DEF Owed
  <2>2. PICK a \in map : a.end = p
    BY <1>1, <2>1 DEF Mapped
  <2>3. a \in coalesce_ack_map(map, h)
    BY <1>1, <1>3, <1>4, <2>2, CoalesceKeeps
  <2> QED BY <2>2, <2>3
<1> QED BY <1>1, <1>2, <1>4 DEF Mapped

\* A sync completes: what the watermark passes is forgotten, and the last seq of it is
\* the one of the frame the watermark now stands at.
LEMMA MappedComplete ==
    ASSUME NEW g, Good(g), NEW h \in Ledger, NEW i, NEW k \in 0..Len(g.pending),
           Completed(g, h, i, k), NEW fs \in Seq(Frame), queued_up_to(g) = Len(fs),
           Rising(fs, MaxSeq), NEW map, Mapped(g, fs, map)
    PROVE  LET covered == {e \in map : e.end <= h.durable_up_to}
           IN  /\ Mapped(h, fs, map \ covered)
               /\ h.durable_up_to = g.durable_up_to => Mapped(h, fs, map)
               /\ h.durable_up_to # g.durable_up_to =>
                      covered # {} /\ Max({e.seq : e \in covered}) = SeqAt(fs, h.durable_up_to)
<1> DEFINE d == g.durable_up_to
           e == h.durable_up_to
           F == Len(fs)
           covered == {a \in map : a.end <= e}
<1>1. /\ g \in Ledger /\ d \in Nat /\ e \in Nat /\ F \in Nat /\ DOMAIN fs = 1..F
      /\ Len(g.pending) \in Nat /\ DOMAIN g.pending = 1..Len(g.pending)
  <2>1. g \in Ledger
    BY DEF Good
  <2>2. d \in Nat /\ e \in Nat /\ g.pending \in Seq(PendingFsync)
    BY <2>1 DEF Ledger
  <2>3. F \in Nat /\ DOMAIN fs = 1..F
    OBVIOUS
  <2> QED BY <2>1, <2>2, <2>3
<1>2. e = IF k = 0 THEN d ELSE g.pending[k].covers_up_to
  BY DEF Completed
<1>3. k # 0 => /\ k \in DOMAIN g.pending /\ d <= g.pending[k].covers_up_to
               /\ g.pending[k].covers_up_to <= F
  <2> SUFFICES ASSUME k # 0
               PROVE  /\ k \in DOMAIN g.pending /\ d <= g.pending[k].covers_up_to
                      /\ g.pending[k].covers_up_to <= F
    OBVIOUS
  <2>1. k \in DOMAIN g.pending
    BY <1>1
  <2> QED BY <2>1 DEF Good, CoverageOrdered
<1>4. d <= e
  BY <1>1, <1>2, <1>3
<1>5. ASSUME NEW p \in (e + 1)..F, Owed(h, p)
      PROVE  Owed(g, p)
  <2>1. CASE p >= h.written_up_to
    BY <2>1 DEF Owed, Completed
  <2>2. ASSUME NEW j \in DOMAIN h.pending, h.pending[j].covers_up_to = p
        PROVE  Owed(g, p)
    <3> DEFINE L == Len(g.pending)
    <3>1. j \in 1..(L - k) /\ L \in Nat
      BY <1>1, <2>2 DEF Completed
    <3>2. h.pending[j].covers_up_to = g.pending[k + j].covers_up_to
      BY <3>1 DEF Completed
    <3>3. k \in 0..L
      OBVIOUS
    <3> HIDE DEF L
    <3>4. k + j \in 1..L
      BY <3>1, <3>3
    <3> QED BY <1>1, <2>2, <3>2, <3>4 DEF Owed, L
  <2> QED BY <1>5, <2>1, <2>2 DEF Owed
<1>6. \A a \in map : a.end \in (d + 1)..F /\ a.seq = fs[a.end].seq
  BY DEF Mapped
<1>7. \A p \in (d + 1)..F : Owed(g, p) => \E a \in map : a.end = p
  BY DEF Mapped
<1> HIDE DEF d, e, F
<1>8. ASSUME NEW p \in (e + 1)..F, Owed(h, p)
      PROVE  \E a \in map \ covered : a.end = p
  <2>1. p \in (d + 1)..F
    BY <1>1, <1>4
  <2>2. PICK a \in map : a.end = p
    BY <1>5, <1>7, <1>8, <2>1
  <2>3. ~(a.end <= e)
    BY <1>1, <2>2
  <2> QED BY <2>2, <2>3
<1>9. ASSUME NEW a \in map \ covered
      PROVE  a.end \in (e + 1)..F /\ a.seq = fs[a.end].seq
  <2>1. a.end \in (d + 1)..F /\ ~(a.end <= e) /\ a.seq = fs[a.end].seq
    BY <1>6
  <2> QED BY <1>1, <2>1
<1>10. Mapped(h, fs, map \ covered)
  BY <1>8, <1>9 DEF Mapped, e, F
<1>11. e = d => Mapped(h, fs, map)
  <2> SUFFICES ASSUME e = d PROVE Mapped(h, fs, map)
    OBVIOUS
  <2>1. \A a \in map : a.end \in (e + 1)..F /\ a.seq = fs[a.end].seq
    BY <1>6
  <2>2. \A p \in (e + 1)..F : Owed(h, p) => \E a \in map : a.end = p
    BY Zenon, <1>5, <1>7
  <2> QED BY <2>1, <2>2 DEF Mapped, e, F
<1>12. ASSUME e # d
       PROVE  covered # {} /\ Max({a.seq : a \in covered}) = SeqAt(fs, e)
  <2>1. k # 0 /\ e = g.pending[k].covers_up_to /\ k \in DOMAIN g.pending /\ e <= F
    BY <1>2, <1>3, <1>12
  <2>2. e \in (d + 1)..F /\ e # 0
    BY <1>1, <1>4, <1>12, <2>1
  <2>3. Owed(g, e)
    BY <2>1 DEF Owed
  <2>4. PICK a \in map : a.end = e
    BY <1>7, <2>2, <2>3
  <2>5. a \in covered /\ a.seq = fs[e].seq
    BY <1>1, <1>6, <2>4
  <2>6. e \in DOMAIN fs
    BY <1>1, <2>2
  <2>7. \A n \in DOMAIN fs : fs[n].seq \in 0..MaxSeq
    <3> SUFFICES ASSUME NEW n \in DOMAIN fs PROVE fs[n].seq \in 0..MaxSeq
      OBVIOUS
    <3>1. fs[n] \in Frame /\ fs[n].seq <= MaxSeq
      BY DEF Rising
    <3> QED BY <3>1, CellConstants DEF Frame
  <2>8. ASSUME NEW b \in covered
        PROVE  b.seq \in 0..MaxSeq /\ b.seq <= fs[e].seq
    <3>1. b.end \in (d + 1)..F /\ b.end <= e /\ b.seq = fs[b.end].seq
      BY Zenon, <1>6
    <3>2. b.end \in DOMAIN fs
      BY <1>1, <3>1
    <3> QED BY <2>6, <2>7, <3>1, <3>2 DEF Rising
  <2> DEFINE S == {b.seq : b \in covered}
  <2>9. S \subseteq 0..MaxSeq /\ fs[e].seq \in S /\ \A x \in S : x <= fs[e].seq
    BY <2>5, <2>8
  <2> HIDE DEF S
  <2>10. Max(S) \in S /\ fs[e].seq <= Max(S) /\ Max(S) <= fs[e].seq
    BY Zenon, <2>9, MaxOfSeqs
  <2>11. Max(S) \in Int /\ fs[e].seq \in Int
    <3>0. \A x \in 0..MaxSeq : x \in Int
      BY CellConstants
    <3>1. \A x \in S : x \in Int
      BY Zenon, <2>9, <3>0
    <3> QED BY Zenon, <2>9, <2>10, <3>1
  <2>12. Max(S) = fs[e].seq
    BY <2>10, <2>11
  <2> QED BY <2>2, <2>5, <2>12 DEF S, SeqAt
<1> QED BY <1>10, <1>11, <1>12 DEF d, e

-----------------------------------------------------------------------------
\* Later frame ends carry later seqs.
LEMMA SeqAtRises ==
    ASSUME NEW fs \in Seq(Frame), NEW last \in Nat, Rising(fs, last),
           NEW m \in 0..Len(fs), NEW n \in 0..Len(fs), m <= n
    PROVE  /\ SeqAt(fs, m) \in Nat /\ SeqAt(fs, n) \in Nat
           /\ SeqAt(fs, m) <= SeqAt(fs, n) /\ SeqAt(fs, n) <= last
<1>1. Len(fs) \in Nat /\ DOMAIN fs = 1..Len(fs)
  OBVIOUS
<1>2. \A k \in 1..Len(fs) : fs[k].seq \in Nat /\ fs[k].seq <= last
  <2> SUFFICES ASSUME NEW k \in 1..Len(fs) PROVE fs[k].seq \in Nat /\ fs[k].seq <= last
    OBVIOUS
  <2>1. k \in DOMAIN fs /\ fs[k] \in Frame
    BY <1>1
  <2> QED BY <2>1 DEF Frame, Rising
<1>3. CASE m = 0
  BY <1>1, <1>2, <1>3 DEF SeqAt
<1>4. CASE m # 0
  <2>1. m \in 1..Len(fs) /\ n \in 1..Len(fs)
    BY <1>1, <1>4
  <2>2. fs[m].seq <= fs[n].seq
    BY <1>1, <2>1 DEF Rising
  <2> QED BY <1>2, <2>1, <2>2 DEF SeqAt
<1> QED BY <1>3, <1>4

\* Only the flags and the coverage tail matter to the promises, and a later tail is as
\* good.
LEMMA PromisesLater ==
    ASSUME NEW g, NEW h, NEW fs \in Seq(Frame), NEW n, NEW last \in Nat, NEW prom \in Nat,
           Promises(g, fs, n, last, prom), Rising(fs, last), SameFlags(g, h),
           coverage_tail(g) \in 0..Len(fs), coverage_tail(h) \in 0..Len(fs),
           coverage_tail(g) <= coverage_tail(h)
    PROVE  Promises(h, fs, n, last, prom)
<1> DEFINE c == coverage_tail(g)
           e == coverage_tail(h)
<1>1. SeqAt(fs, c) \in Nat /\ SeqAt(fs, e) \in Nat /\ SeqAt(fs, c) <= SeqAt(fs, e)
  BY SeqAtRises
<1> HIDE DEF c, e
<1>2. ~h.sync_due => prom <= SeqAt(fs, e)
  <2>1. ~h.sync_due => prom <= SeqAt(fs, c)
    BY DEF Promises, SameFlags, c
  <2> QED BY <1>1, <2>1
<1>3. /\ n # 0 => h.always_unqueued \/ h.everysec_unqueued
      /\ h.always_unqueued => h.always_pending
  BY DEF Promises, SameFlags
<1>4. (n = 0 => last = SeqAt(fs, Len(fs))) /\ prom <= last
  BY DEF Promises
<1> QED BY <1>2, <1>3, <1>4 DEF Promises, e

\* The coverage tail is the last entry's.
LEMMA PushedTail ==
    ASSUME NEW g \in Ledger, NEW h \in Ledger, NEW c, NEW reason, Pushed(g, h, c, reason)
    PROVE  coverage_tail(h) = c
<1> DEFINE L == Len(g.pending)
<1>1. L \in Nat /\ Len(h.pending) = L + 1 /\ h.pending[L + 1].covers_up_to = c
  BY PushedFacts
<1>2. h.pending # <<>>
  <2>1. h.pending \in Seq(PendingFsync)
    BY DEF Ledger
  <2> HIDE DEF L
  <2> QED BY <1>1, <2>1
<1> QED BY <1>1, <1>2 DEF coverage_tail

\* A sync registered without touching the flags.
LEMMA BooksPush ==
    ASSUME NEW g, Good(g), NEW h, Good(h), NEW c, NEW reason, Pushed(g, h, c, reason),
           c = coverage_tail(g) \/ c >= g.written_up_to, c >= coverage_tail(g),
           SameFlags(g, h), NEW fs, NEW map, NEW n, NEW last, NEW prom,
           Books(g, fs, map, n, last, prom)
    PROVE  Books(h, fs, map, n, last, prom)
<1>1. Mapped(h, fs, map)
  BY MappedPush DEF Books
<1>2. queued_up_to(h) = queued_up_to(g)
  BY DEF Pushed, queued_up_to
<1>3. coverage_tail(h) = c
  BY Zenon, PushedTail DEF Good
<1>4. /\ coverage_tail(g) \in 0..Len(fs) /\ coverage_tail(h) \in 0..Len(fs)
      /\ coverage_tail(g) <= coverage_tail(h)
  BY <1>2, <1>3, TailBounds DEF Good, Books
<1>5. Promises(h, fs, n, last, prom)
  BY Zenon, <1>4, PromisesLater DEF Books
<1> QED BY <1>1, <1>2, <1>5 DEF Books, SameFlags

-----------------------------------------------------------------------------
\* A push leaves the flags alone, and its release assertions hold.
LEMMA PushFlags ==
    ASSUME NEW g, Good(g), NEW c \in Nat, NEW reason, coverage_tail(g) <= c,
           reason \in {"Linked", "Standalone", "Completion"} => g.flush_in_flight < flush_bound,
           reason = "WriteThrough" => ~write_through_window_full(g)
    PROVE  SameFlags(g, push_pending(g, c, reason))
<1> DEFINE claim == /\ g.pending # <<>> => coverage_tail(g) <= c
                    /\ reason \in {"Linked", "Standalone", "Completion"} =>
                           g.flush_in_flight < flush_bound
                    /\ reason = "WriteThrough" => ~write_through_window_full(g)
           a == Asserting(g, claim)
           h == push_pending(g, c, reason)
<1>1. claim
  OBVIOUS
<1>2. g \in Ledger
  BY DEF Good
<1>3. /\ h.sync_due = a.sync_due /\ h.always_pending = a.always_pending
      /\ h.always_unqueued = a.always_unqueued /\ h.everysec_unqueued = a.everysec_unqueued
      /\ h.panic = a.panic
  BY <1>2, SMTT(30) DEF push_pending, Ledger, Asserting
<1> HIDE DEF claim, h
<1>4. /\ a.sync_due = g.sync_due /\ a.always_pending = g.always_pending
      /\ a.always_unqueued = g.always_unqueued /\ a.everysec_unqueued = g.everysec_unqueued
      /\ a.panic = (g.panic \/ ~claim)
  BY <1>2 DEF Ledger, Asserting
<1> QED BY Zenon, <1>1, <1>3, <1>4 DEF SameFlags, h

\* An assertion that holds.
LEMMA AssertFlags ==
    ASSUME NEW g \in Ledger, NEW claim, claim
    PROVE  SameFlags(g, Asserting(g, claim))
BY Zenon DEF SameFlags, Asserting, Ledger

\* The barriers that promise no log bytes.
LEMMA BooksTail ==
    ASSUME NEW g, Good(g), NEW fs, NEW map, NEW n, NEW last, NEW prom,
           Books(g, fs, map, n, last, prom)
    PROVE  /\ Books(register_prealloc_barrier(g), fs, map, n, last, prom)
           /\ Books(register_zero_fill_barrier(g), fs, map, n, last, prom)
           /\ Books(register_extent(g), fs, map, n, last, prom)
<1>1. coverage_tail(g) \in Nat /\ coverage_tail(g) <= coverage_tail(g)
  BY TailBounds DEF Good
<1>2. SameFlags(g, register_prealloc_barrier(g)) /\ SameFlags(g, register_zero_fill_barrier(g))
  BY <1>1, PushFlags DEF register_prealloc_barrier, register_zero_fill_barrier
<1>3. SameFlags(g, register_extent(g))
  <2> DEFINE i == [g EXCEPT !.extent_window = @ + 1, !.extent_unsent = @ + 1]
  <2>1. g \in Ledger
    BY DEF Good
  <2>2. i \in Ledger /\ SameEntries(g, i) /\ SameFlags(g, i)
    <3> DEFINE w == g.extent_window + 1
               u == g.extent_unsent + 1
    <3>1. w \in Int /\ u \in Nat
      BY <2>1 DEF Ledger
    <3> HIDE DEF w, u
    <3>2. [g EXCEPT !.extent_window = w, !.extent_unsent = u] \in Ledger
      BY Zenon, <2>1, <3>1 DEF Ledger
    <3>3. SameEntries(g, i) /\ SameFlags(g, i)
      BY <2>1 DEF Ledger, SameEntries, SameFlags
    <3> QED BY <3>2, <3>3 DEF w, u
  <2>3. Good(i) /\ coverage_tail(i) = coverage_tail(g)
    <3>1. queued_up_to(i) = queued_up_to(g) /\ coverage_tail(i) = coverage_tail(g)
      BY <2>2 DEF queued_up_to, coverage_tail, SameEntries
    <3> HIDE DEF i
    <3> QED BY <2>1, <2>2, <3>1, SameLog DEF Good, SameEntries
  <2>4. register_extent(g) = push_pending(i, coverage_tail(g), "ExtentSeal")
    BY DEF register_extent
  <2> HIDE DEF i
  <2>5. SameFlags(i, register_extent(g))
    BY <1>1, <2>3, <2>4, PushFlags
  <2> QED BY <2>2, <2>5 DEF SameFlags
<1> QED BY Zenon, <1>1, <1>2, <1>3, TailBarriersKeep, Registrations, BooksPush

\* Only flags, or nothing, change.
LEMMA BooksSame ==
    ASSUME NEW g, Good(g), NEW h, SameEntries(g, h), SameFlags(g, h),
           NEW fs, NEW map, NEW n, NEW last, NEW prom, Books(g, fs, map, n, last, prom)
    PROVE  Books(h, fs, map, n, last, prom)
<1>1. Mapped(h, fs, map)
  BY MappedSame DEF Books
<1>2. queued_up_to(h) = queued_up_to(g) /\ coverage_tail(h) = coverage_tail(g)
  BY DEF SameEntries, queued_up_to, coverage_tail
<1>3. Promises(h, fs, n, last, prom)
  BY Zenon, <1>2 DEF Books, Promises, SameFlags
<1> QED BY <1>1, <1>2, <1>3 DEF Books, SameFlags

\* A record is staged.
LEMMA BooksStaged ==
    ASSUME NEW g, Good(g), NEW fs, NEW map, NEW n, NEW last, NEW prom,
           Books(g, fs, map, n, last, prom), NEW class \in FsyncClass
    PROVE  Books(note_staged(g, class), fs, map, n + 1, last + 1,
                 IF class = "Always" THEN last + 1 ELSE prom)
<1> DEFINE h == note_staged(g, class)
<1>1. g \in Ledger
  BY DEF Good
<1>2. /\ SameEntries(g, h) /\ (h.panic <=> g.panic)
      /\ class = "Always" => h.always_pending /\ h.always_unqueued /\ h.sync_due
      /\ class # "Always" => /\ h.always_pending <=> g.always_pending
                             /\ h.always_unqueued <=> g.always_unqueued
                             /\ h.sync_due <=> g.sync_due
                             /\ h.everysec_unqueued
  <2>1. SameEntries(g, h) /\ h.panic = g.panic
    BY <1>1 DEF note_staged, Ledger, SameEntries
  <2>2. ASSUME class = "Always"
        PROVE  h.always_pending = TRUE /\ h.always_unqueued = TRUE /\ h.sync_due = TRUE
    BY <1>1, <2>2 DEF note_staged, Ledger
  <2>3. ASSUME class # "Always"
        PROVE  /\ h.always_pending = g.always_pending
               /\ h.always_unqueued = g.always_unqueued
               /\ h.sync_due = g.sync_due
               /\ h.everysec_unqueued = TRUE
    BY <1>1, <2>3 DEF note_staged, Ledger
  <2> HIDE DEF h
  <2> QED BY <2>1, <2>2, <2>3, Zenon
<1> HIDE DEF h
<1>3. Mapped(h, fs, map)
  BY Zenon, <1>2, MappedSame DEF Books
<1>4. queued_up_to(h) = queued_up_to(g) /\ coverage_tail(h) = coverage_tail(g)
  BY <1>2 DEF SameEntries, queued_up_to, coverage_tail
<1>5. fs \in Seq(Frame) /\ n \in Nat /\ last \in Nat /\ prom \in Nat /\ prom <= last
  BY DEF Books, Promises
<1>6. Rising(fs, last + 1)
  <2>1. \A k \in DOMAIN fs : fs[k].seq \in Nat /\ fs[k].seq <= last
    <3> SUFFICES ASSUME NEW k \in DOMAIN fs PROVE fs[k].seq \in Nat /\ fs[k].seq <= last
      OBVIOUS
    <3>1. fs[k] \in Frame /\ fs[k].seq <= last
      BY <1>5 DEF Books, Rising
    <3> QED BY <3>1 DEF Frame
  <2> QED BY <1>5, <2>1 DEF Books, Rising
<1>7. Promises(h, fs, n + 1, last + 1, IF class = "Always" THEN last + 1 ELSE prom)
  <2>1. n + 1 # 0
    BY <1>5
  <2>2. CASE class = "Always"
    BY <1>2, <1>5, <2>1, <2>2 DEF Promises
  <2>3. CASE class # "Always"
    <3>1. ~h.sync_due => prom <= SeqAt(fs, coverage_tail(h))
      BY <1>2, <1>4, <2>3 DEF Books, Promises
    <3>2. h.always_unqueued => h.always_pending
      BY <1>2, <2>3 DEF Books, Promises
    <3> QED BY <1>2, <1>5, <2>1, <2>3, <3>1, <3>2 DEF Promises
  <2> QED BY <2>2, <2>3
<1> QED BY <1>2, <1>3, <1>4, <1>5, <1>6, <1>7 DEF Books, h

\* The tick promises every record staged so far: a cell it finds idle owes none.
LEMMA BooksTick ==
    ASSUME NEW g, Good(g), NEW fs, NEW map, NEW n, NEW last, NEW prom,
           Books(g, fs, map, n, last, prom)
    PROVE  Books(note_everysec_tick(g), fs, map, n, last, last)
<1> DEFINE h == note_everysec_tick(g)
<1>1. g \in Ledger
  BY DEF Good
<1>2. /\ SameEntries(g, h) /\ (h.panic <=> g.panic)
      /\ h.always_pending <=> g.always_pending
      /\ h.always_unqueued <=> g.always_unqueued
      /\ h.everysec_unqueued <=> g.everysec_unqueued
      /\ h.sync_due <=> g.sync_due \/ ~idle(g)
  <2> DEFINE due == g.sync_due \/ ~idle(g)
  <2>1. h = [g EXCEPT !.sync_due = due]
    BY DEF note_everysec_tick
  <2> HIDE DEF h, due
  <2>2. /\ SameEntries(g, h) /\ h.panic = g.panic /\ h.always_pending = g.always_pending
        /\ h.always_unqueued = g.always_unqueued /\ h.everysec_unqueued = g.everysec_unqueued
        /\ h.sync_due = due
    BY <1>1, <2>1 DEF Ledger, SameEntries
  <2> QED BY Zenon, <2>2 DEF due
<1> HIDE DEF h
<1>3. Mapped(h, fs, map)
  BY <1>2, MappedSame DEF Books
<1>4. queued_up_to(h) = queued_up_to(g) /\ coverage_tail(h) = coverage_tail(g)
  BY <1>2 DEF SameEntries, queued_up_to, coverage_tail
<1>5. ASSUME ~h.sync_due
      PROVE  last <= SeqAt(fs, coverage_tail(h))
  <2>1. idle(g)
    BY <1>2, <1>5
  <2>2. n = 0
    BY <2>1 DEF idle, Books, Promises
  <2>3. coverage_tail(g) = queued_up_to(g)
    <3>1. /\ coverage_tail(g) \in Nat /\ g.durable_up_to <= coverage_tail(g)
          /\ coverage_tail(g) <= queued_up_to(g)
      BY TailBounds DEF Good
    <3>2. queued_up_to(g) = g.durable_up_to /\ g.durable_up_to \in Nat
      BY <1>1, <2>1 DEF idle, Ledger
    <3> QED BY <3>1, <3>2
  <2> QED BY <1>4, <2>2, <2>3 DEF Books, Promises
<1>6. Promises(h, fs, n, last, last)
  BY <1>2, <1>5 DEF Books, Promises
<1> QED BY Zenon, <1>2, <1>3, <1>4, <1>6 DEF Books, h

-----------------------------------------------------------------------------
\* A rotation's seal sync, on a drained queue.
LEMMA BooksSeal ==
    ASSUME NEW g, Good(g), drained(g), NEW fs, NEW map, NEW n, NEW last, NEW prom,
           Books(g, fs, map, n, last, prom)
    PROVE  Books(register_seal_fsync(g), fs, map, n, last, prom)
<1> DEFINE a == Asserting(g, drained(g))
           h == register_seal_fsync(g)
<1>1. g \in Ledger /\ drained(g) \in BOOLEAN
  BY Zenon DEF Good, drained
<1>2. SameFlags(g, a) /\ SameEntries(g, a) /\ Good(a)
  <2>1. SameFlags(g, a)
    BY Zenon, <1>1, AssertFlags
  <2>2. SameEntries(g, a)
    BY <1>1 DEF SameEntries, Asserting, Ledger
  <2> QED BY Zenon, <1>1, <2>1, <2>2, AssertingKeeps DEF Good
<1>3. /\ queued_up_to(g) \in Nat /\ coverage_tail(g) <= queued_up_to(g)
      /\ queued_up_to(g) >= g.written_up_to /\ coverage_tail(a) = coverage_tail(g)
  <2>1. coverage_tail(g) <= queued_up_to(g)
    BY TailBounds DEF Good
  <2>2. g.written_up_to \in Nat /\ Len(g.queued) \in Nat
    BY <1>1 DEF Ledger
  <2>3. coverage_tail(a) = coverage_tail(g)
    BY Zenon, <1>2 DEF SameEntries, coverage_tail
  <2>4. queued_up_to(g) \in Nat /\ queued_up_to(g) >= g.written_up_to
    BY <2>2 DEF queued_up_to
  <2> QED BY Zenon, <2>1, <2>3, <2>4
<1>4. h = push_pending(a, queued_up_to(g), "Seal")
  BY DEF register_seal_fsync
<1> HIDE DEF a
<1>5. SameFlags(a, h)
  BY <1>2, <1>3, <1>4, PushFlags
<1>6. SameFlags(g, h)
  BY <1>2, <1>5 DEF SameFlags
<1>7. Good(h) /\ Pushed(g, h, queued_up_to(g), "Seal")
  BY Zenon, SealKeeps, Registrations
<1> HIDE DEF h
<1> QED BY Zenon, <1>3, <1>6, <1>7, BooksPush DEF h

\* A frame takes every record of the builder.
LEMMA BooksQueue ==
    ASSUME NEW g, Good(g), NEW fs, NEW map, NEW n, NEW last, NEW prom,
           Books(g, fs, map, n, last, prom), NEW x \in Frame, x.seq = last,
           frames_unwritten(g) < MAX_FRAMES_IN_FLIGHT, ~reorder_window_full(g)
    PROVE  Books(note_frame_queued(g), Append(fs, x),
                 map \cup {[end |-> Len(fs) + 1, seq |-> last]}, 0, last, prom)
<1> DEFINE h == note_frame_queued(g)
           gs == Append(fs, x)
           a == [end |-> Len(fs) + 1, seq |-> last]
           F == Len(fs)
           claim == frames_unwritten(g) < MAX_FRAMES_IN_FLIGHT /\ ~reorder_window_full(g)
           b == Asserting(g, claim)
<1>1. g \in Ledger
  BY DEF Good
<1>2. /\ h.sync_due = b.sync_due /\ h.panic = b.panic /\ h.pending = b.pending
      /\ h.written_up_to = b.written_up_to /\ h.durable_up_to = b.durable_up_to
      /\ h.always_unqueued = FALSE
  BY <1>1, SMTT(30) DEF note_frame_queued, Ledger, Asserting
<1>3. claim
  OBVIOUS
<1> HIDE DEF claim
<1>4. /\ b.sync_due = g.sync_due /\ b.panic = (g.panic \/ ~claim) /\ b.pending = g.pending
      /\ b.written_up_to = g.written_up_to /\ b.durable_up_to = g.durable_up_to
  BY Zenon, <1>1 DEF Ledger, Asserting
<1> HIDE DEF h, b
<1>5. /\ h.pending = g.pending /\ h.written_up_to = g.written_up_to
      /\ h.durable_up_to = g.durable_up_to /\ (h.sync_due <=> g.sync_due)
      /\ ~h.panic /\ ~h.always_unqueued
  BY Zenon, <1>2, <1>3, <1>4 DEF Books
<1>6. /\ fs \in Seq(Frame) /\ last \in Nat /\ prom \in Nat /\ prom <= last
      /\ queued_up_to(g) = F /\ Mapped(g, fs, map) /\ Rising(fs, last)
  BY DEF Books, Promises
<1>7. a.end = Len(fs) + 1 /\ a.seq = x.seq
  OBVIOUS
<1>8. Mapped(h, gs, map \cup {a})
  <2> HIDE DEF a
  <2> QED BY <1>5, <1>6, <1>7, MappedQueue
<1>9. /\ F \in Nat /\ DOMAIN fs = 1..F /\ Len(gs) = F + 1 /\ DOMAIN gs = 1..(F + 1)
      /\ \A m \in 1..F : gs[m] = fs[m]
      /\ gs[F + 1] = x /\ gs \in Seq(Frame)
  BY <1>6, AppendFacts
<1> HIDE DEF gs, a
<1>10. Rising(gs, last)
  <2>1. \A m \in 1..F : fs[m].seq \in Nat /\ fs[m].seq <= last
    <3> SUFFICES ASSUME NEW m \in 1..F PROVE fs[m].seq \in Nat /\ fs[m].seq <= last
      OBVIOUS
    <3>1. m \in DOMAIN fs /\ fs[m] \in Frame
      BY <1>6, <1>9
    <3> QED BY Zenon, <1>6, <3>1 DEF Frame, Rising
  <2>2. \A m \in 1..(F + 1) : m = F + 1 \/ m \in 1..F
    BY <1>9
  <2> HIDE DEF F
  <2>3. \A m \in 1..(F + 1) : gs[m].seq <= last
    BY <1>6, <1>9, <2>1, <2>2
  <2>4. ASSUME NEW m \in 1..(F + 1), NEW k \in 1..(F + 1), m <= k
        PROVE  gs[m].seq <= gs[k].seq
    <3>1. CASE k = F + 1
      BY Zenon, <1>9, <2>3, <3>1
    <3>2. CASE k # F + 1
      <4>1. m \in 1..F /\ k \in 1..F
        BY <1>9, <2>4, <3>2
      <4> QED BY Zenon, <1>6, <1>9, <2>4, <4>1 DEF Rising
    <3> QED BY Zenon, <3>1, <3>2
  <2> QED BY Zenon, <1>9, <2>3, <2>4 DEF Rising
<1>11. queued_up_to(h) = F + 1
  BY Zenon, <1>6, FrameQueuedKeeps DEF h
<1>12. Promises(h, gs, 0, last, prom)
  <2>1. SeqAt(gs, F + 1) = last
    BY <1>9 DEF SeqAt
  <2>2. coverage_tail(h) = coverage_tail(g)
    BY Zenon, <1>5 DEF coverage_tail
  <2>3. coverage_tail(g) \in 0..F
    BY <1>6, TailBounds DEF Good
  <2>4. SeqAt(gs, coverage_tail(g)) = SeqAt(fs, coverage_tail(g))
    <3> DEFINE c == coverage_tail(g)
    <3> HIDE DEF c, F
    <3>1. c = 0 \/ c \in 1..F
      BY <1>9, <2>3 DEF c
    <3>2. SeqAt(gs, c) = SeqAt(fs, c)
      BY <1>9, <3>1 DEF SeqAt
    <3> QED BY Zenon, <3>2 DEF c
  <2>5. ~h.sync_due => prom <= SeqAt(gs, coverage_tail(h))
    BY <1>5, <2>2, <2>4 DEF Books, Promises
  <2> QED BY Zenon, <1>5, <1>6, <1>9, <2>1, <2>5 DEF Promises
<1>13. 0 \in Nat
  OBVIOUS
<1> QED BY <1>5, <1>6, <1>8, <1>9, <1>10, <1>11, <1>12, <1>13 DEF Books, gs, a, h

-----------------------------------------------------------------------------
\* The due is discharged by a sync of everything queued, with nothing left to queue.
LEMMA BooksDischarged ==
    ASSUME NEW g, Good(g), NEW h, Good(h), NEW reason,
           Pushed(g, h, queued_up_to(g), reason), ~h.always_unqueued, ~h.panic,
           NEW fs, NEW map, NEW last, NEW prom, Books(g, fs, map, 0, last, prom)
    PROVE  Books(h, fs, map, 0, last, prom)
<1> DEFINE c == queued_up_to(g)
<1>1. c >= g.written_up_to
  <2>1. g.written_up_to \in Nat /\ Len(g.queued) \in Nat
    BY DEF Good, Ledger
  <2> QED BY <2>1 DEF queued_up_to
<1>2. Mapped(h, fs, map)
  <2> HIDE DEF c
  <2> QED BY <1>1, MappedPush DEF Books, c
<1>3. queued_up_to(h) = queued_up_to(g)
  BY DEF Pushed, queued_up_to
<1>4. coverage_tail(h) = Len(fs)
  BY PushedTail DEF Good, Books
<1>5. Promises(h, fs, 0, last, prom)
  BY Zenon, <1>4 DEF Books, Promises
<1> QED BY <1>2, <1>3, <1>5 DEF Books

\* The barriers of the frame just queued.
LEMMA BooksBarrier ==
    ASSUME NEW g, Good(g), ~g.always_unqueued,
           NEW fs, NEW map, NEW last, NEW prom, Books(g, fs, map, 0, last, prom)
    PROVE  /\ g.queued = <<FALSE>> /\ g.flush_in_flight < flush_bound =>
                  Books(register_linked_fsync(g), fs, map, 0, last, prom)
           /\ coverage_tail(g) = queued_up_to(g) - 1 /\ ~write_through_window_full(g) =>
                  Books(register_write_through(g), fs, map, 0, last, prom)
<1>1. g \in Ledger /\ ~g.panic
  BY DEF Good, Books
<1>2. ASSUME NEW claim, claim, claim \in BOOLEAN
      PROVE  LET a == discharge(Asserting(g, claim))
             IN  /\ Good(a) /\ ~a.always_unqueued /\ ~a.panic
                 /\ a.flush_in_flight = g.flush_in_flight
                 /\ a.write_through_pending = g.write_through_pending
                 /\ coverage_tail(a) = coverage_tail(g)
  <2> DEFINE b == Asserting(g, claim)
             a == discharge(b)
  <2>1. Good(b)
    BY Zenon, <1>1, <1>2, AssertingKeeps DEF Good
  <2>2. Good(a)
    BY <2>1, FlagsKeep
  <2>3. /\ b.always_unqueued = g.always_unqueued /\ b.panic = (g.panic \/ ~claim)
        /\ b.flush_in_flight = g.flush_in_flight
        /\ b.write_through_pending = g.write_through_pending
        /\ b.pending = g.pending /\ b.durable_up_to = g.durable_up_to
    BY <1>1 DEF Asserting, Ledger
  <2> HIDE DEF b
  <2>4. b \in Ledger
    BY <2>1 DEF Good
  <2>5. /\ a.always_unqueued = b.always_unqueued /\ a.panic = b.panic
        /\ a.flush_in_flight = b.flush_in_flight
        /\ a.write_through_pending = b.write_through_pending
        /\ a.pending = b.pending /\ a.durable_up_to = b.durable_up_to
    BY <2>4 DEF discharge, Ledger
  <2> HIDE DEF a
  <2>6. coverage_tail(a) = coverage_tail(g)
    BY <2>3, <2>5 DEF coverage_tail
  <2> QED BY Zenon, <1>1, <1>2, <2>2, <2>3, <2>5, <2>6 DEF a, b
<1>3. queued_up_to(g) \in Nat /\ coverage_tail(g) <= queued_up_to(g)
  <2>1. g.written_up_to \in Nat /\ Len(g.queued) \in Nat
    BY <1>1 DEF Ledger
  <2>2. queued_up_to(g) \in Nat
    BY <2>1 DEF queued_up_to
  <2> QED BY <2>2, TailBounds DEF Good
<1>4. ASSUME g.queued = <<FALSE>>, g.flush_in_flight < flush_bound
      PROVE  Books(register_linked_fsync(g), fs, map, 0, last, prom)
  <2> DEFINE claim == ~g.always_unqueued /\ g.queued = <<FALSE>>
             a == discharge(Asserting(g, claim))
             h == register_linked_fsync(g)
  <2>1. claim /\ claim \in BOOLEAN
    BY <1>4
  <2> HIDE DEF claim
  <2>2. /\ Good(a) /\ ~a.always_unqueued /\ ~a.panic /\ coverage_tail(a) = coverage_tail(g)
        /\ a.flush_in_flight = g.flush_in_flight
    BY Zenon, <1>2, <2>1
  <2>3. h = push_pending(a, queued_up_to(g), "Linked")
    BY DEF register_linked_fsync, claim
  <2>4. Good(h) /\ Pushed(g, h, queued_up_to(g), "Linked")
    BY FrameBarriersKeep, Registrations
  <2> HIDE DEF a, h
  <2>5. SameFlags(a, h)
    BY <1>3, <1>4, <2>2, <2>3, PushFlags
  <2>6. ~h.always_unqueued /\ ~h.panic
    BY <2>2, <2>5 DEF SameFlags
  <2>7. Books(h, fs, map, 0, last, prom)
    BY <2>4, <2>6, BooksDischarged
  <2> QED BY <2>7 DEF h
<1>5. ASSUME coverage_tail(g) = queued_up_to(g) - 1, ~write_through_window_full(g)
      PROVE  Books(register_write_through(g), fs, map, 0, last, prom)
  <2> DEFINE claim == ~g.always_unqueued /\ coverage_tail(g) = queued_up_to(g) - 1
             a == discharge(Asserting(g, claim))
             h == register_write_through(g)
  <2>1. claim /\ claim \in BOOLEAN
    BY <1>5
  <2> HIDE DEF claim
  <2>2. /\ Good(a) /\ ~a.always_unqueued /\ ~a.panic /\ coverage_tail(a) = coverage_tail(g)
        /\ a.write_through_pending = g.write_through_pending
    BY Zenon, <1>2, <2>1
  <2>3. h = push_pending(a, queued_up_to(g), "WriteThrough")
    BY Zenon DEF register_write_through, claim
  <2>4. Good(h) /\ Pushed(g, h, queued_up_to(g), "WriteThrough")
    BY FrameBarriersKeep, Registrations
  <2> HIDE DEF a, h
  <2>5. ~write_through_window_full(a)
    BY <1>5, <2>2 DEF write_through_window_full
  <2>6. SameFlags(a, h)
    BY <1>3, <2>2, <2>3, <2>5, PushFlags
  <2>7. ~h.always_unqueued /\ ~h.panic
    BY <2>2, <2>6 DEF SameFlags
  <2>8. Books(h, fs, map, 0, last, prom)
    BY Zenon, <2>4, <2>7, BooksDischarged
  <2> QED BY <2>8 DEF h
<1> QED BY Zenon, <1>4, <1>5

\* A sync of the written prefix: the due stays for what lies beyond it.
LEMMA BooksPrefix ==
    ASSUME NEW g, Good(g), g.flush_in_flight < flush_bound, written_uncovered(g),
           NEW fs, NEW map, NEW n, NEW last, NEW prom, Books(g, fs, map, n, last, prom)
    PROVE  /\ Books(register_standalone_fsync(g), fs, map, n, last, prom)
           /\ Books(register_completion_fsync(g), fs, map, n, last, prom)
<1> DEFINE owed == g.always_pending /\ ~always_discharged_at_written(g)
           due == owed \/ g.written_up_to < queued_up_to(g) \/ g.everysec_unqueued
           a == settle_due_at_written(g)
<1>1. g \in Ledger
  BY DEF Good
<1>2. /\ g.written_up_to \in Nat /\ g.durable_up_to \in Nat /\ Len(g.queued) \in Nat
      /\ queued_up_to(g) = g.written_up_to + Len(g.queued)
  BY <1>1 DEF Ledger, queued_up_to
<1>3. coverage_tail(g) <= g.written_up_to
  <2>1. CASE g.pending = <<>>
    BY <1>2, <2>1 DEF written_uncovered, coverage_tail
  <2>2. CASE g.pending # <<>>
    <3>1. coverage_tail(g) \in Nat /\ coverage_tail(g) < g.written_up_to
      BY <2>2, TailBounds DEF written_uncovered, Good
    <3> QED BY <1>2, <3>1
  <2> QED BY Zenon, <2>1, <2>2
<1>4. a = [g EXCEPT !.always_pending = owed, !.sync_due = due]
  BY Zenon DEF settle_due_at_written
<1>5. Good(a)
  BY FlagsKeep
<1> HIDE DEF owed, due, a
<1>6. /\ a.always_pending = owed /\ a.sync_due = due /\ a.panic = g.panic
      /\ a.always_unqueued = g.always_unqueued
      /\ a.everysec_unqueued = g.everysec_unqueued
      /\ a.flush_in_flight = g.flush_in_flight
      /\ a.pending = g.pending /\ a.durable_up_to = g.durable_up_to
  BY <1>1, <1>4 DEF Ledger
<1>7. coverage_tail(a) = coverage_tail(g)
  BY <1>6 DEF coverage_tail
<1>8. ASSUME NEW h, NEW reason, Good(h), Pushed(g, h, g.written_up_to, reason), SameFlags(a, h)
      PROVE  Books(h, fs, map, n, last, prom)
  <2>1. Mapped(h, fs, map)
    <3>1. g.written_up_to >= g.written_up_to
      BY <1>2
    <3> QED BY <1>8, <3>1, MappedPush DEF Books
  <2>2. queued_up_to(h) = queued_up_to(g)
    BY <1>8 DEF Pushed, queued_up_to
  <2>3. coverage_tail(h) = g.written_up_to
    BY <1>1, <1>8, PushedTail DEF Good
  <2>4. g.always_unqueued => owed
    BY Zenon DEF Books, Promises, always_discharged_at_written, owed
  <2>5. h.always_unqueued => h.always_pending
    BY Zenon, <1>6, <1>8, <2>4 DEF SameFlags
  <2>6. n # 0 => h.always_unqueued \/ h.everysec_unqueued
    BY <1>6, <1>8 DEF SameFlags, Books, Promises
  <2>7. ~h.sync_due => prom <= SeqAt(fs, coverage_tail(h))
    <3> SUFFICES ASSUME ~h.sync_due PROVE prom <= SeqAt(fs, coverage_tail(h))
      OBVIOUS
    <3>1. ~due
      BY <1>6, <1>8 DEF SameFlags
    <3>2. n = 0
      BY <2>4, <3>1 DEF Books, Promises, due
    <3>3. g.written_up_to = queued_up_to(g)
      BY <1>2, <3>1 DEF due
    <3> QED BY <2>3, <3>2, <3>3 DEF Books, Promises
  <2>8. Promises(h, fs, n, last, prom)
    BY Zenon, <2>5, <2>6, <2>7 DEF Books, Promises
  <2>9. ~h.panic
    BY <1>6, <1>8 DEF SameFlags, Books
  <2> QED BY <2>1, <2>2, <2>8, <2>9 DEF Books
<1>9. /\ SameFlags(a, register_standalone_fsync(g))
      /\ SameFlags(a, register_completion_fsync(g))
  BY <1>2, <1>3, <1>5, <1>6, <1>7, PushFlags
     DEF register_standalone_fsync, register_completion_fsync, a
<1> QED BY <1>8, <1>9, PrefixSyncsKeep, Registrations

-----------------------------------------------------------------------------
\* The ack map is no larger than what is queued and what is pending: every entry but the
\* last has a successor that is not written yet, or a pending sync of its own.
LEMMA AckMapBounded ==
    ASSUME NEW h \in Ledger, NEW F \in Nat, queued_up_to(h) = F,
           NEW map \in SUBSET [end : Nat, seq : Nat],
           \A a, b \in map : a.end = b.end => a = b,
           \A a \in map : a.end <= F
    PROVE  ack_map_bounded(coalesce_ack_map(map, h), h)
<1> DEFINE M == coalesce_ack_map(map, h)
           later(a) == {b.end : b \in {c \in map : c.end > a.end}}
           next(a) == Min(later(a))
           w == h.written_up_to
           Q == Len(h.queued)
           P == Len(h.pending)
           Pins(a, i) == i \in 1..P /\ h.pending[i].covers_up_to \in a.end..(next(a) - 1)
           pin(a) == CHOOSE i \in 1..P : Pins(a, i)
           f == [a \in M |-> IF later(a) = {} THEN 0
                             ELSE IF next(a) > w THEN next(a) - w
                             ELSE Q + pin(a)]
           T == 0..(Q + P)
<1>1. /\ w \in Nat /\ Q \in Nat /\ P \in Nat /\ w + Q = F /\ DOMAIN h.pending = 1..P
      /\ \A i \in 1..P : h.pending[i].covers_up_to \in Nat
  <2>1. h.pending \in Seq(PendingFsync) /\ h.queued \in Seq(BOOLEAN) /\ w \in Nat
    BY DEF Ledger
  <2>2. DOMAIN h.pending = 1..P /\ P \in Nat /\ Q \in Nat
    BY <2>1
  <2> QED BY <2>1, <2>2, PendingTyped DEF queued_up_to
<1>2. ASSUME NEW a \in map
      PROVE  /\ a.end \in Nat
             /\ later(a) # {} => next(a) \in Nat /\ next(a) > a.end /\ next(a) <= F
             /\ \A b \in map : b.end > a.end => later(a) # {} /\ next(a) <= b.end
  <2>1. later(a) \in SUBSET Nat /\ (\A x \in later(a) : x > a.end /\ x <= F) /\ a.end \in Nat
    OBVIOUS
  <2>2. \A b \in map : b.end > a.end => b.end \in later(a)
    OBVIOUS
  <2> HIDE DEF later
  <2>3. later(a) # {} => next(a) \in later(a) /\ \A x \in later(a) : next(a) <= x
    BY Zenon, <2>1, MinOfNats
  <2> HIDE DEF next
  <2> QED BY <2>1, <2>2, <2>3
<1>3. \A a \in M : /\ a \in map
                   /\ \/ later(a) = {} \/ next(a) > w
                      \/ \E i \in 1..P : Pins(a, i)
  BY Zenon, <1>1 DEF coalesce_ack_map, pending_covers_within
<1> HIDE DEF M, later, next, w, Q, P
<1>4. ASSUME NEW a \in M, later(a) # {}, ~(next(a) > w)
      PROVE  /\ pin(a) \in 1..P
             /\ h.pending[pin(a)].covers_up_to >= a.end
             /\ h.pending[pin(a)].covers_up_to < next(a)
  <2>1. \E i \in 1..P : Pins(a, i)
    BY <1>3, <1>4
  <2>2. pin(a) \in 1..P /\ Pins(a, pin(a))
    <3> HIDE DEF Pins
    <3> QED BY <2>1
  <2> HIDE DEF pin
  <2>3. h.pending[pin(a)].covers_up_to \in Nat
    BY <1>1, <2>2
  <2>4. a.end \in Nat /\ next(a) \in Nat
    BY Zenon, <1>2, <1>3, <1>4
  <2> QED BY <2>2, <2>3, <2>4
<1>5. ASSUME NEW a \in M
      PROVE  /\ later(a) = {} => f[a] = 0
             /\ later(a) # {} /\ next(a) > w => f[a] = next(a) - w /\ f[a] \in 1..Q
             /\ later(a) # {} /\ ~(next(a) > w) => f[a] = Q + pin(a) /\ f[a] \in (Q + 1)..(Q + P)
             /\ f[a] \in T
  <2>1. f[a] = IF later(a) = {} THEN 0 ELSE IF next(a) > w THEN next(a) - w ELSE Q + pin(a)
    OBVIOUS
  <2>2. later(a) # {} => next(a) \in Nat /\ next(a) <= F
    BY Zenon, <1>2, <1>3
  <2>3. later(a) # {} /\ ~(next(a) > w) => pin(a) \in 1..P
    BY Zenon, <1>4
  <2> HIDE DEF f, pin
  <2> QED BY <1>1, <2>1, <2>2, <2>3
<1>6. ASSUME NEW a \in M, NEW b \in M, a.end < b.end
      PROVE  f[a] # f[b]
  <2>1. /\ a \in map /\ b \in map /\ a.end \in Nat /\ b.end \in Nat
        /\ later(a) # {} /\ next(a) <= b.end /\ next(a) \in Nat
        /\ later(b) # {} => next(b) \in Nat /\ next(b) > b.end
    BY Zenon, <1>2, <1>3, <1>6
  <2> HIDE DEF f, pin
  <2>6. /\ next(a) > w => f[a] = next(a) - w /\ f[a] \in 1..Q
        /\ ~(next(a) > w) => f[a] \in (Q + 1)..(Q + P)
    BY Zenon, <1>5, <2>1
  <2>2. CASE later(b) = {}
    <3>1. f[b] = 0
      BY Zenon, <1>5, <2>2
    <3> QED BY <1>1, <2>1, <2>6, <3>1
  <2>3. CASE later(b) # {} /\ next(a) > w
    <3>1. next(b) > w
      BY <1>1, <2>1, <2>3
    <3>2. f[b] = next(b) - w
      BY Zenon, <1>5, <2>3, <3>1
    <3> QED BY <1>1, <2>1, <2>3, <2>6, <3>2
  <2>4. CASE later(b) # {} /\ ~(next(a) > w) /\ next(b) > w
    <3>1. f[b] \in 1..Q
      BY Zenon, <1>5, <2>4
    <3> QED BY <1>1, <2>4, <2>6, <3>1
  <2>5. CASE later(b) # {} /\ ~(next(a) > w) /\ ~(next(b) > w)
    <3>1. /\ pin(a) \in 1..P /\ pin(b) \in 1..P
          /\ h.pending[pin(a)].covers_up_to < next(a)
          /\ h.pending[pin(b)].covers_up_to >= b.end
      BY Zenon, <1>4, <2>1, <2>5
    <3>2. f[a] = Q + pin(a) /\ f[b] = Q + pin(b)
      BY Zenon, <1>5, <2>1, <2>5
    <3> HIDE DEF pin
    <3>3. /\ h.pending[pin(a)].covers_up_to \in Nat
          /\ h.pending[pin(b)].covers_up_to \in Nat
      BY Zenon, <1>1, <3>1
    <3>4. pin(a) # pin(b)
      BY <2>1, <3>1, <3>3
    <3> QED BY <1>1, <3>1, <3>2, <3>4
  <2> QED BY <2>2, <2>3, <2>4, <2>5
<1>7. f \in Injection(M, T)
  <2>1. f \in [M -> T]
    <3>1. \A a \in M : f[a] \in T
      BY <1>5
    <3>2. f = [a \in M |-> f[a]]
      OBVIOUS
    <3> HIDE DEF f
    <3> QED BY Zenon, <3>1, <3>2
  <2>2. ASSUME NEW a \in M, NEW b \in M, f[a] = f[b]
        PROVE  a = b
    <3>1. a \in map /\ b \in map /\ a.end \in Nat /\ b.end \in Nat
      BY <1>2, <1>3
    <3>2. ~(a.end < b.end) /\ ~(b.end < a.end)
      <4> HIDE DEF f
      <4> QED BY <1>6, <2>2
    <3>3. a.end = b.end
      BY <3>1, <3>2
    <3> QED BY <3>1, <3>3
  <2> HIDE DEF f
  <2> QED BY <2>1, <2>2 DEF Injection, IsInjective
<1>8. IsFiniteSet(T) /\ Cardinality(T) = Q + P + 1
  <2>1. 0 \in Int /\ Q + P \in Int /\ ~(0 > Q + P)
    BY <1>1
  <2>2. IsFiniteSet(T) /\ Cardinality(T) = (Q + P) - 0 + 1
    BY <2>1, FS_Interval
  <2> QED BY <1>1, <2>2
<1>9. Cardinality(M) <= Q + P + 1
  <2> HIDE DEF f, T
  <2> QED BY <1>7, <1>8, FS_Injection
<1> QED BY Zenon, <1>9 DEF ack_map_bounded, M, Q, P

-----------------------------------------------------------------------------
\* The entries of the ack map name each frame end once.
LEMMA MapIsFunction ==
    ASSUME NEW g \in Ledger, NEW fs \in Seq(Frame),
           NEW map \in SUBSET [end : Nat, seq : Nat], Mapped(g, fs, map)
    PROVE  /\ \A a, b \in map : a.end = b.end => a = b
           /\ \A a \in map : a.end <= Len(fs)
<1>1. Len(fs) \in Nat /\ g.durable_up_to \in Nat
  BY DEF Ledger
<1>2. \A a \in map : a.end \in (g.durable_up_to + 1)..Len(fs) /\ a.seq = fs[a.end].seq
  BY DEF Mapped
<1>3. ASSUME NEW a \in map, NEW b \in map, a.end = b.end PROVE a = b
  <2>1. a \in [end : Nat, seq : Nat] /\ b \in [end : Nat, seq : Nat] /\ a.seq = b.seq
    BY Zenon, <1>2, <1>3
  <2> QED BY <1>3, <2>1
<1> QED BY <1>1, <1>2, <1>3

\* A frame's write completes: the map coalesces within its bound.
LEMMA BooksWritten ==
    ASSUME NEW g, Good(g), NEW id \in Int, id - g.written_up_to \in DOMAIN g.queued,
           ~g.queued[id - g.written_up_to],
           NEW fs, NEW map \in SUBSET [end : Nat, seq : Nat], NEW n, NEW last, NEW prom,
           Books(g, fs, map, n, last, prom)
    PROVE  LET h == note_frame_written(g, id)
               kept == coalesce_ack_map(map, h)
           IN  Books(Asserting(h, ack_map_bounded(kept, h)), fs, kept, n, last, prom)
<1> DEFINE h == note_frame_written(g, id)
           kept == coalesce_ack_map(map, h)
           claim == ack_map_bounded(kept, h)
<1>1. g \in Ledger /\ Good(h) /\ h \in Ledger
  BY Zenon, FrameWrittenKeeps DEF Good
<1>2. PICK k \in 0..Len(g.queued) : Written(g, h, id - g.written_up_to, k)
  BY <1>1, WrittenIs
<1>3. SameFlags(g, h)
  <2> DEFINE i == id - g.written_up_to
             marked == [g.queued EXCEPT ![i] = TRUE]
             m == Leading(marked)
             q == SubSeq(marked, m + 1, Len(marked))
             v == g.written_up_to + m
  <2>1. h = [g EXCEPT !.queued = q, !.written_up_to = v]
    BY Zenon DEF note_frame_written
  <2> HIDE DEF h, q, v
  <2> QED BY <1>1, <2>1 DEF SameFlags, Ledger
<1> HIDE DEF h
<1>4. /\ h.pending = g.pending /\ h.durable_up_to = g.durable_up_to
      /\ queued_up_to(h) = queued_up_to(g)
  <2>1. /\ h.pending = g.pending /\ h.durable_up_to = g.durable_up_to
        /\ h.written_up_to = g.written_up_to + k /\ Len(h.queued) = Len(g.queued) - k
    BY Zenon, <1>2 DEF Written
  <2>2. g.written_up_to \in Int /\ Len(g.queued) \in Int /\ k \in Int
    BY <1>1 DEF Ledger
  <2>3. queued_up_to(h) = queued_up_to(g)
    <3> DEFINE a == g.written_up_to
               b == Len(g.queued)
    <3>1. a \in Int /\ b \in Int /\ k \in Int
      BY Zenon, <2>2
    <3>2. queued_up_to(h) = (a + k) + (b - k) /\ queued_up_to(g) = a + b
      BY Zenon, <2>1 DEF queued_up_to
    <3> HIDE DEF a, b
    <3> QED BY <3>1, <3>2
  <2> QED BY Zenon, <2>1, <2>3
<1>5. coverage_tail(h) = coverage_tail(g)
  BY Zenon, <1>4 DEF coverage_tail
<1>6. fs \in Seq(Frame) /\ Len(fs) \in Nat /\ Mapped(g, fs, map) /\ queued_up_to(h) = Len(fs)
  BY <1>4 DEF Books
<1>7. Mapped(h, fs, kept)
  <2>1. k \in Nat
    OBVIOUS
  <2> QED BY <1>1, <1>2, <1>6, <2>1, MappedWritten
<1>8. claim
  BY Zenon, <1>1, <1>6, MapIsFunction, AckMapBounded
<1>9. Promises(h, fs, n, last, prom)
  BY Zenon, <1>3, <1>5 DEF Books, Promises, SameFlags
<1> HIDE DEF kept, claim
<1>10. Books(h, fs, kept, n, last, prom)
  BY Zenon, <1>3, <1>6, <1>7, <1>9 DEF Books, SameFlags
<1>11. SameFlags(h, Asserting(h, claim)) /\ SameEntries(h, Asserting(h, claim))
  <2>1. SameEntries(h, Asserting(h, claim))
    BY <1>1 DEF SameEntries, Asserting, Ledger
  <2> QED BY Zenon, <1>1, <1>8, <2>1, AssertFlags
<1>12. Books(Asserting(h, claim), fs, kept, n, last, prom)
  BY <1>1, <1>10, <1>11, BooksSame
<1> QED BY Zenon, <1>12 DEF h, kept, claim

\* A completion leaves the flags alone.
LEMMA CompleteFlags ==
    ASSUME NEW g \in Ledger, NEW ticket, pending_live(g, pending_index(g, ticket))
    PROVE  SameFlags(g, on_fsync_complete(g, ticket))
<1> DEFINE i == pending_index(g, ticket)
           p == [g.pending EXCEPT ![i].done = TRUE]
           f == flush_slot_freed(g, i)
           b == [g EXCEPT !.pending[i].done = TRUE, !.flush_in_flight = f]
           h == on_fsync_complete(g, ticket)
<1>1. h = fold_done(b)
  BY DEF on_fsync_complete
<1>2. /\ b.sync_due = g.sync_due /\ b.always_pending = g.always_pending
      /\ b.always_unqueued = g.always_unqueued /\ b.everysec_unqueued = g.everysec_unqueued
      /\ b.panic = g.panic
  <2> HIDE DEF i, f
  <2> QED BY SMTT(30) DEF Ledger
<1>3. DOMAIN b = DOMAIN g
  <2> HIDE DEF i, f
  <2> QED BY DEF Ledger
<1> HIDE DEF b, h
<1>4. /\ h.sync_due = b.sync_due /\ h.always_pending = b.always_pending
      /\ h.always_unqueued = b.always_unqueued /\ h.everysec_unqueued = b.everysec_unqueued
      /\ h.panic = b.panic
  <2> DEFINE q == SubSeq(b.pending, folded(b.pending) + 1, Len(b.pending))
             d == IF folded(b.pending) = 0 THEN b.durable_up_to
                  ELSE b.pending[folded(b.pending)].covers_up_to
             t == b.write_through_pending
                    - CountReason(b.pending, folded(b.pending), "WriteThrough")
             x == b.extent_window - CountReason(b.pending, folded(b.pending), "ExtentSeal")
  <2>1. h = [b EXCEPT !.pending = q, !.durable_up_to = d, !.write_through_pending = t,
                      !.extent_window = x]
    BY <1>1 DEF fold_done
  <2> HIDE DEF q, d, t, x
  <2>2. DOMAIN g = {"sync_due", "always_pending", "always_unqueued", "everysec_unqueued",
                    "always_queued_up_to", "flush_in_flight", "write_through_pending",
                    "queued", "written_up_to", "durable_up_to", "pending", "next_ticket",
                    "extent_window", "extent_unsent", "panic"}
    BY DEF Ledger
  <2> QED BY <1>3, <2>1, <2>2, SMTT(30)
<1> QED BY <1>2, <1>4 DEF SameFlags, h

\* Folding does not move the coverage tail.
LEMMA CompletedTail ==
    ASSUME NEW g \in Ledger, NEW h \in Ledger, NEW i, NEW k \in 0..Len(g.pending),
           Completed(g, h, i, k)
    PROVE  coverage_tail(h) = coverage_tail(g)
<1> DEFINE L == Len(g.pending)
<1>1. /\ L \in Nat /\ k \in 0..L /\ Len(h.pending) = L - k
      /\ g.pending \in Seq(PendingFsync) /\ h.pending \in Seq(PendingFsync)
      /\ \A j \in 1..(L - k) : h.pending[j].covers_up_to = g.pending[k + j].covers_up_to
      /\ h.durable_up_to = IF k = 0 THEN g.durable_up_to ELSE g.pending[k].covers_up_to
  <2>1. g.pending \in Seq(PendingFsync) /\ h.pending \in Seq(PendingFsync)
    BY Zenon DEF Ledger
  <2> QED BY <2>1 DEF Completed
<1>2. (g.pending = <<>> <=> L = 0) /\ (h.pending = <<>> <=> Len(h.pending) = 0)
  BY <1>1
<1> HIDE DEF L
<1>3. CASE L = k
  <2>1. h.pending = <<>>
    BY <1>1, <1>2, <1>3
  <2>2. coverage_tail(h) = h.durable_up_to
    BY Zenon, <2>1 DEF coverage_tail
  <2> QED BY Zenon, <1>1, <1>2, <1>3, <2>2 DEF coverage_tail, L
<1>4. CASE L # k
  <2>1. L - k \in 1..(L - k) /\ k + (L - k) = L /\ L # 0 /\ L - k # 0
    BY <1>1, <1>4
  <2>2. h.pending # <<>> /\ g.pending # <<>>
    BY <1>1, <1>2, <2>1
  <2>3. h.pending[L - k].covers_up_to = g.pending[L].covers_up_to
    BY <1>1, <2>1
  <2> QED BY <1>1, <2>2, <2>3 DEF coverage_tail, L
<1> QED BY Zenon, <1>3, <1>4

\* A sync completes: the ack gate moves to the frame the watermark now stands at.
LEMMA BooksComplete ==
    ASSUME NEW g, Good(g), NEW ticket \in Nat, pending_live(g, pending_index(g, ticket)),
           NEW fs, NEW map, NEW n, NEW last, last <= MaxSeq, NEW prom,
           Books(g, fs, map, n, last, prom)
    PROVE  LET h == on_fsync_complete(g, ticket)
               covered == {e \in map : e.end <= h.durable_up_to}
               advanced == h.durable_up_to # g.durable_up_to
           IN  /\ Good(h)
               /\ Books(h, fs, IF advanced THEN map \ covered ELSE map, n, last, prom)
               /\ advanced => /\ covered # {}
                              /\ Max({e.seq : e \in covered}) = SeqAt(fs, h.durable_up_to)
<1> DEFINE h == on_fsync_complete(g, ticket)
           covered == {e \in map : e.end <= h.durable_up_to}
           advanced == h.durable_up_to # g.durable_up_to
<1>1. g \in Ledger /\ Good(h) /\ h \in Ledger
  BY CompletionsKeep DEF Good
<1>2. PICK k \in 0..Len(g.pending) : Completed(g, h, pending_index(g, ticket), k)
  BY CompletionIs
<1>3. SameFlags(g, h)
  BY <1>1, CompleteFlags
<1> HIDE DEF h
<1>4. coverage_tail(h) = coverage_tail(g)
  BY Zenon, <1>1, <1>2, CompletedTail
<1>5. queued_up_to(h) = queued_up_to(g)
  BY <1>2 DEF Completed, queued_up_to
<1>6. /\ fs \in Seq(Frame) /\ last \in Nat /\ Rising(fs, last) /\ Mapped(g, fs, map)
      /\ queued_up_to(g) = Len(fs)
  BY Zenon DEF Books
<1>7. Rising(fs, MaxSeq)
  <2>1. \A m \in DOMAIN fs : fs[m].seq \in Nat /\ fs[m].seq <= last
    <3> SUFFICES ASSUME NEW m \in DOMAIN fs PROVE fs[m].seq \in Nat /\ fs[m].seq <= last
      OBVIOUS
    <3>1. fs[m] \in Frame /\ fs[m].seq <= last
      BY <1>6 DEF Rising
    <3> QED BY Zenon, <3>1 DEF Frame
  <2>2. MaxSeq \in Nat
    BY CellConstants
  <2> QED BY <1>6, <2>1, <2>2 DEF Rising
<1>8. /\ Mapped(h, fs, map \ covered)
      /\ ~advanced => Mapped(h, fs, map)
      /\ advanced => covered # {} /\ Max({e.seq : e \in covered}) = SeqAt(fs, h.durable_up_to)
  BY Zenon, <1>1, <1>2, <1>6, <1>7, MappedComplete
<1>9. Promises(h, fs, n, last, prom)
  BY <1>3, <1>4 DEF Books, Promises, SameFlags
<1> DEFINE left == IF advanced THEN map \ covered ELSE map
<1>10. Mapped(h, fs, left)
  BY Zenon, <1>8
<1> HIDE DEF left
<1>11. Books(h, fs, left, n, last, prom)
  BY <1>3, <1>5, <1>6, <1>9, <1>10 DEF Books, SameFlags
<1> QED BY Zenon, <1>1, <1>8, <1>11 DEF h, left

-----------------------------------------------------------------------------
\* A release assertion that holds leaves a ledger without a panic as it is.
LEMMA AssertHolds ==
    ASSUME NEW g \in Ledger, ~g.panic, NEW claim, claim
    PROVE  Asserting(g, claim) = g
<1> DEFINE p == g.panic \/ ~claim
<1>1. p = g.panic
  BY DEF Ledger
<1>2. Asserting(g, claim) = [g EXCEPT !.panic = p]
  BY DEF Asserting
<1> HIDE DEF p
<1> QED BY Zenon, <1>1, <1>2 DEF Ledger

\* What the plan of a frame's barrier has counted.
LEMMA PlanCounts ==
    ASSUME NEW g \in Ledger, NEW ok, NEW ahead \in BOOLEAN, NEW plan,
           plan = frame_plan(g, ok, ahead), plan # "Wait"
    PROVE  /\ ~reorder_window_full(g)
           /\ plan = "LinkedFsync" =>
                  /\ drained(g)
                  /\ g.flush_in_flight + (IF ahead THEN 1 ELSE 0) < flush_bound
           /\ plan = "WriteThrough" =>
                  /\ ~write_through_window_full(g)
                  /\ ahead \/ coverage_tail(g) = queued_up_to(g)
BY ZenonT(30) DEF frame_plan, write_through_due

\* The seal sync takes a FLUSH slot, and no other budget.
LEMMA SealCounts ==
    ASSUME NEW g, Good(g)
    PROVE  LET h == register_seal_fsync(g)
           IN  /\ h.queued = g.queued
               /\ h.flush_in_flight = g.flush_in_flight + 1
               /\ h.write_through_pending = g.write_through_pending
               /\ coverage_tail(h) = queued_up_to(g)
               /\ queued_up_to(h) = queued_up_to(g)
<1> DEFINE h == register_seal_fsync(g)
           a == Asserting(g, drained(g))
<1>1. Good(h) /\ queued_up_to(h) = queued_up_to(g) /\ Pushed(g, h, queued_up_to(g), "Seal")
  BY SealKeeps, Registrations
<1>2. a \in Ledger /\ a.flush_in_flight = g.flush_in_flight
      /\ a.write_through_pending = g.write_through_pending
  BY Zenon DEF Asserting, Good, Ledger
<1>3. h = push_pending(a, queued_up_to(g), "Seal")
  BY DEF register_seal_fsync
<1> HIDE DEF a
<1>4. h.flush_in_flight = a.flush_in_flight + 1
      /\ h.write_through_pending = a.write_through_pending
  <2> HIDE DEF h
  <2> QED BY <1>2, <1>3, Zenon DEF push_pending, Asserting, Ledger
<1>5. coverage_tail(h) = queued_up_to(g)
  BY <1>1, PushedTail DEF Good
<1> HIDE DEF h
<1> QED BY <1>1, <1>2, <1>4, <1>5 DEF h, Pushed

\* Queuing a frame takes no budget and leaves no record unqueued.
LEMMA QueueCounts ==
    ASSUME NEW g \in Ledger
    PROVE  LET h == note_frame_queued(g)
           IN  /\ h.queued = Append(g.queued, FALSE)
               /\ h.flush_in_flight = g.flush_in_flight
               /\ h.write_through_pending = g.write_through_pending
               /\ ~h.always_unqueued
<1> DEFINE h == note_frame_queued(g)
           no == FALSE
           claim == frames_unwritten(g) < MAX_FRAMES_IN_FLIGHT /\ ~reorder_window_full(g)
           a == Asserting(g, claim)
           u == IF g.always_unqueued THEN queued_up_to(g) + 1 ELSE g.always_queued_up_to
           q == Append(g.queued, FALSE)
<1>1. h = [a EXCEPT !.queued = q, !.always_queued_up_to = u, !.always_unqueued = no,
                    !.everysec_unqueued = no]
  <2>1. a.queued = g.queued /\ a.always_queued_up_to = g.always_queued_up_to
    BY DEF Asserting, Ledger
  <2> HIDE DEF a
  <2> QED BY Zenon, <2>1 DEF note_frame_queued, a
<1>2. /\ a = [g EXCEPT !.panic = a.panic]
      /\ a.flush_in_flight = g.flush_in_flight
      /\ a.write_through_pending = g.write_through_pending
  BY DEF Asserting, Ledger
<1> HIDE DEF h, no, a, u, q
<1>3. /\ h.queued = q /\ h.flush_in_flight = a.flush_in_flight
      /\ h.write_through_pending = a.write_through_pending
      /\ h.always_unqueued = no
  BY <1>1, <1>2 DEF Ledger
<1> QED BY <1>2, <1>3 DEF h, no, q

\* A frame is sealed: a rotation's seal sync, the frame, and the barrier of the plan.
LEMMA BooksFrame ==
    ASSUME NEW g, Good(g), NEW rotate \in BOOLEAN, rotate => drained(g), NEW ok, NEW plan,
           plan = frame_plan(g, ok, rotate), plan # "Wait",
           plan \in {"WriteThrough", "LinkedFsync", "Plain"},
           frames_unwritten(g) < MAX_FRAMES_IN_FLIGHT,
           NEW fs, NEW map, NEW n, NEW last, NEW prom, Books(g, fs, map, n, last, prom),
           NEW x \in Frame, x.seq = last
    PROVE  Books(register_barrier(note_frame_queued(IF rotate THEN register_seal_fsync(g) ELSE g),
                                  plan),
                 Append(fs, x), map \cup {[end |-> Len(fs) + 1, seq |-> last]}, 0, last, prom)
<1> DEFINE b == IF rotate THEN register_seal_fsync(g) ELSE g
           h == note_frame_queued(b)
           fs1 == Append(fs, x)
           map1 == map \cup {[end |-> Len(fs) + 1, seq |-> last]}
<1>1. g \in Ledger
  BY DEF Good
<1>2. /\ ~reorder_window_full(g)
      /\ plan = "LinkedFsync" =>
             /\ drained(g)
             /\ g.flush_in_flight + (IF rotate THEN 1 ELSE 0) < flush_bound
      /\ plan = "WriteThrough" =>
             /\ ~write_through_window_full(g)
             /\ rotate \/ coverage_tail(g) = queued_up_to(g)
  BY <1>1, PlanCounts
<1>3. Good(b) /\ Books(b, fs, map, n, last, prom)
  BY Zenon, SealKeeps, BooksSeal
<1>4. /\ b.queued = g.queued
      /\ b.flush_in_flight = g.flush_in_flight + (IF rotate THEN 1 ELSE 0)
      /\ b.write_through_pending = g.write_through_pending
      /\ queued_up_to(b) = queued_up_to(g)
      /\ rotate => coverage_tail(b) = queued_up_to(b)
      /\ ~rotate => b = g
  <2>1. CASE rotate
    BY Zenon, <2>1, SealCounts
  <2>2. CASE ~rotate
    BY <1>1, <2>2 DEF Ledger
  <2> QED BY Zenon, <2>1, <2>2
<1> HIDE DEF b
<1>5. b \in Ledger /\ frames_unwritten(b) < MAX_FRAMES_IN_FLIGHT /\ ~reorder_window_full(b)
  BY Zenon, <1>2, <1>3, <1>4 DEF frames_unwritten, reorder_window_full, Good
<1>6. Good(h) /\ Books(h, fs1, map1, 0, last, prom)
  BY Zenon, <1>3, <1>5, BooksQueue, FrameQueuedKeeps
<1>7. /\ h.queued = Append(b.queued, FALSE)
      /\ h.flush_in_flight = b.flush_in_flight
      /\ h.write_through_pending = b.write_through_pending
      /\ ~h.always_unqueued
  BY Zenon, <1>5, QueueCounts
<1>8. queued_up_to(h) = queued_up_to(b) + 1 /\ coverage_tail(h) = coverage_tail(b)
  BY <1>3, FrameQueuedKeeps
<1> HIDE DEF h, fs1, map1
<1>9. CASE plan = "Plain"
  BY <1>6, <1>9 DEF register_barrier, h, fs1, map1, b
<1>10. CASE plan = "LinkedFsync"
  <2>1. h.queued = <<FALSE>>
    <3>1. g.queued = <<>> /\ h.queued = Append(g.queued, FALSE)
      BY Zenon, <1>2, <1>4, <1>7, <1>10 DEF drained
    <3>2. \A y : Append(<<>>, y) = <<y>>
      OBVIOUS
    <3> QED BY <3>1, <3>2, Zenon
  <2>2. h.flush_in_flight < flush_bound
    <3> DEFINE u == g.flush_in_flight + (IF rotate THEN 1 ELSE 0)
    <3>1. u < flush_bound /\ h.flush_in_flight = u
      BY Zenon, <1>2, <1>4, <1>7, <1>10
    <3> HIDE DEF u
    <3> QED BY <3>1
  <2>3. Books(register_linked_fsync(h), fs1, map1, 0, last, prom)
    BY Zenon, <1>6, <1>7, <2>1, <2>2, BooksBarrier
  <2>4. register_barrier(h, plan) = register_linked_fsync(h)
    BY <1>10 DEF register_barrier
  <2> QED BY <2>3, <2>4 DEF h, fs1, map1, b
<1>11. CASE plan = "WriteThrough"
  <2>1. coverage_tail(h) = queued_up_to(h) - 1
    <3>1. coverage_tail(b) = queued_up_to(b)
      BY <1>2, <1>4, <1>11
    <3>2. queued_up_to(b) \in Nat
      BY <1>5 DEF queued_up_to, Ledger
    <3> QED BY <1>8, <3>1, <3>2
  <2>2. ~write_through_window_full(h)
    BY Zenon, <1>2, <1>4, <1>7, <1>11 DEF write_through_window_full
  <2>3. Books(register_write_through(h), fs1, map1, 0, last, prom)
    BY Zenon, <1>6, <1>7, <2>1, <2>2, BooksBarrier
  <2>4. register_barrier(h, plan) = register_write_through(h)
    BY <1>11 DEF register_barrier
  <2> QED BY <2>3, <2>4 DEF h, fs1, map1, b
<1> QED BY <1>9, <1>10, <1>11

\* A completion, and the deferred sync that may follow it.
LEMMA BooksSynced ==
    ASSUME NEW g, Good(g), NEW ticket \in Nat, pending_live(g, pending_index(g, ticket)),
           NEW fs, NEW map, NEW n, NEW last, last <= MaxSeq, NEW prom,
           Books(g, fs, map, n, last, prom)
    PROVE  LET g1 == on_fsync_complete(g, ticket)
               covered == {e \in map : e.end <= g1.durable_up_to}
               advanced == g1.durable_up_to # g.durable_up_to
               g2 == IF completion_fsync_due(g1) THEN register_completion_fsync(g1) ELSE g1
           IN  /\ Books(g2, fs, IF advanced THEN map \ covered ELSE map, n, last, prom)
               /\ g2.durable_up_to = g1.durable_up_to
<1> DEFINE g1 == on_fsync_complete(g, ticket)
           covered == {e \in map : e.end <= g1.durable_up_to}
           advanced == g1.durable_up_to # g.durable_up_to
           kept == IF advanced THEN map \ covered ELSE map
<1>1. Good(g1) /\ Books(g1, fs, kept, n, last, prom)
  BY Zenon, BooksComplete
<1> HIDE DEF kept, g1
<1>2. CASE completion_fsync_due(g1)
  <2>1. g1.flush_in_flight < flush_bound /\ written_uncovered(g1)
    <3>1. g1.flush_in_flight \in Int /\ flush_bound \in Int
      BY <1>1, LedgerConstants DEF Good, Ledger
    <3> QED BY <1>2, <3>1 DEF completion_fsync_due
  <2>2. /\ Books(register_completion_fsync(g1), fs, kept, n, last, prom)
        /\ register_completion_fsync(g1).durable_up_to = g1.durable_up_to
    BY Zenon, <1>1, <2>1, BooksPrefix, PrefixSyncsKeep
  <2> QED BY <1>2, <2>2 DEF kept, g1
<1>3. CASE ~completion_fsync_due(g1)
  BY <1>1, <1>3 DEF kept, g1
<1> QED BY <1>2, <1>3

-----------------------------------------------------------------------------
\* The frames not written yet are the frames in flight.
LEMMA UnwrittenInFlight ==
    ASSUME NEW g \in Ledger, NEW d \in View, LogShape(g, d)
    PROVE  frames_unwritten(g) <= Cardinality(d.in_flight) /\ Cardinality(d.in_flight) \in Nat
<1> DEFINE U == {i \in DOMAIN g.queued : ~g.queued[i]}
           S == d.in_flight
           w == g.written_up_to
           Q == Len(g.queued)
           out == [f \in S |-> f.id - w]
           in == [i \in U |-> CHOOSE f \in S : f.id = w + i]
<1>1. w \in Nat /\ Q \in Nat /\ DOMAIN g.queued = 1..Q
  BY DEF Ledger
<1>2. \A f \in S : f.id \in Nat /\ f.id - w \in 1..Q
  BY Zenon, <1>1, TicketsTyped DEF LogShape
<1>3. \A f, z \in S : f.id = z.id => f = z
  BY Zenon DEF LogShape
<1>4. \A i \in U : i \in 1..Q /\ \E f \in S : f.id = w + i
  BY <1>1 DEF LogShape
<1> HIDE DEF U, S, w, Q
<1>5. IsFiniteSet(S)
  <2>1. out \in Injection(S, 1..Q)
    <3>1. out \in [S -> 1..Q]
      BY <1>2
    <3>2. \A f, z \in S : out[f] = out[z] => f = z
      BY <1>1, <1>2, <1>3
    <3> HIDE DEF out
    <3> QED BY <3>1, <3>2 DEF Injection, IsInjective
  <2>2. IsFiniteSet(1..Q)
    BY <1>1, FS_Interval
  <2> HIDE DEF out
  <2> QED BY <2>1, <2>2, FS_Injection
<1>6. in \in Injection(U, S)
  <2>1. \A i \in U : in[i] \in S /\ in[i].id = w + i
    BY <1>4
  <2>2. in \in [U -> S]
    <3>1. in = [i \in U |-> in[i]]
      OBVIOUS
    <3> HIDE DEF in
    <3> QED BY <2>1, <3>1
  <2> HIDE DEF in
  <2>3. \A i, j \in U : in[i] = in[j] => i = j
    BY <1>1, <1>4, <2>1
  <2> QED BY Zenon, <2>2, <2>3 DEF Injection, IsInjective
<1>7. Cardinality(U) <= Cardinality(S)
  <2> HIDE DEF in
  <2> QED BY <1>5, <1>6, FS_Injection
<1>8. Cardinality(S) \in Nat
  BY <1>5, FS_CardinalityType
<1> QED BY <1>7, <1>8 DEF frames_unwritten, U, S

-----------------------------------------------------------------------------
\* The ledger of a live cell is good.
LEMMA AliveGood ==
    ASSUME Alive
    PROVE  Good(gc) /\ gc \in Ledger
BY DEF Alive, Plane, Agreed, Claims, Good

\* Nothing the books are about changes.
LEMMA BookedQuiet ==
    ASSUME Booked, UNCHANGED <<gc, frames, frame_seqs, builder, last_seq, promised, acked_seq>>
    PROVE  Booked'
BY DEF Booked

\* Only the ledger changes, and not its watermark.
LEMMA BookedLedger ==
    ASSUME Booked, UNCHANGED <<frames, frame_seqs, builder, last_seq, promised, acked_seq>>,
           Books(gc', frames, frame_seqs, builder.records, last_seq, promised),
           gc'.durable_up_to = gc.durable_up_to
    PROVE  Booked'
BY Zenon DEF Booked

\* A record is staged, on whatever ledger.
LEMMA BookedStage ==
    ASSUME Booked, NEW g, Good(g), NEW class \in Classes, NEW exts, StageRecord(g, class, exts),
           Books(g, frames, frame_seqs, builder.records, last_seq, promised),
           g.durable_up_to = gc.durable_up_to
    PROVE  Booked'
<1>1. class \in FsyncClass
  BY Zenon, CellConstants
<1>2. /\ gc' = note_staged(g, class)
      /\ builder'.records = builder.records + 1 /\ last_seq' = last_seq + 1
      /\ promised' = IF class = "Always" THEN last_seq + 1 ELSE promised
      /\ UNCHANGED <<frames, frame_seqs, acked_seq>>
  BY Zenon DEF StageRecord
<1>3. gc'.durable_up_to = gc.durable_up_to
  BY Zenon, <1>2, FlagsKeep
<1>4. Books(note_staged(g, class), frames, frame_seqs, builder.records + 1, last_seq + 1,
            IF class = "Always" THEN last_seq + 1 ELSE promised)
  BY <1>1, BooksStaged
<1> HIDE DEF StageRecord
<1> QED BY Zenon, <1>2, <1>3, <1>4 DEF Booked

\* EXECUTE.
LEMMA BookedExecute ==
    ASSUME Alive, Booked, NEW class \in Classes,
           stage(class) \/ write_blob_arrival(class) \/ write_blob_turn(class)
    PROVE  Booked'
<1>1. Good(gc) /\ Books(gc, frames, frame_seqs, builder.records, last_seq, promised)
  BY AliveGood DEF Booked
<1>2. CASE stage(class)
  <2>1. StageRecord(gc, class, {})
    BY <1>2, Zenon DEF stage
  <2> QED BY <1>1, <2>1, BookedStage
<1>3. CASE RegisterAndStage(class)
  <2> DEFINE g == register_extent(gc)
  <2>1. StageRecord(g, class, {gc.next_ticket + 1})
    BY <1>3 DEF RegisterAndStage
  <2>2. Good(g) /\ g.durable_up_to = gc.durable_up_to
    BY <1>1, TailBarriersKeep
  <2>3. Books(g, frames, frame_seqs, builder.records, last_seq, promised)
    BY <1>1, BooksTail
  <2> HIDE DEF g
  <2> QED BY <2>1, <2>2, <2>3, BookedStage
<1>4. CASE UNCHANGED <<gc, frames, frame_seqs, builder, last_seq, promised, acked_seq>>
  BY <1>4, BookedQuiet
<1>5. \/ stage(class) \/ RegisterAndStage(class)
      \/ UNCHANGED <<gc, frames, frame_seqs, builder, last_seq, promised, acked_seq>>
  BY ZenonT(30) DEF write_blob_arrival, write_blob_turn
<1> QED BY <1>2, <1>3, <1>4, <1>5

\* The everysec tick.
LEMMA BookedTick ==
    ASSUME Alive, Booked, on_everysec_tick
    PROVE  Booked'
<1>1. Good(gc) /\ Books(gc, frames, frame_seqs, builder.records, last_seq, promised)
  BY AliveGood DEF Booked
<1>2. /\ gc' = note_everysec_tick(gc) /\ promised' = last_seq
      /\ UNCHANGED <<frames, frame_seqs, builder, last_seq, acked_seq>>
  BY DEF on_everysec_tick
<1>3. gc'.durable_up_to = gc.durable_up_to
  BY <1>1, <1>2, FlagsKeep
<1>4. Books(note_everysec_tick(gc), frames, frame_seqs, builder.records, last_seq, last_seq)
  BY Zenon, <1>1, BooksTick
<1> QED BY <1>2, <1>3, <1>4 DEF Booked

\* The extents' syncs are issued.
LEMMA BookedTier ==
    ASSUME Alive, Booked, tier_maintain
    PROVE  Booked'
<1>1. Good(gc) /\ gc \in Ledger
      /\ Books(gc, frames, frame_seqs, builder.records, last_seq, promised)
  BY AliveGood DEF Booked
<1>2. /\ gc' = issue_extent_syncs(gc)
      /\ UNCHANGED <<frames, frame_seqs, builder, last_seq, promised, acked_seq>>
  BY DEF tier_maintain
<1>3. SameFlags(gc, issue_extent_syncs(gc)) /\ SameEntries(gc, issue_extent_syncs(gc))
  BY Zenon, <1>1 DEF SameFlags, SameEntries, issue_extent_syncs, Ledger
<1>4. Books(gc', frames, frame_seqs, builder.records, last_seq, promised)
  BY Zenon, <1>1, <1>2, <1>3, BooksSame
<1> QED BY <1>2, <1>3, <1>4, BookedLedger DEF SameEntries

\* MAINTAIN registers at most two barriers, which promise no log bytes.
LEMMA BookedMaintain ==
    ASSUME Alive, Booked, NEW created, NEW taken, NEW issue, maintain(created, taken, issue)
    PROVE  Booked'
<1>1. Good(gc) /\ Books(gc, frames, frame_seqs, builder.records, last_seq, promised)
  BY AliveGood DEF Booked
<1>2. UNCHANGED <<frames, frame_seqs, builder, last_seq, promised, acked_seq>>
  BY ZenonT(30) DEF maintain
<1>3. \E g1 \in {gc, register_prealloc_barrier(gc)} :
          gc' \in {g1, register_zero_fill_barrier(g1)}
  <2> DEFINE s == prealloc_source(rotor, taken # "failed")
             sourced == rotor.next = NoNext /\ s.source # "Wait"
             named == sourced /\ (created \/ s.source = "Recycled")
             r1 == CASE rotor.next # NoNext -> rotor
                     [] named -> maintain_ok(s, s.source = "Recycled" /\ taken = "allocated")
                     [] sourced /\ ~named -> maintain_no_space(s)
                     [] OTHER -> s.rotor
             g1 == IF named THEN register_prealloc_barrier(gc) ELSE gc
             slice == issue /\ zero_fill_pending(r1)
             r2 == IF slice THEN next_zero_slice(r1) ELSE r1
             barrier == zero_fill_ticket = 0 /\ r2.next.state = "AwaitBarrier"
  <2>1. gc' = IF barrier THEN register_zero_fill_barrier(g1) ELSE g1
    BY ZenonT(30) DEF maintain
  <2> HIDE DEF barrier, named
  <2>2. g1 \in {gc, register_prealloc_barrier(gc)}
    OBVIOUS
  <2> HIDE DEF g1
  <2> QED BY <2>1, <2>2
<1>4. PICK g1 \in {gc, register_prealloc_barrier(gc)} :
          gc' \in {g1, register_zero_fill_barrier(g1)}
  BY Zenon, <1>3
<1>5. /\ Good(g1) /\ g1.durable_up_to = gc.durable_up_to
      /\ Books(g1, frames, frame_seqs, builder.records, last_seq, promised)
  BY Zenon, <1>1, <1>4, TailBarriersKeep, BooksTail
<1>6. /\ gc'.durable_up_to = gc.durable_up_to
      /\ Books(gc', frames, frame_seqs, builder.records, last_seq, promised)
  BY <1>4, <1>5, TailBarriersKeep, BooksTail
<1> QED BY <1>2, <1>6, BookedLedger

\* A sync of the written prefix goes out alone.
LEMMA BookedSealNothing ==
    ASSUME Alive, Booked, NEW held, seal_nothing(held)
    PROVE  Booked'
<1>1. Good(gc) /\ Books(gc, frames, frame_seqs, builder.records, last_seq, promised)
  BY AliveGood DEF Booked
<1>2. UNCHANGED <<frames, frame_seqs, builder, last_seq, promised, acked_seq>>
  BY ZenonT(30) DEF seal_nothing
<1>3. CASE gc' = gc
  BY <1>2, <1>3, BookedQuiet
<1>4. CASE standalone_fsync_due(gc) /\ gc' = register_standalone_fsync(gc)
  <2>1. gc.flush_in_flight < flush_bound /\ written_uncovered(gc)
    BY Zenon, <1>4 DEF standalone_fsync_due
  <2>2. Books(gc', frames, frame_seqs, builder.records, last_seq, promised)
    BY <1>1, <1>4, <2>1, BooksPrefix
  <2>3. gc'.durable_up_to = gc.durable_up_to
    BY <1>1, <1>4, <2>1, PrefixSyncsKeep
  <2> QED BY Zenon, <1>2, <2>2, <2>3, BookedLedger
<1>5. gc' = gc \/ (standalone_fsync_due(gc) /\ gc' = register_standalone_fsync(gc))
  <2>1. CASE standalone_fsync_due(gc) /\ ~held
    BY <2>1, ZenonT(30) DEF seal_nothing
  <2>2. CASE ~(standalone_fsync_due(gc) /\ ~held)
    <3>1. UNCHANGED <<gc, syncs>>
      BY <2>2, ZenonT(30) DEF seal_nothing
    <3>2. gc' = gc
      BY Zenon, <3>1
    <3> QED BY <3>2
  <2> QED BY <2>1, <2>2
<1> QED BY <1>3, <1>4, <1>5

-----------------------------------------------------------------------------
\* LOG seals a frame.
LEMMA BookedSealFrame ==
    ASSUME TypeOK, Alive, Booked, NEW len \in FrameLens, seal_frame(len)
    PROVE  Booked'
<1> DEFINE rotate == rotation_due(rotor)
           wt_ok == next_frame_write_through_ok(rotor, len)
           plan == frame_plan(gc, wt_ok, rotate)
           begun == begin_frame(wt_ok, len)
           x == [seg |-> begun.rotor.active, seq |-> last_seq,
                 covered |-> gc.durable_up_to, exts |-> builder.exts]
<1>1. /\ gc' = register_barrier(note_frame_queued(begun.gc), plan)
      /\ frames' = Append(frames, x)
      /\ frame_seqs' = frame_seqs \cup {[end |-> Len(frames) + 1, seq |-> last_seq]}
      /\ builder' = NoRecords
      /\ UNCHANGED <<last_seq, acked_seq, promised>>
  BY Zenon DEF seal_frame
<1>2. /\ Cardinality(in_flight) < frames_in_flight
      /\ rotate => in_flight = {}
      /\ plan # "Wait"
  BY SMTT(30) DEF seal_frame, seal_ready, can_seal
<1>3. plan \in {"WriteThrough", "LinkedFsync", "Plain", "Wait"}
  BY Zenon, PlanRange
<1>4. /\ Good(gc) /\ gc \in Ledger /\ rotor \in Rotor /\ LogShape(gc, Seen)
      /\ Seen \in View /\ Seen.in_flight = in_flight /\ Seen.frames = frames
      /\ ~gc.panic
  BY SeenTyped DEF Alive, Plane, Agreed, Claims, Good, Booked, Books
<1>5. rotate => drained(gc)
  BY Zenon, <1>2, <1>4, DrainedShape DEF drained
<1>6. frames_unwritten(gc) < MAX_FRAMES_IN_FLIGHT
  <2>1. frames_unwritten(gc) <= Cardinality(in_flight) /\ Cardinality(in_flight) \in Nat
    BY <1>4, UnwrittenInFlight
  <2>2. frames_unwritten(gc) \in Nat
    <3>1. IsFiniteSet({i \in DOMAIN gc.queued : ~gc.queued[i]})
      <4>1. DOMAIN gc.queued = 1..Len(gc.queued) /\ Len(gc.queued) \in Nat
        BY <1>4 DEF Ledger
      <4>2. IsFiniteSet(1..Len(gc.queued))
        BY <4>1, FS_Interval
      <4> QED BY <4>1, <4>2, FS_Subset
    <3> QED BY <3>1, FS_CardinalityType DEF frames_unwritten
  <2>3. frames_in_flight \in 1..MAX_FRAMES_IN_FLIGHT /\ MAX_FRAMES_IN_FLIGHT \in Nat
    BY CellConstants, LedgerConstants
  <2> QED BY <1>2, <2>1, <2>2, <2>3
<1>7. begun.gc = IF rotate THEN register_seal_fsync(gc) ELSE gc
  <2> DEFINE r == IF rotate THEN rotate_deferred(rotor) ELSE rotor
             c == wt_ok = (len = "small" /\ r.mode = "Direct" /\ r.prezeroed)
  <2>1. begun.gc = IF rotate THEN register_seal_fsync(Asserting(gc, c)) ELSE Asserting(gc, c)
    BY DEF begin_frame
  <2>2. c
    <3>1. wt_ok <=> (len = "small" /\ r.mode = "Direct" /\ r.prezeroed)
      <4>1. CASE rotate
        <5>1. r.mode = io_mode /\ (r.prezeroed <=> ready_prezeroed(rotor))
          BY <1>4, <4>1, RotateIs DEF Rotated
        <5> HIDE DEF r
        <5> QED BY Zenon, <4>1, <5>1 DEF next_frame_write_through_ok
      <4>2. CASE ~rotate
        BY <4>2 DEF next_frame_write_through_ok
      <4> QED BY <4>1, <4>2
    <3>2. wt_ok \in BOOLEAN
      BY DEF next_frame_write_through_ok
    <3> HIDE DEF wt_ok, r
    <3> QED BY <3>1, <3>2
  <2> HIDE DEF c
  <2>3. Asserting(gc, c) = gc
    BY Zenon, <1>4, <2>2, AssertHolds
  <2> QED BY Zenon, <2>1, <2>3
<1>8. x \in Frame /\ x.seq = last_seq
  <2>1. begun.rotor = IF rotate THEN rotate_deferred(rotor) ELSE rotor
    BY Zenon DEF begin_frame
  <2>2. begun.rotor \in Rotor
    BY Zenon, <1>4, <2>1, RotateTyped
  <2>3. begun.rotor.active \in Nat /\ gc.durable_up_to \in Nat
    BY <1>4, <2>2, RotorFields DEF Ledger
  <2> HIDE DEF begun
  <2> QED BY <2>3, SMTT(30) DEF TypeOK, Frame
<1>9. Books(gc, frames, frame_seqs, builder.records, last_seq, promised)
  BY DEF Booked
<1>10. rotate \in BOOLEAN
  BY DEF rotation_due, fits, upgrade_due
<1> HIDE DEF plan, rotate, wt_ok, x, begun
<1>11. plan = frame_plan(gc, wt_ok, rotate)
  BY DEF plan
<1>12. Books(register_barrier(note_frame_queued(IF rotate THEN register_seal_fsync(gc)
                                               ELSE gc), plan),
             Append(frames, x),
             frame_seqs \cup {[end |-> Len(frames) + 1, seq |-> last_seq]}, 0, last_seq, promised)
  BY Zenon, <1>2, <1>3, <1>4, <1>5, <1>6, <1>8, <1>9, <1>10, <1>11, BooksFrame
<1>13. Books(gc', frames', frame_seqs', builder'.records, last_seq', promised')
  BY Zenon, <1>1, <1>7, <1>12 DEF NoRecords
<1>14. SeqAt(frames', gc'.durable_up_to) = SeqAt(frames, gc.durable_up_to)
  <2>1. gc'.durable_up_to = gc.durable_up_to
    <3> DEFINE b == IF rotate THEN register_seal_fsync(gc) ELSE gc
    <3>1. Good(b) /\ b.durable_up_to = gc.durable_up_to
      BY Zenon, <1>4, SealKeeps
    <3> HIDE DEF b
    <3>2. Good(note_frame_queued(b)) /\ note_frame_queued(b).durable_up_to = gc.durable_up_to
      BY Zenon, <3>1, FrameQueuedKeeps
    <3>3. gc' = register_barrier(note_frame_queued(b), plan)
      BY Zenon, <1>1, <1>7 DEF b
    <3> QED BY <1>2, <1>3, <3>2, <3>3, BarrierKeeps
  <2>2. gc.durable_up_to \in Nat /\ gc.durable_up_to <= Len(frames) /\ frames \in Seq(Frame)
    <3>1. gc.durable_up_to <= queued_up_to(gc) /\ queued_up_to(gc) = Len(frames)
      BY Zenon, <1>4 DEF Good, CoverageOrdered, LogShape
    <3> QED BY Zenon, <1>4, <3>1, <1>9 DEF Ledger, Books
  <2>3. CASE gc.durable_up_to = 0
    BY <2>1, <2>3 DEF SeqAt
  <2>4. CASE gc.durable_up_to # 0
    <3>1. frames'[gc.durable_up_to] = frames[gc.durable_up_to]
      BY <1>1, <2>2, <2>4, AppendFacts
    <3> QED BY Zenon, <2>1, <2>4, <3>1 DEF SeqAt
  <2> QED BY Zenon, <2>3, <2>4
<1> QED BY Zenon, <1>1, <1>13, <1>14 DEF Booked

\* A sync completes, on whatever ledger and map.
LEMMA BookedSynced ==
    ASSUME NEW g, Good(g), NEW map, NEW ticket \in Nat, NEW rest,
           pending_live(g, pending_index(g, ticket)), last_seq <= MaxSeq,
           Books(g, frames, map, builder.records, last_seq, promised),
           acked_seq = SeqAt(frames, g.durable_up_to),
           on_synced(g, map, ticket, rest), UNCHANGED <<frames, builder, last_seq, promised>>
    PROVE  Booked'
<1> DEFINE g1 == on_fsync_complete(g, ticket)
           covered == {e \in map : e.end <= g1.durable_up_to}
           advanced == g1.durable_up_to # g.durable_up_to
           g2 == IF completion_fsync_due(g1) THEN register_completion_fsync(g1) ELSE g1
           kept == IF advanced THEN map \ covered ELSE map
           last == Max({e.seq : e \in covered})
<1>1. /\ gc' = g2 /\ frame_seqs' = kept
      /\ acked_seq' = IF advanced /\ covered # {} THEN last ELSE acked_seq
  BY Zenon DEF on_synced
<1>2. /\ Books(g2, frames, kept, builder.records, last_seq, promised)
      /\ g2.durable_up_to = g1.durable_up_to
  BY Zenon, BooksSynced
<1>3. advanced => covered # {} /\ last = SeqAt(frames, g1.durable_up_to)
  BY Zenon, BooksComplete
<1> HIDE DEF g1, g2, kept, last, covered
<1>4. acked_seq' = SeqAt(frames, g1.durable_up_to)
  BY Zenon, <1>1, <1>3
<1> QED BY Zenon, <1>1, <1>2, <1>4 DEF Booked

\* An fdatasync completes.
LEMMA BookedFdatasync ==
    ASSUME TypeOK, Alive, Booked, NEW s \in syncs, on_fdatasync(s)
    PROVE  Booked'
<1>1. /\ on_synced(gc, frame_seqs, s.ticket, syncs \ {s})
      /\ UNCHANGED <<builder, frames, last_seq, promised>>
  BY Zenon DEF on_fdatasync
<1>2. Good(gc) /\ Live(gc, s.ticket)
  BY Zenon, SeenTyped DEF Alive, Plane, Agreed, Claims, Tickets
<1>3. s.ticket \in Nat /\ last_seq <= MaxSeq
  BY CellConstants DEF TypeOK, Sync
<1> QED BY <1>1, <1>2, <1>3, BookedSynced DEF Booked, Live

\* A frame's write completes.
LEMMA BookedLogWritten ==
    ASSUME TypeOK, Alive, Booked, NEW f \in in_flight, on_log_written(f)
    PROVE  Booked'
<1> DEFINE g == note_frame_written(gc, f.id)
           map == coalesce_ack_map(frame_seqs, g)
           claim == ack_map_bounded(map, g)
           g1 == Asserting(g, claim)
<1>1. /\ IF f.ticket # 0
         THEN on_synced(g1, map, f.ticket, syncs)
         ELSE gc' = g1 /\ frame_seqs' = map /\ UNCHANGED acked_seq
      /\ UNCHANGED <<builder, frames, last_seq, promised>>
  BY DEF on_log_written
<1>2. /\ Good(gc) /\ gc \in Ledger /\ LogShape(gc, Seen) /\ Tickets(gc, Seen)
      /\ Seen.in_flight = in_flight /\ Agreed(gc, Seen, builder)
  BY Zenon, SeenTyped DEF Alive, Plane, Agreed, Claims, Good
<1>3. /\ f.id \in Int /\ f.ticket \in Nat /\ last_seq <= MaxSeq
      /\ frame_seqs \in SUBSET [end : Nat, seq : Nat]
  <2>1. f.id \in Int /\ f.ticket \in Nat /\ last_seq <= MaxSeq
    BY CellConstants DEF TypeOK
  <2>2. frame_seqs \subseteq [end : Nat, seq : 0..MaxSeq]
    BY DEF TypeOK
  <2>3. 0..MaxSeq \subseteq Nat
    BY CellConstants
  <2>4. \A a \in frame_seqs : a \in [end : Nat, seq : Nat]
    BY Zenon, <2>2, <2>3
  <2> QED BY Zenon, <2>1, <2>4
<1>4. f.id - gc.written_up_to \in DOMAIN gc.queued /\ ~gc.queued[f.id - gc.written_up_to]
  BY <1>2 DEF LogShape
<1>5. Books(g1, frames, map, builder.records, last_seq, promised)
  <2>1. Books(gc, frames, frame_seqs, builder.records, last_seq, promised)
    BY DEF Booked
  <2> QED BY Zenon, <1>2, <1>3, <1>4, <2>1, BooksWritten
<1>6. Good(g) /\ \E n \in 0..Len(gc.queued) : Written(gc, g, f.id - gc.written_up_to, n)
  BY Zenon, <1>2, FlightWritten
<1>7. claim \in BOOLEAN
  BY Zenon, BoundedOrNot
<1> HIDE DEF claim, map, g
<1>8. g \in Ledger /\ Good(g1)
  BY Zenon, <1>6, <1>7, AssertingKeeps DEF Good
<1>9. SameEntries(g, g1)
  BY Zenon, <1>8, FlagsSame
<1>10. g.pending = gc.pending /\ g.next_ticket = gc.next_ticket
       /\ g.durable_up_to = gc.durable_up_to
  BY Zenon, <1>6 DEF Written
<1> HIDE DEF g1
<1>11. /\ g1.pending = gc.pending /\ g1.next_ticket = gc.next_ticket
       /\ g1.durable_up_to = gc.durable_up_to
  BY Zenon, <1>9, <1>10 DEF SameEntries
<1>12. acked_seq = SeqAt(frames, g1.durable_up_to)
  BY Zenon, <1>11 DEF Booked
<1>13. CASE f.ticket # 0
  <2>1. Live(gc, f.ticket)
    BY Zenon, <1>2, <1>13 DEF Tickets
  <2>2. pending_live(g1, pending_index(g1, f.ticket))
    BY <1>11, <2>1 DEF Live, pending_live, pending_index
  <2>3. on_synced(g1, map, f.ticket, syncs) /\ UNCHANGED <<builder, frames, last_seq, promised>>
    BY Zenon, <1>1, <1>13
  <2> QED BY <1>3, <1>5, <1>8, <1>12, <2>2, <2>3, BookedSynced
<1>14. CASE f.ticket = 0
  BY Zenon, <1>1, <1>5, <1>12, <1>14 DEF Booked
<1> QED BY Zenon, <1>13, <1>14

-----------------------------------------------------------------------------
\* Every step of a live cell that does not stop it keeps the books.
LEMMA BookedStep ==
    ASSUME TypeOK, Alive, Booked, [Next]_vars, ~failed'
    PROVE  Booked'
<1> DEFINE quiet == UNCHANGED <<gc, frames, frame_seqs, builder, last_seq, promised, acked_seq>>
<1>1. ASSUME NEW created \in BOOLEAN, NEW taken \in PoolTake, NEW issue \in BOOLEAN,
             maintain(created, taken, issue)
      PROVE  Booked'
  BY <1>1, BookedMaintain
<1>2. ASSUME NEW len \in FrameLens, seal_frame(len) PROVE Booked'
  BY <1>2, BookedSealFrame
<1>3. ASSUME NEW held \in BOOLEAN, seal_nothing(held) PROVE Booked'
  BY <1>3, BookedSealNothing
<1>4. ASSUME NEW f \in in_flight, on_log_written(f) PROVE Booked'
  BY <1>4, BookedLogWritten
<1>5. ASSUME NEW s \in syncs, on_fdatasync(s) PROVE Booked'
  BY <1>5, BookedFdatasync
<1>6. ASSUME NEW class \in Classes,
             stage(class) \/ write_blob_arrival(class) \/ write_blob_turn(class)
      PROVE  Booked'
  BY <1>6, BookedExecute
<1>7. CASE on_everysec_tick
  BY <1>7, BookedTick
<1>8. CASE tier_maintain
  BY <1>8, BookedTier
<1>9. CASE drop_turn \/ truncate \/ on_zero_fill_written \/ extent_hold \/ UNCHANGED vars
  <2>1. quiet
    BY <1>9, ZenonT(30) DEF drop_turn, truncate, on_zero_fill_written, extent_hold, vars, cell
  <2> QED BY <2>1, BookedQuiet
<1>10. CASE reserve_no_space \/ on_log_error
  <2>1. failed' = TRUE
    BY <1>10, ZenonT(30) DEF reserve_no_space, on_log_error
  <2> QED BY <2>1
<1>11. SpaceOutcomes \subseteq BOOLEAN
  BY CellConstants
<1> QED BY <1>1, <1>2, <1>3, <1>4, <1>5, <1>6, <1>7, <1>8, <1>9, <1>10, <1>11
        DEF Next, Execute, Maintain, seal_log, Reap
================================================================================
