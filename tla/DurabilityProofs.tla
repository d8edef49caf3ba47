--------------------------- MODULE DurabilityProofs ----------------------------
(***************************************************************************)
(* What a durable cell promises: the watermark is honest, acks stand       *)
(* exactly at it, every promise is kept when the stop drain exits, no      *)
(* release assertion is reachable, and the cell implements DurableLog.     *)
(*                                                                         *)
(* Sound is the inductive invariant of the plane, Kept adds the books.     *)
(* Both describe a running cell; a step that stops it (a device error, no  *)
(* space) keeps what they show.                                            *)
(***************************************************************************)
EXTENDS PlaneProofs, SealProofs, BooksProofs

-----------------------------------------------------------------------------
\* Only a rotation and truncation change the log's segments.
LEMMA FilesSame ==
    ASSUME NEW r \in Rotor
    PROVE  /\ SameFiles(r, next_zero_slice(r))
           /\ SameFiles(r, take_zero_fill_barrier(r))
           /\ SameFiles(r, note_zero_slice_written(r))
           /\ SameFiles(r, note_zero_fill_synced(r))
           /\ SameFiles(r, commit_frame_queued(r))
BY SMTT(30) DEF next_zero_slice, take_zero_fill_barrier, commit_frame_queued,
       note_zero_slice_written, note_zero_fill_synced, Rotor, SameFiles

\* Neither does the choice of a next segment.
LEMMA FilesSourced ==
    ASSUME NEW r \in Rotor, NEW take_ok \in BOOLEAN
    PROVE  LET s == prealloc_source(r, take_ok)
           IN  /\ SameFiles(r, s.rotor)
               /\ \A allocated : SameFiles(r, maintain_ok(s, allocated))
               /\ SameFiles(r, maintain_no_space(s))
<1> DEFINE popped == [r EXCEPT !.pool = Tail(@)]
           taken == [popped EXCEPT !.prealloc = IF waiting(r) THEN Immediate ELSE @]
           waits == [r EXCEPT !.prealloc.kind = "WaitingForRecycle"]
           none == -1
           s == prealloc_source(r, take_ok)
<1>1. SameFiles(r, r) /\ SameFiles(r, popped) /\ SameFiles(r, taken) /\ SameFiles(r, waits)
  BY DEF Rotor, SameFiles
<1>2. \A q \in Rotor : SameFiles(q, fall_back(q))
  BY DEF Rotor, SameFiles, fall_back
<1>3. recycling /\ r.pool # <<>> => popped \in Rotor
  <2> SUFFICES ASSUME r.pool # <<>>
               PROVE  popped \in Rotor
    OBVIOUS
  <2>1. Tail(r.pool) \in Seq(Nat)
    BY RotorFields
  <2> QED BY Zenon, <2>1 DEF Rotor
<1>4. \/ /\ recycling /\ r.pool # <<>>
         /\ \/ s = Source(taken, "Recycled", Head(r.pool))
            \/ s = Source(fall_back(popped), "Fresh", none)
      \/ s = Source(r, "Wait", none)
      \/ s = Source(waits, "Wait", none)
      \/ s = Source(fall_back(r), "Fresh", none)
  BY Zenon DEF prealloc_source
<1>5. s.rotor \in Rotor
  BY SourceTyped
<1> HIDE DEF popped, taken, waits, none, s
<1>6. \A x, y, z : Source(x, y, z).rotor = x
  BY DEF Source
<1>7. SameFiles(r, popped) /\ SameFiles(popped, fall_back(popped)) => SameFiles(r, fall_back(popped))
  BY DEF SameFiles
<1>8. SameFiles(r, s.rotor)
  BY <1>1, <1>2, <1>3, <1>4, <1>6, <1>7
<1>9. /\ SameFiles(s.rotor, maintain_no_space(s))
      /\ \A allocated : SameFiles(s.rotor, maintain_ok(s, allocated))
  BY <1>5 DEF maintain_ok, maintain_no_space, Rotor, SameFiles
<1> QED BY <1>8, <1>9 DEF SameFiles, s

\* They depend on these fields alone.
LEMMA HeldSame ==
    ASSUME NEW r, NEW q, SameFiles(r, q)
    PROVE  Held(q) = Held(r)
BY DEF SameFiles, Held

\* Truncation forgets a segment, a rotation adds one.
LEMMA HeldTurned ==
    ASSUME NEW r \in Rotor
    PROVE  /\ r.sealed # <<>> => Held(forget_sealed(r)) \subseteq Held(r)
           /\ Held(rotate_deferred(r)) \subseteq Held(r) \cup {rotate_deferred(r).active}
<1> DEFINE Sealed == [id : Nat, prezeroed : BOOLEAN]
<1>1. r.sealed \in Seq(Sealed)
  BY DEF Rotor
<1>2. ASSUME r.sealed # <<>> PROVE Held(forget_sealed(r)) \subseteq Held(r)
  <2> DEFINE q == forget_sealed(r)
  <2>1. q.active = r.active /\ q.sealed = Tail(r.sealed)
    BY DEF forget_sealed, Rotor
  <2>2. \A i \in DOMAIN Tail(r.sealed) : i + 1 \in DOMAIN r.sealed
                                         /\ Tail(r.sealed)[i] = r.sealed[i + 1]
    BY <1>1, <1>2
  <2> HIDE DEF q
  <2>3. ASSUME NEW x \in Held(q) PROVE x \in Held(r)
    BY <2>1, <2>2, <2>3 DEF Held
  <2> QED BY <2>3 DEF q
<1>3. Held(rotate_deferred(r)) \subseteq Held(r) \cup {rotate_deferred(r).active}
  <2> DEFINE q == rotate_deferred(r)
             x == [id |-> r.active, prezeroed |-> r.prezeroed]
  <2>1. q.sealed = Append(r.sealed, x)
    BY DEF rotate_deferred, rotate_onto, Rotor
  <2>2. x.id = r.active
    OBVIOUS
  <2> HIDE DEF x, q
  <2>3. \A i \in DOMAIN Append(r.sealed, x) :
            \/ i \in DOMAIN r.sealed /\ Append(r.sealed, x)[i] = r.sealed[i]
            \/ Append(r.sealed, x)[i] = x
    BY <1>1
  <2>4. ASSUME NEW y \in Held(q) PROVE y \in Held(r) \cup {q.active}
    BY <2>1, <2>2, <2>3, <2>4 DEF Held
  <2> QED BY <2>4 DEF q
<1> QED BY <1>2, <1>3

-----------------------------------------------------------------------------
\* The rotor keeps its segments.
LEMMA GrowsSame ==
    ASSUME TypeOK, stable \subseteq stable', frames' = frames, SameFiles(rotor, rotor')
    PROVE  Grows
<1>1. Held(rotor') = Held(rotor)
  BY HeldSame
<1>2. Len(frames) \in Nat
  BY DEF TypeOK
<1> QED BY <1>1, <1>2 DEF Grows

\* MAINTAIN.
LEMMA GrowsMaintain ==
    ASSUME TypeOK, NEW created \in BOOLEAN, NEW taken \in PoolTake, NEW issue \in BOOLEAN,
           maintain(created, taken, issue)
    PROVE  SameFiles(rotor, rotor')
<1> DEFINE s == prealloc_source(rotor, taken # "failed")
           allocated == s.source = "Recycled" /\ taken = "allocated"
<1>0. rotor \in Rotor /\ (taken # "failed") \in BOOLEAN /\ allocated \in BOOLEAN
  BY DEF TypeOK
<1>1. \E r1, r2 : /\ r1 \in {rotor, maintain_ok(s, allocated), maintain_no_space(s), s.rotor}
                  /\ r2 \in {r1, next_zero_slice(r1)}
                  /\ rotor' \in {r2, take_zero_fill_barrier(r2)}
  <2> DEFINE sourced == rotor.next = NoNext /\ s.source # "Wait"
             named == sourced /\ (created \/ s.source = "Recycled")
             r1 == CASE rotor.next # NoNext -> rotor
                     [] named -> maintain_ok(s, s.source = "Recycled" /\ taken = "allocated")
                     [] sourced /\ ~named -> maintain_no_space(s)
                     [] OTHER -> s.rotor
             slice == issue /\ zero_fill_pending(r1)
             r2 == IF slice THEN next_zero_slice(r1) ELSE r1
             barrier == zero_fill_ticket = 0 /\ r2.next.state = "AwaitBarrier"
  <2>1. rotor' = IF barrier THEN take_zero_fill_barrier(r2) ELSE r2
    BY ZenonT(30) DEF maintain
  <2>2. r1 \in {rotor, maintain_ok(s, allocated), maintain_no_space(s), s.rotor}
    BY Zenon
  <2> HIDE DEF r1
  <2>3. r2 \in {r1, next_zero_slice(r1)}
    BY Zenon
  <2> HIDE DEF r2
  <2>4. rotor' \in {r2, take_zero_fill_barrier(r2)}
    BY <2>1
  <2> QED BY <2>2, <2>3, <2>4
<1>2. PICK r1, r2 : /\ r1 \in {rotor, maintain_ok(s, allocated), maintain_no_space(s), s.rotor}
                    /\ r2 \in {r1, next_zero_slice(r1)}
                    /\ rotor' \in {r2, take_zero_fill_barrier(r2)}
  BY <1>1
<1>3. SameFiles(rotor, r1) /\ r1 \in Rotor
  <2>1. SameFiles(rotor, rotor)
    BY Zenon DEF SameFiles
  <2>2. /\ SameFiles(rotor, s.rotor) /\ SameFiles(rotor, maintain_ok(s, allocated))
        /\ SameFiles(rotor, maintain_no_space(s))
    BY Zenon, <1>0, FilesSourced
  <2>3. s.rotor \in Rotor /\ maintain_ok(s, allocated) \in Rotor /\ maintain_no_space(s) \in Rotor
    BY Zenon, <1>0, SourceTyped, MaintainTyped
  <2> HIDE DEF s, allocated
  <2> QED BY <1>0, <1>2, <2>1, <2>2, <2>3
<1> HIDE DEF s, allocated
<1>4. SameFiles(rotor, r2) /\ r2 \in Rotor
  <2>1. next_zero_slice(r1) \in Rotor /\ SameFiles(r1, next_zero_slice(r1))
    BY <1>3, FilesSame, FillTyped
  <2> QED BY <1>2, <1>3, <2>1 DEF SameFiles
<1>5. SameFiles(r2, take_zero_fill_barrier(r2))
  BY <1>4, FilesSame
<1> QED BY <1>2, <1>4, <1>5 DEF SameFiles

\* LOG seals a frame, on the next segment perhaps.
LEMMA GrowsSeal ==
    ASSUME TypeOK, rotor.next # NoNext => rotor.next.id = rotor.active + 1,
           NEW len \in FrameLens, seal_frame(len)
    PROVE  Grows
<1> DEFINE q == rotate_deferred(rotor)
           r == IF rotation_due(rotor) THEN q ELSE rotor
<1>0. rotor \in Rotor /\ rotor.active \in Nat /\ frames \in Seq(Frame)
  BY Zenon DEF TypeOK, Rotor
<1>1. rotor' = commit_frame_queued(r)
  BY Zenon DEF seal_frame, begin_frame
<1>2. \E x : frames' = Append(frames, x)
  BY ZenonT(30) DEF seal_frame
<1>3. stable \subseteq stable'
  BY ZenonT(30) DEF seal_frame
<1>4. q \in Rotor /\ q.active = rotor.active + 1
  <2>1. Rotated(rotor, q)
    BY <1>0, RotateIs
  <2>2. q \in Rotor
    BY Zenon, <1>0, RotateTyped
  <2> HIDE DEF q
  <2> QED BY <2>1, <2>2 DEF Rotated
<1>5. Held(q) \subseteq Held(rotor) \cup {q.active}
  BY <1>0, HeldTurned
<1> HIDE DEF q
<1>6. r \in Rotor /\ \A x \in Held(r) : x \in Held(rotor) \/ x > rotor.active
  BY <1>0, <1>4, <1>5
<1> HIDE DEF r
<1>7. Held(rotor') = Held(r)
  BY <1>1, <1>6, FilesSame, HeldSame
<1>8. /\ Len(frames) <= Len(frames')
      /\ \A n \in DOMAIN frames : frames'[n] = frames[n]
  BY <1>0, <1>2
<1> QED BY <1>3, <1>6, <1>7, <1>8 DEF Grows

\* Every step.
LEMMA StepGrows ==
    ASSUME TypeOK, rotor.next # NoNext => rotor.next.id = rotor.active + 1, [Next]_vars
    PROVE  Grows
<1> DEFINE same == stable \subseteq stable' /\ frames' = frames /\ rotor' = rotor
<1>0. rotor \in Rotor
  BY Zenon DEF TypeOK
<1>1. CASE same
  <2>1. SameFiles(rotor, rotor')
    BY Zenon, <1>1 DEF SameFiles
  <2> QED BY <1>1, <2>1, GrowsSame
<1>2. ASSUME NEW created \in BOOLEAN, NEW taken \in PoolTake, NEW issue \in BOOLEAN,
             maintain(created, taken, issue)
      PROVE  Grows
  <2>1. stable' = stable /\ frames' = frames
    BY <1>2, Zenon DEF maintain
  <2> QED BY <1>2, <2>1, GrowsMaintain, GrowsSame
<1>3. ASSUME NEW len \in FrameLens, seal_frame(len) PROVE Grows
  BY <1>3, GrowsSeal
<1>4. ASSUME NEW g, NEW map, NEW t, NEW rest, on_synced(g, map, t, rest)
      PROVE  SameFiles(rotor, rotor')
  <2>1. rotor' = rotor \/ rotor' = note_zero_fill_synced(rotor)
    BY <1>4 DEF on_synced
  <2> QED BY Zenon, <1>0, <2>1, FilesSame DEF SameFiles
<1>5. ASSUME NEW f \in in_flight, on_log_written(f) PROVE Grows
  <2>1. frames' = frames
    BY <1>5, ZenonT(30) DEF on_log_written
  <2>2. \/ rotor' = rotor /\ stable' = stable
        \/ /\ stable' = stable \cup {<<"fua", f.id>>}
           /\ \E g, map : on_synced(g, map, f.ticket, syncs)
    BY <1>5, Zenon DEF on_log_written
  <2>3. CASE rotor' = rotor /\ stable' = stable
    BY <1>1, <2>1, <2>3
  <2>4. CASE /\ stable' = stable \cup {<<"fua", f.id>>}
             /\ \E g, map : on_synced(g, map, f.ticket, syncs)
    <3>1. stable \subseteq stable'
      BY <2>4
    <3> QED BY <1>4, <2>1, <2>4, <3>1, GrowsSame
  <2> QED BY <2>2, <2>3, <2>4
<1>6. ASSUME NEW s \in syncs, on_fdatasync(s) PROVE Grows
  <2>1. frames' = frames /\ stable \subseteq stable'
    BY <1>6 DEF on_fdatasync
  <2>2. on_synced(gc, frame_seqs, s.ticket, syncs \ {s})
    BY <1>6 DEF on_fdatasync
  <2> QED BY <1>4, <2>1, <2>2, GrowsSame
<1>7. CASE truncate
  <2>1. /\ stable' = stable /\ frames' = frames /\ rotor' = forget_sealed(rotor)
        /\ rotor.sealed # <<>>
    BY <1>7 DEF truncate, device
  <2>2. Held(rotor') \subseteq Held(rotor)
    BY <1>0, <2>1, HeldTurned
  <2>3. Len(frames) \in Nat
    BY DEF TypeOK
  <2> QED BY <2>1, <2>2, <2>3 DEF Grows
<1>8. CASE on_zero_fill_written
  <2>1. stable' = stable /\ frames' = frames /\ rotor' = note_zero_slice_written(rotor)
    BY <1>8 DEF on_zero_fill_written
  <2>2. SameFiles(rotor, rotor')
    BY <1>0, <2>1, FilesSame
  <2> QED BY <2>1, <2>2, GrowsSame
<1>9. ASSUME NEW class \in Classes,
             stage(class) \/ write_blob_arrival(class) \/ write_blob_turn(class)
      PROVE  same
  BY <1>9, Zenon DEF stage, write_blob_arrival, write_blob_turn, RegisterAndStage,
         StageRecord, device
<1>10. ASSUME NEW held \in BOOLEAN, seal_nothing(held) PROVE same
  BY <1>10, ZenonT(30) DEF seal_nothing
<1>11. CASE drop_turn \/ on_everysec_tick \/ tier_maintain \/ extent_hold
            \/ reserve_no_space \/ on_log_error \/ UNCHANGED vars
  <2>1. same
    BY <1>11, Zenon DEF drop_turn, on_everysec_tick, tier_maintain, extent_hold,
           reserve_no_space, on_log_error, vars, cell, device
  <2> QED BY Zenon, <1>1, <2>1
<1>12. SpaceOutcomes \subseteq BOOLEAN
  BY CellConstants
<1> HIDE DEF same
<1> QED BY <1>1, <1>2, <1>3, <1>5, <1>6, <1>7, <1>8, <1>9, <1>10, <1>11, <1>12
        DEF Next, Execute, Maintain, seal_log, Reap

-----------------------------------------------------------------------------
\* There is such an n.
LEMMA LeadExists ==
    ASSUME TypeOK
    PROVE  \E n : Lead(n)
<1> DEFINE L == Len(frames)
           S == {n \in 0..L : n < L => ~Survives(n + 1)}
<1>1. L \in Nat
  BY DEF TypeOK
<1> HIDE DEF L
<1>2. S \in SUBSET Nat /\ L \in S
  BY <1>1
<1>3. PICK n \in S : \A m \in S : n <= m
  <2> HIDE DEF S
  <2> QED BY Zenon, <1>2, LeastNat
<1>4. ASSUME NEW i \in 1..n PROVE Survives(i)
  <2>1. i - 1 \in 0..L /\ i - 1 < L /\ ~(n <= i - 1) /\ (i - 1) + 1 = i
    BY <1>1, <1>3
  <2>2. i - 1 \notin S
    <3> HIDE DEF S
    <3> QED BY <1>3, <2>1
  <2> QED BY Zenon, <2>1, <2>2
<1> QED BY <1>3, <1>4 DEF Lead, L

\* SurvivingSeq picks it.
LEMMA SurvivingIs == TypeOK => Surviving
<1> SUFFICES ASSUME TypeOK PROVE Surviving
  OBVIOUS
<1> DEFINE P(n) == /\ \A i \in 1..n : Survives(i)
                   /\ n < Len(frames) => ~Survives(n + 1)
           c == CHOOSE n \in 0..Len(frames) : P(n)
<1>1. \E n \in 0..Len(frames) : P(n)
  BY LeadExists DEF Lead
<1>2. c \in 0..Len(frames) /\ P(c)
  <2> HIDE DEF P
  <2> QED BY <1>1, Zenon
<1>3. SurvivingSeq = IF c = 0 THEN 0 ELSE frames[c].seq
  BY Zenon DEF SurvivingSeq
<1>4. Lead(c)
  BY <1>2 DEF Lead
<1> HIDE DEF c
<1> QED BY <1>3, <1>4 DEF Surviving

\* A prefix that survives is no longer than the longest.
LEMMA LeadIsLongest ==
    ASSUME TypeOK, NEW n, Lead(n), NEW m \in 0..Len(frames), \A i \in 1..m : Survives(i)
    PROVE  m <= n
<1>1. Len(frames) \in Nat
  BY DEF TypeOK
<1>2. CASE n < m
  <2>1. n + 1 \in 1..m /\ n < Len(frames)
    BY <1>1, <1>2 DEF Lead
  <2> QED BY <2>1 DEF Lead
<1> QED BY <1>1, <1>2 DEF Lead

\* A frame that survives goes on to.
LEMMA SurvivesOn ==
    ASSUME TypeOK, Grows, NEW n \in DOMAIN frames, frames[n].seg <= rotor.active, Survives(n)
    PROVE  Survives(n)'
<1>1. frames'[n] = frames[n] /\ stable \subseteq stable'
  BY DEF Grows
<1>2. frames[n].seg \in Nat /\ rotor.active \in Nat
  <2>1. frames \in Seq(Frame) /\ rotor \in Rotor
    BY Zenon DEF TypeOK
  <2>2. frames[n] \in Frame
    BY <2>1
  <2> QED BY Zenon, <2>1, <2>2 DEF Frame, Rotor
<1>3. CASE Truncated(n)
  <2>1. frames[n].seg \notin Held(rotor)
    BY <1>3 DEF Truncated, Held
  <2>2. frames[n].seg \notin Held(rotor')
    BY <1>2, <2>1 DEF Grows
  <2>3. Truncated(n)'
    BY <1>1, <2>2 DEF Truncated, Held
  <2> QED BY Zenon, <2>3 DEF Survives
<1>4. CASE ~Truncated(n)
  BY <1>1, <1>4 DEF Survives
<1> QED BY <1>3, <1>4

\* So what survives never shrinks.
LEMMA LeadGrows ==
    ASSUME TypeOK, TypeOK', Grows, \A n \in DOMAIN frames : frames[n].seg <= rotor.active,
           NEW n, Lead(n), NEW m, Lead(m)'
    PROVE  n <= m
<1>1. Len(frames) \in Nat /\ Len(frames') \in Nat /\ DOMAIN frames = 1..Len(frames)
  BY DEF TypeOK
<1>2. n \in 0..Len(frames') /\ n \in 0..Len(frames)
  BY <1>1 DEF Lead, Grows
<1>3. ASSUME NEW i \in 1..n PROVE Survives(i)'
  <2>1. i \in DOMAIN frames /\ Survives(i)
    BY <1>1, <1>2 DEF Lead
  <2> QED BY Zenon, <2>1, SurvivesOn
<1>4. CASE m < n
  <2>1. m + 1 \in 1..n /\ m < Len(frames')
    BY <1>1, <1>2, <1>4 DEF Lead
  <2> QED BY <1>3, <2>1 DEF Lead
<1>5. m \in Int
  BY <1>1 DEF Lead
<1> QED BY <1>2, <1>4, <1>5

\* And it stays as it is while the frames, the rotor and the medium do.
LEMMA SurvivingSame ==
    ASSUME TypeOK, TypeOK', UNCHANGED <<frames, rotor, stable>>
    PROVE  SurvivingSeq' = SurvivingSeq
<1>1. PICK n : Lead(n) /\ SurvivingSeq = IF n = 0 THEN 0 ELSE frames[n].seq
  BY SurvivingIs DEF Surviving
<1>2. Surviving'
  BY SurvivingIs, PTL
<1>3. PICK m : Lead(m)' /\ SurvivingSeq' = IF m = 0 THEN 0 ELSE frames'[m].seq
  BY Zenon, <1>2 DEF Surviving
<1>4. Lead(m)
  BY Zenon, <1>3 DEF Lead, Survives, Truncated
<1>5. n <= m /\ m <= n /\ n \in Int /\ m \in Int
  <2>1. Len(frames) \in Nat
    BY DEF TypeOK
  <2>2. /\ n \in 0..Len(frames) /\ m \in 0..Len(frames)
        /\ \A i \in 1..n : Survives(i)
        /\ \A i \in 1..m : Survives(i)
    BY <1>1, <1>4 DEF Lead
  <2> QED BY <1>1, <1>4, <2>1, <2>2, LeadIsLongest
<1>6. n = m
  BY <1>5
<1> QED BY <1>1, <1>3, <1>6

-----------------------------------------------------------------------------
\* Every step of a live cell that does not stop it keeps the plane in agreement.
LEMMA AliveStep ==
    ASSUME TypeOK, TypeOK', Good(gc'), Alive, [Next]_vars, ~failed'
    PROVE  Alive'
<1>1. ASSUME NEW created \in BOOLEAN, NEW taken \in PoolTake, NEW issue \in BOOLEAN,
             maintain(created, taken, issue)
      PROVE  Alive'
  BY <1>1, MaintainAlive
<1>2. ASSUME NEW len \in FrameLens, seal_frame(len) PROVE Alive'
  BY <1>2, SealFrameAlive
<1>3. ASSUME NEW held \in BOOLEAN, seal_nothing(held) PROVE Alive'
  BY <1>3, SealNothingAlive
<1>4. ASSUME NEW f \in in_flight, on_log_written(f) PROVE Alive'
  BY <1>4, LogWrittenAlive
<1>5. ASSUME NEW s \in syncs, on_fdatasync(s) PROVE Alive'
  BY <1>5, FdatasyncAlive
<1>6. ASSUME NEW class \in Classes,
             stage(class) \/ write_blob_arrival(class) \/ write_blob_turn(class)
      PROVE  Alive'
  BY <1>6, SmallSteps
<1>7. CASE drop_turn
  BY <1>7, SmallSteps
<1>8. CASE on_everysec_tick
  BY <1>8, SmallSteps
<1>9. CASE truncate
  BY <1>9, SmallSteps
<1>10. CASE tier_maintain
  BY <1>10, SmallSteps
<1>11. CASE on_zero_fill_written
  BY <1>11, SmallSteps
<1>12. CASE extent_hold
  BY <1>12, SmallSteps
<1>13. CASE UNCHANGED vars
  BY <1>13, SmallSteps
<1>14. CASE reserve_no_space
  <2>1. failed' = TRUE
    BY <1>14, ZenonT(30) DEF reserve_no_space
  <2> QED BY <2>1
<1>15. CASE on_log_error
  <2>1. failed' = TRUE
    BY <1>15, ZenonT(30) DEF on_log_error
  <2> QED BY <2>1
<1>16. SpaceOutcomes \subseteq BOOLEAN
  BY CellConstants
<1> QED BY <1>1, <1>2, <1>3, <1>4, <1>5, <1>6, <1>7, <1>8, <1>9, <1>10, <1>11, <1>12, <1>13,
           <1>14, <1>15, <1>16
        DEF Next, Execute, Maintain, seal_log, Reap

\* It holds of every reachable state.
THEOREM PlaneIsSound == Spec => []Sound
<1>1. Init => Sound
  BY InitTyped, InitAlive, AliveHonest DEF Sound
<1>2. Sound /\ [Next]_vars => Sound'
  <2> SUFFICES ASSUME Sound, [Next]_vars PROVE Sound'
    OBVIOUS
  <2>1. LedgerInv
    BY DEF Sound, TypeOK, CoverageInOrder, LedgerInv, Good, Sync
  <2>2. TypeOK' /\ Good(gc')
    BY <2>1, TypeStep, LedgerStep DEF Sound
  <2>3. CoverageInOrder'
    BY <2>2 DEF CoverageInOrder, Good
  <2>4. CASE ~failed'
    <3>1. CASE failed
      <4>1. failed' = failed
        BY Zenon, <3>1, StopSteps DEF reserve_no_space, on_log_error, vars, cell
      <4> QED BY Zenon, <2>4, <3>1, <4>1
    <3>2. CASE ~failed
      <4>1. Alive'
        BY <2>2, <2>4, <3>2, AliveStep DEF Sound
      <4>2. Honest'
        BY <2>2, <4>1, AliveHonest, PTL
      <4> QED BY <2>2, <2>3, <4>1, <4>2 DEF Sound
    <3> QED BY <3>1, <3>2
  <2>5. CASE failed'
    <3>1. Honest'
      BY <2>5, StopKeepsHonest DEF Sound
    <3> QED BY <2>2, <2>3, <2>5, <3>1 DEF Sound
  <2> QED BY <2>4, <2>5
<1> QED BY <1>1, <1>2, PTL DEF Spec

\* Every frame below durable_up_to survives a power cut, with the extents it references,
\* whatever the order in which writes and syncs complete.
THEOREM WatermarkIsHonest == Spec => []WatermarkHonest
<1>1. Sound => WatermarkHonest
  BY DEF Sound, Honest
<1> QED BY <1>1, PlaneIsSound, PTL

\* Every extent a queued frame references is durable before the frame reaches the device:
\* seal_log holds the frame back while extent_barrier_pending.
THEOREM ExtentsComeFirst == Spec => []ExtentBeforeRecord
<1>1. Sound => ExtentBeforeRecord
  BY DEF Sound, Honest
<1> QED BY <1>1, PlaneIsSound, PTL

\* A zero slice in flight targets the segment the rotor is filling, never the active one:
\* the rotor does not turn to a segment whose slice is still out.
THEOREM SlicesStayOffFrames == Spec => []NoSliceOverFrames
<1>1. Sound => NoSliceOverFrames
  BY Zenon DEF Sound, Honest
<1> QED BY <1>1, PlaneIsSound, PTL

-----------------------------------------------------------------------------
\* The books of an empty ledger.
LEMMA EmptyBooks == Books(new_ledger, <<>>, {}, 0, 0, 0)
<1> DEFINE g == new_ledger
           no == FALSE
<1>1. /\ g.durable_up_to = 0 /\ g.written_up_to = 0 /\ g.queued = <<>> /\ g.pending = <<>>
      /\ g.always_unqueued = no /\ g.everysec_unqueued = no /\ g.panic = no
  BY Zenon DEF new_ledger
<1> HIDE DEF g, no
<1>2. queued_up_to(g) = 0 /\ coverage_tail(g) = 0
  BY <1>1 DEF queued_up_to, coverage_tail
<1>3. <<>> \in Seq(Frame) /\ Len(<<>>) = 0 /\ DOMAIN <<>> = {}
  OBVIOUS
<1>4. Mapped(g, <<>>, {})
  <2>1. (g.durable_up_to + 1)..Len(<<>>) = {}
    BY <1>1, <1>3
  <2> QED BY <2>1 DEF Mapped
<1>5. Rising(<<>>, 0)
  BY <1>3 DEF Rising
<1>6. ~no
  BY DEF no
<1>7. Promises(g, <<>>, 0, 0, 0)
  <2>1. SeqAt(<<>>, Len(<<>>)) = 0 /\ SeqAt(<<>>, coverage_tail(g)) = 0
    BY <1>2, <1>3 DEF SeqAt
  <2>2. ~g.always_unqueued
    BY <1>1, <1>6
  <2>3. 0 <= 0
    OBVIOUS
  <2> QED BY <2>1, <2>2, <2>3 DEF Promises
<1>8. ~g.panic
  BY <1>1, <1>6
<1> QED BY <1>2, <1>3, <1>4, <1>5, <1>7, <1>8 DEF Books, g

\* A boot barrier finds nothing queued and nothing durable.
LEMMA BootBooks ==
    ASSUME NEW g, Good(g), queued_up_to(g) = 0, g.durable_up_to = 0, coverage_tail(g) = 0,
           Books(g, <<>>, {}, 0, 0, 0)
    PROVE  LET h == register_boot_barrier(g)
           IN  /\ Good(h) /\ queued_up_to(h) = 0 /\ h.durable_up_to = 0 /\ coverage_tail(h) = 0
               /\ Books(h, <<>>, {}, 0, 0, 0)
<1> DEFINE h == register_boot_barrier(g)
<1>1. /\ Good(h) /\ queued_up_to(h) = 0 /\ coverage_tail(h) = 0
      /\ Pushed(g, h, coverage_tail(g), "BootBarrier")
  BY BootIs
<1>2. h.durable_up_to = 0
  BY Zenon, BootGood
<1>3. g \in Ledger /\ ~g.panic
  BY DEF Good, Books
<1>4. SameFlags(g, h)
  <2>1. Asserting(g, queued_up_to(g) = 0 /\ g.durable_up_to = 0) = g
    BY Zenon, <1>3, AssertHolds
  <2>2. h = push_pending(g, 0, "BootBarrier")
    BY <2>1 DEF register_boot_barrier
  <2>3. 0 \in Nat /\ coverage_tail(g) <= 0
    OBVIOUS
  <2>4. SameFlags(g, push_pending(g, 0, "BootBarrier"))
    BY <2>3, PushFlags
  <2> QED BY <2>2, <2>4
<1>5. coverage_tail(g) >= coverage_tail(g)
  OBVIOUS
<1> HIDE DEF h
<1>6. Books(h, <<>>, {}, 0, 0, 0)
  BY <1>1, <1>4, <1>5, BooksPush
<1> QED BY <1>1, <1>2, <1>6 DEF h

\* A fresh or reopened cell starts with its books in order.
LEMMA InitBooked == Init => Booked
<1> SUFFICES ASSUME Init PROVE Booked
  OBVIOUS
<1>1. PICK fresh \in BOOLEAN : gc = BootBarriers(fresh)
  BY Zenon DEF Init
<1>2. /\ builder = NoRecords /\ last_seq = 0 /\ acked_seq = 0 /\ frame_seqs = {}
      /\ frames = <<>> /\ promised = 0
  BY Zenon DEF Init
<1> DEFINE g1 == register_boot_barrier(new_ledger)
           g2 == register_boot_barrier(g1)
<1>3. /\ Good(new_ledger) /\ queued_up_to(new_ledger) = 0 /\ coverage_tail(new_ledger) = 0
      /\ new_ledger.durable_up_to = 0
  BY NewGood DEF new_ledger, queued_up_to, coverage_tail
<1>4. /\ Good(g1) /\ queued_up_to(g1) = 0 /\ g1.durable_up_to = 0 /\ coverage_tail(g1) = 0
      /\ Books(g1, <<>>, {}, 0, 0, 0)
  BY Zenon, <1>3, EmptyBooks, BootBooks
<1> HIDE DEF g1
<1>5. g2.durable_up_to = 0 /\ Books(g2, <<>>, {}, 0, 0, 0)
  BY Zenon, <1>4, BootBooks
<1> HIDE DEF g2
<1>6. gc.durable_up_to = 0 /\ Books(gc, <<>>, {}, 0, 0, 0)
  BY <1>1, <1>4, <1>5 DEF BootBarriers, g1, g2
<1>7. builder.records = 0
  BY <1>2 DEF NoRecords
<1>8. acked_seq = SeqAt(frames, gc.durable_up_to)
  BY Zenon, <1>2, <1>6 DEF SeqAt
<1> QED BY <1>2, <1>6, <1>7, <1>8 DEF Booked

\* The live cell.
LEMMA BookedPaid == Honest /\ Booked => Paid
BY Zenon DEF Booked, Books, Honest, Paid, AckExact, NoPanic, SeqAt

\* A step that stops the cell acknowledges nothing and fails no release assertion: the sync
\* that failed is one the ledger waits for.
LEMMA StopKeepsPaid ==
    ASSUME TypeOK, ~failed => Alive, Honest, Paid, [Next]_vars, failed'
    PROVE  Paid'
<1> DEFINE kept == /\ rotor' = rotor /\ frames' = frames /\ acked_seq' = acked_seq
                   /\ gc'.durable_up_to = gc.durable_up_to /\ (gc'.panic <=> gc.panic)
<1>1. CASE gc' = gc /\ rotor' = rotor /\ frames' = frames /\ acked_seq' = acked_seq
  BY Zenon, <1>1 DEF Paid, AckExact, NoPanic
<1>2. ASSUME ~failed, NEW s \in syncs, gc' = on_fsync_error(gc, s.ticket),
             rotor' = rotor, frames' = frames, acked_seq' = acked_seq
      PROVE  Paid'
  <2> DEFINE i == pending_index(gc, s.ticket)
             n == flush_slot_freed(gc, i)
             y == TRUE
             p == [gc.pending EXCEPT ![i].failed = y]
  <2>1. gc \in Ledger /\ Live(gc, s.ticket)
    BY <1>2, SeenTyped DEF Alive, Plane, Agreed, Claims, Tickets, Good
  <2>2. gc' = [gc EXCEPT !.pending[i].failed = y, !.flush_in_flight = n]
    BY <1>2, <2>1 DEF on_fsync_error, Live
  <2> HIDE DEF i, n, y
  <2>3. gc'.durable_up_to = gc.durable_up_to /\ gc'.panic = gc.panic
    BY <2>1, <2>2 DEF Ledger
  <2> QED BY Zenon, <1>2, <2>3 DEF Paid, AckExact, NoPanic
<1>3. CASE reserve_no_space
  <2>1. gc' = gc /\ rotor' = rotor /\ frames' = frames /\ acked_seq' = acked_seq
    BY <1>3, Zenon DEF reserve_no_space
  <2> QED BY <1>1, <2>1
<1>4. CASE on_log_error
  <2>1. /\ ~failed /\ rotor' = rotor /\ frames' = frames /\ acked_seq' = acked_seq
        /\ gc' = gc \/ \E s \in syncs : gc' = on_fsync_error(gc, s.ticket)
    BY <1>4, ZenonT(30) DEF on_log_error
  <2> QED BY <1>1, <1>2, <2>1
<1>5. CASE UNCHANGED vars
  <2>1. gc' = gc /\ rotor' = rotor /\ frames' = frames /\ acked_seq' = acked_seq
    BY <1>5 DEF vars, cell
  <2> QED BY <1>1, <2>1
<1>6. CASE ~failed /\ failed' = failed
  BY <1>6
<1> QED BY Zenon, <1>3, <1>4, <1>5, <1>6, StopSteps

\* A cell that is not stopped was not stopped before.
LEMMA StaysStopped ==
    ASSUME [Next]_vars, ~failed'
    PROVE  ~failed
<1>1. CASE reserve_no_space \/ on_log_error
  <2>1. failed' = TRUE
    BY <1>1, Zenon DEF reserve_no_space, on_log_error
  <2> QED BY <2>1
<1>2. CASE UNCHANGED vars
  BY <1>2 DEF vars, cell
<1>3. CASE ~failed /\ failed' = failed
  BY <1>3
<1> QED BY <1>1, <1>2, <1>3, StopSteps

\* Every reachable state keeps the books: acknowledgements stand exactly at the durable
\* watermark and no release assertion is reached.
THEOREM BooksAreKept == Spec => []Kept
<1>1. Init => Booked
  BY InitBooked
<1>2. Init /\ Sound => Kept
  BY <1>1, BookedPaid DEF Kept, Sound
<1>3. Kept /\ Sound' /\ [Next]_vars => Kept'
  <2> SUFFICES ASSUME Kept, Sound', [Next]_vars PROVE Kept'
    OBVIOUS
  <2>1. CASE ~failed'
    <3>1. ~failed
      BY <2>1, StaysStopped
    <3>2. Booked'
      BY <2>1, <3>1, BookedStep DEF Kept, Sound
    <3>3. Honest'
      BY DEF Sound
    <3>4. Paid'
      BY <3>2, <3>3, BookedPaid, PTL
    <3> QED BY <3>2, <3>4 DEF Kept
  <2>2. CASE failed'
    <3>1. Paid'
      BY <2>2, StopKeepsPaid DEF Kept, Sound
    <3> QED BY Zenon, <2>2, <3>1 DEF Kept
  <2> QED BY <2>1, <2>2
<1> QED BY <1>2, <1>3, PlaneIsSound, PTL DEF Spec

\* With no sync pending and none due every promise is acknowledged.
LEMMA QuiescentPaid == Kept => DrainKeepsPromises
<1> SUFFICES ASSUME Kept, quiescent, ~failed PROVE acked_seq >= promised
  BY DEF DrainKeepsPromises
<1>1. Alive /\ Booked
  BY Zenon DEF Kept, Sound
<1>2. Heads(gc) /\ gc \in Ledger
  BY Zenon, <1>1 DEF Alive, Plane, Agreed, Claims, Good
<1>3. gc.pending = <<>>
  <2> DEFINE open == {i \in DOMAIN gc.pending : ~gc.pending[i].done}
  <2>1. DOMAIN gc.pending = 1..Len(gc.pending) /\ Len(gc.pending) \in Nat
        /\ gc.pending \in Seq(PendingFsync)
    BY <1>2 DEF Ledger
  <2>2. IsFiniteSet(open)
    <3>1. IsFiniteSet(1..Len(gc.pending))
      BY <2>1, FS_Interval
    <3> QED BY <2>1, <3>1, FS_Subset
  <2>3. Cardinality(open) = 0
    BY Zenon DEF quiescent, pending_fsyncs
  <2>4. open = {}
    BY Zenon, <2>2, <2>3, FS_EmptySet
  <2>5. CASE gc.pending # <<>>
    <3>1. 1 \in DOMAIN gc.pending
      BY <2>1, <2>5
    <3> QED BY <1>2, <2>4, <2>5, <3>1 DEF Heads
  <2> QED BY Zenon, <2>5
<1>4. promised <= SeqAt(frames, gc.durable_up_to)
  BY <1>1, <1>3 DEF Booked, Books, Promises, quiescent, coverage_tail
<1>5. acked_seq = SeqAt(frames, gc.durable_up_to)
  BY Zenon, <1>1 DEF Booked
<1>6. promised \in Nat /\ acked_seq \in Nat
  BY CellConstants DEF Kept, Sound, TypeOK
<1> QED BY <1>4, <1>5, <1>6

\* The ack gate stands exactly at the durable watermark.
THEOREM AcksAreExact == Spec => []AckExact
BY BooksAreKept, PTL DEF Kept, Paid

\* No release assertion of the ledger, the rotor or the LOG step is reachable.
THEOREM NeverPanics == Spec => []NoPanic
BY BooksAreKept, PTL DEF Kept, Paid

\* When the stop drain may exit, every promise is acknowledged.
THEOREM DrainPays == Spec => []DrainKeepsPromises
BY BooksAreKept, QuiescentPaid, PTL

-----------------------------------------------------------------------------
\* A step stages one record and leaves what survives alone, or stages none.
LEMMA StepStages ==
    ASSUME [Next]_vars
    PROVE  \/ last_seq' = last_seq
           \/ /\ last_seq' = last_seq + 1 /\ failed' = failed
              /\ UNCHANGED <<acked_seq, frames, rotor, stable>>
<1> DEFINE staged == /\ last_seq' = last_seq + 1 /\ failed' = failed
                     /\ UNCHANGED <<acked_seq, frames, rotor, stable>>
           fine == last_seq' = last_seq \/ staged
<1>1. ASSUME NEW class \in Classes,
             stage(class) \/ write_blob_arrival(class) \/ write_blob_turn(class)
      PROVE  fine
  BY <1>1, Zenon DEF stage, write_blob_arrival, write_blob_turn, RegisterAndStage,
         StageRecord, device
<1>2. ASSUME NEW created \in BOOLEAN, NEW taken \in PoolTake, NEW issue \in BOOLEAN,
             maintain(created, taken, issue)
      PROVE  fine
  BY <1>2, ZenonT(30) DEF maintain
<1>3. ASSUME NEW len \in FrameLens, seal_frame(len) PROVE fine
  BY <1>3, ZenonT(30) DEF seal_frame
<1>4. ASSUME NEW held \in BOOLEAN, seal_nothing(held) PROVE fine
  BY <1>4, ZenonT(30) DEF seal_nothing
<1>5. ASSUME NEW f \in in_flight, on_log_written(f) PROVE fine
  BY <1>5, ZenonT(30) DEF on_log_written
<1>6. ASSUME NEW s \in syncs, on_fdatasync(s) PROVE fine
  BY <1>6, Zenon DEF on_fdatasync
<1>7. ASSUME \/ drop_turn \/ on_everysec_tick \/ truncate \/ tier_maintain
             \/ on_zero_fill_written \/ extent_hold \/ reserve_no_space \/ on_log_error
             \/ UNCHANGED vars
      PROVE  fine
  BY <1>7, ZenonT(30) DEF drop_turn, on_everysec_tick, truncate, tier_maintain,
         on_zero_fill_written, extent_hold, reserve_no_space, on_log_error, vars, cell
<1>8. SpaceOutcomes \subseteq BOOLEAN
  BY Zenon, CellConstants
<1> HIDE DEF fine
<1>9. fine
  BY <1>1, <1>2, <1>3, <1>4, <1>5, <1>6, <1>7, <1>8 DEF Next, Execute, Maintain, seal_log, Reap
<1> QED BY <1>9 DEF fine

\* The watermark is honest and the acks stand at it.
LEMMA KeptBetween == Kept => Between
<1> SUFFICES ASSUME Kept, ~failed, NEW n, Lead(n)
             PROVE  /\ frames \in Seq(Frame) /\ last_seq \in Nat /\ Rising(frames, last_seq)
                    /\ n \in 0..Len(frames)
                    /\ acked_seq \in Nat /\ acked_seq <= SeqAt(frames, n)
                    /\ SeqAt(frames, n) \in Nat /\ SeqAt(frames, n) <= last_seq
  BY Zenon DEF Between
<1>0. TypeOK /\ Alive /\ Honest /\ Booked
  BY Zenon DEF Kept, Sound
<1>1. /\ frames \in Seq(Frame) /\ Rising(frames, last_seq) /\ last_seq \in Nat
      /\ queued_up_to(gc) = Len(frames)
  BY <1>0 DEF Booked, Books
<1>2. n \in 0..Len(frames) /\ Len(frames) \in Nat
  BY <1>1 DEF Lead
<1>3. gc.durable_up_to \in 0..Len(frames)
  <2>1. Good(gc) /\ gc \in Ledger
    BY Zenon, <1>0, AliveGood
  <2>2. /\ coverage_tail(gc) \in Nat /\ gc.durable_up_to <= coverage_tail(gc)
        /\ coverage_tail(gc) <= queued_up_to(gc)
    BY Zenon, <2>1, TailBounds DEF Good
  <2>3. gc.durable_up_to \in Nat
    BY Zenon, <2>1 DEF Ledger
  <2> QED BY <1>1, <1>2, <2>2, <2>3
<1>4. gc.durable_up_to <= n
  <2>1. \A i \in 1..gc.durable_up_to : Survives(i)
    BY Zenon, <1>0 DEF Honest, WatermarkHonest
  <2> QED BY <1>0, <1>3, <2>1, LeadIsLongest
<1>5. /\ SeqAt(frames, gc.durable_up_to) \in Nat /\ SeqAt(frames, n) \in Nat
      /\ SeqAt(frames, gc.durable_up_to) <= SeqAt(frames, n) /\ SeqAt(frames, n) <= last_seq
  BY <1>1, <1>2, <1>3, <1>4, SeqAtRises
<1>6. acked_seq = SeqAt(frames, gc.durable_up_to)
  BY Zenon, <1>0 DEF Booked
<1> QED BY <1>1, <1>2, <1>5, <1>6

\* Each step of the cell is a step of the durable log, or none.
LEMMA RefineStep ==
    ASSUME Kept, Kept', Between, Between', Surviving, Surviving', [Next]_vars,
           [gc'.durable_up_to >= gc.durable_up_to /\ acked_seq' >= acked_seq]_vars
    PROVE  [DL!Next]_(DL!vars)
<1>0. TypeOK /\ TypeOK'
  BY Zenon DEF Kept, Sound
<1>1. CASE failed'
  <2>1. UNCHANGED <<last_seq, acked_seq, frames, rotor, stable>>
    <3>1. CASE reserve_no_space \/ on_log_error \/ UNCHANGED vars
      BY <3>1, ZenonT(30) DEF reserve_no_space, on_log_error, device, vars, cell
    <3> QED BY Zenon, <1>1, <3>1, StopSteps
  <2>2. SurvivingSeq' = SurvivingSeq
    BY <1>0, <2>1, SurvivingSame
  <2> QED BY Zenon, <2>1, <2>2 DEF DL!vars
<1>2. CASE ~failed'
  <2>0. ~failed
    BY Zenon, <1>2, StaysStopped
  <2>1. CASE /\ last_seq' = last_seq + 1
             /\ UNCHANGED <<acked_seq, frames, rotor, stable>>
    <3>1. SurvivingSeq' = SurvivingSeq
      BY <1>0, <2>1, SurvivingSame
    <3> QED BY Zenon, <2>1, <3>1 DEF DL!Next, DL!Append
  <2>2. CASE last_seq' = last_seq
    <3>1. PICK n : Lead(n) /\ SurvivingSeq = SeqAt(frames, n)
      BY Zenon DEF Surviving, SeqAt
    <3>2. PICK m : Lead(m)' /\ SurvivingSeq' = SeqAt(frames', m)
      BY Zenon DEF Surviving, SeqAt
    <3>3. n \in 0..Len(frames) /\ acked_seq \in Nat /\ SeqAt(frames, n) \in Nat
          /\ frames \in Seq(Frame)
      BY Zenon, <2>0, <3>1 DEF Between
    <3>4. /\ frames' \in Seq(Frame) /\ last_seq' \in Nat /\ Rising(frames', last_seq')
          /\ m \in 0..Len(frames')
          /\ acked_seq' \in Nat /\ acked_seq' <= SeqAt(frames', m)
          /\ SeqAt(frames', m) \in Nat /\ SeqAt(frames', m) <= last_seq'
      BY Zenon, <1>2, <3>2 DEF Between
    <3>5. /\ rotor.next # NoNext => rotor.next.id = rotor.active + 1
          /\ \A i \in DOMAIN frames : frames[i].seg <= rotor.active
      BY <2>0, SeenTyped DEF Kept, Sound, Alive, Plane, Rotors
    <3>6. Grows
      BY <1>0, <3>5, StepGrows
    <3>7. n <= m
      BY <1>0, <3>1, <3>2, <3>5, <3>6, LeadGrows
    <3>8. n \in 0..Len(frames') /\ SeqAt(frames', n) = SeqAt(frames, n)
      <4>1. Len(frames) \in Nat /\ Len(frames') \in Nat /\ DOMAIN frames = 1..Len(frames)
        BY <3>3, <3>4
      <4>2. n = 0 \/ n \in DOMAIN frames
        BY <3>3, <4>1
      <4> QED BY <3>3, <3>6, <4>1, <4>2 DEF Grows, SeqAt
    <3>9. SeqAt(frames', n) <= SeqAt(frames', m)
      BY <3>4, <3>7, <3>8, SeqAtRises
    <3>10. acked_seq' >= acked_seq
      <4>1. CASE UNCHANGED vars
        BY <3>3, <4>1 DEF vars, cell
      <4> QED BY Zenon, <4>1
    <3>11. SurvivingSeq' \in SurvivingSeq..last_seq /\ acked_seq' \in acked_seq..SurvivingSeq'
      BY <2>2, <3>1, <3>2, <3>3, <3>4, <3>8, <3>9, <3>10
    <3> QED BY Zenon, <2>2, <3>11 DEF DL!Next, DL!Commit
  <2> QED BY <2>1, <2>2, StepStages
<1> QED BY Zenon, <1>1, <1>2

\* The durable plane implements the durable log.
THEOREM CellIsADurableLog == Spec => ImplementsDurableLog
<1>1. Init => DL!Init
  <2> SUFFICES ASSUME Init PROVE DL!Init
    OBVIOUS
  <2>1. last_seq = 0 /\ acked_seq = 0 /\ frames = <<>>
    BY Zenon DEF Init
  <2>2. PICK n : Lead(n) /\ SurvivingSeq = SeqAt(frames, n)
    BY InitTyped, SurvivingIs DEF Surviving, SeqAt
  <2>3. n = 0
    BY <2>1, <2>2 DEF Lead
  <2> QED BY <2>1, <2>2, <2>3 DEF DL!Init, SeqAt
<1>2. Kept => Between /\ Surviving
  BY KeptBetween, SurvivingIs DEF Kept, Sound
<1> QED BY <1>1, <1>2, RefineStep, BooksAreKept, WatermarksAdvance, PTL
        DEF Spec, ImplementsDurableLog, DL!Spec, WatermarkMonotone
================================================================================
