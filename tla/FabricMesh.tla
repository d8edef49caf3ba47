------------------------------ MODULE FabricMesh ------------------------------
(***************************************************************************)
(* The mesh of cells: packs, credits, doorbells and the park handshake     *)
(* (crates/inf-fabric/src/mesh.rs), driven by each cell's loop             *)
(* (inf-runtime/src/reactor.rs, inf-server/src/plane/cell_loop.rs and      *)
(* fabric.rs) and by senders that wait for credit (plane/ns_ddl.rs).       *)
(*                                                                         *)
(* One step is one stretch of a cell's thread between accesses to shared   *)
(* memory.  A ring is the bounded channel SpscRing implements.  A cell's   *)
(* stores become visible to its peers later, in program order; a SeqCst    *)
(* fence waits until they are.  A token is any one not in use: the code's  *)
(* 48-bit sequence does not come round while an op is in flight.           *)
(***************************************************************************)
EXTENDS Integers, Sequences, SequencesExt, FiniteSetsExt

CONSTANTS
    N,                  \* cells
    ring_capacity, data_credits,
    PACK_SEAL_FRAMES, DRAIN_SLOT_CHUNK, FABRIC_DRAIN_MAX,
    spin_iters,
    Kinds,              \* the ops sent: "apply", "defer", "adopt"
    Origins,            \* bound: cells whose clients send
    Tokens              \* bound: ops of one cell in use at once, numbered

ASSUME MeshConstants ==
    /\ N \in Nat \ {0}
    /\ data_credits \in Nat \ {0}
    /\ ring_capacity \in Nat /\ ring_capacity >= 2 * data_credits
    /\ PACK_SEAL_FRAMES \in Nat \ {0} /\ DRAIN_SLOT_CHUNK \in Nat \ {0}
    /\ FABRIC_DRAIN_MAX \in Nat \ {0} /\ spin_iters \in Nat \ {0}
    /\ Kinds \subseteq {"apply", "defer", "adopt"}
    /\ Origins \subseteq 0..N - 1
    /\ Tokens \subseteq Nat

VARIABLES
    loop,     \* loop[c]: the reactor of cell c and the step it is at
    out,      \* out[c][t]: Outbound of c toward t
    ring,     \* ring[f][t]: slots t can see and has not consumed
    bell,     \* bell[f][t]: the doorbell f rings and t takes
    park,     \* park[c]: c's parked flag
    wake,     \* wake[c]: c's eventfd is readable
    buf,      \* buf[c]: stores of c its peers cannot see yet
    skip,     \* skip[c][f]: skip_streak
    plane     \* plane[c]: waiters, acks and replies of the server plane

vars == <<loop, out, ring, bell, park, wake, buf, skip, plane>>

Cell == 0..N - 1

Peers(c) == Cell \ {c}

Init ==
    /\ loop = [c \in Cell |-> [pc |-> "top", spin |-> spin_iters, work |-> FALSE, at |-> 0,
                               after |-> "exec", next_source |-> 0, drained |-> 0]]
    /\ out = [c \in Cell |-> [t \in Peers(c) |->
                [pack |-> <<>>, staged |-> <<>>, credits |-> data_credits, occupied |-> 0]]]
    /\ ring = [f \in Cell |-> [t \in Peers(f) |-> <<>>]]
    /\ bell = [f \in Cell |-> [t \in Peers(f) |-> FALSE]]
    /\ park = [c \in Cell |-> FALSE]
    /\ wake = [c \in Cell |-> FALSE]
    /\ buf = [c \in Cell |-> <<>>]
    /\ skip = [c \in Cell |-> [f \in Peers(c) |-> 0]]
    /\ plane = [c \in Cell |->
                 [gate |-> {}, adopt_acks |-> {},
                  credit_waiters |-> [t \in Peers(c) |-> <<>>],
                  woken |-> [t \in Peers(c) |-> <<>>],
                  staged_replies |-> <<>>, deferred |-> {}]]

-----------------------------------------------------------------------------
(* Stores and their visibility *)

\* A store of the value already stored changes nothing.
StoreFlag(c, v) ==
    LET last == IF \E i \in DOMAIN buf[c] : buf[c][i].store = "flag"
                THEN buf[c][CHOOSE i \in DOMAIN buf[c] :
                               /\ buf[c][i].store = "flag"
                               /\ \A j \in i + 1..Len(buf[c]) : buf[c][j].store # "flag"].val
                ELSE park[c]
    IN  IF last = v THEN buf[c] ELSE Append(buf[c], [store |-> "flag", val |-> v])

\* The oldest store of c reaches its peers.
StoreVisible(c) ==
    /\ buf[c] # <<>>
    /\ LET s == Head(buf[c]) IN
         /\ ring' = IF s.store = "tail" THEN [ring EXCEPT ![c][s.peer] = @ \o s.val] ELSE ring
         /\ bell' = IF s.store = "bell" THEN [bell EXCEPT ![c][s.peer] = TRUE] ELSE bell
         /\ park' = IF s.store = "flag" THEN [park EXCEPT ![c] = s.val] ELSE park
         /\ out' = IF s.store = "head" THEN [out EXCEPT ![s.peer][c].occupied = @ - s.val] ELSE out
    /\ buf' = [buf EXCEPT ![c] = Tail(@)]
    /\ UNCHANGED <<loop, wake, skip, plane>>

\* Mutant: the fence is missing.
FenceSeqCst_missing(c) == c \in Cell

FenceSeqCst(c) == buf[c] = <<>>

-----------------------------------------------------------------------------
(* Outbound *)

credit_cost(frame) == IF frame.reply THEN 0 ELSE 1

\* Mutant: an empty pack is sealed too.
seal_empty(o) == [o EXCEPT !.staged = Append(@, o.pack), !.pack = <<>>]

seal(o) ==
    IF o.pack = <<>> THEN o
    ELSE [o EXCEPT !.staged = Append(@, o.pack), !.pack = <<>>]

seal_if_full(o) == IF Len(o.pack) >= PACK_SEAL_FRAMES THEN seal(o) ELSE o

Request(op, token) == [op |-> op, token |-> token, reply |-> FALSE]

encode(o, frame) ==
    seal_if_full([o EXCEPT !.pack = Append(@, frame), !.credits = @ - credit_cost(frame)])

\* CellFabric::send refuses when the credits do not cover the op.
has_credit(o, frame) == o.credits >= credit_cost(frame)

\* r: the request it answers, and the cell that sent it.
reply(outs, r) == [outs EXCEPT ![r.to] = encode(@, [r.request EXCEPT !.reply = TRUE])]

Unflushed(c) == {t \in Peers(c) : out[c][t].pack # <<>> \/ out[c][t].staged # <<>>}

doorbell_pending(c) == \E f \in Peers(c) : bell[f][c]

has_ready(c) == \E t \in Peers(c) : plane[c].woken[t] # <<>>

\* IDLE: an iteration that had work, or leaves some, refills the spin.
idle(c) ==
    LET had_work == loop[c].work \/ doorbell_pending(c) \/ Unflushed(c) # {} \/ has_ready(c)
    IN  [loop[c] EXCEPT !.pc = "top", !.at = 0, !.after = "exec", !.work = FALSE,
                        !.spin = IF had_work THEN spin_iters ELSE Max({@ - 1, 0})]

\* One destination of flush: seal, publish what fits, ring.
flush(c) ==
    /\ loop[c].pc = "flush"
    /\ LET to == {t \in Unflushed(c) : t >= loop[c].at} IN
         IF to = {}
         THEN /\ loop' = [loop EXCEPT ![c] =
                            IF @.after = "exec" THEN [@ EXCEPT !.pc = "exec", !.at = 0]
                            ELSE idle(c)]
              /\ UNCHANGED <<out, buf>>
         ELSE LET t == Min(to)
                  o == seal(out[c][t])
                  n == Min({Len(o.staged), ring_capacity - o.occupied})
              IN  /\ out' = [out EXCEPT ![c][t] = [o EXCEPT !.staged = SubSeq(@, n + 1, Len(@)),
                                                            !.occupied = @ + n]]
                  /\ IF n > 0
                     THEN /\ buf' = [buf EXCEPT ![c] = @ \o
                                       << [store |-> "tail", peer |-> t,
                                           val |-> SubSeq(o.staged, 1, n)],
                                          [store |-> "bell", peer |-> t] >>]
                          /\ loop' = [loop EXCEPT ![c].pc = "wake", ![c].at = t, ![c].work = TRUE]
                     ELSE /\ loop' = [loop EXCEPT ![c].at = t + 1]
                          /\ UNCHANGED buf
    /\ UNCHANGED <<ring, bell, park, wake, skip, plane>>

\* After the fence the peer's flag decides whether its reactor is kicked.
peer_wake(c) ==
    /\ loop[c].pc = "wake"
    /\ FenceSeqCst(c)
    /\ wake' = [wake EXCEPT ![loop[c].at] = @ \/ park[loop[c].at]]
    /\ loop' = [loop EXCEPT ![c].pc = "flush", ![c].at = @ + 1]
    /\ UNCHANGED <<out, ring, bell, park, buf, skip, plane>>

-----------------------------------------------------------------------------
(* The reactor: poll or park, then FABRIC-IN *)

Source(c, offset) == (loop[c].next_source + offset) % N

\* The offset after this one, the cell's own slot passed over.
Visit(c, offset) == IF offset < N /\ Source(c, offset) = c THEN offset + 1 ELSE offset

\* submit_and_reap, then the first stores of fabric_in.
Reap(c, reaped) ==
    /\ wake' = [wake EXCEPT ![c] = FALSE]
    /\ loop' = [loop EXCEPT ![c].pc = "drain", ![c].at = Visit(c, 0), ![c].work = reaped]
    /\ buf' = [buf EXCEPT ![c] = StoreFlag(c, FALSE)]

run_iteration(c) ==
    /\ loop[c].pc = "top"
    /\ IF loop[c].spin = 0 /\ ~has_ready(c)
       THEN /\ loop' = [loop EXCEPT ![c].pc = "before_park"]
            /\ buf' = [buf EXCEPT ![c] = StoreFlag(c, TRUE)]
            /\ UNCHANGED wake
       ELSE Reap(c, wake[c])
    /\ UNCHANGED <<out, ring, bell, park, skip, plane>>

before_park(c) ==
    /\ loop[c].pc = "before_park"
    /\ FenceSeqCst(c)
    /\ IF doorbell_pending(c)
       THEN Reap(c, wake[c])
       ELSE /\ loop' = [loop EXCEPT ![c].pc = "parked"]
            /\ UNCHANGED <<wake, buf>>
    /\ UNCHANGED <<out, ring, bell, park, skip, plane>>

\* The kernel ends the park on the eventfd, or on a completion of another source.
Unpark(c) ==
    /\ loop[c].pc = "parked"
    /\ Reap(c, TRUE)
    /\ UNCHANGED <<out, ring, bell, park, skip, plane>>

-----------------------------------------------------------------------------
(* drain *)

\* The next source: its doorbell is taken before its ring is looked at.
drain_take(c) ==
    /\ loop[c].pc = "drain"
    /\ loop[c].drained < FABRIC_DRAIN_MAX /\ loop[c].at < N
    /\ LET f == Source(c, loop[c].at)
       IN  /\ loop' = [loop EXCEPT ![c].pc = "consume"]
           /\ bell' = [bell EXCEPT ![f][c] = FALSE]
           /\ skip' = [skip EXCEPT ![c][f] = 0]
    /\ UNCHANGED <<out, ring, park, wake, buf, plane>>

\* Mutant: the wake of a credit goes nowhere.
wake_one_lost(p, t) == [p EXCEPT !.woken[t] = @]

\* WaitList::wake_one: the longest-waiting sender becomes runnable.
wake_one(p, t) ==
    IF p.credit_waiters[t] = <<>> THEN p
    ELSE [p EXCEPT !.woken[t] = Append(@, Head(p.credit_waiters[t])),
                   !.credit_waiters[t] = Tail(@)]

\* One decoded frame from f: x is the cell's Outbound credits toward f and its plane.
handle_fabric_leaf(x, f, frame) ==
    CASE frame.reply ->
           [credits |-> x.credits + 1,
            plane |-> IF frame.token \in x.plane.adopt_acks
                      THEN wake_one([x.plane EXCEPT !.adopt_acks = @ \ {frame.token}], f)
                      ELSE wake_one([x.plane EXCEPT !.gate = @ \ {frame.token}], f)]
      [] ~frame.reply /\ frame.op # "defer" ->
           [x EXCEPT !.plane.staged_replies = Append(@, [to |-> f, request |-> frame])]
      [] ~frame.reply /\ frame.op = "defer" ->
           [x EXCEPT !.plane.deferred = @ \cup {[to |-> f, request |-> frame]}]

\* One consume_batch of drain: up to a chunk of slots, each frame handled in order.
drain_consume(c) ==
    /\ loop[c].pc = "consume"
    /\ LET f == Source(c, loop[c].at)
           chunk == Min({DRAIN_SLOT_CHUNK, FABRIC_DRAIN_MAX - loop[c].drained})
           n == Min({chunk, Len(ring[f][c])})
           frames == FlattenSeq(SubSeq(ring[f][c], 1, n))
           x == FoldLeft(LAMBDA y, frame : handle_fabric_leaf(y, f, frame),
                         [credits |-> out[c][f].credits, plane |-> plane[c]], frames)
           drained == loop[c].drained + Len(frames)
       IN  /\ ring' = [ring EXCEPT ![f][c] = SubSeq(@, n + 1, Len(@))]
           /\ out' = [out EXCEPT ![c][f].credits = x.credits]
           /\ plane' = [plane EXCEPT ![c] = x.plane]
           /\ buf' = IF n = 0 THEN buf
                     ELSE [buf EXCEPT ![c] =
                             Append(@, [store |-> "head", peer |-> f, val |-> n])]
           /\ loop' = [loop EXCEPT ![c].drained = drained, ![c].work = @ \/ drained > 0,
                         ![c].pc = IF n < chunk \/ drained >= FABRIC_DRAIN_MAX
                                   THEN "drain" ELSE "consume",
                         ![c].at = IF drained >= FABRIC_DRAIN_MAX THEN @ + 1
                                   ELSE IF n < chunk THEN Visit(c, @ + 1) ELSE @]
    /\ UNCHANGED <<bell, park, wake, skip>>

\* Mutant: the cursor resumes one peer too far.
next_source_past(c) ==
    IF loop[c].drained >= FABRIC_DRAIN_MAX /\ loop[c].at < N
    THEN Source(c, loop[c].at + 1) ELSE loop[c].next_source

\* A drain that ran out of budget moves the cursor past the last peer it visited.
next_source(c) ==
    IF loop[c].drained >= FABRIC_DRAIN_MAX /\ loop[c].at < N
    THEN Source(c, loop[c].at) ELSE loop[c].next_source

\* The end of drain and of fabric_in: skipped peers are scored, replies are staged and
\* flushed at once.
fabric_in(c) ==
    /\ loop[c].pc = "drain"
    /\ loop[c].drained >= FABRIC_DRAIN_MAX \/ loop[c].at = N
    /\ LET skipped == {Source(c, k) : k \in loop[c].at..N - 1} \ {c}
           replies == plane[c].staged_replies
       IN  /\ skip' = [skip EXCEPT ![c] = [f \in Peers(c) |->
                         IF f \notin skipped THEN @[f]
                         ELSE IF bell[f][c] THEN @[f] + 1 ELSE 0]]
           /\ out' = [out EXCEPT ![c] = FoldLeft(reply, @, replies)]
           /\ plane' = [plane EXCEPT ![c].staged_replies = <<>>]
           /\ loop' = [loop EXCEPT ![c].next_source = next_source(c), ![c].at = 0,
                         ![c].drained = 0,
                         ![c].pc = IF replies = <<>> THEN "exec" ELSE "flush",
                         ![c].after = "exec"]
    /\ UNCHANGED <<ring, bell, park, wake, buf>>

-----------------------------------------------------------------------------
(* PARSE and EXECUTE *)

\* Frames of c on their way to t, oldest first.
Path(c, t) ==
    LET pending == SelectSeq(buf[c], LAMBDA s : s.store = "tail" /\ s.peer = t)
    IN  FlattenSeq(ring[c][t]) \o
        FlattenSeq([i \in DOMAIN pending |-> FlattenSeq(pending[i].val)]) \o
        FlattenSeq(out[c][t].staged) \o out[c][t].pack

StagedFor(t, c) ==
    LET rs == SelectSeq(plane[t].staged_replies, LAMBDA r : r.to = c)
    IN  [i \in DOMAIN rs |-> rs[i].request]

\* Ops c sent to t: those t answers in order, the one answered next first, ...
InOrder(c, t) ==
    SelectSeq(Path(t, c), LAMBDA f : f.reply) \o StagedFor(t, c) \o
    SelectSeq(Path(c, t), LAMBDA f : ~f.reply)

\* ... and those it answers when they come due.
Deferred(c, t) == {d.request : d \in {d \in plane[t].deferred : d.to = c}}

InFlight(c, t) == ToSet(InOrder(c, t)) \cup Deferred(c, t)

InUse(c) == plane[c].gate \cup plane[c].adopt_acks \cup
            {f.token : f \in UNION {InFlight(c, t) : t \in Peers(c)}}

next_token(c) == Min(Tokens \ InUse(c))

Executes(c) == loop[c].pc = "exec" /\ loop' = [loop EXCEPT ![c].work = TRUE]

\* The op is staged, or its sender joins the waiters for the destination's credit.
send_or_wait(c, t, r, p) ==
    IF has_credit(out[c][t], r)
    THEN /\ out' = [out EXCEPT ![c][t] = encode(@, r)]
         /\ plane' = [plane EXCEPT ![c] = p]
    ELSE /\ plane' = [plane EXCEPT ![c] = [p EXCEPT !.credit_waiters[t] = Append(@, r)]]
         /\ UNCHANGED out

\* send_apply and send_apply_ns, up to the first wait.
send_apply(c, t, op) ==
    /\ c \in Origins /\ op # "adopt" /\ Tokens \ InUse(c) # {}
    /\ Executes(c)
    /\ LET r == Request(op, next_token(c))
       IN  send_or_wait(c, t, r, [plane[c] EXCEPT !.gate = @ \cup {r.token}])
    /\ UNCHANGED <<ring, bell, park, wake, buf, skip>>

\* A woken sender tries again; a send that came between may have taken the credit.
send_again(c, t) ==
    /\ plane[c].woken[t] # <<>>
    /\ Executes(c)
    /\ send_or_wait(c, t, Head(plane[c].woken[t]), [plane[c] EXCEPT !.woken[t] = Tail(@)])
    /\ UNCHANGED <<ring, bell, park, wake, buf, skip>>

\* try_handoff: without credit the socket stays here.
try_handoff(c, t) ==
    /\ c \in Origins /\ "adopt" \in Kinds /\ Tokens \ InUse(c) # {}
    /\ LET r == Request("adopt", next_token(c))
       IN  /\ has_credit(out[c][t], r)
           /\ out' = [out EXCEPT ![c][t] = encode(@, r)]
           /\ plane' = [plane EXCEPT ![c].adopt_acks = @ \cup {r.token}]
    /\ Executes(c)
    /\ UNCHANGED <<ring, bell, park, wake, buf, skip>>

\* Mutant: a dropped waiter gives its op's credit back.
GateWait_drop_returns_credit(c, token) ==
    /\ token \in plane[c].gate
    /\ \A t \in Peers(c) : \A w \in ToSet(plane[c].credit_waiters[t] \o plane[c].woken[t]) :
         w.token # token
    /\ Executes(c)
    /\ plane' = [plane EXCEPT ![c].gate = @ \ {token}]
    /\ out' = [out EXCEPT ![c] = [t \in Peers(c) |-> [@[t] EXCEPT !.credits =
                                   IF @ < data_credits THEN @ + 1 ELSE @]]]
    /\ UNCHANGED <<ring, bell, park, wake, buf, skip>>

\* A sender that gave up on another leg drops this one's waiter.
GateWait_drop(c, token) ==
    /\ token \in plane[c].gate
    /\ \A t \in Peers(c) : \A w \in ToSet(plane[c].credit_waiters[t] \o plane[c].woken[t]) :
         w.token # token
    /\ Executes(c)
    /\ plane' = [plane EXCEPT ![c].gate = @ \ {token}]
    /\ UNCHANGED <<out, ring, bell, park, wake, buf, skip>>

\* Mutant: a deferred reply is forgotten.
reply_deferred_lost(c, d) ==
    /\ d \in plane[c].deferred
    /\ Executes(c)
    /\ plane' = [plane EXCEPT ![c].deferred = @ \ {d}]
    /\ UNCHANGED <<out, ring, bell, park, wake, buf, skip>>

\* An owner-deferred reply: its durable ack or its fan-out came in.
reply_deferred(c, d) ==
    /\ d \in plane[c].deferred
    /\ Executes(c)
    /\ out' = [out EXCEPT ![c] = reply(@, d)]
    /\ plane' = [plane EXCEPT ![c].deferred = @ \ {d}]
    /\ UNCHANGED <<ring, bell, park, wake, buf, skip>>

fabric_out(c) ==
    /\ loop[c].pc = "exec"
    /\ loop' = [loop EXCEPT ![c].pc = "flush", ![c].at = 0, ![c].after = "idle"]
    /\ UNCHANGED <<out, ring, bell, park, wake, buf, skip, plane>>

-----------------------------------------------------------------------------
Loop(c) ==
    \/ run_iteration(c) \/ before_park(c) \/ (wake[c] /\ Unpark(c))
    \/ drain_take(c) \/ drain_consume(c) \/ fabric_in(c)
    \/ flush(c) \/ peer_wake(c) \/ fabric_out(c)

Answer(c) == \E d \in plane[c].deferred : reply_deferred(c, d)

\* Clients and devices: commands arrive, deferred replies come due, a park ends early.
Work(c) ==
    \/ Unpark(c)
    \/ \E t \in Peers(c), op \in Kinds : send_apply(c, t, op)
    \/ \E t \in Peers(c) : send_again(c, t) \/ try_handoff(c, t)
    \/ \E token \in plane[c].gate : GateWait_drop(c, token)
    \/ Answer(c)

Next == \E c \in Cell : Loop(c) \/ Work(c) \/ StoreVisible(c)

Spec == Init /\ [][Next]_vars

\* A cell's thread runs and its stores arrive; a deferred reply comes due, and the
\* completion it waits for ends a park.
Fairness ==
    \A c \in Cell :
      /\ WF_vars(Loop(c))
      /\ WF_vars(StoreVisible(c))
      /\ WF_vars(plane[c].deferred # {} /\ Unpark(c))
      /\ SF_vars(Answer(c))

FairSpec == Spec /\ Fairness

-----------------------------------------------------------------------------
(* Properties *)

\* A credit is never minted and never lost: every one missing toward a peer is held by
\* exactly one op that is staged, published, being answered, deferred or answered.
CreditsConserved ==
    \A c \in Cell : \A t \in Peers(c) :
        out[c][t].credits + Len(InOrder(c, t)) + Cardinality(Deferred(c, t)) = data_credits

\* What is staged toward a peer always fits its ring, so flush leaves nothing behind and
\* drain never waits for room: the reply headroom holds even while the peer's consumer
\* index is not yet visible here.
ReplyHeadroom ==
    \A c \in Cell : \A t \in Peers(c) :
        Len(seal(out[c][t]).staged) + out[c][t].occupied <= ring_capacity

\* A cell never sleeps on frames it could see: its eventfd is set, or the producer that
\* published them is still to look at its parked flag.
NoStrandedFrames ==
    \A c \in Cell :
        loop[c].pc = "parked" /\ (\E f \in Peers(c) : ring[f][c] # <<>>) =>
            \/ wake[c]
            \/ \E f \in Peers(c) : loop[f].pc = "wake" /\ loop[f].at = c

\* A live reply waiter is owed exactly one reply: its op waits for credit, or is in
\* exactly one place between the two cells.
WaiterIsOwedOneReply ==
    \A c \in Cell : \A token \in plane[c].gate :
        LET blocked(t) == Len(SelectSeq(plane[c].credit_waiters[t] \o plane[c].woken[t],
                                        LAMBDA w : w.token = token))
            owed(t) == Len(SelectSeq(InOrder(c, t), LAMBDA f : f.token = token)) +
                       Cardinality({f \in Deferred(c, t) : f.token = token})
        IN  MapThenSumSet(LAMBDA t : blocked(t) + owed(t), Peers(c)) = 1

\* A sender sleeps for credit only while every free credit is promised to a sender that
\* is already awake, even when a newcomer takes the credit a wake was for.
CreditWakesNotLost ==
    \A c \in Cell : \A t \in Peers(c) :
        plane[c].credit_waiters[t] # <<>> => out[c][t].credits <= Len(plane[c].woken[t])

\* A peer with a rung doorbell is passed over by at most peers - 1 drains in a row: the
\* cursor resumes at the first peer the budget cut off (CellFabric::drain, skip_streak).
DrainIsFair == \A c \in Cell : \A f \in Peers(c) : skip[c][f] <= Cardinality(Peers(c)) - 1

\* An op that was sent is answered, with the cells parking and waking as they do.
SentIsAnswered ==
    \A c \in Cell, token \in Tokens :
        (\E t \in Peers(c) : \E f \in InFlight(c, t) : f.token = token)
        ~> (\A t \in Peers(c) : \A f \in InFlight(c, t) : f.token # token)
===============================================================================
