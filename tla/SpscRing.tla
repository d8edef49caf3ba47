------------------------------- MODULE SpscRing -------------------------------
(***************************************************************************)
(* The fabric's single-producer single-consumer ring                       *)
(* (crates/inf-fabric/src/ring.rs), one atomic access or slot access per   *)
(* step.                                                                   *)
(*                                                                         *)
(* The memory model.  An atomic index is the sequence of messages stored   *)
(* to it.  A load returns any message not older than the one its thread    *)
(* saw last, so it may be stale.  A Release store carries what its thread  *)
(* did before it and the Acquire load that reads it learns that: how many  *)
(* slots were written, or read.  A slot access the thread does not know    *)
(* the other side's last access to is a data race.  Items are numbered     *)
(* from 1, and slots hold their numbers; the indices wrap at IndexMod.     *)
(***************************************************************************)
EXTENDS Integers, Sequences, FiniteSetsExt

CONSTANTS
    Capacity,     \* slots of the ring
    IndexMod,     \* 2^usize::BITS: free-running indices wrap here
    MaxBatch,     \* bound: largest batch offered or asked for
    MaxItems      \* bound: items pushed

ASSUME RingConstants ==
    /\ Capacity \in Nat \ {0}
    /\ IndexMod \in Nat \ {0} /\ IndexMod % Capacity = 0 /\ IndexMod > Capacity
    /\ MaxBatch \in Nat \ {0}
    /\ MaxItems \in Nat

VARIABLES
    head,    \* shared.head: messages stored by the consumer
    tail,    \* shared.tail: messages stored by the producer
    slots,
    prod,    \* the Producer and the step it is at
    cons,    \* the Consumer and the step it is at
    race     \* a slot was accessed without the ordering its access needs

vars == <<head, tail, slots, prod, cons, race>>

Wrap(i) == i % IndexMod

Slot(index) == index % Capacity

\* knows: slot accesses of the other side that happened before this one's next.
Message(val, knows) == [val |-> val, knows |-> knows]

\* Mutant: the store is Relaxed and carries nothing.
store_release_relaxed(cell, val, done) == Append(cell, Message(val, 0))

store_release(cell, val, done) == Append(cell, Message(val, done))

-----------------------------------------------------------------------------
ring ==
    /\ head = <<Message(0, 0)>>
    /\ tail = <<Message(0, 0)>>
    /\ slots = [i \in 0..Capacity - 1 |-> 0]
    /\ prod = [pc |-> "idle", tail |-> 0, head_cache |-> 0, batch |-> 0, at |-> 0,
               written |-> 0, seen |-> 1, knows |-> 0]
    /\ cons = [pc |-> "idle", head |-> 0, tail_cache |-> 0, left |-> 0,
               read |-> 0, seen |-> 1, knows |-> 0]
    /\ race = FALSE

Init == ring

-----------------------------------------------------------------------------
free(p) == Capacity - Wrap(p.tail - p.head_cache)

\* head_cache is refreshed only when the cached view cannot satisfy want.
refreshed_head(want) ==
    IF free(prod) >= want THEN {prod}
    ELSE {[prod EXCEPT !.head_cache = head[m].val, !.seen = m,
                       !.knows = Max({prod.knows, head[m].knows})]
            : m \in prod.seen..Len(head)}

\* try_push wants one slot; publish_batch wants more than there are.  What the free
\* slots cannot take stays with the caller.
begin_publish(n, want) ==
    /\ prod.pc = "idle"
    /\ prod.written + n <= MaxItems
    /\ \E p \in refreshed_head(want) :
         prod' = IF free(p) > 0
                 THEN [p EXCEPT !.pc = "write", !.batch = Min({n, free(p)}), !.at = 0]
                 ELSE p
    /\ UNCHANGED <<head, tail, slots, cons, race>>

try_push == begin_publish(1, 1)

publish_batch(n) == begin_publish(n, IndexMod)

write_slot ==
    /\ prod.pc = "write"
    /\ LET item == prod.written + 1
       IN  /\ slots' = [slots EXCEPT ![Slot(prod.tail + prod.at)] = item]
           /\ race' = (race \/ prod.knows < item - Capacity)
           /\ prod' = [prod EXCEPT !.written = item, !.at = @ + 1,
                                   !.pc = IF prod.at + 1 = prod.batch THEN "store" ELSE "write"]
    /\ UNCHANGED <<head, tail, cons>>

publish_tail ==
    /\ prod.pc = "store"
    /\ prod' = [prod EXCEPT !.tail = Wrap(@ + prod.batch), !.pc = "idle"]
    /\ tail' = store_release(tail, prod'.tail, prod.written)
    /\ UNCHANGED <<head, slots, cons, race>>

-----------------------------------------------------------------------------
available(c) == Wrap(c.tail_cache - c.head)

refreshed_tail(max) ==
    IF available(cons) >= max THEN {cons}
    ELSE {[cons EXCEPT !.tail_cache = tail[m].val, !.seen = m,
                       !.knows = Max({cons.knows, tail[m].knows})]
            : m \in cons.seen..Len(tail)}

consume_batch(max) ==
    /\ cons.pc = "idle"
    /\ \E c \in refreshed_tail(max) :
         cons' = IF available(c) = 0 THEN c
                 ELSE [c EXCEPT !.pc = "read", !.left = Min({available(c), max})]
    /\ UNCHANGED <<head, tail, slots, prod, race>>

\* Mutant: an unwinding callback loses the item after it too.
read_slot_skips(unwinds) ==
    /\ cons.pc = "read"
    /\ race' = (race \/ cons.knows < cons.read + 1)
    /\ LET n == IF unwinds /\ cons.left > 1 THEN 2 ELSE 1
       IN  cons' = [cons EXCEPT !.head = Wrap(@ + n), !.read = @ + n, !.left = @ - n,
                                !.pc = IF unwinds \/ cons.left = 1 THEN "store" ELSE "read"]
    /\ UNCHANGED <<head, tail, slots, prod>>

\* The item is read, the local head moves, then the callback runs; when it unwinds
\* the guard publishes what was consumed.
read_slot(unwinds) ==
    /\ cons.pc = "read"
    /\ race' = (race \/ cons.knows < cons.read + 1 \/ slots[Slot(cons.head)] # cons.read + 1)
    /\ cons' = [cons EXCEPT !.head = Wrap(@ + 1), !.read = @ + 1, !.left = @ - 1,
                            !.pc = IF unwinds \/ cons.left = 1 THEN "store" ELSE "read"]
    /\ UNCHANGED <<head, tail, slots, prod>>

AdvanceGuard_drop ==
    /\ cons.pc = "store"
    /\ head' = store_release(head, cons.head, cons.read)
    /\ cons' = [cons EXCEPT !.pc = "idle"]
    /\ UNCHANGED <<tail, slots, prod, race>>

-----------------------------------------------------------------------------
Produce == write_slot \/ publish_tail

Consume == (\E unwinds \in BOOLEAN : read_slot(unwinds)) \/ AdvanceGuard_drop

Next ==
    \/ try_push
    \/ \E n \in 1..MaxBatch : publish_batch(n)
    \/ \E max \in 1..MaxBatch : consume_batch(max)
    \/ Produce
    \/ Consume

Spec == Init /\ [][Next]_vars

-----------------------------------------------------------------------------
\* No slot is written before its last item was read, read before it was written, or
\* read with another item in it: cached indices, stale loads, wrap-around and an
\* unwinding callback included.
NoSlotRace == ~race

\* Items the last tail message covers.
Published == prod.written - (IF prod.pc = "idle" THEN 0 ELSE prod.at)

Channel == INSTANCE BoundedChannel WITH sent <- Published, received <- cons.read

\* The ring is a bounded FIFO channel: no item is lost, repeated or reordered, a
\* batch appears at once, and never more than Capacity items are in it.
ImplementsChannel == Channel!Spec
===============================================================================
