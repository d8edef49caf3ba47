----------------------------- MODULE SpscRingProofs -----------------------------
(***************************************************************************)
(* The ring has no data race on a slot and is a bounded FIFO channel, for  *)
(* every capacity, every width of the indices the capacity divides, every  *)
(* batch size and any number of items.                                     *)
(***************************************************************************)
EXTENDS SpscRing, TLAPS

-----------------------------------------------------------------------------
\* Wrapping arithmetic.

\* The remainder is the only one.
LEMMA ModUnique ==
    ASSUME NEW m \in Nat, m > 0, NEW q \in Int, NEW r \in Int, 0 <= r, r < m
    PROVE  (m * q + r) % m = r
<1> DEFINE x == m * q + r
           d == x \div m
           s == x % m
<1>1. x \in Int /\ d \in Int /\ s \in Int /\ 0 <= s /\ s < m /\ x = m * d + s
  OBVIOUS
<1>2. m * (q - d) = s - r
  <2>1. m * q + r = m * d + s BY <1>1
  <2>2. m * (q - d) = m * q - m * d BY <1>1
  <2> HIDE DEF d, s, x
  <2> QED BY <2>1, <2>2, <1>1
<1> HIDE DEF d, s
<1> DEFINE e == q - d
<1>3. e \in Int BY <1>1
<1>4. m * e = s - r BY <1>2
<1> HIDE DEF e
<1>5. CASE e >= 1
  <2>1. m * e >= m * 1 BY <1>5, <1>3
  <2> QED BY <2>1, <1>4, <1>1
<1>6. CASE e <= -1
  <2>1. m * e <= m * (-1) BY <1>6, <1>3
  <2> QED BY <2>1, <1>4, <1>1
<1>7. CASE e = 0
  <2>1. m * e = 0 BY <1>7
  <2>2. s = r BY <2>1, <1>4, <1>1
  <2> QED BY <2>2 DEF s, x
<1> QED BY <1>3, <1>5, <1>6, <1>7

\* Every number is a multiple and a remainder.
LEMMA ModSplit ==
    ASSUME NEW m \in Nat, m > 0, NEW x \in Int
    PROVE  /\ (x \div m) \in Int /\ x = m * (x \div m) + (x % m)
           /\ (x % m) \in Int /\ 0 <= (x % m) /\ (x % m) < m
  OBVIOUS

\* Adding multiples changes no remainder.
LEMMA ModShift ==
    ASSUME NEW m \in Nat, m > 0, NEW x \in Int, NEW k \in Int
    PROVE  (x + m * k) % m = x % m
<1> DEFINE q == x \div m
           r == x % m
<1>1. q \in Int /\ x = m * q + r /\ r \in Int /\ 0 <= r /\ r < m
  BY ModSplit
<1> HIDE DEF q, r
<1>2. m * (q + k) = m * q + m * k
  BY <1>1
<1>3. m * q \in Int /\ m * k \in Int
  BY <1>1
<1>4. x + m * k = m * (q + k) + r
  BY <1>1, <1>2, <1>3
<1>5. (m * (q + k) + r) % m = r
  BY <1>1, ModUnique
<1> QED BY <1>4, <1>5 DEF r

\* Free-running indices that wrap keep their distance.
LEMMA WrapDistance ==
    ASSUME NEW m \in Nat, m > 0, NEW a \in Nat, NEW b \in Nat, b <= a, a - b < m
    PROVE  ((a % m) - (b % m)) % m = a - b
<1> DEFINE p == a \div m
           q == b \div m
           r == a % m
           s == b % m
<1>1. /\ p \in Int /\ q \in Int /\ r \in Int /\ s \in Int
      /\ a = m * p + r /\ b = m * q + s
  BY ModSplit
<1> HIDE DEF p, q, r, s
<1>2. m * (q - p) = m * q - m * p /\ m * p \in Int /\ m * q \in Int
  BY <1>1
<1>3. r - s = (a - b) + m * (q - p)
  BY <1>1, <1>2
<1>4. (r - s) % m = (a - b) % m
  <2> DEFINE y == a - b
             n == q - p
  <2>1. y \in Int /\ n \in Int /\ r - s = y + m * n
    BY <1>1, <1>3
  <2> HIDE DEF y, n
  <2>2. (y + m * n) % m = y % m
    BY <2>1, ModShift
  <2> QED BY <2>1, <2>2 DEF y
<1>5. (m * 0 + (a - b)) % m = a - b
  BY ModUnique
<1>6. m * 0 + (a - b) = a - b
  OBVIOUS
<1> QED BY <1>4, <1>5, <1>6 DEF r, s

\* Indices closer than the capacity have different slots.
LEMMA SlotsDiffer ==
    ASSUME NEW c \in Nat, c > 0, NEW a \in Nat, NEW b \in Nat, a < b, b - a < c
    PROVE  a % c # b % c
<1> DEFINE p == a \div c
           q == b \div c
           r == a % c
<1> SUFFICES ASSUME a % c = b % c PROVE FALSE
  OBVIOUS
<1>1. p \in Int /\ q \in Int /\ r \in Int /\ a = c * p + r /\ b = c * q + r
  BY ModSplit
<1> HIDE DEF p, q, r
<1> DEFINE e == q - p
<1>2. c * (q - p) = c * q - c * p /\ c * p \in Int /\ c * q \in Int
  BY <1>1
<1>3. e \in Int /\ c * e = b - a
  BY <1>1, <1>2
<1> HIDE DEF e
<1>4. CASE e >= 1
  <2>1. c * e >= c * 1
    BY <1>3, <1>4
  <2> QED BY <1>3, <2>1
<1>5. CASE e <= 0
  <2>1. c * e <= c * 0
    BY <1>3, <1>5
  <2> QED BY <1>3, <2>1
<1> QED BY <1>3, <1>4, <1>5

\* Indices wrap at a multiple of the capacity, so a wrapped index names the slot its count
\* names.
LEMMA IndexedSlot ==
    \A a, j \in Nat : ((a % IndexMod) + j) % Capacity = (a + j) % Capacity
<1> SUFFICES ASSUME NEW a \in Nat, NEW j \in Nat
             PROVE  ((a % IndexMod) + j) % Capacity = (a + j) % Capacity
  OBVIOUS
<1>c. IndexMod \in Nat /\ IndexMod > 0 /\ Capacity \in Nat /\ Capacity > 0
  BY RingConstants
<1> DEFINE q == a \div IndexMod
           r == a % IndexMod
           k == IndexMod \div Capacity
<1>1. q \in Int /\ r \in Int /\ a = IndexMod * q + r
  BY <1>c, ModSplit
<1>2. k \in Int /\ IndexMod = Capacity * k + (IndexMod % Capacity)
  BY <1>c, ModSplit
<1> HIDE DEF q, r, k
<1>3. IndexMod = Capacity * k
  BY <1>c, <1>2, RingConstants
<1>4. IndexMod * q = Capacity * (k * q)
  BY <1>c, <1>1, <1>2, <1>3
<1>5. k * q \in Int
  BY <1>1, <1>2
<1>6. a + j = (r + j) + Capacity * (k * q)
  BY <1>c, <1>1, <1>4, <1>5
<1>7. ((r + j) + Capacity * (k * q)) % Capacity = (r + j) % Capacity
  <2> DEFINE y == r + j
             n == k * q
  <2>1. y \in Int /\ n \in Int
    BY <1>1, <1>5
  <2> HIDE DEF y, n
  <2>2. (y + Capacity * n) % Capacity = y % Capacity
    BY <1>c, <2>1, ModShift
  <2> QED BY <2>2 DEF y, n
<1> QED BY <1>6, <1>7 DEF r

\* An advanced index wraps to the advanced count.
LEMMA WrapSum ==
    \A a, j \in Nat : ((a % IndexMod) + j) % IndexMod = (a + j) % IndexMod
<1> SUFFICES ASSUME NEW a \in Nat, NEW j \in Nat
             PROVE  ((a % IndexMod) + j) % IndexMod = (a + j) % IndexMod
  OBVIOUS
<1>c. IndexMod \in Nat /\ IndexMod > 0
  BY RingConstants
<1> DEFINE q == a \div IndexMod
           r == a % IndexMod
           y == r + j
<1>1. q \in Int /\ r \in Int /\ a = IndexMod * q + r
  BY <1>c, ModSplit
<1> HIDE DEF q, r
<1>2. y \in Int /\ IndexMod * q \in Int
  BY <1>c, <1>1
<1>3. a + j = y + IndexMod * q
  BY <1>c, <1>1, <1>2
<1> HIDE DEF y
<1>4. (y + IndexMod * q) % IndexMod = y % IndexMod
  BY <1>c, <1>1, <1>2, ModShift
<1> QED BY <1>3, <1>4 DEF r, y

-----------------------------------------------------------------------------
\* The inductive invariant.

Stored == [val : Nat, knows : Nat]

TypeOK ==
    /\ head \in Seq(Stored) /\ tail \in Seq(Stored)
    /\ slots \in [0..Capacity - 1 -> Nat]
    /\ prod \in [pc : {"idle", "write", "store"}, tail : Nat, head_cache : Nat, batch : Nat,
                 at : Nat, written : Nat, seen : Nat, knows : Nat]
    /\ cons \in [pc : {"idle", "read", "store"}, head : Nat, tail_cache : Nat, left : Nat,
                 read : Nat, seen : Nat, knows : Nat]

\* The messages of an index: each is the wrapped count of the slots its thread was done
\* with, none is ahead of that thread, and they only grow.
Messages(cell, done) ==
    \A i \in 1..Len(cell) :
        /\ cell[i].val = Wrap(cell[i].knows) /\ cell[i].knows <= done
        /\ \A j \in 1..i : cell[j].knows <= cell[i].knows

\* A thread's cached index is the message it saw last.
Cached(cell, seen, cache, knows) ==
    seen \in 1..Len(cell) /\ cache = cell[seen].val /\ knows = cell[seen].knows

Producer ==
    /\ Messages(tail, Published)
    /\ Cached(head, prod.seen, prod.head_cache, prod.knows)
    /\ Published \in Nat /\ prod.tail = Wrap(Published)
    /\ Published <= prod.knows + Capacity
    /\ prod.pc # "idle" =>
         prod.batch >= 1 /\ Published + prod.batch <= prod.knows + Capacity
    /\ prod.pc = "write" => prod.at < prod.batch
    /\ prod.pc = "store" => prod.at = prod.batch

Consumer ==
    /\ Messages(head, cons.read)
    /\ Cached(tail, cons.seen, cons.tail_cache, cons.knows)
    /\ cons.head = Wrap(cons.read)
    /\ cons.read <= cons.knows
    /\ cons.pc = "read" => cons.left >= 1 /\ cons.read + cons.left <= cons.knows

\* Every item written and not yet read is in its slot.
Contents ==
    \A i \in 1..prod.written : cons.read < i => slots[(i - 1) % Capacity] = i

Inv == TypeOK /\ Producer /\ Consumer /\ Contents /\ race = FALSE

\* Each side knows at most what the other did, so the counts are in this order.
LEMMA CountsInOrder ==
    ASSUME Inv
    PROVE  /\ prod.knows <= cons.read /\ cons.read <= cons.knows
           /\ cons.knows <= Published /\ Published <= prod.written
           /\ prod.knows \in Nat /\ cons.read \in Nat /\ cons.knows \in Nat
           /\ Published \in Nat /\ prod.written \in Nat
<1>1. /\ prod.knows \in Nat /\ cons.read \in Nat /\ cons.knows \in Nat
      /\ prod.written \in Nat /\ prod.at \in Nat
  BY DEF Inv, TypeOK
<1>2. prod.knows <= cons.read
  BY DEF Inv, Producer, Consumer, Cached, Messages
<1>3. cons.knows <= Published
  BY DEF Inv, Producer, Consumer, Cached, Messages
<1>4. Published <= prod.written /\ Published \in Nat
  BY <1>1 DEF Inv, Producer, Published
<1> QED BY <1>1, <1>2, <1>3, <1>4 DEF Inv, Consumer

\* The later of two counts in order.
LEMMA MaxOfTwo ==
    ASSUME NEW a \in Nat, NEW b \in Nat, a <= b
    PROVE  Max({a, b}) = b
  BY DEF Max

\* A batch is at most what is asked and what there is.
LEMMA MinOfTwo ==
    ASSUME NEW a \in Nat, NEW b \in Nat
    PROVE  Min({a, b}) \in Nat /\ Min({a, b}) <= a /\ Min({a, b}) <= b /\
           (Min({a, b}) = a \/ Min({a, b}) = b)
<1>1. \E x \in {a, b} : \A y \in {a, b} : x <= y
  OBVIOUS
<1> QED BY <1>1 DEF Min

\* An empty ring satisfies the invariant.
LEMMA InitInv == Init => Inv
<1> SUFFICES ASSUME Init PROVE Inv
  OBVIOUS
<1>1. 0 % IndexMod = 0
  <2>1. IndexMod * 0 + 0 = 0
    BY RingConstants
  <2> QED BY <2>1, ModUnique, RingConstants
<1>2. Message(0, 0) = [val |-> 0, knows |-> 0]
  BY DEF Message
<1>3. /\ head = <<[val |-> 0, knows |-> 0]>> /\ tail = <<[val |-> 0, knows |-> 0]>>
      /\ Len(head) = 1 /\ Len(tail) = 1
  BY <1>2 DEF Init, ring
<1>4. TypeOK
  BY <1>3, RingConstants DEF Init, ring, TypeOK, Stored
<1>5. Published = 0 /\ prod.pc = "idle" /\ cons.pc = "idle"
  BY DEF Init, ring, Published
<1>6. Producer
  BY <1>1, <1>3, <1>5, RingConstants DEF Init, ring, Producer, Messages, Cached, Wrap
<1>7. Consumer
  BY <1>1, <1>3, <1>5, RingConstants DEF Init, ring, Consumer, Messages, Cached, Wrap
<1>8. Contents /\ race = FALSE
  BY DEF Init, ring, Contents
<1> QED BY <1>4, <1>6, <1>7, <1>8 DEF Inv

-----------------------------------------------------------------------------
\* The producer's steps.

\* A refresh moves the cached head to a later message, so the free slots it leaves are
\* those the consumer has really released.
LEMMA RefreshedHead ==
    ASSUME Inv, NEW want \in Nat, NEW p \in refreshed_head(want)
    PROVE  /\ p \in [pc : {"idle", "write", "store"}, tail : Nat, head_cache : Nat, batch : Nat,
                     at : Nat, written : Nat, seen : Nat, knows : Nat]
           /\ p.pc = prod.pc /\ p.tail = prod.tail /\ p.batch = prod.batch /\ p.at = prod.at
           /\ p.written = prod.written
           /\ Cached(head, p.seen, p.head_cache, p.knows) /\ prod.knows <= p.knows
<1>1. CASE p = prod
  BY <1>1 DEF Inv, TypeOK, Producer
<1>2. CASE p # prod
  <2>1. PICK m \in prod.seen..Len(head) :
          p = [prod EXCEPT !.head_cache = head[m].val, !.seen = m,
                           !.knows = Max({prod.knows, head[m].knows})]
    BY <1>2 DEF refreshed_head
  <2>2. /\ prod.seen \in 1..Len(head) /\ m \in 1..Len(head) /\ Len(head) \in Nat
        /\ prod.knows = head[prod.seen].knows
    BY DEF Inv, TypeOK, Producer, Cached
  <2>3. head[m] \in Stored /\ head[prod.seen] \in Stored
    BY <2>2 DEF Inv, TypeOK
  <2>4. head[m].val \in Nat /\ head[m].knows \in Nat /\ prod.knows \in Nat /\ m \in Nat
    BY <2>2, <2>3 DEF Stored
  <2>5. prod.knows <= head[m].knows
    BY <2>2, <2>4 DEF Inv, Consumer, Messages
  <2>6. Max({prod.knows, head[m].knows}) = head[m].knows
    BY <2>4, <2>5, MaxOfTwo
  <2>7. p = [prod EXCEPT !.head_cache = head[m].val, !.seen = m, !.knows = head[m].knows]
    BY <2>1, <2>6
  <2> QED BY <2>2, <2>4, <2>5, <2>7 DEF Inv, TypeOK, Cached
<1> QED BY <1>1, <1>2

\* The slots the producer takes for free are free.
LEMMA FreeSlots ==
    ASSUME Inv, NEW want \in Nat, NEW p \in refreshed_head(want)
    PROVE  free(p) = Capacity - (Published - p.knows) /\ free(p) \in Nat /\ p.knows \in Nat
<1>1. /\ p.tail = Wrap(Published) /\ Cached(head, p.seen, p.head_cache, p.knows)
      /\ prod.knows <= p.knows /\ p.knows \in Nat
  BY RefreshedHead DEF Inv, Producer
<1>2. p.head_cache = Wrap(p.knows) /\ p.knows <= cons.read
  BY <1>1 DEF Inv, Consumer, Messages, Cached
<1>3. Published \in Nat /\ p.knows <= Published /\ Published - p.knows <= Capacity
  <2>1. /\ prod.knows \in Nat /\ cons.read \in Nat /\ cons.knows \in Nat /\ Published \in Nat
        /\ cons.read <= cons.knows /\ cons.knows <= Published
    BY CountsInOrder
  <2>2. Published <= prod.knows + Capacity
    BY DEF Inv, Producer
  <2> QED BY <1>1, <1>2, <2>1, <2>2, RingConstants
<1>4. Published - p.knows < IndexMod
  BY <1>1, <1>3, RingConstants
<1>5. Wrap(p.tail - p.head_cache) = Published - p.knows
  <2> DEFINE w == Published
             k == p.knows
  <2>1. w \in Nat /\ k \in Nat /\ k <= w /\ w - k < IndexMod
    BY <1>1, <1>3, <1>4
  <2>2. p.tail = w % IndexMod /\ p.head_cache = k % IndexMod
    BY <1>1, <1>2 DEF Wrap
  <2> HIDE DEF w, k
  <2>3. ((w % IndexMod) - (k % IndexMod)) % IndexMod = w - k
    <3>1. IndexMod \in Nat /\ IndexMod > 0
      BY RingConstants
    <3> QED BY <2>1, <3>1, WrapDistance
  <2> QED BY <2>2, <2>3 DEF w, k, Wrap
<1> QED BY <1>1, <1>3, <1>5, RingConstants DEF free

\* try_push and publish_batch, up to the first slot.
LEMMA BeginPublishKeeps ==
    ASSUME Inv, NEW n \in Nat, n >= 1, NEW want \in Nat, begin_publish(n, want)
    PROVE  Inv' /\ Published' = Published
<1>1. PICK p \in refreshed_head(want) :
        prod' = IF free(p) > 0
                THEN [p EXCEPT !.pc = "write", !.batch = Min({n, free(p)}), !.at = 0] ELSE p
  BY DEF begin_publish
<1>2. prod.pc = "idle" /\ UNCHANGED <<head, tail, slots, cons, race>>
  BY DEF begin_publish
<1>3. /\ p \in [pc : {"idle", "write", "store"}, tail : Nat, head_cache : Nat, batch : Nat,
                at : Nat, written : Nat, seen : Nat, knows : Nat]
      /\ p.pc = "idle" /\ p.tail = prod.tail /\ p.written = prod.written
      /\ Cached(head, p.seen, p.head_cache, p.knows) /\ prod.knows <= p.knows
  BY <1>1, <1>2, RefreshedHead
<1>4. free(p) = Capacity - (Published - p.knows) /\ free(p) \in Nat /\ p.knows \in Nat
  BY <1>1, FreeSlots
<1> DEFINE b == Min({n, free(p)})
<1>5. b \in Nat /\ b <= free(p) /\ (b = n \/ b = free(p))
  BY <1>4, MinOfTwo
<1> HIDE DEF b
<1>6. /\ prod' \in [pc : {"idle", "write", "store"}, tail : Nat, head_cache : Nat, batch : Nat,
                    at : Nat, written : Nat, seen : Nat, knows : Nat]
      /\ prod'.tail = prod.tail /\ prod'.written = prod.written /\ prod'.knows = p.knows
      /\ Cached(head, prod'.seen, prod'.head_cache, prod'.knows)
      /\ prod'.pc = "idle" \/
         (prod'.pc = "write" /\ prod'.at = 0 /\ prod'.batch = b /\ free(p) > 0)
  BY <1>1, <1>3, <1>5 DEF b
<1>7. Published' = Published /\ Published = prod.written /\ Published \in Nat
  BY <1>2, <1>6, CountsInOrder DEF Published
<1>8. TypeOK'
  BY <1>2, <1>6 DEF Inv, TypeOK
<1>9. Producer'
  <2>1. /\ Messages(tail, Published) /\ prod.tail = Wrap(Published) /\ prod.knows \in Nat
        /\ Published <= prod.knows + Capacity
    BY CountsInOrder DEF Inv, Producer
  <2>2. Published <= prod'.knows + Capacity
    BY <1>3, <1>4, <1>6, <1>7, <2>1, RingConstants
  <2>3. prod'.pc # "idle" =>
          prod'.batch >= 1 /\ Published + prod'.batch <= prod'.knows + Capacity
    BY <1>4, <1>5, <1>6, <1>7, RingConstants
  <2>4. /\ prod'.pc = "write" => prod'.at < prod'.batch
        /\ prod'.pc # "store"
    BY <1>4, <1>5, <1>6
  <2>5. /\ Messages(tail, Published)' /\ Cached(head, prod.seen, prod.head_cache, prod.knows)'
        /\ (prod.tail = Wrap(Published))'
    BY <1>2, <1>6, <1>7, <2>1 DEF Messages, Cached
  <2> QED BY <1>7, <2>2, <2>3, <2>4, <2>5 DEF Producer
<1>10. Consumer' /\ Contents' /\ race' = FALSE
  BY <1>2, <1>6 DEF Inv, Consumer, Contents, Messages, Cached
<1> QED BY <1>7, <1>8, <1>9, <1>10 DEF Inv

\* A slot is written after its last item was read, and no unread item is in it.
LEMMA WriteSlotKeeps ==
    ASSUME Inv, write_slot
    PROVE  Inv' /\ Published' = Published
<1> DEFINE item == prod.written + 1
           s == Slot(prod.tail + prod.at)
<1>1. /\ prod.pc = "write" /\ slots' = [slots EXCEPT ![s] = item]
      /\ race' = (race \/ prod.knows < item - Capacity)
      /\ prod' = [prod EXCEPT !.written = item, !.at = @ + 1,
                              !.pc = IF prod.at + 1 = prod.batch THEN "store" ELSE "write"]
      /\ UNCHANGED <<head, tail, cons>>
  BY DEF write_slot
<1>2. /\ prod.at \in Nat /\ prod.batch \in Nat /\ prod.at < prod.batch
      /\ Published + prod.batch <= prod.knows + Capacity
      /\ Published = prod.written - prod.at
  BY <1>1 DEF Inv, TypeOK, Producer, Published
<1>3. item \in Nat /\ item <= prod.knows + Capacity /\ item <= cons.read + Capacity
  BY <1>2, CountsInOrder, RingConstants
<1>4. s = prod.written % Capacity
  <2>1. prod.tail = Published % IndexMod
    BY DEF Inv, Producer, Wrap
  <2>2. (prod.tail + prod.at) % Capacity = (Published + prod.at) % Capacity
    <3> DEFINE w == Published
               j == prod.at
    <3>1. w \in Nat /\ j \in Nat
      BY <1>2, CountsInOrder
    <3>2. prod.tail = w % IndexMod
      BY <2>1
    <3> HIDE DEF w, j
    <3>3. ((w % IndexMod) + j) % Capacity = (w + j) % Capacity
      BY <3>1, IndexedSlot
    <3> QED BY <3>2, <3>3 DEF w, j
  <2>3. Published + prod.at = prod.written
    BY <1>2, CountsInOrder
  <2> QED BY <2>2, <2>3 DEF Slot
<1>5. s \in 0..Capacity - 1
  BY <1>4, CountsInOrder, ModSplit, RingConstants
<1> HIDE DEF s
<1>6. /\ prod'.written = item /\ prod'.at = prod.at + 1 /\ prod'.knows = prod.knows
      /\ prod'.batch = prod.batch /\ prod'.tail = prod.tail /\ prod'.seen = prod.seen
      /\ prod'.head_cache = prod.head_cache /\ prod'.pc \in {"write", "store"}
      /\ prod'.pc = "write" => prod.at + 1 # prod.batch
      /\ prod'.pc = "store" => prod.at + 1 = prod.batch
  BY <1>1 DEF Inv, TypeOK
<1>7. TypeOK'
  <2>1. slots' \in [0..Capacity - 1 -> Nat]
    BY <1>1, <1>3, <1>5 DEF Inv, TypeOK
  <2>2. prod.at + 1 \in Nat
    BY <1>2
  <2> QED BY <1>1, <1>3, <2>1, <2>2 DEF Inv, TypeOK
<1>8. Published' = Published
  BY <1>1, <1>2, <1>6, CountsInOrder DEF Published
<1>9. Producer'
  BY <1>1, <1>2, <1>6, <1>8, CountsInOrder DEF Inv, Producer, Messages, Cached
<1>10. Consumer' /\ race' = FALSE
  <2>1. ~(prod.knows < item - Capacity)
    BY <1>3, CountsInOrder, RingConstants
  <2>2. race' = FALSE
    BY <1>1, <2>1 DEF Inv
  <2> QED BY <1>1, <2>2 DEF Inv, Consumer, Messages, Cached
<1>11. Contents'
  <2> SUFFICES ASSUME NEW i \in 1..item, cons.read < i
               PROVE  slots'[(i - 1) % Capacity] = i
    BY <1>1, <1>6 DEF Contents
  <2>1. (i - 1) % Capacity \in 0..Capacity - 1
    BY ModSplit, RingConstants
  <2>2. CASE i = item
    <3>1. i - 1 = prod.written
      BY <2>2, CountsInOrder
    <3> QED BY <1>1, <1>4, <1>5, <2>2, <3>1 DEF Inv, TypeOK
  <2>3. CASE i # item
    <3>1. i \in 1..prod.written
      BY <2>3, CountsInOrder
    <3>2. slots[(i - 1) % Capacity] = i
      BY <3>1 DEF Inv, Contents
    <3>3. (i - 1) % Capacity # prod.written % Capacity
      <4> DEFINE a == i - 1
                 b == prod.written
      <4>1. a \in Nat /\ b \in Nat /\ a < b /\ b - a < Capacity
        BY <1>3, <3>1, CountsInOrder, RingConstants
      <4> HIDE DEF a, b
      <4>2. Capacity \in Nat /\ Capacity > 0
        BY RingConstants
      <4>3. a % Capacity # b % Capacity
        BY <4>1, <4>2, SlotsDiffer
      <4> QED BY <4>3 DEF a, b
    <3> QED BY <1>1, <1>4, <1>5, <2>1, <3>2, <3>3 DEF Inv, TypeOK
  <2> QED BY <2>2, <2>3
<1> QED BY <1>7, <1>8, <1>9, <1>10, <1>11 DEF Inv

\* A stored index appends a message that knows all its thread has done.
LEMMA StoredMessages ==
    ASSUME NEW cell \in Seq(Stored), NEW done \in Nat, NEW more \in Nat, NEW val \in Nat,
           Messages(cell, done), done <= more, val = Wrap(more)
    PROVE  /\ store_release(cell, val, more) \in Seq(Stored)
           /\ Messages(store_release(cell, val, more), more)
           /\ Len(store_release(cell, val, more)) = Len(cell) + 1
           /\ \A i \in 1..Len(cell) : store_release(cell, val, more)[i] = cell[i]
<1> DEFINE m == [val |-> val, knows |-> more]
           new == Append(cell, m)
<1>1. store_release(cell, val, more) = new
  BY DEF store_release, Message
<1>2. m \in Stored /\ m.val = val /\ m.knows = more
  BY DEF Stored
<1> HIDE DEF m
<1>3. /\ new \in Seq(Stored) /\ Len(new) = Len(cell) + 1 /\ Len(cell) \in Nat
      /\ new[Len(cell) + 1] = m /\ \A i \in 1..Len(cell) : new[i] = cell[i]
  BY <1>2
<1> HIDE DEF new
<1>4. \A i \in 1..Len(cell) : cell[i].knows \in Nat
  <2>1. \A i \in 1..Len(cell) : cell[i] \in Stored
    OBVIOUS
  <2> QED BY <2>1 DEF Stored
<1>5. Messages(new, more)
  <2> SUFFICES ASSUME NEW i \in 1..Len(cell) + 1
               PROVE  /\ new[i].val = Wrap(new[i].knows) /\ new[i].knows <= more
                      /\ \A j \in 1..i : new[j].knows <= new[i].knows
    BY <1>3 DEF Messages
  <2>1. CASE i \in 1..Len(cell)
    <3>1. /\ cell[i].val = Wrap(cell[i].knows) /\ cell[i].knows <= done /\ cell[i].knows \in Nat
          /\ \A j \in 1..i : cell[j].knows <= cell[i].knows
      BY <1>4, <2>1 DEF Messages
    <3>2. \A j \in 1..i : j \in 1..Len(cell)
      BY <1>3, <2>1
    <3> QED BY <1>3, <2>1, <3>1, <3>2
  <2>2. CASE i = Len(cell) + 1
    <3>1. \A j \in 1..Len(cell) : cell[j].knows <= more
      BY <1>4 DEF Messages
    <3>2. \A j \in 1..i : j \in 1..Len(cell) \/ j = i
      BY <1>3, <2>2
    <3> QED BY <1>2, <1>3, <2>2, <3>1, <3>2
  <2> QED BY <1>3, <2>1, <2>2
<1> QED BY <1>1, <1>3, <1>5

\* The batch appears at once, and fits beside what the consumer has not read.
LEMMA PublishTailKeeps ==
    ASSUME Inv, publish_tail
    PROVE  Inv' /\ Published' = Published + prod.batch /\ prod.batch >= 1
           /\ Published + prod.batch <= cons.read + Capacity /\ cons' = cons
<1>1. /\ prod.pc = "store"
      /\ prod' = [prod EXCEPT !.tail = Wrap(prod.tail + prod.batch), !.pc = "idle"]
      /\ tail' = store_release(tail, prod'.tail, prod.written)
      /\ UNCHANGED <<head, slots, cons, race>>
  BY DEF publish_tail
<1>2. /\ prod.batch \in Nat /\ prod.batch >= 1 /\ prod.at = prod.batch
      /\ Published + prod.batch <= prod.knows + Capacity
      /\ Published = prod.written - prod.at /\ prod.tail = Wrap(Published)
  BY <1>1 DEF Inv, TypeOK, Producer, Published
<1>3. Published + prod.batch = prod.written /\ Published <= prod.written
  BY <1>2, CountsInOrder
<1>4. Wrap(prod.tail + prod.batch) = Wrap(prod.written)
  <2> DEFINE w == Published
             j == prod.batch
  <2>1. w \in Nat /\ j \in Nat
    BY <1>2, CountsInOrder
  <2> HIDE DEF w, j
  <2>2. ((w % IndexMod) + j) % IndexMod = (w + j) % IndexMod
    BY <2>1, WrapSum
  <2> QED BY <1>2, <1>3, <2>2 DEF w, j, Wrap
<1>5. Wrap(prod.written) \in Nat
  BY CountsInOrder, ModSplit, RingConstants DEF Wrap
<1>6. /\ prod'.tail = Wrap(prod.written) /\ prod'.pc = "idle" /\ prod'.written = prod.written
      /\ prod'.knows = prod.knows /\ prod'.seen = prod.seen
      /\ prod'.head_cache = prod.head_cache
      /\ prod' \in [pc : {"idle", "write", "store"}, tail : Nat, head_cache : Nat, batch : Nat,
                    at : Nat, written : Nat, seen : Nat, knows : Nat]
  BY <1>1, <1>4, <1>5 DEF Inv, TypeOK
<1>7. /\ tail' \in Seq(Stored) /\ Messages(tail', prod.written)
      /\ Len(tail') = Len(tail) + 1 /\ \A i \in 1..Len(tail) : tail'[i] = tail[i]
  <2>1. tail \in Seq(Stored) /\ Messages(tail, Published)
    BY DEF Inv, TypeOK, Producer
  <2>2. tail' = store_release(tail, Wrap(prod.written), prod.written)
    BY <1>1, <1>6
  <2>3. Published \in Nat /\ prod.written \in Nat
    BY CountsInOrder
  <2> QED BY <1>3, <1>5, <2>1, <2>2, <2>3, StoredMessages
<1>8. Published' = prod.written
  BY <1>6, CountsInOrder DEF Published
<1>9. TypeOK'
  BY <1>1, <1>6, <1>7 DEF Inv, TypeOK
<1>10. Producer'
  <2>1. prod.written <= prod.knows + Capacity
    BY <1>2, <1>3
  <2>2. Cached(head, prod.seen, prod.head_cache, prod.knows)'
    BY <1>1, <1>6 DEF Inv, Producer, Cached
  <2>3. Messages(tail, Published)'
    BY <1>7, <1>8 DEF Messages
  <2> QED BY <1>6, <1>8, <2>1, <2>2, <2>3, CountsInOrder DEF Producer
<1>11. Consumer'
  <2>1. cons.seen \in 1..Len(tail) /\ Len(tail) \in Nat
    BY DEF Inv, TypeOK, Consumer, Cached
  <2>2. cons.seen \in 1..Len(tail') /\ tail'[cons.seen] = tail[cons.seen]
    BY <1>7, <2>1
  <2> QED BY <1>1, <2>2 DEF Inv, Consumer, Messages, Cached
<1>12. Contents' /\ race' = FALSE
  BY <1>1, <1>6 DEF Inv, Contents
<1>13. Published + prod.batch <= cons.read + Capacity
  BY <1>2, CountsInOrder, RingConstants
<1> QED BY <1>1, <1>2, <1>3, <1>8, <1>9, <1>10, <1>11, <1>12, <1>13 DEF Inv

-----------------------------------------------------------------------------
\* The consumer's steps.

\* A refresh moves the cached tail to a later message.
LEMMA RefreshedTail ==
    ASSUME Inv, NEW max \in Nat, NEW c \in refreshed_tail(max)
    PROVE  /\ c \in [pc : {"idle", "read", "store"}, head : Nat, tail_cache : Nat, left : Nat,
                     read : Nat, seen : Nat, knows : Nat]
           /\ c.pc = cons.pc /\ c.head = cons.head /\ c.read = cons.read
           /\ Cached(tail, c.seen, c.tail_cache, c.knows) /\ cons.knows <= c.knows
<1>1. CASE c = cons
  BY <1>1 DEF Inv, TypeOK, Consumer
<1>2. CASE c # cons
  <2>1. PICK m \in cons.seen..Len(tail) :
          c = [cons EXCEPT !.tail_cache = tail[m].val, !.seen = m,
                           !.knows = Max({cons.knows, tail[m].knows})]
    BY <1>2 DEF refreshed_tail
  <2>2. /\ cons.seen \in 1..Len(tail) /\ m \in 1..Len(tail) /\ Len(tail) \in Nat
        /\ cons.knows = tail[cons.seen].knows
    BY DEF Inv, TypeOK, Consumer, Cached
  <2>3. tail[m] \in Stored /\ tail[cons.seen] \in Stored
    BY <2>2 DEF Inv, TypeOK
  <2>4. tail[m].val \in Nat /\ tail[m].knows \in Nat /\ cons.knows \in Nat /\ m \in Nat
    BY <2>2, <2>3 DEF Stored
  <2>5. cons.knows <= tail[m].knows
    BY <2>2, <2>4 DEF Inv, Producer, Messages
  <2>6. Max({cons.knows, tail[m].knows}) = tail[m].knows
    BY <2>4, <2>5, MaxOfTwo
  <2>7. c = [cons EXCEPT !.tail_cache = tail[m].val, !.seen = m, !.knows = tail[m].knows]
    BY <2>1, <2>6
  <2> QED BY <2>2, <2>4, <2>5, <2>7 DEF Inv, TypeOK, Cached
<1> QED BY <1>1, <1>2

\* The slots the consumer takes for published are those between its read and what it knows.
LEMMA AvailableSlots ==
    ASSUME Inv, NEW max \in Nat, NEW c \in refreshed_tail(max)
    PROVE  available(c) = c.knows - cons.read /\ available(c) \in Nat /\ c.knows \in Nat
<1>1. /\ c.head = Wrap(cons.read) /\ Cached(tail, c.seen, c.tail_cache, c.knows)
      /\ cons.knows <= c.knows /\ c.knows \in Nat
  BY RefreshedTail DEF Inv, Consumer
<1>2. c.tail_cache = Wrap(c.knows) /\ c.knows <= Published
  BY <1>1 DEF Inv, Producer, Messages, Cached
<1>3. cons.read \in Nat /\ cons.read <= c.knows /\ c.knows - cons.read < IndexMod
  <2>1. /\ prod.knows \in Nat /\ cons.read \in Nat /\ cons.knows \in Nat /\ Published \in Nat
        /\ prod.knows <= cons.read /\ cons.read <= cons.knows
    BY CountsInOrder
  <2>2. Published <= prod.knows + Capacity
    BY DEF Inv, Producer
  <2> QED BY <1>1, <1>2, <2>1, <2>2, RingConstants
<1>4. Wrap(c.tail_cache - c.head) = c.knows - cons.read
  <2> DEFINE w == c.knows
             k == cons.read
  <2>1. w \in Nat /\ k \in Nat /\ k <= w /\ w - k < IndexMod
    BY <1>1, <1>3
  <2>2. c.tail_cache = w % IndexMod /\ c.head = k % IndexMod
    BY <1>1, <1>2 DEF Wrap
  <2> HIDE DEF w, k
  <2>3. ((w % IndexMod) - (k % IndexMod)) % IndexMod = w - k
    <3>1. IndexMod \in Nat /\ IndexMod > 0
      BY RingConstants
    <3> QED BY <2>1, <3>1, WrapDistance
  <2> QED BY <2>2, <2>3 DEF w, k, Wrap
<1> QED BY <1>1, <1>3, <1>4 DEF available

\* consume_batch, up to the first slot.
LEMMA ConsumeBatchKeeps ==
    ASSUME Inv, NEW max \in Nat, max >= 1, consume_batch(max)
    PROVE  Inv' /\ Published' = Published /\ cons'.read = cons.read
<1>1. PICK c \in refreshed_tail(max) :
        cons' = IF available(c) = 0 THEN c
                ELSE [c EXCEPT !.pc = "read", !.left = Min({available(c), max})]
  BY DEF consume_batch
<1>2. cons.pc = "idle" /\ UNCHANGED <<head, tail, slots, prod, race>>
  BY DEF consume_batch
<1>3. /\ c \in [pc : {"idle", "read", "store"}, head : Nat, tail_cache : Nat, left : Nat,
                read : Nat, seen : Nat, knows : Nat]
      /\ c.pc = "idle" /\ c.head = cons.head /\ c.read = cons.read
      /\ Cached(tail, c.seen, c.tail_cache, c.knows) /\ cons.knows <= c.knows
  BY <1>1, <1>2, RefreshedTail
<1>4. available(c) = c.knows - cons.read /\ available(c) \in Nat /\ c.knows \in Nat
  BY <1>1, AvailableSlots
<1> DEFINE b == Min({available(c), max})
<1>5. b \in Nat /\ b <= available(c) /\ (b = available(c) \/ b = max)
  BY <1>4, MinOfTwo
<1> HIDE DEF b
<1>6. /\ cons' \in [pc : {"idle", "read", "store"}, head : Nat, tail_cache : Nat, left : Nat,
                    read : Nat, seen : Nat, knows : Nat]
      /\ cons'.head = cons.head /\ cons'.read = cons.read /\ cons'.knows = c.knows
      /\ Cached(tail, cons'.seen, cons'.tail_cache, cons'.knows)
      /\ cons'.pc = "idle" \/
         (cons'.pc = "read" /\ cons'.left = b /\ available(c) # 0)
  BY <1>1, <1>3, <1>5 DEF b
<1>7. Published' = Published
  BY <1>2 DEF Published
<1>8. TypeOK'
  BY <1>2, <1>6 DEF Inv, TypeOK
<1>9. Producer' /\ Contents' /\ race' = FALSE
  BY <1>2, <1>6, <1>7 DEF Inv, Producer, Contents, Messages, Cached
<1>10. Consumer'
  <2>1. /\ Messages(head, cons.read) /\ cons.head = Wrap(cons.read) /\ cons.read <= cons.knows
        /\ cons.knows \in Nat /\ cons.read \in Nat
    BY CountsInOrder DEF Inv, Consumer
  <2>2. cons.read <= c.knows
    BY <1>3, <1>4, <2>1
  <2>3. cons'.pc = "read" => cons'.left >= 1 /\ cons.read + cons'.left <= c.knows
    BY <1>4, <1>5, <1>6, <2>1
  <2>4. /\ Messages(head, cons.read)' /\ Cached(tail, cons.seen, cons.tail_cache, cons.knows)'
        /\ (cons.head = Wrap(cons.read))'
    BY <1>2, <1>6, <2>1 DEF Messages, Cached
  <2> QED BY <1>6, <2>2, <2>3, <2>4 DEF Consumer
<1> QED BY <1>6, <1>7, <1>8, <1>9, <1>10 DEF Inv

\* The slot read holds the next item, published and seen published.
LEMMA ReadSlotKeeps ==
    ASSUME Inv, NEW unwinds \in BOOLEAN, read_slot(unwinds)
    PROVE  Inv' /\ Published' = Published /\ cons'.read = cons.read + 1 /\ cons.read < Published
<1>1. /\ cons.pc = "read"
      /\ race' = (race \/ cons.knows < cons.read + 1 \/ slots[Slot(cons.head)] # cons.read + 1)
      /\ cons' = [cons EXCEPT !.head = Wrap(cons.head + 1), !.read = cons.read + 1,
                              !.left = cons.left - 1,
                              !.pc = IF unwinds \/ cons.left = 1 THEN "store" ELSE "read"]
      /\ UNCHANGED <<head, tail, slots, prod>>
  BY DEF read_slot
<1>2. /\ cons.left \in Nat /\ cons.left >= 1 /\ cons.read + cons.left <= cons.knows
      /\ cons.head = Wrap(cons.read)
  BY <1>1 DEF Inv, TypeOK, Consumer
<1>3. /\ cons.read \in Nat /\ cons.read + 1 <= cons.knows /\ cons.knows <= Published
      /\ Published <= prod.written /\ cons.knows \in Nat /\ Published \in Nat
      /\ prod.written \in Nat
  BY <1>2, CountsInOrder
<1>4. slots[Slot(cons.head)] = cons.read + 1
  <2>1. slots[((cons.read + 1) - 1) % Capacity] = cons.read + 1
    <3>1. cons.read + 1 \in 1..prod.written /\ cons.read < cons.read + 1
      BY <1>3
    <3> QED BY <3>1 DEF Inv, Contents
  <2>2. (cons.read + 1) - 1 = cons.read /\ cons.read + 0 = cons.read /\ cons.head + 0 = cons.head
    <3>1. cons.head \in Nat
      BY DEF Inv, TypeOK
    <3> QED BY <1>3, <3>1
  <2>3. ((cons.read % IndexMod) + 0) % Capacity = (cons.read + 0) % Capacity
    <3> DEFINE a == cons.read
    <3>1. a \in Nat /\ 0 \in Nat
      BY <1>3
    <3> HIDE DEF a
    <3>2. ((a % IndexMod) + 0) % Capacity = (a + 0) % Capacity
      BY <3>1, IndexedSlot
    <3> QED BY <3>2 DEF a
  <2> QED BY <1>2, <2>1, <2>2, <2>3 DEF Slot, Wrap
<1>5. race' = FALSE
  <2>1. ~(cons.knows < cons.read + 1)
    BY <1>3
  <2> QED BY <1>1, <1>4, <2>1 DEF Inv
<1>6. Wrap(cons.head + 1) = Wrap(cons.read + 1)
  <2>1. ((cons.read % IndexMod) + 1) % IndexMod = (cons.read + 1) % IndexMod
    BY <1>3, WrapSum
  <2> QED BY <1>2, <2>1 DEF Wrap
<1>7. Wrap(cons.read + 1) \in Nat /\ cons.left - 1 \in Nat
  BY <1>2, <1>3, ModSplit, RingConstants DEF Wrap
<1>8. /\ cons'.head = Wrap(cons.read + 1) /\ cons'.read = cons.read + 1
      /\ cons'.left = cons.left - 1 /\ cons'.knows = cons.knows /\ cons'.seen = cons.seen
      /\ cons'.tail_cache = cons.tail_cache /\ (cons'.pc = "read" => cons.left # 1)
      /\ cons' \in [pc : {"idle", "read", "store"}, head : Nat, tail_cache : Nat, left : Nat,
                    read : Nat, seen : Nat, knows : Nat]
  <2>1. cons.read + 1 \in Nat
    BY <1>3
  <2> DEFINE h == Wrap(cons.read + 1)
             r == cons.read + 1
             l == cons.left - 1
             pc == IF unwinds \/ cons.left = 1 THEN "store" ELSE "read"
  <2>2. /\ h \in Nat /\ r \in Nat /\ l \in Nat /\ pc \in {"idle", "read", "store"}
        /\ (pc = "read" => cons.left # 1)
    BY <1>7, <2>1
  <2>3. cons' = [cons EXCEPT !.head = h, !.read = r, !.left = l, !.pc = pc]
    BY <1>1, <1>6
  <2> HIDE DEF h, r, l, pc
  <2>4. /\ cons'.head = h /\ cons'.read = r /\ cons'.left = l /\ cons'.pc = pc
        /\ cons'.knows = cons.knows /\ cons'.seen = cons.seen
        /\ cons'.tail_cache = cons.tail_cache
        /\ cons' \in [pc : {"idle", "read", "store"}, head : Nat, tail_cache : Nat, left : Nat,
                      read : Nat, seen : Nat, knows : Nat]
    BY <2>2, <2>3 DEF Inv, TypeOK
  <2> QED BY <2>2, <2>4 DEF h, r, l
<1>9. Published' = Published
  BY <1>1 DEF Published
<1>10. TypeOK'
  BY <1>1, <1>8 DEF Inv, TypeOK
<1>11. Producer'
  BY <1>1, <1>9 DEF Inv, Producer, Messages, Cached
<1>12. Consumer'
  <2>1. Messages(head, cons.read)'
    <3>1. head \in Seq(Stored) /\ Messages(head, cons.read)
      BY DEF Inv, TypeOK, Consumer
    <3>2. \A i \in 1..Len(head) : head[i].knows \in Nat
      <4>1. \A i \in 1..Len(head) : head[i] \in Stored
        BY <3>1
      <4> QED BY <4>1 DEF Stored
    <3>3. \A i \in 1..Len(head) : head[i].knows <= cons.read + 1
      BY <1>3, <3>1, <3>2 DEF Messages
    <3> QED BY <1>1, <1>8, <3>1, <3>3 DEF Messages
  <2>2. Cached(tail, cons.seen, cons.tail_cache, cons.knows)'
    BY <1>1, <1>8 DEF Inv, Consumer, Cached
  <2>3. cons'.pc = "read" => cons'.left >= 1 /\ cons'.read + cons'.left <= cons'.knows
    BY <1>2, <1>3, <1>8
  <2> QED BY <1>3, <1>8, <2>1, <2>2, <2>3 DEF Consumer
<1>13. Contents'
  <2> SUFFICES ASSUME NEW i \in 1..prod.written, cons.read + 1 < i
               PROVE  slots[(i - 1) % Capacity] = i
    BY <1>1, <1>8 DEF Contents
  <2>1. cons.read < i
    BY <1>3
  <2> QED BY <2>1 DEF Inv, Contents
<1> QED BY <1>3, <1>5, <1>8, <1>9, <1>10, <1>11, <1>12, <1>13 DEF Inv

\* The guard stores the head of what was consumed.
LEMMA AdvanceGuardKeeps ==
    ASSUME Inv, AdvanceGuard_drop
    PROVE  Inv' /\ Published' = Published /\ cons'.read = cons.read
<1>1. /\ head' = store_release(head, cons.head, cons.read)
      /\ cons' = [cons EXCEPT !.pc = "idle"]
      /\ UNCHANGED <<tail, slots, prod, race>>
  BY DEF AdvanceGuard_drop
<1>2. /\ head \in Seq(Stored) /\ Messages(head, cons.read) /\ cons.head = Wrap(cons.read)
      /\ cons.head \in Nat /\ cons.read \in Nat /\ cons.read <= cons.read
  BY DEF Inv, TypeOK, Consumer
<1>3. /\ head' \in Seq(Stored) /\ Messages(head', cons.read)
      /\ Len(head') = Len(head) + 1 /\ \A i \in 1..Len(head) : head'[i] = head[i]
  BY <1>1, <1>2, StoredMessages
<1>4. /\ cons'.head = cons.head /\ cons'.read = cons.read /\ cons'.knows = cons.knows
      /\ cons'.seen = cons.seen /\ cons'.tail_cache = cons.tail_cache /\ cons'.pc = "idle"
      /\ cons' \in [pc : {"idle", "read", "store"}, head : Nat, tail_cache : Nat, left : Nat,
                    read : Nat, seen : Nat, knows : Nat]
  BY <1>1 DEF Inv, TypeOK
<1>5. Published' = Published
  BY <1>1 DEF Published
<1>6. TypeOK'
  BY <1>1, <1>3, <1>4 DEF Inv, TypeOK
<1>7. Producer'
  <2>1. prod.seen \in 1..Len(head) /\ Len(head) \in Nat
    BY DEF Inv, TypeOK, Producer, Cached
  <2>2. prod.seen \in 1..Len(head') /\ head'[prod.seen] = head[prod.seen]
    BY <1>3, <2>1
  <2> QED BY <1>1, <1>5, <2>2 DEF Inv, Producer, Messages, Cached
<1>8. Consumer' /\ Contents' /\ race' = FALSE
  BY <1>1, <1>3, <1>4 DEF Inv, Consumer, Contents, Messages, Cached
<1> QED BY <1>4, <1>5, <1>6, <1>7, <1>8 DEF Inv

-----------------------------------------------------------------------------
\* The ring.

\* Every step keeps the invariant, and publishes a batch that fits, consumes the next
\* published item, or changes neither count.
LEMMA StepKeeps ==
    ASSUME Inv, [Next]_vars
    PROVE  Inv' /\ [Channel!Next]_(Channel!vars)
<1>1. ASSUME Published' = Published, cons'.read = cons.read
      PROVE  [Channel!Next]_(Channel!vars)
  BY <1>1 DEF Channel!vars
<1>2. CASE try_push
  <2>1. Inv' /\ Published' = Published
    BY <1>2, BeginPublishKeeps DEF try_push
  <2> QED BY <1>1, <1>2, <2>1 DEF try_push, begin_publish
<1>3. ASSUME NEW n \in 1..MaxBatch, publish_batch(n)
      PROVE  Inv' /\ [Channel!Next]_(Channel!vars)
  <2>1. n \in Nat /\ n >= 1 /\ IndexMod \in Nat
    BY RingConstants
  <2>2. Inv' /\ Published' = Published
    BY <1>3, <2>1, BeginPublishKeeps DEF publish_batch
  <2> QED BY <1>1, <1>3, <2>2 DEF publish_batch, begin_publish
<1>4. ASSUME NEW max \in 1..MaxBatch, consume_batch(max)
      PROVE  Inv' /\ [Channel!Next]_(Channel!vars)
  <2>1. max \in Nat /\ max >= 1
    BY RingConstants
  <2> QED BY <1>1, <1>4, <2>1, ConsumeBatchKeeps
<1>5. CASE write_slot
  BY <1>1, <1>5, WriteSlotKeeps DEF write_slot
<1>6. CASE publish_tail
  <2>1. /\ Inv' /\ Published' = Published + prod.batch /\ prod.batch >= 1
        /\ Published + prod.batch <= cons.read + Capacity /\ cons' = cons
    BY <1>6, PublishTailKeeps
  <2>2. prod.batch \in Nat /\ Published \in Nat /\ cons.read \in Nat
    BY CountsInOrder DEF Inv, TypeOK
  <2>3. Published' \in Published + 1..cons.read + Capacity
    BY <2>1, <2>2, RingConstants
  <2> QED BY <2>1, <2>3 DEF Channel!Next, Channel!Publish
<1>7. ASSUME NEW unwinds \in BOOLEAN, read_slot(unwinds)
      PROVE  Inv' /\ [Channel!Next]_(Channel!vars)
  BY <1>7, ReadSlotKeeps DEF Channel!Next, Channel!Consume
<1>8. CASE AdvanceGuard_drop
  BY <1>1, <1>8, AdvanceGuardKeeps
<1>9. CASE UNCHANGED vars
  <2>1. Published' = Published
    BY <1>9 DEF vars, Published
  <2>2. Inv'
    BY <1>9, <2>1 DEF vars, Inv, TypeOK, Producer, Consumer, Contents, Messages, Cached
  <2> QED BY <1>1, <1>9, <2>1, <2>2 DEF vars
<1> QED BY <1>2, <1>3, <1>4, <1>5, <1>6, <1>7, <1>8, <1>9 DEF Next, Produce, Consume

\* No slot of a ring of any capacity is accessed by both threads without the ordering its
\* access needs, whatever batches they move and however stale their cached indices are.
THEOREM SlotsAreHandedOver == Spec => []NoSlotRace
<1>1. Inv => NoSlotRace
  BY DEF Inv, NoSlotRace
<1> QED BY <1>1, InitInv, StepKeeps, PTL DEF Spec

\* A ring of any capacity is the bounded FIFO channel its two cells take it for.
THEOREM RingIsAChannel == Spec => ImplementsChannel
<1>1. Init => Channel!Init
  BY DEF Init, ring, Channel!Init, Published
<1> QED BY <1>1, InitInv, StepKeeps, PTL DEF Spec, ImplementsChannel, Channel!Spec
=============================================================================
