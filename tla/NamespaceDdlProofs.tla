--------------------------- MODULE NamespaceDdlProofs ---------------------------
(***************************************************************************)
(* Namespace ids are never reused, for every number of cells, every set of *)
(* names and founding namespaces, and any number of DDLs and crashes.      *)
(***************************************************************************)
EXTENDS NamespaceDdl, FiniteSetTheorems, TLAPS

NsSpec == [id : Nat, name : Names \cup {""}, mode : {"tiered", "memory"}, val : {0, 1}]

Message ==
    [kind : {"Persist"}, entries : SUBSET NsSpec, next_id : Nat, epoch : Nat,
     drop : Nat, dropped : Nat, create : SUBSET NsSpec]
      \cup [kind : {"StampDrop"}, id : Nat, epoch : Nat]
      \cup [kind : {"CreateApplied"}, id : Nat]

Program_pc == {"idle", "create_swap", "create_fan", "drop_pace", "drop_swap", "drop_fan",
               "undo_swap", "undo_fan", "set_fan", "set_swap"}

Verdict == {"NameExists", "AtCapacity", "Accepted"}

DdlProgram == [pc : Program_pc, cell : Cells, spec : NsSpec, epoch : Nat,
               left : SUBSET Cells, failed : BOOLEAN, verdict : SUBSET Verdict]

Checkpoint == [phase : {"idle", "begun", "walked"}, epoch : Nat, refs : SUBSET Nat,
               tail : SUBSET Nat]

CellDisk == [refs : SUBSET Nat, sections : SUBSET Nat, tail : SUBSET Nat, cold : SUBSET Nat]

\* The types of what carries a namespace id.
TypeOK ==
    /\ reg \in [Cells -> SUBSET NsSpec]
    /\ ck \in [Cells -> Checkpoint]
    /\ disk \in [Cells -> CellDisk]
    /\ prog \in DdlProgram
    /\ queue \in Seq(Message)
    /\ w \in [pending : SUBSET NsSpec, tombs : SUBSET [id : Nat, epoch : Nat]]
    /\ meta \in [next_id : Nat, entries : SUBSET NsSpec, dropped : SUBSET Nat]
    /\ ctl \in [next_ns_id : Nat, next_epoch : Nat, persisted : Nat]
    /\ board \in [clock : Nat, request_all : Nat, published : [Cells -> Nat]]
    /\ gone \subseteq NsSpec

\* Every persist under way names ids below n.
QueueBelow(q, n) ==
    \A i \in 1..Len(q) : q[i].kind = "Persist" =>
        /\ q[i].next_id <= n
        /\ \A s \in q[i].entries \cup q[i].create : s.id < n

\* What a crash may leave lies below the durable counter, since the allocator restarts
\* there; the rest lies below the allocator.  A spec comes under the durable counter
\* when its CREATE gets its verdict, before any cell serves it.
IdsBounded ==
    /\ meta.next_id <= ctl.next_ns_id
    /\ \A s \in meta.entries \cup gone : s.id < meta.next_id
    /\ \A c \in Cells : \A s \in reg[c] : s.id < meta.next_id
    /\ \A c \in Cells : \A i \in Residue(c) \cup ck[c].refs \cup ck[c].tail : i < meta.next_id
    /\ prog.pc \notin {"idle", "create_swap"} \/ prog.verdict # {} => prog.spec.id < meta.next_id
    /\ prog.spec.id < ctl.next_ns_id
    /\ \A s \in w.pending : s.id < ctl.next_ns_id
    /\ QueueBelow(queue, ctl.next_ns_id)

Inv == TypeOK /\ IdsBounded

\* The ids that IdsNeverReused compares are numbers.
LEMMA IdsAreNumbers ==
    ASSUME TypeOK
    PROVE  /\ \A s \in gone : s.id \in Nat
           /\ \A c \in Cells : \A s \in reg[c] : s.id \in Nat
<1>1. gone \subseteq NsSpec /\ \A c \in Cells : reg[c] \subseteq NsSpec
  BY DEF TypeOK
<1> QED BY <1>1 DEF NsSpec

\* The maximum recovery takes of the catalogue's counter and the allocator's bounds both.
LEMMA MaxOfTwo ==
    ASSUME NEW a \in Nat, NEW b \in Nat
    PROVE  Max({a, b}) \in Nat /\ Max({a, b}) >= a /\ Max({a, b}) >= b
<1>1. \E x \in {a, b} : \A y \in {a, b} : x >= y
  OBVIOUS
<1> QED BY <1>1 DEF Max

\* The founding catalogue holds ids below its own counter.
LEMMA InitInv == Init => Inv
<1> SUFFICES ASSUME Init PROVE Inv
  OBVIOUS
<1>1. Cardinality(Founded) \in Nat
  BY NsAssumption, FS_CardinalityType
<1> DEFINE next == FIRST_NAMED_NS_ID + Cardinality(Founded)
<1>2. next \in Nat /\ next > 0
  BY <1>1, NsAssumption
<1>3. ASSUME NEW s \in Founded
      PROVE  s \in NsSpec /\ s.id < next
  <2>1. s \in [id : FIRST_NAMED_NS_ID..(FIRST_NAMED_NS_ID + Cardinality(Founded) - 1),
               name : Names, mode : Modes, val : {0, 1}]
    BY Zenon, NsAssumption
  <2>2. s.id \in FIRST_NAMED_NS_ID..(FIRST_NAMED_NS_ID + Cardinality(Founded) - 1)
    BY <2>1
  <2>3. s.id \in Nat /\ s.id < next
    BY <1>1, <2>2, NsAssumption
  <2>4. s \in NsSpec
    BY <2>1, <2>3, NsAssumption DEF NsSpec
  <2> QED BY <2>3, <2>4
<1> HIDE DEF next
<1>4. TypeOK
  <2>1. 0 \in Cells /\ NoSpec \in NsSpec
    BY NsAssumption DEF Cells, NoSpec, NsSpec
  <2>2. prog \in DdlProgram
    BY <2>1 DEF Init, Idle, DdlProgram, Program_pc
  <2>3. {s.id : s \in {f \in Founded : f.mode = "tiered"}} \subseteq Nat
    BY <1>3 DEF NsSpec
  <2>4. queue \in Seq(Message)
    BY DEF Init
  <2>5. Founded \subseteq NsSpec
    BY <1>3
  <2>6. meta \in [next_id : Nat, entries : SUBSET NsSpec, dropped : SUBSET Nat]
    BY <1>2, <2>5 DEF Init, next
  <2>7. ctl \in [next_ns_id : Nat, next_epoch : Nat, persisted : Nat]
    BY <1>2 DEF Init, next
  <2> QED BY <2>2, <2>3, <2>4, <2>5, <2>6, <2>7 DEF Init, TypeOK, NoCkpt, Checkpoint, CellDisk
<1>5. IdsBounded
  <2>1. \A c \in Cells : \A i \in Residue(c) \cup ck[c].refs \cup ck[c].tail :
            i \in {s.id : s \in Founded}
    BY DEF Init, Residue, NoCkpt
  <2>2. prog.pc = "idle" /\ prog.verdict = {} /\ prog.spec.id = 0
    BY DEF Init, Idle, NoSpec
  <2>3. meta.next_id = next /\ ctl.next_ns_id = next
    BY DEF Init, next
  <2>4. gone = {} /\ meta.entries = Founded /\ w.pending = {} /\ Len(queue) = 0
    BY DEF Init
  <2>5. \A c \in Cells : reg[c] = Founded
    BY DEF Init
  <2> QED BY <1>2, <1>3, <2>1, <2>2, <2>3, <2>4, <2>5 DEF IdsBounded, QueueBelow
<1> QED BY <1>4, <1>5 DEF Inv

-----------------------------------------------------------------------------
\* The queue of the control thread.

\* A persist joins the queue with ids below the counter it carries, which the
\* allocator takes.
LEMMA SendKeeps ==
    ASSUME Inv, NEW entries \in SUBSET NsSpec, NEW drop \in Nat, NEW dropped \in Nat,
           NEW create \in SUBSET NsSpec, NEW next \in Nat, next >= ctl.next_ns_id,
           \A s \in entries \cup create : s.id < next,
           send_persist(entries, drop, dropped, create, next)
    PROVE  /\ queue' \in Seq(Message) /\ QueueBelow(queue', next)
           /\ ctl' \in [next_ns_id : Nat, next_epoch : Nat, persisted : Nat]
           /\ ctl'.next_ns_id = next
<1> DEFINE m == Request(entries, drop, dropped, create, next)
<1>1. m \in Message /\ m.kind = "Persist" /\ m.next_id = next /\ m.entries = entries
        /\ m.create = create
  BY DEF Inv, TypeOK, Message, Request
<1>2. /\ ctl' \in [next_ns_id : Nat, next_epoch : Nat, persisted : Nat]
      /\ ctl'.next_ns_id = next
  <2>1. ctl \in [next_ns_id : Nat, next_epoch : Nat, persisted : Nat]
    BY DEF Inv, TypeOK
  <2>2. ctl' = [ctl EXCEPT !.next_epoch = @ + 1, !.next_ns_id = next]
    BY DEF send_persist
  <2>3. ctl.next_epoch + 1 \in Nat
    BY <2>1
  <2>4. ctl'.next_ns_id = next
    BY <2>1, <2>2
  <2> QED BY <2>1, <2>2, <2>3, <2>4
<1>3. queue \in Seq(Message) /\ queue' = Append(queue, m)
  BY DEF Inv, TypeOK, send_persist
<1> HIDE DEF m
<1>4. ASSUME NEW i \in 1..Len(queue'), queue'[i].kind = "Persist"
      PROVE  /\ queue'[i].next_id <= next
             /\ \A s \in queue'[i].entries \cup queue'[i].create : s.id < next
  <2>1. CASE i = Len(queue) + 1
    BY <1>1, <1>3, <2>1
  <2>2. CASE i \in 1..Len(queue)
    <3>1. queue'[i] = queue[i] /\ queue[i] \in Message
      BY <1>3, <2>2
    <3>2. QueueBelow(queue, ctl.next_ns_id)
      BY DEF Inv, IdsBounded
    <3>3. /\ queue[i].next_id <= ctl.next_ns_id
          /\ \A s \in queue[i].entries \cup queue[i].create : s.id < ctl.next_ns_id
      BY <1>4, <2>2, <3>1, <3>2 DEF QueueBelow
    <3>4. queue[i].next_id \in Nat /\ queue[i].entries \cup queue[i].create \subseteq NsSpec
      BY <1>4, <3>1 DEF Message
    <3>5. ctl.next_ns_id \in Nat
      BY DEF Inv, TypeOK
    <3>6. \A s \in queue[i].entries \cup queue[i].create : s.id \in Nat
      BY <3>4 DEF NsSpec
    <3> QED BY <3>1, <3>3, <3>4, <3>5, <3>6
  <2> QED BY <1>3, <2>1, <2>2
<1> QED BY <1>1, <1>2, <1>3, <1>4 DEF QueueBelow

\* A drop's stamp or an applied CREATE in the queue names no spec.
LEMMA NoteKeeps ==
    ASSUME Inv, NEW m \in Message, m.kind # "Persist", queue' = Append(queue, m)
    PROVE  queue' \in Seq(Message) /\ QueueBelow(queue', ctl.next_ns_id)
<1>1. queue \in Seq(Message) /\ QueueBelow(queue, ctl.next_ns_id)
  BY DEF Inv, TypeOK, IdsBounded
<1>2. ASSUME NEW i \in 1..Len(queue'), queue'[i].kind = "Persist"
      PROVE  i \in 1..Len(queue) /\ queue'[i] = queue[i]
  BY <1>1, <1>2
<1> QED BY <1>1, <1>2 DEF QueueBelow

\* What lay below the allocator still does when the allocator moves up.
LEMMA QueueMonotone ==
    ASSUME NEW q \in Seq(Message), NEW n \in Nat, NEW m \in Nat, n <= m, QueueBelow(q, n)
    PROVE  QueueBelow(q, m)
<1> SUFFICES ASSUME NEW i \in 1..Len(q), q[i].kind = "Persist"
             PROVE  /\ q[i].next_id <= m
                    /\ \A s \in q[i].entries \cup q[i].create : s.id < m
  BY DEF QueueBelow
<1>1. q[i] \in Message
  OBVIOUS
<1>2. q[i].next_id \in Nat /\ q[i].entries \cup q[i].create \subseteq NsSpec
  BY <1>1 DEF Message
<1>3. \A s \in q[i].entries \cup q[i].create : s.id \in Nat
  BY <1>2 DEF NsSpec
<1>4. /\ q[i].next_id <= n
      /\ \A s \in q[i].entries \cup q[i].create : s.id < n
  BY DEF QueueBelow
<1> QED BY <1>2, <1>3, <1>4

-----------------------------------------------------------------------------
\* One lemma per group of actions.

\* The steps of a program between its messages: a leg on a peer, the end of a wait.
LEMMA LegsKeep ==
    ASSUME Inv, CreateLeg \/ DropLeg \/ SetLeg \/ DropSwapped
    PROVE  Inv'
<1>1. /\ prog \in DdlProgram /\ reg \in [Cells -> SUBSET NsSpec]
      /\ prog.pc \in {"create_fan", "drop_fan", "undo_fan", "set_fan", "drop_swap", "undo_swap"}
  BY DEF Inv, TypeOK, CreateLeg, DropLeg, SetLeg, DropSwapped
<1>2. /\ prog' \in DdlProgram /\ prog'.spec = prog.spec
  <2>1. CASE CreateLeg
    <3>1. PICK p : \/ prog' = [prog EXCEPT !.left = @ \ {p}]
                   \/ prog' = [prog EXCEPT !.left = @ \ {p}, !.failed = TRUE]
      BY <2>1 DEF CreateLeg
    <3> QED BY <1>1, <3>1 DEF DdlProgram
  <2>2. CASE DropLeg \/ SetLeg
    <3> DEFINE p == Min(prog.left)
               f == prog.failed \/ named(p, prog.spec.name) = {}
    <3>1. prog' = [prog EXCEPT !.left = @ \ {p}, !.failed = f]
      <4>1. CASE DropLeg
        BY <4>1 DEF DropLeg
      <4>2. CASE SetLeg
        BY <4>2 DEF SetLeg
      <4> QED BY <2>2, <4>1, <4>2
    <3>2. f \in BOOLEAN
      OBVIOUS
    <3> HIDE DEF f, p
    <3> QED BY <1>1, <3>1, <3>2 DEF DdlProgram
  <2>3. CASE DropSwapped
    <3>1. PICK pc \in Program_pc : prog' = [prog EXCEPT !.pc = pc, !.left = fan_targets(prog.cell),
                                                      !.failed = FALSE]
      BY <2>3 DEF DropSwapped, Program_pc
    <3> QED BY <1>1, <3>1 DEF DdlProgram, fan_targets
  <2> QED BY <2>1, <2>2, <2>3
<1>3. prog.spec.id < meta.next_id
  BY <1>1 DEF Inv, IdsBounded
<1>4. /\ reg' \in [Cells -> SUBSET NsSpec]
      /\ \A c \in Cells : \A s \in reg'[c] : s.id < meta.next_id
  <2>1. \A c \in Cells : \A s \in reg[c] : s.id < meta.next_id
    BY DEF Inv, IdsBounded
  <2>2. prog.spec \in NsSpec
    BY <1>1 DEF DdlProgram
  <2>3. CASE CreateLeg
    <3>1. reg' = reg \/ \E p : reg' = [reg EXCEPT ![p] = @ \cup {prog.spec}]
      BY <2>3 DEF CreateLeg
    <3> QED BY <1>1, <1>3, <2>1, <2>2, <3>1
  <2>4. CASE DropLeg
    <3>1. \E p, found : reg' = [reg EXCEPT ![p] = @ \ found]
      BY <2>4 DEF DropLeg
    <3> QED BY <1>1, <2>1, <3>1
  <2>5. CASE SetLeg
    <3>1. PICK p : reg' = [reg EXCEPT ![p] = set_on(p, prog.spec.name, prog.spec.val)]
      BY <2>5 DEF SetLeg
    <3>2. prog.spec.val \in {0, 1}
      BY <2>2 DEF NsSpec
    <3>3. ASSUME p \in Cells, NEW s \in set_on(p, prog.spec.name, prog.spec.val)
          PROVE  s \in NsSpec /\ \E o \in reg[p] : s.id = o.id
      <4>1. PICK o \in reg[p] : s = IF o.name = prog.spec.name
                                   THEN [o EXCEPT !.val = prog.spec.val] ELSE o
        BY <3>3 DEF set_on
      <4>2. o \in NsSpec
        BY <1>1, <3>3
      <4> QED BY <3>2, <4>1, <4>2 DEF NsSpec
    <3> QED BY <1>1, <2>1, <3>1, <3>3
  <2>6. CASE DropSwapped
    BY <1>1, <2>1, <2>6 DEF DropSwapped
  <2> QED BY <2>3, <2>4, <2>5, <2>6
<1>5. UNCHANGED <<ck, disk, queue, w, meta, ctl, board, gone>>
  BY DEF CreateLeg, DropLeg, SetLeg, DropSwapped
<1>6. TypeOK'
  BY <1>2, <1>4, <1>5 DEF Inv, TypeOK
<1>7. IdsBounded'
  BY <1>2, <1>3, <1>4, <1>5 DEF Inv, IdsBounded, Residue
<1> QED BY <1>6, <1>7 DEF Inv

\* The idle program carries no namespace.
LEMMA IdleIsProgram ==
    Idle \in DdlProgram /\ Idle.pc = "idle" /\ Idle.verdict = {} /\ Idle.spec.id = 0
<1>1. 0 \in Cells /\ NoSpec \in NsSpec
  BY NsAssumption DEF Cells, NoSpec, NsSpec
<1> QED BY <1>1 DEF Idle, NoSpec, DdlProgram, Program_pc

\* A reply, with no more than a note to the control thread.
LEMMA AnswersKeep ==
    ASSUME Inv, answer,
           queue' = queue \/ \E m \in Message : m.kind # "Persist" /\ queue' = Append(queue, m),
           board' \in [clock : Nat, request_all : Nat, published : [Cells -> Nat]],
           UNCHANGED <<reg, ck, disk, w, meta, ctl>>,
           gone' \subseteq NsSpec, \A s \in gone' : s.id < meta.next_id
    PROVE  Inv'
<1>1. prog' = Idle
  BY DEF answer
<1>2. queue' \in Seq(Message) /\ QueueBelow(queue', ctl.next_ns_id)
  BY NoteKeeps DEF Inv, TypeOK, IdsBounded
<1>3. TypeOK'
  BY <1>1, <1>2, IdleIsProgram DEF Inv, TypeOK
<1>4. 0 < ctl.next_ns_id
  <2>1. prog.spec \in NsSpec /\ ctl.next_ns_id \in Nat /\ prog.spec.id < ctl.next_ns_id
    BY DEF Inv, TypeOK, IdsBounded, DdlProgram
  <2>2. prog.spec.id \in Nat
    BY <2>1 DEF NsSpec
  <2> QED BY <2>1, <2>2
<1>5. IdsBounded'
  BY <1>1, <1>2, <1>4, IdleIsProgram DEF Inv, IdsBounded, Residue
<1> QED BY <1>3, <1>5 DEF Inv

\* The local half of a drop.
LEMMA DropHereKeeps ==
    ASSUME Inv, NEW spec \in NsSpec, spec.id < meta.next_id, drop_here(spec),
           prog' \in DdlProgram, prog'.spec = spec,
           UNCHANGED <<ck, disk, w, meta, gone, board>>
    PROVE  Inv'
<1> DEFINE c == prog'.cell
<1>1. c \in Cells
  BY DEF DdlProgram
<1>2. /\ reg \in [Cells -> SUBSET NsSpec] /\ ctl.next_ns_id \in Nat /\ meta.next_id \in Nat
      /\ meta.next_id <= ctl.next_ns_id
      /\ \A d \in Cells : \A s \in reg[d] : s.id < meta.next_id
  BY DEF Inv, TypeOK, IdsBounded
<1>3. /\ reg' = [reg EXCEPT ![c] = @ \ {spec}]
      /\ send_persist(reg'[c], IF durable(spec) THEN spec.id ELSE 0, spec.id, {}, ctl.next_ns_id)
  BY DEF drop_here
<1> HIDE DEF c
<1>4. /\ reg' \in [Cells -> SUBSET NsSpec]
      /\ \A d \in Cells : \A s \in reg'[d] : s.id < meta.next_id
  BY <1>1, <1>2, <1>3
<1>5. spec.id \in Nat /\ \A s \in reg'[c] : s.id \in Nat
  <2>1. reg'[c] \subseteq NsSpec
    BY <1>1, <1>4
  <2> QED BY <2>1 DEF NsSpec
<1>6. /\ queue' \in Seq(Message) /\ QueueBelow(queue', ctl.next_ns_id)
      /\ ctl' \in [next_ns_id : Nat, next_epoch : Nat, persisted : Nat]
      /\ ctl'.next_ns_id = ctl.next_ns_id
  <2>1. (IF durable(spec) THEN spec.id ELSE 0) \in Nat
    BY <1>5
  <2>2. reg'[c] \in SUBSET NsSpec /\ \A s \in reg'[c] \cup {} : s.id < ctl.next_ns_id
    BY <1>1, <1>2, <1>4, <1>5
  <2> QED BY <1>2, <1>3, <1>5, <2>1, <2>2, SendKeeps
<1>7. TypeOK'
  BY <1>4, <1>6 DEF Inv, TypeOK
<1>8. IdsBounded'
  BY <1>2, <1>4, <1>5, <1>6 DEF Inv, IdsBounded, Residue
<1> QED BY <1>7, <1>8 DEF Inv

\* CREATE draws the allocator's id and sends the catalogue with it.
LEMMA CreateBeginKeeps ==
    ASSUME Inv, NEW c \in Cells, NEW name \in Names, NEW mode \in Modes,
           CreateBegin(c, name, mode)
    PROVE  Inv'
<1> DEFINE spec == [id |-> ctl.next_ns_id, name |-> name, mode |-> mode, val |-> 0]
<1>1. UNCHANGED <<reg, ck, disk, w, meta, board, gone>>
  BY DEF CreateBegin
<1>2. /\ ctl \in [next_ns_id : Nat, next_epoch : Nat, persisted : Nat] /\ meta.next_id \in Nat
      /\ meta.next_id <= ctl.next_ns_id /\ reg[c] \in SUBSET NsSpec
      /\ queue \in Seq(Message) /\ QueueBelow(queue, ctl.next_ns_id)
      /\ w.pending \in SUBSET NsSpec /\ prog.spec \in NsSpec
  BY DEF Inv, TypeOK, IdsBounded, DdlProgram
<1>3. /\ prog.spec.id \in Nat /\ prog.spec.id < ctl.next_ns_id
      /\ \A s \in w.pending : s.id \in Nat /\ s.id < ctl.next_ns_id
      /\ \A s \in reg[c] : s.id \in Nat /\ s.id < meta.next_id
  BY <1>2 DEF Inv, IdsBounded, NsSpec
<1>4. CASE prog' = prog /\ queue' = queue /\ ctl' = [ctl EXCEPT !.next_ns_id = @ + 1]
  <2>1. /\ ctl' \in [next_ns_id : Nat, next_epoch : Nat, persisted : Nat]
        /\ ctl'.next_ns_id = ctl.next_ns_id + 1
    BY <1>2, <1>4
  <2>2. QueueBelow(queue', ctl'.next_ns_id)
    BY <1>2, <1>4, <2>1, QueueMonotone
  <2>3. TypeOK'
    BY <1>1, <1>4, <2>1 DEF Inv, TypeOK
  <2>4. IdsBounded'
    BY <1>1, <1>2, <1>3, <1>4, <2>1, <2>2 DEF Inv, IdsBounded, Residue
  <2> QED BY <2>3, <2>4 DEF Inv
<1>5. CASE /\ send_persist(reg[c], 0, 0, {spec}, ctl.next_ns_id + 1)
           /\ prog' = [Idle EXCEPT !.pc = "create_swap", !.cell = c, !.spec = spec,
                                   !.epoch = ctl.next_epoch + 1]
  <2>1. spec \in NsSpec /\ spec.id = ctl.next_ns_id
    BY <1>2, NsAssumption DEF NsSpec
  <2> HIDE DEF spec
  <2>2. /\ queue' \in Seq(Message) /\ QueueBelow(queue', ctl.next_ns_id + 1)
        /\ ctl' \in [next_ns_id : Nat, next_epoch : Nat, persisted : Nat]
        /\ ctl'.next_ns_id = ctl.next_ns_id + 1
    BY <1>2, <1>3, <1>5, <2>1, SendKeeps
  <2>3. prog' \in DdlProgram /\ prog'.spec = spec /\ prog'.pc = "create_swap" /\ prog'.verdict = {}
    <3>1. ctl.next_epoch + 1 \in Nat
      BY <1>2
    <3>2. prog' = [Idle EXCEPT !.pc = "create_swap", !.cell = c, !.spec = spec,
                               !.epoch = ctl.next_epoch + 1]
      BY <1>5
    <3> HIDE <1>5
    <3>3. "create_swap" \in Program_pc
      BY DEF Program_pc
    <3> QED BY <2>1, <3>1, <3>2, <3>3, IdleIsProgram DEF DdlProgram
  <2>4. TypeOK'
    BY <1>1, <2>2, <2>3 DEF Inv, TypeOK
  <2>5. IdsBounded'
    BY <1>1, <1>2, <1>3, <2>1, <2>2, <2>3 DEF Inv, IdsBounded, Residue
  <2> QED BY <2>4, <2>5 DEF Inv
<1> QED BY <1>4, <1>5 DEF CreateBegin

\* CREATE's verdict: the spec is durable before the first cell serves it.
LEMMA CreateApplyKeeps == Inv /\ CreateApply => Inv'
<1> SUFFICES ASSUME Inv, CreateApply PROVE Inv'
  OBVIOUS
<1>1. UNCHANGED <<ck, disk, w, meta, ctl, board, gone>>
  BY DEF CreateApply
<1>2. prog \in DdlProgram /\ prog.spec \in NsSpec /\ reg \in [Cells -> SUBSET NsSpec]
  BY DEF Inv, TypeOK, DdlProgram
<1>3. CASE answer /\ UNCHANGED <<reg, queue>>
  BY <1>1, <1>3, AnswersKeep DEF Inv, TypeOK, IdsBounded
<1>4. CASE /\ queue' = Append(queue, [kind |-> "CreateApplied", id |-> prog.spec.id])
           /\ answer /\ UNCHANGED reg
  <2>1. [kind |-> "CreateApplied", id |-> prog.spec.id] \in Message
    BY <1>2 DEF Message, NsSpec
  <2> QED BY <1>1, <1>4, <2>1, AnswersKeep DEF Inv, TypeOK, IdsBounded
<1>5. CASE /\ prog.verdict = {"Accepted"}
           /\ reg' = [reg EXCEPT ![prog.cell] = @ \cup {prog.spec}]
           /\ prog' = [prog EXCEPT !.pc = "create_fan", !.left = fan_targets(prog.cell)]
           /\ UNCHANGED queue
  <2>1. prog.spec.id < meta.next_id
    BY <1>5 DEF Inv, IdsBounded
  <2>2. prog' \in DdlProgram /\ prog'.spec = prog.spec
    BY <1>2, <1>5 DEF DdlProgram, Program_pc, fan_targets
  <2>3. /\ reg' \in [Cells -> SUBSET NsSpec]
        /\ \A d \in Cells : \A s \in reg'[d] : s.id < meta.next_id
    <3>1. \A d \in Cells : \A s \in reg[d] : s.id < meta.next_id
      BY DEF Inv, IdsBounded
    <3> QED BY <1>2, <1>5, <2>1, <3>1
  <2>4. TypeOK'
    BY <1>1, <1>5, <2>2, <2>3 DEF Inv, TypeOK
  <2>5. IdsBounded'
    BY <1>1, <1>5, <2>1, <2>2, <2>3 DEF Inv, IdsBounded, Residue
  <2> QED BY <2>4, <2>5 DEF Inv
<1> QED BY <1>3, <1>4, <1>5 DEF CreateApply

\* The end of CREATE: its reply, or the drop that undoes a refused fan.
LEMMA CreateEndKeeps == Inv /\ CreateEnd => Inv'
<1> SUFFICES ASSUME Inv, CreateEnd PROVE Inv'
  OBVIOUS
<1>1. UNCHANGED <<ck, disk, w, meta, board, gone>> /\ prog.pc = "create_fan"
  BY DEF CreateEnd
<1>2. /\ prog \in DdlProgram /\ prog.spec \in NsSpec /\ ctl.next_epoch \in Nat
      /\ prog.spec.id < meta.next_id
  BY <1>1 DEF Inv, TypeOK, IdsBounded, DdlProgram
<1>3. CASE /\ prog' = [prog EXCEPT !.pc = "undo_swap", !.epoch = ctl.next_epoch + 1]
           /\ drop_here(prog.spec)
  <2>1. "undo_swap" \in Program_pc /\ ctl.next_epoch + 1 \in Nat
    BY <1>2 DEF Program_pc
  <2>2. prog' \in DdlProgram /\ prog'.spec = prog.spec
    BY <1>2, <1>3, <2>1 DEF DdlProgram
  <2> QED BY <1>1, <1>2, <1>3, <2>2, DropHereKeeps
<1>4. CASE /\ queue' = Append(queue, [kind |-> "CreateApplied", id |-> prog.spec.id])
           /\ answer /\ UNCHANGED <<reg, ctl>>
  <2>1. [kind |-> "CreateApplied", id |-> prog.spec.id] \in Message
    BY <1>2 DEF Message, NsSpec
  <2> QED BY <1>1, <1>4, <2>1, AnswersKeep DEF Inv, TypeOK, IdsBounded
<1> QED BY <1>3, <1>4 DEF CreateEnd

\* A drop that is not held back at the cap.
LEMMA DropLocalKeeps ==
    ASSUME Inv, NEW c \in Cells, NEW spec \in NsSpec, spec.id < meta.next_id,
           drop_local(c, spec), UNCHANGED <<ck, disk, w, meta, gone, board>>
    PROVE  Inv'
<1>1. "drop_swap" \in Program_pc /\ ctl.next_epoch + 1 \in Nat
  BY DEF Program_pc, Inv, TypeOK
<1>2. prog' = [Idle EXCEPT !.pc = "drop_swap", !.cell = c, !.spec = spec,
                           !.epoch = ctl.next_epoch + 1]
  BY DEF drop_local
<1>3. prog' \in DdlProgram /\ prog'.spec = spec
  BY <1>1, <1>2, IdleIsProgram DEF DdlProgram
<1> QED BY <1>3, DropHereKeeps DEF drop_local

\* Asking every cell for a checkpoint moves no id.
LEMMA IssueKeeps ==
    ASSUME NEW b \in [clock : Nat, request_all : Nat, published : [Cells -> Nat]]
    PROVE  issue_all(b) \in [clock : Nat, request_all : Nat, published : [Cells -> Nat]]
<1>1. b.clock + 1 \in Nat
  OBVIOUS
<1> QED BY <1>1 DEF issue_all

\* The begin of DROP: a refusal, a wait at the cap, or the local drop.
LEMMA DropBeginKeeps ==
    ASSUME Inv, NEW c \in Cells, NEW name \in Names, DropBegin(c, name)
    PROVE  Inv'
<1>1. UNCHANGED <<ck, disk, w, meta, gone>>
  BY DEF DropBegin
<1>2. CASE answer /\ UNCHANGED <<reg, queue, ctl, board>>
  BY <1>1, <1>2, AnswersKeep DEF Inv, TypeOK, IdsBounded
<1>3. ASSUME NEW spec \in named(c, name), board' = issue_all(board),
             prog' = [Idle EXCEPT !.pc = "drop_pace", !.cell = c, !.spec = spec,
                                  !.epoch = board.clock + 1],
             UNCHANGED <<reg, queue, ctl>>
      PROVE  Inv'
  <2>1. spec \in NsSpec /\ spec \in reg[c]
    BY DEF named, Inv, TypeOK
  <2>2. spec.id < meta.next_id /\ spec.id \in Nat
    BY <2>1 DEF Inv, IdsBounded, NsSpec
  <2>3. "drop_pace" \in Program_pc /\ board.clock + 1 \in Nat
    BY DEF Program_pc, Inv, TypeOK
  <2>4. prog' \in DdlProgram /\ prog'.spec = spec
    BY <1>3, <2>1, <2>3, IdleIsProgram DEF DdlProgram
  <2>5. board' \in [clock : Nat, request_all : Nat, published : [Cells -> Nat]]
    BY <1>3, IssueKeeps DEF Inv, TypeOK
  <2>6. TypeOK'
    BY <1>1, <1>3, <2>4, <2>5 DEF Inv, TypeOK
  <2>7. meta.next_id \in Nat /\ ctl.next_ns_id \in Nat /\ meta.next_id <= ctl.next_ns_id
    BY DEF Inv, TypeOK, IdsBounded
  <2>8. IdsBounded'
    BY <1>1, <1>3, <2>2, <2>4, <2>7 DEF Inv, IdsBounded, Residue
  <2> QED BY <2>6, <2>8 DEF Inv
<1>4. ASSUME NEW spec \in named(c, name), drop_local(c, spec), UNCHANGED board
      PROVE  Inv'
  <2>1. spec \in NsSpec /\ spec \in reg[c]
    BY DEF named, Inv, TypeOK
  <2>2. spec.id < meta.next_id
    BY <2>1 DEF Inv, IdsBounded
  <2> QED BY <1>1, <1>4, <2>1, <2>2, DropLocalKeeps
<1> QED BY <1>2, <1>3, <1>4 DEF DropBegin

\* A DROP that waited at the cap goes on.
LEMMA DropPacedKeeps == Inv /\ DropPaced => Inv'
<1> SUFFICES ASSUME Inv, DropPaced PROVE Inv'
  OBVIOUS
<1>1. /\ prog.spec \in NsSpec /\ prog.cell \in Cells /\ prog.spec.id < meta.next_id
  BY DEF DropPaced, Inv, TypeOK, IdsBounded, DdlProgram
<1> QED BY <1>1, DropLocalKeeps DEF DropPaced

\* The end of DROP: the id joins those a client was told are gone.
LEMMA DropEndKeeps == Inv /\ DropEnd => Inv'
<1> SUFFICES ASSUME Inv, DropEnd PROVE Inv'
  OBVIOUS
<1>1. UNCHANGED <<reg, ck, disk, w, meta, ctl>> /\ answer
  BY DEF DropEnd
<1>2. /\ prog.spec \in NsSpec /\ prog.spec.id < meta.next_id
      /\ board \in [clock : Nat, request_all : Nat, published : [Cells -> Nat]]
  BY DEF DropEnd, Inv, TypeOK, IdsBounded, DdlProgram
<1>3. gone' \subseteq NsSpec /\ \A s \in gone' : s.id < meta.next_id
  <2>1. gone' = gone \/ gone' = gone \cup {prog.spec}
    BY DEF DropEnd
  <2> QED BY <1>2, <2>1 DEF Inv, TypeOK, IdsBounded
<1>4. board' \in [clock : Nat, request_all : Nat, published : [Cells -> Nat]]
  <2>1. board' = board \/ board' = issue_all(board)
    BY DEF DropEnd
  <2> QED BY <1>2, <2>1, IssueKeeps
<1>5. queue' = queue \/ \E m \in Message : m.kind # "Persist" /\ queue' = Append(queue, m)
  <2> DEFINE m == [kind |-> "StampDrop", id |-> prog.spec.id, epoch |-> board.clock + 1]
  <2>1. queue' = queue \/ queue' = Append(queue, m)
    BY DEF DropEnd
  <2>2. prog.spec.id \in Nat /\ board.clock + 1 \in Nat
    <3>1. board.clock \in Nat
      BY <1>2
    <3>2. prog.spec.id \in Nat
      BY <1>2 DEF NsSpec
    <3> QED BY <3>1, <3>2
  <2>3. m \in Message /\ m.kind # "Persist"
    BY <2>2 DEF Message
  <2> HIDE DEF m
  <2> QED BY <2>1, <2>3
<1> QED BY <1>1, <1>3, <1>4, <1>5, AnswersKeep

\* SET changes the value of a namespace, never its id.
LEMMA SetBeginKeeps ==
    ASSUME Inv, NEW c \in Cells, NEW name \in Names, SetBegin(c, name)
    PROVE  Inv'
<1>1. UNCHANGED <<ck, disk, queue, w, meta, ctl, board, gone>>
  BY DEF SetBegin
<1>2. PICK spec \in named(c, name) :
          /\ reg' = [reg EXCEPT ![c] = set_on(c, name, 1 - spec.val)]
          /\ prog' = [Idle EXCEPT !.pc = "set_fan", !.cell = c, !.left = fan_targets(c),
                                  !.spec = [spec EXCEPT !.val = 1 - @]]
  BY DEF SetBegin
<1>3. /\ reg \in [Cells -> SUBSET NsSpec] /\ spec \in NsSpec /\ spec \in reg[c]
      /\ \A d \in Cells : \A s \in reg[d] : s.id < meta.next_id
  BY DEF Inv, TypeOK, IdsBounded, named
<1>4. 1 - spec.val \in {0, 1}
  <2>1. spec.val \in {0, 1}
    BY <1>3 DEF NsSpec
  <2> QED BY <2>1
<1> DEFINE val == 1 - spec.val
           new == [spec EXCEPT !.val = val]
<1>5. new \in NsSpec /\ new.id = spec.id /\ new.id \in Nat /\ new.id < meta.next_id
  BY <1>3, <1>4 DEF NsSpec
<1>6. /\ reg' \in [Cells -> SUBSET NsSpec]
      /\ \A d \in Cells : \A s \in reg'[d] : s.id < meta.next_id
  <2>1. ASSUME NEW s \in set_on(c, name, val)
        PROVE  s \in NsSpec /\ \E o \in reg[c] : s.id = o.id
    <3>1. PICK o \in reg[c] : s = IF o.name = name THEN [o EXCEPT !.val = val] ELSE o
      BY <2>1 DEF set_on
    <3>2. o \in NsSpec
      BY <1>3
    <3> QED BY <1>4, <3>1, <3>2 DEF NsSpec
  <2> QED BY <1>2, <1>3, <2>1
<1>7. prog' \in DdlProgram /\ prog'.spec = new
  <2>1. "set_fan" \in Program_pc /\ fan_targets(c) \subseteq Cells
    BY DEF Program_pc, fan_targets
  <2>2. prog' = [Idle EXCEPT !.pc = "set_fan", !.cell = c, !.left = fan_targets(c), !.spec = new]
    BY <1>2
  <2> HIDE DEF new
  <2> QED BY <1>5, <2>1, <2>2, IdleIsProgram DEF DdlProgram
<1> HIDE DEF new
<1>8. TypeOK'
  BY <1>1, <1>6, <1>7 DEF Inv, TypeOK
<1>9. meta.next_id \in Nat /\ ctl.next_ns_id \in Nat /\ meta.next_id <= ctl.next_ns_id
  BY DEF Inv, TypeOK, IdsBounded
<1>10. IdsBounded'
  BY <1>1, <1>5, <1>6, <1>7, <1>9 DEF Inv, IdsBounded, Residue
<1> QED BY <1>8, <1>10 DEF Inv

\* A persist that changes nothing else: of a SET, or of an index that became ready.
LEMMA ExportKeeps ==
    ASSUME Inv, NEW c \in Cells, send_persist(reg[c], 0, 0, {}, ctl.next_ns_id),
           prog' \in DdlProgram, prog'.spec = prog.spec,
           (prog'.pc = prog.pc /\ prog'.verdict = prog.verdict) \/ prog.spec.id < meta.next_id,
           UNCHANGED <<reg, ck, disk, w, meta, board, gone>>
    PROVE  Inv'
<1>1. /\ reg[c] \in SUBSET NsSpec /\ ctl.next_ns_id \in Nat /\ meta.next_id \in Nat
      /\ meta.next_id <= ctl.next_ns_id /\ \A s \in reg[c] : s.id < meta.next_id
  BY DEF Inv, TypeOK, IdsBounded
<1>2. \A s \in reg[c] : s.id \in Nat
  BY <1>1 DEF NsSpec
<1>3. \A s \in reg[c] \cup {} : s.id < ctl.next_ns_id
  BY <1>1, <1>2
<1>4. /\ queue' \in Seq(Message) /\ QueueBelow(queue', ctl.next_ns_id)
      /\ ctl' \in [next_ns_id : Nat, next_epoch : Nat, persisted : Nat]
      /\ ctl'.next_ns_id = ctl.next_ns_id
  BY <1>1, <1>3, SendKeeps
<1>5. TypeOK'
  BY <1>4 DEF Inv, TypeOK
<1>6. IdsBounded'
  BY <1>1, <1>4 DEF Inv, IdsBounded, Residue
<1> QED BY <1>5, <1>6 DEF Inv

\* SET's persist sends the registry as it is.
LEMMA SetPersistKeeps == Inv /\ SetPersist => Inv'
<1> SUFFICES ASSUME Inv, SetPersist PROVE Inv'
  OBVIOUS
<1>1. UNCHANGED <<reg, ck, disk, w, meta, board, gone>> /\ prog.pc = "set_fan"
  BY DEF SetPersist
<1>2. CASE answer /\ UNCHANGED <<queue, ctl>>
  BY <1>1, <1>2, AnswersKeep DEF Inv, TypeOK, IdsBounded
<1>3. CASE /\ send_persist(reg[prog.cell], 0, 0, {}, ctl.next_ns_id)
           /\ prog' = [prog EXCEPT !.pc = "set_swap", !.epoch = ctl.next_epoch + 1]
  <2>1. /\ prog \in DdlProgram /\ prog.cell \in Cells /\ prog.spec.id < meta.next_id
        /\ ctl.next_epoch \in Nat
    BY <1>1 DEF Inv, TypeOK, IdsBounded, DdlProgram
  <2>2. "set_swap" \in Program_pc /\ ctl.next_epoch + 1 \in Nat
    BY <2>1 DEF Program_pc
  <2>3. prog' \in DdlProgram /\ prog'.spec = prog.spec
    BY <1>3, <2>1, <2>2 DEF DdlProgram
  <2> QED BY <1>1, <1>3, <2>1, <2>3, ExportKeeps
<1> QED BY <1>2, <1>3 DEF SetPersist

\* SET's reply.
LEMMA SetEndKeeps == Inv /\ SetEnd => Inv'
<1> SUFFICES ASSUME Inv, SetEnd PROVE Inv'
  OBVIOUS
<1> QED BY AnswersKeep DEF SetEnd, Inv, TypeOK, IdsBounded

\* An index that became ready sends the registry as it is.
LEMMA IndexFlipKeeps == Inv /\ IndexFlip => Inv'
<1> SUFFICES ASSUME Inv, IndexFlip PROVE Inv'
  OBVIOUS
<1>1. 0 \in Cells
  BY NsAssumption DEF Cells
<1> QED BY <1>1, ExportKeeps DEF IndexFlip, Inv, TypeOK

\* Writes, checkpoints and teardown move ids that the cell serves or already holds.
LEMMA CellStepsKeep ==
    ASSUME Inv, NEW c \in Cells,
           Write(c) \/ Begin(c) \/ CkptWalk(c) \/ Swap(c) \/ maintain_teardown(c)
    PROVE  Inv'
<1>1. UNCHANGED <<reg, prog, queue, w, meta, ctl, gone>>
  BY DEF Write, Begin, CkptWalk, Swap, maintain_teardown
<1>2. /\ ck \in [Cells -> Checkpoint] /\ disk \in [Cells -> CellDisk]
      /\ reg \in [Cells -> SUBSET NsSpec]
      /\ board \in [clock : Nat, request_all : Nat, published : [Cells -> Nat]]
      /\ \A d \in Cells : \A i \in Residue(d) \cup ck[d].refs \cup ck[d].tail : i < meta.next_id
      /\ \A d \in Cells : \A s \in reg[d] : s.id < meta.next_id
  BY DEF Inv, TypeOK, IdsBounded
<1>3. \A i \in TieredIds(c) : i \in Nat /\ i < meta.next_id
  <2>1. \A s \in reg[c] : s.id \in Nat /\ s.id < meta.next_id
    <3>1. reg[c] \subseteq NsSpec
      BY <1>2
    <3> QED BY <1>2, <3>1 DEF NsSpec
  <2> QED BY <2>1 DEF TieredIds
<1>4. board' \in [clock : Nat, request_all : Nat, published : [Cells -> Nat]]
  <2>1. CASE Swap(c)
    <3>1. ck[c].epoch \in Nat /\ board.published[c] \in Nat
      BY <1>2 DEF Checkpoint
    <3>2. Max({board.published[c], ck[c].epoch}) \in Nat
      BY <3>1, MaxOfTwo
    <3>3. board' = [board EXCEPT !.published[c] = Max({board.published[c], ck[c].epoch})]
      BY <2>1 DEF Swap
    <3> QED BY <1>2, <3>2, <3>3
  <2>2. CASE Write(c) \/ Begin(c) \/ CkptWalk(c) \/ maintain_teardown(c)
    BY <1>2, <2>2 DEF Write, Begin, CkptWalk, maintain_teardown
  <2> QED BY <2>1, <2>2
<1> DEFINE B == {i \in Nat : i < meta.next_id}
           BoundCkpt == [phase : {"idle", "begun", "walked"}, epoch : Nat, refs : SUBSET B,
                         tail : SUBSET B]
           BoundDisk == [refs : SUBSET B, sections : SUBSET B, tail : SUBSET B, cold : SUBSET Nat]
<1>5. TieredIds(c) \in SUBSET B /\ B \subseteq Nat
  BY <1>3
<1>6. ck \in [Cells -> BoundCkpt] /\ disk \in [Cells -> BoundDisk]
  <2>1. ASSUME NEW d \in Cells
        PROVE  ck[d] \in BoundCkpt /\ disk[d] \in BoundDisk
    <3>1. ck[d] \in Checkpoint /\ disk[d] \in CellDisk
      BY <1>2
    <3>2. /\ ck[d].refs \subseteq B /\ ck[d].tail \subseteq B
          /\ disk[d].refs \subseteq B /\ disk[d].sections \subseteq B /\ disk[d].tail \subseteq B
      BY <1>2, <3>1 DEF Residue, Checkpoint, CellDisk
    <3> QED BY <3>1, <3>2 DEF Checkpoint, CellDisk
  <2> QED BY <1>2, <2>1
<1> HIDE DEF B
<1>7. ck' \in [Cells -> BoundCkpt] /\ disk' \in [Cells -> BoundDisk]
  <2>1. NoCkpt \in BoundCkpt /\ requested(c) \in Nat /\ ck[c].epoch \in Nat
    BY <1>2, <1>6 DEF NoCkpt, requested
  <2>2. CASE Write(c)
    <3>1. PICK id \in TieredIds(c), filed \in BOOLEAN :
              /\ disk' = [disk EXCEPT ![c].tail = @ \cup {id},
                                      ![c].cold = IF filed THEN @ \cup {id} ELSE @]
              /\ ck' = [ck EXCEPT ![c].tail = IF ck[c].phase = "idle" THEN @ ELSE @ \cup {id}]
      BY <2>2 DEF Write
    <3>2. id \in B /\ id \in Nat
      BY <1>5
    <3>3. ck' \in [Cells -> BoundCkpt]
      <4> DEFINE tail == IF ck[c].phase = "idle" THEN ck[c].tail ELSE ck[c].tail \cup {id}
      <4>1. tail \in SUBSET B
        BY <1>6, <3>2
      <4>2. ck' = [ck EXCEPT ![c] = [ck[c] EXCEPT !.tail = tail]]
        BY <1>6, <3>1
      <4> HIDE DEF tail
      <4> QED BY <1>6, <4>1, <4>2
    <3>4. disk' \in [Cells -> BoundDisk]
      <4> DEFINE cold == IF filed THEN disk[c].cold \cup {id} ELSE disk[c].cold
                 tail == disk[c].tail \cup {id}
      <4>1. cold \in SUBSET Nat /\ tail \in SUBSET B
        BY <1>6, <3>2
      <4>2. disk' = [disk EXCEPT ![c] = [disk[c] EXCEPT !.tail = tail, !.cold = cold]]
        BY <1>6, <3>1
      <4> HIDE DEF tail, cold
      <4> QED BY <1>6, <4>1, <4>2
    <3> QED BY <3>3, <3>4
  <2>3. CASE Begin(c)
    <3>1. /\ disk' = disk
          /\ ck' = [ck EXCEPT ![c] = [NoCkpt EXCEPT !.phase = "begun", !.epoch = requested(c)]]
      BY <2>3 DEF Begin
    <3> QED BY <1>6, <2>1, <3>1
  <2>4. CASE CkptWalk(c)
    <3>1. /\ disk' = disk
          /\ ck' = [ck EXCEPT ![c].phase = "walked", ![c].refs = TieredIds(c) \cap disk[c].cold]
      BY <2>4 DEF CkptWalk
    <3>2. TieredIds(c) \cap disk[c].cold \in SUBSET B
      BY <1>5
    <3> QED BY <1>6, <3>1, <3>2
  <2>5. CASE Swap(c)
    <3>1. /\ disk' = [disk EXCEPT ![c].refs = ck[c].refs, ![c].sections = TieredIds(c),
                                  ![c].tail = ck[c].tail]
          /\ ck' = [ck EXCEPT ![c] = [NoCkpt EXCEPT !.epoch = ck[c].epoch]]
      BY <2>5 DEF Swap
    <3>2. ck[c].refs \in SUBSET B /\ ck[c].tail \in SUBSET B
      BY <1>6
    <3>3. disk' \in [Cells -> BoundDisk]
      <4>1. disk' = [disk EXCEPT ![c] = [disk[c] EXCEPT !.refs = ck[c].refs,
                                             !.sections = TieredIds(c), !.tail = ck[c].tail]]
        BY <1>6, <3>1
      <4>2. [disk[c] EXCEPT !.refs = ck[c].refs, !.sections = TieredIds(c), !.tail = ck[c].tail]
                \in BoundDisk
        BY <1>5, <1>6, <3>2
      <4> QED BY <1>6, <4>1, <4>2
    <3>4. ck' \in [Cells -> BoundCkpt]
      BY <1>6, <2>1, <3>1
    <3> QED BY <3>3, <3>4
  <2>6. CASE maintain_teardown(c)
    <3>1. /\ ck' = ck
          /\ \E i : disk' = [disk EXCEPT ![c].cold = @ \ {i}]
      BY <2>6 DEF maintain_teardown
    <3> QED BY <1>6, <3>1
  <2> QED BY <2>2, <2>3, <2>4, <2>5, <2>6
<1>8. ck' \in [Cells -> Checkpoint] /\ disk' \in [Cells -> CellDisk]
  BY <1>5, <1>7 DEF Checkpoint, CellDisk
<1>9. \A d \in Cells : \A i \in Residue(d)' \cup ck'[d].refs \cup ck'[d].tail : i < meta.next_id
  <2>1. \A d \in Cells : Residue(d)' \cup ck'[d].refs \cup ck'[d].tail \subseteq B
    BY <1>7 DEF Residue
  <2> QED BY <2>1 DEF B
<1>10. TypeOK'
  BY <1>1, <1>4, <1>8 DEF Inv, TypeOK
<1>11. IdsBounded'
  BY <1>1, <1>9 DEF Inv, IdsBounded
<1> QED BY <1>10, <1>11 DEF Inv

\* One message of the control thread.  A swap makes the durable counter that of the
\* allocator, so a spec that gets its verdict lies below it.
LEMMA ControlKeeps == Inv /\ ControlStep => Inv'
<1> SUFFICES ASSUME Inv, ControlStep PROVE Inv'
  OBVIOUS
<1> DEFINE m == Head(queue)
           n == ctl.next_ns_id
<1>1. UNCHANGED <<reg, ck, disk, board, gone>> /\ queue # <<>> /\ queue' = Tail(queue)
  BY DEF ControlStep
<1>2. /\ queue \in Seq(Message) /\ QueueBelow(queue, n) /\ n \in Nat /\ meta.next_id \in Nat
      /\ meta.next_id <= n /\ prog \in DdlProgram /\ w.pending \in SUBSET NsSpec
      /\ w.tombs \in SUBSET [id : Nat, epoch : Nat] /\ prog.spec.id < n
      /\ w \in [pending : SUBSET NsSpec, tombs : SUBSET [id : Nat, epoch : Nat]]
      /\ ctl \in [next_ns_id : Nat, next_epoch : Nat, persisted : Nat]
      /\ \A s \in w.pending : s.id < n
  BY DEF Inv, TypeOK, IdsBounded
<1>3. m \in Message /\ queue' \in Seq(Message)
  BY <1>1, <1>2
<1>4. QueueBelow(queue', n)
  <2>1. ASSUME NEW i \in 1..Len(queue')
        PROVE  i + 1 \in 1..Len(queue) /\ queue'[i] = queue[i + 1]
    BY <1>1, <1>2
  <2> QED BY <1>2, <2>1 DEF QueueBelow
<1>5. CASE m.kind = "Persist"
  <2>1. /\ m.entries \in SUBSET NsSpec /\ m.create \in SUBSET NsSpec /\ m.next_id \in Nat
        /\ m.epoch \in Nat /\ m.drop \in Nat /\ m.dropped \in Nat
    BY <1>3, <1>5 DEF Message
  <2>2. m.next_id <= n /\ \A s \in m.entries \cup m.create : s.id < n
    <3>1. 1 \in 1..Len(queue) /\ m = queue[1]
      BY <1>1, <1>2
    <3> QED BY <1>2, <1>5, <3>1 DEF QueueBelow
  <2>3. /\ w' = writer_after(w, m, min_published)
        /\ meta' = prepare_persist(w, m, ctl.next_ns_id, min_published)
        /\ ctl' = [ctl EXCEPT !.persisted = m.epoch]
        /\ prog' = IF prog.spec \in m.create
                   THEN [prog EXCEPT !.verdict = verdict_of(w, m)] ELSE prog
    BY <1>5 DEF ControlStep
  <2> HIDE DEF m
  <2>4. pending_after(w, m) \subseteq w.pending /\ admitted(w, m) \subseteq m.create
    BY DEF pending_after, retire_pending, admitted
  <2>5. merge(pending_after(w, m), m.entries) \subseteq w.pending \cup m.entries
    BY <2>4 DEF merge
  <2>6. tombs_after(w, m, min_published) \in SUBSET [id : Nat, epoch : Nat]
    <3>1. [id |-> m.drop, epoch |-> Unstamped] \in [id : Nat, epoch : Nat]
      BY <2>1 DEF Unstamped
    <3> QED BY <1>2, <3>1 DEF tombs_after, retire, add
  <2>7. /\ w' \in [pending : SUBSET NsSpec, tombs : SUBSET [id : Nat, epoch : Nat]]
        /\ \A s \in w'.pending : s.id < n
    <3>1. w' = [pending |-> pending_after(w, m) \cup admitted(w, m),
                tombs |-> tombs_after(w, m, min_published)]
      BY <2>3 DEF writer_after
    <3> QED BY <1>2, <2>1, <2>2, <2>4, <2>6, <3>1
  <2>8. /\ meta' \in [next_id : Nat, entries : SUBSET NsSpec, dropped : SUBSET Nat]
        /\ meta'.next_id = n /\ \A s \in meta'.entries : s.id < n
    <3> DEFINE entries == reconcile(tombs_after(w, m, min_published),
                                    merge(pending_after(w, m), m.entries) \cup admitted(w, m))
               dropped == Ids(tombs_after(w, m, min_published))
               next == IF m.next_id > ctl.next_ns_id THEN m.next_id ELSE ctl.next_ns_id
    <3>1. meta' = [next_id |-> next, entries |-> entries, dropped |-> dropped]
      BY <2>3 DEF prepare_persist
    <3>2. entries \subseteq w.pending \cup m.entries \cup m.create
      BY <2>4, <2>5 DEF reconcile
    <3>3. dropped \subseteq Nat
      BY <2>6 DEF Ids
    <3>4. next = n
      BY <1>2, <2>1, <2>2
    <3> HIDE DEF entries, dropped, next
    <3> QED BY <1>2, <2>1, <2>2, <3>1, <3>2, <3>3, <3>4
  <2>9. /\ ctl' \in [next_ns_id : Nat, next_epoch : Nat, persisted : Nat]
        /\ ctl'.next_ns_id = n
    BY <1>2, <2>1, <2>3
  <2>10. prog' \in DdlProgram /\ prog'.spec = prog.spec /\ prog'.pc = prog.pc
    <3>1. verdict_of(w, m) \in SUBSET Verdict
      BY DEF verdict_of, admit, Verdict
    <3> QED BY <1>2, <2>3, <3>1 DEF DdlProgram
  <2>11. TypeOK'
    BY <1>1, <1>3, <2>7, <2>8, <2>9, <2>10 DEF Inv, TypeOK
  <2>12. /\ \A s \in gone' : s.id < n
         /\ \A c \in Cells : \A s \in reg'[c] : s.id < n
         /\ \A c \in Cells : \A i \in Residue(c)' \cup ck'[c].refs \cup ck'[c].tail : i < n
    <3>1. /\ \A s \in gone : s.id \in Nat
          /\ \A c \in Cells : \A s \in reg[c] : s.id \in Nat
      BY IdsAreNumbers DEF Inv
    <3>2. \A c \in Cells : Residue(c) \cup ck[c].refs \cup ck[c].tail \subseteq Nat
      BY DEF Inv, TypeOK, Residue, Checkpoint, CellDisk
    <3>3. \A c \in Cells : Residue(c)' = Residue(c)
      BY <1>1 DEF Residue
    <3> QED BY <1>1, <1>2, <3>1, <3>2, <3>3 DEF Inv, IdsBounded
  <2>13. IdsBounded'
    BY <1>2, <1>4, <2>7, <2>8, <2>9, <2>10, <2>12 DEF IdsBounded
  <2> QED BY <2>11, <2>13 DEF Inv
<1>6. CASE m.kind # "Persist"
  <2>1. UNCHANGED <<meta, ctl, prog>>
    BY <1>3, <1>6 DEF ControlStep, Message
  <2>2. /\ w' \in [pending : SUBSET NsSpec, tombs : SUBSET [id : Nat, epoch : Nat]]
        /\ w'.pending \subseteq w.pending
    <3>1. CASE m.kind = "StampDrop"
      <4>1. w' = [w EXCEPT !.tombs = stamp(@, m.id, m.epoch)]
        BY <3>1 DEF ControlStep
      <4>2. m.id \in Nat /\ m.epoch \in Nat
        BY <1>3, <3>1 DEF Message
      <4> HIDE DEF m
      <4>3. stamp(w.tombs, m.id, m.epoch) \in SUBSET [id : Nat, epoch : Nat]
        BY <1>2, <4>2 DEF stamp
      <4> QED BY <1>2, <4>1, <4>3
    <3>2. CASE m.kind = "CreateApplied"
      <4>1. w' = [w EXCEPT !.pending = retire_pending(@, m.id)]
        BY <3>2 DEF ControlStep
      <4> HIDE DEF m
      <4> QED BY <1>2, <4>1 DEF retire_pending
    <3> QED BY <1>3, <1>6, <3>1, <3>2 DEF Message
  <2>3. TypeOK'
    BY <1>1, <1>3, <2>1, <2>2 DEF Inv, TypeOK
  <2>4. IdsBounded'
    BY <1>1, <1>4, <2>1, <2>2 DEF Inv, IdsBounded, Residue
  <2> QED BY <2>3, <2>4 DEF Inv
<1> QED BY <1>5, <1>6

\* A boot restarts the allocator at the durable counter.
LEMMA CrashKeeps == Inv /\ Crash => Inv'
<1> SUFFICES ASSUME Inv, Crash PROVE Inv'
  OBVIOUS
<1>1. /\ UNCHANGED <<meta, gone>> /\ reg' = [c \in Cells |-> meta.entries]
      /\ ck' = [c \in Cells |-> NoCkpt] /\ prog' = Idle /\ queue' = <<>>
      /\ ctl' = [next_ns_id |-> next_id_at_boot(meta), next_epoch |-> 0, persisted |-> 0]
  BY DEF Crash
<1>2. /\ meta \in [next_id : Nat, entries : SUBSET NsSpec, dropped : SUBSET Nat]
      /\ disk \in [Cells -> CellDisk]
  BY DEF Inv, TypeOK
<1>3. /\ next_id_at_boot(meta) \in Nat /\ next_id_at_boot(meta) > 0
      /\ next_id_at_boot(meta) >= meta.next_id
  <2>1. FIRST_NAMED_NS_ID \in Nat /\ FIRST_NAMED_NS_ID > 0 /\ meta.next_id \in Nat
    BY <1>2, NsAssumption
  <2>2. /\ Max({FIRST_NAMED_NS_ID, meta.next_id}) \in Nat
        /\ Max({FIRST_NAMED_NS_ID, meta.next_id}) >= FIRST_NAMED_NS_ID
        /\ Max({FIRST_NAMED_NS_ID, meta.next_id}) >= meta.next_id
    BY <2>1, MaxOfTwo
  <2> QED BY <2>1, <2>2 DEF next_id_at_boot
<1>4. /\ disk' \in [Cells -> CellDisk]
      /\ \A c \in Cells : /\ disk'[c].refs = disk[c].refs /\ disk'[c].sections = disk[c].sections
                          /\ disk'[c].tail = disk[c].tail
  <2>1. ASSUME NEW c \in Cells
        PROVE  /\ recovered(meta, disk[c]) \in CellDisk
               /\ recovered(meta, disk[c]).refs = disk[c].refs
               /\ recovered(meta, disk[c]).sections = disk[c].sections
               /\ recovered(meta, disk[c]).tail = disk[c].tail
    BY <1>2 DEF recovered, CellDisk
  <2>2. disk' = disk \/ disk' = [c \in Cells |-> recovered(meta, disk[c])]
    BY DEF Crash
  <2> QED BY <1>2, <2>1, <2>2
<1>5. board' \in [clock : Nat, request_all : Nat, published : [Cells -> Nat]]
  BY DEF Crash
<1>6. w' \in [pending : SUBSET NsSpec, tombs : SUBSET [id : Nat, epoch : Nat]] /\ w'.pending = {}
  <2> DEFINE fresh == IF seed(meta.dropped) = {} THEN 0 ELSE 1
  <2>1. w' = [pending |-> {}, tombs |-> stamp_unstamped(seed(meta.dropped), fresh)]
    BY DEF Crash
  <2>2. fresh \in Nat
    OBVIOUS
  <2> HIDE DEF fresh
  <2>3. seed(meta.dropped) \subseteq [id : Nat, epoch : Nat]
    BY <1>2 DEF seed, Unstamped
  <2>4. stamp_unstamped(seed(meta.dropped), fresh) \subseteq [id : Nat, epoch : Nat]
    BY <2>2, <2>3 DEF stamp_unstamped
  <2> QED BY <2>1, <2>4
<1>7. ctl' \in [next_ns_id : Nat, next_epoch : Nat, persisted : Nat]
  BY <1>1, <1>3
<1>8. NoCkpt \in Checkpoint /\ NoCkpt.refs = {} /\ NoCkpt.tail = {}
  BY DEF NoCkpt, Checkpoint
<1>9. TypeOK'
  BY <1>1, <1>2, <1>4, <1>5, <1>6, <1>7, <1>8, IdleIsProgram DEF TypeOK, Inv
<1>10. IdsBounded'
  <2>1. \A c \in Cells : \A i \in Residue(c)' \cup ck'[c].refs \cup ck'[c].tail : i < meta.next_id
    BY <1>1, <1>4, <1>8 DEF Inv, IdsBounded, Residue
  <2>2. QueueBelow(queue', ctl'.next_ns_id)
    BY <1>1 DEF QueueBelow
  <2> QED BY <1>1, <1>2, <1>3, <1>6, <2>1, <2>2, IdleIsProgram DEF Inv, IdsBounded
<1> QED BY <1>9, <1>10 DEF Inv

-----------------------------------------------------------------------------
\* A namespace id is given out once: the allocator stays ahead of every id that a cell
\* serves, a checkpoint or log still holds, or a client was told is gone, through
\* rollbacks, index flips that export an old registry, and crashes between any two steps.
THEOREM NamespaceIdsAreFresh == Spec => []IdsNeverReused
<1>1. Inv /\ [Next]_vars => Inv'
  <2> SUFFICES ASSUME Inv, [Next]_vars PROVE Inv'
    OBVIOUS
  <2>1. CASE Program
    BY <2>1, LegsKeep, CreateApplyKeeps, CreateEndKeeps, DropPacedKeeps, DropEndKeeps,
       SetPersistKeeps, SetEndKeeps DEF Program
  <2>2. CASE ControlStep \/ IndexFlip \/ Crash
    BY <2>2, ControlKeeps, IndexFlipKeeps, CrashKeeps
  <2>3. ASSUME NEW c \in Cells, NEW name \in Names,
               \/ \E mode \in Modes : CreateBegin(c, name, mode)
               \/ DropBegin(c, name) \/ SetBegin(c, name)
        PROVE  Inv'
    BY <2>3, CreateBeginKeeps, DropBeginKeeps, SetBeginKeeps
  <2>4. ASSUME NEW c \in Cells,
               Write(c) \/ CkptStep(c) \/ CkptByGrowth(c) \/ maintain_teardown(c)
        PROVE  Inv'
    BY <2>4, CellStepsKeep DEF CkptStep, CkptRequested, CkptByGrowth
  <2>5. CASE UNCHANGED vars
    BY <2>5 DEF vars, Inv, TypeOK, IdsBounded, Residue
  <2> QED BY <2>1, <2>2, <2>3, <2>4, <2>5 DEF Next
<1>2. Inv => IdsNeverReused
  <2> SUFFICES ASSUME Inv, NEW c \in Cells, NEW i \in Serving(c) \cup Residue(c) \cup Ids(gone)
               PROVE  i < ctl.next_ns_id
    BY DEF IdsNeverReused
  <2>1. meta.next_id \in Nat /\ ctl.next_ns_id \in Nat /\ meta.next_id <= ctl.next_ns_id
    BY DEF Inv, TypeOK, IdsBounded
  <2>2. i < meta.next_id
    BY DEF Inv, IdsBounded, Serving, Ids
  <2>3. i \in Nat
    <3>1. /\ \A s \in gone : s.id \in Nat
          /\ \A s \in reg[c] : s.id \in Nat
      BY IdsAreNumbers DEF Inv
    <3>2. Residue(c) \subseteq Nat
      BY DEF Inv, TypeOK, Residue, CellDisk
    <3> QED BY <3>1, <3>2 DEF Serving, Ids
  <2> QED BY <2>1, <2>2, <2>3
<1> QED BY InitInv, <1>1, <1>2, PTL DEF Spec
===============================================================================
