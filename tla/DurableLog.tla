------------------------------ MODULE DurableLog ------------------------------
(***************************************************************************)
(* What a cell's durable plane promises its clients, without frames,       *)
(* segments, syncs or device: records get consecutive sequence numbers, a  *)
(* prefix of them survives a power cut, and only records of that prefix    *)
(* are acknowledged.                                                       *)
(***************************************************************************)
EXTENDS Integers

VARIABLES
    staged,     \* last sequence number handed out
    durable,    \* records 1..durable survive a power cut now
    acked       \* records 1..acked are acknowledged

vars == <<staged, durable, acked>>

Init == staged = 0 /\ durable = 0 /\ acked = 0

Append ==
    /\ staged' = staged + 1
    /\ UNCHANGED <<durable, acked>>

\* The surviving prefix grows, and acks follow it, never overtaking it.
Commit ==
    /\ durable' \in durable..staged
    /\ acked' \in acked..durable'
    /\ UNCHANGED staged

Next == Append \/ Commit

Spec == Init /\ [][Next]_vars

\* An acknowledged record survives a power cut, and only staged ones exist.
AcksAreDurable == acked <= durable /\ durable <= staged
===============================================================================
