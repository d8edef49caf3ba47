---------------------------- MODULE BoundedChannel ----------------------------
(***************************************************************************)
(* What one directed ring of the fabric promises its two cells: a FIFO of  *)
(* at most Capacity items that loses, repeats and reorders nothing.        *)
(***************************************************************************)
EXTENDS Naturals, Sequences

CONSTANT Capacity

VARIABLES
    sent,       \* items 1..sent were published
    received    \* items 1..received were consumed

vars == <<sent, received>>

Init == sent = 0 /\ received = 0

\* A batch becomes visible at once.
Publish == sent' \in sent + 1..received + Capacity /\ UNCHANGED received

Consume == received < sent /\ received' = received + 1 /\ UNCHANGED sent

Next == Publish \/ Consume

Spec == Init /\ [][Next]_vars
===============================================================================
