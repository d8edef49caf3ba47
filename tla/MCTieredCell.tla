---------------------------- MODULE MCTieredCell ----------------------------
(***************************************************************************)
(* Workloads of a tiered namespace.  A file of this life seals with the    *)
(* third record placed, so compaction of one that also holds a live record *)
(* takes two keys; the fourth address is where that record goes.           *)
(***************************************************************************)
EXTENDS TieredCell

OneKey ==
    [keys |-> {1}, shadow |-> TRUE, promote |-> TRUE, writes |-> 3, addr |-> 4,
     ckpt |-> 1, fail |-> 0, crash |-> 1]

\* Promotion and shadow writes around a checkpoint and a crash.
OneKeyTwice == [OneKey EXCEPT !.writes = 2]

\* Compaction around a checkpoint and a crash.
TwoKeys == [OneKey EXCEPT !.keys = {1, 2}, !.promote = FALSE]

\* A write, a delete or a promotion between a compaction read and its result.
TwoKeysRacing ==
    [OneKey EXCEPT !.keys = {1, 2}, !.writes = 4, !.ckpt = 0, !.crash = 0]

CellWorkloads == {OneKeyTwice, TwoKeys, TwoKeysRacing}

MovesWorkloads ==
    {OneKey, [OneKeyTwice EXCEPT !.fail = 1], [TwoKeys EXCEPT !.shadow = FALSE], TwoKeysRacing}

StaleTwinWorkloads == {[OneKey EXCEPT !.promote = FALSE]}
=============================================================================
