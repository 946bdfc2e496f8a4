---------------------------- MODULE MCZeroSweep ----------------------------
(* ZeroSweep on a conversation of two messages and two of a single message, *)
(* beside the action of another client.                                     *)
EXTENDS ZeroSweep

CONSTANTS m1, m2, m3, m4, z1, a1

Inbox == <<<<m1, m2>>, <<m3>>, <<m4>>>>
InboxMembers == {m1, m2, m3, m4}
Contested == {m2}
Requests == {[done |-> "open", until |-> 1, checked |-> TRUE], [done |-> "keep", until |-> 0, checked |-> FALSE]}
OneSweep == {z1}
SweepReceipts == OneSweep \X (1..3)
BothActions == SweepReceipts \cup {<<a1, 1>>}
=============================================================================
