-------------------------- MODULE MCMutationQueue --------------------------
(* MutationQueue on small sets.  Messages and both values are interchangeable. *)
EXTENDS MutationQueue, TLC

CONSTANTS m1, m2, w1, unread, read

OneMessage == {m1}
MessagePair == {m1, m2}
OneWorker == {w1}

\* isRead
Flags == {unread, read}
OneFlag == {read}

Interchangeable == Permutations(MessagePair) \cup Permutations(Flags)
=============================================================================
