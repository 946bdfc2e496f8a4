---------------------------- MODULE MCSendQueue ----------------------------
(* SendQueue on small sets.  Workers and callers are interchangeable.      *)
EXTENDS SendQueue, TLC

CONSTANTS d1, c1, c2, k1, k2, w1, w2

OneDraft == {d1}
OneCaller == {c1}
CallerPair == {c1, c2}
KeyPair == {k1, k2}
WorkerPair == {w1, w2}

Interchangeable == Permutations(CallerPair) \cup Permutations(WorkerPair)
=============================================================================
