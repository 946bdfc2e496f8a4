--------------------------- MODULE MCConnections ---------------------------
EXTENDS Connections, TLC

\* Processes, and requests, are interchangeable.
Interchangeable == Permutations(Processes) \cup Permutations(Requests)
=============================================================================
