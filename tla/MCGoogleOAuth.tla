--------------------------- MODULE MCGoogleOAuth ---------------------------
EXTENDS GoogleOAuth, TLC

\* Nothing tells the members of these sets apart, and no property of the run is a liveness one.
Interchangeable ==
  Permutations(Identities) \cup Permutations(Connections) \cup Permutations(Attempts) \cup Permutations(Callbacks)
=============================================================================
