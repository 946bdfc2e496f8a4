--------------------------- MODULE MCEventStream ---------------------------
(* EventStream with a retention and a page of few events. *)
EXTENDS EventStream
=============================================================================
