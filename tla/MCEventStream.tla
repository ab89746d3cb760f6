--------------------------- MODULE MCEventStream ---------------------------
(* Names for the observers of EventStream. *)
EXTENDS EventStream

CONSTANTS s1, c1
=============================================================================
