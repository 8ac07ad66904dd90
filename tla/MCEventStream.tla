--------------------------- MODULE MCEventStream ---------------------------
(* Small instances of EventStream for TLC.                                 *)
EXTENDS EventStream

Narrow == [events |-> 2, bytes |-> 3]
OneNarrow == <<Narrow, Narrow>>
=============================================================================
