------------------------- MODULE MCProcessTransport -------------------------
(* Two uses of tools, one with preparation, over a channel of one request. *)
EXTENDS ProcessTransport
CONSTANTS c1, c2
Uses == {c1, c2}
Prepared == {c1}
=============================================================================
