--------------------------- MODULE MCSessionStore ---------------------------
(* Two processes with a view each of one session.                          *)
EXTENDS SessionStore
CONSTANTS h1, h2
Processes == {h1, h2}
=============================================================================
