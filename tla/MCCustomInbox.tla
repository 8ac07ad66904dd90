--------------------------- MODULE MCCustomInbox ---------------------------
(* Small instances of CustomInbox for TLC.                                 *)
EXTENDS CustomInbox, TLC

Runners == Permutations(Runs)
=============================================================================
