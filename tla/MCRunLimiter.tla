---------------------------- MODULE MCRunLimiter ----------------------------
(* Small instances of RunLimiter for TLC.                                  *)
EXTENDS RunLimiter
=============================================================================
