--------------------------- MODULE MCTurnExecutor ---------------------------
(* Small instances of TurnExecutor for TLC.                                *)
EXTENDS TurnExecutor

PlainInputs == {<<"Steer", FALSE>>}
ContextInputs == {<<"Context", TRUE>>}
=============================================================================
