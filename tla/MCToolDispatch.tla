--------------------------- MODULE MCToolDispatch ---------------------------
(* Small instances of ToolDispatch for TLC.                                *)
EXTENDS ToolDispatch

\* Two paid lookups side by side, then an edit.
Round == <<"classify", "classify", "edit">>
Hooks == {{}, {"interception", "message"}}
=============================================================================
