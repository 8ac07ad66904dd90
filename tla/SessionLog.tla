----------------------------- MODULE SessionLog -----------------------------
(***************************************************************************)
(* What the session repository promises its clients (docs/sessions.md): a  *)
(* session is one log of transactions.  A client appends to the log it has *)
(* seen and to no other; what it has been told is committed survives every *)
(* crash and power loss; an unacknowledged end of the log may disappear,   *)
(* and an unacknowledged deletion may be undone, only with the power.      *)
(*                                                                         *)
(* Abstract specification; SessionStore implements it with a file.         *)
(***************************************************************************)
EXTENDS Naturals, Sequences

CONSTANT Handles  \* the open views of the session, each in a process

VARIABLES
  log,    \* the transactions a reader of the session finds
  acked,  \* the transactions whose commit has returned with success
  seen,   \* handle -> {the log it works on}, {} while it has none
  gone    \* deleted: "no", "removed" (but a power loss may undo it), "forever"

vars == <<log, acked, seen, gone>>

Init == log = <<>> /\ acked = <<>> /\ seen = [h \in Handles |-> {}] /\ gone = "no"

Open(h) == gone = "no" /\ seen' = [seen EXCEPT ![h] = {log}] /\ UNCHANGED <<log, acked, gone>>
Close(h) == seen' = [seen EXCEPT ![h] = {}] /\ UNCHANGED <<log, acked, gone>>

\* after is before and one transaction of h.
OneMore(before, after, h) ==
  /\ Len(after) = Len(before) + 1
  /\ SubSeq(after, 1, Len(before)) = before
  /\ after[Len(after)][1] = h

Commit(h) ==
  /\ gone = "no" /\ seen[h] = {log} /\ OneMore(log, log', h)
  /\ UNCHANGED <<acked, seen, gone>>

\* A handle is told that the log it has seen, or its own transaction on top of
\* it, is committed.
Acknowledge(h) ==
  /\ gone = "no"
  /\ \E base \in seen[h] : log = base \/ OneMore(base, log, h)
  /\ acked' = log /\ seen' = [seen EXCEPT ![h] = {log}]
  /\ UNCHANGED <<log, gone>>

Delete == gone = "no" /\ gone' = "removed" /\ UNCHANGED <<log, acked, seen>>
Forget ==
  /\ gone = "removed" /\ gone' = "forever"
  /\ log' = <<>> /\ acked' = <<>> /\ UNCHANGED seen

PowerLoss ==
  /\ gone # "forever" /\ gone' = "no"
  /\ \E kept \in Len(acked)..Len(log) : log' = SubSeq(log, 1, kept)
  /\ seen' = [h \in Handles |-> {}] /\ UNCHANGED acked

Next ==
  \/ Delete \/ Forget \/ PowerLoss
  \/ \E h \in Handles : Open(h) \/ Close(h) \/ Commit(h) \/ Acknowledge(h)
Spec == Init /\ [][Next]_vars
=============================================================================
