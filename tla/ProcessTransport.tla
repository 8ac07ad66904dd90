-------------------------- MODULE ProcessTransport --------------------------
(***************************************************************************)
(* The connection to a process extension (aicoder-runtime/src/             *)
(* process_extensions/transport.rs, tools.rs): callers put requests into a *)
(* bounded channel, one OS thread sends them one at a time over the pipes  *)
(* of a child process and matches the answers; callers time out, are       *)
(* dropped, and drop the plans they hold; anything unexpected closes the   *)
(* connection and kills the process group.  An initialized connection,     *)
(* without the MCP profile.                                                *)
(***************************************************************************)
EXTENDS Naturals, Sequences, FiniteSets

CONSTANTS
  Clients,    \* uses of a tool, each by a task of its own
  Planned,    \* those of a tool with preparation
  MaxQueued   \* capacity of the channel
ASSUME TransportAssumption == Planned \subseteq Clients /\ MaxQueued \in Nat \ {0}

Nobody == <<>>
Work == Clients \X {"prepare", "execute", "commit", "dispose"}

VARIABLES
  \* callers
  pc,       \* "start", "sending", "waiting", "leaves queued", "leaves taken",
            \* "holding" (a plan), "over"
  request,  \* client -> the request it is making
  result,   \* "none", "ok", "maybe" (may_have_executed), "unexecuted", "cancelled"
  \* shared
  state,    \* work -> "none", "queued", "active", "completed" or "abandoned"
  reply,    \* work -> what its channel holds
  late,     \* work whose deadline has passed
  queue,    \* the channel
  closing,  \* close has been called
  refusing, \* ProcessDiagnostics::closed: no request is made any more
  \* the worker thread
  worker,   \* "take", "read", "write", "cleanup", "closed" or "done"
  active,   \* the work it is sending or waiting for, or Nobody
  sent,     \* how much of it: "none", "part" or "full"
  \* the process
  peer,     \* "alive" or "dead"
  output,   \* <<>>, or a line it has written: <<work, outcome>>
  handled,  \* it has acted on the active request
  plans,    \* clients whose plan it holds
  ran       \* clients whose operation it has run

callers == <<pc, request, result>>
shared == <<state, reply, late, queue, closing, refusing>>
thread == <<worker, active, sent>>
open == <<closing, refusing, peer, plans>>
process == <<peer, output, handled, plans, ran>>
vars == <<callers, shared, thread, process>>

Init ==
  /\ pc = [c \in Clients |-> "start"] /\ request = [c \in Clients |-> Nobody]
  /\ result = [c \in Clients |-> "none"]
  /\ state = [w \in Work |-> "none"] /\ reply = [w \in Work |-> "none"]
  /\ late = {} /\ queue = <<>>
  /\ closing = FALSE /\ refusing = FALSE
  /\ worker = "take" /\ active = Nobody /\ sent = "none"
  /\ peer = "alive" /\ output = <<>> /\ handled = FALSE /\ plans = {} /\ ran = {}

Executes_CallOnly(w) == w[2] = "execute"
Executes(w) == w[2] \in {"execute", "commit"}

-----------------------------------------------------------------------------
(* The end of a call, in the caller's task                                 *)

\* close stores `closing` first; the rest of it follows in Refuse and Kill.
Close == closing' = TRUE /\ UNCHANGED <<refusing, peer, plans>>

\* The caller is done with `now` as the states of the work.  Its plan, unless
\* it is used up, is disposed of: queued, or the connection is closed.
End(c, now, breaks, disposes) ==
  LET w == <<c, "dispose">>
      full == Len(queue) >= MaxQueued
      queues == disposes /\ ~breaks /\ ~closing /\ ~refusing /\ ~full
  IN /\ state' = IF queues THEN [now EXCEPT ![w] = "queued"] ELSE now
     /\ queue' = IF queues THEN Append(queue, w) ELSE queue
     /\ IF breaks \/ (disposes /\ ~closing /\ ~queues)
        THEN Close ELSE UNCHANGED open

\* The call of c returns with outcome r: a prepared plan is held, all else ends
\* the use of the tool.
Leave(c, now, breaks, r) ==
  LET w == request[c]
      holds == w[2] = "prepare" /\ r = "ok"
  IN /\ pc' = [pc EXCEPT ![c] = IF holds THEN "holding" ELSE "over"]
     /\ result' = IF holds THEN result ELSE [result EXCEPT ![c] = r]
     /\ End(c, now, breaks, w[2] = "commit" /\ r # "ok")

\* RequestGuard::abort.
Aborted(w) == [state EXCEPT ![w] = IF @ \in {"queued", "active"} THEN "abandoned" ELSE @]
Breaks_ActiveOnly(w) == state[w] = "active"
Breaks(w) == state[w] = "active" \/ (state[w] = "completed" /\ w[2] = "prepare")

-----------------------------------------------------------------------------
(* Callers                                                                 *)

\* work: a connection known to be closed takes no request.
Call(c) ==
  /\ \/ pc[c] = "start" /\ request' = [request EXCEPT ![c] = <<c, IF c \in Planned THEN "prepare" ELSE "execute">>]
     \/ pc[c] = "holding" /\ request' = [request EXCEPT ![c] = <<c, "commit">>]
  /\ pc' = [pc EXCEPT ![c] = "sending"]
  /\ ~refusing
  /\ UNCHANGED <<result, shared, thread, process>>

Refused(c) ==
  /\ pc[c] \in {"start", "holding"} /\ refusing
  /\ pc' = [pc EXCEPT ![c] = "over"] /\ result' = [result EXCEPT ![c] = "unexecuted"]
  /\ End(c, state, FALSE, pc[c] = "holding")
  /\ UNCHANGED <<request, reply, late, thread, output, handled, ran>>

\* try_send: full is Busy, a channel without its worker is Closed.
Send(c) ==
  LET w == request[c] IN
  /\ pc[c] = "sending"
  /\ IF Len(queue) < MaxQueued /\ worker # "done"
     THEN /\ queue' = Append(queue, w) /\ state' = [state EXCEPT ![w] = "queued"]
          /\ pc' = [pc EXCEPT ![c] = "waiting"] /\ UNCHANGED <<result, open>>
     ELSE Leave(c, state, FALSE, "unexecuted")
  /\ UNCHANGED <<request, reply, late, thread, output, handled, ran>>

\* What the caller makes of a reply; a channel dropped without one says whether
\* the request had left the queue.
Outcome(w) ==
  CASE reply[w] = "ok" -> "ok"
    [] reply[w] \in {"remote", "failed", "bad"} /\ Executes(w) -> "maybe"
    [] reply[w] = "dropped" /\ Executes(w) /\ state[w] # "queued" -> "maybe"
    [] OTHER -> "unexecuted"

\* The reply arrives, and its channel is gone; one that cannot be decoded closes
\* the connection.
Receive(c) ==
  LET w == request[c] IN
  /\ pc[c] = "waiting" /\ reply[w] # "none"
  /\ Leave(c, IF reply[w] = "dropped" THEN Aborted(w) ELSE state,
           reply[w] = "bad" \/ (reply[w] = "dropped" /\ Breaks(w)), Outcome(w))
  /\ reply' = [reply EXCEPT ![w] = "none"]
  /\ UNCHANGED <<request, late, thread, output, handled, ran>>

\* The caller's timer, not before the deadline of the work.  It looks whether
\* the work is still queued,
Timer(c) ==
  LET w == request[c] IN
  /\ pc[c] = "waiting" /\ reply[w] = "none" /\ w \in late
  /\ pc' = [pc EXCEPT ![c] = IF state[w] = "queued" THEN "leaves queued" ELSE "leaves taken"]
  /\ UNCHANGED <<request, result, shared, thread, process>>

\* and then withdraws it.
GiveUp(c) ==
  LET w == request[c] IN
  /\ pc[c] \in {"leaves queued", "leaves taken"}
  /\ Leave(c, Aborted(w), Breaks(w), IF Executes(w) /\ pc[c] = "leaves taken" THEN "maybe" ELSE "unexecuted")
  /\ reply' = [reply EXCEPT ![w] = "none"]
  /\ UNCHANGED <<request, late, thread, output, handled, ran>>

\* The task is dropped: RequestGuard::drop while it waits, RemotePlan::drop.
Cancel(c) ==
  LET w == request[c] IN
  /\ pc[c] \in {"waiting", "holding"}
  /\ pc' = [pc EXCEPT ![c] = "over"] /\ result' = [result EXCEPT ![c] = "cancelled"]
  /\ IF pc[c] = "waiting" THEN End(c, Aborted(w), Breaks(w), w[2] = "commit")
                          ELSE End(c, state, FALSE, TRUE)
  /\ reply' = [reply EXCEPT ![w] = "none"]
  /\ UNCHANGED <<request, late, thread, output, handled, ran>>

Shutdown == Close /\ UNCHANGED <<callers, state, reply, late, queue, thread, output, handled, ran>>

\* What whoever called close does after its store: the report, and the kill, with
\* which the plans die.
Refuse ==
  /\ closing /\ ~refusing /\ refusing' = TRUE
  /\ UNCHANGED <<callers, state, reply, late, queue, closing, thread, process>>

Kill ==
  /\ closing /\ refusing /\ peer = "alive"
  /\ peer' = "dead" /\ plans' = {}
  /\ UNCHANGED <<callers, shared, thread, output, handled, ran>>

Expire(w) ==
  /\ state[w] \in {"queued", "active"} /\ w \notin late
  /\ late' = late \cup {w}
  /\ UNCHANGED <<callers, state, reply, queue, closing, refusing, thread, process>>

-----------------------------------------------------------------------------
(* The worker thread: drive's loop, one part of an iteration per step      *)

\* What is sent to a caller that has gone is lost.
Reply(works, outcome) ==
  [w \in Work |-> IF w \in works /\ pc[w[1]] = "waiting" /\ request[w[1]] = w THEN outcome ELSE reply[w]]

Stop == Close /\ worker' = "cleanup"

\* The worker saw the process exit: it reads what is left, sends nothing more.
Exiting == refusing /\ ~closing

Taken(w) ==
  /\ active' = w /\ sent' = "none" /\ handled' = FALSE /\ worker' = "read"
  /\ state' = [state EXCEPT ![w] = "active"] /\ UNCHANGED <<reply, open>>

\* finish_error: the deadline passed in the queue.
Overdue(w) ==
  /\ state' = [state EXCEPT ![w] = "completed"]
  /\ reply' = Reply({w}, "unsent")
  /\ IF w[2] = "dispose" THEN Stop ELSE UNCHANGED <<worker, open>>
  /\ UNCHANGED <<active, sent, handled>>

Skipped(w) == UNCHANGED <<state, reply, open, worker, active, sent, handled>>

Dispatch(w) ==
  IF state[w] # "queued" THEN Skipped(w) ELSE IF w \in late THEN Overdue(w) ELSE Taken(w)

Take ==
  /\ worker = "take"
  /\ IF closing \/ Exiting \/ active # Nobody \/ queue = <<>>
     THEN /\ worker' = IF closing THEN "cleanup" ELSE "read"
          /\ UNCHANGED <<state, reply, queue, open, active, sent, handled>>
     ELSE queue' = Tail(queue) /\ Dispatch(Head(queue))
  /\ UNCHANGED <<callers, late, output, ran>>

\* response, for the answer to the active work.
Answered(w, outcome) ==
  /\ active' = Nobody /\ sent' = "none" /\ handled' = FALSE
  /\ IF state[w] = "active"
     THEN /\ state' = [state EXCEPT ![w] = "completed"]
          /\ reply' = Reply({w}, outcome) /\ UNCHANGED <<open, worker>>
     ELSE Stop /\ UNCHANGED <<state, reply>>

Expected == active # Nobody /\ output[1] = active /\ sent = "full"
Unconfirmed(w, outcome) == w[2] = "dispose" /\ outcome # "ok"

Read ==
  /\ worker = "read" /\ output' = <<>>
  /\ IF output = <<>>
     THEN /\ IF peer = "dead" \/ closing THEN Stop
             ELSE worker' = "write" /\ UNCHANGED open
          /\ UNCHANGED <<state, reply, active, sent, handled>>
     ELSE IF closing \/ ~Expected \/ Unconfirmed(output[1], output[2])
     THEN Stop /\ UNCHANGED <<state, reply, active, sent, handled>>
     ELSE Answered(output[1], output[2])
  /\ UNCHANGED <<callers, late, queue, ran>>

\* The deadline of the active work, then its bytes, for which the pipe of a dead
\* process is broken; last a look at the process, which may be too early to see
\* its exit.
Write ==
  /\ worker = "write"
  /\ IF active # Nobody /\ (active \in late \/ (sent # "full" /\ peer = "dead" /\ ~Exiting))
     THEN Stop /\ UNCHANGED sent
     ELSE /\ worker' = "take"
          /\ sent' \in IF active = Nobody \/ sent = "full" \/ Exiting
                      THEN {sent} ELSE {sent, "part", "full"}
          /\ refusing' \in {refusing, refusing \/ peer = "dead"}
          /\ UNCHANGED <<closing, peer, plans>>
  /\ UNCHANGED <<callers, state, reply, late, queue, active, output, handled, ran>>

\* worker after drive: close and kill; what is active or queued gets its error,
Cleanup ==
  /\ worker = "cleanup" /\ worker' = "closed"
  /\ LET queued == {queue[i] : i \in DOMAIN queue}
         failed == IF active = Nobody THEN {} ELSE {active}
         told == IF sent = "none" THEN "unsent" ELSE "failed"
     IN /\ state' = [w \in Work |-> IF w \in queued \cup failed THEN "completed" ELSE state[w]]
        /\ reply' = [w \in Work |-> IF w \in failed THEN Reply(failed, told)[w] ELSE Reply(queued, "unsent")[w]]
  /\ queue' = <<>> /\ active' = Nobody /\ sent' = "none" /\ handled' = FALSE /\ output' = <<>>
  /\ refusing' = TRUE /\ peer' = "dead" /\ plans' = {}
  /\ UNCHANGED <<callers, late, closing, ran>>

\* and what was queued after that goes with the channel.
Done ==
  /\ worker = "closed" /\ worker' = "done"
  /\ reply' = Reply({queue[i] : i \in DOMAIN queue}, "dropped")
  /\ queue' = <<>>
  /\ UNCHANGED <<callers, state, late, closing, refusing, active, sent, process>>

Worker == Take \/ Read \/ Write \/ Cleanup \/ Done

-----------------------------------------------------------------------------
(* The process                                                             *)

\* It acts on a request it has whole, and answers or never does.  A failed
\* commit may have run and may have kept the plan.
Act ==
  /\ peer = "alive" /\ active # Nobody /\ sent = "full" /\ ~handled
  /\ handled' = TRUE
  /\ \E outcome \in {"ok", "remote", "bad"} :
       LET c == active[1]
           answer == <<active, outcome>>
       IN /\ output' \in {output} \cup {l \in {answer} : output = <<>>}
          /\ CASE active[2] = "prepare" ->
                    plans' = plans \cup {d \in {c} : outcome # "remote"} /\ UNCHANGED ran
               [] active[2] = "dispose" ->
                    plans' = plans \ {d \in {c} : outcome = "ok"} /\ UNCHANGED ran
               [] active[2] \in {"execute", "commit"} /\ outcome = "remote" ->
                    plans' \in {plans, plans \ {c}} /\ ran' \in {ran, ran \cup {c}}
               [] OTHER -> plans' = plans \ {c} /\ ran' = ran \cup {c}
  /\ UNCHANGED <<callers, shared, thread, peer>>

\* A line nobody asked for, or one that is too long.
Babble ==
  /\ peer = "alive" /\ output = <<>> /\ output' = <<Nobody, "babble">>
  /\ UNCHANGED <<callers, shared, thread, peer, handled, plans, ran>>

ExitByItself ==
  /\ peer = "alive" /\ peer' = "dead" /\ plans' = {}
  /\ UNCHANGED <<callers, shared, thread, output, handled, ran>>

Caller(c) == Call(c) \/ Refused(c) \/ Send(c) \/ Receive(c) \/ Timer(c) \/ GiveUp(c) \/ Cancel(c)
Next ==
  \/ Shutdown \/ Refuse \/ Kill \/ Worker \/ Act \/ Babble \/ ExitByItself
  \/ \E c \in Clients : Caller(c)
  \/ \E w \in Work : Expire(w)
Spec == Init /\ [][Next]_vars

\* The worker is a thread, and deadlines pass; callers and the process owe
\* nothing, nor does whoever called close: the worker kills, too.
FairSpec == Spec /\ WF_vars(Worker) /\ WF_vars(\E w \in Work : Expire(w))

-----------------------------------------------------------------------------
(* Properties                                                              *)

\* What a caller is told of the execution is true, whenever it is told: an
\* operation reported as not executed has not run and never will, one reported
\* as done has run (transport.rs:437-459, 530-570).
ExecutionReported ==
  \A c \in Clients : /\ result[c] = "unexecuted" => c \notin ran
                     /\ result[c] = "ok" => c \in ran

\* A plan whose use is over, however it ended, is not left in the process: it
\* is disposed of or the process is killed (transport.rs:183-194,
\* tools.rs:336-344).
PlansReclaimed ==
  \A c \in Planned : pc[c] = "over" ~> c \notin plans
=============================================================================
