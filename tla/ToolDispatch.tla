---------------------------- MODULE ToolDispatch ----------------------------
(***************************************************************************)
(* A round's tool calls: tools/dispatcher.rs of src/crates/aicoder-core/   *)
(* src (dispatch_captured and what it calls), the session's permissions    *)
(* (tools/approval_sessions.rs) and the checkpoints of the results         *)
(* (session/journal.rs).                                                   *)
(*                                                                         *)
(* Neighbouring calls of parallel-safe tools run side by side, whatever    *)
(* their capability; every other call runs alone. Hosts cancel, steer,     *)
(* answer and revoke from other threads, so each lock and each look at the *)
(* run's controls is a step of its own. A session journal answers within   *)
(* one poll: keeping a result and checkpointing it is one step.            *)
(***************************************************************************)
EXTENDS Naturals, Sequences, FiniteSets

CONSTANTS
  ToolOf,     \* the tool that each call of the round names, in call order
  Parallel,   \* tools that are parallel_safe
  Guarded,    \* tools whose capability is not ReadOnly
  MaxGrants,  \* ApprovalCacheLimits::max_grants_per_session
  HookSets,   \* the sets of hooks a host may have installed
  MaxEpoch    \* the last epoch: u64::MAX in the code

ASSUME DispatchAssumption ==
  /\ ToolOf \in Seq(STRING) /\ ToolOf # <<>>
  /\ HookSets \subseteq SUBSET {"interception", "message"}
  /\ MaxGrants \in Nat \ {0} /\ MaxEpoch \in Nat

Calls == DOMAIN ToolOf

VARIABLES
  hooks,      \* the hooks the host installed: "interception", "message"
  pc,         \* where each call is
  ticket,     \* ApprovalTicket: the epoch of each call's question
  cached,     \* calls whose question a session grant answers
  answer,     \* what the handler or the host decided, "none" so far
  woken,      \* sleeping questions that were notified
  epoch, closed, grants,  \* SessionState; a grant is known by its tool
  steering,   \* a steering input is pending
  cancelled,  \* the run's context is cancelled
  child,      \* the dispatch's child context is cancelled on its own
  capture,    \* DispatchCapture.0: "none", "original" or "final" per call
  saved,      \* the journal's checkpoint of each call, likewise
  broken,     \* the journal latched a failure
  lost,       \* DispatchCapture.1: a result could not be checkpointed
  result,     \* what dispatch_captured returned: "none", "ok", "err"
  withdrawn,  \* history: calls under way that were stopped before their last
              \* look at the reason
  expired     \* history: calls stopped while their question was still open

session == <<epoch, closed, grants>>
controls == <<steering, cancelled>>
record == <<capture, saved, broken, lost, child>>
question == <<ticket, cached, answer>>
history == <<withdrawn, expired>>
vars == <<hooks, pc, question, woken, session, controls, record, result,
          history>>

Stopped == cancelled \/ child
Stages == {"idle", "preparing", "prepared", "ticketing", "looking", "asked",
           "asking", "answered", "deciding", "recording", "checking",
           "comparing", "admitting", "starting", "executing", "transforming",
           "message", "finalizing", "done", "error"}
Ended(c) == pc[c] \in {"done", "error"}

\* Calls that have not yet taken their last look at the ticket, at the pending
\* steering, or at the cancellation; and those whose question is still open.
At(stages) == {c \in Calls : pc[c] \in stages}
GuardedCalls == {c \in Calls : ToolOf[c] \in Guarded}
Unticketed == GuardedCalls \cap At({"idle", "preparing", "prepared", "ticketing"})
Unanswered == At({"looking", "asked", "asking", "answered"})
Unadmitted == GuardedCalls \cap (Unanswered \cup At({"deciding", "recording", "checking"}))
Comparing == GuardedCalls \cap At({"comparing"})
Unstarted == Unanswered \cup
  At({"idle", "preparing", "prepared", "ticketing", "deciding", "recording",
      "checking", "comparing", "admitting", "starting"})

\* Every wait for an answer is notified.
WakeQuestions == woken' = woken \cup At({"asking"})

\* What cancelling the context of the calls does to all but the one that leaves.
Interrupted(leaving) ==
  /\ WakeQuestions
  /\ withdrawn' = (withdrawn \cup Unstarted) \ leaving
  /\ expired' = (expired \cup Unanswered) \ leaving

(***************************************************************************)
(* ApprovalSession                                                         *)
(***************************************************************************)
Stale(c) == closed \/ epoch # ticket[c]

Bump == IF epoch < MaxEpoch THEN epoch' = epoch + 1 /\ closed' = closed
                            ELSE epoch' = epoch /\ closed' = TRUE

\* notify_waiters() after the epoch moved: questions on the old one expire, and a
\* closed session hands out no ticket. At the last epoch only `closed` changes,
\* which a call that compares epochs has looked at before.
Overtaken ==
  Unadmitted \cup (IF closed' THEN Unticketed ELSE {})
             \cup (IF epoch' # epoch THEN Comparing ELSE {})
Invalidated_Silently ==
  /\ withdrawn' = withdrawn \cup Overtaken
  /\ expired' = expired \cup Unanswered \cup At({"deciding"})
  /\ UNCHANGED <<hooks, pc, question, woken, controls, record, result>>
Invalidated ==
  /\ WakeQuestions
  /\ withdrawn' = withdrawn \cup Overtaken
  /\ expired' = expired \cup Unanswered \cup At({"deciding"})
  /\ UNCHANGED <<hooks, pc, question, controls, record, result>>

\* revoke(id): one grant goes, and no question of before survives it.
Revoke(tool) ==
  /\ tool \in grants
  /\ grants' = grants \ {tool}
  /\ Bump
  /\ Invalidated

RevokeAll ==
  /\ grants # {} \/ Unadmitted \cup Comparing # {}
  /\ grants' = {}
  /\ Bump
  /\ Invalidated

\* close(), by remove, clear or the eviction of the cache: nothing that has no
\* ticket yet gets one.
Close ==
  /\ ~closed
  /\ grants' = {}
  /\ closed' = TRUE
  /\ epoch' = IF epoch < MaxEpoch THEN epoch + 1 ELSE epoch
  /\ Invalidated

(***************************************************************************)
(* The run's controls and the approving host                               *)
(***************************************************************************)
HostStep == UNCHANGED <<hooks, pc, session, record, result>>

Steer ==
  /\ ~steering
  /\ steering' = TRUE
  /\ WakeQuestions
  /\ withdrawn' = withdrawn \cup (Unstarted \ At({"starting"}))
  /\ expired' = expired \cup Unanswered
  /\ HostStep /\ UNCHANGED <<cancelled, question>>

Cancel ==
  /\ ~cancelled
  /\ cancelled' = TRUE
  /\ Interrupted({})
  /\ HostStep /\ UNCHANGED <<steering, question>>

\* ApprovalHandler::decide or respond_approval_decision; a handler may fail.
Answer(c, decision) ==
  /\ pc[c] = "asking" /\ answer[c] = "none"
  /\ answer' = [answer EXCEPT ![c] = decision]
  /\ woken' = woken \cup {c}
  /\ HostStep /\ UNCHANGED <<controls, ticket, cached, history>>

(***************************************************************************)
(* execute_call                                                            *)
(***************************************************************************)
\* What belongs to the question is dropped with it.
Questioned == {"looking", "asked", "asking", "answered", "deciding", "recording",
               "checking", "comparing"}
Forget(c) ==
  /\ ticket' = [ticket EXCEPT ![c] = 0]
  /\ answer' = [answer EXCEPT ![c] = "none"]
  /\ cached' = cached \ {c}
Move(c, stage) ==
  /\ pc' = [pc EXCEPT ![c] = stage]
  /\ IF stage \in Questioned THEN UNCHANGED question ELSE Forget(c)
Goto(c, stage) ==
  /\ Move(c, stage)
  /\ IF stage \in {"message", "error"}
       THEN withdrawn' = withdrawn \ {c} /\ expired' = expired \ {c}
       ELSE UNCHANGED history
TaskStep == UNCHANGED <<hooks, woken, controls, record, result>>
Plain == TaskStep /\ UNCHANGED session

\* The batches of dispatch_inner: maximal runs of parallel-safe calls, or one.
SameBatch(c, d) == c = d \/ \A e \in Calls :
  (c <= e /\ e <= d) \/ (d <= e /\ e <= c) => ToolOf[e] \in Parallel
Turn(c) == /\ result = "none"
           /\ \A d \in Calls : d < c /\ ~SameBatch(c, d) => pc[d] = "done"

\* execute_recorded and the head of execute_call.
Begin(c) ==
  /\ pc[c] = "idle" /\ Turn(c)
  /\ Goto(c, IF steering THEN "message" ELSE IF Stopped THEN "error" ELSE "preparing")
  /\ Plain

\* admit_tool finds a limit reached: the limiter cancels the run.
Unaffordable(c) ==
  /\ pc[c] = "idle" /\ Turn(c) /\ ~steering /\ ~Stopped
  /\ Move(c, "error")
  /\ cancelled' = TRUE
  /\ Interrupted({c})
  /\ UNCHANGED <<hooks, session, steering, record, result>>

\* The call hooks and prepare: unknown, refused, late or failed calls get a
\* message, and so does one cancelled in a call hook; cancellation elsewhere and
\* steering interrupt the rest.
Authorized == IF "interception" \in hooks THEN "recording" ELSE "checking"
Prepare(c) ==
  /\ pc[c] = "preparing"
  /\ \/ Goto(c, "message")
     \/ Stopped /\ Goto(c, "error")
     \/ ~Stopped /\ ~steering
        /\ Goto(c, IF ToolOf[c] \in Guarded THEN "prepared" ELSE Authorized)
  /\ Plain

\* ticket() looks whether the session is open, and takes its epoch under a second
\* lock; lookup() finds a grant of that epoch under a third.
RequestTicket(c) ==
  /\ pc[c] = "prepared"
  /\ Goto(c, IF closed THEN "message" ELSE "ticketing")
  /\ Plain

TakeTicket(c) ==
  /\ pc[c] = "ticketing"
  /\ pc' = [pc EXCEPT ![c] = "looking"]
  /\ ticket' = [ticket EXCEPT ![c] = epoch]
  /\ UNCHANGED <<answer, cached, history>>
  /\ Plain

Lookup(c) ==
  /\ pc[c] = "looking"
  /\ pc' = [pc EXCEPT ![c] = "asked"]
  /\ cached' = IF ~Stale(c) /\ ToolOf[c] \in grants THEN cached \cup {c} ELSE cached
  /\ UNCHANGED <<answer, ticket, history>>
  /\ Plain

\* One poll of the biased select around the approval; a sleeping one is polled
\* again only after one of its wakers fired. revoked() enables its notification
\* before it looks, so what changes between the look's two locks wakes it.
Poll(c) ==
  /\ pc[c] = "asked" \/ (pc[c] = "asking" /\ c \in woken)
  /\ woken' = woken \ {c}
  /\ Goto(c, IF Stopped THEN "error"
             ELSE IF steering \/ Stale(c) THEN "message"
             ELSE IF c \in cached \/ answer[c] # "none" THEN "answered" ELSE "asking")
  /\ UNCHANGED <<hooks, controls, record, result, session>>

\* After a ready answer the block looks once more at both controls.
Recheck(c) ==
  /\ pc[c] = "answered"
  /\ Goto(c, IF answer[c] = "failed" THEN "message"
             ELSE IF Stopped THEN "error"
             ELSE IF steering THEN "message" ELSE "deciding")
  /\ Plain

Decision(c) == IF c \in cached THEN "session" ELSE answer[c]
NewGrant(c) == Decision(c) = "session" /\ ToolOf[c] \notin grants
Full(c) == NewGrant(c) /\ Cardinality(grants) >= MaxGrants

\* apply(): the decision counts only on the epoch that was asked about. A
\* session grant is stored once; one that does not fit is a refusal.
Apply_AnyEpoch(c) ==
  /\ pc[c] = "deciding"
  /\ grants' = IF NewGrant(c) /\ ~Full(c) /\ ~closed THEN grants \cup {ToolOf[c]} ELSE grants
  /\ Goto(c, IF closed \/ Full(c) \/ Decision(c) = "deny" THEN "message" ELSE Authorized)
  /\ TaskStep /\ UNCHANGED <<epoch, closed>>
Apply(c) ==
  /\ pc[c] = "deciding"
  /\ grants' = IF NewGrant(c) /\ ~Full(c) /\ ~Stale(c) THEN grants \cup {ToolOf[c]} ELSE grants
  /\ Goto(c, IF Stale(c) \/ Full(c) \/ Decision(c) = "deny" THEN "message" ELSE Authorized)
  /\ TaskStep /\ UNCHANGED <<epoch, closed>>

\* With result hooks the pending result is recorded first, which takes time.
Pending(c) ==
  /\ pc[c] = "recording"
  /\ Goto(c, IF Stopped THEN "message" ELSE "checking")
  /\ ~broken \/ Stopped
  /\ Plain

\* interception_record cannot store what a call hook, the pending result or a
\* result hook left behind: fail_persistence cancels the run.
RecordFails(c) ==
  /\ pc[c] \in {"preparing", "recording", "transforming"} /\ ~Stopped
  /\ "interception" \in hooks
  /\ Move(c, "message")
  /\ cancelled' = TRUE
  /\ broken' \in {broken, TRUE}
  /\ Interrupted({c})
  /\ UNCHANGED <<hooks, session, steering, capture, saved, lost, child,
                 result>>

\* The last looks before the operation: the ticket under two locks, first `closed`
\* and then the epoch; the steering; the cancellation in the select that runs it.
CheckTicket_Skipped(c) ==
  /\ pc[c] = "checking"
  /\ Goto(c, "admitting")
  /\ Plain
CheckTicket(c) ==
  /\ pc[c] = "checking"
  /\ Goto(c, IF ToolOf[c] \notin Guarded THEN "admitting"
             ELSE IF closed THEN "message" ELSE "comparing")
  /\ Plain

CompareTicket(c) ==
  /\ pc[c] = "comparing"
  /\ Goto(c, IF epoch # ticket[c] THEN "message" ELSE "admitting")
  /\ Plain

CheckSteering(c) ==
  /\ pc[c] = "admitting"
  /\ Goto(c, IF steering THEN "message" ELSE "starting")
  /\ Plain

Start(c) ==
  /\ pc[c] = "starting"
  /\ Goto(c, IF Stopped THEN "error" ELSE "executing")
  /\ Plain

\* The operation ends, fails or exceeds tool_timeout, unless it is cancelled.
Execute(c) ==
  /\ pc[c] = "executing"
  /\ Goto(c, IF Stopped THEN "error"
             ELSE IF "interception" \in hooks THEN "transforming" ELSE "message")
  /\ Plain

\* intercept_result delivers something in any case.
Transform(c) ==
  /\ pc[c] = "transforming"
  /\ Goto(c, "message")
  /\ Plain

(***************************************************************************)
(* The recorded result                                                     *)
(***************************************************************************)
Recorded == UNCHANGED <<hooks, session, controls, result>>

\* execute_recorded keeps the message, then checkpoints it at its own position.
Keep(c) ==
  /\ pc[c] = "message"
  /\ capture' = [capture EXCEPT ![c] = "original"]
  /\ IF "message" \in hooks
       THEN Goto(c, "finalizing") /\ UNCHANGED saved
       ELSE /\ ~broken
            /\ Goto(c, "done")
            /\ saved' = [saved EXCEPT ![c] = "original"]
  /\ UNCHANGED <<broken, lost, child, woken>>
  /\ Recorded

\* The checkpoint fails: siblings are cancelled and the failure is the answer.
Lose(c) ==
  /\ pc[c] = "message" /\ "message" \notin hooks
  /\ capture' = [capture EXCEPT ![c] = "original"]
  /\ Move(c, "error")
  /\ broken' = TRUE /\ lost' = TRUE /\ child' = TRUE
  /\ Interrupted({c})
  /\ UNCHANGED saved
  /\ Recorded

\* The message hooks fail, time out, are cancelled or exceed a limit.
FinalizeFails(c) ==
  /\ pc[c] = "finalizing"
  /\ Goto(c, "error")
  /\ UNCHANGED <<record, woken>>
  /\ Recorded

\* The finalized message is committed with its receipt and replaces the
\* original; the limits are checked once more after it.
Finalize_KeepsOriginal(c) ==
  /\ pc[c] = "finalizing" /\ ~Stopped /\ ~broken
  /\ \E stage \in {"done", "error"} : Goto(c, stage)
  /\ saved' = [saved EXCEPT ![c] = "final"]
  /\ UNCHANGED <<capture, broken, lost, child, woken>>
  /\ Recorded
Finalize(c) ==
  /\ pc[c] = "finalizing" /\ ~Stopped /\ ~broken
  /\ \E stage \in {"done", "error"} : Goto(c, stage)
  /\ saved' = [saved EXCEPT ![c] = "final"]
  /\ capture' = [capture EXCEPT ![c] = "final"]
  /\ UNCHANGED <<broken, lost, child, woken>>
  /\ Recorded

FinalizeLost(c) ==
  /\ pc[c] = "finalizing" /\ ~Stopped
  /\ Goto(c, "error")
  /\ broken' = TRUE /\ lost' = TRUE
  /\ UNCHANGED <<capture, saved, child, woken>>
  /\ Recorded

\* dispatch_captured returns once the last batch, or one with an error, is over.
Return ==
  /\ result = "none"
  /\ \/ (\A c \in Calls : pc[c] = "done") /\ result' = "ok"
     \/ /\ \E c \in Calls : pc[c] = "error"
        /\ \A c, d \in Calls : pc[c] = "error" /\ SameBatch(c, d) => Ended(d)
        /\ result' = "err"
  /\ UNCHANGED <<hooks, pc, question, woken, session, controls, record, history>>

(***************************************************************************)
(* Specification                                                           *)
(***************************************************************************)
\* A session may bring a grant of an earlier turn, and any of the HookSets.
Init ==
  /\ hooks \in HookSets
  /\ pc = [c \in Calls |-> "idle"]
  /\ ticket = [c \in Calls |-> 0] /\ cached = {}
  /\ answer = [c \in Calls |-> "none"]
  /\ woken = {}
  /\ epoch = 0 /\ closed = FALSE
  /\ grants \in {{}} \cup {{tool} : tool \in Guarded}
  /\ steering = FALSE /\ cancelled = FALSE /\ child = FALSE
  /\ capture = [c \in Calls |-> "none"] /\ saved = capture
  /\ broken = FALSE /\ lost = FALSE
  /\ result = "none" /\ withdrawn = {} /\ expired = {}

\* What the task does by itself once it is polled.
CallStep(c) ==
  \/ Begin(c) \/ Unaffordable(c) \/ Prepare(c)
  \/ RequestTicket(c) \/ TakeTicket(c) \/ Lookup(c) \/ Poll(c)
  \/ Recheck(c) \/ Apply(c) \/ Pending(c) \/ RecordFails(c)
  \/ CheckTicket(c) \/ CompareTicket(c) \/ CheckSteering(c)
  \/ Start(c) \/ Execute(c) \/ Transform(c)
  \/ Keep(c) \/ Lose(c) \/ FinalizeFails(c) \/ Finalize(c) \/ FinalizeLost(c)

\* What hosts do after the dispatch returned concerns other components.
Host == result = "none" /\
  (\/ \E tool \in grants : Revoke(tool)
   \/ RevokeAll \/ Close \/ Steer \/ Cancel
   \/ \E c \in Calls, decision \in {"deny", "once", "session", "failed"} : Answer(c, decision))

Next == Return \/ (\E c \in Calls : CallStep(c)) \/ Host

Spec == Init /\ [][Next]_vars

\* The runtime polls the task whenever something woke it; preparations, hooks,
\* operations and records end by their timeouts. Hosts need never answer.
PolledSpec == Spec /\ WF_vars(Return) /\ \A c \in Calls : WF_vars(CallStep(c))

(***************************************************************************)
(* Properties                                                              *)
(***************************************************************************)
CallsTypeOK ==
  /\ pc \in [Calls -> Stages] /\ ticket \in [Calls -> 0..MaxEpoch]
  /\ answer \in [Calls -> {"none", "deny", "once", "session", "failed"}]
  /\ cached \subseteq Calls /\ woken \subseteq Calls
  /\ withdrawn \subseteq Calls /\ expired \subseteq Calls
SessionTypeOK == epoch \in 0..MaxEpoch /\ closed \in BOOLEAN /\ grants \subseteq Guarded
ControlTypeOK == steering \in BOOLEAN /\ cancelled \in BOOLEAN /\ child \in BOOLEAN
RecordTypeOK ==
  /\ hooks \subseteq {"interception", "message"} /\ result \in {"none", "ok", "err"}
  /\ capture \in [Calls -> {"none", "original", "final"}]
  /\ saved \in [Calls -> {"none", "original", "final"}]
  /\ broken \in BOOLEAN /\ lost \in BOOLEAN

\* Every variable has its type, and only guarded tools are granted.
TypeOK == CallsTypeOK /\ SessionTypeOK /\ ControlTypeOK /\ RecordTypeOK

\* An operation never starts once its permission was revoked, its session
\* closed, steering arrived or the run was cancelled before the last look it
\* takes at that reason, whatever else happens between question and start.
WithdrawnNeverStarts ==
  [][\A c \in withdrawn : pc[c] = "starting" => pc'[c] # "executing"]_vars

\* No question that was revoked, steered over or cancelled before its answer was
\* taken leaves a permission behind, not even when the answer comes later, and
\* the permissions fit the session's limit.
NoLateGrant ==
  [][grants' \subseteq grants \/
     /\ \E c \in Calls \ expired : pc[c] = "deciding" /\ pc'[c] # "deciding"
     /\ Cardinality(grants') <= MaxGrants]_vars

\* The executor adds the kept results to the transcript and finish() compares
\* it with the journal: whatever order and however far the calls of a batch came,
\* every checkpoint is there, in the version that was saved, and a round that goes
\* on has all of them.
CheckpointsDelivered ==
  /\ result # "none" => \A c \in Calls : saved[c] # "none" => capture[c] = saved[c]
  /\ result = "ok" => ~lost /\ \A c \in Calls : saved[c] # "none"

\* A question whose ticket expired, or that steering or cancellation overtook, is
\* withdrawn without waiting for the host, and so the dispatch returns.
QuestionsResolve ==
  /\ \A c \in GuardedCalls : (pc[c] = "asking" /\ Stale(c)) ~> (pc[c] # "asking")
  /\ (Stopped \/ steering) ~> (result # "none")
=============================================================================
