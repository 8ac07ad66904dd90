----------------------------- MODULE TurnExecutor -----------------------------
(***************************************************************************)
(* One controlled run (aicoder-core turn_executor.rs, with the dispatch of *)
(* a round's tool calls from tools/dispatcher.rs): the owner of RunControl *)
(* that takes queued inputs at round boundaries, writes them to the        *)
(* journal, asks the model, runs tools behind approvals, verifies the      *)
(* candidate, closes the run and reports the outcome.                      *)
(*                                                                         *)
(* An action is what happens between two awaits, or at one lock of the     *)
(* control; hosts and submission futures interleave everywhere else.       *)
(* Messages are abstracted to what they are (an input, an answer, feedback *)
(* or a hook's entry), model and tool content to the choice they force.    *)
(***************************************************************************)
EXTENDS RunControl

CONSTANTS
  MaxRounds,      \* TurnExecutorConfig.max_rounds
  MaxCalls,       \* tool calls one model answer may make
  Direct,         \* kinds hosts send with steer / follow_up
  Prepared,       \* <<kind, custom>> hosts send with begin_input / begin_custom
  LifecycleHooks, \* boundary and compaction hooks are installed
  Finalizers,     \* message finalizers are installed
  Budgets         \* a duration, token, tool or output budget may run out

ASSUME TurnAssumption ==
  /\ MaxRounds \in Nat \ {0} /\ MaxCalls \in Nat
  /\ Direct \subseteq {"Steer", "FollowUp"}
  /\ Prepared \subseteq ({"Steer", "FollowUp"} \X {FALSE}) \cup (Deliveries \X {TRUE})
  /\ {LifecycleHooks, Finalizers, Budgets} \subseteq BOOLEAN

VARIABLES
  pc, back,       \* where the run future is, and where shared phases return to
  round,          \* RunProgress.rounds
  machine,        \* AgentRunStateMachine
  taken,          \* inputs applied at this boundary
  item,           \* the message being committed to the journal
  again,          \* boundary_again: a hook asked to continue
  transcript,     \* RunProgress.messages generated by the run
  journaled,      \* what the journal holds of it, in the order written
  broken,         \* a write failed: SessionJournal latches it
  calls, request, \* tool calls left, and the approval one waits for
  violation,      \* RunLimiter.violation
  result,         \* what run_inner returned
  outcome,        \* the RunOutcome: its stop and RunProgress.pending_inputs
  asked,          \* history: a handle's cancel was accepted
  completions,    \* history: completions the verifier accepted
  executed        \* history: approvals whose tool was started

placeVars  == <<pc, back, item, taken, result>>
lifeVars   == <<round, machine>>
flowVars   == <<again, completions>>
recordVars == <<transcript, journaled, broken>>
toolVars   == <<calls, request, executed>>
reportVars == <<violation, outcome, asked>>
bodyVars   == <<lifeVars, flowVars, recordVars, toolVars, reportVars>>
turnVars   == <<placeVars, bodyVars>>

NoOutcome == [stop |-> "none", pending |-> <<>>]
Item(what, number) == [what |-> what, number |-> number]
NoItem == Item("none", 0)
AgentState(state, number) == [state |-> state, round |-> number]

TurnInit ==
  /\ Init
  /\ pc = "idle" /\ back = <<>> /\ item = NoItem /\ taken = 0 /\ result = "none"
  /\ round = 0 /\ machine = AgentState("Idle", 0)
  /\ again = FALSE /\ completions = 0
  /\ transcript = <<>> /\ journaled = <<>> /\ broken = FALSE
  /\ calls = 0 /\ request = NoId /\ executed = {}
  /\ violation = FALSE /\ outcome = NoOutcome /\ asked = FALSE

-----------------------------------------------------------------------------
Input(id) == Item("input", id)
Answer    == Item("answer", round)
Feedback  == Item("feedback", round)

\* The execution context is cancelled: by the handle, a parent or a budget.
Stopped == cancelled \/ violation
Steered == HasKind("Steer")
\* The candidate of this round is in the transcript and not yet checkpointed.
Unsaved == Answer \in ToSet(transcript) /\ Answer \notin ToSet(journaled)

Goto(label) == pc' = label /\ UNCHANGED <<back, item, taken, result>>
Call(label, return) == pc' = label /\ back' = return /\ UNCHANGED <<item, taken, result>>
Return == Call(Head(back), Tail(back))
\* Enter the commit of one message; return says what follows it.
Handle(message, label, return) ==
  pc' = label /\ back' = return /\ item' = message /\ UNCHANGED <<taken, result>>
\* run_inner returns Ok or the kind of its error.
End(why) ==
  pc' = "ending" /\ back' = <<>> /\ item' = NoItem /\ taken' = 0 /\ result' = why
\* An await that selects on cancellation first, or limits.check().
Fail == End(IF Stopped THEN "cancelled" ELSE "failed")

-----------------------------------------------------------------------------
(* From the start of the future to the first round.                        *)

\* start_scope: bind the executor's input processor ...
Bind ==
  /\ pc = "idle" /\ Goto("bound")
  /\ BindPipeline(ExecutorPipeline)
  /\ UNCHANGED bodyVars

\* ... and start the control.
Begin ==
  /\ pc = "bound" /\ Goto("preparing")
  /\ Start
  /\ machine' = AgentState("Preparing", 0)
  /\ UNCHANGED <<round, flowVars, recordVars, toolVars, reportVars>>

\* The session agent loads the session and prepares the user's input; it goes
\* on, or its input was handled, or the preparation failed.
PrepareInput ==
  /\ pc = "preparing"
  /\ \/ ~Stopped /\ Goto("admit")
     \/ /\ pc' = "unprepared" /\ UNCHANGED <<back, item, taken>>
        /\ result' \in IF Stopped THEN {"cancelled"} ELSE {"handled", "failed"}
  /\ UNCHANGED <<controlVars, bodyVars>>

\* run_inner: can this journal keep custom messages that are already queued?
Admit(capable) ==
  /\ pc = "admit" /\ ~Stopped
  /\ ConfigureCustom(capable)
  /\ IF ConfigureFails(capable) THEN End("failed") ELSE Goto("check")
  /\ UNCHANGED bodyVars

\* admit_input_preparation, and the startup records that follow it.
CheckBinding ==
  /\ pc = "check" /\ ~Stopped
  /\ IF inputError THEN End("failed") ELSE Goto("head")
  /\ UNCHANGED <<controlVars, bodyVars>>

\* The head of the round loop.
NextRound ==
  /\ pc = "head" /\ ~Stopped /\ round < MaxRounds
  /\ round' = round + 1
  /\ machine' = AgentState("AwaitingModel", round + 1)
  /\ again' = FALSE
  /\ IF round = 0 THEN Call("apply", <<"compact">>)
     ELSE Call("flush", <<"apply", "compact">>)
  /\ UNCHANGED <<controlVars, completions, recordVars, toolVars, reportVars>>

\* The loop ran out of rounds.
RoundsSpent ==
  /\ pc = "head" /\ round = MaxRounds
  /\ End("budget")
  /\ UNCHANGED <<controlVars, bodyVars>>

-----------------------------------------------------------------------------
(* Inputs: flush_custom_context, apply_inputs, commit_run_input.           *)

\* No deferred context is queued: the phase returns without looking further.
FlushDone ==
  /\ pc = "flush" /\ ~HasKind("Context") /\ Return
  /\ UNCHANGED <<controlVars, bodyVars>>

\* Mutant of FlushNext: context is journaled before the candidate.
FlushNext_Unsaved ==
  /\ pc = "flush" /\ HasKind("Context") /\ ~Stopped
  /\ Handle(Input(pending[FirstOf("Context")].id), "commit", back)
  /\ UNCHANGED <<controlVars, bodyVars>>

\* The candidate goes to the journal before any context, oldest first.
FlushNext ==
  /\ pc = "flush" /\ HasKind("Context") /\ ~Stopped
  /\ IF Unsaved THEN Call("save", <<"flush">> \o back)
     ELSE Handle(Input(pending[FirstOf("Context")].id), "commit", back)
  /\ UNCHANGED <<controlVars, bodyVars>>

\* Mutant of FollowUp: follow-ups are read as long as there are any.
FollowUp_Always == Head(back) = "head"

\* A follow-up is read only after a completion, and only as the first input.
FollowUp == Head(back) = "head" /\ taken = 0

ApplyDone ==
  /\ pc = "apply"
  /\ taken = MaxPendingInputs \/ (~Stopped /\ NextInput(FollowUp) = 0)
  /\ pc' = Head(back) /\ back' = Tail(back) /\ taken' = 0 /\ UNCHANGED <<item, result>>
  /\ UNCHANGED <<controlVars, bodyVars>>

\* After a completion the next round must exist before the input is consumed.
ApplyNext ==
  /\ pc = "apply" /\ taken < MaxPendingInputs /\ ~Stopped
  /\ NextInput(FollowUp) # 0
  /\ IF Head(back) = "head" /\ round = MaxRounds THEN End("budget")
     ELSE Handle(Input(pending[NextInput(FollowUp)].id), "commit", back)
  /\ UNCHANGED <<controlVars, bodyVars>>

\* The message joins the transcript, unless a finalizer may still change it.
CommitInput ==
  /\ pc = "commit" /\ ~Stopped
  /\ Call("store", <<"applied">> \o back)
  /\ transcript' = IF Finalizers THEN transcript ELSE Append(transcript, item)
  /\ UNCHANGED <<controlVars, lifeVars, flowVars, journaled, broken, toolVars,
                 reportVars>>

\* The journal acknowledged the message; an input leaves the queue only now.
Stored ==
  /\ pc = "store" /\ ~Stopped
  /\ pc' = Head(back) /\ back' = Tail(back) /\ item' = NoItem
  /\ journaled' = Append(journaled, item)
  /\ transcript' = IF item \in ToSet(transcript) THEN transcript
                   ELSE Append(transcript, item)
  /\ IF item.what = "input" THEN Apply(item.number) ELSE UNCHANGED controlVars
  /\ UNCHANGED <<taken, result, broken, lifeVars, flowVars, toolVars, reportVars>>

\* Mutant of StoreFails: the failed write is ignored.
StoreFails_Ignored ==
  /\ pc = "store" /\ ~Stopped
  /\ pc' = Head(back) /\ back' = Tail(back) /\ item' = NoItem
  /\ transcript' = IF item \in ToSet(transcript) THEN transcript
                   ELSE Append(transcript, item)
  /\ IF item.what = "input" THEN Apply(item.number) ELSE UNCHANGED controlVars
  /\ UNCHANGED <<taken, result, journaled, broken, lifeVars, flowVars, toolVars,
                 reportVars>>

\* Hooks' entries, finalized answers and deferred context have 30 s to be written.
TimedWrite ==
  \/ item.what = "hook"
  \/ item.what = "answer" /\ Finalizers
  \/ item.what = "input" /\ \E i \in DOMAIN pending :
       pending[i].id = item.number /\ pending[i].kind = "Context"

\* The write failed, which the journal latches, or it was dropped on
\* cancellation or a timeout: it may have taken effect.
StoreFails ==
  /\ pc = "store" /\ Fail
  /\ journaled' \in {journaled, Append(journaled, item)}
  /\ broken' \in {~Stopped} \cup IF TimedWrite THEN {FALSE} ELSE {}
  /\ UNCHANGED <<controlVars, transcript, lifeVars, flowVars, toolVars, reportVars>>

InputApplied ==
  /\ pc = "applied" /\ ~Stopped
  /\ UNCHANGED <<back, item, result>>
  /\ IF Last(applied).kind = "Context" THEN pc' = "flush" /\ taken' = taken
     ELSE pc' = "apply" /\ taken' = taken + 1
  /\ UNCHANGED <<controlVars, bodyVars>>

\* checkpoint() of the candidate: once is enough.
Save ==
  /\ pc = "save" /\ ~Stopped
  /\ IF Unsaved THEN Handle(Answer, "store", back) ELSE Return
  /\ UNCHANGED <<controlVars, bodyVars>>

-----------------------------------------------------------------------------
(* One round: compaction, the model, and a candidate answer.               *)

CompactSkipped ==
  /\ pc = "compact" /\ ~Stopped /\ Goto("model")
  /\ UNCHANGED <<controlVars, bodyVars>>

CompactStarts ==
  /\ pc = "compact" /\ ~Stopped /\ Goto("compacting")
  /\ machine' = AgentState("Compacting", round)
  /\ UNCHANGED <<controlVars, round, flowVars, recordVars, toolVars, reportVars>>

\* Mutant of CompactEnds: the lifecycle is left in Compacting.
CompactEnds_SameState ==
  /\ pc = "compacting" /\ ~Stopped /\ Goto("model")
  /\ UNCHANGED <<controlVars, bodyVars>>

\* Compaction hooks take time, so steering is applied once more after them.
CompactEnds ==
  /\ pc = "compacting" /\ ~Stopped
  /\ machine' = AgentState("AwaitingModel", round)
  /\ IF LifecycleHooks THEN Call("apply", <<"model">>) ELSE Goto("model")
  /\ UNCHANGED <<controlVars, round, flowVars, recordVars, toolVars, reportVars>>

\* A final answer (n = 0) or n tool calls; finalizers commit it to the journal.
ModelAnswers(n) ==
  /\ pc = "model" /\ ~Stopped
  /\ transcript' = Append(transcript, Answer)
  /\ calls' = n
  /\ IF Finalizers THEN Call("save", <<"answered">>) ELSE Goto("answered")
  /\ UNCHANGED <<controlVars, lifeVars, flowVars, journaled, broken, request,
                 executed, reportVars>>

\* The provider reports that it was cancelled.
ModelCancels ==
  /\ pc = "model" /\ ~Stopped /\ End("cancelled")
  /\ UNCHANGED <<controlVars, bodyVars>>

\* The model stopped without completing its answer.
ModelStops ==
  /\ pc = "answered" /\ calls = 0 /\ End("model")
  /\ UNCHANGED <<controlVars, bodyVars>>

Candidate ==
  /\ pc = "answered" /\ calls = 0 /\ ~Stopped
  /\ machine' = AgentState("VerifyingCompletion", round)
  /\ Call("flush", IF LifecycleHooks THEN <<"save", "boundary", "turnEnd">>
                   ELSE <<"verify">>)
  /\ UNCHANGED <<controlVars, round, flowVars, recordVars, toolVars, reportVars>>

\* run_boundary: steering makes it withdraw, or its hooks change nothing ...
BoundaryDeclines ==
  /\ pc = "boundary" /\ ~Stopped /\ Return
  /\ again' = FALSE
  /\ UNCHANGED <<controlVars, lifeVars, completions, recordVars, toolVars, reportVars>>

\* ... or it commits their entries, and perhaps their wish to go on.
BoundaryCommits(more) ==
  /\ pc = "boundary" /\ ~Stopped /\ ~Steered
  /\ IF more /\ round = MaxRounds THEN End("budget")
     ELSE Handle(Item("hook", Len(transcript) + 1), "store", <<"hooked">> \o back)
  /\ again' = more
  /\ UNCHANGED <<controlVars, lifeVars, completions, recordVars, toolVars, reportVars>>

BoundaryEnds ==
  /\ pc = "hooked" /\ ~Stopped /\ Return
  /\ UNCHANGED <<controlVars, bodyVars>>

TurnEnds ==
  /\ pc = "turnEnd" /\ Goto(IF again THEN "head" ELSE "verify")
  /\ UNCHANGED <<controlVars, bodyVars>>

Accept ==
  /\ pc = "verify" /\ ~Stopped /\ Goto("accepted")
  /\ completions' = completions + 1 /\ again' = FALSE
  /\ UNCHANGED <<controlVars, lifeVars, recordVars, toolVars, reportVars>>

Reject ==
  /\ pc = "verify" /\ ~Stopped /\ Call("save", <<"feedback">>)
  /\ UNCHANGED <<controlVars, bodyVars>>

AddFeedback ==
  /\ pc = "feedback" /\ Handle(Feedback, "store", <<"flush", "head">>)
  /\ transcript' = Append(transcript, Feedback)
  /\ UNCHANGED <<controlVars, lifeVars, flowVars, journaled, broken, toolVars,
                 reportVars>>

-----------------------------------------------------------------------------
(* The completion boundary.                                                *)

\* An input is queued: the candidate is saved before it, and the run goes on.
MoreInput ==
  /\ NextInput(TRUE) # 0 /\ Call("save", <<"apply", "head">>)
  /\ UNCHANGED controlVars

\* next(_, close) found nothing and closed the run in the same critical section.
Completes == Close(TRUE) /\ End("ok")

\* The verifier accepted.
Settling ==
  /\ pc = "accepted"
  /\ \/ MoreInput
     \/ /\ LifecycleHooks /\ NextInput(TRUE) = 0
        /\ Call("boundary", <<"flush", "settle">>) /\ UNCHANGED controlVars
     \/ ~LifecycleHooks /\ Completes
     \/ /\ ~LifecycleHooks /\ NextInput(TRUE) = 0 /\ HasKind("Context")
        /\ Call("flush", <<"settle">>) /\ UNCHANGED controlVars
  /\ UNCHANGED bodyVars

\* The loop after the last boundary: drain what arrived, or close.
Settle ==
  /\ pc = "settle"
  /\ \/ MoreInput
     \/ /\ NextInput(TRUE) = 0 /\ HasKind("Context")
        /\ Call("flush", <<"settle">>) /\ UNCHANGED controlVars
     \/ /\ NextInput(TRUE) = 0 /\ ~HasKind("Context") /\ again
        /\ Goto("head") /\ UNCHANGED controlVars
     \/ ~again /\ Completes
  /\ UNCHANGED bodyVars

-----------------------------------------------------------------------------
(* A round's tool calls, one at a time.                                    *)

StartTools ==
  /\ pc = "answered" /\ calls > 0 /\ Call("save", <<"tools">>)
  /\ UNCHANGED <<controlVars, bodyVars>>

ExecuteTools ==
  /\ pc = "tools" /\ ~Stopped /\ Goto("call")
  /\ machine' = AgentState("ExecutingTools", round)
  /\ UNCHANGED <<controlVars, round, flowVars, recordVars, toolVars, reportVars>>

ToolsDone ==
  /\ pc = "call" /\ calls = 0 /\ ~Stopped
  /\ Call("flush", IF LifecycleHooks THEN <<"boundary", "head">> ELSE <<"head">>)
  /\ UNCHANGED <<controlVars, bodyVars>>

\* The call ends with a recorded result, whether or not its tool ran.
NextCall ==
  /\ calls' = calls - 1 /\ request' = NoId /\ Goto("call")
  /\ UNCHANGED <<executed, lifeVars, flowVars, recordVars, reportVars>>

\* steered_before_execution, before the call or just before its tool.
SkipCall ==
  /\ \/ pc = "call" /\ calls > 0
     \/ pc = "decided"
  /\ Steered /\ NextCall
  /\ UNCHANGED controlVars

\* A read-only tool, a session grant or the host's handler needs no slot.
NeedsNoApproval ==
  /\ pc = "call" /\ calls > 0 /\ ~Steered /\ ~Stopped
  /\ Goto("decided")
  /\ UNCHANGED <<controlVars, bodyVars>>

AskApproval ==
  /\ pc = "call" /\ calls > 0 /\ ~Steered /\ ~Stopped
  /\ Approve /\ request' = nextId /\ Goto("awaiting")
  /\ UNCHANGED <<calls, executed, lifeVars, flowVars, recordVars, reportVars>>

\* approve() fails without filling the slot: here only when the ids ran out.
ApprovalFails ==
  /\ pc = "call" /\ calls > 0 /\ ~Steered /\ ~Stopped
  /\ nextId = MaxId /\ NextCall
  /\ UNCHANGED controlVars

\* Mutant of WithdrawApproval: steering leaves the request waiting.
WithdrawApproval_NoCleanup ==
  /\ pc = "awaiting" /\ Steered /\ ~Stopped /\ NextCall
  /\ UNCHANGED controlVars

\* The select polls cancellation first, then steering, then the answer.
WithdrawApproval ==
  /\ pc = "awaiting" /\ EndApproval(request)
  /\ \/ Stopped /\ End("cancelled") /\ request' = NoId
        /\ UNCHANGED <<calls, executed, lifeVars, flowVars, recordVars, reportVars>>
     \/ ~Stopped /\ Steered /\ NextCall

TakeDecision ==
  /\ pc = "awaiting" /\ ~Stopped /\ ~Steered /\ Answered(request)
  /\ EndApproval(request) /\ Goto("decided")
  /\ UNCHANGED bodyVars

Granted == request = NoId \/ Decision(request) = "allow"

DenyCall ==
  /\ pc = "decided" /\ ~Granted /\ NextCall
  /\ UNCHANGED controlVars

ExecuteCall ==
  /\ pc = "decided" /\ Granted /\ ~Steered /\ ~Stopped /\ Goto("executing")
  /\ executed' = IF request = NoId THEN executed ELSE executed \cup {request}
  /\ UNCHANGED <<controlVars, calls, request, lifeVars, flowVars, recordVars,
                 reportVars>>

CallReturns ==
  /\ pc = "executing" /\ ~Stopped /\ NextCall
  /\ UNCHANGED controlVars

\* The result could not be checkpointed.
ResultLost ==
  /\ pc = "executing" /\ ~Stopped /\ End("failed")
  /\ broken' = TRUE
  /\ UNCHANGED <<controlVars, transcript, journaled, lifeVars, flowVars, toolVars,
                 reportVars>>

-----------------------------------------------------------------------------
(* Interruption, and the end of the run.                                   *)

\* Mutant of Interruptible: the model request does not watch cancellation.
Interruptible_NotModel ==
  pc \in {"admit", "check", "head", "apply", "commit", "applied", "save", "compact",
          "compacting", "boundary", "hooked", "verify", "tools", "decided",
          "executing"}

\* Where the run future looks at its cancellation before anything else.
Interruptible ==
  \/ pc \in {"admit", "check", "commit", "applied", "save", "compact",
             "compacting", "model", "boundary", "hooked", "verify", "accepted",
             "tools", "decided", "executing"}
  \/ pc = "answered" /\ calls = 0
  \/ pc = "head" /\ round < MaxRounds
  \/ pc = "flush" /\ HasKind("Context")
  \/ pc = "apply" /\ taken < MaxPendingInputs
  \/ pc = "call" /\ (calls = 0 \/ ~Steered)

\* A native compaction whose commit is cancelled is reported as a failed write.
Interrupted ==
  /\ Interruptible /\ Stopped
  /\ \/ End("cancelled")
     \/ pc = "compacting" /\ LifecycleHooks /\ End("failed")
  /\ UNCHANGED <<controlVars, bodyVars>>

\* A hook, validation, the provider, the compactor or the verifier fails.
StepFails ==
  /\ pc \in {"check", "commit", "compact", "compacting", "model", "answered",
             "boundary", "verify"}
  /\ ~Stopped /\ End("failed")
  /\ UNCHANGED <<controlVars, bodyVars>>

\* RunLimiter::stop: the first violation of a budget cancels the context.
Exhaust ==
  /\ Budgets /\ ~Stopped
  /\ result = "none" /\ pc \notin {"idle", "bound", "preparing"}
  /\ violation' = TRUE
  /\ UNCHANGED <<controlVars, placeVars, lifeVars, flowVars, recordVars, toolVars,
                 outcome, asked>>

\* Mutant of Conclude: the last check of the limiter is missing.
Conclude_NoCheck ==
  /\ pc = "ending" /\ pc' = "sealing"
  /\ UNCHANGED <<controlVars, result, back, item, taken, bodyVars>>

\* A failure of the run's own work is kept; anything else yields to the budget
\* and then to cancellation.
Conclude ==
  /\ pc = "ending" /\ pc' = "sealing"
  /\ result' = IF violation THEN "budget"
               ELSE IF cancelled /\ result # "failed" THEN "cancelled" ELSE result
  /\ UNCHANGED <<controlVars, back, item, taken, bodyVars>>

\* Mutant of Report: the pending inputs are read without closing the queue.
Report_NotSealed ==
  /\ pc \in {"sealing", "unprepared"}
  /\ outcome' = [stop |-> result, pending |-> pending]
  /\ Goto(IF pc = "sealing" THEN "saving" ELSE "finishing")
  /\ UNCHANGED <<controlVars, lifeVars, flowVars, recordVars, toolVars, violation, asked>>

\* seal() closes the control and returns what the outcome reports as pending.
Report ==
  /\ pc \in {"sealing", "unprepared"}
  /\ Seal
  /\ outcome' = [stop |-> result, pending |-> pending]
  /\ Goto(IF pc = "sealing" THEN "saving" ELSE "finishing")
  /\ UNCHANGED <<lifeVars, flowVars, recordVars, toolVars, violation, asked>>

\* journal.finish writes what is missing, if the checkpoints agree with it.
Consistent == ~broken /\ IsPrefix(journaled, transcript)

SaveOutcome ==
  /\ pc = "saving" /\ Consistent /\ Goto("finishing")
  /\ journaled' = transcript
  /\ UNCHANGED <<controlVars, transcript, broken, lifeVars, flowVars, toolVars,
                 reportVars>>

SaveFails ==
  /\ pc = "saving" /\ Goto("finishing")
  /\ journaled' \in {journaled} \cup IF Consistent THEN {transcript} ELSE {}
  /\ outcome' = [outcome EXCEPT !.stop = IF @ = "ok" THEN "failed" ELSE @]
  /\ broken' = TRUE
  /\ UNCHANGED <<controlVars, transcript, lifeVars, flowVars, toolVars, violation,
                 asked>>

Terminal(stop) ==
  CASE stop = "ok" -> "Completed" [] stop = "cancelled" -> "Aborted"
    [] stop = "failed" -> "Failed" [] OTHER -> "Stopped"

FinishRun ==
  /\ pc = "finishing" /\ Goto("done")
  /\ Finish
  /\ machine' = AgentState(Terminal(outcome.stop), round)
  /\ UNCHANGED <<round, flowVars, recordVars, toolVars, reportVars>>

\* Mutant of Drop: the pending approval outlives the run future.
Drop_KeepsApproval ==
  /\ pc \notin {"done", "dropped"} /\ status # "Finished"
  /\ pc' = "dropped" /\ back' = <<>> /\ item' = NoItem
  /\ status' = "Dropped" /\ cancelled' = TRUE /\ inflight' = Wake(inflight)
  /\ UNCHANGED <<nextId, queueVars, inflightBytes, approvalVars, bindingVars,
                 customTotal, applied, taken, result, bodyVars>>

\* The host drops the run future wherever it is suspended.
Drop ==
  /\ pc \notin {"done", "dropped"}
  /\ pc' = "dropped" /\ back' = <<>> /\ item' = NoItem /\ UNCHANGED <<taken, result>>
  /\ DropControl
  /\ UNCHANGED bodyVars

-----------------------------------------------------------------------------
(* The hosts, and the specification.                                       *)

HostCancels ==
  /\ Cancel /\ asked' = TRUE
  /\ UNCHANGED <<placeVars, lifeVars, flowVars, recordVars, toolVars, violation,
                 outcome>>

HostActs ==
  /\ \/ \E kind \in Direct, bytes \in Sizes : Submit(kind, bytes)
     \/ \E input \in Prepared, bytes \in Sizes : Reserve(input[1], input[2], bytes)
     \/ Futures
     \/ CancelParent
     \/ \E id \in 1..nextId, allow \in BOOLEAN : Respond(id, allow)
  /\ UNCHANGED turnVars

\* What the run future does by itself once it is polled.
Advance ==
  \/ Bind \/ Begin \/ (Stopped /\ PrepareInput)
  \/ (\E capable \in BOOLEAN : Admit(capable)) \/ CheckBinding
  \/ NextRound \/ RoundsSpent
  \/ FlushDone \/ FlushNext \/ ApplyDone \/ ApplyNext \/ CommitInput
  \/ Stored \/ StoreFails \/ InputApplied \/ Save \/ AddFeedback
  \/ CompactSkipped \/ CompactStarts \/ ModelStops \/ Candidate
  \/ BoundaryEnds \/ TurnEnds \/ Settling \/ Settle
  \/ StartTools \/ ExecuteTools \/ ToolsDone \/ SkipCall
  \/ NeedsNoApproval \/ AskApproval \/ ApprovalFails
  \/ WithdrawApproval \/ TakeDecision \/ DenyCall \/ ExecuteCall
  \/ Interrupted \/ Conclude \/ Report \/ SaveOutcome \/ SaveFails \/ FinishRun

\* Where it needs an answer of somebody else: nothing says there will be one.
Answers ==
  \/ PrepareInput
  \/ CompactEnds
  \/ (\E n \in 0..MaxCalls : ModelAnswers(n)) \/ ModelCancels
  \/ BoundaryDeclines \/ \E more \in BOOLEAN : BoundaryCommits(more)
  \/ Accept \/ Reject
  \/ CallReturns \/ ResultLost
  \/ StepFails

TurnNext == Advance \/ Answers \/ Exhaust \/ Drop \/ HostActs \/ HostCancels

allVars == <<controlVars, turnVars>>
TurnSpec == TurnInit /\ [][TurnNext]_allVars
\* The future is polled until it ends.
PolledTurnSpec == TurnSpec /\ WF_allVars(Advance)

-----------------------------------------------------------------------------
(* Properties.                                                             *)

Labels ==
  {"idle", "bound", "preparing", "admit", "check", "head", "flush", "apply",
   "commit", "store", "applied", "save", "compact", "compacting", "model",
   "answered", "boundary", "hooked", "turnEnd", "verify", "accepted", "settle",
   "feedback", "tools", "call", "awaiting", "decided", "executing", "ending",
   "unprepared", "sealing", "saving", "finishing", "done", "dropped"}
Stops == {"none", "ok", "handled", "model", "budget", "cancelled", "failed"}
Items == [what : {"none", "input", "answer", "feedback", "hook"}, number : Nat]

\* Every variable of the run has its type.
TurnTypeOK ==
  /\ TypeOK
  /\ pc \in Labels /\ back \in Seq(Labels) /\ result \in Stops
  /\ item \in Items /\ transcript \in Seq(Items) /\ journaled \in Seq(Items)
  /\ round \in 0..MaxRounds /\ taken \in 0..MaxPendingInputs
  /\ calls \in 0..MaxCalls /\ request \in 0..MaxId
  /\ {again, broken, violation, asked} \subseteq BOOLEAN
  /\ completions \in 0..MaxRounds /\ executed \subseteq 1..MaxId
  /\ outcome.stop \in Stops /\ outcome.pending \in Seq(Entry)

\* A completed run has consumed every input it ever accepted: none can slip in
\* between the last look at the queue and the outcome.
CompletedConsumed ==
  outcome.stop = "ok" => pending = <<>> /\ accepted = AppliedIds

\* Whatever the outcome, it reports as pending exactly the accepted inputs that
\* were not applied, and it stays right afterwards.
OutcomeComplete ==
  outcome # NoOutcome =>
    {outcome.pending[i].id : i \in DOMAIN outcome.pending} = accepted \ AppliedIds

\* Inputs of one kind are applied in the order the queue accepted them.
AppliesOldest ==
  applied' # applied =>
    \A i \in DOMAIN pending :
      pending[i].kind = Last(applied').kind
        => \E j \in 1..i : pending[j].id = Last(applied').id
FifoPerKind == [][AppliesOldest]_allVars

\* One follow-up is consumed per accepted completion, however many are queued.
Applied(kind) == {i \in DOMAIN applied : applied[i].kind = kind}
OneFollowUpPerCompletion == Cardinality(Applied("FollowUp")) <= completions

\* The journal holds the transcript in its order and lacks at most its last
\* message; only the write that ends the run may be out of step.
JournalOrder ==
  /\ result = "none" => IsPrefix(journaled, transcript)
  /\ Len(transcript) <= Len(journaled) + 1
  /\ journaled # <<>> => IsPrefix(Front(journaled), transcript)

\* The model never sees a transcript with an input the journal did not
\* acknowledge, nor misses one that left the queue.
ModelSeesAcknowledged ==
  pc \in {"model", "compacting", "verify"} =>
    LET inputs(messages) == {m.number : m \in {x \in ToSet(messages) : x.what = "input"}}
    IN inputs(transcript) = AppliedIds /\ inputs(journaled) = AppliedIds

\* The run waits for at most one approval, the one it is suspended on; a tool
\* started behind one had been allowed, never refused or withdrawn.
ApprovalsSerial ==
  /\ waiters = IF pc = "awaiting" THEN {request} ELSE {}
  /\ executed \subseteq allowed

\* An accepted cancel is never reported as a completion.
CancelHonoured == asked => outcome.stop # "ok"

\* A raw input queued before the executor's input hooks were bound is rejected:
\* it never reaches the transcript (docs/input-hooks.md).
NoRawInputApplied ==
  pipeline = "hooks" =>
    \A i \in DOMAIN applied : applied[i].custom \/ applied[i].prepared

\* The executor uses the control as its specification allows.
ControlSpec == Spec

\* The lifecycle a host observes follows the documented transitions.
Lifecycle == INSTANCE AgentRun
LifecycleSpec == Lifecycle!Spec

\* Once the run is cancelled, out of budget or closed it ends, though models,
\* tools, verifiers, hooks and approving hosts may never answer.
ClosedRunEnds == (Stopped \/ ~Open) ~> pc \in {"done", "dropped"}
=============================================================================
