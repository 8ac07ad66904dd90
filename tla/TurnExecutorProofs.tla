------------------------- MODULE TurnExecutorProofs -------------------------
(***************************************************************************)
(* Theorems about TurnExecutor, for every value of its constants: the      *)
(* executor uses RunControl as its specification allows, so that what      *)
(* RunControlProofs proves of any owner holds of every run; approvals are  *)
(* serial; an outcome is truthful about inputs and cancellation; hosts see *)
(* the documented lifecycle; inputs of one kind are applied in order; the  *)
(* journal and the transcript agree, and with the inputs the queue let go  *)
(* of; and completions pay for follow-ups.                                 *)
(***************************************************************************)
EXTENDS TurnExecutor, RunControlProofs

-----------------------------------------------------------------------------
(* Where a run can be.                                                     *)

\* Phases that are called from several places and return to the stack.
Returning == {"flush", "apply", "commit", "store", "applied", "save", "boundary",
              "hooked"}
\* Those among them that another phase may return to.
Resumed == {"flush", "apply", "applied", "save", "boundary", "hooked"}
\* Places a returning phase may end at.
Resting == {"head", "compact", "model", "answered", "turnEnd", "verify", "settle",
            "feedback", "tools"}
Working == Returning \cup Resting \cup
  {"idle", "bound", "preparing", "admit", "check", "compacting", "accepted", "call",
   "decided", "executing"}

\* Phases that return, and below them the place where they end.
WellStacked(stack) ==
  /\ stack \in Seq(Resumed \cup Resting) /\ stack # <<>>
  /\ \A i \in 1..Len(stack) : stack[i] \in Resting <=> i = Len(stack)

\* A phase that returns has somewhere to return to.
StackOK == IF pc \in Returning THEN WellStacked(back) ELSE back = <<>>

\* Popping a well formed stack.
LEMMA Popped ==
  ASSUME NEW stack, WellStacked(stack)
  PROVE  /\ Head(stack) \in Resumed \cup Resting
         /\ Head(stack) \in Returning => WellStacked(Tail(stack))
         /\ Head(stack) \notin Returning => Tail(stack) = <<>>
<1>1. stack \in Seq(Resumed \cup Resting) /\ stack # <<>> /\ Len(stack) \in Nat \ {0}
  BY EmptySeq, LenProperties DEF WellStacked
<1>2. Head(stack) = stack[1] /\ stack[1] \in Resumed \cup Resting
  BY <1>1, ElementOfSeq, HeadTailProperties
<1> DEFINE rest == Tail(stack)
<1>3. /\ rest \in Seq(Resumed \cup Resting) /\ Len(rest) = Len(stack) - 1
      /\ \A i \in 1..Len(rest) : rest[i] = stack[i + 1]
  BY <1>1, HeadTailProperties
<1> HIDE DEF rest
<1>4. ASSUME Head(stack) \in Returning PROVE WellStacked(rest)
  <2>1. stack[1] \notin Resting
    BY <1>2, <1>4 DEF Resumed, Returning, Resting
  <2>2. Len(stack) # 1
    BY <1>1, <2>1 DEF WellStacked
  <2>3. rest # <<>>
    BY <1>1, <1>3, <2>2, EmptySeq
  <2>4. ASSUME NEW i \in 1..Len(rest)
        PROVE  rest[i] \in Resting <=> i = Len(rest)
    <3>1. i + 1 \in 1..Len(stack) /\ rest[i] = stack[i + 1]
      BY <1>1, <1>3
    <3>2. stack[i + 1] \in Resting <=> i + 1 = Len(stack)
      BY <3>1 DEF WellStacked
    <3>3. Len(rest) = Len(stack) - 1 /\ i \in Int
      BY <1>3
    <3>4. QED
      BY <1>1, <3>1, <3>2, <3>3
  <2>5. QED
    BY <1>3, <2>3, <2>4 DEF WellStacked
<1>5. ASSUME Head(stack) \notin Returning PROVE rest = <<>>
  <2>1. stack[1] \in Resting
    BY <1>2, <1>5 DEF Resumed, Returning
  <2>2. 1 \in 1..Len(stack)
    BY <1>1
  <2>3. Len(stack) = 1
    BY <2>1, <2>2 DEF WellStacked
  <2>4. rest \in Seq(Resumed \cup Resting) /\ Len(rest) = 0
    BY <1>3, <2>3
  <2>5. QED
    BY <2>4, EmptySeq
<1>6. QED
  BY <1>2, <1>4, <1>5 DEF rest

\* Pushing a phase that returns.
LEMMA Pushed ==
  ASSUME NEW stack, WellStacked(stack), NEW phase \in Resumed
  PROVE  WellStacked(<<phase>> \o stack)
<1> DEFINE longer == <<phase>> \o stack
<1>1. stack \in Seq(Resumed \cup Resting) /\ Len(stack) \in Nat \ {0}
  BY EmptySeq, LenProperties DEF WellStacked
<1>2. <<phase>> \in Seq(Resumed \cup Resting) /\ Len(<<phase>>) = 1 /\ <<phase>>[1] = phase
  OBVIOUS
<1>3. /\ longer \in Seq(Resumed \cup Resting) /\ Len(longer) = 1 + Len(stack)
      /\ \A i \in 1..Len(longer) :
           longer[i] = IF i <= 1 THEN <<phase>>[i] ELSE stack[i - 1]
  BY <1>1, <1>2, ConcatProperties
<1>4. phase \notin Resting
  BY DEF Resumed, Returning, Resting
<1> HIDE DEF longer
<1>5. ASSUME NEW i \in 1..Len(longer) PROVE longer[i] \in Resting <=> i = Len(longer)
  <2>1. CASE i = 1
    BY <1>1, <1>2, <1>3, <1>4, <2>1
  <2>2. CASE i # 1
    <3>1. i - 1 \in 1..Len(stack) /\ longer[i] = stack[i - 1]
      BY <1>1, <1>3, <2>2
    <3>2. stack[i - 1] \in Resting <=> i - 1 = Len(stack)
      BY <3>1 DEF WellStacked
    <3>3. QED
      BY <1>1, <1>3, <3>1, <3>2
  <2>3. QED
    BY <2>1, <2>2
<1>6. longer # <<>>
  BY <1>1, <1>3, EmptySeq
<1>7. WellStacked(longer)
  BY <1>3, <1>5, <1>6 DEF WellStacked
<1>8. QED
  BY <1>7 DEF longer

\* The stacks the executor calls a phase with.
LEMMA Fresh ==
  /\ \A rest \in Resting : WellStacked(<<rest>>)
  /\ \A phase \in Resumed, rest \in Resting : WellStacked(<<phase, rest>>)
  /\ \A outer, phase \in Resumed, rest \in Resting :
       WellStacked(<<outer, phase, rest>>)
<1>1. ASSUME NEW rest \in Resting PROVE WellStacked(<<rest>>)
  BY DEF WellStacked
<1>2. ASSUME NEW phase \in Resumed, NEW rest \in Resting
      PROVE  WellStacked(<<phase, rest>>)
  BY DEF WellStacked, Resumed, Returning, Resting
<1>3. ASSUME NEW outer \in Resumed, NEW phase \in Resumed, NEW rest \in Resting
      PROVE  WellStacked(<<outer, phase, rest>>)
  BY DEF WellStacked, Resumed, Returning, Resting
<1>4. QED
  BY <1>1, <1>2, <1>3

-----------------------------------------------------------------------------
(* The steps that neither complete a run nor touch its approval, its       *)
(* outcome or its end: what they do to the control, and to the stack.      *)

QuietControl ==
  \/ UNCHANGED controlVars
  \/ BindPipeline(ExecutorPipeline) \/ Start
  \/ \E capable \in BOOLEAN : ConfigureCustom(capable)
  \/ \E id \in PendingIds : Apply(id)

Ordinary ==
  /\ pc \in Working
  /\ \/ pc' \in Working /\ result' = result
     \/ pc' \in {"ending", "unprepared"} /\ result' \notin {"ok", "none"}
  /\ UNCHANGED <<outcome, asked, executed>>
  /\ QuietControl

\* From the start of the future to the first round.
LEMMA StartSteps ==
  ASSUME StackOK,
         \/ Bind \/ Begin \/ PrepareInput \/ CheckBinding
         \/ (\E capable \in BOOLEAN : Admit(capable)) \/ NextRound \/ RoundsSpent
  PROVE  Ordinary /\ StackOK'
<1> USE DEF bodyVars, lifeVars, flowVars, recordVars, toolVars, reportVars,
            Ordinary, QuietControl, Working, Resumed, Returning, Resting, StackOK, Goto, Call, End
<1>1. CASE Bind
  BY <1>1 DEF Bind
<1>2. CASE Begin
  BY <1>2 DEF Begin
<1>3. CASE PrepareInput
  BY <1>3 DEF PrepareInput
<1>4. CASE CheckBinding
  BY <1>4 DEF CheckBinding
<1>5. ASSUME NEW capable \in BOOLEAN, Admit(capable) PROVE Ordinary /\ StackOK'
  BY <1>5 DEF Admit
<1>6. CASE NextRound
  <2>1. WellStacked(<<"compact">>) /\ WellStacked(<<"apply", "compact">>)
    BY Fresh
  <2>2. QED
    BY <1>6, <2>1 DEF NextRound
<1>7. CASE RoundsSpent
  BY <1>7 DEF RoundsSpent
<1>8. QED
  BY <1>1, <1>2, <1>3, <1>4, <1>5, <1>6, <1>7

\* The phases that commit inputs, context and entries to the journal.
LEMMA CommitSteps ==
  ASSUME StackOK,
         \/ FlushDone \/ FlushNext \/ ApplyDone \/ ApplyNext \/ CommitInput \/ Stored
         \/ StoreFails \/ InputApplied \/ Save \/ BoundaryDeclines \/ BoundaryEnds
         \/ \E more \in BOOLEAN : BoundaryCommits(more)
  PROVE  Ordinary /\ StackOK'
<1>1. pc \in Returning
  BY DEF FlushDone, FlushNext, ApplyDone, ApplyNext, CommitInput, Stored, StoreFails,
         InputApplied, Save, BoundaryDeclines, BoundaryEnds, BoundaryCommits, Returning
<1>2. WellStacked(back)
  BY <1>1 DEF StackOK
<1>3. /\ Head(back) \in Resumed \cup Resting
      /\ Head(back) \in Returning => WellStacked(Tail(back))
      /\ Head(back) \notin Returning => Tail(back) = <<>>
  BY <1>2, Popped
<1>4. \A phase \in Resumed : WellStacked(<<phase>> \o back)
  BY <1>2, Pushed
<1> USE <1>1, <1>2, <1>3, <1>4
<1> USE DEF bodyVars, lifeVars, flowVars, recordVars, toolVars, reportVars,
            Ordinary, QuietControl, Working, Resumed, Returning, Resting, StackOK, Goto, Call,
            End, Return, Handle
<1>5. CASE FlushDone
  BY <1>5 DEF FlushDone
<1>6. CASE FlushNext
  BY <1>6 DEF FlushNext
<1>7. CASE ApplyDone
  BY <1>7 DEF ApplyDone
<1>8. CASE ApplyNext
  BY <1>8 DEF ApplyNext
<1>9. CASE CommitInput
  BY <1>9 DEF CommitInput
<1>10. CASE Stored
  <2>1. UNCHANGED controlVars \/ \E id \in PendingIds : Apply(id)
    <3>1. Apply(item.number) => item.number \in PendingIds
      BY DEF Apply, PendingIds
    <3>2. QED
      BY <1>10, <3>1, Zenon DEF Stored
  <2>2. QED
    BY <1>10, <2>1 DEF Stored
<1>11. CASE StoreFails
  BY <1>11 DEF StoreFails, Fail
<1>12. CASE InputApplied
  BY <1>12 DEF InputApplied
<1>13. CASE Save
  BY <1>13 DEF Save
<1>14. CASE BoundaryDeclines
  BY <1>14 DEF BoundaryDeclines
<1>15. CASE BoundaryEnds
  BY <1>15 DEF BoundaryEnds
<1>16. ASSUME NEW more \in BOOLEAN, BoundaryCommits(more) PROVE Ordinary /\ StackOK'
  BY <1>16 DEF BoundaryCommits
<1>17. QED
  BY <1>5, <1>6, <1>7, <1>8, <1>9, <1>10, <1>11, <1>12, <1>13, <1>14, <1>15, <1>16

\* One round, from compaction to the verifier.
LEMMA RoundSteps ==
  ASSUME StackOK,
         \/ CompactSkipped \/ CompactStarts \/ CompactEnds
         \/ (\E n \in 0..MaxCalls : ModelAnswers(n)) \/ ModelCancels \/ ModelStops
         \/ Candidate \/ TurnEnds \/ Accept \/ Reject \/ AddFeedback
  PROVE  Ordinary /\ StackOK'
<1>1. /\ WellStacked(<<"model">>) /\ WellStacked(<<"answered">>)
      /\ WellStacked(<<"verify">>) /\ WellStacked(<<"feedback">>)
      /\ WellStacked(<<"flush", "head">>)
      /\ WellStacked(<<"save", "boundary", "turnEnd">>)
  BY Fresh DEF Resumed, Returning, Resting
<1> USE <1>1
<1> USE DEF bodyVars, lifeVars, flowVars, recordVars, toolVars, reportVars,
            Ordinary, QuietControl, Working, Resumed, Returning, Resting, StackOK, Goto, Call,
            End, Handle
<1>2. CASE CompactSkipped
  BY <1>2 DEF CompactSkipped
<1>3. CASE CompactStarts
  BY <1>3 DEF CompactStarts
<1>4. CASE CompactEnds
  BY <1>4 DEF CompactEnds
<1>5. ASSUME NEW n \in 0..MaxCalls, ModelAnswers(n) PROVE Ordinary /\ StackOK'
  BY <1>5 DEF ModelAnswers
<1>6. CASE ModelCancels
  BY <1>6 DEF ModelCancels
<1>7. CASE ModelStops
  BY <1>7 DEF ModelStops
<1>8. CASE Candidate
  BY <1>8 DEF Candidate
<1>9. CASE TurnEnds
  BY <1>9 DEF TurnEnds
<1>10. CASE Accept
  BY <1>10 DEF Accept
<1>11. CASE Reject
  BY <1>11 DEF Reject
<1>12. CASE AddFeedback
  BY <1>12 DEF AddFeedback
<1>13. QED
  BY <1>2, <1>3, <1>4, <1>5, <1>6, <1>7, <1>8, <1>9, <1>10, <1>11, <1>12

\* The tool calls that do not touch the approval slot, and interruptions.
LEMMA CallSteps ==
  ASSUME StackOK,
         \/ StartTools \/ ExecuteTools \/ ToolsDone \/ SkipCall \/ NeedsNoApproval
         \/ ApprovalFails \/ DenyCall \/ CallReturns \/ ResultLost \/ Interrupted
         \/ StepFails
  PROVE  Ordinary /\ StackOK'
<1>1. /\ WellStacked(<<"tools">>) /\ WellStacked(<<"head">>)
      /\ WellStacked(<<"boundary", "head">>)
  BY Fresh DEF Resumed, Returning, Resting
<1> USE <1>1
<1> USE DEF bodyVars, lifeVars, flowVars, recordVars, toolVars, reportVars,
            Ordinary, QuietControl, Working, Resumed, Returning, Resting, StackOK, Goto, Call,
            End, NextCall
<1>2. CASE StartTools
  BY <1>2 DEF StartTools
<1>3. CASE ExecuteTools
  BY <1>3 DEF ExecuteTools
<1>4. CASE ToolsDone
  BY <1>4 DEF ToolsDone
<1>5. CASE SkipCall
  BY <1>5 DEF SkipCall
<1>6. CASE NeedsNoApproval
  BY <1>6 DEF NeedsNoApproval
<1>7. CASE ApprovalFails
  BY <1>7 DEF ApprovalFails
<1>8. CASE DenyCall
  BY <1>8 DEF DenyCall
<1>9. CASE CallReturns
  BY <1>9 DEF CallReturns
<1>10. CASE ResultLost
  BY <1>10 DEF ResultLost
<1>11. CASE Interrupted
  BY <1>11 DEF Interrupted, Interruptible
<1>12. CASE StepFails
  BY <1>12 DEF StepFails
<1>13. QED
  BY <1>2, <1>3, <1>4, <1>5, <1>6, <1>7, <1>8, <1>9, <1>10, <1>11, <1>12

\* Nothing is queued: the run is closed in the critical section that looks.
Completion == pc \in {"accepted", "settle"} /\ Completes /\ UNCHANGED bodyVars

\* Both places of the boundary take such a step.
LEMMA SettleSteps ==
  ASSUME StackOK, Settling \/ Settle
  PROVE  (Ordinary /\ StackOK') \/ Completion
<1>1. /\ WellStacked(<<"apply", "head">>) /\ WellStacked(<<"settle">>)
      /\ WellStacked(<<"flush", "settle">>)
  BY Fresh DEF Resumed, Returning, Resting
<1>2. CASE Completes
  BY <1>2 DEF Settling, Settle, Completion
<1>3. CASE ~Completes
  BY <1>1, <1>3 DEF Settling, Settle, MoreInput, bodyVars, lifeVars, flowVars,
     recordVars, toolVars, reportVars, Ordinary, QuietControl, Working, Resumed, Returning,
     Resting, StackOK, Goto, Call
<1>4. QED
  BY <1>2, <1>3

\* Every step of a run.
LEMMA TurnSteps ==
  ASSUME StackOK, TurnNext
  PROVE  \/ Ordinary /\ StackOK'
         \/ Completion
         \/ AskApproval \/ WithdrawApproval \/ TakeDecision \/ ExecuteCall
         \/ Conclude \/ Report \/ SaveOutcome \/ SaveFails \/ FinishRun
         \/ Exhaust \/ Drop \/ HostActs \/ HostCancels
<1>1. CASE Advance
  <2>1. CASE \/ Bind \/ Begin \/ PrepareInput \/ CheckBinding
             \/ (\E capable \in BOOLEAN : Admit(capable)) \/ NextRound \/ RoundsSpent
    BY <2>1, StartSteps
  <2>2. CASE \/ FlushDone \/ FlushNext \/ ApplyDone \/ ApplyNext \/ CommitInput
             \/ Stored \/ StoreFails \/ InputApplied \/ Save \/ BoundaryEnds
    BY <2>2, CommitSteps
  <2>3. CASE \/ CompactSkipped \/ CompactStarts \/ ModelStops \/ Candidate
             \/ TurnEnds \/ AddFeedback
    BY <2>3, RoundSteps
  <2>4. CASE Settling \/ Settle
    BY <2>4, SettleSteps
  <2>5. CASE \/ StartTools \/ ExecuteTools \/ ToolsDone \/ SkipCall
             \/ NeedsNoApproval \/ ApprovalFails \/ DenyCall \/ Interrupted
    BY <2>5, CallSteps
  <2>6. QED
    BY <1>1, <2>1, <2>2, <2>3, <2>4, <2>5, Zenon DEF Advance
<1>2. CASE Answers
  <2>1. CASE PrepareInput
    BY <2>1, StartSteps
  <2>2. CASE BoundaryDeclines \/ \E more \in BOOLEAN : BoundaryCommits(more)
    BY <2>2, CommitSteps
  <2>3. CASE \/ CompactEnds \/ (\E n \in 0..MaxCalls : ModelAnswers(n))
             \/ ModelCancels \/ Accept \/ Reject
    BY <2>3, RoundSteps
  <2>4. CASE CallReturns \/ ResultLost \/ StepFails
    BY <2>4, CallSteps
  <2>5. QED
    BY <1>2, <2>1, <2>2, <2>3, <2>4, Zenon DEF Answers
<1>3. QED
  BY <1>1, <1>2, Zenon DEF TurnNext

-----------------------------------------------------------------------------
(* The executor is an owner that RunControl allows.                        *)

OwnerInv ==
  /\ StackOK
  /\ status = "Dropped" => pc = "dropped"
  /\ status = "Finished" => pc \in {"done", "dropped"}
  /\ ApprovalsSerial

\* The quiet operations of the control reach neither the approval slot nor the
\* end of the run.
LEMMA QuietEffects ==
  ASSUME QuietControl
  PROVE  /\ UNCHANGED <<cancelled, waiters, allowed, refused>>
         /\ status' = status \/ status' = "Running"
<1>1. CASE UNCHANGED controlVars
  BY <1>1 DEF controlVars, approvalVars
<1>2. CASE BindPipeline(ExecutorPipeline)
  BY <1>2, Zenon DEF BindPipeline, approvalVars
<1>3. CASE Start
  BY <1>3, Zenon DEF Start, approvalVars
<1>4. ASSUME NEW capable \in BOOLEAN, ConfigureCustom(capable)
      PROVE  UNCHANGED <<cancelled, waiters, allowed, refused, status>>
  BY <1>4, Zenon DEF ConfigureCustom, approvalVars
<1>5. ASSUME NEW id \in PendingIds, Apply(id)
      PROVE  UNCHANGED <<cancelled, waiters, allowed, refused, status>>
  BY <1>5, Zenon DEF Apply, approvalVars
<1>6. QED
  BY <1>1, <1>2, <1>3, <1>4, <1>5, Zenon DEF QuietControl

\* What hosts and submission futures may do is what RunControl lets them do,
\* and none of it answers for the run.
LEMMA HostSteps ==
  ASSUME HostActs
  PROVE  /\ Host \/ Futures
         /\ UNCHANGED <<waiters, status, turnVars>> /\ allowed \subseteq allowed'
<1>1. ASSUME NEW kind \in Direct, NEW bytes \in Sizes, Submit(kind, bytes)
      PROVE  Host /\ UNCHANGED <<waiters, status, allowed>>
  <2>1. Host
    BY <1>1, TurnAssumption DEF Host, Submissions
  <2>2. QED
    BY <1>1, <2>1, Zenon DEF Submit, approvalVars
<1>2. ASSUME NEW input \in Prepared, NEW bytes \in Sizes,
             Reserve(input[1], input[2], bytes)
      PROVE  Host /\ UNCHANGED <<waiters, status, allowed>>
  <2>1. Submissions
    <3>1. CASE input \in {"Steer", "FollowUp"} \X {FALSE}
      BY <1>2, <3>1 DEF Submissions
    <3>2. CASE input \in Deliveries \X {TRUE}
      BY <1>2, <3>2 DEF Submissions
    <3>3. QED
      BY <3>1, <3>2, TurnAssumption
  <2>2. QED
    BY <1>2, <2>1, Zenon DEF Host, Reserve, approvalVars
<1>3. ASSUME Futures PROVE UNCHANGED <<waiters, status, allowed>>
  <2>1. PICK id \in DOMAIN inflight : Poll(id) \/ Expire(id)
    BY <1>3, Zenon DEF Futures
  <2>2. ASSUME NEW bytes \in Sizes, Commit(id, bytes)
        PROVE  UNCHANGED <<waiters, status, allowed>>
    BY <2>2, Zenon DEF Commit, approvalVars
  <2>3. CASE Arm(id) \/ CheckTurn(id) \/ DeliverNextTurn(id)
    BY <2>3, Zenon DEF Arm, CheckTurn, DeliverNextTurn, approvalVars
  <2>4. CASE Resolve(id) \/ Expire(id)
    BY <2>4, Zenon DEF Resolve, Expire, Release, approvalVars
  <2>5. QED
    BY <2>1, <2>2, <2>3, <2>4, Zenon DEF Poll
<1>4. ASSUME CancelParent PROVE Host /\ UNCHANGED <<waiters, status, allowed>>
  BY <1>4, Zenon DEF CancelParent, Host, approvalVars
<1>5. ASSUME NEW id \in 1..nextId, NEW allow \in BOOLEAN, Respond(id, allow)
      PROVE  Host /\ UNCHANGED <<waiters, status>> /\ allowed \subseteq allowed'
  BY <1>5, Zenon DEF Respond, Host
<1>6. UNCHANGED turnVars
  BY Zenon DEF HostActs
<1>7. QED
  BY <1>1, <1>2, <1>3, <1>4, <1>5, <1>6, Zenon DEF HostActs

\* Each step keeps the invariant and is a step of RunControl, or none.
LEMMA OwnerStep ==
  ASSUME OwnerInv, [TurnNext]_allVars
  PROVE  OwnerInv' /\ [Next]_controlVars
<1> USE DEF OwnerInv, ApprovalsSerial
<1>1. CASE Ordinary /\ StackOK'
  <2>1. UNCHANGED <<waiters, allowed>> /\ (status' = status \/ status' = "Running")
    BY <1>1, QuietEffects DEF Ordinary
  <2>2. /\ pc \notin {"awaiting", "done", "dropped"}
        /\ pc' \notin {"awaiting", "done", "dropped"}
    BY <1>1 DEF Ordinary, Working, Resumed, Returning, Resting
  <2>3. status # "Dropped" => [Next]_controlVars
    BY <1>1, Zenon DEF Ordinary, QuietControl, Next, Owner
  <2>4. QED
    BY <1>1, <2>1, <2>2, <2>3 DEF Ordinary
<1>2. CASE Completion
  <2>1. pc \in {"accepted", "settle"} /\ pc' = "ending" /\ back' = <<>> /\ Close(TRUE)
    BY <1>2, Zenon DEF Completion, Completes, End
  <2>2. UNCHANGED <<executed, waiters, allowed>> /\ status' = "Finishing"
    BY <1>2, <2>1, Zenon DEF Completion, bodyVars, toolVars, Close
  <2>3. Next
    BY <2>1 DEF Next, Owner
  <2>4. QED
    BY <2>1, <2>2, <2>3 DEF StackOK, Returning
<1>3. CASE AskApproval
  BY <1>3 DEF AskApproval, Approve, Goto, StackOK, Returning, Next, Owner
<1>4. CASE WithdrawApproval
  <2>1. pc = "awaiting" /\ EndApproval(request) /\ pc' \in {"ending", "call"}
    BY <1>4 DEF WithdrawApproval, End, NextCall, Goto
  <2>2. UNCHANGED executed /\ back' = <<>>
    BY <1>4 DEF WithdrawApproval, End, NextCall, Goto, StackOK, Returning
  <2>3. waiters' = waiters \ {request} /\ UNCHANGED <<allowed, status>>
    BY <2>1, Zenon DEF EndApproval
  <2>4. Next
    BY <2>1 DEF Next, Owner
  <2>5. QED
    BY <2>1, <2>2, <2>3, <2>4 DEF StackOK, Returning
<1>5. CASE TakeDecision
  <2>1. pc = "awaiting" /\ EndApproval(request) /\ pc' = "decided"
    BY <1>5 DEF TakeDecision, Goto
  <2>2. UNCHANGED <<executed, back>>
    BY <1>5 DEF TakeDecision, Goto, bodyVars, toolVars
  <2>3. waiters' = waiters \ {request} /\ UNCHANGED <<allowed, status>>
    BY <2>1, Zenon DEF EndApproval
  <2>4. Next
    BY <2>1 DEF Next, Owner
  <2>5. QED
    BY <2>1, <2>2, <2>3, <2>4 DEF StackOK, Returning
<1>6. CASE ExecuteCall
  <2>1. pc = "decided" /\ pc' = "executing" /\ UNCHANGED <<back, controlVars>>
    BY <1>6 DEF ExecuteCall, Goto
  <2>2. executed' \subseteq allowed
    BY <1>6 DEF ExecuteCall, Granted, Decision
  <2>3. QED
    BY <2>1, <2>2 DEF StackOK, Returning, controlVars, approvalVars
<1>7. CASE Conclude \/ SaveOutcome \/ SaveFails
  BY <1>7 DEF Conclude, SaveOutcome, SaveFails, Goto, StackOK, Returning, controlVars,
     approvalVars, bodyVars, toolVars
<1>8. CASE Report \/ FinishRun
  <2>1. /\ pc \in {"sealing", "unprepared", "finishing"} /\ UNCHANGED <<back, executed>>
        /\ \/ Seal /\ pc' \in {"saving", "finishing"}
           \/ Finish /\ pc' = "done"
    BY <1>8 DEF Report, FinishRun, Goto, toolVars
  <2>2. /\ UNCHANGED <<waiters, allowed>>
        /\ \/ status' = "Finishing"
           \/ status' = "Finished" /\ pc' = "done"
    BY <2>1, Zenon DEF Seal, Finish, SetClosed
  <2>3. Next
    BY <2>1 DEF Next, Owner
  <2>4. QED
    BY <2>1, <2>2, <2>3 DEF StackOK, Returning
<1>9. CASE Exhaust
  BY <1>9 DEF Exhaust, placeVars, toolVars, StackOK, controlVars, approvalVars
<1>10. CASE Drop
  <2>1. pc \notin {"done", "dropped"} /\ pc' = "dropped" /\ back' = <<>> /\ DropControl
    BY <1>10, Zenon DEF Drop
  <2>2. UNCHANGED <<executed, allowed>> /\ waiters' = {} /\ status' = "Dropped"
    BY <1>10, <2>1, Zenon DEF Drop, bodyVars, toolVars, DropControl
  <2>3. Next
    BY <2>1 DEF Next, Owner
  <2>4. QED
    BY <2>1, <2>2, <2>3 DEF StackOK, Returning
<1>11. CASE HostActs
  <2>1. UNCHANGED <<pc, back, request, executed>>
    BY <1>11, HostSteps DEF turnVars, placeVars, bodyVars, toolVars
  <2>2. QED
    BY <1>11, <2>1, HostSteps DEF StackOK, Next
<1>12. CASE HostCancels
  <2>1. UNCHANGED <<pc, back, request, executed>> /\ Cancel
    BY <1>12 DEF HostCancels, placeVars, toolVars
  <2>2. UNCHANGED <<waiters, allowed>> /\ status' = "Finishing"
    BY <2>1, Zenon DEF Cancel
  <2>3. QED
    BY <2>1, <2>2 DEF StackOK, Next, Host
<1>13. CASE UNCHANGED allVars
  BY <1>13 DEF allVars, turnVars, placeVars, bodyVars, toolVars, controlVars,
     approvalVars, StackOK
<1>14. QED
  BY <1>1, <1>2, <1>3, <1>4, <1>5, <1>6, <1>7, <1>8, <1>9, <1>10, <1>11, <1>12,
     <1>13, TurnSteps

\* A run that has not started satisfies the invariant ...
LEMMA OwnerInit == TurnInit => OwnerInv
  BY DEF TurnInit, Init, OwnerInv, StackOK, Returning, ApprovalsSerial

\* ... and so does every reachable state.
LEMMA OwnerInvHolds == TurnSpec => []OwnerInv
<1>1. TurnInit => OwnerInv
  BY OwnerInit
<1>2. OwnerInv /\ [TurnNext]_allVars => OwnerInv'
  BY OwnerStep
<1>3. QED
  BY <1>1, <1>2, PTL DEF TurnSpec

\* The run waits for at most one approval, and a tool behind one runs only when
\* it was allowed (ToolDispatcher::execute_call), whatever the hosts answer.
THEOREM ApprovalsSerialHolds == TurnSpec => []ApprovalsSerial
<1>1. OwnerInv => ApprovalsSerial
  BY DEF OwnerInv
<1>2. QED
  BY <1>1, OwnerInvHolds, PTL

\* The executor implements RunControl: every step of a run is one operation of
\* the control, in a state where its owner may call it, or leaves it alone.
THEOREM ControlImplemented == TurnSpec => ControlSpec
<1>1. TurnInit => Init
  BY DEF TurnInit
<1>2. OwnerInv /\ [TurnNext]_allVars => [Next]_controlVars
  BY OwnerStep
<1>3. QED
  BY <1>1, <1>2, OwnerInvHolds, PTL DEF TurnSpec, ControlSpec, Spec

\* What is proved of any owner holds of every run.
THEOREM RunsConserveInputs == TurnSpec => []InputsConserved
  BY ControlImplemented, InputsConservedHolds, PTL DEF ControlSpec

\* No step of a run, of its hosts or of its submission futures reopens it.
THEOREM RunsStayClosed == TurnSpec => ClosedIsFinal
  BY ControlImplemented, ClosedIsFinalHolds, PTL DEF ControlSpec

-----------------------------------------------------------------------------
(* The outcome is truthful.                                                *)

Reported == {"saving", "finishing", "done", "dropped"}
Concluded == Reported \cup {"sealing"}

OutcomeInv ==
  /\ outcome = [stop |-> outcome.stop, pending |-> outcome.pending]
  /\ outcome # NoOutcome =>
       pc \in Reported /\ ~Open /\ outcome.pending = pending
  /\ result = "ok" => pc \in Concluded \cup {"ending"} /\ ~Open /\ pending = <<>>
  /\ outcome.stop = "ok" => result = "ok" /\ ~asked
  /\ asked => cancelled
  /\ result = "ok" /\ pc \in Concluded \ {"dropped"} => ~asked

\* A run that is closed keeps its queue: its hosts and futures add nothing.
LEMMA HostsKeepClosed ==
  ASSUME HostActs, ~Open
  PROVE  ~Open' /\ pending' = pending
<1>1. ASSUME NEW kind, NEW bytes, Submit(kind, bytes) PROVE FALSE
  BY <1>1, Zenon DEF Submit
<1>2. ASSUME NEW kind, NEW custom, NEW bytes, Reserve(kind, custom, bytes)
      PROVE  FALSE
  BY <1>2, Zenon DEF Reserve
<1>3. ASSUME Futures PROVE pending' = pending
  <2>1. PICK id \in DOMAIN inflight : Poll(id) \/ Expire(id)
    BY <1>3, Zenon DEF Futures
  <2>2. ASSUME NEW bytes \in Sizes, Commit(id, bytes) PROVE FALSE
    BY <2>2, Zenon DEF Commit
  <2>3. CASE Arm(id) \/ CheckTurn(id) \/ DeliverNextTurn(id)
    BY <2>3, Zenon DEF Arm, CheckTurn, DeliverNextTurn, queueVars
  <2>4. CASE Resolve(id) \/ Expire(id)
    BY <2>4, Zenon DEF Resolve, Expire, Release, queueVars
  <2>5. QED
    BY <2>1, <2>2, <2>3, <2>4, Zenon DEF Poll
<1>4. ASSUME CancelParent PROVE pending' = pending
  BY <1>4, Zenon DEF CancelParent, queueVars
<1>5. ASSUME NEW id, NEW allow, Respond(id, allow) PROVE pending' = pending
  BY <1>5, Zenon DEF Respond, queueVars
<1>6. pending' = pending
  BY <1>1, <1>2, <1>3, <1>4, <1>5, Zenon DEF HostActs
<1>7. status' = status
  BY HostSteps
<1>8. QED
  BY <1>6, <1>7 DEF Open

\* Nothing a host does takes a cancellation back.
LEMMA HostsKeepCancelled ==
  ASSUME HostActs, cancelled
  PROVE  cancelled'
<1>1. ASSUME NEW kind, NEW bytes, Submit(kind, bytes) PROVE FALSE
  BY <1>1, Zenon DEF Submit
<1>2. ASSUME NEW kind, NEW custom, NEW bytes, Reserve(kind, custom, bytes)
      PROVE  cancelled'
  BY <1>2, Zenon DEF Reserve
<1>3. ASSUME Futures PROVE cancelled' = cancelled
  <2>1. PICK id \in DOMAIN inflight : Poll(id) \/ Expire(id)
    BY <1>3, Zenon DEF Futures
  <2>2. ASSUME NEW bytes \in Sizes, Commit(id, bytes) PROVE FALSE
    BY <2>2, Zenon DEF Commit
  <2>3. CASE Arm(id) \/ CheckTurn(id) \/ DeliverNextTurn(id)
    BY <2>3, Zenon DEF Arm, CheckTurn, DeliverNextTurn
  <2>4. CASE Resolve(id) \/ Expire(id)
    BY <2>4, Zenon DEF Resolve, Expire, Release
  <2>5. QED
    BY <2>1, <2>2, <2>3, <2>4, Zenon DEF Poll
<1>4. ASSUME NEW id, NEW allow, Respond(id, allow) PROVE FALSE
  BY <1>4, Zenon DEF Respond
<1>5. ~CancelParent
  BY Zenon DEF CancelParent
<1>6. QED
  BY <1>1, <1>2, <1>3, <1>4, <1>5, Zenon DEF HostActs

\* The position found for a kind is one of that kind, and the first.
LEMMA FirstOfProperties ==
  ASSUME TypeOK, NEW kind, HasKind(kind)
  PROVE  /\ FirstOf(kind) \in 1..Len(pending)
         /\ pending[FirstOf(kind)].kind = kind
         /\ \A i \in 1..Len(pending) : pending[i].kind = kind => FirstOf(kind) <= i
<1> DEFINE Found == {i \in 1..Len(pending) : pending[i].kind = kind}
<1>1. pending \in Seq(Entry) /\ DOMAIN pending = 1..Len(pending) /\ Len(pending) \in Nat
  BY LenProperties DEF TypeOK
<1>2. Found # {} /\ Found \subseteq Nat
  BY <1>1 DEF HasKind
<1>3. FirstOf(kind) = Min(Found)
  BY <1>2 DEF FirstOf, SelectInSeq
<1> HIDE DEF Found
<1>4. \E x \in Found : \A y \in Found : x <= y
  <2>1. PICK x \in Found : \A y \in Found : <<y, x>> \notin OpToRel(<, Nat)
    BY <1>2, WFMin, NatLessThanWellFounded
  <2>2. ASSUME NEW y \in Found PROVE x <= y
    <3>1. x \in Nat /\ y \in Nat
      BY <1>2, <2>1, <2>2
    <3>2. ~(y < x)
      BY <2>1, <2>2, <3>1 DEF OpToRel
    <3>3. QED
      BY <3>1, <3>2
  <2>3. QED
    BY <2>2
<1>5. Min(Found) \in Found /\ \A y \in Found : Min(Found) <= y
  BY <1>4 DEF Min
<1>6. QED
  BY <1>3, <1>5 DEF Found

\* A queue in which neither steering, nor a follow-up, nor context is found is
\* empty: Close sees every kind of input.
LEMMA NothingQueued ==
  ASSUME TypeOK, NextInput(TRUE) = 0, ~HasKind("Context")
  PROVE  pending = <<>>
<1>1. pending \in Seq(Entry) /\ DOMAIN pending = 1..Len(pending) /\ Len(pending) \in Nat
  BY LenProperties DEF TypeOK
<1>2. ~HasKind("Steer")
  <2>1. ASSUME HasKind("Steer") PROVE FALSE
    <3>1. FirstOf("Steer") \in 1..Len(pending)
      BY <2>1, FirstOfProperties
    <3>2. QED
      BY <1>1, <2>1, <3>1 DEF NextInput
  <2>2. QED
    BY <2>1
<1>3. ~HasKind("FollowUp")
  <2>1. ASSUME HasKind("FollowUp") PROVE FALSE
    <3>1. FirstOf("FollowUp") \in 1..Len(pending)
      BY <2>1, FirstOfProperties
    <3>2. QED
      BY <1>1, <1>2, <3>1 DEF NextInput
  <2>2. QED
    BY <2>1
<1>4. ASSUME NEW i \in DOMAIN pending PROVE FALSE
  <2>1. pending[i] \in Entry
    BY <1>1, <1>4, ElementOfSeq
  <2>2. pending[i].kind \in Kinds
    BY <2>1 DEF Entry
  <2>3. QED
    BY <1>2, <1>3, <1>4, <2>2 DEF HasKind, Kinds
<1>5. Len(pending) = 0
  BY <1>1, <1>4
<1>6. QED
  BY <1>1, <1>5, EmptySeq

\* The quiet operations leave a closed run closed.
LEMMA QuietKeepsClosed ==
  ASSUME QuietControl, ~Open
  PROVE  ~Open'
<1>1. ASSUME Start PROVE status' = status
  BY <1>1 DEF Start, Open
<1>2. ASSUME ~Start PROVE status' = status
  <2>1. CASE UNCHANGED controlVars
    BY <2>1 DEF controlVars
  <2>2. CASE BindPipeline(ExecutorPipeline)
    BY <2>2, Zenon DEF BindPipeline
  <2>3. ASSUME NEW capable \in BOOLEAN, ConfigureCustom(capable)
        PROVE  status' = status
    BY <2>3, Zenon DEF ConfigureCustom
  <2>4. ASSUME NEW id \in PendingIds, Apply(id) PROVE status' = status
    BY <2>4, Zenon DEF Apply
  <2>5. QED
    BY <1>2, <2>1, <2>2, <2>3, <2>4, Zenon DEF QuietControl
<1>3. QED
  BY <1>1, <1>2 DEF Open

\* Each step keeps the outcome's invariant.
LEMMA OutcomeStep ==
  ASSUME TypeOK, OwnerInv, OutcomeInv, [TurnNext]_allVars
  PROVE  OutcomeInv'
<1> StackOK
  BY DEF OwnerInv
<1> USE DEF OutcomeInv, Reported, Concluded
<1>1. CASE Ordinary
  <2>1. pc \notin Concluded \cup {"ending"} /\ result # "ok" /\ outcome = NoOutcome
    BY <1>1 DEF Ordinary, Working, Resumed, Returning, Resting
  <2>2. outcome' = NoOutcome /\ asked' = asked /\ result' # "ok"
    BY <1>1, <2>1 DEF Ordinary
  <2>3. cancelled' = cancelled
    BY <1>1, QuietEffects DEF Ordinary
  <2>4. outcome'.stop # "ok"
    BY <2>2 DEF NoOutcome
  <2>5. QED
    BY <2>2, <2>3, <2>4 DEF NoOutcome
<1>2. CASE Completion
  <2>1. /\ pc \in {"accepted", "settle"} /\ pc' = "ending" /\ result' = "ok"
        /\ Close(TRUE)
    BY <1>2, Zenon DEF Completion, Completes, End
  <2>2. UNCHANGED <<outcome, asked>>
    BY <1>2, Zenon DEF Completion, bodyVars, reportVars
  <2>3. UNCHANGED <<pending, cancelled>> /\ status' = "Finishing"
    BY <2>1, Zenon DEF Close, queueVars
  <2>4. pending = <<>>
    BY <2>1, NothingQueued DEF Close
  <2>5. outcome = NoOutcome /\ outcome.stop # "ok"
    BY <2>1 DEF NoOutcome
  <2>6. QED
    BY <2>1, <2>2, <2>3, <2>4, <2>5 DEF Open
<1>3. CASE AskApproval \/ WithdrawApproval \/ TakeDecision \/ ExecuteCall
  <2>1. /\ pc \in {"call", "awaiting", "decided"}
        /\ UNCHANGED <<outcome, asked>>
        /\ result' = result \/ result' = "cancelled"
    BY <1>3 DEF AskApproval, WithdrawApproval, TakeDecision, ExecuteCall, Goto, End,
       NextCall, bodyVars, reportVars
  <2>2. cancelled' = cancelled
    BY <1>3, Zenon DEF AskApproval, WithdrawApproval, TakeDecision, ExecuteCall,
       Approve, EndApproval, controlVars
  <2>3. result # "ok" /\ result' # "ok" /\ outcome = NoOutcome
    BY <2>1
  <2>4. outcome'.stop # "ok"
    BY <2>1, <2>3 DEF NoOutcome
  <2>5. QED
    BY <2>1, <2>2, <2>3, <2>4
<1>4. CASE Conclude
  <2>1. /\ pc = "ending" /\ pc' = "sealing" /\ outcome = NoOutcome
        /\ UNCHANGED <<outcome, asked, status, pending, cancelled>>
        /\ result' = "ok" => result = "ok" /\ ~cancelled
    BY <1>4 DEF Conclude, bodyVars, reportVars, controlVars, queueVars
  <2>2. QED
    BY <2>1 DEF NoOutcome, Open
<1>5. CASE Report
  <2>1. /\ pc \in {"sealing", "unprepared"} /\ Seal
        /\ outcome' = [stop |-> result, pending |-> pending]
        /\ pc' \in {"saving", "finishing"} /\ UNCHANGED <<result, asked>>
    BY <1>5 DEF Report, Goto
  <2>2. UNCHANGED <<pending, cancelled>> /\ status' = "Finishing"
    BY <2>1, Zenon DEF Seal, SetClosed, queueVars
  <2>3. QED
    BY <2>1, <2>2 DEF Open
<1>6. CASE SaveOutcome \/ SaveFails \/ FinishRun
  <2>1. /\ pc \in {"saving", "finishing"} /\ pc' \in {"finishing", "done"}
        /\ UNCHANGED <<result, asked>>
        /\ \/ outcome' = outcome
           \/ outcome' = [outcome EXCEPT !.stop = IF @ = "ok" THEN "failed" ELSE @]
    BY <1>6 DEF SaveOutcome, SaveFails, FinishRun, Goto, reportVars
  <2>2. UNCHANGED <<pending, cancelled>>
    BY <1>6, Zenon DEF SaveOutcome, SaveFails, FinishRun, Finish, SetClosed,
       controlVars, queueVars
  <2>3. status' = status \/ status' = "Finished"
    BY <1>6, Zenon DEF SaveOutcome, SaveFails, FinishRun, Finish, SetClosed,
       controlVars
  <2>4. /\ outcome' = [stop |-> outcome'.stop, pending |-> outcome.pending]
        /\ outcome'.stop = outcome.stop \/ (outcome.stop = "ok" /\ outcome'.stop = "failed")
    <3>1. CASE outcome' = outcome
      BY <3>1
    <3>2. CASE outcome' = [outcome EXCEPT !.stop = IF @ = "ok" THEN "failed" ELSE @]
      <4> DEFINE stop == outcome.stop
                 queue == outcome.pending
                 later == IF stop = "ok" THEN "failed" ELSE stop
      <4>1. outcome' = [outcome EXCEPT !.stop = later]
        BY <3>2, Zenon
      <4>2. outcome = [stop |-> stop, pending |-> queue]
        OBVIOUS
      <4> HIDE DEF stop, queue, later
      <4>3. outcome' = [stop |-> later, pending |-> queue]
        BY <4>1, <4>2
      <4>4. QED
        BY <4>3 DEF stop, queue, later
    <3>3. QED
      BY <2>1, <3>1, <3>2
  <2>5. outcome = NoOutcome => outcome' = NoOutcome
    BY <2>4 DEF NoOutcome
  <2>6. QED
    BY <2>1, <2>2, <2>3, <2>4, <2>5 DEF Open
<1>7. CASE Exhaust
  <2>1. UNCHANGED <<pc, result, outcome, asked, status, pending, cancelled>>
    BY <1>7 DEF Exhaust, placeVars, controlVars, queueVars
  <2>2. QED
    BY <2>1 DEF Open
<1>8. CASE Drop
  <2>1. pc' = "dropped" /\ UNCHANGED <<result, outcome, asked>> /\ DropControl
    BY <1>8, Zenon DEF Drop, bodyVars, reportVars
  <2>2. status' = "Dropped" /\ cancelled' = TRUE /\ pending' = pending
    BY <2>1, Zenon DEF DropControl, queueVars
  <2>3. QED
    BY <2>1, <2>2 DEF Open
<1>9. CASE HostActs
  <2>1. UNCHANGED <<pc, result, outcome, asked>>
    BY <1>9, HostSteps DEF turnVars, placeVars, bodyVars, reportVars
  <2>2. cancelled => cancelled'
    BY <1>9, HostsKeepCancelled
  <2>3. ~Open => ~Open' /\ pending' = pending
    BY <1>9, HostsKeepClosed
  <2>4. QED
    BY <2>1, <2>2, <2>3
<1>10. CASE HostCancels
  <2>1. Cancel /\ asked' = TRUE /\ UNCHANGED <<pc, result, outcome>>
    BY <1>10 DEF HostCancels, placeVars
  <2>2. Open /\ cancelled' = TRUE
    BY <2>1, Zenon DEF Cancel
  <2>3. QED
    BY <2>1, <2>2
<1>11. CASE UNCHANGED allVars
  BY <1>11 DEF allVars, turnVars, placeVars, bodyVars, reportVars, controlVars,
     queueVars, Open
<1>12. QED
  BY <1>1, <1>2, <1>3, <1>4, <1>5, <1>6, <1>7, <1>8, <1>9, <1>10, <1>11, TurnSteps

\* The invariant of the outcome holds in every reachable state.
LEMMA OutcomeInvHolds == TurnSpec => [](TypeOK /\ InputsConserved /\ OutcomeInv)
<1>1. TurnInit => OutcomeInv
  BY DEF TurnInit, OutcomeInv, NoOutcome
<1>2. TypeOK /\ OwnerInv /\ OutcomeInv /\ [TurnNext]_allVars => OutcomeInv'
  BY OutcomeStep
<1>3. TurnSpec => []TypeOK
  BY ControlImplemented, TypeCorrect, PTL DEF ControlSpec
<1>4. QED
  BY <1>1, <1>2, <1>3, OwnerInvHolds, RunsConserveInputs, PTL DEF TurnSpec

\* A completed run consumed every input it ever accepted (RunControl::next closes
\* in the critical section in which it finds nothing).
THEOREM CompletedConsumedHolds == TurnSpec => []CompletedConsumed
<1>1. TypeOK /\ InputsConserved /\ OutcomeInv => CompletedConsumed
  <2> SUFFICES ASSUME TypeOK, InputsConserved, OutcomeInv, outcome.stop = "ok"
               PROVE  pending = <<>> /\ accepted = AppliedIds
    BY DEF CompletedConsumed
  <2>1. pending = <<>>
    BY DEF OutcomeInv
  <2>2. PendingIds = {}
    BY <2>1 DEF PendingIds
  <2>3. QED
    BY <2>1, <2>2 DEF InputsConserved
<1>2. QED
  BY <1>1, OutcomeInvHolds, PTL

\* Whatever its stop, an outcome reports exactly the accepted inputs that were
\* not applied (TurnExecutor::run_scoped_input seals before it reads them).
THEOREM OutcomeCompleteHolds == TurnSpec => []OutcomeComplete
<1>1. TypeOK /\ InputsConserved /\ OutcomeInv => OutcomeComplete
  <2> SUFFICES ASSUME InputsConserved, OutcomeInv, outcome # NoOutcome
               PROVE  {outcome.pending[i].id : i \in DOMAIN outcome.pending}
                        = accepted \ AppliedIds
    BY DEF OutcomeComplete
  <2>1. {outcome.pending[i].id : i \in DOMAIN outcome.pending} = PendingIds
    BY DEF OutcomeInv, PendingIds
  <2>2. QED
    BY <2>1 DEF InputsConserved
<1>2. QED
  BY <1>1, OutcomeInvHolds, PTL

\* A cancel that a handle saw accepted is never reported as a completion.
THEOREM CancelHonouredHolds == TurnSpec => []CancelHonoured
<1>1. OutcomeInv => CancelHonoured
  BY DEF OutcomeInv, CancelHonoured
<1>2. QED
  BY <1>1, OutcomeInvHolds, PTL

-----------------------------------------------------------------------------
(* Where a run is going.                                                   *)

\* The place a run is at, or the one below the phases that return to it.
Destination == IF pc \in Returning THEN Last(back) ELSE pc

\* The place below a well formed stack is not moved by popping it, and is
\* reached by popping the last phase.
LEMMA PoppedLast ==
  ASSUME NEW stack, WellStacked(stack)
  PROVE  /\ Last(stack) \in Resting
         /\ Head(stack) \in Returning => Last(Tail(stack)) = Last(stack)
         /\ Head(stack) \notin Returning => Head(stack) = Last(stack)
<1>1. stack \in Seq(Resumed \cup Resting) /\ stack # <<>> /\ Len(stack) \in Nat \ {0}
  BY EmptySeq, LenProperties DEF WellStacked
<1>2. Head(stack) = stack[1] /\ stack[1] \in Resumed \cup Resting
  BY <1>1, ElementOfSeq, HeadTailProperties
<1>3. Last(stack) = stack[Len(stack)] /\ stack[Len(stack)] \in Resting
  BY <1>1 DEF Last, WellStacked
<1>4. ASSUME Head(stack) \in Returning PROVE Last(Tail(stack)) = Last(stack)
  <2>1. Head(stack) \notin Resting
    BY <1>4 DEF Resumed, Returning, Resting
  <2>2. Len(stack) # 1
    BY <1>2, <1>3, <2>1
  <2>3. /\ Len(Tail(stack)) = Len(stack) - 1
        /\ \A i \in 1..(Len(stack) - 1) : Tail(stack)[i] = stack[i + 1]
    BY <1>1, HeadTailProperties
  <2>4. Tail(stack)[Len(stack) - 1] = stack[Len(stack)]
    BY <1>1, <2>2, <2>3
  <2>5. QED
    BY <2>3, <2>4 DEF Last
<1>5. ASSUME Head(stack) \notin Returning PROVE Head(stack) = Last(stack)
  <2>1. stack[1] \in Resting /\ 1 \in 1..Len(stack)
    BY <1>1, <1>2, <1>5 DEF Resumed, Returning
  <2>2. Len(stack) = 1
    BY <2>1 DEF WellStacked
  <2>3. QED
    BY <1>2, <1>3, <2>2
<1>6. QED
  BY <1>3, <1>4, <1>5

\* Nor by pushing a phase on it.
LEMMA PushedLast ==
  ASSUME NEW stack, WellStacked(stack), NEW phase \in Resumed
  PROVE  Last(<<phase>> \o stack) = Last(stack)
<1> DEFINE longer == <<phase>> \o stack
<1>1. stack \in Seq(Resumed \cup Resting) /\ Len(stack) \in Nat \ {0}
  BY EmptySeq, LenProperties DEF WellStacked
<1>2. <<phase>> \in Seq(Resumed \cup Resting) /\ Len(<<phase>>) = 1
  OBVIOUS
<1>3. /\ Len(longer) = 1 + Len(stack)
      /\ \A i \in 1..Len(longer) :
           longer[i] = IF i <= 1 THEN <<phase>>[i] ELSE stack[i - 1]
  BY <1>1, <1>2, ConcatProperties
<1> HIDE DEF longer
<1>4. longer[Len(longer)] = stack[Len(stack)]
  BY <1>1, <1>3
<1>5. QED
  BY <1>4 DEF Last, longer

\* The stacks a phase is called with.
LEMMA FreshLast ==
  /\ \A rest : Last(<<rest>>) = rest
  /\ \A phase, rest : Last(<<phase, rest>>) = rest
  /\ \A outer, phase, rest : Last(<<outer, phase, rest>>) = rest
  BY DEF Last

\* The phases that return go where they were called to go, or end the run.
LEMMA CommitGoing ==
  ASSUME StackOK,
         \/ FlushDone \/ FlushNext \/ ApplyDone \/ ApplyNext \/ CommitInput \/ Stored
         \/ StoreFails \/ InputApplied \/ Save \/ BoundaryDeclines \/ BoundaryEnds
         \/ \E more \in BOOLEAN : BoundaryCommits(more)
  PROVE  /\ Destination \in Resting
         /\ \/ Destination' = Destination /\ result' = result
            \/ Destination' = "ending" /\ result' # "ok" /\ result' # "none"
         /\ UNCHANGED <<lifeVars, completions, calls>>
<1>1. pc \in Returning
  BY DEF FlushDone, FlushNext, ApplyDone, ApplyNext, CommitInput, Stored, StoreFails,
         InputApplied, Save, BoundaryDeclines, BoundaryEnds, BoundaryCommits, Returning
<1>2. WellStacked(back) /\ Destination = Last(back)
  BY <1>1 DEF StackOK, Destination
<1>3. /\ Head(back) \in Resumed \cup Resting
      /\ Head(back) \in Returning => Last(Tail(back)) = Last(back)
      /\ Head(back) \notin Returning => Head(back) = Last(back)
      /\ Last(back) \in Resting
  BY <1>2, Popped, PoppedLast
<1>4. \A phase \in Resumed : Last(<<phase>> \o back) = Last(back)
  BY <1>2, PushedLast
<1> USE <1>1, <1>2, <1>3, <1>4
<1> USE DEF bodyVars, lifeVars, flowVars, recordVars, toolVars, reportVars,
            Resumed, Returning, Resting, Destination, Goto, Call, End, Return, Handle
<1>5. CASE FlushDone
  BY <1>5 DEF FlushDone
<1>6. CASE FlushNext
  BY <1>6 DEF FlushNext
<1>7. CASE ApplyDone
  BY <1>7 DEF ApplyDone
<1>8. CASE ApplyNext
  BY <1>8 DEF ApplyNext
<1>9. CASE CommitInput
  BY <1>9 DEF CommitInput
<1>10. CASE Stored
  BY <1>10 DEF Stored
<1>11. CASE StoreFails
  BY <1>11 DEF StoreFails, Fail
<1>12. CASE InputApplied
  BY <1>12 DEF InputApplied
<1>13. CASE Save
  BY <1>13 DEF Save
<1>14. CASE BoundaryDeclines
  BY <1>14 DEF BoundaryDeclines
<1>15. CASE BoundaryEnds
  BY <1>15 DEF BoundaryEnds
<1>16. ASSUME NEW more \in BOOLEAN, BoundaryCommits(more)
       PROVE  /\ \/ Destination' = Destination /\ result' = result
                 \/ Destination' = "ending" /\ result' # "ok" /\ result' # "none"
              /\ UNCHANGED <<lifeVars, completions, calls>>
  BY <1>16 DEF BoundaryCommits
<1>17. QED
  BY <1>5, <1>6, <1>7, <1>8, <1>9, <1>10, <1>11, <1>12, <1>13, <1>14, <1>15, <1>16

-----------------------------------------------------------------------------
(* The lifecycle hosts observe is the documented one.                      *)

\* The states the lifecycle may report while the run is at a place.
ReportedAt(place) ==
  CASE place \in {"idle", "bound"} -> {"Idle"}
    [] place \in {"preparing", "admit", "check", "unprepared"} -> {"Preparing"}
    [] place = "head" -> {"Preparing", "VerifyingCompletion", "ExecutingTools"}
    [] place \in {"compact", "model", "answered", "tools"} -> {"AwaitingModel"}
    [] place = "compacting" -> {"Compacting"}
    [] place \in {"turnEnd", "verify", "accepted", "settle", "feedback"} ->
         {"VerifyingCompletion"}
    [] place \in {"call", "awaiting", "decided", "executing"} -> {"ExecutingTools"}
    [] place \in {"ending", "sealing", "saving", "finishing"} ->
         {"Preparing"} \cup Lifecycle!Working
    [] OTHER -> {"Idle", "Preparing", "Completed"} \cup Lifecycle!Working
                  \cup Lifecycle!Unsuccessful

LifeInv ==
  /\ round \in 0..MaxRounds
  /\ machine = AgentState(machine.state, round)
  /\ machine.state \in ReportedAt(Destination)
  /\ machine.state \in {"Idle", "Preparing"} => round = 0
  /\ result = "ok" /\ pc # "done" => machine.state = "VerifyingCompletion"

LEMMA LifeStep ==
  ASSUME OwnerInv, OutcomeInv, LifeInv, [TurnNext]_allVars
  PROVE  LifeInv' /\ [Lifecycle!Next]_machine
<1> StackOK
  BY DEF OwnerInv
<1> MaxRounds \in Nat \ {0}
  BY TurnAssumption
<1> USE FreshLast
<1> USE DEF LifeInv, ReportedAt, AgentState, Lifecycle!Working, Lifecycle!Unsuccessful,
  Lifecycle!Next, Lifecycle!AgentRunState, Lifecycle!valid_transition,
  Lifecycle!SameRound, Lifecycle!NextRoundEdge
<1>1. CASE \/ FlushDone \/ FlushNext \/ ApplyDone \/ ApplyNext \/ CommitInput
           \/ Stored \/ StoreFails \/ InputApplied \/ Save \/ BoundaryDeclines
           \/ BoundaryEnds \/ \E more \in BOOLEAN : BoundaryCommits(more)
  <2>1. UNCHANGED <<machine, round>> /\ Destination \in Resting
    BY <1>1, CommitGoing, Zenon DEF lifeVars
  <2>2. \/ Destination' = Destination /\ result' = result
        \/ Destination' = "ending" /\ result' # "ok"
    BY <1>1, CommitGoing, Zenon
  <2>3. pc # "done"
    BY <1>1 DEF FlushDone, FlushNext, ApplyDone, ApplyNext, CommitInput, Stored,
       StoreFails, InputApplied, Save, BoundaryDeclines, BoundaryEnds, BoundaryCommits
  <2>4. QED
    BY <2>1, <2>2, <2>3 DEF Resting
<1> USE DEF bodyVars, lifeVars, flowVars, recordVars, toolVars, reportVars,
            Resumed, Returning, Destination, Goto, Call, End, Handle
<1>2. CASE Bind
  BY <1>2 DEF Bind
<1>3. CASE Begin
  BY <1>3 DEF Begin
<1>4. CASE PrepareInput
  BY <1>4 DEF PrepareInput
<1>5. CASE CheckBinding
  BY <1>5 DEF CheckBinding
<1>6. ASSUME NEW capable \in BOOLEAN, Admit(capable)
      PROVE  LifeInv' /\ [Lifecycle!Next]_machine
  BY <1>6 DEF Admit
<1>7. CASE NextRound
  <2>1. /\ pc = "head" /\ round' = round + 1 /\ round < MaxRounds
        /\ machine' = [state |-> "AwaitingModel", round |-> round + 1]
        /\ result' = result /\ pc' \in {"apply", "flush"}
    BY <1>7 DEF NextRound
  <2>2. Destination' = "compact"
    BY <1>7 DEF NextRound
  <2>3. machine.round = round /\ machine'.state = "AwaitingModel" /\ machine'.round = round + 1
    BY <2>1
  <2>4. Lifecycle!Next
    <3>1. CASE machine.state = "Preparing"
      BY <2>1, <2>3, <3>1
    <3>2. CASE machine.state # "Preparing"
      BY <2>1, <2>3, <3>2
    <3>3. QED
      BY <3>1, <3>2
  <2>5. LifeInv'
    BY <2>1, <2>2, <2>3 DEF OutcomeInv, Concluded, Reported
  <2>6. QED
    BY <2>4, <2>5
<1>8. CASE RoundsSpent
  BY <1>8 DEF RoundsSpent
<1>9. CASE CompactSkipped \/ CompactStarts \/ CompactEnds
  BY <1>9 DEF CompactSkipped, CompactStarts, CompactEnds
<1>10. ASSUME NEW n \in 0..MaxCalls, ModelAnswers(n)
       PROVE  LifeInv' /\ [Lifecycle!Next]_machine
  BY <1>10 DEF ModelAnswers
<1>11. CASE ModelCancels \/ ModelStops
  BY <1>11 DEF ModelCancels, ModelStops
<1>12. CASE Candidate
  BY <1>12 DEF Candidate
<1>13. CASE TurnEnds
  BY <1>13 DEF TurnEnds
<1>14. CASE Accept \/ Reject
  BY <1>14 DEF Accept, Reject
<1>15. CASE AddFeedback
  BY <1>15 DEF AddFeedback
<1>16. CASE Settling \/ Settle
  <2>1. /\ pc \in {"accepted", "settle"} /\ UNCHANGED <<machine, round>>
        /\ \/ Destination' \in {"head", "settle"} /\ result' = result
           \/ Destination' = "ending" /\ result' = "ok"
    <3>1. CASE MoreInput /\ UNCHANGED bodyVars
      BY <1>16, <3>1 DEF MoreInput, Settling, Settle
    <3>2. CASE Completes /\ UNCHANGED bodyVars
      BY <1>16, <3>2 DEF Completes, Settling, Settle
    <3>3. CASE ~MoreInput /\ ~Completes
      <4>1. /\ pc \in {"accepted", "settle"} /\ UNCHANGED bodyVars
            /\ \/ Call("boundary", <<"flush", "settle">>)
               \/ Call("flush", <<"settle">>)
               \/ Goto("head")
        BY <1>16, <3>3, Zenon DEF Settling, Settle
      <4>2. QED
        BY <4>1
    <3>4. QED
      BY <1>16, <3>1, <3>2, <3>3 DEF Settling, Settle
  <2>2. pc' # "done" /\ pc # "done" /\ machine.state = "VerifyingCompletion"
    BY <1>16, <2>1 DEF Settling, Settle, MoreInput, Completes
  <2>3. QED
    BY <2>1, <2>2
<1>17. CASE StartTools \/ ExecuteTools \/ ToolsDone
  BY <1>17 DEF StartTools, ExecuteTools, ToolsDone
<1>18. CASE \/ SkipCall \/ NeedsNoApproval \/ ApprovalFails \/ DenyCall \/ CallReturns
            \/ ResultLost
  BY <1>18 DEF SkipCall, NeedsNoApproval, ApprovalFails, DenyCall, CallReturns,
     ResultLost, NextCall
<1>19. CASE AskApproval \/ WithdrawApproval \/ TakeDecision \/ ExecuteCall
  BY <1>19 DEF AskApproval, WithdrawApproval, TakeDecision, ExecuteCall, NextCall
<1>20. CASE Interrupted
  BY <1>20, PoppedLast DEF Interrupted, Interruptible, StackOK, Resting
<1>21. CASE StepFails
  BY <1>21, PoppedLast DEF StepFails, StackOK, Resting
<1>22. CASE Conclude \/ Report \/ SaveOutcome \/ SaveFails
  BY <1>22 DEF Conclude, Report, SaveOutcome, SaveFails
<1>23. CASE FinishRun
  BY <1>23 DEF FinishRun, Terminal, OutcomeInv
<1>24. CASE Exhaust
  BY <1>24 DEF Exhaust, placeVars
<1>25. CASE Drop
  BY <1>25 DEF Drop
<1>26. CASE HostActs \/ HostCancels
  BY <1>26 DEF HostActs, HostCancels, turnVars, placeVars
<1>27. CASE UNCHANGED allVars
  BY <1>27 DEF allVars, turnVars, placeVars
<1>28. QED
  BY <1>1, <1>2, <1>3, <1>4, <1>5, <1>6, <1>7, <1>8, <1>9, <1>10, <1>11, <1>12,
     <1>13, <1>14, <1>15, <1>16, <1>17, <1>18, <1>19, <1>20, <1>21, <1>22, <1>23,
     <1>24, <1>25, <1>26, <1>27 DEF TurnNext, Advance, Answers

\* The lifecycle's invariant holds in every reachable state.
LEMMA LifeInvHolds == TurnSpec => []LifeInv
<1>1. TurnInit => LifeInv
  BY TurnAssumption DEF TurnInit, LifeInv, ReportedAt, Destination, Returning,
     AgentState, Lifecycle!Working, Lifecycle!Unsuccessful
<1>2. OwnerInv /\ OutcomeInv /\ LifeInv /\ [TurnNext]_allVars => LifeInv'
  BY LifeStep
<1>3. QED
  BY <1>1, <1>2, OwnerInvHolds, OutcomeInvHolds, PTL DEF TurnSpec

\* The executor implements AgentRun: whatever hosts do and wherever it is
\* interrupted, a run requests no transition of its state machine but the
\* documented ones (state.rs, valid_transition), and a completed run ends from
\* the verification of its candidate.
THEOREM LifecycleImplemented == TurnSpec => LifecycleSpec
<1>1. TurnInit => Lifecycle!Init
  BY DEF TurnInit, AgentState, Lifecycle!Init
<1>2. OwnerInv /\ OutcomeInv /\ LifeInv /\ [TurnNext]_allVars => [Lifecycle!Next]_machine
  BY LifeStep
<1>3. QED
  BY <1>1, <1>2, OwnerInvHolds, OutcomeInvHolds, LifeInvHolds, PTL
  DEF TurnSpec, LifecycleSpec, Lifecycle!Spec

-----------------------------------------------------------------------------
(* The message being committed, and the queue it came from.                *)

\* The k-th of a queue is this input, and no input of its kind is before it.
OldestAt(k, queue, id) ==
  /\ queue[k].id = id
  /\ \A j \in 1..(k - 1) : queue[j].kind # queue[k].kind

\* An input is on its way to the journal.
InHand == pc = "commit" \/ (pc = "store" /\ item.what = "input")

HandInv ==
  /\ pc = "commit" => item.what = "input"
  /\ InHand => \E k \in DOMAIN pending : OldestAt(k, pending, item.number)

\* Taking up a message, or going on with it.
Handling == \/ FlushNext \/ ApplyNext \/ CommitInput \/ Stored \/ Save \/ AddFeedback
            \/ \E more \in BOOLEAN : BoundaryCommits(more)

\* Every other step leaves the queue, or is a host's, and takes up no message.
LEMMA Elsewhere ==
  ASSUME StackOK, [TurnNext]_allVars, ~HostActs, ~Handling
  PROVE  /\ UNCHANGED <<pending, applied>>
         /\ \/ UNCHANGED <<pc, back, item>>
            \/ pc' \notin {"commit", "store"} /\ item' \in {item, NoItem}
<1> DEFINE Away ==
      /\ UNCHANGED <<pending, applied>>
      /\ \/ UNCHANGED <<pc, back, item>>
         \/ pc' \notin {"commit", "store"} /\ item' \in {item, NoItem}
<1> USE DEF controlVars, queueVars, Goto, Call, End, Handle
<1>1. CASE Bind \/ Begin
  BY <1>1 DEF Bind, BindPipeline, Begin, Start
<1>2. CASE PrepareInput \/ CheckBinding \/ RoundsSpent
  BY <1>2 DEF PrepareInput, CheckBinding, RoundsSpent
<1>3. ASSUME NEW capable \in BOOLEAN, Admit(capable)
      PROVE  Away
  BY <1>3 DEF Admit, ConfigureCustom
<1>4. CASE NextRound
  BY <1>4 DEF NextRound
<1>5. CASE FlushDone \/ ApplyDone \/ InputApplied \/ BoundaryDeclines \/ BoundaryEnds
  <2>1. pc \in Returning /\ UNCHANGED <<pending, applied, item>>
    BY <1>5 DEF FlushDone, ApplyDone, InputApplied, BoundaryDeclines, BoundaryEnds,
       Return, Returning
  <2>2. WellStacked(back)
    BY <2>1 DEF StackOK
  <2>3. Head(back) \notin {"commit", "store"}
    BY <2>2, Popped DEF Resumed, Resting
  <2>4. pc' \notin {"commit", "store"}
    BY <1>5, <2>3 DEF FlushDone, ApplyDone, InputApplied, BoundaryDeclines,
       BoundaryEnds, Return
  <2>5. QED
    BY <2>1, <2>4
<1>6. CASE StoreFails
  BY <1>6 DEF StoreFails, Fail
<1>7. CASE CompactSkipped \/ CompactStarts \/ CompactEnds
  BY <1>7 DEF CompactSkipped, CompactStarts, CompactEnds
<1>8. ASSUME NEW n \in 0..MaxCalls, ModelAnswers(n)
       PROVE  Away
  BY <1>8 DEF ModelAnswers
<1>9. CASE ModelCancels \/ ModelStops \/ Candidate \/ TurnEnds
  BY <1>9 DEF ModelCancels, ModelStops, Candidate, TurnEnds
<1>10. CASE Accept \/ Reject
  BY <1>10 DEF Accept, Reject
<1>11. CASE Settling \/ Settle
  <2>1. \/ Completes
        \/ UNCHANGED controlVars /\ Call("save", <<"apply", "head">>)
        \/ UNCHANGED controlVars /\ Call("boundary", <<"flush", "settle">>)
        \/ UNCHANGED controlVars /\ Call("flush", <<"settle">>)
        \/ UNCHANGED controlVars /\ Goto("head")
    BY <1>11, Zenon DEF Settling, Settle, MoreInput
  <2>2. ASSUME Completes PROVE Away
    <3>1. UNCHANGED <<pending, applied>>
      BY <2>2, Zenon DEF Completes, Close
    <3>2. QED
      BY <2>2, <3>1 DEF Completes
  <2>3. QED
    BY <2>1, <2>2
<1>12. CASE StartTools \/ ExecuteTools \/ ToolsDone
  BY <1>12 DEF StartTools, ExecuteTools, ToolsDone
<1>13. CASE \/ SkipCall \/ NeedsNoApproval \/ ApprovalFails \/ DenyCall \/ CallReturns
            \/ ResultLost
  BY <1>13 DEF SkipCall, NeedsNoApproval, ApprovalFails, DenyCall, CallReturns,
     ResultLost, NextCall
<1>14. CASE AskApproval
  BY <1>14 DEF AskApproval, Approve
<1>15. CASE WithdrawApproval \/ TakeDecision
  BY <1>15 DEF WithdrawApproval, TakeDecision, EndApproval, NextCall
<1>16. CASE ExecuteCall
  BY <1>16 DEF ExecuteCall
<1>17. CASE Interrupted \/ StepFails
  BY <1>17 DEF Interrupted, StepFails
<1>18. CASE Conclude \/ SaveOutcome \/ SaveFails
  BY <1>18 DEF Conclude, SaveOutcome, SaveFails
<1>19. CASE Report \/ FinishRun
  BY <1>19 DEF Report, Seal, FinishRun, Finish, SetClosed
<1>20. CASE Exhaust
  BY <1>20 DEF Exhaust, placeVars
<1>21. CASE Drop
  BY <1>21 DEF Drop, DropControl
<1>22. CASE HostCancels
  BY <1>22 DEF HostCancels, Cancel, placeVars
<1>23. CASE UNCHANGED allVars
  BY <1>23 DEF allVars, turnVars, placeVars
<1>24. QED
  BY <1>1, <1>2, <1>3, <1>4, <1>5, <1>6, <1>7, <1>8, <1>9, <1>10, <1>11, <1>12,
     <1>13, <1>14, <1>15, <1>16, <1>17, <1>18, <1>19, <1>20, <1>21, <1>22, <1>23
  DEF TurnNext, Advance, Answers, Handling

\* Hosts and submission futures only ever add to the end of the queue.
LEMMA HostsAppend ==
  ASSUME TypeOK, HostActs
  PROVE  /\ UNCHANGED <<applied, turnVars>>
         /\ \/ pending' = pending
            \/ \E entry \in Entry : pending' = Append(pending, entry)
<1> DEFINE Appends == /\ applied' = applied
                      /\ \/ pending' = pending
                         \/ \E entry \in Entry : pending' = Append(pending, entry)
<1>1. ASSUME NEW kind \in Direct, NEW bytes \in Sizes, Submit(kind, bytes)
      PROVE  Appends
  <2> DEFINE entry == [id |-> nextId, kind |-> kind, bytes |-> bytes,
                       custom |-> FALSE, prepared |-> FALSE, reserved |-> FALSE]
  <2>1. entry \in Entry
    BY LimitsAssumption, TurnAssumption DEF TypeOK, Entry, Kinds
  <2>2. pending' = Append(pending, entry) /\ applied' = applied
    BY <1>1 DEF Submit
  <2> HIDE DEF entry
  <2>3. QED
    BY <2>1, <2>2
<1>2. ASSUME NEW input \in Prepared, NEW bytes \in Sizes,
             Reserve(input[1], input[2], bytes)
      PROVE  Appends
  BY <1>2, Zenon DEF Reserve, queueVars
<1>3. ASSUME Futures PROVE Appends
  <2>1. PICK id \in DOMAIN inflight : Poll(id) \/ Expire(id)
    BY <1>3, Zenon DEF Futures
  <2>2. ASSUME NEW bytes \in Sizes, Commit(id, bytes) PROVE Appends
    <3>1. \E entry \in Entry : pending' = Append(pending, entry)
      BY <2>2, CommittedEntry
    <3>2. applied' = applied
      BY <2>2, Zenon DEF Commit
    <3>3. QED
      BY <3>1, <3>2
  <2>3. CASE Arm(id) \/ CheckTurn(id) \/ DeliverNextTurn(id)
    BY <2>3, Zenon DEF Arm, CheckTurn, DeliverNextTurn, queueVars
  <2>4. CASE Resolve(id) \/ Expire(id)
    BY <2>4, Zenon DEF Resolve, Expire, Release, queueVars
  <2>5. QED
    BY <2>1, <2>2, <2>3, <2>4, Zenon DEF Poll
<1>4. ASSUME CancelParent PROVE Appends
  BY <1>4, Zenon DEF CancelParent, queueVars
<1>5. ASSUME NEW id, NEW allow, Respond(id, allow) PROVE Appends
  BY <1>5, Zenon DEF Respond, queueVars
<1>6. Appends
  BY <1>1, <1>2, <1>3, <1>4, <1>5, Zenon DEF HostActs
<1>7. UNCHANGED turnVars
  BY Zenon DEF HostActs
<1>8. QED
  BY <1>6, <1>7

\* What is oldest of its kind stays so when the queue grows at its end.
LEMMA StaysOldest ==
  ASSUME NEW queue \in Seq(Entry), NEW entry \in Entry, NEW id,
         NEW k \in DOMAIN queue, OldestAt(k, queue, id)
  PROVE  k \in DOMAIN Append(queue, entry) /\ OldestAt(k, Append(queue, entry), id)
<1>1. /\ DOMAIN Append(queue, entry) = 1..(Len(queue) + 1)
      /\ DOMAIN queue = 1..Len(queue) /\ Len(queue) \in Nat
      /\ \A i \in DOMAIN queue : Append(queue, entry)[i] = queue[i]
  BY AppendedEntries
<1> DEFINE longer == Append(queue, entry)
<1> HIDE DEF longer
<1>2. /\ DOMAIN longer = 1..(Len(queue) + 1) /\ \A i \in DOMAIN queue : longer[i] = queue[i]
  BY <1>1 DEF longer
<1>3. k \in DOMAIN longer /\ \A j \in 1..k : longer[j] = queue[j]
  BY <1>1, <1>2
<1>4. OldestAt(k, longer, id)
  BY <1>1, <1>3 DEF OldestAt
<1>5. QED
  BY <1>3, <1>4 DEF longer

\* The input next() reads, and the context that is flushed.
LEMMA NextOldest ==
  ASSUME TypeOK
  PROVE  /\ HasKind("Context") =>
              /\ FirstOf("Context") \in DOMAIN pending
              /\ pending[FirstOf("Context")].kind = "Context"
              /\ OldestAt(FirstOf("Context"), pending, pending[FirstOf("Context")].id)
         /\ \A followUp \in BOOLEAN : NextInput(followUp) # 0 =>
              /\ NextInput(followUp) \in DOMAIN pending
              /\ OldestAt(NextInput(followUp), pending, pending[NextInput(followUp)].id)
              /\ ~followUp => pending[NextInput(followUp)].kind # "FollowUp"
<1>1. DOMAIN pending = 1..Len(pending) /\ Len(pending) \in Nat
  BY LenProperties DEF TypeOK
<1>2. ASSUME NEW kind, HasKind(kind)
      PROVE  /\ FirstOf(kind) \in DOMAIN pending
             /\ pending[FirstOf(kind)].kind = kind
             /\ OldestAt(FirstOf(kind), pending, pending[FirstOf(kind)].id)
  <2>1. /\ FirstOf(kind) \in 1..Len(pending)
        /\ pending[FirstOf(kind)].kind = kind
        /\ \A i \in 1..Len(pending) : pending[i].kind = kind => FirstOf(kind) <= i
    BY <1>2, FirstOfProperties
  <2>2. ASSUME NEW j \in 1..(FirstOf(kind) - 1) PROVE pending[j].kind # kind
    <3>1. j \in 1..Len(pending) /\ ~(FirstOf(kind) <= j)
      BY <1>1, <2>1
    <3>2. QED
      BY <2>1, <3>1
  <2>3. QED
    BY <1>1, <2>1, <2>2 DEF OldestAt
<1>3. ASSUME ~HasKind("FollowUp") PROVE FirstOf("FollowUp") = 0
  <2> DEFINE Found == {i \in 1..Len(pending) : pending[i].kind = "FollowUp"}
  <2>1. Found = {}
    BY <1>1, <1>3 DEF HasKind
  <2>2. QED
    BY <2>1 DEF FirstOf, SelectInSeq
<1>4. ASSUME NEW followUp \in BOOLEAN, NextInput(followUp) # 0
      PROVE  /\ NextInput(followUp) \in DOMAIN pending
             /\ OldestAt(NextInput(followUp), pending, pending[NextInput(followUp)].id)
             /\ ~followUp => pending[NextInput(followUp)].kind # "FollowUp"
  <2>1. CASE HasKind("Steer")
    BY <1>2, <2>1 DEF NextInput
  <2>2. CASE ~HasKind("Steer")
    <3>1. followUp /\ NextInput(followUp) = FirstOf("FollowUp")
      BY <1>4, <2>2 DEF NextInput
    <3>2. HasKind("FollowUp")
      BY <1>3, <1>4, <3>1
    <3>3. QED
      BY <1>2, <3>1, <3>2
  <2>3. QED
    BY <2>1, <2>2
<1>5. QED
  BY <1>2, <1>4

\* Storing an input applies the entry in hand.
LEMMA StoredInput ==
  ASSUME TypeOK, InputsConserved, HandInv, Stored, item.what = "input"
  PROVE  \E k \in DOMAIN pending :
           /\ pending[k] \in Entry /\ pending[k].id = item.number
           /\ applied' = Append(applied, pending[k])
           /\ OldestAt(k, pending, item.number)
           /\ item.number \notin AppliedIds
<1>1. pc = "store" /\ Apply(item.number)
  BY DEF Stored
<1>2. PICK k \in DOMAIN pending : OldestAt(k, pending, item.number)
  BY <1>1 DEF HandInv, InHand
<1>3. PICK i \in DOMAIN pending :
        pending[i].id = item.number /\ applied' = Append(applied, pending[i])
  BY <1>1, Zenon DEF Apply
<1>4. pending[k].id = item.number
  BY <1>2 DEF OldestAt
<1>5. i = k
  BY <1>3, <1>4 DEF InputsConserved, Distinct
<1>6. pending[k] \in Entry
  BY ElementOfSeq DEF TypeOK
<1>7. item.number \in PendingIds
  BY <1>4 DEF PendingIds
<1>8. item.number \notin AppliedIds
  BY <1>7 DEF InputsConserved
<1>9. QED
  BY <1>2, <1>3, <1>4, <1>5, <1>6, <1>8

\* An input is taken up only when it is the oldest of its kind, and nothing
\* that happens until it is stored changes that.
LEMMA HandStep ==
  ASSUME TypeOK, OwnerInv, HandInv, [TurnNext]_allVars
  PROVE  HandInv'
<1> StackOK
  BY DEF OwnerInv
<1> USE DEF HandInv, InHand
<1>1. CASE FlushNext
  <2>1. UNCHANGED pending
    BY <1>1 DEF FlushNext, controlVars, queueVars
  <2>2. CASE pc' = "save"
    BY <2>1, <2>2
  <2>3. CASE pc' # "save"
    <3>1. /\ HasKind("Context") /\ pc' = "commit"
          /\ item' = Input(pending[FirstOf("Context")].id)
      BY <1>1, <2>3 DEF FlushNext, Call, Handle
    <3>2. item'.what = "input" /\ item'.number = pending[FirstOf("Context")].id
      BY <3>1 DEF Input, Item
    <3>3. QED
      BY <2>1, <3>1, <3>2, NextOldest
  <2>4. QED
    BY <2>2, <2>3
<1>2. CASE ApplyNext
  <2>1. UNCHANGED pending
    BY <1>2 DEF ApplyNext, controlVars, queueVars
  <2>2. CASE pc' = "ending"
    BY <2>1, <2>2
  <2>3. CASE pc' # "ending"
    <3>1. /\ NextInput(FollowUp) # 0 /\ pc' = "commit"
          /\ item' = Input(pending[NextInput(FollowUp)].id)
      BY <1>2, <2>3 DEF ApplyNext, End, Handle
    <3>2. item'.what = "input" /\ item'.number = pending[NextInput(FollowUp)].id
      BY <3>1 DEF Input, Item
    <3>3. FollowUp \in BOOLEAN
      BY DEF FollowUp
    <3>4. QED
      BY <2>1, <3>1, <3>2, <3>3, NextOldest
  <2>4. QED
    BY <2>2, <2>3
<1>3. CASE CommitInput
  BY <1>3 DEF CommitInput, Call, controlVars, queueVars
<1>4. CASE Stored
  <2>1. pc = "store" /\ pc' = Head(back)
    BY <1>4 DEF Stored
  <2>2. pc' \notin {"commit", "store"}
    BY <2>1, Popped DEF StackOK, Returning, Resumed, Resting
  <2>3. QED
    BY <2>2
<1>5. CASE Save
  <2>1. pc = "save" /\ (Handle(Answer, "store", back) \/ Return)
    BY <1>5 DEF Save
  <2>2. CASE Handle(Answer, "store", back)
    BY <2>2 DEF Handle, Answer, Item
  <2>3. CASE Return
    <3>1. pc' \notin {"commit", "store"}
      BY <2>1, <2>3, Popped DEF Return, Call, StackOK, Returning, Resumed, Resting
    <3>2. QED
      BY <3>1
  <2>4. QED
    BY <2>1, <2>2, <2>3
<1>6. CASE AddFeedback
  BY <1>6 DEF AddFeedback, Handle, Feedback, Item
<1>7. ASSUME NEW more \in BOOLEAN, BoundaryCommits(more) PROVE HandInv'
  BY <1>7 DEF BoundaryCommits, Handle, End, Item
<1>8. CASE HostActs
  <2>1. UNCHANGED <<pc, item>>
    BY <1>8, HostsAppend DEF turnVars, placeVars
  <2>2. CASE ~InHand
    BY <2>1, <2>2
  <2>3. CASE InHand
    <3>1. PICK k \in DOMAIN pending : OldestAt(k, pending, item.number)
      BY <2>3
    <3>2. k \in DOMAIN pending' /\ OldestAt(k, pending', item.number)
      <4>1. CASE pending' = pending
        BY <3>1, <4>1
      <4>2. ASSUME NEW entry \in Entry, pending' = Append(pending, entry)
            PROVE  k \in DOMAIN pending' /\ OldestAt(k, pending', item.number)
        BY <3>1, <4>2, StaysOldest DEF TypeOK
      <4>3. QED
        BY <1>8, <4>1, <4>2, HostsAppend
    <3>3. QED
      BY <2>1, <3>2
  <2>4. QED
    BY <2>2, <2>3
<1>9. CASE ~Handling /\ ~HostActs
  <2>1. CASE UNCHANGED <<pc, item, pending>>
    BY <2>1
  <2>2. CASE pc' \notin {"commit", "store"}
    BY <2>2
  <2>3. QED
    BY <1>9, <2>1, <2>2, Elsewhere
<1>10. QED
  BY <1>1, <1>2, <1>3, <1>4, <1>5, <1>6, <1>7, <1>8, <1>9 DEF Handling

\* The input in hand stays the oldest of its kind in every reachable state.
LEMMA HandInvHolds == TurnSpec => [](TypeOK /\ HandInv)
<1>1. TurnInit => HandInv
  BY DEF TurnInit, HandInv, InHand
<1>2. TypeOK /\ OwnerInv /\ HandInv /\ [TurnNext]_allVars => HandInv'
  BY HandStep
<1>3. TurnSpec => []TypeOK
  BY ControlImplemented, TypeCorrect, PTL DEF ControlSpec
<1>4. QED
  BY <1>1, <1>2, <1>3, OwnerInvHolds, PTL DEF TurnSpec

\* Whatever is queued, committed and drained in between, each input a run
\* applies is the oldest queued one of its kind (RunControl::next,
\* next_context), for every limit and every mix of kinds.
THEOREM FifoPerKindHolds == TurnSpec => FifoPerKind
<1>1. ASSUME TypeOK, InputsConserved, OwnerInv, HandInv, [TurnNext]_allVars
      PROVE  [AppliesOldest]_allVars
  <2> StackOK
    BY <1>1 DEF OwnerInv
  <2> SUFFICES ASSUME applied' # applied
               PROVE  AppliesOldest
    BY DEF AppliesOldest
  <2>1. Stored /\ item.what = "input"
    <3>1. ASSUME \/ FlushNext \/ ApplyNext \/ CommitInput \/ Save \/ AddFeedback
                 \/ \E more \in BOOLEAN : BoundaryCommits(more)
          PROVE  FALSE
      BY <3>1 DEF FlushNext, ApplyNext, CommitInput, Save, AddFeedback,
         BoundaryCommits, controlVars
    <3>2. ~HostActs
      BY <1>1, HostsAppend
    <3>3. Handling
      BY <1>1, <3>2, Elsewhere
    <3>4. Stored
      BY <3>1, <3>3 DEF Handling
    <3>5. QED
      BY <3>4 DEF Stored, controlVars
  <2>2. PICK k \in DOMAIN pending :
          /\ pending[k] \in Entry /\ pending[k].id = item.number
          /\ applied' = Append(applied, pending[k])
          /\ OldestAt(k, pending, item.number)
    BY <1>1, <2>1, StoredInput
  <2>3. Last(applied') = pending[k]
    <3>1. applied \in Seq(Entry)
      BY <1>1 DEF TypeOK
    <3>2. QED
      BY <2>2, <3>1, AppendProperties DEF Last
  <2>4. DOMAIN pending = 1..Len(pending) /\ Len(pending) \in Nat
    BY <1>1, LenProperties DEF TypeOK
  <2>5. ASSUME NEW i \in DOMAIN pending, pending[i].kind = pending[k].kind
        PROVE  k \in 1..i
    <3>1. i \notin 1..(k - 1)
      BY <2>2, <2>5 DEF OldestAt
    <3>2. QED
      BY <2>4, <3>1
  <2>6. QED
    BY <2>3, <2>5 DEF AppliesOldest
<1>2. TurnSpec => [](TypeOK /\ InputsConserved /\ OwnerInv /\ HandInv)
  BY HandInvHolds, RunsConserveInputs, OwnerInvHolds, PTL
<1>3. QED
  BY <1>1, <1>2, PTL DEF TurnSpec, FifoPerKind

-----------------------------------------------------------------------------
(* A run has a result exactly when it is over.                             *)

Over == {"ending", "unprepared", "sealing", "saving", "finishing", "done"}
EndInv ==
  /\ pc \in Over => result # "none"
  /\ result # "none" => pc \in Over \cup {"dropped"}

LEMMA EndStep ==
  ASSUME OwnerInv, EndInv, [TurnNext]_allVars
  PROVE  EndInv'
<1> USE DEF EndInv, Over
<1>1. CASE Ordinary
  BY <1>1 DEF Ordinary, Working, Returning, Resting
<1>2. CASE Completion
  BY <1>2, Zenon DEF Completion, Completes, End
<1>3. CASE AskApproval \/ WithdrawApproval \/ TakeDecision \/ ExecuteCall
  BY <1>3 DEF AskApproval, WithdrawApproval, TakeDecision, ExecuteCall, Goto, End,
     NextCall
<1>4. CASE Conclude \/ Report \/ SaveOutcome \/ SaveFails \/ FinishRun
  BY <1>4 DEF Conclude, Report, SaveOutcome, SaveFails, FinishRun, Goto
<1>5. CASE Exhaust \/ Drop \/ HostActs \/ HostCancels \/ UNCHANGED allVars
  BY <1>5 DEF Exhaust, Drop, HostActs, HostCancels, allVars, turnVars, placeVars
<1>6. QED
  BY <1>1, <1>2, <1>3, <1>4, <1>5, TurnSteps DEF OwnerInv

\* A run is over when it has a result, in every reachable state.
LEMMA EndInvHolds == TurnSpec => []EndInv
<1>1. TurnInit => EndInv
  BY DEF TurnInit, EndInv, Over
<1>2. OwnerInv /\ EndInv /\ [TurnNext]_allVars => EndInv'
  BY EndStep
<1>3. QED
  BY <1>1, <1>2, OwnerInvHolds, PTL DEF TurnSpec

-----------------------------------------------------------------------------
(* The journal and the transcript.                                         *)

Saved == transcript = journaled
OneMore(short, long) == \E m \in ToSet(long) : long = Append(short, m)
\* The journal lacks the last message, and holds no other like it.
Lacks(m) == transcript = Append(journaled, m)
Behind == Lacks(Answer) /\ Answer \notin ToSet(journaled)

\* Where the candidate may still be unsaved.
BehindAt ==
  \/ pc \in {"answered", "save"}
  \/ pc = "flush" /\ back = <<"save", "boundary", "turnEnd">>
  \/ /\ ~LifecycleHooks
     /\ \/ pc = "verify"
        \/ pc = "flush" /\ back = <<"verify">>
        \/ pc \in {"accepted", "settle"} /\ ~again
        \/ pc = "flush" /\ back = <<"settle">> /\ ~again

\* What is being stored is the message the journal lacks, or one that neither
\* of them has.
Storing ==
  \/ Lacks(item)
  \/ /\ Saved /\ item \notin ToSet(transcript)
     /\ \/ item.what = "input"
        \/ item = Item("hook", Len(transcript) + 1)

InStep ==
  \/ pc # "store" /\ Saved
  \/ BehindAt /\ Behind
  \/ pc = "store" /\ Storing

InputsOf(messages) == {m.number : m \in {x \in ToSet(messages) : x.what = "input"}}

\* Two messages the run writes are never the same one.
Numbered ==
  \A m \in ToSet(transcript) :
    /\ m.what = "answer" => m.number <= round
    /\ m.what = "answer" /\ Destination \in {"compact", "compacting", "model"}
         => m.number < round
    /\ m.what = "hook" => m.number <= Len(transcript)

Agreed ==
  /\ transcript \in Seq(Items) /\ journaled \in Seq(Items) /\ item \in Items
  /\ \/ Saved \/ OneMore(journaled, transcript)
     \/ result # "none" /\ OneMore(transcript, journaled)
  /\ pc \notin Over \cup {"dropped"} => InStep
  /\ result = "none" => InputsOf(journaled) = AppliedIds

RecordInv == Agreed /\ Numbered

\* What appending a message to a record adds to it.
LEMMA Grown ==
  ASSUME NEW s \in Seq(Items), NEW m \in Items
  PROVE  /\ Append(s, m) \in Seq(Items) /\ Append(s, m) # s
         /\ ToSet(Append(s, m)) = ToSet(s) \cup {m}
         /\ Len(Append(s, m)) = Len(s) + 1 /\ Len(s) \in Nat
         /\ m.what = "input" => InputsOf(Append(s, m)) = InputsOf(s) \cup {m.number}
         /\ m.what # "input" => InputsOf(Append(s, m)) = InputsOf(s)
<1> DEFINE t == Append(s, m)
<1>1. /\ t \in Seq(Items) /\ Len(t) = Len(s) + 1 /\ Len(s) \in Nat
      /\ \A i \in 1..Len(s) : t[i] = s[i]
      /\ t[Len(s) + 1] = m /\ DOMAIN t = 1..(Len(s) + 1) /\ DOMAIN s = 1..Len(s)
  BY AppendProperties, LenProperties
<1> HIDE DEF t
<1>2. ToSet(t) = ToSet(s) \cup {m}
  <2>1. DOMAIN t = DOMAIN s \cup {Len(s) + 1}
    BY <1>1
  <2>2. QED
    BY <1>1, <2>1 DEF ToSet
<1>3. /\ m.what = "input" => InputsOf(t) = InputsOf(s) \cup {m.number}
      /\ m.what # "input" => InputsOf(t) = InputsOf(s)
  BY <1>2 DEF InputsOf
<1>4. t # s
  BY <1>1
<1>5. QED
  BY <1>1, <1>2, <1>3, <1>4 DEF t

\* Only the steps that commit a message, take an answer or end the run touch
\* the records.
Recording == \/ CommitInput \/ Stored \/ StoreFails \/ AddFeedback
             \/ (\E n \in 0..MaxCalls : ModelAnswers(n)) \/ SaveOutcome \/ SaveFails

LEMMA RecordFrame ==
  ASSUME [TurnNext]_allVars, ~Recording
  PROVE  UNCHANGED <<transcript, journaled>>
<1> USE DEF bodyVars, recordVars
<1>1. CASE \/ Bind \/ Begin \/ PrepareInput \/ CheckBinding \/ NextRound \/ RoundsSpent
  BY <1>1 DEF Bind, Begin, PrepareInput, CheckBinding, NextRound, RoundsSpent
<1>2. ASSUME NEW capable \in BOOLEAN, Admit(capable)
      PROVE  UNCHANGED <<transcript, journaled>>
  BY <1>2 DEF Admit
<1>3. CASE \/ FlushDone \/ FlushNext \/ ApplyDone \/ ApplyNext \/ InputApplied \/ Save
           \/ BoundaryDeclines \/ BoundaryEnds
  BY <1>3 DEF FlushDone, FlushNext, ApplyDone, ApplyNext, InputApplied, Save,
     BoundaryDeclines, BoundaryEnds
<1>4. ASSUME NEW more \in BOOLEAN, BoundaryCommits(more)
      PROVE  UNCHANGED <<transcript, journaled>>
  BY <1>4 DEF BoundaryCommits
<1>5. CASE \/ CompactSkipped \/ CompactStarts \/ CompactEnds \/ ModelCancels
           \/ ModelStops \/ Candidate \/ TurnEnds \/ Accept \/ Reject
  BY <1>5 DEF CompactSkipped, CompactStarts, CompactEnds, ModelCancels, ModelStops,
     Candidate, TurnEnds, Accept, Reject
<1>6. CASE Settling \/ Settle
  BY <1>6, Zenon DEF Settling, Settle
<1>7. CASE \/ StartTools \/ ExecuteTools \/ ToolsDone \/ SkipCall \/ NeedsNoApproval
           \/ AskApproval \/ ApprovalFails \/ WithdrawApproval \/ TakeDecision
           \/ DenyCall \/ ExecuteCall \/ CallReturns \/ ResultLost
  BY <1>7 DEF StartTools, ExecuteTools, ToolsDone, SkipCall, NeedsNoApproval,
     AskApproval, ApprovalFails, WithdrawApproval, TakeDecision, DenyCall,
     ExecuteCall, CallReturns, ResultLost, NextCall
<1>8. CASE \/ Interrupted \/ StepFails \/ Exhaust \/ Conclude \/ Report \/ FinishRun
           \/ Drop \/ HostActs \/ HostCancels \/ UNCHANGED allVars
  BY <1>8 DEF Interrupted, StepFails, Exhaust, Conclude, Report, FinishRun, Drop,
     HostActs, HostCancels, allVars, turnVars
<1>9. QED
  BY <1>1, <1>2, <1>3, <1>4, <1>5, <1>6, <1>7, <1>8
  DEF TurnNext, Advance, Answers, Recording

\* Where the answer of the current round is still to come.
Early == {"compact", "compacting", "model"}

\* A run gets there only by starting a round.
LEMMA EarlyStep ==
  ASSUME StackOK, [TurnNext]_allVars
  PROVE  \/ NextRound
         \/ round' = round /\ (Destination' \in Early => Destination \in Early)
<1> DEFINE Later == round' = round /\ (Destination' \in Early => Destination \in Early)
<1>1. CASE \/ FlushDone \/ FlushNext \/ ApplyDone \/ ApplyNext \/ CommitInput
           \/ Stored \/ StoreFails \/ InputApplied \/ Save \/ BoundaryDeclines
           \/ BoundaryEnds \/ \E more \in BOOLEAN : BoundaryCommits(more)
  <2>1. round' = round
    BY <1>1, CommitGoing, Zenon DEF lifeVars
  <2>2. Destination' = Destination \/ Destination' = "ending"
    BY <1>1, CommitGoing, Zenon
  <2>3. QED
    BY <2>1, <2>2 DEF Early
<1> USE FreshLast
<1> USE DEF bodyVars, lifeVars, Returning, Destination, Goto, Call, End, Handle, Early
<1>2. CASE Bind \/ Begin \/ PrepareInput \/ CheckBinding \/ RoundsSpent
  BY <1>2 DEF Bind, Begin, PrepareInput, CheckBinding, RoundsSpent
<1>3. ASSUME NEW capable \in BOOLEAN, Admit(capable) PROVE Later
  BY <1>3 DEF Admit
<1>4. CASE CompactSkipped \/ CompactStarts \/ CompactEnds
  BY <1>4 DEF CompactSkipped, CompactStarts, CompactEnds
<1>5. ASSUME NEW n \in 0..MaxCalls, ModelAnswers(n) PROVE Later
  BY <1>5 DEF ModelAnswers
<1>6. CASE ModelCancels \/ ModelStops \/ Candidate \/ TurnEnds
  BY <1>6 DEF ModelCancels, ModelStops, Candidate, TurnEnds
<1>7. CASE Accept \/ Reject \/ AddFeedback
  BY <1>7 DEF Accept, Reject, AddFeedback
<1>8. CASE Settling \/ Settle
  <2>1. /\ UNCHANGED bodyVars
        /\ \/ End("ok")
           \/ Call("save", <<"apply", "head">>)
           \/ Call("boundary", <<"flush", "settle">>)
           \/ Call("flush", <<"settle">>)
           \/ Goto("head")
    BY <1>8, Zenon DEF Settling, Settle, MoreInput, Completes
  <2>2. pc \in {"accepted", "settle"}
    BY <1>8, Zenon DEF Settling, Settle
  <2>3. QED
    BY <2>1, <2>2
<1>9. CASE \/ StartTools \/ ExecuteTools \/ ToolsDone \/ SkipCall \/ NeedsNoApproval
           \/ ApprovalFails \/ DenyCall \/ CallReturns \/ ResultLost
  BY <1>9 DEF StartTools, ExecuteTools, ToolsDone, SkipCall, NeedsNoApproval,
     ApprovalFails, DenyCall, CallReturns, ResultLost, NextCall
<1>10. CASE AskApproval \/ WithdrawApproval \/ TakeDecision \/ ExecuteCall
  BY <1>10 DEF AskApproval, WithdrawApproval, TakeDecision, ExecuteCall, NextCall
<1>11. CASE Interrupted \/ StepFails
  BY <1>11 DEF Interrupted, StepFails
<1>12. CASE Conclude \/ Report \/ SaveOutcome \/ SaveFails \/ FinishRun
  BY <1>12 DEF Conclude, Report, SaveOutcome, SaveFails, FinishRun
<1>13. CASE Exhaust \/ Drop
  BY <1>13 DEF Exhaust, Drop, placeVars
<1>14. CASE HostActs \/ HostCancels \/ UNCHANGED allVars
  BY <1>14 DEF HostActs, HostCancels, allVars, turnVars, placeVars
<1>15. QED
  BY <1>1, <1>2, <1>3, <1>4, <1>5, <1>6, <1>7, <1>8, <1>9, <1>10, <1>11, <1>12,
     <1>13, <1>14 DEF TurnNext, Advance, Answers

\* What the run writes are messages.
LEMMA Messages ==
  ASSUME TypeOK, LifeInv, transcript \in Seq(Items)
  PROVE  /\ NoItem \in Items /\ Answer \in Items /\ Feedback \in Items
         /\ Item("hook", Len(transcript) + 1) \in Items
         /\ Answer.what = "answer" /\ Feedback.what = "feedback"
         /\ \A k \in DOMAIN pending : Input(pending[k].id) \in Items
         /\ \A id : Input(id).what = "input" /\ Input(id).number = id
<1>1. round \in Nat /\ Len(transcript) + 1 \in Nat
  BY LenProperties, TurnAssumption DEF LifeInv
<1>2. ASSUME NEW k \in DOMAIN pending PROVE pending[k].id \in Nat
  <2>1. pending \in Seq(Entry)
    BY DEF TypeOK
  <2>2. pending[k] \in Entry
    BY <2>1, ElementOfSeq, LenProperties
  <2>3. QED
    BY <2>2 DEF Entry
<1>3. QED
  BY <1>1, <1>2 DEF NoItem, Answer, Feedback, Input, Item, Items

\* From a place where the journal holds the whole transcript.
LEMMA SavedStep ==
  ASSUME TypeOK, InputsConserved, OwnerInv, LifeInv, HandInv, EndInv, RecordInv,
         [TurnNext]_allVars, pc \notin Over \cup {"dropped"}, pc # "store", Saved
  PROVE  Agreed'
<1> StackOK
  BY DEF OwnerInv
<1>1. result = "none"
  BY DEF EndInv
<1>2. /\ transcript \in Seq(Items) /\ journaled \in Seq(Items) /\ item \in Items
      /\ transcript = journaled /\ InputsOf(journaled) = AppliedIds
  BY <1>1 DEF RecordInv, Agreed, Saved
<1>3. /\ NoItem \in Items /\ Answer \in Items /\ Feedback \in Items
      /\ Item("hook", Len(transcript) + 1) \in Items
      /\ Answer.what = "answer" /\ Feedback.what = "feedback"
      /\ \A k \in DOMAIN pending : Input(pending[k].id) \in Items
  BY <1>2, Messages
<1>4. ~(Stored \/ StoreFails)
  BY DEF Stored, StoreFails
<1>5. UNCHANGED applied
  <2>1. CASE HostActs
    BY <2>1, HostsAppend
  <2>2. CASE ~HostActs /\ ~Handling
    BY <2>2, Elsewhere
  <2>3. CASE Handling
    BY <1>4, <2>3 DEF Handling, FlushNext, ApplyNext, CommitInput, Save, AddFeedback,
       BoundaryCommits, controlVars
  <2>4. QED
    BY <2>1, <2>2, <2>3
<1>6. AppliedIds' = AppliedIds
  BY <1>5 DEF AppliedIds
<1>7. CASE ~Recording
  <2>1. UNCHANGED <<transcript, journaled>>
    BY <1>7, RecordFrame
  <2>2. item' \in Items /\ (pc' = "store" => InStep')
    <3>1. CASE HostActs
      BY <1>2, <3>1, HostsAppend DEF turnVars, placeVars
    <3>2. CASE ~HostActs /\ ~Handling
      BY <1>2, <1>3, <3>2, Elsewhere
    <3>3. CASE FlushNext
      <4>1. HasKind("Context") => FirstOf("Context") \in DOMAIN pending
        BY NextOldest
      <4>2. QED
        BY <1>2, <1>3, <3>3, <4>1 DEF FlushNext, Call, Handle
    <3>4. CASE ApplyNext
      <4>1. NextInput(FollowUp) # 0 => NextInput(FollowUp) \in DOMAIN pending
        BY NextOldest DEF FollowUp
      <4>2. QED
        BY <1>2, <1>3, <3>4, <4>1 DEF ApplyNext, End, Handle
    <3>5. CASE Save
      <4>1. ~Unsaved /\ pc = "save"
        BY <1>2, <3>5 DEF Unsaved, Save
      <4>2. UNCHANGED item /\ pc' = Head(back)
        BY <3>5, <4>1 DEF Save, Return, Call
      <4>3. pc' # "store"
        BY <4>1, <4>2, Popped DEF StackOK, Returning, Resumed, Resting
      <4>4. QED
        BY <1>2, <4>2, <4>3
    <3>6. ASSUME NEW more \in BOOLEAN, BoundaryCommits(more)
          PROVE  item' \in Items /\ (pc' = "store" => InStep')
      <4>1. CASE pc' # "store"
        BY <1>3, <3>6, <4>1 DEF BoundaryCommits, End, Handle
      <4>2. CASE pc' = "store"
        <5>1. item' = Item("hook", Len(transcript) + 1)
          BY <3>6, <4>2 DEF BoundaryCommits, End, Handle
        <5>2. item'.what = "hook" /\ item'.number = Len(transcript) + 1
          BY <5>1 DEF Item
        <5>3. Len(transcript) \in Nat
          BY <1>2, LenProperties
        <5>4. item' \notin ToSet(transcript)
          BY <5>2, <5>3 DEF RecordInv, Numbered
        <5>5. InStep'
          BY <1>2, <2>1, <4>2, <5>1, <5>4 DEF InStep, Storing, Saved
        <5>6. QED
          BY <1>3, <5>1, <5>5
      <4>3. QED
        BY <4>1, <4>2
    <3>7. QED
      BY <1>4, <1>7, <3>1, <3>2, <3>3, <3>4, <3>5, <3>6 DEF Handling, Recording
  <2>3. InStep'
    BY <1>2, <2>1, <2>2 DEF InStep, Saved
  <2>4. QED
    BY <1>2, <1>6, <2>1, <2>2, <2>3 DEF Agreed, Saved
<1>8. CASE CommitInput
  <2>1. /\ pc = "commit" /\ pc' = "store" /\ item' = item /\ journaled' = journaled
        /\ transcript' = IF Finalizers THEN transcript ELSE Append(transcript, item)
    BY <1>8 DEF CommitInput, Call
  <2>2. item.what = "input" /\ item.number \notin AppliedIds
    <3>1. PICK k \in DOMAIN pending : OldestAt(k, pending, item.number)
      BY <2>1 DEF HandInv, InHand
    <3>2. item.number \in PendingIds
      BY <3>1 DEF OldestAt, PendingIds
    <3>3. QED
      BY <2>1, <3>2 DEF HandInv, InputsConserved
  <2>3. item \notin ToSet(transcript)
    BY <1>2, <2>2 DEF InputsOf
  <2>4. CASE Finalizers
    <3>1. InStep'
      BY <1>2, <2>1, <2>2, <2>3, <2>4 DEF InStep, Storing, Saved
    <3>2. QED
      BY <1>2, <1>6, <2>1, <2>4, <3>1 DEF Agreed, Saved
  <2>5. CASE ~Finalizers
    <3>1. transcript' = Append(journaled', item') /\ item' \in ToSet(transcript')
          /\ transcript' \in Seq(Items)
      BY <1>2, <2>1, <2>5, Grown
    <3>2. InStep'
      BY <2>1, <3>1 DEF InStep, Storing, Lacks
    <3>3. QED
      BY <1>2, <1>6, <2>1, <3>1, <3>2 DEF Agreed, OneMore
  <2>6. QED
    BY <2>4, <2>5
<1>9. CASE AddFeedback
  <2>1. /\ pc' = "store" /\ item' = Feedback /\ journaled' = journaled
        /\ transcript' = Append(transcript, Feedback)
    BY <1>9 DEF AddFeedback, Handle
  <2>2. transcript' = Append(journaled', item') /\ item' \in ToSet(transcript')
        /\ transcript' \in Seq(Items)
    BY <1>2, <1>3, <2>1, Grown
  <2>3. InStep'
    BY <2>1, <2>2 DEF InStep, Storing, Lacks
  <2>4. QED
    BY <1>2, <1>3, <1>6, <2>1, <2>2, <2>3 DEF Agreed, OneMore
<1>10. ASSUME NEW n \in 0..MaxCalls, ModelAnswers(n)
       PROVE  Agreed'
  <2>1. /\ pc = "model" /\ pc' \in {"save", "answered"} /\ item' = item
        /\ journaled' = journaled /\ transcript' = Append(transcript, Answer)
        /\ round' = round
    BY <1>10 DEF ModelAnswers, Call, Goto, lifeVars
  <2>2. Answer \notin ToSet(journaled)
    <3>1. Destination = "model" /\ round \in Nat
      BY <2>1, TurnAssumption DEF Destination, Returning, LifeInv
    <3>2. Answer.what = "answer" /\ Answer.number = round
      BY DEF Answer, Item
    <3>3. QED
      BY <1>2, <3>1, <3>2 DEF RecordInv, Numbered
  <2>3. /\ transcript' = Append(journaled', Answer) /\ Answer \in ToSet(transcript')
        /\ transcript' \in Seq(Items) /\ Answer' = Answer
    BY <1>2, <1>3, <2>1, Grown DEF Answer
  <2>4. InStep'
    BY <2>1, <2>2, <2>3 DEF InStep, Behind, BehindAt, Lacks
  <2>5. QED
    BY <1>2, <1>6, <2>1, <2>3, <2>4 DEF Agreed, OneMore
<1>11. ~(SaveOutcome \/ SaveFails)
  BY DEF SaveOutcome, SaveFails, Over
<1>12. QED
  BY <1>4, <1>7, <1>8, <1>9, <1>10, <1>11 DEF Recording

\* From a place where the candidate may be unsaved, and is.
LEMMA BehindStep ==
  ASSUME TypeOK, OwnerInv, LifeInv, EndInv, RecordInv, [TurnNext]_allVars,
         pc \notin Over \cup {"dropped"}, BehindAt, Behind
  PROVE  Agreed'
<1> StackOK
  BY DEF OwnerInv
<1>1. result = "none"
  BY DEF EndInv
<1>2. /\ transcript \in Seq(Items) /\ journaled \in Seq(Items) /\ item \in Items
      /\ InputsOf(journaled) = AppliedIds
      /\ transcript = Append(journaled, Answer) /\ Answer \notin ToSet(journaled)
  BY <1>1 DEF RecordInv, Agreed, Behind, Lacks
<1>3. Answer \in Items /\ NoItem \in Items /\ Answer \in ToSet(transcript) /\ Unsaved
  BY <1>2, Messages, Grown DEF Unsaved
<1>4. ~Recording /\ ~NextRound
  BY DEF Recording, CommitInput, Stored, StoreFails, AddFeedback, ModelAnswers,
     SaveOutcome, SaveFails, BehindAt, Over, NextRound
<1>5. UNCHANGED <<transcript, journaled>>
  BY <1>4, RecordFrame
<1>6. Answer' = Answer
  BY <1>4, EarlyStep DEF Answer
<1>7. applied' = applied /\ item' \in Items
  <2>1. CASE HostActs
    BY <1>2, <2>1, HostsAppend DEF turnVars, placeVars
  <2>2. CASE ~HostActs /\ ~Handling
    BY <1>2, <1>3, <2>2, Elsewhere
  <2>3. CASE Handling
    <3>1. CASE FlushNext
      BY <1>2, <1>3, <3>1 DEF FlushNext, Call, controlVars
    <3>2. CASE Save
      BY <1>2, <1>3, <3>2 DEF Save, Handle, controlVars
    <3>3. ~(ApplyNext \/ \E more \in BOOLEAN : BoundaryCommits(more))
      BY DEF ApplyNext, BoundaryCommits, BehindAt
    <3>4. QED
      BY <1>4, <2>3, <3>1, <3>2, <3>3 DEF Handling, Recording
  <2>4. QED
    BY <2>1, <2>2, <2>3
<1>8. pc' \in Over \cup {"dropped"} \/ BehindAt' \/ (pc' = "store" /\ item' = Answer)
  <2>1. \/ ModelStops \/ Candidate \/ StartTools \/ Save \/ Accept \/ Reject
        \/ Settling \/ Settle \/ FlushDone \/ FlushNext \/ Interrupted \/ StepFails
        \/ Exhaust \/ Drop \/ HostActs \/ HostCancels \/ UNCHANGED allVars
    BY DEF BehindAt, Over, TurnNext, Advance, Answers, Bind, Begin, PrepareInput,
       Admit, CheckBinding, NextRound, RoundsSpent, ApplyDone, ApplyNext, CommitInput,
       Stored, StoreFails, InputApplied, AddFeedback, CompactSkipped, CompactStarts,
       CompactEnds, BoundaryEnds, BoundaryDeclines, BoundaryCommits, TurnEnds,
       ExecuteTools, ToolsDone, SkipCall, NeedsNoApproval, AskApproval, ApprovalFails,
       WithdrawApproval, TakeDecision, DenyCall, ExecuteCall, Conclude, Report,
       SaveOutcome, SaveFails, FinishRun, ModelAnswers, ModelCancels, CallReturns,
       ResultLost
  <2> USE DEF BehindAt, Over, bodyVars, flowVars, Goto, Call, End, Handle
  <2>2. CASE ModelStops \/ Candidate \/ StartTools
    BY <2>2 DEF ModelStops, Candidate, StartTools
  <2>3. CASE Save
    BY <1>3, <2>3 DEF Save
  <2>4. CASE Accept \/ Reject
    BY <2>4 DEF Accept, Reject
  <2>5. CASE Settling \/ Settle
    <3>1. ~LifecycleHooks /\ ~again /\ pc \in {"accepted", "settle"}
      BY <2>5 DEF Settling, Settle
    <3>2. /\ again' = again
          /\ \/ End("ok")
             \/ Call("save", <<"apply", "head">>)
             \/ Call("flush", <<"settle">>)
      <4>1. UNCHANGED bodyVars
        BY <2>5, Zenon DEF Settling, Settle
      <4>2. \/ End("ok")
            \/ Call("save", <<"apply", "head">>)
            \/ Call("flush", <<"settle">>)
        BY <2>5, <3>1, Zenon DEF Settling, Settle, MoreInput, Completes
      <4>3. QED
        BY <4>1, <4>2
    <3>3. QED
      BY <3>1, <3>2
  <2>6. CASE FlushDone
    <3>1. /\ pc = "flush" /\ pc' = Head(back) /\ again' = again
      BY <2>6 DEF FlushDone, Return
    <3>2. CASE back = <<"save", "boundary", "turnEnd">>
      BY <3>1, <3>2
    <3>3. CASE back = <<"verify">> /\ ~LifecycleHooks
      BY <3>1, <3>3
    <3>4. CASE back = <<"settle">> /\ ~LifecycleHooks /\ ~again
      BY <3>1, <3>4
    <3>5. QED
      BY <3>1, <3>2, <3>3, <3>4
  <2>7. CASE FlushNext
    BY <1>3, <2>7 DEF FlushNext
  <2>8. CASE Interrupted \/ StepFails \/ Drop
    BY <2>8 DEF Interrupted, StepFails, Drop
  <2>9. CASE Exhaust \/ HostActs \/ HostCancels \/ UNCHANGED allVars
    BY <2>9 DEF Exhaust, HostActs, HostCancels, allVars, turnVars, placeVars
  <2>10. QED
    BY <2>1, <2>2, <2>3, <2>4, <2>5, <2>6, <2>7, <2>8, <2>9
<1>9. pc' \notin Over \cup {"dropped"} => InStep'
  BY <1>2, <1>5, <1>6, <1>8 DEF InStep, Behind, Lacks, Storing
<1>10. AppliedIds' = AppliedIds
  BY <1>7 DEF AppliedIds
<1>11. OneMore(journaled, transcript)'
  BY <1>2, <1>3, <1>5 DEF OneMore
<1>12. QED
  BY <1>2, <1>5, <1>7, <1>9, <1>10, <1>11 DEF Agreed

\* While a message is being stored.
LEMMA StoringStep ==
  ASSUME TypeOK, InputsConserved, OwnerInv, HandInv, EndInv, RecordInv,
         [TurnNext]_allVars, pc = "store", Storing
  PROVE  Agreed'
<1> StackOK
  BY DEF OwnerInv
<1>1. result = "none"
  BY DEF EndInv, Over
<1>2. /\ transcript \in Seq(Items) /\ journaled \in Seq(Items) /\ item \in Items
      /\ InputsOf(journaled) = AppliedIds
  BY <1>1 DEF RecordInv, Agreed
<1>3. NoItem \in Items
  BY DEF NoItem, Item, Items
<1>4. \/ Stored \/ StoreFails \/ Exhaust \/ Drop \/ HostActs \/ HostCancels
      \/ UNCHANGED allVars
  BY DEF TurnNext, Advance, Answers, Bind, Begin, PrepareInput, Admit, CheckBinding,
     NextRound, RoundsSpent, FlushDone, FlushNext, ApplyDone, ApplyNext, CommitInput,
     InputApplied, Save, AddFeedback, CompactSkipped, CompactStarts, CompactEnds,
     BoundaryEnds, BoundaryDeclines, BoundaryCommits, TurnEnds, ExecuteTools,
     ToolsDone, SkipCall, NeedsNoApproval, AskApproval, ApprovalFails,
     WithdrawApproval, TakeDecision, DenyCall, ExecuteCall, Conclude, Report,
     SaveOutcome, SaveFails, FinishRun, ModelAnswers, ModelCancels, ModelStops,
     Candidate, StartTools, Accept, Reject, Settling, Settle, CallReturns, ResultLost,
     Interrupted, Interruptible, StepFails
<1>5. CASE Stored
  <2>1. /\ pc' = Head(back) /\ item' = NoItem /\ journaled' = Append(journaled, item)
        /\ transcript' = IF item \in ToSet(transcript) THEN transcript
                         ELSE Append(transcript, item)
    BY <1>5 DEF Stored
  <2>2. pc' # "store"
    BY <2>1, Popped DEF StackOK, Returning, Resumed, Resting
  <2>3. transcript' = journaled'
    BY <1>2, <2>1, Grown DEF Storing, Lacks, Saved
  <2>4. journaled' \in Seq(Items)
    BY <1>2, <2>1, Grown
  <2>5. InputsOf(journaled') = AppliedIds'
    <3>1. CASE item.what = "input"
      <4>1. PICK k \in DOMAIN pending :
              /\ pending[k] \in Entry /\ pending[k].id = item.number
              /\ applied' = Append(applied, pending[k])
        BY <1>5, <3>1, StoredInput
      <4>2. AppliedIds' = AppliedIds \cup {item.number}
        <5>1. applied \in Seq(Entry)
          BY DEF TypeOK
        <5>2. IdsOf(applied') = IdsOf(applied) \cup {item.number}
          BY <4>1, <5>1, AppendedIds
        <5>3. QED
          BY <5>2 DEF AppliedIds, IdsOf
      <4>3. QED
        BY <1>2, <2>1, <3>1, <4>2, Grown
    <3>2. CASE item.what # "input"
      <4>1. applied' = applied
        BY <1>5, <3>2 DEF Stored, controlVars
      <4>2. QED
        BY <1>2, <2>1, <3>2, <4>1, Grown DEF AppliedIds
    <3>3. QED
      BY <3>1, <3>2
  <2>6. QED
    BY <1>3, <2>1, <2>2, <2>3, <2>4, <2>5 DEF Agreed, InStep, Saved
<1>6. CASE StoreFails
  <2>1. /\ pc' = "ending" /\ result' # "none" /\ item' = NoItem
        /\ transcript' = transcript
        /\ journaled' = journaled \/ journaled' = Append(journaled, item)
    BY <1>6 DEF StoreFails, Fail, End
  <2>2. /\ journaled' \in Seq(Items)
        /\ item \in ToSet(Append(journaled, item))
    BY <1>2, <2>1, Grown
  <2>3. Saved' \/ OneMore(journaled, transcript)' \/ OneMore(transcript, journaled)'
    <3>1. CASE Lacks(item)
      BY <2>1, <2>2, <3>1 DEF Lacks, Saved, OneMore
    <3>2. CASE Saved
      BY <2>1, <2>2, <3>2 DEF Saved, OneMore
    <3>3. QED
      BY <3>1, <3>2 DEF Storing
  <2>4. QED
    BY <1>2, <1>3, <2>1, <2>2, <2>3 DEF Agreed, Over
<1>7. CASE /\ ~Stored
           /\ Exhaust \/ Drop \/ HostActs \/ HostCancels \/ UNCHANGED allVars
  <2>1. UNCHANGED <<transcript, journaled, result>> /\ item' \in {item, NoItem}
    BY <1>7 DEF Exhaust, Drop, HostActs, HostCancels, allVars, turnVars, placeVars,
       bodyVars, recordVars
  <2>2. UNCHANGED <<pc, item>> \/ pc' = "dropped"
    BY <1>7 DEF Exhaust, Drop, HostActs, HostCancels, allVars, turnVars, placeVars
  <2>3. applied' = applied
    <3>1. CASE HostActs
      BY <3>1, HostsAppend
    <3>2. CASE ~HostActs
      <4>1. ~Handling
        BY <1>7 DEF Handling, FlushNext, ApplyNext, CommitInput, Save, AddFeedback,
           BoundaryCommits
      <4>2. QED
        BY <3>2, <4>1, Elsewhere
    <3>3. QED
      BY <3>1, <3>2
  <2>4. InStep' \/ pc' = "dropped"
    BY <2>1, <2>2 DEF InStep, Storing, Lacks, Saved
  <2>5. Saved \/ OneMore(journaled, transcript)
    BY <1>1 DEF RecordInv, Agreed
  <2>6. QED
    BY <1>2, <1>3, <2>1, <2>3, <2>4, <2>5 DEF Agreed, Saved, OneMore, AppliedIds
<1>8. QED
  BY <1>4, <1>5, <1>6, <1>7

\* Once the run is over, or its future was dropped.
LEMMA OverStep ==
  ASSUME TypeOK, OwnerInv, EndInv, RecordInv, [TurnNext]_allVars,
         pc \in Over \cup {"dropped"}
  PROVE  Agreed'
<1> StackOK
  BY DEF OwnerInv
<1>1. /\ transcript \in Seq(Items) /\ journaled \in Seq(Items) /\ item \in Items
      /\ \/ Saved \/ OneMore(journaled, transcript)
         \/ result # "none" /\ OneMore(transcript, journaled)
      /\ result = "none" => InputsOf(journaled) = AppliedIds
  BY DEF RecordInv, Agreed
<1>2. NoItem \in Items
  BY DEF NoItem, Item, Items
<1>3. \/ Conclude \/ Report \/ SaveOutcome \/ SaveFails \/ FinishRun
      \/ Exhaust \/ Drop \/ HostActs \/ HostCancels \/ UNCHANGED allVars
  BY DEF Over, TurnNext, Advance, Answers, Bind, Begin, PrepareInput, Admit,
     CheckBinding, NextRound, RoundsSpent, FlushDone, FlushNext, ApplyDone, ApplyNext,
     CommitInput, Stored, StoreFails, InputApplied, Save, AddFeedback, CompactSkipped,
     CompactStarts, CompactEnds, BoundaryEnds, BoundaryDeclines, BoundaryCommits,
     TurnEnds, ExecuteTools, ToolsDone, SkipCall, NeedsNoApproval, AskApproval,
     ApprovalFails, WithdrawApproval, TakeDecision, DenyCall, ExecuteCall,
     ModelAnswers, ModelCancels, ModelStops, Candidate, StartTools, Accept, Reject,
     Settling, Settle, CallReturns, ResultLost, Interrupted, Interruptible, StepFails
<1>4. /\ item' \in {item, NoItem} /\ pc' \in Over \cup {"dropped"}
      /\ transcript' = transcript
      /\ \/ journaled' = journaled /\ (result = "none" <=> result' = "none")
         \/ journaled' = transcript /\ result # "none" /\ result' # "none"
  <2>1. CASE Conclude \/ Report \/ FinishRun
    BY <1>3, <2>1 DEF Conclude, Report, FinishRun, Goto, bodyVars, recordVars, Over,
       EndInv
  <2>2. CASE SaveOutcome \/ SaveFails
    BY <1>3, <2>2 DEF SaveOutcome, SaveFails, Goto, Over, EndInv
  <2>3. CASE Exhaust \/ Drop \/ HostActs \/ HostCancels \/ UNCHANGED allVars
    BY <1>3, <2>3 DEF Exhaust, Drop, HostActs, HostCancels, allVars, turnVars,
       placeVars, bodyVars, recordVars
  <2>4. QED
    BY <1>3, <2>1, <2>2, <2>3
<1>5. AppliedIds' = AppliedIds
  <2>1. applied' = applied
    <3>1. CASE HostActs
      BY <3>1, HostsAppend
    <3>2. CASE ~HostActs
      <4>1. ~Handling
        BY DEF Over, Handling, FlushNext, ApplyNext, CommitInput, Stored, Save,
           AddFeedback, BoundaryCommits
      <4>2. QED
        BY <3>2, <4>1, Elsewhere
    <3>3. QED
      BY <3>1, <3>2
  <2>2. QED
    BY <2>1 DEF AppliedIds
<1>6. QED
  BY <1>1, <1>2, <1>4, <1>5 DEF Agreed, Saved, OneMore

\* Numbers stay in order, so that no two messages are the same.
LEMMA NumberedStep ==
  ASSUME OwnerInv, LifeInv, HandInv, EndInv, RecordInv, [TurnNext]_allVars
  PROVE  Numbered'
<1> StackOK
  BY DEF OwnerInv
<1>1. round \in Nat /\ transcript \in Seq(Items) /\ item \in Items
  BY TurnAssumption DEF LifeInv, RecordInv, Agreed
<1>2. \A m \in ToSet(transcript) :
        /\ m \in Items
        /\ m.what = "answer" => m.number <= round
        /\ m.what = "answer" /\ Destination \in Early => m.number < round
        /\ m.what = "hook" => m.number <= Len(transcript)
  <2>1. \A m \in ToSet(transcript) : m \in Items
    BY <1>1, ElementOfSeq, LenProperties DEF ToSet
  <2>2. QED
    BY <2>1 DEF RecordInv, Numbered, Early
<1> DEFINE Fits(m, number, size, early) ==
      /\ m.what = "answer" => m.number <= number
      /\ m.what = "answer" /\ early => m.number < number
      /\ m.what = "hook" => m.number <= size
<1>3. Numbered' <=> \A m \in ToSet(transcript') :
                      Fits(m, round', Len(transcript'), Destination' \in Early)
  BY DEF Numbered, Early
<1>4. \A m \in ToSet(transcript) : Fits(m, round', Len(transcript), Destination' \in Early)
  <2>1. CASE NextRound
    <3>1. round' = round + 1
      BY <2>1 DEF NextRound
    <3>2. ASSUME NEW m \in ToSet(transcript)
          PROVE  Fits(m, round', Len(transcript), Destination' \in Early)
      <4>1. m.number \in Nat
        BY <1>2 DEF Items
      <4>2. QED
        BY <1>1, <1>2, <3>1, <4>1
    <3>3. QED
      BY <3>2
  <2>2. CASE ~NextRound
    <3>1. round' = round /\ (Destination' \in Early => Destination \in Early)
      BY <2>2, EarlyStep
    <3>2. QED
      BY <1>2, <3>1
  <2>3. QED
    BY <2>1, <2>2
<1>5. CASE transcript' = transcript
  BY <1>3, <1>4, <1>5
<1>6. ASSUME NEW m \in Items, transcript' = Append(transcript, m),
             Fits(m, round', Len(transcript) + 1, Destination' \in Early)
      PROVE  Numbered'
  <2>1. /\ ToSet(transcript') = ToSet(transcript) \cup {m}
        /\ Len(transcript') = Len(transcript) + 1 /\ Len(transcript) \in Nat
    BY <1>1, <1>6, Grown
  <2>2. ASSUME NEW x \in ToSet(transcript), x.what = "hook"
        PROVE  x.number <= Len(transcript) + 1
    <3>1. x.number \in Nat /\ x.number <= Len(transcript)
      BY <1>2, <2>2 DEF Items
    <3>2. QED
      BY <2>1, <3>1
  <2>3. ASSUME NEW x \in ToSet(transcript')
        PROVE  Fits(x, round', Len(transcript'), Destination' \in Early)
    BY <1>4, <1>6, <2>1, <2>2
  <2>4. QED
    BY <1>3, <2>3
<1> HIDE DEF Fits
<1>7. CASE CommitInput
  <2>1. transcript' = transcript \/ transcript' = Append(transcript, item)
    BY <1>7 DEF CommitInput
  <2>2. item.what = "input"
    BY <1>7 DEF CommitInput, HandInv
  <2>3. QED
    BY <1>1, <1>5, <1>6, <2>1, <2>2 DEF Fits
<1>8. CASE Stored
  <2>1. /\ pc = "store"
        /\ transcript' = IF item \in ToSet(transcript) THEN transcript
                         ELSE Append(transcript, item)
    BY <1>8 DEF Stored
  <2>2. CASE item \in ToSet(transcript)
    BY <1>5, <2>1, <2>2
  <2>3. CASE item \notin ToSet(transcript)
    <3>1. Storing /\ journaled \in Seq(Items)
      BY <2>1 DEF RecordInv, Agreed, InStep, BehindAt, Over
    <3>2. ~Lacks(item)
      BY <1>1, <2>3, <3>1, Grown DEF Lacks
    <3>3. item.what = "input" \/ item = Item("hook", Len(transcript) + 1)
      BY <3>1, <3>2 DEF Storing
    <3>4. Len(transcript) + 1 \in Nat
      BY <1>1, LenProperties
    <3>5. Fits(item, round', Len(transcript) + 1, Destination' \in Early)
      BY <3>3, <3>4 DEF Fits, Item
    <3>6. QED
      BY <1>1, <1>6, <2>1, <2>3, <3>5
  <2>4. QED
    BY <2>2, <2>3
<1>9. CASE AddFeedback
  <2>1. transcript' = Append(transcript, Feedback) /\ Feedback.what = "feedback"
        /\ Feedback \in Items
    BY <1>1, <1>9 DEF AddFeedback, Feedback, Item, Items
  <2>2. QED
    BY <1>6, <2>1 DEF Fits
<1>10. ASSUME NEW n \in 0..MaxCalls, ModelAnswers(n) PROVE Numbered'
  <2>1. /\ transcript' = Append(transcript, Answer) /\ round' = round
        /\ Destination' = "answered"
    BY <1>10, FreshLast DEF ModelAnswers, lifeVars, Destination, Returning, Call, Goto
  <2>2. Answer.what = "answer" /\ Answer.number = round /\ Answer \in Items
    BY <1>1 DEF Answer, Item, Items
  <2>3. QED
    BY <1>1, <1>6, <2>1, <2>2 DEF Fits, Early
<1>11. CASE ~(\/ CommitInput \/ Stored \/ AddFeedback
              \/ \E n \in 0..MaxCalls : ModelAnswers(n))
  <2>1. transcript' = transcript
    BY <1>11, RecordFrame DEF Recording, StoreFails, SaveOutcome, SaveFails
  <2>2. QED
    BY <1>5, <2>1
<1>12. QED
  BY <1>7, <1>8, <1>9, <1>10, <1>11

\* The invariant of the records holds in every reachable state.
LEMMA RecordInvHolds == TurnSpec => [](LifeInv /\ EndInv /\ RecordInv)
<1>1. TurnInit => RecordInv
  <2> SUFFICES ASSUME TurnInit PROVE RecordInv
    OBVIOUS
  <2>1. /\ transcript = <<>> /\ journaled = <<>> /\ item = NoItem /\ result = "none"
        /\ pc = "idle" /\ applied = <<>>
    BY DEF TurnInit, Init
  <2>2. <<>> \in Seq(Items) /\ ToSet(<<>>) = {} /\ NoItem \in Items
    BY EmptySeq DEF ToSet, NoItem, Item, Items
  <2>3. InputsOf(<<>>) = {} /\ AppliedIds = {}
    BY <2>1, <2>2 DEF InputsOf, AppliedIds
  <2>4. QED
    BY <2>1, <2>2, <2>3 DEF RecordInv, Agreed, Numbered, InStep, Saved
<1>2. ASSUME TypeOK, InputsConserved, OwnerInv, LifeInv, HandInv, EndInv, RecordInv,
             [TurnNext]_allVars
      PROVE  RecordInv'
  <2>1. Agreed'
    <3>1. CASE pc \in Over \cup {"dropped"}
      BY <1>2, <3>1, OverStep
    <3>2. CASE pc \notin Over \cup {"dropped"}
      <4>1. InStep
        BY <1>2, <3>2 DEF RecordInv, Agreed
      <4>2. QED
        BY <1>2, <3>2, <4>1, SavedStep, BehindStep, StoringStep DEF InStep
    <3>3. QED
      BY <3>1, <3>2
  <2>2. Numbered'
    BY <1>2, NumberedStep
  <2>3. QED
    BY <2>1, <2>2 DEF RecordInv
<1>3. QED
  BY <1>1, <1>2, HandInvHolds, RunsConserveInputs, OwnerInvHolds, LifeInvHolds,
     EndInvHolds, PTL DEF TurnSpec

\* A part of a sequence, from its start, begins each sequence that agrees with it.
LEMMA Begins ==
  ASSUME NEW s \in Seq(Items), NEW t \in Seq(Items), Len(s) <= Len(t),
         \A i \in 1..Len(s) : t[i] = s[i], NEW n \in 0..Len(s)
  PROVE  /\ SubSeq(s, 1, n) \in Seq(Items) /\ Len(SubSeq(s, 1, n)) = n
         /\ SubSeq(s, 1, n) = SubSeq(t, 1, n)
         /\ IsPrefix(SubSeq(s, 1, n), t)
<1>1. /\ Len(s) \in Nat /\ Len(t) \in Nat
      /\ \A i \in 1..Len(s) : s[i] \in Items /\ t[i] \in Items
  BY LenProperties, ElementOfSeq
<1> DEFINE x == SubSeq(s, 1, n)
           y == SubSeq(t, 1, n)
<1>2. /\ x \in Seq(Items) /\ Len(x) = n /\ \A i \in 1..n : x[i] = s[i]
  <2>1. \A i \in 1..n : s[i] \in Items
    BY <1>1
  <2>2. 1 \in Int /\ n \in Int
    BY <1>1
  <2>3. /\ x \in Seq(Items) /\ Len(x) = IF 1 <= n THEN n - 1 + 1 ELSE 0
        /\ \A i \in 1..n - 1 + 1 : x[i] = s[1 + i - 1]
    BY <2>1, <2>2, SubSeqProperties
  <2>4. QED
    BY <1>1, <2>3
<1>3. /\ y \in Seq(Items) /\ Len(y) = n /\ \A i \in 1..n : y[i] = t[i]
  <2>1. \A i \in 1..n : t[i] \in Items
    BY <1>1
  <2>2. 1 \in Int /\ n \in Int
    BY <1>1
  <2>3. /\ y \in Seq(Items) /\ Len(y) = IF 1 <= n THEN n - 1 + 1 ELSE 0
        /\ \A i \in 1..n - 1 + 1 : y[i] = t[1 + i - 1]
    BY <2>1, <2>2, SubSeqProperties
  <2>4. QED
    BY <1>1, <2>3
<1>4. SubSeq(x, 1, Len(x)) = x
  BY <1>2, SubSeqFull
<1> HIDE DEF x, y
<1>5. x = y
  <2>1. \A i \in 1..Len(x) : x[i] = y[i]
    BY <1>1, <1>2, <1>3
  <2>2. QED
    BY <1>2, <1>3, <2>1, SeqEqual
<1>6. IsPrefix(x, t)
  <2>1. Len(x) <= Len(t)
    BY <1>1, <1>2
  <2>2. SubSeq(t, 1, Len(x)) = y
    BY <1>2 DEF y
  <2>3. QED
    BY <1>4, <1>5, <2>1, <2>2 DEF IsPrefix
<1>7. QED
  BY <1>2, <1>5, <1>6 DEF x, y

\* A sequence begins each one that appends to it; so does its own front.
LEMMA Beginnings ==
  ASSUME NEW s \in Seq(Items), NEW m \in Items
  PROVE  /\ IsPrefix(s, s) /\ IsPrefix(s, Append(s, m))
         /\ s # <<>> => IsPrefix(Front(s), s) /\ IsPrefix(Front(s), Append(s, m))
         /\ Front(Append(s, m)) = s
<1> DEFINE t == Append(s, m)
<1>1. /\ t \in Seq(Items) /\ Len(t) = Len(s) + 1 /\ Len(s) \in Nat
      /\ \A i \in 1..Len(s) : t[i] = s[i]
      /\ s # <<>> => Len(s) # 0
  BY AppendProperties, LenProperties, EmptySeq
<1> HIDE DEF t
<1>2. SubSeq(s, 1, Len(s)) = s
  BY SubSeqFull
<1>3. ASSUME NEW n \in 0..Len(s)
      PROVE  /\ SubSeq(s, 1, n) = SubSeq(t, 1, n)
             /\ IsPrefix(SubSeq(s, 1, n), t) /\ IsPrefix(SubSeq(s, 1, n), s)
  <2>1. Len(s) <= Len(t) /\ Len(s) <= Len(s)
    BY <1>1
  <2>2. QED
    BY <1>1, <2>1, Begins
<1>4. IsPrefix(s, s) /\ IsPrefix(s, t) /\ SubSeq(t, 1, Len(s)) = s
  <2>1. Len(s) \in 0..Len(s)
    BY <1>1
  <2>2. QED
    BY <1>2, <1>3, <2>1
<1>5. s # <<>> => IsPrefix(Front(s), s) /\ IsPrefix(Front(s), t)
  <2> SUFFICES ASSUME s # <<>> PROVE IsPrefix(Front(s), s) /\ IsPrefix(Front(s), t)
    OBVIOUS
  <2>1. Len(s) - 1 \in 0..Len(s)
    BY <1>1
  <2>2. QED
    BY <1>3, <2>1 DEF Front
<1>6. Front(t) = s
  <2>1. Len(t) - 1 = Len(s)
    BY <1>1
  <2>2. QED
    BY <1>4, <2>1 DEF Front
<1>7. QED
  BY <1>4, <1>5, <1>6 DEF t

\* The journal holds the transcript in its order and lacks at most its last
\* message: a message whose write was cancelled may be in either without the
\* other, and only once the run is over (JournalOrder).
THEOREM JournalOrderHolds == TurnSpec => []JournalOrder
<1>1. ASSUME RecordInv PROVE JournalOrder
  <2>1. /\ transcript \in Seq(Items) /\ journaled \in Seq(Items) /\ item \in Items
        /\ \/ Saved \/ OneMore(journaled, transcript)
           \/ result # "none" /\ OneMore(transcript, journaled)
    BY <1>1 DEF RecordInv, Agreed
  <2>2. Len(transcript) \in Nat /\ Len(journaled) \in Nat
    BY <2>1, LenProperties
  <2>3. CASE Saved
    <3>1. IsPrefix(journaled, transcript)
          /\ (journaled # <<>> => IsPrefix(Front(journaled), transcript))
      BY <2>1, <2>3, Beginnings DEF Saved
    <3>2. QED
      BY <2>2, <2>3, <3>1 DEF Saved, JournalOrder
  <2>4. CASE OneMore(journaled, transcript)
    <3>1. PICK m \in ToSet(transcript) : transcript = Append(journaled, m)
      BY <2>4 DEF OneMore
    <3>2. m \in Items
      BY <2>1, ElementOfSeq, LenProperties DEF ToSet
    <3>3. /\ IsPrefix(journaled, transcript)
          /\ journaled # <<>> => IsPrefix(Front(journaled), transcript)
      BY <2>1, <3>1, <3>2, Beginnings
    <3>4. Len(transcript) = Len(journaled) + 1
      BY <2>1, <3>1, <3>2, Grown
    <3>5. QED
      BY <2>2, <3>3, <3>4 DEF JournalOrder
  <2>5. CASE result # "none" /\ OneMore(transcript, journaled)
    <3>1. PICK m \in ToSet(journaled) : journaled = Append(transcript, m)
      BY <2>5 DEF OneMore
    <3>2. m \in Items
      BY <2>1, ElementOfSeq, LenProperties DEF ToSet
    <3>3. Front(journaled) = transcript /\ IsPrefix(transcript, transcript)
      BY <2>1, <3>1, <3>2, Beginnings
    <3>4. Len(journaled) = Len(transcript) + 1
      BY <2>1, <3>1, <3>2, Grown
    <3>5. QED
      BY <2>2, <2>5, <3>3, <3>4 DEF JournalOrder
  <2>6. QED
    BY <2>1, <2>3, <2>4, <2>5
<1>2. QED
  BY <1>1, RecordInvHolds, PTL

\* The model, the compactor and the verifier are asked only about inputs that the
\* journal acknowledged and the queue let go of, and about all of them
\* (ModelSeesAcknowledged).
THEOREM ModelSeesAcknowledgedHolds == TurnSpec => []ModelSeesAcknowledged
<1>1. ASSUME LifeInv, EndInv, RecordInv PROVE ModelSeesAcknowledged
  <2> SUFFICES ASSUME pc \in {"model", "compacting", "verify"}
               PROVE  InputsOf(transcript) = AppliedIds /\ InputsOf(journaled) = AppliedIds
    BY DEF ModelSeesAcknowledged, InputsOf
  <2>1. /\ transcript \in Seq(Items) /\ journaled \in Seq(Items)
        /\ InputsOf(journaled) = AppliedIds
        /\ Saved \/ Behind
    BY <1>1 DEF EndInv, Over, RecordInv, Agreed, InStep, BehindAt
  <2>2. CASE Saved
    BY <2>1, <2>2 DEF Saved
  <2>3. CASE Behind
    <3>1. /\ transcript = Append(journaled, Answer) /\ Answer \in ToSet(transcript)
          /\ Answer.what = "answer"
      <4>1. transcript = Append(journaled, Answer)
        BY <2>3 DEF Behind, Lacks
      <4>2. Answer \in Items
        <5>1. round \in Nat
          BY <1>1, TurnAssumption DEF LifeInv
        <5>2. QED
          BY <5>1 DEF Answer, Item, Items
      <4>3. QED
        BY <2>1, <4>1, <4>2, Grown DEF Answer, Item
    <3>2. Answer \in Items
      BY <2>1, <3>1, ElementOfSeq, LenProperties DEF ToSet
    <3>3. QED
      BY <2>1, <3>1, <3>2, Grown
  <2>4. QED
    BY <2>1, <2>2, <2>3
<1>2. QED
  BY <1>1, EndInvHolds, RecordInvHolds, PTL

-----------------------------------------------------------------------------
(* Follow-ups.                                                             *)

FollowUps == Cardinality(Applied("FollowUp"))
\* A completion was accepted that no follow-up has used yet.
Spare == FollowUps < completions
\* The stack returns through "apply" to the head of the loop.
ToApply(stack) ==
  Len(stack) >= 2 /\ stack[Len(stack) - 1] = "apply" /\ stack[Len(stack)] = "head"

\* Wherever a follow-up is, or may still be, read there is one to spare.
Permitted ==
  /\ Destination \in {"accepted", "settle"} => Spare
  /\ pc \in Returning /\ ToApply(back) => Spare
  /\ pc = "apply" /\ back = <<"head">> /\ taken = 0 => Spare
\* The follow-up in hand was read there.
InHandPermitted ==
  \A k \in DOMAIN pending :
    InHand /\ pending[k].id = item.number /\ pending[k].kind = "FollowUp" =>
      Spare /\ back = IF pc = "commit" THEN <<"head">> ELSE <<"applied", "head">>

FollowInv ==
  /\ completions \in Nat /\ taken \in Nat
  /\ FollowUps <= completions
  /\ Permitted
  /\ InHandPermitted

\* The stacks a phase is called with ...
LEMMA FreshApply ==
  /\ \A rest : ~ToApply(<<rest>>)
  /\ \A phase, rest : ToApply(<<phase, rest>>) <=> phase = "apply" /\ rest = "head"
  /\ \A outer, phase, rest :
       ToApply(<<outer, phase, rest>>) <=> phase = "apply" /\ rest = "head"
  /\ \A x, y : <<x>> # <<x, y>> /\ (<<x>> = <<y>> => x = y)
  BY DEF ToApply

\* ... and what returning from a phase, or calling one more, does to a stack.
LEMMA PoppedApply ==
  ASSUME NEW stack, WellStacked(stack)
  PROVE  /\ ToApply(Tail(stack)) => ToApply(stack)
         /\ Head(stack) = "apply" /\ Tail(stack) = <<"head">> => ToApply(stack)
         /\ Head(stack) = "head" => stack = <<"head">>
         /\ \A phase \in Resumed \ {"apply"} :
              ToApply(<<phase>> \o stack) => ToApply(stack)
<1>1. stack \in Seq(Resumed \cup Resting) /\ stack # <<>> /\ Len(stack) \in Nat \ {0}
  BY EmptySeq, LenProperties DEF WellStacked
<1>2. Head(stack) = stack[1] /\ stack[1] \in Resumed \cup Resting
  BY <1>1, ElementOfSeq, HeadTailProperties
<1>3. /\ Len(Tail(stack)) = Len(stack) - 1
      /\ \A i \in 1..(Len(stack) - 1) : Tail(stack)[i] = stack[i + 1]
  BY <1>1, HeadTailProperties
<1>4. ASSUME ToApply(Tail(stack)) PROVE ToApply(stack)
  <2> DEFINE n == Len(stack) - 1
  <2>1. /\ n >= 2 /\ n \in Nat
        /\ Tail(stack)[n - 1] = "apply" /\ Tail(stack)[n] = "head"
    BY <1>1, <1>3, <1>4 DEF ToApply
  <2>2. n - 1 \in 1..(Len(stack) - 1) /\ n \in 1..(Len(stack) - 1)
    BY <1>1, <2>1
  <2>3. Tail(stack)[n - 1] = stack[n - 1 + 1] /\ Tail(stack)[n] = stack[n + 1]
    BY <1>3, <2>2
  <2>4. QED
    BY <1>1, <2>1, <2>3 DEF ToApply
<1>5. ASSUME Head(stack) = "apply", Tail(stack) = <<"head">> PROVE ToApply(stack)
  <2>1. <<"head">>[1] = "head" /\ Len(<<"head">>) = 1
    OBVIOUS
  <2>2. Len(stack) - 1 = 1 /\ Tail(stack)[1] = "head"
    BY <1>3, <1>5, <2>1, Zenon
  <2>3. 1 \in 1..(Len(stack) - 1) /\ 1 + 1 = 2 /\ Len(stack) = 2
    <3>1. Len(stack) \in Nat
      BY <1>1
    <3>2. QED
      BY <2>2, <3>1
  <2>4. stack[2] = "head"
    BY <1>3, <2>2, <2>3
  <2>5. QED
    BY <1>2, <1>5, <2>3, <2>4 DEF ToApply
<1>6. ASSUME Head(stack) = "head" PROVE stack = <<"head">>
  <2>1. stack[1] \in Resting /\ 1 \in 1..Len(stack)
    BY <1>1, <1>2, <1>6 DEF Resting
  <2>2. Len(stack) = 1
    BY <2>1 DEF WellStacked
  <2>3. <<"head">> \in Seq(Resumed \cup Resting) /\ Len(<<"head">>) = 1
        /\ <<"head">>[1] = "head"
    BY DEF Resting
  <2>4. QED
    BY <1>1, <1>2, <1>6, <2>2, <2>3, SeqEqual
<1>7. ASSUME NEW phase \in Resumed \ {"apply"}, ToApply(<<phase>> \o stack)
      PROVE  ToApply(stack)
  <2> DEFINE longer == <<phase>> \o stack
  <2>1. <<phase>> \in Seq(Resumed \cup Resting) /\ Len(<<phase>>) = 1
        /\ <<phase>>[1] = phase
    OBVIOUS
  <2>2. /\ Len(longer) = 1 + Len(stack)
        /\ \A i \in 1..Len(longer) :
             longer[i] = IF i <= 1 THEN <<phase>>[i] ELSE stack[i - 1]
    BY <1>1, <2>1, ConcatProperties
  <2> HIDE DEF longer
  <2>3. longer[Len(longer)] = stack[Len(stack)]
    BY <1>1, <2>2
  <2>4. longer[Len(longer) - 1] = IF Len(stack) = 1 THEN phase ELSE stack[Len(stack) - 1]
    BY <1>1, <2>1, <2>2
  <2>5. ToApply(longer)
    BY <1>7 DEF longer
  <2>6. Len(stack) # 1
    BY <1>7, <2>4, <2>5 DEF ToApply
  <2>7. Len(stack) >= 2
    <3>1. Len(stack) \in Nat /\ Len(stack) # 0
      BY <1>1
    <3>2. QED
      BY <2>6, <3>1
  <2>8. QED
    BY <2>3, <2>4, <2>5, <2>6, <2>7 DEF ToApply
<1>8. QED
  BY <1>4, <1>5, <1>6, <1>7

\* Follow-ups are counted by a number.
LEMMA FollowUpsNumber == ASSUME applied \in Seq(Entry) PROVE FollowUps \in Nat
<1>1. DOMAIN applied = 1..Len(applied) /\ Len(applied) \in Nat
  BY LenProperties
<1>2. IsFiniteSet(1..Len(applied))
  BY <1>1, FS_Interval
<1>3. Applied("FollowUp") \subseteq 1..Len(applied)
  BY <1>1 DEF Applied
<1>4. QED
  BY <1>2, <1>3, FS_Subset, FS_CardinalityType DEF FollowUps

\* Applying an input counts it, if it is a follow-up.
LEMMA AppliedOne ==
  ASSUME applied \in Seq(Entry), NEW entry \in Entry, applied' = Append(applied, entry)
  PROVE  FollowUps' = IF entry.kind = "FollowUp" THEN FollowUps + 1 ELSE FollowUps
<1>1. /\ DOMAIN applied' = 1..(Len(applied) + 1)
      /\ DOMAIN applied = 1..Len(applied) /\ Len(applied) \in Nat
      /\ \A i \in DOMAIN applied : applied'[i] = applied[i]
      /\ applied'[Len(applied) + 1] = entry
  BY AppendedEntries
<1> DEFINE before == Applied("FollowUp")
           last == Len(applied) + 1
<1>2. IsFiniteSet(before)
  <2>1. IsFiniteSet(1..Len(applied))
    BY <1>1, FS_Interval
  <2>2. before \subseteq 1..Len(applied)
    BY <1>1 DEF Applied
  <2>3. QED
    BY <2>1, <2>2, FS_Subset
<1>3. Applied("FollowUp")' = IF entry.kind = "FollowUp" THEN before \cup {last} ELSE before
  <2>1. DOMAIN applied' = DOMAIN applied \cup {last}
    BY <1>1
  <2>2. QED
    BY <1>1, <2>1 DEF Applied
<1>4. last \notin before
  BY <1>1 DEF Applied
<1>5. Cardinality(before \cup {last}) = Cardinality(before) + 1
  BY <1>2, <1>4, FS_AddElement
<1>6. QED
  BY <1>3, <1>5 DEF FollowUps

\* The steps that leave the queue and take up no input.
LEMMA FollowPlain ==
  ASSUME TypeOK, OwnerInv, FollowInv, [TurnNext]_allVars, ~HostActs, ~Handling,
         UNCHANGED <<pending, applied>>
  PROVE  /\ completions' = completions \/ pc = "verify"
         /\ completions' \in Nat /\ taken' \in Nat
         /\ FollowUps' <= completions' /\ Permitted'
<1> DEFINE Goal == /\ completions' = completions \/ pc = "verify"
                   /\ completions' \in Nat /\ taken' \in Nat
                   /\ FollowUps' <= completions' /\ Permitted'
<1> StackOK
  BY DEF OwnerInv
<1>1. FollowUps' = FollowUps
  BY DEF FollowUps, Applied
<1>2. /\ completions \in Nat /\ taken \in Nat
      /\ FollowUps \in Nat /\ FollowUps <= completions
  BY FollowUpsNumber DEF FollowInv, TypeOK
<1>3. ASSUME completions' = completions, taken' \in Nat, Permitted' PROVE Goal
  BY <1>1, <1>2, <1>3
<1>4. ASSUME UNCHANGED <<pc, back, taken, completions>> PROVE Goal
  BY <1>1, <1>2, <1>4 DEF FollowInv, Permitted, Destination, Spare
<1>5. ASSUME completions' = completions, taken' \in Nat,
             pc' \notin Returning \cup {"accepted", "settle"}
      PROVE  Goal
  BY <1>1, <1>2, <1>5 DEF Permitted, Destination, Returning
<1>6. CASE FlushDone \/ ApplyDone \/ StoreFails \/ InputApplied \/ BoundaryDeclines
           \/ BoundaryEnds
  <2>1. /\ completions' = completions
        /\ Destination' \in {Destination, "ending"}
    BY <1>6, CommitGoing
  <2>2. pc \in Returning /\ WellStacked(back)
    BY <1>6 DEF StackOK, FlushDone, ApplyDone, StoreFails, InputApplied,
       BoundaryDeclines, BoundaryEnds, Returning
  <2>3. /\ ToApply(Tail(back)) => ToApply(back)
        /\ Head(back) = "apply" /\ Tail(back) = <<"head">> => ToApply(back)
    BY <2>2, PoppedApply
  <2>4. \/ pc' = "ending" /\ taken' = 0
        \/ pc' = Head(back) /\ back' = Tail(back) /\ taken' \in {0, taken}
        \/ pc' = "flush" /\ UNCHANGED <<back, taken>>
        \/ pc' = "apply" /\ back' = back /\ taken' = taken + 1
    BY <1>6 DEF FlushDone, ApplyDone, StoreFails, Fail, InputApplied, BoundaryDeclines,
       BoundaryEnds, Return, Call, End
  <2>5. Spare' = Spare
    BY <1>1, <2>1 DEF Spare
  <2> HIDE DEF Spare
  <2>6. Destination' \in {"accepted", "settle"} => Spare'
    BY <2>1, <2>5 DEF FollowInv, Permitted
  <2>7. pc' \in Returning /\ ToApply(back') => Spare'
    BY <2>2, <2>3, <2>4, <2>5 DEF FollowInv, Permitted, Returning
  <2>8. ASSUME pc' = "apply", back' = <<"head">>, taken' = 0 PROVE Spare'
    <3>1. taken + 1 # 0
      BY <1>2
    <3>2. pc' = Head(back) /\ back' = Tail(back)
      BY <2>4, <2>8, <3>1, Zenon
    <3>3. ToApply(back)
      BY <2>3, <2>8, <3>2
    <3>4. QED
      BY <2>2, <2>5, <3>3 DEF FollowInv, Permitted
  <2>9. Permitted'
    BY <2>6, <2>7, <2>8 DEF Permitted
  <2>10. QED
    BY <1>1, <1>2, <2>1, <2>4, <2>9
<1>7. CASE NextRound \/ CompactEnds
  BY <1>2, <1>3, <1>7, FreshApply, FreshLast
  DEF NextRound, CompactEnds, Call, Goto, flowVars, Permitted, Destination, Returning
<1>8. ASSUME NEW n \in 0..MaxCalls, ModelAnswers(n) PROVE Goal
  BY <1>2, <1>3, <1>8, FreshApply, FreshLast
  DEF ModelAnswers, Call, Goto, flowVars, Permitted, Destination, Returning
<1>9. CASE Candidate \/ Reject \/ StartTools \/ ToolsDone
  BY <1>2, <1>3, <1>9, FreshApply, FreshLast
  DEF Candidate, Reject, StartTools, ToolsDone, Call, flowVars, bodyVars, Permitted,
      Destination, Returning
<1>10. CASE Accept
  <2>1. /\ completions' = completions + 1 /\ taken' = taken
        /\ pc = "verify" /\ pc' = "accepted"
    BY <1>10 DEF Accept, Goto
  <2>2. FollowUps' < completions'
    BY <1>1, <1>2, <2>1
  <2>3. QED
    BY <1>1, <1>2, <2>1, <2>2 DEF Permitted, Spare, Destination, Returning
<1>11. CASE Settling \/ Settle
  <2>1. /\ UNCHANGED bodyVars
        /\ \/ End("ok")
           \/ Call("save", <<"apply", "head">>)
           \/ Call("boundary", <<"flush", "settle">>)
           \/ Call("flush", <<"settle">>)
           \/ Goto("head")
    BY <1>11, Zenon DEF Settling, Settle, MoreInput, Completes
  <2>2. pc \in {"accepted", "settle"}
    BY <1>11, Zenon DEF Settling, Settle
  <2>3. Spare
    BY <2>2 DEF FollowInv, Permitted, Destination, Returning
  <2>4. Spare' /\ completions' = completions
    BY <1>1, <2>1, <2>3 DEF Spare, bodyVars, flowVars
  <2>5. taken' \in Nat
    BY <1>2, <2>1 DEF End, Call, Goto
  <2>6. Permitted'
    BY <2>4 DEF Permitted
  <2>7. QED
    BY <1>3, <2>4, <2>5, <2>6
<1> USE DEF bodyVars, flowVars, Goto, End, Returning
<1>12. CASE \/ Bind \/ Begin \/ PrepareInput \/ CheckBinding \/ RoundsSpent
            \/ CompactSkipped \/ CompactStarts \/ ModelCancels \/ ModelStops \/ TurnEnds
  BY <1>2, <1>5, <1>12 DEF Bind, Begin, PrepareInput, CheckBinding, RoundsSpent,
     CompactSkipped, CompactStarts, ModelCancels, ModelStops, TurnEnds
<1>13. ASSUME NEW capable \in BOOLEAN, Admit(capable) PROVE Goal
  BY <1>2, <1>5, <1>13 DEF Admit
<1>14. CASE \/ ExecuteTools \/ SkipCall \/ NeedsNoApproval \/ AskApproval
            \/ ApprovalFails \/ WithdrawApproval \/ TakeDecision \/ DenyCall
            \/ ExecuteCall \/ CallReturns \/ ResultLost
  BY <1>2, <1>5, <1>14 DEF ExecuteTools, SkipCall, NeedsNoApproval, AskApproval,
     ApprovalFails, WithdrawApproval, TakeDecision, DenyCall, ExecuteCall, CallReturns,
     ResultLost, NextCall
<1>15. CASE \/ Interrupted \/ StepFails \/ Conclude \/ Report \/ SaveOutcome
            \/ SaveFails \/ FinishRun \/ Drop
  BY <1>2, <1>5, <1>15 DEF Interrupted, StepFails, Conclude, Report, SaveOutcome,
     SaveFails, FinishRun, Drop
<1>16. CASE Exhaust \/ HostCancels \/ UNCHANGED allVars
  BY <1>4, <1>16 DEF Exhaust, HostCancels, allVars, turnVars, placeVars
<1>17. QED
  BY <1>6, <1>7, <1>8, <1>9, <1>10, <1>11, <1>12, <1>13, <1>14, <1>15, <1>16
  DEF TurnNext, Advance, Answers, Handling

\* The phases that take up a message keep the permission of the place they
\* return to.
LEMMA FollowReturning ==
  ASSUME TypeOK, OwnerInv, FollowInv, applied' = applied,
         FlushNext \/ ApplyNext \/ CommitInput \/ Save
           \/ \E more \in BOOLEAN : BoundaryCommits(more)
  PROVE  /\ completions' = completions /\ taken' \in Nat /\ Spare' = Spare
         /\ FollowUps' = FollowUps /\ Permitted'
<1> StackOK
  BY DEF OwnerInv
<1>1. /\ completions \in Nat /\ taken \in Nat
      /\ FollowUps \in Nat /\ FollowUps <= completions
  BY FollowUpsNumber DEF FollowInv, TypeOK
<1>2. completions' = completions /\ Destination' \in {Destination, "ending"}
  BY CommitGoing
<1>3. FollowUps' = FollowUps /\ Spare' = Spare
  BY <1>2 DEF FollowUps, Applied, Spare
<1>4. pc \in Returning /\ WellStacked(back)
  BY DEF StackOK, FlushNext, ApplyNext, CommitInput, Save, BoundaryCommits, Returning
<1>5. /\ ToApply(Tail(back)) => ToApply(back)
      /\ Head(back) = "apply" /\ Tail(back) = <<"head">> => ToApply(back)
      /\ ToApply(<<"flush">> \o back) => ToApply(back)
      /\ ToApply(<<"applied">> \o back) => ToApply(back)
      /\ ToApply(<<"hooked">> \o back) => ToApply(back)
  BY <1>4, PoppedApply DEF Resumed
<1>6. \/ pc' = "ending" /\ taken' = 0
      \/ pc' = Head(back) /\ back' = Tail(back) /\ taken' = taken
      \/ pc' \in {"save", "commit", "store"} /\ taken' = taken
         /\ back' \in {back, <<"flush">> \o back, <<"applied">> \o back,
                       <<"hooked">> \o back}
  <2>1. CASE FlushNext
    BY <2>1 DEF FlushNext, Call, Handle
  <2>2. CASE ApplyNext
    BY <2>2 DEF ApplyNext, End, Handle
  <2>3. CASE CommitInput
    BY <2>3 DEF CommitInput, Call
  <2>4. CASE Save
    BY <2>4 DEF Save, Return, Call, Handle
  <2>5. ASSUME NEW more \in BOOLEAN, BoundaryCommits(more)
        PROVE  \/ pc' = "ending" /\ taken' = 0
               \/ pc' = "store" /\ taken' = taken /\ back' = <<"hooked">> \o back
    BY <2>5 DEF BoundaryCommits, End, Handle
  <2>6. QED
    BY <2>1, <2>2, <2>3, <2>4, <2>5
<1> HIDE DEF Spare
<1>7. Destination' \in {"accepted", "settle"} => Spare'
  BY <1>2, <1>3 DEF FollowInv, Permitted
<1>8. pc' \in Returning /\ ToApply(back') => Spare'
  BY <1>3, <1>4, <1>5, <1>6 DEF FollowInv, Permitted, Returning
<1>9. pc' = "apply" /\ back' = <<"head">> => Spare'
  <2> SUFFICES ASSUME pc' = "apply", back' = <<"head">> PROVE Spare'
    OBVIOUS
  <2>1. pc' = Head(back) /\ back' = Tail(back)
    BY <1>6, Zenon
  <2>2. ToApply(back)
    BY <1>5, <2>1
  <2>3. QED
    BY <1>3, <1>4, <2>2 DEF FollowInv, Permitted
<1>10. taken' \in Nat
  BY <1>1, <1>6
<1>11. QED
  BY <1>2, <1>3, <1>7, <1>8, <1>9, <1>10 DEF Permitted

\* An input is taken up where it may be.
LEMMA FollowTaken ==
  ASSUME TypeOK, InputsConserved, OwnerInv, FollowInv,
         FlushNext \/ ApplyNext
  PROVE  InHandPermitted'
<1> StackOK
  BY DEF OwnerInv
<1>1. UNCHANGED <<pending, applied>>
  BY DEF FlushNext, ApplyNext, controlVars, queueVars
<1>2. Spare' = Spare
  BY <1>1, FollowReturning
<1> HIDE DEF Spare
<1>3. CASE pc' # "commit"
  <2>1. ~InHand'
    BY <1>3 DEF FlushNext, ApplyNext, Call, Handle, End, InHand
  <2>2. QED
    BY <2>1 DEF InHandPermitted
<1>4. CASE pc' = "commit"
  <2>1. PICK k \in DOMAIN pending :
          /\ item'.number = pending[k].id /\ back' = back
          /\ \/ pending[k].kind # "FollowUp"
             \/ Spare /\ back = <<"head">>
    <3>1. CASE FlushNext
      <4>1. HasKind("Context") /\ back' = back
            /\ item'.number = pending[FirstOf("Context")].id
        BY <1>4, <3>1 DEF FlushNext, Call, Handle, Input, Item
      <4>2. QED
        BY <4>1, NextOldest
    <3>2. CASE ApplyNext
      <4>1. /\ pc = "apply" /\ NextInput(FollowUp) # 0 /\ back' = back
            /\ item'.number = pending[NextInput(FollowUp)].id
        BY <1>4, <3>2 DEF ApplyNext, End, Handle, Input, Item
      <4>2. FollowUp \in BOOLEAN
        BY DEF FollowUp
      <4>3. /\ NextInput(FollowUp) \in DOMAIN pending
            /\ ~FollowUp => pending[NextInput(FollowUp)].kind # "FollowUp"
        BY <4>1, <4>2, NextOldest
      <4>4. ASSUME FollowUp PROVE Spare /\ back = <<"head">>
        <5>1. WellStacked(back)
          BY <4>1 DEF StackOK, Returning
        <5>2. back = <<"head">> /\ taken = 0
          BY <4>4, <5>1, PoppedApply DEF FollowUp
        <5>3. QED
          BY <4>1, <5>2 DEF FollowInv, Permitted
      <4>5. QED
        BY <4>1, <4>3, <4>4
    <3>3. QED
      BY <3>1, <3>2
  <2>2. ASSUME NEW j \in DOMAIN pending', pending'[j].id = item'.number
        PROVE  j = k
    BY <1>1, <2>1, <2>2 DEF InputsConserved, Distinct
  <2>3. QED
    BY <1>1, <1>2, <1>4, <2>1, <2>2 DEF InHandPermitted
<1>5. QED
  BY <1>3, <1>4

\* The follow-up in hand is stored, and uses its completion up.
LEMMA FollowStored ==
  ASSUME TypeOK, InputsConserved, OwnerInv, HandInv, FollowInv, Stored
  PROVE  FollowInv'
<1> StackOK
  BY DEF OwnerInv
<1>1. /\ completions \in Nat /\ taken \in Nat
      /\ FollowUps \in Nat /\ FollowUps <= completions
  BY FollowUpsNumber DEF FollowInv, TypeOK
<1>2. /\ pc = "store" /\ pc' = Head(back) /\ back' = Tail(back) /\ taken' = taken
  BY DEF Stored
<1>3. completions' = completions /\ Destination' \in {Destination, "ending"}
  BY CommitGoing
<1>4. WellStacked(back)
  BY <1>2 DEF StackOK, Returning
<1>5. /\ Head(back) \in Resumed \cup Resting
      /\ ToApply(Tail(back)) => ToApply(back)
      /\ Head(back) = "apply" /\ Tail(back) = <<"head">> => ToApply(back)
  BY <1>4, Popped, PoppedApply
<1>6. InHandPermitted'
  <2>1. ~InHand'
    BY <1>2, <1>5 DEF InHand, Resumed, Resting
  <2>2. QED
    BY <2>1 DEF InHandPermitted
<1>7. CASE FollowUps' = FollowUps
  <2>1. Spare' = Spare
    BY <1>3, <1>7 DEF Spare
  <2> HIDE DEF Spare
  <2>2. Destination' \in {"accepted", "settle"} => Spare'
    BY <1>3, <2>1 DEF FollowInv, Permitted
  <2>3. /\ pc' \in Returning /\ ToApply(back') => Spare'
        /\ pc' = "apply" /\ back' = <<"head">> => Spare'
    BY <1>2, <1>5, <2>1 DEF FollowInv, Permitted, Returning
  <2>4. QED
    BY <1>1, <1>2, <1>3, <1>6, <1>7, <2>2, <2>3 DEF FollowInv, Permitted
<1>8. CASE FollowUps' # FollowUps
  <2>1. PICK k \in DOMAIN pending :
          /\ pending[k] \in Entry /\ pending[k].id = item.number
          /\ applied' = Append(applied, pending[k]) /\ item.what = "input"
    <3>1. item.what = "input"
      BY <1>8 DEF Stored, controlVars, FollowUps, Applied
    <3>2. QED
      BY <3>1, StoredInput
  <2>2. applied \in Seq(Entry)
    BY DEF TypeOK
  <2>3. pending[k].kind = "FollowUp" /\ FollowUps' = FollowUps + 1
    BY <1>8, <2>1, <2>2, AppliedOne
  <2>4. Spare /\ back = <<"applied", "head">>
    BY <1>2, <2>1, <2>3 DEF FollowInv, InHandPermitted, InHand
  <2>5. FollowUps' <= completions'
    BY <1>1, <1>3, <2>3, <2>4 DEF Spare
  <2>6. pc' = "applied" /\ back' = <<"head">>
    BY <1>2, <2>4
  <2>7. Permitted'
    BY <2>6, FreshApply, FreshLast DEF Permitted, Destination, Returning
  <2>8. QED
    BY <1>1, <1>2, <1>3, <1>6, <2>5, <2>7 DEF FollowInv
<1>9. QED
  BY <1>7, <1>8

\* Follow-ups never outnumber completions, whatever the step.
LEMMA FollowStep ==
  ASSUME TypeOK, InputsConserved, InputsConserved', OwnerInv, HandInv, FollowInv,
         [TurnNext]_allVars
  PROVE  FollowInv'
<1> StackOK
  BY DEF OwnerInv
<1>1. /\ completions \in Nat /\ taken \in Nat
      /\ FollowUps \in Nat /\ FollowUps <= completions
  BY FollowUpsNumber DEF FollowInv, TypeOK
<1>2. CASE FlushNext \/ ApplyNext
  <2>1. applied' = applied
    BY <1>2 DEF FlushNext, ApplyNext, controlVars
  <2>2. QED
    BY <1>1, <1>2, <2>1, FollowReturning, FollowTaken DEF FollowInv
<1>3. CASE CommitInput
  <2>1. /\ UNCHANGED <<pending, applied, item>> /\ pc = "commit" /\ pc' = "store"
        /\ back' = <<"applied">> \o back
    BY <1>3 DEF CommitInput, Call, controlVars, queueVars
  <2>2. /\ completions' = completions /\ taken' \in Nat /\ Spare' = Spare
        /\ FollowUps' = FollowUps /\ Permitted'
    BY <1>3, <2>1, FollowReturning
  <2> HIDE DEF Spare
  <2>3. <<"applied">> \o <<"head">> = <<"applied", "head">>
    <3> DEFINE x == <<"applied">> \o <<"head">>
               y == <<"applied", "head">>
    <3>1. /\ <<"applied">> \in Seq(Labels) /\ <<"head">> \in Seq(Labels)
          /\ Len(<<"applied">>) = 1 /\ Len(<<"head">>) = 1
          /\ y \in Seq(Labels) /\ Len(y) = 2 /\ y[1] = "applied" /\ y[2] = "head"
      <4>1. "applied" \in Labels /\ "head" \in Labels
        BY DEF Labels
      <4>2. <<"applied">> \in Seq(Labels) /\ Len(<<"applied">>) = 1
        BY <4>1
      <4>3. <<"head">> \in Seq(Labels) /\ Len(<<"head">>) = 1
        BY <4>1
      <4>4. y \in Seq(Labels) /\ Len(y) = 2 /\ y[1] = "applied" /\ y[2] = "head"
        BY <4>1
      <4>5. QED
        BY <4>2, <4>3, <4>4
    <3>2. /\ x \in Seq(Labels) /\ Len(x) = 2
          /\ \A i \in 1..2 : x[i] = IF i <= 1 THEN <<"applied">>[i] ELSE <<"head">>[i - 1]
      BY <3>1, ConcatProperties
    <3> HIDE DEF x
    <3>3. x[1] = "applied" /\ x[2] = "head"
      BY <3>2
    <3>4. \A i \in 1..Len(x) : x[i] = y[i]
      BY <3>1, <3>2, <3>3
    <3> HIDE DEF y
    <3>5. x = y
      BY <3>1, <3>2, <3>4, SeqEqual
    <3>6. QED
      BY <3>5 DEF x, y
  <2>4. InHandPermitted'
    BY <2>1, <2>2, <2>3 DEF FollowInv, InHandPermitted, InHand
  <2>5. QED
    BY <1>1, <2>2, <2>4 DEF FollowInv
<1>4. CASE Stored
  BY <1>4, FollowStored
<1>5. CASE Save \/ \E more \in BOOLEAN : BoundaryCommits(more)
  <2>1. applied' = applied
    BY <1>5 DEF Save, BoundaryCommits, controlVars
  <2>2. ~InHand'
    <3>1. CASE Save
      <4>1. pc = "save" /\ (Handle(Answer, "store", back) \/ Return)
        BY <3>1 DEF Save
      <4>2. CASE Handle(Answer, "store", back)
        BY <4>2 DEF Handle, Answer, Item, InHand
      <4>3. CASE Return
        BY <4>1, <4>3, Popped
        DEF Return, Call, StackOK, Returning, Resumed, Resting, InHand
      <4>4. QED
        BY <4>1, <4>2, <4>3
    <3>2. ASSUME NEW more \in BOOLEAN, BoundaryCommits(more) PROVE ~InHand'
      BY <3>2 DEF BoundaryCommits, Handle, End, Item, InHand
    <3>3. QED
      BY <1>5, <3>1, <3>2
  <2>3. QED
    BY <1>1, <1>5, <2>1, <2>2, FollowReturning DEF FollowInv, InHandPermitted
<1>6. CASE AddFeedback
  <2>1. /\ pc' = "store" /\ back' = <<"flush", "head">> /\ item' = Feedback
        /\ UNCHANGED <<applied, completions, taken>>
    BY <1>6 DEF AddFeedback, Handle, controlVars, flowVars
  <2>2. Permitted' /\ InHandPermitted'
    BY <2>1, FreshApply, FreshLast
    DEF Permitted, InHandPermitted, InHand, Destination, Returning, Feedback, Item
  <2>3. FollowUps' = FollowUps
    BY <2>1 DEF FollowUps, Applied
  <2>4. QED
    BY <1>1, <2>1, <2>2, <2>3 DEF FollowInv
<1>7. CASE HostActs
  <2>1. /\ UNCHANGED <<applied, turnVars>>
        /\ \/ pending' = pending
           \/ \E entry \in Entry : pending' = Append(pending, entry)
    BY <1>7, HostsAppend
  <2>2. UNCHANGED <<pc, back, item, taken, completions, FollowUps, Spare>>
    BY <2>1 DEF turnVars, placeVars, bodyVars, flowVars, FollowUps, Applied, Spare
  <2> HIDE DEF Spare
  <2>3. Permitted'
    BY <2>2 DEF FollowInv, Permitted, Destination
  <2>4. ASSUME NEW j \in DOMAIN pending', InHand', pending'[j].id = item.number
        PROVE  j \in DOMAIN pending /\ pending[j] = pending'[j]
    <3>1. CASE pending' = pending
      BY <3>1
    <3>2. ASSUME NEW entry \in Entry, pending' = Append(pending, entry)
          PROVE  j \in DOMAIN pending /\ pending[j] = pending'[j]
      <4>1. InHand
        BY <2>2, <2>4 DEF InHand
      <4>2. PICK k \in DOMAIN pending : pending[k].id = item.number
        BY <4>1 DEF HandInv, OldestAt
      <4>3. /\ DOMAIN pending' = 1..(Len(pending) + 1)
            /\ DOMAIN pending = 1..Len(pending) /\ Len(pending) \in Nat
            /\ \A i \in DOMAIN pending : pending'[i] = pending[i]
        <5>1. pending \in Seq(Entry)
          BY DEF TypeOK
        <5>2. QED
          BY <3>2, <5>1, AppendedEntries
      <4>4. k \in DOMAIN pending' /\ pending'[k].id = item.number
        BY <4>2, <4>3
      <4>5. j = k
        BY <2>4, <4>4 DEF InputsConserved, Distinct
      <4>6. QED
        BY <4>2, <4>3, <4>5
    <3>3. QED
      BY <2>1, <3>1, <3>2
  <2>5. InHandPermitted'
    BY <2>2, <2>4 DEF FollowInv, InHandPermitted, InHand
  <2>6. QED
    BY <1>1, <2>2, <2>3, <2>5 DEF FollowInv
<1>8. CASE ~HostActs /\ ~Handling
  <2>1. /\ UNCHANGED <<pending, applied>>
        /\ \/ UNCHANGED <<pc, back, item>>
           \/ pc' \notin {"commit", "store"}
    BY <1>8, Elsewhere
  <2>2. /\ completions' = completions \/ pc = "verify"
        /\ completions' \in Nat /\ taken' \in Nat
        /\ FollowUps' <= completions' /\ Permitted'
    BY <1>8, <2>1, FollowPlain
  <2>3. InHandPermitted'
    <3>1. CASE pc' \notin {"commit", "store"}
      BY <3>1 DEF InHandPermitted, InHand
    <3>2. CASE UNCHANGED <<pc, back, item>>
      <4>1. ASSUME InHand PROVE Spare' = Spare
        BY <2>1, <2>2, <4>1 DEF InHand, Spare, FollowUps, Applied
      <4>2. QED
        BY <2>1, <3>2, <4>1 DEF FollowInv, InHandPermitted, InHand
    <3>3. QED
      BY <2>1, <3>1, <3>2
  <2>4. QED
    BY <2>2, <2>3 DEF FollowInv
<1>9. QED
  BY <1>2, <1>3, <1>4, <1>5, <1>6, <1>7, <1>8 DEF Handling

\* One follow-up is consumed for each accepted completion at most, however many
\* are queued and however often the boundary looks (OneFollowUpPerCompletion).
THEOREM OneFollowUpPerCompletionHolds == TurnSpec => []OneFollowUpPerCompletion
<1>1. TurnInit => FollowInv
  <2> SUFFICES ASSUME TurnInit PROVE FollowInv
    OBVIOUS
  <2>1. /\ completions = 0 /\ taken = 0 /\ pc = "idle" /\ applied = <<>>
        /\ pending = <<>>
    BY DEF TurnInit, Init
  <2>2. Applied("FollowUp") = {}
    BY <2>1 DEF Applied
  <2>3. FollowUps = 0
    BY <2>2, FS_EmptySet DEF FollowUps
  <2>4. QED
    BY <2>1, <2>3 DEF FollowInv, Permitted, InHandPermitted, InHand, Destination,
       Returning
<1>2. TypeOK /\ InputsConserved /\ InputsConserved' /\ OwnerInv /\ HandInv /\ FollowInv
        /\ [TurnNext]_allVars => FollowInv'
  BY FollowStep
<1>3. FollowInv => OneFollowUpPerCompletion
  BY DEF FollowInv, FollowUps, OneFollowUpPerCompletion
<1>4. QED
  BY <1>1, <1>2, <1>3, HandInvHolds, RunsConserveInputs, OwnerInvHolds, PTL
  DEF TurnSpec
=============================================================================
