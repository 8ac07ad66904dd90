------------------------- MODULE ToolDispatchProofs -------------------------
(***************************************************************************)
(* Theorems about ToolDispatch, for every round, every limit of grants and *)
(* epochs, and every set of hooks.                                         *)
(***************************************************************************)
EXTENDS ToolDispatch, FiniteSetTheorems, TLAPS

-----------------------------------------------------------------------------
(* The inductive invariant.                                                *)

AboutGuarded == {"prepared", "ticketing", "looking", "asked", "asking", "answered",
                 "deciding", "comparing"}
Unasked == {"idle", "preparing", "prepared", "ticketing"}
Open == {"looking", "asked", "asking", "answered"}
Early == Unasked \cup Open \cup {"deciding", "recording", "checking", "comparing", "admitting"}

\* Only a guarded tool is asked about, on an epoch that has been.
QuestionsGuarded ==
  /\ \A c \in Calls : pc[c] \in AboutGuarded => ToolOf[c] \in Guarded
  /\ \A c \in Calls : ticket[c] <= epoch
  /\ IsFiniteSet(grants)

Outdated(c) == closed \/ ticket[c] < epoch

\* Why a withdrawn call will not start: each reason still lies ahead of it.
WithdrawnHasReason ==
  \A c \in withdrawn :
    \/ Stopped
    \/ steering /\ pc[c] \in Early
    \/ /\ ToolOf[c] \in Guarded
       /\ \/ pc[c] \in Unasked /\ closed
          \/ pc[c] \in Open \cup {"deciding", "recording", "checking"} /\ Outdated(c)
          \/ pc[c] = "comparing" /\ ticket[c] < epoch

\* Why an expired question gets no grant.
ExpiredHasReason ==
  \A c \in expired :
    /\ pc[c] \notin Unasked
    /\ pc[c] \in Open => Stopped \/ steering \/ Outdated(c)
    /\ pc[c] = "deciding" => Outdated(c)

\* Where the results are.
ResultsKept ==
  /\ \A c \in Calls : saved[c] # "none" => capture[c] = saved[c] /\ pc[c] \in {"done", "error"}
  /\ \A c \in Calls : pc[c] = "done" => saved[c] # "none"
  /\ lost => \E c \in Calls : pc[c] = "error"
  /\ result = "ok" => \A c \in Calls : pc[c] = "done"

-----------------------------------------------------------------------------
(* The steps of a call, reduced to what the invariants see of them.        *)

\* Where a call goes by itself, and what it has looked at.
Onward(c, stage) ==
  \/ pc[c] = "idle" /\ stage = "preparing" /\ ~Stopped /\ ~steering
  \/ pc[c] = "preparing" /\ stage \in {"recording", "checking"}
     /\ ~Stopped /\ ~steering /\ ToolOf[c] \notin Guarded
  \/ pc[c] = "preparing" /\ stage = "prepared" /\ ~Stopped /\ ~steering /\ ToolOf[c] \in Guarded
  \/ pc[c] = "prepared" /\ stage = "ticketing" /\ ~closed
  \/ pc[c] \in {"asked", "asking"} /\ stage \in {"asking", "answered"}
     /\ ~Stopped /\ ~steering /\ ~Stale(c)
  \/ pc[c] = "answered" /\ stage = "deciding" /\ ~Stopped /\ ~steering
  \/ pc[c] = "deciding" /\ stage \in {"recording", "checking"} /\ ~Stale(c)
  \/ pc[c] = "recording" /\ stage = "checking"
  \/ pc[c] = "checking" /\ stage = "comparing" /\ ToolOf[c] \in Guarded /\ ~closed
  \/ pc[c] = "checking" /\ stage = "admitting" /\ ToolOf[c] \notin Guarded
  \/ pc[c] = "comparing" /\ stage = "admitting" /\ epoch = ticket[c]
  \/ pc[c] = "admitting" /\ stage = "starting" /\ ~steering
  \/ pc[c] = "starting" /\ stage = "executing" /\ ~Stopped
  \/ pc[c] = "executing" /\ stage = "transforming"
  \/ pc[c] = "message" /\ stage = "finalizing"
  \/ pc[c] \in {"message", "finalizing"} /\ stage = "done"
  \/ stage \in {"message", "error"}

\* It takes its ticket for the present epoch, and then looks for a grant.
Asks(c) ==
  /\ \/ /\ pc[c] = "ticketing"
        /\ pc' = [pc EXCEPT ![c] = "looking"]
        /\ ticket' = [ticket EXCEPT ![c] = epoch]
     \/ /\ pc[c] = "looking"
        /\ pc' = [pc EXCEPT ![c] = "asked"]
        /\ ticket' = ticket
  /\ cached' \subseteq cached \cup {c}
  /\ UNCHANGED <<answer, withdrawn, expired, cancelled, child, grants>>

\* It fails and cancels the run or its siblings.
Stops(c) ==
  /\ \E stage \in {"message", "error"} : Move(c, stage)
  /\ Interrupted({c}) /\ Stopped' /\ UNCHANGED grants
  /\ cancelled' \in {cancelled, TRUE} /\ child' \in {child, TRUE}

Grants(c) ==
  /\ pc[c] = "deciding" /\ ~Stale(c) /\ ToolOf[c] \notin grants
  /\ ~(Cardinality(grants) >= MaxGrants)
  /\ grants' = grants \cup {ToolOf[c]}

Walks(c) ==
  /\ \E stage \in Stages : Onward(c, stage) /\ Goto(c, stage)
  /\ UNCHANGED <<cancelled, child>>
  /\ UNCHANGED grants \/ Grants(c)

\* Every step of a call is one of the three (dispatcher.rs, execute_call).
LEMMA CallSummary ==
  ASSUME NEW c \in Calls, CallStep(c)
  PROVE  /\ UNCHANGED <<hooks, result, steering, epoch, closed>>
         /\ Stops(c) \/ Asks(c) \/ Walks(c)
<1> USE DEF Stages, Plain, TaskStep, session, controls, record, question, history, Authorized, Open
<1>1. CASE Begin(c) BY <1>1 DEF Begin, Walks, Onward, Grants
<1>2. CASE Unaffordable(c) BY <1>2 DEF Unaffordable, Stops, Stopped
<1>3. CASE Prepare(c) BY <1>3 DEF Prepare, Walks, Onward, Asks, Grants
<1>4. CASE RequestTicket(c) BY <1>4 DEF RequestTicket, Walks, Onward, Grants
<1>5. CASE TakeTicket(c) BY <1>5 DEF TakeTicket, Asks
<1>6. CASE Lookup(c) BY <1>6 DEF Lookup, Asks
<1>7. CASE Poll(c) BY <1>7 DEF Poll, Walks, Onward, Grants
<1>8. CASE Recheck(c) BY <1>8 DEF Recheck, Walks, Onward, Grants
<1>9. CASE Apply(c) BY <1>9 DEF Apply, NewGrant, Full, Walks, Onward, Grants
<1>10. CASE Pending(c) BY <1>10 DEF Pending, Walks, Onward, Grants
<1>11. CASE RecordFails(c) BY <1>11 DEF RecordFails, Stops, Stopped
<1>12. CASE CheckTicket(c) BY <1>12 DEF CheckTicket, Walks, Onward, Grants
<1>13. CASE CompareTicket(c) BY <1>13 DEF CompareTicket, Walks, Onward, Grants
<1>14. CASE CheckSteering(c) BY <1>14 DEF CheckSteering, Walks, Onward, Grants
<1>15. CASE Start(c) BY <1>15 DEF Start, Walks, Onward, Grants
<1>16. CASE Execute(c) BY <1>16 DEF Execute, Walks, Onward, Grants
<1>17. CASE Transform(c) BY <1>17 DEF Transform, Walks, Onward, Grants
<1>18. CASE Keep(c) BY <1>18 DEF Keep, Recorded, Walks, Onward, Grants
<1>19. CASE Lose(c) BY <1>19 DEF Lose, Recorded, Stops, Stopped
<1>20. CASE FinalizeFails(c) BY <1>20 DEF FinalizeFails, Recorded, Walks, Onward, Grants
<1>21. CASE Finalize(c) BY <1>21 DEF Finalize, Recorded, Walks, Onward, Grants
<1>22. CASE FinalizeLost(c) BY <1>22 DEF FinalizeLost, Recorded, Walks, Onward, Grants
<1> QED BY <1>1, <1>2, <1>3, <1>4, <1>5, <1>6, <1>7, <1>8, <1>9, <1>10, <1>11,
             <1>12, <1>13, <1>14, <1>15, <1>16, <1>17, <1>18, <1>19, <1>20, <1>21, <1>22 DEF CallStep

\* What a step of a call does to the results (execute_recorded and its hooks).
Delivers(c) ==
  \E stage \in Stages :
    /\ pc' = [pc EXCEPT ![c] = stage]
    /\ \/ UNCHANGED <<capture, saved, lost>> /\ stage # "done"
       \/ UNCHANGED <<capture, saved>> /\ stage = "error"
       \/ /\ capture' = [capture EXCEPT ![c] = "original"]
          /\ UNCHANGED saved
          /\ (stage = "finalizing" /\ UNCHANGED lost) \/ stage = "error"
       \/ /\ \E version \in {"original", "final"} :
               /\ capture' = [capture EXCEPT ![c] = version]
               /\ saved' = [saved EXCEPT ![c] = version]
          /\ stage \in {"done", "error"} /\ UNCHANGED lost

\* An ended call stays ended; any other delivers in one of these ways.
LEMMA ResultSummary ==
  ASSUME NEW c \in Calls, CallStep(c)
  PROVE  pc[c] \notin {"done", "error"} /\ result' = result /\ Delivers(c)
<1> USE DEF Stages, Plain, TaskStep, session, controls, record, question, history,
            Authorized, Goto, Move, Recorded, Delivers
<1>1. CASE Begin(c) BY <1>1 DEF Begin
<1>2. CASE Unaffordable(c) BY <1>2 DEF Unaffordable
<1>3. CASE Prepare(c) BY <1>3 DEF Prepare
<1>4. CASE RequestTicket(c) BY <1>4 DEF RequestTicket
<1>5. CASE TakeTicket(c) BY <1>5 DEF TakeTicket
<1>6. CASE Lookup(c) BY <1>6 DEF Lookup
<1>7. CASE Poll(c) BY <1>7 DEF Poll
<1>8. CASE Recheck(c) BY <1>8 DEF Recheck
<1>9. CASE Apply(c) BY <1>9 DEF Apply
<1>10. CASE Pending(c) BY <1>10 DEF Pending
<1>11. CASE RecordFails(c) BY <1>11 DEF RecordFails
<1>12. CASE CheckTicket(c) BY <1>12 DEF CheckTicket
<1>13. CASE CompareTicket(c) BY <1>13 DEF CompareTicket
<1>14. CASE CheckSteering(c) BY <1>14 DEF CheckSteering
<1>15. CASE Start(c) BY <1>15 DEF Start
<1>16. CASE Execute(c) BY <1>16 DEF Execute
<1>17. CASE Transform(c) BY <1>17 DEF Transform
<1>18. CASE Keep(c) BY <1>18 DEF Keep
<1>19. CASE Lose(c) BY <1>19 DEF Lose
<1>20. CASE FinalizeFails(c) BY <1>20 DEF FinalizeFails
<1>21. CASE Finalize(c) BY <1>21 DEF Finalize
<1>22. CASE FinalizeLost(c) BY <1>22 DEF FinalizeLost
<1> QED BY <1>1, <1>2, <1>3, <1>4, <1>5, <1>6, <1>7, <1>8, <1>9, <1>10, <1>11,
             <1>12, <1>13, <1>14, <1>15, <1>16, <1>17, <1>18, <1>19, <1>20, <1>21, <1>22 DEF CallStep

\* The wakers and the journal's latch, which the summaries leave out.
LEMMA CallKeepsWakers ==
  ASSUME NEW c \in Calls, CallStep(c), woken \subseteq Calls, broken \in BOOLEAN, lost \in BOOLEAN
  PROVE  woken' \subseteq Calls /\ broken' \in BOOLEAN /\ lost' \in BOOLEAN
<1> USE DEF Plain, TaskStep, session, controls, record, Interrupted, WakeQuestions, At, Recorded
<1>1. CASE Begin(c) \/ Prepare(c) \/ Recheck(c) \/ Apply(c) \/ Pending(c)
  BY <1>1 DEF Begin, Prepare, Recheck, Apply, Pending
<1>5. CASE RequestTicket(c) \/ TakeTicket(c) \/ Lookup(c) \/ CompareTicket(c)
  BY <1>5 DEF RequestTicket, TakeTicket, Lookup, CompareTicket
<1>2. CASE CheckTicket(c) \/ CheckSteering(c) \/ Start(c) \/ Execute(c) \/ Transform(c)
  BY <1>2 DEF CheckTicket, CheckSteering, Start, Execute, Transform
<1>3. CASE Unaffordable(c) \/ RecordFails(c) \/ Poll(c)
  BY <1>3 DEF Unaffordable, RecordFails, Poll
<1>4. CASE Keep(c) \/ Lose(c) \/ FinalizeFails(c) \/ Finalize(c) \/ FinalizeLost(c)
  BY <1>4 DEF Keep, Lose, FinalizeFails, Finalize, FinalizeLost
<1> QED BY <1>1, <1>2, <1>3, <1>4, <1>5 DEF CallStep

\* What Revoke, RevokeAll and Close have in common: permissions go, and the
\* epoch moves on unless the session is closed for good.
Withdraws ==
  /\ grants' \subseteq grants /\ closed' \in BOOLEAN /\ (closed => closed')
  /\ \/ epoch' = epoch + 1 /\ epoch < MaxEpoch
     \/ epoch' = epoch /\ closed'
  /\ Invalidated

\* Every step of a host is one of the four.
LEMMA HostSummary ==
  ASSUME Host, SessionTypeOK
  PROVE  /\ result = "none" /\ UNCHANGED <<hooks, pc, ticket, cached, record, result>>
         /\ \/ Withdraws /\ UNCHANGED <<answer, controls>>
            \/ Steer
            \/ Cancel
            \/ \E c \in Calls, decision \in {"deny", "once", "session", "failed"} :
                 Answer(c, decision)
<1> USE DEF SessionTypeOK, Invalidated, Bump, controls, record, question, Withdraws
<1>1. CASE \E tool \in grants : Revoke(tool)
  BY <1>1, DispatchAssumption DEF Revoke, Host
<1>2. CASE RevokeAll
  BY <1>2, DispatchAssumption DEF RevokeAll, Host
<1>3. CASE Close
  BY <1>3, DispatchAssumption DEF Close, Host
<1>4. CASE Steer
  BY <1>4 DEF Steer, HostStep, Host
<1>5. CASE Cancel
  BY <1>5 DEF Cancel, HostStep, Host
<1>6. CASE \E c \in Calls, decision \in {"deny", "once", "session", "failed"} :
             Answer(c, decision)
  BY <1>6 DEF Answer, HostStep, Host
<1> QED BY <1>1, <1>2, <1>3, <1>4, <1>5, <1>6 DEF Host

-----------------------------------------------------------------------------
(* Type correctness.                                                       *)

\* The types of a call's own state survive its steps.
LEMMA CallKeepsCalls ==
  ASSUME NEW c \in Calls, CallStep(c), TypeOK
  PROVE  CallsTypeOK'
<1> USE DEF TypeOK, CallsTypeOK
<1>1. woken' \subseteq Calls
  BY CallKeepsWakers DEF RecordTypeOK
<1>2. CASE Stops(c)
  <2>1. withdrawn' \subseteq Calls /\ expired' \subseteq Calls
    BY <1>2 DEF Stops, Interrupted, Unstarted, Unanswered, At
  <2>2. pc' \in [Calls -> Stages]
    BY <1>2 DEF Stops, Move, Stages
  <2>3. /\ ticket' \in [Calls -> 0..MaxEpoch] /\ cached' \subseteq Calls
        /\ answer' \in [Calls -> {"none", "deny", "once", "session", "failed"}]
    <3>1. PICK stage \in {"message", "error"} : Move(c, stage)
      BY <1>2 DEF Stops
    <3>2. UNCHANGED <<ticket, cached, answer>> \/ Forget(c)
      BY <3>1 DEF Move, question
    <3>3. CASE UNCHANGED <<ticket, cached, answer>>
      BY <3>3
    <3>4. CASE Forget(c)
      BY <3>4, DispatchAssumption DEF Forget
    <3> QED BY <3>2, <3>3, <3>4
  <2> QED BY <1>1, <2>1, <2>2, <2>3
<1>3. CASE Asks(c)
  BY <1>1, <1>3 DEF Asks, Stages, SessionTypeOK
<1>4. CASE Walks(c)
  <2>1. withdrawn' \subseteq Calls /\ expired' \subseteq Calls
    BY <1>4 DEF Walks, Goto, history
  <2>2. pc' \in [Calls -> Stages]
    BY <1>4 DEF Walks, Goto, Move
  <2>3. /\ ticket' \in [Calls -> 0..MaxEpoch] /\ cached' \subseteq Calls
        /\ answer' \in [Calls -> {"none", "deny", "once", "session", "failed"}]
    BY <1>4, DispatchAssumption DEF Walks, Goto, Move, Forget, question
  <2> QED BY <1>1, <2>1, <2>2, <2>3
<1> QED BY <1>2, <1>3, <1>4, CallSummary

\* Only a guarded tool is asked about, and no question is ahead of its epoch.
LEMMA CallKeepsQuestions ==
  ASSUME NEW c \in Calls, CallStep(c), TypeOK, QuestionsGuarded
  PROVE  QuestionsGuarded' /\ SessionTypeOK'
<1> USE DEF TypeOK, CallsTypeOK, SessionTypeOK, QuestionsGuarded, AboutGuarded
<1>1. CASE Stops(c)
  <2>1. PICK stage \in {"message", "error"} : Move(c, stage)
    BY <1>1 DEF Stops
  <2>4. UNCHANGED <<ticket, cached, answer>> \/ Forget(c)
    BY <2>1 DEF Move, question
  <2>2. \A d \in Calls : ticket'[d] <= epoch
    <3>1. CASE UNCHANGED <<ticket, cached, answer>>
      BY <3>1
    <3>2. CASE Forget(c)
      BY <3>2, DispatchAssumption DEF Forget
    <3> QED BY <2>4, <3>1, <3>2
  <2>3. \A d \in Calls : pc'[d] \in AboutGuarded => ToolOf[d] \in Guarded
    BY <2>1 DEF Move
  <2> QED BY <1>1, <2>2, <2>3, CallSummary DEF Stops
<1>2. CASE Asks(c)
  <2>1. \A d \in Calls : ticket'[d] <= epoch
    BY <1>2 DEF Asks
  <2>2. \A d \in Calls : pc'[d] \in AboutGuarded => ToolOf[d] \in Guarded
    BY <1>2 DEF Asks
  <2> QED BY <1>2, <2>1, <2>2, CallSummary DEF Asks
<1>3. CASE Walks(c)
  <2>1. grants' \subseteq Guarded
    BY <1>3 DEF Walks, Grants
  <2>2. IsFiniteSet(grants')
    BY <1>3, FS_AddElement DEF Walks, Grants
  <2>3. PICK stage \in Stages : Onward(c, stage) /\ Goto(c, stage)
    BY <1>3 DEF Walks
  <2>4. \A d \in Calls : ticket'[d] <= epoch
    BY <2>3, DispatchAssumption DEF Goto, Move, Forget, question
  <2>5. \A d \in Calls : pc'[d] \in AboutGuarded => ToolOf[d] \in Guarded
    BY <2>3 DEF Goto, Move, Onward
  <2> QED BY <1>3, <2>1, <2>2, <2>4, <2>5, CallSummary
<1> QED BY <1>1, <1>2, <1>3, CallSummary

\* The types of the controls and of the results survive the steps of a call.
LEMMA CallKeepsRecords ==
  ASSUME NEW c \in Calls, CallStep(c), TypeOK
  PROVE  ControlTypeOK' /\ RecordTypeOK'
<1> USE DEF TypeOK, ControlTypeOK, RecordTypeOK
<1>1. ControlTypeOK'
  BY CallSummary DEF Stops, Asks, Walks
<1>2. broken' \in BOOLEAN /\ lost' \in BOOLEAN
  BY CallKeepsWakers DEF CallsTypeOK
<1>3. /\ capture' \in [Calls -> {"none", "original", "final"}]
      /\ saved' \in [Calls -> {"none", "original", "final"}]
  BY ResultSummary DEF Delivers
<1> QED BY <1>1, <1>2, <1>3, CallSummary

\* A host's steps keep the types and the questions.
LEMMA HostKeepsTypes ==
  ASSUME Host, TypeOK, QuestionsGuarded
  PROVE  TypeOK' /\ QuestionsGuarded'
<1> USE DEF TypeOK, SessionTypeOK
<1>1. /\ hooks' = hooks /\ pc' = pc /\ ticket' = ticket /\ cached' = cached
      /\ child' = child /\ UNCHANGED <<capture, saved, broken, lost, result>>
  BY HostSummary DEF record
<1>2. RecordTypeOK'
  BY <1>1 DEF RecordTypeOK
<1>3. CASE Withdraws /\ UNCHANGED <<answer, controls>>
  <2>1. CallsTypeOK'
    <3>1. woken' \subseteq Calls
      BY <1>3 DEF CallsTypeOK, Withdraws, Invalidated, WakeQuestions, At
    <3>2. withdrawn' \subseteq Calls /\ expired' \subseteq Calls
      BY <1>3 DEF CallsTypeOK, Withdraws, Invalidated, Overtaken, Unadmitted, Unticketed,
                  Comparing, GuardedCalls, Unanswered, At
    <3> QED BY <1>1, <1>3, <3>1, <3>2 DEF CallsTypeOK
  <2>2. SessionTypeOK'
    BY <1>3, DispatchAssumption DEF Withdraws
  <2>3. ControlTypeOK'
    BY <1>1, <1>3 DEF ControlTypeOK, controls
  <2>4. \A c \in Calls : ticket'[c] <= epoch'
    BY <1>1, <1>3, DispatchAssumption DEF Withdraws, QuestionsGuarded, CallsTypeOK
  <2>5. IsFiniteSet(grants')
    BY <1>3, FS_Subset DEF Withdraws, QuestionsGuarded
  <2> QED BY <1>1, <1>2, <2>1, <2>2, <2>3, <2>4, <2>5 DEF QuestionsGuarded
<1>4. CASE Steer \/ Cancel
  BY <1>1, <1>2, <1>4 DEF Steer, Cancel, HostStep, WakeQuestions, Interrupted, Unstarted,
     Unanswered, At, session, question, CallsTypeOK, ControlTypeOK, QuestionsGuarded
<1>5. CASE \E c \in Calls, decision \in {"deny", "once", "session", "failed"} :
             Answer(c, decision)
  BY <1>1, <1>2, <1>5 DEF Answer, HostStep, session, controls, history, CallsTypeOK, ControlTypeOK,
     QuestionsGuarded
<1> QED BY <1>3, <1>4, <1>5, HostSummary

\* Every variable keeps its type in every behaviour, whatever the round, the
\* hooks and the limits; only guarded tools are asked about or granted.
THEOREM TypeCorrect == Spec => [](TypeOK /\ QuestionsGuarded)
<1>1. Init => TypeOK /\ QuestionsGuarded
  <2> SUFFICES ASSUME Init PROVE TypeOK /\ QuestionsGuarded
    OBVIOUS
  <2>1. CallsTypeOK
    BY DispatchAssumption DEF Init, CallsTypeOK, Stages
  <2>2. SessionTypeOK /\ ControlTypeOK
    <3>1. epoch \in 0..MaxEpoch
      BY DispatchAssumption DEF Init
    <3>2. grants \subseteq Guarded
      BY DEF Init
    <3>3. closed \in BOOLEAN /\ ControlTypeOK
      BY Zenon DEF Init, ControlTypeOK
    <3> QED BY <3>1, <3>2, <3>3 DEF SessionTypeOK
  <2>3. RecordTypeOK
    BY DispatchAssumption DEF Init, RecordTypeOK
  <2>4. IsFiniteSet(grants)
    BY FS_EmptySet, FS_Singleton DEF Init
  <2> QED BY <2>1, <2>2, <2>3, <2>4 DEF TypeOK, QuestionsGuarded, AboutGuarded, Init
<1>2. TypeOK /\ QuestionsGuarded /\ [Next]_vars => TypeOK' /\ QuestionsGuarded'
  <2> SUFFICES ASSUME TypeOK, QuestionsGuarded, [Next]_vars PROVE TypeOK' /\ QuestionsGuarded'
    OBVIOUS
  <2>1. CASE Return
    BY <2>1 DEF Return, TypeOK, CallsTypeOK, SessionTypeOK, ControlTypeOK, RecordTypeOK,
       QuestionsGuarded, question, session, controls, record, history
  <2>2. ASSUME NEW c \in Calls, CallStep(c) PROVE TypeOK' /\ QuestionsGuarded'
    BY <2>2, CallKeepsCalls, CallKeepsQuestions, CallKeepsRecords DEF TypeOK
  <2>3. CASE Host
    BY <2>3, HostKeepsTypes
  <2>4. CASE UNCHANGED vars
    BY <2>4 DEF vars, TypeOK, CallsTypeOK, SessionTypeOK, ControlTypeOK, RecordTypeOK,
       QuestionsGuarded, question, session, controls, record, history
  <2> QED BY <2>1, <2>2, <2>3, <2>4 DEF Next
<1> QED BY <1>1, <1>2, PTL DEF Spec

-----------------------------------------------------------------------------
(* Safety.                                                                 *)

\* A call takes its reasons with it until the look that finds them.
LEMMA CallKeepsReasons ==
  ASSUME NEW c \in Calls, CallStep(c), TypeOK, QuestionsGuarded,
         WithdrawnHasReason, ExpiredHasReason
  PROVE  WithdrawnHasReason' /\ ExpiredHasReason'
<1> USE DEF WithdrawnHasReason, ExpiredHasReason, Outdated, Open, Unasked, Early
<1>0. /\ UNCHANGED <<steering, epoch, closed>> /\ (Stopped => Stopped')
      /\ pc \in [Calls -> Stages] /\ ticket \in [Calls -> 0..MaxEpoch]
      /\ withdrawn \subseteq Calls /\ expired \subseteq Calls
  BY CallSummary DEF Stops, Asks, Walks, TypeOK, CallsTypeOK, Stopped
<1>1. CASE Stops(c)
  <2>1. WithdrawnHasReason'
    BY <1>1 DEF Stops
  <2>2. PICK stage \in {"message", "error"} : Move(c, stage)
    BY <1>1 DEF Stops
  <2>3. \A d \in Calls : d # c => pc'[d] = pc[d]
    BY <1>0, <2>2 DEF Move
  <2>4. UNCHANGED <<ticket, cached, answer>> \/ Forget(c)
    BY <2>2 DEF Move, question
  <2>5. \A d \in Calls : d # c => ticket'[d] = ticket[d]
    <3>1. CASE UNCHANGED <<ticket, cached, answer>>
      BY <3>1
    <3>2. CASE Forget(c)
      BY <1>0, <3>2 DEF Forget
    <3> QED BY <2>4, <3>1, <3>2
  <2>6. ASSUME NEW d \in expired'
        PROVE  d # c /\ d \in Calls /\ (d \in expired \/ pc[d] \in Open)
    BY <1>0, <1>1, <2>6 DEF Stops, Interrupted, Unanswered, At
  <2>7. Stopped'
    BY <1>1 DEF Stops
  <2> QED BY <1>0, <2>1, <2>3, <2>5, <2>6, <2>7
<1>2. CASE Asks(c)
  <2>1. /\ c \in withdrawn => \/ Stopped
                              \/ steering /\ pc'[c] \in Early
                              \/ ToolOf[c] \in Guarded /\ pc'[c] \in Open /\ Outdated(c)'
        /\ c \in expired => /\ pc'[c] \in Open
                            /\ Stopped \/ steering \/ Outdated(c)'
    BY <1>0, <1>2 DEF Asks
  <2>2. ASSUME NEW d \in Calls, d # c PROVE pc'[d] = pc[d] /\ ticket'[d] = ticket[d]
    BY <1>0, <1>2, <2>2 DEF Asks
  <2>3. withdrawn' = withdrawn /\ expired' = expired
    BY <1>2 DEF Asks
  <2> QED BY <1>0, <2>1, <2>2, <2>3
<1>3. CASE Walks(c)
  <2>1. PICK stage \in Stages : Onward(c, stage) /\ Goto(c, stage)
    BY <1>3 DEF Walks
  <2>2. /\ withdrawn' \subseteq withdrawn /\ expired' \subseteq expired
        /\ stage \in {"message", "error"} => c \notin withdrawn' /\ c \notin expired'
    BY <2>1 DEF Goto, history
  <2>3. pc' = [pc EXCEPT ![c] = stage]
    BY <2>1 DEF Goto, Move
  <2>4. /\ \A d \in Calls : d # c => ticket'[d] = ticket[d]
        /\ stage \in Questioned => ticket'[c] = ticket[c]
    BY <1>0, <2>1 DEF Goto, Move, Forget, question
  <2>5. ASSUME NEW d \in withdrawn', d # c
        PROVE  d \in withdrawn /\ pc'[d] = pc[d] /\ ticket'[d] = ticket[d]
    BY <1>0, <2>2, <2>3, <2>4, <2>5
  <2>6. ASSUME NEW d \in expired', d # c
        PROVE  d \in expired /\ pc'[d] = pc[d] /\ ticket'[d] = ticket[d]
    BY <1>0, <2>2, <2>3, <2>4, <2>6
  <2>7. pc'[c] = stage /\ ticket[c] \in Nat /\ epoch \in Nat /\ ticket[c] <= epoch
    BY <1>0, <2>3, DispatchAssumption DEF QuestionsGuarded, TypeOK, SessionTypeOK
  <2>8. /\ ~Stale(c) => ~Outdated(c)
        /\ ~closed /\ Outdated(c) => ticket[c] < epoch
    BY <2>7 DEF Stale
  <2>9. ASSUME c \in withdrawn'
        PROVE  \/ Stopped'
               \/ steering /\ stage \in Early
               \/ /\ ToolOf[c] \in Guarded
                  /\ \/ stage \in Unasked /\ closed
                     \/ stage \in Open \cup {"deciding", "recording", "checking"} /\ Outdated(c)
                     \/ stage = "comparing" /\ ticket[c] < epoch
    <3> HIDE DEF Outdated
    <3> QED BY <1>0, <2>1, <2>2, <2>7, <2>8, <2>9 DEF Onward, QuestionsGuarded, AboutGuarded
  <2>10. ASSUME c \in expired'
         PROVE  /\ stage \notin Unasked
                /\ stage \in Open => Stopped' \/ steering \/ Outdated(c)
                /\ stage = "deciding" => Outdated(c)
    <3> HIDE DEF Outdated
    <3> QED BY <1>0, <2>1, <2>2, <2>8, <2>10 DEF Onward
  <2>11. WithdrawnHasReason'
    BY <1>0, <2>4, <2>5, <2>7, <2>9 DEF Questioned
  <2>12. ExpiredHasReason'
    BY <1>0, <2>4, <2>6, <2>7, <2>10 DEF Questioned
  <2> QED BY <2>11, <2>12
<1> QED BY <1>1, <1>2, <1>3, CallSummary

\* Whatever a host does, the calls it withdraws get a reason.
LEMMA HostKeepsReasons ==
  ASSUME Host, TypeOK, QuestionsGuarded, WithdrawnHasReason, ExpiredHasReason
  PROVE  WithdrawnHasReason' /\ ExpiredHasReason'
<1> USE DEF WithdrawnHasReason, ExpiredHasReason, Outdated, Open, Unasked, Early
<1>0. /\ pc' = pc /\ ticket' = ticket /\ child' = child
      /\ withdrawn \subseteq Calls /\ expired \subseteq Calls
      /\ \A c \in Calls : ticket[c] \in Nat /\ ticket[c] <= epoch
      /\ epoch \in Nat
  BY HostSummary, DispatchAssumption DEF record, TypeOK, CallsTypeOK, SessionTypeOK, QuestionsGuarded
<1>1. CASE Withdraws /\ UNCHANGED <<answer, controls>>
  <2>1. /\ UNCHANGED <<steering, cancelled>> /\ (closed => closed')
        /\ \A c \in Calls : Outdated(c) => Outdated(c)'
        /\ \A c \in Calls : Outdated(c)'
        /\ \A c \in Calls : epoch' # epoch \/ ticket[c] < epoch => ticket[c] < epoch'
    BY <1>0, <1>1 DEF Withdraws, controls
  <2>2. Stopped' = Stopped
    BY <1>0, <2>1 DEF Stopped
  <2>3. ASSUME NEW c \in withdrawn'
        PROVE  /\ c \in Calls
               /\ \/ c \in withdrawn
                  \/ /\ ToolOf[c] \in Guarded
                     /\ pc[c] \in Open \cup {"deciding", "recording", "checking"}
                  \/ closed' /\ ToolOf[c] \in Guarded /\ pc[c] \in Unasked
                  \/ epoch' # epoch /\ ToolOf[c] \in Guarded /\ pc[c] = "comparing"
    BY <1>0, <1>1, <2>3 DEF Withdraws, Invalidated, Overtaken, Unadmitted, Unticketed, Comparing,
       Unanswered, GuardedCalls, At
  <2>4. ASSUME NEW c \in expired'
        PROVE  /\ c \in Calls
               /\ c \in expired \/ pc[c] \in Open \cup {"deciding"}
    BY <1>0, <1>1, <2>4 DEF Withdraws, Invalidated, Unanswered, At
  <2>5. WithdrawnHasReason'
    <3> HIDE DEF Outdated
    <3> QED BY <1>0, <2>1, <2>2, <2>3
  <2>6. ExpiredHasReason'
    <3> HIDE DEF Outdated
    <3> QED BY <1>0, <2>1, <2>2, <2>4
  <2> QED BY <2>5, <2>6
<1>2. CASE Steer
  BY <1>0, <1>2 DEF Steer, HostStep, session, Unstarted, Unanswered, At, Stopped
<1>3. CASE Cancel
  BY <1>0, <1>3 DEF Cancel, HostStep, session, Interrupted, Unanswered, Unstarted, At, Stopped
<1>4. CASE \E c \in Calls, decision \in {"deny", "once", "session", "failed"} :
             Answer(c, decision)
  BY <1>0, <1>4 DEF Answer, HostStep, session, controls, history, Stopped
<1> QED BY <1>1, <1>2, <1>3, <1>4, HostSummary DEF TypeOK

\* The reasons hold in every state.
LEMMA ReasonsKept == Spec => [](WithdrawnHasReason /\ ExpiredHasReason)
<1>1. Init => WithdrawnHasReason /\ ExpiredHasReason
  BY DEF Init, WithdrawnHasReason, ExpiredHasReason
<1>2. /\ TypeOK /\ QuestionsGuarded /\ WithdrawnHasReason /\ ExpiredHasReason
      /\ [Next]_vars
      => WithdrawnHasReason' /\ ExpiredHasReason'
  <2> SUFFICES ASSUME TypeOK, QuestionsGuarded, WithdrawnHasReason, ExpiredHasReason, [Next]_vars
               PROVE  WithdrawnHasReason' /\ ExpiredHasReason'
    OBVIOUS
  <2>1. CASE Return
    BY <2>1 DEF Return, WithdrawnHasReason, ExpiredHasReason, Outdated, Stopped, question, session,
       controls, record, history
  <2>2. ASSUME NEW c \in Calls, CallStep(c) PROVE WithdrawnHasReason' /\ ExpiredHasReason'
    BY <2>2, CallKeepsReasons
  <2>3. CASE Host
    BY <2>3, HostKeepsReasons
  <2>4. CASE UNCHANGED vars
    BY <2>4 DEF vars, WithdrawnHasReason, ExpiredHasReason, Outdated, Stopped, question, session,
       controls, record, history
  <2> QED BY <2>1, <2>2, <2>3, <2>4 DEF Next
<1> QED BY <1>1, <1>2, TypeCorrect, PTL DEF Spec

\* No operation starts after its permission was revoked, its session closed,
\* steering arrived or the run was cancelled, before the last look at that.
THEOREM WithdrawalsHold == Spec => WithdrawnNeverStarts
<1>1. /\ TypeOK /\ WithdrawnHasReason /\ [Next]_vars
      => [\A c \in withdrawn : pc[c] = "starting" => pc'[c] # "executing"]_vars
  <2> SUFFICES ASSUME TypeOK, WithdrawnHasReason, Next,
                      NEW c \in withdrawn, pc[c] = "starting"
               PROVE  pc'[c] # "executing"
    OBVIOUS
  <2>1. c \in Calls /\ pc \in [Calls -> Stages] /\ Stopped
    BY DEF TypeOK, CallsTypeOK, WithdrawnHasReason, Early, Unasked, Open
  <2>2. CASE Return \/ Host
    BY <2>2, HostSummary DEF Return, TypeOK
  <2>3. ASSUME NEW d \in Calls, CallStep(d) PROVE pc'[c] # "executing"
    <3>1. CASE Stops(d)
      BY <2>1, <3>1 DEF Stops, Move
    <3>2. CASE Asks(d)
      BY <2>1, <3>2 DEF Asks
    <3>3. CASE Walks(d)
      BY <2>1, <3>3 DEF Walks, Onward, Goto, Move
    <3> QED BY <2>3, <3>1, <3>2, <3>3, CallSummary
  <2> QED BY <2>2, <2>3 DEF Next
<1> QED BY <1>1, TypeCorrect, ReasonsKept, PTL DEF Spec, WithdrawnNeverStarts

\* A permission is stored only by a question that was answered in time, and
\* only while it fits.
THEOREM GrantsInTime == Spec => NoLateGrant
<1> DEFINE Granted == \/ grants' \subseteq grants
                      \/ /\ \E c \in Calls \ expired : pc[c] = "deciding" /\ pc'[c] # "deciding"
                         /\ Cardinality(grants') <= MaxGrants
<1>1. TypeOK /\ QuestionsGuarded /\ ExpiredHasReason /\ [Next]_vars => [Granted]_vars
  <2> SUFFICES ASSUME TypeOK, QuestionsGuarded, ExpiredHasReason, Next PROVE Granted
    OBVIOUS
  <2>1. CASE Return \/ Host
    BY <2>1, HostSummary DEF Return, TypeOK, session, Withdraws, Steer, Cancel, Answer, HostStep
  <2>2. ASSUME NEW c \in Calls, CallStep(c) PROVE Granted
    <3>1. CASE Stops(c) \/ Asks(c) \/ UNCHANGED grants
      BY <3>1 DEF Stops, Asks
    <3>2. CASE Walks(c) /\ Grants(c)
      <4>1. c \notin expired
        BY <3>2, DispatchAssumption DEF Grants, Stale, ExpiredHasReason, Outdated, TypeOK, CallsTypeOK,
           SessionTypeOK
      <4>2. pc[c] = "deciding" /\ pc'[c] # "deciding"
        BY <3>2 DEF Walks, Grants, Onward, Goto, Move, TypeOK, CallsTypeOK
      <4>3. IsFiniteSet(grants) /\ Cardinality(grants) \in Nat
        BY FS_CardinalityType DEF QuestionsGuarded
      <4>4. Cardinality(grants') = Cardinality(grants) + 1
        BY <3>2, <4>3, FS_AddElement DEF Grants
      <4>5. Cardinality(grants') <= MaxGrants
        BY <3>2, <4>3, <4>4, DispatchAssumption DEF Grants
      <4> QED BY <4>1, <4>2, <4>5
    <3> QED BY <2>2, <3>1, <3>2, CallSummary DEF Walks
  <2> QED BY <2>1, <2>2 DEF Next
<1> QED BY <1>1, TypeCorrect, ReasonsKept, PTL DEF Spec, NoLateGrant

-----------------------------------------------------------------------------
(* The results.                                                            *)

\* A call that is not over keeps every other call's result where it is.
LEMMA CallKeepsResults ==
  ASSUME NEW c \in Calls, CallStep(c), TypeOK, ResultsKept
  PROVE  ResultsKept'
<1> USE DEF ResultsKept
<1>1. PICK stage \in Stages :
        /\ pc' = [pc EXCEPT ![c] = stage]
        /\ \/ UNCHANGED <<capture, saved, lost>> /\ stage # "done"
           \/ UNCHANGED <<capture, saved>> /\ stage = "error"
           \/ /\ capture' = [capture EXCEPT ![c] = "original"]
              /\ UNCHANGED saved
              /\ (stage = "finalizing" /\ UNCHANGED lost) \/ stage = "error"
           \/ /\ \E version \in {"original", "final"} :
                   /\ capture' = [capture EXCEPT ![c] = version]
                   /\ saved' = [saved EXCEPT ![c] = version]
              /\ stage \in {"done", "error"} /\ UNCHANGED lost
  BY ResultSummary DEF Delivers
<1>2. /\ pc \in [Calls -> Stages]
      /\ capture \in [Calls -> {"none", "original", "final"}]
      /\ saved \in [Calls -> {"none", "original", "final"}]
  BY DEF TypeOK, CallsTypeOK, RecordTypeOK
<1>3. pc[c] \notin {"done", "error"} /\ saved[c] = "none" /\ result' # "ok"
  BY <1>2, ResultSummary
<1>4. \A d \in Calls : d # c => pc'[d] = pc[d] /\ capture'[d] = capture[d] /\ saved'[d] = saved[d]
  BY <1>1, <1>2
<1>5. /\ saved'[c] # "none" => capture'[c] = saved'[c] /\ pc'[c] \in {"done", "error"}
      /\ pc'[c] = "done" => saved'[c] # "none"
      /\ lost' => lost \/ pc'[c] = "error"
  BY <1>1, <1>2, <1>3
<1> QED BY <1>3, <1>4, <1>5

\* Whatever the order in which the calls of a round end, no checkpoint is
\* missing from what the executor gets, and a round that goes on lost nothing.
THEOREM CheckpointsArrive == Spec => []CheckpointsDelivered
<1>1. Init => ResultsKept
  BY DEF Init, ResultsKept
<1>2. TypeOK /\ ResultsKept /\ [Next]_vars => ResultsKept'
  <2> SUFFICES ASSUME TypeOK, ResultsKept, [Next]_vars PROVE ResultsKept'
    OBVIOUS
  <2>1. CASE Return
    BY <2>1 DEF Return, ResultsKept, record
  <2>2. ASSUME NEW c \in Calls, CallStep(c) PROVE ResultsKept'
    BY <2>2, CallKeepsResults
  <2>3. CASE Host
    BY <2>3, HostSummary DEF ResultsKept, record, TypeOK
  <2>4. CASE UNCHANGED vars
    BY <2>4 DEF vars, ResultsKept, record
  <2> QED BY <2>1, <2>2, <2>3, <2>4 DEF Next
<1>3. ResultsKept => CheckpointsDelivered
  BY DEF ResultsKept, CheckpointsDelivered
<1> QED BY <1>1, <1>2, <1>3, TypeCorrect, PTL DEF Spec

=============================================================================
