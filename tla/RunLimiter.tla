----------------------------- MODULE RunLimiter -----------------------------
(***************************************************************************)
(* The run's meter: src/crates/aicoder-core/src/run.rs (RunLimiter),       *)
(* run/auxiliary.rs (AuxiliaryLease), the native tasks that lease from it  *)
(* (tools/dispatcher/auxiliary.rs, extensions/boundary_models.rs) and the  *)
(* end of the run that turns its state into an outcome                     *)
(* (turn_executor.rs:462-566, classify_stop).                              *)
(*                                                                         *)
(* One task polls the hooks and the calls of a batch, so what a call does  *)
(* between two awaits is one step; only the host's cancellation runs on    *)
(* another thread and may come between the two halves of RunLimiter::stop. *)
(* Plain and auxiliary calls run side by side, as the dispatcher's         *)
(* join_all does; a hook runs alone, before them.                          *)
(***************************************************************************)
EXTENDS Naturals, FiniteSets, FiniteSetsExt

CONSTANTS
  Plain,          \* calls that run an ordinary tool
  Auxiliary,      \* calls whose plan declares an auxiliary model task
  Hooks,          \* boundary hooks that generate through BoundaryModels
  Slots,          \* permits of auxiliary_gate: 4 in the code
  MaxToolCalls,   \* RunBudget::max_tool_calls
  MaxAuxiliary,   \* max_auxiliary_calls
  MaxTokens,      \* max_tokens
  Amounts,        \* what a request may reserve: input plus output reservation
  Reports,        \* usage totals a model or a service may report
  Unreported      \* the usage of an attempt nobody measured

ASSUME LimiterAssumption ==
  /\ IsFiniteSet(Plain \cup Auxiliary \cup Hooks)
  /\ Plain \cap Auxiliary = {} /\ Hooks \cap (Plain \cup Auxiliary) = {}
  /\ {Slots, MaxToolCalls, MaxAuxiliary, MaxTokens} \subseteq Nat
  /\ Amounts \subseteq Nat /\ Reports \subseteq Nat

Calls == Plain \cup Auxiliary
Actors == Calls \cup Hooks
Tasks == Auxiliary \cup Hooks
Resources == {"tool_calls", "auxiliary_calls", "tokens", "duration"}

VARIABLES
  phase,      \* "hooks", "model", "batch", "ended"
  pc,         \* where each actor is
  error,      \* the error an actor returned to run_inner
  stop,       \* Usage::stop
  stopping,   \* stop() has recorded its violation and not cancelled yet
  cancel,     \* the first cancellation of the run's context, "none" while it runs
  failure,    \* Usage::failure
  late,       \* max_duration has elapsed
  toolCalls,  \* Usage::tool_calls
  used,       \* Usage::tokens.used
  reserved,   \* Usage::auxiliary_reserved
  permits,    \* free permits of auxiliary_gate
  lease,      \* the auxiliary attempt of a task: status, amount, usage
  outcome,    \* the RunOutcome
  first,      \* history: the first stopping condition anybody observed
  primary,    \* history: tokens charged for the main model
  overrun     \* history: tokens charged beyond what was available or reserved

meter == <<toolCalls, used, reserved, permits, lease, primary, overrun>>
vars == <<phase, pc, error, stop, stopping, cancel, failure, late, meter,
          outcome, first>>

NoLease == [status |-> "none", amount |-> 0, usage |-> Unreported]
Live == {t \in Tasks : lease[t].status \in {"prepared", "running"}}
Attempts == {t \in Tasks : lease[t].status # "none"}

(***************************************************************************)
(* RunLimiter                                                              *)
(***************************************************************************)
LimiterInit ==
  /\ stop = "none" /\ stopping = FALSE /\ cancel = "none" /\ failure = FALSE
  /\ late = FALSE
  /\ toolCalls = 0 /\ used = 0 /\ reserved = 0 /\ permits = Slots
  /\ lease = [t \in Tasks |-> NoLease]

\* stop(): the violation is recorded only while nothing else stopped the run;
\* the context is cancelled after the lock was dropped.
Stop_AfterCancel(resource) ==
  IF stop = "none"
    THEN /\ stop' = resource
         /\ stopping' = TRUE
         /\ first' = IF first = "none" THEN resource ELSE first
    ELSE UNCHANGED <<stop, stopping, first>>
Stop(resource) ==
  IF stop = "none" /\ cancel = "none"
    THEN /\ stop' = resource
         /\ stopping' = TRUE
         /\ first' = IF first = "none" THEN resource ELSE first
    ELSE UNCHANGED <<stop, stopping, first>>


StopCancels ==
  /\ stopping
  /\ stopping' = FALSE
  /\ cancel' = IF cancel = "none" THEN "budget" ELSE cancel
  /\ UNCHANGED <<phase, pc, error, stop, failure, late, meter, outcome, first>>

NotStopped == UNCHANGED <<stop, stopping, first>>

\* check() with these tokens used: the violation it would raise, and what it
\* returns. One it cannot record means that the context is cancelled already.
RaisesAt(tokens) ==
  IF failure THEN "none"
  ELSE IF tokens > MaxTokens THEN "tokens"
  ELSE IF late THEN "duration"
  ELSE "none"
Raises == RaisesAt(used)
Checked ==
  IF failure THEN "failed"
  ELSE IF stop # "none" \/ (cancel = "none" /\ Raises # "none") THEN "budget"
  ELSE IF cancel # "none" THEN "cancelled"
  ELSE "none"
CheckAt(tokens) ==
  IF RaisesAt(tokens) = "none" THEN NotStopped ELSE Stop(RaisesAt(tokens))
Check == CheckAt(used)

\* saturating_sub
Less(a, b) == IF a > b THEN a - b ELSE 0
Remaining == Less(Less(MaxTokens, used), reserved)

\* fail_persistence()
FailPersistence ==
  /\ failure' = TRUE
  /\ cancel' = IF cancel = "none" THEN "persistence" ELSE cancel
  /\ first' = IF first = "none" THEN "failed" ELSE first
  /\ UNCHANGED <<stop, stopping>>

\* AuxiliaryLease::finish, and its Drop: settles the reservation once.
Charge(l) == IF l.status # "running" THEN 0
             ELSE IF l.usage = Unreported THEN l.amount ELSE l.usage
Finish_Twice(t, status) ==
  /\ reserved' = Less(reserved, lease[t].amount)
  /\ used' = used + Charge(lease[t])
  /\ overrun' = overrun + Less(Charge(lease[t]), lease[t].amount)
  /\ lease' = IF t \in Live
                THEN [lease EXCEPT ![t].status =
                        IF @ = "running" THEN status ELSE "not_started"]
                ELSE lease
Finish(t, status) ==
  IF t \in Live
    THEN /\ reserved' = Less(reserved, lease[t].amount)
         /\ used' = used + Charge(lease[t])
         /\ overrun' = overrun + Less(Charge(lease[t]), lease[t].amount)
         /\ lease' = [lease EXCEPT ![t].status =
                        IF @ = "running" THEN status ELSE "not_started"]
    ELSE UNCHANGED <<reserved, used, overrun, lease>>

(***************************************************************************)
(* The run around it                                                       *)
(***************************************************************************)
Init ==
  /\ LimiterInit
  /\ phase = "hooks"
  /\ pc = [a \in Actors |-> "idle"]
  /\ error = [a \in Actors |-> "none"]
  /\ outcome = "running" /\ first = "none" /\ primary = 0 /\ overrun = 0

Running(p) == phase = p /\ ~stopping
Goto(a, place) == pc' = [pc EXCEPT ![a] = place]
Fails(a, kind) == Goto(a, "done") /\ error' = [error EXCEPT ![a] = kind]
Holding == {a \in Tasks : pc[a] \in {"intent", "invoke", "deliver", "receipt"}}
Finished(group) == \A a \in group : pc[a] = "done"

\* run_inner is about to return: nothing is awaited between that and the end.
Errors == {error[a] : a \in Actors} \ {"none"}
Over ==
  /\ ~stopping
  /\ \/ phase = "hooks" /\ Errors # {}
     \/ phase = "stopped"
     \/ phase = "batch" /\ Finished(Calls)

\* TurnExecutionContext::cancel by the host, on its own thread.
HostCancel ==
  /\ cancel = "none" /\ phase # "ended"
  /\ cancel' = "user"
  /\ first' = IF first = "none" THEN "user" ELSE first
  /\ UNCHANGED <<phase, pc, error, stop, stopping, failure, late, meter, outcome>>

Elapse ==
  /\ ~late /\ late' = TRUE
  /\ UNCHANGED <<phase, pc, error, stop, stopping, cancel, failure, meter,
                 outcome, first>>

\* The timer branch of the select around run_inner.
TimerFires ==
  /\ late /\ ~stopping /\ phase # "ended" /\ ~Over
  /\ stop = "none" /\ cancel = "none"
  /\ Stop("duration")
  /\ UNCHANGED <<phase, pc, error, cancel, failure, late, meter, outcome>>

HooksDone ==
  /\ Running("hooks") /\ Finished(Hooks)
  /\ \A h \in Hooks : error[h] = "none"
  /\ Check
  /\ phase' = IF Checked = "none" THEN "model" ELSE "stopped"
  /\ UNCHANGED <<pc, error, cancel, failure, late, meter, outcome>>

\* account_tokens for the response, then reserve_tools for its whole batch.
Account(total) ==
  /\ used' = used + total
  /\ primary' = primary + total
  /\ overrun' = overrun + Less(total, Remaining)
  /\ UNCHANGED <<toolCalls, reserved, permits, lease>>
ModelAnswers(total) ==
  /\ Running("model") /\ cancel = "none" /\ primary = 0
  /\ Account(total)
  /\ UNCHANGED <<phase, pc, error, stop, stopping, cancel, failure, late,
                 outcome, first>>
ReserveTools ==
  /\ Running("model")
  /\ IF Checked # "none"
       THEN Check /\ phase' = "stopped"
       ELSE IF Cardinality(Calls) > Less(MaxToolCalls, toolCalls)
         THEN Stop("tool_calls") /\ phase' = "stopped"
         ELSE NotStopped /\ phase' = "batch"
  /\ UNCHANGED <<pc, error, cancel, failure, late, meter, outcome>>

(***************************************************************************)
(* One call of the batch                                                   *)
(***************************************************************************)
\* admit_tool()
Admit(c) ==
  /\ Running("batch") /\ pc[c] = "idle"
  /\ IF cancel # "none" \/ Checked # "none"
       THEN /\ IF cancel # "none" THEN NotStopped ELSE Check
            /\ Fails(c, IF cancel # "none" THEN "cancelled" ELSE Checked)
            /\ UNCHANGED toolCalls
       ELSE IF toolCalls >= MaxToolCalls
         THEN Stop("tool_calls") /\ Fails(c, "budget") /\ UNCHANGED toolCalls
         ELSE /\ NotStopped
              /\ toolCalls' = toolCalls + 1
              /\ Goto(c, IF c \in Plain THEN "invoke" ELSE "slot")
              /\ UNCHANGED error
  /\ UNCHANGED <<phase, cancel, failure, late, used, reserved, permits, lease,
                 outcome, primary, overrun>>

PlainEnds(c) ==
  /\ Running("batch") /\ c \in Plain /\ pc[c] = "invoke"
  /\ IF cancel = "none" THEN Goto(c, "done") /\ UNCHANGED error
                        ELSE Fails(c, "cancelled")
  /\ UNCHANGED <<phase, stop, stopping, cancel, failure, late, meter, outcome,
                 first>>

(***************************************************************************)
(* One auxiliary task: execute_auxiliary and BoundaryModels::generate      *)
(***************************************************************************)
\* A tool's failure is a message for the model. A hook's callback may pass the
\* error on, which ends the run and hides the error's kind (extensions::invoke),
\* or go on without its answer.
Refuse(t) ==
  \/ t \in Hooks /\ Fails(t, "fault")
  \/ Goto(t, "done") /\ UNCHANGED error

BeginHook(h) ==
  /\ Running("hooks") /\ h \in Hooks /\ pc[h] = "idle"
  /\ \A other \in Hooks : pc[other] \in {"idle", "done"} /\ error[other] = "none"
  /\ IF cancel # "none"
       THEN NotStopped /\ (Fails(h, "cancelled") \/ Refuse(h))
       ELSE /\ Check
            /\ IF Checked = "none" THEN Goto(h, "slot") /\ UNCHANGED error
                                   ELSE Refuse(h)
  /\ UNCHANGED <<phase, cancel, failure, late, meter, outcome>>

\* auxiliary_slot(), then reserve_auxiliary() in the same poll.
Lease(t, amount) ==
  /\ reserved' = reserved + amount
  /\ lease' = [lease EXCEPT ![t] = [status |-> "prepared", amount |-> amount,
                                    usage |-> Unreported]]
  /\ permits' = permits - 1
ReserveAuxiliary_Stale(t, amount) ==
  /\ ~stopping /\ pc[t] = "slot" /\ cancel = "none" /\ permits > 0
  /\ IF Checked # "none" \/ amount > Less(MaxTokens, used)
       THEN Check /\ Refuse(t) /\ UNCHANGED <<reserved, lease, permits>>
       ELSE NotStopped /\ Lease(t, amount) /\ Goto(t, "intent") /\ UNCHANGED error
  /\ UNCHANGED <<phase, cancel, failure, late, toolCalls, used, outcome,
                 primary, overrun>>
ReserveAuxiliary(t, amount) ==
  /\ ~stopping /\ pc[t] = "slot" /\ cancel = "none" /\ permits > 0
  /\ IF Checked # "none"
       THEN Check /\ Refuse(t) /\ UNCHANGED <<reserved, lease, permits>>
       ELSE IF Cardinality(Attempts) >= MaxAuxiliary
         THEN /\ Stop("auxiliary_calls") /\ Refuse(t)
              /\ UNCHANGED <<reserved, lease, permits>>
       ELSE IF amount > Remaining
         THEN /\ Stop("tokens") /\ Refuse(t)
              /\ UNCHANGED <<reserved, lease, permits>>
       ELSE NotStopped /\ Lease(t, amount) /\ Goto(t, "intent") /\ UNCHANGED error
  /\ UNCHANGED <<phase, cancel, failure, late, toolCalls, used, outcome,
                 primary, overrun>>

\* The Started record is durable before the provider is invoked; a hook looks
\* at the limits once more.
IntentStored(t) ==
  /\ ~stopping /\ pc[t] = "intent" /\ cancel = "none"
  /\ IF t \in Hooks /\ Checked # "none"
       THEN /\ Check /\ Finish(t, "interrupted") /\ Refuse(t)
            /\ permits' = permits + 1
       ELSE /\ NotStopped /\ Goto(t, "invoke")
            /\ lease' = [lease EXCEPT ![t].status = "running"]
            /\ UNCHANGED <<error, used, reserved, overrun, permits>>
  /\ UNCHANGED <<phase, cancel, failure, late, toolCalls, outcome, primary>>

\* The journal refuses a Started or a Finished record.
RecordFails(t) ==
  /\ ~stopping /\ pc[t] \in {"intent", "receipt"} /\ cancel = "none"
  /\ FailPersistence
  /\ Finish(t, "interrupted")
  /\ permits' = permits + 1
  /\ Refuse(t)
  /\ UNCHANGED <<phase, late, toolCalls, outcome, primary>>

\* generate() and record() select on the execution's cancellation themselves: it
\* came after the phase's own select had been polled. Before the provider is
\* invoked the request is given up ...
ScopeExpired(h) ==
  /\ ~stopping /\ h \in Hooks /\ pc[h] \in {"slot", "intent"} /\ cancel = "user"
  /\ NotStopped
  /\ Finish(h, "interrupted")
  /\ permits' = IF h \in Holding THEN permits + 1 ELSE permits
  /\ Refuse(h)
  /\ UNCHANGED <<phase, cancel, failure, late, toolCalls, outcome, primary>>

\* ... and a record that it meets counts as a failed write: also the one of an
\* interrupted request, and of a response that stopped the run.
RecordCancelled(h) ==
  /\ ~stopping /\ h \in Hooks
  /\ \/ pc[h] \in {"intent", "invoke", "receipt"} /\ cancel = "user"
     \/ pc[h] = "receipt" /\ cancel = "budget"
  /\ FailPersistence
  /\ Finish(h, "interrupted")
  /\ permits' = permits + 1
  /\ Refuse(h)
  /\ UNCHANGED <<phase, late, toolCalls, outcome, primary>>

\* AuxiliaryUsageReporter::record: a cumulative measurement.
Report(t, total) ==
  /\ pc[t] = "invoke" /\ t \in Tasks /\ lease[t].usage = Unreported
  /\ lease' = [lease EXCEPT ![t].usage = total]
  /\ UNCHANGED <<phase, pc, error, stop, stopping, cancel, failure, late,
                 toolCalls, used, reserved, permits, outcome, first, primary, overrun>>

\* The provider answers, well or not; the lease settles at once. A hook then
\* looks at its limits, unless the response is invalid.
ProviderAnswers(t, status) ==
  /\ ~stopping /\ pc[t] = "invoke" /\ t \in Tasks /\ cancel = "none"
  /\ Finish(t, status)
  /\ Goto(t, IF status = "completed" /\ t \in Auxiliary THEN "deliver" ELSE "receipt")
  /\ \/ NotStopped
     \/ t \in Hooks /\ status = "completed" /\ CheckAt(used')
  /\ UNCHANGED <<phase, error, cancel, failure, late, toolCalls, permits, outcome,
                 primary>>

Delivered(t) ==
  /\ ~stopping /\ pc[t] = "deliver" /\ cancel = "none"
  /\ Goto(t, "receipt")
  /\ UNCHANGED <<phase, error, stop, stopping, cancel, failure, late, meter,
                 outcome, first>>

\* The Finished record. The hook's callback is given the answer or its error,
\* and returns, well or not.
ReceiptStored(t) ==
  /\ ~stopping /\ pc[t] = "receipt" /\ cancel = "none"
  /\ permits' = permits + 1
  /\ Refuse(t)
  /\ UNCHANGED <<phase, stop, stopping, cancel, failure, late, toolCalls, used,
                 reserved, lease, outcome, first, primary, overrun>>

\* The select over the execution drops it: the lease, the permit and the
\* child context go with it.
Dropped(t) ==
  /\ ~stopping /\ cancel # "none"
  /\ t \in Tasks /\ pc[t] \in {"slot", "intent", "invoke", "deliver", "receipt"}
  /\ Finish(t, "interrupted")
  /\ permits' = IF t \in Holding THEN permits + 1 ELSE permits
  /\ Fails(t, "cancelled")
  /\ UNCHANGED <<phase, stop, stopping, cancel, failure, late, toolCalls,
                 outcome, first, primary>>

\* tool_timeout, or the 30 seconds of a hook phase.
TimedPlaces_NotDelivery == {"slot", "intent", "invoke", "receipt"}
TimedPlaces == {"slot", "intent", "invoke", "deliver", "receipt"}
TimesOut(t) ==
  /\ ~stopping /\ cancel = "none"
  /\ t \in Tasks /\ pc[t] \in TimedPlaces
  /\ Finish(t, "interrupted")
  /\ permits' = IF t \in Holding THEN permits + 1 ELSE permits
  /\ Refuse(t)
  /\ first' = IF first = "none" /\ error' # error THEN "failed" ELSE first
  /\ UNCHANGED <<phase, stop, stopping, cancel, failure, late, toolCalls,
                 outcome, primary>>

(***************************************************************************)
(* The end of the run                                                      *)
(***************************************************************************)
\* run_inner returns the first error of the batch, its own, or nothing; a real
\* fault only comes from an await that its cancellation did not win.
Results ==
  IF Errors # {} THEN Errors
  ELSE IF phase = "stopped" THEN {"budget"}
  ELSE {"none"} \cup (IF cancel = "none" THEN {"fault"} ELSE {})
\* preserve_failure, the last check() and classify_stop().
Preserved(result) == stop = "none" /\ result \in {"fault", "failed"}
Final(result) == IF Preserved(result) \/ Checked = "none" THEN result ELSE Checked
Classified(result, stopped) ==
  IF stopped # "none" \/ result = "budget" THEN "budget"
  ELSE IF result = "cancelled" THEN "cancelled"
  ELSE IF result = "none" THEN "completed"
  ELSE "failed"
RunEnds ==
  /\ Over
  /\ \E result \in Results :
       /\ IF Preserved(result)
            THEN /\ UNCHANGED <<stop, stopping>>
                 /\ first' = IF first = "none" THEN "failed" ELSE first
            ELSE Check
       /\ outcome' = Classified(Final(result), stop')
  /\ phase' = "ended"
  /\ UNCHANGED <<pc, error, cancel, failure, late, meter>>

TaskNext(t) ==
  \/ \E amount \in Amounts : ReserveAuxiliary(t, amount)
  \/ IntentStored(t) \/ RecordFails(t) \/ ScopeExpired(t) \/ RecordCancelled(t)
  \/ \E total \in Reports : Report(t, total)
  \/ \E status \in {"completed", "error"} : ProviderAnswers(t, status)
  \/ Delivered(t) \/ ReceiptStored(t) \/ Dropped(t) \/ TimesOut(t)

Next ==
  \/ HostCancel \/ Elapse \/ TimerFires \/ StopCancels
  \/ HooksDone \/ ReserveTools \/ RunEnds
  \/ \E total \in Reports : ModelAnswers(total)
  \/ \E h \in Hooks : BeginHook(h)
  \/ \E c \in Calls : Admit(c) \/ PlainEnds(c)
  \/ \E t \in Tasks : TaskNext(t)

Spec == Init /\ [][Next]_vars

(***************************************************************************)
(* A task that is ready is polled, a timer that has started fires. Hosts,  *)
(* providers, delivery and the journal owe nothing.                        *)
(***************************************************************************)
PolledSpec ==
  /\ Spec
  /\ WF_vars(StopCancels) /\ WF_vars(HooksDone) /\ WF_vars(ReserveTools)
  /\ WF_vars(RunEnds)
  /\ \A h \in Hooks : WF_vars(BeginHook(h))
  /\ \A c \in Calls : WF_vars(Admit(c)) /\ WF_vars(PlainEnds(c))
  /\ \A t \in Tasks : WF_vars(Dropped(t)) /\ WF_vars(TimesOut(t))

(***************************************************************************)
(* Properties                                                              *)
(***************************************************************************)
\* Every request that is in flight holds exactly its reservation and its
\* permit, and every other one was charged exactly once: what its service
\* reported, its reservation when nothing is known, nothing when it never
\* started. Settlement, dropped futures, timeouts and a second finish all go
\* through AuxiliaryLease::finish.
Settled == Attempts \ Live
Charged(t) ==
  IF lease[t].status = "not_started" THEN 0
  ELSE IF lease[t].usage = Unreported THEN lease[t].amount ELSE lease[t].usage
LedgerExact ==
  /\ reserved = MapThenSumSet(LAMBDA t : lease[t].amount, Live)
  /\ used = primary + MapThenSumSet(Charged, Settled)
  /\ permits + Cardinality(Holding) = Slots

\* Requests that run side by side never spend the same tokens: what is used
\* and reserved stays within the budget, but for what a model or a service
\* reported beyond its request (reserve_auxiliary decides under one lock).
SpendingBounded == used + reserved <= MaxTokens + overrun

\* A run is reported as stopped by a budget exactly when a budget was the
\* first condition observed, as cancelled only when the host cancelled it
\* first, and as completed only when nothing stopped it: the timer, the other
\* budgets, a failed receipt and the host race for the outcome.
ReportedIsFirst ==
  /\ outcome = "budget" => first \in Resources
  /\ outcome # "running" /\ first \in Resources => outcome = "budget"
  /\ outcome = "cancelled" => first = "user"
  /\ outcome = "completed" => first = "none"

\* docs/run-outcomes.md: "Limits are independent; the first observed stopping
\* condition wins."
FirstConditionWins ==
  /\ ReportedIsFirst
  /\ outcome # "running" /\ first = "user" => outcome = "cancelled"

\* Every run ends, although a provider, a delivery or the journal may never
\* answer and tasks wait for each other's permits: whatever holds a permit is
\* under a timeout.
MeteredRunEnds == <>(outcome # "running")
=============================================================================
