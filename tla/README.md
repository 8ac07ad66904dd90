# A TLA+ model of aicoder's run core

aicoder runs coding agents: a frontend starts a run, steers it while it works,
answers its approvals, watches its events and gets one outcome. The hard part of
the program is the core crate (`crates/aicoder-core`), where that run, its host
handles, its observers and its session journal interleave. This directory models
that core from its source, checks it with TLC, and proves with TLAPS every safety
property and every refinement that holds.

## The system

| Component (sources under `src/crates/`) | State it keeps | Operations | What is hard | What makes it correct |
|---|---|---|---|---|
| Run control (`aicoder-core/src/control.rs`, `control/`) | queue of inputs, reservations, approval slot, status, one id counter, byte counters, cancellation | submit, reserve, prepare, cancel, respond; start, read, apply, close, seal, finish, approve, drop | many handles and one owner; submissions that await their turn; drop at any await | no accepted input lost or doubled, limits kept, order kept, closing final, no lost wakeup, answers only to live requests |
| Turn executor (`turn_executor.rs`, `turn_executor/`) | round, transcript, candidate, stop | input boundaries, checkpoint, compaction, model, tools, verification, settling, outcome | an await between any two pieces of state; budgets, cancellation, failure of every step | a completed run consumed everything; the outcome says what is pending; journal and transcript agree; a closed run ends |
| Run lifecycle (`state.rs`) | state and round | transition | interruption in any state | only documented transitions |
| Event delivery (`events/`) | hub, observers, callback worker | subscribe, publish, receive, disconnect, shutdown, abandon | slow, dead or panicking observers; a deadline | each stream is an unbroken prefix with a truthful end; nobody is waited for |
| Session agent (`agent.rs`, `agent_prompt.rs`) | session, prepared request | prompt, resume, select model | preparation fails or handles the input while the control is already shared | the control is sealed and finished on every path |
| Tool dispatch (`tools/`) | calls of a round, questions, session grants and their epoch, results | dispatch, approve, revoke, execute, record | calls side by side; grants revoked, steering and cancellation between question and start | no tool without its approval, every checkpoint handed over |
| Session journal (`session/journal.rs`) | entries to write, keys written, latched failure | checkpoint, finish | a write of unknown effect | what is reopened is what the model saw |
| Limiter and auxiliary leases (`run.rs`, `run/auxiliary.rs`) | counters, violation, reservations, permits | admit, account, stop, reserve, finish | budgets, failures and cancellation racing | the ledger is exact, the first reason is the one reported |
| Custom inbox (`custom_inbox.rs`) | next-turn messages and claims | push, claim, commit, drop, discard | messages arriving while others are claimed | delivered once and in order, or still waiting |
| Session repository (`aicoder-runtime/src/session/`) | JSONL file, lock files, backup, archive | open, acquire, commit, migrate, delete, page, fork | several processes; a crash or a power loss within a commit | an acknowledged transaction survives, a stale view changes nothing |
| Process extensions (`process_extensions/`) | channel of requests, their states, plans in the process | call, answer, time out, cancel, dispose, close | deadlines and drops racing the worker thread | the caller is told the truth about execution, no plan is left |
| UI broker, MCP client | pending requests | call, cancel, time out | late answers | an answer reaches its own request only |
| Atomic files, package store | temporary files, activation records | replace, activate, roll back | crash between the steps | old or new, never between |
| Providers, summaries, tokens, resources, frontends, evaluation | | | wire formats, text, presentation | outside the models |

How they interact: a host clones a `RunHandle` and owns the run future, which owns
the unique `RunControl`. All handle and owner calls meet in one mutex. The future
calls providers, tools, verifiers, hooks and the journal by awaiting them, reads
inputs at its boundaries through `RunControl`, and publishes frames into the event
hub, which pushes them into the observers' queues without waiting. A round's calls
go through the dispatcher, which asks the host through the approval slot, meters
through the run's limiter and checkpoints through the journal; the tools of a
process extension are requests on its connection. The journal commits to the
session repository under the run lease of the session. Dropping the
future drops `RunControl` and the owning emitter: the first makes the status
`Dropped`, the second abandons the observers.

## Modules

| Module | Models | Composes |
|---|---|---|
| `RunControl` | `control.rs`, `control/input.rs`, `control/custom.rs`, with an owner that may call its operations in any order | |
| `RunControlProofs` | theorems about `RunControl` | extends `RunControl` |
| `AgentRun` | `state.rs`: the abstract lifecycle of a run | |
| `TurnExecutor` | `turn_executor.rs`, its submodules and the serial part of `tools/dispatcher.rs` | extends `RunControl`, implements it and `AgentRun` |
| `TurnExecutorProofs` | theorems about `TurnExecutor` | extends `TurnExecutor`, `RunControlProofs` |
| `FrameStream` | what one observer is promised | |
| `EventStream` | `events/subscription.rs`, `events/emitter.rs` | implements `FrameStream` for each observer |
| `EventStreamProofs` | theorems about `EventStream` | extends `EventStream` |
| `RunLimiter` | `run.rs`, `run/auxiliary.rs`, the tasks that lease from it and the end of the run | |
| `RunLimiterProofs` | theorems about `RunLimiter` | extends `RunLimiter` |
| `ToolDispatch` | `tools/dispatcher.rs`, `tools/approval_sessions.rs` and the journal's tool checkpoints | |
| `ToolDispatchProofs` | theorems about `ToolDispatch` | extends `ToolDispatch` |
| `CustomInbox` | `custom_inbox.rs` and the preparation of runs in `agent.rs` | |
| `CustomInboxProofs` | theorems about `CustomInbox` | extends `CustomInbox` |
| `SessionLog` | what the session repository promises | |
| `SessionStore` | `session/jsonl.rs` and the commit of `session/archive.rs` | implements `SessionLog` |
| `SessionStoreProofs` | theorems about `SessionStore` | extends `SessionStore` |
| `ProcessTransport` | `process_extensions/transport.rs` and the plans of `process_extensions/tools.rs` | |
| `ProcessTransportProofs` | theorems about `ProcessTransport` | extends `ProcessTransport` |
| `MC...` | small instances for TLC | |

**RunControl.** `pending`, `inflight`, `approval`, `status` and the counters are the
fields of `control::State`; `nextId` is the one counter inputs and approvals share.
A reservation in `inflight` also holds the stage of its submission future: `polling`,
`armed` (its notification is enabled), `signalled`, `asleep`, `turn` (it runs its
preparation). `Arm` and `CheckTurn` are the two halves of `Ticket::turn`, and `Wake`
is `notify_waiters`. A next-turn message is `delivered` before its ticket is dropped.
`accepted` and `applied` are histories. A message is its kind,
size and whether it is custom data or went through the input hooks.

**TurnExecutor.** `pc` is the await the future is suspended on, `back` the return
stack of the phases the code calls in several places (`flush_custom_context`,
`apply_inputs`, `checkpoint`, `run_boundary`). `item` is the message whose journal
write is in flight. An action is the code between two awaits, or up to the next
lock of the control, so that hosts interleave at each one. `transcript` is
`RunProgress.messages` without tool results and `journaled` what the journal holds
of it. A failed write may or may not have taken effect; one that its time limit drops
(`TimedWrite`) does not latch the journal's failure. `LifecycleHooks`,
`Finalizers` and `Budgets` say what is installed. `Interruptible` lists the places
where the code polls cancellation before anything else. `accepted` and `settle` do
not require an uncancelled context: a cancel may arrive between `limits.check()`
and the lock that closes the run. Histories: `asked`, `completions`, `executed`.

**EventStream.** `observers[id]` is an `ObserverState` with its report, plus the
stage of whoever reads it: an async `recv` loop, or the callback's thread (id 1). That
thread takes a frame under the observer's lock (`holding`) and starts the callback after
it has released the lock (`handling`), so a shutdown may expire and return in between.
`Publish` is `publish_locked`, one action because it holds the hub's mutex. `Expire`
and `Detain` are the two critical sections of a shutdown that timed out. `joined`
and `seen` are histories: `seen` has the frames that were taken.

**RunLimiter.** `stop`, `failure`, `toolCalls`, `used`, `reserved` are the fields of
`Usage`, `lease[t]` an `AuxiliaryAttempt`. One task polls hooks and calls, so what
happens between two awaits is one step; only the host's cancel may come between the
two halves of `RunLimiter::stop` (`stopping`). What a cancel cuts off has the place where it
was seen: before the scope of a hook's models is entered (`ScopeExpired`), while a record
is written (`RecordCancelled`), or around the provider; the hook's callback may then end
well or badly, as may that of a hook whose provider failed. `first` is a history: the first
stopping condition anybody observed.

**ToolDispatch.** `pc[c]` walks a call through `execute_call`: preparation, ticket (its
three locks), lookup, question, decision, record, the check of the ticket (two locks),
admission, start, execution, transformation, final checkpoint. `session` is `approval_sessions::SessionState`: its epoch is what a
ticket remembers. `capture` is what the dispatcher hands to the executor, `saved` what
the journal holds, each "original" or "final" (after the hooks). The histories
`withdrawn` and `expired` collect the calls that were stopped before they took their
last look at the reason. The last look at a closed session is the first half of the
check, the last at its epoch the second: at the last epoch a revocation only closes the
session, and goes unseen between the two.

**CustomInbox.** `entries` and `next` are the inbox; `run[r]` is a preparation with its
claim. A message's claim is the run that made it, since a run makes one only. `Kept` is the loop
that puts the retained messages of a queue back in order.
`accepted` and `delivered` are histories.

**SessionStore.** `file` is what every process reads, `disk` the contents a power loss
may leave: each prefix of the writes since the last synchronization. A file is a
version, its whole transactions, whether the last lacks its newline, and the bytes of a
torn one. `exists` says whether the file is found, `listed` whether a power loss would
leave it: a deletion is undone by one until its directory is synchronized
(`DirectorySynced`), and final from its acknowledgement on. `meta` and `lease` are the two lock files, `token` the nonce written in the
second. `AppendRecord` is `set_len` and the writes: it stops after any of them. The
refinement of `SessionLog` maps the log to the transactions in the file.

**ProcessTransport.** `state[w]` is the atomic state of a request, `reply[w]` its
one-shot channel, `queue` the bounded channel, `worker` the OS thread's place. The
process is the environment: it may answer well or badly, late, twice or never, or exit.
`Close` is the store of `closing`, after which everybody else may move before `Refuse`
(the report, which callers look at) and `Kill`; a worker that sees the process exit sets
the report alone (`Exiting`).
`Timer` and `GiveUp` are the two halves of a deadline, `Cancel` the drop of the caller.

## Runs

| Run | Checks | Shows |
|---|---|---|
| `control` | `TypeOK` `InputsConserved` `ReservationOrder` `NoLostWakeup` `SlotGuarded` `BytesConserved` `ClosedIsFinal` `ReservationsResolve` | two ids and two sizes against a queue of two and a byte limit that refuses the larger behind another: every interleaving of handles, futures and owner; futures that wait for each other return |
| `turn_inputs` | `CompletedConsumed` `OutcomeComplete` `OneFollowUpPerCompletion` `CancelHonoured` `JournalOrder` `FifoPerKind` `LifecycleSpec` | steering, follow-ups and deferred context while hooks commit entries and ask to go on; cancel and drop anywhere |
| `turn_tools` | `ApprovalsSerial` `ModelSeesAcknowledged` `ControlSpec` `ClosedRunEnds` | two calls a round behind approvals, with budgets and message finalizers; the executor is an owner `RunControl` allows; nobody else need ever answer |
| `turn_bypass` (violation) | `NoRawInputApplied` | finding 1 |
| `stream` | `NoGap` `MissingFollowsPrefix` `CompletedSawAll` `StreamsKept` `NoFrameTakenAfterReturn` `ShutdownReturns` `ReadersEnd` | the callback worker and a subscription that joins, lags, reads and leaves |
| `limiter` | `LedgerExact` `SpendingBounded` `ReportedIsFirst` `MeteredRunEnds` | a hook, a plain call and two auxiliary tasks against budgets that cannot hold them all |
| `limiter_first` (violation) | `FirstConditionWins` | finding 2 |
| `dispatch` | `CheckpointsDelivered` `WithdrawnNeverStarts` `NoLateGrant` `QuestionsResolve` | two guarded calls side by side, then one alone; one permission fits and the epochs run out |
| `inbox` | `NextTurnKept` | two runs of two sessions against an inbox of three messages |
| `storage` | `LogSpec` `OwnerExclusive` `ReplacedOnlyBackedUp` | two processes, three appends, two leases, a legacy or a current file; calls fail, processes die, the power fails |
| `storage_retry` (violation) | `OriginalSurvives` | finding 3 |
| `transport` | `ExecutionReported` `PlansReclaimed` | a planned and a plain use of a connection whose channel holds one request |

Bounds. `MaxPendingInputs = 2` is the smallest queue in which two inputs can be
reordered or one can fill what another needs in bytes. `MaxId` is the code's `u64::MAX`,
which is never given out: `control` hands out two ids, to inputs and approvals in any
order, and then runs out of them. Its queue is filled but never overfilled, so it does not
meet the refusal by count, which `turn_tools` does (a queue of one, three ids); that the
count is kept is proved (`CountBounded`), not checked. A fourth id in `control` is out of
TLC's reach. Two
rounds suffice for a boundary that leads on to another and for a follow-up after a
completion. Two tool calls give a round in which the second call meets what the first
left behind. Four frames fill a queue of two, overflow it, and leave one for the end;
`MaxSequence` and `MaxEpoch` are the code's `u64::MAX`. The limiter's budgets hold one
of the larger requests, or two small ones; `Slots = 2` permits for three tasks. The
dispatcher's two parallel calls are of one tool, so that the grant of one answers the
other. The inbox is full with messages of both sessions, and its ids run out. Three
appends let a stale view meet a foreign record and an uncertain one; the second lease
makes the nonce of the first stale. A channel of one request is full as soon as
another waits. `MaxCustom`, `MaxCalls`, `MaxSubscriptions`, `MaxGrants`, `MaxEntries`,
`MaxWrites` and `MaxLeases` are the other named bounds.

Deadlock checking is off: a finished run really stops.

Fairness. `PolledSpec` of `RunControl` polls each submission future, `PolledTurnSpec`
polls the run future, `PolledSpec` of `EventStream` each reader, `PolledSpec` of
`ToolDispatch` each call's future, `PolledSpec` of `RunLimiter` the tasks and the run:
a task that awaits a future polls it until it ends. The worker thread of
`ProcessTransport` runs, and its requests' deadlines pass (`WF` of `Expire`), as does the
deadline of shutdown (`WF` of `Settle`) and the timeouts of `RunLimiter`. None says that
a model, tool, verifier, hook, host, callback or child process ever answers. Journal
writes in `TurnExecutor` end, well or badly.

## Proofs

`RunControlProofs` proves for every queue limit, byte limit, set of sizes, id range
and processor:

| Theorem | Property |
|---|---|
| `TypeCorrect` | `TypeOK` |
| `SerialPreparationHolds` | `SerialPreparation` |
| `InputsConservedHolds` | `InputsConserved` |
| `ReservationOrderHolds` | `ReservationOrder` |
| `SlotGuardedHolds` | `SlotGuarded` |
| `ClosedIsFinalHolds` | `ClosedIsFinal` |
| `CountBoundedHolds` | `CountBounded` |
| `BytesConservedHolds` | `BytesConserved` |
| `NoLostWakeupHolds` | `NoLostWakeup` |

Assumption: `LimitsAssumption` (limits and sizes are positive, which the code
validates). The argument: `TypeOK` is inductive and keeps every id below `nextId`.
`QueueSteps` reduces the fifteen operations to seven kinds of step as far as inputs
are concerned, `ApprovalSteps` to five as far as the slot is; each property is then
preserved kind by kind. `InputsConserved` is not inductive: it needs that a reserved
id has not been accepted (`ReservedNotAccepted`), since `Commit` makes it so. Order
and seriality rest on ids being handed out in increasing order. `CountBounded` uses
that the reservations are a finite set. `BytesConserved` compares the two counters with
folds over the queue and the reservations. A sum is stated as the number of its units
(`Units`, `Sum`), so that appending, removing and moving an entry become facts about
cardinalities; a fold gives that number in whatever order it takes the elements
(`FoldIsSum`: otherwise take a smallest set on which it does not). `BytesInv` then says
that the counters are those sums and stay within the limit together, which is what keeps
`applied` from subtracting more bytes than there are.

`TurnExecutorProofs` proves for every number of rounds and calls, every set of
inputs hosts send, and every combination of hooks, finalizers and budgets:

| Theorem | Property |
|---|---|
| `ControlImplemented` | `ControlSpec` |
| `ApprovalsSerialHolds` | `ApprovalsSerial` |
| `RunsConserveInputs` | `InputsConserved` |
| `RunsStayClosed` | `ClosedIsFinal` |
| `CompletedConsumedHolds` | `CompletedConsumed` |
| `OutcomeCompleteHolds` | `OutcomeComplete` |
| `CancelHonouredHolds` | `CancelHonoured` |
| `LifecycleImplemented` | `LifecycleSpec` |
| `FifoPerKindHolds` | `FifoPerKind` |
| `JournalOrderHolds` | `JournalOrder` |
| `ModelSeesAcknowledgedHolds` | `ModelSeesAcknowledged` |
| `OneFollowUpPerCompletionHolds` | `OneFollowUpPerCompletion` |

Assumptions: `LimitsAssumption` and `TurnAssumption`. The run future is always at a
place of the code with a well formed return stack (`StackOK`: a phase that returns
has below it only such phases and, last, a place that does not return); so it never
returns into the wait for an approval, which is why `OwnerInv` is inductive.
`TurnSteps` reduces the run's steps to ordinary ones, which touch the control only
through `BindPipeline`, `Start`, `ConfigureCustom` and `Apply`, and a dozen named
ones. `ControlImplemented` follows step by step, and carries the theorems about any
owner over to every run. `OutcomeInv` adds what the end of a run keeps: once it has
returned "ok" it is closed with an empty queue (`NothingQueued`: `next` looks for all
three kinds of input), and from its last check on no cancel was accepted.

The other five each need to know where the run is going, which the return stack says:
`Destination` is the place below all the phases that return. `LifeInv` ties it to the state
of the lifecycle, which makes each step a transition of `AgentRun` or a stutter. `HandInv`
says that the input whose write is in flight is still the oldest of its kind in the queue,
although hosts append to it meanwhile. `RecordInv` says that the transcript and the journal
are the same, or that one has exactly one message more: the journal lacks an answer only up
to its checkpoint (`BehindAt`), and what is being stored is the message it lacks. It needs
`Numbered`, that the run never writes two equal messages, and it makes the transcript what
the journal acknowledged whenever a model is asked. `FollowInv` counts follow-ups against
completions: wherever one may still be read, a completion was accepted that none has used.

`ToolDispatchProofs` proves for every round of calls, every set of guarded and of
parallel tools, every hook set, grant limit and last epoch:

| Theorem | Property |
|---|---|
| `TypeCorrect` | `TypeOK` |
| `WithdrawalsHold` | `WithdrawnNeverStarts` |
| `GrantsInTime` | `NoLateGrant` |
| `CheckpointsArrive` | `CheckpointsDelivered` |

Assumption: `DispatchAssumption`. `CallSummary` reduces the twenty-two steps of a call to
three kinds (it fails and stops its siblings, it asks, it walks on), `HostSummary` those of
the hosts to four. `WithdrawnNeverStarts` is not inductive. `WithdrawnHasReason` is: as
long as a withdrawn call has not reached the error or the message that ends it, one of the
reasons still lies ahead of it, since cancellation, steering and a passed epoch never go
away and each is looked at after the places where it is collected. At the start only the
cancellation is left. `ExpiredHasReason` does the same for questions up to `apply`, and
`ResultsKept` says that nothing is saved but by a call that has ended.

`EventStreamProofs` proves for all buffers, frame sizes, numbers of subscriptions and last
sequences:

| Theorem | Property |
|---|---|
| `Invariance` | `StreamInv`, the invariant of the others |
| `NoGapHolds` | `NoGap` |
| `MissingFollowsPrefixHolds` | `MissingFollowsPrefix` |
| `CompletedSawAllHolds` | `CompletedSawAll` |
| `NothingTakenAfterReturn` | `NoFrameTakenAfterReturn` |
| `StreamsKeptHold` | `StreamsKept` (`FrameStream` for each observer) |

Assumption: `BuffersAssumption`. The invariant is stated for one observer, what it has been
handed and the last frame of the run (`Sound`), and each operation of the hub is a lemma
about one observer; so the number of observers does not matter. What was handed out and
what is queued are consecutive frames (`Consecutive`). How far they reach depends on the
status (`Standing`): up to the last frame while the observer is attached or drains, and up
to the first missing one once it was detached (`Told`). `Reported` adds how far the
callback's acknowledgements have come, and `LateOK` that what shutdown has read of them is
no later than that. None of the three properties is inductive without the queue.
`CallbackOver` says why the thread takes no frame after a shutdown has returned: it is
over, or its queue was discarded for good.

`SessionStoreProofs` proves for all handles, appends and leases:

| Theorem | Property |
|---|---|
| `Invariance` | `StoreInv`, the invariant of the others |
| `LogImplemented` | `LogSpec` |
| `OwnerExclusiveHolds` | `OwnerExclusive` |
| `ReplacedOnlyBackedUpHolds` | `ReplacedOnlyBackedUp` |

Assumption: `StoreAssumption`; that `NoOne` is not a handle only says that an unlocked
file is not a locked one. Whatever a power loss leaves has every acknowledged transaction
and is a beginning of the file (`DiskFollows`). A commit is alone: it holds the metadata
lock over the file its view knows, and no other lease is alive, until it has written its
own transaction (`CommitAlone`); so its append is one of `SessionLog` to a log that the
view has seen. The nonce in the run lock is the owner's (`NonceOwned`), which a stale owner
cannot have. `ReplacedOnlyBackedUp` asks for a complete backup; that it may not be durable
is finding 3.

`ProcessTransportProofs` proves for all uses of tools and every capacity of the channel:

| Theorem | Property |
|---|---|
| `Invariance` | `TransportInv`, the invariant of the other |
| `ExecutionReportedHolds` | `ExecutionReported` |

Assumption: `TransportAssumption`. `ExecutionReported` speaks of results, and is not
inductive: it depends on replies not yet read, and on requests that the caller has left in
the queue. `Spared` is what makes "unexecuted" true: the process has not seen the request,
and if it is still queued its deadline has passed, so that the worker will not send it.
`Told` and `Tracked` say so of every result, of every caller about to be told, and of every
reply in its channel; `Wire` says that an answer of success follows an execution.

`RunLimiterProofs` proves for all actors, permits, budgets, requests and reports:

| Theorem | Property |
|---|---|
| `Invariance` | `LimiterInv`, the invariant of the others |
| `LedgerExactHolds` | `LedgerExact` |
| `SpendingBoundedHolds` | `SpendingBounded` |
| `ReportedIsFirstHolds` | `ReportedIsFirst` |

Assumption: `LimiterAssumption` (the tasks are finitely many and of one kind each). `Books`
states the ledger with sums, as above (the lemmas about sums are repeated here, since a
module cannot extend both components); `Leased` says which lease is still live where a task
is, without which a lease could be settled twice. `ReportedIsFirst` needs `Observed`: what
the first condition was decides which of `stop`, `failure` and the cancellation are set, and
which errors the calls may bring, at every place where another condition may still arrive;
and `Staged`, that hooks run one at a time and are over before the batch.

`CustomInboxProofs` proves for all runs, sessions and limits:

| Theorem | Property |
|---|---|
| `Invariance` | `InboxInv`, the invariant of the other |
| `NextTurnKeptHolds` | `NextTurnKept` |

Assumption: `InboxAssumption`; that `NoRun` is not a run only says that an unclaimed message
is not a claimed one. Ids ascend in the inbox, in what was accepted and in what was
delivered (`Numbered`), so that the equation of `NextTurnKept` between sequences follows
from one between sets (`Whole`): ascending sequences with the same elements are equal. A
claim holds the oldest messages of its session (`Claimed`), which is why delivering it keeps
the order; nobody else can claim or deliver there, since its run owns the session (`Owned`).

Model-checked only: the liveness properties (`ReservationsResolve`, `ClosedRunEnds`,
`ShutdownReturns`, `ReadersEnd`, `MeteredRunEnds`, `QuestionsResolve`, `PlansReclaimed`),
since TLAPS 1.4.5 does not reason about `ENABLED`; and the three properties that the code
violates, of which TLC gives a counterexample. Every invariant, action property and
refinement of a passing run is a theorem.

The models were written for both tools where one form would not do. `Kept` of `CustomInbox`
picks the elements at some positions by their rank, because the provers know nothing about
`SelectSeq`, which is recursive. The cases of `Act` in `ProcessTransport` exclude one
another, since a `CASE` with two true guards may have the value of either.

## Findings

1. *An input can bypass the input hooks.* `bind_input_pipeline` (`control/input.rs:293`)
   rejects the run when a raw input is already in `pending`, but does not look at
   reservations. One made with `begin_input` on an unbound channel is committed after
   the hooks are bound and reaches the transcript unprocessed; `docs/input-hooks.md:50`
   says such inputs "reject the run before provider IO". Run `turn_bypass`.
2. *A cancelled run can be reported as failed.* A cancel from another thread may arrive
   after a boundary's `select` has looked for it and before the hook's callback calls
   `BoundaryModels::generate`, which then fails with "boundary model scope expired"
   (`extensions/boundary_models.rs:39`; `record` at line 145 alike). The hook's failure
   hides the cancellation, and the run ends as failed, although
   `docs/run-outcomes.md:77` says that "the first observed stopping condition wins".
   Run `limiter_first`.
3. *A retried migration may rename over the original before its backup is durable.* The
   `AlreadyExists` branch (`session/jsonl.rs:209`) compares the backup that an
   interrupted migration left and goes on to the rename without synchronizing it;
   `docs/sessions.md:134` says that the migration synchronizes the backup first. A power
   loss may then leave neither. Run `storage_retry`.

Observations without a run. With message finalizers `commit_run_input`
(`turn_executor.rs:1979`) adds an input to the progress only after its checkpoint, so
one whose checkpoint fails stays pending but is not in `RunProgress.messages`;
`docs/run-control.md:138` says that such a failure "retains the message in progress
and pending state".

`shutdown` (`events/emitter.rs:182`) reads the callback's progress and fails it in two
critical sections; a frame acknowledged in between is both the last delivered and the
first missing one of the report. `MissingFollowsPrefix` says of a callback that was cut
off what is left of it: no frame is left out between the two, and every failure but this
one names the next frame.

A callback may start after `shutdown` has returned: `blocking_recv`
(`events/subscription.rs:310`) takes the frame under the lock, and the worker starts the
callback after it (`events/emitter.rs:88`), while shutdown waits for neither once its
deadline has passed (`events/emitter.rs:170`). `docs/events.md:110` says that then "no
subsequent callback starts". `NoFrameTakenAfterReturn` states what does hold: no frame is
taken any more.

A native compaction whose commit the host cancels is reported as failed
(`turn_executor.rs:1161`), while the checkpoint of a summary below it (line 1200) treats
the same as cancelled, and `docs/run-outcomes.md:77` lets the first condition win. The
model follows the code.

A migration that stops while it writes its backup leaves a partial one, and every later
migration of that session fails on it until somebody removes it.

A session append that fails after its bytes were written may still be found by the next
run, while the claim of its next-turn messages is released: the transcript can then hold
such a message twice, though only one of them is acknowledged. `NextTurnKept` speaks of
acknowledged transactions.

The `commit` of a plan that is refused because the channel is full drops the plan, whose
`dispose` then meets the same full channel and closes the connection for every caller
(`process_extensions/tools.rs:345`); the docs allow it, and `PlansReclaimed` holds because
of it.

## Not modelled

Message content, token estimation, request building, provider wire formats, file and
process work behind tools, configuration, rendering: they are pure or external, and
the models take what they answer as a choice. Frontends are the hosts of the models.
The session agent's own failures before a run starts are the outcomes of `PrepareInput`.

Of the modelled parts: `RunLimiter` leaves out the budget of output bytes and the
snapshots of the counters. `ToolDispatch` leaves out tools composed of nested calls
(`tools/dispatcher/composition.rs`), auxiliary execution (its leases are in
`RunLimiter`) and the drop of a dispatch; a run without an approval session, which refuses
a permission for the session, is one whose session nobody revokes and whose host denies
instead. `CustomInbox` leaves out the byte limit.
`SessionStore` leaves out creation, pages, search, trees, navigation, export and the
publication of forks; a power loss keeps a prefix of the writes, never a later write
without an earlier one. `ProcessTransport` leaves out launch and handshake, the MCP
profile, the limit of plans, the reaping of the process group and a descendant that
keeps the pipe open. `EventStream` leaves out frame contents.

## Plan

Done, in this order: `RunControl`, `RunControlProofs`, `AgentRun`, `TurnExecutor`,
`FrameStream`, `EventStream`; then `RunLimiter`, `ToolDispatch`, `SessionLog` and
`SessionStore`, `ProcessTransport`, `CustomInbox`, and `ToolDispatchProofs`; then the
theorems about `EventStream`, `SessionStore`, `ProcessTransport`, `RunLimiter` and
`CustomInbox`, and the rest of those about `RunControl` and `TurnExecutor`.

Left: nested calls in `ToolDispatch` with the permits they share, the UI broker, the package
store's activation journal, and session projection as operators against a reference
definition, each with its theorems; that the dispatcher refines the serial round of
`TurnExecutor`, and that the run limiter's ledger bounds the permits `ToolDispatch` takes.
