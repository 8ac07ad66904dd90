----------------------------- MODULE RunControl -----------------------------
(***************************************************************************)
(* The shared state of one controlled run (aicoder-core control.rs,        *)
(* control/input.rs, control/custom.rs): the queue of accepted inputs, the *)
(* reservations of submissions still being prepared, the one pending       *)
(* approval and the status that closes them all.                           *)
(*                                                                         *)
(* Two sides share it.  Any clone of RunHandle submits, cancels and        *)
(* answers approvals.  The unique RunControl, held by the run future,      *)
(* starts, reads, applies, closes and finishes.  Every operation of the    *)
(* code takes one mutex, so it is one action here; a submission that       *)
(* awaits is one action per critical section.  This module lets the owner  *)
(* call its operations in any order; TurnExecutor fixes the order.         *)
(***************************************************************************)
EXTENDS Integers, Sequences, FiniteSets, SequencesExt

CONSTANTS
  MaxPendingInputs,   \* RunControlConfig.max_pending_inputs
  MaxPendingBytes,    \* RunControlConfig.max_pending_bytes
  Sizes,              \* encoded sizes a message may take (<= max_input_bytes)
  MaxId,              \* largest value of next_id: u64::MAX in the code
  MaxCustom,          \* custom submissions one run admits: 256 in the code
  ExecutorPipeline    \* the executor's input processor: "none" or "hooks"

ASSUME LimitsAssumption ==
  /\ MaxPendingInputs \in Nat \ {0}
  /\ MaxPendingBytes \in Nat \ {0}
  /\ Sizes \subseteq Nat \ {0}
  /\ MaxId \in Nat \ {0}
  /\ MaxCustom \in Nat
  /\ ExecutorPipeline \in {"none", "hooks"}

VARIABLES
  status,         \* RunControlStatus
  cancelled,      \* the handle's cancellation token
  nextId,         \* one counter for inputs and approvals
  pending,        \* accepted inputs, in queue order
  pendingBytes,   \* their encoded bytes
  inflight,       \* reservations: id -> what the submission future holds
  inflightBytes,  \* their reserved bytes
  approval,       \* id of the request in the approval slot, or NoId
  waiters,        \* ids whose approve() future is still alive
  allowed,        \* ids a host allowed (the answer in the oneshot)
  refused,        \* ids a host refused
  pipeline,       \* input processor bound to the run: "none" or "hooks"
  inputError,     \* the binding was found inconsistent
  customCapable,  \* "unknown" until the executor asked its journal
  customTotal,    \* custom submissions admitted so far
  accepted,       \* history: ids reported as queued to their submitter
  applied         \* history: inputs acknowledged by the executor, in order

queueVars    == <<pending, pendingBytes, accepted>>
approvalVars == <<approval, waiters, allowed, refused>>
bindingVars  == <<pipeline, inputError, customCapable>>
controlVars  == <<status, cancelled, nextId, queueVars, inflight, inflightBytes,
                  approvalVars, bindingVars, customTotal, applied>>

NoId == 0
Kinds == {"Steer", "FollowUp", "Context"}
Deliveries == Kinds \cup {"NextTurn"}
Stages == {"polling", "armed", "signalled", "asleep", "turn", "delivered"}
Statuses == {"Waiting", "Running", "Finishing", "Finished", "Dropped"}

Entry == [id : Nat, kind : Kinds, bytes : Nat, custom : BOOLEAN,
          prepared : BOOLEAN, reserved : BOOLEAN]
Reservation == [kind : Deliveries, bytes : Nat, custom : BOOLEAN,
                prepared : BOOLEAN, stage : Stages]

Init ==
  /\ status = "Waiting" /\ cancelled = FALSE /\ nextId = 1
  /\ pending = <<>> /\ pendingBytes = 0
  /\ inflight = [id \in {} |-> 0] /\ inflightBytes = 0
  /\ approval = NoId /\ waiters = {} /\ allowed = {} /\ refused = {}
  /\ pipeline \in {"none", ExecutorPipeline} /\ inputError = FALSE
  /\ customCapable = "unknown" /\ customTotal = 0
  /\ accepted = {} /\ applied = <<>>

-----------------------------------------------------------------------------
Monus(a, b) == IF a > b THEN a - b ELSE 0

Open == status \in {"Waiting", "Running"}
PendingIds == {pending[i].id : i \in DOMAIN pending}
HasKind(kind) == \E i \in DOMAIN pending : pending[i].kind = kind

\* Count and bytes of queued and reserved inputs together.
Room(bytes) ==
  /\ Len(pending) + Cardinality(DOMAIN inflight) < MaxPendingInputs
  /\ bytes <= Monus(MaxPendingBytes, pendingBytes + inflightBytes)

\* ControlState::update: notify_waiters reaches the futures already enabled.
Wake(f) ==
  [id \in DOMAIN f |-> [f[id] EXCEPT !.stage =
     IF @ = "armed" THEN "signalled" ELSE IF @ = "asleep" THEN "polling" ELSE @]]
Without(f, id) == [other \in DOMAIN f \ {id} |-> f[other]]
IsHead(id) == \A other \in DOMAIN inflight : id <= other

\* Mutant of FirstOf: takes the newest input of a kind.
FirstOf_Newest(kind) == SelectLastInSeq(pending, LAMBDA entry : entry.kind = kind)

\* The first queue position of a kind ...
FirstOf(kind) == SelectInSeq(pending, LAMBDA entry : entry.kind = kind)

\* ... and the one next() reads: oldest steering, else oldest follow-up.
NextInput(followUp) ==
  IF HasKind("Steer") THEN FirstOf("Steer")
  ELSE IF followUp THEN FirstOf("FollowUp") ELSE 0

-----------------------------------------------------------------------------
(* RunHandle: submissions.                                                 *)

\* steer / follow_up: queued at once.
Submit(kind, bytes) ==
  /\ Open /\ ~cancelled
  /\ pipeline # "hooks"
  /\ Room(bytes) /\ nextId < MaxId
  /\ nextId' = nextId + 1
  /\ pending' = Append(pending, [id |-> nextId, kind |-> kind, bytes |-> bytes,
                   custom |-> FALSE, prepared |-> FALSE, reserved |-> FALSE])
  /\ pendingBytes' = pendingBytes + bytes
  /\ accepted' = accepted \cup {nextId}
  /\ inflight' = Wake(inflight)
  /\ UNCHANGED <<status, cancelled, inflightBytes, approvalVars, bindingVars,
                 customTotal, applied>>

\* Mutant of Reserve: the counter is read and not advanced.
Reserve_SameId(kind, custom, bytes) ==
  /\ Open /\ ~inputError
  /\ Room(bytes) /\ nextId < MaxId
  /\ inflight' = [id \in DOMAIN inflight \cup {nextId} |->
                    [kind |-> kind, bytes |-> bytes, custom |-> custom,
                     prepared |-> FALSE, stage |-> "polling"]]
  /\ inflightBytes' = inflightBytes + bytes
  /\ UNCHANGED <<status, cancelled, nextId, queueVars, approvalVars, bindingVars,
                 customTotal, applied>>

\* begin_input / begin_custom: reserve an id and capacity, queue nothing yet.
\* The looks at the token and at custom_capable come before this lock and may
\* be stale by now, so they guard nothing here.
Reserve(kind, custom, bytes) ==
  /\ Open /\ ~inputError
  /\ Room(bytes) /\ nextId < MaxId
  /\ nextId' = nextId + 1
  /\ inflight' = [id \in DOMAIN inflight \cup {nextId} |->
                    IF id = nextId
                    THEN [kind |-> kind, bytes |-> bytes, custom |-> custom,
                          prepared |-> ~custom /\ pipeline = "hooks",
                          stage |-> "polling"]
                    ELSE Wake(inflight)[id]]
  /\ inflightBytes' = inflightBytes + bytes
  /\ UNCHANGED <<status, cancelled, queueVars, approvalVars, bindingVars,
                 customTotal, applied>>

\* Ticket::turn: enable the notification before reading the condition ...
Arm(id) ==
  /\ inflight[id].stage = "polling"
  /\ inflight' = [inflight EXCEPT ![id].stage = "armed"]
  /\ UNCHANGED <<status, cancelled, nextId, queueVars, inflightBytes,
                 approvalVars, bindingVars, customTotal, applied>>

\* ... then read it under the lock; when it is another's turn, sleep unless a
\* notification came in between.
CheckTurn(id) ==
  /\ inflight[id].stage \in {"armed", "signalled"} /\ Open /\ ~cancelled
  /\ inflight' = [inflight EXCEPT ![id].stage =
                    IF IsHead(id) THEN "turn"
                    ELSE IF @ = "armed" THEN "asleep" ELSE "polling"]
  /\ UNCHANGED <<status, cancelled, nextId, queueVars, inflightBytes,
                 approvalVars, bindingVars, customTotal, applied>>

\* Mutant of Commit: the prepared input is put in front of the queue.
Commit_Front(id, bytes) ==
  /\ inflight[id].stage = "turn" /\ inflight[id].kind # "NextTurn"
  /\ Open /\ ~cancelled
  /\ bytes = inflight[id].bytes
  /\ inflight' = Wake(Without(inflight, id))
  /\ inflightBytes' = inflightBytes - bytes
  /\ pendingBytes' = pendingBytes + bytes
  /\ pending' = <<[id |-> id, kind |-> inflight[id].kind, bytes |-> bytes,
                   custom |-> inflight[id].custom, prepared |-> FALSE,
                   reserved |-> TRUE]>> \o pending
  /\ accepted' = accepted \cup {id}
  /\ UNCHANGED <<status, cancelled, nextId, approvalVars, bindingVars,
                 customTotal, applied>>

\* The preparation answered Ready with a message of the given size.
Commit(id, bytes) ==
  LET held == inflight[id]
      others == Monus(pendingBytes + inflightBytes, held.bytes) IN
  /\ held.stage = "turn" /\ held.kind # "NextTurn"
  /\ Open /\ ~cancelled
  /\ held.custom => customCapable # "no" /\ customTotal < MaxCustom
  /\ bytes <= Monus(MaxPendingBytes, others)
  /\ inflight' = Wake(Without(inflight, id))
  /\ inflightBytes' = inflightBytes - held.bytes
  /\ pendingBytes' = pendingBytes + bytes
  /\ pending' = Append(pending, [id |-> id, kind |-> held.kind, bytes |-> bytes,
                   custom |-> held.custom, prepared |-> held.prepared,
                   reserved |-> TRUE])
  /\ accepted' = accepted \cup {id}
  /\ customTotal' = IF held.custom THEN customTotal + 1 ELSE customTotal
  /\ UNCHANGED <<status, cancelled, nextId, approvalVars, bindingVars, applied>>

\* NextTurn custom data goes to the session inbox and never to this queue.  It
\* is counted and notified here; the ticket keeps its reservation until the
\* future returns.
DeliverNextTurn(id) ==
  /\ inflight[id].stage = "turn" /\ inflight[id].kind = "NextTurn"
  /\ Open /\ ~cancelled
  /\ customCapable # "no" /\ customTotal < MaxCustom
  /\ customTotal' = customTotal + 1
  /\ inflight' = Wake([inflight EXCEPT ![id].stage = "delivered"])
  /\ UNCHANGED <<status, cancelled, nextId, queueVars, inflightBytes,
                 approvalVars, bindingVars, applied>>

\* Mutant of Release: the reserved bytes are not given back.
Release_KeepsBytes(id) ==
  /\ inflight' = Wake(Without(inflight, id))
  /\ UNCHANGED <<status, cancelled, nextId, queueVars, inflightBytes,
                 approvalVars, bindingVars, customTotal, applied>>

\* Mutant of Release: the ticket is dropped without notifying the others.
Release_Silent(id) ==
  /\ inflight' = Without(inflight, id)
  /\ inflightBytes' = inflightBytes - inflight[id].bytes
  /\ UNCHANGED <<status, cancelled, nextId, queueVars, approvalVars, bindingVars,
                 customTotal, applied>>

\* The ticket is dropped with its reservation.
Release(id) ==
  /\ inflight' = Wake(Without(inflight, id))
  /\ inflightBytes' = inflightBytes - inflight[id].bytes
  /\ UNCHANGED <<status, cancelled, nextId, queueVars, approvalVars, bindingVars,
                 customTotal, applied>>

\* The future returns with nothing queued: its preparation handled, delivered
\* or refused the message or it no longer fits; or it woke to find the run closed.
Resolve(id) ==
  /\ \/ inflight[id].stage \in {"turn", "delivered"}
     \/ inflight[id].stage # "asleep" /\ (~Open \/ cancelled)
  /\ Release(id)

\* The host drops the future, or it meets the 30 s or the parent deadline.
Expire(id) == Release(id)

-----------------------------------------------------------------------------
(* RunHandle: cancellation and approvals.                                  *)

Cancel ==
  /\ Open
  /\ cancelled' = TRUE /\ status' = "Finishing" /\ approval' = NoId
  /\ inflight' = Wake(inflight)
  /\ UNCHANGED <<nextId, queueVars, inflightBytes, waiters, allowed, refused,
                 bindingVars, customTotal, applied>>

\* The parent context is cancelled: the token wakes every select on it.
CancelParent ==
  /\ ~cancelled
  /\ cancelled' = TRUE
  /\ inflight' = Wake(inflight)
  /\ UNCHANGED <<status, nextId, queueVars, inflightBytes, approvalVars,
                 bindingVars, customTotal, applied>>

\* A host answers any id it ever saw; only the one in the slot is taken.
Respond(id, allow) ==
  /\ ~cancelled /\ status = "Running"
  /\ approval = id
  /\ approval' = NoId
  /\ allowed' = IF allow THEN allowed \cup {id} ELSE allowed
  /\ refused' = IF allow THEN refused ELSE refused \cup {id}
  /\ inflight' = Wake(inflight)
  /\ UNCHANGED <<status, cancelled, nextId, queueVars, inflightBytes, waiters,
                 bindingVars, customTotal, applied>>

-----------------------------------------------------------------------------
(* RunControl: the owner's operations.                                     *)

\* bind_input_pipeline, when the executor takes the run.
BindPipeline(processor) ==
  /\ inputError' = (\/ inputError
                    \/ processor # pipeline /\ pipeline # "none"
                    \/ /\ processor = "hooks" /\ pipeline = "none"
                       /\ \E i \in DOMAIN pending : ~pending[i].custom)
  /\ pipeline' = IF pipeline = "none" THEN processor ELSE pipeline
  /\ inflight' = Wake(inflight)
  /\ UNCHANGED <<status, cancelled, nextId, queueVars, inflightBytes,
                 approvalVars, customCapable, customTotal, applied>>

\* Mutant of Start: runs whatever the status was.
Start_Always ==
  /\ status' = "Running"
  /\ inflight' = Wake(inflight)
  /\ UNCHANGED <<cancelled, nextId, queueVars, inflightBytes, approvalVars,
                 bindingVars, customTotal, applied>>

\* start: only a waiting run becomes a running one.
Start ==
  /\ status' = IF status = "Waiting" THEN "Running" ELSE status
  /\ inflight' = Wake(inflight)
  /\ UNCHANGED <<cancelled, nextId, queueVars, inflightBytes, approvalVars,
                 bindingVars, customTotal, applied>>

\* configure_custom_delivery; the caller fails the run when it returns an error.
ConfigureCustom(capable) ==
  /\ customCapable' = IF capable THEN "yes" ELSE "no"
  /\ inflight' = Wake(inflight)
  /\ UNCHANGED <<status, cancelled, nextId, queueVars, inflightBytes,
                 approvalVars, pipeline, inputError, customTotal, applied>>
ConfigureFails(capable) ==
  ~capable /\ \E i \in DOMAIN pending : pending[i].custom

\* Mutant of Close: closes whatever is queued.
Close_Always(followUp) ==
  /\ status' = "Finishing" /\ approval' = NoId
  /\ inflight' = Wake(inflight)
  /\ UNCHANGED <<cancelled, nextId, queueVars, inflightBytes, waiters, allowed,
                 refused, bindingVars, customTotal, applied>>

\* Mutant of Close: does not look for deferred context.
Close_IgnoresContext(followUp) ==
  /\ NextInput(followUp) = 0
  /\ status' = "Finishing" /\ approval' = NoId
  /\ inflight' = Wake(inflight)
  /\ UNCHANGED <<cancelled, nextId, queueVars, inflightBytes, waiters, allowed,
                 refused, bindingVars, customTotal, applied>>

\* next(_, close) when nothing is to be read and no context is queued.
Close(followUp) ==
  /\ NextInput(followUp) = 0 /\ ~HasKind("Context")
  /\ status' = "Finishing" /\ approval' = NoId
  /\ inflight' = Wake(inflight)
  /\ UNCHANGED <<cancelled, nextId, queueVars, inflightBytes, waiters, allowed,
                 refused, bindingVars, customTotal, applied>>

\* Mutant of Apply: removes the front of the queue, whatever id was applied.
Apply_Front(id) ==
  \E i \in DOMAIN pending :
    /\ pending[i].id = id
    /\ pending' = Tail(pending)
    /\ pendingBytes' = pendingBytes - pending[1].bytes
    /\ applied' = Append(applied, pending[i])
    /\ inflight' = Wake(inflight)
    /\ UNCHANGED <<status, cancelled, nextId, accepted, inflightBytes,
                   approvalVars, bindingVars, customTotal>>

\* applied(id): the input leaves the queue and frees its count and bytes.
Apply(id) ==
  \E i \in DOMAIN pending :
    /\ pending[i].id = id
    /\ pending' = RemoveAt(pending, i)
    /\ pendingBytes' = pendingBytes - pending[i].bytes
    /\ applied' = Append(applied, pending[i])
    /\ inflight' = Wake(inflight)
    /\ UNCHANGED <<status, cancelled, nextId, accepted, inflightBytes,
                   approvalVars, bindingVars, customTotal>>

\* seal / finish: whatever is still pending is the caller's to report.
SetClosed(next) ==
  /\ status' = next /\ approval' = NoId
  /\ inflight' = Wake(inflight)
  /\ UNCHANGED <<cancelled, nextId, queueVars, inflightBytes, waiters, allowed,
                 refused, bindingVars, customTotal, applied>>
Seal == SetClosed("Finishing")
Finish == SetClosed("Finished")

\* approve: one slot, filled only while running; the id is never used again.
Approve ==
  /\ status = "Running" /\ approval = NoId /\ nextId < MaxId
  /\ approval' = nextId /\ waiters' = waiters \cup {nextId}
  /\ nextId' = nextId + 1
  /\ inflight' = Wake(inflight)
  /\ UNCHANGED <<status, cancelled, queueVars, inflightBytes, allowed, refused,
                 bindingVars, customTotal, applied>>

\* What receive.await yields: the answer, or Deny once the sender is gone.
Answered(id) == approval # id
Decision(id) == IF id \in allowed THEN "allow" ELSE "deny"

\* Mutant of EndApproval: no ApprovalCleanup, the request stays in the slot.
EndApproval_KeepsSlot(id) ==
  /\ waiters' = waiters \ {id}
  /\ UNCHANGED <<status, cancelled, nextId, queueVars, inflight, inflightBytes,
                 approval, allowed, refused, bindingVars, customTotal, applied>>

\* The approve() future returns or is dropped; ApprovalCleanup clears the slot
\* only when it still holds this request.
EndApproval(id) ==
  /\ waiters' = waiters \ {id}
  /\ approval' = IF approval = id THEN NoId ELSE approval
  /\ inflight' = IF approval = id THEN Wake(inflight) ELSE inflight
  /\ UNCHANGED <<status, cancelled, nextId, queueVars, inflightBytes, allowed,
                 refused, bindingVars, customTotal, applied>>

\* The run future is dropped: its approvals first, then RunControl itself.
DropControl ==
  /\ status # "Finished"
  /\ status' = "Dropped" /\ cancelled' = TRUE
  /\ approval' = NoId /\ waiters' = {}
  /\ inflight' = Wake(inflight)
  /\ UNCHANGED <<nextId, queueVars, inflightBytes, allowed, refused, bindingVars,
                 customTotal, applied>>

-----------------------------------------------------------------------------
\* The submission futures, each advanced by the task that polls it.
Poll(id) ==
  \/ Arm(id)
  \/ CheckTurn(id)
  \/ \E bytes \in Sizes : Commit(id, bytes)
  \/ DeliverNextTurn(id)
  \/ Resolve(id)

Submissions ==
  \/ \E kind \in {"Steer", "FollowUp"}, bytes \in Sizes :
       Submit(kind, bytes) \/ Reserve(kind, FALSE, bytes)
  \/ \E kind \in Deliveries, bytes \in Sizes : Reserve(kind, TRUE, bytes)

Host ==
  \/ Submissions
  \/ Cancel
  \/ CancelParent
  \/ \E id \in 1..nextId, allow \in BOOLEAN : Respond(id, allow)

Futures == \E id \in DOMAIN inflight : Poll(id) \/ Expire(id)

Owner ==
  /\ status # "Dropped"
  /\ \/ BindPipeline(ExecutorPipeline)
     \/ Start
     \/ \E capable \in BOOLEAN : ConfigureCustom(capable)
     \/ Close(TRUE)
     \/ \E id \in PendingIds : Apply(id)
     \/ status # "Finished" /\ Seal
     \/ Finish
     \/ Approve
     \/ \E id \in waiters : EndApproval(id)
     \/ DropControl

Next == Host \/ Futures \/ Owner

Spec == Init /\ [][Next]_controlVars

-----------------------------------------------------------------------------
(* Properties.                                                             *)

\* Every variable of the control has its type.
TypeOK ==
  /\ status \in Statuses /\ cancelled \in BOOLEAN /\ nextId \in 1..MaxId
  /\ pending \in Seq(Entry) /\ applied \in Seq(Entry)
  /\ pendingBytes \in Int /\ inflightBytes \in Int
  /\ DOMAIN inflight \subseteq 1..(nextId - 1)
  /\ inflight \in [DOMAIN inflight -> Reservation]
  /\ approval \in 0..(nextId - 1) /\ waiters \subseteq 1..(nextId - 1)
  /\ allowed \subseteq 1..(nextId - 1) /\ refused \subseteq 1..(nextId - 1)
  /\ pipeline \in {"none", "hooks"} /\ inputError \in BOOLEAN
  /\ customCapable \in {"unknown", "yes", "no"} /\ customTotal \in Nat
  /\ accepted \subseteq 1..(nextId - 1)

\* Queued and reserved inputs together never exceed the configured count,
\* whatever way submissions, expiries and applications interleave.
CountBounded ==
  Len(pending) + Cardinality(DOMAIN inflight) <= MaxPendingInputs

\* The two byte counters are exactly what the queue and the reservations hold,
\* and stay within max_pending_bytes when a preparation changes a size.
BytesConserved ==
  /\ pendingBytes = FoldSeq(LAMBDA entry, sum : entry.bytes + sum, 0, pending)
  /\ inflightBytes = FoldSet(LAMBDA id, sum : inflight[id].bytes + sum, 0,
                             DOMAIN inflight)
  /\ pendingBytes + inflightBytes <= MaxPendingBytes

\* No accepted input is lost or duplicated: each id reported as queued is
\* either still pending or was applied, once, and never both.
AppliedIds == {applied[i].id : i \in DOMAIN applied}
Distinct(entries) ==
  \A i, j \in DOMAIN entries : entries[i].id = entries[j].id => i = j
InputsConserved ==
  /\ accepted = PendingIds \cup AppliedIds
  /\ PendingIds \cap AppliedIds = {}
  /\ Distinct(pending) /\ Distinct(applied)

\* Input preparation is serial and in reservation order: only the oldest live
\* reservation runs its preparation (Ticket::turn).
SerialPreparation ==
  \A id, other \in DOMAIN inflight : inflight[id].stage = "turn" => id <= other

\* Reserved submissions enter the queue in the order begin_input gave them,
\* however their futures are scheduled, and nothing queued is overtaken by a
\* reservation made before it.
ReservationOrder ==
  \A i \in DOMAIN pending : pending[i].reserved =>
    /\ \A j \in DOMAIN pending :
         i < j /\ pending[j].reserved => pending[i].id < pending[j].id
    /\ \A id \in DOMAIN inflight : pending[i].id < id

\* A future asleep in Ticket::turn or input_closed has really nothing to do:
\* every change that could let it go on has notified it.
NoLostWakeup ==
  \A id \in DOMAIN inflight :
    inflight[id].stage = "asleep" => Open /\ ~cancelled /\ ~IsHead(id)

\* An approval in the slot belongs to a live, unanswered request of a running
\* run, and its id names no input: a late or foreign answer finds nothing.
SlotGuarded ==
  /\ approval # NoId =>
       /\ status = "Running" /\ approval \in waiters
       /\ approval \notin allowed \cup refused
  /\ allowed \cap refused = {}
  /\ (waiters \cup allowed \cup refused) \cap (accepted \cup DOMAIN inflight) = {}

\* Once closed, a run stays closed: no later step reopens it, accepts an input,
\* reserves one, or opens an approval.
StaysClosed ==
  ~Open => /\ ~Open' /\ accepted' = accepted /\ nextId' = nextId
           /\ DOMAIN inflight' \subseteq DOMAIN inflight
           /\ allowed' = allowed /\ approval' = NoId
ClosedIsFinal == [][StaysClosed]_controlVars

\* Every submission future that its task keeps polling returns, also when it
\* has to wait for earlier reservations and when the run closes meanwhile.
PolledSpec == Spec /\ \A id \in 1..MaxId : WF_controlVars(id \in DOMAIN inflight /\ Poll(id))
ReservationsResolve ==
  \A id \in 1..MaxId : id \in DOMAIN inflight ~> id \notin DOMAIN inflight
=============================================================================
