---------------------------- MODULE EventStream ----------------------------
(***************************************************************************)
(* Observation of one run (aicoder-core events/subscription.rs and         *)
(* events/emitter.rs).  Producers publish frames into a hub that numbers   *)
(* them and pushes them to the bounded queue of every observer; nobody     *)
(* waits for an observer.  Subscriptions are read by async tasks, the      *)
(* callback by one worker thread that the run's end drains for a while.    *)
(*                                                                         *)
(* Publishing holds the hub's lock, so it is one action; so is each        *)
(* critical section of an observer.  A frame is its number and its size.   *)
(***************************************************************************)
EXTENDS Integers, Sequences, SequencesExt

CONSTANTS
  Sizes,             \* serialized sizes of a frame
  Buffers,           \* [events, bytes] of the callback (1) and subscriptions (2..)
  MaxSubscriptions,  \* MAX_EVENT_SUBSCRIPTIONS: 16 in the code
  MaxSequence,       \* largest sequence: u64::MAX in the code
  HasCallback        \* the run has a real event handler

ASSUME BuffersAssumption ==
  /\ Sizes \subseteq Nat \ {0}
  /\ MaxSubscriptions \in Nat /\ MaxSequence \in Nat \ {0}
  /\ HasCallback \in BOOLEAN
  /\ Buffers \in [1..(MaxSubscriptions + 1) -> [events : Nat \ {0}, bytes : Nat \ {0}]]

VARIABLES
  published,      \* frames numbered so far: next_sequence is published + 1
  closed,         \* Hub.closed
  subscriptions,  \* Hub.subscriptions, never given back
  observers,      \* Hub.observers: id -> its report, queue and reader
  owner,          \* where the owning emitter is: running, sealed, draining, ...
  late,           \* the next frame that shutdown read from the callback's report
  seen            \* history: id -> frames that recv and blocking_recv returned

streamVars == <<published, closed, subscriptions, observers, owner, late, seen>>

NoFrame == 0
Callback == 1

\* An ObserverState and its report, with the stage of who reads it: a polling
\* recv loop ("armed", "signalled", "asleep"), or the callback's thread ("taking",
\* "holding" a frame, "handling" it). The history joined is the last frame it did
\* not get to see.
NewObserver(stage) ==
  [joined |-> published, queue |-> <<>>, status |-> "Active", closed |-> FALSE,
   first |-> NoFrame, last |-> NoFrame, in_flight |-> FALSE, discarded |-> FALSE,
   error_returned |-> FALSE, stage |-> stage]

-----------------------------------------------------------------------------
(* Operations on one observer, each under its lock.                        *)

QueuedBytes(o) == FoldSeq(LAMBDA frame, sum : frame.bytes + sum, 0, o.queue)
Start(o) == IF o.joined < MaxSequence THEN o.joined + 1 ELSE MaxSequence

\* notify: futures enabled in recv, and the worker's condition variable.
Notify(o) ==
  [o EXCEPT !.stage = IF @ = "armed" THEN "signalled"
                      ELSE IF @ = "asleep" THEN "polling" ELSE @]

\* The observer is detached and keeps the prefix it has.
Detach(o, status, sequence) ==
  [o EXCEPT !.closed = TRUE, !.status = status, !.first = sequence]

\* Mutant of Push: an overflow drops the frame and keeps the observer.
Push_DropsFrame(o, limits, frame) ==
  IF o.closed \/ Len(o.queue) >= limits.events
     \/ frame.bytes > limits.bytes - QueuedBytes(o)
  THEN o
  ELSE Notify([o EXCEPT !.queue = Append(@, frame)])

Push(o, limits, frame) ==
  IF o.closed THEN o
  ELSE Notify(
    IF frame.bytes > limits.bytes THEN Detach(o, "EventTooLarge", frame.sequence)
    ELSE IF \/ Len(o.queue) >= limits.events
            \/ frame.bytes > limits.bytes - QueuedBytes(o)
    THEN Detach(o, "Lagged", frame.sequence)
    ELSE [o EXCEPT !.queue = Append(@, frame)])

\* The smallest of some sequences, any of which may be absent.
Earliest(sequences) ==
  LET known == sequences \ {NoFrame} IN
  IF known = {} THEN NoFrame ELSE CHOOSE s \in known : \A other \in known : s <= other

\* Mutant of Discarded: the queue is not looked at.
Discarded_NotQueued(o) == {o.first}

\* What discarding the queue, and the frame a callback is busy with, misses.
Discarded(o) ==
  {o.first} \cup {o.queue[i].sequence : i \in DOMAIN o.queue \cap {1}}
            \cup (IF ~o.in_flight THEN {}
                  ELSE IF o.last = NoFrame THEN {Start(o)}
                  ELSE IF o.last < MaxSequence THEN {o.last + 1} ELSE {MaxSequence})

\* What a failure leaves: the first one counts, and discarding may only
\* bring the first missing frame forward.
Failed(o, status, missing, discard) ==
  LET counted == o.status \in {"Active", "Draining"}
      failed == [o EXCEPT !.closed = TRUE,
                          !.status = IF counted THEN status ELSE @,
                          !.first = IF counted THEN missing ELSE @] IN
  IF discard THEN [failed EXCEPT !.discarded = TRUE, !.queue = <<>>,
                                 !.first = Earliest(Discarded(failed))]
  ELSE failed

\* Mutant of Fail: the observer is not notified.
Fail_Silent(o, status, missing, discard) == Failed(o, status, missing, discard)

Fail(o, status, missing, discard) == Notify(Failed(o, status, missing, discard))

\* Mutant of Close: an observer with frames left is completed at once.
Close_Completes(o) ==
  Notify(IF o.closed THEN o ELSE [o EXCEPT !.closed = TRUE, !.status = "Completed"])

Close(o) ==
  Notify(IF o.closed THEN o
         ELSE [o EXCEPT !.closed = TRUE,
                 !.status = IF o.queue = <<>> /\ ~o.in_flight THEN "Completed"
                            ELSE "Draining"])

\* ack: the frame is delivered; a drained observer is complete.
Ack(o, sequence) ==
  [o EXCEPT !.in_flight = FALSE, !.last = sequence,
            !.status = IF o.closed /\ o.queue = <<>> /\ @ = "Draining"
                       THEN "Completed" ELSE @]

\* The acknowledgement of a discarded callback is not counted.
Acknowledge(o, sequence) ==
  IF o.discarded THEN [o EXCEPT !.in_flight = FALSE] ELSE Ack(o, sequence)

\* Mutant of CleanEnd: the reader of a detached observer gets no error.
CleanEnd_Always(o) == TRUE

\* end: an unclean status is reported once, then as a clean end.
CleanEnd(o) == o.error_returned \/ o.status \in {"Completed", "Draining"}

-----------------------------------------------------------------------------
(* The hub.                                                                *)

Init ==
  /\ published = 0 /\ closed = FALSE /\ subscriptions = 0
  /\ owner = "running" /\ late = NoFrame
  /\ seen = [id \in IF HasCallback THEN {Callback} ELSE {} |-> <<>>]
  \* The callback's thread was spawned, or it could not be.
  /\ \E spawned \in BOOLEAN :
       observers = [id \in IF HasCallback THEN {Callback} ELSE {} |->
                      IF spawned THEN NewObserver("taking")
                      ELSE Fail(NewObserver("stopped"), "WorkerUnavailable", NoFrame, TRUE)]

\* subscribe: registrations are bounded, dropped ones included.
Subscribe ==
  /\ ~closed /\ subscriptions < MaxSubscriptions
  /\ LET id == subscriptions + 2 IN
     /\ observers' = [other \in DOMAIN observers \cup {id} |->
                        IF other = id THEN NewObserver("polling") ELSE observers[other]]
     /\ seen' = [other \in DOMAIN seen \cup {id} |->
                   IF other = id THEN <<>> ELSE seen[other]]
  /\ subscriptions' = subscriptions + 1
  /\ UNCHANGED <<published, closed, owner, late>>

\* publish: number the frame and push it to every observer; the terminal frame
\* closes the hub in the same critical section.
Publish(bytes, terminal) ==
  /\ ~closed /\ published < MaxSequence
  /\ published' = published + 1
  /\ closed' = terminal
  /\ LET frame == [sequence |-> published + 1, bytes |-> bytes]
         pushed(id) == Push(observers[id], Buffers[id], frame) IN
     observers' = [id \in DOMAIN observers |->
                     IF terminal THEN Close(pushed(id)) ELSE pushed(id)]
  /\ UNCHANGED <<subscriptions, late, seen>>

\* There is no number left: the frame is refused and observation ends.
Exhaust ==
  /\ ~closed /\ published = MaxSequence
  /\ closed' = TRUE
  /\ observers' = [id \in DOMAIN observers |->
                     Fail(observers[id], "SequenceExhausted", NoFrame, FALSE)]
  /\ UNCHANGED <<published, subscriptions, late, seen>>

\* Any clone of the emitter publishes until the hub is closed.
Emit ==
  /\ (\E bytes \in Sizes : Publish(bytes, FALSE)) \/ Exhaust
  /\ UNCHANGED owner

\* The run's last frame.
Terminate ==
  /\ owner = "running" /\ owner' = "sealed"
  /\ \/ \E bytes \in Sizes : Publish(bytes, TRUE)
     \/ Exhaust
     \/ closed /\ UNCHANGED <<published, closed, subscriptions, observers, late, seen>>

\* abandon: the owner is dropped, with the run future.
DropOwner ==
  /\ owner \notin {"returned", "dropped"} /\ owner' = "dropped"
  /\ closed' = TRUE
  /\ observers' =
       IF closed THEN observers
       ELSE [id \in DOMAIN observers |->
               Fail(observers[id], "Abandoned",
                    IF published < MaxSequence THEN published + 1 ELSE NoFrame, TRUE)]
  /\ UNCHANGED <<published, subscriptions, late, seen>>

-----------------------------------------------------------------------------
(* shutdown: drain the callback for a bounded time.                        *)

hubVars == <<published, closed, subscriptions>>

\* The worker's end ends the wait.  (If it was never spawned its observer has
\* already failed, and failing it again changes nothing.)
Drained ==
  /\ owner = "sealed" /\ owner' = "returned"
  /\ HasCallback => observers[Callback].stage \in {"stopped", "ended"}
  /\ UNCHANGED <<hubVars, observers, late, seen>>

\* The wait times out, and shutdown reads how far the callback has got ...
Expire ==
  /\ owner = "sealed" /\ HasCallback /\ owner' = "expired"
  /\ LET last == observers[Callback].last IN
     late' = IF last = NoFrame THEN Start(observers[Callback])
             ELSE IF last < MaxSequence THEN last + 1 ELSE NoFrame
  /\ UNCHANGED <<hubVars, observers, seen>>

\* Mutant of Detain: the queue is kept.
Detain_KeepsQueue ==
  /\ owner = "expired" /\ owner' = "returned"
  /\ observers' = [observers EXCEPT ![Callback] =
                     Fail(@, "CallbackTimedOut", late, FALSE)]
  /\ UNCHANGED <<hubVars, late, seen>>

\* ... and then, in another critical section, fails it.
Detain ==
  /\ owner = "expired" /\ owner' = "returned"
  /\ observers' = [observers EXCEPT ![Callback] =
                     Fail(@, "CallbackTimedOut", late, TRUE)]
  /\ UNCHANGED <<hubVars, late, seen>>

-----------------------------------------------------------------------------
(* The callback's worker thread.                                           *)

Update(id, o) == observers' = [observers EXCEPT ![id] = o]
Hand(id) == seen' = [seen EXCEPT ![id] = Append(@, Head(observers[id].queue).sequence)]

\* blocking_recv takes a frame and gives the observer's lock back ...
WorkerTakes ==
  LET o == observers[Callback] IN
  /\ o.stage = "taking" /\ o.queue # <<>>
  /\ Update(Callback, [o EXCEPT !.queue = Tail(@), !.in_flight = TRUE,
                                !.stage = "holding"])
  /\ Hand(Callback)
  /\ UNCHANGED <<hubVars, owner, late>>

\* ... and then the callback starts, without the lock: shutdown may have given up
\* on it, and returned, in between.
WorkerStarts ==
  LET o == observers[Callback] IN
  /\ o.stage = "holding"
  /\ Update(Callback, [o EXCEPT !.stage = "handling"])
  /\ UNCHANGED <<hubVars, owner, late, seen>>

HandlerReturns ==
  LET o == observers[Callback] IN
  /\ o.stage = "handling"
  /\ Update(Callback, [Acknowledge(o, Last(seen[Callback])) EXCEPT !.stage = "taking"])
  /\ UNCHANGED <<hubVars, owner, late, seen>>

HandlerPanics ==
  LET o == observers[Callback] IN
  /\ o.stage = "handling"
  /\ Update(Callback, [Fail(o, "HandlerPanicked", Last(seen[Callback]), TRUE)
                         EXCEPT !.stage = "stopped"])
  /\ UNCHANGED <<hubVars, owner, late, seen>>

\* blocking_recv returns an end or an error, and the thread signals done.
WorkerStops ==
  LET o == observers[Callback] IN
  /\ o.stage = "taking" /\ o.queue = <<>> /\ o.closed
  /\ Update(Callback, IF CleanEnd(o) THEN [o EXCEPT !.stage = "ended"]
                       ELSE [o EXCEPT !.stage = "stopped", !.error_returned = TRUE])
  /\ UNCHANGED <<hubVars, owner, late, seen>>

Worker == WorkerTakes \/ WorkerStarts \/ HandlerReturns \/ HandlerPanics \/ WorkerStops

-----------------------------------------------------------------------------
(* A subscription's reader.                                                *)

\* recv: enable the notification before looking ...
Arm(id) ==
  /\ observers[id].stage = "polling"
  /\ Update(id, [observers[id] EXCEPT !.stage = "armed"])
  /\ UNCHANGED <<hubVars, owner, late, seen>>

Looking(id) == observers[id].stage \in {"armed", "signalled"}

\* ... then, under the lock, take a frame, which counts as delivered ...
Receive(id) ==
  LET o == observers[id] IN
  /\ Looking(id) /\ o.queue # <<>>
  /\ Update(id, [Ack([o EXCEPT !.queue = Tail(@)], Head(o.queue).sequence)
                   EXCEPT !.stage = "polling"])
  /\ Hand(id)
  /\ UNCHANGED <<hubVars, owner, late>>

\* ... or learn how the stream ended ...
ReadEnd(id) ==
  LET o == observers[id] IN
  /\ Looking(id) /\ o.queue = <<>> /\ o.closed
  /\ Update(id, IF CleanEnd(o) THEN [o EXCEPT !.stage = "ended"]
                ELSE [o EXCEPT !.stage = "polling", !.error_returned = TRUE])
  /\ UNCHANGED <<hubVars, owner, late, seen>>

\* ... or sleep, unless a notification came in between.
Sleep(id) ==
  LET o == observers[id] IN
  /\ Looking(id) /\ o.queue = <<>> /\ ~o.closed
  /\ Update(id, [o EXCEPT !.stage = IF @ = "armed" THEN "asleep" ELSE "polling"])
  /\ UNCHANGED <<hubVars, owner, late, seen>>

\* The receiver is dropped; after the end of its stream that changes nothing.
Disconnect(id) ==
  LET o == observers[id] IN
  /\ o.stage \notin {"ended", "gone"}
  /\ Update(id, [o EXCEPT !.queue = <<>>, !.closed = TRUE, !.stage = "gone",
                   !.status = IF @ \in {"Active", "Draining"} THEN "ClientClosed" ELSE @])
  /\ UNCHANGED <<hubVars, owner, late, seen>>

Read(id) == Arm(id) \/ Receive(id) \/ ReadEnd(id) \/ Sleep(id)

-----------------------------------------------------------------------------
Subscribers == DOMAIN observers \ {Callback}

\* Mutant of Settle: the wait for the callback has no deadline.
Settle_NoDeadline == Drained \/ Detain

Settle == Drained \/ Expire \/ Detain

Next ==
  \/ Subscribe \/ Emit \/ Terminate \/ Settle \/ DropOwner
  \/ HasCallback /\ Worker
  \/ \E id \in Subscribers : Read(id) \/ Disconnect(id)

Spec == Init /\ [][Next]_streamVars

-----------------------------------------------------------------------------
(* Properties.                                                             *)

\* What an observer has been handed and what waits in its queue are the frames
\* since it joined, in order and without a gap.
NoGap ==
  \A id \in DOMAIN observers :
    LET o == observers[id]
        got == Len(seen[id]) IN
    /\ \A i \in DOMAIN seen[id] : seen[id][i] = o.joined + i
    /\ \A i \in DOMAIN o.queue : o.queue[i].sequence = o.joined + got + i
    /\ ~o.closed => o.joined + got + Len(o.queue) = published

\* An observer's report names as first missing exactly the frame after the last
\* one it delivers.  A callback that was cut off delivers what it acknowledged,
\* and no frame it did not may be left out: shutdown, which reads how far the
\* callback has got before it fails it, may name a frame that was acknowledged in
\* between, and every other failure names the next one.
MissingFollowsPrefix ==
  \A id \in DOMAIN observers :
    LET o == observers[id] IN
    o.first # NoFrame /\ o.stage # "gone" =>
      IF id = Callback /\ o.discarded
      THEN /\ o.first <= o.last + 1
           /\ o.status # "CallbackTimedOut" => o.first = o.last + 1
      ELSE o.first = o.joined + Len(seen[id]) + Len(o.queue) + 1

\* An observer reported as completed has seen every frame of the run.
CompletedSawAll ==
  \A id \in DOMAIN observers :
    observers[id].status = "Completed" =>
      closed /\ observers[id].joined + Len(seen[id]) = published

\* Once shutdown has returned the callback's thread takes no frame any more, so
\* at most the one it already held is still shown to the callback, and a callback
\* that returns late is not counted.
CallbackQuiet ==
  owner = "returned" /\ HasCallback =>
    /\ seen'[Callback] = seen[Callback]
    /\ observers'[Callback].last = observers[Callback].last
NoFrameTakenAfterReturn == [][CallbackQuiet]_streamVars

\* Every observer's stream is the promised one, each step of the run being a
\* step of it or none: the callback's too, whose frames count when its thread
\* takes them.
Stream(id) ==
  INSTANCE FrameStream WITH
    sealed <- closed,
    joined <- id \in DOMAIN observers,
    received <- IF id \in DOMAIN observers THEN observers[id].joined + Len(seen[id]) ELSE 0,
    told <- IF id \notin DOMAIN observers THEN "nothing"
            ELSE IF observers[id].stage = "ended" THEN "end"
            ELSE IF observers[id].error_returned THEN "error" ELSE "nothing"
StreamsKept ==
  /\ \A id \in 1..(MaxSubscriptions + 1) : Stream(id)!Init
  /\ [][\A id \in 1..(MaxSubscriptions + 1) :
          Stream(id)!Next \/ UNCHANGED Stream(id)!vars]_streamVars

\* The owner awaits shutdown and its deadline passes; readers keep polling.
\* Nothing is said of the callback.
PolledSpec ==
  /\ Spec
  /\ WF_streamVars(Settle)
  /\ \A id \in 2..(MaxSubscriptions + 1) :
       WF_streamVars(id \in Subscribers /\ Read(id))

\* The run's end waits for its callback a bounded time only: it returns although
\* a callback never does.
ShutdownReturns == owner = "sealed" ~> owner \in {"returned", "dropped"}

\* A reader that keeps polling learns that the run ended, whatever happened to
\* it before.
ReadersEnd ==
  \A id \in 2..(MaxSubscriptions + 1) :
    closed /\ id \in Subscribers ~> id \in Subscribers /\ observers[id].stage \in {"ended", "gone"}
=============================================================================
