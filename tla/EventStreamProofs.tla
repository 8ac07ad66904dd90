------------------------- MODULE EventStreamProofs -------------------------
(***************************************************************************)
(* Theorems about EventStream, for all buffers, frame sizes, numbers of    *)
(* subscriptions and last sequences.                                       *)
(***************************************************************************)
EXTENDS EventStream, SequenceTheorems, WellFoundedInduction, NaturalsInduction, TLAPS

-----------------------------------------------------------------------------
(* The state of one observer.                                              *)

Statuses == {"Active", "Draining", "Completed", "ClientClosed", "Lagged", "EventTooLarge",
             "WorkerUnavailable", "SequenceExhausted", "Abandoned", "CallbackTimedOut",
             "HandlerPanicked"}
Faults == Statuses \ {"Active", "Draining", "Completed", "ClientClosed"}
Stages == {"taking", "holding", "handling", "stopped", "polling", "armed", "signalled",
           "asleep", "ended", "gone"}
Busy == {"holding", "handling"}
Frame == [sequence : Nat, bytes : Nat]
Observer ==
  [joined : Nat, queue : Seq(Frame), status : Statuses, closed : BOOLEAN, first : Nat,
   last : Nat, in_flight : BOOLEAN, discarded : BOOLEAN, error_returned : BOOLEAN,
   stage : Stages]

\* What the operations on an observer keep: who is told what, and since when.
SameReport(o, later) ==
  /\ later.joined = o.joined /\ later.last = o.last
  /\ later.error_returned = o.error_returned
  /\ later.stage = "ended" <=> o.stage = "ended"
  /\ later.stage = "gone" <=> o.stage = "gone"
  /\ later.stage \in Busy => o.stage \in Busy
  /\ o.stage \notin {"armed", "asleep"} => later.stage = o.stage

\* A notification moves the reader and nothing else.
LEMMA NotifyEffect ==
  ASSUME NEW o \in Observer
  PROVE  /\ Notify(o) \in Observer /\ SameReport(o, Notify(o))
         /\ Notify(o).queue = o.queue /\ Notify(o).status = o.status
         /\ Notify(o).closed = o.closed /\ Notify(o).first = o.first
         /\ Notify(o).in_flight = o.in_flight /\ Notify(o).discarded = o.discarded
<1> DEFINE stage == IF o.stage = "armed" THEN "signalled"
                    ELSE IF o.stage = "asleep" THEN "polling" ELSE o.stage
<1>1. stage \in Stages /\ Notify(o) = [o EXCEPT !.stage = stage]
  BY DEF Notify, Observer, Stages
<1>2. /\ stage = "ended" <=> o.stage = "ended"
      /\ stage = "gone" <=> o.stage = "gone"
      /\ stage \in Busy => o.stage \in Busy
      /\ o.stage \notin {"armed", "asleep"} => stage = o.stage
  BY DEF Stages, Busy
<1> HIDE DEF stage
<1> QED BY <1>1, <1>2 DEF Observer, SameReport

\* Detaching keeps the queue.
LEMMA DetachEffect ==
  ASSUME NEW o \in Observer, NEW status \in Statuses, NEW sequence \in Nat
  PROVE  /\ Detach(o, status, sequence) \in Observer
         /\ SameReport(o, Detach(o, status, sequence))
         /\ Detach(o, status, sequence).stage = o.stage
         /\ Detach(o, status, sequence).queue = o.queue
         /\ Detach(o, status, sequence).status = status
         /\ Detach(o, status, sequence).closed = TRUE
         /\ Detach(o, status, sequence).first = sequence
         /\ Detach(o, status, sequence).in_flight = o.in_flight
         /\ Detach(o, status, sequence).discarded = o.discarded
BY DEF Detach, Observer, SameReport

-----------------------------------------------------------------------------
(* The invariant of one observer: s is what it has been handed, top the    *)
(* last frame of the run, and sealed tells that no other will follow.       *)

Reach(o, s) == o.joined + Len(s) + Len(o.queue)

\* What it has been handed and what it holds are consecutive frames.
Consecutive(o, s, top) ==
  /\ o \in Observer /\ s \in Seq(Nat)
  /\ \A i \in DOMAIN s : s[i] = o.joined + i
  /\ \A i \in DOMAIN o.queue : o.queue[i].sequence = o.joined + Len(s) + i
  /\ Reach(o, s) <= top
  /\ o.stage \in Busy => s # <<>>

\* How far it is, against its status.
Standing(o, reach, top, sealed) ==
  /\ sealed => o.closed
  /\ o.closed <=> o.status # "Active"
  /\ ~o.closed => o.first = NoFrame /\ ~o.discarded /\ reach = top
  /\ o.status = "Draining" => sealed /\ reach = top
  /\ o.status = "Completed" => sealed /\ reach = top /\ o.queue = <<>>

\* What its reader has been told, and what is left for it.
Told(o, reach, id) ==
  /\ o.error_returned => o.closed /\ o.queue = <<>>
  /\ o.discarded => o.queue = <<>>
  /\ id # Callback =>
       /\ ~o.in_flight
       /\ o.first # NoFrame /\ o.stage # "gone" => o.first = reach + 1

\* What the callback's report says of the n frames its thread has taken: all but
\* the one in flight are delivered, until its queue is discarded.
Reported(o, n, reach) ==
  /\ o.joined = 0 /\ o.stage \notin {"armed", "asleep"}
  /\ o.in_flight => o.last + 1 = n
  /\ ~o.in_flight /\ ~o.discarded => o.last = n
  /\ o.stage \in Busy /\ ~o.discarded => o.in_flight
  /\ o.stage = "taking" => ~o.in_flight
  /\ o.status \in {"Active", "Draining"} => ~o.discarded
  /\ o.first # NoFrame /\ ~o.discarded => o.first = reach + 1
  /\ o.first # NoFrame /\ o.discarded =>
       /\ o.first <= o.last + 1
       /\ o.status # "CallbackTimedOut" => o.first = o.last + 1

Sound(o, s, top, sealed, id) ==
  /\ Consecutive(o, s, top)
  /\ Standing(o, Reach(o, s), top, sealed)
  /\ Told(o, Reach(o, s), id)
  /\ id = Callback => Reported(o, Len(s), Reach(o, s))

Ids == (IF HasCallback THEN {Callback} ELSE {}) \cup 2..(subscriptions + 1)
Owners == {"running", "sealed", "expired", "returned", "dropped"}

HubOK ==
  /\ published \in 0..MaxSequence /\ closed \in BOOLEAN
  /\ subscriptions \in 0..MaxSubscriptions
  /\ owner \in Owners /\ late \in Nat
  /\ DOMAIN observers = Ids /\ DOMAIN seen = Ids

ObserversSound ==
  \A id \in Ids : Sound(observers[id], seen[id], published, closed, id)

\* After shutdown the callback's thread is over, or has nothing left to take.
CallbackOver ==
  owner = "returned" /\ HasCallback =>
    \/ observers[Callback].stage \in {"stopped", "ended"}
    \/ observers[Callback].discarded /\ observers[Callback].queue = <<>>
       /\ observers[Callback].closed

\* What shutdown has read of the callback is not ahead of it.
LateOK ==
  owner = "expired" => HasCallback /\ late <= observers[Callback].last + 1

StreamInv == HubOK /\ ObserversSound /\ CallbackOver /\ LateOK

-----------------------------------------------------------------------------
(* What the operations on an observer do to its frames.                    *)

\* An operation that leaves the queue alone, or empties it, keeps the frames
\* consecutive.
LEMMA FramesKept ==
  ASSUME NEW o \in Observer, NEW later \in Observer, NEW s, NEW top \in Nat,
         Consecutive(o, s, top), later.joined = o.joined,
         later.queue = o.queue \/ later.queue = <<>>,
         later.stage \in Busy => o.stage \in Busy
  PROVE  /\ Consecutive(later, s, top)
         /\ Reach(o, s) \in Nat /\ Reach(later, s) \in Nat
         /\ later.queue = o.queue => Reach(later, s) = Reach(o, s)
         /\ later.queue = <<>> => Reach(later, s) = o.joined + Len(s)
<1>1. /\ o.joined \in Nat /\ Len(s) \in Nat /\ Len(o.queue) \in Nat
      /\ Len(<<>>) = 0 /\ DOMAIN <<>> = {}
  BY DEF Observer, Consecutive
<1>2. CASE later.queue = o.queue
  BY <1>1, <1>2 DEF Consecutive, Reach
<1>3. CASE later.queue = <<>>
  <2>1. Reach(later, s) = o.joined + Len(s) /\ Reach(later, s) <= Reach(o, s)
    BY <1>1, <1>3 DEF Reach
  <2>2. Reach(later, s) <= top
    BY <2>1, <1>1 DEF Consecutive, Reach
  <2>3. Consecutive(later, s, top)
    BY <2>2, <1>1, <1>3 DEF Consecutive
  <2> QED BY <2>1, <2>3, <1>1, <1>3 DEF Reach
<1> QED BY <1>2, <1>3

\* Pushing the next frame of the run extends the queue by the frame that follows.
LEMMA FrameAdded ==
  ASSUME NEW o \in Observer, NEW later \in Observer, NEW s, NEW top \in Nat,
         NEW frame \in Frame, frame.sequence = top + 1,
         Consecutive(o, s, top), Reach(o, s) = top, later.joined = o.joined,
         later.queue = Append(o.queue, frame),
         later.stage \in Busy => o.stage \in Busy
  PROVE  Consecutive(later, s, top + 1) /\ Reach(later, s) = top + 1
<1>1. /\ o.joined \in Nat /\ Len(s) \in Nat /\ o.queue \in Seq(Frame)
      /\ Len(o.queue) \in Nat
  BY DEF Observer, Consecutive
<1>2. /\ Len(later.queue) = Len(o.queue) + 1
      /\ DOMAIN later.queue = 1..(Len(o.queue) + 1)
      /\ \A i \in 1..Len(o.queue) : later.queue[i] = o.queue[i]
      /\ later.queue[Len(o.queue) + 1] = frame
  BY <1>1
<1> DEFINE j == o.joined
           n == Len(s)
           k == Len(o.queue)
<1>3. /\ j \in Nat /\ n \in Nat /\ k \in Nat /\ j + n + k = top
      /\ \A i \in 1..k : o.queue[i].sequence = j + n + i
  BY <1>1 DEF Consecutive, Reach
<1>4. Reach(later, s) = j + n + (k + 1)
  BY <1>2 DEF Reach
<1>5. /\ DOMAIN later.queue = 1..(k + 1)
      /\ \A i \in 1..k : later.queue[i] = o.queue[i]
      /\ later.queue[k + 1].sequence = top + 1
  BY <1>2
<1>6. \A i \in DOMAIN later.queue : later.queue[i].sequence = later.joined + n + i
  <2> HIDE DEF j, n, k
  <2>1. \A i \in 1..(k + 1) : i \in 1..k \/ i = k + 1
    BY <1>3
  <2>2. \A i \in 1..(k + 1) : later.queue[i].sequence = j + n + i
    BY <2>1, <1>3, <1>5
  <2> QED BY <2>2, <1>5 DEF j
<1>7. Reach(later, s) = top + 1
  <2> HIDE DEF j, n, k
  <2> QED BY <1>3, <1>4
<1> QED BY <1>6, <1>7 DEF Consecutive

\* What handing over the head of the queue means: t is the longer history.
Handed(o, later, s, t, top) ==
  /\ Consecutive(later, t, top) /\ Reach(later, t) = Reach(o, s)
  /\ Reach(o, s) \in Nat /\ Len(t) = Len(s) + 1 /\ o.joined + Len(s) < top
  /\ later.queue = <<>> => o.joined + Len(t) = Reach(o, s)

\* Handing over the head of the queue moves one frame from the queue to the
\* history, and the reach stays.
LEMMA FrameHanded ==
  ASSUME NEW o \in Observer, NEW later \in Observer, NEW s, NEW top \in Nat,
         Consecutive(o, s, top), o.queue # <<>>, later.joined = o.joined,
         later.queue = Tail(o.queue)
  PROVE  Handed(o, later, s, Append(s, Head(o.queue).sequence), top)
<1> DEFINE frame == Head(o.queue).sequence
           t == Append(s, frame)
<1>1. /\ o.joined \in Nat /\ s \in Seq(Nat) /\ Len(s) \in Nat /\ o.queue \in Seq(Frame)
      /\ Len(o.queue) \in Nat \ {0}
  BY DEF Observer, Consecutive
<1>2. /\ Len(later.queue) = Len(o.queue) - 1
      /\ DOMAIN later.queue = 1..(Len(o.queue) - 1)
      /\ \A i \in 1..(Len(o.queue) - 1) : later.queue[i] = o.queue[i + 1]
      /\ Head(o.queue) = o.queue[1]
  BY <1>1
<1>3. frame = o.joined + Len(s) + 1 /\ frame \in Nat
  BY <1>1, <1>2 DEF Consecutive
<1> HIDE DEF frame
<1>4. /\ t \in Seq(Nat) /\ Len(t) = Len(s) + 1 /\ DOMAIN t = 1..(Len(s) + 1) /\ t # <<>>
      /\ \A i \in 1..Len(s) : t[i] = s[i]
      /\ t[Len(s) + 1] = frame
  BY <1>1, <1>3
<1> HIDE DEF t
<1> DEFINE j == o.joined
           n == Len(s)
           k == Len(o.queue)
<1>5. /\ j \in Nat /\ n \in Nat /\ k \in Nat \ {0} /\ j + n + k <= top
      /\ Reach(o, s) = j + n + k /\ frame = j + n + 1
      /\ \A i \in 1..k : o.queue[i].sequence = j + n + i
      /\ \A i \in 1..n : s[i] = j + i
  <2>1. /\ j \in Nat /\ n \in Nat /\ k \in Nat \ {0} /\ j + n + k <= top
        /\ Reach(o, s) = j + n + k
    BY <1>1 DEF Consecutive, Reach
  <2>2. DOMAIN o.queue = 1..k /\ DOMAIN s = 1..n
    BY <1>1
  <2> QED BY <2>1, <2>2, <1>3 DEF Consecutive
<1>6. /\ Reach(later, t) = j + (n + 1) + (k - 1) /\ Len(t) = n + 1
      /\ DOMAIN later.queue = 1..(k - 1) /\ Len(later.queue) = k - 1
      /\ \A i \in 1..(k - 1) : later.queue[i] = o.queue[i + 1]
  BY <1>2, <1>4 DEF Reach
<1>7. /\ DOMAIN t = 1..(n + 1) /\ t[n + 1] = frame
      /\ \A i \in 1..n : t[i] = s[i]
  BY <1>4
<1>8. later.joined = j /\ o.joined = j
  OBVIOUS
<1>9. later.queue = <<>> => k - 1 = 0
  BY <1>6
<1> HIDE DEF j, n, k
<1>10. Reach(later, t) = Reach(o, s) /\ Reach(o, s) \in Nat /\ j + n < top
  BY <1>5, <1>6
<1>11. \A i \in DOMAIN t : t[i] = j + i
  <2>1. \A i \in 1..(n + 1) : i \in 1..n \/ i = n + 1
    BY <1>5
  <2>2. \A i \in 1..n : t[i] = j + i
    BY <1>5, <1>7
  <2>3. t[n + 1] = j + (n + 1)
    BY <1>5, <1>7
  <2> QED BY <2>1, <2>2, <2>3, <1>7
<1>12. \A i \in DOMAIN later.queue : later.queue[i].sequence = j + (n + 1) + i
  <2>1. \A i \in 1..(k - 1) : i + 1 \in 1..k
    BY <1>5
  <2>2. \A i \in 1..(k - 1) : later.queue[i].sequence = j + n + (i + 1)
    BY <2>1, <1>5, <1>6
  <2> QED BY <2>2, <1>5, <1>6
<1>13. k - 1 = 0 => j + (n + 1) = Reach(o, s)
  BY <1>5
<1>14. Reach(o, s) <= top
  BY <1>5
<1>15. Consecutive(later, t, top)
  BY <1>4, <1>6, <1>8, <1>10, <1>11, <1>12, <1>14 DEF Consecutive
<1>16. Len(s) = n
  BY DEF n
<1> QED BY <1>4, <1>6, <1>8, <1>9, <1>10, <1>13, <1>15, <1>16 DEF t, frame, Handed

-----------------------------------------------------------------------------
(* The operations on an observer keep it sound.                            *)

\* push: the frame is queued, or is the first that the observer misses.
LEMMA PushSound ==
  ASSUME NEW o, NEW s, NEW top \in Nat, NEW sealed \in BOOLEAN, ~sealed, NEW id, NEW limits,
         NEW frame \in Frame, frame.sequence = top + 1, Sound(o, s, top, sealed, id)
  PROVE  /\ Sound(Push(o, limits, frame), s, top + 1, sealed, id)
         /\ SameReport(o, Push(o, limits, frame))
         /\ o.closed => Push(o, limits, frame) = o
<1> DEFINE later == Push(o, limits, frame)
           r == Reach(o, s)
<1>1. /\ o \in Observer /\ Consecutive(o, s, top) /\ Standing(o, r, top, sealed)
      /\ Told(o, r, id) /\ (id = Callback => Reported(o, Len(s), r))
  BY DEF Sound, Consecutive
<1>2. /\ r \in Nat /\ r <= top /\ Consecutive(o, s, top + 1)
  <2>1. r \in Nat /\ r <= top
    BY <1>1, FramesKept DEF Consecutive
  <2> QED BY <2>1, <1>1 DEF Consecutive
<1>3. CASE o.closed
  <2>1. later = o
    BY <1>3 DEF Push
  <2>2. Standing(o, r, top + 1, sealed)
    BY <1>1, <1>3 DEF Standing
  <2> QED BY <1>1, <1>2, <2>1, <2>2 DEF Sound, SameReport
<1>4. ASSUME ~o.closed, NEW status \in {"EventTooLarge", "Lagged"},
             later = Notify(Detach(o, status, top + 1))
      PROVE  Sound(later, s, top + 1, sealed, id) /\ SameReport(o, later)
  <2> DEFINE d == Detach(o, status, top + 1)
  <2>1. /\ d \in Observer /\ SameReport(o, d) /\ d.queue = o.queue /\ d.status = status
        /\ d.closed = TRUE /\ d.first = top + 1 /\ d.in_flight = o.in_flight
        /\ d.discarded = o.discarded /\ d.stage = o.stage
    <3>1. status \in Statuses /\ top + 1 \in Nat
      BY <1>4 DEF Statuses
    <3>2. o \in Observer
      BY <1>1
    <3> HIDE DEF later, r
    <3> QED BY <3>1, <3>2 DEF Detach, Observer, SameReport
  <2> HIDE DEF d
  <2>2. /\ later \in Observer /\ SameReport(d, later) /\ later.queue = o.queue
        /\ later.status = status /\ later.closed = TRUE /\ later.first = top + 1
        /\ later.in_flight = o.in_flight /\ later.discarded = o.discarded
        /\ later.stage \in Busy => o.stage \in Busy
    BY <1>4, <2>1, NotifyEffect DEF d, SameReport
  <2> HIDE DEF later
  <2>3. SameReport(o, later)
    BY <2>1, <2>2 DEF SameReport
  <2>4. r = top
    BY <1>1, <1>4 DEF Standing
  <2>5. Consecutive(later, s, top + 1) /\ Reach(later, s) = r
    BY <1>1, <1>2, <2>2, <2>3, FramesKept DEF SameReport
  <2>6. Standing(later, r, top + 1, sealed)
    BY <1>1, <1>4, <2>2 DEF Standing
  <2>7. Told(later, r, id)
    BY <1>1, <1>4, <2>2, <2>3, <2>4 DEF Told, SameReport
  <2>8. id = Callback => Reported(later, Len(s), r)
    BY <1>1, <1>4, <2>2, <2>3, <2>4 DEF Reported, SameReport, Standing
  <2> QED BY <2>3, <2>5, <2>6, <2>7, <2>8 DEF Sound
<1>5. ASSUME ~o.closed, later = Notify([o EXCEPT !.queue = Append(@, frame)])
      PROVE  Sound(later, s, top + 1, sealed, id) /\ SameReport(o, later)
  <2> DEFINE d == [o EXCEPT !.queue = Append(@, frame)]
  <2>1. Append(o.queue, frame) \in Seq(Frame)
    BY <1>1 DEF Observer
  <2>2. /\ d \in Observer /\ SameReport(o, d) /\ d.queue = Append(o.queue, frame)
        /\ d.status = o.status /\ d.closed = o.closed /\ d.first = o.first
        /\ d.in_flight = o.in_flight /\ d.discarded = o.discarded /\ d.stage = o.stage
    BY <1>1, <2>1 DEF Observer, SameReport
  <2> HIDE DEF d
  <2>3. /\ later \in Observer /\ SameReport(d, later) /\ later.queue = Append(o.queue, frame)
        /\ later.status = o.status /\ later.closed = o.closed /\ later.first = o.first
        /\ later.in_flight = o.in_flight /\ later.discarded = o.discarded
        /\ later.stage \in Busy => o.stage \in Busy
    <3>1. later = Notify(d)
      BY <1>5 DEF d
    <3> HIDE DEF later
    <3> QED BY <3>1, <2>2, NotifyEffect DEF SameReport
  <2> HIDE DEF later
  <2>4. SameReport(o, later)
    BY <2>2, <2>3 DEF SameReport
  <2>5. r = top
    BY <1>1, <1>5 DEF Standing
  <2>6. Consecutive(later, s, top + 1) /\ Reach(later, s) = top + 1
    BY <1>1, <2>3, <2>4, <2>5, FrameAdded DEF SameReport
  <2>7. Standing(later, top + 1, top + 1, sealed)
    BY <1>1, <1>5, <2>3 DEF Standing
  <2>8. Told(later, top + 1, id)
    BY <1>1, <1>5, <2>3, <2>4 DEF Told, SameReport, Standing
  <2>9. id = Callback => Reported(later, Len(s), top + 1)
    BY <1>1, <1>5, <2>3, <2>4 DEF Reported, SameReport, Standing
  <2> QED BY <2>4, <2>6, <2>7, <2>8, <2>9 DEF Sound
<1>6. o.closed => later = o
  BY DEF Push
<1> QED
  <2>1. ~o.closed => \/ later = Notify(Detach(o, "EventTooLarge", top + 1))
                     \/ later = Notify(Detach(o, "Lagged", top + 1))
                     \/ later = Notify([o EXCEPT !.queue = Append(@, frame)])
    BY DEF Push
  <2> QED BY <2>1, <1>3, <1>4, <1>5, <1>6

\* close: the observer completes, or drains what it holds.
LEMMA CloseSound ==
  ASSUME NEW o, NEW s, NEW top \in Nat, NEW sealed \in BOOLEAN, ~sealed,
         NEW sealedNow \in BOOLEAN, sealedNow, NEW id, Sound(o, s, top, sealed, id)
  PROVE  Sound(Close(o), s, top, sealedNow, id) /\ SameReport(o, Close(o))
<1> DEFINE status == IF o.closed THEN o.status
                     ELSE IF o.queue = <<>> /\ ~o.in_flight THEN "Completed" ELSE "Draining"
           d == [o EXCEPT !.closed = TRUE, !.status = status]
           later == Close(o)
           r == Reach(o, s)
<1>1. /\ o \in Observer /\ Consecutive(o, s, top) /\ Standing(o, r, top, sealed)
      /\ Told(o, r, id) /\ status \in Statuses
      /\ id = Callback => Reported(o, Len(s), r)
  BY DEF Sound, Consecutive, Observer, Statuses
<1>2. later = Notify(d)
  BY <1>1 DEF Close, Observer
<1>3. /\ o.closed => status = o.status
      /\ ~o.closed => status = "Draining" \/ (status = "Completed" /\ o.queue = <<>>)
  OBVIOUS
<1> HIDE DEF status
<1>4. /\ d \in Observer /\ SameReport(o, d) /\ d.queue = o.queue /\ d.status = status
      /\ d.closed = TRUE /\ d.first = o.first /\ d.in_flight = o.in_flight
      /\ d.discarded = o.discarded /\ d.stage = o.stage
  BY <1>1 DEF Observer, SameReport
<1> HIDE DEF d
<1>5. /\ later \in Observer /\ SameReport(d, later) /\ later.queue = o.queue
      /\ later.status = status /\ later.closed = TRUE /\ later.first = o.first
      /\ later.in_flight = o.in_flight /\ later.discarded = o.discarded
      /\ later.stage \in Busy => o.stage \in Busy
  BY <1>2, <1>4, NotifyEffect DEF SameReport
<1> HIDE DEF later
<1>6. SameReport(o, later)
  BY <1>4, <1>5 DEF SameReport
<1>7. Consecutive(later, s, top) /\ Reach(later, s) = r
  BY <1>1, <1>5, <1>6, FramesKept DEF SameReport
<1>8. Standing(later, r, top, sealedNow)
  BY <1>1, <1>3, <1>5 DEF Standing
<1>9. Told(later, r, id)
  BY <1>1, <1>5, <1>6 DEF Told, SameReport
<1>10. id = Callback => Reported(later, Len(s), r)
  BY <1>1, <1>3, <1>5, <1>6 DEF Reported, SameReport, Standing
<1> QED BY <1>6, <1>7, <1>8, <1>9, <1>10 DEF Sound, later

\* The earliest of some sequences is the least of those that are there.
LEMMA EarliestIsLeast ==
  ASSUME NEW S, S \subseteq Nat
  PROVE  /\ Earliest(S) \in Nat
         /\ Earliest(S) # NoFrame => Earliest(S) \in S
         /\ \A s \in S : s # NoFrame => Earliest(S) # NoFrame /\ Earliest(S) <= s
<1> DEFINE known == S \ {NoFrame}
<1>1. CASE known = {}
  BY <1>1 DEF Earliest, NoFrame
<1>2. CASE known # {}
  <2>1. known \subseteq Nat
    OBVIOUS
  <2>2. PICK x \in known : \A y \in known : <<y, x>> \notin OpToRel(<, Nat)
    BY <1>2, <2>1, WFMin, NatLessThanWellFounded
  <2>3. ASSUME NEW y \in known PROVE x <= y
    <3>1. x \in Nat /\ y \in Nat
      BY <2>1, <2>2, <2>3
    <3>2. ~(y < x)
      BY <2>2, <2>3, <3>1 DEF OpToRel
    <3> QED BY <3>1, <3>2
  <2>4. Earliest(S) = CHOOSE s \in known : \A other \in known : s <= other
    BY <1>2 DEF Earliest
  <2> HIDE DEF known
  <2>5. Earliest(S) \in known /\ \A other \in known : Earliest(S) <= other
    BY <2>2, <2>3, <2>4
  <2> QED BY <2>5 DEF known
<1> QED BY <1>1, <1>2

\* What a discarded callback misses starts no later than after the last frame it
\* acknowledged, and there exactly unless an earlier one was named.
LEMMA CallbackMisses ==
  ASSUME NEW o \in Observer, NEW failed \in Observer, NEW s, NEW top \in Nat,
         top <= MaxSequence, Consecutive(o, s, top), Reported(o, Len(s), Reach(o, s)),
         o.discarded => o.queue = <<>>, SameReport(o, failed), failed.queue = o.queue,
         failed.in_flight = o.in_flight, NEW least \in Nat,
         least # NoFrame => least \in Discarded(failed),
         \A x \in Discarded(failed) : x # NoFrame => least # NoFrame /\ least <= x,
         failed.first # NoFrame => \/ ~o.discarded /\ failed.first = Reach(o, s) + 1
                                   \/ failed.first <= o.last + 1
  PROVE  least # NoFrame =>
           /\ least <= o.last + 1
           /\ failed.first = NoFrame \/ failed.first >= o.last + 1 => least = o.last + 1
<1> DEFINE n == Len(s)
           k == Len(o.queue)
           L == o.last + 1
           heads == {o.queue[i].sequence : i \in DOMAIN o.queue \cap {1}}
           flights == IF ~o.in_flight THEN {} ELSE {L}
<1>1. /\ n \in Nat /\ k \in Nat /\ o.joined = 0 /\ Reach(o, s) = n + k /\ n + k <= top
      /\ DOMAIN o.queue = 1..k /\ o.last \in Nat /\ L \in Nat /\ L # NoFrame
      /\ MaxSequence \in Nat \ {0} /\ failed.first \in Nat
      /\ \A i \in 1..k : o.queue[i].sequence = n + i
  <2>1. /\ o.joined = 0 /\ o.last \in Nat /\ failed.first \in Nat
        /\ s \in Seq(Nat) /\ o.queue \in Seq(Frame)
    BY DEF Consecutive, Observer, Reported
  <2>2. n \in Nat /\ k \in Nat /\ DOMAIN o.queue = 1..k
    BY <2>1
  <2>3. Reach(o, s) = n + k
    BY <2>1, <2>2 DEF Reach
  <2>4. \A i \in 1..k : o.queue[i].sequence = 0 + n + i
    BY <2>1, <2>2 DEF Consecutive
  <2>5. n + k <= top
    BY <2>3 DEF Consecutive
  <2>6. MaxSequence \in Nat \ {0}
    BY BuffersAssumption
  <2> HIDE DEF n, k
  <2>7. \A i \in 1..k : o.queue[i].sequence = n + i
    BY <2>2, <2>4
  <2> QED BY <2>1, <2>2, <2>3, <2>5, <2>6, <2>7 DEF NoFrame
<1>2. /\ o.in_flight => o.last + 1 = n
      /\ ~o.in_flight /\ ~o.discarded => o.last = n
  BY DEF Reported
<1>3. Discarded(failed) = {failed.first} \cup heads \cup flights
  <2>1. failed.last = o.last /\ failed.joined = 0
    BY <1>1 DEF SameReport
  <2>2. o.in_flight => o.last < MaxSequence
    BY <1>1, <1>2
  <2>3. o.last = NoFrame => Start(failed) = o.last + 1
    BY <1>1, <2>1 DEF Start, NoFrame
  <2> QED BY <2>1, <2>2, <2>3 DEF Discarded
<1>4. /\ k = 0 => heads = {}
      /\ k # 0 => heads = {n + 1}
  <2>1. \A i \in 1..k : o.queue[i].sequence = n + i
    BY <1>1
  <2>2. k # 0 => (1..k) \cap {1} = {1} /\ 1 \in 1..k
    BY <1>1
  <2>3. k = 0 => (1..k) \cap {1} = {}
    BY <1>1
  <2> QED BY <1>1, <2>1, <2>2, <2>3
<1>5. o.discarded => k = 0
  BY <1>1
<1>6. o.last \in Nat /\ L = o.last + 1
  BY <1>1
<1> HIDE DEF n, k, heads, flights, L
<1>7. SUFFICES ASSUME least # NoFrame
               PROVE  least <= L /\ (failed.first = NoFrame \/ failed.first >= L => least = L)
  BY DEF L
<1>8. CASE o.in_flight
  <2>1. flights = {L} /\ L = n
    BY <1>2, <1>8, <1>6 DEF flights
  <2>2. least <= L
    BY <1>1, <1>3, <2>1
  <2>3. least \in {failed.first} \/ least \in heads \/ least = L
    BY <1>3, <1>7, <2>1
  <2>4. least \in heads => least = n + 1
    BY <1>4
  <2> QED BY <1>1, <1>7, <2>1, <2>2, <2>3, <2>4
<1>9. CASE ~o.in_flight
  <2>1. Discarded(failed) = {failed.first} \cup heads
    BY <1>3, <1>9 DEF flights
  <2>2. CASE k = 0
    <3>1. least = failed.first
      BY <1>4, <1>7, <2>1, <2>2
    <3>2. ~o.discarded => Reach(o, s) + 1 = L
      BY <1>1, <1>2, <1>6, <1>9, <2>2
    <3>3. least <= L
      BY <1>1, <1>6, <1>7, <3>1, <3>2
    <3> QED BY <1>1, <1>7, <3>1, <3>3
  <2>3. CASE k # 0
    <3>1. heads = {L} /\ L = n + 1
      BY <1>2, <1>4, <1>5, <1>6, <1>9, <2>3
    <3>2. least <= L
      BY <1>1, <2>1, <3>1
    <3>3. least = failed.first \/ least = L
      BY <1>7, <2>1, <3>1
    <3> QED BY <1>1, <1>7, <3>2, <3>3
  <2> QED BY <2>2, <2>3
<1> QED BY <1>8, <1>9

\* The frames that a failure may name as missing: none or the next of an open
\* run; or, for a callback that is cut off, the one after the last it
\* acknowledged.  A shutdown that timed out may name an earlier one, and what
\* fails a callback that was cut off before is not counted.
Upcoming(missing, top, sealed) == ~sealed /\ missing \in {NoFrame, top + 1}
Nameable(o, status, missing, top, sealed, id) ==
  \/ Upcoming(missing, top, sealed)
  \/ /\ id = Callback
     /\ \/ o.discarded
        \/ missing = o.last + 1
        \/ status = "CallbackTimedOut" /\ missing <= o.last + 1

\* A failure of a sound observer.
Failing(o, s, top, sealed, sealedNow, status, missing, discard, id) ==
  /\ Sound(o, s, top, sealed, id) /\ top <= MaxSequence /\ (sealed => sealedNow)
  /\ Nameable(o, status, missing, top, sealed, id)
  /\ discard \/ Upcoming(missing, top, sealed)

\* It detaches the observer; what it misses then starts where its prefix
\* ends, whether or not its queue is discarded.
LEMMA AnyFailSound ==
  ASSUME NEW o, NEW s, NEW top \in Nat, NEW sealed \in BOOLEAN, NEW id,
         NEW sealedNow \in BOOLEAN, NEW status \in Faults, NEW missing \in Nat,
         NEW discard \in BOOLEAN,
         Failing(o, s, top, sealed, sealedNow, status, missing, discard, id)
  PROVE  LET later == Fail(o, status, missing, discard) IN
         /\ Sound(later, s, top, sealedNow, id) /\ SameReport(o, later) /\ later.closed
         /\ discard => later.discarded /\ later.queue = <<>>
         /\ ~discard => later.discarded = o.discarded /\ later.queue = o.queue
<1> DEFINE later == Fail(o, status, missing, discard)
           r == Reach(o, s)
           failed == Failed(o, status, missing, FALSE)
           d == Failed(o, status, missing, discard)
           statusNow == IF o.status \in {"Active", "Draining"} THEN status ELSE o.status
           firstNow == IF o.status \in {"Active", "Draining"} THEN missing ELSE o.first
<1>1. /\ Sound(o, s, top, sealed, id) /\ top <= MaxSequence /\ (sealed => sealedNow)
      /\ Nameable(o, status, missing, top, sealed, id)
      /\ ~discard => Upcoming(missing, top, sealed)
  BY DEF Failing
<1>2. /\ o \in Observer /\ Consecutive(o, s, top) /\ Standing(o, r, top, sealed)
      /\ Told(o, r, id) /\ status \in Statuses
      /\ id = Callback => Reported(o, Len(s), r)
  BY <1>1 DEF Sound, Consecutive, Faults
<1>3. /\ o.closed => o.status # "Active"
      /\ statusNow \in Statuses \ {"Active", "Draining"} /\ firstNow \in Nat
      /\ statusNow = "Completed" => o.status = "Completed"
      /\ id # Callback => (firstNow # NoFrame /\ o.stage # "gone" => firstNow = r + 1)
  <2>1. /\ statusNow \in Statuses \ {"Active", "Draining"}
        /\ statusNow = "Completed" => o.status = "Completed"
    BY <1>2 DEF Faults, Statuses, Observer
  <2>2. firstNow \in Nat
    BY <1>2 DEF Observer
  <2>3. ASSUME id # Callback PROVE firstNow # NoFrame /\ o.stage # "gone" => firstNow = r + 1
    <3>1. CASE o.status = "Active"
      <4>1. firstNow = missing /\ r = top /\ missing \in {NoFrame, top + 1}
        BY <1>2, <1>1, <2>3, <3>1 DEF Standing, Nameable, Upcoming
      <4> QED BY <4>1, <2>3
    <3>2. CASE o.status = "Draining"
      BY <1>2, <1>1, <2>3, <3>2 DEF Standing, Nameable, Upcoming
    <3>3. CASE o.status \notin {"Active", "Draining"}
      BY <1>2, <2>3, <3>3 DEF Told
    <3> QED BY <3>1, <3>2, <3>3
  <2> QED BY <2>1, <2>2, <2>3, <1>2 DEF Standing
<1>4. ASSUME id = Callback, firstNow # NoFrame
      PROVE  /\ \/ ~o.discarded /\ firstNow = r + 1
                \/ firstNow <= o.last + 1
             /\ statusNow # "CallbackTimedOut" => firstNow >= o.last + 1
             /\ ~discard /\ ~o.discarded => firstNow = r + 1
  <2>1. o.last \in Nat /\ r \in Nat /\ (~o.discarded => o.last <= r)
    <3>1. /\ o.last \in Nat /\ Len(s) \in Nat /\ Len(o.queue) \in Nat /\ o.joined = 0
      BY <1>2, <1>4 DEF Observer, Consecutive, Reported
    <3>2. r = Len(s) + Len(o.queue)
      BY <3>1 DEF Reach
    <3>3. ~o.discarded => o.last <= Len(s)
      BY <1>2, <1>4, <3>1 DEF Reported
    <3> HIDE DEF r
    <3> QED BY <3>1, <3>2, <3>3
  <2>2. CASE o.status \in {"Active", "Draining"}
    <3>1. firstNow = missing /\ statusNow = status /\ ~o.discarded
      BY <1>2, <1>4, <2>2 DEF Reported
    <3>2. CASE ~sealed /\ missing \in {NoFrame, top + 1}
      <4>1. r = top
        BY <1>2, <2>2, <3>2 DEF Standing
      <4>2. firstNow = r + 1
        BY <1>4, <3>1, <3>2, <4>1
      <4> HIDE DEF r, firstNow, statusNow
      <4> QED BY <2>1, <3>1, <4>2
    <3>3. CASE /\ discard
               /\ \/ missing = o.last + 1
                  \/ status = "CallbackTimedOut" /\ missing <= o.last + 1
      <4> HIDE DEF r, firstNow, statusNow
      <4> QED BY <2>1, <3>1, <3>3
    <3> QED BY <1>1, <3>1, <3>2, <3>3 DEF Nameable, Upcoming
  <2>3. CASE o.status \notin {"Active", "Draining"}
    <3>1. firstNow = o.first /\ statusNow = o.status
      BY <2>3
    <3>2. /\ ~o.discarded => firstNow = r + 1
          /\ o.discarded => /\ firstNow <= o.last + 1
                            /\ statusNow # "CallbackTimedOut" => firstNow = o.last + 1
      BY <1>2, <1>4, <3>1 DEF Reported
    <3> HIDE DEF r, firstNow, statusNow
    <3> QED BY <2>1, <3>2
  <2> QED BY <2>2, <2>3
<1>5. id = Callback /\ o.discarded /\ ~discard
        => firstNow = o.first /\ statusNow = o.status
  BY <1>2 DEF Reported
<1>6. failed = [o EXCEPT !.closed = TRUE, !.status = statusNow, !.first = firstNow]
  BY <1>2 DEF Failed, Observer
<1> HIDE DEF statusNow, firstNow
<1>7. /\ failed \in Observer /\ SameReport(o, failed) /\ failed.queue = o.queue
      /\ failed.status = statusNow /\ failed.closed = TRUE /\ failed.first = firstNow
      /\ failed.in_flight = o.in_flight /\ failed.discarded = o.discarded
      /\ failed.stage = o.stage
  BY <1>2, <1>3, <1>6 DEF Observer, SameReport
<1> DEFINE least == Earliest(Discarded(failed))
<1>8. /\ ~discard => d = failed
      /\ discard => d = [failed EXCEPT !.discarded = TRUE, !.queue = <<>>, !.first = least]
  BY DEF Failed
<1> HIDE DEF failed
<1>9. Discarded(failed) \subseteq Nat
  <2>1. failed.first \in Nat /\ failed.last \in Nat /\ failed.joined \in Nat
    BY <1>7 DEF Observer
  <2>2. MaxSequence \in Nat
    BY BuffersAssumption
  <2>3. Start(failed) \in Nat /\ failed.last + 1 \in Nat
    BY <2>1, <2>2 DEF Start
  <2>4. \A i \in DOMAIN failed.queue : failed.queue[i].sequence \in Nat
    <3>1. failed.queue \in Seq(Frame)
      BY <1>7 DEF Observer
    <3>2. \A i \in DOMAIN failed.queue : failed.queue[i] \in Frame
      BY <3>1
    <3> QED BY <3>2 DEF Frame
  <2>5. (IF ~failed.in_flight THEN {}
         ELSE IF failed.last = NoFrame THEN {Start(failed)}
         ELSE IF failed.last < MaxSequence THEN {failed.last + 1} ELSE {MaxSequence})
        \subseteq Nat
    BY <2>1, <2>2, <2>3
  <2>6. {failed.queue[i].sequence : i \in DOMAIN failed.queue \cap {1}} \subseteq Nat
    BY <2>4
  <2> QED BY <2>1, <2>5, <2>6 DEF Discarded
<1>10. /\ least \in Nat
       /\ least # NoFrame => least \in Discarded(failed)
       /\ \A x \in Discarded(failed) : x # NoFrame => least # NoFrame /\ least <= x
  BY <1>9, EarliestIsLeast
<1>11. id # Callback /\ least # NoFrame /\ o.stage # "gone" => least = o.joined + Len(s) + 1
  <2> SUFFICES ASSUME id # Callback, least # NoFrame, o.stage # "gone"
               PROVE  least = o.joined + Len(s) + 1
    OBVIOUS
  <2> DEFINE n == o.joined + Len(s)
             k == Len(o.queue)
  <2>1. n \in Nat /\ k \in Nat /\ r = n + k /\ DOMAIN o.queue = 1..k
    BY <1>2 DEF Consecutive, Observer, Reach
  <2>2. ~o.in_flight
    BY <1>2 DEF Told
  <2>3. /\ Discarded(failed) = {firstNow} \cup {o.queue[i].sequence : i \in (1..k) \cap {1}}
        /\ \A i \in 1..k : o.queue[i].sequence = n + i
    BY <1>2, <1>7, <2>1, <2>2 DEF Discarded, Consecutive
  <2>4. firstNow # NoFrame => firstNow = n + k + 1
    BY <1>3, <2>1
  <2> HIDE DEF n, k
  <2>5. CASE k = 0
    <3>1. Discarded(failed) = {firstNow}
      BY <2>3, <2>5
    <3> QED BY <3>1, <1>10, <2>4, <2>5, <2>1 DEF n
  <2>6. CASE k # 0
    <3>1. (1..k) \cap {1} = {1} /\ 1 \in 1..k
      BY <2>1, <2>6
    <3>2. Discarded(failed) = {firstNow, n + 1}
      BY <2>3, <3>1
    <3>3. least <= n + 1 /\ least \in {firstNow, n + 1}
      BY <3>2, <1>10, <2>1 DEF NoFrame
    <3>4. least = n + 1
      BY <3>3, <2>1, <2>4, <2>6
    <3> QED BY <3>4 DEF n
  <2> QED BY <2>5, <2>6
<1>12. ASSUME id = Callback, least # NoFrame
       PROVE  /\ least <= o.last + 1
              /\ statusNow # "CallbackTimedOut" => least = o.last + 1
  <2>1. /\ Reported(o, Len(s), Reach(o, s)) /\ (o.discarded => o.queue = <<>>)
        /\ failed.first # NoFrame => \/ ~o.discarded /\ failed.first = Reach(o, s) + 1
                                     \/ failed.first <= o.last + 1
        /\ statusNow # "CallbackTimedOut"
             => failed.first = NoFrame \/ failed.first >= o.last + 1
    BY <1>2, <1>7, <1>4, <1>12 DEF Told
  <2> HIDE DEF least, r
  <2>2. /\ least <= o.last + 1
        /\ failed.first = NoFrame \/ failed.first >= o.last + 1 => least = o.last + 1
    BY <1>2, <1>7, <1>10, <1>12, <1>1, <2>1, CallbackMisses
  <2> QED BY <2>1, <2>2
<1> HIDE DEF least
<1>13. /\ d \in Observer /\ SameReport(o, d) /\ d.status = statusNow /\ d.closed = TRUE
       /\ d.in_flight = o.in_flight /\ d.stage = o.stage
       /\ ~discard => d.queue = o.queue /\ d.discarded = o.discarded /\ d.first = firstNow
       /\ discard => d.queue = <<>> /\ d.discarded /\ d.first = least
  <2>1. CASE ~discard
    BY <1>7, <1>8, <2>1
  <2>2. CASE discard
    <3>1. d = [failed EXCEPT !.discarded = TRUE, !.queue = <<>>, !.first = least]
      BY <1>8, <2>2
    <3> HIDE DEF d
    <3>2. <<>> \in Seq(Frame)
      OBVIOUS
    <3>3. /\ d \in Observer /\ SameReport(failed, d) /\ d.status = failed.status
          /\ d.closed = failed.closed /\ d.in_flight = failed.in_flight
          /\ d.stage = failed.stage /\ d.queue = <<>> /\ d.discarded = TRUE
          /\ d.first = least
      BY <3>1, <3>2, <1>7, <1>10 DEF Observer, SameReport
    <3> QED BY <3>3, <1>7, <2>2 DEF SameReport
  <2> QED BY <2>1, <2>2
<1>14. later = Notify(d)
  BY DEF Fail
<1> HIDE DEF d
<1>15. /\ later \in Observer /\ SameReport(d, later) /\ later.queue = d.queue
       /\ later.status = statusNow /\ later.closed = TRUE /\ later.first = d.first
       /\ later.in_flight = o.in_flight /\ later.discarded = d.discarded
       /\ later.stage \in Busy => o.stage \in Busy
       /\ o.stage \notin {"armed", "asleep"} => later.stage = o.stage
  BY <1>13, <1>14, NotifyEffect DEF SameReport
<1> HIDE DEF later
<1>16. SameReport(o, later)
  BY <1>13, <1>15 DEF SameReport
<1>17. /\ Consecutive(later, s, top) /\ Reach(o, s) \in Nat
       /\ later.queue = o.queue => Reach(later, s) = r
       /\ later.queue = <<>> => Reach(later, s) = o.joined + Len(s)
  BY <1>2, <1>13, <1>15, <1>16, FramesKept DEF SameReport
<1>18. Standing(later, Reach(later, s), top, sealedNow)
  BY <1>1, <1>2, <1>3, <1>13, <1>15, <1>17 DEF Standing
<1>19. Told(later, Reach(later, s), id)
  <2>1. /\ later.error_returned => later.closed /\ later.queue = <<>>
        /\ later.discarded => later.queue = <<>>
        /\ id # Callback => ~later.in_flight
    BY <1>2, <1>13, <1>15, <1>16 DEF Told, SameReport
  <2>2. id # Callback /\ later.first # NoFrame /\ later.stage # "gone"
          => later.first = Reach(later, s) + 1
    <3>1. CASE discard
      BY <3>1, <1>11, <1>13, <1>15, <1>16, <1>17 DEF SameReport
    <3>2. CASE ~discard
      BY <3>2, <1>3, <1>13, <1>15, <1>16, <1>17 DEF SameReport
    <3> QED BY <3>1, <3>2
  <2> QED BY <2>1, <2>2 DEF Told
<1>20. id = Callback => Reported(later, Len(s), Reach(later, s))
  <2> SUFFICES ASSUME id = Callback PROVE Reported(later, Len(s), Reach(later, s))
    OBVIOUS
  <2>1. Reported(o, Len(s), r)
    BY <1>2
  <2>2. /\ later.joined = o.joined /\ later.last = o.last /\ later.stage = o.stage
        /\ later.in_flight = o.in_flight /\ later.status = statusNow
    BY <1>15, <1>16, <2>1 DEF SameReport, Reported
  <2>3. statusNow \notin {"Active", "Draining"}
    BY <1>3
  <2>4. CASE discard
    BY <1>13, <1>15, <1>12, <2>1, <2>2, <2>3, <2>4 DEF Reported
  <2>5. CASE ~discard
    <3>1. /\ later.first = firstNow /\ later.discarded = o.discarded
          /\ Reach(later, s) = r
      BY <1>13, <1>15, <1>17, <2>5
    <3>2. CASE o.discarded
      BY <1>5, <2>1, <2>2, <2>3, <2>5, <3>1, <3>2 DEF Reported
    <3>3. CASE ~o.discarded
      BY <1>4, <2>1, <2>2, <2>3, <2>5, <3>1, <3>3 DEF Reported
    <3> QED BY <3>2, <3>3
  <2> QED BY <2>4, <2>5
<1> QED BY <1>13, <1>15, <1>16, <1>17, <1>18, <1>19, <1>20 DEF Sound, later

\* The two ways in which the code fails an observer.
Discarding(o, status, missing) == Fail(o, status, missing, TRUE)
Keeping(o, status, missing) == Fail(o, status, missing, FALSE)

\* Their outcome: the observer is detached, with its queue discarded or kept.
Discards(o, later, s, top, sealed, id) ==
  /\ Sound(later, s, top, sealed, id) /\ SameReport(o, later)
  /\ later.closed /\ later.discarded /\ later.queue = <<>>
Keeps(o, later, s, top, sealed, id) ==
  /\ Sound(later, s, top, sealed, id) /\ SameReport(o, later)
  /\ later.closed /\ later.queue = o.queue /\ (o.discarded => later.discarded)

\* The same, for a failure that discards the queue.
LEMMA DiscardSound ==
  ASSUME NEW o, NEW s, NEW top \in Nat, NEW sealed \in BOOLEAN, NEW id,
         NEW sealedNow \in BOOLEAN, sealed => sealedNow, NEW status \in Faults,
         NEW missing \in Nat,
         top <= MaxSequence, Nameable(o, status, missing, top, sealed, id),
         Sound(o, s, top, sealed, id)
  PROVE  Discards(o, Discarding(o, status, missing), s, top, sealedNow, id)
<1>1. PICK yes \in BOOLEAN : yes = TRUE
  OBVIOUS
<1> DEFINE later == Fail(o, status, missing, yes)
<1>2. Failing(o, s, top, sealed, sealedNow, status, missing, yes, id)
  BY <1>1 DEF Failing
<1>3. /\ Sound(later, s, top, sealedNow, id) /\ SameReport(o, later) /\ later.closed
      /\ yes => later.discarded /\ later.queue = <<>>
  BY <1>2, AnyFailSound
<1>4. Discarding(o, status, missing) = later
  BY <1>1, Zenon DEF Discarding
<1> HIDE DEF later
<1> QED BY <1>1, <1>3, <1>4 DEF Discards

\* The same, for a failure that leaves the queue to its reader.
LEMMA KeepSound ==
  ASSUME NEW o, NEW s, NEW top \in Nat, NEW sealed \in BOOLEAN, NEW id,
         NEW sealedNow \in BOOLEAN, sealed => sealedNow, NEW status \in Faults,
         NEW missing \in Nat,
         top <= MaxSequence, Upcoming(missing, top, sealed),
         Sound(o, s, top, sealed, id)
  PROVE  Keeps(o, Keeping(o, status, missing), s, top, sealedNow, id)
<1>1. PICK no \in BOOLEAN : no = FALSE
  OBVIOUS
<1> DEFINE later == Fail(o, status, missing, no)
<1>2. Failing(o, s, top, sealed, sealedNow, status, missing, no, id)
  BY DEF Failing, Nameable
<1>3. /\ Sound(later, s, top, sealedNow, id) /\ SameReport(o, later) /\ later.closed
      /\ ~no => later.discarded = o.discarded /\ later.queue = o.queue
  BY <1>2, AnyFailSound
<1>4. Keeping(o, status, missing) = later
  BY <1>1, Zenon DEF Keeping
<1> HIDE DEF later
<1> QED BY <1>1, <1>3, <1>4 DEF Keeps

-----------------------------------------------------------------------------
(* The readers' steps keep an observer sound.                              *)

\* The reader moves between its stages, or is told the end of its stream.
LEMMA ReaderMoves ==
  ASSUME NEW o, NEW s, NEW top \in Nat, NEW sealed, NEW id, Sound(o, s, top, sealed, id),
         NEW stage \in Stages \ {"gone"}, o.stage # "gone",
         stage \in Busy => o.stage \in Busy,
         id = Callback => stage \notin {"armed", "asleep", "taking"},
         NEW returned \in BOOLEAN, returned => o.error_returned \/ (o.closed /\ o.queue = <<>>)
  PROVE  Sound([o EXCEPT !.stage = stage, !.error_returned = returned], s, top, sealed, id)
<1> DEFINE later == [o EXCEPT !.stage = stage, !.error_returned = returned]
           r == Reach(o, s)
<1>1. /\ o \in Observer /\ Consecutive(o, s, top) /\ Standing(o, r, top, sealed)
      /\ Told(o, r, id) /\ (id = Callback => Reported(o, Len(s), r))
  BY DEF Sound, Consecutive
<1>2. /\ later \in Observer /\ later.joined = o.joined /\ later.queue = o.queue
      /\ later.status = o.status /\ later.closed = o.closed /\ later.first = o.first
      /\ later.in_flight = o.in_flight /\ later.discarded = o.discarded
      /\ later.error_returned = returned /\ later.stage = stage /\ later.last = o.last
  BY <1>1 DEF Observer
<1> HIDE DEF later
<1>3. Consecutive(later, s, top) /\ Reach(later, s) = r
  BY <1>1, <1>2, FramesKept
<1>4. Standing(later, r, top, sealed)
  BY <1>1, <1>2 DEF Standing
<1>5. Told(later, r, id)
  BY <1>1, <1>2 DEF Told
<1>6. id = Callback => Reported(later, Len(s), r)
  BY <1>1, <1>2 DEF Reported
<1> QED BY <1>3, <1>4, <1>5, <1>6 DEF Sound, later

\* The callback's worker takes the head of the queue, and is busy with it.
LEMMA TakeSound ==
  ASSUME NEW o, NEW s, NEW top \in Nat, NEW sealed, Sound(o, s, top, sealed, Callback),
         o.queue # <<>>, o.stage = "taking"
  PROVE  Sound([o EXCEPT !.queue = Tail(o.queue), !.in_flight = TRUE, !.stage = "holding"],
               Append(s, Head(o.queue).sequence), top, sealed, Callback)
<1> DEFINE later == [o EXCEPT !.queue = Tail(o.queue), !.in_flight = TRUE, !.stage = "holding"]
           t == Append(s, Head(o.queue).sequence)
           r == Reach(o, s)
<1>1. /\ o \in Observer /\ Consecutive(o, s, top) /\ Standing(o, r, top, sealed)
      /\ Told(o, r, Callback) /\ Reported(o, Len(s), r)
  BY DEF Sound, Consecutive
<1>2. Tail(o.queue) \in Seq(Frame)
  BY <1>1 DEF Observer
<1>3. /\ later \in Observer /\ later.joined = o.joined /\ later.queue = Tail(o.queue)
      /\ later.status = o.status /\ later.closed = o.closed /\ later.first = o.first
      /\ later.discarded = o.discarded /\ later.error_returned = o.error_returned
      /\ later.last = o.last /\ later.in_flight = TRUE /\ later.stage = "holding"
  BY <1>1, <1>2 DEF Observer, Stages
<1> HIDE DEF later
<1>4. Consecutive(later, t, top) /\ Reach(later, t) = r /\ Len(t) = Len(s) + 1
  BY <1>1, <1>3, FrameHanded DEF Handed
<1> HIDE DEF t
<1>5. Standing(later, r, top, sealed)
  BY <1>1, <1>3 DEF Standing
<1>6. Told(later, r, Callback)
  BY <1>1, <1>3 DEF Told
<1>7. Reported(later, Len(t), r)
  <2>1. ~o.discarded /\ o.last = Len(s)
    BY <1>1 DEF Told, Reported
  <2> QED BY <1>1, <1>3, <1>4, <2>1 DEF Reported
<1> QED BY <1>4, <1>5, <1>6, <1>7 DEF Sound, later, t

\* The outcome of a frame that is received: t is the longer history.
Receiving(o, later, s, t, top, sealed, id) ==
  /\ Sound(later, t, top, sealed, id)
  /\ later.joined = o.joined /\ later.error_returned = o.error_returned
  /\ later.stage = "polling" /\ ~o.error_returned
  /\ Len(t) = Len(s) + 1 /\ o.joined + Len(s) < top

\* A subscription takes the head of the queue, which is delivered at once; the
\* last frame of a drained one completes it.
LEMMA ReceiveSound ==
  ASSUME NEW o, NEW s, NEW top \in Nat, NEW sealed, NEW id, Sound(o, s, top, sealed, id),
         o.queue # <<>>, o.stage # "gone", id # Callback
  PROVE  Receiving(o, [Ack([o EXCEPT !.queue = Tail(@)], Head(o.queue).sequence)
                         EXCEPT !.stage = "polling"],
                   s, Append(s, Head(o.queue).sequence), top, sealed, id)
<1> DEFINE frame == Head(o.queue).sequence
           later == [Ack([o EXCEPT !.queue = Tail(@)], frame) EXCEPT !.stage = "polling"]
           t == Append(s, frame)
           r == Reach(o, s)
           status == IF o.closed /\ Tail(o.queue) = <<>> /\ o.status = "Draining"
                     THEN "Completed" ELSE o.status
<1>1. /\ o \in Observer /\ Consecutive(o, s, top) /\ Standing(o, r, top, sealed)
      /\ Told(o, r, id)
  BY DEF Sound, Consecutive
<1>2. Tail(o.queue) \in Seq(Frame) /\ Head(o.queue) \in Frame /\ status \in Statuses
  BY <1>1 DEF Observer, Statuses
<1>3. frame \in Nat
  BY <1>2 DEF Frame
<1>4. later = [o EXCEPT !.queue = Tail(o.queue), !.in_flight = FALSE, !.last = frame,
                        !.status = status, !.stage = "polling"]
  BY <1>1 DEF Ack, Observer
<1>5. /\ status = "Active" <=> o.status = "Active"
      /\ status = "Draining" => o.status = "Draining"
      /\ status = "Completed" => \/ o.status = "Completed"
                                \/ (o.status = "Draining" /\ Tail(o.queue) = <<>>)
  <2>1. status \in {"Completed", o.status}
    OBVIOUS
  <2>2. status # o.status => o.status = "Draining" /\ Tail(o.queue) = <<>>
    OBVIOUS
  <2> HIDE DEF status
  <2> QED BY <2>1, <2>2
<1> HIDE DEF later, status, frame
<1>6. /\ later \in Observer /\ later.joined = o.joined /\ later.queue = Tail(o.queue)
      /\ later.status = status /\ later.closed = o.closed /\ later.first = o.first
      /\ later.discarded = o.discarded /\ later.error_returned = o.error_returned
      /\ later.in_flight = FALSE /\ later.stage = "polling"
  BY <1>1, <1>2, <1>3, <1>4 DEF Observer, Stages
<1>7. /\ Consecutive(later, t, top) /\ Reach(later, t) = r
      /\ Len(t) = Len(s) + 1 /\ o.joined + Len(s) < top
  BY <1>1, <1>6, FrameHanded DEF frame, Handed
<1> HIDE DEF t
<1>8. o.status # "Completed" /\ ~o.error_returned /\ ~o.discarded
  BY <1>1 DEF Standing, Told
<1>9. Standing(later, r, top, sealed)
  BY <1>1, <1>5, <1>6, <1>8 DEF Standing
<1>10. Told(later, r, id)
  BY <1>1, <1>6, <1>8 DEF Told
<1>11. Receiving(o, later, s, t, top, sealed, id)
  BY <1>6, <1>7, <1>8, <1>9, <1>10 DEF Sound, Receiving
<1> QED BY <1>11 DEF later, t, frame

\* The outcome of a callback that returns, or panics.
Returned(o, later, s, top, sealed) ==
  /\ Sound(later, s, top, sealed, Callback)
  /\ o.discarded => later.last = o.last /\ later.discarded
  /\ later.queue = o.queue /\ (o.closed => later.closed)
  /\ later.joined = o.joined /\ later.error_returned = o.error_returned
  /\ later.stage = "taking" /\ later.last >= o.last
Panicking(o, sequence) ==
  [Fail(o, "HandlerPanicked", sequence, TRUE) EXCEPT !.stage = "stopped"]
Panicked(o, later, s, top, sealed) ==
  /\ Sound(later, s, top, sealed, Callback)
  /\ later.joined = o.joined /\ later.last = o.last /\ later.stage = "stopped"
  /\ later.error_returned = o.error_returned

\* The callback has returned: unless it was discarded its frame is acknowledged,
\* and the last frame of a drained run completes it.
LEMMA ReturnSound ==
  ASSUME NEW o, NEW s, NEW top \in Nat, NEW sealed, Sound(o, s, top, sealed, Callback),
         o.stage = "handling"
  PROVE  Returned(o, [Acknowledge(o, Last(s)) EXCEPT !.stage = "taking"], s, top, sealed)
<1> DEFINE later == [Acknowledge(o, Last(s)) EXCEPT !.stage = "taking"]
           r == Reach(o, s)
           status == IF ~o.discarded /\ o.closed /\ o.queue = <<>> /\ o.status = "Draining"
                     THEN "Completed" ELSE o.status
           last == IF o.discarded THEN o.last ELSE Last(s)
<1>1. /\ o \in Observer /\ Consecutive(o, s, top) /\ Standing(o, r, top, sealed)
      /\ Told(o, r, Callback) /\ Reported(o, Len(s), r)
  BY DEF Sound, Consecutive
<1>2. status \in Statuses /\ Last(s) \in Nat /\ Last(s) = Len(s)
  <2>1. s \in Seq(Nat) /\ s # <<>>
    BY <1>1 DEF Consecutive, Busy
  <2>2. Len(s) \in DOMAIN s /\ Last(s) = s[Len(s)] /\ Len(s) \in Nat
    BY <2>1 DEF Last
  <2>3. Last(s) = o.joined + Len(s) /\ o.joined = 0
    BY <1>1, <2>2 DEF Consecutive, Reported
  <2> QED BY <2>2, <2>3, <1>1 DEF Observer, Statuses
<1>3. /\ last \in Nat /\ (o.discarded => last = o.last) /\ (~o.discarded => last = Len(s))
      /\ last >= o.last
  <2>1. o.last \in Nat
    BY <1>1 DEF Observer
  <2>2. ~o.discarded => o.last + 1 = Len(s)
    BY <1>1 DEF Reported, Busy
  <2> QED BY <1>2, <2>1, <2>2
<1>4. later = [o EXCEPT !.in_flight = FALSE, !.last = last, !.status = status,
                        !.stage = "taking"]
  <2>1. CASE o.discarded
    BY <1>1, <2>1 DEF Acknowledge, Observer
  <2>2. CASE ~o.discarded
    BY <1>1, <2>2 DEF Acknowledge, Ack, Observer
  <2> QED BY <2>1, <2>2
<1>5. /\ status = "Active" <=> o.status = "Active"
      /\ status = "Draining" => o.status = "Draining"
      /\ status = "Completed" => \/ o.status = "Completed"
                                \/ (o.status = "Draining" /\ o.queue = <<>>)
      /\ status # o.status => o.status = "Draining"
  <2>1. status \in {"Completed", o.status}
    OBVIOUS
  <2>2. status # o.status => o.status = "Draining" /\ o.queue = <<>>
    OBVIOUS
  <2> HIDE DEF status
  <2> QED BY <2>1, <2>2
<1> HIDE DEF later, status, last
<1>6. /\ later \in Observer /\ later.joined = o.joined /\ later.queue = o.queue
      /\ later.status = status /\ later.closed = o.closed /\ later.first = o.first
      /\ later.discarded = o.discarded /\ later.error_returned = o.error_returned
      /\ later.last = last /\ later.stage = "taking" /\ later.in_flight = FALSE
  BY <1>1, <1>2, <1>3, <1>4 DEF Observer, Stages
<1>7. Consecutive(later, s, top) /\ Reach(later, s) = r
  BY <1>1, <1>6, FramesKept DEF Busy
<1>8. Standing(later, r, top, sealed)
  BY <1>1, <1>5, <1>6 DEF Standing
<1>9. Told(later, r, Callback)
  BY <1>1, <1>6 DEF Told
<1>10. Reported(later, Len(s), r)
  BY <1>1, <1>3, <1>5, <1>6 DEF Reported, Busy
<1>11. Sound(later, s, top, sealed, Callback)
  BY <1>7, <1>8, <1>9, <1>10 DEF Sound
<1>12. Returned(o, later, s, top, sealed)
  BY <1>3, <1>6, <1>11 DEF Returned
<1> QED BY <1>12 DEF later

\* The callback panicked, and its thread is over.
LEMMA PanicSound ==
  ASSUME NEW o, NEW s, NEW top \in Nat, NEW sealed \in BOOLEAN, Sound(o, s, top, sealed, Callback),
         o.stage = "handling", top <= MaxSequence
  PROVE  Panicked(o, Panicking(o, Last(s)), s, top, sealed)
<1> DEFINE missing == Last(s)
           d == Fail(o, "HandlerPanicked", missing, TRUE)
           later == [d EXCEPT !.stage = "stopped"]
<1>1. missing \in Nat /\ Nameable(o, "HandlerPanicked", missing, top, sealed, Callback)
  <2>1. s \in Seq(Nat) /\ s # <<>> /\ Reported(o, Len(s), Reach(o, s)) /\ o \in Observer
    BY DEF Sound, Consecutive, Busy
  <2>2. Len(s) \in DOMAIN s /\ Last(s) = s[Len(s)] /\ Len(s) \in Nat
    BY <2>1 DEF Last
  <2>3. Last(s) = Len(s)
    BY <2>1, <2>2 DEF Sound, Consecutive, Reported
  <2>4. ~o.discarded => Last(s) = o.last + 1
    BY <2>1, <2>3 DEF Reported, Busy
  <2>5. missing \in Nat /\ (~o.discarded => missing = o.last + 1)
    BY <2>2, <2>3, <2>4
  <2> HIDE DEF missing
  <2> QED BY <2>5, Zenon DEF Nameable, Upcoming
<1>2. "HandlerPanicked" \in Faults
  BY DEF Faults, Statuses
<1> HIDE DEF missing
<1>3. /\ Sound(d, s, top, sealed, Callback) /\ SameReport(o, d) /\ d.stage = o.stage
  <2>1. d = Discarding(o, "HandlerPanicked", missing)
    BY DEF Discarding
  <2> HIDE DEF d
  <2>2. Discards(o, d, s, top, sealed, Callback)
    BY <1>1, <1>2, <2>1, DiscardSound
  <2> QED BY <2>2 DEF Discards, SameReport
<1> HIDE DEF d
<1>4. d \in Observer
  BY <1>3 DEF Sound, Consecutive
<1>5. later = [d EXCEPT !.stage = "stopped", !.error_returned = d.error_returned]
  BY <1>4 DEF Observer
<1>6. d.error_returned \in BOOLEAN /\ "stopped" \in Stages \ {"gone"}
      /\ "stopped" \notin Busy /\ "stopped" \notin {"armed", "asleep", "taking"}
  BY <1>4 DEF Observer, Stages, Busy
<1>7. Sound(later, s, top, sealed, Callback)
  <2>1. d.stage # "gone"
    BY <1>3
  <2> HIDE DEF later
  <2> QED BY <1>3, <1>5, <1>6, <2>1, ReaderMoves
<1>8. /\ later.joined = d.joined /\ later.last = d.last /\ later.stage = "stopped"
      /\ later.error_returned = d.error_returned
  BY <1>4 DEF Observer
<1>9. later.joined = o.joined /\ later.last = o.last /\ later.error_returned = o.error_returned
  BY <1>3, <1>8 DEF SameReport
<1>10. later = Panicking(o, Last(s))
  BY DEF d, missing, Panicking
<1> HIDE DEF later
<1> QED BY <1>7, <1>8, <1>9, <1>10 DEF Panicked

\* The outcome of a reader that is told the end of its stream: the error, once,
\* and then or else the end, which without an error means that it has seen all.
Ends(o, later, s, top, sealed, id) ==
  /\ Sound(later, s, top, sealed, id)
  /\ later.joined = o.joined /\ later.last = o.last /\ later.queue = o.queue
  /\ o.discarded => later.discarded
  /\ o.closed => later.closed
  /\ \/ /\ ~o.error_returned /\ later.error_returned /\ later.stage # "ended"
     \/ /\ later.stage = "ended"
        /\ o.error_returned \/ (sealed /\ o.joined + Len(s) = top)

\* The end as the code reports it; the reader stays, or stops, after an error.
Ending(o, later) ==
  \/ CleanEnd(o) /\ later = [o EXCEPT !.stage = "ended"]
  \/ \E stage \in {"stopped", "polling"} :
       ~CleanEnd(o) /\ later = [o EXCEPT !.stage = stage, !.error_returned = TRUE]

\* A reader at the end of its stream is told so.
LEMMA EndSound ==
  ASSUME NEW o, NEW later, NEW s, NEW top \in Nat, NEW sealed, NEW id,
         Sound(o, s, top, sealed, id), o.stage \in Stages \ {"ended", "gone"},
         o.queue = <<>>, o.closed, Ending(o, later)
  PROVE  Ends(o, later, s, top, sealed, id)
<1>1. /\ o \in Observer /\ Standing(o, Reach(o, s), top, sealed) /\ o.stage # "gone"
      /\ Consecutive(o, s, top)
  BY DEF Sound, Consecutive
<1>2. PICK stage \in {"ended", "stopped", "polling"}, returned \in BOOLEAN :
        /\ later = [o EXCEPT !.stage = stage, !.error_returned = returned]
        /\ \/ CleanEnd(o) /\ stage = "ended" /\ returned = o.error_returned
           \/ ~CleanEnd(o) /\ stage # "ended" /\ returned = TRUE
  <2>1. CASE CleanEnd(o) /\ later = [o EXCEPT !.stage = "ended"]
    <3>1. later = [o EXCEPT !.stage = "ended", !.error_returned = o.error_returned]
      BY <1>1, <2>1 DEF Observer
    <3>2. o.error_returned \in BOOLEAN /\ "ended" \in {"ended", "stopped", "polling"}
      BY <1>1 DEF Observer
    <3> QED BY <2>1, <3>1, <3>2
  <2>2. CASE \E stage \in {"stopped", "polling"} :
               ~CleanEnd(o) /\ later = [o EXCEPT !.stage = stage, !.error_returned = TRUE]
    <3>1. PICK stage \in {"stopped", "polling"} :
            ~CleanEnd(o) /\ later = [o EXCEPT !.stage = stage, !.error_returned = TRUE]
      BY <2>2
    <3>2. stage # "ended" /\ TRUE \in BOOLEAN
      BY <3>1
    <3> QED BY <3>1, <3>2
  <2> QED BY <2>1, <2>2 DEF Ending
<1>3. Sound(later, s, top, sealed, id)
  <2>1. Sound([o EXCEPT !.stage = stage, !.error_returned = returned], s, top, sealed, id)
    <3>1. /\ stage \in Stages \ {"gone"} /\ stage \notin Busy
          /\ stage \notin {"armed", "asleep", "taking"}
      BY DEF Stages, Busy
    <3>2. returned => o.error_returned \/ (o.closed /\ o.queue = <<>>)
      OBVIOUS
    <3> QED BY <1>1, <3>1, <3>2, ReaderMoves
  <2> QED BY <1>2, <2>1
<1>4. /\ later.joined = o.joined /\ later.last = o.last /\ later.queue = o.queue
      /\ later.discarded = o.discarded /\ later.closed = o.closed
      /\ later.stage = stage /\ later.error_returned = returned
  BY <1>1, <1>2 DEF Observer
<1>5. CASE CleanEnd(o)
  <2>1. o.error_returned \/ o.status \in {"Completed", "Draining"}
    BY <1>5 DEF CleanEnd
  <2>2. o.joined + Len(s) = Reach(o, s)
    BY <1>1 DEF Reach, Consecutive, Observer
  <2>3. o.error_returned \/ (sealed /\ o.joined + Len(s) = top)
    BY <1>1, <2>1, <2>2 DEF Standing
  <2> QED BY <1>2, <1>3, <1>4, <1>5, <2>3 DEF Ends
<1>6. CASE ~CleanEnd(o)
  <2>1. ~o.error_returned
    BY <1>6 DEF CleanEnd
  <2> QED BY <1>2, <1>3, <1>4, <1>6, <2>1 DEF Ends
<1> QED BY <1>5, <1>6

\* The receiver is dropped with whatever it still held.
LEMMA DisconnectSound ==
  ASSUME NEW o, NEW s, NEW top \in Nat, NEW sealed, NEW id, Sound(o, s, top, sealed, id),
         id # Callback
  PROVE  Sound([o EXCEPT !.queue = <<>>, !.closed = TRUE, !.stage = "gone",
                  !.status = IF @ \in {"Active", "Draining"} THEN "ClientClosed" ELSE @],
               s, top, sealed, id)
<1> DEFINE status == IF o.status \in {"Active", "Draining"} THEN "ClientClosed" ELSE o.status
           later == [o EXCEPT !.queue = <<>>, !.closed = TRUE, !.stage = "gone",
                       !.status = IF @ \in {"Active", "Draining"} THEN "ClientClosed" ELSE @]
           r == Reach(o, s)
<1>1. /\ o \in Observer /\ Consecutive(o, s, top) /\ Standing(o, r, top, sealed)
      /\ Told(o, r, id)
  BY DEF Sound, Consecutive
<1>2. /\ status \in Statuses \ {"Active", "Draining"} /\ <<>> \in Seq(Frame)
      /\ status = "Completed" => o.status = "Completed"
  BY <1>1 DEF Observer, Statuses
<1>3. later = [o EXCEPT !.queue = <<>>, !.closed = TRUE, !.stage = "gone", !.status = status]
  BY <1>1 DEF Observer
<1> HIDE DEF later, status
<1>4. /\ later \in Observer /\ later.joined = o.joined /\ later.queue = <<>>
      /\ later.status = status /\ later.closed = TRUE /\ later.first = o.first
      /\ later.in_flight = o.in_flight /\ later.stage = "gone"
  BY <1>1, <1>2, <1>3 DEF Observer, Stages
<1>5. /\ Consecutive(later, s, top)
      /\ later.queue = o.queue => Reach(later, s) = r
  BY <1>1, <1>4, FramesKept DEF Busy
<1>6. Standing(later, Reach(later, s), top, sealed)
  <2>1. status = "Completed" => sealed /\ r = top /\ o.queue = <<>>
    BY <1>1, <1>2 DEF Standing
  <2> QED BY <2>1, <1>2, <1>4, <1>5 DEF Standing
<1>7. Told(later, Reach(later, s), id)
  BY <1>1, <1>4 DEF Told
<1>8. Sound(later, s, top, sealed, id)
  BY <1>5, <1>6, <1>7 DEF Sound
<1> QED BY <1>8 DEF later

-----------------------------------------------------------------------------
(* The invariant, and what a step does to the streams.                     *)

\* Nothing that id's reader can tell has changed.
Kept(id) ==
  /\ observers'[id].joined = observers[id].joined
  /\ observers'[id].error_returned = observers[id].error_returned
  /\ observers'[id].stage = "ended" <=> observers[id].stage = "ended"
  /\ seen'[id] = seen[id]

Untold(id) == observers[id].stage # "ended" /\ ~observers[id].error_returned

\* The kinds of steps: the hub moves, an observer joins, or one reader receives
\* a frame or is told how its stream ended.
HubMoves ==
  /\ \A id \in Ids : Kept(id)
  /\ Ids' = Ids
  /\ \/ UNCHANGED <<published, closed>>
     \/ ~closed /\ published' = published + 1
     \/ closed' = TRUE /\ UNCHANGED published
Joins(new) ==
  /\ \A id \in Ids : Kept(id)
  /\ new \notin Ids /\ Ids' = Ids \cup {new}
  /\ ~closed /\ UNCHANGED <<published, closed>>
  /\ observers'[new].joined = published /\ seen'[new] = <<>>
  /\ observers'[new].stage # "ended" /\ ~observers'[new].error_returned
Receives(reader) ==
  /\ \A id \in Ids \ {reader} : Kept(id)
  /\ Ids' = Ids /\ UNCHANGED <<published, closed>>
  /\ observers'[reader].joined = observers[reader].joined
  /\ Len(seen'[reader]) = Len(seen[reader]) + 1
  /\ observers[reader].joined + Len(seen[reader]) < published
  /\ Untold(reader) /\ Untold(reader)'
IsTold(reader) ==
  /\ \A id \in Ids \ {reader} : Kept(id)
  /\ Ids' = Ids /\ UNCHANGED <<published, closed>>
  /\ observers'[reader].joined = observers[reader].joined /\ seen'[reader] = seen[reader]
  /\ observers[reader].stage # "ended"
  /\ \/ /\ Untold(reader)
        /\ observers'[reader].error_returned /\ observers'[reader].stage # "ended"
     \/ /\ observers'[reader].stage = "ended"
        /\ \/ observers[reader].error_returned
           \/ closed /\ observers[reader].joined + Len(seen[reader]) = published
Effect ==
  \/ HubMoves
  \/ \E id \in Nat : Joins(id)
  \/ \E id \in Ids : Receives(id) \/ IsTold(id)

\* What a step of one operation has to show.
Good == StreamInv' /\ Effect /\ CallbackQuiet

\* An observer that has just joined.
LEMMA NewSound ==
  ASSUME NEW id, NEW sealed \in BOOLEAN, ~sealed, published \in Nat,
         NEW stage \in {"taking", "stopped", "polling"}, id = Callback => published = 0
  PROVE  Sound(NewObserver(stage), <<>>, published, sealed, id)
<1> DEFINE o == NewObserver(stage)
<1>1. /\ o \in Observer /\ o.joined = published /\ o.queue = <<>> /\ o.status = "Active"
      /\ ~o.closed /\ o.first = NoFrame /\ ~o.in_flight /\ ~o.discarded /\ ~o.error_returned
      /\ o.stage \notin Busy /\ o.stage \notin {"armed", "asleep"} /\ o.last = 0
  BY DEF NewObserver, Observer, Statuses, Stages, Busy, NoFrame
<1> HIDE DEF o
<1>2. <<>> \in Seq(Nat) /\ Len(<<>>) = 0 /\ DOMAIN <<>> = {}
  OBVIOUS
<1>3. Reach(o, <<>>) = published
  BY <1>1, <1>2 DEF Reach
<1>4. Consecutive(o, <<>>, published)
  BY <1>1, <1>2, <1>3 DEF Consecutive
<1>5. Standing(o, published, published, sealed)
  BY <1>1 DEF Standing
<1>6. Told(o, published, id)
  BY <1>1 DEF Told
<1>7. id = Callback => Reported(o, Len(<<>>), published)
  BY <1>1, <1>2 DEF Reported
<1>8. Sound(o, <<>>, published, sealed, id)
  BY <1>3, <1>4, <1>5, <1>6, <1>7 DEF Sound
<1> QED BY <1>8 DEF o

\* The invariant holds initially, whether or not the callback's thread started.
LEMMA InitInv == Init => StreamInv
<1> SUFFICES ASSUME Init PROVE StreamInv
  OBVIOUS
<1>1. /\ published = 0 /\ subscriptions = 0 /\ closed \in BOOLEAN /\ ~closed
      /\ owner = "running" /\ late = 0
  BY DEF Init, NoFrame
<1>2. 2..(subscriptions + 1) = {}
  BY <1>1
<1>3. Ids = IF HasCallback THEN {Callback} ELSE {}
  BY <1>2 DEF Ids
<1>4. DOMAIN observers = Ids /\ DOMAIN seen = Ids
  BY <1>3, Zenon DEF Init
<1>5. HubOK
  BY <1>1, <1>4, BuffersAssumption DEF HubOK, Owners
<1>6. ASSUME NEW id \in Ids PROVE Sound(observers[id], seen[id], published, closed, id)
  <2>1. seen[id] = <<>>
    BY <1>3, <1>6, Zenon DEF Init
  <2>2. id = Callback
    BY <1>3, <1>6
  <2>3. \/ observers[id] = NewObserver("taking")
        \/ observers[id] = Fail(NewObserver("stopped"), "WorkerUnavailable", NoFrame, TRUE)
    BY <1>3, <1>6, Zenon DEF Init
  <2>4. \A stage \in {"taking", "stopped"} :
          Sound(NewObserver(stage), <<>>, published, closed, id)
    BY <1>1, NewSound
  <2>5. CASE observers[id] = NewObserver("taking")
    BY <2>1, <2>4, <2>5
  <2>6. CASE observers[id] = Discarding(NewObserver("stopped"), "WorkerUnavailable", NoFrame)
    <3> DEFINE o == NewObserver("stopped")
    <3>1. Sound(o, <<>>, published, closed, id)
      BY <2>4
    <3>2. "WorkerUnavailable" \in Faults /\ NoFrame \in Nat /\ published \in Nat
      BY <1>1 DEF Faults, Statuses, NoFrame
    <3> HIDE DEF o
    <3>4. /\ Nameable(o, "WorkerUnavailable", NoFrame, published, closed, id)
          /\ published <= MaxSequence
      BY <1>1, BuffersAssumption DEF Nameable, Upcoming
    <3>3. Discards(o, Discarding(o, "WorkerUnavailable", NoFrame), <<>>, published, closed, id)
      BY <1>1, <2>2, <3>1, <3>2, <3>4, DiscardSound
    <3> QED BY <2>1, <2>6, <3>3 DEF o, Discards
  <2> QED BY <2>3, <2>5, <2>6 DEF Discarding
<1>7. CallbackOver /\ LateOK
  BY <1>1 DEF CallbackOver, LateOK
<1> QED BY <1>5, <1>6, <1>7 DEF StreamInv, ObserversSound

\* A step of the hub that keeps every observer sound.
LEMMA HubStep ==
  ASSUME StreamInv, published' \in 0..MaxSequence, closed' \in BOOLEAN, owner' \in Owners,
         UNCHANGED <<subscriptions, late, seen>>, DOMAIN observers' = DOMAIN observers,
         \A id \in Ids : /\ Sound(observers'[id], seen[id], published', closed', id)
                         /\ SameReport(observers[id], observers'[id]),
         CallbackOver', owner' = "expired" => owner = "expired"
  PROVE  /\ StreamInv' /\ Ids' = Ids /\ \A id \in Ids : Kept(id)
         /\ CallbackQuiet
<1>1. Ids' = Ids
  BY DEF Ids
<1>2. HubOK'
  BY <1>1 DEF StreamInv, HubOK
<1>3. ObserversSound'
  BY <1>1 DEF ObserversSound
<1>4. \A id \in Ids : Kept(id)
  BY DEF Kept, SameReport
<1>5. HasCallback => Callback \in Ids
  BY DEF Ids
<1>6. CallbackQuiet
  BY <1>5 DEF CallbackQuiet, SameReport
<1>7. LateOK'
  BY <1>5 DEF StreamInv, LateOK, SameReport
<1> QED BY <1>1, <1>2, <1>3, <1>4, <1>6, <1>7 DEF StreamInv

\* A step of one observer.
LEMMA ObserverStep ==
  ASSUME StreamInv, NEW reader \in Ids, UNCHANGED <<hubVars, late>>, owner' \in Owners,
         DOMAIN observers' = DOMAIN observers, DOMAIN seen' = DOMAIN seen,
         \A id \in Ids \ {reader} : observers'[id] = observers[id] /\ seen'[id] = seen[id],
         Sound(observers'[reader], seen'[reader], published, closed, reader), CallbackOver',
         owner' = "expired" => owner = "expired",
         reader = Callback => observers'[reader].last >= observers[reader].last
  PROVE  StreamInv' /\ Ids' = Ids /\ \A id \in Ids \ {reader} : Kept(id)
<1>1. Ids' = Ids /\ UNCHANGED <<published, closed, subscriptions>>
  BY DEF Ids, hubVars
<1>2. HubOK'
  BY <1>1 DEF StreamInv, HubOK
<1>3. ObserversSound'
  BY <1>1 DEF StreamInv, ObserversSound
<1>4. \A id \in Ids \ {reader} : Kept(id)
  BY DEF Kept
<1>5. LateOK'
  <2> SUFFICES ASSUME owner = "expired", HasCallback
               PROVE  late <= observers'[Callback].last + 1
    BY DEF StreamInv, LateOK
  <2>1. Callback \in Ids /\ late <= observers[Callback].last + 1 /\ late \in Nat
    BY DEF StreamInv, LateOK, HubOK, Ids
  <2>2. observers[Callback].last \in Nat /\ observers'[Callback].last \in Nat
    <3>1. /\ Sound(observers[Callback], seen[Callback], published, closed, Callback)
          /\ Sound(observers'[Callback], seen'[Callback], published', closed', Callback)
      BY <1>1, <1>3, <2>1 DEF StreamInv, ObserversSound
    <3> QED BY <3>1 DEF Sound, Consecutive, Observer
  <2>3. observers'[Callback].last >= observers[Callback].last
    <3>1. CASE reader = Callback
      BY <3>1
    <3>2. CASE reader # Callback
      BY <2>1, <2>2, <3>2
    <3> QED BY <3>1, <3>2
  <2> QED BY <2>1, <2>2, <2>3
<1> QED BY <1>1, <1>2, <1>3, <1>4, <1>5 DEF StreamInv

\* What the invariant says of the hub, as the steps use it.
LEMMA HubFacts ==
  ASSUME StreamInv
  PROVE  /\ published \in Nat /\ published <= MaxSequence /\ MaxSequence \in Nat
         /\ closed \in BOOLEAN /\ subscriptions \in Nat /\ owner \in Owners /\ late \in Nat
         /\ DOMAIN observers = Ids /\ DOMAIN seen = Ids
         /\ \A id \in Ids : Sound(observers[id], seen[id], published, closed, id)
         /\ HasCallback => Callback \in Ids
         /\ \A id \in Subscribers : id \in Ids /\ id # Callback
<1>1. MaxSequence \in Nat /\ MaxSubscriptions \in Nat
  BY BuffersAssumption
<1> QED BY <1>1 DEF StreamInv, HubOK, ObserversSound, Ids, Subscribers

\* subscribe.
LEMMA SubscribeGood == StreamInv /\ Subscribe => Good
<1> SUFFICES ASSUME StreamInv, Subscribe PROVE Good
  OBVIOUS
<1> DEFINE new == subscriptions + 2
<1>1. /\ ~closed /\ subscriptions < MaxSubscriptions
      /\ subscriptions' = subscriptions + 1 /\ UNCHANGED <<published, closed, owner, late>>
      /\ observers' = [other \in DOMAIN observers \cup {new} |->
                         IF other = new THEN NewObserver("polling") ELSE observers[other]]
      /\ seen' = [other \in DOMAIN seen \cup {new} |->
                    IF other = new THEN <<>> ELSE seen[other]]
  BY Zenon DEF Subscribe
<1>2. /\ new \in Nat /\ new \notin Ids /\ new # Callback /\ Ids' = Ids \cup {new}
  <2>1. subscriptions \in Nat /\ new = subscriptions + 2
    BY HubFacts
  <2>2. 2..(subscriptions' + 1) = 2..(subscriptions + 1) \cup {new}
    BY <1>1, <2>1
  <2> QED BY <2>1, <2>2 DEF Ids, Callback
<1> HIDE DEF new
<1>3. /\ DOMAIN observers' = Ids' /\ DOMAIN seen' = Ids'
      /\ observers'[new] = NewObserver("polling") /\ seen'[new] = <<>>
      /\ \A id \in Ids : observers'[id] = observers[id] /\ seen'[id] = seen[id]
  BY <1>1, <1>2, HubFacts
<1>4. HubOK'
  <2>1. subscriptions' \in 0..MaxSubscriptions
    BY <1>1, HubFacts, BuffersAssumption
  <2>2. HubOK
    BY DEF StreamInv
  <2> QED BY <2>1, <2>2, <1>1, <1>3 DEF HubOK
<1>5. Sound(NewObserver("polling"), <<>>, published, closed, new)
  BY <1>1, <1>2, HubFacts, NewSound
<1>6. ObserversSound'
  BY <1>1, <1>2, <1>3, <1>5, HubFacts DEF ObserversSound
<1>7. HasCallback => /\ Callback \in Ids /\ observers'[Callback] = observers[Callback]
                     /\ seen'[Callback] = seen[Callback]
  BY <1>3, HubFacts
<1>8. CallbackOver' /\ LateOK' /\ CallbackQuiet
  BY <1>1, <1>7 DEF StreamInv, CallbackOver, LateOK, CallbackQuiet
<1>9. Joins(new)
  <2>1. /\ NewObserver("polling").joined = published
        /\ NewObserver("polling").stage # "ended" /\ ~NewObserver("polling").error_returned
    BY DEF NewObserver
  <2>2. \A id \in Ids : Kept(id)
    BY <1>3 DEF Kept
  <2> QED BY <1>1, <1>2, <1>3, <2>1, <2>2 DEF Joins
<1> QED BY <1>2, <1>4, <1>6, <1>8, <1>9 DEF Good, Effect, StreamInv

\* publish: every observer gets the frame or misses it, and the terminal frame
\* closes them all.
LEMMA PublishGood ==
  ASSUME StreamInv, NEW bytes \in Sizes, NEW terminal \in BOOLEAN, Publish(bytes, terminal),
         owner' \in Owners, owner' # "returned" \/ (owner = "returned" /\ ~terminal),
         owner' = "expired" => owner = "expired"
  PROVE  Good
<1> DEFINE frame == [sequence |-> published + 1, bytes |-> bytes]
           pushed(id) == Push(observers[id], Buffers[id], frame)
<1>1. /\ ~closed /\ published < MaxSequence /\ published' = published + 1
      /\ closed' = terminal /\ UNCHANGED <<subscriptions, late, seen>>
      /\ observers' = [id \in DOMAIN observers |->
                         IF terminal THEN Close(pushed(id)) ELSE pushed(id)]
  BY Zenon DEF Publish
<1>2. frame \in Frame /\ frame.sequence = published + 1
  BY HubFacts, BuffersAssumption DEF Frame
<1> HIDE DEF frame
<1>3. ASSUME NEW id \in Ids
      PROVE  /\ Sound(pushed(id), seen[id], published', closed, id)
             /\ SameReport(observers[id], pushed(id))
             /\ observers[id].closed => pushed(id) = observers[id]
  BY <1>1, <1>2, HubFacts, PushSound
<1> HIDE DEF pushed
<1>4. ASSUME NEW id \in Ids
      PROVE  /\ Sound(observers'[id], seen[id], published', closed', id)
             /\ SameReport(observers[id], observers'[id])
             /\ ~terminal => observers'[id] = pushed(id)
  <2>1. CASE ~terminal
    <3>1. observers'[id] = pushed(id) /\ closed' = closed
      BY <1>1, <2>1, HubFacts
    <3> QED BY <3>1, <1>3
  <2>2. CASE terminal
    <3>1. observers'[id] = Close(pushed(id))
      BY <1>1, <2>2, HubFacts
    <3>2. published' \in Nat /\ closed' \in BOOLEAN /\ closed'
      BY <1>1, <2>2, HubFacts
    <3>3. /\ Sound(Close(pushed(id)), seen[id], published', closed', id)
          /\ SameReport(pushed(id), Close(pushed(id)))
      <4>1. PICK p : p = pushed(id)
        OBVIOUS
      <4>2. /\ Sound(p, seen[id], published', closed, id) /\ ~closed /\ closed \in BOOLEAN
        BY <1>1, <1>3, <4>1, HubFacts
      <4>3. Sound(Close(p), seen[id], published', closed', id) /\ SameReport(p, Close(p))
        BY <3>2, <4>2, CloseSound
      <4> QED BY <4>1, <4>3
    <3> QED BY <1>3, <2>2, <3>1, <3>3 DEF SameReport
  <2> QED BY <2>1, <2>2
<1>5. CallbackOver'
  <2> SUFFICES ASSUME owner' = "returned", HasCallback
               PROVE  \/ observers'[Callback].stage \in {"stopped", "ended"}
                      \/ observers'[Callback].discarded /\ observers'[Callback].queue = <<>>
                         /\ observers'[Callback].closed
    BY DEF CallbackOver
  <2>1. owner = "returned" /\ ~terminal /\ Callback \in Ids
    BY HubFacts
  <2>2. observers'[Callback] = pushed(Callback)
    BY <1>4, <2>1
  <2>3. CASE observers[Callback].stage \in {"stopped", "ended"}
    BY <2>1, <2>3, <1>4 DEF SameReport
  <2>4. CASE observers[Callback].closed
    BY <2>1, <2>2, <2>4, <1>3 DEF StreamInv, CallbackOver
  <2> QED BY <2>1, <2>3, <2>4 DEF StreamInv, CallbackOver
<1>6. DOMAIN observers' = DOMAIN observers
  BY <1>1
<1>7. published' \in 0..MaxSequence
  BY <1>1, HubFacts
<1>8. /\ StreamInv' /\ Ids' = Ids /\ \A id \in Ids : Kept(id)
      /\ CallbackQuiet
  BY <1>1, <1>4, <1>5, <1>6, <1>7, HubStep
<1> QED BY <1>1, <1>8 DEF Good, Effect, HubMoves

\* There is no number left.
LEMMA ExhaustGood ==
  ASSUME StreamInv, Exhaust, owner' \in Owners, owner' # "returned" \/ owner = "returned",
         owner' = "expired" => owner = "expired"
  PROVE  Good
<1>1. /\ ~closed /\ closed' = TRUE /\ UNCHANGED <<published, subscriptions, late, seen>>
      /\ observers' = [id \in DOMAIN observers |->
                         Keeping(observers[id], "SequenceExhausted", NoFrame)]
  BY Zenon DEF Exhaust, Keeping
<1>2. "SequenceExhausted" \in Faults /\ NoFrame \in Nat
  BY DEF Faults, Statuses, NoFrame
<1>3. closed' /\ closed' \in BOOLEAN
  BY <1>1
<1>4. ASSUME NEW id \in Ids
      PROVE  /\ Sound(observers'[id], seen[id], published, closed', id)
             /\ SameReport(observers[id], observers'[id])
             /\ observers'[id].closed /\ observers'[id].queue = observers[id].queue
             /\ observers[id].discarded => observers'[id].discarded
  <2>1. observers'[id] = Keeping(observers[id], "SequenceExhausted", NoFrame)
    BY <1>1, HubFacts
  <2>2. NoFrame \in {NoFrame, published + 1} /\ ~closed
    BY <1>1
  <2>3. /\ published \in Nat /\ closed \in BOOLEAN
        /\ Sound(observers[id], seen[id], published, closed, id)
    BY HubFacts
  <2>4. Keeps(observers[id], observers'[id], seen[id], published, closed', id)
    <3>1. /\ Upcoming(NoFrame, published, closed)
          /\ published <= MaxSequence
      BY <2>2, HubFacts DEF Upcoming
    <3> QED BY <1>2, <1>3, <2>1, <2>3, <3>1, KeepSound
  <2> QED BY <2>4 DEF Keeps
<1>5. CallbackOver'
  <2>1. HasCallback => Callback \in Ids
    BY HubFacts
  <2> QED BY <1>1, <1>4, <2>1 DEF StreamInv, CallbackOver, SameReport
<1>6. DOMAIN observers' = DOMAIN observers
  BY <1>1
<1>7. published' \in 0..MaxSequence /\ UNCHANGED <<published, subscriptions, late, seen>>
  BY <1>1, HubFacts
<1>8. \A id \in Ids : Sound(observers'[id], seen[id], published', closed', id)
  BY <1>4, <1>7
<1>9. StreamInv' /\ Ids' = Ids /\ (\A id \in Ids : Kept(id)) /\ CallbackQuiet
  BY <1>3, <1>4, <1>5, <1>6, <1>7, <1>8, HubStep
<1> QED BY <1>1, <1>9 DEF Good, Effect, HubMoves

\* abandon: an open run is failed for every observer.
LEMMA DropOwnerGood == StreamInv /\ DropOwner => Good
<1> SUFFICES ASSUME StreamInv, DropOwner PROVE Good
  OBVIOUS
<1>1. /\ owner' = "dropped" /\ closed' = TRUE
      /\ UNCHANGED <<published, subscriptions, late, seen>>
  BY Zenon DEF DropOwner
<1> DEFINE missing == IF published < MaxSequence THEN published + 1 ELSE NoFrame
<1>2. /\ closed => observers' = observers
      /\ ~closed => observers' = [id \in DOMAIN observers |->
                                    Discarding(observers[id], "Abandoned", missing)]
  BY Zenon DEF DropOwner, Discarding
<1>3. /\ missing \in Nat /\ missing \in {NoFrame, published + 1} /\ "Abandoned" \in Faults
  BY HubFacts DEF NoFrame, Faults, Statuses
<1> HIDE DEF missing
<1>4. closed' /\ closed' \in BOOLEAN /\ DOMAIN observers' = DOMAIN observers
  BY <1>1, <1>2
<1>5. ASSUME NEW id \in Ids
      PROVE  /\ Sound(observers'[id], seen[id], published, closed', id)
             /\ SameReport(observers[id], observers'[id])
  <2>1. /\ published \in Nat /\ closed \in BOOLEAN
        /\ Sound(observers[id], seen[id], published, closed, id)
    BY HubFacts
  <2>2. CASE closed
    <3>1. observers'[id] = observers[id] /\ closed' = closed
      BY <1>1, <1>2, <2>1, <2>2
    <3> QED BY <2>1, <3>1 DEF SameReport
  <2>3. CASE ~closed
    <3>1. observers'[id] = Discarding(observers[id], "Abandoned", missing)
      BY <1>2, <2>3, HubFacts
    <3>2. Discards(observers[id], observers'[id], seen[id], published, closed', id)
      <4>1. /\ Nameable(observers[id], "Abandoned", missing, published, closed, id)
            /\ published <= MaxSequence
        BY <1>3, <2>3, HubFacts, Zenon DEF Nameable, Upcoming
      <4> QED BY <1>3, <1>4, <2>1, <3>1, <4>1, DiscardSound
    <3> QED BY <3>2 DEF Discards
  <2> QED BY <2>2, <2>3
<1>6. CallbackOver' /\ owner' \in Owners
  BY <1>1 DEF CallbackOver, Owners
<1>7. published' \in 0..MaxSequence
  BY <1>1, HubFacts
<1>8. \A id \in Ids : Sound(observers'[id], seen[id], published', closed', id)
  BY <1>1, <1>5
<1>9. StreamInv' /\ Ids' = Ids /\ (\A id \in Ids : Kept(id)) /\ CallbackQuiet
  BY <1>1, <1>4, <1>5, <1>6, <1>7, <1>8, HubStep
<1> QED BY <1>1, <1>9 DEF Good, Effect, HubMoves

\* The end of the run's shutdown: the worker is over, or its observer is failed
\* with what it still held.
LEMMA SettleGood == StreamInv /\ Settle => Good
<1> SUFFICES ASSUME StreamInv, Settle PROVE Good
  OBVIOUS
<1>1. CASE Drained \/ Expire
  <2>1. /\ UNCHANGED <<hubVars, observers, seen>> /\ owner' \in {"returned", "expired"}
        /\ owner # "returned"
        /\ owner' = "returned" => (HasCallback => observers[Callback].stage \in {"stopped", "ended"})
    BY <1>1 DEF Drained, Expire
  <2>2. late' \in Nat
    <3>1. CASE Drained
      BY <3>1, HubFacts DEF Drained
    <3>2. CASE Expire
      <4> DEFINE o == observers[Callback]
      <4>1. late' = IF o.last = NoFrame THEN Start(o)
                    ELSE IF o.last < MaxSequence THEN o.last + 1 ELSE NoFrame
        BY <3>2, Zenon DEF Expire
      <4>2. Callback \in Ids
        BY <3>2, HubFacts DEF Expire
      <4>3. o \in Observer
        BY <4>2, HubFacts DEF Sound, Consecutive
      <4> HIDE DEF o
      <4>4. o.last \in Nat /\ o.joined \in Nat /\ MaxSequence \in Nat
        BY <4>3, HubFacts DEF Observer
      <4>5. Start(o) \in Nat
        BY <4>4 DEF Start
      <4> QED BY <4>1, <4>4, <4>5 DEF NoFrame
    <3> QED BY <1>1, <3>1, <3>2
  <2>3. UNCHANGED <<published, closed, subscriptions, observers, seen>> /\ Ids' = Ids
    BY <2>1 DEF hubVars, Ids
  <2>4. HubOK' /\ ObserversSound'
    BY <2>1, <2>2, <2>3 DEF StreamInv, HubOK, ObserversSound, Owners
  <2>5. LateOK'
    <3>1. CASE Drained
      BY <3>1 DEF Drained, LateOK
    <3>2. CASE Expire
      <4> DEFINE o == observers[Callback]
      <4>1. /\ HasCallback /\ Callback \in Ids
            /\ late' = IF o.last = NoFrame THEN Start(o)
                       ELSE IF o.last < MaxSequence THEN o.last + 1 ELSE NoFrame
        BY <3>2, HubFacts, Zenon DEF Expire
      <4>2. o \in Observer /\ o.joined = 0
        BY <4>1, HubFacts DEF Sound, Consecutive, Reported
      <4> HIDE DEF o
      <4>3. o.last \in Nat /\ MaxSequence \in Nat \ {0}
        BY <4>2, BuffersAssumption DEF Observer
      <4>4. Start(o) = 1
        BY <4>2, <4>3 DEF Start
      <4>5. late' <= o.last + 1
        BY <4>1, <4>3, <4>4 DEF NoFrame
      <4> QED BY <2>3, <4>1, <4>5 DEF o, LateOK
    <3> QED BY <1>1, <3>1, <3>2
  <2>6. CallbackOver' /\ CallbackQuiet
    BY <2>1, <2>3 DEF CallbackOver, CallbackQuiet
  <2>7. HubMoves
    BY <2>3 DEF HubMoves, Kept
  <2> QED BY <2>4, <2>6, <2>7, <2>5 DEF Good, Effect, StreamInv
<1>2. CASE Detain
  <2>1. /\ owner = "expired" /\ owner' = "returned" /\ UNCHANGED <<hubVars, late, seen>>
        /\ observers' = [observers EXCEPT ![Callback] = Discarding(@, "CallbackTimedOut", late)]
    BY <1>2, Zenon DEF Detain, Discarding
  <2>2. /\ UNCHANGED <<published, closed, subscriptions, late, seen>>
        /\ DOMAIN observers' = DOMAIN observers /\ Ids' = Ids
        /\ \A id \in Ids : id # Callback => observers'[id] = observers[id]
        /\ Callback \in Ids => observers'[Callback]
                                = Discarding(observers[Callback], "CallbackTimedOut", late)
    BY <2>1, HubFacts DEF hubVars, Ids
  <2>3. "CallbackTimedOut" \in Faults
    BY DEF Faults, Statuses
  <2>4. ASSUME Callback \in Ids
        PROVE  Discards(observers[Callback], observers'[Callback], seen[Callback], published,
                        closed, Callback)
    <3>1. /\ published \in Nat /\ closed \in BOOLEAN /\ late \in Nat
          /\ Sound(observers[Callback], seen[Callback], published, closed, Callback)
      BY <2>4, HubFacts
    <3>2. late <= observers[Callback].last + 1 /\ published <= MaxSequence
      BY <2>1, HubFacts DEF StreamInv, LateOK
    <3>3. Nameable(observers[Callback], "CallbackTimedOut", late, published, closed,
                   Callback)
      BY <3>2, Zenon DEF Nameable, Upcoming
    <3> QED BY <2>2, <2>3, <2>4, <3>1, <3>2, <3>3, DiscardSound
  <2>5. \A id \in Ids : /\ Sound(observers'[id], seen[id], published', closed', id)
                        /\ SameReport(observers[id], observers'[id])
    BY <2>2, <2>4, HubFacts DEF Discards, SameReport
  <2>6. HasCallback => Callback \in Ids
    BY HubFacts
  <2>7. CallbackOver' /\ owner' \in Owners
    BY <2>1, <2>4, <2>6 DEF CallbackOver, Discards, Owners
  <2>8. published' \in 0..MaxSequence /\ closed' \in BOOLEAN
    BY <2>2, HubFacts
  <2>9. StreamInv' /\ (\A id \in Ids : Kept(id)) /\ CallbackQuiet
    BY <2>1, <2>2, <2>5, <2>7, <2>8, HubStep
  <2> QED BY <2>2, <2>9 DEF Good, Effect, HubMoves
<1> QED BY <1>1, <1>2 DEF Settle

\* The steps of the callback's thread.
LEMMA WorkerGood == StreamInv /\ HasCallback /\ Worker => Good
<1> SUFFICES ASSUME StreamInv, HasCallback, Worker PROVE Good
  OBVIOUS
<1> DEFINE o == observers[Callback]
           s == seen[Callback]
           later == observers'[Callback]
           reach == Reach(o, s)
<1>1. /\ Callback \in Ids /\ Sound(o, s, published, closed, Callback) /\ o \in Observer
      /\ published \in Nat /\ closed \in BOOLEAN /\ owner \in Owners
      /\ DOMAIN observers = Ids /\ DOMAIN seen = Ids
  BY HubFacts DEF Sound, Consecutive
<1>2. UNCHANGED <<hubVars, owner, late>> /\ UNCHANGED <<published, closed>>
  BY DEF Worker, WorkerTakes, WorkerStarts, HandlerReturns, HandlerPanics, WorkerStops, hubVars
<1>3. owner = "returned" => \/ o.stage \in {"stopped", "ended"}
                            \/ o.discarded /\ o.queue = <<>> /\ o.closed
  BY DEF StreamInv, CallbackOver
<1>4. CASE WorkerTakes
  <2>1. /\ o.stage = "taking" /\ o.queue # <<>>
        /\ observers' = [observers EXCEPT ![Callback] =
              [o EXCEPT !.queue = Tail(o.queue), !.in_flight = TRUE, !.stage = "holding"]]
        /\ seen' = [seen EXCEPT ![Callback] = Append(@, Head(o.queue).sequence)]
    BY <1>4, Zenon DEF WorkerTakes, Update, Hand
  <2>2. /\ later = [o EXCEPT !.queue = Tail(o.queue), !.in_flight = TRUE, !.stage = "holding"]
        /\ seen'[Callback] = Append(s, Head(o.queue).sequence)
        /\ DOMAIN observers' = DOMAIN observers /\ DOMAIN seen' = DOMAIN seen
        /\ \A id \in Ids \ {Callback} : observers'[id] = observers[id] /\ seen'[id] = seen[id]
    BY <1>1, <2>1
  <2>3. Sound(later, seen'[Callback], published, closed, Callback)
    BY <1>1, <2>1, <2>2, TakeSound
  <2>4. Tail(o.queue) \in Seq(Frame)
    BY <1>1, <2>1 DEF Observer
  <2>5. /\ later.joined = o.joined /\ later.queue = Tail(o.queue)
        /\ later.error_returned = o.error_returned /\ later.stage = "holding"
        /\ later \in Observer /\ later.last = o.last
    BY <1>1, <2>2, <2>4 DEF Observer, Stages
  <2>6. /\ Len(seen'[Callback]) = Len(s) + 1 /\ o.joined + Len(s) < published
    <3>1. Consecutive(o, s, published)
      BY <1>1 DEF Sound
    <3>2. /\ seen'[Callback] = Append(s, Head(o.queue).sequence) /\ o.queue # <<>>
          /\ later.joined = o.joined /\ later.queue = Tail(o.queue)
          /\ o \in Observer /\ later \in Observer /\ published \in Nat
      BY <1>1, <2>1, <2>2, <2>5
    <3> HIDE DEF o, s, later
    <3>3. Handed(o, later, s, seen'[Callback], published)
      BY <3>1, <3>2, FrameHanded
    <3> QED BY <3>3 DEF Handed
  <2>7. ~o.error_returned
    BY <1>1, <2>1 DEF Sound, Told
  <2>8. owner # "returned"
    BY <1>3, <2>1
  <2>9. CallbackOver' /\ CallbackQuiet
    BY <1>2, <2>8 DEF CallbackOver, CallbackQuiet
  <2>10. StreamInv' /\ Ids' = Ids /\ \A id \in Ids \ {Callback} : Kept(id)
    <3>1. later.last >= o.last
      BY <1>1, <2>5 DEF Observer
    <3> QED BY <1>1, <1>2, <2>2, <2>3, <2>9, <3>1, ObserverStep
  <2>11. Receives(Callback)
    BY <1>2, <2>1, <2>5, <2>6, <2>7, <2>10 DEF Receives, Untold
  <2> QED BY <1>1, <2>9, <2>10, <2>11 DEF Good, Effect
<1>5. CASE WorkerStarts
  <2>1. /\ o.stage = "holding" /\ seen' = seen
        /\ observers' = [observers EXCEPT ![Callback] = [o EXCEPT !.stage = "handling"]]
    BY <1>5, Zenon DEF WorkerStarts, Update
  <2>2. /\ later = [o EXCEPT !.stage = "handling"] /\ seen'[Callback] = s
        /\ DOMAIN observers' = DOMAIN observers /\ DOMAIN seen' = DOMAIN seen
        /\ \A id \in Ids \ {Callback} : observers'[id] = observers[id] /\ seen'[id] = seen[id]
    BY <1>1, <2>1
  <2>3. later = [o EXCEPT !.stage = "handling", !.error_returned = o.error_returned]
    BY <1>1, <2>2 DEF Observer
  <2>4. /\ later.joined = o.joined /\ later.error_returned = o.error_returned
        /\ later.stage = "handling" /\ later.last = o.last /\ later.queue = o.queue
        /\ later.discarded = o.discarded /\ later.closed = o.closed
    BY <1>1, <2>3 DEF Observer
  <2> HIDE DEF later
  <2>5. Sound(later, s, published, closed, Callback)
    <3>1. /\ "handling" \in Stages \ {"gone"} /\ "handling" \notin {"armed", "asleep", "taking"}
          /\ o.stage # "gone" /\ o.stage \in Busy /\ o.error_returned \in BOOLEAN
      BY <1>1, <2>1 DEF Stages, Busy, Observer
    <3> HIDE DEF o, s
    <3> QED BY <1>1, <2>3, <3>1, ReaderMoves
  <2>6. CallbackOver' /\ CallbackQuiet
    BY <1>2, <1>3, <2>1, <2>4 DEF CallbackOver, CallbackQuiet, later
  <2>7. StreamInv' /\ Ids' = Ids /\ \A id \in Ids \ {Callback} : Kept(id)
    <3>1. later.last >= o.last
      BY <1>1, <2>4 DEF Observer
    <3> QED BY <1>1, <1>2, <2>2, <2>5, <2>6, <3>1, ObserverStep DEF later
  <2>8. Kept(Callback)
    BY <2>1, <2>4 DEF Kept, later
  <2> QED BY <1>2, <2>6, <2>7, <2>8 DEF Good, Effect, HubMoves
<1>6. CASE HandlerReturns
  <2>1. /\ o.stage = "handling" /\ seen' = seen
        /\ observers' = [observers EXCEPT ![Callback] =
                            [Acknowledge(o, Last(s)) EXCEPT !.stage = "taking"]]
    BY <1>6, Zenon DEF HandlerReturns, Update
  <2>2. /\ later = [Acknowledge(o, Last(s)) EXCEPT !.stage = "taking"]
        /\ seen'[Callback] = s
        /\ DOMAIN observers' = DOMAIN observers /\ DOMAIN seen' = DOMAIN seen
        /\ \A id \in Ids \ {Callback} : observers'[id] = observers[id] /\ seen'[id] = seen[id]
    BY <1>1, <2>1
  <2> HIDE DEF later
  <2>3. Returned(o, later, s, published, closed)
    BY <1>1, <2>1, <2>2, ReturnSound
  <2>4. CallbackOver' /\ CallbackQuiet
    BY <1>2, <1>3, <2>1, <2>3 DEF CallbackOver, CallbackQuiet, Returned, later
  <2>5. StreamInv' /\ Ids' = Ids /\ \A id \in Ids \ {Callback} : Kept(id)
    BY <1>1, <1>2, <2>2, <2>3, <2>4, ObserverStep DEF Returned, later
  <2>6. Kept(Callback)
    BY <2>1, <2>3 DEF Kept, Returned, later
  <2> QED BY <1>2, <2>4, <2>5, <2>6 DEF Good, Effect, HubMoves
<1>7. CASE HandlerPanics
  <2>1. /\ o.stage = "handling" /\ seen' = seen
        /\ observers' = [observers EXCEPT ![Callback] = Panicking(o, Last(s))]
    BY <1>7, Zenon DEF HandlerPanics, Update, Panicking
  <2>2. /\ later = Panicking(o, Last(s))
        /\ seen'[Callback] = s
        /\ DOMAIN observers' = DOMAIN observers /\ DOMAIN seen' = DOMAIN seen
        /\ \A id \in Ids \ {Callback} : observers'[id] = observers[id] /\ seen'[id] = seen[id]
    BY <1>1, <2>1
  <2> HIDE DEF later
  <2>3. Panicked(o, later, s, published, closed)
    <3>1. published <= MaxSequence
      BY HubFacts
    <3> QED BY <1>1, <2>1, <2>2, <3>1, PanicSound
  <2>4. CallbackOver' /\ CallbackQuiet
    BY <2>1, <2>3 DEF CallbackOver, CallbackQuiet, Panicked, later
  <2>5. StreamInv' /\ Ids' = Ids /\ \A id \in Ids \ {Callback} : Kept(id)
    <3>1. later.last >= o.last
      BY <1>1, <2>3 DEF Panicked, Observer
    <3> QED BY <1>1, <1>2, <2>2, <2>3, <2>4, <3>1, ObserverStep DEF Panicked, later
  <2>6. Kept(Callback)
    BY <2>1, <2>3 DEF Kept, Panicked, later
  <2> QED BY <1>2, <2>4, <2>5, <2>6 DEF Good, Effect, HubMoves
<1>8. CASE WorkerStops
  <2>1. /\ o.stage = "taking" /\ o.queue = <<>> /\ o.closed /\ seen' = seen
        /\ observers' = [observers EXCEPT ![Callback] =
             IF CleanEnd(o) THEN [o EXCEPT !.stage = "ended"]
             ELSE [o EXCEPT !.stage = "stopped", !.error_returned = TRUE]]
    BY <1>8, Zenon DEF WorkerStops, Update
  <2>2. Ends(o, later, s, published, closed, Callback)
    <3>1. \/ CleanEnd(o) /\ later = [o EXCEPT !.stage = "ended"]
          \/ ~CleanEnd(o) /\ later = [o EXCEPT !.stage = "stopped", !.error_returned = TRUE]
      BY <1>1, <2>1
    <3>2. Ending(o, later) /\ o.stage \in Stages \ {"ended", "gone"}
      BY <2>1, <3>1, Zenon DEF Ending, Stages
    <3>3. o.queue = <<>> /\ o.closed
      BY <2>1
    <3> HIDE DEF later, o, s
    <3> QED BY <1>1, <3>2, <3>3, EndSound
  <2>3. /\ seen'[Callback] = s
        /\ DOMAIN observers' = DOMAIN observers /\ DOMAIN seen' = DOMAIN seen
        /\ \A id \in Ids \ {Callback} : observers'[id] = observers[id] /\ seen'[id] = seen[id]
    BY <1>1, <2>1
  <2>4. CallbackOver' /\ CallbackQuiet
    BY <1>2, <1>3, <2>1, <2>2 DEF CallbackOver, CallbackQuiet, Ends
  <2>5. StreamInv' /\ Ids' = Ids /\ \A id \in Ids \ {Callback} : Kept(id)
    <3>1. later.last >= o.last
      BY <1>1, <2>2 DEF Ends, Observer
    <3> QED BY <1>1, <1>2, <2>2, <2>3, <2>4, <3>1, ObserverStep DEF Ends
  <2>6. IsTold(Callback)
    BY <1>2, <2>1, <2>2, <2>3, <2>5 DEF IsTold, Ends, Untold
  <2> QED BY <1>1, <2>4, <2>5, <2>6 DEF Good, Effect
<1> QED BY <1>4, <1>6, <1>7, <1>8, <1>5 DEF Worker

\* A subscription's step leaves the callback alone.
LEMMA CallbackUntouched ==
  ASSUME StreamInv, NEW reader \in Ids \ {Callback}, UNCHANGED owner,
         \A id \in Ids \ {reader} : observers'[id] = observers[id] /\ seen'[id] = seen[id]
  PROVE  CallbackOver' /\ CallbackQuiet
<1>1. HasCallback => Callback \in Ids \ {reader}
  BY HubFacts
<1> QED BY <1>1 DEF StreamInv, CallbackOver, CallbackQuiet

\* The steps of a subscription's reader.
LEMMA ReaderGood ==
  ASSUME StreamInv, NEW reader \in Subscribers, Read(reader) \/ Disconnect(reader)
  PROVE  Good
<1> DEFINE o == observers[reader]
           s == seen[reader]
           later == observers'[reader]
<1>1. /\ reader \in Ids /\ reader # Callback
      /\ Sound(o, s, published, closed, reader) /\ o \in Observer
      /\ published \in Nat /\ closed \in BOOLEAN /\ owner \in Owners
      /\ DOMAIN observers = Ids /\ DOMAIN seen = Ids
  BY HubFacts DEF Sound, Consecutive
<1>2. UNCHANGED <<hubVars, owner, late>> /\ UNCHANGED <<published, closed>>
  BY DEF Read, Arm, Receive, ReadEnd, Sleep, Disconnect, hubVars
<1>3. ASSUME NEW stage \in Stages \ ({"ended", "gone"} \cup Busy),
             o.stage \in Stages \ {"ended", "gone"}, seen' = seen,
             observers' = [observers EXCEPT ![reader] = [o EXCEPT !.stage = stage]]
      PROVE  Good
  <2>1. later = [o EXCEPT !.stage = stage, !.error_returned = o.error_returned]
    BY <1>1, <1>3 DEF Observer
  <2>2. /\ DOMAIN observers' = DOMAIN observers /\ DOMAIN seen' = DOMAIN seen
        /\ \A id \in Ids \ {reader} : observers'[id] = observers[id] /\ seen'[id] = seen[id]
    BY <1>1, <1>3
  <2>3. Sound(later, s, published, closed, reader)
    <3>1. o.error_returned \in BOOLEAN
      BY <1>1 DEF Observer
    <3>2. Sound([o EXCEPT !.stage = stage, !.error_returned = o.error_returned], s, published,
                closed, reader)
      BY <1>1, <1>3, <3>1, ReaderMoves
    <3> QED BY <2>1, <3>2
  <2>4. Kept(reader)
    <3>1. /\ later.joined = o.joined /\ later.error_returned = o.error_returned
          /\ later.stage = stage
      BY <1>1, <2>1 DEF Observer
    <3> QED BY <1>3, <3>1 DEF Kept
  <2>5. CallbackOver' /\ CallbackQuiet
    BY <1>1, <1>2, <2>2, CallbackUntouched
  <2>6. StreamInv' /\ Ids' = Ids /\ \A id \in Ids \ {reader} : Kept(id)
    <3>1. Sound(observers'[reader], seen'[reader], published, closed, reader)
      BY <1>3, <2>3
    <3> QED BY <1>1, <1>2, <2>2, <3>1, <2>5, ObserverStep
  <2> QED BY <1>2, <2>4, <2>5, <2>6 DEF Good, Effect, HubMoves
<1>4. CASE Arm(reader)
  <2>1. /\ o.stage = "polling" /\ seen' = seen
        /\ observers' = [observers EXCEPT ![reader] = [o EXCEPT !.stage = "armed"]]
    BY <1>4, Zenon DEF Arm, Update
  <2>2. "armed" \in Stages \ ({"ended", "gone"} \cup Busy) /\ o.stage \in Stages \ {"ended", "gone"}
    BY <2>1 DEF Stages, Busy
  <2> QED BY <1>3, <2>1, <2>2
<1>5. CASE Sleep(reader)
  <2> DEFINE stage == IF o.stage = "armed" THEN "asleep" ELSE "polling"
  <2>1. /\ o.stage \in {"armed", "signalled"} /\ seen' = seen
        /\ observers' = [observers EXCEPT ![reader] = [o EXCEPT !.stage = stage]]
    BY <1>5, Zenon DEF Sleep, Update, Looking
  <2>2. stage \in Stages \ ({"ended", "gone"} \cup Busy) /\ o.stage \in Stages \ {"ended", "gone"}
    BY <2>1 DEF Stages, Busy
  <2> HIDE DEF stage
  <2> QED BY <1>3, <2>1, <2>2
<1>6. CASE Receive(reader)
  <2> DEFINE received == [Ack([o EXCEPT !.queue = Tail(@)], Head(o.queue).sequence)
                            EXCEPT !.stage = "polling"]
  <2>1. /\ o.stage \in {"armed", "signalled"} /\ o.queue # <<>>
        /\ observers' = [observers EXCEPT ![reader] = received]
        /\ seen' = [seen EXCEPT ![reader] = Append(@, Head(o.queue).sequence)]
    BY <1>6, Zenon DEF Receive, Update, Hand, Looking
  <2>2. /\ Receiving(o, received, s, Append(s, Head(o.queue).sequence), published, closed, reader)
    BY <1>1, <2>1, ReceiveSound
  <2> HIDE DEF received
  <2>3. /\ later = received /\ seen'[reader] = Append(s, Head(o.queue).sequence)
        /\ DOMAIN observers' = DOMAIN observers /\ DOMAIN seen' = DOMAIN seen
        /\ \A id \in Ids \ {reader} : observers'[id] = observers[id] /\ seen'[id] = seen[id]
    BY <1>1, <2>1
  <2>4. Receiving(o, later, s, seen'[reader], published, closed, reader)
    BY <2>2, <2>3
  <2>5. CallbackOver' /\ CallbackQuiet
    BY <1>1, <1>2, <2>3, CallbackUntouched
  <2>6. StreamInv' /\ Ids' = Ids /\ \A id \in Ids \ {reader} : Kept(id)
    <3>1. Sound(observers'[reader], seen'[reader], published, closed, reader)
      BY <2>4 DEF Receiving
    <3> QED BY <1>1, <1>2, <2>3, <3>1, <2>5, ObserverStep
  <2>7. Receives(reader)
    BY <1>2, <2>1, <2>4, <2>6 DEF Receives, Receiving, Untold
  <2> QED BY <1>1, <2>5, <2>6, <2>7 DEF Good, Effect
<1>7. CASE ReadEnd(reader)
  <2>1. /\ o.stage \in {"armed", "signalled"} /\ o.queue = <<>> /\ o.closed /\ seen' = seen
        /\ observers' = [observers EXCEPT ![reader] =
             IF CleanEnd(o) THEN [o EXCEPT !.stage = "ended"]
             ELSE [o EXCEPT !.stage = "polling", !.error_returned = TRUE]]
    BY <1>7, Zenon DEF ReadEnd, Update, Looking
  <2>2. Ends(o, later, s, published, closed, reader)
    <3>1. \/ CleanEnd(o) /\ later = [o EXCEPT !.stage = "ended"]
          \/ ~CleanEnd(o) /\ later = [o EXCEPT !.stage = "polling", !.error_returned = TRUE]
      BY <1>1, <2>1
    <3>2. Ending(o, later) /\ o.stage \in Stages \ {"ended", "gone"}
      <4>1. Ending(o, later)
        BY <3>1, Zenon DEF Ending
      <4>2. o.stage \in Stages \ {"ended", "gone"}
        BY <2>1 DEF Stages
      <4> QED BY <4>1, <4>2
    <3>3. o.queue = <<>> /\ o.closed
      BY <2>1
    <3> HIDE DEF later, o, s
    <3> QED BY <1>1, <3>2, <3>3, EndSound
  <2>3. /\ seen'[reader] = s
        /\ DOMAIN observers' = DOMAIN observers /\ DOMAIN seen' = DOMAIN seen
        /\ \A id \in Ids \ {reader} : observers'[id] = observers[id] /\ seen'[id] = seen[id]
    BY <1>1, <2>1
  <2>4. CallbackOver' /\ CallbackQuiet
    BY <1>1, <1>2, <2>3, CallbackUntouched
  <2>5. StreamInv' /\ Ids' = Ids /\ \A id \in Ids \ {reader} : Kept(id)
    <3>1. Sound(observers'[reader], seen'[reader], published, closed, reader)
      BY <2>2, <2>3 DEF Ends
    <3> QED BY <1>1, <1>2, <2>3, <2>4, <3>1, ObserverStep
  <2>6. o.stage # "ended"
    BY <2>1
  <2>7. IsTold(reader)
    BY <1>2, <2>2, <2>3, <2>5, <2>6 DEF IsTold, Ends, Untold
  <2> QED BY <1>1, <2>4, <2>5, <2>7 DEF Good, Effect
<1>8. CASE Disconnect(reader)
  <2> DEFINE left == [o EXCEPT !.queue = <<>>, !.closed = TRUE, !.stage = "gone",
                        !.status = IF @ \in {"Active", "Draining"} THEN "ClientClosed" ELSE @]
  <2>1. /\ o.stage \notin {"ended", "gone"} /\ seen' = seen
        /\ observers' = [observers EXCEPT ![reader] = left]
    BY <1>8, Zenon DEF Disconnect, Update
  <2>2. Sound(left, s, published, closed, reader)
    BY <1>1, DisconnectSound
  <2>3. /\ left.joined = o.joined /\ left.error_returned = o.error_returned
        /\ left.stage = "gone"
    BY <1>1 DEF Observer
  <2> HIDE DEF left
  <2>4. /\ later = left /\ seen'[reader] = s
        /\ DOMAIN observers' = DOMAIN observers /\ DOMAIN seen' = DOMAIN seen
        /\ \A id \in Ids \ {reader} : observers'[id] = observers[id] /\ seen'[id] = seen[id]
    BY <1>1, <2>1
  <2>5. CallbackOver' /\ CallbackQuiet
    BY <1>1, <1>2, <2>4, CallbackUntouched
  <2>6. StreamInv' /\ Ids' = Ids /\ \A id \in Ids \ {reader} : Kept(id)
    BY <1>1, <1>2, <2>2, <2>4, <2>5, ObserverStep
  <2>7. Kept(reader)
    BY <2>1, <2>3, <2>4 DEF Kept
  <2> QED BY <1>2, <2>5, <2>6, <2>7 DEF Good, Effect, HubMoves
<1> QED BY <1>4, <1>5, <1>6, <1>7, <1>8 DEF Read

-----------------------------------------------------------------------------
(* The theorems.                                                           *)

\* Every step keeps the invariant, and does to each stream what it may.
LEMMA StepGood == StreamInv /\ Next => Good
<1> SUFFICES ASSUME StreamInv, Next PROVE Good
  OBVIOUS
<1>1. CASE Subscribe
  BY <1>1, SubscribeGood
<1>2. CASE Emit
  <2>1. owner' = owner /\ owner \in Owners
    BY <1>2, HubFacts DEF Emit
  <2>2. CASE Exhaust
    BY <2>1, <2>2, ExhaustGood
  <2>3. ASSUME NEW bytes \in Sizes, Publish(bytes, FALSE) PROVE Good
    <3>1. PICK terminal \in BOOLEAN : terminal = FALSE
      OBVIOUS
    <3>2. Publish(bytes, terminal) /\ ~terminal
      BY <2>3, <3>1
    <3> QED BY <2>1, <3>2, PublishGood
  <2> QED BY <1>2, <2>2, <2>3 DEF Emit
<1>3. CASE Terminate
  <2>1. owner' = "sealed" /\ owner' \in Owners
    BY <1>3 DEF Terminate, Owners
  <2>2. CASE Exhaust
    BY <2>1, <2>2, ExhaustGood
  <2>3. ASSUME NEW bytes \in Sizes, Publish(bytes, TRUE) PROVE Good
    <3>1. PICK terminal \in BOOLEAN : terminal = TRUE
      OBVIOUS
    <3>2. Publish(bytes, terminal)
      BY <2>3, <3>1
    <3> QED BY <2>1, <3>2, PublishGood
  <2>4. CASE closed /\ UNCHANGED <<published, closed, subscriptions, observers, late, seen>>
    <3>1. Ids' = Ids
      BY <2>4 DEF Ids
    <3>2. HubOK' /\ ObserversSound'
      BY <2>1, <2>4, <3>1 DEF StreamInv, HubOK, ObserversSound
    <3>3. CallbackOver' /\ LateOK' /\ CallbackQuiet
      BY <2>1, <2>4 DEF CallbackOver, LateOK, CallbackQuiet
    <3>4. HubMoves
      BY <2>4, <3>1 DEF HubMoves, Kept
    <3> QED BY <3>2, <3>3, <3>4 DEF Good, Effect, StreamInv
  <2> QED BY <1>3, <2>2, <2>3, <2>4 DEF Terminate
<1>4. CASE Settle
  BY <1>4, SettleGood
<1>5. CASE DropOwner
  BY <1>5, DropOwnerGood
<1>6. CASE HasCallback /\ Worker
  BY <1>6, WorkerGood
<1>7. CASE \E id \in Subscribers : Read(id) \/ Disconnect(id)
  BY <1>7, ReaderGood
<1> QED BY <1>1, <1>2, <1>3, <1>4, <1>5, <1>6, <1>7 DEF Next

\* The invariant holds of every behaviour: every observer is sound, whatever
\* overtook it, and a callback that shutdown gave up on has nothing to take.
THEOREM Invariance == Spec => []StreamInv
<1>1. StreamInv /\ UNCHANGED streamVars => StreamInv'
  BY DEF streamVars, StreamInv, HubOK, ObserversSound, CallbackOver, LateOK, Ids
<1>2. StreamInv /\ [Next]_streamVars => StreamInv'
  BY <1>1, StepGood DEF Good
<1> QED BY InitInv, <1>2, PTL DEF Spec

\* What an observer was handed and what it still holds are the frames since it
\* joined, without a gap, in every run.
THEOREM NoGapHolds == Spec => []NoGap
<1>1. StreamInv => NoGap
  BY HubFacts DEF NoGap, Sound, Consecutive, Standing, Reach
<1> QED BY <1>1, Invariance, PTL

\* An observer's report names as first missing the frame after its prefix,
\* although the failure and the frames it discards are decided elsewhere; a
\* callback that was cut off may be told of an earlier one, never of a later one.
THEOREM MissingFollowsPrefixHolds == Spec => []MissingFollowsPrefix
<1>1. StreamInv => MissingFollowsPrefix
  <2> SUFFICES ASSUME StreamInv, NEW id \in Ids, observers[id].first # NoFrame,
                      observers[id].stage # "gone"
               PROVE  IF id = Callback /\ observers[id].discarded
                      THEN /\ observers[id].first <= observers[id].last + 1
                           /\ observers[id].status # "CallbackTimedOut"
                                => observers[id].first = observers[id].last + 1
                      ELSE observers[id].first
                             = observers[id].joined + Len(seen[id]) + Len(observers[id].queue) + 1
    BY HubFacts DEF MissingFollowsPrefix
  <2>1. /\ Told(observers[id], Reach(observers[id], seen[id]), id)
        /\ id = Callback => Reported(observers[id], Len(seen[id]), Reach(observers[id], seen[id]))
    BY HubFacts DEF Sound
  <2> QED BY <2>1 DEF Told, Reported, Reach
<1> QED BY <1>1, Invariance, PTL

\* An observer is reported as completed only when it has seen every frame.
THEOREM CompletedSawAllHolds == Spec => []CompletedSawAll
<1>1. ASSUME StreamInv PROVE CompletedSawAll
  <2> SUFFICES ASSUME NEW id \in Ids, observers[id].status = "Completed"
               PROVE  closed /\ observers[id].joined + Len(seen[id]) = published
    BY <1>1, HubFacts DEF CompletedSawAll
  <2> DEFINE o == observers[id]
             s == seen[id]
  <2>1. Consecutive(o, s, published) /\ Standing(o, Reach(o, s), published, closed)
    BY <1>1, HubFacts DEF Sound
  <2>2. closed /\ Reach(o, s) = published /\ o.queue = <<>>
    BY <2>1 DEF Standing
  <2>3. Reach(o, s) = o.joined + Len(s)
    BY <2>1, <2>2 DEF Reach, Consecutive, Observer
  <2> QED BY <2>2, <2>3
<1> QED BY <1>1, Invariance, PTL

\* Once shutdown has returned the callback's thread takes no frame, so at most the
\* one it held may still be shown to it, and a late return is not counted.
THEOREM NothingTakenAfterReturn == Spec => NoFrameTakenAfterReturn
<1>1. UNCHANGED streamVars => CallbackQuiet
  BY DEF streamVars, CallbackQuiet
<1>2. StreamInv /\ [Next]_streamVars => [CallbackQuiet]_streamVars
  BY <1>1, StepGood DEF Good
<1> QED BY <1>2, Invariance, PTL DEF Spec, NoFrameTakenAfterReturn

-----------------------------------------------------------------------------
(* Every observer's stream is the promised one.                            *)

\* The promised stream as the definitions of Stream map it.
Got(id) == IF id \in DOMAIN observers THEN observers[id].joined + Len(seen[id]) ELSE 0
ToldBy(id) == IF id \notin DOMAIN observers THEN "nothing"
              ELSE IF observers[id].stage = "ended" THEN "end"
              ELSE IF observers[id].error_returned THEN "error" ELSE "nothing"

\* An observer of which nothing has changed.
LEMMA KeptStream ==
  ASSUME StreamInv, NEW id, Kept(id), id \in Ids, id \in Ids', StreamInv'
  PROVE  Got(id)' = Got(id) /\ ToldBy(id)' = ToldBy(id)
<1>1. DOMAIN observers = Ids /\ DOMAIN observers' = Ids'
  BY DEF StreamInv, HubOK
<1> QED BY <1>1 DEF Got, ToldBy, Kept

\* An observer that is not there is told nothing.
LEMMA AbsentStream ==
  ASSUME StreamInv, NEW id, id \notin Ids, id \notin Ids', StreamInv'
  PROVE  Got(id)' = Got(id) /\ ToldBy(id)' = ToldBy(id)
BY DEF StreamInv, HubOK, Got, ToldBy

\* Every step of the run is a step of each promised stream, or none.
LEMMA StreamStep ==
  ASSUME StreamInv, StreamInv', Effect, NEW id
  PROVE  Stream(id)!Next \/ UNCHANGED Stream(id)!vars
<1>1. DOMAIN observers = Ids /\ DOMAIN observers' = Ids'
  BY DEF StreamInv, HubOK
<1> DEFINE same == Got(id)' = Got(id) /\ ToldBy(id)' = ToldBy(id) /\ (id \in Ids <=> id \in Ids')
<1>2. CASE HubMoves
  <2>1. same
    BY <1>2, KeptStream, AbsentStream DEF HubMoves
  <2>2. CASE UNCHANGED <<published, closed>>
    BY <1>1, <2>1, <2>2 DEF Stream!vars, Got, ToldBy
  <2>3. CASE ~closed /\ published' = published + 1
    <3>1. closed' \in BOOLEAN
      BY DEF StreamInv, HubOK
    <3>2. Stream(id)!Publish
      BY <1>1, <2>1, <2>3, <3>1 DEF Stream!Publish, Got, ToldBy
    <3> QED BY <3>2 DEF Stream!Next
  <2>4. CASE closed' = TRUE /\ UNCHANGED published
    <3>1. Stream(id)!Seal
      BY <1>1, <2>1, <2>4 DEF Stream!Seal, Got, ToldBy
    <3> QED BY <3>1 DEF Stream!Next
  <2> QED BY <1>2, <2>2, <2>3, <2>4 DEF HubMoves
<1>3. ASSUME NEW new, Joins(new) PROVE Stream(id)!Next \/ UNCHANGED Stream(id)!vars
  <2>1. /\ ~closed /\ UNCHANGED <<published, closed>> /\ new \notin Ids
        /\ Ids' = Ids \cup {new}
    BY <1>3 DEF Joins
  <2>2. CASE id = new
    <3>1. /\ id \notin DOMAIN observers /\ id \in DOMAIN observers'
          /\ observers'[id].joined = published /\ seen'[id] = <<>>
          /\ observers'[id].stage # "ended" /\ ~observers'[id].error_returned
      BY <1>1, <1>3, <2>1, <2>2 DEF Joins
    <3>2. published \in Nat /\ Len(<<>>) = 0
      BY HubFacts
    <3>3. Got(id)' = published /\ ToldBy(id) = "nothing" /\ ToldBy(id)' = "nothing"
      BY <3>1, <3>2 DEF Got, ToldBy
    <3>4. Stream(id)!Join
      BY <2>1, <3>1, <3>3 DEF Stream!Join, Got, ToldBy
    <3> QED BY <3>4 DEF Stream!Next
  <2>3. CASE id # new
    <3>1. same
      BY <1>3, <2>1, <2>3, KeptStream, AbsentStream DEF Joins
    <3> QED BY <1>1, <2>1, <3>1 DEF Stream!vars, Got, ToldBy
  <2> QED BY <2>2, <2>3
<1>4. ASSUME NEW reader \in Ids, Receives(reader) \/ IsTold(reader), id # reader
      PROVE  UNCHANGED Stream(id)!vars
  <2>1. same /\ UNCHANGED <<published, closed>>
    BY <1>4, KeptStream, AbsentStream DEF Receives, IsTold
  <2> QED BY <1>1, <2>1 DEF Stream!vars, Got, ToldBy
<1>5. ASSUME id \in Ids, Receives(id) PROVE Stream(id)!Receive
  <2>1. /\ id \in DOMAIN observers /\ id \in DOMAIN observers'
        /\ UNCHANGED <<published, closed>>
    BY <1>1, <1>5 DEF Receives
  <2>2. observers[id].joined \in Nat /\ Len(seen[id]) \in Nat
    BY <1>5, HubFacts DEF Sound, Consecutive, Observer
  <2>3. Got(id) < published /\ Got(id)' = Got(id) + 1
    <3>1. Got(id)' = observers'[id].joined + Len(seen'[id])
      BY <2>1 DEF Got
    <3> QED BY <1>5, <2>1, <2>2, <3>1 DEF Receives, Got
  <2>4. ToldBy(id) = "nothing" /\ ToldBy(id)' = "nothing"
    BY <1>5, <2>1 DEF Receives, ToldBy, Untold
  <2> QED BY <2>1, <2>3, <2>4 DEF Stream!Receive, Got, ToldBy
<1>6. ASSUME id \in Ids, IsTold(id) PROVE Stream(id)!Break \/ Stream(id)!End
  <2>1. /\ id \in DOMAIN observers /\ id \in DOMAIN observers'
        /\ UNCHANGED <<published, closed>>
    BY <1>1, <1>6 DEF IsTold
  <2>2. Got(id)' = Got(id) /\ Got(id) = observers[id].joined + Len(seen[id])
    BY <1>6, <2>1 DEF IsTold, Got
  <2>3. CASE /\ Untold(id)
             /\ observers'[id].error_returned /\ observers'[id].stage # "ended"
    <3>1. ToldBy(id) = "nothing" /\ ToldBy(id)' = "error"
      BY <2>1, <2>3 DEF ToldBy, Untold
    <3> QED BY <2>1, <2>2, <3>1 DEF Stream!Break, Got, ToldBy
  <2>4. CASE /\ observers'[id].stage = "ended"
             /\ \/ observers[id].error_returned
                \/ closed /\ observers[id].joined + Len(seen[id]) = published
    <3>1. /\ ToldBy(id)' = "end" /\ ToldBy(id) \in {"nothing", "error"}
          /\ observers[id].error_returned => ToldBy(id) = "error"
      BY <1>6, <2>1, <2>4 DEF ToldBy, IsTold
    <3>2. ToldBy(id) = "error" \/ (ToldBy(id) = "nothing" /\ closed /\ Got(id) = published)
      BY <2>2, <2>4, <3>1
    <3> QED BY <2>1, <2>2, <3>1, <3>2 DEF Stream!End, Got, ToldBy
  <2> QED BY <1>6, <2>3, <2>4 DEF IsTold
<1>7. CASE \E new \in Nat : Joins(new)
  BY <1>7, <1>3
<1>8. CASE \E reader \in Ids : Receives(reader) \/ IsTold(reader)
  <2>1. PICK reader \in Ids : Receives(reader) \/ IsTold(reader)
    BY <1>8
  <2>2. CASE id = reader
    <3>1. Stream(id)!Receive \/ Stream(id)!Break \/ Stream(id)!End
      BY <2>1, <2>2, <1>5, <1>6
    <3> QED BY <3>1 DEF Stream!Next
  <2>3. CASE id # reader
    BY <2>1, <2>3, <1>4
  <2> QED BY <2>2, <2>3
<1> QED BY <1>2, <1>7, <1>8 DEF Effect

\* Initially nobody has been handed or told anything, a callback whose thread
\* could not be started included.
LEMMA StreamInit == ASSUME Init, NEW id PROVE Stream(id)!Init
<1>1. /\ published = 0 /\ closed = FALSE
      /\ seen = [other \in IF HasCallback THEN {Callback} ELSE {} |-> <<>>]
      /\ DOMAIN observers = DOMAIN seen
  BY Zenon DEF Init
<1>2. CASE id \notin DOMAIN observers
  BY <1>1, <1>2 DEF Stream!Init
<1>3. CASE id \in DOMAIN observers
  <2>1. seen[id] = <<>> /\ Len(seen[id]) = 0
    BY <1>1, <1>3
  <2>2. \/ observers[id] = NewObserver("taking")
        \/ observers[id] = Fail(NewObserver("stopped"), "WorkerUnavailable", NoFrame, TRUE)
    BY <1>1, <1>3, Zenon DEF Init
  <2>3. /\ observers[id].joined = 0 /\ observers[id].stage # "ended"
        /\ ~observers[id].error_returned
    <3>1. CASE observers[id] = NewObserver("taking")
      BY <1>1, <3>1 DEF NewObserver
    <3>2. CASE observers[id] = Fail(NewObserver("stopped"), "WorkerUnavailable", NoFrame, TRUE)
      BY <1>1, <3>2 DEF NewObserver, Fail, Failed, Notify
    <3> QED BY <2>2, <3>1, <3>2
  <2> QED BY <1>1, <1>3, <2>1, <2>3 DEF Stream!Init
<1> QED BY <1>2, <1>3

\* Every observer of every run implements the promised stream: frames once and
\* in order from where it joined, at most one error, and a clean end only after
\* the error or the last frame.
THEOREM StreamsKeptHold == Spec => StreamsKept
<1>1. Init => \A id \in 1..(MaxSubscriptions + 1) : Stream(id)!Init
  BY StreamInit
<1> DEFINE Follows == \A id \in 1..(MaxSubscriptions + 1) :
                         Stream(id)!Next \/ UNCHANGED Stream(id)!vars
<1>2. StreamInv /\ Next => Follows
  BY StepGood, StreamStep DEF Good
<1>3. StreamInv /\ [Next]_streamVars => [Follows]_streamVars
  BY <1>2
<1> QED BY <1>1, <1>3, Invariance, PTL DEF Spec, StreamsKept
=============================================================================
