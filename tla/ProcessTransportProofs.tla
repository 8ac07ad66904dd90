------------------------ MODULE ProcessTransportProofs ------------------------
(***************************************************************************)
(* Theorems about ProcessTransport, for all uses of tools and every        *)
(* capacity of the channel.                                                *)
(***************************************************************************)
EXTENDS ProcessTransport, Integers, TLAPS

-----------------------------------------------------------------------------
(* The invariant.                                                          *)

Leaves == {"leaves queued", "leaves taken"}
Points == {"start", "sending", "waiting", "holding", "over"} \cup Leaves
Results == {"none", "ok", "maybe", "unexecuted", "cancelled"}
States == {"none", "queued", "active", "completed", "abandoned"}
Replies == {"none", "ok", "remote", "bad", "unsent", "failed", "dropped"}
Sent == {"none", "part", "full"}
Lines == (Work \X {"ok", "remote", "bad"}) \cup {<<Nobody, "babble">>}
Stations == {"take", "read", "write", "cleanup", "closed", "done"}

TypeOK ==
  /\ pc \in [Clients -> Points] /\ request \in [Clients -> Work \cup {Nobody}]
  /\ result \in [Clients -> Results]
  /\ state \in [Work -> States] /\ reply \in [Work -> Replies] /\ late \subseteq Work
  /\ queue \in Seq(Work)
  /\ worker \in Stations /\ active \in Work \cup {Nobody} /\ sent \in Sent
  /\ output \in Lines \cup {<<>>} /\ ran \subseteq Clients

\* The request that runs the operation of a client.
Operation(c) == <<c, IF c \in Planned THEN "commit" ELSE "execute">>
Preparation(c) == <<c, "prepare">>
Disposal(c) == <<c, "dispose">>

InQueue(w) == \E i \in 1..Len(queue) : queue[i] = w

\* The process may have seen the request.
Begun(w) == active = w \/ (w = Operation(w[1]) /\ w[1] \in ran)

\* The process has not seen the request and will not.
Spared(w) == ~Begun(w) /\ (state[w] = "queued" => w \in late)

\* A caller makes its requests one after the other.
Ordered(c) ==
  /\ pc[c] \in {"sending", "waiting"} \cup Leaves =>
       request[c] = Operation(c) \/ (request[c] = Preparation(c) /\ c \in Planned)
  /\ pc[c] = "holding" => c \in Planned
  /\ pc[c] = "start" => state[Preparation(c)] = "none"
  /\ pc[c] = "sending" => state[request[c]] = "none"
  /\ pc[c] # "over" => state[Disposal(c)] = "none"
  /\ pc[c] \in {"start", "sending", "holding"} => state[Operation(c)] = "none"
  /\ pc[c] # "over" /\ request[c] # Operation(c) => state[Operation(c)] = "none"

\* What a caller knows, or is about to be told, is true.
Told(c) ==
  /\ pc[c] = "leaves queued" => Spared(request[c])
  /\ result[c] = "unexecuted" => pc[c] = "over" /\ Spared(Operation(c))
  /\ result[c] = "ok" => c \in ran

\* A request is queued once, and begins only from the queue; its reply is true.
Tracked(w) ==
  /\ state[w] # "none" /\ Executes(w) => w = Operation(w[1])
  /\ Begun(w) => state[w] \notin {"none", "queued"} /\ ~InQueue(w)
  /\ InQueue(w) => state[w] # "none"
  /\ reply[w] = "unsent" => Spared(w) /\ state[w] # "none"
  /\ reply[w] = "ok" /\ Executes(w) => w[1] \in ran

\* An operation runs only when its request is at the process whole, and is
\* answered with success only when it has run.
Wire ==
  /\ active # Nobody /\ Executes(active) /\ active[1] \in ran => sent = "full"
  /\ output # <<>> /\ output[2] = "ok" /\ Executes(output[1]) => output[1][1] \in ran
  /\ \A i, j \in 1..Len(queue) : queue[i] = queue[j] => i = j

TransportInv ==
  /\ TypeOK /\ Wire
  /\ \A c \in Clients : Ordered(c) /\ Told(c)
  /\ \A w \in Work : Tracked(w)

-----------------------------------------------------------------------------
(* The requests and the queue.                                             *)

\* The three requests a client makes are different, and one runs its operation.
LEMMA Requests ==
  ASSUME NEW c \in Clients
  PROVE  /\ Operation(c) \in Work /\ Preparation(c) \in Work /\ Disposal(c) \in Work
         /\ Operation(c)[1] = c /\ Preparation(c)[1] = c /\ Disposal(c)[1] = c
         /\ Executes(Operation(c)) /\ ~Executes(Preparation(c)) /\ ~Executes(Disposal(c))
         /\ Operation(c) # Preparation(c) /\ Operation(c) # Disposal(c)
         /\ Preparation(c) # Disposal(c)
         /\ Preparation(c)[2] = "prepare" /\ Operation(c)[2] # "prepare"
BY DEF Operation, Preparation, Disposal, Work, Executes

\* Every request is of one client; nobody's request is none of them.
LEMMA Owners ==
  /\ Nobody \notin Work
  /\ \A w \in Work : w[1] \in Clients
  /\ \A w \in Work, c \in Clients :
       w = Operation(c) \/ w = Preparation(c) \/ w = Disposal(c) => w[1] = c
<1>1. \A w \in Work : w[1] \in Clients
  BY DEF Work
<1>2. \A w \in Work, c \in Clients :
        w = Operation(c) \/ w = Preparation(c) \/ w = Disposal(c) => w[1] = c
  BY Requests
<1>3. Nobody \notin Work
  BY DEF Work, Nobody
<1> QED BY <1>1, <1>2, <1>3

\* A request put into the queue is there once.
LEMMA Queued ==
  ASSUME TypeOK, Wire, NEW w \in Work, ~InQueue(w), queue' = Append(queue, w)
  PROVE  /\ queue' \in Seq(Work)
         /\ \A v \in Work : InQueue(v)' => InQueue(v) \/ v = w
         /\ \A i, j \in 1..Len(queue') : queue'[i] = queue'[j] => i = j
<1> DEFINE n == Len(queue)
<1>1. /\ queue \in Seq(Work) /\ n \in Nat /\ queue' \in Seq(Work) /\ Len(queue') = n + 1
      /\ \A i \in 1..n : queue'[i] = queue[i]
      /\ queue'[n + 1] = w
  BY DEF TypeOK
<1>2. /\ \A i \in 1..n : queue[i] # w
      /\ \A i, j \in 1..n : queue[i] = queue[j] => i = j
  BY DEF InQueue, Wire
<1> HIDE DEF n
<1>3. \A i \in 1..Len(queue') : i \in 1..n \/ i = n + 1
  BY <1>1
<1>4. \A v \in Work : InQueue(v)' => InQueue(v) \/ v = w
  BY <1>1, <1>3 DEF InQueue, n
<1>5. \A i, j \in 1..Len(queue') : queue'[i] = queue'[j] => i = j
  BY <1>1, <1>2, <1>3
<1> QED BY <1>1, <1>4, <1>5

\* The head of the queue is not in its tail.
LEMMA Dequeued ==
  ASSUME TypeOK, Wire, queue # <<>>, queue' = Tail(queue)
  PROVE  /\ \E w \in Work : w = Head(queue) /\ InQueue(w) /\ ~InQueue(w)'
         /\ queue' \in Seq(Work)
         /\ \A v \in Work : InQueue(v)' => InQueue(v)
         /\ \A i, j \in 1..Len(queue') : queue'[i] = queue'[j] => i = j
<1> DEFINE n == Len(queue)
<1>1. /\ queue \in Seq(Work) /\ n \in Nat /\ n > 0 /\ queue' \in Seq(Work)
      /\ Len(queue') = n - 1 /\ Head(queue) = queue[1] /\ queue[1] \in Work
      /\ \A i \in 1..(n - 1) : queue'[i] = queue[i + 1]
  BY DEF TypeOK
<1>2. \A i, j \in 1..n : queue[i] = queue[j] => i = j
  BY DEF Wire
<1>3. \A i \in 1..(n - 1) : i \in Int /\ i + 1 \in 1..n /\ i + 1 # 1
  BY <1>1
<1>4. 1 \in 1..n
  BY <1>1
<1>5. \A v \in Work : InQueue(v)' => InQueue(v)
  BY <1>1, <1>3 DEF InQueue
<1>6. \E w \in Work : w = Head(queue) /\ InQueue(w) /\ ~InQueue(w)'
  <2>1. PICK w \in Work : w = queue[1]
    BY <1>1
  <2>2. \A i \in 1..(n - 1) : queue'[i] # w
    BY <1>1, <1>2, <1>3, <1>4, <2>1
  <2>3. InQueue(w)
    BY <1>4, <2>1 DEF InQueue
  <2>4. ~InQueue(w)'
    BY <1>1, <2>2 DEF InQueue
  <2> QED BY <1>1, <2>1, <2>3, <2>4
<1>7. \A i, j \in 1..Len(queue') : queue'[i] = queue'[j] => i = j
  <2> SUFFICES ASSUME NEW i \in 1..(n - 1), NEW j \in 1..(n - 1), queue'[i] = queue'[j]
               PROVE  i = j
    BY <1>1
  <2>1. i + 1 = j + 1
    BY <1>1, <1>2, <1>3
  <2> QED BY <1>3, <2>1
<1> QED BY <1>1, <1>5, <1>6, <1>7

\* Only a waiting caller gets a reply.
LEMMA Replied ==
  ASSUME TypeOK, NEW works, NEW outcome \in Replies
  PROVE  /\ Reply(works, outcome) \in [Work -> Replies]
         /\ \A w \in Work : \/ Reply(works, outcome)[w] = reply[w]
                            \/ w \in works /\ Reply(works, outcome)[w] = outcome
BY DEF Reply, TypeOK

\* What is said of a request rests on these variables only.
LEMMA SameRequest ==
  ASSUME NEW w \in Work, Tracked(w), state'[w] = state[w], reply'[w] = reply[w],
         InQueue(w)' => InQueue(w), Begun(w)' => Begun(w), ran' = ran, late' = late
  PROVE  Tracked(w)'
BY DEF Tracked, Spared, Executes

-----------------------------------------------------------------------------
(* The callers.                                                            *)

\* The states of the work after a caller has withdrawn: its plan may be in the
\* queue to be disposed of.
Queues(c, now) ==
  \/ state' = now /\ queue' = queue
  \/ /\ state' = [now EXCEPT ![Disposal(c)] = "queued"]
     /\ queue' = Append(queue, Disposal(c))

\* The caller withdraws the work and is done with it.
Withdrawn(now) ==
  \A w \in Work : now[w] = state[w] \/ (state[w] # "none" /\ now[w] = "abandoned")

\* What a caller may be told as it leaves.
True(c, now) ==
  /\ result'[c] = "unexecuted" =>
       ~Begun(Operation(c)) /\ (now[Operation(c)] = "queued" => Operation(c) \in late)
  /\ result'[c] = "ok" => c \in ran

\* The replies but for one that its caller has taken or dropped.
Drained == reply' \in [Work -> Replies] /\ \A w \in Work : reply'[w] \in {reply[w], "none"}

LEMMA Drains ==
  ASSUME TypeOK, NEW w, reply' = reply \/ reply' = [reply EXCEPT ![w] = "none"]
  PROVE  Drained
BY DEF Drained, TypeOK, Replies

\* A caller leaves: its use of the tool is over, or it holds its plan.
Leaving(c, now) ==
  /\ now \in [Work -> States] /\ Withdrawn(now) /\ Queues(c, now)
  /\ Drained /\ UNCHANGED <<request, late, worker, active, sent, output, ran>>
  /\ result' \in [Clients -> Results] /\ \A d \in Clients \ {c} : result'[d] = result[d]
  /\ \/ pc' = [pc EXCEPT ![c] = "over"] /\ True(c, now)
     \/ /\ pc' = [pc EXCEPT ![c] = "holding"] /\ UNCHANGED <<result, queue>> /\ state' = now
        /\ request[c] = Preparation(c) /\ c \in Planned

\* A caller that leaves disturbs nobody.
LEMMA LeavingGood ==
  ASSUME TransportInv, NEW c \in Clients, pc[c] # "over", NEW now, Leaving(c, now)
  PROVE  TransportInv'
<1>1. /\ now \in [Work -> States] /\ Withdrawn(now) /\ Queues(c, now)
      /\ Drained /\ UNCHANGED <<request, late, worker, active, sent, output, ran>>
      /\ result' \in [Clients -> Results] /\ \A d \in Clients \ {c} : result'[d] = result[d]
      /\ pc' = [pc EXCEPT ![c] = "over"] \/ pc' = [pc EXCEPT ![c] = "holding"]
      /\ (pc' = [pc EXCEPT ![c] = "over"] /\ True(c, now)) \/
           (/\ UNCHANGED <<result, queue>> /\ state' = now
            /\ request[c] = Preparation(c) /\ c \in Planned)
  BY DEF Leaving
<1>2. TypeOK /\ Wire /\ (\A d \in Clients : Ordered(d) /\ Told(d)) /\ \A w \in Work : Tracked(w)
  BY DEF TransportInv
<1>3. /\ pc' \in [Clients -> Points] /\ pc'[c] \in {"over", "holding"}
      /\ \A d \in Clients \ {c} : pc'[d] = pc[d]
  BY <1>1, <1>2 DEF TypeOK, Points
<1>4. /\ \A d \in Clients : Operation(d) \in Work /\ Preparation(d) \in Work /\ Disposal(d) \in Work
      /\ Operation(c) # Disposal(c)
  BY Requests
<1>5. state[Disposal(c)] = "none" /\ now[Disposal(c)] = "none"
  BY <1>1, <1>2, <1>4 DEF Ordered, Withdrawn
<1>6. ~InQueue(Disposal(c)) /\ ~Begun(Disposal(c)) /\ reply[Disposal(c)] # "unsent"
  BY <1>2, <1>4, <1>5 DEF Tracked
<1>7. /\ state' \in [Work -> States] /\ queue' \in Seq(Work)
      /\ \A w \in Work \ {Disposal(c)} : state'[w] = now[w] /\ (InQueue(w)' => InQueue(w))
      /\ InQueue(Disposal(c))' => state'[Disposal(c)] # "none"
      /\ \A i, j \in 1..Len(queue') : queue'[i] = queue'[j] => i = j
  <2>1. CASE state' = now /\ queue' = queue
    BY <1>1, <1>2, <1>6, <2>1 DEF InQueue, TypeOK, Wire
  <2>2. CASE state' = [now EXCEPT ![Disposal(c)] = "queued"] /\ queue' = Append(queue, Disposal(c))
    <3>1. /\ queue' \in Seq(Work)
          /\ \A v \in Work : InQueue(v)' => InQueue(v) \/ v = Disposal(c)
          /\ \A i, j \in 1..Len(queue') : queue'[i] = queue'[j] => i = j
      BY <1>2, <1>4, <1>6, <2>2, Queued
    <3> HIDE DEF Disposal
    <3>2. /\ state' \in [Work -> States] /\ state'[Disposal(c)] = "queued"
          /\ \A w \in Work \ {Disposal(c)} : state'[w] = now[w]
      BY <1>1, <1>4, <2>2 DEF States
    <3> QED BY <3>1, <3>2
  <2> QED BY <1>1, <2>1, <2>2 DEF Queues
<1>8. \A w \in Work : Begun(w)' <=> Begun(w)
  BY <1>1 DEF Begun, Operation
<1>9. TypeOK'
  BY <1>1, <1>2, <1>3, <1>7 DEF TypeOK, Drained
<1>10. Wire'
  BY <1>1, <1>2, <1>7 DEF Wire, Executes
<1>11. \A w \in Work \ {Disposal(c)} :
         /\ state'[w] = "none" <=> state[w] = "none"
         /\ state'[w] = "queued" => state[w] = "queued"
  BY <1>1, <1>7 DEF Withdrawn
<1>12. \A w \in Work : Tracked(w)'
  <2> TAKE w \in Work
  <2>1. CASE w = Disposal(c)
    <3>1. ~Executes(w)
      BY <2>1, Requests
    <3> QED BY <1>1, <1>6, <1>7, <1>8, <2>1, <3>1 DEF Tracked, Executes, Drained
  <2>2. CASE w # Disposal(c)
    BY <1>1, <1>2, <1>7, <1>8, <1>11, <2>2 DEF Tracked, Spared, Executes, Drained
  <2> QED BY <2>1, <2>2
<1>13. \A d \in Clients \ {c} : Ordered(d)' /\ Told(d)'
  <2> TAKE d \in Clients \ {c}
  <2>1. /\ pc'[d] = pc[d] /\ request'[d] = request[d] /\ result'[d] = result[d]
    BY <1>1, <1>3
  <2>2. /\ Operation(d) \in Work \ {Disposal(c)} /\ Preparation(d) \in Work \ {Disposal(c)}
        /\ Disposal(d) \in Work \ {Disposal(c)}
    BY Requests
  <2>3. /\ pc[d] \in {"sending", "waiting"} \cup Leaves =>
             request[d] = Operation(d) \/ request[d] = Preparation(d)
    BY <1>2 DEF Ordered
  <2>4. Ordered(d)'
    BY <1>2, <1>11, <2>1, <2>2, <2>3 DEF Ordered, Operation, Preparation, Disposal, Leaves
  <2>5. Told(d)'
    BY <1>1, <1>2, <1>8, <1>11, <2>1, <2>2, <2>3 DEF Told, Spared, Leaves
  <2> QED BY <2>4, <2>5
<1>14. Ordered(c)'
  <2>1. pc'[c] = "over" \/ (/\ pc'[c] = "holding" /\ c \in Planned /\ request[c] = Preparation(c)
                            /\ state' = now)
    BY <1>1, <1>2, <1>3 DEF TypeOK
  <2>2. CASE pc'[c] = "over"
    BY <2>2 DEF Ordered, Leaves
  <2>3. CASE /\ pc'[c] = "holding" /\ c \in Planned /\ request[c] = Preparation(c)
             /\ state' = now
    <3>1. state[Operation(c)] = "none"
      BY <1>2, <2>3, Requests DEF Ordered
    <3>2. state'[Operation(c)] = "none" /\ state'[Disposal(c)] = "none"
      BY <1>1, <1>4, <1>5, <1>11, <2>3, <3>1
    <3> QED BY <2>3, <3>2 DEF Ordered, Leaves, Operation, Disposal
  <2> QED BY <2>1, <2>2, <2>3
<1>15. Told(c)'
  <2>1. CASE pc' = [pc EXCEPT ![c] = "over"] /\ True(c, now)
    <3>1. pc'[c] = "over"
      BY <1>2, <2>1 DEF TypeOK
    <3>2. state'[Operation(c)] = now[Operation(c)]
      BY <1>4, <1>7
    <3> QED BY <1>1, <1>4, <1>8, <2>1, <3>1, <3>2 DEF Told, True, Spared, Operation
  <2>2. CASE UNCHANGED <<result, queue>>
    <3>1. result'[c] # "unexecuted"
      BY <1>2, <2>2 DEF Told
    <3> QED BY <1>1, <1>2, <1>3, <2>2, <3>1 DEF Told
  <2> QED BY <1>1, <2>1, <2>2
<1> QED BY <1>9, <1>10, <1>12, <1>13, <1>14, <1>15 DEF TransportInv

\* The call returns with r.
Returns(c, now, r) ==
  LET holds == request[c][2] = "prepare" /\ r = "ok" IN
  /\ pc' = [pc EXCEPT ![c] = IF holds THEN "holding" ELSE "over"]
  /\ result' = IF holds THEN result ELSE [result EXCEPT ![c] = r]
  /\ Queues(c, now) /\ (holds => state' = now /\ queue' = queue)

\* Leave returns from the call.
LEMMA LeaveReturns ==
  ASSUME NEW c \in Clients, NEW now, NEW breaks, NEW r, Leave(c, now, breaks, r)
  PROVE  Returns(c, now, r)
BY Zenon DEF Leave, End, Returns, Queues, Disposal

\* What a call returns with is true.
LEMMA ReturnsGood ==
  ASSUME TransportInv, NEW c \in Clients, pc[c] \in {"sending", "waiting"} \cup Leaves,
         NEW now \in [Work -> States], Withdrawn(now), NEW r \in Results, Returns(c, now, r),
         Drained, UNCHANGED <<request, late, worker, active, sent, output, ran>>,
         r = "unexecuted" =>
           ~Begun(Operation(c)) /\ (now[Operation(c)] = "queued" => Operation(c) \in late),
         r = "ok" /\ request[c] = Operation(c) => c \in ran
  PROVE  TransportInv'
<1> DEFINE holds == request[c][2] = "prepare" /\ r = "ok"
<1>1. /\ pc' = [pc EXCEPT ![c] = IF holds THEN "holding" ELSE "over"]
      /\ result' = (IF holds THEN result ELSE [result EXCEPT ![c] = r])
      /\ Queues(c, now) /\ (holds => state' = now /\ queue' = queue)
  BY Zenon DEF Returns
<1>2. result \in [Clients -> Results]
  BY DEF TransportInv, TypeOK
<1>3. request[c] = Operation(c) \/ (request[c] = Preparation(c) /\ c \in Planned)
  BY DEF TransportInv, Ordered
<1>4. pc[c] # "over"
  BY DEF Leaves
<1>5. Leaving(c, now)
  <2>1. CASE holds
    <3>1. request[c] = Preparation(c) /\ c \in Planned
      BY <1>3, <2>1, Requests
    <3> QED BY <1>1, <1>2, <2>1, <3>1 DEF Leaving
  <2>2. CASE ~holds
    <3>1. r = "ok" => c \in ran
      BY <1>3, <2>2 DEF Preparation
    <3>2. result' = [result EXCEPT ![c] = r] /\ pc' = [pc EXCEPT ![c] = "over"]
      BY <1>1, <2>2
    <3>3. /\ result' \in [Clients -> Results] /\ result'[c] = r
          /\ \A d \in Clients \ {c} : result'[d] = result[d]
      BY <1>2, <3>2
    <3>4. True(c, now)
      BY <3>1, <3>3 DEF True
    <3> QED BY <1>1, <3>2, <3>3, <3>4 DEF Leaving
  <2> QED BY <2>1, <2>2
<1> QED BY <1>4, <1>5, LeavingGood

\* The operation of a caller that has not asked for it has not begun.
LEMMA NotAsked ==
  ASSUME TransportInv, NEW c \in Clients,
         pc[c] \in {"start", "sending", "holding"} \/ (pc[c] # "over" /\ request[c] # Operation(c))
  PROVE  state[Operation(c)] = "none" /\ ~Begun(Operation(c))
BY Requests DEF TransportInv, Ordered, Tracked

\* The reply comes, and means what the caller makes of it.
LEMMA ReceiveGood == ASSUME TransportInv, NEW c \in Clients, Receive(c) PROVE TransportInv'
<1> DEFINE w == request[c]
           now == IF reply[w] = "dropped" THEN Aborted(w) ELSE state
           breaks == reply[w] = "bad" \/ (reply[w] = "dropped" /\ Breaks(w))
<1>1. /\ pc[c] = "waiting" /\ reply[w] # "none" /\ Leave(c, now, breaks, Outcome(w))
      /\ UNCHANGED <<request, late, thread, output, handled, ran>>
      /\ reply' = [reply EXCEPT ![w] = "none"]
  BY DEF Receive
<1>2. w = Operation(c) \/ w = Preparation(c)
  BY <1>1 DEF TransportInv, Ordered
<1>3. w \in Work /\ Tracked(w) /\ state \in [Work -> States] /\ reply[w] \in Replies
  BY <1>2, Requests DEF TransportInv, TypeOK
<1>4. /\ now \in [Work -> States] /\ Withdrawn(now)
      /\ reply[w] = "dropped" => now[w] # "queued"
  BY <1>3 DEF Aborted, Withdrawn, States
<1> HIDE DEF now, breaks
<1>5. Returns(c, now, Outcome(w))
  BY <1>1, LeaveReturns
<1>6. /\ Outcome(w) \in Results
      /\ Outcome(w) = "ok" => reply[w] = "ok"
      /\ Outcome(w) = "unexecuted" /\ Executes(w) =>
           reply[w] = "unsent" \/ (reply[w] = "dropped" /\ state[w] = "queued")
  BY <1>1, <1>3 DEF Outcome, Results, Replies
<1> HIDE DEF w
<1>7. ASSUME Outcome(w) = "unexecuted"
      PROVE  ~Begun(Operation(c)) /\ (now[Operation(c)] = "queued" => Operation(c) \in late)
  <2>1. CASE w # Operation(c)
    <3>1. state[Operation(c)] = "none" /\ ~Begun(Operation(c))
      BY <1>1, <2>1, NotAsked DEF w
    <3> QED BY <1>4, <3>1, Requests DEF Withdrawn
  <2>2. CASE w = Operation(c)
    <3>1. reply[w] = "unsent" \/ (reply[w] = "dropped" /\ state[w] = "queued")
      BY <1>6, <1>7, <2>2, Requests
    <3>2. CASE reply[w] = "unsent"
      BY <1>3, <1>4, <2>2, <3>2 DEF Tracked, Spared, Withdrawn
    <3>3. CASE reply[w] = "dropped" /\ state[w] = "queued"
      BY <1>3, <1>4, <2>2, <3>3 DEF Tracked
    <3> QED BY <3>1, <3>2, <3>3
  <2> QED BY <2>1, <2>2
<1>8. Outcome(w) = "ok" /\ request[c] = Operation(c) => c \in ran
  BY <1>3, <1>6, Requests DEF Tracked, w
<1>9. Drained /\ UNCHANGED <<request, late, worker, active, sent, output, ran>>
  BY <1>1, Drains DEF thread, TransportInv
<1> QED BY <1>1, <1>4, <1>5, <1>6, <1>7, <1>8, <1>9, ReturnsGood

\* The caller withdraws work whose deadline has passed.
LEMMA GiveUpGood == ASSUME TransportInv, NEW c \in Clients, GiveUp(c) PROVE TransportInv'
<1> DEFINE w == request[c]
           now == Aborted(w)
           breaks == Breaks(w)
           r == IF Executes(w) /\ pc[c] = "leaves taken" THEN "maybe" ELSE "unexecuted"
<1>1. /\ pc[c] \in Leaves /\ Leave(c, now, breaks, r)
      /\ UNCHANGED <<request, late, thread, output, handled, ran>>
      /\ reply' = [reply EXCEPT ![w] = "none"]
  BY DEF GiveUp, Leaves
<1>2. w = Operation(c) \/ w = Preparation(c)
  BY <1>1 DEF TransportInv, Ordered
<1>3. w \in Work /\ Tracked(w) /\ state \in [Work -> States]
  BY <1>2, Requests DEF TransportInv, TypeOK
<1>4. now \in [Work -> States] /\ Withdrawn(now) /\ now[w] # "queued"
  BY <1>3 DEF Aborted, Withdrawn, States
<1> HIDE DEF now, breaks
<1>5. Returns(c, now, r)
  <2> HIDE DEF r
  <2> QED BY <1>1, LeaveReturns
<1>6. /\ r \in Results /\ r # "ok"
      /\ r = "unexecuted" /\ Executes(w) => pc[c] = "leaves queued"
  BY <1>1 DEF Results, Leaves
<1> HIDE DEF r, w
<1>7. ASSUME r = "unexecuted"
      PROVE  ~Begun(Operation(c)) /\ (now[Operation(c)] = "queued" => Operation(c) \in late)
  <2>1. CASE w # Operation(c)
    <3>1. state[Operation(c)] = "none" /\ ~Begun(Operation(c))
      BY <1>1, <2>1, NotAsked DEF w, Leaves
    <3> QED BY <1>4, <3>1, Requests DEF Withdrawn
  <2>2. CASE w = Operation(c)
    <3>1. Spared(w)
      BY <1>6, <1>7, <2>2, Requests DEF TransportInv, Told, w
    <3> QED BY <1>4, <2>2, <3>1 DEF Spared
  <2> QED BY <2>1, <2>2
<1>8. Drained /\ UNCHANGED <<request, late, worker, active, sent, output, ran>>
  BY <1>1, Drains DEF thread, TransportInv
<1> QED BY <1>1, <1>4, <1>5, <1>6, <1>7, <1>8, ReturnsGood

\* The connection is closed before the caller has asked.
LEMMA RefusedGood == ASSUME TransportInv, NEW c \in Clients, Refused(c) PROVE TransportInv'
<1>1. /\ pc[c] \in {"start", "holding"} /\ pc' = [pc EXCEPT ![c] = "over"]
      /\ result' = [result EXCEPT ![c] = "unexecuted"] /\ Queues(c, state)
      /\ UNCHANGED <<request, reply, late, thread, output, handled, ran>>
  BY Zenon DEF Refused, End, Queues, Disposal
<1>2. state[Operation(c)] = "none" /\ ~Begun(Operation(c))
  BY <1>1, NotAsked
<1>3. True(c, state)
  BY <1>1, <1>2 DEF True, TransportInv, TypeOK
<1>4. Leaving(c, state)
  <2>1. state \in [Work -> States] /\ Withdrawn(state) /\ result \in [Clients -> Results]
    BY DEF TransportInv, TypeOK, Withdrawn
  <2>2. result' \in [Clients -> Results] /\ \A d \in Clients \ {c} : result'[d] = result[d]
    BY <1>1, <2>1 DEF Results
  <2> QED BY <1>1, <1>3, <2>1, <2>2, Drains DEF Leaving, thread, TransportInv
<1> QED BY <1>1, <1>4, LeavingGood

\* The task of the caller is dropped: nobody is told anything.
LEMMA CancelGood == ASSUME TransportInv, NEW c \in Clients, Cancel(c) PROVE TransportInv'
<1> DEFINE w == request[c]
<1>1. /\ pc[c] \in {"waiting", "holding"} /\ pc' = [pc EXCEPT ![c] = "over"]
      /\ result' = [result EXCEPT ![c] = "cancelled"]
      /\ (pc[c] = "waiting" /\ Queues(c, Aborted(w))) \/ Queues(c, state)
      /\ UNCHANGED <<request, late, thread, output, handled, ran>>
      /\ reply' = [reply EXCEPT ![w] = "none"]
  BY Zenon DEF Cancel, End, Queues, Disposal
<1>2. state \in [Work -> States] /\ Withdrawn(state) /\ result \in [Clients -> Results]
  BY DEF TransportInv, TypeOK, Withdrawn
<1>3. /\ result' \in [Clients -> Results] /\ \A d \in Clients \ {c} : result'[d] = result[d]
      /\ result'[c] = "cancelled"
  BY <1>1, <1>2 DEF Results
<1>4. \E now \in [Work -> States] : Withdrawn(now) /\ Queues(c, now)
  <2>1. CASE Queues(c, state)
    BY <1>2, <2>1
  <2>2. CASE pc[c] = "waiting" /\ Queues(c, Aborted(w))
    <3>1. w \in Work
      BY <2>2, Requests DEF TransportInv, Ordered
    <3>2. Aborted(w) \in [Work -> States] /\ Withdrawn(Aborted(w))
      BY <1>2, <3>1 DEF Aborted, Withdrawn, States
    <3> QED BY <2>2, <3>2
  <2> QED BY <1>1, <2>1, <2>2
<1>5. PICK now \in [Work -> States] : Withdrawn(now) /\ Queues(c, now)
  BY <1>4
<1>6. Leaving(c, now)
  BY <1>1, <1>3, <1>5, Drains DEF Leaving, True, thread, TransportInv
<1> QED BY <1>1, <1>6, LeavingGood

\* What is known of a client rests on its requests and on what it has been told.
LEMMA SameClient ==
  ASSUME NEW d \in Clients, Ordered(d), Told(d),
         pc'[d] = pc[d], request'[d] = request[d], result'[d] = result[d],
         \A w \in {Operation(d), Preparation(d), Disposal(d)} :
           (state[w] = "none" => state'[w] = "none") /\ (Spared(w) => Spared(w)'),
         d \in ran => d \in ran'
  PROVE  Ordered(d)' /\ Told(d)'
<1>1. /\ Operation(d)' = Operation(d) /\ Preparation(d)' = Preparation(d)
      /\ Disposal(d)' = Disposal(d)
  BY DEF Operation, Preparation, Disposal
<1>2. pc[d] \in {"sending", "waiting"} \cup Leaves =>
        request[d] = Operation(d) \/ request[d] = Preparation(d)
  BY DEF Ordered
<1>3. Ordered(d)'
  BY <1>1, <1>2 DEF Ordered, Leaves
<1>4. Told(d)'
  BY <1>1, <1>2 DEF Told, Leaves, Spared, Begun
<1> QED BY <1>3, <1>4

\* What is spared stays so unless it is taken.
LEMMA SparedStays ==
  ASSUME NEW w \in Work, Begun(w)' => Begun(w), state'[w] = "queued" => state[w] = "queued",
         late \subseteq late', Spared(w)
  PROVE  Spared(w)'
BY DEF Spared

\* A client asks for the preparation, the operation or the commit.
LEMMA CallGood == ASSUME TransportInv, NEW c \in Clients, Call(c) PROVE TransportInv'
<1>1. /\ pc' = [pc EXCEPT ![c] = "sending"] /\ UNCHANGED <<result, shared, thread, process>>
      /\ \/ /\ pc[c] = "start"
            /\ request' = [request EXCEPT ![c] = <<c, IF c \in Planned THEN "prepare" ELSE "execute">>]
         \/ pc[c] = "holding" /\ request' = [request EXCEPT ![c] = <<c, "commit">>]
  BY DEF Call
<1>2. UNCHANGED <<result, state, reply, late, queue, worker, active, sent, output, ran>>
  BY <1>1 DEF shared, thread, process
<1>3. /\ TypeOK /\ Wire /\ Ordered(c) /\ Told(c) /\ pc[c] # "over"
      /\ \A d \in Clients : Ordered(d) /\ Told(d)
      /\ \A w \in Work : Tracked(w)
  BY <1>1 DEF TransportInv
<1> DEFINE w == request'[c]
<1>4. /\ request' = [request EXCEPT ![c] = w]
      /\ w = Operation(c) \/ (w = Preparation(c) /\ c \in Planned)
      /\ state[w] = "none" /\ state[Operation(c)] = "none" /\ state[Disposal(c)] = "none"
  <2>1. CASE pc[c] = "start"
    BY <1>1, <1>3, <2>1 DEF TypeOK, Ordered, Operation, Preparation
  <2>2. CASE pc[c] = "holding"
    BY <1>1, <1>3, <2>2 DEF TypeOK, Ordered, Operation, Preparation
  <2> QED BY <1>1, <2>1, <2>2
<1> HIDE DEF w
<1>5. w \in Work
  BY <1>4, Requests
<1>6. /\ pc' \in [Clients -> Points] /\ pc'[c] = "sending"
      /\ request' \in [Clients -> Work \cup {Nobody}] /\ request'[c] = w
      /\ \A d \in Clients \ {c} : pc'[d] = pc[d] /\ request'[d] = request[d]
  BY <1>1, <1>3, <1>4, <1>5 DEF TypeOK, Points
<1>7. TypeOK' /\ Wire'
  BY <1>2, <1>3, <1>6 DEF TypeOK, Wire, Executes
<1>8. \A v \in Work : Begun(v)' <=> Begun(v)
  BY <1>2 DEF Begun, Operation
<1>9. \A v \in Work : Tracked(v)'
  BY <1>2, <1>3, <1>8 DEF Tracked, Spared, Executes, InQueue, Operation
<1>10. \A d \in Clients \ {c} : Ordered(d)' /\ Told(d)'
  <2> TAKE d \in Clients \ {c}
  <2>1. \A v \in {Operation(d), Preparation(d), Disposal(d)} :
          (state[v] = "none" => state'[v] = "none") /\ (Spared(v) => Spared(v)')
    BY <1>2, <1>8, Requests DEF Spared
  <2> QED BY <1>2, <1>3, <1>6, <2>1, SameClient
<1>11. Ordered(c)' /\ Told(c)'
  <2>1. Ordered(c)'
    BY <1>2, <1>4, <1>6 DEF Ordered, Operation, Preparation, Disposal, Leaves
  <2> QED BY <1>2, <1>3, <1>6, <2>1 DEF Told
<1> QED BY <1>7, <1>9, <1>10, <1>11 DEF TransportInv

\* The request is put into the channel, or the call fails.
LEMMA SendGood == ASSUME TransportInv, NEW c \in Clients, Send(c) PROVE TransportInv'
<1> DEFINE w == request[c]
<1>1. /\ pc[c] = "sending"
      /\ UNCHANGED <<request, reply, late, worker, active, sent, output, ran>>
      /\ \/ /\ queue' = Append(queue, w) /\ state' = [state EXCEPT ![w] = "queued"]
            /\ pc' = [pc EXCEPT ![c] = "waiting"] /\ UNCHANGED result
         \/ Leave(c, state, FALSE, "unexecuted")
  BY DEF Send, thread
<1>2. /\ TypeOK /\ Wire /\ Ordered(c) /\ Told(c)
      /\ \A d \in Clients : Ordered(d) /\ Told(d)
      /\ \A v \in Work : Tracked(v)
  BY DEF TransportInv
<1>3. CASE Leave(c, state, FALSE, "unexecuted")
  <2>1. Returns(c, state, "unexecuted")
    BY <1>3, Zenon DEF Leave, End, Returns, Queues, Disposal
  <2>2. state[Operation(c)] = "none" /\ ~Begun(Operation(c))
    BY <1>1, NotAsked
  <2>3. state \in [Work -> States] /\ Withdrawn(state) /\ "unexecuted" \in Results
    BY <1>2 DEF TypeOK, Withdrawn, Results
  <2>4. Drained
    BY <1>1, <1>2, Drains
  <2> QED BY <1>1, <2>1, <2>2, <2>3, <2>4, ReturnsGood
<1>4. CASE /\ queue' = Append(queue, w) /\ state' = [state EXCEPT ![w] = "queued"]
           /\ pc' = [pc EXCEPT ![c] = "waiting"] /\ UNCHANGED result
  <2>1. /\ w = Operation(c) \/ (w = Preparation(c) /\ c \in Planned)
        /\ state[w] = "none" /\ state[Operation(c)] = "none" /\ state[Disposal(c)] = "none"
    BY <1>1, <1>2 DEF Ordered
  <2>2. w \in Work /\ w[1] = c /\ w # Disposal(c)
    BY <2>1, Requests
  <2> HIDE DEF w
  <2>3. ~InQueue(w) /\ ~Begun(w) /\ reply[w] # "unsent"
    BY <1>2, <2>1, <2>2 DEF Tracked
  <2>4. /\ queue' \in Seq(Work)
        /\ \A v \in Work : InQueue(v)' => InQueue(v) \/ v = w
        /\ \A i, j \in 1..Len(queue') : queue'[i] = queue'[j] => i = j
    BY <1>2, <1>4, <2>2, <2>3, Queued
  <2>5. /\ state' \in [Work -> States] /\ state'[w] = "queued"
        /\ \A v \in Work \ {w} : state'[v] = state[v]
        /\ pc' \in [Clients -> Points] /\ pc'[c] = "waiting"
        /\ \A d \in Clients \ {c} : pc'[d] = pc[d]
    BY <1>2, <1>4, <2>2 DEF TypeOK, States, Points
  <2>6. TypeOK' /\ Wire'
    BY <1>1, <1>2, <1>4, <2>4, <2>5 DEF TypeOK, Wire, Executes
  <2>7. \A v \in Work : Begun(v)' <=> Begun(v)
    BY <1>1 DEF Begun, Operation
  <2>8. \A v \in Work : Tracked(v)'
    <3> TAKE v \in Work
    <3>1. CASE v = w
      <4>1. Executes(w) => w = Operation(w[1])
        BY <2>1, <2>2, Requests
      <4> QED BY <1>1, <1>2, <2>3, <2>5, <2>7, <3>1, <4>1 DEF Tracked, Executes, Operation
    <3>2. CASE v # w
      BY <1>1, <1>2, <2>4, <2>5, <2>7, <3>2, SameRequest
    <3> QED BY <3>1, <3>2
  <2>9. \A d \in Clients \ {c} : Ordered(d)' /\ Told(d)'
    <3> TAKE d \in Clients \ {c}
    <3>1. \A v \in {Operation(d), Preparation(d), Disposal(d)} : v \in Work \ {w}
      BY <2>2, Requests
    <3>2. \A v \in {Operation(d), Preparation(d), Disposal(d)} :
            (state[v] = "none" => state'[v] = "none") /\ (Spared(v) => Spared(v)')
      BY <1>1, <2>5, <2>7, <3>1 DEF Spared
    <3> QED BY <1>1, <1>2, <1>4, <2>5, <3>2, SameClient
  <2>10. Ordered(c)' /\ Told(c)'
    <3>1. request'[c] = w /\ result'[c] = result[c] /\ result[c] # "unexecuted"
      BY <1>1, <1>2, <1>4 DEF Told, w
    <3>2. state'[Disposal(c)] = "none" /\ (w # Operation(c) => state'[Operation(c)] = "none")
      BY <2>1, <2>2, <2>5, Requests
    <3>3. Ordered(c)'
      BY <2>1, <2>5, <3>1, <3>2 DEF Ordered, Operation, Preparation, Disposal, Leaves
    <3> QED BY <1>1, <1>2, <2>5, <3>1, <3>3 DEF Told
  <2> QED BY <2>6, <2>8, <2>9, <2>10 DEF TransportInv
<1> QED BY <1>1, <1>3, <1>4

\* The timer of the caller fires: work still queued will not be taken any more.
LEMMA TimerGood == ASSUME TransportInv, NEW c \in Clients, Timer(c) PROVE TransportInv'
<1> DEFINE w == request[c]
           p == IF state[w] = "queued" THEN "leaves queued" ELSE "leaves taken"
<1>1. /\ pc[c] = "waiting" /\ w \in late /\ pc' = [pc EXCEPT ![c] = p]
      /\ UNCHANGED <<request, result, shared, thread, process>>
  BY DEF Timer
<1>2. UNCHANGED <<request, result, state, reply, late, queue, worker, active, sent, output, ran>>
  BY <1>1 DEF shared, thread, process
<1>3. /\ TypeOK /\ Wire /\ Ordered(c) /\ Told(c)
      /\ \A d \in Clients : Ordered(d) /\ Told(d)
      /\ \A v \in Work : Tracked(v)
  BY DEF TransportInv
<1>4. /\ w \in Work /\ p \in Leaves /\ (p = "leaves queued" => Spared(w))
  <2>1. w \in Work
    BY <1>1, <1>3, Requests DEF Ordered
  <2>2. state[w] = "queued" => Spared(w)
    BY <1>1, <1>3, <2>1 DEF Tracked, Spared
  <2> QED BY <2>1, <2>2 DEF Leaves
<1> HIDE DEF p
<1>5. /\ pc' \in [Clients -> Points] /\ pc'[c] = p
      /\ \A d \in Clients \ {c} : pc'[d] = pc[d]
  BY <1>1, <1>3, <1>4 DEF TypeOK, Points
<1>6. TypeOK' /\ Wire'
  BY <1>2, <1>3, <1>5 DEF TypeOK, Wire, Executes
<1>7. \A v \in Work : (Begun(v)' <=> Begun(v)) /\ (Spared(v)' <=> Spared(v))
  BY <1>2 DEF Begun, Operation, Spared
<1>8. \A v \in Work : Tracked(v)'
  BY <1>2, <1>3, <1>7 DEF Tracked, Executes, InQueue, Operation
<1>9. \A d \in Clients \ {c} : Ordered(d)' /\ Told(d)'
  <2> TAKE d \in Clients \ {c}
  <2>1. \A v \in {Operation(d), Preparation(d), Disposal(d)} :
          (state[v] = "none" => state'[v] = "none") /\ (Spared(v) => Spared(v)')
    BY <1>2, <1>7, Requests
  <2> QED BY <1>2, <1>3, <1>5, <2>1, SameClient
<1>10. Ordered(c)'
  BY <1>1, <1>2, <1>3, <1>4, <1>5 DEF Ordered, Operation, Preparation, Disposal, Leaves
<1>11. Told(c)'
  <2>1. result[c] # "unexecuted"
    BY <1>1, <1>3 DEF Told
  <2>2. Spared(request[c])' <=> Spared(w)
    BY <1>2, <1>4 DEF Spared, Begun, Operation
  <2> QED BY <1>2, <1>3, <1>4, <1>5, <2>1, <2>2 DEF Told
<1> QED BY <1>6, <1>8, <1>9, <1>10, <1>11 DEF TransportInv

\* A deadline passes.
LEMMA ExpireGood == ASSUME TransportInv, NEW x \in Work, Expire(x) PROVE TransportInv'
<1>1. /\ late' = late \cup {x} /\ UNCHANGED <<callers, state, reply, queue, thread, process>>
  BY DEF Expire
<1>2. UNCHANGED <<pc, request, result, state, reply, queue, worker, active, sent, output, ran>>
  BY <1>1 DEF callers, thread, process
<1>3. TypeOK' /\ Wire'
  BY <1>1, <1>2 DEF TransportInv, TypeOK, Wire, Executes
<1>4. \A v \in Work : (Begun(v)' <=> Begun(v)) /\ (Spared(v) => Spared(v)')
  BY <1>1, <1>2 DEF Begun, Operation, Spared
<1>5. \A v \in Work : Tracked(v)'
  BY <1>2, <1>4 DEF TransportInv, Tracked, Executes, InQueue, Operation
<1>6. \A d \in Clients : Ordered(d)' /\ Told(d)'
  <2> TAKE d \in Clients
  <2>1. \A v \in {Operation(d), Preparation(d), Disposal(d)} :
          (state[v] = "none" => state'[v] = "none") /\ (Spared(v) => Spared(v)')
    BY <1>2, <1>4, Requests
  <2> QED BY <1>2, <2>1, SameClient DEF TransportInv
<1> QED BY <1>3, <1>5, <1>6 DEF TransportInv

\* Closing and the death of the process change nothing the argument rests on.
LEMMA QuietGood ==
  ASSUME TransportInv,
         UNCHANGED <<pc, request, result, state, reply, late, queue, worker, active, sent, output, ran>>
  PROVE  TransportInv'
<1>1. TypeOK' /\ Wire'
  BY DEF TransportInv, TypeOK, Wire, Executes
<1>2. \A v \in Work : (Begun(v)' <=> Begun(v)) /\ (Spared(v) => Spared(v)')
  BY DEF Begun, Operation, Spared
<1>3. \A v \in Work : Tracked(v)'
  BY <1>2, SameRequest DEF TransportInv, InQueue
<1>4. \A d \in Clients : Ordered(d)' /\ Told(d)'
  <2> TAKE d \in Clients
  <2>1. \A v \in {Operation(d), Preparation(d), Disposal(d)} :
          (state[v] = "none" => state'[v] = "none") /\ (Spared(v) => Spared(v)')
    BY <1>2, Requests
  <2> QED BY <2>1, SameClient DEF TransportInv
<1> QED BY <1>1, <1>3, <1>4 DEF TransportInv

-----------------------------------------------------------------------------
(* The worker and the process.                                             *)

\* What the worker and the process do to the requests leaves the callers right.
LEMMA CallersKept ==
  ASSUME TransportInv, UNCHANGED callers, TypeOK', Wire', \A w \in Work : Tracked(w)',
         \A w \in Work : (state[w] = "none" => state'[w] = "none") /\ (Spared(w) => Spared(w)'),
         ran \subseteq ran'
  PROVE  TransportInv'
<1>1. UNCHANGED <<pc, request, result>>
  BY DEF callers
<1>2. \A d \in Clients : Ordered(d)' /\ Told(d)'
  <2> TAKE d \in Clients
  <2>1. \A v \in {Operation(d), Preparation(d), Disposal(d)} :
          (state[v] = "none" => state'[v] = "none") /\ (Spared(v) => Spared(v)')
    BY Requests
  <2> QED BY <1>1, <2>1, SameClient DEF TransportInv
<1> QED BY <1>2 DEF TransportInv

\* A request leaves the queue: it is skipped, refused or taken.
LEMMA TakeGood == ASSUME TransportInv, Take PROVE TransportInv'
<1>1. worker = "take" /\ UNCHANGED <<callers, late, output, ran>>
  BY DEF Take
<1>2. TypeOK /\ Wire /\ \A v \in Work : Tracked(v)
  BY DEF TransportInv
<1>3. CASE closing \/ Exiting \/ active # Nobody \/ queue = <<>>
  <2>1. /\ UNCHANGED <<state, reply, queue, active, sent>> /\ worker' \in Stations
    BY <1>3 DEF Take, Stations
  <2>2. TypeOK' /\ Wire'
    BY <1>1, <1>2, <2>1 DEF TypeOK, Wire, Executes, callers
  <2>3. \A v \in Work : (Begun(v)' <=> Begun(v)) /\ (Spared(v) => Spared(v)')
    BY <1>1, <2>1 DEF Begun, Operation, Spared
  <2>4. \A v \in Work : Tracked(v)'
    BY <1>1, <1>2, <2>1, <2>3, SameRequest DEF InQueue
  <2> QED BY <1>1, <2>1, <2>2, <2>3, <2>4, CallersKept
<1>4. CASE ~(closing \/ Exiting \/ active # Nobody \/ queue = <<>>)
  <2>1. active = Nobody /\ queue # <<>> /\ queue' = Tail(queue) /\ Dispatch(Head(queue))
    BY <1>4 DEF Take
  <2>2. PICK w \in Work : w = Head(queue) /\ InQueue(w) /\ ~InQueue(w)'
    BY <1>2, <2>1, Dequeued
  <2>3. /\ queue' \in Seq(Work)
        /\ \A v \in Work : InQueue(v)' => InQueue(v)
        /\ \A i, j \in 1..Len(queue') : queue'[i] = queue'[j] => i = j
    BY <1>2, <2>1, Dequeued
  <2>4. state[w] # "none" /\ ~Begun(w) /\ w # Nobody
    BY <1>2, <2>2, Owners DEF Tracked
  <2>5. CASE state[w] # "queued"
    <3>1. UNCHANGED <<state, reply, worker, active, sent>>
      BY <2>1, <2>2, <2>5 DEF Dispatch, Skipped
    <3>2. TypeOK' /\ Wire'
      BY <1>1, <1>2, <2>3, <3>1 DEF TypeOK, Wire, Executes, callers
    <3>3. \A v \in Work : (Begun(v)' <=> Begun(v)) /\ (Spared(v) => Spared(v)')
      BY <1>1, <3>1 DEF Begun, Operation, Spared
    <3>4. \A v \in Work : Tracked(v)'
      BY <1>1, <1>2, <2>3, <3>1, <3>3, SameRequest
    <3> QED BY <1>1, <3>1, <3>2, <3>3, <3>4, CallersKept
  <2>6. CASE state[w] = "queued" /\ w \in late
    <3>1. /\ state' = [state EXCEPT ![w] = "completed"] /\ reply' = Reply({w}, "unsent")
          /\ worker' \in Stations /\ UNCHANGED <<active, sent>>
      BY <1>1, <2>1, <2>2, <2>6 DEF Dispatch, Overdue, Stop, Stations
    <3>2. /\ state' \in [Work -> States] /\ state'[w] = "completed"
          /\ \A v \in Work \ {w} : state'[v] = state[v]
      BY <1>2, <3>1 DEF TypeOK, States
    <3>3. /\ reply' \in [Work -> Replies] /\ \A v \in Work \ {w} : reply'[v] = reply[v]
          /\ reply'[w] \in {reply[w], "unsent"}
      BY <1>2, <3>1, Replied DEF Replies
    <3>4. TypeOK' /\ Wire'
      BY <1>1, <1>2, <2>3, <3>1, <3>2, <3>3 DEF TypeOK, Wire, Executes, callers
    <3>5. \A v \in Work : (Begun(v)' <=> Begun(v)) /\ (Spared(v) => Spared(v)')
      BY <1>1, <3>1, <3>2 DEF Begun, Operation, Spared
    <3>6. \A v \in Work : Tracked(v)'
      <4> TAKE v \in Work
      <4>1. CASE v = w
        BY <1>1, <1>2, <2>2, <2>4, <3>2, <3>3, <3>5, <4>1 DEF Tracked, Spared, Executes, Operation
      <4>2. CASE v # w
        BY <1>1, <1>2, <2>3, <3>2, <3>3, <3>5, <4>2, SameRequest
      <4> QED BY <4>1, <4>2
    <3>7. \A v \in Work : state[v] = "none" => state'[v] = "none"
      BY <2>4, <3>2
    <3> QED BY <1>1, <3>4, <3>5, <3>6, <3>7, CallersKept
  <2>7. CASE state[w] = "queued" /\ w \notin late
    <3>1. /\ state' = [state EXCEPT ![w] = "active"] /\ active' = w /\ sent' = "none"
          /\ worker' \in Stations /\ UNCHANGED reply
      BY <1>1, <2>1, <2>2, <2>7 DEF Dispatch, Taken, Stations
    <3>2. /\ state' \in [Work -> States] /\ state'[w] = "active"
          /\ \A v \in Work \ {w} : state'[v] = state[v]
      BY <1>2, <3>1 DEF TypeOK, States
    <3>3. /\ reply[w] # "unsent" /\ ~Spared(w)
          /\ Executes(w) => w = Operation(w[1]) /\ w[1] \notin ran
      BY <1>2, <2>4, <2>7 DEF Tracked, Spared, Begun
    <3>4. TypeOK' /\ Wire'
      BY <1>1, <1>2, <2>3, <3>1, <3>2, <3>3 DEF TypeOK, Wire, Executes, callers, Sent
    <3>5. \A v \in Work \ {w} : (Begun(v)' <=> Begun(v)) /\ (Spared(v) => Spared(v)')
      BY <1>1, <2>1, <3>1, <3>2, Owners DEF Begun, Operation, Spared
    <3>6. \A v \in Work : Tracked(v)'
      <4> TAKE v \in Work
      <4>1. CASE v = w
        BY <1>1, <1>2, <2>2, <3>1, <3>2, <3>3, <4>1 DEF Tracked, Executes, Operation
      <4>2. CASE v # w
        BY <1>1, <1>2, <2>3, <3>1, <3>2, <3>5, <4>2, SameRequest
      <4> QED BY <4>1, <4>2
    <3>7. \A v \in Work : (state[v] = "none" => state'[v] = "none") /\ (Spared(v) => Spared(v)')
      BY <2>4, <3>2, <3>3, <3>5
    <3> QED BY <1>1, <3>4, <3>6, <3>7, CallersKept
  <2> QED BY <2>5, <2>6, <2>7
<1> QED BY <1>3, <1>4

\* The answer to the active work arrives, or something unexpected.
LEMMA ReadGood == ASSUME TransportInv, Read PROVE TransportInv'
<1>1. worker = "read" /\ output' = <<>> /\ UNCHANGED <<callers, late, queue, ran>>
  BY DEF Read
<1>2. TypeOK /\ Wire /\ \A v \in Work : Tracked(v)
  BY DEF TransportInv
<1>3. \/ UNCHANGED <<state, reply, active, sent>> /\ worker' \in {worker, "write", "cleanup"}
      \/ output # <<>> /\ Expected /\ Answered(output[1], output[2])
  BY DEF Read, Stop
<1>4. ASSUME UNCHANGED <<state, reply>>, active' \in {active, Nobody},
             active' = active => sent' = sent, sent' \in Sent, worker' \in Stations
      PROVE  TransportInv'
  <2>1. TypeOK' /\ Wire'
    BY <1>1, <1>2, <1>4 DEF TypeOK, Wire, Executes, callers
  <2>2. \A v \in Work : (Begun(v)' => Begun(v)) /\ (Spared(v) => Spared(v)')
    BY <1>1, <1>4, Owners DEF Begun, Operation, Spared
  <2>3. \A v \in Work : Tracked(v)'
    BY <1>1, <1>2, <1>4, <2>2, SameRequest DEF InQueue
  <2> QED BY <1>1, <1>4, <2>1, <2>2, <2>3, CallersKept
<1>5. CASE UNCHANGED <<state, reply, active, sent>> /\ worker' \in {worker, "write", "cleanup"}
  BY <1>2, <1>4, <1>5 DEF TypeOK, Stations
<1>6. CASE output # <<>> /\ Expected /\ Answered(output[1], output[2])
  <2> DEFINE w == active
  <2>1. /\ w \in Work /\ output[1] = w /\ output \in Lines
    BY <1>2, <1>6 DEF Expected, TypeOK
  <2>2. output[2] \in {"ok", "remote", "bad"}
    BY <2>1, Owners DEF Lines
  <2>3. PICK outcome \in {"ok", "remote", "bad"} : outcome = output[2]
    BY <2>2
  <2>4. Answered(w, outcome)
    BY <1>6, <2>1, <2>3
  <2>5. outcome = "ok" /\ Executes(w) => w[1] \in ran
    BY <1>2, <1>6, <2>1, <2>3 DEF Wire
  <2>6. CASE state[w] = "active"
    <3>1. /\ active' = Nobody /\ sent' = "none" /\ UNCHANGED worker
          /\ state' = [state EXCEPT ![w] = "completed"] /\ reply' = Reply({w}, outcome)
      BY <2>4, <2>6 DEF Answered
    <3>2. /\ state' \in [Work -> States] /\ state'[w] = "completed"
          /\ \A v \in Work \ {w} : state'[v] = state[v]
      BY <1>2, <2>1, <3>1 DEF TypeOK, States
    <3>3. /\ reply' \in [Work -> Replies] /\ \A v \in Work \ {w} : reply'[v] = reply[v]
          /\ reply'[w] \in {reply[w], outcome}
      BY <1>2, <2>1, <3>1, Replied DEF Replies
    <3>4. TypeOK' /\ Wire'
      BY <1>1, <1>2, <3>1, <3>2, <3>3 DEF TypeOK, Wire, Executes, callers, Sent
    <3>5. \A v \in Work : (Begun(v)' => Begun(v)) /\ (Spared(v) => Spared(v)')
      BY <1>1, <3>1, <3>2, Owners DEF Begun, Operation, Spared
    <3>6. Begun(w) /\ ~Spared(w)
      BY <2>1 DEF Begun, Spared
    <3>7. \A v \in Work : Tracked(v)'
      <4> TAKE v \in Work
      <4>1. CASE v = w
        <5>1. reply[v] # "unsent" /\ Tracked(v) /\ ~InQueue(v)
          BY <1>2, <3>6, <4>1 DEF Tracked
        <5>2. /\ state'[v] = "completed" /\ reply'[v] # "unsent"
              /\ reply'[v] = "ok" /\ Executes(v) => v[1] \in ran'
          BY <1>1, <2>3, <2>5, <3>2, <3>3, <4>1, <5>1 DEF Tracked
        <5>3. ~InQueue(v)' /\ (Executes(v) => v = Operation(v[1]))
          BY <1>1, <2>6, <4>1, <5>1 DEF InQueue, Tracked
        <5> QED BY <5>2, <5>3 DEF Tracked, Executes, Operation
      <4>2. CASE v # w
        BY <1>1, <1>2, <3>2, <3>3, <3>5, <4>2, SameRequest DEF InQueue
      <4> QED BY <4>1, <4>2
    <3>8. \A v \in Work : state[v] = "none" => state'[v] = "none"
      BY <2>6, <3>2
    <3> QED BY <1>1, <3>4, <3>5, <3>7, <3>8, CallersKept
  <2>7. CASE state[w] # "active"
    <3>1. active' = Nobody /\ sent' = "none" /\ worker' = "cleanup" /\ UNCHANGED <<state, reply>>
      BY <2>4, <2>7 DEF Answered, Stop
    <3> QED BY <1>2, <1>4, <2>1, <3>1, Owners DEF Sent, Stations
  <2> QED BY <2>6, <2>7
<1> QED BY <1>3, <1>5, <1>6

\* Bytes of the active request are sent; what is sent whole stays so.
LEMMA WriteGood == ASSUME TransportInv, Write PROVE TransportInv'
<1>1. /\ UNCHANGED <<callers, state, reply, late, queue, active, output, ran>>
      /\ worker' \in Stations /\ sent' \in {sent, "part", "full"}
      /\ sent = "full" => sent' = "full"
  BY DEF Write, Stop, Stations
<1>2. TypeOK /\ Wire /\ \A v \in Work : Tracked(v)
  BY DEF TransportInv
<1>3. TypeOK' /\ Wire'
  BY <1>1, <1>2 DEF TypeOK, Wire, Executes, callers, Sent
<1>4. \A v \in Work : (Begun(v)' <=> Begun(v)) /\ (Spared(v) => Spared(v)')
  BY <1>1 DEF Begun, Operation, Spared
<1>5. \A v \in Work : Tracked(v)'
  BY <1>1, <1>2, <1>4, SameRequest DEF InQueue
<1> QED BY <1>1, <1>3, <1>4, <1>5, CallersKept

\* The worker ends: what it has not sent is reported as unsent.
LEMMA CleanupGood == ASSUME TransportInv, Cleanup PROVE TransportInv'
<1> DEFINE queued == {queue[i] : i \in DOMAIN queue}
           failed == IF active = Nobody THEN {} ELSE {active}
           told == IF sent = "none" THEN "unsent" ELSE "failed"
<1>1. /\ worker' = "closed" /\ queue' = <<>> /\ active' = Nobody /\ sent' = "none"
      /\ output' = <<>> /\ UNCHANGED <<callers, late, ran>>
      /\ state' = [w \in Work |-> IF w \in queued \cup failed THEN "completed" ELSE state[w]]
      /\ reply' = [w \in Work |-> IF w \in failed THEN Reply(failed, told)[w]
                                                  ELSE Reply(queued, "unsent")[w]]
  BY DEF Cleanup
<1>2. TypeOK /\ Wire /\ \A v \in Work : Tracked(v)
  BY DEF TransportInv
<1>3. \A w \in Work : (w \in queued <=> InQueue(w)) /\ (w \in failed <=> w = active)
  BY <1>2, Owners DEF InQueue, TypeOK
<1>4. told \in {"unsent", "failed"} /\ (told = "unsent" => sent = "none")
  OBVIOUS
<1> HIDE DEF queued, failed, told
<1>5. /\ \A w \in Work : state'[w] = IF InQueue(w) \/ w = active THEN "completed" ELSE state[w]
      /\ state' \in [Work -> States]
  BY <1>1, <1>2, <1>3 DEF TypeOK, States
<1>6. /\ reply' \in [Work -> Replies]
      /\ \A w \in Work : \/ reply'[w] = reply[w]
                         \/ w = active /\ reply'[w] = told
                         \/ w # active /\ InQueue(w) /\ reply'[w] = "unsent"
  <2>1. /\ Reply(failed, told) \in [Work -> Replies]
        /\ \A w \in Work : \/ Reply(failed, told)[w] = reply[w]
                           \/ w \in failed /\ Reply(failed, told)[w] = told
    <3>1. told \in Replies
      BY <1>4 DEF Replies
    <3> QED BY <1>2, <3>1, Replied
  <2>2. /\ Reply(queued, "unsent") \in [Work -> Replies]
        /\ \A w \in Work : \/ Reply(queued, "unsent")[w] = reply[w]
                           \/ w \in queued /\ Reply(queued, "unsent")[w] = "unsent"
    BY <1>2, Replied DEF Replies
  <2> QED BY <1>1, <1>3, <2>1, <2>2
<1>7. /\ <<>> \in Seq(Work) /\ Len(<<>>) = 0
      /\ \A w \in Work : ~InQueue(w)'
  BY <1>1 DEF InQueue
<1>8. TypeOK' /\ Wire'
  BY <1>1, <1>2, <1>5, <1>6, <1>7 DEF TypeOK, Wire, Executes, callers, Sent, Stations
<1>9. \A w \in Work : /\ Begun(w)' => Begun(w)
                      /\ Begun(w)' => w = Operation(w[1]) /\ w[1] \in ran
                      /\ Spared(w) => Spared(w)'
  BY <1>1, <1>5, Owners DEF Begun, Operation, Spared
<1>10. \A w \in Work : Tracked(w)'
  <2> TAKE w \in Work
  <2>1. Tracked(w) /\ (w = active => Begun(w))
    BY <1>2 DEF Tracked, Begun
  <2>2. /\ state[w] = "none" => state'[w] = "none" /\ w # active /\ ~InQueue(w)
        /\ state'[w] = "none" => state[w] = "none"
        /\ Begun(w)' => state'[w] \notin {"none", "queued"}
    BY <1>5, <1>9, <2>1 DEF Tracked
  <2>3. reply'[w] = "ok" => reply[w] = "ok"
    BY <1>4, <1>6
  <2>4. reply'[w] = "unsent" => Spared(w)' /\ state'[w] # "none"
    <3>1. CASE reply[w] = "unsent"
      BY <1>9, <2>1, <2>2, <3>1 DEF Tracked
    <3>2. CASE w = active /\ sent = "none"
      <4>1. ~Begun(w)'
        BY <1>2, <1>9, <3>2, Owners, Requests DEF Wire
      <4> QED BY <1>5, <3>2, <4>1 DEF Spared
    <3>3. CASE w # active /\ InQueue(w)
      <4>1. ~Begun(w)'
        BY <1>9, <2>1, <3>3 DEF Tracked
      <4> QED BY <1>5, <3>3, <4>1 DEF Spared
    <3> QED BY <1>4, <1>6, <3>1, <3>2, <3>3
  <2>5. /\ state'[w] # "none" /\ Executes(w) => w = Operation(w[1])
        /\ reply'[w] = "ok" /\ Executes(w) => w[1] \in ran'
    BY <1>1, <2>1, <2>2, <2>3 DEF Tracked
  <2> QED BY <1>7, <2>2, <2>4, <2>5 DEF Tracked, Executes, Operation
<1>11. \A w \in Work : state[w] = "none" => state'[w] = "none"
  BY <1>2, <1>5 DEF Tracked, Begun
<1> QED BY <1>1, <1>8, <1>9, <1>10, <1>11, CallersKept

\* What was queued after that is dropped with the channel.
LEMMA DoneGood == ASSUME TransportInv, Done PROVE TransportInv'
<1>1. /\ worker' = "done" /\ queue' = <<>> /\ \E works : reply' = Reply(works, "dropped")
      /\ UNCHANGED <<callers, state, late, active, sent, output, ran>>
  BY DEF Done, process
<1>2. TypeOK /\ Wire /\ \A v \in Work : Tracked(v)
  BY DEF TransportInv
<1>3. /\ reply' \in [Work -> Replies]
      /\ \A w \in Work : reply'[w] \in {reply[w], "dropped"}
  BY <1>1, <1>2, Replied DEF Replies
<1>4. /\ <<>> \in Seq(Work) /\ Len(<<>>) = 0
      /\ \A w \in Work : ~InQueue(w)'
  BY <1>1 DEF InQueue
<1>5. TypeOK' /\ Wire'
  BY <1>1, <1>2, <1>3, <1>4 DEF TypeOK, Wire, Executes, callers, Stations
<1>6. \A v \in Work : (Begun(v)' <=> Begun(v)) /\ (Spared(v) => Spared(v)')
  BY <1>1 DEF Begun, Operation, Spared
<1>7. \A v \in Work : Tracked(v)'
  BY <1>1, <1>2, <1>3, <1>4, <1>6 DEF Tracked, Executes, Operation
<1> QED BY <1>1, <1>5, <1>6, <1>7, CallersKept

\* The process acts on what it has whole.
LEMMA ActGood == ASSUME TransportInv, Act PROVE TransportInv'
<1> DEFINE w == active
<1>1. w # Nobody /\ sent = "full" /\ UNCHANGED <<callers, shared, thread>>
  BY DEF Act
<1>2. TypeOK /\ Wire /\ \A v \in Work : Tracked(v)
  BY DEF TransportInv
<1>3. UNCHANGED <<pc, request, result, state, reply, late, queue, worker, active, sent>>
  BY <1>1 DEF callers, shared, thread
<1>4. w \in Work /\ w[1] \in Clients
  BY <1>1, <1>2, Owners DEF TypeOK
<1>5. PICK outcome \in {"ok", "remote", "bad"} :
        /\ output' \in {output, <<w, outcome>>}
        /\ ran' \in {ran, ran \cup {w[1]}}
        /\ ~Executes(w) => ran' = ran
        /\ Executes(w) /\ outcome = "ok" => ran' = ran \cup {w[1]}
  <2>1. PICK outcome \in {"ok", "remote", "bad"} :
          /\ output' \in {output} \cup {l \in {<<w, outcome>>} : output = <<>>}
          /\ CASE w[2] = "prepare" -> UNCHANGED ran
               [] w[2] = "dispose" -> UNCHANGED ran
               [] w[2] \in {"execute", "commit"} /\ outcome = "remote" -> ran' \in {ran, ran \cup {w[1]}}
               [] OTHER -> ran' = ran \cup {w[1]}
    BY DEF Act
  <2>2. \/ w[2] = "prepare" /\ ran' = ran
        \/ w[2] = "dispose" /\ ran' = ran
        \/ w[2] \notin {"prepare", "dispose"} /\ outcome = "remote" /\ ran' \in {ran, ran \cup {w[1]}}
        \/ w[2] \notin {"prepare", "dispose"} /\ ran' = ran \cup {w[1]}
    <3>1. CASE w[2] \in {"prepare", "dispose"}
      BY <2>1, <3>1
    <3>2. CASE w[2] \notin {"prepare", "dispose"}
      BY <2>1, <3>2
    <3> QED BY <3>1, <3>2
  <2>3. w[2] \notin {"prepare", "dispose"} <=> Executes(w)
    BY <1>4 DEF Work, Executes
  <2>4. output' \in {output, <<w, outcome>>}
    BY <2>1
  <2> QED BY <2>2, <2>3, <2>4 DEF Executes
<1>6. Executes(w) => w = Operation(w[1])
  BY <1>2, <1>4 DEF Tracked, Begun
<1>7. \A v \in Work : Begun(v)' <=> Begun(v)
  <2> TAKE v \in Work
  <2>1. Begun(v)' <=> active = v \/ (v = Operation(v[1]) /\ v[1] \in ran')
    BY <1>3 DEF Begun, Operation
  <2>2. CASE ran' = ran
    BY <2>1, <2>2 DEF Begun
  <2>3. CASE Executes(w) /\ ran' = ran \cup {w[1]}
    <3>1. v = Operation(v[1]) /\ v[1] = w[1] => v = w
      BY <1>6, <2>3
    <3> QED BY <2>1, <2>3, <3>1 DEF Begun
  <2> QED BY <1>5, <2>2, <2>3
<1>8. TypeOK'
  <2>1. output' \in Lines \cup {<<>>} /\ ran' \subseteq Clients
    BY <1>2, <1>4, <1>5 DEF TypeOK, Lines
  <2> QED BY <1>2, <1>3, <2>1 DEF TypeOK
<1>9. Wire'
  <2>1. output' # <<>> /\ output'[2] = "ok" /\ Executes(output'[1]) => output'[1][1] \in ran'
    BY <1>2, <1>5 DEF Wire
  <2> QED BY <1>1, <1>2, <1>3, <2>1 DEF Wire, Executes
<1>10. \A v \in Work : Tracked(v)'
  BY <1>2, <1>3, <1>5, <1>7 DEF Tracked, Spared, Executes, Operation, InQueue
<1>11. \A v \in Work : (state[v] = "none" => state'[v] = "none") /\ (Spared(v) => Spared(v)')
  BY <1>3, <1>7 DEF Spared
<1> QED BY <1>1, <1>5, <1>8, <1>9, <1>10, <1>11, CallersKept

\* A line nobody asked for answers nothing.
LEMMA BabbleGood == ASSUME TransportInv, Babble PROVE TransportInv'
<1>1. /\ output' = <<Nobody, "babble">> /\ UNCHANGED <<callers, shared, thread, ran>>
  BY DEF Babble
<1>2. UNCHANGED <<pc, request, result, state, reply, late, queue, worker, active, sent, ran>>
  BY <1>1 DEF callers, shared, thread
<1>3. TypeOK /\ Wire /\ \A v \in Work : Tracked(v)
  BY DEF TransportInv
<1>4. output' \in Lines /\ output'[2] # "ok"
  BY <1>1 DEF Lines
<1>5. TypeOK' /\ Wire'
  BY <1>2, <1>3, <1>4 DEF TypeOK, Wire, Executes
<1>6. \A v \in Work : (Begun(v)' <=> Begun(v)) /\ (Spared(v) => Spared(v)')
  BY <1>2 DEF Begun, Operation, Spared
<1>7. \A v \in Work : Tracked(v)'
  BY <1>2, <1>3, <1>6, SameRequest DEF InQueue
<1> QED BY <1>1, <1>2, <1>5, <1>6, <1>7, CallersKept

\* Nothing has been asked for, queued or told.
LEMMA InitInv == Init => TransportInv
<1> SUFFICES ASSUME Init PROVE TransportInv
  OBVIOUS
<1>1. /\ pc = [c \in Clients |-> "start"] /\ request = [c \in Clients |-> Nobody]
      /\ result = [c \in Clients |-> "none"]
      /\ state = [w \in Work |-> "none"] /\ reply = [w \in Work |-> "none"]
      /\ late = {} /\ queue = <<>> /\ worker = "take" /\ active = Nobody /\ sent = "none"
      /\ output = <<>> /\ ran = {}
  BY DEF Init
<1>2. <<>> \in Seq(Work) /\ Len(<<>>) = 0 /\ \A w \in Work : ~InQueue(w)
  BY <1>1 DEF InQueue
<1>3. TypeOK /\ Wire
  BY <1>1, <1>2 DEF TypeOK, Wire, Points, Results, States, Replies, Stations, Sent
<1>4. \A w \in Work : Tracked(w)
  BY <1>1, <1>2, Owners DEF Tracked, Begun
<1>5. \A c \in Clients : Ordered(c) /\ Told(c)
  BY <1>1, Requests DEF Ordered, Told, Leaves
<1> QED BY <1>3, <1>4, <1>5 DEF TransportInv

\* Every step keeps the invariant.
LEMMA StepGood == TransportInv /\ [Next]_vars => TransportInv'
<1> SUFFICES ASSUME TransportInv, [Next]_vars PROVE TransportInv'
  OBVIOUS
<1>1. ASSUME Shutdown \/ Refuse \/ Kill \/ ExitByItself \/ UNCHANGED vars PROVE TransportInv'
  <2>1. UNCHANGED <<pc, request, result, state, reply, late, queue, worker, active, sent,
                    output, ran>>
    BY <1>1 DEF Shutdown, Close, Refuse, Kill, ExitByItself, vars, callers, shared, thread, process
  <2> QED BY <2>1, QuietGood
<1>2. CASE Worker
  BY <1>2, TakeGood, ReadGood, WriteGood, CleanupGood, DoneGood DEF Worker
<1>3. CASE Act \/ Babble
  BY <1>3, ActGood, BabbleGood
<1>4. ASSUME NEW c \in Clients, Caller(c) PROVE TransportInv'
  BY <1>4, CallGood, RefusedGood, SendGood, ReceiveGood, TimerGood, GiveUpGood, CancelGood
     DEF Caller
<1>5. ASSUME NEW w \in Work, Expire(w) PROVE TransportInv'
  BY <1>5, ExpireGood
<1> QED BY <1>1, <1>2, <1>3, <1>4, <1>5 DEF Next

-----------------------------------------------------------------------------
(* The theorems.                                                           *)

\* A request is queued once and begins only from the queue, an operation runs
\* only when its request is at the process whole, and a request nobody will
\* take any more has not begun.
THEOREM Invariance == Spec => []TransportInv
BY InitInv, StepGood, PTL DEF Spec

\* What a caller is told of the execution of its operation is true when it is
\* told and stays true (transport.rs:437-459, 530-570).
THEOREM ExecutionReportedHolds == Spec => []ExecutionReported
<1>1. TransportInv => ExecutionReported
  <2> SUFFICES ASSUME TransportInv, NEW c \in Clients
               PROVE  /\ result[c] = "unexecuted" => c \notin ran
                      /\ result[c] = "ok" => c \in ran
    BY DEF ExecutionReported
  <2>1. Told(c)
    BY DEF TransportInv
  <2> QED BY <2>1, Requests DEF Told, Spared, Begun
<1> QED BY <1>1, Invariance, PTL
=============================================================================
