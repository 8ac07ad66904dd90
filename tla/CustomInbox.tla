---------------------------- MODULE CustomInbox ----------------------------
(***************************************************************************)
(* The next-turn inbox of an agent (custom_inbox.rs of                     *)
(* src/crates/aicoder-core/src) and the runs that fill and empty it: a     *)
(* host sends a message through a run, and the preparation of a later run  *)
(* of the session claims what waits, records it with its first transaction *)
(* and consumes the claim (agent.rs).  Sessions share the inbox and its    *)
(* limit; agents that share it run at the same time.                       *)
(*                                                                         *)
(* The byte limit, which refuses like the limit of the count, is left out. *)
(***************************************************************************)
EXTENDS Naturals, Sequences, FiniteSets, SequencesExt

CONSTANTS
  Runs,       \* runs in flight at once; one that has ended is started again
  Sessions,
  MaxEntries, \* 32 in the code
  MaxId       \* u64::MAX in the code

NoRun == "no run"
ASSUME InboxAssumption == MaxEntries \in Nat /\ MaxId \in Nat /\ NoRun \notin Runs

VARIABLES
  next, entries,  \* State: the next id and the messages
  run,            \* run -> its stage, its session and the messages of its claim
  lease,          \* session -> the run that owns it
  accepted,       \* history: session -> ids told to hosts and not discarded
  delivered       \* history: session -> ids in acknowledged transactions

vars == <<next, entries, run, lease, accepted, delivered>>

Off == [stage |-> "off", session |-> "none", messages |-> <<>>]
Ids(messages) == [i \in DOMAIN messages |-> messages[i].id]

\* The elements of a sequence at some of its positions, in their order.
Kept(q, positions) ==
  [k \in 1..Cardinality(positions) |->
     q[CHOOSE i \in positions : Cardinality({j \in positions : j <= i}) = k]]
Of(s) == Kept(entries, {i \in DOMAIN entries : entries[i].session = s})

Init ==
  /\ next = 1 /\ entries = <<>>
  /\ run = [r \in Runs |-> Off]
  /\ lease = [s \in Sessions |-> NoRun]
  /\ accepted = [s \in Sessions |-> <<>>]
  /\ delivered = [s \in Sessions |-> <<>>]

-----------------------------------------------------------------------------
(* Hosts                                                                   *)

\* push, through a run that knows its session.
Push(r) ==
  LET s == run[r].session IN
  /\ run[r].stage # "off" /\ Len(entries) < MaxEntries /\ next < MaxId
  /\ next' = next + 1
  /\ entries' = Append(entries, [id |-> next, session |-> s, claim |-> NoRun])
  /\ accepted' = [accepted EXCEPT ![s] = Append(@, next)]
  /\ UNCHANGED <<run, lease, delivered>>

\* discard; a claimed message is busy.
Discard(i) ==
  LET e == entries[i] IN
  /\ e.claim = NoRun
  /\ entries' = Kept(entries, DOMAIN entries \ {i})
  /\ accepted' = [accepted EXCEPT ![e.session] = Kept(@, {k \in DOMAIN @ : @[k] # e.id})]
  /\ UNCHANGED <<next, run, lease, delivered>>

-----------------------------------------------------------------------------
(* A run                                                                   *)

To(r, stage) == run' = [run EXCEPT ![r].stage = stage]

\* The control learns the session before the session is acquired.
Bind(r, s) ==
  /\ run[r].stage = "off"
  /\ run' = [run EXCEPT ![r] = [Off EXCEPT !.stage = "bound", !.session = s]]
  /\ UNCHANGED <<next, entries, lease, accepted, delivered>>

Acquire(r) ==
  /\ run[r].stage = "bound" /\ lease[run[r].session] = NoRun
  /\ lease' = [lease EXCEPT ![run[r].session] = r] /\ To(r, "leased")
  /\ UNCHANGED <<next, entries, accepted, delivered>>

\* claim, after the trigger's hooks; it fails while another claim of the
\* session is alive.
Claim(r) ==
  LET s == run[r].session IN
  /\ run[r].stage = "leased" /\ \A i \in DOMAIN Of(s) : Of(s)[i].claim = NoRun
  /\ entries' = [i \in DOMAIN entries |->
                   IF entries[i].session = s THEN [entries[i] EXCEPT !.claim = r] ELSE entries[i]]
  /\ run' = [run EXCEPT ![r].stage = "claimed", ![r].messages = Ids(Of(s))]
  /\ UNCHANGED <<next, lease, accepted, delivered>>

\* session.append is acknowledged. One that fails is a drop of the claim: what
\* it may have written is not acknowledged.
Record(r) ==
  LET s == run[r].session IN
  /\ run[r].stage = "claimed" /\ To(r, "recorded")
  /\ delivered' = [delivered EXCEPT ![s] = @ \o run[r].messages]
  /\ UNCHANGED <<next, entries, lease, accepted>>

\* CustomClaim::commit, in a critical section of its own.
Commit_WholeSession(r) ==
  /\ run[r].stage = "recorded" /\ To(r, "running")
  /\ entries' = Kept(entries, {i \in DOMAIN entries : entries[i].session # run[r].session})
  /\ UNCHANGED <<next, lease, accepted, delivered>>
Commit(r) ==
  /\ run[r].stage = "recorded" /\ To(r, "running")
  /\ entries' = Kept(entries, {i \in DOMAIN entries : entries[i].claim # r})
  /\ UNCHANGED <<next, lease, accepted, delivered>>

\* The preparation fails or is dropped while it holds the claim: a hook, the
\* model's admission or the append returned an error, or the host gave up.
DropClaim(r) ==
  /\ run[r].stage = "claimed" /\ To(r, "leaving")
  /\ entries' = [i \in DOMAIN entries |->
                   IF entries[i].claim = r THEN [entries[i] EXCEPT !.claim = NoRun] ELSE entries[i]]
  /\ UNCHANGED <<next, lease, accepted, delivered>>

\* A run that holds no claim ends: refused, failed, dropped or finished. Its
\* lease is dropped after its claim.
Leave(r) ==
  /\ run[r].stage \in {"bound", "leased", "leaving", "running"}
  /\ run' = [run EXCEPT ![r] = Off]
  /\ lease' = [s \in Sessions |-> IF lease[s] = r THEN NoRun ELSE lease[s]]
  /\ UNCHANGED <<next, entries, accepted, delivered>>

Next ==
  \/ \E i \in DOMAIN entries : Discard(i)
  \/ \E r \in Runs :
       \/ \E s \in Sessions : Bind(r, s)
       \/ Push(r) \/ Acquire(r) \/ Claim(r) \/ Record(r) \/ Commit(r)
       \/ DropClaim(r) \/ Leave(r)
Spec == Init /\ [][Next]_vars

-----------------------------------------------------------------------------
(* Properties                                                              *)

\* Waiting and not yet in an acknowledged transaction.
Undelivered(s) ==
  Ids(Kept(entries, {i \in DOMAIN entries :
    entries[i].session = s /\ entries[i].id \notin ToSet(delivered[s])}))

\* Every accepted message is acknowledged once, in the order of acceptance, or
\* still waits; and one that waits is never left claimed by a preparation that
\* is over, which no host could discard and no run deliver
\* (custom_inbox.rs:109-166, agent.rs:714-784).
NextTurnKept ==
  /\ \A s \in Sessions : delivered[s] \o Undelivered(s) = accepted[s]
  /\ \A i \in DOMAIN entries : entries[i].claim # NoRun =>
       /\ run[entries[i].claim].stage \in {"claimed", "recorded"}
       /\ lease[entries[i].session] = entries[i].claim
=============================================================================
