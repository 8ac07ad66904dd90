------------------------- MODULE CustomInboxProofs -------------------------
(***************************************************************************)
(* Theorems about CustomInbox, for any runs, sessions and limits.          *)
(***************************************************************************)
EXTENDS CustomInbox, Integers, FiniteSetTheorems, SequenceTheorems, TLAPS

-----------------------------------------------------------------------------
(* The invariant.                                                          *)

Message == [id : Nat, session : Sessions, claim : Runs \cup {NoRun}]
Stages == {"off", "bound", "leased", "claimed", "recorded", "leaving", "running"}

\* The stages of a run that owns its session.
Owning == {"leased", "claimed", "recorded", "leaving", "running"}

TypeOK ==
  /\ next \in Nat /\ entries \in Seq(Message)
  /\ run \in [Runs -> [stage : Stages, session : Sessions \cup {"none"}, messages : Seq(Nat)]]
  /\ \A r \in Runs : run[r].stage # "off" => run[r].session \in Sessions
  /\ lease \in [Sessions -> Runs \cup {NoRun}]
  /\ accepted \in [Sessions -> Seq(Nat)] /\ delivered \in [Sessions -> Seq(Nat)]

\* Each element is greater than those before it.
Ascending(q) == \A i, j \in DOMAIN q : i < j => q[i] < q[j]

\* Messages are numbered in the order of acceptance.
Numbered ==
  /\ Ascending(Ids(entries)) /\ \A i \in DOMAIN entries : entries[i].id < next
  /\ \A s \in Sessions :
       /\ Ascending(accepted[s]) /\ Ascending(delivered[s])
       /\ \A id \in ToSet(accepted[s]) : id < next

\* What was accepted was delivered or is in the inbox.
InInbox(s) == {entries[i].id : i \in {j \in DOMAIN entries : entries[j].session = s}}
Whole == \A s \in Sessions : ToSet(accepted[s]) = ToSet(delivered[s]) \cup InInbox(s)

\* A claimed message belongs to the session of the run that claimed it, and a
\* run that acquired its session owns it.
Owned ==
  /\ \A i \in DOMAIN entries : entries[i].claim # NoRun =>
       /\ run[entries[i].claim].stage \in {"claimed", "recorded"}
       /\ run[entries[i].claim].session = entries[i].session
  /\ \A r \in Runs : run[r].stage \in Owning => lease[run[r].session] = r

\* A claim holds the oldest messages of its session; they are the run's, and
\* they are delivered between its record and its commit.
Recorded(e) == e.claim # NoRun /\ run[e.claim].stage = "recorded"
Claimed ==
  /\ \A r \in Runs : run[r].stage = "claimed" =>
       /\ Ascending(run[r].messages)
       /\ ToSet(run[r].messages) = {entries[i].id : i \in {j \in DOMAIN entries : entries[j].claim = r}}
  /\ \A i \in DOMAIN entries :
       entries[i].id \in ToSet(delivered[entries[i].session]) <=> Recorded(entries[i])
  /\ \A i, j \in DOMAIN entries :
       entries[i].session = entries[j].session /\ entries[i].claim # NoRun
         /\ entries[j].claim = NoRun => entries[i].id < entries[j].id
  /\ \A i \in DOMAIN entries : ~Recorded(entries[i]) =>
       \A id \in ToSet(delivered[entries[i].session]) : id < entries[i].id

InboxInv == TypeOK /\ Numbered /\ Whole /\ Owned /\ Claimed

-----------------------------------------------------------------------------
(* Sequences: what is kept of one, and ascending ones.                     *)

\* How many of the positions come up to i, and the position of that number.
Rank(positions, i) == Cardinality({j \in positions : j <= i})
Place(positions, k) == CHOOSE i \in positions : Rank(positions, i) = k

\* Finitely many numbers are counted by their ranks, in their order.
LEMMA Ranks ==
  ASSUME NEW P \in SUBSET Nat, IsFiniteSet(P)
  PROVE  /\ Cardinality(P) \in Nat
         /\ \A i \in P : Rank(P, i) \in 1..Cardinality(P)
         /\ \A i, j \in P : i < j => Rank(P, i) < Rank(P, j)
         /\ \A k \in 1..Cardinality(P) : \E i \in P : Rank(P, i) = k
<1> DEFINE upTo(i) == {j \in P : j <= i}
           rank == [i \in P |-> Rank(P, i)]
<1>1. Cardinality(P) \in Nat
  BY FS_CardinalityType
<1>2. ASSUME NEW i \in P
      PROVE  /\ IsFiniteSet(upTo(i)) /\ Rank(P, i) = Cardinality(upTo(i))
             /\ Rank(P, i) \in 1..Cardinality(P)
  <2>1. upTo(i) \in SUBSET P /\ {i} \in SUBSET upTo(i)
    OBVIOUS
  <2>2. IsFiniteSet(upTo(i)) /\ Cardinality(upTo(i)) <= Cardinality(P)
    BY <2>1, FS_Subset
  <2>3. Cardinality({i}) = 1 /\ Cardinality({i}) <= Cardinality(upTo(i))
    BY <2>1, <2>2, FS_Subset, FS_Singleton
  <2>4. Cardinality(upTo(i)) \in Nat
    BY <2>2, FS_CardinalityType
  <2>5. Rank(P, i) = Cardinality(upTo(i))
    BY DEF Rank
  <2> HIDE DEF upTo
  <2> QED BY <1>1, <2>2, <2>3, <2>4, <2>5
<1>3. ASSUME NEW i \in P, NEW j \in P, i < j
      PROVE  Rank(P, i) < Rank(P, j)
  <2>1. upTo(i) \in SUBSET upTo(j) /\ j \in upTo(j) /\ j \notin upTo(i)
    <3>1. i \in Nat /\ j \in Nat /\ \A l \in P : l \in Nat
      OBVIOUS
    <3>2. \A l \in P : l <= i => l <= j
      BY <1>3, <3>1
    <3>3. j <= j /\ ~(j <= i)
      BY <1>3, <3>1
    <3>4. \A l : l \in upTo(i) => l \in upTo(j)
      BY <3>2, Zenon
    <3>5. j \in upTo(j) /\ j \notin upTo(i)
      BY <3>3, Zenon
    <3> HIDE DEF upTo
    <3> QED BY <3>4, <3>5
  <2>2. /\ Cardinality(upTo(i)) <= Cardinality(upTo(j))
        /\ Cardinality(upTo(j)) # Cardinality(upTo(i))
    BY <1>2, <2>1, FS_Subset
  <2>3. Rank(P, i) = Cardinality(upTo(i)) /\ Rank(P, j) = Cardinality(upTo(j))
        /\ Rank(P, i) \in Nat /\ Rank(P, j) \in Nat
    BY <1>2
  <2> HIDE DEF upTo
  <2> QED BY <2>2, <2>3
<1>4. rank \in [P -> 1..Cardinality(P)] /\ \A i, j \in P : i # j => rank[i] # rank[j]
  <2>1. \A i \in P : rank[i] = Rank(P, i) /\ rank[i] \in 1..Cardinality(P)
    BY <1>2
  <2>2. \A i, j \in P : i < j => rank[i] # rank[j]
    BY <1>1, <1>3, <2>1
  <2>3. \A i, j \in P : i # j => i < j \/ j < i
    OBVIOUS
  <2>4. rank \in [P -> 1..Cardinality(P)]
    BY <2>1
  <2> HIDE DEF rank
  <2> QED BY <2>2, <2>3, <2>4
<1>5. \A k \in 1..Cardinality(P) : \E i \in P : rank[i] = k
  <2> HIDE DEF rank
  <2>1. rank \in Injection(P, 1..Cardinality(P))
    BY <1>4 DEF Injection, IsInjective
  <2>2. IsFiniteSet(1..Cardinality(P)) /\ Cardinality(1..Cardinality(P)) = Cardinality(P)
    BY <1>1, FS_Interval
  <2>3. rank \in Surjection(P, 1..Cardinality(P))
    BY <2>1, <2>2, FS_Injection
  <2> QED BY <2>3 DEF Surjection
<1> QED BY <1>1, <1>2, <1>3, <1>5

\* What is kept are the elements at the positions, in their order.
LEMMA KeptProperties ==
  ASSUME NEW S, NEW q \in Seq(S), NEW P \in SUBSET DOMAIN q
  PROVE  /\ Kept(q, P) \in Seq(S)
         /\ \A k \in DOMAIN Kept(q, P) :
              Place(P, k) \in P /\ Kept(q, P)[k] = q[Place(P, k)]
         /\ \A k, l \in DOMAIN Kept(q, P) : k < l => Place(P, k) < Place(P, l)
         /\ \A i \in P : \E k \in DOMAIN Kept(q, P) : Place(P, k) = i
<1>1. DOMAIN q = 1..Len(q) /\ Len(q) \in Nat
  BY LenProperties
<1>2. P \in SUBSET Nat /\ IsFiniteSet(P)
  <2>1. IsFiniteSet(DOMAIN q)
    BY <1>1, FS_Interval
  <2>2. IsFiniteSet(P)
    BY <2>1, FS_Subset
  <2>3. DOMAIN q \subseteq Nat
    BY <1>1
  <2> QED BY <2>2, <2>3
<1> DEFINE n == Cardinality(P)
<1>3. /\ n \in Nat
      /\ \A i \in P : Rank(P, i) \in 1..n
      /\ \A i, j \in P : i < j => Rank(P, i) < Rank(P, j)
      /\ \A k \in 1..n : \E i \in P : Rank(P, i) = k
  BY <1>2, Ranks
<1>4. Kept(q, P) = [k \in 1..n |-> q[Place(P, k)]]
  BY DEF Kept, Place, Rank
<1> HIDE DEF n
<1>5. \A k \in 1..n : Place(P, k) \in P /\ Rank(P, Place(P, k)) = k
  BY <1>3 DEF Place
<1>6. ASSUME NEW k \in 1..n, NEW l \in 1..n, k < l
      PROVE  Place(P, k) < Place(P, l)
  <2> DEFINE a == Place(P, k)
             b == Place(P, l)
  <2>1. a \in P /\ b \in P /\ Rank(P, a) = k /\ Rank(P, b) = l /\ a \in Nat /\ b \in Nat
    BY <1>2, <1>5
  <2> HIDE DEF a, b
  <2>2. a = b \/ b < a \/ a < b
    BY <2>1
  <2>3. k \in Nat /\ l \in Nat /\ ~(l < k) /\ k # l
    BY <1>3, <1>6
  <2>4. ~(b < a)
    <3>1. b < a => Rank(P, b) < Rank(P, a)
      BY <1>3, <2>1
    <3> QED BY <2>1, <2>3, <3>1
  <2>5. a # b
    BY <2>1, <2>3
  <2> QED BY <2>2, <2>4, <2>5 DEF a, b
<1>7. ASSUME NEW i \in P PROVE \E k \in 1..n : Place(P, k) = i
  <2> DEFINE k == Rank(P, i)
             a == Place(P, k)
  <2>1. k \in 1..n /\ a \in P /\ Rank(P, a) = k /\ a \in Nat /\ i \in Nat
    BY <1>2, <1>3, <1>5
  <2>2. ~(a < i) /\ ~(i < a)
    <3>1. Rank(P, a) = Rank(P, i) /\ Rank(P, i) \in Int
      BY <1>3, <2>1
    <3> HIDE DEF a, k
    <3>2. /\ a < i => Rank(P, a) < Rank(P, i)
          /\ i < a => Rank(P, i) < Rank(P, a)
      BY <1>3, <2>1
    <3> QED BY <3>1, <3>2
  <2>3. a = i
    <3> HIDE DEF a, k
    <3> QED BY <2>1, <2>2
  <2> QED BY <2>1, <2>3
<1>8. Kept(q, P) \in Seq(S)
  <2>1. \A k \in 1..n : q[Place(P, k)] \in S
    BY <1>1, <1>5, ElementOfSeq
  <2> QED BY <1>3, <1>4, <2>1
<1> QED BY <1>4, <1>5, <1>6, <1>7, <1>8

\* An ascending sequence is determined by its members: each has as many members
\* up to it as its place says.
LEMMA AscendingRank ==
  ASSUME NEW q \in Seq(Nat), Ascending(q), NEW k \in DOMAIN q
  PROVE  Rank(ToSet(q), q[k]) = k
<1> DEFINE below == {v \in ToSet(q) : v <= q[k]}
           at == [l \in 1..k |-> q[l]]
<1>1. DOMAIN q = 1..Len(q) /\ Len(q) \in Nat /\ \A l \in DOMAIN q : q[l] \in Nat
  BY LenProperties, ElementOfSeq
<1>2. k \in Nat /\ 1..k \subseteq DOMAIN q /\ \A l \in DOMAIN q : l \in Nat /\ (l <= k => l \in 1..k)
  BY <1>1
<1>3. \A i, j \in DOMAIN q : (i < j => q[i] < q[j]) /\ (q[i] <= q[j] => i <= j)
  BY <1>1 DEF Ascending
<1>4. at \in [1..k -> below]
  <2>1. ASSUME NEW l \in 1..k PROVE q[l] \in below
    <3>1. l \in DOMAIN q /\ (l = k \/ l < k)
      BY <1>2
    <3>2. q[l] <= q[k]
      BY <1>1, <1>3, <3>1
    <3> QED BY <3>1, <3>2 DEF ToSet
  <2> QED BY <2>1
<1>5. \A i, j \in 1..k : at[i] = at[j] => i = j
  <2>1. \A i, j \in DOMAIN q : q[i] = q[j] => i = j
    BY <1>1, <1>3
  <2> QED BY <1>2, <2>1
<1>6. \A v \in below : \E l \in 1..k : at[l] = v
  BY <1>1, <1>2, <1>3 DEF ToSet
<1> HIDE DEF at, below
<1>7. at \in Bijection(1..k, below)
  BY <1>4, <1>5, <1>6 DEF Bijection, Injection, Surjection, IsInjective
<1>8. IsFiniteSet(1..k) /\ Cardinality(1..k) = k
  BY <1>1, <1>2, FS_Interval
<1>9. Cardinality(below) = k
  BY <1>7, <1>8, FS_Bijection DEF ExistsBijection
<1> QED BY <1>9 DEF Rank, below

LEMMA AscendingUnique ==
  ASSUME NEW p \in Seq(Nat), NEW q \in Seq(Nat), Ascending(p), Ascending(q),
         ToSet(p) = ToSet(q)
  PROVE  p = q
<1>1. \A k \in DOMAIN p : Rank(ToSet(p), p[k]) = k
  BY AscendingRank
<1>2. \A k \in DOMAIN q : Rank(ToSet(p), q[k]) = k
  BY AscendingRank
<1>3. ASSUME NEW k \in DOMAIN p PROVE k \in DOMAIN q /\ p[k] = q[k]
  <2>1. PICK l \in DOMAIN q : q[l] = p[k]
    BY DEF ToSet
  <2>2. Rank(ToSet(p), p[k]) = k /\ Rank(ToSet(p), q[l]) = l
    BY <1>1, <1>2
  <2> QED BY <2>1, <2>2
<1>4. ASSUME NEW k \in DOMAIN q PROVE k \in DOMAIN p
  <2>1. PICK l \in DOMAIN p : p[l] = q[k]
    BY DEF ToSet
  <2>2. Rank(ToSet(p), q[k]) = k /\ Rank(ToSet(p), p[l]) = l
    BY <1>1, <1>2
  <2> QED BY <2>1, <2>2
<1>5. p = [k \in DOMAIN p |-> p[k]] /\ q = [k \in DOMAIN q |-> q[k]]
  OBVIOUS
<1>6. DOMAIN p = DOMAIN q
  BY <1>3, <1>4
<1> QED BY <1>3, <1>5, <1>6

\* Ascending sequences one after the other.
LEMMA ConcatAscending ==
  ASSUME NEW p \in Seq(Nat), NEW q \in Seq(Nat), Ascending(p), Ascending(q),
         \A a \in ToSet(p), b \in ToSet(q) : a < b
  PROVE  /\ p \o q \in Seq(Nat) /\ Ascending(p \o q)
         /\ ToSet(p \o q) = ToSet(p) \cup ToSet(q)
<1> DEFINE m == Len(p)
           r == p \o q
<1>1. /\ DOMAIN p = 1..m /\ m \in Nat /\ DOMAIN q = 1..Len(q) /\ Len(q) \in Nat
      /\ r \in Seq(Nat) /\ DOMAIN r = 1..(m + Len(q))
      /\ \A k \in DOMAIN r : r[k] = IF k <= m THEN p[k] ELSE q[k - m]
  BY LenProperties, ConcatProperties
<1> HIDE DEF m, r
<1>2. /\ \A k \in DOMAIN r : \/ k \in DOMAIN p /\ r[k] = p[k]
                             \/ k > m /\ k - m \in DOMAIN q /\ r[k] = q[k - m]
      /\ \A k \in DOMAIN p : k \in DOMAIN r /\ r[k] = p[k] /\ k <= m
      /\ \A k \in DOMAIN q : m + k \in DOMAIN r /\ r[m + k] = q[k]
  <2>1. ASSUME NEW k \in DOMAIN q PROVE m + k \in DOMAIN r /\ r[m + k] = q[k]
    <3>1. k \in Nat /\ 1 <= k /\ k <= Len(q)
      BY <1>1
    <3>2. m + k \in 1..(m + Len(q)) /\ ~(m + k <= m) /\ (m + k) - m = k
      BY <1>1, <3>1
    <3> QED BY <1>1, <3>2
  <2>2. \A k \in DOMAIN p : k \in DOMAIN r /\ r[k] = p[k] /\ k <= m
    BY <1>1
  <2>3. \A k \in DOMAIN r : \/ k \in DOMAIN p /\ r[k] = p[k]
                            \/ k > m /\ k - m \in DOMAIN q /\ r[k] = q[k - m]
    BY <1>1
  <2> QED BY <2>1, <2>2, <2>3
<1>3. Ascending(r)
  <2> SUFFICES ASSUME NEW i \in DOMAIN r, NEW j \in DOMAIN r, i < j PROVE r[i] < r[j]
    BY DEF Ascending
  <2>1. CASE j \in DOMAIN p /\ r[j] = p[j]
    <3>1. i \in DOMAIN p /\ r[i] = p[i]
      BY <1>1, <2>1
    <3> QED BY <2>1, <3>1 DEF Ascending
  <2>2. CASE j > m /\ j - m \in DOMAIN q /\ r[j] = q[j - m]
    <3>1. CASE i \in DOMAIN p /\ r[i] = p[i]
      BY <2>2, <3>1 DEF ToSet
    <3>2. CASE i > m /\ i - m \in DOMAIN q /\ r[i] = q[i - m]
      <4>1. i - m < j - m
        BY <1>1
      <4> QED BY <2>2, <3>2, <4>1 DEF Ascending
    <3> QED BY <1>2, <3>1, <3>2
  <2> QED BY <1>2, <2>1, <2>2
<1>4. ToSet(r) = ToSet(p) \cup ToSet(q)
  <2>1. ToSet(r) \subseteq ToSet(p) \cup ToSet(q)
    BY <1>2 DEF ToSet
  <2>2. ToSet(p) \subseteq ToSet(r)
    BY <1>2 DEF ToSet
  <2>3. ToSet(q) \subseteq ToSet(r)
    BY <1>2 DEF ToSet
  <2> QED BY <2>1, <2>2, <2>3
<1> QED BY <1>1, <1>3, <1>4 DEF r

\* A greater number at the end.
LEMMA AppendAscending ==
  ASSUME NEW q \in Seq(Nat), Ascending(q), NEW n \in Nat, \A a \in ToSet(q) : a < n
  PROVE  /\ Append(q, n) \in Seq(Nat) /\ Ascending(Append(q, n))
         /\ ToSet(Append(q, n)) = ToSet(q) \cup {n}
<1> DEFINE r == Append(q, n)
<1>1. /\ DOMAIN q = 1..Len(q) /\ Len(q) \in Nat
      /\ r \in Seq(Nat) /\ DOMAIN r = 1..(Len(q) + 1)
      /\ r[Len(q) + 1] = n /\ \A k \in DOMAIN q : r[k] = q[k]
  BY LenProperties, AppendProperties
<1> HIDE DEF r
<1>2. \A k \in DOMAIN r : k \in DOMAIN q \/ k = Len(q) + 1
  BY <1>1
<1>3. Ascending(r)
  <2> SUFFICES ASSUME NEW i \in DOMAIN r, NEW j \in DOMAIN r, i < j PROVE r[i] < r[j]
    BY DEF Ascending
  <2>1. i \in DOMAIN q
    BY <1>1
  <2>2. CASE j \in DOMAIN q
    BY <1>1, <2>1, <2>2 DEF Ascending
  <2>3. CASE j = Len(q) + 1
    BY <1>1, <2>1, <2>3 DEF ToSet
  <2> QED BY <1>2, <2>2, <2>3
<1>4. ToSet(r) = ToSet(q) \cup {n}
  <2>1. DOMAIN r = DOMAIN q \cup {Len(q) + 1}
    BY <1>1
  <2> QED BY <1>1, <2>1 DEF ToSet
<1> QED BY <1>1, <1>3, <1>4 DEF r

\* What is kept of an ascending sequence ascends.
LEMMA KeptAscending ==
  ASSUME NEW q \in Seq(Nat), Ascending(q), NEW P \in SUBSET DOMAIN q
  PROVE  /\ Kept(q, P) \in Seq(Nat) /\ Ascending(Kept(q, P))
         /\ ToSet(Kept(q, P)) = {q[i] : i \in P}
<1> DEFINE r == Kept(q, P)
<1>1. /\ r \in Seq(Nat)
      /\ \A k \in DOMAIN r : Place(P, k) \in P /\ r[k] = q[Place(P, k)]
      /\ \A k, l \in DOMAIN r : k < l => Place(P, k) < Place(P, l)
      /\ \A i \in P : \E k \in DOMAIN r : Place(P, k) = i
  BY KeptProperties
<1> HIDE DEF r
<1>2. Ascending(r)
  BY <1>1 DEF Ascending
<1>3. ToSet(r) = {q[i] : i \in P}
  BY <1>1 DEF ToSet
<1> QED BY <1>1, <1>2, <1>3 DEF r

-----------------------------------------------------------------------------
(* The messages of the inbox.                                              *)

\* A message of the inbox has the type of one, and its number is its own.
LEMMA Messages ==
  ASSUME TypeOK, Numbered
  PROVE  /\ \A i \in DOMAIN entries :
              /\ entries[i] \in Message /\ entries[i].id \in Nat
              /\ entries[i].session \in Sessions /\ entries[i].claim \in Runs \cup {NoRun}
         /\ DOMAIN entries = 1..Len(entries) /\ Len(entries) \in Nat
         /\ \A i, j \in DOMAIN entries : i < j => entries[i].id < entries[j].id
         /\ \A i, j \in DOMAIN entries : entries[i].id = entries[j].id => i = j
<1>1. DOMAIN entries = 1..Len(entries) /\ Len(entries) \in Nat
  BY LenProperties DEF TypeOK
<1>2. \A i \in DOMAIN entries : entries[i] \in Message
  BY <1>1, ElementOfSeq DEF TypeOK
<1>3. \A i \in DOMAIN entries :
        /\ entries[i].id \in Nat /\ entries[i].session \in Sessions
        /\ entries[i].claim \in Runs \cup {NoRun}
  BY <1>2 DEF Message
<1>4. \A i, j \in DOMAIN entries : i < j => entries[i].id < entries[j].id
  BY DEF Numbered, Ascending, Ids
<1>5. \A i, j \in DOMAIN entries : entries[i].id = entries[j].id => i = j
  <2> SUFFICES ASSUME NEW i \in DOMAIN entries, NEW j \in DOMAIN entries, i # j
               PROVE  entries[i].id # entries[j].id
    OBVIOUS
  <2>1. i < j \/ j < i
    BY <1>1
  <2> QED BY <1>3, <1>4, <2>1
<1> QED BY <1>1, <1>2, <1>3, <1>4, <1>5

\* Where a message that stays in the inbox comes from.
LEMMA Staying ==
  ASSUME TypeOK, NEW P \in SUBSET DOMAIN entries, entries' = Kept(entries, P)
  PROVE  \E from \in [DOMAIN entries' -> P] :
           /\ entries' \in Seq(Message)
           /\ \A k \in DOMAIN entries' : entries'[k] = entries[from[k]]
           /\ \A k, l \in DOMAIN entries' : k < l => from[k] < from[l]
           /\ \A i \in P : \E k \in DOMAIN entries' : from[k] = i
<1> DEFINE from == [k \in DOMAIN entries' |-> Place(P, k)]
<1>1. /\ entries' \in Seq(Message)
      /\ \A k \in DOMAIN entries' : Place(P, k) \in P /\ entries'[k] = entries[Place(P, k)]
      /\ \A k, l \in DOMAIN entries' : k < l => Place(P, k) < Place(P, l)
      /\ \A i \in P : \E k \in DOMAIN entries' : Place(P, k) = i
  BY KeptProperties DEF TypeOK
<1>2. \A k \in DOMAIN entries' : from[k] = Place(P, k)
  OBVIOUS
<1>3. from \in [DOMAIN entries' -> P]
  BY <1>1
<1> HIDE DEF from
<1> QED BY <1>1, <1>2, <1>3

\* What waits of a session and is not delivered yet ascends.
LEMMA UndeliveredProperties ==
  ASSUME TypeOK, Numbered, NEW s \in Sessions
  PROVE  /\ Undelivered(s) \in Seq(Nat) /\ Ascending(Undelivered(s))
         /\ ToSet(Undelivered(s)) = InInbox(s) \ ToSet(delivered[s])
<1> DEFINE P == {i \in DOMAIN entries :
                   entries[i].session = s /\ entries[i].id \notin ToSet(delivered[s])}
           rest == Kept(entries, P)
<1>1. /\ rest \in Seq(Message)
      /\ \A k \in DOMAIN rest : Place(P, k) \in P /\ rest[k] = entries[Place(P, k)]
      /\ \A k, l \in DOMAIN rest : k < l => Place(P, k) < Place(P, l)
      /\ \A i \in P : \E k \in DOMAIN rest : Place(P, k) = i
  <2>1. P \in SUBSET DOMAIN entries /\ entries \in Seq(Message)
    BY DEF TypeOK
  <2> HIDE DEF P
  <2> QED BY <2>1, KeptProperties
<1>2. Undelivered(s) = [k \in DOMAIN rest |-> rest[k].id]
  BY DEF Undelivered, Ids
<1>3. \A i \in P : i \in DOMAIN entries /\ entries[i].session = s
                   /\ entries[i].id \notin ToSet(delivered[s])
  OBVIOUS
<1>4. InInbox(s) \ ToSet(delivered[s]) = {entries[i].id : i \in P}
  BY DEF InInbox
<1> HIDE DEF rest, P
<1>5. DOMAIN rest = 1..Len(rest) /\ Len(rest) \in Nat /\ \A k \in DOMAIN rest : rest[k].id \in Nat
  <2>1. DOMAIN rest = 1..Len(rest) /\ Len(rest) \in Nat
    BY <1>1, LenProperties
  <2>2. \A k \in DOMAIN rest : rest[k] \in Message
    BY <1>1, <2>1, ElementOfSeq
  <2> QED BY <2>1, <2>2 DEF Message
<1>6. Undelivered(s) \in Seq(Nat)
  BY <1>2, <1>5
<1>7. Ascending(Undelivered(s))
  BY <1>1, <1>2, <1>3, Messages DEF Ascending
<1>8. ToSet(Undelivered(s)) = {rest[k].id : k \in DOMAIN rest}
  BY <1>2 DEF ToSet
<1>9. {rest[k].id : k \in DOMAIN rest} = {entries[i].id : i \in P}
  BY <1>1
<1> QED BY <1>4, <1>6, <1>7, <1>8, <1>9

\* What the invariant says of the waiting messages.
LEMMA InvKeeps == InboxInv => NextTurnKept
<1> SUFFICES ASSUME InboxInv PROVE NextTurnKept
  OBVIOUS
<1> USE DEF InboxInv
<1>1. ASSUME NEW s \in Sessions
      PROVE  delivered[s] \o Undelivered(s) = accepted[s]
  <2>1. /\ delivered[s] \in Seq(Nat) /\ accepted[s] \in Seq(Nat)
        /\ Ascending(delivered[s]) /\ Ascending(accepted[s])
    BY DEF TypeOK, Numbered
  <2>2. /\ Undelivered(s) \in Seq(Nat) /\ Ascending(Undelivered(s))
        /\ ToSet(Undelivered(s)) = InInbox(s) \ ToSet(delivered[s])
    BY UndeliveredProperties
  <2>3. ASSUME NEW a \in ToSet(delivered[s]), NEW b \in ToSet(Undelivered(s))
        PROVE  a < b
    <3>1. PICK i \in DOMAIN entries : entries[i].session = s /\ b = entries[i].id
      BY <2>2 DEF InInbox
    <3>2. ~Recorded(entries[i])
      BY <2>2, <3>1 DEF Claimed
    <3> QED BY <3>1, <3>2 DEF Claimed
  <2>4. /\ delivered[s] \o Undelivered(s) \in Seq(Nat)
        /\ Ascending(delivered[s] \o Undelivered(s))
        /\ ToSet(delivered[s] \o Undelivered(s)) = ToSet(delivered[s]) \cup ToSet(Undelivered(s))
    BY <2>1, <2>2, <2>3, ConcatAscending
  <2>5. ToSet(delivered[s] \o Undelivered(s)) = ToSet(accepted[s])
    BY <2>2, <2>4 DEF Whole
  <2> QED BY <2>1, <2>4, <2>5, AscendingUnique
<1>2. ASSUME NEW i \in DOMAIN entries, entries[i].claim # NoRun
      PROVE  /\ run[entries[i].claim].stage \in {"claimed", "recorded"}
             /\ lease[entries[i].session] = entries[i].claim
  BY <1>2, Messages DEF Owned, Owning
<1> QED BY <1>1, <1>2 DEF NextTurnKept

-----------------------------------------------------------------------------
(* The steps.                                                              *)

\* A run without a claim starts, acquires its session or ends.
Moves(r) ==
  /\ UNCHANGED <<next, entries, accepted, delivered>>
  /\ run[r].stage \notin {"claimed", "recorded"} /\ run'[r].stage \notin {"claimed", "recorded"}
  /\ \A q \in Runs \ {r} : run'[q] = run[q]

\* Such a step changes nothing that is said of messages and claims.
LEMMA MovesKeep ==
  ASSUME InboxInv, NEW r \in Runs, Moves(r)
  PROVE  /\ Numbered' /\ Whole' /\ Claimed'
         /\ \A i \in DOMAIN entries' : entries'[i].claim # NoRun =>
              /\ run'[entries'[i].claim].stage \in {"claimed", "recorded"}
              /\ run'[entries'[i].claim].session = entries'[i].session
<1> USE DEF InboxInv, Moves
<1>1. \A q \in Runs : run[q].stage \in {"claimed", "recorded"} \/ run'[q].stage \in {"claimed", "recorded"}
                        => run'[q] = run[q]
  OBVIOUS
<1>2. \A i \in DOMAIN entries : entries[i].claim # NoRun =>
        /\ entries[i].claim \in Runs
        /\ run[entries[i].claim].stage \in {"claimed", "recorded"}
        /\ run[entries[i].claim].session = entries[i].session
  BY Messages DEF Owned
<1>3. Numbered' /\ Whole'
  BY DEF Numbered, Whole, InInbox
<1>4. \A i \in DOMAIN entries : Recorded(entries[i])' <=> Recorded(entries[i])
  BY <1>1, <1>2 DEF Recorded
<1>5. Claimed'
  <2>1. ASSUME NEW q \in Runs, run'[q].stage = "claimed"
        PROVE  /\ Ascending(run'[q].messages)
               /\ ToSet(run'[q].messages) = {entries[i].id : i \in {j \in DOMAIN entries : entries[j].claim = q}}
    BY <1>1, <2>1 DEF Claimed
  <2> QED BY <1>4, <2>1 DEF Claimed
<1> QED BY <1>1, <1>2, <1>3, <1>5

LEMMA BindStep ==
  ASSUME InboxInv, NEW r \in Runs, NEW s \in Sessions, Bind(r, s)
  PROVE  InboxInv'
<1> DEFINE new == [Off EXCEPT !.stage = "bound", !.session = s]
<1>1. /\ run' = [run EXCEPT ![r] = new] /\ run[r].stage = "off"
      /\ UNCHANGED <<next, entries, lease, accepted, delivered>>
  BY DEF Bind
<1>2. /\ new \in [stage : Stages, session : Sessions \cup {"none"}, messages : Seq(Nat)]
      /\ new.stage = "bound" /\ new.session = s
  <2>1. Off \in [stage : Stages, session : Sessions \cup {"none"}, messages : Seq(Nat)]
    BY EmptySeq DEF Off, Stages
  <2>2. new.stage = "bound" /\ new.session = s
    BY DEF Off
  <2> QED BY <2>1, <2>2 DEF Stages
<1> HIDE DEF new
<1>3. /\ run' \in [Runs -> [stage : Stages, session : Sessions \cup {"none"}, messages : Seq(Nat)]]
      /\ run'[r] = new /\ \A q \in Runs \ {r} : run'[q] = run[q]
  BY <1>1, <1>2 DEF InboxInv, TypeOK
<1>4. Moves(r)
  BY <1>1, <1>2, <1>3 DEF Moves
<1>5. TypeOK'
  BY <1>1, <1>2, <1>3 DEF InboxInv, TypeOK
<1>6. \A q \in Runs : run'[q].stage \in Owning => lease'[run'[q].session] = q
  BY <1>1, <1>2, <1>3 DEF InboxInv, Owned, Owning
<1> QED BY <1>4, <1>5, <1>6, MovesKeep DEF InboxInv, Owned

LEMMA AcquireStep ==
  ASSUME InboxInv, NEW r \in Runs, Acquire(r)
  PROVE  InboxInv'
<1>1. /\ run' = [run EXCEPT ![r].stage = "leased"] /\ run[r].stage = "bound"
      /\ lease[run[r].session] = NoRun /\ lease' = [lease EXCEPT ![run[r].session] = r]
      /\ UNCHANGED <<next, entries, accepted, delivered>>
  BY DEF Acquire, To
<1>2. run \in [Runs -> [stage : Stages, session : Sessions \cup {"none"}, messages : Seq(Nat)]]
      /\ run[r].session \in Sessions
  BY <1>1 DEF InboxInv, TypeOK
<1>3. /\ run' \in [Runs -> [stage : Stages, session : Sessions \cup {"none"}, messages : Seq(Nat)]]
      /\ run'[r].stage = "leased" /\ run'[r].session = run[r].session
      /\ \A q \in Runs \ {r} : run'[q] = run[q]
  BY <1>1, <1>2 DEF Stages
<1>4. Moves(r)
  BY <1>1, <1>3 DEF Moves
<1>5. /\ lease' \in [Sessions -> Runs \cup {NoRun}] /\ lease'[run[r].session] = r
      /\ \A s \in Sessions \ {run[r].session} : lease'[s] = lease[s]
  BY <1>1, <1>2 DEF InboxInv, TypeOK
<1>6. TypeOK'
  BY <1>1, <1>2, <1>3, <1>5 DEF InboxInv, TypeOK
<1>7. ASSUME NEW q \in Runs, run'[q].stage \in Owning
      PROVE  lease'[run'[q].session] = q
  <2>1. CASE q = r
    BY <1>3, <1>5, <2>1
  <2>2. CASE q # r
    <3>1. run'[q] = run[q] /\ lease[run[q].session] = q
      BY <1>3, <1>7, <2>2 DEF InboxInv, Owned
    <3>2. run[q].session \in Sessions /\ run[q].session # run[r].session
      BY <1>1, <1>7, <3>1, InboxAssumption DEF InboxInv, TypeOK, Owning
    <3> QED BY <1>5, <3>1, <3>2
  <2> QED BY <2>1, <2>2
<1> QED BY <1>4, <1>6, <1>7, MovesKeep DEF InboxInv, Owned

LEMMA LeaveStep ==
  ASSUME InboxInv, NEW r \in Runs, Leave(r)
  PROVE  InboxInv'
<1>1. /\ run' = [run EXCEPT ![r] = Off]
      /\ run[r].stage \in {"bound", "leased", "leaving", "running"}
      /\ lease' = [s \in Sessions |-> IF lease[s] = r THEN NoRun ELSE lease[s]]
      /\ UNCHANGED <<next, entries, accepted, delivered>>
  BY DEF Leave
<1>2. /\ Off \in [stage : Stages, session : Sessions \cup {"none"}, messages : Seq(Nat)]
      /\ Off.stage = "off"
  BY EmptySeq DEF Off, Stages
<1>3. /\ run' \in [Runs -> [stage : Stages, session : Sessions \cup {"none"}, messages : Seq(Nat)]]
      /\ run'[r] = Off /\ \A q \in Runs \ {r} : run'[q] = run[q]
  BY <1>1, <1>2 DEF InboxInv, TypeOK
<1>4. Moves(r)
  BY <1>1, <1>2, <1>3 DEF Moves
<1>5. lease' \in [Sessions -> Runs \cup {NoRun}]
  BY <1>1 DEF InboxInv, TypeOK
<1>6. TypeOK'
  BY <1>1, <1>2, <1>3, <1>5 DEF InboxInv, TypeOK
<1>7. ASSUME NEW q \in Runs, run'[q].stage \in Owning
      PROVE  lease'[run'[q].session] = q
  <2>1. q # r
    BY <1>2, <1>3, <1>7 DEF Owning
  <2>2. run'[q] = run[q] /\ lease[run[q].session] = q
    BY <1>3, <1>7, <2>1 DEF InboxInv, Owned
  <2>3. run[q].session \in Sessions
    BY <1>7, <2>2 DEF InboxInv, TypeOK, Owning
  <2> QED BY <1>1, <2>1, <2>2, <2>3
<1> QED BY <1>4, <1>6, <1>7, MovesKeep DEF InboxInv, Owned

\* A message joins: the newest of all.
LEMMA PushStep ==
  ASSUME InboxInv, NEW r \in Runs, Push(r)
  PROVE  InboxInv'
<1> DEFINE s == run[r].session
           new == [id |-> next, session |-> s, claim |-> NoRun]
           last == Len(entries) + 1
<1>1. /\ run[r].stage # "off" /\ next' = next + 1 /\ entries' = Append(entries, new)
      /\ accepted' = [accepted EXCEPT ![s] = Append(@, next)]
      /\ UNCHANGED <<run, lease, delivered>>
  BY DEF Push
<1>2. s \in Sessions /\ next \in Nat /\ entries \in Seq(Message)
  BY <1>1 DEF InboxInv, TypeOK
<1>3. new \in Message /\ new.id = next /\ new.session = s /\ new.claim = NoRun
  BY <1>2 DEF Message
<1> HIDE DEF new
<1>4. /\ entries' \in Seq(Message) /\ DOMAIN entries' = DOMAIN entries \cup {last}
      /\ entries'[last] = new /\ \A i \in DOMAIN entries : entries'[i] = entries[i]
      /\ last \notin DOMAIN entries /\ \A i \in DOMAIN entries : i < last
      /\ DOMAIN entries \subseteq Nat /\ last \in Nat
  <2>1. DOMAIN entries = 1..Len(entries) /\ Len(entries) \in Nat
    BY <1>2, LenProperties
  <2>2. /\ entries' \in Seq(Message) /\ Len(entries') = Len(entries) + 1
        /\ entries'[last] = new /\ \A i \in 1..Len(entries) : entries'[i] = entries[i]
    BY <1>1, <1>2, <1>3, AppendProperties
  <2>3. DOMAIN entries' = 1..(Len(entries) + 1)
    BY <2>2, LenProperties
  <2> QED BY <2>1, <2>2, <2>3
<1> HIDE DEF last
<1>5. /\ \A i \in DOMAIN entries : entries[i].id \in Nat /\ entries[i].id < next
                                   /\ entries[i].claim \in Runs \cup {NoRun}
      /\ \A i, j \in DOMAIN entries : i < j => entries[i].id < entries[j].id
  BY Messages DEF InboxInv, Numbered
<1>6. /\ accepted' \in [Sessions -> Seq(Nat)] /\ Ascending(accepted'[s])
      /\ ToSet(accepted'[s]) = ToSet(accepted[s]) \cup {next}
      /\ \A t \in Sessions \ {s} : accepted'[t] = accepted[t]
  <2>1. accepted[s] \in Seq(Nat) /\ Ascending(accepted[s])
        /\ \A a \in ToSet(accepted[s]) : a < next
    BY <1>2 DEF InboxInv, TypeOK, Numbered
  <2>2. /\ Append(accepted[s], next) \in Seq(Nat) /\ Ascending(Append(accepted[s], next))
        /\ ToSet(Append(accepted[s], next)) = ToSet(accepted[s]) \cup {next}
    BY <1>2, <2>1, AppendAscending
  <2>3. accepted'[s] = Append(accepted[s], next)
        /\ \A t \in Sessions \ {s} : accepted'[t] = accepted[t]
    BY <1>1, <1>2 DEF InboxInv, TypeOK
  <2>4. accepted' \in [Sessions -> Seq(Nat)]
    BY <1>1, <1>2, <2>2 DEF InboxInv, TypeOK
  <2> QED BY <2>2, <2>3, <2>4
<1>7. \A t \in Sessions : ToSet(delivered[t]) \subseteq ToSet(accepted[t])
  BY DEF InboxInv, Whole
<1>8. \A t \in Sessions : \A a \in ToSet(accepted[t]) : a < next /\ a \in Nat
  <2>1. \A t \in Sessions : accepted[t] \in Seq(Nat)
    BY DEF InboxInv, TypeOK
  <2>2. \A t \in Sessions : \A a \in ToSet(accepted[t]) : a \in Nat
    BY <2>1, LenProperties, ElementOfSeq DEF ToSet
  <2> QED BY <2>2 DEF InboxInv, Numbered
<1>9. TypeOK'
  BY <1>1, <1>2, <1>4, <1>6 DEF InboxInv, TypeOK
<1>10. Numbered'
  <2>1. Ascending(Ids(entries))'
    <3>1. \A i, j \in DOMAIN entries' : i < j => entries'[i].id < entries'[j].id
      <4> SUFFICES ASSUME NEW i \in DOMAIN entries', NEW j \in DOMAIN entries', i < j
                   PROVE  entries'[i].id < entries'[j].id
        OBVIOUS
      <4>1. i \in DOMAIN entries
        BY <1>4
      <4>2. CASE j \in DOMAIN entries
        BY <1>4, <1>5, <4>1, <4>2
      <4>3. CASE j = last
        BY <1>3, <1>4, <1>5, <4>1, <4>3
      <4> QED BY <1>4, <4>2, <4>3
    <3> QED BY <3>1 DEF Ascending, Ids
  <2>2. \A i \in DOMAIN entries' : entries'[i].id < next'
    BY <1>1, <1>2, <1>3, <1>4, <1>5
  <2>3. \A t \in Sessions : /\ Ascending(accepted'[t]) /\ Ascending(delivered'[t])
                            /\ \A a \in ToSet(accepted'[t]) : a < next'
    BY <1>1, <1>2, <1>6, <1>8 DEF InboxInv, Numbered
  <2> QED BY <2>1, <2>2, <2>3 DEF Numbered
<1>11. Whole'
  <2>1. ASSUME NEW t \in Sessions
        PROVE  InInbox(t)' = IF t = s THEN InInbox(t) \cup {next} ELSE InInbox(t)
    BY <1>3, <1>4, <2>1 DEF InInbox
  <2> QED BY <1>1, <1>6, <2>1 DEF InboxInv, Whole
<1>12. Owned'
  BY <1>1, <1>3, <1>4 DEF InboxInv, Owned
<1>13. Claimed'
  <2>1. ASSUME NEW q \in Runs
        PROVE  {entries'[i].id : i \in {j \in DOMAIN entries' : entries'[j].claim = q}}
                 = {entries[i].id : i \in {j \in DOMAIN entries : entries[j].claim = q}}
    BY <1>3, <1>4, InboxAssumption
  <2>2. \A i \in DOMAIN entries : Recorded(entries[i])' <=> Recorded(entries[i])
    BY <1>1, <1>4 DEF Recorded
  <2>3. \A i : i = last => ~Recorded(entries[i])'
    BY <1>3, <1>4 DEF Recorded
  <2>4. \A i \in DOMAIN entries' :
          entries'[i].id \in ToSet(delivered'[entries'[i].session]) <=> Recorded(entries[i])'
    <3>1. next \notin ToSet(delivered[s])
      BY <1>2, <1>7, <1>8
    <3>2. \A i \in DOMAIN entries :
            entries[i].id \in ToSet(delivered[entries[i].session]) <=> Recorded(entries[i])
      BY DEF InboxInv, Claimed
    <3> QED BY <1>1, <1>3, <1>4, <2>2, <2>3, <3>1, <3>2
  <2>5. \A i, j \in DOMAIN entries' :
          entries'[i].session = entries'[j].session /\ entries'[i].claim # NoRun
            /\ entries'[j].claim = NoRun => entries'[i].id < entries'[j].id
    BY <1>3, <1>4, <1>5 DEF InboxInv, Claimed
  <2>6. \A i \in DOMAIN entries' : ~Recorded(entries[i])' =>
          \A id \in ToSet(delivered'[entries'[i].session]) : id < entries'[i].id
    <3>1. ASSUME NEW i \in DOMAIN entries, ~Recorded(entries[i])',
                 NEW id \in ToSet(delivered'[entries'[i].session])
          PROVE  id < entries'[i].id
      <4>1. ~Recorded(entries[i]) /\ entries'[i] = entries[i]
            /\ id \in ToSet(delivered[entries[i].session])
        BY <1>1, <1>4, <2>2, <3>1
      <4> QED BY <4>1 DEF InboxInv, Claimed
    <3>2. \A id \in ToSet(delivered'[s]) : id < next
      BY <1>1, <1>2, <1>7, <1>8
    <3> QED BY <1>3, <1>4, <3>1, <3>2
  <2> QED BY <1>1, <2>1, <2>4, <2>5, <2>6 DEF InboxInv, Claimed
<1> QED BY <1>9, <1>10, <1>11, <1>12, <1>13 DEF InboxInv

\* What stays in the inbox stays as it was, and in its order.
LEMMA StayingKeeps ==
  ASSUME InboxInv, NEW P \in SUBSET DOMAIN entries, entries' = Kept(entries, P), next' = next
  PROVE  /\ entries' \in Seq(Message) /\ Ascending(Ids(entries'))
         /\ \A k \in DOMAIN entries' : entries'[k].id < next'
         /\ \A k \in DOMAIN entries' : \E i \in P : entries'[k] = entries[i]
         /\ \A i \in P : \E k \in DOMAIN entries' : entries'[k] = entries[i]
<1>1. PICK from \in [DOMAIN entries' -> P] :
           /\ entries' \in Seq(Message)
           /\ \A k \in DOMAIN entries' : entries'[k] = entries[from[k]]
           /\ \A k, l \in DOMAIN entries' : k < l => from[k] < from[l]
           /\ \A i \in P : \E k \in DOMAIN entries' : from[k] = i
  BY Staying DEF InboxInv
<1>2. \A k \in DOMAIN entries' : from[k] \in P /\ from[k] \in DOMAIN entries
  BY <1>1
<1>3. \A k, l \in DOMAIN entries' : k < l => entries'[k].id < entries'[l].id
  BY <1>1, <1>2, Messages DEF InboxInv
<1>4. \A k \in DOMAIN entries' : entries'[k].id < next'
  BY <1>1, <1>2 DEF InboxInv, Numbered
<1> QED BY <1>1, <1>2, <1>3, <1>4 DEF Ascending, Ids

LEMMA DiscardStep ==
  ASSUME InboxInv, NEW i \in DOMAIN entries, Discard(i)
  PROVE  InboxInv'
<1> DEFINE e == entries[i]
           s == e.session
           P == DOMAIN entries \ {i}
           others == {k \in DOMAIN accepted[s] : accepted[s][k] # e.id}
<1>1. /\ e.claim = NoRun /\ entries' = Kept(entries, P)
      /\ accepted' = [accepted EXCEPT ![s] = Kept(accepted[s], others)]
      /\ UNCHANGED <<next, run, lease, delivered>>
  BY DEF Discard
<1>2. /\ e \in Message /\ e.id \in Nat /\ s \in Sessions
      /\ \A j \in DOMAIN entries : entries[j].id = e.id => j = i
  BY Messages DEF InboxInv
<1>3. /\ entries' \in Seq(Message) /\ Ascending(Ids(entries'))
      /\ \A k \in DOMAIN entries' : entries'[k].id < next'
      /\ \A k \in DOMAIN entries' : \E j \in P : entries'[k] = entries[j]
      /\ \A j \in P : \E k \in DOMAIN entries' : entries'[k] = entries[j]
  BY <1>1, StayingKeeps
<1>4. /\ accepted' \in [Sessions -> Seq(Nat)] /\ Ascending(accepted'[s])
      /\ ToSet(accepted'[s]) = ToSet(accepted[s]) \ {e.id}
      /\ \A t \in Sessions \ {s} : accepted'[t] = accepted[t]
  <2>1. accepted[s] \in Seq(Nat) /\ Ascending(accepted[s]) /\ others \in SUBSET DOMAIN accepted[s]
    BY <1>2 DEF InboxInv, TypeOK, Numbered
  <2>2. {accepted[s][k] : k \in others} = ToSet(accepted[s]) \ {e.id}
    BY DEF ToSet
  <2> HIDE DEF others
  <2>3. /\ Kept(accepted[s], others) \in Seq(Nat) /\ Ascending(Kept(accepted[s], others))
        /\ ToSet(Kept(accepted[s], others)) = ToSet(accepted[s]) \ {e.id}
    BY <2>1, <2>2, KeptAscending
  <2>4. accepted'[s] = Kept(accepted[s], others)
        /\ \A t \in Sessions \ {s} : accepted'[t] = accepted[t]
    BY <1>1, <1>2 DEF InboxInv, TypeOK
  <2>5. accepted' \in [Sessions -> Seq(Nat)]
    BY <1>1, <1>2, <2>3 DEF InboxInv, TypeOK
  <2> QED BY <2>3, <2>4, <2>5
<1>5. \A j \in P : j \in DOMAIN entries /\ entries[j].id # e.id
  BY <1>2
<1>6. \A j \in DOMAIN entries : j = i \/ j \in P
  OBVIOUS
<1> HIDE DEF P, others
<1>7. TypeOK'
  BY <1>1, <1>3, <1>4 DEF InboxInv, TypeOK
<1>8. Numbered'
  <2>1. \A t \in Sessions : /\ Ascending(accepted'[t]) /\ Ascending(delivered'[t])
                            /\ \A a \in ToSet(accepted'[t]) : a < next'
    BY <1>1, <1>2, <1>4 DEF InboxInv, Numbered
  <2> QED BY <1>3, <2>1 DEF Numbered
<1>9. Whole'
  <2>1. ASSUME NEW t \in Sessions
        PROVE  InInbox(t)' = IF t = s THEN InInbox(t) \ {e.id} ELSE InInbox(t)
    BY <1>3, <1>5, <1>6 DEF InInbox
  <2>2. e.id \notin ToSet(delivered[s])
    BY <1>1 DEF InboxInv, Claimed, Recorded
  <2> QED BY <1>1, <1>2, <1>4, <2>1, <2>2 DEF InboxInv, Whole
<1>10. Owned'
  BY <1>1, <1>3, <1>5 DEF InboxInv, Owned
<1>11. Claimed'
  <2>1. ASSUME NEW q \in Runs
        PROVE  {entries'[k].id : k \in {j \in DOMAIN entries' : entries'[j].claim = q}}
                 = {entries[k].id : k \in {j \in DOMAIN entries : entries[j].claim = q}}
    <3>1. e.claim # q
      BY <1>1, InboxAssumption
    <3> QED BY <1>3, <1>5, <1>6, <3>1
  <2>2. \A k \in DOMAIN entries' : \E j \in P :
          entries'[k] = entries[j] /\ (Recorded(entries[k])' <=> Recorded(entries[j]))
    BY <1>1, <1>3 DEF Recorded
  <2>3. \A q \in Runs : run'[q].stage = "claimed" =>
          /\ Ascending(run'[q].messages)
          /\ ToSet(run'[q].messages)
               = {entries'[k].id : k \in {j \in DOMAIN entries' : entries'[j].claim = q}}
    BY <1>1, <2>1 DEF InboxInv, Claimed
  <2>4. \A k \in DOMAIN entries' :
          /\ entries'[k].id \in ToSet(delivered'[entries'[k].session]) <=> Recorded(entries[k])'
          /\ ~Recorded(entries[k])' =>
               \A id \in ToSet(delivered'[entries'[k].session]) : id < entries'[k].id
    BY <1>1, <1>5, <2>2 DEF InboxInv, Claimed
  <2>5. \A k, l \in DOMAIN entries' :
          entries'[k].session = entries'[l].session /\ entries'[k].claim # NoRun
            /\ entries'[l].claim = NoRun => entries'[k].id < entries'[l].id
    BY <1>3, <1>5 DEF InboxInv, Claimed
  <2> QED BY <2>3, <2>4, <2>5 DEF Claimed
<1> QED BY <1>7, <1>8, <1>9, <1>10, <1>11 DEF InboxInv

\* The run's stage moves and the rest of the record stays.
LEMMA ToType ==
  ASSUME TypeOK, NEW r \in Runs, NEW stage \in Stages \ {"off"}, run[r].stage # "off", To(r, stage)
  PROVE  /\ run' \in [Runs -> [stage : Stages, session : Sessions \cup {"none"}, messages : Seq(Nat)]]
         /\ run'[r].stage = stage /\ run'[r].session = run[r].session
         /\ run'[r].messages = run[r].messages
         /\ \A q \in Runs \ {r} : run'[q] = run[q]
         /\ \A q \in Runs : run'[q].stage # "off" => run'[q].session \in Sessions
<1>1. run \in [Runs -> [stage : Stages, session : Sessions \cup {"none"}, messages : Seq(Nat)]]
  BY DEF TypeOK
<1>2. run' = [run EXCEPT ![r].stage = stage]
  BY DEF To
<1>3. /\ run' \in [Runs -> [stage : Stages, session : Sessions \cup {"none"}, messages : Seq(Nat)]]
      /\ run'[r].stage = stage /\ run'[r].session = run[r].session
      /\ run'[r].messages = run[r].messages
      /\ \A q \in Runs \ {r} : run'[q] = run[q]
  BY <1>1, <1>2
<1> QED BY <1>3 DEF TypeOK

\* A claim is committed: its messages, all delivered, leave the inbox.
LEMMA CommitStep ==
  ASSUME InboxInv, NEW r \in Runs, Commit(r)
  PROVE  InboxInv'
<1> DEFINE P == {i \in DOMAIN entries : entries[i].claim # r}
<1>1. /\ run[r].stage = "recorded" /\ To(r, "running") /\ entries' = Kept(entries, P)
      /\ UNCHANGED <<next, lease, accepted, delivered>>
  BY DEF Commit
<1>2. /\ run' \in [Runs -> [stage : Stages, session : Sessions \cup {"none"}, messages : Seq(Nat)]]
      /\ run'[r].stage = "running" /\ run'[r].session = run[r].session
      /\ \A q \in Runs \ {r} : run'[q] = run[q]
      /\ \A q \in Runs : run'[q].stage # "off" => run'[q].session \in Sessions
  <2>1. "running" \in Stages \ {"off"}
    BY DEF Stages
  <2> QED BY <1>1, <2>1, ToType DEF InboxInv
<1>3. /\ entries' \in Seq(Message) /\ Ascending(Ids(entries'))
      /\ \A k \in DOMAIN entries' : entries'[k].id < next'
      /\ \A k \in DOMAIN entries' : \E j \in P : entries'[k] = entries[j]
      /\ \A j \in P : \E k \in DOMAIN entries' : entries'[k] = entries[j]
  BY <1>1, StayingKeeps
<1>4. /\ \A j \in P : j \in DOMAIN entries /\ entries[j].claim # r
      /\ \A j \in DOMAIN entries : j \in P \/ entries[j].claim = r
  OBVIOUS
<1> HIDE DEF P
<1>5. TypeOK'
  BY <1>1, <1>2, <1>3 DEF InboxInv, TypeOK
<1>6. Numbered'
  BY <1>1, <1>3 DEF InboxInv, Numbered
<1>7. Whole'
  <2>1. ASSUME NEW t \in Sessions
        PROVE  /\ InInbox(t)' \subseteq InInbox(t)
               /\ InInbox(t) \subseteq InInbox(t)' \cup ToSet(delivered[t])
    <3>1. InInbox(t)' \subseteq InInbox(t)
      BY <1>3, <1>4 DEF InInbox
    <3>2. ASSUME NEW j \in DOMAIN entries, entries[j].session = t
          PROVE  entries[j].id \in InInbox(t)' \cup ToSet(delivered[t])
      <4>1. CASE j \in P
        BY <1>3, <3>2, <4>1 DEF InInbox
      <4>2. CASE entries[j].claim = r
        <5>1. Recorded(entries[j])
          BY <1>1, <4>2, InboxAssumption DEF Recorded
        <5> QED BY <3>2, <5>1 DEF InboxInv, Claimed
      <4> QED BY <1>4, <4>1, <4>2
    <3> QED BY <3>1, <3>2 DEF InInbox
  <2> QED BY <1>1, <2>1 DEF InboxInv, Whole
<1>8. Owned'
  <2>1. \A k \in DOMAIN entries' : entries'[k].claim # NoRun =>
          /\ run'[entries'[k].claim].stage \in {"claimed", "recorded"}
          /\ run'[entries'[k].claim].session = entries'[k].session
    <3> SUFFICES ASSUME NEW k \in DOMAIN entries', entries'[k].claim # NoRun
                 PROVE  /\ run'[entries'[k].claim].stage \in {"claimed", "recorded"}
                        /\ run'[entries'[k].claim].session = entries'[k].session
      OBVIOUS
    <3>1. PICK j \in P : entries'[k] = entries[j]
      BY <1>3
    <3>2. entries[j].claim \in Runs \ {r} /\ j \in DOMAIN entries
      BY <1>4, <3>1, Messages DEF InboxInv
    <3> QED BY <1>2, <3>1, <3>2 DEF InboxInv, Owned
  <2>2. \A q \in Runs : run'[q].stage \in Owning => lease'[run'[q].session] = q
    <3>1. "recorded" \in Owning
      BY DEF Owning
    <3> QED BY <1>1, <1>2, <3>1 DEF InboxInv, Owned
  <2> QED BY <2>1, <2>2 DEF Owned
<1>9. Claimed'
  <2>1. ASSUME NEW q \in Runs, run'[q].stage = "claimed"
        PROVE  /\ Ascending(run'[q].messages)
               /\ ToSet(run'[q].messages)
                    = {entries'[k].id : k \in {j \in DOMAIN entries' : entries'[j].claim = q}}
    <3>1. q # r /\ run'[q] = run[q]
      BY <1>2, <2>1
    <3>2. {entries'[k].id : k \in {j \in DOMAIN entries' : entries'[j].claim = q}}
            = {entries[k].id : k \in {j \in DOMAIN entries : entries[j].claim = q}}
      BY <1>3, <1>4, <3>1
    <3> QED BY <2>1, <3>1, <3>2 DEF InboxInv, Claimed
  <2>2. \A k \in DOMAIN entries' : \E j \in P :
          entries'[k] = entries[j] /\ (Recorded(entries[k])' <=> Recorded(entries[j]))
    <3> SUFFICES ASSUME NEW k \in DOMAIN entries'
                 PROVE  \E j \in P : entries'[k] = entries[j]
                                     /\ (Recorded(entries[k])' <=> Recorded(entries[j]))
      OBVIOUS
    <3>1. PICK j \in P : entries'[k] = entries[j]
      BY <1>3
    <3>2. entries[j].claim = NoRun \/ entries[j].claim \in Runs \ {r}
      BY <1>4, Messages DEF InboxInv
    <3>3. Recorded(entries[k])' <=> Recorded(entries[j])
      BY <1>2, <3>1, <3>2 DEF Recorded
    <3> QED BY <3>1, <3>3
  <2> QED BY <1>1, <1>4, <2>1, <2>2 DEF InboxInv, Claimed
<1> QED BY <1>5, <1>6, <1>7, <1>8, <1>9 DEF InboxInv

\* Messages are claimed or released: nothing else of them changes.
Relabelled ==
  /\ entries' \in Seq(Message) /\ DOMAIN entries' = DOMAIN entries
  /\ \A i \in DOMAIN entries :
       entries'[i].id = entries[i].id /\ entries'[i].session = entries[i].session

LEMMA RelabelledKeeps ==
  ASSUME InboxInv, Relabelled, UNCHANGED <<next, accepted, delivered>>
  PROVE  Numbered' /\ Whole'
<1>1. Ascending(Ids(entries')) /\ \A i \in DOMAIN entries' : entries'[i].id < next'
  BY DEF InboxInv, Relabelled, Numbered, Ascending, Ids
<1>2. \A s \in Sessions : InInbox(s)' = InInbox(s)
  BY DEF Relabelled, InInbox
<1> QED BY <1>1, <1>2 DEF InboxInv, Numbered, Whole

\* What a claim or its drop makes of a message.
LEMMA RelabelType ==
  ASSUME InboxInv, NEW f, \A i \in DOMAIN entries : f[i] \in Runs \cup {NoRun},
         entries' = [i \in DOMAIN entries |-> [entries[i] EXCEPT !.claim = f[i]]]
  PROVE  Relabelled /\ \A i \in DOMAIN entries : entries'[i].claim = f[i]
<1>1. /\ \A i \in DOMAIN entries : entries[i] \in Message
      /\ DOMAIN entries = 1..Len(entries) /\ Len(entries) \in Nat
  BY Messages DEF InboxInv
<1>2. \A i \in DOMAIN entries :
        /\ entries'[i] \in Message /\ entries'[i].claim = f[i]
        /\ entries'[i].id = entries[i].id /\ entries'[i].session = entries[i].session
  BY <1>1 DEF Message
<1>3. entries' \in Seq(Message) /\ DOMAIN entries' = DOMAIN entries
  BY <1>1, <1>2
<1> QED BY <1>2, <1>3 DEF Relabelled

\* A run claims what waits for its session.
LEMMA ClaimStep ==
  ASSUME InboxInv, NEW r \in Runs, Claim(r)
  PROVE  InboxInv'
<1> DEFINE s == run[r].session
           P == {i \in DOMAIN entries : entries[i].session = s}
           f == [i \in DOMAIN entries |-> IF entries[i].session = s THEN r ELSE entries[i].claim]
<1>1. /\ run[r].stage = "leased" /\ \A k \in DOMAIN Of(s) : Of(s)[k].claim = NoRun
      /\ entries' = [i \in DOMAIN entries |->
                       IF entries[i].session = s THEN [entries[i] EXCEPT !.claim = r] ELSE entries[i]]
      /\ run' = [run EXCEPT ![r].stage = "claimed", ![r].messages = Ids(Of(s))]
      /\ UNCHANGED <<next, lease, accepted, delivered>>
  BY DEF Claim
<1>2. s \in Sessions /\ lease[s] = r
  BY <1>1 DEF InboxInv, TypeOK, Owned, Owning
<1>3. /\ \A i \in DOMAIN entries : entries[i] \in Message /\ entries[i].claim \in Runs \cup {NoRun}
                                   /\ entries[i].id \in Nat /\ entries[i].session \in Sessions
      /\ \A i, j \in DOMAIN entries : i < j => entries[i].id < entries[j].id
      /\ DOMAIN entries \subseteq Nat
  BY Messages DEF InboxInv
<1>4. /\ Of(s) \in Seq(Message)
      /\ \A k \in DOMAIN Of(s) : Place(P, k) \in P /\ Of(s)[k] = entries[Place(P, k)]
      /\ \A k, l \in DOMAIN Of(s) : k < l => Place(P, k) < Place(P, l)
      /\ \A i \in P : \E k \in DOMAIN Of(s) : Place(P, k) = i
  <2>1. P \in SUBSET DOMAIN entries /\ entries \in Seq(Message)
    BY DEF InboxInv, TypeOK
  <2>2. Of(s) = Kept(entries, P)
    BY DEF Of
  <2> HIDE DEF P
  <2> QED BY <2>1, <2>2, KeptProperties
<1>5. \A i \in DOMAIN entries : entries[i].session = s => entries[i].claim = NoRun
  <2> SUFFICES ASSUME NEW i \in DOMAIN entries, entries[i].session = s
               PROVE  entries[i].claim = NoRun
    OBVIOUS
  <2>1. i \in P
    OBVIOUS
  <2>2. PICK k \in DOMAIN Of(s) : Place(P, k) = i
    BY <1>4, <2>1
  <2> QED BY <1>1, <1>4, <2>2
<1>6. /\ Ids(Of(s)) \in Seq(Nat) /\ Ascending(Ids(Of(s)))
      /\ ToSet(Ids(Of(s))) = {entries[i].id : i \in P}
  <2>1. DOMAIN Of(s) = 1..Len(Of(s)) /\ Len(Of(s)) \in Nat
    BY <1>4, LenProperties
  <2>2. \A k \in DOMAIN Of(s) : Of(s)[k].id \in Nat
    BY <1>3, <1>4
  <2>3. Ids(Of(s)) = [k \in DOMAIN Of(s) |-> Of(s)[k].id]
    BY DEF Ids
  <2>4. \A i \in P : i \in DOMAIN entries
    OBVIOUS
  <2> HIDE DEF P
  <2>5. Ids(Of(s)) \in Seq(Nat)
    BY <2>1, <2>2, <2>3
  <2>6. Ascending(Ids(Of(s)))
    BY <1>3, <1>4, <2>3, <2>4 DEF Ascending
  <2>7. ToSet(Ids(Of(s))) = {Of(s)[k].id : k \in DOMAIN Of(s)}
    BY <2>3 DEF ToSet
  <2>8. {Of(s)[k].id : k \in DOMAIN Of(s)} = {entries[i].id : i \in P}
    BY <1>4
  <2> QED BY <2>5, <2>6, <2>7, <2>8
<1>7. /\ run' \in [Runs -> [stage : Stages, session : Sessions \cup {"none"}, messages : Seq(Nat)]]
      /\ run'[r].stage = "claimed" /\ run'[r].session = s /\ run'[r].messages = Ids(Of(s))
      /\ \A q \in Runs \ {r} : run'[q] = run[q]
  <2>1. run \in [Runs -> [stage : Stages, session : Sessions \cup {"none"}, messages : Seq(Nat)]]
    BY DEF InboxInv, TypeOK
  <2> DEFINE ids == Ids(Of(s))
  <2> HIDE DEF ids
  <2>2. run' = [run EXCEPT ![r].stage = "claimed", ![r].messages = ids]
    BY <1>1 DEF ids
  <2>3. ids \in Seq(Nat)
    BY <1>6 DEF ids
  <2>4. /\ run' \in [Runs -> [stage : Stages, session : Sessions \cup {"none"}, messages : Seq(Nat)]]
        /\ run'[r].stage = "claimed" /\ run'[r].session = run[r].session /\ run'[r].messages = ids
        /\ \A q \in Runs \ {r} : run'[q] = run[q]
    BY <2>1, <2>2, <2>3 DEF Stages
  <2> QED BY <2>4 DEF ids
<1>8. Relabelled /\ \A i \in DOMAIN entries : entries'[i].claim = f[i]
  <2>1. \A i \in DOMAIN entries : f[i] \in Runs \cup {NoRun}
    BY <1>3
  <2>2. ASSUME NEW i \in DOMAIN entries
        PROVE  (IF entries[i].session = s THEN [entries[i] EXCEPT !.claim = r] ELSE entries[i])
                 = [entries[i] EXCEPT !.claim = f[i]]
    BY <1>3 DEF Message
  <2>3. entries' = [i \in DOMAIN entries |-> [entries[i] EXCEPT !.claim = f[i]]]
    BY <1>1, <2>2
  <2> HIDE DEF f
  <2> QED BY <2>1, <2>3, RelabelType
<1>9. /\ DOMAIN entries' = DOMAIN entries
      /\ \A i \in DOMAIN entries :
           /\ entries'[i].id = entries[i].id /\ entries'[i].session = entries[i].session
           /\ entries[i].session = s => entries'[i].claim = r
           /\ entries[i].session # s => entries'[i].claim = entries[i].claim
  BY <1>8 DEF Relabelled
<1> HIDE DEF f
<1>10. \A i \in DOMAIN entries : entries[i].claim # r
  BY <1>1, InboxAssumption DEF InboxInv, Owned
<1>11. Numbered' /\ Whole'
  BY <1>1, <1>8, RelabelledKeeps
<1>12. TypeOK'
  BY <1>1, <1>2, <1>7, <1>8 DEF InboxInv, TypeOK, Relabelled
<1>13. Owned'
  <2>1. \A i \in DOMAIN entries' : entries'[i].claim # NoRun =>
          /\ run'[entries'[i].claim].stage \in {"claimed", "recorded"}
          /\ run'[entries'[i].claim].session = entries'[i].session
    <3> SUFFICES ASSUME NEW i \in DOMAIN entries, entries'[i].claim # NoRun
                 PROVE  /\ run'[entries'[i].claim].stage \in {"claimed", "recorded"}
                        /\ run'[entries'[i].claim].session = entries'[i].session
      BY <1>9
    <3>1. CASE entries[i].session = s
      BY <1>7, <1>9, <3>1
    <3>2. CASE entries[i].session # s
      BY <1>3, <1>7, <1>9, <1>10, <3>2, SMTT(40) DEF InboxInv, Owned
    <3> QED BY <3>1, <3>2
  <2>2. \A q \in Runs : run'[q].stage \in Owning => lease'[run'[q].session] = q
    BY <1>1, <1>2, <1>7 DEF InboxInv, Owned
  <2> QED BY <2>1, <2>2 DEF Owned
<1>14. Claimed'
  <2>1. ASSUME NEW q \in Runs, run'[q].stage = "claimed"
        PROVE  /\ Ascending(run'[q].messages)
               /\ ToSet(run'[q].messages)
                    = {entries'[k].id : k \in {j \in DOMAIN entries' : entries'[j].claim = q}}
    <3>1. CASE q = r
      <4>1. \A i \in DOMAIN entries : entries'[i].claim = r <=> i \in P
        BY <1>9, <1>10
      <4>2. {entries'[k].id : k \in {j \in DOMAIN entries' : entries'[j].claim = q}}
              = {entries[i].id : i \in P}
        BY <1>9, <3>1, <4>1
      <4> QED BY <1>6, <1>7, <3>1, <4>2
    <3>2. CASE q # r
      <4>1. \A i \in DOMAIN entries : entries'[i].claim = q <=> entries[i].claim = q
        BY <1>5, <1>9, <3>2, InboxAssumption
      <4>2. {entries'[k].id : k \in {j \in DOMAIN entries' : entries'[j].claim = q}}
              = {entries[k].id : k \in {j \in DOMAIN entries : entries[j].claim = q}}
        BY <1>9, <4>1
      <4> QED BY <1>7, <2>1, <3>2, <4>2 DEF InboxInv, Claimed
    <3> QED BY <3>1, <3>2
  <2>2. ASSUME NEW i \in DOMAIN entries
        PROVE  Recorded(entries[i])' <=> Recorded(entries[i])
    <3>1. CASE entries[i].session = s
      BY <1>5, <1>7, <1>9, <3>1 DEF Recorded
    <3>2. CASE entries[i].session # s
      <4>1. entries[i].claim = NoRun \/ entries[i].claim \in Runs \ {r}
        BY <1>3, <1>10
      <4> QED BY <1>7, <1>9, <3>2, <4>1 DEF Recorded
    <3> QED BY <3>1, <3>2
  <2>3. \A k \in DOMAIN entries' :
          /\ entries'[k].id \in ToSet(delivered'[entries'[k].session]) <=> Recorded(entries[k])'
          /\ ~Recorded(entries[k])' =>
               \A id \in ToSet(delivered'[entries'[k].session]) : id < entries'[k].id
    BY <1>1, <1>9, <2>2 DEF InboxInv, Claimed
  <2>4. \A k, l \in DOMAIN entries' :
          entries'[k].session = entries'[l].session /\ entries'[k].claim # NoRun
            /\ entries'[l].claim = NoRun => entries'[k].id < entries'[l].id
    <3> SUFFICES ASSUME NEW k \in DOMAIN entries, NEW l \in DOMAIN entries,
                        entries[k].session = entries[l].session,
                        entries'[k].claim # NoRun, entries'[l].claim = NoRun
                 PROVE  entries[k].id < entries[l].id
      BY <1>9
    <3>1. entries[l].session # s
      BY <1>9, InboxAssumption
    <3> QED BY <1>9, <3>1 DEF InboxInv, Claimed
  <2> QED BY <2>1, <2>3, <2>4 DEF Claimed
<1> QED BY <1>11, <1>12, <1>13, <1>14 DEF InboxInv

\* Every message a claiming run sees of its session is its own or unclaimed.
LEMMA OwnClaims ==
  ASSUME InboxInv, NEW r \in Runs, run[r].stage \in {"claimed", "recorded"}
  PROVE  \A i \in DOMAIN entries :
           /\ entries[i].session = run[r].session /\ entries[i].claim # NoRun => entries[i].claim = r
           /\ entries[i].claim = r => entries[i].session = run[r].session
<1>1. lease[run[r].session] = r
  BY DEF InboxInv, Owned, Owning
<1>2. ASSUME NEW i \in DOMAIN entries, entries[i].claim # NoRun
      PROVE  /\ entries[i].claim \in Runs /\ run[entries[i].claim].session = entries[i].session
             /\ lease[entries[i].session] = entries[i].claim
  BY <1>2, Messages DEF InboxInv, Owned, Owning
<1> QED BY <1>1, <1>2, InboxAssumption

\* A claim is released.
LEMMA DropClaimStep ==
  ASSUME InboxInv, NEW r \in Runs, DropClaim(r)
  PROVE  InboxInv'
<1> DEFINE f == [i \in DOMAIN entries |-> IF entries[i].claim = r THEN NoRun ELSE entries[i].claim]
<1>1. /\ run[r].stage = "claimed" /\ To(r, "leaving")
      /\ entries' = [i \in DOMAIN entries |->
                       IF entries[i].claim = r THEN [entries[i] EXCEPT !.claim = NoRun] ELSE entries[i]]
      /\ UNCHANGED <<next, lease, accepted, delivered>>
  BY DEF DropClaim
<1>2. /\ run' \in [Runs -> [stage : Stages, session : Sessions \cup {"none"}, messages : Seq(Nat)]]
      /\ run'[r].stage = "leaving" /\ run'[r].session = run[r].session
      /\ \A q \in Runs \ {r} : run'[q] = run[q]
      /\ \A q \in Runs : run'[q].stage # "off" => run'[q].session \in Sessions
  <2>1. "leaving" \in Stages \ {"off"}
    BY DEF Stages
  <2> QED BY <1>1, <2>1, ToType DEF InboxInv
<1>3. \A i \in DOMAIN entries : entries[i] \in Message /\ entries[i].claim \in Runs \cup {NoRun}
  BY Messages DEF InboxInv
<1>4. Relabelled /\ \A i \in DOMAIN entries : entries'[i].claim = f[i]
  <2>1. \A i \in DOMAIN entries : f[i] \in Runs \cup {NoRun}
    BY <1>3
  <2>2. ASSUME NEW i \in DOMAIN entries
        PROVE  (IF entries[i].claim = r THEN [entries[i] EXCEPT !.claim = NoRun] ELSE entries[i])
                 = [entries[i] EXCEPT !.claim = f[i]]
    BY <1>3 DEF Message
  <2>3. entries' = [i \in DOMAIN entries |-> [entries[i] EXCEPT !.claim = f[i]]]
    BY <1>1, <2>2
  <2> HIDE DEF f
  <2> QED BY <2>1, <2>3, RelabelType
<1>5. /\ DOMAIN entries' = DOMAIN entries
      /\ \A i \in DOMAIN entries :
           /\ entries'[i].id = entries[i].id /\ entries'[i].session = entries[i].session
           /\ entries'[i].claim = IF entries[i].claim = r THEN NoRun ELSE entries[i].claim
  BY <1>4 DEF Relabelled
<1> HIDE DEF f
<1>6. Numbered' /\ Whole'
  BY <1>1, <1>4, RelabelledKeeps
<1>7. TypeOK'
  BY <1>1, <1>2, <1>4 DEF InboxInv, TypeOK, Relabelled
<1>8. Owned'
  <2>1. \A i \in DOMAIN entries' : entries'[i].claim # NoRun =>
          /\ run'[entries'[i].claim].stage \in {"claimed", "recorded"}
          /\ run'[entries'[i].claim].session = entries'[i].session
    BY <1>2, <1>3, <1>5 DEF InboxInv, Owned
  <2>2. \A q \in Runs : run'[q].stage \in Owning => lease'[run'[q].session] = q
    <3>1. "claimed" \in Owning
      BY DEF Owning
    <3> QED BY <1>1, <1>2, <3>1 DEF InboxInv, Owned
  <2> QED BY <2>1, <2>2 DEF Owned
<1>9. Claimed'
  <2>1. ASSUME NEW q \in Runs, run'[q].stage = "claimed"
        PROVE  /\ Ascending(run'[q].messages)
               /\ ToSet(run'[q].messages)
                    = {entries'[k].id : k \in {j \in DOMAIN entries' : entries'[j].claim = q}}
    <3>1. q # r /\ run'[q] = run[q]
      BY <1>2, <2>1
    <3>2. \A i \in DOMAIN entries : entries'[i].claim = q <=> entries[i].claim = q
      BY <1>5, <3>1, InboxAssumption
    <3>3. {entries'[k].id : k \in {j \in DOMAIN entries' : entries'[j].claim = q}}
            = {entries[k].id : k \in {j \in DOMAIN entries : entries[j].claim = q}}
      BY <1>5, <3>2
    <3> QED BY <2>1, <3>1, <3>3 DEF InboxInv, Claimed
  <2>2. ASSUME NEW i \in DOMAIN entries
        PROVE  Recorded(entries[i])' <=> Recorded(entries[i])
    <3>1. CASE entries[i].claim = r
      BY <1>1, <1>5, <3>1 DEF Recorded
    <3>2. CASE entries[i].claim # r
      <4>1. entries[i].claim = NoRun \/ entries[i].claim \in Runs \ {r}
        BY <1>3, <3>2
      <4> QED BY <1>2, <1>5, <3>2, <4>1 DEF Recorded
    <3> QED BY <3>1, <3>2
  <2>3. \A k \in DOMAIN entries' :
          /\ entries'[k].id \in ToSet(delivered'[entries'[k].session]) <=> Recorded(entries[k])'
          /\ ~Recorded(entries[k])' =>
               \A id \in ToSet(delivered'[entries'[k].session]) : id < entries'[k].id
    BY <1>1, <1>5, <2>2 DEF InboxInv, Claimed
  <2>4. \A k, l \in DOMAIN entries' :
          entries'[k].session = entries'[l].session /\ entries'[k].claim # NoRun
            /\ entries'[l].claim = NoRun => entries'[k].id < entries'[l].id
    <3> SUFFICES ASSUME NEW k \in DOMAIN entries, NEW l \in DOMAIN entries,
                        entries[k].session = entries[l].session,
                        entries'[k].claim # NoRun, entries'[l].claim = NoRun
                 PROVE  entries[k].id < entries[l].id
      BY <1>5
    <3>1. entries[k].claim # r /\ entries[k].claim # NoRun
      BY <1>5
    <3>2. entries[l].claim # r
      BY <1>1, <3>1, OwnClaims
    <3>3. entries[l].claim = NoRun
      BY <1>5, <3>2
    <3> QED BY <3>1, <3>3 DEF InboxInv, Claimed
  <2> QED BY <2>1, <2>3, <2>4 DEF Claimed
<1> QED BY <1>6, <1>7, <1>8, <1>9 DEF InboxInv

\* The transaction with the claimed messages is acknowledged.
LEMMA RecordStep ==
  ASSUME InboxInv, NEW r \in Runs, Record(r)
  PROVE  InboxInv'
<1> DEFINE s == run[r].session
           more == run[r].messages
<1>1. /\ run[r].stage = "claimed" /\ To(r, "recorded")
      /\ delivered' = [delivered EXCEPT ![s] = @ \o more]
      /\ UNCHANGED <<next, entries, lease, accepted>>
  BY DEF Record
<1>2. /\ run' \in [Runs -> [stage : Stages, session : Sessions \cup {"none"}, messages : Seq(Nat)]]
      /\ run'[r].stage = "recorded" /\ run'[r].session = s
      /\ \A q \in Runs \ {r} : run'[q] = run[q]
      /\ \A q \in Runs : run'[q].stage # "off" => run'[q].session \in Sessions
  <2>1. "recorded" \in Stages \ {"off"}
    BY DEF Stages
  <2> QED BY <1>1, <2>1, ToType DEF InboxInv
<1>3. /\ s \in Sessions /\ more \in Seq(Nat) /\ Ascending(more)
      /\ ToSet(more) = {entries[i].id : i \in {j \in DOMAIN entries : entries[j].claim = r}}
      /\ delivered[s] \in Seq(Nat) /\ Ascending(delivered[s])
  BY <1>1 DEF InboxInv, TypeOK, Claimed, Numbered
<1>4. \A i \in DOMAIN entries :
        /\ entries[i].session = s /\ entries[i].claim # NoRun => entries[i].claim = r
        /\ entries[i].claim = r => entries[i].session = s
  BY <1>1, OwnClaims
<1>5. /\ \A i \in DOMAIN entries : entries[i].claim \in Runs \cup {NoRun}
                                   /\ entries[i].session \in Sessions /\ entries[i].id \in Nat
      /\ \A i, j \in DOMAIN entries : entries[i].id = entries[j].id => i = j
  BY Messages DEF InboxInv
<1> HIDE DEF s, more
<1>6. \A i \in DOMAIN entries : entries[i].claim = r => ~Recorded(entries[i])
  BY <1>1 DEF Recorded
<1>7. ASSUME NEW a \in ToSet(delivered[s]), NEW b \in ToSet(more)
      PROVE  a < b
  <2>1. PICK i \in DOMAIN entries : entries[i].claim = r /\ b = entries[i].id
    BY <1>3
  <2> QED BY <1>4, <1>6, <2>1 DEF InboxInv, Claimed
<1>8. /\ delivered[s] \o more \in Seq(Nat) /\ Ascending(delivered[s] \o more)
      /\ ToSet(delivered[s] \o more) = ToSet(delivered[s]) \cup ToSet(more)
  BY <1>3, <1>7, ConcatAscending
<1>9. /\ delivered' \in [Sessions -> Seq(Nat)] /\ Ascending(delivered'[s])
      /\ ToSet(delivered'[s]) = ToSet(delivered[s]) \cup ToSet(more)
      /\ \A t \in Sessions \ {s} : delivered'[t] = delivered[t]
  <2>1. delivered \in [Sessions -> Seq(Nat)]
    BY DEF InboxInv, TypeOK
  <2>2. delivered'[s] = delivered[s] \o more
        /\ \A t \in Sessions \ {s} : delivered'[t] = delivered[t]
    BY <1>1, <1>3, <2>1
  <2>3. delivered' \in [Sessions -> Seq(Nat)]
    BY <1>1, <1>3, <1>8, <2>1
  <2> QED BY <1>8, <2>2, <2>3
<1>10. TypeOK'
  BY <1>1, <1>2, <1>9 DEF InboxInv, TypeOK
<1>11. Numbered'
  BY <1>1, <1>9 DEF InboxInv, Numbered
<1>12. Whole'
  <2>1. ToSet(more) \subseteq InInbox(s)
    BY <1>3, <1>4 DEF InInbox
  <2>2. \A t \in Sessions : InInbox(t)' = InInbox(t)
    BY <1>1 DEF InInbox
  <2> QED BY <1>1, <1>9, <2>1, <2>2 DEF InboxInv, Whole
<1>13. Owned'
  <2>1. \A i \in DOMAIN entries' : entries'[i].claim # NoRun =>
          /\ run'[entries'[i].claim].stage \in {"claimed", "recorded"}
          /\ run'[entries'[i].claim].session = entries'[i].session
    BY <1>1, <1>2, <1>4, <1>5 DEF InboxInv, Owned
  <2>2. \A q \in Runs : run'[q].stage \in Owning => lease'[run'[q].session] = q
    <3>1. "claimed" \in Owning
      BY DEF Owning
    <3>2. lease[s] = r
      BY <1>1, <3>1 DEF InboxInv, Owned, s
    <3> QED BY <1>1, <1>2, <3>2 DEF InboxInv, Owned
  <2> QED BY <2>1, <2>2 DEF Owned
<1>14. Claimed'
  <2>1. ASSUME NEW q \in Runs, run'[q].stage = "claimed"
        PROVE  /\ Ascending(run'[q].messages)
               /\ ToSet(run'[q].messages)
                    = {entries'[k].id : k \in {j \in DOMAIN entries' : entries'[j].claim = q}}
    <3>1. q # r /\ run'[q] = run[q]
      BY <1>2, <2>1
    <3>2. entries' = entries
      BY <1>1
    <3> QED BY <2>1, <3>1, <3>2 DEF InboxInv, Claimed
  <2>2. ASSUME NEW i \in DOMAIN entries
        PROVE  Recorded(entries[i])' <=> Recorded(entries[i]) \/ entries[i].claim = r
    <3>1. CASE entries[i].claim = r
      BY <1>1, <1>2, <3>1, InboxAssumption DEF Recorded
    <3>2. CASE entries[i].claim # r
      <4>1. entries[i].claim = NoRun \/ entries[i].claim \in Runs \ {r}
        BY <1>5, <3>2
      <4> QED BY <1>1, <1>2, <3>2, <4>1 DEF Recorded
    <3> QED BY <3>1, <3>2
  <2>3. ASSUME NEW i \in DOMAIN entries
        PROVE  entries[i].id \in ToSet(delivered'[entries[i].session])
                 <=> Recorded(entries[i]) \/ entries[i].claim = r
    <3>1. entries[i].id \in ToSet(more) <=> entries[i].claim = r
      BY <1>3, <1>5
    <3>2. entries[i].id \in ToSet(delivered[entries[i].session]) <=> Recorded(entries[i])
      BY DEF InboxInv, Claimed
    <3>3. CASE entries[i].session = s
      BY <1>9, <3>1, <3>2, <3>3
    <3>4. CASE entries[i].session # s
      BY <1>4, <1>5, <1>9, <3>2, <3>4
    <3> QED BY <3>3, <3>4
  <2>4. ASSUME NEW i \in DOMAIN entries, ~Recorded(entries[i]), entries[i].claim # r,
               NEW id \in ToSet(delivered'[entries[i].session])
        PROVE  id < entries[i].id
    <3>1. CASE id \in ToSet(delivered[entries[i].session])
      BY <2>4, <3>1 DEF InboxInv, Claimed
    <3>2. CASE entries[i].session = s /\ id \in ToSet(more)
      <4>1. PICK j \in DOMAIN entries : entries[j].claim = r /\ id = entries[j].id
        BY <1>3, <3>2
      <4>2. entries[i].claim = NoRun /\ entries[j].session = s
        BY <1>4, <2>4, <3>2, <4>1
      <4> QED BY <3>2, <4>1, <4>2, InboxAssumption DEF InboxInv, Claimed
    <3> QED BY <1>5, <1>9, <2>4, <3>1, <3>2
  <2>5. \A k \in DOMAIN entries' :
          /\ entries'[k].id \in ToSet(delivered'[entries'[k].session]) <=> Recorded(entries[k])'
          /\ ~Recorded(entries[k])' =>
               \A id \in ToSet(delivered'[entries'[k].session]) : id < entries'[k].id
    BY <1>1, <2>2, <2>3, <2>4
  <2> QED BY <1>1, <2>1, <2>5 DEF InboxInv, Claimed
<1> QED BY <1>10, <1>11, <1>12, <1>13, <1>14 DEF InboxInv

-----------------------------------------------------------------------------
(* The theorems.                                                           *)

\* Every reachable state of the inbox: numbers ascend, what was accepted was
\* delivered or waits, a claim holds the oldest messages of the session its run
\* owns, and a message is delivered from its claim's record on.
THEOREM Invariance == Spec => []InboxInv
<1>1. Init => InboxInv
  <2> SUFFICES ASSUME Init PROVE InboxInv
    OBVIOUS
  <2>1. DOMAIN entries = {} /\ entries \in Seq(Message) /\ next \in Nat
    BY EmptySeq DEF Init
  <2>2. Off \in [stage : Stages, session : Sessions \cup {"none"}, messages : Seq(Nat)]
        /\ Off.stage = "off"
    BY EmptySeq DEF Off, Stages
  <2>3. \A r \in Runs : run[r] = Off
    BY DEF Init
  <2>4. /\ \A s \in Sessions : accepted[s] = <<>> /\ delivered[s] = <<>>
        /\ accepted \in [Sessions -> Seq(Nat)] /\ delivered \in [Sessions -> Seq(Nat)]
    BY EmptySeq DEF Init
  <2>5. Ascending(<<>>) /\ ToSet(<<>>) = {}
    BY EmptySeq DEF Ascending, ToSet
  <2>6. TypeOK
    BY <2>1, <2>2, <2>3, <2>4 DEF Init, TypeOK
  <2>7. Numbered
    BY <2>1, <2>4, <2>5 DEF Numbered, Ascending, Ids
  <2>8. Whole
    BY <2>1, <2>4, <2>5 DEF Whole, InInbox
  <2>9. Owned /\ Claimed
    BY <2>1, <2>2, <2>3 DEF Owned, Claimed, Owning
  <2> QED BY <2>6, <2>7, <2>8, <2>9 DEF InboxInv
<1>2. InboxInv /\ [Next]_vars => InboxInv'
  <2> SUFFICES ASSUME InboxInv, [Next]_vars PROVE InboxInv'
    OBVIOUS
  <2>1. ASSUME NEW i \in DOMAIN entries, Discard(i) PROVE InboxInv'
    BY <2>1, DiscardStep
  <2>2. ASSUME NEW r \in Runs, NEW s \in Sessions, Bind(r, s) PROVE InboxInv'
    BY <2>2, BindStep
  <2>3. ASSUME NEW r \in Runs, Push(r) \/ Acquire(r) \/ Claim(r) \/ Record(r) PROVE InboxInv'
    BY <2>3, PushStep, AcquireStep, ClaimStep, RecordStep
  <2>4. ASSUME NEW r \in Runs, Commit(r) \/ DropClaim(r) \/ Leave(r) PROVE InboxInv'
    BY <2>4, CommitStep, DropClaimStep, LeaveStep
  <2>5. CASE UNCHANGED vars
    <3>1. /\ next' = next /\ entries' = entries /\ run' = run
          /\ lease' = lease /\ accepted' = accepted /\ delivered' = delivered
      BY <2>5 DEF vars
    <3>2. TypeOK'
      BY <3>1 DEF InboxInv, TypeOK
    <3>3. Numbered'
      BY <3>1 DEF InboxInv, Numbered
    <3>4. Whole'
      BY <3>1 DEF InboxInv, Whole, InInbox
    <3>5. Owned'
      BY <3>1 DEF InboxInv, Owned
    <3>6. Claimed'
      BY <3>1 DEF InboxInv, Claimed, Recorded
    <3> QED BY <3>2, <3>3, <3>4, <3>5, <3>6 DEF InboxInv
  <2> QED BY <2>1, <2>2, <2>3, <2>4, <2>5 DEF Next
<1> QED BY <1>1, <1>2, PTL DEF Spec

\* Every accepted message is delivered once and in order or still waits, and one
\* that waits is never left claimed by a preparation that is over.
THEOREM NextTurnKeptHolds == Spec => []NextTurnKept
BY Invariance, InvKeeps, PTL
=============================================================================
