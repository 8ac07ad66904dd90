-------------------------- MODULE RunControlProofs --------------------------
(***************************************************************************)
(* Theorems about RunControl, for every value of its constants.  Each      *)
(* invariant the runs check is inductive relative to the ones proved       *)
(* before it; the byte counters are compared with sums.                    *)
(***************************************************************************)
EXTENDS RunControl, FiniteSetTheorems, WellFoundedInduction, SequenceTheorems, TLAPS

-----------------------------------------------------------------------------
(* Sums of natural numbers over finite sets.  The model states them with   *)
(* the folds of the community modules, which take the elements in an order *)
(* CHOOSE gives.  Here a sum is the number of its units, so that adding   *)
(* or renaming a value is a fact about cardinalities, and a fold is shown  *)
(* to give that number in whatever order it runs.                          *)

\* The units of the values of f over S: their number is the sum.
Units(f, S) == {u \in S \X Nat : 1 <= u[2] /\ u[2] <= f[u[1]]}
Sum(f, S) == Cardinality(Units(f, S))

\* The units of one value.
LEMMA UnitsOfOne ==
  ASSUME NEW x, NEW n \in Nat
  PROVE  IsFiniteSet({x} \X (1..n)) /\ Cardinality({x} \X (1..n)) = n
<1>1. IsFiniteSet(1..n) /\ Cardinality(1..n) = n
  BY FS_Interval
<1>2. IsFiniteSet({x}) /\ Cardinality({x}) = 1
  BY FS_Singleton
<1> QED BY <1>1, <1>2, FS_Product

\* Finitely many values have finitely many units.
LEMMA UnitsFinite ==
  ASSUME NEW S, IsFiniteSet(S), NEW f, \A x \in S : f[x] \in Nat
  PROVE  IsFiniteSet(Units(f, S)) /\ Sum(f, S) \in Nat
<1> DEFINE column == [x \in S |-> {x} \X (1..f[x])]
           all == {column[x] : x \in S}
<1>1. column \in Surjection(S, all)
  BY DEF Surjection
<1>2. IsFiniteSet(all)
  BY <1>1, FS_Surjection
<1>3. \A C \in all : IsFiniteSet(C)
  <2> SUFFICES ASSUME NEW x \in S PROVE IsFiniteSet({x} \X (1..f[x]))
    OBVIOUS
  <2> QED BY UnitsOfOne
<1>4. IsFiniteSet(UNION all)
  BY <1>2, <1>3, FS_UNION
<1>5. Units(f, S) \subseteq UNION all
  <2> SUFFICES ASSUME NEW u \in Units(f, S) PROVE u \in UNION all
    OBVIOUS
  <2>1. /\ u \in S \X Nat /\ 1 <= u[2] /\ u[2] <= f[u[1]]
    BY DEF Units
  <2>2. u[2] \in 1..f[u[1]] /\ u = <<u[1], u[2]>> /\ u[1] \in S
    BY <2>1
  <2>3. u \in column[u[1]]
    BY <2>2
  <2> QED BY <2>2, <2>3
<1>6. IsFiniteSet(Units(f, S))
  BY <1>4, <1>5, FS_Subset
<1> QED BY <1>6, FS_CardinalityType DEF Sum

\* One value more.
LEMMA SumAdd ==
  ASSUME NEW S, IsFiniteSet(S), NEW x \in S, NEW f, \A y \in S : f[y] \in Nat
  PROVE  Sum(f, S) = Sum(f, S \ {x}) + f[x]
<1> DEFINE one == {x} \X (1..f[x])
           rest == Units(f, S \ {x})
<1>1. IsFiniteSet(one) /\ Cardinality(one) = f[x]
  BY UnitsOfOne
<1>2. IsFiniteSet(S \ {x}) /\ \A y \in S \ {x} : f[y] \in Nat
  BY FS_RemoveElement
<1>3. IsFiniteSet(rest) /\ Cardinality(rest) \in Nat
  BY <1>2, UnitsFinite DEF Sum
<1>4. Units(f, S) = rest \cup one
  <2>1. ASSUME NEW u \in Units(f, S) PROVE u \in rest \cup one
    <3>1. u \in S \X Nat /\ 1 <= u[2] /\ u[2] <= f[u[1]]
      BY DEF Units
    <3>2. u = <<u[1], u[2]>> /\ u[2] \in Nat /\ u[1] \in S
      BY <3>1
    <3>3. CASE u[1] = x
      <4>1. u[2] \in 1..f[x]
        BY <3>1, <3>2, <3>3
      <4> QED BY <3>2, <3>3, <4>1
    <3>4. CASE u[1] # x
      BY <3>1, <3>2, <3>4 DEF Units
    <3> QED BY <3>3, <3>4
  <2>2. rest \subseteq Units(f, S)
    BY DEF Units
  <2>3. one \subseteq Units(f, S)
    BY DEF Units
  <2> QED BY <2>1, <2>2, <2>3
<1>5. rest \cap one = {}
  BY DEF Units
<1> HIDE DEF one, rest
<1>6. Cardinality(rest \cup one) = Cardinality(rest) + Cardinality(one) - Cardinality({})
  BY <1>1, <1>3, <1>5, FS_Union
<1> QED BY <1>1, <1>3, <1>4, <1>6, FS_EmptySet DEF Sum, rest

\* A sum depends on the values only.
LEMMA SumSame ==
  ASSUME NEW S, NEW f, NEW g, \A x \in S : f[x] = g[x]
  PROVE  Sum(f, S) = Sum(g, S)
<1>1. Units(f, S) = Units(g, S)
  BY DEF Units
<1> QED BY <1>1 DEF Sum

\* A sum does not depend on what its values are indexed by.
LEMMA SumReindexed ==
  ASSUME NEW S, IsFiniteSet(S), NEW T, NEW f, NEW g, NEW h,
         h \in Bijection(S, T),
         \A x \in S : f[x] \in Nat /\ f[x] = g[h[x]]
  PROVE  Sum(f, S) = Sum(g, T)
<1> DEFINE k == [u \in Units(f, S) |-> <<h[u[1]], u[2]>>]
<1>1. /\ h \in [S -> T] /\ \A x, y \in S : h[x] = h[y] => x = y
      /\ \A t \in T : \E x \in S : h[x] = t
  BY DEF Bijection, Injection, Surjection, IsInjective
<1>2. \A u \in Units(f, S) : k[u] \in Units(g, T)
  BY <1>1 DEF Units
<1>3. ASSUME NEW u \in Units(f, S), NEW v \in Units(f, S), k[u] = k[v]
      PROVE  u = v
  <2>1. u = <<u[1], u[2]>> /\ v = <<v[1], v[2]>> /\ u[1] \in S /\ v[1] \in S
    BY DEF Units
  <2>2. h[u[1]] = h[v[1]] /\ u[2] = v[2]
    BY <1>3
  <2> QED BY <1>1, <2>1, <2>2
<1>4. ASSUME NEW v \in Units(g, T)
      PROVE  \E u \in Units(f, S) : k[u] = v
  <2>1. v = <<v[1], v[2]>> /\ v[1] \in T /\ v[2] \in Nat /\ 1 <= v[2] /\ v[2] <= g[v[1]]
    BY DEF Units
  <2>2. PICK x \in S : h[x] = v[1]
    BY <1>1, <2>1
  <2>3. <<x, v[2]>> \in Units(f, S)
    BY <2>1, <2>2 DEF Units
  <2>4. k[<<x, v[2]>>] = v
    BY <2>1, <2>2, <2>3
  <2> QED BY <2>3, <2>4
<1>5. k \in [Units(f, S) -> Units(g, T)]
  BY <1>2
<1> HIDE DEF k
<1>6. k \in Bijection(Units(f, S), Units(g, T))
  BY <1>3, <1>4, <1>5 DEF Bijection, Injection, Surjection, IsInjective
<1>7. IsFiniteSet(Units(f, S))
  BY UnitsFinite
<1>8. ExistsBijection(Units(f, S), Units(g, T))
  BY <1>6 DEF ExistsBijection
<1> QED BY <1>7, <1>8, FS_Bijection DEF Sum

\* The sum of nothing.
LEMMA SumEmpty == ASSUME NEW f PROVE Sum(f, {}) = 0
<1>1. Units(f, {}) = {}
  BY DEF Units
<1> QED BY <1>1, FS_EmptySet DEF Sum

\* The element a fold takes out of a set.
Pick(s) == CHOOSE x \in s : TRUE

\* What folds the values of f over the subsets of S.
Folds(g, f, S) ==
  g = [s \in SUBSET S |-> IF s = {} THEN 0 ELSE f[Pick(s)] + g[s \ {Pick(s)}]]

\* There is such a fold, and it gives the sum.
LEMMA FoldExists ==
  ASSUME NEW S, IsFiniteSet(S), NEW f, \A x \in S : f[x] \in Nat
  PROVE  \E g : Folds(g, f, S)
<1> DEFINE g == [s \in SUBSET S |-> Sum(f, s)]
           h == [s \in SUBSET S |-> IF s = {} THEN 0 ELSE f[Pick(s)] + g[s \ {Pick(s)}]]
<1>1. ASSUME NEW s \in SUBSET S PROVE g[s] = h[s]
  <2>1. CASE s = {}
    BY <2>1, SumEmpty
  <2>2. CASE s # {}
    <3>1. Pick(s) \in s
      BY <2>2 DEF Pick
    <3>2. IsFiniteSet(s) /\ IsFiniteSet(s \ {Pick(s)}) /\ \A x \in s : f[x] \in Nat
      BY FS_Subset, FS_RemoveElement
    <3>3. Sum(f, s) = Sum(f, s \ {Pick(s)}) + f[Pick(s)]
      BY <3>1, <3>2, SumAdd
    <3>4. Sum(f, s \ {Pick(s)}) \in Nat /\ f[Pick(s)] \in Nat
      BY <3>1, <3>2, UnitsFinite
    <3>5. g[s] = Sum(f, s) /\ g[s \ {Pick(s)}] = Sum(f, s \ {Pick(s)})
      OBVIOUS
    <3> HIDE DEF g
    <3>6. h[s] = f[Pick(s)] + g[s \ {Pick(s)}]
      BY <2>2
    <3> QED BY <3>3, <3>4, <3>5, <3>6
  <2> QED BY <2>1, <2>2
<1>2. g = h
  <2> HIDE DEF g
  <2>1. g = [s \in SUBSET S |-> g[s]]
    BY DEF g
  <2> QED BY <1>1, <2>1
<1> HIDE DEF g
<1> QED BY <1>2 DEF Folds

\* Whatever folds the values gives their sum.
LEMMA FoldIsSum ==
  ASSUME NEW S, IsFiniteSet(S), NEW f, \A x \in S : f[x] \in Nat, NEW g, Folds(g, f, S)
  PROVE  g[S] = Sum(f, S)
<1> DEFINE wrong == {s \in SUBSET S : g[s] # Sum(f, s)}
           sizes == {Cardinality(s) : s \in wrong}
<1>1. \A s \in SUBSET S : IsFiniteSet(s) /\ Cardinality(s) \in Nat
  BY FS_Subset, FS_CardinalityType
<1>2. \A s \in SUBSET S : g[s] = IF s = {} THEN 0 ELSE f[Pick(s)] + g[s \ {Pick(s)}]
  BY DEF Folds
<1>3. SUFFICES ASSUME wrong # {} PROVE FALSE
  OBVIOUS
<1>4. sizes # {} /\ sizes \subseteq Nat
  BY <1>1, <1>3
<1>5. PICK n \in sizes : \A m \in sizes : <<m, n>> \notin OpToRel(<, Nat)
  <2> HIDE DEF sizes
  <2> QED BY <1>4, WFMin, NatLessThanWellFounded
<1>6. PICK s \in wrong : n = Cardinality(s)
  BY <1>5
<1>7. s # {}
  <2>1. g[{}] = 0
    BY <1>2
  <2> QED BY <1>6, <2>1, SumEmpty
<1> DEFINE x == Pick(s)
           r == s \ {x}
<1>8. x \in s
  BY <1>7 DEF Pick
<1> HIDE DEF x
<1>9. r \in SUBSET S /\ Cardinality(r) = n - 1 /\ Cardinality(r) \in Nat /\ n \in Nat
  BY <1>1, <1>6, <1>8, FS_RemoveElement
<1>10. r \notin wrong
  <2>1. <<Cardinality(r), n>> \in OpToRel(<, Nat)
    BY <1>9 DEF OpToRel
  <2> QED BY <1>5, <2>1
<1>11. g[s] = f[x] + Sum(f, r)
  BY <1>2, <1>6, <1>7, <1>9, <1>10 DEF x
<1>12. Sum(f, s) = Sum(f, r) + f[x] /\ Sum(f, r) \in Nat /\ f[x] \in Nat
  <2>1. IsFiniteSet(s) /\ IsFiniteSet(r) /\ (\A y \in s : f[y] \in Nat) /\ \A y \in r : f[y] \in Nat
    BY <1>1, <1>6, <1>9
  <2> QED BY <1>8, <2>1, SumAdd, UnitsFinite
<1> QED BY <1>6, <1>11, <1>12

-----------------------------------------------------------------------------
(* Lemmas about the operators.                                             *)

\* What removing one element of a sequence returns (ControlState::applied).
LEMMA RemoveAtProperties ==
  ASSUME NEW S, NEW s \in Seq(S), NEW i \in 1..Len(s)
  PROVE  /\ RemoveAt(s, i) \in Seq(S)
         /\ Len(RemoveAt(s, i)) = Len(s) - 1
         /\ \A j \in 1..(Len(s) - 1) :
              RemoveAt(s, i)[j] = IF j < i THEN s[j] ELSE s[j + 1]
<1> DEFINE before == SubSeq(s, 1, i - 1)
           after == SubSeq(s, i + 1, Len(s))
<1>1. /\ before \in Seq(S) /\ Len(before) = i - 1
      /\ \A j \in 1..(i - 1) : before[j] = s[j]
  BY SubSeqProperties
<1>2. /\ after \in Seq(S) /\ Len(after) = Len(s) - i
      /\ \A j \in 1..(Len(s) - i) : after[j] = s[i + j]
  BY SubSeqProperties
<1>3. RemoveAt(s, i) = before \o after
  BY DEF RemoveAt
<1> HIDE DEF before, after
<1>4. /\ before \o after \in Seq(S)
      /\ Len(before \o after) = Len(before) + Len(after)
      /\ \A j \in 1..(Len(before) + Len(after)) :
           (before \o after)[j] = IF j <= Len(before) THEN before[j]
                                  ELSE after[j - Len(before)]
  BY <1>1, <1>2, ConcatProperties
<1>5. QED
  BY <1>1, <1>2, <1>3, <1>4

\* A notification only moves futures out of their sleep: no reservation is
\* added, removed or resized, and none gets or loses its turn.
LEMMA WakeProperties ==
  ASSUME NEW f, f \in [DOMAIN f -> Reservation]
  PROVE  /\ DOMAIN Wake(f) = DOMAIN f
         /\ Wake(f) \in [DOMAIN f -> Reservation]
         /\ \A id \in DOMAIN f :
              /\ Wake(f)[id].stage # "asleep"
              /\ Wake(f)[id].stage = "turn" <=> f[id].stage = "turn"
<1>1. ASSUME NEW id \in DOMAIN f
      PROVE  /\ Wake(f)[id] \in Reservation
             /\ Wake(f)[id].stage # "asleep"
             /\ Wake(f)[id].stage = "turn" <=> f[id].stage = "turn"
  <2>1. f[id] \in Reservation
    OBVIOUS
  <2>2. CASE f[id].stage = "armed"
    BY <2>1, <2>2 DEF Wake, Reservation, Stages
  <2>3. CASE f[id].stage = "asleep"
    BY <2>1, <2>3 DEF Wake, Reservation, Stages
  <2>4. CASE f[id].stage \notin {"armed", "asleep"}
    BY <2>1, <2>4 DEF Wake, Reservation, Stages
  <2>5. QED
    BY <2>2, <2>3, <2>4
<1>2. DOMAIN Wake(f) = DOMAIN f
  BY DEF Wake
<1>3. Wake(f) \in [DOMAIN f -> Reservation]
  BY <1>1, <1>2 DEF Wake
<1>4. QED
  BY <1>1, <1>2, <1>3

\* Dropping a ticket takes its reservation out and leaves the others alone.
LEMMA WithoutProperties ==
  ASSUME NEW f, f \in [DOMAIN f -> Reservation], NEW id
  PROVE  /\ DOMAIN Without(f, id) = DOMAIN f \ {id}
         /\ Without(f, id) \in [DOMAIN f \ {id} -> Reservation]
         /\ \A other \in DOMAIN f \ {id} : Without(f, id)[other] = f[other]
BY DEF Without

-----------------------------------------------------------------------------
(* Type correctness.                                                       *)

\* What most operations do to the reservations: nothing, or a notification.
Notified == inflight' = inflight \/ inflight' = Wake(inflight)

\* ControlState::update at most moves the stages of the reservations.
LEMMA NotifiedType ==
  ASSUME TypeOK, Notified
  PROVE  /\ DOMAIN inflight' = DOMAIN inflight
         /\ inflight' \in [DOMAIN inflight -> Reservation]
BY WakeProperties DEF TypeOK, Notified

\* The counter advances by one: earlier ids stay below it, the id just given
\* is above them all.
LEMMA NextIdType ==
  ASSUME TypeOK, nextId < MaxId, nextId' = nextId + 1
  PROVE  /\ nextId' \in 1..MaxId
         /\ nextId \in Nat /\ nextId \in 1..(nextId' - 1)
         /\ nextId \notin 1..(nextId - 1)
         /\ 1..(nextId - 1) \subseteq 1..(nextId' - 1)
         /\ 0..(nextId - 1) \subseteq 0..(nextId' - 1)
BY LimitsAssumption, SMTT(40) DEF TypeOK

\* A ticket leaves (Ticket::drop, or the commit that consumed it).
LEMMA ReleasedProperties ==
  ASSUME TypeOK, NEW id \in DOMAIN inflight,
         inflight' = Wake(Without(inflight, id))
  PROVE  /\ DOMAIN inflight' = DOMAIN inflight \ {id}
         /\ inflight' \in [DOMAIN inflight' -> Reservation]
         /\ \A other \in DOMAIN inflight' :
              /\ inflight'[other].stage # "asleep"
              /\ inflight'[other].stage = "turn" <=> inflight[other].stage = "turn"
<1> DEFINE rest == Without(inflight, id)
<1>1. /\ DOMAIN rest = DOMAIN inflight \ {id}
      /\ rest \in [DOMAIN inflight \ {id} -> Reservation]
      /\ \A other \in DOMAIN inflight \ {id} : rest[other] = inflight[other]
  BY WithoutProperties DEF TypeOK
<1>2. inflight' = Wake(rest)
  OBVIOUS
<1> HIDE DEF rest
<1>3. QED
  BY <1>1, <1>2, WakeProperties

\* A new ticket joins (reserve_input, begin_custom).
LEMMA ReservedProperties ==
  ASSUME TypeOK, NEW kind \in Deliveries, NEW custom \in BOOLEAN,
         NEW bytes \in Sizes, Reserve(kind, custom, bytes)
  PROVE  /\ DOMAIN inflight' = DOMAIN inflight \cup {nextId}
         /\ inflight' \in [DOMAIN inflight' -> Reservation]
         /\ inflight'[nextId].stage = "polling"
         /\ \A other \in DOMAIN inflight :
              /\ inflight'[other].stage # "asleep"
              /\ inflight'[other].stage = "turn" <=> inflight[other].stage = "turn"
<1> DEFINE new == [kind |-> kind, bytes |-> bytes, custom |-> custom,
                   prepared |-> ~custom /\ pipeline = "hooks",
                   stage |-> "polling"]
<1>1. new \in Reservation
  BY LimitsAssumption DEF Reservation, Stages
<1>2. inflight' = [id \in DOMAIN inflight \cup {nextId} |->
                     IF id = nextId THEN new ELSE Wake(inflight)[id]]
  BY DEF Reserve
<1>3. nextId \notin DOMAIN inflight /\ inflight \in [DOMAIN inflight -> Reservation]
  BY NextIdType DEF TypeOK, Reserve
<1>4. new.stage = "polling"
  OBVIOUS
<1> HIDE DEF new
<1>5. QED
  BY <1>1, <1>2, <1>3, <1>4, WakeProperties

\* A delivered message leaves every reservation where it is, notified.
LEMMA DeliveredProperties ==
  ASSUME TypeOK, NEW id \in DOMAIN inflight, DeliverNextTurn(id)
  PROVE  /\ DOMAIN inflight' = DOMAIN inflight
         /\ inflight' \in [DOMAIN inflight -> Reservation]
         /\ \A other \in DOMAIN inflight :
              /\ inflight'[other].stage # "asleep"
              /\ inflight'[other].stage = "turn" => inflight[other].stage = "turn"
<1> DEFINE told == [inflight EXCEPT ![id].stage = "delivered"]
<1>1. inflight \in [DOMAIN inflight -> Reservation]
  BY DEF TypeOK
<1>2. /\ DOMAIN told = DOMAIN inflight
      /\ told \in [DOMAIN told -> Reservation]
  BY <1>1 DEF Reservation, Stages
<1>3. \A other \in DOMAIN inflight :
        told[other].stage = "turn" => inflight[other].stage = "turn"
  BY <1>1 DEF Reservation
<1>4. inflight' = Wake(told)
  BY DEF DeliverNextTurn
<1> HIDE DEF told
<1>5. QED
  BY <1>2, <1>3, <1>4, WakeProperties

\* What the head reservation becomes when its preparation is ready.
LEMMA CommittedEntry ==
  ASSUME TypeOK, NEW id \in DOMAIN inflight, NEW bytes \in Sizes, Commit(id, bytes)
  PROVE  \E entry \in Entry : /\ pending' = Append(pending, entry)
                              /\ entry.id = id /\ entry.reserved
<1>1. inflight[id] \in Reservation /\ bytes \in Nat /\ id \in Nat
  BY LimitsAssumption DEF TypeOK
<1>2. /\ inflight[id].kind \in Kinds /\ inflight[id].custom \in BOOLEAN
      /\ inflight[id].prepared \in BOOLEAN
  BY <1>1 DEF Commit, Reservation, Deliveries
<1> DEFINE new == [id |-> id, kind |-> inflight[id].kind, bytes |-> bytes,
                   custom |-> inflight[id].custom,
                   prepared |-> inflight[id].prepared, reserved |-> TRUE]
<1>3. new \in Entry /\ new.id = id /\ new.reserved
  BY <1>1, <1>2 DEF Entry
<1>4. pending' = Append(pending, new)
  BY DEF Commit
<1> HIDE DEF new
<1>5. QED
  BY <1>3, <1>4

\* Every variable keeps its type, whatever the limits and message sizes.
LEMMA TypeStep == TypeOK /\ [Next]_controlVars => TypeOK'
<1> SUFFICES ASSUME TypeOK, [Next]_controlVars PROVE TypeOK'
  OBVIOUS
<1> USE LimitsAssumption DEF TypeOK, queueVars, approvalVars, bindingVars, NoId
<1>1. ASSUME NEW kind \in {"Steer", "FollowUp"}, NEW bytes \in Sizes,
             Submit(kind, bytes)
      PROVE  TypeOK'
  <2>1. Notified
    BY <1>1 DEF Submit, Notified
  <2>2. [id |-> nextId, kind |-> kind, bytes |-> bytes, custom |-> FALSE,
         prepared |-> FALSE, reserved |-> FALSE] \in Entry
    BY DEF Entry, Kinds
  <2>3. pending' \in Seq(Entry) /\ pendingBytes' \in Int
    BY <1>1, <2>2 DEF Submit
  <2>4. QED
    BY <1>1, <2>1, <2>3, NotifiedType, NextIdType DEF Submit
<1>2. ASSUME NEW kind \in Deliveries, NEW custom \in BOOLEAN,
             NEW bytes \in Sizes, Reserve(kind, custom, bytes)
      PROVE  TypeOK'
  <2>1. nextId < MaxId /\ nextId' = nextId + 1 /\ inflightBytes' \in Int
    BY <1>2 DEF Reserve
  <2>2. DOMAIN inflight' \subseteq 1..(nextId' - 1)
    BY <1>2, <2>1, NextIdType, ReservedProperties
  <2>3. QED
    BY <1>2, <2>1, <2>2, NextIdType, ReservedProperties DEF Reserve
<1>3. ASSUME NEW id \in DOMAIN inflight, Arm(id) \/ CheckTurn(id)
      PROVE  TypeOK'
  <2>1. PICK stage \in Stages : inflight' = [inflight EXCEPT ![id].stage = stage]
    <3>1. CASE Arm(id)
      BY <3>1 DEF Arm, Stages
    <3>2. CASE CheckTurn(id)
      BY <3>2 DEF CheckTurn, Stages
    <3>3. QED
      BY <1>3, <3>1, <3>2
  <2>2. inflight[id] \in Reservation
    OBVIOUS
  <2>3. /\ DOMAIN inflight' = DOMAIN inflight
        /\ inflight' \in [DOMAIN inflight -> Reservation]
    BY <2>1, <2>2 DEF Reservation
  <2>4. QED
    BY <1>3, <2>3 DEF Arm, CheckTurn
<1>4. ASSUME NEW id \in DOMAIN inflight, NEW bytes \in Sizes, Commit(id, bytes)
      PROVE  TypeOK'
  <2>1. inflight' = Wake(Without(inflight, id))
    BY <1>4 DEF Commit
  <2>2. inflight[id] \in Reservation /\ bytes \in Nat /\ id \in 1..(nextId - 1)
    OBVIOUS
  <2>3. /\ inflight[id].kind \in Kinds /\ inflight[id].custom \in BOOLEAN
        /\ inflight[id].prepared \in BOOLEAN /\ inflight[id].bytes \in Nat
    BY <1>4, <2>2 DEF Commit, Reservation, Deliveries
  <2>4. pending' \in Seq(Entry)
    <3>1. PICK entry \in Entry : pending' = Append(pending, entry)
      BY <1>4, CommittedEntry
    <3>2. QED
      BY <3>1, AppendProperties
  <2>5. /\ pending' \in Seq(Entry) /\ pendingBytes' \in Int
        /\ inflightBytes' \in Int /\ customTotal' \in Nat
    <3>2. /\ inflightBytes' = inflightBytes - inflight[id].bytes
          /\ pendingBytes' = pendingBytes + bytes
      BY <1>4, Zenon DEF Commit
    <3>3. customTotal' \in {customTotal, customTotal + 1}
      BY <1>4, Zenon DEF Commit
    <3>4. customTotal' \in Nat
      BY <3>3
    <3>5. pendingBytes' \in Int /\ inflightBytes' \in Int
      BY <2>2, <2>3, <3>2, SMTT(40)
    <3>6. QED
      BY <2>4, <3>4, <3>5
  <2>6. accepted' \subseteq 1..(nextId - 1) /\ nextId' = nextId
    BY <1>4, <2>2 DEF Commit
  <2>7. QED
    BY <1>4, <2>1, <2>5, <2>6, ReleasedProperties DEF Commit
<1>5. ASSUME NEW id \in DOMAIN inflight, Release(id)
      PROVE  TypeOK'
  <2>1. inflight' = Wake(Without(inflight, id))
    BY <1>5 DEF Release
  <2>2. inflightBytes' \in Int
    BY <1>5 DEF Release, Reservation
  <2>3. QED
    BY <1>5, <2>1, <2>2, ReleasedProperties DEF Release
<1>6. ASSUME NEW id \in DOMAIN inflight, DeliverNextTurn(id)
      PROVE  TypeOK'
  <2>1. customTotal' \in Nat
    BY <1>6 DEF DeliverNextTurn
  <2>2. QED
    BY <1>6, <2>1, DeliveredProperties DEF DeliverNextTurn
<1>7. ASSUME NEW id \in PendingIds, Apply(id)
      PROVE  TypeOK'
  <2>1. Notified
    BY <1>7 DEF Apply, Notified
  <2>2. PICK i \in DOMAIN pending :
          /\ pending' = RemoveAt(pending, i)
          /\ pendingBytes' = pendingBytes - pending[i].bytes
          /\ applied' = Append(applied, pending[i])
    BY <1>7 DEF Apply
  <2>3. i \in 1..Len(pending) /\ pending[i] \in Entry
    BY ElementOfSeq
  <2>4. pending' \in Seq(Entry) /\ applied' \in Seq(Entry)
    BY <2>2, <2>3, RemoveAtProperties
  <2>5. pendingBytes' \in Int
    BY <2>2, <2>3 DEF Entry
  <2>6. QED
    BY <1>7, <2>1, <2>4, <2>5, NotifiedType DEF Apply
<1>8. ASSUME NEW id \in 1..nextId, NEW allow \in BOOLEAN, Respond(id, allow)
      PROVE  TypeOK'
  <2>1. Notified
    BY <1>8 DEF Respond, Notified
  <2>2. /\ approval' \in 0..(nextId - 1) /\ nextId' = nextId
        /\ allowed' \subseteq 1..(nextId - 1) /\ refused' \subseteq 1..(nextId - 1)
    BY <1>8 DEF Respond
  <2>3. QED
    BY <1>8, <2>1, <2>2, NotifiedType DEF Respond
<1>9. CASE Cancel \/ CancelParent
  <2>1. Notified
    BY <1>9 DEF Cancel, CancelParent, Notified
  <2>2. status' \in Statuses /\ cancelled' \in BOOLEAN
    BY <1>9 DEF Cancel, CancelParent, Statuses
  <2>3. approval' \in 0..(nextId - 1)
    BY <1>9 DEF Cancel, CancelParent
  <2>4. QED
    BY <1>9, <2>1, <2>2, <2>3, NotifiedType DEF Cancel, CancelParent
<1>10. CASE BindPipeline(ExecutorPipeline)
  BY <1>10, NotifiedType DEF BindPipeline, Notified
<1>11. CASE Start \/ Seal \/ Finish \/ Close(TRUE)
  <2>1. Notified
    BY <1>11 DEF Start, Seal, Finish, SetClosed, Close, Notified
  <2>2. status' \in Statuses
    BY <1>11 DEF Start, Seal, Finish, SetClosed, Close, Statuses
  <2>3. approval' \in 0..(nextId - 1)
    <3>1. approval' \in {approval, NoId}
      BY <1>11, Zenon DEF Start, Seal, Finish, SetClosed, Close
    <3>2. QED
      BY <3>1
  <2>4. QED
    BY <1>11, <2>1, <2>2, <2>3, NotifiedType
    DEF Start, Seal, Finish, SetClosed, Close
<1>12. ASSUME NEW capable \in BOOLEAN, ConfigureCustom(capable)
       PROVE  TypeOK'
  BY <1>12, NotifiedType DEF ConfigureCustom, Notified
<1>13. CASE Approve
  <2>1. Notified
    BY <1>13 DEF Approve, Notified
  <2>2. waiters' \subseteq 1..(nextId' - 1) /\ approval' \in 0..(nextId' - 1)
    BY <1>13, NextIdType DEF Approve
  <2>3. QED
    BY <1>13, <2>1, <2>2, NotifiedType, NextIdType DEF Approve
<1>14. ASSUME NEW id \in waiters, EndApproval(id)
       PROVE  TypeOK'
  BY <1>14, NotifiedType, SMTT(40) DEF EndApproval, Notified
<1>15. CASE DropControl
  <2>1. Notified
    BY <1>15 DEF DropControl, Notified
  <2>2. status' \in Statuses /\ approval' \in 0..(nextId - 1) /\ cancelled'
    BY <1>15 DEF DropControl, Statuses
  <2>3. waiters' = {}
    BY <1>15 DEF DropControl
  <2>4. QED
    BY <1>15, <2>1, <2>2, <2>3, NotifiedType DEF DropControl
<1>16. CASE UNCHANGED controlVars
  BY <1>16 DEF controlVars
<1>17. ASSUME NEW id \in DOMAIN inflight, Poll(id) \/ Expire(id)
       PROVE  TypeOK'
  BY <1>3, <1>4, <1>5, <1>6, <1>17 DEF Poll, Resolve, Expire
<1>18. CASE Submissions
  BY <1>1, <1>2, <1>18 DEF Submissions, Deliveries, Kinds
<1>19. CASE Owner
  BY <1>7, <1>10, <1>11, <1>12, <1>13, <1>14, <1>15, <1>19 DEF Owner
<1>20. QED
  BY <1>8, <1>9, <1>16, <1>17, <1>18, <1>19 DEF Next, Host, Futures

\* Every reachable state of a run's control is well typed.
THEOREM TypeCorrect == Spec => []TypeOK
<1>1. Init => TypeOK
  <2> SUFFICES ASSUME Init PROVE TypeOK
    OBVIOUS
  <2>1. DOMAIN inflight = {} /\ inflight \in [DOMAIN inflight -> Reservation]
    BY DEF Init
  <2>2. pending \in Seq(Entry) /\ applied \in Seq(Entry)
    BY EmptySeq DEF Init
  <2>3. cancelled \in BOOLEAN /\ inputError \in BOOLEAN /\ status \in Statuses
    BY Zenon DEF Init, Statuses
  <2>4. nextId \in 1..MaxId /\ approval \in 0..(nextId - 1)
    <3>1. nextId = 1 /\ approval = 0
      BY DEF Init, NoId
    <3>2. QED
      BY <3>1, LimitsAssumption
  <2>5. /\ pipeline \in {"none", "hooks"}
        /\ customCapable \in {"unknown", "yes", "no"}
    BY LimitsAssumption, Zenon DEF Init
  <2>6. /\ pendingBytes = 0 /\ inflightBytes = 0 /\ customTotal = 0
        /\ waiters = {} /\ allowed = {} /\ refused = {} /\ accepted = {}
    BY DEF Init
  <2>7. QED
    BY <2>1, <2>2, <2>3, <2>4, <2>5, <2>6 DEF TypeOK
<1>2. TypeOK /\ [Next]_controlVars => TypeOK'
  BY TypeStep
<1>3. QED
  BY <1>1, <1>2, PTL DEF Spec

-----------------------------------------------------------------------------
(* What a step may do to the queue and to the reservations.                *)

\* The queue and the set of reservations stay, and nobody gets its turn.
Quiet ==
  /\ UNCHANGED <<queueVars, applied>>
  /\ DOMAIN inflight' = DOMAIN inflight
  /\ \A id \in DOMAIN inflight :
       inflight'[id].stage = "turn" => inflight[id].stage = "turn"

\* A reservation is given up and the queue stays.
GiveUp(id) ==
  /\ id \in DOMAIN inflight
  /\ UNCHANGED <<queueVars, applied>>
  /\ inflight' = Wake(Without(inflight, id))

\* A notification adds no reservation and gives none its turn, and a future
\* that leaves takes only its own reservation with it.
LEMMA NotifiedQuiet ==
  ASSUME TypeOK, Notified, UNCHANGED <<queueVars, applied>>
  PROVE  Quiet
BY WakeProperties DEF TypeOK, Notified, Quiet

\* Every step is one of seven kinds as far as inputs are concerned.
LEMMA QueueSteps ==
  ASSUME TypeOK, [Next]_controlVars
  PROVE  \/ Quiet
         \/ \E kind \in {"Steer", "FollowUp"}, bytes \in Sizes : Submit(kind, bytes)
         \/ \E kind \in Deliveries, custom \in BOOLEAN, bytes \in Sizes :
              Reserve(kind, custom, bytes)
         \/ \E id \in DOMAIN inflight : CheckTurn(id)
         \/ \E id \in DOMAIN inflight, bytes \in Sizes : Commit(id, bytes)
         \/ \E id \in DOMAIN inflight : GiveUp(id)
         \/ \E id \in PendingIds : Apply(id)
<1> USE DEF queueVars
<1>1. ASSUME NEW id \in DOMAIN inflight, Arm(id)
      PROVE  Quiet
  BY <1>1 DEF Arm, Quiet, TypeOK
<1>2. ASSUME NEW id \in DOMAIN inflight,
             Resolve(id) \/ Expire(id)
      PROVE  GiveUp(id)
  BY <1>2 DEF Resolve, Expire, Release, GiveUp
<1>3. ASSUME NEW id \in DOMAIN inflight, DeliverNextTurn(id)
      PROVE  Quiet
  BY <1>3, DeliveredProperties DEF DeliverNextTurn, Quiet
<1>4. ASSUME \/ \E id \in 1..nextId, allow \in BOOLEAN : Respond(id, allow)
             \/ Cancel \/ CancelParent
      PROVE  Quiet
  <2>1. Notified /\ UNCHANGED <<queueVars, applied>>
    BY <1>4 DEF Respond, Cancel, CancelParent, Notified
  <2>2. QED
    BY <2>1, NotifiedQuiet
<1>5. ASSUME \/ BindPipeline(ExecutorPipeline) \/ Start \/ Close(TRUE)
             \/ Seal \/ Finish \/ Approve \/ DropControl
             \/ \E capable \in BOOLEAN : ConfigureCustom(capable)
             \/ \E id \in waiters : EndApproval(id)
      PROVE  Quiet
  <2>1. Notified /\ UNCHANGED <<queueVars, applied>>
    BY <1>5 DEF BindPipeline, Start, Close, Seal, Finish, SetClosed, Approve,
                DropControl, ConfigureCustom, EndApproval, Notified
  <2>2. QED
    BY <2>1, NotifiedQuiet
<1>6. CASE UNCHANGED controlVars
  BY <1>6 DEF controlVars, Quiet
<1>7. CASE Submissions
  BY <1>7 DEF Submissions, Deliveries, Kinds
<1>8. CASE Futures
  BY <1>1, <1>2, <1>3, <1>8 DEF Futures, Poll
<1>9. CASE Owner
  BY <1>5, <1>9 DEF Owner
<1>10. QED
  BY <1>4, <1>6, <1>7, <1>8, <1>9 DEF Next, Host

-----------------------------------------------------------------------------
(* Input preparation is serial and in order.                               *)

\* One step keeps preparation serial: a turn is given only to the oldest
\* reservation, and a new one is younger than all.
LEMMA SerialStep ==
  TypeOK /\ SerialPreparation /\ [Next]_controlVars => SerialPreparation'
<1> SUFFICES ASSUME TypeOK, SerialPreparation, [Next]_controlVars
             PROVE  SerialPreparation'
  OBVIOUS
<1> USE DEF SerialPreparation
<1>1. CASE Quiet
  BY <1>1 DEF Quiet
<1>2. ASSUME NEW kind \in {"Steer", "FollowUp"}, NEW bytes \in Sizes,
             Submit(kind, bytes)
      PROVE  SerialPreparation'
  <2>1. inflight' = Wake(inflight)
    BY <1>2 DEF Submit
  <2>2. QED
    BY <2>1, WakeProperties DEF TypeOK
<1>3. ASSUME NEW kind \in Deliveries, NEW custom \in BOOLEAN,
             NEW bytes \in Sizes, Reserve(kind, custom, bytes)
      PROVE  SerialPreparation'
  <2>1. \A id \in DOMAIN inflight : id \in Nat /\ nextId \in Nat /\ id <= nextId
    BY DEF TypeOK
  <2>2. ASSUME NEW id \in DOMAIN inflight', NEW other \in DOMAIN inflight',
               inflight'[id].stage = "turn"
        PROVE  id <= other
    <3>1. id \in DOMAIN inflight /\ inflight[id].stage = "turn"
      BY <1>3, <2>2, ReservedProperties
    <3>2. other \in DOMAIN inflight \/ other = nextId
      BY <1>3, ReservedProperties
    <3>3. QED
      BY <2>1, <3>1, <3>2
  <2>3. QED
    BY <2>2
<1>4. ASSUME NEW id \in DOMAIN inflight, CheckTurn(id)
      PROVE  SerialPreparation'
  <2>1. /\ DOMAIN inflight' = DOMAIN inflight
        /\ \A other \in DOMAIN inflight \ {id} : inflight'[other] = inflight[other]
        /\ inflight'[id].stage = "turn" => IsHead(id)
    BY <1>4 DEF CheckTurn, TypeOK, Reservation
  <2>2. QED
    BY <2>1 DEF IsHead
<1>5. ASSUME NEW id \in DOMAIN inflight, inflight' = Wake(Without(inflight, id))
      PROVE  SerialPreparation'
  BY <1>5, ReleasedProperties
<1>6. ASSUME NEW id \in PendingIds, Apply(id)
      PROVE  SerialPreparation'
  <2>1. inflight' = Wake(inflight)
    BY <1>6 DEF Apply
  <2>2. QED
    BY <2>1, WakeProperties DEF TypeOK
<1>7. QED
  BY QueueSteps, <1>1, <1>2, <1>3, <1>4, <1>5, <1>6 DEF GiveUp, Commit

\* However the submission futures are scheduled, dropped or timed out, at most
\* the oldest live reservation runs its preparation (Ticket::turn).
THEOREM SerialPreparationHolds == Spec => []SerialPreparation
<1>1. Init => SerialPreparation
  BY DEF Init, SerialPreparation
<1>2. QED
  BY <1>1, SerialStep, TypeCorrect, PTL DEF Spec

\* The entry Submit or Commit appends is the last one; the others keep their
\* place.
LEMMA AppendedEntries ==
  ASSUME NEW entries \in Seq(Entry), NEW entry \in Entry
  PROVE  /\ DOMAIN Append(entries, entry) = 1..(Len(entries) + 1)
         /\ DOMAIN entries = 1..Len(entries) /\ Len(entries) \in Nat
         /\ Append(entries, entry)[Len(entries) + 1] = entry
         /\ \A i \in DOMAIN entries : Append(entries, entry)[i] = entries[i]
BY AppendProperties, LenProperties

\* Where the j-th entry left after removing the i-th came from.
Origin(i, j) == IF j < i THEN j ELSE j + 1

\* The entries left after a removal are the others, in the same order.
LEMMA RemovedEntries ==
  ASSUME NEW entries \in Seq(Entry), NEW i \in DOMAIN entries
  PROVE  /\ \A j \in DOMAIN RemoveAt(entries, i) :
              /\ Origin(i, j) \in DOMAIN entries \ {i}
              /\ RemoveAt(entries, i)[j] = entries[Origin(i, j)]
         /\ \A j, k \in DOMAIN RemoveAt(entries, i) :
              /\ j < k => Origin(i, j) < Origin(i, k)
              /\ Origin(i, j) = Origin(i, k) => j = k
         /\ \A k \in DOMAIN entries \ {i} :
              \E j \in DOMAIN RemoveAt(entries, i) : Origin(i, j) = k
<1>1. DOMAIN entries = 1..Len(entries) /\ Len(entries) \in Nat
  BY LenProperties
<1>2. /\ RemoveAt(entries, i) \in Seq(Entry)
      /\ Len(RemoveAt(entries, i)) = Len(entries) - 1
      /\ \A j \in 1..(Len(entries) - 1) :
           RemoveAt(entries, i)[j] = IF j < i THEN entries[j] ELSE entries[j + 1]
  BY <1>1, RemoveAtProperties
<1>3. DOMAIN RemoveAt(entries, i) = 1..(Len(entries) - 1)
  BY <1>2, LenProperties
<1>4. ASSUME NEW k \in DOMAIN entries \ {i}
      PROVE  \E j \in DOMAIN RemoveAt(entries, i) : Origin(i, j) = k
  <2>1. CASE k < i
    BY <1>1, <1>3, <2>1 DEF Origin
  <2>2. CASE k > i
    <3>1. k - 1 \in DOMAIN RemoveAt(entries, i) /\ Origin(i, k - 1) = k
      BY <1>1, <1>3, <2>2 DEF Origin
    <3>2. QED
      BY <3>1
  <2>3. QED
    BY <1>1, <2>1, <2>2
<1>5. QED
  BY <1>1, <1>2, <1>3, <1>4 DEF Origin

\* The ids a sequence of entries holds: PendingIds and AppliedIds.
IdsOf(entries) == {entries[i].id : i \in DOMAIN entries}

\* The ids of a queue that one entry joined, and that they stay distinct.
LEMMA AppendedIds ==
  ASSUME NEW entries \in Seq(Entry), NEW entry \in Entry
  PROVE  /\ IdsOf(Append(entries, entry)) = IdsOf(entries) \cup {entry.id}
         /\ Distinct(entries) /\ entry.id \notin IdsOf(entries)
              => Distinct(Append(entries, entry))
<1> DEFINE longer == Append(entries, entry)
<1>1. /\ DOMAIN longer = DOMAIN entries \cup {Len(entries) + 1}
      /\ longer[Len(entries) + 1] = entry
      /\ \A i \in DOMAIN entries : longer[i] = entries[i]
  BY AppendedEntries
<1> HIDE DEF longer
<1>2. QED
  BY <1>1 DEF IdsOf, Distinct, longer

\* The ids of a queue that one entry left, and that they stay distinct.
LEMMA RemovedIds ==
  ASSUME NEW entries \in Seq(Entry), NEW i \in DOMAIN entries, Distinct(entries)
  PROVE  /\ IdsOf(RemoveAt(entries, i)) = IdsOf(entries) \ {entries[i].id}
         /\ Distinct(RemoveAt(entries, i))
<1> DEFINE fewer == RemoveAt(entries, i)
<1>1. /\ \A j \in DOMAIN fewer : /\ Origin(i, j) \in DOMAIN entries \ {i}
                                 /\ fewer[j] = entries[Origin(i, j)]
      /\ \A j, k \in DOMAIN fewer : Origin(i, j) = Origin(i, k) => j = k
      /\ \A k \in DOMAIN entries \ {i} : \E j \in DOMAIN fewer : Origin(i, j) = k
  BY RemovedEntries
<1> HIDE DEF fewer
<1>2. Distinct(fewer)
  BY <1>1 DEF Distinct
<1>3. IdsOf(fewer) \subseteq IdsOf(entries) \ {entries[i].id}
  BY <1>1 DEF IdsOf, Distinct
<1>4. IdsOf(entries) \ {entries[i].id} \subseteq IdsOf(fewer)
  BY <1>1 DEF IdsOf
<1>5. QED
  BY <1>2, <1>3, <1>4 DEF fewer

-----------------------------------------------------------------------------
(* No accepted input is lost or duplicated.                                *)

\* An id still reserved was not reported as queued.  Commit needs it: the id
\* it queues must be a new one.
ReservedNotAccepted == accepted \cap DOMAIN inflight = {}
ConservedInv == InputsConserved /\ ReservedNotAccepted

\* One step moves an id from reserved to queued, or from queued to applied, and
\* never loses or repeats one.
LEMMA ConservedStep == TypeOK /\ ConservedInv /\ [Next]_controlVars => ConservedInv'
<1> SUFFICES ASSUME TypeOK, ConservedInv, [Next]_controlVars
             PROVE  ConservedInv'
  OBVIOUS
<1> USE DEF ConservedInv, InputsConserved, ReservedNotAccepted
<1>1. PendingIds = IdsOf(pending) /\ AppliedIds = IdsOf(applied)
      /\ PendingIds' = IdsOf(pending') /\ AppliedIds' = IdsOf(applied')
  BY DEF PendingIds, AppliedIds, IdsOf
<1>2. CASE Quiet
  BY <1>1, <1>2 DEF Quiet, queueVars
<1>3. ASSUME NEW kind \in {"Steer", "FollowUp"}, NEW bytes \in Sizes,
             Submit(kind, bytes)
      PROVE  ConservedInv'
  <2> DEFINE entry == [id |-> nextId, kind |-> kind, bytes |-> bytes,
                       custom |-> FALSE, prepared |-> FALSE, reserved |-> FALSE]
  <2>1. entry \in Entry /\ entry.id = nextId
    BY LimitsAssumption DEF TypeOK, Entry, Kinds
  <2>2. /\ pending' = Append(pending, entry) /\ applied' = applied
        /\ accepted' = accepted \cup {nextId}
        /\ DOMAIN inflight' = DOMAIN inflight
    BY <1>3, WakeProperties DEF Submit, TypeOK
  <2>3. nextId \notin accepted /\ nextId \notin DOMAIN inflight
    BY DEF TypeOK
  <2> HIDE DEF entry
  <2>4. /\ PendingIds' = PendingIds \cup {nextId} /\ Distinct(pending)'
    BY <1>1, <2>1, <2>2, <2>3, AppendedIds DEF TypeOK
  <2>5. QED
    BY <1>1, <2>2, <2>3, <2>4
<1>4. ASSUME NEW kind \in Deliveries, NEW custom \in BOOLEAN,
             NEW bytes \in Sizes, Reserve(kind, custom, bytes)
      PROVE  ConservedInv'
  <2>1. UNCHANGED <<pending, accepted, applied>>
    BY <1>4 DEF Reserve, queueVars
  <2>2. DOMAIN inflight' = DOMAIN inflight \cup {nextId}
    BY <1>4, ReservedProperties
  <2>3. nextId \notin accepted
    BY DEF TypeOK
  <2>4. QED
    BY <1>1, <2>1, <2>2, <2>3
<1>5. ASSUME NEW id \in DOMAIN inflight, CheckTurn(id)
      PROVE  ConservedInv'
  <2>1. UNCHANGED <<pending, accepted, applied>>
        /\ DOMAIN inflight' = DOMAIN inflight
    BY <1>5 DEF CheckTurn, queueVars
  <2>2. QED
    BY <1>1, <2>1
<1>6. ASSUME NEW id \in DOMAIN inflight, NEW bytes \in Sizes, Commit(id, bytes)
      PROVE  ConservedInv'
  <2>1. PICK entry \in Entry : pending' = Append(pending, entry) /\ entry.id = id
    BY <1>6, CommittedEntry
  <2>2. /\ applied' = applied /\ accepted' = accepted \cup {id}
        /\ DOMAIN inflight' = DOMAIN inflight \ {id}
    BY <1>6, ReleasedProperties DEF Commit
  <2>3. id \notin accepted
    OBVIOUS
  <2>4. PendingIds' = PendingIds \cup {id} /\ Distinct(pending)'
    BY <1>1, <2>1, <2>3, AppendedIds DEF TypeOK
  <2>5. QED
    BY <1>1, <2>2, <2>3, <2>4
<1>7. ASSUME NEW id \in DOMAIN inflight, GiveUp(id)
      PROVE  ConservedInv'
  BY <1>1, <1>7, ReleasedProperties DEF GiveUp, queueVars
<1>8. ASSUME NEW id \in PendingIds, Apply(id)
      PROVE  ConservedInv'
  <2>1. PICK i \in DOMAIN pending :
          /\ pending[i].id = id
          /\ pending' = RemoveAt(pending, i)
          /\ applied' = Append(applied, pending[i])
    BY <1>8 DEF Apply
  <2>2. accepted' = accepted /\ DOMAIN inflight' = DOMAIN inflight
    BY <1>8, WakeProperties DEF Apply, TypeOK
  <2>3. pending[i] \in Entry
    BY ElementOfSeq DEF TypeOK
  <2>4. PendingIds' = PendingIds \ {id} /\ Distinct(pending)'
    BY <1>1, <2>1, RemovedIds DEF TypeOK
  <2>5. AppliedIds' = AppliedIds \cup {id} /\ Distinct(applied)'
    BY <1>1, <2>1, <2>3, AppendedIds DEF TypeOK
  <2>6. QED
    BY <2>2, <2>4, <2>5
<1>9. QED
  BY QueueSteps, <1>2, <1>3, <1>4, <1>5, <1>6, <1>7, <1>8

\* Whatever the interleaving of submitters, owner, cancellation and drop, each
\* input reported as queued is pending or applied, once, and never both.
THEOREM InputsConservedHolds == Spec => []InputsConserved
<1>1. Init => ConservedInv
  BY DEF Init, ConservedInv, InputsConserved, ReservedNotAccepted, PendingIds,
         AppliedIds, Distinct
<1>2. ConservedInv => InputsConserved
  BY DEF ConservedInv
<1>3. QED
  BY <1>1, <1>2, ConservedStep, TypeCorrect, PTL DEF Spec

-----------------------------------------------------------------------------
(* Reserved submissions enter the queue in reservation order.              *)

\* The order of the reserved entries of a queue, and against the reservations.
LEMMA OrderStep ==
  TypeOK /\ SerialPreparation /\ InputsConserved /\ ReservationOrder
      /\ [Next]_controlVars
    => ReservationOrder'
<1> SUFFICES ASSUME TypeOK, SerialPreparation, InputsConserved,
                    ReservationOrder, [Next]_controlVars
             PROVE  ReservationOrder'
  OBVIOUS
<1> USE DEF ReservationOrder
<1>1. CASE Quiet
  BY <1>1 DEF Quiet, queueVars
<1>2. ASSUME NEW kind \in {"Steer", "FollowUp"}, NEW bytes \in Sizes,
             Submit(kind, bytes)
      PROVE  ReservationOrder'
  <2> DEFINE entry == [id |-> nextId, kind |-> kind, bytes |-> bytes,
                       custom |-> FALSE, prepared |-> FALSE, reserved |-> FALSE]
  <2>1. entry \in Entry /\ entry.reserved = FALSE
    BY LimitsAssumption DEF TypeOK, Entry, Kinds
  <2>2. pending' = Append(pending, entry) /\ DOMAIN inflight' = DOMAIN inflight
    BY <1>2, WakeProperties DEF Submit, TypeOK
  <2> HIDE DEF entry
  <2>3. QED
    BY <2>1, <2>2, AppendedEntries DEF TypeOK
<1>3. ASSUME NEW kind \in Deliveries, NEW custom \in BOOLEAN,
             NEW bytes \in Sizes, Reserve(kind, custom, bytes)
      PROVE  ReservationOrder'
  <2>1. pending' = pending /\ DOMAIN inflight' = DOMAIN inflight \cup {nextId}
    BY <1>3, ReservedProperties DEF Reserve, queueVars
  <2>2. \A i \in DOMAIN pending : pending[i].id < nextId
    <3>1. \A i \in DOMAIN pending : pending[i].id \in accepted
      BY DEF InputsConserved, PendingIds
    <3>2. QED
      BY <3>1 DEF TypeOK
  <2>3. QED
    BY <2>1, <2>2
<1>4. ASSUME NEW id \in DOMAIN inflight, CheckTurn(id)
      PROVE  ReservationOrder'
  <2>1. pending' = pending /\ DOMAIN inflight' = DOMAIN inflight
    BY <1>4 DEF CheckTurn, queueVars
  <2>2. QED
    BY <2>1
<1>5. ASSUME NEW id \in DOMAIN inflight, NEW bytes \in Sizes, Commit(id, bytes)
      PROVE  ReservationOrder'
  <2>1. PICK entry \in Entry : pending' = Append(pending, entry) /\ entry.id = id
    BY <1>5, CommittedEntry
  <2>2. DOMAIN inflight' = DOMAIN inflight \ {id}
    BY <1>5, ReleasedProperties DEF Commit
  <2>3. \A other \in DOMAIN inflight \ {id} : id < other
    BY <1>5 DEF Commit, SerialPreparation, TypeOK
  <2>4. QED
    BY <2>1, <2>2, <2>3, AppendedEntries, SMTT(40) DEF TypeOK
<1>6. ASSUME NEW id \in DOMAIN inflight, GiveUp(id)
      PROVE  ReservationOrder'
  BY <1>6, ReleasedProperties DEF GiveUp, queueVars
<1>7. ASSUME NEW id \in PendingIds, Apply(id)
      PROVE  ReservationOrder'
  <2>1. PICK i \in DOMAIN pending : pending' = RemoveAt(pending, i)
    BY <1>7 DEF Apply
  <2>2. DOMAIN inflight' = DOMAIN inflight
    BY <1>7, WakeProperties DEF Apply, TypeOK
  <2>3. /\ \A j \in DOMAIN pending' :
             /\ Origin(i, j) \in DOMAIN pending
             /\ pending'[j] = pending[Origin(i, j)]
        /\ \A j, k \in DOMAIN pending' : j < k => Origin(i, j) < Origin(i, k)
    BY <2>1, RemovedEntries DEF TypeOK
  <2>4. QED
    BY <2>2, <2>3
<1>8. QED
  BY QueueSteps, <1>1, <1>2, <1>3, <1>4, <1>5, <1>6, <1>7

\* Reserved submissions join the queue in the order begin_input gave them.
THEOREM ReservationOrderHolds == Spec => []ReservationOrder
<1>1. Init => ReservationOrder
  BY DEF Init, ReservationOrder
<1>2. QED
  BY <1>1, OrderStep, SerialPreparationHolds, InputsConservedHolds, TypeCorrect,
     PTL DEF Spec

-----------------------------------------------------------------------------
(* The approval slot.                                                      *)

\* The slot, its waiters and the answers stay, and a running run keeps running.
SlotUntouched == UNCHANGED approvalVars /\ (status = "Running" => status' = "Running")

\* The slot is emptied with no answer.
SlotRevoked ==
  /\ approval' = NoId /\ waiters' \subseteq waiters
  /\ UNCHANGED <<allowed, refused>>

\* Every step is one of five kinds as far as the approval slot is concerned.
LEMMA ApprovalSteps ==
  ASSUME [Next]_controlVars
  PROVE  \/ SlotUntouched
         \/ SlotRevoked
         \/ \E id \in 1..nextId, allow \in BOOLEAN : Respond(id, allow)
         \/ Approve
         \/ \E id \in waiters : EndApproval(id)
<1>1. ASSUME Submissions PROVE SlotUntouched
  BY <1>1 DEF Submissions, Submit, Reserve, SlotUntouched
<1>2. ASSUME Futures PROVE SlotUntouched
  BY <1>2 DEF Futures, Poll, Arm, CheckTurn, Commit, DeliverNextTurn, Resolve,
              Expire, Release, SlotUntouched
<1>3. ASSUME \/ CancelParent \/ BindPipeline(ExecutorPipeline) \/ Start
             \/ \E capable \in BOOLEAN : ConfigureCustom(capable)
             \/ \E id \in PendingIds : Apply(id)
             \/ UNCHANGED controlVars
      PROVE  SlotUntouched
  BY <1>3 DEF CancelParent, BindPipeline, Start, ConfigureCustom, Apply,
              controlVars, SlotUntouched
<1>4. ASSUME Cancel \/ Close(TRUE) \/ Seal \/ Finish \/ DropControl
      PROVE  SlotRevoked
  BY <1>4 DEF Cancel, Close, Seal, Finish, SetClosed, DropControl, SlotRevoked
<1>5. QED
  BY <1>1, <1>2, <1>3, <1>4 DEF Next, Host, Owner

\* One step adds at most the counter's next value to the input ids.
LEMMA InputIdsStep ==
  ASSUME TypeOK, [Next]_controlVars
  PROVE  accepted' \cup DOMAIN inflight'
           \subseteq accepted \cup DOMAIN inflight \cup {nextId}
<1>1. CASE Quiet
  BY <1>1 DEF Quiet, queueVars
<1>2. ASSUME NEW kind \in {"Steer", "FollowUp"}, NEW bytes \in Sizes,
             Submit(kind, bytes)
      PROVE  /\ accepted' = accepted \cup {nextId}
             /\ DOMAIN inflight' = DOMAIN inflight
  BY <1>2, WakeProperties DEF Submit, TypeOK
<1>3. ASSUME NEW kind \in Deliveries, NEW custom \in BOOLEAN,
             NEW bytes \in Sizes, Reserve(kind, custom, bytes)
      PROVE  /\ accepted' = accepted
             /\ DOMAIN inflight' = DOMAIN inflight \cup {nextId}
  BY <1>3, ReservedProperties DEF Reserve, queueVars
<1>4. ASSUME NEW id \in DOMAIN inflight, CheckTurn(id)
      PROVE  accepted' = accepted /\ DOMAIN inflight' = DOMAIN inflight
  BY <1>4 DEF CheckTurn, queueVars
<1>5. ASSUME NEW id \in DOMAIN inflight, NEW bytes \in Sizes, Commit(id, bytes)
      PROVE  /\ accepted' = accepted \cup {id}
             /\ DOMAIN inflight' = DOMAIN inflight \ {id}
  BY <1>5, ReleasedProperties DEF Commit
<1>6. ASSUME NEW id \in DOMAIN inflight, GiveUp(id)
      PROVE  accepted' = accepted /\ DOMAIN inflight' = DOMAIN inflight \ {id}
  BY <1>6, ReleasedProperties DEF GiveUp, queueVars
<1>7. ASSUME NEW id \in PendingIds, Apply(id)
      PROVE  accepted' = accepted /\ DOMAIN inflight' = DOMAIN inflight
  BY <1>7, WakeProperties DEF Apply, TypeOK
<1>8. QED
  BY QueueSteps, <1>1, <1>2, <1>3, <1>4, <1>5, <1>6, <1>7

\* One step fills the slot only with a fresh id, and empties it before its
\* request is answered twice.
LEMMA SlotStep == TypeOK /\ SlotGuarded /\ [Next]_controlVars => SlotGuarded'
<1> SUFFICES ASSUME TypeOK, SlotGuarded, [Next]_controlVars
             PROVE  SlotGuarded'
  OBVIOUS
<1> USE DEF SlotGuarded
<1> DEFINE requests == waiters \cup allowed \cup refused
           inputs == accepted \cup DOMAIN inflight
<1>1. nextId \notin requests /\ nextId \notin inputs
  BY DEF TypeOK
<1>2. ASSUME requests' \subseteq requests PROVE requests' \cap inputs' = {}
  BY <1>1, <1>2, InputIdsStep
<1>3. CASE SlotUntouched
  BY <1>2, <1>3 DEF SlotUntouched, approvalVars
<1>4. CASE SlotRevoked
  BY <1>2, <1>4 DEF SlotRevoked
<1>5. ASSUME NEW id \in 1..nextId, NEW allow \in BOOLEAN, Respond(id, allow)
      PROVE  SlotGuarded'
  <2>1. /\ approval' = NoId /\ waiters' = waiters /\ id = approval /\ id # NoId
        /\ \/ allowed' = allowed \cup {id} /\ refused' = refused
           \/ allowed' = allowed /\ refused' = refused \cup {id}
    BY <1>5 DEF Respond, NoId
  <2>2. requests' \subseteq requests
    BY <2>1
  <2>3. QED
    BY <1>2, <2>1, <2>2
<1>6. CASE Approve
  <2>1. /\ status' = "Running" /\ approval' = nextId
        /\ waiters' = waiters \cup {nextId}
        /\ UNCHANGED <<allowed, refused>>
        /\ inputs' = inputs
    BY <1>6, NotifiedType DEF Approve, Notified, queueVars
  <2>2. QED
    BY <1>1, <2>1
<1>7. ASSUME NEW id \in waiters, EndApproval(id)
      PROVE  SlotGuarded'
  <2>1. /\ status' = status /\ waiters' = waiters \ {id}
        /\ approval' = NoId \/ (approval' = approval /\ approval # id)
        /\ UNCHANGED <<allowed, refused>>
    BY <1>7 DEF EndApproval
  <2>2. requests' \subseteq requests
    BY <2>1
  <2>3. QED
    BY <1>2, <2>1, <2>2
<1>8. QED
  BY ApprovalSteps, <1>3, <1>4, <1>5, <1>6, <1>7

\* A request in the approval slot is live and unanswered, the run is running,
\* and no answer can be taken for an input or for another request.
THEOREM SlotGuardedHolds == Spec => []SlotGuarded
<1>1. Init => SlotGuarded
  BY DEF Init, SlotGuarded
<1>2. QED
  BY <1>1, SlotStep, TypeCorrect, PTL DEF Spec

-----------------------------------------------------------------------------
(* Closing a run is final.                                                 *)

\* No operation of either side undoes the closing of a run.
LEMMA ClosedStep ==
  TypeOK /\ SlotGuarded /\ [Next]_controlVars => StaysClosed
<1> SUFFICES ASSUME TypeOK, SlotGuarded, [Next]_controlVars, ~Open
             PROVE  /\ ~Open' /\ accepted' = accepted /\ nextId' = nextId
                    /\ DOMAIN inflight' \subseteq DOMAIN inflight
                    /\ allowed' = allowed /\ approval' = NoId
  BY DEF StaysClosed
<1>1. approval = NoId /\ status \notin {"Waiting", "Running"}
  BY DEF SlotGuarded, Open
<1>2. ~Submissions /\ ~Cancel /\ ~Approve
  BY <1>1 DEF Submissions, Submit, Reserve, Cancel, Approve, Open
<1>3. \A id \in 1..nextId, allow \in BOOLEAN : ~Respond(id, allow)
  BY <1>1 DEF Respond
<1>4. ASSUME Futures
      PROVE  /\ UNCHANGED <<status, accepted, nextId, allowed, approval>>
             /\ DOMAIN inflight' \subseteq DOMAIN inflight
  <2>1. PICK id \in DOMAIN inflight : Poll(id) \/ Expire(id)
    BY <1>4 DEF Futures
  <2>2. Arm(id) \/ Release(id)
    BY <2>1 DEF Poll, CheckTurn, Commit, DeliverNextTurn, Resolve, Expire
  <2>3. CASE Arm(id)
    BY <2>3 DEF Arm, queueVars, approvalVars
  <2>4. CASE Release(id)
    BY <2>4, ReleasedProperties DEF Release, queueVars, approvalVars
  <2>5. QED
    BY <2>2, <2>3, <2>4
<1>5. ASSUME CancelParent \/ Owner \/ UNCHANGED controlVars
      PROVE  /\ UNCHANGED <<accepted, nextId, allowed>>
             /\ DOMAIN inflight' = DOMAIN inflight
  <2>1. Notified /\ UNCHANGED <<accepted, nextId, allowed>>
    BY <1>2, <1>5
    DEF CancelParent, Owner, BindPipeline, Start, ConfigureCustom, Close, Apply,
        Seal, Finish, SetClosed, EndApproval, DropControl, controlVars,
        queueVars, approvalVars, Notified
  <2>2. QED
    BY <2>1, NotifiedType
<1>6. ASSUME CancelParent \/ Owner \/ UNCHANGED controlVars
      PROVE  approval' = NoId /\ status' \notin {"Waiting", "Running"}
  BY <1>1, <1>2, <1>6
  DEF CancelParent, Owner, BindPipeline, Start, ConfigureCustom, Close, Apply,
      Seal, Finish, SetClosed, EndApproval, DropControl, controlVars,
      approvalVars
<1>7. Futures \/ CancelParent \/ Owner \/ UNCHANGED controlVars
  BY <1>2, <1>3 DEF Next, Host
<1>8. QED
  BY <1>1, <1>4, <1>5, <1>6, <1>7 DEF Open

\* A closed run is never reopened and takes nothing more, in any order of the
\* owner's and the handles' calls.
THEOREM ClosedIsFinalHolds == Spec => ClosedIsFinal
<1>1. TypeOK /\ SlotGuarded /\ [Next]_controlVars => [StaysClosed]_controlVars
  BY ClosedStep
<1>2. QED
  BY <1>1, TypeCorrect, SlotGuardedHolds, PTL DEF Spec, ClosedIsFinal

-----------------------------------------------------------------------------
(* The queue limit.                                                        *)

\* The reservations are finitely many, so their cardinality is a number.
LEMMA ReservationsFinite ==
  ASSUME TypeOK
  PROVE  IsFiniteSet(DOMAIN inflight) /\ Cardinality(DOMAIN inflight) \in Nat
<1>1. nextId - 1 \in Int
  BY DEF TypeOK
<1>2. IsFiniteSet(1..(nextId - 1))
  BY <1>1, FS_Interval
<1>3. QED
  BY <1>2, FS_Subset, FS_CardinalityType DEF TypeOK

\* One step admits an input only when queue and reservations leave room.
LEMMA CountStep == TypeOK /\ CountBounded /\ [Next]_controlVars => CountBounded'
<1> SUFFICES ASSUME TypeOK, CountBounded, [Next]_controlVars
             PROVE  CountBounded'
  OBVIOUS
<1> DEFINE held == DOMAIN inflight
           queued == Len(pending)
<1>1. IsFiniteSet(held) /\ Cardinality(held) \in Nat
  BY ReservationsFinite
<1>2. pending \in Seq(Entry) /\ queued \in Nat /\ MaxPendingInputs \in Nat
  BY LimitsAssumption, LenProperties DEF TypeOK
<1>3. queued + Cardinality(held) <= MaxPendingInputs
  BY DEF CountBounded
<1>4. CASE Quiet
  BY <1>3, <1>4 DEF Quiet, queueVars, CountBounded
<1>5. ASSUME NEW kind \in {"Steer", "FollowUp"}, NEW bytes \in Sizes,
             Submit(kind, bytes)
      PROVE  CountBounded'
  <2>1. PICK entry \in Entry : pending' = Append(pending, entry)
    <3>1. [id |-> nextId, kind |-> kind, bytes |-> bytes, custom |-> FALSE,
           prepared |-> FALSE, reserved |-> FALSE] \in Entry
      BY LimitsAssumption DEF TypeOK, Entry, Kinds
    <3>2. QED
      BY <1>5, <3>1 DEF Submit
  <2>2. Len(pending') = queued + 1
    BY <1>2, <2>1, AppendProperties
  <2>3. held' = held /\ queued + Cardinality(held) < MaxPendingInputs
    BY <1>5, WakeProperties DEF Submit, Room, TypeOK
  <2>4. QED
    BY <1>1, <1>2, <2>2, <2>3 DEF CountBounded
<1>6. ASSUME NEW kind \in Deliveries, NEW custom \in BOOLEAN,
             NEW bytes \in Sizes, Reserve(kind, custom, bytes)
      PROVE  CountBounded'
  <2>1. held' = held \cup {nextId} /\ pending' = pending
        /\ queued + Cardinality(held) < MaxPendingInputs
    BY <1>6, ReservedProperties DEF Reserve, Room, queueVars
  <2>2. Cardinality(held') = Cardinality(held) + 1
    <3>1. nextId \notin held
      BY DEF TypeOK
    <3>2. QED
      BY <1>1, <2>1, <3>1, FS_AddElement
  <2>3. QED
    BY <1>1, <1>2, <2>1, <2>2 DEF CountBounded
<1>7. ASSUME NEW id \in DOMAIN inflight, CheckTurn(id)
      PROVE  CountBounded'
  BY <1>3, <1>7 DEF CheckTurn, queueVars, CountBounded
<1>8. ASSUME NEW id \in DOMAIN inflight, inflight' = Wake(Without(inflight, id))
      PROVE  Cardinality(held') = Cardinality(held) - 1
  <2>1. held' = held \ {id}
    BY <1>8, ReleasedProperties
  <2>2. QED
    BY <1>1, <2>1, FS_RemoveElement
<1>9. ASSUME NEW id \in DOMAIN inflight, NEW bytes \in Sizes, Commit(id, bytes)
      PROVE  CountBounded'
  <2>1. PICK entry \in Entry : pending' = Append(pending, entry)
    BY <1>9, CommittedEntry
  <2>2. Len(pending') = queued + 1
    BY <1>2, <2>1, AppendProperties
  <2>3. Cardinality(held') = Cardinality(held) - 1
    BY <1>8, <1>9 DEF Commit
  <2>4. QED
    BY <1>1, <1>2, <1>3, <2>2, <2>3 DEF CountBounded
<1>10. ASSUME NEW id \in DOMAIN inflight, GiveUp(id)
       PROVE  CountBounded'
  <2>1. pending' = pending /\ Cardinality(held') = Cardinality(held) - 1
    BY <1>8, <1>10 DEF GiveUp, queueVars
  <2>2. QED
    BY <1>1, <1>2, <1>3, <2>1 DEF CountBounded
<1>11. ASSUME NEW id \in PendingIds, Apply(id)
       PROVE  CountBounded'
  <2>1. PICK i \in DOMAIN pending : pending' = RemoveAt(pending, i)
    BY <1>11 DEF Apply
  <2>2. Len(pending') = queued - 1
    BY <1>2, <2>1, RemoveAtProperties, LenProperties
  <2>3. held' = held
    BY <1>11, WakeProperties DEF Apply, TypeOK
  <2>4. QED
    BY <1>1, <1>2, <1>3, <2>2, <2>3 DEF CountBounded
<1>12. QED
  BY QueueSteps, <1>4, <1>5, <1>6, <1>7, <1>9, <1>10, <1>11

\* Inputs queued and inputs still being prepared never exceed the limit.
THEOREM CountBoundedHolds == Spec => []CountBounded
<1>1. Init => CountBounded
  <2> SUFFICES ASSUME Init PROVE CountBounded
    OBVIOUS
  <2>1. Len(pending) = 0 /\ DOMAIN inflight = {}
    BY EmptySeq DEF Init, queueVars
  <2>2. QED
    BY <2>1, FS_EmptySet, LimitsAssumption DEF CountBounded
<1>2. QED
  BY <1>1, CountStep, TypeCorrect, PTL DEF Spec

-----------------------------------------------------------------------------
(* The byte counters.                                                      *)

\* The bytes held by a queue of entries, or by a set of reservations.
BytesOf(f) == [i \in DOMAIN f |-> f[i].bytes]
Held(f) == Sum(BytesOf(f), DOMAIN f)

\* What has a finite domain and a number of bytes at each place.
Weighed(f) == IsFiniteSet(DOMAIN f) /\ \A i \in DOMAIN f : f[i].bytes \in Nat

\* The counters are those sums, and within the limit.
BytesInv ==
  /\ pendingBytes = Held(pending) /\ inflightBytes = Held(inflight)
  /\ pendingBytes + inflightBytes <= MaxPendingBytes

\* Truncated subtraction.
LEMMA MonusProperties ==
  ASSUME NEW a \in Nat, NEW b \in Nat
  PROVE  Monus(a + b, b) = a /\ Monus(a, b) \in Nat /\ (Monus(a, b) > 0 => Monus(a, b) = a - b)
BY DEF Monus

\* What is left when b of a are given back.
LEMMA GivenBack ==
  ASSUME NEW a \in Nat, NEW b \in Nat, NEW rest \in Nat, a = rest + b,
         NEW other \in Nat, NEW limit \in Nat, a + other <= limit
  PROVE  a - b = rest /\ rest + other <= limit
OBVIOUS

\* A queue is finite and each of its entries has a number of bytes.
LEMMA QueueWeighed == ASSUME NEW entries \in Seq(Entry) PROVE Weighed(entries)
<1>1. DOMAIN entries = 1..Len(entries) /\ Len(entries) \in Nat
  BY LenProperties
<1>2. IsFiniteSet(DOMAIN entries)
  BY <1>1, FS_Interval
<1>3. \A i \in DOMAIN entries : entries[i] \in Entry
  BY <1>1, ElementOfSeq
<1> QED BY <1>2, <1>3 DEF Weighed, Entry

\* So are the reservations.
LEMMA ReservationsWeighed == ASSUME TypeOK PROVE Weighed(inflight)
BY ReservationsFinite DEF TypeOK, Weighed, Reservation

\* The bytes held are a number.
LEMMA HeldType == ASSUME NEW f, Weighed(f) PROVE Held(f) \in Nat
BY UnitsFinite DEF Weighed, Held, BytesOf

\* The folds of BytesConserved are those sums.
LEMMA FoldsAreHeld ==
  ASSUME TypeOK
  PROVE  BytesConserved <=> BytesInv
<1>1. ASSUME NEW f, Weighed(f)
      PROVE  /\ \E g : Folds(g, BytesOf(f), DOMAIN f)
             /\ \A g : Folds(g, BytesOf(f), DOMAIN f) => g[DOMAIN f] = Held(f)
  <2>1. IsFiniteSet(DOMAIN f) /\ \A i \in DOMAIN f : BytesOf(f)[i] \in Nat
    BY <1>1 DEF Weighed, BytesOf
  <2> QED BY <2>1, FoldExists, FoldIsSum DEF Held
<1>2. FoldSeq(LAMBDA entry, sum : entry.bytes + sum, 0, pending) = Held(pending)
  <2> DEFINE P(g) == g = [s \in SUBSET DOMAIN pending |-> IF s = {} THEN 0
                            ELSE pending[Pick(s)].bytes + g[s \ {Pick(s)}]]
  <2>1. FoldSeq(LAMBDA entry, sum : entry.bytes + sum, 0, pending)
          = (CHOOSE g : P(g))[DOMAIN pending]
    BY Zenon DEF FoldSeq, FoldFunction, FoldFunctionOnSet, MapThenFoldSet, Pick
  <2>2. \A s \in SUBSET DOMAIN pending : s # {} =>
          BytesOf(pending)[Pick(s)] = pending[Pick(s)].bytes
    BY DEF Pick, BytesOf
  <2>3. \A g : P(g) <=> Folds(g, BytesOf(pending), DOMAIN pending)
    BY <2>2 DEF Folds
  <2>4. Weighed(pending)
    BY QueueWeighed DEF TypeOK
  <2>5. \E g : P(g)
    BY <1>1, <2>3, <2>4
  <2> HIDE DEF P
  <2>6. P(CHOOSE g : P(g))
    BY <2>5
  <2>7. PICK g : g = (CHOOSE h : P(h)) /\ P(g)
    BY <2>6
  <2>8. g[DOMAIN pending] = Held(pending)
    BY <1>1, <2>3, <2>4, <2>7
  <2> QED BY <2>1, <2>7, <2>8, Zenon
<1>3. FoldSet(LAMBDA id, sum : inflight[id].bytes + sum, 0, DOMAIN inflight)
        = Held(inflight)
  <2> DEFINE P(g) == g = [s \in SUBSET DOMAIN inflight |-> IF s = {} THEN 0
                            ELSE inflight[Pick(s)].bytes + g[s \ {Pick(s)}]]
  <2>1. FoldSet(LAMBDA id, sum : inflight[id].bytes + sum, 0, DOMAIN inflight)
          = (CHOOSE g : P(g))[DOMAIN inflight]
    BY Zenon DEF FoldSet, MapThenFoldSet, Pick
  <2>2. \A s \in SUBSET DOMAIN inflight : s # {} =>
          BytesOf(inflight)[Pick(s)] = inflight[Pick(s)].bytes
    BY DEF Pick, BytesOf
  <2>3. \A g : P(g) <=> Folds(g, BytesOf(inflight), DOMAIN inflight)
    BY <2>2 DEF Folds
  <2>4. Weighed(inflight)
    BY ReservationsWeighed
  <2>5. \E g : P(g)
    BY <1>1, <2>3, <2>4
  <2> HIDE DEF P
  <2>6. P(CHOOSE g : P(g))
    BY <2>5
  <2>7. PICK g : g = (CHOOSE h : P(h)) /\ P(g)
    BY <2>6
  <2>8. g[DOMAIN inflight] = Held(inflight)
    BY <1>1, <2>3, <2>4, <2>7
  <2> QED BY <2>1, <2>7, <2>8, Zenon
<1> QED BY <1>2, <1>3, Zenon DEF BytesConserved, BytesInv

\* An entry that joins the queue brings its bytes.
LEMMA HeldAppended ==
  ASSUME NEW entries \in Seq(Entry), NEW entry \in Entry
  PROVE  Held(Append(entries, entry)) = Held(entries) + entry.bytes
<1> DEFINE longer == Append(entries, entry)
           last == Len(entries) + 1
<1>1. /\ DOMAIN longer = 1..last /\ DOMAIN entries = 1..Len(entries)
      /\ Len(entries) \in Nat /\ longer[last] = entry
      /\ \A i \in DOMAIN entries : longer[i] = entries[i]
  BY AppendedEntries
<1>2. longer \in Seq(Entry)
  BY AppendProperties
<1> HIDE DEF longer
<1>3. last \in DOMAIN longer /\ DOMAIN longer \ {last} = DOMAIN entries
  BY <1>1
<1> HIDE DEF last
<1>4. Weighed(longer)
  BY <1>2, QueueWeighed
<1>5. Held(longer) = Sum(BytesOf(longer), DOMAIN entries) + BytesOf(longer)[last]
  <2>1. IsFiniteSet(DOMAIN longer) /\ \A i \in DOMAIN longer : BytesOf(longer)[i] \in Nat
    BY <1>4 DEF Weighed, BytesOf
  <2> QED BY <1>3, <2>1, SumAdd DEF Held
<1>6. Sum(BytesOf(longer), DOMAIN entries) = Held(entries)
  <2>1. \A i \in DOMAIN entries : BytesOf(longer)[i] = BytesOf(entries)[i]
    BY <1>1, <1>3 DEF BytesOf
  <2> QED BY <2>1, SumSame DEF Held
<1>7. BytesOf(longer)[last] = entry.bytes
  BY <1>1, <1>3 DEF BytesOf
<1> QED BY <1>5, <1>6, <1>7 DEF longer

\* An entry that leaves the queue takes its bytes, and only those.
LEMMA HeldRemoved ==
  ASSUME NEW entries \in Seq(Entry), NEW i \in DOMAIN entries
  PROVE  Held(entries) = Held(RemoveAt(entries, i)) + entries[i].bytes
<1> DEFINE fewer == RemoveAt(entries, i)
           origin == [j \in DOMAIN fewer |-> Origin(i, j)]
<1>1. /\ \A j \in DOMAIN fewer : /\ Origin(i, j) \in DOMAIN entries \ {i}
                                 /\ fewer[j] = entries[Origin(i, j)]
      /\ \A j, k \in DOMAIN fewer : Origin(i, j) = Origin(i, k) => j = k
      /\ \A k \in DOMAIN entries \ {i} : \E j \in DOMAIN fewer : Origin(i, j) = k
  BY RemovedEntries
<1>2. fewer \in Seq(Entry)
  BY LenProperties, RemoveAtProperties
<1> HIDE DEF fewer
<1>3. origin \in Bijection(DOMAIN fewer, DOMAIN entries \ {i})
  BY <1>1 DEF Bijection, Injection, Surjection, IsInjective
<1>4. \A j \in DOMAIN fewer : /\ BytesOf(fewer)[j] \in Nat
                              /\ BytesOf(fewer)[j] = BytesOf(entries)[origin[j]]
  BY <1>1, <1>2, QueueWeighed DEF Weighed, BytesOf
<1>5. IsFiniteSet(DOMAIN fewer)
  BY <1>2, QueueWeighed DEF Weighed
<1> HIDE DEF origin
<1>6. Held(fewer) = Sum(BytesOf(entries), DOMAIN entries \ {i})
  BY <1>3, <1>4, <1>5, SumReindexed DEF Held
<1>7. IsFiniteSet(DOMAIN entries) /\ \A j \in DOMAIN entries : BytesOf(entries)[j] \in Nat
  BY QueueWeighed DEF Weighed, BytesOf
<1>8. Held(entries) = Sum(BytesOf(entries), DOMAIN entries \ {i}) + BytesOf(entries)[i]
  BY <1>7, SumAdd DEF Held
<1> QED BY <1>6, <1>8 DEF fewer, BytesOf

\* Reservations of the same sizes hold the same bytes.
LEMMA HeldSame ==
  ASSUME NEW f, NEW g, DOMAIN g = DOMAIN f,
         \A id \in DOMAIN f : g[id].bytes = f[id].bytes
  PROVE  Held(g) = Held(f)
BY SumSame DEF Held, BytesOf

\* A notification resizes nothing.
LEMMA HeldWoken ==
  ASSUME NEW f, f \in [DOMAIN f -> Reservation]
  PROVE  Held(Wake(f)) = Held(f)
<1>1. ASSUME NEW id \in DOMAIN f PROVE Wake(f)[id].bytes = f[id].bytes
  <2>1. f[id] \in Reservation
    OBVIOUS
  <2> QED BY <2>1 DEF Wake, Reservation
<1>2. DOMAIN Wake(f) = DOMAIN f
  BY DEF Wake
<1> QED BY <1>1, <1>2, HeldSame

\* A ticket that leaves gives back exactly what it held.
LEMMA HeldReleased ==
  ASSUME TypeOK, NEW id \in DOMAIN inflight,
         inflight' = Wake(Without(inflight, id))
  PROVE  /\ Held(inflight) = Held(inflight') + inflight[id].bytes
         /\ Held(inflight') \in Nat /\ inflight[id].bytes \in Nat
<1> DEFINE rest == Without(inflight, id)
<1>1. /\ DOMAIN rest = DOMAIN inflight \ {id}
      /\ rest \in [DOMAIN inflight \ {id} -> Reservation]
      /\ \A other \in DOMAIN inflight \ {id} : rest[other] = inflight[other]
  BY WithoutProperties DEF TypeOK
<1>2. inflight' = Wake(rest)
  OBVIOUS
<1> HIDE DEF rest
<1>3. Held(inflight') = Held(rest)
  BY <1>1, <1>2, HeldWoken
<1>4. /\ IsFiniteSet(DOMAIN inflight)
      /\ \A other \in DOMAIN inflight : BytesOf(inflight)[other] \in Nat
  BY ReservationsWeighed DEF Weighed, BytesOf
<1>5. Held(inflight) = Sum(BytesOf(inflight), DOMAIN rest) + inflight[id].bytes
  <2>1. Held(inflight) = Sum(BytesOf(inflight), DOMAIN rest) + BytesOf(inflight)[id]
    BY <1>1, <1>4, SumAdd DEF Held
  <2> QED BY <2>1 DEF BytesOf
<1>6. Sum(BytesOf(inflight), DOMAIN rest) = Held(rest)
  <2>1. \A other \in DOMAIN rest : BytesOf(inflight)[other] = BytesOf(rest)[other]
    BY <1>1 DEF BytesOf
  <2> QED BY <2>1, SumSame DEF Held
<1>7. Held(rest) \in Nat
  <2>1. IsFiniteSet(DOMAIN rest)
    BY <1>1, <1>4, FS_RemoveElement
  <2>2. Weighed(rest)
    BY <1>1, <2>1 DEF Weighed, Reservation
  <2> QED BY <2>2, HeldType
<1>8. inflight[id].bytes \in Nat
  BY ReservationsWeighed DEF Weighed
<1> QED BY <1>3, <1>5, <1>6, <1>7, <1>8

\* A new ticket holds what it asked for.
LEMMA HeldReserved ==
  ASSUME TypeOK, NEW kind \in Deliveries, NEW custom \in BOOLEAN,
         NEW bytes \in Sizes, Reserve(kind, custom, bytes)
  PROVE  Held(inflight') = Held(inflight) + bytes
<1> DEFINE after == inflight'
<1>1. inflight' = [id \in DOMAIN inflight \cup {nextId} |->
                     IF id = nextId
                     THEN [kind |-> kind, bytes |-> bytes, custom |-> custom,
                           prepared |-> ~custom /\ pipeline = "hooks",
                           stage |-> "polling"]
                     ELSE Wake(inflight)[id]]
  BY DEF Reserve
<1>2. nextId \notin DOMAIN inflight /\ inflight \in [DOMAIN inflight -> Reservation]
  BY NextIdType DEF TypeOK, Reserve
<1>3. /\ DOMAIN after = DOMAIN inflight \cup {nextId}
      /\ after[nextId].bytes = bytes
      /\ \A id \in DOMAIN inflight : after[id] = Wake(inflight)[id]
  BY <1>1, <1>2
<1> HIDE DEF after
<1>4. DOMAIN after \ {nextId} = DOMAIN inflight /\ DOMAIN Wake(inflight) = DOMAIN inflight
  BY <1>2, <1>3, WakeProperties
<1>5. Weighed(after)
  <2>1. IsFiniteSet(DOMAIN after)
    BY <1>3, ReservationsFinite, FS_AddElement
  <2>2. \A id \in DOMAIN inflight : after[id].bytes \in Nat
    BY <1>2, <1>3, WakeProperties DEF Reservation
  <2> QED BY <1>3, <2>1, <2>2, LimitsAssumption DEF Weighed
<1>6. Held(after) = Sum(BytesOf(after), DOMAIN inflight) + bytes
  <2>1. \A id \in DOMAIN after : BytesOf(after)[id] \in Nat
    BY <1>5 DEF Weighed, BytesOf
  <2>2. Held(after) = Sum(BytesOf(after), DOMAIN inflight) + BytesOf(after)[nextId]
    BY <1>3, <1>4, <1>5, <2>1, SumAdd DEF Held, Weighed
  <2> QED BY <1>3, <2>2 DEF BytesOf
<1>7. Sum(BytesOf(after), DOMAIN inflight) = Held(inflight)
  <2>1. \A id \in DOMAIN inflight : BytesOf(after)[id] = BytesOf(Wake(inflight))[id]
    BY <1>3, <1>4 DEF BytesOf
  <2>2. Sum(BytesOf(after), DOMAIN inflight) = Held(Wake(inflight))
    BY <1>4, <2>1, SumSame DEF Held
  <2> QED BY <1>2, <2>2, HeldWoken
<1> QED BY <1>6, <1>7 DEF after

\* One step keeps the counters: what joins was checked to fit, and what leaves
\* gives back exactly its own bytes, also when a preparation changed its size.
LEMMA BytesStep == TypeOK /\ BytesInv /\ [Next]_controlVars => BytesInv'
<1> SUFFICES ASSUME TypeOK, BytesInv, [Next]_controlVars PROVE BytesInv'
  OBVIOUS
<1> DEFINE queued == Held(pending)
           held == Held(inflight)
<1>1. /\ pendingBytes = queued /\ inflightBytes = held
      /\ queued + held <= MaxPendingBytes
      /\ queued \in Nat /\ held \in Nat /\ MaxPendingBytes \in Nat
  BY QueueWeighed, ReservationsWeighed, HeldType, LimitsAssumption DEF BytesInv, TypeOK
<1>2. pending \in Seq(Entry) /\ inflight \in [DOMAIN inflight -> Reservation]
      /\ \A bytes \in Sizes : bytes \in Nat
  BY LimitsAssumption DEF TypeOK
<1>3. /\ BytesInv' <=> /\ pendingBytes' = Held(pending')
                       /\ inflightBytes' = Held(inflight')
                       /\ pendingBytes' + inflightBytes' <= MaxPendingBytes
  BY DEF BytesInv
<1> HIDE DEF queued, held
<1>4. ASSUME UNCHANGED <<pending, pendingBytes, inflightBytes>>, Held(inflight') = held
      PROVE  BytesInv'
  BY <1>1, <1>3, <1>4 DEF queued
<1>5. ASSUME UNCHANGED <<pending, pendingBytes, inflightBytes>>, Notified
      PROVE  BytesInv'
  BY <1>2, <1>4, <1>5, HeldWoken DEF Notified, held
<1>6. ASSUME NEW id \in DOMAIN inflight, Arm(id) \/ CheckTurn(id)
      PROVE  BytesInv'
  <2>1. UNCHANGED <<pending, pendingBytes, inflightBytes>>
    BY <1>6 DEF Arm, CheckTurn, queueVars
  <2>2. PICK stage : inflight' = [inflight EXCEPT ![id].stage = stage]
    BY <1>6 DEF Arm, CheckTurn
  <2>3. \A other \in DOMAIN inflight : inflight[other] \in Reservation
    BY <1>2
  <2>4. DOMAIN inflight' = DOMAIN inflight
        /\ \A other \in DOMAIN inflight : inflight'[other].bytes = inflight[other].bytes
    BY <2>2, <2>3 DEF Reservation
  <2> QED BY <1>4, <2>1, <2>4, HeldSame DEF held
<1>7. ASSUME NEW id \in DOMAIN inflight, DeliverNextTurn(id)
      PROVE  BytesInv'
  <2> DEFINE told == [inflight EXCEPT ![id].stage = "delivered"]
  <2>1. /\ UNCHANGED <<pending, pendingBytes, inflightBytes>>
        /\ inflight' = Wake(told)
    BY <1>7 DEF DeliverNextTurn, queueVars
  <2>2. \A other \in DOMAIN inflight : inflight[other] \in Reservation
    BY <1>2
  <2>3. /\ DOMAIN told = DOMAIN inflight /\ told \in [DOMAIN told -> Reservation]
        /\ \A other \in DOMAIN inflight : told[other].bytes = inflight[other].bytes
    BY <2>2 DEF Reservation, Stages
  <2> HIDE DEF told
  <2>4. Held(told) = held
    BY <2>3, HeldSame DEF held
  <2> QED BY <1>4, <2>1, <2>3, <2>4, HeldWoken
<1>8. ASSUME NEW id \in DOMAIN inflight, Release(id)
      PROVE  BytesInv'
  <2>1. /\ UNCHANGED <<pending, pendingBytes>>
        /\ inflightBytes' = inflightBytes - inflight[id].bytes
        /\ inflight' = Wake(Without(inflight, id))
    BY <1>8 DEF Release, queueVars
  <2>2. /\ held = Held(inflight') + inflight[id].bytes
        /\ Held(inflight') \in Nat /\ inflight[id].bytes \in Nat
    BY <2>1, HeldReleased DEF held
  <2> QED BY <1>1, <1>3, <2>1, <2>2 DEF queued
<1>9. ASSUME NEW kind \in {"Steer", "FollowUp"}, NEW bytes \in Sizes,
             Submit(kind, bytes)
      PROVE  BytesInv'
  <2> DEFINE entry == [id |-> nextId, kind |-> kind, bytes |-> bytes,
                       custom |-> FALSE, prepared |-> FALSE, reserved |-> FALSE]
  <2>1. entry \in Entry /\ entry.bytes = bytes
    BY LimitsAssumption DEF TypeOK, Entry, Kinds
  <2>2. /\ pending' = Append(pending, entry) /\ pendingBytes' = pendingBytes + bytes
        /\ inflightBytes' = inflightBytes /\ inflight' = Wake(inflight)
        /\ bytes <= Monus(MaxPendingBytes, pendingBytes + inflightBytes)
    BY <1>9 DEF Submit, Room
  <2> HIDE DEF entry
  <2>3. Held(pending') = queued + bytes
    BY <1>2, <2>1, <2>2, HeldAppended DEF queued
  <2>4. Held(inflight') = held
    BY <1>2, <2>2, HeldWoken DEF held
  <2> QED BY <1>1, <1>2, <1>3, <2>2, <2>3, <2>4 DEF Monus
<1>10. ASSUME NEW kind \in Deliveries, NEW custom \in BOOLEAN,
              NEW bytes \in Sizes, Reserve(kind, custom, bytes)
       PROVE  BytesInv'
  <2>1. /\ UNCHANGED <<pending, pendingBytes>>
        /\ inflightBytes' = inflightBytes + bytes
        /\ bytes <= Monus(MaxPendingBytes, pendingBytes + inflightBytes)
    BY <1>10 DEF Reserve, Room, queueVars
  <2>2. Held(inflight') = held + bytes
    BY <1>10, HeldReserved DEF held
  <2> QED BY <1>1, <1>2, <1>3, <2>1, <2>2 DEF Monus, queued
<1>11. ASSUME NEW id \in DOMAIN inflight, NEW bytes \in Sizes, Commit(id, bytes)
       PROVE  BytesInv'
  <2> DEFINE entry == [id |-> id, kind |-> inflight[id].kind, bytes |-> bytes,
                       custom |-> inflight[id].custom,
                       prepared |-> inflight[id].prepared, reserved |-> TRUE]
             others == Monus(pendingBytes + inflightBytes, inflight[id].bytes)
  <2>1. /\ pending' = Append(pending, entry) /\ pendingBytes' = pendingBytes + bytes
        /\ inflightBytes' = inflightBytes - inflight[id].bytes
        /\ inflight' = Wake(Without(inflight, id))
        /\ bytes <= Monus(MaxPendingBytes, others)
    BY <1>11, Zenon DEF Commit
  <2>2. entry \in Entry /\ entry.bytes = bytes
    <3>1. inflight[id] \in Reservation /\ inflight[id].kind # "NextTurn" /\ id \in Nat
      BY <1>11 DEF Commit, TypeOK
    <3> QED BY <1>2, <3>1 DEF Entry, Reservation, Deliveries
  <2>3. /\ held = Held(inflight') + inflight[id].bytes
        /\ Held(inflight') \in Nat /\ inflight[id].bytes \in Nat
    BY <2>1, HeldReleased DEF held
  <2> HIDE DEF entry
  <2>4. Held(pending') = queued + bytes
    BY <1>2, <2>1, <2>2, HeldAppended DEF queued
  <2>5. others = queued + Held(inflight')
    <3>1. /\ pendingBytes + inflightBytes
               = (queued + Held(inflight')) + inflight[id].bytes
          /\ queued + Held(inflight') \in Nat
      BY <1>1, <2>3
    <3> QED BY <2>3, <3>1, MonusProperties
  <2> HIDE DEF others
  <2>6. bytes \in Nat /\ bytes <= Monus(MaxPendingBytes, queued + Held(inflight'))
    BY <1>2, <2>1, <2>5
  <2>7. queued + bytes + Held(inflight') <= MaxPendingBytes
    BY <1>1, <2>3, <2>6 DEF Monus
  <2>8. /\ pendingBytes' = queued + bytes /\ inflightBytes' = Held(inflight')
    <3>1. held - inflight[id].bytes = Held(inflight')
      BY <2>3
    <3>2. /\ pendingBytes' = queued + bytes
          /\ inflightBytes' = held - inflight[id].bytes
      BY <1>1, <2>1, Zenon
    <3> QED BY <3>1, <3>2
  <2> QED BY <1>3, <2>4, <2>7, <2>8
<1>12. ASSUME NEW id \in PendingIds, Apply(id)
       PROVE  BytesInv'
  <2>1. PICK i \in DOMAIN pending :
          /\ pending' = RemoveAt(pending, i)
          /\ pendingBytes' = pendingBytes - pending[i].bytes
          /\ inflight' = Wake(inflight) /\ inflightBytes' = inflightBytes
    BY <1>12 DEF Apply
  <2>2. queued = Held(pending') + pending[i].bytes
    BY <1>2, <2>1, HeldRemoved DEF queued
  <2>3. pending' \in Seq(Entry) /\ pending[i].bytes \in Nat
    BY <1>2, <2>1, LenProperties, RemoveAtProperties, QueueWeighed DEF Weighed
  <2>4. Held(pending') \in Nat
    BY <2>3, QueueWeighed, HeldType
  <2>5. Held(inflight') = held
    BY <1>2, <2>1, HeldWoken DEF held
  <2>6. /\ pendingBytes' = Held(pending') /\ inflightBytes' = held
        /\ pendingBytes' + inflightBytes' <= MaxPendingBytes
    <3>1. pendingBytes' = queued - pending[i].bytes /\ inflightBytes' = held
      BY <1>1, <2>1
    <3>2. queued - pending[i].bytes = Held(pending') /\ Held(pending') + held <= MaxPendingBytes
      BY <1>1, <2>2, <2>3, <2>4, GivenBack
    <3> QED BY <3>1, <3>2
  <2> QED BY <1>3, <2>5, <2>6
<1>13. CASE Submissions
  BY <1>9, <1>10, <1>13 DEF Submissions, Deliveries, Kinds
<1>14. CASE Futures
  BY <1>6, <1>8, <1>11, <1>7, <1>14 DEF Futures, Poll, Resolve, Expire
<1>15. CASE \/ Cancel \/ CancelParent
            \/ \E id \in 1..nextId, allow \in BOOLEAN : Respond(id, allow)
  BY <1>5, <1>15 DEF Cancel, CancelParent, Respond, Notified, queueVars
<1>16. CASE Owner
  BY <1>5, <1>12, <1>16
  DEF Owner, BindPipeline, Start, ConfigureCustom, Close, Seal, Finish,
      SetClosed, Approve, EndApproval, DropControl, Notified, queueVars
<1>17. CASE UNCHANGED controlVars
  BY <1>5, <1>17 DEF controlVars, queueVars, Notified
<1> QED BY <1>13, <1>14, <1>15, <1>16, <1>17 DEF Next, Host

\* The byte counters are the sums of the queue and of the reservations, and
\* stay within max_pending_bytes: no submission, expiry, preparation or
\* application leaks a byte or frees one twice, whatever the order.
THEOREM BytesConservedHolds == Spec => []BytesConserved
<1>1. Init => BytesInv
  <2> SUFFICES ASSUME Init PROVE BytesInv
    OBVIOUS
  <2>1. DOMAIN pending = {} /\ DOMAIN inflight = {}
    BY DEF Init
  <2>2. pendingBytes = 0 /\ inflightBytes = 0
    BY DEF Init
  <2> QED BY <2>1, <2>2, SumEmpty, LimitsAssumption DEF BytesInv, Held
<1>2. TypeOK /\ BytesInv => BytesConserved
  BY FoldsAreHeld
<1> QED BY <1>1, <1>2, BytesStep, TypeCorrect, PTL DEF Spec

-----------------------------------------------------------------------------
(* Notifications.                                                          *)

\* One step that could let a sleeping future go on has notified it.
LEMMA WakeupStep == TypeOK /\ NoLostWakeup /\ [Next]_controlVars => NoLostWakeup'
<1> SUFFICES ASSUME TypeOK, NoLostWakeup, [Next]_controlVars
             PROVE  NoLostWakeup'
  OBVIOUS
<1> USE DEF NoLostWakeup
<1>1. ASSUME UNCHANGED <<inflight, status, cancelled>>
      PROVE  NoLostWakeup'
  BY <1>1 DEF IsHead, Open
<1>2. ASSUME inflight' = Wake(inflight)
      PROVE  NoLostWakeup'
  BY <1>2, WakeProperties DEF TypeOK
<1>3. ASSUME NEW id \in DOMAIN inflight, inflight' = Wake(Without(inflight, id))
      PROVE  NoLostWakeup'
  BY <1>3, ReleasedProperties
<1>4. ASSUME NEW kind \in Deliveries, NEW custom \in BOOLEAN,
             NEW bytes \in Sizes, Reserve(kind, custom, bytes)
      PROVE  NoLostWakeup'
  BY <1>4, ReservedProperties
<1>5. ASSUME NEW id \in DOMAIN inflight, Arm(id) \/ CheckTurn(id)
      PROVE  NoLostWakeup'
  <2>1. /\ DOMAIN inflight' = DOMAIN inflight
        /\ \A other \in DOMAIN inflight \ {id} : inflight'[other] = inflight[other]
        /\ UNCHANGED <<status, cancelled>>
    BY <1>5 DEF Arm, CheckTurn, TypeOK
  <2>2. inflight'[id].stage = "asleep" => Open /\ ~cancelled /\ ~IsHead(id)
    BY <1>5 DEF Arm, CheckTurn, TypeOK, Reservation
  <2>3. QED
    BY <2>1, <2>2 DEF IsHead, Open
<1>6. ASSUME NEW id \in DOMAIN inflight, DeliverNextTurn(id)
      PROVE  NoLostWakeup'
  BY <1>6, DeliveredProperties
<1>7. CASE Submissions
  BY <1>2, <1>4, <1>7 DEF Submissions, Submit, Deliveries, Kinds
<1>8. CASE Futures
  BY <1>3, <1>5, <1>6, <1>8 DEF Futures, Poll, Commit, Resolve, Expire, Release
<1>9. CASE \/ Cancel \/ CancelParent
           \/ \E id \in 1..nextId, allow \in BOOLEAN : Respond(id, allow)
  BY <1>2, <1>9 DEF Cancel, CancelParent, Respond
<1>10. CASE Owner
  BY <1>1, <1>2, <1>10
  DEF Owner, BindPipeline, Start, ConfigureCustom, Close, Apply, Seal, Finish,
      SetClosed, Approve, EndApproval, DropControl
<1>11. CASE UNCHANGED controlVars
  BY <1>1, <1>11 DEF controlVars
<1>12. QED
  BY <1>7, <1>8, <1>9, <1>10, <1>11 DEF Next, Host

\* A submission future that sleeps waits for an older one of an open run; what
\* could let it go on has always notified it.
THEOREM NoLostWakeupHolds == Spec => []NoLostWakeup
<1>1. Init => NoLostWakeup
  BY DEF Init, NoLostWakeup
<1>2. QED
  BY <1>1, WakeupStep, TypeCorrect, PTL DEF Spec
=============================================================================
