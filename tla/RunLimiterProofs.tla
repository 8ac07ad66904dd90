--------------------------- MODULE RunLimiterProofs ---------------------------
(***************************************************************************)
(* Theorems about RunLimiter, for all actors, permits, budgets, requests   *)
(* and reports.                                                            *)
(***************************************************************************)
EXTENDS RunLimiter, Integers, FiniteSetTheorems, WellFoundedInduction, TLAPS

-----------------------------------------------------------------------------
(* Sums of natural numbers over finite sets.  The model states them with   *)
(* the folds of the community modules, which take the elements in an order *)
(* CHOOSE gives.  Here a sum is the number of its units, so that adding   *)
(* a value is a fact about cardinalities, and a fold is shown to give that *)
(* number in whatever order it runs.                                       *)

\* The units of the values of f over S: their number is the sum.
Units(f, S) == {u \in S \X Nat : 1 <= u[2] /\ u[2] <= f[u[1]]}
Sum(f, S) == Cardinality(Units(f, S))

\* The units of one value.
LEMMA UnitsOfOne ==
  ASSUME NEW x, NEW n \in Nat
  PROVE  IsFiniteSet({x} \X (1..n)) /\ Cardinality({x} \X (1..n)) = n
<1>1. IsFiniteSet(1..n) /\ Cardinality(1..n) = n
  BY FS_Interval
<1>2. IsFiniteSet({x}) /\ Cardinality({x}) = 1
  BY FS_Singleton
<1> QED BY <1>1, <1>2, FS_Product

\* Finitely many values have finitely many units.
LEMMA UnitsFinite ==
  ASSUME NEW S, IsFiniteSet(S), NEW f, \A x \in S : f[x] \in Nat
  PROVE  IsFiniteSet(Units(f, S)) /\ Sum(f, S) \in Nat
<1> DEFINE column == [x \in S |-> {x} \X (1..f[x])]
           all == {column[x] : x \in S}
<1>1. column \in Surjection(S, all)
  BY DEF Surjection
<1>2. IsFiniteSet(all)
  BY <1>1, FS_Surjection
<1>3. \A C \in all : IsFiniteSet(C)
  <2> SUFFICES ASSUME NEW x \in S PROVE IsFiniteSet({x} \X (1..f[x]))
    OBVIOUS
  <2> QED BY UnitsOfOne
<1>4. IsFiniteSet(UNION all)
  BY <1>2, <1>3, FS_UNION
<1>5. Units(f, S) \subseteq UNION all
  <2> SUFFICES ASSUME NEW u \in Units(f, S) PROVE u \in UNION all
    OBVIOUS
  <2>1. /\ u \in S \X Nat /\ 1 <= u[2] /\ u[2] <= f[u[1]]
    BY DEF Units
  <2>2. u[2] \in 1..f[u[1]] /\ u = <<u[1], u[2]>> /\ u[1] \in S
    BY <2>1
  <2>3. u \in column[u[1]]
    BY <2>2
  <2> QED BY <2>2, <2>3
<1>6. IsFiniteSet(Units(f, S))
  BY <1>4, <1>5, FS_Subset
<1> QED BY <1>6, FS_CardinalityType DEF Sum

\* One value more.
LEMMA SumAdd ==
  ASSUME NEW S, IsFiniteSet(S), NEW x \in S, NEW f, \A y \in S : f[y] \in Nat
  PROVE  Sum(f, S) = Sum(f, S \ {x}) + f[x]
<1> DEFINE one == {x} \X (1..f[x])
           rest == Units(f, S \ {x})
<1>1. IsFiniteSet(one) /\ Cardinality(one) = f[x]
  BY UnitsOfOne
<1>2. IsFiniteSet(S \ {x}) /\ \A y \in S \ {x} : f[y] \in Nat
  BY FS_RemoveElement
<1>3. IsFiniteSet(rest) /\ Cardinality(rest) \in Nat
  BY <1>2, UnitsFinite DEF Sum
<1>4. Units(f, S) = rest \cup one
  <2>1. ASSUME NEW u \in Units(f, S) PROVE u \in rest \cup one
    <3>1. u \in S \X Nat /\ 1 <= u[2] /\ u[2] <= f[u[1]]
      BY DEF Units
    <3>2. u = <<u[1], u[2]>> /\ u[2] \in Nat /\ u[1] \in S
      BY <3>1
    <3>3. CASE u[1] = x
      <4>1. u[2] \in 1..f[x]
        BY <3>1, <3>2, <3>3
      <4> QED BY <3>2, <3>3, <4>1
    <3>4. CASE u[1] # x
      BY <3>1, <3>2, <3>4 DEF Units
    <3> QED BY <3>3, <3>4
  <2>2. rest \subseteq Units(f, S)
    BY DEF Units
  <2>3. one \subseteq Units(f, S)
    BY DEF Units
  <2> QED BY <2>1, <2>2, <2>3
<1>5. rest \cap one = {}
  BY DEF Units
<1> HIDE DEF one, rest
<1>6. Cardinality(rest \cup one) = Cardinality(rest) + Cardinality(one) - Cardinality({})
  BY <1>1, <1>3, <1>5, FS_Union
<1> QED BY <1>1, <1>3, <1>4, <1>6, FS_EmptySet DEF Sum, rest

\* A sum depends on the values only.
LEMMA SumSame ==
  ASSUME NEW S, NEW f, NEW g, \A x \in S : f[x] = g[x]
  PROVE  Sum(f, S) = Sum(g, S)
<1>1. Units(f, S) = Units(g, S)
  BY DEF Units
<1> QED BY <1>1 DEF Sum

\* The sum of nothing.
LEMMA SumEmpty == ASSUME NEW f PROVE Sum(f, {}) = 0
<1>1. Units(f, {}) = {}
  BY DEF Units
<1> QED BY <1>1, FS_EmptySet DEF Sum

\* The element a fold takes out of a set.
Pick(s) == CHOOSE x \in s : TRUE

\* What folds the values of f over the subsets of S.
Folds(g, f, S) ==
  g = [s \in SUBSET S |-> IF s = {} THEN 0 ELSE f[Pick(s)] + g[s \ {Pick(s)}]]

\* There is such a fold, and it gives the sum.
LEMMA FoldExists ==
  ASSUME NEW S, IsFiniteSet(S), NEW f, \A x \in S : f[x] \in Nat
  PROVE  \E g : Folds(g, f, S)
<1> DEFINE g == [s \in SUBSET S |-> Sum(f, s)]
           h == [s \in SUBSET S |-> IF s = {} THEN 0 ELSE f[Pick(s)] + g[s \ {Pick(s)}]]
<1>1. ASSUME NEW s \in SUBSET S PROVE g[s] = h[s]
  <2>1. CASE s = {}
    BY <2>1, SumEmpty
  <2>2. CASE s # {}
    <3>1. Pick(s) \in s
      BY <2>2 DEF Pick
    <3>2. IsFiniteSet(s) /\ IsFiniteSet(s \ {Pick(s)}) /\ \A x \in s : f[x] \in Nat
      BY FS_Subset, FS_RemoveElement
    <3>3. Sum(f, s) = Sum(f, s \ {Pick(s)}) + f[Pick(s)]
      BY <3>1, <3>2, SumAdd
    <3>4. Sum(f, s \ {Pick(s)}) \in Nat /\ f[Pick(s)] \in Nat
      BY <3>1, <3>2, UnitsFinite
    <3>5. g[s] = Sum(f, s) /\ g[s \ {Pick(s)}] = Sum(f, s \ {Pick(s)})
      OBVIOUS
    <3> HIDE DEF g
    <3>6. h[s] = f[Pick(s)] + g[s \ {Pick(s)}]
      BY <2>2
    <3> QED BY <3>3, <3>4, <3>5, <3>6
  <2> QED BY <2>1, <2>2
<1>2. g = h
  <2> HIDE DEF g
  <2>1. g = [s \in SUBSET S |-> g[s]]
    BY DEF g
  <2> QED BY <1>1, <2>1
<1> HIDE DEF g
<1> QED BY <1>2 DEF Folds

\* Whatever folds the values gives their sum.
LEMMA FoldIsSum ==
  ASSUME NEW S, IsFiniteSet(S), NEW f, \A x \in S : f[x] \in Nat, NEW g, Folds(g, f, S)
  PROVE  g[S] = Sum(f, S)
<1> DEFINE wrong == {s \in SUBSET S : g[s] # Sum(f, s)}
           sizes == {Cardinality(s) : s \in wrong}
<1>1. \A s \in SUBSET S : IsFiniteSet(s) /\ Cardinality(s) \in Nat
  BY FS_Subset, FS_CardinalityType
<1>2. \A s \in SUBSET S : g[s] = IF s = {} THEN 0 ELSE f[Pick(s)] + g[s \ {Pick(s)}]
  BY DEF Folds
<1>3. SUFFICES ASSUME wrong # {} PROVE FALSE
  OBVIOUS
<1>4. sizes # {} /\ sizes \subseteq Nat
  BY <1>1, <1>3
<1>5. PICK n \in sizes : \A m \in sizes : <<m, n>> \notin OpToRel(<, Nat)
  <2> HIDE DEF sizes
  <2> QED BY <1>4, WFMin, NatLessThanWellFounded
<1>6. PICK s \in wrong : n = Cardinality(s)
  BY <1>5
<1>7. s # {}
  <2>1. g[{}] = 0
    BY <1>2
  <2> QED BY <1>6, <2>1, SumEmpty
<1> DEFINE x == Pick(s)
           r == s \ {x}
<1>8. x \in s
  BY <1>7 DEF Pick
<1> HIDE DEF x
<1>9. r \in SUBSET S /\ Cardinality(r) = n - 1 /\ Cardinality(r) \in Nat /\ n \in Nat
  BY <1>1, <1>6, <1>8, FS_RemoveElement
<1>10. r \notin wrong
  <2>1. <<Cardinality(r), n>> \in OpToRel(<, Nat)
    BY <1>9 DEF OpToRel
  <2> QED BY <1>5, <2>1
<1>11. g[s] = f[x] + Sum(f, r)
  BY <1>2, <1>6, <1>7, <1>9, <1>10 DEF x
<1>12. Sum(f, s) = Sum(f, r) + f[x] /\ Sum(f, r) \in Nat /\ f[x] \in Nat
  <2>1. IsFiniteSet(s) /\ IsFiniteSet(r) /\ (\A y \in s : f[y] \in Nat) /\ \A y \in r : f[y] \in Nat
    BY <1>1, <1>6, <1>9
  <2> QED BY <1>8, <2>1, SumAdd, UnitsFinite
<1> QED BY <1>6, <1>11, <1>12

-----------------------------------------------------------------------------
(* The invariant.                                                          *)

Active == {"slot", "intent", "invoke", "deliver", "receipt"}
Rest == {"idle", "done"}
Places == Active \cup Rest
Ends == {"completed", "error", "interrupted", "not_started"}
Statuses == {"none", "prepared", "running"} \cup Ends
Leases == [status : Statuses, amount : Nat, usage : Nat \cup {Unreported}]
Kinds == {"none", "budget", "cancelled", "failed", "fault"}
Phases == {"hooks", "model", "stopped", "batch", "ended"}
Cancels == {"none", "user", "budget", "persistence"}
Outcomes == {"running", "completed", "cancelled", "budget", "failed"}

\* The control of the run, and its meter.
ControlType ==
  /\ phase \in Phases /\ pc \in [Actors -> Places] /\ error \in [Actors -> Kinds]
  /\ stop \in Resources \cup {"none"} /\ cancel \in Cancels
  /\ stopping \in BOOLEAN /\ failure \in BOOLEAN /\ late \in BOOLEAN
  /\ outcome \in Outcomes /\ first \in Resources \cup {"none", "user", "failed"}
MeterType ==
  /\ toolCalls \in Nat /\ used \in Nat /\ reserved \in Nat /\ permits \in Nat
  /\ primary \in Nat /\ overrun \in Nat
  /\ lease \in [Tasks -> Leases]
TypeOK == ControlType /\ MeterType

\* A task has a lease from its intent on, and it runs until it is settled.
Leased ==
  \A t \in Tasks :
    /\ pc[t] \in {"idle", "slot"} => lease[t].status = "none"
    /\ pc[t] = "intent" => lease[t].status = "prepared"
    /\ pc[t] = "invoke" => lease[t].status = "running"
    /\ pc[t] \in {"deliver", "receipt", "done"} => lease[t].status \in Ends \cup {"none"}

\* What each task's lease sets aside, and what it is charged.
AmountOf == [t \in Tasks |-> lease[t].amount]
ChargeOf == [t \in Tasks |-> Charged(t)]

\* The books balance.
Books ==
  /\ reserved = Sum(AmountOf, Live)
  /\ used = primary + Sum(ChargeOf, Settled)
  /\ permits + Cardinality(Holding) = Slots

\* Hooks run one at a time and before the model and the batch; a hook's error
\* is the end of the run.
Staged ==
  /\ phase # "batch" => \A a \in Calls : pc[a] \in Rest
  /\ phase # "hooks" => \A h \in Hooks : pc[h] \in Rest
  /\ phase \notin {"hooks", "ended"} => \A h \in Hooks : error[h] = "none"
  /\ phase \in {"hooks", "model", "stopped"} => \A a \in Calls : error[a] = "none"
  /\ \A h, g \in Hooks : h # g => pc[h] \in Rest \/ pc[g] \in Rest
  /\ \A h, g \in Hooks : h # g => error[h] = "none" \/ error[g] = "none"
  /\ \A h, g \in Hooks : error[h] # "none" => pc[g] \in Rest
  /\ outcome = "running" <=> phase # "ended"

\* The first observed condition is the one that stopped or cancelled the run,
\* or the fault of a hook.
Faulted == phase = "hooks" /\ first = "failed" /\ Errors = {"fault"}
Observed ==
  /\ stopping \/ cancel = "budget" => stop # "none"
  /\ cancel = "persistence" => failure
  /\ failure => cancel # "none"
  /\ phase # "ended" =>
       /\ stop # "none" => first = stop
       /\ first \in Resources => stop = first
       /\ cancel = "user" /\ stop = "none" => first = "user" \/ Faulted
       /\ cancel = "none" /\ stop = "none" => first = "none" \/ Faulted
       /\ phase = "stopped" => stop # "none" \/ cancel # "none"
       /\ "budget" \in Errors => stop # "none"
       /\ "cancelled" \in Errors => cancel # "none"

\* What is spent, and who stopped the run.
Money == MeterType /\ Leased /\ Books /\ SpendingBounded
Control == ControlType /\ Staged /\ Observed /\ ReportedIsFirst
LimiterInv == Control /\ Money

-----------------------------------------------------------------------------
(* The books of the limiter.                                               *)

\* The folds of the books: what is reserved, and what has been charged.
LEMMA BooksAreSums ==
  ASSUME IsFiniteSet(Tasks), lease \in [Tasks -> Leases]
  PROVE  /\ MapThenSumSet(LAMBDA t : lease[t].amount, Live) = Sum(AmountOf, Live)
         /\ MapThenSumSet(Charged, Settled) = Sum(ChargeOf, Settled)
<1>1. \A S \in SUBSET Tasks : IsFiniteSet(S)
  BY FS_Subset
<1>2. Live \in SUBSET Tasks /\ Settled \in SUBSET Tasks
  BY DEF Live, Settled, Attempts
<1>3. \A t \in Tasks : AmountOf[t] = lease[t].amount /\ AmountOf[t] \in Nat
  BY DEF AmountOf, Leases
<1>4. \A t \in Tasks : ChargeOf[t] = Charged(t) /\ ChargeOf[t] \in Nat
  BY DEF ChargeOf, Charged, Leases
<1>5. MapThenSumSet(LAMBDA t : lease[t].amount, Live) = Sum(AmountOf, Live)
  <2> DEFINE P(g) == g = [s \in SUBSET Live |-> IF s = {} THEN 0
                            ELSE lease[Pick(s)].amount + g[s \ {Pick(s)}]]
  <2>1. MapThenSumSet(LAMBDA t : lease[t].amount, Live) = (CHOOSE g : P(g))[Live]
    BY DEF MapThenSumSet, MapThenFoldSet, Pick
  <2>2. \A s \in SUBSET Live : s # {} => AmountOf[Pick(s)] = lease[Pick(s)].amount
    BY <1>2, <1>3 DEF Pick
  <2>3. \A g : P(g) <=> Folds(g, AmountOf, Live)
    BY <2>2 DEF Folds
  <2>4. \E g : P(g)
    BY <1>1, <1>2, <1>3, <2>3, FoldExists
  <2> HIDE DEF P
  <2>5. P(CHOOSE g : P(g))
    BY <2>4
  <2>6. PICK g : g = (CHOOSE h : P(h)) /\ Folds(g, AmountOf, Live)
    BY <2>3, <2>5
  <2> QED BY <1>1, <1>2, <1>3, <2>1, <2>6, FoldIsSum
<1>6. MapThenSumSet(Charged, Settled) = Sum(ChargeOf, Settled)
  <2> DEFINE P(g) == g = [s \in SUBSET Settled |-> IF s = {} THEN 0
                            ELSE Charged(Pick(s)) + g[s \ {Pick(s)}]]
  <2>1. MapThenSumSet(Charged, Settled) = (CHOOSE g : P(g))[Settled]
    BY Zenon DEF MapThenSumSet, MapThenFoldSet, Pick
  <2>2. \A s \in SUBSET Settled : s # {} => ChargeOf[Pick(s)] = Charged(Pick(s))
    BY <1>2, <1>4 DEF Pick
  <2>3. \A g : P(g) <=> Folds(g, ChargeOf, Settled)
    BY <2>2 DEF Folds
  <2>4. \E g : P(g)
    BY <1>1, <1>2, <1>4, <2>3, FoldExists
  <2> HIDE DEF P
  <2>5. P(CHOOSE g : P(g))
    BY <2>4
  <2>6. PICK g : g = (CHOOSE h : P(h)) /\ Folds(g, ChargeOf, Settled)
    BY <2>3, <2>5
  <2> QED BY <1>1, <1>2, <1>4, <2>1, <2>6, FoldIsSum
<1> QED BY <1>5, <1>6

-----------------------------------------------------------------------------
(* The meter.                                                              *)

Holds == {"intent", "invoke", "deliver", "receipt"}

\* The tasks are finitely many, and no call is a hook.
LEMMA Finite ==
  /\ IsFiniteSet(Tasks) /\ Tasks \subseteq Actors /\ Calls \subseteq Actors
  /\ Hooks \cap Calls = {} /\ Auxiliary \subseteq Calls /\ Plain \cap Tasks = {}
  /\ \A S \in SUBSET Tasks : IsFiniteSet(S)
<1>1. IsFiniteSet(Actors)
  BY LimiterAssumption DEF Actors, Calls
<1>2. Tasks \subseteq Actors
  BY DEF Tasks, Actors, Calls
<1>3. IsFiniteSet(Tasks) /\ \A S \in SUBSET Tasks : IsFiniteSet(S)
  BY <1>1, <1>2, FS_Subset
<1> QED BY <1>2, <1>3, LimiterAssumption DEF Actors, Calls, Tasks

\* A task that moves takes and gives back its permit.
Balanced(t, p) ==
  \/ t \in Holding /\ p \in Holds /\ permits' = permits
  \/ t \in Holding /\ p \notin Holds /\ permits' = permits + 1
  \/ t \notin Holding /\ p \notin Holds /\ permits' = permits
  \/ t \notin Holding /\ p \in Holds /\ permits' = permits - 1 /\ permits > 0
LEMMA PermitsBalance ==
  ASSUME pc \in [Actors -> Places], permits \in Nat, permits + Cardinality(Holding) = Slots,
         NEW t \in Tasks, NEW p, pc' = [pc EXCEPT ![t] = p], Balanced(t, p)
  PROVE  permits' \in Nat /\ permits' + Cardinality(Holding') = Slots
<1>1. t \in Actors /\ Holding \in SUBSET Tasks /\ Slots \in Nat
  BY Finite, LimiterAssumption DEF Holding
<1>2. IsFiniteSet(Holding) /\ Cardinality(Holding) \in Nat
  BY <1>1, Finite, FS_CardinalityType
<1>3. Holding' = IF p \in Holds THEN Holding \cup {t} ELSE Holding \ {t}
  BY <1>1, Finite DEF Holding, Holds
<1>4. /\ Cardinality(Holding \cup {t}) =
           IF t \in Holding THEN Cardinality(Holding) ELSE Cardinality(Holding) + 1
      /\ Cardinality(Holding \ {t}) =
           IF t \in Holding THEN Cardinality(Holding) - 1 ELSE Cardinality(Holding)
  BY <1>2, FS_AddElement, FS_RemoveElement
<1> DEFINE n == Cardinality(Holding)
           m == Cardinality(Holding')
<1>5. /\ n \in Nat /\ permits + n = Slots
      /\ p \in Holds => m = IF t \in Holding THEN n ELSE n + 1
      /\ p \notin Holds => m = IF t \in Holding THEN n - 1 ELSE n
  BY <1>2, <1>3, <1>4
<1> HIDE DEF n, m
<1>6. permits' \in Nat /\ permits' + m = Slots
  <2>1. CASE t \in Holding /\ p \in Holds /\ permits' = permits
    BY <1>5, <2>1
  <2>2. CASE t \in Holding /\ p \notin Holds /\ permits' = permits + 1
    BY <1>5, <2>2
  <2>3. CASE t \notin Holding /\ p \notin Holds /\ permits' = permits
    BY <1>5, <2>3
  <2>4. CASE t \notin Holding /\ p \in Holds /\ permits' = permits - 1 /\ permits > 0
    BY <1>5, <2>4
  <2> QED BY <2>1, <2>2, <2>3, <2>4 DEF Balanced
<1> QED BY <1>6 DEF m

\* The sums are numbers, and one task's part of them can be taken out.
LEMMA SumParts ==
  ASSUME lease \in [Tasks -> Leases]
  PROVE  /\ \A t \in Tasks : AmountOf[t] = lease[t].amount /\ AmountOf[t] \in Nat
         /\ \A t \in Tasks : ChargeOf[t] = Charged(t) /\ ChargeOf[t] \in Nat
         /\ \A S \in SUBSET Tasks : Sum(AmountOf, S) \in Nat /\ Sum(ChargeOf, S) \in Nat
         /\ \A S \in SUBSET Tasks : \A t \in S :
              /\ Sum(AmountOf, S) = Sum(AmountOf, S \ {t}) + lease[t].amount
              /\ Sum(ChargeOf, S) = Sum(ChargeOf, S \ {t}) + Charged(t)
<1>1. \A t \in Tasks : AmountOf[t] = lease[t].amount /\ AmountOf[t] \in Nat
  BY DEF AmountOf, Leases
<1>2. \A t \in Tasks : ChargeOf[t] = Charged(t) /\ ChargeOf[t] \in Nat
  BY DEF ChargeOf, Charged, Leases
<1>3. ASSUME NEW S \in SUBSET Tasks PROVE Sum(AmountOf, S) \in Nat /\ Sum(ChargeOf, S) \in Nat
  BY <1>1, <1>2, Finite, UnitsFinite
<1>4. ASSUME NEW S \in SUBSET Tasks, NEW t \in S
      PROVE  /\ Sum(AmountOf, S) = Sum(AmountOf, S \ {t}) + lease[t].amount
             /\ Sum(ChargeOf, S) = Sum(ChargeOf, S \ {t}) + Charged(t)
  <2>1. IsFiniteSet(S) /\ (\A x \in S : AmountOf[x] \in Nat) /\ \A x \in S : ChargeOf[x] \in Nat
    BY <1>1, <1>2, Finite
  <2>2. Sum(AmountOf, S) = Sum(AmountOf, S \ {t}) + AmountOf[t]
    BY <2>1, SumAdd
  <2>3. Sum(ChargeOf, S) = Sum(ChargeOf, S \ {t}) + ChargeOf[t]
    BY <2>1, SumAdd
  <2> QED BY <1>1, <1>2, <2>2, <2>3
<1> QED BY <1>1, <1>2, <1>3, <1>4

\* The parts of the other tasks stay as they are.
LEMMA OtherParts ==
  ASSUME lease \in [Tasks -> Leases], lease' \in [Tasks -> Leases], NEW t \in Tasks,
         \A u \in Tasks \ {t} : lease'[u] = lease[u]
  PROVE  /\ Live' \ {t} = Live \ {t} /\ Settled' \ {t} = Settled \ {t}
         /\ Sum(AmountOf', Live' \ {t}) = Sum(AmountOf, Live \ {t})
         /\ Sum(ChargeOf', Settled' \ {t}) = Sum(ChargeOf, Settled \ {t})
<1>1. Live' \ {t} = Live \ {t} /\ Settled' \ {t} = Settled \ {t}
  BY DEF Live, Settled, Attempts
<1>2. \A u \in Live \ {t} : AmountOf'[u] = AmountOf[u]
  BY DEF AmountOf, Live
<1>3. \A u \in Settled \ {t} : ChargeOf'[u] = ChargeOf[u]
  BY DEF ChargeOf, Charged, Settled, Attempts
<1>4. /\ Sum(AmountOf', Live \ {t}) = Sum(AmountOf, Live \ {t})
      /\ Sum(ChargeOf', Settled \ {t}) = Sum(ChargeOf, Settled \ {t})
  BY <1>2, <1>3, SumSame
<1> QED BY <1>1, <1>4

\* Where a task may be, given its lease.
Fits(l, place) ==
  /\ place \in {"idle", "slot"} => l.status = "none"
  /\ place = "intent" => l.status = "prepared"
  /\ place = "invoke" => l.status = "running"
  /\ place \in {"deliver", "receipt", "done"} => l.status \in Ends \cup {"none"}

\* A task that moves to where its lease fits leaves the others right.
LEMMA FitsLeased ==
  ASSUME Leased, pc \in [Actors -> Places], NEW t \in Tasks, NEW p, pc' = [pc EXCEPT ![t] = p],
         \A u \in Tasks \ {t} : lease'[u] = lease[u], Fits(lease'[t], p)
  PROVE  Leased'
<1>1. t \in Actors /\ pc'[t] = p /\ \A u \in Tasks \ {t} : pc'[u] = pc[u]
  BY Finite
<1> SUFFICES ASSUME NEW u \in Tasks
             PROVE  /\ pc'[u] \in {"idle", "slot"} => lease'[u].status = "none"
                    /\ pc'[u] = "intent" => lease'[u].status = "prepared"
                    /\ pc'[u] = "invoke" => lease'[u].status = "running"
                    /\ pc'[u] \in {"deliver", "receipt", "done"} =>
                         lease'[u].status \in Ends \cup {"none"}
  BY DEF Leased
<1>2. CASE u = t
  BY <1>1, <1>2 DEF Fits
<1>3. CASE u # t
  BY <1>1, <1>3 DEF Leased
<1> QED BY <1>2, <1>3

\* A task that moves without touching its lease or the tokens.
LEMMA MoveMoney ==
  ASSUME Money, pc \in [Actors -> Places], NEW t \in Tasks, NEW p,
         pc' = [pc EXCEPT ![t] = p], Balanced(t, p), Fits(lease[t], p), toolCalls' \in Nat,
         UNCHANGED <<used, reserved, lease, primary, overrun>>
  PROVE  Money'
<1>1. permits' \in Nat /\ permits' + Cardinality(Holding') = Slots
  BY PermitsBalance DEF Money, MeterType, Books
<1>2. Leased'
  BY FitsLeased DEF Money
<1>3. Sum(AmountOf, Live)' = Sum(AmountOf, Live) /\ Sum(ChargeOf, Settled)' = Sum(ChargeOf, Settled)
  BY DEF Sum, Units, AmountOf, ChargeOf, Live, Settled, Attempts, Charged
<1> QED BY <1>1, <1>2, <1>3 DEF Money, MeterType, Books, SpendingBounded

\* Nothing moves between the actors' places, or only calls without a lease.
LEMMA SameMoney ==
  ASSUME Money, \A t \in Tasks : pc'[t] = pc[t], toolCalls' \in Nat,
         UNCHANGED <<used, reserved, permits, lease, primary, overrun>>
  PROVE  Money'
<1>1. Holding' = Holding /\ Leased'
  BY DEF Holding, Money, Leased
<1>2. Sum(AmountOf, Live)' = Sum(AmountOf, Live) /\ Sum(ChargeOf, Settled)' = Sum(ChargeOf, Settled)
  BY DEF Sum, Units, AmountOf, ChargeOf, Live, Settled, Attempts, Charged
<1> QED BY <1>1, <1>2 DEF Money, MeterType, Books, SpendingBounded

\* The lease of one task changes and the tokens with it.
Parts(t) ==
  /\ lease' \in [Tasks -> Leases] /\ \A u \in Tasks \ {t} : lease'[u] = lease[u]
  /\ used' \in Nat /\ reserved' \in Nat /\ overrun' \in Nat
  /\ UNCHANGED <<toolCalls, primary>>

\* A lease is settled: nothing is reserved for it any more, and it is charged.
LEMMA SettleMoney ==
  ASSUME Money, pc \in [Actors -> Places], NEW t \in Live, Parts(t),
         lease'[t].status \in Ends, reserved' = Less(reserved, lease[t].amount),
         used' = used + Charged(t)', overrun' = overrun + Less(Charged(t)', lease[t].amount),
         permits' \in Nat, permits' + Cardinality(Holding') = Slots, Leased'
  PROVE  Money'
<1>1. t \in Tasks /\ Live \in SUBSET Tasks /\ Settled' \in SUBSET Tasks /\ Live' \in SUBSET Tasks
  BY DEF Live, Settled, Attempts
<1>2. lease \in [Tasks -> Leases] /\ lease' \in [Tasks -> Leases]
  BY DEF Money, MeterType, Parts
<1>3. t \notin Live' /\ t \in Settled' /\ t \notin Settled
  BY <1>1 DEF Live, Settled, Attempts, Ends
<1> DEFINE a == lease[t].amount
           c == ChargeOf'[t]
           others == Sum(AmountOf, Live \ {t})
           charged == Sum(ChargeOf, Settled)
<1>4. others \in Nat /\ charged \in Nat /\ a \in Nat /\ Sum(AmountOf, Live) = others + a
  BY <1>1, <1>2, SumParts DEF Leases, Settled, Attempts
<1>5. \A x \in Tasks : ChargeOf'[x] = Charged(x)' /\ ChargeOf'[x] \in Nat
  BY <1>2 DEF ChargeOf, Charged, Leases
<1>6. Sum(AmountOf, Live)' = others
  <2>1. Live' = Live' \ {t}
    BY <1>3
  <2>2. Sum(AmountOf', Live' \ {t}) = Sum(AmountOf, Live \ {t})
    BY <1>1, <1>2, OtherParts DEF Parts
  <2> QED BY <2>1, <2>2
<1>7. Sum(ChargeOf, Settled)' = charged + c
  <2>1. IsFiniteSet(Settled') /\ \A x \in Settled' : ChargeOf'[x] \in Nat
    BY <1>1, <1>5, Finite
  <2>2. Sum(ChargeOf', Settled') = Sum(ChargeOf', Settled' \ {t}) + ChargeOf'[t]
    BY <1>3, <2>1, SumAdd
  <2>3. Sum(ChargeOf', Settled' \ {t}) = Sum(ChargeOf, Settled \ {t})
    BY <1>1, <1>2, OtherParts DEF Parts
  <2>4. Settled \ {t} = Settled
    BY <1>3
  <2> QED BY <2>2, <2>3, <2>4
<1>8. c = Charged(t)' /\ c \in Nat
  BY <1>1, <1>5
<1> HIDE DEF a, c, others, charged
<1>9. /\ reserved = others + a /\ used = primary + charged /\ primary \in Nat
      /\ used + reserved <= MaxTokens + overrun /\ overrun \in Nat /\ MaxTokens \in Nat
      /\ reserved' = Less(others + a, a) /\ used' = used + c /\ overrun' = overrun + Less(c, a)
      /\ primary' = primary
  BY <1>4, <1>8, LimiterAssumption
     DEF Money, MeterType, Books, SpendingBounded, Parts, a, charged
<1>10. reserved' = others /\ used' = primary' + (charged + c)
       /\ used' + reserved' <= MaxTokens + overrun'
  BY <1>4, <1>8, <1>9 DEF Less
<1> QED BY <1>6, <1>7, <1>9, <1>10 DEF Money, MeterType, Books, SpendingBounded, Parts

\* A live lease changes, not its amount: it starts, or its usage is reported.
LEMMA LiveMoney ==
  ASSUME Money, pc \in [Actors -> Places], NEW t \in Live,
         lease' \in [Tasks -> Leases], \A u \in Tasks \ {t} : lease'[u] = lease[u],
         lease'[t].status \in {"prepared", "running"}, lease'[t].amount = lease[t].amount,
         permits' \in Nat, permits' + Cardinality(Holding') = Slots, Leased',
         UNCHANGED <<toolCalls, used, reserved, primary, overrun>>
  PROVE  Money'
<1>1. t \in Tasks /\ Live \in SUBSET Tasks /\ Settled \in SUBSET Tasks
  BY DEF Live, Settled, Attempts
<1>2. lease \in [Tasks -> Leases]
  BY DEF Money, MeterType
<1>3. Live' = Live /\ Settled' = Settled /\ t \notin Settled
  BY <1>1 DEF Live, Settled, Attempts
<1>4. \A u \in Live : AmountOf'[u] = AmountOf[u]
  BY <1>1 DEF AmountOf
<1>5. \A u \in Settled : ChargeOf'[u] = ChargeOf[u]
  BY <1>1, <1>3 DEF ChargeOf, Charged
<1>6. Sum(AmountOf, Live)' = Sum(AmountOf, Live) /\ Sum(ChargeOf, Settled)' = Sum(ChargeOf, Settled)
  <2>1. Sum(AmountOf', Live) = Sum(AmountOf, Live) /\ Sum(ChargeOf', Settled) = Sum(ChargeOf, Settled)
    BY <1>4, <1>5, SumSame
  <2> QED BY <1>3, <2>1
<1> QED BY <1>6 DEF Money, MeterType, Books, SpendingBounded

\* A lease is granted within what remains.
LEMMA GrantMoney ==
  ASSUME Money, pc \in [Actors -> Places], NEW t \in Tasks, lease[t].status = "none",
         Parts(t), lease'[t].status = "prepared", lease'[t].amount <= Remaining,
         reserved' = reserved + lease'[t].amount, UNCHANGED <<used, overrun>>,
         permits' \in Nat, permits' + Cardinality(Holding') = Slots, Leased'
  PROVE  Money'
<1>1. Live \in SUBSET Tasks /\ Live' \in SUBSET Tasks /\ Settled \in SUBSET Tasks
  BY DEF Live, Settled, Attempts
<1>2. lease \in [Tasks -> Leases] /\ lease' \in [Tasks -> Leases]
  BY DEF Money, MeterType, Parts
<1>3. t \notin Live /\ t \in Live' /\ t \notin Settled /\ t \notin Settled'
  BY <1>1 DEF Live, Settled, Attempts
<1> DEFINE a == AmountOf'[t]
           held == Sum(AmountOf, Live)
<1>4. held \in Nat
  BY <1>1, <1>2, SumParts
<1>5. \A x \in Tasks : AmountOf'[x] = lease'[x].amount /\ AmountOf'[x] \in Nat
  BY <1>2 DEF AmountOf, Leases
<1>6. Sum(AmountOf, Live)' = held + a
  <2>1. IsFiniteSet(Live') /\ \A x \in Live' : AmountOf'[x] \in Nat
    BY <1>1, <1>5, Finite
  <2>2. Sum(AmountOf', Live') = Sum(AmountOf', Live' \ {t}) + AmountOf'[t]
    BY <1>3, <2>1, SumAdd
  <2>3. Sum(AmountOf', Live' \ {t}) = Sum(AmountOf, Live \ {t})
    BY <1>1, <1>2, OtherParts DEF Parts
  <2>4. Live \ {t} = Live
    BY <1>3
  <2> QED BY <2>2, <2>3, <2>4
<1>7. Sum(ChargeOf, Settled)' = Sum(ChargeOf, Settled)
  <2>1. Sum(ChargeOf', Settled' \ {t}) = Sum(ChargeOf, Settled \ {t})
    BY <1>1, <1>2, OtherParts DEF Parts
  <2>2. Settled \ {t} = Settled /\ Settled' \ {t} = Settled'
    BY <1>3
  <2> QED BY <2>1, <2>2
<1>8. a = lease'[t].amount /\ a \in Nat
  BY <1>5
<1> HIDE DEF a, held
<1>9. /\ reserved = held /\ reserved' = reserved + a /\ used \in Nat /\ reserved \in Nat
      /\ a <= Less(Less(MaxTokens, used), reserved) /\ MaxTokens \in Nat /\ overrun \in Nat
      /\ used + reserved <= MaxTokens + overrun
  BY <1>4, <1>8, LimiterAssumption DEF Money, MeterType, Books, SpendingBounded, Remaining, held
<1>10. used + reserved' <= MaxTokens + overrun
  BY <1>8, <1>9 DEF Less
<1> QED BY <1>6, <1>7, <1>9, <1>10 DEF Money, MeterType, Books, SpendingBounded, Parts

\* The response is charged, beyond what remains as an overrun.
LEMMA AccountMoney ==
  ASSUME Money, NEW total \in Nat, Account(total), \A t \in Tasks : pc'[t] = pc[t]
  PROVE  Money'
<1>1. /\ used' = used + total /\ primary' = primary + total
      /\ overrun' = overrun + Less(total, Remaining)
      /\ UNCHANGED <<toolCalls, reserved, permits, lease>>
  BY DEF Account
<1>2. Holding' = Holding /\ Leased'
  BY <1>1 DEF Holding, Money, Leased
<1>3. Sum(AmountOf, Live)' = Sum(AmountOf, Live) /\ Sum(ChargeOf, Settled)' = Sum(ChargeOf, Settled)
  BY <1>1 DEF Sum, Units, AmountOf, ChargeOf, Live, Settled, Attempts, Charged
<1>4. Sum(ChargeOf, Settled) \in Nat
  <2>1. Settled \in SUBSET Tasks
    BY DEF Settled, Attempts
  <2> QED BY <2>1, SumParts DEF Money, MeterType
<1> DEFINE c == Sum(ChargeOf, Settled)
<1>5. /\ used = primary + c /\ used \in Nat /\ reserved \in Nat /\ primary \in Nat
      /\ overrun \in Nat /\ MaxTokens \in Nat /\ used + reserved <= MaxTokens + overrun
      /\ overrun' = overrun + Less(total, Less(Less(MaxTokens, used), reserved))
  BY <1>1, LimiterAssumption DEF Money, MeterType, Books, SpendingBounded, Remaining
<1> HIDE DEF c
<1>6. /\ used' = primary' + c /\ used' + reserved <= MaxTokens + overrun'
      /\ used' \in Nat /\ primary' \in Nat /\ overrun' \in Nat
  BY <1>1, <1>4, <1>5 DEF Less, c
<1> QED BY <1>1, <1>2, <1>3, <1>6 DEF Money, MeterType, Books, SpendingBounded, c

\* A task settles its lease, if it still runs, and goes on.
LEMMA FinishMoney ==
  ASSUME Money, pc \in [Actors -> Places], NEW t \in Tasks,
         NEW status \in {"completed", "error", "interrupted"},
         NEW p \in {"deliver", "receipt", "done"}, pc' = [pc EXCEPT ![t] = p],
         Balanced(t, p), Finish(t, status), UNCHANGED <<toolCalls, primary>>
  PROVE  Money'
<1>1. lease \in [Tasks -> Leases] /\ toolCalls \in Nat /\ lease[t] \in Leases
  BY DEF Money, MeterType
<1>2. CASE t \notin Live
  <2>1. UNCHANGED <<used, reserved, lease, primary, overrun>>
    BY <1>2 DEF Finish
  <2>2. Fits(lease[t], p)
    BY <1>1, <1>2 DEF Fits, Live, Leases, Statuses
  <2> QED BY <1>1, <2>1, <2>2, MoveMoney
<1>3. CASE t \in Live
  <2>1. /\ reserved' = Less(reserved, lease[t].amount)
        /\ used' = used + Charge(lease[t])
        /\ overrun' = overrun + Less(Charge(lease[t]), lease[t].amount)
        /\ lease' = [lease EXCEPT ![t].status = IF @ = "running" THEN status ELSE "not_started"]
    BY <1>3 DEF Finish
  <2>2. /\ lease'[t] = [lease[t] EXCEPT !.status =
                          IF lease[t].status = "running" THEN status ELSE "not_started"]
        /\ \A u \in Tasks \ {t} : lease'[u] = lease[u]
    BY <1>1, <2>1
  <2>3. /\ lease'[t] \in Leases /\ lease'[t].status \in Ends
        /\ lease'[t].usage = lease[t].usage /\ lease'[t].amount = lease[t].amount
        /\ lease'[t].status = IF lease[t].status = "running" THEN status ELSE "not_started"
    BY <1>1, <2>2 DEF Leases, Statuses, Ends
  <2>4. lease' \in [Tasks -> Leases]
    BY <1>1, <2>1, <2>3
  <2>5. Charged(t)' = Charge(lease[t])
    BY <2>3 DEF Charged, Charge
  <2>6. permits' \in Nat /\ permits' + Cardinality(Holding') = Slots
    BY PermitsBalance DEF Money, MeterType, Books
  <2>7. Fits(lease'[t], p)
    BY <2>3 DEF Fits
  <2>8. Leased'
    BY <2>2, <2>7, FitsLeased DEF Money
  <2>9. Charge(lease[t]) \in Nat /\ lease[t].amount \in Nat
    BY <1>1 DEF Charge, Leases
  <2>10. used' \in Nat /\ reserved' \in Nat /\ overrun' \in Nat
    BY <2>1, <2>9 DEF Money, MeterType, Less
  <2>11. Parts(t)
    BY <2>2, <2>4, <2>10 DEF Parts
  <2> QED BY <1>3, <2>1, <2>3, <2>5, <2>6, <2>8, <2>11, SettleMoney
<1> QED BY <1>2, <1>3

-----------------------------------------------------------------------------
(* The limits.                                                             *)

\* What stop() may leave behind: nothing, or a violation where nothing else
\* had stopped or cancelled the run.
Looks ==
  \/ UNCHANGED <<stop, stopping, first>>
  \/ /\ stop = "none" /\ cancel = "none"
     /\ stop' \in Resources /\ stopping' \in BOOLEAN
     /\ first' = IF first = "none" THEN stop' ELSE first

\* stop() records one of the limits.
LEMMA StopEffect ==
  ASSUME NEW r \in Resources, Stop(r)
  PROVE  Looks /\ (stop' # "none" \/ cancel # "none") /\ (cancel = "none" => stop' # "none")
<1>1. CASE stop = "none" /\ cancel = "none"
  BY <1>1 DEF Stop, Looks, Resources
<1>2. CASE ~(stop = "none" /\ cancel = "none")
  BY <1>2 DEF Stop, Looks
<1> QED BY <1>1, <1>2

\* So does check(), with whatever tokens used.
LEMMA CheckAtLooks ==
  ASSUME NEW tokens, CheckAt(tokens)
  PROVE  Looks
<1>1. RaisesAt(tokens) \in {"none", "tokens", "duration"}
  BY DEF RaisesAt
<1>2. CASE RaisesAt(tokens) = "none"
  BY <1>2 DEF CheckAt, NotStopped, Looks
<1>3. CASE RaisesAt(tokens) # "none"
  <2>1. RaisesAt(tokens) \in Resources /\ Stop(RaisesAt(tokens))
    BY <1>1, <1>3 DEF CheckAt, Resources
  <2> QED BY <2>1, StopEffect
<1> QED BY <1>2, <1>3

\* check() says, besides, why the run may not go on.
LEMMA CheckEffect ==
  ASSUME Check
  PROVE  /\ Looks
         /\ Checked \in {"none", "failed", "budget", "cancelled"}
         /\ Checked = "budget" => stop' # "none"
         /\ Checked = "cancelled" => cancel # "none"
         /\ Checked = "failed" => failure
         /\ Checked = "none" => UNCHANGED <<stop, stopping, first>> /\ stop = "none" /\ cancel = "none"
<1>1. Raises \in {"none", "tokens", "duration"} /\ (failure => Raises = "none")
  BY DEF Raises, RaisesAt
<1>2. CASE Raises = "none"
  BY <1>1, <1>2 DEF Check, CheckAt, Raises, NotStopped, Looks, Checked
<1>3. CASE Raises # "none"
  <2>1. Raises \in Resources /\ Stop(Raises) /\ ~failure
    BY <1>1, <1>3 DEF Check, CheckAt, Raises, Resources
  <2>2. Looks /\ (cancel = "none" => stop' # "none")
    BY <2>1, StopEffect
  <2>3. stop # "none" => stop' # "none" /\ stop' = stop
    BY <2>1 DEF Stop
  <2> QED BY <1>3, <2>1, <2>2, <2>3 DEF Checked
<1> QED BY <1>2, <1>3

-----------------------------------------------------------------------------
(* The control of the run.                                                 *)

\* A look at the limits keeps the first observed condition in order.
LEMMA LooksObserved ==
  ASSUME Observed, ~Faulted, phase # "ended", phase' # "ended", Looks,
         UNCHANGED <<cancel, failure>>,
         "budget" \in Errors' => stop' # "none",
         "cancelled" \in Errors' => cancel # "none",
         phase' = "stopped" => stop' # "none" \/ cancel # "none"
  PROVE  Observed'
<1>1. CASE UNCHANGED <<stop, stopping, first>>
  BY <1>1 DEF Observed
<1>2. CASE /\ stop = "none" /\ cancel = "none"
           /\ stop' \in Resources /\ stopping' \in BOOLEAN
           /\ first' = IF first = "none" THEN stop' ELSE first
  <2>1. first' = stop' /\ stop' # "none" /\ cancel' = "none"
    BY <1>2 DEF Observed, Resources
  <2> QED BY <1>2, <2>1 DEF Observed
<1> QED BY <1>1, <1>2 DEF Looks

\* What stop() may leave behind is well typed.
LEMMA LooksType ==
  ASSUME ControlType, Looks
  PROVE  /\ stop' \in Resources \cup {"none"} /\ stopping' \in BOOLEAN
         /\ first' \in Resources \cup {"none", "user", "failed"}
         /\ stop # "none" => stop' # "none"
BY DEF ControlType, Looks

\* An actor may take a step: a call in the batch, or the one hook that runs.
Turn(a) ==
  \/ phase = "batch" /\ a \in Calls
  \/ /\ phase = "hooks" /\ a \in Hooks
     /\ \A h \in Hooks : error[h] = "none" /\ (h # a => pc[h] \in Rest)

\* Only such an actor is on its way.
LEMMA ActiveTurn ==
  ASSUME ControlType, Staged, NEW a \in Actors, pc[a] \in Active
  PROVE  Turn(a)
<1>1. pc[a] \notin Rest
  BY DEF Active, Rest
<1>2. CASE a \in Calls
  BY <1>1, <1>2 DEF Staged, Turn
<1>3. CASE a \in Hooks
  <2>1. phase = "hooks" /\ \A h \in Hooks : h # a => pc[h] \in Rest
    BY <1>1, <1>3 DEF Staged
  <2>2. \A h \in Hooks : error[h] = "none"
    BY <1>1, <1>3 DEF Staged
  <2> QED BY <1>3, <2>1, <2>2 DEF Turn
<1> QED BY <1>2, <1>3 DEF Actors

\* Where an actor takes a step no hook has failed.
LEMMA TurnUnfaulted ==
  ASSUME Staged, NEW a, Turn(a)
  PROVE  ~Faulted /\ phase \in {"hooks", "batch"} /\ outcome = "running"
<1>1. CASE phase = "batch"
  BY <1>1 DEF Faulted, Staged
<1>2. CASE phase = "hooks" /\ \A h \in Hooks : error[h] = "none"
  <2>1. \A b \in Actors : error[b] = "none"
    BY <1>2 DEF Staged, Actors
  <2> QED BY <1>2, <2>1 DEF Faulted, Errors, Staged
<1> QED BY <1>1, <1>2 DEF Turn

\* A step of one actor: it moves to a place, or it ends with an error.
Moves(a, p, k) ==
  /\ pc' = [pc EXCEPT ![a] = p]
  /\ \/ error' = error
     \/ p = "done" /\ error' = [error EXCEPT ![a] = k]

\* Such a step leaves the stages of the run in order.
LEMMA MovesStaged ==
  ASSUME ControlType, Staged, NEW a \in Actors, Turn(a), NEW p \in Places, NEW k \in Kinds,
         Moves(a, p, k), UNCHANGED <<phase, outcome>>
  PROVE  /\ Staged' /\ pc' \in [Actors -> Places] /\ error' \in [Actors -> Kinds]
         /\ Errors' \subseteq Errors \cup {k}
<1>1. pc \in [Actors -> Places] /\ error \in [Actors -> Kinds]
  BY DEF ControlType
<1>2. /\ pc'[a] = p /\ \A b \in Actors \ {a} : pc'[b] = pc[b]
      /\ pc' \in [Actors -> Places]
  BY <1>1 DEF Moves
<1>3. /\ error' \in [Actors -> Kinds] /\ \A b \in Actors \ {a} : error'[b] = error[b]
      /\ error'[a] = error[a] \/ (p = "done" /\ error'[a] = k)
  BY <1>1 DEF Moves
<1>4. Errors' \subseteq Errors \cup {k}
  BY <1>3 DEF Errors
<1>5. Hooks \subseteq Actors /\ Calls \subseteq Actors /\ Hooks \cap Calls = {}
  BY Finite DEF Actors
<1>6. CASE phase = "batch" /\ a \in Calls
  <2>1. \A h \in Hooks : pc'[h] = pc[h] /\ error'[h] = error[h]
    BY <1>2, <1>3, <1>5, <1>6
  <2>2. \A h \in Hooks : pc[h] \in Rest /\ error[h] = "none"
    BY <1>6 DEF Staged
  <2>3. Staged'
    BY <1>6, <2>1, <2>2 DEF Staged
  <2> QED BY <1>2, <1>3, <1>4, <2>3
<1>7. CASE /\ phase = "hooks" /\ a \in Hooks
           /\ \A h \in Hooks : error[h] = "none" /\ (h # a => pc[h] \in Rest)
  <2>1. \A c \in Calls : pc'[c] = pc[c] /\ error'[c] = error[c]
    BY <1>2, <1>3, <1>5, <1>7
  <2>2. \A c \in Calls : pc'[c] \in Rest /\ error'[c] = "none"
    BY <1>7, <2>1 DEF Staged
  <2>3. \A h \in Hooks : h # a => pc'[h] \in Rest /\ error'[h] = "none"
    BY <1>2, <1>3, <1>5, <1>7
  <2>4. error'[a] # "none" => pc'[a] \in Rest
    BY <1>2, <1>3, <1>7 DEF Rest
  <2>5. phase' = "hooks" /\ outcome' = "running"
    BY <1>7 DEF Staged
  <2>6. \A h, g \in Hooks : h # g => pc'[h] \in Rest \/ pc'[g] \in Rest
    BY <2>3
  <2>7. \A h, g \in Hooks : h # g => error'[h] = "none" \/ error'[g] = "none"
    BY <2>3
  <2>8. \A h, g \in Hooks : error'[h] # "none" => pc'[g] \in Rest
    BY <2>3, <2>4
  <2>9. Staged'
    BY <2>2, <2>5, <2>6, <2>7, <2>8 DEF Staged
  <2> QED BY <1>2, <1>3, <1>4, <2>9
<1> QED BY <1>6, <1>7 DEF Turn

\* A step of one actor that looks at the limits at most.
LEMMA TurnControl ==
  ASSUME Control, NEW a \in Actors, Turn(a), NEW p \in Places, NEW k \in Kinds,
         Moves(a, p, k), Looks, UNCHANGED <<phase, cancel, failure, late, outcome>>,
         k = "budget" => stop' # "none", k = "cancelled" => cancel # "none"
  PROVE  Control'
<1>1. ControlType /\ Staged /\ Observed /\ ReportedIsFirst
  BY DEF Control
<1>2. /\ Staged' /\ pc' \in [Actors -> Places] /\ error' \in [Actors -> Kinds]
      /\ Errors' \subseteq Errors \cup {k}
  BY <1>1, MovesStaged
<1>3. ~Faulted /\ phase \in {"hooks", "batch"} /\ outcome = "running"
  BY <1>1, TurnUnfaulted
<1>4. /\ stop' \in Resources \cup {"none"} /\ stopping' \in BOOLEAN
      /\ first' \in Resources \cup {"none", "user", "failed"}
      /\ stop # "none" => stop' # "none"
  BY <1>1, LooksType
<1>5. ControlType'
  BY <1>1, <1>2, <1>4 DEF ControlType
<1>6. "budget" \in Errors' => stop' # "none"
  BY <1>1, <1>2, <1>3, <1>4 DEF Observed
<1>7. "cancelled" \in Errors' => cancel # "none"
  BY <1>1, <1>2, <1>3 DEF Observed
<1>8. phase # "ended" /\ phase' # "ended" /\ phase' # "stopped"
  BY <1>3
<1>9. Observed'
  BY <1>1, <1>3, <1>6, <1>7, <1>8, LooksObserved
<1>10. ReportedIsFirst'
  BY <1>3 DEF ReportedIsFirst
<1> QED BY <1>2, <1>5, <1>9, <1>10 DEF Control

\* A step of one actor in which a record is refused.
LEMMA FailControl ==
  ASSUME Control, NEW a \in Actors, Turn(a), NEW p \in Places,
         Moves(a, p, "fault"), FailPersistence, cancel \in {"none", "user", "budget"},
         UNCHANGED <<phase, late, outcome>>
  PROVE  Control'
<1>1. ControlType /\ Staged /\ Observed /\ ReportedIsFirst
  BY DEF Control
<1>2. /\ Staged' /\ pc' \in [Actors -> Places] /\ error' \in [Actors -> Kinds]
      /\ Errors' \subseteq Errors \cup {"fault"}
  BY <1>1, MovesStaged DEF Kinds
<1>3. ~Faulted /\ phase \in {"hooks", "batch"} /\ outcome = "running"
  BY <1>1, TurnUnfaulted
<1>4. /\ failure' = TRUE /\ cancel' = (IF cancel = "none" THEN "persistence" ELSE cancel)
      /\ first' = (IF first = "none" THEN "failed" ELSE first) /\ UNCHANGED <<stop, stopping>>
  BY DEF FailPersistence
<1>5. ControlType'
  BY <1>1, <1>2, <1>4 DEF ControlType, Cancels
<1>6. Observed'
  BY <1>1, <1>2, <1>3, <1>4 DEF Observed, Resources
<1>7. ReportedIsFirst'
  BY <1>3 DEF ReportedIsFirst
<1> QED BY <1>2, <1>5, <1>6, <1>7 DEF Control

\* A task that times out: a hook's failure may be the first condition.
LEMMA TimeoutControl ==
  ASSUME Control, NEW a \in Actors, Turn(a), NEW p \in Places,
         Moves(a, p, "fault"), cancel = "none",
         first' = IF first = "none" /\ error' # error THEN "failed" ELSE first,
         error' # error => a \in Hooks,
         UNCHANGED <<phase, stop, stopping, cancel, failure, late, outcome>>
  PROVE  Control'
<1>1. ControlType /\ Staged /\ Observed /\ ReportedIsFirst
  BY DEF Control
<1>2. /\ Staged' /\ pc' \in [Actors -> Places] /\ error' \in [Actors -> Kinds]
      /\ Errors' \subseteq Errors \cup {"fault"}
  BY <1>1, MovesStaged DEF Kinds
<1>3. ~Faulted /\ phase \in {"hooks", "batch"} /\ outcome = "running"
  BY <1>1, TurnUnfaulted
<1>4. ControlType'
  BY <1>1, <1>2 DEF ControlType
<1>5. CASE error' = error \/ first # "none"
  <2>1. first' = first
    BY <1>5
  <2>2. first = "none" => error' = error
    BY <1>5
  <2>3. Observed'
    BY <1>1, <1>2, <1>3, <2>1 DEF Observed
  <2> QED BY <1>2, <1>3, <1>4, <2>3 DEF Control, ReportedIsFirst
<1>6. CASE error' # error /\ first = "none"
  <2>1. first' = "failed" /\ stop = "none" /\ a \in Hooks /\ phase = "hooks"
    BY <1>1, <1>3, <1>6, Finite DEF Observed, Turn
  <2>2. \A b \in Actors : error[b] = "none"
    BY <1>1, <2>1, Finite DEF Turn, Staged, Actors
  <2>3. Errors' = {"fault"}
    <3>1. error \in [Actors -> Kinds] /\ error' = [error EXCEPT ![a] = "fault"]
      BY <1>1, <1>6 DEF ControlType, Moves
    <3>2. error'[a] = "fault" /\ \A b \in Actors \ {a} : error'[b] = "none"
      BY <2>2, <3>1
    <3> QED BY <3>2 DEF Errors
  <2>4. Faulted'
    BY <2>1, <2>3 DEF Faulted
  <2>5. Observed'
    BY <1>1, <2>1, <2>3, <2>4 DEF Observed, Resources
  <2> QED BY <1>2, <1>3, <1>4, <2>5 DEF Control, ReportedIsFirst
<1> QED BY <1>5, <1>6

-----------------------------------------------------------------------------
(* Every action keeps the invariant.                                       *)

\* What the limiter refuses ends the task, and only a hook may pass it on.
LEMMA RefuseMoves ==
  ASSUME NEW t, Refuse(t)
  PROVE  Moves(t, "done", "fault") /\ (error' # error => t \in Hooks)
BY DEF Refuse, Moves, Fails, Goto

\* A task that holds a permit, and one that does not.
LEMMA Permits ==
  ASSUME NEW t \in Tasks, NEW p,
         permits' = (IF t \in Holding /\ p \notin Holds THEN permits + 1 ELSE permits),
         t \in Holding \/ p \notin Holds
  PROVE  Balanced(t, p)
BY DEF Balanced

\* A hook starts.
LEMMA BeginHookGood ==
  ASSUME LimiterInv, NEW h \in Hooks, BeginHook(h)
  PROVE  LimiterInv'
<1>1. /\ Running("hooks") /\ pc[h] = "idle"
      /\ \A other \in Hooks : pc[other] \in {"idle", "done"} /\ error[other] = "none"
      /\ IF cancel # "none"
           THEN NotStopped /\ (Fails(h, "cancelled") \/ Refuse(h))
           ELSE /\ Check
                /\ IF Checked = "none" THEN Goto(h, "slot") /\ UNCHANGED error
                                       ELSE Refuse(h)
      /\ UNCHANGED <<phase, cancel, failure, late, outcome>>
      /\ UNCHANGED <<toolCalls, used, reserved, permits, lease, primary, overrun>>
  BY DEF BeginHook, meter
<1>2. h \in Tasks /\ h \in Actors /\ Turn(h)
  BY <1>1 DEF Tasks, Actors, Turn, Running, Rest
<1>3. \E p \in {"done", "slot"} : \E k \in {"cancelled", "fault"} :
         Moves(h, p, k) /\ (k = "cancelled" => cancel # "none")
  <2>1. CASE cancel # "none" /\ Fails(h, "cancelled")
    BY <2>1 DEF Fails, Goto, Moves
  <2>2. CASE Refuse(h)
    BY <2>2, RefuseMoves
  <2>3. CASE Goto(h, "slot") /\ UNCHANGED error
    BY <2>3 DEF Goto, Moves
  <2> QED BY <1>1, <2>1, <2>2, <2>3
<1>4. PICK p \in {"done", "slot"}, k \in {"cancelled", "fault"} :
         Moves(h, p, k) /\ (k = "cancelled" => cancel # "none")
  BY <1>3
<1>5. Looks
  BY <1>1, CheckEffect DEF NotStopped, Looks
<1>6. Control'
  <2>1. p \in Places /\ k \in Kinds /\ k # "budget"
    BY DEF Places, Active, Rest, Kinds
  <2> QED BY <1>1, <1>2, <1>4, <1>5, <2>1, TurnControl DEF LimiterInv
<1>7. Money'
  <2>1. h \notin Holding /\ p \notin Holds
    BY <1>1 DEF Holding, Holds
  <2>2. Balanced(h, p)
    BY <1>1, <2>1 DEF Balanced
  <2>3. lease[h].status = "none"
    BY <1>1, <1>2 DEF LimiterInv, Money, Leased
  <2>4. Fits(lease[h], p)
    BY <2>3 DEF Fits
  <2>5. pc \in [Actors -> Places] /\ toolCalls \in Nat /\ Money
    BY DEF LimiterInv, Control, ControlType, Money, MeterType
  <2>6. pc' = [pc EXCEPT ![h] = p]
    BY <1>4 DEF Moves
  <2> QED BY <1>1, <1>2, <2>2, <2>4, <2>5, <2>6, MoveMoney
<1> QED BY <1>6, <1>7 DEF LimiterInv

\* A call is admitted, or told why not.
LEMMA AdmitGood ==
  ASSUME LimiterInv, NEW c \in Calls, Admit(c)
  PROVE  LimiterInv'
<1>1. /\ phase = "batch" /\ pc[c] = "idle" /\ toolCalls \in Nat
      /\ UNCHANGED <<phase, cancel, failure, late, used, reserved, permits, lease,
                     outcome, primary, overrun>>
  BY DEF Admit, Running, LimiterInv, Money, MeterType
<1>2. c \in Actors /\ Turn(c) /\ toolCalls' \in Nat
  BY <1>1 DEF Actors, Turn, Admit
<1>3. \E p \in {"done", "invoke", "slot"} : \E k \in Kinds :
        /\ Moves(c, p, k) /\ Looks
        /\ p = "invoke" => c \in Plain
        /\ k = "budget" => stop' # "none"
        /\ k = "cancelled" => cancel # "none"
  <2>1. CASE cancel # "none"
    <3>1. NotStopped /\ Fails(c, "cancelled")
      BY <2>1 DEF Admit
    <3>2. Moves(c, "done", "cancelled") /\ Looks /\ "cancelled" \in Kinds
      BY <3>1 DEF Fails, Goto, Moves, NotStopped, Looks, Kinds
    <3> QED BY <2>1, <3>2
  <2>2. CASE cancel = "none" /\ Checked # "none"
    <3>1. Check /\ Fails(c, Checked)
      BY <2>2 DEF Admit
    <3>2. Moves(c, "done", Checked)
      BY <3>1 DEF Fails, Goto, Moves
    <3>3. Looks /\ Checked \in Kinds /\ (Checked = "budget" => stop' # "none")
          /\ (Checked = "cancelled" => cancel # "none")
      BY <3>1, CheckEffect DEF Kinds
    <3> QED BY <3>2, <3>3
  <2>3. CASE cancel = "none" /\ Checked = "none" /\ toolCalls >= MaxToolCalls
    <3>1. Stop("tool_calls") /\ Fails(c, "budget")
      BY <2>3 DEF Admit
    <3>2. Moves(c, "done", "budget") /\ "budget" \in Kinds /\ "tool_calls" \in Resources
      BY <3>1 DEF Fails, Goto, Moves, Kinds, Resources
    <3>3. Looks /\ stop' # "none"
      BY <2>3, <3>1, <3>2, StopEffect
    <3> QED BY <3>2, <3>3
  <2>4. CASE cancel = "none" /\ Checked = "none" /\ ~(toolCalls >= MaxToolCalls)
    <3>1. NotStopped /\ UNCHANGED error /\ Goto(c, IF c \in Plain THEN "invoke" ELSE "slot")
      BY <2>4 DEF Admit
    <3>2. Looks /\ "none" \in Kinds
      BY <3>1 DEF NotStopped, Looks, Kinds
    <3>3. CASE c \in Plain
      <4>1. Moves(c, "invoke", "none")
        BY <3>1, <3>3 DEF Goto, Moves
      <4> QED BY <3>2, <3>3, <4>1
    <3>4. CASE c \notin Plain
      <4>1. Moves(c, "slot", "none")
        BY <3>1, <3>4 DEF Goto, Moves
      <4> QED BY <3>2, <4>1
    <3> QED BY <3>3, <3>4
  <2> QED BY <2>1, <2>2, <2>3, <2>4
<1>4. PICK p \in {"done", "invoke", "slot"}, k \in Kinds :
        /\ Moves(c, p, k) /\ Looks
        /\ p = "invoke" => c \in Plain
        /\ k = "budget" => stop' # "none"
        /\ k = "cancelled" => cancel # "none"
  BY <1>3
<1>5. Control'
  <2>1. p \in Places
    BY DEF Places, Active, Rest
  <2> QED BY <1>1, <1>2, <1>4, <2>1, TurnControl DEF LimiterInv
<1>6. /\ Money /\ pc \in [Actors -> Places] /\ pc' = [pc EXCEPT ![c] = p]
  BY <1>4 DEF LimiterInv, Control, ControlType, Moves
<1>7. Money'
  <2>1. CASE c \in Plain
    <3>1. \A t \in Tasks : pc'[t] = pc[t]
      BY <1>6, <2>1, Finite
    <3> QED BY <1>1, <1>2, <1>6, <3>1, SameMoney
  <2>2. CASE c \notin Plain
    <3>1. c \in Tasks /\ p \in {"done", "slot"}
      BY <1>4, <2>2 DEF Calls, Tasks
    <3>2. Balanced(c, p)
      BY <1>1, <3>1 DEF Balanced, Holding, Holds
    <3>3. Fits(lease[c], p)
      BY <1>1, <1>6, <3>1 DEF Fits, Money, Leased
    <3> QED BY <1>1, <1>2, <1>6, <3>1, <3>2, <3>3, MoveMoney
  <2> QED BY <2>1, <2>2
<1> QED BY <1>5, <1>7 DEF LimiterInv

\* An ordinary tool ends.
LEMMA PlainEndsGood ==
  ASSUME LimiterInv, NEW c \in Calls, PlainEnds(c)
  PROVE  LimiterInv'
<1>1. /\ phase = "batch" /\ c \in Plain
      /\ UNCHANGED <<phase, stop, stopping, cancel, failure, late, outcome, first>>
      /\ UNCHANGED <<toolCalls, used, reserved, permits, lease, primary, overrun>>
  BY DEF PlainEnds, Running, meter
<1>2. c \in Actors /\ Turn(c) /\ Looks
  BY <1>1 DEF Actors, Turn, Looks
<1>3. \E k \in {"cancelled", "none"} : Moves(c, "done", k) /\ (k = "cancelled" => cancel # "none")
  BY DEF PlainEnds, Fails, Goto, Moves
<1>4. PICK k \in {"cancelled", "none"} : Moves(c, "done", k) /\ (k = "cancelled" => cancel # "none")
  BY <1>3
<1>5. Control'
  <2>1. "done" \in Places /\ k \in Kinds /\ k # "budget"
    BY DEF Places, Rest, Kinds
  <2> QED BY <1>1, <1>2, <1>4, <2>1, TurnControl DEF LimiterInv
<1>6. /\ Money /\ pc \in [Actors -> Places] /\ pc' = [pc EXCEPT ![c] = "done"] /\ toolCalls \in Nat
  BY <1>4 DEF LimiterInv, Control, ControlType, Moves, Money, MeterType
<1>7. \A t \in Tasks : pc'[t] = pc[t]
  BY <1>1, <1>6, Finite
<1>8. Money'
  BY <1>1, <1>6, <1>7, SameMoney
<1> QED BY <1>5, <1>8 DEF LimiterInv

\* A task gets a permit and a lease, or neither.
LEMMA ReserveGood ==
  ASSUME LimiterInv, NEW t \in Tasks, NEW amount \in Amounts, ReserveAuxiliary(t, amount)
  PROVE  LimiterInv'
<1>1. /\ pc[t] = "slot" /\ permits > 0
      /\ UNCHANGED <<phase, cancel, failure, late, toolCalls, used, outcome, primary, overrun>>
  BY DEF ReserveAuxiliary
<1>2. t \in Actors /\ Turn(t)
  BY <1>1, Finite, ActiveTurn DEF LimiterInv, Control, Active
<1>3. /\ Money /\ pc \in [Actors -> Places] /\ toolCalls \in Nat /\ permits \in Nat
      /\ lease \in [Tasks -> Leases] /\ used \in Nat /\ reserved \in Nat /\ overrun \in Nat
  BY DEF LimiterInv, Control, ControlType, Money, MeterType
<1>4. lease[t].status = "none" /\ t \notin Holding
  BY <1>1, <1>3 DEF Money, Leased, Holding
<1>5. CASE Looks /\ Refuse(t) /\ UNCHANGED <<reserved, lease, permits>>
  <2>1. Moves(t, "done", "fault")
    BY <1>5, RefuseMoves
  <2>2. Control'
    <3>1. "done" \in Places /\ "fault" \in Kinds
      BY DEF Places, Rest, Kinds
    <3> QED BY <1>1, <1>2, <1>5, <2>1, <3>1, TurnControl DEF LimiterInv
  <2>3. Balanced(t, "done") /\ Fits(lease[t], "done")
    BY <1>4, <1>5 DEF Balanced, Holds, Fits
  <2>4. pc' = [pc EXCEPT ![t] = "done"]
    BY <2>1 DEF Moves
  <2>5. Money'
    BY <1>1, <1>3, <1>5, <2>3, <2>4, MoveMoney
  <2> QED BY <2>2, <2>5 DEF LimiterInv
<1>6. CASE /\ amount <= Remaining /\ NotStopped /\ Lease(t, amount)
           /\ Goto(t, "intent") /\ UNCHANGED error
  <2>1. Moves(t, "intent", "none") /\ Looks /\ pc' = [pc EXCEPT ![t] = "intent"]
    BY <1>6 DEF Moves, Goto, NotStopped, Looks
  <2>2. Control'
    <3>1. "intent" \in Places /\ "none" \in Kinds
      BY DEF Places, Active, Kinds
    <3> QED BY <1>1, <1>2, <2>1, <3>1, TurnControl DEF LimiterInv
  <2>3. amount \in Nat
    BY LimiterAssumption
  <2>4. /\ reserved' = reserved + amount /\ permits' = permits - 1
        /\ lease' = [lease EXCEPT ![t] = [status |-> "prepared", amount |-> amount,
                                          usage |-> Unreported]]
    BY <1>6 DEF Lease
  <2>5. lease'[t] = [status |-> "prepared", amount |-> amount, usage |-> Unreported]
        /\ \A u \in Tasks \ {t} : lease'[u] = lease[u]
    BY <1>3, <2>4
  <2>6. lease'[t] \in Leases /\ lease' \in [Tasks -> Leases]
    BY <1>3, <2>3, <2>4, <2>5 DEF Leases, Statuses
  <2>7. Parts(t)
    BY <1>1, <1>3, <2>3, <2>4, <2>5, <2>6 DEF Parts
  <2>8. Balanced(t, "intent") /\ Fits(lease'[t], "intent")
    BY <1>1, <1>4, <2>4, <2>5 DEF Balanced, Holds, Fits
  <2>9. permits' \in Nat /\ permits' + Cardinality(Holding') = Slots
    BY <1>3, <2>1, <2>8, PermitsBalance DEF Money, Books
  <2>10. Leased'
    BY <1>3, <2>1, <2>5, <2>8, FitsLeased DEF Money
  <2>11. /\ lease'[t].status = "prepared" /\ lease'[t].amount <= Remaining
         /\ reserved' = reserved + lease'[t].amount
    BY <1>6, <2>4, <2>5
  <2>12. Money'
    BY <1>1, <1>3, <1>4, <2>7, <2>9, <2>10, <2>11, GrantMoney
  <2> QED BY <2>2, <2>12 DEF LimiterInv
<1>7. CASE Checked # "none"
  <2>1. Check /\ Refuse(t) /\ UNCHANGED <<reserved, lease, permits>>
    BY <1>7 DEF ReserveAuxiliary
  <2> QED BY <1>5, <2>1, CheckEffect
<1>8. CASE Checked = "none" /\ Cardinality(Attempts) >= MaxAuxiliary
  <2>1. Stop("auxiliary_calls") /\ Refuse(t) /\ UNCHANGED <<reserved, lease, permits>>
    BY <1>8 DEF ReserveAuxiliary
  <2>2. Looks
    BY <2>1, StopEffect DEF Resources
  <2> QED BY <1>5, <2>1, <2>2
<1>9. CASE Checked = "none" /\ ~(Cardinality(Attempts) >= MaxAuxiliary) /\ amount > Remaining
  <2>1. Stop("tokens") /\ Refuse(t) /\ UNCHANGED <<reserved, lease, permits>>
    BY <1>9 DEF ReserveAuxiliary
  <2>2. Looks
    BY <2>1, StopEffect DEF Resources
  <2> QED BY <1>5, <2>1, <2>2
<1>10. CASE Checked = "none" /\ ~(Cardinality(Attempts) >= MaxAuxiliary) /\ ~(amount > Remaining)
  <2>1. NotStopped /\ Lease(t, amount) /\ Goto(t, "intent") /\ UNCHANGED error
    BY <1>10 DEF ReserveAuxiliary
  <2>2. amount \in Nat /\ Remaining \in Nat
    BY <1>3, LimiterAssumption DEF Remaining, Less
  <2> QED BY <1>6, <1>10, <2>1, <2>2
<1> QED BY <1>7, <1>8, <1>9, <1>10

\* A task that is given up settles its lease and gives its permit back.
LEMMA GiveUpMoney ==
  ASSUME LimiterInv, NEW t \in Tasks, Finish(t, "interrupted"),
         pc' = [pc EXCEPT ![t] = "done"],
         permits' = IF t \in Holding THEN permits + 1 ELSE permits,
         UNCHANGED <<toolCalls, primary>>
  PROVE  Money'
<1>1. Money /\ pc \in [Actors -> Places]
  BY DEF LimiterInv, Control, ControlType
<1>2. Balanced(t, "done")
  BY DEF Balanced, Holds
<1> QED BY <1>1, <1>2, FinishMoney

\* The journal has the intent: the request starts, or the hook is refused.
LEMMA IntentStoredGood ==
  ASSUME LimiterInv, NEW t \in Tasks, IntentStored(t)
  PROVE  LimiterInv'
<1>1. /\ pc[t] = "intent"
      /\ UNCHANGED <<phase, cancel, failure, late, toolCalls, outcome, primary>>
  BY DEF IntentStored
<1>2. t \in Actors /\ Turn(t) /\ t \in Holding
  BY <1>1, Finite, ActiveTurn DEF LimiterInv, Control, Active, Holding
<1>3. /\ Money /\ pc \in [Actors -> Places] /\ permits \in Nat
      /\ lease \in [Tasks -> Leases] /\ lease[t] \in Leases
  BY DEF LimiterInv, Control, ControlType, Money, MeterType
<1>4. lease[t].status = "prepared" /\ t \in Live
  BY <1>1, <1>3 DEF Money, Leased, Live
<1>5. CASE t \in Hooks /\ Checked # "none"
  <2>1. Check /\ Finish(t, "interrupted") /\ Refuse(t) /\ permits' = permits + 1
    BY <1>5 DEF IntentStored
  <2>2. Looks /\ Moves(t, "done", "fault")
    BY <2>1, CheckEffect, RefuseMoves
  <2>3. Control'
    <3>1. "done" \in Places /\ "fault" \in Kinds
      BY DEF Places, Rest, Kinds
    <3> QED BY <1>1, <1>2, <2>2, <3>1, TurnControl DEF LimiterInv
  <2>4. pc' = [pc EXCEPT ![t] = "done"]
    BY <2>2 DEF Moves
  <2>5. Money'
    BY <1>1, <1>2, <2>1, <2>4, GiveUpMoney
  <2> QED BY <2>3, <2>5 DEF LimiterInv
<1>6. CASE ~(t \in Hooks /\ Checked # "none")
  <2>1. /\ NotStopped /\ Goto(t, "invoke")
        /\ lease' = [lease EXCEPT ![t].status = "running"]
        /\ UNCHANGED <<error, used, reserved, overrun, permits>>
    BY <1>6 DEF IntentStored
  <2>2. Moves(t, "invoke", "none") /\ Looks /\ pc' = [pc EXCEPT ![t] = "invoke"]
    BY <2>1 DEF Moves, Goto, NotStopped, Looks
  <2>3. Control'
    <3>1. "invoke" \in Places /\ "none" \in Kinds
      BY DEF Places, Active, Kinds
    <3> QED BY <1>1, <1>2, <2>2, <3>1, TurnControl DEF LimiterInv
  <2>4. lease'[t] = [lease[t] EXCEPT !.status = "running"] /\ \A u \in Tasks \ {t} : lease'[u] = lease[u]
    BY <1>3, <2>1
  <2>5. /\ lease'[t] \in Leases /\ lease'[t].status = "running"
        /\ lease'[t].amount = lease[t].amount
    BY <1>3, <2>4 DEF Leases, Statuses
  <2>6. lease' \in [Tasks -> Leases]
    BY <1>3, <2>1, <2>5
  <2>7. Balanced(t, "invoke") /\ Fits(lease'[t], "invoke")
    BY <1>2, <2>1, <2>5 DEF Balanced, Holds, Fits
  <2>8. permits' \in Nat /\ permits' + Cardinality(Holding') = Slots
    BY <1>3, <2>2, <2>7, PermitsBalance DEF Money, Books
  <2>9. Leased'
    BY <1>3, <2>2, <2>4, <2>7, FitsLeased DEF Money
  <2>10. Money'
    BY <1>1, <1>3, <1>4, <2>1, <2>4, <2>5, <2>6, <2>8, <2>9, LiveMoney
  <2> QED BY <2>3, <2>10 DEF LimiterInv
<1> QED BY <1>5, <1>6

\* A record is refused, by the journal or because the hook is cancelled.
LEMMA RecordRefusedGood ==
  ASSUME LimiterInv, NEW t \in Tasks, RecordFails(t) \/ RecordCancelled(t)
  PROVE  LimiterInv'
<1>1. /\ pc[t] \in {"intent", "invoke", "receipt"} /\ cancel \in {"none", "user", "budget"}
      /\ FailPersistence /\ Finish(t, "interrupted") /\ permits' = permits + 1 /\ Refuse(t)
      /\ UNCHANGED <<phase, late, toolCalls, outcome, primary>>
  BY DEF RecordFails, RecordCancelled
<1>2. t \in Actors /\ Turn(t) /\ t \in Holding
  BY <1>1, Finite, ActiveTurn DEF LimiterInv, Control, Active, Holding
<1>3. Moves(t, "done", "fault") /\ pc' = [pc EXCEPT ![t] = "done"]
  BY <1>1, RefuseMoves DEF Moves
<1>4. Control'
  <2>1. "done" \in Places
    BY DEF Places, Rest
  <2> QED BY <1>1, <1>2, <1>3, <2>1, FailControl DEF LimiterInv
<1>5. Money'
  BY <1>1, <1>2, <1>3, GiveUpMoney
<1> QED BY <1>4, <1>5 DEF LimiterInv

\* The hook's request notices the cancellation before it starts.
LEMMA ScopeExpiredGood ==
  ASSUME LimiterInv, NEW t \in Tasks, ScopeExpired(t)
  PROVE  LimiterInv'
<1>1. /\ pc[t] \in Active
      /\ NotStopped /\ Finish(t, "interrupted") /\ Refuse(t)
      /\ permits' = IF t \in Holding THEN permits + 1 ELSE permits
      /\ UNCHANGED <<phase, cancel, failure, late, outcome>>
      /\ UNCHANGED <<toolCalls, primary>>
  BY DEF ScopeExpired, Active
<1>2. t \in Actors /\ Turn(t)
  BY <1>1, Finite, ActiveTurn DEF LimiterInv, Control
<1>3. Moves(t, "done", "fault") /\ pc' = [pc EXCEPT ![t] = "done"] /\ Looks
  BY <1>1, RefuseMoves DEF Moves, NotStopped, Looks
<1>4. Control'
  <2>1. "done" \in Places /\ "fault" \in Kinds
    BY DEF Places, Rest, Kinds
  <2> QED BY <1>1, <1>2, <1>3, <2>1, TurnControl DEF LimiterInv
<1>5. Money'
  BY <1>1, <1>3, GiveUpMoney
<1> QED BY <1>4, <1>5 DEF LimiterInv

\* The service measures its usage.
LEMMA ReportGood ==
  ASSUME LimiterInv, NEW t \in Tasks, NEW total \in Reports, Report(t, total)
  PROVE  LimiterInv'
<1>1. /\ pc[t] = "invoke" /\ lease' = [lease EXCEPT ![t].usage = total]
      /\ UNCHANGED <<phase, pc, error, stop, stopping, cancel, failure, late,
                     outcome, first>>
      /\ UNCHANGED <<toolCalls, used, reserved, permits, primary, overrun>>
  BY DEF Report
<1>2. /\ Money /\ pc \in [Actors -> Places] /\ permits \in Nat
      /\ lease \in [Tasks -> Leases] /\ lease[t] \in Leases
      /\ permits + Cardinality(Holding) = Slots
  BY DEF LimiterInv, Control, ControlType, Money, MeterType, Books
<1>3. lease[t].status = "running" /\ t \in Live /\ total \in Nat
  BY <1>1, <1>2, LimiterAssumption DEF Money, Leased, Live
<1>4. lease'[t] = [lease[t] EXCEPT !.usage = total] /\ \A u \in Tasks \ {t} : lease'[u] = lease[u]
  BY <1>1, <1>2
<1>5. /\ lease'[t] \in Leases /\ lease'[t].status = "running"
      /\ lease'[t].amount = lease[t].amount
  BY <1>2, <1>3, <1>4 DEF Leases
<1>6. lease' \in [Tasks -> Leases]
  BY <1>1, <1>2, <1>5
<1>7. Holding' = Holding
  BY <1>1 DEF Holding
<1>8. Leased'
  <2>1. \A u \in Tasks : lease'[u].status = lease[u].status
    BY <1>3, <1>4, <1>5
  <2> QED BY <1>1, <1>2, <2>1 DEF Money, Leased
<1>9. Money'
  BY <1>1, <1>2, <1>3, <1>4, <1>5, <1>6, <1>7, <1>8, LiveMoney
<1>10. Control'
  BY <1>1 DEF LimiterInv, Control, ControlType, Staged, Observed, ReportedIsFirst, Faulted, Errors
<1> QED BY <1>9, <1>10 DEF LimiterInv

\* A step of a task that only moves on.
LEMMA GoOnControl ==
  ASSUME LimiterInv, NEW t \in Tasks, Turn(t), NEW p \in Places, Goto(t, p), UNCHANGED error,
         Looks, UNCHANGED <<phase, cancel, failure, late, outcome>>
  PROVE  Control'
<1>1. Moves(t, p, "none") /\ t \in Actors /\ "none" \in Kinds
  BY Finite DEF Goto, Moves, Kinds
<1> QED BY <1>1, TurnControl DEF LimiterInv

\* The service answers.
LEMMA ProviderAnswersGood ==
  ASSUME LimiterInv, NEW t \in Tasks, NEW status \in {"completed", "error"},
         ProviderAnswers(t, status)
  PROVE  LimiterInv'
<1> DEFINE p == IF status = "completed" /\ t \in Auxiliary THEN "deliver" ELSE "receipt"
<1>1. /\ pc[t] = "invoke" /\ Finish(t, status) /\ Goto(t, p) /\ UNCHANGED error
      /\ UNCHANGED <<phase, cancel, failure, late, outcome>>
      /\ UNCHANGED <<toolCalls, permits, primary>>
      /\ NotStopped \/ CheckAt(used')
  BY DEF ProviderAnswers
<1>2. p \in {"deliver", "receipt", "done"} /\ p \in Holds /\ p \in Places
  BY DEF Holds, Places, Active
<1> HIDE DEF p
<1>3. t \in Actors /\ Turn(t) /\ t \in Holding
  BY <1>1, Finite, ActiveTurn DEF LimiterInv, Control, Active, Holding
<1>4. Money /\ pc \in [Actors -> Places] /\ pc' = [pc EXCEPT ![t] = p]
  BY <1>1 DEF LimiterInv, Control, ControlType, Goto
<1>5. Balanced(t, p)
  BY <1>1, <1>2, <1>3 DEF Balanced
<1>6. Money'
  BY <1>1, <1>2, <1>4, <1>5, FinishMoney
<1>7. Control'
  <2>1. Looks
    BY <1>1, CheckAtLooks DEF NotStopped, Looks
  <2> QED BY <1>1, <1>2, <1>3, <2>1, GoOnControl
<1> QED BY <1>6, <1>7 DEF LimiterInv

\* The answer is delivered to the tool.
LEMMA DeliveredGood ==
  ASSUME LimiterInv, NEW t \in Tasks, Delivered(t)
  PROVE  LimiterInv'
<1>1. /\ pc[t] = "deliver" /\ Goto(t, "receipt") /\ UNCHANGED error
      /\ UNCHANGED <<phase, stop, stopping, cancel, failure, late, outcome, first>>
      /\ UNCHANGED <<toolCalls, used, reserved, permits, lease, primary, overrun>>
  BY DEF Delivered, meter
<1>2. t \in Actors /\ Turn(t) /\ t \in Holding
  BY <1>1, Finite, ActiveTurn DEF LimiterInv, Control, Active, Holding
<1>3. /\ Money /\ pc \in [Actors -> Places] /\ pc' = [pc EXCEPT ![t] = "receipt"]
      /\ toolCalls \in Nat
  BY <1>1 DEF LimiterInv, Control, ControlType, Goto, Money, MeterType
<1>4. Balanced(t, "receipt") /\ Fits(lease[t], "receipt")
  BY <1>1, <1>2, <1>3 DEF Balanced, Holds, Fits, Money, Leased
<1>5. Money'
  BY <1>1, <1>3, <1>4, MoveMoney
<1>6. Control'
  <2>1. Looks /\ "receipt" \in Places
    BY <1>1 DEF Looks, Places, Active
  <2> QED BY <1>1, <1>2, <2>1, GoOnControl
<1> QED BY <1>5, <1>6 DEF LimiterInv

\* The journal has the receipt: the permit is free again.
LEMMA ReceiptStoredGood ==
  ASSUME LimiterInv, NEW t \in Tasks, ReceiptStored(t)
  PROVE  LimiterInv'
<1>1. /\ pc[t] = "receipt" /\ permits' = permits + 1 /\ Refuse(t)
      /\ UNCHANGED <<phase, stop, stopping, first, cancel, failure, late, outcome>>
      /\ UNCHANGED <<toolCalls, used, reserved, lease, primary, overrun>>
  BY DEF ReceiptStored
<1>2. t \in Actors /\ Turn(t) /\ t \in Holding
  BY <1>1, Finite, ActiveTurn DEF LimiterInv, Control, Active, Holding
<1>3. Looks /\ Moves(t, "done", "fault")
  BY <1>1, RefuseMoves DEF Looks
<1>4. Control'
  <2>1. "done" \in Places /\ "fault" \in Kinds
    BY DEF Places, Rest, Kinds
  <2> QED BY <1>1, <1>2, <1>3, <2>1, TurnControl DEF LimiterInv
<1>5. /\ Money /\ pc \in [Actors -> Places] /\ pc' = [pc EXCEPT ![t] = "done"]
      /\ toolCalls \in Nat
  BY <1>3 DEF LimiterInv, Control, ControlType, Moves, Money, MeterType
<1>6. Balanced(t, "done") /\ Fits(lease[t], "done")
  BY <1>1, <1>2, <1>5 DEF Balanced, Holds, Fits, Money, Leased
<1>7. Money'
  BY <1>1, <1>5, <1>6, MoveMoney
<1> QED BY <1>4, <1>7 DEF LimiterInv

\* The cancellation drops a task.
LEMMA DroppedGood ==
  ASSUME LimiterInv, NEW t \in Tasks, Dropped(t)
  PROVE  LimiterInv'
<1>1. /\ cancel # "none" /\ pc[t] \in Active
      /\ Finish(t, "interrupted") /\ Fails(t, "cancelled")
      /\ permits' = IF t \in Holding THEN permits + 1 ELSE permits
      /\ UNCHANGED <<phase, stop, stopping, cancel, failure, late, outcome, first>>
      /\ UNCHANGED <<toolCalls, primary>>
  BY DEF Dropped, Active
<1>2. t \in Actors /\ Turn(t)
  BY <1>1, Finite, ActiveTurn DEF LimiterInv, Control
<1>3. Moves(t, "done", "cancelled") /\ pc' = [pc EXCEPT ![t] = "done"] /\ Looks
  BY <1>1 DEF Fails, Goto, Moves, Looks
<1>4. Control'
  <2>1. "done" \in Places /\ "cancelled" \in Kinds
    BY DEF Places, Rest, Kinds
  <2> QED BY <1>1, <1>2, <1>3, <2>1, TurnControl DEF LimiterInv
<1>5. Money'
  BY <1>1, <1>3, GiveUpMoney
<1> QED BY <1>4, <1>5 DEF LimiterInv

\* A task runs into its timeout.
LEMMA TimesOutGood ==
  ASSUME LimiterInv, NEW t \in Tasks, TimesOut(t)
  PROVE  LimiterInv'
<1>1. /\ cancel = "none" /\ pc[t] \in Active
      /\ Finish(t, "interrupted") /\ Refuse(t)
      /\ permits' = IF t \in Holding THEN permits + 1 ELSE permits
      /\ first' = IF first = "none" /\ error' # error THEN "failed" ELSE first
      /\ UNCHANGED <<phase, stop, stopping, cancel, failure, late, outcome>>
      /\ UNCHANGED <<toolCalls, primary>>
  BY DEF TimesOut, TimedPlaces, Active
<1>2. t \in Actors /\ Turn(t)
  BY <1>1, Finite, ActiveTurn DEF LimiterInv, Control
<1>3. Moves(t, "done", "fault") /\ pc' = [pc EXCEPT ![t] = "done"]
      /\ (error' # error => t \in Hooks)
  BY <1>1, RefuseMoves DEF Moves
<1>4. Control'
  <2>1. "done" \in Places
    BY DEF Places, Rest
  <2> QED BY <1>1, <1>2, <1>3, <2>1, TimeoutControl DEF LimiterInv
<1>5. Money'
  BY <1>1, <1>3, GiveUpMoney
<1> QED BY <1>4, <1>5 DEF LimiterInv

\* The host cancels, the budget's cancellation follows it, or time passes.
LEMMA OutsideGood ==
  ASSUME LimiterInv, HostCancel \/ Elapse \/ StopCancels
  PROVE  LimiterInv'
<1>1. /\ UNCHANGED <<phase, pc, error, stop, failure, outcome>>
      /\ UNCHANGED <<toolCalls, used, reserved, permits, lease, primary, overrun>>
  BY DEF HostCancel, Elapse, StopCancels, meter
<1>2. ControlType /\ Staged /\ Observed /\ ReportedIsFirst /\ Money /\ toolCalls \in Nat
  BY DEF LimiterInv, Control, Money, MeterType
<1>3. Staged' /\ Errors' = Errors
  BY <1>1, <1>2 DEF Staged, Errors
<1>4. Money'
  BY <1>1, <1>2, SameMoney
<1>5. CASE HostCancel
  <2>1. /\ cancel = "none" /\ phase # "ended" /\ cancel' = "user"
        /\ first' = (IF first = "none" THEN "user" ELSE first) /\ UNCHANGED <<stopping, late>>
    BY <1>5 DEF HostCancel
  <2>2. ControlType'
    BY <1>1, <1>2, <2>1 DEF ControlType, Cancels
  <2>3. Faulted => Faulted'
    BY <1>1, <1>3, <2>1 DEF Faulted
  <2>4. Observed'
    BY <1>1, <1>2, <1>3, <2>1, <2>3 DEF Observed, Resources
  <2>5. ReportedIsFirst'
    BY <1>1, <1>2, <2>1 DEF ReportedIsFirst, Staged
  <2> QED BY <1>3, <1>4, <2>2, <2>4, <2>5 DEF LimiterInv, Control
<1>6. CASE Elapse
  BY <1>1, <1>2, <1>3, <1>4, <1>6
     DEF Elapse, LimiterInv, Control, ControlType, Observed, ReportedIsFirst, Faulted
<1>7. CASE StopCancels
  <2>1. /\ stopping /\ stopping' = FALSE
        /\ cancel' = (IF cancel = "none" THEN "budget" ELSE cancel) /\ UNCHANGED <<late, first>>
    BY <1>7 DEF StopCancels
  <2>2. stop # "none" /\ Faulted' = Faulted
    BY <1>1, <1>2, <1>3, <2>1 DEF Observed, Faulted
  <2>3. ControlType'
    BY <1>1, <1>2, <2>1 DEF ControlType, Cancels
  <2>4. Observed'
    BY <1>1, <1>2, <1>3, <2>1, <2>2 DEF Observed
  <2>5. ReportedIsFirst'
    BY <1>1, <1>2, <2>1 DEF ReportedIsFirst
  <2> QED BY <1>3, <1>4, <2>3, <2>4, <2>5 DEF LimiterInv, Control
<1> QED BY <1>5, <1>6, <1>7

\* The run as a whole goes on to a stage in which no actor is on its way.
LEMMA StageControl ==
  ASSUME Control, ~Faulted, phase # "ended", Looks,
         UNCHANGED <<pc, error, cancel, failure, late, outcome>>,
         \/ UNCHANGED phase
         \/ /\ phase' \in {"model", "stopped", "batch"}
            /\ \A a \in Actors : pc[a] \in Rest /\ error[a] = "none",
         phase' = "stopped" => stop' # "none" \/ cancel # "none"
  PROVE  Control'
<1>1. ControlType /\ Staged /\ Observed /\ ReportedIsFirst
  BY DEF Control
<1>2. /\ stop' \in Resources \cup {"none"} /\ stopping' \in BOOLEAN
      /\ first' \in Resources \cup {"none", "user", "failed"}
      /\ stop # "none" => stop' # "none"
  BY <1>1, LooksType
<1>3. ControlType'
  BY <1>1, <1>2 DEF ControlType, Phases
<1>4. outcome = "running" /\ phase' # "ended"
  BY <1>1 DEF Staged
<1>5. Staged'
  <2>1. CASE UNCHANGED phase
    BY <1>1, <2>1 DEF Staged
  <2>2. CASE /\ phase' \in {"model", "stopped", "batch"}
             /\ \A a \in Actors : pc[a] \in Rest /\ error[a] = "none"
    BY <1>4, <2>2 DEF Staged, Actors
  <2> QED BY <2>1, <2>2
<1>6. Errors' = Errors
  BY DEF Errors
<1>7. Observed'
  BY <1>1, <1>2, <1>4, <1>6, LooksObserved DEF Observed
<1>8. ReportedIsFirst'
  BY <1>4 DEF ReportedIsFirst
<1> QED BY <1>3, <1>5, <1>7, <1>8 DEF Control

\* The timer's branch, the end of the hooks, the response and its batch.
LEMMA StageGood ==
  ASSUME LimiterInv, TimerFires \/ HooksDone \/ ReserveTools
  PROVE  LimiterInv'
<1>1. /\ UNCHANGED <<pc, error, cancel, failure, late, outcome>>
      /\ UNCHANGED <<toolCalls, used, reserved, permits, lease, primary, overrun>>
  BY DEF TimerFires, HooksDone, ReserveTools, meter
<1>2. Control /\ ControlType /\ Staged /\ Observed /\ Money /\ toolCalls \in Nat
  BY DEF LimiterInv, Control, Money, MeterType
<1>3. Money'
  BY <1>1, <1>2, SameMoney
<1>4. CASE TimerFires
  <2>1. ~stopping /\ phase # "ended" /\ ~Over /\ Stop("duration") /\ UNCHANGED phase
    BY <1>4 DEF TimerFires
  <2>2. ~Faulted
    BY <2>1 DEF Over, Faulted
  <2>3. Looks
    BY <2>1, StopEffect DEF Resources
  <2>4. phase # "stopped"
    BY <2>1 DEF Over
  <2> QED BY <1>1, <1>2, <1>3, <2>1, <2>2, <2>3, <2>4, StageControl DEF LimiterInv
<1>5. CASE HooksDone
  <2>1. /\ phase = "hooks" /\ (\A h \in Hooks : pc[h] = "done" /\ error[h] = "none")
        /\ Check /\ phase' = IF Checked = "none" THEN "model" ELSE "stopped"
    BY <1>5 DEF HooksDone, Running, Finished
  <2>2. \A a \in Actors : pc[a] \in Rest /\ error[a] = "none"
    BY <1>2, <2>1 DEF Staged, Actors, Rest
  <2>3. ~Faulted
    BY <2>2 DEF Faulted, Errors
  <2>4. Looks /\ (phase' = "stopped" => stop' # "none" \/ cancel # "none")
    BY <1>2, <2>1, CheckEffect DEF Observed
  <2>5. phase # "ended" /\ phase' \in {"model", "stopped", "batch"}
    BY <2>1
  <2> QED BY <1>1, <1>2, <1>3, <2>2, <2>3, <2>4, <2>5, StageControl DEF LimiterInv
<1>6. CASE ReserveTools
  <2>1. phase = "model"
    BY <1>6 DEF ReserveTools, Running
  <2>2. \A a \in Actors : pc[a] \in Rest /\ error[a] = "none"
    BY <1>2, <2>1 DEF Staged, Actors
  <2>3. ~Faulted /\ phase # "ended"
    BY <2>1 DEF Faulted
  <2>4. /\ Looks /\ phase' \in {"stopped", "batch"}
        /\ (phase' = "stopped" => stop' # "none" \/ cancel # "none")
    <3>1. CASE Checked # "none"
      BY <1>2, <1>6, <3>1, CheckEffect DEF ReserveTools, Observed
    <3>2. CASE Checked = "none" /\ Cardinality(Calls) > Less(MaxToolCalls, toolCalls)
      <4>1. Stop("tool_calls") /\ phase' = "stopped"
        BY <1>6, <3>2 DEF ReserveTools
      <4> QED BY <4>1, StopEffect DEF Resources
    <3>3. CASE Checked = "none" /\ ~(Cardinality(Calls) > Less(MaxToolCalls, toolCalls))
      BY <1>6, <3>3 DEF ReserveTools, NotStopped, Looks
    <3> QED BY <3>1, <3>2, <3>3
  <2> QED BY <1>1, <1>2, <1>3, <2>2, <2>3, <2>4, StageControl DEF LimiterInv
<1> QED BY <1>4, <1>5, <1>6

\* The model answers.
LEMMA ModelAnswersGood ==
  ASSUME LimiterInv, NEW total \in Reports, ModelAnswers(total)
  PROVE  LimiterInv'
<1>1. /\ Account(total) /\ total \in Nat
      /\ UNCHANGED <<phase, pc, error, stop, stopping, cancel, failure, late, outcome, first>>
  BY LimiterAssumption DEF ModelAnswers
<1>2. Money'
  BY <1>1, AccountMoney DEF LimiterInv
<1>3. Control'
  BY <1>1 DEF LimiterInv, Control, ControlType, Staged, Observed, ReportedIsFirst, Faulted, Errors
<1> QED BY <1>2, <1>3 DEF LimiterInv

\* The run ends with the result that the first observed condition calls for.
LEMMA RunEndsGood ==
  ASSUME LimiterInv, RunEnds
  PROVE  LimiterInv'
<1>1. /\ Over /\ phase' = "ended"
      /\ UNCHANGED <<pc, error, cancel, failure, late>>
      /\ UNCHANGED <<toolCalls, used, reserved, permits, lease, primary, overrun>>
  BY DEF RunEnds, meter
<1>2. ControlType /\ Staged /\ Observed /\ ReportedIsFirst /\ Money /\ toolCalls \in Nat
  BY DEF LimiterInv, Control, Money, MeterType
<1>3. Money'
  BY <1>1, <1>2, SameMoney
<1>4. PICK result \in Results :
        /\ IF Preserved(result)
             THEN /\ UNCHANGED <<stop, stopping>>
                  /\ first' = IF first = "none" THEN "failed" ELSE first
             ELSE Check
        /\ outcome' = Classified(Final(result), stop')
  BY DEF RunEnds
<1>5. ~stopping /\ phase \in {"hooks", "stopped", "batch"}
  BY <1>1 DEF Over
<1>6. /\ stop # "none" => first = stop
      /\ first \in Resources => stop = first
      /\ cancel = "user" /\ stop = "none" => first = "user" \/ Faulted
      /\ cancel = "none" /\ stop = "none" => first = "none" \/ Faulted
      /\ phase = "stopped" => stop # "none" \/ cancel # "none"
      /\ "budget" \in Errors => stop # "none"
      /\ "cancelled" \in Errors => cancel # "none"
  BY <1>2, <1>5 DEF Observed
<1>7. /\ stop' \in Resources \cup {"none"} /\ stopping' \in BOOLEAN
      /\ first' \in Resources \cup {"none", "user", "failed"}
      /\ stop # "none" => stop' # "none"
      /\ stopping' => stop' # "none"
  <2>1. CASE Preserved(result)
    BY <1>2, <1>4, <1>5, <2>1 DEF ControlType
  <2>2. CASE ~Preserved(result)
    <3>1. Looks
      BY <1>4, <2>2, CheckEffect
    <3>2. stopping' => stop' # "none"
      BY <1>5, <3>1 DEF Looks, Resources
    <3> QED BY <1>2, <3>1, <3>2, LooksType
  <2> QED BY <2>1, <2>2
<1>8. outcome' \in {"completed", "cancelled", "budget", "failed"}
  BY <1>4 DEF Classified
<1>9. ControlType'
  BY <1>1, <1>2, <1>7, <1>8 DEF ControlType, Phases, Outcomes
<1>10. Staged'
  <2>1. \A c \in Calls : pc[c] \in Rest
    BY <1>1, <1>2 DEF Staged, Over, Finished, Rest
  <2>2. \A h \in Hooks : pc[h] \in Rest
    <3>1. CASE phase # "hooks"
      BY <1>2, <3>1 DEF Staged
    <3>2. CASE phase = "hooks"
      <4>1. PICK a \in Actors : error[a] # "none"
        BY <1>1, <3>2 DEF Over, Errors
      <4>2. a \in Hooks
        BY <1>2, <3>2, <4>1 DEF Staged, Actors
      <4> QED BY <1>2, <4>1, <4>2 DEF Staged
    <3> QED BY <3>1, <3>2
  <2>3. \A h, g \in Hooks : h # g => error'[h] = "none" \/ error'[g] = "none"
    BY <1>1, <1>2 DEF Staged
  <2> QED BY <1>1, <1>8, <2>1, <2>2, <2>3 DEF Staged
<1>11. Observed'
  BY <1>1, <1>2, <1>7 DEF Observed
<1>12. ReportedIsFirst'
  <2>1. CASE Preserved(result)
    <3>1. stop = "none" /\ result \in {"fault", "failed"} /\ stop' = "none"
          /\ first' = IF first = "none" THEN "failed" ELSE first
      BY <1>4, <2>1 DEF Preserved
    <3>2. Final(result) = result /\ outcome' = "failed"
      BY <1>4, <2>1, <3>1 DEF Final, Classified
    <3>3. first' \notin Resources
      BY <1>6, <3>1 DEF Resources
    <3> QED BY <3>2, <3>3 DEF ReportedIsFirst
  <2>2. CASE ~Preserved(result) /\ stop # "none"
    <3>1. Check
      BY <1>4, <2>2
    <3>2. UNCHANGED <<stop, stopping, first>>
      BY <2>2, <3>1, CheckEffect DEF Looks
    <3>3. outcome' = "budget" /\ first' \in Resources
      BY <1>2, <1>4, <1>6, <2>2, <3>2 DEF Classified, ControlType
    <3> QED BY <3>3 DEF ReportedIsFirst
  <2>3. CASE ~Preserved(result) /\ stop = "none" /\ cancel # "none"
    <3>1. Check
      BY <1>4, <2>3
    <3>2. UNCHANGED <<stop, stopping, first>> /\ first \notin Resources
      BY <1>6, <2>3, <3>1, CheckEffect DEF Looks, Resources
    <3>3. Checked = IF failure THEN "failed" ELSE "cancelled"
      BY <2>3 DEF Checked
    <3>4. outcome' = IF failure THEN "failed" ELSE "cancelled"
      BY <1>4, <2>3, <3>2, <3>3 DEF Final, Classified
    <3>5. ~failure => first = "user"
      <4>1. ~Faulted
        BY <2>3 DEF Faulted, Results, Preserved
      <4>2. ~failure => cancel = "user"
        BY <1>2, <2>3 DEF Observed, ControlType, Cancels
      <4> QED BY <1>6, <2>3, <4>1, <4>2
    <3> QED BY <3>2, <3>4, <3>5 DEF ReportedIsFirst
  <2>4. CASE ~Preserved(result) /\ stop = "none" /\ cancel = "none"
    <3>1. Check /\ ~failure
      BY <1>2, <1>4, <2>4 DEF Observed
    <3>2. ~Faulted
      BY <2>4 DEF Faulted, Results, Preserved
    <3>3. result = "none" /\ first = "none"
      <4>1. Results \subseteq {"none", "failed", "fault"}
        <5>1. error \in [Actors -> Kinds] /\ phase # "stopped"
          BY <1>2, <1>6, <2>4 DEF ControlType
        <5>2. Errors \subseteq {"failed", "fault"}
          BY <1>6, <2>4, <5>1 DEF Errors, Kinds
        <5> QED BY <5>1, <5>2 DEF Results
      <4> QED BY <1>6, <2>4, <3>2, <4>1 DEF Preserved
    <3>4. CASE Raises = "none"
      <4>1. Checked = "none" /\ UNCHANGED <<stop, first>>
        BY <2>4, <3>1, <3>4 DEF Checked, Check, CheckAt, Raises, NotStopped
      <4>2. outcome' = "completed"
        BY <1>4, <2>4, <3>3, <4>1 DEF Final, Classified
      <4> QED BY <3>3, <4>1, <4>2 DEF ReportedIsFirst, Resources
    <3>5. CASE Raises # "none"
      <4>1. Stop(Raises) /\ Raises \in Resources /\ Raises # "none"
        BY <3>1, <3>5 DEF Check, CheckAt, Raises, RaisesAt, Resources
      <4>2. stop' = Raises /\ first' = Raises
        BY <2>4, <3>3, <4>1 DEF Stop
      <4>3. outcome' = "budget"
        BY <1>4, <4>1, <4>2 DEF Classified
      <4> QED BY <4>1, <4>2, <4>3 DEF ReportedIsFirst
    <3> QED BY <3>4, <3>5
  <2> QED BY <2>1, <2>2, <2>3, <2>4
<1> QED BY <1>3, <1>9, <1>10, <1>11, <1>12 DEF LimiterInv, Control

\* The invariant holds at the start.
LEMMA InitInv == Init => LimiterInv
<1> SUFFICES ASSUME Init PROVE LimiterInv
  OBVIOUS
<1>1. /\ stop = "none" /\ stopping = FALSE /\ cancel = "none" /\ failure = FALSE /\ late = FALSE
      /\ toolCalls = 0 /\ used = 0 /\ reserved = 0 /\ permits = Slots
      /\ lease = [t \in Tasks |-> NoLease]
      /\ phase = "hooks" /\ pc = [a \in Actors |-> "idle"]
      /\ error = [a \in Actors |-> "none"]
      /\ outcome = "running" /\ first = "none" /\ primary = 0 /\ overrun = 0
  BY DEF Init, LimiterInit
<1>2. ControlType
  BY <1>1 DEF ControlType, Phases, Places, Rest, Kinds, Cancels, Outcomes
<1>3. Staged
  BY <1>1 DEF Staged, Actors, Rest
<1>4. Observed /\ ReportedIsFirst
  <2>1. Errors = {}
    BY <1>1 DEF Errors
  <2> QED BY <1>1, <2>1 DEF Observed, ReportedIsFirst, Resources
<1>5. Slots \in Nat /\ MaxTokens \in Nat
  BY LimiterAssumption
<1>6. MeterType
  <2>1. NoLease \in Leases
    BY DEF NoLease, Leases, Statuses
  <2> QED BY <1>1, <1>5, <2>1 DEF MeterType
<1>7. \A t \in Tasks : pc[t] = "idle" /\ lease[t].status = "none"
  BY <1>1, Finite DEF NoLease
<1>8. Live = {} /\ Settled = {} /\ Holding = {}
  BY <1>7 DEF Live, Settled, Attempts, Holding
<1>9. Leased
  BY <1>7 DEF Leased
<1>10. Books
  BY <1>1, <1>5, <1>8, SumEmpty, FS_EmptySet DEF Books
<1>11. SpendingBounded
  BY <1>1, <1>5 DEF SpendingBounded
<1> QED BY <1>2, <1>3, <1>4, <1>6, <1>9, <1>10, <1>11 DEF LimiterInv, Control, Money

\* A task's step keeps it.
LEMMA TaskGood ==
  ASSUME LimiterInv, NEW t \in Tasks, TaskNext(t)
  PROVE  LimiterInv'
<1>1. CASE \E amount \in Amounts : ReserveAuxiliary(t, amount)
  BY <1>1, ReserveGood
<1>2. CASE IntentStored(t)
  BY <1>2, IntentStoredGood
<1>3. CASE RecordFails(t) \/ RecordCancelled(t)
  BY <1>3, RecordRefusedGood
<1>4. CASE \E total \in Reports : Report(t, total)
  BY <1>4, ReportGood
<1>5. CASE \E status \in {"completed", "error"} : ProviderAnswers(t, status)
  BY <1>5, ProviderAnswersGood
<1>6. CASE Delivered(t)
  BY <1>6, DeliveredGood
<1>7. CASE ReceiptStored(t)
  BY <1>7, ReceiptStoredGood
<1>8. CASE Dropped(t)
  BY <1>8, DroppedGood
<1>9. CASE TimesOut(t)
  BY <1>9, TimesOutGood
<1>10. CASE ScopeExpired(t)
  BY <1>10, ScopeExpiredGood
<1> QED BY <1>1, <1>2, <1>3, <1>4, <1>5, <1>6, <1>7, <1>8, <1>9, <1>10 DEF TaskNext

\* Every step keeps it.
LEMMA StepGood ==
  ASSUME LimiterInv, [Next]_vars
  PROVE  LimiterInv'
<1>1. CASE UNCHANGED vars
  <2>1. /\ UNCHANGED <<phase, pc, error, stop, stopping, cancel, failure, late, outcome, first>>
        /\ UNCHANGED <<toolCalls, used, reserved, permits, lease, primary, overrun>>
    BY <1>1 DEF vars, meter
  <2>2. Money'
    BY <2>1, SameMoney DEF LimiterInv, Money, MeterType
  <2>3. Control'
    BY <2>1 DEF LimiterInv, Control, ControlType, Staged, Observed, ReportedIsFirst, Faulted, Errors
  <2> QED BY <2>2, <2>3 DEF LimiterInv
<1>2. CASE HostCancel \/ Elapse \/ StopCancels
  BY <1>2, OutsideGood
<1>3. CASE TimerFires \/ HooksDone \/ ReserveTools
  BY <1>3, StageGood
<1>4. CASE RunEnds
  BY <1>4, RunEndsGood
<1>5. CASE \E total \in Reports : ModelAnswers(total)
  BY <1>5, ModelAnswersGood
<1>6. CASE \E h \in Hooks : BeginHook(h)
  BY <1>6, BeginHookGood
<1>7. CASE \E c \in Calls : Admit(c) \/ PlainEnds(c)
  BY <1>7, AdmitGood, PlainEndsGood
<1>8. CASE \E t \in Tasks : TaskNext(t)
  BY <1>8, TaskGood
<1> QED BY <1>1, <1>2, <1>3, <1>4, <1>5, <1>6, <1>7, <1>8 DEF Next

-----------------------------------------------------------------------------
(* The theorems.                                                           *)

\* In every reachable state the run is in one of its stages, the first observed
\* condition is the one that stopped it, every task's lease is where the task
\* is, and the meter's books balance (run.rs, run/auxiliary.rs,
\* turn_executor.rs:462-566).
THEOREM Invariance == Spec => []LimiterInv
<1>1. Init => LimiterInv
  BY InitInv
<1>2. LimiterInv /\ [Next]_vars => LimiterInv'
  BY StepGood
<1> QED BY <1>1, <1>2, PTL DEF Spec

\* The fold of the reservations in flight is what is reserved, the fold of the
\* charges of the settled requests and the main model's tokens what is used,
\* and every permit that is not free is held by one task: for any number of
\* requests, settled, dropped or timed out in any order.
THEOREM LedgerExactHolds == Spec => []LedgerExact
<1>1. LimiterInv => LedgerExact
  <2> SUFFICES ASSUME LimiterInv PROVE LedgerExact
    OBVIOUS
  <2>1. lease \in [Tasks -> Leases] /\ Books
    BY DEF LimiterInv, Money, MeterType
  <2>2. /\ MapThenSumSet(LAMBDA t : lease[t].amount, Live) = Sum(AmountOf, Live)
        /\ MapThenSumSet(Charged, Settled) = Sum(ChargeOf, Settled)
    BY <2>1, Finite, BooksAreSums
  <2>3. reserved = MapThenSumSet(LAMBDA t : lease[t].amount, Live)
    BY <2>1, <2>2 DEF Books
  <2>4. used = primary + MapThenSumSet(Charged, Settled)
    BY <2>1, <2>2 DEF Books
  <2>5. permits + Cardinality(Holding) = Slots
    BY <2>1 DEF Books
  <2> QED BY <2>3, <2>4, <2>5 DEF LedgerExact
<1> QED BY <1>1, Invariance, PTL

\* Requests that run side by side stay within the token budget together, but
\* for what a model or a service reports beyond what it reserved
\* (RunLimiter::reserve_auxiliary, AuxiliaryLease::finish).
THEOREM SpendingBoundedHolds == Spec => []SpendingBounded
<1>1. LimiterInv => SpendingBounded
  BY DEF LimiterInv, Money
<1> QED BY <1>1, Invariance, PTL

\* Whatever the timer, the budgets, a refused record, a hook and the host do,
\* a run is reported as stopped by a budget exactly when a budget was observed
\* first, as cancelled only when the host's cancellation was, and as completed
\* only when nothing stopped it (RunLimiter::stop, classify_stop).
THEOREM ReportedIsFirstHolds == Spec => []ReportedIsFirst
<1>1. LimiterInv => ReportedIsFirst
  BY DEF LimiterInv, Control
<1> QED BY <1>1, Invariance, PTL
=============================================================================
