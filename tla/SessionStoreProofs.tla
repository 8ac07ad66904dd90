------------------------- MODULE SessionStoreProofs -------------------------
(***************************************************************************)
(* Theorems about SessionStore, for all handles, appends and leases.       *)
(***************************************************************************)
EXTENDS SessionStore, Integers, SequenceTheorems, TLAPS

-----------------------------------------------------------------------------
(* The invariant.                                                          *)

Transaction == Handles \X Nat
Content ==
  [version : {"legacy", "v3"}, txs : Seq(Transaction), bare : BOOLEAN,
   torn : SUBSET Transaction]
View == [open : BOOLEAN, at : Content, token : Nat]
Steps == {"idle", "append", "sync", "backup", "save", "replace"}

TypeOK ==
  /\ file \in Content /\ disk \subseteq Content /\ exists \in BOOLEAN /\ listed \in BOOLEAN
  /\ backup \in {"none", "part", "full", "unneeded"} /\ saved \in BOOLEAN
  /\ meta \in Handles \cup {NoOne} /\ lease \in Handles \cup {NoOne}
  /\ token \in Nat /\ leases \in Nat /\ writes \in Nat
  /\ view \in [Handles -> View] /\ pc \in [Handles -> Steps]
  /\ acked \in Seq(Transaction)

\* One log is the beginning of another.
Begins(a, b) == Len(a) <= Len(b) /\ \A i \in 1..Len(a) : a[i] = b[i]

\* What processes find is there, and whatever the power leaves is a beginning of
\* the file that has everything acknowledged; a legacy file has no transaction and
\* no v3 file behind it.
DiskFollows ==
  /\ exists => listed
  /\ Begins(acked, file.txs)
  /\ \A c \in disk : Begins(acked, c.txs) /\ Begins(c.txs, file.txs)
  /\ \A c \in disk \cup {file} : c.version = "legacy" => c.txs = <<>>
  /\ file.version = "legacy" => \A c \in disk : c.version = "legacy"

\* A commit holds the metadata lock, over a file that its view knows, until it
\* has written its own transaction to it.
CommitAlone ==
  \A h \in Handles :
    pc[h] # "idle" =>
      /\ meta = h /\ exists /\ view[h].open
      /\ lease # NoOne => lease = h
      /\ pc[h] # "sync" => file = view[h].at
      /\ pc[h] = "append" => file.version = "v3"
      /\ pc[h] \in {"backup", "save", "replace"} => file.version = "legacy"
      /\ pc[h] \in {"save", "replace"} => backup = "full"
      /\ pc[h] = "sync" =>
           file.txs = view[h].at.txs \/ Log!OneMore(view[h].at.txs, file.txs, h)

\* The nonce in the run lock is the owner's, and nobody else has it.
NonceOwned ==
  /\ token = leases
  /\ \A h \in Handles : view[h].token <= token
  /\ lease # NoOne =>
       /\ token > 0 /\ view[lease].open /\ view[lease].token = token
       /\ \A h \in Handles \ {lease} : view[h].token # token

StoreInv == TypeOK /\ DiskFollows /\ CommitAlone /\ NonceOwned

-----------------------------------------------------------------------------
(* Logs and contents.                                                      *)

\* Beginnings are ordered.
LEMMA BeginsOrder ==
  ASSUME NEW a \in Seq(Transaction), NEW b \in Seq(Transaction), NEW c \in Seq(Transaction)
  PROVE  /\ Begins(a, a) /\ Begins(<<>>, a)
         /\ Begins(a, b) /\ Begins(b, c) => Begins(a, c)
<1>1. /\ Len(a) \in Nat /\ Len(b) \in Nat /\ Len(c) \in Nat /\ Len(<<>>) = 0
  OBVIOUS
<1>2. Begins(a, a) /\ Begins(<<>>, a)
  BY <1>1 DEF Begins
<1>3. ASSUME Begins(a, b), Begins(b, c) PROVE Begins(a, c)
  <2>1. Len(a) <= Len(b) /\ Len(b) <= Len(c)
    BY <1>3 DEF Begins
  <2>2. \A i \in 1..Len(a) : a[i] = b[i] /\ i \in 1..Len(b)
    BY <1>1, <1>3, <2>1 DEF Begins
  <2> QED BY <1>1, <1>3, <2>1, <2>2 DEF Begins
<1> QED BY <1>2, <1>3

\* A beginning is the log cut at its length.
LEMMA BeginsIsCut ==
  ASSUME NEW a \in Seq(Transaction), NEW b \in Seq(Transaction), Begins(a, b)
  PROVE  a = SubSeq(b, 1, Len(a))
<1>1. Len(a) \in Nat /\ Len(b) \in Nat /\ Len(a) <= Len(b)
  BY DEF Begins
<1> DEFINE c == SubSeq(b, 1, Len(a))
<1>2. c \in Seq(Transaction) /\ Len(c) = Len(a) /\ \A i \in 1..Len(a) : c[i] = b[i]
  BY <1>1, SubSeqProperties
<1> HIDE DEF c
<1>3. \A i \in 1..Len(a) : a[i] = c[i]
  BY <1>2 DEF Begins
<1>4. a = c
  BY <1>2, <1>3, SeqEqual
<1> QED BY <1>4 DEF c

\* A log with one transaction more begins with what it was.
LEMMA OneMoreBegins ==
  ASSUME NEW a \in Seq(Transaction), NEW h \in Handles, NEW n \in Nat
  PROVE  LET b == Append(a, <<h, n>>) IN
         /\ b \in Seq(Transaction) /\ Begins(a, b) /\ Log!OneMore(a, b, h)
<1> DEFINE b == Append(a, <<h, n>>)
<1>1. Len(a) \in Nat /\ <<h, n>> \in Transaction
  BY DEF Transaction
<1>2. /\ b \in Seq(Transaction) /\ Len(b) = Len(a) + 1
      /\ \A i \in 1..Len(a) : b[i] = a[i]
      /\ b[Len(a) + 1] = <<h, n>>
  BY <1>1
<1> HIDE DEF b
<1>3. Begins(a, b)
  BY <1>1, <1>2 DEF Begins
<1>4. SubSeq(b, 1, Len(a)) = a
  BY <1>2, <1>3, BeginsIsCut
<1>5. b[Len(b)][1] = h
  BY <1>2
<1> QED BY <1>2, <1>3, <1>4, <1>5 DEF b, Log!OneMore

\* Appending changes the transactions only when the record is whole, and never
\* the version.
LEMMA StagesEffect ==
  ASSUME NEW c \in Content, NEW t \in Transaction, NEW n \in 1..5
  PROVE  /\ Stages(c, t)[n] \in Content /\ Stages(c, t)[n].version = c.version
         /\ Stages(c, t)[n].txs = IF n <= 3 THEN c.txs ELSE Append(c.txs, t)
<1>1. Append(c.txs, t) \in Seq(Transaction)
  BY DEF Content
<1> DEFINE cut == [c EXCEPT !.torn = {}]
           separated == [cut EXCEPT !.bare = FALSE]
           torn == [separated EXCEPT !.torn = {t}]
           bare == [separated EXCEPT !.txs = Append(c.txs, t), !.bare = TRUE]
           whole == [separated EXCEPT !.txs = Append(c.txs, t)]
<1>2. cut \in Content /\ cut.version = c.version /\ cut.txs = c.txs
  BY DEF Content
<1>3. separated \in Content /\ separated.version = c.version /\ separated.txs = c.txs
  <2> HIDE DEF cut
  <2> QED BY <1>2 DEF Content
<1>4. Stages(c, t) = <<cut, separated, torn, bare, whole>>
  BY <1>2, <1>3 DEF Stages
<1> HIDE DEF cut, separated
<1>5. torn \in Content /\ torn.version = c.version /\ torn.txs = c.txs
  BY <1>3 DEF Content
<1>6. bare \in Content /\ bare.version = c.version /\ bare.txs = Append(c.txs, t)
  BY <1>1, <1>3 DEF Content
<1>7. whole \in Content /\ whole.version = c.version /\ whole.txs = Append(c.txs, t)
  BY <1>1, <1>3 DEF Content
<1> HIDE DEF torn, bare, whole
<1>8. n = 1 \/ n = 2 \/ n = 3 \/ n = 4 \/ n = 5
  OBVIOUS
<1>9. /\ Stages(c, t)[1] = cut /\ Stages(c, t)[2] = separated /\ Stages(c, t)[3] = torn
      /\ Stages(c, t)[4] = bare /\ Stages(c, t)[5] = whole
  BY <1>4
<1>10. CASE n <= 3
  <2>1. n = 1 \/ n = 2 \/ n = 3
    BY <1>10
  <2> QED BY <1>2, <1>3, <1>5, <1>9, <1>10, <2>1
<1>11. CASE ~(n <= 3)
  <2>1. n = 4 \/ n = 5
    BY <1>8, <1>11
  <2> QED BY <1>6, <1>7, <1>9, <1>11, <2>1
<1> QED BY <1>10, <1>11

-----------------------------------------------------------------------------
(* The steps.                                                              *)

Exclusive ==
  lease # NoOne /\ lease' = lease => (file' = file \/ meta = lease) /\ exists' = exists
BackedUp == file.version = "legacy" /\ file'.version = "v3" => backup' = "full"
LogStep == Log!Next \/ UNCHANGED Log!vars

\* What a step has to show.
Good == StoreInv' /\ LogStep /\ Exclusive /\ BackedUp

\* The metadata lock leaves at most one commit in progress.
LEMMA OneCommit ==
  ASSUME StoreInv
  PROVE  /\ meta = NoOne => \A h \in Handles : pc[h] = "idle"
         /\ \A h \in Handles : pc[h] # "idle" => \A g \in Handles \ {h} : pc[g] = "idle"
BY StoreAssumption DEF StoreInv, CommitAlone

\* A commit that is over, or has not begun, leaves no obligation.
LEMMA IdleAlone == ASSUME \A h \in Handles : pc'[h] = "idle" PROVE CommitAlone'
BY DEF CommitAlone

\* A step that touches neither the file nor what the views have seen is no step
\* of the log.
LEMMA SameLog ==
  ASSUME UNCHANGED <<file, exists, listed, acked>>,
         \A h \in Handles : view'[h].open = view[h].open /\ view'[h].at = view[h].at
  PROVE  LogStep
BY DEF LogStep, Log!vars

\* The invariant holds initially.
LEMMA InitInv == Init => StoreInv
<1> SUFFICES ASSUME Init PROVE StoreInv
  OBVIOUS
<1>1. /\ <<>> \in Seq(Transaction) /\ {} \in SUBSET Transaction /\ "legacy" \in {"legacy", "v3"}
      /\ "v3" \in {"legacy", "v3"}
  OBVIOUS
<1>2. /\ file \in Content /\ file.txs = <<>> /\ Contents("v3", <<>>) \in Content
  <2>1. \A v \in {"legacy", "v3"} : Contents(v, <<>>) \in Content /\ Contents(v, <<>>).txs = <<>>
    BY <1>1 DEF Contents, Content
  <2> QED BY <2>1 DEF Init
<1>3. /\ disk = {file} /\ exists = TRUE /\ listed = TRUE /\ saved = FALSE /\ meta = NoOne /\ lease = NoOne
      /\ token = 0 /\ leases = 0 /\ writes = 0 /\ acked = <<>>
      /\ view = [h \in Handles |-> NoView] /\ pc = [h \in Handles |-> "idle"]
      /\ backup \in {"none", "unneeded"}
  BY Zenon DEF Init
<1>4. NoView \in View /\ NoView.token = 0
  BY <1>2 DEF NoView, View
<1>5. TypeOK
  BY <1>1, <1>2, <1>3, <1>4 DEF TypeOK, Steps
<1>6. DiskFollows
  BY <1>1, <1>2, <1>3, BeginsOrder DEF DiskFollows
<1>7. CommitAlone /\ NonceOwned
  BY <1>3, <1>4 DEF CommitAlone, NonceOwned
<1> QED BY <1>5, <1>6, <1>7 DEF StoreInv

\* A view is opened on the file as it is.
LEMMA OpenViewGood == ASSUME StoreInv, NEW h \in Handles, OpenView(h) PROVE Good
<1>1. /\ exists /\ meta = NoOne /\ ~view[h].open /\ UNCHANGED <<data, locks, pc>>
      /\ view' = [view EXCEPT ![h] = [NoView EXCEPT !.open = TRUE, !.at = file]]
  BY Zenon DEF OpenView
<1>2. /\ UNCHANGED <<file, disk, exists, listed, backup, saved, acked, writes, meta, lease, token, leases, pc>>
  BY <1>1 DEF data, locks
<1> DEFINE opened == [NoView EXCEPT !.open = TRUE, !.at = file]
<1>3. opened \in View /\ opened.open /\ opened.at = file /\ opened.token = 0
  BY DEF StoreInv, TypeOK, NoView, View, Content
<1> HIDE DEF opened
<1>4. /\ view'[h] = opened /\ \A g \in Handles \ {h} : view'[g] = view[g]
      /\ view' \in [Handles -> View]
  BY <1>1, <1>3 DEF opened, StoreInv, TypeOK
<1>5. TypeOK' /\ DiskFollows'
  BY <1>2, <1>4 DEF StoreInv, TypeOK, DiskFollows
<1>6. CommitAlone'
  BY <1>1, <1>2, OneCommit, IdleAlone
<1>7. NonceOwned'
  <2>1. token' = leases' /\ token \in Nat
    BY <1>2 DEF StoreInv, TypeOK, NonceOwned
  <2>2. \A g \in Handles : view'[g].token <= token'
    BY <1>2, <1>3, <1>4, <2>1 DEF StoreInv, NonceOwned
  <2>3. ASSUME lease # NoOne
        PROVE  /\ token > 0 /\ lease \in Handles \ {h} /\ view'[lease].open
               /\ view'[lease].token = token
               /\ \A g \in Handles \ {lease} : view'[g].token # token
    <3>1. lease \in Handles \ {h}
      BY <1>1, <2>3 DEF StoreInv, TypeOK, NonceOwned
    <3> QED BY <1>3, <1>4, <2>1, <2>3, <3>1 DEF StoreInv, NonceOwned
  <2> QED BY <1>2, <2>1, <2>2, <2>3 DEF NonceOwned
<1>8. Log!Open(h)
  <2>1. [g \in Handles |-> IF view[g].open THEN {view[g].at.txs} ELSE {}]'
          = [[g \in Handles |-> IF view[g].open THEN {view[g].at.txs} ELSE {}]
               EXCEPT ![h] = {file.txs}]
    BY <1>3, <1>4
  <2> QED BY <1>1, <1>2, <2>1 DEF Log!Open, StoreInv, DiskFollows
<1> QED BY <1>2, <1>5, <1>6, <1>7, <1>8 DEF Good, StoreInv, LogStep, Log!Next, Exclusive, BackedUp

\* The run lease is acquired: the nonce is new.
LEMMA AcquireGood == ASSUME StoreInv, NEW h \in Handles, Acquire(h) PROVE Good
<1>1. /\ view[h].open /\ meta = NoOne /\ lease = NoOne /\ leases' = leases + 1
      /\ token' = leases' /\ lease' = h /\ UNCHANGED <<data, meta, pc>>
      /\ view' = [view EXCEPT ![h].token = leases']
  BY Zenon DEF Acquire
<1>2. UNCHANGED <<file, disk, exists, listed, backup, saved, acked, writes>>
  BY <1>1 DEF data
<1>3. view \in [Handles -> View] /\ leases \in Nat /\ token = leases
  BY DEF StoreInv, TypeOK, NonceOwned
<1> DEFINE owned == [view[h] EXCEPT !.token = leases']
<1>4. /\ owned \in View /\ owned.open /\ owned.at = view[h].at /\ owned.token = leases'
  BY <1>1, <1>3 DEF View
<1>5. view' = [view EXCEPT ![h] = owned]
  BY <1>1, <1>3
<1> HIDE DEF owned
<1>6. /\ view'[h] = owned /\ \A g \in Handles \ {h} : view'[g] = view[g]
      /\ view' \in [Handles -> View]
  BY <1>3, <1>4, <1>5
<1>7. TypeOK' /\ DiskFollows'
  BY <1>1, <1>2, <1>3, <1>6 DEF StoreInv, TypeOK, DiskFollows
<1>8. CommitAlone'
  BY <1>1, OneCommit, IdleAlone
<1>9. NonceOwned'
  <2>1. \A g \in Handles : view[g].token \in Nat /\ view[g].token <= leases
    BY <1>3 DEF StoreInv, NonceOwned, View
  <2>2. \A g \in Handles \ {h} : view'[g].token < token'
    BY <1>1, <1>3, <1>6, <2>1
  <2>3. token' > 0 /\ token' \in Nat
    BY <1>1, <1>3
  <2>4. \A g \in Handles \ {h} : view'[g].token # token' /\ view'[g].token <= token'
    BY <1>6, <2>1, <2>2, <2>3
  <2> QED BY <1>1, <1>4, <1>6, <2>3, <2>4 DEF NonceOwned
<1>10. LogStep
  <2>1. \A g \in Handles : view'[g].open = view[g].open /\ view'[g].at = view[g].at
    <3> TAKE g \in Handles
    <3>1. CASE g = h
      BY <1>1, <1>4, <1>6, <3>1
    <3>2. CASE g # h
      BY <1>6, <3>2
    <3> QED BY <3>1, <3>2
  <2> QED BY <1>2, <2>1, SameLog
<1> QED BY <1>2, <1>7, <1>8, <1>9, <1>10 DEF Good, StoreInv, Exclusive, BackedUp

\* The run lease is dropped.
LEMMA ReleaseGood == ASSUME StoreInv, NEW h \in Handles, Release(h) PROVE Good
<1>1. lease' = NoOne /\ UNCHANGED <<data, meta, token, leases, view, pc>>
  BY DEF Release
<1>2. UNCHANGED <<file, disk, exists, listed, backup, saved, acked, writes>>
  BY <1>1 DEF data
<1>3. TypeOK' /\ DiskFollows' /\ CommitAlone' /\ NonceOwned'
  BY <1>1, <1>2 DEF StoreInv, TypeOK, DiskFollows, CommitAlone, NonceOwned
<1>4. LogStep
  BY <1>1, <1>2, SameLog
<1> QED BY <1>2, <1>3, <1>4 DEF Good, StoreInv, Exclusive, BackedUp

\* Nobody owns the run and nobody commits when the session is deleted.
LEMMA DeleteGood == StoreInv /\ Delete => Good
<1> SUFFICES ASSUME StoreInv, Delete PROVE Good
  OBVIOUS
<1>1. /\ meta = NoOne /\ lease = NoOne /\ exists /\ exists' = FALSE
      /\ UNCHANGED <<file, disk, listed, backup, saved, acked, writes, locks, view, pc>>
  BY DEF Delete, MayWrite
<1>2. UNCHANGED <<meta, lease, token, leases>>
  BY <1>1 DEF locks
<1>3. TypeOK' /\ DiskFollows' /\ NonceOwned'
  <2>1. TypeOK'
    BY <1>1, <1>2 DEF StoreInv, TypeOK
  <2> QED BY <1>1, <1>2, <2>1 DEF StoreInv, DiskFollows, NonceOwned
<1>4. CommitAlone'
  BY <1>1, OneCommit, IdleAlone
<1>5. Log!Delete
  BY <1>1 DEF Log!Delete, StoreInv, DiskFollows
<1> QED BY <1>1, <1>3, <1>4, <1>5 DEF Good, StoreInv, LogStep, Log!Next, Exclusive, BackedUp

\* The deletion reaches the disk.
LEMMA DirectorySyncedGood == StoreInv /\ DirectorySynced => Good
<1> SUFFICES ASSUME StoreInv, DirectorySynced PROVE Good
  OBVIOUS
<1>1. /\ ~exists /\ listed /\ listed' = FALSE /\ acked' = <<>>
      /\ UNCHANGED <<file, disk, exists, backup, saved, writes, locks, view, pc>>
  BY DEF DirectorySynced
<1>2. UNCHANGED <<meta, lease, token, leases>>
  BY <1>1 DEF locks
<1>3. TypeOK' /\ NonceOwned'
  <2>1. <<>> \in Seq(Transaction) /\ FALSE \in BOOLEAN
    OBVIOUS
  <2>2. TypeOK'
    BY <1>1, <1>2, <2>1 DEF StoreInv, TypeOK
  <2> QED BY <1>1, <1>2, <2>2 DEF StoreInv, NonceOwned
<1>4. DiskFollows'
  <2>1. \A c \in Content : c.txs \in Seq(Transaction)
    BY DEF Content
  <2>2. Begins(<<>>, file.txs) /\ \A c \in disk : Begins(<<>>, c.txs)
    BY <2>1, BeginsOrder DEF StoreInv, TypeOK
  <2> QED BY <1>1, <2>2 DEF StoreInv, DiskFollows
<1>5. CommitAlone'
  BY <1>1, <1>2 DEF StoreInv, CommitAlone
<1>6. Log!Forget
  BY <1>1 DEF Log!Forget
<1> QED BY <1>1, <1>3, <1>4, <1>5, <1>6 DEF Good, StoreInv, LogStep, Log!Next, Exclusive, BackedUp

\* A process dies: what it had begun is over.
LEMMA ExitGood == ASSUME StoreInv, NEW h \in Handles, Exit(h) PROVE Good
<1>1. /\ view' = [view EXCEPT ![h] = NoView] /\ pc' = [pc EXCEPT ![h] = "idle"]
      /\ meta' = (IF meta = h THEN NoOne ELSE meta)
      /\ lease' = (IF lease = h THEN NoOne ELSE lease)
      /\ UNCHANGED <<data, token, leases>>
  BY Zenon DEF Exit
<1>2. UNCHANGED <<file, disk, exists, listed, backup, saved, acked, writes>>
  BY <1>1 DEF data
<1>3. NoView \in View /\ NoView.token = 0 /\ ~NoView.open
  BY DEF StoreInv, TypeOK, NoView, View, Contents, Content
<1>4. /\ view'[h] = NoView /\ \A g \in Handles \ {h} : view'[g] = view[g] /\ pc'[g] = pc[g]
      /\ view' \in [Handles -> View] /\ pc'[h] = "idle" /\ pc' \in [Handles -> Steps]
  BY <1>1, <1>3 DEF StoreInv, TypeOK, Steps
<1>5. TypeOK' /\ DiskFollows'
  BY <1>1, <1>2, <1>4 DEF StoreInv, TypeOK, DiskFollows
<1>6. CommitAlone'
  <2> SUFFICES ASSUME NEW g \in Handles \ {h}, pc[g] # "idle"
               PROVE  meta' = meta /\ view'[g] = view[g] /\ pc'[g] = pc[g]
                      /\ (lease' # NoOne => lease' = lease)
    BY <1>2, <1>4 DEF StoreInv, CommitAlone
  <2>1. meta = g
    BY DEF StoreInv, CommitAlone
  <2> QED BY <1>1, <1>4, <2>1
<1>7. NonceOwned'
  <2>1. token' = leases' /\ token \in Nat
    BY <1>1 DEF StoreInv, TypeOK, NonceOwned
  <2>2. \A g \in Handles : view'[g].token <= token'
    BY <1>1, <1>3, <1>4, <2>1 DEF StoreInv, NonceOwned
  <2>3. ASSUME lease' # NoOne
        PROVE  /\ token > 0 /\ lease' = lease /\ lease \in Handles \ {h} /\ view'[lease].open
               /\ view'[lease].token = token
               /\ \A g \in Handles \ {lease} : view'[g].token # token
    <3>1. lease' = lease /\ lease \in Handles \ {h} /\ lease # NoOne
      BY <1>1, <2>3 DEF StoreInv, TypeOK
    <3> QED BY <1>3, <1>4, <2>1, <3>1 DEF StoreInv, NonceOwned
  <2> QED BY <1>1, <2>1, <2>2, <2>3 DEF NonceOwned
<1>8. Log!Close(h)
  <2>1. [g \in Handles |-> IF view[g].open THEN {view[g].at.txs} ELSE {}]'
          = [[g \in Handles |-> IF view[g].open THEN {view[g].at.txs} ELSE {}]
               EXCEPT ![h] = {}]
    BY <1>3, <1>4
  <2> QED BY <1>2, <2>1 DEF Log!Close
<1> QED BY <1>2, <1>5, <1>6, <1>7, <1>8 DEF Good, StoreInv, LogStep, Log!Next, Exclusive, BackedUp

\* A commit begins: the caller owns the run, or nobody does.
LEMMA BeginGood == ASSUME StoreInv, NEW h \in Handles, Begin(h) PROVE Good
<1> DEFINE step == IF view[h].at.version = "legacy" THEN "backup" ELSE "append"
<1>1. /\ exists /\ view[h].open /\ meta = NoOne /\ file = view[h].at /\ meta' = h
      /\ pc' = [pc EXCEPT ![h] = step] /\ UNCHANGED <<data, lease, token, leases, view>>
      /\ MayWrite(IF view[h].token = 0 THEN {} ELSE {view[h].token})
  BY Zenon DEF Begin, Unchanged
<1>2. UNCHANGED <<file, disk, exists, listed, backup, saved, acked, writes>>
  BY <1>1 DEF data
<1>3. /\ step \in {"backup", "append"} /\ (step = "backup" => file.version = "legacy")
      /\ (step = "append" => file.version = "v3")
  BY <1>1 DEF StoreInv, TypeOK, Content
<1> HIDE DEF step
<1>4. /\ pc'[h] = step /\ \A g \in Handles \ {h} : pc'[g] = "idle"
      /\ pc' \in [Handles -> Steps]
  BY <1>1, <1>3, OneCommit DEF StoreInv, TypeOK, Steps
<1>5. TypeOK' /\ DiskFollows' /\ NonceOwned'
  BY <1>1, <1>2, <1>4 DEF StoreInv, TypeOK, DiskFollows, NonceOwned
<1>6. lease # NoOne => lease = h
  <2> SUFFICES ASSUME lease # NoOne, lease # h PROVE FALSE
    OBVIOUS
  <2>1. view[h].token # token
    BY DEF StoreInv, NonceOwned
  <2> QED BY <1>1, <2>1 DEF MayWrite
<1>7. CommitAlone'
  BY <1>1, <1>2, <1>3, <1>4, <1>6 DEF CommitAlone
<1>8. LogStep
  BY <1>1, <1>2, SameLog
<1> QED BY <1>2, <1>5, <1>7, <1>8 DEF Good, StoreInv, Exclusive, BackedUp

\* A failed step ends the commit in progress.
LEMMA FailEnds ==
  ASSUME StoreInv, NEW h \in Handles, pc[h] # "idle", Fail(h)
  PROVE  /\ meta' = NoOne /\ UNCHANGED view
         /\ pc' \in [Handles -> Steps] /\ \A g \in Handles : pc'[g] = "idle"
BY OneCommit DEF Fail, StoreInv, TypeOK, Steps

\* A step of the commit in progress leaves the other handles idle.
LEMMA Advances ==
  ASSUME StoreInv, NEW h \in Handles, pc[h] # "idle", NEW step \in Steps,
         pc' = [pc EXCEPT ![h] = step]
  PROVE  /\ pc'[h] = step /\ pc' \in [Handles -> Steps]
         /\ \A g \in Handles \ {h} : pc'[g] = "idle"
BY OneCommit DEF StoreInv, TypeOK

\* The record is appended, in part or whole, to the log the view has seen.
LEMMA AppendRecordGood == ASSUME StoreInv, NEW h \in Handles, AppendRecord(h) PROVE Good
<1> DEFINE t == <<h, writes + 1>>
           stages == Stages(file, t)
<1>1. /\ pc[h] = "append" /\ meta = h /\ exists /\ view[h].open /\ file = view[h].at
      /\ file.version = "v3" /\ (lease # NoOne => lease = h)
  BY DEF AppendRecord, StoreInv, CommitAlone
<1>2. /\ writes' = writes + 1
      /\ UNCHANGED <<exists, listed, backup, saved, acked, lease, token, leases>>
  BY DEF AppendRecord
<1>3. \E n \in 1..5 :
        /\ file' = Stages(view[h].at, <<h, writes'>>)[n]
        /\ disk' = disk \cup {Stages(view[h].at, <<h, writes'>>)[k] : k \in 1..n}
        /\ IF n = 5 THEN pc' = [pc EXCEPT ![h] = "sync"] /\ UNCHANGED <<meta, view>>
                    ELSE Fail(h)
  BY Zenon DEF AppendRecord
<1>4. PICK n \in 1..5 :
        /\ file' = stages[n] /\ disk' = disk \cup {stages[k] : k \in 1..n}
        /\ IF n = 5 THEN pc' = [pc EXCEPT ![h] = "sync"] /\ UNCHANGED <<meta, view>>
                    ELSE Fail(h)
  BY <1>1, <1>2, <1>3, ZenonT(60)
<1>5. file \in Content /\ writes + 1 \in Nat /\ t \in Transaction /\ file.txs \in Seq(Transaction)
      /\ writes \in Nat
  BY DEF StoreInv, TypeOK, Transaction, Content
<1> DEFINE longer == Append(file.txs, t)
<1>6. longer \in Seq(Transaction) /\ Begins(file.txs, longer) /\ Log!OneMore(file.txs, longer, h)
  BY <1>5, OneMoreBegins
<1>7. \A k \in 1..5 : /\ stages[k] \in Content /\ stages[k].version = "v3"
                      /\ stages[k].txs = IF k <= 3 THEN file.txs ELSE longer
  BY <1>1, <1>5, StagesEffect
<1> HIDE DEF t, stages, longer
<1>8. /\ UNCHANGED view /\ pc' \in [Handles -> Steps]
      /\ \A g \in Handles \ {h} : pc'[g] = "idle"
      /\ (n # 5 => meta' = NoOne /\ pc'[h] = "idle")
      /\ (n = 5 => meta' = meta /\ pc'[h] = "sync")
  <2>1. CASE n = 5
    BY <1>1, <1>4, <2>1, Advances DEF Steps
  <2>2. CASE n # 5
    BY <1>1, <1>4, <2>2, FailEnds
  <2> QED BY <2>1, <2>2
<1>9. TypeOK'
  <2>1. file' \in Content /\ disk' \subseteq Content /\ writes' \in Nat
    BY <1>2, <1>4, <1>5, <1>7 DEF StoreInv, TypeOK
  <2>2. meta' \in Handles \cup {NoOne}
    BY <1>8 DEF StoreInv, TypeOK
  <2> QED BY <1>2, <1>8, <2>1, <2>2 DEF StoreInv, TypeOK
<1>10. file'.version = "v3" /\ file'.txs = IF n <= 3 THEN file.txs ELSE longer
  BY <1>4, <1>7
<1>11. Begins(file.txs, file.txs) /\ Begins(file.txs, file'.txs)
  BY <1>5, <1>6, <1>10, BeginsOrder
<1>12. \A c \in Content : Begins(c.txs, file.txs) => Begins(c.txs, file'.txs)
  <2> SUFFICES ASSUME NEW c \in Content, Begins(c.txs, file.txs) PROVE Begins(c.txs, file'.txs)
    OBVIOUS
  <2>1. c.txs \in Seq(Transaction) /\ file'.txs \in Seq(Transaction)
    BY <1>9 DEF TypeOK, Content
  <2> QED BY <1>5, <1>11, <2>1, BeginsOrder
<1>13. Begins(acked, file'.txs) /\ \A k \in 1..n : /\ Begins(acked, stages[k].txs)
                                                   /\ Begins(stages[k].txs, file'.txs)
  <2>1. acked \in Seq(Transaction) /\ Begins(acked, file.txs)
    BY DEF StoreInv, TypeOK, DiskFollows
  <2>2. Begins(acked, longer) /\ Begins(longer, longer)
    BY <1>5, <1>6, <2>1, BeginsOrder
  <2>3. Begins(acked, file'.txs)
    BY <1>10, <2>1, <2>2
  <2> SUFFICES ASSUME NEW k \in 1..n
               PROVE  Begins(acked, stages[k].txs) /\ Begins(stages[k].txs, file'.txs)
    BY <2>3
  <2>4. k \in 1..5 /\ k <= n
    OBVIOUS
  <2>5. CASE k <= 3
    BY <1>7, <1>11, <2>1, <2>4, <2>5
  <2>6. CASE ~(k <= 3)
    <3>1. ~(n <= 3)
      BY <2>4, <2>6
    <3> QED BY <1>7, <1>10, <2>2, <2>4, <2>6, <3>1
  <2> QED BY <2>5, <2>6
<1>14. DiskFollows'
  <2>1. \A c \in disk' : c \in disk \/ \E k \in 1..n : c = stages[k]
    BY <1>4
  <2>2. \A c \in disk : c \in Content /\ Begins(acked, c.txs) /\ Begins(c.txs, file'.txs)
                        /\ (c.version = "legacy" => c.txs = <<>>)
    BY <1>12 DEF StoreInv, TypeOK, DiskFollows
  <2>3. \A k \in 1..n : stages[k].version # "legacy"
    BY <1>7
  <2> QED BY <1>1, <1>2, <1>10, <1>13, <2>1, <2>2, <2>3 DEF StoreInv, DiskFollows
<1>15. CommitAlone'
  <2>1. CASE n # 5
    <3>1. \A g \in Handles : pc'[g] = "idle"
      BY <1>8, <2>1
    <3> QED BY <3>1, IdleAlone
  <2>2. CASE n = 5
    <3>1. Log!OneMore(view'[h].at.txs, file'.txs, h)
      BY <1>1, <1>6, <1>8, <1>10, <2>2
    <3> QED BY <1>1, <1>2, <1>8, <2>2, <3>1 DEF CommitAlone
  <2> QED BY <2>1, <2>2
<1>16. NonceOwned'
  BY <1>2, <1>8 DEF StoreInv, NonceOwned
<1>17. LogStep
  <2>1. CASE n <= 3
    BY <1>2, <1>8, <1>10, <2>1 DEF LogStep, Log!vars
  <2>2. CASE ~(n <= 3)
    <3>1. Log!Commit(h)
      BY <1>1, <1>2, <1>6, <1>8, <1>10, <2>2 DEF Log!Commit, StoreInv, DiskFollows
    <3> QED BY <3>1 DEF LogStep, Log!Next
  <2> QED BY <2>1, <2>2
<1>18. Exclusive /\ BackedUp
  BY <1>1, <1>2 DEF Exclusive, BackedUp
<1> QED BY <1>9, <1>14, <1>15, <1>16, <1>17, <1>18 DEF Good, StoreInv

\* The commit is acknowledged, or the call fails and tells nothing.
LEMMA SyncGood == ASSUME StoreInv, NEW h \in Handles, Sync(h) PROVE Good
<1>1. /\ pc[h] = "sync" /\ meta = h /\ exists /\ view[h].open
      /\ (file.txs = view[h].at.txs \/ Log!OneMore(view[h].at.txs, file.txs, h))
  BY DEF Sync, StoreInv, CommitAlone
<1>2. /\ Succeed(h) \/ (Fail(h) /\ UNCHANGED <<acked, disk>>)
      /\ UNCHANGED <<file, exists, listed, backup, saved, writes, lease, token, leases>>
  BY DEF Sync
<1>3. Exclusive /\ BackedUp
  BY <1>2 DEF Exclusive, BackedUp
<1>4. CASE Fail(h) /\ UNCHANGED <<acked, disk>>
  <2>1. /\ meta' = NoOne /\ UNCHANGED view
        /\ pc' \in [Handles -> Steps] /\ \A g \in Handles : pc'[g] = "idle"
    BY <1>1, <1>4, FailEnds
  <2>2. TypeOK' /\ DiskFollows' /\ NonceOwned'
    BY <1>2, <1>4, <2>1 DEF StoreInv, TypeOK, DiskFollows, NonceOwned
  <2>3. CommitAlone'
    BY <2>1, IdleAlone
  <2>4. LogStep
    BY <1>2, <1>4, <2>1, SameLog
  <2> QED BY <1>3, <2>2, <2>3, <2>4 DEF Good, StoreInv
<1>5. CASE Succeed(h)
  <2>1. /\ acked' = file.txs /\ disk' = {file} /\ view' = [view EXCEPT ![h].at = file]
        /\ pc' = [pc EXCEPT ![h] = "idle"] /\ meta' = NoOne
    BY <1>5 DEF Succeed
  <2>2. pc' \in [Handles -> Steps] /\ \A g \in Handles : pc'[g] = "idle"
    BY <1>1, <2>1, Advances DEF Steps
  <2>3. view \in [Handles -> View] /\ file \in Content /\ file.txs \in Seq(Transaction)
    BY DEF StoreInv, TypeOK, Content
  <2> DEFINE told == [view[h] EXCEPT !.at = file]
  <2>4. told \in View /\ told.open = view[h].open /\ told.at = file /\ told.token = view[h].token
    BY <2>3 DEF View
  <2>5. view' = [view EXCEPT ![h] = told]
    BY <2>1, <2>3
  <2> HIDE DEF told
  <2>6. /\ view'[h] = told /\ \A g \in Handles \ {h} : view'[g] = view[g]
        /\ view' \in [Handles -> View]
    BY <2>3, <2>4, <2>5
  <2>7. TypeOK'
    BY <1>2, <2>1, <2>2, <2>3, <2>6 DEF StoreInv, TypeOK
  <2>8. DiskFollows'
    <3>1. Begins(file.txs, file.txs)
      BY <2>3, BeginsOrder
    <3> QED BY <1>2, <2>1, <3>1 DEF StoreInv, DiskFollows
  <2>9. CommitAlone'
    BY <2>2, IdleAlone
  <2>10. NonceOwned'
    <3>1. \A g \in Handles : view'[g].open = view[g].open /\ view'[g].token = view[g].token
      <4> TAKE g \in Handles
      <4>1. CASE g = h
        BY <2>4, <2>6, <4>1
      <4>2. CASE g # h
        BY <2>6, <4>2
      <4> QED BY <4>1, <4>2
    <3>2. lease \in Handles \cup {NoOne}
      BY DEF StoreInv, TypeOK
    <3> QED BY <1>2, <3>1, <3>2 DEF StoreInv, NonceOwned
  <2>11. Log!Acknowledge(h)
    <3>1. [g \in Handles |-> IF view[g].open THEN {view[g].at.txs} ELSE {}]'
            = [[g \in Handles |-> IF view[g].open THEN {view[g].at.txs} ELSE {}]
                 EXCEPT ![h] = {file.txs}]
      BY <1>1, <2>4, <2>6
    <3> QED BY <1>1, <1>2, <2>1, <3>1 DEF StoreInv, DiskFollows, Log!Acknowledge
  <2> QED BY <1>3, <2>7, <2>8, <2>9, <2>10, <2>11 DEF Good, StoreInv, LogStep, Log!Next
<1> QED BY <1>2, <1>4, <1>5

\* The backup is made, or the one that is there is compared.
LEMMA BackUpGood == ASSUME StoreInv, NEW h \in Handles, BackUp(h) PROVE Good
<1>1. /\ pc[h] = "backup" /\ meta = h /\ exists /\ view[h].open /\ file = view[h].at
      /\ file.version = "legacy" /\ (lease # NoOne => lease = h)
  BY DEF BackUp, StoreInv, CommitAlone
<1>2. UNCHANGED <<file, disk, exists, listed, saved, acked, writes, lease, token, leases>>
  BY DEF BackUp
<1>3. /\ UNCHANGED view /\ backup' \in {"none", "part", "full", "unneeded"}
      /\ \/ Fail(h)
         \/ \E step \in {"save", "replace"} :
              /\ pc' = [pc EXCEPT ![h] = step] /\ meta' = meta /\ backup' = "full"
  BY DEF BackUp, Fail, Accepted, StoreInv, TypeOK
<1>4. Exclusive /\ BackedUp /\ LogStep
  <2>1. LogStep
    BY <1>2, <1>3, SameLog
  <2> QED BY <1>2, <2>1 DEF Exclusive, BackedUp
<1>5. CASE Fail(h)
  <2>1. /\ meta' = NoOne /\ UNCHANGED view
        /\ pc' \in [Handles -> Steps] /\ \A g \in Handles : pc'[g] = "idle"
    BY <1>1, <1>5, FailEnds
  <2>2. CommitAlone'
    BY <2>1, IdleAlone
  <2>3. TypeOK' /\ DiskFollows' /\ NonceOwned'
    BY <1>2, <1>3, <2>1 DEF StoreInv, TypeOK, DiskFollows, NonceOwned
  <2> QED BY <1>4, <2>2, <2>3 DEF Good, StoreInv
<1>6. CASE \E step \in {"save", "replace"} :
             pc' = [pc EXCEPT ![h] = step] /\ meta' = meta /\ backup' = "full"
  <2>1. PICK step \in {"save", "replace"} :
          pc' = [pc EXCEPT ![h] = step] /\ meta' = meta /\ backup' = "full"
    BY <1>6
  <2>2. /\ pc'[h] = step /\ pc' \in [Handles -> Steps]
        /\ \A g \in Handles \ {h} : pc'[g] = "idle"
    BY <1>1, <2>1, Advances DEF Steps
  <2>3. CommitAlone'
    BY <1>1, <1>2, <1>3, <2>1, <2>2 DEF CommitAlone
  <2>4. TypeOK' /\ DiskFollows' /\ NonceOwned'
    BY <1>2, <1>3, <2>1, <2>2 DEF StoreInv, TypeOK, DiskFollows, NonceOwned
  <2> QED BY <1>4, <2>3, <2>4 DEF Good, StoreInv
<1> QED BY <1>3, <1>5, <1>6

\* The backup is synchronized.
LEMMA SaveBackupGood == ASSUME StoreInv, NEW h \in Handles, SaveBackup(h) PROVE Good
<1>1. /\ pc[h] = "save" /\ meta = h /\ exists /\ view[h].open /\ file = view[h].at
      /\ file.version = "legacy" /\ backup = "full" /\ (lease # NoOne => lease = h)
  BY DEF SaveBackup, StoreInv, CommitAlone
<1>2. UNCHANGED <<file, disk, exists, listed, backup, acked, writes, lease, token, leases>>
  BY DEF SaveBackup
<1>3. /\ UNCHANGED view /\ saved' \in BOOLEAN
      /\ \/ Fail(h)
         \/ pc' = [pc EXCEPT ![h] = "replace"] /\ meta' = meta
  <2>1. UNCHANGED view /\ (Fail(h) \/ (pc' = [pc EXCEPT ![h] = "replace"] /\ meta' = meta))
    BY DEF SaveBackup, Fail
  <2>2. saved' = TRUE \/ saved' = saved
    BY Zenon DEF SaveBackup
  <2>3. saved' \in BOOLEAN
    BY <2>2, Zenon DEF StoreInv, TypeOK
  <2> QED BY <2>1, <2>3
<1>4. Exclusive /\ BackedUp /\ LogStep
  <2>1. LogStep
    BY <1>2, <1>3, SameLog
  <2> QED BY <1>2, <2>1 DEF Exclusive, BackedUp
<1>5. CASE Fail(h)
  <2>1. /\ meta' = NoOne /\ UNCHANGED view
        /\ pc' \in [Handles -> Steps] /\ \A g \in Handles : pc'[g] = "idle"
    BY <1>1, <1>5, FailEnds
  <2>2. CommitAlone'
    BY <2>1, IdleAlone
  <2>3. TypeOK' /\ DiskFollows' /\ NonceOwned'
    BY <1>2, <1>3, <2>1 DEF StoreInv, TypeOK, DiskFollows, NonceOwned
  <2> QED BY <1>4, <2>2, <2>3 DEF Good, StoreInv
<1>6. CASE pc' = [pc EXCEPT ![h] = "replace"] /\ meta' = meta
  <2>1. /\ pc'[h] = "replace" /\ pc' \in [Handles -> Steps]
        /\ \A g \in Handles \ {h} : pc'[g] = "idle"
    BY <1>1, <1>6, Advances DEF Steps
  <2>2. CommitAlone'
    BY <1>1, <1>2, <1>3, <1>6, <2>1 DEF CommitAlone
  <2>3. TypeOK' /\ DiskFollows' /\ NonceOwned'
    BY <1>2, <1>3, <1>6, <2>1 DEF StoreInv, TypeOK, DiskFollows, NonceOwned
  <2> QED BY <1>4, <2>2, <2>3 DEF Good, StoreInv
<1> QED BY <1>3, <1>5, <1>6

\* The snapshot takes the place of the legacy file, whose backup is whole.
LEMMA ReplaceGood == ASSUME StoreInv, NEW h \in Handles, Replace(h) PROVE Good
<1>1. /\ pc[h] = "replace" /\ meta = h /\ exists /\ view[h].open /\ file = view[h].at
      /\ file.version = "legacy" /\ backup = "full" /\ (lease # NoOne => lease = h)
  BY DEF Replace, StoreInv, CommitAlone
<1>2. UNCHANGED <<view, exists, listed, backup, saved, acked, lease, token, leases>>
  BY DEF Replace, Fail
<1>3. Exclusive /\ BackedUp
  BY <1>1, <1>2 DEF Exclusive, BackedUp
<1>4. CASE Fail(h) /\ UNCHANGED <<file, disk, writes>>
  <2>1. /\ meta' = NoOne /\ UNCHANGED view
        /\ pc' \in [Handles -> Steps] /\ \A g \in Handles : pc'[g] = "idle"
    BY <1>1, <1>4, FailEnds
  <2>2. CommitAlone'
    BY <2>1, IdleAlone
  <2>3. TypeOK' /\ DiskFollows' /\ NonceOwned'
    BY <1>2, <1>4, <2>1 DEF StoreInv, TypeOK, DiskFollows, NonceOwned
  <2>4. LogStep
    BY <1>2, <1>4, SameLog
  <2> QED BY <1>3, <2>2, <2>3, <2>4 DEF Good, StoreInv
<1> DEFINE t == <<h, writes + 1>>
<1>5. CASE /\ \E txs \in {<<>>, <<t>>} :
                file' = Contents("v3", txs) /\ writes' = writes + Len(txs)
           /\ disk' = disk \cup {file'}
           /\ pc' = [pc EXCEPT ![h] = "sync"] /\ UNCHANGED meta
  <2>1. PICK txs \in {<<>>, <<t>>} : file' = Contents("v3", txs) /\ writes' = writes + Len(txs)
    BY <1>5
  <2>2. writes \in Nat /\ writes + 1 \in Nat /\ t \in Transaction
    BY DEF StoreInv, TypeOK, Transaction
  <2>3. /\ txs \in Seq(Transaction) /\ writes' \in Nat
        /\ txs = <<>> \/ txs = Append(<<>>, t)
    <3> HIDE DEF t
    <3>1. /\ <<>> \in Seq(Transaction) /\ <<t>> \in Seq(Transaction)
          /\ Len(<<>>) = 0 /\ Len(<<t>>) = 1 /\ <<t>> = Append(<<>>, t)
      BY <2>2
    <3>2. CASE txs = <<>>
      BY <2>1, <2>2, <3>1, <3>2
    <3>3. CASE txs = <<t>>
      BY <2>1, <2>2, <3>1, <3>3
    <3> QED BY <2>1, <3>2, <3>3
  <2>4. /\ file' \in Content /\ file'.txs = txs /\ file'.version = "v3"
    BY <2>1, <2>3 DEF Contents, Content
  <2>5. file.txs = <<>> /\ \A c \in disk : c.txs = <<>>
    BY <1>1 DEF StoreInv, DiskFollows
  <2>6. acked = <<>>
    <3>1. acked \in Seq(Transaction) /\ Begins(acked, <<>>)
      BY <2>5 DEF StoreInv, TypeOK, DiskFollows
    <3> QED BY <3>1 DEF Begins
  <2>7. /\ Begins(<<>>, txs) /\ Begins(txs, txs)
        /\ txs # <<>> => Log!OneMore(<<>>, txs, h)
    <3>1. <<>> \in Seq(Transaction)
      OBVIOUS
    <3>2. Begins(<<>>, txs) /\ Begins(txs, txs)
      BY <2>3, BeginsOrder
    <3>3. Log!OneMore(<<>>, Append(<<>>, t), h)
      BY <2>2, <3>1, OneMoreBegins
    <3> QED BY <2>3, <3>2, <3>3
  <2> HIDE DEF t
  <2>8. /\ pc'[h] = "sync" /\ pc' \in [Handles -> Steps]
        /\ \A g \in Handles \ {h} : pc'[g] = "idle"
    BY <1>1, <1>5, Advances DEF Steps
  <2>9. TypeOK'
    BY <1>2, <1>5, <2>3, <2>4, <2>8 DEF StoreInv, TypeOK
  <2>10. DiskFollows'
    <3>1. \A c \in disk' : Begins(acked', c.txs) /\ Begins(c.txs, file'.txs)
      BY <1>2, <1>5, <2>4, <2>5, <2>6, <2>7 DEF StoreInv, DiskFollows
    <3>2. \A c \in disk' : c.version = "legacy" => c.txs = <<>>
      BY <1>5, <2>4, <2>5
    <3> QED BY <1>1, <1>2, <2>4, <2>6, <2>7, <3>1, <3>2 DEF StoreInv, DiskFollows
  <2>11. CommitAlone'
    BY <1>1, <1>2, <1>5, <2>4, <2>5, <2>7, <2>8 DEF CommitAlone
  <2>12. NonceOwned'
    BY <1>2 DEF StoreInv, NonceOwned
  <2>13. LogStep
    <3>1. CASE txs = <<>>
      BY <1>2, <2>4, <2>5, <3>1 DEF LogStep, Log!vars
    <3>2. CASE txs # <<>>
      <4>1. Log!Commit(h)
        BY <1>1, <1>2, <2>4, <2>5, <2>7, <3>2 DEF Log!Commit, StoreInv, DiskFollows
      <4> QED BY <4>1 DEF LogStep, Log!Next
    <3> QED BY <3>1, <3>2
  <2> QED BY <1>3, <2>9, <2>10, <2>11, <2>12, <2>13 DEF Good, StoreInv
<1> QED BY <1>4, <1>5 DEF Replace

\* The power fails: what is left is a beginning of the log, with all that was
\* acknowledged.
LEMMA PowerLossGood == StoreInv /\ PowerLoss => Good
<1> SUFFICES ASSUME StoreInv, PowerLoss PROVE Good
  OBVIOUS
<1>1. /\ listed /\ exists' = TRUE /\ file' \in disk /\ disk' = {file'}
      /\ meta' = NoOne /\ lease' = NoOne
      /\ view' = [h \in Handles |-> NoView] /\ pc' = [h \in Handles |-> "idle"]
      /\ UNCHANGED <<listed, acked, writes, token, leases>>
  BY DEF PowerLoss
<1>2. /\ backup' \in {"none", "part", "full", "unneeded"}
      /\ saved' \in BOOLEAN
  <2>1. backup' \in {"none", "part", "full", "unneeded"}
    BY DEF PowerLoss, StoreInv, TypeOK
  <2>2. saved' = (backup' \in {"part", "full"})
    BY Zenon DEF PowerLoss
  <2> QED BY <2>1, <2>2
<1>3. NoView \in View /\ NoView.token = 0 /\ ~NoView.open
  BY DEF StoreInv, TypeOK, NoView, View, Contents, Content
<1>4. \A h \in Handles : view'[h] = NoView /\ pc'[h] = "idle"
  BY <1>1
<1>5. file' \in Content /\ file \in Content /\ acked \in Seq(Transaction)
  BY <1>1 DEF StoreInv, TypeOK
<1>6. TypeOK'
  BY <1>1, <1>2, <1>3, <1>5 DEF StoreInv, TypeOK, Steps
<1>7. file'.txs \in Seq(Transaction) /\ file.txs \in Seq(Transaction)
  BY <1>5 DEF Content
<1>8. Begins(acked, file'.txs) /\ Begins(file'.txs, file.txs) /\ Begins(file'.txs, file'.txs)
  BY <1>1, <1>7, BeginsOrder DEF StoreInv, DiskFollows
<1>9. DiskFollows'
  BY <1>1, <1>8 DEF StoreInv, DiskFollows
<1>10. CommitAlone'
  BY <1>4, IdleAlone
<1>11. NonceOwned'
  BY <1>1, <1>3, <1>4 DEF StoreInv, TypeOK, NonceOwned
<1>12. Log!PowerLoss
  <2>1. file'.txs = SubSeq(file.txs, 1, Len(file'.txs))
    BY <1>7, <1>8, BeginsIsCut
  <2>2. Len(file'.txs) \in Len(acked)..Len(file.txs)
    BY <1>5, <1>7, <1>8 DEF Begins
  <2>3. [h \in Handles |-> IF view[h].open THEN {view[h].at.txs} ELSE {}]'
          = [h \in Handles |-> {}]
    BY <1>3, <1>4
  <2> QED BY <1>1, <2>1, <2>2, <2>3 DEF Log!PowerLoss
<1>13. Exclusive /\ BackedUp
  <2>1. BackedUp
    BY <1>1 DEF StoreInv, DiskFollows, BackedUp
  <2> QED BY <1>1, <2>1 DEF Exclusive
<1> QED BY <1>6, <1>9, <1>10, <1>11, <1>12, <1>13 DEF Good, StoreInv, LogStep, Log!Next

\* Every step is good, one that changes nothing too.
LEMMA StepGood == StoreInv /\ [Next]_vars => Good
<1> SUFFICES ASSUME StoreInv, [Next]_vars PROVE Good
  OBVIOUS
<1>1. CASE Delete
  BY <1>1, DeleteGood
<1>2. CASE PowerLoss \/ DirectorySynced
  BY <1>2, PowerLossGood, DirectorySyncedGood
<1>3. ASSUME NEW h \in Handles, Handle(h) PROVE Good
  <2>1. CASE OpenView(h)
    BY <2>1, OpenViewGood
  <2>2. CASE Acquire(h)
    BY <2>2, AcquireGood
  <2>3. CASE Release(h)
    BY <2>3, ReleaseGood
  <2>4. CASE Exit(h)
    BY <2>4, ExitGood
  <2>5. CASE Begin(h)
    BY <2>5, BeginGood
  <2>6. CASE AppendRecord(h)
    BY <2>6, AppendRecordGood
  <2>7. CASE Sync(h)
    BY <2>7, SyncGood
  <2>8. CASE BackUp(h)
    BY <2>8, BackUpGood
  <2>9. CASE SaveBackup(h)
    BY <2>9, SaveBackupGood
  <2>10. CASE Replace(h)
    BY <2>10, ReplaceGood
  <2> QED BY <1>3, <2>1, <2>2, <2>3, <2>4, <2>5, <2>6, <2>7, <2>8, <2>9, <2>10 DEF Handle
<1>4. CASE UNCHANGED vars
  <2>1. UNCHANGED <<file, disk, exists, listed, backup, saved, meta, lease, token, view, pc,
                    writes, leases, acked>>
    BY <1>4 DEF vars
  <2>2. TypeOK' /\ DiskFollows' /\ CommitAlone' /\ NonceOwned'
    BY <2>1 DEF StoreInv, TypeOK, DiskFollows, CommitAlone, NonceOwned
  <2>3. LogStep
    BY <2>1, SameLog
  <2> QED BY <2>1, <2>2, <2>3 DEF Good, StoreInv, Exclusive, BackedUp
<1> QED BY <1>1, <1>2, <1>3, <1>4 DEF Next

-----------------------------------------------------------------------------
(* The theorems.                                                           *)

\* Whatever fails, and whenever: everything acknowledged is at the beginning of
\* everything the disk may hold, and one commit at most is in progress, by the
\* owner of the run if there is one.
THEOREM Invariance == Spec => []StoreInv
<1>1. Init => StoreInv
  BY InitInv
<1>2. StoreInv /\ [Next]_vars => StoreInv'
  BY StepGood DEF Good
<1> QED BY <1>1, <1>2, PTL DEF Spec

\* The file implements the log its clients are promised: appends go to the log
\* the view has seen, a torn batch is no part of it, and what was acknowledged
\* survives (jsonl.rs:175-279).
THEOREM LogImplemented == Spec => LogSpec
<1>1. Init => Log!Init
  <2> SUFFICES ASSUME Init PROVE Log!Init
    OBVIOUS
  <2>1. exists = TRUE /\ listed = TRUE /\ acked = <<>> /\ view = [h \in Handles |-> NoView]
    BY Zenon DEF Init
  <2>2. file.txs = <<>>
    BY DEF Init, Contents
  <2>3. \A h \in Handles : ~view[h].open
    BY <2>1 DEF NoView
  <2> QED BY <2>1, <2>2, <2>3 DEF Log!Init
<1>2. StoreInv /\ [Next]_vars => [Log!Next]_Log!vars
  BY StepGood DEF Good, LogStep
<1> QED BY <1>1, <1>2, Invariance, PTL DEF Spec, LogSpec, Log!Spec

\* The owner of the run is the only one to change the file, and nobody deletes
\* it under them (jsonl.rs:134-149).
THEOREM OwnerExclusiveHolds == Spec => OwnerExclusive
<1>1. StoreInv /\ [Next]_vars =>
        [(lease # NoOne /\ lease' = lease) => (file' = file \/ meta = lease) /\ exists' = exists]_vars
  BY StepGood DEF Good, Exclusive
<1> QED BY <1>1, Invariance, PTL DEF Spec, OwnerExclusive

\* A legacy file gives way to a v3 file only when its backup is whole
\* (jsonl.rs:203-216).
THEOREM ReplacedOnlyBackedUpHolds == Spec => ReplacedOnlyBackedUp
<1>1. StoreInv /\ [Next]_vars =>
        [file.version = "legacy" /\ file'.version = "v3" => backup' = "full"]_vars
  BY StepGood DEF Good, BackedUp
<1> QED BY <1>1, Invariance, PTL DEF Spec, ReplacedOnlyBackedUp

=============================================================================
