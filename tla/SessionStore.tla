---------------------------- MODULE SessionStore ----------------------------
(***************************************************************************)
(* One session of the JSONL repository                                     *)
(* (aicoder-runtime/src/session/jsonl.rs, the commit of archive.rs): its   *)
(* file, its two lock files and the backup of a legacy file, used by       *)
(* handles in several processes.  A commit checks the run lease and the    *)
(* fingerprint, cuts a torn tail, appends one record and synchronizes it;  *)
(* a legacy file is first copied to a backup and replaced by rename.  Any  *)
(* call may fail, a process may die at any step, and the power may fail.   *)
(***************************************************************************)
EXTENDS Naturals, Sequences

CONSTANTS
  Handles,     \* views of the session, each in a process of its own
  MaxWrites,   \* bound: appends attempted
  MaxLeases    \* bound: run leases acquired

NoOne == "no one"

ASSUME StoreAssumption ==
  MaxWrites \in Nat /\ MaxLeases \in Nat /\ NoOne \notin Handles

VARIABLES
  file,     \* the session's file as every process reads it
  disk,     \* the contents a power loss may leave
  exists,   \* processes find the file
  listed,   \* so they would after a power loss
  backup,   \* the backup: "none", "part" or "full"; "unneeded" for a v3 session
  saved,    \* the backup has been synchronized
  meta,     \* holder of the metadata lock
  lease,    \* holder of the run lock
  token,    \* nonce in the run lock's file
  view,     \* handle -> its session view
  pc,       \* handle -> step of the commit it is in
  writes, leases,  \* appends attempted, leases acquired
  acked     \* transactions acknowledged to a client

data == <<file, disk, exists, listed, backup, saved, acked, writes>>
locks == <<meta, lease, token, leases>>
vars == <<file, disk, exists, listed, backup, saved, meta, lease, token, view, pc, writes,
          leases, acked>>

-----------------------------------------------------------------------------
(* The file: whole records, perhaps the last without its newline, perhaps  *)
(* bytes of a record behind them.                                          *)

Contents(version, txs) == [version |-> version, txs |-> txs, bare |-> FALSE, torn |-> {}]

\* What the file goes through while transaction t is appended: the torn tail is
\* cut, a missing separator is written, then the record byte by byte.
Stages(c, t) ==
  LET cut == [c EXCEPT !.torn = {}]
      separated == [cut EXCEPT !.bare = FALSE]
  IN <<cut, separated, [separated EXCEPT !.torn = {t}],
       [separated EXCEPT !.txs = Append(@, t), !.bare = TRUE],
       [separated EXCEPT !.txs = Append(@, t)]>>

NoView == [open |-> FALSE, at |-> Contents("v3", <<>>), token |-> 0]

Init ==
  /\ file \in {Contents(v, <<>>) : v \in {"legacy", "v3"}}
  /\ disk = {file} /\ exists = TRUE /\ listed = TRUE
  /\ backup = IF file.version = "legacy" THEN "none" ELSE "unneeded"
  /\ saved = FALSE
  /\ meta = NoOne /\ lease = NoOne /\ token = 0
  /\ view = [h \in Handles |-> NoView]
  /\ pc = [h \in Handles |-> "idle"]
  /\ writes = 0 /\ leases = 0 /\ acked = <<>>

-----------------------------------------------------------------------------
(* Opening, the run lease, deletion                                        *)

\* open, open_run, open_window: under the shared metadata lock, which no writer
\* holds meanwhile; the cursor covers the torn tail too.
OpenView(h) ==
  /\ exists /\ meta = NoOne /\ ~view[h].open
  /\ view' = [view EXCEPT ![h] = [NoView EXCEPT !.open = TRUE, !.at = file]]
  /\ UNCHANGED <<data, locks, pc>>

Acquire(h) ==
  /\ exists /\ view[h].open /\ pc[h] = "idle"
  /\ meta = NoOne /\ lease = NoOne /\ leases < MaxLeases
  /\ leases' = leases + 1 /\ token' = leases' /\ lease' = h
  /\ view' = [view EXCEPT ![h].token = leases']
  /\ UNCHANGED <<data, meta, pc>>

\* The lease is dropped; the view keeps its nonce.
Release(h) ==
  /\ lease = h /\ pc[h] = "idle" /\ lease' = NoOne
  /\ UNCHANGED <<data, meta, token, leases, view, pc>>

\* write_lease, under the metadata lock: an idle run lock is taken for the
\* length of the call, a busy one must carry the caller's nonce.
MayWrite_AnyNonce(nonce) == lease = NoOne \/ nonce # {}
MayWrite(nonce) == lease = NoOne \/ nonce = {token}

\* remove_file; what holds the locks until delete returns needs a file to be found.
Delete ==
  /\ exists /\ meta = NoOne /\ MayWrite({})
  /\ exists' = FALSE
  /\ UNCHANGED <<file, disk, listed, backup, saved, acked, writes, locks, view, pc>>

\* sync_directory, and delete returns; if that fails the system may do it later.
DirectorySynced ==
  /\ ~exists /\ listed
  /\ listed' = FALSE /\ acked' = <<>>
  /\ UNCHANGED <<file, disk, exists, backup, saved, writes, locks, view, pc>>

-----------------------------------------------------------------------------
(* A commit                                                                *)

Unchanged_Skipped(h) == TRUE
Unchanged(h) == file = view[h].at

\* The locks are taken, the lease and the fingerprint compared; a conflict or a
\* missing lease leaves everything as it is.
Begin(h) ==
  /\ exists /\ view[h].open /\ pc[h] = "idle" /\ meta = NoOne /\ writes < MaxWrites
  /\ MayWrite(IF view[h].token = 0 THEN {} ELSE {view[h].token})
  /\ Unchanged(h)
  /\ meta' = h
  /\ pc' = [pc EXCEPT ![h] = IF view[h].at.version = "legacy" THEN "backup" ELSE "append"]
  /\ UNCHANGED <<data, lease, token, leases, view>>

Fail(h) == pc' = [pc EXCEPT ![h] = "idle"] /\ meta' = NoOne /\ UNCHANGED view

\* The call returns: the view is at the new end of the log.
Succeed(h) ==
  /\ acked' = file.txs /\ disk' = {file}
  /\ view' = [view EXCEPT ![h].at = file]
  /\ pc' = [pc EXCEPT ![h] = "idle"] /\ meta' = NoOne

\* set_len and the writes; an error leaves what has been written so far.
AppendRecord(h) ==
  /\ pc[h] = "append"
  /\ writes' = writes + 1
  /\ LET stages == Stages(view[h].at, <<h, writes'>>)
     IN \E n \in 1..5 :
          /\ file' = stages[n]
          /\ disk' = disk \cup {stages[k] : k \in 1..n}
          /\ IF n = 5 THEN pc' = [pc EXCEPT ![h] = "sync"] /\ UNCHANGED <<meta, view>>
                      ELSE Fail(h)
  /\ UNCHANGED <<exists, listed, backup, saved, acked, lease, token, leases>>

\* sync_data, the last step of an append, or the synchronization of the
\* directory after a rename.
Sync(h) ==
  /\ pc[h] = "sync"
  /\ Succeed(h) \/ (Fail(h) /\ UNCHANGED <<acked, disk>>)
  /\ UNCHANGED <<file, exists, listed, backup, saved, writes, lease, token, leases>>

-----------------------------------------------------------------------------
(* The first commit of a legacy session                                    *)

Accepted_Any(b) == b # "none"
Accepted(b) == b = "full"

\* The backup is created and written, or one is there and is compared.
BackUp(h) ==
  /\ pc[h] = "backup"
  /\ \/ /\ backup = "none"
        /\ \/ backup' = "full" /\ pc' = [pc EXCEPT ![h] = "save"] /\ UNCHANGED <<meta, view>>
           \/ backup' \in {"none", "part"} /\ Fail(h)
     \/ /\ backup # "none" /\ Accepted(backup)
        /\ pc' = [pc EXCEPT ![h] = "replace"] /\ UNCHANGED <<backup, meta, view>>
     \/ backup # "none" /\ ~Accepted(backup) /\ Fail(h) /\ UNCHANGED backup
  /\ UNCHANGED <<file, disk, exists, listed, saved, acked, writes, lease, token, leases>>

\* sync_all of the backup, then of the directory.
SaveBackup(h) ==
  /\ pc[h] = "save"
  /\ \/ saved' = TRUE /\ pc' = [pc EXCEPT ![h] = "replace"] /\ UNCHANGED <<meta, view>>
     \/ Fail(h) /\ UNCHANGED saved
  /\ UNCHANGED <<file, disk, exists, listed, backup, acked, writes, lease, token, leases>>

\* atomic_replace up to the rename: the snapshot with the transaction, or
\* without one when the caller only migrates.
Replace(h) ==
  /\ pc[h] = "replace"
  /\ \/ /\ \E txs \in {<<>>, <<<<h, writes + 1>>>>} :
             file' = Contents("v3", txs) /\ writes' = writes + Len(txs)
        /\ disk' = disk \cup {file'}
        /\ pc' = [pc EXCEPT ![h] = "sync"] /\ UNCHANGED <<meta, view>>
     \/ Fail(h) /\ UNCHANGED <<file, disk, writes>>
  /\ UNCHANGED <<exists, listed, backup, saved, acked, lease, token, leases>>

-----------------------------------------------------------------------------
(* Faults                                                                  *)

\* The process of h exits, with or without Drop: the system frees its locks.
Exit(h) ==
  /\ view[h].open
  /\ view' = [view EXCEPT ![h] = NoView] /\ pc' = [pc EXCEPT ![h] = "idle"]
  /\ meta' = IF meta = h THEN NoOne ELSE meta
  /\ lease' = IF lease = h THEN NoOne ELSE lease
  /\ UNCHANGED <<data, token, leases>>

\* The machine restarts with what had reached the disk; a deletion that had not
\* is undone.
PowerLoss ==
  /\ listed /\ exists' = listed
  /\ file' \in disk /\ disk' = {file'}
  /\ backup' \in (IF saved \/ backup = "unneeded" THEN {backup} ELSE {"none", "part", backup})
  /\ saved' = (backup' \in {"part", "full"})
  /\ meta' = NoOne /\ lease' = NoOne
  /\ view' = [h \in Handles |-> NoView] /\ pc' = [h \in Handles |-> "idle"]
  /\ UNCHANGED <<listed, acked, writes, token, leases>>

Handle(h) ==
  \/ OpenView(h) \/ Acquire(h) \/ Release(h) \/ Exit(h)
  \/ Begin(h) \/ AppendRecord(h) \/ Sync(h) \/ BackUp(h) \/ SaveBackup(h) \/ Replace(h)
Next == Delete \/ DirectorySynced \/ PowerLoss \/ \E h \in Handles : Handle(h)
Spec == Init /\ [][Next]_vars

-----------------------------------------------------------------------------
(* Properties                                                              *)

Log == INSTANCE SessionLog WITH
  log <- IF listed THEN file.txs ELSE <<>>,
  seen <- [h \in Handles |-> IF view[h].open THEN {view[h].at.txs} ELSE {}],
  gone <- IF exists THEN "no" ELSE IF listed THEN "removed" ELSE "forever"

\* The file is one log: records of a stale view are refused and lose nothing,
\* a torn batch is no part of it, an acknowledged transaction survives failed
\* writes, dead processes and power losses, and an acknowledged deletion is final
\* (jsonl.rs:175-279, 485-491).
LogSpec == Log!Spec

\* While a handle owns the run nobody else changes or deletes the file, also
\* not the holder of an earlier lease (jsonl.rs:134-149).
OwnerExclusive ==
  [][(lease # NoOne /\ lease' = lease) => (file' = file \/ meta = lease) /\ exists' = exists]_vars

\* A legacy file gives way only when its backup is there, whole, whatever an
\* earlier migration left behind (jsonl.rs:203-216).
ReplacedOnlyBackedUp ==
  [][file.version = "legacy" /\ file'.version = "v3" => backup' = "full"]_vars

\* docs/sessions.md: a migration "creates an exact [backup], synchronizes it,
\* then writes and atomically renames a v3 snapshot".
OriginalSurvives == file.version = "v3" => backup \in {"unneeded", "full"}
=============================================================================
