--------------------------- MODULE AuditRetention ---------------------------
(***************************************************************************)
(* Retention of the audit log: rows older than the limit are written to an *)
(* archive file, batch by batch, and deleted; administrators restore       *)
(* files.  Runs are started by the timer of the leading backend and by     *)
(* requests to any backend; a lock of the event loop keeps those of one    *)
(* process apart, nothing those of two.                                    *)
(*                                                                         *)
(* The archive is written by a thread.  When the coroutine is cancelled    *)
(* the thread goes on, and the lock is free.  A row is a number, given in  *)
(* the order of creation; a file is the set of rows in it.                 *)
(***************************************************************************)
EXTENDS Naturals, FiniteSets, FiniteSetTheorems, TLAPS

CONSTANTS
    LogRows,        \* numbers of rows, in the order of created_at
    Processes,      \* backends
    AUDIT_RETENTION_BATCH_SIZE,
    MaxRetentionRuns,       \* bound: runs
    MaxRestores,            \* bound: restored files
    MaxRetentionMishaps     \* bound: runs that are cut off or fail

ASSUME RowsAssumption == LogRows \subseteq Nat /\ IsFiniteSet(LogRows)
ASSUME BatchSizeAssumption == AUDIT_RETENTION_BATCH_SIZE \in Nat \ {0}
ASSUME RunsAssumption ==
    MaxRetentionRuns \in Nat /\ MaxRestores \in Nat /\ MaxRetentionMishaps \in Nat

VARIABLES
    table,      \* rows in the database
    oldest,     \* rows up to this number are past the retention period of the settings
    files,      \* archives under their final names
    policy,     \* audit_archive_enabled
    run,        \* the run that holds the lock of each process
    threads,    \* writes that go on after their run was cancelled, by process
    restore,    \* the restoration that is under way
    waived,     \* history: rows deleted by a run that found archiving switched off
    counts      \* runs, restorations and mishaps so far

retentionVars == <<table, oldest, files, policy, run, threads, restore, waived, counts>>

NoRetentionRun == [at |-> "idle", archive |-> FALSE, cutoff |-> 0, batch |-> {}]
NothingRestored == [at |-> "idle", rows |-> {}, existing |-> {}]

RetentionStart(archive) ==
    /\ table = LogRows /\ oldest = 0 /\ files = {}
    /\ policy = archive
    /\ run = [p \in Processes |-> NoRetentionRun]
    /\ threads = [p \in Processes |-> {}]
    /\ restore = NothingRestored
    /\ waived = {}
    /\ counts = [runs |-> 0, restores |-> 0, mishaps |-> 0]

RetentionInit == \E archive \in BOOLEAN : RetentionStart(archive)

Counted(what, limit) == counts[what] < limit /\ counts' = [counts EXCEPT ![what] = @ + 1]
RunGoesTo(p, at) == run' = [run EXCEPT ![p].at = at]

RowsDue(cutoff) == {i \in table : i <= cutoff}

(* Time goes on. *)
TimePasses ==
    /\ oldest < Cardinality(LogRows) /\ oldest' = oldest + 1
    /\ UNCHANGED <<table, files, policy, run, threads, restore, waived, counts>>

(* A longer period makes fewer rows due, a shorter one more. *)
update_audit_retention_settings(archive, due) ==
    /\ policy' = archive /\ oldest' = due
    /\ UNCHANGED <<table, files, run, threads, restore, waived, counts>>

(* The settings and the clock are read once, at the beginning of the run. *)
RetentionBegins(p) ==
    /\ run[p].at = "idle" /\ Counted("runs", MaxRetentionRuns)
    /\ run' = [run EXCEPT ![p] = [NoRetentionRun EXCEPT !.at = "read", !.archive = policy,
                                                  !.cutoff = oldest]]
    /\ UNCHANGED <<table, oldest, files, policy, threads, restore, waived>>

(* The oldest rows of those that are due.  Without any the run is over. *)
ReadBatch(p) ==
    LET due == RowsDue(run[p].cutoff)
        batch == {i \in due : Cardinality({j \in due : j < i}) < AUDIT_RETENTION_BATCH_SIZE}
    IN  /\ run[p].at = "read"
        /\ run' = [run EXCEPT ![p] =
             IF batch = {} THEN NoRetentionRun
             ELSE [@ EXCEPT !.batch = batch, !.at = IF run[p].archive THEN "archive"
                                                    ELSE "delete"]]
        /\ UNCHANGED <<table, oldest, files, policy, threads, restore, waived, counts>>

(* write_archive: a temporary file gets the name of an archive when it is  *)
(* complete, so that a write that is cut off leaves no archive.            *)
write_archive(p) ==
    /\ run[p].at = "archive"
    /\ files' = files \cup {run[p].batch}
    /\ RunGoesTo(p, "delete")
    /\ UNCHANGED <<table, oldest, policy, threads, restore, waived, counts>>

(* In place of DeleteBatch: all rows that are due are deleted. *)
DeleteExpired(p) ==
    /\ run[p].at = "delete"
    /\ table' = table \ RowsDue(run[p].cutoff)
    /\ waived' = IF run[p].archive THEN waived ELSE waived \cup run[p].batch
    /\ RunGoesTo(p, "read")
    /\ UNCHANGED <<oldest, files, policy, threads, restore, counts>>

(* By the numbers that were read; committed at once. *)
DeleteBatch(p) ==
    /\ run[p].at = "delete"
    /\ table' = table \ run[p].batch
    /\ waived' = IF run[p].archive THEN waived ELSE waived \cup run[p].batch
    /\ RunGoesTo(p, "read")
    /\ UNCHANGED <<oldest, files, policy, threads, restore, counts>>

(* The disk is full or the database locked; the session is rolled back. *)
RetentionFails(p) ==
    /\ run[p].at \in {"archive", "delete"} /\ Counted("mishaps", MaxRetentionMishaps)
    /\ run' = [run EXCEPT ![p] = NoRetentionRun]
    /\ UNCHANGED <<table, oldest, files, policy, threads, restore, waived>>

(* The backend loses the lead or is stopped.  What a thread has begun goes *)
(* on.                                                                     *)
RetentionCancelled(p) ==
    /\ run[p].at # "idle" /\ Counted("mishaps", MaxRetentionMishaps)
    /\ threads' = IF run[p].at = "archive"
                  THEN [threads EXCEPT ![p] = @ \cup {run[p].batch}] ELSE threads
    /\ run' = [run EXCEPT ![p] = NoRetentionRun]
    /\ UNCHANGED <<table, oldest, files, policy, restore, waived>>

ThreadEnds(p, batch) ==
    /\ batch \in threads[p]
    /\ threads' = [threads EXCEPT ![p] = @ \ {batch}]
    /\ files' = files \cup {batch}
    /\ UNCHANGED <<table, oldest, policy, run, restore, waived, counts>>

BackendKilled(p) ==
    /\ run[p].at # "idle" \/ threads[p] # {}
    /\ Counted("mishaps", MaxRetentionMishaps)
    /\ run' = [run EXCEPT ![p] = NoRetentionRun]
    /\ threads' = [threads EXCEPT ![p] = {}]
    /\ UNCHANGED <<table, oldest, files, policy, restore, waived>>

-----------------------------------------------------------------------------
(* restore_audit_archive: the file is read and validated as a whole, the   *)
(* rows that exist are looked up, the others are inserted.                 *)

RestoreRead(f) ==
    /\ restore.at = "idle" /\ Counted("restores", MaxRestores)
    /\ restore' = [at |-> "lookup", rows |-> f, existing |-> {}]
    /\ UNCHANGED <<table, oldest, files, policy, run, threads, waived>>

RestoreLookup ==
    /\ restore.at = "lookup"
    /\ restore' = [restore EXCEPT !.at = "insert", !.existing = @ \cup (restore.rows \cap table)]
    /\ UNCHANGED <<table, oldest, files, policy, run, threads, waived, counts>>

(* The inserts and the record of the restoration are one transaction: a    *)
(* row that has appeared meanwhile makes all of it fail.                   *)
RestoreCommit ==
    LET inserted == restore.rows \ restore.existing
    IN
    /\ restore.at = "insert"
    /\ table' = IF inserted \cap table = {} THEN table \cup inserted ELSE table
    /\ restore' = NothingRestored
    /\ UNCHANGED <<oldest, files, policy, run, threads, waived, counts>>

RetentionNext ==
    \/ TimePasses
    \/ \E archive \in BOOLEAN, due \in 0..Cardinality(LogRows) :
         update_audit_retention_settings(archive, due)
    \/ \E p \in Processes :
         \/ RetentionBegins(p) \/ ReadBatch(p) \/ write_archive(p) \/ DeleteBatch(p)
         \/ RetentionFails(p) \/ RetentionCancelled(p) \/ BackendKilled(p)
         \/ \E b \in threads[p] : ThreadEnds(p, b)
    \/ (\E f \in files : RestoreRead(f)) \/ RestoreLookup \/ RestoreCommit

RetentionSpec == RetentionInit /\ [][RetentionNext]_retentionVars

-----------------------------------------------------------------------------
(* Whatever runs overlap, in one process or two, whatever is cancelled,    *)
(* killed, fails, is restored or changed in the settings meanwhile, no row *)
(* is lost: what is not in the table is in an archive, unless a run that   *)
(* found archiving switched off has deleted it.                            *)
NoLogLost == \A i \in LogRows : i \in table \cup waived \/ \E f \in files : i \in f

-----------------------------------------------------------------------------
(* Proofs.                                                                 *)

RetentionRun ==
    [at : {"idle", "read", "archive", "delete"}, archive : BOOLEAN, cutoff : Nat,
     batch : SUBSET LogRows]

(* The variables have their types; what is archived are rows of the log.   *)
RetentionTypeOK ==
    /\ table \subseteq LogRows /\ oldest \in Nat
    /\ files \subseteq SUBSET LogRows
    /\ policy \in BOOLEAN
    /\ run \in [Processes -> RetentionRun]
    /\ threads \in [Processes -> SUBSET SUBSET LogRows]
    /\ restore \in [at : {"idle", "lookup", "insert"}, rows : SUBSET LogRows,
                    existing : SUBSET LogRows]

(* A run that archives deletes nothing before the archive of its batch has *)
(* its final name; an archive never disappears.                            *)
ArchivedBeforeDeleted ==
    \A p \in Processes : run[p].at = "delete" /\ run[p].archive => run[p].batch \in files

RetentionInv == RetentionTypeOK /\ ArchivedBeforeDeleted /\ NoLogLost

-----------------------------------------------------------------------------

(* A shorter or longer period, or the passing of time, moves the limit     *)
(* within the natural numbers.                                             *)
LEMMA LimitIsNatural == \A due \in 0..Cardinality(LogRows) : due \in Nat
BY RowsAssumption, FS_CardinalityType

(* A run that has found a batch is a run.                                  *)
LEMMA BatchTaken ==
    ASSUME NEW r \in RetentionRun, NEW b \in SUBSET LogRows, NEW a \in {"archive", "delete"}
    PROVE  [r EXCEPT !.batch = b, !.at = a] \in RetentionRun
BY DEF RetentionRun

(* The invariant holds when the manager is installed.                      *)
LEMMA RetentionInitially == RetentionInit => RetentionInv
BY DEF RetentionInit, RetentionStart, RetentionInv, RetentionTypeOK, ArchivedBeforeDeleted,
       NoLogLost, RetentionRun, NoRetentionRun, NothingRestored

(* No step of a run, a thread, a restoration, the clock or an              *)
(* administrator breaks the invariant.                                     *)
LEMMA RetentionStep == RetentionInv /\ [RetentionNext]_retentionVars => RetentionInv'
<1> SUFFICES ASSUME RetentionInv, [RetentionNext]_retentionVars PROVE RetentionInv'
  OBVIOUS
<1> USE DEF RetentionInv, RetentionTypeOK, ArchivedBeforeDeleted, NoLogLost, RetentionRun
<1>1. CASE TimePasses
  BY <1>1 DEF TimePasses
<1>2. ASSUME NEW archive \in BOOLEAN, NEW due \in 0..Cardinality(LogRows),
             update_audit_retention_settings(archive, due)
      PROVE  RetentionInv'
  BY <1>2, LimitIsNatural DEF update_audit_retention_settings
<1>3. ASSUME NEW p \in Processes, RetentionBegins(p) PROVE RetentionInv'
  BY <1>3 DEF RetentionBegins, NoRetentionRun
<1>4. ASSUME NEW p \in Processes, ReadBatch(p) PROVE RetentionInv'
  <2> DEFINE due == RowsDue(run[p].cutoff)
             batch == {i \in due : Cardinality({j \in due : j < i}) < AUDIT_RETENTION_BATCH_SIZE}
             at == IF run[p].archive THEN "archive" ELSE "delete"
             next == IF batch = {} THEN NoRetentionRun
                     ELSE [run[p] EXCEPT !.batch = batch, !.at = at]
  <2>1. batch \in SUBSET LogRows
    BY DEF RowsDue
  <2>2. /\ run' = [run EXCEPT ![p] = next]
        /\ UNCHANGED <<table, oldest, files, policy, threads, restore, waived>>
    BY <1>4 DEF ReadBatch
  <2>3. at \in {"archive", "delete"} /\ (run[p].archive => at # "delete")
    OBVIOUS
  <2> HIDE DEF batch, at
  <2>4. next \in RetentionRun
    <3>1. NoRetentionRun \in RetentionRun
      BY DEF NoRetentionRun
    <3>2. [run[p] EXCEPT !.batch = batch, !.at = at] \in RetentionRun
      <4>1. run[p] \in RetentionRun
        OBVIOUS
      <4>. QED BY <4>1, <2>1, <2>3, BatchTaken
    <3>. QED BY <3>1, <3>2
  <2>5. next.at = "delete" => ~next.archive
    BY <2>1, <2>3 DEF NoRetentionRun
  <2> HIDE DEF next
  <2>. QED BY <2>2, <2>4, <2>5
<1>5. ASSUME NEW p \in Processes, write_archive(p) PROVE RetentionInv'
  BY <1>5 DEF write_archive, RunGoesTo
<1>6. ASSUME NEW p \in Processes, DeleteBatch(p) PROVE RetentionInv'
  BY <1>6 DEF DeleteBatch, RunGoesTo
<1>7. ASSUME NEW p \in Processes, RetentionFails(p) PROVE RetentionInv'
  BY <1>7 DEF RetentionFails, NoRetentionRun
<1>8. ASSUME NEW p \in Processes, RetentionCancelled(p) PROVE RetentionInv'
  BY <1>8 DEF RetentionCancelled, NoRetentionRun
<1>9. ASSUME NEW p \in Processes, BackendKilled(p) PROVE RetentionInv'
  BY <1>9 DEF BackendKilled, NoRetentionRun
<1>10. ASSUME NEW p \in Processes, NEW b \in threads[p], ThreadEnds(p, b) PROVE RetentionInv'
  BY <1>10 DEF ThreadEnds
<1>11. ASSUME NEW f \in files, RestoreRead(f) PROVE RetentionInv'
  BY <1>11 DEF RestoreRead
<1>12. CASE RestoreLookup
  BY <1>12 DEF RestoreLookup
<1>13. CASE RestoreCommit
  BY <1>13 DEF RestoreCommit, NothingRestored
<1>14. CASE UNCHANGED retentionVars
  BY <1>14 DEF retentionVars
<1>. QED
  BY <1>1, <1>2, <1>3, <1>4, <1>5, <1>6, <1>7, <1>8, <1>9, <1>10, <1>11, <1>12, <1>13, <1>14
     DEF RetentionNext

(* The invariant holds always.                                             *)
LEMMA RetentionInvariant == RetentionSpec => []RetentionInv
BY RetentionInitially, RetentionStep, PTL DEF RetentionSpec

(* The variables of the retention have their types, whichever runs overlap *)
(* and whatever is cancelled, killed or restored.                          *)
THEOREM RetentionTyped == RetentionSpec => []RetentionTypeOK
<1>1. RetentionInv => RetentionTypeOK
  BY DEF RetentionInv
<1>. QED BY <1>1, RetentionInvariant, PTL

(* No row of the audit log is lost: for any number of backends, runs,      *)
(* restorations and mishaps, what is not in the table is in an archive,    *)
(* unless a run that found archiving switched off has deleted it.          *)
THEOREM LogKept == RetentionSpec => []NoLogLost
<1>1. RetentionInv => NoLogLost
  BY DEF RetentionInv
<1>. QED BY <1>1, RetentionInvariant, PTL

=============================================================================
