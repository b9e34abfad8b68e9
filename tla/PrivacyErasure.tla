--------------------------- MODULE PrivacyErasure ---------------------------
(***************************************************************************)
(* When deleted content has really left the disk.  The journal runs in     *)
(* SQLite's write-ahead-log mode: a purge commits into the log, while the  *)
(* pages it replaced stay readable in the database file until a checkpoint *)
(* copies the purged pages back, and in the log until it is truncated.     *)
(* forget_source and sweep_expired purge in one transaction and truncate   *)
(* in a second step; verify_forgotten truncates and then reads.  The       *)
(* connection's mutex is released in between, other threads use the        *)
(* journal there, and the process may die there.                           *)
(*                                                                         *)
(* Source: crates/tracedecay-memory-observation/src/sqlite/retention.rs,   *)
(* sqlite/mod.rs and runtime/retention.rs; the log is SQLite's.            *)
(***************************************************************************)
EXTENDS Naturals, FiniteSets

CONSTANTS
    Rows,           \* journal rows and withheld audit rows
    Key,            \* forget_source_key of a row
    Sweeping,       \* the sweeper of runtime/retention.rs runs
    MaxCrashes,     \* bounds of the model: deaths of the process,
    MaxReads        \* and snapshots other connections open

Keys == {Key[r] : r \in Rows}

ASSUME ErasureAssumption ==
    /\ DOMAIN Key = Rows
    /\ Sweeping \in BOOLEAN
    /\ {MaxCrashes, MaxReads} \subseteq Nat

VARIABLES
    live,           \* what a query sees of each row
    file,           \* rows whose content is in the database file
    wal,            \* rows whose content is in the -wal sidecar
    snapshot,       \* rows with content in another connection's snapshot
    forgetter,      \* the thread in forget_source
    sweeper,        \* the thread in RetentionSweeperV1::tick
    verifier,       \* the thread in verify_forgotten
    crashes, reads

disk == <<live, file, wal>>
threads == <<forgetter, sweeper, verifier>>
erasureVars == <<disk, snapshot, threads, crashes, reads>>

NoKey == "none"
NoSnapshot == [open |-> FALSE, rows |-> {}]
Idle == [at |-> "idle", rows |-> {}, truncated |-> FALSE]
IdleVerifier == [at |-> "idle", key |-> NoKey, truncated |-> FALSE,
                 purgedBefore |-> {}, verified |-> FALSE]

OnDisk(r) == r \in file \cup wal
Holding == {r \in Rows : live[r] = "content"}

PurgeCalls == [at : {"idle", "purged", "answered"}, rows : SUBSET Rows, truncated : BOOLEAN]

\* Type invariant; and the content a query sees is in the file or the log.
ErasureTypeOK ==
    /\ live \in [Rows -> {"absent", "content", "purged"}]
    /\ file \subseteq Rows
    /\ wal \subseteq Rows
    /\ snapshot \in [open : BOOLEAN, rows : SUBSET Rows]
    /\ forgetter \in PurgeCalls
    /\ sweeper \in PurgeCalls
    /\ verifier \in [at : {"idle", "truncated", "answered"}, key : Keys \cup {NoKey},
                     truncated : BOOLEAN, purgedBefore : SUBSET Rows, verified : BOOLEAN]
    /\ crashes \in 0 .. MaxCrashes
    /\ reads \in 0 .. MaxReads
    /\ Holding \subseteq file \cup wal

ErasureInit ==
    /\ live = [r \in Rows |-> "absent"]
    /\ file = {} /\ wal = {}
    /\ snapshot = NoSnapshot
    /\ forgetter = Idle /\ sweeper = Idle /\ verifier = IdleVerifier
    /\ crashes = 0 /\ reads = 0

-----------------------------------------------------------------------------
(* SQLite's write-ahead log.                                               *)

\* A checkpoint copies the pages of the log into the file, no further than an
\* open snapshot; the log keeps its bytes.
Checkpointed == IF snapshot.open THEN snapshot.rows ELSE Holding

AutoCheckpoint ==
    /\ file' = Checkpointed
    /\ UNCHANGED <<live, wal, snapshot, threads, crashes, reads>>

\* The log cut without the pages copied back.
CheckpointTruncateDropping(truncated) ==
    IF snapshot.open
    THEN truncated = FALSE /\ UNCHANGED <<file, wal>>
    ELSE truncated = TRUE /\ wal' = {} /\ UNCHANGED file

\* PRAGMA wal_checkpoint's busy column not looked at.
CheckpointTruncateUnchecked(truncated) ==
    /\ truncated = TRUE
    /\ file' = Checkpointed
    /\ wal' = IF snapshot.open THEN wal ELSE {}

\* checkpoint_truncate: with a snapshot open the log stays, and it says so.
CheckpointTruncate(truncated) ==
    /\ truncated = ~snapshot.open
    /\ file' = Checkpointed
    /\ wal' = IF truncated THEN {} ELSE wal

OpenSnapshot ==
    /\ ~snapshot.open /\ reads < MaxReads
    /\ snapshot' = [open |-> TRUE, rows |-> Holding] /\ reads' = reads + 1
    /\ UNCHANGED <<disk, threads, crashes>>

CloseSnapshot ==
    /\ snapshot.open
    /\ snapshot' = NoSnapshot
    /\ UNCHANGED <<disk, threads, crashes, reads>>

-----------------------------------------------------------------------------
(* The journal.                                                            *)

\* append_admitted_at or record_withheld_at commits a row.
Append(r) ==
    /\ live[r] = "absent"
    /\ live' = [live EXCEPT ![r] = "content"]
    /\ wal' = wal \cup {r}
    /\ UNCHANGED <<file, snapshot, threads, crashes, reads>>

\* PURGE_COLUMNS, or the deletion of an audit row: one transaction.
Purge(rs) == live' = [r \in Rows |-> IF r \in rs THEN "purged" ELSE live[r]]

\* forget_source, its transaction ...
ForgetSource(k) ==
    LET matched == {r \in Holding : Key[r] = k}
    IN /\ forgetter.at = "idle"
       /\ Purge(matched)
       /\ forgetter' = [Idle EXCEPT !.at = "purged", !.rows = matched]
       /\ UNCHANGED <<file, wal, snapshot, sweeper, verifier, crashes, reads>>

\* ... and its truncation, reported in the receipt.
ForgetTruncates ==
    /\ forgetter.at = "purged"
    /\ \E truncated \in BOOLEAN :
        /\ CheckpointTruncate(truncated)
        /\ forgetter' = [forgetter EXCEPT !.at = "answered", !.truncated = truncated]
    /\ UNCHANGED <<live, snapshot, sweeper, verifier, crashes, reads>>

ForgetReturns ==
    /\ forgetter.at = "answered"
    /\ forgetter' = Idle
    /\ UNCHANGED <<disk, snapshot, sweeper, verifier, crashes, reads>>

\* sweep_expired: the transaction purges a batch of what has expired, possibly
\* nothing, and a truncation follows in either case.
SweepExpired ==
    /\ Sweeping
    /\ sweeper.at = "idle"
    /\ \E expired \in SUBSET Holding :
        /\ Purge(expired)
        /\ sweeper' = [Idle EXCEPT !.at = "purged", !.rows = expired]
    /\ UNCHANGED <<file, wal, snapshot, forgetter, verifier, crashes, reads>>

\* Truncation only after a sweep that purged something.
SweepTruncatesItsOwn ==
    /\ sweeper.at = "purged"
    /\ IF sweeper.rows = {} THEN UNCHANGED <<file, wal>>
       ELSE \E truncated \in BOOLEAN : CheckpointTruncate(truncated)
    /\ sweeper' = Idle
    /\ UNCHANGED <<live, snapshot, forgetter, verifier, crashes, reads>>

SweepTruncates ==
    /\ sweeper.at = "purged"
    /\ \E truncated \in BOOLEAN : CheckpointTruncate(truncated)
    /\ sweeper' = Idle
    /\ UNCHANGED <<live, snapshot, forgetter, verifier, crashes, reads>>

\* verify_forgotten: first the truncation ...
VerifyTruncates(k) ==
    /\ verifier.at = "idle"
    /\ \E truncated \in BOOLEAN :
        /\ CheckpointTruncate(truncated)
        /\ verifier' = [at |-> "truncated", key |-> k, truncated |-> truncated,
                        purgedBefore |-> {r \in Rows : live[r] = "purged" /\ Key[r] = k},
                        verified |-> FALSE]
    /\ UNCHANGED <<live, snapshot, forgetter, sweeper, crashes, reads>>

\* The answer without the state of the log.
VerifiedByRowsAlone(v) == ~ \E r \in Holding : Key[r] = v.key

\* ... then the re-query.
Verified(v) == (~ \E r \in Holding : Key[r] = v.key) /\ v.truncated

VerifyReads ==
    /\ verifier.at = "truncated"
    /\ verifier' = [verifier EXCEPT !.at = "answered", !.verified = Verified(verifier)]
    /\ UNCHANGED <<disk, snapshot, forgetter, sweeper, crashes, reads>>

VerifyReturns ==
    /\ verifier.at = "answered"
    /\ verifier' = IdleVerifier
    /\ UNCHANGED <<disk, snapshot, forgetter, sweeper, crashes, reads>>

\* The process dies: what was committed stays, every thread is gone.
Crash ==
    /\ crashes < MaxCrashes
    /\ crashes' = crashes + 1
    /\ snapshot' = NoSnapshot
    /\ forgetter' = Idle /\ sweeper' = Idle /\ verifier' = IdleVerifier
    /\ UNCHANGED <<disk, reads>>

ErasureNext ==
    \/ AutoCheckpoint \/ OpenSnapshot \/ CloseSnapshot
    \/ \E r \in Rows : Append(r)
    \/ \E k \in Keys : ForgetSource(k) \/ VerifyTruncates(k)
    \/ ForgetTruncates \/ ForgetReturns
    \/ SweepExpired \/ SweepTruncates
    \/ VerifyReads \/ VerifyReturns
    \/ Crash

ErasureSpec == ErasureInit /\ [][ErasureNext]_erasureVars

\* The delivery worker ticks the sweeper on every turn of its loop, and no
\* snapshot is held forever.
FairErasureSpec ==
    /\ ErasureSpec
    /\ WF_erasureVars(SweepExpired)
    /\ WF_erasureVars(SweepTruncates)
    /\ WF_erasureVars(CloseSnapshot)

-----------------------------------------------------------------------------
(* Properties.                                                             *)

\* A forget receipt that says the log was truncated tells the truth: none of
\* the content it purged is left in the file or the log, for good.
TruncatedReceiptMeansErased ==
    forgetter.at = "answered" /\ forgetter.truncated
        => \A r \in forgetter.rows : ~OnDisk(r)

\* A positive verification covers everything purged before it was asked for,
\* by this process or by one that died between purge and truncation.
VerifiedCoversEarlierPurges ==
    verifier.at = "answered" /\ verifier.verified
        => \A r \in verifier.purgedBefore : ~OnDisk(r)

\* What ForgetVerificationV1::verified says: no content of the key remains,
\* complete on disk.
VerifiedMeansErased ==
    verifier.at = "answered" /\ verifier.verified
        => \A r \in Rows : Key[r] = verifier.key /\ live[r] = "purged" => ~OnDisk(r)

\* Purged content leaves the disk in the end, even when the process died
\* before its truncation and nothing is left to purge.
PurgedContentLeavesDisk ==
    \A r \in Rows : (live[r] = "purged") ~> ~OnDisk(r)

=============================================================================
