------------------------- MODULE PrivacyErasureProofs -------------------------
(***************************************************************************)
(* Proofs about PrivacyErasure for any rows and keys, any number of deaths *)
(* and snapshots.                                                          *)
(*                                                                         *)
(* The properties speak of the file and the log; what makes them last is   *)
(* that no open snapshot still holds the row, since a checkpoint would     *)
(* copy it back from there.  Gone says all three, and a step that takes a  *)
(* row out of it does not exist (GoneIsStable).                            *)
(***************************************************************************)
EXTENDS PrivacyErasure, TLAPS

\* Purged, and nowhere a checkpoint could bring its content back from.
Gone(r) == live[r] = "purged" /\ r \notin file /\ r \notin wal /\ r \notin snapshot.rows

\* What a query sees is in the open snapshot or newer than it, in the log; a
\* snapshot that is not open holds nothing.
SnapshotIsPast ==
    /\ snapshot.open => Holding \subseteq snapshot.rows \cup wal
    /\ ~snapshot.open => snapshot.rows = {}

ForgetterHonest ==
    /\ forgetter.at # "idle" => \A r \in forgetter.rows : live[r] = "purged"
    /\ forgetter.at = "answered" /\ forgetter.truncated => \A r \in forgetter.rows : Gone(r)

VerifierHonest ==
    /\ verifier.at # "idle" /\ verifier.truncated => \A r \in verifier.purgedBefore : Gone(r)
    /\ verifier.verified => verifier.truncated

ErasureInv == ErasureTypeOK /\ SnapshotIsPast /\ ForgetterHonest /\ VerifierHonest

-----------------------------------------------------------------------------

\* A truncation of a log no snapshot holds leaves no purged row behind.
LEMMA TruncationErases ==
    ASSUME SnapshotIsPast, CheckpointTruncate(TRUE), UNCHANGED <<live, snapshot>>,
           NEW r \in Rows, live[r] = "purged"
    PROVE  Gone(r)'
BY DEF SnapshotIsPast, CheckpointTruncate, Checkpointed, Holding, Gone

\* No step brings the content of a row that is gone back.
LEMMA GoneIsStable ==
    ASSUME ErasureInv, [ErasureNext]_erasureVars, NEW r \in Rows, Gone(r)
    PROVE  Gone(r)'
<1> USE DEF Gone, Holding
<1>1. CASE UNCHANGED erasureVars
  BY <1>1 DEF erasureVars, disk
<1>2. CASE AutoCheckpoint
  BY <1>2 DEF AutoCheckpoint, Checkpointed
<1>3. CASE OpenSnapshot
  BY <1>3 DEF OpenSnapshot, disk
<1>4. CASE CloseSnapshot
  BY <1>4 DEF CloseSnapshot, disk, NoSnapshot
<1>5. ASSUME NEW s \in Rows, Append(s) PROVE Gone(r)'
  BY <1>5 DEF Append, ErasureInv, ErasureTypeOK
<1>6. ASSUME NEW k \in Keys, ForgetSource(k) PROVE Gone(r)'
  BY <1>6 DEF ForgetSource, Purge
<1>7. ASSUME NEW k \in Keys, VerifyTruncates(k) PROVE Gone(r)'
  BY <1>7 DEF VerifyTruncates, CheckpointTruncate, Checkpointed
<1>8. CASE ForgetTruncates
  BY <1>8 DEF ForgetTruncates, CheckpointTruncate, Checkpointed
<1>9. CASE ForgetReturns
  BY <1>9 DEF ForgetReturns, disk
<1>10. CASE SweepExpired
  BY <1>10 DEF SweepExpired, Purge
<1>11. CASE SweepTruncates
  BY <1>11 DEF SweepTruncates, CheckpointTruncate, Checkpointed
<1>12. CASE VerifyReads \/ VerifyReturns
  BY <1>12 DEF VerifyReads, VerifyReturns, disk
<1>13. CASE Crash
  BY <1>13 DEF Crash, disk, NoSnapshot
<1>14. QED
  BY <1>1, <1>2, <1>3, <1>4, <1>5, <1>6, <1>7, <1>8, <1>9, <1>10, <1>11, <1>12, <1>13
     DEF ErasureNext

\* A row that was purged stays purged.
LEMMA PurgedIsStable ==
    ASSUME ErasureInv, [ErasureNext]_erasureVars, NEW r \in Rows, live[r] = "purged"
    PROVE  live'[r] = "purged"
BY DEF ErasureInv, ErasureTypeOK, ErasureNext, erasureVars, disk, AutoCheckpoint, OpenSnapshot,
       CloseSnapshot, Append, ForgetSource, VerifyTruncates, ForgetTruncates, ForgetReturns,
       SweepExpired, SweepTruncates, VerifyReads, VerifyReturns, Crash, Purge

-----------------------------------------------------------------------------
(* The disk.                                                               *)

DiskTyped ==
    /\ live \in [Rows -> {"absent", "content", "purged"}]
    /\ file \subseteq Rows /\ wal \subseteq Rows
    /\ snapshot \in [open : BOOLEAN, rows : SUBSET Rows]
    /\ Holding \subseteq file \cup wal
    /\ crashes \in 0 .. MaxCrashes /\ reads \in 0 .. MaxReads

CallsTyped ==
    /\ forgetter \in PurgeCalls /\ sweeper \in PurgeCalls
    /\ verifier \in [at : {"idle", "truncated", "answered"}, key : Keys \cup {NoKey},
                     truncated : BOOLEAN, purgedBefore : SUBSET Rows, verified : BOOLEAN]

LEMMA TypeParts == ErasureTypeOK <=> DiskTyped /\ CallsTyped
BY DEF ErasureTypeOK, DiskTyped, CallsTyped

\* Any checkpoint that answers truthfully keeps what a query sees on disk.
LEMMA TruncatePreserves ==
    ASSUME DiskTyped, SnapshotIsPast, NEW t \in BOOLEAN, CheckpointTruncate(t),
           UNCHANGED <<live, snapshot, crashes, reads>>
    PROVE  DiskTyped' /\ SnapshotIsPast'
<1>1. CASE snapshot.open
  BY <1>1 DEF DiskTyped, SnapshotIsPast, CheckpointTruncate, Checkpointed, Holding
<1>2. CASE ~snapshot.open
  BY <1>2 DEF DiskTyped, SnapshotIsPast, CheckpointTruncate, Checkpointed, Holding
<1>3. QED BY <1>1, <1>2

\* A purge takes rows out of what a query sees and touches nothing else.
LEMMA PurgePreserves ==
    ASSUME DiskTyped, SnapshotIsPast, NEW rs \in SUBSET Rows, Purge(rs),
           UNCHANGED <<file, wal, snapshot, crashes, reads>>
    PROVE  DiskTyped' /\ SnapshotIsPast'
BY DEF DiskTyped, SnapshotIsPast, Purge, Holding

LEMMA DiskPreserved ==
    ASSUME ErasureInv, [ErasureNext]_erasureVars
    PROVE  DiskTyped' /\ SnapshotIsPast'
<1>1. DiskTyped /\ SnapshotIsPast
  BY TypeParts DEF ErasureInv
<1> USE <1>1
<1>2. CASE UNCHANGED erasureVars
  BY <1>2 DEF erasureVars, disk, DiskTyped, SnapshotIsPast, Holding
<1>3. CASE AutoCheckpoint
  BY <1>3 DEF AutoCheckpoint, Checkpointed, DiskTyped, SnapshotIsPast, Holding
<1>4. CASE OpenSnapshot
  <2>1. reads' \in 0 .. MaxReads
    BY <1>4, ErasureAssumption DEF OpenSnapshot, DiskTyped
  <2>2. QED BY <1>4, <2>1 DEF OpenSnapshot, disk, DiskTyped, SnapshotIsPast, Holding
<1>5. CASE CloseSnapshot
  BY <1>5 DEF CloseSnapshot, NoSnapshot, disk, DiskTyped, SnapshotIsPast, Holding
<1>6. ASSUME NEW r \in Rows, Append(r) PROVE DiskTyped' /\ SnapshotIsPast'
  BY <1>6 DEF Append, DiskTyped, SnapshotIsPast, Holding
<1>7. ASSUME NEW k \in Keys, ForgetSource(k) PROVE DiskTyped' /\ SnapshotIsPast'
  BY <1>7, PurgePreserves DEF ForgetSource, Holding
<1>8. ASSUME NEW k \in Keys, VerifyTruncates(k) PROVE DiskTyped' /\ SnapshotIsPast'
  BY <1>8, TruncatePreserves DEF VerifyTruncates
<1>9. CASE ForgetTruncates
  BY <1>9, TruncatePreserves DEF ForgetTruncates
<1>10. CASE SweepExpired
  <2>1. PICK rs \in SUBSET Holding : Purge(rs)
    BY <1>10 DEF SweepExpired
  <2>2. QED BY <1>10, <2>1, PurgePreserves DEF SweepExpired, Holding
<1>11. CASE SweepTruncates
  BY <1>11, TruncatePreserves DEF SweepTruncates
<1>12. CASE ForgetReturns \/ VerifyReads \/ VerifyReturns
  BY <1>12 DEF ForgetReturns, VerifyReads, VerifyReturns, disk, DiskTyped, SnapshotIsPast, Holding
<1>13. CASE Crash
  <2>1. crashes' \in 0 .. MaxCrashes
    BY <1>13, ErasureAssumption DEF Crash, DiskTyped
  <2>2. QED BY <1>13, <2>1 DEF Crash, NoSnapshot, disk, DiskTyped, SnapshotIsPast, Holding
<1>14. QED
  BY <1>2, <1>3, <1>4, <1>5, <1>6, <1>7, <1>8, <1>9, <1>10, <1>11, <1>12, <1>13 DEF ErasureNext

-----------------------------------------------------------------------------
(* The calls.                                                              *)

LEMMA CallsPreserved ==
    ASSUME ErasureInv, [ErasureNext]_erasureVars
    PROVE  CallsTyped'
<1>1. CallsTyped /\ Holding \subseteq Rows
  BY TypeParts DEF ErasureInv, Holding
<1> USE <1>1 DEF CallsTyped, PurgeCalls
<1>2. Idle \in PurgeCalls
  BY DEF Idle
<1>3. CASE UNCHANGED threads
  BY <1>3 DEF threads
<1>4. ASSUME NEW k \in Keys, ForgetSource(k) PROVE CallsTyped'
  BY <1>4 DEF ForgetSource, Idle
<1>5. ASSUME NEW k \in Keys, VerifyTruncates(k) PROVE CallsTyped'
  BY <1>5 DEF VerifyTruncates
<1>6. CASE ForgetTruncates
  BY <1>6 DEF ForgetTruncates
<1>7. CASE ForgetReturns \/ SweepTruncates
  BY <1>2, <1>7 DEF ForgetReturns, SweepTruncates
<1>8. CASE SweepExpired
  BY <1>8 DEF SweepExpired, Idle
<1>9. CASE VerifyReads
  BY <1>9 DEF VerifyReads, Verified
<1>10. CASE VerifyReturns
  BY <1>10 DEF VerifyReturns, IdleVerifier
<1>11. CASE Crash
  BY <1>2, <1>11 DEF Crash, IdleVerifier
<1>12. QED
  BY <1>3, <1>4, <1>5, <1>6, <1>7, <1>8, <1>9, <1>10, <1>11
     DEF ErasureNext, erasureVars, AutoCheckpoint, OpenSnapshot, CloseSnapshot, Append

LEMMA ForgetterPreserved ==
    ASSUME ErasureInv, [ErasureNext]_erasureVars
    PROVE  ForgetterHonest'
<1>1. ForgetterHonest /\ CallsTyped /\ SnapshotIsPast /\ forgetter.rows \subseteq Rows
  BY TypeParts DEF ErasureInv, CallsTyped, PurgeCalls
<1>2. CASE UNCHANGED forgetter
  <2>1. \A r \in forgetter.rows : Gone(r) => Gone(r)'
    BY <1>1, GoneIsStable
  <2>2. \A r \in forgetter.rows : live[r] = "purged" => live'[r] = "purged"
    BY <1>1, PurgedIsStable
  <2>3. QED BY <1>1, <1>2, <2>1, <2>2 DEF ForgetterHonest
<1>3. ASSUME NEW k \in Keys, ForgetSource(k) PROVE ForgetterHonest'
  BY <1>3 DEF ForgetSource, Purge, Holding, Idle, ForgetterHonest
<1>4. CASE ForgetTruncates
  <2>1. PICK t \in BOOLEAN : /\ CheckpointTruncate(t)
                             /\ forgetter' = [forgetter EXCEPT !.at = "answered", !.truncated = t]
    BY <1>4 DEF ForgetTruncates
  <2>2. \A r \in forgetter.rows : live[r] = "purged"
    BY <1>1, <1>4 DEF ForgetTruncates, ForgetterHonest
  <2>3. t => \A r \in forgetter.rows : Gone(r)'
    <3> SUFFICES ASSUME t = TRUE, NEW r \in forgetter.rows PROVE Gone(r)'
      BY <2>1
    <3>1. QED BY <1>1, <1>4, <2>1, <2>2, TruncationErases DEF ForgetTruncates
  <2>4. /\ forgetter'.rows = forgetter.rows /\ forgetter'.truncated = t
        /\ live' = live
    BY <1>1, <1>4, <2>1 DEF ForgetTruncates, CallsTyped, PurgeCalls
  <2>5. QED BY <2>2, <2>3, <2>4 DEF ForgetterHonest
<1>5. CASE ForgetReturns \/ Crash
  BY <1>5 DEF ForgetReturns, Crash, Idle, ForgetterHonest
<1>6. QED
  BY <1>2, <1>3, <1>4, <1>5
     DEF ErasureNext, erasureVars, threads, AutoCheckpoint, OpenSnapshot, CloseSnapshot, Append,
         VerifyTruncates, SweepExpired, SweepTruncates, VerifyReads, VerifyReturns

LEMMA VerifierPreserved ==
    ASSUME ErasureInv, [ErasureNext]_erasureVars
    PROVE  VerifierHonest'
<1>1. VerifierHonest /\ CallsTyped /\ SnapshotIsPast /\ verifier.purgedBefore \subseteq Rows
  BY TypeParts DEF ErasureInv, CallsTyped
<1>2. \A r \in verifier.purgedBefore : Gone(r) => Gone(r)'
  BY <1>1, GoneIsStable
<1>3. CASE UNCHANGED verifier
  BY <1>1, <1>2, <1>3 DEF VerifierHonest
<1>4. ASSUME NEW k \in Keys, VerifyTruncates(k) PROVE VerifierHonest'
  <2>1. PICK t \in BOOLEAN : /\ CheckpointTruncate(t)
                             /\ verifier' = [at |-> "truncated", key |-> k, truncated |-> t,
                                   purgedBefore |-> {r \in Rows : live[r] = "purged" /\ Key[r] = k},
                                   verified |-> FALSE]
    BY <1>4 DEF VerifyTruncates
  <2>2. t => \A r \in Rows : live[r] = "purged" => Gone(r)'
    <3> SUFFICES ASSUME t = TRUE, NEW r \in Rows, live[r] = "purged" PROVE Gone(r)'
      BY <2>1
    <3>1. QED BY <1>1, <1>4, <2>1, TruncationErases DEF VerifyTruncates
  <2>3. QED BY <2>1, <2>2 DEF VerifierHonest
<1>5. CASE VerifyReads
  BY <1>1, <1>2, <1>5 DEF VerifyReads, Verified, VerifierHonest, CallsTyped
<1>6. CASE VerifyReturns \/ Crash
  BY <1>6 DEF VerifyReturns, Crash, IdleVerifier, VerifierHonest
<1>7. QED
  BY <1>3, <1>4, <1>5, <1>6
     DEF ErasureNext, erasureVars, threads, AutoCheckpoint, OpenSnapshot, CloseSnapshot, Append,
         ForgetSource, ForgetTruncates, ForgetReturns, SweepExpired, SweepTruncates

-----------------------------------------------------------------------------
(* The theorems.                                                           *)

LEMMA ErasureInitInv == ErasureInit => ErasureInv
<1> SUFFICES ASSUME ErasureInit PROVE ErasureInv
  OBVIOUS
<1>1. Holding = {}
  BY DEF ErasureInit, Holding
<1>2. ErasureTypeOK
  BY <1>1, ErasureAssumption DEF ErasureInit, ErasureTypeOK, NoSnapshot, Idle, IdleVerifier, PurgeCalls
<1>3. QED
  BY <1>1, <1>2 DEF ErasureInit, ErasureInv, SnapshotIsPast, ForgetterHonest, VerifierHonest,
                    NoSnapshot, Idle, IdleVerifier

\* The inductive invariant.
THEOREM ErasureInvariant == ErasureSpec => []ErasureInv
<1>1. ErasureInv /\ [ErasureNext]_erasureVars => ErasureInv'
  <2> SUFFICES ASSUME ErasureInv, [ErasureNext]_erasureVars PROVE ErasureInv'
    OBVIOUS
  <2>1. ErasureTypeOK'
    BY DiskPreserved, CallsPreserved DEF ErasureTypeOK, DiskTyped, CallsTyped
  <2>2. QED
    BY <2>1, DiskPreserved, ForgetterPreserved, VerifierPreserved DEF ErasureInv
<1>2. QED BY <1>1, ErasureInitInv, PTL DEF ErasureSpec

\* Types, and no content a query sees is ever dropped by a checkpoint.
THEOREM ErasureTypeCorrect == ErasureSpec => []ErasureTypeOK
<1>1. ErasureInv => ErasureTypeOK
  BY DEF ErasureInv
<1>2. QED BY <1>1, ErasureInvariant, PTL

\* A forget receipt with wal_truncated set is the truth for as long as it stands.
THEOREM TruncatedReceiptsAreTrue == ErasureSpec => []TruncatedReceiptMeansErased
<1>1. ErasureInv => TruncatedReceiptMeansErased
  BY DEF ErasureInv, ForgetterHonest, Gone, TruncatedReceiptMeansErased, OnDisk
<1>2. QED BY <1>1, ErasureInvariant, PTL

\* verify_forgotten's positive answer covers every purge that preceded it.
THEOREM VerificationCoversEarlierPurges == ErasureSpec => []VerifiedCoversEarlierPurges
<1>1. ErasureInv => VerifiedCoversEarlierPurges
  BY DEF ErasureInv, VerifierHonest, Gone, VerifiedCoversEarlierPurges, OnDisk
<1>2. QED BY <1>1, ErasureInvariant, PTL
===============================================================================
