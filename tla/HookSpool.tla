------------------------------ MODULE HookSpool ------------------------------
(***************************************************************************)
(* The hook delivery spool of tracedecay-hooks/src/spool: hook processes    *)
(* append frames to one records file under a writer lease and commit them   *)
(* after releasing it; the daemon acknowledges what it replayed in a        *)
(* metadata file and rewrites the records file down to its pending frames.  *)
(* Processes die anywhere, and so does the machine.                         *)
(*                                                                         *)
(* A length is a number of frames.  The file system is an ordered one: the  *)
(* renames of the directory reach the disk in the order they were made, and *)
(* a power failure keeps a prefix of them.  A call that fails (a lock not   *)
(* got in time, an I/O error) drops its handle, which is what Kill does.    *)
(***************************************************************************)
EXTENDS Integers, FiniteSets, Sequences, SequencesExt

CONSTANTS
    Procs,          \* handles on the spool, each of a process of its own
    Events,         \* event identities hooks report
    Sessions,       \* the events of each session
    Ids,            \* file identities the file system hands out, and reuses
    NoFile, Nobody,
    MaxRecords,     \* limits.max_host_records
    MaxBytes,       \* limits.max_host_bytes, in frames
    MaxSession,     \* the lesser of limits.max_session_records and max_session_bytes
    MaxSeq          \* bound of the model: sequences given out

ASSUME SpoolAssumption ==
    /\ {MaxRecords, MaxBytes, MaxSession, MaxSeq} \subseteq Nat \ {0}
    /\ \A e \in Events : \E S \in Sessions : e \in S
    /\ \A S, T \in Sessions : S = T \/ S \cap T = {}
    /\ NoFile \notin Ids /\ Nobody \notin Procs

VARIABLES
    file,           \* contents by identity; `synced` leading frames are on disk
    directory,      \* names and metadata: what is on disk, then each change since
    extent,         \* commit.v1.lock: how far a completed sync of a file reached
    lease,          \* holder of writer.v1.lease
    lock,           \* holder of the lock on commit.v1.lock
    handle,         \* where each handle is
    \* history
    committed,      \* <<sequence, event>> whose commit returned
    asked,          \* <<sequence, event>> the daemon asked to acknowledge
    settled         \* <<sequence, event>> whose acknowledgement returned

disk == <<file, directory, extent>>
locks == <<lease, lock>>
told == <<committed, asked, settled>>
spoolVars == <<disk, locks, handle, told>>

\* validate_meta
Metas == {m \in [through : 0 .. MaxSeq, next : 1 .. MaxSeq + 1, acked : SUBSET (1 .. MaxSeq)] :
             /\ m.through < m.next
             /\ m.acked \subseteq (m.through + 1) .. (m.next - 1)}
Pairs == (1 .. MaxSeq) \X Events
Steps == {"idle", "open", "sync", "data", "extent", "meta", "barrier", "return", "stage", "swap"}

FreshMeta == [through |-> 0, next |-> 1, acked |-> {}]
NoExtent == [id |-> NoFile, synced |-> 0]
Empty == [frames |-> <<>>, synced |-> 0, torn |-> FALSE]

\* A hook appends one event and commits it; a replay pass acknowledges.  `wants`
\* is the record the caller of commit is told of; `id` and `end` the extent to
\* be committed; `base`, `next` and `acks` an acknowledgement; `id`, `length`,
\* `kept` and `copy` a reclaim.
Closed == [step |-> "idle", wants |-> {}, id |-> NoFile, end |-> 0, claim |-> 0, then |-> "idle",
           base |-> FreshMeta, next |-> FreshMeta, acks |-> {}, kept |-> <<>>, length |-> 0,
           copy |-> NoFile]

Files == [frames : Seq(Pairs), synced : 0 .. MaxSeq, torn : BOOLEAN]
Entries == [records : Ids \cup {NoFile}, meta : Metas]
Handles == [step : Steps, wants : SUBSET Pairs, id : Ids \cup {NoFile},
            end : 0 .. MaxSeq, claim : 0 .. MaxSeq, then : Steps,
            base : Metas, next : Metas, acks : SUBSET Pairs,
            kept : Seq(Pairs), length : 0 .. MaxSeq, copy : Ids \cup {NoFile}]

\* Type invariant.
SpoolTypeOK ==
    /\ file \in [Ids -> Files]
    /\ \A i \in Ids : file[i].synced <= Len(file[i].frames) /\ Len(file[i].frames) <= MaxSeq
    /\ directory \in Seq(Entries) /\ directory # <<>>
    /\ extent \in [id : Ids \cup {NoFile}, synced : 0 .. MaxSeq]
    /\ lease \in Procs \cup {Nobody} /\ lock \in Procs \cup {Nobody}
    /\ handle \in [Procs -> Handles]
    /\ \A p \in Procs : Len(handle[p].kept) <= MaxSeq
    /\ committed \cup asked \cup settled \subseteq Pairs

SpoolInit ==
    /\ file = [i \in Ids |-> Empty]
    /\ directory = <<[records |-> NoFile, meta |-> FreshMeta]>>
    /\ extent = NoExtent
    /\ lease = Nobody /\ lock = Nobody
    /\ handle = [p \in Procs |-> Closed]
    /\ committed = {} /\ asked = {} /\ settled = {}

-----------------------------------------------------------------------------
(* What a handle reads.                                                    *)

Records == Last(directory).records
Meta == Last(directory).meta
Frames == IF Records = NoFile THEN <<>> ELSE file[Records].frames
Torn == Records # NoFile /\ file[Records].torn

\* A torn frame is shorter than a whole one, and counts as one.
Size(f) == Len(f.frames) + (IF f.torn THEN 1 ELSE 0)
PhysicalLen == IF Records = NoFile THEN 0 ELSE Size(file[Records])

Settled(m, s) == s <= m.through \/ s \in m.acked
SeqsOf(frames) == {frames[i][1] : i \in DOMAIN frames}

\* The frames at the positions I, in their order.
Selected(frames, I) ==
    [k \in 1 .. Cardinality(I) |->
        frames[CHOOSE i \in I : Cardinality({j \in I : j <= i}) = k]]

PendingAt == {i \in DOMAIN Frames : ~Settled(Meta, Frames[i][1])}
PendingFrames == Selected(Frames, PendingAt)

\* advance_next_sequence: frames written after the metadata carry it forward,
\* each by one.
Unrecorded == {i \in DOMAIN Frames : Frames[i][1] >= Meta.next}
Contiguous ==
    \A i \in Unrecorded :
        Frames[i][1] = Meta.next + Cardinality({j \in Unrecorded : j < i})
NextSequence == Meta.next + Cardinality(Unrecorded)

\* validate_meta_against_records.  Its first limit implies validate_meta's on the
\* acknowledgements kept.
RecordsMatchMeta ==
    /\ NextSequence - Meta.through - 1 <= MaxRecords
    /\ (Meta.through + 1) .. (NextSequence - 1) \subseteq Meta.acked \cup SeqsOf(Frames)

\* scan_records: a file within the byte cap, of at most max_host_records frames
\* in ascending sequence; a torn tail is a dead writer's unless a published sync
\* had reached past its start.
ScanSound ==
    /\ PhysicalLen <= MaxBytes
    /\ Len(Frames) <= MaxRecords
    /\ \A i \in 2 .. Len(Frames) : Frames[i - 1][1] < Frames[i][1]
    /\ ~(Torn /\ extent.id = Records /\ extent.synced > Len(Frames))

\* usage_by_session
UsedBy(S) == {i \in PendingAt : Frames[i][2] \in S}
SessionsFit == \A S \in Sessions : Cardinality(UsedBy(S)) <= MaxSession

OpenSound == ScanSound /\ Contiguous /\ RecordsMatchMeta /\ SessionsFit

\* open_after_lease: a torn tail is truncated durably and the extent forgotten,
\* under the commit lock; a handle that takes its lease again goes on only over a
\* sound spool.
Load ==
    /\ lease = Nobody
    /\ Torn => lock = Nobody
    /\ OpenSound
Repaired == IF Torn THEN [file EXCEPT ![Records] =
                              [@ EXCEPT !.torn = FALSE, !.synced = Len(Frames)]]
            ELSE file
RepairedExtent == IF Torn THEN NoExtent ELSE extent

\* An open that is refused after a sound scan has repaired the file all the same.
Open(p) ==
    /\ handle[p].step = "idle"
    /\ lease = Nobody /\ (Torn => lock = Nobody) /\ ScanSound
    /\ file' = Repaired /\ extent' = RepairedExtent
    /\ IF OpenSound THEN lease' = p /\ handle' = [handle EXCEPT ![p].step = "open"]
                    ELSE UNCHANGED <<lease, handle>>
    /\ UNCHANGED <<directory, lock, told>>

-----------------------------------------------------------------------------
(* Appending.                                                              *)

IndexOf(e) == CHOOSE i \in PendingAt : Frames[i][2] = e
IsPending(e) == \E i \in PendingAt : Frames[i][2] = e

\* append_record of an event already pending: note_uncommitted up to its frame,
\* which another writer may not have committed yet.
Repeated(p, e) ==
    handle' = [handle EXCEPT ![p].wants = @ \cup {Frames[IndexOf(e)]},
                             ![p].id = Records,
                             ![p].end = IndexOf(e)]

\* An identity no name, staged replacement or open file holds.
Unnamed(i) ==
    /\ \A d \in DOMAIN directory : directory[d].records # i
    /\ \A p \in Procs : handle[p].copy # i /\ ~(handle[p].step \in {"data", "extent"} /\ handle[p].id = i)

\* append_frame: unsynced, into a new file when there is none.
Written(id, frame) ==
    file' = [file EXCEPT ![id] = IF Records = id THEN [file[id] EXCEPT !.frames = Append(@, frame)]
                                 ELSE [Empty EXCEPT !.frames = <<frame>>]]
AppendsTo(id) ==
    /\ IF Records = NoFile THEN Unnamed(id) ELSE id = Records
    /\ directory' = IF Records = NoFile THEN Append(directory, [records |-> id, meta |-> Meta])
                    ELSE directory

\* ensure_append_capacity, for an event that may use the whole of each limit.
HasCapacity(e) ==
    /\ Cardinality(PendingAt) < MaxRecords /\ Cardinality(PendingAt) < MaxBytes
    /\ \A S \in Sessions : e \in S => Cardinality(UsedBy(S)) < MaxSession

\* And the byte cap of the file.
HasRoom(e) == HasCapacity(e) /\ PhysicalLen < MaxBytes

AppendRecord(p, e) ==
    /\ handle[p].step = "open" /\ handle[p].wants = {}
    /\ \/ /\ IsPending(e)
          /\ Repeated(p, e)
          /\ UNCHANGED <<file, directory>>
       \/ /\ ~IsPending(e) /\ HasRoom(e) /\ NextSequence <= MaxSeq
          /\ \E id \in Ids :
                /\ AppendsTo(id)
                /\ Written(id, <<NextSequence, e>>)
                /\ handle' = [handle EXCEPT ![p].wants = @ \cup {<<NextSequence, e>>},
                                            ![p].id = id, ![p].end = Len(Frames) + 1]
    /\ UNCHANGED <<extent, locks, told>>

\* The writer dies within its append and leaves part of a frame behind.
AppendTorn(p, e) ==
    /\ handle[p].step = "open" /\ handle[p].wants = {}
    /\ ~IsPending(e) /\ HasRoom(e)
    /\ Records # NoFile
    /\ file' = [file EXCEPT ![Records].torn = TRUE]
    /\ handle' = [handle EXCEPT ![p] = Closed]
    /\ lease' = Nobody
    /\ UNCHANGED <<directory, extent, lock, told>>

-----------------------------------------------------------------------------
(* commit_records, by a handle that has released the lease.                *)

\* What the handle goes on with once its records are durable.
Resume(p) ==
    IF handle[p].then = "idle"
    THEN /\ committed' = committed \cup handle[p].wants
         /\ handle' = [handle EXCEPT ![p] = Closed]
         /\ UNCHANGED <<asked, settled>>
    ELSE /\ handle' = [handle EXCEPT ![p].step = handle[p].then, ![p].claim = 0]
         /\ UNCHANGED told

\* commit: the lease is dropped first.
Commit(p) ==
    /\ handle[p].step = "open"
    /\ lease' = Nobody
    /\ IF handle[p].id = NoFile
       THEN /\ committed' = committed \cup handle[p].wants
            /\ handle' = [handle EXCEPT ![p] = Closed]
            /\ UNCHANGED <<asked, settled>>
       ELSE handle' = [handle EXCEPT ![p].step = "sync", ![p].then = "idle"] /\ UNCHANGED told
    /\ UNCHANGED <<disk, lock>>

SyncedDirectory == <<Last(directory)>>
Extent(id) == IF extent.id = id THEN extent.synced ELSE -1

\* A compaction's replacement taken as durable with its name.
CompactedAwayUnsynced(p) ==
    /\ UNCHANGED disk
    /\ Resume(p) /\ UNCHANGED locks

\* The file was replaced: only the replacement's name may still be volatile.
CompactedAway(p) ==
    /\ IF Extent(Records) >= 0 THEN UNCHANGED <<directory, extent>>
       ELSE /\ directory' = SyncedDirectory
            /\ extent' = [id |-> Records, synced |-> 0]
    /\ UNCHANGED file
    /\ Resume(p) /\ UNCHANGED locks

\* The commit lock is taken and what is durable already is looked up.  The
\* claim is the length the last append published, read before the sync.
CommitRecords(p) ==
    /\ handle[p].step = "sync" /\ lock = Nobody
    /\ \/ handle[p].id # Records /\ CompactedAway(p)
       \/ /\ handle[p].id = Records /\ Extent(Records) >= handle[p].end
          /\ Resume(p) /\ UNCHANGED <<disk, locks>>
       \/ /\ handle[p].id = Records /\ Extent(Records) < handle[p].end
          /\ lock' = p
          /\ \E claim \in handle[p].end .. Len(Frames) :
                handle' = [handle EXCEPT ![p].step = "data", ![p].claim = claim]
          /\ UNCHANGED <<disk, lease, told>>

SyncData(p) ==
    /\ handle[p].step = "data"
    /\ file' = [file EXCEPT ![handle[p].id].synced = Len(file[handle[p].id].frames)]
    /\ handle' = [handle EXCEPT ![p].step = "extent"]
    /\ UNCHANGED <<directory, extent, locks, told>>

\* The first commit to a file syncs its name as well.
PublishExtent(p) ==
    /\ handle[p].step = "extent"
    /\ directory' = IF Extent(handle[p].id) >= 0 THEN directory ELSE SyncedDirectory
    /\ extent' = [id |-> handle[p].id, synced |-> handle[p].claim]
    /\ lock' = Nobody
    /\ Resume(p)
    /\ UNCHANGED <<file, lease>>

-----------------------------------------------------------------------------
(* Acknowledging and reclaiming, by the daemon.                            *)

\* The position moved past the first record that is still to be acknowledged.
NormalizedPastGap(m) ==
    LET t == Max({i \in m.through .. m.next : (m.through + 1) .. (i - 1) \subseteq m.acked})
    IN [m EXCEPT !.through = t, !.acked = {s \in @ : s > t}]

\* normalize_acknowledgements: the contiguous prefix becomes the position.
Normalized(m) ==
    LET t == Max({i \in m.through .. m.next - 1 : (m.through + 1) .. i \subseteq m.acked})
    IN [m EXCEPT !.through = t, !.acked = {s \in @ : s > t}]

\* Metadata staged without committing the records it names.
SettlementStartsUncommitted == "meta"

\* publish_meta: metadata may name only records that are durable.
SettlementStarts == "sync"

\* acknowledge_many up to the first barrier of publish_meta, for which it
\* releases the lease.
Acknowledge(p, S) ==
    /\ handle[p].step = "open" /\ handle[p].wants = {}
    /\ S # {}
    /\ handle' = [handle EXCEPT
           ![p].step = SettlementStarts, ![p].then = "meta",
           ![p].id = Records, ![p].end = Len(Frames),
           ![p].base = Meta, ![p].acks = S,
           ![p].next = Normalized([Meta EXCEPT !.next = NextSequence,
                                               !.acked = @ \cup {f[1] : f \in S}])]
    /\ asked' = asked \cup S
    /\ lease' = Nobody
    /\ UNCHANGED <<disk, lock, committed, settled>>

\* The lease is taken back and the spool reloaded.
Reopened == [Closed EXCEPT !.step = "open"]

\* Published whatever another writer published meanwhile.
MetaUnchangedAssumed(p) == handle[p].base \in Metas

\* publish_meta: the metadata the acknowledgement was computed from still stands.
MetaUnchanged(p) == Meta = handle[p].base

PublishMeta(p) ==
    /\ handle[p].step = "meta" /\ Load
    /\ file' = Repaired /\ extent' = RepairedExtent
    /\ \/ /\ MetaUnchanged(p)
          /\ directory' = Append(directory, [records |-> Records, meta |-> handle[p].next])
          /\ handle' = [handle EXCEPT ![p] = [Closed EXCEPT !.step = "barrier", !.acks = handle[p].acks]]
          /\ UNCHANGED lease
       \/ /\ ~MetaUnchanged(p)
          /\ handle' = [handle EXCEPT ![p] = Reopened]
          /\ lease' = p
          /\ UNCHANGED directory
    /\ UNCHANGED <<lock, told>>

SyncMeta(p) ==
    /\ handle[p].step = "barrier"
    /\ directory' = SyncedDirectory
    /\ handle' = [handle EXCEPT ![p].step = "return"]
    /\ UNCHANGED <<file, extent, locks, told>>

\* reclaim up to its barrier: the pending frames and the file's revision are
\* captured and the lease released.
StartReclaim(p) ==
    [Closed EXCEPT !.step = "stage", !.id = Records, !.kept = PendingFrames, !.length = Len(Frames)]

\* acknowledge_many from there: answered, after a reclaim when acknowledged
\* frames fill more than half of the file.
AckReturns(p) ==
    /\ handle[p].step = "return" /\ Load
    /\ file' = Repaired /\ extent' = RepairedExtent
    /\ settled' = settled \cup handle[p].acks
    /\ IF Len(Frames) > 2 * Cardinality(PendingAt)
       THEN handle' = [handle EXCEPT ![p] = StartReclaim(p)] /\ UNCHANGED lease
       ELSE handle' = [handle EXCEPT ![p] = Reopened] /\ lease' = p
    /\ UNCHANGED <<directory, lock, committed, asked>>

\* append_record at the byte cap, when a reclaim can make room.
ReclaimForAppend(p, e) ==
    /\ handle[p].step = "open" /\ handle[p].wants = {}
    /\ ~IsPending(e) /\ HasCapacity(e)
    /\ PhysicalLen >= MaxBytes /\ PhysicalLen > Cardinality(PendingAt)
    /\ handle' = [handle EXCEPT ![p] = StartReclaim(p)]
    /\ lease' = Nobody
    /\ UNCHANGED <<disk, lock, told>>

\* forget_synced_extent, then the synced replacement is staged.
StageReclaim(p) ==
    /\ handle[p].step = "stage" /\ lock = Nobody
    /\ extent' = NoExtent
    /\ \E id \in Ids :
          /\ Unnamed(id)
          /\ file' = [file EXCEPT ![id] = [frames |-> handle[p].kept, torn |-> FALSE,
                                           synced |-> Len(handle[p].kept)]]
          /\ handle' = [handle EXCEPT ![p].step = "swap", ![p].copy = id]
    /\ UNCHANGED <<directory, locks, told>>

\* No writer changed the records file or the pending records meanwhile.
SpoolUnchanged(p) ==
    /\ Records = handle[p].id /\ Len(Frames) = handle[p].length /\ ~Torn
    /\ PendingFrames = handle[p].kept

PublishReclaim(p) ==
    /\ handle[p].step = "swap" /\ Load
    /\ \/ /\ SpoolUnchanged(p)
          /\ directory' = Append(directory, [records |-> handle[p].copy, meta |-> Meta])
          /\ file' = Repaired
       \/ /\ ~SpoolUnchanged(p)
          /\ file' = [Repaired EXCEPT ![handle[p].copy] = Empty]
          /\ UNCHANGED directory
    /\ extent' = RepairedExtent
    /\ lease' = p
    /\ handle' = [handle EXCEPT ![p] = Reopened]
    /\ UNCHANGED <<lock, told>>

-----------------------------------------------------------------------------
(* Failures.                                                               *)

Dropped(p) == IF handle[p].copy = NoFile THEN file ELSE [file EXCEPT ![handle[p].copy] = Empty]

\* The process dies, or its call fails: the system releases its locks.
Kill(p) ==
    /\ handle[p].step # "idle"
    /\ file' = Dropped(p)
    /\ lease' = IF lease = p THEN Nobody ELSE lease
    /\ lock' = IF lock = p THEN Nobody ELSE lock
    /\ handle' = [handle EXCEPT ![p] = Closed]
    /\ UNCHANGED <<directory, extent, told>>

\* What is left of the file r: what was synced, and any more of it in order.
Survives(r, n, torn) ==
    [i \in Ids |-> IF i # r THEN Empty
                   ELSE [frames |-> SubSeq(file[r].frames, 1, n), synced |-> n, torn |-> torn]]

PowerFailure ==
    /\ \E d \in DOMAIN directory :
          LET r == directory[d].records
          IN /\ directory' = <<directory[d]>>
             /\ IF r = NoFile THEN file' = [i \in Ids |-> Empty]
                ELSE \E n \in file[r].synced .. Len(file[r].frames), torn \in BOOLEAN :
                        /\ torn => n < Len(file[r].frames) \/ file[r].torn
                        /\ file' = Survives(r, n, torn)
    /\ extent' \in {extent, NoExtent}
    /\ lease' = Nobody /\ lock' = Nobody
    /\ handle' = [p \in Procs |-> Closed]
    /\ UNCHANGED told

SpoolNext ==
    \/ \E p \in Procs :
          \/ Open(p) \/ Commit(p) \/ Kill(p)
          \/ CommitRecords(p) \/ SyncData(p) \/ PublishExtent(p)
          \/ PublishMeta(p) \/ SyncMeta(p) \/ AckReturns(p)
          \/ StageReclaim(p) \/ PublishReclaim(p)
          \/ \E e \in Events : AppendRecord(p, e) \/ AppendTorn(p, e) \/ ReclaimForAppend(p, e)
          \/ \E S \in SUBSET {Frames[i] : i \in PendingAt} : Acknowledge(p, S)
    \/ PowerFailure

SpoolSpec == SpoolInit /\ [][SpoolNext]_spoolVars

-----------------------------------------------------------------------------
(* Properties.                                                             *)

\* A record whose commit returned stays in the spool until the daemon asks to
\* acknowledge that very record, through every crash, compaction and reuse of
\* a sequence: frame and metadata never disagree about it.
CommittedNeverLost ==
    \A f \in committed :
        IF Settled(Meta, f[1]) THEN f \in asked ELSE f \in ToSet(Frames)

\* 07-hooks-crate.md: the spool is bounded to its record limit, which scan and
\* metadata validation rely on.
RecordsBounded ==
    /\ Len(Frames) <= MaxRecords
    /\ NextSequence - Meta.through - 1 <= MaxRecords

\* Whatever died or failed, the next open is refused for nothing but a number of
\* records, the host's or a session's: the frames are in order and within the
\* byte cap, no torn tail is inside a published sync, no sequence is missing.
OpensHealthy == lease = Nobody /\ RecordsBounded /\ SessionsFit => OpenSound

\* Once an acknowledgement returned its record is never replayed again.
SettledStaysSettled == \A f \in settled : Settled(Meta, f[1])
==============================================================================
