# TLA+ verification of tracedecay: observations, deletions and the hook spool

tracedecay is a local code-intelligence and memory daemon, written in Rust in
about sixty crates. This directory holds TLA+ models of its core logic, the TLC
configurations that check them on small instances, and TLAPS proofs of what
holds for every instance. `src/` below is the repository; paths are relative to
`src/crates/`.

The project covers the path of an observation through the daemon, where
correctness is hardest to test. A hook process writes an event durably to the
**spool**. The daemon's **replay** presents canonical records to the
**admission** transactions of the observation journal
(`tracedecay-memory-observation`). The **delivery worker** leases journal rows,
hands them to a memory provider and records what it answered, retrying under
leases that lapse. **Retention** expires, forgets and deletes, and must say
truthfully when deleted content has left the disk; the provider's **source
fence** keeps deleted sources deleted. Processes die, tasks outlive the caller
that gave up on them, answers come late or twice; every property below is about
what remains true while those things interleave.

## 1. Inventory

| Component | State it keeps | Operations | What is hard |
|---|---|---|---|
| Observation dispatch store (`tracedecay-memory-observation/src/sqlite/dispatch.rs`) | delivery rows (state, attempt counter, retry instant, lease), receipts, refusals, orphan records | `lease_pending`, `record_attempt`, `record_unsettled_attempt`, `record_refused_terminal_attempt`, `record_attempt_refusal`, `release_lease`, `reap_expired_leases` | a dispatcher acts on a lease that has lapsed, been reaped and given away; answers come late, twice or never |
| Observation admission (`sqlite/append.rs`, `runtime/ingress.rs`) | journal rows, replay cursor, per-registration cursor, withheld audit | `append_admitted`, `record_withheld`, `record_non_message` | bounded queue, duplicates across restarts, sequences that must never reopen |
| Observation retention (`sqlite/retention.rs`) | content, retention instants, provider source fences | `sweep_expired`, `forget_source`, `verify_forgotten`, fence transitions | content removed from under a held lease; bounded rounds; write-ahead log |
| Recovery (`sqlite/recovery.rs`, `recovery.rs`) | acknowledged watermark, checkpoint, refusal and repair counters | watermark scan, `recovery_state`, `accept_checkpoint`, `record_recovery_refusal` | out-of-order acknowledgements, deleted rows, bounded scan |
| Delivery runtime (`runtime/delivery.rs`, `runtime/wake.rs`, `runtime/backpressure.rs`) | wake flag, cancellation token, drain bounds, pressure gate | `dispatch_batch`, `drain`, `reap`, `shutdown`, `ingest` | collapsed wake edges, shutdown racing an answer, a round that fails in the middle |
| Observation journey (`tracedecay-daemon-service/src/retained_owner/observation_journey.rs`) | worker thread, provider instance state, replay loop, shutdown token | proof of the instance, park, drain, replay pass, shutdown | tasks that outlive their deadline, four shutdown flags set one after another |
| Provider source fence (`sqlite/retention.rs`, `provider_control/authority.rs`) | fence of a source, receipts of operations | record a deletion, admit a revision, retry | compare-and-set by hosts that never learn whether they committed |
| Hook spool (`tracedecay-hooks/src/spool`) | framed append-only file, metadata, synced extent, two locks | open, append, commit, acknowledge, reclaim | several processes, torn writes, power failure |
| SQLite writer runtime (`tracedecay-rusqlite-runtime`) | admission queue, writer thread, reader pool, watermarks | submit, hand off, checkpoint, close | queue limits, cancellation, read-your-writes |
| Shard registry (`tracedecay-runtime-core/src/shard_runtime/registry`) | open shards, leases, retirement | open, lease, retire, evict | retirement racing a lease |
| Source-edit transactions (`tracedecay-source-edit`) | edit journal, staged files | plan, execute, roll back, reconcile | a crash between any two file operations |
| Daemon shutdown (`tracedecay-daemon-service/src/shutdown`) | phases, owners, watchdog | request, drain, join, abort | order, deadlines |
| Graph generations (`tracedecay-graph-db`), payload GC (`tracedecay-lcm`) | published generations, references | publish, lease, collect | a reader of what is being collected |
| Code index, query, MCP, CLI | derived data | parse, rank, format | mostly data, little concurrency of its own |

Interaction: ingress appends and raises the wake edge; the delivery worker loop
(`tracedecay-daemon-service/src/retained_owner/observation_journey.rs`) drains,
reaps and sweeps on every turn; provider adapters answer into the same store;
recovery reads the watermark the receipts advance; privacy requests call
`forget_source` from anywhere. All of them meet only in the store's
transactions.

The hazards, each at its line, are in `PROJECT.json`.

## 2. Modules

| Module | Role |
|---|---|
| `ObservationStates` | delivery states, receipt outcomes and the tables between them (`state.rs`, `receipt.rs`) |
| `ObservationDispatch` | the journal's tables and every transaction that changes a delivery row |
| `ObservationOutbox` | what the journal promises, with no leases, attempts, clock or tables |
| `ObservationRefinement` | the mapping under which `ObservationDispatch` implements `ObservationOutbox` |
| `DeliveryWorker` | the worker thread, its provider instance, ingress wake and shutdown, composed with `ObservationDispatch` |
| `ObservationAdmission` | live replay, the detached ingest tasks, the backpressure gate and the deciding transactions |
| `PrivacyErasure` | forget, sweep and verify over a write-ahead log |
| `SourceFence` | the privacy fence of one source at one provider |
| `HookSpool` | the spool's files, locks and handles, with deaths and power failures |
| `MC...` | values for the constants of one module each |
| `ObservationDispatchProofs` → `ObservationSettlementProofs` → `ObservationRefinementProofs` | proofs of the journal, each extending the one before; the watermark's are in the second |
| `DeliveryWorkerProofs`, `ObservationAdmissionProofs`, `PrivacyErasureProofs`, `SourceFenceProofs`, `HookSpoolProofs` | proofs of those modules; the first builds on `ObservationDispatchProofs` |

### The journal (`ObservationDispatch`)

One action is one store transaction: `with_transaction` holds the connection
mutex and a write transaction, so the steps of one transaction do not interleave
with another's, and an error rolls it back (an action that would fail is not
enabled). Between transactions anything may happen.

The model is of one lane (provider and registration) and one source stream;
observation `k` is the one admitted at source sequence `k`. Digests, payload
bytes, JSON and identities are abstracted: observation, idempotency key and
sequence name the same row, and a lease id, which is a digest over the
observation and the attempt number, is the pair of the two.

| State | Code |
|---|---|
| `content`, `admittedAt`, `forgottenAt` | `tdmem_observation_journal_v1`: presence of the row, of `payload_bytes`, `admitted_at_micros`, `content_forgotten_at_micros` |
| `state`, `attempt`, `nextAttemptAt`, `leaseExpires`, `lastReceipt` | `tdmem_observation_delivery_v1` |
| `receipts`, `refusals`, `orphans` | the three attempt-evidence tables |
| `cursor`, `watermark` | `last_admitted_sequence` of the target cursor; `acknowledged_sequence` of the recovery row |
| `inflight` | the leased items that dispatchers still hold in memory |
| `now` | the host clock |

| Action | Code |
|---|---|
| `AppendAdmitted` | `append_admitted_in_transaction`, behind `IngressResumeV1::accepts` |
| `LeasePending` | `lease_pending`: expire past-deadline rows, exhaust rows out of attempts, scan candidates, claim the batch |
| `RecordAttempt` | `record_attempt`: insert or find the standing receipt, advance the watermark, settle the row if it is still leased against this attempt |
| `RecordUnsettledAttempt`, `RecordRefusedTerminalAttempt` | evidence and release in one transaction, under the exact lease |
| `RecordAttemptRefusal`, `ReleaseLease`, `ReapExpiredLeases` | the methods of those names |
| `DropItem` | a dispatcher is done with an item, abandoned its batch after an error, or died (not code: marked external) |
| `SweepExpired` | phases (1) to (3) of `sweep_expired` |
| `ForgetSource` | `forget_source` |
| `RecoveryState` | the watermark page `recovery_state` advances before it reads |

Choices that matter:

* A dispatcher that holds an item may call any of the holder operations at any
  later time, several times, in any order. `dispatch_batch` is one such
  dispatcher; the model lets a late or repeated one do more than it does.
* `ORDER BY column, digest LIMIT n` is any set of `n` least rows: ties are
  broken by a digest, so every tie-break is allowed.
* The receipt of a settled attempt carries the instant the attempt finished,
  which is any instant between the lease and its recording.
* Append's sequence check also admits the same event again at the cursor's own
  sequence once its row has been removed. The caller reads the replay position
  and skips such a record (`accepts`), so this module does not take that step.
  `ObservationAdmission` does: there the position a task read may be stale.
* Withheld audit rows (sweep phase 4, part of `forget_source`) are state of
  `ObservationAdmission`, the log truncation after a sweep or forget of
  `PrivacyErasure`.

### The delivery worker (`DeliveryWorker`)

Extends `ObservationDispatch`: every step is one of the worker's own or exactly
one transaction of the journal, so what the journal leaves to chance (which
operation a holder calls, and when) is here what `dispatch_batch` decides.

| State | Code |
|---|---|
| `pc` | where the worker thread of the journey is |
| `pending` | `WakeStateV1::pending`, the collapsed wake edge |
| `stopStep` | how many of shutdown's writes have been made: the journey's token, the instance state, the wake's cancellation token, its shutdown flag, then `DeliveryRuntimeV1::shutdown`'s pass |
| `instance`, `turnInstance` | the provider instance's availability; the identity this turn's request leases under |
| `rounds`, `leased`, `batch`, `answer` | locals of `drain` and `dispatch_batch` |
| `unsignalled` | an ingress appended rows and has not signalled them yet |
| `edgeLost`, `abandoned` | history: a wake that was lost, and the leases a failed call or a dead process left behind |

| Action | Code |
|---|---|
| `IngestAppends`, `IngestSignals`, `IngestFails` | `ingest`: append, one signal after the batch, early return on an error |
| `TopOfLoop`, `RetryFallsDue`, `FinishProof` | `take_proof_attempt`, the retry wait, the proof's result |
| `WaitForWork` | `DeliveryWakeV1::wait`: a wake, a timeout or a stop |
| `DrainRound`, `DrainStops`, `ClaimBatch`, `BatchDone` | `drain` and its bounds |
| `ReleaseUntried`, `StartDelivery`, `AdapterReturns`, `DecideDisposition`, `PersistAnswer` | one item of `dispatch_batch`; the answer is judged again after it returned |
| `JournalFails` | any journal call of the drain returns an error |
| `ReapTurn`, `SweepTurn` | the end of a turn |
| `RequestShutdown`, `ShutdownPass`, `Stop`, `Restart` | `shutdown` write by write, the thread's end, and a new process over the same journal |

### Admission (`ObservationAdmission`)

| State | Code |
|---|---|
| `rows`, `withheld`, `nonMessage`, `cursor`, `target` | the journal, the withheld audit, the non-message checkpoints, the replay cursor of a session, the target cursor of a registration |
| `reg`, `mounts` | registration revision of the mount |
| `hides`, `unreadable` | what this revision of the program makes of a record: the messages its sanitizer refuses, the records it answers with the same error on every pass (`replay_recoverability`: permanent) |
| `ready` | whether a pass may begin: `is_ready()` of the provider instance, and the loop has not ended |
| `pc`, `page`, `waiting` | the replay loop, its page, the task it waits for |
| `tasks` | the blocking ingest tasks, detached ones included |
| `breaches` | the gate's streak of slow foreground records, up to the length that sheds |
| `admittedEver`, `withheldEver` | history |

| Action | Code |
|---|---|
| `ReadinessChanges` | the instance is lost or proved again between two passes |
| `ReadPage`, `SpawnIngest`, `Join`, `JoinSlow`, `JoinTimesOut` | `replay_canonical_observations`; the answer, within the foreground budget or not; the wait under the pass's deadline, which leaves the task running |
| `Recover`, `Gate`, `Stops`, `Faults` | `recover`, the replay-identity check, the backpressure decision, `caller_stop`, a call that fails at this moment |
| `Commit` | `append_admitted_at`, `record_withheld_at` or `record_non_message`, each with its checks in order; for an unreadable record the error |
| `Settle`, `DeleteRow`, `DeleteWithheld` | what delivery and retention do to the tables meanwhile, at any time |
| `Remount`, `Restart` | a new mount in the same process, whose old tasks live on; a new process, perhaps of another revision |

The lane is measured in rows and the parts-per-million thresholds are row counts.
All canonical records exist from the start, so a pass that runs out of budget and
one that runs out of records are both `idle`. Which messages the sanitizer refuses
is any subset of `Withholdable`, and which records cannot be read any subset of
`Suspect`, both fixed within a process. The live loop looks at the readiness gate
only before a pass, so `ready` changes only between passes; a mount begins ready,
because its startup replay does not ask. A loop that ended (`Cancelled`, or
shutdown) is one that is never ready again until the next mount. Errors of the
moment may happen in every task, any number of times.

### Erasure (`PrivacyErasure`)

`live` is what a query sees of a row, `file` and `wal` the rows whose content the
database file and the log still hold, `snapshot` the view of another connection.
`forget_source`, the sweep and `verify_forgotten` are threads of two steps each,
as in the code, which gives the connection back between its transaction and
`checkpoint_truncate`. `Checkpointed` is SQLite's rule (external): a checkpoint
copies no further than an open snapshot, and truncation then reports busy. A
crash keeps what was committed. A sweep truncates even when it purged nothing,
which is what erases after a crash.

### The source fence (`SourceFence`)

`fence` and `receipts` are the two tables, `host` what each caller asked and was
told. `Prepare` reads the revision a request will be compared with, `Apply` is the
transaction in its order: a stored receipt answers a retry before the revision is
looked at; then the compare-and-set; then fence and receipt are written together.
`CutShort` is a deadline or a busy database, `CommitFails` a COMMIT whose error
says nothing of what happened. Digests and the clock are left out of a request.

### The hook spool (`HookSpool`)

| State | Code |
|---|---|
| `file` | records files by file identity: frames, how many are synced, a torn tail |
| `directory` | the current names and metadata, and every change since the last directory sync |
| `extent` | `commit.v1.lock`: how far a completed sync of a file reached |
| `lease`, `lock` | `writer.v1.lease` and the lock on `commit.v1.lock` |
| `handle` | where each process's handle is, and its locals |
| `committed`, `asked`, `settled` | history: what callers were told |

| Action | Code |
|---|---|
| `Open` | scan, repair of a torn tail, validation; an open that is refused after its scan has repaired the file all the same |
| `AppendRecord`, `AppendTorn`, `Resume` | `append` under the lease; a write cut short; an event already pending |
| `Commit`, `CommitRecords`, `SyncData`, `PublishExtent`, `CompactedAway` | `commit`, shared between waiters through the extent |
| `PublishMeta`, `SyncMeta`, `AckReturns` | `acknowledge_many` with the lease released for its barriers |
| `StartReclaim`, `ReclaimForAppend`, `StageReclaim`, `PublishReclaim` | the reclaim, staged outside the lease and published under it |
| `Kill`, `PowerFailure` | a failed call or a death; the machine's |

Lengths are in frames, a torn frame counting as one. An open is refused by what the
code's open looks at: the file's byte cap, the number of frames, a sequence that does
not exceed the one before it, a torn tail inside a published sync (`ScanSound`), a gap
after the metadata (`Contiguous`), an unsettled sequence without a frame or more of
them than the host limit (`RecordsMatchMeta`), and a session's pending records over
its limit (`SessionsFit`). The file system is an ordered, journalling one: a power
failure keeps a prefix of the directory's changes, an appended file keeps a prefix
of its frames with perhaps a torn one behind it, and never a complete frame that
was not written; the lock file's extent is then the current one or none. An open
file's identity is not handed out again. A hook makes one append per handle, and a
replay pass only acknowledges, as `capture.rs` and the replay do.

The code walks the records file in loops; the model says what they compute in terms
of positions of frames: `PendingAt` (the frames the metadata has not settled),
`Unrecorded` (those it does not know), and their numbers. `Selected` puts the frames
at a set of positions in their order, which is what a reclaim writes.

## 3. Runs

| Run | Instance | Shows |
|---|---|---|
| `DispatchRow` | one observation, two attempts, five clock ticks, five provider outcomes | attempts, receipts and settlement stay consistent under late, repeated and lost answers |
| `DispatchStream` | two observations, the first larger than a batch; scan, sweep and reap budgets of one | the watermark; the journal implements the outbox |
| `DispatchLiveness` | two observations of one source that can lapse, run out of attempts or age out at once, rounds of one; no answers at all | every admission settles, expired content is purged |
| `DispatchAttempts` | two rows, one attempt, batches of one | violation: section 5 |
| `WorkerWake` | two rows that fill a batch by bytes, two provider instances, one fault | wake edges, leases, late answers, claims; every step is a journal step |
| `WorkerLiveness` | one row larger than a batch, two instances, two proof attempts, one fault | shutdown ends the worker, fresh rows are claimed |
| `AdmissionRecords` | four records of two sessions, one no message, one withholdable, one that may be unreadable, one optional; two tasks, two registrations, one remount or restart; faults and losses of the instance at any time | replay skips nothing and decides every record once, within the lane, up to one it can never read |
| `ErasureReceipts` | two rows of two sources, two snapshots, one crash | truncation receipts and verifications are true; purged content leaves the disk |
| `ErasureVerified` | one row | violation: section 5 |
| `FenceIntents` | three operations, two revisions, one failure | operations apply once, deletions are final, retries are answered |
| `SpoolDurability` | two handles, two events of two sessions, three file identities, two sequences, a byte cap of two frames | nothing committed is lost, nothing settled returns, an open is refused for a count of records only |
| `SpoolLimit` | one handle, three events | violation: section 5 |

The properties, and what would break without the code's care.

Journal:

* `AttemptsNeverReused`: no receipt, refusal, orphan or dispatcher names an
  attempt above the counter. The claim consumes the number; nothing returns it.
* `LeaseUnanswered`: a leased row has no receipt or orphan for its attempt.
  The reap inserts orphan records that collide rather than overwrite, and a
  collision would roll back the round for ever; this is why it cannot.
* `OneReceiptPerAttempt`: answers are first-come, whoever repeats them.
* `SettledHasEvidence`: a settled row's last receipt is of its final attempt
  and justifies its state, even if a stale dispatcher's receipts landed between.
* `OnlyOwnerSettles`: a stale dispatcher settles no row.
* `NothingUndeliverable`: content is never purged from under an unsettled row,
  whoever holds its lease.
* `WatermarkJustified`, `WatermarkMonotone`: the replay position passes no
  standing row without an acknowledgement and never moves back, although rows
  are answered out of order and removed.
* `ImplementsOutbox`: the whole journal, seen through `LifeOf`, is an outbox.
* `EveryAdmissionSettles`, `ContentIsPurged`: bounded rounds reach every row.

Worker:

* `NoBacklogWithoutWake`: a worker that parks on rows it left due has a wake
  pending. The edge is one flag, consumed when the worker looks, and a batch cut
  short by its bytes must not be read as the last one.
* `LeasesHaveHolders`: a lease is in the running batch or was abandoned by a
  failed call; no path of `dispatch_batch` walks away from one.
* `LateAnswersNeverSettle`, `ClaimsUnderProvedInstance`, `InstanceNotRevived`:
  state read before the adapter was called is judged again after it returned.
* `DrivesTheJournal`: the journal's specification, so all of its properties hold
  of the composition.
* `ShutdownStopsWorker`, `FreshRowsAreClaimed`: every place the worker can wait
  sees one of shutdown's flags; a lost edge costs one park interval, not the row.

Admission:

* `NoGapBelowWatermark`: the watermark is a maximum over sessions, and tasks
  nobody waits for commit late; still no undecided record is below it.
* `DecidedOnce`: retention deletes the rows that closed a record and a restart may
  judge it differently; the replay position keeps it closed.
* `LaneBounded`: the gate's measurement may be stale, the transaction's is not.
* `ReadmittedOnlyAtPosition`: a surviving task never journals behind the position.
* `EveryRecordDecided`: shed and halted records, and those of passes that were cut
  short, are presented until they are decided. It assumes that the instance stays
  proved from some time on and that from some time on no record overruns its pass,
  its budget or meets an error of the moment. A record the code refuses alike on
  every pass ends the replay there, and only there: the watermark stands below it,
  as the comment on the loop's error path says.

Erasure, fence, spool:

* `TruncatedReceiptMeansErased`, `VerifiedCoversEarlierPurges`,
  `PurgedContentLeavesDisk`: what a receipt or a verification says of the disk.
* `AppliedOnce`, `StrongIntentIsFinal`, `AdmissionsFollowDeletions`,
  `RetriesGetTheirReceipt`: compare-and-set with callers that do not know whether
  they committed.
* `CommittedNeverLost`, `SettledStaysSettled`: durability across deaths and power
  failures, with barriers taken outside the lease.
* `OpensHealthy`: whatever failed, the spool left behind is one the code can open,
  unless more records are pending than the host's or a session's limit.

**Bounds.** The clock stops at `MaxTime`. In `DispatchRow` every deadline, lease,
retry, expiry and audit window elapses before it. In `DispatchStream` deadlines,
leases and expiries elapse, and the audit window of a row that was forgotten early.
In `DispatchLiveness` leases, deadlines and the age of a class elapse, the admitted
expiry does not; one attempt is allowed, so a dispatcher that died once has exhausted
its row; both rows can be outdated, or their leases lapsed, while a round takes one;
and a row admitted after the first tick must settle without the sweep. `WorkerWake`
and `WorkerLiveness` have one tick, in which leases lapse and retries fall due, while
deadlines and expiries lie beyond it: they are about the thread, not about time.
Interference between rows is only through shared budgets, the queue and the
watermark, so one row suffices for the properties of a row and two for the stream's
and the worker's. Attempts are bounded by the clock, not by a counter.

Two tasks are what a late commit needs (one abandoned, one current), and four records
put one session's cursor ahead of another's; two registrations and one remount make a
position of an old registration stale. Mounts, crashes, snapshots, sequences and the
faults of worker and fence are counted (`MaxMounts`, `MaxCrashes`, `MaxReads`,
`MaxSeq`, `MaxFaults`, `MaxFailures`); one of each is enough for the hazards listed,
because none needs two. The faults of admission are not counted.

In `SpoolDurability` the byte cap and the session limits are reached, the host's
record limit is not, so the finding of `SpoolLimit` does not mask the other
properties. With two sequences a reclaim there keeps at most one frame, so that the
order of several is kept is not a matter of this run: on a larger instance (one
handle, three events, three sequences and frames, record limit four) TLC finds
`OpensHealthy` violated by a reclaim that reverses its frames, and for any number the
order is part of the proof. The run's bounds also leave no room for a torn tail behind
a session over its limit, so that an open which repairs the file and is then refused
does no harm is shown by the proof alone (`OpenRefusedKeeps`). Symmetry is used over handles, events and file identities
of the spool and operations of the fence, in runs without liveness. Deadlock checking
is off only for worker and admission, which rest when nothing is left to do.

**Fairness.** `WorkerFairness` (`DispatchLiveness`) is weak fairness of
`LeasePending`, `ReapExpiredLeases`, `SweepExpired` and of the clock. The worker
loop makes each call on every turn and parks with a mandatory timeout
(`DeliveryWakeV1::wait`), so an enabled call is made again within a bounded time;
the sweeper owns a cadence with a bounded back-off. Leasing also needs the provider
instance to be known, which the loop waits for. No fairness is assumed of
dispatchers, providers or privacy requests. `ThreadFairness` (`WorkerLiveness`) is
weak fairness of the worker thread, of a proof retry falling due and of shutdown's
remaining writes once it began, and strong fairness of `DrainRound`: the wall
budget of a drain may be spent before its first round, but not every time.
`FairAdmissionSpec` is weak fairness of the replay loop (a daemon task that parks for
a bounded time), of each blocking task, and of the settling of queued rows, which
`DispatchLiveness` justifies. The loop's next pass is enabled only while `ready`
holds, and nothing is assumed of `ready` by the specification: that the instance
stays proved in the end is a hypothesis of `EveryRecordDecided`, and so is that
passes are disturbed only finitely often. Restarts are bounded by `MaxMounts`. `FairErasureSpec` is weak fairness of the sweeper's tick, which the
worker makes every turn, and of readers closing their snapshots.

## 4. Proofs

Eight proof modules prove for every value of the constants (constrained only by the
named assumptions of the modules that declare them: `SizesAssumption`,
`PolicyAssumption`, `WorkerAssumption`, `AdmissionAssumption`, `ErasureAssumption`,
`FenceAssumption`, `SpoolAssumption`):

| Theorem | States |
|---|---|
| `TypeCorrect`, `AttemptsAreFresh`, `EvidenceLeavesWithRow`, `LeasesStayUnanswered`, `ReceiptsAreUnique`, `PurgedIsSettled` | `Spec =>` always `TypeOK`, `AttemptsNeverReused`, `EvidenceAgesOut`, `LeaseUnanswered`, `OneReceiptPerAttempt`, `NothingUndeliverable` |
| `EvidenceIsAppendOnly`, `WatermarkIsJustified`, `WatermarkNeverRetreats` | `EvidenceAppendOnly`, `[]WatermarkJustified`, `WatermarkMonotone` |
| `SettledRowsAreProven`, `TransitionsObeyTable`, `SettlementNeedsTheLease` | `[]SettledHasEvidence`, `StateChangesObeyTable`, `OnlyOwnerSettles` |
| `JournalImplementsOutbox` | `Spec => ImplementsOutbox` |
| `WorkerDrivesTheJournal` | `WorkerSpec => DrivesTheJournal`, a refinement |
| `WorkerTypeCorrect`, `LeasesAreHeld`, `NoBacklogIsStranded` | `WorkerSpec =>` always `WorkerTypeOK`, `LeasesHaveHolders`, `NoBacklogWithoutWake` |
| `CancelledInstancesStayDown`, `ClaimsNameTheProvedInstance`, `LateAnswersSettleNothing` | `InstanceNotRevived`, `ClaimsUnderProvedInstance`, `LateAnswersNeverSettle` |
| `AdmissionTypeCorrect`, `ReplaySkipsNothing`, `RecordsAreDecidedOnce`, `LanesAreBounded` | `AdmissionSpec =>` always `AdmissionTypeOK`, `NoGapBelowWatermark`, `DecidedOnce`, `LaneBounded` |
| `NothingIsReadmittedBehind` | `AdmissionSpec => ReadmittedOnlyAtPosition` |
| `ErasureTypeCorrect`, `TruncatedReceiptsAreTrue`, `VerificationCoversEarlierPurges` | `ErasureSpec =>` always `ErasureTypeOK`, `TruncatedReceiptMeansErased`, `VerifiedCoversEarlierPurges` |
| `FenceTypeCorrect`, `OperationsApplyOnce`, `StrongIntentsAreFinal`, `NoStaleAdmission` | `FenceSpec =>` always `FenceTypeOK`, `AppliedOnce`, `StrongIntentIsFinal`, `AdmissionsFollowDeletions` |
| `RetriesAreAnswered` | `FenceSpec => RetriesGetTheirReceipt` |
| `SpoolTypeCorrect`, `CommittedRecordsNeverLost`, `SettledRecordsStaySettled` | `SpoolSpec =>` always `SpoolTypeOK`, `CommittedNeverLost`, `SettledStaysSettled` |
| `OpensRefusedForCountsOnly` | `SpoolSpec =>` always `OpensHealthy` |

`EvidenceAgesOut`, `EvidenceAppendOnly` and `StateChangesObeyTable` are proved and
have no run of their own.

### The journal

The argument has four inductive layers.

1. `Core` is `TypeOK /\ RowShape /\ AttemptsNeverReused /\ EvidenceAgesOut`.
   The type invariant alone is not inductive: the terminal receipt of a row
   takes the slot above the greatest receipt attempt and the counter, which is
   known to be a number only while the counter bounds its receipts
   (`SlotFresh`: the slot is exactly the counter plus one). That bound in turn
   needs that nothing is known of a sequence above the cursor (`RowShape`), or
   an admission could open a row that old evidence already names.
2. `Custody` is `LeaseUnanswered /\ OneReceiptPerAttempt /\
   NothingUndeliverable`, inductive relative to `Core`: a claim's attempt is
   above every receipt and orphan, an answer or release ends the lease it is
   evidence of, and a purge settles what it purges.
3. `Replay` is `WatermarkJustified /\ watermark =< cursor`, inductive relative to
   `Core`. The bound is needed because an admitted row opens above the cursor and
   has no acknowledgement yet. It rests on two facts about any step:
   `EvidenceKept` (receipts of a row that stands before and after survive) and
   `PositionStep` (the watermark moves only by a scan, and `ScanIsJustified`: a
   page leaves out no row below one it takes, so the acknowledged prefix of a
   page is a prefix of all standing rows).
4. `SettledHasEvidence` is inductive relative to `Core` and `Custody`. Every step
   is shown to give each row one of six fates (`RowStep`: kept, opened, removed,
   moved, settled by the host, answered by its owner); the settlement invariant,
   the transition table and the ownership of settlement all follow from the fates.
   That only settled rows are removed uses `NothingUndeliverable`: the sweep can
   find no stranded row, so what it removes was settled before.

The refinement combines them: a scan is a move of the position, an acknowledging
answer acknowledges, and everything else retires some observations or none
(`QuietStepRetires`). `LeaseUnanswered` is what excludes that a lease is settled
on an acknowledgement recorded earlier.

The first two layers have one lemma per transaction; `Retire` is proved once for
the sweep and the forget, `Unlease` once for the three operations that release.

### The worker

`StepsDriveTheJournal` shows that every step is at most one transaction of the
journal; with it the journal's inductive invariant `Core` carries over unchanged.
`Control` adds the shape of the thread's own state: which batch, answer and
instance go with which program counter. Relative to it `LeasesHaveHolders` is
inductive: an item leaves the batch only when its lease is gone or was recorded as
abandoned (`ItemIsDone`). `NoBacklogWithoutWake` is not inductive; `Wake` adds that
rows released untried are due at once, that `leased` counts the rows a round
claimed, so a round that claimed none found none, and that the worker is idle only
when it left no backlog or raised the edge.

### Admission

`Typed` says each live task has a record and a registration, the task waited for is
of the page's first record, and the page is a run of consecutive records.
`Positions` is the strengthening for `NoGapBelowWatermark`: every record below a
task's or the page's first record is decided (`Front`), a session's cursor leaves
no undecided record below it in *any* session, and a decided record is never
above its own session's cursor (`CursorCovers`). A late commit therefore either
decides the next record or one already decided. `DecidedOnce` needs `Agreement`
besides: a record in the page or in a task is decided, if at all, as this process
would decide it, because a restart that changes the sanitizer also ends all tasks,
and whatever is read after it lies past the cursor. `LaneBounded` and
`TargetCovers` (a registration's position is at or past all it was given) are
inductive relative to `Typed`.

### Erasure

`Gone(r)` (purged, on neither file nor log, and in no open snapshot) is stable
under every step: a snapshot shows only what was live when it was opened
(`SnapshotIsPast`), so no checkpoint brings a purged row back. `ForgetterHonest`
and `VerifierHonest` say that a thread which saw the log truncated covers only such
rows.

### The fence

Only `Write` changes the ledger, so `Ledger` is shown once for it: revisions of
receipts are exactly those the fence went through, one each; strength never
decreases (`StrengthKept`); what is admitted is the newest receipt's
(`AdmittedLast`); every stored receipt passes `read_receipt`'s own binding checks
(`ReceiptsBind`).

### The spool

None of the promises is inductive: each is about the newest directory entry, and a
power failure brings back an older one over a file that may have been cut. The
invariant `SpoolInv` (`SpoolInvariance`) therefore speaks of every entry since the
last directory sync. Besides the type invariant it has these parts:

* `EntriesOK`: the frames of an entry's file ascend; those its metadata does not know
  follow it without a gap (`Follows`); what the metadata knows and has not settled
  lies in the *synced* part of the file (`Durable`); a frame it has settled was asked
  for (`Asked`). Entries of one file agree on the sequence the next append takes
  (`SameEnd`), which is what keeps a sequence from being given out twice when a
  power failure brings back older metadata.
* `ExtentOK`: a published extent claims no more than is synced, and an extent of the
  newest file means that no entry of another file can come back. This is what lets a
  second committer return without a sync of its own.
* `CommittedOK`, `SettledOK`: the promises, of every entry.
* `HandlesOK`: between two steps a handle holds what its next step relies on. The
  records a hook waits for are in the file at a position its commit will reach, or
  settled (`WantsOK`); the length it will publish is within the file and, after the
  sync, synced (`ClaimOK`); an acknowledgement's new metadata settles only what it was
  asked and names only records its own commit makes durable, as long as the metadata it
  was computed from stands (`AckOK`), which is the condition `publish_meta` tests;
  a staged copy holds what was captured and nobody names it (`CopyOK`).
* `CopiesApart`: no two handles stage into one file identity.

Preservation has one lemma per action (`<Action>Keeps`). They rest on what a change
of a file does to an entry: `FramesAppended`, `FramesTruncated`, `FramesSettled` and
`FramesCompacted`; and on a handle's claims seen from another handle's step:
`HandleKept` (files were synced further, older entries went, or nothing of its
concern changed), `HandleGrown` (its file received another frame), `HandleSuperseded`
(a new entry replaced the newest). The delicate
case is `PublishReclaim`: the copy was captured before the lease was released, and
the lemma uses all of `SpoolUnchanged` to show that it still holds every record that a
waiting committer will be told is durable.

`SpoolFits` (`SpoolFitsAlways`) is a second, smaller invariant: no records file, named
or staged, and no replacement about to be written exceeds the byte cap. It needs the
staged copies because a reclaim publishes one without measuring it again.

`OpensHealthy` speaks of states within the record limits, because beyond them it is
false: `SpoolLimit` (section 5) reaches a spool that exceeds `max_host_records` and is
refused. `OpensRefusedForCountsOnly` shows that there is no other reason. From
`EntriesOK` the frames ascend and follow the metadata without a gap, from `ExtentOK` no
torn tail is inside a published sync, from `SpoolFits` the file is within its cap, and
from `Durable` every unsettled sequence has its frame (`SpoolScans`, `SpoolOpens`).

The inductive invariant was checked with TLC on the instance of `SpoolDurability`
before it was proved.

### Only model-checked

Liveness under fairness is out of the prover's reach: `EveryAdmissionSettles`,
`ContentIsPurged`, `ShutdownStopsWorker`, `FreshRowsAreClaimed`,
`EveryRecordDecided`, `PurgedContentLeavesDisk`. Every safety property that a passing
run checks is also proved.

## 5. What the checks found

* **`max_attempts` is not a bound** (`DispatchAttempts`). `lease_pending`
  exhausts at most `max_items` rows per call, and its candidate query does not
  test the attempt number, so a row the exhaustion round did not reach is leased
  once more. The comment on `SELECT_ATTEMPTS_EXHAUSTED` says the opposite.
* **A verification can vouch for a purge it did not cover** (`ErasureVerified`).
  `verify_forgotten` truncates the log and then queries, each under its own hold of
  the connection; a purge that commits in between is reported as complete on disk.
  What was purged before the call is covered (`VerifiedCoversEarlierPurges`, proved).
* **The spool's record limit admits more than its scan accepts** (`SpoolLimit`).
  Appends are admitted by the number of *pending* records; acknowledged frames that
  no reclaim has removed count only against the scan, which then reports the spool
  as corrupted.

Met while modelling, without a run: a lease given back by `release_lease` consumes
its attempt and leaves no receipt, refusal or orphan record, while `orphan.rs` calls
the three tables a complete audit; orphan records are deleted by no sweep; a host
whose deletion's COMMIT failed may be told that it was refused before the commit
(`CommitFails`), although it was written; a power failure before the barrier of an
acknowledgement's metadata brings back records it had settled, and with
what was appended meanwhile they may exceed a session's limit, so that the next open
answers `SpoolFull` (`OpensHealthy` leaves that case out).

## 6. Plan

1. `HookSpool`: the reset and preparation of a spool, the checkpoint accelerator,
   replay claims; their steps then join the proof of `SpoolInv`.
2. The recovery assessment: checkpoint acceptance, recovery refusals, the repair
   budget.
3. The SQLite writer runtime, the shard registry, the source-edit journal and the
   shutdown orchestration, each with its abstract specification.
4. Composition of `ObservationAdmission` with `DeliveryWorker` in one module: today
   the first sees delivery as `Settle`, the second sees admission as an append in
   order.

## 7. Not modelled

Checkpoints, recovery refusals and the repair budget of `recovery.rs`; mounting,
history authority and recall of the observation journey; reset, removal,
preparation, accelerators, replay claims, the control reserve and the mark a corrupt
scan leaves in the metadata of the spool; the startup replay of a mount; the SQLite writer runtime, the shard registry, source-edit transactions,
daemon shutdown, graph generations and payload collection. Nothing stands in the way
of those but the work.

Code extraction, indexing, ranking, tokenizing, prompts, the dashboard, the CLI and
MCP surfaces transform data and keep little state of their own: a model would repeat
the code. SQLite itself is taken to be atomic and durable per transaction, except in
`PrivacyErasure`, which is about its log. Schema migration and the decoding of
stored rows are left out; a corrupt store is refused by the code and is not a state
of the model, except in `HookSpool`, where whether one can arise is the question.
