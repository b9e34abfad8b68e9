------------------------ MODULE ObservationDispatch ------------------------
(***************************************************************************)
(* The durable delivery journal of admitted observations: the SQLite       *)
(* tables and transactions through which dispatchers lease an observation, *)
(* record what the provider answered, and through which leases are reaped, *)
(* content expires, sources are forgotten and rows age out.                *)
(*                                                                         *)
(* One action is one transaction of the store (with_transaction takes the  *)
(* connection mutex and a write lock, so transactions do not interleave);  *)
(* what interleaves is everything between them.  A dispatcher that holds a *)
(* leased item may call any operation for it at any later time, more than  *)
(* once, or never again (it finished, or its process died), however long   *)
(* ago the lease was reaped and the row leased to somebody else.           *)
(*                                                                         *)
(* The model is of one lane (provider, registration revision) and one      *)
(* source stream, so observation k is the one admitted at source_sequence  *)
(* k.  Each variable that is a function on Obs is a column of the journal  *)
(* or delivery table.                                                      *)
(*                                                                         *)
(* Source: crates/tracedecay-memory-observation/src/sqlite/dispatch.rs,    *)
(* append.rs, retention.rs, recovery.rs.                                   *)
(***************************************************************************)
EXTENDS ObservationStates, FiniteSetsExt

CONSTANTS
    N,                  \* observations the source stream offers
    Deadline,           \* deadline_micros of each observation
    ExpiresAt,          \* expires_at_micros of each observation
    MaxAge,             \* the maximum age of its retention class
    Size,               \* its queue_bytes
    ForgetKey,          \* its forget_source_key
    MaxItems, MaxBytes, LeaseDuration,                     \* LeaseRequestV1
    MaxAttempts, BackoffBase, BackoffMax, ReceiptRetention,
    MaxQueueItems, MaxQueueBytes, SweepRows,               \* RetentionPolicyV1
    ReapBudget,         \* leases one reap round reclaims
    ScanRows,           \* ACKNOWLEDGED_GAP_SCAN_ROWS
    ProviderOutcomes,   \* outcomes a provider's receipt may carry
    MaxTime             \* bound of the model: the clock stops here

Obs == 1 .. N

ASSUME SizesAssumption ==
    /\ N \in Nat
    /\ Deadline \in [Obs -> Nat]
    /\ ExpiresAt \in [Obs -> Nat]
    /\ MaxAge \in [Obs -> Nat]
    /\ Size \in [Obs -> Nat]
    /\ DOMAIN ForgetKey = Obs
    /\ MaxTime \in Nat

\* RetentionPolicyV1::validate, LeaseRequestV1::validate, RetryBackoffV1::validate.
ASSUME PolicyAssumption ==
    /\ {MaxItems, MaxBytes, LeaseDuration, MaxAttempts, BackoffBase, BackoffMax,
        ReceiptRetention, MaxQueueItems, MaxQueueBytes, SweepRows, ReapBudget,
        ScanRows} \subseteq Nat \ {0}
    /\ BackoffBase =< BackoffMax
    /\ ProviderOutcomes \subseteq Outcomes

VARIABLES
    now,            \* the host clock
    content,        \* "absent": no row; "held" or "purged": its payload_bytes
    admittedAt,     \* admitted_at_micros
    forgottenAt,    \* content_forgotten_at_micros
    state,          \* delivery state
    attempt,        \* attempt_number: attempts the row has consumed
    nextAttemptAt,  \* next_attempt_at_micros
    leaseExpires,   \* lease_expires_at_micros
    lastReceipt,    \* the attempt last_receipt_id names; 0 is NULL
    receipts,       \* tdmem_observation_receipt_v1
    refusals,       \* tdmem_observation_attempt_refusal_v1, <<obs, attempt>>
    orphans,        \* tdmem_observation_attempt_orphan_v1, <<obs, attempt>>
    cursor,         \* last_admitted_sequence of the target cursor
    watermark,      \* acknowledged_sequence of the recovery row
    inflight        \* <<obs, attempt>> leases a live dispatcher still holds

rowVars == <<content, admittedAt, forgottenAt>>
deliveryVars == <<state, attempt, nextAttemptAt, leaseExpires, lastReceipt>>
evidenceVars == <<receipts, refusals, orphans>>
vars == <<now, rowVars, deliveryVars, evidenceVars, cursor, watermark, inflight>>

ReceiptRecords == [obs : Obs, attempt : Nat \ {0}, outcome : Outcomes]

\* Type invariant of every column, table and cursor.
TypeOK ==
    /\ now \in Nat
    /\ content \in [Obs -> {"absent", "held", "purged"}]
    /\ admittedAt \in [Obs -> Nat]
    /\ forgottenAt \in [Obs -> Nat]
    /\ state \in [Obs -> DeliveryStates \cup {NoRow}]
    /\ attempt \in [Obs -> Nat]
    /\ nextAttemptAt \in [Obs -> Nat]
    /\ leaseExpires \in [Obs -> Nat]
    /\ lastReceipt \in [Obs -> Nat]
    /\ receipts \subseteq ReceiptRecords
    /\ refusals \subseteq Obs \X (Nat \ {0})
    /\ orphans \subseteq Obs \X (Nat \ {0})
    /\ cursor \in 0 .. N
    /\ watermark \in 0 .. N
    /\ inflight \subseteq Obs \X (Nat \ {0})

Init ==
    /\ now = 0
    /\ content = [k \in Obs |-> "absent"]
    /\ admittedAt = [k \in Obs |-> 0]
    /\ forgottenAt = [k \in Obs |-> 0]
    /\ state = [k \in Obs |-> NoRow]
    /\ attempt = [k \in Obs |-> 0]
    /\ nextAttemptAt = [k \in Obs |-> 0]
    /\ leaseExpires = [k \in Obs |-> 0]
    /\ lastReceipt = [k \in Obs |-> 0]
    /\ receipts = {}
    /\ refusals = {}
    /\ orphans = {}
    /\ cursor = 0
    /\ watermark = 0
    /\ inflight = {}

-----------------------------------------------------------------------------
(* Reading the tables.                                                     *)

Exists(k) == content[k] # "absent"

Unsettled == {k \in Obs : state[k] \in UnsettledStates}

Bytes(S) == MapThenSumSet(LAMBDA k : Size[k], S)

\* read_journal_row: a receipt or refusal is for an observation the journal has.
JournalRowFound(k) == content[k] # "absent"

HasReceipt(k, a) == \E r \in receipts : r.obs = k /\ r.attempt = a

\* attempt_already_answered.
Answered(k, a) == HasReceipt(k, a) \/ <<k, a>> \in refusals

\* Whether the row is leased against exactly this attempt: the WHERE clause
\* of every lease settlement.  A lease id is a digest over the attempt
\* number, so matching lease_id and matching attempt_number coincide.
HoldsLeaseIfLeased(k, a) == state[k] = "leased"
HoldsLease(k, a) == state[k] = "leased" /\ attempt[k] = a

\* The instant of the lease the row is under.
LeasedAt(k) == leaseExpires[k] - LeaseDuration

\* The rows an ORDER BY by, key LIMIT n query may return from the rows S; the
\* tie-break is on a digest, so it is any order.
Oldest(by, S, n) ==
    {T \in SUBSET S :
        /\ Cardinality(T) = Min({n, Cardinality(S)})
        /\ \A j \in T, k \in S \ T : by[j] =< by[k]}

SourceSequence == [k \in Obs |-> k]

\* RetryBackoffV1::delay_for: capped exponential.
Delay(a) ==
    LET raw == BackoffBase * 2 ^ Min({a - 1, 31})
    IN  IF raw \in 0 .. BackoffMax THEN raw ELSE BackoffMax

\* The attempt number expire_delivery gives its terminal receipt.
Slot(k) ==
    Max({attempt[k]} \cup {r.attempt : r \in {s \in receipts : s.obs = k}}) + 1

\* expire_delivery: the receipts that settle the rows S with one outcome.
HostReceipts(S, o) ==
    {[obs |-> k, attempt |-> Slot(k), outcome |-> o] : k \in S}

\* advance_acknowledged_watermark, over the receipts rs: one page of existing
\* rows above the watermark, up to the first without an acknowledgement.
Acknowledged(k, rs) ==
    \E r \in rs : r.obs = k /\ r.outcome \in AcknowledgingOutcomes

AcknowledgedPrefix(rs) ==
    UNION {{k \in page : \A j \in page : j =< k => Acknowledged(j, rs)} :
           page \in Oldest(SourceSequence,
                           {k \in Obs : Exists(k) /\ k > watermark}, ScanRows)}

AdvanceWatermarkAcrossGaps(rs) ==
    \E m \in {watermark} \cup {k \in Obs : Exists(k) /\ Acknowledged(k, rs)} :
        /\ m >= watermark
        /\ watermark' = m
AdvanceWatermarkRecomputed(rs) ==
    \E m \in {0} \cup {k \in Obs : Exists(k) /\ Acknowledged(k, rs)} :
        /\ \A k \in Obs : k =< m /\ Exists(k) => Acknowledged(k, rs)
        /\ watermark' = m
AdvanceWatermark(rs) ==
    \E m \in {watermark} \cup AcknowledgedPrefix(rs) :
        /\ \A k \in AcknowledgedPrefix(rs) : k =< m
        /\ watermark' = m

-----------------------------------------------------------------------------
(* Admission.                                                              *)

\* IngressResumeV1::accepts, on the position recover() has just read: a record
\* at or below the cursor is already processed and never reaches the append.
Accepts(k) == k > cursor

\* read_pressure and would_exceed.
QueueHasRoom(k) ==
    /\ Cardinality(Unsettled) < MaxQueueItems
    /\ Bytes(Unsettled) + Size[k] =< MaxQueueBytes

\* append_admitted_in_transaction.  The refusals it may answer with change
\* nothing; the sequences it skips were withheld or carried no message.
AppendAdmitted(k) ==
    /\ Accepts(k)
    /\ now < Deadline[k]
    /\ QueueHasRoom(k)
    /\ content' = [content EXCEPT ![k] = "held"]
    /\ admittedAt' = [admittedAt EXCEPT ![k] = now]
    /\ state' = [state EXCEPT ![k] = "pending"]
    /\ nextAttemptAt' = [nextAttemptAt EXCEPT ![k] = now]
    /\ cursor' = k
    /\ UNCHANGED <<now, forgottenAt, attempt, leaseExpires, lastReceipt,
                   evidenceVars, watermark, inflight>>

-----------------------------------------------------------------------------
(* Leasing.                                                                *)

\* Whether lease_pending's scan takes row k after the rows taken: within the
\* item bound, and within the byte bound unless it is the batch's first row.
Fits(k, taken) ==
    /\ Cardinality(taken) < MaxItems
    /\ taken = {} \/ Bytes(taken) + Size[k] =< MaxBytes

\* The batches the scan of the candidates S ends with (there is exactly one).
\* scan_limit never cuts it short: S is part of the bounded queue.
Batches(S) ==
    {B \in SUBSET S :
        \A k \in S : k \in B <=> Fits(k, {j \in B : j < k})}

PastDeadlineInAnyState ==
    {k \in Obs : state[k] # NoRow /\ Deadline[k] =< now}
PastDeadline ==
    {k \in Obs : IsDeliverable(state[k]) /\ Deadline[k] =< now}

AttemptsConsumed ==
    {k \in Obs : IsDeliverable(state[k]) /\ attempt[k] >= MaxAttempts}

Eligible ==
    {k \in Obs : /\ IsDeliverable(state[k])
                 /\ nextAttemptAt[k] =< now
                 /\ Deadline[k] > now
                 /\ content[k] = "held"}

\* CLAIM_LEASE consumes the attempt number with the claim.
ConsumedAttemptReturned(k) == attempt[k]
ConsumedAttempt(k) == attempt[k] + 1

\* What one lease_pending transaction writes.
LeaseRound(expired, exhausted, batch) ==
    LET settled == expired \cup exhausted IN
    /\ state' = [k \in Obs |-> CASE k \in expired   -> "expired"
                                 [] k \in exhausted -> "exhausted"
                                 [] k \in batch     -> "leased"
                                 [] OTHER           -> state[k]]
    /\ attempt' = [k \in Obs |-> CASE k \in settled -> Slot(k)
                                   [] k \in batch   -> ConsumedAttempt(k)
                                   [] OTHER         -> attempt[k]]
    /\ leaseExpires' = [k \in Obs |-> IF k \in batch THEN now + LeaseDuration
                                                     ELSE leaseExpires[k]]
    /\ lastReceipt' = [k \in Obs |-> IF k \in settled THEN Slot(k)
                                                      ELSE lastReceipt[k]]
    /\ receipts' = receipts \cup HostReceipts(expired, "deadline_exceeded")
                            \cup HostReceipts(exhausted, "provider_unavailable")
    /\ inflight' = inflight \cup {<<k, ConsumedAttempt(k)>> : k \in batch}
    /\ UNCHANGED <<now, rowVars, nextAttemptAt, refusals, orphans, cursor,
                   watermark>>

\* lease_pending: expire, exhaust, then claim one batch.
LeasePending ==
    \E expired \in Oldest(SourceSequence, PastDeadline, MaxItems) :
    \E exhausted \in Oldest(SourceSequence, AttemptsConsumed \ expired, MaxItems) :
    \E batch \in Batches(Eligible \ (expired \cup exhausted)) :
        LeaseRound(expired, exhausted, batch)

-----------------------------------------------------------------------------
(* What a dispatcher does with an item it holds.                           *)

\* settle_delivery: the state and retry instant a receipt gives its row; the
\* attempt finished at some instant since the lease.
SettledState(r) ==
    IF IsRetryable(r.outcome) /\ r.attempt >= MaxAttempts
    THEN "exhausted" ELSE ImpliedState(r.outcome)

RetryAt(r, finished) ==
    IF IsRetryable(r.outcome) /\ r.attempt < MaxAttempts
    THEN finished + Delay(r.attempt) ELSE finished

SettleDelivery(k, r) ==
    /\ state' = [state EXCEPT ![k] = SettledState(r)]
    /\ \E finished \in LeasedAt(k) .. now :
           nextAttemptAt' = [nextAttemptAt EXCEPT ![k] = RetryAt(r, finished)]
    /\ leaseExpires' = [leaseExpires EXCEPT ![k] = 0]
    /\ lastReceipt' = [lastReceipt EXCEPT ![k] = r.attempt]
    /\ UNCHANGED attempt

\* The receipt that stands for an attempt once o has been offered for it:
\* receipts are never rewritten, so the first one.
StandingReceiptOverwritten(k, a, o) ==
    {[obs |-> k, attempt |-> a, outcome |-> o]}
StandingReceipt(k, a, o) ==
    IF HasReceipt(k, a) THEN {r \in receipts : r.obs = k /\ r.attempt = a}
                        ELSE {[obs |-> k, attempt |-> a, outcome |-> o]}

\* record_attempt: an unknown observation is refused; a stale attempt's
\* receipt is kept but leaves the row alone.
RecordAttempt(k, a, o) ==
    /\ <<k, a>> \in inflight
    /\ JournalRowFound(k)
    /\ \E r \in StandingReceipt(k, a, o) :
        /\ receipts' = receipts \cup {r}
        /\ IF r.outcome \in AcknowledgingOutcomes
           THEN AdvanceWatermark(receipts') ELSE UNCHANGED watermark
        /\ IF HoldsLease(k, a) THEN SettleDelivery(k, r)
                               ELSE UNCHANGED deliveryVars
    /\ UNCHANGED <<now, rowVars, refusals, orphans, cursor, inflight>>

\* The attempt number given back.
UnleaseReturningAttempt(k, retryAt) ==
    /\ state' = [state EXCEPT ![k] = "pending"]
    /\ nextAttemptAt' = [nextAttemptAt EXCEPT ![k] = retryAt]
    /\ leaseExpires' = [leaseExpires EXCEPT ![k] = 0]
    /\ attempt' = [attempt EXCEPT ![k] = @ - 1]

\* The evidence written and the lease left standing.
UnleaseKeepingLease(k, retryAt) ==
    /\ nextAttemptAt' = [nextAttemptAt EXCEPT ![k] = retryAt]
    /\ UNCHANGED <<state, leaseExpires, attempt>>

\* The row goes back to pending under the retry instant the caller names; the
\* attempt number is not given back.
Unlease(k, retryAt) ==
    /\ state' = [state EXCEPT ![k] = "pending"]
    /\ nextAttemptAt' = [nextAttemptAt EXCEPT ![k] = retryAt]
    /\ leaseExpires' = [leaseExpires EXCEPT ![k] = 0]
    /\ UNCHANGED attempt

\* record_unsettled_attempt and record_refused_terminal_attempt: evidence and
\* release commit together, and only under the lease that produced them.  An
\* occupied receipt slot rolls the transaction back.
RecordUnsettled(k, a, o, retryAt) ==
    /\ <<k, a>> \in inflight
    /\ HoldsLease(k, a)
    /\ ~HasReceipt(k, a)
    /\ receipts' = receipts \cup {[obs |-> k, attempt |-> a, outcome |-> o]}
    /\ lastReceipt' = [lastReceipt EXCEPT ![k] = a]
    /\ Unlease(k, retryAt)
    /\ UNCHANGED <<now, rowVars, orphans, cursor, watermark, inflight>>

\* Shutdown cancelled the attempt: eligible again from its lease instant.
RecordUnsettledAttempt(k, a) ==
    /\ RecordUnsettled(k, a, "cancelled", LeasedAt(k))
    /\ UNCHANGED refusals

\* The provider's terminal was refused: retried on the backoff curve.
RecordRefusedTerminalAttempt(k, a) ==
    /\ RecordUnsettled(k, a, "effect_unknown", LeasedAt(k) + Delay(a))
    /\ refusals' = refusals \cup {<<k, a>>}

\* record_attempt_refusal: the refusal alone, while the row is at attempt a.
RecordAttemptRefusal(k, a) ==
    /\ <<k, a>> \in inflight
    /\ JournalRowFound(k)
    /\ attempt[k] = a
    /\ refusals' = refusals \cup {<<k, a>>}
    /\ UNCHANGED <<now, rowVars, deliveryVars, receipts, orphans, cursor,
                   watermark, inflight>>

\* release_lease: at once when nothing was attempted, else on the backoff.
ReleaseLease(k, a) ==
    /\ <<k, a>> \in inflight
    /\ HoldsLease(k, a)
    /\ \E delay \in {0, Delay(a)} : Unlease(k, LeasedAt(k) + delay)
    /\ UNCHANGED <<now, rowVars, lastReceipt, evidenceVars, cursor, watermark,
                   inflight>>

\* The dispatcher is done with the item, or its process is gone.
DropItem(k, a) ==
    /\ <<k, a>> \in inflight
    /\ inflight' = inflight \ {<<k, a>>}
    /\ UNCHANGED <<now, rowVars, deliveryVars, evidenceVars, cursor, watermark>>

-----------------------------------------------------------------------------
(* The housekeeping turns of the worker loop.                              *)

LapsedUnansweredLeases ==
    {k \in Obs : /\ state[k] = "leased"
                 /\ leaseExpires[k] =< now
                 /\ ~Answered(k, attempt[k])}
LapsedLeases == {k \in Obs : state[k] = "leased" /\ leaseExpires[k] =< now}

\* reap_expired_leases.  The orphan insert collides rather than overwrites,
\* and a collision rolls the whole round back.
Unanswered(T) == {<<k, attempt[k]>> : k \in {j \in T : ~Answered(j, attempt[j])}}

ReapExpiredLeases ==
    \E lapsed \in Oldest(leaseExpires, LapsedLeases, ReapBudget) :
        /\ Unanswered(lapsed) \cap orphans = {}
        /\ orphans' = orphans \cup Unanswered(lapsed)
        /\ state' = [k \in Obs |-> IF k \in lapsed THEN "pending" ELSE state[k]]
        /\ leaseExpires' = [k \in Obs |-> IF k \in lapsed THEN 0
                                                          ELSE leaseExpires[k]]
        /\ UNCHANGED <<now, rowVars, attempt, nextAttemptAt, lastReceipt,
                       receipts, refusals, cursor, watermark, inflight>>

\* EFFECTIVE_EXPIRY: the earlier of the admitted expiry and the class's age.
EffectiveExpiryWidened(k) == Max({ExpiresAt[k], admittedAt[k] + MaxAge[k]})
EffectiveExpiry(k) == Min({ExpiresAt[k], admittedAt[k] + MaxAge[k]})

Outdated == {k \in Obs : content[k] = "held" /\ EffectiveExpiry(k) =< now}

Stranded == {k \in Obs : content[k] = "purged" /\ state[k] \in UnsettledStates}

\* Settle each row of a set with a host receipt of its own, purge the content
\* of others, and remove yet others with the evidence that hangs off them.
\* The orphan table is not among what a removal takes along.
Retire(expired, forgotten, purged, removed) ==
    LET settled == expired \cup forgotten
        stays(r) == r \notin removed
    IN
    /\ content' = [k \in Obs |-> IF k \in removed THEN "absent" ELSE
                                 IF k \in purged  THEN "purged" ELSE content[k]]
    /\ admittedAt' = [k \in Obs |-> IF k \in removed THEN 0 ELSE admittedAt[k]]
    /\ forgottenAt' = [k \in Obs |->
                         IF k \in removed THEN 0 ELSE
                         IF k \in purged /\ content[k] = "held" THEN now
                                                        ELSE forgottenAt[k]]
    /\ state' = [k \in Obs |-> IF k \in removed   THEN NoRow ELSE
                               IF k \in expired   THEN "expired" ELSE
                               IF k \in forgotten THEN "forgotten" ELSE state[k]]
    /\ attempt' = [k \in Obs |-> IF k \in removed THEN 0 ELSE
                                 IF k \in settled THEN Slot(k) ELSE attempt[k]]
    /\ nextAttemptAt' = [k \in Obs |-> IF k \in removed THEN 0
                                                        ELSE nextAttemptAt[k]]
    /\ leaseExpires' = [k \in Obs |-> IF k \in settled \cup removed THEN 0
                                                        ELSE leaseExpires[k]]
    /\ lastReceipt' = [k \in Obs |-> IF k \in removed THEN 0 ELSE
                                     IF k \in settled THEN Slot(k)
                                                      ELSE lastReceipt[k]]
    /\ receipts' = {r \in receipts \cup HostReceipts(expired, "deadline_exceeded")
                                   \cup HostReceipts(forgotten, "cancelled") :
                        stays(r.obs)}
    /\ refusals' = {p \in refusals : stays(p[1])}
    /\ UNCHANGED <<now, orphans, cursor, watermark, inflight>>

\* Rows whose audit window has closed; a row phase (2) settled counts as settled.
AuditClosed(settledNow) ==
    {k \in Obs : /\ content[k] = "purged"
                 /\ forgottenAt[k] + ReceiptRetention =< now
                 /\ state[k] \in SettledStates \/ k \in settledNow}

\* sweep_expired, phases (1) to (3): rows that expired and those that are
\* stranded settle before they are purged or removed.
ExpiresWithContentUnlessLeased(outdated) ==
    {k \in outdated : state[k] \in UnsettledStates \ {"leased"}}
ExpiresWithContent(outdated) == outdated \cap Unsettled

SweepExpired ==
    \E outdated \in Oldest(admittedAt, Outdated, SweepRows) :
    \E stranded \in Oldest(admittedAt, Stranded, SweepRows) :
    \E removed \in Oldest(forgottenAt, AuditClosed(stranded), SweepRows) :
        Retire(ExpiresWithContent(outdated), stranded, outdated, removed)

\* forget_source.
ForgetSource(key) ==
    LET matched == {k \in Obs : Exists(k) /\ ForgetKey[k] = key}
    IN  Retire({}, matched \cap Unsettled, matched, {})

\* recovery_state advances one page of the watermark before it is read.
RecoveryState ==
    /\ AdvanceWatermark(receipts)
    /\ UNCHANGED <<now, rowVars, deliveryVars, evidenceVars, cursor, inflight>>

Tick ==
    /\ now < MaxTime
    /\ now' = now + 1
    /\ UNCHANGED <<rowVars, deliveryVars, evidenceVars, cursor, watermark, inflight>>

-----------------------------------------------------------------------------
\* What dispatch_batch may do to the store for one leased item, in any order
\* and at any time: adapters answer late, and an error ends the batch early.
HolderStep(k, a) ==
    \/ \E o \in ProviderOutcomes : RecordAttempt(k, a, o)
    \/ RecordUnsettledAttempt(k, a)
    \/ RecordRefusedTerminalAttempt(k, a)
    \/ RecordAttemptRefusal(k, a)
    \/ ReleaseLease(k, a)
    \/ DropItem(k, a)

Next ==
    \/ \E k \in Obs : AppendAdmitted(k)
    \/ LeasePending
    \/ \E p \in inflight : HolderStep(p[1], p[2])
    \/ ReapExpiredLeases
    \/ SweepExpired
    \/ \E key \in {ForgetKey[k] : k \in Obs} : ForgetSource(key)
    \/ RecoveryState
    \/ Tick

Spec == Init /\ [][Next]_vars

\* The worker loop of the observation lane (retained_owner/observation_journey.rs)
\* leases, reaps and sweeps on every turn, and it parks for a bounded time only;
\* the clock advances.
WorkerFairness ==
    /\ WF_vars(LeasePending)
    /\ WF_vars(ReapExpiredLeases)
    /\ WF_vars(SweepExpired)
    /\ WF_vars(Tick)

FairSpec == Spec /\ WorkerFairness

-----------------------------------------------------------------------------
(* Safety.                                                                 *)

\* An attempt number is never handed out twice: no receipt, orphan record or
\* dispatcher names an attempt above the row's counter, so a claim always
\* names a fresh one (CLAIM_LEASE consumes the number with the claim).
AttemptsNeverReused ==
    \A k \in Obs : Exists(k) =>
        /\ \A r \in receipts : r.obs = k => r.attempt =< attempt[k]
        /\ \A p \in refusals \cup orphans \cup inflight :
               p[1] = k => p[2] =< attempt[k]

\* A row that is still leased has no receipt and no orphan record for the
\* attempt it is leased against: evidence and release always commit together.
\* It is what keeps the reap's plain INSERT, and the receipt insert behind
\* record_unsettled_attempt, from colliding and failing forever.
LeaseUnanswered ==
    \A k \in Obs : state[k] = "leased" =>
        /\ ~HasReceipt(k, attempt[k])
        /\ <<k, attempt[k]>> \notin orphans

\* One receipt per attempt: the UNIQUE(observation, attempt) the receipt id
\* is derived from.  A second answer never rewrites or doubles the first.
OneReceiptPerAttempt ==
    \A r, s \in receipts :
        r.obs = s.obs /\ r.attempt = s.attempt => r = s

\* The outcomes that justify a settled state.
Justifies(o, s) ==
    CASE s \in {"acknowledged", "duplicate_acknowledged", "rejected"} ->
            ImpliedState(o) = s
      [] s = "expired"   -> o = "deadline_exceeded"
      [] s = "exhausted" -> IsRetryable(o)
      [] OTHER           -> o = "cancelled"

\* Nothing settles without proof: a settled row's last receipt is the one of
\* its final attempt, it exists, and its outcome is the state's reason (what
\* source_delivery.rs insists on before it reports a delivery, and what
\* expire_delivery's slot choice protects).
SettledHasEvidence ==
    \A k \in Obs : IsTerminal(state[k]) =>
        \E r \in receipts : /\ r.obs = k
                            /\ r.attempt = attempt[k]
                            /\ lastReceipt[k] = attempt[k]
                            /\ Justifies(r.outcome, state[k])

\* Once its content is gone a row is settled: no dispatcher ever finds an
\* observation whose bytes no longer exist (forget_source, sweep_expired).
NothingUndeliverable ==
    \A k \in Obs : content[k] = "purged" => IsTerminal(state[k])

\* The acknowledged watermark claims no row that still stands without its
\* provider's acknowledgement.
WatermarkJustified ==
    \A k \in Obs : Exists(k) /\ k =< watermark => Acknowledged(k, receipts)

\* Receipts and refusals age out with the row they describe.
EvidenceAgesOut ==
    /\ \A r \in receipts : Exists(r.obs)
    /\ \A p \in refusals : Exists(p[1])

-----------------------------------------------------------------------------
(* Action properties.                                                      *)

\* A row changes state only along DeliveryStateV1::can_transition_to, or
\* appears as pending, or is removed settled; no settled row is ever reopened.
StateChangesObeyTable ==
    [][\A k \in Obs : state'[k] # state[k] =>
          \/ CanTransitionTo(state[k], state'[k])
          \/ state[k] = NoRow /\ state'[k] = "pending"
          \/ IsTerminal(state[k]) /\ state'[k] = NoRow]_vars

\* Deleting rows never lowers the position a restart replays from.
WatermarkMonotone == [][watermark' >= watermark]_vars

\* While a row stands, its receipts are append-only and its attempt counter
\* never runs backwards.
EvidenceAppendOnly ==
    [][\A k \in Obs : Exists(k) /\ Exists(k)' =>
          /\ {r \in receipts : r.obs = k} \subseteq receipts'
          /\ attempt'[k] >= attempt[k]]_vars

\* A dispatcher whose lease lapsed settles nothing: a row is settled on a
\* provider's word only out of its lease, by the attempt that owns it, while a
\* dispatcher holds that attempt.
OnlyOwnerSettles ==
    [][\A k \in Obs :
          state'[k] # state[k] /\ state'[k] \in {"acknowledged", "rejected",
                      "duplicate_acknowledged", "cancelled", "effect_unknown"} =>
              /\ state[k] = "leased"
              /\ lastReceipt'[k] = attempt[k]
              /\ <<k, attempt[k]>> \in inflight]_vars

-----------------------------------------------------------------------------
(* Liveness.                                                               *)

\* Every admitted observation is settled, whatever its dispatchers do or fail
\* to do: attempts run out, leases lapse, deadlines pass.
EveryAdmissionSettles ==
    \A k \in Obs : (state[k] \in UnsettledStates) ~> IsTerminal(state[k])

\* Content never outlives the earlier of its admitted expiry and its class's
\* age for good: it is purged, however the delivery ended.
ContentIsPurged ==
    \A k \in Obs :
        (content[k] = "held" /\ (now >= ExpiresAt[k] \/ now >= admittedAt[k] + MaxAge[k]))
            ~> (content[k] # "held")

-----------------------------------------------------------------------------
(* What comments of the source claim and the code does not do.             *)

\* dispatch.rs on SELECT_ATTEMPTS_EXHAUSTED: a row is exhausted "rather than
\* being leased a further time", which makes max_attempts "a real bound".
AttemptsBounded ==
    \A k \in Obs : state[k] = "leased" => attempt[k] =< MaxAttempts
=============================================================================
