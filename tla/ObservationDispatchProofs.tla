--------------------- MODULE ObservationDispatchProofs ---------------------
(***************************************************************************)
(* What holds of the observation journal for every number of observations, *)
(* attempts and dispatchers, every batch, reap, sweep and scan budget and  *)
(* every clock: the type invariant and the safety invariants of            *)
(* ObservationDispatch, as theorems of Spec.                               *)
(***************************************************************************)
EXTENDS ObservationDispatch, TLAPS

\* How the columns and cursors of a row fit together: a delivery row stands
\* exactly while its journal row does, nothing is known of a sequence above
\* the cursor, and a lease's expiry is its instant plus the lease duration.
RowShape ==
    /\ \A k \in Obs : state[k] = NoRow <=> content[k] = "absent"
    /\ \A k \in Obs : k > cursor => content[k] = "absent"
    /\ \A p \in orphans \cup inflight : p[1] =< cursor
    /\ \A k \in Obs : state[k] = "leased" =>
           leaseExpires[k] >= LeaseDuration /\ attempt[k] # 0

\* The inductive core: the type invariant alone is not inductive, because
\* the slot of a terminal receipt is a number only while the row's attempt
\* counter bounds its receipts.
Core == TypeOK /\ RowShape /\ AttemptsNeverReused /\ EvidenceAgesOut

-----------------------------------------------------------------------------
(* Facts about the operators.                                              *)

\* A selection takes rows of the table it selects from.
LEMMA OldestSubset ==
    ASSUME NEW by, NEW S, NEW n, NEW T \in Oldest(by, S, n)
    PROVE  T \subseteq S
BY DEF Oldest

\* A batch takes candidates only.
LEMMA BatchSubset ==
    ASSUME NEW S, NEW B \in Batches(S)
    PROVE  B \subseteq S
BY DEF Batches

\* Every backoff delay is a natural number.
LEMMA DelayType ==
    ASSUME NEW a
    PROVE  Delay(a) \in Nat
BY PolicyAssumption DEF Delay

\* The parameters are positive naturals.
LEMMA Parameters ==
    /\ LeaseDuration \in Nat \ {0}
    /\ MaxAttempts \in Nat \ {0}
    /\ ReceiptRetention \in Nat \ {0}
    /\ MaxItems \in Nat \ {0}
    /\ N \in Nat
    /\ Obs \subseteq Nat \ {0}
BY PolicyAssumption, SizesAssumption DEF Obs

\* The states and outcomes, unfolded once for the provers.
LEMMA StateFacts ==
    /\ NoRow \notin DeliveryStates
    /\ UnsettledStates \subseteq DeliveryStates
    /\ SettledStates \subseteq DeliveryStates
    /\ UnsettledStates \cap SettledStates = {}
    /\ "pending" \in UnsettledStates
    /\ "leased" \in UnsettledStates
    /\ {"expired", "exhausted", "forgotten"} \subseteq SettledStates
    /\ \A s : IsDeliverable(s) => s \in UnsettledStates /\ s # "leased"
BY DEF NoRow, DeliveryStates, UnsettledStates, SettledStates, IsDeliverable

\* The state a receipt implies is a state of the table, and never leased.
LEMMA ImpliedStateType ==
    ASSUME NEW o \in Outcomes
    PROVE  ImpliedState(o) \in DeliveryStates \ {"leased"}
BY DEF Outcomes, AcknowledgingOutcomes, RejectingOutcomes, ImpliedState,
       DeliveryStates, UnsettledStates, SettledStates

\* The terminal receipt of a standing row takes the slot right above its
\* attempt counter, which no receipt occupies.
LEMMA SlotFresh ==
    ASSUME Core, NEW k \in Obs, Exists(k)
    PROVE  Slot(k) = attempt[k] + 1
<1> DEFINE Taken == {attempt[k]} \cup {r.attempt : r \in {s \in receipts : s.obs = k}}
<1>1. attempt[k] \in Taken /\ attempt[k] \in Nat
  BY DEF Core, TypeOK
<1>2. \A m \in Taken : m \in Nat /\ m =< attempt[k]
  BY DEF Core, TypeOK, AttemptsNeverReused, ReceiptRecords
<1>3. Max(Taken) = attempt[k]
  BY <1>1, <1>2 DEF Max
<1> QED
  BY <1>3 DEF Slot

\* The terminal receipts of standing rows: one fresh attempt each.
LEMMA HostReceiptFacts ==
    ASSUME Core, NEW S \in SUBSET {k \in Obs : Exists(k)}, NEW o \in Outcomes,
           NEW r \in HostReceipts(S, o)
    PROVE  /\ r \in ReceiptRecords
           /\ r.obs \in S
           /\ r.attempt = attempt[r.obs] + 1
           /\ r.outcome = o
<1>1. PICK k \in S : r = [obs |-> k, attempt |-> Slot(k), outcome |-> o]
  BY DEF HostReceipts
<1>2. Slot(k) = attempt[k] + 1 /\ attempt[k] \in Nat
  BY SlotFresh DEF Core, TypeOK
<1> QED
  BY <1>1, <1>2 DEF ReceiptRecords

\* A standing row is at or below the cursor.
LEMMA StandingBelowCursor ==
    ASSUME Core, NEW k \in Obs, Exists(k)
    PROVE  k =< cursor
<1>1. k \in Int /\ cursor \in Int
  BY Parameters DEF Core, TypeOK, Obs
<1> QED
  BY <1>1 DEF Core, RowShape, Exists

-----------------------------------------------------------------------------
(* Each transaction preserves the core.                                    *)

\* Admission opens a row above the cursor, where nothing was known yet.
LEMMA AppendKeepsCore ==
    ASSUME Core, NEW k \in Obs, AppendAdmitted(k)
    PROVE  Core'
<1> USE Parameters, StateFacts
<1>1. TypeOK'
  <2>1. state' \in [Obs -> DeliveryStates \cup {NoRow}]
    BY DEF Core, TypeOK, AppendAdmitted
  <2>2. cursor' \in 0 .. N
    BY DEF AppendAdmitted, Accepts, Obs
  <2> QED
    BY <2>1, <2>2 DEF Core, TypeOK, AppendAdmitted, evidenceVars
<1>2. RowShape'
  <2>1. \A j \in Obs : j # k => /\ state'[j] = state[j]
                               /\ content'[j] = content[j]
    BY DEF Core, TypeOK, AppendAdmitted
  <2>2. state'[k] = "pending" /\ content'[k] = "held" /\ "pending" # NoRow
    BY DEF Core, TypeOK, AppendAdmitted, NoRow
  <2>3. cursor \in Nat /\ cursor' = k /\ k > cursor /\ k \in Nat
    BY DEF Core, TypeOK, AppendAdmitted, Accepts, Obs
  <2>4. \A p \in orphans \cup inflight : p[1] \in Nat
    BY DEF Core, TypeOK, Obs
  <2> QED
    BY <2>1, <2>2, <2>3, <2>4 DEF Core, RowShape, AppendAdmitted, evidenceVars
<1>3. AttemptsNeverReused'
  BY DEF Core, TypeOK, RowShape, AttemptsNeverReused, EvidenceAgesOut, Exists,
         AppendAdmitted, Accepts, evidenceVars, ReceiptRecords
<1>4. EvidenceAgesOut'
  BY DEF Core, TypeOK, EvidenceAgesOut, Exists, AppendAdmitted, evidenceVars,
         ReceiptRecords
<1> QED
  BY <1>1, <1>2, <1>3, <1>4 DEF Core

\* A lease call settles rows above their counter and claims fresh attempts.
LEMMA LeaseKeepsCore ==
    ASSUME Core, NEW expired, NEW exhausted, NEW batch,
           expired \subseteq PastDeadline,
           exhausted \subseteq AttemptsConsumed \ expired,
           batch \subseteq Eligible \ (expired \cup exhausted),
           LeaseRound(expired, exhausted, batch)
    PROVE  Core'
<1> USE Parameters, StateFacts
<1> DEFINE settled == expired \cup exhausted
<1>1. \A k \in settled : k \in Obs /\ IsDeliverable(state[k]) /\ Exists(k)
  BY DEF PastDeadline, AttemptsConsumed, Core, RowShape, Exists
<1>2. \A k \in batch : k \in Obs /\ IsDeliverable(state[k]) /\ Exists(k) /\ k \notin settled
  BY DEF Eligible, Core, RowShape, Exists
<1>3. \A k \in settled : Slot(k) = attempt[k] + 1
  BY <1>1, SlotFresh
<1>4. \A k \in Obs : attempt'[k] = IF k \in settled \cup batch THEN attempt[k] + 1
                                                              ELSE attempt[k]
  BY <1>2, <1>3 DEF LeaseRound, ConsumedAttempt
<1>5. \A r \in receipts' : \/ r \in receipts
                           \/ /\ r.obs \in settled
                              /\ r.attempt = attempt[r.obs] + 1
                              /\ r \in ReceiptRecords
  BY <1>1, <1>3 DEF LeaseRound, HostReceipts, ReceiptRecords, Core, TypeOK, Outcomes
<1>6. \A p \in inflight' : \/ p \in inflight
                           \/ /\ p \in Obs \X (Nat \ {0})
                              /\ p[1] \in batch
                              /\ p[2] = attempt[p[1]] + 1
  BY <1>2 DEF LeaseRound, ConsumedAttempt, Core, TypeOK
<1>7. TypeOK'
  <2>1. state' \in [Obs -> DeliveryStates \cup {NoRow}]
    BY DEF LeaseRound, Core, TypeOK
  <2>2. attempt' \in [Obs -> Nat] /\ lastReceipt' \in [Obs -> Nat]
    BY <1>1, <1>3, <1>4 DEF LeaseRound, Core, TypeOK
  <2>3. leaseExpires' \in [Obs -> Nat]
    BY DEF LeaseRound, Core, TypeOK
  <2>4. receipts' \subseteq ReceiptRecords /\ inflight' \subseteq Obs \X (Nat \ {0})
    BY <1>5, <1>6 DEF Core, TypeOK
  <2> QED
    BY <2>1, <2>2, <2>3, <2>4 DEF LeaseRound, Core, TypeOK, rowVars
<1>8. RowShape'
  <2>1. \A k \in Obs : state'[k] = NoRow <=> state[k] = NoRow
    BY <1>1, <1>2 DEF LeaseRound
  <2>2. \A k \in Obs : state'[k] = "leased" =>
            k \in batch \/ (state[k] = "leased" /\ k \notin batch)
    BY DEF LeaseRound
  <2>3. \A k \in batch : k =< cursor
    BY <1>2, StandingBelowCursor
  <2> QED
    BY <1>4, <1>6, <2>1, <2>2, <2>3 DEF LeaseRound, Core, TypeOK, RowShape, rowVars
<1>9. AttemptsNeverReused'
  <2> SUFFICES ASSUME NEW k \in Obs, Exists(k)
               PROVE  /\ \A r \in receipts' : r.obs = k => r.attempt =< attempt'[k]
                      /\ \A p \in refusals' \cup orphans' \cup inflight' :
                             p[1] = k => p[2] =< attempt'[k]
    BY DEF AttemptsNeverReused, Exists, LeaseRound, rowVars
  <2>1. attempt[k] \in Nat /\ attempt'[k] \in Nat /\ attempt'[k] >= attempt[k]
    <3>1. attempt[k] \in Nat
      BY DEF Core, TypeOK
    <3>2. attempt'[k] = attempt[k] \/ attempt'[k] = attempt[k] + 1
      BY <1>4
    <3> HIDE Parameters, StateFacts
    <3> QED
      BY <3>1, <3>2
  <2>2. \A r \in receipts' : r.obs = k => r.attempt =< attempt'[k]
    BY <1>4, <1>5, <2>1 DEF Core, TypeOK, AttemptsNeverReused, ReceiptRecords
  <2>3. \A p \in refusals' \cup orphans' \cup inflight' :
                             p[1] = k => p[2] =< attempt'[k]
    BY <1>4, <1>6, <2>1 DEF Core, TypeOK, AttemptsNeverReused, LeaseRound
  <2> QED
    BY <2>2, <2>3
<1>10. EvidenceAgesOut'
  BY <1>1, <1>5 DEF Core, EvidenceAgesOut, Exists, LeaseRound, rowVars
<1> QED
  BY <1>7, <1>8, <1>9, <1>10 DEF Core

\* The watermark stays where it is or moves to a standing row above it.
LEMMA WatermarkMoves ==
    ASSUME NEW rs, AdvanceWatermark(rs)
    PROVE  \/ watermark' = watermark
           \/ watermark' \in Obs /\ Exists(watermark') /\ watermark' > watermark
<1>1. AcknowledgedPrefix(rs) \subseteq {k \in Obs : Exists(k) /\ k > watermark}
  BY OldestSubset DEF AcknowledgedPrefix
<1> QED
  BY <1>1 DEF AdvanceWatermark

\* The standing receipt of an attempt is a receipt of that attempt.
LEMMA StandingReceiptFacts ==
    ASSUME Core, NEW k \in Obs, NEW a \in Nat \ {0}, NEW o \in Outcomes,
           NEW r \in StandingReceipt(k, a, o)
    PROVE  r \in ReceiptRecords /\ r.obs = k /\ r.attempt = a
BY DEF StandingReceipt, ReceiptRecords, Core, TypeOK

\* Recording an answer adds one receipt and at most settles the row it holds.
LEMMA RecordAttemptKeepsCore ==
    ASSUME Core, NEW k \in Obs, NEW a \in Nat \ {0}, NEW o \in Outcomes,
           RecordAttempt(k, a, o)
    PROVE  Core'
<1> USE Parameters, StateFacts
<1>1. PICK r \in StandingReceipt(k, a, o) :
        /\ receipts' = receipts \cup {r}
        /\ IF r.outcome \in AcknowledgingOutcomes
           THEN AdvanceWatermark(receipts') ELSE UNCHANGED watermark
        /\ IF HoldsLease(k, a) THEN SettleDelivery(k, r)
                               ELSE UNCHANGED deliveryVars
  BY DEF RecordAttempt
<1>2. r \in ReceiptRecords /\ r.obs = k /\ r.attempt = a
  BY StandingReceiptFacts
<1>3. watermark' \in 0 .. N
  <2>1. watermark \in 0 .. N
    BY DEF Core, TypeOK
  <2> QED
    BY <1>1, <2>1, WatermarkMoves DEF Obs
<1>4. /\ state' \in [Obs -> DeliveryStates \cup {NoRow}]
      /\ \A j \in Obs : state'[j] = NoRow <=> state[j] = NoRow
      /\ \A j \in Obs : state'[j] = "leased" =>
             state[j] = "leased" /\ leaseExpires'[j] = leaseExpires[j]
  <2>1. CASE HoldsLease(k, a)
    <3>1. SettledState(r) \in DeliveryStates \ {"leased"}
      BY <1>2, ImpliedStateType DEF SettledState, ReceiptRecords
    <3>2. state' = [state EXCEPT ![k] = SettledState(r)]
      BY <1>1, <2>1 DEF SettleDelivery
    <3>3. leaseExpires' = [leaseExpires EXCEPT ![k] = 0]
      BY <1>1, <2>1 DEF SettleDelivery
    <3> QED
      BY <2>1, <3>1, <3>2, <3>3 DEF HoldsLease, Core, TypeOK
  <2>2. CASE ~HoldsLease(k, a)
    BY <1>1, <2>2 DEF deliveryVars, Core, TypeOK
  <2> QED
    BY <2>1, <2>2
<1>5. /\ attempt' = attempt
      /\ nextAttemptAt' \in [Obs -> Nat]
      /\ leaseExpires' \in [Obs -> Nat]
      /\ lastReceipt' \in [Obs -> Nat]
  <2>1. CASE HoldsLease(k, a)
    <3>1. PICK finished \in LeasedAt(k) .. now :
            nextAttemptAt' = [nextAttemptAt EXCEPT ![k] = RetryAt(r, finished)]
      BY <1>1, <2>1 DEF SettleDelivery
    <3>2. finished \in Nat
      BY <2>1 DEF LeasedAt, HoldsLease, Core, TypeOK, RowShape
    <3>3. RetryAt(r, finished) \in Nat
      BY <3>2, DelayType DEF RetryAt
    <3> QED
      BY <1>1, <1>2, <2>1, <3>1, <3>3 DEF SettleDelivery, Core, TypeOK
  <2>2. CASE ~HoldsLease(k, a)
    BY <1>1, <2>2 DEF deliveryVars, Core, TypeOK
  <2> QED
    BY <2>1, <2>2
<1>6. /\ UNCHANGED <<now, content, admittedAt, forgottenAt, refusals, orphans,
                     cursor, inflight>>
      /\ <<k, a>> \in inflight
      /\ Exists(k)
  BY DEF RecordAttempt, rowVars, JournalRowFound, Exists
<1>7. TypeOK'
  BY <1>1, <1>2, <1>3, <1>4, <1>5, <1>6 DEF Core, TypeOK
<1>8. RowShape'
  BY <1>4, <1>5, <1>6 DEF Core, TypeOK, RowShape
<1>9. AttemptsNeverReused'
  BY <1>1, <1>2, <1>5, <1>6 DEF Core, AttemptsNeverReused, Exists
<1>10. EvidenceAgesOut'
  BY <1>1, <1>2, <1>6 DEF Core, EvidenceAgesOut, Exists
<1> QED
  BY <1>7, <1>8, <1>9, <1>10 DEF Core

\* Recording evidence with a release, or releasing, keeps the attempt number.
LEMMA UnleaseKeepsCore ==
    ASSUME Core, NEW k \in Obs, NEW a \in Nat \ {0}, HoldsLease(k, a),
           <<k, a>> \in inflight,
           NEW retryAt \in Nat, Unlease(k, retryAt),
           receipts' = receipts \/ \E o \in Outcomes :
               receipts' = receipts \cup {[obs |-> k, attempt |-> a, outcome |-> o]},
           lastReceipt' = lastReceipt \/ lastReceipt' = [lastReceipt EXCEPT ![k] = a],
           refusals' = refusals \/ refusals' = refusals \cup {<<k, a>>},
           UNCHANGED <<now, rowVars, orphans, cursor, watermark, inflight>>
    PROVE  Core'
<1> USE Parameters, StateFacts
<1>1. attempt' = attempt /\ attempt[k] = a /\ Exists(k)
  BY DEF Unlease, HoldsLease, Core, RowShape, Exists
<1>2. \A r \in receipts' : r \in receipts \/
          (r \in ReceiptRecords /\ r.obs = k /\ r.attempt = a)
  BY DEF ReceiptRecords
<1>3. /\ state' \in [Obs -> DeliveryStates \cup {NoRow}]
      /\ \A j \in Obs : state'[j] = NoRow <=> state[j] = NoRow
      /\ \A j \in Obs : state'[j] = "leased" =>
             state[j] = "leased" /\ leaseExpires'[j] = leaseExpires[j]
  BY DEF Unlease, HoldsLease, Core, TypeOK
<1>4. TypeOK'
  BY <1>1, <1>2, <1>3 DEF Unlease, Core, TypeOK, rowVars
<1>5. RowShape'
  BY <1>1, <1>3 DEF Core, TypeOK, RowShape, rowVars
<1>6. AttemptsNeverReused'
  BY <1>1, <1>2 DEF Core, TypeOK, AttemptsNeverReused, Exists, rowVars
<1>7. EvidenceAgesOut'
  BY <1>1, <1>2 DEF Core, EvidenceAgesOut, Exists, rowVars
<1> QED
  BY <1>4, <1>5, <1>6, <1>7 DEF Core

\* What a dispatcher does with its item keeps the core.
LEMMA HolderKeepsCore ==
    ASSUME Core, NEW p \in inflight, HolderStep(p[1], p[2])
    PROVE  Core'
<1> USE Parameters, StateFacts
<1> DEFINE k == p[1]
           a == p[2]
<1>1. k \in Obs /\ a \in Nat \ {0} /\ p = <<k, a>>
  BY DEF Core, TypeOK
<1>2. HoldsLease(k, a) => LeasedAt(k) \in Nat /\ LeasedAt(k) + Delay(a) \in Nat
  <2>1. Delay(a) \in Nat
    BY DelayType
  <2>2. leaseExpires[k] \in Nat
    BY <1>1 DEF Core, TypeOK
  <2>3. HoldsLease(k, a) => leaseExpires[k] >= LeaseDuration
    BY <1>1 DEF HoldsLease, Core, RowShape
  <2> QED
    BY <2>1, <2>2, <2>3 DEF LeasedAt
<1> HIDE DEF k, a
<1>3. CASE \E o \in ProviderOutcomes : RecordAttempt(k, a, o)
  BY <1>1, <1>3, RecordAttemptKeepsCore, PolicyAssumption
<1>4. CASE RecordUnsettledAttempt(k, a)
  <2>1. "cancelled" \in Outcomes
    BY DEF Outcomes
  <2> QED
    BY <1>1, <1>2, <1>4, <2>1, UnleaseKeepsCore
       DEF RecordUnsettledAttempt, RecordUnsettled
<1>5. CASE RecordRefusedTerminalAttempt(k, a)
  <2>1. "effect_unknown" \in Outcomes
    BY DEF Outcomes
  <2> QED
    BY <1>1, <1>2, <1>5, <2>1, UnleaseKeepsCore
       DEF RecordRefusedTerminalAttempt, RecordUnsettled
<1>6. CASE RecordAttemptRefusal(k, a)
  <2>1. Exists(k) /\ attempt[k] = a
    BY <1>6 DEF RecordAttemptRefusal, JournalRowFound, Exists
  <2>2. refusals' = refusals \cup {<<k, a>>}
    BY <1>6 DEF RecordAttemptRefusal
  <2>3. UNCHANGED <<now, content, admittedAt, forgottenAt, state, attempt,
                    nextAttemptAt, leaseExpires, lastReceipt, receipts, orphans,
                    cursor, watermark, inflight>>
    BY <1>6 DEF RecordAttemptRefusal, rowVars, deliveryVars
  <2>4. TypeOK' /\ RowShape' /\ EvidenceAgesOut'
    BY <1>1, <2>1, <2>2, <2>3 DEF Core, TypeOK, RowShape, EvidenceAgesOut, Exists
  <2>5. AttemptsNeverReused'
    BY <1>1, <2>1, <2>2, <2>3 DEF Core, TypeOK, AttemptsNeverReused, Exists
  <2> QED
    BY <2>4, <2>5 DEF Core
<1>7. CASE ReleaseLease(k, a)
  <2>1. PICK delay \in {0, Delay(a)} : Unlease(k, LeasedAt(k) + delay)
    BY <1>7 DEF ReleaseLease
  <2>2. LeasedAt(k) + delay \in Nat
    BY <1>2, <1>7, <2>1 DEF ReleaseLease
  <2> QED
    BY <1>1, <1>7, <2>1, <2>2, UnleaseKeepsCore DEF ReleaseLease, evidenceVars
<1>8. CASE DropItem(k, a)
  <2>1. inflight' \subseteq inflight
    BY <1>8 DEF DropItem
  <2>2. UNCHANGED <<now, content, admittedAt, forgottenAt, state, attempt,
                    nextAttemptAt, leaseExpires, lastReceipt, receipts, refusals,
                    orphans, cursor, watermark>>
    BY <1>8 DEF DropItem, rowVars, deliveryVars, evidenceVars
  <2> QED
    BY <2>1, <2>2 DEF Core, TypeOK, RowShape, AttemptsNeverReused,
                      EvidenceAgesOut, Exists
<1> QED
  BY <1>3, <1>4, <1>5, <1>6, <1>7, <1>8 DEF HolderStep, k, a

\* A reap returns lapsed leases and names their unanswered attempts.
LEMMA ReapKeepsCore ==
    ASSUME Core, ReapExpiredLeases
    PROVE  Core'
<1> USE Parameters, StateFacts
<1>1. PICK lapsed \in Oldest(leaseExpires, LapsedLeases, ReapBudget) :
        /\ orphans' = orphans \cup Unanswered(lapsed)
        /\ state' = [k \in Obs |-> IF k \in lapsed THEN "pending" ELSE state[k]]
        /\ leaseExpires' = [k \in Obs |-> IF k \in lapsed THEN 0
                                                          ELSE leaseExpires[k]]
  BY DEF ReapExpiredLeases
<1>2. UNCHANGED <<now, content, admittedAt, forgottenAt, attempt, nextAttemptAt,
                  lastReceipt, receipts, refusals, cursor, watermark, inflight>>
  BY DEF ReapExpiredLeases, rowVars
<1>3. \A k \in lapsed : k \in Obs /\ state[k] = "leased" /\ Exists(k)
  BY OldestSubset DEF LapsedLeases, Core, RowShape, Exists
<1>4. \A k \in lapsed : attempt[k] \in Nat \ {0} /\ k =< cursor
  <2>1. \A k \in lapsed : k =< cursor
    BY <1>3, StandingBelowCursor
  <2> QED
    BY <1>3, <2>1 DEF Core, TypeOK, RowShape
<1>5. \A p \in orphans' : p \in orphans \/
          (p \in Obs \X (Nat \ {0}) /\ p[1] \in lapsed /\ p[2] = attempt[p[1]])
  BY <1>1, <1>3, <1>4 DEF Unanswered
<1>6. TypeOK'
  <2>1. state' \in [Obs -> DeliveryStates \cup {NoRow}]
    BY <1>1 DEF Core, TypeOK
  <2>2. leaseExpires' \in [Obs -> Nat]
    BY <1>1 DEF Core, TypeOK
  <2> QED
    BY <1>2, <1>5, <2>1, <2>2 DEF Core, TypeOK
<1>7. RowShape'
  BY <1>1, <1>2, <1>3, <1>4, <1>5 DEF Core, TypeOK, RowShape
<1>8. AttemptsNeverReused'
  BY <1>2, <1>5 DEF Core, TypeOK, AttemptsNeverReused, Exists
<1>9. EvidenceAgesOut'
  BY <1>2 DEF Core, EvidenceAgesOut, Exists
<1> QED
  BY <1>6, <1>7, <1>8, <1>9 DEF Core

\* Retiring rows settles standing ones above their counters and takes the
\* evidence of removed ones along.
LEMMA RetireKeepsCore ==
    ASSUME Core, NEW expired, NEW forgotten, NEW purged, NEW removed,
           expired \subseteq Unsettled, forgotten \subseteq Unsettled,
           purged \subseteq {k \in Obs : Exists(k)},
           Retire(expired, forgotten, purged, removed)
    PROVE  Core'
<1> USE Parameters, StateFacts
<1> DEFINE settled == expired \cup forgotten
<1>1. \A k \in settled : k \in Obs /\ Exists(k) /\ Slot(k) = attempt[k] + 1
  <2>1. \A k \in settled : k \in Obs /\ Exists(k)
    BY DEF Unsettled, Core, RowShape, Exists
  <2> QED
    BY <2>1, SlotFresh
<1>2. /\ UNCHANGED <<now, orphans, cursor, watermark, inflight>>
      /\ refusals' \subseteq refusals
      /\ \A p \in refusals' : p[1] \notin removed
  BY DEF Retire
<1>3. \A k \in Obs :
        /\ content'[k] = "absent" <=> (k \in removed \/ content[k] = "absent")
        /\ content'[k] \in {"absent", "held", "purged"}
  <2> TAKE k \in Obs
  <2>1. CASE k \in removed
    <3>1. content'[k] = "absent"
      BY <2>1 DEF Retire
    <3> QED
      BY <2>1, <3>1
  <2>2. CASE k \notin removed /\ k \in purged
    <3>1. content'[k] = "purged"
      BY <2>2 DEF Retire
    <3> QED
      BY <2>2, <3>1 DEF Exists
  <2>3. CASE k \notin removed /\ k \notin purged
    <3>1. content'[k] = content[k]
      BY <2>3 DEF Retire
    <3> QED
      BY <2>3, <3>1 DEF Core, TypeOK
  <2> QED
    BY <2>1, <2>2, <2>3
<1>4. \A k \in Obs :
        /\ state'[k] = NoRow <=> (k \in removed \/ state[k] = NoRow)
        /\ state'[k] = "leased" => state[k] = "leased" /\ k \notin settled \cup removed
        /\ state'[k] \in DeliveryStates \cup {NoRow}
  <2> TAKE k \in Obs
  <2>1. k \in settled => state[k] # NoRow
    BY DEF Unsettled
  <2>2. CASE k \in removed
    <3>1. state'[k] = NoRow
      BY <2>2 DEF Retire
    <3> QED
      BY <2>2, <3>1 DEF NoRow
  <2>3. CASE k \notin removed /\ k \in settled
    <3>1. state'[k] \in {"expired", "forgotten"}
      BY <2>3 DEF Retire
    <3> QED
      BY <2>1, <2>3, <3>1 DEF NoRow
  <2>4. CASE k \notin removed /\ k \notin settled
    <3>1. state'[k] = state[k]
      BY <2>4 DEF Retire
    <3> QED
      BY <2>4, <3>1 DEF Core, TypeOK
  <2> QED
    BY <2>2, <2>3, <2>4
<1>5. \A k \in Obs : k \notin removed =>
        attempt'[k] = IF k \in settled THEN attempt[k] + 1 ELSE attempt[k]
  BY <1>1 DEF Retire
<1>6. \A r \in receipts' :
        /\ r.obs \notin removed
        /\ \/ r \in receipts
           \/ /\ r \in ReceiptRecords
              /\ r.obs \in settled
              /\ r.attempt = attempt[r.obs] + 1
  <2>1. \A r \in receipts' :
          /\ r.obs \notin removed
          /\ \/ r \in receipts
             \/ r \in HostReceipts(expired, "deadline_exceeded")
             \/ r \in HostReceipts(forgotten, "cancelled")
    BY DEF Retire
  <2>2. "deadline_exceeded" \in Outcomes /\ "cancelled" \in Outcomes
    BY DEF Outcomes
  <2>3. /\ expired \in SUBSET {k \in Obs : Exists(k)}
        /\ forgotten \in SUBSET {k \in Obs : Exists(k)}
    BY <1>1
  <2> QED
    BY <2>1, <2>2, <2>3, HostReceiptFacts
<1>7. TypeOK'
  <2>1. /\ content' \in [Obs -> {"absent", "held", "purged"}]
        /\ state' \in [Obs -> DeliveryStates \cup {NoRow}]
    BY <1>3, <1>4 DEF Retire
  <2>2. /\ attempt' \in [Obs -> Nat]
        /\ lastReceipt' \in [Obs -> Nat]
    BY <1>1 DEF Retire, Core, TypeOK
  <2>3. /\ admittedAt' \in [Obs -> Nat]
        /\ forgottenAt' \in [Obs -> Nat]
        /\ nextAttemptAt' \in [Obs -> Nat]
        /\ leaseExpires' \in [Obs -> Nat]
    BY DEF Retire, Core, TypeOK
  <2>4. receipts' \subseteq ReceiptRecords
    BY <1>6 DEF Core, TypeOK
  <2> QED
    BY <1>2, <2>1, <2>2, <2>3, <2>4 DEF Core, TypeOK
<1>8. RowShape'
  <2>1. \A k \in Obs : state'[k] = "leased" => leaseExpires'[k] = leaseExpires[k]
    BY <1>4 DEF Retire
  <2> QED
    BY <1>2, <1>3, <1>4, <1>5, <2>1 DEF Core, TypeOK, RowShape
<1>9. AttemptsNeverReused'
  <2> SUFFICES ASSUME NEW k \in Obs, Exists(k)'
               PROVE  /\ \A r \in receipts' : r.obs = k => r.attempt =< attempt'[k]
                      /\ \A p \in refusals' \cup orphans' \cup inflight' :
                             p[1] = k => p[2] =< attempt'[k]
    BY DEF AttemptsNeverReused, Exists
  <2>1. Exists(k) /\ k \notin removed
    BY <1>3 DEF Exists
  <2>2. attempt[k] \in Nat /\ attempt'[k] \in Nat /\ attempt'[k] >= attempt[k]
    <3>1. attempt[k] \in Nat
      BY DEF Core, TypeOK
    <3>2. attempt'[k] = attempt[k] \/ attempt'[k] = attempt[k] + 1
      BY <1>5, <2>1
    <3> HIDE Parameters, StateFacts
    <3> QED
      BY <3>1, <3>2
  <2>3. \A r \in receipts' : r.obs = k => r.attempt =< attempt'[k]
    <3> SUFFICES ASSUME NEW r \in receipts', r.obs = k
                 PROVE  r.attempt =< attempt'[k]
      OBVIOUS
    <3>1. CASE r \in receipts
      <4>1. r.attempt =< attempt[k] /\ r.attempt \in Nat
        BY <2>1, <3>1 DEF Core, TypeOK, AttemptsNeverReused, ReceiptRecords
      <4> QED
        BY <2>2, <4>1
    <3>2. CASE r.obs \in settled /\ r.attempt = attempt[r.obs] + 1
      BY <1>5, <2>1, <2>2, <3>2
    <3> QED
      BY <1>6, <3>1, <3>2
  <2>4. \A p \in refusals' \cup orphans' \cup inflight' :
                             p[1] = k => p[2] =< attempt'[k]
    BY <1>2, <2>1, <2>2 DEF Core, TypeOK, AttemptsNeverReused
  <2> QED
    BY <2>3, <2>4
<1>10. EvidenceAgesOut'
  <2>1. \A r \in receipts' : r.obs \in Obs /\ content[r.obs] # "absent"
    BY <1>1, <1>6 DEF Core, TypeOK, EvidenceAgesOut, Exists, ReceiptRecords
  <2>2. \A p \in refusals' : p[1] \in Obs /\ content[p[1]] # "absent"
    BY <1>2 DEF Core, TypeOK, EvidenceAgesOut, Exists
  <2> QED
    BY <1>2, <1>3, <1>6, <2>1, <2>2 DEF EvidenceAgesOut, Exists
<1> QED
  BY <1>7, <1>8, <1>9, <1>10 DEF Core

-----------------------------------------------------------------------------
(* The core is an invariant.                                               *)

\* A lease call is a lease round over rows that qualify.
LEMMA LeasePendingRounds ==
    ASSUME LeasePending
    PROVE  \E expired, exhausted, batch :
             /\ expired \subseteq PastDeadline
             /\ exhausted \subseteq AttemptsConsumed \ expired
             /\ batch \subseteq Eligible \ (expired \cup exhausted)
             /\ LeaseRound(expired, exhausted, batch)
<1>1. PICK expired \in Oldest(SourceSequence, PastDeadline, MaxItems) :
        \E exhausted \in Oldest(SourceSequence, AttemptsConsumed \ expired, MaxItems) :
        \E batch \in Batches(Eligible \ (expired \cup exhausted)) :
           LeaseRound(expired, exhausted, batch)
  BY DEF LeasePending
<1>2. PICK exhausted \in Oldest(SourceSequence, AttemptsConsumed \ expired, MaxItems) :
        \E batch \in Batches(Eligible \ (expired \cup exhausted)) :
           LeaseRound(expired, exhausted, batch)
  BY <1>1
<1>3. PICK batch \in Batches(Eligible \ (expired \cup exhausted)) :
           LeaseRound(expired, exhausted, batch)
  BY <1>2
<1>4. /\ expired \subseteq PastDeadline
      /\ exhausted \subseteq AttemptsConsumed \ expired
  BY OldestSubset
<1>5. batch \subseteq Eligible \ (expired \cup exhausted)
  BY BatchSubset
<1> QED
  BY <1>3, <1>4, <1>5

\* A sweep settles what it purges, and what it removes is purged and either
\* was settled or is settled by the sweep itself.
LEMMA SweepRetires ==
    ASSUME SweepExpired
    PROVE  \E expired, forgotten, purged, removed :
             /\ expired \subseteq Unsettled
             /\ forgotten \subseteq Unsettled
             /\ expired \cap forgotten = {}
             /\ purged \cap Unsettled \subseteq expired \cup forgotten
             /\ purged \subseteq {k \in Obs : Exists(k)}
             /\ removed \cap Unsettled \subseteq forgotten
             /\ removed \subseteq {k \in Obs : content[k] = "purged"}
             /\ Retire(expired, forgotten, purged, removed)
<1>1. PICK outdated \in Oldest(admittedAt, Outdated, SweepRows) :
        \E stranded \in Oldest(admittedAt, Stranded, SweepRows) :
        \E removed \in Oldest(forgottenAt, AuditClosed(stranded), SweepRows) :
           Retire(ExpiresWithContent(outdated), stranded, outdated, removed)
  BY DEF SweepExpired
<1>2. PICK stranded \in Oldest(admittedAt, Stranded, SweepRows) :
        \E removed \in Oldest(forgottenAt, AuditClosed(stranded), SweepRows) :
           Retire(ExpiresWithContent(outdated), stranded, outdated, removed)
  BY <1>1
<1>3. PICK removed \in Oldest(forgottenAt, AuditClosed(stranded), SweepRows) :
           Retire(ExpiresWithContent(outdated), stranded, outdated, removed)
  BY <1>2
<1>4. /\ outdated \subseteq Outdated
      /\ stranded \subseteq Stranded
      /\ removed \subseteq AuditClosed(stranded)
  BY OldestSubset
<1> DEFINE expired == ExpiresWithContent(outdated)
<1>5. /\ outdated \subseteq {k \in Obs : Exists(k)}
      /\ stranded \subseteq Unsettled
      /\ expired \subseteq Unsettled
      /\ outdated \cap Unsettled \subseteq expired
      /\ expired \cap stranded = {}
  BY <1>4 DEF Outdated, Stranded, Unsettled, Exists, ExpiresWithContent
<1>6. /\ removed \subseteq {k \in Obs : content[k] = "purged"}
      /\ removed \cap Unsettled \subseteq stranded
  BY <1>4, StateFacts DEF AuditClosed, Unsettled, UnsettledStates, SettledStates
<1> HIDE DEF expired
<1> QED
  BY <1>3, <1>5, <1>6 DEF expired

\* The empty journal satisfies the core.
LEMMA InitCore == Init => Core
<1> SUFFICES ASSUME Init
             PROVE  Core
  OBVIOUS
<1> USE Parameters, StateFacts
<1>1. TypeOK
  BY DEF Init, TypeOK
<1>2. RowShape
  BY DEF Init, RowShape, NoRow
<1>3. AttemptsNeverReused /\ EvidenceAgesOut
  BY DEF Init, AttemptsNeverReused, EvidenceAgesOut
<1> QED
  BY <1>1, <1>2, <1>3 DEF Core

\* Every step of the journal keeps the core.
LEMMA NextKeepsCore == Core /\ [Next]_vars => Core'
<1> SUFFICES ASSUME Core, [Next]_vars
             PROVE  Core'
  OBVIOUS
<1> USE Parameters, StateFacts
<1>1. ASSUME NEW k \in Obs, AppendAdmitted(k) PROVE Core'
  BY <1>1, AppendKeepsCore
<1>2. CASE LeasePending
  BY <1>2, LeasePendingRounds, LeaseKeepsCore
<1>3. ASSUME NEW p \in inflight, HolderStep(p[1], p[2]) PROVE Core'
  BY <1>3, HolderKeepsCore
<1>4. CASE ReapExpiredLeases
  BY <1>4, ReapKeepsCore
<1>5. CASE SweepExpired
  BY <1>5, SweepRetires, RetireKeepsCore
<1>6. ASSUME NEW key, ForgetSource(key) PROVE Core'
  <2> DEFINE matched == {k \in Obs : Exists(k) /\ ForgetKey[k] = key}
  <2>1. Retire({}, matched \cap Unsettled, matched, {})
    BY <1>6 DEF ForgetSource
  <2> QED
    BY <2>1, RetireKeepsCore
<1>7. CASE RecoveryState
  <2>1. watermark' \in 0 .. N
    <3>1. watermark \in 0 .. N
      BY DEF Core, TypeOK
    <3> QED
      BY <1>7, <3>1, WatermarkMoves DEF RecoveryState, Obs
  <2> QED
    BY <1>7, <2>1 DEF RecoveryState, rowVars, deliveryVars, evidenceVars, Core,
         TypeOK, RowShape, AttemptsNeverReused, EvidenceAgesOut, Exists
<1>8. CASE Tick
  BY <1>8 DEF Tick, rowVars, deliveryVars, evidenceVars, Core, TypeOK, RowShape,
         AttemptsNeverReused, EvidenceAgesOut, Exists
<1>9. CASE UNCHANGED vars
  BY <1>9 DEF vars, rowVars, deliveryVars, evidenceVars, Core, TypeOK, RowShape,
         AttemptsNeverReused, EvidenceAgesOut, Exists
<1> QED
  BY <1>1, <1>2, <1>3, <1>4, <1>5, <1>6, <1>7, <1>8, <1>9 DEF Next

\* The type invariant, for every journal.
THEOREM TypeCorrect == Spec => []TypeOK
<1>1. Core => TypeOK
  BY DEF Core
<1> QED
  BY InitCore, NextKeepsCore, <1>1, PTL DEF Spec

\* No attempt number is ever handed out twice, however leases are reaped,
\* released, expired or forgotten: CLAIM_LEASE's counter is above every
\* receipt, refusal, orphan record and dispatcher of the row.
THEOREM AttemptsAreFresh == Spec => []AttemptsNeverReused
<1>1. Core => AttemptsNeverReused
  BY DEF Core
<1> QED
  BY InitCore, NextKeepsCore, <1>1, PTL DEF Spec

\* No receipt and no refusal outlives the row it describes.
THEOREM EvidenceLeavesWithRow == Spec => []EvidenceAgesOut
<1>1. Core => EvidenceAgesOut
  BY DEF Core
<1> QED
  BY InitCore, NextKeepsCore, <1>1, PTL DEF Spec

-----------------------------------------------------------------------------
(* One receipt per attempt, none for a lease still held, and no content     *)
(* purged from under an unsettled row.                                      *)

Custody == LeaseUnanswered /\ OneReceiptPerAttempt /\ NothingUndeliverable

\* A lease call answers no lease: its receipts are of rows it settles, and
\* each is of an attempt above every receipt there is.
LEMMA LeaseKeepsCustody ==
    ASSUME Core, Custody, NEW expired, NEW exhausted, NEW batch,
           expired \subseteq PastDeadline,
           exhausted \subseteq AttemptsConsumed \ expired,
           batch \subseteq Eligible \ (expired \cup exhausted),
           LeaseRound(expired, exhausted, batch)
    PROVE  Custody'
<1> USE Parameters, StateFacts
<1> DEFINE settled == expired \cup exhausted
<1>1. /\ expired \in SUBSET {k \in Obs : Exists(k)}
      /\ exhausted \in SUBSET {k \in Obs : Exists(k)}
      /\ \A k \in batch : k \in Obs /\ Exists(k) /\ content[k] = "held"
      /\ expired \cap exhausted = {}
      /\ settled \cap batch = {}
  BY DEF PastDeadline, AttemptsConsumed, Eligible, Core, RowShape, Exists
<1>2. "deadline_exceeded" \in Outcomes /\ "provider_unavailable" \in Outcomes
  BY DEF Outcomes
<1>3. \A r \in receipts' : \/ r \in receipts
                           \/ r \in HostReceipts(expired, "deadline_exceeded")
                           \/ r \in HostReceipts(exhausted, "provider_unavailable")
  BY DEF LeaseRound
<1>4. \A r \in HostReceipts(expired, "deadline_exceeded") :
         /\ r = [obs |-> r.obs, attempt |-> attempt[r.obs] + 1,
                 outcome |-> "deadline_exceeded"]
         /\ r.obs \in expired
  BY <1>1, <1>2, HostReceiptFacts DEF ReceiptRecords
<1>5. \A r \in HostReceipts(exhausted, "provider_unavailable") :
         /\ r = [obs |-> r.obs, attempt |-> attempt[r.obs] + 1,
                 outcome |-> "provider_unavailable"]
         /\ r.obs \in exhausted
  BY <1>1, <1>2, HostReceiptFacts DEF ReceiptRecords
<1>6. \A r \in receipts : /\ r.obs \in Obs
                          /\ r.attempt \in Nat
                          /\ attempt[r.obs] \in Nat
                          /\ r.attempt =< attempt[r.obs]
  BY DEF Core, TypeOK, ReceiptRecords, EvidenceAgesOut, AttemptsNeverReused
<1>7. LeaseUnanswered'
  <2> SUFFICES ASSUME NEW k \in Obs, state'[k] = "leased"
               PROVE  /\ ~\E r \in receipts' : r.obs = k /\ r.attempt = attempt'[k]
                      /\ <<k, attempt'[k]>> \notin orphans
    BY DEF LeaseUnanswered, HasReceipt, LeaseRound
  <2>1. k \notin settled
    BY DEF LeaseRound
  <2>2. \A r \in receipts' : r.obs = k => r \in receipts
    BY <1>3, <1>4, <1>5, <2>1
  <2>3. CASE k \in batch
    <3>1. attempt'[k] = attempt[k] + 1 /\ attempt[k] \in Nat
      BY <2>1, <2>3 DEF LeaseRound, ConsumedAttempt, Core, TypeOK
    <3>2. Exists(k)
      BY <1>1, <2>3
    <3>3. <<k, attempt[k] + 1>> \notin orphans
      BY <3>1, <3>2 DEF Core, AttemptsNeverReused
    <3> QED
      BY <1>6, <2>2, <3>1, <3>3
  <2>4. CASE k \notin batch
    <3>1. attempt'[k] = attempt[k] /\ state[k] = "leased"
      BY <2>1, <2>4 DEF LeaseRound
    <3> QED
      BY <2>2, <3>1 DEF Custody, LeaseUnanswered, HasReceipt
  <2> QED
    BY <2>3, <2>4
<1>8. OneReceiptPerAttempt'
  <2> SUFFICES ASSUME NEW r \in receipts', NEW s \in receipts',
                      r.obs = s.obs, r.attempt = s.attempt
               PROVE  r = s
    BY DEF OneReceiptPerAttempt
  <2>1. CASE r \in receipts /\ s \in receipts
    BY <2>1 DEF Custody, OneReceiptPerAttempt
  <2>2. CASE r \notin receipts /\ s \notin receipts
    BY <1>1, <1>3, <1>4, <1>5, <2>2
  <2>3. CASE r \in receipts /\ s \notin receipts
    BY <1>3, <1>4, <1>5, <1>6, <2>3
  <2>4. CASE r \notin receipts /\ s \in receipts
    BY <1>3, <1>4, <1>5, <1>6, <2>4
  <2> QED
    BY <2>1, <2>2, <2>3, <2>4
<1>9. NothingUndeliverable'
  <2> SUFFICES ASSUME NEW k \in Obs, content[k] = "purged"
               PROVE  state'[k] \in SettledStates
    BY DEF NothingUndeliverable, IsTerminal, LeaseRound, rowVars
  <2>1. state[k] \in SettledStates
    BY DEF Custody, NothingUndeliverable, IsTerminal
  <2>2. k \notin settled /\ k \notin batch
    BY <2>1 DEF PastDeadline, AttemptsConsumed, Eligible
  <2> QED
    BY <2>1, <2>2 DEF LeaseRound
<1> QED
  BY <1>7, <1>8, <1>9 DEF Custody

\* An answer either is the standing receipt already or takes a free slot, and
\* the row it answers is no longer leased against it.
LEMMA RecordAttemptKeepsCustody ==
    ASSUME Core, Custody, NEW k \in Obs, NEW a \in Nat \ {0}, NEW o \in Outcomes,
           RecordAttempt(k, a, o)
    PROVE  Custody'
<1> USE Parameters, StateFacts
<1>1. PICK r \in StandingReceipt(k, a, o) :
        /\ receipts' = receipts \cup {r}
        /\ IF HoldsLease(k, a) THEN SettleDelivery(k, r)
                               ELSE UNCHANGED deliveryVars
  BY DEF RecordAttempt
<1>2. r \in ReceiptRecords /\ r.obs = k /\ r.attempt = a
  BY StandingReceiptFacts
<1>3. UNCHANGED <<content, refusals, orphans>> /\ attempt' = attempt
  BY <1>1 DEF RecordAttempt, rowVars, SettleDelivery, deliveryVars
<1>4. \A j \in Obs : state'[j] = "leased" =>
        state[j] = "leased" /\ ~(j = k /\ attempt[k] = a)
  <2>1. CASE HoldsLease(k, a)
    <3>1. SettledState(r) # "leased"
      BY <1>2, ImpliedStateType DEF SettledState, ReceiptRecords
    <3>2. state' = [state EXCEPT ![k] = SettledState(r)]
      BY <1>1, <2>1 DEF SettleDelivery
    <3> QED
      BY <3>1, <3>2 DEF Core, TypeOK
  <2>2. CASE ~HoldsLease(k, a)
    BY <1>1, <2>2 DEF deliveryVars, HoldsLease
  <2> QED
    BY <2>1, <2>2
<1>5. LeaseUnanswered'
  BY <1>1, <1>2, <1>3, <1>4 DEF Custody, LeaseUnanswered, HasReceipt
<1>6. OneReceiptPerAttempt'
  <2>1. r \in receipts \/ ~HasReceipt(k, a)
    BY DEF StandingReceipt
  <2> QED
    BY <1>1, <1>2, <2>1 DEF Custody, OneReceiptPerAttempt, HasReceipt
<1>7. NothingUndeliverable'
  <2> SUFFICES ASSUME NEW j \in Obs, content[j] = "purged"
               PROVE  state'[j] \in SettledStates
    BY <1>3 DEF NothingUndeliverable, IsTerminal
  <2>1. state[j] \in SettledStates
    BY DEF Custody, NothingUndeliverable, IsTerminal
  <2>2. CASE HoldsLease(k, a)
    <3>1. j # k
      BY <2>1, <2>2 DEF HoldsLease
    <3> QED
      BY <1>1, <2>1, <2>2, <3>1 DEF SettleDelivery, Core, TypeOK
  <2>3. CASE ~HoldsLease(k, a)
    BY <1>1, <2>1, <2>3 DEF deliveryVars
  <2> QED
    BY <2>2, <2>3
<1> QED
  BY <1>5, <1>6, <1>7 DEF Custody

\* Evidence recorded with a release takes a slot that was free.
LEMMA UnleaseKeepsCustody ==
    ASSUME Core, Custody, NEW k \in Obs, NEW a \in Nat \ {0}, HoldsLease(k, a),
           NEW retryAt, Unlease(k, retryAt),
           receipts' = receipts \/ \E o \in Outcomes :
               /\ ~HasReceipt(k, a)
               /\ receipts' = receipts \cup {[obs |-> k, attempt |-> a, outcome |-> o]},
           UNCHANGED <<content, orphans>>
    PROVE  Custody'
<1> USE Parameters, StateFacts
<1>1. /\ attempt' = attempt
      /\ \A j \in Obs : j # k => state'[j] = state[j]
      /\ state'[k] = "pending"
  BY DEF Unlease, Core, TypeOK
<1>2. \A r \in receipts' : r \in receipts \/ (r.obs = k /\ r.attempt = a)
  OBVIOUS
<1>3. LeaseUnanswered'
  BY <1>1, <1>2 DEF Custody, LeaseUnanswered, HasReceipt
<1>4. OneReceiptPerAttempt'
  BY DEF Custody, OneReceiptPerAttempt, HasReceipt
<1>5. NothingUndeliverable'
  <2>1. content[k] # "purged"
    BY DEF Custody, NothingUndeliverable, IsTerminal, HoldsLease
  <2> QED
    BY <1>1, <2>1 DEF Custody, NothingUndeliverable, IsTerminal
<1> QED
  BY <1>3, <1>4, <1>5 DEF Custody

\* What a dispatcher does with its item keeps custody.
LEMMA HolderKeepsCustody ==
    ASSUME Core, Custody, NEW p \in inflight, HolderStep(p[1], p[2])
    PROVE  Custody'
<1> DEFINE k == p[1]
           a == p[2]
<1>1. k \in Obs /\ a \in Nat \ {0}
  BY DEF Core, TypeOK
<1> HIDE DEF k, a
<1>2. CASE \E o \in ProviderOutcomes : RecordAttempt(k, a, o)
  BY <1>1, <1>2, RecordAttemptKeepsCustody, PolicyAssumption
<1>3. CASE RecordUnsettledAttempt(k, a)
  <2>1. "cancelled" \in Outcomes
    BY DEF Outcomes
  <2> QED
    BY <1>1, <1>3, <2>1, UnleaseKeepsCustody
       DEF RecordUnsettledAttempt, RecordUnsettled, rowVars
<1>4. CASE RecordRefusedTerminalAttempt(k, a)
  <2>1. "effect_unknown" \in Outcomes
    BY DEF Outcomes
  <2> QED
    BY <1>1, <1>4, <2>1, UnleaseKeepsCustody
       DEF RecordRefusedTerminalAttempt, RecordUnsettled, rowVars
<1>5. CASE RecordAttemptRefusal(k, a) \/ DropItem(k, a)
  BY <1>5 DEF RecordAttemptRefusal, DropItem, rowVars, deliveryVars, evidenceVars,
       Custody, LeaseUnanswered, OneReceiptPerAttempt, NothingUndeliverable,
       HasReceipt
<1>6. CASE ReleaseLease(k, a)
  BY <1>1, <1>6, UnleaseKeepsCustody DEF ReleaseLease, rowVars, evidenceVars
<1> QED
  BY <1>2, <1>3, <1>4, <1>5, <1>6 DEF HolderStep, k, a

\* A reap names only attempts whose leases it takes back.
LEMMA ReapKeepsCustody ==
    ASSUME Core, Custody, ReapExpiredLeases
    PROVE  Custody'
<1> USE Parameters, StateFacts
<1>1. PICK lapsed \in Oldest(leaseExpires, LapsedLeases, ReapBudget) :
        /\ orphans' = orphans \cup Unanswered(lapsed)
        /\ state' = [k \in Obs |-> IF k \in lapsed THEN "pending" ELSE state[k]]
  BY DEF ReapExpiredLeases
<1>2. UNCHANGED <<content, attempt, receipts>>
  BY DEF ReapExpiredLeases, rowVars
<1>3. \A k \in lapsed : k \in Obs /\ state[k] = "leased"
  BY OldestSubset DEF LapsedLeases
<1>4. \A k \in Obs : k \notin lapsed /\ <<k, attempt[k]>> \in orphans'
                        => <<k, attempt[k]>> \in orphans
  BY <1>1 DEF Unanswered
<1>5. LeaseUnanswered'
  BY <1>1, <1>2, <1>4 DEF Custody, LeaseUnanswered, HasReceipt
<1>6. OneReceiptPerAttempt' /\ NothingUndeliverable'
  BY <1>1, <1>2, <1>3 DEF Custody, OneReceiptPerAttempt, NothingUndeliverable, IsTerminal
<1> QED
  BY <1>5, <1>6 DEF Custody

\* Retiring rows settles every row whose content it purges.
LEMMA RetireKeepsCustody ==
    ASSUME Core, Custody, NEW expired, NEW forgotten, NEW purged, NEW removed,
           expired \subseteq Unsettled, forgotten \subseteq Unsettled,
           expired \cap forgotten = {},
           purged \cap Unsettled \subseteq expired \cup forgotten,
           purged \subseteq {k \in Obs : Exists(k)},
           Retire(expired, forgotten, purged, removed)
    PROVE  Custody'
<1> USE Parameters, StateFacts
<1> DEFINE settled == expired \cup forgotten
<1>1. /\ expired \in SUBSET {k \in Obs : Exists(k)}
      /\ forgotten \in SUBSET {k \in Obs : Exists(k)}
  BY DEF Unsettled, Core, RowShape, Exists
<1>2. "deadline_exceeded" \in Outcomes /\ "cancelled" \in Outcomes
  BY DEF Outcomes
<1>3. \A r \in receipts' : \/ r \in receipts
                           \/ r \in HostReceipts(expired, "deadline_exceeded")
                           \/ r \in HostReceipts(forgotten, "cancelled")
  BY DEF Retire
<1>4. \A r \in HostReceipts(expired, "deadline_exceeded") :
         /\ r = [obs |-> r.obs, attempt |-> attempt[r.obs] + 1,
                 outcome |-> "deadline_exceeded"]
         /\ r.obs \in expired
  BY <1>1, <1>2, HostReceiptFacts DEF ReceiptRecords
<1>5. \A r \in HostReceipts(forgotten, "cancelled") :
         /\ r = [obs |-> r.obs, attempt |-> attempt[r.obs] + 1,
                 outcome |-> "cancelled"]
         /\ r.obs \in forgotten
  BY <1>1, <1>2, HostReceiptFacts DEF ReceiptRecords
<1>6. \A r \in receipts : /\ r.obs \in Obs
                          /\ r.attempt \in Nat
                          /\ attempt[r.obs] \in Nat
                          /\ r.attempt =< attempt[r.obs]
  BY DEF Core, TypeOK, ReceiptRecords, EvidenceAgesOut, AttemptsNeverReused
<1>7. LeaseUnanswered'
  <2> SUFFICES ASSUME NEW k \in Obs, state'[k] = "leased"
               PROVE  /\ ~\E r \in receipts' : r.obs = k /\ r.attempt = attempt'[k]
                      /\ <<k, attempt'[k]>> \notin orphans
    BY DEF LeaseUnanswered, HasReceipt, Retire
  <2>1. k \notin settled /\ k \notin removed /\ state[k] = "leased"
    BY DEF Retire, NoRow
  <2>2. \A r \in receipts' : r.obs = k => r \in receipts
    BY <1>3, <1>4, <1>5, <2>1
  <2>3. attempt'[k] = attempt[k]
    BY <2>1 DEF Retire
  <2> QED
    BY <2>1, <2>2, <2>3 DEF Custody, LeaseUnanswered, HasReceipt
<1>8. OneReceiptPerAttempt'
  <2> SUFFICES ASSUME NEW r \in receipts', NEW s \in receipts',
                      r.obs = s.obs, r.attempt = s.attempt
               PROVE  r = s
    BY DEF OneReceiptPerAttempt
  <2>1. CASE r \in receipts /\ s \in receipts
    BY <2>1 DEF Custody, OneReceiptPerAttempt
  <2>2. CASE r \notin receipts /\ s \notin receipts
    BY <1>3, <1>4, <1>5, <2>2
  <2>3. CASE r \in receipts /\ s \notin receipts
    BY <1>3, <1>4, <1>5, <1>6, <2>3
  <2>4. CASE r \notin receipts /\ s \in receipts
    BY <1>3, <1>4, <1>5, <1>6, <2>4
  <2> QED
    BY <2>1, <2>2, <2>3, <2>4
<1>9. NothingUndeliverable'
  <2> SUFFICES ASSUME NEW k \in Obs, content'[k] = "purged"
               PROVE  state'[k] \in SettledStates
    BY DEF NothingUndeliverable, IsTerminal
  <2>1. k \notin removed /\ (k \in purged \/ content[k] = "purged")
    BY DEF Retire
  <2>2. CASE k \in settled
    BY <2>1, <2>2 DEF Retire
  <2>3. CASE k \notin settled
    <3>1. state'[k] = state[k]
      BY <2>1, <2>3 DEF Retire
    <3>2. CASE content[k] = "purged"
      BY <3>1, <3>2 DEF Custody, NothingUndeliverable, IsTerminal
    <3>3. CASE k \in purged
      <4>1. k \notin Unsettled /\ Exists(k)
        BY <2>3, <3>3
      <4>2. state[k] \notin UnsettledStates /\ state[k] # NoRow
        BY <4>1 DEF Unsettled, Core, RowShape, Exists
      <4> QED
        BY <3>1, <4>2 DEF Core, TypeOK, DeliveryStates
    <3> QED
      BY <2>1, <3>2, <3>3
  <2> QED
    BY <2>2, <2>3
<1> QED
  BY <1>7, <1>8, <1>9 DEF Custody

\* A fresh row is pending, and nothing was answered above the cursor.
LEMMA AppendKeepsCustody ==
    ASSUME Core, Custody, NEW k \in Obs, AppendAdmitted(k)
    PROVE  Custody'
<1> USE StateFacts
<1>1. /\ \A j \in Obs : j # k => state'[j] = state[j] /\ content'[j] = content[j]
      /\ state'[k] = "pending" /\ content'[k] = "held"
  BY DEF AppendAdmitted, Core, TypeOK
<1>2. UNCHANGED <<attempt, receipts, orphans>>
  BY DEF AppendAdmitted, evidenceVars
<1> QED
  BY <1>1, <1>2 DEF Custody, LeaseUnanswered, OneReceiptPerAttempt,
     NothingUndeliverable, HasReceipt, IsTerminal

\* The empty journal has nothing to lose.
LEMMA InitCustody == Init => Custody
BY DEF Init, Custody, LeaseUnanswered, OneReceiptPerAttempt,
       NothingUndeliverable, NoRow

\* Every step of the journal keeps custody.
LEMMA NextKeepsCustody == Core /\ Custody /\ [Next]_vars => Custody'
<1> SUFFICES ASSUME Core, Custody, [Next]_vars
             PROVE  Custody'
  OBVIOUS
<1>1. ASSUME NEW k \in Obs, AppendAdmitted(k) PROVE Custody'
  BY <1>1, AppendKeepsCustody
<1>2. CASE LeasePending
  BY <1>2, LeasePendingRounds, LeaseKeepsCustody
<1>3. ASSUME NEW p \in inflight, HolderStep(p[1], p[2]) PROVE Custody'
  BY <1>3, HolderKeepsCustody
<1>4. CASE ReapExpiredLeases
  BY <1>4, ReapKeepsCustody
<1>5. CASE SweepExpired
  BY <1>5, SweepRetires, RetireKeepsCustody
<1>6. ASSUME NEW key, ForgetSource(key) PROVE Custody'
  <2> DEFINE matched == {k \in Obs : Exists(k) /\ ForgetKey[k] = key}
  <2>1. Retire({}, matched \cap Unsettled, matched, {})
    BY <1>6 DEF ForgetSource
  <2> QED
    BY <2>1, RetireKeepsCustody
<1>7. CASE RecoveryState \/ Tick \/ UNCHANGED vars
  BY <1>7 DEF RecoveryState, Tick, vars, rowVars, deliveryVars, evidenceVars,
       Custody, LeaseUnanswered, OneReceiptPerAttempt, NothingUndeliverable,
       HasReceipt
<1> QED
  BY <1>1, <1>2, <1>3, <1>4, <1>5, <1>6, <1>7 DEF Next

\* A row still leased has no receipt and no orphan record for its attempt, so
\* neither the reap's insert nor the receipt insert of an unsettled attempt
\* ever collides.
THEOREM LeasesStayUnanswered == Spec => []LeaseUnanswered
<1>1. Custody => LeaseUnanswered
  BY DEF Custody
<1> QED
  BY InitCore, NextKeepsCore, InitCustody, NextKeepsCustody, <1>1, PTL DEF Spec

\* The first receipt of an attempt is its only one, whoever repeats an answer.
THEOREM ReceiptsAreUnique == Spec => []OneReceiptPerAttempt
<1>1. Custody => OneReceiptPerAttempt
  BY DEF Custody
<1> QED
  BY InitCore, NextKeepsCore, InitCustody, NextKeepsCustody, <1>1, PTL DEF Spec

\* No row is left to deliver once its content is gone, whether a sweep or a
\* forget purged it, and whoever held its lease.
THEOREM PurgedIsSettled == Spec => []NothingUndeliverable
<1>1. Custody => NothingUndeliverable
  BY DEF Custody
<1> QED
  BY InitCore, NextKeepsCore, InitCustody, NextKeepsCustody, <1>1, PTL DEF Spec
=============================================================================
