-------------------- MODULE ObservationRefinementProofs --------------------
(***************************************************************************)
(* The observation journal implements the outbox for every instance: each  *)
(* transaction of the store is a step of ObservationOutbox under the       *)
(* mapping of ObservationRefinement.                                       *)
(***************************************************************************)
EXTENDS ObservationRefinement, ObservationSettlementProofs

\* Where each kind of row is mapped, given how its columns fit together.
LEMMA LifeFacts ==
    ASSUME Core, NEW k \in Obs
    PROVE  /\ LifeOf(k) = "new" <=> k > cursor
           /\ LifeOf(k) = "outstanding" <=> state[k] \in UnsettledStates
           /\ LifeOf(k) = "delivered"
                <=> state[k] \in {"acknowledged", "duplicate_acknowledged"}
           /\ LifeOf(k) = "abandoned"
                <=> state[k] \in SettledStates \ {"acknowledged", "duplicate_acknowledged"}
           /\ Exists(k) <=> state[k] # NoRow
           /\ Exists(k) => ~(k > cursor)
           /\ LifeMap[k] = LifeOf(k)
<1>1. state[k] \in UnsettledStates \cup SettledStates \cup {NoRow}
  BY DEF Core, TypeOK, DeliveryStates
<1>2. Exists(k) <=> state[k] # NoRow
  BY DEF Core, RowShape, Exists
<1>3. k > cursor => state[k] = NoRow
  BY DEF Core, RowShape
<1> QED
  BY <1>1, <1>2, <1>3 DEF LifeOf, LifeMap, NoRow, UnsettledStates, SettledStates

\* The observations that stand in the outbox are the rows of the journal.
LEMMA StandingIsExisting ==
    ASSUME Core, NEW k \in Obs
    PROVE  /\ k \in Outbox!Standing <=> Exists(k)
           /\ k \in Outbox!Outstanding <=> state[k] \in UnsettledStates
           /\ k \in Outbox!Closed <=> IsTerminal(state[k])
<1>1. state[k] \in UnsettledStates \cup SettledStates \cup {NoRow}
  BY DEF Core, TypeOK, DeliveryStates
<1> QED
  BY <1>1, LifeFacts DEF Outbox!Standing, Outbox!Outstanding, Outbox!Closed,
     Outbox!Observations, Obs, IsTerminal, NoRow, UnsettledStates, SettledStates

\* A step that gives up on rows, removes settled ones and adds no
\* acknowledgement retires those observations in the outbox.
LEMMA GivingUpRetires ==
    ASSUME Core, Core', EvidenceKept, UNCHANGED <<cursor, watermark>>,
           \A k \in Obs : Exists(k)' => Exists(k),
           \A r \in receipts' : r \in receipts \/ r.outcome \notin AcknowledgingOutcomes,
           \A k \in Obs :
              \/ LifeOf(k)' = LifeOf(k)
              \/ state[k] \in UnsettledStates /\ LifeOf(k)' = "abandoned"
              \/ Removed(k)
    PROVE  Outbox!OutboxNext
<1> DEFINE gone == {k \in Obs : state[k] \in UnsettledStates /\ LifeOf(k)' = "abandoned"}
           discarded == {k \in Obs : Removed(k)}
<1>1. gone \subseteq Outbox!Outstanding /\ discarded \subseteq Outbox!Closed
  BY StandingIsExisting DEF Removed
<1>2. \A k \in Obs : k \in discarded => LifeOf(k)' = "gone" /\ k \notin gone
  <2> SUFFICES ASSUME NEW k \in Obs, Removed(k)
               PROVE  LifeOf(k)' = "gone" /\ k \notin gone
    OBVIOUS
  <2>1. ~(k > cursor) /\ state[k] \notin UnsettledStates
    BY LifeFacts, StateFacts DEF Removed, IsTerminal
  <2> QED
    BY <2>1 DEF Removed, LifeOf, NoRow, UnsettledStates
<1>3. LifeMap' = [k \in Obs |-> IF k \in gone THEN "abandoned" ELSE
                                IF k \in discarded THEN "gone" ELSE LifeMap[k]]
  BY <1>2 DEF LifeMap
<1>4. AckedRows' = AckedRows \ discarded
  <2>1. \A k \in Obs : k \in AckedRows' => k \in AckedRows
    <3> SUFFICES ASSUME NEW k \in Obs, Exists(k)', Acknowledged(k, receipts')
                 PROVE  Exists(k) /\ Acknowledged(k, receipts)
      BY DEF AckedRows, Acknowledged
    <3> QED
      BY DEF Acknowledged
  <2>2. \A k \in Obs : k \in AckedRows' => k \notin discarded
    <3> SUFFICES ASSUME NEW k \in Obs, Exists(k)', Removed(k)
                 PROVE  FALSE
      BY DEF AckedRows
    <3> QED
      BY DEF Removed, Exists, Core, RowShape
  <2>3. \A k \in AckedRows : k \notin discarded => k \in AckedRows'
    <3> SUFFICES ASSUME NEW k \in Obs, Exists(k), Acknowledged(k, receipts),
                        ~Removed(k)
                 PROVE  Exists(k)' /\ Acknowledged(k, receipts')
      BY DEF AckedRows, Acknowledged
    <3>1. LifeOf(k) \in {"outstanding", "delivered", "abandoned"}
      BY LifeFacts DEF Core, TypeOK, DeliveryStates, NoRow, SettledStates
    <3>2. LifeOf(k)' \in {"outstanding", "delivered", "abandoned"}
      BY <3>1
    <3>3. state'[k] # NoRow
      BY <3>2 DEF LifeOf, NoRow, UnsettledStates
    <3>4. Exists(k)'
      BY <3>3 DEF Exists, Core, RowShape
    <3> QED
      BY <3>4, AcknowledgementsStay
  <2> QED
    BY <2>1, <2>2, <2>3 DEF AckedRows
<1>5. gone \in SUBSET Outbox!Observations /\ discarded \in SUBSET Outbox!Observations
  BY DEF Outbox!Observations, Obs
<1>6. Outbox!Retire(gone, discarded)
  BY <1>1, <1>3, <1>4 DEF Outbox!Retire, Outbox!Observations, Obs
<1> QED
  BY <1>5, <1>6 DEF Outbox!OutboxNext

\* A scan moves the replay position as the outbox allows.
LEMMA ScanMovesPosition ==
    ASSUME Core, Core', Replay, AdvanceWatermark(receipts'), content' = content
    PROVE  Outbox!MovePosition
<1>1. watermark \in 0 .. N /\ watermark' \in 0 .. N
  BY DEF Core, TypeOK
<1>2. \/ watermark' = watermark
      \/ watermark' \in Obs /\ watermark' > watermark
  BY WatermarkMoves
<1>3. \A k \in Outbox!Standing : watermark < k /\ k =< watermark' => k \in AckedRows'
  <2> SUFFICES ASSUME NEW k \in Obs, Exists(k), watermark < k, k =< watermark'
               PROVE  k \in AckedRows'
    BY StandingIsExisting DEF Outbox!Standing, Outbox!Outstanding, Outbox!Closed,
         Outbox!Observations, Obs
  <2>1. Acknowledged(k, receipts')
    BY <1>1, ScanIsJustified
  <2> QED
    BY <2>1 DEF AckedRows, Exists, Acknowledged
<1> QED
  BY <1>1, <1>2, <1>3 DEF Outbox!MovePosition, Outbox!Observations, Obs

\* An answer that does not acknowledge delivers nothing.
LEMMA OtherAnswersDeliverNothing ==
    ASSUME NEW r \in ReceiptRecords, r.outcome \notin AcknowledgingOutcomes
    PROVE  SettledState(r) \in DeliveryStates \ {"acknowledged", "duplicate_acknowledged"}
<1>1. r.outcome \in Outcomes \ AcknowledgingOutcomes
  BY DEF ReceiptRecords
<1>2. ImpliedState(r.outcome) \in {"rejected", "pending", "cancelled", "effect_unknown"}
  BY <1>1 DEF Outcomes, AcknowledgingOutcomes, RejectingOutcomes, ImpliedState
<1> QED
  BY <1>2 DEF SettledState, DeliveryStates, UnsettledStates, SettledStates

\* An acknowledging answer delivers.
LEMMA AcknowledgementsDeliver ==
    ASSUME NEW r \in ReceiptRecords, r.outcome \in AcknowledgingOutcomes
    PROVE  SettledState(r) \in {"acknowledged", "duplicate_acknowledged"}
BY DEF SettledState, IsRetryable, AcknowledgingOutcomes, RejectingOutcomes, ImpliedState

\* A transaction that brings no acknowledgement is, for the outbox, at most a
\* retirement.  That an owner's answer is no old acknowledgement is what
\* LeaseUnanswered says.
LEMMA QuietStepRetires ==
    ASSUME Core, Core', Custody, EvidenceKept, RowStep,
           UNCHANGED <<cursor, watermark>>,
           \A k \in Obs : Exists(k)' => Exists(k),
           \A r \in receipts' : r \in receipts \/ r.outcome \notin AcknowledgingOutcomes
    PROVE  Outbox!OutboxNext
<1> SUFFICES ASSUME NEW k \in Obs
             PROVE  \/ LifeOf(k)' = LifeOf(k)
                    \/ state[k] \in UnsettledStates /\ LifeOf(k)' = "abandoned"
                    \/ Removed(k)
  BY GivingUpRetires
<1>1. state[k] # NoRow => ~(k > cursor)
  BY LifeFacts
<1>2. CASE Kept(k)
  BY <1>2 DEF Kept, LifeOf
<1>3. CASE Opened(k)
  <2>1. ~Exists(k) /\ Exists(k)'
    BY <1>3, StateFacts DEF Opened, Exists, Core, RowShape
  <2> QED
    BY <2>1
<1>4. CASE Moved(k)
  BY <1>1, <1>4 DEF Moved, IsDeliverable, LifeOf, UnsettledStates, NoRow
<1>5. CASE HostSettled(k)
  BY <1>1, <1>5 DEF HostSettled, LifeOf, UnsettledStates, NoRow
<1>6. CASE OwnerAnswered(k)
  <2>1. PICK r \in receipts' : /\ r \in ReceiptRecords
                               /\ r.obs = k
                               /\ r.attempt = attempt[k]
                               /\ state'[k] = SettledState(r)
    BY <1>6 DEF OwnerAnswered
  <2>2. r \notin receipts
    BY <1>6, <2>1 DEF OwnerAnswered, Custody, LeaseUnanswered, HasReceipt
  <2>3. state'[k] \in DeliveryStates \ {"acknowledged", "duplicate_acknowledged"}
    BY <2>1, <2>2, OtherAnswersDeliverNothing
  <2>4. state[k] \in UnsettledStates /\ ~(k > cursor) /\ NoRow \notin DeliveryStates
    BY <1>1, <1>6, StateFacts DEF OwnerAnswered
  <2> QED
    BY <2>3, <2>4 DEF LifeOf
<1> QED
  BY <1>2, <1>3, <1>4, <1>5, <1>6 DEF RowStep

\* Admission of a row admits its observation, and passes the ones before it.
LEMMA AdmissionAdmits ==
    ASSUME Core, Core', NEW k \in Obs, AppendAdmitted(k)
    PROVE  Outbox!OutboxNext
<1>1. /\ k > cursor /\ cursor' = k /\ cursor \in Int /\ k \in Int /\ Obs \subseteq Int
      /\ state' = [state EXCEPT ![k] = "pending"]
      /\ UNCHANGED <<receipts, watermark>>
  BY Parameters DEF AppendAdmitted, Accepts, evidenceVars, Core, TypeOK
<1>2. \A j \in Obs : j > cursor => state[j] = NoRow
  BY DEF Core, RowShape
<1>3. \A j \in Obs : j >= k => LifeMap[j] = "new"
  BY <1>1 DEF LifeMap, LifeOf
<1>4. \A j \in Obs : LifeOf(j)' = IF j = k THEN "outstanding" ELSE
                                  IF j < k /\ LifeMap[j] = "new" THEN "gone" ELSE LifeMap[j]
  <2> TAKE j \in Obs
  <2>1. CASE j = k
    BY <1>1, <2>1 DEF LifeOf, UnsettledStates, Core, TypeOK
  <2>2. CASE j # k /\ j > cursor
    <3>1. state'[j] = NoRow /\ LifeMap[j] = "new"
      BY <1>1, <1>2, <2>2 DEF LifeMap, LifeOf, Core, TypeOK
    <3>2. LifeOf(j)' = IF j > k THEN "new" ELSE "gone"
      BY <1>1, <3>1 DEF LifeOf, NoRow, UnsettledStates
    <3> QED
      BY <1>1, <2>2, <3>1, <3>2
  <2>3. CASE ~(j > cursor)
    <3>1. ~(j > k) /\ j # k
      BY <1>1, <2>3
    <3>2. state'[j] = state[j]
      BY <1>1, <3>1 DEF Core, TypeOK
    <3>3. LifeOf(j)' = LifeMap[j]
      BY <1>1, <2>3, <3>1, <3>2 DEF LifeOf, LifeMap
    <3>4. LifeMap[j] # "new"
      BY <2>3, LifeFacts
    <3> QED
      BY <3>1, <3>3, <3>4
  <2> QED
    BY <2>1, <2>2, <2>3
<1>5. AckedRows' = AckedRows
  <2>1. ~Acknowledged(k, receipts)
    BY <1>1 DEF Acknowledged, Core, EvidenceAgesOut, RowShape, Exists
  <2>2. \A j \in Obs \ {k} : Exists(j)' <=> Exists(j)
    BY DEF AppendAdmitted, Exists, Core, TypeOK
  <2> QED
    BY <1>1, <2>1, <2>2 DEF AckedRows, Acknowledged
<1>6. LifeMap' = [j \in Obs |-> IF j = k THEN "outstanding" ELSE
                                IF j < k /\ LifeMap[j] = "new" THEN "gone" ELSE LifeMap[j]]
  BY <1>4 DEF LifeMap
<1>7. Outbox!Admit(k)
  BY <1>1, <1>3, <1>5, <1>6 DEF Outbox!Admit, Outbox!Observations, Obs
<1> QED
  BY <1>7 DEF Outbox!OutboxNext, Outbox!Observations, Obs

\* An acknowledging answer acknowledges its observation, and delivers it if
\* the answer is of the lease in force.
LEMMA AnswerAcknowledges ==
    ASSUME Core, Core', Replay, NEW k \in Obs, NEW a \in Nat \ {0}, NEW r \in ReceiptRecords,
           r.obs = k, r.attempt = a, r.outcome \in AcknowledgingOutcomes,
           Exists(k), receipts' = receipts \cup {r}, UNCHANGED <<content, cursor>>,
           AdvanceWatermark(receipts'),
           IF HoldsLease(k, a) THEN SettleDelivery(k, r) ELSE UNCHANGED deliveryVars
    PROVE  Outbox!OutboxNext
<1>1. Outbox!MovePosition
  BY ScanMovesPosition
<1>2. AckedRows' = AckedRows \cup {k}
  BY DEF AckedRows, Acknowledged, Exists
<1>3. k \in Outbox!Standing
  BY StandingIsExisting
<1>4. \/ LifeMap' = LifeMap
      \/ k \in Outbox!Outstanding /\ LifeMap' = [LifeMap EXCEPT ![k] = "delivered"]
  <2>1. CASE HoldsLease(k, a)
    <3>1. state' = [state EXCEPT ![k] = SettledState(r)]
      BY <2>1 DEF SettleDelivery
    <3>2. ~(k > cursor)
      BY LifeFacts
    <3>3. LifeOf(k)' = "delivered"
      BY <3>1, <3>2, AcknowledgementsDeliver DEF LifeOf, UnsettledStates, Core, TypeOK
    <3>4. \A j \in Obs \ {k} : LifeOf(j)' = LifeOf(j)
      BY <3>1 DEF LifeOf, Core, TypeOK
    <3>5. LifeMap' = [LifeMap EXCEPT ![k] = "delivered"]
      BY <3>3, <3>4 DEF LifeMap
    <3>6. k \in Outbox!Outstanding
      BY <2>1, StandingIsExisting, StateFacts DEF HoldsLease
    <3> QED
      BY <3>5, <3>6
  <2>2. CASE ~HoldsLease(k, a)
    BY <2>2 DEF deliveryVars, LifeMap, LifeOf
  <2> QED
    BY <2>1, <2>2
<1>5. Outbox!Acknowledge(k)
  BY <1>1, <1>2, <1>3, <1>4 DEF Outbox!Acknowledge
<1> QED
  BY <1>5 DEF Outbox!OutboxNext, Outbox!Observations, Obs

\* The host acknowledges nothing on a provider's behalf.
LEMMA HostReceiptsAreQuiet ==
    ASSUME NEW S, NEW o \in {"deadline_exceeded", "provider_unavailable", "cancelled"},
           NEW r \in HostReceipts(S, o)
    PROVE  r.outcome \notin AcknowledgingOutcomes
BY DEF HostReceipts, AcknowledgingOutcomes

\* What a dispatcher does with an item is a step of the outbox.
LEMMA HolderImplements ==
    ASSUME Core, Core', Custody, Replay, EvidenceKept, RowStep,
           NEW p \in inflight, HolderStep(p[1], p[2])
    PROVE  Outbox!OutboxNext
<1> DEFINE k == p[1]
           a == p[2]
<1>1. k \in Obs /\ a \in Nat \ {0}
  BY DEF Core, TypeOK
<1>2. ASSUME UNCHANGED <<content, cursor, watermark>>,
             \A r \in receipts' : r \in receipts \/ r.outcome \notin AcknowledgingOutcomes
      PROVE  Outbox!OutboxNext
  BY <1>2, QuietStepRetires DEF Exists
<1> HIDE DEF k, a
<1>3. CASE \E o \in ProviderOutcomes : RecordAttempt(k, a, o)
  <2>1. PICK o \in ProviderOutcomes : RecordAttempt(k, a, o)
    BY <1>3
  <2>2. PICK r \in StandingReceipt(k, a, o) :
          /\ receipts' = receipts \cup {r}
          /\ IF r.outcome \in AcknowledgingOutcomes
             THEN AdvanceWatermark(receipts') ELSE UNCHANGED watermark
          /\ IF HoldsLease(k, a) THEN SettleDelivery(k, r)
                                 ELSE UNCHANGED deliveryVars
    BY <2>1 DEF RecordAttempt
  <2>3. UNCHANGED <<content, cursor>> /\ Exists(k)
    BY <2>1 DEF RecordAttempt, rowVars, JournalRowFound, Exists
  <2>4. r \in ReceiptRecords /\ r.obs = k /\ r.attempt = a
    BY <1>1, <2>1, StandingReceiptFacts, PolicyAssumption
  <2>5. CASE r.outcome \in AcknowledgingOutcomes
    BY <1>1, <2>2, <2>3, <2>4, <2>5, AnswerAcknowledges
  <2>6. CASE r.outcome \notin AcknowledgingOutcomes
    BY <1>2, <2>2, <2>3, <2>6
  <2> QED
    BY <2>5, <2>6
<1>4. CASE RecordUnsettledAttempt(k, a) \/ RecordRefusedTerminalAttempt(k, a)
  BY <1>2, <1>4 DEF RecordUnsettledAttempt, RecordRefusedTerminalAttempt,
       RecordUnsettled, rowVars, AcknowledgingOutcomes
<1>5. CASE RecordAttemptRefusal(k, a) \/ DropItem(k, a) \/ ReleaseLease(k, a)
  BY <1>2, <1>5 DEF RecordAttemptRefusal, DropItem, ReleaseLease, rowVars, evidenceVars
<1> QED
  BY <1>3, <1>4, <1>5 DEF HolderStep, k, a

\* Retiring rows of the journal retires their observations.
LEMMA RetireImplements ==
    ASSUME Core, Core', Custody, EvidenceKept, RowStep,
           NEW expired, NEW forgotten, NEW purged, NEW removed,
           purged \subseteq {k \in Obs : Exists(k)},
           Retire(expired, forgotten, purged, removed)
    PROVE  Outbox!OutboxNext
<1>1. \A k \in Obs : Exists(k)' => Exists(k)
  BY DEF Retire, Exists
<1>2. \A r \in receipts' : \/ r \in receipts
                           \/ r \in HostReceipts(expired, "deadline_exceeded")
                           \/ r \in HostReceipts(forgotten, "cancelled")
  BY DEF Retire
<1>3. \A r \in receipts' : r \in receipts \/ r.outcome \notin AcknowledgingOutcomes
  BY <1>2, HostReceiptsAreQuiet
<1>4. UNCHANGED <<cursor, watermark>>
  BY DEF Retire
<1> QED
  BY <1>1, <1>3, <1>4, QuietStepRetires

\* Every transaction of the store is a step of the outbox or invisible to it.
LEMMA StepsImplement ==
    Core /\ Core' /\ Custody /\ Replay /\ [Next]_vars =>
        [Outbox!OutboxNext]_(Outbox!outboxVars)
<1> SUFFICES ASSUME Core, Core', Custody, Replay, [Next]_vars
             PROVE  [Outbox!OutboxNext]_(Outbox!outboxVars)
  OBVIOUS
<1>0. EvidenceKept /\ RowStep
  BY StepsKeepEvidence, StepsAreRowSteps
<1>1. ASSUME NEW k \in Obs, AppendAdmitted(k) PROVE Outbox!OutboxNext
  BY <1>1, AdmissionAdmits
<1>2. CASE LeasePending
  <2>1. PICK expired, exhausted, batch : LeaseRound(expired, exhausted, batch)
    BY <1>2 DEF LeasePending
  <2>2. UNCHANGED <<content, cursor, watermark>>
    BY <2>1 DEF LeaseRound, rowVars
  <2>3. \A r \in receipts' : \/ r \in receipts
                             \/ r \in HostReceipts(expired, "deadline_exceeded")
                             \/ r \in HostReceipts(exhausted, "provider_unavailable")
    BY <2>1 DEF LeaseRound
  <2>4. \A r \in receipts' : r \in receipts \/ r.outcome \notin AcknowledgingOutcomes
    BY <2>3, HostReceiptsAreQuiet
  <2> QED
    BY <1>0, <2>2, <2>4, QuietStepRetires DEF Exists
<1>3. ASSUME NEW p \in inflight, HolderStep(p[1], p[2]) PROVE Outbox!OutboxNext
  BY <1>0, <1>3, HolderImplements
<1>4. CASE ReapExpiredLeases
  <2>1. UNCHANGED <<content, cursor, watermark, receipts>>
    BY <1>4 DEF ReapExpiredLeases, rowVars
  <2> QED
    BY <1>0, <2>1, QuietStepRetires DEF Exists
<1>5. CASE SweepExpired
  BY <1>0, <1>5, SweepRetires, RetireImplements
<1>6. ASSUME NEW key, ForgetSource(key) PROVE Outbox!OutboxNext
  <2> DEFINE matched == {k \in Obs : Exists(k) /\ ForgetKey[k] = key}
  <2>1. Retire({}, matched \cap Unsettled, matched, {})
    BY <1>6 DEF ForgetSource
  <2> QED
    BY <1>0, <2>1, RetireImplements
<1>7. CASE RecoveryState
  <2>1. AdvanceWatermark(receipts') /\ UNCHANGED <<content, state, cursor, receipts>>
    BY <1>7 DEF RecoveryState, rowVars, deliveryVars, evidenceVars
  <2>2. Outbox!MovePosition
    BY <2>1, ScanMovesPosition
  <2>3. UNCHANGED <<LifeMap, AckedRows>>
    BY <2>1 DEF LifeMap, LifeOf, AckedRows, Exists, Acknowledged
  <2> QED
    BY <2>2, <2>3 DEF Outbox!Recover, Outbox!OutboxNext
<1>8. CASE Tick \/ UNCHANGED vars
  <2>1. UNCHANGED <<content, state, cursor, receipts, watermark>>
    BY <1>8 DEF Tick, vars, rowVars, deliveryVars, evidenceVars
  <2>2. UNCHANGED <<LifeMap, AckedRows, watermark>>
    BY <2>1 DEF LifeMap, LifeOf, AckedRows, Exists, Acknowledged
  <2> QED
    BY <2>2 DEF Outbox!outboxVars
<1> QED
  BY <1>1, <1>2, <1>3, <1>4, <1>5, <1>6, <1>7, <1>8 DEF Next

\* The journal keeps the outbox's promises, for every number of observations,
\* dispatchers and attempts: what leases, late answers, expiry, forgetting and
\* removal do to a row is admission in order, one closing, delivery only on an
\* acknowledgement, and a position that passes nothing unacknowledged.
THEOREM JournalImplementsOutbox == Spec => ImplementsOutbox
<1>1. Init => Outbox!OutboxInit
  <2> SUFFICES ASSUME Init
               PROVE  Outbox!OutboxInit
    OBVIOUS
  <2>1. \A k \in Obs : k > cursor
    BY Parameters DEF Init
  <2>2. LifeMap = [k \in Obs |-> "new"]
    BY <2>1 DEF LifeMap, LifeOf
  <2>3. AckedRows = {} /\ watermark = 0
    BY DEF Init, AckedRows, Exists
  <2> QED
    BY <2>2, <2>3 DEF Outbox!OutboxInit, Outbox!Observations, Obs
<1>2. Init => Replay
  BY Parameters DEF Init, Replay, WatermarkJustified, Exists
<1> QED
  BY InitCore, NextKeepsCore, InitCustody, NextKeepsCustody, NextKeepsReplay,
     StepsImplement, <1>1, <1>2, PTL DEF Spec, ImplementsOutbox, Outbox!OutboxSpec
=============================================================================
