-------------------- MODULE ObservationSettlementProofs --------------------
(***************************************************************************)
(* What a restart trusts, and what may happen to a delivery row in one     *)
(* transaction of any actor.  Replay trusts that the evidence of a         *)
(* standing row is never rewritten and that the acknowledged watermark     *)
(* passes no standing row without its acknowledgement.  A row changes      *)
(* state along the transition table only, a provider's word counts only    *)
(* from the attempt that owns the row, and a settled row has the receipt   *)
(* that justifies it.  All follow from the core invariant of               *)
(* ObservationDispatchProofs.                                              *)
(***************************************************************************)
EXTENDS ObservationDispatchProofs

\* What a step leaves of the evidence of the rows that stand on both sides.
EvidenceKept ==
    \A k \in Obs : Exists(k) /\ Exists(k)' =>
        /\ {r \in receipts : r.obs = k} \subseteq receipts'
        /\ attempt'[k] >= attempt[k]

\* How a step moves the watermark and the rows it ranges over: it moves
\* neither up, or it admits a row, or it scans a page of standing rows.
PositionStep ==
    \/ /\ UNCHANGED <<watermark, cursor>>
       /\ \A k \in Obs : Exists(k)' => Exists(k)
    \/ \E k \in Obs : AppendAdmitted(k)
    \/ UNCHANGED <<content, cursor>> /\ AdvanceWatermark(receipts')

\* A standing row's counter is a number, so leaving it alone keeps its order.
LEMMA AttemptIsNumber == Core => \A k \in Obs : attempt[k] \in Nat
BY DEF Core, TypeOK

-----------------------------------------------------------------------------
(* Evidence of a standing row is append-only.                              *)

\* A lease call adds receipts and counts upwards.
LEMMA LeaseKeepsEvidence ==
    ASSUME Core, LeasePending
    PROVE  EvidenceKept /\ PositionStep
<1>1. PICK expired, exhausted, batch :
        /\ expired \subseteq PastDeadline
        /\ exhausted \subseteq AttemptsConsumed \ expired
        /\ batch \subseteq Eligible \ (expired \cup exhausted)
        /\ LeaseRound(expired, exhausted, batch)
  BY LeasePendingRounds
<1>2. receipts \subseteq receipts' /\ UNCHANGED <<content, watermark, cursor>>
  BY <1>1 DEF LeaseRound, rowVars
<1>3. \A k \in expired \cup exhausted : k \in Obs /\ Exists(k)
  BY <1>1, StateFacts DEF PastDeadline, AttemptsConsumed, Core, RowShape, Exists
<1>4. \A k \in expired \cup exhausted : Slot(k) = attempt[k] + 1
  BY <1>3, SlotFresh
<1>5. \A k \in Obs : attempt'[k] = attempt[k] \/ attempt'[k] = attempt[k] + 1
  BY <1>1, <1>4 DEF LeaseRound, ConsumedAttempt
<1>6. \A k \in Obs : attempt'[k] >= attempt[k]
  BY <1>5, AttemptIsNumber
<1> QED
  BY <1>2, <1>6 DEF EvidenceKept, PositionStep, Exists

\* A dispatcher adds evidence, and changes no counter.
LEMMA HolderKeepsEvidence ==
    ASSUME Core, NEW p \in inflight, HolderStep(p[1], p[2])
    PROVE  EvidenceKept /\ PositionStep
<1> DEFINE k == p[1]
           a == p[2]
<1>1. ASSUME receipts \subseteq receipts', attempt' = attempt,
             UNCHANGED <<content, watermark, cursor>>
      PROVE  EvidenceKept /\ PositionStep
  BY <1>1, AttemptIsNumber DEF EvidenceKept, PositionStep, Exists
<1> HIDE DEF k, a
<1>2. CASE \E o \in ProviderOutcomes : RecordAttempt(k, a, o)
  <2>1. PICK o \in ProviderOutcomes : RecordAttempt(k, a, o)
    BY <1>2
  <2>2. PICK r \in StandingReceipt(k, a, o) :
          /\ receipts' = receipts \cup {r}
          /\ IF r.outcome \in AcknowledgingOutcomes
             THEN AdvanceWatermark(receipts') ELSE UNCHANGED watermark
          /\ IF HoldsLease(k, a) THEN SettleDelivery(k, r)
                                 ELSE UNCHANGED deliveryVars
    BY <2>1 DEF RecordAttempt
  <2>3. attempt' = attempt /\ UNCHANGED <<content, cursor>>
    BY <2>1, <2>2 DEF RecordAttempt, SettleDelivery, deliveryVars, rowVars
  <2>4. EvidenceKept
    BY <2>2, <2>3, AttemptIsNumber DEF EvidenceKept
  <2>5. PositionStep
    BY <2>2, <2>3 DEF PositionStep, Exists
  <2> QED
    BY <2>4, <2>5
<1>3. CASE RecordUnsettledAttempt(k, a) \/ RecordRefusedTerminalAttempt(k, a)
  BY <1>1, <1>3 DEF RecordUnsettledAttempt, RecordRefusedTerminalAttempt,
       RecordUnsettled, Unlease, rowVars
<1>4. CASE RecordAttemptRefusal(k, a) \/ DropItem(k, a)
  BY <1>1, <1>4 DEF RecordAttemptRefusal, DropItem, rowVars, deliveryVars, evidenceVars
<1>5. CASE ReleaseLease(k, a)
  BY <1>1, <1>5 DEF ReleaseLease, Unlease, rowVars, evidenceVars
<1> QED
  BY <1>2, <1>3, <1>4, <1>5 DEF HolderStep, k, a

\* Retiring rows takes away only the evidence of rows it removes.
LEMMA RetireKeepsEvidence ==
    ASSUME Core, NEW expired, NEW forgotten, NEW purged, NEW removed,
           expired \subseteq Unsettled, forgotten \subseteq Unsettled,
           purged \subseteq {k \in Obs : Exists(k)},
           Retire(expired, forgotten, purged, removed)
    PROVE  EvidenceKept /\ PositionStep
<1>1. \A k \in Obs : Exists(k)' => k \notin removed /\ Exists(k)
  BY DEF Retire, Exists
<1>2. UNCHANGED <<watermark, cursor>>
  BY DEF Retire
<1>3. \A k \in expired \cup forgotten : k \in Obs /\ Exists(k)
  BY StateFacts DEF Unsettled, Core, RowShape, Exists
<1>4. \A k \in expired \cup forgotten : Slot(k) = attempt[k] + 1
  BY <1>3, SlotFresh
<1>5. \A k \in Obs : k \notin removed =>
        attempt'[k] = attempt[k] \/ attempt'[k] = attempt[k] + 1
  BY <1>4 DEF Retire
<1>6. \A k \in Obs : k \notin removed => attempt'[k] >= attempt[k]
  BY <1>5, AttemptIsNumber
<1>7. \A r \in receipts : r.obs \notin removed => r \in receipts'
  BY DEF Retire
<1>8. EvidenceKept
  BY <1>1, <1>6, <1>7 DEF EvidenceKept
<1>9. PositionStep
  BY <1>1, <1>2 DEF PositionStep
<1> QED
  BY <1>8, <1>9

\* Every step keeps the evidence of standing rows and moves the position only
\* by admission or by a scan.
LEMMA StepsKeepEvidence == Core /\ [Next]_vars => EvidenceKept /\ PositionStep
<1> SUFFICES ASSUME Core, [Next]_vars
             PROVE  EvidenceKept /\ PositionStep
  OBVIOUS
<1>1. ASSUME NEW k \in Obs, AppendAdmitted(k) PROVE EvidenceKept /\ PositionStep
  <2>1. EvidenceKept
    BY <1>1, AttemptIsNumber DEF EvidenceKept, AppendAdmitted, evidenceVars
  <2> QED
    BY <1>1, <2>1 DEF PositionStep
<1>2. CASE LeasePending
  BY <1>2, LeaseKeepsEvidence
<1>3. ASSUME NEW p \in inflight, HolderStep(p[1], p[2])
      PROVE  EvidenceKept /\ PositionStep
  BY <1>3, HolderKeepsEvidence
<1>4. CASE ReapExpiredLeases
  BY <1>4, AttemptIsNumber DEF ReapExpiredLeases, rowVars, EvidenceKept,
       PositionStep, Exists
<1>5. CASE SweepExpired
  BY <1>5, SweepRetires, RetireKeepsEvidence
<1>6. ASSUME NEW key, ForgetSource(key) PROVE EvidenceKept /\ PositionStep
  <2> DEFINE matched == {k \in Obs : Exists(k) /\ ForgetKey[k] = key}
  <2>1. Retire({}, matched \cap Unsettled, matched, {})
    BY <1>6 DEF ForgetSource
  <2> QED
    BY <2>1, RetireKeepsEvidence
<1>7. CASE RecoveryState
  <2>1. /\ receipts' = receipts /\ attempt' = attempt
        /\ UNCHANGED <<content, cursor>>
        /\ AdvanceWatermark(receipts)
    BY <1>7 DEF RecoveryState, rowVars, deliveryVars, evidenceVars
  <2> QED
    BY <2>1, AttemptIsNumber DEF EvidenceKept, PositionStep
<1>8. CASE Tick \/ UNCHANGED vars
  BY <1>8, AttemptIsNumber DEF Tick, vars, rowVars, deliveryVars, evidenceVars,
       EvidenceKept, PositionStep, Exists
<1> QED
  BY <1>1, <1>2, <1>3, <1>4, <1>5, <1>6, <1>7, <1>8 DEF Next

\* While a row stands no step of any actor drops one of its receipts or sets
\* its attempt counter back: a late answer, a reap or a host settlement only
\* adds to what was recorded.
THEOREM EvidenceIsAppendOnly == Spec => EvidenceAppendOnly
<1>1. Core /\ [Next]_vars => [EvidenceKept]_vars
  BY StepsKeepEvidence
<1> QED
  BY InitCore, NextKeepsCore, <1>1, PTL DEF Spec, EvidenceAppendOnly, EvidenceKept

-----------------------------------------------------------------------------
(* The acknowledged watermark.                                             *)

\* The watermark is inductive together with a bound by the cursor: a row that
\* is admitted opens above the watermark.
Replay == WatermarkJustified /\ watermark =< cursor

\* A scan passes only acknowledged rows: its page leaves out no row below one
\* it takes.
LEMMA ScanIsJustified ==
    ASSUME NEW rs, watermark \in 0 .. N, AdvanceWatermark(rs),
           NEW k \in Obs, Exists(k), watermark < k, k =< watermark'
    PROVE  Acknowledged(k, rs)
<1> DEFINE Rows == {j \in Obs : Exists(j) /\ j > watermark}
<1>1. watermark' \in {watermark} \cup AcknowledgedPrefix(rs)
  BY DEF AdvanceWatermark
<1>2. watermark' # watermark
  BY Parameters
<1>3. PICK page \in Oldest(SourceSequence, Rows, ScanRows) :
        watermark' \in {m \in page : \A j \in page : j =< m => Acknowledged(j, rs)}
  BY <1>1, <1>2 DEF AcknowledgedPrefix
<1>4. page \subseteq Rows /\ \A j \in page, i \in Rows \ page : j =< i
  BY DEF Oldest, SourceSequence
<1>5. k \in Rows /\ watermark' \in page /\ k \in Int /\ watermark' \in Int
  BY <1>3, <1>4, Parameters
<1>6. k \in page
  BY <1>4, <1>5
<1> QED
  BY <1>3, <1>6

\* Acknowledgements of a standing row stay.
LEMMA AcknowledgementsStay ==
    ASSUME EvidenceKept, NEW k \in Obs, Exists(k), Exists(k)',
           Acknowledged(k, receipts)
    PROVE  Acknowledged(k, receipts')
BY DEF EvidenceKept, Acknowledged

\* Every step keeps the watermark justified and at or below the cursor.
LEMMA NextKeepsReplay == Core /\ Replay /\ [Next]_vars => Replay'
<1> SUFFICES ASSUME Core, Replay, EvidenceKept, PositionStep
             PROVE  Replay'
  BY StepsKeepEvidence
<1>1. watermark \in 0 .. N /\ watermark \in Int /\ cursor \in Int /\ Obs \subseteq Int
  BY Parameters DEF Core, TypeOK
<1>2. CASE /\ UNCHANGED <<watermark, cursor>>
           /\ \A k \in Obs : Exists(k)' => Exists(k)
  <2>1. \A k \in Obs : Exists(k)' /\ k =< watermark => Acknowledged(k, receipts')
    BY <1>2, AcknowledgementsStay DEF Replay, WatermarkJustified
  <2> QED
    BY <1>2, <2>1 DEF Replay, WatermarkJustified, Acknowledged
<1>3. ASSUME NEW k \in Obs, AppendAdmitted(k) PROVE Replay'
  <2>1. /\ cursor' = k /\ k > cursor
        /\ UNCHANGED <<watermark, receipts>>
        /\ \A j \in Obs : j # k /\ Exists(j)' => Exists(j)
    BY <1>3 DEF AppendAdmitted, Accepts, evidenceVars, Core, TypeOK, Exists
  <2>2. watermark < k
    BY <1>1, <2>1 DEF Replay
  <2>3. watermark' =< cursor'
    BY <1>1, <2>1, <2>2
  <2>4. \A j \in Obs : Exists(j)' /\ j =< watermark => Acknowledged(j, receipts)
    BY <1>1, <2>1, <2>2 DEF Replay, WatermarkJustified
  <2> QED
    BY <2>1, <2>3, <2>4 DEF Replay, WatermarkJustified, Acknowledged
<1>4. CASE UNCHANGED <<content, cursor>> /\ AdvanceWatermark(receipts')
  <2>1. watermark' =< cursor'
    BY <1>1, <1>4, WatermarkMoves, StandingBelowCursor DEF Replay
  <2>2. \A k \in Obs : Exists(k) /\ k =< watermark' => Acknowledged(k, receipts')
    <3> SUFFICES ASSUME NEW k \in Obs, Exists(k), k =< watermark'
                 PROVE  Acknowledged(k, receipts')
      OBVIOUS
    <3>1. CASE k =< watermark
      <4>1. Exists(k)'
        BY <1>4 DEF Exists
      <4> QED
        BY <3>1, <4>1, AcknowledgementsStay DEF Replay, WatermarkJustified
    <3>2. CASE watermark < k
      BY <1>1, <1>4, <3>2, ScanIsJustified
    <3> QED
      BY <1>1, <3>1, <3>2
  <2> QED
    BY <1>4, <2>1, <2>2 DEF Replay, WatermarkJustified, Acknowledged, Exists
<1> QED
  BY <1>2, <1>3, <1>4 DEF PositionStep

\* The replay position never claims a standing row whose provider did not
\* acknowledge it, in whatever order answers arrive and rows are removed.
THEOREM WatermarkIsJustified == Spec => []WatermarkJustified
<1>1. Init => Replay
  BY Parameters DEF Init, Replay, WatermarkJustified, Exists
<1>2. Replay => WatermarkJustified
  BY DEF Replay
<1> QED
  BY InitCore, NextKeepsCore, NextKeepsReplay, <1>1, <1>2, PTL DEF Spec

\* A restart never replays from below a position it already had: no answer,
\* removal or recovery moves the acknowledged watermark back.
THEOREM WatermarkNeverRetreats == Spec => WatermarkMonotone
<1>1. Core /\ [Next]_vars => [watermark' >= watermark]_vars
  <2> SUFFICES ASSUME Core, PositionStep
               PROVE  watermark' >= watermark
    BY StepsKeepEvidence
  <2>1. watermark \in Int
    BY DEF Core, TypeOK
  <2>2. ASSUME watermark' = watermark PROVE watermark' >= watermark
    BY <2>1, <2>2
  <2>3. CASE AdvanceWatermark(receipts')
    <3>1. watermark' = watermark \/ (watermark' \in Obs /\ watermark' > watermark)
      BY <2>3, WatermarkMoves
    <3>2. CASE watermark' \in Obs /\ watermark' > watermark
      <4>1. watermark' \in Int
        BY <3>2 DEF Obs
      <4> QED
        BY <2>1, <3>2, <4>1
    <3> QED
      BY <2>2, <3>1, <3>2
  <2> QED
    BY <2>2, <2>3 DEF PositionStep, AppendAdmitted
<1> QED
  BY InitCore, NextKeepsCore, <1>1, PTL DEF Spec, WatermarkMonotone

-----------------------------------------------------------------------------
(* The fate of a delivery row in one step.                                 *)

\* Receipt r is the one row k was settled on.
SettledOn(k, r) == /\ r.obs = k
                   /\ r.attempt = attempt[k]
                   /\ lastReceipt[k] = attempt[k]
                   /\ Justifies(r.outcome, state[k])

\* The fates of row k in one step.  It keeps its state, and what it was
\* settled on if it is settled:
Kept(k) == /\ state'[k] = state[k]
           /\ IsTerminal(state[k]) => /\ attempt'[k] = attempt[k]
                                      /\ lastReceipt'[k] = lastReceipt[k]

\* it is opened, or removed once settled:
Opened(k) == state[k] = NoRow /\ state'[k] = "pending"
Removed(k) == IsTerminal(state[k]) /\ state'[k] = NoRow

\* it is claimed, or its lease ends without an answer:
Moved(k) == \/ IsDeliverable(state[k]) /\ state'[k] = "leased"
            \/ state[k] = "leased" /\ state'[k] = "pending"

\* the host settles it:
HostSettled(k) == /\ state[k] \in UnsettledStates
                  /\ state'[k] \in {"expired", "exhausted", "forgotten"}
                  /\ \E r \in receipts' : SettledOn(k, r)'

\* or the dispatcher that holds its lease answers it.
OwnerAnswered(k) ==
    /\ state[k] = "leased"
    /\ <<k, attempt[k]>> \in inflight
    /\ attempt'[k] = attempt[k]
    /\ lastReceipt'[k] = attempt[k]
    /\ \E r \in receipts' : /\ r \in ReceiptRecords
                            /\ r.obs = k
                            /\ r.attempt = attempt[k]
                            /\ state'[k] = SettledState(r)

RowStep ==
    \A k \in Obs : \/ Kept(k) \/ Opened(k) \/ Removed(k)
                   \/ Moved(k) \/ HostSettled(k) \/ OwnerAnswered(k)

-----------------------------------------------------------------------------
(* Every transaction is a row step.                                        *)

\* A lease call claims rows, or settles them on receipts of its own.
LEMMA LeaseIsRowStep ==
    ASSUME Core, LeasePending
    PROVE  RowStep
<1> USE StateFacts
<1>1. PICK expired, exhausted, batch :
        /\ expired \subseteq PastDeadline
        /\ exhausted \subseteq AttemptsConsumed \ expired
        /\ batch \subseteq Eligible \ (expired \cup exhausted)
        /\ LeaseRound(expired, exhausted, batch)
  BY LeasePendingRounds
<1> SUFFICES ASSUME NEW k \in Obs
             PROVE  Kept(k) \/ Moved(k) \/ HostSettled(k)
  BY DEF RowStep
<1>2. CASE k \in expired
  <2> DEFINE r == [obs |-> k, attempt |-> Slot(k), outcome |-> "deadline_exceeded"]
  <2>1. r \in receipts'
    BY <1>1, <1>2 DEF LeaseRound, HostReceipts
  <2>2. state'[k] = "expired" /\ attempt'[k] = Slot(k) /\ lastReceipt'[k] = Slot(k)
    BY <1>1, <1>2 DEF LeaseRound
  <2>3. Justifies("deadline_exceeded", "expired")
    BY DEF Justifies
  <2>4. state[k] \in UnsettledStates
    BY <1>1, <1>2 DEF PastDeadline
  <2> QED
    BY <2>1, <2>2, <2>3, <2>4 DEF HostSettled, SettledOn
<1>3. CASE k \in exhausted
  <2> DEFINE r == [obs |-> k, attempt |-> Slot(k), outcome |-> "provider_unavailable"]
  <2>1. r \in receipts'
    BY <1>1, <1>3 DEF LeaseRound, HostReceipts
  <2>2. state'[k] = "exhausted" /\ attempt'[k] = Slot(k) /\ lastReceipt'[k] = Slot(k)
    <3>1. k \notin expired
      BY <1>1, <1>3
    <3> QED
      BY <1>1, <1>3, <3>1 DEF LeaseRound
  <2>3. Justifies("provider_unavailable", "exhausted")
    BY DEF Justifies, IsRetryable
  <2>4. state[k] \in UnsettledStates
    BY <1>1, <1>3 DEF AttemptsConsumed
  <2> QED
    BY <2>1, <2>2, <2>3, <2>4 DEF HostSettled, SettledOn
<1>4. CASE k \in batch
  <2>1. IsDeliverable(state[k]) /\ k \notin expired \cup exhausted
    BY <1>1, <1>4 DEF Eligible
  <2>2. state'[k] = "leased"
    BY <1>1, <1>4, <2>1 DEF LeaseRound
  <2> QED
    BY <2>1, <2>2 DEF Moved
<1>5. CASE k \notin expired \cup exhausted \cup batch
  BY <1>1, <1>5 DEF LeaseRound, Kept
<1> QED
  BY <1>2, <1>3, <1>4, <1>5

\* A dispatcher changes the row whose lease it holds, and no other.
LEMMA HolderIsRowStep ==
    ASSUME Core, NEW p \in inflight, HolderStep(p[1], p[2])
    PROVE  RowStep
<1> DEFINE k == p[1]
           a == p[2]
<1>1. k \in Obs /\ a \in Nat \ {0} /\ <<k, a>> \in inflight
  BY DEF Core, TypeOK
<1>2. ASSUME UNCHANGED deliveryVars PROVE RowStep
  BY <1>2 DEF deliveryVars, RowStep, Kept
<1>3. ASSUME HoldsLease(k, a), state' = [state EXCEPT ![k] = "pending"],
             attempt' = attempt,
             \A j \in Obs \ {k} : lastReceipt'[j] = lastReceipt[j]
      PROVE  RowStep
  <2>1. Moved(k)
    BY <1>1, <1>3 DEF Moved, HoldsLease, Core, TypeOK
  <2>2. \A j \in Obs \ {k} : Kept(j)
    BY <1>3 DEF Kept, Core, TypeOK
  <2> QED
    BY <2>1, <2>2 DEF RowStep
<1> HIDE DEF k, a
<1>4. CASE \E o \in ProviderOutcomes : RecordAttempt(k, a, o)
  <2>1. PICK o \in ProviderOutcomes : RecordAttempt(k, a, o)
    BY <1>4
  <2>2. PICK r \in StandingReceipt(k, a, o) :
          /\ receipts' = receipts \cup {r}
          /\ IF HoldsLease(k, a) THEN SettleDelivery(k, r)
                                 ELSE UNCHANGED deliveryVars
    BY <2>1 DEF RecordAttempt
  <2>3. r \in ReceiptRecords /\ r.obs = k /\ r.attempt = a
    BY <1>1, <2>1, StandingReceiptFacts, PolicyAssumption
  <2>4. CASE HoldsLease(k, a)
    <3>1. /\ state' = [state EXCEPT ![k] = SettledState(r)]
          /\ lastReceipt' = [lastReceipt EXCEPT ![k] = a]
          /\ attempt' = attempt
      BY <2>2, <2>3, <2>4 DEF SettleDelivery
    <3>2. OwnerAnswered(k)
      BY <1>1, <2>2, <2>3, <2>4, <3>1 DEF OwnerAnswered, HoldsLease, Core, TypeOK
    <3>3. \A j \in Obs \ {k} : Kept(j)
      BY <3>1 DEF Kept, Core, TypeOK
    <3> QED
      BY <3>2, <3>3 DEF RowStep
  <2>5. CASE ~HoldsLease(k, a)
    BY <1>2, <2>2, <2>5
  <2> QED
    BY <2>4, <2>5
<1>5. CASE RecordUnsettledAttempt(k, a) \/ RecordRefusedTerminalAttempt(k, a)
  <2>1. /\ HoldsLease(k, a) /\ attempt' = attempt
        /\ state' = [state EXCEPT ![k] = "pending"]
        /\ lastReceipt' = [lastReceipt EXCEPT ![k] = a]
    BY <1>5 DEF RecordUnsettledAttempt, RecordRefusedTerminalAttempt,
         RecordUnsettled, Unlease
  <2>2. \A j \in Obs \ {k} : lastReceipt'[j] = lastReceipt[j]
    BY <2>1 DEF Core, TypeOK
  <2> QED
    BY <1>3, <2>1, <2>2
<1>6. CASE RecordAttemptRefusal(k, a) \/ DropItem(k, a)
  BY <1>2, <1>6 DEF RecordAttemptRefusal, DropItem
<1>7. CASE ReleaseLease(k, a)
  BY <1>3, <1>7 DEF ReleaseLease, Unlease
<1> QED
  BY <1>4, <1>5, <1>6, <1>7 DEF HolderStep, k, a

\* A reap takes leases back and touches nothing else.
LEMMA ReapIsRowStep ==
    ASSUME Core, ReapExpiredLeases
    PROVE  RowStep
<1>1. PICK lapsed \in Oldest(leaseExpires, LapsedLeases, ReapBudget) :
        state' = [k \in Obs |-> IF k \in lapsed THEN "pending" ELSE state[k]]
  BY DEF ReapExpiredLeases
<1>2. \A k \in lapsed : state[k] = "leased"
  BY OldestSubset DEF LapsedLeases
<1>3. UNCHANGED <<attempt, lastReceipt>>
  BY DEF ReapExpiredLeases
<1>4. \A k \in lapsed : k \in Obs => Moved(k)
  BY <1>1, <1>2 DEF Moved
<1>5. \A k \in Obs \ lapsed : Kept(k)
  BY <1>1, <1>3 DEF Kept
<1> QED
  BY <1>4, <1>5 DEF RowStep

\* Retiring settles rows on receipts of its own and removes settled rows only:
\* a row whose content is purged is settled already, so the sweep's phase for
\* stranded rows never has to settle what it then removes.
LEMMA RetireIsRowStep ==
    ASSUME Core, Custody, NEW expired, NEW forgotten, NEW purged, NEW removed,
           expired \subseteq Unsettled, forgotten \subseteq Unsettled,
           expired \cap forgotten = {},
           removed \subseteq {k \in Obs : content[k] = "purged"},
           Retire(expired, forgotten, purged, removed)
    PROVE  RowStep
<1> USE StateFacts
<1> SUFFICES ASSUME NEW k \in Obs
             PROVE  Kept(k) \/ Removed(k) \/ HostSettled(k)
  BY DEF RowStep
<1>1. CASE k \in removed
  <2>1. IsTerminal(state[k])
    BY <1>1 DEF Custody, NothingUndeliverable
  <2>2. state'[k] = NoRow
    BY <1>1 DEF Retire
  <2> QED
    BY <2>1, <2>2 DEF Removed
<1>2. CASE k \notin removed /\ k \in expired
  <2> DEFINE r == [obs |-> k, attempt |-> Slot(k), outcome |-> "deadline_exceeded"]
  <2>1. r \in receipts'
    <3>1. r \in HostReceipts(expired, "deadline_exceeded") /\ r.obs \notin removed
      BY <1>2 DEF HostReceipts
    <3> HIDE DEF r
    <3> QED
      BY <3>1 DEF Retire
  <2>2. state'[k] = "expired" /\ attempt'[k] = Slot(k) /\ lastReceipt'[k] = Slot(k)
    BY <1>2 DEF Retire
  <2>3. Justifies("deadline_exceeded", "expired")
    BY DEF Justifies
  <2>4. state[k] \in UnsettledStates
    BY <1>2 DEF Unsettled
  <2> QED
    BY <2>1, <2>2, <2>3, <2>4 DEF HostSettled, SettledOn
<1>3. CASE k \notin removed /\ k \in forgotten
  <2> DEFINE r == [obs |-> k, attempt |-> Slot(k), outcome |-> "cancelled"]
  <2>1. r \in receipts'
    <3>1. r \in HostReceipts(forgotten, "cancelled") /\ r.obs \notin removed
      BY <1>3 DEF HostReceipts
    <3> HIDE DEF r
    <3> QED
      BY <3>1 DEF Retire
  <2>2. state'[k] = "forgotten" /\ attempt'[k] = Slot(k) /\ lastReceipt'[k] = Slot(k)
    <3>1. k \notin expired
      BY <1>3
    <3> QED
      BY <1>3, <3>1 DEF Retire
  <2>3. Justifies("cancelled", "forgotten")
    BY DEF Justifies
  <2>4. state[k] \in UnsettledStates
    BY <1>3 DEF Unsettled
  <2> QED
    BY <2>1, <2>2, <2>3, <2>4 DEF HostSettled, SettledOn
<1>4. CASE k \notin removed \cup expired \cup forgotten
  BY <1>4 DEF Retire, Kept
<1> QED
  BY <1>1, <1>2, <1>3, <1>4

\* Every step of the journal gives each row one of its fates.
LEMMA StepsAreRowSteps == Core /\ Custody /\ [Next]_vars => RowStep
<1> SUFFICES ASSUME Core, Custody, [Next]_vars
             PROVE  RowStep
  OBVIOUS
<1>1. ASSUME NEW k \in Obs, AppendAdmitted(k) PROVE RowStep
  <2>1. /\ state' = [state EXCEPT ![k] = "pending"]
        /\ UNCHANGED <<attempt, lastReceipt>>
    BY <1>1 DEF AppendAdmitted
  <2>2. state[k] = NoRow
    BY <1>1 DEF AppendAdmitted, Accepts, Core, RowShape
  <2>3. Opened(k)
    BY <2>1, <2>2 DEF Opened, Core, TypeOK
  <2>4. \A j \in Obs \ {k} : Kept(j)
    BY <2>1 DEF Kept, Core, TypeOK
  <2> QED
    BY <2>3, <2>4 DEF RowStep
<1>2. CASE LeasePending
  BY <1>2, LeaseIsRowStep
<1>3. ASSUME NEW p \in inflight, HolderStep(p[1], p[2]) PROVE RowStep
  BY <1>3, HolderIsRowStep
<1>4. CASE ReapExpiredLeases
  BY <1>4, ReapIsRowStep
<1>5. CASE SweepExpired
  BY <1>5, SweepRetires, RetireIsRowStep
<1>6. ASSUME NEW key, ForgetSource(key) PROVE RowStep
  <2> DEFINE matched == {k \in Obs : Exists(k) /\ ForgetKey[k] = key}
  <2>1. Retire({}, matched \cap Unsettled, matched, {})
    BY <1>6 DEF ForgetSource
  <2> QED
    BY <2>1, RetireIsRowStep
<1>7. CASE RecoveryState \/ Tick \/ UNCHANGED vars
  BY <1>7 DEF RecoveryState, Tick, vars, deliveryVars, RowStep, Kept
<1> QED
  BY <1>1, <1>2, <1>3, <1>4, <1>5, <1>6, <1>7 DEF Next

-----------------------------------------------------------------------------
(* What follows of row steps.                                              *)

\* What a receipt of the owner makes of its row: a state of the table, and
\* one the receipt justifies if it is a settled one.
LEMMA AnswerJustifies ==
    ASSUME NEW r \in ReceiptRecords
    PROVE  /\ SettledState(r) \in DeliveryStates \ {"leased", "expired", "forgotten"}
           /\ IsTerminal(SettledState(r)) => Justifies(r.outcome, SettledState(r))
<1>1. r.outcome \in Outcomes
  BY DEF ReceiptRecords
<1>2. CASE IsRetryable(r.outcome) /\ r.attempt >= MaxAttempts
  BY <1>2 DEF SettledState, Justifies, DeliveryStates, SettledStates
<1>3. CASE ~(IsRetryable(r.outcome) /\ r.attempt >= MaxAttempts)
  <2>1. SettledState(r) = ImpliedState(r.outcome)
    BY <1>3 DEF SettledState
  <2>2. ImpliedState(r.outcome) \in {"acknowledged", "duplicate_acknowledged",
            "rejected", "pending", "cancelled", "effect_unknown"}
    BY <1>1 DEF Outcomes, AcknowledgingOutcomes, RejectingOutcomes, ImpliedState
  <2>3. ImpliedState(r.outcome) = "cancelled" => r.outcome = "cancelled"
    BY <1>1 DEF Outcomes, AcknowledgingOutcomes, RejectingOutcomes, ImpliedState
  <2> QED
    BY <2>1, <2>2, <2>3 DEF Justifies, IsTerminal, DeliveryStates,
         SettledStates, UnsettledStates
<1> QED
  BY <1>2, <1>3

\* A row that stays settled keeps the receipt it was settled on.
LEMMA KeptStaysProven ==
    ASSUME Core, Core', EvidenceKept, NEW k \in Obs, Kept(k),
           IsTerminal(state[k]), \E r \in receipts : SettledOn(k, r)
    PROVE  \E r \in receipts' : SettledOn(k, r)'
<1>1. PICK r \in receipts : SettledOn(k, r)
  OBVIOUS
<1>2. state[k] # NoRow /\ state'[k] # NoRow
  BY StateFacts DEF Kept, IsTerminal
<1>3. Exists(k) /\ Exists(k)'
  BY <1>2 DEF Core, RowShape, Exists
<1>4. r \in receipts'
  BY <1>1, <1>3 DEF EvidenceKept, SettledOn
<1>5. SettledOn(k, r)'
  BY <1>1 DEF SettledOn, Kept
<1> QED
  BY <1>4, <1>5

\* Each step leaves every settled row with its evidence.
LEMMA NextKeepsSettlement ==
    Core /\ Core' /\ Custody /\ SettledHasEvidence /\ [Next]_vars => SettledHasEvidence'
<1> SUFFICES ASSUME Core, Core', SettledHasEvidence, EvidenceKept, RowStep
             PROVE  SettledHasEvidence'
  BY StepsKeepEvidence, StepsAreRowSteps
<1> SUFFICES ASSUME NEW k \in Obs, IsTerminal(state'[k])
             PROVE  \E r \in receipts' : SettledOn(k, r)'
  BY DEF SettledHasEvidence, SettledOn
<1>1. CASE Kept(k)
  <2>1. IsTerminal(state[k]) /\ \E r \in receipts : SettledOn(k, r)
    BY <1>1 DEF Kept, SettledHasEvidence, SettledOn
  <2> QED
    BY <1>1, <2>1, KeptStaysProven
<1>2. CASE Opened(k) \/ Removed(k) \/ Moved(k)
  BY <1>2, StateFacts DEF Opened, Removed, Moved, IsTerminal
<1>3. CASE HostSettled(k)
  BY <1>3 DEF HostSettled
<1>4. CASE OwnerAnswered(k)
  <2>1. PICK r \in receipts' : /\ r \in ReceiptRecords
                               /\ r.obs = k
                               /\ r.attempt = attempt[k]
                               /\ state'[k] = SettledState(r)
    BY <1>4 DEF OwnerAnswered
  <2>2. Justifies(r.outcome, state'[k])
    BY <2>1, AnswerJustifies
  <2> QED
    BY <1>4, <2>1, <2>2 DEF OwnerAnswered, SettledOn
<1> QED
  BY <1>1, <1>2, <1>3, <1>4 DEF RowStep

\* Nothing settles without proof: whoever settles a row, and whatever stale
\* dispatchers recorded before or record after, the receipt of its final
\* attempt stands and gives the reason for its state.
THEOREM SettledRowsAreProven == Spec => []SettledHasEvidence
<1>1. Init => SettledHasEvidence
  BY StateFacts DEF Init, SettledHasEvidence, IsTerminal
<1> QED
  BY InitCore, NextKeepsCore, InitCustody, NextKeepsCustody, NextKeepsSettlement,
     <1>1, PTL DEF Spec

\* A row changes state only along DeliveryStateV1::can_transition_to; in
\* particular a late or repeated answer reopens no settled row.
THEOREM TransitionsObeyTable == Spec => StateChangesObeyTable
<1> DEFINE Legal == \A k \in Obs : state'[k] # state[k] =>
          \/ CanTransitionTo(state[k], state'[k])
          \/ state[k] = NoRow /\ state'[k] = "pending"
          \/ IsTerminal(state[k]) /\ state'[k] = NoRow
<1>1. Core /\ Custody /\ [Next]_vars => [Legal]_vars
  <2> SUFFICES ASSUME RowStep, NEW k \in Obs, state'[k] # state[k]
               PROVE  \/ CanTransitionTo(state[k], state'[k])
                      \/ state[k] = NoRow /\ state'[k] = "pending"
                      \/ IsTerminal(state[k]) /\ state'[k] = NoRow
    BY StepsAreRowSteps
  <2>1. CASE Kept(k) \/ Opened(k) \/ Removed(k)
    BY <2>1 DEF Kept, Opened, Removed
  <2>2. CASE Moved(k)
    BY <2>2 DEF Moved, IsDeliverable, CanTransitionTo, DeliveryStates, UnsettledStates
  <2>3. CASE HostSettled(k)
    BY <2>3 DEF HostSettled, CanTransitionTo, DeliveryStates, UnsettledStates,
         SettledStates
  <2>4. CASE OwnerAnswered(k)
    BY <2>4, AnswerJustifies DEF OwnerAnswered, CanTransitionTo
  <2> QED
    BY <2>1, <2>2, <2>3, <2>4 DEF RowStep
<1> QED
  BY InitCore, NextKeepsCore, InitCustody, NextKeepsCustody, <1>1, PTL
     DEF Spec, StateChangesObeyTable

\* A dispatcher whose lease lapsed, was reaped or was claimed by another
\* settles nothing: a provider's word reaches the row only from the attempt
\* that owns it.
THEOREM SettlementNeedsTheLease == Spec => OnlyOwnerSettles
<1> DEFINE Owned == \A k \in Obs :
          state'[k] # state[k] /\ state'[k] \in {"acknowledged", "rejected",
                      "duplicate_acknowledged", "cancelled", "effect_unknown"} =>
              /\ state[k] = "leased"
              /\ lastReceipt'[k] = attempt[k]
              /\ <<k, attempt[k]>> \in inflight
<1>1. Core /\ Custody /\ [Next]_vars => [Owned]_vars
  <2> SUFFICES ASSUME RowStep, NEW k \in Obs, state'[k] # state[k],
                      state'[k] \in {"acknowledged", "rejected",
                          "duplicate_acknowledged", "cancelled", "effect_unknown"}
               PROVE  /\ state[k] = "leased"
                      /\ lastReceipt'[k] = attempt[k]
                      /\ <<k, attempt[k]>> \in inflight
    BY StepsAreRowSteps
  <2>1. OwnerAnswered(k)
    BY DEF RowStep, Kept, Opened, Removed, Moved, HostSettled, NoRow
  <2> QED
    BY <2>1 DEF OwnerAnswered
<1> QED
  BY InitCore, NextKeepsCore, InitCustody, NextKeepsCustody, <1>1, PTL
     DEF Spec, OnlyOwnerSettles
=============================================================================
