------------------------ MODULE DeliveryWorkerProofs ------------------------
(***************************************************************************)
(* What holds of the delivery worker for every journal, every number of    *)
(* rounds, proof attempts, instances and faults: it drives the journal     *)
(* through its transactions only, no lease is walked away from, late       *)
(* answers never settle, a cancelled instance stays cancelled, rows are    *)
(* claimed under the instance proved now, and the collapsed wake flag      *)
(* never strands a backlog.                                                *)
(***************************************************************************)
EXTENDS DeliveryWorker, ObservationDispatchProofs, FiniteSetTheorems,
        WellFoundedInduction

\* Where a batch is being worked.
Working == {"item", "delivering", "answered", "persist"}

\* The worker holds a batch only where it works one, and an item of it is at
\* hand wherever an answer is awaited or persisted.
BatchShape ==
    /\ pc \in Working \cup {"top", "proving", "parked", "drain", "claim", "reap",
                            "sweep", "stopped"}
    /\ batch \subseteq inflight
    /\ abandoned \subseteq inflight
    /\ pc \in Working \ {"item"} => batch # {}
    /\ pc \notin Working => batch = {}

\* What is to be persisted is a disposition or a provider's word, and never
\* the latter once the attempt's token was cancelled before the answer.
AnswerShape ==
    /\ pc = "answered" => answer.what \in AdapterAnswers \cup ProviderOutcomes
    /\ pc = "persist" => answer.what \in Dispositions \cup ProviderOutcomes
    /\ pc \in {"answered", "persist"} /\ answer.late => Cancelled
    /\ pc = "persist" /\ answer.late => answer.what \in {"release", "record_cancelled"}

Instances == [status : {"ready", "pending", "in_flight", "unavailable"},
              id : InstanceIds \cup {NoInstance},
              attempts : 0 .. MaxProofAttempts, due : BOOLEAN]

\* The instance once it is cancelled, and between the head of a round and its
\* claim.
InstanceShape ==
    /\ stopStep \in 0 .. 5
    /\ instance \in Instances
    /\ InstanceCancelled => instance.status = "unavailable"
    /\ pc = "claim" /\ ~Stopping => Ready /\ turnInstance = instance.id

\* The inductive invariant of the worker's control.
Control == Core /\ BatchShape /\ AnswerShape /\ InstanceShape

-----------------------------------------------------------------------------
(* Facts about the batch.                                                  *)

\* A non-empty batch has an item that comes first.
LEMMA CurrentIsHeld ==
    ASSUME Core, batch \subseteq inflight, batch # {}
    PROVE  Current \in batch
<1> DEFINE Firsts == {p[1] : p \in batch}
<1>1. Firsts \subseteq Nat /\ Firsts # {}
  <2>1. inflight \subseteq Obs \X (Nat \ {0})
    BY DEF Core, TypeOK
  <2>2. Obs \subseteq Nat
    BY Parameters
  <2>3. \A p \in batch : p[1] \in Nat
    BY <2>1, <2>2
  <2> QED
    BY <2>3
<1>2. PICK m \in Firsts : \A n \in Firsts : ~ (<<n, m>> \in OpToRel(<, Nat))
  <2> HIDE DEF Firsts
  <2> QED
    BY <1>1, NatLessThanWellFounded, WFMin
<1>3. \A n \in Firsts : m =< n
  <2> SUFFICES ASSUME NEW n \in Firsts
               PROVE  m =< n
    OBVIOUS
  <2>1. m \in Nat /\ n \in Nat
    BY <1>1
  <2>2. ~ (<<n, m>> \in OpToRel(<, Nat))
    BY <1>2
  <2> HIDE DEF Firsts
  <2> QED
    BY <2>1, <2>2 DEF OpToRel
<1>4. PICK p \in batch : p[1] = m
  BY <1>2
<1>5. \E q \in batch : \A r \in batch : q[1] =< r[1]
  BY <1>3, <1>4
<1> QED
  BY <1>5 DEF Current

\* What is persisted for an item is one of the journal's transactions on it.
LEMMA PersistIsHolderStep ==
    ASSUME NEW p \in inflight, NEW what \in Dispositions \cup ProviderOutcomes,
           Persist(p[1], p[2], what)
    PROVE  HolderStep(p[1], p[2]) \/ UNCHANGED vars
<1>1. CASE what = "release"
  <2>1. Release(p[1], p[2], Delay(p[2]))
    BY <1>1 DEF Persist
  <2> QED
    BY <2>1 DEF Release, HolderStep
<1>2. CASE what = "record_cancelled"
  BY <1>2 DEF Persist, HolderStep
<1>3. CASE what = "record_refused"
  BY <1>3 DEF Persist, HolderStep
<1>4. CASE what \notin {"release", "record_cancelled", "record_refused"}
  <2>1. RecordAttempt(p[1], p[2], what)
    BY <1>4 DEF Persist
  <2>2. what \in ProviderOutcomes
    BY <1>4 DEF Dispositions
  <2> QED
    BY <2>1, <2>2 DEF HolderStep
<1> QED
  BY <1>1, <1>2, <1>3, <1>4

\* A release of an item at hand likewise.
LEMMA ReleaseIsHolderStep ==
    ASSUME NEW p \in inflight, NEW delay, Release(p[1], p[2], delay)
    PROVE  HolderStep(p[1], p[2]) \/ UNCHANGED vars
BY DEF Release, HolderStep

\* Every step of the worker is at most one transaction of the journal.
LEMMA StepsDriveTheJournal == Control /\ [WorkerNext]_allVars => [Next]_vars
<1> SUFFICES ASSUME Control, [WorkerNext]_allVars
             PROVE  [Next]_vars
  OBVIOUS
<1>1. CASE IngestAppends
  BY <1>1 DEF IngestAppends, Next
<1>2. CASE IngestSignals \/ IngestFails \/ RetryFallsDue \/ Restart
  BY <1>2 DEF IngestSignals, IngestFails, RetryFallsDue, Restart
<1>3. CASE TopOfLoop \/ FinishProof \/ WaitForWork \/ JournalFails
  BY <1>3 DEF TopOfLoop, FinishProof, WaitForWork, JournalFails
<1>4. CASE DrainStops \/ DrainRound \/ BatchDone \/ StartDelivery \/ AdapterReturns
           \/ DecideDisposition
  BY <1>4 DEF DrainStops, DrainRound, BatchDone, StartDelivery, AdapterReturns,
              DecideDisposition
<1>5. CASE ClaimBatch
  BY <1>5 DEF ClaimBatch, Next
<1>6. CASE ReleaseUntried
  <2>1. Current \in inflight
    BY <1>6, CurrentIsHeld DEF ReleaseUntried, Control, BatchShape
  <2> QED
    BY <1>6, <2>1, ReleaseIsHolderStep DEF ReleaseUntried, Next
<1>7. CASE PersistAnswer
  <2>1. Current \in inflight
    BY <1>7, CurrentIsHeld DEF PersistAnswer, Control, BatchShape, Working
  <2>2. answer.what \in Dispositions \cup ProviderOutcomes
    BY <1>7 DEF PersistAnswer, Control, AnswerShape
  <2> QED
    BY <1>7, <2>1, <2>2, PersistIsHolderStep DEF PersistAnswer, Next
<1>8. CASE ReapTurn \/ SweepTurn
  BY <1>8 DEF ReapTurn, SweepTurn, Next
<1>9. CASE Stop
  BY <1>9 DEF Stop, RequestShutdown, ShutdownPass, Next
<1>10. CASE TimePasses
  BY <1>10 DEF TimePasses, Next
<1>11. CASE UNCHANGED allVars
  BY <1>11 DEF allVars
<1> QED
  BY <1>1, <1>2, <1>3, <1>4, <1>5, <1>6, <1>7, <1>8, <1>9, <1>10, <1>11
  DEF WorkerNext, WorkerStep, DrainStep

-----------------------------------------------------------------------------
(* The control invariant.                                                  *)

\* A claim adds what it leased to what dispatchers hold.
LEMMA LeaseAddsToInflight ==
    ASSUME LeasePending
    PROVE  inflight \subseteq inflight'
<1>1. PICK expired, exhausted, claimed : LeaseRound(expired, exhausted, claimed)
  BY LeasePendingRounds
<1> QED
  BY <1>1 DEF LeaseRound

\* Nothing the worker persists or releases drops an item.
LEMMA PersistKeepsInflight ==
    ASSUME NEW k, NEW a, NEW what, Persist(k, a, what)
    PROVE  UNCHANGED inflight
<1>1. CASE what = "release"
  <2>1. Release(k, a, Delay(a))
    BY <1>1 DEF Persist
  <2> QED
    BY <2>1 DEF Release, ReleaseLease, vars
<1>2. CASE what = "record_cancelled"
  BY <1>2 DEF Persist, RecordUnsettledAttempt, RecordUnsettled, vars
<1>3. CASE what = "record_refused"
  BY <1>3 DEF Persist, RecordRefusedTerminalAttempt, RecordUnsettled, vars
<1>4. CASE what \notin {"release", "record_cancelled", "record_refused"}
  <2>1. RecordAttempt(k, a, what)
    BY <1>4 DEF Persist
  <2> QED
    BY <2>1 DEF RecordAttempt
<1> QED
  BY <1>1, <1>2, <1>3, <1>4

\* The worker's items stay in flight until the process ends.
LEMMA InflightGrows == [WorkerNext]_allVars => inflight \subseteq inflight'
<1> SUFFICES ASSUME [WorkerNext]_allVars
             PROVE  inflight \subseteq inflight'
  OBVIOUS
<1>1. UNCHANGED vars => inflight \subseteq inflight'
  BY DEF vars
<1>2. CASE IngestAppends
  BY <1>2 DEF IngestAppends, AppendAdmitted
<1>3. CASE IngestSignals \/ IngestFails \/ RetryFallsDue \/ Restart
  BY <1>1, <1>3 DEF IngestSignals, IngestFails, RetryFallsDue, Restart
<1>4. CASE TopOfLoop \/ FinishProof \/ WaitForWork \/ JournalFails
  BY <1>1, <1>4 DEF TopOfLoop, FinishProof, WaitForWork, JournalFails
<1>5. CASE DrainStops \/ DrainRound \/ BatchDone \/ StartDelivery \/ AdapterReturns
           \/ DecideDisposition
  BY <1>1, <1>5 DEF DrainStops, DrainRound, BatchDone, StartDelivery,
                    AdapterReturns, DecideDisposition
<1>6. CASE ClaimBatch
  BY <1>1, <1>6, LeaseAddsToInflight DEF ClaimBatch
<1>7. CASE ReleaseUntried
  BY <1>1, <1>7 DEF ReleaseUntried, Release, ReleaseLease
<1>8. CASE PersistAnswer
  BY <1>8, PersistKeepsInflight DEF PersistAnswer
<1>9. CASE ReapTurn \/ ShutdownPass
  BY <1>1, <1>9 DEF ReapTurn, ShutdownPass, ReapExpiredLeases
<1>10. CASE SweepTurn
  BY <1>1, <1>10 DEF SweepTurn, SweepExpired, Retire
<1>11. CASE RequestShutdown
  BY <1>1, <1>11 DEF RequestShutdown
<1>12. CASE TimePasses
  BY <1>12 DEF TimePasses, Tick
<1>13. CASE UNCHANGED allVars
  BY <1>1, <1>13 DEF allVars
<1> QED
  BY <1>2, <1>3, <1>4, <1>5, <1>6, <1>7, <1>8, <1>9, <1>10, <1>11, <1>12, <1>13
  DEF WorkerNext, WorkerStep, DrainStep, Stop

\* Batches are taken up, worked off and abandoned where the control says.
LEMMA NextKeepsBatchShape ==
    ASSUME BatchShape, [WorkerNext]_allVars
    PROVE  BatchShape'
<1> USE InflightGrows DEF BatchShape, Working, Goto
<1>1. CASE IngestAppends \/ IngestSignals \/ IngestFails \/ RetryFallsDue
  BY <1>1 DEF IngestAppends, IngestSignals, IngestFails, RetryFallsDue
<1>2. CASE Restart
  BY <1>2 DEF Restart
<1>3. CASE TopOfLoop \/ FinishProof \/ WaitForWork
  BY <1>3 DEF TopOfLoop, FinishProof, WaitForWork
<1>4. CASE DrainStops \/ DrainRound \/ BatchDone
  BY <1>4 DEF DrainStops, DrainRound, BatchDone, StopDrain
<1>5. CASE StartDelivery \/ AdapterReturns \/ DecideDisposition
  BY <1>5 DEF StartDelivery, AdapterReturns, DecideDisposition
<1>6. CASE ClaimBatch
  BY <1>6 DEF ClaimBatch
<1>7. CASE ReleaseUntried
  BY <1>7 DEF ReleaseUntried
<1>8. CASE PersistAnswer
  BY <1>8 DEF PersistAnswer
<1>9. CASE JournalFails
  BY <1>9 DEF JournalFails
<1>10. CASE ReapTurn \/ SweepTurn
  BY <1>10 DEF ReapTurn, SweepTurn
<1>11. CASE Stop
  BY <1>11 DEF Stop
<1>12. CASE TimePasses
  BY <1>12 DEF TimePasses, workerVars
<1>13. CASE UNCHANGED allVars
  BY <1>13 DEF allVars, workerVars
<1> QED
  BY <1>1, <1>2, <1>3, <1>4, <1>5, <1>6, <1>7, <1>8, <1>9, <1>10, <1>11, <1>12,
     <1>13
  DEF WorkerNext, WorkerStep, DrainStep

\* What a disposition is, on the token as it is then.
LEMMA DispositionFacts ==
    ASSUME NEW what \in AdapterAnswers \cup ProviderOutcomes
    PROVE  /\ Disposition(what) \in Dispositions \cup ProviderOutcomes
           /\ Cancelled => Disposition(what) \in {"release", "record_cancelled"}
<1>1. CASE what \in {"error", "unanswered"}
  BY <1>1 DEF Disposition, Dispositions
<1>2. CASE what = "cancelled"
  BY <1>2 DEF Disposition, Dispositions
<1>3. CASE what = "refused"
  BY <1>3 DEF Disposition, Dispositions
<1>4. CASE what \notin AdapterAnswers
  BY <1>4 DEF Disposition, Dispositions, AdapterAnswers
<1> QED
  BY <1>1, <1>2, <1>3, <1>4 DEF AdapterAnswers

\* An answer is taken with the token it met, and decided on it.
LEMMA NextKeepsAnswerShape ==
    ASSUME InstanceShape, AnswerShape, [WorkerNext]_allVars
    PROVE  AnswerShape'
<1> USE DEF AnswerShape, Goto, Cancelled
<1>1. CASE IngestAppends \/ IngestSignals \/ IngestFails \/ RetryFallsDue
  BY <1>1 DEF IngestAppends, IngestSignals, IngestFails, RetryFallsDue
<1>2. CASE Restart
  BY <1>2 DEF Restart
<1>3. CASE TopOfLoop \/ FinishProof \/ WaitForWork
  BY <1>3 DEF TopOfLoop, FinishProof, WaitForWork
<1>4. CASE DrainStops \/ DrainRound \/ BatchDone \/ StartDelivery
  BY <1>4 DEF DrainStops, DrainRound, BatchDone, StartDelivery, StopDrain
<1>5. CASE AdapterReturns
  <2>1. PICK what \in AdapterAnswers \cup ProviderOutcomes :
          answer' = [what |-> what, late |-> Cancelled]
    BY <1>5 DEF AdapterReturns
  <2>2. pc' = "answered" /\ (Cancelled' <=> Cancelled)
    BY <1>5 DEF AdapterReturns
  <2> USE DEF AnswerShape
  <2> HIDE DEF Cancelled
  <2>3. answer'.what = what /\ (answer'.late <=> Cancelled)
    BY <2>1, Zenon
  <2> QED
    BY <2>2, <2>3
<1>6. CASE DecideDisposition
  <2>1. /\ pc = "answered" /\ pc' = "persist" /\ stopStep' = stopStep
        /\ answer' = [answer EXCEPT !.what = Disposition(@)]
    BY <1>6 DEF DecideDisposition
  <2>2. /\ Disposition(answer.what) \in Dispositions \cup ProviderOutcomes
        /\ Cancelled => Disposition(answer.what) \in {"release", "record_cancelled"}
    BY <2>1, DispositionFacts
  <2> QED
    BY <2>1, <2>2
<1>7. CASE ClaimBatch \/ ReleaseUntried
  BY <1>7 DEF ClaimBatch, ReleaseUntried
<1>8. CASE PersistAnswer \/ JournalFails
  BY <1>8 DEF PersistAnswer, JournalFails
<1>9. CASE ReapTurn \/ SweepTurn
  BY <1>9 DEF ReapTurn, SweepTurn
<1>10. CASE Stop
  BY <1>10 DEF Stop, RequestShutdown, ShutdownPass, InstanceShape
<1>11. CASE TimePasses
  BY <1>11 DEF TimePasses, workerVars
<1>12. CASE UNCHANGED allVars
  BY <1>12 DEF allVars, workerVars
<1> QED
  BY <1>1, <1>2, <1>3, <1>4, <1>5, <1>6, <1>7, <1>8, <1>9, <1>10, <1>11, <1>12
  DEF WorkerNext, WorkerStep, DrainStep

\* A proof's result is an instance, and leaves a cancelled one alone.
LEMMA ProofResultFacts ==
    ASSUME InstanceShape, NEW id \in InstanceIds, NEW result \in ProofResults(id)
    PROVE  /\ result \in Instances
           /\ InstanceCancelled => result.status = "unavailable"
<1>1. CASE instance.status # "in_flight"
  BY <1>1 DEF ProofResults, InstanceShape
<1>2. CASE instance.status = "in_flight" /\ Stopping
  BY <1>2 DEF ProofResults, InstanceShape, Instances
<1>3. CASE instance.status = "in_flight" /\ ~Stopping
  <2>1. ~InstanceCancelled
    BY <1>3 DEF InstanceShape
  <2>2. \/ result = [instance EXCEPT !.status = "ready", !.id = id]
        \/ result = [instance EXCEPT !.status = "unavailable"]
        \/ result = [instance EXCEPT !.status = "pending", !.due = FALSE]
    BY <1>3 DEF ProofResults
  <2> QED
    BY <2>1, <2>2 DEF InstanceShape, Instances
<1> QED
  BY <1>1, <1>2, <1>3

\* The instance is written by the proof, by refreshes and by shutdown, and a
\* cancelled one by none of them.
LEMMA NextKeepsInstanceShape ==
    ASSUME InstanceShape, [WorkerNext]_allVars
    PROVE  InstanceShape'
<1> USE DEF InstanceShape, Goto, Stopping, InstanceCancelled, Ready
<1>1. CASE IngestAppends \/ IngestSignals \/ IngestFails
  BY <1>1 DEF IngestAppends, IngestSignals, IngestFails
<1>2. CASE RetryFallsDue
  BY <1>2 DEF RetryFallsDue, Instances
<1>3. CASE Restart
  BY <1>3, WorkerAssumption DEF Restart, Mounted, Instances
<1>4. CASE TopOfLoop
  <2>1. pc' # "claim" /\ stopStep' = stopStep
    BY <1>4 DEF TopOfLoop
  <2>2. \/ instance' = instance
        \/ ~Stopping /\ instance' = [instance EXCEPT !.status = "unavailable"]
        \/ /\ ~Stopping /\ instance.attempts < MaxProofAttempts
           /\ instance' = [instance EXCEPT !.status = "in_flight", !.attempts = @ + 1]
    BY <1>4 DEF TopOfLoop
  <2>3. instance.attempts \in Nat /\ MaxProofAttempts \in Nat
    BY WorkerAssumption DEF Instances
  <2>4. instance' \in Instances
    <3>1. CASE instance' = instance \/ instance' = [instance EXCEPT !.status = "unavailable"]
      BY <3>1 DEF Instances
    <3>2. CASE /\ instance.attempts < MaxProofAttempts
               /\ instance' = [instance EXCEPT !.status = "in_flight", !.attempts = @ + 1]
      <4>1. instance.attempts + 1 \in 0 .. MaxProofAttempts
        BY <2>3, <3>2
      <4> QED
        BY <3>2, <4>1 DEF Instances
    <3> QED
      BY <2>2, <3>1, <3>2
  <2> QED
    BY <2>1, <2>2, <2>4
<1>5. CASE FinishProof
  <2>1. PICK id \in InstanceIds : \E result \in ProofResults(id) : instance' = result
    BY <1>5 DEF FinishProof
  <2>2. pc' # "claim" /\ stopStep' = stopStep
    BY <1>5 DEF FinishProof
  <2> QED
    BY <2>1, <2>2, ProofResultFacts
<1>6. CASE WaitForWork
  BY <1>6 DEF WaitForWork
<1>7. CASE DrainStops \/ BatchDone \/ StartDelivery \/ DecideDisposition
  BY <1>7 DEF DrainStops, BatchDone, StartDelivery, DecideDisposition, StopDrain
<1>8. CASE DrainRound
  BY <1>8 DEF DrainRound, ShouldContinue
<1>9. CASE AdapterReturns
  <2>1. instance' \in Instances /\ (InstanceCancelled => instance' = instance)
    BY <1>9 DEF AdapterReturns, RefreshedInstances, Instances
  <2> QED
    BY <1>9, <2>1 DEF AdapterReturns
<1>10. CASE ClaimBatch \/ ReleaseUntried \/ PersistAnswer \/ JournalFails
  BY <1>10 DEF ClaimBatch, ReleaseUntried, PersistAnswer, JournalFails
<1>11. CASE ReapTurn \/ SweepTurn
  BY <1>11 DEF ReapTurn, SweepTurn
<1>12. CASE Stop
  BY <1>12 DEF Stop, RequestShutdown, ShutdownPass, Instances
<1>13. CASE TimePasses
  BY <1>13 DEF TimePasses, workerVars
<1>14. CASE UNCHANGED allVars
  BY <1>14 DEF allVars, workerVars
<1> QED
  BY <1>1, <1>2, <1>3, <1>4, <1>5, <1>6, <1>7, <1>8, <1>9, <1>10, <1>11, <1>12,
     <1>13, <1>14
  DEF WorkerNext, WorkerStep, DrainStep

LEMMA InitControl == WorkerInit => Control
<1> SUFFICES ASSUME WorkerInit
             PROVE  Control
  OBVIOUS
<1>1. Core
  BY InitCore DEF WorkerInit
<1>2. BatchShape /\ AnswerShape
  BY DEF WorkerInit, BatchShape, AnswerShape, Working
<1>3. InstanceShape
  <2>1. Mounted \in Instances
    BY WorkerAssumption DEF Mounted, Instances
  <2>2. instance \in Instances
    BY <2>1 DEF WorkerInit, Instances
  <2>3. stopStep = 0 /\ pc = "top"
    BY DEF WorkerInit
  <2> QED
    BY <2>2, <2>3 DEF InstanceShape, InstanceCancelled
<1> QED
  BY <1>1, <1>2, <1>3 DEF Control

LEMMA NextKeepsControl == Control /\ [WorkerNext]_allVars => Control'
<1> SUFFICES ASSUME Control, [WorkerNext]_allVars
             PROVE  Control'
  OBVIOUS
<1>1. Core'
  BY StepsDriveTheJournal, NextKeepsCore DEF Control
<1>2. BatchShape' /\ AnswerShape' /\ InstanceShape'
  BY NextKeepsBatchShape, NextKeepsAnswerShape, NextKeepsInstanceShape DEF Control
<1> QED
  BY <1>1, <1>2 DEF Control

-----------------------------------------------------------------------------
(* What follows from the control invariant.                                *)

\* The worker drives the journal only through the journal's transactions, so
\* every theorem of the journal holds of the worker's journal.
THEOREM WorkerDrivesTheJournal == WorkerSpec => DrivesTheJournal
<1>1. WorkerInit => Init
  BY DEF WorkerInit
<1> QED
  BY <1>1, InitControl, NextKeepsControl, StepsDriveTheJournal, PTL
  DEF WorkerSpec, DrivesTheJournal, Spec

\* Shutdown's cancellation of the provider instance is final: no proof that
\* was in flight and no readiness refresh makes it ready again.
THEOREM CancelledInstancesStayDown == WorkerSpec => InstanceNotRevived
<1>1. Control /\ Control' /\ [WorkerNext]_allVars =>
        [InstanceCancelled /\ stopStep' >= 2 => instance'.status = "unavailable"]_allVars
  BY DEF Control, InstanceShape, InstanceCancelled
<1> QED
  BY <1>1, InitControl, NextKeepsControl, PTL DEF WorkerSpec, InstanceNotRevived

\* A row is claimed under the instance that is proved now, although the
\* request names the one of the turn's start.
THEOREM ClaimsNameTheProvedInstance == WorkerSpec => ClaimsUnderProvedInstance
<1>1. Control /\ [WorkerNext]_allVars =>
        [pc = "claim" /\ inflight' # inflight /\ ~Stopping =>
            Ready /\ turnInstance = instance.id]_allVars
  BY DEF Control, InstanceShape
<1> QED
  BY <1>1, InitControl, NextKeepsControl, PTL DEF WorkerSpec, ClaimsUnderProvedInstance

\* An answer that met a cancelled token settles nothing: whatever receipt its
\* persistence leaves says that shutdown cancelled the attempt.
THEOREM LateAnswersSettleNothing == WorkerSpec => LateAnswersNeverSettle
<1>1. ASSUME Control, [WorkerNext]_allVars, pc = "persist", answer.late
      PROVE  \A r \in receipts' \ receipts : r.outcome = "cancelled"
  <2>1. CASE PersistAnswer
    <3>1. answer.what \in {"release", "record_cancelled"}
      BY <1>1 DEF Control, AnswerShape
    <3>2. Persist(Current[1], Current[2], answer.what)
      BY <2>1 DEF PersistAnswer
    <3>3. CASE answer.what = "release"
      <4>1. Release(Current[1], Current[2], Delay(Current[2]))
        BY <3>2, <3>3 DEF Persist
      <4> QED
        BY <4>1 DEF Release, ReleaseLease, vars, evidenceVars
    <3>4. CASE answer.what = "record_cancelled"
      <4>1. RecordUnsettledAttempt(Current[1], Current[2]) \/ UNCHANGED vars
        BY <3>2, <3>4 DEF Persist
      <4> QED
        BY <4>1 DEF RecordUnsettledAttempt, RecordUnsettled, vars, evidenceVars
    <3> QED
      BY <3>1, <3>3, <3>4
  <2>2. CASE ~PersistAnswer
    <3>1. \/ \E k \in Obs : AppendAdmitted(k)
          \/ ReapExpiredLeases
          \/ Tick
          \/ UNCHANGED vars
      <4>1. CASE IngestAppends \/ IngestSignals \/ IngestFails
        BY <4>1 DEF IngestAppends, IngestSignals, IngestFails
      <4>2. CASE RetryFallsDue \/ Restart \/ TimePasses \/ UNCHANGED allVars
        BY <4>2 DEF RetryFallsDue, Restart, TimePasses, allVars
      <4>3. CASE Stop
        BY <4>3 DEF Stop, RequestShutdown, ShutdownPass
      <4>4. CASE WorkerStep
        BY <1>1, <2>2, <4>4 DEF WorkerStep, DrainStep, TopOfLoop, FinishProof,
           WaitForWork, DrainStops, DrainRound, ClaimBatch, BatchDone,
           ReleaseUntried, StartDelivery, AdapterReturns, DecideDisposition,
           JournalFails, ReapTurn, SweepTurn
      <4> QED
        BY <1>1, <4>1, <4>2, <4>3, <4>4 DEF WorkerNext
    <3> QED
      BY <3>1 DEF AppendAdmitted, ReapExpiredLeases, Tick, vars, evidenceVars
  <2> QED
    BY <2>1, <2>2
<1>2. Control /\ [WorkerNext]_allVars =>
        [pc = "persist" /\ answer.late =>
            \A r \in receipts' \ receipts : r.outcome = "cancelled"]_allVars
  BY <1>1
<1> QED
  BY <1>2, InitControl, NextKeepsControl, PTL DEF WorkerSpec, LateAnswersNeverSettle

-----------------------------------------------------------------------------
(* What the journal's transactions do to leased and to untried rows.       *)

\* A deliverable row no attempt was spent on.
Untried(k) == IsDeliverable(state[k]) /\ attempt[k] = 0

\* A step that leases nothing: leases at most end.
LeasesAtMostEnd ==
    \A k \in Obs : state'[k] = "leased" => state[k] = "leased" /\ attempt'[k] = attempt[k]

\* A step that makes no row untried and touches none that stays so.
UntriedAtMostLeave ==
    \A k \in Obs : Untried(k)' =>
        /\ Untried(k)
        /\ nextAttemptAt'[k] = nextAttemptAt[k]
        /\ content'[k] = "held" => content[k] = "held"

LEMMA UnchangedIsQuiet ==
    ASSUME UNCHANGED vars
    PROVE  LeasesAtMostEnd /\ UntriedAtMostLeave /\ now' = now
BY DEF vars, rowVars, deliveryVars, LeasesAtMostEnd, UntriedAtMostLeave, Untried

LEMMA TickIsQuiet ==
    ASSUME Tick
    PROVE  LeasesAtMostEnd /\ UntriedAtMostLeave /\ now' = now + 1
BY DEF Tick, rowVars, deliveryVars, LeasesAtMostEnd, UntriedAtMostLeave, Untried

LEMMA ReapIsQuiet ==
    ASSUME Core, ReapExpiredLeases
    PROVE  LeasesAtMostEnd /\ UntriedAtMostLeave /\ now' = now
<1>1. PICK lapsed \in Oldest(leaseExpires, LapsedLeases, ReapBudget) :
        /\ state' = [k \in Obs |-> IF k \in lapsed THEN "pending" ELSE state[k]]
        /\ UNCHANGED <<now, rowVars, attempt, nextAttemptAt>>
  BY DEF ReapExpiredLeases
<1>2. \A k \in lapsed : attempt[k] # 0
  BY OldestSubset DEF LapsedLeases, Core, RowShape
<1> QED
  BY <1>1, <1>2 DEF rowVars, LeasesAtMostEnd, UntriedAtMostLeave, Untried

LEMMA SweepIsQuiet ==
    ASSUME SweepExpired
    PROVE  LeasesAtMostEnd /\ UntriedAtMostLeave /\ now' = now
<1>1. PICK expired, forgotten, purged, removed :
        Retire(expired, forgotten, purged, removed)
  BY SweepRetires
<1> QED
  BY <1>1 DEF Retire, LeasesAtMostEnd, UntriedAtMostLeave, Untried, IsDeliverable, NoRow

\* Ending a lease under which an attempt was spent.
LEMMA UnleaseIsQuiet ==
    ASSUME Core, NEW k \in Obs, NEW a \in Nat \ {0}, HoldsLease(k, a),
           NEW retryAt, Unlease(k, retryAt), UNCHANGED <<now, content>>
    PROVE  /\ LeasesAtMostEnd /\ UntriedAtMostLeave /\ now' = now
           /\ state'[k] # "leased"
<1>1. state'[k] = "pending" /\ attempt'[k] = a
  BY DEF Unlease, HoldsLease, Core, TypeOK
<1>2. \A j \in Obs \ {k} : state'[j] = state[j] /\ attempt'[j] = attempt[j]
                           /\ nextAttemptAt'[j] = nextAttemptAt[j]
  BY DEF Unlease, Core, TypeOK
<1> QED
  BY <1>1, <1>2 DEF LeasesAtMostEnd, UntriedAtMostLeave, Untried

\* What a journal call for an item does: the item's lease is over after it.
ItemIsDone(k, a) ==
    /\ LeasesAtMostEnd /\ UntriedAtMostLeave /\ now' = now
    /\ state'[k] = "leased" => attempt[k] # a

LEMMA ReleaseEndsTheItem ==
    ASSUME Core, NEW k \in Obs, NEW a \in Nat \ {0}, NEW delay, Release(k, a, delay)
    PROVE  ItemIsDone(k, a)
<1>1. CASE HoldsLease(k, a)
  <2>1. PICK retryAt : Unlease(k, retryAt)
    BY <1>1 DEF Release, ReleaseLease
  <2>2. UNCHANGED <<now, content>>
    BY <1>1 DEF Release, ReleaseLease, rowVars
  <2> QED
    BY <1>1, <2>1, <2>2, UnleaseIsQuiet DEF ItemIsDone
<1>2. CASE ~HoldsLease(k, a)
  BY <1>2, UnchangedIsQuiet
  DEF Release, ItemIsDone, HoldsLease, vars, deliveryVars
<1> QED
  BY <1>1, <1>2

LEMMA AnswerEndsTheItem ==
    ASSUME Core, NEW k \in Obs, NEW a \in Nat \ {0}, NEW o \in Outcomes,
           RecordAttempt(k, a, o)
    PROVE  ItemIsDone(k, a)
<1>1. PICK r \in StandingReceipt(k, a, o) :
        IF HoldsLease(k, a) THEN SettleDelivery(k, r) ELSE UNCHANGED deliveryVars
  BY DEF RecordAttempt
<1>2. UNCHANGED <<now, content>>
  BY DEF RecordAttempt, rowVars
<1>3. CASE HoldsLease(k, a)
  <2>1. SettledState(r) # "leased"
    <3>1. r.outcome \in Outcomes
      BY StandingReceiptFacts DEF ReceiptRecords
    <3> QED
      BY <3>1, ImpliedStateType DEF SettledState
  <2>2. state'[k] # "leased" /\ attempt'[k] = a
    BY <1>1, <1>3, <2>1 DEF SettleDelivery, HoldsLease, Core, TypeOK
  <2>3. \A j \in Obs \ {k} : state'[j] = state[j] /\ attempt'[j] = attempt[j]
                             /\ nextAttemptAt'[j] = nextAttemptAt[j]
    BY <1>1, <1>3 DEF SettleDelivery, Core, TypeOK
  <2> QED
    BY <1>2, <2>2, <2>3 DEF ItemIsDone, LeasesAtMostEnd, UntriedAtMostLeave, Untried
<1>4. CASE ~HoldsLease(k, a)
  BY <1>1, <1>2, <1>4 DEF deliveryVars, HoldsLease, ItemIsDone, LeasesAtMostEnd,
     UntriedAtMostLeave, Untried
<1> QED
  BY <1>3, <1>4

LEMMA PersistEndsTheItem ==
    ASSUME Core, NEW k \in Obs, NEW a \in Nat \ {0},
           NEW what \in Dispositions \cup ProviderOutcomes, Persist(k, a, what)
    PROVE  ItemIsDone(k, a)
<1>1. CASE what = "release"
  BY <1>1, ReleaseEndsTheItem DEF Persist
<1>2. CASE what \in {"record_cancelled", "record_refused"}
  <2>1. CASE HoldsLease(k, a)
    <3>1. PICK o, retryAt : RecordUnsettled(k, a, o, retryAt)
      BY <1>2, <2>1 DEF Persist, RecordUnsettledAttempt, RecordRefusedTerminalAttempt
    <3> QED
      BY <2>1, <3>1, UnleaseIsQuiet DEF RecordUnsettled, rowVars, ItemIsDone
  <2>2. CASE ~HoldsLease(k, a)
    BY <1>2, <2>2, UnchangedIsQuiet
    DEF Persist, ItemIsDone, HoldsLease, vars, deliveryVars
  <2> QED
    BY <2>1, <2>2
<1>3. CASE what \notin {"release", "record_cancelled", "record_refused"}
  <2>1. RecordAttempt(k, a, what)
    BY <1>3 DEF Persist
  <2>2. what \in Outcomes
    BY <1>3, PolicyAssumption DEF Dispositions
  <2> QED
    BY <2>1, <2>2, AnswerEndsTheItem
<1> QED
  BY <1>1, <1>2, <1>3

\* A claim: what it leases is new in flight, one item a row, and only a claim
\* that finds no eligible row takes none.
LEMMA ClaimFacts ==
    ASSUME Core, LeasePending
    PROVE  /\ IsFiniteSet(inflight' \ inflight)
           /\ Cardinality(inflight' \ inflight) \in 0 .. N
           /\ \A k \in Obs : state'[k] = "leased" =>
                 \/ state[k] = "leased" /\ attempt'[k] = attempt[k]
                 \/ <<k, attempt'[k]>> \in inflight' \ inflight
           /\ UntriedAtMostLeave /\ now' = now
           /\ inflight' \ inflight = {} => Fresh' = {}
<1> USE Parameters, StateFacts
<1>1. PICK expired \in Oldest(SourceSequence, PastDeadline, MaxItems) :
        \E exhausted \in Oldest(SourceSequence, AttemptsConsumed \ expired, MaxItems) :
        \E claimed \in Batches(Eligible \ (expired \cup exhausted)) :
           LeaseRound(expired, exhausted, claimed)
  BY DEF LeasePending
<1>2. PICK exhausted \in Oldest(SourceSequence, AttemptsConsumed \ expired, MaxItems) :
        \E claimed \in Batches(Eligible \ (expired \cup exhausted)) :
           LeaseRound(expired, exhausted, claimed)
  BY <1>1
<1>3. PICK claimed \in Batches(Eligible \ (expired \cup exhausted)) :
           LeaseRound(expired, exhausted, claimed)
  BY <1>2
<1>4. claimed \subseteq Eligible \ (expired \cup exhausted)
  BY BatchSubset
<1>5. /\ \A k \in claimed : k \in Obs /\ Exists(k)
      /\ exhausted \cap expired = {}
  BY <1>4, OldestSubset DEF Eligible, Exists
<1> DEFINE New == {<<k, attempt[k] + 1>> : k \in claimed}
<1>6. inflight' \ inflight = New
  <2>1. inflight' = inflight \cup New
    BY <1>3 DEF LeaseRound, ConsumedAttempt
  <2>2. ASSUME NEW k \in claimed PROVE <<k, attempt[k] + 1>> \notin inflight
    <3>1. attempt[k] \in Nat
      BY <1>5 DEF Core, TypeOK
    <3>2. \A p \in inflight : p[1] = k => p[2] =< attempt[k]
      BY <1>5 DEF Core, AttemptsNeverReused
    <3> QED
      BY <3>1, <3>2
  <2> QED
    BY <2>1, <2>2
<1>7. IsFiniteSet(New) /\ Cardinality(New) \in 0 .. N
  <2> DEFINE f == [p \in New |-> p[1]]
  <2>1. f \in Injection(New, Obs)
    BY <1>5 DEF Injection, IsInjective
  <2>2. IsFiniteSet(Obs) /\ Cardinality(Obs) =< N
    <3>1. 1 \in Int /\ N \in Int
      OBVIOUS
    <3>2. IsFiniteSet(1 .. N) /\ Cardinality(1 .. N) = IF 1 > N THEN 0 ELSE N - 1 + 1
      BY <3>1, FS_Interval
    <3> QED
      BY <3>2 DEF Obs
  <2> HIDE DEF f, New
  <2>3. IsFiniteSet(New) /\ Cardinality(New) =< Cardinality(Obs)
    BY <2>1, <2>2, FS_Injection
  <2>4. Cardinality(New) \in Nat /\ Cardinality(Obs) \in Nat
    BY <2>2, <2>3, FS_CardinalityType
  <2> QED
    BY <2>2, <2>3, <2>4
<1>8. \A k \in Obs : state'[k] = "leased" =>
                 \/ state[k] = "leased" /\ attempt'[k] = attempt[k]
                 \/ <<k, attempt'[k]>> \in New
  <2> SUFFICES ASSUME NEW k \in Obs, state'[k] = "leased"
               PROVE  \/ state[k] = "leased" /\ attempt'[k] = attempt[k]
                      \/ <<k, attempt'[k]>> \in New
    OBVIOUS
  <2>1. k \notin expired \cup exhausted
    BY <1>3, <1>4, <1>5 DEF LeaseRound
  <2>2. CASE k \in claimed
    BY <1>3, <2>1, <2>2 DEF LeaseRound, ConsumedAttempt
  <2>3. CASE k \notin claimed
    BY <1>3, <2>1, <2>3 DEF LeaseRound
  <2> QED
    BY <2>2, <2>3
<1>9. UntriedAtMostLeave /\ now' = now
  <2>1. /\ UNCHANGED <<now, content, nextAttemptAt>>
        /\ \A k \in Obs : Untried(k)' => k \notin expired \cup exhausted \cup claimed
    BY <1>3 DEF LeaseRound, rowVars, Untried, IsDeliverable
  <2>2. \A k \in Obs : k \notin expired \cup exhausted \cup claimed =>
            state'[k] = state[k] /\ attempt'[k] = attempt[k]
    BY <1>3 DEF LeaseRound
  <2> QED
    BY <2>1, <2>2 DEF UntriedAtMostLeave, Untried
<1>10. ASSUME New = {}, NEW k \in Fresh' PROVE FALSE
  <2>1. claimed = {}
    BY <1>10
  <2>2. Eligible \ (expired \cup exhausted) = {}
    BY <1>3, <2>1, FS_EmptySet DEF Batches, Fits
  <2>3. k \in Obs /\ IsDeliverable(state'[k])
    BY <1>10 DEF Fresh, Eligible
  <2>4. k \notin expired \cup exhausted
    BY <1>3, <2>3 DEF LeaseRound, IsDeliverable
  <2>5. state'[k] = state[k]
    BY <1>3, <2>1, <2>3, <2>4 DEF LeaseRound
  <2>6. k \in Eligible
    BY <1>3, <1>10, <2>3, <2>5 DEF Fresh, Eligible, LeaseRound, rowVars
  <2> QED
    BY <2>2, <2>4, <2>6
<1> QED
  BY <1>6, <1>7, <1>8, <1>9, <1>10

-----------------------------------------------------------------------------
(* No lease is walked away from.                                           *)

LEMMA NextKeepsHolders ==
    ASSUME Control, LeasesHaveHolders, [WorkerNext]_allVars
    PROVE  LeasesHaveHolders'
<1>1. ASSUME LeasesAtMostEnd, batch \cup abandoned \subseteq batch' \cup abandoned'
      PROVE  LeasesHaveHolders'
  BY <1>1 DEF LeasesAtMostEnd, LeasesHaveHolders
<1>2. ASSUME UNCHANGED vars, batch \cup abandoned \subseteq batch' \cup abandoned'
      PROVE  LeasesHaveHolders'
  BY <1>1, <1>2, UnchangedIsQuiet
<1>3. ASSUME batch # {}, ItemIsDone(Current[1], Current[2]),
             batch' = batch \ {Current}, abandoned' = abandoned
      PROVE  LeasesHaveHolders'
  <2> SUFFICES ASSUME NEW k \in Obs, state'[k] = "leased"
               PROVE  <<k, attempt'[k]>> \in batch' \cup abandoned'
    BY DEF LeasesHaveHolders
  <2>1. state[k] = "leased" /\ attempt'[k] = attempt[k]
    BY <1>3 DEF ItemIsDone, LeasesAtMostEnd
  <2>2. <<k, attempt[k]>> \in batch \cup abandoned
    BY <2>1 DEF LeasesHaveHolders
  <2>3. <<k, attempt[k]>> # Current
    BY <1>3 DEF ItemIsDone
  <2> QED
    BY <1>3, <2>1, <2>2, <2>3
<1>4. ASSUME batch # {} PROVE Current[1] \in Obs /\ Current[2] \in Nat \ {0}
  BY <1>4, CurrentIsHeld DEF Control, BatchShape, Core, TypeOK
<1>5. CASE IngestAppends
  <2>1. PICK k \in Obs : AppendAdmitted(k)
    BY <1>5 DEF IngestAppends
  <2>2. LeasesAtMostEnd
    BY <2>1 DEF AppendAdmitted, LeasesAtMostEnd, Control, Core, TypeOK
  <2> QED
    BY <1>1, <1>5, <2>2 DEF IngestAppends
<1>6. CASE IngestSignals \/ IngestFails \/ RetryFallsDue \/ Restart
  BY <1>2, <1>6 DEF IngestSignals, IngestFails, RetryFallsDue, Restart
<1>7. CASE TopOfLoop \/ FinishProof \/ WaitForWork \/ JournalFails
  BY <1>2, <1>7 DEF TopOfLoop, FinishProof, WaitForWork, JournalFails
<1>8. CASE DrainStops \/ DrainRound \/ BatchDone \/ StartDelivery \/ AdapterReturns
           \/ DecideDisposition
  BY <1>2, <1>8 DEF DrainStops, DrainRound, BatchDone, StartDelivery,
                    AdapterReturns, DecideDisposition
<1>9. CASE ClaimBatch
  <2>1. CASE Cancelled
    BY <1>2, <1>9, <2>1 DEF ClaimBatch
  <2>2. CASE ~Cancelled
    <3>1. LeasePending /\ batch' = inflight' \ inflight /\ abandoned' = abandoned
      BY <1>9, <2>2 DEF ClaimBatch
    <3>2. batch = {}
      BY <1>9 DEF ClaimBatch, Control, BatchShape, Working
    <3>3. \A k \in Obs : state'[k] = "leased" =>
                 \/ state[k] = "leased" /\ attempt'[k] = attempt[k]
                 \/ <<k, attempt'[k]>> \in inflight' \ inflight
      BY <3>1, ClaimFacts DEF Control
    <3> QED
      BY <3>1, <3>2, <3>3 DEF LeasesHaveHolders
  <2> QED
    BY <2>1, <2>2
<1>10. CASE ReleaseUntried
  BY <1>3, <1>4, <1>10, ReleaseEndsTheItem DEF ReleaseUntried, Control
<1>11. CASE PersistAnswer
  <2>1. batch # {} /\ answer.what \in Dispositions \cup ProviderOutcomes
    BY <1>11 DEF PersistAnswer, Control, BatchShape, AnswerShape, Working
  <2> QED
    BY <1>3, <1>4, <1>11, <2>1, PersistEndsTheItem DEF PersistAnswer, Control
<1>12. CASE ReapTurn
  BY <1>1, <1>2, <1>12, ReapIsQuiet DEF ReapTurn, Control
<1>13. CASE SweepTurn
  BY <1>1, <1>2, <1>13, SweepIsQuiet DEF SweepTurn
<1>14. CASE Stop
  BY <1>1, <1>2, <1>14, ReapIsQuiet DEF Stop, RequestShutdown, ShutdownPass, Control
<1>15. CASE TimePasses
  BY <1>1, <1>15, TickIsQuiet DEF TimePasses, workerVars
<1>16. CASE UNCHANGED allVars
  BY <1>2, <1>16 DEF allVars, workerVars
<1> QED
  BY <1>5, <1>6, <1>7, <1>8, <1>9, <1>10, <1>11, <1>12, <1>13, <1>14, <1>15, <1>16
  DEF WorkerNext, WorkerStep, DrainStep

\* Every leased row is in the hands of the batch being worked, or was left by
\* a failed journal call or a dead process: no path of dispatch_batch drops a
\* lease it could have ended.
THEOREM LeasesAreHeld == WorkerSpec => []LeasesHaveHolders
<1>1. WorkerInit => LeasesHaveHolders
  BY DEF WorkerInit, Init, LeasesHaveHolders, NoRow
<1>2. Control /\ LeasesHaveHolders /\ [WorkerNext]_allVars => LeasesHaveHolders'
  BY NextKeepsHolders
<1> QED
  BY <1>1, <1>2, InitControl, NextKeepsControl, PTL DEF WorkerSpec

-----------------------------------------------------------------------------
(* The wake flag and the backlog.                                          *)

\* An untried row is due: it was admitted at the instant of its retry.
UntriedIsDue == \A k \in Obs : Untried(k) => nextAttemptAt[k] =< now

\* A batch was counted when it was leased.
BatchCounted == batch # {} => leased # 0

\* Where the worker has nothing more to claim in this turn: between drains,
\* and after a round that leased nothing.
Idle == pc \in {"top", "proving", "parked", "reap", "sweep"} \/ (pc = "item" /\ leased = 0)

\* No wake stands for a backlog and none was lost openly.
NoWakeStands == ~pending /\ ~unsignalled /\ ~edgeLost /\ ~Cancelled

\* The strengthening of NoBacklogWithoutWake: a worker does not first have to
\* park for its backlog to be empty.
IdleWithoutBacklog == Idle /\ NoWakeStands => Fresh = {}

Wake == UntriedIsDue /\ BatchCounted /\ IdleWithoutBacklog

\* Steps that make no row untried bring no backlog, even as time passes.
LEMMA QuietStepsAddNoBacklog ==
    ASSUME Control, UntriedIsDue, UntriedAtMostLeave, now' = now \/ now' = now + 1
    PROVE  UntriedIsDue' /\ (Fresh = {} => Fresh' = {})
<1>1. now \in Nat /\ \A k \in Obs : nextAttemptAt[k] \in Nat /\ Deadline[k] \in Nat
  BY SizesAssumption DEF Control, Core, TypeOK
<1>2. UntriedIsDue'
  BY <1>1 DEF UntriedIsDue, UntriedAtMostLeave
<1>3. ASSUME NEW k \in Fresh' PROVE k \in Fresh
  <2>1. k \in Obs /\ Untried(k)' /\ content'[k] = "held" /\ Deadline[k] > now'
    BY <1>3 DEF Fresh, Eligible, Untried
  <2>2. Untried(k) /\ content[k] = "held" /\ Deadline[k] > now /\ nextAttemptAt[k] =< now
    BY <1>1, <2>1 DEF UntriedAtMostLeave, UntriedIsDue
  <2> QED
    BY <2>1, <2>2 DEF Fresh, Eligible, Untried
<1> QED
  BY <1>2, <1>3

LEMMA NextKeepsWake ==
    ASSUME Control, Wake, [WorkerNext]_allVars
    PROVE  Wake'
<1> USE DEF Wake, Goto
<1>1. UNCHANGED vars => UntriedIsDue' /\ (Fresh = {} => Fresh' = {})
  BY UnchangedIsQuiet, QuietStepsAddNoBacklog
<1>2. ASSUME ReapExpiredLeases PROVE UntriedIsDue' /\ (Fresh = {} => Fresh' = {})
  BY <1>2, ReapIsQuiet, QuietStepsAddNoBacklog DEF Control
<1>3. CASE IngestAppends
  <2>1. PICK k \in Obs : AppendAdmitted(k)
    BY <1>3 DEF IngestAppends
  <2>2. UntriedIsDue'
    BY <2>1 DEF AppendAdmitted, UntriedIsDue, Untried, Control, Core, TypeOK
  <2> QED
    BY <1>3, <2>2 DEF IngestAppends, BatchCounted, IdleWithoutBacklog, NoWakeStands
<1>4. CASE IngestSignals \/ IngestFails
  BY <1>1, <1>4 DEF IngestSignals, IngestFails, BatchCounted, IdleWithoutBacklog,
     NoWakeStands
<1>5. CASE RetryFallsDue \/ TopOfLoop \/ FinishProof
  BY <1>1, <1>5 DEF RetryFallsDue, TopOfLoop, FinishProof, BatchCounted,
     IdleWithoutBacklog, NoWakeStands, Idle, Cancelled
<1>6. CASE Restart \/ JournalFails
  BY <1>1, <1>6 DEF Restart, JournalFails, BatchCounted, IdleWithoutBacklog,
     NoWakeStands
<1>7. CASE WaitForWork
  BY <1>1, <1>7 DEF WaitForWork, BatchCounted, IdleWithoutBacklog, NoWakeStands, Idle
<1>8. CASE DrainStops
  BY <1>1, <1>8 DEF DrainStops, StopDrain, BatchCounted, IdleWithoutBacklog,
     NoWakeStands, Cancelled
<1>9. CASE DrainRound \/ StartDelivery \/ AdapterReturns \/ DecideDisposition
  BY <1>1, <1>9 DEF DrainRound, StartDelivery, AdapterReturns, DecideDisposition,
     BatchCounted, IdleWithoutBacklog, Idle
<1>10. CASE ClaimBatch
  <2>1. CASE Cancelled
    <3>1. batch = {}
      BY <1>10 DEF ClaimBatch, Control, BatchShape, Working
    <3> QED
      BY <1>1, <1>10, <2>1, <3>1 DEF ClaimBatch, BatchCounted, IdleWithoutBacklog,
         NoWakeStands, Cancelled
  <2>2. CASE ~Cancelled
    <3>1. /\ LeasePending /\ batch' = inflight' \ inflight
          /\ leased' = Cardinality(batch') /\ pc' = "item"
      BY <1>10, <2>2 DEF ClaimBatch
    <3>2. IsFiniteSet(batch') /\ (batch' = {} => Fresh' = {})
      BY <3>1, ClaimFacts DEF Control
    <3>3. leased' = 0 <=> batch' = {}
      BY <3>1, <3>2, FS_EmptySet
    <3>4. UntriedIsDue'
      BY <3>1, ClaimFacts, QuietStepsAddNoBacklog DEF Control
    <3> QED
      BY <3>1, <3>2, <3>3, <3>4 DEF BatchCounted, IdleWithoutBacklog, Idle
  <2> QED
    BY <2>1, <2>2
<1>11. CASE BatchDone
  BY <1>1, <1>11 DEF BatchDone, RoundWasLast, StopDrain, BatchCounted,
     IdleWithoutBacklog, NoWakeStands, Idle, Cancelled
<1>12. ASSUME batch # {} PROVE Current[1] \in Obs /\ Current[2] \in Nat \ {0}
  BY <1>12, CurrentIsHeld DEF Control, BatchShape, Core, TypeOK
<1>13. CASE ReleaseUntried
  <2>1. ItemIsDone(Current[1], Current[2])
    BY <1>12, <1>13, ReleaseEndsTheItem DEF ReleaseUntried, Control
  <2>2. UntriedIsDue'
    BY <2>1, QuietStepsAddNoBacklog DEF ItemIsDone
  <2> QED
    BY <1>13, <2>2 DEF ReleaseUntried, BatchCounted, IdleWithoutBacklog,
       NoWakeStands, Cancelled
<1>14. CASE PersistAnswer
  <2>1. batch # {} /\ answer.what \in Dispositions \cup ProviderOutcomes
    BY <1>14 DEF PersistAnswer, Control, BatchShape, AnswerShape, Working
  <2>2. ItemIsDone(Current[1], Current[2])
    BY <1>12, <1>14, <2>1, PersistEndsTheItem DEF PersistAnswer, Control
  <2>3. UntriedIsDue'
    BY <2>2, QuietStepsAddNoBacklog DEF ItemIsDone
  <2> QED
    BY <1>14, <2>1, <2>3 DEF PersistAnswer, BatchCounted, IdleWithoutBacklog, Idle
<1>15. CASE ReapTurn
  BY <1>1, <1>2, <1>15 DEF ReapTurn, BatchCounted, IdleWithoutBacklog, NoWakeStands,
     Idle, Cancelled
<1>16. CASE SweepTurn
  <2>1. SweepExpired => UntriedIsDue' /\ (Fresh = {} => Fresh' = {})
    BY SweepIsQuiet, QuietStepsAddNoBacklog
  <2> QED
    BY <1>1, <1>16, <2>1 DEF SweepTurn, BatchCounted, IdleWithoutBacklog,
       NoWakeStands, Idle, Cancelled
<1>17. CASE Stop
  <2>1. UntriedIsDue' /\ (Fresh = {} => Fresh' = {})
    BY <1>1, <1>2, <1>17 DEF Stop, RequestShutdown, ShutdownPass
  <2>2. Cancelled => Cancelled'
    BY <1>17 DEF Stop, RequestShutdown, ShutdownPass, Cancelled
  <2> QED
    BY <1>17, <2>1, <2>2 DEF Stop, BatchCounted, IdleWithoutBacklog, NoWakeStands, Idle
<1>18. CASE TimePasses
  <2>1. UntriedIsDue' /\ (Fresh = {} => Fresh' = {})
    BY <1>18, TickIsQuiet, QuietStepsAddNoBacklog DEF TimePasses
  <2> QED
    BY <1>18, <2>1 DEF TimePasses, workerVars, BatchCounted, IdleWithoutBacklog,
       NoWakeStands, Idle, Cancelled
<1>19. CASE UNCHANGED allVars
  BY <1>1, <1>19 DEF allVars, workerVars, BatchCounted, IdleWithoutBacklog,
     NoWakeStands, Idle, Cancelled
<1> QED
  BY <1>3, <1>4, <1>5, <1>6, <1>7, <1>8, <1>9, <1>10, <1>11, <1>13, <1>14, <1>15,
     <1>16, <1>17, <1>18, <1>19
  DEF WorkerNext, WorkerStep, DrainStep

\* The collapsed wake flag never strands a backlog, whatever bound ends a
\* drain and whatever ingress does meanwhile: a worker parked with the flag
\* down has claimed every row whose append was signalled.
THEOREM NoBacklogIsStranded == WorkerSpec => []NoBacklogWithoutWake
<1>1. WorkerInit => Wake
  BY DEF WorkerInit, Init, Wake, UntriedIsDue, BatchCounted, IdleWithoutBacklog,
     Untried, Fresh, Eligible, IsDeliverable, NoRow
<1>2. Control /\ Wake /\ [WorkerNext]_allVars => Wake'
  BY NextKeepsWake
<1>3. Wake => NoBacklogWithoutWake
  BY DEF Wake, IdleWithoutBacklog, Idle, NoWakeStands, NoBacklogWithoutWake
<1> QED
  BY <1>1, <1>2, <1>3, InitControl, NextKeepsControl, PTL DEF WorkerSpec

-----------------------------------------------------------------------------
(* The type invariant.                                                     *)

Answers == [what : AdapterAnswers \cup Outcomes \cup Dispositions \cup {"none"},
            late : BOOLEAN]

\* The ranges of the flags and of what is remembered of a turn.
FlagsTyped ==
    /\ pending \in BOOLEAN
    /\ unsignalled \in BOOLEAN
    /\ edgeLost \in BOOLEAN
    /\ turnInstance \in InstanceIds \cup {NoInstance}
    /\ answer \in Answers

\* The ranges of the counters; a round is counted when it claims, and starts
\* only below the bound.
CountersTyped ==
    /\ rounds \in 0 .. MaxRounds
    /\ pc = "claim" => rounds < MaxRounds
    /\ leased \in 0 .. N
    /\ faults \in 0 .. MaxFaults

LEMMA NextKeepsFlagsTyped ==
    ASSUME Control, FlagsTyped, [WorkerNext]_allVars
    PROVE  FlagsTyped'
<1> USE DEF FlagsTyped, Goto
<1>1. NoAnswer \in Answers
  BY DEF NoAnswer, Answers
<1>2. CASE IngestAppends \/ IngestSignals \/ IngestFails \/ RetryFallsDue
  BY <1>2 DEF IngestAppends, IngestSignals, IngestFails, RetryFallsDue
<1>3. CASE Restart \/ JournalFails
  BY <1>1, <1>3 DEF Restart, JournalFails
<1>4. CASE TopOfLoop \/ FinishProof \/ DrainRound \/ StartDelivery
  BY <1>4 DEF TopOfLoop, FinishProof, DrainRound, StartDelivery
<1>5. CASE WaitForWork
  <2>1. instance.id \in InstanceIds \cup {NoInstance}
    BY DEF Control, InstanceShape, Instances
  <2> QED
    BY <1>5, <2>1 DEF WaitForWork
<1>6. CASE DrainStops \/ BatchDone
  BY <1>6 DEF DrainStops, BatchDone, StopDrain
<1>7. CASE ClaimBatch \/ ReleaseUntried
  BY <1>7 DEF ClaimBatch, ReleaseUntried
<1>8. CASE AdapterReturns
  <2>1. PICK what \in AdapterAnswers \cup ProviderOutcomes :
          answer' = [what |-> what, late |-> Cancelled]
    BY <1>8 DEF AdapterReturns
  <2>2. what \in AdapterAnswers \cup Outcomes
    BY PolicyAssumption
  <2>3. Cancelled \in BOOLEAN
    BY DEF Cancelled
  <2>4. answer' \in Answers
    BY <2>1, <2>2, <2>3, Zenon DEF Answers
  <2> QED
    BY <1>8, <2>4 DEF AdapterReturns
<1>9. CASE DecideDisposition
  <2>1. Disposition(answer.what) \in Dispositions \cup Outcomes
    BY <1>9, DispositionFacts, PolicyAssumption
    DEF DecideDisposition, Control, AnswerShape
  <2> QED
    BY <1>9, <2>1 DEF DecideDisposition, Answers
<1>10. CASE PersistAnswer
  BY <1>1, <1>10 DEF PersistAnswer
<1>11. CASE ReapTurn \/ SweepTurn
  BY <1>11 DEF ReapTurn, SweepTurn
<1>12. CASE Stop
  BY <1>12 DEF Stop
<1>13. CASE TimePasses
  BY <1>13 DEF TimePasses, workerVars
<1>14. CASE UNCHANGED allVars
  BY <1>14 DEF allVars, workerVars
<1> QED
  BY <1>2, <1>3, <1>4, <1>5, <1>6, <1>7, <1>8, <1>9, <1>10, <1>11, <1>12, <1>13,
     <1>14
  DEF WorkerNext, WorkerStep, DrainStep

LEMMA NextKeepsCountersTyped ==
    ASSUME Control, CountersTyped, [WorkerNext]_allVars
    PROVE  CountersTyped'
<1> USE WorkerAssumption, Parameters DEF CountersTyped, Goto
<1>1. CASE IngestAppends \/ IngestSignals \/ IngestFails \/ RetryFallsDue
  BY <1>1 DEF IngestAppends, IngestSignals, IngestFails, RetryFallsDue
<1>2. CASE Restart \/ JournalFails
  BY <1>2 DEF Restart, JournalFails
<1>3. CASE TopOfLoop \/ FinishProof \/ DrainRound \/ StartDelivery
  BY <1>3 DEF TopOfLoop, FinishProof, DrainRound, StartDelivery
<1>4. CASE WaitForWork \/ AdapterReturns \/ DecideDisposition
  BY <1>4 DEF WaitForWork, AdapterReturns, DecideDisposition
<1>5. CASE DrainStops \/ BatchDone
  BY <1>5 DEF DrainStops, BatchDone, StopDrain
<1>6. CASE ClaimBatch
  <2>1. leased' \in 0 .. N
    <3>1. CASE Cancelled
      BY <1>6, <3>1 DEF ClaimBatch
    <3>2. CASE ~Cancelled
      BY <1>6, <3>2, ClaimFacts DEF ClaimBatch, Control
    <3> QED
      BY <3>1, <3>2
  <2>2. rounds' = rounds + 1 /\ pc = "claim" /\ pc' = "item" /\ faults' = faults
    BY <1>6 DEF ClaimBatch
  <2> QED
    BY <2>1, <2>2
<1>7. CASE ReleaseUntried \/ PersistAnswer
  BY <1>7 DEF ReleaseUntried, PersistAnswer
<1>8. CASE ReapTurn \/ SweepTurn
  BY <1>8 DEF ReapTurn, SweepTurn
<1>9. CASE Stop
  BY <1>9 DEF Stop
<1>10. CASE TimePasses
  BY <1>10 DEF TimePasses, workerVars
<1>11. CASE UNCHANGED allVars
  BY <1>11 DEF allVars, workerVars
<1> QED
  BY <1>1, <1>2, <1>3, <1>4, <1>5, <1>6, <1>7, <1>8, <1>9, <1>10, <1>11
  DEF WorkerNext, WorkerStep, DrainStep

\* The worker's own variables keep their types; the rounds of a drain and the
\* items of a batch stay within their bounds.
THEOREM WorkerTypeCorrect == WorkerSpec => []WorkerTypeOK
<1>1. WorkerInit => FlagsTyped /\ CountersTyped
  <2> SUFFICES ASSUME WorkerInit
               PROVE  FlagsTyped /\ CountersTyped
    OBVIOUS
  <2>1. NoAnswer \in Answers
    BY DEF NoAnswer, Answers
  <2>2. FlagsTyped
    BY <2>1 DEF WorkerInit, FlagsTyped
  <2>3. rounds = 0 /\ leased = 0 /\ faults = 0 /\ pc = "top"
    BY DEF WorkerInit
  <2>4. CountersTyped
    BY <2>3, WorkerAssumption, Parameters DEF CountersTyped
  <2> QED
    BY <2>2, <2>4
<1>2. /\ Control /\ FlagsTyped /\ [WorkerNext]_allVars => FlagsTyped'
      /\ Control /\ CountersTyped /\ [WorkerNext]_allVars => CountersTyped'
  BY NextKeepsFlagsTyped, NextKeepsCountersTyped
<1>3. Control /\ FlagsTyped /\ CountersTyped => WorkerTypeOK
  BY DEF Control, FlagsTyped, CountersTyped, BatchShape, InstanceShape, Working,
     Instances, Answers, WorkerTypeOK
<1> QED
  BY <1>1, <1>2, <1>3, InitControl, NextKeepsControl, PTL DEF WorkerSpec

=============================================================================
