--------------------------- MODULE DeliveryWorker ---------------------------
(***************************************************************************)
(* The delivery worker of one mounted observation journey, composed with   *)
(* the journal it drives (ObservationDispatch): the thread that parks on   *)
(* the wake edge, proves which provider instance may receive rows, drains  *)
(* the journal in bounded rounds, and reaps and sweeps; the ingress that   *)
(* appends rows and raises the edge; and the shutdown that stops them.     *)
(*                                                                         *)
(* Every step of the worker is at most one transaction of the journal, so  *)
(* the journal's own specification is implemented (DrivesTheJournal).      *)
(* What the journal leaves to chance, which operation a dispatcher calls   *)
(* for an item and when, is here what dispatch_batch really decides.       *)
(*                                                                         *)
(* Source: crates/tracedecay-memory-observation/src/runtime/wake.rs,       *)
(* runtime/delivery.rs, runtime/ingress.rs and the worker thread of        *)
(* crates/tracedecay-daemon-service/src/retained_owner/                    *)
(* observation_journey.rs.                                                 *)
(***************************************************************************)
EXTENDS ObservationDispatch

CONSTANTS
    MaxRounds,          \* DrainBoundsV1::max_rounds
    MaxProofAttempts,   \* INSTANCE_PROOF_MAX_ATTEMPTS
    InstanceIds,        \* identities a provider instance may prove or refresh to
    MaxFaults           \* bound of the model: crashes and failing journal calls

ASSUME WorkerAssumption ==
    /\ {MaxRounds, MaxProofAttempts} \subseteq Nat \ {0}
    /\ MaxFaults \in Nat

NoInstance == "none"

VARIABLES
    pc,             \* where the worker thread is
    pending,        \* WakeStateV1::pending
    stopStep,       \* how far the journey's shutdown has come, see below
    instance,       \* ProviderInstanceAvailabilityV1
    turnInstance,   \* the instance the request of this turn leases under
    rounds,         \* DrainReportV1::rounds
    leased,         \* DeliveryBatchReportV1::leased of the round
    batch,          \* the leased items dispatch_batch has not dealt with
    answer,         \* what the adapter returned, then what is to be persisted
    unsignalled,    \* an ingress appended rows and has not signalled them
    edgeLost,       \* no wake stands for the backlog, see ExcusedBacklog
    abandoned,      \* items a failed journal call or a dead process left leased
    faults

workerVars == <<pc, pending, stopStep, instance, turnInstance, rounds, leased, batch,
                answer, unsignalled, edgeLost, abandoned, faults>>
allVars == <<vars, workerVars>>

\* ProjectObservationJourneyV1::shutdown and Drop: four writes in this order,
\* then the bounded pass of DeliveryRuntimeV1::shutdown.
Stopping == stopStep >= 1               \* the journey's token
InstanceCancelled == stopStep >= 2      \* ProviderInstanceStateV1::cancel
Cancelled == stopStep >= 3              \* the wake's cancellation token
ShutdownFlag == stopStep >= 4           \* WakeStateV1::shutdown

AdapterAnswers == {"error", "unanswered", "cancelled", "refused"}
Dispositions == {"release", "record_cancelled", "record_refused"}

Ready == instance.status = "ready"

\* Type invariant of the worker's own state.
WorkerTypeOK ==
    /\ pc \in {"top", "proving", "parked", "drain", "claim", "item",
               "delivering", "answered", "persist", "reap", "sweep", "stopped"}
    /\ pending \in BOOLEAN
    /\ stopStep \in 0 .. 5
    /\ instance \in [status : {"ready", "pending", "in_flight", "unavailable"},
                     id : InstanceIds \cup {NoInstance},
                     attempts : 0 .. MaxProofAttempts, due : BOOLEAN]
    /\ turnInstance \in InstanceIds \cup {NoInstance}
    /\ rounds \in 0 .. MaxRounds
    /\ leased \in 0 .. N
    /\ batch \subseteq inflight
    /\ answer \in [what : AdapterAnswers \cup Outcomes \cup Dispositions \cup {"none"},
                   late : BOOLEAN]
    /\ unsignalled \in BOOLEAN
    /\ edgeLost \in BOOLEAN
    /\ abandoned \subseteq inflight
    /\ faults \in 0 .. MaxFaults

NoAnswer == [what |-> "none", late |-> FALSE]

\* from_mount, with a proof to run; a mount without one starts "ready".
Mounted == [status |-> "pending", id |-> NoInstance, attempts |-> 0, due |-> TRUE]

WorkerInit ==
    /\ Init
    /\ pc = "top"
    /\ pending = FALSE
    /\ stopStep = 0
    /\ \/ instance = Mounted
       \/ \E id \in InstanceIds :
              instance = [Mounted EXCEPT !.status = "ready", !.id = id, !.due = FALSE]
    /\ turnInstance = NoInstance
    /\ rounds = 0
    /\ leased = 0
    /\ batch = {}
    /\ answer = NoAnswer
    /\ unsignalled = FALSE
    /\ edgeLost = FALSE
    /\ abandoned = {}
    /\ faults = 0

Goto(l) == pc' = l

-----------------------------------------------------------------------------
(* Ingress.                                                                *)

\* ingest: rows are appended one transaction at a time ...
IngestAppends ==
    /\ \E k \in Obs : AppendAdmitted(k)
    /\ unsignalled' = TRUE
    /\ UNCHANGED <<pc, pending, stopStep, instance, turnInstance, rounds,
                   leased, batch, answer, edgeLost, abandoned, faults>>

\* ... and signalled once, after the batch; a shed record signals as well.
IngestSignals ==
    /\ unsignalled \/ \E k \in Obs : Accepts(k) /\ ~QueueHasRoom(k)
    /\ pending' = TRUE
    /\ unsignalled' = FALSE
    /\ UNCHANGED <<vars, pc, stopStep, instance, turnInstance, rounds,
                   leased, batch, answer, edgeLost, abandoned, faults>>

\* A later record of the batch fails: ingest returns the error at once, and
\* what it had appended is never signalled.
IngestFails ==
    /\ unsignalled
    /\ unsignalled' = FALSE
    /\ edgeLost' = TRUE
    /\ UNCHANGED <<vars, pc, pending, stopStep, instance, turnInstance,
                   rounds, leased, batch, answer, abandoned, faults>>

-----------------------------------------------------------------------------
(* Proving the provider instance.                                          *)

\* take_proof_attempt: the top of the worker's loop.  A retry sequence ends by
\* its attempts or, between any two of them, by its lifetime.  A retry that is
\* not due is waited for (wait_until_retry_or_stop).
TopOfLoop ==
    /\ pc = "top"
    /\ IF Stopping THEN Goto("stopped") /\ UNCHANGED instance
       ELSE \/ /\ instance.status = "pending" /\ instance.due
               /\ instance.attempts < MaxProofAttempts
               /\ instance' = [instance EXCEPT !.status = "in_flight",
                                               !.attempts = @ + 1]
               /\ Goto("proving")
            \/ /\ instance.status = "pending" /\ instance.due
               /\ instance.attempts > 0
               /\ instance' = [instance EXCEPT !.status = "unavailable"]
               /\ Goto("parked")
            \/ /\ instance.status # "pending"
               /\ UNCHANGED instance
               /\ Goto("parked")
    /\ UNCHANGED <<vars, pending, stopStep, turnInstance, rounds, leased,
                   batch, answer, unsignalled, edgeLost, abandoned, faults>>

\* INSTANCE_PROOF_RETRY_BACKOFF elapses.
RetryFallsDue ==
    /\ instance.status = "pending" /\ ~instance.due
    /\ instance' = [instance EXCEPT !.due = TRUE]
    /\ UNCHANGED <<vars, pc, pending, stopStep, turnInstance, rounds, leased,
                   batch, answer, unsignalled, edgeLost, abandoned, faults>>

\* finish_proof: what a proof's result makes of the instance.  A lifecycle
\* transition that won the state lock first is never overwritten.
ProofResultsTrustingTheProof(id) ==
    {[instance EXCEPT !.status = "ready", !.id = id]}
ProofResults(id) ==
    IF instance.status # "in_flight" THEN {instance}
    ELSE IF Stopping THEN {[instance EXCEPT !.status = "unavailable"]}
    ELSE {[instance EXCEPT !.status = "ready", !.id = id],
          [instance EXCEPT !.status = "unavailable"]} \cup
         (IF instance.attempts < MaxProofAttempts
          THEN {[instance EXCEPT !.status = "pending", !.due = FALSE]} ELSE {})

FinishProof ==
    /\ pc = "proving"
    /\ \E id \in InstanceIds : \E result \in ProofResults(id) :
        /\ instance' = result
        /\ Goto(IF Stopping THEN "stopped" ELSE
                IF result.status = "pending" THEN "top" ELSE "parked")
    /\ UNCHANGED <<vars, pending, stopStep, turnInstance, rounds, leased,
                   batch, answer, unsignalled, edgeLost, abandoned, faults>>

-----------------------------------------------------------------------------
(* The wake edge.                                                          *)

\* Whether the park bound has elapsed is not modelled: it may, at any time.
ParkReturnsOnWorkAlone == pending
ParkReturns == TRUE

\* DeliveryWakeV1::wait, then the start of a turn.  Shutdown outranks work and
\* leaves the flag standing.  A turn without an instance drains nothing.
WaitForWork ==
    /\ pc = "parked"
    /\ ParkReturns
    /\ IF ShutdownFlag
       THEN Goto("stopped") /\ UNCHANGED <<pending, turnInstance, rounds, edgeLost>>
       ELSE /\ pending' = FALSE
            /\ IF Ready
               THEN /\ turnInstance' = instance.id
                    /\ rounds' = 0
                    /\ Goto("drain")
                    /\ UNCHANGED edgeLost
               ELSE /\ edgeLost' = TRUE
                    /\ Goto("reap")
                    /\ UNCHANGED <<turnInstance, rounds>>
    /\ UNCHANGED <<vars, stopStep, instance, leased, batch, answer,
                   unsignalled, abandoned, faults>>

-----------------------------------------------------------------------------
(* The drain.                                                              *)

\* The caller's should_continue: the lease identity is still the proved one.
ShouldContinueAlways == TRUE
ShouldContinue == Ready /\ instance.id = turnInstance

\* Leaving the drain.  Stops other than quiescence and shutdown re-arm the
\* wake.
StopDrain(rearm) ==
    /\ Goto("reap")
    /\ pending' = (pending \/ rearm)

\* The head of drain's loop, another round not starting.
DrainStops ==
    /\ pc = "drain"
    /\ \/ Cancelled /\ StopDrain(FALSE)         \* ShutdownRequested
       \/ /\ ~Cancelled
          /\ \/ ~ShouldContinue                 \* CallerYield
             \/ rounds >= MaxRounds             \* RoundBudgetReached
             \/ TRUE                            \* BudgetElapsed, at any time
          /\ StopDrain(TRUE)
    /\ UNCHANGED <<vars, stopStep, instance, turnInstance, rounds, leased,
                   batch, answer, unsignalled, edgeLost, abandoned, faults>>

DrainRoundOneMore ==
    /\ pc = "drain"
    /\ ~Cancelled
    /\ ShouldContinue
    /\ rounds =< MaxRounds
    /\ Goto("claim")
    /\ UNCHANGED <<vars, pending, stopStep, instance, turnInstance, rounds,
                   leased, batch, answer, unsignalled, edgeLost, abandoned,
                   faults>>
DrainRound ==
    /\ pc = "drain"
    /\ ~Cancelled
    /\ ShouldContinue
    /\ rounds < MaxRounds
    /\ Goto("claim")
    /\ UNCHANGED <<vars, pending, stopStep, instance, turnInstance, rounds,
                   leased, batch, answer, unsignalled, edgeLost, abandoned,
                   faults>>

\* dispatch_batch up to its loop: nothing is leased once the token is
\* cancelled.
ClaimBatch ==
    /\ pc = "claim"
    /\ rounds' = rounds + 1
    /\ IF Cancelled
       THEN leased' = 0 /\ UNCHANGED <<vars, batch, edgeLost>>
       ELSE /\ LeasePending
            /\ batch' = inflight' \ inflight
            /\ leased' = Cardinality(batch')
            /\ edgeLost' = FALSE
    /\ Goto("item")
    /\ UNCHANGED <<pending, stopStep, instance, turnInstance, answer,
                   unsignalled, abandoned, faults>>

\* The batch is worked in lease order, which is source order.
Current == CHOOSE p \in batch : \A q \in batch : p[1] =< q[1]

\* Which rounds end a drain as quiescent: those that leased no row at all.
RoundWasLastOnShortBatch == leased < MaxItems
RoundWasLast == leased = 0

BatchDone ==
    /\ pc = "item"
    /\ batch = {}
    /\ IF RoundWasLast THEN StopDrain(FALSE) ELSE Goto("drain") /\ UNCHANGED pending
    /\ UNCHANGED <<vars, stopStep, instance, turnInstance, rounds, leased,
                   batch, answer, unsignalled, edgeLost, abandoned, faults>>

\* release_lease at a delay of the caller's choosing; UnknownLease is the lost
\* race release answers false to.
ReleaseBlindly(k, a, delay) ==
    /\ Unlease(k, LeasedAt(k) + delay)
    /\ UNCHANGED <<now, rowVars, lastReceipt, evidenceVars, cursor,
                   watermark, inflight>>
Release(k, a, delay) ==
    IF HoldsLease(k, a)
    THEN /\ ReleaseLease(k, a)
         /\ nextAttemptAt'[k] = LeasedAt(k) + delay
    ELSE UNCHANGED vars

\* Between items: a cancelled token releases the item untried.
ReleaseUntried ==
    /\ pc = "item"
    /\ batch # {}
    /\ Cancelled
    /\ Release(Current[1], Current[2], 0)
    /\ batch' = batch \ {Current}
    /\ UNCHANGED <<pc, pending, stopStep, instance, turnInstance, rounds,
                   leased, answer, unsignalled, edgeLost, abandoned, faults>>

StartDelivery ==
    /\ pc = "item"
    /\ batch # {}
    /\ ~Cancelled
    /\ Goto("delivering")
    /\ UNCHANGED <<vars, pending, stopStep, instance, turnInstance, rounds,
                   leased, batch, answer, unsignalled, edgeLost, abandoned,
                   faults>>

\* The adapter returns.  Its readiness proof may have met another instance
\* (refresh_from_readiness), which only a ready, uncancelled state takes up.
RefreshedInstances ==
    IF Ready /\ ~Cancelled
    THEN {[instance EXCEPT !.id = id] : id \in InstanceIds} ELSE {instance}

AdapterReturns ==
    /\ pc = "delivering"
    /\ \E what \in AdapterAnswers \cup ProviderOutcomes :
           answer' = [what |-> what, late |-> Cancelled]
    /\ instance' \in RefreshedInstances
    /\ Goto("answered")
    /\ UNCHANGED <<vars, pending, stopStep, turnInstance, rounds, leased,
                   batch, unsignalled, edgeLost, abandoned, faults>>

\* What is persisted for an answer, on the token as it is then: shutdown owns
\* an attempt whose token is cancelled, and cancellation is believed only then.
DispositionTrustingTheAnswer(what) ==
    CASE what \in {"error", "unanswered"} -> "release"
      [] what = "cancelled" -> IF Cancelled THEN "record_cancelled" ELSE "release"
      [] what = "refused"   -> "record_refused"
      [] OTHER              -> what
Disposition(what) ==
    CASE what \in {"error", "unanswered"} -> "release"
      [] what = "cancelled" -> IF Cancelled THEN "record_cancelled" ELSE "release"
      [] what = "refused"   -> IF Cancelled THEN "record_cancelled" ELSE "record_refused"
      [] OTHER              -> IF Cancelled THEN "record_cancelled" ELSE what

DecideDisposition ==
    /\ pc = "answered"
    /\ answer' = [answer EXCEPT !.what = Disposition(@)]
    /\ Goto("persist")
    /\ UNCHANGED <<vars, pending, stopStep, instance, turnInstance, rounds,
                   leased, batch, unsignalled, edgeLost, abandoned, faults>>

\* The one journal call that follows.  LeaseLost answers change nothing but
\* record_attempt's, which keeps the late receipt.
PersistForgettingRelease(k, a, what) ==
    CASE what = "release"          -> UNCHANGED vars
      [] what = "record_cancelled" ->
            IF HoldsLease(k, a) THEN RecordUnsettledAttempt(k, a) ELSE UNCHANGED vars
      [] what = "record_refused"   ->
            IF HoldsLease(k, a) THEN RecordRefusedTerminalAttempt(k, a)
                                ELSE UNCHANGED vars
      [] OTHER                     -> RecordAttempt(k, a, what)
Persist(k, a, what) ==
    CASE what = "release"          -> Release(k, a, Delay(a))
      [] what = "record_cancelled" ->
            IF HoldsLease(k, a) THEN RecordUnsettledAttempt(k, a) ELSE UNCHANGED vars
      [] what = "record_refused"   ->
            IF HoldsLease(k, a) THEN RecordRefusedTerminalAttempt(k, a)
                                ELSE UNCHANGED vars
      [] OTHER                     -> RecordAttempt(k, a, what)

PersistAnswer ==
    /\ pc = "persist"
    /\ Persist(Current[1], Current[2], answer.what)
    /\ batch' = batch \ {Current}
    /\ answer' = NoAnswer
    /\ Goto("item")
    /\ UNCHANGED <<pending, stopStep, instance, turnInstance, rounds, leased,
                   unsignalled, edgeLost, abandoned, faults>>

\* A journal call fails: the error ends the drain, the rest of the batch stays
\* leased, and the worker goes on to its housekeeping without re-arming.
JournalFails ==
    /\ pc \in {"claim", "item", "persist"}
    /\ pc = "item" => batch # {} /\ Cancelled
    /\ faults < MaxFaults
    /\ faults' = faults + 1
    /\ abandoned' = abandoned \cup batch
    /\ batch' = {}
    /\ answer' = NoAnswer
    /\ edgeLost' = TRUE
    /\ Goto("reap")
    /\ UNCHANGED <<vars, pending, stopStep, instance, turnInstance, rounds,
                   leased, unsignalled>>

-----------------------------------------------------------------------------
(* Housekeeping, shutdown, crash.                                          *)

\* reap; a failure is logged and the turn goes on.
ReapTurn ==
    /\ pc = "reap"
    /\ ReapExpiredLeases \/ UNCHANGED vars
    /\ Goto("sweep")
    /\ UNCHANGED <<pending, stopStep, instance, turnInstance, rounds, leased,
                   batch, answer, unsignalled, edgeLost, abandoned, faults>>

\* sweeper.tick: not due, failed, or swept.
SweepTurn ==
    /\ pc = "sweep"
    /\ SweepExpired \/ UNCHANGED vars
    /\ Goto("top")
    /\ UNCHANGED <<pending, stopStep, instance, turnInstance, rounds, leased,
                   batch, answer, unsignalled, edgeLost, abandoned, faults>>

\* The writes of shutdown, one at a time.
RequestShutdown ==
    /\ stopStep \in 0 .. 3
    /\ stopStep' = stopStep + 1
    /\ instance' = IF stopStep = 1 THEN [instance EXCEPT !.status = "unavailable"]
                                   ELSE instance
    /\ UNCHANGED vars

\* The bounded pass after the worker was joined, or the deadline gave it up.
ShutdownPass ==
    /\ stopStep = 4
    /\ stopStep' = 5
    /\ ReapExpiredLeases \/ UNCHANGED vars
    /\ UNCHANGED instance

Stop ==
    /\ RequestShutdown \/ ShutdownPass
    /\ UNCHANGED <<pc, pending, turnInstance, rounds, leased, batch, answer,
                   unsignalled, edgeLost, abandoned, faults>>

\* The process dies and a later one mounts the journey again: the wake starts
\* unsignalled, and nobody holds the old process's items.
Restart ==
    /\ faults < MaxFaults
    /\ faults' = faults + 1
    /\ pc' = "top"
    /\ pending' = FALSE
    /\ stopStep' = 0
    /\ instance' = Mounted
    /\ turnInstance' = NoInstance
    /\ rounds' = 0
    /\ leased' = 0
    /\ abandoned' = abandoned \cup batch
    /\ batch' = {}
    /\ answer' = NoAnswer
    /\ unsignalled' = FALSE
    /\ edgeLost' = TRUE
    /\ UNCHANGED vars

TimePasses == Tick /\ UNCHANGED workerVars

-----------------------------------------------------------------------------
DrainStep ==
    \/ DrainStops \/ DrainRound \/ ClaimBatch \/ BatchDone \/ ReleaseUntried
    \/ StartDelivery \/ AdapterReturns \/ DecideDisposition \/ PersistAnswer

WorkerStep ==
    \/ TopOfLoop \/ FinishProof \/ WaitForWork \/ DrainStep \/ JournalFails
    \/ ReapTurn \/ SweepTurn

WorkerNext ==
    \/ IngestAppends \/ IngestSignals \/ IngestFails
    \/ RetryFallsDue
    \/ WorkerStep
    \/ Stop
    \/ Restart
    \/ TimePasses

WorkerSpec == WorkerInit /\ [][WorkerNext]_allVars

\* The worker thread keeps running: an adapter returns by the deadline of its
\* control, parks are bounded, and retries fall due.  A drain's wall budget is
\* not always spent before its first round.
ThreadFairness ==
    /\ WF_allVars(WorkerStep)
    /\ WF_allVars(RetryFallsDue)
    /\ SF_allVars(DrainRound)
    /\ WF_allVars(Stop /\ Stopping)

FairWorkerSpec == WorkerSpec /\ ThreadFairness

-----------------------------------------------------------------------------
(* Properties.                                                             *)

Fresh == {k \in Obs : k \in Eligible /\ attempt[k] = 0}

\* The collapsed wake flag never strands a backlog: a worker that is parked
\* with the flag down has leased every eligible row whose append was
\* signalled.  Excused are the turns that lost the edge openly: a failed
\* journal call or ingest, a turn without an instance, a restart, a shutdown.
NoBacklogWithoutWake ==
    pc = "parked" /\ ~pending /\ ~unsignalled /\ ~edgeLost /\ ~Cancelled
        => Fresh = {}

\* Every leased row is in the hands of a batch being worked, unless a failed
\* journal call or a dead process left it behind: no path of dispatch_batch
\* walks away from a lease it could have ended.
LeasesHaveHolders ==
    \A k \in Obs : state[k] = "leased" => <<k, attempt[k]>> \in batch \cup abandoned

\* An answer that arrives after shutdown cancelled its attempt is never taken
\* as the provider's word: it neither settles its row nor enters a receipt.
LateAnswersNeverSettle ==
    [][pc = "persist" /\ answer.late =>
          \A r \in receipts' \ receipts : r.outcome = "cancelled"]_allVars

\* Once shutdown has cancelled the instance nothing makes it ready again: not
\* a proof that was in flight, not a readiness refresh.
InstanceNotRevived ==
    [][InstanceCancelled /\ stopStep' >= 2 => instance'.status = "unavailable"]_allVars

\* Rows are claimed only under the instance that is proved now, although the
\* request was built at the start of the turn and deliveries in between may
\* have met another instance.
ClaimsUnderProvedInstance ==
    [][pc = "claim" /\ inflight' # inflight /\ ~Stopping =>
          Ready /\ turnInstance = instance.id]_allVars

\* The worker drives the journal only through its transactions.
DrivesTheJournal == Spec

\* A shutdown ends the worker thread, wherever it is.
ShutdownStopsWorker == Stopping ~> (pc = "stopped" \/ ~Stopping)

\* A lost edge costs a poll and never an observation: a row nobody has tried
\* is eventually leased or settled while the journey runs with an instance.
FreshRowsAreClaimed ==
    \A k \in Obs : (state[k] = "pending" /\ attempt[k] = 0) ~>
        \/ state[k] # "pending" \/ attempt[k] > 0
        \/ Stopping \/ instance.status = "unavailable"
=============================================================================
