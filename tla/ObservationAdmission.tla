------------------------- MODULE ObservationAdmission -------------------------
(***************************************************************************)
(* How canonical records become journal rows: the live replay loop that    *)
(* reads the canonical store past the journal's watermark, the blocking    *)
(* ingest task it starts for each record, the backpressure gate, and the   *)
(* transactions that decide a record: admitted, withheld by the sanitizer, *)
(* or checkpointed as no message.                                          *)
(*                                                                         *)
(* A task reads the replay position, measures the lane and only then       *)
(* writes.  The replay loop waits for it no longer than its own deadline,  *)
(* and nothing stops a blocking task: it may commit long after the loop    *)
(* presented its record again, or under a mount that has since been        *)
(* replaced.                                                               *)
(*                                                                         *)
(* Source: crates/tracedecay-memory-observation/src/sqlite/append.rs,      *)
(* sqlite/mod.rs, runtime/ingress.rs, runtime/backpressure.rs and the      *)
(* replay of crates/tracedecay-daemon-service/src/retained_owner/          *)
(* observation_journey.rs.                                                 *)
(***************************************************************************)
EXTENDS Naturals, Sequences, FiniteSets, FiniteSetsExt

CONSTANTS
    N,                  \* canonical records 1 .. N, in sequence
    Session,            \* the session of a record: its exact scope, so its stream
    NonMessages,        \* records that hold no message
    Withholdable,       \* messages some revision of the sanitizer refuses
    Suspect,            \* records some revision of the contract cannot read
    Optional,           \* records of the optional load class
    PageItems,          \* REPLAY_PAGE_ITEMS
    MaxQueueItems,      \* RetentionPolicyV1::max_queue_items
    ShedOptionalAt,     \* BackpressurePolicyV1, as a number of rows
    RefuseAt,
    BreachStreak,       \* foreground_breach_streak
    MaxTasks,           \* bounds of the model: blocking tasks alive at once,
    MaxReg,             \* registration revisions,
    MaxMounts           \* mounts after the first

Seqs == 1 .. N
Sessions == {Session[k] : k \in Seqs}
Regs == 1 .. MaxReg
TaskIds == 1 .. MaxTasks

ASSUME AdmissionAssumption ==
    /\ {N, PageItems, MaxQueueItems, ShedOptionalAt, RefuseAt, BreachStreak,
        MaxTasks, MaxReg} \subseteq Nat \ {0}
    /\ MaxMounts \in Nat
    /\ ShedOptionalAt < RefuseAt /\ RefuseAt <= MaxQueueItems
    /\ DOMAIN Session = Seqs
    /\ NonMessages \subseteq Seqs /\ Optional \subseteq Seqs /\ Suspect \subseteq Seqs
    /\ Withholdable \subseteq Seqs \ NonMessages

VARIABLES
    \* the journal
    rows,           \* tdmem_observation_journal_v1 and its delivery: state of each
    withheld,       \* tdmem_observation_withheld_v2
    nonMessage,     \* tdmem_observation_non_message_v1
    cursor,         \* tdmem_observation_replay_cursor_v1
    target,         \* tdmem_observation_target_cursor_v1
    \* the mount
    reg,            \* registration revision of the mount
    hides,          \* the messages the sanitizer of this process refuses
    unreadable,     \* the records it answers with the same error every time
    ready,          \* whether the loop may begin a pass
    pc,             \* where the live replay loop is
    page,           \* the records of the page still to be ingested
    waiting,        \* the task the loop waits for, 0 for none
    tasks,          \* blocking ingest tasks
    breaches,       \* BackpressureGateV1::foreground_breaches, up to BreachStreak
    mounts,
    \* history
    admittedEver,   \* <<registration, record>> pairs a row was inserted for
    withheldEver    \* records an audit row was inserted for

journal == <<rows, withheld, nonMessage, cursor, target>>
revision == <<hides, unreadable>>
mount == <<reg, revision, ready, mounts>>
loop == <<pc, page, waiting>>
history == <<admittedEver, withheldEver>>
admissionVars == <<journal, mount, loop, tasks, breaches, history>>

Steps == {"free", "recover", "gate", "commit", "done"}
Verdicts == {"admit", "withhold", "non_message"}
Results == {"none", "ok", "shed", "halted", "stopped", "fault", "error"}

NoTask == [step |-> "free", seq |-> 0, reg |-> 0, resume |-> 0, result |-> "none"]

\* Type invariant.
AdmissionTypeOK ==
    /\ rows \in [Regs \X Seqs -> {"none", "queued", "settled"}]
    /\ withheld \subseteq Seqs
    /\ nonMessage \subseteq Seqs
    /\ cursor \in [Sessions -> [seq : 0 .. N, disposition : Verdicts \cup {"none"}]]
    /\ target \in [Regs \X Sessions -> 0 .. N]
    /\ reg \in Regs
    /\ hides \subseteq Withholdable
    /\ unreadable \subseteq Suspect
    /\ ready \in BOOLEAN
    /\ pc \in {"idle", "record", "join"}
    /\ page \in UNION {[1 .. n -> Seqs] : n \in 0 .. PageItems}
    /\ waiting \in 0 .. MaxTasks
    /\ tasks \in [TaskIds -> [step : Steps, seq : 0 .. N, reg : 0 .. MaxReg,
                              resume : 0 .. N, result : Results]]
    /\ breaches \in 0 .. BreachStreak
    /\ mounts \in 0 .. MaxMounts
    /\ admittedEver \subseteq Regs \X Seqs
    /\ withheldEver \subseteq Seqs

AdmissionInit ==
    /\ rows = [p \in Regs \X Seqs |-> "none"]
    /\ withheld = {}
    /\ nonMessage = {}
    /\ cursor = [s \in Sessions |-> [seq |-> 0, disposition |-> "none"]]
    /\ target = [p \in Regs \X Sessions |-> 0]
    /\ reg = 1
    /\ hides \in SUBSET Withholdable /\ unreadable \in SUBSET Suspect
    /\ ready = TRUE
    /\ pc = "idle" /\ page = <<>> /\ waiting = 0
    /\ tasks = [t \in TaskIds |-> NoTask]
    /\ breaches = 0 /\ mounts = 0
    /\ admittedEver = {} /\ withheldEver = {}

\* maximum_replay_sequence: MAX over every session's cursor.
Watermark == Max({cursor[s].seq : s \in Sessions})

\* lane_pressure: the unsettled rows of one registration.
LanePressure(r) == Cardinality({k \in Seqs : rows[<<r, k>>] = "queued"})

\* The adapter's decision; the same bytes get the same verdict from one
\* process, another revision of it may judge a record differently.
Verdict(k) == IF k \in unreadable THEN "unreadable"
              ELSE IF k \in NonMessages THEN "non_message"
              ELSE IF k \in hides THEN "withhold" ELSE "admit"

-----------------------------------------------------------------------------
(* The live replay loop.                                                   *)

\* A pass begins only under a proved instance, which is lost and proved again;
\* the replay of a mount's startup does not ask.  A mount that shut down, whose
\* loop ends with its pass, is one that is not ready any more.
ReadinessChanges ==
    /\ pc = "idle"
    /\ ready' = ~ready
    /\ UNCHANGED <<journal, reg, revision, mounts, loop, tasks, breaches, history>>

\* The page read from the watermark on instead of after it.
ReadPageInclusive ==
    /\ pc = "idle" /\ ready
    /\ Watermark < N
    /\ page' = [i \in 1 .. Min({PageItems, N - Watermark}) |-> Watermark + i - 1]
    /\ pc' = "record"
    /\ UNCHANGED <<journal, mount, waiting, tasks, breaches, history>>

\* replay_canonical_observations, one page: the records past the watermark.
\* An empty page ends the pass.
ReadPage ==
    /\ pc = "idle" /\ ready
    /\ Watermark < N
    /\ page' = [i \in 1 .. Min({PageItems, N - Watermark}) |-> Watermark + i]
    /\ pc' = "record"
    /\ UNCHANGED <<journal, mount, waiting, tasks, breaches, history>>

\* ingest_record_with_adapter: the record is handed to the blocking pool.
SpawnIngest ==
    /\ pc = "record"
    /\ \E t \in TaskIds :
        /\ tasks[t] = NoTask
        /\ \A u \in TaskIds : tasks[u] = NoTask => t <= u
        /\ tasks' = [tasks EXCEPT ![t] = [NoTask EXCEPT
                         !.step = "recover", !.seq = Head(page), !.reg = reg]]
        /\ waiting' = t
    /\ pc' = "join"
    /\ UNCHANGED <<journal, mount, page, breaches, history>>

\* A refused record skipped instead of held.
PassContinuesPastRefusals(result) == result \in {"ok", "shed", "halted"}

\* The pass goes on to its next record only after one that was decided.
PassContinues(result) == result = "ok"

\* observe_foreground, for a record that overran its budget.
Breached == breaches' = Min({breaches + 1, BreachStreak})

\* The task answers before the pass is due.
Joined ==
    /\ pc = "join" /\ tasks[waiting].step = "done"
    /\ IF PassContinues(tasks[waiting].result) /\ Len(page) > 1
       THEN page' = Tail(page) /\ pc' = "record"
       ELSE page' = <<>> /\ pc' = "idle"
    /\ tasks' = [tasks EXCEPT ![waiting] = NoTask]
    /\ waiting' = 0
    /\ UNCHANGED <<journal, mount, history>>

\* The record's latency is sampled either way.
Join == Joined /\ breaches' = 0
JoinSlow == Joined /\ Breached

\* timeout_at: the pass returns at its deadline and leaves the task running.
JoinTimesOut ==
    /\ pc = "join" /\ tasks[waiting].step # "done"
    /\ Breached
    /\ pc' = "idle" /\ page' = <<>> /\ waiting' = 0
    /\ UNCHANGED <<journal, mount, tasks, history>>

-----------------------------------------------------------------------------
(* The blocking ingest task.                                               *)

\* A task nobody waits for has no one to report to.
Finish(t, result) ==
    tasks' = [tasks EXCEPT ![t] = IF t = waiting
                                  THEN [@ EXCEPT !.step = "done", !.result = result]
                                  ELSE NoTask]

TaskUnchanged == UNCHANGED <<mount, loop, breaches>>

\* recover: reads the stream's replay position.
Recover(t) ==
    /\ tasks[t].step = "recover"
    /\ tasks' = [tasks EXCEPT ![t].step = "gate",
                              ![t].resume = cursor[Session[tasks[t].seq]].seq]
    /\ TaskUnchanged /\ UNCHANGED <<journal, history>>

\* validate_replay_identity: some durable decision still names the record.
ReplayIdentityKnown(k) ==
    \/ \E r \in Regs : rows[<<r, k>>] # "none"
    \/ k \in withheld \cup nonMessage
    \/ cursor[Session[k]].seq = k

\* decide of the backpressure gate, on the lane as measured: a record that
\* lands the lane on a threshold is the last the threshold allows.  Optional
\* records are also shed in a lane whose oldest row has waited too long.
RefusesAll(items) == items >= MaxQueueItems \/ items + 1 > RefuseAt
MayShedOptional(items) == items > 0

\* The record that lands on the threshold shed as well.
MustShedOptionalOnThreshold(items) == items + 1 >= ShedOptionalAt \/ breaches >= BreachStreak

MustShedOptional(items) == items + 1 > ShedOptionalAt \/ breaches >= BreachStreak

\* ingest up to the transaction: a record at or below the position is only
\* checked; the others pass the gate and are decided.
Gate(t) ==
    LET k == tasks[t].seq
        items == LanePressure(tasks[t].reg)
        Shed == Finish(t, "shed")
        Admit == tasks' = [tasks EXCEPT ![t].step = "commit"]
    IN /\ tasks[t].step = "gate"
       /\ IF k <= tasks[t].resume
          THEN Finish(t, IF ReplayIdentityKnown(k) THEN "ok" ELSE "fault")
          ELSE IF RefusesAll(items) THEN Shed
          ELSE IF k \notin Optional THEN Admit
          ELSE IF MustShedOptional(items) THEN Shed
          ELSE Admit \/ (MayShedOptional(items) /\ Shed)
       /\ TaskUnchanged /\ UNCHANGED <<journal, history>>

\* caller_stop, at any of its checks: the pass is past its deadline or its
\* mount is stopping.  A decided withholding is recorded all the same.
Stops(t) ==
    /\ \/ tasks[t].step = "gate" /\ tasks[t].seq > tasks[t].resume
       \/ tasks[t].step = "commit" /\ Verdict(tasks[t].seq) # "withhold"
    /\ Finish(t, "stopped")
    /\ TaskUnchanged /\ UNCHANGED <<journal, history>>

\* The adapter or the journal answers with an error of the moment; nothing is
\* committed.
Faults(t) ==
    /\ tasks[t].step \in {"recover", "gate", "commit"}
    /\ Finish(t, "error")
    /\ TaskUnchanged /\ UNCHANGED <<journal, history>>

-----------------------------------------------------------------------------
(* The deciding transactions.                                              *)

\* UPSERT_CURSOR: the position is a maximum, and the disposition is that of
\* the record at the position.
UpsertCursor(k, disposition) ==
    cursor' = [cursor EXCEPT ![Session[k]] =
                   IF k >= @.seq THEN [seq |-> k, disposition |-> disposition] ELSE @]

\* Only admitted records moving the position.
UpsertWithheldCursorNot(k) == k \in Seqs /\ UNCHANGED cursor

\* UPSERT_WITHHELD_CURSOR: strictly greater.
UpsertWithheldCursor(k) ==
    cursor' = [cursor EXCEPT ![Session[k]] =
                   IF k > @.seq THEN [seq |-> k, disposition |-> "withhold"] ELSE @]

\* No regression check at all.
RegressionNever(r, k) == r \in Regs /\ k \notin Seqs

\* (4) of append_admitted_at: a record below its registration's position.
\* One record is one event, so a record at the position is the same event.
Regression(r, k) == k < target[<<r, Session[k]>>]

\* The gate's measurement trusted instead.
WouldExceedNever(r) == r \notin Regs

\* (5) of append_admitted_at: one more row would exceed the queue.
WouldExceed(r) == LanePressure(r) >= MaxQueueItems

\* append_admitted_at, in the order of its checks.
AppendAdmitted(t) ==
    LET k == tasks[t].seq
        r == tasks[t].reg
        Refuse(result) == Finish(t, result) /\ UNCHANGED <<journal, history>>
    IN IF k \in nonMessage THEN Refuse("fault")
       ELSE IF rows[<<r, k>>] # "none" THEN Refuse("ok")
       ELSE IF k \in withheld \/ Regression(r, k) \/ WouldExceed(r) THEN Refuse("halted")
       ELSE /\ rows' = [rows EXCEPT ![<<r, k>>] = "queued"]
            /\ UpsertCursor(k, "admit")
            /\ target' = [target EXCEPT ![<<r, Session[k]>>] = k]
            /\ admittedEver' = admittedEver \cup {<<r, k>>}
            /\ Finish(t, "ok")
            /\ UNCHANGED <<withheld, nonMessage, withheldEver>>

\* record_withheld_at.
RecordWithheld(t) ==
    LET k == tasks[t].seq
    IN IF k \in nonMessage THEN Finish(t, "fault") /\ UNCHANGED <<journal, history>>
       ELSE /\ withheld' = withheld \cup {k}
            /\ withheldEver' = withheldEver \cup {k}
            /\ UpsertWithheldCursor(k)
            /\ Finish(t, "ok")
            /\ UNCHANGED <<rows, nonMessage, target, admittedEver>>

\* record_non_message: a repeat is accepted, a decided record is a conflict.
RecordNonMessage(t) ==
    LET k == tasks[t].seq
        Answer(result) == Finish(t, result) /\ UNCHANGED <<journal, history>>
    IN IF k \in withheld \/ \E r \in Regs : rows[<<r, k>>] # "none" THEN Answer("fault")
       ELSE IF k \in nonMessage THEN Answer("ok")
       ELSE IF cursor[Session[k]].seq >= k THEN Answer("fault")
       ELSE /\ nonMessage' = nonMessage \cup {k}
            /\ UpsertCursor(k, "non_message")
            /\ Finish(t, "ok")
            /\ UNCHANGED <<rows, withheld, target, history>>

Commit(t) ==
    /\ tasks[t].step = "commit"
    /\ CASE Verdict(tasks[t].seq) = "admit" -> AppendAdmitted(t)
         [] Verdict(tasks[t].seq) = "withhold" -> RecordWithheld(t)
         [] Verdict(tasks[t].seq) = "non_message" -> RecordNonMessage(t)
         [] Verdict(tasks[t].seq) = "unreadable" -> Finish(t, "fault") /\ UNCHANGED <<journal, history>>
    /\ TaskUnchanged

-----------------------------------------------------------------------------
(* What happens to the tables meanwhile.                                   *)

JournalOnly == UNCHANGED <<mount, loop, tasks, breaches, history>>

\* Delivery, expiry or forgetting settles a row (ObservationDispatch).
Settle(r, k) ==
    /\ rows[<<r, k>>] = "queued"
    /\ rows' = [rows EXCEPT ![<<r, k>>] = "settled"]
    /\ JournalOnly /\ UNCHANGED <<withheld, nonMessage, cursor, target>>

\* sweep_expired (3): a settled row is deleted once its receipts have aged.
DeleteRow(r, k) ==
    /\ rows[<<r, k>>] = "settled"
    /\ rows' = [rows EXCEPT ![<<r, k>>] = "none"]
    /\ JournalOnly /\ UNCHANGED <<withheld, nonMessage, cursor, target>>

\* sweep_expired (4) or forget_source: the audit row of a withheld record.
DeleteWithheld(k) ==
    /\ k \in withheld
    /\ withheld' = withheld \ {k}
    /\ JournalOnly /\ UNCHANGED <<rows, nonMessage, cursor, target>>

\* A mount starts with a fresh loop and gate, at this or a later registration.
NewMount ==
    /\ mounts < MaxMounts
    /\ mounts' = mounts + 1
    /\ reg' \in {reg, reg + 1} \cap Regs
    /\ pc' = "idle" /\ page' = <<>> /\ waiting' = 0
    /\ breaches' = 0 /\ ready' = TRUE
    /\ UNCHANGED <<journal, history>>

\* shutdown aborts the loop and the project is mounted again in the same
\* process: the blocking tasks of the old mount live on.
Remount ==
    /\ NewMount
    /\ tasks' = [t \in TaskIds |-> IF tasks[t].step = "done" THEN NoTask ELSE tasks[t]]
    /\ UNCHANGED revision

\* The process ends; the next one may be of another revision.
Restart ==
    /\ NewMount
    /\ tasks' = [t \in TaskIds |-> NoTask]
    /\ hides' \in SUBSET Withholdable /\ unreadable' \in SUBSET Suspect

-----------------------------------------------------------------------------

LoopStep == ReadPage \/ SpawnIngest \/ Join \/ JoinSlow
TaskStep(t) == Recover(t) \/ Gate(t) \/ Commit(t)

AdmissionNext ==
    \/ LoopStep \/ ReadinessChanges \/ JoinTimesOut
    \/ \E t \in TaskIds : TaskStep(t) \/ Stops(t) \/ Faults(t)
    \/ \E r \in Regs, k \in Seqs : Settle(r, k) \/ DeleteRow(r, k)
    \/ \E k \in Seqs : DeleteWithheld(k)
    \/ Remount \/ Restart

AdmissionSpec == AdmissionInit /\ [][AdmissionNext]_admissionVars

\* The loop runs on the daemon's runtime, as far as its instance lets it; tasks
\* run on the blocking pool, and the delivery worker settles what is queued.
FairAdmissionSpec ==
    /\ AdmissionSpec
    /\ WF_admissionVars(LoopStep)
    /\ \A t \in TaskIds : WF_admissionVars(TaskStep(t))
    /\ WF_admissionVars(\E r \in Regs, k \in Seqs : Settle(r, k))

-----------------------------------------------------------------------------
(* Properties.                                                             *)

Decided(k) == k \in nonMessage \cup withheldEver \/ \E r \in Regs : <<r, k>> \in admittedEver

\* Every record at or below the watermark of maximum_replay_sequence was
\* admitted, withheld or checkpointed: replay, which resumes there after any
\* restart, never skips a record, although the watermark is a maximum over
\* sessions and late tasks commit out of order.
NoGapBelowWatermark == \A k \in 1 .. Watermark : Decided(k)

\* A record is decided one way for good: none is both admitted and withheld,
\* or a checkpoint and anything else, even when its row or audit row has been
\* deleted and a restart has changed the sanitizer's mind.
DecidedOnce ==
    \A k \in Seqs :
        /\ k \in withheldEver => k \notin nonMessage /\ \A r \in Regs : <<r, k>> \notin admittedEver
        /\ k \in nonMessage => \A r \in Regs : <<r, k>> \notin admittedEver

\* append_admitted checks the queue again inside its transaction: the gate's
\* measurement may be stale, the lane of a registration never overflows.
LaneBounded == \A r \in Regs : LanePressure(r) <= MaxQueueItems

\* A record a registration has already been given is journalled again only at
\* that registration's last position, never behind it: a late task cannot
\* redeliver what the registration has moved past.
ReadmittedOnlyAtPosition ==
    [][\A r \in Regs, k \in Seqs :
           rows[<<r, k>>] = "none" /\ rows'[<<r, k>>] = "queued" /\ <<r, k>> \in admittedEver
               => \A j \in Seqs : Session[j] = Session[k] /\ <<r, j>> \in admittedEver
                                    => j <= k]_admissionVars

\* A pass overruns its deadline or a record its budget, or the task the loop
\* waits for is stopped or meets an error of the moment.
Disturbed ==
    \/ JoinTimesOut \/ JoinSlow
    \/ waiting # 0 /\ (Stops(waiting) \/ Faults(waiting))

\* Shed and halted records, and those of disturbed passes, are presented again:
\* once the instance stays proved and the passes stay undisturbed, every record
\* is decided up to the first that is refused alike on every pass, where the
\* watermark stands still.
EveryRecordDecided ==
    <>[]ready /\ <>[][~Disturbed]_admissionVars
        => <>[](Watermark = N \/ Watermark + 1 \in unreadable)

===============================================================================
