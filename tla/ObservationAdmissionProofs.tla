--------------------- MODULE ObservationAdmissionProofs ---------------------
(***************************************************************************)
(* What holds of admission for every canonical store, every number of      *)
(* sessions, registrations, ingest tasks and mounts: replay never skips a  *)
(* record, a record is decided one way for good, the lane never            *)
(* overflows, and nothing is journalled again behind a registration's      *)
(* position.                                                               *)
(***************************************************************************)
EXTENDS ObservationAdmission, FiniteSetTheorems, SequenceTheorems,
        WellFoundedInduction, TLAPS

TaskRecords == [step : Steps, seq : 0 .. N, reg : 0 .. MaxReg, resume : 0 .. N,
                result : Results]
Cursors == [seq : 0 .. N, disposition : Verdicts \cup {"none"}]

\* The parameters, unfolded once for the provers.
LEMMA Parameters ==
    /\ N \in Nat \ {0} /\ PageItems \in Nat \ {0} /\ MaxQueueItems \in Nat \ {0}
    /\ MaxTasks \in Nat \ {0} /\ MaxReg \in Nat \ {0}
    /\ MaxMounts \in Nat /\ BreachStreak \in Nat \ {0}
    /\ Withholdable \subseteq Seqs \ NonMessages
    /\ Seqs \subseteq Nat \ {0} /\ Regs \subseteq Nat \ {0} /\ TaskIds \subseteq Nat \ {0}
    /\ \A k \in Seqs : Session[k] \in Sessions
BY AdmissionAssumption DEF Seqs, Regs, TaskIds, Sessions

-----------------------------------------------------------------------------
(* The journal and its history.                                            *)

\* The tables are of their types.
JournalTyped ==
    /\ rows \in [Regs \X Seqs -> {"none", "queued", "settled"}]
    /\ withheld \subseteq Seqs
    /\ nonMessage \subseteq Seqs
    /\ cursor \in [Sessions -> Cursors]
    /\ target \in [Regs \X Sessions -> 0 .. N]
    /\ admittedEver \subseteq Regs \X Seqs
    /\ withheldEver \subseteq Seqs

\* The tasks and the loop are of their types: a task that exists has a record
\* and a registration, and only the one waited for keeps its result.
TasksTyped ==
    /\ tasks \in [TaskIds -> TaskRecords]
    /\ reg \in Regs
    /\ hides \subseteq Withholdable
    /\ pc \in {"idle", "record", "join"}
    /\ waiting \in 0 .. MaxTasks
    /\ pc = "join" <=> waiting # 0
    /\ \A t \in TaskIds :
          /\ tasks[t].step # "free" => tasks[t].seq \in Seqs /\ tasks[t].reg \in Regs
          /\ tasks[t].step = "done" => t = waiting

CountersTyped ==
    /\ breaches \in 0 .. BreachStreak
    /\ mounts \in 0 .. MaxMounts
    /\ unreadable \subseteq Suspect
    /\ ready \in BOOLEAN

\* The page is a run of consecutive records, and the task waited for is of its
\* first.
PageTyped ==
    /\ page \in Seq(Seqs)
    /\ Len(page) =< PageItems
    /\ \A i \in 1 .. Len(page) : page[i] = page[1] + i - 1
    /\ pc # "idle" => page # <<>>
    /\ waiting # 0 => tasks[waiting].seq = page[1] /\ tasks[waiting].step # "free"

Typed == JournalTyped /\ TasksTyped /\ PageTyped /\ CountersTyped

-----------------------------------------------------------------------------
(* Steps seen from the journal.                                            *)

\* A deciding transaction's record and registration are those of its task.
Committing(t) == tasks[t].step = "commit"

\* What a step may do to the tables: nothing, delete or settle, or decide one
\* record of a committing task by one of the three verdicts.
Deletes ==
    /\ \A p \in Regs \X Seqs :
          rows'[p] # "none" => rows[p] # "none" /\ (rows'[p] = "queued" => rows[p] = "queued")
    /\ rows' \in [Regs \X Seqs -> {"none", "queued", "settled"}]
    /\ withheld' \subseteq withheld
    /\ UNCHANGED <<nonMessage, cursor, target, history>>

Admits(t) ==
    LET k == tasks[t].seq
        r == tasks[t].reg
    IN /\ Committing(t) /\ k \notin NonMessages \cup hides
       /\ ~Regression(r, k) /\ ~WouldExceed(r)
       /\ rows[<<r, k>>] = "none"
       /\ rows' = [rows EXCEPT ![<<r, k>>] = "queued"]
       /\ UpsertCursor(k, "admit")
       /\ target' = [target EXCEPT ![<<r, Session[k]>>] = k]
       /\ admittedEver' = admittedEver \cup {<<r, k>>}
       /\ UNCHANGED <<withheld, nonMessage, withheldEver>>

Withholds(t) ==
    LET k == tasks[t].seq
    IN /\ Committing(t) /\ k \in hides
       /\ withheld' = withheld \cup {k}
       /\ withheldEver' = withheldEver \cup {k}
       /\ UpsertWithheldCursor(k)
       /\ UNCHANGED <<rows, nonMessage, target, admittedEver>>

Checkpoints(t) ==
    LET k == tasks[t].seq
    IN /\ Committing(t) /\ k \in NonMessages
       /\ nonMessage' = nonMessage \cup {k}
       /\ UpsertCursor(k, "non_message")
       /\ UNCHANGED <<rows, withheld, target, history>>

Decides(t) == Admits(t) \/ Withholds(t) \/ Checkpoints(t)

\* A commit decides its record, or refuses and changes no table; it answers
\* "ok" only for a record that is decided.
LEMMA CommitDecides ==
    ASSUME NEW t \in TaskIds, Commit(t)
    PROVE  \E result \in Results :
             /\ Finish(t, result)
             /\ \/ Decides(t)
                \/ /\ UNCHANGED <<journal, history>>
                   /\ result = "ok" => \/ rows[<<tasks[t].reg, tasks[t].seq>>] # "none"
                                       \/ tasks[t].seq \in nonMessage
<1> DEFINE k == tasks[t].seq
           r == tasks[t].reg
<1>1. CASE Verdict(k) = "admit"
  <2>1. AppendAdmitted(t)
    BY <1>1 DEF Commit
  <2>2. k \notin NonMessages \cup hides
    BY <1>1 DEF Verdict
  <2>3. CASE k \in nonMessage
    <3>1. Finish(t, "fault") /\ UNCHANGED <<journal, history>>
      BY <2>1, <2>3 DEF AppendAdmitted
    <3> QED
      BY <3>1 DEF Results
  <2>4. CASE k \notin nonMessage /\ rows[<<r, k>>] # "none"
    <3>1. Finish(t, "ok") /\ UNCHANGED <<journal, history>>
      BY <2>1, <2>4 DEF AppendAdmitted
    <3> QED
      BY <2>4, <3>1 DEF Results
  <2>5. CASE /\ k \notin nonMessage /\ rows[<<r, k>>] = "none"
             /\ k \in withheld \/ Regression(r, k) \/ WouldExceed(r)
    <3>1. Finish(t, "halted") /\ UNCHANGED <<journal, history>>
      BY <2>1, <2>5 DEF AppendAdmitted
    <3> QED
      BY <3>1 DEF Results
  <2>6. CASE /\ k \notin nonMessage /\ rows[<<r, k>>] = "none"
             /\ ~(k \in withheld \/ Regression(r, k) \/ WouldExceed(r))
    <3>1. Finish(t, "ok") /\ Admits(t)
      BY <2>1, <2>2, <2>6 DEF AppendAdmitted, Admits, Committing, Commit
    <3> QED
      BY <3>1 DEF Results, Decides
  <2> QED
    BY <2>3, <2>4, <2>5, <2>6
<1>2. CASE Verdict(k) = "withhold"
  <2>1. RecordWithheld(t)
    BY <1>2 DEF Commit
  <2>2. k \in hides
    BY <1>2 DEF Verdict
  <2>3. \/ Finish(t, "fault") /\ UNCHANGED <<journal, history>>
        \/ Finish(t, "ok") /\ Withholds(t)
    BY <2>1, <2>2 DEF RecordWithheld, Withholds, Committing, Commit
  <2> QED
    BY <2>3 DEF Results, Decides
<1>3. CASE Verdict(k) = "non_message"
  <2>1. RecordNonMessage(t)
    BY <1>3 DEF Commit
  <2>2. k \in NonMessages
    BY <1>3 DEF Verdict
  <2>3. \/ Finish(t, "fault") /\ UNCHANGED <<journal, history>>
        \/ Finish(t, "ok") /\ UNCHANGED <<journal, history>> /\ k \in nonMessage
        \/ Finish(t, "ok") /\ Checkpoints(t)
    BY <2>1, <2>2 DEF RecordNonMessage, Checkpoints, Committing, Commit
  <2> QED
    BY <2>3 DEF Results, Decides
<1>4. CASE Verdict(k) = "unreadable"
  <2>1. Finish(t, "fault") /\ UNCHANGED <<journal, history>>
    BY <1>4 DEF Commit
  <2> QED
    BY <2>1 DEF Results
<1> QED
  BY <1>1, <1>2, <1>3, <1>4 DEF Verdict

\* Every set of records has a greatest one; here, the positions of sessions.
LEMMA WatermarkFacts ==
    ASSUME JournalTyped
    PROVE  /\ Watermark \in 0 .. N
           /\ \E s \in Sessions : Watermark = cursor[s].seq
           /\ \A s \in Sessions : cursor[s].seq =< Watermark
<1> USE Parameters
<1> DEFINE P == {cursor[s].seq : s \in Sessions}
           Q == {N - x : x \in P}
<1>1. P \subseteq 0 .. N
  BY DEF JournalTyped, Cursors
<1>2. P # {}
  <2>1. 1 \in Seqs
    BY DEF Seqs
  <2> QED
    BY <2>1
<1>3. Q \subseteq Nat /\ Q # {}
  <2> HIDE DEF P
  <2>1. \A x \in P : N - x \in Nat
    BY <1>1
  <2> QED
    BY <1>2, <2>1
<1>4. PICK m \in Q : \A n \in Q : ~ (<<n, m>> \in OpToRel(<, Nat))
  <2> HIDE DEF Q
  <2> QED
    BY <1>3, NatLessThanWellFounded, WFMin
<1>5. \A n \in Q : m =< n
  <2> SUFFICES ASSUME NEW n \in Q
               PROVE  m =< n
    OBVIOUS
  <2>1. m \in Nat /\ n \in Nat
    BY <1>3
  <2>2. ~ (<<n, m>> \in OpToRel(<, Nat))
    BY <1>4
  <2> HIDE DEF Q
  <2> QED
    BY <2>1, <2>2 DEF OpToRel
<1>6. PICK x \in P : m = N - x
  BY <1>4
<1>7. \A y \in P : x >= y
  <2> SUFFICES ASSUME NEW y \in P
               PROVE  x >= y
    OBVIOUS
  <2>1. N - y \in Q
    OBVIOUS
  <2>2. N - x =< N - y
    BY <1>5, <1>6, <2>1
  <2>3. x \in 0 .. N /\ y \in 0 .. N
    BY <1>1
  <2> HIDE DEF P, Q
  <2> QED
    BY <2>2, <2>3
<1>8. Watermark \in P /\ \A y \in P : Watermark >= y
  <2>1. Watermark = Max(P)
    BY DEF Watermark
  <2> HIDE DEF P
  <2> QED
    BY <1>6, <1>7, <2>1 DEF Max
<1> QED
  BY <1>1, <1>8

-----------------------------------------------------------------------------
(* Types and shapes.                                                       *)

\* What ends a task: the one waited for keeps its answer, others are gone.
LEMMA FinishFacts ==
    ASSUME TasksTyped, NEW t \in TaskIds, NEW result \in Results, Finish(t, result)
    PROVE  /\ tasks' \in [TaskIds -> TaskRecords]
           /\ \A u \in TaskIds \ {t} : tasks'[u] = tasks[u]
           /\ t # waiting => tasks'[t] = NoTask
           /\ t = waiting => /\ tasks'[t].step = "done" /\ tasks'[t].result = result
                             /\ tasks'[t].seq = tasks[t].seq
                             /\ tasks'[t].reg = tasks[t].reg
                             /\ tasks'[t].resume = tasks[t].resume
<1> USE Parameters
<1>1. NoTask \in TaskRecords
  BY DEF NoTask, TaskRecords, Steps, Results
<1>2. [tasks[t] EXCEPT !.step = "done", !.result = result] \in TaskRecords
  BY DEF TasksTyped, TaskRecords, Steps
<1>3. CASE t = waiting
  <2>1. tasks' = [tasks EXCEPT ![t] = [tasks[t] EXCEPT !.step = "done", !.result = result]]
    BY <1>3 DEF Finish
  <2> QED
    BY <1>2, <1>3, <2>1 DEF TasksTyped, TaskRecords
<1>4. CASE t # waiting
  <2>1. tasks' = [tasks EXCEPT ![t] = NoTask]
    BY <1>4 DEF Finish
  <2> QED
    BY <1>1, <1>4, <2>1 DEF TasksTyped
<1> QED
  BY <1>3, <1>4

\* A task moves on, under the position it has read, or ends.
Advances(t) ==
    \E step \in {"gate", "commit"}, resume \in 0 .. N :
        /\ tasks' = [tasks EXCEPT ![t].step = step, ![t].resume = resume]
        /\ \/ resume = tasks[t].resume /\ tasks[t].step # "recover" /\ resume < tasks[t].seq
           \/ resume = cursor[Session[tasks[t].seq]].seq /\ step = "gate"

\* The steps of a task: it advances, or ends with a result, and "ok" is said
\* of a record below the position it read, or by the commit.
LEMMA TaskFate ==
    ASSUME Typed, NEW t \in TaskIds, TaskStep(t) \/ Stops(t) \/ Faults(t)
    PROVE  /\ tasks[t].step \in {"recover", "gate", "commit"}
           /\ UNCHANGED <<mount, loop, breaches>>
           /\ \/ Advances(t) /\ UNCHANGED <<journal, history>>
              \/ \E result \in Results \ {"ok"} : Finish(t, result) /\ UNCHANGED <<journal, history>>
              \/ /\ tasks[t].step = "gate" /\ tasks[t].seq =< tasks[t].resume
                 /\ Finish(t, "ok") /\ UNCHANGED <<journal, history>>
              \/ Commit(t)
<1> USE Parameters
<1>1. CASE Recover(t)
  <2>1. cursor[Session[tasks[t].seq]].seq \in 0 .. N
    BY <1>1 DEF Recover, Typed, TasksTyped, JournalTyped, Cursors
  <2>2. Advances(t)
    BY <1>1, <2>1 DEF Recover, Advances
  <2> QED
    BY <1>1, <2>2 DEF Recover, TaskUnchanged
<1>2. CASE Gate(t)
  <2>1. CASE tasks[t].seq =< tasks[t].resume
    <3>1. Finish(t, "ok") \/ Finish(t, "fault")
      BY <1>2, <2>1 DEF Gate
    <3> QED
      BY <1>2, <2>1, <3>1 DEF Gate, TaskUnchanged, Results
  <2>2. CASE ~(tasks[t].seq =< tasks[t].resume)
    <3>1. Finish(t, "shed") \/ tasks' = [tasks EXCEPT ![t].step = "commit"]
      BY <1>2, <2>2 DEF Gate
    <3>2. CASE tasks' = [tasks EXCEPT ![t].step = "commit"]
      <4>1. tasks[t] \in TaskRecords /\ tasks[t].step = "gate"
        BY <1>2 DEF Gate, Typed, TasksTyped
      <4>2. tasks' = [tasks EXCEPT ![t].step = "commit", ![t].resume = tasks[t].resume]
        BY <3>2, <4>1 DEF TaskRecords, Typed, TasksTyped
      <4>3. tasks[t].resume \in 0 .. N /\ tasks[t].resume < tasks[t].seq
        BY <2>2, <4>1 DEF TaskRecords
      <4>4. Advances(t)
        BY <4>1, <4>2, <4>3 DEF Advances
      <4> QED
        BY <1>2, <4>4 DEF Gate, TaskUnchanged
    <3> QED
      BY <1>2, <3>1, <3>2 DEF Gate, TaskUnchanged, Results
  <2> QED
    BY <2>1, <2>2
<1>3. CASE Commit(t)
  <2>1. tasks[t].step = "commit" /\ TaskUnchanged
    BY <1>3 DEF Commit
  <2> QED
    BY <1>3, <2>1 DEF TaskUnchanged
<1>4. CASE Stops(t)
  BY <1>4 DEF Stops, TaskUnchanged, Results
<1>5. CASE Faults(t)
  BY <1>5 DEF Faults, TaskUnchanged, Results
<1> QED
  BY <1>1, <1>2, <1>3, <1>4, <1>5 DEF TaskStep

\* Seen from the tables, a step changes nothing, deletes or settles, or
\* decides the record of one task.
LEMMA TablesStep ==
    ASSUME Typed, [AdmissionNext]_admissionVars
    PROVE  \/ UNCHANGED <<journal, history>>
           \/ Deletes
           \/ \E t \in TaskIds : Decides(t)
<1>1. CASE ReadPage \/ SpawnIngest \/ Joined \/ JoinTimesOut \/ ReadinessChanges
  BY <1>1 DEF ReadPage, SpawnIngest, Joined, JoinTimesOut, ReadinessChanges
<1>2. ASSUME NEW t \in TaskIds, TaskStep(t) \/ Stops(t) \/ Faults(t)
      PROVE  UNCHANGED <<journal, history>> \/ Decides(t)
  BY <1>2, TaskFate, CommitDecides
<1>3. ASSUME NEW r \in Regs, NEW k \in Seqs, Settle(r, k) \/ DeleteRow(r, k)
      PROVE  Deletes
  <2>1. PICK v \in {"settled", "none"} :
          /\ rows' = [rows EXCEPT ![<<r, k>>] = v]
          /\ rows[<<r, k>>] # "none"
          /\ UNCHANGED <<withheld, nonMessage, cursor, target, history>>
    BY <1>3 DEF Settle, DeleteRow, JournalOnly
  <2>2. \A p \in Regs \X Seqs : rows'[p] = IF p = <<r, k>> THEN v ELSE rows[p]
    BY <2>1 DEF Typed, JournalTyped
  <2>3. rows' \in [Regs \X Seqs -> {"none", "queued", "settled"}]
    BY <2>1 DEF Typed, JournalTyped
  <2> QED
    BY <2>1, <2>2, <2>3 DEF Deletes
<1>4. ASSUME NEW k \in Seqs, DeleteWithheld(k)
      PROVE  Deletes
  BY <1>4 DEF DeleteWithheld, JournalOnly, Deletes, Typed, JournalTyped
<1>5. CASE Remount \/ Restart
  BY <1>5 DEF Remount, Restart, NewMount
<1>6. CASE UNCHANGED admissionVars
  BY <1>6 DEF admissionVars
<1> QED
  BY <1>1, <1>2, <1>3, <1>4, <1>5, <1>6 DEF AdmissionNext, LoopStep, Join, JoinSlow

\* A position never moves back, and a decided record's is at or above it.
LEMMA DecidingMovesForward ==
    ASSUME Typed, NEW t \in TaskIds, Decides(t)
    PROVE  LET k == tasks[t].seq
               s == Session[k]
           IN /\ k \in Seqs /\ s \in Sessions /\ tasks[t].reg \in Regs
              /\ cursor' \in [Sessions -> Cursors]
              /\ \A u \in Sessions \ {s} : cursor'[u] = cursor[u]
              /\ cursor'[s].seq = IF k >= cursor[s].seq THEN k ELSE cursor[s].seq
<1> USE Parameters
<1> DEFINE k == tasks[t].seq
           s == Session[k]
<1>1. k \in Seqs /\ s \in Sessions /\ tasks[t].reg \in Regs
  BY DEF Decides, Admits, Withholds, Checkpoints, Committing, Typed, TasksTyped
<1>2. k \in 0 .. N /\ cursor[s] \in Cursors /\ cursor[s].seq \in 0 .. N
  BY <1>1 DEF Typed, JournalTyped, Cursors, Seqs
<1>3. PICK d \in Verdicts, c \in Cursors :
        /\ cursor' = [cursor EXCEPT ![s] = c]
        /\ c = [seq |-> k, disposition |-> d] \/ c = cursor[s]
        /\ c.seq = IF k >= cursor[s].seq THEN k ELSE cursor[s].seq
  <2>1. ASSUME NEW d \in Verdicts, UpsertCursor(k, d)
        PROVE  LET c == IF k >= cursor[s].seq THEN [seq |-> k, disposition |-> d] ELSE cursor[s]
               IN  c \in Cursors /\ cursor' = [cursor EXCEPT ![s] = c]
    BY <1>2, <2>1 DEF UpsertCursor, Cursors
  <2>2. ASSUME UpsertWithheldCursor(k)
        PROVE  LET c == IF k > cursor[s].seq THEN [seq |-> k, disposition |-> "withhold"]
                                             ELSE cursor[s]
               IN  c \in Cursors /\ cursor' = [cursor EXCEPT ![s] = c]
    BY <1>2, <2>2 DEF UpsertWithheldCursor, Cursors, Verdicts
  <2>3. CASE \E d \in Verdicts : UpsertCursor(k, d)
    BY <1>2, <2>1, <2>3
  <2>4. CASE UpsertWithheldCursor(k)
    BY <1>2, <2>2, <2>4 DEF Verdicts
  <2>5. UpsertCursor(k, "admit") \/ UpsertCursor(k, "non_message") \/ UpsertWithheldCursor(k)
    BY DEF Decides, Admits, Withholds, Checkpoints
  <2> QED
    BY <2>3, <2>4, <2>5 DEF Verdicts
<1> QED
  BY <1>1, <1>3 DEF Typed, JournalTyped

LEMMA NextKeepsJournalTyped ==
    ASSUME Typed, [AdmissionNext]_admissionVars
    PROVE  JournalTyped'
<1> USE Parameters
<1>1. CASE UNCHANGED <<journal, history>>
  BY <1>1 DEF journal, history, Typed, JournalTyped
<1>2. CASE Deletes
  BY <1>2 DEF Deletes, history, Typed, JournalTyped
<1>3. ASSUME NEW t \in TaskIds, Decides(t)
      PROVE  JournalTyped'
  <2> DEFINE k == tasks[t].seq
             r == tasks[t].reg
  <2>1. /\ k \in Seqs /\ Session[k] \in Sessions /\ r \in Regs
        /\ cursor' \in [Sessions -> Cursors]
    BY <1>3, DecidingMovesForward
  <2>2. CASE Admits(t)
    <3>1. /\ rows' = [rows EXCEPT ![<<r, k>>] = "queued"]
          /\ target' = [target EXCEPT ![<<r, Session[k]>>] = k]
          /\ admittedEver' = admittedEver \cup {<<r, k>>}
          /\ UNCHANGED <<withheld, nonMessage, withheldEver>>
      BY <2>2 DEF Admits
    <3>2. k \in 0 .. N
      BY <2>1 DEF Seqs
    <3> HIDE DEF k, r
    <3> QED
      BY <2>1, <3>1, <3>2 DEF Typed, JournalTyped
  <2>3. CASE Withholds(t)
    BY <2>1, <2>3 DEF Withholds, Typed, JournalTyped
  <2>4. CASE Checkpoints(t)
    BY <2>1, <2>4 DEF Checkpoints, history, Typed, JournalTyped
  <2> QED
    BY <1>3, <2>2, <2>3, <2>4 DEF Decides
<1> QED
  BY <1>1, <1>2, <1>3, TablesStep

\* Of the task a step moves: it keeps its record and registration, and others
\* keep everything.
LEMMA TaskMoves ==
    ASSUME Typed, NEW t \in TaskIds, TaskStep(t) \/ Stops(t) \/ Faults(t)
    PROVE  /\ tasks' \in [TaskIds -> TaskRecords]
           /\ \A u \in TaskIds \ {t} : tasks'[u] = tasks[u]
           /\ tasks[t].step \in {"recover", "gate", "commit"}
           /\ \/ tasks'[t] = NoTask /\ t # waiting
              \/ /\ tasks'[t].seq = tasks[t].seq /\ tasks'[t].reg = tasks[t].reg
                 /\ tasks'[t].step \in {"gate", "commit"} \/ (t = waiting /\ tasks'[t].step = "done")
<1>1. tasks[t].step \in {"recover", "gate", "commit"}
  BY TaskFate
<1>2. CASE Advances(t)
  <2>1. PICK step \in {"gate", "commit"}, resume \in 0 .. N :
          tasks' = [tasks EXCEPT ![t].step = step, ![t].resume = resume]
    BY <1>2 DEF Advances
  <2>2. /\ tasks' \in [TaskIds -> TaskRecords]
        /\ \A u \in TaskIds \ {t} : tasks'[u] = tasks[u]
        /\ tasks'[t].seq = tasks[t].seq /\ tasks'[t].reg = tasks[t].reg
        /\ tasks'[t].step = step
    BY <2>1 DEF Typed, TasksTyped, TaskRecords, Steps
  <2> QED
    BY <1>1, <2>2
<1>3. CASE \E result \in Results : Finish(t, result)
  <2>1. PICK result \in Results : Finish(t, result)
    BY <1>3
  <2>2. TasksTyped
    BY DEF Typed
  <2> QED
    BY <1>1, <2>1, <2>2, FinishFacts
<1>4. Advances(t) \/ \E result \in Results : Finish(t, result)
  BY TaskFate, CommitDecides DEF Results
<1> QED
  BY <1>2, <1>3, <1>4

\* A task starts with its record and registration.
LEMMA NewTaskFacts ==
    ASSUME NEW k \in Seqs, NEW r \in Regs
    PROVE  LET new == [NoTask EXCEPT !.step = "recover", !.seq = k, !.reg = r]
           IN  new \in TaskRecords /\ new.step = "recover" /\ new.seq = k /\ new.reg = r
<1>1. k \in 0 .. N /\ r \in 0 .. MaxReg /\ 0 \in 0 .. N
  BY Parameters DEF Seqs, Regs
<1> DEFINE new == [NoTask EXCEPT !.step = "recover", !.seq = k, !.reg = r]
<1>2. NoTask \in TaskRecords
  BY Parameters DEF NoTask, TaskRecords, Steps, Results
<1>3. "recover" \in Steps
  BY DEF Steps
<1>4. new \in TaskRecords /\ new.step = "recover" /\ new.seq = k /\ new.reg = r
  BY <1>1, <1>2, <1>3 DEF TaskRecords
<1> QED
  BY <1>4

LEMMA NextKeepsTasksTyped ==
    ASSUME Typed, [AdmissionNext]_admissionVars
    PROVE  TasksTyped'
<1> USE Parameters DEF Typed, TasksTyped
<1>1. NoTask \in TaskRecords /\ NoTask.step = "free"
  BY DEF NoTask, TaskRecords, Steps, Results
<1>2. CASE ReadPage
  BY <1>2 DEF ReadPage, mount, revision, journal, history
<1>3. CASE SpawnIngest
  <2>1. PICK t \in TaskIds :
          /\ tasks[t] = NoTask
          /\ tasks' = [tasks EXCEPT ![t] = [NoTask EXCEPT
                         !.step = "recover", !.seq = Head(page), !.reg = reg]]
          /\ waiting' = t
    BY <1>3 DEF SpawnIngest
  <2>2. Head(page) \in Seqs /\ Head(page) \in 0 .. N /\ reg \in 0 .. MaxReg
    <3>1. page \in Seq(Seqs) /\ page # <<>>
      BY <1>3 DEF SpawnIngest, PageTyped
    <3>2. Head(page) \in Seqs
      BY <3>1
    <3> QED
      BY <3>2 DEF Seqs, Regs
  <2> DEFINE new == [NoTask EXCEPT !.step = "recover", !.seq = Head(page), !.reg = reg]
  <2>3. new \in TaskRecords /\ new.step = "recover" /\ new.seq = Head(page) /\ new.reg = reg
    BY <2>2, NewTaskFacts
  <2>4. pc = "record" /\ pc' = "join" /\ UNCHANGED <<reg, hides>>
    BY <1>3 DEF SpawnIngest, mount, revision
  <2>5. \A u \in TaskIds : tasks'[u] = IF u = t THEN new ELSE tasks[u]
    BY <2>1
  <2>6. tasks' \in [TaskIds -> TaskRecords] /\ waiting' = t /\ t \in 0 .. MaxTasks /\ t # 0
    BY <2>1, <2>3 DEF TaskIds
  <2> HIDE DEF new
  <2> QED
    BY <2>2, <2>3, <2>4, <2>5, <2>6
<1>4. CASE Joined
  <2>1. /\ pc = "join" /\ pc' \in {"record", "idle"} /\ waiting' = 0
        /\ tasks' = [tasks EXCEPT ![waiting] = NoTask]
        /\ UNCHANGED <<reg, hides>>
    BY <1>4 DEF Joined, mount, revision
  <2>2. \A u \in TaskIds : tasks'[u] = IF u = waiting THEN NoTask ELSE tasks[u]
    BY <2>1
  <2>3. tasks' \in [TaskIds -> TaskRecords]
    BY <1>1, <2>1
  <2>4. \A t \in TaskIds : tasks'[t].step # "free" => t # waiting /\ tasks'[t] = tasks[t]
    BY <1>1, <2>2
  <2> QED
    BY <2>1, <2>3, <2>4
<1>5. CASE JoinTimesOut
  BY <1>5 DEF JoinTimesOut, mount, revision
<1>6. ASSUME NEW t \in TaskIds, TaskStep(t) \/ Stops(t) \/ Faults(t)
      PROVE  TasksTyped'
  <2>1. UNCHANGED <<reg, hides, pc, page, waiting>>
    BY <1>6, TaskFate DEF mount, revision, loop
  <2>2. /\ tasks' \in [TaskIds -> TaskRecords]
        /\ \A u \in TaskIds \ {t} : tasks'[u] = tasks[u]
        /\ tasks[t].step \in {"recover", "gate", "commit"}
        /\ \/ tasks'[t] = NoTask /\ t # waiting
           \/ /\ tasks'[t].seq = tasks[t].seq /\ tasks'[t].reg = tasks[t].reg
              /\ tasks'[t].step \in {"gate", "commit"} \/ (t = waiting /\ tasks'[t].step = "done")
    BY <1>6, TaskMoves
  <2> QED
    BY <1>1, <2>1, <2>2
<1>7. ASSUME JournalOnly PROVE TasksTyped'
  BY <1>7 DEF JournalOnly, mount, revision, loop
<1>8. CASE Remount
  <2>1. reg' \in Regs /\ pc' = "idle" /\ waiting' = 0 /\ hides' = hides
    BY <1>8 DEF Remount, NewMount, revision
  <2>2. tasks' = [t \in TaskIds |-> IF tasks[t].step = "done" THEN NoTask ELSE tasks[t]]
    BY <1>8 DEF Remount
  <2> QED
    BY <1>1, <2>1, <2>2
<1>9. CASE Restart
  BY <1>1, <1>9 DEF Restart, NewMount
<1>10. CASE UNCHANGED admissionVars
  BY <1>10 DEF admissionVars, mount, revision, loop
<1>11. CASE ReadinessChanges
  BY <1>11 DEF ReadinessChanges, revision, loop
<1> QED
  BY <1>2, <1>3, <1>4, <1>5, <1>6, <1>7, <1>8, <1>9, <1>10, <1>11
  DEF AdmissionNext, LoopStep, Join, JoinSlow, Settle, DeleteRow, DeleteWithheld

LEMMA NextKeepsCountersTyped ==
    ASSUME Typed, [AdmissionNext]_admissionVars
    PROVE  CountersTyped'
<1> USE Parameters DEF Typed, CountersTyped
<1>1. CASE ReadPage \/ SpawnIngest
  BY <1>1 DEF ReadPage, SpawnIngest, mount, revision
<1>2. CASE Join \/ JoinSlow \/ JoinTimesOut
  <2>1. UNCHANGED mount /\ (breaches' = 0 \/ breaches' = Min({breaches + 1, BreachStreak}))
    BY <1>2 DEF Join, JoinSlow, Joined, JoinTimesOut, Breached
  <2>2. Min({breaches + 1, BreachStreak}) \in {breaches + 1, BreachStreak}
        /\ Min({breaches + 1, BreachStreak}) =< BreachStreak
    <3>1. CASE breaches + 1 =< BreachStreak
      BY <3>1 DEF Min
    <3>2. CASE ~(breaches + 1 =< BreachStreak)
      BY <3>2 DEF Min
    <3> QED
      BY <3>1, <3>2
  <2> QED
    BY <2>1, <2>2 DEF mount, revision
<1>3. ASSUME NEW t \in TaskIds, TaskStep(t) \/ Stops(t) \/ Faults(t)
      PROVE  CountersTyped'
  <2>1. UNCHANGED <<breaches, mounts, unreadable, ready>>
    BY <1>3, TaskFate DEF mount, revision
  <2> QED
    BY <2>1
<1>4. ASSUME JournalOnly PROVE CountersTyped'
  BY <1>4 DEF JournalOnly, mount, revision
<1>5. CASE Remount \/ Restart
  <2>1. breaches' = 0 /\ mounts' = mounts + 1 /\ mounts < MaxMounts /\ ready' = TRUE
    BY <1>5 DEF Remount, Restart, NewMount
  <2>2. unreadable' = unreadable \/ unreadable' \in SUBSET Suspect
    BY <1>5 DEF Remount, Restart, revision
  <2> QED
    BY <2>1, <2>2
<1>6. CASE UNCHANGED admissionVars
  BY <1>6 DEF admissionVars, mount, revision
<1>7. CASE ReadinessChanges
  BY <1>7 DEF ReadinessChanges, revision
<1> QED
  BY <1>1, <1>2, <1>3, <1>4, <1>5, <1>6, <1>7
  DEF AdmissionNext, LoopStep, Settle, DeleteRow, DeleteWithheld

LEMMA NextKeepsPageTyped ==
    ASSUME Typed, [AdmissionNext]_admissionVars
    PROVE  PageTyped'
<1> USE Parameters DEF Typed, PageTyped
<1>1. CASE ReadPage
  <2>1. Watermark \in 0 .. N /\ Watermark < N
    BY <1>1, WatermarkFacts DEF ReadPage
  <2> DEFINE n == Min({PageItems, N - Watermark})
  <2>2. n \in Nat \ {0} /\ n =< PageItems /\ n =< N - Watermark
    <3>1. N - Watermark \in Nat \ {0}
      BY <2>1
    <3>2. CASE PageItems =< N - Watermark
      <4>1. n = PageItems
        BY <3>1, <3>2 DEF Min
      <4> QED
        BY <3>2, <4>1
    <3>3. CASE ~(PageItems =< N - Watermark)
      <4>1. n = N - Watermark
        BY <3>1, <3>3 DEF Min
      <4> QED
        BY <3>1, <3>3, <4>1
    <3> QED
      BY <3>2, <3>3
  <2>3. page' = [i \in 1 .. n |-> Watermark + i]
    BY <1>1 DEF ReadPage
  <2>4. \A i \in 1 .. n : Watermark + i \in Seqs
    BY <2>1, <2>2 DEF Seqs
  <2>5. pc' = "record" /\ waiting' = waiting /\ waiting = 0
    BY <1>1 DEF ReadPage, TasksTyped
  <2> HIDE DEF n
  <2>6. page' \in Seq(Seqs) /\ Len(page') = n
    BY <2>2, <2>3, <2>4
  <2>7. \A i \in 1 .. n : page'[i] = page'[1] + i - 1
    BY <2>1, <2>2, <2>3
  <2> QED
    BY <2>2, <2>5, <2>6, <2>7
<1>2. CASE SpawnIngest
  <2>1. PICK t \in TaskIds :
          /\ tasks' = [tasks EXCEPT ![t] = [NoTask EXCEPT
                         !.step = "recover", !.seq = Head(page), !.reg = reg]]
          /\ waiting' = t
    BY <1>2 DEF SpawnIngest
  <2>2. page' = page /\ page # <<>> /\ page \in Seq(Seqs)
    BY <1>2 DEF SpawnIngest
  <2>3. tasks'[t].seq = page[1] /\ tasks'[t].step = "recover"
    BY <2>1, <2>2 DEF NoTask, TasksTyped
  <2> QED
    BY <2>1, <2>2, <2>3
<1>3. CASE Joined
  <2>1. CASE page' = Tail(page) /\ Len(page) > 1
    <3>0. page[1] \in Nat /\ Len(page) \in Nat
      <4>1. page \in Seq(Seqs) /\ page # <<>>
        BY <2>1
      <4>2. Head(page) \in Seqs /\ Head(page) = page[1] /\ Len(page) \in Nat
        BY <4>1
      <4> QED
        BY <4>2
    <3>1. page' \in Seq(Seqs) /\ Len(page') = Len(page) - 1
          /\ \A i \in 1 .. Len(page) - 1 : page'[i] = page[i + 1]
      BY <2>1
    <3>2. \A i \in 1 .. Len(page') : page'[i] = page[1] + i
      <4> SUFFICES ASSUME NEW i \in 1 .. Len(page')
                   PROVE  page'[i] = page[1] + i
        OBVIOUS
      <4>1. i + 1 \in 1 .. Len(page) /\ page'[i] = page[i + 1]
        BY <2>1, <3>1
      <4>2. page[i + 1] = page[1] + (i + 1) - 1
        BY <4>1
      <4> QED
        BY <3>0, <4>1, <4>2
    <3>3. Len(page') \in Nat /\ Len(page') >= 1 /\ Len(page') =< PageItems
      BY <2>1, <3>0, <3>1
    <3>4. \A i \in 1 .. Len(page') : page'[i] = page'[1] + i - 1
      BY <3>0, <3>2, <3>3
    <3>5. waiting' = 0 /\ page' # <<>>
      BY <1>3, <3>3 DEF Joined
    <3> QED
      BY <3>1, <3>3, <3>4, <3>5
  <2>2. CASE page' = <<>> /\ pc' = "idle"
    BY <1>3, <2>2 DEF Joined
  <2> QED
    BY <1>3, <2>1, <2>2 DEF Joined
<1>4. CASE JoinTimesOut
  BY <1>4 DEF JoinTimesOut
<1>5. ASSUME NEW t \in TaskIds, TaskStep(t) \/ Stops(t) \/ Faults(t)
      PROVE  PageTyped'
  <2>1. UNCHANGED <<pc, page, waiting>>
    BY <1>5, TaskFate DEF loop
  <2>2. waiting # 0 => waiting \in TaskIds
    BY DEF TasksTyped, TaskIds
  <2>3. waiting # 0 => tasks'[waiting].seq = page[1] /\ tasks'[waiting].step # "free"
    BY <1>5, <2>2, TaskMoves
  <2> QED
    BY <2>1, <2>3
<1>6. ASSUME JournalOnly PROVE PageTyped'
  BY <1>6 DEF JournalOnly, loop
<1>7. CASE Remount \/ Restart
  <2>1. pc' = "idle" /\ page' = <<>> /\ waiting' = 0
    BY <1>7 DEF Remount, Restart, NewMount
  <2> QED
    BY <2>1
<1>8. CASE ReadinessChanges \/ UNCHANGED admissionVars
  BY <1>8 DEF ReadinessChanges, admissionVars, loop
<1> QED
  BY <1>1, <1>2, <1>3, <1>4, <1>5, <1>6, <1>7, <1>8
  DEF AdmissionNext, LoopStep, Join, JoinSlow, Settle, DeleteRow, DeleteWithheld

LEMMA NextKeepsTyped ==
    ASSUME Typed, [AdmissionNext]_admissionVars
    PROVE  Typed'
BY NextKeepsJournalTyped, NextKeepsTasksTyped, NextKeepsPageTyped,
   NextKeepsCountersTyped DEF Typed

LEMMA InitTyped == AdmissionInit => Typed
<1> SUFFICES ASSUME AdmissionInit
             PROVE  Typed
  OBVIOUS
<1> USE Parameters DEF AdmissionInit
<1>1. JournalTyped
  BY DEF JournalTyped, Cursors
<1>2. TasksTyped
  <2>1. NoTask \in TaskRecords /\ NoTask.step = "free"
    BY DEF NoTask, TaskRecords, Steps, Results
  <2>2. 1 \in Regs
    BY DEF Regs
  <2> QED
    BY <2>1, <2>2 DEF TasksTyped
<1>3. PageTyped /\ CountersTyped
  BY DEF PageTyped, CountersTyped
<1> QED
  BY <1>1, <1>2, <1>3 DEF Typed

-----------------------------------------------------------------------------
(* Replay skips nothing.                                                   *)

\* Every record below k is decided.
Front(k) == \A j \in Seqs : j < k => Decided(j)

\* A decided record is covered by its session's position, and no position
\* passes an undecided record.
CursorCovers == \A k \in Seqs : Decided(k) => k =< cursor[Session[k]].seq
NoSessionLeavesGaps == \A s \in Sessions : \A k \in Seqs : k =< cursor[s].seq => Decided(k)

\* A task's record is at the front when it is started, and stays so; the
\* position it read is not above the one that stands; and "ok" means decided.
TaskInOrder(t) ==
    /\ Front(tasks[t].seq)
    /\ tasks[t].step \in {"gate", "commit"} =>
           tasks[t].resume =< cursor[Session[tasks[t].seq]].seq
    /\ tasks[t].step = "done" /\ tasks[t].result = "ok" => Decided(tasks[t].seq)

\* What the tables hold was decided, and the kind of a record decides whether
\* it can be a checkpoint.
HistoryKept ==
    /\ \A r \in Regs, k \in Seqs : rows[<<r, k>>] # "none" => <<r, k>> \in admittedEver
    /\ withheld \subseteq withheldEver
    /\ nonMessage \subseteq NonMessages
    /\ \A p \in admittedEver : p[2] \notin NonMessages
    /\ withheldEver \cap NonMessages = {}

Positions ==
    /\ HistoryKept
    /\ CursorCovers
    /\ NoSessionLeavesGaps
    /\ \A t \in TaskIds : tasks[t].step # "free" => TaskInOrder(t)
    /\ page # <<>> => Front(page[1])

\* Which records are decided, step by step.
LEMMA DecisionsGrow ==
    ASSUME Typed, [AdmissionNext]_admissionVars
    PROVE  \/ /\ \A k \in Seqs : Decided(k)' <=> Decided(k)
              /\ cursor' = cursor
           \/ \E t \in TaskIds :
                /\ Decides(t)
                /\ \A k \in Seqs : Decided(k)' <=> Decided(k) \/ k = tasks[t].seq
<1>1. CASE UNCHANGED <<journal, history>> \/ Deletes
  BY <1>1 DEF journal, history, Deletes, Decided
<1>2. ASSUME NEW t \in TaskIds, Decides(t)
      PROVE  \A k \in Seqs : Decided(k)' <=> Decided(k) \/ k = tasks[t].seq
  <2>1. tasks[t].reg \in Regs
    BY <1>2, DecidingMovesForward
  <2>2. CASE Admits(t)
    BY <2>1, <2>2 DEF Admits, Decided
  <2>3. CASE Withholds(t)
    BY <2>3 DEF Withholds, Decided
  <2>4. CASE Checkpoints(t)
    BY <2>4 DEF Checkpoints, history, Decided
  <2> QED
    BY <1>2, <2>2, <2>3, <2>4 DEF Decides
<1> QED
  BY <1>1, <1>2, TablesStep

\* Positions and decisions only grow.
LEMMA Monotone ==
    ASSUME Typed, [AdmissionNext]_admissionVars
    PROVE  /\ \A k \in Seqs : Decided(k) => Decided(k)'
           /\ \A s \in Sessions : cursor[s].seq =< cursor'[s].seq
<1> USE Parameters
<1>1. \A s \in Sessions : cursor[s].seq \in 0 .. N
  BY DEF Typed, JournalTyped, Cursors
<1>2. CASE cursor' = cursor
  BY <1>1, <1>2, DecisionsGrow
<1>3. ASSUME NEW t \in TaskIds, Decides(t)
      PROVE  \A s \in Sessions : cursor[s].seq =< cursor'[s].seq
  <2>1. tasks[t].seq \in Nat
    BY <1>3, DecidingMovesForward
  <2> QED
    BY <1>1, <1>3, <2>1, DecidingMovesForward
<1> QED
  BY <1>2, <1>3, DecisionsGrow

LEMMA NextKeepsCoverage ==
    ASSUME Typed, Positions, [AdmissionNext]_admissionVars
    PROVE  CursorCovers' /\ NoSessionLeavesGaps'
<1> USE Parameters DEF Positions
<1>1. CASE (\A k \in Seqs : Decided(k)' <=> Decided(k)) /\ cursor' = cursor
  BY <1>1 DEF CursorCovers, NoSessionLeavesGaps
<1>2. ASSUME NEW t \in TaskIds, Decides(t),
             \A k \in Seqs : Decided(k)' <=> Decided(k) \/ k = tasks[t].seq
      PROVE  CursorCovers' /\ NoSessionLeavesGaps'
  <2> DEFINE n == tasks[t].seq
             z == Session[n]
  <2>1. /\ n \in Seqs /\ z \in Sessions
        /\ \A u \in Sessions \ {z} : cursor'[u] = cursor[u]
        /\ cursor'[z].seq = IF n >= cursor[z].seq THEN n ELSE cursor[z].seq
    BY <1>2, DecidingMovesForward
  <2>2. \A s \in Sessions : cursor[s].seq \in 0 .. N
    BY DEF Typed, JournalTyped, Cursors
  <2>3. Front(n)
    BY <1>2 DEF Decides, Admits, Withholds, Checkpoints, Committing, TaskInOrder
  <2> HIDE DEF n, z
  <2>4. n =< cursor'[z].seq
    <3>1. n \in Nat /\ cursor[z].seq \in Nat
      BY <2>1, <2>2
    <3> QED
      BY <2>1, <3>1
  <2>5. CursorCovers'
    <3> SUFFICES ASSUME NEW k \in Seqs, Decided(k)'
                 PROVE  k =< cursor'[Session[k]].seq
      BY DEF CursorCovers
    <3>1. CASE k = n
      BY <2>4, <3>1 DEF z
    <3>2. CASE k # n
      <4>1. k =< cursor[Session[k]].seq /\ Session[k] \in Sessions
        BY <1>2, <3>2 DEF CursorCovers, n
      <4>2. cursor[Session[k]].seq =< cursor'[Session[k]].seq
        BY <4>1, Monotone
      <4>3. cursor[Session[k]].seq \in Nat /\ cursor'[Session[k]].seq \in Int /\ k \in Nat
        BY <2>1, <2>2, <4>1
      <4> QED
        BY <4>1, <4>2, <4>3
    <3> QED
      BY <3>1, <3>2
  <2>6. NoSessionLeavesGaps'
    <3> SUFFICES ASSUME NEW s \in Sessions, NEW k \in Seqs, k =< cursor'[s].seq
                 PROVE  Decided(k)'
      BY DEF NoSessionLeavesGaps
    <3>1. CASE cursor'[s].seq = cursor[s].seq
      BY <1>2, <3>1 DEF NoSessionLeavesGaps
    <3>2. CASE cursor'[s].seq = n
      <4>1. k < n \/ k = n
        BY <2>1, <3>2
      <4> QED
        BY <1>2, <2>3, <4>1 DEF Front, n
    <3> QED
      BY <2>1, <3>1, <3>2
  <2> QED
    BY <2>5, <2>6
<1> QED
  BY <1>1, <1>2, DecisionsGrow

\* A task that keeps its record and its place keeps its order.
LEMMA KeptTasksStayInOrder ==
    ASSUME Typed, Positions, [AdmissionNext]_admissionVars, NEW t \in TaskIds,
           tasks[t].step # "free", tasks'[t] = tasks[t]
    PROVE  TaskInOrder(t)'
<1> USE Parameters
<1>1. TaskInOrder(t) /\ tasks[t].seq \in Seqs /\ Session[tasks[t].seq] \in Sessions
  BY DEF Positions, Typed, TasksTyped
<1> DEFINE z == Session[tasks[t].seq]
<1>2. cursor[z].seq =< cursor'[z].seq /\ cursor[z].seq \in Int /\ cursor'[z].seq \in Int
      /\ tasks[t].resume \in Int
  <2>1. cursor[z].seq \in 0 .. N /\ tasks[t].resume \in 0 .. N
    BY <1>1 DEF Typed, JournalTyped, Cursors, TasksTyped, TaskRecords
  <2>2. cursor'[z].seq \in 0 .. N
    BY <1>1, NextKeepsJournalTyped DEF JournalTyped, Cursors
  <2>3. cursor[z].seq =< cursor'[z].seq
    BY <1>1, Monotone
  <2> QED
    BY <2>1, <2>2, <2>3
<1>3. Front(tasks[t].seq)'
  BY <1>1, Monotone DEF TaskInOrder, Front
<1>4. tasks[t].step \in {"gate", "commit"} => tasks[t].resume =< cursor'[z].seq
  BY <1>1, <1>2 DEF TaskInOrder
<1>5. tasks[t].step = "done" /\ tasks[t].result = "ok" => Decided(tasks[t].seq)'
  BY <1>1, Monotone DEF TaskInOrder
<1> QED
  BY <1>3, <1>4, <1>5 DEF TaskInOrder, Front

\* A task that moved: it reads the position that stands, and ends with "ok"
\* only when its record is decided.
LEMMA MovedTasksStayInOrder ==
    ASSUME Typed, Positions, [AdmissionNext]_admissionVars, NEW t \in TaskIds,
           TaskStep(t) \/ Stops(t) \/ Faults(t), tasks'[t].step # "free"
    PROVE  TaskInOrder(t)'
<1> USE Parameters
<1>0. PICK n, z : n = tasks[t].seq /\ z = Session[n]
  OBVIOUS
<1>1. /\ tasks[t].step \in {"recover", "gate", "commit"}
      /\ TaskInOrder(t) /\ n \in Seqs /\ z \in Sessions
  BY <1>0, TaskFate DEF Positions, Typed, TasksTyped
<1>2. Front(n)'
  BY <1>0, <1>1, Monotone DEF TaskInOrder, Front
<1>3. cursor[z].seq \in 0 .. N /\ cursor'[z].seq \in 0 .. N /\ cursor[z].seq =< cursor'[z].seq
  <2>1. cursor[z].seq \in 0 .. N
    BY <1>1 DEF Typed, JournalTyped, Cursors
  <2>2. cursor'[z].seq \in 0 .. N
    BY <1>1, NextKeepsJournalTyped DEF JournalTyped, Cursors
  <2> QED
    BY <1>1, <2>1, <2>2, Monotone
<1>4. CASE Advances(t)
  <2>1. PICK step \in {"gate", "commit"}, resume \in 0 .. N :
          /\ tasks' = [tasks EXCEPT ![t].step = step, ![t].resume = resume]
          /\ \/ resume = tasks[t].resume /\ tasks[t].step # "recover"
             \/ resume = cursor[z].seq
    BY <1>0, <1>4 DEF Advances
  <2>2. tasks'[t].seq = n /\ tasks'[t].step = step /\ tasks'[t].resume = resume
    BY <1>0, <2>1 DEF Typed, TasksTyped, TaskRecords
  <2>3. resume =< cursor[z].seq
    BY <1>0, <1>1, <1>3, <2>1 DEF TaskInOrder
  <2>4. resume =< cursor'[z].seq
    BY <1>3, <2>1, <2>3
  <2> QED
    BY <1>0, <1>2, <2>2, <2>4 DEF TaskInOrder, Front
<1>5. ASSUME NEW result \in Results, Finish(t, result), result = "ok" => Decided(n)'
      PROVE  TaskInOrder(t)'
  <2>1. /\ t # waiting => tasks'[t] = NoTask
        /\ t = waiting => /\ tasks'[t].step = "done" /\ tasks'[t].result = result
                          /\ tasks'[t].seq = n
    BY <1>0, <1>5, FinishFacts DEF Typed
  <2>2. tasks'[t].step = "done" /\ tasks'[t].result = result /\ tasks'[t].seq = n
    BY <2>1 DEF NoTask
  <2> QED
    BY <1>2, <1>5, <2>2 DEF TaskInOrder, Front
<1>6. CASE \E result \in Results \ {"ok"} : Finish(t, result)
  BY <1>5, <1>6
<1>7. CASE tasks[t].step = "gate" /\ n =< tasks[t].resume /\ Finish(t, "ok")
  <2>1. tasks[t].resume =< cursor[z].seq /\ tasks[t].resume \in 0 .. N
    BY <1>0, <1>1, <1>7 DEF TaskInOrder, Typed, TasksTyped, TaskRecords
  <2>2. n =< cursor[z].seq
    <3>1. n \in Nat
      BY <1>1
    <3> QED
      BY <1>3, <1>7, <2>1, <3>1
  <2>3. Decided(n)'
    BY <1>1, <2>2, Monotone DEF Positions, NoSessionLeavesGaps
  <2>4. "ok" \in Results
    BY DEF Results
  <2> QED
    BY <1>5, <1>7, <2>3, <2>4
<1>8. CASE Commit(t)
  <2>1. PICK result \in Results :
             /\ Finish(t, result)
             /\ \/ Decides(t)
                \/ /\ UNCHANGED <<journal, history>>
                   /\ result = "ok" => \/ rows[<<tasks[t].reg, tasks[t].seq>>] # "none"
                                       \/ tasks[t].seq \in nonMessage
    BY <1>8, CommitDecides
  <2>2. result = "ok" => Decided(n)'
    <3>1. CASE Decides(t)
      <4>1. tasks[t].reg \in Regs
        BY <3>1, DecidingMovesForward
      <4> QED
        BY <1>0, <1>1, <3>1, <4>1 DEF Decides, Admits, Withholds, Checkpoints, Decided, history
    <3>2. CASE ~Decides(t)
      <4>1. result = "ok" => Decided(n)
        BY <1>0, <1>1, <2>1, <3>2 DEF Decided, HistoryKept, Positions, Typed, TasksTyped
      <4> QED
        BY <1>1, <4>1, Monotone
    <3> QED
      BY <3>1, <3>2
  <2> QED
    BY <1>5, <2>1, <2>2
<1> QED
  BY <1>0, <1>4, <1>6, <1>7, <1>8, TaskFate

LEMMA NextKeepsHistory ==
    ASSUME Typed, HistoryKept, [AdmissionNext]_admissionVars
    PROVE  HistoryKept'
<1> USE Parameters
<1>1. CASE UNCHANGED <<journal, history>>
  BY <1>1 DEF journal, history, HistoryKept
<1>2. CASE Deletes
  BY <1>2 DEF Deletes, history, HistoryKept
<1>3. ASSUME NEW t \in TaskIds, Decides(t)
      PROVE  HistoryKept'
  <2>0. PICK k, r : k = tasks[t].seq /\ r = tasks[t].reg
    OBVIOUS
  <2>1. k \in Seqs /\ r \in Regs
    BY <1>3, <2>0, DecidingMovesForward
  <2>2. CASE Admits(t)
    <3>1. /\ k \notin NonMessages
          /\ rows' = [rows EXCEPT ![<<r, k>>] = "queued"]
          /\ admittedEver' = admittedEver \cup {<<r, k>>}
          /\ UNCHANGED <<withheld, nonMessage, withheldEver>>
      BY <2>0, <2>2 DEF Admits
    <3> QED
      BY <2>1, <3>1 DEF HistoryKept, Typed, JournalTyped
  <2>3. CASE Withholds(t)
    <3>1. k \notin NonMessages
      BY <2>0, <2>3 DEF Withholds, Typed, TasksTyped
    <3> QED
      BY <2>0, <2>3, <3>1 DEF Withholds, HistoryKept
  <2>4. CASE Checkpoints(t)
    BY <2>4 DEF Checkpoints, history, HistoryKept
  <2> QED
    BY <1>3, <2>2, <2>3, <2>4 DEF Decides
<1> QED
  BY <1>1, <1>2, <1>3, TablesStep

\* Tasks are started in order and stay in order.
LEMMA NextKeepsTaskOrder ==
    ASSUME Typed, Positions, [AdmissionNext]_admissionVars,
           NEW t \in TaskIds, tasks'[t].step # "free"
    PROVE  TaskInOrder(t)'
<1>1. CASE tasks'[t] = tasks[t]
  BY <1>1, KeptTasksStayInOrder
<1>2. NoTask.step = "free"
  BY DEF NoTask
<1>3. CASE SpawnIngest
  <2>1. PICK u \in TaskIds :
          tasks' = [tasks EXCEPT ![u] = [NoTask EXCEPT
                         !.step = "recover", !.seq = Head(page), !.reg = reg]]
    BY <1>3 DEF SpawnIngest
  <2>2. CASE t = u
    <3>1. page \in Seq(Seqs) /\ page # <<>>
      BY <1>3 DEF SpawnIngest, Typed, PageTyped
    <3>2. Head(page) = page[1] /\ Head(page) \in Seqs /\ reg \in Regs
      BY <3>1 DEF Typed, TasksTyped
    <3>3. tasks'[t].seq = Head(page) /\ tasks'[t].step = "recover"
      <4>0. Head(page) \in Seqs /\ reg \in Regs
        BY <3>2
      <4> DEFINE new == [NoTask EXCEPT !.step = "recover", !.seq = Head(page), !.reg = reg]
      <4>1. new \in TaskRecords /\ new.step = "recover" /\ new.seq = Head(page) /\ new.reg = reg
        BY <4>0, NewTaskFacts
      <4>2. tasks' = [tasks EXCEPT ![t] = new] /\ tasks \in [TaskIds -> TaskRecords]
        BY <2>1, <2>2 DEF Typed, TasksTyped
      <4> HIDE DEF new
      <4>3. tasks'[t] = new
        BY <4>2
      <4> QED
        BY <4>1, <4>3
    <3>4. Front(Head(page))
      BY <3>1, <3>2 DEF Positions
    <3>5. PICK n : n = Head(page)
      OBVIOUS
    <3>6. Front(n)'
      BY <3>4, <3>5, Monotone DEF Front
    <3> QED
      BY <3>3, <3>5, <3>6 DEF TaskInOrder, Front
  <2>3. CASE t # u
    BY <1>1, <2>1, <2>3 DEF Typed, TasksTyped
  <2> QED
    BY <2>2, <2>3
<1>4. CASE Joined
  BY <1>1, <1>2, <1>4 DEF Joined, Typed, TasksTyped
<1>5. ASSUME NEW u \in TaskIds, TaskStep(u) \/ Stops(u) \/ Faults(u)
      PROVE  TaskInOrder(t)'
  <2>1. CASE t = u
    BY <1>5, <2>1, MovedTasksStayInOrder
  <2>2. CASE t # u
    BY <1>1, <1>5, <2>2, TaskMoves
  <2> QED
    BY <2>1, <2>2
<1>6. CASE Remount
  BY <1>1, <1>2, <1>6 DEF Remount
<1>7. CASE Restart
  BY <1>2, <1>7 DEF Restart
<1>8. CASE ReadPage \/ ReadinessChanges \/ JoinTimesOut \/ JournalOnly \/ UNCHANGED admissionVars
  BY <1>1, <1>8 DEF ReadPage, ReadinessChanges, JoinTimesOut, JournalOnly, admissionVars
<1> QED
  BY <1>3, <1>4, <1>5, <1>6, <1>7, <1>8
  DEF AdmissionNext, LoopStep, Join, JoinSlow, Settle, DeleteRow, DeleteWithheld

\* The page starts at the front: after the watermark, then one further for
\* every record that was decided.
LEMMA NextKeepsPageOrder ==
    ASSUME Typed, Positions, [AdmissionNext]_admissionVars, page' # <<>>
    PROVE  Front(page[1])'
<1> USE Parameters
<1>1. CASE page' = page
  <2>1. PICK n : n = page[1]
    OBVIOUS
  <2>2. Front(n)
    BY <1>1, <2>1 DEF Positions
  <2>3. Front(n)'
    BY <2>2, Monotone DEF Front
  <2> QED
    BY <1>1, <2>1, <2>3
<1>2. CASE ReadPage
  <2>1. /\ Watermark \in 0 .. N /\ Watermark < N
        /\ \E s \in Sessions : Watermark = cursor[s].seq
    BY <1>2, WatermarkFacts DEF ReadPage, Typed
  <2>2. PICK w : w = Watermark
    OBVIOUS
  <2>3. page'[1] = w + 1
    <3>1. page' = [i \in 1 .. Min({PageItems, N - Watermark}) |-> Watermark + i]
      BY <1>2 DEF ReadPage
    <3>2. Typed'
      BY NextKeepsTyped
    <3>3. 1 \in 1 .. Len(page') /\ page' \in Seq(Seqs)
      BY <3>2 DEF Typed, PageTyped
    <3>4. 1 \in DOMAIN page'
      BY <3>3
    <3> QED
      BY <2>2, <3>1, <3>4
  <2>4. \A j \in Seqs : j < w + 1 => Decided(j)
    <3> SUFFICES ASSUME NEW j \in Seqs, j < w + 1
                 PROVE  Decided(j)
      OBVIOUS
    <3>1. j =< w
      BY <2>1, <2>2
    <3> QED
      BY <2>1, <2>2, <3>1 DEF Positions, NoSessionLeavesGaps
  <2> QED
    BY <2>3, <2>4, Monotone DEF Front
<1>3. CASE Joined
  <2>1. /\ page' = Tail(page) /\ Len(page) > 1 /\ pc = "join"
        /\ tasks[waiting].step = "done" /\ tasks[waiting].result = "ok"
    BY <1>3 DEF Joined, PassContinues
  <2>2. waiting \in TaskIds /\ tasks[waiting].seq = page[1]
    BY <2>1 DEF Typed, TasksTyped, PageTyped, TaskIds
  <2>3. Front(page[1]) /\ Decided(page[1])
    BY <2>1, <2>2 DEF Positions, TaskInOrder
  <2>4. page \in Seq(Seqs) /\ 1 \in 1 .. Len(page) /\ 2 \in 1 .. Len(page)
    BY <2>1 DEF Typed, PageTyped
  <2>5. page'[1] = page[2] /\ page[2] = page[1] + 1
    <3>1. Len(page) \in Nat /\ page # <<>>
      BY <2>1, <2>4
    <3>2. page'[1] = page[2]
      BY <2>1, <2>4
    <3>3. page[2] = page[1] + 2 - 1
      BY <2>4 DEF Typed, PageTyped
    <3>4. Head(page) = page[1] /\ Head(page) \in Seqs
      BY <2>4, <3>1
    <3> QED
      BY <3>2, <3>3, <3>4
  <2>6. PICK n : n = page[1]
    OBVIOUS
  <2>7. n \in Seqs
    <3>1. page # <<>>
      BY <2>1
    <3>2. Head(page) = page[1] /\ Head(page) \in Seqs
      BY <2>4, <3>1
    <3> QED
      BY <2>6, <3>2
  <2>8. \A j \in Seqs : j < n + 1 => Decided(j)
    BY <2>3, <2>6, <2>7 DEF Front
  <2> QED
    BY <2>5, <2>6, <2>8, Monotone DEF Front
<1>4. ASSUME NEW u \in TaskIds, TaskStep(u) \/ Stops(u) \/ Faults(u)
      PROVE  page' = page
  BY <1>4, TaskFate DEF loop
<1>5. CASE SpawnIngest \/ ReadinessChanges \/ JournalOnly \/ UNCHANGED admissionVars
  BY <1>1, <1>5 DEF SpawnIngest, ReadinessChanges, JournalOnly, admissionVars, loop
<1>6. CASE JoinTimesOut \/ Remount \/ Restart
  BY <1>6 DEF JoinTimesOut, Remount, Restart, NewMount
<1> QED
  BY <1>1, <1>2, <1>3, <1>4, <1>5, <1>6
  DEF AdmissionNext, LoopStep, Join, JoinSlow, Settle, DeleteRow, DeleteWithheld

LEMMA NextKeepsPositions ==
    ASSUME Typed, Positions, [AdmissionNext]_admissionVars
    PROVE  Positions'
<1>1. HistoryKept' /\ CursorCovers' /\ NoSessionLeavesGaps'
  BY NextKeepsHistory, NextKeepsCoverage DEF Positions
<1>2. \A t \in TaskIds : tasks'[t].step # "free" => TaskInOrder(t)'
  BY NextKeepsTaskOrder
<1>3. page' # <<>> => Front(page[1])'
  BY NextKeepsPageOrder
<1> QED
  BY <1>1, <1>2, <1>3 DEF Positions

LEMMA InitPositions == AdmissionInit => Positions
<1> SUFFICES ASSUME AdmissionInit
             PROVE  Positions
  OBVIOUS
<1> USE Parameters DEF AdmissionInit
<1>1. HistoryKept
  BY DEF HistoryKept
<1>2. CursorCovers /\ NoSessionLeavesGaps
  BY DEF CursorCovers, NoSessionLeavesGaps, Decided
<1>3. \A t \in TaskIds : tasks[t].step = "free"
  BY DEF NoTask
<1> QED
  BY <1>1, <1>2, <1>3 DEF Positions

\* Every record at or below the watermark was admitted, withheld or
\* checkpointed: the replay that resumes there skips nothing, in whatever
\* order late tasks commit and however often the journey is mounted again.
THEOREM ReplaySkipsNothing == AdmissionSpec => []NoGapBelowWatermark
<1>1. Typed /\ Positions => NoGapBelowWatermark
  <2> SUFFICES ASSUME Typed, Positions, NEW k \in 1 .. Watermark
               PROVE  Decided(k)
    BY DEF NoGapBelowWatermark
  <2>1. Watermark \in 0 .. N /\ \E s \in Sessions : Watermark = cursor[s].seq
    BY WatermarkFacts DEF Typed
  <2>2. k \in Seqs /\ k =< Watermark
    BY <2>1, Parameters DEF Seqs
  <2> QED
    BY <2>1, <2>2 DEF Positions, NoSessionLeavesGaps
<1>2. Typed /\ Positions /\ [AdmissionNext]_admissionVars => Typed' /\ Positions'
  BY NextKeepsTyped, NextKeepsPositions
<1> QED
  BY <1>1, <1>2, InitTyped, InitPositions, PTL DEF AdmissionSpec

-----------------------------------------------------------------------------
(* A record is decided one way for good.                                   *)

\* What was decided of record k is what this process would decide.
Agreeing(k) ==
    /\ k \in withheldEver => k \in hides
    /\ \A r \in Regs : <<r, k>> \in admittedEver => k \notin hides

\* Records that may still be committed agree: they were undecided when their
\* page was read, and the process that read it decides the same way since.
Agreement ==
    /\ DecidedOnce
    /\ \A t \in TaskIds : tasks[t].step # "free" => Agreeing(tasks[t].seq)
    /\ \A i \in 1 .. Len(page) : Agreeing(page[i])

\* A step without a change of process keeps agreement, record by record.
LEMMA AgreementIsKept ==
    ASSUME Typed, [AdmissionNext]_admissionVars, hides' = hides, NEW k \in Seqs, Agreeing(k)
    PROVE  Agreeing(k)'
<1>1. CASE UNCHANGED <<journal, history>> \/ Deletes
  BY <1>1 DEF history, Deletes, Agreeing
<1>2. ASSUME NEW t \in TaskIds, Decides(t)
      PROVE  Agreeing(k)'
  BY <1>2 DEF Decides, Admits, Withholds, Checkpoints, history, Agreeing
<1> QED
  BY <1>1, <1>2, TablesStep

LEMMA NextKeepsDecidedOnce ==
    ASSUME Typed, Positions, Agreement, [AdmissionNext]_admissionVars
    PROVE  DecidedOnce'
<1> USE Parameters
<1>1. CASE UNCHANGED <<journal, history>> \/ Deletes
  BY <1>1 DEF journal, history, Deletes, Agreement, DecidedOnce
<1>2. ASSUME NEW t \in TaskIds, Decides(t)
      PROVE  DecidedOnce'
  <2>0. PICK k, r : k = tasks[t].seq /\ r = tasks[t].reg
    OBVIOUS
  <2>1. k \in Seqs /\ r \in Regs /\ Agreeing(k)
    BY <1>2, <2>0, DecidingMovesForward
    DEF Decides, Admits, Withholds, Checkpoints, Committing, Agreement
  <2>2. HistoryKept
    BY DEF Positions
  <2>3. CASE Admits(t)
    <3>1. /\ k \notin NonMessages \cup hides
          /\ admittedEver' = admittedEver \cup {<<r, k>>}
          /\ UNCHANGED <<nonMessage, withheldEver>>
      BY <2>0, <2>3 DEF Admits
    <3>2. k \notin withheldEver /\ k \notin nonMessage
      BY <2>1, <2>2, <3>1 DEF Agreeing, HistoryKept
    <3> QED
      BY <3>1, <3>2 DEF Agreement, DecidedOnce
  <2>4. CASE Withholds(t)
    <3>1. /\ k \in hides
          /\ withheldEver' = withheldEver \cup {k}
          /\ UNCHANGED <<nonMessage, admittedEver>>
      BY <2>0, <2>4 DEF Withholds
    <3>2. k \notin nonMessage /\ \A q \in Regs : <<q, k>> \notin admittedEver
      BY <2>1, <2>2, <3>1 DEF Agreeing, HistoryKept, Typed, TasksTyped
    <3> QED
      BY <3>1, <3>2 DEF Agreement, DecidedOnce
  <2>5. CASE Checkpoints(t)
    <3>1. /\ k \in NonMessages
          /\ nonMessage' = nonMessage \cup {k}
          /\ UNCHANGED <<withheldEver, admittedEver>>
      BY <2>0, <2>5 DEF Checkpoints, history
    <3>2. k \notin withheldEver /\ \A q \in Regs : <<q, k>> \notin admittedEver
      BY <2>2, <3>1 DEF HistoryKept
    <3> QED
      BY <3>1, <3>2 DEF Agreement, DecidedOnce
  <2> QED
    BY <1>2, <2>3, <2>4, <2>5 DEF Decides
<1> QED
  BY <1>1, <1>2, TablesStep

LEMMA NextKeepsAgreement ==
    ASSUME Typed, Positions, Agreement, [AdmissionNext]_admissionVars
    PROVE  Agreement'
<1> USE Parameters
<1>0. DecidedOnce'
  BY NextKeepsDecidedOnce
<1>1. NoTask.step = "free"
  BY DEF NoTask
<1>2. ASSUME NEW k \in Seqs, Agreeing(k), hides' = hides PROVE Agreeing(k)'
  BY <1>2, AgreementIsKept
<1>3. \A i \in 1 .. Len(page) : page[i] \in Seqs
  BY DEF Typed, PageTyped
<1>4. ASSUME hides' = hides, page' = page
      PROVE  \A i \in 1 .. Len(page') : Agreeing(page[i])'
  <2> SUFFICES ASSUME NEW i \in 1 .. Len(page)
               PROVE  Agreeing(page[i])'
    BY <1>4
  <2>1. PICK n : n = page[i]
    OBVIOUS
  <2>2. Agreeing(n)'
    BY <1>2, <1>3, <1>4, <2>1 DEF Agreement
  <2> QED
    BY <1>4, <2>1, <2>2
<1>5. ASSUME hides' = hides, NEW t \in TaskIds, tasks[t].step # "free",
             tasks'[t].seq = tasks[t].seq
      PROVE  Agreeing(tasks[t].seq)'
  <2>1. PICK n : n = tasks[t].seq
    OBVIOUS
  <2>2. n \in Seqs /\ Agreeing(n)
    BY <1>5, <2>1 DEF Agreement, Typed, TasksTyped
  <2>3. Agreeing(n)'
    BY <1>2, <1>5, <2>2
  <2> QED
    BY <1>5, <2>1, <2>3
<1>6. ASSUME hides' = hides, tasks' = tasks, page' = page PROVE Agreement'
  BY <1>0, <1>4, <1>5, <1>6 DEF Agreement
<1>7. ASSUME hides' = hides, page' = <<>>, tasks' = tasks PROVE Agreement'
  BY <1>0, <1>5, <1>7 DEF Agreement
<1>8. CASE ReadPage
  <2>1. hides' = hides /\ tasks' = tasks /\ UNCHANGED <<journal, history>>
    BY <1>8 DEF ReadPage, mount, revision
  <2>2. Watermark \in 0 .. N /\ \A s \in Sessions : cursor[s].seq =< Watermark
    BY WatermarkFacts DEF Typed
  <2>3. ASSUME NEW i \in 1 .. Len(page') PROVE Agreeing(page[i])'
    <3>1. PICK n : n = page'[i]
      OBVIOUS
    <3>2. page' = [j \in 1 .. Min({PageItems, N - Watermark}) |-> Watermark + j]
      BY <1>8 DEF ReadPage
    <3>3. PageTyped'
      BY NextKeepsPageTyped
    <3>4. page' \in Seq(Seqs) /\ i \in DOMAIN page' /\ i \in Nat \ {0} /\ n \in Seqs
      BY <2>3, <3>1, <3>3 DEF PageTyped
    <3>5. n = Watermark + i
      BY <3>1, <3>2, <3>4
    <3>6. ~Decided(n)
      <4>1. cursor[Session[n]].seq =< Watermark /\ cursor[Session[n]].seq \in 0 .. N
        BY <2>2, <3>4 DEF Typed, JournalTyped, Cursors
      <4>2. ~(n =< cursor[Session[n]].seq)
        BY <2>2, <3>4, <3>5, <4>1
      <4> QED
        BY <3>4, <4>2 DEF Positions, CursorCovers
    <3>7. Agreeing(n)
      BY <3>6 DEF Agreeing, Decided
    <3>8. Agreeing(n)'
      BY <1>2, <2>1, <3>4, <3>7
    <3> QED
      BY <3>1, <3>8
  <2> QED
    BY <1>0, <1>5, <2>1, <2>3 DEF Agreement
<1>9. CASE SpawnIngest
  <2>1. PICK u \in TaskIds :
          tasks' = [tasks EXCEPT ![u] = [NoTask EXCEPT
                         !.step = "recover", !.seq = Head(page), !.reg = reg]]
    BY <1>9 DEF SpawnIngest
  <2>2. hides' = hides /\ page' = page
    BY <1>9 DEF SpawnIngest, mount, revision
  <2>3. page \in Seq(Seqs) /\ page # <<>>
    BY <1>9 DEF SpawnIngest, Typed, PageTyped
  <2>4. 1 \in 1 .. Len(page) /\ Head(page) = page[1] /\ Head(page) \in Seqs /\ reg \in Regs
    BY <2>3 DEF Typed, TasksTyped
  <2>5. tasks'[u].seq = Head(page)
    <3>0. Head(page) \in Seqs /\ reg \in Regs
      BY <2>4
    <3> DEFINE new == [NoTask EXCEPT !.step = "recover", !.seq = Head(page), !.reg = reg]
    <3>1. new \in TaskRecords /\ new.step = "recover" /\ new.seq = Head(page) /\ new.reg = reg
      BY <3>0, NewTaskFacts
    <3>2. tasks' = [tasks EXCEPT ![u] = new] /\ tasks \in [TaskIds -> TaskRecords]
      BY <2>1 DEF Typed, TasksTyped
    <3> HIDE DEF new
    <3>3. tasks'[u] = new
      BY <3>2
    <3> QED
      BY <3>1, <3>3
  <2>6. Agreeing(tasks[u].seq)'
    <3>1. PICK n : n = page[1]
      OBVIOUS
    <3>2. Agreeing(n)'
      BY <1>2, <2>2, <2>4, <3>1 DEF Agreement
    <3> QED
      BY <2>4, <2>5, <3>1, <3>2
  <2>7. \A t \in TaskIds \ {u} : tasks'[t] = tasks[t]
    BY <2>1 DEF Typed, TasksTyped
  <2>8. \A t \in TaskIds : tasks'[t].step # "free" => Agreeing(tasks[t].seq)'
    BY <1>5, <2>2, <2>6, <2>7
  <2> QED
    BY <1>0, <1>4, <2>2, <2>8 DEF Agreement
<1>10. CASE Joined
  <2>1. hides' = hides /\ tasks' = [tasks EXCEPT ![waiting] = NoTask]
    BY <1>10 DEF Joined, mount, revision
  <2>2. \A t \in TaskIds : tasks'[t] = NoTask \/ tasks'[t] = tasks[t]
    BY <2>1 DEF Typed, TasksTyped
  <2>3. \A t \in TaskIds : tasks'[t].step # "free" => Agreeing(tasks[t].seq)'
    BY <1>1, <1>5, <2>1, <2>2
  <2>4. ASSUME NEW i \in 1 .. Len(page') PROVE Agreeing(page[i])'
    <3>1. page \in Seq(Seqs)
      BY DEF Typed, PageTyped
    <3>2. page' = Tail(page) /\ Len(page) > 1
      BY <1>10, <2>4 DEF Joined
    <3>3. PICK n : n = page'[i]
      OBVIOUS
    <3>4. i + 1 \in 1 .. Len(page) /\ page'[i] = page[i + 1]
      BY <2>4, <3>1, <3>2
    <3>5. n \in Seqs /\ Agreeing(n)
      BY <1>3, <3>3, <3>4 DEF Agreement
    <3>6. Agreeing(n)'
      BY <1>2, <2>1, <3>5
    <3> QED
      BY <3>3, <3>6
  <2> QED
    BY <1>0, <2>3, <2>4 DEF Agreement
<1>11. CASE JoinTimesOut
  BY <1>7, <1>11 DEF JoinTimesOut, mount, revision
<1>12. ASSUME NEW u \in TaskIds, TaskStep(u) \/ Stops(u) \/ Faults(u)
       PROVE  Agreement'
  <2>1. hides' = hides /\ page' = page
    BY <1>12, TaskFate DEF mount, revision, loop
  <2>2. \A t \in TaskIds : tasks'[t].step # "free" =>
            tasks[t].step # "free" /\ tasks'[t].seq = tasks[t].seq
    BY <1>1, <1>12, TaskMoves
  <2> QED
    BY <1>0, <1>4, <1>5, <2>1, <2>2 DEF Agreement
<1>13. CASE ReadinessChanges \/ JournalOnly \/ UNCHANGED admissionVars
  BY <1>6, <1>13 DEF ReadinessChanges, JournalOnly, admissionVars, mount, revision, loop
<1>14. CASE Remount
  <2>1. hides' = hides /\ page' = <<>>
    BY <1>14 DEF Remount, NewMount, revision
  <2>2. \A t \in TaskIds : tasks'[t] = NoTask \/ tasks'[t] = tasks[t]
    BY <1>14 DEF Remount
  <2>3. \A t \in TaskIds : tasks'[t].step # "free" => Agreeing(tasks[t].seq)'
    BY <1>1, <1>5, <2>1, <2>2
  <2> QED
    BY <1>0, <2>1, <2>3 DEF Agreement
<1>15. CASE Restart
  <2>1. page' = <<>> /\ \A t \in TaskIds : tasks'[t] = NoTask
    BY <1>15 DEF Restart, NewMount
  <2> QED
    BY <1>0, <1>1, <2>1 DEF Agreement
<1> QED
  BY <1>8, <1>9, <1>10, <1>11, <1>12, <1>13, <1>14, <1>15
  DEF AdmissionNext, LoopStep, Join, JoinSlow, Settle, DeleteRow, DeleteWithheld

\* A record is decided one way for good, although its row or audit row may be
\* deleted, a late task may commit it again, and a restart may change what the
\* sanitizer refuses.
THEOREM RecordsAreDecidedOnce == AdmissionSpec => []DecidedOnce
<1>1. AdmissionInit => Agreement
  BY DEF AdmissionInit, Agreement, DecidedOnce, NoTask
<1>2. /\ Typed /\ Positions /\ [AdmissionNext]_admissionVars => Typed' /\ Positions'
      /\ Typed /\ Positions /\ Agreement /\ [AdmissionNext]_admissionVars => Agreement'
  BY NextKeepsTyped, NextKeepsPositions, NextKeepsAgreement
<1>3. Agreement => DecidedOnce
  BY DEF Agreement
<1> QED
  BY <1>1, <1>2, <1>3, InitTyped, InitPositions, PTL DEF AdmissionSpec

-----------------------------------------------------------------------------
(* The lane of a registration.                                             *)

\* The queued records of a registration.
Lane(r) == {k \in Seqs : rows[<<r, k>>] = "queued"}

\* A step that journals nothing leaves the lanes as they are or smaller.
LEMMA LanesShrink ==
    ASSUME LaneBounded,
           \A r \in Regs, k \in Seqs : rows'[<<r, k>>] = "queued" => rows[<<r, k>>] = "queued"
    PROVE  LaneBounded'
<1> SUFFICES ASSUME NEW r \in Regs PROVE LanePressure(r)' =< MaxQueueItems
  BY DEF LaneBounded
<1>1. LanePressure(r) = Cardinality(Lane(r)) /\ LanePressure(r)' = Cardinality(Lane(r)')
  BY DEF LanePressure, Lane
<1>2. IsFiniteSet(Lane(r))
  <2>1. IsFiniteSet(Seqs)
    BY Parameters, FS_Interval DEF Seqs
  <2>2. Lane(r) \subseteq Seqs
    BY DEF Lane
  <2> QED
    BY <2>1, <2>2, FS_Subset
<1>3. Lane(r)' \subseteq Lane(r)
  BY DEF Lane
<1>4. Cardinality(Lane(r)') =< Cardinality(Lane(r))
      /\ Cardinality(Lane(r)') \in Nat /\ Cardinality(Lane(r)) \in Nat
  BY <1>2, <1>3, FS_Subset, FS_CardinalityType
<1>5. LanePressure(r) =< MaxQueueItems
  BY DEF LaneBounded
<1> QED
  BY <1>1, <1>4, <1>5, Parameters

\* The transaction that journals a record measures the lane it grows.
LEMMA AdmissionsFitTheLane ==
    ASSUME Typed, LaneBounded, NEW t \in TaskIds, Admits(t)
    PROVE  LaneBounded'
<1>1. PICK k, s : k = tasks[t].seq /\ s = tasks[t].reg
  OBVIOUS
<1>2. k \in Seqs /\ s \in Regs
  BY <1>1 DEF Admits, Committing, Typed, TasksTyped
<1>3. rows' = [rows EXCEPT ![<<s, k>>] = "queued"] /\ ~WouldExceed(s)
  BY <1>1 DEF Admits
<1>4. rows \in [Regs \X Seqs -> {"none", "queued", "settled"}]
  BY DEF Typed, JournalTyped
<1> SUFFICES ASSUME NEW r \in Regs PROVE LanePressure(r)' =< MaxQueueItems
  BY DEF LaneBounded
<1>5. LanePressure(r) = Cardinality(Lane(r)) /\ LanePressure(r)' = Cardinality(Lane(r)')
  BY DEF LanePressure, Lane
<1>6. IsFiniteSet(Lane(r))
  <2>1. IsFiniteSet(Seqs)
    BY Parameters, FS_Interval DEF Seqs
  <2>2. Lane(r) \subseteq Seqs
    BY DEF Lane
  <2> QED
    BY <2>1, <2>2, FS_Subset
<1>7. \A j \in Seqs : rows'[<<r, j>>] = IF <<r, j>> = <<s, k>> THEN "queued" ELSE rows[<<r, j>>]
  BY <1>2, <1>3, <1>4
<1>8. CASE r # s
  <2>1. Lane(r)' = Lane(r)
    BY <1>7, <1>8 DEF Lane
  <2> QED
    BY <1>5, <2>1 DEF LaneBounded
<1>9. CASE r = s
  <2>1. Lane(r)' = Lane(r) \cup {k}
    BY <1>2, <1>7, <1>9 DEF Lane
  <2>2. Cardinality(Lane(r) \cup {k}) =< Cardinality(Lane(r)) + 1
        /\ Cardinality(Lane(r)) \in Nat /\ Cardinality(Lane(r) \cup {k}) \in Nat
    <3>1. PICK S : S = Lane(r)
      OBVIOUS
    <3>2. IsFiniteSet(S) /\ Cardinality(S) \in Nat
      BY <1>6, <3>1, FS_CardinalityType
    <3>3. Cardinality(S \cup {k}) = IF k \in S THEN Cardinality(S) ELSE Cardinality(S) + 1
      BY <3>2, FS_AddElement
    <3> QED
      BY <3>1, <3>2, <3>3
  <2>3. Cardinality(Lane(r)) < MaxQueueItems
    BY <1>3, <1>5, <1>9, <2>2, Parameters DEF WouldExceed
  <2> QED
    BY <1>5, <2>1, <2>2, <2>3, Parameters
<1> QED
  BY <1>8, <1>9

LEMMA NextKeepsLaneBounded ==
    ASSUME Typed, LaneBounded, [AdmissionNext]_admissionVars
    PROVE  LaneBounded'
<1>1. CASE UNCHANGED <<journal, history>>
  BY <1>1, LanesShrink DEF journal
<1>2. CASE Deletes
  <2>1. \A r \in Regs, k \in Seqs : rows'[<<r, k>>] = "queued" => rows[<<r, k>>] = "queued"
    BY <1>2 DEF Deletes
  <2> QED
    BY <2>1, LanesShrink
<1>3. ASSUME NEW t \in TaskIds, Decides(t) PROVE LaneBounded'
  <2>1. CASE Admits(t)
    BY <2>1, AdmissionsFitTheLane
  <2>2. CASE rows' = rows
    BY <2>2, LanesShrink
  <2> QED
    BY <1>3, <2>1, <2>2 DEF Decides, Withholds, Checkpoints
<1> QED
  BY <1>1, <1>2, <1>3, TablesStep

\* The unsettled rows of a registration never exceed the queue, however many
\* ingest tasks passed the gate on a measurement that is stale when they
\* commit: append_admitted_at measures again in its transaction.
THEOREM LanesAreBounded == AdmissionSpec => []LaneBounded
<1>1. AdmissionInit => LaneBounded
  <2> SUFFICES ASSUME AdmissionInit, NEW r \in Regs
               PROVE  LanePressure(r) =< MaxQueueItems
    BY DEF LaneBounded
  <2>1. {k \in Seqs : rows[<<r, k>>] = "queued"} = {}
    BY DEF AdmissionInit
  <2>2. Cardinality({}) = 0
    BY FS_EmptySet
  <2>3. LanePressure(r) = 0
    BY <2>1, <2>2 DEF LanePressure
  <2> QED
    BY <2>3, Parameters
<1>2. Typed /\ [AdmissionNext]_admissionVars => Typed'
  BY NextKeepsTyped
<1>3. Typed /\ LaneBounded /\ [AdmissionNext]_admissionVars => LaneBounded'
  BY NextKeepsLaneBounded
<1> QED
  BY <1>1, <1>2, <1>3, InitTyped, PTL DEF AdmissionSpec

-----------------------------------------------------------------------------
(* The position of a registration.                                         *)

\* A registration's position is at or past everything it was given.
TargetCovers ==
    \A r \in Regs, k \in Seqs : <<r, k>> \in admittedEver => k =< target[<<r, Session[k]>>]

\* The transaction that journals a record moves its registration's position
\* to it, and never back.
LEMMA AdmissionsAdvance ==
    ASSUME Typed, TargetCovers, NEW t \in TaskIds, Admits(t)
    PROVE  /\ TargetCovers'
           /\ \A r \in Regs, j \in Seqs :
                 /\ r = tasks[t].reg /\ <<r, j>> \in admittedEver
                 /\ Session[j] = Session[tasks[t].seq]
                 => j =< tasks[t].seq
<1> USE Parameters
<1>1. PICK k, s : k = tasks[t].seq /\ s = tasks[t].reg
  OBVIOUS
<1>2. k \in Seqs /\ s \in Regs /\ Session[k] \in Sessions
  BY <1>1 DEF Admits, Committing, Typed, TasksTyped
<1>3. /\ ~(k < target[<<s, Session[k]>>])
      /\ target' = [target EXCEPT ![<<s, Session[k]>>] = k]
      /\ admittedEver' = admittedEver \cup {<<s, k>>}
  BY <1>1 DEF Admits, Regression
<1>4. target \in [Regs \X Sessions -> 0 .. N]
  BY DEF Typed, JournalTyped
<1>5. target[<<s, Session[k]>>] \in Nat /\ k \in Nat
  BY <1>2, <1>4
<1>6. ASSUME NEW r \in Regs, NEW j \in Seqs, <<r, j>> \in admittedEver
      PROVE  /\ j =< target[<<r, Session[j]>>]
             /\ Session[j] \in Sessions
             /\ j \in Nat /\ target[<<r, Session[j]>>] \in Nat
  BY <1>4, <1>6 DEF TargetCovers
<1>7. ASSUME NEW r \in Regs, NEW j \in Seqs, <<r, j>> \in admittedEver,
             r = s, Session[j] = Session[k]
      PROVE  j =< k
  BY <1>3, <1>5, <1>6, <1>7
<1>8. \A r \in Regs, z \in Sessions :
          target'[<<r, z>>] = IF r = s /\ z = Session[k] THEN k ELSE target[<<r, z>>]
  BY <1>2, <1>3, <1>4
<1>9. ASSUME NEW r \in Regs, NEW j \in Seqs, <<r, j>> \in admittedEver'
      PROVE  j =< target'[<<r, Session[j]>>]
  <2>1. CASE <<r, j>> = <<s, k>>
    <3>1. r = s /\ j = k
      BY <2>1
    <3> QED
      BY <1>2, <1>5, <1>8, <3>1
  <2>2. CASE <<r, j>> \in admittedEver
    <3>1. CASE r = s /\ Session[j] = Session[k]
      BY <1>2, <1>7, <1>8, <2>2, <3>1
    <3>2. CASE ~(r = s /\ Session[j] = Session[k])
      BY <1>6, <1>8, <2>2, <3>2
    <3> QED
      BY <3>1, <3>2
  <2> QED
    BY <1>3, <1>9, <2>1, <2>2
<1>10. TargetCovers'
  BY <1>9 DEF TargetCovers
<1> QED
  BY <1>1, <1>7, <1>10

LEMMA NextKeepsTargetCovers ==
    ASSUME Typed, TargetCovers, [AdmissionNext]_admissionVars
    PROVE  TargetCovers'
<1>1. CASE UNCHANGED <<journal, history>> \/ Deletes
  BY <1>1 DEF journal, history, Deletes, TargetCovers
<1>2. ASSUME NEW t \in TaskIds, Decides(t) PROVE TargetCovers'
  <2>1. CASE Admits(t)
    BY <2>1, AdmissionsAdvance
  <2>2. CASE target' = target /\ admittedEver' = admittedEver
    BY <2>2 DEF TargetCovers
  <2> QED
    BY <1>2, <2>1, <2>2 DEF Decides, Withholds, Checkpoints, history
<1> QED
  BY <1>1, <1>2, TablesStep

\* A step that journals a record admits it.
LEMMA QueuedMeansAdmitted ==
    ASSUME Typed, [AdmissionNext]_admissionVars,
           NEW r \in Regs, NEW k \in Seqs,
           rows[<<r, k>>] = "none", rows'[<<r, k>>] = "queued"
    PROVE  \E t \in TaskIds : Admits(t) /\ tasks[t].reg = r /\ tasks[t].seq = k
<1>1. ~UNCHANGED <<journal, history>>
  BY DEF journal
<1>2. ~Deletes
  BY DEF Deletes
<1>3. PICK t \in TaskIds : Decides(t)
  BY <1>1, <1>2, TablesStep
<1>4. Admits(t)
  BY <1>3 DEF Decides, Withholds, Checkpoints
<1>5. rows \in [Regs \X Seqs -> {"none", "queued", "settled"}]
      /\ rows' = [rows EXCEPT ![<<tasks[t].reg, tasks[t].seq>>] = "queued"]
  BY <1>4 DEF Admits, Typed, JournalTyped
<1>6. <<tasks[t].reg, tasks[t].seq>> = <<r, k>>
  BY <1>5
<1> QED
  BY <1>4, <1>6

\* A registration is given a record again only at its last position: a task
\* that survived its mount cannot journal what the registration has passed.
THEOREM NothingIsReadmittedBehind == AdmissionSpec => ReadmittedOnlyAtPosition
<1>1. AdmissionInit => TargetCovers
  BY DEF AdmissionInit, TargetCovers
<1>2. Typed /\ [AdmissionNext]_admissionVars => Typed'
  BY NextKeepsTyped
<1>3. Typed /\ TargetCovers /\ [AdmissionNext]_admissionVars => TargetCovers'
  BY NextKeepsTargetCovers
<1>4. Typed /\ TargetCovers /\ [AdmissionNext]_admissionVars
      => [\A r \in Regs, k \in Seqs :
           rows[<<r, k>>] = "none" /\ rows'[<<r, k>>] = "queued" /\ <<r, k>> \in admittedEver
               => \A j \in Seqs : Session[j] = Session[k] /\ <<r, j>> \in admittedEver
                                    => j <= k]_admissionVars
  BY QueuedMeansAdmitted, AdmissionsAdvance
<1> QED
  BY <1>1, <1>2, <1>3, <1>4, InitTyped, PTL DEF AdmissionSpec, ReadmittedOnlyAtPosition

-----------------------------------------------------------------------------

\* Every variable keeps its type: the journal's tables, the loop's page and
\* the tasks, whatever the order in which tasks commit and mounts come and go.
THEOREM AdmissionTypeCorrect == AdmissionSpec => []AdmissionTypeOK
<1>1. Typed => AdmissionTypeOK
  <2> SUFFICES ASSUME Typed PROVE AdmissionTypeOK
    OBVIOUS
  <2>1. page \in UNION {[1 .. n -> Seqs] : n \in 0 .. PageItems}
    <3>1. page \in [1 .. Len(page) -> Seqs] /\ Len(page) \in 0 .. PageItems
      BY Parameters DEF Typed, PageTyped
    <3> QED
      BY <3>1
  <2> QED
    BY <2>1 DEF Typed, JournalTyped, TasksTyped, CountersTyped, AdmissionTypeOK,
                TaskRecords, Cursors
<1>2. Typed /\ [AdmissionNext]_admissionVars => Typed'
  BY NextKeepsTyped
<1> QED
  BY <1>1, <1>2, InitTyped, PTL DEF AdmissionSpec
=============================================================================
