-------------------------- MODULE SourceFenceProofs --------------------------
(***************************************************************************)
(* Proofs about SourceFence for any finite number of operations, any       *)
(* revisions and any number of failures.                                   *)
(*                                                                         *)
(* Only one step changes the fence: the write of an operation that has no  *)
(* receipt, against the revision it expects.  WritePreserves shows that it *)
(* keeps the ledger of fence and receipts sound; every other step leaves   *)
(* the ledger alone and only moves a host.                                 *)
(***************************************************************************)
EXTENDS SourceFence, FiniteSetTheorems, TLAPS

Applied == {o \in Ops : Committed(o)}

Receipts == [request : Requests, fence : Fences]
Hosts == [at : {"idle", "asked", "answered"}, request : Requests,
          reply : {"none", "receipt", "refused", "unconfirmed"}]

LedgerTyped ==
    /\ fence \in Fences
    /\ fence.revision > 0 => fence.mode \in Modes
    /\ receipts \in [Ops -> Receipts]

HostsTyped ==
    /\ host \in [Ops -> Hosts]
    /\ failures \in 0 .. MaxFailures

\* No two operations hold the same revision.
OneRevisionEach ==
    \A o, p \in Applied : receipts[o].fence.revision = receipts[p].fence.revision => o = p

\* The fence is at least as strong as every deletion that was committed.
StrengthKept ==
    \A o \in Applied :
        ~receipts[o].request.admit =>
            /\ receipts[o].request.mode = "hard_delete" => fence.mode = "hard_delete"
            /\ receipts[o].request.mode = "anonymize" => fence.mode \in {"anonymize", "hard_delete"}

\* What is admitted now was admitted by the last operation.
AdmittedLast ==
    fence.admitted # NoRevision =>
        \E o \in Applied : /\ receipts[o].request.admit
                           /\ receipts[o].request.revision = fence.admitted
                           /\ receipts[o].fence.revision = fence.revision

\* Every receipt is one its own request is answered from.
ReceiptsBind == \A o \in Applied : BindsTo(receipts[o], receipts[o].request)

Ledger == LedgerTyped /\ AppliedOnce /\ OneRevisionEach /\ StrengthKept
          /\ AdmittedLast /\ ReceiptsBind

FenceInv == Ledger /\ HostsTyped

-----------------------------------------------------------------------------
(* The write.                                                              *)

\* Strongest yields a mode at least as strong as both of its arguments.
LEMMA StrongestIsStrongest ==
    ASSUME NEW m, NEW n \in Modes
    PROVE  /\ Strongest(m, n) \in Modes
           /\ "hard_delete" \in {m, n} => Strongest(m, n) = "hard_delete"
           /\ "anonymize" \in {m, n} => Strongest(m, n) \in {"anonymize", "hard_delete"}
BY DEF Strongest, Modes

\* A write that applies adds its operation to those that took effect, with the
\* next revision, which no operation holds yet.
LEMMA WriteAdds ==
    ASSUME Ledger, NEW o \in Ops, NEW req \in Requests, ~Committed(o), Applies(req), Write(o, req)
    PROVE  /\ fence' \in Fences
           /\ fence'.revision > 0 /\ fence'.mode \in Modes
           /\ receipts' \in [Ops -> Receipts]
           /\ receipts'[o] = [request |-> req, fence |-> fence']
           /\ \A p \in Ops \ {o} : receipts'[p] = receipts[p]
           /\ fence'.revision = fence.revision + 1
           /\ Applied' = Applied \cup {o} /\ o \notin Applied
           /\ \A p \in Applied : receipts[p].fence.revision \in 1 .. fence.revision
           /\ Cardinality(Applied') = Cardinality(Applied) + 1
<1>1. IsFiniteSet(Applied) /\ o \notin Applied /\ Applied \subseteq Ops
  BY FenceAssumption, FS_Subset DEF Applied
<1>2. Cardinality(Applied \cup {o}) = Cardinality(Applied) + 1
  BY <1>1, FS_AddElement
<1>3. Cardinality(Applied \cup {o}) <= Cardinality(Ops) /\ Cardinality(Ops) \in Nat
  BY <1>1, FenceAssumption, FS_Subset, FS_CardinalityType
<1>4. Cardinality(Applied) = fence.revision
  BY DEF Ledger, AppliedOnce, Applied
<1>5. fence.revision \in Nat /\ fence.revision + 1 \in 0 .. Cardinality(Ops)
  BY <1>2, <1>3, <1>4 DEF Ledger, LedgerTyped, Fences
<1>6. req.expected = fence.revision
  BY DEF Applies
<1>7. fence' = NextFence(req) /\ receipts' = [receipts EXCEPT ![o] = [request |-> req, fence |-> NextFence(req)]]
  BY DEF Write
<1>8. /\ NextFence(req) \in Fences /\ NextFence(req).revision = fence.revision + 1
      /\ NextFence(req).mode \in Modes
  <2>1. CASE req.admit
    BY <2>1, <1>5 DEF NextFence, Applies, Ledger, LedgerTyped, Fences, Requests
  <2>2. CASE ~req.admit
    BY <2>2, <1>5, <1>6, StrongestIsStrongest DEF NextFence, Fences, Requests
  <2>3. QED BY <2>1, <2>2
<1>9. /\ receipts' \in [Ops -> Receipts]
      /\ receipts'[o] = [request |-> req, fence |-> fence']
      /\ \A p \in Ops \ {o} : receipts'[p] = receipts[p]
  BY <1>7, <1>8 DEF Ledger, LedgerTyped, Receipts
<1>10. receipts'[o] # NoReceipt
  <2>1. receipts'[o].fence.revision # NoReceipt.fence.revision
    BY <1>5, <1>7, <1>8, <1>9 DEF NoReceipt, NoFence
  <2>2. QED BY <2>1
<1>11. Applied' = Applied \cup {o}
  BY <1>9, <1>10 DEF Applied, Committed
<1>12. \A p \in Applied : receipts[p].fence.revision \in 1 .. fence.revision
  BY DEF Ledger, AppliedOnce, Applied
<1>13. QED
  BY <1>1, <1>2, <1>5, <1>7, <1>8, <1>9, <1>11, <1>12

LEMMA WritePreserves ==
    ASSUME Ledger, NEW o \in Ops, NEW req \in Requests, ~Committed(o), Applies(req), Write(o, req)
    PROVE  Ledger'
<1> DEFINE new == fence.revision + 1
<1>0. /\ fence' \in Fences /\ fence'.mode \in Modes
      /\ receipts' \in [Ops -> Receipts]
      /\ receipts'[o] = [request |-> req, fence |-> fence']
      /\ \A p \in Ops \ {o} : receipts'[p] = receipts[p]
      /\ fence'.revision = new
      /\ Applied' = Applied \cup {o} /\ o \notin Applied
      /\ \A p \in Applied : receipts[p].fence.revision \in 1 .. fence.revision
      /\ Cardinality(Applied') = Cardinality(Applied) + 1
  BY WriteAdds
<1>1. /\ fence.revision \in Nat
      /\ fence'.revision = new /\ receipts'[o].fence.revision = new
      /\ receipts'[o].request = req /\ receipts'[o].fence = fence'
      /\ Applied' = Applied \cup {o} /\ o \notin Applied /\ o \in Applied'
      /\ \A p \in Applied : p # o /\ receipts'[p] = receipts[p]
  <2>1. fence.revision \in Nat
    BY DEF Ledger, LedgerTyped, Fences
  <2>2. \A p \in Applied : p \in Ops \ {o}
    BY <1>0 DEF Applied
  <2>3. receipts'[o].fence.revision = new /\ receipts'[o].request = req /\ receipts'[o].fence = fence'
    BY <1>0
  <2>4. QED BY <1>0, <2>1, <2>2, <2>3
<1>2. LedgerTyped'
  BY <1>0 DEF LedgerTyped
<1>3. AppliedOnce'
  <2>1. {receipts'[p].fence.revision : p \in Applied'} = {receipts[p].fence.revision : p \in Applied} \cup {new}
    BY <1>1
  <2>2. {receipts[p].fence.revision : p \in Applied} = 1 .. fence.revision
    BY DEF Ledger, AppliedOnce, Applied
  <2>3. {receipts'[p].fence.revision : p \in Applied'} = 1 .. fence'.revision
    BY <2>1, <2>2, <1>1
  <2>4. Cardinality(Applied') = fence'.revision
    BY <1>0, <1>1 DEF Ledger, AppliedOnce, Applied
  <2>5. QED
    BY <2>3, <2>4 DEF AppliedOnce, Applied
<1>4. OneRevisionEach'
  <2>1. \A p \in Applied : receipts'[p].fence.revision < new
    BY <1>0, <1>1
  <2>2. \A p, q \in Applied : receipts'[p].fence.revision = receipts'[q].fence.revision => p = q
    BY <1>1 DEF Ledger, OneRevisionEach
  <2>3. QED BY <1>1, <2>1, <2>2 DEF OneRevisionEach
<1>5. StrengthKept'
  <2>1. CASE req.admit
    <3>1. fence'.mode = fence.mode
      BY <2>1 DEF Write, NextFence, Ledger, LedgerTyped, Fences
    <3>2. QED BY <2>1, <3>1, <1>1 DEF Ledger, StrengthKept
  <2>2. CASE ~req.admit
    <3>1. fence'.mode = Strongest(fence.mode, req.mode) /\ req.mode \in Modes
      BY <2>2 DEF Write, NextFence, Requests
    <3>2. QED
      BY <3>1, <1>1, StrongestIsStrongest DEF Ledger, StrengthKept
  <2>3. QED BY <2>1, <2>2
<1>6. AdmittedLast'
  <2>1. CASE req.admit
    <3>1. fence'.admitted = req.revision
      BY <2>1 DEF Write, NextFence, Ledger, LedgerTyped, Fences
    <3>2. QED BY <2>1, <3>1, <1>1 DEF AdmittedLast
  <2>2. CASE ~req.admit
    BY <2>2 DEF Write, NextFence, AdmittedLast
  <2>3. QED BY <2>1, <2>2
<1>7. ReceiptsBind'
  <2>1. BindsTo(receipts'[o], req)
    <3>1. fence' = NextFence(req) /\ req.expected = fence.revision
      BY DEF Write, Applies
    <3>2. CASE req.admit
      <4>1. /\ fence'.mode = "remove_influence" /\ fence'.admitted = req.revision
        BY <3>1, <3>2 DEF NextFence, Applies, Ledger, LedgerTyped, Fences
      <4>2. QED BY <4>1, <3>1, <3>2, <1>1 DEF BindsTo
    <3>3. CASE ~req.admit
      <4>1. /\ fence'.deleted = req.revision /\ fence'.admitted = NoRevision
            /\ fence'.mode = Strongest(fence.mode, req.mode) /\ req.mode \in Modes
        BY <3>1, <3>3 DEF NextFence, Requests
      <4>2. QED BY <4>1, <3>1, <3>3, <1>1, StrongestIsStrongest DEF BindsTo
    <3>4. QED BY <3>2, <3>3
  <2>2. QED
    BY <2>1, <1>1 DEF Ledger, ReceiptsBind, BindsTo
<1>8. QED
  BY <1>2, <1>3, <1>4, <1>5, <1>6, <1>7 DEF Ledger

\* A step that writes nothing leaves the ledger sound.
LEMMA QuietPreserves ==
    ASSUME Ledger, UNCHANGED <<fence, receipts>>
    PROVE  Ledger'
BY DEF Ledger, LedgerTyped, AppliedOnce, OneRevisionEach, StrengthKept, AdmittedLast,
       ReceiptsBind, Applied, Committed, BindsTo

-----------------------------------------------------------------------------
(* The steps.                                                              *)

LEMMA AnswerTyped ==
    ASSUME host \in [Ops -> Hosts], NEW o \in Ops,
           NEW reply \in {"none", "receipt", "refused", "unconfirmed"}, Answer(o, reply)
    PROVE  host' \in [Ops -> Hosts]
BY DEF Answer, Hosts

LEMMA FenceInitInv == FenceInit => FenceInv
<1> SUFFICES ASSUME FenceInit PROVE FenceInv
  OBVIOUS
<1>1. Cardinality(Ops) \in Nat
  BY FenceAssumption, FS_CardinalityType
<1>2. Applied = {}
  BY DEF FenceInit, Applied, Committed
<1>3. LedgerTyped
  BY <1>1 DEF FenceInit, LedgerTyped, Receipts, NoReceipt, NoRequest, NoFence, Fences, Requests,
          Modes, NoRevision
<1>4. AppliedOnce
  <2>1. fence.revision = 0 /\ 1 .. 0 = {}
    BY DEF FenceInit, NoFence
  <2>2. QED BY <1>2, <2>1, FS_EmptySet DEF AppliedOnce, Applied
<1>5. HostsTyped
  BY <1>1, FenceAssumption DEF FenceInit, HostsTyped, Hosts, NoReply, NoRequest, Requests, Modes
<1>6. AdmittedLast
  BY DEF FenceInit, AdmittedLast, NoFence
<1>7. QED
  BY <1>2, <1>3, <1>4, <1>5, <1>6 DEF FenceInv, Ledger, OneRevisionEach, StrengthKept, ReceiptsBind

LEMMA FenceStepInv == FenceInv /\ [FenceNext]_fenceVars => FenceInv'
<1> SUFFICES ASSUME FenceInv, [FenceNext]_fenceVars PROVE FenceInv'
  OBVIOUS
<1>1. Ledger /\ HostsTyped /\ host \in [Ops -> Hosts]
  BY DEF FenceInv, HostsTyped
<1>2. CASE UNCHANGED fenceVars
  BY <1>1, <1>2, QuietPreserves DEF fenceVars, FenceInv, HostsTyped
<1>3. ASSUME NEW o \in Ops, Prepare(o) PROVE FenceInv'
  <2>1. Ledger'
    BY <1>1, <1>3, QuietPreserves DEF Prepare
  <2>2. fence.revision \in 0 .. Cardinality(Ops)
    BY <1>1 DEF Ledger, LedgerTyped, Fences
  <2>3. HostsTyped'
    BY <1>1, <1>3, <2>2 DEF Prepare, HostsTyped, Hosts, Requests
  <2>4. QED BY <2>1, <2>3 DEF FenceInv
<1>4. ASSUME NEW o \in Ops, Retry(o) PROVE FenceInv'
  BY <1>1, <1>4, QuietPreserves DEF Retry, FenceInv, HostsTyped, Hosts
<1>5. ASSUME NEW o \in Ops, StartOver(o) PROVE FenceInv'
  <2>1. NoReply \in Hosts
    <3>1. Cardinality(Ops) \in Nat
      BY FenceAssumption, FS_CardinalityType
    <3>2. QED BY <3>1 DEF NoReply, NoRequest, Hosts, Requests, Modes
  <2>2. QED BY <1>1, <1>5, <2>1, QuietPreserves DEF StartOver, FenceInv, HostsTyped
<1>6. ASSUME NEW o \in Ops, Apply(o) PROVE FenceInv'
  <2> DEFINE req == host[o].request
  <2>1. req \in Requests
    BY <1>1 DEF Hosts
  <2>2. Ledger'
    BY <1>1, <1>6, <2>1, QuietPreserves, WritePreserves DEF Apply
  <2>3. HostsTyped'
    BY <1>1, <1>6, AnswerTyped DEF Apply, HostsTyped
  <2>4. QED BY <2>2, <2>3 DEF FenceInv
<1>7. ASSUME NEW o \in Ops, CutShort(o) PROVE FenceInv'
  <2>1. Ledger'
    BY <1>1, <1>7, QuietPreserves DEF CutShort
  <2>2. failures' \in 0 .. MaxFailures
    BY <1>1, <1>7, FenceAssumption DEF CutShort, HostsTyped
  <2>3. host' \in [Ops -> Hosts]
    BY <1>1, <1>7, AnswerTyped DEF CutShort
  <2>4. QED BY <2>1, <2>2, <2>3 DEF FenceInv, HostsTyped
<1>8. ASSUME NEW o \in Ops, CommitFails(o) PROVE FenceInv'
  <2> DEFINE req == host[o].request
  <2>1. req \in Requests
    BY <1>1 DEF Hosts
  <2>2. Ledger'
    BY <1>1, <1>8, <2>1, QuietPreserves, WritePreserves DEF CommitFails
  <2>3. failures' \in 0 .. MaxFailures
    BY <1>1, <1>8, FenceAssumption DEF CommitFails, HostsTyped
  <2>4. host' \in [Ops -> Hosts]
    BY <1>1, <1>8, AnswerTyped DEF CommitFails
  <2>5. QED BY <2>2, <2>3, <2>4 DEF FenceInv, HostsTyped
<1>9. QED
  BY <1>2, <1>3, <1>4, <1>5, <1>6, <1>7, <1>8 DEF FenceNext

\* The ledger and the hosts stay sound: the inductive invariant.
THEOREM FenceInvariant == FenceSpec => []FenceInv
BY FenceInitInv, FenceStepInv, PTL DEF FenceSpec

-----------------------------------------------------------------------------
(* What follows.                                                           *)

\* The fence's revision stays within the operations there are, and every
\* stored receipt and host request is well formed.
THEOREM FenceTypeCorrect == FenceSpec => []FenceTypeOK
<1>1. FenceInv => FenceTypeOK
  BY DEF FenceInv, Ledger, LedgerTyped, HostsTyped, Receipts, Hosts, FenceTypeOK
<1>2. QED BY <1>1, FenceInvariant, PTL

\* apply's compare-and-set and its receipt make each operation take effect at
\* most once, in its own revision.
THEOREM OperationsApplyOnce == FenceSpec => []AppliedOnce
<1>1. FenceInv => AppliedOnce
  BY DEF FenceInv, Ledger
<1>2. QED BY <1>1, FenceInvariant, PTL

\* After a committed hard deletion or anonymisation the fence blocks every
\* revision for ever.
THEOREM StrongIntentsAreFinal == FenceSpec => []StrongIntentIsFinal
<1>1. FenceInv => StrongIntentIsFinal
  <2> SUFFICES ASSUME FenceInv, NEW o \in Ops, Committed(o), ~receipts[o].request.admit,
                      receipts[o].request.mode # "remove_influence"
               PROVE  /\ fence.mode # "remove_influence"
                      /\ receipts[o].request.mode = "hard_delete" => fence.mode = "hard_delete"
    BY DEF StrongIntentIsFinal, Blocks
  <2>1. receipts[o].request.mode \in {"anonymize", "hard_delete"}
    BY DEF FenceInv, Ledger, LedgerTyped, Receipts, Requests, Modes
  <2>2. QED BY <2>1 DEF FenceInv, Ledger, StrengthKept, Applied
<1>2. QED BY <1>1, FenceInvariant, PTL

\* No admission prepared before a deletion takes effect after it.
THEOREM NoStaleAdmission == FenceSpec => []AdmissionsFollowDeletions
<1>1. FenceInv => AdmissionsFollowDeletions
  <2> SUFFICES ASSUME FenceInv, NEW r \in Revisions, ~Blocks(fence, r)
               PROVE  \E o \in Ops :
                          /\ Committed(o) /\ receipts[o].request.admit
                          /\ receipts[o].request.revision = r
                          /\ \A p \in Ops : Committed(p) /\ ~receipts[p].request.admit
                                => receipts[p].fence.revision < receipts[o].fence.revision
    BY DEF AdmissionsFollowDeletions
  <2>1. fence.admitted = r /\ fence.admitted # NoRevision
    BY DEF Blocks
  <2>2. PICK o \in Applied : /\ receipts[o].request.admit
                             /\ receipts[o].request.revision = r
                             /\ receipts[o].fence.revision = fence.revision
    BY <2>1 DEF FenceInv, Ledger, AdmittedLast
  <2>3. ASSUME NEW p \in Applied, ~receipts[p].request.admit
        PROVE  receipts[p].fence.revision < fence.revision
    <3>1. receipts[p].fence.revision \in 1 .. fence.revision
      BY DEF FenceInv, Ledger, AppliedOnce, Applied
    <3>2. receipts[p].fence.revision # fence.revision
      BY <2>2, <2>3 DEF FenceInv, Ledger, OneRevisionEach
    <3>3. fence.revision \in Nat
      BY DEF FenceInv, Ledger, LedgerTyped, Fences
    <3>4. QED BY <3>1, <3>2, <3>3
  <2>4. QED BY <2>2, <2>3 DEF Applied
<1>2. QED BY <1>1, FenceInvariant, PTL

\* read_receipt accepts every receipt apply wrote when its own request asks.
THEOREM RetriesAreAnswered == FenceSpec => RetriesGetTheirReceipt
<1> DEFINE Answered(o) ==
        Committed(o) /\ host[o].at = "asked" /\ host'[o].at = "answered"
        /\ host[o].request = receipts[o].request /\ failures' = failures
            => host'[o].reply = "receipt"
<1>1. ASSUME FenceInv, [FenceNext]_fenceVars, NEW o \in Ops
      PROVE  Answered(o)
  <2> SUFFICES ASSUME Committed(o), host[o].at = "asked", host'[o].at = "answered",
                      host[o].request = receipts[o].request, failures' = failures
               PROVE  host'[o].reply = "receipt"
    OBVIOUS
  <2>1. host \in [Ops -> Hosts] /\ failures \in Nat /\ BindsTo(receipts[o], receipts[o].request)
    BY <1>1, FenceAssumption DEF FenceInv, HostsTyped, Ledger, ReceiptsBind, Applied
  <2>2. PICK p \in Ops : \/ Prepare(p) \/ Retry(p) \/ StartOver(p)
                         \/ Apply(p) \/ CutShort(p) \/ CommitFails(p)
    BY <1>1 DEF FenceNext, fenceVars
  <2>3. p = o
    BY <2>1, <2>2 DEF Prepare, Retry, StartOver, Apply, CutShort, CommitFails, Answer
  <2>4. ~(CutShort(p) \/ CommitFails(p))
    BY <2>1 DEF CutShort, CommitFails
  <2>5. ~(Prepare(p) \/ Retry(p) \/ StartOver(p))
    BY <2>1, <2>3 DEF Prepare, Retry, StartOver
  <2>6. Apply(o)
    BY <2>2, <2>3, <2>4, <2>5
  <2>7. Answer(o, "receipt")
    BY <2>1, <2>6 DEF Apply, StoredReceipt
  <2>8. QED BY <2>1, <2>7 DEF Answer, Hosts
<1>2. FenceInv /\ [FenceNext]_fenceVars
        => [\A o \in Ops : Answered(o)]_fenceVars
  BY <1>1
<1>3. QED
  BY <1>2, FenceInvariant, PTL DEF FenceSpec, RetriesGetTheirReceipt
==============================================================================
