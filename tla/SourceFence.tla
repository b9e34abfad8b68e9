----------------------------- MODULE SourceFence -----------------------------
(***************************************************************************)
(* The privacy fence of one original source at one provider: hosts record  *)
(* deletion intents and admit new revisions by compare-and-set on the      *)
(* fence's revision, each operation leaves an immutable receipt its        *)
(* retries are answered from, and a host learns less than what happened    *)
(* when its deadline passes or the commit itself fails.                    *)
(*                                                                         *)
(* Source: crates/tracedecay-memory-observation/src/sqlite/retention.rs    *)
(* and crates/tracedecay-daemon-service/src/retained_owner/                *)
(* provider_control/authority.rs.                                          *)
(***************************************************************************)
EXTENDS Naturals, FiniteSets

CONSTANTS
    Ops,            \* operation ids, one host operation each
    Revisions,      \* source revisions
    MaxFailures     \* bound of the model: calls that are cut short or fail

NoRevision == "none"

ASSUME FenceAssumption ==
    /\ IsFiniteSet(Ops)
    /\ NoRevision \notin Revisions
    /\ MaxFailures \in Nat

Modes == {"remove_influence", "anonymize", "hard_delete"}

VARIABLES
    fence,          \* tdmem_provider_source_fence_v1, of the one source
    receipts,       \* tdmem_provider_source_intent_receipt_v1
    host,           \* what each operation's host asks and was answered
    failures

fenceVars == <<fence, receipts, host, failures>>

NoFence == [revision |-> 0, mode |-> "none", deleted |-> NoRevision, admitted |-> NoRevision]
Fences == [revision : 0 .. Cardinality(Ops), mode : Modes \cup {"none"},
           deleted : Revisions \cup {NoRevision}, admitted : Revisions \cup {NoRevision}]

\* The retry identity: everything but the clock.
Requests == [expected : 0 .. Cardinality(Ops), admit : BOOLEAN, mode : Modes,
             revision : Revisions \cup {NoRevision}]
NoRequest == [expected |-> 0, admit |-> FALSE, mode |-> "hard_delete", revision |-> NoRevision]
NoReceipt == [request |-> NoRequest, fence |-> NoFence]

\* Type invariant.
FenceTypeOK ==
    /\ fence \in Fences
    /\ fence.revision > 0 => fence.mode \in Modes
    /\ receipts \in [Ops -> [request : Requests, fence : Fences]]
    /\ host \in [Ops -> [at : {"idle", "asked", "answered"}, request : Requests,
                         reply : {"none", "receipt", "refused", "unconfirmed"}]]
    /\ failures \in 0 .. MaxFailures

NoReply == [at |-> "idle", request |-> NoRequest, reply |-> "none"]

FenceInit ==
    /\ fence = NoFence
    /\ receipts = [o \in Ops |-> NoReceipt]
    /\ host = [o \in Ops |-> NoReply]
    /\ failures = 0

Committed(o) == receipts[o] # NoReceipt

\* ProviderSourceFenceV1::blocks_revision, for a source that has a fence.
Blocks(f, r) == f.mode # "remove_influence" \/ f.admitted = NoRevision \/ f.admitted # r

-----------------------------------------------------------------------------

\* A host reads the fence and prepares its request; by the time it is applied
\* the fence may have moved.
Prepare(o) ==
    /\ host[o].at = "idle"
    /\ \E m \in Modes, r \in Revisions \cup {NoRevision}, admit \in BOOLEAN :
        /\ admit => m = "remove_influence" /\ r # NoRevision
        /\ host' = [host EXCEPT ![o] =
               [at |-> "asked", reply |-> "none",
                request |-> [expected |-> fence.revision, admit |-> admit,
                             mode |-> m, revision |-> r]]]
    /\ UNCHANGED <<fence, receipts, failures>>

\* A host that did not get its receipt asks again with the request it made.
Retry(o) ==
    /\ host[o].at = "answered"
    /\ host' = [host EXCEPT ![o].at = "asked", ![o].reply = "none"]
    /\ UNCHANGED <<fence, receipts, failures>>

\* A host that starts over under the same operation id reads the fence again.
StartOver(o) ==
    /\ host[o].at = "answered" /\ host[o].reply # "receipt"
    /\ host' = [host EXCEPT ![o] = NoReply]
    /\ UNCHANGED <<fence, receipts, failures>>

Answer(o, reply) == host' = [host EXCEPT ![o].at = "answered", ![o].reply = reply]

\* The mode required to be the requested one.
BindsToExactMode(receipt, req) ==
    /\ receipt.fence.revision = req.expected + 1
    /\ receipt.fence.mode = req.mode
    /\ req.admit => receipt.fence.admitted = req.revision

\* read_receipt: the stored receipt answers only the request it was made for,
\* and only when it is one that request could have produced.
BindsTo(receipt, req) ==
    LET f == receipt.fence
    IN /\ f.revision = req.expected + 1
       /\ f.mode = "remove_influence" \/ f.admitted = NoRevision
       /\ IF req.admit
          THEN f.mode = "remove_influence" /\ f.admitted = req.revision
          ELSE /\ f.deleted = req.revision /\ f.admitted = NoRevision
               /\ req.mode = "hard_delete" => f.mode = "hard_delete"
               /\ req.mode = "anonymize" => f.mode # "remove_influence"

\* The last intent's mode taken as it is, and the first one's kept.
StrongestIsLast(previous, mode) == mode
StrongestIsFirst(previous, mode) == previous

\* Strong privacy modes cannot be weakened by a later intent.
Strongest(previous, mode) ==
    IF "hard_delete" \in {previous, mode} THEN "hard_delete"
    ELSE IF "anonymize" \in {previous, mode} THEN "anonymize" ELSE "remove_influence"

\* A transition that keeps what was admitted before the deletion.
NextFenceKeepingAdmitted(req) ==
    IF req.admit THEN [fence EXCEPT !.revision = @ + 1, !.admitted = req.revision]
    ELSE [revision |-> req.expected + 1, mode |-> Strongest(fence.mode, req.mode),
          deleted |-> req.revision, admitted |-> fence.admitted]

\* The fence apply writes.
NextFence(req) ==
    IF req.admit THEN [fence EXCEPT !.revision = @ + 1, !.admitted = req.revision]
    ELSE [revision |-> req.expected + 1, mode |-> Strongest(fence.mode, req.mode),
          deleted |-> req.revision, admitted |-> NoRevision]

\* apply without its compare-and-set.
AppliesToAnyRevision(req) ==
    req.admit => /\ fence.revision > 0 /\ fence.mode = "remove_influence"
                 /\ req.revision \notin {fence.deleted, fence.admitted}

\* The conditions of apply on the current fence.
Applies(req) ==
    /\ fence.revision = req.expected
    /\ req.admit => /\ fence.revision > 0 /\ fence.mode = "remove_influence"
                    /\ req.revision \notin {fence.deleted, fence.admitted}

\* A late retry returns its immutable receipt before consulting the revision.
StoredReceipt(o, req) == Committed(o) /\ receipts[o].request = req

Write(o, req) ==
    /\ fence' = NextFence(req)
    /\ receipts' = [receipts EXCEPT ![o] = [request |-> req, fence |-> NextFence(req)]]

\* One transaction: answered from its receipt, refused, or committed.
Apply(o) ==
    LET req == host[o].request
    IN /\ host[o].at = "asked"
       /\ IF StoredReceipt(o, req)
          THEN /\ Answer(o, IF BindsTo(receipts[o], req) THEN "receipt" ELSE "refused")
               /\ UNCHANGED <<fence, receipts>>
          ELSE IF Committed(o) \/ ~Applies(req)
          THEN Answer(o, "refused") /\ UNCHANGED <<fence, receipts>>
          ELSE Write(o, req) /\ Answer(o, "receipt")
       /\ UNCHANGED failures

\* The caller's check fails before the commit, or SQLite reports the database
\* busy within the budget: refused, and nothing was written.
CutShort(o) ==
    /\ host[o].at = "asked" /\ failures < MaxFailures
    /\ failures' = failures + 1
    /\ Answer(o, "refused")
    /\ UNCHANGED <<fence, receipts>>

\* COMMIT returns an error of the storage, written or not.  The controlled
\* path of deletions checks the caller once more before it returns that error:
\* a caller that has given up by then is told of the cancellation instead, and
\* the host classes it as refused before commit.
CommitFails(o) ==
    LET req == host[o].request
    IN /\ host[o].at = "asked" /\ failures < MaxFailures
       /\ ~Committed(o) /\ Applies(req)
       /\ failures' = failures + 1
       /\ Write(o, req) \/ UNCHANGED <<fence, receipts>>
       /\ \/ Answer(o, "unconfirmed")
          \/ ~req.admit /\ Answer(o, "refused")

FenceNext ==
    \E o \in Ops : Prepare(o) \/ Retry(o) \/ StartOver(o) \/ Apply(o)
                      \/ CutShort(o) \/ CommitFails(o)

FenceSpec == FenceInit /\ [][FenceNext]_fenceVars

-----------------------------------------------------------------------------
(* Properties.                                                             *)

\* Every operation takes effect at most once, whatever is retried: the
\* revisions of the receipts are exactly those the fence has gone through.
AppliedOnce ==
    /\ {receipts[o].fence.revision : o \in {p \in Ops : Committed(p)}} = 1 .. fence.revision
    /\ Cardinality({o \in Ops : Committed(o)}) = fence.revision

\* Once hard deletion or anonymisation was asked for and committed, no
\* revision of the source is let through again, and no later intent is weaker.
StrongIntentIsFinal ==
    \A o \in Ops :
        Committed(o) /\ ~receipts[o].request.admit /\ receipts[o].request.mode # "remove_influence"
            => /\ \A r \in Revisions : Blocks(fence, r)
               /\ receipts[o].request.mode = "hard_delete" => fence.mode = "hard_delete"

\* A revision gets through only on an admission made after every committed
\* deletion: a stale admission never reopens what was deleted meanwhile.
AdmissionsFollowDeletions ==
    \A r \in Revisions :
        fence.revision > 0 /\ ~Blocks(fence, r)
            => \E o \in Ops :
                  /\ Committed(o) /\ receipts[o].request.admit
                  /\ receipts[o].request.revision = r
                  /\ \A p \in Ops : Committed(p) /\ ~receipts[p].request.admit
                        => receipts[p].fence.revision < receipts[o].fence.revision

\* A retry of a committed operation is answered with its receipt, however far
\* the fence has moved since: the binding checks of read_receipt accept every
\* receipt apply writes.
RetriesGetTheirReceipt ==
    [][\A o \in Ops : Committed(o) /\ host[o].at = "asked" /\ host'[o].at = "answered"
          /\ host[o].request = receipts[o].request /\ failures' = failures
             => host'[o].reply = "receipt"]_fenceVars

==============================================================================
