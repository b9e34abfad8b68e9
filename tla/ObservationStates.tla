------------------------- MODULE ObservationStates -------------------------
(***************************************************************************)
(* The vocabulary of the observation journal: the delivery states a row    *)
(* can be in, the outcomes an attempt receipt can carry, and the fixed     *)
(* tables that relate them.  Nothing here has state; every module of the   *)
(* journal extends it.                                                     *)
(*                                                                         *)
(* Source: crates/tracedecay-memory-observation/src/state.rs, receipt.rs.  *)
(***************************************************************************)
EXTENDS Integers

\* The states of DeliveryStateV1, plus the absence of a row.
NoRow == "no_row"

UnsettledStates == {"pending", "leased", "effect_unknown"}

SettledStates == {"acknowledged", "duplicate_acknowledged", "rejected",
                  "cancelled", "expired", "exhausted", "forgotten"}

DeliveryStates == UnsettledStates \cup SettledStates

\* DeliveryStateV1::is_terminal: effect_unknown may still be reconciled.
IsTerminal(s) == s \in SettledStates

\* DeliveryStateV1::is_deliverable: what lease_pending may claim.
IsDeliverable(s) == s \in {"pending", "effect_unknown"}

\* DeliveryStateV1::can_transition_to.
CanTransitionTo(from, to) ==
    \/ /\ from = "pending"
       /\ to \in {"leased", "cancelled", "expired", "exhausted", "forgotten"}
    \/ /\ from = "leased"
       /\ to \in DeliveryStates \ {"leased"}
    \/ /\ from = "effect_unknown"
       /\ to \in {"leased", "exhausted", "expired", "forgotten"}
    \/ /\ from \in SettledStates \ {"forgotten"}
       /\ to = "forgotten"

-----------------------------------------------------------------------------
\* The fourteen ObservationOutcomeV1 values, grouped as the tables use them.
AcknowledgingOutcomes == {"applied", "duplicate_acknowledged", "partial_effect"}

RejectingOutcomes ==
    {"rejected_contract_violation", "rejected_scope_mismatch",
     "rejected_provenance_unavailable", "rejected_privacy_policy",
     "rejected_payload_too_large", "rejected_extension_unsupported",
     "idempotency_conflict"}

Outcomes == AcknowledgingOutcomes \cup RejectingOutcomes \cup
            {"provider_unavailable", "deadline_exceeded", "cancelled",
             "effect_unknown"}

\* ObservationOutcomeV1::is_retryable.
IsRetryable(o) == o \in {"provider_unavailable", "deadline_exceeded",
                         "effect_unknown"}

\* ObservationOutcomeV1::implied_state.
ImpliedState(o) ==
    CASE o \in {"applied", "partial_effect"} -> "acknowledged"
      [] o = "duplicate_acknowledged" -> "duplicate_acknowledged"
      [] o \in RejectingOutcomes -> "rejected"
      [] o \in {"provider_unavailable", "deadline_exceeded"} -> "pending"
      [] o = "cancelled" -> "cancelled"
      [] o = "effect_unknown" -> "effect_unknown"
=============================================================================
