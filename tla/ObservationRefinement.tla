----------------------- MODULE ObservationRefinement -----------------------
(***************************************************************************)
(* ObservationDispatch implements ObservationOutbox.                       *)
(***************************************************************************)
EXTENDS ObservationDispatch

\* Where a row's columns place it in the life of an observation.
LifeOf(k) ==
    IF k > cursor THEN "new" ELSE
    IF state[k] \in UnsettledStates THEN "outstanding" ELSE
    IF state[k] \in {"acknowledged", "duplicate_acknowledged"} THEN "delivered" ELSE
    IF state[k] = NoRow THEN "gone" ELSE "abandoned"

LifeMap == [k \in Obs |-> LifeOf(k)]

AckedRows == {k \in Obs : Exists(k) /\ Acknowledged(k, receipts)}

Outbox == INSTANCE ObservationOutbox WITH
    life <- LifeMap, acked <- AckedRows, position <- watermark

\* The journal keeps the outbox's promises: every transaction of the store,
\* interleaved with late, repeated and lost answers of dispatchers, is a step
\* of the outbox or invisible to it.
ImplementsOutbox == Outbox!OutboxSpec
=============================================================================
