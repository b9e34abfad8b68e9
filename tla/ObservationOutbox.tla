------------------------- MODULE ObservationOutbox -------------------------
(***************************************************************************)
(* What the observation journal promises, without leases, attempts, clocks *)
(* or tables: an observation is admitted once and in stream order, it is   *)
(* closed exactly once (delivered, or given up on), a delivered one has    *)
(* the provider's acknowledgement behind it, and only closed ones are      *)
(* discarded.  The replay position passes no standing observation that the *)
(* provider did not acknowledge, and never moves back.                     *)
(*                                                                         *)
(* ObservationDispatch implements it under ObservationRefinement's mapping.*)
(***************************************************************************)
EXTENDS Integers

CONSTANT N          \* observations the source stream offers

VARIABLES
    life,       \* where each observation is in its life
    acked,      \* standing observations the provider acknowledged
    position    \* the replay position

outboxVars == <<life, acked, position>>

Observations == 1 .. N

Outstanding == {k \in Observations : life[k] = "outstanding"}
Closed == {k \in Observations : life[k] \in {"delivered", "abandoned"}}
Standing == Outstanding \cup Closed

OutboxInit ==
    /\ life = [k \in Observations |-> "new"]
    /\ acked = {}
    /\ position = 0

\* Records the ingress passes over on the way to k are never admitted later.
Admit(k) ==
    /\ \A j \in Observations : j >= k => life[j] = "new"
    /\ life' = [j \in Observations |-> IF j = k THEN "outstanding" ELSE
                                       IF j < k /\ life[j] = "new" THEN "gone"
                                                                  ELSE life[j]]
    /\ UNCHANGED <<acked, position>>

\* The position may pass standing observations that are acknowledged.
MovePosition ==
    /\ position' \in Observations \cup {position}
    /\ position' >= position
    /\ \A k \in Standing : position < k /\ k =< position' => k \in acked'

\* The provider acknowledged a standing observation; that closes it if it was
\* its latest attempt and it was still outstanding.
Acknowledge(k) ==
    /\ k \in Standing
    /\ acked' = acked \cup {k}
    /\ \/ life' = life
       \/ k \in Outstanding /\ life' = [life EXCEPT ![k] = "delivered"]
    /\ MovePosition

\* Give up on some observations, and discard others that are closed.
Retire(gone, discarded) ==
    /\ gone \subseteq Outstanding
    /\ discarded \subseteq Closed
    /\ life' = [k \in Observations |-> IF k \in gone THEN "abandoned" ELSE
                                       IF k \in discarded THEN "gone" ELSE life[k]]
    /\ acked' = acked \ discarded
    /\ UNCHANGED position

Recover ==
    /\ MovePosition
    /\ UNCHANGED <<life, acked>>

OutboxNext ==
    \/ \E k \in Observations : Admit(k) \/ Acknowledge(k)
    \/ \E gone, discarded \in SUBSET Observations : Retire(gone, discarded)
    \/ Recover

OutboxSpec == OutboxInit /\ [][OutboxNext]_outboxVars
=============================================================================
