----------------------- MODULE MCObservationDispatch -----------------------
(***************************************************************************)
(* Small instances of ObservationDispatch for TLC.                         *)
(***************************************************************************)
EXTENDS ObservationRefinement

\* One observation: two attempts fit before its deadline, and its content
\* outlives the deadline.
OneDeadline == <<3>>
OneExpiry == <<4>>
OneAge == <<3>>
OneKey == <<"s">>

\* Two observations of two sources; the second expires by its class's age.
TightDeadlines == <<1, 2>>
TightExpiries == <<2, 2>>
TightAges == <<2, 1>>
TwoKeys == <<"s", "t">>
\* The first is larger than a whole batch may be.
PairSizes == <<3, 1>>
LongExpiries == <<9, 9>>

\* Both age out, by their class alone, when the first's deadline is long past
\* and the second's has just come; one request forgets both.
EqualAges == <<2, 2>>
SameKey == <<"s", "s">>

UnitSizes == [k \in Obs |-> 1]
=============================================================================
