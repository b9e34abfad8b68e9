----------------------- MODULE MCObservationAdmission -----------------------
(* Instances of ObservationAdmission for TLC.                               *)
EXTENDS ObservationAdmission

\* The first record of one session, the others of another.
OneThenOthers == [k \in 1 .. N |-> IF k = 1 THEN "a" ELSE "b"]

=============================================================================
