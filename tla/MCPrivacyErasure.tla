------------------------- MODULE MCPrivacyErasure -------------------------
(* Instances of PrivacyErasure for TLC.                                     *)
EXTENDS PrivacyErasure

\* Row 3 is of a source of its own.
TwoSources == [r \in Rows |-> IF r <= 2 THEN "s" ELSE "t"]

TwoRows == {2, 3}
OneRow == {1}
===========================================================================
