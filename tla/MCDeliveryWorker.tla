-------------------------- MODULE MCDeliveryWorker --------------------------
(***************************************************************************)
(* Small instances of DeliveryWorker for TLC.                              *)
(***************************************************************************)
EXTENDS DeliveryWorker

\* Two rows that fill a batch each by bytes, not by items.
BriefDeadlines == <<2, 2>>
LongExpiries == <<9, 9>>
PairSizes == <<2, 2>>
OneSource == <<"s", "s">>

\* One row, larger than a whole batch may be, delivered under a provider that
\* may be replaced.
OneDeadline == <<2>>
OneExpiry == <<9>>
LargeSize == <<3>>
OneKey == <<"s">>
=============================================================================
