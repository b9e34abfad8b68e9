---------------------------- MODULE MCSourceFence ----------------------------
(* Instances of SourceFence for TLC.                                        *)
EXTENDS SourceFence, TLC

Symmetric == Permutations(Ops)
==============================================================================
