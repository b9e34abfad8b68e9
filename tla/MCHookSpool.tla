----------------------------- MODULE MCHookSpool -----------------------------
(* Instances of HookSpool for TLC.                                          *)
EXTENDS HookSpool

Symmetric == Permutations(Procs) \cup Permutations(Events) \cup Permutations(Ids)
==============================================================================
