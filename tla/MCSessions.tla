----------------------------- MODULE MCSessions -----------------------------
(* Constants for the runs of Sessions. *)
EXTENDS Sessions, TLC

Symmetry == Permutations(Users) \cup Permutations(Tabs) \cup Permutations(Tokens) \cup Permutations(Calls)
=============================================================================
