----------------------------- MODULE MCBacklog -----------------------------
(* Constants for the run of Backlog. *)
EXTENDS Backlog, TLC

Symmetry == Permutations(Requests) \cup Permutations(Sprints)
=============================================================================
