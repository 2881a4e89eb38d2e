---------------------------- MODULE MCIssueViews ----------------------------
(* Constants for the run of IssueViews. *)
EXTENDS IssueViews, TLC

Symmetry == Permutations(Calls)
=============================================================================
