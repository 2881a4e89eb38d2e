--------------------------- MODULE MCIssueService ---------------------------
(* Constants for the runs of IssueService. *)
EXTENDS IssueService, TLC

Symmetry == Permutations(Users) \cup Permutations(Requests) \cup Permutations(Issues)
=============================================================================
