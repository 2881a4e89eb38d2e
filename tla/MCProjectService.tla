-------------------------- MODULE MCProjectService --------------------------
(* Constants for the runs of ProjectService. *)
EXTENDS ProjectService, TLC

Symmetry == Permutations(Users \ {Founder}) \cup Permutations(Projects)
              \cup Permutations(Names) \cup Permutations(Keys) \cup Permutations(Requests)
=============================================================================
