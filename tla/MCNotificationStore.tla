------------------------ MODULE MCNotificationStore ------------------------
(* Constants for the runs of NotificationStore. *)
EXTENDS NotificationStore, TLC

Symmetry == Permutations(Requests)
=============================================================================
