---------------------------- MODULE AtomicIssues ----------------------------
(***************************************************************************)
(* What the optimistic concurrency of the Issue service promises: every    *)
(* write of an issue happens at once, on the row as it is.  It changes the *)
(* named fields and no other, increments the version, and leaves one       *)
(* history row with the values it replaced and one event for the reporter  *)
(* and the assignee of the row it leaves, the actor excepted.              *)
(***************************************************************************)
EXTENDS IssueTables

Init == EmptyTables

(* User u leaves the row in issue i: its history row and its event. *)
Write(i, u, op, row, from, to) ==
  /\ issue' = [issue EXCEPT ![i] = row]
  /\ history' = [history EXCEPT ![i] = Append(@,
       [op |-> op, actor |-> u, from |-> from, to |-> to])]
  /\ outbox' = [outbox EXCEPT ![i] = Append(@,
       [op |-> op, version |-> row.version, actor |-> u,
        recipients |-> recipients({row.reporter, row.fld["assignee"]}, u)])]

Create(i, u, p) ==
  /\ issue[i].version = 0
  /\ \E patch \in Patches("create") :
       LET fld == Patched([NoRow.fld EXCEPT !["status"] = "TODO"], patch)
       IN Write(i, u, "create",
                [project |-> p, reporter |-> u, version |-> 1, fld |-> fld],
                NoChange, [f \in Fields \ {"description"} |-> fld[f]])

(* The history row of a core patch shows every core field. *)
Recorded(op, patch) == IF op = "update" THEN CoreFields ELSE DOMAIN patch

Alter(i, u, op) ==
  /\ issue[i].version > 0
  /\ \E patch \in Patches(op) :
       LET old == issue[i].fld
           new == Patched(old, patch)
       IN /\ op = "transition" => CanTransition(old["status"], new["status"])
          /\ Write(i, u, op, [issue[i] EXCEPT !.version = @ + 1, !.fld = new],
                   [f \in Recorded(op, patch) |-> old[f]],
                   [f \in Recorded(op, patch) |-> new[f]])

Next ==
  \E i \in Issues, u \in Users :
    \/ \E p \in Projects : Create(i, u, p)
    \/ \E op \in Operations \ {"create"} : Alter(i, u, op)

Spec == Init /\ [][Next]_tables
=============================================================================
