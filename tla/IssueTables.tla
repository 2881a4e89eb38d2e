---------------------------- MODULE IssueTables -----------------------------
(***************************************************************************)
(* The tables of issue_db that an issue is kept in, the values of their    *)
(* columns, and what a request may ask to write.  IssueService changes     *)
(* them with concurrent handlers, AtomicIssues one write at a time.        *)
(***************************************************************************)
EXTENDS Naturals, Sequences

CONSTANTS
  Projects,       \* project ids, owned by the Project service
  Issues,         \* the issue ids randomUUID may draw
  Users,
  Texts,          \* values of the core text fields
  None            \* SQL NULL, and "no value" in a request slot

VARIABLES
  issue,       \* the issues table; version 0 stands for "no such row"
  history,     \* issue_history of an issue, in commit order
  outbox       \* outbox_events of an issue (its aggregate), in commit order

tables == <<issue, history, outbox>>

-----------------------------------------------------------------------------
(* "summary" stands for summary, type and priority: written together and   *)
(* recorded together.  "description" is apart because the CREATED history  *)
(* row does not record it.                                                 *)
Fields == {"summary", "description", "assignee", "status"}
CoreFields == {"summary", "description"}
Statuses == {"TODO", "IN_PROGRESS", "DONE"}
Values == Texts \cup Users \cup Statuses \cup {None}

Operations == {"create", "update", "assign", "transition", "comment"}

CanTransition(from, to) ==
  <<from, to>> \in { <<"TODO", "IN_PROGRESS">>, <<"IN_PROGRESS", "TODO">>,
                     <<"IN_PROGRESS", "DONE">>, <<"DONE", "IN_PROGRESS">> }

Row == [project : Projects \cup {None}, reporter : Users \cup {None},
        version : Nat, fld : [Fields -> Values]]

NoRow == [project |-> None, reporter |-> None, version |-> 0, fld |-> [f \in Fields |-> None]]

Change == UNION {[F -> Values] : F \in SUBSET Fields}   \* column -> new value

NoChange == [f \in {} |-> None]

Patched(fld, change) ==
  [f \in Fields |-> IF f \in DOMAIN change THEN change[f] ELSE fld[f]]

(* The union of what an operation's body may say.  A core patch names one  *)
(* core field or both; a comment changes no column of the issue.           *)
Patches(op) ==
  CASE op = "create"     -> {patch \in [CoreFields \cup {"assignee"} -> Texts \cup Users \cup {None}] :
                               /\ patch["summary"] \in Texts /\ patch["description"] \in Texts \cup {None}
                               /\ patch["assignee"] \in Users \cup {None}}
    [] op = "update"     -> UNION {{patch \in [F -> Texts \cup {None}] :
                                      "summary" \in F => patch["summary"] # None} :
                                     F \in (SUBSET CoreFields) \ {{}}}
    [] op = "assign"     -> [{"assignee"} -> Users \cup {None}]
    [] op = "transition" -> [{"status"} -> Statuses]
    [] op = "comment"    -> {NoChange}

Entry == [op : Operations, actor : Users, from : Change, to : Change]
Event == [op : Operations, version : Nat, actor : Users, recipients : SUBSET Users]

(* Fault: the NULL assignee is not filtered out. *)
recipients_KeepsNull(values, actor) == values \ {actor}

recipients(values, actor) == values \ {None, actor}

(* No issue has been created yet. *)
EmptyTables ==
  /\ issue = [i \in Issues |-> NoRow]
  /\ history = [i \in Issues |-> <<>>]
  /\ outbox = [i \in Issues |-> <<>>]
=============================================================================
