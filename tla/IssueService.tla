---------------------------- MODULE IssueService ----------------------------
(***************************************************************************)
(* The command side of the Issue service: the handlers of                  *)
(* issue-application.service.ts running concurrently (several requests,    *)
(* several replicas) against one issue_db, each a sequence of awaited      *)
(* steps: load the issue, ask the Project service over HTTP, ask it about  *)
(* the assignee, and commit one transaction that changes the issue by      *)
(* compare-and-swap on its version and inserts one issue_history row and   *)
(* one outbox_events row.  The number of an issue and its link to a sprint *)
(* are left to module Planning.                                            *)
(*                                                                         *)
(* Everything between two awaits runs in one step.  The commit             *)
(* transaction is one step: its first statement locks the row it changes   *)
(* (the issue, or the number sequence of the project), so a second         *)
(* transaction on the same row waits for the commit and re-reads it.       *)
(***************************************************************************)
EXTENDS IssueTables

CONSTANTS
  Requests,       \* request slots: how many handlers are in flight at once
  Asked,          \* bound: the operations clients ask for, out of Operations
  MayLeave,       \* bound: the users whose membership changes
  MayArchive,     \* bound: the projects that get archived
  MaxVersion      \* bound: no issue is changed beyond this version

ASSUME IssueAssumption ==
  /\ None \notin Projects \cup Users \cup Texts \cup Issues
  /\ MaxVersion \in Nat

VARIABLES
  req,         \* the handler running in each request slot
  member,      \* Project service: who may read each project
  archived,    \* Project service: the archived projects
  inFlight     \* history variable: the requests under way when a project was archived

vars == <<issue, history, outbox, req, member, archived, inFlight>>
outside == <<member, archived, inFlight>>

-----------------------------------------------------------------------------
Steps == {"idle", "access", "assignee", "commit"}

Request == [at : Steps, op : Operations, actor : Users \cup {None},
            issue : Issues \cup {None}, project : Projects \cup {None},
            expected : Nat, patch : Change, loaded : Row]

Idle == [at |-> "idle", op |-> "create", actor |-> None, issue |-> None,
         project |-> None, expected |-> 0, patch |-> NoChange, loaded |-> NoRow]

-----------------------------------------------------------------------------
Init ==
  /\ EmptyTables
  /\ req = [r \in Requests |-> Idle]
  /\ member = [p \in Projects |-> Users]
  /\ archived = {}
  /\ inFlight = [p \in Projects |-> {}]

(* The answer goes out (or is lost); the slot is free again. *)
Finish(r) ==
  /\ req' = [req EXCEPT ![r] = Idle]
  /\ inFlight' = [p \in Projects |-> inFlight[p] \ {r}]

(* POST /projects/p/issues *)
createIssue(r, u, p) ==
  /\ req[r].at = "idle"
  /\ \E patch \in Patches("create") :
       req' = [req EXCEPT ![r] = [Idle EXCEPT !.at = "access", !.actor = u, !.project = p,
                                              !.patch = patch]]
  /\ UNCHANGED <<tables, outside>>

(* PATCH of the core fields, of the assignee, of the status; POST of a     *)
(* comment: the handler starts by loading the issue (findIssue).  The      *)
(* client sends a version it has seen.                                     *)
changeIssue(r, u, i, op) ==
  /\ req[r].at = "idle"
  /\ op \in Asked \ {"create"}
  /\ issue[i].version > 0
  /\ \E patch \in Patches(op), v \in IF op = "comment" THEN {0} ELSE 1..issue[i].version :
       req' = [req EXCEPT ![r] =
         [Idle EXCEPT !.at = "access", !.op = op, !.actor = u, !.issue = i, !.expected = v,
                      !.patch = patch, !.loaded = issue[i], !.project = issue[i].project]]
  /\ UNCHANGED <<tables, outside>>

(* Where a request goes once its last check before the commit is passed:   *)
(* only what it names is looked up.                                        *)
AfterAccess(q) ==
  IF "assignee" \in DOMAIN q.patch /\ q.patch["assignee"] # None THEN "assignee" ELSE "commit"

(* Fault: writes are not refused on archived projects. *)
assertWritable_Always(p) == TRUE

assertWritable(p) == p \notin archived

assertExpectedVersion(q) ==
  q.op \in {"update", "assign", "transition"} => q.loaded.version = q.expected

assertTransition(q) ==
  q.op = "transition" => CanTransition(q.loaded.fld["status"], q.patch["status"])

(* requireWritableProject, or requireVisibleIssue for a write, and the     *)
(* synchronous checks that follow it.                                      *)
requireWritable(r) ==
  /\ req[r].at = "access"
  /\ req[r].actor \in member[req[r].project]
  /\ assertWritable(req[r].project)
  /\ assertExpectedVersion(req[r])
  /\ assertTransition(req[r])
  /\ req' = [req EXCEPT ![r].at = AfterAccess(req[r])]
  /\ UNCHANGED <<tables, outside>>

(* getAccess for the assignee: a reader of the project. *)
assertAssignee(r) ==
  /\ req[r].at = "assignee"
  /\ req[r].patch["assignee"] \in member[req[r].project]
  /\ req' = [req EXCEPT ![r].at = "commit"]
  /\ UNCHANGED <<tables, outside>>

(* The repository's createIssue transaction. *)
insertIssue(r, i) ==
  LET q == req[r]
      fld == Patched([NoRow.fld EXCEPT !["status"] = "TODO"], q.patch)
  IN /\ q.at = "commit" /\ q.op = "create"
     /\ issue[i].version = 0
     /\ issue' = [issue EXCEPT ![i] =
          [project |-> q.project, reporter |-> q.actor, version |-> 1, fld |-> fld]]
     /\ history' = [history EXCEPT ![i] = Append(@,
          [op |-> "create", actor |-> q.actor, from |-> NoChange,
           to |-> [f \in Fields \ {"description"} |-> fld[f]]])]
     /\ outbox' = [outbox EXCEPT ![i] = Append(@,
          [op |-> "create", version |-> 1, actor |-> q.actor,
           recipients |-> recipients({fld["assignee"]}, q.actor)])]
     /\ Finish(r)
     /\ UNCHANGED <<member, archived>>

(* The columns a write sets: a core patch rewrites every core field, an    *)
(* omitted one with the value the handler loaded.                          *)
Setters(q) ==
  IF q.op = "update"
  THEN [f \in CoreFields |-> IF f \in DOMAIN q.patch THEN q.patch[f] ELSE q.loaded.fld[f]]
  ELSE q.patch

(* Fault: the UPDATE is by id alone. *)
versionMatches_ById(q, row) == row.version > 0

(* Fault: a comment, which has no expectedVersion, skips the comparison. *)
versionMatches_NotForComments(q, row) == q.op = "comment" \/ row.version = q.expected

(* updateWithVersion's WHERE clause; a comment's version is the loaded one. *)
versionMatches(q, row) ==
  row.version = IF q.op = "comment" THEN q.loaded.version ELSE q.expected

(* Whom the event of a change is for: the row as updated, but the row as   *)
(* loaded for a comment.                                                   *)
eventRecipients(q, row) ==
  LET seen == IF q.op = "comment" THEN q.loaded ELSE row
  IN  recipients({seen.reporter, seen.fld["assignee"]}, q.actor)

(* The transaction of updateIssue, assignIssue, transitionIssue and        *)
(* addComment.                                                             *)
commitChange(r) ==
  LET q == req[r]
      i == q.issue
      set == Setters(q)
      row == [issue[i] EXCEPT !.version = @ + 1, !.fld = Patched(@, set)]
  IN /\ q.at = "commit" /\ q.op # "create"
     /\ versionMatches(q, issue[i])
     /\ issue[i].version < MaxVersion
     /\ issue' = [issue EXCEPT ![i] = row]
     /\ history' = [history EXCEPT ![i] = Append(@,
          [op |-> q.op, actor |-> q.actor,
           from |-> [f \in DOMAIN set |-> q.loaded.fld[f]], to |-> set])]
     /\ outbox' = [outbox EXCEPT ![i] = Append(@,
          [op |-> q.op, version |-> row.version, actor |-> q.actor,
           recipients |-> eventRecipients(q, row)])]
     /\ Finish(r)
     /\ UNCHANGED <<member, archived>>

(* Fault: the event is inserted outside the transaction and survives it. *)
failRequest_EventStays(r) ==
  /\ req[r].at = "commit" /\ req[r].op # "create"
  /\ outbox' = [outbox EXCEPT ![req[r].issue] = Append(@,
       [op |-> req[r].op, version |-> issue[req[r].issue].version + 1,
        actor |-> req[r].actor, recipients |-> {}])]
  /\ Finish(r)
  /\ UNCHANGED <<issue, history, member, archived>>

(* A check fails (404, 409, 422), the Project service does not answer      *)
(* (503), the transaction rolls back, or the replica dies: whatever the    *)
(* step, the request ends and has changed nothing.                         *)
failRequest(r) ==
  /\ req[r].at # "idle"
  /\ Finish(r)
  /\ UNCHANGED <<tables, member, archived>>

-----------------------------------------------------------------------------
(* What the Project service does meanwhile. *)
archiveProject(p) ==
  /\ p \in MayArchive \ archived
  /\ archived' = archived \cup {p}
  /\ inFlight' = [inFlight EXCEPT ![p] = {r \in Requests : req[r].at # "idle"}]
  /\ UNCHANGED <<tables, req, member>>

changeMembership(p, u) ==
  /\ u \in MayLeave
  /\ member' = [member EXCEPT ![p] = IF u \in @ THEN @ \ {u} ELSE @ \cup {u}]
  /\ UNCHANGED <<tables, req, archived, inFlight>>

Handler(r) ==
  \/ \E u \in Users, p \in Projects : createIssue(r, u, p)
  \/ \E u \in Users, i \in Issues, op \in Operations : changeIssue(r, u, i, op)
  \/ requireWritable(r)
  \/ assertAssignee(r)
  \/ \E i \in Issues : insertIssue(r, i)
  \/ commitChange(r)
  \/ failRequest(r)

Environment ==
  \/ \E p \in Projects : archiveProject(p)
  \/ \E p \in Projects, u \in Users : changeMembership(p, u)

Next == (\E r \in Requests : Handler(r)) \/ Environment

Spec == Init /\ [][Next]_vars

-----------------------------------------------------------------------------
(* Every variable has its type. *)
TypeOK ==
  /\ issue \in [Issues -> Row]
  /\ history \in [Issues -> Seq(Entry)]
  /\ outbox \in [Issues -> Seq(Event)]
  /\ req \in [Requests -> Request]
  /\ member \in [Projects -> SUBSET Users]
  /\ archived \subseteq Projects
  /\ inFlight \in [Projects -> SUBSET Requests]

(* The version decides, at the very row the UPDATE finds, whether anybody  *)
(* wrote since the handler loaded the issue: a handler that reaches its    *)
(* commit matches exactly when the row is the one it loaded, in every      *)
(* column.  So of two handlers that loaded the same row only one commits,  *)
(* and a handler whose checks passed gets no 409 (VERSION_CONFLICT) unless *)
(* someone was faster.                                                     *)
StaleIsDetected ==
  \A r \in Requests :
    req[r].at = "commit" /\ req[r].op # "create" =>
      (versionMatches(req[r], issue[req[r].issue]) <=> issue[req[r].issue] = req[r].loaded)

Sets(entry, f) == f \in DOMAIN entry.to

(* Entry m of an issue's history is the last one up to n that sets f. *)
LastSetter(i, f, m, n) ==
  /\ m \in 1..n /\ Sets(history[i][m], f)
  /\ \A k \in (m + 1)..n : ~Sets(history[i][k], f)

(* The history of an issue explains the issue: replaying it gives the row, *)
(* and the value a change says it replaced is the value the change before  *)
(* it left, although the handler wrote it from a row it had loaded before  *)
(* two HTTP calls.  It fails when an update is lost or a core patch        *)
(* silently reverts a field it did not name.                               *)
HistoryExplainsIssue ==
  \A i \in Issues, f \in Fields :
    /\ \A m \in DOMAIN history[i] :
         LastSetter(i, f, m, Len(history[i])) => history[i][m].to[f] = issue[i].fld[f]
    /\ \A n \in DOMAIN history[i], m \in DOMAIN history[i] :
         Sets(history[i][n], f) /\ LastSetter(i, f, m, n - 1)
           => history[i][n].from[f] = history[i][m].to[f]

(* Every event is addressed to the reporter and to the user who was        *)
(* assigned at that version, the actor excepted, also the event of a       *)
(* comment, whose recipients come from the row the handler loaded.         *)
RecipientsAreCurrent ==
  \A i \in Issues : \A n \in DOMAIN outbox[i] : \A m \in 1..n :
    LastSetter(i, "assignee", m, n) =>
      outbox[i][n].recipients =
        recipients({issue[i].reporter, history[i][m].to["assignee"]}, outbox[i][n].actor)

(* An issue's status only moves along the transition table, although the   *)
(* table is consulted on a loaded row and the move is committed later.     *)
LegalLifecycle ==
  [][\A i \in Issues :
       issue[i].version > 0 /\ issue'[i].fld["status"] # issue[i].fld["status"]
         => CanTransition(issue[i].fld["status"], issue'[i].fld["status"])]_vars

(* What the readers of an issue take from here (IssueViews, the client's   *)
(* cache): versions only grow, and a version of an issue has one content.  *)
OneContentPerVersion ==
  [][\A i \in Issues :
       /\ issue'[i].version >= issue[i].version
       /\ issue'[i].version = issue[i].version => issue'[i] = issue[i]]_vars

(* What the publishers take from here (Outbox, insertEvent): a step adds   *)
(* one event at most, the next one of its issue, and none is ever changed. *)
FeedsOutbox ==
  [][\E i \in Issues :
       LET next == Len(outbox[i]) + 1
       IN  /\ next \in DOMAIN outbox'[i] /\ outbox'[i][next].version = next
           /\ outbox' = [outbox EXCEPT ![i] = Append(@, outbox'[i][next])]]_outbox

(* Once a project is archived only the requests that were under way at     *)
(* that moment can still write to it: the accepted window between the      *)
(* access check and the commit is one request long.                        *)
ArchiveClosesProject ==
  \A r \in Requests :
    req[r].at = "commit" /\ req[r].project \in archived => r \in inFlight[req[r].project]

(* The tables change as if every handler ran alone (AtomicIssues): what a  *)
(* commit writes, records as replaced and announces depends only on the    *)
(* row it finds, not on the one loaded before the HTTP calls, and the      *)
(* synchronous checks hold of that row too.                                *)
Atomic == INSTANCE AtomicIssues
ImplementsAtomicIssues == Atomic!Spec
=============================================================================
