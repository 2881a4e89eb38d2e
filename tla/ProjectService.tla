--------------------------- MODULE ProjectService ---------------------------
(***************************************************************************)
(* The Project service: the use cases on the members and the projects of   *)
(* one workspace as concurrent requests against PostgreSQL (READ           *)
(* COMMITTED).  Every query is a step, so what a use case has loaded may   *)
(* be stale when it writes.  Writes are single statements and commit at    *)
(* once, except those that take an owner away or delete a member: their    *)
(* deferred trigger locks the workspace row, counts the owners and holds   *)
(* the lock until the commit.  Workspaces share nothing but their slugs.   *)
(***************************************************************************)
EXTENDS Naturals, FiniteSets

CONSTANTS
  Users,
  Founder,       \* the user who created the workspace
  Projects,      \* the project ids NewGuid may draw
  Names, Keys,   \* normalised: trimmed, names folded to one case, keys to upper case
  Descriptions,
  None,          \* SQL NULL, no user, no project, no request
  Requests,      \* request slots: how many use cases run at once
  Asked          \* bound: the operations clients ask for, out of Operations

MemberOps == {"add", "change", "remove"}
Operations == MemberOps \cup {"create", "update", "archive"}

ASSUME ProjectServiceAssumption ==
  /\ Founder \in Users
  /\ None \notin Users \cup Projects \cup Names \cup Keys \cup Descriptions \cup Requests
  /\ Asked \subseteq Operations

VARIABLES
  role,     \* workspace_members: each user's role, "NONE" without a row
  project,  \* projects; a row without a name stands for "no such row"
  lock,     \* the request whose transaction holds the workspaces row
  req       \* the use case running in each slot

vars == <<role, project, lock, req>>

Roles == {"OWNER", "ADMIN", "MEMBER"}
CanManage == {"OWNER", "ADMIN"}
owners == {u \in Users : role[u] = "OWNER"}

Row == [name : Names \cup {None}, key : Keys \cup {None},
        description : Descriptions \cup {None}, archived : BOOLEAN]
NoRow == [name |-> None, key |-> None, description |-> None, archived |-> FALSE]
exists(p) == project[p].name # None

Patch == UNION {[F -> Names \cup Descriptions \cup {None}] : F \in SUBSET {"name", "description"}}
Patches == {patch \in Patch : /\ DOMAIN patch # {}
                              /\ "name" \in DOMAIN patch => patch["name"] \in Names
                              /\ "description" \in DOMAIN patch =>
                                   patch["description"] \in Descriptions \cup {None}}
NoPatch == [f \in {} |-> None]

Steps == {"idle", "target", "count", "save", "trigger", "commit", "role", "key", "name"}

(* seen, loaded: the roles of actor and target as the context tracks them. *)
(* gone: the tracked row of the target has been deleted meanwhile.         *)
Request == [at : Steps, op : Operations, actor : Users \cup {None},
            target : Users \cup {None}, want : Roles \cup {"NONE"},
            seen : Roles \cup {"NONE"}, loaded : Roles \cup {"NONE"}, gone : BOOLEAN,
            project : Projects \cup {None}, key : Keys \cup {None}, patch : Patch, row : Row]
Idle == [at |-> "idle", op |-> "add", actor |-> None, target |-> None, want |-> "NONE",
         seen |-> "NONE", loaded |-> "NONE", gone |-> FALSE,
         project |-> None, key |-> None, patch |-> NoPatch, row |-> NoRow]

(* CreateWorkspaceUseCase has saved the workspace and its first owner. *)
Init ==
  /\ role = [u \in Users |-> IF u = Founder THEN "OWNER" ELSE "NONE"]
  /\ project = [p \in Projects |-> NoRow]
  /\ lock = None
  /\ req = [r \in Requests |-> Idle]

Finish(r) == req' = [req EXCEPT ![r] = Idle]
Goto(r, step) == req' = [req EXCEPT ![r].at = step]

-----------------------------------------------------------------------------
(* Members.  RequireMembershipAsync and RequireMemberManager; only an      *)
(* owner may give the owner role.                                          *)
manageMembers(r, u, op, target, want) ==
  /\ req[r].at = "idle" /\ op \in Asked
  /\ role[u] \in CanManage
  /\ want = "OWNER" => role[u] = "OWNER"
  /\ req' = [req EXCEPT ![r] = [Idle EXCEPT !.at = "target", !.op = op, !.actor = u,
                                !.seen = role[u], !.target = target, !.want = want]]
  /\ UNCHANGED <<role, project, lock>>

(* The use cases begin; an email is looked up (in IAM) on the way. *)
addMember(r, u, target, want) == manageMembers(r, u, "add", target, want)
changeMemberRole(r, u, target, want) == manageMembers(r, u, "change", target, want)
removeMember(r, u, target) == manageMembers(r, u, "remove", target, "NONE")

(* The target's membership; a user's own row is tracked already and comes  *)
(* back as it was loaded before.  Only an owner may touch an owner.        *)
findTarget(r) ==
  LET q == req[r]
      loaded == IF q.target = q.actor /\ ~q.gone THEN q.seen ELSE role[q.target]
  IN  /\ q.at = "target"
      /\ (role[q.target] = "NONE") = (q.op = "add")
      /\ loaded = "OWNER" => q.seen = "OWNER"
      /\ req' = [req EXCEPT ![r] =
           [q EXCEPT !.loaded = loaded, !.gone = FALSE,
                     !.at = IF loaded = "OWNER" /\ q.want # "OWNER" THEN "count" ELSE "save"]]
      /\ UNCHANGED <<role, project, lock>>

countOwners(r) ==
  /\ req[r].at = "count"
  /\ Cardinality(owners) > 1
  /\ Goto(r, "save")
  /\ UNCHANGED <<role, project, lock>>

(* No other transaction has written the member's row without committing. *)
rowFree(u) == \A r \in Requests : req[r].at \in {"trigger", "commit"} => req[r].target # u

(* The unique index of (workspace, user) decides. *)
insertMember(r) ==
  LET q == req[r]
  IN  /\ q.at = "save" /\ q.op = "add"
      /\ rowFree(q.target) /\ role[q.target] = "NONE"
      /\ role' = [role EXCEPT ![q.target] = q.want]
      /\ Finish(r)
      /\ UNCHANGED <<project, lock>>

written_Null(q) == IF q.op = "remove" THEN None ELSE q.want   \* fault: the row stays, without a role

(* EF writes changed columns only: asking for the role that was loaded     *)
(* leaves the stored one as it is.                                         *)
written(q) == IF q.want = q.loaded THEN role[q.target] ELSE q.want

trackedRow_ByUser(q) == TRUE      \* fault: the row is written by user id, present or not

(* UPDATE and DELETE are by the primary key of the tracked row. *)
trackedRow(q) == ~q.gone

(* The writes after which the deferred trigger has something to check. *)
checked(q, new) == q.op = "remove" \/ (role[q.target] = "OWNER" /\ new # "OWNER")

saveMember(r) ==
  LET q == req[r]
      new == written(q)
  IN  /\ q.at = "save" /\ q.op \in {"change", "remove"}
      /\ rowFree(q.target) /\ trackedRow(q)
      /\ IF checked(q, new)
         THEN /\ req' = [req EXCEPT ![r] = [q EXCEPT !.at = "trigger", !.want = new]]
              /\ UNCHANGED role
         ELSE /\ role' = [role EXCEPT ![q.target] = new]
              /\ Finish(r)
      /\ UNCHANGED <<project, lock>>

ensure_workspace_has_owner_NoLock(r) ==     \* fault: the owners are counted without a lock
  /\ req[r].at = "trigger"
  /\ owners \ {req[r].target} # {}
  /\ Goto(r, "commit")
  /\ UNCHANGED <<role, project, lock>>

(* The deferred trigger: lock the workspace, then look for another owner. *)
ensure_workspace_has_owner(r) ==
  /\ req[r].at = "trigger"
  /\ lock = None
  /\ owners \ {req[r].target} # {}
  /\ lock' = r
  /\ Goto(r, "commit")
  /\ UNCHANGED <<role, project>>

commitMember(r) ==
  LET q == req[r]
      lost == {s \in Requests : q.op = "remove" /\ req[s].target = q.target}
  IN  /\ q.at = "commit"
      /\ role' = [role EXCEPT ![q.target] = q.want]
      /\ lock' = IF lock = r THEN None ELSE lock
      /\ req' = [s \in Requests |-> IF s = r THEN Idle
                                   ELSE IF s \in lost THEN [req[s] EXCEPT !.gone = TRUE] ELSE req[s]]
      /\ UNCHANGED project

-----------------------------------------------------------------------------
(* Projects. *)
createProject(r, u, key, name, description) ==
  /\ req[r].at = "idle" /\ "create" \in Asked
  /\ role[u] \in CanManage
  /\ req' = [req EXCEPT ![r] = [Idle EXCEPT !.at = "key", !.op = "create", !.actor = u, !.key = key,
                                !.patch = [name |-> name, description |-> description]]]
  /\ UNCHANGED <<role, project, lock>>

anyByKey(r) ==
  /\ req[r].at = "key"
  /\ \A p \in Projects : project[p].key # req[r].key
  /\ Goto(r, "name")
  /\ UNCHANGED <<role, project, lock>>

anyByName(r) ==
  /\ req[r].at = "name"
  /\ \A p \in Projects : project[p].name # req[r].patch["name"]
  /\ Goto(r, "save")
  /\ UNCHANGED <<role, project, lock>>

(* Update and archive load the project first, then the caller's role. *)
loadProject(r, u, p, op, patch) ==
  /\ req[r].at = "idle" /\ op \in Asked
  /\ exists(p)
  /\ req' = [req EXCEPT ![r] = [Idle EXCEPT !.at = "role", !.op = op, !.actor = u, !.project = p,
                                !.patch = patch, !.row = project[p]]]
  /\ UNCHANGED <<role, project, lock>>

requireProjectManager(r) ==
  LET q == req[r]
  IN  /\ q.at = "role"
      /\ role[q.actor] \in CanManage
      /\ Goto(r, IF "name" \in DOMAIN q.patch /\ q.patch["name"] # q.row.name THEN "name" ELSE "save")
      /\ UNCHANGED <<role, project, lock>>

uniqueKey_NoIndex(p, key) == TRUE       \* fault: only the lookup before the insert protects a key

(* The unique indexes over (workspace, key) and (workspace, lower(name)). *)
uniqueKey(p, key) == \A o \in Projects \ {p} : project[o].key # key
uniqueName(p, name) == \A o \in Projects \ {p} : project[o].name # name

insertProject(r, p) ==
  LET q == req[r]
  IN  /\ q.at = "save" /\ q.op = "create"
      /\ ~exists(p) /\ uniqueKey(p, q.key) /\ uniqueName(p, q.patch["name"])
      /\ project' = [project EXCEPT ![p] =
           [name |-> q.patch["name"], key |-> q.key,
            description |-> q.patch["description"], archived |-> FALSE]]
      /\ Finish(r)
      /\ UNCHANGED <<role, lock>>

updatable_ById(p) == TRUE               \* fault: the UPDATE does not look at the status
updatable(p) == ~project[p].archived

(* Writes both columns: what the PATCH omits, as it was loaded. *)
UpdateActive(r) ==
  LET q == req[r]
      name == IF "name" \in DOMAIN q.patch THEN q.patch["name"] ELSE q.row.name
      description == IF "description" \in DOMAIN q.patch THEN q.patch["description"] ELSE q.row.description
  IN  /\ q.at = "save" /\ q.op = "update"
      /\ updatable(q.project) /\ uniqueName(q.project, name)
      /\ project' = [project EXCEPT ![q.project].name = name, ![q.project].description = description]
      /\ Finish(r)
      /\ UNCHANGED <<role, lock>>

ArchiveActive(r) ==
  /\ req[r].at = "save" /\ req[r].op = "archive"
  /\ updatable(req[r].project)
  /\ project' = [project EXCEPT ![req[r].project].archived = TRUE]
  /\ Finish(r)
  /\ UNCHANGED <<role, lock>>

(* A check or a constraint fails, an archive finds the project archived,   *)
(* the transaction rolls back, the client gives up, or the replica dies.   *)
failRequest(r) ==
  /\ req[r].at # "idle"
  /\ lock' = IF lock = r THEN None ELSE lock
  /\ Finish(r)
  /\ UNCHANGED <<role, project>>

-----------------------------------------------------------------------------
Members(r) ==
  \/ \E u, t \in Users, want \in Roles : addMember(r, u, t, want) \/ changeMemberRole(r, u, t, want)
  \/ \E u, t \in Users : removeMember(r, u, t)
  \/ findTarget(r) \/ countOwners(r)
  \/ insertMember(r) \/ saveMember(r)
  \/ ensure_workspace_has_owner(r) \/ commitMember(r)

Catalog(r) ==
  \/ \E u \in Users, key \in Keys, name \in Names, description \in Descriptions \cup {None} :
       createProject(r, u, key, name, description)
  \/ \E u \in Users, p \in Projects :
       \/ \E patch \in Patches : loadProject(r, u, p, "update", patch)
       \/ loadProject(r, u, p, "archive", NoPatch)
  \/ anyByKey(r) \/ anyByName(r) \/ requireProjectManager(r)
  \/ \E p \in Projects : insertProject(r, p)
  \/ UpdateActive(r) \/ ArchiveActive(r)

Next == \E r \in Requests : Members(r) \/ Catalog(r) \/ failRequest(r)

Spec == Init /\ [][Next]_vars

-----------------------------------------------------------------------------
(* Every variable has its type. *)
TypeOK ==
  /\ role \in [Users -> Roles \cup {"NONE"}]
  /\ project \in [Projects -> Row]
  /\ lock \in Requests \cup {None}
  /\ req \in [Requests -> Request]

(* The workspace keeps at least one owner (BR-PERM-001), although each     *)
(* request counts the owners before it writes and two owners may remove or *)
(* demote one another at the same time.                                    *)
OwnerRemains == owners # {}

(* A user who is no member becomes one by being added only: a role change  *)
(* that was loaded before the removal does not bring the member back.      *)
RemovedStayRemoved ==
  [][\A u \in Users : role[u] = "NONE" /\ role'[u] # "NONE" =>
       \E r \in Requests : req[r].at = "save" /\ req[r].op = "add" /\ req[r].target = u]_vars

(* An archived project never changes again (BR-PROJ-001), whatever was     *)
(* loaded while it was active.                                             *)
ArchivedIsFrozen ==
  [][\A p \in Projects : project[p].archived => project'[p] = project[p]]_vars

(* Keys and names stay unique in the workspace when two creates, or a      *)
(* create and a rename, have both found them free.                         *)
IdentityIsUnique ==
  \A p, o \in Projects : exists(p) /\ exists(o) /\ p # o =>
    project[p].key # project[o].key /\ project[p].name # project[o].name
=============================================================================
