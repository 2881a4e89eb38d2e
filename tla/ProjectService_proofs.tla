----------------------- MODULE ProjectService_proofs ------------------------
(***************************************************************************)
(* For any number of users, projects and requests in flight: the lock of   *)
(* the deferred trigger keeps an owner in the workspace, a removed member  *)
(* comes back by an add only, keys and names stay unique, and an archived  *)
(* project stays as it is.                                                 *)
(***************************************************************************)
EXTENDS ProjectService, TLAPS

Writing == {"trigger", "commit"}

(* Past its trigger a transaction holds the workspace row, so that only    *)
(* one can be there; what the trigger counted is therefore still true.     *)
OwnersHeld ==
  \A r \in Requests : req[r].at = "commit" => lock = r /\ owners \ {req[r].target} # {}

(* Uncommitted writes of two transactions are on different rows. *)
RowsHeld ==
  \A r, s \in Requests : r # s /\ req[r].at \in Writing /\ req[s].at \in Writing =>
    req[r].target # req[s].target

(* A change or a removal past its lookup knows a member, until another     *)
(* transaction deletes the row; once it has written the row itself, none   *)
(* can.                                                                    *)
MemberSound(q) ==
  /\ q.at = "target" => q.op \in MemberOps
  /\ q.at # "idle" /\ q.op \in MemberOps => q.target \in Users
  /\ q.at \in Writing => q.op \in {"change", "remove"}
  /\ q.op \in {"change", "remove"} =>
       /\ q.at \in {"idle", "target", "count", "save"} \cup Writing
       /\ q.at \in {"count", "save"} \cup Writing /\ ~q.gone => role[q.target] # "NONE"
       /\ q.at \in Writing => ~q.gone
       /\ q.at # "idle" /\ q.op = "change" => q.want # "NONE"

(* What a request on projects carries, and has loaded. *)
ProjectSound(q) ==
  q.at # "idle" =>
    /\ q.op = "create" =>
         /\ q.key \in Keys /\ q.patch["name"] \in Names
         /\ q.patch["description"] \in Descriptions \cup {None}
    /\ q.op \in {"update", "archive"} =>
         q.project \in Projects /\ exists(q.project) /\ q.row.name \in Names
    /\ q.op = "update" => q.patch \in Patches

MembersSound == \A r \in Requests : MemberSound(req[r])
ProjectsSound == \A r \in Requests : ProjectSound(req[r])
ArchivedExist == \A p \in Projects : project[p].archived => exists(p)

IInv ==
  /\ TypeOK
  /\ OwnersHeld /\ OwnerRemains
  /\ RowsHeld /\ MembersSound
  /\ ProjectsSound /\ ArchivedExist /\ IdentityIsUnique

-----------------------------------------------------------------------------
LEMMA PatchDef ==
  ASSUME NEW F \in SUBSET {"name", "description"},
         NEW patch \in [F -> Names \cup Descriptions \cup {None}]
  PROVE  patch \in Patch
BY DEF Patch

LEMMA IdleType == Idle \in Request /\ NoRow \in Row /\ NoPatch \in Patch
<1>1. NoPatch \in [{} -> Names \cup Descriptions \cup {None}]
  BY DEF NoPatch
<1>2. NoPatch \in Patch /\ NoRow \in Row
  BY <1>1, PatchDef DEF NoRow, Row
<1>3. QED  BY <1>2 DEF Idle, Request, Steps, Operations, MemberOps

THEOREM InitSound == Init => IInv
<1> SUFFICES ASSUME Init PROVE IInv
  OBVIOUS
<1> USE DEF Init
<1>1. \A r \in Requests : req[r].at = "idle" /\ req[r].op = "add"
  BY DEF Idle
<1>2. TypeOK
  BY IdleType DEF TypeOK, Roles
<1>3. owners # {}
  BY ProjectServiceAssumption DEF owners
<1>4. OwnersHeld /\ RowsHeld
  BY <1>1 DEF OwnersHeld, RowsHeld, Writing
<1>5. MembersSound /\ ProjectsSound
  BY <1>1 DEF MembersSound, MemberSound, ProjectsSound, ProjectSound, Writing
<1>6. \A p \in Projects : ~exists(p) /\ ~project[p].archived
  BY DEF exists, NoRow
<1>7. QED
  BY <1>2, <1>3, <1>4, <1>5, <1>6 DEF IInv, OwnerRemains, ArchivedExist, IdentityIsUnique

-----------------------------------------------------------------------------
(* A request moved on, or noted as having lost its row, is a request. *)
LEMMA MovedType ==
  ASSUME NEW q \in Request, NEW at \in Steps
  PROVE  [q EXCEPT !.at = at] \in Request
BY DEF Request

(* What an update writes: a name and a description, on an active project. *)
LEMMA UpdateWrites ==
  ASSUME IInv, NEW r \in Requests, UpdateActive(r)
  PROVE  \E p \in Projects, name \in Names, description \in Descriptions \cup {None} :
           /\ exists(p) /\ ~project[p].archived /\ uniqueName(p, name)
           /\ project' = [project EXCEPT ![p] = [project[p] EXCEPT !.name = name,
                                                                  !.description = description]]
<1>0. ASSUME NEW p \in Projects, NEW n, NEW d
      PROVE  [project EXCEPT ![p].name = n, ![p].description = d]
               = [project EXCEPT ![p] = [project[p] EXCEPT !.name = n, !.description = d]]
  <2>1. project \in [Projects -> Row]
    BY DEF IInv, TypeOK
  <2>2. DOMAIN project = Projects /\ project = [x \in Projects |-> project[x]]
    BY <2>1
  <2>3. QED  BY <2>2, Zenon
<1> DEFINE q == req[r]
           name == IF "name" \in DOMAIN q.patch THEN q.patch["name"] ELSE q.row.name
           description == IF "description" \in DOMAIN q.patch THEN q.patch["description"]
                                                              ELSE q.row.description
<1>1. /\ q.patch \in Patches /\ q.row.name \in Names /\ q.row.description \in Descriptions \cup {None}
      /\ q.project \in Projects /\ exists(q.project) /\ project[q.project] \in Row
  BY DEF IInv, TypeOK, UpdateActive, ProjectsSound, ProjectSound, Request, Row
<1>2. name \in Names /\ description \in Descriptions \cup {None}
  BY <1>1 DEF Patches
<1>3. /\ ~project[q.project].archived /\ uniqueName(q.project, name)
      /\ project' = [project EXCEPT ![q.project].name = name, ![q.project].description = description]
  BY DEF UpdateActive, updatable
<1> HIDE DEF name, description
<1>4. [project EXCEPT ![q.project].name = name, ![q.project].description = description]
        = [project EXCEPT ![q.project] = [project[q.project] EXCEPT !.name = name,
                                                                    !.description = description]]
  BY <1>0, <1>1, Zenon
<1>5. QED  BY <1>1, <1>2, <1>3, <1>4, Zenon

(* A request about members begins as one of three use cases. *)
LEMMA MembersCases ==
  ASSUME NEW r \in Requests, Members(r)
  PROVE  \/ \E u, t \in Users, op \in MemberOps, want \in Roles \cup {"NONE"} :
              (op = "remove") = (want = "NONE") /\ manageMembers(r, u, op, t, want)
         \/ findTarget(r) \/ countOwners(r) \/ insertMember(r) \/ saveMember(r)
         \/ ensure_workspace_has_owner(r) \/ commitMember(r)
  BY DEF Members, addMember, changeMemberRole, removeMember, MemberOps, Roles

LEMMA TypeStep ==
  ASSUME IInv, [Next]_vars
  PROVE  TypeOK'
<1> USE DEF IInv, TypeOK
<1>0. ASSUME NEW r \in Requests, NEW q \in Request, req' = [req EXCEPT ![r] = q]
      PROVE  req' \in [Requests -> Request]
  BY <1>0
<1>1. ASSUME NEW r \in Requests, Finish(r) PROVE req' \in [Requests -> Request]
  BY <1>0, <1>1, IdleType DEF Finish
<1>2. ASSUME NEW r \in Requests, NEW at \in Steps, Goto(r, at) PROVE req' \in [Requests -> Request]
  <2>1. [req[r] EXCEPT !.at = at] \in Request
    BY MovedType
  <2>2. QED  BY <1>0, <1>2, <2>1 DEF Goto
<1>3. ASSUME NEW r \in Requests, NEW u \in Users, NEW t \in Users, NEW op \in MemberOps,
             NEW want \in Roles \cup {"NONE"}, manageMembers(r, u, op, t, want)
      PROVE  TypeOK'
  <2>1. [Idle EXCEPT !.at = "target", !.op = op, !.actor = u, !.seen = role[u],
                     !.target = t, !.want = want] \in Request
    BY IdleType DEF Request, Steps, Operations
  <2>2. QED  BY <1>0, <1>3, <2>1 DEF manageMembers
<1>4. ASSUME NEW r \in Requests, findTarget(r) PROVE TypeOK'
  <2>1. req[r] \in Request /\ req[r].target \in Users
    BY <1>4 DEF findTarget, MembersSound, MemberSound
  <2>2. PICK loaded \in Roles \cup {"NONE"}, at \in Steps :
          req' = [req EXCEPT ![r] = [req[r] EXCEPT !.loaded = loaded, !.gone = FALSE, !.at = at]]
    <3>1. req[r].seen \in Roles \cup {"NONE"} /\ role[req[r].target] \in Roles \cup {"NONE"}
      BY <2>1 DEF Request
    <3>2. {"count", "save"} \subseteq Steps
      BY DEF Steps
    <3>3. QED  BY <1>4, <3>1, <3>2 DEF findTarget
  <2>3. [req[r] EXCEPT !.loaded = loaded, !.gone = FALSE, !.at = at] \in Request
    BY <2>1 DEF Request
  <2>4. QED  BY <1>0, <1>4, <2>2, <2>3 DEF findTarget
<1>5. ASSUME NEW r \in Requests, countOwners(r) \/ anyByKey(r) \/ anyByName(r) \/ requireProjectManager(r)
      PROVE  TypeOK'
  <2>1. PICK at \in Steps : Goto(r, at)
    BY <1>5 DEF countOwners, anyByKey, anyByName, requireProjectManager, Steps
  <2>2. QED  BY <1>2, <1>5, <2>1 DEF countOwners, anyByKey, anyByName, requireProjectManager
<1>6. ASSUME NEW r \in Requests, insertMember(r) PROVE TypeOK'
  <2>1. req[r].want \in Roles \cup {"NONE"}
    BY DEF Request
  <2>2. QED  BY <1>1, <1>6, <2>1 DEF insertMember
<1>7. ASSUME NEW r \in Requests, saveMember(r) PROVE TypeOK'
  <2>1. req[r] \in Request /\ req[r].target \in Users
    BY <1>7 DEF saveMember, MembersSound, MemberSound, MemberOps
  <2>2. written(req[r]) \in Roles \cup {"NONE"}
    BY <2>1 DEF written, Request
  <2>3. [req[r] EXCEPT !.at = "trigger", !.want = written(req[r])] \in Request
    BY <2>1, <2>2 DEF Request, Steps
  <2>4. QED  BY <1>0, <1>1, <1>7, <2>2, <2>3 DEF saveMember
<1>8. ASSUME NEW r \in Requests, ensure_workspace_has_owner(r) PROVE TypeOK'
  BY <1>2, <1>8 DEF ensure_workspace_has_owner, Steps
<1>9. ASSUME NEW r \in Requests, commitMember(r) PROVE TypeOK'
  <2>1. req[r].want \in Roles \cup {"NONE"}
    BY DEF Request
  <2>2. ASSUME NEW s \in Requests
        PROVE  req[s] \in Request /\ [req[s] EXCEPT !.gone = TRUE] \in Request
    <3>1. req[s] \in Request
      OBVIOUS
    <3>2. QED  BY ONLY <3>1 DEF Request
  <2>3. req' \in [Requests -> Request]
    <3>1. \A s \in Requests : req'[s] \in {Idle, req[s], [req[s] EXCEPT !.gone = TRUE]}
      BY <1>9 DEF commitMember
    <3>2. req' = [s \in Requests |-> req'[s]]
      BY <1>9 DEF commitMember
    <3>3. QED  BY <2>2, <3>1, <3>2, IdleType
  <2>4. QED  BY <1>9, <2>1, <2>3 DEF commitMember
<1>10. ASSUME NEW r \in Requests, NEW u \in Users, NEW key \in Keys, NEW name \in Names,
              NEW description \in Descriptions \cup {None}, createProject(r, u, key, name, description)
       PROVE  TypeOK'
  <2> DEFINE patch == [name |-> name, description |-> description]
  <2>1. patch \in Patch
    <3>1. patch \in [{"name", "description"} -> Names \cup Descriptions \cup {None}]
      OBVIOUS
    <3>2. QED  BY <3>1, PatchDef
  <2>2. [Idle EXCEPT !.at = "key", !.op = "create", !.actor = u, !.key = key, !.patch = patch] \in Request
    BY <2>1, IdleType DEF Request, Steps, Operations
  <2>3. QED  BY <1>0, <1>10, <2>2 DEF createProject
<1>11. ASSUME NEW r \in Requests, NEW u \in Users, NEW p \in Projects, NEW op \in {"update", "archive"},
              NEW patch \in Patch, loadProject(r, u, p, op, patch)
       PROVE  TypeOK'
  <2>1. [Idle EXCEPT !.at = "role", !.op = op, !.actor = u, !.project = p,
                     !.patch = patch, !.row = project[p]] \in Request
    BY IdleType DEF Request, Steps, Operations
  <2>2. QED  BY <1>0, <1>11, <2>1 DEF loadProject
<1>12. ASSUME NEW r \in Requests, NEW p \in Projects, insertProject(r, p) PROVE TypeOK'
  <2>1. /\ req[r].patch["name"] \in Names /\ req[r].key \in Keys
        /\ req[r].patch["description"] \in Descriptions \cup {None}
    BY <1>12 DEF insertProject, ProjectsSound, ProjectSound
  <2>2. QED  BY <1>1, <1>12, <2>1 DEF insertProject, Row
<1>13. ASSUME NEW r \in Requests, UpdateActive(r) PROVE TypeOK'
  <2>1. PICK p \in Projects, name \in Names, description \in Descriptions \cup {None} :
          project' = [project EXCEPT ![p] = [project[p] EXCEPT !.name = name, !.description = description]]
    BY <1>13, UpdateWrites
  <2>2. [project[p] EXCEPT !.name = name, !.description = description] \in Row
    BY DEF Row
  <2>3. project' \in [Projects -> Row]
    BY <2>1, <2>2
  <2>4. Finish(r) /\ UNCHANGED <<role, lock>>
    BY <1>13 DEF UpdateActive
  <2>5. QED  BY <1>1, <2>3, <2>4
<1>14. ASSUME NEW r \in Requests, ArchiveActive(r) PROVE TypeOK'
  BY <1>1, <1>14 DEF ArchiveActive, Row
<1>15. ASSUME NEW r \in Requests, failRequest(r) PROVE TypeOK'
  BY <1>1, <1>15 DEF failRequest
<1>16. CASE UNCHANGED vars
  BY <1>16 DEF vars
<1>17. Patches \subseteq Patch /\ NoPatch \in Patch
  BY IdleType DEF Patches
<1>18. QED
  BY <1>3, <1>4, <1>5, <1>6, <1>7, <1>8, <1>9, <1>10, <1>11, <1>12, <1>13, <1>14, <1>15, <1>16, <1>17,
     MembersCases
     DEF Next, Catalog

-----------------------------------------------------------------------------
Step(r) == Members(r) \/ Catalog(r) \/ failRequest(r)

(* A step leaves the other requests alone, but for the row of the member   *)
(* it deletes, and does not take a lock that another holds.                *)
LEMMA OthersKept ==
  ASSUME IInv, NEW r \in Requests, Step(r), NEW s \in Requests, s # r
  PROVE  /\ \/ req'[s] = req[s]
            \/ /\ commitMember(r) /\ req[r].op = "remove" /\ req[s].target = req[r].target
               /\ req'[s] = [req[s] EXCEPT !.gone = TRUE]
         /\ lock = s => lock' = s
<1>1. req \in [Requests -> Request] /\ s # None
  BY ProjectServiceAssumption DEF IInv, TypeOK
<1>2. CASE commitMember(r)
  BY <1>1, <1>2 DEF commitMember
<1>3. CASE ~commitMember(r)
  <2>1. \E q : req' = [req EXCEPT ![r] = q]
    BY <1>3, MembersCases DEF Step, Catalog, manageMembers, findTarget, countOwners, insertMember, saveMember,
         ensure_workspace_has_owner, createProject, anyByKey, anyByName, loadProject, requireProjectManager,
         insertProject, UpdateActive, ArchiveActive, failRequest, Finish, Goto
  <2>2. lock = s => lock' = s
    BY <1>1, <1>3, MembersCases DEF Step, Catalog, manageMembers, findTarget, countOwners, insertMember, saveMember,
         ensure_workspace_has_owner, createProject, anyByKey, anyByName, loadProject, requireProjectManager,
         insertProject, UpdateActive, ArchiveActive, failRequest
  <2>3. QED  BY <1>1, <2>1, <2>2
<1>4. QED  BY <1>2, <1>3

(* A request comes to write a row by saving it, when no other writes it,   *)
(* and to its commit by the trigger.                                       *)
LEMMA WritingSteps ==
  ASSUME IInv, NEW r \in Requests, Step(r), req'[r].at \in Writing
  PROVE  /\ req'[r].target = req[r].target
         /\ \/ saveMember(r) /\ req'[r].at = "trigger" /\ rowFree(req[r].target)
            \/ ensure_workspace_has_owner(r) /\ req'[r].at = "commit" /\ req[r].at = "trigger"
<1>1. req \in [Requests -> Request] /\ req[r] \in Request
  BY DEF IInv, TypeOK
<1>2. CASE saveMember(r)
  <2>1. CASE checked(req[r], written(req[r]))
    <3>1. req'[r] = [req[r] EXCEPT !.at = "trigger", !.want = written(req[r])]
      BY <1>1, <1>2, <2>1 DEF saveMember
    <3>2. req'[r].at = "trigger" /\ req'[r].target = req[r].target
      BY <1>1, <3>1 DEF Request
    <3>3. QED  BY <1>2, <3>2 DEF saveMember
  <2>2. CASE ~checked(req[r], written(req[r]))
    BY <1>1, <1>2, <2>2 DEF saveMember, Finish, Idle, Writing
  <2>3. QED  BY <2>1, <2>2
<1>3. CASE ensure_workspace_has_owner(r)
  BY <1>1, <1>3 DEF ensure_workspace_has_owner, Goto, Request
<1>4. ASSUME Finish(r) PROVE FALSE
  BY <1>1, <1>4 DEF Finish, Idle, Writing
<1>5. ASSUME NEW at, Goto(r, at), at \notin Writing PROVE FALSE
  BY <1>1, <1>5 DEF Goto, Request
<1>6. CASE insertMember(r) \/ (\E p \in Projects : insertProject(r, p)) \/ UpdateActive(r)
             \/ ArchiveActive(r) \/ failRequest(r)
  BY <1>4, <1>6 DEF insertMember, insertProject, UpdateActive, ArchiveActive, failRequest
<1>7. CASE countOwners(r) \/ anyByKey(r) \/ anyByName(r) \/ requireProjectManager(r)
  BY <1>5, <1>7 DEF countOwners, anyByKey, anyByName, requireProjectManager, Writing
<1>8. CASE commitMember(r)
  BY <1>1, <1>8 DEF commitMember, Idle, Writing
<1>9. CASE findTarget(r)
  BY <1>1, <1>9 DEF findTarget, Writing, Request
<1>10. ASSUME NEW u \in Users, NEW t \in Users, NEW op \in MemberOps, NEW want \in Roles \cup {"NONE"},
              manageMembers(r, u, op, t, want)
       PROVE  FALSE
  BY <1>1, <1>10 DEF manageMembers, Idle, Writing
<1>11. ASSUME NEW u \in Users, NEW key \in Keys, NEW name \in Names,
              NEW description \in Descriptions \cup {None}, createProject(r, u, key, name, description)
       PROVE  FALSE
  BY <1>1, <1>11 DEF createProject, Idle, Writing
<1>12. ASSUME NEW u \in Users, NEW p \in Projects, NEW op, NEW patch, loadProject(r, u, p, op, patch)
       PROVE  FALSE
  BY <1>1, <1>12 DEF loadProject, Idle, Writing
<1>13. QED
  BY <1>2, <1>3, <1>6, <1>7, <1>8, <1>9, <1>10, <1>11, <1>12, MembersCases DEF Step, Catalog

LEMMA RowsStep ==
  ASSUME IInv, NEW r \in Requests, Step(r)
  PROVE  RowsHeld'
<1> SUFFICES ASSUME NEW s \in Requests, NEW t \in Requests, s # t,
                    req'[s].at \in Writing, req'[t].at \in Writing
             PROVE  req'[s].target # req'[t].target
  BY DEF RowsHeld, Writing
<1>1. \A o \in Requests : o # r => req'[o].at = req[o].at /\ req'[o].target = req[o].target
  <2> SUFFICES ASSUME NEW o \in Requests, o # r
               PROVE  req'[o].at = req[o].at /\ req'[o].target = req[o].target
    OBVIOUS
  <2>1. req[o] \in Request
    BY DEF IInv, TypeOK
  <2>2. req'[o] = req[o] \/ req'[o] = [req[o] EXCEPT !.gone = TRUE]
    BY OthersKept
  <2>3. QED  BY <2>1, <2>2 DEF Request
<1>2. CASE s # r /\ t # r
  BY <1>1, <1>2 DEF IInv, RowsHeld
<1>3. ASSUME NEW o \in Requests, o # r, req'[r].at \in Writing, req'[o].at \in Writing
      PROVE  req'[r].target # req'[o].target
  <2>1. req[o].at \in Writing /\ req'[o].target = req[o].target /\ req'[r].target = req[r].target
    BY <1>1, <1>3, WritingSteps
  <2>2. rowFree(req[r].target) \/ req[r].at \in Writing
    BY <1>3, WritingSteps DEF Writing
  <2>3. QED  BY <1>3, <2>1, <2>2 DEF rowFree, Writing, IInv, RowsHeld
<1>4. QED  BY <1>2, <1>3

(* The three ways a role is written.  Only a commit takes an owner away or *)
(* deletes a member, and only an add makes one.                            *)
LEMMA RoleWrites ==
  ASSUME IInv, NEW r \in Requests, Step(r)
  PROVE  \/ UNCHANGED role
         \/ \E u \in Users, new \in Roles \cup {"NONE"} :
              /\ u = req[r].target
              /\ role' = [role EXCEPT ![u] = new]
              /\ \/ insertMember(r) /\ role[u] = "NONE"
                 \/ /\ saveMember(r) /\ role[u] # "NONE" /\ new # "NONE"
                    /\ role[u] = "OWNER" => new = "OWNER"
                 \/ /\ commitMember(r) /\ role[u] # "NONE"
                    /\ req[r].op # "remove" => new # "NONE"
<1> DEFINE q == req[r]
<1>1. q \in Request /\ MemberSound(q)
  BY DEF IInv, TypeOK, MembersSound
<1>2. CASE insertMember(r)
  BY <1>1, <1>2 DEF insertMember, MemberSound, MemberOps, Request
<1>3. CASE saveMember(r)
  <2>1. q.target \in Users /\ role[q.target] # "NONE" /\ role[q.target] \in Roles \cup {"NONE"}
    BY <1>1, <1>3 DEF saveMember, trackedRow, MemberSound, MemberOps, IInv, TypeOK
  <2>2. CASE checked(q, written(q))
    BY <1>3, <2>2 DEF saveMember
  <2>3. CASE ~checked(q, written(q))
    <3>1. q.op = "change" /\ q.want # "NONE" /\ (role[q.target] = "OWNER" => written(q) = "OWNER")
      BY <1>1, <1>3, <2>3 DEF saveMember, checked, MemberSound
    <3>2. written(q) \in Roles \cup {"NONE"} /\ written(q) # "NONE"
      BY <1>1, <2>1, <3>1 DEF written, Request
    <3>3. role' = [role EXCEPT ![q.target] = written(q)]
      BY <1>3, <2>3 DEF saveMember
    <3>4. QED  BY <1>3, <2>1, <3>1, <3>2, <3>3
  <2>4. QED  BY <2>2, <2>3
<1>4. CASE commitMember(r)
  <2>1. q.target \in Users /\ role[q.target] # "NONE" /\ q.want \in Roles \cup {"NONE"}
        /\ (q.op # "remove" => q.want # "NONE")
    BY <1>1, <1>4 DEF commitMember, MemberSound, MemberOps, Writing, Request
  <2>2. role' = [role EXCEPT ![q.target] = q.want]
    BY <1>4 DEF commitMember
  <2>3. QED  BY <1>4, <2>1, <2>2
<1>5. CASE ~(insertMember(r) \/ saveMember(r) \/ commitMember(r))
  BY <1>5, MembersCases DEF Step, Catalog, manageMembers, findTarget, countOwners, ensure_workspace_has_owner,
       createProject, anyByKey, anyByName, loadProject, requireProjectManager, insertProject,
       UpdateActive, ArchiveActive, failRequest
<1>6. QED  BY <1>2, <1>3, <1>4, <1>5

LEMMA OwnersStep ==
  ASSUME IInv, NEW r \in Requests, Step(r)
  PROVE  OwnersHeld' /\ OwnerRemains'
<1>1. /\ req \in [Requests -> Request] /\ role \in [Users -> Roles \cup {"NONE"}]
      /\ owners # {}
      /\ \A s \in Requests : req[s].at = "commit" => lock = s /\ owners \ {req[s].target} # {}
  BY DEF IInv, TypeOK, OwnersHeld, OwnerRemains
<1>2. commitMember(r) \/ owners \subseteq owners'
  BY <1>1, RoleWrites DEF owners
<1>3. commitMember(r) => owners \ {req[r].target} \subseteq owners'
  BY <1>1 DEF commitMember, owners
<1>4. owners' # {}
  <2>1. CASE commitMember(r)
    BY <1>1, <1>3, <2>1 DEF commitMember
  <2>2. CASE ~commitMember(r)
    BY <1>1, <1>2, <2>2
  <2>3. QED  BY <2>1, <2>2
<1>5. ASSUME NEW s \in Requests, req'[s].at = "commit"
      PROVE  lock' = s /\ owners' \ {req'[s].target} # {}
  <2>1. CASE s = r
    <3>1. ensure_workspace_has_owner(r) /\ req'[r].target = req[r].target
      BY <1>5, <2>1, WritingSteps DEF Writing
    <3>2. owners' = owners
      BY <3>1 DEF ensure_workspace_has_owner, owners
    <3>3. QED  BY <2>1, <3>1, <3>2 DEF ensure_workspace_has_owner
  <2>2. CASE s # r
    <3>1. req[s].at = "commit" /\ req'[s].target = req[s].target
      <4>1. req[s] \in Request /\ (req'[s] = req[s] \/ req'[s] = [req[s] EXCEPT !.gone = TRUE])
        BY <1>1, <2>2, OthersKept
      <4>2. QED  BY <1>5, <4>1 DEF Request
    <3>2. lock = s /\ lock' = s
      BY <1>1, <2>2, <3>1, OthersKept
    <3>3. ~commitMember(r)
      BY <1>1, <2>2, <3>2 DEF commitMember
    <3>4. QED  BY <1>1, <1>2, <3>1, <3>2, <3>3
  <2>3. QED  BY <2>1, <2>2
<1>6. QED  BY <1>4, <1>5 DEF OwnersHeld, OwnerRemains

(* Another request's step either leaves the tracked row or deletes it, and *)
(* notes it; it deletes no row that the request has written itself.        *)
LEMMA MemberKept ==
  ASSUME IInv, NEW r \in Requests, Step(r), NEW s \in Requests, s # r
  PROVE  MemberSound(req[s])'
<1>1. /\ req[s] \in Request /\ req[r] \in Request /\ MemberSound(req[s])
      /\ role \in [Users -> Roles \cup {"NONE"}]
  BY DEF IInv, TypeOK, MembersSound
<1>2. \/ req'[s] = req[s]
      \/ /\ commitMember(r) /\ req[s].target = req[r].target
         /\ req'[s] = [req[s] EXCEPT !.gone = TRUE]
  BY OthersKept
<1>3. CASE req'[s] = req[s]
  <2>1. ASSUME req[s].op \in {"change", "remove"}, req[s].at \in {"count", "save"} \cup Writing, ~req[s].gone
        PROVE  role'[req[s].target] # "NONE"
    <3>1. role[req[s].target] # "NONE" /\ req[s].target \in Users
      BY <1>1, <2>1 DEF MemberSound, MemberOps, Writing
    <3>2. CASE commitMember(r) /\ req[r].op = "remove" /\ req[s].target = req[r].target
      BY <1>1, <1>3, <2>1, <3>2 DEF commitMember, Request
    <3>3. CASE ~(commitMember(r) /\ req[r].op = "remove" /\ req[s].target = req[r].target)
      BY <1>1, <3>1, <3>3, RoleWrites DEF insertMember
    <3>4. QED  BY <3>2, <3>3
  <2>2. QED  BY <1>1, <1>3, <2>1 DEF MemberSound, Writing
<1>4. CASE commitMember(r) /\ req[s].target = req[r].target /\ req'[s] = [req[s] EXCEPT !.gone = TRUE]
  <2>1. req[s].at \notin Writing
    BY <1>4 DEF commitMember, IInv, RowsHeld, Writing
  <2>2. QED  BY <1>1, <1>4, <2>1 DEF MemberSound, Request, Writing
<1>5. QED  BY <1>2, <1>3, <1>4

LEMMA MemberMoved ==
  ASSUME IInv, NEW r \in Requests, Step(r)
  PROVE  MemberSound(req[r])'
<1>1. req \in [Requests -> Request] /\ req[r] \in Request /\ MemberSound(req[r])
  BY DEF IInv, TypeOK, MembersSound
<1>2. CASE req'[r] = Idle
  BY <1>2 DEF MemberSound, Idle, Writing
<1>3. ASSUME NEW u \in Users, NEW t \in Users, NEW op \in MemberOps, NEW want \in Roles \cup {"NONE"},
             (op = "remove") = (want = "NONE"), manageMembers(r, u, op, t, want)
      PROVE  MemberSound(req[r])'
  <2>1. /\ req'[r].at = "target" /\ req'[r].op = op /\ req'[r].target = t /\ req'[r].want = want
        /\ (op = "remove") = (want = "NONE")
    BY <1>1, <1>3 DEF manageMembers, Idle
  <2>2. QED  BY <2>1 DEF MemberSound, Writing
<1>4. CASE findTarget(r)
  <2>1. /\ req'[r].at \in {"count", "save"} /\ req'[r].op = req[r].op /\ req'[r].want = req[r].want
        /\ req'[r].target = req[r].target /\ req[r].at = "target" /\ role' = role
        /\ (role[req[r].target] = "NONE") = (req[r].op = "add")
    BY <1>1, <1>4 DEF findTarget, Request
  <2>2. QED  BY <1>1, <2>1 DEF MemberSound, Writing, MemberOps
<1>5. CASE countOwners(r) \/ ensure_workspace_has_owner(r)
  <2>1. PICK at \in {"save", "commit"} :
          /\ req'[r] = [req[r] EXCEPT !.at = at] /\ role' = role
          /\ \/ at = "save" /\ req[r].at = "count"
             \/ at = "commit" /\ req[r].at = "trigger"
    BY <1>1, <1>5 DEF countOwners, ensure_workspace_has_owner, Goto
  <2>2. /\ req'[r].at = at /\ req'[r].op = req[r].op /\ req'[r].want = req[r].want
        /\ req'[r].target = req[r].target /\ req'[r].gone = req[r].gone
    BY <1>1, <2>1 DEF Request
  <2>3. QED  BY <1>1, <2>1, <2>2 DEF MemberSound, Writing, MemberOps
<1>6. ASSUME saveMember(r), checked(req[r], written(req[r])) PROVE MemberSound(req[r])'
  <2>1. /\ req'[r] = [req[r] EXCEPT !.at = "trigger", !.want = written(req[r])] /\ role' = role
        /\ req[r].at = "save" /\ req[r].op \in {"change", "remove"} /\ ~req[r].gone
    BY <1>1, <1>6 DEF saveMember, trackedRow
  <2>2. /\ req'[r].at = "trigger" /\ req'[r].op = req[r].op /\ req'[r].want = written(req[r])
        /\ req'[r].target = req[r].target /\ req'[r].gone = req[r].gone
    BY <1>1, <2>1 DEF Request
  <2>3. req[r].op = "change" => written(req[r]) # "NONE"
    BY <1>1, <2>1 DEF MemberSound, written
  <2>4. QED  BY <1>1, <2>1, <2>2, <2>3 DEF MemberSound, Writing, MemberOps
<1>7. CASE anyByKey(r) \/ anyByName(r) \/ requireProjectManager(r)
  <2>1. PICK at \in {"name", "save"} :
          /\ req'[r] = [req[r] EXCEPT !.at = at] /\ role' = role
          /\ req[r].at \in {"key", "name", "role"}
    BY <1>1, <1>7 DEF anyByKey, anyByName, requireProjectManager, Goto
  <2>2. /\ req'[r].at = at /\ req'[r].op = req[r].op /\ req'[r].target = req[r].target
    BY <1>1, <2>1 DEF Request
  <2>3. QED  BY <1>1, <2>1, <2>2 DEF MemberSound, Writing, MemberOps
<1>8. ASSUME NEW u, NEW key, NEW name, NEW description, createProject(r, u, key, name, description)
      PROVE  MemberSound(req[r])'
  <2>1. req'[r].at = "key" /\ req'[r].op = "create"
    BY <1>1, <1>8 DEF createProject, Idle
  <2>2. QED  BY <2>1 DEF MemberSound, Writing, MemberOps
<1>9. ASSUME NEW u, NEW p, NEW op \in {"update", "archive"}, NEW patch, loadProject(r, u, p, op, patch)
      PROVE  MemberSound(req[r])'
  <2>1. req'[r].at = "role" /\ req'[r].op = op
    BY <1>1, <1>9 DEF loadProject, Idle
  <2>2. QED  BY <2>1 DEF MemberSound, Writing, MemberOps
<1>10. CASE insertMember(r) \/ commitMember(r) \/ failRequest(r) \/ UpdateActive(r) \/ ArchiveActive(r)
              \/ (saveMember(r) /\ ~checked(req[r], written(req[r])))
              \/ \E p \in Projects : insertProject(r, p)
  <2>1. req'[r] = Idle
    BY <1>1, <1>10 DEF insertMember, commitMember, failRequest, UpdateActive, ArchiveActive, saveMember,
         insertProject, Finish
  <2>2. QED  BY <1>2, <2>1
<1>11. QED
  BY <1>3, <1>4, <1>5, <1>6, <1>7, <1>8, <1>9, <1>10, MembersCases DEF Step, Catalog

-----------------------------------------------------------------------------
(* Rows of projects are only inserted, renamed and archived; what exists   *)
(* keeps existing, and its key.                                            *)
LEMMA ProjectWrites ==
  ASSUME IInv, NEW r \in Requests, Step(r)
  PROVE  \/ UNCHANGED project
         \/ \E p \in Projects, row \in Row :
              /\ project' = [project EXCEPT ![p] = row]
              /\ row.name \in Names /\ uniqueName(p, row.name)
              /\ \/ insertProject(r, p) /\ ~exists(p) /\ row.key \in Keys /\ uniqueKey(p, row.key)
                 \/ UpdateActive(r) /\ exists(p) /\ ~project[p].archived /\ row.key = project[p].key
         \/ \E p \in Projects : /\ exists(p)
                               /\ project' = [project EXCEPT ![p].archived = TRUE]
<1>1. project \in [Projects -> Row] /\ ProjectSound(req[r])
  BY DEF IInv, TypeOK, ProjectsSound
<1>2. ASSUME NEW p \in Projects, insertProject(r, p)
      PROVE  \E row \in Row : /\ project' = [project EXCEPT ![p] = row]
                             /\ row.name \in Names /\ uniqueName(p, row.name) /\ ~exists(p)
                             /\ row.key \in Keys /\ uniqueKey(p, row.key)
  <2> DEFINE row == [name |-> req[r].patch["name"], key |-> req[r].key,
                     description |-> req[r].patch["description"], archived |-> FALSE]
  <2>1. row \in Row /\ row.name \in Names /\ row.key \in Keys
    BY <1>1, <1>2 DEF insertProject, ProjectSound, Row
  <2>2. QED  BY <1>2, <2>1 DEF insertProject
<1>3. ASSUME UpdateActive(r)
      PROVE  \E p \in Projects, row \in Row :
               /\ project' = [project EXCEPT ![p] = row]
               /\ row.name \in Names /\ uniqueName(p, row.name)
               /\ exists(p) /\ ~project[p].archived /\ row.key = project[p].key
  <2>1. PICK p \in Projects, name \in Names, description \in Descriptions \cup {None} :
          /\ exists(p) /\ ~project[p].archived /\ uniqueName(p, name)
          /\ project' = [project EXCEPT ![p] = [project[p] EXCEPT !.name = name,
                                                                 !.description = description]]
    BY <1>3, UpdateWrites
  <2> DEFINE row == [project[p] EXCEPT !.name = name, !.description = description]
  <2>2. row \in Row /\ row.name = name /\ row.key = project[p].key
    BY <1>1 DEF Row
  <2>3. QED  BY <2>1, <2>2
<1>4. CASE ArchiveActive(r)
  BY <1>1, <1>4 DEF ArchiveActive, ProjectSound
<1>5. CASE ~(UpdateActive(r) \/ ArchiveActive(r) \/ \E p \in Projects : insertProject(r, p))
  BY <1>5, MembersCases DEF Step, Catalog, manageMembers, findTarget, countOwners, insertMember, saveMember,
       ensure_workspace_has_owner, commitMember, createProject, anyByKey, anyByName, loadProject,
       requireProjectManager, failRequest
<1>6. QED  BY <1>2, <1>3, <1>4, <1>5

LEMMA ProjectsStep ==
  ASSUME IInv, NEW r \in Requests, Step(r)
  PROVE  ArchivedExist' /\ IdentityIsUnique'
<1>0. /\ project \in [Projects -> Row] /\ ArchivedExist /\ IdentityIsUnique
      /\ None \notin Names \cup Keys
  BY ProjectServiceAssumption DEF IInv, TypeOK
<1> USE <1>0
<1>1. CASE UNCHANGED project
  BY <1>1 DEF ArchivedExist, IdentityIsUnique, exists
<1>2. ASSUME NEW p \in Projects, NEW row \in Row, project' = [project EXCEPT ![p] = row],
             row.name \in Names, uniqueName(p, row.name),
             \/ ~exists(p) /\ row.key \in Keys /\ uniqueKey(p, row.key)
             \/ exists(p) /\ row.key = project[p].key
      PROVE  ArchivedExist' /\ IdentityIsUnique'
  <2>1. project'[p] = row /\ \A o \in Projects \ {p} : project'[o] = project[o]
    BY <1>2
  <2>2. ArchivedExist'
    BY <1>2, <2>1 DEF ArchivedExist, exists
  <2>3. \A o \in Projects \ {p} : exists(o) => project[o].key # row.key /\ project[o].name # row.name
    BY <1>2 DEF IdentityIsUnique, uniqueName, uniqueKey
  <2>4. IdentityIsUnique'
    BY <2>1, <2>3 DEF IdentityIsUnique, exists
  <2>5. QED  BY <2>2, <2>4
<1>3. ASSUME NEW p \in Projects, exists(p), project' = [project EXCEPT ![p].archived = TRUE]
      PROVE  ArchivedExist' /\ IdentityIsUnique'
  <2>1. \A o \in Projects : project'[o].name = project[o].name /\ project'[o].key = project[o].key
    BY <1>3 DEF Row
  <2>2. \A o \in Projects \ {p} : project'[o] = project[o]
    BY <1>3
  <2>3. QED  BY <1>3, <2>1, <2>2 DEF ArchivedExist, IdentityIsUnique, exists
<1>4. QED  BY <1>1, <1>2, <1>3, ProjectWrites

LEMMA ProjectKept ==
  ASSUME IInv, NEW r \in Requests, Step(r)
  PROVE  \A p \in Projects : exists(p) => exists(p)'
<1>1. project \in [Projects -> Row] /\ None \notin Names
  BY ProjectServiceAssumption DEF IInv, TypeOK
<1>2. ASSUME NEW p \in Projects, project' = [project EXCEPT ![p].archived = TRUE]
      PROVE  \A o \in Projects : project'[o].name = project[o].name
  BY <1>1, <1>2 DEF Row
<1>3. QED  BY <1>1, <1>2, ProjectWrites DEF exists

LEMMA ProjectsSoundStep ==
  ASSUME IInv, NEW r \in Requests, Step(r)
  PROVE  ProjectsSound'
<1>1. /\ req \in [Requests -> Request] /\ project \in [Projects -> Row]
      /\ \A s \in Requests : req[s] \in Request /\ ProjectSound(req[s])
  BY DEF IInv, TypeOK, ProjectsSound
<1>2. ASSUME NEW s \in Requests, NEW q \in Request, ProjectSound(q),
             req'[s].at = "idle"
             \/ /\ q.at # "idle" /\ req'[s].op = q.op /\ req'[s].key = q.key /\ req'[s].patch = q.patch
                /\ req'[s].project = q.project /\ req'[s].row = q.row
      PROVE  ProjectSound(req[s])'
  BY <1>2, ProjectKept DEF ProjectSound, exists
<1>3. ASSUME NEW s \in Requests, s # r PROVE ProjectSound(req[s])'
  <2>1. req'[s] = req[s] \/ req'[s] = [req[s] EXCEPT !.gone = TRUE]
    BY <1>3, OthersKept
  <2>2. QED  BY <1>1, <1>2, <2>1 DEF Request
<1>4. ProjectSound(req[r])'
  <2>1. CASE req'[r] = Idle
    BY <2>1 DEF Idle, ProjectSound
  <2>2. ASSUME NEW u \in Users, NEW t \in Users, NEW op \in MemberOps, NEW want \in Roles \cup {"NONE"},
               manageMembers(r, u, op, t, want)
        PROVE  ProjectSound(req[r])'
    <3>1. req'[r].op = op
      BY <1>1, <2>2 DEF manageMembers, Idle
    <3>2. QED  BY <3>1 DEF ProjectSound, MemberOps
  <2>3. CASE findTarget(r) \/ countOwners(r) \/ ensure_workspace_has_owner(r) \/ anyByKey(r) \/ anyByName(r)
             \/ requireProjectManager(r) \/ (saveMember(r) /\ checked(req[r], written(req[r])))
    <3> DEFINE Same == /\ req'[r].op = req[r].op /\ req'[r].key = req[r].key
                       /\ req'[r].patch = req[r].patch /\ req'[r].project = req[r].project
                       /\ req'[r].row = req[r].row /\ req[r].at # "idle"
    <3>1. CASE findTarget(r)
      <4>1. Same  BY <1>1, <3>1 DEF findTarget, Request
      <4>2. QED  BY <1>1, <1>2, <4>1
    <3>2. CASE saveMember(r) /\ checked(req[r], written(req[r]))
      <4>1. /\ req'[r] = [req[r] EXCEPT !.at = "trigger", !.want = written(req[r])]
            /\ req[r].at # "idle"
        BY <1>1, <3>2 DEF saveMember
      <4>2. Same  BY <1>1, <4>1 DEF Request
      <4>3. QED  BY <1>1, <1>2, <4>2
    <3>3. ASSUME NEW at, Goto(r, at), req[r].at # "idle" PROVE ProjectSound(req[r])'
      <4>1. Same  BY <1>1, <3>3 DEF Goto, Request
      <4>2. QED  BY <1>1, <1>2, <4>1
    <3>4. QED
      BY <2>3, <3>1, <3>2, <3>3 DEF countOwners, ensure_workspace_has_owner, anyByKey, anyByName,
           requireProjectManager
  <2>4. ASSUME NEW u \in Users, NEW key \in Keys, NEW name \in Names,
               NEW description \in Descriptions \cup {None}, createProject(r, u, key, name, description)
        PROVE  ProjectSound(req[r])'
    <3>1. /\ req'[r].op = "create" /\ req'[r].key = key
          /\ req'[r].patch = [name |-> name, description |-> description]
      BY <1>1, <2>4 DEF createProject, Idle
    <3>2. QED  BY <3>1 DEF ProjectSound
  <2>5. ASSUME NEW u, NEW p \in Projects, NEW op \in {"update", "archive"}, NEW patch,
               op = "update" => patch \in Patches, loadProject(r, u, p, op, patch)
        PROVE  ProjectSound(req[r])'
    <3>1. /\ req'[r].op = op /\ req'[r].project = p /\ req'[r].patch = patch
          /\ req'[r].row = project[p] /\ exists(p) /\ exists(p)'
      BY <1>1, <2>5, ProjectKept DEF loadProject, Idle
    <3>2. project[p].name \in Names
      BY <1>1, <3>1 DEF Row, exists
    <3>3. QED  BY <2>5, <3>1, <3>2 DEF ProjectSound, exists
  <2>6. CASE insertMember(r) \/ commitMember(r) \/ failRequest(r) \/ UpdateActive(r) \/ ArchiveActive(r)
             \/ (saveMember(r) /\ ~checked(req[r], written(req[r])))
             \/ \E p \in Projects : insertProject(r, p)
    <3>1. req'[r] = Idle
      BY <1>1, <2>6 DEF insertMember, commitMember, failRequest, UpdateActive, ArchiveActive, saveMember,
           insertProject, Finish
    <3>2. QED  BY <2>1, <3>1
  <2>7. QED  BY <2>2, <2>3, <2>4, <2>5, <2>6, MembersCases DEF Step, Catalog
<1>5. QED  BY <1>3, <1>4 DEF ProjectsSound

-----------------------------------------------------------------------------
THEOREM StepSound == IInv /\ [Next]_vars => IInv'
<1> SUFFICES ASSUME IInv, [Next]_vars PROVE IInv'
  OBVIOUS
<1>1. TypeOK'
  BY TypeStep
<1>2. ASSUME NEW r \in Requests, Step(r) PROVE IInv'
  <2>1. MembersSound'
    BY <1>2, MemberKept, MemberMoved DEF MembersSound
  <2>2. QED  BY <1>1, <1>2, <2>1, OwnersStep, RowsStep, ProjectsStep, ProjectsSoundStep DEF IInv
<1>3. CASE UNCHANGED vars
  BY <1>3 DEF vars, IInv, TypeOK, OwnersHeld, OwnerRemains, owners, RowsHeld, MembersSound, MemberSound,
       ProjectsSound, ProjectSound, ArchivedExist, IdentityIsUnique, exists
<1>4. QED  BY <1>2, <1>3 DEF Next, Step

(* The inductive invariant holds in every reachable state. *)
THEOREM Invariance == Spec => []IInv
BY InitSound, StepSound, PTL DEF Spec

(* Every variable keeps its type. *)
THEOREM TypeCorrect == Spec => []TypeOK
<1>1. IInv => TypeOK
  BY DEF IInv
<1>2. QED  BY <1>1, Invariance, PTL

(* However many owners leave or are demoted at once, one remains: the      *)
(* counts before the writes may all be stale, the trigger's is not.        *)
THEOREM NeverOwnerless == Spec => []OwnerRemains
<1>1. IInv => OwnerRemains
  BY DEF IInv
<1>2. QED  BY <1>1, Invariance, PTL

(* No two projects of the workspace share a key or a name. *)
THEOREM UniqueIdentities == Spec => []IdentityIsUnique
<1>1. IInv => IdentityIsUnique
  BY DEF IInv
<1>2. QED  BY <1>1, Invariance, PTL

(* Nobody but an add makes a member, for any number of stale requests. *)
THEOREM NoResurrection == Spec => RemovedStayRemoved
<1> DEFINE added(u) == \E r \in Requests : req[r].at = "save" /\ req[r].op = "add" /\ req[r].target = u
           A == \A u \in Users : role[u] = "NONE" /\ role'[u] # "NONE" => added(u)
<1>1. ASSUME IInv, [Next]_vars PROVE [A]_vars
  <2> SUFFICES ASSUME NEW u \in Users, role[u] = "NONE", role'[u] # "NONE" PROVE added(u)
    OBVIOUS
  <2>1. PICK r \in Requests : Step(r)
    BY <1>1 DEF Next, Step, vars
  <2>2. insertMember(r) /\ req[r].target = u
    BY <1>1, <2>1, RoleWrites DEF IInv, TypeOK
  <2>3. QED  BY <2>2 DEF insertMember
<1>2. QED  BY <1>1, Invariance, PTL DEF Spec, RemovedStayRemoved

(* An archived project is not renamed, restored or overwritten, whatever   *)
(* the requests in flight loaded while it was active.                      *)
THEOREM ArchiveIsFinal == Spec => ArchivedIsFrozen
<1> DEFINE A == \A p \in Projects : project[p].archived => project'[p] = project[p]
<1>1. ASSUME IInv, [Next]_vars PROVE [A]_vars
  <2> SUFFICES ASSUME NEW p \in Projects, project[p].archived, ~UNCHANGED vars
               PROVE  project'[p] = project[p]
    OBVIOUS
  <2>1. project \in [Projects -> Row] /\ exists(p)
    BY <1>1 DEF IInv, TypeOK, ArchivedExist
  <2>2. PICK r \in Requests : Step(r)
    BY <1>1 DEF Next, Step
  <2>3. ASSUME NEW o \in Projects, project' = [project EXCEPT ![o].archived = TRUE]
        PROVE  project'[p] = project[p]
    BY <2>1, <2>3 DEF Row
  <2>4. QED  BY <1>1, <2>1, <2>2, <2>3, ProjectWrites
<1>2. QED  BY <1>1, Invariance, PTL DEF Spec, ArchivedIsFrozen
=============================================================================
