------------------------------ MODULE Backlog ------------------------------
(***************************************************************************)
(* A client reads the issue list of a project page by page while the       *)
(* planning service changes under it: the Backlog page, which first asks   *)
(* for the sprints and then for the issues of the active one, or a client  *)
(* of the API that filters by status.  Every page is one SQL statement     *)
(* with its own snapshot; what connects them is only the cursor, the       *)
(* position (created_at, id) of the last issue of the page before          *)
(* (ADR 0005).                                                             *)
(***************************************************************************)
EXTENDS Planning, FiniteSets

CONSTANT PageSize   \* ISSUE_PAGE_SIZE

ASSUME BacklogAssumption == PageSize \in Nat \ {0} /\ None \notin Int \X Issues

VARIABLE list       \* the list a client is reading

all == <<planning, list>>

Filter == [project : Maybe(Projects), sprint : Maybe(Sprints), status : Maybe({"TODO", "OTHER"})]

Listing == [at : {"idle", "pages", "done"}, filter : Filter,
            after : Maybe(Int \X Issues),    \* the cursor
            items : [Issues -> Nat],         \* how often the list holds each issue
            due : SUBSET Issues]             \* history: what it has to hold

NoListing == [at |-> "idle", filter |-> [project |-> None, sprint |-> None, status |-> None],
              after |-> None, items |-> [i \in Issues |-> 0], due |-> {}]

BacklogInit == Init /\ list = NoListing

-----------------------------------------------------------------------------
Position(i) == <<issue[i].created, i>>

(* ORDER BY created_at DESC, id DESC: p comes later in the list than q. *)
Follows(p, q) == p[1] < q[1] \/ (p[1] = q[1] /\ p[2] < q[2])

Matching(filter) ==
  {i \in Issues :
     /\ issue[i].project # None /\ issue[i].project = filter.project
     /\ filter.sprint # None => issue[i].sprint = filter.sprint
     /\ filter.status # None => issue[i].status = filter.status}

(* Fault: the cursor compares the time of creation alone. *)
remaining_ByTime(filter, after) ==
  {i \in Matching(filter) : after # None => issue[i].created < after[1]}

(* The rows of the keyset condition (created_at, id) < (cursor). *)
remaining(filter, after) ==
  {i \in Matching(filter) : after # None => Follows(Position(i), after)}

(* The first PageSize of the rows, in order. *)
isPageOf(page, rows) ==
  /\ \A i \in page, j \in rows \ page : Follows(Position(j), Position(i))
  /\ IF Cardinality(rows) <= PageSize THEN page = rows ELSE Cardinality(page) = PageSize

(* The active sprint of the list of sprints, if there is one. *)
activeSprint(p) == {s \in Sprints : sprint[s].project = p /\ sprint[s].status = "ACTIVE"}

Ask(filter) ==
  /\ list' = [NoListing EXCEPT !.at = "pages", !.filter = filter]
  /\ UNCHANGED planning

(* The Backlog page: the sprints have arrived, the issues are asked for. *)
openBacklog(p) ==
  /\ list.at = "idle"
  /\ IF activeSprint(p) = {}
     THEN Ask([project |-> p, sprint |-> None, status |-> None])
     ELSE \E s \in activeSprint(p) : Ask([project |-> p, sprint |-> s, status |-> None])

openFiltered(p, status) ==
  /\ list.at = "idle"
  /\ Ask([project |-> p, sprint |-> None, status |-> status])

(* One page request.  The read takes one row more than the page to know    *)
(* whether another page follows; the cursor is the page's last position.   *)
loadPage ==
  LET rows == remaining(list.filter, list.after)
      read(page) == [list EXCEPT
        !.items = [i \in Issues |-> IF i \in page THEN list.items[i] + 1 ELSE list.items[i]],
        !.due = IF list.after = None THEN rows ELSE list.due]
  IN
  /\ list.at = "pages"
  /\ \E page \in SUBSET rows :
       /\ isPageOf(page, rows)
       /\ \/ page = rows /\ list' = [read(page) EXCEPT !.at = "done"]
          \/ /\ page # rows
             /\ \E last \in page :
                  /\ \A j \in page \ {last} : Follows(Position(last), Position(j))
                  /\ list' = [read(page) EXCEPT !.after = Position(last)]
  /\ UNCHANGED planning

(* The page is left, or a page request fails: no partial list is shown. *)
closeList == list.at # "idle" /\ list' = NoListing /\ UNCHANGED planning

(* An issue that is changed so that it no longer matches need not be in    *)
(* the list any more.                                                      *)
forget ==
  IF list.at = "pages" /\ list.filter.status # None
  THEN list' = [list EXCEPT !.due = {i \in @ : issue'[i].status = list.filter.status}]
  ELSE UNCHANGED list

BacklogNext ==
  \/ Next /\ forget
  \/ \E p \in Projects : openBacklog(p)
  \/ \E p \in Projects, status \in {"TODO", "OTHER"} : openFiltered(p, status)
  \/ loadPage
  \/ closeList

BacklogSpec == BacklogInit /\ [][BacklogNext]_all

-----------------------------------------------------------------------------
(* Every variable has its type. *)
TypeOK == PlanningTypeOK /\ list \in Listing

(* "every issue that was committed before the first page request and still *)
(* matches the filters appears exactly once while a client follows         *)
(* nextCursor", and no issue ever appears twice (ADR 0005), while issues   *)
(* are created by replicas whose clocks disagree and in the same           *)
(* millisecond, and statuses change.                                       *)
ListIsExact ==
  /\ \A i \in Issues : list.items[i] <= 1
  /\ list.at = "done" => \A i \in list.due : list.items[i] = 1
=============================================================================
