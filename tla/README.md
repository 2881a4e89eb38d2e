# Verification of the issue tracker

TLA+ models, TLC configurations and TLAPS proofs for the services of this
repository: the Issue service (NestJS), the Project service (.NET), the
Notification service (Go), IAM (Spring), the API gateway (NestJS) and, of the web
client (React), its session, its board, its issue page and its backlog.

The system is a lab for distributed design: each service owns its database,
they talk over HTTP, and one asynchronous path leads from a committed issue
change to a notification, through a transactional outbox, a Kafka topic, a
consumer group and a Redis projection. What is hard here is hardly ever inside
one function. It is in the awaits between a read and the write that relies on
it, in leases and time-outs, in redelivery, and in replicas that die half-way.
The project models exactly that and leaves wording, formatting and transport
out.

1. [Inventory](#1-inventory)
2. [Modules and the code they model](#2-modules-and-the-code-they-model)
3. [Runs](#3-runs)
4. [Fairness](#4-fairness)
5. [Proofs](#5-proofs)
6. [Where code and documents disagree](#6-where-code-and-documents-disagree)
7. [What is accepted behaviour](#7-what-is-accepted-behaviour)
8. [What is not modelled](#8-what-is-not-modelled)
9. [Plan](#9-plan)

To check a module: `tlc -config MCOutbox_ordering.cfg MCOutbox.tla`; to check
proofs: `tlapm Outbox_proofs.tla`. `PROJECT.json` lists the runs, the lines each
definition translates, a mutation of the code that each property detects, the
findings, the hazards and the theorems.

## 1. Inventory

How the parts interact:

    browser tabs --cookie, access token--> API gateway --HTTP--> IAM (iam_db)
                                             |  |  |
                                             |  |  +--HTTP--> Project service (project_db)
                                             |  |                 ^            ^
                                             |  +--HTTP--> Issue service       | CheckAccess
                                             |                |  issue_db,     |
                                             |                |  outbox        |
                                             |                v                |
                                             |        Kafka issue.events.v1    |
                                             |                |                |
                                             +--HTTP--> Notification service --+
                                                          (Redis, DLQ topic)

| Component | State | Operations | Hard because | Correct when |
|---|---|---|---|---|
| **Issue commands** (`issue-application.service.ts`, `postgres-issue.repository.ts`) | `issues`, `project_issue_sequences`, `issue_history`, `issue_comments`, `outbox_events` | create, core patch, assign, transition, comment; reads | each handler awaits one to three HTTP answers between loading the row and committing; several replicas | no stale commit; no lost update; true history; all or nothing; legal life cycle; current recipients; dense numbers |
| **Outbox publisher** (`outbox.publisher.ts`) | the rows' `published_at`, `next_attempt_at`, `publish_attempts`; one batch per replica | claim by lease, gate per issue, send, mark, record a failure, abandon, requeue | leases run out, sends are retried inside kafkajs, requests arrive after the producer gave up, the UPDATE may fail before or after it was applied, replicas die | nothing marked without being delivered; no event overtakes an earlier one of its issue; every event settles |
| **Epics and sprints** (`planning-application.service.ts`, `postgres-planning.repository.ts`) | `epics`, `sprints`, `project_issue_sequences` | create and update an epic, create and complete a sprint, create an issue in a sprint | unversioned read-modify-write; dates checked on a merged row; two completions of one sprint; a sprint completed while issues are linked to it | a completion is final; dense numbers; closed sprints and projects take no new request |
| **Paginated list** (`issue-list-query.ts`, `postgres-issue.repository.ts`, the client's `backlog/page.tsx`) | none (cursor in the client) | keyset page, filters | the table changes between two pages, clocks of replicas disagree | no issue that stays is skipped or repeated |
| **Migrations** (`database.ts`) | schema | run under an advisory lock | several replicas start at once | each file runs once |
| **Kafka consumer** (`issue_events.go`, `projectaccess/client.go`) | one pending record per replica, its attempts; the group's offsets | fetch, check access of each recipient, save, dead-letter, commit | crash or rebalance between write and commit; Project service or Redis down; late commits | no record skipped; issue order kept; access fresh; every event settles |
| **Redis projection** (`redis_store.go`, `api/handler.go`) | one hash per notification, one index per user, each with its own TTL | save, list, mark one, mark all | several calls per operation, expiry in between, redelivery | the index outlives the hashes; read stays read; everything expires |
| **Members** (`…WorkspaceMember…UseCase.cs`, migration `EnforceWorkspaceOwnerInvariant`) | `workspace_members` | create workspace, add, change role, remove | count-then-write over several queries, EF change tracking; a deferred trigger decides | an owner remains; removals hold |
| **Projects** (`CreateProject…`, `UpdateProject…`, `ArchiveProjectUseCase.cs`) | `projects` | create, PATCH, archive | look-up-then-write; unique indexes decide | unique keys and names; archived projects frozen |
| **Sessions** (IAM `RefreshSessionUseCase`, `LoginUseCase`, `LogoutUseCase`, `RefreshTokenCleanup`; gateway `auth.service.ts`, `auth.controller.ts`; client `interceptors.ts`, `store.ts`) | `refresh_tokens`, user status; the cookie; `localStorage` and a store per tab | login, refresh (rotation), logout, clean-up, block | rotation races from tabs, the gateway's time-out, lost answers, logout crossing a refresh | a token is exchanged once; the block holds; one tab is never signed out by its own refreshes |
| **Rate limiter** (`redis-rate-limit.adapter.ts`) | a counter per email and per client address | hit, check, reset | INCR, EXPIRE and TTL are separate calls | a counter always expires |
| **Registration, workspaces' slugs** (`RegisterUserUseCase.java`, `CreateWorkspaceUseCase.cs`) | `users`, `workspaces` | look up, insert | unique indexes decide | unique email, unique slug |
| **Forwarding** (gateway adapters, controllers, guards) | none | map a request to a call | – | – |
| **Web client views** (`Board.tsx`, `IssueDetailModal.tsx`, `useIssue.ts`, `useIssues.ts`) | query cache, what is rendered, the edit form, mutations under way | render, move, edit, assign, comment, refetch, retry | data is refetched while the user types; answers arrive after the page was left; fetches overlap invalidations | a write replaces only what was seen; an answer shows |

The hazards of this code, each at the line where it bites and with the
properties that would catch it, are listed in `PROJECT.json` under `hazards`.

## 2. Modules and the code they model

| Module | Models | Used by |
|---|---|---|
| `IssueTables` | the tables of an issue, the values of their columns, what a request may write | `IssueService`, `AtomicIssues` |
| `AtomicIssues` | abstract: every write of an issue at once, on the row as it is | `IssueService` (implements it) |
| `IssueService` | the issue commands, with the Project service's answers as their environment | `MCIssueService`, `IssueService_proofs` |
| `Planning` | epics, sprints, and the creation of issues as far as they meet: numbers, links, closed sprints and projects | `Backlog` |
| `Backlog` | `Planning` with a client that follows the issue list page by page | `MCBacklog`, `Backlog_proofs` |
| `IssueViews` | the board and the issue page over their query cache | `MCIssueViews`, `IssueViews_proofs` |
| `OrderedLog` | abstract: what the outbox promises its readers | `Outbox` (implements it), `NotificationConsumer` (reads it) |
| `Outbox` | the outbox table, the publishers of several replicas, the broker, an operator | `MCOutbox`, `OutboxHistory`, `Outbox_proofs` |
| `OutboxHistory` | `Outbox` with a history variable: whose delivery was disturbed | `MCOutboxHistory`, `Outbox_proofs` |
| `NotificationConsumer` | the consumer group of several replicas on a topic that is any `OrderedLog` | `MCNotificationConsumer`, `NotificationConsumer_proofs` |
| `Pipeline` | `Outbox` and `NotificationConsumer` on one topic | `NotificationConsumer_proofs` |
| `NotificationStore` | the Redis keys of one user, the consumer's save, the API | `MCNotificationStore`, `NotificationStore_proofs` |
| `ProjectService` | members and projects of one workspace | `MCProjectService`, `ProjectService_proofs` |
| `Sessions` | browser, gateway and IAM | `MCSessions`, `Sessions_proofs` |

`OrderedLog` is the joint of the asynchronous path. `Outbox` is shown to
implement it, and `NotificationConsumer` assumes nothing more about the topic
than it: any next-or-repeated version may be appended at any time. So the two
halves are checked apart, and `Pipeline` puts them together: a step is a step of the
publishers or of the group, and they share the topic and nothing else. That the consumer
specification holds of it is a theorem (`Composition`).

`AtomicIssues` is what the optimistic concurrency of the Issue service promises. Its
`Create` and `Alter` are single steps that read nothing older than the row they change;
`IssueService` shares its variables, so no refinement mapping is needed, and every step
of a handler but the two commits is a stutter of it.

The other modules rest on `IssueService` for three things: a version of an issue has one
content (`IssueViews`; `OneContentPerVersion`), an event is the next one of its issue and
comes alone (`Outbox`, `insertEvent`; `FeedsOutbox`), and what a handler does to an issue
that exists (`Planning`). The first two are theorems.

Conventions. An action is everything a program does between two awaits, or one
SQL statement, or one transaction when its first statement locks the row
it is about. Definitions keep the names of the code (`claimPendingEvents`,
`requireWritable`, `revokeIfActive`). An operator whose name has a suffix after
an underscore and whose comment begins with *fault* is not part of the
specification: it is a plausible bug, put in the place of the original to show
that a property notices it. Variables called *history* in their declaration
record the past for a property and guard nothing.

**IssueService.** `req[r]` is a handler in flight with what it has loaded:
`access` (the HTTP call to the Project service), `assignee` (the second one)
and `commit`. `commitChange` is the transaction of
`postgres-issue.repository.ts`: compare-and-swap on `version`, one
`issue_history` row, one `outbox_events` row, all or nothing. A core patch writes
every core column, the omitted ones with loaded values, as the code does: that
nothing is reverted is a consequence of the version check, not of the model.
A comment bumps the version without an `expectedVersion` from the client and
takes its recipients from the loaded row, as in the code. `summary` stands for
the three columns that are always written and recorded together. Archiving and
membership are environment actions that may happen between any two steps.

**Planning.** `req[r]` is a handler of `planning-application.service.ts`, or
`createIssue`, with the values it merged or loaded when it began. `updateEpic`
rewrites both dates, the one the body omits with the loaded value, and without a
version: concurrent updates lose fields, as in the code. A date remembers whether it is a
string of the body or a `Date` of the driver, because `planDates` compares one
with the other when a PATCH names one date, and that comparison is never true;
the `CHECK` of the table (`epicsCheck`) is what remains. `oneActivePerProject` is the partial
unique index, `writeCompletion` the `UPDATE ... WHERE status = 'ACTIVE'`. The creation
of an issue is split where another transaction could come in: `takeNumber` holds the row of
the project's sequence until `insertIssue` commits, and reads the replica's own
clock, up to `MaxSkew` behind, for `created_at`. A request that fails ends
without a trace. `underway[x]` remembers which requests were under way when project or
sprint `x` was closed.

**Backlog.** `list` is one traversal: the filter, the cursor, how often each issue was
returned, and what has to be returned (`due`: what the first page's snapshot matches, less what stops
matching). `openBacklog` is the page of the web client, which reads the sprints first
and then the issues of the active sprint; `openFiltered` is a client of the API.
`loadPage` is one statement: the rows behind the cursor in the order
`created_at DESC, id DESC`, cut at `PageSize`.

**IssueViews.** An issue is its version, since a version has one content. `cache` is what
React Query keeps of the three queries the two pages render: the issue, its entry
in the list and the project. `render` is the only step that changes what the user sees
(`view`) and what the form holds (`form`, which is keyed by id and version), so any
number of cache changes may happen before it. `call[c]` is a mutation: sent with
the rendered version, answered by the server, settled by the callbacks of
`useIssue.ts` and `useIssues.ts`, which invalidate queries and may wait for the refetch. A mutation outlives the page
that sent it (`mounted`). `invalidateQueries` does what the library does: an observed
query with data restarts its fetch, others are only marked, and a fetch that goes on
meanwhile wipes the mark when it succeeds (`overlooked`).

**Outbox.** Event `<<a, v>>` is version `v` of issue `a`. `due` abstracts
`next_attempt_at <= NOW()`: a lease and a backoff both take a row out of `due`
and `becomesDue` brings it back at any later time, also while its batch is still
being processed (fault *slow*). `claimPendingEvents` picks any set of claimable
rows up to the LIMIT, which covers `SKIP LOCKED`. `pub[r]` is the batch of a
replica in `publishPending`: sends settle in any order (`Promise.allSettled`),
one rejected send makes the whole batch record a failure, and `markFails` /
`recordThrows` are the UPDATEs that throw, before or after the server applied
them. `limbo` holds produce requests the producer gave up on and the network has
not: they may be appended later.

**NotificationConsumer.** `pend[c]` is the local `pending` of `Run` with its
stage. `handle` is the synchronous start of an attempt; `CheckAccess` asks about
one recipient; the notifications of an event are written in one MULTI; an
attempt that fails starts again from the beginning, up to
`maxProcessAttempts` (5) times, then the record goes to the dead-letter topic; the offset is
committed last. Owner, position and committed offset are the broker's view of
the group: a late commit of a replica that lost the partition goes through and
may move the offset back, a crash leaves the partition without an owner, a
rebalance moves it although its owner is alive and processing. Topic and
membership change at any time.

**NotificationStore.** Expiry is explicit: `tick` removes what has run out, so it
may come between any two calls. `MarkRead` is EXISTS, HGET and HSET;
`MarkAllRead` is ZRANGE and one MULTI of scripts. A save is HSETNX of each field,
ZADD and the two EXPIREs in one MULTI.

**ProjectService.** Each query of a use case is a step; `seen` and `loaded` are
what EF's context tracks, so a write may rest on stale rows, and a tracked row
that was deleted meanwhile makes the save fail. `lock` is the workspace row that
the deferred trigger `ensure_workspace_has_owner` takes before it counts, until
the commit. Unique indexes are guards of the writes. `addMember`, `changeMemberRole` and
`removeMember` begin with the same two queries (`manageMembers`) and go their own ways
after `findTarget`.

**Sessions.** A call is one HTTP request of a tab; IAM works on it in up to three
transactions (`findByTokenHash`, `findUser`, `rotate` or `saveToken` or
`revokeIfActive`). `callFails` is an answer the browser does not get, or the
gateway's time-out while IAM goes on; `rateLimited` is the gateway's 429, which keeps
the cookie but signs out a tab that was refreshing. `cookie` and `stored` are shared by all
tabs, `tab` is not. `refreshPromise` is the one refresh that the 401s of a tab
share. Each token carries the login its session goes back to.

## 3. Runs

| Run | Specification | Instance | Checks |
|---|---|---|---|
| `writes` | `IssueService` | 2 handlers, 1 user, 1 issue, up to version 3, every operation; the user may leave | `StaleIsDetected`, `HistoryExplainsIssue`, `ImplementsAtomicIssues` |
| `recipients` | `IssueService` | 2 handlers, 2 users, up to version 3: create, assign, comment; the project is archived | `TypeOK`, `RecipientsAreCurrent`, `ArchiveClosesProject` |
| `backlog` | `Backlog` | 2 handlers, 3 requests in all, 1 epic, 2 sprints, 3 issues, pages of 1, 1 tick, clocks 1 behind | `TypeOK`, `ClosedToNewRequests`, `NumbersAreDense`, `CompletedStays`, `ListIsExact` |
| `views` | `IssueViews` | 2 mutations at once, 3 actions of the user, up to version 3, 1 failure | `TypeOK`, `ShowsWhatItWasTold`, `ReplacesWhatWasSeen` |
| `batches` | `OutboxHistory` | 2 issues, 2 replicas, shared batches, every fault | `TypeOK`, `PublishedIsDelivered`, `NoDuplicateNormally` |
| `ordering` | `Outbox`, fair | 1 issue with 2 events, 2 replicas, all faults but duplicates | `BlockedBehindUnpublished`, `ImplementsOrderedLog`, `EverySettles` |
| `isolation` | `Outbox` | 2 issues, the sends of one are rejected | finding: `OtherIssuesAreUnaffected` is violated |
| `consumer` | `NotificationConsumer`, fair | 2 replicas, 2 events, 2 users, 2 attempts, every fault, one crash or rebalance | `TypeOK`, `CommittedIsSettled`, `InIssueOrder`, `FreshAccess`, `EveryEventSettles` |
| `store` | `NotificationStore` | 2 notifications, 2 requests, retention of 2 ticks, 5 ticks | `TypeOK`, `IndexedWhileLive`, `DeliveredExpires`, `ReadStaysRead`, `AllAreRead` |
| `recreated` | `NotificationStore` | 2 notifications, 1 request | finding: `NeverRecreated` is violated |
| `workspace` | `ProjectService` | 2 users, 2 projects, 2 requests of every kind | `TypeOK`, `OwnerRemains`, `IdentityIsUnique`, `RemovedStayRemoved`, `ArchivedIsFrozen` |
| `sessions` | `Sessions` | 1 user, 2 tabs, 3 tokens, 2 calls | `TypeOK`, `OneLivePerLogin`, `SessionForLife`, `BlockedStayOut`, `SessionSurvives` |

Why these bounds reach the interesting cases:

* Two of everything that races. A lost update, a double claim, a double rotation,
  two owners removing each other need two actors and no third; the proofs of
  section 5 cover any number.
* `MaxVersion` 3 in `writes` is a create and two changes, of any two kinds, each of which
  may be overtaken by the other between its load and its commit; version 4 is past
  what TLC can enumerate in a few minutes with every operation. The first commit
  settles which handler is stale, and a stale one, which is never accepted, leaves
  nothing for a later commit to build on. 3 in `recipients` is a create, an
  assignment and a comment that was loaded before it; it needs two users, so it asks
  for these operations only.
* In `backlog` three requests are an epic and two PATCHes of it, a sprint and its two
  completions, or two issues and a third created between their pages; with pages of 1
  every position is a page boundary. A tick and a skew of 1 let a later
  issue have an earlier `created_at`, or the same.
* In `views` three actions are a write, a change of page (or a second write) and a third that
  rests on what the two left; version 3 lets somebody else write before and after.
* In `ordering` two events per issue are enough for one to overtake the other;
  two records let the topic repeat one. `MaxAttempts` 2 has a failure that is
  retried and a failure that abandons. In `batches` the point is the company in
  a batch, so there are two issues of one event and room for a duplicate.
* In `consumer` `MaxProcessAttempts` 2 likewise; the first event has two recipients,
  one of whom leaves and comes back, so that an access check can fail half-way; the
  second event is malformed.
* `Retention` 2 and `MaxTime` 5 give a notification time to be delivered, read,
  expire and be delivered again.
* 3 tokens in `sessions` are a login and two rotations, or two logins and one.

Every bound (`MaxVersion`, `MaxLog`, `MaxDisruptions`, `MaxTime`, `MaxRequests`,
`MaxActions`, `MaxFailures`, and the sets `Asked`, `MayLeave`, `MayArchive` of what the
environment may do) is a constant marked *bound* in its module. Symmetry is declared
over sets of interchangeable model values in runs without liveness only.
`CHECK_DEADLOCK FALSE` stands in the configurations of `Outbox`, `OutboxHistory`,
`NotificationConsumer`, `Backlog` and `IssueViews`: there everything done, with the
bounds reached, is a legitimate end.

Each property is paired in `PROJECT.json` with a mutation of the code that
violates it in the same run: the version test dropped from the UPDATE, an event that outlives its rolled-back transaction, the
per-issue gate that skips abandoned rows, a claim that sets no lease, a retry
that keeps the answers of the failed attempt, a trigger that counts without the lock of the
workspace, an edit form that keeps its key when the version changes, a cursor
without the id, and so on.

## 4. Fairness

Only two specifications carry fairness, and each conjunct has its reason in the
code.

`Outbox!FairSpec`: the poll of every 2 s makes a claim possible again and again
(weak fairness that *some* replica claims); time passes (weak fairness of
`becomesDue`); and for each replica strong fairness of the broker append, of a send
settling, of marking and of recording. Strong, because a crash can
interrupt them any number of times: the assumption is that neither a replica
nor the database fails at the same step for ever. The broker may reject for
ever: then the event is abandoned, which `EverySettles` accepts, as the
operator is told.

`NotificationConsumer!FairSpec`: per replica weak fairness of the fetch, of an
access check *or its failure*, of a save *or its failure*, of the dead-letter
write and of the commit; per partition weak fairness of the first assignment. So
the Project service and Redis may be down for ever; Kafka may not, for the code
itself retries the dead-letter write and the commit without limit. Crashes and
rebalances are bounded (`MaxDisruptions`).

## 5. Proofs

Every proof is about the module's specification with arbitrary constants, under the one named
assumption of its module, which only types the constants (for instance
`MaxAttempts \in Nat \ {0}`) and which TLC evaluates in the runs. Each proof
strengthens what it is after to an inductive invariant `IInv`, shows that `Init`
gives it and each action keeps it, and derives the theorems. `IInv` was checked
with TLC before it was proved.

| Module | Theorems | For any |
|---|---|---|
| `IssueService_proofs` | `TypeCorrect`, `StaleNeverCommits`, `HistoryIsTruthful`, `RecipientsKnown`, `ArchiveIsShut`, `StatusMovesLegally`, `VersionIsContent`, `EventsAreFed`, `Linearizable` (implements `AtomicIssues`) | requests, issues, users, projects |
| `Backlog_proofs` | `TypeCorrect`, `ClosedIsClosed`, `CompletionIsFinal`, `DenseNumbers`, `EveryIssueOnce` | epics, sprints, issues, requests, clock skew, page size |
| `IssueViews_proofs` | `TypeCorrect`, `NothingOverwrittenUnseen`, `AnswersShow` | mutations under way, actions, writes of others, losses |
| `Outbox_proofs` | `TypeCorrect`, `NothingLost`, `Gate`, `Refinement` (implements `OrderedLog`), `NormalDeliveriesAreSingle` | replicas, issues, attempts, batch size, set of faults |
| `NotificationConsumer_proofs` | `TypeCorrect`, `NothingSkipped`, `IssueOrder`, `AccessIsFresh`, `Composition`, `EndToEnd` (of `Pipeline`) | replicas, partitions, users, attempts, set of faults |
| `NotificationStore_proofs` | `TypeCorrect`, `LiveIsListed`, `Retained`, `ReadForGood`, `MarkAllIsComplete` | notifications, requests, retention |
| `ProjectService_proofs` | `TypeCorrect`, `NeverOwnerless`, `UniqueIdentities`, `NoResurrection`, `ArchiveIsFinal` | users, projects, requests |
| `Sessions_proofs` | `TypeCorrect`, `RotatedOnce`, `BlockHolds`, `TabStaysSignedIn`, `OneUserForGood` | users, tabs, tokens, calls |

The arguments:

* **IssueService.** `IInv` = `TypeOK`, `RequestsSound`, `AssigneesSound`,
  `EventPerVersion`, `HistoryExplainsIssue`, `RecipientsAreCurrent`, `ArchiveSound`.
  `RequestsSound` is the core: the
  row a handler loaded is no newer than the stored one, and *equal* to it while the
  versions agree. So when the compare-and-swap finds the loaded version still
  current, the `from` values and the status it was validated against are current
  as well. `StaleIsDetected`, that the comparison finds this out and turns away nobody
  else, is the same fact seen from the commit. `EventPerVersion` (a version, a history
  row and an event go together) holds by the shape of the two transactions; it is a
  part of `IInv` because other parts count versions by entries, and no result.
  `RecipientsAreCurrent` leans on the history: who is assigned at a version is what the
  last entry that set the assignee says, and a comment's loaded row is the current
  one when it commits. `ArchiveSound` says of every request past its access check what
  `ArchiveClosesProject` says of those about to commit. `Linearizable`: a commit finds the
  row it loaded (`CommitsOnLoaded`), so the omitted core fields are rewritten with their
  current values, the recorded old values and a comment's recipients are those of the
  current row, and the transition that was checked is one from the current status; the
  point at which a write takes effect is its commit. `StatusMovesLegally` follows from
  it, as `AtomicIssues` moves a status along the table only; no run is spent on it.
* **Backlog.** `IInv` = `PlanningInv`, the type of `list`, `ListSound`. In
  `PlanningInv`, `SequenceLocked` (one transaction at a time holds a project's
  sequence) and `RequestsSound` (its number is still the next one) give
  `NumbersAreDense`; `ProjectsClosed` and `SprintsClosed` say of requests past a check what
  `ClosedToNewRequests` says of those about to write. `ListSound`: what has been
  returned lies at the cursor or before it, so nothing is returned twice; what is
  due has been returned or lies behind the cursor and still matches, so it will be. Positions
  never change, and they are all different because of the id. Clocks do not enter.
* **IssueViews.** `IInv` = `TypeOK`, `form = view["issue"]`, `CallSound`, `ToldIsTrue`,
  `AnswersArePresent`, `Fresh`. The form holds the rendered version because the key
  contains it, so the version sent is the one seen, and the server accepts no other.
  `Fresh(q)`, for a query that is not overlooked: an answer on its way is as new as
  what was told, and so is the data at rest, unless nobody looks at it and it is
  marked, or it is the list and `refreshIssue` has yet to invalidate it.
* **Outbox.** `IInv` = `TypeOK`, `BatchesSound`, `LimboSound`,
  `DeliveredIsStored`, `PublishedIsDelivered`, `BlockedBehindUnpublished`.
  `BatchesSound` says that when an event is in a batch, all earlier ones of its
  issue are published, and that what has been acknowledged is in the topic.
  `published` never shrinks, so the gate, checked once at the claim, still holds
  when a stale lease holder sends, when kafkajs retries, and (`LimboSound`) when an
  abandoned request arrives late. That is why no lease length enters the ordering
  argument. The refinement follows: an append is either a repetition or has all
  its predecessors in the topic. For `NoDuplicateNormally` the history
  variable comes in: an event that was never `disturbed` is `Quiet`, in one batch at most,
  not due while it is in it, and in the topic once.
* **NotificationConsumer.** `IInv` = `TypeOK`, `LogOrdered`, `PendingSound`,
  `PositionsSound`, `CommittedIsSettled`, `InIssueOrder`. `LogOrdered` is what
  `OrderedLog` gives. `PendingSound`: everything before a pending record is
  settled, and its stage says what has been done about it. `PositionsSound`: the
  owner of a partition has settled all it fetched but its one pending record.
  Hence whatever offset is committed, early, late or by a replica that lost the
  partition, has only settled records below it, and a new owner may start there.
* **Pipeline.** The group does not touch the topic, so the publishers behave as in
  `Outbox` and its theorems hold (`PublishersRun`). By `Outbox`'s refinement step
  (`StepSimulates`) whatever they do to the topic is a step of `OrderedLog`, within the
  bounds, which is `publish`; hence `Composition`. `EndToEnd` takes one more invariant,
  `Announced`: something is done only about events of the topic. From there
  `BlockedBehindUnpublished` gives the earlier events as published, and
  `InIssueOrder` as settled. The theorems have `Outbox`'s assumption on its constants as a
  hypothesis, beside `ConsumerAssumption`; no run checks `Pipeline`, whose two halves have
  theirs.
* **NotificationStore.** `IInv` = `TypeOK`, the clock is positive,
  `IndexedWhileLive`, `DeliveredExpires`, `PassesSound` (a mark-all writes a
  time, to all it found unread). The index is renewed in the same MULTI as a hash, and
  no hash outlives the retention time that starts with its save, so the index expires
  no earlier than any of them.
* **ProjectService.** `IInv` = `TypeOK`, `OwnersHeld`, `OwnerRemains`, `RowsHeld`,
  `MembersSound`, `ProjectsSound`, `ArchivedExist`, `IdentityIsUnique`. The counts
  of the use cases are not used at all: that an owner remains rests on the trigger
  counting under the lock of the workspace (`OwnersHeld`).
* **Sessions.** `IInv` = `TypeOK`, `TokensSound`, `CallsSound`, `OneLivePerLogin`,
  `BlockedStayOut`, `SmoothSound`. A rotation revokes and inserts in one
  transaction conditional on the old token being active, so each step of a login's
  chain of tokens has one live end. `SmoothSound` says what is true while one tab is
  in use, its logout crosses no refresh and nothing has failed: one call at most is
  under way, and the cookie it carries, or would carry, is a usable token.
  `OneUserForGood` (`SessionForLife`: a session that has ended never comes back, and none
  passes to another user) needs in addition `CarriedSound`, inductive relative to `IInv`:
  the tokens that calls and cookies carry have been drawn, and the user that a refresh has
  read stays the user of the token it sent for as long as that token is live, so the
  rotation, which writes the user read in another transaction, cannot write a stale one.

Only model-checked: `EverySettles` and `EveryEventSettles`, as liveness is outside
the prover's reach. Every other property that a passing run checks is a theorem.
The leaves are small enough to be proved in a fifth of the provers' default time.

## 6. Where code and documents disagree

* **One issue's failing sends abandon another's events** (`isolation`).
  `outbox.publisher.ts:70-77` records a failed attempt for every row of a batch when
  one send was rejected. ADR 0006 (line 34) knows that the whole batch fails; ADR
  0004 (line 19) says of an abandoned event that other issues are unaffected.
  After the attempts are used up, an issue whose sends were all acknowledged is
  blocked.
* **A notification that expires while it is marked read comes back as a fragment**
  (`recreated`). `MarkRead` (`redis_store.go:107`) calls HSET after EXISTS and HGET;
  if the hash expires in between, HSET makes a new one with `readAt` only and no
  TTL. As long as its id is in the index, `List` fails for the user. The comment at
  lines 118-119 excludes this for `MarkAllRead`, which uses a script. A later
  redelivery of the event repairs it (`DeliveredExpires` holds).

These two are findings with a run. The following were met while modelling; the models
contain the behaviour, or say why they leave it out, and no run is spent on them:

* **A PATCH of one date is not checked by the service.** `planDates`
  (`planning-application.service.ts`) compares a string of the body with a `Date` of
  the driver, which is never greater. The `CHECK` of `003_planning.sql` refuses the row,
  and the client gets a 500 where a 400 was meant; no property says that the dates stay
  in order, as it would only repeat that `CHECK`. For
  the same reason the dates of an epic are full ISO timestamps in the answers, which
  `Roadmap.tsx` does not expect.
* **A second active sprint** is refused by the unique index alone, hence as a 500, and
  a completion that another one overtook fails on the missing row (`toSprint`), also a
  500. `CompletedStays` and the index hold.
* **The order of the list is not the order of creation.** ADR 0005 says that an issue
  created during a traversal sorts before the first page. `created_at` is the clock of
  a replica, so one with a slower clock, or one of the same millisecond with a smaller id, may
  sort behind the cursor and be returned. `ListIsExact` holds all the same.
* **Logout does not end a session that is being refreshed.** `LogoutUseCase.java:23`
  revokes the token the cookie held; if a refresh of the same tab is rotating it, the
  replacement lives on, and its answer signs the tab in again.
  `docs/api/authentication.md:12` promises the end of the session.
* **A comment's version is not always the next one's.** `docs/features/comments.md:45`
  has the next mutation use the incremented version. A client whose refetch fails sends the
  old one and gets a conflict.
* **An invalidation may be swallowed.** A query that nobody observes, or that has no
  data yet, keeps the fetch that is under way when it is invalidated; the older
  answer then counts as fresh for 30 s. `ShowsWhatItWasTold` excludes these queries
  (`overlooked`).
* **A form that is reset after an await** (`Backlog.tsx:62`, `Roadmap.tsx:65`) reads
  `event.currentTarget` when it is null already: the toast says that creating failed
  although it succeeded. Forms of creation are not modelled.
* **An email may stay locked out.** See the rate limiter in section 8.

## 7. What is accepted behaviour

The models contain these, and no property forbids them, because documents accept
them or promise nothing:

* a valid event goes to the dead-letter topic after five failed attempts
  (`docs/architecture/data-flow.md`); `Settled` counts it as settled;
* the check of access and the commit are apart
  (`docs/reference/known-limitations.md:11`);
* the last PATCH of a project wins (`docs/api/projects.md:17`), and so does the last PATCH
  of an epic, which has no version either and loses what a concurrent one changed;
* a request under way when its project is archived or its sprint completed may still
  write: `ClosedToNewRequests` and `ArchiveClosesProject` bound the window to one request;
* a member promoted to owner between an admin's check and write is still demoted
  (BR-PERM-001 does not say when the target's role counts);
* two tabs share one cookie and refresh independently: the loser of a rotation clears
  the cookie the winner has set. `SessionSurvives` is therefore about one tab;
* records are delivered at least once: repeated in the topic, processed again after
  a crash.

## 8. What is not modelled

* Reads without pages (get, comments, history, epics): one statement, no state. The
  paged list is in `Backlog`, the reads behind the board and the issue page in `IssueViews`.
* The rate limiter of the gateway. A model would have INCR, EXPIRE and TTL as separate
  calls that may each fail (then the request passes), the expiry of the key in between,
  and the login of `auth.service.ts:23-47`, which reads the count of the email before it
  asks IAM and adds to it afterwards. `hit` repairs a counter without a TTL the next
  time it is called; `isAtLimit` does not, and it stands before the only `hit` of that key:
  if enough logins are between the two when the gateway loses Redis or dies, the
  counter reaches the limit without a TTL and the email is refused for ever. No document
  says how long a lock-out lasts, so there is no claim to hold this against. What the
  limiter means for a session, the refused login and the 429 that keeps the cookie, is in `Sessions`.
* Registration and workspace slugs: one look-up and one insert behind a unique index,
  on which nothing else depends.
* Migrations: schema, run one replica at a time under an advisory lock.
* Forwarding, guards, mapping, validation of bodies, health checks, logging: no state
  of their own. Validation appears as the sets the inputs are drawn from.
* The other pages of the web client (projects, members, roadmap, notifications): they
  render and invalidate their queries as the two modelled ones do. Whether an
  invalidated query is shown *eventually* is not checked: the graph of `IssueViews` is too
  large for TLC's liveness check, and `ShowsWhatItWasTold` says what holds at rest.
* Passwords, hashing, signatures and token contents.

## 9. Plan

Done, in this order, chosen by how much depends on each: `IssueService`, `OrderedLog`
and `Outbox`, `NotificationConsumer`, `NotificationStore`, `ProjectService`, `Sessions`,
`Planning` and `Backlog`, `IssueViews`, the proofs of every safety and action
property of the passing runs, `AtomicIssues` and the proof that the handlers implement it,
`Pipeline` and its proofs.

Left:

1. The rate limiter, as section 8 sketches it: that a counter without a TTL has a hit under
   way or a failure since its last one, and that the logins let through in the life of a
   counter are bounded by the limit and the logins under way.
2. `IssueService` as a third part of `Pipeline`, with `FeedsOutbox` as the joint, so that
   `EndToEnd` can speak of the recipients an event was written with.
3. Workspaces: creation with slugs, and registration, in `ProjectService` and `Sessions`.
