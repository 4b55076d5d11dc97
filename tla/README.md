# Jenie: a formal model of delegation

Jenie is a backend (FastAPI, async SQLAlchemy, PostgreSQL) that turns what a
manager says into responsibilities, delegation plans and tasks. This directory
holds TLA+ models of its core logic, TLC instances of them, and TLAPS proofs.
Paths below are relative to `src/backend/app`.

The code is a set of request handlers over one database. Every request has a
session and a transaction of its own at READ COMMITTED; nothing is shared in
memory. What makes it hard is that handlers read rows, decide on that read, and
write later. There is one row lock in the whole program (`_lock`, approval.py:338)
and no comparison of versions except the approver's `expected_version`.

## 1. Inventory

| Component | State | Operations | Hard behaviour |
|---|---|---|---|
| Hierarchy queries (`domain/organizations/graph.py`) | reads `memberships` | descendants, ancestors, direct_reports, is_ancestor, scope_ids | recursion over cyclic data, depth limit |
| Permission engine (`domain/permissions`) | none | `can`, `require`, one rule per family of actions | depends on what was read, and when |
| Delegation plans (`domain/delegation/service.py`, `states.py`) | `delegation_plans`, `delegation_plan_items` | create, add, change and remove an item, submit | unlocked read-modify-write, version counter, one open plan per responsibility |
| Approval (`domain/delegation/approval.py`) | `approvals`, `audit_events`, tasks, `outbound_messages` | approve, reject | row lock, retries, all-or-nothing commit, stale reads beside the lock |
| Plan API (`api/delegation_plans.py`) | none | the endpoints above, read, list pending | reads by several statements |
| Work tree (`domain/work`, `api/work_items.py`) | `work_items`, `task_events` | create, start, complete, cancel | unlocked read-modify-write, history beside state |
| Outbox (`domain/notifications`) | `outbound_messages` | enqueue inside the causing transaction | recipients without a verified address |
| Work tree queries (`domain/work/tree.py`) | reads `work_items` | subtree, ancestors, and the order of the listing | recursion, rebuilding a tree from a list |
| Sender identity (`domain/identity`) | `messaging_identities` | normalise an address, register it, resolve a sender | a conversion that must be its own fixed point, lengths that tell numbers apart |
| Short codes (`domain/codes.py`, both `_allocate_code`) | reads | draw a free code | look-up before a unique constraint, many codes held until one commit |
| Seed (`seed.py`) | organization, users, memberships, identities | one transaction, run again at will | overlap with itself and with registrations, ids replaced after the insert |
| Admin, health, configuration, migrations | - | tooling, read-only endpoints | - |

Interaction is by rows only. A plan names a responsibility (`work_items`), a
creator and an approver (`memberships`); approving it inserts tasks under the
responsibility, an approval, an audit event and messages in one transaction;
cancelling a responsibility is a request to the work tree and knows nothing of
plans. Creating a plan or a work item draws a short code; queueing a message
looks up where its recipient is reached, in the identities that registration and
the seed wrote. The hierarchy is read when a request starts (`load_actor`), and when the
approver is determined.

What makes each component correct, in one line: hierarchy queries look up and
down consistently and reach each member once; a plan is open at most once per
responsibility, sent and decided once, and touched afterwards only by whoever read it
before; approval is all or
nothing, at most once, by who may decide and on what was shown; the audit trail,
approvals, tasks and messages tell one story; an item of work is nested
strictly, finishes once for all who can see it, and its history explains its status; a task made by an
approval stays what was agreed to; a code names one row; an address names one
person however it is typed; a seeded person is there whole or not at all.

## 2. Modules

| Module | Models | Composes |
|---|---|---|
| `OrgGraph` | graph.py: the two recursive queries, level by level, as operators of the table | - |
| `Permissions` | engine.py, context.py, subjects.py: `Can(actor, action, subject)` | EXTENDS OrgGraph |
| `DelegationPlans` | service.py, approval.py, states.py, the plan API, the outbox, and the constraints of their tables | EXTENDS Permissions |
| `PlanLifecycle` | how a plan is drafted, revised, sent and decided (abstract) | implemented by DelegationPlans, except by requests that were overtaken |
| `ApprovalPromise` | what approving promises to everybody (abstract) | implemented by DelegationPlans |
| `WorkItems` | work service, lifecycle, events, and their API | EXTENDS Permissions |
| `DelegatedWork` | plans and the work tree in one database | EXTENDS DelegationPlans, INSTANCE of WorkItems |
| `WorkTree` | tree.py: branches and breadcrumbs of the work tree | INSTANCE of OrgGraph over another table |
| `Allocation` | both `_allocate_code` over their unique constraints, and the sort order of plan items | - |
| `Addresses` | addresses.py, as an operator on what it keeps of a typed address | - |
| `Identity` | resolution.py, the look-up of destinations, the constraint of `messaging_identities`, and reference definitions: how a number or a mailbox may be typed | EXTENDS Addresses |
| `Seed` | seed.py, beside registrations by others | EXTENDS Identity |
| `MCOrgGraph`, `MCDelegationPlans`, `MCWorkItems`, `MCDelegatedWork`, `MCSeed` | instances for TLC, and reference definitions | |
| `OrgGraph_proofs` | theorems about OrgGraph and WorkTree | EXTENDS MCOrgGraph |
| `DelegationPlans_proofs`, `DelegationPlans_decisions`, `DelegationPlans_turns` | theorems about DelegationPlans | the other two EXTEND the first |
| `WorkItems_proofs` | theorems about WorkItems | EXTENDS WorkItems |
| `DelegatedWork_proofs` | theorems about DelegatedWork | EXTENDS DelegatedWork and DelegationPlans_decisions, INSTANCE of WorkItems_proofs |
| `Allocation_proofs` | theorems about Allocation | EXTENDS Allocation |
| `Seed_proofs` | theorems about Addresses and Seed | EXTENDS Seed |

Operators whose comment begins with "Slip" are plausible mistakes in the code
they stand beside. No specification uses them; putting one in the place of the
operator it varies breaks a property, which is how each property was seen to
depend on the code.

### OrgGraph and Permissions

A recursive CTE is a sequence of levels of rows, and a row is its `path` array.
`Down` and `Up` are the two recursive terms, with the guard
`NOT m.id = ANY(path)`; `TreeRows` and `ChainRows` iterate them to `MaxDepth` by a
recursive function, without a RECURSIVE operator, so modules with theorems can
use them. The schema excludes only self-management, so hierarchies with longer
cycles are admitted. In `Permissions` the hierarchy is a constant: no handler
writes `memberships`.

### DelegationPlans

The variables are the tables (`plan`, `items`, `scopeStatus`, `decisions`,
`outbox`, `audit`; `work` for the tasks made by each approval) and `sess`, what
every request in flight has read. A request is cut into steps exactly where
another request can come between:

    create            LoadScope -> CommitCreate
    add an item       LoadPlan -> CommitAdd
    change, remove    LoadPlan -> LoadItem -> CommitUpdate, CommitRemove
    submit            LoadPlan -> Validate -> CommitSubmit
    approve, reject   View -> ViewItems -> Lock (or LockBlind) -> CommitApprove, CommitReject

- A flush and the commit after it are one step. Nobody sees the flushed rows
  before the commit, and the `UPDATE` of the plan row, which comes first, is what
  waits for a lock (`LockFree`). The approval's lock is a step of its own: from
  `Lock` to the commit the request keeps the plan, its items and the scope as it
  read them, and others may still change the items and the scope.
- `version` is written as the number read plus one (`_touch`), so two edits of one
  version end at the same version. An edit writes only the columns that differ
  from what the request read (`Merge`), an `UPDATE` of a removed item fails
  and a `DELETE` of one does not.
- Approver, status and version of a submission come from its early read.
- Table constraints are operators named for them (`RowChecks`, `OneOpenIndex`,
  `OneApprovalIndex`, `AssigneeInOrg`); a request that breaks one fails.
- `Fail` is a request refused by a check or a constraint, `Crash` a request that
  never commits; both roll back and release the lock. Requests refused by their
  first read change nothing and are not steps. So is a retried decision that
  finds itself already made: `TurnAway`.
- The person deciding saw a version and the items shown with it (`expected`,
  `shown`); the plan row and its items are read by two statements. A decision
  without `expected_version` is `LockBlind`.
- `CancelScope` is the other component's cancel handler, as a plan sees it.
- Data kept: assignee and due date of an item (past, future or none), because
  validation tells them apart. Titles and bodies are not kept; sort orders and
  short codes are in `Allocation`. A task's owner, its message and its item are identified by the item.

### WorkItems and DelegatedWork

`item` and `events` are the tables, `sess` the row each request read. `LoadItem`
or `LoadParent` is the read with its checks, `CommitMove` or `CommitCreate` the
write. Asking for the status an item already has is answered without a write.
An auxiliary `saw` goes with every read, and from there into the event that the
request records: how long the item's history was (the parent's, for a creation).
No guard looks at it. It tells a request that knew what had happened from one that
had read the row before.

`DelegatedWork` puts the two in one database. Its `tree` is the table of
`WorkItems`, and the responsibilities of `DelegationPlans` are rows of it:
`scopeStatus` is kept equal to their status column by `TreeRequest`, which is any
step of `WorkItems`. `Approve` is the approval of `DelegationPlans` together with
`Materialise`, which gives every item of the plan a fresh row under the scope,
owned by its assignee, entered in the name of the plan's creator, with its first
events. Which row is a responsibility's initiative is a constant, `InitiativeOf`.
`DelegationPlans` alone stands for the tree by one action, `CancelScope`;
`TreeOnlyCancelsScopes` says that this is enough: the composition implements it.
`scopeSaw` is `saw` for decisions, which read their responsibility once they have the
lock (`ScopesRead`). The requests of both modules overlap freely.

### WorkTree

The statements of tree.py are those of graph.py over `work_items`, so `WorkTree`
instantiates `OrgGraph` with the parent column for the manager column, adds the
root, and states the order of `_load`. It is checked on the variable of
`MCOrgGraph`: every table of parents there is, cyclic ones included.

### Allocation

A request draws candidate codes (`Draw`, one round of the loop with its look-up)
and inserts rows with them (`Insert`) until it commits all (`CommitRows`). The
look-up sees committed rows and the request's own flushed ones. An insert waits
while another transaction holds the code (`Waits`), is refused once it is
committed (`Refused`), and one of several that wait for each other is aborted
(`Victim`). An approval is a request of several rows. The plans' table and the
work items' table are used alike, so there is one table here.

Adding an item to a plan is `ReadHighest`, then `CommitItem`; the auxiliary field
`saw` keeps the items its request could see. The two loads share no table, so a
behaviour is of one or the other.

### Addresses, Identity and Seed

A raw address is a record of what `normalize_address` can tell of a string: how
many URI prefixes it has, the digits and where the "+" stands, a letter among
them, or the mailbox, its capitals and what is wrong with it: a prefix that is left over passes
for a missing local part (`UsableEmail`). A canonical form is such a
record too, so that it can be looked up, typed again and normalised again.
`ResolveSender` is the set of memberships its join returns. `Seed` is `main` as
one transaction: `Ask` is a look-up by stable id, `Insert` the row if there was
none, `Commit` the only commit; `OrderOf` is the position of a person in the list,
managers before the people under them (`PeopleAssumption`). It starts from what a run of a shorter list of
people left. `Claim` is `register_identity` called by anybody else.

## 3. Runs

All instances have a boss, a lead below and a worker below the lead, in one
organization (`work_concurrent` merges boss and lead, `delegated_work` has no worker,
to stay small). Each finishes in two or three minutes with two workers; the
largest, `plans_concurrent`, has 345 thousand states. No run of a passing property
takes turns: requests overlap in all of them.

| Run | Instance | Shows |
|---|---|---|
| `org_graph` | 5 members, depth limit 3, every hierarchy without self-managers | `QueriesAgree` (the downward query of the permission engine and the upward query of the approver lookup are mirror images), `ReachedOnce` (each member within the limit once, at its shortest distance, against plain pointer chasing), `NearestIsFirst` (the approver is the direct manager, cyclic or not), `ScopesNest` (where nobody has more than the limit above them, a manager's scope contains the scopes of those in it); `ListedUnderItsParent`: a branch of the work tree holds what is within the limit, each item once, listed after its parent and one deeper |
| `plans_concurrent` | 2 requests, 1 plan, 1 item, all operations | `TypeOK`, `ApprovedOnce`, `EveryoneNamedIsTold`, `DecidedByApprover`, `AuditAgrees`, `ApprovedIsFinal`, `KeepsPromise`: DelegationPlans implements ApprovalPromise however requests overlap; `LifecycleUnlessOvertaken`: it implements PlanLifecycle, but for the commits of edits and submissions whose reads were overtaken |
| `plans_one_editor` | 2 requests, 2 items; one request edits and submits, the other decides; the lead is an administrator, so that the status checks are not backed by the permission rules | `AgreedToWhatWasShown`, `RejectedIsFinal`: lost between two editors, they hold with one. `RequestsEnd`, under fairness |
| `work_concurrent` | 2 requests, 3 items | `TypeOK`, `HistoryExplainsStatus`, `StrictlyNested`, `OwnersReport`; `FinishedForAllWhoSee` (nobody who could see that an item was finished or called off moved it), `OverwritesShow` (the version falls behind the history exactly when a move was made on a stale read, and never catches up), `NothingAddedKnowingly` (nobody who could see a container called off added to it) |
| `delegated_work` | `DelegatedWork`: 2 members, 2 requests about plans and 1 about the tree, 2 plans, 1 item, 3 work items | `OneOpenPlanPerScope` (two plans race for one responsibility), `ApprovedTasksStand` (what was agreed to stays in the tree, under its responsibility and in the right names, whatever is done to the tasks), `NothingAddedKnowingly` with approvals among those who add, `TreeOnlyCancelsScopes` (the composition implements DelegationPlans) |
| `seeding` | 2 runs of the seed, 3 people, 1 registration by others, 2 organizations, 2 channels | `SeededWhole`, `AloneNeverRefused` ("safe to run repeatedly"), `SeedsEnd` under fairness; `NumberHasOneKey` (of all that can be typed with up to 5 digits, exactly the spellings of a registered number are read as it), `RecognisedHowTyped` (whoever can be reached is recognised, however the address is typed, and is taken for nobody else), `TypeOK` |
| `allocation` | 2 requests of 1 or 2 rows, 4 codes, 2 attempts; 3 items | `CodesNameOneRow`, `AloneNeverRefused`, `AllocationEnds` under fairness; `AddedLast` (an item comes after all its author saw, with additions and removals between); `TypeOK` |

The other five runs each show a statement of the code base that its code breaks,
when requests overlap (`bug_branch`: over a sequence of legal requests; `bug_plus`:
for one input):

| Run | Broken | How |
|---|---|---|
| `bug_rejected` | `RejectedIsFinal` (states.py:7) | two submissions read the draft; one commits and is rejected; the other commits and the plan waits again |
| `bug_agreed` | `AgreedToWhatWasShown` (service.py:296) | two edits read version v and both write v+1; an approval of v+1 as shown takes the later contents |
| `bug_branch` | `StaysInBranch` (service.py:246) | the approver changes an assignee after submission; only submission validates |
| `bug_version` | `VersionCountsMoves` (models/work.py:66) | two moves read the same row and both write its version plus one; both are on record, one is not counted, and nobody is told |
| `bug_plus` | `PlusRespected` (addresses.py:17) | "(+65) 9123 4567": the "+" is looked for in front only, the ten digits pass for a bare number and are stored as +1 6591234567 |

### Reads that were overtaken

Apart from the lock of a decision, a handler decides on rows as it read them and
does not look again when it writes. So some things one would expect do happen, when
two requests overlap:

- an edit reads the open plan, waits for an approval's lock and commits into the
  approved plan, whose contents and version change although "An approved plan is
  history" (states.py); the tasks and the approval stay as they were;
- two completions, or a completion and a cancellation, both read a task as active and
  both commit, so it is finished twice, or called off after it was finished
  (lifecycle.py:21 and 71);
- a task is added under a responsibility that was called off between the read of
  it and the commit, by a creation or by an approval, which locks the plan and not
  the responsibility (test_work_tree.py:121).

The properties do not look away from these cases by serving one request at a time.
They say that there are no others. `LifecycleUnlessOvertaken` lets an edit or a
submission break the lifecycle only if the plan row, or the items its submission
validated, changed since it read them (`Overtaken`); creations, approvals and
rejections have no such excuse, and neither has anyone who edits a plan that is
still as it was read. `FinishedForAllWhoSee`, `OverwritesShow` and
`NothingAddedKnowingly` say the same of the tree by `saw`: whatever happens to work
that was finished or called off was asked for before that could be seen. Where the
code base claims more (`bug_rejected`, `bug_agreed`, `bug_version`), a run shows
the claim broken.

`plans_one_editor` states its restriction in its configuration: with one request
editing while others decide, the claims that `bug_rejected` and `bug_agreed` show broken
hold.

### Bounds

- Two requests: every race found is between two, and the only lock is on one row.
  What three could add is a longer queue for that lock, which the proofs cover
  for safety (they hold for any number of requests).
- One plan and one item concurrently: requests on different plans share only the
  index on open plans, which `delegated_work` exercises with two plans; a second
  item (`plans_one_editor`) matters where contents are compared.
- `MaxVersion` 4: a plan reaches version 4 by creation, item, submission and one
  more edit, and is decided from there. The bound is on open plans: one that
  reached it is edited no further and can still be decided, and a decided plan is
  kept from edits by the code's own checks alone. `OneProposal` and `OnePatch` let the lead, who has no
  verified address, propose work for itself and take its name off again, so that
  a pending plan may fail in the middle of an approval. With two sessions,
  every race of `Overtaken` is between one plan request and another: an item added
  or removed, a plan sent or decided in between.
- `DecidedByApprover` is checked with one hierarchy, in which the approver is a function
  of the creator, as it is in the code: what the run varies is who decides, what
  they were told, and when rights are lost. The theorem holds for every hierarchy.
- `delegated_work`: 3 work items are the initiative, the responsibility and one task,
  from a plan or from a request, so `ApprovedTasksStand` is about one task there; a
  plan whose approval makes several is covered by the theorem
  (`ApprovedTasksStandHolds`), not by the run. One session creates, fills, sends and
  approves, the other creates (`DraftToApproval`): what plans share with the tree is
  created by these. The actor of every approval is the boss, the
  owner of every task the lead, who are told apart by who entered a row.
- `seeding`: national numbers have 2 digits, with the country code 3, at most 4 and
  at least 1, over 2 digits (10, 11, 15, 7 and ten in the code): the code asks only
  how lengths compare, and whether the first digit is the country code. The
  instance keeps every order of the lengths the code's numbers have, one short of
  and one beyond each included. `MaxClaims` 1: one registration meets
  each seeded row, before or after it.
- `allocation`: 4 codes let two requests of 2 rows hold 2 each, and draw each
  other's; 2 attempts (10 in the code) let a loop go on, and give up. 3 items let one be
  removed between two others.
- `work_concurrent`: 3 work items, one of each level. One session creates, starts and
  completes, the other completes and calls off (`FirstCreates`), so every two kinds
  of requests overlap but two cancellations, two starts and two creations.
- `events` is in the order of commits. The table has no such order: `created_at` is
  the time at which a transaction began, so a listing may show two overlapping
  moves the other way round. What the properties say of the last move is about
  the last to commit.
- `org_graph`: five members make a cycle of every length up to
  five, chains longer than the depth limit, and cycles with tails.
- SYMMETRY is used only in runs of safety properties, over sessions or ids that
  nothing distinguishes; never with liveness.
- CHECK_DEADLOCK is FALSE where the system really stops: nothing is enabled once
  every responsibility is cancelled or every id of the instance is used and
  decided. `org_graph` checks deadlock.

### Fairness

`FairSpec` assumes strong fairness of `Serve(s)`, the steps of a request being
served. The server's event loop keeps running the handlers it started; a
statement that waits for a row lock is queued by PostgreSQL and let through when
its turn comes, although the lock may be taken again in between. That is why
fairness is strong. Nothing is assumed of people: a request that was never sent,
and a decision on a plan that was shown (`asked`), may never come. Crashes are not
fair either. `RequestsEnd` then says that nobody waits for a lock for ever.

`Seed` and `Allocation` assume the same of a run that was started and of a request
that draws codes, with an insert that waits for a unique key in the place of the
row lock. Neither assumes that a run or a request is started, that it survives,
or that anybody registers an address. In `Allocation`, draws are random and the loop
is bounded, so nothing needs to be assumed of what is drawn. `AllocationEnds`
depends on PostgreSQL aborting one of the transactions that wait for each other;
`SeedsEnd` does not, as all runs insert in one order.

## 4. Proofs

`OrgGraph_proofs` needs `NoMemberAssumption` and `MaxDepthAssumption` only: any
number of members, any depth limit and any pointers but self-managers. A
recursive query is a recursive function of its levels, and the induction over them is
stated with sets: of the depths at which something is wrong there is a least one
(`HasLeast`), which is not 0 and has a depth before it at which nothing is.

- `ChainRowsAre` and `TreeRowsAre` replace the recursion: the rows of a query are the
  walks of 1 to MaxDepth steps along the pointers that meet nobody twice. The function
  exists because these walks satisfy its equations, level by level (`NextChains`,
  `NextBranches`), and is the only one that does.
- `QueriesAgreeHolds`: a walk down read backwards is a walk up (`Backwards`).
- `ReachedOnceHolds`, `NearestIsFirstHolds` and `ScopesNestHolds` rest on `FoundAbove`: a
  member is found at the first depth, up to the limit, at which plain pointer chasing
  (`Above`) comes by. A walk that came by twice would come by before.
- `ListedUnderItsParentHolds`: the same facts for branches of the work tree, as
  `WorkTree` asks the same queries of another table (`TreeReads`).

`DelegationPlans_proofs` holds for every value of the constants allowed by
`PlansAssumption`, `MembershipsAssumption`, `NoMemberAssumption` and
`MaxDepthAssumption`: any hierarchy, any number of plans, items and requests.

- `TypeCorrect`: `Spec => []TypeOK`. TypeOK is not inductive: a message's recipient
  is the plan's creator, an audit event's actor is a member and
  `row.status` a real status only because of what requests have read. The
  inductive invariant is `TInv == TypeOK /\ RowsKnown /\ SessionsKnow`: an
  existing plan has a responsibility and an author, and a request past its first
  read holds such a row. One lemma per action shows that it preserves TInv;
  `EndKeepsSessions` carries the part about sessions through every commit.
- `ApprovedOnceHolds`: `Spec => []ApprovedOnce`. The invariant is `StampAgrees`: the
  status, `approved_at`, approvals and tasks of a plan agree.
  `EveryStepIsAPlanStep` reduces every action to one of two effects on a plan:
  nothing an approval depends on (`LeftAlone`), or a first decision
  (`DecidedNow`). The argument uses the table constraints only, never the row
  lock: nobody clears `approved_at`, the check `approved_at_matches_status` ties it
  to the status, and the unique index admits one approval. So the stale writes of
  `bug_rejected` cannot reach an approved plan.
- `ApprovedIsFinalHolds`: `Spec => ApprovedIsFinal`, from the same invariant: status,
  tasks, approvals and messages of an approved plan never change again (its items
  may, by a request that read the plan before: see section 3).

`DelegationPlans_decisions` continues it, from the same assumptions:

- `OneOpenPlanPerScopeHolds`: every write of a status or of a new plan passes
  `OneOpenIndex`, the partial unique index; edits leave status and scope alone.
- `AuditAgreesHolds`: approval and audit event are written by one step from the row
  read under the lock. The invariant adds `TookPending`: that row was pending, and
  the actor passed the permission check on it.
- `DecidedByApproverHolds`: the longest. The invariant `NamedInv` says that a plan
  has no approver, or the one `ApproverFor` gives for its creator, who unless it is
  the creator was sent a message; and that every row a request has read says the
  same. A stale submission thus writes the same name again, never another, and
  whoever a decision was checked against is the approver the table has.

- `KeepsPromiseHolds`: DelegationPlans implements ApprovalPromise. With TInv and
  StampAgrees, every step keeps, of every plan, who approved it, its tasks and who
  was told (`AllLeft`), or is an approval of one plan that had none (`OneKept`),
  which is a step of ApprovalPromise. The writes of one commit are one step in the
  model; what the theorem adds is that no other step disturbs them and that the
  assignments cover the tasks whatever was in the plan when it was locked.
- `EveryoneNamedIsToldHolds`, which needs `ItemsAssumption`, that the items are
  finitely many: the invariants are `ToldOnce` (one batch of a plan's
  messages holds exactly the assignments of its tasks, the others none, and
  without tasks none does) and `ReadOnce` (a session's content names each item
  once, as it was read from the table). Counting is a bijection between tasks and
  assignments, which is where finiteness is used.

`WorkItems_proofs` holds under `WorkAssumption` and the assumptions of
`Permissions`: any number of items, members and requests.

- `WorkTypeCorrect`, `HistoryExplainsStatusHolds`, `StrictlyNestedHolds` and
  `OwnersReportHolds` have one inductive invariant, `WInv`: the four properties and
  `SessionsKnow`. A request writes on the strength of a row it read earlier, so
  nothing about its commit can be shown without knowing what of that row is still
  true: type, organization and owner, which no request rewrites, and that the
  permission it passed was about them. The status is not among them.
- `FinishedForAllWhoSeeHolds` and `OverwritesShowHolds` add `HInv`, about histories: each
  begins with a creation and perhaps an assignment (`Base`), every later entry was
  made by someone who had read up to an entry that was not final (`History`), and a
  version, in the table or as read by a request, is at most one more than the
  number of moves it was read with, and equal exactly if none of them was made on
  a stale read (`Tells`). A move on a stale read writes a version that is too low
  already, and counting on from it never makes up for that (`VersionArithmetic`).
- `NothingAddedKnowinglyHolds` adds `KInv`: a container that was ever called off still
  is, as containers have no other move; so whoever is about to add to one that was
  read otherwise read it before (`Unaware`). `IInv` is the three together.

`Allocation_proofs` holds under `AllocationAssumption`: any number of requests and
codes, any sizes and any number of attempts (`AddedLastHolds` needs no assumption).

- `CodesNameOneRowHolds` and `AloneNeverRefusedHolds`: the inductive invariant is
  `CodesTyped` (types of the codes' part), `HeldOnce` (a code is held by one
  uncommitted request or one committed row, never both) and `AloneSeesAll` (while
  a request is alone nobody else holds anything, so what its look-up did not find
  is free).
- `AddedLastHolds`: the invariant is `SeenBefore`, that the number a request has
  read exceeds the order of every item it saw, and so does the order of the item
  made from it. It rests on `NextIsAbove`: the orders are bounded
  (`OrdersBounded`), and a bounded set of numbers has a greatest one
  (`BoundedHasMax`, from the well-foundedness of the naturals).
- `AllocationTypeCorrect`: both invariants together, as codes and orders share no
  table.

`DelegationPlans_turns` is about the plans' lifecycle, for any number of plans, items,
members and requests. `EveryTurn` reduces every step to one of a few: a request reads
and keeps what it read, or it commits one of four changes of one plan, and other
requests and plans are left alone (`TurnStep`).

- `LockedIsCurrent`: however requests overlap, `BInv == TInv /\ StampAgrees /\ LocksHold
  /\ LockedContents /\ StatusChecked /\ ItemsChosen /\ FirstVersions` holds. This is
  where the row lock counts: a locked plan is the row its holder read, pending, and
  its items are those it will make tasks of, because every `UPDATE` of the plan row
  waits and comes before the change of an item.
- `LifecycleUnlessOvertakenHolds` follows without a further hypothesis: every commit
  of a request that was not overtaken is a step of `PlanLifecycle`
  (`CommitIsLifecycleStep`), from the row under the lock for a decision, from the row
  as it was read, and still is, for an edit or a submission.
- `RejectedIsFinalHolds` and `AgreedToWhatWasShownHolds` assume `OnlyEditor(e)`, as
  `plans_one_editor` does: all
  requests but one may only approve and reject. The invariant `EInv` adds that what
  the editor has read of its plan is the plan, or a decision of the pending plan came
  between (`EditorReads`, `DecidedSince`), in which case its write sets the version the
  decision has set already; and that what a person was shown is what the plan holds
  while it is pending at the version shown (`ShownIsCurrent`). The latter needs that
  versions never go down, and stay only on decided plans (`OneEditorMoves`); with a
  second editor they can stay on a pending one, which is `bug_agreed`.

`DelegatedWork_proofs` holds under the assumptions of the modules it composes,
`DelegatedWorkAssumption` and `WorkIdsAssumption`, with requests of both modules
overlapping freely.

- `TreeOnlyCancelsScopesHolds`: the composition implements DelegationPlans. `CInv ==
  TInv /\ StampAgrees /\ ReadOnce /\ Origins /\ ScopeInv /\ ScopesSeen`
  joins the invariants of both with `Origins` (a plan keeps its responsibility and its
  author, who are of one organization), `ScopeInv` (responsibilities are rows of
  the tree with the columns the plans take for constant, and a request about to
  move one may legally cancel it and nothing else) and `ScopesSeen` (a decision that
  found its responsibility not called off read it before it was). What is proved of
  WorkItems is carried over by showing that its instances in the two modules have
  the same steps (`SameNext`) and the same invariant (`SameInv`), and a batch of
  rows (`Materialise`) keeps that invariant as a single one does.
- `PlansKeepTheirPromises` and `ApprovalsKeepTheTree` draw the consequences: what
  holds of plans and of the tree each for itself holds of them together.
- `NothingAddedKnowinglyHolds`: approvals included. It rests on `ScopesSeen`, as the
  handler asks for the status of the responsibility as it read it, not as it is.
- `ApprovedTasksStandHolds`: the invariant is `TasksStand`, one function from the
  tasks agreed to into the rows that stand for them, which survives every step.

`Seed_proofs` holds under `AddressesAssumption`, `SeedAssumption` and
`PeopleAssumption`: numbers of any length, any people, runs and registrations.

- `OnlySpellingsAreRead`, about the operator `NormalizeAddress`: which typed numbers
  are read as a stored one. `NormalizedOnce`: a stored key is a fixed point of it. The
  exception is an email address typed behind two URI prefixes, which is why
  `RecognisedHowTypedHolds` assumes that nobody registers one.
- `SeedTypeCorrect`, `SeededWholeHolds`, `AloneNeverRefusedHolds` and
  `NumberHasOneKeyHolds`: the invariant is `SInv`, that the tables have what the
  foreign keys promise (`TablesSound`), that a run holds rows of its own for those
  before it in the list and found the others committed (`RunsSound`), that no two of
  all these have one key (`KeysApart`), and that what a run without company did not
  find is not there (`AloneSees`). The order of the list matters: a person's user
  comes before the membership that names it.
- `RecognisedHowTypedHolds` adds that what is registered is what was typed
  (`RegisteredAsTyped`).

Only model-checked: liveness (`RequestsEnd`, `SeedsEnd`, `AllocationEnds`), which
needs ENABLED.

## 5. Not modelled

- Wording, formatting, titles, message bodies, logging and configuration.
- Nesting of plan items: `parent_plan_item_id` is in the table, and no endpoint sets it.
- The order among equals: two items added at once may get one sort order and are
  then listed in no order; so are two work items of one depth and one title.
- Single characters of addresses: digits that are not ASCII (`isdigit` accepts
  superscripts, which the next line drops), unusual spaces, capitals beyond
  lower-casing. An email address with two URI prefixes keeps one, so it is not a
  fixed point of normalisation; it is modelled (`PrefixesLeft`) and typed by nobody.
- Delivery of messages: this code base queues them and has no worker.
- Changes of memberships: no handler makes any. `org_graph` ranges over all of
  them for the queries.
- The administrative endpoint, the organization's tree, the health probe and the
  reading endpoints other than those that show a plan to whoever decides and list
  a branch: pure reads of one statement.
- Migrations, generated from the table definitions whose constraints are modelled.
- Deletion: rows are deleted by `remove_item` only; the cascades of the foreign
  keys are never triggered.

## 6. Plan

The order is by what a mistake would cost. Done: all components that change
state, the composition of plans and work tree, and the proofs of section 4.
Left: a second responsibility in `DelegatedWork`, and approvals of several items
there, in a larger run.
