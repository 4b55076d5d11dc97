-------------------------- MODULE DelegationPlans --------------------------
(***************************************************************************)
(* Delegation plans under concurrent requests                              *)
(* (app/domain/delegation, app/api/delegation_plans.py).                   *)
(*                                                                         *)
(* A session of this module is one HTTP request with its own database      *)
(* transaction at READ COMMITTED.  The steps of a request are the moments  *)
(* at which other requests can see or change something it depends on:      *)
(*                                                                         *)
(*   create            LoadScope -> CommitCreate                           *)
(*   add an item       LoadPlan -> CommitAdd                               *)
(*   change, remove    LoadPlan -> LoadItem -> CommitUpdate, CommitRemove  *)
(*   submit            LoadPlan -> Validate -> CommitSubmit                *)
(*   approve, reject   View -> ViewItems -> Lock, or LockBlind,            *)
(*                     then CommitApprove, CommitReject                    *)
(*                                                                         *)
(* Only approve and reject lock the plan row (SELECT ... FOR UPDATE).  The *)
(* others read it without a lock and write back what they computed from    *)
(* that read: version is written as the number read plus one, and only the *)
(* columns a request changed are written.  A flush and the commit after it *)
(* are one step: until the commit nobody sees the writes, and the UPDATE   *)
(* of the plan row, which comes first, waits for a lock on it.             *)
(***************************************************************************)
EXTENDS Permissions, FiniteSets

CONSTANTS
    Plans, NoPlan,    \* ids of delegation plans
    Items, NoItem,    \* ids of plan items
    Scopes, NoScope,  \* work items a plan may be made for
    ScopeType, ScopeOrg, ScopeOwner, ScopeCreator,
    Sessions,         \* requests in flight at once
    MayIssue,         \* the operations each session may issue
    Proposals,        \* [assignee, due] of the items a request may add
    Patches,          \* [assignee, due] of the changes, Unset where omitted
    Unset,
    Reachable,        \* members with a verified messaging identity
    MaxVersion        \* bound: an open plan at this version is edited no further

Ops == {"create", "add", "update", "remove", "submit", "approve", "reject"}
OpenStatuses == {"DRAFT", "PENDING_APPROVAL"}
Statuses == OpenStatuses \union {"APPROVED", "REJECTED"}
Dues == {"none", "past", "future"}
MaybeMember == Members \union {NoMember}

ASSUME PlansAssumption ==
    /\ NoPlan \notin Plans /\ NoItem \notin Items /\ NoScope \notin Scopes
    /\ Unset \notin MaybeMember \union Dues
    /\ ScopeType \in [Scopes -> {"INITIATIVE", "RESPONSIBILITY", "TASK"}]
    /\ DOMAIN ScopeOrg = Scopes
    /\ ScopeOwner \in [Scopes -> MaybeMember]
    /\ ScopeCreator \in [Scopes -> Members]
    /\ MayIssue \in [Sessions -> SUBSET Ops]
    /\ Proposals \subseteq [assignee : MaybeMember, due : Dues]
    /\ Patches \subseteq [assignee : MaybeMember \union {Unset}, due : Dues \union {Unset}]
    /\ MaxVersion \in Nat

\* The database holds finitely many rows.
ASSUME ItemsAssumption == IsFiniteSet(Items)

VARIABLES
    plan,         \* delegation_plans
    items,        \* delegation_plan_items
    scopeStatus,  \* the status column of the scopes' rows
    decisions,    \* approvals, per plan, in commit order
    work,         \* the tasks each approval of a plan created
    outbox,       \* outbound_messages, per plan and committing transaction
    audit,        \* audit_events, per plan
    sess          \* what each session has read and where it stands

tables == <<plan, items, scopeStatus, decisions, work, outbox, audit>>
vars == <<plan, items, scopeStatus, decisions, work, outbox, audit, sess>>

PlanRow == [status : Statuses \union {"NONE"}, scope : Scopes \union {NoScope},
            creator : MaybeMember, approver : MaybeMember,
            version : Nat, approvedAt : BOOLEAN]

NoRow == [status |-> "NONE", scope |-> NoScope, creator |-> NoMember,
          approver |-> NoMember, version |-> 0, approvedAt |-> FALSE]

Proposal == [assignee : MaybeMember, due : Dues]
NoProposal == [assignee |-> NoMember, due |-> "none"]
ItemRow == [plan : Plans \union {NoPlan}, live : BOOLEAN, proposal : Proposal]
NoItemRow == [plan |-> NoPlan, live |-> FALSE, proposal |-> NoProposal]

\* What a person is shown of a plan, what an approval turns into tasks.
Task == [item : Items, proposal : Proposal]

Decision == [decision : {"APPROVED", "REJECTED"}, by : Members, version : Nat]

AuditEvent == [action : {"APPROVE_PLAN", "REJECT_PLAN"}, by : Members,
               before : Statuses \X Nat, after : Statuses \X Nat]

Message == [type : {"ASSIGNMENT", "PLAN_SUBMITTED", "PLAN_APPROVED", "PLAN_REJECTED"},
            to : Members, item : Items \union {NoItem},
            status : {"PENDING", "FAILED"}]

Session == [pc : {"idle", "loaded", "ready", "viewing", "asked", "locked"},
            op : Ops \union {"none"}, actor : MaybeMember,
            plan : Plans \union {NoPlan}, row : PlanRow,
            item : Items \union {NoItem}, old : Proposal,
            expected : Nat, shown : SUBSET Task,
            content : SUBSET Task, scopeStatus : {"ACTIVE", "CANCELLED"}]

AnyVersion == 0  \* expected_version omitted; real versions start at 1

Idle == [pc |-> "idle", op |-> "none", actor |-> NoMember, plan |-> NoPlan,
         row |-> NoRow, item |-> NoItem, old |-> NoProposal, expected |-> AnyVersion,
         shown |-> {}, content |-> {}, scopeStatus |-> "ACTIVE"]

TypeOK ==
    /\ plan \in [Plans -> PlanRow]
    /\ items \in [Items -> ItemRow]
    /\ scopeStatus \in [Scopes -> {"ACTIVE", "CANCELLED"}]
    /\ decisions \in [Plans -> Seq(Decision)]
    /\ work \in [Plans -> Seq(SUBSET Task)]
    /\ outbox \in [Plans -> Seq(SUBSET Message)]
    /\ audit \in [Plans -> Seq(AuditEvent)]
    /\ sess \in [Sessions -> Session]

Init ==
    /\ plan = [p \in Plans |-> NoRow]
    /\ items = [i \in Items |-> NoItemRow]
    /\ scopeStatus = [w \in Scopes |-> "ACTIVE"]
    /\ decisions = [p \in Plans |-> <<>>]
    /\ work = [p \in Plans |-> <<>>]
    /\ outbox = [p \in Plans |-> <<>>]
    /\ audit = [p \in Plans |-> <<>>]
    /\ sess = [s \in Sessions |-> Idle]
-----------------------------------------------------------------------------
\* What the handlers compute from the tables.

Exists(p) == plan[p].status # "NONE"

OrgOfPlan(row) == ScopeOrg[row.scope]

SubjectOf(row) == PlanSubject(OrgOfPlan(row), row.creator, row.approver, row.status)

SubjectOfScope(w) == WorkSubject(ScopeOrg[w], ScopeOwner[w], ScopeCreator[w])

\* list_items, without its order.
Contents(p) ==
    {[item |-> i, proposal |-> items[i].proposal] :
        i \in {j \in Items : items[j].live /\ items[j].plan = p}}

\* _validate_ready.
ReadyToSend(row, contents) ==
    /\ contents # {}
    /\ \A t \in contents : /\ t.proposal.assignee # NoMember
                           /\ t.proposal.due = "future"
                           /\ t.proposal.assignee \in ScopeOf[row.creator]

\* _approver_for: the nearest member above the creator, else the creator.
ApproverFor(creator) ==
    IF \E m \in Members : IsNearest(Manager, creator, m) THEN Manager[creator]
                                                         ELSE creator

\* enqueue: without a verified address the message is written as FAILED.
Enqueue(type, to, item) ==
    [type |-> type, to |-> to, item |-> item,
     status |-> IF to \in Reachable THEN "PENDING" ELSE "FAILED"]

\* Slip: the table without approved_at_matches_status.
RowChecksWithoutApprovedAt(row) == row.status \notin {"DRAFT", "NONE"} => row.approver # NoMember

\* Constraints of delegation_plans, checked when a row is written.
RowChecks(row) ==
    /\ row.status \notin {"DRAFT", "NONE"} => row.approver # NoMember
    /\ (row.status = "APPROVED") <=> row.approvedAt

\* Slip: the index forgets plans waiting for approval.
OneDraftIndex(p, row) ==
    row.status \in OpenStatuses =>
        ~ \E q \in Plans \ {p} : plan[q].scope = row.scope /\ plan[q].status = "DRAFT"

OneOpenIndex(p, row) ==
    row.status \in OpenStatuses =>
        ~ \E q \in Plans \ {p} : plan[q].scope = row.scope /\ plan[q].status \in OpenStatuses

RowMayBeWritten(p, row) == RowChecks(row) /\ OneOpenIndex(p, row)

SlotTaken(w) == \E q \in Plans : plan[q].scope = w /\ plan[q].status \in OpenStatuses

\* The partial unique index on approvals.
OneApprovalIndex(p) == \A k \in DOMAIN decisions[p] : decisions[p][k].decision # "APPROVED"

\* The composite foreign key of a plan item's assignee.
AssigneeInOrg(p, proposal) ==
    proposal.assignee # NoMember => OrgOf[proposal.assignee] = OrgOfPlan(plan[p])

\* Slip: _lock reads the row without FOR UPDATE.
NeverLocked(p) == TRUE

\* Nobody holds the row lock of p: the condition under which an UPDATE of the
\* row, or a SELECT ... FOR UPDATE, does not wait.
LockFree(p) == \A s \in Sessions : sess[s].pc = "locked" => sess[s].plan # p

Begin(s, op, fields) == 
    /\ sess[s].pc = "idle"
    /\ op \in MayIssue[s]
    /\ sess' = [sess EXCEPT ![s] = fields]

End(s) == sess' = [sess EXCEPT ![s] = Idle]

-----------------------------------------------------------------------------
\* POST /delegation-plans.

\* The handler reads the responsibility, and create_plan checks that read.
LoadScope(s, actor, w) ==
    /\ Can(actor, "CREATE_PLAN", SubjectOfScope(w))
    /\ ScopeType[w] = "RESPONSIBILITY"
    /\ scopeStatus[w] # "CANCELLED"
    /\ Begin(s, "create",
             [Idle EXCEPT !.pc = "ready", !.op = "create",
                 !.row = [NoRow EXCEPT !.status = "DRAFT", !.scope = w,
                                       !.creator = actor, !.version = 1]])
    /\ UNCHANGED tables

CommitCreate(s, p) ==
    /\ sess[s].pc = "ready" /\ sess[s].op = "create"
    /\ ~ Exists(p)
    /\ RowMayBeWritten(p, sess[s].row)
    /\ plan' = [plan EXCEPT ![p] = sess[s].row]
    /\ End(s)
    /\ UNCHANGED <<items, scopeStatus, decisions, work, outbox, audit>>

-----------------------------------------------------------------------------
\* Editing and submitting.

PermissionFor(op) == IF op = "submit" THEN "SUBMIT_PLAN" ELSE "EDIT_PLAN"

\* _require_editable, and the same test of submit_plan.
StatusAllows(op, row) ==
    IF op = "submit" THEN row.status = "DRAFT" ELSE row.status \in OpenStatuses

\* _load_plan, the permission check and the status check: one unlocked read.
LoadPlan(s, actor, p, op) ==
    /\ Exists(p)
    /\ plan[p].status \in OpenStatuses => plan[p].version < MaxVersion
    /\ op \in {"add", "update", "remove", "submit"}
    /\ Can(actor, PermissionFor(op), SubjectOf(plan[p]))
    /\ StatusAllows(op, plan[p])
    /\ Begin(s, op, [Idle EXCEPT !.pc = IF op = "add" THEN "ready" ELSE "loaded",
                                 !.op = op, !.plan = p, !.row = plan[p]])
    /\ UNCHANGED tables

\* The item to change or remove is read by a statement of its own, later.
LoadItem(s, i) ==
    /\ sess[s].pc = "loaded" /\ sess[s].op \in {"update", "remove"}
    /\ items[i].live /\ items[i].plan = sess[s].plan
    /\ sess' = [sess EXCEPT ![s].pc = "ready", ![s].item = i,
                            ![s].old = IF sess[s].op = "update" THEN items[i].proposal ELSE @]
    /\ UNCHANGED tables

\* _touch, on the row as it was read.
Touched(s) == [plan EXCEPT ![sess[s].plan].version = sess[s].row.version + 1]

CommitAdd(s, i, proposal) ==
    /\ sess[s].pc = "ready" /\ sess[s].op = "add"
    /\ LockFree(sess[s].plan)
    /\ items[i] = NoItemRow
    /\ AssigneeInOrg(sess[s].plan, proposal)
    /\ plan' = Touched(s)
    /\ items' = [items EXCEPT ![i] = [plan |-> sess[s].plan, live |-> TRUE,
                                      proposal |-> proposal]]
    /\ End(s)
    /\ UNCHANGED <<scopeStatus, decisions, work, outbox, audit>>

\* A field is written when the request supplies it and it differs from what the
\* request read.
Merge(old, patch, current) ==
    [f \in {"assignee", "due"} |->
        IF patch[f] \in {Unset, old[f]} THEN current[f] ELSE patch[f]]

Supplies(old, patch) == \E f \in {"assignee", "due"} : patch[f] \notin {Unset, old[f]}

\* An UPDATE of an item row that is gone matches nothing, which the ORM reports
\* as an error; without changed fields there is no such UPDATE.
CommitUpdate(s, patch) ==
    LET i == sess[s].item
        new == Merge(sess[s].old, patch, items[i].proposal)
    IN  /\ sess[s].pc = "ready" /\ sess[s].op = "update"
        /\ LockFree(sess[s].plan)
        /\ Supplies(sess[s].old, patch) => items[i].live
        /\ AssigneeInOrg(sess[s].plan, new)
        /\ plan' = Touched(s)
        /\ items' = [items EXCEPT ![i].proposal = new]
        /\ End(s)
        /\ UNCHANGED <<scopeStatus, decisions, work, outbox, audit>>

\* A DELETE of a row that is gone is only warned about.
CommitRemove(s) ==
    /\ sess[s].pc = "ready" /\ sess[s].op = "remove"
    /\ LockFree(sess[s].plan)
    /\ plan' = Touched(s)
    /\ items' = [items EXCEPT ![sess[s].item].live = FALSE]
    /\ End(s)
    /\ UNCHANGED <<scopeStatus, decisions, work, outbox, audit>>

\* submit_plan reads the items after the plan, without a lock.
Validate(s) ==
    /\ sess[s].pc = "loaded" /\ sess[s].op = "submit"
    /\ ReadyToSend(sess[s].row, Contents(sess[s].plan))
    /\ sess' = [sess EXCEPT ![s].pc = "ready"]
    /\ UNCHANGED tables

\* Slip: sending a plan clears approved_at.
SubmittedAfresh(s) ==
    [plan[sess[s].plan] EXCEPT !.status = "PENDING_APPROVAL",
                               !.approver = ApproverFor(sess[s].row.creator),
                               !.version = sess[s].row.version + 1,
                               !.approvedAt = FALSE]

Submitted(s) ==
    [plan[sess[s].plan] EXCEPT !.status = "PENDING_APPROVAL",
                               !.approver = ApproverFor(sess[s].row.creator),
                               !.version = sess[s].row.version + 1]

\* _notify_approver.
SubmitMessages(row) ==
    IF row.approver = row.creator
    THEN {} ELSE {Enqueue("PLAN_SUBMITTED", row.approver, NoItem)}

CommitSubmit(s) ==
    LET p == sess[s].plan
    IN  /\ sess[s].pc = "ready" /\ sess[s].op = "submit"
        /\ LockFree(p)
        /\ RowMayBeWritten(p, Submitted(s))
        /\ plan' = [plan EXCEPT ![p] = Submitted(s)]
        /\ outbox' = [outbox EXCEPT ![p] = Append(@, SubmitMessages(Submitted(s)))]
        /\ End(s)
        /\ UNCHANGED <<items, scopeStatus, decisions, work, audit>>

-----------------------------------------------------------------------------
\* Deciding.

\* GET /delegation-plans/{id} or the list of plans waiting on the actor: the
\* plan row first, its items by a later statement.
View(s, actor, p, op) ==
    /\ Exists(p)
    /\ op \in {"approve", "reject"}
    /\ \/ Can(actor, "VIEW_WORK_ITEM", SubjectOfScope(plan[p].scope))
       \/ plan[p].approver = actor /\ plan[p].status = "PENDING_APPROVAL"
    /\ Begin(s, op, [Idle EXCEPT !.pc = "viewing", !.op = op, !.actor = actor,
                                 !.plan = p, !.row = plan[p]])
    /\ UNCHANGED tables

\* The person decides on what was shown, naming the version shown with it.
ViewItems(s) ==
    /\ sess[s].pc = "viewing"
    /\ sess' = [sess EXCEPT ![s].pc = "asked", ![s].expected = sess[s].row.version,
                            ![s].row = NoRow, ![s].shown = Contents(sess[s].plan)]
    /\ UNCHANGED tables

\* Slip: anything that has been sent may be decided.
RequireSent(row) == row.status # "DRAFT"

RequirePending(row) == row.status = "PENDING_APPROVAL"

\* Slip: a newer version than the one shown will do.
RequireVersionSince(row, expected) == expected = AnyVersion \/ row.version >= expected

RequireVersion(row, expected) == expected = AnyVersion \/ row.version = expected

DecisionAction(op) == IF op = "approve" THEN "APPROVE_PLAN" ELSE "REJECT_PLAN"

\* Slip: the permission check left to the caller.
MayDecideUnchecked(actor, op, row, expected) ==
    /\ RequirePending(row)
    /\ RequireVersion(row, expected)

\* What is checked under the lock.
MayDecide(actor, op, row, expected) ==
    /\ RequirePending(row)
    /\ RequireVersion(row, expected)
    /\ Can(actor, DecisionAction(op), SubjectOf(row))

\* _lock: the row as it is once the lock is granted (populate_existing), then
\* the items and the scope, which the request keeps for its commit.
Locked(session, p) ==
    [session EXCEPT !.pc = "locked", !.plan = p, !.row = plan[p],
                    !.content = Contents(p), !.scopeStatus = scopeStatus[plan[p].scope]]

Lock(s) ==
    LET p == sess[s].plan
    IN  /\ sess[s].pc = "asked"
        /\ LockFree(p)
        /\ MayDecide(sess[s].actor, sess[s].op, plan[p], sess[s].expected)
        /\ sess' = [sess EXCEPT ![s] = Locked(@, p)]
        /\ UNCHANGED tables

\* A decision sent without expected_version, perhaps unseen.  Nothing the
\* request reads before its lock is granted matters to it.
LockBlind(s, actor, p, op) ==
    /\ Exists(p)
    /\ op \in {"approve", "reject"}
    /\ LockFree(p)
    /\ MayDecide(actor, op, plan[p], AnyVersion)
    /\ Begin(s, op, Locked([Idle EXCEPT !.op = op, !.actor = actor], p))
    /\ UNCHANGED tables

\* The lock is granted and the plan already carries this decision, which is
\* answered as a success, or a check fails.  Either way nothing is written.
TurnAway(s) ==
    /\ sess[s].pc = "asked"
    /\ LockFree(sess[s].plan)
    /\ ~ MayDecide(sess[s].actor, sess[s].op, plan[sess[s].plan], sess[s].expected)
    /\ End(s)
    /\ UNCHANGED tables

DecidedBy(s, decision) ==
    [decision |-> decision, by |-> sess[s].actor, version |-> sess[s].row.version]

\* The plan row once decided: status, version, and approved_at of an approval.
Decided(s, decision) ==
    [plan[sess[s].plan] EXCEPT !.status = decision,
                               !.approvedAt = @ \/ decision = "APPROVED",
                               !.version = sess[s].row.version + 1]

\* Slip: the snapshot "before" taken after the row was changed.
AuditOfTakenLate(s, decision) ==
    [action |-> DecisionAction(sess[s].op), by |-> sess[s].actor,
     before |-> <<Decided(s, decision).status, Decided(s, decision).version>>,
     after |-> <<Decided(s, decision).status, Decided(s, decision).version>>]

AuditOf(s, decision) ==
    [action |-> DecisionAction(sess[s].op), by |-> sess[s].actor,
     before |-> <<sess[s].row.status, sess[s].row.version>>,
     after |-> <<Decided(s, decision).status, Decided(s, decision).version>>]

\* The creator is told, unless the creator decided.
DecisionMessages(s, type) ==
    IF sess[s].row.creator = sess[s].actor
    THEN {} ELSE {Enqueue(type, sess[s].row.creator, NoItem)}

\* Slip: members without a verified address are skipped.
AssignmentsToReachable(tasks) ==
    {Enqueue("ASSIGNMENT", t.proposal.assignee, t.item) :
        t \in {u \in tasks : u.proposal.assignee \in Reachable}}

\* One message per task created, to its owner.
Assignments(tasks) == {Enqueue("ASSIGNMENT", t.proposal.assignee, t.item) : t \in tasks}

\* Slip: recipient_membership_id may be NULL.
CanMaterialiseNameless(s) == sess[s].content # {} => sess[s].scopeStatus # "CANCELLED"

\* Slip: tasks are created without looking at the scope.
CanMaterialiseAnywhere(s) == \A t \in sess[s].content : t.proposal.assignee # NoMember

\* _materialise and the NOT NULL recipient: every item becomes a task under the
\* scope, which must not be cancelled, and every task's owner gets a message.
CanMaterialise(s) ==
    /\ sess[s].content # {} => sess[s].scopeStatus # "CANCELLED"
    /\ \A t \in sess[s].content : t.proposal.assignee # NoMember

CommitApprove(s) ==
    LET p == sess[s].plan
    IN  /\ sess[s].pc = "locked" /\ sess[s].op = "approve"
        /\ CanMaterialise(s)
        /\ OneApprovalIndex(p)
        /\ RowMayBeWritten(p, Decided(s, "APPROVED"))
        /\ plan' = [plan EXCEPT ![p] = Decided(s, "APPROVED")]
        /\ decisions' = [decisions EXCEPT ![p] = Append(@, DecidedBy(s, "APPROVED"))]
        /\ work' = [work EXCEPT ![p] = Append(@, sess[s].content)]
        /\ outbox' = [outbox EXCEPT ![p] =
                        Append(@, Assignments(sess[s].content)
                                      \union DecisionMessages(s, "PLAN_APPROVED"))]
        /\ audit' = [audit EXCEPT ![p] = Append(@, AuditOf(s, "APPROVED"))]
        /\ End(s)
        /\ UNCHANGED <<items, scopeStatus>>

CommitReject(s) ==
    LET p == sess[s].plan
    IN  /\ sess[s].pc = "locked" /\ sess[s].op = "reject"
        /\ RowMayBeWritten(p, Decided(s, "REJECTED"))
        /\ plan' = [plan EXCEPT ![p] = Decided(s, "REJECTED")]
        /\ decisions' = [decisions EXCEPT ![p] = Append(@, DecidedBy(s, "REJECTED"))]
        /\ outbox' = [outbox EXCEPT ![p] = Append(@, DecisionMessages(s, "PLAN_REJECTED"))]
        /\ audit' = [audit EXCEPT ![p] = Append(@, AuditOf(s, "REJECTED"))]
        /\ End(s)
        /\ UNCHANGED <<items, scopeStatus, work>>

-----------------------------------------------------------------------------
\* Requests that end without effect, and the responsibility being called off.

\* A check or a constraint refuses what an unlocked request is about to do, or (a
\* bound of the model) no id is left for a new plan or item.
RefusedUnlocked(s) ==
    \/ sess[s].pc = "ready" /\ sess[s].op = "create"
       /\ (SlotTaken(sess[s].row.scope) \/ \A p \in Plans : Exists(p))
    \/ sess[s].pc = "ready" /\ sess[s].op = "add"
       /\ \A i \in Items : items[i] # NoItemRow
    \/ sess[s].pc = "loaded" /\ sess[s].op \in {"update", "remove"}
       /\ Contents(sess[s].plan) = {}
    \/ sess[s].pc = "loaded" /\ sess[s].op = "submit"
       /\ ~ ReadyToSend(sess[s].row, Contents(sess[s].plan))
    \/ sess[s].pc = "ready" /\ sess[s].op = "update"
       /\ ~ items[sess[s].item].live
    \/ sess[s].pc = "ready" /\ sess[s].op = "submit"
       /\ LockFree(sess[s].plan) /\ ~ RowMayBeWritten(sess[s].plan, Submitted(s))

\* Slip: an error while the lock is held is swallowed and the session kept open.
SwallowedUnderLock(s) == FALSE

\* An approval fails with its lock held.
RefusedUnderLock(s) ==
    /\ sess[s].pc = "locked" /\ sess[s].op = "approve"
    /\ ~ (CanMaterialise(s) /\ OneApprovalIndex(sess[s].plan))

\* The error closes the session: rolled back, and its lock released.
Fail(s) ==
    /\ RefusedUnlocked(s) \/ RefusedUnderLock(s)
    /\ End(s)
    /\ UNCHANGED tables

\* The client disconnects, the process dies, the connection drops: the
\* transaction rolls back and its lock is released.
Crash(s) ==
    /\ sess[s].pc # "idle"
    /\ End(s)
    /\ UNCHANGED tables

\* POST /work-items/{id}/cancel on a scope (WorkItems models that handler).
CancelScope(w) ==
    /\ \E m \in Members : Can(m, "CANCEL_WORK_ITEM", SubjectOfScope(w))
    /\ scopeStatus[w] = "ACTIVE"
    /\ scopeStatus' = [scopeStatus EXCEPT ![w] = "CANCELLED"]
    /\ UNCHANGED <<plan, items, decisions, work, outbox, audit, sess>>

Create(s) ==
    \/ \E actor \in Members, w \in Scopes : LoadScope(s, actor, w)
    \/ \E p \in Plans : CommitCreate(s, p)

Edit(s) ==
    \/ \E actor \in Members, p \in Plans, op \in Ops : LoadPlan(s, actor, p, op)
    \/ \E i \in Items : LoadItem(s, i)
    \/ \E i \in Items, proposal \in Proposals : CommitAdd(s, i, proposal)
    \/ \E patch \in Patches : CommitUpdate(s, patch)
    \/ CommitRemove(s)

Submit(s) == Validate(s) \/ CommitSubmit(s)

Decide(s) ==
    \/ \E actor \in Members, p \in Plans, op \in Ops : View(s, actor, p, op)
    \/ ViewItems(s)
    \/ \E actor \in Members, p \in Plans, op \in Ops : LockBlind(s, actor, p, op)
    \/ Lock(s)
    \/ TurnAway(s)
    \/ CommitApprove(s)
    \/ CommitReject(s)

Next ==
    \/ \E s \in Sessions : Create(s) \/ Edit(s) \/ Submit(s) \/ Decide(s) \/ Fail(s) \/ Crash(s)
    \/ \E w \in Scopes : CancelScope(w)

Spec == Init /\ [][Next]_vars

\* A request that is being served.  One that has been shown a plan waits for a
\* person, who may never answer.
Busy(s) == sess[s].pc \in {"loaded", "ready", "viewing", "locked"}

\* The server keeps running the requests it serves, and PostgreSQL grants a
\* contended row lock in the order it was asked for, so an UPDATE that finds the
\* row unlocked again and again is eventually let through.
Serve(s) ==
    /\ Busy(s)
    /\ Create(s) \/ Edit(s) \/ Submit(s) \/ Decide(s) \/ Fail(s)

FairSpec == Spec /\ \A s \in Sessions : SF_vars(Serve(s))

-----------------------------------------------------------------------------
\* What the module implements.

ApprovalsOf(p) == {k \in DOMAIN decisions[p] : decisions[p][k].decision = "APPROVED"}

TasksOf(p) == UNION {work[p][k] : k \in DOMAIN work[p]}

\* The lifecycle of plans, as long as no reading of them goes stale.
Lifecycle == INSTANCE PlanLifecycle WITH
    status <- [p \in Plans |-> plan[p].status],
    version <- [p \in Plans |-> plan[p].version],
    contents <- [p \in Plans |-> Contents(p)],
    tasks <- [p \in Plans |-> TasksOf(p)]

\* What an edit or a submission checked is no longer so when it commits.
Overtaken(s) ==
    LET p == sess[s].plan
    IN  /\ sess[s].pc = "ready" /\ sess[s].op # "create"
        /\ \/ sess[s].row # plan[p]
           \/ sess[s].op = "submit" /\ ~ ReadyToSend(sess[s].row, Contents(p))

\* However requests overlap, plans keep their lifecycle (states.py), unless an edit
\* or a submission that was overtaken commits: creations and decisions always do,
\* so an approval makes tasks of exactly what the plan holds at that moment, and
\* whoever edits or sends what is still there moves the version by one.
LifecycleUnlessOvertaken ==
    /\ Lifecycle!Init
    /\ [][\/ Lifecycle!Next
          \/ \E s \in Sessions : Overtaken(s) /\ sess'[s] = Idle]_(Lifecycle!vars)

\* The tasks of a plan with an assignment message to their owner.
ToldOf(p) ==
    {t \in TasksOf(p) :
        \E k \in DOMAIN outbox[p] : \E m \in outbox[p][k] :
            m.type = "ASSIGNMENT" /\ m.item = t.item /\ m.to = t.proposal.assignee}

Promise == INSTANCE ApprovalPromise WITH
    approver <- [p \in Plans |-> {decisions[p][k].by : k \in ApprovalsOf(p)}],
    tasks <- [p \in Plans |-> TasksOf(p)],
    told <- [p \in Plans |-> ToldOf(p)]

\* However requests overlap, approve_plan is all or nothing and happens once.
KeepsPromise == Promise!Spec

\* Every request being served ends: no request waits for a row lock for ever,
\* and none keeps one.
RequestsEnd == \A s \in Sessions : Busy(s) ~> ~ Busy(s)

-----------------------------------------------------------------------------
\* Safety.

\* A plan is approved at most once, and its status, its approval and the tasks
\* made from it stand or fall together, whatever requests overlap.
ApprovedOnce ==
    \A p \in Plans :
        /\ Cardinality(ApprovalsOf(p)) = IF plan[p].status = "APPROVED" THEN 1 ELSE 0
        /\ Len(work[p]) = Cardinality(ApprovalsOf(p))

\* Everyone given a task is told of it, exactly once per task and nobody else
\* is; a message without a destination is kept as FAILED, never dropped.
EveryoneNamedIsTold ==
    \A p \in Plans :
        LET batches(t) == {k \in DOMAIN outbox[p] :
                             \E m \in outbox[p][k] :
                                /\ m.type = "ASSIGNMENT" /\ m.item = t.item
                                /\ m.to = t.proposal.assignee
                                /\ m.to # NoMember
                                /\ m.status = "PENDING" <=> m.to \in Reachable}
            assignments == {m \in UNION {outbox[p][k] : k \in DOMAIN outbox[p]} :
                              m.type = "ASSIGNMENT"}
        IN  /\ \A t \in TasksOf(p) : Cardinality(batches(t)) = 1
            /\ Cardinality(assignments) = Cardinality(TasksOf(p))

\* Whoever decided a plan was its named approver or an administrator, and
\* anyone else who is the approver had been told the plan was waiting.
DecidedByApprover ==
    \A p \in Plans : \A k \in DOMAIN decisions[p] :
        /\ decisions[p][k].by \in {plan[p].approver} \union Superadmins
        /\ plan[p].approver # plan[p].creator =>
              \E n \in DOMAIN outbox[p] :
                 \E m \in outbox[p][n] : m.type = "PLAN_SUBMITTED" /\ m.to = plan[p].approver

\* No responsibility ever has two plans open at once.
OneOpenPlanPerScope ==
    \A p, q \in Plans :
        /\ p # q
        /\ plan[p].status \in OpenStatuses
        /\ plan[q].status \in OpenStatuses
        => plan[p].scope # plan[q].scope

\* The audit trail and the approvals tell one story: the same decisions by the
\* same people in the same order, each taken on a pending plan at the version
\* the approval names.
AuditAgrees ==
    \A p \in Plans :
        /\ Len(audit[p]) = Len(decisions[p])
        /\ \A k \in DOMAIN audit[p] :
              LET event == audit[p][k]
                  made == decisions[p][k]
              IN  /\ event.by = made.by
                  /\ event.before = <<"PENDING_APPROVAL", made.version>>
                  /\ event.after = <<made.decision, made.version + 1>>

\* An approval cannot be taken back or repeated by any request still in flight.
ApprovedIsFinal ==
    [][\A p \in Plans : plan[p].status = "APPROVED" =>
          /\ plan'[p].status = "APPROVED"
          /\ work'[p] = work[p]
          /\ decisions'[p] = decisions[p]
          /\ outbox'[p] = outbox[p]]_vars

\* A rejected plan stays rejected (states.py: "APPROVED and REJECTED are
\* terminal").
RejectedIsFinal ==
    [][\A p \in Plans : plan[p].status = "REJECTED" => plan'[p].status = "REJECTED"]_vars

\* Who approves a version gets what was shown with that version ("an edit
\* between 'here is the plan' and 'approve' cannot be mistaken for agreement to
\* the new text", service.py:296).
AgreedToWhatWasShown ==
    [][\A s \in Sessions : \A p \in Plans :
          /\ sess[s].pc = "locked" /\ sess[s].plan = p
          /\ sess[s].expected # AnyVersion
          /\ work'[p] # work[p]
          => work'[p] = Append(work[p], sess[s].shown)]_vars

\* Work is assigned only within the branch of the plan's author or of whoever
\* approved it (service.py:246: "You may only propose work for yourself and the
\* people beneath you.  Approval would otherwise be a way to assign work sideways
\* or upward.").
StaysInBranch ==
    \A p \in Plans : \A t \in TasksOf(p) :
        t.proposal.assignee \in ScopeOf[plan[p].creator]
            \union UNION {ScopeOf[decisions[p][k].by] : k \in ApprovalsOf(p)}
=============================================================================
