----------------------- MODULE DelegationPlans_proofs -----------------------
(***************************************************************************)
(* Theorems about DelegationPlans for any number of plans, items, members  *)
(* and overlapping requests, any hierarchy and any version bound.          *)
(***************************************************************************)
EXTENDS DelegationPlans, FiniteSetTheorems, TLAPS

\* A row some request has created.
KnownRow(row) ==
    /\ row.status # "NONE"
    /\ row.scope \in Scopes
    /\ row.creator \in Members

\* Every plan has a responsibility and an author.
RowsKnown == \A p \in Plans : Exists(p) => KnownRow(plan[p])

\* What a request in flight has read.
SessionsKnow ==
    \A s \in Sessions :
        /\ sess[s].plan \in Plans => Exists(sess[s].plan)
        /\ sess[s].pc \in {"loaded", "ready"} => KnownRow(sess[s].row)
        /\ sess[s].pc = "ready" /\ sess[s].op = "create" => sess[s].row.status = "DRAFT"
        /\ sess[s].pc \in {"loaded", "ready"} /\ sess[s].op # "create" => sess[s].plan \in Plans
        /\ sess[s].pc \in {"viewing", "asked", "locked"} =>
              /\ sess[s].plan \in Plans
              /\ sess[s].actor \in Members
              /\ sess[s].op \in {"approve", "reject"}
        /\ sess[s].pc = "locked" => KnownRow(sess[s].row)

TInv == TypeOK /\ RowsKnown /\ SessionsKnow

USE DEF MaybeMember

-----------------------------------------------------------------------------
\* _approver_for always names somebody: the column is never left empty.
LEMMA ApproverIsMember ==
    ASSUME NEW c \in Members
    PROVE  ApproverFor(c) \in Members
BY DEF ApproverFor, IsNearest

\* A message to a member is a row the outbox accepts.
LEMMA EnqueueType ==
    ASSUME NEW m \in Members, NEW i \in Items \union {NoItem},
           NEW t \in {"ASSIGNMENT", "PLAN_SUBMITTED", "PLAN_APPROVED", "PLAN_REJECTED"}
    PROVE  Enqueue(t, m, i) \in Message
BY DEF Enqueue, Message

\* What is shown of a plan is a set of tasks.
LEMMA ContentsType ==
    ASSUME TypeOK, NEW p
    PROVE  Contents(p) \in SUBSET Task
BY DEF TypeOK, Contents, Task, ItemRow

LEMMA IdleType == Idle \in Session
BY DEF Idle, Session, PlanRow, NoRow, NoProposal, Proposal, AnyVersion, Dues

LEMMA InitTInv == Init => TInv
<1> SUFFICES ASSUME Init PROVE TInv
  OBVIOUS
<1>1. TypeOK
  BY IdleType DEF Init, TypeOK, PlanRow, NoRow, ItemRow, NoItemRow, NoProposal, Proposal, Dues
<1>2. RowsKnown
  BY DEF Init, RowsKnown, Exists, NoRow
<1>3. SessionsKnow
  BY PlansAssumption DEF Init, SessionsKnow, Idle
<1> QED
  BY <1>1, <1>2, <1>3 DEF TInv

-----------------------------------------------------------------------------
\* A request that ends no longer knows anything; what others know stays true as
\* long as no plan disappears.
LEMMA EndKeepsSessions ==
    ASSUME TInv, NEW s \in Sessions, End(s),
           \A p \in Plans : Exists(p) => plan'[p].status # "NONE"
    PROVE  sess' \in [Sessions -> Session] /\ SessionsKnow'
<1>1. sess' \in [Sessions -> Session]
  BY IdleType DEF TInv, TypeOK, End
<1>2. /\ \A r \in Sessions : sess'[r] = IF r = s THEN Idle ELSE sess[r]
      /\ Idle.pc = "idle" /\ Idle.plan = NoPlan
  BY DEF TInv, TypeOK, End, Idle
<1>3. \A p \in Plans : Exists(p) => Exists(p)'
  BY DEF Exists
<1>4. SessionsKnow'
  BY <1>2, <1>3, PlansAssumption DEF TInv, SessionsKnow
<1> QED
  BY <1>1, <1>4

\* A request that ends leaves the tables to those still running.
LEMMA EndKeepsTInv ==
    ASSUME TInv, NEW s \in Sessions, End(s), UNCHANGED tables
    PROVE  TInv'
<1>1. sess' \in [Sessions -> Session] /\ SessionsKnow'
  BY EndKeepsSessions DEF tables, Exists
<1>2. TypeOK' /\ RowsKnown'
  BY <1>1 DEF TInv, TypeOK, RowsKnown, Exists, tables
<1> QED
  BY <1>1, <1>2 DEF TInv

LEMMA LoadScopeKeepsTInv ==
    ASSUME TInv, NEW s \in Sessions, NEW actor \in Members, NEW w \in Scopes,
           LoadScope(s, actor, w)
    PROVE  TInv'
<1> DEFINE row == [NoRow EXCEPT !.status = "DRAFT", !.scope = w,
                                !.creator = actor, !.version = 1]
           fields == [Idle EXCEPT !.pc = "ready", !.op = "create", !.row = row]
<1>1. /\ row \in PlanRow /\ KnownRow(row) /\ row.status = "DRAFT"
  BY DEF NoRow, PlanRow, KnownRow, Statuses, OpenStatuses
<1>2. /\ fields \in Session /\ fields.pc = "ready" /\ fields.op = "create"
      /\ fields.row = row /\ fields.plan = NoPlan
  BY <1>1, IdleType DEF Idle, Session, Ops
<1>3. UNCHANGED tables /\ sess' = [sess EXCEPT ![s] = fields]
  BY DEF LoadScope, Begin
<1> HIDE DEF row, fields
<1>4. TypeOK'
  BY <1>2, <1>3 DEF TInv, TypeOK, tables
<1>5. RowsKnown'
  BY <1>3 DEF TInv, RowsKnown, Exists, tables
<1>6. SessionsKnow'
  BY <1>1, <1>2, <1>3, PlansAssumption DEF TInv, TypeOK, SessionsKnow, Exists, tables
<1> QED
  BY <1>4, <1>5, <1>6, PlansAssumption DEF TInv, Exists, tables

LEMMA CommitCreateKeepsTInv ==
    ASSUME TInv, NEW s \in Sessions, NEW p \in Plans, CommitCreate(s, p)
    PROVE  TInv'
<1>1. /\ plan' = [plan EXCEPT ![p] = sess[s].row] /\ End(s)
      /\ UNCHANGED <<items, scopeStatus, decisions, work, outbox, audit>>
      /\ sess[s].row \in PlanRow /\ KnownRow(sess[s].row)
  BY DEF CommitCreate, TInv, TypeOK, SessionsKnow, Session
<1>2. RowsKnown'
  BY <1>1 DEF TInv, TypeOK, RowsKnown, Exists
<1>3. \A q \in Plans : Exists(q) => plan'[q].status # "NONE"
  BY <1>1 DEF TInv, TypeOK, Exists, KnownRow
<1>4. sess' \in [Sessions -> Session] /\ SessionsKnow'
  BY <1>1, <1>3, EndKeepsSessions
<1>5. TypeOK'
  BY <1>1, <1>4 DEF TInv, TypeOK
<1> QED
  BY <1>2, <1>4, <1>5 DEF TInv

LEMMA LoadPlanKeepsTInv ==
    ASSUME TInv, NEW s \in Sessions, NEW actor \in Members, NEW p \in Plans, NEW op \in Ops,
           LoadPlan(s, actor, p, op)
    PROVE  TInv'
<1> DEFINE fields == [Idle EXCEPT !.pc = IF op = "add" THEN "ready" ELSE "loaded",
                                  !.op = op, !.plan = p, !.row = plan[p]]
<1>1. /\ plan[p] \in PlanRow /\ KnownRow(plan[p]) /\ op # "create" /\ Exists(p)
  BY DEF LoadPlan, TInv, TypeOK, RowsKnown
<1>2. /\ fields \in Session /\ fields.pc \in {"loaded", "ready"}
      /\ fields.op = op /\ fields.row = plan[p] /\ fields.plan = p
  BY <1>1, IdleType, ZenonT(30) DEF Idle, Session
<1>3. UNCHANGED tables /\ sess' = [sess EXCEPT ![s] = fields]
  BY DEF LoadPlan, Begin
<1> HIDE DEF fields
<1>4. TypeOK'
  BY <1>2, <1>3 DEF TInv, TypeOK, tables
<1>5. RowsKnown'
  BY <1>3 DEF TInv, RowsKnown, Exists, tables
<1>6. SessionsKnow'
  BY <1>1, <1>2, <1>3, PlansAssumption DEF TInv, TypeOK, SessionsKnow, Exists, tables
<1> QED
  BY <1>4, <1>5, <1>6, PlansAssumption DEF TInv, Exists, tables

LEMMA LoadItemKeepsTInv ==
    ASSUME TInv, NEW s \in Sessions, NEW i \in Items, LoadItem(s, i)
    PROVE  TInv'
<1> DEFINE fields == [sess[s] EXCEPT !.pc = "ready", !.item = i,
                         !.old = IF sess[s].op = "update" THEN items[i].proposal ELSE @]
<1>1. /\ sess[s] \in Session /\ sess[s].pc = "loaded" /\ sess[s].op # "create"
      /\ KnownRow(sess[s].row) /\ items[i].proposal \in Proposal
  BY DEF LoadItem, TInv, TypeOK, SessionsKnow, ItemRow
<1>2. /\ fields \in Session /\ fields.pc = "ready"
      /\ fields.op = sess[s].op /\ fields.row = sess[s].row /\ fields.plan = sess[s].plan
  BY <1>1 DEF Session
<1>3. UNCHANGED tables /\ sess' = [sess EXCEPT ![s] = fields]
  BY DEF LoadItem
<1> HIDE DEF fields
<1>4. TypeOK'
  BY <1>2, <1>3 DEF TInv, TypeOK, tables
<1>5. RowsKnown'
  BY <1>3 DEF TInv, RowsKnown, Exists, tables
<1>6. SessionsKnow'
  BY <1>1, <1>2, <1>3, PlansAssumption DEF TInv, TypeOK, SessionsKnow, Exists, tables
<1> QED
  BY <1>4, <1>5, <1>6, PlansAssumption DEF TInv, Exists, tables

LEMMA ValidateKeepsTInv ==
    ASSUME TInv, NEW s \in Sessions, Validate(s)
    PROVE  TInv'
<1>1. /\ sess[s] \in Session /\ sess[s].pc = "loaded" /\ sess[s].op = "submit"
      /\ KnownRow(sess[s].row) /\ UNCHANGED tables
      /\ sess' = [sess EXCEPT ![s].pc = "ready"]
  BY DEF Validate, TInv, TypeOK, SessionsKnow
<1>2. TypeOK'
  BY <1>1 DEF TInv, TypeOK, tables, Session
<1>3. RowsKnown'
  BY <1>1 DEF TInv, RowsKnown, Exists, tables
<1>4. SessionsKnow'
  BY <1>1, PlansAssumption DEF TInv, TypeOK, SessionsKnow, Session, Exists, tables
<1> QED
  BY <1>2, <1>3, <1>4, PlansAssumption DEF TInv, Exists, tables

LEMMA ViewKeepsTInv ==
    ASSUME TInv, NEW s \in Sessions, NEW actor \in Members, NEW p \in Plans, NEW op \in Ops,
           View(s, actor, p, op)
    PROVE  TInv'
<1> DEFINE fields == [Idle EXCEPT !.pc = "viewing", !.op = op, !.actor = actor,
                                  !.plan = p, !.row = plan[p]]
<1>1. plan[p] \in PlanRow /\ op \in {"approve", "reject"} /\ Exists(p)
  BY DEF View, TInv, TypeOK
<1>2. /\ fields \in Session /\ fields.pc = "viewing"
      /\ fields.op = op /\ fields.actor = actor /\ fields.plan = p
  BY <1>1, IdleType DEF Idle, Session
<1>3. UNCHANGED tables /\ sess' = [sess EXCEPT ![s] = fields]
  BY DEF View, Begin
<1> HIDE DEF fields
<1>4. TypeOK'
  BY <1>2, <1>3 DEF TInv, TypeOK, tables
<1>5. RowsKnown'
  BY <1>3 DEF TInv, RowsKnown, Exists, tables
<1>6. SessionsKnow'
  BY <1>1, <1>2, <1>3, PlansAssumption DEF TInv, TypeOK, SessionsKnow, Exists, tables
<1> QED
  BY <1>4, <1>5, <1>6, PlansAssumption DEF TInv, Exists, tables

LEMMA ViewItemsKeepsTInv ==
    ASSUME TInv, NEW s \in Sessions, ViewItems(s)
    PROVE  TInv'
<1> DEFINE fields == [sess[s] EXCEPT !.pc = "asked", !.expected = sess[s].row.version,
                                     !.row = NoRow, !.shown = Contents(sess[s].plan)]
<1>1. /\ sess[s] \in Session /\ sess[s].pc = "viewing"
      /\ sess[s].row.version \in Nat /\ sess[s].actor \in Members /\ sess[s].plan \in Plans
      /\ sess[s].op \in {"approve", "reject"}
      /\ Contents(sess[s].plan) \in SUBSET Task /\ NoRow \in PlanRow
  BY ContentsType DEF ViewItems, TInv, TypeOK, SessionsKnow, Session, PlanRow, NoRow
<1>2. /\ fields \in Session /\ fields.pc = "asked"
      /\ fields.op = sess[s].op /\ fields.actor = sess[s].actor
      /\ fields.plan = sess[s].plan
  BY <1>1 DEF Session
<1>3. UNCHANGED tables /\ sess' = [sess EXCEPT ![s] = fields]
  BY DEF ViewItems
<1> HIDE DEF fields
<1>4. TypeOK'
  BY <1>2, <1>3 DEF TInv, TypeOK, tables
<1>5. RowsKnown'
  BY <1>3 DEF TInv, RowsKnown, Exists, tables
<1>6. SessionsKnow'
  BY <1>1, <1>2, <1>3, PlansAssumption DEF TInv, TypeOK, SessionsKnow, Exists, tables
<1> QED
  BY <1>4, <1>5, <1>6, PlansAssumption DEF TInv, Exists, tables

\* Under the lock a decider holds the plan's row, its items and its scope.
LEMMA LockedType ==
    ASSUME TInv, NEW q \in Session, NEW p \in Plans, KnownRow(plan[p]),
           q.actor \in Members, q.op \in {"approve", "reject"}
    PROVE  /\ Locked(q, p) \in Session
           /\ Locked(q, p).pc = "locked"
           /\ Locked(q, p).op = q.op
           /\ Locked(q, p).plan = p
           /\ Locked(q, p).actor = q.actor
           /\ Locked(q, p).row = plan[p]
<1>1. /\ plan[p] \in PlanRow /\ Contents(p) \in SUBSET Task
      /\ scopeStatus[plan[p].scope] \in {"ACTIVE", "CANCELLED"}
  BY ContentsType DEF TInv, TypeOK, KnownRow
<1> QED
  BY <1>1 DEF Locked, Session

LEMMA TakingTheLockKeepsTInv ==
    ASSUME TInv, NEW s \in Sessions, NEW q \in Session, NEW p \in Plans,
           plan[p].status = "PENDING_APPROVAL",
           q.actor \in Members, q.op \in {"approve", "reject"},
           UNCHANGED tables, sess' = [sess EXCEPT ![s] = Locked(q, p)]
    PROVE  TInv'
<1>1. KnownRow(plan[p])
  BY DEF TInv, RowsKnown, Exists
<1>2. TypeOK'
  BY <1>1, LockedType DEF TInv, TypeOK, tables
<1>3. RowsKnown'
  BY DEF TInv, RowsKnown, Exists, tables
<1>4. SessionsKnow'
  BY <1>1, LockedType, PlansAssumption, SMTT(30) DEF TInv, TypeOK, SessionsKnow, Exists, tables
<1> QED
  BY <1>2, <1>3, <1>4, PlansAssumption DEF TInv, Exists, tables

LEMMA LockKeepsTInv ==
    ASSUME TInv, NEW s \in Sessions, Lock(s)
    PROVE  TInv'
<1>1. /\ sess[s] \in Session /\ sess[s].actor \in Members
      /\ sess[s].op \in {"approve", "reject"}
  BY DEF Lock, TInv, TypeOK, SessionsKnow
<1>2. /\ plan[sess[s].plan].status = "PENDING_APPROVAL" /\ UNCHANGED tables
      /\ sess' = [sess EXCEPT ![s] = Locked(sess[s], sess[s].plan)]
      /\ sess[s].plan \in Plans
  BY <1>1 DEF Lock, MayDecide, RequirePending, TInv, TypeOK, SessionsKnow
<1> QED
  BY <1>1, <1>2, TakingTheLockKeepsTInv

LEMMA LockBlindKeepsTInv ==
    ASSUME TInv, NEW s \in Sessions, NEW actor \in Members, NEW p \in Plans, NEW op \in Ops,
           LockBlind(s, actor, p, op)
    PROVE  TInv'
<1> DEFINE q == [Idle EXCEPT !.op = op, !.actor = actor]
<1>1. q \in Session /\ q.actor = actor /\ q.op = op
  BY IdleType DEF Idle, Session
<1>2. /\ plan[p].status = "PENDING_APPROVAL" /\ UNCHANGED tables
      /\ sess' = [sess EXCEPT ![s] = Locked(q, p)] /\ op \in {"approve", "reject"}
  BY DEF LockBlind, Begin, MayDecide, RequirePending
<1> HIDE DEF q
<1> QED
  BY <1>1, <1>2, TakingTheLockKeepsTInv

-----------------------------------------------------------------------------
\* _touch leaves everything of the row but its version alone.
LEMMA TouchedType ==
    ASSUME TInv, NEW s \in Sessions, KnownRow(sess[s].row), plan' = Touched(s)
    PROVE  /\ plan' \in [Plans -> PlanRow]
           /\ RowsKnown'
           /\ \A q \in Plans : Exists(q) => plan'[q].status # "NONE"
<1> DEFINE p == sess[s].plan
           v == sess[s].row.version + 1
<1>1. v \in Nat
  BY DEF TInv, TypeOK, Session, PlanRow
<1>2. plan' = [plan EXCEPT ![p].version = v]
  BY DEF Touched
<1> HIDE DEF p, v
<1>3. plan' = [q \in Plans |-> IF q = p THEN [plan[q] EXCEPT !.version = v] ELSE plan[q]]
  BY <1>2 DEF TInv, TypeOK
<1>4. \A q \in Plans : [plan[q] EXCEPT !.version = v] \in PlanRow
  BY <1>1, ZenonT(30) DEF TInv, TypeOK, PlanRow
<1>5. plan' \in [Plans -> PlanRow]
  BY <1>3, <1>4 DEF TInv, TypeOK
<1>6. RowsKnown'
  BY <1>3 DEF TInv, TypeOK, RowsKnown, Exists, KnownRow, PlanRow
<1>7. \A q \in Plans : Exists(q) => plan'[q].status # "NONE"
  BY <1>3 DEF TInv, TypeOK, Exists, PlanRow
<1> QED
  BY <1>5, <1>6, <1>7

LEMMA CommitAddKeepsTInv ==
    ASSUME TInv, NEW s \in Sessions, NEW i \in Items, NEW proposal \in Proposals,
           CommitAdd(s, i, proposal)
    PROVE  TInv'
<1>1. KnownRow(sess[s].row) /\ plan' = Touched(s) /\ End(s)
      /\ UNCHANGED <<scopeStatus, decisions, work, outbox, audit>>
      /\ sess[s].plan \in Plans \union {NoPlan}
      /\ items' = [items EXCEPT ![i] = [plan |-> sess[s].plan, live |-> TRUE,
                                        proposal |-> proposal]]
  BY DEF CommitAdd, TInv, TypeOK, SessionsKnow, Session
<1>2. proposal \in Proposal
  BY PlansAssumption DEF Proposal
<1>3. items' \in [Items -> ItemRow]
  BY <1>1, <1>2 DEF TInv, TypeOK, ItemRow
<1> QED
  BY <1>1, <1>3, TouchedType, EndKeepsSessions DEF TInv, TypeOK

LEMMA CommitUpdateKeepsTInv ==
    ASSUME TInv, NEW s \in Sessions, NEW patch \in Patches, CommitUpdate(s, patch)
    PROVE  TInv'
<1> DEFINE i == sess[s].item
           new == Merge(sess[s].old, patch, items[i].proposal)
<1>1. KnownRow(sess[s].row) /\ plan' = Touched(s) /\ End(s)
      /\ UNCHANGED <<scopeStatus, decisions, work, outbox, audit>>
      /\ items' = [items EXCEPT ![i].proposal = new]
  BY DEF CommitUpdate, TInv, TypeOK, SessionsKnow
<1>2. patch \in [assignee : MaybeMember \union {Unset}, due : Dues \union {Unset}]
  BY PlansAssumption
<1>3. ASSUME i \in Items
      PROVE  items[i].proposal \in Proposal
  BY <1>3 DEF TInv, TypeOK, ItemRow
<1>4. ASSUME i \in Items
      PROVE  new \in Proposal
  BY <1>2, <1>3, <1>4 DEF Merge, Proposal
<1> HIDE DEF i, new
<1>5. items' \in [Items -> ItemRow]
  BY <1>1, <1>4 DEF TInv, TypeOK, ItemRow
<1> QED
  BY <1>1, <1>5, TouchedType, EndKeepsSessions DEF TInv, TypeOK

LEMMA CommitRemoveKeepsTInv ==
    ASSUME TInv, NEW s \in Sessions, CommitRemove(s)
    PROVE  TInv'
<1>1. KnownRow(sess[s].row) /\ plan' = Touched(s) /\ End(s)
      /\ UNCHANGED <<scopeStatus, decisions, work, outbox, audit>>
      /\ items' = [items EXCEPT ![sess[s].item].live = FALSE]
  BY DEF CommitRemove, TInv, TypeOK, SessionsKnow
<1>2. items' \in [Items -> ItemRow]
  BY <1>1, ZenonT(30) DEF TInv, TypeOK, ItemRow
<1> QED
  BY <1>1, <1>2, TouchedType, EndKeepsSessions DEF TInv, TypeOK

-----------------------------------------------------------------------------
\* Writing the status columns of a plan that exists: submit, approve, reject.
LEMMA RowWritten ==
    ASSUME TInv, NEW p \in Plans, NEW row \in PlanRow, KnownRow(row),
           plan' = [plan EXCEPT ![p] = row]
    PROVE  /\ plan' \in [Plans -> PlanRow]
           /\ RowsKnown'
           /\ \A q \in Plans : Exists(q) => plan'[q].status # "NONE"
<1>1. plan' \in [Plans -> PlanRow]
  BY DEF TInv, TypeOK
<1>2. RowsKnown'
  BY DEF TInv, TypeOK, RowsKnown, Exists
<1>3. \A q \in Plans : Exists(q) => plan'[q].status # "NONE"
  BY DEF TInv, TypeOK, Exists, KnownRow
<1> QED
  BY <1>1, <1>2, <1>3

LEMMA SubmittedType ==
    ASSUME TInv, NEW s \in Sessions, sess[s].pc = "ready", sess[s].plan \in Plans
    PROVE  /\ Submitted(s) \in PlanRow
           /\ KnownRow(Submitted(s))
           /\ SubmitMessages(Submitted(s)) \in SUBSET Message
<1>1. /\ plan[sess[s].plan] \in PlanRow
      /\ KnownRow(plan[sess[s].plan])
      /\ sess[s].row.creator \in Members
      /\ sess[s].row.version + 1 \in Nat
  BY DEF TInv, TypeOK, SessionsKnow, RowsKnown, KnownRow, Session, PlanRow
<1>2. ApproverFor(sess[s].row.creator) \in Members
  BY <1>1, ApproverIsMember
<1>3. Submitted(s) \in PlanRow /\ KnownRow(Submitted(s)) /\ Submitted(s).approver \in Members
  BY <1>1, <1>2 DEF Submitted, PlanRow, KnownRow, Statuses, OpenStatuses
<1>4. SubmitMessages(Submitted(s)) \in SUBSET Message
  BY <1>3, EnqueueType DEF SubmitMessages
<1> QED
  BY <1>3, <1>4

\* A session that has loaded a plan names one, so the request writes its row.
LEMMA CommitSubmitKeepsTInv ==
    ASSUME TInv, NEW s \in Sessions, CommitSubmit(s)
    PROVE  TInv'
<1> DEFINE p == sess[s].plan
           messages == SubmitMessages(Submitted(s))
<1>1. /\ sess[s].pc = "ready" /\ End(s)
      /\ plan' = [plan EXCEPT ![p] = Submitted(s)]
      /\ outbox' = [outbox EXCEPT ![p] = Append(@, messages)]
      /\ UNCHANGED <<items, scopeStatus, decisions, work, audit>>
      /\ p \in Plans
  BY DEF CommitSubmit, TInv, SessionsKnow
<1>2. /\ Submitted(s) \in PlanRow /\ KnownRow(Submitted(s)) /\ messages \in SUBSET Message
  BY <1>1, SubmittedType
<1>3. /\ plan' \in [Plans -> PlanRow] /\ RowsKnown'
      /\ \A q \in Plans : Exists(q) => plan'[q].status # "NONE"
  BY <1>1, <1>2, RowWritten
<1>4. sess' \in [Sessions -> Session] /\ SessionsKnow'
  BY <1>1, <1>3, EndKeepsSessions
<1> HIDE DEF p, messages
<1>5. outbox' \in [Plans -> Seq(SUBSET Message)]
  BY <1>1, <1>2 DEF TInv, TypeOK
<1> QED
  BY <1>1, <1>3, <1>4, <1>5 DEF TInv, TypeOK

\* What a decision writes: the row, the approvals row, the audit event.
LEMMA DecisionType ==
    ASSUME TInv, NEW s \in Sessions, sess[s].pc = "locked",
           NEW d \in {"APPROVED", "REJECTED"}
    PROVE  /\ sess[s].plan \in Plans
           /\ Decided(s, d) \in PlanRow
           /\ KnownRow(Decided(s, d))
           /\ DecidedBy(s, d) \in Decision
           /\ AuditOf(s, d) \in AuditEvent
<1>1. /\ sess[s].plan \in Plans /\ sess[s].actor \in Members
      /\ plan[sess[s].plan] \in PlanRow /\ KnownRow(plan[sess[s].plan])
      /\ sess[s].row \in PlanRow /\ sess[s].row.status # "NONE"
      /\ sess[s].row.version + 1 \in Nat /\ sess[s].row.version \in Nat
  BY DEF TInv, TypeOK, SessionsKnow, RowsKnown, KnownRow, Session, PlanRow
<1>2. /\ Decided(s, d) \in PlanRow /\ KnownRow(Decided(s, d))
      /\ Decided(s, d).status = d /\ Decided(s, d).version \in Nat
  BY <1>1 DEF Decided, PlanRow, KnownRow, Statuses, OpenStatuses
<1>3. DecidedBy(s, d) \in Decision
  BY <1>1 DEF DecidedBy, Decision, PlanRow
<1>4. AuditOf(s, d) \in AuditEvent
  BY <1>1, <1>2 DEF AuditOf, AuditEvent, DecisionAction, PlanRow, Statuses, OpenStatuses
<1> QED
  BY <1>1, <1>2, <1>3, <1>4

\* Every message of a decision has a recipient: items without an assignee stop
\* the approval first.
LEMMA DecisionMessagesType ==
    ASSUME TInv, NEW s \in Sessions, sess[s].pc = "locked",
           NEW t \in {"PLAN_APPROVED", "PLAN_REJECTED"}
    PROVE  DecisionMessages(s, t) \in SUBSET Message
<1>1. sess[s].row.creator \in Members
  BY DEF TInv, SessionsKnow, KnownRow
<1> QED
  BY <1>1, EnqueueType DEF DecisionMessages

LEMMA AssignmentsType ==
    ASSUME TInv, NEW s \in Sessions, CanMaterialise(s)
    PROVE  Assignments(sess[s].content) \in SUBSET Message
<1>1. \A t \in sess[s].content : t.proposal.assignee \in Members /\ t.item \in Items
  BY DEF CanMaterialise, TInv, TypeOK, Session, Task, Proposal
<1> QED
  BY <1>1, EnqueueType DEF Assignments

LEMMA CommitApproveKeepsTInv ==
    ASSUME TInv, NEW s \in Sessions, CommitApprove(s)
    PROVE  TInv'
<1> DEFINE p == sess[s].plan
           row == Decided(s, "APPROVED")
           made == DecidedBy(s, "APPROVED")
           event == AuditOf(s, "APPROVED")
           tasks == sess[s].content
           messages == Assignments(tasks) \union DecisionMessages(s, "PLAN_APPROVED")
<1>1. /\ sess[s].pc = "locked" /\ End(s) /\ CanMaterialise(s)
      /\ plan' = [plan EXCEPT ![p] = row]
      /\ decisions' = [decisions EXCEPT ![p] = Append(@, made)]
      /\ work' = [work EXCEPT ![p] = Append(@, tasks)]
      /\ outbox' = [outbox EXCEPT ![p] = Append(@, messages)]
      /\ audit' = [audit EXCEPT ![p] = Append(@, event)]
      /\ UNCHANGED <<items, scopeStatus>>
  BY DEF CommitApprove
<1>2. /\ p \in Plans /\ row \in PlanRow /\ KnownRow(row)
      /\ made \in Decision /\ event \in AuditEvent
  BY <1>1, DecisionType
<1>3. tasks \in SUBSET Task
  BY DEF TInv, TypeOK, Session
<1>4. messages \in SUBSET Message
  BY <1>1, DecisionMessagesType, AssignmentsType
<1>5. /\ plan' \in [Plans -> PlanRow] /\ RowsKnown'
      /\ \A q \in Plans : Exists(q) => plan'[q].status # "NONE"
  BY <1>1, <1>2, RowWritten
<1>6. sess' \in [Sessions -> Session] /\ SessionsKnow'
  BY <1>1, <1>5, EndKeepsSessions
<1> HIDE DEF p, row, made, event, tasks, messages
<1>7. /\ decisions' \in [Plans -> Seq(Decision)]
      /\ work' \in [Plans -> Seq(SUBSET Task)]
  BY <1>1, <1>2, <1>3 DEF TInv, TypeOK
<1>8. /\ outbox' \in [Plans -> Seq(SUBSET Message)]
      /\ audit' \in [Plans -> Seq(AuditEvent)]
  BY <1>1, <1>2, <1>4 DEF TInv, TypeOK
<1> QED
  BY <1>1, <1>5, <1>6, <1>7, <1>8 DEF TInv, TypeOK

LEMMA CommitRejectKeepsTInv ==
    ASSUME TInv, NEW s \in Sessions, CommitReject(s)
    PROVE  TInv'
<1> DEFINE p == sess[s].plan
           row == Decided(s, "REJECTED")
           made == DecidedBy(s, "REJECTED")
           event == AuditOf(s, "REJECTED")
           messages == DecisionMessages(s, "PLAN_REJECTED")
<1>1. /\ sess[s].pc = "locked" /\ End(s)
      /\ plan' = [plan EXCEPT ![p] = row]
      /\ decisions' = [decisions EXCEPT ![p] = Append(@, made)]
      /\ outbox' = [outbox EXCEPT ![p] = Append(@, messages)]
      /\ audit' = [audit EXCEPT ![p] = Append(@, event)]
      /\ UNCHANGED <<items, scopeStatus, work>>
  BY DEF CommitReject
<1>2. /\ p \in Plans /\ row \in PlanRow /\ KnownRow(row)
      /\ made \in Decision /\ event \in AuditEvent
  BY <1>1, DecisionType
<1>3. messages \in SUBSET Message
  BY <1>1, DecisionMessagesType
<1>4. /\ plan' \in [Plans -> PlanRow] /\ RowsKnown'
      /\ \A q \in Plans : Exists(q) => plan'[q].status # "NONE"
  BY <1>1, <1>2, RowWritten
<1>5. sess' \in [Sessions -> Session] /\ SessionsKnow'
  BY <1>1, <1>4, EndKeepsSessions
<1> HIDE DEF p, row, made, event, messages
<1>6. /\ decisions' \in [Plans -> Seq(Decision)]
      /\ outbox' \in [Plans -> Seq(SUBSET Message)]
      /\ audit' \in [Plans -> Seq(AuditEvent)]
  BY <1>1, <1>2, <1>3 DEF TInv, TypeOK
<1> QED
  BY <1>1, <1>4, <1>5, <1>6 DEF TInv, TypeOK

LEMMA CancelScopeKeepsTInv ==
    ASSUME TInv, NEW w \in Scopes, CancelScope(w)
    PROVE  TInv'
<1>1. /\ scopeStatus' = [scopeStatus EXCEPT ![w] = "CANCELLED"]
      /\ UNCHANGED <<plan, items, decisions, work, outbox, audit, sess>>
  BY DEF CancelScope
<1>2. TypeOK'
  BY <1>1 DEF TInv, TypeOK
<1>3. RowsKnown' /\ SessionsKnow'
  BY <1>1 DEF TInv, RowsKnown, SessionsKnow, Exists
<1> QED
  BY <1>2, <1>3 DEF TInv

-----------------------------------------------------------------------------
LEMMA StepKeepsTInv == TInv /\ [Next]_vars => TInv'
<1> SUFFICES ASSUME TInv, [Next]_vars PROVE TInv'
  OBVIOUS
<1>1. ASSUME NEW s \in Sessions, Create(s)
      PROVE  TInv'
  BY <1>1, LoadScopeKeepsTInv, CommitCreateKeepsTInv DEF Create
<1>2. ASSUME NEW s \in Sessions, Edit(s)
      PROVE  TInv'
  BY <1>2, LoadPlanKeepsTInv, LoadItemKeepsTInv, CommitAddKeepsTInv, CommitUpdateKeepsTInv,
     CommitRemoveKeepsTInv DEF Edit
<1>3. ASSUME NEW s \in Sessions, Submit(s)
      PROVE  TInv'
  BY <1>3, ValidateKeepsTInv, CommitSubmitKeepsTInv DEF Submit
<1>4. ASSUME NEW s \in Sessions, Decide(s)
      PROVE  TInv'
  <2>1. CASE TurnAway(s)
    BY <2>1, EndKeepsTInv DEF TurnAway
  <2>2. CASE ~ TurnAway(s)
    BY <1>4, <2>2, ViewKeepsTInv, ViewItemsKeepsTInv, LockKeepsTInv, LockBlindKeepsTInv,
       CommitApproveKeepsTInv, CommitRejectKeepsTInv DEF Decide
  <2> QED
    BY <2>1, <2>2
<1>5. ASSUME NEW s \in Sessions, Fail(s) \/ Crash(s)
      PROVE  TInv'
  BY <1>5, EndKeepsTInv DEF Fail, Crash
<1>6. ASSUME NEW w \in Scopes, CancelScope(w)
      PROVE  TInv'
  BY <1>6, CancelScopeKeepsTInv
<1>7. CASE UNCHANGED vars
  BY <1>7 DEF TInv, TypeOK, RowsKnown, SessionsKnow, Exists, vars
<1> QED
  BY <1>1, <1>2, <1>3, <1>4, <1>5, <1>6, <1>7 DEF Next

\* However many requests overlap, every row has the types of its columns: no
\* plan is without an author, no message without a recipient.
THEOREM TypeCorrect == Spec => []TypeOK
<1>1. TInv => TypeOK
  BY DEF TInv
<1> QED
  BY <1>1, InitTInv, StepKeepsTInv, PTL DEF Spec

-----------------------------------------------------------------------------
(***************************************************************************)
(* Approved once.  The argument does not need the row lock: the tables     *)
(* alone enforce it.  approved_at_matches_status ties approved_at to the   *)
(* status, nobody ever clears approved_at, and the unique index lets one   *)
(* approval through.  So a stale request can move a plan's status only     *)
(* while approved_at is empty, that is, while nothing was approved.        *)
(***************************************************************************)

\* approved_at, the approvals and the tasks of a plan agree.
StampAgrees ==
    \A p \in Plans :
        /\ (plan[p].status = "APPROVED") <=> plan[p].approvedAt
        /\ ~ plan[p].approvedAt => ApprovalsOf(p) = {} /\ Len(work[p]) = 0
        /\ plan[p].approvedAt => (\E k \in Nat : ApprovalsOf(p) = {k}) /\ Len(work[p]) = 1

\* What a step may do to a plan: nothing an approval depends on ...
LeftAlone(p) ==
    /\ plan'[p].approvedAt = plan[p].approvedAt
    /\ plan'[p].status = "APPROVED" <=> plan[p].status = "APPROVED"
    /\ decisions'[p] = decisions[p]
    /\ work'[p] = work[p]
    /\ plan[p].status = "APPROVED" => outbox'[p] = outbox[p]

\* ... or decide it, for the first time.
DecidedNow(p, d) ==
    /\ ~ plan[p].approvedAt
    /\ OneApprovalIndex(p)
    /\ plan'[p].status = d
    /\ plan'[p].approvedAt <=> d = "APPROVED"
    /\ \E made \in Decision : /\ made.decision = d
                              /\ decisions'[p] = Append(decisions[p], made)
    /\ IF d = "APPROVED" THEN \E tasks \in SUBSET Task : work'[p] = Append(work[p], tasks)
                         ELSE work'[p] = work[p]

PlanStep(p) == LeftAlone(p) \/ DecidedNow(p, "APPROVED") \/ DecidedNow(p, "REJECTED")

LEMMA TablesUntouched ==
    ASSUME UNCHANGED <<plan, decisions, work, outbox>>, NEW q \in Plans
    PROVE  PlanStep(q)
BY DEF PlanStep, LeftAlone

LEMMA TouchLeavesAlone ==
    ASSUME TInv, NEW s \in Sessions, plan' = Touched(s),
           UNCHANGED <<decisions, work, outbox>>, NEW q \in Plans
    PROVE  PlanStep(q)
<1> DEFINE v == sess[s].row.version + 1
<1>1. plan' = [plan EXCEPT ![sess[s].plan].version = v]
  BY DEF Touched
<1> HIDE DEF v
<1>2. plan'[q].status = plan[q].status /\ plan'[q].approvedAt = plan[q].approvedAt
  BY <1>1 DEF TInv, TypeOK, PlanRow
<1> QED
  BY <1>2 DEF PlanStep, LeftAlone

LEMMA CommitCreateStep ==
    ASSUME TInv, StampAgrees, NEW s \in Sessions, NEW p \in Plans, CommitCreate(s, p),
           NEW q \in Plans
    PROVE  PlanStep(q)
<1>1. /\ plan' = [plan EXCEPT ![p] = sess[s].row] /\ sess[s].row.status = "DRAFT"
      /\ plan[p].status = "NONE" /\ sess[s].row \in PlanRow
      /\ RowChecks(sess[s].row) /\ UNCHANGED <<decisions, work, outbox>>
  BY DEF CommitCreate, RowMayBeWritten, Exists, TInv, TypeOK, SessionsKnow, Session
<1>2. sess[s].row.approvedAt = FALSE /\ plan[p].approvedAt = FALSE
  BY <1>1 DEF RowChecks, StampAgrees, PlanRow, TInv, TypeOK
<1>3. plan'[q] = IF q = p THEN sess[s].row ELSE plan[q]
  BY <1>1 DEF TInv, TypeOK
<1> QED
  BY <1>1, <1>2, <1>3 DEF PlanStep, LeftAlone

\* Sending again a plan that was approved meanwhile would leave approved_at on
\* a pending plan, which the table refuses.
LEMMA CommitSubmitStep ==
    ASSUME TInv, StampAgrees, NEW s \in Sessions, CommitSubmit(s), NEW q \in Plans
    PROVE  PlanStep(q)
<1> DEFINE p == sess[s].plan
           row == Submitted(s)
<1>1. /\ plan' = [plan EXCEPT ![p] = row] /\ RowChecks(row)
      /\ outbox' = [outbox EXCEPT ![p] = Append(@, SubmitMessages(row))]
      /\ UNCHANGED <<decisions, work>> /\ p \in Plans
  BY DEF CommitSubmit, RowMayBeWritten, TInv, SessionsKnow
<1>2. row.status = "PENDING_APPROVAL" /\ row.approvedAt = plan[p].approvedAt
  BY <1>1 DEF Submitted, TInv, TypeOK, PlanRow
<1> HIDE DEF p, row
<1>3. plan[p].approvedAt = FALSE
  BY <1>1, <1>2 DEF RowChecks, TInv, TypeOK, PlanRow
<1>4. /\ plan'[q] = IF q = p THEN row ELSE plan[q]
      /\ q # p => outbox'[q] = outbox[q]
  BY <1>1 DEF TInv, TypeOK
<1>5. plan[p].status # "APPROVED"
  BY <1>1, <1>3 DEF StampAgrees
<1> QED
  BY <1>1, <1>2, <1>3, <1>4, <1>5 DEF PlanStep, LeftAlone

LEMMA CommitApproveStep ==
    ASSUME TInv, StampAgrees, NEW s \in Sessions, CommitApprove(s), NEW q \in Plans
    PROVE  PlanStep(q)
<1> DEFINE p == sess[s].plan
           row == Decided(s, "APPROVED")
           made == DecidedBy(s, "APPROVED")
           tasks == sess[s].content
           messages == Assignments(tasks) \union DecisionMessages(s, "PLAN_APPROVED")
<1>1. /\ sess[s].pc = "locked" /\ OneApprovalIndex(p)
      /\ plan' = [plan EXCEPT ![p] = row]
      /\ decisions' = [decisions EXCEPT ![p] = Append(@, made)]
      /\ work' = [work EXCEPT ![p] = Append(@, tasks)]
      /\ outbox' = [outbox EXCEPT ![p] = Append(@, messages)]
  BY DEF CommitApprove
<1>2. p \in Plans /\ made \in Decision /\ made.decision = "APPROVED"
  BY <1>1, DecisionType DEF DecidedBy
<1>3. row.status = "APPROVED" /\ row.approvedAt
  <2>1. plan[p] \in PlanRow
    BY <1>2 DEF TInv, TypeOK
  <2>2. row.status = "APPROVED" /\ row.approvedAt = (plan[p].approvedAt \/ "APPROVED" = "APPROVED")
    BY <2>1 DEF Decided, PlanRow
  <2> QED
    BY <2>2
<1>4. tasks \in SUBSET Task
  BY DEF TInv, TypeOK, Session
<1>5. plan[p].approvedAt = FALSE
  <2>1. ApprovalsOf(p) = {}
    BY <1>1 DEF ApprovalsOf, OneApprovalIndex
  <2> QED
    BY <1>2, <2>1, ZenonT(30) DEF StampAgrees, TInv, TypeOK, PlanRow
<1> HIDE DEF p, row, made, tasks, messages
<1>6. CASE q = p
  <2>1. /\ plan'[p] = row
        /\ decisions'[p] = Append(decisions[p], made)
        /\ work'[p] = Append(work[p], tasks)
    BY <1>1, <1>2 DEF TInv, TypeOK
  <2>2. DecidedNow(p, "APPROVED")
    BY <1>1, <1>2, <1>3, <1>4, <1>5, <2>1 DEF DecidedNow
  <2> QED
    BY <1>6, <2>2 DEF PlanStep
<1>7. CASE q # p
  BY <1>1, <1>7 DEF PlanStep, LeftAlone, TInv, TypeOK
<1> QED
  BY <1>6, <1>7

LEMMA CommitRejectStep ==
    ASSUME TInv, StampAgrees, NEW s \in Sessions, CommitReject(s), NEW q \in Plans
    PROVE  PlanStep(q)
<1> DEFINE p == sess[s].plan
           row == Decided(s, "REJECTED")
           made == DecidedBy(s, "REJECTED")
           messages == DecisionMessages(s, "PLAN_REJECTED")
<1>1. /\ sess[s].pc = "locked" /\ RowChecks(row)
      /\ plan' = [plan EXCEPT ![p] = row]
      /\ decisions' = [decisions EXCEPT ![p] = Append(@, made)]
      /\ outbox' = [outbox EXCEPT ![p] = Append(@, messages)]
      /\ UNCHANGED work
  BY DEF CommitReject, RowMayBeWritten
<1>2. p \in Plans /\ made \in Decision /\ made.decision = "REJECTED"
  BY <1>1, DecisionType DEF DecidedBy
<1>3. row.status = "REJECTED" /\ row.approvedAt = plan[p].approvedAt
  BY <1>2 DEF Decided, TInv, TypeOK, PlanRow
<1> HIDE DEF p, row, made, messages
<1>4. plan[p].approvedAt = FALSE
  BY <1>1, <1>2, <1>3 DEF RowChecks, TInv, TypeOK, PlanRow
<1>5. OneApprovalIndex(p)
  BY <1>2, <1>4 DEF StampAgrees, ApprovalsOf, OneApprovalIndex
<1>6. CASE q = p
  <2>1. /\ plan'[p] = row
        /\ decisions'[p] = Append(decisions[p], made)
        /\ work'[p] = work[p]
    BY <1>1, <1>2 DEF TInv, TypeOK
  <2>2. DecidedNow(p, "REJECTED")
    BY <1>2, <1>3, <1>4, <1>5, <2>1 DEF DecidedNow
  <2> QED
    BY <1>6, <2>2 DEF PlanStep
<1>7. CASE q # p
  BY <1>1, <1>7 DEF PlanStep, LeftAlone, TInv, TypeOK
<1> QED
  BY <1>6, <1>7

\* Whatever a request does, to any plan.
LEMMA EveryStepIsAPlanStep ==
    ASSUME TInv, StampAgrees, [Next]_vars, NEW q \in Plans
    PROVE  PlanStep(q)
<1>1. ASSUME NEW s \in Sessions, Create(s)
      PROVE  PlanStep(q)
  BY <1>1, TablesUntouched, CommitCreateStep DEF Create, LoadScope, tables
<1>2. ASSUME NEW s \in Sessions, Edit(s)
      PROVE  PlanStep(q)
  <2>1. ASSUME NEW i \in Items, NEW proposal \in Proposals, CommitAdd(s, i, proposal)
        PROVE  PlanStep(q)
    BY <2>1, TouchLeavesAlone DEF CommitAdd
  <2>2. ASSUME NEW patch \in Patches, CommitUpdate(s, patch)
        PROVE  PlanStep(q)
    BY <2>2, TouchLeavesAlone DEF CommitUpdate
  <2>3. CASE CommitRemove(s)
    BY <2>3, TouchLeavesAlone DEF CommitRemove
  <2> QED
    BY <1>2, <2>1, <2>2, <2>3, TablesUntouched DEF Edit, LoadPlan, LoadItem, tables
<1>3. ASSUME NEW s \in Sessions, Submit(s)
      PROVE  PlanStep(q)
  BY <1>3, TablesUntouched, CommitSubmitStep DEF Submit, Validate, tables
<1>4. ASSUME NEW s \in Sessions, Decide(s)
      PROVE  PlanStep(q)
  BY <1>4, TablesUntouched, CommitApproveStep, CommitRejectStep
     DEF Decide, View, ViewItems, Lock, LockBlind, TurnAway, tables
<1>5. ASSUME NEW s \in Sessions, Fail(s) \/ Crash(s)
      PROVE  PlanStep(q)
  BY <1>5, TablesUntouched DEF Fail, Crash, tables
<1>6. ASSUME NEW w \in Scopes, CancelScope(w)
      PROVE  PlanStep(q)
  BY <1>6, TablesUntouched DEF CancelScope
<1>7. CASE UNCHANGED vars
  BY <1>7, TablesUntouched DEF vars
<1> QED
  BY <1>1, <1>2, <1>3, <1>4, <1>5, <1>6, <1>7 DEF Next

-----------------------------------------------------------------------------
LEMMA AppendedDecision ==
    ASSUME NEW old \in Seq(Decision), NEW made \in Decision, NEW new,
           new = Append(old, made)
    PROVE  {k \in DOMAIN new : new[k].decision = "APPROVED"}
             = {k \in DOMAIN old : old[k].decision = "APPROVED"}
               \union (IF made.decision = "APPROVED" THEN {Len(old) + 1} ELSE {})
<1>1. /\ DOMAIN new = DOMAIN old \union {Len(old) + 1}
      /\ \A k \in DOMAIN old : new[k] = old[k]
      /\ new[Len(old) + 1] = made
      /\ Len(old) + 1 \notin DOMAIN old
  OBVIOUS
<1> QED
  BY <1>1

LEMMA StepKeepsStampAgrees ==
    ASSUME TInv, StampAgrees, [Next]_vars
    PROVE  StampAgrees'
<1> SUFFICES ASSUME NEW p \in Plans
             PROVE  /\ (plan'[p].status = "APPROVED") <=> plan'[p].approvedAt
                    /\ ~ plan'[p].approvedAt => ApprovalsOf(p)' = {} /\ Len(work'[p]) = 0
                    /\ plan'[p].approvedAt => /\ \E k \in Nat : ApprovalsOf(p)' = {k}
                                              /\ Len(work'[p]) = 1
  BY DEF StampAgrees
<1>1. CASE LeftAlone(p)
  BY <1>1 DEF LeftAlone, StampAgrees, ApprovalsOf
<1>2. ASSUME NEW d \in {"APPROVED", "REJECTED"}, DecidedNow(p, d)
      PROVE  /\ plan'[p].approvedAt <=> d = "APPROVED"
             /\ plan'[p].status = d
             /\ ApprovalsOf(p)' = IF d = "APPROVED" THEN {Len(decisions[p]) + 1} ELSE {}
             /\ Len(work'[p]) = IF d = "APPROVED" THEN 1 ELSE 0
             /\ Len(decisions[p]) + 1 \in Nat
  <2>1. PICK made \in Decision : /\ made.decision = d
                                 /\ decisions'[p] = Append(decisions[p], made)
    BY <1>2 DEF DecidedNow
  <2>2. decisions[p] \in Seq(Decision) /\ work[p] \in Seq(SUBSET Task)
    BY DEF TInv, TypeOK
  <2>3. ApprovalsOf(p) = {} /\ Len(work[p]) = 0
    BY <1>2 DEF DecidedNow, StampAgrees
  <2>4. ApprovalsOf(p)' = IF d = "APPROVED" THEN {Len(decisions[p]) + 1} ELSE {}
    BY <2>1, <2>2, <2>3, AppendedDecision DEF ApprovalsOf
  <2>5. Len(work'[p]) = IF d = "APPROVED" THEN 1 ELSE 0
    BY <1>2, <2>2, <2>3 DEF DecidedNow
  <2> QED
    BY <1>2, <2>2, <2>4, <2>5 DEF DecidedNow
<1> QED
  BY <1>1, <1>2, EveryStepIsAPlanStep DEF PlanStep

LEMMA InitStampAgrees == Init => StampAgrees
BY DEF Init, StampAgrees, NoRow, ApprovalsOf

LEMMA StampMeansOnce == StampAgrees => ApprovedOnce
BY FS_EmptySet, FS_Singleton DEF StampAgrees, ApprovedOnce

\* A plan is approved at most once, and its status, its approval and the tasks
\* made from it stand or fall together, whatever requests overlap
\* (approve_plan, line 85 of approval.py, over the constraints of the tables).
THEOREM ApprovedOnceHolds == Spec => []ApprovedOnce
<1>1. TInv /\ StampAgrees /\ [Next]_vars => (TInv /\ StampAgrees)'
  BY StepKeepsTInv, StepKeepsStampAgrees
<1> QED
  BY <1>1, InitTInv, InitStampAgrees, StampMeansOnce, PTL DEF Spec

\* An approval cannot be taken back or repeated by any request still in flight:
\* neither by an edit or a submission that read the plan before it, nor by a
\* second decision.
THEOREM ApprovedIsFinalHolds == Spec => ApprovedIsFinal
<1> DEFINE Final == \A p \in Plans : plan[p].status = "APPROVED" =>
                        /\ plan'[p].status = "APPROVED"
                        /\ work'[p] = work[p]
                        /\ decisions'[p] = decisions[p]
                        /\ outbox'[p] = outbox[p]
<1>1. TInv /\ StampAgrees /\ [Next]_vars => (TInv /\ StampAgrees)'
  BY StepKeepsTInv, StepKeepsStampAgrees
<1>2. TInv /\ StampAgrees /\ [Next]_vars => Final
  BY EveryStepIsAPlanStep DEF PlanStep, LeftAlone, DecidedNow, StampAgrees
<1> QED
  BY <1>1, <1>2, InitTInv, InitStampAgrees, PTL DEF Spec, ApprovedIsFinal
=============================================================================
