---------------------- MODULE DelegationPlans_decisions ----------------------
(***************************************************************************)
(* More theorems about DelegationPlans for every value of its constants:   *)
(* a responsibility has one open plan, the audit trail agrees with the     *)
(* approvals, whoever decides a plan is its approver, who was told, and    *)
(* approving does all that it promises.                                    *)
(***************************************************************************)
EXTENDS DelegationPlans_proofs

USE DEF MaybeMember

-----------------------------------------------------------------------------
(***************************************************************************)
(* One open plan per responsibility.  The partial index looks at committed *)
(* rows when a row is created, submitted or decided; edits write back the  *)
(* status and the scope the row already has.                               *)
(***************************************************************************)

\* A row the index accepts does not share its responsibility.
LEMMA IndexedRowKeepsSlots ==
    ASSUME TInv, OneOpenPlanPerScope, NEW p \in Plans, NEW row,
           OneOpenIndex(p, row), plan' = [plan EXCEPT ![p] = row]
    PROVE  OneOpenPlanPerScope'
<1>1. \A q \in Plans : plan'[q] = IF q = p THEN row ELSE plan[q]
  BY DEF TInv, TypeOK
<1> QED
  BY <1>1 DEF OneOpenPlanPerScope, OneOpenIndex

\* Writing other columns, of any plan, takes no slot.
LEMMA OtherColumnsKeepSlots ==
    ASSUME OneOpenPlanPerScope,
           \A q \in Plans : plan'[q].status = plan[q].status /\ plan'[q].scope = plan[q].scope
    PROVE  OneOpenPlanPerScope'
BY DEF OneOpenPlanPerScope

LEMMA TouchKeepsSlots ==
    ASSUME TInv, OneOpenPlanPerScope, NEW s \in Sessions, plan' = Touched(s)
    PROVE  OneOpenPlanPerScope'
<1> DEFINE v == sess[s].row.version + 1
<1>1. plan' = [plan EXCEPT ![sess[s].plan].version = v]
  BY DEF Touched
<1> HIDE DEF v
<1>2. \A q \in Plans : plan'[q].status = plan[q].status /\ plan'[q].scope = plan[q].scope
  BY <1>1 DEF TInv, TypeOK, PlanRow
<1> QED
  BY <1>2, OtherColumnsKeepSlots

LEMMA SamePlansKeepSlots ==
    ASSUME OneOpenPlanPerScope, UNCHANGED plan
    PROVE  OneOpenPlanPerScope'
BY OtherColumnsKeepSlots

LEMMA StepKeepsSlots ==
    ASSUME TInv, OneOpenPlanPerScope, [Next]_vars
    PROVE  OneOpenPlanPerScope'
<1>1. ASSUME NEW s \in Sessions, Create(s)
      PROVE  OneOpenPlanPerScope'
  <2>1. ASSUME NEW p \in Plans, CommitCreate(s, p)
        PROVE  OneOpenPlanPerScope'
    BY <2>1, IndexedRowKeepsSlots DEF CommitCreate, RowMayBeWritten
  <2> QED
    BY <1>1, <2>1, SamePlansKeepSlots DEF Create, LoadScope, tables
<1>2. ASSUME NEW s \in Sessions, Edit(s)
      PROVE  OneOpenPlanPerScope'
  BY <1>2, TouchKeepsSlots, SamePlansKeepSlots
     DEF Edit, CommitAdd, CommitUpdate, CommitRemove, LoadPlan, LoadItem, tables
<1>3. ASSUME NEW s \in Sessions, Submit(s)
      PROVE  OneOpenPlanPerScope'
  <2>1. CASE CommitSubmit(s)
    <3>1. /\ plan' = [plan EXCEPT ![sess[s].plan] = Submitted(s)]
          /\ OneOpenIndex(sess[s].plan, Submitted(s)) /\ sess[s].plan \in Plans
      BY <2>1 DEF CommitSubmit, RowMayBeWritten, TInv, SessionsKnow
    <3> QED
      BY <3>1, IndexedRowKeepsSlots
  <2> QED
    BY <1>3, <2>1, SamePlansKeepSlots DEF Submit, Validate, tables
<1>4. ASSUME NEW s \in Sessions, Decide(s)
      PROVE  OneOpenPlanPerScope'
  <2>1. ASSUME NEW d, plan' = [plan EXCEPT ![sess[s].plan] = Decided(s, d)],
               OneOpenIndex(sess[s].plan, Decided(s, d)), sess[s].pc = "locked"
        PROVE  OneOpenPlanPerScope'
    BY <2>1, IndexedRowKeepsSlots DEF TInv, SessionsKnow
  <2> QED
    BY <1>4, <2>1, SamePlansKeepSlots
       DEF Decide, CommitApprove, CommitReject, RowMayBeWritten,
           View, ViewItems, Lock, LockBlind, TurnAway, tables
<1>5. ASSUME NEW s \in Sessions, Fail(s) \/ Crash(s)
      PROVE  OneOpenPlanPerScope'
  BY <1>5, SamePlansKeepSlots DEF Fail, Crash, tables
<1>6. ASSUME NEW w \in Scopes, CancelScope(w)
      PROVE  OneOpenPlanPerScope'
  BY <1>6, SamePlansKeepSlots DEF CancelScope
<1>7. CASE UNCHANGED vars
  BY <1>7, SamePlansKeepSlots DEF vars
<1> QED
  BY <1>1, <1>2, <1>3, <1>4, <1>5, <1>6, <1>7 DEF Next

\* No responsibility ever has two plans open at once, however creations,
\* submissions and decisions overlap (the partial unique index of
\* delegation_plans, models/delegation.py:121).
THEOREM OneOpenPlanPerScopeHolds == Spec => []OneOpenPlanPerScope
<1>1. Init => OneOpenPlanPerScope
  BY DEF Init, OneOpenPlanPerScope, NoRow, OpenStatuses
<1>2. TInv /\ OneOpenPlanPerScope /\ [Next]_vars => (TInv /\ OneOpenPlanPerScope)'
  BY StepKeepsTInv, StepKeepsSlots
<1> QED
  BY <1>1, <1>2, InitTInv, PTL DEF Spec

-----------------------------------------------------------------------------
(***************************************************************************)
(* The audit trail.  A decision records what its request read under the    *)
(* row lock, which TookPending says was a pending plan.                    *)
(***************************************************************************)

\* Whoever holds the lock of a plan read it pending, and may decide it.
TookPending ==
    \A s \in Sessions : sess[s].pc = "locked" =>
        /\ sess[s].row.status = "PENDING_APPROVAL"
        /\ Can(sess[s].actor, DecisionAction(sess[s].op), SubjectOf(sess[s].row))

\* A session that is not locked after the step says nothing about locks.
LEMMA OthersKeepTookPending ==
    ASSUME TInv, TookPending, NEW s \in Sessions, NEW fields,
           sess' = [sess EXCEPT ![s] = fields], fields.pc # "locked"
    PROVE  TookPending'
<1>1. \A r \in Sessions : sess'[r] = IF r = s THEN fields ELSE sess[r]
  BY DEF TInv, TypeOK
<1> QED
  BY <1>1 DEF TookPending, Can, Rule, DecidePlanRule, SubjectOf, PlanSubject, OrgOfPlan

LEMMA EndKeepsTookPending ==
    ASSUME TInv, TookPending, NEW s \in Sessions, End(s)
    PROVE  TookPending'
<1>1. sess' = [sess EXCEPT ![s] = Idle] /\ Idle.pc # "locked"
  BY DEF End, Idle
<1> HIDE DEF Idle
<1> QED
  BY <1>1, OthersKeepTookPending

\* The lock is granted to a request that MayDecide.
LEMMA LockingTakesPending ==
    ASSUME TInv, TookPending, NEW s \in Sessions, NEW p \in Plans, NEW session \in Session,
           NEW e, sess' = [sess EXCEPT ![s] = Locked(session, p)],
           MayDecide(session.actor, session.op, plan[p], e)
    PROVE  TookPending'
<1>1. /\ Locked(session, p).row = plan[p]
      /\ Locked(session, p).actor = session.actor
      /\ Locked(session, p).op = session.op
  BY DEF Locked, Session
<1>2. \A r \in Sessions : sess'[r] = IF r = s THEN Locked(session, p) ELSE sess[r]
  BY DEF TInv, TypeOK
<1>3. /\ plan[p].status = "PENDING_APPROVAL"
      /\ Can(session.actor, DecisionAction(session.op), SubjectOf(plan[p]))
  BY DEF MayDecide, RequirePending
<1> QED
  BY <1>1, <1>2, <1>3
     DEF TookPending


LEMMA DecideKeepsTookPending ==
    ASSUME TInv, TookPending, NEW s \in Sessions, Decide(s)
    PROVE  TookPending'
<1>1. ASSUME NEW actor \in Members, NEW p \in Plans, NEW op \in Ops, View(s, actor, p, op)
      PROVE  TookPending'
  <2> DEFINE fields == [Idle EXCEPT !.pc = "viewing", !.op = op, !.actor = actor,
                                    !.plan = p, !.row = plan[p]]
  <2>1. sess' = [sess EXCEPT ![s] = fields] /\ fields.pc = "viewing"
    BY <1>1 DEF View, Begin, Idle
  <2> HIDE DEF fields
  <2> QED
    BY <2>1, OthersKeepTookPending
<1>2. CASE ViewItems(s)
  <2> DEFINE fields == [sess[s] EXCEPT !.pc = "asked", !.expected = sess[s].row.version,
                                       !.row = NoRow, !.shown = Contents(sess[s].plan)]
  <2>1. sess' = [sess EXCEPT ![s] = fields]
    BY <1>2 DEF ViewItems
  <2>2. fields.pc = "asked"
    BY DEF TInv, TypeOK, Session
  <2> HIDE DEF fields
  <2> QED
    BY <2>1, <2>2, OthersKeepTookPending
<1>3. ASSUME NEW actor \in Members, NEW p \in Plans, NEW op \in Ops, LockBlind(s, actor, p, op)
      PROVE  TookPending'
  <2> DEFINE q == [Idle EXCEPT !.op = op, !.actor = actor]
  <2>1. q \in Session /\ q.actor = actor /\ q.op = op
    BY IdleType DEF Idle, Session
  <2>2. /\ sess' = [sess EXCEPT ![s] = Locked(q, p)]
        /\ MayDecide(actor, op, plan[p], AnyVersion)
    BY <1>3 DEF LockBlind, Begin
  <2> HIDE DEF q
  <2> QED
    BY <2>1, <2>2, LockingTakesPending
<1>4. CASE Lock(s)
  <2>1. /\ sess' = [sess EXCEPT ![s] = Locked(sess[s], sess[s].plan)]
        /\ MayDecide(sess[s].actor, sess[s].op, plan[sess[s].plan], sess[s].expected)
        /\ sess[s].plan \in Plans /\ sess[s] \in Session
    BY <1>4 DEF Lock, TInv, TypeOK, SessionsKnow
  <2> QED
    BY <2>1, LockingTakesPending
<1>5. CASE TurnAway(s) \/ CommitApprove(s) \/ CommitReject(s)
  BY <1>5, EndKeepsTookPending DEF TurnAway, CommitApprove, CommitReject
<1> QED
  BY <1>1, <1>2, <1>3, <1>4, <1>5 DEF Decide

LEMMA StepKeepsTookPending ==
    ASSUME TInv, TookPending, [Next]_vars
    PROVE  TookPending'
<1>1. ASSUME NEW s \in Sessions, Create(s)
      PROVE  TookPending'
  <2>1. ASSUME NEW actor \in Members, NEW w \in Scopes, LoadScope(s, actor, w)
        PROVE  TookPending'
    <3> DEFINE fields == [Idle EXCEPT !.pc = "ready", !.op = "create",
                            !.row = [NoRow EXCEPT !.status = "DRAFT", !.scope = w,
                                                  !.creator = actor, !.version = 1]]
    <3>1. sess' = [sess EXCEPT ![s] = fields] /\ fields.pc = "ready"
      BY <2>1 DEF LoadScope, Begin, Idle
    <3> HIDE DEF fields
    <3> QED
      BY <3>1, OthersKeepTookPending
  <2> QED
    BY <1>1, <2>1, EndKeepsTookPending DEF Create, CommitCreate
<1>2. ASSUME NEW s \in Sessions, Edit(s)
      PROVE  TookPending'
  <2>1. ASSUME NEW actor \in Members, NEW p \in Plans, NEW op \in Ops, LoadPlan(s, actor, p, op)
        PROVE  TookPending'
    <3> DEFINE fields == [Idle EXCEPT !.pc = IF op = "add" THEN "ready" ELSE "loaded",
                                      !.op = op, !.plan = p, !.row = plan[p]]
    <3>1. sess' = [sess EXCEPT ![s] = fields] /\ fields.pc # "locked"
      BY <2>1 DEF LoadPlan, Begin, Idle
    <3> HIDE DEF fields
    <3> QED
      BY <3>1, OthersKeepTookPending
  <2>2. ASSUME NEW i \in Items, LoadItem(s, i)
        PROVE  TookPending'
    <3> DEFINE fields == [sess[s] EXCEPT !.pc = "ready", !.item = i,
                            !.old = IF sess[s].op = "update" THEN items[i].proposal ELSE @]
    <3>1. sess' = [sess EXCEPT ![s] = fields]
      BY <2>2 DEF LoadItem
    <3>2. fields.pc = "ready"
      BY DEF TInv, TypeOK, Session
    <3> HIDE DEF fields
    <3> QED
      BY <3>1, <3>2, OthersKeepTookPending
  <2> QED
    BY <1>2, <2>1, <2>2, EndKeepsTookPending DEF Edit, CommitAdd, CommitUpdate, CommitRemove
<1>3. ASSUME NEW s \in Sessions, Submit(s)
      PROVE  TookPending'
  <2>1. CASE Validate(s)
    <3> DEFINE fields == [sess[s] EXCEPT !.pc = "ready"]
    <3>1. sess' = [sess EXCEPT ![s] = fields]
      BY <2>1 DEF Validate
    <3>2. fields.pc = "ready"
      BY DEF TInv, TypeOK, Session
    <3> HIDE DEF fields
    <3> QED
      BY <3>1, <3>2, OthersKeepTookPending
  <2> QED
    BY <1>3, <2>1, EndKeepsTookPending DEF Submit, CommitSubmit
<1>4. ASSUME NEW s \in Sessions, Fail(s) \/ Crash(s)
      PROVE  TookPending'
  BY <1>4, EndKeepsTookPending DEF Fail, Crash
<1>5. ASSUME UNCHANGED sess
      PROVE  TookPending'
  BY <1>5 DEF TookPending, Can, Rule, DecidePlanRule, SubjectOf, PlanSubject, OrgOfPlan
<1> QED
  BY <1>1, <1>2, <1>3, <1>4, <1>5, DecideKeepsTookPending DEF Next, CancelScope, vars

\* An event and the decision it is about.
OneStory(event, made) ==
    /\ event.by = made.by
    /\ event.before = <<"PENDING_APPROVAL", made.version>>
    /\ event.after = <<made.decision, made.version + 1>>

Audited(p) ==
    /\ Len(audit[p]) = Len(decisions[p])
    /\ \A k \in DOMAIN audit[p] : OneStory(audit[p][k], decisions[p][k])

LEMMA AuditedMeansAgrees == AuditAgrees <=> \A p \in Plans : Audited(p)
BY DEF AuditAgrees, Audited, OneStory

\* A decision and its audit event are written together, from the same read.
LEMMA DecisionIsAudited ==
    ASSUME TInv, TookPending, NEW s \in Sessions, \A q \in Plans : Audited(q),
           NEW d \in {"APPROVED", "REJECTED"}, sess[s].pc = "locked",
           decisions' = [decisions EXCEPT ![sess[s].plan] = Append(@, DecidedBy(s, d))],
           audit' = [audit EXCEPT ![sess[s].plan] = Append(@, AuditOf(s, d))],
           NEW q \in Plans
    PROVE  Audited(q)'
<1> DEFINE p == sess[s].plan
           made == DecidedBy(s, d)
           event == AuditOf(s, d)
<1>1. /\ made.decision = d /\ made.by = sess[s].actor /\ made.version = sess[s].row.version
      /\ made \in Decision /\ p \in Plans
  BY DecisionType DEF DecidedBy
<1>2. Decided(s, d).status = d /\ Decided(s, d).version = sess[s].row.version + 1
  BY <1>1 DEF Decided, TInv, TypeOK, PlanRow
<1>3. OneStory(event, made)
  BY <1>1, <1>2 DEF AuditOf, TookPending, OneStory
<1>4. /\ audit[p] \in Seq(AuditEvent) /\ decisions[p] \in Seq(Decision)
      /\ audit'[p] = Append(audit[p], event) /\ decisions'[p] = Append(decisions[p], made)
      /\ q # p => audit'[q] = audit[q] /\ decisions'[q] = decisions[q]
  BY <1>1 DEF TInv, TypeOK
<1> HIDE DEF p, made, event
<1>5. CASE q = p
  <2>1. /\ Len(audit[p]) = Len(decisions[p])
        /\ \A k \in 1..Len(audit[p]) : OneStory(audit[p][k], decisions[p][k])
    BY <1>1, <1>4 DEF Audited
  <2>2. /\ Len(audit'[p]) = Len(audit[p]) + 1
        /\ \A k \in 1..Len(audit[p]) : audit'[p][k] = audit[p][k]
        /\ audit'[p][Len(audit[p]) + 1] = event
        /\ DOMAIN audit'[p] = 1..(Len(audit[p]) + 1)
        /\ Len(audit[p]) \in Nat
    BY <1>4
  <2>3. /\ Len(decisions'[p]) = Len(decisions[p]) + 1
        /\ \A k \in 1..Len(decisions[p]) : decisions'[p][k] = decisions[p][k]
        /\ decisions'[p][Len(decisions[p]) + 1] = made
    BY <1>4
  <2>4. \A k \in 1..(Len(audit[p]) + 1) : OneStory(audit'[p][k], decisions'[p][k])
    BY <1>3, <2>1, <2>2, <2>3
  <2> QED
    BY <1>5, <2>1, <2>2, <2>3, <2>4 DEF Audited
<1>6. CASE q # p
  BY <1>4, <1>6 DEF Audited
<1> QED
  BY <1>5, <1>6

LEMMA NothingDecided ==
    ASSUME NEW q \in Plans, Audited(q), UNCHANGED <<decisions, audit>>
    PROVE  Audited(q)'
BY DEF Audited, OneStory

LEMMA StepKeepsAudited ==
    ASSUME TInv, TookPending, \A q \in Plans : Audited(q), [Next]_vars, NEW q \in Plans
    PROVE  Audited(q)'
<1>1. ASSUME NEW s \in Sessions, Create(s) \/ Edit(s)
      PROVE  Audited(q)'
  BY <1>1, NothingDecided DEF Create, LoadScope, CommitCreate,
     Edit, LoadPlan, LoadItem, CommitAdd, CommitUpdate, CommitRemove, tables
<1>2. ASSUME NEW s \in Sessions, Submit(s) \/ Fail(s) \/ Crash(s)
      PROVE  Audited(q)'
  BY <1>2, NothingDecided DEF Submit, Validate, CommitSubmit, Fail, Crash, tables
<1>3. ASSUME NEW s \in Sessions, Decide(s)
      PROVE  Audited(q)'
  <2>1. CASE CommitApprove(s)
    BY <2>1, DecisionIsAudited DEF CommitApprove
  <2>2. CASE CommitReject(s)
    BY <2>2, DecisionIsAudited DEF CommitReject
  <2> QED
    BY <1>3, <2>1, <2>2, NothingDecided DEF Decide, View, ViewItems, Lock, LockBlind, TurnAway, tables
<1>4. ASSUME UNCHANGED <<decisions, audit>>
      PROVE  Audited(q)'
  BY <1>4, NothingDecided
<1> QED
  BY <1>1, <1>2, <1>3, <1>4 DEF Next, CancelScope, vars

\* The audit trail and the approvals tell one story, whatever requests overlap
\* (the AuditEvent of approve_plan and of reject_plan, approval.py).
THEOREM AuditAgreesHolds == Spec => []AuditAgrees
<1> DEFINE AllAudited == \A q \in Plans : Audited(q)
<1>1. Init => TookPending /\ AllAudited
  BY DEF Init, TookPending, Audited, Idle
<1>2. TInv /\ TookPending /\ AllAudited /\ [Next]_vars => (TInv /\ TookPending /\ AllAudited)'
  BY StepKeepsTInv, StepKeepsTookPending, StepKeepsAudited
<1>3. AllAudited => AuditAgrees
  BY AuditedMeansAgrees
<1> QED
  BY <1>1, <1>2, <1>3, InitTInv, PTL DEF Spec

-----------------------------------------------------------------------------
(***************************************************************************)
(* Decided by the approver, who was told.  An approver is only ever named  *)
(* by a submission, which tells it, and the name is a function of the      *)
(* plan's creator: a stale submission writes it again, never another.      *)
(***************************************************************************)

Told(p) ==
    \E n \in DOMAIN outbox[p] :
        \E m \in outbox[p][n] : m.type = "PLAN_SUBMITTED" /\ m.to = plan[p].approver

\* What holds of every plan ...
Named(p) ==
    /\ ~ Exists(p) => plan[p].approver = NoMember
    /\ plan[p].approver \in {NoMember, ApproverFor(plan[p].creator)}
    /\ plan[p].approver \notin {NoMember, plan[p].creator} => Told(p)
    /\ decisions[p] # <<>> => plan[p].approver # NoMember
    /\ \A k \in DOMAIN decisions[p] :
          decisions[p][k].by \in {plan[p].approver} \union Superadmins

\* ... and of every request that has read a row of one.
RowRead(s) ==
    /\ sess[s].plan \in Plans
    /\ sess[s].pc \in {"loaded", "ready", "locked"}

ReadNamed(s) ==
    /\ sess[s].pc = "ready" /\ sess[s].op = "create" => sess[s].row.approver = NoMember
    /\ RowRead(s) => /\ sess[s].row.creator = plan[sess[s].plan].creator
                     /\ sess[s].row.approver \in {NoMember, ApproverFor(sess[s].row.creator)}

\* What a step may do to a plan: leave what names and tells its approver, ...
SameName(p) ==
    /\ plan'[p].approver = plan[p].approver
    /\ plan'[p].creator = plan[p].creator
    /\ Exists(p) <=> Exists(p)'
    /\ UNCHANGED <<decisions[p], outbox[p]>>

\* ... draft it, ...
DraftedNow(p) ==
    /\ ~ Exists(p) /\ Exists(p)'
    /\ plan'[p].approver = NoMember
    /\ UNCHANGED <<decisions[p], outbox[p]>>

\* ... send it, ...
SentNow(p) ==
    /\ Exists(p) /\ Exists(p)'
    /\ plan'[p].creator = plan[p].creator
    /\ plan'[p].approver = ApproverFor(plan[p].creator)
    /\ outbox'[p] = Append(outbox[p], SubmitMessages(plan'[p]))
    /\ UNCHANGED decisions[p]

\* ... or decide it.
DecidedByNamed(p) ==
    /\ Exists(p) /\ Exists(p)'
    /\ plan'[p].creator = plan[p].creator
    /\ plan'[p].approver = plan[p].approver
    /\ plan[p].approver # NoMember
    /\ \E made \in Decision : /\ decisions'[p] = Append(decisions[p], made)
                              /\ made.by \in {plan[p].approver} \union Superadmins
    /\ \E messages \in SUBSET Message : outbox'[p] = Append(outbox[p], messages)

NameStep(p) == SameName(p) \/ DraftedNow(p) \/ SentNow(p) \/ DecidedByNamed(p)

\* A message once written stays.
LEMMA StaysTold ==
    ASSUME TInv, NEW p \in Plans, Told(p), NEW messages,
           outbox'[p] = Append(outbox[p], messages), plan'[p].approver = plan[p].approver
    PROVE  Told(p)'
<1>1. outbox[p] \in Seq(SUBSET Message)
  BY DEF TInv, TypeOK
<1>2. \A n \in DOMAIN outbox[p] : n \in DOMAIN outbox'[p] /\ outbox'[p][n] = outbox[p][n]
  BY <1>1
<1> QED
  BY <1>2 DEF Told

LEMMA NameStepKeepsNamed ==
    ASSUME TInv, NEW p \in Plans, Named(p), NameStep(p)
    PROVE  Named(p)'
<1>1. CASE SameName(p)
  BY <1>1 DEF SameName, Named, Told
<1>2. CASE DraftedNow(p)
  BY <1>2 DEF DraftedNow, Named, Told
<1>3. CASE SentNow(p)
  <2> DEFINE row == plan'[p]
  <2>1. CASE row.approver = row.creator
    BY <1>3, <2>1 DEF SentNow, Named, RowsKnown, KnownRow, TInv
  <2>2. CASE row.approver # row.creator
    <3>1. SubmitMessages(row) = {Enqueue("PLAN_SUBMITTED", row.approver, NoItem)}
      BY <2>2 DEF SubmitMessages
    <3>2. /\ outbox'[p][Len(outbox[p]) + 1] = SubmitMessages(row)
          /\ Len(outbox[p]) + 1 \in DOMAIN outbox'[p]
      <4>1. outbox[p] \in Seq(SUBSET Message) /\ outbox'[p] = Append(outbox[p], SubmitMessages(row))
        BY <1>3 DEF SentNow, TInv, TypeOK
      <4> HIDE DEF row
      <4> QED
        BY <4>1
    <3>3. Told(p)'
      <4> DEFINE m == Enqueue("PLAN_SUBMITTED", row.approver, NoItem)
                 n == Len(outbox[p]) + 1
      <4>1. m.type = "PLAN_SUBMITTED" /\ m.to = plan'[p].approver
        BY DEF Enqueue
      <4>2. n \in DOMAIN outbox'[p] /\ m \in outbox'[p][n]
        BY <3>1, <3>2
      <4> HIDE DEF m, n
      <4> QED
        BY <4>1, <4>2 DEF Told
    <3> QED
      BY <1>3, <3>3 DEF SentNow, Named
  <2> QED
    BY <2>1, <2>2
<1>4. CASE DecidedByNamed(p)
  <2>1. PICK made \in Decision : /\ decisions'[p] = Append(decisions[p], made)
                                 /\ made.by \in {plan[p].approver} \union Superadmins
    BY <1>4 DEF DecidedByNamed
  <2>2. /\ \A k \in DOMAIN decisions'[p] :
              IF k \in DOMAIN decisions[p] THEN decisions'[p][k] = decisions[p][k]
                                           ELSE decisions'[p][k] = made
    BY <2>1 DEF TInv, TypeOK
  <2>3. Told(p) => Told(p)'
    BY <1>4, StaysTold DEF DecidedByNamed
  <2> QED
    BY <1>4, <2>1, <2>2, <2>3 DEF DecidedByNamed, Named
<1> QED
  BY <1>1, <1>2, <1>3, <1>4 DEF NameStep

\* The same for requests: a plan keeps its creator, so what was read stays right.
LEMMA ReadStaysNamed ==
    ASSUME TInv, \A p \in Plans : NameStep(p),
           NEW s \in Sessions, ReadNamed(s), sess'[s] = sess[s]
    PROVE  ReadNamed(s)'
<1>1. RowRead(s) => plan'[sess[s].plan].creator = plan[sess[s].plan].creator
  BY DEF RowRead, TInv, SessionsKnow, NameStep, SameName, DraftedNow, SentNow, DecidedByNamed
<1> QED
  BY <1>1 DEF ReadNamed, RowRead

\* A request that holds no row has nothing to be wrong about.
LEMMA NoRowNamed ==
    ASSUME NEW s \in Sessions, sess'[s].pc \notin {"loaded", "ready", "locked"}
    PROVE  ReadNamed(s)'
BY DEF ReadNamed, RowRead

LEMMA EndKeepsReadNamed ==
    ASSUME TInv, \A p \in Plans : NameStep(p), \A r \in Sessions : ReadNamed(r),
           NEW s \in Sessions, End(s), NEW r \in Sessions
    PROVE  ReadNamed(r)'
<1>1. sess'[r] = IF r = s THEN Idle ELSE sess[r]
  BY DEF End, TInv, TypeOK
<1>2. Idle.pc = "idle"
  BY DEF Idle
<1> QED
  BY <1>1, <1>2, ReadStaysNamed, NoRowNamed

\* A request that has just read the row of p.
LEMMA ReadingIsNamed ==
    ASSUME TInv, \A p \in Plans : Named(p), \A p \in Plans : NameStep(p),
           \A r \in Sessions : ReadNamed(r),
           NEW s \in Sessions, NEW p \in Plans, NEW fields, UNCHANGED plan,
           sess' = [sess EXCEPT ![s] = fields], fields.plan = p, fields.row = plan[p],
           fields.pc = "ready" => fields.op # "create",
           NEW r \in Sessions
    PROVE  ReadNamed(r)'
<1>1. sess'[r] = IF r = s THEN fields ELSE sess[r]
  BY DEF TInv, TypeOK
<1> QED
  BY <1>1, ReadStaysNamed DEF ReadNamed, RowRead, Named

\* A request that goes on with the row it has read, or drops it.
LEMMA GoingOnIsNamed ==
    ASSUME TInv, \A p \in Plans : NameStep(p), \A r \in Sessions : ReadNamed(r),
           NEW s \in Sessions, NEW fields, UNCHANGED plan,
           sess' = [sess EXCEPT ![s] = fields],
           fields.plan = sess[s].plan /\ fields.op = sess[s].op,
           fields.pc \in {"ready", "asked"},
           fields.pc = "ready" => /\ fields.row = sess[s].row /\ sess[s].op # "create"
                                  /\ sess[s].pc = "loaded",
           NEW r \in Sessions
    PROVE  ReadNamed(r)'
<1>1. sess'[r] = IF r = s THEN fields ELSE sess[r]
  BY DEF TInv, TypeOK
<1> QED
  BY <1>1, ReadStaysNamed DEF ReadNamed, RowRead

LEMMA UntouchedNameStep ==
    ASSUME UNCHANGED <<plan, decisions, outbox>>
    PROVE  \A p \in Plans : NameStep(p)
BY DEF NameStep, SameName, Exists

LEMMA TouchNameStep ==
    ASSUME TInv, NEW s \in Sessions, plan' = Touched(s), UNCHANGED <<decisions, outbox>>
    PROVE  \A p \in Plans : NameStep(p)
<1> DEFINE v == sess[s].row.version + 1
<1>1. plan' = [plan EXCEPT ![sess[s].plan].version = v]
  BY DEF Touched
<1> HIDE DEF v
<1>2. \A p \in Plans : /\ plan'[p].status = plan[p].status
                       /\ plan'[p].approver = plan[p].approver
                       /\ plan'[p].creator = plan[p].creator
  BY <1>1 DEF TInv, TypeOK, PlanRow
<1> QED
  BY <1>2 DEF NameStep, SameName, Exists

LEMMA CreateNameStep ==
    ASSUME TInv, NEW s \in Sessions, ReadNamed(s), NEW q \in Plans, CommitCreate(s, q)
    PROVE  \A p \in Plans : NameStep(p)
<1>1. /\ plan' = [plan EXCEPT ![q] = sess[s].row] /\ UNCHANGED <<decisions, outbox>>
      /\ ~ Exists(q) /\ sess[s].row.approver = NoMember /\ KnownRow(sess[s].row)
  BY DEF CommitCreate, ReadNamed, TInv, SessionsKnow
<1>2. \A p \in Plans : plan'[p] = IF p = q THEN sess[s].row ELSE plan[p]
  BY <1>1 DEF TInv, TypeOK
<1> QED
  BY <1>1, <1>2 DEF NameStep, SameName, DraftedNow, Exists, KnownRow

LEMMA SubmitNameStep ==
    ASSUME TInv, NEW s \in Sessions, ReadNamed(s), CommitSubmit(s)
    PROVE  \A p \in Plans : NameStep(p)
<1> DEFINE q == sess[s].plan
           row == Submitted(s)
<1>1. /\ q \in Plans /\ Exists(q) /\ sess[s].row.creator = plan[q].creator
      /\ plan' = [plan EXCEPT ![q] = row]
      /\ outbox' = [outbox EXCEPT ![q] = Append(@, SubmitMessages(row))]
      /\ UNCHANGED decisions
  BY DEF CommitSubmit, ReadNamed, RowRead, TInv, SessionsKnow
<1>2. /\ row.status = "PENDING_APPROVAL" /\ row.creator = plan[q].creator
      /\ row.approver = ApproverFor(plan[q].creator)
  BY <1>1 DEF Submitted, TInv, TypeOK, PlanRow
<1> HIDE DEF q, row
<1>3. \A p \in Plans : /\ plan'[p] = IF p = q THEN row ELSE plan[p]
                       /\ outbox'[p] = IF p = q THEN Append(outbox[p], SubmitMessages(row))
                                                ELSE outbox[p]
  BY <1>1 DEF TInv, TypeOK
<1> QED
  BY <1>1, <1>2, <1>3 DEF NameStep, SameName, SentNow, Exists

\* Whoever holds the lock may decide, and so is the approver or an administrator.
LEMMA DeciderIsNamed ==
    ASSUME TInv, TookPending, NEW s \in Sessions, ReadNamed(s), sess[s].pc = "locked",
           \A p \in Plans : Named(p), plan[sess[s].plan].approver # NoMember
    PROVE  sess[s].actor \in {plan[sess[s].plan].approver} \union Superadmins
<1>1. /\ sess[s].actor \in Members /\ sess[s].plan \in Plans
      /\ DecisionAction(sess[s].op) \in {"APPROVE_PLAN", "REJECT_PLAN"}
  BY DEF TInv, SessionsKnow, DecisionAction
<1>2. \/ sess[s].actor \in Superadmins
      \/ sess[s].row.approver = sess[s].actor
  BY <1>1 DEF TookPending, Can, Rule, DecidePlanRule, SubjectOf, PlanSubject
<1>3. sess[s].row.approver \in {NoMember, ApproverFor(plan[sess[s].plan].creator)}
  BY <1>1 DEF ReadNamed, RowRead
<1> QED
  BY <1>1, <1>2, <1>3, NoMemberAssumption DEF Named

LEMMA DecideNameStep ==
    ASSUME TInv, TookPending, NEW s \in Sessions, ReadNamed(s), \A p \in Plans : Named(p),
           sess[s].pc = "locked", NEW d \in {"APPROVED", "REJECTED"},
           RowChecks(Decided(s, d)), NEW messages \in SUBSET Message,
           plan' = [plan EXCEPT ![sess[s].plan] = Decided(s, d)],
           decisions' = [decisions EXCEPT ![sess[s].plan] = Append(@, DecidedBy(s, d))],
           outbox' = [outbox EXCEPT ![sess[s].plan] = Append(@, messages)]
    PROVE  \A p \in Plans : NameStep(p)
<1> DEFINE q == sess[s].plan
           row == Decided(s, d)
           made == DecidedBy(s, d)
<1>1. /\ q \in Plans /\ Exists(q) /\ made \in Decision /\ made.by = sess[s].actor
  BY DecisionType DEF TInv, SessionsKnow, DecidedBy
<1>2. /\ row.status = d /\ row.creator = plan[q].creator /\ row.approver = plan[q].approver
  BY <1>1 DEF Decided, TInv, TypeOK, PlanRow
<1>3. plan[q].approver # NoMember
  BY <1>2 DEF RowChecks
<1>4. made.by \in {plan[q].approver} \union Superadmins
  BY <1>1, <1>3, DeciderIsNamed
<1> HIDE DEF q, row, made
<1>5. /\ plan'[q] = row
      /\ decisions'[q] = Append(decisions[q], made)
      /\ outbox'[q] = Append(outbox[q], messages)
  BY <1>1 DEF TInv, TypeOK, q, row, made
<1>6. \A p \in Plans \ {q} :
        plan'[p] = plan[p] /\ decisions'[p] = decisions[p] /\ outbox'[p] = outbox[p]
  BY DEF TInv, TypeOK, q
<1>7. ASSUME NEW p \in Plans, p = q
      PROVE  DecidedByNamed(p)
  <2>1. /\ plan'[p] = row
        /\ decisions'[p] = Append(decisions[p], made)
        /\ outbox'[p] = Append(outbox[p], messages)
    BY <1>5, <1>7
  <2>2. Exists(p) /\ Exists(p)'
    BY <1>1, <1>2, <1>7, <2>1 DEF Exists
  <2> QED
    BY <1>1, <1>2, <1>3, <1>4, <1>7, <2>1, <2>2 DEF DecidedByNamed
<1>8. ASSUME NEW p \in Plans, p # q
      PROVE  SameName(p)
  BY <1>6, <1>8 DEF SameName, Exists
<1> QED
  BY <1>7, <1>8 DEF NameStep

\* Every step of the system, for plans and for requests.
NamedInv ==
    /\ \A p \in Plans : Named(p)
    /\ \A s \in Sessions : ReadNamed(s)

Stepped ==
    /\ \A p \in Plans : NameStep(p)
    /\ \A s \in Sessions : ReadNamed(s)'

LEMMA EditStepped ==
    ASSUME TInv, NamedInv, NEW s \in Sessions, Edit(s)
    PROVE  Stepped
<1>1. ASSUME NEW actor \in Members, NEW p \in Plans, NEW op \in Ops, LoadPlan(s, actor, p, op)
      PROVE  Stepped
  <2> DEFINE fields == [Idle EXCEPT !.pc = IF op = "add" THEN "ready" ELSE "loaded",
                                    !.op = op, !.plan = p, !.row = plan[p]]
  <2>1. /\ sess' = [sess EXCEPT ![s] = fields] /\ UNCHANGED <<plan, decisions, outbox>>
        /\ fields.plan = p /\ fields.row = plan[p] /\ fields.op = op /\ op # "create"
    BY <1>1 DEF LoadPlan, Begin, Idle, tables
  <2> HIDE DEF fields
  <2> QED
    BY <2>1, UntouchedNameStep, ReadingIsNamed DEF Stepped, NamedInv
<1>2. ASSUME NEW i \in Items, LoadItem(s, i)
      PROVE  Stepped
  <2> DEFINE fields == [sess[s] EXCEPT !.pc = "ready", !.item = i,
                          !.old = IF sess[s].op = "update" THEN items[i].proposal ELSE @]
  <2>1. /\ sess' = [sess EXCEPT ![s] = fields] /\ UNCHANGED <<plan, decisions, outbox>>
        /\ sess[s].pc = "loaded" /\ sess[s].op # "create" /\ sess[s] \in Session
    BY <1>2 DEF LoadItem, tables, TInv, TypeOK
  <2>2. /\ fields.pc = "ready" /\ fields.plan = sess[s].plan
        /\ fields.op = sess[s].op /\ fields.row = sess[s].row
    BY <2>1 DEF Session
  <2> HIDE DEF fields
  <2> QED
    BY <2>1, <2>2, UntouchedNameStep, GoingOnIsNamed DEF Stepped, NamedInv
<1>3. ASSUME plan' = Touched(s), UNCHANGED <<decisions, outbox>>, End(s)
      PROVE  Stepped
  BY <1>3, TouchNameStep, EndKeepsReadNamed DEF Stepped, NamedInv
<1> QED
  BY <1>1, <1>2, <1>3 DEF Edit, CommitAdd, CommitUpdate, CommitRemove

LEMMA SubmitStepped ==
    ASSUME TInv, NamedInv, NEW s \in Sessions, Submit(s)
    PROVE  Stepped
<1>1. CASE Validate(s)
  <2> DEFINE fields == [sess[s] EXCEPT !.pc = "ready"]
  <2>1. /\ sess' = [sess EXCEPT ![s] = fields] /\ UNCHANGED <<plan, decisions, outbox>>
        /\ sess[s].pc = "loaded" /\ sess[s].op # "create" /\ sess[s] \in Session
    BY <1>1 DEF Validate, tables, TInv, TypeOK
  <2>2. /\ fields.pc = "ready" /\ fields.plan = sess[s].plan
        /\ fields.op = sess[s].op /\ fields.row = sess[s].row
    BY <2>1 DEF Session
  <2> HIDE DEF fields
  <2> QED
    BY <2>1, <2>2, UntouchedNameStep, GoingOnIsNamed DEF Stepped, NamedInv
<1>2. CASE CommitSubmit(s)
  BY <1>2, SubmitNameStep, EndKeepsReadNamed DEF CommitSubmit, Stepped, NamedInv
<1> QED
  BY <1>1, <1>2 DEF Submit

LEMMA CreateStepped ==
    ASSUME TInv, NamedInv, NEW s \in Sessions, Create(s)
    PROVE  Stepped
<1>1. ASSUME NEW actor \in Members, NEW w \in Scopes, LoadScope(s, actor, w)
      PROVE  Stepped
  <2> DEFINE fields == [Idle EXCEPT !.pc = "ready", !.op = "create",
                          !.row = [NoRow EXCEPT !.status = "DRAFT", !.scope = w,
                                                !.creator = actor, !.version = 1]]
  <2>1. /\ sess' = [sess EXCEPT ![s] = fields] /\ UNCHANGED <<plan, decisions, outbox>>
        /\ fields.plan = NoPlan /\ fields.row.approver = NoMember
    BY <1>1 DEF LoadScope, Begin, Idle, NoRow, tables
  <2> HIDE DEF fields
  <2>2. \A r \in Sessions : sess'[r] = IF r = s THEN fields ELSE sess[r]
    BY <2>1 DEF TInv, TypeOK
  <2>3. \A p \in Plans : NameStep(p)
    BY <2>1, UntouchedNameStep
  <2>4. ReadNamed(s)'
    BY <2>1, <2>2, PlansAssumption DEF ReadNamed, RowRead
  <2> QED
    BY <2>2, <2>3, <2>4, ReadStaysNamed DEF Stepped, NamedInv
<1>2. ASSUME NEW p \in Plans, CommitCreate(s, p)
      PROVE  Stepped
  BY <1>2, CreateNameStep, EndKeepsReadNamed DEF CommitCreate, Stepped, NamedInv
<1> QED
  BY <1>1, <1>2 DEF Create

LEMMA LockingStepped ==
    ASSUME TInv, NamedInv, NEW s \in Sessions, NEW p \in Plans, NEW session \in Session,
           sess' = [sess EXCEPT ![s] = Locked(session, p)],
           UNCHANGED <<plan, decisions, outbox>>
    PROVE  Stepped
<1>1. /\ Locked(session, p).plan = p /\ Locked(session, p).row = plan[p]
      /\ Locked(session, p).pc = "locked"
  BY DEF Locked, Session
<1> QED
  BY <1>1, UntouchedNameStep, ReadingIsNamed DEF Stepped, NamedInv

LEMMA DecideStepped ==
    ASSUME TInv, TookPending, NamedInv, NEW s \in Sessions, Decide(s)
    PROVE  Stepped
<1>1. ASSUME NEW actor \in Members, NEW p \in Plans, NEW op \in Ops, View(s, actor, p, op)
      PROVE  Stepped
  <2> DEFINE fields == [Idle EXCEPT !.pc = "viewing", !.op = op, !.actor = actor,
                                    !.plan = p, !.row = plan[p]]
  <2>1. /\ sess' = [sess EXCEPT ![s] = fields] /\ UNCHANGED <<plan, decisions, outbox>>
        /\ fields.pc = "viewing" /\ fields.plan = p /\ fields.row = plan[p]
    BY <1>1 DEF View, Begin, Idle, tables
  <2> HIDE DEF fields
  <2> QED
    BY <2>1, UntouchedNameStep, ReadingIsNamed DEF Stepped, NamedInv
<1>2. CASE ViewItems(s)
  <2> DEFINE fields == [sess[s] EXCEPT !.pc = "asked", !.expected = sess[s].row.version,
                                       !.row = NoRow, !.shown = Contents(sess[s].plan)]
  <2>1. sess' = [sess EXCEPT ![s] = fields] /\ UNCHANGED <<plan, decisions, outbox>>
    BY <1>2 DEF ViewItems, tables
  <2>2. fields.pc = "asked" /\ fields.plan = sess[s].plan /\ fields.op = sess[s].op
    BY DEF TInv, TypeOK, Session
  <2> HIDE DEF fields
  <2> QED
    BY <2>1, <2>2, UntouchedNameStep, GoingOnIsNamed DEF Stepped, NamedInv
<1>3. ASSUME NEW actor \in Members, NEW p \in Plans, NEW op \in Ops, LockBlind(s, actor, p, op)
      PROVE  Stepped
  <2> DEFINE q == [Idle EXCEPT !.op = op, !.actor = actor]
  <2>1. q \in Session
    BY IdleType DEF Idle, Session
  <2>2. sess' = [sess EXCEPT ![s] = Locked(q, p)] /\ UNCHANGED <<plan, decisions, outbox>>
    BY <1>3 DEF LockBlind, Begin, tables
  <2> HIDE DEF q
  <2> QED
    BY <2>1, <2>2, LockingStepped
<1>4. CASE Lock(s)
  <2>1. /\ sess' = [sess EXCEPT ![s] = Locked(sess[s], sess[s].plan)]
        /\ UNCHANGED <<plan, decisions, outbox>>
        /\ sess[s].plan \in Plans /\ sess[s] \in Session
    BY <1>4 DEF Lock, tables, TInv, TypeOK, SessionsKnow
  <2> QED
    BY <2>1, LockingStepped
<1>5. CASE TurnAway(s)
  BY <1>5, UntouchedNameStep, EndKeepsReadNamed DEF TurnAway, tables, Stepped, NamedInv
<1>6. CASE CommitApprove(s)
  <2> DEFINE messages == Assignments(sess[s].content) \union DecisionMessages(s, "PLAN_APPROVED")
  <2>1. /\ sess[s].pc = "locked" /\ RowChecks(Decided(s, "APPROVED")) /\ End(s)
        /\ plan' = [plan EXCEPT ![sess[s].plan] = Decided(s, "APPROVED")]
        /\ decisions' = [decisions EXCEPT ![sess[s].plan] = Append(@, DecidedBy(s, "APPROVED"))]
        /\ outbox' = [outbox EXCEPT ![sess[s].plan] = Append(@, messages)]
        /\ CanMaterialise(s)
    BY <1>6 DEF CommitApprove, RowMayBeWritten
  <2>2. messages \in SUBSET Message
    BY <2>1, DecisionMessagesType, AssignmentsType
  <2> HIDE DEF messages
  <2> QED
    BY <2>1, <2>2, DecideNameStep, EndKeepsReadNamed DEF Stepped, NamedInv
<1>7. CASE CommitReject(s)
  <2> DEFINE messages == DecisionMessages(s, "PLAN_REJECTED")
  <2>1. /\ sess[s].pc = "locked" /\ RowChecks(Decided(s, "REJECTED")) /\ End(s)
        /\ plan' = [plan EXCEPT ![sess[s].plan] = Decided(s, "REJECTED")]
        /\ decisions' = [decisions EXCEPT ![sess[s].plan] = Append(@, DecidedBy(s, "REJECTED"))]
        /\ outbox' = [outbox EXCEPT ![sess[s].plan] = Append(@, messages)]
    BY <1>7 DEF CommitReject, RowMayBeWritten
  <2>2. messages \in SUBSET Message
    BY <2>1, DecisionMessagesType
  <2> HIDE DEF messages
  <2> QED
    BY <2>1, <2>2, DecideNameStep, EndKeepsReadNamed DEF Stepped, NamedInv
<1> QED
  BY <1>1, <1>2, <1>3, <1>4, <1>5, <1>6, <1>7 DEF Decide

LEMMA StepKeepsNamed ==
    ASSUME TInv, TookPending, NamedInv, [Next]_vars
    PROVE  NamedInv'
<1>1. ASSUME NEW s \in Sessions, Fail(s) \/ Crash(s)
      PROVE  Stepped
  BY <1>1, UntouchedNameStep, EndKeepsReadNamed DEF Fail, Crash, tables, Stepped, NamedInv
<1>2. ASSUME UNCHANGED <<plan, decisions, outbox, sess>>
      PROVE  Stepped
  BY <1>2, UntouchedNameStep, ReadStaysNamed DEF Stepped, NamedInv
<1>3. Stepped
  BY <1>1, <1>2, CreateStepped, EditStepped, SubmitStepped, DecideStepped
     DEF Next, CancelScope, vars
<1> QED
  BY <1>3, NameStepKeepsNamed DEF Stepped, NamedInv

LEMMA NamedMeansDecidedByApprover ==
    ASSUME TInv, NamedInv
    PROVE  DecidedByApprover
BY DEF NamedInv, Named, Told, DecidedByApprover, TInv, TypeOK

\* Whoever decided a plan was its named approver or an administrator, and an
\* approver other than the creator had been told the plan was waiting, whatever
\* requests overlap (submit_plan's _approver_for and _notify_approver, and the
\* permission check under the lock in approval.py).
THEOREM DecidedByApproverHolds == Spec => []DecidedByApprover
<1>1. Init => TookPending /\ NamedInv
  BY NoMemberAssumption, PlansAssumption
     DEF Init, TookPending, NamedInv, Named, ReadNamed, RowRead, Exists, Idle, NoRow
<1>2. TInv /\ TookPending /\ NamedInv /\ [Next]_vars => (TInv /\ TookPending /\ NamedInv)'
  BY StepKeepsTInv, StepKeepsTookPending, StepKeepsNamed
<1>3. TInv /\ NamedInv => DecidedByApprover
  BY NamedMeansDecidedByApprover
<1> QED
  BY <1>1, <1>2, <1>3, InitTInv, PTL DEF Spec
-----------------------------------------------------------------------------
(***************************************************************************)
(* What approving promises.  DelegationPlans implements ApprovalPromise:   *)
(* every step of every request is an approval as promised, of one plan, or *)
(* leaves all that was promised alone.  And everyone given a task is told  *)
(* of it, once.                                                            *)
(***************************************************************************)

\* The three things promised, as the refinement reads them from the tables.
ApproversOf(p) == {decisions[p][k].by : k \in ApprovalsOf(p)}

\* What a step may do to a plan: none of it ...
PromiseLeft(p) ==
    /\ ApproversOf(p)' = ApproversOf(p)
    /\ TasksOf(p)' = TasksOf(p)
    /\ ToldOf(p)' = ToldOf(p)

\* ... or all of it.
PromiseKept(p, m) ==
    /\ ApproversOf(p) = {} /\ ApproversOf(p)' = {m}
    /\ ToldOf(p)' = TasksOf(p)'

AllLeft == \A q \in Plans : PromiseLeft(q)

OneKept ==
    \E p \in Plans, m \in Members :
        PromiseKept(p, m) /\ \A q \in Plans \ {p} : PromiseLeft(q)

-----------------------------------------------------------------------------
LEMMA RowsUntouched ==
    ASSUME NEW q \in Plans, decisions'[q] = decisions[q], work'[q] = work[q],
           outbox'[q] = outbox[q]
    PROVE  PromiseLeft(q)
BY DEF PromiseLeft, ApproversOf, ApprovalsOf, TasksOf, ToldOf

LEMMA TablesLeft ==
    ASSUME UNCHANGED <<decisions, work, outbox>>
    PROVE  AllLeft
BY RowsUntouched DEF AllLeft

\* Messages other than assignments tell nobody of a task.
LEMMA OtherMessagesTellNothing ==
    ASSUME TInv, NEW p \in Plans, NEW batch \in SUBSET Message,
           \A m \in batch : m.type # "ASSIGNMENT",
           outbox'[p] = Append(outbox[p], batch), work'[p] = work[p]
    PROVE  TasksOf(p)' = TasksOf(p) /\ ToldOf(p)' = ToldOf(p)
<1>1. outbox[p] \in Seq(SUBSET Message)
  BY DEF TInv, TypeOK
<1>2. /\ DOMAIN outbox'[p] = DOMAIN outbox[p] \union {Len(outbox[p]) + 1}
      /\ \A k \in DOMAIN outbox[p] : outbox'[p][k] = outbox[p][k]
      /\ outbox'[p][Len(outbox[p]) + 1] = batch
  BY <1>1
<1>3. TasksOf(p)' = TasksOf(p)
  BY DEF TasksOf
<1>4. ASSUME NEW t
      PROVE  (\E k \in DOMAIN outbox'[p] : \E m \in outbox'[p][k] :
                  m.type = "ASSIGNMENT" /\ m.item = t.item /\ m.to = t.proposal.assignee)
             <=> (\E k \in DOMAIN outbox[p] : \E m \in outbox[p][k] :
                     m.type = "ASSIGNMENT" /\ m.item = t.item /\ m.to = t.proposal.assignee)
  BY <1>2
<1> QED
  BY <1>3, <1>4 DEF ToldOf

\* A submission, to its own plan and to the others.
LEMMA SubmitLeavesPromise ==
    ASSUME TInv, NEW s \in Sessions, CommitSubmit(s)
    PROVE  AllLeft
<1>1. sess[s].plan \in Plans /\ sess[s].pc = "ready"
  BY DEF CommitSubmit, TInv, SessionsKnow
<1>p. PICK p \in Plans : p = sess[s].plan
  BY <1>1
<1>b. PICK batch : batch = SubmitMessages(Submitted(s))
  OBVIOUS
<1>2. /\ outbox' = [outbox EXCEPT ![p] = Append(outbox[p], batch)]
      /\ UNCHANGED <<decisions, work>>
  BY <1>p, <1>b DEF CommitSubmit
<1>3. batch \in SUBSET Message /\ \A m \in batch : m.type # "ASSIGNMENT"
  <2>1. batch \in SUBSET Message
    BY <1>1, <1>b, SubmittedType
  <2>2. \A m \in batch : m.type = "PLAN_SUBMITTED"
    BY <1>b DEF SubmitMessages, Enqueue
  <2> QED
    BY <2>1, <2>2
<1>4. /\ outbox'[p] = Append(outbox[p], batch)
      /\ \A q \in Plans \ {p} : outbox'[q] = outbox[q]
  BY <1>2 DEF TInv, TypeOK
<1>5. PromiseLeft(p)
  <2>1. ApproversOf(p)' = ApproversOf(p)
    BY <1>2 DEF ApproversOf, ApprovalsOf
  <2>2. TasksOf(p)' = TasksOf(p) /\ ToldOf(p)' = ToldOf(p)
    BY <1>2, <1>3, <1>4, OtherMessagesTellNothing
  <2> QED
    BY <2>1, <2>2 DEF PromiseLeft
<1>6. ASSUME NEW q \in Plans \ {p}
      PROVE  PromiseLeft(q)
  BY <1>2, <1>4, RowsUntouched
<1> QED
  BY <1>5, <1>6 DEF AllLeft

\* What a decision appends to a plan's approvals.
LEMMA ApproversAfter ==
    ASSUME TInv, NEW p \in Plans, NEW made \in Decision,
           decisions'[p] = Append(decisions[p], made)
    PROVE  ApproversOf(p)' = ApproversOf(p)
              \union (IF made.decision = "APPROVED" THEN {made.by} ELSE {})
<1>1. decisions[p] \in Seq(Decision)
  BY DEF TInv, TypeOK
<1>2. ApprovalsOf(p)' = ApprovalsOf(p)
         \union (IF made.decision = "APPROVED" THEN {Len(decisions[p]) + 1} ELSE {})
  BY <1>1, AppendedDecision DEF ApprovalsOf
<1>3. /\ \A k \in DOMAIN decisions[p] : decisions'[p][k] = decisions[p][k]
      /\ decisions'[p][Len(decisions[p]) + 1] = made
  BY <1>1
<1>4. ApprovalsOf(p) \subseteq DOMAIN decisions[p]
  BY DEF ApprovalsOf
<1> QED
  BY <1>2, <1>3, <1>4 DEF ApproversOf

LEMMA RejectLeavesPromise ==
    ASSUME TInv, NEW s \in Sessions, CommitReject(s)
    PROVE  AllLeft
<1>1. sess[s].pc = "locked" /\ sess[s].plan \in Plans /\ DecidedBy(s, "REJECTED") \in Decision
  BY DecisionType DEF CommitReject
<1>p. PICK p \in Plans : p = sess[s].plan
  BY <1>1
<1>m. PICK made \in Decision : made = DecidedBy(s, "REJECTED")
  BY <1>1
<1>b. PICK batch : batch = DecisionMessages(s, "PLAN_REJECTED")
  OBVIOUS
<1>2. made.decision = "REJECTED"
  BY <1>m DEF DecidedBy
<1>3. batch \in SUBSET Message /\ \A m \in batch : m.type # "ASSIGNMENT"
  <2>1. batch \in SUBSET Message
    BY <1>1, <1>b, DecisionMessagesType
  <2>2. \A m \in batch : m.type = "PLAN_REJECTED"
    BY <1>b DEF DecisionMessages, Enqueue
  <2> QED
    BY <2>1, <2>2
<1>4. /\ decisions' = [decisions EXCEPT ![p] = Append(decisions[p], made)]
      /\ outbox' = [outbox EXCEPT ![p] = Append(outbox[p], batch)]
      /\ UNCHANGED work
  BY <1>p, <1>m, <1>b DEF CommitReject
<1>5. /\ decisions'[p] = Append(decisions[p], made)
      /\ outbox'[p] = Append(outbox[p], batch)
      /\ \A q \in Plans \ {p} : outbox'[q] = outbox[q] /\ decisions'[q] = decisions[q]
  BY <1>4 DEF TInv, TypeOK
<1>6. PromiseLeft(p)
  <2>1. ApproversOf(p)' = ApproversOf(p)
    BY <1>2, <1>5, ApproversAfter
  <2>2. TasksOf(p)' = TasksOf(p) /\ ToldOf(p)' = ToldOf(p)
    BY <1>3, <1>4, <1>5, OtherMessagesTellNothing
  <2> QED
    BY <2>1, <2>2 DEF PromiseLeft
<1>7. ASSUME NEW q \in Plans \ {p}
      PROVE  PromiseLeft(q)
  BY <1>4, <1>5, RowsUntouched
<1> QED
  BY <1>6, <1>7 DEF AllLeft

\* The unique index admits one approval, and everybody named is told of it.
LEMMA ApproveKeepsPromise ==
    ASSUME TInv, StampAgrees, NEW s \in Sessions, CommitApprove(s)
    PROVE  OneKept
<1>1. /\ sess[s].pc = "locked" /\ sess[s].plan \in Plans /\ sess[s].actor \in Members
      /\ DecidedBy(s, "APPROVED") \in Decision
  BY DecisionType DEF CommitApprove, TInv, SessionsKnow
<1>p. PICK p \in Plans : p = sess[s].plan
  BY <1>1
<1>a. PICK actor \in Members : actor = sess[s].actor
  BY <1>1
<1>m. PICK made \in Decision : made = DecidedBy(s, "APPROVED")
  BY <1>1
<1>c. PICK content : content = sess[s].content
  OBVIOUS
<1>b. PICK batch : batch = Assignments(content) \union DecisionMessages(s, "PLAN_APPROVED")
  OBVIOUS
<1>2. made.decision = "APPROVED" /\ made.by = actor
  BY <1>a, <1>m DEF DecidedBy
<1>3. /\ decisions' = [decisions EXCEPT ![p] = Append(decisions[p], made)]
      /\ work' = [work EXCEPT ![p] = Append(work[p], content)]
      /\ outbox' = [outbox EXCEPT ![p] = Append(outbox[p], batch)]
      /\ OneApprovalIndex(p)
  BY <1>p, <1>m, <1>c, <1>b DEF CommitApprove
<1>t. content \in SUBSET Task /\ batch \in SUBSET Message
  <2>1. content \in SUBSET Task
    BY <1>c DEF TInv, TypeOK, Session
  <2>2. CanMaterialise(s)
    BY DEF CommitApprove
  <2>3. batch \in SUBSET Message
    BY <1>1, <1>b, <1>c, <2>2, AssignmentsType, DecisionMessagesType
  <2> QED
    BY <2>1, <2>3
<1>4. ASSUME NEW t \in content
      PROVE  \E m \in batch :
                m.type = "ASSIGNMENT" /\ m.item = t.item /\ m.to = t.proposal.assignee
  <2> DEFINE m == Enqueue("ASSIGNMENT", t.proposal.assignee, t.item)
  <2>1. m \in batch
    BY <1>b DEF Assignments
  <2>2. m.type = "ASSIGNMENT" /\ m.item = t.item /\ m.to = t.proposal.assignee
    BY DEF Enqueue
  <2> QED
    BY <2>1, <2>2
<1>5. /\ decisions'[p] = Append(decisions[p], made)
      /\ work'[p] = Append(work[p], content)
      /\ outbox'[p] = Append(outbox[p], batch)
      /\ \A q \in Plans \ {p} : /\ outbox'[q] = outbox[q] /\ decisions'[q] = decisions[q]
                                /\ work'[q] = work[q]
  BY <1>3 DEF TInv, TypeOK
<1>6. ApprovalsOf(p) = {} /\ ApproversOf(p) = {}
  BY <1>3 DEF OneApprovalIndex, ApprovalsOf, ApproversOf
<1>7. ApproversOf(p)' = {actor}
  BY <1>2, <1>5, <1>6, ApproversAfter
<1>8. TasksOf(p)' = content
  <2>1. Len(work[p]) = 0
    BY <1>6 DEF StampAgrees
  <2>2. work[p] \in Seq(SUBSET Task)
    BY DEF TInv, TypeOK
  <2>3. DOMAIN work'[p] = {1} /\ work'[p][1] = content
    BY <1>t, <1>5, <2>1, <2>2
  <2>4. {work'[p][k] : k \in DOMAIN work'[p]} = {content}
    BY <2>3
  <2>5. TasksOf(p)' = UNION {content}
    BY <2>4 DEF TasksOf
  <2> QED
    BY <2>5
<1>9. ToldOf(p)' = content
  <2>1. outbox[p] \in Seq(SUBSET Message)
    BY DEF TInv, TypeOK
  <2>2. /\ Len(outbox[p]) + 1 \in DOMAIN outbox'[p]
        /\ outbox'[p][Len(outbox[p]) + 1] = batch
    BY <1>t, <1>5, <2>1
  <2> QED
    BY <1>4, <1>8, <2>2 DEF ToldOf
<1>10. PromiseKept(p, actor)
  BY <1>6, <1>7, <1>8, <1>9 DEF PromiseKept
<1>11. ASSUME NEW q \in Plans \ {p}
       PROVE  PromiseLeft(q)
  BY <1>5, RowsUntouched
<1> QED
  BY <1>10, <1>11 DEF OneKept

\* Whatever a request does.
LEMMA EveryStepAsPromised ==
    ASSUME TInv, StampAgrees, [Next]_vars
    PROVE  AllLeft \/ OneKept
<1>1. ASSUME NEW s \in Sessions, Create(s) \/ Edit(s) \/ Fail(s) \/ Crash(s)
      PROVE  AllLeft
  BY <1>1, TablesLeft
     DEF Create, LoadScope, CommitCreate, Edit, LoadPlan, LoadItem, CommitAdd, CommitUpdate,
         CommitRemove, Fail, Crash, tables
<1>2. ASSUME NEW s \in Sessions, Submit(s)
      PROVE  AllLeft
  BY <1>2, TablesLeft, SubmitLeavesPromise DEF Submit, Validate, tables
<1>3. ASSUME NEW s \in Sessions, Decide(s)
      PROVE  AllLeft \/ OneKept
  BY <1>3, TablesLeft, RejectLeavesPromise, ApproveKeepsPromise
     DEF Decide, View, ViewItems, Lock, LockBlind, TurnAway, tables
<1>4. ASSUME NEW w \in Scopes, CancelScope(w)
      PROVE  AllLeft
  BY <1>4, TablesLeft DEF CancelScope
<1>5. CASE UNCHANGED vars
  BY <1>5, TablesLeft DEF vars
<1> QED
  BY <1>1, <1>2, <1>3, <1>4, <1>5 DEF Next

\* However requests overlap, approve_plan is all or nothing and happens once: the
\* plans implement what approval.py promises (approval.py:1, "all of it or none of
\* it").
THEOREM KeepsPromiseHolds == Spec => KeepsPromise
<1>1. Init => Promise!Init
  <2> SUFFICES ASSUME Init PROVE Promise!Init
    OBVIOUS
  <2>1. \A p \in Plans : decisions[p] = <<>> /\ work[p] = <<>>
    BY DEF Init
  <2>2. \A p \in Plans : /\ {decisions[p][k].by : k \in ApprovalsOf(p)} = {}
                         /\ TasksOf(p) = {} /\ ToldOf(p) = {}
    BY <2>1 DEF ApprovalsOf, TasksOf, ToldOf
  <2> QED
    BY <2>2 DEF Promise!Init
<1>2. TInv /\ StampAgrees /\ [Next]_vars => [Promise!Next]_(Promise!vars)
  <2> SUFFICES ASSUME TInv, StampAgrees, [Next]_vars PROVE [Promise!Next]_(Promise!vars)
    OBVIOUS
  <2>1. CASE AllLeft
    BY <2>1 DEF AllLeft, PromiseLeft, ApproversOf, Promise!vars
  <2>2. CASE OneKept
    <3>1. PICK p \in Plans, m \in Members :
             PromiseKept(p, m) /\ \A q \in Plans \ {p} : PromiseLeft(q)
      BY <2>2 DEF OneKept
    <3>2. Promise!Approve(p, m)
      <4>1. /\ ApproversOf(p) = {} /\ ApproversOf(p)' = {m}
            /\ ToldOf(p)' = TasksOf(p)'
        BY <3>1 DEF PromiseKept
      <4>2. \A q \in Plans : q # p => /\ ApproversOf(q)' = ApproversOf(q)
                                      /\ TasksOf(q)' = TasksOf(q)
                                      /\ ToldOf(q)' = ToldOf(q)
        BY <3>1 DEF PromiseLeft
      <4>3. [q \in Plans |-> ApproversOf(q)][p] = {}
        BY <4>1
      <4>4. [q \in Plans |-> ApproversOf(q)'] = [[q \in Plans |-> ApproversOf(q)] EXCEPT ![p] = {m}]
        BY <4>1, <4>2
      <4>5. [q \in Plans |-> TasksOf(q)']
               = [[q \in Plans |-> TasksOf(q)] EXCEPT ![p] = [q \in Plans |-> TasksOf(q)'][p]]
        BY <4>2
      <4>6. [q \in Plans |-> ToldOf(q)']
               = [[q \in Plans |-> ToldOf(q)] EXCEPT ![p] = [q \in Plans |-> TasksOf(q)'][p]]
        BY <4>1, <4>2
      <4> QED
        BY <4>3, <4>4, <4>5, <4>6 DEF Promise!Approve, ApproversOf
    <3> QED
      BY <3>2 DEF Promise!Next
  <2> QED
    BY <2>1, <2>2, EveryStepAsPromised
<1>3. TInv /\ StampAgrees /\ [Next]_vars => (TInv /\ StampAgrees)'
  BY StepKeepsTInv, StepKeepsStampAgrees
<1> QED
  BY <1>1, <1>2, <1>3, InitTInv, InitStampAgrees, PTL DEF Spec, KeepsPromise, Promise!Spec

-----------------------------------------------------------------------------
(***************************************************************************)
(* Everyone given a task is told of it, once.  An approval turns what its  *)
(* session read under the lock into tasks, and that names every item once. *)
(***************************************************************************)

OnePerItem(tasks) == \A t, u \in tasks : t.item = u.item => t = u

ReadOnce == \A s \in Sessions : OnePerItem(sess[s].content)

\* What a step may leave a session with.
ReadStep(s) ==
    sess'[s].content \in {{}, sess[s].content} \union {Contents(p) : p \in Plans}

LEMMA OneSessionReads ==
    ASSUME TInv, NEW s \in Sessions, NEW fields, sess' = [sess EXCEPT ![s] = fields],
           fields.content \in {{}, sess[s].content} \union {Contents(p) : p \in Plans},
           NEW r \in Sessions
    PROVE  ReadStep(r)
<1>1. sess'[r] = IF r = s THEN fields ELSE sess[r]
  BY DEF TInv, TypeOK
<1> QED
  BY <1>1 DEF ReadStep

LEMMA EndReadsNothing ==
    ASSUME TInv, NEW s \in Sessions, End(s), NEW r \in Sessions
    PROVE  ReadStep(r)
<1>1. sess' = [sess EXCEPT ![s] = Idle] /\ Idle.content = {}
  BY DEF End, Idle
<1> HIDE DEF Idle
<1> QED
  BY <1>1, OneSessionReads

\* A request that begins, or goes on to another place, reads no content.
LEMMA CreateReads ==
    ASSUME TInv, NEW s \in Sessions, Create(s), NEW r \in Sessions
    PROVE  ReadStep(r)
<1>1. ASSUME NEW actor \in Members, NEW w \in Scopes, LoadScope(s, actor, w)
      PROVE  ReadStep(r)
  <2> DEFINE fields == [Idle EXCEPT !.pc = "ready", !.op = "create",
                          !.row = [NoRow EXCEPT !.status = "DRAFT", !.scope = w,
                                                !.creator = actor, !.version = 1]]
  <2>1. sess' = [sess EXCEPT ![s] = fields] /\ fields.content = {}
    BY <1>1 DEF LoadScope, Begin, Idle
  <2> HIDE DEF fields
  <2> QED
    BY <2>1, OneSessionReads
<1> QED
  BY <1>1, EndReadsNothing DEF Create, CommitCreate

LEMMA EditReads ==
    ASSUME TInv, NEW s \in Sessions, Edit(s), NEW r \in Sessions
    PROVE  ReadStep(r)
<1>1. ASSUME NEW actor \in Members, NEW p \in Plans, NEW op \in Ops, LoadPlan(s, actor, p, op)
      PROVE  ReadStep(r)
  <2> DEFINE fields == [Idle EXCEPT !.pc = IF op = "add" THEN "ready" ELSE "loaded",
                                    !.op = op, !.plan = p, !.row = plan[p]]
  <2>1. sess' = [sess EXCEPT ![s] = fields] /\ fields.content = {}
    BY <1>1 DEF LoadPlan, Begin, Idle
  <2> HIDE DEF fields
  <2> QED
    BY <2>1, OneSessionReads
<1>2. ASSUME NEW i \in Items, LoadItem(s, i)
      PROVE  ReadStep(r)
  <2> DEFINE fields == [sess[s] EXCEPT !.pc = "ready", !.item = i,
                          !.old = IF sess[s].op = "update" THEN items[i].proposal ELSE @]
  <2>1. sess' = [sess EXCEPT ![s] = fields]
    BY <1>2 DEF LoadItem
  <2>2. fields.content = sess[s].content
    BY DEF TInv, TypeOK, Session
  <2> HIDE DEF fields
  <2> QED
    BY <2>1, <2>2, OneSessionReads
<1> QED
  BY <1>1, <1>2, EndReadsNothing DEF Edit, CommitAdd, CommitUpdate, CommitRemove

LEMMA SubmitReads ==
    ASSUME TInv, NEW s \in Sessions, Submit(s), NEW r \in Sessions
    PROVE  ReadStep(r)
<1>1. CASE Validate(s)
  <2> DEFINE fields == [sess[s] EXCEPT !.pc = "ready"]
  <2>1. sess' = [sess EXCEPT ![s] = fields]
    BY <1>1 DEF Validate
  <2>2. fields.content = sess[s].content
    BY DEF TInv, TypeOK, Session
  <2> HIDE DEF fields
  <2> QED
    BY <2>1, <2>2, OneSessionReads
<1> QED
  BY <1>1, EndReadsNothing DEF Submit, CommitSubmit

\* The lock is granted: the session reads the items of its plan.
LEMMA LockingReads ==
    ASSUME TInv, NEW s \in Sessions, NEW p \in Plans, NEW session \in Session,
           sess' = [sess EXCEPT ![s] = Locked(session, p)], NEW r \in Sessions
    PROVE  ReadStep(r)
<1>1. Locked(session, p).content = Contents(p)
  BY DEF Locked, Session
<1> QED
  BY <1>1, OneSessionReads

LEMMA DecideReads ==
    ASSUME TInv, NEW s \in Sessions, Decide(s), NEW r \in Sessions
    PROVE  ReadStep(r)
<1>1. ASSUME NEW actor \in Members, NEW p \in Plans, NEW op \in Ops, View(s, actor, p, op)
      PROVE  ReadStep(r)
  <2> DEFINE fields == [Idle EXCEPT !.pc = "viewing", !.op = op, !.actor = actor,
                                    !.plan = p, !.row = plan[p]]
  <2>1. sess' = [sess EXCEPT ![s] = fields] /\ fields.content = {}
    BY <1>1 DEF View, Begin, Idle
  <2> HIDE DEF fields
  <2> QED
    BY <2>1, OneSessionReads
<1>2. CASE ViewItems(s)
  <2> DEFINE fields == [sess[s] EXCEPT !.pc = "asked", !.expected = sess[s].row.version,
                                       !.row = NoRow, !.shown = Contents(sess[s].plan)]
  <2>1. sess' = [sess EXCEPT ![s] = fields]
    BY <1>2 DEF ViewItems
  <2>2. fields.content = sess[s].content
    BY DEF TInv, TypeOK, Session
  <2> HIDE DEF fields
  <2> QED
    BY <2>1, <2>2, OneSessionReads
<1>3. ASSUME NEW actor \in Members, NEW p \in Plans, NEW op \in Ops, LockBlind(s, actor, p, op)
      PROVE  ReadStep(r)
  <2> DEFINE q == [Idle EXCEPT !.op = op, !.actor = actor]
  <2>1. q \in Session
    BY IdleType DEF Idle, Session
  <2>2. sess' = [sess EXCEPT ![s] = Locked(q, p)]
    BY <1>3 DEF LockBlind, Begin
  <2> HIDE DEF q
  <2> QED
    BY <2>1, <2>2, LockingReads
<1>4. CASE Lock(s)
  <2>1. /\ sess' = [sess EXCEPT ![s] = Locked(sess[s], sess[s].plan)]
        /\ sess[s].plan \in Plans /\ sess[s] \in Session
    BY <1>4 DEF Lock, TInv, TypeOK, SessionsKnow
  <2> QED
    BY <2>1, LockingReads
<1>5. CASE TurnAway(s) \/ CommitApprove(s) \/ CommitReject(s)
  BY <1>5, EndReadsNothing DEF TurnAway, CommitApprove, CommitReject
<1> QED
  BY <1>1, <1>2, <1>3, <1>4, <1>5 DEF Decide

LEMMA StepKeepsReadOnce ==
    ASSUME TInv, ReadOnce, [Next]_vars
    PROVE  ReadOnce'
<1>1. ASSUME NEW r \in Sessions
      PROVE  ReadStep(r)
  <2>1. ASSUME NEW s \in Sessions, Fail(s) \/ Crash(s)
        PROVE  ReadStep(r)
    BY <2>1, EndReadsNothing DEF Fail, Crash
  <2>2. ASSUME UNCHANGED sess
        PROVE  ReadStep(r)
    BY <2>2 DEF ReadStep
  <2> QED
    BY <2>1, <2>2, CreateReads, EditReads, SubmitReads, DecideReads DEF Next, CancelScope, vars
<1>2. \A p \in Plans : OnePerItem(Contents(p))
  BY DEF OnePerItem, Contents
<1>3. ASSUME NEW r \in Sessions
      PROVE  OnePerItem(sess'[r].content)
  BY <1>1, <1>2 DEF ReadStep, ReadOnce, OnePerItem
<1> QED
  BY <1>3 DEF ReadOnce, OnePerItem


AssignmentsIn(batch) == {m \in batch : m.type = "ASSIGNMENT"}

\* Of the batches of messages about a plan, the one its approval wrote holds an
\* assignment per task, and the others hold none.
ToldOnce(p) ==
    \/ /\ work[p] = <<>>
       /\ \A k \in DOMAIN outbox[p] : AssignmentsIn(outbox[p][k]) = {}
    \/ \E tasks \in SUBSET Task, n \in DOMAIN outbox[p] :
          /\ work[p] = <<tasks>>
          /\ OnePerItem(tasks)
          /\ \A t \in tasks : t.proposal.assignee \in Members
          /\ \A k \in DOMAIN outbox[p] :
                AssignmentsIn(outbox[p][k]) = IF k = n THEN Assignments(tasks) ELSE {}

LEMMA RowsUntouchedKeepTold ==
    ASSUME NEW p \in Plans, ToldOnce(p), work'[p] = work[p], outbox'[p] = outbox[p]
    PROVE  ToldOnce(p)'
BY DEF ToldOnce, AssignmentsIn

\* Messages that tell of no task.
LEMMA OtherMessagesKeepTold ==
    ASSUME TInv, NEW p \in Plans, ToldOnce(p), NEW batch \in SUBSET Message,
           \A m \in batch : m.type # "ASSIGNMENT",
           outbox'[p] = Append(outbox[p], batch), work'[p] = work[p]
    PROVE  ToldOnce(p)'
<1>1. outbox[p] \in Seq(SUBSET Message)
  BY DEF TInv, TypeOK
<1>2. /\ DOMAIN outbox'[p] = DOMAIN outbox[p] \union {Len(outbox[p]) + 1}
      /\ Len(outbox[p]) + 1 \notin DOMAIN outbox[p]
      /\ \A k \in DOMAIN outbox[p] : outbox'[p][k] = outbox[p][k]
      /\ outbox'[p][Len(outbox[p]) + 1] = batch
  BY <1>1
<1>3. AssignmentsIn(batch) = {}
  BY DEF AssignmentsIn
<1>4. CASE /\ work[p] = <<>>
           /\ \A k \in DOMAIN outbox[p] : AssignmentsIn(outbox[p][k]) = {}
  <2>1. \A k \in DOMAIN outbox'[p] : AssignmentsIn(outbox'[p][k]) = {}
    BY <1>2, <1>3, <1>4
  <2> QED
    BY <1>4, <2>1 DEF ToldOnce, AssignmentsIn
<1>5. ASSUME NEW tasks \in SUBSET Task, NEW n \in DOMAIN outbox[p],
             work[p] = <<tasks>>, OnePerItem(tasks),
             \A t \in tasks : t.proposal.assignee \in Members,
             \A k \in DOMAIN outbox[p] :
                AssignmentsIn(outbox[p][k]) = IF k = n THEN Assignments(tasks) ELSE {}
      PROVE  ToldOnce(p)'
  <2>1. \A k \in DOMAIN outbox'[p] :
           AssignmentsIn(outbox'[p][k]) = IF k = n THEN Assignments(tasks) ELSE {}
    BY <1>2, <1>3, <1>5
  <2>2. n \in DOMAIN outbox'[p] /\ work'[p] = <<tasks>>
    BY <1>2, <1>5
  <2> QED
    BY <1>5, <2>1, <2>2 DEF ToldOnce, AssignmentsIn
<1> QED
  BY <1>4, <1>5 DEF ToldOnce

LEMMA SubmitKeepsTold ==
    ASSUME TInv, NEW s \in Sessions, CommitSubmit(s), NEW q \in Plans, ToldOnce(q)
    PROVE  ToldOnce(q)'
<1>1. sess[s].plan \in Plans /\ sess[s].pc = "ready"
  BY DEF CommitSubmit, TInv, SessionsKnow
<1>p. PICK p \in Plans : p = sess[s].plan
  BY <1>1
<1>b. PICK batch : batch = SubmitMessages(Submitted(s))
  OBVIOUS
<1>2. outbox' = [outbox EXCEPT ![p] = Append(outbox[p], batch)] /\ UNCHANGED work
  BY <1>p, <1>b DEF CommitSubmit
<1>3. batch \in SUBSET Message
  BY <1>1, <1>b, SubmittedType
<1>4. \A m \in batch : m.type # "ASSIGNMENT"
  BY <1>b DEF SubmitMessages, Enqueue
<1>5. outbox'[q] = IF q = p THEN Append(outbox[q], batch) ELSE outbox[q]
  BY <1>2 DEF TInv, TypeOK
<1> QED
  BY <1>2, <1>3, <1>4, <1>5, OtherMessagesKeepTold, RowsUntouchedKeepTold

LEMMA RejectKeepsTold ==
    ASSUME TInv, NEW s \in Sessions, CommitReject(s), NEW q \in Plans, ToldOnce(q)
    PROVE  ToldOnce(q)'
<1>1. sess[s].plan \in Plans /\ sess[s].pc = "locked"
  BY DEF CommitReject, TInv, SessionsKnow
<1>p. PICK p \in Plans : p = sess[s].plan
  BY <1>1
<1>b. PICK batch : batch = DecisionMessages(s, "PLAN_REJECTED")
  OBVIOUS
<1>2. outbox' = [outbox EXCEPT ![p] = Append(outbox[p], batch)] /\ UNCHANGED work
  BY <1>p, <1>b DEF CommitReject
<1>3. batch \in SUBSET Message
  BY <1>1, <1>b, DecisionMessagesType
<1>4. \A m \in batch : m.type # "ASSIGNMENT"
  BY <1>b DEF DecisionMessages, Enqueue
<1>5. outbox'[q] = IF q = p THEN Append(outbox[q], batch) ELSE outbox[q]
  BY <1>2 DEF TInv, TypeOK
<1> QED
  BY <1>2, <1>3, <1>4, <1>5, OtherMessagesKeepTold, RowsUntouchedKeepTold

\* The approval, of a plan nobody has been told of.
LEMMA ApproveTells ==
    ASSUME TInv, StampAgrees, ReadOnce, NEW s \in Sessions, CommitApprove(s),
           NEW q \in Plans, ToldOnce(q)
    PROVE  ToldOnce(q)'
<1>1. sess[s].plan \in Plans /\ sess[s].pc = "locked" /\ CanMaterialise(s)
  BY DEF CommitApprove, TInv, SessionsKnow
<1>p. PICK p \in Plans : p = sess[s].plan
  BY <1>1
<1>c. PICK tasks : tasks = sess[s].content
  OBVIOUS
<1>d. PICK other : other = DecisionMessages(s, "PLAN_APPROVED")
  OBVIOUS
<1>b. PICK batch : batch = Assignments(tasks) \union other
  OBVIOUS
<1>2. /\ outbox' = [outbox EXCEPT ![p] = Append(outbox[p], batch)]
      /\ work' = [work EXCEPT ![p] = Append(work[p], tasks)]
      /\ OneApprovalIndex(p)
  BY <1>p, <1>b, <1>c, <1>d DEF CommitApprove
<1>3. tasks \in SUBSET Task /\ OnePerItem(tasks)
      /\ \A t \in tasks : t.proposal.assignee \in Members
  <2>1. tasks \in SUBSET Task
    BY <1>c DEF TInv, TypeOK, Session
  <2>2. OnePerItem(tasks)
    BY <1>c DEF ReadOnce
  <2>3. \A t \in tasks : t.proposal.assignee \in Members
    BY <1>1, <1>c, <2>1 DEF CanMaterialise, Task, Proposal
  <2> QED
    BY <2>1, <2>2, <2>3
<1>4. batch \in SUBSET Message
  BY <1>1, <1>b, <1>c, <1>d, AssignmentsType, DecisionMessagesType
<1>5. AssignmentsIn(batch) = Assignments(tasks)
  <2>1. \A m \in Assignments(tasks) : m.type = "ASSIGNMENT"
    BY DEF Assignments, Enqueue
  <2>2. \A m \in other : m.type # "ASSIGNMENT"
    BY <1>d DEF DecisionMessages, Enqueue
  <2> QED
    BY <1>b, <2>1, <2>2 DEF AssignmentsIn
<1>6. CASE q # p
  BY <1>2, <1>6, RowsUntouchedKeepTold DEF TInv, TypeOK
<1>7. CASE q = p
  <2>1. outbox[p] \in Seq(SUBSET Message) /\ work[p] \in Seq(SUBSET Task)
    BY DEF TInv, TypeOK
  <2>2. outbox'[p] = Append(outbox[p], batch) /\ work'[p] = Append(work[p], tasks)
    BY <1>2 DEF TInv, TypeOK
  <2>3. Len(work[p]) = 0
    BY <1>2 DEF StampAgrees, OneApprovalIndex, ApprovalsOf
  <2>4. work[p] = <<>>
    BY <2>1, <2>3
  <2>5. work'[p] = <<tasks>>
    BY <1>3, <2>2, <2>4
  <2>6. \A k \in DOMAIN outbox[p] : AssignmentsIn(outbox[p][k]) = {}
    <3>1. \A x \in SUBSET Task : Len(<<x>>) = 1
      OBVIOUS
    <3>2. \A x \in SUBSET Task : work[p] # <<x>>
      BY <2>3, <3>1
    <3> QED
      BY <1>7, <3>2 DEF ToldOnce
  <2>7. PICK last : last = Len(outbox[p]) + 1
    OBVIOUS
  <2>8. /\ DOMAIN outbox'[p] = DOMAIN outbox[p] \union {last}
        /\ last \notin DOMAIN outbox[p]
        /\ \A k \in DOMAIN outbox[p] : outbox'[p][k] = outbox[p][k]
        /\ outbox'[p][last] = batch
    BY <1>4, <2>1, <2>2, <2>7
  <2>9. \A k \in DOMAIN outbox'[p] :
           AssignmentsIn(outbox'[p][k]) = IF k = last THEN Assignments(tasks) ELSE {}
    BY <1>5, <2>6, <2>8
  <2>10. \E told \in SUBSET Task, k \in DOMAIN outbox'[p] :
            /\ work'[p] = <<told>>
            /\ OnePerItem(told)
            /\ \A t \in told : t.proposal.assignee \in Members
            /\ \A j \in DOMAIN outbox'[p] :
                  AssignmentsIn(outbox'[p][j]) = IF j = k THEN Assignments(told) ELSE {}
    BY <1>3, <2>5, <2>8, <2>9
  <2> QED
    BY <1>7, <2>10 DEF ToldOnce, AssignmentsIn
<1> QED
  BY <1>6, <1>7

LEMMA StepKeepsTold ==
    ASSUME TInv, StampAgrees, ReadOnce, [Next]_vars, NEW q \in Plans, ToldOnce(q)
    PROVE  ToldOnce(q)'
<1>1. ASSUME NEW s \in Sessions, Create(s) \/ Edit(s) \/ Fail(s) \/ Crash(s)
      PROVE  ToldOnce(q)'
  BY <1>1, RowsUntouchedKeepTold
     DEF Create, LoadScope, CommitCreate, Edit, LoadPlan, LoadItem, CommitAdd, CommitUpdate,
         CommitRemove, Fail, Crash, tables
<1>2. ASSUME NEW s \in Sessions, Submit(s)
      PROVE  ToldOnce(q)'
  BY <1>2, RowsUntouchedKeepTold, SubmitKeepsTold DEF Submit, Validate, tables
<1>3. ASSUME NEW s \in Sessions, Decide(s)
      PROVE  ToldOnce(q)'
  BY <1>3, RowsUntouchedKeepTold, RejectKeepsTold, ApproveTells
     DEF Decide, View, ViewItems, Lock, LockBlind, TurnAway, tables
<1>4. ASSUME UNCHANGED <<work, outbox>>
      PROVE  ToldOnce(q)'
  BY <1>4, RowsUntouchedKeepTold
<1> QED
  BY <1>1, <1>2, <1>3, <1>4 DEF Next, CancelScope, vars


\* Tasks and their assignments are as many.
LEMMA AsManyAssignments ==
    ASSUME NEW tasks \in SUBSET Task, OnePerItem(tasks)
    PROVE  Cardinality(Assignments(tasks)) = Cardinality(tasks)
<1> DEFINE tell == [t \in tasks |-> Enqueue("ASSIGNMENT", t.proposal.assignee, t.item)]
<1>1. tell \in Bijection(tasks, Assignments(tasks))
  <2>1. tell \in [tasks -> Assignments(tasks)]
    BY DEF Assignments
  <2>2. \A t, u \in tasks : tell[t] = tell[u] => t = u
    BY DEF OnePerItem, Enqueue
  <2>3. \A m \in Assignments(tasks) : \E t \in tasks : tell[t] = m
    BY DEF Assignments
  <2> QED
    BY <2>1, <2>2, <2>3 DEF Bijection, Injection, Surjection, IsInjective
<1>2. IsFiniteSet(tasks)
  <2> DEFINE itemOf == [t \in tasks |-> t.item]
  <2>1. itemOf \in Injection(tasks, Items)
    BY DEF OnePerItem, Injection, IsInjective, Task
  <2> QED
    BY <2>1, ItemsAssumption, FS_Injection
<1> QED
  BY <1>1, <1>2, FS_Bijection DEF ExistsBijection

LEMMA ToldOnceMeansTold ==
    ASSUME \A p \in Plans : ToldOnce(p)
    PROVE  EveryoneNamedIsTold
<1> DEFINE Tells(p, t, k) == \E m \in outbox[p][k] :
                                /\ m.type = "ASSIGNMENT" /\ m.item = t.item
                                /\ m.to = t.proposal.assignee
                                /\ m.to # NoMember
                                /\ m.status = "PENDING" <=> m.to \in Reachable
           Batches(p, t) == {k \in DOMAIN outbox[p] : Tells(p, t, k)}
           All(p) == {m \in UNION {outbox[p][k] : k \in DOMAIN outbox[p]} : m.type = "ASSIGNMENT"}
<1> SUFFICES ASSUME NEW p \in Plans
             PROVE  /\ \A t \in TasksOf(p) : Cardinality(Batches(p, t)) = 1
                    /\ Cardinality(All(p)) = Cardinality(TasksOf(p))
  BY DEF EveryoneNamedIsTold
<1>1. CASE /\ work[p] = <<>>
           /\ \A k \in DOMAIN outbox[p] : AssignmentsIn(outbox[p][k]) = {}
  <2>1. TasksOf(p) = {}
    BY <1>1 DEF TasksOf
  <2>2. All(p) = {}
    BY <1>1 DEF AssignmentsIn
  <2> QED
    BY <2>1, <2>2
<1>2. ASSUME NEW tasks \in SUBSET Task, NEW n \in DOMAIN outbox[p],
             work[p] = <<tasks>>, OnePerItem(tasks),
             \A t \in tasks : t.proposal.assignee \in Members,
             \A k \in DOMAIN outbox[p] :
                AssignmentsIn(outbox[p][k]) = IF k = n THEN Assignments(tasks) ELSE {}
      PROVE  /\ \A t \in TasksOf(p) : Cardinality(Batches(p, t)) = 1
             /\ Cardinality(All(p)) = Cardinality(TasksOf(p))
  <2>1. TasksOf(p) = tasks
    BY <1>2 DEF TasksOf
  <2>2. All(p) = Assignments(tasks)
    BY <1>2 DEF AssignmentsIn
  <2>3. ASSUME NEW t \in tasks
        PROVE  Cardinality(Batches(p, t)) = 1
    <3> DEFINE m == Enqueue("ASSIGNMENT", t.proposal.assignee, t.item)
    <3>1. m \in AssignmentsIn(outbox[p][n])
      BY <1>2 DEF Assignments
    <3>2. /\ m.type = "ASSIGNMENT" /\ m.item = t.item
          /\ m.to = t.proposal.assignee /\ m.to # NoMember
          /\ m.status = "PENDING" <=> m.to \in Reachable
      BY <1>2, NoMemberAssumption DEF Enqueue
    <3> HIDE DEF m
    <3>3. Tells(p, t, n)
      BY <3>1, <3>2 DEF AssignmentsIn
    <3>4. \A k \in DOMAIN outbox[p] : k # n => ~ Tells(p, t, k)
      BY <1>2 DEF AssignmentsIn
    <3>5. Batches(p, t) = {n}
      BY <3>3, <3>4
    <3> HIDE DEF Batches
    <3> QED
      BY <3>5, FS_Singleton
  <2> HIDE DEF All, Batches
  <2> QED
    BY <1>2, <2>1, <2>2, <2>3, AsManyAssignments
<1> QED
  BY <1>1, <1>2 DEF ToldOnce

\* Everyone given a task is told of it, exactly once per task and nobody else is,
\* whatever requests overlap: a message without a destination is kept as FAILED,
\* never dropped (approve_plan, approval.py:85, and enqueue, notifications/outbox.py:21).
THEOREM EveryoneNamedIsToldHolds == Spec => []EveryoneNamedIsTold
<1> DEFINE AllTold == \A p \in Plans : ToldOnce(p)
<1>1. Init => ReadOnce /\ AllTold
  BY DEF Init, ReadOnce, Idle, OnePerItem, ToldOnce
<1>2. TInv /\ StampAgrees /\ ReadOnce /\ AllTold /\ [Next]_vars
        => (TInv /\ StampAgrees /\ ReadOnce /\ AllTold)'
  BY StepKeepsTInv, StepKeepsStampAgrees, StepKeepsReadOnce, StepKeepsTold
<1>3. AllTold => EveryoneNamedIsTold
  BY ToldOnceMeansTold
<1> QED
  BY <1>1, <1>2, <1>3, InitTInv, InitStampAgrees, PTL DEF Spec
=============================================================================
