------------------------ MODULE DelegationPlans_turns ------------------------
(***************************************************************************)
(* What DelegationPlans keeps of the plans' lifecycle (states.py).         *)
(* However requests overlap, only an edit or a submission that was         *)
(* overtaken breaks it; if one request at a time edits plans, while any    *)
(* number decide them, a rejected plan stays rejected and who approves a   *)
(* version gets what was shown with it.                                    *)
(***************************************************************************)
EXTENDS DelegationPlans_proofs

USE DEF MaybeMember

Drafting(session) == session.pc = "ready" /\ session.op = "create"
Editing(session) == session.pc \in {"loaded", "ready"} /\ session.op # "create"

-----------------------------------------------------------------------------
(***************************************************************************)
(* What holds however requests overlap.                                    *)
(***************************************************************************)

\* A locked plan is as its holder read it, and held by nobody else.
LocksHold ==
    /\ \A s \in Sessions : sess[s].pc = "locked" =>
          plan[sess[s].plan] = sess[s].row /\ sess[s].row.status = "PENDING_APPROVAL"
    /\ \A s, q \in Sessions :
          sess[s].pc = "locked" /\ sess[q].pc = "locked" /\ sess[s].plan = sess[q].plan => s = q

\* What a decision is about to make tasks of is what the locked plan holds.
LockedContents ==
    \A s \in Sessions : sess[s].pc = "locked" => sess[s].content = Contents(sess[s].plan)

\* An edit has read an open plan, a submission a draft.
StatusChecked ==
    \A s \in Sessions : Editing(sess[s]) =>
        /\ sess[s].row.status \in OpenStatuses
        /\ sess[s].op = "submit" => sess[s].row.status = "DRAFT"

\* The item a request is about to change is one of its plan.
ItemsChosen ==
    \A s \in Sessions : sess[s].pc = "ready" /\ sess[s].op \in {"update", "remove"} =>
        sess[s].item \in Items /\ items[sess[s].item].plan = sess[s].plan

\* Plans start at version 1.
FirstVersions ==
    /\ \A p \in Plans : ~ Exists(p) => plan[p].version = 0
    /\ \A s \in Sessions : Drafting(sess[s]) => sess[s].row.version = 1

BInv ==
    /\ TInv /\ StampAgrees
    /\ LocksHold /\ LockedContents /\ StatusChecked /\ ItemsChosen /\ FirstVersions

-----------------------------------------------------------------------------
(***************************************************************************)
(* What a step may do to a plan: leave it alone, ...                       *)
(***************************************************************************)
PlanLeft(q) ==
    plan'[q] = plan[q] /\ Contents(q)' = Contents(q) /\ work'[q] = work[q]

\* ... or commit a request about it.
Created(s, p) ==
    /\ Drafting(sess[s]) /\ ~ Exists(p)
    /\ plan'[p] = sess[s].row
    /\ Contents(p)' = Contents(p) /\ work'[p] = work[p]

Edited(s, p) ==
    /\ sess[s].pc = "ready" /\ sess[s].op \in {"add", "update", "remove"}
    /\ p = sess[s].plan /\ LockFree(p)
    /\ plan'[p] = [plan[p] EXCEPT !.version = sess[s].row.version + 1]
    /\ work'[p] = work[p]

Sent(s, p) ==
    /\ sess[s].pc = "ready" /\ sess[s].op = "submit"
    /\ p = sess[s].plan /\ LockFree(p)
    /\ plan'[p] = Submitted(s)
    /\ Contents(p)' = Contents(p) /\ work'[p] = work[p]

DecidedAs(s, p, d) ==
    /\ sess[s].pc = "locked" /\ p = sess[s].plan
    /\ plan'[p] = Decided(s, d)
    /\ Contents(p)' = Contents(p)
    /\ work'[p] = IF d = "APPROVED" THEN Append(work[p], sess[s].content) ELSE work[p]

Commits(s) ==
    /\ sess'[s] = Idle
    /\ \E p \in Plans :
          /\ Created(s, p) \/ Edited(s, p) \/ Sent(s, p)
             \/ \E d \in {"APPROVED", "REJECTED"} : DecidedAs(s, p, d)
          /\ \A q \in Plans \ {p} : PlanLeft(q)

-----------------------------------------------------------------------------
\* What a request may read, and what it knows then.

ReadScope(s) ==
    /\ sess[s].pc = "idle" /\ "create" \in MayIssue[s]
    /\ Drafting(sess'[s]) /\ sess'[s].row.version = 1

ReadPlan(s) ==
    LET p == sess'[s].plan
        op == sess'[s].op
    IN  /\ sess[s].pc = "idle" /\ op \in MayIssue[s]
        /\ op \in {"add", "update", "remove", "submit"}
        /\ sess'[s].pc = IF op = "add" THEN "ready" ELSE "loaded"
        /\ p \in Plans /\ Exists(p) /\ sess'[s].row = plan[p]
        /\ StatusAllows(op, plan[p])

SameRequest(s) ==
    sess'[s].op = sess[s].op /\ sess'[s].plan = sess[s].plan /\ sess'[s].row = sess[s].row

ReadItem(s) ==
    /\ sess[s].pc = "loaded" /\ sess'[s].pc = "ready" /\ SameRequest(s)
    /\ sess[s].op \in {"update", "remove", "submit"}
    /\ IF sess[s].op = "submit"
       THEN Contents(sess[s].plan) # {}
       ELSE sess'[s].item \in Items /\ items[sess'[s].item].plan = sess[s].plan

Viewed(s) ==
    LET p == sess'[s].plan
    IN  sess'[s].pc = "viewing" /\ p \in Plans /\ Exists(p) /\ sess'[s].row = plan[p]

Shown(s) ==
    LET p == sess[s].plan
    IN  /\ sess[s].pc = "viewing" /\ sess'[s].pc = "asked" /\ sess'[s].plan = p
        /\ sess'[s].expected = sess[s].row.version /\ sess'[s].shown = Contents(p)

TookLock(s) ==
    LET p == sess'[s].plan
        expected == sess'[s].expected
    IN  /\ sess'[s].pc = "locked" /\ p \in Plans /\ LockFree(p)
        /\ sess'[s].row = plan[p] /\ plan[p].status = "PENDING_APPROVAL"
        /\ sess'[s].content = Contents(p)
        /\ expected # AnyVersion =>
              /\ sess[s].pc = "asked" /\ sess[s].plan = p
              /\ sess[s].expected = expected /\ expected = plan[p].version
              /\ sess'[s].shown = sess[s].shown

Reads(s) ==
    /\ UNCHANGED items /\ \A q \in Plans : PlanLeft(q)
    /\ sess'[s] = Idle \/ ReadScope(s) \/ ReadPlan(s) \/ ReadItem(s) \/ Viewed(s) \/ Shown(s)
          \/ TookLock(s)

\* An item that is there stays its plan's.
ItemsStay == \A i \in Items : items[i].plan \in Plans => items'[i].plan = items[i].plan

TurnStep(s) ==
    /\ \A r \in Sessions \ {s} : sess'[r] = sess[r]
    /\ Commits(s) \/ Reads(s)
    /\ ItemsStay
-----------------------------------------------------------------------------
(***************************************************************************)
(* Every step is one of these.                                             *)
(***************************************************************************)

LEMMA SessionWritten ==
    ASSUME TInv, NEW s \in Sessions, NEW fields, sess' = [sess EXCEPT ![s] = fields]
    PROVE  sess'[s] = fields /\ \A r \in Sessions \ {s} : sess'[r] = sess[r]
BY DEF TInv, TypeOK

LEMMA ContentsStay ==
    ASSUME NEW q, \A i \in Items : items[i].live /\ items[i].plan = q
                                     <=> items'[i].live /\ items'[i].plan = q,
           \A i \in Items : items[i].live /\ items[i].plan = q =>
                               items'[i].proposal = items[i].proposal
    PROVE  Contents(q)' = Contents(q)
<1>1. {j \in Items : items'[j].live /\ items'[j].plan = q}
         = {j \in Items : items[j].live /\ items[j].plan = q}
  OBVIOUS
<1>2. \A i \in {j \in Items : items[j].live /\ items[j].plan = q} :
         [item |-> i, proposal |-> items'[i].proposal] = [item |-> i, proposal |-> items[i].proposal]
  OBVIOUS
<1> QED
  BY <1>1, <1>2 DEF Contents

LEMMA TablesLeft ==
    ASSUME UNCHANGED <<plan, items, work>>
    PROVE  ItemsStay /\ \A q \in Plans : PlanLeft(q)
BY DEF ItemsStay, PlanLeft, Contents

LEMMA Reading ==
    ASSUME TInv, NEW s \in Sessions, NEW fields, sess' = [sess EXCEPT ![s] = fields],
           UNCHANGED tables,
           sess'[s] = fields =>
              sess'[s] = Idle \/ ReadScope(s) \/ ReadPlan(s) \/ ReadItem(s) \/ Viewed(s)
              \/ Shown(s) \/ TookLock(s)
    PROVE  TurnStep(s)
<1>1. sess'[s] = fields /\ \A r \in Sessions \ {s} : sess'[r] = sess[r]
  BY SessionWritten
<1>2. UNCHANGED <<plan, items, work>>
  BY DEF tables
<1>3. ItemsStay /\ \A q \in Plans : PlanLeft(q)
  BY <1>2, TablesLeft
<1>4. Reads(s)
  BY <1>1, <1>2, <1>3 DEF Reads
<1> QED
  BY <1>1, <1>3, <1>4 DEF TurnStep

LEMMA Ending ==
    ASSUME TInv, NEW s \in Sessions, End(s), UNCHANGED tables
    PROVE  TurnStep(s)
<1>1. sess' = [sess EXCEPT ![s] = Idle]
  BY DEF End
<1> QED
  BY <1>1, Reading

LEMMA Committing ==
    ASSUME TInv, NEW s \in Sessions, End(s), ItemsStay, NEW p \in Plans,
           Created(s, p) \/ Edited(s, p) \/ Sent(s, p)
              \/ \E d \in {"APPROVED", "REJECTED"} : DecidedAs(s, p, d),
           \A q \in Plans \ {p} : PlanLeft(q)
    PROVE  TurnStep(s)
<1>1. sess' = [sess EXCEPT ![s] = Idle]
  BY DEF End
<1>2. sess'[s] = Idle /\ \A r \in Sessions \ {s} : sess'[r] = sess[r]
  BY <1>1, SessionWritten
<1>3. Commits(s)
  BY <1>2 DEF Commits
<1> QED
  BY <1>2, <1>3 DEF TurnStep

\* A write of one plan's row, without its items.
LEMMA RowCommitted ==
    ASSUME TInv, NEW p \in Plans, NEW row, plan' = [plan EXCEPT ![p] = row], UNCHANGED items,
           \A q \in Plans \ {p} : work'[q] = work[q]
    PROVE  /\ plan'[p] = row /\ Contents(p)' = Contents(p) /\ ItemsStay
           /\ \A q \in Plans \ {p} : PlanLeft(q)
<1>1. plan'[p] = row /\ \A q \in Plans \ {p} : plan'[q] = plan[q]
  BY DEF TInv, TypeOK
<1>2. ItemsStay /\ \A q : Contents(q)' = Contents(q)
  BY DEF ItemsStay, Contents
<1> QED
  BY <1>1, <1>2 DEF PlanLeft

LEMMA CreateSteps ==
    ASSUME TInv, NEW s \in Sessions, Create(s), FirstVersions
    PROVE  TurnStep(s)
<1>1. ASSUME NEW actor \in Members, NEW w \in Scopes, LoadScope(s, actor, w)
      PROVE  TurnStep(s)
  <2> DEFINE row == [NoRow EXCEPT !.status = "DRAFT", !.scope = w,
                                  !.creator = actor, !.version = 1]
             fields == [Idle EXCEPT !.pc = "ready", !.op = "create", !.row = row]
  <2>1. row.version = 1
    BY DEF NoRow
  <2>2. fields.pc = "ready" /\ fields.op = "create" /\ fields.row = row
    BY DEF Idle
  <2>3. /\ sess' = [sess EXCEPT ![s] = fields] /\ UNCHANGED tables
        /\ sess[s].pc = "idle" /\ "create" \in MayIssue[s]
    BY <1>1 DEF LoadScope, Begin
  <2> HIDE DEF row, fields
  <2>4. sess'[s] = fields => ReadScope(s)
    BY <2>1, <2>2, <2>3 DEF ReadScope, Drafting
  <2> QED
    BY <2>3, <2>4, Reading
<1>2. ASSUME NEW p \in Plans, CommitCreate(s, p)
      PROVE  TurnStep(s)
  <2>1. /\ plan' = [plan EXCEPT ![p] = sess[s].row] /\ End(s) /\ Drafting(sess[s])
        /\ ~ Exists(p) /\ UNCHANGED <<items, work>>
    BY <1>2 DEF CommitCreate, Drafting
  <2>2. /\ plan'[p] = sess[s].row /\ Contents(p)' = Contents(p) /\ ItemsStay
        /\ \A q \in Plans \ {p} : PlanLeft(q)
    BY <2>1, RowCommitted
  <2>3. Created(s, p)
    BY <2>1, <2>2 DEF Created
  <2> QED
    BY <2>1, <2>2, <2>3, Committing
<1> QED
  BY <1>1, <1>2 DEF Create

LEMMA SubmitSteps ==
    ASSUME TInv, NEW s \in Sessions, Submit(s)
    PROVE  TurnStep(s)
<1>1. CASE Validate(s)
  <2> DEFINE fields == [sess[s] EXCEPT !.pc = "ready"]
  <2>1. /\ sess' = [sess EXCEPT ![s] = fields] /\ UNCHANGED tables
        /\ sess[s].pc = "loaded" /\ sess[s].op = "submit" /\ Contents(sess[s].plan) # {}
    BY <1>1 DEF Validate, ReadyToSend
  <2>2. sess[s] \in Session
    BY DEF TInv, TypeOK
  <2>3. /\ fields.pc = "ready" /\ fields.op = sess[s].op /\ fields.plan = sess[s].plan
        /\ fields.row = sess[s].row
    BY <2>2 DEF Session
  <2> HIDE DEF fields
  <2>4. sess'[s] = fields => ReadItem(s)
    BY <2>1, <2>3 DEF ReadItem, SameRequest
  <2> QED
    BY <2>1, <2>4, Reading
<1>2. CASE CommitSubmit(s)
  <2> DEFINE row == Submitted(s)
  <2>1. /\ sess[s].plan \in Plans /\ End(s) /\ sess[s].pc = "ready" /\ sess[s].op = "submit"
        /\ plan' = [plan EXCEPT ![sess[s].plan] = row] /\ LockFree(sess[s].plan)
        /\ UNCHANGED <<items, work>>
    BY <1>2 DEF CommitSubmit, TInv, SessionsKnow
  <2>2. PICK p \in Plans : p = sess[s].plan
    BY <2>1
  <2> HIDE DEF row
  <2>3. /\ plan'[p] = row /\ Contents(p)' = Contents(p) /\ ItemsStay
        /\ \A q \in Plans \ {p} : PlanLeft(q)
    BY <2>1, <2>2, RowCommitted
  <2>4. Sent(s, p)
    BY <2>1, <2>2, <2>3 DEF Sent, row
  <2> QED
    BY <2>1, <2>3, <2>4, Committing
<1> QED
  BY <1>1, <1>2 DEF Submit
\* An edit touches the items of its own plan.
LEMMA EditCommitted ==
    ASSUME TInv, NEW s \in Sessions, End(s), plan' = Touched(s), LockFree(sess[s].plan),
           sess[s].pc = "ready", sess[s].op \in {"add", "update", "remove"},
           UNCHANGED work, ItemsStay,
           \A q \in Plans \ {sess[s].plan} : Contents(q)' = Contents(q)
    PROVE  TurnStep(s)
<1>1. PICK p \in Plans : p = sess[s].plan
  BY DEF TInv, SessionsKnow
<1>2. PICK v : v = sess[s].row.version + 1
  OBVIOUS
<1>3. plan' = [plan EXCEPT ![p] = [plan[p] EXCEPT !.version = v]]
  BY <1>1, <1>2 DEF Touched, TInv, TypeOK
<1>4. plan'[p] = [plan[p] EXCEPT !.version = v] /\ \A q \in Plans \ {p} : plan'[q] = plan[q]
  BY <1>3 DEF TInv, TypeOK
<1>5. \A q \in Plans \ {p} : PlanLeft(q)
  BY <1>1, <1>4 DEF PlanLeft
<1>6. Edited(s, p)
  BY <1>1, <1>2, <1>4 DEF Edited
<1> QED
  BY <1>5, <1>6, Committing

LEMMA EditSteps ==
    ASSUME TInv, ItemsChosen, NEW s \in Sessions, Edit(s)
    PROVE  TurnStep(s)
<1>1. ASSUME NEW actor \in Members, NEW p \in Plans, NEW op \in Ops, LoadPlan(s, actor, p, op)
      PROVE  TurnStep(s)
  <2> DEFINE fields == [Idle EXCEPT !.pc = IF op = "add" THEN "ready" ELSE "loaded",
                                    !.op = op, !.plan = p, !.row = plan[p]]
  <2>1. /\ sess' = [sess EXCEPT ![s] = fields] /\ UNCHANGED tables
        /\ sess[s].pc = "idle" /\ op \in MayIssue[s] /\ Exists(p) /\ StatusAllows(op, plan[p])
        /\ op \in {"add", "update", "remove", "submit"}
    BY <1>1 DEF LoadPlan, Begin
  <2>2. /\ fields.pc = IF op = "add" THEN "ready" ELSE "loaded"
        /\ fields.op = op /\ fields.plan = p /\ fields.row = plan[p]
    BY DEF Idle
  <2> HIDE DEF fields
  <2>3. sess'[s] = fields => ReadPlan(s)
    BY <2>1, <2>2 DEF ReadPlan
  <2> QED
    BY <2>1, <2>3, Reading
<1>2. ASSUME NEW i \in Items, LoadItem(s, i)
      PROVE  TurnStep(s)
  <2> DEFINE fields == [sess[s] EXCEPT !.pc = "ready", !.item = i,
                          !.old = IF sess[s].op = "update" THEN items[i].proposal ELSE @]
  <2>1. /\ sess' = [sess EXCEPT ![s] = fields] /\ UNCHANGED tables
        /\ sess[s].pc = "loaded" /\ sess[s].op \in {"update", "remove"}
        /\ items[i].plan = sess[s].plan
    BY <1>2 DEF LoadItem
  <2>2. sess[s] \in Session
    BY DEF TInv, TypeOK
  <2>3. /\ fields.pc = "ready" /\ fields.op = sess[s].op /\ fields.plan = sess[s].plan
        /\ fields.row = sess[s].row /\ fields.item = i
    BY <2>2 DEF Session
  <2> HIDE DEF fields
  <2>4. sess'[s] = fields => ReadItem(s)
    BY <2>1, <2>3 DEF ReadItem, SameRequest
  <2> QED
    BY <2>1, <2>4, Reading
<1>3. ASSUME NEW i \in Items, NEW proposal \in Proposals, CommitAdd(s, i, proposal)
      PROVE  TurnStep(s)
  <2>1. PICK p \in Plans : p = sess[s].plan
    BY <1>3 DEF CommitAdd, TInv, SessionsKnow
  <2>2. PICK new : new = [plan |-> p, live |-> TRUE, proposal |-> proposal]
    OBVIOUS
  <2>3. items' = [items EXCEPT ![i] = new] /\ items[i] = NoItemRow
    BY <1>3, <2>1, <2>2 DEF CommitAdd
  <2>4. new.plan = p /\ items[i].live = FALSE /\ items[i].plan \notin Plans
    BY <2>2, <2>3, PlansAssumption DEF NoItemRow
  <2>5. items'[i] = new /\ \A j \in Items \ {i} : items'[j] = items[j]
    BY <2>3 DEF TInv, TypeOK
  <2>6. ItemsStay
    BY <2>4, <2>5 DEF ItemsStay
  <2>7. \A q \in Plans \ {p} : Contents(q)' = Contents(q)
    BY <2>4, <2>5, ContentsStay
  <2> QED
    BY <1>3, <2>1, <2>6, <2>7, EditCommitted DEF CommitAdd
<1>4. ASSUME NEW row, items' = [items EXCEPT ![sess[s].item] = row],
             row.plan = items[sess[s].item].plan, sess[s].pc = "ready",
             sess[s].op \in {"update", "remove"}
      PROVE  ItemsStay /\ \A q \in Plans \ {sess[s].plan} : Contents(q)' = Contents(q)
  <2>1. PICK i \in Items : i = sess[s].item /\ items[i].plan = sess[s].plan
    BY <1>4 DEF ItemsChosen
  <2>2. items'[i] = row /\ \A j \in Items \ {i} : items'[j] = items[j]
    BY <1>4, <2>1 DEF TInv, TypeOK
  <2>3. ItemsStay
    BY <1>4, <2>1, <2>2 DEF ItemsStay
  <2>4. \A q \in Plans \ {sess[s].plan} : Contents(q)' = Contents(q)
    BY <1>4, <2>1, <2>2, ContentsStay
  <2> QED
    BY <2>3, <2>4
<1>5. ASSUME NEW patch \in Patches, CommitUpdate(s, patch)
      PROVE  TurnStep(s)
  <2>1. PICK i \in Items : i = sess[s].item
    BY <1>5 DEF CommitUpdate, ItemsChosen
  <2>2. PICK new : new = Merge(sess[s].old, patch, items[i].proposal)
    OBVIOUS
  <2>3. PICK row : row = [items[i] EXCEPT !.proposal = new]
    OBVIOUS
  <2>4. items' = [items EXCEPT ![i] = row] /\ row.plan = items[i].plan
    BY <1>5, <2>1, <2>2, <2>3 DEF CommitUpdate, TInv, TypeOK, ItemRow
  <2> QED
    BY <1>4, <1>5, <2>1, <2>4, EditCommitted DEF CommitUpdate
<1>6. CASE CommitRemove(s)
  <2>1. PICK i \in Items : i = sess[s].item
    BY <1>6 DEF CommitRemove, ItemsChosen
  <2>2. PICK row : row = [items[i] EXCEPT !.live = FALSE]
    OBVIOUS
  <2>3. items' = [items EXCEPT ![i] = row] /\ row.plan = items[i].plan
    BY <1>6, <2>1, <2>2 DEF CommitRemove, TInv, TypeOK, ItemRow
  <2> QED
    BY <1>4, <1>6, <2>1, <2>3, EditCommitted DEF CommitRemove
<1> QED
  BY <1>1, <1>2, <1>3, <1>5, <1>6 DEF Edit

LEMMA LockingStep ==
    ASSUME TInv, NEW s \in Sessions, NEW session \in Session, NEW p \in Plans,
           sess' = [sess EXCEPT ![s] = Locked(session, p)], UNCHANGED tables, LockFree(p),
           RequirePending(plan[p]),
           session.expected # AnyVersion =>
              /\ session = sess[s] /\ sess[s].pc = "asked" /\ sess[s].plan = p
              /\ session.expected = plan[p].version
    PROVE  TurnStep(s)
<1> DEFINE fields == Locked(session, p)
<1>1. /\ fields.pc = "locked" /\ fields.plan = p /\ fields.row = plan[p]
      /\ fields.content = Contents(p) /\ fields.expected = session.expected
      /\ fields.shown = session.shown
  BY DEF Locked, Session
<1> HIDE DEF fields
<1>2. sess'[s] = fields => TookLock(s)
  BY <1>1 DEF TookLock, RequirePending
<1> QED
  BY <1>2, Reading DEF fields

LEMMA DecideSteps ==
    ASSUME TInv, NEW s \in Sessions, Decide(s)
    PROVE  TurnStep(s)
<1>1. ASSUME NEW actor \in Members, NEW p \in Plans, NEW op \in Ops, View(s, actor, p, op)
      PROVE  TurnStep(s)
  <2> DEFINE fields == [Idle EXCEPT !.pc = "viewing", !.op = op, !.actor = actor,
                                    !.plan = p, !.row = plan[p]]
  <2>1. sess' = [sess EXCEPT ![s] = fields] /\ UNCHANGED tables /\ Exists(p)
    BY <1>1 DEF View, Begin
  <2>2. fields.pc = "viewing" /\ fields.plan = p /\ fields.row = plan[p]
    BY DEF Idle
  <2> HIDE DEF fields
  <2>3. sess'[s] = fields => Viewed(s)
    BY <2>1, <2>2 DEF Viewed
  <2> QED
    BY <2>1, <2>3, Reading
<1>2. CASE ViewItems(s)
  <2> DEFINE fields == [sess[s] EXCEPT !.pc = "asked", !.expected = sess[s].row.version,
                                       !.row = NoRow, !.shown = Contents(sess[s].plan)]
  <2>1. sess' = [sess EXCEPT ![s] = fields] /\ UNCHANGED tables /\ sess[s].pc = "viewing"
    BY <1>2 DEF ViewItems
  <2>2. sess[s] \in Session
    BY DEF TInv, TypeOK
  <2>3. /\ fields.pc = "asked" /\ fields.expected = sess[s].row.version
        /\ fields.shown = Contents(sess[s].plan) /\ fields.plan = sess[s].plan
    BY <2>2 DEF Session
  <2> HIDE DEF fields
  <2>4. sess'[s] = fields => Shown(s)
    BY <2>1, <2>3 DEF Shown
  <2> QED
    BY <2>1, <2>4, Reading
<1>3. ASSUME NEW actor \in Members, NEW p \in Plans, NEW op \in Ops, LockBlind(s, actor, p, op)
      PROVE  TurnStep(s)
  <2> DEFINE session == [Idle EXCEPT !.op = op, !.actor = actor]
  <2>1. session \in Session /\ session.expected = AnyVersion
    BY IdleType DEF Idle, Session
  <2>2. /\ sess' = [sess EXCEPT ![s] = Locked(session, p)] /\ UNCHANGED tables /\ LockFree(p)
        /\ RequirePending(plan[p])
    BY <1>3 DEF LockBlind, Begin, MayDecide
  <2> HIDE DEF session
  <2> QED
    BY <2>1, <2>2, LockingStep
<1>4. CASE Lock(s)
  <2>1. /\ sess' = [sess EXCEPT ![s] = Locked(sess[s], sess[s].plan)] /\ UNCHANGED tables
        /\ LockFree(sess[s].plan) /\ sess[s].pc = "asked"
        /\ RequirePending(plan[sess[s].plan])
        /\ RequireVersion(plan[sess[s].plan], sess[s].expected)
        /\ sess[s].plan \in Plans /\ sess[s] \in Session
    BY <1>4 DEF Lock, MayDecide, TInv, TypeOK, SessionsKnow
  <2>2. sess[s].expected # AnyVersion => sess[s].expected = plan[sess[s].plan].version
    BY <2>1 DEF RequireVersion
  <2> QED
    BY <2>1, <2>2, LockingStep
<1>5. CASE TurnAway(s)
  BY <1>5, Ending DEF TurnAway
<1>6. ASSUME NEW d \in {"APPROVED", "REJECTED"}, sess[s].pc = "locked", End(s),
             plan' = [plan EXCEPT ![sess[s].plan] = Decided(s, d)], UNCHANGED items,
             work' = IF d = "APPROVED"
                     THEN [work EXCEPT ![sess[s].plan] = Append(@, sess[s].content)] ELSE work
      PROVE  TurnStep(s)
  <2>1. PICK p \in Plans : p = sess[s].plan
    BY <1>6 DEF TInv, SessionsKnow
  <2>2. PICK row : row = Decided(s, d)
    OBVIOUS
  <2>3. PICK content : content = sess[s].content
    OBVIOUS
  <2>4. /\ work'[p] = IF d = "APPROVED" THEN Append(work[p], content) ELSE work[p]
        /\ \A q \in Plans \ {p} : work'[q] = work[q]
    BY <1>6, <2>1, <2>3 DEF TInv, TypeOK
  <2>5. /\ plan'[p] = row /\ Contents(p)' = Contents(p) /\ ItemsStay
        /\ \A q \in Plans \ {p} : PlanLeft(q)
    BY <1>6, <2>1, <2>2, <2>4, RowCommitted
  <2>6. DecidedAs(s, p, d)
    BY <1>6, <2>1, <2>2, <2>3, <2>4, <2>5 DEF DecidedAs
  <2> QED
    BY <1>6, <2>5, <2>6, Committing
<1>7. CASE CommitApprove(s)
  BY <1>6, <1>7 DEF CommitApprove
<1>8. CASE CommitReject(s)
  BY <1>6, <1>8 DEF CommitReject
<1> QED
  BY <1>1, <1>2, <1>3, <1>4, <1>5, <1>7, <1>8 DEF Decide

LEMMA EveryTurn ==
    ASSUME TInv, ItemsChosen, FirstVersions, [Next]_vars
    PROVE  \/ \E s \in Sessions : TurnStep(s)
           \/ UNCHANGED <<plan, items, work, sess>>
<1>1. ASSUME NEW s \in Sessions, Fail(s) \/ Crash(s)
      PROVE  TurnStep(s)
  BY <1>1, Ending DEF Fail, Crash
<1>2. ASSUME NEW w \in Scopes, CancelScope(w)
      PROVE  UNCHANGED <<plan, items, work, sess>>
  BY <1>2 DEF CancelScope
<1> QED
  BY <1>1, <1>2, CreateSteps, EditSteps, SubmitSteps, DecideSteps DEF Next, vars
-----------------------------------------------------------------------------
\* What a commit makes of the plan it is about.

LEMMA EditedIs ==
    ASSUME TInv, NEW s \in Sessions, NEW p \in Plans, Edited(s, p)
    PROVE  /\ Exists(p) /\ Editing(sess[s]) /\ plan'[p].status = plan[p].status
           /\ plan'[p].version = sess[s].row.version + 1
<1>1. PICK v : v = sess[s].row.version + 1
  OBVIOUS
<1>2. plan'[p] = [plan[p] EXCEPT !.version = v]
  BY <1>1 DEF Edited
<1>3. plan'[p].status = plan[p].status /\ plan'[p].version = v
  BY <1>2 DEF TInv, TypeOK, PlanRow
<1> QED
  BY <1>1, <1>3 DEF Edited, Editing, TInv, SessionsKnow

LEMMA SentIs ==
    ASSUME TInv, NEW s \in Sessions, NEW p \in Plans, Sent(s, p)
    PROVE  /\ Exists(p) /\ Editing(sess[s]) /\ plan'[p].status = "PENDING_APPROVAL"
           /\ plan'[p].version = sess[s].row.version + 1
<1>1. p = sess[s].plan /\ plan'[p] = Submitted(s)
  BY DEF Sent
<1>2. plan[p] \in PlanRow
  BY DEF TInv, TypeOK
<1>3. plan'[p].status = "PENDING_APPROVAL" /\ plan'[p].version = sess[s].row.version + 1
  BY <1>1, <1>2 DEF Submitted, PlanRow
<1> QED
  BY <1>3 DEF Sent, Editing, TInv, SessionsKnow

LEMMA DecidedIs ==
    ASSUME TInv, NEW s \in Sessions, NEW p \in Plans, NEW d, DecidedAs(s, p, d)
    PROVE  /\ Exists(p) /\ sess[s].pc = "locked" /\ sess[s].plan = p /\ plan'[p].status = d
           /\ plan'[p].version = sess[s].row.version + 1
<1>1. p = sess[s].plan /\ plan'[p] = Decided(s, d)
  BY DEF DecidedAs
<1>2. plan[p] \in PlanRow
  BY DEF TInv, TypeOK
<1>3. plan'[p].status = d /\ plan'[p].version = sess[s].row.version + 1
  BY <1>1, <1>2 DEF Decided, PlanRow
<1> QED
  BY <1>3 DEF DecidedAs, TInv, SessionsKnow

LEMMA CreatedIs ==
    ASSUME TInv, NEW s \in Sessions, NEW p \in Plans, Created(s, p)
    PROVE  /\ ~ Exists(p) /\ plan'[p] = sess[s].row /\ plan'[p].status = "DRAFT"
BY DEF Created, Drafting, TInv, SessionsKnow

LEMMA IdleIsIdle == Idle.pc = "idle" /\ ~ Drafting(Idle) /\ ~ Editing(Idle)
BY DEF Idle, Drafting, Editing

\* No commit changes a plan another request has locked.
LEMMA LockedIsLeft ==
    ASSUME TInv, LocksHold, NEW s \in Sessions, Commits(s), NEW r \in Sessions \ {s},
           sess[r].pc = "locked"
    PROVE  sess[r].plan \in Plans /\ PlanLeft(sess[r].plan)
<1>1. sess[r].plan \in Plans /\ Exists(sess[r].plan)
  BY DEF TInv, SessionsKnow
<1>2. PICK p \in Plans : /\ \/ Created(s, p) \/ Edited(s, p) \/ Sent(s, p)
                            \/ \E d \in {"APPROVED", "REJECTED"} : DecidedAs(s, p, d)
                         /\ \A q \in Plans \ {p} : PlanLeft(q)
  BY DEF Commits
<1>3. sess[r].plan # p
  <2>1. CASE Created(s, p)
    BY <1>1, <2>1, CreatedIs
  <2>2. CASE Edited(s, p) \/ Sent(s, p)
    BY <2>2 DEF Edited, Sent, LockFree
  <2>3. ASSUME NEW d, DecidedAs(s, p, d)
        PROVE  sess[r].plan # p
    BY <2>3 DEF DecidedAs, LocksHold
  <2> QED
    BY <1>2, <2>1, <2>2, <2>3
<1> QED
  BY <1>1, <1>2, <1>3

LEMMA TurnKeepsLocks ==
    ASSUME TInv, LocksHold, NEW s \in Sessions, TurnStep(s)
    PROVE  LocksHold'
<1>0. \A r \in Sessions \ {s} : sess'[r] = sess[r]
  BY DEF TurnStep
<1>1. CASE Commits(s)
  <2>1. sess'[s].pc = "idle"
    BY <1>1, IdleIsIdle DEF Commits
  <2>2. ASSUME NEW r \in Sessions, sess'[r].pc = "locked"
        PROVE  r # s /\ sess'[r] = sess[r] /\ plan'[sess[r].plan] = plan[sess[r].plan]
    BY <1>0, <1>1, <2>1, <2>2, LockedIsLeft DEF PlanLeft
  <2> QED
    BY <2>2 DEF LocksHold
<1>2. CASE Reads(s) /\ ~ TookLock(s)
  <2>1. sess'[s].pc # "locked"
    BY <1>2, IdleIsIdle
       DEF Reads, ReadScope, ReadPlan, ReadItem, Viewed, Shown, Drafting
  <2>2. ASSUME NEW r \in Sessions, sess'[r].pc = "locked"
        PROVE  r # s /\ sess'[r] = sess[r] /\ plan'[sess[r].plan] = plan[sess[r].plan]
    BY <1>0, <1>2, <2>1, <2>2 DEF Reads, PlanLeft, TInv, SessionsKnow
  <2> QED
    BY <2>2 DEF LocksHold
<1>3. CASE Reads(s) /\ TookLock(s)
  <2>1. /\ sess'[s].plan \in Plans /\ sess'[s].row = plan[sess'[s].plan]
        /\ plan[sess'[s].plan].status = "PENDING_APPROVAL" /\ LockFree(sess'[s].plan)
        /\ plan'[sess'[s].plan] = plan[sess'[s].plan]
    BY <1>3 DEF TookLock, Reads, PlanLeft
  <2>2. ASSUME NEW r \in Sessions \ {s}, sess'[r].pc = "locked"
        PROVE  /\ sess'[r] = sess[r] /\ plan'[sess[r].plan] = plan[sess[r].plan]
               /\ sess[r].plan # sess'[s].plan
    BY <1>0, <1>3, <2>1, <2>2 DEF Reads, PlanLeft, TInv, SessionsKnow, LockFree
  <2> QED
    BY <2>1, <2>2 DEF LocksHold
<1> QED
  BY <1>1, <1>2, <1>3 DEF TurnStep

LEMMA TurnKeepsLockedContents ==
    ASSUME TInv, LocksHold, LockedContents, NEW s \in Sessions, TurnStep(s)
    PROVE  LockedContents'
<1> SUFFICES ASSUME NEW r \in Sessions, sess'[r].pc = "locked"
             PROVE  sess'[r].content = Contents(sess[r].plan)'
  BY DEF LockedContents
<1>1. CASE sess'[r] = sess[r] /\ sess[r].pc = "locked"
  <2>1. PICK q \in Plans : q = sess[r].plan
    BY <1>1 DEF TInv, SessionsKnow
  <2>2. r # s \/ Reads(s)
    BY <1>1, IdleIsIdle DEF TurnStep, Commits
  <2>3. Contents(q)' = Contents(q)
    BY <1>1, <2>1, <2>2, LockedIsLeft DEF TurnStep, Reads, PlanLeft
  <2> QED
    BY <1>1, <2>1, <2>3 DEF LockedContents
<1>2. CASE r = s /\ Reads(s) /\ TookLock(s)
  <2>1. PICK q \in Plans : q = sess'[s].plan
    BY <1>2 DEF TookLock
  <2>2. sess'[s].content = Contents(q) /\ Contents(q)' = Contents(q)
    BY <1>2, <2>1 DEF TookLock, Reads, PlanLeft
  <2> QED
    BY <1>2, <2>1, <2>2
<1>3. CASE r # s
  BY <1>1, <1>3 DEF TurnStep
<1> QED
  BY <1>2, <1>3, IdleIsIdle
     DEF TurnStep, Commits, Reads, ReadScope, ReadPlan, ReadItem, Viewed, Shown, Drafting

LEMMA TurnKeepsStatusChecked ==
    ASSUME StatusChecked, NEW s \in Sessions, TurnStep(s)
    PROVE  StatusChecked'
<1> SUFFICES ASSUME NEW r \in Sessions, Editing(sess'[r])
             PROVE  /\ sess'[r].row.status \in OpenStatuses
                    /\ sess'[r].op = "submit" => sess'[r].row.status = "DRAFT"
  BY DEF StatusChecked, Editing
<1>1. CASE r # s
  BY <1>1 DEF TurnStep, StatusChecked
<1>2. CASE r = s
  <2>1. ReadPlan(s) \/ ReadItem(s)
    BY <1>2, IdleIsIdle
       DEF TurnStep, Commits, Reads, ReadScope, Viewed, Shown, TookLock, Editing, Drafting
  <2>2. CASE ReadPlan(s)
    BY <1>2, <2>2 DEF ReadPlan, StatusAllows, OpenStatuses
  <2>3. CASE ReadItem(s)
    BY <1>2, <2>3 DEF ReadItem, SameRequest, StatusChecked, Editing
  <2> QED
    BY <2>1, <2>2, <2>3
<1> QED
  BY <1>1, <1>2

LEMMA TurnKeepsItemsChosen ==
    ASSUME TInv, ItemsChosen, NEW s \in Sessions, TurnStep(s)
    PROVE  ItemsChosen'
<1>0. ItemsStay /\ \A r \in Sessions \ {s} : sess'[r] = sess[r]
  BY DEF TurnStep
<1>1. ASSUME NEW r \in Sessions \ {s}, sess'[r].pc = "ready", sess'[r].op \in {"update", "remove"}
      PROVE  sess'[r].item \in Items /\ items'[sess'[r].item].plan = sess'[r].plan
  BY <1>0, <1>1 DEF ItemsChosen, ItemsStay, TInv, SessionsKnow
<1>2. ASSUME sess'[s].pc = "ready", sess'[s].op \in {"update", "remove"}
      PROVE  sess'[s].item \in Items /\ items'[sess'[s].item].plan = sess'[s].plan
  <2>1. ReadItem(s) /\ UNCHANGED items
    BY <1>2, IdleIsIdle
       DEF TurnStep, Commits, Reads, ReadScope, ReadPlan, Viewed, Shown, TookLock, Drafting
  <2> QED
    BY <1>2, <2>1 DEF ReadItem, SameRequest
<1> QED
  BY <1>1, <1>2 DEF ItemsChosen

LEMMA TurnKeepsFirstVersions ==
    ASSUME TInv, FirstVersions, NEW s \in Sessions, TurnStep(s)
    PROVE  FirstVersions'
<1>1. ASSUME NEW q \in Plans, ~ Exists(q)'
      PROVE  ~ Exists(q) /\ plan'[q] = plan[q]
  <2>1. CASE PlanLeft(q)
    BY <1>1, <2>1 DEF PlanLeft, Exists
  <2>2. CASE ~ PlanLeft(q)
    <3>1. Commits(s)
      BY <2>2 DEF TurnStep, Reads
    <3>2. \/ Created(s, q) \/ Edited(s, q) \/ Sent(s, q)
          \/ \E d \in {"APPROVED", "REJECTED"} : DecidedAs(s, q, d)
      BY <2>2, <3>1 DEF Commits
    <3>3. plan'[q].status = "NONE"
      BY <1>1 DEF Exists
    <3> QED
      BY <3>2, <3>3, CreatedIs, EditedIs, SentIs, DecidedIs DEF Exists
  <2> QED
    BY <2>1, <2>2
<1>2. ASSUME NEW r \in Sessions, Drafting(sess'[r])
      PROVE  sess'[r].row.version = 1
  <2>1. CASE r # s
    BY <1>2, <2>1 DEF TurnStep, FirstVersions
  <2>2. CASE r = s
    <3>1. ReadScope(s) \/ ReadItem(s)
      BY <1>2, <2>2, IdleIsIdle
         DEF TurnStep, Commits, Reads, ReadPlan, Viewed, Shown, TookLock, Drafting
    <3>2. ~ ReadItem(s)
      BY <1>2, <2>2 DEF ReadItem, SameRequest, Drafting
    <3> QED
      BY <2>2, <3>1, <3>2 DEF ReadScope
  <2> QED
    BY <2>1, <2>2
<1> QED
  BY <1>1, <1>2 DEF FirstVersions
LEMMA InitBInv == Init => BInv
<1> SUFFICES ASSUME Init PROVE BInv
  OBVIOUS
<1>1. LocksHold /\ LockedContents /\ StatusChecked /\ ItemsChosen
  BY IdleIsIdle DEF Init, LocksHold, LockedContents, StatusChecked, ItemsChosen
<1>2. FirstVersions
  BY IdleIsIdle DEF Init, FirstVersions, NoRow, Exists
<1> QED
  BY <1>1, <1>2, InitTInv, InitStampAgrees DEF BInv

LEMMA StepKeepsBInv == BInv /\ [Next]_vars => BInv'
<1> SUFFICES ASSUME BInv, [Next]_vars PROVE BInv'
  OBVIOUS
<1>1. TInv' /\ StampAgrees'
  BY StepKeepsTInv, StepKeepsStampAgrees DEF BInv
<1>2. LocksHold' /\ LockedContents' /\ StatusChecked' /\ ItemsChosen' /\ FirstVersions'
  <2>1. ASSUME NEW s \in Sessions, TurnStep(s)
        PROVE  LocksHold' /\ LockedContents' /\ StatusChecked' /\ ItemsChosen' /\ FirstVersions'
    BY <2>1, TurnKeepsLocks, TurnKeepsLockedContents, TurnKeepsStatusChecked,
       TurnKeepsItemsChosen, TurnKeepsFirstVersions DEF BInv
  <2>2. CASE UNCHANGED <<plan, items, work, sess>>
    <3>1. \A q : Contents(q)' = Contents(q)
      BY <2>2 DEF Contents
    <3>2. LocksHold' /\ LockedContents' /\ StatusChecked'
      BY <2>2, <3>1 DEF BInv, LocksHold, LockedContents, StatusChecked, Editing
    <3>3. ItemsChosen' /\ FirstVersions'
      BY <2>2 DEF BInv, ItemsChosen, FirstVersions, Exists, Drafting
    <3> QED
      BY <3>2, <3>3
  <2> QED
    BY <2>1, <2>2, EveryTurn DEF BInv
<1> QED
  BY <1>1, <1>2 DEF BInv

\* Under its lock a plan is as the deciding request read it, whatever requests
\* overlap: SELECT ... FOR UPDATE with populate_existing (approval.py:195), and
\* every UPDATE waits for the lock.
THEOREM LockedIsCurrent == Spec => []BInv
BY InitBInv, StepKeepsBInv, PTL DEF Spec
-----------------------------------------------------------------------------
(***************************************************************************)
(* One editor.  Everybody else only decides, so the editor's reading of a  *)
(* plan goes stale in one way: a decision of the pending plan it read.     *)
(* What the editor then writes is the version the decision wrote.          *)
(***************************************************************************)

OnlyEditor(e) == \A s \in Sessions \ {e} : MayIssue[s] \subseteq {"approve", "reject"}

OthersDecide(e) == \A s \in Sessions \ {e} : sess[s].pc \notin {"loaded", "ready"}

\* The plan has been decided since the request read it.
DecidedSince(session) ==
    /\ session.row.status = "PENDING_APPROVAL"
    /\ plan[session.plan].status \in {"APPROVED", "REJECTED"}
    /\ plan[session.plan].version = session.row.version + 1

EditorReads(e) ==
    Editing(sess[e]) => plan[sess[e].plan] = sess[e].row \/ DecidedSince(sess[e])

\* What a person was shown is what the plan holds, as long as it is pending at
\* the version shown.
ShownIsCurrent ==
    \A s \in Sessions :
        LET p == sess[s].plan
        IN  /\ sess[s].pc = "viewing" => sess[s].row.version <= plan[p].version
            /\ sess[s].pc = "asked" =>
                  /\ sess[s].expected <= plan[p].version
                  /\ sess[s].expected = plan[p].version
                        /\ plan[p].status = "PENDING_APPROVAL" => sess[s].shown = Contents(p)
            /\ sess[s].pc = "locked" /\ sess[s].expected # AnyVersion =>
                  sess[s].shown = sess[s].content

EInv(e) == BInv /\ OthersDecide(e) /\ EditorReads(e) /\ ShownIsCurrent

\* A step moves a plan's version by one, unless it edits a decided plan.
Moved(p) ==
    /\ plan'[p].version = plan[p].version + 1
    /\ plan[p].status \notin {"APPROVED", "REJECTED"}

MovedLate(p) ==
    /\ plan[p].status \in {"APPROVED", "REJECTED"} /\ plan'[p].status = plan[p].status
    /\ plan'[p].version = plan[p].version /\ work'[p] = work[p]

LEMMA OneEditorMoves ==
    ASSUME NEW e \in Sessions, EInv(e), NEW s \in Sessions, TurnStep(s), NEW q \in Plans
    PROVE  PlanLeft(q) \/ Moved(q) \/ MovedLate(q)
<1> SUFFICES ASSUME ~ PlanLeft(q) PROVE Moved(q) \/ MovedLate(q)
  OBVIOUS
<1>0. /\ TInv /\ StampAgrees /\ LocksHold /\ StatusChecked /\ FirstVersions
      /\ OthersDecide(e) /\ EditorReads(e)
  BY DEF EInv, BInv
<1>1. \/ Created(s, q) \/ Edited(s, q) \/ Sent(s, q)
      \/ \E d \in {"APPROVED", "REJECTED"} : DecidedAs(s, q, d)
  BY DEF TurnStep, Reads, Commits
<1>2. CASE Created(s, q)
  <2>1. ~ Exists(q) /\ plan'[q] = sess[s].row /\ Drafting(sess[s])
    BY <1>0, <1>2, CreatedIs DEF Created
  <2>2. plan[q].version = 0 /\ sess[s].row.version = 1 /\ plan[q].status = "NONE"
    BY <1>0, <2>1 DEF FirstVersions, Exists
  <2> QED
    BY <2>1, <2>2 DEF Moved
<1>3. CASE Edited(s, q)
  <2>1. /\ Editing(sess[s]) /\ plan'[q].status = plan[q].status /\ q = sess[s].plan
        /\ plan'[q].version = sess[s].row.version + 1 /\ work'[q] = work[q] /\ s = e
    BY <1>0, <1>3, EditedIs DEF Edited, OthersDecide
  <2> QED
    BY <1>0, <2>1 DEF StatusChecked, EditorReads, DecidedSince, Moved, MovedLate, OpenStatuses
<1>4. CASE Sent(s, q)
  <2>1. /\ Editing(sess[s]) /\ q = sess[s].plan /\ sess[s].op = "submit"
        /\ plan'[q].version = sess[s].row.version + 1 /\ s = e
    BY <1>0, <1>4, SentIs DEF Sent, OthersDecide
  <2> QED
    BY <1>0, <2>1 DEF StatusChecked, EditorReads, DecidedSince, Moved
<1>5. ASSUME NEW d \in {"APPROVED", "REJECTED"}, DecidedAs(s, q, d)
      PROVE  Moved(q)
  <2>1. /\ sess[s].pc = "locked" /\ sess[s].plan = q
        /\ plan'[q].version = sess[s].row.version + 1
    BY <1>0, <1>5, DecidedIs
  <2> QED
    BY <1>0, <2>1 DEF LocksHold, Moved
<1> QED
  BY <1>1, <1>2, <1>3, <1>4, <1>5

LEMMA TurnKeepsOthersDecide ==
    ASSUME NEW e \in Sessions, OnlyEditor(e), OthersDecide(e), NEW s \in Sessions, TurnStep(s)
    PROVE  OthersDecide(e)'
<1> SUFFICES ASSUME NEW r \in Sessions \ {e}, sess'[r].pc \in {"loaded", "ready"} PROVE FALSE
  BY DEF OthersDecide
<1>1. r = s
  BY DEF TurnStep, OthersDecide
<1>2. ReadScope(s) \/ ReadPlan(s) \/ ReadItem(s)
  BY <1>1, IdleIsIdle DEF TurnStep, Commits, Reads, Viewed, Shown, TookLock
<1> QED
  BY <1>1, <1>2 DEF ReadScope, ReadPlan, ReadItem, OnlyEditor, OthersDecide

LEMMA TurnKeepsEditorReads ==
    ASSUME NEW e \in Sessions, EInv(e), NEW s \in Sessions, TurnStep(s)
    PROVE  EditorReads(e)'
<1> SUFFICES ASSUME Editing(sess'[e])
             PROVE  \/ plan'[sess'[e].plan] = sess'[e].row
                    \/ /\ sess'[e].row.status = "PENDING_APPROVAL"
                       /\ plan'[sess'[e].plan].status \in {"APPROVED", "REJECTED"}
                       /\ plan'[sess'[e].plan].version = sess'[e].row.version + 1
  BY DEF EditorReads, DecidedSince, Editing
<1>0. /\ TInv /\ LocksHold /\ OthersDecide(e) /\ EditorReads(e)
  BY DEF EInv, BInv
<1>1. CASE s = e
  <2>1. Reads(s) /\ (ReadPlan(s) \/ ReadItem(s))
    BY <1>1, IdleIsIdle
       DEF TurnStep, Commits, Reads, ReadScope, Viewed, Shown, TookLock, Editing, Drafting
  <2>2. \A q \in Plans : plan'[q] = plan[q]
    BY <2>1 DEF Reads, PlanLeft
  <2>3. CASE ReadPlan(s)
    BY <1>1, <2>2, <2>3 DEF ReadPlan
  <2>4. CASE ReadItem(s)
    <3>1. Editing(sess[e]) /\ SameRequest(e)
      BY <1>1, <2>4 DEF ReadItem, Editing
    <3>2. sess[e].plan \in Plans
      BY <1>0, <3>1 DEF TInv, SessionsKnow, Editing
    <3> QED
      BY <1>0, <2>2, <3>1, <3>2 DEF EditorReads, DecidedSince, SameRequest
  <2> QED
    BY <2>1, <2>3, <2>4
<1>2. CASE s # e
  <2>1. sess'[e] = sess[e] /\ Editing(sess[e])
    BY <1>2 DEF TurnStep
  <2>2. PICK q \in Plans : q = sess[e].plan
    BY <1>0, <2>1 DEF TInv, SessionsKnow, Editing
  <2>3. CASE PlanLeft(q)
    BY <1>0, <2>1, <2>2, <2>3 DEF PlanLeft, EditorReads, DecidedSince
  <2>4. CASE ~ PlanLeft(q)
    <3>1. \/ Created(s, q) \/ Edited(s, q) \/ Sent(s, q)
          \/ \E d \in {"APPROVED", "REJECTED"} : DecidedAs(s, q, d)
      BY <2>4 DEF TurnStep, Reads, Commits
    <3>2. PICK d \in {"APPROVED", "REJECTED"} : DecidedAs(s, q, d)
      BY <1>0, <1>2, <3>1 DEF Created, Drafting, Edited, Sent, OthersDecide
    <3>3. /\ sess[s].pc = "locked" /\ sess[s].plan = q /\ plan'[q].status = d
          /\ plan'[q].version = sess[s].row.version + 1
      BY <1>0, <3>2, DecidedIs
    <3>4. plan[q] = sess[s].row /\ plan[q].status = "PENDING_APPROVAL"
      BY <1>0, <3>3 DEF LocksHold
    <3>5. plan[q] = sess[e].row
      BY <1>0, <2>1, <2>2, <3>4 DEF EditorReads, DecidedSince
    <3> QED
      BY <1>0, <2>1, <2>2, <3>3, <3>4, <3>5 DEF EditorReads
  <2> QED
    BY <2>3, <2>4
<1> QED
  BY <1>1, <1>2

LEMMA TurnKeepsShownIsCurrent ==
    ASSUME NEW e \in Sessions, EInv(e), NEW s \in Sessions, TurnStep(s)
    PROVE  ShownIsCurrent'
<1> SUFFICES ASSUME NEW r \in Sessions
             PROVE  /\ sess'[r].pc = "viewing" =>
                          sess'[r].row.version <= plan'[sess'[r].plan].version
                    /\ sess'[r].pc = "asked" =>
                          /\ sess'[r].expected <= plan'[sess'[r].plan].version
                          /\ sess'[r].expected = plan'[sess'[r].plan].version
                                /\ plan'[sess'[r].plan].status = "PENDING_APPROVAL" =>
                                sess'[r].shown = Contents(sess[r].plan)'
                    /\ sess'[r].pc = "locked" /\ sess'[r].expected # AnyVersion =>
                          sess'[r].shown = sess'[r].content
  BY DEF ShownIsCurrent
<1>0. TInv /\ ShownIsCurrent
  BY DEF EInv, BInv
<1>1. CASE r # s
  <2>1. sess'[r] = sess[r]
    BY <1>1 DEF TurnStep
  <2>2. CASE sess[r].pc \in {"viewing", "asked"}
    <3>1. PICK q \in Plans : q = sess[r].plan
      BY <1>0, <2>2 DEF TInv, SessionsKnow
    <3>2. PlanLeft(q) \/ Moved(q) \/ MovedLate(q)
      BY OneEditorMoves
    <3>3. /\ plan[q].version \in Nat /\ sess[r].expected \in Nat /\ sess[r].row.version \in Nat
      BY <1>0 DEF TInv, TypeOK, PlanRow, Session
    <3>4. sess[r].pc = "viewing" => sess[r].row.version <= plan[q].version
      BY <1>0, <3>1 DEF ShownIsCurrent
    <3>5. sess[r].pc = "asked" =>
             /\ sess[r].expected <= plan[q].version
             /\ sess[r].expected = plan[q].version /\ plan[q].status = "PENDING_APPROVAL" =>
                   sess[r].shown = Contents(q)
      BY <1>0, <3>1 DEF ShownIsCurrent
    <3> QED
      BY <2>1, <2>2, <3>1, <3>2, <3>3, <3>4, <3>5 DEF PlanLeft, Moved, MovedLate
  <2>3. CASE sess[r].pc \notin {"viewing", "asked"}
    BY <1>0, <2>1, <2>3 DEF ShownIsCurrent
  <2> QED
    BY <2>2, <2>3
<1>2. CASE r = s
  <2>1. CASE Reads(s) /\ Viewed(s)
    <3>1. PICK q \in Plans : q = sess'[s].plan
      BY <2>1 DEF Viewed
    <3>2. sess'[s].pc = "viewing" /\ sess'[s].row = plan[q] /\ plan'[q] = plan[q]
      BY <2>1, <3>1 DEF Viewed, Reads, PlanLeft
    <3>3. plan[q].version \in Nat
      BY <1>0 DEF TInv, TypeOK, PlanRow
    <3> QED
      BY <1>2, <3>1, <3>2, <3>3
  <2>2. CASE Reads(s) /\ Shown(s)
    <3>1. PICK q \in Plans : q = sess[s].plan
      BY <1>0, <2>2 DEF Shown, TInv, SessionsKnow
    <3>2. /\ sess[s].pc = "viewing" /\ sess'[s].pc = "asked" /\ sess'[s].plan = q
          /\ sess'[s].expected = sess[s].row.version /\ sess'[s].shown = Contents(q)
          /\ plan'[q] = plan[q] /\ Contents(q)' = Contents(q)
      BY <2>2, <3>1 DEF Shown, Reads, PlanLeft
    <3>3. sess[s].row.version <= plan[q].version
      BY <1>0, <3>1, <3>2 DEF ShownIsCurrent
    <3> QED
      BY <1>2, <3>2, <3>3
  <2>3. CASE Reads(s) /\ TookLock(s)
    <3>1. PICK q \in Plans : q = sess'[s].plan
      BY <2>3 DEF TookLock
    <3>2. /\ sess'[s].pc = "locked" /\ sess'[s].content = Contents(q)
          /\ plan[q].status = "PENDING_APPROVAL"
          /\ sess'[s].expected # AnyVersion =>
                /\ sess[s].pc = "asked" /\ sess[s].plan = q
                /\ sess[s].expected = plan[q].version /\ sess'[s].shown = sess[s].shown
      BY <2>3, <3>1 DEF TookLock
    <3>3. sess'[s].expected # AnyVersion => sess[s].shown = Contents(q)
      BY <1>0, <3>2 DEF ShownIsCurrent
    <3> QED
      BY <1>2, <3>2, <3>3
  <2>4. CASE sess'[s].pc \notin {"viewing", "asked", "locked"}
    BY <1>2, <2>4
  <2> QED
    BY <2>1, <2>2, <2>3, <2>4, IdleIsIdle
       DEF TurnStep, Commits, Reads, ReadScope, ReadPlan, ReadItem, Drafting
<1> QED
  BY <1>1, <1>2

LEMMA OneEditorInit == ASSUME NEW e \in Sessions, Init PROVE EInv(e)
<1>1. \A s \in Sessions : sess[s] = Idle
  BY DEF Init
<1>2. OthersDecide(e) /\ EditorReads(e) /\ ShownIsCurrent
  BY <1>1, IdleIsIdle DEF OthersDecide, EditorReads, ShownIsCurrent
<1> QED
  BY <1>2, InitBInv DEF EInv

LEMMA OneEditorKeeps ==
    ASSUME NEW e \in Sessions, OnlyEditor(e), EInv(e), [Next]_vars
    PROVE  EInv(e)'
<1>1. BInv'
  BY StepKeepsBInv DEF EInv
<1>2. OthersDecide(e)' /\ EditorReads(e)' /\ ShownIsCurrent'
  <2>1. ASSUME NEW s \in Sessions, TurnStep(s)
        PROVE  OthersDecide(e)' /\ EditorReads(e)' /\ ShownIsCurrent'
    BY <2>1, TurnKeepsOthersDecide, TurnKeepsEditorReads, TurnKeepsShownIsCurrent DEF EInv
  <2>2. CASE UNCHANGED <<plan, items, work, sess>>
    <3>1. \A q : Contents(q)' = Contents(q)
      BY <2>2 DEF Contents
    <3> QED
      BY <2>2, <3>1 DEF EInv, OthersDecide, EditorReads, ShownIsCurrent, DecidedSince, Editing
  <2> QED
    BY <2>1, <2>2, EveryTurn DEF EInv, BInv
<1> QED
  BY <1>1, <1>2 DEF EInv

\* A rejected plan stays rejected while one request at a time edits, whatever
\* the requests deciding it do (states.py: "APPROVED and REJECTED are
\* terminal").
THEOREM RejectedIsFinalHolds ==
    ASSUME NEW editor \in Sessions, OnlyEditor(editor)
    PROVE  Spec => RejectedIsFinal
<1> DEFINE Final == \A p \in Plans : plan[p].status = "REJECTED" => plan'[p].status = "REJECTED"
<1>1. Init => EInv(editor)
  BY OneEditorInit
<1>2. EInv(editor) /\ [Next]_vars => EInv(editor)'
  BY OneEditorKeeps
<1>3. EInv(editor) /\ [Next]_vars => Final
  <2> SUFFICES ASSUME EInv(editor), [Next]_vars, NEW p \in Plans, plan[p].status = "REJECTED"
               PROVE  plan'[p].status = "REJECTED"
    OBVIOUS
  <2>1. CASE UNCHANGED <<plan, items, work, sess>>
    BY <2>1
  <2>2. ASSUME NEW s \in Sessions, TurnStep(s)
        PROVE  plan'[p].status = "REJECTED"
    BY <2>2, OneEditorMoves DEF PlanLeft, Moved, MovedLate
  <2> QED
    BY <2>1, <2>2, EveryTurn DEF EInv, BInv
<1> QED
  BY <1>1, <1>2, <1>3, PTL DEF Spec, RejectedIsFinal

\* Who approves a version gets what was shown with that version, while one
\* request at a time edits ("an edit between 'here is the plan' and 'approve'
\* cannot be mistaken for agreement to the new text", service.py:296).
THEOREM AgreedToWhatWasShownHolds ==
    ASSUME NEW editor \in Sessions, OnlyEditor(editor)
    PROVE  Spec => AgreedToWhatWasShown
<1> DEFINE Agreed == \A s \in Sessions : \A p \in Plans :
                        /\ sess[s].pc = "locked" /\ sess[s].plan = p
                        /\ sess[s].expected # AnyVersion
                        /\ work'[p] # work[p]
                        => work'[p] = Append(work[p], sess[s].shown)
<1>1. Init => EInv(editor)
  BY OneEditorInit
<1>2. EInv(editor) /\ [Next]_vars => EInv(editor)'
  BY OneEditorKeeps
<1>3. EInv(editor) /\ [Next]_vars => Agreed
  <2> SUFFICES ASSUME EInv(editor), [Next]_vars, NEW s \in Sessions, NEW p \in Plans,
                      sess[s].pc = "locked", sess[s].plan = p,
                      sess[s].expected # AnyVersion, work'[p] # work[p]
               PROVE  work'[p] = Append(work[p], sess[s].shown)
    OBVIOUS
  <2>1. PICK r \in Sessions : TurnStep(r)
    BY EveryTurn DEF EInv, BInv
  <2>2. PICK d \in {"APPROVED", "REJECTED"} : DecidedAs(r, p, d)
    BY <2>1 DEF TurnStep, Reads, Commits, PlanLeft, Created, Edited, Sent
  <2>3. r = s
    BY <2>2 DEF DecidedAs, EInv, BInv, LocksHold
  <2>4. sess[s].shown = sess[s].content
    BY DEF EInv, ShownIsCurrent
  <2> QED
    BY <2>2, <2>3, <2>4 DEF DecidedAs
<1> QED
  BY <1>1, <1>2, <1>3, PTL DEF Spec, AgreedToWhatWasShown
-----------------------------------------------------------------------------
(***************************************************************************)
(* However requests overlap, plans keep PlanLifecycle unless an edit or a  *)
(* submission commits that was overtaken.                                  *)
(***************************************************************************)

\* What has no approval has no tasks; the one approval makes all of them.
LEMMA TasksMade ==
    ASSUME TInv, StampAgrees, NEW p \in Plans, plan[p].status # "APPROVED"
    PROVE  /\ TasksOf(p) = {}
           /\ \A content : work'[p] = Append(work[p], content) => TasksOf(p)' = content
<1>1. work[p] \in Seq(SUBSET Task) /\ Len(work[p]) = 0
  BY DEF TInv, TypeOK, StampAgrees
<1>2. work[p] = <<>>
  BY <1>1
<1>3. TasksOf(p) = {}
  BY <1>2 DEF TasksOf
<1>4. ASSUME NEW content, work'[p] = Append(work[p], content)
      PROVE  TasksOf(p)' = content
  <2>1. work'[p] = <<content>>
    BY <1>2, <1>4
  <2>2. TasksOf(p)' = UNION {content}
    BY <2>1 DEF TasksOf
  <2> QED
    BY <2>2
<1> QED
  BY <1>3, <1>4

LEMMA TasksStay ==
    ASSUME NEW q, work'[q] = work[q]
    PROVE  TasksOf(q)' = TasksOf(q)
BY DEF TasksOf

StatusMap == [p \in Plans |-> plan[p].status]
VersionMap == [p \in Plans |-> plan[p].version]
ContentsMap == [p \in Plans |-> Contents(p)]
TasksMap == [p \in Plans |-> TasksOf(p)]

\* A move of one plan, while the others are left alone.
LEMMA LifecycleMove ==
    ASSUME NEW p \in Plans, \A q \in Plans \ {p} : PlanLeft(q), NEW to,
           plan'[p].status = to, plan'[p].version = plan[p].version + 1
    PROVE  /\ StatusMap' = [StatusMap EXCEPT ![p] = to]
           /\ VersionMap' = [VersionMap EXCEPT ![p] = @ + 1]
           /\ ContentsMap' = [ContentsMap EXCEPT ![p] = ContentsMap'[p]]
           /\ TasksMap' = [TasksMap EXCEPT ![p] = TasksMap'[p]]
           /\ Contents(p)' = Contents(p) => ContentsMap' = ContentsMap
           /\ work'[p] = work[p] => TasksMap' = TasksMap
<1>1. \A q \in Plans : q # p => /\ plan'[q] = plan[q] /\ Contents(q)' = Contents(q)
                                /\ TasksOf(q)' = TasksOf(q)
  BY TasksStay DEF PlanLeft
<1>2. /\ StatusMap' = [q \in Plans |-> plan'[q].status]
      /\ VersionMap' = [q \in Plans |-> plan'[q].version]
      /\ ContentsMap' = [q \in Plans |-> Contents(q)']
      /\ TasksMap' = [q \in Plans |-> TasksOf(q)']
  BY DEF StatusMap, VersionMap, ContentsMap, TasksMap
<1>3. StatusMap' = [StatusMap EXCEPT ![p] = to]
  BY <1>1, <1>2 DEF StatusMap
<1>4. VersionMap' = [VersionMap EXCEPT ![p] = @ + 1]
  BY <1>1, <1>2 DEF VersionMap
<1>5. ContentsMap' = [ContentsMap EXCEPT ![p] = ContentsMap'[p]]
  BY <1>1, <1>2 DEF ContentsMap
<1>6. TasksMap' = [TasksMap EXCEPT ![p] = TasksMap'[p]]
  BY <1>1, <1>2 DEF TasksMap
<1>7. Contents(p)' = Contents(p) => ContentsMap' = ContentsMap
  BY <1>1, <1>2 DEF ContentsMap
<1>8. work'[p] = work[p] => TasksMap' = TasksMap
  BY <1>1, <1>2, TasksStay DEF TasksMap
<1> QED
  BY <1>3, <1>4, <1>5, <1>6, <1>7, <1>8

\* A commit that nothing overtook is a step of the lifecycle.
LEMMA CommitIsLifecycleStep ==
    ASSUME NEW s \in Sessions, BInv, ~ Overtaken(s), NEW p \in Plans,
           \/ Created(s, p) \/ Edited(s, p) \/ Sent(s, p)
           \/ \E d \in {"APPROVED", "REJECTED"} : DecidedAs(s, p, d),
           \A q \in Plans \ {p} : PlanLeft(q)
    PROVE  Lifecycle!Next
<1>0. /\ TInv /\ StampAgrees /\ LocksHold /\ LockedContents /\ StatusChecked /\ FirstVersions
      /\ plan[p] \in PlanRow
  BY DEF BInv, TInv, TypeOK
<1> USE DEF StatusMap, VersionMap, ContentsMap, TasksMap
<1>1. CASE Created(s, p)
  <2>1. /\ plan[p].status = "NONE" /\ plan'[p].status = "DRAFT"
        /\ plan'[p].version = plan[p].version + 1
        /\ Contents(p)' = Contents(p) /\ work'[p] = work[p]
    BY <1>0, <1>1, CreatedIs DEF Created, FirstVersions, Exists
  <2>2. Lifecycle!Draft(p)
    BY <2>1, LifecycleMove DEF Lifecycle!Draft, Lifecycle!Move
  <2> QED
    BY <2>2 DEF Lifecycle!Next
<1>2. CASE Edited(s, p)
  <2>1. plan[p] = sess[s].row /\ plan[p].status \in OpenStatuses
    BY <1>0, <1>2, EditedIs DEF Edited, Overtaken, StatusChecked
  <2>2. /\ plan'[p].status = plan[p].status /\ plan'[p].version = plan[p].version + 1
        /\ work'[p] = work[p]
    BY <1>0, <1>2, <2>1, EditedIs DEF Edited
  <2>3. PICK open \in OpenStatuses : open = plan[p].status
    BY <2>1
  <2>4. /\ StatusMap' = [StatusMap EXCEPT ![p] = open]
        /\ VersionMap' = [VersionMap EXCEPT ![p] = @ + 1]
        /\ ContentsMap' = [ContentsMap EXCEPT ![p] = ContentsMap'[p]]
        /\ TasksMap' = TasksMap
    BY <2>2, <2>3, LifecycleMove
  <2>5. Lifecycle!Move(p, open, open)
    BY <2>3, <2>4 DEF Lifecycle!Move
  <2>6. Lifecycle!Revise(p)
    BY <2>3, <2>4, <2>5 DEF OpenStatuses, Lifecycle!Revise
  <2> QED
    BY <2>6 DEF Lifecycle!Next
<1>3. CASE Sent(s, p)
  <2>1. /\ plan[p] = sess[s].row /\ plan[p].status = "DRAFT" /\ Contents(p) # {}
    <3>1. plan[p] = sess[s].row /\ ReadyToSend(sess[s].row, Contents(p))
      BY <1>3 DEF Sent, Overtaken
    <3>2. plan[p].status = "DRAFT"
      BY <1>0, <1>3, <3>1, SentIs DEF Sent, StatusChecked
    <3> QED
      BY <3>1, <3>2 DEF ReadyToSend
  <2>2. /\ plan'[p].status = "PENDING_APPROVAL" /\ plan'[p].version = plan[p].version + 1
        /\ Contents(p)' = Contents(p) /\ work'[p] = work[p]
    BY <1>0, <1>3, <2>1, SentIs DEF Sent
  <2>3. Lifecycle!Send(p)
    BY <2>1, <2>2, LifecycleMove DEF Lifecycle!Send, Lifecycle!Move
  <2> QED
    BY <2>3 DEF Lifecycle!Next
<1>4. ASSUME NEW d \in {"APPROVED", "REJECTED"}, DecidedAs(s, p, d)
      PROVE  Lifecycle!Next
  <2>1. /\ plan[p] = sess[s].row /\ plan[p].status = "PENDING_APPROVAL"
        /\ sess[s].content = Contents(p)
    BY <1>0, <1>4, DecidedIs DEF LocksHold, LockedContents
  <2>2. /\ plan'[p].status = d /\ plan'[p].version = plan[p].version + 1
        /\ Contents(p)' = Contents(p)
    BY <1>0, <1>4, <2>1, DecidedIs, SMTT(30) DEF DecidedAs
  <2>3. CASE d = "APPROVED"
    <3>1. work'[p] = Append(work[p], Contents(p))
      BY <1>4, <2>1, <2>3 DEF DecidedAs
    <3>2. TasksOf(p)' = Contents(p)
      BY <1>0, <2>1, <3>1, TasksMade
    <3>3. TasksMap'[p] = ContentsMap[p]
      BY <3>2
    <3>4. TasksMap' = [TasksMap EXCEPT ![p] = ContentsMap[p]]
      BY <2>2, <3>3, LifecycleMove
    <3>5. Lifecycle!Approve(p)
      BY <2>1, <2>2, <2>3, <3>4, LifecycleMove DEF Lifecycle!Approve, Lifecycle!Move
    <3> QED
      BY <3>5 DEF Lifecycle!Next
  <2>4. CASE d = "REJECTED"
    <3>1. work'[p] = work[p]
      BY <1>4, <2>4 DEF DecidedAs
    <3>2. Lifecycle!Reject(p)
      BY <2>1, <2>2, <2>4, <3>1, LifecycleMove DEF Lifecycle!Reject, Lifecycle!Move
    <3> QED
      BY <3>2 DEF Lifecycle!Next
  <2> QED
    BY <2>3, <2>4
<1> QED
  BY <1>1, <1>2, <1>3, <1>4

\* However requests overlap, plans keep their lifecycle unless an edit or a
\* submission that was overtaken commits: no request whose reads still hold, and
\* no decision at all, breaks states.py.
THEOREM LifecycleUnlessOvertakenHolds == Spec => LifecycleUnlessOvertaken
<1> DEFINE LateCommit == \E s \in Sessions : Overtaken(s) /\ sess'[s] = Idle
<1>1. Init => BInv
  BY InitBInv
<1>2. BInv /\ [Next]_vars => BInv'
  BY StepKeepsBInv
<1>3. Init => Lifecycle!Init
  <2> SUFFICES ASSUME Init PROVE Lifecycle!Init
    OBVIOUS
  <2>1. \A p \in Plans : plan[p].status = "NONE" /\ plan[p].version = 0 /\ work[p] = <<>>
    BY DEF Init, NoRow
  <2>2. \A p \in Plans : TasksOf(p) = {}
    BY <2>1 DEF TasksOf
  <2>3. \A p \in Plans : Contents(p) = {}
    BY DEF Init, Contents, NoItemRow
  <2> QED
    BY <2>1, <2>2, <2>3 DEF Lifecycle!Init
<1>4. BInv /\ [Next]_vars => [Lifecycle!Next \/ LateCommit]_(Lifecycle!vars)
  <2> SUFFICES ASSUME BInv, [Next]_vars
               PROVE  Lifecycle!Next \/ LateCommit \/ UNCHANGED Lifecycle!vars
    OBVIOUS
  <2>1. ASSUME \A q \in Plans : PlanLeft(q)
        PROVE  UNCHANGED Lifecycle!vars
    BY <2>1, TasksStay DEF PlanLeft, Lifecycle!vars
  <2>2. CASE UNCHANGED <<plan, items, work, sess>>
    BY <2>1, <2>2, TablesLeft
  <2>3. ASSUME NEW s \in Sessions, TurnStep(s)
        PROVE  Lifecycle!Next \/ LateCommit \/ UNCHANGED Lifecycle!vars
    <3>1. CASE Reads(s)
      BY <2>1, <3>1 DEF Reads
    <3>2. CASE Commits(s) /\ Overtaken(s)
      BY <3>2 DEF Commits
    <3>3. CASE Commits(s) /\ ~ Overtaken(s)
      BY <3>3, CommitIsLifecycleStep DEF Commits
    <3> QED
      BY <2>3, <3>1, <3>2, <3>3 DEF TurnStep
  <2> QED
    BY <2>2, <2>3, EveryTurn DEF BInv
<1> QED
  BY <1>1, <1>2, <1>3, <1>4, PTL DEF Spec, LifecycleUnlessOvertaken
=============================================================================
