------------------------ MODULE DelegatedWork_proofs ------------------------
(***************************************************************************)
(* Theorems about DelegatedWork for every value of its constants: the work *)
(* tree treats responsibilities as the plans take for granted, so that all *)
(* that is proved of the plans holds beside the tree; approvals keep the   *)
(* tree and its histories as its own requests do; and what they add stands.*)
(***************************************************************************)
EXTENDS DelegatedWork, DelegationPlans_decisions

USE DEF MaybeMember

-----------------------------------------------------------------------------
(***************************************************************************)
(* What WorkItems_proofs shows is about a copy of WorkItems of its own.    *)
(* The two copies, Tree and TreeFacts, have the same steps.                *)
(***************************************************************************)

TreeFacts == INSTANCE WorkItems_proofs WITH
    Sessions <- TreeSessions, item <- tree, sess <- treeSess

LEMMA TreeAssumptions ==
    /\ NoMember \notin Members /\ MaxDepth \in Nat \ {0}
    /\ Manager \in TreeFacts!Hierarchies
    /\ Superadmins \subseteq Members /\ ActiveMembers \subseteq Members
    /\ DOMAIN OrgOf = Members
    /\ NoWork \notin WorkIds
    /\ Owners \subseteq TreeFacts!MaybeMember
    /\ MayMove \in [TreeSessions -> SUBSET (TreeFacts!Moves \union {"create"})]
<1>1. TreeFacts!Moves \union {"create"} = {"create", "start", "complete", "cancel"}
  BY DEF TreeFacts!Moves
<1>2. Manager \in TreeFacts!Hierarchies
  BY MembershipsAssumption DEF Hierarchies, TreeFacts!Hierarchies
<1> QED
  BY <1>1, <1>2, DelegatedWorkAssumption, NoMemberAssumption, MaxDepthAssumption,
     MembershipsAssumption, Zenon DEF TreeFacts!MaybeMember

LEMMA SameScopeOf == ScopeOf = Tree!ScopeOf /\ ScopeOf = TreeFacts!ScopeOf
BY DEF ScopeOf, ScopeIds, Descendants, Related, TreeRows, Down, Last, Range,
       Tree!ScopeOf, Tree!ScopeIds, Tree!Descendants, Tree!Related, Tree!TreeRows, Tree!Down,
       Tree!Last, Tree!Range,
       TreeFacts!ScopeOf, TreeFacts!ScopeIds, TreeFacts!Descendants, TreeFacts!Related,
       TreeFacts!TreeRows, TreeFacts!Down, TreeFacts!Last, TreeFacts!Range

LEMMA SameCan ==
    ASSUME NEW actor, NEW action, NEW subject
    PROVE  /\ Tree!Can(actor, action, subject) <=> Can(actor, action, subject)
           /\ TreeFacts!Can(actor, action, subject) <=> Can(actor, action, subject)
BY SameScopeOf
   DEF Can, Rule, EditPlanRule, SubmitPlanRule, DecidePlanRule, ResponsibilityRule, OwnTaskRule,
       DelegateRule, ViewMemberRule, Covers, Manages,
       Tree!Can, Tree!Rule, Tree!EditPlanRule, Tree!SubmitPlanRule, Tree!DecidePlanRule,
       Tree!ResponsibilityRule, Tree!OwnTaskRule, Tree!DelegateRule, Tree!ViewMemberRule,
       Tree!Covers, Tree!Manages,
       TreeFacts!Can, TreeFacts!Rule, TreeFacts!EditPlanRule, TreeFacts!SubmitPlanRule,
       TreeFacts!DecidePlanRule, TreeFacts!ResponsibilityRule, TreeFacts!OwnTaskRule,
       TreeFacts!DelegateRule, TreeFacts!ViewMemberRule, TreeFacts!Covers, TreeFacts!Manages

LEMMA SameMay ==
    ASSUME NEW actor, NEW action, NEW row
    PROVE  Tree!May(actor, action, row) <=> TreeFacts!May(actor, action, row)
BY SameCan DEF Tree!May, Tree!SubjectOf, Tree!WorkSubject, Tree!ResponsibleFor,
               TreeFacts!May, TreeFacts!SubjectOf, TreeFacts!WorkSubject, TreeFacts!ResponsibleFor

LEMMA SameRows ==
    /\ Tree!Types = TreeFacts!Types /\ Tree!Moves = TreeFacts!Moves
    /\ Tree!NoRow = TreeFacts!NoRow /\ Tree!Idle = TreeFacts!Idle
    /\ Tree!ParentType = TreeFacts!ParentType
    /\ Tree!Target = TreeFacts!Target /\ Tree!EventFor = TreeFacts!EventFor
    /\ Tree!WorkRow = TreeFacts!WorkRow /\ Tree!Event = TreeFacts!Event
    /\ Tree!Session = TreeFacts!Session
BY DEF Tree!Types, TreeFacts!Types, Tree!Moves, TreeFacts!Moves, Tree!NoRow, TreeFacts!NoRow,
       Tree!Idle, TreeFacts!Idle, Tree!ParentType, TreeFacts!ParentType, Tree!Target,
       TreeFacts!Target, Tree!EventFor, TreeFacts!EventFor, Tree!WorkRow, TreeFacts!WorkRow,
       Tree!Event, TreeFacts!Event, Tree!Session, TreeFacts!Session, Tree!Statuses,
       TreeFacts!Statuses, Tree!MaybeMember, TreeFacts!MaybeMember

LEMMA SameNext == Tree!Next <=> TreeFacts!Next
<1> USE SameRows
<1>1. ASSUME NEW x, NEW type, NEW parent, NEW owner, NEW actor, NEW saw
      PROVE  Tree!Insert(x, type, parent, owner, actor, saw)
               <=> TreeFacts!Insert(x, type, parent, owner, actor, saw)
  BY DEF Tree!Insert, TreeFacts!Insert, Tree!NewRow, TreeFacts!NewRow,
         Tree!FirstEvents, TreeFacts!FirstEvents
<1>2. ASSUME NEW type, NEW parent
      PROVE  Tree!ValidPlacement(type, parent) <=> TreeFacts!ValidPlacement(type, parent)
  BY DEF Tree!ValidPlacement, TreeFacts!ValidPlacement
<1>3. ASSUME NEW s, NEW actor, NEW x, NEW owner
      PROVE  Tree!CreateInitiative(s, actor, x, owner)
               <=> TreeFacts!CreateInitiative(s, actor, x, owner)
  BY <1>1 DEF Tree!CreateInitiative, TreeFacts!CreateInitiative, Tree!Exists, TreeFacts!Exists
<1>4. ASSUME NEW s, NEW actor, NEW x
      PROVE  Tree!LoadParent(s, actor, x) <=> TreeFacts!LoadParent(s, actor, x)
  BY <1>2, SameMay DEF Tree!LoadParent, TreeFacts!LoadParent, Tree!Exists, TreeFacts!Exists,
                       Tree!tables, TreeFacts!tables, Tree!Reading, TreeFacts!Reading
<1>5. ASSUME NEW s, NEW x, NEW type, NEW owner
      PROVE  Tree!CommitCreate(s, x, type, owner) <=> TreeFacts!CommitCreate(s, x, type, owner)
  BY <1>1, <1>2 DEF Tree!CommitCreate, TreeFacts!CommitCreate, Tree!Exists, TreeFacts!Exists
<1>6. ASSUME NEW s, NEW actor, NEW x, NEW op
      PROVE  Tree!LoadItem(s, actor, x, op) <=> TreeFacts!LoadItem(s, actor, x, op)
  BY SameMay DEF Tree!LoadItem, TreeFacts!LoadItem, Tree!Exists, TreeFacts!Exists,
                 Tree!tables, TreeFacts!tables, Tree!Reading, TreeFacts!Reading,
                 Tree!ActionFor, TreeFacts!ActionFor,
                 Tree!AllowedTransitions, TreeFacts!AllowedTransitions,
                 Tree!TaskTransitions, TreeFacts!TaskTransitions,
                 Tree!ContainerTransitions, TreeFacts!ContainerTransitions
<1>7. ASSUME NEW s
      PROVE  Tree!CommitMove(s) <=> TreeFacts!CommitMove(s)
  BY DEF Tree!CommitMove, TreeFacts!CommitMove, Tree!NextVersion, TreeFacts!NextVersion,
         Tree!Recorded, TreeFacts!Recorded
<1>8. ASSUME NEW s
      PROVE  Tree!Crash(s) <=> TreeFacts!Crash(s)
  BY DEF Tree!Crash, TreeFacts!Crash, Tree!tables, TreeFacts!tables
<1> QED
  BY <1>3, <1>4, <1>5, <1>6, <1>7, <1>8, Zenon DEF Tree!Next, TreeFacts!Next

\* What a request about work items has read (Knows in WorkItems_proofs).
TreeKnows(t) ==
    LET x == treeSess[t].id
        row == treeSess[t].row
        actor == treeSess[t].actor
    IN  /\ x \in WorkIds /\ Tree!Exists(x)
        /\ actor \in Members
        /\ row.type = tree[x].type /\ row.org = tree[x].org /\ row.owner = tree[x].owner
        /\ row.org = OrgOf[actor]
        /\ treeSess[t].op \in {"start", "complete"} =>
              row.type = "TASK" /\ actor \in {row.owner} \union Superadmins

RequestsKnow == \A t \in TreeSessions : treeSess[t].pc = "ready" => TreeKnows(t)

TreeInv ==
    /\ Tree!TypeOK
    /\ RequestsKnow
    /\ Tree!StrictlyNested
    /\ Tree!OwnersReport
    /\ Tree!HistoryExplainsStatus
    /\ TreeFacts!HInv /\ TreeFacts!KInv

LEMMA SamePartly ==
    /\ (/\ Tree!TypeOK /\ RequestsKnow /\ Tree!StrictlyNested /\ Tree!OwnersReport
        /\ Tree!HistoryExplainsStatus) <=> TreeFacts!WInv
    /\ (/\ Tree!TypeOK' /\ RequestsKnow' /\ Tree!StrictlyNested' /\ Tree!OwnersReport'
        /\ Tree!HistoryExplainsStatus') <=> TreeFacts!WInv'
<1>1. (Tree!TypeOK <=> TreeFacts!TypeOK) /\ (Tree!TypeOK' <=> TreeFacts!TypeOK')
  BY SameRows DEF Tree!TypeOK, TreeFacts!TypeOK
<1>2. /\ RequestsKnow <=> TreeFacts!SessionsKnow
      /\ RequestsKnow' <=> TreeFacts!SessionsKnow'
  BY DEF RequestsKnow, TreeFacts!SessionsKnow, TreeKnows, TreeFacts!Knows, Tree!Exists,
         TreeFacts!Exists
<1>3. /\ Tree!StrictlyNested <=> TreeFacts!StrictlyNested
      /\ Tree!StrictlyNested' <=> TreeFacts!StrictlyNested'
  BY SameRows DEF Tree!StrictlyNested, TreeFacts!StrictlyNested, Tree!Exists, TreeFacts!Exists
<1>4. /\ Tree!OwnersReport <=> TreeFacts!OwnersReport
      /\ Tree!OwnersReport' <=> TreeFacts!OwnersReport'
  BY DEF Tree!OwnersReport, TreeFacts!OwnersReport
<1>5. /\ Tree!HistoryExplainsStatus <=> TreeFacts!HistoryExplainsStatus
      /\ Tree!HistoryExplainsStatus' <=> TreeFacts!HistoryExplainsStatus'
  BY SameRows DEF Tree!HistoryExplainsStatus, TreeFacts!HistoryExplainsStatus, Tree!Exists,
                  TreeFacts!Exists, Tree!MovesOf, TreeFacts!MovesOf, Tree!MoveEvents,
                  TreeFacts!MoveEvents, Tree!Last, TreeFacts!Last
<1> QED
  BY <1>1, <1>2, <1>3, <1>4, <1>5 DEF TreeFacts!WInv

LEMMA SameInv == (TreeInv <=> TreeFacts!IInv) /\ (TreeInv' <=> TreeFacts!IInv')
BY SamePartly DEF TreeInv, TreeFacts!IInv

LEMMA TreeStepKeepsTreeInv ==
    ASSUME TreeInv, Tree!Next
    PROVE  TreeInv'
<1>1. TreeFacts!IInv /\ [TreeFacts!Next]_(TreeFacts!vars) => TreeFacts!IInv'
  BY TreeFacts!StepKeepsIInv, TreeAssumptions
<1> QED
  BY <1>1, SameInv, SameNext
-----------------------------------------------------------------------------
(***************************************************************************)
(* Where plans come from: a plan keeps the responsibility it was drafted   *)
(* for and its author, who are of one organization.                        *)
(***************************************************************************)

Origin(row) ==
    /\ row.scope \in Scopes /\ row.creator \in Members
    /\ OrgOf[row.creator] = ScopeOrg[row.scope]

SameOrigin(row, old) == row.scope = old.scope /\ row.creator = old.creator

Drafting(session) == session.pc = "ready" /\ session.op = "create"

Origins ==
    /\ \A p \in Plans : Exists(p) => Origin(plan[p])
    /\ \A s \in Sessions : Drafting(sess[s]) => Origin(sess[s].row)
    /\ \A s \in Sessions : sess[s].pc = "locked" => SameOrigin(sess[s].row, plan[sess[s].plan])

Request(s) == Create(s) \/ Edit(s) \/ Submit(s) \/ Decide(s) \/ Fail(s) \/ Crash(s)

\* The session is granted the lock of a plan, and reads it and its responsibility.
LockedNow(s) ==
    LET p == sess'[s].plan
    IN  /\ sess[s].pc # "locked" /\ sess'[s].pc = "locked" /\ UNCHANGED tables
        /\ p \in Plans /\ Exists(p)
        /\ sess'[s].row = plan[p]
        /\ sess'[s].scopeStatus = scopeStatus[plan[p].scope]

\* What a request may do to its session, ...
SessionStep(s) ==
    \/ sess'[s] = sess[s]
    \/ sess'[s].pc # "locked" /\ ~ Drafting(sess'[s])
    \/ sess'[s].pc # "locked" /\ Origin(sess'[s].row)
    \/ LockedNow(s)

\* ... and to what a plan came from.
OriginStep(p, s) ==
    IF Exists(p) THEN Exists(p)' /\ SameOrigin(plan'[p], plan[p])
    ELSE Exists(p)' => Drafting(sess[s]) /\ plan'[p] = sess[s].row

RequestStep(s) ==
    /\ SessionStep(s)
    /\ \A r \in Sessions \ {s} : sess'[r] = sess[r]
    /\ \A p \in Plans : OriginStep(p, s)

LEMMA SessionWritten ==
    ASSUME TInv, NEW s \in Sessions, NEW fields, sess' = [sess EXCEPT ![s] = fields]
    PROVE  sess'[s] = fields /\ \A r \in Sessions \ {s} : sess'[r] = sess[r]
BY DEF TInv, TypeOK

LEMMA PlansUntouched ==
    ASSUME plan' = plan, NEW p \in Plans, NEW s
    PROVE  OriginStep(p, s)
BY DEF OriginStep, SameOrigin, Exists

\* A request that goes on, without the lock of a plan, leaves the plans alone.
LEMMA GoingOn ==
    ASSUME TInv, NEW s \in Sessions, NEW fields, sess' = [sess EXCEPT ![s] = fields],
           UNCHANGED plan, fields.pc # "locked", Drafting(fields) => Origin(fields.row)
    PROVE  RequestStep(s)
<1>1. sess'[s] = fields /\ \A r \in Sessions \ {s} : sess'[r] = sess[r]
  BY SessionWritten
<1>2. SessionStep(s)
  BY <1>1 DEF SessionStep
<1> QED
  BY <1>1, <1>2, PlansUntouched DEF RequestStep

LEMMA Ending ==
    ASSUME TInv, NEW s \in Sessions, End(s), \A p \in Plans : OriginStep(p, s)
    PROVE  RequestStep(s)
<1>1. Idle.pc = "idle" /\ sess' = [sess EXCEPT ![s] = Idle]
  BY DEF End, Idle
<1>2. sess'[s] = Idle /\ \A r \in Sessions \ {s} : sess'[r] = sess[r]
  BY <1>1, SessionWritten
<1>3. SessionStep(s)
  BY <1>1, <1>2 DEF SessionStep, Drafting
<1> QED
  BY <1>2, <1>3 DEF RequestStep

LEMMA TakingTheLock ==
    ASSUME TInv, NEW s \in Sessions, NEW session \in Session, NEW p \in Plans,
           sess[s].pc # "locked", sess' = [sess EXCEPT ![s] = Locked(session, p)],
           UNCHANGED tables, NEW actor, NEW op,
           NEW expected, MayDecide(actor, op, plan[p], expected)
    PROVE  RequestStep(s)
<1> DEFINE fields == Locked(session, p)
<1>1. /\ fields.pc = "locked" /\ fields.plan = p /\ fields.row = plan[p]
      /\ fields.scopeStatus = scopeStatus[plan[p].scope]
  BY DEF Locked, Session
<1>2. sess'[s] = fields /\ \A r \in Sessions \ {s} : sess'[r] = sess[r]
  BY SessionWritten
<1>3. Exists(p)
  BY DEF MayDecide, RequirePending, Exists
<1> HIDE DEF fields
<1>4. SessionStep(s)
  BY <1>1, <1>2, <1>3 DEF SessionStep, LockedNow
<1> QED
  BY <1>2, <1>4, PlansUntouched DEF RequestStep, tables

\* Nobody writes the columns scope and created_by of a plan that is there.
LEMMA TouchKeepsOrigins ==
    ASSUME TInv, NEW s \in Sessions, plan' = Touched(s), NEW p \in Plans
    PROVE  OriginStep(p, s)
<1> DEFINE v == sess[s].row.version + 1
<1>1. plan' = [plan EXCEPT ![sess[s].plan].version = v]
  BY DEF Touched
<1> HIDE DEF v
<1>2. /\ plan'[p].scope = plan[p].scope /\ plan'[p].creator = plan[p].creator
      /\ plan'[p].status = plan[p].status
  BY <1>1 DEF TInv, TypeOK, PlanRow
<1> QED
  BY <1>2 DEF OriginStep, SameOrigin, Exists

LEMMA RowWrittenKeepsOrigins ==
    ASSUME TInv, NEW s \in Sessions, NEW p \in Plans, NEW row, plan' = [plan EXCEPT ![p] = row],
           Exists(p), row.status # "NONE", SameOrigin(row, plan[p]), NEW q \in Plans
    PROVE  OriginStep(q, s)
<1>1. plan'[q] = IF q = p THEN row ELSE plan[q]
  BY DEF TInv, TypeOK
<1> QED
  BY <1>1 DEF OriginStep, SameOrigin, Exists

-----------------------------------------------------------------------------
LEMMA CreateSteps ==
    ASSUME TInv, NEW s \in Sessions, Create(s)
    PROVE  RequestStep(s)
<1>1. ASSUME NEW actor \in Members, NEW w \in Scopes, LoadScope(s, actor, w)
      PROVE  RequestStep(s)
  <2> DEFINE row == [NoRow EXCEPT !.status = "DRAFT", !.scope = w,
                                  !.creator = actor, !.version = 1]
             fields == [Idle EXCEPT !.pc = "ready", !.op = "create", !.row = row]
  <2>1. row.scope = w /\ row.creator = actor
    BY DEF NoRow
  <2>2. fields.pc = "ready" /\ fields.row = row
    BY DEF Idle
  <2>3. OrgOf[actor] = ScopeOrg[w]
    BY <1>1 DEF LoadScope, Can, SubjectOfScope, WorkSubject
  <2>4. sess' = [sess EXCEPT ![s] = fields] /\ UNCHANGED plan
    BY <1>1 DEF LoadScope, Begin, tables
  <2> HIDE DEF row, fields
  <2> QED
    BY <2>1, <2>2, <2>3, <2>4, GoingOn DEF Origin
<1>2. ASSUME NEW p \in Plans, CommitCreate(s, p)
      PROVE  RequestStep(s)
  <2>1. /\ plan' = [plan EXCEPT ![p] = sess[s].row] /\ End(s) /\ Drafting(sess[s])
        /\ ~ Exists(p)
    BY <1>2 DEF CommitCreate, Drafting
  <2>2. \A q \in Plans : plan'[q] = IF q = p THEN sess[s].row ELSE plan[q]
    BY <2>1 DEF TInv, TypeOK
  <2>3. \A q \in Plans : OriginStep(q, s)
    BY <2>1, <2>2 DEF OriginStep, SameOrigin, Exists
  <2> QED
    BY <2>1, <2>3, Ending
<1> QED
  BY <1>1, <1>2 DEF Create

LEMMA EditSteps ==
    ASSUME TInv, NEW s \in Sessions, Edit(s)
    PROVE  RequestStep(s)
<1>1. ASSUME NEW actor \in Members, NEW p \in Plans, NEW op \in Ops, LoadPlan(s, actor, p, op)
      PROVE  RequestStep(s)
  <2> DEFINE fields == [Idle EXCEPT !.pc = IF op = "add" THEN "ready" ELSE "loaded",
                                    !.op = op, !.plan = p, !.row = plan[p]]
  <2>1. sess' = [sess EXCEPT ![s] = fields] /\ UNCHANGED plan
    BY <1>1 DEF LoadPlan, Begin, tables
  <2>2. fields.pc # "locked" /\ fields.op = op /\ op # "create"
    BY <1>1 DEF LoadPlan, Idle
  <2> HIDE DEF fields
  <2> QED
    BY <2>1, <2>2, GoingOn DEF Drafting
<1>2. ASSUME NEW i \in Items, LoadItem(s, i)
      PROVE  RequestStep(s)
  <2> DEFINE fields == [sess[s] EXCEPT !.pc = "ready", !.item = i,
                          !.old = IF sess[s].op = "update" THEN items[i].proposal ELSE @]
  <2>1. sess' = [sess EXCEPT ![s] = fields] /\ UNCHANGED plan
    BY <1>2 DEF LoadItem, tables
  <2>2. sess[s] \in Session /\ sess[s].op # "create"
    BY <1>2 DEF LoadItem, TInv, TypeOK
  <2>3. fields.pc = "ready" /\ fields.op = sess[s].op
    BY <2>2 DEF Session
  <2> HIDE DEF fields
  <2> QED
    BY <2>1, <2>2, <2>3, GoingOn DEF Drafting
<1>3. ASSUME plan' = Touched(s), End(s)
      PROVE  RequestStep(s)
  BY <1>3, TouchKeepsOrigins, Ending
<1> QED
  BY <1>1, <1>2, <1>3 DEF Edit, CommitAdd, CommitUpdate, CommitRemove

LEMMA SubmitSteps ==
    ASSUME TInv, NEW s \in Sessions, Submit(s)
    PROVE  RequestStep(s)
<1>1. CASE Validate(s)
  <2> DEFINE fields == [sess[s] EXCEPT !.pc = "ready"]
  <2>1. sess' = [sess EXCEPT ![s] = fields] /\ UNCHANGED plan
    BY <1>1 DEF Validate, tables
  <2>2. sess[s] \in Session /\ sess[s].op # "create"
    BY <1>1 DEF Validate, TInv, TypeOK
  <2>3. fields.pc = "ready" /\ fields.op = sess[s].op
    BY <2>2 DEF Session
  <2> HIDE DEF fields
  <2> QED
    BY <2>1, <2>2, <2>3, GoingOn DEF Drafting
<1>2. CASE CommitSubmit(s)
  <2> DEFINE row == Submitted(s)
  <2>1. /\ sess[s].plan \in Plans /\ Exists(sess[s].plan) /\ End(s)
        /\ plan' = [plan EXCEPT ![sess[s].plan] = row]
    BY <1>2 DEF CommitSubmit, TInv, SessionsKnow
  <2>2. row.status # "NONE" /\ SameOrigin(row, plan[sess[s].plan])
    BY <2>1 DEF Submitted, SameOrigin, TInv, TypeOK, PlanRow
  <2> HIDE DEF row
  <2> QED
    BY <2>1, <2>2, RowWrittenKeepsOrigins, Ending
<1> QED
  BY <1>1, <1>2 DEF Submit

LEMMA DecideSteps ==
    ASSUME TInv, NEW s \in Sessions, Decide(s)
    PROVE  RequestStep(s)
<1>1. ASSUME NEW actor \in Members, NEW p \in Plans, NEW op \in Ops, View(s, actor, p, op)
      PROVE  RequestStep(s)
  <2> DEFINE fields == [Idle EXCEPT !.pc = "viewing", !.op = op, !.actor = actor,
                                    !.plan = p, !.row = plan[p]]
  <2>1. sess' = [sess EXCEPT ![s] = fields] /\ UNCHANGED plan /\ fields.pc = "viewing"
    BY <1>1 DEF View, Begin, Idle, tables
  <2> HIDE DEF fields
  <2> QED
    BY <2>1, GoingOn DEF Drafting
<1>2. CASE ViewItems(s)
  <2> DEFINE fields == [sess[s] EXCEPT !.pc = "asked", !.expected = sess[s].row.version,
                                       !.row = NoRow, !.shown = Contents(sess[s].plan)]
  <2>1. sess' = [sess EXCEPT ![s] = fields] /\ UNCHANGED plan
    BY <1>2 DEF ViewItems, tables
  <2>2. fields.pc = "asked"
    BY DEF TInv, TypeOK, Session
  <2> HIDE DEF fields
  <2> QED
    BY <2>1, <2>2, GoingOn DEF Drafting
<1>3. ASSUME NEW actor \in Members, NEW p \in Plans, NEW op \in Ops, LockBlind(s, actor, p, op)
      PROVE  RequestStep(s)
  <2> DEFINE session == [Idle EXCEPT !.op = op, !.actor = actor]
  <2>1. session \in Session
    BY IdleType DEF Idle, Session
  <2>2. /\ sess' = [sess EXCEPT ![s] = Locked(session, p)] /\ UNCHANGED tables
        /\ MayDecide(actor, op, plan[p], AnyVersion) /\ sess[s].pc # "locked"
    BY <1>3 DEF LockBlind, Begin
  <2> HIDE DEF session
  <2> QED
    BY <2>1, <2>2, TakingTheLock
<1>4. CASE Lock(s)
  <2>1. /\ sess' = [sess EXCEPT ![s] = Locked(sess[s], sess[s].plan)] /\ UNCHANGED tables
        /\ MayDecide(sess[s].actor, sess[s].op, plan[sess[s].plan], sess[s].expected)
        /\ sess[s].plan \in Plans /\ sess[s] \in Session /\ sess[s].pc # "locked"
    BY <1>4 DEF Lock, TInv, TypeOK, SessionsKnow
  <2> QED
    BY <2>1, TakingTheLock
<1>5. CASE TurnAway(s)
  BY <1>5, PlansUntouched, Ending DEF TurnAway, tables
<1>6. ASSUME NEW decision \in {"APPROVED", "REJECTED"}, sess[s].pc = "locked", End(s),
             plan' = [plan EXCEPT ![sess[s].plan] = Decided(s, decision)]
      PROVE  RequestStep(s)
  <2> DEFINE row == Decided(s, decision)
  <2>1. sess[s].plan \in Plans /\ Exists(sess[s].plan)
    BY <1>6 DEF TInv, SessionsKnow
  <2>2. row.status # "NONE" /\ SameOrigin(row, plan[sess[s].plan])
    BY <2>1 DEF Decided, SameOrigin, TInv, TypeOK, PlanRow
  <2> HIDE DEF row
  <2>3. plan' = [plan EXCEPT ![sess[s].plan] = row]
    BY <1>6 DEF row
  <2> QED
    BY <1>6, <2>1, <2>2, <2>3, RowWrittenKeepsOrigins, Ending
<1> QED
  BY <1>1, <1>2, <1>3, <1>4, <1>5, <1>6 DEF Decide, CommitApprove, CommitReject

LEMMA EveryRequestSteps ==
    ASSUME TInv, NEW s \in Sessions, Request(s)
    PROVE  RequestStep(s)
<1>1. ASSUME End(s), UNCHANGED tables
      PROVE  RequestStep(s)
  BY <1>1, PlansUntouched, Ending DEF tables
<1> QED
  BY <1>1, CreateSteps, EditSteps, SubmitSteps, DecideSteps DEF Request, Fail, Crash

LEMMA RequestKeepsOrigins ==
    ASSUME TInv, Origins, NEW s \in Sessions, Request(s)
    PROVE  Origins'
<1>1. RequestStep(s)
  BY EveryRequestSteps
<1>2. ASSUME NEW p \in Plans, Exists(p)'
      PROVE  Origin(plan'[p])
  BY <1>1, <1>2 DEF RequestStep, OriginStep, SameOrigin, Origin, Origins
<1>3. ASSUME NEW r \in Sessions, Drafting(sess'[r])
      PROVE  Origin(sess'[r].row)
  BY <1>1, <1>3 DEF RequestStep, SessionStep, LockedNow, Drafting, Origins
<1>4. ASSUME NEW r \in Sessions, sess'[r].pc = "locked"
      PROVE  SameOrigin(sess'[r].row, plan'[sess'[r].plan])
  <2>1. CASE sess'[r] = sess[r]
    <3>1. Exists(sess[r].plan) /\ sess[r].plan \in Plans
      BY <1>4, <2>1 DEF TInv, SessionsKnow
    <3> QED
      BY <1>1, <1>4, <2>1, <3>1 DEF Origins, SameOrigin, RequestStep, OriginStep
  <2>2. CASE sess'[r] # sess[r]
    BY <1>1, <1>4, <2>2 DEF RequestStep, SessionStep, LockedNow, SameOrigin, tables
  <2> QED
    BY <2>1, <2>2
<1> QED
  BY <1>2, <1>3, <1>4 DEF Origins, Exists

-----------------------------------------------------------------------------
(***************************************************************************)
(* What a request about work items does, one step at a time.               *)
(***************************************************************************)

\* A row that was not there, and its first events.
Added(t) ==
    \E x \in WorkIds, type \in Tree!Types, parent \in WorkIds \union {NoWork},
       owner \in MaybeMember, actor \in Members, saw \in Nat :
        /\ ~ Tree!Exists(x)
        /\ Tree!Insert(x, type, parent, owner, actor, saw)
        /\ parent # NoWork => /\ treeSess[t].pc = "ready" /\ parent = treeSess[t].id
                              /\ treeSess[t].row.status # "CANCELLED"
        /\ treeSess'[t] \in {treeSess[t], Tree!Idle}

\* A read, on which the request was allowed what it asks for.
ReadNow(t) ==
    LET x == treeSess'[t].id
        op == treeSess'[t].op
    IN  /\ UNCHANGED <<tree, events>>
        /\ treeSess[t].pc = "idle" /\ treeSess'[t].pc = "ready"
        /\ treeSess'[t].row = tree[x]
        /\ op = "create" \/
              /\ op \in Tree!Moves
              /\ treeSess'[t].actor \in Members
              /\ Tree!May(treeSess'[t].actor, Tree!ActionFor(op), tree[x])
              /\ <<tree[x].status, Tree!Target[op]>> \in Tree!AllowedTransitions(tree[x].type)

TreeStep(t) ==
    /\ Added(t) \/ ReadNow(t) \/ Tree!CommitMove(t) \/ Tree!Crash(t)
    /\ \A u \in TreeSessions \ {t} : treeSess'[u] = treeSess[u]

LEMMA TreeSteps ==
    ASSUME TreeInv, Tree!Next
    PROVE  \E t \in TreeSessions : TreeStep(t)
<1> USE DEF TreeInv, Tree!TypeOK
<1>1. ASSUME NEW t \in TreeSessions, NEW actor \in Members, NEW x \in WorkIds,
             NEW owner \in Owners, Tree!CreateInitiative(t, actor, x, owner)
      PROVE  TreeStep(t)
  <2>1. Added(t)
    <3>1. "INITIATIVE" \in Tree!Types /\ owner \in MaybeMember /\ 0 \in Nat
      BY DelegatedWorkAssumption DEF Tree!Types
    <3> QED
      BY <1>1, <3>1 DEF Tree!CreateInitiative, Added
  <2> QED
    BY <1>1, <2>1 DEF Tree!CreateInitiative, TreeStep
<1>2. ASSUME NEW t \in TreeSessions, NEW read, treeSess' = [treeSess EXCEPT ![t] = read]
      PROVE  treeSess'[t] = read /\ \A u \in TreeSessions \ {t} : treeSess'[u] = treeSess[u]
  BY <1>2
<1>3. ASSUME NEW t \in TreeSessions, NEW actor \in Members, NEW x \in WorkIds,
             Tree!LoadParent(t, actor, x)
      PROVE  TreeStep(t)
  <2> DEFINE read == Tree!Reading("create", actor, x)
  <2>1. treeSess' = [treeSess EXCEPT ![t] = read]
    BY <1>3 DEF Tree!LoadParent
  <2>2. read.pc = "ready" /\ read.op = "create" /\ read.id = x /\ read.row = tree[x]
    BY DEF Tree!Reading
  <2> HIDE DEF read
  <2>3. ReadNow(t)
    BY <1>2, <1>3, <2>1, <2>2 DEF Tree!LoadParent, ReadNow, Tree!tables
  <2> QED
    BY <1>2, <2>1, <2>3 DEF TreeStep
<1>4. ASSUME NEW t \in TreeSessions, NEW x \in WorkIds, NEW type \in Tree!Types,
             NEW owner \in Owners, Tree!CommitCreate(t, x, type, owner)
      PROVE  TreeStep(t)
  <2>1. treeSess' = [treeSess EXCEPT ![t] = Tree!Idle]
    BY <1>4 DEF Tree!CommitCreate
  <2>2. treeSess[t].actor \in Members /\ treeSess[t].id \in WorkIds
    BY <1>4 DEF Tree!CommitCreate, RequestsKnow, TreeKnows
  <2>3. /\ ~ Tree!Exists(x) /\ treeSess[t].pc = "ready" /\ treeSess[t].row.status # "CANCELLED"
        /\ Tree!Insert(x, type, treeSess[t].id, owner, treeSess[t].actor, treeSess[t].saw)
        /\ treeSess[t].saw \in Nat
    BY <1>4 DEF Tree!CommitCreate, Tree!ValidPlacement, Tree!Session
  <2>4. treeSess'[t] = Tree!Idle /\ owner \in MaybeMember
    BY <1>2, <2>1, DelegatedWorkAssumption
  <2>5. Added(t)
    BY <2>2, <2>3, <2>4 DEF Added
  <2> QED
    BY <1>2, <2>1, <2>5 DEF TreeStep
<1>5. ASSUME NEW t \in TreeSessions, NEW actor \in Members, NEW x \in WorkIds,
             NEW op \in Tree!Moves, Tree!LoadItem(t, actor, x, op)
      PROVE  TreeStep(t)
  <2> DEFINE read == Tree!Reading(op, actor, x)
  <2>1. treeSess' = [treeSess EXCEPT ![t] = read]
    BY <1>5 DEF Tree!LoadItem
  <2>2. /\ read.pc = "ready" /\ read.op = op /\ read.actor = actor /\ read.id = x
        /\ read.row = tree[x]
    BY DEF Tree!Reading
  <2> HIDE DEF read
  <2>3. ReadNow(t)
    BY <1>2, <1>5, <2>1, <2>2 DEF Tree!LoadItem, ReadNow, Tree!tables
  <2> QED
    BY <1>2, <2>1, <2>3 DEF TreeStep
<1>6. ASSUME NEW t \in TreeSessions, Tree!CommitMove(t) \/ Tree!Crash(t)
      PROVE  TreeStep(t)
  BY <1>2, <1>6 DEF TreeStep, Tree!CommitMove, Tree!Crash
<1> QED
  BY <1>1, <1>3, <1>4, <1>5, <1>6, Zenon DEF Tree!Next

-----------------------------------------------------------------------------
(***************************************************************************)
(* Responsibilities are rows of the tree, and only ever called off.        *)
(***************************************************************************)

ScopeRow(w) ==
    /\ tree[w].type = "RESPONSIBILITY" /\ tree[w].org = ScopeOrg[w]
    /\ tree[w].owner = ScopeOwner[w] /\ tree[w].creator = ScopeCreator[w]

ScopesAreRows ==
    /\ scopeStatus = [w \in Scopes |-> tree[w].status]
    /\ \A w \in Scopes : ScopeRow(w)

\* A request about to move an item has read that it may be moved so ...
MovesLegal ==
    \A t \in TreeSessions :
        LET request == treeSess[t]
        IN  request.pc = "ready" /\ request.op # "create" =>
               <<request.row.status, Tree!Target[request.op]>>
                   \in Tree!AllowedTransitions(request.row.type)

\* ... and a responsibility only by someone who may call it off.
CancelsAllowed ==
    \A t \in TreeSessions :
        LET request == treeSess[t]
        IN  request.pc = "ready" /\ request.op # "create" /\ request.id \in Scopes =>
               \E m \in Members : Can(m, "CANCEL_WORK_ITEM", SubjectOfScope(request.id))

ScopeInv == TreeInv /\ ScopesAreRows /\ MovesLegal /\ CancelsAllowed

LEMMA OnlyCancelled ==
    ASSUME NEW op, op \in Tree!Moves, NEW status,
           <<status, Tree!Target[op]>> \in Tree!AllowedTransitions("RESPONSIBILITY")
    PROVE  op = "cancel" /\ Tree!Target[op] = "CANCELLED"
BY DEF Tree!Moves, Tree!Target, Tree!AllowedTransitions, Tree!ContainerTransitions

\* The columns of a row that nothing rewrites.
SameColumns(x) ==
    /\ tree'[x].type = tree[x].type /\ tree'[x].org = tree[x].org
    /\ tree'[x].owner = tree[x].owner /\ tree'[x].creator = tree[x].creator
    /\ tree'[x].parent = tree[x].parent

LEMMA AddedLeavesRows ==
    ASSUME TreeInv, NEW t \in TreeSessions, Added(t)
    PROVE  \A x \in WorkIds : Tree!Exists(x) => tree'[x] = tree[x] /\ events'[x] = events[x]
BY DEF Added, Tree!Insert, TreeInv, Tree!TypeOK

LEMMA MoveWritesStatus ==
    ASSUME TreeInv, NEW t \in TreeSessions, Tree!CommitMove(t)
    PROVE  LET x == treeSess[t].id
               event == Tree!Recorded(t)
           IN  /\ x \in WorkIds /\ Tree!Exists(x) /\ treeSess[t].op \in Tree!Moves
               /\ tree'[x].status = Tree!Target[treeSess[t].op]
               /\ tree'[x].version = treeSess[t].row.version + 1
               /\ event \in Tree!Event /\ event.type = Tree!EventFor[treeSess[t].op]
               /\ events'[x] = Append(events[x], event)
               /\ \A y \in WorkIds : SameColumns(y)
               /\ \A y \in WorkIds \ {x} : tree'[y] = tree[y] /\ events'[y] = events[y]
<1> DEFINE x == treeSess[t].id
           op == treeSess[t].op
           row == [tree[x] EXCEPT !.status = Tree!Target[op],
                                  !.version = treeSess[t].row.version + 1]
           event == Tree!Recorded(t)
<1>1. /\ x \in WorkIds /\ Tree!Exists(x) /\ op \in Tree!Moves
      /\ treeSess[t].actor \in Members
  BY DEF Tree!CommitMove, TreeInv, RequestsKnow, TreeKnows
<1>2. tree[x] \in Tree!WorkRow
  BY <1>1 DEF TreeInv, Tree!TypeOK
<1>3. /\ row.status = Tree!Target[op] /\ row.version = treeSess[t].row.version + 1
      /\ row.type = tree[x].type /\ row.org = tree[x].org /\ row.owner = tree[x].owner
      /\ row.creator = tree[x].creator /\ row.parent = tree[x].parent
  BY <1>2 DEF Tree!WorkRow
<1>4. event \in Tree!Event /\ event.type = Tree!EventFor[op]
  <2>1. treeSess[t].saw \in Nat
    BY DEF TreeInv, Tree!TypeOK, Tree!Session
  <2> QED
    BY <1>1, <2>1 DEF Tree!Recorded, Tree!Event, Tree!EventFor, Tree!Moves
<1>5. tree' = [tree EXCEPT ![x] = row]
  BY DEF Tree!CommitMove, Tree!NextVersion
<1> HIDE DEF row
<1>6. tree'[x] = row /\ \A y \in WorkIds \ {x} : tree'[y] = tree[y]
  BY <1>1, <1>5 DEF TreeInv, Tree!TypeOK
<1> HIDE DEF event
<1>7. events' = [events EXCEPT ![x] = Append(events[x], event)]
  BY DEF Tree!CommitMove, event
<1>8. events'[x] = Append(events[x], event) /\ \A y \in WorkIds \ {x} : events'[y] = events[y]
  BY <1>1, <1>7 DEF TreeInv, Tree!TypeOK
<1>9. \A y \in WorkIds : SameColumns(y)
  BY <1>3, <1>6 DEF SameColumns
<1> QED
  BY <1>1, <1>3, <1>4, <1>6, <1>8, <1>9 DEF event

LEMMA TreeStepLeavesColumns ==
    ASSUME TreeInv, NEW t \in TreeSessions, TreeStep(t)
    PROVE  \A x \in WorkIds : Tree!Exists(x) => SameColumns(x)
BY AddedLeavesRows, MoveWritesStatus
   DEF TreeStep, ReadNow, Tree!Crash, Tree!tables, SameColumns

LEMMA TreeStepGrows ==
    ASSUME TreeInv, NEW t \in TreeSessions, TreeStep(t)
    PROVE  \A y \in WorkIds : Tree!Exists(y) => TreeFacts!Grows(y)
<1> SUFFICES ASSUME NEW y \in WorkIds, Tree!Exists(y) PROVE TreeFacts!Grows(y)
  OBVIOUS
<1>1. SameColumns(y)
  BY TreeStepLeavesColumns
<1>2. events[y] \in Seq(Tree!Event) /\ Len(events[y]) \in Nat
  BY DEF TreeInv, Tree!TypeOK
<1>3. events'[y] = events[y] \/ \E event : events'[y] = Append(events[y], event)
  BY AddedLeavesRows, MoveWritesStatus DEF TreeStep, ReadNow, Tree!Crash, Tree!tables
<1>4. /\ Len(events'[y]) >= Len(events[y])
      /\ \A k \in 1..Len(events[y]) : events'[y][k] = events[y][k]
  BY <1>2, <1>3
<1> QED
  BY <1>1, <1>4 DEF TreeFacts!Grows, SameColumns

LEMMA ScopeKept ==
    ASSUME NEW w \in Scopes, ScopeRow(w), SameColumns(w)
    PROVE  ScopeRow(w)'
BY DEF ScopeRow, SameColumns

\* Seen from the plans, a request about work items calls off a responsibility, by
\* someone who may, or changes nothing.
LEMMA TreeRequestIsCancelOrNothing ==
    ASSUME TypeOK, ScopeInv, TreeRequest
    PROVE  (\E w \in Scopes : CancelScope(w)) \/ UNCHANGED vars
<1>1. PICK t \in TreeSessions : TreeStep(t)
  BY TreeSteps DEF TreeRequest, ScopeInv
<1>2. \A w \in Scopes : w \in WorkIds /\ Tree!Exists(w)
  BY DelegatedWorkAssumption DEF ScopeInv, ScopesAreRows, ScopeRow, Tree!Exists
<1>3. ASSUME \A w \in Scopes : tree'[w] = tree[w]
      PROVE  UNCHANGED vars
  <2>1. scopeStatus' = scopeStatus
    BY <1>3 DEF TreeRequest, ScopeInv, ScopesAreRows
  <2> QED
    BY <2>1 DEF TreeRequest, vars
<1>4. CASE Tree!CommitMove(t) /\ treeSess[t].id \in Scopes
  <2> DEFINE w == treeSess[t].id
  <2>1. /\ tree'[w].status = Tree!Target[treeSess[t].op] /\ treeSess[t].op \in Tree!Moves
        /\ treeSess[t].pc = "ready" /\ treeSess[t].op # "create"
        /\ \A y \in WorkIds \ {w} : tree'[y] = tree[y]
    BY <1>4, MoveWritesStatus DEF ScopeInv, Tree!CommitMove, Tree!Moves
  <2>2. treeSess[t].row.type = "RESPONSIBILITY"
    BY <1>4, <2>1 DEF ScopeInv, TreeInv, RequestsKnow, TreeKnows, ScopesAreRows, ScopeRow
  <2>3. tree'[w].status = "CANCELLED"
    BY <2>1, <2>2, OnlyCancelled DEF ScopeInv, MovesLegal
  <2>4. \E m \in Members : Can(m, "CANCEL_WORK_ITEM", SubjectOfScope(w))
    BY <1>4, <2>1 DEF ScopeInv, CancelsAllowed
  <2>5. scopeStatus' = [scopeStatus EXCEPT ![w] = "CANCELLED"]
    BY <1>2, <2>1, <2>3 DEF TreeRequest, ScopeInv, ScopesAreRows
  <2>6. CASE scopeStatus[w] = "ACTIVE"
    BY <1>4, <2>4, <2>5, <2>6 DEF TreeRequest, CancelScope
  <2>7. CASE scopeStatus[w] # "ACTIVE"
    <3>1. scopeStatus[w] = "CANCELLED" /\ scopeStatus \in [Scopes -> {"ACTIVE", "CANCELLED"}]
      BY <1>4, <2>7 DEF TypeOK
    <3>2. scopeStatus' = scopeStatus
      BY <2>5, <3>1
    <3> QED
      BY <3>2 DEF TreeRequest, vars
  <2> QED
    BY <2>6, <2>7
<1>5. CASE ~ (Tree!CommitMove(t) /\ treeSess[t].id \in Scopes)
  <2>1. CASE Added(t)
    BY <1>2, <1>3, <2>1, AddedLeavesRows DEF ScopeInv
  <2>2. CASE UNCHANGED tree
    BY <1>3, <2>2
  <2>3. CASE Tree!CommitMove(t)
    BY <1>2, <1>3, <1>5, <2>3, MoveWritesStatus DEF ScopeInv
  <2> QED
    BY <1>1, <2>1, <2>2, <2>3 DEF TreeStep, ReadNow, Tree!Crash, Tree!tables
<1> QED
  BY <1>4, <1>5

LEMMA CancelRead ==
    ASSUME NEW actor, NEW w \in Scopes, ScopeRow(w),
           Tree!May(actor, "CANCEL_WORK_ITEM", tree[w])
    PROVE  Can(actor, "CANCEL_WORK_ITEM", SubjectOfScope(w))
BY SameCan DEF Tree!May, Tree!SubjectOf, Tree!WorkSubject, Tree!ResponsibleFor,
               SubjectOfScope, WorkSubject, ResponsibleFor, ScopeRow

LEMMA TreeRequestKeepsScopeInv ==
    ASSUME ScopeInv, TreeRequest
    PROVE  ScopeInv'
<1>1. PICK t \in TreeSessions : TreeStep(t)
  BY TreeSteps DEF TreeRequest, ScopeInv
<1>2. TreeInv'
  BY TreeStepKeepsTreeInv DEF TreeRequest, ScopeInv
<1>3. ScopesAreRows'
  <2>1. \A w \in Scopes : w \in WorkIds /\ Tree!Exists(w) /\ ScopeRow(w)
    BY DelegatedWorkAssumption DEF ScopeInv, ScopesAreRows, ScopeRow, Tree!Exists
  <2>2. \A w \in Scopes : SameColumns(w)
    BY <1>1, <2>1, TreeStepLeavesColumns DEF ScopeInv
  <2>3. \A w \in Scopes : ScopeRow(w)'
    BY <2>1, <2>2, ScopeKept
  <2> QED
    BY <2>3 DEF ScopesAreRows, TreeRequest
<1>4. \A u \in TreeSessions :
        \/ treeSess'[u] = treeSess[u]
        \/ treeSess'[u].pc = "idle"
        \/ u = t /\ ReadNow(u)
  <2>1. Tree!Idle.pc = "idle"
    BY DEF Tree!Idle
  <2> QED
    BY <1>1, <2>1
       DEF TreeStep, Added, Tree!CommitMove, Tree!Crash, ScopeInv, TreeInv, Tree!TypeOK
<1>5. MovesLegal'
  <2> SUFFICES ASSUME NEW u \in TreeSessions, treeSess'[u].pc = "ready",
                      treeSess'[u].op # "create"
               PROVE  <<treeSess'[u].row.status, Tree!Target[treeSess'[u].op]>>
                         \in Tree!AllowedTransitions(treeSess'[u].row.type)
    BY DEF MovesLegal, Tree!Target, Tree!AllowedTransitions, Tree!TaskTransitions,
           Tree!ContainerTransitions
  <2> QED
    BY <1>4 DEF ScopeInv, MovesLegal, ReadNow
<1>6. CancelsAllowed'
  <2> SUFFICES ASSUME NEW u \in TreeSessions, treeSess'[u].pc = "ready",
                      treeSess'[u].op # "create", treeSess'[u].id \in Scopes
               PROVE  \E m \in Members :
                         Can(m, "CANCEL_WORK_ITEM", SubjectOfScope(treeSess'[u].id))
    BY DEF CancelsAllowed
  <2>1. CASE treeSess'[u] = treeSess[u]
    BY <2>1 DEF ScopeInv, CancelsAllowed
  <2>2. CASE ReadNow(u)
    <3> DEFINE w == treeSess'[u].id
               op == treeSess'[u].op
    <3>1. op = "cancel"
      BY <2>2, OnlyCancelled DEF ReadNow, ScopeInv, ScopesAreRows, ScopeRow
    <3>2. Tree!ActionFor("cancel") = "CANCEL_WORK_ITEM"
      BY DEF Tree!ActionFor
    <3>3. /\ treeSess'[u].actor \in Members
          /\ Tree!May(treeSess'[u].actor, "CANCEL_WORK_ITEM", tree[w])
      BY <2>2, <3>1, <3>2 DEF ReadNow
    <3> QED
      BY <3>3, CancelRead DEF ScopeInv, ScopesAreRows
  <2> QED
    BY <1>4, <2>1, <2>2
<1> QED
  BY <1>2, <1>3, <1>5, <1>6 DEF ScopeInv

\* A request about plans that approves nothing leaves the tree alone.
LEMMA TreeUntouchedKeepsScopeInv ==
    ASSUME ScopeInv, UNCHANGED <<tree, events, treeSess, scopeStatus>>
    PROVE  ScopeInv'
<1>1. TreeInv'
  <2>1. Tree!TypeOK' /\ RequestsKnow'
    BY DEF ScopeInv, TreeInv, Tree!TypeOK, RequestsKnow, TreeKnows, Tree!Exists
  <2>2. Tree!StrictlyNested' /\ Tree!OwnersReport'
    BY DEF ScopeInv, TreeInv, Tree!StrictlyNested, Tree!OwnersReport, Tree!Exists
  <2>3. Tree!HistoryExplainsStatus'
    BY DEF ScopeInv, TreeInv, Tree!HistoryExplainsStatus, Tree!MovesOf, Tree!Exists
  <2>4. TreeFacts!HInv'
    <3>1. \A x \in WorkIds : \A version, n :
             TreeFacts!Tells(x, version, n)' <=> TreeFacts!Tells(x, version, n)
      BY DEF TreeFacts!Tells, TreeFacts!Clean, TreeFacts!Base
    <3>2. \A x \in WorkIds : TreeFacts!History(x)' <=> TreeFacts!History(x)
      BY DEF TreeFacts!History, TreeFacts!Entry, TreeFacts!Base
    <3>3. \A t \in TreeSessions : TreeFacts!Seen(t)' <=> TreeFacts!Seen(t)
      BY DEF TreeFacts!Seen, TreeFacts!Tells, TreeFacts!Clean, TreeFacts!Base
    <3> QED
      BY <3>1, <3>2, <3>3 DEF ScopeInv, TreeInv, TreeFacts!HInv, TreeFacts!Exists
  <2>5. TreeFacts!KInv'
    BY DEF ScopeInv, TreeInv, TreeFacts!KInv, TreeFacts!Unaware, TreeFacts!Exists
  <2> QED
    BY <2>1, <2>2, <2>3, <2>4, <2>5 DEF TreeInv
<1>2. ScopesAreRows' /\ MovesLegal' /\ CancelsAllowed'
  BY DEF ScopeInv, ScopesAreRows, ScopeRow, MovesLegal, CancelsAllowed
<1> QED
  BY <1>1, <1>2 DEF ScopeInv

-----------------------------------------------------------------------------
(***************************************************************************)
(* An approval adds its tasks to the tree as a request of the tree would:  *)
(* under a responsibility of the same organization, with the same events.  *)
(***************************************************************************)

\* A row _materialise adds for the task a of its plan.
TaskRow(s, x, a) ==
    /\ tree'[x].type = "TASK" /\ tree'[x].parent = sess[s].row.scope
    /\ tree'[x].owner = a.proposal.assignee /\ tree'[x].creator = sess[s].row.creator
    /\ tree'[x].org = OrgOf[sess[s].row.creator] /\ tree'[x].status = "ACTIVE"
    /\ tree'[x].version = 1 /\ tree'[x] \in Tree!WorkRow
    /\ events'[x] = Tree!FirstEvents(a.proposal.assignee, sess[s].row.creator, scopeSaw[s])
    /\ a.proposal.assignee \in Members

\* Every task of the approval gets a row of its own, and no other row is touched.
Materialised(s, id) ==
    /\ id \in [sess[s].content -> Free]
    /\ \A a, b \in sess[s].content : id[a] = id[b] => a = b
    /\ \A a \in sess[s].content : TaskRow(s, id[a], a)
    /\ \A x \in WorkIds : (\A a \in sess[s].content : id[a] # x)
                            => tree'[x] = tree[x] /\ events'[x] = events[x]
    /\ tree' = [x \in WorkIds |-> tree'[x]] /\ events' = [x \in WorkIds |-> events'[x]]

LEMMA ContentFinite ==
    ASSUME TInv, ReadOnce, NEW s \in Sessions
    PROVE  IsFiniteSet(sess[s].content)
<1>1. sess[s].content \in SUBSET Task /\ OnePerItem(sess[s].content)
  BY DEF TInv, TypeOK, Session, ReadOnce
<1> DEFINE itemOf == [t \in sess[s].content |-> t.item]
<1>2. itemOf \in Injection(sess[s].content, Items)
  BY <1>1 DEF OnePerItem, Injection, IsInjective, Task
<1> QED
  BY <1>2, ItemsAssumption, FS_Injection

LEMMA ApproveMaterialises ==
    ASSUME TInv, ReadOnce, Origins, TreeInv, NEW s \in Sessions, Approve(s)
    PROVE  \E id : Materialised(s, id)
<1> DEFINE content == sess[s].content
           row == sess[s].row
<1>1. /\ content \in SUBSET Task /\ row.scope \in Scopes /\ row.creator \in Members
      /\ \A a \in content : a.proposal.assignee \in Members
  <2>1. /\ sess[s].pc = "locked" /\ CanMaterialise(s) /\ content \in SUBSET Task
        /\ KnownRow(row)
    BY DEF Approve, CommitApprove, TInv, TypeOK, Session, SessionsKnow
  <2> QED
    BY <2>1 DEF KnownRow, CanMaterialise, Task, Proposal
<1> DEFINE FreshOf(id) == {id[t] : t \in content}
           MadeOf(id) == [x \in FreshOf(id) |-> CHOOSE t \in content : id[t] = x]
<1>2. PICK id \in [content -> Free] :
        /\ Cardinality(FreshOf(id)) = Cardinality(content)
        /\ tree' = [x \in WorkIds |->
                      IF x \in FreshOf(id)
                      THEN Tree!NewRow("TASK", row.scope,
                                       MadeOf(id)[x].proposal.assignee, row.creator)
                      ELSE tree[x]]
        /\ events' = [x \in WorkIds |->
                        IF x \in FreshOf(id)
                        THEN Tree!FirstEvents(MadeOf(id)[x].proposal.assignee, row.creator,
                                              scopeSaw[s])
                        ELSE events[x]]
  BY DEF Approve, Materialise, EnteredBy
<1> DEFINE fresh == FreshOf(id)
           made == MadeOf(id)
<1>3. \A a, b \in content : id[a] = id[b] => a = b
  <2>1. id \in Surjection(content, fresh)
    BY <1>2 DEF Surjection
  <2>2. id \in Injection(content, fresh)
    BY <1>2, <2>1, ContentFinite, FS_Surjection
  <2> QED
    BY <2>2 DEF Injection, IsInjective
<1>4. ASSUME NEW a \in content
      PROVE  TaskRow(s, id[a], a)
  <2>1. made[id[a]] = a /\ id[a] \in fresh /\ id[a] \in WorkIds
    BY <1>2, <1>3 DEF Free
  <2>2. /\ tree'[id[a]] = Tree!NewRow("TASK", row.scope, a.proposal.assignee, row.creator)
        /\ events'[id[a]] = Tree!FirstEvents(a.proposal.assignee, row.creator, scopeSaw[s])
    BY <1>2, <2>1
  <2> DEFINE new == Tree!NewRow("TASK", row.scope, a.proposal.assignee, row.creator)
  <2>3. /\ new.type = "TASK" /\ new.parent = row.scope /\ new.owner = a.proposal.assignee
        /\ new.creator = row.creator /\ new.org = OrgOf[row.creator] /\ new.status = "ACTIVE"
        /\ new.version = 1
    BY DEF Tree!NewRow
  <2>4. new \in Tree!WorkRow
    BY <1>1, DelegatedWorkAssumption
       DEF Tree!NewRow, Tree!WorkRow, Tree!Types, Tree!Statuses, Tree!MaybeMember
  <2> HIDE DEF new
  <2>5. tree'[id[a]] = new
    BY <2>2 DEF new
  <2> QED
    BY <1>1, <2>2, <2>3, <2>4, <2>5 DEF TaskRow
<1>5. \A x \in WorkIds : (\A a \in content : id[a] # x)
                           => tree'[x] = tree[x] /\ events'[x] = events[x]
  BY <1>2
<1>6. tree' = [x \in WorkIds |-> tree'[x]] /\ events' = [x \in WorkIds |-> events'[x]]
  BY <1>2
<1> QED
  BY <1>2, <1>3, <1>4, <1>5, <1>6, ZenonT(30) DEF Materialised

\* A row of the tree after an approval: as it was, or a task of the plan.
LEMMA RowsAfterApproval ==
    ASSUME NEW s \in Sessions, NEW id, Materialised(s, id), NEW x \in WorkIds
    PROVE  \/ tree'[x] = tree[x] /\ events'[x] = events[x]
           \/ ~ Tree!Exists(x) /\ \E a \in sess[s].content : TaskRow(s, x, a)
BY DEF Materialised, Free

\* A decision that found its responsibility open read it before it was called off.
ScopesSeen ==
    /\ scopeSaw \in [Sessions -> Nat]
    /\ \A s \in Sessions : sess[s].pc = "locked" /\ sess[s].scopeStatus # "CANCELLED"
                              => TreeFacts!Unaware(sess[s].row.scope, scopeSaw[s])

LEMMA EventsEntered ==
    ASSUME NEW owner \in MaybeMember, NEW creator \in Members, NEW saw \in Nat,
           NEW first, first = Tree!FirstEvents(owner, creator, saw)
    PROVE  /\ first \in Seq(Tree!Event)
           /\ \A k \in DOMAIN first : first[k].type \in {"WORK_CREATED", "ASSIGNED"}
<1>1. first = TreeFacts!FirstEvents(owner, creator, saw)
  BY DEF Tree!FirstEvents, TreeFacts!FirstEvents
<1>2. owner \in TreeFacts!MaybeMember
  BY DEF TreeFacts!MaybeMember
<1> QED
  BY <1>1, <1>2, TreeFacts!FirstEventsFacts, TreeAssumptions, SameRows

LEMMA EventsCounted ==
    ASSUME NEW owner \in MaybeMember, NEW creator \in Members, NEW saw \in Nat
    PROVE  /\ Len(Tree!FirstEvents(owner, creator, saw)) = IF owner = NoMember THEN 1 ELSE 2
           /\ Tree!FirstEvents(owner, creator, saw)[1].saw = saw
<1>1. Tree!FirstEvents(owner, creator, saw) = TreeFacts!FirstEvents(owner, creator, saw)
  BY DEF Tree!FirstEvents, TreeFacts!FirstEvents
<1>2. owner \in TreeFacts!MaybeMember
  BY DEF TreeFacts!MaybeMember
<1> QED
  BY <1>1, <1>2, TreeFacts!FirstEventsLength, TreeAssumptions

\* The history of a new row tells of no move.
LEMMA NewHistory ==
    ASSUME NEW x \in WorkIds, Len(events[x]) = TreeFacts!Base(x), tree[x].version = 1,
           \A k \in 1..Len(events[x]) : events[x][k].type \in {"WORK_CREATED", "ASSIGNED"}
    PROVE  TreeFacts!History(x) /\ TreeFacts!Tells(x, tree[x].version, Len(events[x]))
<1>1. TreeFacts!Base(x) \in 1..2
  BY DEF TreeFacts!Base
<1> SUFFICES ASSUME NEW b \in 1..2, b = TreeFacts!Base(x)
             PROVE  TreeFacts!History(x) /\ TreeFacts!Tells(x, tree[x].version, Len(events[x]))
  BY <1>1
<1>2. \A k \in 1..b : ~ (k > b)
  OBVIOUS
<1>3. TreeFacts!History(x)
  BY <1>2 DEF TreeFacts!History, TreeFacts!Entry, TreeFacts!MoveEvents
<1>4. TreeFacts!Tells(x, tree[x].version, Len(events[x]))
  BY <1>2 DEF TreeFacts!Tells, TreeFacts!Clean
<1> QED
  BY <1>3, <1>4

LEMMA ApproveKeepsHistories ==
    ASSUME ScopeInv, ScopesSeen, NEW s \in Sessions, Approve(s), TInv, TreeFacts!WInv',
           NEW id, Materialised(s, id), sess[s].row.scope \in Scopes,
           sess[s].row.creator \in Members
    PROVE  TreeFacts!HInv' /\ TreeFacts!KInv'
<1> DEFINE scope == sess[s].row.scope
           saw == scopeSaw[s]
<1>1. /\ treeSess' = treeSess /\ saw \in Nat /\ sess[s].pc = "locked" /\ CanMaterialise(s)
      /\ TreeFacts!WInv /\ TreeFacts!HInv /\ TreeFacts!KInv /\ TreeFacts!TypeOK'
  BY SameInv DEF Approve, CommitApprove, ScopesSeen, ScopeInv, TreeInv, TreeFacts!IInv, TreeFacts!WInv
<1>2. \A x \in WorkIds :
        \/ tree'[x] = tree[x] /\ events'[x] = events[x]
        \/ ~ TreeFacts!Exists(x) /\ \E a \in sess[s].content : TaskRow(s, x, a)
  BY RowsAfterApproval DEF Tree!Exists, TreeFacts!Exists
<1>3. ASSUME NEW x \in WorkIds, NEW a, TaskRow(s, x, a)
      PROVE  /\ TreeFacts!Exists(x)' /\ tree'[x].type = "TASK" /\ tree'[x].parent = scope
             /\ Len(events'[x]) = 2 /\ events'[x][1].saw = saw
             /\ \A k \in 1..Len(events'[x]) : events'[x][k].type \in {"WORK_CREATED", "ASSIGNED"}
             /\ TreeFacts!History(x)' /\ TreeFacts!Tells(x, tree[x].version, Len(events[x]))'
  <2>1. /\ events'[x] = Tree!FirstEvents(a.proposal.assignee, sess[s].row.creator, saw)
        /\ tree'[x].type = "TASK" /\ tree'[x].parent = scope /\ tree'[x].version = 1
        /\ tree'[x].owner = a.proposal.assignee
        /\ a.proposal.assignee \in MaybeMember /\ a.proposal.assignee # NoMember
    BY <1>3, NoMemberAssumption DEF TaskRow
  <2>2. /\ events'[x] \in Seq(Tree!Event) /\ Len(events'[x]) = 2 /\ events'[x][1].saw = saw
        /\ \A k \in DOMAIN events'[x] : events'[x][k].type \in {"WORK_CREATED", "ASSIGNED"}
    <3>1. Len(events'[x]) = 2 /\ events'[x][1].saw = saw
      BY <1>1, <2>1, EventsCounted
    <3>2. /\ events'[x] \in Seq(Tree!Event)
          /\ \A k \in DOMAIN events'[x] : events'[x][k].type \in {"WORK_CREATED", "ASSIGNED"}
      BY <1>1, <2>1, EventsEntered
    <3> QED
      BY <3>1, <3>2
  <2>3. \A k \in 1..Len(events'[x]) : events'[x][k].type \in {"WORK_CREATED", "ASSIGNED"}
    BY <2>2
  <2>4. TreeFacts!Base(x)' = 2
    BY <2>1 DEF TreeFacts!Base
  <2>5. TreeFacts!History(x)' /\ TreeFacts!Tells(x, tree[x].version, Len(events[x]))'
    <3>1. TreeFacts!History(x)'
      BY <2>2, <2>3, <2>4 DEF TreeFacts!History, TreeFacts!Entry, TreeFacts!MoveEvents
    <3>2. \A k \in 1..2 : ~ (k > 2)
      OBVIOUS
    <3>3. TreeFacts!Clean(x, 2)'
      BY <2>4, <3>2 DEF TreeFacts!Clean
    <3>4. TreeFacts!Tells(x, tree[x].version, Len(events[x]))'
      BY <2>1, <2>2, <2>4, <3>3 DEF TreeFacts!Tells
    <3> QED
      BY <3>1, <3>4
  <2> QED
    BY <2>1, <2>2, <2>3, <2>5 DEF TreeFacts!Exists
<1>4. \A y \in WorkIds : TreeFacts!Exists(y) => TreeFacts!Grows(y)
  <2>1. \A y \in WorkIds : Len(events[y]) \in Nat
    BY DEF ScopeInv, TreeInv, Tree!TypeOK
  <2> QED
    BY <1>2, <2>1 DEF TreeFacts!Grows
<1>5. ASSUME NEW x \in WorkIds
      PROVE  IF TreeFacts!Exists(x)'
             THEN /\ TreeFacts!History(x)'
                  /\ TreeFacts!Tells(x, tree[x].version, Len(events[x]))'
             ELSE events'[x] = <<>>
  <2>1. CASE tree'[x] = tree[x] /\ events'[x] = events[x]
    BY <1>1, <2>1, TreeFacts!HistoryKept, TreeAssumptions DEF TreeFacts!HInv
  <2>2. ASSUME NEW a, TaskRow(s, x, a)
        PROVE  /\ TreeFacts!Exists(x)' /\ TreeFacts!History(x)'
               /\ TreeFacts!Tells(x, tree[x].version, Len(events[x]))'
    BY <1>3, <2>2
  <2> QED
    BY <1>2, <2>1, <2>2
<1>6. ASSUME NEW t \in TreeSessions
      PROVE  /\ treeSess'[t].pc = "ready" /\ treeSess'[t].op \in TreeFacts!Moves
                  => TreeFacts!Seen(t)'
             /\ treeSess'[t].pc = "ready" /\ treeSess'[t].op = "create"
                  => TreeFacts!Unaware(treeSess[t].id, treeSess[t].saw)'
  BY <1>1, <1>4, TreeFacts!SeenAllKept, TreeFacts!UnawareAllKept, TreeAssumptions
<1>7. ASSUME NEW x \in WorkIds, TreeFacts!Exists(x)', tree'[x].type # "TASK",
             NEW k \in 1..Len(events'[x]), events'[x][k].type = "CANCELLED"
      PROVE  tree'[x].status = "CANCELLED"
  BY <1>1, <1>2, <1>3, <1>7 DEF TreeFacts!KInv, TreeFacts!Exists
<1>8. ASSUME NEW x \in WorkIds, NEW y \in WorkIds, TreeFacts!Exists(x)', tree'[x].parent = y
      PROVE  TreeFacts!Unaware(y, events[x][1].saw)'
  <2>1. CASE tree'[x] = tree[x] /\ events'[x] = events[x]
    BY <1>1, <1>4, <1>8, <2>1, TreeFacts!ChildrenKept, TreeAssumptions DEF TreeFacts!Exists
  <2>2. ASSUME NEW a \in sess[s].content, TaskRow(s, x, a)
        PROVE  TreeFacts!Unaware(y, events[x][1].saw)'
    <3>1. y = scope /\ events'[x][1].saw = saw
      BY <1>3, <1>8, <2>2
    <3>2. sess[s].scopeStatus # "CANCELLED"
      BY <1>1, <2>2 DEF CanMaterialise
    <3>3. TreeFacts!Unaware(y, saw)
      BY <1>1, <3>1, <3>2 DEF ScopesSeen
    <3>4. TreeFacts!Exists(y) /\ events[y] \in Seq(TreeFacts!Event)
          /\ events'[y] \in Seq(TreeFacts!Event)
      BY <1>1, <3>1
         DEF ScopeInv, ScopesAreRows, ScopeRow, TreeFacts!Exists, TreeFacts!WInv, TreeFacts!TypeOK
    <3> SUFFICES ASSUME NEW n \in Nat, n = saw PROVE TreeFacts!Unaware(y, n)'
      BY <1>1, <3>1 DEF TreeFacts!Unaware
    <3> QED
      BY <1>4, <3>3, <3>4, TreeFacts!UnawareKept, TreeAssumptions
  <2> QED
    BY <1>2, <2>1, <2>2
<1> QED
  BY <1>5, <1>6, <1>7, <1>8 DEF TreeFacts!HInv, TreeFacts!KInv

LEMMA ApproveKeepsScopeInv ==
    ASSUME TInv, ReadOnce, Origins, ScopeInv, ScopesSeen, NEW s \in Sessions, Approve(s)
    PROVE  ScopeInv'
<1> USE DEF ScopeInv
<1>1. PICK id : Materialised(s, id)
  BY ApproveMaterialises
<1>2. treeSess' = treeSess /\ scopeStatus' = scopeStatus
  BY DEF Approve, CommitApprove
<1>3. \A x \in WorkIds :
        \/ tree'[x] = tree[x] /\ events'[x] = events[x]
        \/ ~ Tree!Exists(x) /\ \E a \in sess[s].content : TaskRow(s, x, a)
  BY <1>1, RowsAfterApproval
<1>4. \A x \in WorkIds : Tree!Exists(x) => tree'[x] = tree[x] /\ events'[x] = events[x]
  BY <1>3
<1>5. /\ sess[s].row.scope \in Scopes /\ sess[s].row.creator \in Members
      /\ OrgOf[sess[s].row.creator] = ScopeOrg[sess[s].row.scope]
  <2>1. sess[s].pc = "locked" /\ sess[s].plan \in Plans /\ Exists(sess[s].plan)
    BY DEF Approve, CommitApprove, TInv, SessionsKnow
  <2> QED
    BY <2>1 DEF Origins, SameOrigin, Origin
<1>6. \A w \in Scopes : w \in WorkIds /\ Tree!Exists(w) /\ ScopeRow(w) /\ tree'[w] = tree[w]
  BY <1>4, DelegatedWorkAssumption DEF ScopesAreRows, ScopeRow, Tree!Exists
<1>7. ASSUME NEW x \in WorkIds, NEW a, TaskRow(s, x, a)
      PROVE  /\ events'[x] \in Seq(Tree!Event)
             /\ \A k \in DOMAIN events'[x] :
                   events'[x][k].type \in {"WORK_CREATED", "ASSIGNED"}
  <2>1. a.proposal.assignee \in MaybeMember /\ scopeSaw[s] \in Nat
    BY <1>7 DEF TaskRow, ScopesSeen
  <2>2. events'[x] = Tree!FirstEvents(a.proposal.assignee, sess[s].row.creator, scopeSaw[s])
    BY <1>7 DEF TaskRow
  <2> QED
    BY <1>5, <2>1, <2>2, EventsEntered
<1>8. Tree!TypeOK'
  <2>1. \A x \in WorkIds : tree'[x] \in Tree!WorkRow /\ events'[x] \in Seq(Tree!Event)
    BY <1>3, <1>7 DEF TreeInv, Tree!TypeOK, TaskRow
  <2>2. /\ tree' = [x \in WorkIds |-> tree'[x]]
        /\ events' = [x \in WorkIds |-> events'[x]]
    BY <1>1 DEF Materialised
  <2>3. tree' \in [WorkIds -> Tree!WorkRow]
    BY <2>1, <2>2
  <2>4. events' \in [WorkIds -> Seq(Tree!Event)]
    BY <2>1, <2>2
  <2> QED
    BY <1>2, <2>3, <2>4 DEF TreeInv, Tree!TypeOK
<1>9. RequestsKnow'
  BY <1>2, <1>4 DEF TreeInv, RequestsKnow, TreeKnows, Tree!Exists
<1>10. Tree!StrictlyNested'
  <2> SUFFICES ASSUME NEW x \in WorkIds, Tree!Exists(x)'
               PROVE  IF tree'[x].type = "INITIATIVE" THEN tree'[x].parent = NoWork
                      ELSE /\ tree'[x].parent \in WorkIds
                           /\ tree'[tree'[x].parent].type = Tree!ParentType[tree'[x].type]
                           /\ tree'[tree'[x].parent].org = tree'[x].org
    BY DEF Tree!StrictlyNested, Tree!ParentType
  <2>1. CASE tree'[x] = tree[x]
    <3>1. Tree!Exists(x) /\ tree[x].type \in Tree!Types
      BY <2>1 DEF Tree!Exists, TreeInv, Tree!TypeOK, Tree!WorkRow
    <3>2. \A type \in Tree!Types \ {"INITIATIVE"} : Tree!ParentType[type] # "none"
      BY DEF Tree!ParentType, Tree!Types
    <3>3. tree[x].type # "INITIATIVE" => /\ tree[x].parent \in WorkIds
                                         /\ tree'[tree[x].parent] = tree[tree[x].parent]
      BY <1>4, <3>1, <3>2 DEF TreeInv, Tree!StrictlyNested, Tree!Exists
    <3> QED
      BY <2>1, <3>1, <3>3 DEF TreeInv, Tree!StrictlyNested
  <2>2. ASSUME NEW a, TaskRow(s, x, a)
        PROVE  /\ tree'[x].type = "TASK" /\ tree'[x].parent \in WorkIds
               /\ tree'[tree'[x].parent].type = Tree!ParentType["TASK"]
               /\ tree'[tree'[x].parent].org = tree'[x].org
    BY <1>5, <1>6, <2>2 DEF TaskRow, ScopeRow, Tree!ParentType, Tree!Types
  <2> QED
    BY <1>3, <2>1, <2>2
<1>11. Tree!OwnersReport'
  BY <1>3, <1>7 DEF TreeInv, Tree!OwnersReport
<1>12. Tree!HistoryExplainsStatus'
  <2> SUFFICES ASSUME NEW x \in WorkIds, Tree!Exists(x)'
               PROVE  \/ Tree!MovesOf(x)' = {} /\ tree'[x].status = "ACTIVE"
                      \/ \E op \in Tree!Moves : /\ Tree!Last(events'[x]).type = Tree!EventFor[op]
                                                /\ tree'[x].status = Tree!Target[op]
    BY DEF Tree!HistoryExplainsStatus, Tree!EventFor, Tree!Target, Tree!Last
  <2>1. CASE tree'[x] = tree[x] /\ events'[x] = events[x]
    BY <2>1 DEF TreeInv, Tree!HistoryExplainsStatus, Tree!MovesOf, Tree!Exists, Tree!Last
  <2>2. ASSUME NEW a, TaskRow(s, x, a)
        PROVE  Tree!MovesOf(x)' = {} /\ tree'[x].status = "ACTIVE"
    BY <1>7, <2>2 DEF TaskRow, Tree!MovesOf, Tree!MoveEvents
  <2> QED
    BY <1>3, <2>1, <2>2
<1>13. TreeInv'
  <2>1. TreeFacts!WInv'
    BY <1>8, <1>9, <1>10, <1>11, <1>12, SamePartly
  <2>2. TreeFacts!HInv' /\ TreeFacts!KInv'
    BY <1>1, <1>5, <2>1, ApproveKeepsHistories
  <2> QED
    BY <1>8, <1>9, <1>10, <1>11, <1>12, <2>2 DEF TreeInv
<1>14. ScopesAreRows'
  BY <1>2, <1>6 DEF ScopesAreRows, ScopeRow
<1>15. MovesLegal' /\ CancelsAllowed'
  BY <1>2 DEF MovesLegal, CancelsAllowed
<1> QED
  BY <1>13, <1>14, <1>15

-----------------------------------------------------------------------------
\* The first tree: its initiatives and responsibilities.
FirstRow(x) ==
    \/ /\ x \in Scopes
       /\ tree[x] = Tree!NewRow("RESPONSIBILITY", InitiativeOf[x], ScopeOwner[x], ScopeCreator[x])
       /\ events[x] = Tree!FirstEvents(ScopeOwner[x], ScopeCreator[x], 0)
    \/ /\ x \notin Scopes
       /\ \E w \in Scopes :
             /\ InitiativeOf[w] = x
             /\ tree[x] = Tree!NewRow("INITIATIVE", NoWork, NoMember, ScopeCreator[w])
             /\ events[x] = Tree!FirstEvents(NoMember, ScopeCreator[w], 0)
    \/ /\ x \notin Scopes /\ ~ IsInitiative(x)
       /\ tree[x] = Tree!NoRow /\ events[x] = <<>>

LEMMA InitRows ==
    ASSUME SystemInit, NEW x \in WorkIds
    PROVE  FirstRow(x)
<1>1. CASE x \in Scopes
  BY <1>1, DelegatedWorkAssumption DEF SystemInit, FirstRow
<1>2. CASE x \notin Scopes /\ IsInitiative(x)
  BY <1>2 DEF SystemInit, FirstRow, IsInitiative, Part
<1>3. CASE x \notin Scopes /\ ~ IsInitiative(x)
  BY <1>3 DEF SystemInit, FirstRow
<1> QED
  BY <1>1, <1>2, <1>3

LEMMA RowEntered ==
    ASSUME NEW type \in Tree!Types, NEW parent \in WorkIds \union {NoWork},
           NEW owner \in MaybeMember, NEW creator \in Members,
           NEW row, row = Tree!NewRow(type, parent, owner, creator)
    PROVE  /\ row \in Tree!WorkRow /\ row.type = type /\ row.parent = parent
           /\ row.owner = owner /\ row.creator = creator /\ row.org = OrgOf[creator]
           /\ row.status = "ACTIVE" /\ row.version = 1
BY DEF Tree!NewRow, Tree!WorkRow, Tree!Types, Tree!Statuses, Tree!MaybeMember

LEMMA InitTree ==
    ASSUME SystemInit, NEW x \in WorkIds
    PROVE  /\ tree[x] \in Tree!WorkRow /\ tree[x].status = "ACTIVE"
           /\ events[x] \in Seq(Tree!Event)
           /\ \A k \in DOMAIN events[x] : events[x][k].type \in {"WORK_CREATED", "ASSIGNED"}
           /\ Tree!Exists(x) => /\ tree[x].version = 1 /\ events[x][1].saw = 0
                                 /\ Len(events[x]) = TreeFacts!Base(x)
           /\ ~ Tree!Exists(x) => events[x] = <<>>
           /\ tree[x].type # "TASK"
           /\ x \in Scopes => ScopeRow(x) /\ tree[x].parent = InitiativeOf[x]
           /\ \A w \in Scopes : InitiativeOf[w] = x =>
                 tree[x].type = "INITIATIVE" /\ tree[x].org = ScopeOrg[w]
           /\ tree[x].type = "INITIATIVE" => tree[x].parent = NoWork
           /\ Tree!Exists(x) => x \in Scopes \/ tree[x].type = "INITIATIVE"
<1> USE DEF Tree!Exists, TreeFacts!Base
<1>1. "RESPONSIBILITY" \in Tree!Types /\ "INITIATIVE" \in Tree!Types
  BY DEF Tree!Types
<1>2. CASE x \in Scopes
  <2>1. /\ ScopeOwner[x] \in MaybeMember /\ ScopeCreator[x] \in Members
        /\ ScopeOrg[x] = OrgOf[ScopeCreator[x]]
        /\ InitiativeOf[x] \in WorkIds \union {NoWork}
    BY <1>2, DelegatedWorkAssumption, PlansAssumption
  <2>2. /\ tree[x] = Tree!NewRow("RESPONSIBILITY", InitiativeOf[x], ScopeOwner[x],
                                 ScopeCreator[x])
        /\ events[x] = Tree!FirstEvents(ScopeOwner[x], ScopeCreator[x], 0) /\ 0 \in Nat
    BY <1>2, InitRows DEF FirstRow
  <2>3. /\ tree[x] \in Tree!WorkRow /\ tree[x].type = "RESPONSIBILITY"
        /\ tree[x].parent = InitiativeOf[x] /\ tree[x].owner = ScopeOwner[x]
        /\ tree[x].creator = ScopeCreator[x] /\ tree[x].org = ScopeOrg[x]
        /\ tree[x].status = "ACTIVE" /\ tree[x].version = 1
    BY <2>1, <2>2
       DEF Tree!NewRow, Tree!WorkRow, Tree!Types, Tree!Statuses, Tree!MaybeMember
  <2>4. /\ events[x] \in Seq(Tree!Event)
        /\ \A k \in DOMAIN events[x] : events[x][k].type \in {"WORK_CREATED", "ASSIGNED"}
    BY <2>1, <2>2, EventsEntered
  <2>5. /\ Len(events[x]) = IF ScopeOwner[x] = NoMember THEN 1 ELSE 2
        /\ events[x][1].saw = 0
    <3> DEFINE first == Tree!FirstEvents(ScopeOwner[x], ScopeCreator[x], 0)
    <3>1. Len(first) = (IF ScopeOwner[x] = NoMember THEN 1 ELSE 2) /\ first[1].saw = 0
      BY <2>1, <2>2, EventsCounted, ZenonT(30)
    <3> QED
      BY <2>2, <3>1
  <2>6. \A w \in Scopes : InitiativeOf[w] # x
    BY <1>2, DelegatedWorkAssumption
  <2> QED
    BY <1>2, <2>3, <2>4, <2>5, <2>6 DEF ScopeRow
<1>3. ASSUME x \notin Scopes, NEW w \in Scopes, InitiativeOf[w] = x,
             tree[x] = Tree!NewRow("INITIATIVE", NoWork, NoMember, ScopeCreator[w]),
             events[x] = Tree!FirstEvents(NoMember, ScopeCreator[w], 0)
      PROVE  /\ tree[x] \in Tree!WorkRow /\ tree[x].status = "ACTIVE"
             /\ tree[x].version = 1 /\ tree[x].type = "INITIATIVE" /\ tree[x].parent = NoWork
             /\ events[x] \in Seq(Tree!Event)
             /\ \A k \in DOMAIN events[x] : events[x][k].type \in {"WORK_CREATED", "ASSIGNED"}
             /\ Len(events[x]) = 1 /\ events[x][1].saw = 0 /\ tree[x].owner = NoMember
             /\ \A v \in Scopes : InitiativeOf[v] = x => tree[x].org = ScopeOrg[v]
  <2>1. /\ ScopeCreator[w] \in Members /\ ScopeOrg[w] = OrgOf[ScopeCreator[w]]
        /\ \A v \in Scopes : InitiativeOf[v] = x => ScopeOrg[v] = ScopeOrg[w]
    BY <1>3, DelegatedWorkAssumption, PlansAssumption
  <2>2. NoWork \in WorkIds \union {NoWork} /\ NoMember \in MaybeMember /\ 0 \in Nat
    OBVIOUS
  <2>3. /\ tree[x] \in Tree!WorkRow /\ tree[x].type = "INITIATIVE"
        /\ tree[x].parent = NoWork /\ tree[x].org = ScopeOrg[w]
        /\ tree[x].status = "ACTIVE" /\ tree[x].version = 1
    BY <1>1, <1>3, <2>1, <2>2, RowEntered
  <2>4. /\ events[x] \in Seq(Tree!Event)
        /\ \A k \in DOMAIN events[x] : events[x][k].type \in {"WORK_CREATED", "ASSIGNED"}
    BY <1>3, <2>1, <2>2, EventsEntered
  <2>5. Len(events[x]) = 1 /\ events[x][1].saw = 0 /\ tree[x].owner = NoMember
    BY <1>1, <1>3, <2>1, <2>2, EventsCounted, RowEntered, SMTT(30)
  <2> QED
    BY <2>1, <2>3, <2>4, <2>5
<1>4. CASE x \notin Scopes /\ ~ IsInitiative(x) /\ tree[x] = Tree!NoRow /\ events[x] = <<>>
  <2>1. /\ Tree!NoRow \in Tree!WorkRow /\ Tree!NoRow.status = "ACTIVE"
        /\ Tree!NoRow.type = "none" /\ <<>> \in Seq(Tree!Event)
    BY DEF Tree!NoRow, Tree!WorkRow, Tree!Types, Tree!Statuses, Tree!MaybeMember
  <2> QED
    BY <1>4, <2>1 DEF IsInitiative
<1>5. CASE x \notin Scopes
  BY <1>3, <1>4, <1>5, InitRows DEF FirstRow
<1> QED
  BY <1>2, <1>5

LEMMA InitScopeInv == SystemInit => ScopeInv
<1> SUFFICES ASSUME SystemInit PROVE ScopeInv
  OBVIOUS
<1>1. \A t \in TreeSessions : treeSess[t] \in Tree!Session /\ treeSess[t].pc = "idle"
  BY SameRows, TreeFacts!IdleTyped, TreeAssumptions DEF SystemInit
<1>2. Tree!TypeOK
  <2>1. tree = [x \in WorkIds |-> tree[x]] /\ events = [x \in WorkIds |-> events[x]]
        /\ treeSess = [t \in TreeSessions |-> treeSess[t]]
    BY DEF SystemInit
  <2>2. tree \in [WorkIds -> Tree!WorkRow]
    BY <2>1, InitTree
  <2>3. events \in [WorkIds -> Seq(Tree!Event)]
    BY <2>1, InitTree
  <2>4. treeSess \in [TreeSessions -> Tree!Session]
    BY <2>1, <1>1
  <2> QED
    BY <2>2, <2>3, <2>4 DEF Tree!TypeOK
<1>3. RequestsKnow /\ MovesLegal /\ CancelsAllowed
  BY <1>1 DEF RequestsKnow, MovesLegal, CancelsAllowed
<1>4. Tree!StrictlyNested
  <2> SUFFICES ASSUME NEW x \in WorkIds, Tree!Exists(x), tree[x].type # "INITIATIVE"
               PROVE  /\ tree[x].parent \in WorkIds
                      /\ tree[tree[x].parent].type = Tree!ParentType[tree[x].type]
                      /\ tree[tree[x].parent].org = tree[x].org
    BY InitTree DEF Tree!StrictlyNested
  <2>1. x \in Scopes /\ ScopeRow(x) /\ tree[x].parent = InitiativeOf[x]
    BY InitTree
  <2>2. InitiativeOf[x] \in WorkIds
    BY <2>1, DelegatedWorkAssumption
  <2>3. Tree!ParentType["RESPONSIBILITY"] = "INITIATIVE"
    BY DEF Tree!ParentType, Tree!Types
  <2> QED
    BY <2>1, <2>2, <2>3, InitTree DEF ScopeRow
<1>5. Tree!OwnersReport
  BY InitTree DEF Tree!OwnersReport
<1>6. Tree!HistoryExplainsStatus
  BY InitTree DEF Tree!HistoryExplainsStatus, Tree!MovesOf, Tree!MoveEvents
<1>7. ScopesAreRows
  <2>1. scopeStatus = [w \in Scopes |-> "ACTIVE"]
    BY DEF SystemInit, Init
  <2>2. \A w \in Scopes : w \in WorkIds
    BY DelegatedWorkAssumption
  <2> QED
    BY <2>1, <2>2, InitTree DEF ScopesAreRows
<1>8. TreeFacts!HInv /\ TreeFacts!KInv
  <2>1. ASSUME NEW x \in WorkIds
        PROVE  /\ \A k \in 1..Len(events[x]) : events[x][k].type \in {"WORK_CREATED", "ASSIGNED"}
               /\ Len(events[x]) \in Nat
    <3>1. events[x] \in Seq(Tree!Event)
      BY InitTree
    <3> QED
      BY <3>1, InitTree
  <2>2. ASSUME NEW x \in WorkIds
        PROVE  IF TreeFacts!Exists(x)
               THEN /\ TreeFacts!History(x)
                    /\ TreeFacts!Tells(x, tree[x].version, Len(events[x]))
               ELSE events[x] = <<>>
    BY <2>1, InitTree, NewHistory DEF Tree!Exists, TreeFacts!Exists
  <2>3. TreeFacts!HInv
    BY <1>1, <2>2 DEF TreeFacts!HInv
  <2>4. ASSUME NEW x \in WorkIds, NEW y \in WorkIds, TreeFacts!Exists(x)
        PROVE  TreeFacts!Unaware(y, events[x][1].saw)
    <3>1. events[x][1].saw = 0
      BY <2>4, InitTree DEF Tree!Exists, TreeFacts!Exists
    <3> QED
      BY <2>1, <3>1 DEF TreeFacts!Unaware
  <2>5. TreeFacts!KInv
    BY <1>1, <2>1, <2>4 DEF TreeFacts!KInv
  <2> QED
    BY <2>3, <2>5
<1> QED
  BY <1>2, <1>3, <1>4, <1>5, <1>6, <1>7, <1>8 DEF ScopeInv, TreeInv

-----------------------------------------------------------------------------
(***************************************************************************)
(* The system as the plans see it.                                         *)
(***************************************************************************)

CInv == TInv /\ StampAgrees /\ ReadOnce /\ Origins /\ ScopeInv /\ ScopesSeen

LEMMA InitCInv == SystemInit => CInv
<1> SUFFICES ASSUME SystemInit PROVE CInv
  OBVIOUS
<1>1. Init /\ Idle.pc = "idle" /\ Idle.content = {}
  BY DEF SystemInit, Idle
<1>2. Origins
  BY <1>1 DEF Init, Origins, Exists, NoRow, Drafting
<1>3. ReadOnce
  BY <1>1 DEF Init, ReadOnce, OnePerItem
<1>4. ScopesSeen
  BY <1>1 DEF SystemInit, Init, ScopesSeen
<1> QED
  BY <1>1, <1>2, <1>3, <1>4, InitTInv, InitStampAgrees, InitScopeInv DEF CInv

LEMMA SystemStepIsAPlanStep ==
    ASSUME CInv, [SystemNext]_systemVars
    PROVE  [Next]_vars
<1>1. CASE UNCHANGED systemVars
  BY <1>1 DEF systemVars
<1>2. ASSUME NEW s \in Sessions, Approve(s) \/ PlanRequest(s)
      PROVE  Next
  <2>1. Approve(s) => Decide(s)
    BY DEF Approve, Decide
  <2> QED
    BY <1>2, <2>1 DEF PlanRequest, Next
<1>3. CASE TreeRequest
  BY <1>3, TreeRequestIsCancelOrNothing DEF CInv, TInv, Next
<1> QED
  BY <1>1, <1>2, <1>3 DEF SystemNext

LEMMA ScopesLeftAlone ==
    ASSUME TInv, NEW s \in Sessions, Request(s)
    PROVE  scopeStatus' = scopeStatus
BY DEF Request, Create, LoadScope, CommitCreate, Edit, LoadPlan, LoadItem, CommitAdd,
       CommitUpdate, CommitRemove, Submit, Validate, CommitSubmit, Decide, View, ViewItems,
       LockBlind, Lock, TurnAway, CommitApprove, CommitReject, Fail, Crash, tables

\* What a decision under its lock has read of its responsibility stays true: the
\* history it read only grows, and it read it as its lock was granted.
LEMMA StepKeepsScopesSeen ==
    ASSUME TInv, Origins, ScopeInv, ScopesSeen, TreeInv', ScopesRead,
           \A y \in WorkIds : Tree!Exists(y) => TreeFacts!Grows(y),
           \A r \in Sessions : SessionStep(r)
    PROVE  ScopesSeen'
<1>1. \A w \in Scopes : /\ w \in WorkIds /\ Tree!Exists(w) /\ tree[w].type = "RESPONSIBILITY"
                         /\ scopeStatus[w] = tree[w].status /\ TreeFacts!Exists(w)
                         /\ TreeFacts!Grows(w)
  BY DelegatedWorkAssumption
     DEF ScopeInv, ScopesAreRows, ScopeRow, Tree!Exists, TreeFacts!Exists
<1>2. \A w \in Scopes : /\ events[w] \in Seq(TreeFacts!Event) /\ Len(events[w]) \in Nat
                         /\ events'[w] \in Seq(TreeFacts!Event)
  BY <1>1, SameRows DEF ScopeInv, TreeInv, Tree!TypeOK
<1>3. ASSUME NEW r \in Sessions, sess'[r].pc = "locked", sess[r].pc # "locked"
      PROVE  /\ plan[sess'[r].plan].scope \in Scopes
             /\ sess'[r].row = plan[sess'[r].plan]
             /\ sess'[r].scopeStatus = tree[plan[sess'[r].plan].scope].status
             /\ scopeSaw'[r] = Len(events[plan[sess'[r].plan].scope])
  <2>1. LockedNow(r)
    BY <1>3 DEF SessionStep
  <2> QED
    BY <1>1, <1>3, <2>1 DEF LockedNow, Origins, Origin, ScopesRead
<1>4. scopeSaw' \in [Sessions -> Nat]
  <2>1. \A r \in Sessions : scopeSaw'[r] \in Nat
    BY <1>2, <1>3 DEF ScopesRead, ScopesSeen
  <2>2. scopeSaw' = [r \in Sessions |-> scopeSaw'[r]]
    BY DEF ScopesRead
  <2> QED
    BY <2>1, <2>2
<1>5. ASSUME NEW r \in Sessions, sess'[r].pc = "locked", sess'[r].scopeStatus # "CANCELLED"
      PROVE  /\ sess'[r].row.scope \in Scopes
             /\ TreeFacts!Unaware(sess'[r].row.scope, scopeSaw'[r])
  <2>1. CASE sess[r].pc = "locked"
    <3>1. sess'[r] = sess[r] /\ scopeSaw'[r] = scopeSaw[r]
      BY <1>5, <2>1 DEF SessionStep, LockedNow, ScopesRead
    <3>2. Exists(sess[r].plan) /\ sess[r].plan \in Plans
      BY <2>1 DEF TInv, SessionsKnow
    <3> QED
      BY <1>5, <2>1, <3>1, <3>2 DEF Origins, SameOrigin, Origin, ScopesSeen
  <2>2. CASE sess[r].pc # "locked"
    <3>1. PICK w \in Scopes : /\ w = sess'[r].row.scope /\ scopeSaw'[r] = Len(events[w])
                              /\ tree[w].status # "CANCELLED"
      BY <1>3, <1>5, <2>2
    <3>2. \A k \in 1..Len(events[w]) : events[w][k].type # "CANCELLED"
      BY <1>1, <3>1 DEF ScopeInv, TreeInv, TreeFacts!KInv
    <3> QED
      BY <1>2, <3>1, <3>2 DEF TreeFacts!Unaware
  <2> QED
    BY <2>1, <2>2
<1>6. ASSUME NEW r \in Sessions, sess'[r].pc = "locked", sess'[r].scopeStatus # "CANCELLED"
      PROVE  TreeFacts!Unaware(sess[r].row.scope, scopeSaw[r])'
  <2>1. PICK w \in Scopes, n \in Nat : w = sess'[r].row.scope /\ n = scopeSaw'[r]
    BY <1>4, <1>5, <1>6
  <2>2. TreeFacts!Unaware(w, n)
    BY <1>5, <1>6, <2>1
  <2>3. TreeFacts!Unaware(w, n)'
    BY <1>1, <1>2, <2>2, TreeFacts!UnawareKept, TreeAssumptions
  <2> QED
    BY <2>1, <2>3 DEF TreeFacts!Unaware
<1> QED
  BY <1>4, <1>6 DEF ScopesSeen

\* No step takes anything back from the history of a row.
LEMMA HistoriesGrow ==
    ASSUME CInv, [SystemNext]_systemVars
    PROVE  \A y \in WorkIds : Tree!Exists(y) => TreeFacts!Grows(y)
<1>1. \A y \in WorkIds : Len(events[y]) \in Nat
  BY DEF CInv, ScopeInv, TreeInv, Tree!TypeOK
<1>2. CASE UNCHANGED <<tree, events>>
  BY <1>1, <1>2 DEF TreeFacts!Grows
<1>3. ASSUME NEW s \in Sessions, Approve(s)
      PROVE  \A y \in WorkIds : Tree!Exists(y) => TreeFacts!Grows(y)
  <2>1. PICK id : Materialised(s, id)
    BY <1>3, ApproveMaterialises DEF CInv, ScopeInv
  <2>2. \A y \in WorkIds : Tree!Exists(y) => tree'[y] = tree[y] /\ events'[y] = events[y]
    BY <2>1, RowsAfterApproval
  <2> QED
    BY <1>1, <2>2 DEF TreeFacts!Grows
<1>4. CASE TreeRequest
  BY <1>4, TreeSteps, TreeStepGrows DEF TreeRequest, CInv, ScopeInv
<1>5. CASE UNCHANGED systemVars
  BY <1>2, <1>5 DEF systemVars
<1> QED
  BY <1>2, <1>3, <1>4, <1>5 DEF SystemNext, PlanRequest

LEMMA StepKeepsCInv ==
    ASSUME CInv, [SystemNext]_systemVars
    PROVE  CInv'
<1>1. TInv' /\ StampAgrees' /\ ReadOnce'
  BY SystemStepIsAPlanStep, StepKeepsTInv, StepKeepsStampAgrees, StepKeepsReadOnce DEF CInv
<1>2. ASSUME UNCHANGED <<plan, sess>>
      PROVE  Origins'
  BY <1>2 DEF CInv, Origins, Exists, Drafting, SameOrigin
<1>3. Origins' /\ ScopeInv' /\ (UNCHANGED systemVars \/ \A r \in Sessions : SessionStep(r))
  <2>1. CASE UNCHANGED systemVars
    BY <2>1, <1>2, TreeUntouchedKeepsScopeInv DEF systemVars, vars, CInv
  <2>2. ASSUME NEW s \in Sessions, PlanRequest(s)
        PROVE  Origins' /\ ScopeInv' /\ \A r \in Sessions : SessionStep(r)
    <3>1. Request(s)
      BY <2>2 DEF PlanRequest, Request
    <3>2. \A r \in Sessions : SessionStep(r)
      BY <3>1, EveryRequestSteps DEF CInv, RequestStep, SessionStep
    <3> QED
      BY <2>2, <3>1, <3>2, RequestKeepsOrigins, ScopesLeftAlone, TreeUntouchedKeepsScopeInv
         DEF CInv, PlanRequest
  <2>3. ASSUME NEW s \in Sessions, Approve(s)
        PROVE  Origins' /\ ScopeInv' /\ \A r \in Sessions : SessionStep(r)
    <3>1. Request(s)
      BY <2>3 DEF Approve, Request, Decide
    <3>2. \A r \in Sessions : SessionStep(r)
      BY <3>1, EveryRequestSteps DEF CInv, RequestStep, SessionStep
    <3> QED
      BY <2>3, <3>1, <3>2, RequestKeepsOrigins, ApproveKeepsScopeInv DEF CInv
  <2>4. CASE TreeRequest
    BY <2>4, <1>2, TreeRequestKeepsScopeInv DEF CInv, TreeRequest, SessionStep
  <2> QED
    BY <2>1, <2>2, <2>3, <2>4 DEF SystemNext
<1>4. ScopesSeen'
  <2>1. CASE UNCHANGED systemVars
    BY <2>1 DEF CInv, systemVars, vars, ScopesSeen, TreeFacts!Unaware
  <2>2. CASE SystemNext
    <3>1. ScopesRead /\ TreeInv'
      BY <1>3, <2>2 DEF SystemNext, ScopeInv
    <3>2. CASE \A r \in Sessions : SessionStep(r)
      BY <3>1, <3>2, HistoriesGrow, StepKeepsScopesSeen DEF CInv
    <3> QED
      BY <1>3, <2>1, <3>2
  <2> QED
    BY <2>1, <2>2
<1> QED
  BY <1>1, <1>3, <1>4 DEF CInv

LEMMA CInvHolds == SystemSpec => []CInv
<1>1. CInv /\ [SystemNext]_systemVars => CInv'
  BY StepKeepsCInv
<1> QED
  BY <1>1, InitCInv, PTL DEF SystemSpec

\* Beside the tree, plans live as DelegationPlans says: whatever requests about work
\* items do to a responsibility (transition, work/lifecycle.py), the plans see it
\* called off by someone who may, or see nothing.
THEOREM TreeOnlyCancelsScopesHolds == SystemSpec => TreeOnlyCancelsScopes
<1>1. SystemInit => Init
  BY DEF SystemInit
<1>2. CInv /\ [SystemNext]_systemVars => [Next]_vars
  BY SystemStepIsAPlanStep
<1> QED
  BY <1>1, <1>2, CInvHolds, PTL DEF SystemSpec, Spec, TreeOnlyCancelsScopes

\* Whatever is proved of the plans alone holds beside a tree that moves on: one
\* approval and its tasks, told to everyone named, decided by the approver.
THEOREM PlansKeepTheirPromises ==
    SystemSpec => /\ [](ApprovedOnce /\ EveryoneNamedIsTold)
                  /\ ApprovedIsFinal /\ KeepsPromise
BY TreeOnlyCancelsScopesHolds, ApprovedOnceHolds, EveryoneNamedIsToldHolds,
   ApprovedIsFinalHolds, KeepsPromiseHolds, PTL DEF TreeOnlyCancelsScopes

LEMMA SameCardinality ==
    ASSUME NEW S
    PROVE  Tree!Cardinality(S) = TreeFacts!Cardinality(S)
BY Zenon DEF Tree!Cardinality, TreeFacts!Cardinality

\* What approvals add to the tree (_materialise, delegation/approval.py) keeps it
\* nested within one organization, with a history that explains every status and
\* reports made by owners only.
THEOREM ApprovalsKeepTheTree ==
    SystemSpec => [](/\ Tree!StrictlyNested /\ Tree!OwnersReport /\ Tree!HistoryExplainsStatus
                     /\ Tree!FinishedForAllWhoSee /\ Tree!OverwritesShow)
<1>1. CInv => /\ Tree!StrictlyNested /\ Tree!OwnersReport /\ Tree!HistoryExplainsStatus
              /\ Tree!FinishedForAllWhoSee /\ Tree!OverwritesShow
  <2> SUFFICES ASSUME CInv
               PROVE  Tree!FinishedForAllWhoSee /\ Tree!OverwritesShow
    BY DEF CInv, ScopeInv, TreeInv
  <2>1. TreeFacts!FinishedForAllWhoSee /\ TreeFacts!OverwritesShow
    BY SameInv, TreeAssumptions, TreeFacts!NobodyMovesTheFinished, TreeFacts!VersionsTell
       DEF CInv, ScopeInv
  <2>2. \A x : Tree!MovesOf(x) = TreeFacts!MovesOf(x)
    BY DEF Tree!MovesOf, TreeFacts!MovesOf, Tree!MoveEvents, TreeFacts!MoveEvents
  <2>3. \A x : Tree!Cardinality(Tree!MovesOf(x)) = TreeFacts!Cardinality(TreeFacts!MovesOf(x))
    BY <2>2, SameCardinality
  <2>4. Tree!FinishedForAllWhoSee
    BY <2>1, <2>2 DEF Tree!FinishedForAllWhoSee, TreeFacts!FinishedForAllWhoSee
  <2>5. Tree!OverwritesShow
    BY <2>1, <2>2, <2>3
       DEF Tree!OverwritesShow, TreeFacts!OverwritesShow, Tree!Counted, TreeFacts!Counted,
           Tree!Exists, TreeFacts!Exists
  <2> QED
    BY <2>4, <2>5
<1> QED
  BY <1>1, CInvHolds, PTL

\* Nothing is added under work by anyone who could see it called off, approvals
\* included: an approval that adds tasks read its responsibility, under its lock,
\* before it was called off, however long ago (_materialise in
\* delegation/approval.py, which asks for the scope's status as it was read).
THEOREM NothingAddedKnowinglyHolds == SystemSpec => []NothingAddedKnowingly
<1>1. CInv => NothingAddedKnowingly
  <2>1. CInv => TreeFacts!NothingAddedKnowingly
    BY SameInv, TreeAssumptions, TreeFacts!NobodyAddsKnowingly DEF CInv, ScopeInv
  <2> QED
    BY <2>1 DEF NothingAddedKnowingly, Tree!NothingAddedKnowingly,
                TreeFacts!NothingAddedKnowingly, Tree!Exists, TreeFacts!Exists
<1> QED
  BY <1>1, CInvHolds, PTL

-----------------------------------------------------------------------------
(***************************************************************************)
(* What was agreed to stands: every task of an approval has a row of its   *)
(* own in the tree, which keeps the columns it was entered with.           *)
(***************************************************************************)

StandsFor(x, a) ==
    /\ tree[x].type = "TASK" /\ tree[x].parent = plan[a[1]].scope
    /\ tree[x].creator = plan[a[1]].creator /\ tree[x].owner = a[2].proposal.assignee

Stands(row) ==
    /\ row \in [Agreed -> WorkIds]
    /\ \A a, b \in Agreed : row[a] = row[b] => a = b
    /\ \A a \in Agreed : StandsFor(row[a], a)

TasksStand == \E row : Stands(row)

LEMMA AgreedPlansExist ==
    ASSUME TInv, StampAgrees, NEW a \in Agreed
    PROVE  a[1] \in Plans /\ Exists(a[1])
<1>1. a[1] \in Plans /\ TasksOf(a[1]) # {}
  BY DEF Agreed
<1>2. work[a[1]] \in Seq(SUBSET Task) /\ work[a[1]] # <<>>
  BY <1>1 DEF TasksOf, TInv, TypeOK
<1>3. Len(work[a[1]]) # 0
  BY <1>2
<1> QED
  BY <1>1, <1>3 DEF StampAgrees, Exists

LEMMA RowsStay ==
    ASSUME NEW a \in Agreed, NEW x \in WorkIds, StandsFor(x, a),
           SameColumns(x), SameOrigin(plan'[a[1]], plan[a[1]])
    PROVE  StandsFor(x, a)'
BY DEF StandsFor, SameColumns, SameOrigin

LEMMA SameWorkKeepsTasksStand ==
    ASSUME CInv, TasksStand, work' = work,
           \A x \in WorkIds : Tree!Exists(x) => SameColumns(x),
           \A p \in Plans : Exists(p) => SameOrigin(plan'[p], plan[p])
    PROVE  TasksStand'
<1>1. PICK row : Stands(row)
  BY DEF TasksStand
<1>2. Agreed' = Agreed
  BY DEF Agreed, TasksOf
<1>3. ASSUME NEW a \in Agreed
      PROVE  StandsFor(row[a], a)'
  <2>1. row[a] \in WorkIds /\ StandsFor(row[a], a) /\ Tree!Exists(row[a])
    BY <1>1 DEF Stands, StandsFor, Tree!Exists
  <2> QED
    BY <2>1, AgreedPlansExist, RowsStay DEF CInv
<1> QED
  BY <1>1, <1>2, <1>3 DEF TasksStand, Stands

LEMMA ApproveKeepsTasksStand ==
    ASSUME CInv, TasksStand, NEW s \in Sessions, Approve(s)
    PROVE  TasksStand'
<1> DEFINE p == sess[s].plan
           content == sess[s].content
<1>1. PICK row : Stands(row)
  BY DEF TasksStand
<1>2. PICK id : Materialised(s, id)
  BY ApproveMaterialises DEF CInv, ScopeInv
<1>3. /\ p \in Plans /\ Exists(p) /\ SameOrigin(sess[s].row, plan[p])
      /\ content \in SUBSET Task
  BY DEF Approve, CommitApprove, CInv, TInv, TypeOK, Session, SessionsKnow, Origins
<1>4. \A q \in Plans : Exists(q) => SameOrigin(plan'[q], plan[q])
  <2>1. Request(s)
    BY DEF Approve, Request, Decide
  <2> QED
    BY <2>1, EveryRequestSteps DEF CInv, RequestStep, OriginStep
<1>5. ASSUME NEW a \in Agreed', a \notin Agreed
      PROVE  a[1] = p /\ a[2] \in content /\ a = <<a[1], a[2]>>
  <2>1. a \in Plans \X Task /\ a[2] \in TasksOf(a[1])' /\ a[2] \notin TasksOf(a[1])
    BY <1>5 DEF Agreed
  <2>2. /\ work[a[1]] \in Seq(SUBSET Task)
        /\ work'[a[1]] = IF a[1] = p THEN Append(work[a[1]], content) ELSE work[a[1]]
    BY <2>1, <1>3 DEF Approve, CommitApprove, CInv, TInv, TypeOK
  <2>3. a[1] = p
    BY <2>1, <2>2 DEF TasksOf
  <2>4. PICK k \in DOMAIN Append(work[p], content) : a[2] \in Append(work[p], content)[k]
    BY <2>1, <2>2, <2>3 DEF TasksOf
  <2>5. k \in DOMAIN work[p] \/ Append(work[p], content)[k] = content
    BY <1>3, <2>2, <2>3
  <2>6. k \in DOMAIN work[p] => Append(work[p], content)[k] = work[p][k]
    BY <1>3, <2>2, <2>3
  <2> QED
    BY <2>1, <2>3, <2>4, <2>5, <2>6 DEF TasksOf
<1>6. ASSUME NEW a \in Agreed
      PROVE  row[a] \in WorkIds /\ Tree!Exists(row[a]) /\ StandsFor(row[a], a)'
  <2>1. row[a] \in WorkIds /\ StandsFor(row[a], a) /\ Tree!Exists(row[a])
    BY <1>1 DEF Stands, StandsFor, Tree!Exists
  <2>2. SameColumns(row[a])
    BY <1>2, <2>1, RowsAfterApproval DEF SameColumns
  <2> QED
    BY <1>4, <2>1, <2>2, AgreedPlansExist, RowsStay DEF CInv
<1>7. ASSUME NEW a \in Agreed', a \notin Agreed
      PROVE  /\ id[a[2]] \in WorkIds /\ ~ Tree!Exists(id[a[2]])
             /\ StandsFor(id[a[2]], a)'
  <2>1. a[2] \in content /\ a[1] = p
    BY <1>5, <1>7
  <2>2. id[a[2]] \in Free /\ TaskRow(s, id[a[2]], a[2])
    BY <1>2, <2>1 DEF Materialised
  <2> QED
    BY <1>3, <1>4, <2>1, <2>2 DEF Free, TaskRow, StandsFor, SameOrigin
<1>8. PICK after : after = [a \in Agreed' |-> IF a \in Agreed THEN row[a] ELSE id[a[2]]]
  OBVIOUS
<1>9. after \in [Agreed' -> WorkIds]
  BY <1>6, <1>7, <1>8
<1>10. ASSUME NEW a \in Agreed', NEW b \in Agreed', after[a] = after[b]
       PROVE  a = b
  <2>1. CASE a \in Agreed /\ b \in Agreed
    BY <1>1, <1>8, <1>10, <2>1 DEF Stands
  <2>2. CASE a \notin Agreed /\ b \notin Agreed
    BY <1>2, <1>5, <1>8, <1>10, <2>2 DEF Materialised
  <2> QED
    BY <1>6, <1>7, <1>8, <1>10, <2>1, <2>2
<1>11. ASSUME NEW a \in Agreed'
       PROVE  StandsFor(after[a], a)'
  <2>1. CASE a \in Agreed
    BY <1>6, <1>8, <2>1
  <2>2. CASE a \notin Agreed
    BY <1>7, <1>8, <2>2
  <2> QED
    BY <2>1, <2>2
<1> QED
  BY <1>9, <1>10, <1>11 DEF TasksStand, Stands

LEMMA StepKeepsTasksStand ==
    ASSUME CInv, TasksStand, [SystemNext]_systemVars
    PROVE  TasksStand'
<1>1. CASE UNCHANGED systemVars
  BY <1>1, SameWorkKeepsTasksStand DEF systemVars, vars, SameColumns, SameOrigin
<1>2. ASSUME NEW s \in Sessions, PlanRequest(s)
      PROVE  TasksStand'
  <2>1. Request(s)
    BY <1>2 DEF PlanRequest, Request
  <2>2. \A p \in Plans : Exists(p) => SameOrigin(plan'[p], plan[p])
    BY <2>1, EveryRequestSteps DEF CInv, RequestStep, OriginStep
  <2> QED
    BY <1>2, <2>2, SameWorkKeepsTasksStand DEF PlanRequest, SameColumns
<1>3. CASE TreeRequest
  <2>1. PICK t \in TreeSessions : TreeStep(t)
    BY <1>3, TreeSteps DEF TreeRequest, CInv, ScopeInv
  <2> QED
    BY <1>3, <2>1, TreeStepLeavesColumns, SameWorkKeepsTasksStand
       DEF TreeRequest, CInv, ScopeInv, SameOrigin
<1> QED
  BY <1>1, <1>2, <1>3, ApproveKeepsTasksStand DEF SystemNext

LEMMA StandingMeansCounted == TasksStand => ApprovedTasksStand
<1> SUFFICES ASSUME NEW row, Stands(row), NEW w \in Scopes, NEW c \in Members, NEW m \in Members
             PROVE  LET agreed == {a \in Agreed : /\ a[2].proposal.assignee = m
                                                  /\ plan[a[1]].scope = w
                                                  /\ plan[a[1]].creator = c}
                        standing == {x \in WorkIds : /\ tree[x].type = "TASK"
                                                     /\ tree[x].parent = w
                                                     /\ tree[x].creator = c
                                                     /\ tree[x].owner = m}
                    IN  Cardinality(agreed) <= Cardinality(standing)
  BY DEF TasksStand, ApprovedTasksStand
<1> DEFINE agreed == {a \in Agreed : /\ a[2].proposal.assignee = m
                                     /\ plan[a[1]].scope = w /\ plan[a[1]].creator = c}
           standing == {x \in WorkIds : /\ tree[x].type = "TASK" /\ tree[x].parent = w
                                        /\ tree[x].creator = c /\ tree[x].owner = m}
           rowOf == [a \in agreed |-> row[a]]
<1>1. IsFiniteSet(standing)
  BY WorkIdsAssumption, FS_Subset
<1>2. rowOf \in Injection(agreed, standing)
  BY DEF Stands, StandsFor, Injection, IsInjective
<1> HIDE DEF agreed, standing, rowOf
<1>3. Cardinality(agreed) <= Cardinality(standing)
  BY <1>1, <1>2, FS_Injection
<1> QED
  BY <1>3 DEF agreed, standing

\* The tasks of an approved plan stay in the tree, each in a row of its own under the
\* plan's responsibility, in the name of its creator and owned by whom it named,
\* whatever requests overlap and whatever is done to them (_materialise in
\* delegation/approval.py, over the handlers of api/work_items.py).
THEOREM ApprovedTasksStandHolds == SystemSpec => []ApprovedTasksStand
<1>1. SystemInit => TasksStand
  <2> SUFFICES ASSUME SystemInit PROVE TasksStand
    OBVIOUS
  <2>1. Agreed = {}
    BY DEF SystemInit, Init, Agreed, TasksOf
  <2>2. Stands([a \in Agreed |-> NoWork])
    BY <2>1 DEF Stands
  <2> QED
    BY <2>2 DEF TasksStand
<1>2. CInv /\ TasksStand /\ [SystemNext]_systemVars => TasksStand'
  BY StepKeepsTasksStand
<1>3. TasksStand => ApprovedTasksStand
  BY StandingMeansCounted
<1> QED
  BY <1>1, <1>2, <1>3, CInvHolds, PTL DEF SystemSpec

=============================================================================
