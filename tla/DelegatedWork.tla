--------------------------- MODULE DelegatedWork ---------------------------
(***************************************************************************)
(* Delegation plans and the work tree they delegate, in one database:      *)
(* DelegationPlans composed with WorkItems.                                *)
(*                                                                         *)
(* The two meet twice.  The responsibility a plan is made for is a row of  *)
(* the tree, which the tree's own requests may call off; and an approval   *)
(* adds rows to the tree (_materialise, in approval.py), which the tree's  *)
(* requests then start, finish and call off like any others.               *)
(***************************************************************************)
EXTENDS DelegationPlans

CONSTANTS
    WorkIds, NoWork,  \* ids of work items, the scopes of plans among them
    InitiativeOf,     \* the initiative each scope belongs to
    TreeSessions,     \* requests about work items in flight at once
    MayMove, Owners   \* what they may ask, as in WorkItems

ASSUME DelegatedWorkAssumption ==
    /\ Scopes \subseteq WorkIds /\ NoWork \notin WorkIds
    /\ InitiativeOf \in [Scopes -> WorkIds \ Scopes]
    /\ \A v, w \in Scopes : InitiativeOf[v] = InitiativeOf[w] => ScopeOrg[v] = ScopeOrg[w]
    /\ TreeSessions \intersect Sessions = {}
    /\ Owners \subseteq MaybeMember
    /\ MayMove \in [TreeSessions -> SUBSET {"create", "start", "complete", "cancel"}]
    /\ \A w \in Scopes : ScopeType[w] = "RESPONSIBILITY" /\ ScopeOrg[w] = OrgOf[ScopeCreator[w]]

\* The database holds finitely many rows.
ASSUME WorkIdsAssumption == IsFiniteSet(WorkIds)

VARIABLES
    tree,      \* work_items
    events,    \* task_events
    treeSess,  \* what each request about work items has read
    scopeSaw   \* auxiliary, as saw in WorkItems: how long the history of its
               \* responsibility was when a decision under its lock read it

Tree == INSTANCE WorkItems WITH
    Sessions <- TreeSessions, item <- tree, sess <- treeSess

systemVars == <<vars, tree, events, treeSess, scopeSaw>>

\* A responsibility of the initiative x, if x is one.
Part(x) == CHOOSE w \in Scopes : InitiativeOf[w] = x

IsInitiative(x) == \E w \in Scopes : InitiativeOf[w] = x

\* The tree before the first plan: the responsibilities, entered by their creators,
\* under their initiatives.
SystemInit ==
    /\ Init
    /\ tree = [x \in WorkIds |->
                 IF x \in Scopes
                 THEN Tree!NewRow(ScopeType[x], InitiativeOf[x], ScopeOwner[x], ScopeCreator[x])
                 ELSE IF IsInitiative(x)
                 THEN Tree!NewRow("INITIATIVE", NoWork, NoMember, ScopeCreator[Part(x)])
                 ELSE Tree!NoRow]
    /\ events = [x \in WorkIds |->
                   IF x \in Scopes THEN Tree!FirstEvents(ScopeOwner[x], ScopeCreator[x], 0)
                   ELSE IF IsInitiative(x)
                   THEN Tree!FirstEvents(NoMember, ScopeCreator[Part(x)], 0)
                   ELSE <<>>]
    /\ treeSess = [t \in TreeSessions |-> Tree!Idle]
    /\ scopeSaw = [s \in Sessions |-> 0]

Free == {x \in WorkIds : ~ Tree!Exists(x)}

\* Slip: tasks are entered in the name of whoever approved them.
EnteredByApprover(s) == sess[s].actor

EnteredBy(s) == sess[s].row.creator

\* _materialise: every item of the plan as a task under its scope, owned by its
\* assignee and entered in the name of the plan's creator.
Materialise(s) ==
    \E id \in [sess[s].content -> Free] :
        LET fresh == {id[t] : t \in sess[s].content}
            made == [x \in fresh |-> CHOOSE t \in sess[s].content : id[t] = x]
        IN  /\ Cardinality(fresh) = Cardinality(sess[s].content)
            /\ tree' = [x \in WorkIds |->
                          IF x \in fresh
                          THEN Tree!NewRow("TASK", sess[s].row.scope,
                                           made[x].proposal.assignee, EnteredBy(s))
                          ELSE tree[x]]
            /\ events' = [x \in WorkIds |->
                            IF x \in fresh
                            THEN Tree!FirstEvents(made[x].proposal.assignee,
                                                  EnteredBy(s), scopeSaw[s])
                            ELSE events[x]]

Approve(s) ==
    /\ CommitApprove(s)
    /\ Materialise(s)
    /\ UNCHANGED treeSess

\* Everything else a request about plans does leaves the tree alone.
PlanRequest(s) ==
    /\ Create(s) \/ Edit(s) \/ Submit(s) \/ Decide(s) \/ Fail(s) \/ Crash(s)
    /\ work' = work
    /\ UNCHANGED <<tree, events, treeSess>>

\* A request about work items.  The scopes' status is theirs.
TreeRequest ==
    /\ Tree!Next
    /\ scopeStatus' = [w \in Scopes |-> tree'[w].status]
    /\ UNCHANGED <<plan, items, decisions, work, outbox, audit, sess>>

\* A decision reads its responsibility once its lock is granted.
ScopesRead ==
    scopeSaw' = [s \in Sessions |->
                    IF sess'[s].pc # "locked" THEN 0
                    ELSE IF sess[s].pc = "locked" THEN scopeSaw[s]
                    ELSE Len(events[plan[sess'[s].plan].scope])]

SystemNext ==
    /\ \/ \E s \in Sessions : Approve(s) \/ PlanRequest(s)
       \/ TreeRequest
    /\ ScopesRead

SystemSpec == SystemInit /\ [][SystemNext]_systemVars

-----------------------------------------------------------------------------
\* What DelegationPlans takes for granted about responsibilities is what the work
\* tree does to them: seen from the plans, a request about work items calls off
\* a scope, by someone who may, or changes nothing.
TreeOnlyCancelsScopes == Spec

\* Nothing is added under work by anyone who could see it called off, whether
\* someone asks for it or an approval brings it (test_work_tree.py:121).
NothingAddedKnowingly == Tree!NothingAddedKnowingly

\* What has been agreed to: a plan and a task of its approval.
Agreed == {a \in Plans \X Task : a[2] \in TasksOf(a[1])}

\* The tasks of an approved plan stay in the tree, under its responsibility, in the
\* name of its creator and owned by whom it named, whatever is done to them
\* (states.py: "it records what was agreed to").
ApprovedTasksStand ==
    \A w \in Scopes, c, m \in Members :
        LET agreed == {a \in Agreed : /\ a[2].proposal.assignee = m
                                      /\ plan[a[1]].scope = w /\ plan[a[1]].creator = c}
            standing == {x \in WorkIds : /\ tree[x].type = "TASK" /\ tree[x].parent = w
                                         /\ tree[x].creator = c /\ tree[x].owner = m}
        IN  Cardinality(agreed) <= Cardinality(standing)
=============================================================================
