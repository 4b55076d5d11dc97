---------------------------- MODULE Permissions ----------------------------
(***************************************************************************)
(* The permission engine (app/domain/permissions): can() as a predicate of *)
(* an actor, an action and a subject.                                      *)
(*                                                                         *)
(* A subject is what context.py builds from a row: the organization, the   *)
(* responsible member of a work item (its owner, else its creator), or the *)
(* creator, approver and status of a plan.  The memberships table is       *)
(* constant here: no handler of the code writes it.                        *)
(***************************************************************************)
EXTENDS OrgGraph

CONSTANTS
    Manager,        \* the hierarchy
    Superadmins,    \* members with is_superadmin
    ActiveMembers,  \* members whose status is ACTIVE
    OrgOf           \* the organization of each member

ASSUME MembershipsAssumption ==
    /\ Manager \in Hierarchies
    /\ Superadmins \subseteq Members
    /\ ActiveMembers \subseteq Members
    /\ DOMAIN OrgOf = Members

\* Actor.scope, resolved once per actor by load_actor.
ScopeOf == [m \in Members |-> ScopeIds(Manager, m)]

Covers(actor, m) == m \in ScopeOf[actor]

Manages(actor, m) == m # actor /\ m \in ScopeOf[actor]

\* Who answers for a work item: its owner, or its creator while it has none.
ResponsibleFor(owner, creator) == IF owner = NoMember THEN creator ELSE owner

WorkSubject(org, owner, creator) ==
    [org |-> org, owner |-> owner, responsible |-> ResponsibleFor(owner, creator)]

DelegationSubject(org, owner, creator, proposed) ==
    [org |-> org, responsible |-> ResponsibleFor(owner, creator), proposed |-> proposed]

MemberSubject(org, member) == [org |-> org, member |-> member]

PlanSubject(org, creator, approver, status) ==
    [org |-> org, creator |-> creator, approver |-> approver, status |-> status]

-----------------------------------------------------------------------------
\* The rules, one per family of _RULES.

EditPlanRule(actor, plan) ==
    \/ plan.status = "DRAFT" /\ plan.creator = actor
    \/ plan.status = "PENDING_APPROVAL" /\ plan.approver = actor

SubmitPlanRule(actor, plan) == plan.status = "DRAFT" /\ plan.creator = actor

DecidePlanRule(actor, plan) == plan.status = "PENDING_APPROVAL" /\ plan.approver = actor

ResponsibilityRule(actor, work) == Covers(actor, work.responsible)

OwnTaskRule(actor, work) == work.owner = actor

DelegateRule(actor, handover) ==
    /\ Covers(actor, handover.responsible)
    /\ Manages(actor, handover.proposed)

ViewMemberRule(actor, target) == Covers(actor, target.member)

\* An action without a rule, or whose rule is for administrators, is denied.
Rule(actor, action, subject) ==
    CASE action = "EDIT_PLAN" -> EditPlanRule(actor, subject)
      [] action = "SUBMIT_PLAN" -> SubmitPlanRule(actor, subject)
      [] action \in {"APPROVE_PLAN", "REJECT_PLAN"} -> DecidePlanRule(actor, subject)
      [] action \in {"CREATE_PLAN", "VIEW_WORK_ITEM", "EDIT_WORK_ITEM",
                     "CANCEL_WORK_ITEM", "CREATE_WORK_ITEM"}
            -> ResponsibilityRule(actor, subject)
      [] action \in {"START_TASK", "COMPLETE_TASK"} -> OwnTaskRule(actor, subject)
      [] action = "DELEGATE_RESPONSIBILITY" -> DelegateRule(actor, subject)
      [] action = "VIEW_MEMBER_WORK" -> ViewMemberRule(actor, subject)
      [] OTHER -> FALSE

Can(actor, action, subject) ==
    /\ actor \in ActiveMembers
    /\ subject.org = OrgOf[actor]
    /\ actor \in Superadmins \/ Rule(actor, action, subject)
=============================================================================
