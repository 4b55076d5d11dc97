----------------------------- MODULE WorkItems -----------------------------
(***************************************************************************)
(* The work tree: creating initiatives, responsibilities and tasks, and    *)
(* starting, completing and cancelling them (app/domain/work/service.py,   *)
(* lifecycle.py, events.py and app/api/work_items.py).                     *)
(*                                                                         *)
(* A request reads the row it is about (the parent, for a creation),       *)
(* checks permission and legality on that read, and writes later.  No      *)
(* statement locks or re-checks the row: the UPDATE writes the new status  *)
(* and the version read plus one.                                          *)
(*                                                                         *)
(* The field saw of requests and events is auxiliary: the length of the    *)
(* history, of the row that was read, when it was read.                    *)
(***************************************************************************)
EXTENDS Permissions, FiniteSets

CONSTANTS
    WorkIds, NoWork,   \* ids of work items
    Sessions,          \* requests in flight at once
    MayMove,           \* the moves each session may ask for, and "create"
    Owners             \* the owners a request may name, NoMember for none

Types == {"INITIATIVE", "RESPONSIBILITY", "TASK"}
Statuses == {"ACTIVE", "IN_PROGRESS", "COMPLETE", "CANCELLED"}
Moves == {"start", "complete", "cancel"}
MaybeMember == Members \union {NoMember}

ASSUME WorkAssumption ==
    /\ NoWork \notin WorkIds
    /\ Owners \subseteq MaybeMember
    /\ MayMove \in [Sessions -> SUBSET (Moves \union {"create"})]

VARIABLES
    item,    \* work_items
    events,  \* task_events of each item, in the order of commits (created_at is
             \* when a transaction began, so overlapping moves may be listed otherwise)
    sess     \* what each request has read

tables == <<item, events>>
vars == <<item, events, sess>>

WorkRow == [type : Types \union {"none"}, org : {OrgOf[m] : m \in Members} \union {"none"},
            parent : WorkIds \union {NoWork}, owner : MaybeMember, creator : MaybeMember,
            status : Statuses, version : Nat]

NoRow == [type |-> "none", org |-> "none", parent |-> NoWork, owner |-> NoMember,
          creator |-> NoMember, status |-> "ACTIVE", version |-> 0]

Event == [type : {"WORK_CREATED", "ASSIGNED", "STARTED", "COMPLETED", "CANCELLED"},
          by : Members, saw : Nat]

Session == [pc : {"idle", "ready"}, op : Moves \union {"create", "none"},
            actor : MaybeMember, id : WorkIds \union {NoWork}, row : WorkRow, saw : Nat]

Idle == [pc |-> "idle", op |-> "none", actor |-> NoMember, id |-> NoWork, row |-> NoRow,
         saw |-> 0]

TypeOK ==
    /\ item \in [WorkIds -> WorkRow]
    /\ events \in [WorkIds -> Seq(Event)]
    /\ sess \in [Sessions -> Session]

Init ==
    /\ item = [x \in WorkIds |-> NoRow]
    /\ events = [x \in WorkIds |-> <<>>]
    /\ sess = [s \in Sessions |-> Idle]

-----------------------------------------------------------------------------
Exists(x) == item[x].type # "none"

SubjectOf(row) == WorkSubject(row.org, row.owner, row.creator)

\* ALLOWED_PARENT_TYPE.
ParentType == [t \in Types |-> CASE t = "INITIATIVE" -> "none"
                                 [] t = "RESPONSIBILITY" -> "INITIATIVE"
                                 [] t = "TASK" -> "RESPONSIBILITY"]

\* Slip: a task may hang from any container.
ValidPlacementLoose(type, parent) ==
    /\ parent.type # "TASK"
    /\ parent.status # "CANCELLED"

\* Slip: cancelled parents are accepted.
ValidPlacementAnyStatus(type, parent) == parent.type = ParentType[type]

\* _validate_placement, below a parent.
ValidPlacement(type, parent) ==
    /\ parent.type = ParentType[type]
    /\ parent.status # "CANCELLED"

\* Slip: finished work may be finished again, or called off.
TaskTransitionsPastComplete ==
    {<<"ACTIVE", "IN_PROGRESS">>, <<"ACTIVE", "COMPLETE">>, <<"IN_PROGRESS", "COMPLETE">>,
     <<"COMPLETE", "COMPLETE">>, <<"ACTIVE", "CANCELLED">>, <<"IN_PROGRESS", "CANCELLED">>,
     <<"COMPLETE", "CANCELLED">>}

TaskTransitions ==
    {<<"ACTIVE", "IN_PROGRESS">>, <<"ACTIVE", "COMPLETE">>, <<"IN_PROGRESS", "COMPLETE">>,
     <<"ACTIVE", "CANCELLED">>, <<"IN_PROGRESS", "CANCELLED">>}

ContainerTransitions == {<<"ACTIVE", "CANCELLED">>}

\* Slip: one table of transitions for every type.
AllowedForAny(type) == TaskTransitions

AllowedTransitions(type) == IF type = "TASK" THEN TaskTransitions ELSE ContainerTransitions

Target == [start |-> "IN_PROGRESS", complete |-> "COMPLETE", cancel |-> "CANCELLED"]

\* Slip: the event is named after the status reached.
EventForStatus == [start |-> "IN_PROGRESS", complete |-> "COMPLETE", cancel |-> "CANCELLED"]

EventFor == [start |-> "STARTED", complete |-> "COMPLETED", cancel |-> "CANCELLED"]

ActionFor(op) == CASE op = "start" -> "START_TASK"
                   [] op = "complete" -> "COMPLETE_TASK"
                   [] op = "cancel" -> "CANCEL_WORK_ITEM"

\* An actor sees the item and may do this with it.
May(actor, action, row) ==
    /\ Can(actor, "VIEW_WORK_ITEM", SubjectOf(row))
    /\ Can(actor, action, SubjectOf(row))

-----------------------------------------------------------------------------
\* create_work_item: the row and, in the same transaction, its first events.
NewRow(type, parent, owner, creator) ==
    [type |-> type, org |-> OrgOf[creator], parent |-> parent, owner |-> owner,
     creator |-> creator, status |-> "ACTIVE", version |-> 1]

FirstEvents(owner, creator, saw) ==
    <<[type |-> "WORK_CREATED", by |-> creator, saw |-> saw]>>
        \o IF owner = NoMember THEN <<>>
           ELSE <<[type |-> "ASSIGNED", by |-> creator, saw |-> saw]>>

Insert(x, type, parent, owner, actor, saw) ==
    /\ item' = [item EXCEPT ![x] = NewRow(type, parent, owner, actor)]
    /\ events' = [events EXCEPT ![x] = FirstEvents(owner, actor, saw)]

\* A request that keeps the row it read.
Reading(op, actor, x) ==
    [pc |-> "ready", op |-> op, actor |-> actor, id |-> x, row |-> item[x],
     saw |-> Len(events[x])]

\* POST /work-items.
\* An initiative has no parent to read, so nothing separates check and write.
CreateInitiative(s, actor, x, owner) ==
    /\ sess[s].pc = "idle" /\ "create" \in MayMove[s]
    /\ actor \in Superadmins \intersect ActiveMembers
    /\ owner # NoMember => OrgOf[owner] = OrgOf[actor]
    /\ ~ Exists(x)
    /\ Insert(x, "INITIATIVE", NoWork, owner, actor, 0)
    /\ UNCHANGED sess

\* Anything else reads its parent, and places the new item under that read.
LoadParent(s, actor, parent) ==
    /\ sess[s].pc = "idle" /\ "create" \in MayMove[s]
    /\ Exists(parent)
    /\ May(actor, "CREATE_WORK_ITEM", item[parent])
    /\ \E t \in Types \ {"INITIATIVE"} : ValidPlacement(t, item[parent])
    /\ sess' = [sess EXCEPT ![s] = Reading("create", actor, parent)]
    /\ UNCHANGED tables

CommitCreate(s, x, type, owner) ==
    /\ sess[s].pc = "ready" /\ sess[s].op = "create"
    /\ ~ Exists(x)
    /\ type # "INITIATIVE" /\ ValidPlacement(type, sess[s].row)
    /\ owner # NoMember => OrgOf[owner] = OrgOf[sess[s].actor]
    /\ Insert(x, type, sess[s].id, owner, sess[s].actor, sess[s].saw)
    /\ sess' = [sess EXCEPT ![s] = Idle]

\* POST /work-items/{id}/start, /complete and /cancel.  Asking for the status
\* the item is read in is answered without a write, so it is no step here.
LoadItem(s, actor, x, op) ==
    /\ sess[s].pc = "idle" /\ op \in MayMove[s] \intersect Moves
    /\ Exists(x)
    /\ May(actor, ActionFor(op), item[x])
    /\ <<item[x].status, Target[op]>> \in AllowedTransitions(item[x].type)
    /\ sess' = [sess EXCEPT ![s] = Reading(op, actor, x)]
    /\ UNCHANGED tables

\* Slip: the event names the status that was left, not the one reached.
RecordedFromOld(s) ==
    [type |-> IF sess[s].row.status = "IN_PROGRESS" THEN "STARTED" ELSE EventFor[sess[s].op],
     by |-> sess[s].actor, saw |-> sess[s].saw]

Recorded(s) == [type |-> EventFor[sess[s].op], by |-> sess[s].actor, saw |-> sess[s].saw]

\* Slip: the version does not move.
SameVersion(row) == row.version

NextVersion(row) == row.version + 1

\* transition: the status, the version read plus one, and the event.
CommitMove(s) ==
    LET x == sess[s].id
    IN  /\ sess[s].pc = "ready" /\ sess[s].op \in Moves
        /\ item' = [item EXCEPT ![x].status = Target[sess[s].op],
                                ![x].version = NextVersion(sess[s].row)]
        /\ events' = [events EXCEPT ![x] = Append(@, Recorded(s))]
        /\ sess' = [sess EXCEPT ![s] = Idle]

\* The request dies before its commit, or (a bound) no id is left.
Crash(s) ==
    /\ sess[s].pc # "idle"
    /\ sess' = [sess EXCEPT ![s] = Idle]
    /\ UNCHANGED tables

Next ==
    \E s \in Sessions :
        \/ \E actor \in Members, x \in WorkIds, owner \in Owners :
              CreateInitiative(s, actor, x, owner)
        \/ \E actor \in Members, x \in WorkIds : LoadParent(s, actor, x)
        \/ \E x \in WorkIds, t \in Types, owner \in Owners : CommitCreate(s, x, t, owner)
        \/ \E actor \in Members, x \in WorkIds, op \in Moves : LoadItem(s, actor, x, op)
        \/ CommitMove(s)
        \/ Crash(s)

Spec == Init /\ [][Next]_vars

-----------------------------------------------------------------------------
MoveEvents == {"STARTED", "COMPLETED", "CANCELLED"}

\* The moves recorded for an item, by their place in its history.
MovesOf(x) == {k \in DOMAIN events[x] : events[x][k].type \in MoveEvents}

\* However requests overlap, an item's status is the one its last recorded move
\* reached (events.py: "history cannot diverge from state").
HistoryExplainsStatus ==
    \A x \in WorkIds : Exists(x) =>
        LET last == Last(events[x])
        IN  \/ MovesOf(x) = {} /\ item[x].status = "ACTIVE"
            \/ \E op \in Moves : last.type = EventFor[op] /\ item[x].status = Target[op]

\* The tree stays strictly nested within one organization: every chain of
\* parents climbs task, responsibility, initiative.
StrictlyNested ==
    \A x \in WorkIds : Exists(x) =>
        IF item[x].type = "INITIATIVE" THEN item[x].parent = NoWork
        ELSE /\ item[x].parent \in WorkIds
             /\ item[item[x].parent].type = ParentType[item[x].type]
             /\ item[item[x].parent].org = item[x].org

\* Only a task's owner, or an administrator, ever reports it started or
\* finished, and containers are never reported so at all.
OwnersReport ==
    \A x \in WorkIds : \A k \in DOMAIN events[x] :
        events[x][k].type \in {"STARTED", "COMPLETED"} =>
            /\ item[x].type = "TASK"
            /\ events[x][k].by \in {item[x].owner} \union Superadmins

\* Work that is finished or called off stays so for all who can see it
\* (lifecycle.py:21; and line 71: saying "done" twice records one completion): a
\* move on record after that was asked for by someone who had read the item before.
FinishedForAllWhoSee ==
    \A x \in WorkIds : \A k \in MovesOf(x) :
        events[x][events[x][k].saw].type \notin {"COMPLETED", "CANCELLED"}

\* Every recorded move is counted by the version, so no move was overwritten
\* (models/work.py:66: "Two people acting on the same item within a moment of each
\* other must not silently overwrite one another").
Counted(x) == item[x].version = 1 + Cardinality(MovesOf(x))

VersionCountsMoves == \A x \in WorkIds : Exists(x) => Counted(x)

\* A move that was overwritten always shows: the version falls behind the history
\* and never catches up, and it does so only where a move was made by someone who
\* had not seen the one before (lifecycle.py:82).
OverwritesShow ==
    \A x \in WorkIds : Exists(x) =>
        /\ item[x].version <= 1 + Cardinality(MovesOf(x))
        /\ Counted(x) <=> \A k \in MovesOf(x) : events[x][k].saw = k - 1

\* Nothing is added under work by anyone who could see it called off
\* (test_work_tree.py:121): its author read the parent before it was.
NothingAddedKnowingly ==
    \A x, y \in WorkIds : Exists(x) /\ item[x].parent = y =>
        \A k \in DOMAIN events[y] :
            events[y][k].type = "CANCELLED" => events[x][1].saw < k
=============================================================================
