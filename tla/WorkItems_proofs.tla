-------------------------- MODULE WorkItems_proofs --------------------------
(***************************************************************************)
(* Theorems about WorkItems for any number of items, members and           *)
(* overlapping requests, any hierarchy and any rights to move.             *)
(***************************************************************************)
EXTENDS WorkItems, FiniteSetTheorems, TLAPS

USE DEF MaybeMember

TablesTyped == item \in [WorkIds -> WorkRow] /\ events \in [WorkIds -> Seq(Event)]

\* What a request has read stays true of the columns nothing rewrites, and the
\* permission it passed still speaks of the same owner and organization.
Knows(s) ==
    LET x == sess[s].id
        row == sess[s].row
        actor == sess[s].actor
    IN  /\ x \in WorkIds /\ Exists(x)
        /\ actor \in Members
        /\ row.type = item[x].type /\ row.org = item[x].org /\ row.owner = item[x].owner
        /\ row.org = OrgOf[actor]
        /\ sess[s].op \in {"start", "complete"} =>
              row.type = "TASK" /\ actor \in {row.owner} \union Superadmins

SessionsKnow == \A s \in Sessions : sess[s].pc = "ready" => Knows(s)

WInv ==
    /\ TypeOK
    /\ SessionsKnow
    /\ StrictlyNested
    /\ OwnersReport
    /\ HistoryExplainsStatus

-----------------------------------------------------------------------------
LEMMA IdleTyped == Idle \in Session /\ Idle.pc = "idle"
BY DEF Idle, Session, NoRow, WorkRow, Types, Statuses, Moves

LEMMA InitWInv == Init => WInv
<1> SUFFICES ASSUME Init PROVE WInv
  OBVIOUS
<1>1. TypeOK
  <2>1. NoRow \in WorkRow /\ <<>> \in Seq(Event)
    BY DEF NoRow, WorkRow, Types, Statuses
  <2> QED
    BY <2>1, IdleTyped DEF Init, TypeOK
<1>2. \A x \in WorkIds : ~ Exists(x) /\ events[x] = <<>>
  BY DEF Init, Exists, NoRow
<1>3. SessionsKnow
  BY IdleTyped DEF Init, SessionsKnow
<1>4. StrictlyNested /\ HistoryExplainsStatus
  BY <1>2 DEF StrictlyNested, HistoryExplainsStatus
<1>5. OwnersReport
  BY <1>2 DEF OwnersReport
<1> QED
  BY <1>1, <1>3, <1>4, <1>5 DEF WInv

-----------------------------------------------------------------------------
\* The first events of an item: a creation, perhaps an assignment, and no move.
LEMMA FirstEventsFacts ==
    ASSUME NEW owner \in MaybeMember, NEW actor \in Members, NEW saw \in Nat
    PROVE  /\ FirstEvents(owner, actor, saw) \in Seq(Event)
           /\ \A k \in DOMAIN FirstEvents(owner, actor, saw) :
                 FirstEvents(owner, actor, saw)[k].type \in {"WORK_CREATED", "ASSIGNED"}
<1> DEFINE made == [type |-> "WORK_CREATED", by |-> actor, saw |-> saw]
           given == [type |-> "ASSIGNED", by |-> actor, saw |-> saw]
<1>1. /\ made \in Event /\ made.type = "WORK_CREATED"
      /\ given \in Event /\ given.type = "ASSIGNED"
  BY DEF Event
<1>2. FirstEvents(owner, actor, saw) = <<made>> \o IF owner = NoMember THEN <<>> ELSE <<given>>
  BY DEF FirstEvents
<1> HIDE DEF made, given
<1>3. CASE owner = NoMember
  <2>1. FirstEvents(owner, actor, saw) = <<made>>
    BY <1>2, <1>3
  <2> QED
    BY <1>1, <2>1
<1>4. CASE owner # NoMember
  <2>1. FirstEvents(owner, actor, saw) = <<made>> \o <<given>>
    BY <1>2, <1>4
  <2>2. <<made>> \in Seq(Event) /\ <<given>> \in Seq(Event)
    BY <1>1
  <2>3. /\ <<made>> \o <<given>> \in Seq(Event)
        /\ Len(<<made>> \o <<given>>) = 2
        /\ (<<made>> \o <<given>>)[1] = made /\ (<<made>> \o <<given>>)[2] = given
    BY <2>2
  <2>4. DOMAIN (<<made>> \o <<given>>) = {1, 2}
    BY <2>3
  <2> QED
    BY <1>1, <2>1, <2>3, <2>4
<1> QED
  BY <1>3, <1>4

LEMMA FirstEventsLength ==
    ASSUME NEW owner \in MaybeMember, NEW actor \in Members, NEW saw \in Nat
    PROVE  /\ Len(FirstEvents(owner, actor, saw)) = IF owner = NoMember THEN 1 ELSE 2
           /\ FirstEvents(owner, actor, saw)[1].saw = saw
<1> DEFINE made == [type |-> "WORK_CREATED", by |-> actor, saw |-> saw]
           given == [type |-> "ASSIGNED", by |-> actor, saw |-> saw]
<1>1. FirstEvents(owner, actor, saw) = <<made>> \o IF owner = NoMember THEN <<>> ELSE <<given>>
  BY Zenon DEF FirstEvents
<1>2. made.saw = saw
  OBVIOUS
<1> HIDE DEF made, given
<1>3. owner = NoMember => FirstEvents(owner, actor, saw) = <<made>>
  BY <1>1
<1>4. owner # NoMember => FirstEvents(owner, actor, saw) = <<made>> \o <<given>>
  BY <1>1
<1>5. /\ Len(<<made>> \o <<given>>) = 2 /\ (<<made>> \o <<given>>)[1] = made
      /\ Len(<<made>>) = 1 /\ <<made>>[1] = made
  OBVIOUS
<1>6. CASE owner = NoMember
  BY <1>2, <1>3, <1>5, <1>6
<1>7. CASE owner # NoMember
  BY <1>2, <1>4, <1>5, <1>7
<1> QED
  BY <1>6, <1>7

\* A row and its first events, added where nothing was.
LEMMA InsertKeepsTables ==
    ASSUME WInv, NEW x \in WorkIds, NEW type \in Types, NEW parent \in WorkIds \union {NoWork},
           NEW owner \in MaybeMember, NEW actor \in Members, NEW saw \in Nat,
           ~ Exists(x), Insert(x, type, parent, owner, actor, saw),
           IF type = "INITIATIVE" THEN parent = NoWork
           ELSE /\ parent \in WorkIds /\ item[parent].type = ParentType[type]
                /\ item[parent].org = OrgOf[actor]
    PROVE  /\ TablesTyped' /\ StrictlyNested' /\ OwnersReport' /\ HistoryExplainsStatus'
           /\ \A y \in WorkIds : Exists(y) => item'[y] = item[y]
<1> DEFINE row == NewRow(type, parent, owner, actor)
           first == FirstEvents(owner, actor, saw)
<1>1. /\ row \in WorkRow /\ row.type = type /\ row.parent = parent /\ row.owner = owner
      /\ row.org = OrgOf[actor] /\ row.status = "ACTIVE"
  BY DEF NewRow, WorkRow, Statuses
<1>2. /\ first \in Seq(Event)
      /\ \A k \in DOMAIN first : first[k].type \in {"WORK_CREATED", "ASSIGNED"}
  BY FirstEventsFacts
<1>3. /\ item' \in [WorkIds -> WorkRow] /\ events' \in [WorkIds -> Seq(Event)]
      /\ item'[x] = row /\ events'[x] = first
      /\ \A y \in WorkIds \ {x} : item'[y] = item[y] /\ events'[y] = events[y]
  BY <1>1, <1>2 DEF Insert, WInv, TypeOK
<1> HIDE DEF row, first
<1>4. TablesTyped'
  BY <1>3 DEF TablesTyped
<1>5. \A t \in Types \ {"INITIATIVE"} : ParentType[t] \in Types
  BY DEF ParentType, Types
<1>6. \A y \in WorkIds : Exists(y) => y # x /\ item[y].type \in Types
  BY DEF Exists, WInv, TypeOK, WorkRow
<1>7. StrictlyNested'
  <2> SUFFICES ASSUME NEW y \in WorkIds, Exists(y)'
               PROVE  IF item'[y].type = "INITIATIVE" THEN item'[y].parent = NoWork
                      ELSE /\ item'[y].parent \in WorkIds
                           /\ item'[item'[y].parent].type = ParentType[item'[y].type]
                           /\ item'[item'[y].parent].org = item'[y].org
    BY DEF StrictlyNested, ParentType
  <2>1. CASE y = x
    <3>1. type # "INITIATIVE" => parent # x
      BY <1>5 DEF Exists, Types
    <3> QED
      BY <2>1, <3>1, <1>1, <1>3
  <2>2. CASE y # x
    <3>1. Exists(y) /\ item'[y] = item[y]
      BY <1>3, <2>2 DEF Exists
    <3>2. item[y].type # "INITIATIVE" => item[y].parent \in WorkIds \ {x}
      BY <3>1, <1>5, <1>6 DEF WInv, StrictlyNested, Exists, Types
    <3> QED
      BY <3>1, <3>2, <1>3 DEF WInv, StrictlyNested
  <2> QED
    BY <2>1, <2>2
<1>8. OwnersReport'
  <2> SUFFICES ASSUME NEW y \in WorkIds, NEW k \in DOMAIN events'[y],
                      events'[y][k].type \in {"STARTED", "COMPLETED"}
               PROVE  /\ item'[y].type = "TASK"
                      /\ events'[y][k].by \in {item'[y].owner} \union Superadmins
    BY Zenon DEF OwnersReport
  <2>1. CASE y = x
    BY <2>1, <1>2, <1>3
  <2>2. CASE y # x
    <3>1. item'[y] = item[y] /\ events'[y] = events[y]
      BY <2>2, <1>3
    <3> QED
      BY <3>1 DEF WInv, OwnersReport
  <2> QED
    BY <2>1, <2>2
<1>9. HistoryExplainsStatus'
  <2> SUFFICES ASSUME NEW y \in WorkIds, Exists(y)'
               PROVE  \/ MovesOf(y)' = {} /\ item'[y].status = "ACTIVE"
                      \/ \E op \in Moves : /\ Last(events'[y]).type = EventFor[op]
                                           /\ item'[y].status = Target[op]
    BY DEF HistoryExplainsStatus, EventFor, Target
  <2>1. CASE y = x
    BY <2>1, <1>1, <1>2, <1>3 DEF MovesOf, MoveEvents
  <2>2. CASE y # x
    BY <2>2, <1>3 DEF WInv, HistoryExplainsStatus, MovesOf, Exists
  <2> QED
    BY <2>1, <2>2
<1>10. \A y \in WorkIds : Exists(y) => item'[y] = item[y]
  BY <1>3, <1>6
<1> QED
  BY <1>4, <1>7, <1>8, <1>9, <1>10

\* What requests know survives a step that leaves their columns alone.
LEMMA KnowledgeKept ==
    ASSUME WInv, NEW s \in Sessions, sess'[s] = sess[s], sess[s].pc = "ready",
           \A y \in WorkIds : Exists(y) =>
              /\ item'[y].type = item[y].type
              /\ item'[y].org = item[y].org
              /\ item'[y].owner = item[y].owner
    PROVE  Knows(s)'
BY DEF WInv, SessionsKnow, Knows, Exists

\* A request ends: the others know what they knew.
LEMMA EndKeepsSessions ==
    ASSUME WInv, NEW s \in Sessions, sess' = [sess EXCEPT ![s] = Idle],
           \A y \in WorkIds : Exists(y) =>
              /\ item'[y].type = item[y].type
              /\ item'[y].org = item[y].org
              /\ item'[y].owner = item[y].owner
    PROVE  sess' \in [Sessions -> Session] /\ SessionsKnow'
<1>1. /\ sess' \in [Sessions -> Session]
      /\ \A q \in Sessions : sess'[q] = IF q = s THEN Idle ELSE sess[q]
  BY IdleTyped DEF WInv, TypeOK
<1>2. SessionsKnow'
  BY <1>1, IdleTyped, KnowledgeKept DEF SessionsKnow
<1> QED
  BY <1>1, <1>2

\* A request that has read an item it may see and act on.
LEMMA ReadKeepsWInv ==
    ASSUME WInv, NEW s \in Sessions, NEW actor \in Members, NEW x \in WorkIds,
           NEW op \in Moves \union {"create"}, NEW action,
           Exists(x), May(actor, action, item[x]), UNCHANGED tables,
           op \in {"start", "complete"} =>
              item[x].type = "TASK" /\ actor \in {item[x].owner} \union Superadmins,
           sess' = [sess EXCEPT ![s] = Reading(op, actor, x)]
    PROVE  WInv'
<1> DEFINE read == Reading(op, actor, x)
<1>1. read \in Session
  BY DEF Reading, Session, WInv, TypeOK
<1>2. read.op = op /\ read.actor = actor /\ read.id = x /\ read.row = item[x]
  BY DEF Reading
<1>3. sess' = [sess EXCEPT ![s] = read]
  OBVIOUS
<1> HIDE DEF read
<1>4. /\ sess' \in [Sessions -> Session]
      /\ sess'[s] = read /\ \A q \in Sessions \ {s} : sess'[q] = sess[q]
      /\ item' = item /\ events' = events
  BY <1>1, <1>3 DEF WInv, TypeOK, tables
<1>5. item[x].org = OrgOf[actor]
  BY DEF May, Can, SubjectOf, WorkSubject
<1>6. Knows(s)'
  BY <1>2, <1>4, <1>5 DEF Knows, Exists
<1>7. SessionsKnow'
  BY <1>4, <1>6, KnowledgeKept DEF SessionsKnow
<1> QED
  BY <1>4, <1>7
     DEF WInv, TypeOK, StrictlyNested, OwnersReport, HistoryExplainsStatus, MovesOf, Exists

\* A move writes the status it recorded, and nothing a check was made on.
LEMMA CommitMoveKeepsWInv ==
    ASSUME WInv, NEW s \in Sessions, CommitMove(s)
    PROVE  WInv'
<1> DEFINE x == sess[s].id
           op == sess[s].op
           event == Recorded(s)
<1>1. /\ sess[s] \in Session /\ op \in Moves /\ Knows(s) /\ x \in WorkIds
      /\ sess[s].actor \in Members
  BY DEF CommitMove, WInv, TypeOK, SessionsKnow, Knows
<1>2. /\ event \in Event /\ event.type = EventFor[op] /\ event.by = sess[s].actor
      /\ EventFor[op] \in {"STARTED", "COMPLETED"} => op \in {"start", "complete"}
  BY <1>1 DEF Recorded, Event, EventFor, Moves, Session
<1>3. Target[op] \in Statuses /\ NextVersion(sess[s].row) \in Nat
  BY <1>1 DEF Target, Moves, Statuses, NextVersion, Session, WorkRow
<1>4. /\ item' \in [WorkIds -> WorkRow]
      /\ item'[x].status = Target[op]
      /\ \A y \in WorkIds \ {x} : item'[y] = item[y]
      /\ \A y \in WorkIds : /\ item'[y].type = item[y].type /\ item'[y].org = item[y].org
                            /\ item'[y].owner = item[y].owner
                            /\ item'[y].parent = item[y].parent
  <2> DEFINE row == [item[x] EXCEPT !.status = Target[op],
                                    !.version = NextVersion(sess[s].row)]
  <2>1. item' = [item EXCEPT ![x] = row]
    BY DEF CommitMove
  <2>2. item[x] \in WorkRow
    BY <1>1 DEF WInv, TypeOK
  <2>3. /\ row \in WorkRow /\ row.status = Target[op] /\ row.type = item[x].type
        /\ row.org = item[x].org /\ row.owner = item[x].owner /\ row.parent = item[x].parent
    BY <1>3, <2>2 DEF WorkRow
  <2> HIDE DEF row
  <2> QED
    BY <1>1, <2>1, <2>3 DEF WInv, TypeOK
<1>5. /\ events' \in [WorkIds -> Seq(Event)]
      /\ events'[x] = Append(events[x], event)
      /\ \A y \in WorkIds \ {x} : events'[y] = events[y]
  <2> HIDE DEF event
  <2>1. events' = [events EXCEPT ![x] = Append(events[x], event)]
    BY DEF CommitMove, event
  <2>2. Append(events[x], event) \in Seq(Event)
    BY <1>1, <1>2 DEF WInv, TypeOK
  <2> QED
    BY <1>1, <2>1, <2>2 DEF WInv, TypeOK
<1> HIDE DEF event
<1>6. sess' \in [Sessions -> Session] /\ SessionsKnow'
  BY <1>4, EndKeepsSessions DEF CommitMove
<1>7. StrictlyNested'
  BY <1>4 DEF WInv, StrictlyNested, Exists
<1>8. OwnersReport'
  <2> SUFFICES ASSUME NEW y \in WorkIds, NEW k \in DOMAIN events'[y],
                      events'[y][k].type \in {"STARTED", "COMPLETED"}
               PROVE  /\ item'[y].type = "TASK"
                      /\ events'[y][k].by \in {item'[y].owner} \union Superadmins
    BY DEF OwnersReport
  <2>1. CASE y = x /\ k = Len(events[x]) + 1
    <3>1. events'[y][k] = event
      BY <2>1, <1>1, <1>5 DEF WInv, TypeOK
    <3> QED
      BY <2>1, <3>1, <1>1, <1>2, <1>4 DEF Knows
  <2>2. CASE ~ (y = x /\ k = Len(events[x]) + 1)
    <3>1. k \in DOMAIN events[y] /\ events'[y][k] = events[y][k]
      <4>1. events[x] \in Seq(Event)
        BY <1>1 DEF WInv, TypeOK
      <4>2. /\ DOMAIN Append(events[x], event) = 1 .. Len(events[x]) + 1
            /\ \A j \in 1 .. Len(events[x]) : Append(events[x], event)[j] = events[x][j]
            /\ DOMAIN events[x] = 1 .. Len(events[x])
        BY <4>1
      <4>3. CASE y = x
        <5>1. k \in 1 .. Len(events[x]) + 1 /\ k # Len(events[x]) + 1
          BY <2>2, <4>2, <4>3, <1>5
        <5>2. k \in 1 .. Len(events[x])
          BY <4>1, <5>1
        <5> QED
          BY <4>2, <4>3, <5>2, <1>5
      <4>4. CASE y # x
        BY <4>4, <1>5
      <4> QED
        BY <4>3, <4>4
    <3> QED
      BY <3>1, <1>4 DEF WInv, OwnersReport
  <2> QED
    BY <2>1, <2>2
<1>9. HistoryExplainsStatus'
  <2> SUFFICES ASSUME NEW y \in WorkIds, Exists(y)'
               PROVE  \/ MovesOf(y)' = {} /\ item'[y].status = "ACTIVE"
                      \/ \E m \in Moves : /\ Last(events'[y]).type = EventFor[m]
                                          /\ item'[y].status = Target[m]
    BY DEF HistoryExplainsStatus, EventFor, Target
  <2>1. CASE y = x
    <3>1. Last(events'[y]) = event
      <4>1. events[x] \in Seq(Event)
        BY <1>1 DEF WInv, TypeOK
      <4>2. /\ Len(Append(events[x], event)) = Len(events[x]) + 1
            /\ Append(events[x], event)[Len(events[x]) + 1] = event
        BY <4>1
      <4> QED
        BY <2>1, <1>5, <4>2 DEF Last
    <3> QED
      BY <2>1, <3>1, <1>1, <1>2, <1>4
  <2>2. CASE y # x
    BY <2>2, <1>4, <1>5 DEF WInv, HistoryExplainsStatus, MovesOf, Exists
  <2> QED
    BY <2>1, <2>2
<1> QED
  BY <1>4, <1>5, <1>6, <1>7, <1>8, <1>9 DEF WInv, TypeOK

-----------------------------------------------------------------------------
LEMMA StepKeepsWInv == WInv /\ [Next]_vars => WInv'
<1> SUFFICES ASSUME WInv, [Next]_vars PROVE WInv'
  OBVIOUS
<1> USE DEF Types
<1>1. ASSUME NEW s \in Sessions, NEW actor \in Members, NEW x \in WorkIds,
             NEW owner \in Owners, CreateInitiative(s, actor, x, owner)
      PROVE  WInv'
  <2>1. /\ TablesTyped' /\ StrictlyNested' /\ OwnersReport' /\ HistoryExplainsStatus'
        /\ \A y \in WorkIds : Exists(y) => item'[y] = item[y]
    BY <1>1, InsertKeepsTables, WorkAssumption DEF CreateInitiative
  <2>2. SessionsKnow' /\ sess' = sess
    BY <1>1, <2>1, KnowledgeKept DEF CreateInitiative, SessionsKnow
  <2> QED
    BY <2>1, <2>2 DEF WInv, TypeOK, TablesTyped
<1>2. ASSUME NEW s \in Sessions, NEW actor \in Members, NEW x \in WorkIds,
             LoadParent(s, actor, x)
      PROVE  WInv'
  BY <1>2, ReadKeepsWInv DEF LoadParent
<1>3. ASSUME NEW s \in Sessions, NEW x \in WorkIds, NEW t \in Types, NEW owner \in Owners,
             CommitCreate(s, x, t, owner)
      PROVE  WInv'
  <2>1. /\ Knows(s) /\ ValidPlacement(t, sess[s].row) /\ ~ Exists(x) /\ t # "INITIATIVE"
        /\ Insert(x, t, sess[s].id, owner, sess[s].actor, sess[s].saw) /\ sess[s].saw \in Nat
    BY <1>3 DEF CommitCreate, WInv, TypeOK, Session, SessionsKnow
  <2>2. /\ TablesTyped' /\ StrictlyNested' /\ OwnersReport' /\ HistoryExplainsStatus'
        /\ \A y \in WorkIds : Exists(y) => item'[y] = item[y]
    BY <2>1, InsertKeepsTables, WorkAssumption DEF Knows, ValidPlacement
  <2>3. sess' \in [Sessions -> Session] /\ SessionsKnow'
    BY <1>3, <2>2, EndKeepsSessions DEF CommitCreate
  <2> QED
    BY <2>2, <2>3 DEF WInv, TypeOK, TablesTyped
<1>4. ASSUME NEW s \in Sessions, NEW actor \in Members, NEW x \in WorkIds, NEW op \in Moves,
             LoadItem(s, actor, x, op)
      PROVE  WInv'
  <2>1. May(actor, ActionFor(op), item[x]) /\ Exists(x)
        /\ <<item[x].status, Target[op]>> \in AllowedTransitions(item[x].type)
    BY <1>4 DEF LoadItem
  <2>2. op \in {"start", "complete"} => item[x].type = "TASK"
    BY <2>1 DEF AllowedTransitions, ContainerTransitions, Target
  <2>3. op \in {"start", "complete"} => actor \in {item[x].owner} \union Superadmins
    <3>1. op \in {"start", "complete"} => ActionFor(op) \in {"START_TASK", "COMPLETE_TASK"}
      BY DEF ActionFor
    <3>2. ASSUME NEW a \in {"START_TASK", "COMPLETE_TASK"}, NEW w
          PROVE  Rule(actor, a, w) = OwnTaskRule(actor, w)
      BY DEF Rule
    <3>3. SubjectOf(item[x]).owner = item[x].owner
      BY DEF SubjectOf, WorkSubject
    <3> QED
      BY <2>1, <3>1, <3>2, <3>3 DEF May, Can, OwnTaskRule
  <2> QED
    BY <1>4, <2>1, <2>2, <2>3, ReadKeepsWInv DEF LoadItem
<1>5. ASSUME NEW s \in Sessions, Crash(s)
      PROVE  WInv'
  <2>1. sess' \in [Sessions -> Session] /\ SessionsKnow'
    BY <1>5, EndKeepsSessions DEF Crash, tables
  <2> QED
    BY <1>5, <2>1 DEF Crash, tables, WInv, TypeOK, StrictlyNested, OwnersReport,
                      HistoryExplainsStatus, MovesOf, Exists
<1>6. CASE UNCHANGED vars
  BY <1>6 DEF vars, WInv, TypeOK, SessionsKnow, Knows, StrictlyNested, OwnersReport,
              HistoryExplainsStatus, MovesOf, Exists
<1> QED
  BY <1>1, <1>2, <1>3, <1>4, <1>5, <1>6, CommitMoveKeepsWInv DEF Next

-----------------------------------------------------------------------------
\* The history of an item begins with a creation and perhaps an assignment, and
\* every move after them was asked for by someone who had read it before.
Base(x) == IF item[x].owner = NoMember THEN 1 ELSE 2

Final == {"COMPLETED", "CANCELLED"}

Entry(x, k) ==
    /\ events[x][k].type \in MoveEvents <=> k > Base(x)
    /\ k > Base(x) => /\ events[x][k].saw \in Base(x)..(k - 1)
                      /\ events[x][events[x][k].saw].type \notin Final

History(x) ==
    /\ Len(events[x]) >= Base(x)
    /\ \A k \in 1..Len(events[x]) : Entry(x, k)

\* Each of the first n entries was made on a read of the one before it.
Clean(x, n) == \A k \in 1..n : k > Base(x) => events[x][k].saw = k - 1

\* What a version says of the first n entries.
Tells(x, version, n) ==
    /\ version <= 1 + n - Base(x)
    /\ version = 1 + n - Base(x) <=> Clean(x, n)

Seen(s) ==
    LET x == sess[s].id
        n == sess[s].saw
    IN  /\ n \in Base(x)..Len(events[x])
        /\ events[x][n].type \notin Final
        /\ Tells(x, sess[s].row.version, n)

HInv ==
    /\ \A x \in WorkIds : IF Exists(x) THEN History(x) /\ Tells(x, item[x].version, Len(events[x]))
                          ELSE events[x] = <<>>
    /\ \A s \in Sessions : sess[s].pc = "ready" /\ sess[s].op \in Moves => Seen(s)

\* An item that is there keeps its owner, and its history only grows.
Grows(y) ==
    /\ item'[y].owner = item[y].owner
    /\ Len(events'[y]) >= Len(events[y])
    /\ \A k \in 1..Len(events[y]) : events'[y][k] = events[y][k]

LEMMA InitHInv == Init => HInv
BY IdleTyped DEF Init, HInv, Exists, NoRow

\* What a request has seen of a history, it has seen of any longer one.
LEMMA SeenKept ==
    ASSUME WInv, HInv, NEW s \in Sessions, sess'[s] = sess[s], sess[s].pc = "ready",
           sess[s].op \in Moves, Grows(sess[s].id), events'[sess[s].id] \in Seq(Event)
    PROVE  Seen(s)'
<1> DEFINE x == sess[s].id
           n == sess[s].saw
<1>1. /\ x \in WorkIds /\ Exists(x) /\ Seen(s) /\ events[x] \in Seq(Event)
  BY DEF WInv, TypeOK, SessionsKnow, Knows, HInv
<1>2. /\ Base(x) \in 1..2 /\ (Base(x))' = Base(x)
      /\ Len(events[x]) \in Nat /\ Len(events'[x]) \in Nat
      /\ n \in Base(x)..Len(events[x])
  BY <1>1 DEF Base, Grows, Seen
<1>3. \A k \in 1..n : events'[x][k] = events[x][k]
  BY <1>2 DEF Grows
<1>4. Clean(x, n)' <=> Clean(x, n)
  BY <1>2, <1>3 DEF Clean
<1> QED
  BY <1>1, <1>2, <1>3, <1>4, SMTT(30) DEF Seen, Tells, Grows

LEMMA SeenAllKept ==
    ASSUME WInv, HInv, TypeOK', \A y \in WorkIds : Exists(y) => Grows(y),
           NEW s \in Sessions, sess' = [sess EXCEPT ![s] = Idle] \/ sess' = sess
    PROVE  \A q \in Sessions : sess'[q].pc = "ready" /\ sess'[q].op \in Moves => Seen(q)'
<1> SUFFICES ASSUME NEW q \in Sessions, sess'[q].pc = "ready", sess'[q].op \in Moves
             PROVE  Seen(q)'
  OBVIOUS
<1>1. sess'[q] = sess[q]
  BY IdleTyped DEF WInv, TypeOK
<1>2. Knows(q)
  BY <1>1 DEF WInv, SessionsKnow
<1> QED
  BY <1>1, <1>2, SeenKept DEF Knows, TypeOK

\* A history that is left alone says what it said.
LEMMA HistoryKept ==
    ASSUME NEW y \in WorkIds, item'[y] = item[y], events'[y] = events[y],
           IF Exists(y) THEN History(y) /\ Tells(y, item[y].version, Len(events[y]))
           ELSE events[y] = <<>>
    PROVE  IF Exists(y)' THEN History(y)' /\ Tells(y, item[y].version, Len(events[y]))'
           ELSE events'[y] = <<>>
BY DEF Exists, History, Entry, Tells, Clean, Base

\* A new item has told of no move.
LEMMA InsertKeepsHInv ==
    ASSUME WInv, HInv, TypeOK', NEW x \in WorkIds, NEW type \in Types,
           NEW parent \in WorkIds \union {NoWork},
           NEW owner \in MaybeMember, NEW actor \in Members, NEW saw \in Nat,
           ~ Exists(x), Insert(x, type, parent, owner, actor, saw),
           NEW s \in Sessions, sess' = [sess EXCEPT ![s] = Idle] \/ sess' = sess
    PROVE  HInv'
<1> DEFINE first == FirstEvents(owner, actor, saw)
           base == IF owner = NoMember THEN 1 ELSE 2
<1>1. /\ item'[x].type = type /\ item'[x].owner = owner /\ item'[x].version = 1
      /\ events'[x] = first
      /\ \A y \in WorkIds \ {x} : item'[y] = item[y] /\ events'[y] = events[y]
  BY DEF Insert, WInv, TypeOK, NewRow
<1>2. /\ Len(first) = base
      /\ \A k \in 1..Len(first) : first[k].type \notin MoveEvents
  <2>1. Len(first) = base
    BY FirstEventsLength
  <2>2. /\ first \in Seq(Event)
        /\ \A k \in DOMAIN first : first[k].type \in {"WORK_CREATED", "ASSIGNED"}
    BY FirstEventsFacts
  <2> HIDE DEF first
  <2> QED
    BY <2>1, <2>2 DEF MoveEvents
<1> HIDE DEF first
<1>3. Base(x)' = base /\ base \in 1..2
  BY <1>1 DEF Base
<1>4. History(x)' /\ Tells(x, item[x].version, Len(events[x]))'
  BY <1>1, <1>2, <1>3 DEF History, Entry, Tells, Clean
<1>5. Exists(x)'
  BY <1>1 DEF Exists, Types
<1>6. \A y \in WorkIds : Exists(y) => Grows(y)
  <2>1. ASSUME NEW y \in WorkIds, Exists(y)
        PROVE  item'[y] = item[y] /\ events'[y] = events[y] /\ Len(events[y]) \in Nat
    BY <1>1, <2>1 DEF WInv, TypeOK
  <2> QED
    BY <2>1 DEF Grows
<1>7. \A y \in WorkIds : IF Exists(y)' THEN History(y)' /\ Tells(y, item[y].version, Len(events[y]))'
                         ELSE events'[y] = <<>>
  BY <1>1, <1>4, <1>5, HistoryKept DEF HInv
<1> QED
  BY <1>6, <1>7, SeenAllKept DEF HInv

\* What a request reads, it has seen.
LEMMA ReadKeepsHInv ==
    ASSUME WInv, HInv, WInv', NEW s \in Sessions, NEW actor \in Members, NEW x \in WorkIds,
           NEW op \in Moves \union {"create"}, Exists(x), UNCHANGED tables,
           op \in Moves => item[x].status \in {"ACTIVE", "IN_PROGRESS"},
           sess' = [sess EXCEPT ![s] = Reading(op, actor, x)]
    PROVE  HInv'
<1>1. /\ sess'[s] = Reading(op, actor, x)
      /\ \A q \in Sessions \ {s} : sess'[q] = sess[q]
      /\ item' = item /\ events' = events
  BY DEF WInv, TypeOK, tables
<1>2. History(x) /\ Tells(x, item[x].version, Len(events[x])) /\ events[x] \in Seq(Event)
  BY DEF HInv, WInv, TypeOK
<1>3. ASSUME op \in Moves PROVE Seen(s)'
  <2> DEFINE n == Len(events[x])
  <2>1. /\ sess'[s].id = x /\ sess'[s].saw = n /\ sess'[s].row = item[x]
    BY <1>1 DEF Reading
  <2>2. n \in Nat /\ n >= Base(x) /\ Base(x) \in 1..2
    BY <1>2 DEF History, Base
  <2>3. events[x][n].type \notin Final
    <3>1. CASE MovesOf(x) = {}
      BY <3>1, <1>2, <2>2 DEF MovesOf, MoveEvents, Final
    <3>2. CASE \E m \in Moves : /\ Last(events[x]).type = EventFor[m]
                                /\ item[x].status = Target[m]
      BY <3>2, <1>3, <2>2 DEF Last, Moves, EventFor, Target, Final
    <3> QED
      BY <3>1, <3>2 DEF WInv, HistoryExplainsStatus, EventFor, Target
  <2>4. Seen(s)' <=> /\ n \in Base(x)..Len(events[x]) /\ events[x][n].type \notin Final
                     /\ Tells(x, item[x].version, n)
    BY <1>1, <2>1 DEF Seen, Tells, Clean, Base
  <2> QED
    BY <1>2, <2>2, <2>3, <2>4
<1>4. \A y \in WorkIds : IF Exists(y)' THEN History(y)' /\ Tells(y, item[y].version, Len(events[y]))'
                         ELSE events'[y] = <<>>
  BY <1>1, HistoryKept DEF HInv
<1>5. ASSUME NEW q \in Sessions \ {s}, sess'[q].pc = "ready", sess'[q].op \in Moves
      PROVE  Seen(q)'
  <2>1. sess'[q] = sess[q] /\ Knows(q) /\ events'[sess[q].id] \in Seq(Event)
    BY <1>1, <1>5 DEF WInv, TypeOK, SessionsKnow, Knows
  <2>2. Grows(sess[q].id)
    BY <1>1, <2>1 DEF Grows, WInv, TypeOK
  <2> QED
    BY <1>5, <2>1, <2>2, SeenKept
<1>6. sess'[s].op \in Moves => op \in Moves
  BY <1>1 DEF Reading
<1> QED
  BY <1>3, <1>4, <1>5, <1>6 DEF HInv

\* What a move writes: the status it leads to, the version after the one its
\* author read, and nothing else.
LEMMA MoveWrites ==
    ASSUME WInv, NEW s \in Sessions, CommitMove(s), NEW x \in WorkIds, x = sess[s].id
    PROVE  /\ item'[x].status = Target[sess[s].op]
           /\ item'[x].version = sess[s].row.version + 1
           /\ item'[x].owner = item[x].owner /\ item'[x].type = item[x].type
           /\ item'[x].parent = item[x].parent
           /\ \A y \in WorkIds \ {x} : item'[y] = item[y]
<1> DEFINE status == Target[sess[s].op]
           version == NextVersion(sess[s].row)
<1>1. item' = [item EXCEPT ![x].status = status, ![x].version = version]
  BY DEF CommitMove
<1>2. item \in [WorkIds -> WorkRow] /\ version = sess[s].row.version + 1
  BY DEF WInv, TypeOK, NextVersion
<1> HIDE DEF status, version
<1>3. item'[x] = [item[x] EXCEPT !.status = status, !.version = version]
  BY <1>1, <1>2
<1>4. \A y \in WorkIds \ {x} : item'[y] = item[y]
  BY <1>1, <1>2
<1>5. item[x] \in WorkRow
  BY <1>2
<1>6. /\ item'[x].status = status /\ item'[x].version = version
      /\ item'[x].owner = item[x].owner /\ item'[x].type = item[x].type
      /\ item'[x].parent = item[x].parent
  BY <1>3, <1>5 DEF WorkRow
<1> QED
  BY <1>2, <1>4, <1>6 DEF status

\* The places of a history with one more entry.
LEMMA OneMore ==
    ASSUME NEW n \in Nat
    PROVE  \A k \in 1..(n + 1) : k = n + 1 \/ k \in 1..n
OBVIOUS

\* The version reaches the count of moves only if it had, and nothing was missed.
VersionStep(b, saw, n, version) ==
    saw <= n /\ version <= 1 + saw - b
        => /\ version + 1 <= 1 + (n + 1) - b
           /\ version + 1 = 1 + (n + 1) - b <=> saw = n /\ version = 1 + n - b

LEMMA VersionArithmetic == \A b, saw, n, version \in Nat : VersionStep(b, saw, n, version)
BY DEF VersionStep

\* A move is the next entry of the history, and its version counts on from what
\* its author had read.
LEMMA CommitMoveKeepsHInv ==
    ASSUME WInv, HInv, WInv', NEW s \in Sessions, CommitMove(s)
    PROVE  HInv'
<1> SUFFICES ASSUME NEW x \in WorkIds, x = sess[s].id, NEW saw \in Nat, saw = sess[s].saw,
                    NEW n \in Nat, n = Len(events[x])
             PROVE  HInv'
  <2>1. /\ sess[s].id \in WorkIds /\ sess[s] \in Session
    BY DEF CommitMove, WInv, TypeOK, SessionsKnow, Knows
  <2>2. sess[s].saw \in Nat /\ Len(events[sess[s].id]) \in Nat
    BY <2>1 DEF Session, WInv, TypeOK
  <2> QED
    BY <2>1, <2>2
<1> DEFINE event == Recorded(s)
<1>1. /\ sess[s] \in Session /\ sess[s].op \in Moves /\ Knows(s) /\ x \in WorkIds /\ Exists(x)
      /\ Seen(s) /\ History(x) /\ Tells(x, item[x].version, n)
      /\ events[x] \in Seq(Event) /\ item[x] \in WorkRow
  BY DEF CommitMove, WInv, TypeOK, SessionsKnow, Knows, HInv
<1>2. event.type \in MoveEvents /\ event.saw = saw
  BY <1>1 DEF Recorded, EventFor, Moves, MoveEvents
<1>3. /\ item'[x].version = sess[s].row.version + 1 /\ sess[s].row.version \in Nat
      /\ item'[x].owner = item[x].owner /\ item'[x].type = item[x].type
      /\ \A y \in WorkIds \ {x} : item'[y] = item[y]
  <2>1. sess[s].row.version \in Nat
    BY <1>1 DEF Session, WorkRow
  <2> QED
    BY <2>1, MoveWrites
<1>4. /\ events'[x] = Append(events[x], event)
      /\ \A y \in WorkIds \ {x} : events'[y] = events[y]
  BY <1>1 DEF CommitMove, WInv, TypeOK
<1> HIDE DEF event
<1>5. /\ n \in Nat /\ Len(events'[x]) = n + 1 /\ events'[x][n + 1] = event
      /\ \A k \in 1..n : events'[x][k] = events[x][k]
  BY <1>1, <1>4
<1>6. /\ Base(x) \in 1..2 /\ Base(x)' = Base(x) /\ saw \in Base(x)..n
  BY <1>1, <1>3 DEF Base, Seen
<1>7. History(x)'
  <2> SUFFICES ASSUME NEW k \in 1..(n + 1) PROVE Entry(x, k)'
    BY <1>5, <1>6 DEF History
  <2> SUFFICES /\ events'[x][k].type \in MoveEvents <=> k > Base(x)
               /\ k > Base(x) => /\ events'[x][k].saw \in Base(x)..(k - 1)
                                 /\ events'[x][events'[x][k].saw].type \notin Final
    BY <1>6 DEF Entry
  <2>1. CASE k = n + 1
    <3>1. events'[x][k] = event /\ events'[x][saw] = events[x][saw] /\ saw \in Base(x)..(k - 1)
      BY <2>1, <1>5, <1>6
    <3>2. k > Base(x) /\ events[x][saw].type \notin Final
      BY <2>1, <1>1, <1>5, <1>6 DEF Seen
    <3> QED
      BY <3>1, <3>2, <1>2
  <2>2. CASE k \in 1..n
    <3>1. events'[x][k] = events[x][k]
      BY <2>2, <1>5
    <3>2. CASE k > Base(x)
      <4>1. events[x][k].saw \in Base(x)..(k - 1) /\ events[x][k].saw \in 1..n
        <5>1. Entry(x, k)
          BY <2>2, <1>1 DEF History
        <5>2. events[x][k].saw \in Base(x)..(k - 1)
          BY <3>2, <5>1 DEF Entry
        <5>3. \A j \in Base(x)..(k - 1) : j \in 1..n
          BY <2>2, <1>5, <1>6
        <5> QED
          BY <5>2, <5>3
      <4>2. events'[x][events[x][k].saw] = events[x][events[x][k].saw]
        BY <4>1, <1>5
      <4> QED
        BY <2>2, <3>1, <4>1, <4>2, <1>1 DEF History, Entry
    <3> QED
      BY <2>2, <3>1, <3>2, <1>1 DEF History, Entry
  <2>3. k = n + 1 \/ k \in 1..n
    BY OneMore
  <2> QED
    BY <2>1, <2>2, <2>3, Zenon
<1>8. Tells(x, item[x].version, Len(events[x]))'
  <2>1. Clean(x, n + 1)' <=> Clean(x, n) /\ saw = n
    <3>1. Clean(x, n + 1)' <=> \A k \in 1..(n + 1) : k > Base(x) => events'[x][k].saw = k - 1
      BY <1>6 DEF Clean
    <3>2. Clean(x, n) <=> \A k \in 1..n : k > Base(x) => events'[x][k].saw = k - 1
      BY <1>5 DEF Clean
    <3>3. n + 1 > Base(x) /\ (events'[x][n + 1].saw = (n + 1) - 1 <=> saw = n)
      BY <1>2, <1>5, <1>6
    <3>4. \A k : k \in 1..(n + 1) <=> k \in 1..n \/ k = n + 1
      BY <1>5
    <3> DEFINE made == events'[x]
    <3> HIDE DEF made
    <3>5. made[n + 1].saw = (n + 1) - 1 <=> saw = n
      BY <3>3 DEF made
    <3>6. (\A k \in 1..(n + 1) : k > Base(x) => made[k].saw = k - 1)
             <=> (\A k \in 1..n : k > Base(x) => made[k].saw = k - 1) /\ saw = n
      BY <3>3, <3>4, <3>5
    <3> QED
      BY <3>1, <3>2, <3>6 DEF made
  <2>2. saw = n => (Clean(x, n) <=> sess[s].row.version = 1 + n - Base(x))
    BY <1>1 DEF Seen, Tells
  <2>3. sess[s].row.version <= 1 + saw - Base(x)
    BY <1>1 DEF Seen, Tells
  <2>4. /\ item'[x].version <= 1 + (n + 1) - Base(x)
        /\ item'[x].version = 1 + (n + 1) - Base(x) <=> Clean(x, n + 1)'
    <3>1. /\ sess[s].row.version \in Nat /\ Base(x) \in 1..2 /\ saw \in Base(x)..n
          /\ item'[x].version = sess[s].row.version + 1 /\ n \in Nat /\ saw \in Nat
      BY <1>3, <1>5, <1>6
    <3>2. /\ item'[x].version <= 1 + (n + 1) - Base(x)
          /\ item'[x].version = 1 + (n + 1) - Base(x)
                <=> saw = n /\ sess[s].row.version = 1 + n - Base(x)
      <4> DEFINE b == Base(x)
                 version == sess[s].row.version
      <4>1. b \in Nat /\ saw <= n /\ version \in Nat /\ version <= 1 + saw - b
        BY <2>3, <3>1
      <4>2. item'[x].version = version + 1
        BY <3>1
      <4> HIDE DEF b, version
      <4>3. /\ version + 1 <= 1 + (n + 1) - b
            /\ version + 1 = 1 + (n + 1) - b <=> saw = n /\ version = 1 + n - b
        <5>1. VersionStep(b, saw, n, version)
          BY <4>1, VersionArithmetic, Zenon
        <5> QED
          BY <4>1, <5>1, Zenon DEF VersionStep
      <4>4. /\ item'[x].version <= 1 + (n + 1) - b
            /\ item'[x].version = 1 + (n + 1) - b <=> saw = n /\ version = 1 + n - b
        BY <4>2, <4>3, Zenon
      <4> QED
        BY <4>4, Zenon DEF b, version
    <3> QED
      BY <2>1, <2>2, <3>2, Zenon
  <2> QED
    BY <2>4, <1>5, <1>6 DEF Tells
<1>9. Exists(x)'
  BY <1>1, <1>3 DEF Exists
<1>10. \A y \in WorkIds : IF Exists(y)'
                          THEN History(y)' /\ Tells(y, item[y].version, Len(events[y]))'
                          ELSE events'[y] = <<>>
  BY <1>3, <1>4, <1>7, <1>8, <1>9, HistoryKept DEF HInv
<1>11. \A y \in WorkIds : Exists(y) => Grows(y)
  <2>1. Grows(x)
    BY <1>3, <1>5 DEF Grows
  <2>2. ASSUME NEW y \in WorkIds \ {x} PROVE Grows(y)
    <3>1. item'[y] = item[y] /\ events'[y] = events[y] /\ Len(events[y]) \in Nat
      BY <1>3, <1>4 DEF WInv, TypeOK
    <3> QED
      BY <3>1 DEF Grows
  <2> QED
    BY <2>1, <2>2
<1>12. \A q \in Sessions : sess'[q].pc = "ready" /\ sess'[q].op \in Moves => Seen(q)'
  BY <1>11, SeenAllKept DEF CommitMove, WInv
<1> QED
  BY <1>10, <1>12 DEF HInv

-----------------------------------------------------------------------------
\* The first saw entries of a history do not call the item off.
Unaware(y, saw) ==
    /\ saw <= Len(events[y])
    /\ \A k \in 1..Len(events[y]) : events[y][k].type = "CANCELLED" => saw < k

\* A container that was ever called off still is; whoever is about to add to one
\* read it before, and so did whoever has.
KInv ==
    /\ \A x \in WorkIds : /\ Exists(x) /\ item[x].type # "TASK"
                          /\ \E k \in 1..Len(events[x]) : events[x][k].type = "CANCELLED"
                          => item[x].status = "CANCELLED"
    /\ \A s \in Sessions : sess[s].pc = "ready" /\ sess[s].op = "create"
                              => Unaware(sess[s].id, sess[s].saw)
    /\ \A x, y \in WorkIds : Exists(x) /\ item[x].parent = y => Unaware(y, events[x][1].saw)

LEMMA InitKInv == Init => KInv
BY IdleTyped DEF Init, KInv, Exists, NoRow

\* Whatever is added to a history is added after what was read of it.
LEMMA UnawareKept ==
    ASSUME NEW y \in WorkIds, NEW saw \in Nat, Grows(y), Unaware(y, saw),
           events[y] \in Seq(Event), events'[y] \in Seq(Event)
    PROVE  Unaware(y, saw)'
<1>1. /\ Len(events[y]) \in Nat /\ Len(events'[y]) \in Nat
      /\ saw <= Len(events[y]) /\ Len(events[y]) <= Len(events'[y])
  BY DEF Grows, Unaware
<1>2. ASSUME NEW k \in 1..Len(events'[y]), events'[y][k].type = "CANCELLED"
      PROVE  saw < k
  <2>1. CASE k \in 1..Len(events[y])
    BY <1>2, <2>1 DEF Grows, Unaware
  <2>2. CASE k > Len(events[y])
    BY <1>1, <2>2
  <2> QED
    BY <1>1, <2>1, <2>2
<1> QED
  BY <1>1, <1>2 DEF Unaware

LEMMA UnawareAllKept ==
    ASSUME WInv, KInv, TypeOK', \A y \in WorkIds : Exists(y) => Grows(y),
           NEW s \in Sessions, sess' = [sess EXCEPT ![s] = Idle] \/ sess' = sess
    PROVE  \A q \in Sessions : sess'[q].pc = "ready" /\ sess'[q].op = "create"
                                  => Unaware(sess[q].id, sess[q].saw)'
<1> SUFFICES ASSUME NEW q \in Sessions, sess'[q].pc = "ready", sess'[q].op = "create",
                    NEW y \in WorkIds, y = sess[q].id, NEW saw \in Nat, saw = sess[q].saw
             PROVE  Unaware(sess[q].id, sess[q].saw)'
  <2>1. ASSUME NEW q \in Sessions, sess'[q].pc = "ready", sess'[q].op = "create"
        PROVE  sess[q].id \in WorkIds /\ sess[q].saw \in Nat
    BY <2>1, IdleTyped DEF WInv, TypeOK, SessionsKnow, Knows, Session
  <2> QED
    BY <2>1
<1>1. sess'[q] = sess[q]
  BY IdleTyped DEF WInv, TypeOK
<1>2. Exists(y) /\ Unaware(y, saw)
  BY <1>1 DEF WInv, SessionsKnow, Knows, KInv
<1>3. Unaware(y, saw)'
  BY <1>2, UnawareKept DEF WInv, TypeOK
<1> QED
  BY <1>1, <1>3 DEF Unaware

\* What an item's author had not read of its parent, it had not read.
LEMMA ChildrenKept ==
    ASSUME WInv, HInv, KInv, TypeOK', \A y \in WorkIds : Exists(y) => Grows(y),
           NEW x \in WorkIds, Exists(x), item'[x].parent = item[x].parent,
           NEW y \in WorkIds, item[x].parent = y
    PROVE  Unaware(y, events[x][1].saw)'
<1>1. Exists(y) /\ Unaware(y, events[x][1].saw)
  <2>1. Unaware(y, events[x][1].saw)
    BY DEF KInv
  <2>2. item[x].type \in {"RESPONSIBILITY", "TASK"}
    <3>1. item[x].type \in Types \union {"none"} /\ item[x].type # "none"
      BY DEF WInv, TypeOK, WorkRow, Exists
    <3>2. item[x].type # "INITIATIVE"
      BY WorkAssumption DEF WInv, StrictlyNested
    <3> QED
      BY <3>1, <3>2 DEF Types
  <2>3. item[y].type = ParentType[item[x].type]
    BY <2>2 DEF WInv, StrictlyNested
  <2>4. ParentType[item[x].type] # "none"
    BY <2>2 DEF ParentType, Types
  <2> QED
    BY <2>1, <2>3, <2>4 DEF Exists
<1>2. events[x] \in Seq(Event) /\ Len(events[x]) \in Nat \ {0}
  <2>1. events[x] \in Seq(Event)
    BY DEF WInv, TypeOK
  <2>2. Len(events[x]) >= Base(x) /\ Base(x) \in {1, 2}
    BY DEF HInv, History, Base
  <2> QED
    BY <2>1, <2>2
<1>3. events[x][1] \in Event /\ events'[x][1] = events[x][1]
  BY <1>2 DEF Grows
<1> SUFFICES ASSUME NEW saw \in Nat, saw = events[x][1].saw PROVE Unaware(y, saw)'
  BY <1>3 DEF Event, Unaware
<1> QED
  BY <1>1, UnawareKept DEF WInv, TypeOK

\* A new item is added by someone who had not read its parent called off.
LEMMA InsertKeepsKInv ==
    ASSUME WInv, HInv, KInv, WInv', NEW x \in WorkIds, NEW type \in Types,
           NEW parent \in WorkIds \union {NoWork},
           NEW owner \in MaybeMember, NEW actor \in Members, NEW saw \in Nat,
           ~ Exists(x), Insert(x, type, parent, owner, actor, saw),
           parent \in WorkIds => Exists(parent) /\ Unaware(parent, saw),
           NEW s \in Sessions, sess' = [sess EXCEPT ![s] = Idle] \/ sess' = sess
    PROVE  KInv'
<1> DEFINE first == FirstEvents(owner, actor, saw)
<1>1. /\ item'[x].type = type /\ item'[x].parent = parent
      /\ events'[x] = first
      /\ \A y \in WorkIds \ {x} : item'[y] = item[y] /\ events'[y] = events[y]
  BY DEF Insert, WInv, TypeOK, NewRow
<1>2. /\ first[1].saw = saw
      /\ first \in Seq(Event)
      /\ \A k \in DOMAIN first : first[k].type \in {"WORK_CREATED", "ASSIGNED"}
  BY FirstEventsFacts, FirstEventsLength
<1> HIDE DEF first
<1>3. \A y \in WorkIds : Exists(y) => y # x /\ Grows(y)
  <2>1. ASSUME NEW y \in WorkIds, Exists(y)
        PROVE  y # x /\ item'[y] = item[y] /\ events'[y] = events[y] /\ Len(events[y]) \in Nat
    BY <1>1, <2>1 DEF WInv, TypeOK
  <2> QED
    BY <2>1 DEF Grows
<1>4. ASSUME NEW y \in WorkIds, Exists(y)', item'[y].type # "TASK",
             NEW k \in 1..Len(events'[y]), events'[y][k].type = "CANCELLED"
      PROVE  item'[y].status = "CANCELLED"
  <2>1. y # x
    BY <1>1, <1>2, <1>4
  <2> QED
    BY <1>1, <1>4, <2>1 DEF KInv, Exists
<1>5. ASSUME NEW z \in WorkIds, NEW y \in WorkIds, Exists(z)', item'[z].parent = y
      PROVE  Unaware(y, events[z][1].saw)'
  <2>1. CASE z = x
    <3>1. Exists(y) /\ Unaware(y, saw) /\ Grows(y)
      BY <1>1, <1>3, <1>5, <2>1
    <3>2. Unaware(y, saw)'
      BY <3>1, UnawareKept DEF WInv, TypeOK
    <3> QED
      BY <1>1, <1>2, <2>1, <3>2 DEF Unaware
  <2>2. CASE z # x
    <3>1. Exists(z) /\ item'[z].parent = item[z].parent
      BY <1>1, <1>5, <2>2 DEF Exists
    <3> QED
      BY <1>3, <1>5, <3>1, ChildrenKept DEF WInv
  <2> QED
    BY <2>1, <2>2
<1>6. \A q \in Sessions : sess'[q].pc = "ready" /\ sess'[q].op = "create"
                             => Unaware(sess[q].id, sess[q].saw)'
  BY <1>3, UnawareAllKept DEF WInv
<1> QED
  BY <1>4, <1>5, <1>6 DEF KInv

\* Whoever is about to add to a container has read it when it was not called off.
LEMMA ReadKeepsKInv ==
    ASSUME WInv, HInv, KInv, WInv', NEW s \in Sessions, NEW actor \in Members, NEW x \in WorkIds,
           NEW op \in Moves \union {"create"}, Exists(x), UNCHANGED tables,
           op = "create" => item[x].type # "TASK" /\ item[x].status # "CANCELLED",
           sess' = [sess EXCEPT ![s] = Reading(op, actor, x)]
    PROVE  KInv'
<1>1. /\ sess'[s] = Reading(op, actor, x)
      /\ \A q \in Sessions \ {s} : sess'[q] = sess[q]
      /\ item' = item /\ events' = events
  BY DEF WInv, TypeOK, tables
<1>2. op = "create" => Unaware(x, Len(events[x]))
  <2>1. Len(events[x]) \in Nat
    BY DEF WInv, TypeOK
  <2> QED
    BY <2>1 DEF KInv, Unaware
<1>3. \A y \in WorkIds, saw \in Nat : Unaware(y, saw)' <=> Unaware(y, saw)
  BY <1>1 DEF Unaware
<1>4. ASSUME NEW q \in Sessions, sess'[q].pc = "ready", sess'[q].op = "create"
      PROVE  Unaware(sess[q].id, sess[q].saw)'
  <2>1. CASE q = s
    <3>1. sess'[q].op = op /\ sess'[q].id = x /\ sess'[q].saw = Len(events[x])
      BY <1>1, <2>1 DEF Reading
    <3> QED
      BY <1>1, <1>2, <1>4, <3>1 DEF Unaware
  <2>2. CASE q # s
    <3>1. sess'[q] = sess[q] /\ Unaware(sess[q].id, sess[q].saw)
      BY <1>1, <1>4, <2>2 DEF KInv
    <3> QED
      BY <1>1, <3>1 DEF Unaware
  <2> QED
    BY <2>1, <2>2
<1>5. ASSUME NEW z \in WorkIds, NEW y \in WorkIds, Exists(z)', item'[z].parent = y
      PROVE  Unaware(y, events[z][1].saw)'
  BY <1>1, <1>5 DEF KInv, Unaware, Exists
<1>6. \A y \in WorkIds : /\ Exists(y)' /\ item'[y].type # "TASK"
                         /\ \E k \in 1..Len(events'[y]) : events'[y][k].type = "CANCELLED"
                         => item'[y].status = "CANCELLED"
  BY <1>1 DEF KInv, Exists
<1> QED
  BY <1>4, <1>5, <1>6 DEF KInv

\* All a move does to a container is to call it off, and it says so last.
LEMMA CommitMoveKeepsKInv ==
    ASSUME WInv, HInv, KInv, WInv', NEW s \in Sessions, CommitMove(s)
    PROVE  KInv'
<1> SUFFICES ASSUME NEW x \in WorkIds, x = sess[s].id
             PROVE  KInv'
  BY DEF CommitMove, WInv, SessionsKnow, Knows
<1> DEFINE event == Recorded(s)
<1>1. /\ sess[s].op \in Moves /\ Knows(s) /\ Exists(x)
      /\ events[x] \in Seq(Event) /\ item[x] \in WorkRow /\ Len(events[x]) \in Nat
  <2>1. sess[s].op \in Moves /\ Knows(s)
    BY DEF CommitMove, WInv, SessionsKnow
  <2>2. events[x] \in Seq(Event) /\ item[x] \in WorkRow
    BY DEF WInv, TypeOK
  <2>3. Len(events[x]) \in Nat
    BY <2>2
  <2> QED
    BY <2>1, <2>2, <2>3 DEF Knows
<1>2. /\ item'[x].status = Target[sess[s].op]
      /\ item'[x].owner = item[x].owner /\ item'[x].type = item[x].type
      /\ item'[x].parent = item[x].parent
      /\ \A y \in WorkIds \ {x} : item'[y] = item[y]
  BY MoveWrites
<1>3. /\ events'[x] = Append(events[x], event)
      /\ \A y \in WorkIds \ {x} : events'[y] = events[y]
  BY <1>1 DEF CommitMove, WInv, TypeOK
<1> HIDE DEF event
<1>4. \A y \in WorkIds : Exists(y) => Grows(y)
  <2>1. /\ Len(events'[x]) >= Len(events[x])
        /\ \A k \in 1..Len(events[x]) : events'[x][k] = events[x][k]
    BY <1>1, <1>3
  <2>2. Grows(x)
    BY <2>1, <1>2 DEF Grows
  <2>3. ASSUME NEW y \in WorkIds \ {x} PROVE Grows(y)
    <3>1. item'[y] = item[y] /\ events'[y] = events[y] /\ Len(events[y]) \in Nat
      BY <1>2, <1>3 DEF WInv, TypeOK
    <3> QED
      BY <3>1 DEF Grows
  <2> QED
    BY <2>2, <2>3
<1>5. item[x].type # "TASK" => item'[x].status = "CANCELLED"
  BY <1>1, <1>2 DEF Knows, Moves, Target
<1>6. ASSUME NEW y \in WorkIds, Exists(y)', item'[y].type # "TASK",
             NEW k \in 1..Len(events'[y]), events'[y][k].type = "CANCELLED"
      PROVE  item'[y].status = "CANCELLED"
  <2>1. CASE y = x
    BY <2>1, <1>2, <1>5, <1>6
  <2>2. CASE y # x
    BY <2>2, <1>2, <1>3, <1>6 DEF KInv, Exists
  <2> QED
    BY <2>1, <2>2
<1>7. ASSUME NEW z \in WorkIds, NEW y \in WorkIds, Exists(z)', item'[z].parent = y
      PROVE  Unaware(y, events[z][1].saw)'
  <2>1. Exists(z) /\ item'[z].parent = item[z].parent
    BY <1>1, <1>2, <1>7 DEF Exists
  <2> QED
    BY <1>4, <1>7, <2>1, ChildrenKept DEF WInv
<1>8. \A q \in Sessions : sess'[q].pc = "ready" /\ sess'[q].op = "create"
                             => Unaware(sess[q].id, sess[q].saw)'
  BY <1>4, UnawareAllKept DEF WInv, CommitMove
<1> QED
  BY <1>6, <1>7, <1>8 DEF KInv

-----------------------------------------------------------------------------
IInv == WInv /\ HInv /\ KInv

LEMMA StepKeepsIInv == IInv /\ [Next]_vars => IInv'
<1> SUFFICES ASSUME IInv, [Next]_vars PROVE IInv'
  OBVIOUS
<1> USE DEF Types
<1>0. WInv'
  BY StepKeepsWInv DEF IInv
<1>1. ASSUME NEW s \in Sessions, NEW actor \in Members, NEW x \in WorkIds,
             NEW owner \in Owners, CreateInitiative(s, actor, x, owner)
      PROVE  HInv' /\ KInv'
  BY <1>0, <1>1, InsertKeepsHInv, InsertKeepsKInv, WorkAssumption
     DEF CreateInitiative, IInv, WInv
<1>2. ASSUME NEW s \in Sessions, NEW actor \in Members, NEW x \in WorkIds,
             LoadParent(s, actor, x)
      PROVE  HInv' /\ KInv'
  <2>1. item[x].type # "TASK" /\ item[x].status # "CANCELLED"
    BY <1>2 DEF LoadParent, ValidPlacement, ParentType
  <2>2. "create" \notin Moves
    BY DEF Moves
  <2> QED
    BY <1>0, <1>2, <2>1, <2>2, ReadKeepsHInv, ReadKeepsKInv DEF LoadParent, IInv
<1>3. ASSUME NEW s \in Sessions, NEW x \in WorkIds, NEW t \in Types, NEW owner \in Owners,
             CommitCreate(s, x, t, owner)
      PROVE  HInv' /\ KInv'
  <2>1. /\ Knows(s) /\ ~ Exists(x) /\ sess[s].saw \in Nat /\ sess[s].pc = "ready"
        /\ sess[s].op = "create" /\ sess' = [sess EXCEPT ![s] = Idle]
        /\ Insert(x, t, sess[s].id, owner, sess[s].actor, sess[s].saw)
    BY <1>3 DEF CommitCreate, IInv, WInv, TypeOK, Session, SessionsKnow
  <2>2. /\ sess[s].id \in WorkIds /\ Exists(sess[s].id) /\ sess[s].actor \in Members
        /\ Unaware(sess[s].id, sess[s].saw) /\ owner \in MaybeMember
    BY <2>1, WorkAssumption DEF Knows, IInv, KInv
  <2> QED
    BY <1>0, <2>1, <2>2, InsertKeepsHInv, InsertKeepsKInv DEF IInv, WInv
<1>4. ASSUME NEW s \in Sessions, NEW actor \in Members, NEW x \in WorkIds, NEW op \in Moves,
             LoadItem(s, actor, x, op)
      PROVE  HInv' /\ KInv'
  <2>1. item[x].status \in {"ACTIVE", "IN_PROGRESS"} /\ op # "create"
    BY <1>4 DEF LoadItem, AllowedTransitions, TaskTransitions, ContainerTransitions, Moves
  <2> QED
    BY <1>0, <1>4, <2>1, ReadKeepsHInv, ReadKeepsKInv DEF LoadItem, IInv
<1>5. ASSUME NEW s \in Sessions, CommitMove(s)
      PROVE  HInv' /\ KInv'
  BY <1>0, <1>5, CommitMoveKeepsHInv, CommitMoveKeepsKInv DEF IInv
<1>6. ASSUME UNCHANGED tables, NEW s \in Sessions, sess' = [sess EXCEPT ![s] = Idle] \/ sess' = sess
      PROVE  HInv' /\ KInv'
  <2>1. \A y \in WorkIds : Exists(y) => Grows(y)
    <3>1. \A y \in WorkIds : Len(events[y]) \in Nat
      BY DEF IInv, WInv, TypeOK
    <3> QED
      BY <1>6, <3>1 DEF Grows, tables
  <2>2. HInv'
    BY <1>0, <1>6, <2>1, SeenAllKept, HistoryKept DEF tables, IInv, HInv, WInv
  <2>3. KInv'
    <3>1. \A z, y \in WorkIds : Exists(z)' /\ item'[z].parent = y
                                   => Unaware(y, events[z][1].saw)'
      BY <1>6 DEF IInv, KInv, Unaware, Exists, tables
    <3>2. \A q \in Sessions : sess'[q].pc = "ready" /\ sess'[q].op = "create"
                                 => Unaware(sess[q].id, sess[q].saw)'
      BY <1>0, <1>6, <2>1, UnawareAllKept DEF IInv, WInv
    <3> QED
      BY <1>6, <3>1, <3>2 DEF IInv, KInv, Exists, tables
  <2> QED
    BY <2>2, <2>3
<1>7. ASSUME NEW s \in Sessions, Crash(s)
      PROVE  HInv' /\ KInv'
  BY <1>6, <1>7 DEF Crash
<1>8. CASE UNCHANGED vars
  BY <1>0, <1>8, ZenonT(60)
     DEF vars, IInv, HInv, KInv, Seen, History, Entry, Tells, Clean, Base, Unaware, Exists
<1>9. CASE Next
  <2>1. HInv' /\ KInv'
    BY <1>1, <1>2, <1>3, <1>4, <1>5, <1>7, <1>9 DEF Next
  <2> QED
    BY <1>0, <2>1 DEF IInv
<1> QED
  BY <1>8, <1>9

LEMMA NobodyMovesTheFinished == IInv => FinishedForAllWhoSee
<1>1. ASSUME IInv, NEW x \in WorkIds, NEW k \in MovesOf(x)
      PROVE  events[x][events[x][k].saw].type \notin {"COMPLETED", "CANCELLED"}
  <2>1. events[x] \in Seq(Event) /\ k \in DOMAIN events[x] /\ events[x][k].type \in MoveEvents
    BY <1>1 DEF MovesOf, IInv, WInv, TypeOK
  <2>2. k \in 1..Len(events[x]) /\ events[x] # <<>>
    BY <2>1
  <2>3. Entry(x, k)
    BY <1>1, <2>2 DEF IInv, HInv, History
  <2> QED
    BY <2>1, <2>3 DEF Entry, Final
<1> QED
  BY <1>1 DEF FinishedForAllWhoSee

\* The moves of an item are the entries after its first ones.
LEMMA MovesCounted ==
    ASSUME IInv, NEW x \in WorkIds, Exists(x)
    PROVE  /\ Base(x) \in 1..2 /\ Len(events[x]) \in Nat /\ Base(x) <= Len(events[x])
           /\ MovesOf(x) = (Base(x) + 1)..Len(events[x])
           /\ Cardinality(MovesOf(x)) = Len(events[x]) - Base(x)
<1>1. events[x] \in Seq(Event) /\ History(x)
  BY DEF IInv, WInv, TypeOK, HInv
<1>2. /\ Base(x) \in 1..2 /\ Len(events[x]) \in Nat /\ Base(x) <= Len(events[x])
      /\ DOMAIN events[x] = 1..Len(events[x])
  BY <1>1 DEF History, Base
<1>3. MovesOf(x) = (Base(x) + 1)..Len(events[x])
  <2>1. ASSUME NEW k \in 1..Len(events[x]) PROVE k \in MovesOf(x) <=> k > Base(x)
    BY <1>1, <1>2 DEF History, Entry, MovesOf
  <2>2. MovesOf(x) \subseteq 1..Len(events[x])
    BY <1>2 DEF MovesOf
  <2> QED
    <3> SUFFICES ASSUME NEW b \in 1..2, b = Base(x), NEW n \in Nat, n = Len(events[x])
                 PROVE  MovesOf(x) = (b + 1)..n
      BY <1>2
    <3>1. \A k \in 1..n : k \in (b + 1)..n <=> k > b
      OBVIOUS
    <3>2. (b + 1)..n \subseteq 1..n
      OBVIOUS
    <3> QED
      BY <2>1, <2>2, <3>1, <3>2
<1>4. Cardinality((Base(x) + 1)..Len(events[x])) = Len(events[x]) - Base(x)
  <2> SUFFICES ASSUME NEW b \in 1..2, b = Base(x), NEW n \in Nat, n = Len(events[x])
               PROVE  Cardinality((b + 1)..n) = n - b
    BY <1>2
  <2>1. b + 1 \in Int /\ n \in Int /\ b <= n
    BY <1>2
  <2>2. Cardinality((b + 1)..n) = IF b + 1 > n THEN 0 ELSE n - (b + 1) + 1
    BY <2>1, FS_Interval
  <2> QED
    BY <2>1, <2>2
<1> QED
  BY <1>2, <1>3, <1>4

LEMMA VersionsTell == IInv => OverwritesShow
<1>1. ASSUME IInv, NEW x \in WorkIds, Exists(x)
      PROVE  /\ item[x].version <= 1 + Cardinality(MovesOf(x))
             /\ Counted(x) <=> \A k \in MovesOf(x) : events[x][k].saw = k - 1
  <2>1. /\ Base(x) \in 1..2 /\ Len(events[x]) \in Nat /\ Base(x) <= Len(events[x])
        /\ MovesOf(x) = (Base(x) + 1)..Len(events[x])
        /\ Cardinality(MovesOf(x)) = Len(events[x]) - Base(x)
    BY <1>1, MovesCounted
  <2>2. Tells(x, item[x].version, Len(events[x]))
    BY <1>1 DEF IInv, HInv
  <2>3. 1 + Len(events[x]) - Base(x) = 1 + Cardinality(MovesOf(x))
    BY <2>1
  <2>4. Clean(x, Len(events[x])) <=> \A k \in MovesOf(x) : events[x][k].saw = k - 1
    BY <2>1, SMTT(30) DEF Clean
  <2> QED
    BY <2>2, <2>3, <2>4 DEF Tells, Counted
<1> QED
  BY <1>1 DEF OverwritesShow

LEMMA NobodyAddsKnowingly == IInv => NothingAddedKnowingly
<1> SUFFICES ASSUME IInv, NEW x \in WorkIds, NEW y \in WorkIds,
                    Exists(x), item[x].parent = y,
                    NEW k \in DOMAIN events[y], events[y][k].type = "CANCELLED"
             PROVE  events[x][1].saw < k
  BY DEF NothingAddedKnowingly
<1>1. Unaware(y, events[x][1].saw)
  BY DEF IInv, KInv
<1>2. k \in 1..Len(events[y])
  BY DEF IInv, WInv, TypeOK
<1> QED
  BY <1>1, <1>2 DEF Unaware

LEMMA IInvHolds == Spec => []IInv
<1>1. Init => IInv
  BY InitWInv, InitHInv, InitKInv DEF IInv
<1> QED
  BY <1>1, StepKeepsIInv, PTL DEF Spec

-----------------------------------------------------------------------------
\* Every reachable row, event and request has its type, in any overlap of creations
\* and moves (app/database/models/work.py).
THEOREM WorkTypeCorrect == Spec => []TypeOK
BY IInvHolds, PTL DEF IInv, WInv

\* However requests overlap, the status of an item is the one its last recorded
\* move reached: history cannot diverge from state (domain/work/events.py).
THEOREM HistoryExplainsStatusHolds == Spec => []HistoryExplainsStatus
BY IInvHolds, PTL DEF IInv, WInv

\* Creation never breaks the nesting of task, responsibility and initiative within
\* one organization, although the parent was read in another step
\* (domain/work/service.py, _validate_placement).
THEOREM StrictlyNestedHolds == Spec => []StrictlyNested
BY IInvHolds, PTL DEF IInv, WInv

\* Nobody but a task's owner or an administrator is on record as having started or
\* finished it, and a container is never on record so (START_TASK and COMPLETE_TASK
\* in domain/permissions/engine.py with CONTAINER_TRANSITIONS in work/lifecycle.py).
THEOREM OwnersReportHolds == Spec => []OwnersReport
BY IInvHolds, PTL DEF IInv, WInv

\* Work that is finished or called off stays so for all who can see it: whoever
\* moves it afterwards had read it before, however many requests overlap
\* (transition, domain/work/lifecycle.py).
THEOREM FinishedForAllWhoSeeHolds == Spec => []FinishedForAllWhoSee
BY NobodyMovesTheFinished, IInvHolds, PTL

\* A version never tells of more moves than were made, and tells of all of them just
\* when each was made on a read of the one before: an overwritten move always shows,
\* however many requests overlap (transition, domain/work/lifecycle.py, against
\* WorkItem.version, database/models/work.py).
THEOREM OverwritesShowHolds == Spec => []OverwritesShow
BY VersionsTell, IInvHolds, PTL

\* Nothing is added under work by anyone who could see it called off: whoever adds
\* under a cancelled container had read it before (_validate_placement,
\* domain/work/service.py, which checks the parent as it was read).
THEOREM NothingAddedKnowinglyHolds == Spec => []NothingAddedKnowingly
BY NobodyAddsKnowingly, IInvHolds, PTL
=============================================================================
