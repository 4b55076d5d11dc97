---------------------------- MODULE Allocation ----------------------------
(***************************************************************************)
(* Values a request draws from rows it has looked at: short codes          *)
(* (app/domain/codes.py and _allocate_code, in work/service.py and         *)
(* delegation/service.py) and the sort order of plan items                 *)
(* (_next_sort_order and list_items, in delegation/service.py).            *)
(*                                                                         *)
(* A code is backed by a unique constraint: an insert waits while another  *)
(* transaction holds the code uncommitted, and fails once it is committed. *)
(* An approval inserts many rows and keeps the codes of all of them until  *)
(* it commits, so requests may come to wait for each other; PostgreSQL     *)
(* then aborts one.  A sort order is backed by nothing.                    *)
(*                                                                         *)
(* The two share no table, so a behaviour has one load or the other: all   *)
(* its requests create rows, or all of them edit one plan.                 *)
(***************************************************************************)
EXTENDS Naturals, FiniteSets, FiniteSetsExt, Relation

CONSTANTS
    Requests,   \* requests in flight at once
    Codes,      \* codes of one prefix in one organization
    NoCode,
    Sizes,      \* how many rows a request may create: 1, or an approval's tasks
    Attempts,   \* _CODE_ATTEMPTS, 10 in the code
    Items       \* ids of one plan's items

ASSUME AllocationAssumption ==
    /\ NoCode \notin Codes
    /\ Sizes \subseteq Nat \ {0}
    /\ Attempts \in Nat \ {0}

VARIABLES
    load,   \* what the requests of this behaviour do
    rows,   \* how many committed rows carry each code
    req,    \* where each request stands
    item,   \* the plan's items; saw is auxiliary: what its request looked at
    read    \* what each addition has read: the next order, and what it saw

codeVars == <<rows, req>>
itemVars == <<item, read>>
vars == <<load, rows, req, item, read>>

ItemRow == [state : {"new", "live", "removed"}, order : Nat, saw : SUBSET Items]
NoItemRow == [state |-> "new", order |-> 0, saw |-> {}]

Request == [pc : {"idle", "drawing", "inserting", "done", "adding"},
            left : Nat, tries : 0..Attempts, candidate : Codes \union {NoCode},
            mine : SUBSET Codes, alone : BOOLEAN]

Idle == [pc |-> "idle", left |-> 0, tries |-> 0, candidate |-> NoCode, mine |-> {},
         alone |-> FALSE]

Reading == [order : Nat, saw : SUBSET Items]
NothingRead == [order |-> 0, saw |-> {}]

TypeOK ==
    /\ load \in {"rows", "items"}
    /\ rows \in [Codes -> Nat]
    /\ req \in [Requests -> Request]
    /\ item \in [Items -> ItemRow]
    /\ read \in [Requests -> Reading]

Init ==
    /\ load \in {"rows", "items"}
    /\ rows = [c \in Codes |-> 0]
    /\ req = [r \in Requests |-> Idle]
    /\ item = [i \in Items |-> NoItemRow]
    /\ read = [r \in Requests |-> NothingRead]

\* A request begins; those in flight are no longer alone.
Begin(r, kind, fields) ==
    /\ load = kind
    /\ req[r].pc = "idle"
    /\ req' = [q \in Requests |->
                 IF q = r
                 THEN [fields EXCEPT !.alone = \A x \in Requests : req[x].pc = "idle"]
                 ELSE [req[q] EXCEPT !.alone = FALSE]]

End(r) == req' = [req EXCEPT ![r] = Idle]

-----------------------------------------------------------------------------
\* Short codes.

Taken == {c \in Codes : rows[c] > 0}

\* Slip: rows are flushed at the end, so a look-up does not find the request's own.
VisiblyTakenUnflushed(r, code) == code \in Taken

\* The look-up of _allocate_code sees committed rows and the request's own.
VisiblyTaken(r, code) == code \in Taken \union req[r].mine

\* An insert of r waits for the end of q.
WaitsFor(r, q) == r # q /\ req[r].pc = "inserting" /\ req[r].candidate \in req[q].mine

Waits(r) == \E q \in Requests : WaitsFor(r, q)

\* Slip: the constraint is missing and the look-up is all there is.
TableTakesAnything(r) == TRUE

\* uq_..._organization_id_short_code.
TableTakes(r) == req[r].candidate \notin Taken \union req[r].mine

CreateRows(r, n) ==
    /\ Begin(r, "rows", [Idle EXCEPT !.pc = "drawing", !.left = n])
    /\ UNCHANGED <<load, rows, itemVars>>

\* Slip: the bound of the loop is off by one.
AttemptsLeftInclusive(r) == req[r].tries <= Attempts

AttemptsLeft(r) == req[r].tries < Attempts

\* One round of the loop: a candidate, and the look-up.
Draw(r, code) ==
    /\ req[r].pc = "drawing" /\ AttemptsLeft(r)
    /\ req' = IF VisiblyTaken(r, code)
              THEN [req EXCEPT ![r].tries = @ + 1]
              ELSE [req EXCEPT ![r].pc = "inserting", ![r].candidate = code]
    /\ UNCHANGED <<load, rows, itemVars>>

\* RuntimeError after the last attempt.
GiveUp(r) ==
    /\ req[r].pc = "drawing" /\ ~ AttemptsLeft(r)
    /\ End(r)
    /\ UNCHANGED <<load, rows, itemVars>>

Insert(r) ==
    /\ req[r].pc = "inserting" /\ ~ Waits(r) /\ TableTakes(r)
    /\ req' = [req EXCEPT ![r].pc = IF req[r].left = 1 THEN "done" ELSE "drawing",
                          ![r].left = @ - 1, ![r].tries = 0, ![r].candidate = NoCode,
                          ![r].mine = @ \union {req[r].candidate}]
    /\ UNCHANGED <<load, rows, itemVars>>

\* The constraint refuses the row, and the request is rolled back.
Refused(r) == req[r].pc = "inserting" /\ ~ Waits(r) /\ ~ TableTakes(r)

\* Slip: nobody looks for cycles.
NoVictim(r) == FALSE

\* PostgreSQL aborts a transaction that waits, through others, for itself.
Victim(r) ==
    LET waitsFor == [p \in Requests \X Requests |-> WaitsFor(p[1], p[2])]
    IN  TransitiveClosure(waitsFor, Requests)[r, r]

Fail(r) ==
    /\ Refused(r) \/ Victim(r)
    /\ End(r)
    /\ UNCHANGED <<load, rows, itemVars>>

CommitRows(r) ==
    /\ req[r].pc = "done"
    /\ rows' = [c \in Codes |-> IF c \in req[r].mine THEN rows[c] + 1 ELSE rows[c]]
    /\ End(r)
    /\ UNCHANGED <<load, itemVars>>
-----------------------------------------------------------------------------
\* Sort orders: the request of add_item, seen from the items of one plan.

Live == {i \in Items : item[i].state = "live"}

\* Slip: the next order is the number of items.
NextSortOrderByCount == Cardinality(Live)

\* _next_sort_order.
NextSortOrder == IF Live = {} THEN 0 ELSE Max({item[i].order : i \in Live}) + 1

ReadHighest(r) ==
    /\ Begin(r, "items", [Idle EXCEPT !.pc = "adding"])
    /\ read' = [read EXCEPT ![r] = [order |-> NextSortOrder, saw |-> Live]]
    /\ UNCHANGED <<load, rows, item>>

CommitItem(r, i) ==
    /\ req[r].pc = "adding" /\ item[i].state = "new"
    /\ item' = [item EXCEPT ![i] = [state |-> "live", order |-> read[r].order,
                                    saw |-> read[r].saw]]
    /\ read' = [read EXCEPT ![r] = NothingRead]
    /\ End(r)
    /\ UNCHANGED <<load, rows>>

\* remove_item.
RemoveItem(i) ==
    /\ item[i].state = "live"
    /\ item' = [item EXCEPT ![i].state = "removed"]
    /\ UNCHANGED <<load, codeVars, read>>

\* The request dies, or (a bound of the model) no id is left for its item.
Crash(r) ==
    /\ req[r].pc # "idle"
    /\ read' = [read EXCEPT ![r] = NothingRead]
    /\ End(r)
    /\ UNCHANGED <<load, rows, item>>

\* With no id left for its item (the bound), a request has only its crash.
Served(r) == req[r].pc \in {"drawing", "inserting", "done"}

Serve(r) ==
    \/ \E code \in Codes : Draw(r, code)
    \/ GiveUp(r) \/ Insert(r) \/ Fail(r) \/ CommitRows(r)
    \/ \E i \in Items : CommitItem(r, i)

Next ==
    \/ \E r \in Requests :
          \/ \E n \in Sizes : CreateRows(r, n)
          \/ ReadHighest(r)
          \/ Serve(r)
          \/ Crash(r)
    \/ \E i \in Items : RemoveItem(i)

Spec == Init /\ [][Next]_vars

\* The server keeps running a request, and an insert that waits is let through
\* when the transaction it waits for has ended.
FairSpec == Spec /\ \A r \in Requests : SF_vars(Serve(r))
-----------------------------------------------------------------------------
\* A code quoted back names one row of an organization, however creations
\* overlap (work/service.py:121: "The unique constraint is the real guarantee").
CodesNameOneRow == \A c \in Codes : rows[c] <= 1

\* The look-up "keeps the common case from hitting" the constraint: a request that
\* nothing overlaps, an approval with many tasks included, is never refused.
AloneNeverRefused == \A r \in Requests : req[r].alone => ~ Refused(r) /\ ~ Waits(r)

\* An item comes after every item of the plan that its author could see, whatever
\* was added and removed meanwhile (list_items: "The plan's items, in order").
AddedLast ==
    \A i, j \in Live : j \in item[i].saw => item[j].order < item[i].order

\* Approvals that draw each other's codes do not wait for ever: every request that
\* allocates codes ends.
AllocationEnds == \A r \in Requests : Served(r) ~> ~ Served(r)
=============================================================================
