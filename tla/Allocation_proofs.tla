-------------------------- MODULE Allocation_proofs --------------------------
(***************************************************************************)
(* Theorems about Allocation for any number of requests and codes, any     *)
(* sizes of approval and any number of attempts, and any number of items.  *)
(***************************************************************************)
EXTENDS Allocation, WellFoundedInduction, TLAPS

\* The part of the type invariant that codes depend on.
CodesTyped ==
    /\ rows \in [Codes -> Nat]
    /\ req \in [Requests -> Request]
    /\ \A r \in Requests : req[r].pc \in {"drawing", "inserting"} => req[r].left > 0
    /\ \A r \in Requests : req[r].pc = "inserting" => req[r].candidate \in Codes

\* A code is held by one uncommitted request or by one committed row, never both,
\* and a request that is idle holds none.
HeldOnce ==
    /\ \A c \in Codes : rows[c] <= 1
    /\ \A r \in Requests : req[r].mine \intersect Taken = {}
    /\ \A r, q \in Requests : r # q => req[r].mine \intersect req[q].mine = {}
    /\ \A r \in Requests : req[r].pc = "idle" => req[r].mine = {}

\* A request nothing overlaps has drawn a code that nobody holds.
AloneSeesAll ==
    \A r \in Requests : req[r].alone =>
        /\ \A q \in Requests \ {r} : req[q].pc = "idle"
        /\ req[r].pc = "inserting" => req[r].candidate \notin Taken \union req[r].mine

IInv == CodesTyped /\ HeldOnce /\ AloneSeesAll

LEMMA IdleTyped == Idle \in Request /\ Idle.pc = "idle" /\ Idle.mine = {} /\ ~ Idle.alone
BY AllocationAssumption DEF Idle, Request

LEMMA InitIInv == Init => IInv
BY IdleTyped DEF Init, IInv, CodesTyped, HeldOnce, AloneSeesAll, Taken

\* A request that begins, and those it finds running.
LEMMA BeginKeepsIInv ==
    ASSUME IInv, NEW r \in Requests, NEW kind, NEW fields \in Request,
           Begin(r, kind, fields), UNCHANGED rows,
           fields.mine = {}, fields.pc \in {"drawing", "adding"},
           fields.pc = "drawing" => fields.left > 0
    PROVE  IInv'
<1> DEFINE none == \A x \in Requests : req[x].pc = "idle"
           new == [fields EXCEPT !.alone = none]
           other(q) == [req[q] EXCEPT !.alone = FALSE]
<1>1. \A q \in Requests : req'[q] = IF q = r THEN new ELSE other(q)
  BY DEF Begin
<1>2. /\ new \in Request /\ new.mine = {} /\ new.pc = fields.pc /\ new.left = fields.left
      /\ new.alone = none
  <2>1. none \in BOOLEAN
    OBVIOUS
  <2> HIDE DEF none
  <2> QED
    BY <2>1 DEF Request
<1>3. \A q \in Requests :
        /\ other(q) \in Request /\ other(q).mine = req[q].mine /\ other(q).pc = req[q].pc
        /\ other(q).left = req[q].left /\ other(q).candidate = req[q].candidate
        /\ other(q).alone = FALSE
  BY DEF IInv, CodesTyped, Request
<1>4. req' = [q \in Requests |-> req'[q]]
  BY DEF Begin
<1> HIDE DEF new, other
<1>5. CodesTyped'
  BY <1>1, <1>2, <1>3, <1>4 DEF IInv, CodesTyped
<1>6. HeldOnce'
  BY <1>1, <1>2, <1>3 DEF IInv, HeldOnce, Taken
<1>7. AloneSeesAll'
  <2> SUFFICES ASSUME NEW s \in Requests, req'[s].alone
               PROVE  /\ \A q \in Requests \ {s} : req'[q].pc = "idle"
                      /\ req'[s].pc # "inserting"
    BY DEF AloneSeesAll
  <2>1. s = r
    BY <1>1, <1>3
  <2>2. req'[r] = new
    BY <1>1
  <2>3. none
    BY <1>2, <2>1, <2>2
  <2>4. \A q \in Requests \ {r} : req'[q].pc = "idle"
    BY <1>1, <1>3, <2>3
  <2>5. req'[r].pc # "inserting"
    BY <1>2, <2>2
  <2> QED
    BY <2>1, <2>4, <2>5
<1> QED
  BY <1>5, <1>6, <1>7 DEF IInv

\* A request that ends without a row gives back its codes.
LEMMA EndKeepsIInv ==
    ASSUME IInv, NEW r \in Requests, End(r), UNCHANGED rows
    PROVE  IInv'
<1>1. /\ req' \in [Requests -> Request]
      /\ \A q \in Requests : req'[q] = IF q = r THEN Idle ELSE req[q]
  BY IdleTyped DEF End, IInv, CodesTyped
<1> QED
  BY <1>1, IdleTyped DEF IInv, CodesTyped, HeldOnce, AloneSeesAll, Taken

\* A request that goes on alone: what changes is its own.
LEMMA GoingOnKeepsIInv ==
    ASSUME IInv, NEW r \in Requests, NEW fields \in Request,
           req' = [req EXCEPT ![r] = fields], UNCHANGED rows,
           fields.mine = req[r].mine \/ fields.pc # "inserting",
           req[r].mine \subseteq fields.mine,
           \A c \in fields.mine \ req[r].mine :
              c \notin Taken /\ \A q \in Requests : c \notin req[q].mine,
           fields.pc # "idle" /\ req[r].pc # "idle" /\ fields.alone = req[r].alone,
           fields.pc \in {"drawing", "inserting"} => fields.left > 0,
           fields.pc = "inserting" => /\ fields.candidate \in Codes
                                      /\ fields.candidate \notin Taken \union fields.mine
    PROVE  IInv'
<1>1. /\ req' \in [Requests -> Request]
      /\ \A q \in Requests : req'[q] = IF q = r THEN fields ELSE req[q]
  BY DEF IInv, CodesTyped
<1>2. CodesTyped'
  BY <1>1 DEF IInv, CodesTyped
<1>3. HeldOnce'
  BY <1>1 DEF IInv, HeldOnce, Taken
<1>4. AloneSeesAll'
  BY <1>1 DEF IInv, AloneSeesAll, Taken
<1> QED
  BY <1>2, <1>3, <1>4 DEF IInv

LEMMA DrawKeepsIInv ==
    ASSUME IInv, NEW r \in Requests, NEW code \in Codes, Draw(r, code)
    PROVE  IInv'
<1>0. req[r] \in Request /\ req[r].pc = "drawing" /\ req[r].left > 0
      /\ req[r].tries < Attempts /\ UNCHANGED rows
  BY DEF Draw, AttemptsLeft, IInv, CodesTyped
<1>1. CASE VisiblyTaken(r, code)
  <2> DEFINE fields == [req[r] EXCEPT !.tries = @ + 1]
  <2>1. req' = [req EXCEPT ![r] = fields]
    BY <1>1 DEF Draw
  <2>2. /\ fields \in Request /\ fields.mine = req[r].mine /\ fields.pc = "drawing"
        /\ fields.left = req[r].left /\ fields.alone = req[r].alone
    BY <1>0, AllocationAssumption DEF Request
  <2> HIDE DEF fields
  <2> QED
    BY <1>0, <2>1, <2>2, GoingOnKeepsIInv
<1>2. CASE ~ VisiblyTaken(r, code)
  <2> DEFINE fields == [req[r] EXCEPT !.pc = "inserting", !.candidate = code]
  <2>1. req' = [req EXCEPT ![r] = fields]
    BY <1>2 DEF Draw
  <2>2. /\ fields \in Request /\ fields.mine = req[r].mine /\ fields.pc = "inserting"
        /\ fields.left = req[r].left /\ fields.alone = req[r].alone
        /\ fields.candidate = code
    BY <1>0 DEF Request
  <2>3. code \notin Taken \union req[r].mine
    BY <1>2 DEF VisiblyTaken
  <2> HIDE DEF fields
  <2> QED
    BY <1>0, <2>1, <2>2, <2>3, GoingOnKeepsIInv
<1> QED
  BY <1>1, <1>2

\* The constraint lets a code in only while nobody holds it.
LEMMA InsertKeepsIInv ==
    ASSUME IInv, NEW r \in Requests, Insert(r)
    PROVE  IInv'
<1> DEFINE last == req[r].left = 1
           fields == [req[r] EXCEPT !.pc = IF last THEN "done" ELSE "drawing",
                                    !.left = @ - 1, !.tries = 0, !.candidate = NoCode,
                                    !.mine = @ \union {req[r].candidate}]
<1>1. /\ req[r] \in Request /\ req[r].pc = "inserting" /\ req[r].candidate \in Codes
      /\ req[r].left > 0 /\ req[r].candidate \notin Taken \union req[r].mine
      /\ \A q \in Requests : q # r => req[r].candidate \notin req[q].mine
      /\ UNCHANGED rows
  BY DEF Insert, Waits, WaitsFor, TableTakes, IInv, CodesTyped
<1>2. req' = [req EXCEPT ![r] = fields]
  BY DEF Insert
<1>3. /\ fields.pc = (IF last THEN "done" ELSE "drawing") /\ fields.left = req[r].left - 1
      /\ fields.mine = req[r].mine \union {req[r].candidate}
      /\ fields.alone = req[r].alone
  BY <1>1 DEF Request
<1>4. fields \in Request
  <2>1. /\ (IF last THEN "done" ELSE "drawing")
              \in {"idle", "drawing", "inserting", "done", "adding"}
        /\ req[r].left - 1 \in Nat /\ 0 \in 0..Attempts
        /\ req[r].mine \union {req[r].candidate} \in SUBSET Codes
    BY <1>1, AllocationAssumption DEF Request
  <2> HIDE DEF last
  <2> QED
    BY <1>1, <2>1 DEF Request
<1>5. fields.pc = "drawing" => fields.left > 0
  BY <1>1, <1>3 DEF Request
<1>6. fields.pc \in {"done", "drawing"}
  BY <1>3
<1> HIDE DEF fields, last
<1> QED
  BY <1>1, <1>2, <1>3, <1>4, <1>5, <1>6, GoingOnKeepsIInv

LEMMA CommitRowsKeepsIInv ==
    ASSUME IInv, NEW r \in Requests, CommitRows(r)
    PROVE  IInv'
<1>1. /\ req' \in [Requests -> Request]
      /\ \A q \in Requests : req'[q] = IF q = r THEN Idle ELSE req[q]
  BY IdleTyped DEF CommitRows, End, IInv, CodesTyped
<1>2. /\ rows' \in [Codes -> Nat]
      /\ \A c \in Codes : rows'[c] = IF c \in req[r].mine THEN rows[c] + 1 ELSE rows[c]
  BY DEF CommitRows, IInv, CodesTyped
<1>3. /\ \A c \in Codes : rows'[c] <= 1
      /\ Taken' = Taken \union req[r].mine
  BY <1>2 DEF IInv, HeldOnce, CodesTyped, Request, Taken
<1>4. CodesTyped' /\ HeldOnce'
  BY <1>1, <1>2, <1>3, IdleTyped DEF IInv, CodesTyped, HeldOnce
<1>5. AloneSeesAll'
  BY <1>1, <1>3, IdleTyped DEF CommitRows, IInv, AloneSeesAll
<1> QED
  BY <1>4, <1>5 DEF IInv

LEMMA StepKeepsIInv == IInv /\ [Next]_vars => IInv'
<1> SUFFICES ASSUME IInv, [Next]_vars PROVE IInv'
  OBVIOUS
<1>1. ASSUME NEW r \in Requests, NEW n \in Sizes, CreateRows(r, n)
      PROVE  IInv'
  <2> DEFINE fields == [Idle EXCEPT !.pc = "drawing", !.left = n]
  <2>0. n \in Nat /\ n > 0 /\ 0 \in 0..Attempts
    BY AllocationAssumption
  <2>1. /\ fields \in Request /\ fields.mine = {} /\ fields.pc = "drawing" /\ fields.left > 0
    BY <2>0 DEF Idle, Request
  <2>2. Begin(r, "rows", fields) /\ UNCHANGED rows
    BY <1>1 DEF CreateRows
  <2> HIDE DEF fields
  <2> QED
    BY <2>1, <2>2, BeginKeepsIInv
<1>2. ASSUME NEW r \in Requests, ReadHighest(r)
      PROVE  IInv'
  <2> DEFINE fields == [Idle EXCEPT !.pc = "adding"]
  <2>1. /\ fields \in Request /\ fields.mine = {} /\ fields.pc = "adding"
    BY IdleTyped, AllocationAssumption DEF Idle, Request
  <2>2. Begin(r, "items", fields) /\ UNCHANGED rows
    BY <1>2 DEF ReadHighest
  <2> HIDE DEF fields
  <2> QED
    BY <2>1, <2>2, BeginKeepsIInv
<1>3. ASSUME NEW r \in Requests, Serve(r)
      PROVE  IInv'
  BY <1>3, DrawKeepsIInv, InsertKeepsIInv, CommitRowsKeepsIInv, EndKeepsIInv
     DEF Serve, GiveUp, Fail, CommitItem
<1>4. ASSUME NEW r \in Requests, Crash(r)
      PROVE  IInv'
  BY <1>4, EndKeepsIInv DEF Crash
<1>5. ASSUME UNCHANGED codeVars
      PROVE  IInv'
  BY <1>5 DEF codeVars, IInv, CodesTyped, HeldOnce, AloneSeesAll, Taken
<1> QED
  BY <1>1, <1>2, <1>3, <1>4, <1>5 DEF Next, RemoveItem, vars, codeVars

\* A code quoted back names one row of an organization, however creations overlap
\* and however often requests give up, fail or die (_allocate_code in
\* work/service.py and delegation/service.py over the unique constraints).
THEOREM CodesNameOneRowHolds == Spec => []CodesNameOneRow
<1>1. IInv => CodesNameOneRow
  BY DEF IInv, HeldOnce, CodesNameOneRow
<1> QED
  BY <1>1, InitIInv, StepKeepsIInv, PTL DEF Spec

\* A request that nothing overlaps, an approval of many tasks included, is never
\* refused by the constraint and never waits for it: the look-up sees the rows the
\* request itself has flushed (_allocate_code, work/service.py:116).
THEOREM AloneNeverRefusedHolds == Spec => []AloneNeverRefused
<1>1. IInv => AloneNeverRefused
  <2> SUFFICES ASSUME IInv, NEW r \in Requests, req[r].alone
               PROVE  ~ Refused(r) /\ ~ Waits(r)
    BY DEF AloneNeverRefused
  <2>1. ~ Refused(r)
    BY DEF Refused, TableTakes, IInv, AloneSeesAll
  <2>2. ~ Waits(r)
    BY DEF Waits, WaitsFor, IInv, AloneSeesAll, HeldOnce
  <2> QED
    BY <2>1, <2>2
<1> QED
  BY <1>1, InitIInv, StepKeepsIInv, PTL DEF Spec

-----------------------------------------------------------------------------
(***************************************************************************)
(* The order of a plan's items.                                            *)
(***************************************************************************)

\* What was seen stays below what was read of it, and below the item made from it.
SeenBefore ==
    /\ \A i \in Items : \A j \in item[i].saw :
          item[j].state # "new" /\ item[j].order < item[i].order
    /\ \A r \in Requests : \A j \in read[r].saw :
          item[j].state # "new" /\ item[j].order < read[r].order

\* One number bounds the orders of all items, so that there is a highest.
OrdersBounded == \E n \in Nat : \A i \in Items : item[i].order <= n

OrdersTyped ==
    /\ item \in [Items -> ItemRow]
    /\ read \in [Requests -> Reading]

OInv == OrdersTyped /\ OrdersBounded /\ SeenBefore

-----------------------------------------------------------------------------
\* A set of numbers that is bounded has a greatest one.
LEMMA BoundedHasMax ==
    ASSUME NEW S \in SUBSET Nat, S # {}, NEW n \in Nat, \A x \in S : x <= n
    PROVE  Max(S) \in S /\ \A x \in S : x <= Max(S)
<1> DEFINE Bounds == {b \in Nat : \A x \in S : x <= b}
           R == {pair \in Nat \X Nat : pair[1] < pair[2]}
<1>1. PICK b \in Bounds : \A c \in Bounds : <<c, b>> \notin R
  <2>1. Bounds \subseteq Nat /\ Bounds # {}
    OBVIOUS
  <2>2. IsWellFoundedOn(R, Nat)
    BY NatLessThanWellFounded DEF OpToRel
  <2> HIDE DEF Bounds, R
  <2> QED
    BY <2>1, <2>2, WFMin
<1>2. \A c \in Bounds : ~ (c < b)
  BY <1>1
<1>3. b \in S
  <2> SUFFICES ASSUME b \notin S PROVE FALSE
    OBVIOUS
  <2>1. \A x \in S : x \in Nat /\ x < b
    OBVIOUS
  <2>2. b \in Nat /\ b > 0
    <3>1. PICK x \in S : x \in Nat /\ x < b
      BY <2>1
    <3>2. b \in Nat
      BY <1>1
    <3> QED
      BY <3>1, <3>2
  <2>3. b - 1 \in Nat /\ \A x \in S : x <= b - 1
    BY <2>1, <2>2
  <2> QED
    BY <1>2, <2>2, <2>3
<1>4. \A x \in S : b >= x
  OBVIOUS
<1>5. Max(S) \in S /\ \A x \in S : Max(S) >= x
  BY <1>3, <1>4 DEF Max
<1> QED
  BY <1>5

\* _next_sort_order gives a number above those of all items there are.
LEMMA NextIsAbove ==
    ASSUME OInv
    PROVE  NextSortOrder \in Nat /\ \A i \in Live : item[i].order < NextSortOrder
<1>1. CASE Live = {}
  BY <1>1 DEF NextSortOrder
<1>2. CASE Live # {}
  <2> DEFINE Orders == {item[i].order : i \in Live}
  <2>1. PICK n \in Nat : \A i \in Items : item[i].order <= n
    BY DEF OInv, OrdersBounded
  <2>2. Orders \in SUBSET Nat /\ Orders # {} /\ \A x \in Orders : x <= n
    BY <1>2, <2>1 DEF OInv, OrdersTyped, ItemRow, Live
  <2>3. \A i \in Live : item[i].order \in Orders
    OBVIOUS
  <2>4. NextSortOrder = Max(Orders) + 1
    BY <1>2 DEF NextSortOrder
  <2> HIDE DEF Orders
  <2>5. Max(Orders) \in Orders /\ \A x \in Orders : x <= Max(Orders)
    BY <2>1, <2>2, BoundedHasMax
  <2>6. PICK top \in Nat : top = Max(Orders)
    BY <2>2, <2>5
  <2>7. NextSortOrder = top + 1
    BY <2>4, <2>6
  <2>8. \A i \in Live : item[i].order \in Nat /\ item[i].order <= top
    BY <2>2, <2>3, <2>5, <2>6
  <2>9. \A i \in Live : item[i].order < top + 1
    BY <2>8
  <2> QED
    BY <2>7, <2>9
<1> QED
  BY <1>1, <1>2

LEMMA ReadHighestKeepsOInv ==
    ASSUME OInv, NEW r \in Requests, ReadHighest(r)
    PROVE  OInv'
<1>1. PICK reading : reading = [order |-> NextSortOrder, saw |-> Live]
  OBVIOUS
<1>2. read' = [read EXCEPT ![r] = reading] /\ UNCHANGED item
  BY <1>1 DEF ReadHighest
<1>3. /\ reading \in Reading
      /\ \A j \in reading.saw : item[j].state # "new" /\ item[j].order < reading.order
  BY <1>1, NextIsAbove DEF Reading, Live
<1>4. \A q \in Requests : read'[q] = IF q = r THEN reading ELSE read[q]
  BY <1>2 DEF OInv, OrdersTyped
<1>5. OrdersTyped'
  BY <1>2, <1>3 DEF OInv, OrdersTyped
<1>6. OrdersBounded'
  BY <1>2 DEF OInv, OrdersBounded
<1>7. SeenBefore'
  BY <1>2, <1>3, <1>4 DEF OInv, SeenBefore
<1> QED
  BY <1>5, <1>6, <1>7 DEF OInv

\* A request that ends forgets what it read.
LEMMA ForgettingKeepsOInv ==
    ASSUME OInv, NEW r \in Requests, read' = [read EXCEPT ![r] = NothingRead], UNCHANGED item
    PROVE  OInv'
<1>1. NothingRead \in Reading /\ NothingRead.saw = {}
  BY DEF NothingRead, Reading
<1>2. \A q \in Requests : read'[q] = IF q = r THEN NothingRead ELSE read[q]
  BY DEF OInv, OrdersTyped
<1> HIDE DEF NothingRead
<1>3. OrdersTyped'
  BY <1>1 DEF OInv, OrdersTyped
<1>4. OrdersBounded'
  BY DEF OInv, OrdersBounded
<1>5. SeenBefore'
  BY <1>1, <1>2 DEF OInv, SeenBefore
<1> QED
  BY <1>3, <1>4, <1>5 DEF OInv

\* The new item comes after what its request saw, and nobody has seen it.
LEMMA CommitItemKeepsOInv ==
    ASSUME OInv, NEW r \in Requests, NEW i \in Items, CommitItem(r, i)
    PROVE  OInv'
<1>1. PICK row : row = [state |-> "live", order |-> read[r].order, saw |-> read[r].saw]
  OBVIOUS
<1>2. /\ item' = [item EXCEPT ![i] = row] /\ item[i].state = "new"
      /\ read' = [read EXCEPT ![r] = NothingRead]
  BY <1>1 DEF CommitItem
<1>3. /\ NothingRead \in Reading /\ NothingRead.saw = {}
      /\ row \in ItemRow /\ row.state # "new"
      /\ row.order = read[r].order /\ row.saw = read[r].saw
  BY <1>1 DEF OInv, OrdersTyped, NothingRead, Reading, ItemRow
<1> HIDE DEF NothingRead
<1>4. /\ \A k \in Items : item'[k] = IF k = i THEN row ELSE item[k]
      /\ \A q \in Requests : read'[q] = IF q = r THEN NothingRead ELSE read[q]
  BY <1>2 DEF OInv, OrdersTyped
<1>5. OrdersTyped'
  BY <1>2, <1>3 DEF OInv, OrdersTyped
<1>6. OrdersBounded'
  <2>1. PICK n \in Nat : \A k \in Items : item[k].order <= n
    BY DEF OInv, OrdersBounded
  <2>2. row.order \in Nat /\ \A k \in Items : item[k].order \in Nat
    BY <1>3 DEF OInv, OrdersTyped, ItemRow
  <2>3. n + row.order \in Nat /\ \A k \in Items : item'[k].order <= n + row.order
    BY <1>4, <2>1, <2>2
  <2> QED
    BY <2>3 DEF OrdersBounded
<1>7. /\ \A k \in Items : item[k].saw \subseteq Items /\ i \notin item[k].saw
      /\ \A q \in Requests : read[q].saw \subseteq Items /\ i \notin read[q].saw
  BY <1>2 DEF OInv, OrdersTyped, SeenBefore, ItemRow, Reading
<1>8. SeenBefore'
  <2>1. ASSUME NEW k \in Items, NEW j \in item'[k].saw
        PROVE  item'[j].state # "new" /\ item'[j].order < item'[k].order
    BY <1>3, <1>4, <1>7 DEF OInv, SeenBefore
  <2>2. ASSUME NEW q \in Requests, NEW j \in read'[q].saw
        PROVE  item'[j].state # "new" /\ item'[j].order < read'[q].order
    BY <1>3, <1>4, <1>7 DEF OInv, SeenBefore
  <2> QED
    BY <2>1, <2>2 DEF SeenBefore
<1> QED
  BY <1>5, <1>6, <1>8 DEF OInv

\* An item removed keeps its order.
LEMMA RemoveItemKeepsOInv ==
    ASSUME OInv, NEW i \in Items, RemoveItem(i)
    PROVE  OInv'
<1>1. item' = [item EXCEPT ![i].state = "removed"] /\ UNCHANGED read
  BY DEF RemoveItem
<1>2. \A k \in Items : /\ item'[k] \in ItemRow
                       /\ item'[k].order = item[k].order /\ item'[k].saw = item[k].saw
                       /\ item[k].state # "new" => item'[k].state # "new"
  BY <1>1 DEF OInv, OrdersTyped, ItemRow
<1>3. OrdersTyped'
  BY <1>1, <1>2 DEF OInv, OrdersTyped
<1>4. OrdersBounded'
  BY <1>2 DEF OInv, OrdersBounded
<1>5. /\ \A k \in Items : item[k].saw \subseteq Items
      /\ \A q \in Requests : read[q].saw \subseteq Items
  BY DEF OInv, OrdersTyped, ItemRow, Reading
<1>6. SeenBefore'
  BY <1>1, <1>2, <1>5 DEF OInv, SeenBefore
<1> QED
  BY <1>3, <1>4, <1>6 DEF OInv

LEMMA OthersKeepOInv ==
    ASSUME OInv, UNCHANGED itemVars
    PROVE  OInv'
BY DEF OInv, OrdersTyped, OrdersBounded, SeenBefore, itemVars

LEMMA StepKeepsOInv == OInv /\ [Next]_vars => OInv'
<1> SUFFICES ASSUME OInv, [Next]_vars PROVE OInv'
  OBVIOUS
<1>1. ASSUME NEW r \in Requests, (\E n \in Sizes : CreateRows(r, n)) \/ ReadHighest(r) \/ Crash(r)
      PROVE  OInv'
  BY <1>1, OthersKeepOInv, ReadHighestKeepsOInv, ForgettingKeepsOInv DEF CreateRows, Crash
<1>2. ASSUME NEW r \in Requests, Serve(r)
      PROVE  OInv'
  BY <1>2, OthersKeepOInv, CommitItemKeepsOInv
     DEF Serve, Draw, GiveUp, Insert, Fail, CommitRows
<1>3. ASSUME NEW i \in Items, RemoveItem(i)
      PROVE  OInv'
  BY <1>3, RemoveItemKeepsOInv
<1>4. CASE UNCHANGED vars
  BY <1>4, OthersKeepOInv DEF vars, itemVars
<1> QED
  BY <1>1, <1>2, <1>3, <1>4 DEF Next

LEMMA OInvHolds == Spec => []OInv
<1>1. Init => OInv
  <2> SUFFICES ASSUME Init PROVE OInv
    OBVIOUS
  <2>1. \A i \in Items : item[i] = NoItemRow
    BY DEF Init
  <2>2. NoItemRow \in ItemRow /\ NoItemRow.order = 0 /\ NoItemRow.saw = {}
    BY DEF NoItemRow, ItemRow
  <2>3. NothingRead \in Reading /\ NothingRead.saw = {}
    BY DEF NothingRead, Reading
  <2> HIDE DEF NoItemRow, NothingRead
  <2>4. OrdersTyped
    BY <2>2, <2>3 DEF Init, OrdersTyped
  <2>5. OrdersBounded
    BY <2>1, <2>2 DEF OrdersBounded
  <2>6. SeenBefore
    BY <2>1, <2>2, <2>3 DEF Init, SeenBefore
  <2> QED
    BY <2>4, <2>5, <2>6 DEF OInv
<1> QED
  BY <1>1, StepKeepsOInv, PTL DEF Spec

\* An item comes after every item of the plan that its author could see, however
\* additions and removals overlap (_next_sort_order and list_items,
\* delegation/service.py): two additions at once may tie, and neither saw the other.
THEOREM AddedLastHolds == Spec => []AddedLast
<1>1. OInv => AddedLast
  BY DEF OInv, SeenBefore, AddedLast, Live
<1> QED
  BY <1>1, OInvHolds, PTL

-----------------------------------------------------------------------------
\* Codes and orders share no table, so their invariants together are inductive,
\* and whatever the requests do, rows, items and requests keep their types.
THEOREM AllocationTypeCorrect == Spec => []TypeOK
<1>1. Init => load \in {"rows", "items"}
  BY DEF Init
<1>2. load \in {"rows", "items"} /\ [Next]_vars => (load \in {"rows", "items"})'
  BY ZenonT(30) DEF Next, Serve, vars, CreateRows, ReadHighest, Draw, GiveUp, Insert, Fail, CommitRows,
         CommitItem, Crash, RemoveItem, Begin
<1>3. Spec => [](load \in {"rows", "items"})
  BY <1>1, <1>2, PTL DEF Spec
<1>4. load \in {"rows", "items"} /\ IInv /\ OInv => TypeOK
  BY DEF IInv, CodesTyped, OInv, OrdersTyped, TypeOK
<1>5. Spec => []IInv
  BY InitIInv, StepKeepsIInv, PTL DEF Spec
<1> QED
  BY <1>3, <1>4, <1>5, OInvHolds, PTL
=============================================================================
