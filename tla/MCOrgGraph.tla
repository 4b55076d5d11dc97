----------------------------- MODULE MCOrgGraph -----------------------------
(***************************************************************************)
(* Every hierarchy over a small set of members, cyclic ones included: the  *)
(* variable is the memberships table, and a step gives one member another  *)
(* manager.  No endpoint does that today; it is what an administrator with *)
(* database access, or a later release, may do between two queries.        *)
(***************************************************************************)
EXTENDS OrgGraph, FiniteSets

VARIABLE manager

\* The same pointers read as parents of work items, two of which share a title.
Places == CHOOSE f \in [Members -> 0..Cardinality(Members)] :
              \E a, b \in Members : \A m, x \in Members :
                  f[m] = f[x] <=> m = x \/ {m, x} = {a, b}

Tree == INSTANCE WorkTree WITH
    WorkIds <- Members, NoWork <- NoMember, TreeDepth <- MaxDepth, Title <- Places

Init == manager \in Hierarchies

Reassign(m, x) == x # m /\ manager' = [manager EXCEPT ![m] = x]

Next == \E m \in Members, x \in Members \union {NoMember} : Reassign(m, x)

Spec == Init /\ [][Next]_manager

-----------------------------------------------------------------------------
\* Walking up by the pointers alone, with no path array and no limit: k steps
\* from m, or NoMember once the walk has left the table.
Above(m, k) ==
    LET above[i \in 0..k] ==
            IF i = 0 THEN m
                     ELSE IF above[i - 1] = NoMember THEN NoMember
                                                     ELSE manager[above[i - 1]]
    IN  above[k]

\* The downward and the upward query agree: x is found below m exactly when m
\* is found above x, at the same depth, in cyclic hierarchies and beyond the
\* depth limit too.  The permission engine asks downward (scope_ids) and the
\* approver lookup asks upward (ancestors).
QueriesAgree ==
    \A m, x \in Members : \A d \in 1..(MaxDepth + 1) :
        [member |-> x, depth |-> d] \in Descendants(manager, m)
            <=> [member |-> m, depth |-> d] \in Ancestors(manager, x)

\* A query reaches exactly the members within MaxDepth steps, each once and at
\* its shortest distance, never the member asked about, whatever cycles the pointers form.
ReachedOnce ==
    \A m \in Members :
        LET found == Ancestors(manager, m)
        IN  /\ \A r, q \in found : r.member = q.member => r = q
            /\ \A x \in Members : \A d \in 1..(MaxDepth + 1) :
                  [member |-> x, depth |-> d] \in found
                      <=> /\ x # m
                          /\ d <= MaxDepth
                          /\ Above(m, d) = x
                          /\ \A k \in 1..(d - 1) : Above(m, k) # x

\* The first row of the chain, which becomes the approver, is IsNearest, and a
\* member without such a row has an empty chain.
NearestIsFirst ==
    \A m \in Members :
        LET found == Ancestors(manager, m)
        IN  /\ \A x \in Members : IsNearest(manager, m, x)
                   <=> \E r \in found : /\ r.member = x
                                        /\ \A q \in found : r.depth <= q.depth
            /\ (found = {}) <=> (manager[m] = NoMember)

\* The same for work items: a branch lists exactly the items from which its root
\* is at most MaxDepth parents away, each once, the root first and every other
\* item after its parent and one deeper, so that a client can build the tree as
\* it reads; and the breadcrumb above an item names the root at that depth.
ListedUnderItsParent ==
    \A root \in Members :
        LET nodes == Tree!Subtree(manager, root)
            top == [item |-> root, depth |-> 0]
        IN  /\ top \in nodes
            /\ \A x \in Members :
                  (\E n \in nodes : n.item = x) <=> \E k \in 0..MaxDepth : Above(x, k) = root
            /\ \A n \in nodes \ {top} :
                  /\ Tree!ListedBefore(top, n)
                  /\ \A q \in nodes : q.item = n.item => q = n
                  /\ \E p \in nodes : /\ p.item = manager[n.item]
                                       /\ p.depth + 1 = n.depth
                                       /\ Tree!ListedBefore(p, n)
                  /\ [item |-> root, depth |-> n.depth]
                        \in Tree!AncestorNodes(manager, n.item)

\* Within the depth limit, which rules cycles out too, scopes nest: a manager
\* covers whatever the people in its scope cover.  This is what lets an approver
\* up the chain see everything the plan's author could.
Shallow == \A m \in Members : Above(m, MaxDepth + 1) = NoMember

ScopesNest ==
    Shallow =>
        \A m \in Members : \A x \in ScopeIds(manager, m) :
            /\ ScopeIds(manager, x) \subseteq ScopeIds(manager, m)
            /\ x # m => ~ IsAncestor(manager, x, m)
=============================================================================
