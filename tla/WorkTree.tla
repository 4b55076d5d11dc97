------------------------------ MODULE WorkTree ------------------------------
(***************************************************************************)
(* Reading the work tree (app/domain/work/tree.py and GET                  *)
(* /work-items/{id}/tree).                                                 *)
(*                                                                         *)
(* The queries are those of the organization's hierarchy over another      *)
(* table: parent is work_items.parent_id, and OrgGraph's levels of paths   *)
(* are read as branches.  Unlike there, a branch includes its root, and it *)
(* is listed by depth and, within a depth, by title.                       *)
(***************************************************************************)
EXTENDS Naturals

CONSTANTS
    WorkIds, NoWork,
    TreeDepth,   \* MAX_DEPTH, 16 in the code
    Title        \* the place of each item's title in the alphabet, a number

Table == INSTANCE OrgGraph WITH
    Members <- WorkIds, NoMember <- NoWork, MaxDepth <- TreeDepth

Nodes(found) == {[item |-> r.member, depth |-> r.depth] : r \in found}

\* Slip: only what lies beneath, as in OrgGraph.descendants.
SubtreeWithoutRoot(parent, root) == Nodes(Table!Descendants(parent, root))

Subtree(parent, root) ==
    {[item |-> root, depth |-> 0]} \union Nodes(Table!Descendants(parent, root))

AncestorNodes(parent, x) == Nodes(Table!Ancestors(parent, x))

\* Slip: the whole branch in alphabetical order.
ListedBeforeByTitle(a, b) == Title[a.item] < Title[b.item]

\* The sort of _load.
ListedBefore(a, b) ==
    \/ a.depth < b.depth
    \/ a.depth = b.depth /\ Title[a.item] < Title[b.item]
=============================================================================
