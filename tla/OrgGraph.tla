------------------------------ MODULE OrgGraph ------------------------------
(***************************************************************************)
(* Hierarchy queries over the memberships table                            *)
(* (app/domain/organizations/graph.py).                                    *)
(*                                                                         *)
(* The table is the function mgr, from each member to the member its       *)
(* manager_membership_id names, or NoMember.  The schema keeps a member    *)
(* from being its own manager and keeps out no longer cycle, so the        *)
(* queries are defined for every such function.                            *)
(*                                                                         *)
(* A recursive CTE is a sequence of levels.  Level d holds the rows at     *)
(* depth d, each row standing for its path column: the members met on the  *)
(* way from the root, the row's own id last.                               *)
(***************************************************************************)
EXTENDS Naturals, SequencesExt

CONSTANTS
    Members,    \* memberships
    NoMember,   \* SQL NULL
    MaxDepth    \* MAX_DEPTH, 32 in the code

ASSUME NoMemberAssumption == NoMember \notin Members
ASSUME MaxDepthAssumption == MaxDepth \in Nat \ {0}

\* The check manager_is_not_self.
Hierarchies == {mgr \in [Members -> Members \union {NoMember}] : \A m \in Members : mgr[m] # m}

\* Slip: no path guard.
DownUnguarded(mgr, path) == {Append(path, m) : m \in {c \in Members : mgr[c] = Last(path)}}

\* One step of the recursive term of _DESCENDANTS: the children of the last
\* member of a path that the path has not met yet.
Down(mgr, path) ==
    {Append(path, m) : m \in {c \in Members : /\ mgr[c] = Last(path)
                                              /\ c \notin Range(path)}}

\* Slip: the path guard compares with the last member only.
UpUnlessLast(mgr, path) ==
    {Append(path, m) : m \in {a \in Members : mgr[Last(path)] = a /\ a # Last(path)}}

\* One step of the recursive term of _ANCESTORS.
Up(mgr, path) ==
    {Append(path, m) : m \in {a \in Members : /\ mgr[Last(path)] = a
                                              /\ a \notin Range(path)}}

TreeRows(mgr, root) ==
    LET level[d \in 0..MaxDepth] ==
            IF d = 0 THEN {<<root>>}
                     ELSE UNION {Down(mgr, path) : path \in level[d - 1]}
    IN  UNION {level[d] : d \in 1..MaxDepth}

\* Slip: the depth filter is off by one and drops the manager.
ChainRowsPastFirst(mgr, root) ==
    LET level[d \in 0..MaxDepth] ==
            IF d = 0 THEN {<<root>>}
                     ELSE UNION {Up(mgr, path) : path \in level[d - 1]}
    IN  UNION {level[d] : d \in 2..MaxDepth}

ChainRows(mgr, root) ==
    LET level[d \in 0..MaxDepth] ==
            IF d = 0 THEN {<<root>>}
                     ELSE UNION {Up(mgr, path) : path \in level[d - 1]}
    IN  UNION {level[d] : d \in 1..MaxDepth}

\* What the queries return: who was reached, and at which depth.
Related(rows) == {[member |-> Last(path), depth |-> Len(path) - 1] : path \in rows}

Descendants(mgr, m) == Related(TreeRows(mgr, m))

Ancestors(mgr, m) == Related(ChainRows(mgr, m))

DirectReports(mgr, m) == {r \in Members : mgr[r] = m}

\* Slip: the two members the wrong way round.
IsAncestorSwapped(mgr, above, below) ==
    /\ above # below
    /\ below \in {r.member : r \in Ancestors(mgr, above)}

IsAncestor(mgr, above, below) ==
    /\ above # below
    /\ above \in {r.member : r \in Ancestors(mgr, below)}

ScopeIds(mgr, m) == {m} \union {r.member : r \in Descendants(mgr, m)}

\* Whether x is the first row ORDER BY depth of the chain above m: the query's
\* depth-1 row.  NearestIsFirst in MCOrgGraph relates it to Ancestors.
IsNearest(mgr, m, x) == x = mgr[m]
=============================================================================
