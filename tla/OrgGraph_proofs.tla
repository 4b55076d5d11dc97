--------------------------- MODULE OrgGraph_proofs ---------------------------
(***************************************************************************)
(* What the hierarchy's queries and the work tree's return, for any table  *)
(* of managers, any number of members, finite or not, and any depth limit. *)
(*                                                                         *)
(* The levels of a recursive query are what its recursive definition makes *)
(* them: the first part replaces it by the walks that meet nobody twice    *)
(* (ChainRowsAre, TreeRowsAre).  A walk down is one up read backwards      *)
(* (Backwards), and a walk up is determined by where it starts (Above), so *)
(* that all that is asked of the queries becomes a question about Above.   *)
(***************************************************************************)
EXTENDS MCOrgGraph, SequenceTheorems, WellFoundedInduction, TLAPS

USE MaxDepthAssumption, NoMemberAssumption

\* The rows at depth d of the upward query, without the recursion: the walks of
\* d steps along the manager pointers that meet nobody twice.
Chains(mgr, root, d) ==
    {p \in [1..(d + 1) -> Members] :
        /\ p[1] = root
        /\ \A i \in 1..d : mgr[p[i]] = p[i + 1]
        /\ \A i, j \in 1..(d + 1) : p[i] = p[j] => i = j}

\* The same for the downward query.
Branches(mgr, root, d) ==
    {p \in [1..(d + 1) -> Members] :
        /\ p[1] = root
        /\ \A i \in 1..d : mgr[p[i + 1]] = p[i]
        /\ \A i, j \in 1..(d + 1) : p[i] = p[j] => i = j}

-----------------------------------------------------------------------------
\* A set of numbers that is not empty has a least one: what every induction
\* below rests on.
LEMMA HasLeast ==
    ASSUME NEW S \in SUBSET Nat, S # {}
    PROVE  \E n \in S : \A k \in S : n <= k
<1> DEFINE R == {pair \in Nat \X Nat : pair[1] < pair[2]}
<1>1. PICK n \in S : \A k \in S : <<k, n>> \notin R
  <2>1. IsWellFoundedOn(R, Nat)
    BY NatLessThanWellFounded DEF OpToRel
  <2> HIDE DEF R
  <2> QED
    BY <2>1, WFMin
<1>2. ASSUME NEW k \in S PROVE n <= k
  <2>1. k \in Nat /\ n \in Nat /\ ~ (k < n)
    BY <1>1
  <2> QED
    BY <2>1
<1> QED
  BY <1>2

\* Adding a member to a walk.
LEMMA Longer ==
    ASSUME NEW d \in Nat, NEW p \in [1..(d + 1) -> Members], NEW m \in Members
    PROVE  /\ Last(p) = p[d + 1]
           /\ Range(p) = {p[i] : i \in 1..(d + 1)}
           /\ Append(p, m) \in [1..(d + 2) -> Members]
           /\ Append(p, m) = [i \in 1..(d + 2) |-> IF i = d + 2 THEN m ELSE p[i]]
<1>1. p \in Seq(Members) /\ Len(p) = d + 1
  OBVIOUS
<1>2. Append(p, m) = [i \in 1..(d + 2) |-> IF i = d + 2 THEN m ELSE p[i]]
  <2>1. /\ Append(p, m) \in Seq(Members)
        /\ Len(Append(p, m)) = d + 2
        /\ \A i \in 1..(d + 2) : Append(p, m)[i] = IF i = d + 2 THEN m ELSE p[i]
    BY <1>1
  <2>2. Append(p, m) \in [1..(d + 2) -> Members]
    <3>1. Append(p, m) \in [1..Len(Append(p, m)) -> Members]
      BY <2>1, LenProperties
    <3> QED
      BY <2>1, <3>1
  <2> QED
    BY <2>1, <2>2
<1> QED
  BY <1>1, <1>2 DEF Last, Range

\* A walk of d + 2 members is one of d + 1 and one more.
LEMMA Shorter ==
    ASSUME NEW d \in Nat, NEW p \in [1..(d + 2) -> Members]
    PROVE  \E q \in [1..(d + 1) -> Members] :
              p = [i \in 1..(d + 2) |-> IF i = d + 2 THEN p[d + 2] ELSE q[i]]
<1> DEFINE q == [i \in 1..(d + 1) |-> p[i]]
<1>1. q \in [1..(d + 1) -> Members]
  OBVIOUS
<1>2. p = [i \in 1..(d + 2) |-> IF i = d + 2 THEN p[d + 2] ELSE q[i]]
  OBVIOUS
<1> QED
  BY <1>1, <1>2

\* One level of the upward query is made from the one before.
LEMMA NextChains ==
    ASSUME NEW mgr, NEW root \in Members, NEW d \in Nat
    PROVE  UNION {Up(mgr, p) : p \in Chains(mgr, root, d)} = Chains(mgr, root, d + 1)
<1>1. ASSUME NEW p \in Chains(mgr, root, d), NEW q \in Up(mgr, p)
      PROVE  q \in Chains(mgr, root, d + 1)
  <2>1. p \in [1..(d + 1) -> Members]
    BY DEF Chains
  <2>2. PICK a \in Members : /\ mgr[p[d + 1]] = a
                              /\ a \notin {p[i] : i \in 1..(d + 1)}
                              /\ q = Append(p, a)
    BY <2>1, Longer DEF Up
  <2>3. /\ q \in [1..(d + 2) -> Members]
        /\ q = [i \in 1..(d + 2) |-> IF i = d + 2 THEN a ELSE p[i]]
    BY <2>1, <2>2, Longer
  <2>4. q[1] = root
    BY <2>3 DEF Chains
  <2>5. \A i \in 1..(d + 1) : mgr[q[i]] = q[i + 1]
    BY <2>2, <2>3 DEF Chains
  <2>6. \A i, j \in 1..(d + 2) : q[i] = q[j] => i = j
    BY <2>2, <2>3 DEF Chains
  <2> QED
    BY <2>3, <2>4, <2>5, <2>6 DEF Chains
<1>2. ASSUME NEW q \in Chains(mgr, root, d + 1)
      PROVE  \E p \in Chains(mgr, root, d) : q \in Up(mgr, p)
  <2>1. /\ q \in [1..(d + 2) -> Members]
        /\ q[1] = root
        /\ \A i \in 1..(d + 1) : mgr[q[i]] = q[i + 1]
        /\ \A i, j \in 1..(d + 2) : q[i] = q[j] => i = j
    BY DEF Chains
  <2>2. PICK p \in [1..(d + 1) -> Members] :
             q = [i \in 1..(d + 2) |-> IF i = d + 2 THEN q[d + 2] ELSE p[i]]
    BY <2>1, Shorter
  <2>3. \A i \in 1..(d + 1) : p[i] = q[i]
    BY <2>2
  <2>4. p \in Chains(mgr, root, d)
    BY <2>1, <2>3 DEF Chains
  <2>5. q[d + 2] \in Members /\ q = Append(p, q[d + 2])
    BY <2>1, <2>2, Longer
  <2>6. mgr[Last(p)] = q[d + 2] /\ q[d + 2] \notin Range(p)
    BY <2>1, <2>3, Longer
  <2> QED
    BY <2>4, <2>5, <2>6 DEF Up
<1> QED
  BY <1>1, <1>2

\* The same for the downward query.
LEMMA NextBranches ==
    ASSUME NEW mgr, NEW root \in Members, NEW d \in Nat
    PROVE  UNION {Down(mgr, p) : p \in Branches(mgr, root, d)} = Branches(mgr, root, d + 1)
<1>1. ASSUME NEW p \in Branches(mgr, root, d), NEW q \in Down(mgr, p)
      PROVE  q \in Branches(mgr, root, d + 1)
  <2>1. p \in [1..(d + 1) -> Members]
    BY DEF Branches
  <2>2. PICK a \in Members : /\ mgr[a] = p[d + 1]
                              /\ a \notin {p[i] : i \in 1..(d + 1)}
                              /\ q = Append(p, a)
    BY <2>1, Longer DEF Down
  <2>3. /\ q \in [1..(d + 2) -> Members]
        /\ q = [i \in 1..(d + 2) |-> IF i = d + 2 THEN a ELSE p[i]]
    BY <2>1, <2>2, Longer
  <2>4. q[1] = root
    BY <2>3 DEF Branches
  <2>5. \A i \in 1..(d + 1) : mgr[q[i + 1]] = q[i]
    BY <2>2, <2>3, SMTT(30) DEF Branches
  <2>6. \A i, j \in 1..(d + 2) : q[i] = q[j] => i = j
    BY <2>2, <2>3 DEF Branches
  <2> QED
    BY <2>3, <2>4, <2>5, <2>6, SMTT(30) DEF Branches
<1>2. ASSUME NEW q \in Branches(mgr, root, d + 1)
      PROVE  \E p \in Branches(mgr, root, d) : q \in Down(mgr, p)
  <2>1. /\ q \in [1..(d + 2) -> Members]
        /\ q[1] = root
        /\ \A i \in 1..(d + 1) : mgr[q[i + 1]] = q[i]
        /\ \A i, j \in 1..(d + 2) : q[i] = q[j] => i = j
    BY DEF Branches
  <2>2. PICK p \in [1..(d + 1) -> Members] :
             q = [i \in 1..(d + 2) |-> IF i = d + 2 THEN q[d + 2] ELSE p[i]]
    BY <2>1, Shorter
  <2>3. \A i \in 1..(d + 1) : p[i] = q[i]
    BY <2>2
  <2>4. p \in Branches(mgr, root, d)
    BY <2>1, <2>3 DEF Branches
  <2>5. q[d + 2] \in Members /\ q = Append(p, q[d + 2])
    BY <2>1, <2>2, Longer
  <2>6. mgr[q[d + 2]] = Last(p) /\ q[d + 2] \notin Range(p)
    BY <2>1, <2>3, Longer, SMTT(30)
  <2> QED
    BY <2>4, <2>5, <2>6 DEF Down
<1> QED
  BY <1>1, <1>2
-----------------------------------------------------------------------------
\* What the recursive definitions of the two queries say of their levels.
UpLevels(mgr, root, level) ==
    level = [d \in 0..MaxDepth |->
                IF d = 0 THEN {<<root>>}
                         ELSE UNION {Up(mgr, p) : p \in level[d - 1]}]

DownLevels(mgr, root, level) ==
    level = [d \in 0..MaxDepth |->
                IF d = 0 THEN {<<root>>}
                         ELSE UNION {Down(mgr, p) : p \in level[d - 1]}]

\* The walk of no steps.
LEMMA FirstLevel ==
    ASSUME NEW mgr, NEW root \in Members
    PROVE  Chains(mgr, root, 0) = {<<root>>} /\ Branches(mgr, root, 0) = {<<root>>}
<1>1. \A p \in [1..1 -> Members] : p[1] = root => p = <<root>>
  OBVIOUS
<1>2. <<root>> \in [1..1 -> Members] /\ <<root>>[1] = root
  OBVIOUS
<1>3. ASSUME NEW p \in Chains(mgr, root, 0) PROVE p = <<root>>
  BY <1>1 DEF Chains
<1>4. ASSUME NEW p \in Branches(mgr, root, 0) PROVE p = <<root>>
  BY <1>1 DEF Branches
<1>5. <<root>> \in Chains(mgr, root, 0)
  BY <1>2 DEF Chains
<1>6. <<root>> \in Branches(mgr, root, 0)
  BY <1>2 DEF Branches
<1> QED
  BY <1>3, <1>4, <1>5, <1>6

\* The rows of the upward query are the walks of 1 to MaxDepth steps.
LEMMA ChainRowsAre ==
    ASSUME NEW mgr, NEW root \in Members
    PROVE  ChainRows(mgr, root) = UNION {Chains(mgr, root, d) : d \in 1..MaxDepth}
<1>1. \E level : UpLevels(mgr, root, level)
  <2> DEFINE level == [d \in 0..MaxDepth |-> Chains(mgr, root, d)]
  <2>1. ASSUME NEW d \in 0..MaxDepth
        PROVE  level[d] = IF d = 0 THEN {<<root>>}
                                   ELSE UNION {Up(mgr, p) : p \in level[d - 1]}
    <3>1. CASE d = 0
      BY <3>1, FirstLevel
    <3>2. CASE d # 0
      <4>1. PICK c \in 0..MaxDepth : c \in Nat /\ d = c + 1 /\ d - 1 = c
        BY <3>2
      <4>2. UNION {Up(mgr, p) : p \in Chains(mgr, root, c)} = Chains(mgr, root, c + 1)
        BY <4>1, NextChains
      <4> QED
        BY <3>2, <4>1, <4>2
    <3> QED
      BY <3>1, <3>2
  <2>2. level = [d \in 0..MaxDepth |->
                    IF d = 0 THEN {<<root>>}
                             ELSE UNION {Up(mgr, p) : p \in level[d - 1]}]
    BY <2>1
  <2> HIDE DEF level
  <2> QED
    BY <2>2 DEF UpLevels
<1>2. PICK level : level = CHOOSE g : UpLevels(mgr, root, g)
  OBVIOUS
<1>3. UpLevels(mgr, root, level)
  BY <1>1, <1>2, Zenon
<1>4. ChainRows(mgr, root) = UNION {level[d] : d \in 1..MaxDepth}
  BY <1>2, Zenon DEF ChainRows, UpLevels
<1>5. \A d \in 0..MaxDepth : level[d] = Chains(mgr, root, d)
  <2> DEFINE Wrong == {d \in 0..MaxDepth : level[d] # Chains(mgr, root, d)}
  <2> SUFFICES ASSUME Wrong # {} PROVE FALSE
    OBVIOUS
  <2>1. PICK d \in Wrong : \A k \in Wrong : d <= k
    <3>1. Wrong \in SUBSET Nat
      OBVIOUS
    <3> HIDE DEF Wrong
    <3> QED
      BY <3>1, HasLeast
  <2>2. d # 0
    BY <1>3, FirstLevel DEF UpLevels
  <2>3. d - 1 \in Nat /\ d - 1 \in 0..MaxDepth /\ d - 1 \notin Wrong /\ (d - 1) + 1 = d
    BY <2>1, <2>2
  <2>4. level[d - 1] = Chains(mgr, root, d - 1)
    BY <2>3
  <2>5. level[d] = UNION {Up(mgr, p) : p \in level[d - 1]}
    BY <1>3, <2>2 DEF UpLevels
  <2>6. level[d] = Chains(mgr, root, d)
    BY <2>3, <2>4, <2>5, NextChains
  <2> QED
    BY <2>6
<1> QED
  BY <1>4, <1>5

\* The rows of the downward query, likewise.
LEMMA TreeRowsAre ==
    ASSUME NEW mgr, NEW root \in Members
    PROVE  TreeRows(mgr, root) = UNION {Branches(mgr, root, d) : d \in 1..MaxDepth}
<1>1. \E level : DownLevels(mgr, root, level)
  <2> DEFINE level == [d \in 0..MaxDepth |-> Branches(mgr, root, d)]
  <2>1. ASSUME NEW d \in 0..MaxDepth
        PROVE  level[d] = IF d = 0 THEN {<<root>>}
                                   ELSE UNION {Down(mgr, p) : p \in level[d - 1]}
    <3>1. CASE d = 0
      BY <3>1, FirstLevel
    <3>2. CASE d # 0
      <4>1. PICK c \in 0..MaxDepth : c \in Nat /\ d = c + 1 /\ d - 1 = c
        BY <3>2
      <4>2. UNION {Down(mgr, p) : p \in Branches(mgr, root, c)} = Branches(mgr, root, c + 1)
        BY <4>1, NextBranches
      <4> QED
        BY <3>2, <4>1, <4>2
    <3> QED
      BY <3>1, <3>2
  <2>2. level = [d \in 0..MaxDepth |->
                    IF d = 0 THEN {<<root>>}
                             ELSE UNION {Down(mgr, p) : p \in level[d - 1]}]
    BY <2>1
  <2> HIDE DEF level
  <2> QED
    BY <2>2 DEF DownLevels
<1>2. PICK level : level = CHOOSE g : DownLevels(mgr, root, g)
  OBVIOUS
<1>3. DownLevels(mgr, root, level)
  BY <1>1, <1>2, Zenon
<1>4. TreeRows(mgr, root) = UNION {level[d] : d \in 1..MaxDepth}
  BY <1>2, Zenon DEF TreeRows, DownLevels
<1>5. \A d \in 0..MaxDepth : level[d] = Branches(mgr, root, d)
  <2> DEFINE Wrong == {d \in 0..MaxDepth : level[d] # Branches(mgr, root, d)}
  <2> SUFFICES ASSUME Wrong # {} PROVE FALSE
    OBVIOUS
  <2>1. PICK d \in Wrong : \A k \in Wrong : d <= k
    <3>1. Wrong \in SUBSET Nat
      OBVIOUS
    <3> HIDE DEF Wrong
    <3> QED
      BY <3>1, HasLeast
  <2>2. d # 0
    BY <1>3, FirstLevel DEF DownLevels
  <2>3. d - 1 \in Nat /\ d - 1 \in 0..MaxDepth /\ d - 1 \notin Wrong /\ (d - 1) + 1 = d
    BY <2>1, <2>2
  <2>4. level[d - 1] = Branches(mgr, root, d - 1)
    BY <2>3
  <2>5. level[d] = UNION {Down(mgr, p) : p \in level[d - 1]}
    BY <1>3, <2>2 DEF DownLevels
  <2>6. level[d] = Branches(mgr, root, d)
    BY <2>3, <2>4, <2>5, NextBranches
  <2> QED
    BY <2>6
<1> QED
  BY <1>4, <1>5
\* What the upward query returns: the ends of the walks, with their lengths.
LEMMA AncestorsAre ==
    ASSUME NEW mgr, NEW root \in Members, NEW r
    PROVE  r \in Ancestors(mgr, root)
              <=> \E d \in 1..MaxDepth : \E p \in Chains(mgr, root, d) :
                     r = [member |-> p[d + 1], depth |-> d]
<1>1. ASSUME NEW d \in 1..MaxDepth, NEW p \in Chains(mgr, root, d)
      PROVE  Last(p) = p[d + 1] /\ Len(p) - 1 = d
  <2>1. d \in Nat /\ p \in [1..(d + 1) -> Members]
    BY DEF Chains
  <2> QED
    BY <2>1, Longer
<1> QED
  BY <1>1, ChainRowsAre DEF Ancestors, Related

\* What the downward query returns.
LEMMA DescendantsAre ==
    ASSUME NEW mgr, NEW root \in Members, NEW r
    PROVE  r \in Descendants(mgr, root)
              <=> \E d \in 1..MaxDepth : \E p \in Branches(mgr, root, d) :
                     r = [member |-> p[d + 1], depth |-> d]
<1>1. ASSUME NEW d \in 1..MaxDepth, NEW p \in Branches(mgr, root, d)
      PROVE  Last(p) = p[d + 1] /\ Len(p) - 1 = d
  <2>1. d \in Nat /\ p \in [1..(d + 1) -> Members]
    BY DEF Branches
  <2> QED
    BY <2>1, Longer
<1> QED
  BY <1>1, TreeRowsAre DEF Descendants, Related

\* A walk down, read backwards, is a walk up.
LEMMA Backwards ==
    ASSUME NEW mgr, NEW m \in Members, NEW x \in Members, NEW d \in Nat
    PROVE  (\E p \in Branches(mgr, m, d) : p[d + 1] = x)
              <=> (\E p \in Chains(mgr, x, d) : p[d + 1] = m)
<1>1. ASSUME NEW p \in Branches(mgr, m, d), p[d + 1] = x
      PROVE  \E q \in Chains(mgr, x, d) : q[d + 1] = m
  <2> DEFINE q == [i \in 1..(d + 1) |-> p[d + 2 - i]]
  <2>1. \A i \in 1..(d + 1) : d + 2 - i \in 1..(d + 1)
    OBVIOUS
  <2>2. /\ p \in [1..(d + 1) -> Members]
        /\ p[1] = m
        /\ \A i \in 1..d : mgr[p[i + 1]] = p[i]
        /\ \A i, j \in 1..(d + 1) : p[i] = p[j] => i = j
    BY DEF Branches
  <2>3. q \in [1..(d + 1) -> Members] /\ q[1] = x /\ q[d + 1] = m
    BY <1>1, <2>1, <2>2
  <2>4. ASSUME NEW i \in 1..d PROVE mgr[q[i]] = q[i + 1]
    <3>1. /\ d + 1 - i \in 1..d /\ (d + 1 - i) + 1 = d + 2 - i
          /\ d + 2 - (i + 1) = d + 1 - i
          /\ i \in 1..(d + 1) /\ i + 1 \in 1..(d + 1)
      OBVIOUS
    <3>2. mgr[p[(d + 1 - i) + 1]] = p[d + 1 - i]
      BY <2>2, <3>1
    <3> QED
      BY <3>1, <3>2
  <2>5. ASSUME NEW i \in 1..(d + 1), NEW j \in 1..(d + 1), q[i] = q[j] PROVE i = j
    <3>1. d + 2 - i = d + 2 - j
      BY <2>1, <2>2, <2>5
    <3> QED
      BY <3>1
  <2>6. q \in Chains(mgr, x, d)
    <3> HIDE DEF q
    <3> QED
      BY <2>3, <2>4, <2>5 DEF Chains
  <2> QED
    BY <2>3, <2>6
<1>2. ASSUME NEW p \in Chains(mgr, x, d), p[d + 1] = m
      PROVE  \E q \in Branches(mgr, m, d) : q[d + 1] = x
  <2> DEFINE q == [i \in 1..(d + 1) |-> p[d + 2 - i]]
  <2>1. \A i \in 1..(d + 1) : d + 2 - i \in 1..(d + 1)
    OBVIOUS
  <2>2. /\ p \in [1..(d + 1) -> Members]
        /\ p[1] = x
        /\ \A i \in 1..d : mgr[p[i]] = p[i + 1]
        /\ \A i, j \in 1..(d + 1) : p[i] = p[j] => i = j
    BY DEF Chains
  <2>3. q \in [1..(d + 1) -> Members] /\ q[1] = m /\ q[d + 1] = x
    BY <1>2, <2>1, <2>2
  <2>4. ASSUME NEW i \in 1..d PROVE mgr[q[i + 1]] = q[i]
    <3>1. /\ d + 1 - i \in 1..d /\ (d + 1 - i) + 1 = d + 2 - i
          /\ d + 2 - (i + 1) = d + 1 - i
          /\ i \in 1..(d + 1) /\ i + 1 \in 1..(d + 1)
      OBVIOUS
    <3>2. mgr[p[d + 1 - i]] = p[(d + 1 - i) + 1]
      BY <2>2, <3>1
    <3> QED
      BY <3>1, <3>2
  <2>5. ASSUME NEW i \in 1..(d + 1), NEW j \in 1..(d + 1), q[i] = q[j] PROVE i = j
    <3>1. d + 2 - i = d + 2 - j
      BY <2>1, <2>2, <2>5
    <3> QED
      BY <3>1
  <2>6. q \in Branches(mgr, m, d)
    <3> HIDE DEF q
    <3> QED
      BY <2>3, <2>4, <2>5 DEF Branches
  <2> QED
    BY <2>3, <2>6
<1> QED
  BY <1>1, <1>2

\* The two queries say the same of two members.
LEMMA DownIsUp ==
    ASSUME NEW mgr, NEW m \in Members, NEW x \in Members, NEW d
    PROVE  [member |-> x, depth |-> d] \in Descendants(mgr, m)
              <=> [member |-> m, depth |-> d] \in Ancestors(mgr, x)
<1>1. [member |-> x, depth |-> d] \in Descendants(mgr, m)
         <=> d \in 1..MaxDepth /\ \E p \in Branches(mgr, m, d) : p[d + 1] = x
  BY DescendantsAre
<1>2. [member |-> m, depth |-> d] \in Ancestors(mgr, x)
         <=> d \in 1..MaxDepth /\ \E p \in Chains(mgr, x, d) : p[d + 1] = m
  BY AncestorsAre
<1>3. d \in 1..MaxDepth => d \in Nat
  OBVIOUS
<1> QED
  BY <1>1, <1>2, <1>3, Backwards

-----------------------------------------------------------------------------
\* What the recursive definition of Above says of its walk.
IsWalk(m, k, above) ==
    above = [i \in 0..k |->
                IF i = 0 THEN m
                         ELSE IF above[i - 1] = NoMember THEN NoMember
                                                         ELSE manager[above[i - 1]]]

\* There is one such walk.
LEMMA WalkExists ==
    ASSUME NEW m, NEW k \in Nat
    PROVE  \E above : IsWalk(m, k, above)
<1> DEFINE Wrong == {n \in Nat : ~ \E above : IsWalk(m, n, above)}
<1> SUFFICES ASSUME Wrong # {} PROVE FALSE
  OBVIOUS
<1>1. PICK n \in Wrong : \A j \in Wrong : n <= j
  <2>1. Wrong \in SUBSET Nat
    OBVIOUS
  <2> HIDE DEF Wrong
  <2> QED
    BY <2>1, HasLeast
<1>2. n # 0
  <2> DEFINE w == [i \in 0..0 |-> m]
  <2>1. w = [i \in 0..0 |-> IF i = 0 THEN m
                            ELSE IF w[i - 1] = NoMember THEN NoMember ELSE manager[w[i - 1]]]
    OBVIOUS
  <2> HIDE DEF w
  <2>2. IsWalk(m, 0, w)
    BY <2>1 DEF IsWalk
  <2> QED
    BY <1>1, <2>2
<1>3. n - 1 \in Nat /\ n - 1 \notin Wrong
  BY <1>1, <1>2
<1>4. PICK v : IsWalk(m, n - 1, v)
  BY <1>3
<1> DEFINE w == [i \in 0..n |-> IF i < n THEN v[i]
                                ELSE IF v[n - 1] = NoMember THEN NoMember ELSE manager[v[n - 1]]]
<1>5. ASSUME NEW i \in 0..n
      PROVE  w[i] = IF i = 0 THEN m
                    ELSE IF w[i - 1] = NoMember THEN NoMember ELSE manager[w[i - 1]]
  <2>1. CASE i = n
    <3>1. w[i - 1] = v[n - 1] /\ i # 0
      BY <1>2, <1>3, <2>1
    <3> QED
      BY <2>1, <3>1
  <2>2. CASE i # n
    <3>1. i \in 0..(n - 1) /\ w[i] = v[i] /\ (i # 0 => w[i - 1] = v[i - 1])
      BY <2>2
    <3>2. v[i] = IF i = 0 THEN m
                 ELSE IF v[i - 1] = NoMember THEN NoMember ELSE manager[v[i - 1]]
      BY <1>4, <3>1 DEF IsWalk
    <3> QED
      BY <3>1, <3>2
  <2> QED
    BY <2>1, <2>2
<1>6. w = [i \in 0..n |-> IF i = 0 THEN m
                          ELSE IF w[i - 1] = NoMember THEN NoMember ELSE manager[w[i - 1]]]
  BY <1>5
<1> HIDE DEF w
<1>7. IsWalk(m, n, w)
  BY <1>6 DEF IsWalk
<1> QED
  BY <1>1, <1>7

\* Two walks from one member agree as far as both go.
LEMMA WalksAgree ==
    ASSUME NEW m, NEW k \in Nat, NEW n \in Nat, NEW v, NEW w,
           IsWalk(m, k, v), IsWalk(m, n, w)
    PROVE  \A i \in 0..k : i \in 0..n => v[i] = w[i]
<1> DEFINE Wrong == {i \in 0..k : i \in 0..n /\ v[i] # w[i]}
<1> SUFFICES ASSUME Wrong # {} PROVE FALSE
  OBVIOUS
<1>1. PICK i \in Wrong : \A j \in Wrong : i <= j
  <2>1. Wrong \in SUBSET Nat
    OBVIOUS
  <2> HIDE DEF Wrong
  <2> QED
    BY <2>1, HasLeast
<1>2. i # 0
  BY DEF IsWalk
<1>3. i - 1 \in 0..k /\ i - 1 \in 0..n /\ i - 1 \notin Wrong
  BY <1>1, <1>2
<1>4. v[i - 1] = w[i - 1]
  BY <1>3
<1>5. /\ v[i] = IF v[i - 1] = NoMember THEN NoMember ELSE manager[v[i - 1]]
      /\ w[i] = IF w[i - 1] = NoMember THEN NoMember ELSE manager[w[i - 1]]
  BY <1>2 DEF IsWalk
<1> QED
  BY <1>4, <1>5

\* Above reads the walk.
LEMMA AboveReads ==
    ASSUME NEW m, NEW k \in Nat
    PROVE  \E w : IsWalk(m, k, w) /\ \A i \in 0..k : Above(m, i) = w[i]
<1>1. ASSUME NEW n \in Nat PROVE \E v : IsWalk(m, n, v) /\ Above(m, n) = v[n]
  <2>1. PICK v : v = CHOOSE g : IsWalk(m, n, g)
    OBVIOUS
  <2>2. \E g : IsWalk(m, n, g)
    BY WalkExists
  <2>3. IsWalk(m, n, v)
    BY <2>1, <2>2, Zenon
  <2>4. Above(m, n) = v[n]
    BY <2>1, Zenon DEF Above, IsWalk
  <2> QED
    BY <2>3, <2>4
<1>2. PICK w : IsWalk(m, k, w)
  BY WalkExists
<1>3. ASSUME NEW i \in 0..k PROVE Above(m, i) = w[i]
  <2>1. PICK v : IsWalk(m, i, v) /\ Above(m, i) = v[i]
    BY <1>1
  <2>2. i \in Nat /\ i \in 0..i
    OBVIOUS
  <2>3. v[i] = w[i]
    BY <1>2, <2>1, <2>2, WalksAgree
  <2> QED
    BY <2>1, <2>3
<1> QED
  BY <1>2, <1>3

\* The equations of Above, which the rest uses in place of its definition.
LEMMA AboveIs ==
    ASSUME NEW m
    PROVE  /\ Above(m, 0) = m
           /\ \A k \in Nat : Above(m, k + 1) = IF Above(m, k) = NoMember THEN NoMember
                                                         ELSE manager[Above(m, k)]
<1>1. Above(m, 0) = m
  <2>1. PICK w : IsWalk(m, 0, w) /\ \A i \in 0..0 : Above(m, i) = w[i]
    BY AboveReads
  <2> QED
    BY <2>1 DEF IsWalk
<1>2. ASSUME NEW k \in Nat
      PROVE  Above(m, k + 1) = IF Above(m, k) = NoMember THEN NoMember
                                                         ELSE manager[Above(m, k)]
  <2>1. PICK w : IsWalk(m, k + 1, w) /\ \A i \in 0..(k + 1) : Above(m, i) = w[i]
    BY AboveReads
  <2>2. w[k + 1] = IF w[k] = NoMember THEN NoMember ELSE manager[w[k]]
    BY <2>1 DEF IsWalk
  <2> QED
    BY <2>1, <2>2
<1> QED
  BY <1>1, <1>2
\* Walking on is walking from where one is.
LEMMA AboveAdds ==
    ASSUME NEW m, NEW i \in Nat
    PROVE  \A j \in Nat : Above(m, i + j) = Above(Above(m, i), j)
<1> DEFINE Wrong == {j \in Nat : Above(m, i + j) # Above(Above(m, i), j)}
<1> SUFFICES ASSUME Wrong # {} PROVE FALSE
  OBVIOUS
<1>1. PICK j \in Wrong : \A n \in Wrong : j <= n
  <2>1. Wrong \in SUBSET Nat
    OBVIOUS
  <2> HIDE DEF Wrong
  <2> QED
    BY <2>1, HasLeast
<1>2. j # 0
  <2>1. i + 0 = i
    OBVIOUS
  <2>2. Above(Above(m, i), 0) = Above(m, i)
    BY AboveIs
  <2> QED
    BY <2>1, <2>2, <1>1
<1>3. PICK n \in Nat : j = n + 1
  <2>1. j - 1 \in Nat /\ j = (j - 1) + 1
    BY <1>1, <1>2
  <2> QED
    BY <2>1
<1>4. Above(m, i + n) = Above(Above(m, i), n)
  BY <1>1, <1>3
<1>5. PICK k \in Nat : k = i + n /\ i + j = k + 1
  BY <1>3
<1>6. Above(m, k + 1) = IF Above(m, k) = NoMember THEN NoMember ELSE manager[Above(m, k)]
  BY AboveIs
<1>7. Above(Above(m, i), j) = IF Above(Above(m, i), n) = NoMember THEN NoMember
                                                    ELSE manager[Above(Above(m, i), n)]
  BY <1>3, AboveIs
<1> QED
  BY <1>1, <1>4, <1>5, <1>6, <1>7

\* A walk up stays in the table, or has left it.
LEMMA AboveTyped ==
    ASSUME manager \in Hierarchies, NEW m \in Members
    PROVE  \A k \in Nat : Above(m, k) \in Members \union {NoMember}
<1> DEFINE Wrong == {k \in Nat : Above(m, k) \notin Members \union {NoMember}}
<1> SUFFICES ASSUME Wrong # {} PROVE FALSE
  OBVIOUS
<1>1. PICK k \in Wrong : \A n \in Wrong : k <= n
  <2>1. Wrong \in SUBSET Nat
    OBVIOUS
  <2> HIDE DEF Wrong
  <2> QED
    BY <2>1, HasLeast
<1>2. k # 0
  BY <1>1, AboveIs
<1>3. PICK n \in Nat : k = n + 1
  <2>1. k - 1 \in Nat /\ k = (k - 1) + 1
    BY <1>1, <1>2
  <2> QED
    BY <2>1
<1>4. Above(m, n) \in Members \union {NoMember}
  BY <1>1, <1>3
<1>5. Above(m, k) = IF Above(m, n) = NoMember THEN NoMember ELSE manager[Above(m, n)]
  BY <1>3, AboveIs
<1> QED
  BY <1>1, <1>4, <1>5 DEF Hierarchies

\* Whoever has left the table stays out.
LEMMA AboveStops ==
    ASSUME NEW m, NEW k \in Nat, Above(m, k) = NoMember
    PROVE  \A n \in Nat : n >= k => Above(m, n) = NoMember
<1> DEFINE Wrong == {n \in Nat : n >= k /\ Above(m, n) # NoMember}
<1> SUFFICES ASSUME Wrong # {} PROVE FALSE
  OBVIOUS
<1>1. PICK n \in Wrong : \A j \in Wrong : n <= j
  <2>1. Wrong \in SUBSET Nat
    OBVIOUS
  <2> HIDE DEF Wrong
  <2> QED
    BY <2>1, HasLeast
<1>2. n # k /\ n > k
  BY <1>1
<1>3. PICK j \in Nat : n = j + 1 /\ j >= k
  <2>1. n - 1 \in Nat /\ n = (n - 1) + 1 /\ n - 1 >= k
    BY <1>1, <1>2
  <2> QED
    BY <2>1
<1>4. Above(m, j) = NoMember
  BY <1>1, <1>3
<1>5. Above(m, n) = NoMember
  BY <1>3, <1>4, AboveIs
<1> QED
  BY <1>1, <1>5

\* A walk of the upward query is the walk of Above.
LEMMA ChainIsAbove ==
    ASSUME manager \in Hierarchies, NEW x \in Members, NEW d \in Nat,
           NEW p \in Chains(manager, x, d)
    PROVE  \A i \in 0..d : Above(x, i) = p[i + 1]
<1> DEFINE Wrong == {i \in 0..d : Above(x, i) # p[i + 1]}
<1> SUFFICES ASSUME Wrong # {} PROVE FALSE
  OBVIOUS
<1>1. PICK i \in Wrong : \A n \in Wrong : i <= n
  <2>1. Wrong \in SUBSET Nat
    OBVIOUS
  <2> HIDE DEF Wrong
  <2> QED
    BY <2>1, HasLeast
<1>2. /\ p \in [1..(d + 1) -> Members]
      /\ p[1] = x
      /\ \A j \in 1..d : manager[p[j]] = p[j + 1]
  BY DEF Chains
<1>3. i # 0
  BY <1>1, <1>2, AboveIs
<1>4. PICK j \in Nat : i = j + 1 /\ i \in 1..d /\ j \in 0..d
  <2>1. i - 1 \in Nat /\ i = (i - 1) + 1 /\ i \in 1..d /\ i - 1 \in 0..d
    BY <1>1, <1>3
  <2> QED
    BY <2>1
<1>5. Above(x, j) = p[i]
  BY <1>1, <1>4
<1>6. p[i] \in Members /\ p[i] # NoMember
  BY <1>2, <1>4
<1>7. Above(x, i) = manager[p[i]]
  <2>1. Above(x, j + 1) = IF Above(x, j) = NoMember THEN NoMember ELSE manager[Above(x, j)]
    BY AboveIs
  <2> QED
    BY <1>4, <1>5, <1>6, <2>1
<1>8. manager[p[i]] = p[i + 1]
  BY <1>2, <1>4
<1> QED
  BY <1>1, <1>7, <1>8

\* Who is found above a member, and at what depth: the first time the walk up
\* comes by, within the limit.
LEMMA FoundAbove ==
    ASSUME manager \in Hierarchies, NEW m \in Members, NEW x \in Members, NEW d \in Nat
    PROVE  [member |-> x, depth |-> d] \in Ancestors(manager, m)
              <=> /\ d \in 1..MaxDepth
                  /\ x # m
                  /\ Above(m, d) = x
                  /\ \A k \in 1..(d - 1) : Above(m, k) # x
<1>1. [member |-> x, depth |-> d] \in Ancestors(manager, m)
         <=> d \in 1..MaxDepth /\ \E p \in Chains(manager, m, d) : p[d + 1] = x
  BY AncestorsAre
<1>2. ASSUME d \in 1..MaxDepth, NEW p \in Chains(manager, m, d), p[d + 1] = x
      PROVE  /\ x # m
             /\ Above(m, d) = x
             /\ \A k \in 1..(d - 1) : Above(m, k) # x
  <2>1. \A i \in 0..d : Above(m, i) = p[i + 1]
    BY ChainIsAbove
  <2>2. /\ p[1] = m
        /\ \A i, j \in 1..(d + 1) : p[i] = p[j] => i = j
    BY DEF Chains
  <2>3. x # m
    BY <1>2, <2>2
  <2>4. Above(m, d) = x
    BY <1>2, <2>1
  <2>5. ASSUME NEW k \in 1..(d - 1) PROVE Above(m, k) # x
    <3>1. k \in 0..d /\ k + 1 \in 1..(d + 1) /\ d + 1 \in 1..(d + 1) /\ k + 1 # d + 1
      OBVIOUS
    <3> QED
      BY <1>2, <2>1, <2>2, <3>1
  <2> QED
    BY <2>3, <2>4, <2>5
<1>3. ASSUME d \in 1..MaxDepth, x # m, Above(m, d) = x, \A k \in 1..(d - 1) : Above(m, k) # x
      PROVE  \E p \in Chains(manager, m, d) : p[d + 1] = x
  <2> DEFINE p == [i \in 1..(d + 1) |-> Above(m, i - 1)]
  <2>1. ASSUME NEW i \in 0..d PROVE Above(m, i) \in Members
    <3>1. i \in Nat /\ d >= i /\ (Above(m, i) = NoMember => Above(m, d) = NoMember)
      BY AboveStops
    <3> QED
      BY <1>3, <3>1, AboveTyped
  <2>2. p \in [1..(d + 1) -> Members]
    BY <2>1
  <2>3. p[1] = m /\ p[d + 1] = x
    BY <1>3, AboveIs
  <2>4. ASSUME NEW i \in 1..d PROVE manager[p[i]] = p[i + 1]
    <3>1. PICK j \in Nat : i = j + 1 /\ j \in 0..d
      <4>1. i - 1 \in Nat /\ i = (i - 1) + 1 /\ i - 1 \in 0..d
        OBVIOUS
      <4> QED
        BY <4>1
    <3>2. p[i] = Above(m, j) /\ p[i + 1] = Above(m, j + 1)
      <4>1. i \in 1..(d + 1) /\ i - 1 = j /\ i + 1 \in 1..(d + 1) /\ (i + 1) - 1 = j + 1
        BY <3>1
      <4> QED
        BY <4>1
    <3>3. Above(m, j) # NoMember
      BY <2>1, <3>1
    <3> QED
      BY <3>2, <3>3, AboveIs
  <2>5. ASSUME NEW i \in 0..d, NEW j \in 0..d, i < j PROVE Above(m, i) # Above(m, j)
    <3> SUFFICES ASSUME Above(m, i) = Above(m, j) PROVE FALSE
      OBVIOUS
    <3>1. PICK n \in Nat : d = j + n /\ i + n \in 0..(d - 1)
      <4>1. d - j \in Nat /\ d = j + (d - j) /\ i + (d - j) \in 0..(d - 1)
        BY <2>5
      <4> QED
        BY <4>1
    <3>2. Above(m, j + n) = Above(Above(m, j), n) /\ Above(m, i + n) = Above(Above(m, i), n)
      <4>1. i \in Nat /\ j \in Nat
        OBVIOUS
      <4> HIDE DEF p
      <4>2. Above(m, j + n) = Above(Above(m, j), n)
        BY <3>1, <4>1, AboveAdds
      <4>3. Above(m, i + n) = Above(Above(m, i), n)
        BY <3>1, <4>1, AboveAdds
      <4> QED
        BY <4>2, <4>3
    <3>3. Above(m, i + n) = x
      BY <1>3, <3>1, <3>2
    <3>4. CASE i + n = 0
      BY <1>3, <3>3, <3>4, AboveIs
    <3>5. CASE i + n # 0
      BY <1>3, <3>1, <3>3, <3>5
    <3> QED
      BY <3>4, <3>5
  <2>6. ASSUME NEW i \in 1..(d + 1), NEW j \in 1..(d + 1), p[i] = p[j] PROVE i = j
    <3>1. /\ i - 1 \in 0..d /\ j - 1 \in 0..d
          /\ Above(m, i - 1) = Above(m, j - 1)
      BY <2>6
    <3>2. ~ (i - 1 < j - 1) /\ ~ (j - 1 < i - 1)
      BY <2>5, <3>1
    <3> QED
      BY <3>2
  <2>7. p \in Chains(manager, m, d)
    <3> HIDE DEF p
    <3> QED
      BY <2>2, <2>3, <2>4, <2>6 DEF Chains
  <2> QED
    BY <2>3, <2>7
<1> QED
  BY <1>1, <1>2, <1>3

\* Who is in a member's scope: everyone with that member within the limit.
LEMMA ScopeIsBelow ==
    ASSUME manager \in Hierarchies, NEW m \in Members, NEW x \in Members
    PROVE  x \in ScopeIds(manager, m) <=> \E k \in 0..MaxDepth : Above(x, k) = m
<1>1. ASSUME x \in ScopeIds(manager, m) PROVE \E k \in 0..MaxDepth : Above(x, k) = m
  <2>1. CASE x = m
    <3>1. Above(x, 0) = m /\ 0 \in 0..MaxDepth
      BY <2>1, AboveIs
    <3> QED
      BY <3>1
  <2>2. CASE x # m
    <3>1. PICK r \in Descendants(manager, m) : r.member = x
      BY <1>1, <2>2 DEF ScopeIds
    <3>2. PICK d \in 1..MaxDepth : r = [member |-> x, depth |-> d]
      BY <3>1, DescendantsAre
    <3>3. d \in Nat /\ [member |-> x, depth |-> d] \in Descendants(manager, m)
      BY <3>1, <3>2
    <3>4. [member |-> m, depth |-> d] \in Ancestors(manager, x)
      BY <3>3, DownIsUp
    <3>5. Above(x, d) = m
      BY <3>3, <3>4, FoundAbove
    <3> QED
      BY <3>2, <3>5
  <2> QED
    BY <2>1, <2>2
<1>2. ASSUME \E k \in 0..MaxDepth : Above(x, k) = m PROVE x \in ScopeIds(manager, m)
  <2> DEFINE Depths == {k \in 0..MaxDepth : Above(x, k) = m}
  <2>1. PICK d \in Depths : \A k \in Depths : d <= k
    <3>1. Depths \in SUBSET Nat /\ Depths # {}
      BY <1>2
    <3> HIDE DEF Depths
    <3> QED
      BY <3>1, HasLeast
  <2>2. CASE d = 0
    BY <2>1, <2>2, AboveIs DEF ScopeIds
  <2>3. CASE d # 0
    <3>1. x # m
      <4>1. 0 \notin Depths
        BY <2>1, <2>3
      <4>2. 0 \in 0..MaxDepth /\ Above(x, 0) = x
        BY AboveIs
      <4> QED
        BY <4>1, <4>2
    <3>2. d \in 1..MaxDepth /\ Above(x, d) = m
      BY <2>1, <2>3
    <3>3. \A k \in 1..(d - 1) : Above(x, k) # m
      BY <2>1, <3>2
    <3>4. [member |-> m, depth |-> d] \in Ancestors(manager, x)
      BY <3>1, <3>2, <3>3, FoundAbove
    <3>5. [member |-> x, depth |-> d] \in Descendants(manager, m)
      BY <3>4, DownIsUp
    <3> QED
      BY <3>5 DEF ScopeIds
  <2> QED
    BY <2>2, <2>3
<1> QED
  BY <1>1, <1>2
\* The rows the queries return.
LEMMA RowsTyped ==
    ASSUME NEW mgr, NEW m \in Members, NEW r \in Ancestors(mgr, m) \union Descendants(mgr, m)
    PROVE  /\ r.member \in Members
           /\ r.depth \in 1..MaxDepth /\ r.depth \in Nat
           /\ r = [member |-> r.member, depth |-> r.depth]
<1>1. \E d \in 1..MaxDepth : \E p \in Chains(mgr, m, d) \union Branches(mgr, m, d) :
         r = [member |-> p[d + 1], depth |-> d]
  BY AncestorsAre, DescendantsAre
<1>2. PICK d \in 1..MaxDepth : \E p \in [1..(d + 1) -> Members] :
         r = [member |-> p[d + 1], depth |-> d]
  BY <1>1 DEF Chains, Branches
<1> QED
  BY <1>2

-----------------------------------------------------------------------------
\* What holds of every hierarchy.
LEMMA QueriesDoAgree == ASSUME manager \in Hierarchies PROVE QueriesAgree
  BY DownIsUp DEF QueriesAgree

LEMMA EachReachedOnce == ASSUME manager \in Hierarchies PROVE ReachedOnce
<1>1. ASSUME NEW m \in Members, NEW r \in Ancestors(manager, m),
             NEW q \in Ancestors(manager, m), r.member = q.member
      PROVE  r = q
  <2>1. /\ r.member \in Members
        /\ r.depth \in 1..MaxDepth /\ r.depth \in Nat
        /\ r = [member |-> r.member, depth |-> r.depth]
        /\ q.depth \in 1..MaxDepth /\ q.depth \in Nat
        /\ q = [member |-> q.member, depth |-> q.depth]
    BY RowsTyped
  <2>2. /\ Above(m, r.depth) = r.member
        /\ \A k \in 1..(r.depth - 1) : Above(m, k) # r.member
    BY <2>1, FoundAbove
  <2>3. [member |-> r.member, depth |-> q.depth] \in Ancestors(manager, m)
    BY <1>1, <2>1
  <2>4. /\ Above(m, q.depth) = r.member
        /\ \A k \in 1..(q.depth - 1) : Above(m, k) # r.member
    BY <2>1, <2>3, FoundAbove
  <2>5. ~ (q.depth < r.depth) /\ ~ (r.depth < q.depth)
    BY <2>1, <2>2, <2>4
  <2>6. q.depth = r.depth
    BY <2>1, <2>5
  <2> QED
    BY <1>1, <2>1, <2>6
<1>2. ASSUME NEW m \in Members, NEW x \in Members, NEW d \in 1..(MaxDepth + 1)
      PROVE  [member |-> x, depth |-> d] \in Ancestors(manager, m)
                <=> /\ x # m
                    /\ d <= MaxDepth
                    /\ Above(m, d) = x
                    /\ \A k \in 1..(d - 1) : Above(m, k) # x
  <2>1. d \in Nat /\ (d \in 1..MaxDepth <=> d <= MaxDepth)
    OBVIOUS
  <2> QED
    BY <2>1, FoundAbove
<1> QED
  BY <1>1, <1>2 DEF ReachedOnce

LEMMA NearestComesFirst == ASSUME manager \in Hierarchies PROVE NearestIsFirst
<1> SUFFICES ASSUME NEW m \in Members
             PROVE  /\ \A x \in Members : IsNearest(manager, m, x)
                         <=> \E r \in Ancestors(manager, m) :
                                /\ r.member = x
                                /\ \A q \in Ancestors(manager, m) : r.depth <= q.depth
                    /\ (Ancestors(manager, m) = {}) <=> (manager[m] = NoMember)
  BY DEF NearestIsFirst
<1>1. Above(m, 1) = manager[m] /\ manager[m] \in Members \union {NoMember} /\ manager[m] # m
  <2>1. Above(m, 0 + 1) = IF Above(m, 0) = NoMember THEN NoMember ELSE manager[Above(m, 0)]
    BY AboveIs
  <2>2. Above(m, 0) = m /\ m # NoMember /\ 0 + 1 = 1
    BY AboveIs
  <2> QED
    BY <2>1, <2>2 DEF Hierarchies
<1>2. ASSUME manager[m] \in Members
      PROVE  [member |-> manager[m], depth |-> 1] \in Ancestors(manager, m)
  <2>1. 1 \in 1..MaxDepth /\ \A k \in 1..(1 - 1) : FALSE
    OBVIOUS
  <2> QED
    BY <1>1, <1>2, <2>1, FoundAbove
<1>3. ASSUME NEW r \in Ancestors(manager, m) PROVE manager[m] \in Members
  <2>1. /\ r.member \in Members /\ r.depth \in 1..MaxDepth /\ r.depth \in Nat
        /\ r = [member |-> r.member, depth |-> r.depth]
    BY RowsTyped
  <2>2. Above(m, r.depth) = r.member
    BY <2>1, FoundAbove
  <2>3. Above(m, 1) # NoMember
    BY <2>1, <2>2, AboveStops
  <2> QED
    BY <1>1, <2>3
<1>4. (Ancestors(manager, m) = {}) <=> (manager[m] = NoMember)
  BY <1>1, <1>2, <1>3
<1>5. ASSUME NEW x \in Members, IsNearest(manager, m, x)
      PROVE  \E r \in Ancestors(manager, m) :
                /\ r.member = x
                /\ \A q \in Ancestors(manager, m) : r.depth <= q.depth
  <2>1. x = manager[m]
    BY <1>5 DEF IsNearest
  <2>2. [member |-> x, depth |-> 1] \in Ancestors(manager, m)
    BY <1>2, <2>1
  <2>3. \A q \in Ancestors(manager, m) : 1 <= q.depth
    BY RowsTyped
  <2> QED
    BY <2>2, <2>3
<1>6. ASSUME NEW x \in Members, NEW r \in Ancestors(manager, m), r.member = x,
             \A q \in Ancestors(manager, m) : r.depth <= q.depth
      PROVE  IsNearest(manager, m, x)
  <2>1. r.depth \in 1..MaxDepth /\ r = [member |-> x, depth |-> r.depth]
    BY <1>6, RowsTyped
  <2>2. r.depth <= 1
    BY <1>2, <1>3, <1>6
  <2>3. r.depth = 1
    BY <2>1, <2>2
  <2>4. Above(m, 1) = x
    BY <2>1, <2>3, FoundAbove
  <2> QED
    BY <1>1, <2>4 DEF IsNearest
<1> QED
  BY <1>4, <1>5, <1>6

\* Within the depth limit nobody is above themselves.
LEMMA NoWayBack ==
    ASSUME manager \in Hierarchies, Shallow, NEW m \in Members, NEW c \in Nat \ {0}
    PROVE  Above(m, c) # m
<1> SUFFICES ASSUME Above(m, c) = m PROVE FALSE
  OBVIOUS
<1> DEFINE Outside == {n \in Nat : Above(m, n) = NoMember}
<1>1. PICK h \in Outside : \A n \in Outside : h <= n
  <2>1. Outside \in SUBSET Nat /\ MaxDepth + 1 \in Outside
    BY DEF Shallow
  <2> HIDE DEF Outside
  <2> QED
    BY <2>1, HasLeast
<1>2. h > c
  <2>1. h <= c => Above(m, c) = NoMember
    BY <1>1, AboveStops
  <2> QED
    BY <1>1, <2>1
<1>3. PICK n \in Nat : h = c + n /\ n < h
  <2>1. h - c \in Nat /\ h = c + (h - c) /\ h - c < h
    BY <1>1, <1>2
  <2> QED
    BY <2>1
<1>4. Above(m, c + n) = Above(Above(m, c), n)
  BY AboveAdds
<1>5. n \in Outside
  BY <1>1, <1>3, <1>4
<1> QED
  BY <1>1, <1>3, <1>5

LEMMA ScopesDoNest == ASSUME manager \in Hierarchies PROVE ScopesNest
<1> SUFFICES ASSUME Shallow, NEW m \in Members, NEW x \in ScopeIds(manager, m)
             PROVE  /\ ScopeIds(manager, x) \subseteq ScopeIds(manager, m)
                    /\ x # m => ~ IsAncestor(manager, x, m)
  BY DEF ScopesNest
<1>1. \A a \in Members : ScopeIds(manager, a) \subseteq Members
  BY RowsTyped DEF ScopeIds
<1>2. x \in Members
  BY <1>1
<1>3. PICK k \in 0..MaxDepth : Above(x, k) = m
  BY <1>2, ScopeIsBelow
<1>4. ASSUME NEW y \in ScopeIds(manager, x) PROVE y \in ScopeIds(manager, m)
  <2>1. y \in Members
    BY <1>1, <1>2
  <2>2. PICK j \in 0..MaxDepth : Above(y, j) = x
    BY <1>2, <2>1, ScopeIsBelow
  <2>3. j \in Nat /\ k \in Nat /\ j + k \in Nat
    OBVIOUS
  <2>4. Above(y, j + k) = m
    BY <1>3, <2>2, <2>3, AboveAdds
  <2>5. ~ (j + k >= MaxDepth + 1)
    <3>1. MaxDepth + 1 \in Nat /\ Above(y, MaxDepth + 1) = NoMember
      BY <2>1 DEF Shallow
    <3> QED
      BY <2>3, <2>4, <3>1, AboveStops
  <2>6. j + k \in 0..MaxDepth
    BY <2>3, <2>5
  <2> QED
    BY <2>1, <2>4, <2>6, ScopeIsBelow
<1>5. ASSUME x # m, IsAncestor(manager, x, m) PROVE FALSE
  <2>1. PICK r \in Ancestors(manager, m) : r.member = x
    BY <1>5 DEF IsAncestor
  <2>2. r.depth \in 1..MaxDepth /\ r.depth \in Nat /\ r = [member |-> x, depth |-> r.depth]
    BY <2>1, RowsTyped
  <2>3. Above(m, r.depth) = x
    BY <1>2, <2>1, <2>2, FoundAbove
  <2>4. k \in Nat /\ r.depth + k \in Nat \ {0}
    BY <2>2
  <2>5. Above(m, r.depth + k) = m
    BY <1>3, <2>2, <2>3, <2>4, AboveAdds
  <2> QED
    BY <2>4, <2>5, NoWayBack
<1> QED
  BY <1>4, <1>5
\* The work tree's queries are those of the hierarchy, read as items.
LEMMA TreeReads ==
    ASSUME NEW mgr, NEW m
    PROVE  /\ Tree!Subtree(mgr, m) = {[item |-> m, depth |-> 0]} \union
                  {[item |-> r.member, depth |-> r.depth] : r \in Descendants(mgr, m)}
           /\ Tree!AncestorNodes(mgr, m) =
                  {[item |-> r.member, depth |-> r.depth] : r \in Ancestors(mgr, m)}
<1>1. Tree!Table!Descendants(mgr, m) = Descendants(mgr, m)
  BY DEF Descendants, TreeRows, Related, Down, Last, Range, Tree!Table!Last, Tree!Table!Range,
         Tree!Table!Descendants, Tree!Table!TreeRows, Tree!Table!Related, Tree!Table!Down
<1>2. Tree!Table!Ancestors(mgr, m) = Ancestors(mgr, m)
  BY DEF Ancestors, ChainRows, Related, Up, Last, Range, Tree!Table!Last, Tree!Table!Range,
         Tree!Table!Ancestors, Tree!Table!ChainRows, Tree!Table!Related, Tree!Table!Up
<1> QED
  BY <1>1, <1>2 DEF Tree!Subtree, Tree!AncestorNodes, Tree!Nodes
\* Deeper items come later, whatever their titles.
LEMMA DeeperIsLater ==
    ASSUME NEW a, NEW b, a.depth < b.depth
    PROVE  Tree!ListedBefore(a, b)
  BY DEF Tree!ListedBefore

LEMMA BranchesDoList == ASSUME manager \in Hierarchies PROVE ListedUnderItsParent
<1> SUFFICES ASSUME NEW root \in Members
             PROVE  LET nodes == Tree!Subtree(manager, root)
                        top == [item |-> root, depth |-> 0]
                    IN  /\ top \in nodes
                        /\ \A x \in Members :
                              (\E n \in nodes : n.item = x)
                                  <=> \E k \in 0..MaxDepth : Above(x, k) = root
                        /\ \A n \in nodes \ {top} :
                              /\ Tree!ListedBefore(top, n)
                              /\ \A q \in nodes : q.item = n.item => q = n
                              /\ \E p \in nodes : /\ p.item = manager[n.item]
                                                   /\ p.depth + 1 = n.depth
                                                   /\ Tree!ListedBefore(p, n)
                              /\ [item |-> root, depth |-> n.depth]
                                    \in Tree!AncestorNodes(manager, n.item)
  BY DEF ListedUnderItsParent
<1> DEFINE nodes == Tree!Subtree(manager, root)
           top == [item |-> root, depth |-> 0]
\* The nodes are the root and what lies beneath it.
<1>1. nodes = {top} \union
                  {[item |-> r.member, depth |-> r.depth] : r \in Descendants(manager, root)}
  BY TreeReads
<1>2. ASSUME NEW x \in Members, NEW d \in Nat
      PROVE  [member |-> x, depth |-> d] \in Descendants(manager, root)
                <=> /\ d \in 1..MaxDepth
                    /\ root # x
                    /\ Above(x, d) = root
                    /\ \A k \in 1..(d - 1) : Above(x, k) # root
  BY DownIsUp, FoundAbove
\* So each node but the root stands for a row.
<1>3. ASSUME NEW n \in nodes \ {top}
      PROVE  /\ n.item \in Members /\ n.depth \in Nat /\ n.depth \in 1..MaxDepth
             /\ n = [item |-> n.item, depth |-> n.depth]
             /\ [member |-> n.item, depth |-> n.depth] \in Descendants(manager, root)
  <2>1. PICK r \in Descendants(manager, root) : n = [item |-> r.member, depth |-> r.depth]
    BY <1>1
  <2>2. /\ r.member \in Members /\ r.depth \in 1..MaxDepth /\ r.depth \in Nat
        /\ r = [member |-> r.member, depth |-> r.depth]
    BY RowsTyped
  <2> QED
    BY <2>1, <2>2
<1>4. ASSUME NEW x \in Members, NEW d \in Nat,
             [member |-> x, depth |-> d] \in Descendants(manager, root)
      PROVE  [item |-> x, depth |-> d] \in nodes
  <2>1. PICK r \in Descendants(manager, root) : r = [member |-> x, depth |-> d]
    BY <1>4
  <2>2. r.member = x /\ r.depth = d
    BY <2>1
  <2> QED
    BY <1>1, <2>2
<1>5. top \in nodes
  BY <1>1
<1> HIDE DEF nodes
<1>6. ASSUME NEW x \in Members
      PROVE  (\E n \in nodes : n.item = x) <=> \E k \in 0..MaxDepth : Above(x, k) = root
  <2>1. (\E n \in nodes : n.item = x) <=> x \in ScopeIds(manager, root)
    <3>1. ASSUME NEW n \in nodes, n.item = x PROVE x \in ScopeIds(manager, root)
      <4>1. CASE n = top
        BY <3>1, <4>1 DEF ScopeIds
      <4>2. CASE n # top
        <5>1. PICK r \in Descendants(manager, root) : r = [member |-> x, depth |-> n.depth]
          BY <1>3, <3>1, <4>2
        <5>2. r.member = x
          BY <5>1
        <5> QED
          BY <5>2 DEF ScopeIds
      <4> QED
        BY <4>1, <4>2
    <3>2. ASSUME x \in ScopeIds(manager, root) PROVE \E n \in nodes : n.item = x
      <4>1. CASE x = root
        BY <1>5, <4>1
      <4>2. CASE x # root
        <5>1. PICK r \in Descendants(manager, root) : r.member = x
          BY <3>2, <4>2 DEF ScopeIds
        <5>2. r.depth \in Nat /\ r = [member |-> x, depth |-> r.depth]
          BY <5>1, RowsTyped
        <5>3. [item |-> x, depth |-> r.depth] \in nodes
          BY <1>4, <5>1, <5>2
        <5> QED
          BY <5>3
      <4> QED
        BY <4>1, <4>2
    <3> QED
      BY <3>1, <3>2
  <2> QED
    BY <2>1, ScopeIsBelow
<1>7. ASSUME NEW n \in nodes \ {top}
      PROVE  /\ Tree!ListedBefore(top, n)
             /\ \A q \in nodes : q.item = n.item => q = n
             /\ \E p \in nodes : /\ p.item = manager[n.item]
                                  /\ p.depth + 1 = n.depth
                                  /\ Tree!ListedBefore(p, n)
             /\ [item |-> root, depth |-> n.depth] \in Tree!AncestorNodes(manager, n.item)
  <2>1. PICK x \in Members, d \in 1..MaxDepth :
             /\ x = n.item /\ d = n.depth
             /\ n = [item |-> x, depth |-> d]
             /\ [member |-> x, depth |-> d] \in Descendants(manager, root)
    BY <1>3
  <2>2. /\ root # x
        /\ Above(x, d) = root
        /\ \A k \in 1..(d - 1) : Above(x, k) # root
    BY <1>2, <2>1
  <2>3. Tree!ListedBefore(top, n)
    BY <2>1, DeeperIsLater
  <2>4. ASSUME NEW q \in nodes, q.item = n.item PROVE q = n
    <3>1. q # top
      BY <2>1, <2>2, <2>4
    <3>2. /\ q.depth \in Nat /\ q.depth \in 1..MaxDepth
          /\ q = [item |-> x, depth |-> q.depth]
          /\ [member |-> x, depth |-> q.depth] \in Descendants(manager, root)
      BY <1>3, <2>1, <2>4, <3>1
    <3>3. /\ Above(x, q.depth) = root
          /\ \A k \in 1..(q.depth - 1) : Above(x, k) # root
      BY <1>2, <3>2
    <3>4. ~ (q.depth < d) /\ ~ (d < q.depth)
      BY <2>2, <3>2, <3>3
    <3>5. q.depth = d
      BY <3>2, <3>4
    <3> QED
      BY <2>1, <3>2, <3>5
  <2>5. \E p \in nodes : /\ p.item = manager[x]
                          /\ p.depth + 1 = d
                          /\ Tree!ListedBefore(p, n)
    <3>1. PICK c \in Nat : d = c + 1 /\ c < d /\ c \in 0..MaxDepth
      <4>1. d - 1 \in Nat /\ d = (d - 1) + 1 /\ d - 1 < d /\ d - 1 \in 0..MaxDepth
        OBVIOUS
      <4> QED
        BY <4>1
    <3>2. Above(x, 1) = manager[x]
      <4>1. Above(x, 0 + 1) = IF Above(x, 0) = NoMember THEN NoMember ELSE manager[Above(x, 0)]
        BY AboveIs
      <4>2. Above(x, 0) = x /\ x # NoMember /\ 0 + 1 = 1
        BY AboveIs
      <4> QED
        BY <4>1, <4>2
    <3>3. manager[x] \in Members
      <4>1. Above(x, 1) # NoMember
        BY <2>2, <3>1, AboveStops
      <4> QED
        BY <3>2, <4>1 DEF Hierarchies
    <3>4. \A k \in Nat : Above(x, k + 1) = Above(manager[x], k)
      <4>1. \A k \in Nat : Above(x, 1 + k) = Above(Above(x, 1), k)
        BY AboveAdds
      <4>2. \A k \in Nat : 1 + k = k + 1
        OBVIOUS
      <4> QED
        BY <3>2, <4>1, <4>2
    <3>5. Above(manager[x], c) = root
      BY <2>2, <3>1, <3>4
    <3>6. ASSUME NEW k \in Nat, k < c PROVE Above(manager[x], k) # root
      <4>1. k + 1 \in 1..(d - 1)
        BY <3>1, <3>6
      <4> QED
        BY <2>2, <3>4, <4>1
    <3>7. [item |-> manager[x], depth |-> c] \in nodes
      <4>1. CASE c = 0
        <5>1. manager[x] = root
          BY <3>5, <4>1, AboveIs
        <5> QED
          BY <1>5, <4>1, <5>1
      <4>2. CASE c # 0
        <5>1. manager[x] # root
          <6>1. Above(manager[x], 0) # root /\ Above(manager[x], 0) = manager[x]
            BY <3>1, <3>6, <4>2, AboveIs
          <6> QED
            BY <6>1
        <5>2. c \in 1..MaxDepth /\ \A k \in 1..(c - 1) : Above(manager[x], k) # root
          BY <3>1, <3>6, <4>2
        <5>3. [member |-> manager[x], depth |-> c] \in Descendants(manager, root)
          BY <1>2, <3>3, <3>5, <5>1, <5>2
        <5> QED
          BY <1>4, <3>3, <5>3
      <4> QED
        BY <4>1, <4>2
    <3>8. PICK p \in nodes : p = [item |-> manager[x], depth |-> c]
      BY <3>7
    <3>9. p.item = manager[x] /\ p.depth + 1 = d /\ p.depth < n.depth
      BY <2>1, <3>1, <3>8
    <3> QED
      BY <3>9, DeeperIsLater
  <2>6. [item |-> root, depth |-> d] \in Tree!AncestorNodes(manager, x)
    <3>1. PICK r \in Ancestors(manager, x) : r = [member |-> root, depth |-> d]
      BY <2>1, DownIsUp
    <3>2. r.member = root /\ r.depth = d
      BY <3>1
    <3> QED
      BY <3>2, TreeReads
  <2> QED
    BY <2>1, <2>3, <2>4, <2>5, <2>6
<1> QED
  BY <1>5, <1>6, <1>7 DEF nodes

-----------------------------------------------------------------------------
\* The table keeps manager_is_not_self.
TableInv == manager \in Hierarchies

LEMMA TableStays == Spec => []TableInv
<1>1. Init => TableInv
  BY DEF Init, TableInv
<1>2. TableInv /\ [Next]_manager => TableInv'
  <2> SUFFICES ASSUME manager \in Hierarchies, [Next]_manager PROVE manager' \in Hierarchies
    BY DEF TableInv
  <2>1. ASSUME NEW m \in Members, NEW x \in Members \union {NoMember}, Reassign(m, x)
        PROVE  manager' \in Hierarchies
    BY <2>1 DEF Reassign, Hierarchies
  <2>2. CASE UNCHANGED manager
    BY <2>2
  <2> QED
    BY <2>1, <2>2 DEF Next
<1> QED
  BY <1>1, <1>2, PTL DEF Spec

\* Whoever asks downward (scope_ids) and whoever asks upward (ancestors) get the
\* same relation, at the same depths, whatever the pointers have become.
THEOREM QueriesAgreeHolds == Spec => []QueriesAgree
<1>1. TableInv => QueriesAgree
  BY QueriesDoAgree DEF TableInv
<1> QED
  BY <1>1, TableStays, PTL

\* On every hierarchy, cyclic or not, the upward query returns each member within
\* the limit once, at its shortest distance.
THEOREM ReachedOnceHolds == Spec => []ReachedOnce
<1>1. TableInv => ReachedOnce
  BY EachReachedOnce DEF TableInv
<1> QED
  BY <1>1, TableStays, PTL

\* nearest_manager is the first row of the chain and the chain is empty only
\* without one.
THEOREM NearestIsFirstHolds == Spec => []NearestIsFirst
<1>1. TableInv => NearestIsFirst
  BY NearestComesFirst DEF TableInv
<1> QED
  BY <1>1, TableStays, PTL

\* Within the depth limit an approver up the chain sees what those below see,
\* and nobody is both above and below another.
THEOREM ScopesNestHolds == Spec => []ScopesNest
<1>1. TableInv => ScopesNest
  BY ScopesDoNest DEF TableInv
<1> QED
  BY <1>1, TableStays, PTL

\* A branch of the work tree lists each item once, after its parent.
THEOREM ListedUnderItsParentHolds == Spec => []ListedUnderItsParent
<1>1. TableInv => ListedUnderItsParent
  BY BranchesDoList DEF TableInv
<1> QED
  BY <1>1, TableStays, PTL
=============================================================================
