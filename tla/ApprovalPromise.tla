-------------------------- MODULE ApprovalPromise --------------------------
(***************************************************************************)
(* What approving promises however requests overlap (approval.py, lines    *)
(* 1-6): "Approving a plan must create exactly the tasks it proposed, tell *)
(* exactly the people it named, and leave a record of who decided what --  *)
(* all of it or none of it."  It happens to a plan at most once, in one    *)
(* step, and is never undone.                                              *)
(***************************************************************************)
CONSTANTS Plans, Members

VARIABLES
    approver,  \* the members recorded as having approved each plan
    tasks,     \* the tasks created for each plan
    told       \* the tasks somebody has been told of

vars == <<approver, tasks, told>>

Init ==
    /\ approver = [p \in Plans |-> {}]
    /\ tasks = [p \in Plans |-> {}]
    /\ told = [p \in Plans |-> {}]

\* Which tasks the plan held is settled elsewhere.
Approve(p, m) ==
    /\ approver[p] = {}
    /\ approver' = [approver EXCEPT ![p] = {m}]
    /\ tasks' = [tasks EXCEPT ![p] = tasks'[p]]
    /\ told' = [told EXCEPT ![p] = tasks'[p]]

Next == \E p \in Plans, m \in Members : Approve(p, m)

Spec == Init /\ [][Next]_vars
=============================================================================
