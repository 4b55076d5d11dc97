--------------------------- MODULE PlanLifecycle ---------------------------
(***************************************************************************)
(* What a delegation plan promises while no reading of it goes stale       *)
(* (app/domain/delegation/states.py and the docstrings of service.py and   *)
(* approval.py): a plan is drafted, revised while it is open, sent once    *)
(* and decided once; every step moves the version; approval makes exactly  *)
(* the tasks the plan held, and a decided plan never changes again.        *)
(***************************************************************************)
EXTENDS Naturals

CONSTANT Plans

VARIABLES
    status,    \* "NONE" until drafted
    version,
    contents,  \* what the plan proposes
    tasks      \* what its approval created

vars == <<status, version, contents, tasks>>

Init ==
    /\ status = [p \in Plans |-> "NONE"]
    /\ version = [p \in Plans |-> 0]
    /\ contents = [p \in Plans |-> {}]
    /\ tasks = [p \in Plans |-> {}]

Move(p, from, to) ==
    /\ status[p] = from
    /\ status' = [status EXCEPT ![p] = to]
    /\ version' = [version EXCEPT ![p] = @ + 1]

Draft(p) == Move(p, "NONE", "DRAFT") /\ UNCHANGED <<contents, tasks>>

\* The new contents are the reviser's choice.
Revise(p) ==
    /\ Move(p, "DRAFT", "DRAFT") \/ Move(p, "PENDING_APPROVAL", "PENDING_APPROVAL")
    /\ contents' = [contents EXCEPT ![p] = contents'[p]]
    /\ UNCHANGED tasks

Send(p) ==
    /\ contents[p] # {}
    /\ Move(p, "DRAFT", "PENDING_APPROVAL")
    /\ UNCHANGED <<contents, tasks>>

Approve(p) ==
    /\ Move(p, "PENDING_APPROVAL", "APPROVED")
    /\ tasks' = [tasks EXCEPT ![p] = contents[p]]
    /\ UNCHANGED contents

Reject(p) == Move(p, "PENDING_APPROVAL", "REJECTED") /\ UNCHANGED <<contents, tasks>>

Next == \E p \in Plans : Draft(p) \/ Revise(p) \/ Send(p) \/ Approve(p) \/ Reject(p)

Spec == Init /\ [][Next]_vars
=============================================================================
