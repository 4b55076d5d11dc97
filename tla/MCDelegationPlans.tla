------------------------- MODULE MCDelegationPlans -------------------------
(***************************************************************************)
(* Instances of DelegationPlans for TLC: a boss, a lead below and a worker *)
(* below the lead; one responsibility of the lead.                         *)
(***************************************************************************)
EXTENDS DelegationPlans

CONSTANTS boss, lead, worker, marketing, editor

MCManager == [m \in Members |-> CASE m = lead -> boss
                                  [] m = worker -> lead
                                  [] OTHER -> NoMember]
MCOrgOf == [m \in Members |-> "org"]

MCScopeType == [w \in Scopes |-> "RESPONSIBILITY"]
MCScopeOrg == [w \in Scopes |-> "org"]
MCScopeOwner == [w \in Scopes |-> lead]
WorkerOwns == [w \in Scopes |-> worker]
MCScopeCreator == [w \in Scopes |-> boss]

EveryOp == [s \in Sessions |-> Ops]

Item(m, d) == [assignee |-> m, due |-> d]
\* The lead, who has no verified address, proposes work for itself; a change
\* takes its name off again.
OneProposal == {Item(lead, "future")}
OnePatch == {Item(NoMember, Unset)}

WorkersProposal == {Item(worker, "future")}
SidewaysPatch == {Item(boss, Unset)}

\* One request at a time writes or edits plans, while others decide.
OneEditor == [s \in Sessions |-> IF s = editor THEN Ops \ {"approve", "reject"}
                                               ELSE {"approve", "reject"}]

SessionSymmetry == Permutations(Sessions)
=============================================================================
