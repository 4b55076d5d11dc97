-------------------------- MODULE MCDelegatedWork --------------------------
(***************************************************************************)
(* Instances of DelegatedWork for TLC: a boss and a lead below; the lead's *)
(* responsibility for marketing, under growth.                             *)
(***************************************************************************)
EXTENDS DelegatedWork

CONSTANTS boss, lead, marketing, growth, author

MCManager == [m \in Members |-> IF m = lead THEN boss ELSE NoMember]
MCOrgOf == [m \in Members |-> "org"]

MCScopeType == [w \in Scopes |-> "RESPONSIBILITY"]
MCScopeOrg == [w \in Scopes |-> "org"]
MCScopeOwner == [w \in Scopes |-> lead]
MCScopeCreator == [w \in Scopes |-> boss]

\* The other operations change no more of what the two modules share.  A second
\* request starts plans for the same responsibility meanwhile.
DraftToApproval == [s \in Sessions |-> IF s = author THEN {"create", "add", "submit", "approve"}
                                                  ELSE {"create"}]
EveryMove == [t \in TreeSessions |-> {"create", "complete", "cancel"}]

MCProposals == {[assignee |-> lead, due |-> "future"]}

MCInitiativeOf == [w \in Scopes |-> growth]

IdSymmetry == Permutations(WorkIds \ {marketing, growth}) \union Permutations(Plans)
=============================================================================
