---------------------------- MODULE MCWorkItems ----------------------------
(***************************************************************************)
(* Instances of WorkItems for TLC: a boss who administers the              *)
(* organization, a lead below and a worker below the lead.                 *)
(***************************************************************************)
EXTENDS WorkItems

CONSTANTS boss, lead, worker, first

\* An instance with two members has the boss for the lead as well.
MCManager == [m \in Members |-> CASE m = worker -> lead
                                  [] m = lead /\ lead # boss -> boss
                                  [] OTHER -> NoMember]
MCOrgOf == [m \in Members |-> "org"]

\* Only the first session creates and starts, and only the other calls off; both
\* complete, so that every two kinds of requests overlap but cancellations.
FirstCreates == [s \in Sessions |-> IF s = first THEN {"create", "start", "complete"}
                                                 ELSE {"complete", "cancel"}]

WorkSymmetry == Permutations(WorkIds)
=============================================================================
