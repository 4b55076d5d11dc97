------------------------------- MODULE MCSeed -------------------------------
(***************************************************************************)
(* Instances of Seed for TLC.  Numbers have two digits, three with a       *)
(* country code, and four at most.                                         *)
(***************************************************************************)
EXTENDS Seed

CONSTANTS khalid, izra, marwa, outsider

MCPeople == <<khalid, izra, marwa>>
MCManagerOf == [p \in {khalid, izra, marwa} |-> IF p = khalid THEN Nobody ELSE khalid]
MCAddressOf == [p \in {khalid, izra, marwa} |->
                  CASE p = khalid -> Phone(0, "none", FALSE, <<2, 1>>)
                    [] p = izra -> Phone(0, "first", FALSE, <<1, 2, 2>>)
                    [] p = marwa -> Email(0, TRUE, "none", "marwa")]

\* The outsider is in both organizations.
MCOthers == [org : Orgs, user : {outsider}]

\* Khalid's number typed otherwise, a number whose "+" is not in front, no number,
\* Marwa's address as Apple hands it back, and numbers of every length.
MCClaims == {Phone(1, "first", FALSE, <<1, 2, 1>>), Phone(0, "later", FALSE, <<1, 1>>),
             Phone(0, "none", FALSE, <<2, 1, 1>>), Email(1, FALSE, "none", "marwa")}
            \union {Phone(0, "first", FALSE, number) :
                       number \in {<<2>>, <<2, 2>>, <<2, 1, 1>>, <<1, 2, 1, 2>>, <<2, 1, 2, 2>>}}
=============================================================================
