-------------------------------- MODULE Seed --------------------------------
(***************************************************************************)
(* Seeding a development organization (app/seed.py), several times and at  *)
(* once, beside registrations of addresses by others.                      *)
(*                                                                         *)
(* A run is one transaction.  For every row of its fixed order it asks     *)
(* whether the row's stable id exists and inserts it if not; it commits at *)
(* the end.  An insert waits while another transaction holds an            *)
(* uncommitted row with the same key, and fails once that row is           *)
(* committed.                                                              *)
(***************************************************************************)
EXTENDS Identity, SequencesExt

CONSTANTS
    People,        \* PEOPLE: the keys of the seeded persons, in order
    AddressOf,     \* how each person's address is typed
    ManagerOf,     \* manager_key, Nobody for None
    Nobody,
    Org, Channel,  \* the seeded organization and MessagingChannel.IMESSAGE
    Others,        \* memberships that are not the seed's
    Runs,          \* runs of the seed that may overlap
    Claimants,     \* users whose addresses are registered otherwise,
    Claims,        \* and the raw addresses registered for them
    MaxClaims      \* bound: registrations by others

Persons == Range(People)

ASSUME SeedAssumption ==
    /\ Persons \subseteq Users
    /\ Claimants \subseteq Users /\ Nobody \notin Users
    /\ ManagerOf \in [Persons -> Persons \union {Nobody}]
    /\ AddressOf \in [Persons -> RawAddresses] /\ Claims \subseteq RawAddresses
    /\ Org \in Orgs /\ Channel \in Channels
    /\ Others \subseteq [org : Orgs, user : Users \ Persons]
    /\ MaxClaims \in Nat

\* What the list in seed.py is: nobody twice, managers before their reports
\* (seed.py:69), and addresses that are read (seed.py:39) and tell people apart.
ASSUME PeopleAssumption ==
    /\ People \in Seq(Users) /\ IsInjective(People)
    /\ \A k \in DOMAIN People : ManagerOf[People[k]] # Nobody =>
          \E j \in 1..(k - 1) : People[j] = ManagerOf[People[k]]
    /\ \A p \in Persons : NormalizeAddress(AddressOf[p]) # NoAddress
    /\ \A p, q \in Persons :
          NormalizeAddress(AddressOf[p]) = NormalizeAddress(AddressOf[q]) => p = q

VARIABLES
    stored,  \* organizations and users committed by runs of the seed
    run      \* where each run stands, and what it has inserted so far

tables == <<stored, memberships, identities>>
vars == <<stored, memberships, identities, run>>

\* stable_id.
StableId(kind, key) == <<kind, key>>

RowsOf(person) == <<StableId("user", person), StableId("membership", person),
                    StableId("identity", person)>>

RowIds == {StableId("organization", Org)} \union UNION {Range(RowsOf(p)) : p \in Persons}

\* The organization, then three rows for each of the people.
OrderOf(people) ==
    [n \in 1..(3 * Len(people) + 1) |->
        IF n = 1 THEN StableId("organization", Org)
        ELSE RowsOf(people[((n - 2) \div 3) + 1])[((n - 2) % 3) + 1]]

\* The rows in the order seed() visits them.
SeedOrder == OrderOf(People)

\* The same with everybody but the first in the opposite order.
OtherOrder == OrderOf(<<Head(People)>> \o Reverse(Tail(People)))

\* Slip: below the first, people come in an order of each run's own.
OrderOfEach(r) == IF r = CHOOSE x \in Runs : TRUE THEN OtherOrder ELSE SeedOrder

Order(r) == SeedOrder

Idle == [pc |-> "idle", at |-> 1, mine |-> {}, alone |-> FALSE]

Current(r) == Order(r)[run[r].at]

SeedIdentity(person) ==
    IdentityRow(StableId("identity", person), person, Channel, AddressOf[person], TRUE)

\* The rows of the first n people, as a run of an older, shorter PEOPLE left them.
Init ==
    \E n \in 0..Len(People) :
        LET older == {People[k] : k \in 1..n}
        IN  /\ stored = IF n = 0 THEN {}
                        ELSE {StableId("organization", Org)}
                                \union {StableId("user", p) : p \in older}
            /\ memberships = Others \union {[org |-> Org, user |-> p] : p \in older}
            /\ identities = {SeedIdentity(p) : p \in older}
            /\ run = [r \in Runs |-> Idle]

AddressKey(channel, norm) == <<"address", <<channel, norm>>>>

\* What is unique about a row: an identity's address, every other row's id.
UniqueKey(id) ==
    IF id[1] = "identity" THEN AddressKey(Channel, NormalizeAddress(AddressOf[id[2]])) ELSE id

CommittedKeys ==
    stored \union {StableId("membership", m.user) : m \in memberships}
           \union {AddressKey(row.channel, row.norm) : row \in identities}

HeldBy(r) == {UniqueKey(id) : id \in run[r].mine}

\* Another transaction holds the key uncommitted: an insert waits for it.
Contended(r, key) == \E q \in Runs \ {r} : key \in HeldBy(q)

\* session.get by the stable id.
Found(id) ==
    CASE id[1] = "identity" -> \E row \in identities : row.id = id
      [] id[1] = "membership" -> [org |-> Org, user |-> id[2]] \in memberships
      [] OTHER -> id \in stored

\* memberships[person.manager_key]: the manager was visited before.
ManagerVisited(r, id) ==
    id[1] = "membership" /\ ManagerOf[id[2]] # Nobody =>
        \E k \in 1..(run[r].at - 1) : Order(r)[k] = StableId("membership", ManagerOf[id[2]])

TableTakes(r, id) ==
    /\ UniqueKey(id) \notin CommittedKeys \union HeldBy(r)
    /\ ManagerVisited(r, id)
    /\ id[1] = "identity" => NormalizeAddress(AddressOf[id[2]]) # NoAddress

-----------------------------------------------------------------------------
\* One run of main(): seed(), then one commit.

Start(r) ==
    /\ run[r].pc = "idle"
    /\ run' = [q \in Runs |->
                 IF q = r
                 THEN [Idle EXCEPT !.pc = "asking",
                                   !.alone = \A x \in Runs : run[x].pc = "idle"]
                 ELSE [run[q] EXCEPT !.alone = FALSE]]
    /\ UNCHANGED tables

Ask(r) ==
    /\ run[r].pc = "asking" /\ run[r].at <= Len(Order(r))
    /\ run' = IF Found(Current(r)) THEN [run EXCEPT ![r].at = @ + 1]
                                   ELSE [run EXCEPT ![r].pc = "inserting"]
    /\ UNCHANGED tables

Insert(r) ==
    /\ run[r].pc = "inserting"
    /\ ~ Contended(r, UniqueKey(Current(r)))
    /\ TableTakes(r, Current(r))
    /\ run' = [run EXCEPT ![r].pc = "asking", ![r].at = @ + 1,
                          ![r].mine = @ \union {Current(r)}]
    /\ UNCHANGED tables

\* An error rolls the whole run back.
Refused(r) ==
    /\ run[r].pc = "inserting"
    /\ ~ Contended(r, UniqueKey(Current(r)))
    /\ ~ TableTakes(r, Current(r))

Fail(r) == Refused(r) /\ run' = [run EXCEPT ![r] = Idle] /\ UNCHANGED tables

\* Slip: the loop stops before the last row.
VisitedButLast(r) == run[r].at >= Len(Order(r))

Visited(r) == run[r].at > Len(Order(r))

Inserted(r, kind) == {id \in run[r].mine : id[1] = kind}

\* Slip: the identity keeps the id the database drew for it.
IdentitiesUnderDrawnIds(r) ==
    {IdentityRow(StableId("drawn", id[2]), id[2], Channel, AddressOf[id[2]], TRUE) :
        id \in Inserted(r, "identity")}

\* register_identity draws an id, which the seed replaces by the stable one.
IdentitiesOf(r) == {SeedIdentity(id[2]) : id \in Inserted(r, "identity")}

Commit(r) ==
    /\ run[r].pc = "asking" /\ Visited(r)
    /\ stored' = stored \union Inserted(r, "organization") \union Inserted(r, "user")
    /\ memberships' = memberships \union
                         {[org |-> Org, user |-> id[2]] : id \in Inserted(r, "membership")}
    /\ identities' = identities \union IdentitiesOf(r)
    /\ run' = [run EXCEPT ![r] = Idle]

Crash(r) ==
    /\ run[r].pc # "idle"
    /\ run' = [run EXCEPT ![r] = Idle]
    /\ UNCHANGED tables

\* Somebody else registers an address, for a user the seed made or for another.
OthersIdentities == {row \in identities : row.id[1] = "drawn"}

Claim(user, channel, raw, verified) ==
    /\ Cardinality(OthersIdentities) < MaxClaims
    /\ user \in Persons => StableId("user", user) \in stored
    /\ MayRegister(user, channel, raw)
    /\ \A r \in Runs : AddressKey(channel, NormalizeAddress(raw)) \notin HeldBy(r)
    /\ identities' = identities \union
                        {IdentityRow(StableId("drawn", user), user, channel, raw, verified)}
    /\ UNCHANGED <<stored, memberships, run>>

Serve(r) == Ask(r) \/ Insert(r) \/ Fail(r) \/ Commit(r)

Next ==
    \/ \E r \in Runs : Start(r) \/ Serve(r) \/ Crash(r)
    \/ \E user \in Claimants, channel \in Channels, raw \in Claims, verified \in BOOLEAN :
          Claim(user, channel, raw, verified)

Spec == Init /\ [][Next]_vars

\* A started run keeps running, and PostgreSQL lets waiting inserts through in
\* the order they came.
FairSpec == Spec /\ \A r \in Runs : SF_vars(Serve(r))
-----------------------------------------------------------------------------
RunState == [pc : {"idle", "asking", "inserting"}, at : Nat, mine : SUBSET RowIds,
             alone : BOOLEAN]

TypeOK ==
    /\ stored \subseteq RowIds
    /\ memberships \subseteq [org : Orgs, user : Users]
    /\ identities \subseteq [id : {"identity", "drawn"} \X Users, user : Users,
                             channel : Channels, raw : RawAddresses, norm : RawAddresses,
                             verified : BOOLEAN]
    /\ run \in [Runs -> RunState]

\* A seeded person is there with a user, a membership and a verified identity, or
\* not at all, whichever runs overlapped, failed or crashed.
SeededWhole ==
    \A p \in Persons :
        LET present == [org |-> Org, user |-> p] \in memberships
        IN  /\ present <=> StableId("user", p) \in stored
            /\ present <=> \E row \in identities : row.id = StableId("identity", p) /\ row.verified
            /\ present => StableId("organization", Org) \in stored
            /\ present /\ ManagerOf[p] # Nobody =>
                  [org |-> Org, user |-> ManagerOf[p]] \in memberships

\* "Safe to run repeatedly" (seed.py:3): whatever earlier runs left behind, a run
\* nothing overlaps is refused only where a seeded address is somebody else's.
AloneNeverRefused ==
    \A r \in Runs : Refused(r) /\ run[r].alone =>
        \E row \in identities : \E p \in Persons \ {row.user} :
            row.norm = NormalizeAddress(AddressOf[p])

\* Every run that was started ends: two runs never wait for each other.
SeedsEnd == \A r \in Runs : run[r].pc # "idle" ~> run[r].pc = "idle"
=============================================================================
