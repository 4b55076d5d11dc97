SPECIFICATION SystemSpec
CONSTANTS
    boss = boss
    lead = lead
    marketing = marketing
    Members = {boss, lead}
    NoMember = NoMember
    MaxDepth = 3
    Manager <- MCManager
    Superadmins = {}
    ActiveMembers = {boss, lead}
    OrgOf <- MCOrgOf
    Plans = {p1, p2}
    NoPlan = NoPlan
    Items = {i1}
    NoItem = NoItem
    Scopes = {marketing}
    NoScope = NoScope
    ScopeType <- MCScopeType
    ScopeOrg <- MCScopeOrg
    ScopeOwner <- MCScopeOwner
    ScopeCreator <- MCScopeCreator
    Sessions = {s1, s2}
    MayIssue <- DraftToApproval
    Proposals <- MCProposals
    Patches = {}
    Unset = Unset
    Reachable = {boss}
    MaxVersion = 4
    WorkIds = {growth, marketing, t1}
    NoWork = NoWork
    growth = growth
    author = s1
    InitiativeOf <- MCInitiativeOf
    TreeSessions = {r1}
    MayMove <- EveryMove
    Owners = {lead}
SYMMETRY IdSymmetry
CHECK_DEADLOCK FALSE
INVARIANTS
    OneOpenPlanPerScope
    ApprovedTasksStand
    NothingAddedKnowingly
PROPERTIES
    TreeOnlyCancelsScopes
