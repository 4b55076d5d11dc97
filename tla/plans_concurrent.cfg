SPECIFICATION Spec
CONSTANTS
    boss = boss
    lead = lead
    worker = worker
    marketing = marketing
    editor = s1
    Members = {boss, lead, worker}
    NoMember = NoMember
    MaxDepth = 3
    Manager <- MCManager
    Superadmins = {}
    ActiveMembers = {boss, lead, worker}
    OrgOf <- MCOrgOf
    Plans = {p1}
    NoPlan = NoPlan
    Items = {i1}
    NoItem = NoItem
    Scopes = {marketing}
    NoScope = NoScope
    ScopeType <- MCScopeType
    ScopeOrg <- MCScopeOrg
    ScopeOwner <- MCScopeOwner
    ScopeCreator <- MCScopeCreator
    Sessions = {s1, s2}
    MayIssue <- EveryOp
    Proposals <- OneProposal
    Patches <- OnePatch
    Unset = Unset
    Reachable = {boss, worker}
    MaxVersion = 4
SYMMETRY SessionSymmetry
CHECK_DEADLOCK FALSE
INVARIANTS
    TypeOK
    ApprovedOnce
    EveryoneNamedIsTold
    DecidedByApprover
    AuditAgrees
PROPERTIES
    ApprovedIsFinal
    KeepsPromise
    LifecycleUnlessOvertaken
