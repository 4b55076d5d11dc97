SPECIFICATION Spec
CONSTANTS
    first = s1
    boss = boss
    lead = boss
    worker = worker
    Members = {boss, worker}
    NoMember = NoMember
    MaxDepth = 3
    Manager <- MCManager
    Superadmins = {boss}
    ActiveMembers = {boss, worker}
    OrgOf <- MCOrgOf
    WorkIds = {w1, w2, w3}
    NoWork = NoWork
    Sessions = {s1, s2}
    MayMove <- FirstCreates
    Owners = {worker}
SYMMETRY WorkSymmetry
CHECK_DEADLOCK FALSE
INVARIANTS
    TypeOK
    HistoryExplainsStatus
    StrictlyNested
    OwnersReport
    
    OverwritesShow
    NothingAddedKnowingly
