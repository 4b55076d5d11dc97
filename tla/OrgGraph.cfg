SPECIFICATION Spec
CONSTANTS
    Members = {m1, m2, m3, m4, m5}
    NoMember = NoMember
    MaxDepth = 3
INVARIANTS
    QueriesAgree
    ReachedOnce
    NearestIsFirst
    ScopesNest
    ListedUnderItsParent
