SPECIFICATION FairSpec
CONSTANTS
    Requests = {r1, r2}
    Codes = {c1, c2, c3, c4}
    NoCode = NoCode
    Sizes = {1, 2}
    Attempts = 2
    Items = {i1, i2, i3}
INVARIANTS
    TypeOK
    CodesNameOneRow
    AloneNeverRefused
    AddedLast
PROPERTIES
    AllocationEnds
