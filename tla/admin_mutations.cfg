CONSTANTS
    a = a
    b = b
    none = none
    r1 = r1
    r2 = r2
    c1 = c1
    c2 = c2
    Requests = {r1, r2}
    Recorders = {c1, c2}
    Names = {a, b}
    Installed <- MCInstalled
    Files <- MCFiles
    Absent = none
    MAX_TOKENS = 1
    MaxListed = 2
    MaxCalls = 2
SYMMETRY MCSymmetry
SPECIFICATION Spec
INVARIANTS
    TypeOK
    TargetsAreDistinct
    HistoryKeepsItsLine
PROPERTIES
    NameKeepsItsHistory
    ImplementsContract
CHECK_DEADLOCK FALSE
