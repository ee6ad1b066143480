CONSTANTS
    r1 = r1
    r2 = r2
    p1 = p1
    p2 = p2
    hourly = hourly
    nightly = nightly
    april31 = april31
    garbled = garbled
    Runs = {r1, r2}
    Patches = {p1, p2}
    Settings = {hourly, nightly, april31, garbled}
    Valid = {hourly, nightly, april31}
    Compiles = {hourly, nightly}
    Default = hourly
    NoSchedule = none
    MaxRestarts = 2
    MaxPauses = 2
    MaxRefusals = 1
    MaxToggles = 1
SYMMETRY MCSymmetry
SPECIFICATION Spec
INVARIANTS
    TypeOK
    OneSchedule
    TimeoutIsItsPauses
    OneDigestPair
PROPERTIES
    RunIsCurrent
CHECK_DEADLOCK FALSE
