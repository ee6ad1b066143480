CONSTANTS
    r1 = r1
    r2 = r2
    p1 = p1
    p2 = p2
    hourly = hourly
    nightly = nightly
    april31 = april31
    garbled = garbled
    Runs = {r1}
    Patches = {p1}
    Settings = {hourly, april31}
    Valid = {hourly, april31}
    Compiles = {hourly}
    Default = hourly
    NoSchedule = none
    MaxRestarts = 1
    MaxPauses = 0
    MaxRefusals = 0
    MaxToggles = 0
SYMMETRY MCSymmetry
SPECIFICATION Spec
INVARIANTS
    CountdownIsArmed
CHECK_DEADLOCK FALSE
