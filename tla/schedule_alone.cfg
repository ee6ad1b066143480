CONSTANTS
    r1 = r1
    r2 = r2
    p1 = p1
    p2 = p2
    hourly = hourly
    nightly = nightly
    april31 = april31
    garbled = garbled
    Runs = {r1}
    Patches = {p1}
    Settings = {hourly, nightly, april31, garbled}
    Valid = {hourly, nightly, april31}
    Compiles = {hourly, nightly}
    Default = hourly
    NoSchedule = none
    MaxRestarts = 3
    MaxPauses = 2
    MaxRefusals = 0
    MaxToggles = 1
SPECIFICATION FairSpec
INVARIANTS
    ScheduleIsStored
PROPERTIES
    RunsEnd
CHECK_DEADLOCK FALSE
