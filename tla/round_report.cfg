CONSTANTS
    c1 = c1
    c2 = c2
    ookla = ookla
    Demo = demo
    NoTarget = none
    Callers = {c1}
    Targets <- MCTargets
    Providers = {ookla}
    ProviderOf <- MCProviderOf
    MaxChanges = 2
SPECIFICATION FairSpec
INVARIANTS
    TypeOK
    OneRowPerMember
PROPERTIES
    ReportIsTrue
    HoldIsHonoured
    LatchIsReleased
CHECK_DEADLOCK FALSE
