CONSTANTS
    c1 = c1
    c2 = c2
    ookla = ookla
    Demo = demo
    NoTarget = none
    Callers = {c1}
    Targets <- MCTargets
    Providers = {ookla}
    ProviderOf <- MCProviderOf
    MaxChanges = 1
SPECIFICATION Spec
PROPERTIES
    PauseStopsTheRound
CHECK_DEADLOCK FALSE
