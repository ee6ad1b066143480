CONSTANTS
    c1 = c1
    c2 = c2
    ookla = ookla
    Demo = demo
    NoTarget = none
    Callers <- MCCallers
    Targets <- MCTargets
    Providers = {ookla}
    ProviderOf <- MCProviderOf
    MaxChanges = 1
SYMMETRY MCSymmetry
SPECIFICATION Spec
INVARIANTS
    OneRound
    LatchIsOwned
    KeepAliveIsSilenced
PROPERTIES
    ImplementsContract
CHECK_DEADLOCK FALSE
