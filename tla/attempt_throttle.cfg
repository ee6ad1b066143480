CONSTANTS
    r1 = r1
    r2 = r2
    r3 = r3
    r4 = r4
    here = here
    there = there
    Requests = {r1, r2, r3, r4}
    Clients = {here, there}
    ClientOf <- MCClientOf
    MaxCandidates = 2
    MAX_FAILED_ATTEMPTS = 3
    MAX_ATTEMPTS_IN_FLIGHT = 3
    MAX_TRACKED_CLIENTS = 1
SYMMETRY MCSymmetry
SPECIFICATION ThrottleSpec
INVARIANTS
    ReservationsAreOwned
    BudgetHeld
CHECK_DEADLOCK FALSE
