CONSTANTS
    r1 = r1
    r2 = r2
    remote = remote
    A = A
    B = B
    Requests = {r1, r2}
    Clients = {remote}
    ClientOf <- MCClientOf
    Passwords = {A, B}
    NoPassword = none
    MaxCandidates = 1
    MAX_FAILED_ATTEMPTS = 1
    MAX_ATTEMPTS_IN_FLIGHT = 1
    MAX_TRACKED_CLIENTS = 1
    MAX_SESSIONS = 1
    MaxChanges = 2
    MaxLate = 1
SYMMETRY MCSymmetry
SPECIFICATION Spec
INVARIANTS
    TypeOK
    SessionsAreCurrent
PROPERTIES
    AdmissionIsCurrent
CHECK_DEADLOCK FALSE
