\* Two requests at once, locks after two wrong passwords, two revocations.
SPECIFICATION Spec
CONSTANTS
    Requests = {t1, t2}
    MaxFailures = 2
    LockTime = 2
    Codes = {1}
    MaxRevocations = 2
    None = None
INVARIANTS
    SignedOutStaysOut
    CodesRedeemedOnce
PROPERTY LocksOpen
CHECK_DEADLOCK FALSE
