SPECIFICATION Spec
CONSTANTS
    Addresses = {a1, a2, a3}
    BanTimes = {0, 2}
    DEFAULT_BANTIME_SEC = 1
    DISCOURAGE_DURATION_SEC = 2
    MAX_DISCOURAGED = 2
    MaxTime = 3
SYMMETRY AddressSymmetry
CHECK_DEADLOCK FALSE
INVARIANTS
    BansSurviveRestart
PROPERTY DiscouragementKept
