SPECIFICATION Spec
CONSTANTS
    MEDIAN_TIME_SPAN = 3
    MAX_FUTURE_BLOCK_TIME = 2
    DEFAULT_MAX_TIME_ADJUSTMENT = 1
    nNetworkExpirationInterval = 7
    nASERTAnchorHeight = 1
    nPowTargetSpacing = 1
    nASERTHalfLife = 3
    powLimit = 60
    Fraction = 4
    Factor <- FourthPowers
    Width = 1024
    Mantissa = 8
    Byte = 4
    MaxSize = 4
    TimeModulus = 16
    MaxTime = 6
INVARIANTS
    TimeDiffExact
    DifficultyTracksSchedule
    TemplatesNeverTooOld
