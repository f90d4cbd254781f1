CONSTANTS
    Readers = {r1, r2, r3}
    NULL = NULL
    SameSecondEdits = TRUE
    Length <- SavedInPlace
    MaxContent = 3
    MaxTime = 2

SYMMETRY Workers

SPECIFICATION CachesSpec

INVARIANTS
    CachesTypeOK
    TornIsNotKept

PROPERTIES StaleOnlyIfStampLies DatesMoveForward
