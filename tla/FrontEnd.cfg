CONSTANTS
    Databases = {0, 1}
    Uncategorised = {1}
    MaxVisits = 3
SPECIFICATION Spec
INVARIANTS
    TypeOK
    DataIsWhatItSays
    LatestVisitPaintsSelected
    CopiesAgree
    ResultsNeedAQuery
CHECK_DEADLOCK FALSE
