\* No two edits in one second, so that st_mtime tells all contents apart.
CONSTANTS
    Readers = {r1, r2}
    NULL = NULL
    SameSecondEdits = FALSE
    Length <- OneByteEach
    MaxContent = 1
    MaxTime = 1

SPECIFICATION CachesSpec

PROPERTY NextRequestSeesEdit
