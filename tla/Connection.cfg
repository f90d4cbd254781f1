SPECIFICATION Spec
CONSTANTS
    Blank = Blank
    Huge = Huge
    BookmarkFiles <- MCBookmarkFiles
    LongNamed = {"second"}
    vfs_table <- MCFiles
    Slots = 3
    Hash <- MCHash
    User = "user"
    Pass = "pass"
    Timeout = 3
    Asks <- MCAsks
    MaxRequests = 2
    MaxHeaders = 2
    BufferSize = 4
    ChunkSize = 3
INVARIANTS TypeOK NobodyWaits AnswersInOrder FileAsAsked SameIndexSameFile
PROPERTIES LastWords AnnouncedCloseComes
CHECK_DEADLOCK FALSE
