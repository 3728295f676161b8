CONSTANTS
    NoId = NoId
    NoRow = NoRow
    Blank = Blank
    t1 = t1
    t2 = t2
    d1 = d1
    Device = {d1}
    Session <- MCSession
    Time <- MCTime
    Text <- MCText
    Upload <- MCUpload
    MaxRowId = 3
    AnyText = AnyText
    Filter <- MCFilter
    PageSize = 1
SPECIFICATION SearchSpec
INVARIANTS
    TypeOK
    ChunksTileArchive
    HashMatchesArchive
    EventsMatchArchive
    SearchMatchesArchive
    RowDescribesArchive
    DuplicateIsArchived
    SearchMissesNothing
PROPERTIES
    ImplementsArchive
CHECK_DEADLOCK FALSE
