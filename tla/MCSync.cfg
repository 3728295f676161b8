CONSTANTS
    NoId = NoId
    NoRow = NoRow
    NoConn = NoConn
    Blank = Blank
    t1 = t1
    t2 = t2
    Device = {d1}
    Host = d1
    Session <- OneSession
    Time <- MCTime
    Text <- MCText
    MaxRowId = 9
    Run = {r1, r2}
    InFlight = 1
    FirstFile <- MCFirstFile
    NewRecord = {}
    NewFile <- MCNewFile
    MaxLength = 3
    MaxEdits = 1
    MaxDeletes = 1
    InPlace = FALSE
SPECIFICATION Spec
INVARIANTS
    OneHistory
    SyncedIsShared
PROPERTIES
    AcksAreTrue
CHECK_DEADLOCK FALSE
SYMMETRY Symmetric
