CONSTANTS
    NoId = NoId
    NoRow = NoRow
    NoConn = NoConn
    Blank = Blank
    t1 = t1
    t2 = t2
    Device = {d1}
    Host = d1
    Session <- OneSession
    Time <- MCTime
    Text <- MCText
    MaxRowId = 9
    Run = {r1}
    InFlight = 1
    FirstFile <- MCFirstFile
    NewRecord = {}
    NewFile <- MixedNewFile
    MaxLength = 3
    MaxEdits = 1
    MaxDeletes = 0
    InPlace = TRUE
SPECIFICATION Spec
INVARIANT OneHistory
CHECK_DEADLOCK FALSE
