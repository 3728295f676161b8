CONSTANTS
    NoId = NoId
    NoRow = NoRow
    NoConn = NoConn
    Blank = Blank
    t1 = t1
    t2 = t2
    Device = {d1}
    Host = d1
    Session <- OneSession
    Time <- MCTime
    Text <- MCText
    MaxRowId = 9
    Run = {r1, r2}
    InFlight = 1
    FirstFile <- ShortFirstFile
    NewRecord <- MCNewRecord
    NewFile <- MCNewFile
    MaxLength = 2
    MaxEdits = 0
    MaxDeletes = 0
    InPlace = FALSE
SPECIFICATION FairSpec
PROPERTIES
    RunEnds
    SyncConverges
CHECK_DEADLOCK FALSE
