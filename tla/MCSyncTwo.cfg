CONSTANTS
    NoId = NoId
    NoRow = NoRow
    NoConn = NoConn
    Blank = Blank
    t1 = t1
    t2 = t2
    Device = {d1}
    Host = d1
    Session <- TwoSessions
    Time <- MCTime
    Text <- MCText
    MaxRowId = 9
    Run = {r1}
    InFlight = 1
    FirstFile <- ShortFirstFile
    NewRecord <- MCNewRecord
    NewFile <- MCNewFile
    MaxLength = 2
    MaxEdits = 1
    MaxDeletes = 1
    InPlace = TRUE
SPECIFICATION FairSpec
INVARIANTS
    GrowthIsAccepted
PROPERTIES
    SyncConverges
CHECK_DEADLOCK FALSE
