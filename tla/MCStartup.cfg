CONSTANTS
    NoId = NoId
    NoRow = NoRow
    Blank = Blank
    Spoilt = Spoilt
    d1 = d1
    k1 = k1
    k2 = k2
    Device = {d1}
    Session <- MCSession
    Time <- MCTime
    Text <- MCText
    Upload <- MCUpload
    MaxRowId = 3
    Server = {s1, s2}
    ServerKey = {k1, k2}
    CurrentKey = k1
    OldSession <- MCOldSession
    MaxDeletes = 1
SPECIFICATION FairSpec
INVARIANTS
    StartupTypeOK
    ServingIsMigrated
    MigratedIsArchive
PROPERTIES
    StartSucceeds
CHECK_DEADLOCK FALSE
