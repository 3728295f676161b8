CONSTANTS
    NoId = NoId
    NoRow = NoRow
    Blank = Blank
    t1 = t1
    d1 = d1
    Device = {d1}
    Session <- MCSession
    Time <- MCTime
    Text <- MCText
    Upload <- MCUpload
    MaxRowId = 2
    ServerConn = {s1, s2}
    AdminConn = {a1}
SPECIFICATION Spec
INVARIANTS
    AnswersAreLinear
    NoRequestIsStuck
PROPERTIES
    ImplementsStore
CHECK_DEADLOCK FALSE
