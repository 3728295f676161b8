CONSTANTS
    e1 = e1
    e2 = e2
    g1 = g1
    g2 = g2
    temp1 = temp1
    temp2 = temp2
    a = a
    b = b
    c = c
    Exporter = {e1, e2}
    KeyGen = {g1, g2}
    Together <- MCTogether
    Archive <- MCArchive
    KeyPaths <- MCKeyPaths
    Output = out
    Temp <- MCTemp
    Other = other
    Absent = Absent
SPECIFICATION Spec
INVARIANTS
    OutputIsWhole
    EndsClean
    PublicHasPrivate
PROPERTIES
    OthersUntouched
CHECK_DEADLOCK FALSE
