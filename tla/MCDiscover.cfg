SPECIFICATION FairSpec
CONSTANTS
    Session <- MCSession
    Dirs = 3
    MaxChanges = 2
INVARIANTS
    KeptIsFound
    FailureIsDisturbance
PROPERTIES
    DiscoverySucceeds
