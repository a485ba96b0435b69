SPECIFICATION Spec
CONSTANTS
    Docs = {d1, d2}
    Movable = {d2}
    Identity <- MCIdentity
    MaxRevision = 2
    TTL = 1
    MaxTime = 2
    Missing = Missing
    Garbled = Garbled
INVARIANTS
    FileIsKnown
    AckedSurvives
    StagedIsSound
PROPERTIES
    FailsClosed
    KeepsRegister
