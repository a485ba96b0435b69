SPECIFICATION RemoteSpec
CONSTANTS
    Threads = {t1}
    Active = {s1, s2}
    Archived = {z1}
    Bodies <- MCBodies
    MaxLen = 2
    MaxJobs = 1
    MaxStarts = 1
    MaxTries = 2
    MaxActors = 2
    MaxLogin = 3
    MaxCopies = 2
    Missing = Missing
SYMMETRY Symmetry
INVARIANTS
    ResolutionIsExact
    NothingLost
    FailureCanBeUndone
    SyncIsAtomic
PROPERTIES
    LoginKept
