SPECIFICATION FairSpec
CONSTANTS
    Sups = {s1, s2}
    MaxRestarts = 2
    Window = 3
    Stable = 3
    MaxDelay = 1
    Horizon = 5
    MaxBack = 1
    Configs = 2
    NoOne = NoOne
    Missing = Missing
    Garbled = Garbled
INVARIANTS
    CrashLoopEnds
PROPERTIES
    LatchForbidsStart
    EventuallyServed
