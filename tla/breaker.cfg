SPECIFICATION Spec
CONSTANTS
    Keys = {k1}
    Fingerprints = {f1, f2}
    Attempts = {a1, a2}
    MaxRevision = 2
    MaxLeases = 3
    MaxTime = 2
    MaxPins = 1
    MaxEpoch = 5
    FailureThreshold = 2
    ProtocolFailureThreshold = 2
    RecoverySuccessThreshold = 2
    WindowSize = 2
    MinimumSamples = 2
    ErrorRatePercent = 50
    BaseCooldown = 1
    MaxCooldown = 2
    JitterPercent = 100

SYMMETRY Symmetry
INVARIANTS
    TicketsMatch
    OneProbePerRoute
    DocumentIsSound
    OpenRouteCanRecover
PROPERTIES
    EvidenceKept
