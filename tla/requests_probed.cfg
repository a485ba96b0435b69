SPECIFICATION GatewaySpec
CONSTANTS
    Keys = {kp, kb}
    PrimaryKeys = {kp}
    Fingerprints = {f1}
    Requests = {r1}
    Probes = {p1}
    Attempts <- MCAttempts
    MaxConcurrent = 2
    AllowAutoRetest = FALSE
    Risks = {FALSE}
    UpstreamEnds = {"complete", "cancelled", "auth"}
    MaxRevision = 2
    MaxLeases = 4
    MaxTime = 0
    MaxPins = 2
    MaxEpoch = 4
    FailureThreshold = 1
    ProtocolFailureThreshold = 1
    RecoverySuccessThreshold = 2
    WindowSize = 1
    MinimumSamples = 1
    ErrorRatePercent = 50
    BaseCooldown = 1
    MaxCooldown = 1
    JitterPercent = 0
INVARIANTS
    VersionsAccountedFor
    PinnedVersionsLive
PROPERTIES
    CancelKeepsHealth
