SPECIFICATION GatewaySpec
CONSTANTS
    Keys = {kp, kb}
    PrimaryKeys = {kp}
    Fingerprints = {f1}
    Requests = {r1, r2}
    Probes = {}
    Attempts <- MCAttempts
    MaxConcurrent = 2
    AllowAutoRetest = FALSE
    Risks = {FALSE}
    UpstreamEnds = {"complete", "cancelled", "timeout"}
    MaxRevision = 1
    MaxLeases = 4
    MaxTime = 0
    MaxPins = 2
    MaxEpoch = 4
    FailureThreshold = 1
    ProtocolFailureThreshold = 1
    RecoverySuccessThreshold = 1
    WindowSize = 1
    MinimumSamples = 1
    ErrorRatePercent = 50
    BaseCooldown = 1
    MaxCooldown = 1
    JitterPercent = 0
SYMMETRY Symmetry
INVARIANTS
    DrainIsExact
    TicketsHaveRequests
