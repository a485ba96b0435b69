SPECIFICATION GatewaySpec
CONSTANTS
    Keys = {kp, kb}
    PrimaryKeys = {kp}
    Fingerprints = {f1}
    Requests = {r1}
    Probes = {}
    Attempts <- MCAttempts
    MaxConcurrent = 2
    AllowAutoRetest = FALSE
    Risks = {TRUE, FALSE}
    UpstreamEnds = {"complete", "cancelled", "auth", "rate_limited", "server_error", "client_error", "timeout", "transport", "protocol", "local"}
    MaxRevision = 1
    MaxLeases = 3
    MaxTime = 1
    MaxPins = 2
    MaxEpoch = 4
    FailureThreshold = 1
    ProtocolFailureThreshold = 1
    RecoverySuccessThreshold = 1
    WindowSize = 1
    MinimumSamples = 1
    ErrorRatePercent = 50
    BaseCooldown = 1
    MaxCooldown = 1
    JitterPercent = 0
INVARIANTS
    NoReplayOfSideEffects
    DoubleChargeReported
PROPERTIES
    KeepsContract
    DrainCompletes
