SPECIFICATION DeploymentSpec
CONSTANTS
    Versions = {v1, v2, v3}
    First = v1
    Missing = Missing
SYMMETRY Symmetry
INVARIANTS
    ReportIsTrue
    MixtureIsMarked
    RemoteRecoveredServes
PROPERTIES
    NeverTwoReleases
