SPECIFICATION Spec
SYMMETRY Symmetry
CONSTANTS
    Accounts = {a, b}
    Ids = {p, q}
    MaxGen = 2
    MaxIssued = 2
    Missing = Missing
INVARIANTS
    ProfilesMatchStore
PROPERTIES
    NoLoginLost
