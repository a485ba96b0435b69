SPECIFICATION Spec
CONSTANTS
    Accounts = {a}
    Ids = {p, q}
    MaxGen = 3
    MaxIssued = 3
    Missing = Missing
PROPERTIES
    SyncKeepsNewest
