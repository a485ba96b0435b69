SPECIFICATION BothSpec
CONSTANTS
    Groups = {g1, g2}
    Profiles = {p1, p2, p3}
    MaxRevision = 3
    Missing = Missing
    Texts = {"", "mine", "other"}
SYMMETRY Symmetry
INVARIANTS
    ReportsAreTrue
    RoutesAreKept
    OriginalComesBack
