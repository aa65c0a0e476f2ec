CONSTANTS
    Urls = {g1, g2}
    Platforms = {p1, p2}
    NoUrl = NoUrl
    NoFile = NoFile
    NoPlatform = NoPlatform
    Months = {1}
    SheetSets = {{1}, {3}}
    MaxFiles = 2
    MaxSaves = 1
    MaxRestarts = 1
    Rows = {r1, r2}
    Links = {l1, l2}
    MaxResults = 2
    MaxPasses = 2
    MaxEdits = 1

SPECIFICATION MCSpec
SYMMETRY Symmetry
INVARIANTS
    SourcesMatch
    NumbersOfLink
    SavedIsTold
PROPERTIES
    OthersKept
CHECK_DEADLOCK FALSE
