CONSTANTS
    Total = 3
    Proxies = 2
    Workers = 2
    Modes = {"request", "hybrid", "browser"}
    Sessions = {TRUE, FALSE}
    Stores = {TRUE, FALSE}
    MaxFails = 1
    Numbers = {1, 2}
    Display = Display
    None = None
    MaxPolls = 2
    Urls = {u1, u2}
    Foreign = Foreign
    NoUrl = NoUrl
    Budget = 6
    MaxNavs = 2

SPECIFICATION MCSpec
INVARIANTS
    OneRoute
    SlotsConserved
    EndKeepsAnswers
    OnlyProvedNumbers
    NavigationSound
PROPERTIES
    KeepsPromise
    BestNumberStands
    PassAlwaysEnds
