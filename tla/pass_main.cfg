CONSTANTS
    Links = {l1, l2, l3}
    RequestWorkers = {r1}
    BrowserWorkers = {b1, b2}
    Stores = {TRUE, FALSE}
    MaxCancels = 2
    NoLink = NoLink
    Blobs <- MCBlobs
    None = None
    Modes = {"request", "hybrid", "browser"}
    Limit = 2
    Retries = 1
    MaxPolls = 3
    Threads = {t1, t2}

SPECIFICATION MCSpec
INVARIANTS
    LinksAccounted
    PoolIsFree
    NothingLost
    RowOfItsPost
    NamesSound
PROPERTIES
    KeepsPromise
    PassAlwaysEnds
