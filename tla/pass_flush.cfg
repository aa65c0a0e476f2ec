CONSTANTS
    Links = {l1, l2}
    RequestWorkers = {r1, r2}
    BrowserWorkers = {b1}
    Stores = {TRUE}
    MaxCancels = 2
    NoLink = NoLink

SPECIFICATION Spec
INVARIANTS
    ReportedIsStored
