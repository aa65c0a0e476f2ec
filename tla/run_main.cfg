CONSTANTS
    Rows = {r1, r2}
    Codes = {"s", "r", "p"}
    MaxResume = 1
    RetryFailed = TRUE
    SlowWrites = FALSE
    DiskFails = FALSE
    MaxRuns = 2
    NoJournal = NoJournal

SPECIFICATION Spec
INVARIANTS
    RowsScannedOnce
    RestartsCapped
PROPERTIES
    JournalRespected
    KeepsPromise
SYMMETRY RowSymmetry
