CONSTANTS
    Rows = {r1, r2}
    Codes = {"r"}
    MaxResume = 2
    RetryFailed = TRUE
    SlowWrites = TRUE
    DiskFails = TRUE
    MaxRuns = 1
    NoJournal = NoJournal

SPECIFICATION FairSpec
INVARIANTS
    JournalNeverAhead
PROPERTIES
    RunEnds
