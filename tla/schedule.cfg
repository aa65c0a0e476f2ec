CONSTANTS
    Storages = {"workbook", "postgres"}
    Day = 3
    CatchUp = 2
    Horizon = 3
    TimeSets = {{}, {1, 2}}
    MonthSets = {{"latest", "m2"}}
    MaxRestarts = 1
    MaxEdits = 1

SPECIFICATION FairSpec
INVARIANTS
    EachMinuteOnce
PROPERTIES
    CaughtAreLogged
CHECK_DEADLOCK FALSE
