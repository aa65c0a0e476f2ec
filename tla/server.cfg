CONSTANTS
    Cookies = {c1, c2}
    None = None
    Platforms = {"threads", "tiktok"}
    MaxGen = 3
    MaxSeq = 2
    Names = {n1, n2}
    Browsers = {b1}
    NoOne = NoOne
    Limit = 1
    MaxHashes = 3
    MaxTokens = 2
    MaxFaults = 1
    MaxLogins = 2

SPECIFICATION MCSpec
SYMMETRY Symmetry
INVARIANTS
    VerdictIsOwn
    SessionsExact
    LoginsStand
PROPERTIES
    OvertakenIsVoid
CHECK_DEADLOCK FALSE
