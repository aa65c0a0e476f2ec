CONSTANTS
    Cookies = {c1, c2}
    None = None
    Platforms = {"threads", "tiktok"}
    MaxGen = 1
    MaxSeq = 2
    Names = {n1, n2}
    Browsers = {b1}
    NoOne = NoOne
    Limit = 1
    MaxHashes = 3
    MaxTokens = 1
    MaxFaults = 1
    MaxLogins = 1

SPECIFICATION MCSpec
INVARIANTS
    EndedStaysEnded
CHECK_DEADLOCK FALSE

