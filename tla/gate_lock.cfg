CONSTANTS
    Platforms = {tiktok, threads}
    LoginChecked = {tiktok}
    Postgres = TRUE
    WsClients = {w1}
    Jobs = {}
    Internals = {i1}
    Resumers = {r1}
    SourceOps = {}
    Single = Single
    NoRun = NoRun

SPECIFICATION Spec
INVARIANTS
    LockSound
CHECK_DEADLOCK FALSE
