CONSTANTS
    Platforms = {tiktok, threads}
    LoginChecked = {tiktok}
    Postgres = FALSE
    WsClients = {w1}
    Jobs = {j1}
    Internals = {}
    Resumers = {}
    SourceOps = {}
    Single = Single
    NoRun = NoRun

SPECIFICATION Spec
INVARIANTS
    OneScanPerLane
