CONSTANTS
    Platforms = {tiktok, threads}
    LoginChecked = {tiktok}
    Postgres = FALSE
    WsClients = {}
    Jobs = {j1, j2}
    Internals = {}
    Resumers = {r1}
    SourceOps = {o1, o2}
    Single = Single
    NoRun = NoRun
    Posts = {p1}
    Readers = {u1, u2}
    Refresher = refresher
    MaxScans = 2
    Crashes = FALSE
    NoPage = NoPage
    Nobody = Nobody

SPECIFICATION MCSpec
INVARIANTS
    OneScanPerLane
    SourceExcludesScans
    HoldIsOwned
    RunIsTracked
    KeptIsOfItsScan
PROPERTIES
    GateAlwaysReopens
    RefreshPublishes
    PagesAnswered
