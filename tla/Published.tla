----------------------------- MODULE Published ------------------------------
(***************************************************************************)
(* The published snapshot of riviu/store/published.py, for one month of    *)
(* one platform: what the report pages show while staff add links and      *)
(* scans write their numbers into the table row by row.                    *)
(*                                                                         *)
(* A page is the set of its posts with the scan whose numbers each carries.*)
(* Looking up the last finished scan and reading the rows are two queries  *)
(* on two connections, so anything may happen in between. The scans are    *)
(* this server's: its scan gate starts the next one only after the task of *)
(* the last, its refresh included, has returned.                           *)
(***************************************************************************)
EXTENDS Naturals, FiniteSetsExt

CONSTANTS
    Posts,     \* the posts of the month
    Readers,   \* requests for a report page
    Refresher, \* the refresh a scan makes when it has ended
    MaxScans,  \* bound: scans of the month
    Crashes,   \* a scan may die, or fail to record its end, and stay "dang_quet"
    NoPage,
    Nobody

Clients == Readers \cup {Refresher}

PublishedAssumption ==
    /\ MaxScans \in Nat
    /\ Crashes \in BOOLEAN
    /\ Refresher \notin Readers
    /\ Nobody \notin Clients
    /\ NoPage \notin [scan : 1 .. MaxScans, page : UNION {[shown -> 0 .. MaxScans] : shown \in SUBSET Posts}]

Scans == 1 .. MaxScans
Pages == UNION {[shown -> 0 .. MaxScans] : shown \in SUBSET Posts}

VARIABLES
    phase,   \* scan -> phase of its scan_run row
    scan,    \* the scan this server runs, or 0
    last,    \* the newest scan_run row
    added,   \* post -> scans begun when staff added it; MaxScans + 1: not yet
    numbers, \* post -> the scan whose numbers it carries in the table
    kept,    \* _SNAPSHOTS: the page kept for one finished scan
    lock,    \* _LOCKS: the client that reads the rows
    pc,      \* client -> where its report_rows has got to
    seen,    \* client -> last_finished_scan as it was looked up
    got      \* client -> the page it has read and not handed out yet

tableVars == <<phase, scan, last, added, numbers>>
vars == <<phase, scan, last, added, numbers, kept, lock, pc, seen, got>>

Absent == MaxScans + 1

Init ==
    /\ phase = [k \in Scans |-> "none"]
    /\ scan = 0 /\ last = 0
    /\ added \in [Posts -> {0, Absent}]
    /\ numbers = [p \in Posts |-> 0]
    /\ kept = NoPage /\ lock = Nobody
    /\ pc = [c \in Clients |-> "idle"]
    /\ seen = [c \in Clients |-> [scan |-> 0, running |-> FALSE]]
    /\ got = [c \in Clients |-> NoPage]

-----------------------------------------------------------------------------
(* Staff and scans.                                                        *)

AddPost(p) ==
    /\ added[p] = Absent
    /\ added' = [added EXCEPT ![p] = last]
    /\ UNCHANGED <<phase, scan, last, numbers, kept, lock, pc, seen, got>>

\* begin_scan_run, with the refresh of the scan before it over.
ScanBegin ==
    /\ scan = 0 /\ last < MaxScans
    /\ pc[Refresher] = "idle"
    /\ scan' = last + 1 /\ last' = last + 1
    /\ phase' = [phase EXCEPT ![last + 1] = "running"]
    /\ UNCHANGED <<added, numbers, kept, lock, pc, seen, got>>

\* A flush of its session writes the numbers of a post.
ScanWrite(p) ==
    /\ scan # 0 /\ added[p] # Absent
    /\ numbers' = [numbers EXCEPT ![p] = scan]
    /\ UNCHANGED <<phase, scan, last, added, kept, lock, pc, seen, got>>

\* close: update_scan_run records hoan_tat or dung_som ("done"), loi or huy ("over"); a failed
\* update is only logged. Then the scan refreshes the published page.
ScanEnd ==
    /\ scan # 0
    /\ \/ \E how \in {"done", "over"} : phase' = [phase EXCEPT ![scan] = how]
       \/ Crashes /\ UNCHANGED phase
    /\ scan' = 0
    /\ pc' = [pc EXCEPT ![Refresher] = "asked"]
    /\ UNCHANGED <<last, added, numbers, kept, lock, seen, got>>

\* The server stops and starts again. A shutdown cancels its scan, which records `huy`; a
\* crash leaves the row as it is. Snapshots, locks and requests are gone.
Restart ==
    /\ \/ phase' = IF scan = 0 THEN phase ELSE [phase EXCEPT ![scan] = "over"]
       \/ Crashes /\ UNCHANGED phase
    /\ scan' = 0
    /\ kept' = NoPage /\ lock' = Nobody
    /\ pc' = [c \in Clients |-> "idle"]
    /\ got' = [c \in Clients |-> NoPage]
    /\ UNCHANGED <<last, added, numbers, seen>>

-----------------------------------------------------------------------------
(* report_rows.                                                            *)

LastFinished == Max({0} \cup {k \in Scans : phase[k] = "done"})
SomeRunning == \E k \in Scans : phase[k] = "running"

\* Mutant: the page of a finished scan shows links added since.
RowsNowAll(before) == [p \in {q \in Posts : added[q] # Absent} |-> numbers[p]]

\* The rows added before scan `before` started, with the numbers they carry now.
RowsNow(before) == [p \in {q \in Posts : added[q] < before} |-> numbers[p]]

IsKept(k) == kept # NoPage /\ kept.scan = k

Goto(c, label) == pc' = [pc EXCEPT ![c] = label]

Ask(c) ==
    /\ pc[c] = "idle"
    /\ Goto(c, "asked")
    /\ UNCHANGED <<tableVars, kept, lock, seen, got>>

\* No finished scan: the rows as they are are read next. A kept page is handed out at once.
LookUp(c) ==
    /\ pc[c] = "asked"
    /\ seen' = [seen EXCEPT ![c] = [scan |-> LastFinished, running |-> SomeRunning]]
    /\ Goto(c, CASE LastFinished = 0 -> "plain"
                 [] IsKept(LastFinished) -> "idle"
                 [] OTHER -> "waiting")
    /\ UNCHANGED <<tableVars, kept, lock, got>>

ReadPlain(c) ==
    /\ pc[c] = "plain"
    /\ Goto(c, "idle")
    /\ UNCHANGED <<tableVars, kept, lock, seen, got>>

\* async with _lock(key): what another client kept meanwhile is handed out.
Enter(c) ==
    /\ pc[c] = "waiting" /\ lock = Nobody
    /\ IF IsKept(seen[c].scan)
       THEN Goto(c, "idle") /\ UNCHANGED lock
       ELSE Goto(c, "reading") /\ lock' = c
    /\ UNCHANGED <<tableVars, kept, seen, got>>

ReadRows(c) ==
    /\ pc[c] = "reading"
    /\ got' = [got EXCEPT ![c] = RowsNow(seen[c].scan)]
    /\ Goto(c, "read")
    /\ UNCHANGED <<tableVars, kept, lock, seen>>

\* Mutant: a page read while no scan runs is not kept either.
HandOutOnly(c) ==
    /\ pc[c] = "read"
    /\ lock' = Nobody
    /\ got' = [got EXCEPT ![c] = NoPage]
    /\ Goto(c, "idle")
    /\ UNCHANGED <<tableVars, kept, seen>>

\* Kept unless a scan was running when the last finished one was looked up.
HandOut(c) ==
    /\ pc[c] = "read"
    /\ kept' = IF seen[c].running THEN kept
               ELSE [scan |-> seen[c].scan, page |-> got[c]]
    /\ lock' = Nobody
    /\ got' = [got EXCEPT ![c] = NoPage]
    /\ Goto(c, "idle")
    /\ UNCHANGED <<tableVars, seen>>

\* Mutant: an error leaves the lock taken.
FailLocked(c) ==
    /\ pc[c] \in {"asked", "plain", "reading"}
    /\ Goto(c, "idle")
    /\ UNCHANGED <<tableVars, kept, lock, seen, got>>

\* A query fails: the request answers an error, a refresh logs it.
Fail(c) ==
    /\ pc[c] \in {"asked", "plain", "reading"}
    /\ lock' = IF lock = c THEN Nobody ELSE lock
    /\ Goto(c, "idle")
    /\ UNCHANGED <<tableVars, kept, seen, got>>

QueryStep(c) == LookUp(c) \/ ReadPlain(c) \/ ReadRows(c) \/ HandOut(c) \/ Fail(c)
ClientStep(c) == QueryStep(c) \/ Enter(c)

Next ==
    \/ \E p \in Posts : AddPost(p) \/ ScanWrite(p)
    \/ ScanBegin \/ ScanEnd \/ Restart
    \/ \E c \in Readers : Ask(c)
    \/ \E c \in Clients : ClientStep(c)

Spec == Init /\ [][Next]_vars

\* Queries return or fail, and asyncio.Lock wakes the clients that wait for it in their order.
Fairness ==
    \A c \in Clients :
        /\ WF_vars(QueryStep(c))
        /\ SF_vars(Enter(c))

FairSpec == Spec /\ Fairness

-----------------------------------------------------------------------------

TypeOK ==
    /\ phase \in [Scans -> {"none", "running", "done", "over"}]
    /\ scan \in 0 .. MaxScans /\ last \in 0 .. MaxScans
    /\ added \in [Posts -> 0 .. Absent]
    /\ numbers \in [Posts -> 0 .. MaxScans]
    /\ kept \in [scan : Scans, page : Pages] \cup {NoPage}
    /\ lock \in Clients \cup {Nobody}
    /\ pc \in [Clients -> {"idle", "asked", "plain", "waiting", "reading", "read"}]
    /\ seen \in [Clients -> [scan : 0 .. MaxScans, running : BOOLEAN]]
    /\ got \in [Clients -> Pages \cup {NoPage}]

\* A kept page is that of a scan that finished, without the links added since that scan began
\* and with all the others: "links added after that scan started stay out".
KeptIsOfItsScan ==
    /\ TypeOK
    /\ kept # NoPage =>
        phase[kept.scan] = "done" /\ DOMAIN kept.page = {p \in Posts : added[p] < kept.scan}

\* "refresh ... so the snapshot is taken at once rather than on the first page view": a refresh
\* of the newest scan, if that one finished, leaves its page kept as that scan left it, unless
\* the refresh itself failed.
RefreshPublishes ==
    [][/\ LastFinished = last
       /\ pc[Refresher] # "idle" /\ pc'[Refresher] = "idle"
       /\ LookUp(Refresher) \/ Enter(Refresher) \/ HandOut(Refresher)
       => kept' = [scan |-> last, page |-> RowsNow(last)]]_vars

\* Every request for a page is answered, however the queries fail.
PagesAnswered == \A c \in Clients : pc[c] = "asked" ~> pc[c] = "idle"

\* "read once and kept for that scan_run, so a later scan's partial writes never reach the page"
PartialStaysOut ==
    kept # NoPage => \A p \in DOMAIN kept.page : kept.page[p] <= kept.scan
=============================================================================
