------------------------------ MODULE Sources ------------------------------
(***************************************************************************)
(* The workbooks of the data folder: how a Google Sheet or an upload       *)
(* becomes a new workbook, the registry of where it came from, the legacy  *)
(* selection, the saved sources of each platform, and pushes to Google.    *)
(*                                                                         *)
(* Endpoints test the source gate and take it without an await in between; *)
(* a scheduled run on workbook storage holds the scan gate from before it  *)
(* reads its source until it has adopted the synced one. Readers take no   *)
(* gate: one handler runs on the event loop at a time, but the thread of a *)
(* run writes the selection between any two of its reads and writes.       *)
(* Scans, which close the gate too, are in ScanGate; what a push leaves in *)
(* Google's spreadsheet is not state of this program. Nobody removes a     *)
(* workbook while the server runs: the program has no operation that does. *)
(***************************************************************************)
EXTENDS Integers, FiniteSets, FiniteSetsExt

CONSTANTS
    Urls,        \* Google spreadsheets; all have one title, so that their workbooks want one name
    Platforms,
    NoUrl, NoFile, NoPlatform,
    Months,      \* data sheets named for a month, newest highest
    SheetSets,   \* the data sheets a workbook may hold, Months or not
    MaxFiles,    \* bound: workbooks
    MaxSaves,    \* bound: /source-preferences saved
    MaxRestarts  \* bound

NoSheet == 0
Other == -1   \* a tab that holds no data

VARIABLES
    files,     \* workbook -> the spreadsheet it was loaded from, and its data sheets
    registry,  \* data/google_sheet_registry: workbook -> spreadsheet
    selected,  \* CURRENT_SELECTED_FILE, CURRENT_SELECTED_SHEET, CURRENT_SCAN_SHEET
    prefs,     \* data/source_preferences.json
    jobs,      \* the request that holds the source gate, the scheduled run that holds the scan gate
    view,      \* the workbook a /preview-excel reads
    reader,    \* the loop's handler between its test of the selection and the write that follows
    crossed,   \* history: the workbook of the last selection was written between the two
    saves, restarts

bounds == <<saves, restarts>>
reading == <<view, reader, crossed>>
vars == <<files, registry, selected, prefs, jobs, reading, bounds>>

\* Synced workbooks lie in data/, uploads beside it: they never want each other's name.
Names == [dir : {"data", "local"}, copy : 1 .. MaxFiles]

\* Sheets are numbers from 1, one of each workbook's the highest.
ASSUME SourcesAssumption ==
    /\ NoFile \notin Names /\ MaxFiles \in Nat
    /\ \A sheets \in SheetSets : \E n \in sheets \cup {0} : sheets \subseteq 1 .. n

Empty == [p \in Platforms |-> [file |-> NoFile, url |-> NoUrl]]
Idle == [kind |-> "none", at |-> "idle", file |-> NoFile, url |-> NoUrl, platform |-> NoPlatform, prefs |-> Empty, sheet |-> NoSheet]
NoReader == [at |-> "none", file |-> NoFile, sheet |-> NoSheet]
Unselected == [file |-> NoFile, sheet |-> NoSheet, scan |-> NoSheet]

Init ==
    /\ files = <<>> /\ registry = <<>> /\ selected = Unselected
    /\ \E u \in Urls \cup {NoUrl} : prefs = [p \in Platforms |-> [file |-> NoFile, url |-> u]]
    /\ jobs = [j \in {"request", "run"} |-> Idle] /\ view = NoFile /\ reader = NoReader /\ crossed = FALSE
    /\ saves = 0 /\ restarts = 0

-----------------------------------------------------------------------------
(* Sheets, names and the selection.                                        *)

Tabs(f) == files[f].sheets \cup {Other}

\* default_data_sheet: the newest month, else the first data sheet.
Default(sheets) ==
    IF sheets \cap Months # {} THEN Max(sheets \cap Months) ELSE IF sheets # {} THEN Min(sheets) ELSE NoSheet

\* keep_or_newest_month_sheet: a sheet that is no month is kept if nothing in the workbook is one.
Adopted(sheets) == IF sheets \cap Months = {} /\ sheets # {} THEN sheets ELSE {Default(sheets)}

\* Mutant: a workbook takes the name it wants.
PublishedNameWanted(dir) == [dir |-> dir, copy |-> 1]

\* publish_new_workbook: the wanted name, or the first "(n)" that is free.
PublishedName(dir) ==
    CHOOSE f \in Names : /\ f.dir = dir /\ f \notin DOMAIN files
                         /\ \A c \in 1 .. f.copy - 1 : [dir |-> dir, copy |-> c] \in DOMAIN files

Room == Cardinality(DOMAIN files) < MaxFiles
Put(f, url, sheets) ==
    files' = [g \in DOMAIN files \cup {f} |-> IF g = f THEN [url |-> url, sheets |-> sheets] ELSE files[g]]

UrlOf(f) == IF f \in DOMAIN registry THEN registry[f] ELSE NoUrl

\* select_source on the event loop: its three writes are one step, unless a run writes too.
Select(f, sheet, scan) == selected' = [file |-> f, sheet |-> sheet, scan |-> scan] /\ crossed' = FALSE

\* ensure_selected_file: a selection that is not listed falls back to the newest synced workbook.
Listed == selected.file \in DOMAIN files
Preferred == LET synced == {f \in DOMAIN files : f.dir = "data"} IN IF synced # {} THEN synced ELSE DOMAIN files

\* Any reader that names no workbook: /list-files, /summary-dashboard, /download-excel, exports, and
\* /preview-excel, which goes on to PreviewStart. It looks at the times of the files before it writes.
ReadTest ==
    /\ ~Listed /\ \E f \in Preferred : reader' = [NoReader EXCEPT !.at = "list", !.file = f]
    /\ UNCHANGED <<files, registry, selected, prefs, jobs, view, crossed, bounds>>

ReadFallsBack ==
    /\ reader.at = "list" /\ selected' = [selected EXCEPT !.file = reader.file]
    /\ reader' = NoReader
    /\ UNCHANGED <<files, registry, prefs, jobs, view, crossed, bounds>>

\* /preview-excel without a workbook of its own: the sheet shown becomes the selected one, if its
\* workbook still is.
PreviewStart ==
    /\ view = NoFile /\ Listed /\ view' = selected.file
    /\ UNCHANGED <<files, registry, selected, prefs, jobs, reader, crossed, bounds>>

\* Mutant: the sheet of a preview is selected whatever workbook is by now.
PreviewKeepsAny == TRUE

PreviewKeeps == selected.file = view

PreviewTest ==
    /\ view # NoFile /\ view' = NoFile
    /\ \/ UNCHANGED reader
       \/ PreviewKeeps /\ \E s \in Tabs(view) : reader' = [NoReader EXCEPT !.at = "show", !.sheet = s]
    /\ UNCHANGED <<files, registry, selected, prefs, jobs, crossed, bounds>>

PreviewShows ==
    /\ reader.at = "show" /\ selected' = [selected EXCEPT !.sheet = reader.sheet]
    /\ reader' = NoReader
    /\ UNCHANGED <<files, registry, prefs, jobs, view, crossed, bounds>>

-----------------------------------------------------------------------------
(* The gate and what holds it.                                             *)

\* Mutant: a scheduled run that is still syncing does not close the gate.
BlockedByRequests == jobs["request"].kind # "none"

\* source_mutation_blocked, and start_blocked on workbook storage.
Blocked == \E j \in DOMAIN jobs : jobs[j].kind # "none"

Begin(j, job) == ~Blocked /\ jobs' = [jobs EXCEPT ![j] = job]
Move(j, at) == jobs' = [jobs EXCEPT ![j].at = at]
End(j) == jobs' = [jobs EXCEPT ![j] = Idle]

\* A request whose url and platform are in order, or the run of a platform, after its checks.
Start ==
    /\ \/ \E u \in Urls : Begin("request", [Idle EXCEPT !.kind = "sync", !.at = "download", !.url = u])
       \/ Begin("request", [Idle EXCEPT !.kind = "upload", !.at = "download"])
       \/ \E f \in DOMAIN files : Begin("request", [Idle EXCEPT !.kind = "select", !.at = "names", !.file = f])
       \/ \E p \in Platforms, f \in DOMAIN files \cup {NoFile}, u \in Urls \cup {NoUrl} :
              saves < MaxSaves /\ Begin("request", [Idle EXCEPT !.kind = "prefs", !.at = "save", !.prefs = [prefs EXCEPT ![p] = [file |-> f, url |-> u]]])
       \/ DOMAIN files # {} /\ Begin("request", [Idle EXCEPT !.kind = "push", !.at = "rows"])
       \/ \E p \in Platforms : Begin("run", [Idle EXCEPT !.kind = "run", !.at = "source", !.platform = p])
    /\ UNCHANGED <<files, registry, selected, prefs, reading, bounds>>

\* platform_source: the run reads the saved sources and finds the spreadsheet of its platform.
RunSource ==
    LET saved == prefs[jobs["run"].platform]
        url == IF saved.url # NoUrl THEN saved.url ELSE UrlOf(saved.file) IN
    /\ jobs["run"].at = "source"
    /\ IF url = NoUrl THEN End("run")
       ELSE jobs' = [jobs EXCEPT !["run"].at = "download", !["run"].url = url, !["run"].prefs = prefs]
    /\ UNCHANGED <<files, registry, selected, prefs, reading, bounds>>

\* download_and_publish: the staged workbook is validated, then linked to a name nobody has.
Publish(j) ==
    LET f == PublishedName(IF jobs[j].kind = "upload" THEN "local" ELSE "data") IN
    /\ jobs[j].at = "download" /\ Room
    /\ \E sheets \in SheetSets : Put(f, jobs[j].url, sheets)
    /\ jobs' = [jobs EXCEPT ![j].file = f, ![j].at = IF jobs[j].kind = "upload" THEN "finish" ELSE "register"]
    /\ UNCHANGED <<registry, selected, prefs, reading, bounds>>

\* Mutant: a workbook is registered under the name it wanted.
RegisteredAsWanted(f) == [f EXCEPT !.copy = 1]

RegisteredAs(f) == f

Register(j) ==
    LET name == RegisteredAs(jobs[j].file) IN
    /\ jobs[j].at = "register"
    /\ registry' = [f \in DOMAIN registry \cup {name} |-> IF f = name THEN jobs[j].url ELSE registry[f]]
    /\ Move(j, IF j = "run" THEN "adopt" ELSE "finish")
    /\ UNCHANGED <<files, selected, prefs, reading, bounds>>

\* A sync or upload ends: it becomes the selection, unless it was not asked to or its call was cancelled.
Finish ==
    LET job == jobs["request"]
        sheet == Default(files[job.file].sheets) IN
    /\ job.at = "finish" /\ End("request")
    /\ UNCHANGED <<selected, crossed>> \/ Select(job.file, sheet, sheet)
    /\ UNCHANGED <<files, registry, prefs, view, reader, bounds>>

\* adopt_synced_source, in a thread: the source is written over the sources as the run read them (the
\* save may fail), and the workbook selected on its newest sheet.
AdoptedPrefs(run) == [run.prefs EXCEPT ![run.platform] = [file |-> run.file, url |-> run.url]]

Adopt ==
    LET run == jobs["run"] IN
    /\ run.at = "adopt" /\ prefs' = AdoptedPrefs(run)
    /\ \E sheet \in Adopted(files[run.file].sheets) : jobs' = [jobs EXCEPT !["run"].at = "file", !["run"].sheet = sheet]
    /\ UNCHANGED <<files, registry, selected, reading, bounds>>

\* select_source in that thread: three writes, one after the other. No cancel stops a thread.
AdoptFile ==
    /\ jobs["run"].at = "file" /\ Move("run", "sheet")
    /\ selected' = [selected EXCEPT !.file = jobs["run"].file] /\ crossed' = (reader # NoReader)
    /\ UNCHANGED <<files, registry, prefs, view, reader, bounds>>

AdoptSheets ==
    /\ \/ jobs["run"].at = "sheet" /\ Move("run", "scan") /\ selected' = [selected EXCEPT !.sheet = jobs["run"].sheet]
       \/ jobs["run"].at = "scan" /\ End("run") /\ selected' = [selected EXCEPT !.scan = jobs["run"].sheet]
    /\ UNCHANGED <<files, registry, prefs, reading, bounds>>

\* /select-file: the sheets named are in the workbook, or its default ones are taken.
SelectFile ==
    LET f == jobs["request"].file
        data == files[f].sheets IN
    /\ jobs["request"].at = "names" /\ End("request")
    /\ \E sheet \in Tabs(f) \cup {Default(data)}, scan \in data \cup {Default(data)} : Select(f, sheet, scan)
    /\ UNCHANGED <<files, registry, prefs, view, reader, bounds>>

SavePrefs ==
    /\ jobs["request"].at = "save" /\ saves < MaxSaves /\ saves' = saves + 1
    /\ End("request") /\ prefs' = jobs["request"].prefs
    /\ UNCHANGED <<files, registry, selected, reading, restarts>>

\* Whatever a step raises, the answer is an error and the gate opens; what was done stays. So it
\* does once a push is formatted.
Leave(j) ==
    /\ jobs[j].kind # "none" /\ jobs[j].at \notin {"file", "sheet", "scan"} /\ End(j)
    /\ UNCHANGED <<files, registry, selected, prefs, reading, bounds>>

\* The server restarts: the files stay, the selection is gone.
Restart ==
    /\ restarts < MaxRestarts /\ restarts' = restarts + 1
    /\ selected' = Unselected /\ jobs' = [j \in DOMAIN jobs |-> Idle]
    /\ view' = NoFile /\ reader' = NoReader /\ crossed' = FALSE
    /\ UNCHANGED <<files, registry, prefs, saves>>

\* While a handler is between its two steps no other one runs, and of what threads do only the writes
\* of the selection can tell.
JobStep == Start \/ RunSource \/ (\E j \in DOMAIN jobs : Publish(j) \/ Register(j) \/ Leave(j)) \/ Finish \/ SelectFile \/ SavePrefs
LoopStep == ReadTest \/ PreviewStart \/ PreviewTest \/ JobStep
Next ==
    \/ reader = NoReader /\ LoopStep
    \/ ReadFallsBack \/ PreviewShows
    \/ Adopt \/ AdoptFile \/ AdoptSheets
    \/ Restart

Spec == Init /\ [][Next]_vars

-----------------------------------------------------------------------------
Entries == [file : Names \cup {NoFile}, url : Urls \cup {NoUrl}]

TypeOK ==
    /\ DOMAIN files \subseteq Names /\ DOMAIN registry \subseteq DOMAIN files
    /\ \A f \in DOMAIN files : files[f].url \in Urls \cup {NoUrl} /\ files[f].sheets \in SheetSets
    /\ selected.file \in DOMAIN files \cup {NoFile} /\ prefs \in [Platforms -> Entries]
    /\ view \in DOMAIN files \cup {NoFile} /\ reader.file \in DOMAIN files \cup {NoFile}
    /\ \A j \in DOMAIN jobs : jobs[j].file \in DOMAIN files \cup {NoFile} /\ jobs[j].prefs \in [Platforms -> Entries]

\* What the registry says of a workbook is where its rows came from, so a push that names no
\* spreadsheet goes back there: publishing never replaces a workbook, and a name that was taken is
\* registered as the one it became (publish_new_workbook, register_google_sheet_source).
RegistryMatches == \A f \in DOMAIN registry : files[f].url = registry[f]

\* The selected sheets are in the selected workbook.
Fits ==
    /\ selected.file = NoFile => selected = Unselected
    /\ selected.file # NoFile =>
           /\ selected.sheet \in Tabs(selected.file) \cup {NoSheet}
           /\ selected.scan \in files[selected.file].sheets \cup {NoSheet}

\* They are, however syncs, selections and previews that read another workbook meanwhile end, once a
\* run has written all three parts. TLC refutes this: a reader that tested the selection before the
\* run's thread wrote the workbook, and writes after it, mixes two workbooks' parts.
SheetsFit == jobs["run"].at \notin {"sheet", "scan"} => Fits

\* Nothing else does: the selection fits until a run's thread crosses a reader that way, and again
\* from the next selection on.
SheetsFitUncrossed == ~crossed => SheetsFit

\* A scheduled run changes the saved source of its platform only: the sources it read before it
\* downloaded a workbook are still the saved ones when it writes them back.
OthersKept ==
    [][Adopt => \A p \in Platforms \ {jobs["run"].platform} : prefs'[p] = prefs[p]]_vars
=============================================================================
