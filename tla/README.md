# A verification project for Riviu Reports

Riviu Reports reads a list of TikTok and Threads posts (from an Excel workbook, a Google Sheet or
the Riviu Data Postgres database), scans each post for its numbers and writes the results back. The
program is one asyncio process with worker threads and headless browsers; scans are started by a
person in the web page, by daily slots, by Riviu Data, and by the program itself after a restart.

This directory holds TLA+ models of the parts of it that are hard to test, the TLC configurations
that check them on small instances, and proofs (TLAPS) of the most important safety properties for
every value of the parameters.

| file | what it is |
|---|---|
| `ScanGate.tla` | who may start a scan or change the source, and when |
| `ScanGate_proofs.tla` | theorems about `ScanGate` and `Published` |
| `ScanRun.tla` | one scan transaction and its run journal, over crashes and resumes |
| `ScanPromise.tla` | what the run journal promises, which `ScanRun` implements |
| `MCScanRun.tla` | `ScanRun` for TLC: rows are interchangeable |
| `ScanRun_proofs.tla` | theorems about `ScanRun` |
| `ScanPromise_proofs.tla` | the proof that `ScanRun` implements `ScanPromise` |
| `PassPromise.tla` | what a pass of a scanner promises its run, which `TikTokPass` and `ThreadsPass` implement |
| `TikTokPass.tla` | one pass of the TikTok scanner: workers, queues, saves, shutdown |
| `TikTokPass_proofs.tla` | theorems about `TikTokPass`, `TikTokPage` and `TikTokNames` |
| `Published.tla` | the published snapshot of a month's report pages |
| `MCGate.tla` | the gate and the page published after a scan, for TLC |
| `TikTokParse.tla` | which numbers of a page are those of the post |
| `TikTokPage.tla` | the check of one TikTok link: attempts, redirects, polls, deletions |
| `TikTokNames.tla` | the channel names of one TikTok profile, asked for by threads |
| `MCTikTok.tla` | the three levels of a TikTok scan for TLC |
| `ThreadsPass.tla` | one pass of the Threads scanner: tasks, slots, routes, checkpoints |
| `ThreadsPass_proofs.tla` | theorems about `ThreadsPass`, `ThreadsPage` and `ThreadsNavigation` |
| `ThreadsPage.tla` | the check of one Threads post: its answers and how they are merged |
| `ThreadsNavigation.tla` | the guarded navigations of a page that carries cookies |
| `MCThreads.tla` | the three levels of a Threads scan for TLC |
| `Schedule.tla` | daily slots, late ticks, batches per lane, the run log |
| `Schedule_proofs.tla` | theorems about `Schedule` |
| `CookieSession.tla` | the saved cookies of a platform, checked and used meanwhile |
| `Accounts.tla` | accounts, logins and login sessions of server mode |
| `GoogleAccess.tla` | keys, tokens and logins for Google Sheets |
| `MCServer.tla` | the last three for TLC |
| `Server_proofs.tla` | theorems about the last three |
| `Sources.tla` | workbooks, where they came from, what is selected |
| `StoreSession.tla` | the rows of a Riviu Data scan while staff edit them |
| `MCData.tla` | the last two for TLC |
| `Data_proofs.tla` | theorems about the last two |
| `*.cfg` | one TLC run each, named in `PROJECT.json` |

Run a check with `tlc -config run_main.cfg MCScanRun.tla` and the proofs with
`tlapm ScanRun_proofs.tla`.

## Inventory

Paths are under `src/riviu/` unless they start with `src/`.

| component | state it keeps | operations | hard behaviour | model |
|---|---|---|---|---|
| Scan gate and lanes (`scan_state.py`, `api/scan.py`, `internal_scan.py`) | per lane: `starting`, the manager's `running`, `task`; `SOURCE_BUSY`; the advisory lock | start over /ws, slot, resume, Riviu Data's `/internal/scan`, source mutation, user cancel | check-then-act over awaits, overlapping holds, a task cancelled before its first line | `ScanGate` |
| Scan transaction and journal (`scan_service.py`, `scan_journal.py`, `workbook/atomic.py`) | the run's `RunJournal`, the journal file, writes in worker threads | passes, watchdog, cool-down, retry passes, begin/resume/clear of the journal, cancel, resume at boot | cancellation at every await, writes that outlive their coroutine, crash and resume | `ScanRun`, `ScanPromise` |
| TikTok scanner (`platforms/tiktok/runner.py`, `workers.py`, `lifecycle.py`, `progress.py`, `workbook_io.py`) | work, browser and result queues, unsaved rows, progress | hybrid workers, consume loop, autosave, shutdown, final save | workers that die, sentinels, cancel while saving | `TikTokPass`, `PassPromise`; `ScanRun`: what the passes of a run report |
| TikTok fetching and parsing (`fetch_*.py`, `parsing.py`, `gone.py`, `channels.py`, ...) | attempts of a link, hints of its post, the channel cache | one link to one result; one name per profile | an address that changes under a check, deletions confirmed over attempts, threads that share a cache | `TikTokParse`, `TikTokPage`, `TikTokNames` |
| Threads scanner (`platforms/threads.py`) | page slots, retired routes, checkpoints, the answers of a post | HTTP, a second request, Chromium; HTTP 429 retirement; merge; save; stop | shared slots, retirement racing a choice, answers that contradict each other | `ThreadsPass`, `PassPromise`, `ThreadsPage`, `ThreadsNavigation` |
| Riviu Data store (`store/`) | buffered session, advisory lock, `scan_run` rows, published snapshots | open, buffer, flush, close; snapshot of a month | rows edited beside a scan, cancelled flush, look-up and read on two connections | `StoreSession`, `Published`; `ScanGate` (lock), `TikTokPass` (cancelled flush) |
| Scheduler (`scheduler.py`, `api/schedule.py`) | slots, last minute checked, batches per lane, run log | tick, run batch, run slot | late ticks, overlapping batches, month ends | `Schedule`; `ScanGate` (one job), `Sources` (its sync) |
| Cookie sessions (`platforms/*_session.py`, `api/*_session.py`) | stored cookies with a generation, check results | import, check, delete, status; a scan that takes and refuses them | a check or commit that ends after its cookies were replaced | `CookieSession` |
| Accounts and security (`server_mode.py`, `server_users.py`, `api/security.py`, `api/auth.py`) | accounts file, session file, login attempts | login, logout, account commands of another process | an account changed during a login, saves that fail, restarts | `Accounts` |
| Workbook sources (`source_files.py`, `api/sources.py`) | file catalogue, selection, saved sources | list, preview, upload, select, save | previews and runs that end after the selection changed | `Sources`; `ScanGate` (its gate) |
| Google Sheets (`google_sheets_sync.py`, `api/google.py`, `workbook/google_*.py`) | registry of imported sheets, key and token files, a pending login | sync, push, login, paste-back | token refreshed while a login writes it; names taken meanwhile | `GoogleAccess`, `Sources`; `ScanGate` (its gate) |
| Workbook layer (`workbook/`, `workbook_utils.py`) | snapshot cache | cell rules, names, previews | string work; cache keyed by file state | `Sources` (choice of sheet and name) |
| Reports and export (`reports.py`, `api/export.py`, ...) | none | pure functions over rows | none | no |
| Proxies (`proxy_utils.py`, `api/proxy.py`) | process-wide pool | parse, choose, check | string work | no |
| Riviu Data HTTP API (`api/riviu_data.py`, `api/internal.py`) | none | report reads, `/internal/scan` | reads beside scans | `ScanGate`, `Published` |
| Web interface (`src/frontend`, `web/static`) | a view of the run channel | start, cancel, reconnect | replay after reconnect | no |
| Wiring and tools (`app.py`, `server_context.py`, ...) | settings | start-up and shutdown order | resume before the scheduler | `ScanGate`'s callers |

How they interact. Every start (a /ws message, a slot, `/internal/scan`, a resume at boot) passes the
gate of `scan_state`, prepares the run (file, cookies) and creates the lane's task.
The task opens the store (advisory lock, `scan_run` row) or the workbook, begins its journal and runs
passes under a watchdog. A pass tells the journal which rows it has saved; stall restarts, retry
passes and resumes read it back. When a Riviu Data scan ends it refreshes the published page.

What makes each correct:

- gate: one scan per lane, no scan beside a source mutation, a hold that is set exactly while a
  start holds it, a cancel that reaches the scan that runs, a lane that opens again;
- run and journal: a row is skipped only if its result is saved, no row is scanned twice by one
  process, a completed run covered every row, restarts are bounded, an ended run is not continued;
- published pages: a page is that of a finished scan, without later links and later numbers;
- scanners: every link given to a pass is reported once, whatever dies; what is reported is saved;
  a Threads post is never sent over two routes, and no page slot is lost;
- checks of one link: the numbers of a row are its post's, cleared only on proof, given up for
  nothing worse, and with a cookie session only those of pages that proved the login;
- store session: numbers are those of the link a row has; merged and repeated flushes change nothing;
- scheduler: each slot runs once per minute it is due, and is recorded;
- cookies: a verdict about replaced cookies changes nothing;
- accounts: what ended a session ended it for good, and nothing else ends one;
- Google access: of several logins the last stands;
- sources: the registry names what a workbook was loaded from, the selection fits the workbook.

## The modules

### ScanGate

The program is one event loop, so a step is the code between two suspension points: a test and the
hold that follows it are one action exactly where the code has no `await` between them (the
scheduler, the resume, `/internal/scan`), and two where it has one (`/ws`).

A *starter* is one caller and the one scan it may start. Its `pc` follows the start (`checked` -> `waiting` -> ... for
`/ws`; `held` -> `session` -> `ready` -> `started` for slots and resumes; `held` -> `locked` -> `started` for Riviu
Data); `run` follows the task (created, opening, `locked` between the advisory lock and the end of `begin_scan_run`,
scanning, closing, ended, cancelled before its first line, finalizing). `starting`, `running`, `laneRun` and
`sourceBusy` are the fields of `scan_state`; `outerPrev` and `innerPrev` are the `previous` locals of the nested
`scan_starting` blocks; `lock` is the Postgres advisory lock. `Postgres` chooses the storage, and with it the lanes.
The set of callers of each kind is a constant.

Abstracted: what a start carries (file, sheet, partners), why it is rejected, the passes of the scan
(`ScanRun`). The internal scan's release of its advisory lock is merged with the return of its task.

### ScanRun and ScanPromise

`pc` names the await the run is in: `passWrite`, `stallWrite`, `mark`, ... are journal writes that
run in a worker thread; `unwind` is a cancelled or failed pass that is still saving; `resume`,
`countWrite` and `prepare` are the steps of the next process. `mem` is the `RunJournal`, `disk` the
file. Cancelling a coroutine does not stop its thread, so a write it abandons goes into
`late` and lands later, or never if the process dies (`Die`). `saved`, `again`, `restarts`, `ended`
and `tally` record what happened, for the properties.

Assumptions of the model, all from the code:

- A pass's save of a batch and its report to the journal's memory are one step: the hook is called
  by the saver after the save succeeded, with no await in between. (A cancelled Riviu Data flush is
  the exception: `pass_flush`.)
- A cancelled pass ends. (One that waits for an autosave that fails does not: `CancelPropagates` below.)
- The watchdog does not fire while a journal write is pending: it looks at the last result, which
  the write follows within the same await chain.
- With `SlowWrites = FALSE` an abandoned write lands before later ones. Threads give no such promise,
  so the properties about the file's truth are checked with `SlowWrites = TRUE`.
- A fresh run starts when no write of the previous one is still in a thread (minutes against
  milliseconds).
- Only the server resumes, once, at boot. A server shutdown is a death: what it still saves on the
  way out is a longer prefix of the same run.
- Result codes are merged by how they are treated: `s`, `h`, `e` to `"s"`; `r`, `l` to `"r"`; `p`
  (login needed) stays. Rows the store skipped because staff changed them count as saved.
- The lengths of cool-down and stall time, the Google push, and the workbook being deleted in the middle
  of a run are left out. Whether a cookie session is usable (`login`) is chosen freely.

`ScanPromise` is what is left when passes, threads and retries are forgotten: one run at a
time, one file that names rows of one run and only grows, a bounded number of continuations, and no
continuation of a run whose file was removed. `ScanRun!KeepsPromise` is the refinement.

### TikTokPass

One call of `run_scraper`. `workQueue`, `browserQueue` and `resultQueue` are the three asyncio queues (`NoLink` is the
end marker `None`); `at` and `item` say where each worker's loop stands and what its `current_item` is; `marker`
follows the task of `_finalize_hybrid_workers`. `pc` is the await the pass is in: `consume` (waiting for a result),
`late` (that wait timed out, the loop has not looked yet), `result` (telling the page), the saves and the hooks that
follow them, `join`, `shutdown` (workers cancelled, not yet joined), `release` (browser, proxies, cookies, driver),
`prepare` (the summary, in a thread), `notes` (telling the page what the summary noted), the final save. `err` is what
the pass will raise. `buffered` are results that exist only in memory: the open workbook's or the store session's
`_pending`; `unsaved` is `unsaved_rows`; `reported` what `on_rows_saved` was given. `times`, `givenUp`, `died`,
`saveFailed` and `notesCut` record what happened.

Both storages, and request, hybrid and browser runs, are initial states. A cancellation may arrive at
every await: it breaks the loop (`CancelLoop`), waits for work that `finish_pending_task` owns
(`CancelOwned`, `CancelSave`), or interrupts what nothing owns: a flush (`CancelFlush`), the warning that a save failed
(`CancelWarning`), the notes before the final save (`CancelNotes`; nothing saves after that one: `StoppedKeepsResults` is refuted).

Abstracted: what a result says and how often a link was tried; the rows that share a link (one link, one
row); the conditions of the autosave, which may come after any result but the last; the limit on
browser contexts, so a context may be recycled after any link; the time limits.

A timeout of the consume loop may race with a late result: `wait_for` has given up, the last
worker puts its result and ends before the loop looks, and `abandon_remaining` records an error for a link
whose result is in the queue. The window is one turn of the event loop; `GivenUpOnlyIfDead` allows
for it by name.

### PassPromise

`ScanRun` knows of a pass only that it saves batches of rows, tells the journal of them, and ends: done (`MainDone` with
`Todo = {}`), stopped by HTTP 429, or broken, saving on its way out what it had (`PassBreaks`, `UnwindSave`, `UnwindFails`).
`PassPromise` is the other side of that contract, what `on_rows_saved` in `run_scraper` and `run_threads_scraper` is
documented to do. `waiting` are the rows with a result that the journal has not been told of, `kept` the rows whose result
is in the file or the database, `told` what `on_rows_saved` was given, and `how` says how the pass ended. A row is recorded
once (`Record`), told once and with the save that kept it (`Save`); a save may fail, or be cancelled before its
report (`FailSave`, `CutSave`). `Ending` is what a pass owes: if nothing `failed`, everything recorded is kept, however it ended;
nothing waits for its report unless the pass broke; and a completed pass has told every row.

`TikTokPass!KeepsPromise` and `ThreadsPass!KeepsPromise` are the refinements. `failed` is a save that failed and, of a
TikTok pass, a cancellation in its notes, after which it is never tried (`saveFailed \/ notesCut`). `sure` says that a
save is finished before a cancellation goes on. It is false only for a TikTok pass over a store session: its flush is
not owned by `finish_pending_task`, so a cancelled one may lose its batch and have it told all the same
(`pass_flush`). What is then still promised is the rest: one record and one report of each row, and all of them when
the pass completes.

### Published

One month of one platform. Staff add posts (`AddPost`), this server's scans begin, write numbers row
by row and end (done, cancelled or failed), requests and the scan's own refresh go through
`report_rows`: `LookUp` (first query), `Enter` (the lock and the second look at the snapshot),
`ReadRows` (second query), `HandOut`. A page is the set of its posts with the scan whose numbers
each carries. A restart forgets snapshots, locks and requests. With `Crashes` a scan may die, or fail
to record its end, and leave its row `dang_quet`.

The scans are this server's: the gate starts the next one only after the task of the last has
returned, refresh included. Edits and deletions of posts, which `report_rows` reads as they are, and
requests cancelled by their client are left out.

### TikTokParse, TikTokPage and TikTokNames

What one link comes to. `TikTokParse` is `parsing.py` without its JSON and HTML: a page is the address
it led to and the items embedded in it, each with its blobs of numbers; the operators choose the item of the
post asked for, the largest number of each field, and judge whether they are plausible. `Readings` are all
that pages of the bounded kinds can be read as.

`TikTokPage` is the check from the first fetch to the row. `phase` is what it waits for: a `fetch` over
HTTP (with the addresses `used` in this attempt, and the second fetch of one), a page that opens in
Chromium (`open`) and is read until two reads agree (`poll`), the decision whether to try again (`judge`), the
embed page that says whether a post is gone (`confirm`), the row (`record`). A link that
carries no id of its post (`named` is false) is of whichever post it led to the time before, if the row
knows it (`expected`). `hid`, `streak` and `found` record what proofs there were.

`TikTokNames` is one profile whose posts are checked by several threads that share `channel_cache`
and `profile_lookup_attempted`: what the page shows, the cache, the sheet, the profile's own page
(`Claim`, `Profile`), the fallback, and the row written by the event loop. A name is one of six texts that
the rules tell apart.

Abstracted: how items are cut out of pages; comments and shares go with the likes; waits between
attempts; which status an unreadable page is given.

A short link whose row knows its post must lead there for its numbers to be written (`OtherPost`, which is
`guard_result_media_identity`). The guard looks at successes only, so such a row is cleared by what another post
answers: `ClearedForItsPost` is refuted. `ClearedOnProof`, which the passing run checks, holds a row to what was
proved of one post, and that is the named one if the link names it.

### ThreadsPass, ThreadsPage and ThreadsNavigation

`ThreadsPass` is one call of `run_threads_scraper`. Every post is a task; `at` names its await (`queued` for
a slot, `pace` for its route's turn, `request`, `gap` and `retry` for the second request, `fallback`, `fbqueued`,
`fblaunch` and `fbpage` for Chromium). `free`, `waiters` and `granted` are `_RouteSlots`; `granted`
are tasks whose future is resolved and that have not resumed, the window in which a cancellation must
hand the slot on (`Dropped`). `retired` are the routes an HTTP 429 took out. `pc` is the await of the
result loop: waiting for tasks, saving, stopping, cleaning up. `asked` records the routes of each
post and `answer` what a post has been answered: `thin` is a first answer without a core number, after which the task asks once
more. The stop for HTTP 429 cancels a task that has a thin answer in hand (`CutShort`) and drops it.
A cancellation, failing saves and refused cookies may come at every await.

`ThreadsPage` is one check: the HTTP answer, a second one, then snapshots of a page in Chromium, each parsed and
merged into the last (`Merge`), up to the row. A page is what its payloads contain: the sets of
numbers they give for the views and for one action, a number in its header, and what it proves of the login.
`seen` records those proofs, `nulled` that the post's own view query has answered null.

`ThreadsNavigation` is `navigate_session_page` and the route handler `install_session_navigation_guard`
puts under it. Chromium, modelled from how the code uses it, sends the requests; each attempt has a handler that
follows redirects itself, fulfils the page with the last document or aborts the attempt so that
`goto` starts again at the new address. `shown` records what Chromium shows and where its document came
from.

### Schedule

`now` is the clock in minutes, `previous` the last tick. A `Tick` may come late, or twice in a minute; it
puts the slots of every minute since into `due`, and `TickGroup` starts one batch per lane or records that
the last one is still running. A batch runs its jobs one after another, each with its months
(`JobBegin`, `MonthBegin`, `JobStart`, `JobScanned`). What else keeps a lane busy is in `ScanGate`, so a job may be
skipped at any time. The schedule may be edited, and the server restarted, between any two steps. The
clock does not run backwards; a day has three minutes.

The jobs of a batch and the months of a slot are sets, taken in the order the code has sorted them into
(`FirstJob`, `FirstMonth`).

### CookieSession

`mem` is the session object with its generation, `disk` the encrypted store, which may refuse. `op` is
the endpoint call that holds the source gate (an import that checks before it commits, a
verification), `late` a commit whose call was cancelled twice and whose thread goes on, `scan` a scan
that took a snapshot and may find the login refused. `proof` records the cookies a verdict was found with,
`overtaken` whether what a call checks was replaced meanwhile. The rules an import is held to are `Verdict`.

### Accounts

The accounts file, which `python -m riviu.server_mode` edits from another process (`Command`), the sessions
in memory and on disk, logins that check a password in one thread and create the session in another
(`LoginPost`, `LoginForm`, `LoginChecked`, `Create`), logouts, the limiter of failed logins, restarts and
saves that fail. The session file is read once, at the first use. `kept` and `ended` record what sessions were handed
out and what ended them, a logout that finds no session included, and `left` those a failed save has left on disk (until
a save succeeds).

### GoogleAccess

The key, client and token files; `io` is the thread that holds `GOOGLE_IO_LOCK` with the token it has
read, `login` the call that holds `GOOGLE_LOGIN_LOCK`: on a desktop it waits for the user's browser, on a server the user pastes
an address back. Tokens are known by the login that wrote them.

### Sources

The workbooks (`files`), the registry of their spreadsheets, the selection in its three parts, and the saved sources of each
platform. `jobs` holds the request that has the source gate and the scheduled run that has the scan
gate; a preview (`view`) takes neither. Two spreadsheets have one title, so their workbooks want one
name. A step of a job may fail at any point (`Leave`).

Handlers run on the event loop, but a scheduled run selects its workbook in a worker thread: `Adopt` saves the
sources, `AdoptFile` and `AdoptSheets` write the file, the sheet and the scan sheet one by one, and no cancel stops
them. What tests the selection and then writes a part of it is therefore two steps: `ReadTest` and `ReadFallsBack`
(`ensure_selected_file`), `PreviewTest` and `PreviewShows`. `reader` is the handler between its two steps, during
which no other runs; `crossed` records that the thread wrote meanwhile, until the next selection.

### StoreSession

A run's passes over the rows of a month: `Open` reads links and names, `Result` buffers what a result
writes (`rules.py`), `FlushBegin` takes the buffer, and the transaction commits, fails or is cancelled. Staff
edit a link, delete, restore, lock or rename a row at any time. A number is known by the result that brought it and the link
it was read from. `told` is the row as its results would have made it one at a time.

### The modules for TLC

`MCGate`, `MCTikTok`, `MCThreads`, `MCServer` and `MCData` put modules side by side in one run: each
behaviour is that of one of them, chosen at the start, while the others stay put. They are levels of one
thing (a pass sees of a check only its outcome) or parts of one server. Where parts do share state, the module
itself has both sides: a scheduled run and requests in `Sources`, passes and rows in `StoreSession`.

## The runs

Passing runs:

| run | module and bounds | properties | what it shows |
|---|---|---|---|
| `gate_workbook` | `MCGate`. `ScanGate`, one lane: 2 slots, 1 resume, 2 source mutations, 2 platforms. `Published`: 1 post, 2 requests and the refresh, 2 scans | `OneScanPerLane`, `SourceExcludesScans`, `HoldIsOwned`, `RunIsTracked`, `KeptIsOfItsScan`, `GateAlwaysReopens`, `RefreshPublishes`, `PagesAnswered` | exclusion and progress of workbook storage; pages and refreshes without crashed scans |
| `gate_lock` | `ScanGate`, two lanes; 1 /ws client, 1 internal scan, 1 resume | `LockSound` | the advisory lock holds even where the gate does not |
| `run_main` | `MCScanRun`: `ScanRun` with 2 interchangeable rows, codes s r p, cap 1, two runs | `RowsScannedOnce`, `RestartsCapped`, `JournalRespected`, `KeepsPromise` | runs through stalls, retries, cancels, deaths and resumes; the refinement |
| `run_slow` | `ScanRun`, 2 rows, code r, cap 2, failing disks, overtaken writes | `JournalNeverAhead`, `RunEnds` | the file never names an unsaved row; every run ends |
| `pass_main` | `MCTikTok`. `TikTokPass`: 3 links, 1 request worker, 2 browser workers, both storages, 2 cancellations. `TikTokPage`: 2 addresses, 2 attempts, 3 polls. `TikTokNames`: 2 threads | `LinksAccounted`, `PoolIsFree`, `NothingLost`, `RowOfItsPost`, `NamesSound`, `PassAlwaysEnds`, `KeepsPromise` | no link is lost or recorded twice whatever dies, a pass ends and implements `PassPromise`; rows are of their posts; one look-up per profile |
| `threads` | `MCThreads`. `ThreadsPass`: 3 posts, 2 slots, 2 proxies or the direct route, with and without cookies, both storages, a failing save. `ThreadsPage`: 2 numbers, 2 polls. `ThreadsNavigation`: 2 addresses, 6 hops, 2 navigations | `OneRoute`, `SlotsConserved`, `EndKeepsAnswers`, `OnlyProvedNumbers`, `NavigationSound`, `BestNumberStands`, `PassAlwaysEnds`, `KeepsPromise` | retirement, slots and checkpoints; the refinement of `PassPromise`; what is written is proved and best; navigations |
| `schedule` | `Schedule`, both storages: 3 minutes a day, 2 platforms, catch-up of 2, a restart, an edit | `EachMinuteOnce`, `CaughtAreLogged` | every due minute once, and recorded |
| `server` | `MCServer`. `CookieSession`: 2 exports, 3 generations. `Accounts`: 2 names, 3 hashes, 2 sessions, 1 failing save. `GoogleAccess`: 2 logins | `VerdictIsOwn`, `SessionsExact`, `LoginsStand`, `OvertakenIsVoid` | verdicts, sessions and tokens are of what is stored now |
| `data` | `MCData`. `Sources`: 2 spreadsheets, 2 workbooks, a save, a restart. `StoreSession`: 2 rows, 2 links, 2 results, 2 passes, an edit | `SourcesMatch`, `NumbersOfLink`, `SavedIsTold`, `OthersKept` | sources and rows through overlapping calls, edits and failed flushes |

Several of these properties are conjunctions, named for what they say together; the parts stand beside their
definitions (`LinksAccounted` is `TypeOK`, `RecordedOnce` and `GivenUpOnlyIfDead`; `NothingLost` is
`ReportedIsInFile`, `DoneCoversAll` and `ElsewhereKeepsResults`; `SessionsExact` is `EndedIsSaved` and `KeptIsLive`,
`SourcesMatch` is `RegistryMatches` and `SheetsFitUncrossed`, each with `TypeOK`; `LockSound` is `LockExcludesScans`
and `LockIsOwned`; `JournalRespected` is `NeverRescanned` and `StopIsFinal`; and so on).

Runs that TLC refutes, each a disagreement between the code and what it says of itself:

| run | property | what happens |
|---|---|---|
| `gate_ws_overlap` | `OneScanPerLane` | the /ws handler tests the gate, awaits `prepare_scan_start`, and begins without testing again: a slot's scan may have begun meanwhile. A source mutation slips through the same gap |
| `pass_flush` | `ReportedIsStored` | a cancelled flush loses its batch, the shutdown flushes an empty buffer with success and reports the lost rows as saved, so a restarted pass skips them |
| `server_logout` | `EndedStaysEnded` | a logout forgets the session, then its save fails; repeated, it finds nothing, saves nothing and is answered; a restart reads the session again |

The quotes and lines are under `findings` in `PROJECT.json`.

### Statements that TLC refutes without a run of their own

Each is a definition of a module (or a change of one constant) and was refuted with the constants of the passing run
of its module. The first five, and the one of `server_logout`, have a neighbour in a passing run that says what is left:
`ElsewhereKeepsResults` (in `NothingLost`), `ClearedOnProof` (in `RowOfItsPost`), `EndKeepsAnswers`, `BestNumberStands`,
`SheetsFitUncrossed` (in `SourcesMatch`) and `EndedIsSaved` (in `SessionsExact`). Each excepts the one case by name.

- `TikTokPass!StoppedKeepsResults`: the `except CancelledError` that saves pending results covers the await of the preparation
  only. The notes it returns are broadcast after it (`platforms/tiktok/runner.py:720-722`) and before the final save; a cancellation there
  loses what was recorded since the last autosave. `runner.py:714` says "the scanned results still reach the file".
- `TikTokPage!ClearedForItsPost` (in `MCTikTok`): `guard_result_media_identity` compares the post of successes only (`runner.py:85`), so a
  short link that leads to another post than before, which hides its numbers or is gone, clears the row
  (`workbook_io.py:434`). `tests/test_scraper.py:1466` is named `test_guard_result_media_identity_rejects_changed_short_url_target`.
- `ThreadsPass!AnswersInHandCount`: the stop for HTTP 429 cancels every task that is not done (`platforms/threads.py:1284`), also one that has its
  first HTTP answer and waits to ask once more; the answer is dropped. `threads.py:1282` says "answers already in hand
  count", `docs/threads-scanning.md:14` that what was scanned is saved.
- `ThreadsPage!NullGivesUpRounded` (in `MCThreads`): a count read from the rendered card has no source (`threads.py:578`), so when the post's
  view query answers null afterwards `merge_results` leaves the rounded count (`threads.py:417`), and it is written.
  `docs/threads-scanning.md:20` and `:44` say that a null gives up the old views and no text fills in for it.
- `Sources!SheetsFit` (in `MCData`): the thread of a scheduled run writes the three parts of the selection (`scheduler.py:503`,
  `source_files.py:141-143`) between the test and the write of `ensure_selected_file` (`source_files.py:115-135`) or of a preview
  (`api/sources.py:141-142`): the file of one workbook stays with the sheets of another. `tests/test_backend_review_fixes.py:206` asserts
  that a slow preview leaves the sheet of a workbook selected meanwhile.
- `TikTokNames!NicknameStands` (in `MCTikTok`): a page that shows no nickname gives `@handle`; its `@` is dropped
  (`platforms/tiktok/channels.py:121`), the bare handle passes for a nickname and replaces the one in the row. `channels.py:215`
  says "re-scrapes never downgrade a better existing value".
- `ScanGate!HoldIsOwned` with a /ws client and a slot: overlapping `scan_starting` blocks restore each other's
  `previous`, and the hold drops early or stays for good. `scan_state.py:248` says a start in
  progress counts "as a running scan".
- `ScanGate!GateReopens` with `Internals = {i1}` and `Postgres = TRUE`: a user cancel before the first line of
  an internal scan leaves its lane running, because `internal_scan.start_scan` creates its task without
  the `finalize_unstarted_run` callback.
- `ScanRun!EndRemovesJournal`: a cancel that arrives before `begin_journal` returned clears nothing, and a resumed run that
  fails before it keeps its file: the next process resumes the run. `scan_journal.py:20` says the
  journal "is removed when the run ends normally, fails, or is cancelled by the user".
- `TikTokPass!CancelPropagates`: a cancellation that waits for an autosave is lost when that save fails (a
  workbook open in Excel), and the scan goes on to its end (`platforms/tiktok/lifecycle.py:20`).
- `Published!PartialStaysOut`: numbers of a scan that began between the two queries, or of a cancelled
  scan, are kept in the page of the scan before (`store/published.py:10`).
- `Published!RefreshPublishes` with `Crashes = TRUE`: a row left `dang_quet` by a crash (or by a failed
  `update_scan_run`, which is only logged) makes every later scan of the month look as if another one ran
  beside it, so no snapshot of that month is kept again.
- `ThreadsPass!NoRequestOnRetired`: a page of Chromium that waits for the browser to start goes out over a
  route retired meanwhile; `docs/threads-scanning.md:12` says that no request does.

### Why the bounds are enough

The gate's hazards are between two callers; three or four starters of different kinds add a third party to each pair,
and two mutations the case of a mutation against a mutation. A starter starts again after its scan returned, so
sequences are unbounded. The exclusion of platform lanes, which TLC checks for one lane only, is proved for any. In
`ScanRun` two rows separate "this row" from "another", a cap of two lets a restart follow a resume, a cap of one lets
the next be refused, a row of code r goes through every kind of pass, and two runs are enough for a file of the older
run to meet the newer one. Two scans of a month give a page an older and a newer scan; the first may end in each way.
In a TikTok pass, two browser workers let one take what the other put back, three links let one be recorded, one be in
hand and one be queued, and two cancellations are the most a pass gets (the user's and the watchdog's). In a Threads
pass three posts over two slots leave one waiting while a slot is granted, and two routes let one be retired while the
other goes on, and then both. Two attempts with two addresses let an answer on a deletion meet another address; three
polls let the second and the third agree after the first did not. A day of three minutes and the first of the next let
a batch last into the second slot and a tick fall past midnight, within and beyond the catch-up limit of two; no slot
is due twice within the clock, and that slots of any day are recorded once is proved. Three generations let a check be
overtaken twice, two sessions let a logout meet a login. Accounts, exports of cookies, spreadsheets, platforms of sources, rows and links are told apart by no definition,
so `server` and `data`, which state no liveness, use their symmetry. Two spreadsheets that want one name make a workbook take
another. Two results of a row over two passes let one come in during a flush of the other.

`MaxRuns`, `MaxScans`, `MaxCancels`, `MaxResume` (the constant of the code), `MaxFails`, `MaxPolls`, `Budget` (`remaining`
of the code), `MaxNavs`, `Limit`, `Retries`, `Horizon`, `MaxRestarts`, `MaxEdits`, `MaxGen`, `MaxSeq`, `MaxHashes`,
`MaxTokens`, `MaxFaults`, `MaxLogins`, `MaxFiles`, `MaxSaves`, `MaxResults` and `MaxPasses` are the counters, and all are bounded.

Deadlock is checked in the runs of scans and passes. It is not in `gate_lock` (with /ws starts or a cancelled
internal scan a lane can stay closed for good, see above, and with one caller of each kind nobody is left to
move) and in `schedule`, `server` and `data`, where the bounded clock and the bounded callers run out.

Every property of a passing run has a mutant (`PROJECT.json`, `mutants`): a plausible bug
in one mapped definition, kept in the module beside the definition and marked `Mutant`, under which
TLC refutes the property. Properties of several parts have one for each kind of mistake.

## Fairness

- `ScanGate`: every coroutine whose await has completed is resumed by the event loop, requests have
  timeouts and the watchdog ends a pass that hangs, so each starter's own steps are weakly fair. Nobody is
  assumed to ask for a start, to cancel, or to begin a mutation.
- `ScanRun`: the steps of the run and of the resume are weakly fair, and threads finish their
  writes. Deaths, cancels and new runs are not fair.
- `TikTokPass`: requests and pages have timeouts, so a worker's steps are weakly fair, and so are the
  steps of the pass and of the marker task. Deaths, failures of the loop and cancellations are not. A database that hangs
  for ever is the watchdog's business and outside `PassEnds`.
- `ThreadsPass`: HTTP requests and `goto` have timeouts. Reading a page (`content`, `evaluate`) and closing its context have
  none of their own; where they hang, the scan's watchdog cancels the pass, which is outside `PassEnds`. That they return is assumed; so each task and the result
  loop are weakly fair. A checkpoint that comes due and a cancellation
  are not fair.
- `Schedule`: the loop ticks (`Tick`), and a lane's batch goes on; that its scans end is `RunEnds` and
  `PassEnds`. The clock, edits and restarts are not fair.
- `Published`: queries return or fail. `Enter` is strongly fair, because `asyncio.Lock` wakes its
  waiters in the order in which they came.

The other modules state safety only.

## What is proved

| theorem | assumes | statement |
|---|---|---|
| `ScanGate_proofs!GateTypeCorrect` | | `TypeOK` always |
| `LanesExclude`, `SourceExclude`, `HoldsOwned`, `RunTracked` | `WsClients = {}` | `OneScanPerLane`, `SourceExcludesScans`, `HoldIsOwned`, `RunIsTracked` |
| `LockStays` | | `LockSound`, /ws starts included |
| `PagesStay` | | `KeptIsOfItsScan` |
| `RefreshStays` | `~Crashes` | `RefreshPublishes` |
| `ScanRun_proofs!RunTypeCorrect` | | `TypeOK` always |
| `NeverAhead`, `RowsStay`, `JournalHeeded` | | `JournalNeverAhead`, `RowsScannedOnce`, `JournalRespected`, for failing disks and writes in any order |
| `RestartsBounded` | `~DiskFails` | `RestartsCapped` |
| `ScanPromise_proofs!PromiseKept` | `~SlowWrites`, `~DiskFails` | `KeepsPromise`: the refinement |
| `TikTokPass_proofs!PoolsOutlive` | | `PoolIsFree` |
| `LinksStay`, `ResultsStay` | | `LinksAccounted`, `NothingLost` |
| `TikTokPass_proofs!PassKept` | | `KeepsPromise`: the refinement of `PassPromise` |
| `RowsOfPosts` | | `RowOfItsPost` |
| `NamesStay` | | `NamesSound` |
| `ThreadsPass_proofs!RouteKept`, `SlotsKept`, `AnswersKept` | | `OneRoute`, `SlotsConserved`, `EndKeepsAnswers` |
| `ThreadsPass_proofs!PassKept` | | `KeepsPromise`: the refinement of `PassPromise` |
| `NavigationsStay` | | `NavigationSound` |
| `NumbersAreProved`, `BestStays` | | `OnlyProvedNumbers`, `BestNumberStands` |
| `Schedule_proofs!MinutesStay` | | `EachMinuteOnce` |
| `Server_proofs!VerdictStays`, `OvertakenStays` | | `VerdictIsOwn`, `OvertakenIsVoid` |
| `SessionsStay`, `LoginsStay` | | `SessionsExact`, `LoginsStand` |
| `Data_proofs!NumbersStay`, `MergesTell` | | `NumbersOfLink`, `SavedIsTold` |
| `SourcesStay`, `OthersStay` | | `SourcesMatch`, `OthersKept` |

A property a run checks is proved in the run's own words. Beside the hypotheses in the table the proofs
rest only on the named assumptions on the constants, which TLC evaluates in the runs: sets of workers and
browsers are finite, bounds are numbers, and the values that stand for "nothing" (`NoJournal`, `NoFile`, `NoOne`,
`None`, `NoUrl`, ...) are none of the things they stand in for. Of `SourcesAssumption`, that the sheets of a workbook are
counted from 1 is the position `openpyxl` gives them. `CheckAssumption` also says that no reading of a
page is taken for no reading.

*The gate.* None of the exclusion properties is inductive. A hold that is released restores what it
found, so one must know that it found the right thing (`PreviousIsRight`), which needs that no two
starts are in holds of one lane (`HoldsDisjoint`) and none beside a scan of that lane
(`HoldExcludesRun`); these rest on the fact that a start that holds has no task yet
(`HoldBeforeRun`). The conjunction, `ExclInv`, is proved one action at a time. The two lemmas that carry the
argument are `FreeLane` and `FreeProgram`: a caller that passed its test finds no other start and no
scan in its lane, or in the program. `RunTracked` adds (`ShownInv`) that a lane points to its scan until the
scan's last callback has run, and that nobody is inside a hold of that lane meanwhile: a hold would have
to have been taken where a run was shown. `WsClients = {}` is needed: with /ws
starts the properties are false (`gate_ws_overlap`, and overlapping holds).

*The lock.* `LockInv` says that a run holds its platform's lock while it scans and, if it takes the lock itself, while
it writes its row (`HasLock`), and an internal one from the moment its start is `locked`; a run starts with no run of
the same starter alive. `OwnerScans` is the converse for the runs whose `StoreRun` takes the lock: its holder scans.

*Published pages.* `PageInv` follows a reader over its two queries: the scan it looked up is done and stays done, and the rows it
reads are of the links added before that scan, whatever was added in between (`LookInv`, which rests on `ScansInv`: only the
newest scan can run). `FreshInv` is about the refresh that a finished scan starts: while it is under way no scan runs, so the
scan it looked up is still the last and the table is as that scan left it. `~Crashes` is needed: a row left running
by a scan that died keeps pages from being kept.

*The journal.* `JournalNeverAhead` is about the file. It is preserved only if memory and every
write still in a thread tell the truth too (`HonestInv`). Each step moves copies around (`Moves`,
one lemma for all such steps) or saves rows and then names them (`SaveHonest`); `saved` only grows.
`OnceInv` adds that every copy is `Sound` (a main pass that is done without a stop names every row), that the phases
past the main pass are reached with a journal that says so, and that what this process counted is in
its memory (`Tallied`), from which the next pass is computed. `RespectInv` says that the file and every write in flight
are `Behind` the memory of the run under way, and that no copy is of a run that has not begun.

*The cap.* `CapInv`: every copy of the journal, in memory, in the file or in flight, has counted the
restarts that happened; an abandoned write is in flight only when the run is being cancelled or the process is idle, so an older
count cannot be written over a newer one. If a write fails, the attempt it counts may be lost with
the process, so `~DiskFails` is needed.

*The promise.* `FileInv` joins `CapInv` and `RespectInv` with what the next write will do to the file: it `Continues` the
file (a later journal of its run, or the first of a newer one), at most one write is in flight, and no copy is
left of a run whose file was removed. Under it every action of `ScanRun` is one action of `ScanPromise`, or changes nothing that
is named there (`StutterStep`, `BeginStep`, `RecordStep`, ..., one lemma for each kind). The hypotheses are needed: the code
waits neither for an abandoned thread nor for a write that failed, so an older journal may replace a newer
one, or the file of an ended run come back. The run that checks the refinement has the same two constants. What holds without
them is `NeverAhead`, `RowsStay` and `JournalHeeded`.

*The TikTok pass.* `SaveInv` adds that the rows waiting for their report are in the open workbook or in the file: a
save moves all of the first to the second before `rows_saved` runs, and nothing else empties the workbook. It is
stated for workbooks only; for a store the cancelled flush empties the buffer (`pass_flush`). `PoolInv` adds to
`PoolIsFree` the rest of the way from the join of the workers to the end, and that workers of another kind of run
never begin: a worker that steps has not ended, so the pass cannot have joined it. `LinkInv` is what makes a count of
results a count of links: while the loop takes results, every link is in exactly one of the three queues, one worker's
hands or the record (`InOnePlace`); end markers lie behind all links, so that a worker that ends leaves nothing behind
in the queue it reads (`EndsInv`); and the fallback queue is marked only after the last worker that could put a link
there. `ResultsInv` follows results from memory to the file to the journal; at the end of a pass none is left on the
way, unless a save failed, a flush was cancelled, or the pass was while it told the notes of its preparation.

*The promise of a pass.* A refinement is proved from what is already known of a pass: `PassInv` and `ResultsInv` for
TikTok; for Threads `PassInv`, and `KeepInv`: only what the loop took is recorded, unsaved rows make the book `dirty`,
and at the end nothing waits unless a save failed. Together they give `OwesNothing`, what a pass owes in terms of its
own state. With it each action of the pass is one action of `PassPromise`, or changes nothing that is named there; the
step that ends the pass pays what is owed (`EndsWell`).

*The check of a TikTok link.* `CheckInv` says where a number on its way to the row came from. Whatever an attempt, a
poll or the second fetch of an address has kept is of the post its page led to, which is the row's own if the link is
named (`ReadOf`); a `hidden` that is kept was said by a page of the post the attempt led to (`HidSaid`), and a link is
unavailable only after its embed page said so twice in a row of the post the check asked for (`GoneSaid`); for a named
link that is the row's own, for a short one it need not be the post it led to before. A success that was `found` is
held at every step until the row, where it is written, or refused as another post's. That parsing lets through only
numbers of the post asked for is `CountsFacts`, for any items and blobs.

*The names of a profile.* `NamesInv`: the page was asked for exactly when the handle is claimed, and until its write a row
has the name it began with, so that the write compares with that name and not with one of another step.

*The Threads pass.* `RouteInv`: until a task's first request its `asked` is empty, afterwards it is the route it has.
`SlotInv` adds to the count of slots that the queue of waiters is exactly the tasks that wait and were not granted
(`QueueOK`), and that nobody waits once tasks are cancelled, so that a slot handed on is neither lost nor given to a
task that is gone; the cardinalities move by one with each task (`HoldingMoves`). `EndInv` relates answers, the loop
and the file; its point is that a skipped post means that all routes are retired, hence that an answer that retired
the last of them stops the loop. An answer that was not taken is then one of a cancelled task (`CutShort`).

*A Threads post.* In `NavInv` each hop and each attempt is paid for from the budget (`HopsPaid`), hence an attempt
that may be continued has a next one; only the handler of the last attempt knows the final address (`HandlersKnow`), a
late one can only abort. In `CheckInv` numbers are proved when they are first kept, and evidence against the login is
there only when the check is over, so that no later answer can cover it. That a merge finds no number of its own and
keeps what the view query told (`Told`: a rounded count is a header's or, with no source, a card's, and of HTTP
answers none is a card's) is `MergeIs`, a lemma about `merge_results` for any two results; what a single page gives is
`ReadingIs`.

*The scheduler.* `ScheduleInv`: what is due is in no batch and not in the log (`DueInv`); of a batch only the slot
whose turn it is may have entries, for the months it is through with (`Orderly`); and every due minute since the first
tick is caught or due in this tick (`CaughtInv`).

*Cookies, accounts, Google.* `CookieInv` ties generations to cookies: a call that knows the current generation holds
the cookies of that generation (`Holds`), and whatever overtook a call has moved the generation on. `UserInv` says of
memory and of the file apart what `View` joins: an ended session is `Dead` wherever it is still written down, unless
it is `left`; a kept one is on disk; and what is on disk is in memory but for what has lapsed or is `left`
(`FileInv`), so that a save that succeeds leaves nothing behind. `GoogleInv` says who may hold which of the two locks,
and that what a call on a server has read is the last login's.

*Store session and sources.* `LinkInv` says of what is buffered and of what is being flushed that it was read from the
link of the session; the statement that writes it compares that link. `TellInv` is `SavedIsTold` for every moment:
what is saved, then flushed, then buffered make up what the results told; it rests on the lemmas that a write applied
twice changes nothing, and that merging two writes is applying both. In `SourceInv` a job's spreadsheet is that of the
workbook it loaded and its sheet one of that workbook (`JobFits`), the parts of the selection fit as far as the run's
thread has written them, unless a reader was crossed (`SelectionInv`), and a run's saved sources are current from its
download on, because a request cannot hold the gate beside it (`OneJob`).

Only model-checked:

- liveness (`GateReopens`, `PagesAnswered`, `RunEnds`, both `PassEnds`, `CaughtAreLogged`), which is
  outside the prover's reach;
- that `MCGate`, `MCTikTok`, `MCThreads`, `MCServer` and `MCData` put the modules side by side without changing
  them: the theorems are about each module's own specification.

## Not modelled, and why

- Reports and export, and most of the workbook layer: pure functions over rows that end in cells, texts and
  formats. The row snapshot cache is keyed by the state of the file and has no steps of its own.
- Proxies: parsing, and a random choice per thread. That the pool outlives its users, and the routes of a pass, are
  in `TikTokPass` and `ThreadsPass`.
- The web page: a view of the run channel.
- The contents of Google Sheets: what a push leaves there is not state of this program.
- Of TikTok: how JSON is cut out of HTML, the request throttle (it delays, and refuses nothing), the
  scan history file, a second rule of `select_fallback_result` that no pair of answers reaches.
- Of the accounts: origin and host checks of a request, which keep no state.

## What is left

Every safety property and every refinement that a passing run checks is proved. A next step would be to compose `ScanRun` with
`PassPromise` in place of its own passes; today the two meet at the actions named above, by reading. The
contents of a push to Google Sheets would need a model of the sheet.
