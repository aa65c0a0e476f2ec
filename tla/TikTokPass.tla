----------------------------- MODULE TikTokPass -----------------------------
(***************************************************************************)
(* One pass of the TikTok scanner: run_scraper of riviu/platforms/tiktok,  *)
(* its request and browser workers, the queues between them, the loop that *)
(* consumes their results, and the chain of saves that brings results into *)
(* the workbook file or the database and reports them to the run journal.  *)
(*                                                                         *)
(* What a result says is left out: a link stands for itself, its rows and  *)
(* its result. A cancellation may arrive at every await of the pass, those *)
(* that only tell the user something included; work that                   *)
(* finish_pending_task owns is finished first.                             *)
(***************************************************************************)
EXTENDS Naturals, FiniteSets, SequencesExt

CONSTANTS
    Links,          \* the links of the pass, after deduplication
    RequestWorkers, \* workers of a request or hybrid run
    BrowserWorkers, \* workers of a browser run, or fallback workers of a hybrid one
    Stores,         \* where results go: to a workbook (FALSE) or to a store session (TRUE)
    MaxCancels,     \* bound: cancellations of one pass (the user's, the watchdog's)
    NoLink          \* the end marker in a queue; no link in hand

Workers == RequestWorkers \cup BrowserWorkers
Total == Cardinality(Links)

ASSUME PassAssumption ==
    /\ IsFiniteSet(Workers) /\ Workers # {}
    /\ RequestWorkers \cap BrowserWorkers = {}
    /\ IsFiniteSet(Links) /\ Links # {}
    /\ NoLink \notin Links
    /\ Stores \subseteq BOOLEAN
    /\ MaxCancels \in Nat

VARIABLES
    store,        \* this pass writes to a store session
    hands,        \* the workers this run starts
    workQueue, browserQueue, resultQueue,
    at,           \* worker -> where its loop stands
    item,         \* worker -> current_item
    marker,       \* how far _finalize_hybrid_workers has got
    pc,           \* the await the pass itself is in
    err,          \* the exception it will raise
    cut,          \* a cancellation waits for the save under way
    cancels,      \* cancellations so far
    complete,     \* scan_complete
    processed,    \* the counter of the same name
    times,        \* link -> results recorded for it
    buffered,     \* links whose result is in memory and not saved: session._pending, the open workbook
    unsaved,      \* unsaved_rows
    stored,       \* links whose result is in the file or the database
    reported,     \* links passed to on_rows_saved
    givenUp,      \* links recorded by abandon_remaining
    died,         \* a worker stopped before its end marker
    saveFailed,   \* a save failed
    notesCut      \* cancelled while the notes of the preparation were told

queues == <<workQueue, browserQueue, resultQueue>>
crew == <<at, item, died>>
losses == <<saveFailed, notesCut>>
chain == <<buffered, unsaved, stored, reported, losses>>
counts == <<processed, times, givenUp>>
flow == <<pc, err, cut, cancels, complete>>
vars == <<store, hands, queues, crew, marker, flow, counts, chain>>

Requests == RequestWorkers \cap hands
Browsers == BrowserWorkers \cap hands
UseRequest == Requests # {}
Hybrid == UseRequest /\ Browsers # {}

\* The queue a browser worker reads.
BrowserInput == IF UseRequest THEN browserQueue ELSE workQueue

Gone(w) == at[w] = "gone"
AllGone == \A w \in hands : Gone(w)
EndMarkers(n) == [i \in 1 .. n |-> NoLink]
ReadLinks(q) == {q[i] : i \in DOMAIN q} \ {NoLink}

\* Request only, hybrid, or browser only.
Init ==
    /\ store \in Stores
    /\ hands \in {RequestWorkers, Workers, BrowserWorkers} \ {{}}
    /\ workQueue = SetToSeq(Links) \o EndMarkers(Cardinality(IF UseRequest THEN Requests ELSE Browsers))
    /\ browserQueue = <<>> /\ resultQueue = <<>>
    /\ at = [w \in Workers |-> "gone"]
    /\ item = [w \in Workers |-> NoLink]
    /\ marker = "none"
    /\ pc = "start" /\ err = "none" /\ cut = FALSE /\ cancels = 0 /\ complete = FALSE
    /\ processed = 0 /\ times = [l \in Links |-> 0] /\ givenUp = {}
    /\ buffered = {} /\ unsaved = {} /\ stored = {} /\ reported = {}
    /\ died = FALSE /\ saveFailed = FALSE /\ notesCut = FALSE

-----------------------------------------------------------------------------
(* The workers. A cancelled worker gets no further: see Stopped.           *)

Working == pc \notin {"start", "shutdown"}

Put(w, place, link) ==
    /\ at' = [at EXCEPT ![w] = place]
    /\ item' = [item EXCEPT ![w] = link]

\* get: a link, or the end marker.
TakeFrom(w, q) ==
    /\ at[w] = "get" /\ q # <<>>
    /\ IF Head(q) = NoLink THEN Put(w, "gone", NoLink) ELSE Put(w, "work", Head(q))

RequestTake(w) ==
    /\ Working /\ w \in Requests
    /\ TakeFrom(w, workQueue)
    /\ workQueue' = Tail(workQueue)
    /\ UNCHANGED <<store, hands, browserQueue, resultQueue, died, marker, flow, counts, chain>>

BrowserTake(w) ==
    /\ Working /\ w \in Browsers
    /\ TakeFrom(w, BrowserInput)
    /\ IF UseRequest
       THEN browserQueue' = Tail(browserQueue) /\ UNCHANGED workQueue
       ELSE workQueue' = Tail(workQueue) /\ UNCHANGED browserQueue
    /\ UNCHANGED <<store, hands, resultQueue, died, marker, flow, counts, chain>>

\* The HTTP request is over. A result that is not final goes to the fallback workers.
RequestDone(w) ==
    /\ Working /\ w \in Requests /\ at[w] = "work"
    /\ Put(w, "get", NoLink)
    /\ \/ resultQueue' = Append(resultQueue, item[w]) /\ UNCHANGED browserQueue
       \/ Hybrid /\ browserQueue' = Append(browserQueue, item[w]) /\ UNCHANGED resultQueue
    /\ UNCHANGED <<store, hands, workQueue, died, marker, flow, counts, chain>>

\* Mutant: the link stays in hand until the context is recycled.
BrowserDoneHeld(w) ==
    /\ Working /\ w \in Browsers /\ at[w] = "work"
    /\ resultQueue' = Append(resultQueue, item[w])
    /\ at' = [at EXCEPT ![w] = "recycle"]
    /\ UNCHANGED <<store, hands, item, workQueue, browserQueue, died, marker, flow, counts, chain>>

\* A browser worker's result; it may have no context yet, or go on to recycle the one it has.
BrowserDone(w) ==
    /\ Working /\ w \in Browsers /\ at[w] = "work"
    /\ resultQueue' = Append(resultQueue, item[w])
    /\ \E place \in {"get", "recycle"} : Put(w, place, NoLink)
    /\ UNCHANGED <<store, hands, workQueue, browserQueue, died, marker, flow, counts, chain>>

Recycled(w) ==
    /\ Working /\ at[w] = "recycle"
    /\ at' = [at EXCEPT ![w] = "get"]
    /\ UNCHANGED <<store, hands, item, queues, died, marker, flow, counts, chain>>

\* An error outside the request or the page (`except Exception` of both loops): a link in hand goes
\* back, to the fallback workers' queue or to the one the worker reads.
Dies(w) ==
    /\ Working /\ at[w] \in {"work", "recycle"}
    /\ Put(w, "gone", NoLink)
    /\ died' = TRUE
    /\ IF item[w] = NoLink THEN UNCHANGED <<workQueue, browserQueue>>
       ELSE IF UseRequest
            THEN browserQueue' = Append(browserQueue, item[w]) /\ UNCHANGED workQueue
            ELSE workQueue' = Append(workQueue, item[w]) /\ UNCHANGED browserQueue
    /\ UNCHANGED <<store, hands, resultQueue, marker, flow, counts, chain>>

\* Without requests a worker opens its context first, and returns when it cannot.
Opens(w) ==
    /\ Working /\ at[w] = "open"
    /\ \/ at' = [at EXCEPT ![w] = "get"] /\ UNCHANGED died
       \/ at' = [at EXCEPT ![w] = "gone"] /\ died' = TRUE
    /\ UNCHANGED <<store, hands, item, queues, marker, flow, counts, chain>>

\* A cancelled worker ends, once its request is over; an error of that request does not turn the
\* cancellation into a result.
Stopped(w) ==
    /\ pc = "shutdown" /\ ~Gone(w)
    /\ Put(w, "gone", NoLink)
    /\ UNCHANGED <<store, hands, queues, died, marker, flow, counts, chain>>

WorkerStep(w) ==
    \/ RequestTake(w) \/ BrowserTake(w) \/ RequestDone(w) \/ BrowserDone(w)
    \/ Recycled(w) \/ Opens(w) \/ Stopped(w)

\* _finalize_hybrid_workers: the fallback workers' end markers follow the last request worker.
MarkEnds ==
    /\ marker = "requests" /\ Working
    /\ \A w \in Requests : Gone(w)
    /\ browserQueue' = browserQueue \o EndMarkers(Cardinality(Browsers))
    /\ marker' = "browsers"
    /\ UNCHANGED <<store, hands, workQueue, resultQueue, crew, flow, counts, chain>>

Released ==
    /\ marker = "browsers" /\ Working
    /\ \A w \in Browsers : Gone(w)
    /\ marker' = "over"
    /\ UNCHANGED <<store, hands, queues, crew, flow, counts, chain>>

-----------------------------------------------------------------------------
(* The pass: start, results, saves, shutdown, final save.                  *)

Goto(place) == pc' = place
Raise(e) == err' = e
Same == <<store, hands, queues, crew, marker>>

\* Where a worker of this run begins: a browser worker without requests opens its context.
FirstPlace(w) ==
    IF w \notin hands THEN "gone" ELSE IF UseRequest THEN "get" ELSE "open"

Start ==
    /\ pc = "start"
    /\ Goto("consume")
    /\ at' = [w \in Workers |-> FirstPlace(w)]
    /\ marker' = IF Hybrid THEN "requests" ELSE "none"
    /\ UNCHANGED <<store, hands, queues, item, died, err, cut, cancels, complete, counts, chain>>

\* Playwright, or in a browser run Chromium, cannot be started.
StartFails ==
    /\ pc = "start"
    /\ Goto("shutdown") /\ Raise("failed")
    /\ UNCHANGED <<Same, cut, cancels, complete, counts, chain>>

\* record_result: counted, written to the open workbook or the session's buffer.
TakeResult ==
    /\ pc = "consume" /\ resultQueue # <<>> /\ processed < Total
    /\ LET l == Head(resultQueue) IN
       /\ times' = [times EXCEPT ![l] = @ + 1]
       /\ buffered' = buffered \cup {l}
       /\ unsaved' = unsaved \cup {l}
    /\ processed' = processed + 1
    /\ resultQueue' = Tail(resultQueue)
    /\ Goto("result")
    /\ UNCHANGED <<store, hands, workQueue, browserQueue, crew, marker, err, cut, cancels, complete,
                   givenUp, stored, reported, losses>>

\* broadcast_result is over; autosave_if_due may save, but not after the last result.
ResultTold ==
    /\ pc = "result"
    /\ Goto("consume") \/ (processed < Total /\ Goto("save"))
    /\ UNCHANGED <<Same, err, cut, cancels, complete, counts, chain>>

\* wait_for gives up on result_queue.get; other tasks may run before the loop goes on.
WaitOver ==
    /\ pc = "consume" /\ resultQueue = <<>> /\ processed < Total
    /\ Goto("late")
    /\ UNCHANGED <<Same, err, cut, cancels, complete, counts, chain>>

\* Mutant: workers that are gone count as alive.
WaitForever ==
    /\ pc = "late"
    /\ Goto("consume")
    /\ UNCHANGED <<Same, err, cut, cancels, complete, counts, chain>>

\* Some worker is alive.
WaitAgain ==
    /\ pc = "late" /\ ~AllGone
    /\ Goto("consume")
    /\ UNCHANGED <<Same, err, cut, cancels, complete, counts, chain>>

\* Links without a result.
Remaining == {l \in Links : times[l] = 0}

\* No worker is alive: abandon_remaining records an error for every remaining link.
Abandon ==
    /\ pc = "late" /\ AllGone
    /\ givenUp' = Remaining
    /\ times' = [l \in Links |-> IF l \in Remaining THEN 1 ELSE times[l]]
    /\ processed' = processed + Cardinality(Remaining)
    /\ buffered' = buffered \cup Remaining
    /\ unsaved' = unsaved \cup Remaining
    /\ Goto("join")
    /\ UNCHANGED <<Same, err, cut, cancels, complete, stored, reported, losses>>

LoopOver ==
    /\ pc = "consume" /\ processed >= Total
    /\ Goto("join")
    /\ UNCHANGED <<Same, err, cut, cancels, complete, counts, chain>>

\* A hybrid run waits for its markers' task, the others for their workers up to a timeout.
Joined ==
    /\ pc = "join"
    /\ Hybrid => marker = "over"
    /\ Goto("shutdown")
    /\ complete' = TRUE
    /\ UNCHANGED <<Same, err, cut, cancels, counts, chain>>

\* An error in the loop itself.
LoopFails ==
    /\ pc \in {"result", "consume"}
    /\ Goto("shutdown") /\ Raise("failed")
    /\ UNCHANGED <<Same, cut, cancels, complete, counts, chain>>

\* Mutant: the pools are released before the workers have ended.
JoinedWorkersEarly ==
    /\ pc = "shutdown"
    /\ marker' = "over"
    /\ Goto(IF ~complete /\ unsaved # {} THEN "stopSave" ELSE "release")
    /\ UNCHANGED <<store, hands, queues, crew, err, cut, cancels, complete, counts, chain>>

\* Mutant: an interrupted pass does not save.
JoinedWorkersUnsaved ==
    /\ pc = "shutdown" /\ AllGone
    /\ marker' = "over"
    /\ Goto("release")
    /\ UNCHANGED <<store, hands, queues, crew, err, cut, cancels, complete, counts, chain>>

\* _shutdown_scan has cancelled and joined the workers. Only an interrupted pass saves here.
JoinedWorkers ==
    /\ pc = "shutdown" /\ AllGone
    /\ marker' = "over"
    /\ Goto(IF ~complete /\ unsaved # {} THEN "stopSave" ELSE "release")
    /\ UNCHANGED <<store, hands, queues, crew, err, cut, cancels, complete, counts, chain>>

\* Browser closed, proxies and cookies of the run dropped, driver stopped, which may fail. A
\* complete pass that failed or was cancelled meanwhile gets no final save: it saves now.
ReleasedPools ==
    /\ pc = "release"
    /\ err' \in IF err = "none" THEN {"none", "failed"} ELSE {err}
    /\ Goto(IF err' = "none" THEN IF store THEN "finalSave" ELSE "prepare"
            ELSE IF complete /\ unsaved # {} THEN "lateSave" ELSE "end")
    /\ UNCHANGED <<Same, cut, cancels, complete, counts, chain>>

\* _prepare_final_workbook, in a thread. Cancelled, the results are saved without it.
Prepared ==
    /\ pc = "prepare"
    /\ IF cut THEN /\ Raise("cancelled") /\ cut' = FALSE
                   /\ Goto(IF unsaved # {} THEN "prepareSave" ELSE "end")
              ELSE Goto("notes") /\ UNCHANGED <<err, cut>>
    /\ UNCHANGED <<Same, cancels, complete, counts, chain>>

\* The last of its notes is broadcast.
NotesTold ==
    /\ pc = "notes"
    /\ Goto("finalSave")
    /\ UNCHANGED <<Same, err, cut, cancels, complete, counts, chain>>

-----------------------------------------------------------------------------
(* Saves: autosave_if_due, save_pending_results, the final save.           *)

SavePc == {"save", "stopSave", "lateSave", "prepareSave", "finalSave"}
HookPc == {"hook", "stopHook", "lateHook", "prepareHook", "finalHook"}
Hook == [save |-> "hook", stopSave |-> "stopHook", lateSave |-> "lateHook",
         prepareSave |-> "prepareHook", finalSave |-> "finalHook"]
AfterHook == [hook |-> "consume", stopHook |-> "release", lateHook |-> "end",
              prepareHook |-> "end", finalHook |-> "end"]

\* Mutant: the rows of a failed save are reported.
SaveFailsReported ==
    /\ pc \in SavePc
    /\ saveFailed' = TRUE /\ reported' = reported \cup unsaved
    /\ cut' = FALSE
    /\ IF pc = "save" THEN Goto("consume") /\ UNCHANGED err
       ELSE Goto(IF pc = "stopSave" THEN "release" ELSE "end") /\ Raise("failed")
    /\ UNCHANGED <<Same, cancels, complete, counts, buffered, unsaved, stored, notesCut>>

\* Mutant: a failed final save is only logged.
SaveFailsQuietly ==
    /\ pc \in SavePc
    /\ saveFailed' = TRUE
    /\ cut' = FALSE
    /\ Goto(IF pc = "save" THEN "consume" ELSE IF pc = "stopSave" THEN "release" ELSE "end")
    /\ UNCHANGED <<Same, err, cancels, complete, counts, buffered, unsaved, stored, reported, notesCut>>

\* The save returns (True, None). rows_saved reports the rows, unless a cancellation waited for it.
SaveDone ==
    /\ pc \in SavePc
    /\ stored' = stored \cup buffered /\ buffered' = {}
    /\ IF cut
       THEN /\ Goto(IF pc = "save" THEN "shutdown" ELSE "end")
            /\ Raise("cancelled") /\ cut' = FALSE
            /\ UNCHANGED <<unsaved, reported>>
       ELSE /\ Goto(Hook[pc])
            /\ reported' = reported \cup unsaved /\ unsaved' = {}
            /\ UNCHANGED <<err, cut>>
    /\ UNCHANGED <<Same, cancels, complete, counts, losses>>

\* It returns (False, reason): the results stay in memory. finish_pending_task raises the error of
\* the save, which save_workbook turns into this value: a cancellation that waited is dropped.
SaveFails ==
    /\ pc \in SavePc
    /\ saveFailed' = TRUE
    /\ cut' = FALSE
    /\ IF pc = "save" THEN Goto("consume") /\ UNCHANGED err
       ELSE Goto(IF pc = "stopSave" THEN "release" ELSE "end") /\ Raise("failed")
    /\ UNCHANGED <<Same, cancels, complete, counts, buffered, unsaved, stored, reported, notesCut>>

HookDone ==
    /\ pc \in HookPc
    /\ Goto(AfterHook[pc])
    /\ UNCHANGED <<Same, err, cut, cancels, complete, counts, chain>>

-----------------------------------------------------------------------------
(* A cancellation of the pass, by the user or by the stall watchdog.       *)

CancelLoop ==
    /\ pc \in {"start", "consume", "result", "late", "hook", "join"}
    /\ Goto("shutdown") /\ Raise("cancelled")
    /\ UNCHANGED <<cut, chain>>

\* Inside an owned cleanup task: it is finished first.
CancelOwned ==
    /\ pc \in {"shutdown", "stopSave", "stopHook", "release", "lateSave", "lateHook"}
    /\ err' = IF err = "none" THEN "cancelled" ELSE err
    /\ UNCHANGED <<pc, cut, chain>>

\* Inside a workbook save or the preparation of the final one: the thread is waited for.
CancelSave ==
    /\ \/ pc \in {"save", "prepareSave", "finalSave"} /\ ~store
       \/ pc = "prepare"
    /\ cut' = TRUE
    /\ UNCHANGED <<pc, err, chain>>

\* Inside a flush: flush has emptied the buffer, and puts nothing back for a cancellation. The
\* transaction is rolled back, unless its commit was already on the way.
CancelFlush ==
    /\ pc \in {"save", "finalSave"} /\ store
    /\ stored' \in {stored, stored \cup buffered}
    /\ buffered' = {}
    /\ Goto(IF pc = "save" THEN "shutdown" ELSE "end") /\ Raise("cancelled")
    /\ UNCHANGED <<cut, unsaved, reported, losses>>

CancelLast ==
    /\ pc \in {"prepareHook", "finalHook"}
    /\ Goto("end") /\ Raise("cancelled")
    /\ UNCHANGED <<cut, chain>>

\* While the notes of the preparation are told: no save follows.
CancelNotes ==
    /\ pc = "notes"
    /\ notesCut' = TRUE
    /\ Goto("end") /\ Raise("cancelled")
    /\ UNCHANGED <<cut, buffered, unsaved, stored, reported, saveFailed>>

\* While save_workbook tells that the save failed.
CancelWarning ==
    /\ pc \in {"prepareSave", "finalSave"} /\ ~store
    /\ saveFailed' = TRUE
    /\ cut' = FALSE
    /\ Goto("end") /\ Raise("cancelled")
    /\ UNCHANGED <<buffered, unsaved, stored, reported, notesCut>>

Cancel ==
    /\ cancels < MaxCancels
    /\ cancels' = cancels + 1
    /\ \/ CancelLoop \/ CancelOwned \/ CancelSave \/ CancelFlush \/ CancelLast
       \/ CancelNotes \/ CancelWarning
    /\ UNCHANGED <<Same, complete, counts>>

-----------------------------------------------------------------------------

PassStep ==
    \/ Start \/ TakeResult \/ ResultTold \/ WaitOver \/ WaitAgain \/ Abandon \/ LoopOver \/ Joined
    \/ JoinedWorkers \/ ReleasedPools \/ Prepared \/ NotesTold \/ SaveDone \/ SaveFails \/ HookDone

Next ==
    \/ \E w \in Workers : WorkerStep(w) \/ Dies(w)
    \/ MarkEnds \/ Released
    \/ PassStep \/ StartFails \/ LoopFails \/ Cancel
    \/ pc = "end" /\ UNCHANGED vars

Spec == Init /\ [][Next]_vars

\* Requests, pages and saves have timeouts; the event loop resumes whoever can go on.
Fairness ==
    /\ \A w \in Workers : WF_vars(WorkerStep(w))
    /\ WF_vars(MarkEnds \/ Released)
    /\ WF_vars(PassStep)

FairSpec == Spec /\ Fairness

-----------------------------------------------------------------------------

TypeOK ==
    /\ store \in BOOLEAN /\ hands \subseteq Workers
    /\ {workQueue, browserQueue, resultQueue} \subseteq Seq(Links \cup {NoLink})
    /\ at \in [Workers -> {"open", "get", "work", "recycle", "gone"}]
    /\ item \in [Workers -> Links \cup {NoLink}]
    /\ marker \in {"none", "requests", "browsers", "over"}
    /\ pc \in SavePc \cup HookPc \cup {"start", "consume", "result", "late", "join", "shutdown",
                                      "release", "prepare", "notes", "end"}
    /\ err \in {"none", "cancelled", "failed"}
    /\ {cut, complete, died, saveFailed, notesCut} \subseteq BOOLEAN
    /\ cancels \in 0 .. MaxCancels
    /\ processed \in 0 .. Total
    /\ times \in [Links -> 0 .. 2]
    /\ {buffered, unsaved, stored, reported, givenUp} \subseteq SUBSET Links

Recorded == {l \in Links : times[l] > 0}

\* Every link is recorded at most once, whatever dies and whichever queue it goes back to, and the
\* counter the loop ends on counts exactly the links recorded.
RecordedOnce ==
    /\ \A l \in Links : times[l] <= 1
    /\ processed = Cardinality(Recorded)

\* A pass that ends normally has recorded, saved and reported every link.
DoneCoversAll == pc = "end" /\ err = "none" => reported = Links /\ stored = Links

\* The link the pass still owes a result for is somewhere: in a queue a worker will read, in a
\* worker's hands or waiting to be recorded, unless a worker died. So a link is given up only when
\* a worker died, or when its result came in as the last wait for it ended.
GivenUpOnlyIfDead == givenUp \subseteq ReadLinks(resultQueue) \/ died

\* No link is recorded twice, and none is given up while anybody could still report it.
LinksAccounted == TypeOK /\ RecordedOnce /\ GivenUpOnlyIfDead

\* "Never replace the shared proxy pool while that HTTP work is alive."
PoolIsFree == pc \in {"release", "prepare", "notes", "finalSave", "end"} => AllGone

\* "A row enters rows only after the workbook save that wrote it succeeded": what a pass over a
\* workbook reports to the journal is in the file.
ReportedIsInFile == ~store => reported \subseteq stored

\* "Write results not yet on disk (a stopped run gets no final save)": a pass over a workbook that
\* is cancelled has saved every result it recorded, unless a save failed. It is refuted: nothing saves
\* after a cancellation that arrives while the notes of the preparation are told.
StoppedKeepsResults ==
    pc = "end" /\ err = "cancelled" /\ ~store /\ ~saveFailed => Recorded \subseteq stored

\* So it does at every other await, inside its saves, its preparation and its shutdown.
ElsewhereKeepsResults == ~notesCut => StoppedKeepsResults

\* What a pass reports is in the file and, wherever it is cancelled but in its notes, the results it
\* recorded are not lost.
NothingLost == ReportedIsInFile /\ DoneCoversAll /\ ElsewhereKeepsResults

\* Every pass ends, however many workers die.
PassEnds == <>(pc = "end")

\* "A row enters rows only after the ... save that wrote it succeeded", store sessions included.
ReportedIsStored == reported \subseteq stored

\* "Wait for owned cleanup/write work before propagating cancellation": a pass that was cancelled
\* does not end as if nothing had happened.
CancelPropagates == pc = "end" /\ cancels > 0 => err # "none"

-----------------------------------------------------------------------------

Promise == INSTANCE PassPromise WITH
    Rows <- Links,
    sure <- ~store,
    waiting <- unsaved,
    kept <- stored,
    told <- reported,
    failed <- saveFailed \/ notesCut,
    how <- IF pc # "end" THEN "running" ELSE IF err = "none" THEN "completed" ELSE "broken"

\* What scan_service.py relies on: a pass records a link once, tells the journal of it once and with its save,
\* and owes nothing when it ends, neither normally nor cancelled at any of its awaits but one: cancelled
\* while it tells the notes of its preparation it ends as if its last save had failed.
KeepsPromise == Promise!Spec
=============================================================================
