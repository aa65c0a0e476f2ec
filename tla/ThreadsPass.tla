---------------------------- MODULE ThreadsPass ----------------------------
(***************************************************************************)
(* One pass of the Threads scanner: _run_threads_scraper of               *)
(* riviu/platforms/threads.py. One task per post asks Threads over HTTP,   *)
(* asks once more, and falls back to Chromium; the tasks share the page    *)
(* slots (_RouteSlots) and the routes, which an HTTP 429 retires; the      *)
(* result loop records, checkpoints, stops and cleans up.                  *)
(*                                                                         *)
(* An answer is kept as "full" (nothing more to ask), "thin" (a core       *)
(* number is missing, or the connection failed) or "auth" (the cookie      *)
(* session is refused); the numbers themselves are in ThreadsPage.         *)
(***************************************************************************)
EXTENDS Integers, FiniteSets, Sequences

CONSTANTS
    Total,      \* len(items)
    Proxies,    \* len(proxies); 0 is a direct run
    Workers,    \* the page slots: workers
    Modes,      \* "request", "hybrid", "browser"
    Sessions,   \* with a cookie session (TRUE) or anonymous (FALSE)
    Stores,     \* results go to a store session (TRUE) or to a workbook (FALSE)
    MaxFails    \* bound: saves of one pass that fail

ASSUME ThreadsAssumption ==
    /\ Total \in Nat \ {0} /\ Proxies \in Nat /\ Workers \in Nat \ {0}
    /\ Modes \subseteq {"request", "hybrid", "browser"}
    /\ Sessions \subseteq BOOLEAN /\ Stores \subseteq BOOLEAN /\ MaxFails \in Nat

Items == 1 .. Total
BrowserFallbackLimit == 2

VARIABLES
    mode, session, store,
    at,        \* item -> the await its task is in, or how it ended
    route,     \* item -> the route of its URL
    answer,    \* item -> what it has been told
    free,      \* _RouteSlots._free
    waiters,   \* _RouteSlots._waiters: TRUE the fallbacks, FALSE the HTTP work
    granted,   \* items whose future is resolved and whose task has not resumed
    retired,   \* routes an HTTP 429 retired
    pc,        \* the await of the pass itself
    taken,     \* items whose task the result loop has seen
    unsaved,   \* unsaved_rows, as items
    dirty,
    saved,     \* items whose row is in the file or the database
    reported,  \* items handed to on_rows_saved
    stopped,   \* stop_reason is set
    cut,       \* a cancellation waits for the save or the summary under way
    err,       \* how the pass ends
    fails,     \* saves that failed
    asked      \* item -> the routes its requests went over

config == <<mode, session, store>>
slots == <<free, waiters, granted>>
tasks == <<at, route, answer, slots, retired, asked>>
book == <<unsaved, dirty, saved, reported, fails>>
loop == <<pc, taken, stopped, cut, err>>
vars == <<config, tasks, book, loop>>

\* A cookie session keeps one route; a direct run has one; an anonymous proxy run has one per proxy.
RouteCount == IF Proxies > 0 /\ ~session THEN Proxies ELSE 1
RequestsStopped == Cardinality(retired) >= RouteCount
FallbackLimit ==
    LET most == IF Workers - 1 < BrowserFallbackLimit THEN Workers - 1 ELSE BrowserFallbackLimit
    IN  IF most < 1 THEN 1 ELSE most

Ended == {"done", "skipped", "cancelled"}
Settled == \A i \in Items : at[i] \in Ended
InFallback(i) == at[i] \in {"fbqueued", "fblaunch", "fbpage"}
Holding == {i \in Items : at[i] \in {"pace", "request", "gap", "retry", "launch", "page", "fblaunch", "fbpage"}}
Cancelling == pc \in {"stopping", "cleanup"}

Init ==
    /\ mode \in Modes /\ session \in Sessions /\ store \in Stores
    /\ at = [i \in Items |-> "pick"] /\ route = [i \in Items |-> 0] /\ answer = [i \in Items |-> "none"]
    /\ free = Workers /\ waiters = [b \in BOOLEAN |-> <<>>] /\ granted = {}
    /\ retired = {} /\ asked = [i \in Items |-> {}]
    /\ pc = "wait" /\ taken = {} /\ stopped = FALSE /\ cut = FALSE /\ err = "none"
    /\ unsaved = {} /\ dirty = FALSE /\ saved = {} /\ reported = {} /\ fails = 0

-----------------------------------------------------------------------------
(* _RouteSlots. hold(): a free slot nobody waits for, or a place in a      *)
(* queue. _release(): the slot goes to the first fallback, else to the     *)
(* first HTTP task.                                                        *)

CanEnter == free > 0 /\ waiters[TRUE] = <<>> /\ waiters[FALSE] = <<>>

Enqueue(i, fallback) ==
    /\ waiters' = [waiters EXCEPT ![fallback] = Append(@, i)]
    /\ UNCHANGED <<free, granted>>

Enter == free' = free - 1 /\ UNCHANGED <<waiters, granted>>

\* A slot is given back; `still` are the other grants under way.
GiveBack(still) ==
    IF waiters[TRUE] # <<>> \/ waiters[FALSE] # <<>>
    THEN LET q == waiters[TRUE] # <<>>
         IN  /\ granted' = still \cup {Head(waiters[q])}
             /\ waiters' = [waiters EXCEPT ![q] = Tail(@)] /\ UNCHANGED free
    ELSE free' = free + 1 /\ granted' = still /\ UNCHANGED waiters

\* Mutant: a released slot only serves the queue of the task that held it.
ReleaseOwnQueue(who) ==
    LET q == InFallback(who)
    IN  IF waiters[q] # <<>>
        THEN /\ granted' = granted \cup {Head(waiters[q])}
             /\ waiters' = [waiters EXCEPT ![q] = Tail(@)] /\ UNCHANGED free
        ELSE free' = free + 1 /\ UNCHANGED <<waiters, granted>>

\* `who` gives its slot back.
Release(who) == GiveBack(granted)

-----------------------------------------------------------------------------
(* check(): the task of one post.                                          *)

TaskOnly == UNCHANGED <<config, book, loop>>
Goto(i, place) == at' = [at EXCEPT ![i] = place]
Ask(i) == asked' = [asked EXCEPT ![i] = @ \cup {route[i]}]
Hear(i, kind) == answer' = [answer EXCEPT ![i] = kind]

\* Mutant: the URL keeps its round-robin route when that route is retired.
PickRouteBlind(i) == IF RequestsStopped THEN {} ELSE {(i - 1) % RouteCount}

\* pick_route: the round-robin route of the URL, or the next one in use; none once all are retired.
PickRoute(i) ==
    LET inUse == {s \in 0 .. RouteCount - 1 : ((i - 1 + s) % RouteCount) \notin retired}
    IN  {(i - 1 + s) % RouteCount : s \in {s \in inUse : \A t \in inUse : s <= t}}

Begin(i) ==
    /\ ~Cancelling /\ at[i] = "pick"
    /\ IF PickRoute(i) = {}
       THEN Goto(i, "skipped") /\ UNCHANGED <<slots, route>>
       ELSE /\ \E r \in PickRoute(i) : route' = [route EXCEPT ![i] = r]
            /\ IF CanEnter
               THEN Enter /\ Goto(i, IF mode = "browser" THEN "launch" ELSE "pace")
               ELSE Enqueue(i, FALSE) /\ Goto(i, "queued")
    /\ UNCHANGED <<answer, retired, asked>> /\ TaskOnly

\* The queued task resumes with its slot. A browser run looks at its route before it goes on.
Resume(i) ==
    /\ ~Cancelling /\ at[i] = "queued" /\ i \in granted
    /\ IF mode = "browser" /\ route[i] \in retired
       THEN /\ Goto(i, "pick")
            /\ GiveBack(granted \ {i})
       ELSE /\ Goto(i, IF mode = "browser" THEN "launch" ELSE "pace")
            /\ granted' = granted \ {i} /\ UNCHANGED <<free, waiters>>
    /\ UNCHANGED <<route, answer, retired, asked>> /\ TaskOnly

\* pace(): the route may have been retired while the task waited for its turn.
Paced(i) ==
    /\ ~Cancelling /\ at[i] = "pace"
    /\ IF route[i] \in retired
       THEN Goto(i, "pick") /\ Release(i) /\ UNCHANGED asked
       ELSE Goto(i, "request") /\ Ask(i) /\ UNCHANGED slots
    /\ UNCHANGED <<route, answer, retired>> /\ TaskOnly

\* Answers a request or a page can give. Only a cookie session can be refused.
Answers == {"full", "thin", "limit"} \cup (IF session THEN {"auth"} ELSE {})

\* noted() and retire(): an HTTP 429 retires the route for every worker at once.
Noted(i, kind) == retired' = IF kind = "limit" THEN retired \cup {route[i]} ELSE retired

\* Hybrid opens Chromium for a missing core number; the HTTP slot is released first.
AfterRequest(i, kind) ==
    /\ Release(i) /\ Hear(i, IF kind = "limit" THEN "full" ELSE kind)
    /\ Goto(i, IF mode = "hybrid" /\ kind = "thin" THEN "fallback" ELSE "done")

\* _request_check, first request: a transport error or a missing number is asked for once more.
Requested(i) ==
    /\ ~Cancelling /\ at[i] = "request"
    /\ \E kind \in Answers :
        /\ Noted(i, kind)
        /\ \/ AfterRequest(i, kind)
           \/ kind = "thin" /\ Hear(i, kind) /\ Goto(i, "gap") /\ UNCHANGED slots
    /\ UNCHANGED <<route, asked>> /\ TaskOnly

\* Mutant: a route retired during the pause sends the whole check to another one.
GapPicks(i) ==
    /\ ~Cancelling /\ at[i] = "gap"
    /\ IF route[i] \in retired
       THEN Release(i) /\ Goto(i, "pick") /\ UNCHANGED <<asked, answer>>
       ELSE Goto(i, "retry") /\ Ask(i) /\ UNCHANGED <<slots, answer>>
    /\ UNCHANGED <<route, retired>> /\ TaskOnly

\* The pause before the second request; on a route retired meanwhile the first answer stands.
Gap(i) ==
    /\ ~Cancelling /\ at[i] = "gap"
    /\ IF route[i] \in retired
       THEN AfterRequest(i, "thin") /\ UNCHANGED asked
       ELSE Goto(i, "retry") /\ Ask(i) /\ UNCHANGED <<slots, answer>>
    /\ UNCHANGED <<route, retired>> /\ TaskOnly

Retried(i) ==
    /\ ~Cancelling /\ at[i] = "retry"
    /\ \E kind \in Answers : Noted(i, kind) /\ AfterRequest(i, kind)
    /\ UNCHANGED <<route, asked>> /\ TaskOnly

\* fallback_slots, then a slot; a route retired meanwhile keeps the HTTP answer.
Fallback(i) ==
    /\ ~Cancelling /\ at[i] = "fallback"
    /\ Cardinality({j \in Items : InFallback(j)}) < FallbackLimit
    /\ IF ~CanEnter THEN Enqueue(i, TRUE) /\ Goto(i, "fbqueued")
       ELSE IF route[i] \in retired THEN Goto(i, "done") /\ UNCHANGED slots
       ELSE Enter /\ Goto(i, "fblaunch")
    /\ UNCHANGED <<route, answer, retired, asked>> /\ TaskOnly

FallbackResume(i) ==
    /\ ~Cancelling /\ at[i] = "fbqueued" /\ i \in granted
    /\ IF route[i] \in retired
       THEN /\ Goto(i, "done")
            /\ GiveBack(granted \ {i})
       ELSE Goto(i, "fblaunch") /\ granted' = granted \ {i} /\ UNCHANGED <<free, waiters>>
    /\ UNCHANGED <<route, answer, retired, asked>> /\ TaskOnly

\* get_browser: the shared Chromium is up, or could not start.
Launched(i) ==
    /\ ~Cancelling /\ at[i] \in {"launch", "fblaunch"}
    /\ \/ Goto(i, IF at[i] = "launch" THEN "page" ELSE "fbpage") /\ Ask(i) /\ UNCHANGED <<slots, answer>>
       \/ Goto(i, "done") /\ Release(i)
          /\ Hear(i, IF at[i] = "launch" THEN "full" ELSE answer[i]) /\ UNCHANGED asked
    /\ UNCHANGED <<route, retired>> /\ TaskOnly

\* The page is read and its result merged with the HTTP one.
PageRead(i) ==
    /\ ~Cancelling /\ at[i] \in {"page", "fbpage"}
    /\ \E kind \in Answers :
        Noted(i, kind) /\ Hear(i, IF kind = "auth" THEN "auth" ELSE "full")
    /\ Goto(i, "done") /\ Release(i)
    /\ UNCHANGED <<route, asked>> /\ TaskOnly

\* Mutant: a task cancelled with a granted slot does not give it back.
DroppedLeaks(i) ==
    /\ Cancelling /\ at[i] \notin Ended
    /\ Goto(i, "cancelled")
    /\ free' = IF i \in Holding THEN free + 1 ELSE free
    /\ granted' = granted \ {i} /\ UNCHANGED waiters
    /\ UNCHANGED <<route, answer, retired, asked>> /\ TaskOnly

\* A cancelled task ends at its await: its slot, or the slot just granted to it, is given back. The
\* futures in the queues are cancelled with their tasks (CancelTasks), so no waiter is served.
Dropped(i) ==
    /\ Cancelling /\ at[i] \notin Ended
    /\ Goto(i, "cancelled")
    /\ free' = IF i \in Holding \cup granted THEN free + 1 ELSE free
    /\ granted' = granted \ {i} /\ UNCHANGED waiters
    /\ UNCHANGED <<route, answer, retired, asked>> /\ TaskOnly

TaskStep(i) ==
    \/ Begin(i) \/ Resume(i) \/ Paced(i) \/ Requested(i) \/ Gap(i) \/ Retried(i)
    \/ Fallback(i) \/ FallbackResume(i) \/ Launched(i) \/ PageRead(i) \/ Dropped(i)

-----------------------------------------------------------------------------
(* The result loop, the checkpoints, the stop and the cleanup.             *)

StillTasks == UNCHANGED <<config, at, route, answer, free, granted, retired, asked>>
CancelTasks == waiters' = [b \in BOOLEAN |-> <<>>]

Record(who) ==
    /\ unsaved' = unsaved \cup who
    /\ dirty' = (dirty \/ who # {})
    /\ UNCHANGED <<saved, reported, fails>>

Fails(e) == pc' = "cleanup" /\ err' = e /\ CancelTasks

\* The next finished task. A refused cookie session ends the pass; a URL never requested is passed
\* over; after the 429 that retired the last route the loop stops.
Consume(i) ==
    /\ pc = "wait" /\ at[i] \in {"done", "skipped"} /\ i \notin taken
    /\ taken' = taken \cup {i}
    /\ \/ /\ at[i] = "skipped"
          /\ UNCHANGED <<book, pc, stopped, err, waiters>>
       \/ /\ at[i] = "done" /\ answer[i] = "auth"
          /\ Fails("auth") /\ UNCHANGED <<book, stopped>>
       \/ /\ at[i] = "done" /\ answer[i] # "auth"
          /\ Record({i}) /\ UNCHANGED err
          /\ stopped' = RequestsStopped
          /\ IF RequestsStopped THEN pc' = "stopping" /\ CancelTasks ELSE UNCHANGED <<pc, waiters>>
    /\ UNCHANGED cut /\ StillTasks

\* Mutant: the answers already in hand are left out.
SweepNothing ==
    /\ pc = "stopping" /\ Settled
    /\ pc' = "finish" /\ UNCHANGED <<book, taken, stopped, cut, err, waiters>> /\ StillTasks

\* After the stop: every task has ended; the answers in hand are recorded, in the order of the items.
Sweep ==
    LET inHand == {i \in Items : at[i] = "done"} \ taken
        refused == {i \in inHand : answer[i] = "auth"}
        before == {i \in inHand : \A j \in refused : i < j}
    IN  /\ pc = "stopping" /\ Settled
        /\ Record(before)
        /\ taken' = taken \cup before
        /\ IF refused # {} THEN Fails("auth") ELSE pc' = "finish" /\ UNCHANGED <<err, waiters>>
        /\ UNCHANGED <<stopped, cut>> /\ StillTasks

AllTaken ==
    /\ pc = "wait" /\ taken = Items
    /\ pc' = "finish"
    /\ UNCHANGED <<book, taken, stopped, cut, err, waiters>> /\ StillTasks

\* Unsaved results and THREADS_CHECKPOINT_SECONDS since the last save.
Checkpoint ==
    /\ pc = "wait" /\ dirty
    /\ pc' = "saving"
    /\ UNCHANGED <<book, taken, stopped, cut, err, waiters>> /\ StillTasks

Save ==
    /\ dirty' = FALSE
    /\ saved' = saved \cup unsaved /\ reported' = reported \cup unsaved /\ unsaved' = {}
    /\ UNCHANGED fails

\* Mutant: the rows are reported before the store's flush is known to have worked.
SaveFailsReported ==
    /\ fails < MaxFails /\ fails' = fails + 1
    /\ reported' = reported \cup unsaved /\ unsaved' = {} /\ UNCHANGED <<dirty, saved>>

SaveFails == fails < MaxFails /\ fails' = fails + 1 /\ UNCHANGED <<unsaved, dirty, saved, reported>>

\* save_pending in the loop: a workbook that cannot be written ends the pass; a store's rows stay
\* buffered for the next checkpoint. A cancellation that came meanwhile is raised after the save.
Saved ==
    /\ pc = "saving"
    /\ \/ /\ Save \/ (store /\ SaveFails)
          /\ IF cut THEN Fails("cancelled") ELSE pc' = "wait" /\ UNCHANGED <<err, waiters>>
       \/ ~store /\ SaveFails /\ Fails("failed")
    /\ cut' = FALSE
    /\ UNCHANGED <<taken, stopped>> /\ StillTasks

\* The summary tab of a workbook is rebuilt after a complete run and saved by the cleanup.
Finish ==
    /\ pc = "finish"
    /\ pc' = "cleanup" /\ CancelTasks
    /\ IF cut THEN err' = "cancelled" /\ UNCHANGED dirty
       ELSE err' = "completed" /\ dirty' = (dirty \/ (~stopped /\ ~store))
    /\ cut' = FALSE
    /\ UNCHANGED <<unsaved, saved, reported, fails, taken, stopped>> /\ StillTasks

\* Mutant: a pass that was cancelled or refused is cleaned up without its save.
CleanupUnsaved ==
    /\ pc = "cleanup" /\ Settled
    /\ IF dirty /\ err = "completed"
       THEN \/ Save /\ UNCHANGED err
            \/ SaveFails /\ err' = "failed"
       ELSE UNCHANGED <<book, err>>
    /\ pc' = "over"
    /\ UNCHANGED <<taken, stopped, cut, waiters>> /\ StillTasks

\* cleanup(): the tasks are cancelled and gathered, what is unsaved is saved. Its failure replaces
\* the outcome; a cancellation waits for it.
Cleanup ==
    /\ pc = "cleanup" /\ Settled
    /\ IF dirty
       THEN \/ Save /\ UNCHANGED err
            \/ SaveFails /\ err' = "failed"
       ELSE UNCHANGED <<book, err>>
    /\ pc' = "over"
    /\ UNCHANGED <<taken, stopped, cut, waiters>> /\ StillTasks

\* The user's cancellation or the watchdog's, at an await of the pass.
Cancel ==
    \/ /\ pc \in {"wait", "stopping"}
       /\ Fails("cancelled")
       /\ UNCHANGED <<book, taken, stopped, cut>> /\ StillTasks
    \/ /\ pc = "saving" \/ (pc = "finish" /\ ~stopped /\ ~store)
       /\ ~cut /\ cut' = TRUE
       /\ UNCHANGED <<book, pc, taken, stopped, err, waiters>> /\ StillTasks

LoopStep ==
    \/ \E i \in Items : Consume(i)
    \/ Sweep \/ AllTaken \/ Saved \/ Finish \/ Cleanup

Over == pc = "over" /\ UNCHANGED vars

Next == (\E i \in Items : TaskStep(i)) \/ LoopStep \/ Checkpoint \/ Cancel \/ Over

Spec == Init /\ [][Next]_vars

\* Requests, navigations, slots and timers of a check have timeouts of their own, so a task that can go
\* on does, and so does the loop. The calls that read a page or close its context have none: that they
\* return is assumed here, and where they do not the scan watchdog cancels the whole pass. A
\* cancellation may never come and a checkpoint may never be due.
Fairness == (\A i \in Items : WF_vars(TaskStep(i))) /\ WF_vars(LoopStep)
FairSpec == Spec /\ Fairness

-----------------------------------------------------------------------------
(* Properties.                                                             *)

Places == {"pick", "queued", "pace", "request", "gap", "retry", "fallback", "fbqueued",
           "launch", "page", "fblaunch", "fbpage"} \cup Ended

TypeOK ==
    /\ mode \in Modes /\ session \in Sessions /\ store \in Stores
    /\ at \in [Items -> Places] /\ answer \in [Items -> {"none", "full", "thin", "auth"}]
    /\ free \in 0 .. Workers /\ granted \subseteq Items
    /\ retired \subseteq 0 .. RouteCount - 1
    /\ taken \subseteq Items /\ saved \subseteq Items /\ reported \subseteq Items /\ unsaved \subseteq Items
    /\ fails \in 0 .. MaxFails

\* A page slot is never lost, duplicated or left idle: every slot is free, held by one task or granted
\* to one, and none is free while a task still in the run waits for one (_RouteSlots, whose waiters
\* are granted, cancelled and cancelled after the grant).
SlotsConserved ==
    /\ TypeOK
    /\ free + Cardinality(Holding) + Cardinality(granted) = Workers
    /\ free > 0 => waiters[TRUE] = <<>> /\ waiters[FALSE] = <<>>

\* No post is sent over two routes in one pass, not even when an HTTP 429 retires its route between
\* its choice, its request, its second request and its page in Chromium.
OneRoute == \A i \in Items : Cardinality(asked[i]) <= 1

\* "queued URLs are never requested, ... answers already in hand count": after the stop for HTTP 429 as
\* without it, a pass that ends without an error has saved and reported all it was told. It is refuted:
\* the stop cancels a task that waits with its HTTP answer for a second request or for its page.
AnswersInHandCount ==
    pc = "over" /\ err = "completed" => {i \in Items : answer[i] # "none"} \subseteq reported

\* The stop cancelled the task with the answer of its first request, which missed a core number: the
\* task was to ask once more, over HTTP or in Chromium.
CutShort(i) == at[i] = "cancelled" /\ answer[i] = "thin"

\* Only rows that are in the file or the database are reported as saved, and a pass that ends without
\* an error has saved and reported every answer, also after the stop for HTTP 429, but those it cut
\* short; and without that stop every post was answered.
EndKeepsAnswers ==
    /\ reported \subseteq saved
    /\ pc = "over" /\ err = "completed" =>
        /\ \A i \in Items : answer[i] # "none" => i \in reported \/ CutShort(i)
        /\ ~stopped => reported = Items

\* HTTP requests stop at a retired route: when a first or second request starts, its route is in use.
\* docs/threads-scanning.md says it of every request, Chromium's pages included.
NoRequestOnRetired ==
    [][\A i \in Items : at'[i] # at[i] /\ at'[i] \in {"request", "retry", "page", "fbpage"}
           => route[i] \notin retired]_vars

\* Every pass ends, whatever is retired, refused or cancelled.
PassEnds == <>(pc = "over")

-----------------------------------------------------------------------------

Promise == INSTANCE PassPromise WITH
    Rows <- Items,
    sure <- TRUE,
    waiting <- unsaved,
    kept <- saved,
    told <- reported,
    failed <- fails > 0,
    how <- IF pc # "over" THEN "running"
           ELSE IF err # "completed" THEN "broken" ELSE IF stopped THEN "stopped" ELSE "completed"

\* What scan_service.py relies on: a pass records a post once, tells the journal of it once and with its save,
\* and owes nothing when it ends: completed, stopped for HTTP 429, refused or cancelled.
KeepsPromise == Promise!Spec
=============================================================================
