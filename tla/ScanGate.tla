------------------------------ MODULE ScanGate ------------------------------
(***************************************************************************)
(* The process-wide gates of riviu/scan_state.py and every caller that     *)
(* passes through them: the /ws start command, the scheduler's run_job,    *)
(* scans Riviu Data asks for (internal_scan.start_scan), the resume of an  *)
(* interrupted scan, and the source mutations of riviu/api.                *)
(*                                                                         *)
(* All of this is one asyncio program: a step of the model is the code     *)
(* between two suspension points, so a check and the hold it precedes are  *)
(* one step exactly where the code has no await between them.              *)
(*                                                                         *)
(* A starter stands for one caller; it has at most one scan at a time, and *)
(* that scan (the task and its run id) is named by the starter.            *)
(***************************************************************************)
EXTENDS FiniteSets

CONSTANTS
    Platforms,    \* tiktok, threads
    LoginChecked, \* platforms whose cookie is checked with a request at start (TikTok)
    Postgres,     \* Riviu Data storage (one lane per platform) or workbook storage
    WsClients,    \* /ws connections that send "start"
    Jobs,         \* scheduler slots
    Internals,    \* scans requested by Riviu Data (they exist on Postgres storage only)
    Resumers,     \* journals found at server start
    SourceOps,    \* requests that change the source: select, upload, sync, cookies
    Single,       \* SINGLE_LANE
    NoRun

Starters == WsClients \cup Jobs \cup Internals \cup Resumers

ASSUME GateAssumption ==
    /\ Postgres \in BOOLEAN
    /\ Platforms # {}
    /\ LoginChecked \subseteq Platforms
    /\ Single \notin Platforms
    /\ NoRun \notin Starters
    /\ WsClients \cap (Jobs \cup Internals \cup Resumers) = {}
    /\ Jobs \cap (Internals \cup Resumers) = {}
    /\ Internals \cap Resumers = {}
    /\ ~Postgres => Internals = {}

Lanes == IF Postgres THEN Platforms \cup {Single} ELSE {Single}
ScanLanes == IF Postgres THEN Platforms ELSE {Single}
LaneOf(p) == IF Postgres THEN p ELSE Single

\* Where a starter's platform stands before its first start.
AnyPlatform == CHOOSE p \in Platforms : TRUE

VARIABLES
    starting,    \* lane -> Lane.starting (SCAN_STARTING for the single lane)
    running,     \* lane -> its ConnectionManager.running
    laneRun,     \* lane -> the run of lane.task and of the manager's context
    sourceBusy,  \* SOURCE_BUSY
    opPc,        \* source operation -> outside or inside source_operation()
    pc,          \* starter -> where its start has got to
    platform,    \* starter -> platform of its start and of its scan
    holdLane,    \* starter -> lane of its outer scan_starting()
    outerPrev,   \* starter -> `previous` of its outer scan_starting()
    innerPrev,   \* starter -> `previous` of the one inside prepare_scan_start
    run,         \* starter -> state of its scan task
    lock         \* platform -> owner of the Postgres advisory lock

gateVars == <<starting, holdLane, outerPrev, innerPrev>>
opVars == <<sourceBusy, opPc>>
runVars == <<running, laneRun, run, lock>>
vars == <<starting, running, laneRun, sourceBusy, opPc, pc, platform,
          holdLane, outerPrev, innerPrev, run, lock>>

OuterPc == {"held", "locked", "session", "ready", "started"}
StarterPc == {"idle", "checked", "waiting"} \cup OuterPc
RunState == {"none", "created", "opening", "locked", "scanning", "closing", "ended",
             "cancelled", "finalizing"}
AliveState == {"created", "opening", "locked", "scanning", "closing", "ended"}

-----------------------------------------------------------------------------
(* The tests of scan_state. A task that is not done keeps its lane busy.   *)

Alive(a) == run[a] \in AliveState
Scanning(a) == run[a] = "scanning"
HasLock(a) == run[a] \in {"locked", "scanning"}

TaskAlive(l) ==
    /\ laneRun[l] # NoRun
    /\ Alive(laneRun[l])
    /\ LaneOf(platform[laneRun[l]]) = l

\* Mutant: a task that has announced its end no longer counts.
LaneBusyNoTask(l) == starting[l] \/ running[l]
LaneBusy(l) == starting[l] \/ running[l] \/ TaskAlive(l)

ScanRunning(p) == starting[Single] \/ LaneBusy(LaneOf(p))
AnyScanRunning == starting[Single] \/ \E l \in ScanLanes : LaneBusy(l)

\* Mutant: a start that ignores source mutations.
StartBlockedByScans(p) == ScanRunning(p)
StartBlocked(p) == ScanRunning(p) \/ sourceBusy
SourceMutationBlocked == AnyScanRunning \/ sourceBusy

(* with scan_starting(...): the outer hold of a start, and the inner one   *)
(* prepare_scan_start takes while it loads a cookie session.               *)
EnterOuter(a, l) ==
    /\ holdLane' = [holdLane EXCEPT ![a] = l]
    /\ outerPrev' = [outerPrev EXCEPT ![a] = starting[l]]
    /\ starting' = [starting EXCEPT ![l] = TRUE]
    /\ UNCHANGED innerPrev

ExitOuter(a) ==
    /\ starting' = [starting EXCEPT ![holdLane[a]] = outerPrev[a]]
    /\ outerPrev' = [outerPrev EXCEPT ![a] = FALSE]
    /\ UNCHANGED <<holdLane, innerPrev>>

EnterInner(a) ==
    LET l == LaneOf(platform[a]) IN
    /\ innerPrev' = [innerPrev EXCEPT ![a] = starting[l]]
    /\ starting' = [starting EXCEPT ![l] = TRUE]
    /\ UNCHANGED <<holdLane, outerPrev>>

\* Mutant: leaving a block clears the hold instead of restoring what it found.
ExitInnerClears(a) ==
    /\ starting' = [starting EXCEPT ![LaneOf(platform[a])] = FALSE]
    /\ innerPrev' = [innerPrev EXCEPT ![a] = FALSE]
    /\ UNCHANGED <<holdLane, outerPrev>>

ExitInner(a) ==
    /\ starting' = [starting EXCEPT ![LaneOf(platform[a])] = innerPrev[a]]
    /\ innerPrev' = [innerPrev EXCEPT ![a] = FALSE]
    /\ UNCHANGED <<holdLane, outerPrev>>

\* Mutant: a start that forgets to assign lane.task.
BeginRunUnassigned(a) ==
    /\ running' = [running EXCEPT ![LaneOf(platform[a])] = TRUE]
    /\ run' = [run EXCEPT ![a] = "created"]
    /\ UNCHANGED laneRun

(* start_scan_task: the run context and the task are created together.     *)
BeginRun(a) ==
    LET l == LaneOf(platform[a]) IN
    /\ running' = [running EXCEPT ![l] = TRUE]
    /\ laneRun' = [laneRun EXCEPT ![l] = a]
    /\ run' = [run EXCEPT ![a] = "created"]

Goto(a, label) == pc' = [pc EXCEPT ![a] = label]

Init ==
    /\ starting = [l \in Lanes |-> FALSE]
    /\ running = [l \in Lanes |-> FALSE]
    /\ laneRun = [l \in Lanes |-> NoRun]
    /\ sourceBusy = FALSE
    /\ opPc = [o \in SourceOps |-> "outside"]
    /\ pc = [a \in Starters |-> "idle"]
    /\ platform = [a \in Starters |-> AnyPlatform]
    /\ holdLane = [a \in Starters |-> Single]
    /\ outerPrev = [a \in Starters |-> FALSE]
    /\ innerPrev = [a \in Starters |-> FALSE]
    /\ run = [a \in Starters |-> "none"]
    /\ lock = [p \in Platforms |-> NoRun]

-----------------------------------------------------------------------------
(* Source mutations: check and hold with no await in between.              *)

SourceBegin(o) ==
    /\ opPc[o] = "outside"
    /\ ~SourceMutationBlocked
    /\ opPc' = [opPc EXCEPT ![o] = "inside"]
    /\ sourceBusy' = TRUE
    /\ UNCHANGED <<gateVars, runVars, pc, platform>>

SourceEnd(o) ==
    /\ opPc[o] = "inside"
    /\ opPc' = [opPc EXCEPT ![o] = "outside"]
    /\ sourceBusy' = FALSE
    /\ UNCHANGED <<gateVars, runVars, pc, platform>>

-----------------------------------------------------------------------------
(* /ws start: checked once, then prepare_scan_start is awaited.            *)

WsCheck(a, p) ==
    /\ pc[a] = "idle" /\ run[a] = "none"
    /\ ~StartBlocked(p)
    /\ platform' = [platform EXCEPT ![a] = p]
    /\ Goto(a, "checked")
    /\ UNCHANGED <<gateVars, runVars, opVars>>

\* The source is resolved; the request uses a saved cookie session.
WsLoadSession(a) ==
    /\ pc[a] = "checked"
    /\ EnterInner(a)
    /\ Goto(a, "session")
    /\ UNCHANGED <<runVars, opVars, platform>>

\* No cookie session, or one more await after it (TikTok's "could not verify" log).
WsBegin(a) ==
    /\ pc[a] \in {"checked", "ready"}
    /\ BeginRun(a)
    /\ Goto(a, "idle")
    /\ UNCHANGED <<gateVars, opVars, platform, lock>>

WsSessionLoaded(a) ==
    /\ pc[a] = "session"
    /\ ExitInner(a)
    /\ \/ BeginRun(a) /\ Goto(a, "idle")
       \/ platform[a] \in LoginChecked /\ Goto(a, "ready") /\ UNCHANGED <<running, laneRun, run>>
       \/ Goto(a, "idle") /\ UNCHANGED <<running, laneRun, run>>     \* SessionError
    /\ UNCHANGED <<opVars, platform, lock>>

\* SourceRequestError or ValueError before any session is loaded.
WsReject(a) ==
    /\ pc[a] = "checked"
    /\ Goto(a, "idle")
    /\ UNCHANGED <<gateVars, runVars, opVars, platform>>

-----------------------------------------------------------------------------
(* Starts that take the hold in the step of the check: run_job,            *)
(* resume_interrupted_scan and internal_scan.start_scan.                   *)

HeldCheck(a, p, l) ==
    /\ pc[a] = "idle" /\ run[a] = "none"
    /\ platform' = [platform EXCEPT ![a] = p]
    /\ EnterOuter(a, l)
    /\ Goto(a, "held")
    /\ UNCHANGED <<runVars, opVars>>

JobCheck(a, p) == ~StartBlocked(p) /\ HeldCheck(a, p, LaneOf(p))

ResumeCheckSingle(a, p) == ~SourceMutationBlocked /\ HeldCheck(a, p, Single)

ResumeCheckLane(a, p) == Postgres /\ ~StartBlocked(p) /\ HeldCheck(a, p, p)

InternalCheck(a, p) == ~StartBlocked(p) /\ HeldCheck(a, p, p)

\* Every failure inside the hold leaves it: nothing to resume, sync failed, bad source.
HeldFail(a) ==
    /\ pc[a] \in {"held", "ready"}
    /\ ExitOuter(a)
    /\ Goto(a, "idle")
    /\ UNCHANGED <<runVars, opVars, platform>>

HeldLoadSession(a) ==
    /\ pc[a] = "held"
    /\ EnterInner(a)
    /\ Goto(a, "session")
    /\ UNCHANGED <<runVars, opVars, platform>>

HeldSessionDone(a) ==
    /\ pc[a] = "session"
    /\ ExitInner(a)
    /\ Goto(a, "ready")
    /\ UNCHANGED <<runVars, opVars, platform>>

\* start_scan_task inside the hold; one more broadcast is awaited before it is left.
HeldBegin(a) ==
    /\ pc[a] \in {"held", "ready"}
    /\ BeginRun(a)
    /\ Goto(a, "started")
    /\ UNCHANGED <<gateVars, opVars, platform, lock>>

HeldRelease(a) ==
    /\ pc[a] = "started"
    /\ ExitOuter(a)
    /\ Goto(a, "waiting")
    /\ UNCHANGED <<runVars, opVars, platform>>

\* The job waits for its task; a resume and an internal scan just return.
HeldReturn(a) ==
    /\ pc[a] = "waiting"
    /\ a \in Jobs => ~Alive(a)
    /\ Goto(a, "idle")
    /\ UNCHANGED <<gateVars, runVars, opVars, platform>>

(* internal_scan.start_scan: the advisory lock first, then the scan_run    *)
(* row; the task is created and the hold left in one step.                 *)
InternalLock(a) ==
    /\ pc[a] = "held"
    /\ lock[platform[a]] = NoRun
    /\ lock' = [lock EXCEPT ![platform[a]] = a]
    /\ Goto(a, "locked")
    /\ UNCHANGED <<gateVars, opVars, running, laneRun, run, platform>>

\* begin_scan_run raised: the lock is released and the connection closed.
InternalRowFail(a) ==
    /\ pc[a] = "locked"
    /\ lock' = [lock EXCEPT ![platform[a]] = NoRun]
    /\ ExitOuter(a)
    /\ Goto(a, "idle")
    /\ UNCHANGED <<opVars, running, laneRun, run, platform>>

InternalBegin(a) ==
    /\ pc[a] = "locked"
    /\ BeginRun(a)
    /\ ExitOuter(a)
    /\ Goto(a, "waiting")
    /\ UNCHANGED <<opVars, platform, lock>>

-----------------------------------------------------------------------------
(* The scan task: run_scraper_safely, or _run_scan of an internal scan.    *)

SetRun(a, state) == run' = [run EXCEPT ![a] = state]

RunFirstStep(a) ==
    /\ run[a] = "created"
    /\ SetRun(a, "opening")
    /\ UNCHANGED <<gateVars, opVars, running, laneRun, pc, platform, lock>>

\* Mutant: the passes begin whoever has the lock.
RunOpenUnlocked(a) ==
    /\ run[a] = "opening"
    /\ SetRun(a, "scanning")
    /\ UNCHANGED <<gateVars, opVars, running, laneRun, pc, platform, lock>>

\* Workbook: the passes begin. Postgres: StoreRun.open takes the platform's lock, or the run
\* fails because another scan has it. An internal scan has had lock and row since its start.
RunOpen(a) ==
    LET p == platform[a] IN
    /\ run[a] = "opening"
    /\ IF Postgres /\ a \notin Internals
       THEN \/ lock[p] = NoRun /\ lock' = [lock EXCEPT ![p] = a] /\ SetRun(a, "locked")
            \/ lock[p] # NoRun /\ SetRun(a, "closing") /\ UNCHANGED lock
       ELSE SetRun(a, "scanning") /\ UNCHANGED lock
    /\ UNCHANGED <<gateVars, opVars, running, laneRun, pc, platform>>

\* begin_scan_run: the scan_run row is written and the passes begin ...
RunBegin(a) ==
    /\ run[a] = "locked"
    /\ SetRun(a, "scanning")
    /\ UNCHANGED <<gateVars, opVars, running, laneRun, pc, platform, lock>>

\* Mutant: a begin that fails, or is cancelled, keeps the lock.
RunBeginFailLocked(a) ==
    /\ run[a] = "locked"
    /\ SetRun(a, "closing")
    /\ UNCHANGED <<gateVars, opVars, running, laneRun, pc, platform, lock>>

\* ... or it raises, or is cancelled: the lock is released and the connection closed.
RunBeginFail(a) ==
    /\ run[a] = "locked"
    /\ SetRun(a, "closing")
    /\ lock' = [lock EXCEPT ![platform[a]] = NoRun]
    /\ UNCHANGED <<gateVars, opVars, running, laneRun, pc, platform>>

\* The run fails or is cancelled before it has the lock: no connection, or the wait for it.
RunFailEarly(a) ==
    /\ run[a] = "opening"
    /\ SetRun(a, "closing")
    /\ UNCHANGED <<gateVars, opVars, running, laneRun, pc, platform, lock>>

\* Mutant: StoreRun.close keeps the lock.
RunPassesEndLocked(a) ==
    /\ run[a] = "scanning"
    /\ SetRun(a, "closing")
    /\ UNCHANGED <<gateVars, opVars, running, laneRun, pc, platform, lock>>

\* The passes end (done, failed or cancelled); StoreRun.close releases the lock.
RunPassesEnd(a) ==
    /\ run[a] = "scanning"
    /\ SetRun(a, "closing")
    /\ lock' = IF Postgres /\ a \notin Internals
               THEN [lock EXCEPT ![platform[a]] = NoRun] ELSE lock
    /\ UNCHANGED <<gateVars, opVars, running, laneRun, pc, platform>>

\* broadcast_status(done) clears `running` before it awaits the sockets.
RunTerminal(a) ==
    /\ run[a] = "closing"
    /\ running' = [running EXCEPT ![LaneOf(platform[a])] = FALSE]
    /\ SetRun(a, "ended")
    /\ UNCHANGED <<gateVars, opVars, laneRun, pc, platform, lock>>

\* The task returns; _close_scan of an internal scan has released its lock.
RunReturn(a) ==
    /\ run[a] = "ended"
    /\ SetRun(a, "none")
    /\ lock' = IF a \in Internals THEN [lock EXCEPT ![platform[a]] = NoRun] ELSE lock
    /\ UNCHANGED <<gateVars, opVars, running, laneRun, pc, platform>>

\* user_cancel_scan reaches a task that has not run its first line: the coroutine never
\* starts, so neither its except nor its finally clauses run.
CancelUnstarted(a) ==
    /\ run[a] = "created"
    /\ laneRun[LaneOf(platform[a])] = a
    /\ SetRun(a, IF a \in Internals THEN "none" ELSE "cancelled")
    /\ UNCHANGED <<gateVars, opVars, running, laneRun, pc, platform, lock>>

\* Mutant: no done callback.
FinalizeNothing(a) ==
    /\ run[a] = "cancelled"
    /\ SetRun(a, "none")
    /\ UNCHANGED <<gateVars, opVars, running, laneRun, pc, platform, lock>>

\* finalize_unstarted_run, the done callback start_scan_task adds ...
FinalizeCheck(a) ==
    LET l == LaneOf(platform[a]) IN
    /\ run[a] = "cancelled"
    /\ SetRun(a, IF laneRun[l] = a /\ running[l] THEN "finalizing" ELSE "none")
    /\ UNCHANGED <<gateVars, opVars, running, laneRun, pc, platform, lock>>

\* ... and the broadcast it schedules.
FinalizeBroadcast(a) ==
    /\ run[a] = "finalizing"
    /\ running' = [running EXCEPT ![LaneOf(platform[a])] = FALSE]
    /\ SetRun(a, "none")
    /\ UNCHANGED <<gateVars, opVars, laneRun, pc, platform, lock>>

-----------------------------------------------------------------------------

RunStep(a) ==
    \/ RunFirstStep(a) \/ RunOpen(a) \/ RunFailEarly(a) \/ RunBegin(a) \/ RunBeginFail(a) \/ RunPassesEnd(a)
    \/ RunTerminal(a) \/ RunReturn(a) \/ FinalizeCheck(a) \/ FinalizeBroadcast(a)

WsStep(a) == WsLoadSession(a) \/ WsBegin(a) \/ WsSessionLoaded(a) \/ WsReject(a)

HeldStep(a) ==
    \/ HeldFail(a) \/ HeldLoadSession(a) \/ HeldSessionDone(a)
    \/ HeldBegin(a) \/ HeldRelease(a) \/ HeldReturn(a)

InternalStep(a) ==
    \/ HeldFail(a) \/ InternalLock(a) \/ InternalRowFail(a) \/ InternalBegin(a) \/ HeldReturn(a)

Next ==
    \/ \E o \in SourceOps : SourceBegin(o) \/ SourceEnd(o)
    \/ \E a \in WsClients : WsStep(a) \/ \E p \in Platforms : WsCheck(a, p)
    \/ \E a \in Jobs : HeldStep(a) \/ \E p \in Platforms : JobCheck(a, p)
    \/ \E a \in Resumers :
          \/ HeldStep(a)
          \/ \E p \in Platforms : ResumeCheckSingle(a, p) \/ ResumeCheckLane(a, p)
    \/ \E a \in Internals : InternalStep(a) \/ \E p \in Platforms : InternalCheck(a, p)
    \/ \E a \in Starters : RunStep(a) \/ CancelUnstarted(a)

Spec == Init /\ [][Next]_vars

\* The event loop resumes every coroutine whose await has completed, every request has a
\* timeout and the watchdog ends a stalled pass; whether anyone asks for a start, or cancels,
\* is not assumed.
Fairness ==
    /\ \A o \in SourceOps : WF_vars(SourceEnd(o))
    /\ \A a \in WsClients : WF_vars(WsStep(a))
    /\ \A a \in Jobs \cup Resumers : WF_vars(HeldStep(a))
    /\ \A a \in Internals : WF_vars(InternalStep(a))
    /\ \A a \in Starters : WF_vars(RunStep(a))

FairSpec == Spec /\ Fairness

-----------------------------------------------------------------------------

TypeOK ==
    /\ starting \in [Lanes -> BOOLEAN]
    /\ running \in [Lanes -> BOOLEAN]
    /\ laneRun \in [Lanes -> Starters \cup {NoRun}]
    /\ sourceBusy \in BOOLEAN
    /\ opPc \in [SourceOps -> {"outside", "inside"}]
    /\ pc \in [Starters -> StarterPc]
    /\ platform \in [Starters -> Platforms]
    /\ holdLane \in [Starters -> Lanes]
    /\ outerPrev \in [Starters -> BOOLEAN]
    /\ innerPrev \in [Starters -> BOOLEAN]
    /\ run \in [Starters -> RunState]
    /\ lock \in [Platforms -> Starters \cup {NoRun}]

\* Who is inside which scan_starting() block.
HoldsOuter(a, l) == a \notin WsClients /\ pc[a] \in OuterPc /\ holdLane[a] = l
HoldsInner(a, l) == pc[a] = "session" /\ LaneOf(platform[a]) = l
Holds(a, l) == HoldsOuter(a, l) \/ HoldsInner(a, l)

\* A lane's scans never overlap: workbook storage "runs one scan at a time", and on Riviu
\* Data "every platform has its own lane" (scan_state docstring).
OneScanPerLane ==
    \A a, b \in Starters :
        Alive(a) /\ Alive(b) /\ LaneOf(platform[a]) = LaneOf(platform[b]) => a = b

\* "Source mutations ... must not overlap any scan": neither a scan task nor a start that
\* is past its check (scan_state docstring).
SourceExcludesScans ==
    \A o \in SourceOps : opPc[o] = "inside" =>
        \A a \in Starters : ~Alive(a) /\ pc[a] \notin (OuterPc \cup {"checked"})

\* One source mutation at a time, and SOURCE_BUSY never drops while one is still inside.
SourceGateHeld ==
    /\ \A o \in SourceOps : opPc[o] = "inside" => sourceBusy
    /\ \A o, q \in SourceOps : opPc[o] = "inside" /\ opPc[q] = "inside" => o = q

\* The start hold of a lane is set exactly while some start is inside its block: it neither
\* drops early nor outlives the last holder.
HoldIsOwned == \A l \in Lanes : starting[l] <=> \E a \in Starters : Holds(a, l)

\* The task a lane points to is the one scan it runs, so a user cancel reaches every scan
\* that is still alive.
CancelReaches == \A a \in Starters : Alive(a) => laneRun[LaneOf(platform[a])] = a

\* The page of a lane is told "running" for as long as a scan of the lane has not announced its end.
RunningIsShown ==
    \A l \in ScanLanes :
        (\E a \in Starters : run[a] \in {"created", "opening", "locked", "scanning", "closing"}
                             /\ LaneOf(platform[a]) = l) => running[l]

\* A scan that is alive is the one its lane shows and cancels, from the creation of its task on.
RunIsTracked == CancelReaches /\ RunningIsShown

\* Even when two starts slip past the gate, Riviu Data's advisory lock lets only one scan of
\* a platform read and write rows.
LockExcludesScans ==
    Postgres => \A a, b \in Starters :
        Scanning(a) /\ Scanning(b) /\ platform[a] = platform[b] => a = b

\* A StoreRun keeps the lock only while its task is alive, whatever way out the task takes.
LockIsOwned ==
    \A p \in Platforms : lock[p] \in Starters \ Internals =>
        platform[lock[p]] = p /\ Alive(lock[p])

\* The lock keeps scans of a platform apart, and no scan that ended keeps it.
LockSound == LockExcludesScans /\ LockIsOwned

\* Every busy lane becomes free again: no hold, flag or task keeps it closed for good.
LaneReopens == \A l \in Lanes : []<>~LaneBusy(l)

\* Every source mutation that begins ends, and the gate is open again.
SourceReopens == []<>~sourceBusy

\* Nothing that ends, fails or is cancelled keeps a lane or the source closed for good.
GateReopens == LaneReopens /\ SourceReopens

-----------------------------------------------------------------------------
(* The inductive strengthening behind the exclusion properties when every  *)
(* start takes its hold in the step of its check (WsClients = {}).         *)

InHold(a) == pc[a] \in OuterPc

\* A start inside its hold has not begun its scan yet, except at its last await.
HoldBeforeRun ==
    \A a \in Starters :
        /\ pc[a] \in {"held", "locked", "session", "ready"} => run[a] = "none"
        /\ InHold(a) => holdLane[a] \in {Single, LaneOf(platform[a])}

\* Only a /ws start waits between its check and its hold.
CheckedIsWs == \A a \in Starters : pc[a] = "checked" => a \in WsClients

\* Two starts are never inside holds of the same lane, nor one beside a hold of every lane.
HoldsDisjoint ==
    \A a, b \in Starters :
        a # b /\ InHold(a) /\ InHold(b) => holdLane[a] # Single /\ holdLane[a] # holdLane[b]

\* Nor is a start inside its hold while another scan runs in its lane.
HoldExcludesRun ==
    \A a, b \in Starters :
        a # b /\ InHold(a) /\ Alive(b) =>
            holdLane[a] # Single /\ LaneOf(platform[a]) # LaneOf(platform[b])

\* Leaving a block restores what was true before it: free outside, held if nested.
PreviousIsRight ==
    \A a \in Starters :
        /\ InHold(a) => ~outerPrev[a]
        /\ pc[a] = "session" => innerPrev[a] = (holdLane[a] = LaneOf(platform[a]))

SourceBusyIsOwned == sourceBusy => \E o \in SourceOps : opPc[o] = "inside"

ExclInv ==
    /\ HoldBeforeRun
    /\ CheckedIsWs
    /\ HoldsDisjoint
    /\ HoldExcludesRun
    /\ PreviousIsRight
    /\ HoldIsOwned
    /\ CancelReaches
    /\ OneScanPerLane
    /\ SourceExcludesScans
    /\ SourceGateHeld
    /\ SourceBusyIsOwned

GateInv == TypeOK /\ ExclInv

(* The strengthening behind LockExcludesScans, /ws starts included.        *)

RunAfterStart ==
    \A a \in Starters :
        pc[a] \in {"checked", "held", "locked", "session", "ready"} => run[a] = "none"

\* The platform's lock is in the hands of the run that uses it.
LockFollowsRun ==
    Postgres => \A a \in Starters :
        /\ HasLock(a) => lock[platform[a]] = a
        /\ a \in Internals => run[a] # "locked"
        /\ a \in Internals /\ (Alive(a) \/ pc[a] = "locked") => lock[platform[a]] = a

LockInv == TypeOK /\ RunAfterStart /\ LockFollowsRun
=============================================================================
