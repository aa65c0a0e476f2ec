----------------------------- MODULE Schedule -----------------------------
(***************************************************************************)
(* The automatic runs of riviu/scheduler.py: a loop that looks at the      *)
(* clock about once a minute, the batches of due slots it starts, one per  *)
(* scan lane, and the scans of a batch, one after another. What else keeps *)
(* a lane busy is in ScanGate: here a run may be skipped at any time.      *)
(*                                                                         *)
(* A slot that falls due is an instance: its platform and its minute. The  *)
(* clock does not run backwards.                                           *)
(***************************************************************************)
EXTENDS Integers

CONSTANTS
    Storages,     \* "workbook", "postgres"
    Day,          \* minutes of a day
    CatchUp,      \* CATCH_UP_LIMIT, in minutes
    Horizon,      \* bound: the last minute
    TimeSets,     \* the slots a platform may be given
    MonthSets,    \* the months its slots may be given: "latest" or a month
    MaxRestarts,  \* bound
    MaxEdits      \* bound: schedules saved

ASSUME ScheduleAssumption ==
    /\ Storages \subseteq {"workbook", "postgres"} /\ Day \in Nat \ {0} /\ CatchUp \in Nat \ {0} /\ Horizon \in Nat
    /\ MaxRestarts \in Nat /\ MaxEdits \in Nat

Platforms == {"tiktok", "threads"}
Newest == "m2"   \* the newest month of Riviu Data
NoTick == -1

VARIABLES
    storage,
    schedule,   \* data/scan_schedule.json
    now,        \* the minute of the clock
    previous,   \* previous_tick
    groups,     \* lanes whose due slots this tick has yet to start or skip
    due,        \* the due slots of this tick
    runners,    \* lane -> its batch
    log,        \* what this server has recorded, by instance and month
    restarts, edits,
    caught,     \* history: instances a tick has seen fall due, since the start
    twice,      \* history: some instance and month was recorded twice
    since,      \* history: the first tick since the start
    gap         \* history: the longest time between two ticks since

clock == <<now, restarts, edits>>
tick == <<previous, groups, due>>
history == <<caught, since, gap>>
vars == <<storage, schedule, clock, tick, runners, log, twice, history>>

\* _lane_groups and scan_state.lane: a lane per platform on Riviu Data, one lane for a workbook.
LaneOf(p) == IF storage = "postgres" THEN p ELSE "all"
Lanes == {LaneOf(p) : p \in Platforms}
NoMonth == "sheet"
Idle == [jobs |-> {}, at |-> "idle", months |-> {}, done |-> {}, month |-> NoMonth]

\* normalize_schedule: distinct times of the day, and distinct months; "latest" comes first, then
\* the newest.
Rank(month) == IF month = "latest" THEN 0 ELSE IF month = "m2" THEN 1 ELSE 2
FirstMonth(months) == CHOOSE m \in months : \A n \in months \ {m} : Rank(m) < Rank(n)
Valid(raw) ==
    \A p \in Platforms : raw[p].times \subseteq 0 .. Day - 1 /\ raw[p].months # {} /\ raw[p].months \subseteq {"latest", "m1", "m2"}

Schedules == {raw \in [Platforms -> [times : TimeSets, months : MonthSets]] : Valid(raw)}

Start ==
    /\ previous = NoTick /\ groups = {} /\ due = {}
    /\ caught = {} /\ since = NoTick /\ gap = 0

Init ==
    /\ storage \in Storages /\ schedule \in Schedules
    /\ now = 0 /\ restarts = 0 /\ edits = 0
    /\ Start /\ runners = [l \in Lanes |-> Idle] /\ log = {} /\ twice = FALSE

-----------------------------------------------------------------------------
(* tick() and due_slots.                                                   *)

\* Mutant: the minute of the previous tick is looked at again.
MinutesAgain(last, t) ==
    IF last = NoTick THEN {t} ELSE IF last >= t THEN {} ELSE IF t - last <= CatchUp THEN last .. t ELSE {t}

\* Mutant: a tick that comes late only looks at its own minute.
MinutesLate(last, t) == IF last # NoTick /\ last >= t THEN {} ELSE {t}

\* The minutes a tick answers for: those since the previous one, unless the loop was down or stalled.
Minutes(last, t) ==
    IF last = NoTick THEN {t}
    ELSE IF last >= t THEN {}
    ELSE IF t - last <= CatchUp THEN last + 1 .. t ELSE {t}

DueSlots(s, last, t) ==
    {i \in [platform : Platforms, minute : Minutes(last, t)] : i.minute % Day \in s[i.platform].times}

\* The clock is read before the schedule is loaded, and is the previous tick from then on.
Tick ==
    /\ groups = {} /\ previous' = now
    /\ due' = DueSlots(schedule, previous, now)
    /\ groups' = {LaneOf(i.platform) : i \in due'}
    /\ since' = (IF since = NoTick THEN now ELSE since)
    /\ gap' = (IF previous # NoTick /\ now - previous > gap THEN now - previous ELSE gap)
    /\ UNCHANGED <<storage, schedule, clock, runners, log, twice, caught>>

Record(keys) == log' = log \cup keys /\ twice' = (twice \/ keys \cap log # {})
Key(i, month) == [platform |-> i.platform, minute |-> i.minute, month |-> month]

\* The order of the due slots of a lane: by minute, TikTok first.
Precedes(a, b) ==
    a.minute < b.minute \/ (a.minute = b.minute /\ a.platform = "tiktok" /\ b.platform = "threads")

FirstJob(jobs) == CHOOSE i \in jobs : \A k \in jobs \ {i} : Precedes(i, k)

JobsOf(l) == {i \in due : LaneOf(i.platform) = l}

\* Mutant: a batch that is still running is replaced.
BatchNever(l) == FALSE

\* running(key): the batch of the lane is not done.
BatchRunning(l) == runners[l].jobs # {}

\* The due slots of one lane: a new batch, or skipped because the last one is still running.
TickGroup(l) ==
    /\ l \in groups /\ groups' = groups \ {l}
    /\ due' = due \ JobsOf(l)
    /\ caught' = caught \cup JobsOf(l)
    /\ IF BatchRunning(l)
       THEN Record({Key(i, "skipped") : i \in JobsOf(l)}) /\ UNCHANGED runners
       ELSE runners' = [runners EXCEPT ![l] = [Idle EXCEPT !.jobs = JobsOf(l)]] /\ UNCHANGED <<log, twice>>
    /\ UNCHANGED <<storage, schedule, clock, previous, since, gap>>

-----------------------------------------------------------------------------
(* _run_sequence, run_months and run_job, for the batch of a lane.         *)

JobOnly == UNCHANGED <<storage, schedule, clock, tick, history>>
Job(l) == FirstJob(runners[l].jobs)
Batch(l, b) == runners' = [runners EXCEPT ![l] = b]
NextJob(l) == [Idle EXCEPT !.jobs = runners[l].jobs \ {Job(l)}]
NextMonth(l) == IF storage = "postgres" THEN [runners[l] EXCEPT !.at = "months"] ELSE NextJob(l)

\* The months of the slot are read when its turn comes; a slot that is gone scans the newest.
JobBegin(l) ==
    /\ runners[l].at = "idle" /\ runners[l].jobs # {}
    /\ LET p == Job(l).platform
           months == IF Job(l).minute % Day \in schedule[p].times THEN schedule[p].months ELSE {"latest"}
       IN  Batch(l, IF storage = "postgres" THEN [runners[l] EXCEPT !.at = "months", !.months = months]
                    ELSE [runners[l] EXCEPT !.at = "start"])
    /\ UNCHANGED <<log, twice>> /\ JobOnly

\* Mutant: "latest" and the same month by name are two scans.
SeenNever(month, done) == FALSE

Seen(month, done) == month \in done

MonthBegin(l) ==
    /\ runners[l].at = "months"
    /\ IF runners[l].months = {} THEN Batch(l, NextJob(l)) /\ UNCHANGED <<log, twice>>
       ELSE LET first == FirstMonth(runners[l].months)
                month == IF first = "latest" THEN Newest ELSE first
                rest == [runners[l] EXCEPT !.months = @ \ {first}]
            IN  \/ IF Seen(month, runners[l].done) THEN Batch(l, rest) /\ UNCHANGED <<log, twice>>
                   ELSE Batch(l, [rest EXCEPT !.at = "start", !.month = month, !.done = @ \cup {month}])
                        /\ UNCHANGED <<log, twice>>
                \* Riviu Data is asked which month is the newest, and may not answer.
                \/ first = "latest" /\ Batch(l, rest) /\ Record({Key(Job(l), "latest")})
    /\ JobOnly

\* run_job: skipped when its lane is busy (ScanGate), failed when the sheet cannot be synced and
\* adopted or the scan not prepared; else its scan begins...
JobStart(l) ==
    /\ runners[l].at = "start"
    /\ \/ Batch(l, NextMonth(l)) /\ Record({Key(Job(l), runners[l].month)})
       \/ Batch(l, [runners[l] EXCEPT !.at = "scan"]) /\ UNCHANGED <<log, twice>>
    /\ JobOnly

\* ... and, one way or another, ends: its result is recorded.
JobScanned(l) ==
    /\ runners[l].at = "scan"
    /\ Batch(l, NextMonth(l)) /\ Record({Key(Job(l), runners[l].month)})
    /\ JobOnly

JobStep(l) == JobBegin(l) \/ MonthBegin(l) \/ JobStart(l) \/ JobScanned(l)

-----------------------------------------------------------------------------
\* save_schedule: the administrator's schedule, once it is valid.
Edit ==
    /\ edits < MaxEdits /\ edits' = edits + 1 /\ schedule' \in Schedules \ {schedule}
    /\ UNCHANGED <<storage, now, restarts, tick, runners, log, twice, history>>

Advance ==
    /\ now < Horizon /\ now' = now + 1
    /\ UNCHANGED <<storage, schedule, restarts, edits, tick, runners, log, twice, history>>

\* The server stops and starts: the loop and its batches are gone, whatever they had not recorded too.
Restart ==
    /\ restarts < MaxRestarts /\ restarts' = restarts + 1
    /\ previous' = NoTick /\ groups' = {} /\ due' = {}
    /\ caught' = {} /\ since' = NoTick /\ gap' = 0
    /\ runners' = [l \in Lanes |-> Idle] /\ log' = {}
    /\ UNCHANGED <<storage, schedule, now, edits, twice>>

Next ==
    \/ Tick
    \/ \E l \in Lanes : TickGroup(l) \/ JobStep(l)
    \/ Edit \/ Advance \/ Restart

Spec == Init /\ [][Next]_vars

LaneStep(l) == l \in Lanes /\ (TickGroup(l) \/ JobStep(l))

\* The event loop runs what is ready, and a scan ends (RunEnds, PassEnds).
FairSpec ==
    /\ Spec /\ WF_vars(Tick)
    /\ \A l \in {"tiktok", "threads", "all"} : WF_vars(LaneStep(l))

-----------------------------------------------------------------------------
(* Properties.                                                             *)

Instances == [platform : Platforms, minute : 0 .. Horizon]
TypeOK ==
    /\ schedule \in Schedules /\ now \in 0 .. Horizon /\ previous \in NoTick .. Horizon
    /\ due \subseteq Instances /\ caught \subseteq Instances /\ groups \subseteq Lanes
    /\ \A l \in Lanes : runners[l].at \in {"idle", "months", "start", "scan"}

\* No slot is run, or skipped, twice for one minute and month, however late the ticks come and however
\* long the batches take (a server that restarts within the minute does run its slots again).
RanOnce == ~twice

\* While ticks come at most CATCH_UP_LIMIT apart no minute is passed over: every slot that fell due
\* since the first tick was caught, also one of a minute no tick has looked at the clock in.
NoneMissed ==
    groups = {} /\ since # NoTick /\ gap <= CatchUp /\ edits = 0 =>
        \A p \in Platforms, m \in since .. previous : m % Day \in schedule[p].times => [platform |-> p, minute |-> m] \in caught

\* Each minute of each slot is run or skipped once.
EachMinuteOnce == TypeOK /\ RanOnce /\ NoneMissed

\* Every slot that was caught gets its entry in the run log: a batch is neither lost nor stuck behind
\* another lane's, also when its slots come faster than its scans end.
CaughtAreLogged ==
    []<>(\A i \in caught : \E k \in log : k.platform = i.platform /\ k.minute = i.minute)

=============================================================================
